--------------------------- MODULE UserContainer ----------------------------
(***************************************************************************)
(* One user's container: scripts/cloud_container.py, with those who use it.  *)
(*                                                                         *)
(* Turns and batches bring the container up (ensure_running) and then execute  *)
(* something in it; the browser hand-off (HandoffThread of cloud_daemon.py)     *)
(* brings it up with a published port; keep_services sees to it on hosts where   *)
(* containers stay up; reap_idle stops it on the others.                       *)
(*                                                                         *)
(* ensure_running is a sequence of podman commands under the user's lock.  But   *)
(* the lock and the time of last use belong to a process, and there are two:     *)
(* the daemon, and the batch runner (cloud_cron.py).  The reaper takes no lock.   *)
(***************************************************************************)
EXTENDS Integers, FiniteSets

CONSTANTS
    Turns, Batches, Handoffs, Keepers,  \* the clients, by kind
    MaxFailures,                        \* bound: podman commands that fail or time out
    Nobody

Client == Turns \cup Batches \cup Handoffs \cup Keepers
Process == {"daemon", "cron"}
ProcessOf(c) == IF c \in Batches THEN "cron" ELSE "daemon"

ASSUME ContainerAssumption ==
    /\ IsFiniteSet(Client) /\ Nobody \notin Client
    /\ Turns \cap (Batches \cup Handoffs \cup Keepers) = {}
    /\ Batches \cap (Handoffs \cup Keepers) = {}
    /\ Handoffs \cap Keepers = {}
    /\ MaxFailures \in Nat

VARIABLES
    pod,        \* podman's state of the container
    outdated,   \* its image, mount or the like is not what config says
    mem,        \* the memory it was created with: config's, or another
    tier,       \* the memory of the user's tier
    published,  \* it publishes the browser's port
    services,   \* the user's services have been started in it
    alwaysOn,   \* config always_on
    lock,       \* each process's lock for this user
    at,         \* where each client is
    seen,       \* the state of the container it goes by
    reaper,     \* where reap_idle is
    failures,   \* podman commands that have failed or timed out
    meddled,    \* history: clients in whose ensure_running, since it looked, someone
                \* without their lock has changed the container
    failed,     \* history: clients one of whose podman commands has failed since
    blind,      \* history: clients who took a failed look for turns for none
    raced,      \* history: turns whose command began while somebody was about to
                \* replace the container
    wronged     \* history: turns that were running when somebody looked, and died of
                \* what he did thereupon

container == <<pod, outdated, mem, published, services>>
slips == <<failed, blind>>
history == <<meddled, slips, raced, wronged>>
containerVars == <<container, tier, alwaysOn, lock, at, seen, reaper, failures, history>>

Inside == {c \in Client : at[c] = "inside"}
Ensuring == {"judge", "stop", "remove", "unwedge", "start", "create"}
Replacing == {"cdpstop", "cdpremove"}

Memory == {"config", "other"}

ContainerInit ==
    /\ pod \in {"none", "running", "exited"}
    /\ outdated \in {pod # "none", FALSE} /\ mem \in Memory /\ tier \in Memory
    /\ published \in {pod = "none", TRUE} /\ services = FALSE
    /\ alwaysOn \in BOOLEAN
    /\ lock = [p \in Process |-> Nobody]
    /\ at = [c \in Client |-> "idle"] /\ seen = [c \in Client |-> "none"]
    /\ reaper = "rest" /\ failures = 0
    /\ meddled = {} /\ failed = {} /\ blind = {} /\ raced = {} /\ wronged = {}

-----------------------------------------------------------------------------
(* podman, as far as the code relies on it.                                  *)

Goto(c, s) == at' = [at EXCEPT ![c] = s]

\* What runs in the container dies with it; c is the client that stops it, if
\* it is one.
Killed(c, s) ==
    /\ at' = [d \in Client |-> CASE d = c -> s [] d \in Inside -> "idle" [] OTHER -> at[d]]
    /\ raced' = raced \ Inside
Wronged(c) ==
    wronged' = IF c \in meddled \cup blind THEN wronged ELSE wronged \cup ((Inside \cap Turns) \ raced)

\* A podman command fails, and nobody looks at its result; and an end is made of what
\* the failures have led to.
Fails == failures < MaxFailures /\ failures' = failures + 1
FailsFor(c) == Fails /\ failed' = failed \cup {c} /\ UNCHANGED blind
Blinds(c) == Fails /\ blind' = blind \cup {c} /\ UNCHANGED failed
Works == UNCHANGED <<failures, slips>>
Settle(c) == failed' = failed \ {c} /\ blind' = blind \ {c}

\* podman stop: "stopping" is where podman 3 is left when conmon dies first.
Stopped(p) == IF p = "running" THEN {"exited", "stopping"} ELSE {p}

\* Everyone who goes by what he saw under another lock, or whose lock the
\* changing party does not have.
Meddle(c) ==
    meddled' = {d \in Client : at'[d] \in Ensuring
                              /\ (d \in meddled \/ c = Nobody \/ ProcessOf(d) # ProcessOf(c))}

-----------------------------------------------------------------------------
(* ensure_running.                                                           *)

Unlock(c) == lock' = [lock EXCEPT ![ProcessOf(c)] = Nobody]
TurnInside == \E c \in Turns : at[c] = "inside"

\* A message, a batch or a hand-off comes; the lock is taken, and the state
\* asked for, "none" if podman does not say.
Look(c) ==
    /\ at[c] \in IF c \in Keepers THEN {"want"} ELSE {"idle", "want"}
    /\ lock[ProcessOf(c)] = Nobody
    /\ lock' = [lock EXCEPT ![ProcessOf(c)] = c]
    /\ \/ seen' = [seen EXCEPT ![c] = pod] /\ Works
       \/ seen' = [seen EXCEPT ![c] = "none"] /\ FailsFor(c)
    /\ Goto(c, "judge")
    /\ meddled' = meddled \ {c}
    /\ UNCHANGED <<container, tier, alwaysOn, reaper, raced, wronged>>

\* The limits of the tier come with turns and with keep_services; the other
\* callers pass none, and get what config says.
Wanted(c) == IF c \in Turns \cup Keepers THEN tier ELSE "config"

\* Why the container would have to be replaced.
Why(c) == outdated \/ (mem # Wanted(c) /\ alwaysOn /\ seen[c] = "running")

\* Whether it may be replaced now, as far as it is seen that a turn is running in it.
\* ReplaceBlindly does not ask.
ReplaceBlindly(c) == seen[c] # "none" /\ pod # "none" /\ Why(c)
Replace(c) == seen[c] # "none" /\ pod # "none" /\ Why(c) /\ ~(seen[c] = "running" /\ TurnInside)

\* ensure_running returns True; keep_services asks for no more.
Ready(c) == IF c \in Keepers THEN "idle" ELSE "ready"

\* What is left to do with a container in this state.
Then(c, st) ==
    CASE st = "running" -> Ready(c)
      [] st = "stopping" -> "unwedge"
      [] st = "exited" /\ mem # Wanted(c) -> "remove"
      [] st = "exited" -> "start"
      [] OTHER -> "create"

Judge(c) ==
    /\ at[c] = "judge"
    /\ IF Replace(c)
       THEN /\ Goto(c, "stop") /\ UNCHANGED <<lock, slips>>
       ELSE /\ Goto(c, Then(c, seen[c]))
            /\ IF seen[c] = "running" THEN Unlock(c) /\ Settle(c) ELSE UNCHANGED <<lock, slips>>
    /\ seen' = [seen EXCEPT ![c] = "none"]
    /\ meddled' = IF at'[c] \notin Ensuring THEN meddled \ {c} ELSE meddled
    /\ UNCHANGED <<container, tier, alwaysOn, reaper, failures, raced, wronged>>

StopOld(c) ==
    /\ at[c] = "stop"
    /\ pod' \in Stopped(pod) /\ services' = FALSE
    /\ Killed(c, "remove") /\ Wronged(c) /\ Meddle(c) /\ Works
    /\ UNCHANGED <<outdated, mem, published, tier, alwaysOn, lock, seen, reaper>>

\* rm -f.
Remove(c) ==
    /\ at[c] = "remove"
    /\ pod' = "none" /\ outdated' = FALSE /\ services' = FALSE
    /\ Killed(c, "create") /\ Wronged(c) /\ Meddle(c) /\ Works
    /\ UNCHANGED <<mem, published, tier, alwaysOn, lock, seen, reaper>>

\* container cleanup, stop -t 0, and the state again.
Unwedge(c) ==
    /\ at[c] = "unwedge"
    /\ pod' = (IF pod = "none" THEN "none" ELSE "exited") /\ services' = FALSE
    /\ Killed(c, Then(c, pod')) /\ Meddle(c) /\ Works
    /\ UNCHANGED <<outdated, mem, published, tier, alwaysOn, lock, seen, reaper, wronged>>

\* start_services, where containers stay up; what it answers is only logged.
StartServices ==
    \/ services' = alwaysOn /\ UNCHANGED failures
    \/ alwaysOn /\ Fails /\ UNCHANGED services

Start(c) ==
    /\ at[c] = "start"
    /\ Unlock(c) /\ Settle(c)
    /\ IF pod \in {"exited", "running"}
       THEN /\ pod' = "running" /\ StartServices
            /\ Goto(c, Ready(c)) /\ Meddle(c)
       ELSE Goto(c, "idle") /\ UNCHANGED <<pod, services, failures>> /\ meddled' = meddled \ {c}
    /\ UNCHANGED <<outdated, mem, published, tier, alwaysOn, seen, reaper, raced, wronged>>

\* podman run: the name must be free.
Create(c) ==
    /\ at[c] = "create"
    /\ Unlock(c) /\ Settle(c)
    /\ IF pod = "none"
       THEN /\ pod' = "running" /\ outdated' = FALSE /\ published' = TRUE /\ mem' = Wanted(c)
            /\ StartServices
            /\ Goto(c, Ready(c)) /\ Meddle(c)
       ELSE Goto(c, "idle") /\ UNCHANGED <<container, failures>> /\ meddled' = meddled \ {c}
    /\ UNCHANGED <<tier, alwaysOn, seen, reaper, raced, wronged>>

-----------------------------------------------------------------------------
(* The clients.                                                              *)

\* turn_argv and exec_shell: past ensure_running, outside the lock.
Exec(c) ==
    /\ at[c] = "ready" /\ c \in Turns \cup Batches
    /\ Goto(c, IF pod = "running" THEN "inside" ELSE "idle")
    /\ raced' = IF c \in Turns /\ \E d \in Client : at[d] \in {"stop", "remove"} \cup Replacing
                THEN raced \cup {c} ELSE raced
    /\ UNCHANGED <<container, tier, alwaysOn, lock, seen, reaper, failures, meddled, slips, wronged>>

\* The command ends, or what was wrong is told.
End(c) ==
    /\ at[c] = "inside"
    /\ Goto(c, "idle")
    /\ raced' = raced \ {c}
    /\ UNCHANGED <<container, tier, alwaysOn, lock, seen, reaper, failures, meddled, slips, wronged>>

\* Seeing to the containers that run only.
KeepRunning(c) ==
    /\ at[c] = "idle" /\ c \in Keepers /\ alwaysOn
    /\ pod = "running" /\ services' = TRUE /\ ~services
    /\ UNCHANGED <<pod, outdated, mem, published, tier, alwaysOn, lock, at, seen, reaper,
                   failures, history>>

\* keep_services, on its round: services are started in a container that runs,
\* any other is brought up; a user without one is left alone.
KeepServices(c) ==
    /\ at[c] = "idle" /\ c \in Keepers /\ alwaysOn /\ pod # "none"
    /\ IF pod = "running"
       THEN services' = TRUE /\ ~services /\ UNCHANGED at
       ELSE Goto(c, "want") /\ UNCHANGED services
    /\ UNCHANGED <<pod, outdated, mem, published, tier, alwaysOn, lock, seen, reaper, failures,
                   history>>

\* ensure_cdp: a container that does not publish the port is replaced unless a
\* turn is seen running in it; then the browser is started.
Cdp(c) ==
    /\ at[c] = "ready" /\ c \in Handoffs
    /\ IF published /\ pod # "none"
       THEN Goto(c, "idle") /\ UNCHANGED lock
       ELSE /\ lock["daemon"] = Nobody
            /\ IF TurnInside THEN Goto(c, "idle") /\ UNCHANGED lock
               ELSE /\ lock' = [lock EXCEPT !["daemon"] = c]
                    /\ Goto(c, "cdpstop")
    /\ UNCHANGED <<container, tier, alwaysOn, seen, reaper, failures, history>>

CdpStop(c) ==
    /\ at[c] = "cdpstop"
    /\ pod' \in Stopped(pod) /\ services' = FALSE
    /\ Killed(c, "cdpremove") /\ Wronged(c) /\ Meddle(c) /\ Works
    /\ UNCHANGED <<outdated, mem, published, tier, alwaysOn, lock, seen, reaper>>

CdpRemove(c) ==
    /\ at[c] = "cdpremove"
    /\ pod' = "none" /\ outdated' = FALSE /\ services' = FALSE
    /\ Killed(c, "want") /\ Wronged(c) /\ Meddle(c) /\ Unlock(c) /\ Settle(c)
    /\ UNCHANGED <<mem, published, tier, alwaysOn, seen, reaper, failures>>

-----------------------------------------------------------------------------
(* podman fails.                                                             *)

\* _turn_running: when podman exec itself fails there is no turn.
JudgeBlind(c) ==
    /\ at[c] = "judge" /\ seen[c] = "running" /\ TurnInside /\ pod # "none" /\ Why(c)
    /\ Blinds(c)
    /\ Goto(c, "stop") /\ seen' = [seen EXCEPT ![c] = "none"]
    /\ UNCHANGED <<container, tier, alwaysOn, lock, reaper, meddled, raced, wronged>>

\* ensure_cdp's own look, likewise.
CdpBlind(c) ==
    /\ at[c] = "ready" /\ c \in Handoffs
    /\ pod # "none" /\ ~published /\ TurnInside
    /\ Blinds(c)
    /\ lock["daemon"] = Nobody /\ lock' = [lock EXCEPT !["daemon"] = c]
    /\ Goto(c, "cdpstop")
    /\ UNCHANGED <<container, tier, alwaysOn, seen, reaper, meddled, raced, wronged>>

\* What comes after a stop, an rm or a cleanup, whatever it has answered.
AfterFailure(c) ==
    CASE at[c] = "stop" -> "remove"
      [] at[c] = "cdpstop" -> "cdpremove"
      [] at[c] = "unwedge" /\ mem = Wanted(c) -> "start"
      [] at[c] = "unwedge" -> "remove"
      [] OTHER -> "create"

CommandFails(c) ==
    /\ at[c] \in {"stop", "remove", "unwedge", "cdpstop"} /\ pod # "none"
    /\ FailsFor(c)
    /\ Goto(c, AfterFailure(c))
    /\ UNCHANGED <<container, tier, alwaysOn, lock, seen, reaper, meddled, raced, wronged>>

\* A podman command takes longer than it may: TimeoutExpired leaves ensure_running
\* and its lock.  Or start or run fails, and ensure_running returns False; or the rm
\* of ensure_cdp, which goes on to ensure_running.
PodmanTimesOut(c) ==
    /\ at[c] \in Ensuring \cup Replacing
    /\ Fails
    /\ Goto(c, "idle") \/ (at[c] = "cdpremove" /\ Goto(c, "want"))
    /\ Unlock(c) /\ Settle(c)
    /\ meddled' = meddled \ {c}
    /\ UNCHANGED <<container, tier, alwaysOn, seen, reaper, raced, wronged>>

-----------------------------------------------------------------------------
(* reap_idle, and what goes on around.                                       *)

ReapLook ==
    /\ reaper = "rest" /\ ~alwaysOn
    /\ pod = "running"
    /\ reaper' = "stop"
    /\ UNCHANGED <<container, tier, alwaysOn, lock, at, seen, failures, history>>

ReapStop ==
    /\ reaper = "stop" /\ reaper' = "check"
    /\ pod' \in Stopped(pod) /\ services' = FALSE
    /\ Killed(Nobody, "idle")
    /\ IF pod = "running" THEN Meddle(Nobody) ELSE UNCHANGED meddled
    /\ UNCHANGED <<outdated, mem, published, tier, alwaysOn, lock, seen, failures, slips,
                   wronged>>

\* A container that is stuck is freed at once.
ReapUnwedge ==
    /\ reaper = "check" /\ reaper' = "rest" /\ UNCHANGED at
    /\ IF pod = "stopping" THEN pod' = "exited" /\ Meddle(Nobody) ELSE UNCHANGED <<pod, meddled>>
    /\ UNCHANGED <<outdated, mem, published, services, tier, alwaysOn, lock, seen, failures,
                   slips, raced, wronged>>

\* The user's tier changes.
TierChanges ==
    /\ tier' \in Memory \ {tier}
    /\ UNCHANGED <<container, alwaysOn, lock, at, seen, reaper, failures, history>>

-----------------------------------------------------------------------------
Ensure(c) ==
    \/ Look(c) \/ Judge(c) \/ StopOld(c) \/ Remove(c) \/ Unwedge(c) \/ Start(c) \/ Create(c)
    \/ Cdp(c) \/ CdpStop(c) \/ CdpRemove(c)
Failing(c) == JudgeBlind(c) \/ CdpBlind(c) \/ CommandFails(c) \/ PodmanTimesOut(c)
Reap == ReapLook \/ ReapStop \/ ReapUnwedge

ContainerNext ==
    \/ \E c \in Client : Ensure(c) \/ Exec(c) \/ End(c) \/ KeepServices(c) \/ Failing(c)
    \/ Reap \/ TierChanges

ContainerSpec == ContainerInit /\ [][ContainerNext]_containerVars

\* Threads go on; keep_services and the reaper come round, and keep_services gets a
\* lock that is free again and again.  No one is bound to send a message.
ContainerFairSpec ==
    /\ ContainerSpec
    /\ \A c \in Client :
          WF_containerVars(at[c] # "idle" /\ Ensure(c)) /\ WF_containerVars(Exec(c) \/ End(c))
    /\ WF_containerVars(ReapStop \/ ReapUnwedge)
    /\ \A c \in Keepers : WF_containerVars(KeepServices(c)) /\ SF_containerVars(Look(c))

-----------------------------------------------------------------------------
(* Properties.                                                               *)

\* Types; and a lock is held by one who is about something under it: no way out
\* of ensure_running and ensure_cdp leaves it locked.
ContainerTypeOK ==
    /\ pod \in {"none", "running", "exited", "stopping"}
    /\ outdated \in BOOLEAN /\ {mem, tier} \subseteq Memory
    /\ published \in BOOLEAN /\ services \in BOOLEAN
    /\ alwaysOn \in BOOLEAN
    /\ lock \in [Process -> Client \cup {Nobody}]
    /\ \A p \in Process : lock[p] # Nobody =>
           ProcessOf(lock[p]) = p /\ at[lock[p]] \in Ensuring \cup Replacing
    /\ at \in [Client -> {"idle", "want", "ready", "inside"} \cup Ensuring
                         \cup Replacing]
    /\ seen \in [Client -> {"none", "running", "exited", "stopping"}]
    /\ reaper \in {"rest", "stop", "check"} /\ failures \in 0..MaxFailures
    /\ {meddled, failed, blind} \subseteq SUBSET Client
    /\ raced \subseteq Turns /\ wronged \subseteq Turns

\* ensure_running, left alone by everyone outside its lock, brings the container
\* up from whatever state it finds it in, unless a podman command it relied on has
\* failed on the way.
EnsureSucceeds ==
    \A c \in Client : at[c] \in {"start", "create"} /\ c \notin meddled \cup failed =>
        pod = IF at[c] = "start" THEN "exited" ELSE "none"

\* A turn does not die of a container being replaced: whoever replaces it has
\* looked whether a turn is running there; except for one whose command began
\* between that look and the end of the replacement, for one that a failed look has
\* overlooked, and for what the batch runner does on the strength of a look the
\* daemon has overtaken.
TurnsSpared == wronged = {}

\* ensure_running serves both who calls it and who is inside already: the one gets
\* a container that is up, from any state, and the other is not killed by that.
ContainerServes == EnsureSucceeds /\ TurnsSpared

\* Where containers stay up, a user's container that has been stopped, or is stuck in
\* stopping, runs again with its services, whoever stopped it and whichever command
\* failed on the way, or there is none any more.
ServicesKept ==
    alwaysOn /\ pod \in {"exited", "stopping"} ~> (pod = "running" /\ services) \/ pod = "none"
=============================================================================
