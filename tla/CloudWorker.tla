---------------------------- MODULE CloudWorker -----------------------------
(***************************************************************************)
(* Messages of many users on one host: class CloudWorker of                 *)
(* scripts/cloud_daemon.py, with the clean-up of turns a daemon left behind *)
(* (cloud_container.py has the same for containers).                        *)
(*                                                                         *)
(* It differs from the daemon of one user (module MessagePipeline) where it *)
(* matters: a message is marked on the server before its turn, a job that   *)
(* finds its conversation busy backs out and leaves the message to a later  *)
(* poll, the processes of turns outlive the daemon, and a daemon that stops *)
(* puts back what has not ended.                                            *)
(*                                                                         *)
(* A message has at most one job, so that a job is named by its message.    *)
(***************************************************************************)
EXTENDS Integers, FiniteSets, Sequences

CONSTANTS
    Msgs,
    Keys,           \* conversations: pairs of a user and a project
    KeyOf,          \* [Msgs -> Keys]
    Users,
    OwnerOf,        \* [Keys -> Users]
    PriorityMsgs,   \* messages of users whose tier has priority
    TextlessMsgs,   \* messages of files alone
    Workers,        \* max_concurrent
    NoMsg,
    MaxFaults,      \* bound: crashes, failed calls, exceptions, wipes
    MaxStops        \* bound: signals and restart requests

ASSUME CloudAssumption ==
    /\ IsFiniteSet(Msgs) /\ NoMsg \notin Msgs
    /\ KeyOf \in [Msgs -> Keys] /\ OwnerOf \in [Keys -> Users]
    /\ PriorityMsgs \subseteq Msgs /\ TextlessMsgs \subseteq Msgs
    /\ Workers \in Nat \ {0}
    /\ {MaxFaults, MaxStops} \subseteq Nat

VARIABLES
    server,         \* the row of each message
    arrival,        \* the order in which the rows were added, 0 for none
    restartAsked,   \* user_status.force_restart of some user
    loop,           \* where the main thread is
    shutdown,       \* shutdown_event
    polled,         \* rest of the last poll response
    spawned,        \* _spawned
    inflight,       \* _inflight
    processedIds,   \* _processed
    pool,           \* the executor's queue
    at,             \* where each message's job is
    todo, back,     \* requeue_inflight: items to come, and the one in hand
    orphans,        \* messages whose process runs without the daemon: left by an
                    \* earlier one, or cut off from its client
    begun,          \* history: turns begun in this life
    told,           \* history: messages that got an answer, a notice or an error
    lost,           \* history: in hand at a crash, not put back, or dropped as empty
    wiped,          \* history: _processed was cleared in this life
    unwatched,      \* history: a process was left running with its lock given up,
                    \* or a daemon started without the clean-up
    faults, stops

loopVars == <<loop, polled, todo, back>>
ids == <<spawned, inflight, processedIds>>
jobVars == <<ids, pool, at>>
histories == <<begun, told, lost, wiped, unwatched>>
vars == <<server, arrival, restartAsked, loopVars, shutdown, jobVars, orphans,
          histories, faults, stops>>

\* cut: the turn's process has been killed.  prepare: everything between the
\* mark and the process, the notices that take the turn's place included.
\* recover: podman has lost its client, and the process may run on.
LockStages == {"locked", "entered", "mark", "remark", "prepare", "turn", "cut",
               "recover", "answer", "leave"}
Stages == {"idle", "submitted", "started", "error", "cleanup"} \cup LockStages

Fault == faults < MaxFaults /\ faults' = faults + 1

Init ==
    /\ server = [m \in Msgs |-> "absent"] /\ arrival = [m \in Msgs |-> 0]
    /\ restartAsked = FALSE
    /\ loop = "poll" /\ polled = {} /\ todo = {} /\ back = NoMsg
    /\ shutdown = FALSE
    /\ spawned = {} /\ inflight = {} /\ processedIds = {}
    /\ pool = <<>> /\ at = [m \in Msgs |-> "idle"]
    /\ orphans = {}
    /\ begun = [m \in Msgs |-> 0] /\ told = {} /\ lost = {}
    /\ wiped = FALSE /\ unwatched = FALSE
    /\ faults = 0 /\ stops = 0

-----------------------------------------------------------------------------
(* Around the daemon.                                                        *)

Arrive(m) ==
    /\ server[m] = "absent"
    /\ server' = [server EXCEPT ![m] = "pending"]
    /\ arrival' = [arrival EXCEPT ![m] = 1 + Cardinality({o \in Msgs : arrival[o] > 0})]
    /\ UNCHANGED <<restartAsked, loopVars, shutdown, jobVars, orphans, histories,
                   faults, stops>>

AskRestart ==
    /\ stops < MaxStops /\ stops' = stops + 1
    /\ restartAsked' = TRUE
    /\ UNCHANGED <<server, arrival, loopVars, shutdown, jobVars, orphans, histories,
                   faults>>

Signal ==
    /\ stops < MaxStops /\ stops' = stops + 1
    /\ loop # "down" /\ shutdown' = TRUE
    /\ UNCHANGED <<server, arrival, restartAsked, loopVars, jobVars, orphans,
                   histories, faults>>

-----------------------------------------------------------------------------
(* The main thread: run.                                                     *)

Pending == {m \in Msgs : server[m] = "pending"}

\* The loop is left: the executor is shut down, and what it holds is cancelled.
StartDrain ==
    /\ loop' = "drain" /\ polled' = {}
    /\ pool' = <<>>
    /\ at' = [m \in Msgs |-> IF at[m] = "submitted" THEN "idle" ELSE at[m]]
    /\ UNCHANGED <<todo, back, ids>>

SeeShutdown ==
    /\ loop = "poll" /\ shutdown
    /\ StartDrain
    /\ UNCHANGED <<server, arrival, restartAsked, shutdown, orphans, histories,
                   faults, stops>>

\* handle_force_restart: no restart unless the flag could be taken back.
ForceRestart ==
    /\ loop = "poll" /\ ~shutdown /\ restartAsked
    /\ restartAsked' = FALSE
    /\ StartDrain
    /\ UNCHANGED <<server, arrival, shutdown, orphans, histories, faults, stops>>

Poll ==
    /\ loop = "poll" /\ ~shutdown
    /\ IF restartAsked THEN Fault ELSE UNCHANGED faults
    /\ polled' = Pending
    /\ loop' = IF Pending = {} THEN "poll" ELSE "handle"
    /\ UNCHANGED <<server, arrival, restartAsked, todo, back, shutdown, jobVars, orphans,
                   histories, stops>>

\* The response is gone through by tier, and by arrival within a tier.
Ahead(a, b) ==
    \/ a \in PriorityMsgs /\ b \notin PriorityMsgs
    \/ (a \in PriorityMsgs <=> b \in PriorityMsgs) /\ arrival[a] < arrival[b]

HandlePolled(m) ==
    /\ loop = "handle" /\ m \in polled
    /\ \A o \in polled \ {m} : Ahead(m, o)
    /\ polled' = polled \ {m}
    /\ loop' = IF polled' = {} THEN "poll" ELSE "handle"
    /\ IF m \in spawned
       THEN UNCHANGED <<spawned, pool, at>>
       ELSE /\ spawned' = spawned \cup {m}
            /\ pool' = Append(pool, m)
            /\ at' = [at EXCEPT ![m] = "submitted"]
    /\ UNCHANGED <<server, arrival, restartAsked, todo, back, shutdown, inflight,
                   processedIds, orphans, histories, faults, stops>>

-----------------------------------------------------------------------------
(* A job: _process_safe around process.                                      *)

Goto(m, s) == at' = [at EXCEPT ![m] = s]
Working == {m \in Msgs : at[m] \notin {"idle", "submitted"}}
LockHolders(k) == {m \in Msgs : at[m] \in LockStages /\ KeyOf[m] = k}

Turning == {m \in Msgs : at[m] = "turn"}
\* Marked, and not answered yet.
InHand(m) == at[m] \in {"prepare", "turn", "cut", "recover", "answer", "error"}

Start(m) ==
    /\ pool # <<>> /\ m = Head(pool)
    /\ Cardinality(Working) < Workers
    /\ pool' = Tail(pool)
    /\ Goto(m, "started")
    /\ UNCHANGED <<server, arrival, restartAsked, loopVars, shutdown, ids, orphans,
                   histories, faults, stops>>

TryLockKeeping(m) ==
    /\ at[m] = "started"
    /\ Goto(m, IF LockHolders(KeyOf[m]) = {} THEN "locked" ELSE "idle")
    /\ UNCHANGED <<server, arrival, restartAsked, loopVars, shutdown, ids, pool, orphans,
                   histories, faults, stops>>

\* The lock is tried, never waited for.
TryLock(m) ==
    /\ at[m] = "started"
    /\ IF LockHolders(KeyOf[m]) = {}
       THEN Goto(m, "locked") /\ UNCHANGED spawned
       ELSE Goto(m, "idle") /\ spawned' = spawned \ {m}
    /\ UNCHANGED <<server, arrival, restartAsked, loopVars, shutdown, inflight,
                   processedIds, pool, orphans, histories, faults, stops>>

Enter(m) ==
    /\ at[m] = "locked"
    /\ IF shutdown
       THEN Goto(m, "leave") /\ UNCHANGED inflight
       ELSE Goto(m, "entered") /\ inflight' = inflight \cup {m}
    /\ UNCHANGED <<server, arrival, restartAsked, loopVars, shutdown, spawned,
                   processedIds, pool, orphans, histories, faults, stops>>

\* A message done before is only marked again; the set of those is cleared, but
\* for this message, when it has grown too large.  A user the roster does not
\* know, or could not be asked about, ends the job.
Check(m) ==
    /\ at[m] = "entered"
    /\ \/ /\ Fault /\ Goto(m, "leave")
          /\ UNCHANGED <<processedIds, wiped>>
       \/ /\ m \in processedIds /\ Goto(m, "remark")
          /\ UNCHANGED <<processedIds, wiped, faults>>
       \/ /\ m \notin processedIds /\ Goto(m, "mark")
          /\ \/ processedIds' = processedIds \cup {m} /\ UNCHANGED <<wiped, faults>>
             \/ Fault /\ processedIds' = {m} /\ wiped' = TRUE
    /\ UNCHANGED <<server, arrival, restartAsked, loopVars, shutdown, spawned, inflight,
                   pool, orphans, begun, told, lost, unwatched, stops>>

(* mark_processed: three attempts, and silence when all of them fail.        *)
MarkProcessed(m) ==
    \/ server' = [server EXCEPT ![m] = "processed"] /\ UNCHANGED faults
    \/ Fault /\ UNCHANGED server

Remark(m) ==
    /\ at[m] = "remark" /\ MarkProcessed(m) /\ Goto(m, "leave")
    /\ UNCHANGED <<arrival, restartAsked, loopVars, shutdown, ids, pool, orphans,
                   histories, stops>>

Mark(m) ==
    /\ at[m] = "mark" /\ MarkProcessed(m) /\ Goto(m, "prepare")
    /\ UNCHANGED <<arrival, restartAsked, loopVars, shutdown, ids, pool, orphans,
                   histories, stops>>

\* Self-diagnosis, login, consultation, quotas, a cooldown: a notice and no turn.
AnswerAtOnce(m) ==
    /\ at[m] = "prepare" /\ Goto(m, "leave") /\ told' = told \cup {m}
    /\ UNCHANGED <<server, arrival, restartAsked, loopVars, shutdown, ids, pool, orphans,
                   begun, lost, wiped, unwatched, faults, stops>>

\* A message of files none of which could be fetched is dropped without a word.
SkipEmpty(m) ==
    /\ at[m] = "prepare" /\ m \in TextlessMsgs /\ Goto(m, "leave")
    /\ lost' = lost \cup {m}
    /\ UNCHANGED <<server, arrival, restartAsked, loopVars, shutdown, ids, pool, orphans,
                   begun, told, wiped, unwatched, faults, stops>>

BeginTurn(m) ==
    /\ at[m] = "prepare" /\ Goto(m, "turn")
    /\ begun' = [begun EXCEPT ![m] = @ + 1]
    /\ UNCHANGED <<server, arrival, restartAsked, loopVars, shutdown, ids, pool, orphans,
                   told, lost, wiped, unwatched, faults, stops>>

UserOf(m) == OwnerOf[KeyOf[m]]
\* kill_turns stops every turn of the user, those of other conversations too.
CutTurns(u) == [m \in Msgs |-> IF at[m] = "turn" /\ UserOf(m) = u THEN "cut" ELSE at[m]]
Spared(u) == {m \in orphans : UserOf(m) # u}

TurnEnds(m) ==
    /\ at[m] \in {"turn", "cut"} /\ Goto(m, "answer")
    /\ UNCHANGED <<server, arrival, restartAsked, loopVars, shutdown, ids, pool, orphans,
                   histories, faults, stops>>

\* The watchdog in a container: its client is gone, so it kills by user.
TurnTimesOut(m) ==
    /\ at[m] = "turn"
    /\ at' = [CutTurns(UserOf(m)) EXCEPT ![m] = "answer"]
    /\ orphans' = Spared(UserOf(m))
    /\ UNCHANGED <<server, arrival, restartAsked, loopVars, shutdown, ids, pool, histories,
                   faults, stops>>

\* podman gives up on a turn whose process runs on in the container.
ExecRace(m) ==
    /\ at[m] = "turn" /\ Fault /\ Goto(m, "recover")
    /\ orphans' = orphans \cup {m}
    /\ UNCHANGED <<server, arrival, restartAsked, loopVars, shutdown, ids, pool, histories,
                   stops>>

Recover(m) ==
    /\ at[m] = "recover" /\ m \notin orphans /\ Goto(m, "answer")
    /\ UNCHANGED <<server, arrival, restartAsked, loopVars, shutdown, ids, pool, orphans,
                   histories, faults, stops>>

\* Without a session id, or at the turn's deadline, nobody waits for its end.
LeaveRunning(m) ==
    /\ at[m] = "recover" /\ m \in orphans /\ Goto(m, "answer")
    /\ unwatched' = TRUE
    /\ UNCHANGED <<server, arrival, restartAsked, loopVars, shutdown, ids, pool, orphans,
                   begun, told, lost, wiped, faults, stops>>

OrphanEnds(m) ==
    /\ m \in orphans /\ orphans' = orphans \ {m}
    /\ UNCHANGED <<server, arrival, restartAsked, loopVars, shutdown, jobVars, histories,
                   faults, stops>>

Answer(m) ==
    /\ at[m] = "answer" /\ Goto(m, "leave") /\ told' = told \cup {m}
    /\ UNCHANGED <<server, arrival, restartAsked, loopVars, shutdown, ids, pool, orphans,
                   begun, lost, wiped, unwatched, faults, stops>>

RaiseSilently(m) ==
    /\ at[m] \in {"prepare", "recover", "answer"} /\ Fault /\ Goto(m, "cleanup")
    /\ UNCHANGED <<server, arrival, restartAsked, loopVars, shutdown, ids, pool, orphans,
                   histories, stops>>

\* An exception gives the lock up before the error is told.
Raise(m) ==
    /\ at[m] \in {"prepare", "recover", "answer"} /\ Fault /\ Goto(m, "error")
    /\ unwatched' = (unwatched \/ (at[m] = "recover" /\ m \in orphans))
    /\ UNCHANGED <<server, arrival, restartAsked, loopVars, shutdown, ids, pool, orphans,
                   begun, told, lost, wiped, stops>>

ReplyError(m) ==
    /\ at[m] = "error" /\ Goto(m, "cleanup") /\ told' = told \cup {m}
    /\ UNCHANGED <<server, arrival, restartAsked, loopVars, shutdown, ids, pool, orphans,
                   begun, lost, wiped, unwatched, faults, stops>>

Release(m) ==
    /\ at[m] = "leave" /\ Goto(m, "cleanup")
    /\ UNCHANGED <<server, arrival, restartAsked, loopVars, shutdown, ids, pool, orphans,
                   histories, faults, stops>>

Cleanup(m) ==
    /\ at[m] = "cleanup" /\ Goto(m, "idle")
    /\ spawned' = spawned \ {m} /\ inflight' = inflight \ {m}
    /\ UNCHANGED <<server, arrival, restartAsked, loopVars, shutdown, processedIds, pool,
                   orphans, histories, faults, stops>>

-----------------------------------------------------------------------------
(* The end of a daemon: drain and requeue_inflight.                          *)

Drained ==
    /\ loop = "drain" /\ inflight = {}
    /\ loop' = "exit"
    /\ UNCHANGED <<server, arrival, restartAsked, polled, todo, back, shutdown, jobVars,
                   orphans, histories, faults, stops>>

\* Assumption on time: a job that started before the drain has passed its mark
\* when the 90 seconds of the drain are over.
Young == {"started", "locked", "entered", "mark", "remark"}

DrainEnds ==
    /\ loop = "drain" /\ inflight # {}
    /\ \A m \in Msgs : at[m] \notin Young
    /\ loop' = "requeue" /\ todo' = inflight
    /\ UNCHANGED <<server, arrival, restartAsked, polled, back, shutdown, jobVars, orphans,
                   histories, faults, stops>>

\* The copy is gone through: the user's turns are killed, as far as that works,
RequeueKill(m) ==
    /\ loop = "requeue" /\ back = NoMsg /\ m \in todo
    /\ todo' = todo \ {m} /\ back' = m
    /\ \/ /\ at' = CutTurns(UserOf(m)) /\ orphans' = Spared(UserOf(m))
          /\ UNCHANGED faults
       \/ Fault /\ UNCHANGED <<at, orphans>>
    /\ UNCHANGED <<server, arrival, restartAsked, loop, polled, shutdown, ids, pool,
                   histories, stops>>

\* and the mark is taken back.
RequeueUnmark ==
    /\ loop = "requeue" /\ back # NoMsg
    /\ back' = NoMsg
    /\ \/ server' = [server EXCEPT ![back] = "pending"] /\ UNCHANGED <<lost, faults>>
       \/ Fault /\ lost' = lost \cup {back} /\ UNCHANGED server
    /\ UNCHANGED <<arrival, restartAsked, loop, polled, todo, shutdown, jobVars, orphans,
                   begun, told, wiped, unwatched, stops>>

Requeued ==
    /\ loop = "requeue" /\ back = NoMsg /\ todo = {}
    /\ loop' = "exit"
    /\ UNCHANGED <<server, arrival, restartAsked, polled, todo, back, shutdown, jobVars,
                   orphans, histories, faults, stops>>

\* The interpreter waits for the threads of its pool before it goes.
Exit ==
    /\ loop = "exit" /\ \A m \in Msgs : at[m] = "idle"
    /\ loop' = "down"
    /\ UNCHANGED <<server, arrival, restartAsked, polled, todo, back, shutdown, jobVars,
                   orphans, histories, faults, stops>>

\* Processes of turns run in units or containers of their own and stay.
Crash ==
    /\ loop # "down" /\ Fault
    /\ loop' = "down" /\ polled' = {} /\ todo' = {} /\ back' = NoMsg
    /\ pool' = <<>> /\ at' = [m \in Msgs |-> "idle"]
    /\ orphans' = orphans \cup Turning
    /\ lost' = lost \cup {m \in Msgs : InHand(m) /\ server[m] = "processed"}
    /\ UNCHANGED <<server, arrival, restartAsked, shutdown, ids, begun, told,
                   wiped, unwatched, stops>>

\* Leaving them running.
ReapNothing == UNCHANGED <<orphans, unwatched, faults>>

\* Turns an earlier daemon left running are stopped, in their units or in the
\* containers, unless the scan or a stop fails.
ReapOrphanTurns ==
    \/ orphans' = {} /\ UNCHANGED <<unwatched, faults>>
    \/ Fault /\ unwatched' = TRUE /\ UNCHANGED orphans

\* Started again by systemd, the daemon first stops the turns it finds running.
Restart ==
    /\ loop = "down" /\ loop' = "poll"
    /\ shutdown' = FALSE
    /\ spawned' = {} /\ inflight' = {} /\ processedIds' = {}
    /\ begun' = [m \in Msgs |-> 0] /\ wiped' = FALSE
    /\ ReapOrphanTurns
    /\ UNCHANGED <<server, arrival, restartAsked, polled, todo, back, pool, at, told,
                   lost, stops>>

-----------------------------------------------------------------------------
Main == \/ SeeShutdown \/ ForceRestart \/ Poll \/ \E m \in Msgs : HandlePolled(m)
        \/ Drained \/ DrainEnds \/ \E m \in Msgs : RequeueKill(m)
        \/ RequeueUnmark \/ Requeued \/ Exit \/ Restart

JobStep(m) ==
    \/ Start(m) \/ TryLock(m) \/ Enter(m) \/ Check(m) \/ Remark(m) \/ Mark(m)
    \/ AnswerAtOnce(m) \/ SkipEmpty(m) \/ BeginTurn(m) \/ TurnEnds(m) \/ TurnTimesOut(m)
    \/ ExecRace(m) \/ Recover(m) \/ LeaveRunning(m)
    \/ Answer(m) \/ Raise(m) \/ ReplyError(m) \/ Release(m) \/ Cleanup(m)

Next ==
    \/ \E m \in Msgs : Arrive(m) \/ JobStep(m) \/ OrphanEnds(m)
    \/ AskRestart \/ Signal \/ Main \/ Crash

Spec == Init /\ [][Next]_vars

(* The main thread and the threads of the pool move when they can, turns and *)
(* drains have time limits, and systemd restarts the daemon.  Messages,      *)
(* stops and faults are nobody's duty.                                       *)
FairSpec == Spec /\ WF_vars(Main) /\ \A m \in Msgs : WF_vars(JobStep(m))

-----------------------------------------------------------------------------
TypeOK ==
    /\ server \in [Msgs -> {"absent", "pending", "processed"}]
    /\ arrival \in [Msgs -> Nat] /\ restartAsked \in BOOLEAN
    /\ loop \in {"poll", "handle", "drain", "requeue", "exit", "down"}
    /\ shutdown \in BOOLEAN
    /\ polled \subseteq Msgs /\ todo \subseteq Msgs /\ back \in Msgs \cup {NoMsg}
    /\ spawned \subseteq Msgs /\ inflight \subseteq Msgs /\ processedIds \subseteq Msgs
    /\ pool \in Seq(Msgs) /\ at \in [Msgs -> Stages]
    /\ orphans \subseteq Msgs
    /\ begun \in [Msgs -> Nat] /\ told \subseteq Msgs
    /\ lost \subseteq Msgs /\ wiped \in BOOLEAN /\ unwatched \in BOOLEAN
    /\ faults \in 0..MaxFaults /\ stops \in 0..MaxStops

(* A marked message is not polled again, so somebody must hold it (lines      *)
(* 2951-2953): it has been answered, is being worked on, or was caught by a   *)
(* crash, by a failed call while it was put back, or by the silent drop of a  *)
(* message without content.                                                  *)
NotForgotten ==
    \A m \in Msgs : server[m] = "processed" => m \in told \cup lost \/ InHand(m)

(* "What has not ended is put back and delivered again" (line 2954): when the *)
(* requeue is over, every message that still has a job is pending, but for    *)
(* those whose call failed, whatever the jobs did meanwhile.                  *)
PutBack ==
    [][loop = "requeue" /\ loop' = "exit" =>
          \A m \in inflight : server[m] = "pending" \/ m \in lost]_vars

(* However often a stale response offers a message again, a life of the      *)
(* daemon gives it one turn (lines 2649-2655).                               *)
RunOnce == wiped \/ \A m \in Msgs : begun[m] <= 1

(* A message the daemon has taken from the server is kept, and has one turn.  *)
MessagesKept == NotForgotten /\ RunOnce

NoTwin(a, b) == KeyOf[a] = KeyOf[b] => (a = b /\ ~(a \in Turning /\ a \in orphans))
OneProcessEver == \A a, b \in Turning \cup orphans : NoTwin(a, b)

(* One process per conversation, over crashes and restarts: a turn an earlier *)
(* daemon left running is stopped before its message is worked on again      *)
(* (lines 1117-1122 tell of the upload that was made twice), and the lock is  *)
(* held while a turn cut off from its client runs on.                        *)
OneProcess == unwatched \/ OneProcessEver

(* A message that finds its conversation busy comes back with a later poll   *)
(* (line 2925), and a restart puts it back: in the end it is answered.       *)
EventuallyTold == \A m \in Msgs : server[m] = "pending" ~> m \in told \cup lost
=============================================================================
