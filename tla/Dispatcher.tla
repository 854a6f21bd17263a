----------------------------- MODULE Dispatcher -----------------------------
(***************************************************************************)
(* The turn dispatcher of the daemon: class TurnDispatcher of               *)
(* scripts/daemon/dispatch.py, and the thread pool scripts/daemon/worker.py *)
(* gives it.                                                               *)
(*                                                                         *)
(* Four kinds of thread touch this state.  Callers of enqueue draw a        *)
(* sequence number and then, under the condition variable, append to the    *)
(* pending list.  One dispatcher thread picks an item and takes a lane for  *)
(* it under the condition variable, and hands it to the pool after giving   *)
(* the condition variable up.  A pool thread runs the turn and releases the *)
(* lane.  The main thread sets the shutdown event and closes the pool.      *)
(*                                                                         *)
(* An _Item is represented by its message; `stage` says where the item is,  *)
(* and the counters of the class are variables of their own, as in the      *)
(* code, so that their agreement with the stages has to be shown.           *)
(***************************************************************************)
EXTENDS Integers, FiniteSets

CONSTANTS
    Msgs,           \* messages that may be enqueued, each once
    Projects,       \* conversations
    ProjectOf,      \* [Msgs -> Projects]
    AutoMsgs,       \* messages is_automatic() recognises by their prefix
    MaxWorkersCfg,  \* config max_concurrent: also the size of the pool
    ReserveCfg      \* config human_reserved_lanes, as configured

ASSUME DispatcherAssumption ==
    /\ IsFiniteSet(Msgs)
    /\ ProjectOf \in [Msgs -> Projects]
    /\ AutoMsgs \subseteq Msgs
    /\ MaxWorkersCfg \in Nat \ {0}
    /\ ReserveCfg \in Int

VARIABLES
    stage,              \* where each item is
    seq,                \* _Item.seq, 0 before it is drawn
    nextSeq,            \* the itertools.count (from 1 here, so that 0 is none)
    runningProjects,    \* _running_projects
    running,            \* _running
    autoRunning,        \* _auto_running
    loop,               \* program counter of _loop
    shutdown,           \* the shutdown event
    poolClosed          \* the pool has been shut down

counters == <<runningProjects, running, autoRunning>>
vars == <<stage, seq, nextSeq, counters, loop, shutdown, poolClosed>>

Stages == {"new", "drawn", "pending", "held", "submitted", "running",
           "ending", "returning", "done", "refused", "dropped"}
\* A dropped item is a future cancel_futures cancelled: it never releases.
LaneStages == {"held", "submitted", "running", "ending", "dropped"}

At(s) == {m \in Msgs : stage[m] \in s}
InLanes == At(LaneStages)

-----------------------------------------------------------------------------
(* The constructor clamps both numbers.                                      *)

Lanes == IF MaxWorkersCfg > 1 THEN MaxWorkersCfg ELSE 1

ReserveUnclamped == ReserveCfg
Reserve ==
    IF ReserveCfg < 0 THEN 0
    ELSE IF ReserveCfg > Lanes - 1 THEN Lanes - 1 ELSE ReserveCfg

AutoCap == Lanes - Reserve

Init ==
    /\ stage = [m \in Msgs |-> "new"]
    /\ seq = [m \in Msgs |-> 0]
    /\ nextSeq = 1
    /\ runningProjects = {} /\ running = 0 /\ autoRunning = 0
    /\ loop = "check"
    /\ shutdown = FALSE /\ poolClosed = FALSE

-----------------------------------------------------------------------------
(* enqueue: the number is drawn before the condition variable is held, so    *)
(* two callers may append in the other order.                                *)

DrawSeq(m) ==
    /\ stage[m] = "new"
    /\ stage' = [stage EXCEPT ![m] = "drawn"]
    /\ seq' = [seq EXCEPT ![m] = nextSeq]
    /\ nextSeq' = nextSeq + 1
    /\ UNCHANGED <<counters, loop, shutdown, poolClosed>>

Enqueue(m) ==
    /\ stage[m] = "drawn"
    /\ stage' = [stage EXCEPT ![m] = "pending"]
    /\ UNCHANGED <<seq, nextSeq, counters, loop, shutdown, poolClosed>>

-----------------------------------------------------------------------------
(* _pick                                                                     *)

Eligible(m) ==
    /\ stage[m] = "pending"
    /\ ProjectOf[m] \notin runningProjects
    /\ m \in AutoMsgs => autoRunning < AutoCap

\* the order of the keys (1 if automatic else 0, seq)
KeyBelowBySeqOnly(a, b) == seq[a] < seq[b]
KeyBelow(a, b) ==
    \/ a \notin AutoMsgs /\ b \in AutoMsgs
    \/ (a \in AutoMsgs <=> b \in AutoMsgs) /\ seq[a] < seq[b]

Pickable(m) ==
    /\ running < Lanes
    /\ Eligible(m)
    /\ \A o \in Msgs \ {m} : Eligible(o) => KeyBelow(m, o)

(* _loop                                                                     *)

LoopCheck ==
    /\ loop = "check"
    /\ loop' = IF shutdown THEN "ended" ELSE "pick"
    /\ UNCHANGED <<stage, seq, nextSeq, counters, shutdown, poolClosed>>

\* A lane is taken while the condition variable is held...
Pick(m) ==
    /\ loop = "pick" /\ Pickable(m)
    /\ stage' = [stage EXCEPT ![m] = "held"]
    /\ runningProjects' = runningProjects \cup {ProjectOf[m]}
    /\ running' = running + 1
    /\ autoRunning' = IF m \in AutoMsgs THEN autoRunning + 1 ELSE autoRunning
    /\ loop' = "submit"
    /\ UNCHANGED <<seq, nextSeq, shutdown, poolClosed>>

\* ... and nothing to start means a wait that a notify or one second ends.
PickNothing ==
    /\ loop = "pick"
    /\ ~\E m \in Msgs : Pickable(m)
    /\ loop' = "check"
    /\ UNCHANGED <<stage, seq, nextSeq, counters, shutdown, poolClosed>>

Submit(m) ==
    /\ loop = "submit" /\ stage[m] = "held"
    /\ ~poolClosed
    /\ stage' = [stage EXCEPT ![m] = "submitted"]
    /\ loop' = "check"
    /\ UNCHANGED <<seq, nextSeq, counters, shutdown, poolClosed>>

(* _release                                                                  *)

GiveBack(m) ==
    /\ runningProjects' = runningProjects \ {ProjectOf[m]}
    /\ running' = running - 1
    /\ autoRunning' = IF m \in AutoMsgs THEN autoRunning - 1 ELSE autoRunning

\* submit raises RuntimeError when the pool is closed: the lane is given back
\* and the loop ends.
SubmitRefused(m) ==
    /\ loop = "submit" /\ stage[m] = "held"
    /\ poolClosed
    /\ stage' = [stage EXCEPT ![m] = "refused"]
    /\ loop' = "ended"
    /\ GiveBack(m)
    /\ UNCHANGED <<seq, nextSeq, shutdown, poolClosed>>

-----------------------------------------------------------------------------
(* _run on a pool thread.  The lane is released inside the task, before the  *)
(* thread is back in the pool.                                               *)

BusyThreads == At({"running", "ending", "returning"})

Begin(m) ==
    /\ stage[m] = "submitted"
    /\ Cardinality(BusyThreads) < MaxWorkersCfg
    /\ stage' = [stage EXCEPT ![m] = "running"]
    /\ UNCHANGED <<seq, nextSeq, counters, loop, shutdown, poolClosed>>

\* run_turn returns or raises: the finally clause runs either way.
EndTurn(m) ==
    /\ stage[m] = "running"
    /\ stage' = [stage EXCEPT ![m] = "ending"]
    /\ UNCHANGED <<seq, nextSeq, counters, loop, shutdown, poolClosed>>

Release(m) ==
    /\ stage[m] = "ending"
    /\ stage' = [stage EXCEPT ![m] = "returning"]
    /\ GiveBack(m)
    /\ UNCHANGED <<seq, nextSeq, loop, shutdown, poolClosed>>

ThreadBack(m) ==
    /\ stage[m] = "returning"
    /\ stage' = [stage EXCEPT ![m] = "done"]
    /\ UNCHANGED <<seq, nextSeq, counters, loop, shutdown, poolClosed>>

-----------------------------------------------------------------------------
(* Shutdown: the event first, then, from the main thread, the pool with      *)
(* cancel_futures, which drops what no thread has begun.                     *)

SetShutdown ==
    /\ ~shutdown
    /\ shutdown' = TRUE
    /\ UNCHANGED <<stage, seq, nextSeq, counters, loop, poolClosed>>

ClosePool ==
    /\ shutdown /\ ~poolClosed
    /\ poolClosed' = TRUE
    /\ stage' = [m \in Msgs |-> IF stage[m] = "submitted" THEN "dropped"
                                ELSE stage[m]]
    /\ UNCHANGED <<seq, nextSeq, counters, loop, shutdown>>

-----------------------------------------------------------------------------
Dispatch == LoopCheck \/ PickNothing
            \/ \E m \in Msgs : Pick(m) \/ Submit(m) \/ SubmitRefused(m)
PoolStep(m) == Begin(m) \/ EndTurn(m) \/ Release(m) \/ ThreadBack(m)

Next ==
    \/ \E m \in Msgs : DrawSeq(m) \/ Enqueue(m) \/ PoolStep(m)
    \/ Dispatch
    \/ SetShutdown \/ ClosePool

Spec == Init /\ [][Next]_vars

(* The dispatcher loop never blocks for more than a second, a pool thread    *)
(* runs what it was given, a turn ends (hard timeout), and a caller that has *)
(* drawn a number appends.  Nothing obliges messages to arrive or the daemon *)
(* to shut down.                                                             *)
Fairness ==
    /\ WF_vars(Dispatch)
    /\ \A m \in Msgs : WF_vars(Enqueue(m)) /\ WF_vars(PoolStep(m))
FairSpec == Spec /\ Fairness
-----------------------------------------------------------------------------
TypeOK ==
    /\ stage \in [Msgs -> Stages]
    /\ seq \in [Msgs -> Nat]
    /\ nextSeq \in Nat \ {0}
    /\ runningProjects \subseteq Projects
    /\ running \in Nat /\ autoRunning \in Nat
    /\ loop \in {"check", "pick", "submit", "ended"}
    /\ shutdown \in BOOLEAN /\ poolClosed \in BOOLEAN
    /\ poolClosed => shutdown

(* The three counters of the class agree with the items themselves: how many *)
(* hold a lane, how many of those are automatic, and for which projects.     *)
(* Two threads update them, at the pick and at the release.                  *)
LaneAccounting ==
    /\ running = Cardinality(InLanes)
    /\ autoRunning = Cardinality(InLanes \cap AutoMsgs)
    /\ runningProjects = {ProjectOf[m] : m \in InLanes}

(* The rules of dispatch.py lines 9-13, over the items themselves: one turn  *)
(* per project, never more turns than lanes, and never so many automatic     *)
(* ones that a reserved lane is taken.  Holds through shutdown too.          *)
OneTurnPerProject ==
    \A a, b \in InLanes : ProjectOf[a] = ProjectOf[b] => a = b
LaneBound == Cardinality(InLanes) <= Lanes
ReserveKept == Cardinality(InLanes \cap AutoMsgs) <= Lanes - Reserve
LaneSafety == OneTurnPerProject /\ LaneBound /\ ReserveKept

(* An item in a lane needs no other lane to end: the turns that run and the  *)
(* items handed to the pool never outnumber its threads, so nothing waits in *)
(* the pool's own queue, out of the dispatcher's sight and out of its order. *)
NoHiddenQueue ==
    Cardinality(At({"submitted", "running", "ending"})) <= MaxWorkersCfg

(* Every message the dispatcher accepted gets its turn, unless the daemon is *)
(* told to stop: no lane leaks, no wakeup is lost, and no configured reserve *)
(* shuts the automatic messages out for ever (dispatch.py line 47).          *)
AcceptedRuns == \A m \in Msgs : stage[m] = "pending" ~> (stage[m] = "running" \/ shutdown)

-----------------------------------------------------------------------------
(* The dispatcher implements TurnLanes: an item has arrived once it is in    *)
(* the pending list, holds its lane from the pick to the release, and keeps  *)
(* the number it drew as its ticket.                                         *)
StatusOf(s) ==
    IF s \in {"new", "drawn"} THEN "away"
    ELSE IF s = "pending" THEN "waiting"
    ELSE IF s \in LaneStages THEN "inLane" ELSE "gone"
AbsStatus == [m \in Msgs |-> StatusOf(stage[m])]
AbsTicket == [m \in Msgs |-> IF stage[m] \in {"new", "drawn"} THEN 0 ELSE seq[m]]

Promise == INSTANCE TurnLanes WITH status <- AbsStatus, ticket <- AbsTicket
ImplementsPromise == Promise!LanesSpec
=============================================================================
