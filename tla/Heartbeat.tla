----------------------------- MODULE Heartbeat -----------------------------
(***************************************************************************)
(* A project's periodic task: scripts/daemon/heartbeat.py.  Every minute    *)
(* the thread asks the server for the tasks that are due, and wakes the    *)
(* project's session with a message for the worker; most of the time it    *)
(* lets a scout, a short session of its own (scripts/daemon/scout.py),     *)
(* judge first whether there is anything to do.                            *)
(*                                                                         *)
(* The server, which keeps the task, and the worker, which takes up the    *)
(* messages, are modelled by what the heartbeat sees of them.              *)
(***************************************************************************)
EXTENDS Integers, Sequences

CONSTANTS
    Interval,       \* interval_min
    ForceEvery,     \* force_every
    MaxRuns,        \* max_runs of a task that has one
    PendingTtl,     \* PENDING_TTL_SEC, in minutes
    NightLength,    \* minutes between two windows of active_hours
    MaxLate,        \* bound: a task later than this counts as this late
    MaxWaiting,     \* bound: messages in the queue
    MaxEvents       \* bound: what disturbs in one behaviour: failing calls,
                    \* restarts, edits of the file, nights, cooldowns, user turns

ASSUME HeartbeatAssumption ==
    /\ {Interval, ForceEvery, MaxRuns, PendingTtl, NightLength} \subseteq Nat \ {0}
    /\ {MaxLate, MaxWaiting, MaxEvents} \subseteq Nat

VARIABLES
    task,       \* the server's row: minutes until next_run_at, run_count, status
    limited,    \* whether the task has a max_runs
    beat,       \* the heartbeat's thread
    scout,      \* the scout's thread: also _scouting
    queue,      \* messages the worker has not picked: TRUE for the one in _pending
    age,        \* minutes since _pending was set, -1 without one
    session,    \* the project's turn: "none", "heartbeat" or "user"
    world,      \* the HEARTBEAT file, minutes of night left, whether the account cools
    work,       \* whether there is something to do
    events,
    injected,   \* history: messages of a limited task
    slipped     \* history: _pending was forgotten, or passed by, with its message waiting

hbVars == <<task, limited, beat, scout, queue, age, session, world, work, events, injected, slipped>>

HbInit ==
    /\ task = [left |-> 0, count |-> 0, status |-> "active"] /\ limited \in BOOLEAN
    /\ beat = "idle" /\ scout = "none" /\ queue = <<>> /\ age = -1 /\ session = "none"
    /\ world = [file |-> "full", night |-> 0, cooling |-> FALSE] /\ work \in BOOLEAN
    /\ events = 0 /\ injected = 0 /\ slipped = FALSE

Event == events < MaxEvents /\ events' = events + 1
Quiet == UNCHANGED events
TheirsStays == UNCHANGED <<limited, session, world, work>>
QueueStays == UNCHANGED <<queue, age, injected, slipped>>

(* A change of the row that may be lost on its way; nobody looks.          *)
Patch(row) == \/ task' = row /\ Quiet
              \/ UNCHANGED task /\ Event

-----------------------------------------------------------------------------
(* What the heartbeat's thread decides about a task that is due.           *)

Tick ==
    /\ beat = "idle" /\ task.status = "active" /\ task.left <= 0 /\ beat' = "due"
    /\ TheirsStays /\ QueueStays /\ Quiet /\ UNCHANGED <<task, scout>>

(* _next_run_from_schedule: a step after the time that was planned; of the *)
(* steps missed only the first to come, unless it is nearer than half one. *)
NextSlotNear(left) ==
    LET next == left + Interval
    IN  IF next > 0 THEN next ELSE next + Interval * (((-next) \div Interval) + 1)

NextSlot(left) ==
    LET next == NextSlotNear(left)
    IN  IF left + Interval <= 0 /\ 2 * next < Interval THEN next + Interval ELSE next

Smaller(a, b) == IF a < b THEN a ELSE b
BusyPostpone == Smaller(Interval, 5)
Postponed(minutes) == Patch([task EXCEPT !.left = minutes])

(* run_count; of a task without max_runs all that matters is its remainder. *)
CountedUp == IF limited THEN task.count + 1 ELSE (task.count + 1) % ForceEvery
Counted == [task EXCEPT !.left = NextSlot(@), !.count = CountedUp]

Night == world.night > 0
NextWindow == world.night
OverLimit == limited /\ task.count >= MaxRuns
Busy == session # "none"

(* _previous_wakeup_queued: forgets a message that was picked, or is old.  *)
StillQueued == \E i \in DOMAIN queue : queue[i]
NeverQueued == FALSE
WakeUpQueued == age >= 0 /\ StillQueued /\ age <= PendingTtl
Forgets == age >= 0 /\ (~StillQueued \/ age > PendingTtl)

(* The early ends of _process_task, in its order.                          *)
PutOff ==
    /\ beat = "due" /\ beat' = "idle"
    /\ \/ Night /\ Postponed(NextWindow)
       \/ ~Night /\ OverLimit /\ Patch([task EXCEPT !.status = "done"])
       \/ ~Night /\ ~OverLimit /\ Busy /\ Postponed(BusyPostpone)
       \/ ~Night /\ ~OverLimit /\ ~Busy /\ WakeUpQueued /\ Postponed(1)
    /\ TheirsStays /\ QueueStays /\ UNCHANGED scout

GoesOn == beat = "due" /\ ~Night /\ ~OverLimit /\ ~Busy /\ ~WakeUpQueued

Forget ==
    /\ age' = IF Forgets THEN -1 ELSE age
    /\ slipped' = (slipped \/ (Forgets /\ StillQueued))
    /\ UNCHANGED <<queue, injected>>

(* There is no HEARTBEAT file.                                             *)
NoFileSkipped ==
    /\ GoesOn /\ world.file = "missing" /\ beat' = "idle"
    /\ Patch([task EXCEPT !.left = NextSlot(@)])
    /\ Forget /\ TheirsStays /\ UNCHANGED scout

ForcedNever == FALSE
Forced == (task.count + 1) % ForceEvery = 0
HasText == world.file = "full"
Scouted == GoesOn /\ HasText

StillScouting ==
    /\ Scouted /\ scout # "none" /\ beat' = "idle"
    /\ Forget /\ TheirsStays /\ Quiet /\ UNCHANGED <<task, scout>>

AccountCools ==
    /\ Scouted /\ scout = "none" /\ ~Forced /\ world.cooling /\ beat' = "idle"
    /\ Postponed(BusyPostpone) /\ Forget /\ TheirsStays /\ UNCHANGED scout

(* The schedule moves on before the scout has judged.                      *)
SendScout ==
    /\ Scouted /\ scout = "none" /\ ~Forced /\ ~world.cooling /\ beat' = "idle"
    /\ scout' = "sent" /\ Patch(Counted)
    /\ Forget /\ TheirsStays

(* The session is woken without a scout: this run is forced, or there is   *)
(* nothing in the file for a scout to read.                                *)
Wake ==
    /\ GoesOn /\ beat' = "waking"
    /\ \/ world.file = "empty"
       \/ HasText /\ scout = "none" /\ Forced
    /\ age' = IF Forgets THEN -1 ELSE age
    /\ slipped' = (slipped \/ (Forgets /\ StillQueued) \/ scout # "none")
    /\ TheirsStays /\ Quiet /\ UNCHANGED <<task, scout, queue, injected>>

-----------------------------------------------------------------------------
(* Messages: inject_system_message, then _pending.                         *)

Others == [i \in DOMAIN queue |-> FALSE]
OneMore == injected' = IF limited THEN injected + 1 ELSE 0

(* The message is in the queue and its answer is back, or it is refused,   *)
(* or it is in the queue and the answer is lost.                           *)
Inject(sent, lost) ==
    /\ Len(queue) < MaxWaiting
    /\ \/ sent /\ Quiet /\ queue' = Append(Others, TRUE) /\ age' = 0 /\ OneMore /\ UNCHANGED slipped
       \/ lost /\ Event /\ UNCHANGED <<queue, age, injected, slipped>>
       \/ lost /\ Event /\ queue' = Append(queue, FALSE) /\ OneMore /\ slipped' = TRUE /\ UNCHANGED age

WakeInject ==
    /\ beat = "waking"
    /\ Inject(beat' = "moving", beat' = "idle")
    /\ TheirsStays /\ UNCHANGED <<task, scout>>

MoveOn ==
    /\ beat = "moving" /\ beat' = "idle" /\ Patch(Counted)
    /\ TheirsStays /\ QueueStays /\ UNCHANGED scout

(* The scout says whether there is work; an error, a timeout or words that *)
(* cannot be read mean that there is.  It may be wrong.                    *)
Verdict ==
    /\ scout = "sent" /\ \E verdict \in BOOLEAN : scout' = IF verdict THEN "found" ELSE "none"
    /\ TheirsStays /\ QueueStays /\ Quiet /\ UNCHANGED <<task, beat>>

(* Its process says nothing more and does not end: the clock is looked at  *)
(* only when it has written a line.                                        *)
Hang ==
    /\ scout = "sent" /\ Event /\ scout' = "hung"
    /\ TheirsStays /\ QueueStays /\ UNCHANGED <<task, beat>>

ScoutInject ==
    /\ scout = "found" /\ scout' = "none"
    /\ Inject(TRUE, TRUE)
    /\ TheirsStays /\ UNCHANGED <<task, beat>>

-----------------------------------------------------------------------------
(* The world around.                                                       *)

Minute ==
    /\ task' = [task EXCEPT !.left = IF @ > -MaxLate THEN @ - 1 ELSE @]
    /\ age' = IF age \in 0 .. PendingTtl THEN age + 1 ELSE age
    /\ world' = [world EXCEPT !.night = IF @ > 0 THEN @ - 1 ELSE 0]
    /\ Quiet /\ UNCHANGED <<limited, beat, scout, queue, session, work, injected, slipped>>

OursStays == UNCHANGED <<task, limited, beat, scout, age, injected, slipped>>

Pick ==
    /\ session = "none" /\ queue # <<>> /\ session' = "heartbeat" /\ queue' = Tail(queue)
    /\ OursStays /\ Quiet /\ UNCHANGED <<world, work>>

UserTurn ==
    /\ session = "none" /\ Event /\ session' = "user"
    /\ OursStays /\ UNCHANGED <<queue, world, work>>

TurnOver ==
    /\ session # "none" /\ session' = "none"
    /\ work' = (work /\ (session = "user" \/ world.cooling))
    /\ OursStays /\ Quiet /\ UNCHANGED <<queue, world>>

NewWork ==
    /\ ~work /\ work' = TRUE
    /\ OursStays /\ Quiet /\ UNCHANGED <<queue, session, world>>

Edit ==
    /\ Event /\ \E file \in {"full", "empty", "missing"} \ {world.file} : world' = [world EXCEPT !.file = file]
    /\ OursStays /\ UNCHANGED <<queue, session, work>>

Evening ==
    /\ Event /\ world.night = 0 /\ world' = [world EXCEPT !.night = NightLength]
    /\ OursStays /\ UNCHANGED <<queue, session, work>>

Cool ==
    /\ Event /\ ~world.cooling /\ world' = [world EXCEPT !.cooling = TRUE]
    /\ OursStays /\ UNCHANGED <<queue, session, work>>

CooledDown ==
    /\ world.cooling /\ world' = [world EXCEPT !.cooling = FALSE]
    /\ OursStays /\ Quiet /\ UNCHANGED <<queue, session, work>>

(* The daemon is restarted: what was under way is lost, and _pending too.  *)
Restarted ==
    /\ Event /\ beat' = "idle" /\ scout' = "none" /\ session' = "none"
    /\ age' = -1 /\ queue' = Others /\ slipped' = (slipped \/ queue # <<>>)
    /\ UNCHANGED <<task, limited, world, work, injected>>

Beats == Tick \/ PutOff \/ NoFileSkipped \/ StillScouting \/ AccountCools \/ SendScout \/ Wake \/ WakeInject \/ MoveOn
Scouts == Verdict \/ ScoutInject
Worker == Pick \/ TurnOver

HbNext ==
    \/ Beats \/ Scouts \/ Worker \/ Hang \/ Minute \/ UserTurn
    \/ NewWork \/ Edit \/ Evening \/ Cool \/ CooledDown \/ Restarted

HbFairness ==
    /\ WF_hbVars(Beats) /\ WF_hbVars(Scouts) /\ WF_hbVars(Worker)
    /\ WF_hbVars(Minute) /\ WF_hbVars(CooledDown)

(***************************************************************************)
(* At most one wake-up of the project waits for the worker at a time: 짧은 *)
(* 간격에서 큐에 메시지가 쌓이는 것을 막는다 (heartbeat.py:146).  A second *)
(* one comes only after the first was forgotten: after ten minutes, by a   *)
(* restart, because its answer was lost, or when the file was emptied      *)
(* while a scout was out, which the empty file's wake-up does not look at. *)
(***************************************************************************)
OneWaiting == Len(queue) > 1 => slipped

(***************************************************************************)
(* A task with max_runs wakes its project no more often than that, but for *)
(* an extra time per call that failed or restart in between: the message   *)
(* is sent first, and the run is counted after it.                         *)
(***************************************************************************)
RunsLimited == injected <= MaxRuns + events

(***************************************************************************)
(* A project is not woken more than its task says: not again while the     *)
(* last wake-up waits, and not beyond max_runs.                            *)
(***************************************************************************)
WokenSparingly == OneWaiting /\ RunsLimited

(***************************************************************************)
(* What there is to do is done in the end, even if every scout misses it:  *)
(* the runs that are forced see to it.  It waits only for a file that has  *)
(* its items, for a task not at its end, and for ever behind a scout whose *)
(* process hangs, as no later run begins while one is out (:294-298).      *)
(***************************************************************************)
WorkComesUp ==
    (work /\ world.file = "full") ~>
        (~work \/ world.file # "full" \/ task.status = "done" \/ scout = "hung")

HbSpec == HbInit /\ [][HbNext]_hbVars /\ HbFairness
=============================================================================
