-------------------------- MODULE MessagePipeline ---------------------------
(***************************************************************************)
(* A message from the server's pending list to its answer: class Worker of  *)
(* scripts/daemon/worker.py, the crash queue of scripts/daemon/queue.py,    *)
(* the marking of scripts/daemon/api.py, and _recover_after_restart of      *)
(* scripts/claude_daemon.py.                                               *)
(*                                                                         *)
(* The polling thread, the threads that run jobs, and the main thread (which*)
(* recovers the crash queue after the polling thread has been started) share*)
(* three guards against running a message twice: _spawned_ids, which covers *)
(* a job's life; processed_ids, which is forgotten at a restart and when it *)
(* grows over its limit; and the processed mark on the server.  queue.json  *)
(* is the only one of them that survives a crash on this side.              *)
(*                                                                         *)
(* Priorities, reserve and executor are module Dispatcher's subject; here a *)
(* job gets a lane when one is free and its project holds none.             *)
(***************************************************************************)
EXTENDS Integers, FiniteSets

CONSTANTS
    Msgs,           \* messages that users, relays or the meeting page may send
    Projects,
    ProjectOf,      \* [Msgs -> Projects]
    LiveMsgs,       \* paragraphs of a live meeting: they have lanes of their own
    EmptyMsgs,      \* messages with neither text nor a file that resolves
    Lanes,          \* max_concurrent
    LiveLanes,      \* live_meeting_lanes
    Chunks,         \* replies an answer is split into
    NoMsg,          \* no message
    MaxJobs,        \* bound: jobs outstanding at once
    MaxFaults       \* bound: crashes, stops, failed calls, exceptions, wipes

ASSUME PipelineAssumption ==
    /\ ProjectOf \in [Msgs -> Projects]
    /\ LiveMsgs \subseteq Msgs /\ EmptyMsgs \subseteq Msgs \ LiveMsgs
    /\ {Lanes, LiveLanes, Chunks, MaxJobs} \subseteq Nat \ {0}
    /\ NoMsg \notin Msgs
    /\ MaxFaults \in Nat

VARIABLES
    server,         \* the row of each message in the server's messages table
    delivered,      \* replies the server stored: chunk numbers, 0 an error reply
    queue,          \* queue.json
    up, shutdown,   \* the process exists; shutdown_event
    polled,         \* rest of the last poll response, not handled yet
    spawned,        \* _spawned_ids
    processedIds,   \* processed_ids
    jobs,           \* submitted calls of _process_message_safe
    recovery,       \* progress of _recover_after_restart
    begun,          \* history: turns a message began in this life of the daemon
    wiped,          \* history: processed_ids was cleared in this life
    attempted,      \* history: the answer, or an error, has been sent once
    told,           \* history: messages recovery declared delivered
    faults          \* how many faults have happened

outside == <<server, delivered, queue>>
histories == <<begun, wiped, attempted, told>>
vars == <<outside, up, shutdown, polled, spawned, processedIds, jobs, recovery,
          histories, faults>>

Slots == 1..MaxJobs
Waits == {"free", "queued"}
LockStages == {"check", "remark", "enqueue", "mark", "turn", "send", "error",
               "dequeue", "followup"}
JobStages == Waits \cup {"laned", "finish"} \cup LockStages
\* live: in the live executor; again: submitted by recovery, with its notice in
\* front of the text; sent: chunks sent so far; late: the turn hit its timeout
FreeJob == [msg |-> NoMsg, live |-> FALSE, again |-> FALSE, at |-> "free",
            sent |-> 0, late |-> FALSE]
IdleRecovery == [at |-> "load", todo |-> {}, msg |-> NoMsg]

Init ==
    /\ server = [m \in Msgs |-> "absent"]
    /\ delivered = [m \in Msgs |-> {}]
    /\ queue = {}
    /\ up = TRUE /\ shutdown = FALSE
    /\ polled = {} /\ spawned = {} /\ processedIds = {}
    /\ jobs = [j \in Slots |-> FreeJob]
    /\ recovery = IdleRecovery
    /\ begun = [m \in Msgs |-> 0] /\ wiped = FALSE
    /\ attempted = {} /\ told = {}
    /\ faults = 0

Fault == faults < MaxFaults /\ faults' = faults + 1

-----------------------------------------------------------------------------
(* The server, as the daemon uses it.                                        *)

Arrive(m) ==
    /\ server[m] = "absent"
    /\ server' = [server EXCEPT ![m] = "pending"]
    /\ UNCHANGED <<delivered, queue, up, shutdown, polled, spawned, processedIds,
                   jobs, recovery, histories, faults>>

(* mark_message_processed: three attempts, and silence when all of them fail. *)
MarkProcessed(m) ==
    \/ server' = [server EXCEPT ![m] = "processed"] /\ UNCHANGED faults
    \/ Fault /\ UNCHANGED server

(* reply: what api_request makes of a failure is ignored.                    *)
Reply(m, part) ==
    \/ delivered' = [delivered EXCEPT ![m] = @ \cup {part}] /\ UNCHANGED faults
    \/ Fault /\ UNCHANGED delivered

-----------------------------------------------------------------------------
(* Worker.run: fetch the pending list, then go through it.  Both steps are   *)
(* apart: messages can be marked while the response is being gone through.   *)

FreeSlots == {j \in Slots : jobs[j].at = "free"}
\* The notice recovery puts in front hides the mark of a live paragraph.
Submit(m, recovered) ==
    \E slot \in FreeSlots :
        /\ \A other \in FreeSlots : slot <= other
        /\ jobs' = [jobs EXCEPT ![slot] =
                       [FreeJob EXCEPT !.msg = m, !.at = "queued", !.again = recovered,
                                       !.live = m \in LiveMsgs /\ ~recovered]]

Poll ==
    /\ up /\ ~shutdown /\ polled = {}
    /\ polled' = {m \in Msgs : server[m] = "pending"}
    /\ UNCHANGED <<outside, up, shutdown, spawned, processedIds, jobs, recovery,
                   histories, faults>>

HandlePolled(m) ==
    /\ up /\ m \in polled
    /\ IF shutdown
       THEN polled' = {} /\ UNCHANGED <<spawned, jobs>>
       ELSE /\ polled' = polled \ {m}
            /\ \/ m \in spawned /\ UNCHANGED <<spawned, jobs>>
               \/ /\ m \notin spawned
                  /\ spawned' = spawned \cup {m}
                  /\ Submit(m, FALSE)
    /\ UNCHANGED <<outside, up, shutdown, processedIds, recovery, histories, faults>>

-----------------------------------------------------------------------------
(* _process_message_safe and process_message, one step of a job at a time.   *)

AtStage(j, s) == up /\ jobs[j].at = s
Goto(j, s) == jobs' = [jobs EXCEPT ![j].at = s]
ProjectAt(j) == ProjectOf[jobs[j].msg]

Started(live) == {i \in Slots : jobs[i].at \notin Waits /\ jobs[i].live = live}
LaneFree(j) ==
    IF jobs[j].live THEN Cardinality(Started(TRUE)) < LiveLanes
    ELSE /\ Cardinality(Started(FALSE)) < Lanes
         /\ \A i \in Started(FALSE) : ProjectAt(i) # ProjectAt(j)
LockHolders(p) == {i \in Slots : jobs[i].at \in LockStages /\ ProjectAt(i) = p}

GetLane(j) ==
    /\ AtStage(j, "queued") /\ LaneFree(j)
    /\ Goto(j, "laned")
    /\ UNCHANGED <<outside, up, shutdown, polled, spawned, processedIds, recovery,
                   histories, faults>>

\* The project lock; a turn is not started once the daemon is stopping.
Lock(j) ==
    /\ AtStage(j, "laned") /\ LockHolders(ProjectAt(j)) = {}
    /\ Goto(j, IF shutdown THEN "finish" ELSE "check")
    /\ UNCHANGED <<outside, up, shutdown, polled, spawned, processedIds, recovery,
                   histories, faults>>

\* processed_ids: a message met again is only marked again.  The set is
\* cleared, but for the message being added, when the traffic of the other
\* messages has brought it to its limit of 1000.
Check(j) ==
    LET m == jobs[j].msg IN
    /\ AtStage(j, "check")
    /\ \/ /\ m \in processedIds
          /\ Goto(j, "remark")
          /\ UNCHANGED <<processedIds, wiped, faults>>
       \/ /\ m \notin processedIds
          /\ Goto(j, "enqueue")
          /\ \/ processedIds' = processedIds \cup {m} /\ UNCHANGED <<wiped, faults>>
             \/ processedIds' = {m} /\ wiped' = TRUE /\ Fault
    /\ UNCHANGED <<outside, up, shutdown, polled, spawned, recovery,
                   begun, attempted, told>>

RemarkNothing(j) ==
    /\ AtStage(j, "remark")
    /\ Goto(j, "finish")
    /\ UNCHANGED <<outside, up, shutdown, polled, spawned, processedIds, recovery,
                   histories, faults>>
Remark(j) ==
    /\ AtStage(j, "remark")
    /\ MarkProcessed(jobs[j].msg)
    /\ Goto(j, "finish")
    /\ UNCHANGED <<delivered, queue, up, shutdown, polled, spawned, processedIds,
                   recovery, histories>>

\* queue.json first and the server's mark after it.
EnqueueMessage(j) ==
    /\ AtStage(j, "enqueue")
    /\ queue' = queue \cup {jobs[j].msg}
    /\ Goto(j, "mark")
    /\ UNCHANGED <<server, delivered, up, shutdown, polled, spawned, processedIds,
                   recovery, histories, faults>>

\* An empty message ends here, still in the queue.
Mark(j) ==
    LET m == jobs[j].msg IN
    /\ AtStage(j, "mark")
    /\ MarkProcessed(m)
    /\ IF m \in EmptyMsgs /\ ~jobs[j].again
       THEN Goto(j, "finish") /\ UNCHANGED begun
       ELSE Goto(j, "turn") /\ begun' = [begun EXCEPT ![m] = @ + 1]
    /\ UNCHANGED <<delivered, queue, up, shutdown, polled, spawned, processedIds,
                   recovery, wiped, attempted, told>>

\* The turn returns its answer, on time or not; or the drain of a stopping
\* daemon kills it, and the message stays in the queue.
TurnEndsDequeuing(j) ==
    /\ AtStage(j, "turn")
    /\ \/ \E late \in BOOLEAN :
             jobs' = [jobs EXCEPT ![j].at = "send", ![j].late = late]
       \/ shutdown /\ Goto(j, "dequeue")
    /\ UNCHANGED <<outside, up, shutdown, polled, spawned, processedIds, recovery,
                   histories, faults>>
TurnEnds(j) ==
    /\ AtStage(j, "turn")
    /\ \/ \E late \in BOOLEAN :
             jobs' = [jobs EXCEPT ![j].at = "send", ![j].late = late]
       \/ shutdown /\ Goto(j, "finish")
    /\ UNCHANGED <<outside, up, shutdown, polled, spawned, processedIds, recovery,
                   histories, faults>>

\* A command (/reset, /status, /do, a login code ...) is answered in one piece and
\* without a turn; recovery's notice in front of the text hides it.
CommandAnswered(j) ==
    /\ AtStage(j, "turn") /\ ~jobs[j].again
    /\ jobs' = [jobs EXCEPT ![j].at = "send", ![j].sent = Chunks - 1]
    /\ UNCHANGED <<outside, up, shutdown, polled, spawned, processedIds, recovery,
                   histories, faults>>

\* Writing the queue, before or after, or the turn raises; the message keeps its
\* place in the queue if it had got one, and an error is sent for it.
Raise(j) ==
    /\ \E s \in {"enqueue", "turn", "dequeue"} : AtStage(j, s)
    /\ Fault
    /\ Goto(j, "error")
    /\ UNCHANGED <<outside, up, shutdown, polled, spawned, processedIds, recovery,
                   histories>>

ReplyError(j) ==
    LET m == jobs[j].msg IN
    /\ AtStage(j, "error")
    /\ Reply(m, 0)
    /\ attempted' = attempted \cup {m}
    /\ Goto(j, "finish")
    /\ UNCHANGED <<server, queue, up, shutdown, polled, spawned, processedIds,
                   recovery, begun, wiped, told>>

SendChunk(j) ==
    LET m == jobs[j].msg
        k == jobs[j].sent + 1
    IN
    /\ AtStage(j, "send")
    /\ Reply(m, k)
    /\ IF k = Chunks
       THEN /\ jobs' = [jobs EXCEPT ![j].sent = k, ![j].at = "dequeue"]
            /\ attempted' = attempted \cup {m}
       ELSE jobs' = [jobs EXCEPT ![j].sent = k] /\ UNCHANGED attempted
    /\ UNCHANGED <<server, queue, up, shutdown, polled, spawned, processedIds,
                   recovery, begun, wiped, told>>

\* A turn that timed out is followed by one that asks how far it got, unless
\* the daemon is stopping.  That one is in no queue.
Dequeue(j) ==
    /\ AtStage(j, "dequeue")
    /\ queue' = queue \ {jobs[j].msg}
    /\ Goto(j, IF jobs[j].late /\ ~shutdown THEN "followup" ELSE "finish")
    /\ UNCHANGED <<server, delivered, up, shutdown, polled, spawned, processedIds,
                   recovery, histories, faults>>

Followup(j) ==
    /\ AtStage(j, "followup")
    /\ Goto(j, "finish")
    /\ UNCHANGED <<outside, up, shutdown, polled, spawned, processedIds, recovery,
                   histories, faults>>

\* The finally clause; then the lane is released.
Finish(j) ==
    /\ AtStage(j, "finish")
    /\ spawned' = spawned \ {jobs[j].msg}
    /\ jobs' = [jobs EXCEPT ![j] = FreeJob]
    /\ UNCHANGED <<outside, up, shutdown, polled, processedIds, recovery, histories,
                   faults>>

-----------------------------------------------------------------------------
(* The main thread: recovery of the crash queue, after the worker has been   *)
(* started, from a copy of the queue read once.                              *)

RecoverLoad ==
    /\ up /\ recovery.at = "load"
    /\ recovery' = [recovery EXCEPT !.at = "next", !.todo = queue]
    /\ UNCHANGED <<outside, up, shutdown, polled, spawned, processedIds, jobs,
                   histories, faults>>

RecoverNext(at, m) ==
    recovery' = [at |-> at, todo |-> recovery.todo \ {m}, msg |-> m]

\* check_bot_response_exists: no answer from the server counts as no response.
RecoverCheck(m) ==
    /\ up /\ recovery.at = "next" /\ m \in recovery.todo
    /\ \/ delivered[m] # {} /\ RecoverNext("dequeue", m) /\ UNCHANGED faults
       \/ delivered[m] = {} /\ RecoverNext("resubmit", m) /\ UNCHANGED faults
       \/ delivered[m] # {} /\ RecoverNext("resubmit", m) /\ Fault
    /\ UNCHANGED <<outside, up, shutdown, polled, spawned, processedIds, jobs,
                   histories>>

\* "The daemon was restarted. The previous response was delivered normally."
RecoverDequeue ==
    /\ up /\ recovery.at = "dequeue"
    /\ told' = told \cup {recovery.msg}
    /\ queue' = queue \ {recovery.msg}
    /\ recovery' = [recovery EXCEPT !.at = "next", !.msg = NoMsg]
    /\ UNCHANGED <<server, delivered, up, shutdown, polled, spawned, processedIds,
                   jobs, begun, wiped, attempted, faults>>

RecoverResubmit ==
    /\ up /\ recovery.at = "resubmit"
    /\ spawned' = spawned \cup {recovery.msg}
    /\ Submit(recovery.msg, TRUE)
    /\ recovery' = [recovery EXCEPT !.at = "next", !.msg = NoMsg]
    /\ UNCHANGED <<outside, up, shutdown, polled, processedIds, histories, faults>>

RecoverDone ==
    /\ up /\ recovery.at = "next" /\ recovery.todo = {}
    /\ recovery' = [recovery EXCEPT !.at = "done"]
    /\ UNCHANGED <<outside, up, shutdown, polled, spawned, processedIds, jobs,
                   histories, faults>>

-----------------------------------------------------------------------------
(* Stops, crashes and restarts.                                              *)

\* A signal, an update, a restart asked for on the web.
Stop ==
    /\ up /\ ~shutdown /\ Fault
    /\ shutdown' = TRUE
    /\ UNCHANGED <<outside, up, polled, spawned, processedIds, jobs, recovery,
                   histories>>

Die ==
    /\ up' = FALSE /\ shutdown' = FALSE
    /\ polled' = {} /\ spawned' = {} /\ processedIds' = {}
    /\ jobs' = [j \in Slots |-> FreeJob]
    /\ recovery' = IdleRecovery
    /\ begun' = [m \in Msgs |-> 0] /\ wiped' = FALSE
    /\ UNCHANGED <<outside, attempted, told>>

\* The main loop ends, queued jobs are cancelled, and the process exits when no
\* job is in flight.
Exit ==
    /\ up /\ shutdown /\ recovery.at = "done"
    /\ \A j \in Slots : jobs[j].at \in Waits
    /\ Die
    /\ UNCHANGED faults

\* A kill at any point, or the end of the drain with a job still in flight.
Crash == up /\ Fault /\ Die

Restart ==
    /\ ~up
    /\ up' = TRUE
    /\ UNCHANGED <<outside, shutdown, polled, spawned, processedIds, jobs, recovery,
                   histories, faults>>

-----------------------------------------------------------------------------
JobStep(j) ==
    \/ GetLane(j) \/ Lock(j) \/ Check(j) \/ Remark(j) \/ EnqueueMessage(j)
    \/ Mark(j) \/ CommandAnswered(j) \/ TurnEnds(j) \/ Raise(j) \/ ReplyError(j) \/ SendChunk(j)
    \/ Dequeue(j) \/ Followup(j) \/ Finish(j)
Polling == Poll \/ \E m \in Msgs : HandlePolled(m)
Recover == \/ RecoverLoad \/ \E m \in Msgs : RecoverCheck(m)
           \/ RecoverDequeue \/ RecoverResubmit \/ RecoverDone

Next ==
    \/ \E m \in Msgs : Arrive(m)
    \/ Polling \/ Recover
    \/ \E j \in Slots : JobStep(j)
    \/ Stop \/ Exit \/ Crash \/ Restart

Spec == Init /\ [][Next]_vars

(* Threads that can move do: the polling loop, the main thread, each job.    *)
(* The supervisor (launchd, systemd, the exec of a restart) brings a daemon  *)
(* that has ended up again.  Nothing obliges messages, stops or faults.      *)
Fairness ==
    /\ WF_vars(Polling) /\ WF_vars(Recover)
    /\ \A j \in Slots : WF_vars(JobStep(j))
    /\ WF_vars(Exit) /\ WF_vars(Restart)
FairSpec == Spec /\ Fairness

-----------------------------------------------------------------------------
TypeOK ==
    /\ server \in [Msgs -> {"absent", "pending", "processed"}]
    /\ delivered \in [Msgs -> SUBSET (0..Chunks)]
    /\ queue \subseteq Msgs
    /\ up \in BOOLEAN /\ shutdown \in BOOLEAN
    /\ polled \subseteq Msgs /\ spawned \subseteq Msgs /\ processedIds \subseteq Msgs
    /\ jobs \in [Slots -> [msg : Msgs \cup {NoMsg}, live : BOOLEAN, again : BOOLEAN,
                           at : JobStages, sent : 0..Chunks, late : BOOLEAN]]
    /\ recovery \in [at : {"load", "next", "dequeue", "resubmit", "done"},
                     todo : SUBSET Msgs, msg : Msgs \cup {NoMsg}]
    /\ begun \in [Msgs -> Nat] /\ wiped \in BOOLEAN
    /\ attempted \subseteq Msgs /\ told \subseteq Msgs
    /\ faults \in 0..MaxFaults

(* A message the server no longer offers is still in the crash queue, unless *)
(* an answer or an error has been sent for it: whatever crashes, stops and   *)
(* lost calls do, no request disappears without a word.                      *)
NothingLost ==
    \A m \in Msgs : server[m] = "processed" => m \in queue \/ m \in attempted
                                                           \/ delivered[m] # {}

(* Between two restarts a message gets one turn, however often the server    *)
(* offers it again, a poll response is stale, or recovery submits what the   *)
(* poll has taken as well; but not when processed_ids was cleared meanwhile. *)
OneTurnPerLife == wiped \/ \A m \in Msgs : begun[m] <= 1

(* A request is kept from the moment the server lets go of it until its word   *)
(* is out, and is not worked on twice meanwhile: what the custody below comes *)
(* to, whatever keeps it.                                                   *)
RequestsKept == NothingLost /\ OneTurnPerLife

(* At most one job works on a project, the live meeting's lanes and what     *)
(* recovery submits included.                                                *)
OneHolder == \A p \in Projects : Cardinality(LockHolders(p)) <= 1

(* Every message the server offers is answered in the end, over restarts;    *)
(* an empty one is only taken.                                               *)
EventuallyAnswered ==
    \A m \in Msgs \ EmptyMsgs : server[m] = "pending" ~> m \in attempted \/ delivered[m] # {}

(* And the server stops offering it: a mark that was lost is repeated when   *)
(* the message turns up again, so no poll loop runs for ever on it.          *)
EventuallyMarked == \A m \in Msgs : server[m] = "pending" ~> server[m] = "processed"

(* Whatever crashes, stops, lost calls and exceptions come between, a message  *)
(* on the server is served to its end: answered, and offered no more.        *)
EachServed == EventuallyAnswered /\ EventuallyMarked

-----------------------------------------------------------------------------
(* The requests that an answer, a part of one or an error has gone out for.   *)
Answered == {m \in Msgs : m \in attempted \/ delivered[m] # {}}

Promise == INSTANCE Custody WITH listing <- server, kept <- queue, answered <- Answered,
                                 turns <- begun, sure <- ~wiped

(* Every step of the polling thread, of the jobs, of recovery and of the      *)
(* server, and every way the daemon may end, does to a request only what its  *)
(* custody allows: it is kept here before the server is told to let go, let   *)
(* go of here only once its word is out, and come to once in a life.         *)
KeepsCustody == Promise!CustodySpec
=============================================================================
