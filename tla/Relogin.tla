------------------------------ MODULE Relogin ------------------------------
(***************************************************************************)
(* The re-login engine of scripts/daemon/relogin.py and its bridge to the    *)
(* settings page, relogin_settings.py.                                      *)
(*                                                                         *)
(* One ReloginSession is shared by all threads.  start() begins a session and  *)
(* a flow thread that runs `claude auth login` in a terminal of its own; the   *)
(* thread shows the URL, waits for a code, types it in and tells the result.   *)
(* A session is begun, and a code handed in, by a message of the chat, by a    *)
(* turn that met a 401, or by the main loop, which reads the settings page's   *)
(* fields in the database every five seconds.  A session that outlived its     *)
(* ten minutes is replaced, while its thread may still be at work.             *)
(***************************************************************************)
EXTENDS Integers, FiniteSets

CONSTANTS
    MaxAsks,        \* bound: logins asked for in the chat or by a 401
    MaxRequests,    \* bound: logins asked for on the settings page
    MaxFaults       \* bound: lost calls of the web, failed forks and crashes

ASSUME ReloginAssumption == {MaxAsks, MaxRequests, MaxFaults} \subseteq Nat

\* A request begun before a crash is begun again after it.
Flow == 1..(MaxAsks + MaxRequests + MaxFaults)
NoFlow == 0

\* extract_code: a text holds a code, or it does not and counts as junk.
Code == {"code", "junk"}
NoCode == "none"

Active == {"pending_url", "waiting_code", "verifying"}

VARIABLES
    session,    \* the ReloginSession: state, its flow, the code, the process of _pid and _fd, on_event
    pc,         \* of each flow thread: what it does next
    woken,      \* of each flow thread: the event of its session is set
    overdue,    \* of each flow thread: SESSION_TTL_SEC passed since its session's started_at
    child,      \* of each flow thread: the login process it forked
    reaping,    \* of each flow thread: the process _wait_proc read
    db,         \* user_status: relogin_state and relogin_code
    poll,       \* the main loop within poll_relogin
    polled,     \* the code poll_relogin read
    starting,   \* relogin_settings._starting
    chat,       \* a worker between is_pending and submit_code: the code it holds
    userless,   \* main did not learn its user's id at its start, and polls nothing
    flows, asks, requests, faults

engine == <<session, pc, woken, overdue, child, reaping, flows>>
bridge == <<poll, polled, starting>>
reloginVars == <<engine, db, bridge, chat, userless, asks, requests, faults>>

Pc == {"none", "spawn", "capture", "tell_page", "tell_chat", "wait", "no_code", "inject", "verify", "reap_ok",
       "reap_bad", "reaping_ok", "reaping_bad", "kill", "fail", "tell_failed", "win", "tell_done", "over"}
DbState == {"idle", "requested", "starting", "url_ready", "code_submitted", "verifying", "done", "failed"}
NoSession == [state |-> "idle", flow |-> NoFlow, code |-> NoCode, proc |-> NoFlow, ui |-> FALSE]

ReloginTypeOK ==
    /\ session \in [state : Active \cup {"idle", "done", "failed"}, flow : Flow \cup {NoFlow},
                    code : {NoCode, "code"}, proc : Flow \cup {NoFlow}, ui : BOOLEAN]
    /\ pc \in [Flow -> Pc]
    /\ woken \in [Flow -> BOOLEAN] /\ overdue \in [Flow -> BOOLEAN]
    /\ child \in [Flow -> {"none", "running", "gone"}]
    /\ reaping \in [Flow -> Flow \cup {NoFlow}]
    /\ db \in [state : DbState, code : Code \cup {NoCode}]
    /\ poll \in {"idle", "mark", "start", "submit", "accepted", "rejected"}
    /\ polled \in Code \cup {NoCode} /\ starting \in BOOLEAN
    /\ chat \in Code \cup {NoCode} /\ userless \in BOOLEAN
    /\ flows \in Flow \cup {0} /\ asks \in 0..MaxAsks
    /\ requests \in 0..MaxRequests /\ faults \in 0..MaxFaults

ReloginInit ==
    /\ session = NoSession
    /\ pc = [f \in Flow |-> "none"] /\ child = [f \in Flow |-> "none"]
    /\ woken = [f \in Flow |-> FALSE] /\ overdue = [f \in Flow |-> FALSE]
    /\ reaping = [f \in Flow |-> NoFlow]
    /\ db = [state |-> "idle", code |-> NoCode]
    /\ poll = "idle" /\ polled = NoCode /\ starting = FALSE /\ chat = NoCode
    /\ userless \in BOOLEAN
    /\ flows = 0 /\ asks = 0 /\ requests = 0 /\ faults = 0

Fault == faults < MaxFaults /\ faults' = faults + 1

\* patch_relogin: api_request gives up without a word, and the call is lost.
Patch(state, code) ==
    \/ db' = [state |-> state, code |-> code] /\ UNCHANGED faults
    \/ UNCHANGED db /\ Fault

-----------------------------------------------------------------------------
(* ReloginSession's methods.                                                *)

Fresh == session.flow # NoFlow /\ ~overdue[session.flow]

\* start() under the session's lock.  What is under way and fresh is only told
\* again; anything else is reset, whatever its thread and process are doing.
StartEngineBlindly(ui) ==
    IF session.state \in Active \ {"verifying"} /\ Fresh THEN UNCHANGED engine
    ELSE /\ flows' = flows + 1
         /\ session' = [state |-> "pending_url", flow |-> flows + 1, code |-> NoCode, proc |-> NoFlow, ui |-> ui]
         /\ pc' = [pc EXCEPT ![flows + 1] = "spawn"]
         /\ UNCHANGED <<woken, overdue, child, reaping>>
StartEngine(ui) ==
    IF session.state \in Active /\ Fresh THEN UNCHANGED engine
    ELSE /\ flows' = flows + 1
         /\ session' = [state |-> "pending_url", flow |-> flows + 1, code |-> NoCode, proc |-> NoFlow, ui |-> ui]
         /\ pc' = [pc EXCEPT ![flows + 1] = "spawn"]
         /\ UNCHANGED <<woken, overdue, child, reaping>>

\* _fail_locked: whichever session is the present one fails, and its thread wakes.
FailLocked ==
    /\ session' = [session EXCEPT !.state = "failed", !.code = NoCode]
    /\ woken' = [woken EXCEPT ![session.flow] = TRUE]

\* submit_code: what it answers, and what it does.
Answer(code) ==
    CASE session.state # "waiting_code" -> "no_pending"
      [] session.state = "waiting_code" /\ ~Fresh -> "timeout"
      [] session.state = "waiting_code" /\ Fresh /\ code = "junk" -> "bad_format"
      [] OTHER -> "ok"
SubmitCode(code) ==
    /\ CASE Answer(code) = "timeout" -> FailLocked
         [] Answer(code) = "ok" ->
                /\ session' = [session EXCEPT !.state = "verifying", !.code = code]
                /\ woken' = [woken EXCEPT ![session.flow] = TRUE]
         [] OTHER -> UNCHANGED <<session, woken>>
    /\ UNCHANGED <<pc, overdue, child, reaping, flows>>

-----------------------------------------------------------------------------
(* The flow thread f.                                                       *)

GoesTo(f, label) == pc' = [pc EXCEPT ![f] = label]
Outside == <<bridge, chat, asks, requests, userless>>
AtFlow(f, label) == pc[f] = label /\ UNCHANGED <<Outside, flows>>

\* pty.fork: the pid and the terminal become those of the session.
Fork(f) ==
    /\ AtFlow(f, "spawn")
    /\ child' = [child EXCEPT ![f] = "running"]
    /\ session' = [session EXCEPT !.proc = f]
    /\ GoesTo(f, "capture")
    /\ UNCHANGED <<woken, overdue, reaping, db, faults>>

\* An exception of the flow: the session fails, and nobody is told.
ForkFails(f) ==
    /\ AtFlow(f, "spawn")
    /\ FailLocked
    /\ GoesTo(f, "over")
    /\ Fault
    /\ UNCHANGED <<overdue, child, reaping, db>>

\* The screen shows a whole URL; started_at is set anew, and _publish_url looks
\* at once where it is to be told.
UrlSeen(f) ==
    /\ AtFlow(f, "capture")
    /\ child[f] = "running"
    /\ session' = [session EXCEPT !.state = "waiting_code"]
    /\ GoesTo(f, IF session.ui THEN "tell_page" ELSE "tell_chat")
    /\ UNCHANGED <<woken, overdue, child, reaping, db, faults>>

\* 45 seconds, or the end of the output, without one.
UrlMissed(f) ==
    /\ AtFlow(f, "capture")
    /\ GoesTo(f, "kill")
    /\ UNCHANGED <<session, woken, overdue, child, reaping, db, faults>>

\* _publish_url, to the page or to the chat.
PublishUrl(f) ==
    /\ pc[f] \in {"tell_page", "tell_chat"}
    /\ GoesTo(f, "wait")
    /\ IF pc[f] = "tell_page" THEN Patch("url_ready", db.code) ELSE UNCHANGED <<db, faults>>
    /\ UNCHANGED <<session, woken, overdue, child, reaping, Outside, flows>>

\* The event is set: the code is taken out of the session, if there is one.
TakeCode(f) ==
    /\ AtFlow(f, "wait")
    /\ woken[f]
    /\ session' = [session EXCEPT !.code = NoCode]
    /\ GoesTo(f, IF session.code = NoCode THEN "no_code" ELSE "inject")
    /\ UNCHANGED <<woken, overdue, child, reaping, db, faults>>

\* Nobody came: the wait is as long as the session's life.
TimedOut(f) ==
    /\ AtFlow(f, "wait")
    /\ overdue[f] /\ ~woken[f]
    /\ GoesTo(f, "kill")
    /\ UNCHANGED <<session, woken, overdue, child, reaping, db, faults>>

\* Woken without a code: the thread ends, its process and terminal stay.
EndWithoutCode(f) ==
    /\ AtFlow(f, "no_code")
    /\ FailLocked
    /\ GoesTo(f, "over")
    /\ UNCHANGED <<overdue, child, reaping, db, faults>>

\* os.write to the thread's own terminal, which fails once that is closed.
Inject(f) ==
    /\ AtFlow(f, "inject")
    /\ \/ GoesTo(f, "verify")
       \/ child[f] = "gone" /\ GoesTo(f, "kill")
    /\ UNCHANGED <<session, woken, overdue, child, reaping, db, faults>>

\* The screen says it succeeded, says it did not, or is silent for 60 seconds.
ReadVerdict(f) ==
    /\ AtFlow(f, "verify")
    /\ \/ child[f] = "running" /\ GoesTo(f, "reap_ok")
       \/ GoesTo(f, "reap_bad")
    /\ UNCHANGED <<session, woken, overdue, child, reaping, db, faults>>

\* _wait_proc: the session's process is read, waited for, and its terminal closed.
ReadProc(f) ==
    /\ pc[f] \in {"reap_ok", "reap_bad"}
    /\ reaping' = [reaping EXCEPT ![f] = session.proc]
    /\ GoesTo(f, IF pc[f] = "reap_ok" THEN "reaping_ok" ELSE "reaping_bad")
    /\ UNCHANGED <<session, woken, overdue, child, db, faults, Outside, flows>>

\* Without a word of success, a process that ended well and an auth status that
\* says "logged in" will do.
WaitProc(f) ==
    /\ pc[f] \in {"reaping_ok", "reaping_bad"}
    /\ IF reaping[f] = NoFlow
       THEN UNCHANGED <<session, child>>
       ELSE /\ child' = [child EXCEPT ![reaping[f]] = "gone"]
            /\ session' = [session EXCEPT !.proc = NoFlow]
    /\ \/ pc[f] = "reaping_ok" /\ GoesTo(f, "win")
       \/ pc[f] = "reaping_bad" /\ GoesTo(f, "fail")
       \/ pc[f] = "reaping_bad" /\ reaping[f] # NoFlow /\ GoesTo(f, "win")
    /\ reaping' = [reaping EXCEPT ![f] = NoFlow]
    /\ UNCHANGED <<woken, overdue, db, faults, Outside, flows>>

\* _kill_proc: the session's process is killed and forgotten.
KillProc(f) ==
    /\ AtFlow(f, "kill")
    /\ child' = IF session.proc = NoFlow THEN child ELSE [child EXCEPT ![session.proc] = "gone"]
    /\ session' = [session EXCEPT !.proc = NoFlow]
    /\ GoesTo(f, "fail")
    /\ UNCHANGED <<woken, overdue, reaping, db, faults>>

Fail(f) ==
    /\ AtFlow(f, "fail")
    /\ FailLocked
    /\ GoesTo(f, "tell_failed")
    /\ UNCHANGED <<overdue, child, reaping, db, faults>>

Win(f) ==
    /\ AtFlow(f, "win")
    /\ session' = [session EXCEPT !.state = "done"]
    /\ GoesTo(f, "tell_done")
    /\ UNCHANGED <<woken, overdue, child, reaping, db, faults>>

\* _publish_result, with the warning about the account that came in.
PublishResult(f) ==
    /\ pc[f] \in {"tell_failed", "tell_done"}
    /\ GoesTo(f, "over")
    /\ IF session.ui THEN Patch(IF pc[f] = "tell_done" THEN "done" ELSE "failed", NoCode)
       ELSE UNCHANGED <<db, faults>>
    /\ UNCHANGED <<session, woken, overdue, child, reaping, Outside, flows>>

FlowStep(f) ==
    \/ Fork(f) \/ ForkFails(f) \/ UrlSeen(f) \/ UrlMissed(f) \/ PublishUrl(f)
    \/ TakeCode(f) \/ TimedOut(f) \/ EndWithoutCode(f) \/ Inject(f) \/ ReadVerdict(f)
    \/ ReadProc(f) \/ WaitProc(f) \/ KillProc(f) \/ Fail(f) \/ Win(f) \/ PublishResult(f)

\* Ten minutes pass since the URL came: only in the wait for the code and for the
\* verdict is there the time, and a thread that was woken does not sleep that long.
Expire(f) ==
    /\ pc[f] \in {"wait", "inject", "verify", "reap_ok", "reap_bad", "reaping_ok", "reaping_bad"}
    /\ ~overdue[f]
    /\ ~(pc[f] = "wait" /\ woken[f])
    /\ overdue' = [overdue EXCEPT ![f] = TRUE]
    /\ UNCHANGED <<session, pc, woken, child, reaping, flows, db, faults, Outside>>

-----------------------------------------------------------------------------
(* The chat: a trigger word or a 401, and a message that holds a code.       *)

AskInChat ==
    /\ asks < MaxAsks
    /\ asks' = asks + 1
    /\ StartEngine(FALSE)
    /\ UNCHANGED <<db, bridge, chat, requests, userless, faults>>

\* process_message: is_pending holds the code back from Claude ...
CatchCode ==
    /\ chat = NoCode
    /\ session.state = "waiting_code" /\ Fresh
    /\ chat' = "code"
    /\ UNCHANGED <<engine, db, bridge, asks, requests, userless, faults>>

\* ... and hands it in; whatever the answer, the message is done with.
HandInCode ==
    /\ chat # NoCode
    /\ SubmitCode(chat)
    /\ chat' = NoCode
    /\ UNCHANGED <<db, bridge, asks, requests, userless, faults>>

-----------------------------------------------------------------------------
(* The settings page, and poll_relogin, which serves it.                    *)

\* The user asks for a login when none is under way, as far as the page shows.
Request ==
    /\ requests < MaxRequests
    /\ db.state \in {"idle", "done", "failed"}
    /\ requests' = requests + 1
    /\ db' = [db EXCEPT !.state = "requested"]
    /\ UNCHANGED <<engine, bridge, chat, userless, asks, faults>>

EnterCode ==
    /\ db.state = "url_ready"
    /\ \E code \in Code : db' = [state |-> "code_submitted", code |-> code]
    /\ UNCHANGED <<engine, bridge, chat, asks, requests, userless, faults>>

\* main asks for its user's id once, at its start; without one it never polls.
PollsNow == poll = "idle" /\ ~userless

\* _starting is taken back when a poll sees a login that is over.
PollSeesEnd ==
    /\ PollsNow
    /\ db.state \in {"idle", "done", "failed"}
    /\ starting /\ starting' = FALSE
    /\ UNCHANGED <<engine, db, poll, polled, chat, asks, requests, userless, faults>>

\* A read that fails reads as a login that is over.
PollReadsNothing ==
    /\ PollsNow
    /\ starting' = FALSE
    /\ Fault
    /\ UNCHANGED <<engine, db, poll, polled, chat, asks, requests, userless>>

PollSeesRequest ==
    /\ PollsNow
    /\ db.state = "requested"
    /\ ~starting /\ session.state \notin Active
    /\ starting' = TRUE
    /\ poll' = "mark"
    /\ UNCHANGED <<engine, db, polled, chat, asks, requests, userless, faults>>

PollMarks ==
    /\ poll = "mark"
    /\ Patch("starting", db.code)
    /\ poll' = "start"
    /\ UNCHANGED <<engine, polled, starting, chat, asks, requests, userless>>

PollStarts ==
    /\ poll = "start"
    /\ StartEngine(TRUE)
    /\ poll' = "idle"
    /\ UNCHANGED <<db, polled, starting, chat, asks, requests, userless, faults>>

PollSeesCode ==
    /\ PollsNow
    /\ db.state = "code_submitted" /\ db.code # NoCode
    /\ polled' = db.code
    /\ poll' = "submit"
    /\ UNCHANGED <<engine, db, starting, chat, asks, requests, userless, faults>>

PollSubmits ==
    /\ poll = "submit"
    /\ SubmitCode(polled)
    /\ poll' = IF Answer(polled) = "ok" THEN "accepted" ELSE "rejected"
    /\ polled' = NoCode
    /\ UNCHANGED <<db, starting, chat, asks, requests, userless, faults>>

\* The code goes out of the database whatever became of it.
PollRecordsAccepted ==
    /\ poll \in {"accepted", "rejected"}
    /\ IF poll = "accepted" THEN Patch("verifying", NoCode) ELSE UNCHANGED <<db, faults>>
    /\ poll' = "idle"
    /\ UNCHANGED <<engine, polled, starting, chat, asks, requests, userless>>
PollRecords ==
    /\ poll \in {"accepted", "rejected"}
    /\ Patch(IF poll = "accepted" THEN "verifying" ELSE "failed", NoCode)
    /\ poll' = "idle"
    /\ UNCHANGED <<engine, polled, starting, chat, asks, requests, userless>>

PollStep ==
    \/ PollSeesEnd \/ PollSeesRequest \/ PollMarks \/ PollStarts
    \/ PollSeesCode \/ PollSubmits \/ PollRecords

-----------------------------------------------------------------------------
\* The daemon dies with its threads; a login process goes with its terminal.  The
\* next life learns its user's id, or does not.
Crash ==
    /\ Fault
    /\ session' = NoSession
    /\ pc' = [f \in Flow |-> IF pc[f] = "none" THEN "none" ELSE "over"]
    /\ child' = [f \in Flow |-> IF child[f] = "running" THEN "gone" ELSE child[f]]
    /\ reaping' = [f \in Flow |-> NoFlow]
    /\ poll' = "idle" /\ polled' = NoCode /\ starting' = FALSE /\ chat' = NoCode
    /\ userless' \in BOOLEAN
    /\ UNCHANGED <<woken, overdue, flows, db, asks, requests>>

\* The login process ends by itself.
ProcessEnds(f) ==
    /\ child[f] = "running"
    /\ child' = [child EXCEPT ![f] = "gone"]
    /\ UNCHANGED <<session, pc, woken, overdue, reaping, flows, db, faults, Outside>>

ReloginNext ==
    \/ \E f \in Flow : FlowStep(f) \/ Expire(f) \/ ProcessEnds(f)
    \/ AskInChat \/ CatchCode \/ HandInCode
    \/ Request \/ EnterCode
    \/ PollStep \/ PollReadsNothing
    \/ Crash

ReloginSpec == ReloginInit /\ [][ReloginNext]_reloginVars

\* Threads run on, the main loop polls, time passes; users may do nothing.
ReloginFairness ==
    /\ \A f \in Flow : WF_reloginVars(FlowStep(f)) /\ WF_reloginVars(Expire(f))
    /\ WF_reloginVars(PollStep)
ReloginFairSpec == ReloginSpec /\ ReloginFairness

-----------------------------------------------------------------------------
(* Properties.                                                              *)

\* As long as logins end within their ten minutes, no second one is begun beside a
\* first: where a login process runs although a later session was begun, it has
\* outlived its time, or the thread of an earlier session that did so has failed a
\* session that was not its own (ReloginSession.start, every end of a flow thread).
OneWhileFresh ==
    \A f, g \in Flow :
        f < g /\ child[f] = "running" /\ pc[g] # "none" => \E e \in 1..f : overdue[e]

\* No code waits for ever: the engine's copy goes when a thread takes it or fails the
\* session, and one entered on the page is handed in and answered, also when its
\* session is gone, replaced or overdue, when calls are lost or the daemon crashes
\* (relogin.py:441-444, relogin_settings.py:11-14); except in a life of the daemon that
\* could not learn its user's id at its start, where it waits for the next.
CodeHandled ==
    /\ session.code # NoCode ~> session.code = NoCode
    /\ db.state = "code_submitted" ~> db.state # "code_submitted" \/ userless

\* No session stays open: each ends by its thread's result, its timeout or the
\* session that replaced it, even when nobody hands in a code.
SessionEnds == session.state \in Active ~> session.state \notin Active

\* Who logs in again is not left waiting: a code is answered and a session ends,
\* also over lost calls, sessions in each other's way and a crash, by a daemon that
\* knows its user.
SessionsServed == CodeHandled /\ SessionEnds
=============================================================================
