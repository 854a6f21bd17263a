----------------------------- MODULE EngineRun -----------------------------
(***************************************************************************)
(* One turn's way through a command-line engine: the loop over the output of *)
(* the process in run_claude, run_codex and run_gemini of                   *)
(* scripts/daemon/claude_runner.py, and in run_claude_turn of                *)
(* scripts/cloud_daemon.py, from the start of the process to what the turn   *)
(* returns.  What turns share (permits, cooldowns, seats) is ClaudeTurn's.   *)
(*                                                                         *)
(* The process writes lines into a pipe and ends when it likes.  The turn's  *)
(* thread takes them out through a reader that reads ahead, and looks between *)
(* two lines at the clock, the shutdown and the user's stop.  The clock counts *)
(* in ticks, and the thread passes its loop at least once in each.            *)
(*                                                                         *)
(* A line comes whole.  The code has no clock for a readline that waits for    *)
(* the rest of a line, nor for reading stderr after the process has ended.    *)
(***************************************************************************)
EXTENDS Integers, FiniteSets, SequencesExt

CONSTANTS
    Engines,        \* which of "claude", "codex", "gemini" and "cloud"
    MaxResets,      \* MAX_CONTEXT_OVERFLOW_RETRIES
    MaxOverloads,   \* MAX_OVERLOAD_RETRIES
    Hard, HardTools,\* claude_hard_timeout_sec and ..._with_tools_sec, in ticks
    Quiet,          \* claude_stdout_timeout_sec
    Drain,          \* shutdown_drain_sec
    Grace,          \* seconds an interrupted process is left to end by itself
    MaxEvents,      \* bound: lines written in all
    MaxFaults       \* bound: exceptions and processes that do not start

ASSUME EngineAssumption ==
    /\ Engines # {} /\ Engines \subseteq {"claude", "codex", "gemini", "cloud"}
    /\ {MaxResets, MaxOverloads, Hard, HardTools, Quiet, Drain, Grace, MaxEvents, MaxFaults} \subseteq Nat
    /\ Hard <= HardTools

VARIABLES
    engine, pc,
    proc,       \* the process: none, running, its output closed, exited by itself, killed
    holder,     \* a descendant of the ended process still holds its pipe
    ending,     \* how it ended: ok, bad, bad for want of its session
    pipe,       \* lines written and not read
    ahead,      \* lines the reader took from the pipe and did not give out yet
    texts,      \* how many pieces of text this process has written
    partOpen,   \* it has written text since its last result
    answer,     \* what the turn has collected from this process
    clock,      \* ticks since: the start, the last line, the interrupt, the drain
    looked,     \* the thread has passed its loop since the last tick
    shutdown,
    stop,       \* the user's stop: no, asked, seen by the poller, heeded and taken off the server
    forced,     \* the stop ended in a kill
    fired,      \* the cloud's timer went off
    guard,      \* mark_interrupted: the next turn shall look at the state of things first
    stored,     \* the conversation's session: none, old, or new
    sid,        \* the one the process resumes
    resets, overloads,
    result,     \* what the turn returned: its kind, and the texts sent
    written, faults

process == <<proc, holder, ending, pipe, texts, partOpen, written>>
asked == <<shutdown, stop, forced, fired>>
Alive == proc \in {"running", "closed"}
session == <<stored, sid, resets, overloads>>
vars == <<engine, pc, process, ahead, answer, clock, looked, asked, guard, session, result, faults>>

-----------------------------------------------------------------------------
(* What is collected of a process's output.  Texts are numbered in the order *)
(* they were written; a boundary, the note about a stop and an error that is     *)
(* told are the daemon's own.                                               *)

Boundary == 0
Note == -1
Line(kind, text) == [kind |-> kind, text |-> text]

\* said: response_text; parts: result_segments; start: _seg_start; resumed:
\* _pending_boundary; tools, error: a tool was used, an error was reported.
NoAnswer == [said |-> <<>>, parts |-> <<>>, start |-> 0, resumed |-> FALSE,
             tools |-> FALSE, error |-> FALSE, heard |-> 0]

\* The words since the last result.
Part(a) == SubSeq(a.said, a.start + 1, Len(a.said))

CollectText(a, text) ==
    IF a.resumed /\ a.said # <<>>
    THEN [a EXCEPT !.said = @ \o <<Boundary, text>>, !.start = Len(a.said) + 1, !.resumed = FALSE]
    ELSE [a EXCEPT !.said = Append(@, text), !.resumed = FALSE]

\* A result's own words count only where they were not collected before.
CollectResultFromStart(a, text) ==
    LET said == IF text = 0 \/ text \in ToSet(Part(a)) THEN a.said
                ELSE IF Part(a) = <<>> /\ a.said # <<>> THEN a.said \o <<Boundary, text>>
                ELSE Append(a.said, text)
        part == IF Part(a) = <<>> THEN <<text>> ELSE SubSeq(said, a.start + 1, Len(said))
    IN  IF text = 0 THEN a
        ELSE [a EXCEPT !.said = said, !.parts = Append(@, part), !.resumed = TRUE]
CollectResult(a, text) ==
    LET said == IF text = 0 \/ text \in ToSet(Part(a)) THEN a.said
                ELSE IF Part(a) = <<>> /\ a.said # <<>> THEN a.said \o <<Boundary, text>>
                ELSE Append(a.said, text)
        part == IF Part(a) = <<>> THEN <<text>> ELSE SubSeq(said, a.start + 1, Len(said))
    IN  IF text = 0 THEN a
        ELSE [a EXCEPT !.said = said, !.parts = Append(@, part), !.start = Len(said), !.resumed = TRUE]

Collect(a, line) ==
    LET more == CASE line.kind = "text" -> CollectText(a, line.text)
                  [] line.kind = "tool" -> [a EXCEPT !.tools = TRUE]
                  [] line.kind = "result" -> CollectResult(a, line.text)
                  [] line.kind = "error" /\ engine = "codex" /\ a.said = <<>> -> [a EXCEPT !.said = <<Note>>]
                  [] OTHER -> [a EXCEPT !.error = TRUE]
    IN  [more EXCEPT !.heard = IF line.text > @ THEN line.text ELSE @]

\* The messages the user is sent: Claude's parts one by one if there are several.
Outgoing(a) == IF engine = "claude" /\ Len(a.parts) > 1 THEN a.parts ELSE <<a.said>>

\* The texts of some messages, and whether each stands after all that were before it.
Texts(sent) == {t \in UNION {ToSet(sent[m]) : m \in DOMAIN sent} : t > 0}
InOrder(sent) ==
    \A m, n \in DOMAIN sent : \A i \in DOMAIN sent[m], j \in DOMAIN sent[n] :
        /\ m < n \/ (m = n /\ i < j)
        /\ sent[m][i] > 0 /\ sent[n][j] > 0
        => sent[m][i] < sent[n][j]

-----------------------------------------------------------------------------
NoResult == [kind |-> "none", sent |-> <<>>]
NoClock == [age |-> 0, quiet |-> 0, grace |-> -1, drain |-> -1]

(* The lines an engine writes, as far as the turn tells them apart.          *)
Kinds == {"text", "tool", "error"}
         \cup (IF engine \in {"claude", "cloud"} THEN {"result", "denied"} ELSE {})
         \cup (IF engine = "claude" THEN {"busy", "long"} ELSE {})

TypeOK ==
    /\ engine \in Engines /\ pc \in {"start", "loop", "end", "await_again", "await_error", "over"}
    /\ proc \in {"none", "running", "closed", "exited", "killed"} /\ holder \in BOOLEAN
    /\ ending \in {"ok", "bad", "lost_session"}
    /\ \A line \in ToSet(pipe) \cup ToSet(ahead) : line.kind \in Kinds /\ line.text \in 0..texts
    /\ texts \in 0..MaxEvents /\ partOpen \in BOOLEAN
    /\ answer.heard \in 0..texts
    /\ clock.age \in 0..HardTools + 2 /\ clock.quiet \in 0..HardTools + 2
    /\ clock.grace \in -1..HardTools + 2 /\ clock.drain \in -1..HardTools + 2
    /\ {looked, shutdown, forced, fired, guard} \subseteq BOOLEAN
    /\ stop \in {"no", "asked", "seen", "heeded"}
    /\ {stored, sid} \subseteq {"none", "old", "new"}
    /\ resets \in 0..MaxResets /\ overloads \in 0..MaxOverloads
    /\ written \in 0..MaxEvents /\ faults \in 0..MaxFaults

Init ==
    /\ engine \in Engines /\ pc = "start"
    /\ proc = "none" /\ holder = FALSE /\ ending = "ok" /\ pipe = <<>> /\ ahead = <<>>
    /\ texts = 0 /\ partOpen = FALSE /\ answer = NoAnswer
    /\ clock = NoClock /\ looked = FALSE
    /\ shutdown = FALSE /\ stop = "no" /\ forced = FALSE /\ fired = FALSE /\ guard = FALSE
    /\ stored \in {"none", "old"} /\ sid = "none"
    /\ resets = 0 /\ overloads = 0
    /\ result = NoResult /\ written = 0 /\ faults = 0

Return(kind, sent) == pc' = "over" /\ result' = [kind |-> kind, sent |-> sent]
Kill == proc' = "killed" /\ UNCHANGED <<holder, ending, pipe, texts, partOpen, written>>
Fault == faults < MaxFaults /\ faults' = faults + 1

\* The session the process runs on: it reports a new one with its first line.
Reported == IF sid = "none" /\ answer # NoAnswer THEN "new" ELSE sid
Save == stored' = IF Reported = "none" THEN stored ELSE Reported

-----------------------------------------------------------------------------
(* The process, the clock, and those who want the turn to end.               *)

\* A line: a piece of text, a tool, a result that repeats the last text, brings
\* one of its own or none, or an error.
Write ==
    /\ pc # "over" /\ proc = "running" /\ written < MaxEvents
    /\ \E kind \in Kinds :
       \E text \in CASE kind = "text" -> {texts + 1}
                     [] kind = "result" -> {0, texts + 1} \cup (IF partOpen THEN {texts} ELSE {})
                     [] OTHER -> {0} :
            /\ pipe' = Append(pipe, Line(kind, text))
            /\ texts' = IF text > texts THEN text ELSE texts
            /\ partOpen' = CASE kind = "text" -> TRUE [] kind = "result" -> FALSE [] OTHER -> partOpen
    /\ written' = written + 1
    /\ UNCHANGED <<guard, engine, pc, proc, holder, ending, ahead, answer, clock, looked, asked, session, result, faults>>

CloseOutput ==
    /\ pc # "over" /\ proc = "running"
    /\ proc' = "closed"
    /\ UNCHANGED <<engine, pc, holder, ending, pipe, texts, partOpen, written, ahead, answer, clock, looked,
                   asked, guard, session, result, faults>>

Exit ==
    /\ pc # "over" /\ Alive
    /\ proc' = "exited"
    /\ holder' \in (IF engine = "cloud" \/ proc = "closed" THEN {FALSE} ELSE BOOLEAN)
    /\ ending' \in {"ok", "bad", "lost_session"}
    /\ UNCHANGED <<guard, engine, pc, pipe, ahead, texts, partOpen, written, answer, clock, looked, asked, session, result, faults>>

\* Only the loop looks at these two, so they need not happen elsewhere.
Shutdown ==
    /\ pc = "loop" /\ engine # "cloud"
    /\ ~shutdown /\ shutdown' = TRUE
    /\ UNCHANGED <<guard, engine, pc, process, ahead, answer, clock, looked, stop, forced, fired, session, result, faults>>

AskStop ==
    /\ pc = "loop" /\ engine # "cloud"
    /\ stop = "no" /\ stop' = "asked"
    /\ UNCHANGED <<guard, engine, pc, process, ahead, answer, clock, looked, shutdown, forced, fired, session, result, faults>>

\* _stop_poller of run_claude, which ends with the shutdown.
StopUnseen == engine = "claude" /\ Alive /\ stop = "asked" /\ ~shutdown
SeeStop ==
    /\ StopUnseen
    /\ stop' = "seen"
    /\ UNCHANGED <<guard, engine, pc, process, ahead, answer, clock, looked, shutdown, forced, fired, session, result, faults>>

\* The timer of _run_streaming.
TimerDue == engine = "cloud" /\ pc \in {"loop", "end"} /\ clock.age > Hard /\ ~fired
Watchdog ==
    /\ TimerDue
    /\ fired' = TRUE
    /\ proc' = IF Alive THEN "killed" ELSE proc
    /\ ending' = IF Alive THEN "bad" ELSE ending
    /\ UNCHANGED <<guard, engine, pc, holder, pipe, ahead, texts, partOpen, written, answer, clock, looked,
                   shutdown, stop, forced, session, result, faults>>

\* The pipe has something for select, or for a read that blocks.
Ready == pipe # <<>> \/ proc = "closed" \/ (~Alive /\ ~holder)
CanRead == ahead # <<>> \/ Ready

Later(count, limit) == IF count = -1 \/ count > limit + 1 THEN count ELSE count + 1
Tick ==
    /\ clock.age < HardTools + 2
    /\ \/ pc = "loop" /\ (looked \/ (engine = "cloud" /\ ~CanRead))
       \/ pc = "end" /\ engine = "cloud" /\ clock.age <= Hard
    /\ ~StopUnseen /\ ~TimerDue
    /\ clock' = [age |-> clock.age + 1, quiet |-> Later(clock.quiet, Quiet),
                 grace |-> Later(clock.grace, Grace), drain |-> Later(clock.drain, Drain)]
    /\ looked' = FALSE
    /\ UNCHANGED <<guard, engine, pc, process, ahead, answer, asked, session, result, faults>>

-----------------------------------------------------------------------------
(* The turn's thread.                                                       *)

\* Popen.  A stop that an earlier call saw and did not heed is seen anew.
Start ==
    /\ pc = "start"
    /\ proc' = "running" /\ holder' = FALSE /\ ending' = "ok"
    /\ pipe' = <<>> /\ ahead' = <<>> /\ texts' = 0 /\ partOpen' = FALSE
    /\ answer' = NoAnswer /\ clock' = NoClock /\ looked' = FALSE
    /\ stop' = IF stop = "seen" THEN "asked" ELSE stop
    /\ forced' = FALSE /\ fired' = FALSE
    /\ sid' = stored
    /\ pc' = "loop"
    /\ UNCHANGED <<guard, engine, written, shutdown, stored, resets, overloads, result, faults>>

\* A machine without a key for Gemini does not get as far as a process.
KeyMissing ==
    /\ pc = "start" /\ engine = "gemini"
    /\ Return("error", <<>>)
    /\ UNCHANGED <<guard, engine, process, ahead, answer, clock, looked, asked, session, faults>>

\* The command is not installed, or its start fails.
StartFails ==
    /\ pc = "start"
    /\ Return("error", <<>>)
    /\ Fault
    /\ UNCHANGED <<guard, engine, process, ahead, answer, clock, looked, asked, session>>

Loop == pc = "loop" /\ engine # "cloud"
Thread == <<engine, answer, ahead, clock, looked, session, faults>>

\* What the loop looks at before it reads, in this order.
DrainBegins == shutdown /\ clock.drain = -1
DrainOver == clock.drain >= Drain
StopDue == stop = "seen"
GraceOver == clock.grace > Grace /\ Alive
TooOld == clock.age > (IF answer.tools THEN HardTools ELSE Hard)

StartDrain ==
    /\ Loop /\ DrainBegins
    /\ clock' = [clock EXCEPT !.drain = 0]
    /\ UNCHANGED <<guard, engine, pc, process, ahead, answer, looked, asked, session, result, faults>>

\* The sentinel: nothing is sent, and the message stays queued.
CutByDrain ==
    /\ Loop /\ DrainOver
    /\ Kill /\ Return("cut", <<>>)
    /\ UNCHANGED <<guard, Thread, asked>>

\* SIGINT; the request is taken off the server.
Interrupt ==
    /\ Loop /\ ~DrainBegins /\ ~DrainOver /\ StopDue
    /\ stop' = "heeded"
    /\ clock' = [clock EXCEPT !.grace = 0]
    /\ UNCHANGED <<guard, engine, pc, process, ahead, answer, looked, shutdown, forced, fired, session, result, faults>>

\* The whole group is killed, and with it whoever held the pipe.
ForceStop ==
    /\ Loop /\ ~DrainBegins /\ ~DrainOver /\ ~StopDue /\ GraceOver
    /\ proc' = "killed" /\ ending' = "bad"
    /\ forced' = TRUE
    /\ pc' = "end"
    /\ UNCHANGED <<guard, Thread, holder, pipe, texts, partOpen, written, shutdown, stop, fired, result>>

HardTimeout ==
    /\ Loop /\ ~DrainBegins /\ ~DrainOver /\ ~StopDue /\ ~GraceOver /\ TooOld
    /\ Kill /\ Return("timeout", <<>>)
    /\ UNCHANGED <<guard, Thread, asked>>

Reads == Loop /\ ~DrainBegins /\ ~DrainOver /\ ~StopDue /\ ~GraceOver /\ ~TooOld

\* Two seconds without output: has the process ended, is it silent for too long,
\* or (codex, gemini) has the user pressed stop?
EndedUnheard ==
    /\ Reads /\ ~Ready /\ ~Alive
    /\ pc' = "end"
    /\ UNCHANGED <<guard, Thread, process, asked, result>>

SilentTooLongUnkilled ==
    /\ Reads /\ ~Ready /\ proc = "running" /\ clock.quiet > Quiet
    /\ Return("timeout", <<>>)
    /\ UNCHANGED <<guard, Thread, process, asked>>
SilentTooLong ==
    /\ Reads /\ ~Ready /\ proc = "running" /\ clock.quiet > Quiet
    /\ Kill /\ Return("timeout", <<>>)
    /\ UNCHANGED <<guard, Thread, asked>>

StopWhileQuiet ==
    /\ Reads /\ ~Ready /\ proc = "running" /\ clock.quiet <= Quiet
    /\ engine # "claude" /\ stop = "asked"
    /\ Kill /\ Return("stopped", <<Append(answer.said, Note)>>)
    /\ stop' = "heeded"
    /\ UNCHANGED <<guard, Thread, shutdown, forced, fired>>

QuietPass ==
    /\ Reads /\ ~Ready /\ proc = "running" /\ clock.quiet <= Quiet
    /\ engine = "claude" \/ stop # "asked"
    /\ ~looked /\ looked' = TRUE
    /\ UNCHANGED <<guard, engine, pc, process, ahead, answer, clock, asked, session, result, faults>>

\* readline: the first line read ahead, or else the first in the pipe, with all
\* that follow it there read ahead.
NextLine == IF ahead # <<>> THEN Head(ahead) ELSE Head(pipe)
TakeLine ==
    IF ahead # <<>> THEN ahead' = Tail(ahead) /\ pipe' = pipe ELSE ahead' = Tail(pipe) /\ pipe' = <<>>
Reading == Reads /\ Ready /\ (ahead # <<>> \/ pipe # <<>>)

Read ==
    /\ Reading
    /\ NextLine.kind \notin {"long", "busy", "denied"}
    /\ TakeLine
    /\ answer' = IF NextLine.kind = "error" /\ engine = "claude" THEN answer ELSE Collect(answer, NextLine)
    /\ clock' = [clock EXCEPT !.quiet = 0]
    /\ looked' = TRUE
    /\ UNCHANGED <<guard, engine, pc, proc, holder, ending, texts, partOpen, written, asked, session, result, faults>>

EndOfOutput ==
    /\ Reads /\ Ready /\ ahead = <<>> /\ pipe = <<>>
    /\ pc' = "end"
    /\ UNCHANGED <<guard, Thread, process, asked, result>>

ErrorLine(kind) == Reading /\ NextLine.kind = kind /\ TakeLine
AfterLine == <<engine, holder, ending, texts, partOpen, written, answer, clock, looked, asked, sid, faults>>

\* An overload: wait for the process and call again, or else give up without
\* a look at it.
Overloaded ==
    /\ ErrorLine("busy")
    /\ IF overloads < MaxOverloads
       THEN pc' = "await_again" /\ overloads' = overloads + 1 /\ UNCHANGED result
       ELSE Return("overloaded", <<>>) /\ UNCHANGED overloads
    /\ UNCHANGED <<guard, AfterLine, proc, stored, resets>>

\* The context or an image is too much for the session, which is thrown away.
TooLong ==
    /\ ErrorLine("long")
    /\ stored' = "none"
    /\ IF resets < MaxResets
       THEN pc' = "await_again" /\ resets' = resets + 1 /\ overloads' = 0
       ELSE pc' = "await_error" /\ UNCHANGED <<resets, overloads>>
    /\ UNCHANGED <<guard, AfterLine, proc, result>>

\* A limit of the account waits for the process, a login that expired kills it.
\* (That a limit may be tried again on another seat or model is in ClaudeTurn.)
Denied ==
    /\ ErrorLine("denied")
    /\ \/ pc' = "await_error" /\ UNCHANGED <<proc, result>>
       \/ proc' = "killed" /\ Return("error", <<>>)
    /\ UNCHANGED <<guard, AfterLine, stored, resets, overloads>>

\* An exception of the loop leaves the process as it is.  (That of the cloud's is
\* CloudRaise.)
Raise ==
    /\ Loop
    /\ Return("raised", <<>>)
    /\ Fault
    /\ UNCHANGED <<guard, engine, process, ahead, answer, clock, looked, asked, session>>

-----------------------------------------------------------------------------
(* After the loop.                                                          *)

\* proc.wait: 5 seconds after an error that was read, 30 in the cloud, 300 otherwise.
Awaited ==
    /\ pc \in {"await_again", "await_error"} /\ ~Alive
    /\ IF pc = "await_again" THEN pc' = "start" /\ UNCHANGED result ELSE Return("error", <<>>)
    /\ UNCHANGED <<guard, Thread, process, asked>>

WaitTimesOut ==
    /\ pc \in {"await_again", "await_error", "end"} /\ Alive
    /\ Kill /\ Return("timeout", <<>>)
    /\ UNCHANGED <<guard, Thread, asked>>

Ended == pc = "end" /\ ~Alive /\ engine # "cloud"
Failed == ending # "ok" /\ answer.said = <<>>

\* Gemini's error is one of the session's only if there was one to resume.
SessionGone == ending = "lost_session" /\ (engine = "gemini" => sid # "none")

\* The session is not there any more: it is dropped, and the call repeated.
LostSession ==
    /\ Ended /\ Failed /\ SessionGone
    /\ stored' = "none"
    /\ IF resets < MaxResets
       THEN pc' = "start" /\ resets' = resets + 1 /\ overloads' = 0 /\ UNCHANGED result
       ELSE Return("error", <<>>) /\ UNCHANGED <<resets, overloads>>
    /\ UNCHANGED <<guard, engine, process, ahead, answer, clock, looked, asked, sid, faults>>

FailedOtherwise ==
    /\ Ended /\ Failed /\ ~SessionGone
    /\ Return("error", <<>>)
    /\ UNCHANGED <<guard, Thread, process, asked>>

\* All Claude said is that the prompt is too long.
SaidTooLong ==
    /\ Ended /\ ~Failed /\ engine = "claude"
    /\ Len(answer.said) = 1 /\ clock.grace = -1
    /\ resets < MaxResets
    /\ stored' = "none" /\ pc' = "start" /\ resets' = resets + 1 /\ overloads' = 0
    /\ UNCHANGED <<guard, engine, process, ahead, answer, clock, looked, asked, sid, result, faults>>

\* The note on a stop goes to the whole and, as a part of its own, to the parts.
Noted(a) == [a EXCEPT !.said = Append(@, Note), !.parts = Append(@, <<Note>>)]
Answered ==
    /\ Ended /\ ~Failed
    /\ Return("answer", Outgoing(IF clock.grace = -1 THEN answer ELSE Noted(answer)))
    /\ Save
    /\ guard' = (guard \/ forced)
    /\ UNCHANGED <<engine, process, ahead, answer, clock, looked, asked, sid, resets, overloads, faults>>

-----------------------------------------------------------------------------
(* run_claude_turn of the cloud: a read that blocks, and a timer.            *)

CloudLoop == pc = "loop" /\ engine = "cloud"

CloudRead ==
    /\ CloudLoop /\ (ahead # <<>> \/ pipe # <<>>)
    /\ TakeLine
    /\ answer' = Collect(answer, NextLine)
    /\ looked' = TRUE
    /\ IF clock.age > Hard
       THEN /\ pc' = "end"
            /\ proc' = IF Alive THEN "killed" ELSE proc
            /\ ending' = IF Alive THEN "bad" ELSE ending
       ELSE UNCHANGED <<pc, proc, ending>>
    /\ UNCHANGED <<guard, engine, holder, texts, partOpen, written, clock, asked, session, result, faults>>

CloudEndOfOutput ==
    /\ CloudLoop /\ ahead = <<>> /\ pipe = <<>> /\ proc # "running"
    /\ pc' = "end"
    /\ UNCHANGED <<guard, Thread, process, asked, result>>

\* An exception while reading, or while sending what there is so far, is caught:
\* what the process says from then on is not read, and it is waited for as ever.
CloudRaise ==
    /\ CloudLoop
    /\ pc' = "end"
    /\ Fault
    /\ UNCHANGED <<guard, engine, process, ahead, answer, clock, looked, asked, session, result>>

CloudEnded == pc = "end" /\ engine = "cloud" /\ ~Alive
TimedOut == fired \/ (clock.age > Hard /\ ending # "ok")

CloudTimeout ==
    /\ CloudEnded /\ TimedOut
    /\ Return("timeout", <<>>)
    /\ UNCHANGED <<guard, Thread, process, asked>>

CloudLostSession ==
    /\ CloudEnded /\ ~TimedOut
    /\ ending = "lost_session" /\ sid # "none"
    /\ stored' = "none" /\ pc' = "start"
    /\ UNCHANGED <<guard, engine, process, ahead, answer, clock, looked, asked, sid, resets, overloads, result, faults>>

\* Killed, out of memory, at a limit, or without a login.
CloudFails ==
    /\ CloudEnded /\ ~TimedOut
    /\ ending = "bad" \/ (ending = "ok" /\ answer.error)
    /\ Return("error", <<>>)
    /\ IF ending = "ok" THEN Save ELSE UNCHANGED stored
    /\ UNCHANGED <<guard, engine, process, ahead, answer, clock, looked, asked, sid, resets, overloads, faults>>

\* A turn that ended badly is asked for the words it did say.
CloudAnswered ==
    /\ CloudEnded /\ ~TimedOut
    /\ ending = "lost_session" => sid = "none"
    /\ IF ending = "ok" THEN answer.error => answer.said # <<>> ELSE answer.said # <<>> /\ ~answer.error
    /\ Return("answer", Outgoing(answer))
    /\ Save
    /\ UNCHANGED <<guard, engine, process, ahead, answer, clock, looked, asked, sid, resets, overloads, faults>>

\* It said none.
CloudSilent ==
    /\ CloudEnded /\ ~TimedOut
    /\ ending # "ok" /\ (ending = "lost_session" => sid = "none")
    /\ answer.said = <<>> \/ answer.error
    /\ Return("error", <<>>)
    /\ Save
    /\ UNCHANGED <<guard, engine, process, ahead, answer, clock, looked, asked, sid, resets, overloads, faults>>

-----------------------------------------------------------------------------
\* What each of the four functions may do next; codex and gemini share theirs.
ClaudePass ==
    /\ engine = "claude"
    /\ \/ Start \/ StartDrain \/ CutByDrain \/ Interrupt \/ ForceStop \/ HardTimeout
       \/ EndedUnheard \/ SilentTooLong \/ QuietPass \/ Read \/ EndOfOutput
       \/ Overloaded \/ TooLong \/ Denied
       \/ Awaited \/ LostSession \/ FailedOtherwise \/ SaidTooLong \/ Answered

PlainPass ==
    \/ Start \/ StartDrain \/ CutByDrain \/ HardTimeout
    \/ EndedUnheard \/ SilentTooLong \/ StopWhileQuiet \/ QuietPass \/ Read \/ EndOfOutput
    \/ LostSession \/ FailedOtherwise \/ Answered
CodexPass == engine = "codex" /\ PlainPass
GeminiPass == engine = "gemini" /\ (PlainPass \/ KeyMissing)

CloudPass ==
    /\ engine = "cloud"
    /\ \/ Start \/ CloudRead \/ CloudEndOfOutput \/ CloudRaise \/ CloudTimeout \/ CloudLostSession
       \/ CloudFails \/ CloudAnswered \/ CloudSilent

\* The turn has returned.
Returned == pc = "over" /\ UNCHANGED vars

Next ==
    \/ ClaudePass \/ CodexPass \/ GeminiPass \/ CloudPass \/ WaitTimesOut \/ StartFails \/ Raise
    \/ Write \/ CloseOutput \/ Exit \/ Shutdown \/ AskStop \/ SeeStop \/ Watchdog \/ Tick
    \/ Returned

Spec == Init /\ [][Next]_vars

-----------------------------------------------------------------------------
(* Properties.                                                              *)

\* What is sent is what was said: each text the turn has read, once and in order,
\* however results repeat it or not; and it has read all the process wrote, if that
\* ended by itself, nothing of it still holds its output, and no read of the cloud's
\* loop failed.  The code leaves out the
\* words that no result came after, once earlier parts are sent one by one
\* (claude_runner.py:704-720 and 916-919, worker.py:431).
AllSaid ==
    result.kind = "answer" =>
        /\ InOrder(result.sent)
        /\ \A t \in Texts(result.sent) : 1..t \subseteq Texts(result.sent)
        /\ \/ Texts(result.sent) = 1..answer.heard
           \/ /\ engine = "claude"
              /\ Len(answer.parts) + (IF clock.grace = -1 THEN 0 ELSE 1) > 1
              /\ Texts(result.sent) = Texts(<<SubSeq(answer.said, 1, answer.start)>>)
        /\ proc = "exited" /\ ~holder /\ (engine = "cloud" => clock.age <= Hard /\ faults = 0)
           => answer.heard = texts

\* Whoever leaves the turn, or calls again, leaves no process behind; an exception
\* and the last overload are the two ways that do.
EndsWithTurn ==
    pc \in {"start", "over"} /\ result.kind \notin {"raised", "overloaded"} => ~Alive

\* However the process chatters or keeps silent, as long as its lines are whole: the
\* loop is over one pass after the turn's time, or the drain's, and an interrupted
\* process is gone.
InTime ==
    pc = "loop" /\ Alive =>
        /\ clock.age <= (IF answer.tools THEN HardTools ELSE Hard) + 1
        /\ clock.drain <= (IF Drain = 0 THEN 1 ELSE Drain)
        /\ clock.grace <= Grace + 1
        /\ engine # "cloud" => clock.quiet <= Quiet + 1

\* A turn's process is bounded by its turn: it runs no longer than the clocks allow
\* while the turn lasts, and not at all after it.
ProcessBounded == EndsWithTurn /\ InTime

=============================================================================
