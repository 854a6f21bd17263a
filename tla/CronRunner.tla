----------------------------- MODULE CronRunner -----------------------------
(***************************************************************************)
(* The batch runner of scripts/cloud_cron.py: one process that fires the     *)
(* batches its users declare at their minutes, runs each as a command inside  *)
(* the user's container (cloud_container.exec_shell), keeps the record of the  *)
(* run in the workspace, and shows it on the web's dashboard.                 *)
(*                                                                         *)
(* Three kinds of threads share the records: the main loop (Round), the pool   *)
(* of batch threads (Begin ... Leave) and the sweeps that post again what was  *)
(* not accepted.  The process may end at any time and is started again; a      *)
(* command outlives it inside the container.                                *)
(***************************************************************************)
EXTENDS Integers, FiniteSets

CONSTANTS
    Batch,
    Schedule,       \* of each batch: a set of parts for each of its five fields
    None,
    Sweeper,        \* the sweeps that may be under way at once
    Outcome,        \* bound: what commands come to
    MaxConcurrent,  \* size of the pool
    PerDay,         \* minutes of a day in the instance
    Last,           \* bound: the last minute
    GiveUp,         \* age in minutes at which a post is given up (24 hours)
    MaxRuns,        \* bound: runs fired in all, those skipped included
    MaxLives,       \* bound: 1 + restarts
    MaxMishaps      \* bound: posts the web answers with 4xx, and runs that end in an
                    \* exception, between them

ASSUME CronAssumption ==
    /\ IsFiniteSet(Batch) /\ None \notin Batch /\ Outcome \subseteq {"success", "fail"}
    /\ {MaxConcurrent, PerDay, MaxLives} \subseteq Nat \ {0}
    /\ {GiveUp, Last, MaxRuns, MaxMishaps} \subseteq Nat

Minute == 0..Last
Day(m) == m \div PerDay
Days == 0..Day(Last)
Run == [batch : Batch, minute : Minute, life : 1..MaxLives]

-----------------------------------------------------------------------------
(* CronSpec: the five fields, and when a minute matches them.                *)

\* _parse_field: "*", "a", "a-b", each with an optional "/step"; "a/step" goes up
\* to the top of the field.
PartValues(part, lo, hi) ==
    LET first == IF part.form = "star" THEN lo ELSE part.a
        last == CASE part.form = "range" -> part.b
                  [] part.form = "one" /\ part.step = 1 -> part.a
                  [] OTHER -> hi
    IN {v \in first..last : (v - first) % part.step = 0}
ParseField(parts, lo, hi) == UNION {PartValues(part, lo, hi) : part \in parts}

Star == {[form |-> "star", a |-> 0, b |-> 0, step |-> 1]}

\* The instance's calendar: hour 0 of days of one month that begins on a Sunday.
At(m) == [minute |-> m % PerDay, hour |-> 0, dom |-> Day(m) + 1, month |-> 1, dow |-> Day(m) % 7]

\* match: when both days are restricted, either will do.
Match(spec, t) ==
    LET domOk == t.dom \in ParseField(spec.dom, 1, 31)
        dowOk == t.dow \in {d % 7 : d \in ParseField(spec.dow, 0, 7)}
    IN /\ t.minute \in ParseField(spec.minute, 0, 59)
       /\ t.hour \in ParseField(spec.hour, 0, 23)
       /\ t.month \in ParseField(spec.month, 1, 12)
       /\ CASE spec.dom = Star /\ spec.dow = Star -> TRUE
            [] spec.dom = Star -> dowOk
            [] spec.dow = Star -> domOk
            [] OTHER -> domOk \/ dowOk

DueMinutes == [b \in Batch |-> {m \in Minute : Match(Schedule[b], At(m))}]

-----------------------------------------------------------------------------
VARIABLES
    clock,      \* the minute it is
    life,       \* which life of the process this is
    up,
    fired,      \* _fired: the minute for which a batch was last fired
    stage,      \* each run: where its batch thread is
    pushed,     \* each run's rec["pushed"] in memory
    disk,       \* .ax/runs/<day>/: the record of a run, in each day's directory
    dash,       \* what the dashboard shows of each run
    held,       \* each sweep: the record it has read, with its place
    inside,     \* runs whose command is running inside the container
    result,     \* history: what became of each run's command
    upset,      \* history: runs a restart, an exception or midnight came across,
                \* or whose command outlived its run
    left,       \* history: runs whose record a restart has left as it was
    mishaps

fate == <<result, upset, left>>
process == <<life, up>>
vars == <<clock, process, fired, stage, pushed, disk, dash, held, inside, fate, mishaps>>

NoRecord == [status |-> "none", pushed |-> "no"]
Final == {"success", "fail"}
Inflight == {r \in Run : stage[r] \in {"queued", "telling", "exec", "closing", "leaving"}}
InPool == {r \in Inflight : stage[r] # "queued"}
Place == Run \X Days
Today == Day(clock)
Recent(q) == Today - q[2] \in {0, 1}

Init ==
    /\ clock = 0 /\ life = 1 /\ up = TRUE
    /\ fired = [b \in Batch |-> None]
    /\ stage = [r \in Run |-> "none"] /\ pushed = [r \in Run |-> "no"]
    /\ disk = [q \in Place |-> NoRecord] /\ dash = [r \in Run |-> "none"]
    /\ held = [w \in Sweeper |-> None]
    /\ inside = {} /\ result = [r \in Run |-> "none"] /\ upset = {} /\ left = {}
    /\ mishaps = 0

\* write_record: into the directory of the day it is now.
WriteRecord(r, status, p) ==
    disk' = [disk EXCEPT ![<<r, Today>>] = [status |-> status, pushed |-> p]]

-----------------------------------------------------------------------------
(* The main loop.                                                            *)

\* tick: the batches of the last scan, whichever they are, that are due and have
\* not been fired for this minute.
Ticked(scanned) == {b \in scanned : clock \in DueMinutes[b] /\ fired[b] # clock}
NewRun(b) == [batch |-> b, minute |-> clock, life |-> life]
Fired == {r \in Run : stage[r] # "none"}
Busy == {r.batch : r \in Inflight}

\* Starting a batch again whether or not it has ended.
RoundOverlapping(scanned) ==
    /\ up
    /\ LET now == Ticked(scanned) IN
       /\ now # {} /\ Cardinality(Fired) + Cardinality(now) <= MaxRuns
       /\ fired' = [b \in Batch |-> IF b \in now THEN clock ELSE fired[b]]
       /\ stage' = [r \in Run |-> IF r \in {NewRun(b) : b \in now} THEN "queued" ELSE stage[r]]
    /\ UNCHANGED <<clock, process, pushed, disk, dash, held, inside, fate, mishaps>>

\* scan and load_batches: any of the declarations may be there, enabled and readable.
Declared == SUBSET Batch

\* One round of loop: tick, and fire for each batch.  A batch whose last run is
\* not over is skipped, and the skip recorded.  The declarations may have been
\* changed since the round before.
Round(scanned) ==
    /\ up
    /\ LET now == Ticked(scanned) IN
       /\ now # {} /\ Cardinality(Fired) + Cardinality(now) <= MaxRuns
       /\ fired' = [b \in Batch |-> IF b \in now THEN clock ELSE fired[b]]
       /\ stage' = [r \in Run |->
             CASE r \in {NewRun(b) : b \in now \ Busy} -> "queued"
               [] r \in {NewRun(b) : b \in now \cap Busy} -> "skipped"
               [] OTHER -> stage[r]]
       /\ disk' = [q \in Place |->
             IF q \in {<<NewRun(b), Today>> : b \in now \cap Busy}
             THEN [status |-> "skipped", pushed |-> "never"] ELSE disk[q]]
    /\ UNCHANGED <<clock, process, pushed, dash, held, inside, fate, mishaps>>

MinutePasses ==
    /\ clock < Last /\ clock' = clock + 1
    /\ upset' = IF Day(clock') = Today THEN upset ELSE upset \cup InPool
    /\ UNCHANGED <<process, fired, stage, pushed, disk, dash, held, inside, result, left, mishaps>>

-----------------------------------------------------------------------------
(* A batch thread: _run_safe around run.                                     *)

Step(r, from, to) == up /\ stage[r] = from /\ stage' = [stage EXCEPT ![r] = to]

Begin(r) ==
    /\ Step(r, "queued", "telling")
    /\ Cardinality(InPool) < MaxConcurrent
    /\ WriteRecord(r, "running", "no")
    /\ UNCHANGED <<clock, process, fired, pushed, dash, held, inside, fate, mishaps>>

Mishap == mishaps < MaxMishaps /\ mishaps' = mishaps + 1

\* The web's answer to a post: accepted, refused (4xx), or none to speak of.
Accepted(r, status) == dash' = [dash EXCEPT ![r] = status] /\ UNCHANGED mishaps
Refused == Mishap /\ UNCHANGED dash
Unanswered == UNCHANGED <<dash, mishaps>>

\* push with retry_on_fail=False: the outcome stays in memory, and in rec.  Then
\* exec_shell starts the command.
TellRunning(r) ==
    /\ Step(r, "telling", "exec")
    /\ \/ Accepted(r, "running") /\ pushed' = [pushed EXCEPT ![r] = "yes"]
       \/ Refused /\ pushed' = [pushed EXCEPT ![r] = "never"]
       \/ Unanswered /\ UNCHANGED pushed
    /\ inside' = inside \cup {r}
    /\ UNCHANGED <<clock, process, fired, disk, held, fate>>

\* The command ends, inside the container, or its own timeout ends it.
CommandEnds(r, s) ==
    /\ r \in inside
    /\ inside' = inside \ {r}
    /\ result' = IF result[r] = "none" THEN [result EXCEPT ![r] = s] ELSE result
    /\ UNCHANGED <<clock, process, fired, stage, pushed, disk, dash, held, upset, left, mishaps>>

\* exec_shell returns: the log and the record are written, the latter with
\* whatever the first post left in rec["pushed"].
Finish(r) ==
    /\ Step(r, "exec", "closing")
    /\ r \notin inside
    /\ WriteRecord(r, result[r], pushed[r])
    /\ UNCHANGED <<clock, process, fired, pushed, dash, held, inside, fate, mishaps>>

\* The runner loses patience a minute after the command should have timed out,
\* and leaves it to itself.
RunnerTimeout(r) ==
    /\ Step(r, "exec", "closing")
    /\ r \in inside /\ Mishap
    /\ result' = [result EXCEPT ![r] = "fail"] /\ upset' = upset \cup {r}
    /\ WriteRecord(r, "fail", pushed[r])
    /\ UNCHANGED <<clock, process, fired, pushed, dash, held, inside, left>>

\* Recording the result as posted without looking at the answer.
TellFinalBlindly(r) ==
    /\ Step(r, "closing", "leaving")
    /\ Accepted(r, result[r]) \/ Unanswered
    /\ WriteRecord(r, result[r], "yes")
    /\ UNCHANGED <<clock, process, fired, pushed, held, inside, fate>>

\* The second post, and the record again when there was an answer.
TellFinal(r) ==
    /\ Step(r, "closing", "leaving")
    /\ \/ Accepted(r, result[r]) /\ WriteRecord(r, result[r], "yes")
       \/ Refused /\ WriteRecord(r, result[r], "never")
       \/ Unanswered /\ UNCHANGED disk
    /\ UNCHANGED <<clock, process, fired, pushed, held, inside, fate>>

\* The owner has been alerted of a failure; the batch is free again.
Leave(r) ==
    /\ Step(r, "leaving", "over")
    /\ UNCHANGED <<clock, process, fired, pushed, disk, dash, held, inside, fate, mishaps>>

\* The container cannot be brought up in time, or a file not be written: the
\* exception is logged and the batch free again, its record as it was.
RunRaises(r) ==
    /\ stage[r] \in {"telling", "exec", "closing"} /\ Step(r, stage[r], "over")
    /\ r \notin inside
    /\ Mishap
    /\ upset' = upset \cup {r}
    /\ UNCHANGED <<clock, process, fired, pushed, disk, dash, held, inside, result, left>>

-----------------------------------------------------------------------------
(* A sweep is started every five minutes and comes to every record; the one    *)
(* before may still be waiting for an answer.                                *)

\* What retry_push picks: a result that waits to be posted.
Pending(q) == disk[q].status \in Final /\ disk[q].pushed = "no"

\* Coming to the records of today only.
SweepReadToday(w, q) ==
    /\ up /\ held[w] = None /\ q[2] = Today /\ Pending(q)
    /\ held' = [held EXCEPT ![w] = [place |-> q, rec |-> disk[q]]]
    /\ UNCHANGED <<clock, process, fired, stage, pushed, disk, dash, inside, fate, mishaps>>

\* retry_push, up to its post; a result that is too old is given up.  (Of a user for
\* whom the roster has no key the sweep leaves the record as it is.)
SweepRead(w, q) ==
    /\ up /\ held[w] = None /\ Pending(q)
    /\ IF clock - q[1].minute > GiveUp
       THEN disk' = [disk EXCEPT ![q].pushed = "never"] /\ UNCHANGED held
       ELSE held' = [held EXCEPT ![w] = [place |-> q, rec |-> disk[q]]] /\ UNCHANGED disk
    /\ UNCHANGED <<clock, process, fired, stage, pushed, dash, inside, fate, mishaps>>

\* The answer has come, or none, and the sweep goes on to another record.
Answered(w) == up /\ held[w] # None /\ held' = [held EXCEPT ![w] = None]

\* The record is written as it was read, but for what has become of it.
SweepWrites(w, p) == disk' = [disk EXCEPT ![held[w].place] = [held[w].rec EXCEPT !.pushed = p]]

SweepAccepted(w) ==
    /\ Answered(w)
    /\ Accepted(held[w].place[1], held[w].rec.status) /\ SweepWrites(w, "yes")
    /\ UNCHANGED <<clock, process, fired, stage, pushed, inside, fate>>

SweepRejected(w) ==
    /\ Answered(w)
    /\ \/ Refused /\ SweepWrites(w, "never")
       \/ Unanswered /\ UNCHANGED disk
    /\ UNCHANGED <<clock, process, fired, stage, pushed, inside, fate>>

-----------------------------------------------------------------------------
(* The process ends; commands go on.  It starts again.                       *)

Crash ==
    /\ up /\ life < MaxLives
    /\ up' = FALSE
    /\ upset' = upset \cup InPool
    /\ stage' = [r \in Run |-> IF r \in Inflight THEN "over" ELSE stage[r]]
    /\ fired' = [b \in Batch |-> None]
    /\ held' = [w \in Sweeper |-> None]
    /\ UNCHANGED <<clock, life, pushed, disk, dash, inside, result, left, mishaps>>

\* What reconcile_orphans looks for: records said to be running, today or since
\* yesterday.
Orphan == {q \in Place : disk[q].status = "running" /\ Recent(q)}

\* reconcile_orphans, called once in a life: an orphan is put down as interrupted, to
\* be posted by the sweep.  It comes to none when the roster could not be had just
\* then, and stops where an exception meets it: what it has not come to stays.
Restart(passed) ==
    /\ ~up /\ up' = TRUE /\ life' = life + 1
    /\ disk' = [q \in Place |-> IF q \in Orphan \ passed
                               THEN [status |-> "fail", pushed |-> "no"] ELSE disk[q]]
    /\ left' = left \cup {q[1] : q \in passed}
    /\ UNCHANGED <<clock, fired, stage, pushed, dash, held, inside, result, upset, mishaps>>

-----------------------------------------------------------------------------
Work(r) == Begin(r) \/ TellRunning(r) \/ Finish(r) \/ TellFinal(r) \/ Leave(r)
SweepPosts(w) == SweepAccepted(w) \/ SweepRejected(w)

Next ==
    \/ \E scanned \in Declared : Round(scanned)
    \/ MinutePasses
    \/ \E r \in Run : Work(r) \/ RunnerTimeout(r) \/ RunRaises(r)
    \/ \E r \in inside, s \in Outcome : CommandEnds(r, s)
    \/ \E w \in Sweeper : SweepPosts(w) \/ \E q \in Place : SweepRead(w, q)
    \/ Crash
    \/ \E passed \in SUBSET Orphan : Restart(passed)

Spec == Init /\ [][Next]_vars

\* The sweeps come to every record, with a key for its owner; where posts are made
\* again and again one is accepted in the end; and systemd restarts the runner.
FairSpec ==
    /\ Spec
    /\ WF_vars(\E w \in Sweeper, q \in Place : SweepRead(w, q))
    /\ SF_vars(\E w \in Sweeper : SweepAccepted(w))
    /\ WF_vars(\E passed \in SUBSET Orphan : Restart(passed))

-----------------------------------------------------------------------------
(* Properties.                                                               *)

TypeOK ==
    /\ clock \in Minute /\ life \in 1..MaxLives /\ up \in BOOLEAN
    /\ fired \in [Batch -> Minute \cup {None}]
    /\ stage \in [Run -> {"none", "queued", "telling", "exec", "closing", "leaving", "skipped",
                          "over"}]
    /\ pushed \in [Run -> {"no", "yes", "never"}]
    /\ disk \in [Place -> [status : {"none", "running", "skipped"} \cup Final,
                           pushed : {"no", "yes", "never"}]]
    /\ dash \in [Run -> {"none", "running"} \cup Final]
    /\ held \in [Sweeper -> [place : Place, rec : [status : Final, pushed : {"no"}]] \cup {None}]
    /\ inside \subseteq Run /\ result \in [Run -> {"none"} \cup Final]
    /\ upset \subseteq Run /\ left \subseteq Run
    /\ mishaps \in 0..MaxMishaps

\* Two runs of a batch are not inside the container at once, however late the
\* first one is, unless the runner was restarted in between or had given up
\* waiting for the first.
NoOverlap ==
    \A r, s \in inside : r # s /\ r.batch = s.batch => r \in upset \/ s \in upset

\* What is recorded as running, today or since yesterday, is running, or it is
\* one that an exception or midnight has come across in this life, or one that
\* reconcile_orphans did not come to: a restart that has the roster and meets no
\* exception leaves no such record behind it.
RunningIsRunning ==
    \A q \in Place :
        up /\ disk[q].status = "running" /\ Recent(q) =>
            \/ stage[q[1]] \in {"telling", "exec"}
            \/ q[1] \in upset /\ q[1].life = life
            \/ q[1] \in left

\* At any moment a batch has one run at most, and the records say which batches
\* have one: the guard of Round and the closing of old records in Restart.
RunsRecorded == NoOverlap /\ RunningIsRunning

\* A result recorded as posted is on the dashboard, whichever of the batch thread
\* and the sweeps posted and wrote it, and in whatever order; except when only the
\* post of the beginning had been accepted: rec["pushed"] is never set back, and
\* the sweep then passes by a result that was not accepted.
PushedMeansShown ==
    \A q \in Place :
        disk[q].status \in Final /\ disk[q].pushed = "yes" /\ q[1] \notin upset =>
            dash[q[1]] = disk[q].status \/ pushed[q[1]] = "yes"

\* The results that wait to be posted do not wait for ever: again and again all of
\* them have been posted, refused, or given up as too old, whatever restart,
\* refusal or write of another thread comes in between.
PendingPosted == []<>(\A q \in Place : ~Pending(q))
=============================================================================
