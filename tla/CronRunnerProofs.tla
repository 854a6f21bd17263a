-------------------------- MODULE CronRunnerProofs --------------------------
(***************************************************************************)
(* Proofs about CronRunner, for any batches, schedules, sizes of the pool   *)
(* and bounds.  The inductive invariant adds to the type that a batch has   *)
(* one thread at most, of this life; that runs are numbered by the minute   *)
(* and the life they were fired in, so that a new one was never there       *)
(* before; that who is inside the container has a thread waiting for it;    *)
(* and in which day's directory a record may say that its run is running.   *)
(* And about UserContainer, the container in which batches and turns run,   *)
(* for any clients: its invariant says that who is about it has the lock of *)
(* their process, that what they have seen stands until someone else        *)
(* changes the container, and that who replaces it found no turn in it.     *)
(***************************************************************************)
EXTENDS CronRunner, UserContainer, TLAPS

\* A batch has one thread at most, and threads die with their process.
OneThread ==
    /\ \A r, s \in Inflight : r.batch = s.batch => r = s
    /\ \A r \in Inflight : up /\ r.life = life

\* No run is of a later minute or life; one of this minute and life has been fired.
Numbered ==
    \A r \in Run : stage[r] # "none" =>
        /\ r.minute <= clock /\ r.life <= life
        /\ up /\ r.life = life /\ r.minute = clock => fired[r.batch] = clock

\* A command runs for a thread that waits for it, or for one that was cut off.
AwaitedInside == \A r \in inside : r \in upset \/ stage[r] = "exec"

\* No record is of a day to come.  One that says its run is running is today's, of
\* a run that does, or of one that an exception or midnight came across in this
\* life, or that a restart has left as it was.
RecordsTrue ==
    \A r \in Run, d \in Days : disk[<<r, d>>].status = "running" =>
        /\ d <= Today
        /\ up /\ Today - d \in {0, 1} =>
             \/ stage[r] \in {"telling", "exec"} /\ d = Today
             \/ r \in upset /\ r.life = life
             \/ r \in left

\* The process is only down between two lives.
Restarted == ~up => life < MaxLives

CronInv == TypeOK /\ Restarted /\ OneThread /\ Numbered /\ AwaitedInside /\ RecordsTrue

-----------------------------------------------------------------------------
\* Days do not go back.
LEMMA DayGrows ==
    ASSUME NEW m \in Nat, NEW n \in Nat, m <= n
    PROVE  Day(m) \in Nat /\ Day(n) \in Nat /\ Day(m) <= Day(n)
<1> DEFINE D == PerDay
           a == m \div D
           b == n \div D
<1>1. D \in Nat \ {0}
  BY CronAssumption
<1>2. a \in Nat /\ b \in Nat /\ D * a <= m /\ n < D * b + D
  BY <1>1
<1>3. a <= b
  <2>1. SUFFICES ASSUME a >= b + 1 PROVE FALSE
    BY <1>2
  <2>2. D * a >= D * (b + 1)
    BY <1>1, <1>2, <2>1
  <2>3. D * (b + 1) = D * b + D
    BY <1>1, <1>2
  <2>4. QED BY <1>1, <1>2, <2>2, <2>3
<1>4. QED BY <1>2, <1>3 DEF Day

\* A day that is at most yesterday's distance from a later day is the one before.
LEMMA NextDay ==
    ASSUME NEW t \in Nat, NEW u \in Nat, NEW d \in Nat, t <= u, t # u, d <= t
    PROVE  d <= u /\ (u - d \in {0, 1} => d = t /\ t - d \in {0, 1})
OBVIOUS

\* Today is one of the days, and tomorrow today or the day after.
LEMMA TodayKnown == ASSUME TypeOK PROVE Today \in Days /\ Today \in Nat
<1>1. clock \in Nat /\ clock <= Last /\ Last \in Nat
  BY CronAssumption DEF TypeOK, Minute
<1>2. QED BY <1>1, DayGrows DEF Today, Days

\* A record is written in today's directory, and no other one is touched.
LEMMA Written ==
    ASSUME TypeOK, NEW r \in Run, NEW s \in {"none", "running", "skipped"} \cup Final,
           NEW p \in {"no", "yes", "never"}, WriteRecord(r, s, p)
    PROVE  /\ disk' \in [Place -> [status : {"none", "running", "skipped"} \cup Final,
                                   pushed : {"no", "yes", "never"}]]
           /\ \A q \in Place : q # <<r, Today>> => disk'[q] = disk[q]
           /\ <<r, Today>> \in Place /\ disk'[<<r, Today>>].status = s
BY TodayKnown DEF TypeOK, WriteRecord, Place

\* A run that was fired before is left as it is by a round of the loop.
LEMMA RoundKeeps ==
    ASSUME CronInv, NEW scanned \in Declared, Round(scanned), NEW r \in Run, stage[r] # "none"
    PROVE  stage'[r] = stage[r]
<1>1. \A b \in Ticked(scanned) : r # NewRun(b)
  <2> SUFFICES ASSUME NEW b \in Ticked(scanned), r = NewRun(b) PROVE FALSE
    OBVIOUS
  <2>1. b \in Batch /\ fired[b] # clock
    BY DEF Ticked, Declared
  <2>2. r.batch = b /\ r.minute = clock /\ r.life = life /\ up
    BY DEF NewRun, Round
  <2>3. QED BY <2>1, <2>2 DEF CronInv, Numbered
<1>2. QED BY <1>1 DEF Round, CronInv, TypeOK

\* A batch that has a thread gets no other one, and a crash ends them all.
LEMMA ThreadStep == CronInv /\ [Next]_vars => OneThread'
<1> SUFFICES ASSUME CronInv, [Next]_vars PROVE OneThread'
  OBVIOUS
<1> USE DEF CronInv, TypeOK, OneThread, Inflight
<1>1. ASSUME NEW scanned \in Declared, Round(scanned) PROVE OneThread'
  BY <1>1 DEF Round, NewRun, Busy, Run, Ticked, process
<1>2. CASE MinutePasses
  BY <1>2 DEF MinutePasses, Step, fate, process, vars, WriteRecord, Accepted
<1>3. ASSUME NEW r \in Run, Begin(r) PROVE OneThread'
  BY <1>3 DEF Begin, Step, fate, process, vars, WriteRecord, Accepted
<1>4. ASSUME NEW r \in Run, TellRunning(r) PROVE OneThread'
  BY <1>4 DEF TellRunning, Step, fate, process, vars, WriteRecord, Accepted
<1>5. ASSUME NEW r \in Run, Finish(r) PROVE OneThread'
  BY <1>5 DEF Finish, Step, fate, process, vars, WriteRecord, Accepted
<1>6. ASSUME NEW r \in Run, TellFinal(r) PROVE OneThread'
  BY <1>6 DEF TellFinal, Step, fate, process, vars, WriteRecord, Accepted
<1>7. ASSUME NEW r \in Run, Leave(r) PROVE OneThread'
  BY <1>7 DEF Leave, Step, fate, process, vars, WriteRecord, Accepted
<1>8. ASSUME NEW r \in Run, RunnerTimeout(r) PROVE OneThread'
  BY <1>8 DEF RunnerTimeout, Step, fate, process, vars, WriteRecord, Accepted
<1>9. ASSUME NEW r \in Run, RunRaises(r) PROVE OneThread'
  BY <1>9 DEF RunRaises, Step, fate, process, vars, WriteRecord, Accepted
<1>10. ASSUME NEW r \in inside, NEW s \in Outcome, CommandEnds(r, s) PROVE OneThread'
  BY <1>10 DEF CommandEnds, Step, fate, process, vars, WriteRecord, Accepted
<1>11. ASSUME NEW w \in Sweeper, NEW q \in Place, SweepRead(w, q) PROVE OneThread'
  BY <1>11 DEF SweepRead, Step, fate, process, vars, WriteRecord, Accepted
<1>12. ASSUME NEW w \in Sweeper, SweepAccepted(w) PROVE OneThread'
  BY <1>12 DEF SweepAccepted, Answered, Step, fate, process, vars, WriteRecord, Accepted
<1>13. ASSUME NEW w \in Sweeper, SweepRejected(w) PROVE OneThread'
  BY <1>13 DEF SweepRejected, Answered, Step, fate, process, vars, WriteRecord, Accepted
<1>14. CASE Crash
  BY <1>14 DEF Crash, Step, fate, process, vars, WriteRecord, Accepted
<1>15. ASSUME NEW passed \in SUBSET Orphan, Restart(passed) PROVE OneThread'
  BY <1>15 DEF Restart, Step, fate, process, vars, WriteRecord, Accepted
<1>16. CASE UNCHANGED vars
  BY <1>16 DEF vars, Step, fate, process, vars, WriteRecord, Accepted
<1>17. QED
  BY <1>1, <1>2, <1>3, <1>4, <1>5, <1>6, <1>7, <1>8,
     <1>9, <1>10, <1>11, <1>12, <1>13, <1>14, <1>15, <1>16 DEF Next, Work, SweepPosts

\* A run is fired at its minute, once for each batch.
LEMMA NumberStep == CronInv /\ [Next]_vars => Numbered'
<1> SUFFICES ASSUME CronInv, [Next]_vars PROVE Numbered'
  OBVIOUS
<1> USE DEF CronInv, TypeOK, Numbered, Minute, Run
<1>1. ASSUME NEW scanned \in Declared, Round(scanned) PROVE Numbered'
  BY <1>1 DEF Round, NewRun, Ticked, process
<1>2. CASE MinutePasses
  BY <1>2 DEF MinutePasses, Step, fate, process, vars, WriteRecord, Accepted
<1>3. ASSUME NEW r \in Run, Begin(r) PROVE Numbered'
  BY <1>3 DEF Begin, Step, fate, process, vars, WriteRecord, Accepted
<1>4. ASSUME NEW r \in Run, TellRunning(r) PROVE Numbered'
  BY <1>4 DEF TellRunning, Step, fate, process, vars, WriteRecord, Accepted
<1>5. ASSUME NEW r \in Run, Finish(r) PROVE Numbered'
  BY <1>5 DEF Finish, Step, fate, process, vars, WriteRecord, Accepted
<1>6. ASSUME NEW r \in Run, TellFinal(r) PROVE Numbered'
  BY <1>6 DEF TellFinal, Step, fate, process, vars, WriteRecord, Accepted
<1>7. ASSUME NEW r \in Run, Leave(r) PROVE Numbered'
  BY <1>7 DEF Leave, Step, fate, process, vars, WriteRecord, Accepted
<1>8. ASSUME NEW r \in Run, RunnerTimeout(r) PROVE Numbered'
  BY <1>8 DEF RunnerTimeout, Step, fate, process, vars, WriteRecord, Accepted
<1>9. ASSUME NEW r \in Run, RunRaises(r) PROVE Numbered'
  BY <1>9 DEF RunRaises, Step, fate, process, vars, WriteRecord, Accepted
<1>10. ASSUME NEW r \in inside, NEW s \in Outcome, CommandEnds(r, s) PROVE Numbered'
  BY <1>10 DEF CommandEnds, Step, fate, process, vars, WriteRecord, Accepted
<1>11. ASSUME NEW w \in Sweeper, NEW q \in Place, SweepRead(w, q) PROVE Numbered'
  BY <1>11 DEF SweepRead, Step, fate, process, vars, WriteRecord, Accepted
<1>12. ASSUME NEW w \in Sweeper, SweepAccepted(w) PROVE Numbered'
  BY <1>12 DEF SweepAccepted, Answered, Step, fate, process, vars, WriteRecord, Accepted
<1>13. ASSUME NEW w \in Sweeper, SweepRejected(w) PROVE Numbered'
  BY <1>13 DEF SweepRejected, Answered, Step, fate, process, vars, WriteRecord, Accepted
<1>14. CASE Crash
  BY <1>14 DEF Crash, Inflight
<1>15. ASSUME NEW passed \in SUBSET Orphan, Restart(passed) PROVE Numbered'
  BY <1>15 DEF Restart, Step, fate, process, vars, WriteRecord, Accepted
<1>16. CASE UNCHANGED vars
  BY <1>16 DEF vars, Step, fate, process, vars, WriteRecord, Accepted
<1>17. QED
  BY <1>1, <1>2, <1>3, <1>4, <1>5, <1>6, <1>7, <1>8,
     <1>9, <1>10, <1>11, <1>12, <1>13, <1>14, <1>15, <1>16 DEF Next, Work, SweepPosts

\* A thread leaves its command behind only when it gives up, or with its process.
LEMMA InsideStep == CronInv /\ [Next]_vars => AwaitedInside'
<1> SUFFICES ASSUME CronInv, [Next]_vars PROVE AwaitedInside'
  OBVIOUS
<1> USE DEF CronInv, TypeOK, AwaitedInside
<1>1. ASSUME NEW scanned \in Declared, Round(scanned) PROVE AwaitedInside'
  <2>1. \A r \in inside : stage[r] = "exec" => stage'[r] = "exec"
    BY <1>1, RoundKeeps DEF CronInv
  <2>2. QED BY <1>1, <2>1 DEF Round, fate, process
<1>2. CASE MinutePasses
  BY <1>2 DEF MinutePasses, Step, fate, process, vars, WriteRecord, Accepted
<1>3. ASSUME NEW r \in Run, Begin(r) PROVE AwaitedInside'
  BY <1>3 DEF Begin, Step, fate, process, vars, WriteRecord, Accepted
<1>4. ASSUME NEW r \in Run, TellRunning(r) PROVE AwaitedInside'
  BY <1>4 DEF TellRunning, Step, fate, process, vars, WriteRecord, Accepted
<1>5. ASSUME NEW r \in Run, Finish(r) PROVE AwaitedInside'
  BY <1>5 DEF Finish, Step, fate, process, vars, WriteRecord, Accepted
<1>6. ASSUME NEW r \in Run, TellFinal(r) PROVE AwaitedInside'
  BY <1>6 DEF TellFinal, Step, fate, process, vars, WriteRecord, Accepted
<1>7. ASSUME NEW r \in Run, Leave(r) PROVE AwaitedInside'
  BY <1>7 DEF Leave, Step, fate, process, vars, WriteRecord, Accepted
<1>8. ASSUME NEW r \in Run, RunnerTimeout(r) PROVE AwaitedInside'
  BY <1>8 DEF RunnerTimeout, Step, fate, process, vars, WriteRecord, Accepted
<1>9. ASSUME NEW r \in Run, RunRaises(r) PROVE AwaitedInside'
  BY <1>9 DEF RunRaises, Step, fate, process, vars, WriteRecord, Accepted
<1>10. ASSUME NEW r \in inside, NEW s \in Outcome, CommandEnds(r, s) PROVE AwaitedInside'
  BY <1>10 DEF CommandEnds, Step, fate, process, vars, WriteRecord, Accepted
<1>11. ASSUME NEW w \in Sweeper, NEW q \in Place, SweepRead(w, q) PROVE AwaitedInside'
  BY <1>11 DEF SweepRead, Step, fate, process, vars, WriteRecord, Accepted
<1>12. ASSUME NEW w \in Sweeper, SweepAccepted(w) PROVE AwaitedInside'
  BY <1>12 DEF SweepAccepted, Answered, Step, fate, process, vars, WriteRecord, Accepted
<1>13. ASSUME NEW w \in Sweeper, SweepRejected(w) PROVE AwaitedInside'
  BY <1>13 DEF SweepRejected, Answered, Step, fate, process, vars, WriteRecord, Accepted
<1>14. CASE Crash
  BY <1>14 DEF Crash, Inflight, InPool
<1>15. ASSUME NEW passed \in SUBSET Orphan, Restart(passed) PROVE AwaitedInside'
  BY <1>15 DEF Restart, Step, fate, process, vars, WriteRecord, Accepted
<1>16. CASE UNCHANGED vars
  BY <1>16 DEF vars, Step, fate, process, vars, WriteRecord, Accepted
<1>17. QED
  BY <1>1, <1>2, <1>3, <1>4, <1>5, <1>6, <1>7, <1>8,
     <1>9, <1>10, <1>11, <1>12, <1>13, <1>14, <1>15, <1>16 DEF Next, Work, SweepPosts

\* A step that neither writes "running", nor lets a day or a life pass, nor ends the
\* thread of a run that is not excused.
LEMMA RecordsStay ==
    ASSUME CronInv, clock' = clock, life' = life, up' = TRUE => up,
           upset \subseteq upset', left' = left,
           \A q \in Place : disk'[q].status = "running" => disk[q].status = "running",
           \A r \in Run :
              up' /\ stage[r] \in {"telling", "exec"} =>
                \/ stage'[r] \in {"telling", "exec"}
                \/ r \in upset'
                \/ disk'[<<r, Today>>].status # "running"
    PROVE  RecordsTrue'
<1>1. Today' = Today /\ Today \in Days
  BY TodayKnown DEF Today, CronInv
<1>2. SUFFICES ASSUME NEW r \in Run, NEW d \in Days, disk'[<<r, d>>].status = "running"
      PROVE  /\ d <= Today
             /\ up' /\ Today - d \in {0, 1} =>
                  \/ stage'[r] \in {"telling", "exec"} /\ d = Today
                  \/ r \in upset' /\ r.life = life
                  \/ r \in left'
  BY <1>1 DEF RecordsTrue
<1>3. disk[<<r, d>>].status = "running"
  BY <1>2 DEF Place
<1>4. /\ d <= Today
      /\ up /\ Today - d \in {0, 1} =>
           \/ stage[r] \in {"telling", "exec"} /\ d = Today
           \/ r \in upset /\ r.life = life
           \/ r \in left
  BY <1>3 DEF CronInv, RecordsTrue
<1>5. stage[r] \in {"telling", "exec"} /\ up => r.life = life
  BY DEF CronInv, OneThread, Inflight
<1>6. QED BY <1>2, <1>4, <1>5

\* What is written says what the thread does; midnight and a restart go over what was
\* there.
LEMMA RecordStep == CronInv /\ [Next]_vars => RecordsTrue'
<1> SUFFICES ASSUME CronInv, [Next]_vars PROVE RecordsTrue'
  OBVIOUS
<1>1. ASSUME NEW scanned \in Declared, Round(scanned) PROVE RecordsTrue'
  <2>1. clock' = clock /\ life' = life /\ up' = up /\ upset' = upset /\ left' = left
    BY <1>1 DEF Round, fate, process
  <2>2. \A q \in Place : disk'[q].status = "running" => disk[q].status = "running"
    BY <1>1 DEF Round
  <2>3. \A r \in Run : stage[r] \in {"telling", "exec"} => stage'[r] = stage[r]
    BY <1>1, RoundKeeps
  <2>4. QED BY <2>1, <2>2, <2>3, RecordsStay
<1>2. CASE MinutePasses
  <2>1. /\ clock' = clock + 1 /\ UNCHANGED <<process, stage, disk>> /\ upset \subseteq upset' /\ left' = left
        /\ Today' # Today => InPool \subseteq upset'
    BY <1>2 DEF MinutePasses, Today
  <2>2. Today \in Nat /\ Today' \in Nat /\ Today <= Today'
    BY <2>1, DayGrows DEF CronInv, TypeOK, Minute, Today
  <2>3. SUFFICES ASSUME NEW r \in Run, NEW d \in Days, disk[<<r, d>>].status = "running"
        PROVE  /\ d <= Today'
               /\ up /\ Today' - d \in {0, 1} =>
                    \/ stage[r] \in {"telling", "exec"} /\ d = Today'
                    \/ r \in upset' /\ r.life = life
                    \/ r \in left'
    BY <2>1 DEF RecordsTrue, process
  <2>4. /\ d \in Nat /\ d <= Today
        /\ up /\ Today - d \in {0, 1} =>
             \/ stage[r] \in {"telling", "exec"} /\ d = Today
             \/ r \in upset /\ r.life = life
             \/ r \in left
    BY <2>3 DEF CronInv, RecordsTrue, Days
  <2>5. stage[r] \in {"telling", "exec"} => r \in InPool /\ r.life = life
    BY DEF CronInv, OneThread, Inflight, InPool
  <2>6. CASE Today' = Today
    BY <2>1, <2>4, <2>6
  <2>7. CASE Today' # Today
    <3>1. r \in InPool => r \in upset'
      BY <2>1, <2>7
    <3>2. d <= Today' /\ (Today' - d \in {0, 1} => d = Today /\ Today - d \in {0, 1})
      BY <2>2, <2>4, <2>7, NextDay
    <3>3. CASE stage[r] \in {"telling", "exec"}
      BY <2>5, <3>1, <3>2, <3>3
    <3>4. CASE stage[r] \notin {"telling", "exec"}
      BY <2>1, <2>4, <3>2, <3>4
    <3>5. QED BY <3>3, <3>4
  <2>8. QED BY <2>6, <2>7
<1>3. ASSUME NEW r \in Run, Begin(r) PROVE RecordsTrue'
  <2>1. /\ Today' = Today /\ Today \in Days /\ Today \in Nat
        /\ UNCHANGED <<life, up, upset, left>> /\ stage' = [stage EXCEPT ![r] = "telling"]
        /\ stage[r] = "queued"
    BY <1>3, TodayKnown DEF Begin, Step, Today, fate, process, CronInv
  <2>2. \A q \in Place : q # <<r, Today>> => disk'[q] = disk[q]
    BY <1>3, Written DEF Begin, CronInv
  <2>3. SUFFICES ASSUME NEW o \in Run, NEW d \in Days, disk'[<<o, d>>].status = "running"
        PROVE  /\ d <= Today
               /\ up /\ Today - d \in {0, 1} =>
                    \/ stage'[o] \in {"telling", "exec"} /\ d = Today
                    \/ o \in upset /\ o.life = life
                    \/ o \in left
    BY <2>1 DEF RecordsTrue
  <2>4. CASE o = r /\ d = Today
    BY <2>1, <2>4 DEF CronInv, TypeOK
  <2>5. CASE ~(o = r /\ d = Today)
    <3>1. disk[<<o, d>>].status = "running"
      BY <2>2, <2>3, <2>5 DEF Place
    <3>2. QED BY <2>1, <3>1 DEF CronInv, TypeOK, RecordsTrue
  <2>6. QED BY <2>4, <2>5
<1>4. ASSUME NEW r \in Run, TellRunning(r) PROVE RecordsTrue'
  <2>1. clock' = clock /\ life' = life /\ (up' = TRUE => up) /\ upset \subseteq upset' /\ left' = left
    BY <1>4 DEF TellRunning, Step, fate, process
  <2>2. \A p \in Place : disk'[p].status = "running" => disk[p].status = "running"
    BY <1>4 DEF TellRunning, CronInv, TypeOK, Final
  <2>3. \A o \in Run : up' /\ stage[o] \in {"telling", "exec"} =>
          \/ stage'[o] \in {"telling", "exec"} \/ o \in upset'
          \/ disk'[<<o, Today>>].status # "running"
    BY <1>4 DEF TellRunning, Step, CronInv, TypeOK, Final
  <2>4. QED BY <2>1, <2>2, <2>3, RecordsStay
<1>5. ASSUME NEW r \in Run, Finish(r) PROVE RecordsTrue'
  <2>1. <<r, Today>> \in Place
    BY TodayKnown DEF CronInv, Place
  <2>2. clock' = clock /\ life' = life /\ (up' = TRUE => up) /\ upset \subseteq upset' /\ left' = left
    BY <1>5 DEF Finish, Step, fate, process
  <2>3. \A p \in Place : disk'[p].status = "running" => disk[p].status = "running"
    BY <1>5, <2>1 DEF Finish, CronInv, TypeOK, Final, WriteRecord
  <2>4. \A o \in Run : up' /\ stage[o] \in {"telling", "exec"} =>
          \/ stage'[o] \in {"telling", "exec"} \/ o \in upset'
          \/ disk'[<<o, Today>>].status # "running"
    BY <1>5, <2>1 DEF Finish, Step, CronInv, TypeOK, Final, WriteRecord
  <2>5. QED BY <2>2, <2>3, <2>4, RecordsStay
<1>6. ASSUME NEW r \in Run, TellFinal(r) PROVE RecordsTrue'
  <2>1. <<r, Today>> \in Place
    BY TodayKnown DEF CronInv, Place
  <2>2. clock' = clock /\ life' = life /\ (up' = TRUE => up) /\ upset \subseteq upset' /\ left' = left
    BY <1>6 DEF TellFinal, Step, fate, process
  <2>3. \A p \in Place : disk'[p].status = "running" => disk[p].status = "running"
    <3>1. result[r] # "running"
      BY DEF CronInv, TypeOK, Final
    <3>2. CASE disk' = disk
      BY <3>2
    <3>3. ASSUME NEW x, WriteRecord(r, result[r], x)
          PROVE  \A p \in Place : disk'[p].status = "running" => disk[p].status = "running"
      BY <3>1, <3>3, <2>1 DEF CronInv, TypeOK, WriteRecord
    <3>4. QED BY <1>6, <3>2, <3>3 DEF TellFinal
  <2>4. \A o \in Run : up' /\ stage[o] \in {"telling", "exec"} =>
          \/ stage'[o] \in {"telling", "exec"} \/ o \in upset'
          \/ disk'[<<o, Today>>].status # "running"
    BY <1>6, <2>1 DEF TellFinal, Step, CronInv, TypeOK, Final, WriteRecord
  <2>5. QED BY <2>2, <2>3, <2>4, RecordsStay
<1>7. ASSUME NEW r \in Run, Leave(r) PROVE RecordsTrue'
  <2>1. clock' = clock /\ life' = life /\ (up' = TRUE => up) /\ upset \subseteq upset' /\ left' = left
    BY <1>7 DEF Leave, Step, fate, process
  <2>2. \A p \in Place : disk'[p].status = "running" => disk[p].status = "running"
    BY <1>7 DEF Leave, CronInv, TypeOK, Final
  <2>3. \A o \in Run : up' /\ stage[o] \in {"telling", "exec"} =>
          \/ stage'[o] \in {"telling", "exec"} \/ o \in upset'
          \/ disk'[<<o, Today>>].status # "running"
    BY <1>7 DEF Leave, Step, CronInv, TypeOK, Final
  <2>4. QED BY <2>1, <2>2, <2>3, RecordsStay
<1>8. ASSUME NEW r \in Run, RunnerTimeout(r) PROVE RecordsTrue'
  <2>1. <<r, Today>> \in Place
    BY TodayKnown DEF CronInv, Place
  <2>2. clock' = clock /\ life' = life /\ (up' = TRUE => up) /\ upset \subseteq upset' /\ left' = left
    BY <1>8 DEF RunnerTimeout, Step, fate, process
  <2>3. \A p \in Place : disk'[p].status = "running" => disk[p].status = "running"
    BY <1>8, <2>1 DEF RunnerTimeout, CronInv, TypeOK, Final, WriteRecord
  <2>4. \A o \in Run : up' /\ stage[o] \in {"telling", "exec"} =>
          \/ stage'[o] \in {"telling", "exec"} \/ o \in upset'
          \/ disk'[<<o, Today>>].status # "running"
    BY <1>8, <2>1 DEF RunnerTimeout, Step, CronInv, TypeOK, Final, WriteRecord
  <2>5. QED BY <2>2, <2>3, <2>4, RecordsStay
<1>9. ASSUME NEW r \in Run, RunRaises(r) PROVE RecordsTrue'
  <2>1. clock' = clock /\ life' = life /\ (up' = TRUE => up) /\ upset \subseteq upset' /\ left' = left
    BY <1>9 DEF RunRaises, Step, fate, process
  <2>2. \A p \in Place : disk'[p].status = "running" => disk[p].status = "running"
    BY <1>9 DEF RunRaises, CronInv, TypeOK, Final
  <2>3. \A o \in Run : up' /\ stage[o] \in {"telling", "exec"} =>
          \/ stage'[o] \in {"telling", "exec"} \/ o \in upset'
          \/ disk'[<<o, Today>>].status # "running"
    BY <1>9 DEF RunRaises, Step, CronInv, TypeOK, Final
  <2>4. QED BY <2>1, <2>2, <2>3, RecordsStay
<1>10. ASSUME NEW r \in inside, NEW s \in Outcome, CommandEnds(r, s) PROVE RecordsTrue'
  <2>1. clock' = clock /\ life' = life /\ (up' = TRUE => up) /\ upset \subseteq upset' /\ left' = left
    BY <1>10 DEF CommandEnds, Step, fate, process
  <2>2. \A p \in Place : disk'[p].status = "running" => disk[p].status = "running"
    BY <1>10 DEF CommandEnds, CronInv, TypeOK, Final
  <2>3. \A o \in Run : up' /\ stage[o] \in {"telling", "exec"} =>
          \/ stage'[o] \in {"telling", "exec"} \/ o \in upset'
          \/ disk'[<<o, Today>>].status # "running"
    BY <1>10 DEF CommandEnds, Step, CronInv, TypeOK, Final
  <2>4. QED BY <2>1, <2>2, <2>3, RecordsStay
<1>11. ASSUME NEW w \in Sweeper, NEW q \in Place, SweepRead(w, q) PROVE RecordsTrue'
  <2>1. clock' = clock /\ life' = life /\ (up' = TRUE => up) /\ upset \subseteq upset' /\ left' = left
    BY <1>11 DEF SweepRead, Step, fate, process
  <2>2. \A p \in Place : disk'[p].status = "running" => disk[p].status = "running"
    BY <1>11 DEF SweepRead, CronInv, TypeOK, Final, Pending, SweepWrites
  <2>3. \A o \in Run : up' /\ stage[o] \in {"telling", "exec"} =>
          \/ stage'[o] \in {"telling", "exec"} \/ o \in upset'
          \/ disk'[<<o, Today>>].status # "running"
    BY <1>11 DEF SweepRead, Step, CronInv, TypeOK, Final, Pending, SweepWrites
  <2>4. QED BY <2>1, <2>2, <2>3, RecordsStay
<1>12. ASSUME NEW w \in Sweeper, SweepAccepted(w) PROVE RecordsTrue'
  <2>1. clock' = clock /\ life' = life /\ (up' = TRUE => up) /\ upset \subseteq upset' /\ left' = left
    BY <1>12 DEF SweepAccepted, Answered, Step, fate, process
  <2>2. \A p \in Place : disk'[p].status = "running" => disk[p].status = "running"
    BY <1>12 DEF SweepAccepted, Answered, CronInv, TypeOK, Final, Pending, SweepWrites
  <2>3. \A o \in Run : up' /\ stage[o] \in {"telling", "exec"} =>
          \/ stage'[o] \in {"telling", "exec"} \/ o \in upset'
          \/ disk'[<<o, Today>>].status # "running"
    BY <1>12 DEF SweepAccepted, Answered, Step, CronInv, TypeOK, Final, Pending, SweepWrites
  <2>4. QED BY <2>1, <2>2, <2>3, RecordsStay
<1>13. ASSUME NEW w \in Sweeper, SweepRejected(w) PROVE RecordsTrue'
  <2>1. clock' = clock /\ life' = life /\ (up' = TRUE => up) /\ upset \subseteq upset' /\ left' = left
    BY <1>13 DEF SweepRejected, Answered, Step, fate, process
  <2>2. \A p \in Place : disk'[p].status = "running" => disk[p].status = "running"
    BY <1>13 DEF SweepRejected, Answered, CronInv, TypeOK, Final, Pending, SweepWrites
  <2>3. \A o \in Run : up' /\ stage[o] \in {"telling", "exec"} =>
          \/ stage'[o] \in {"telling", "exec"} \/ o \in upset'
          \/ disk'[<<o, Today>>].status # "running"
    BY <1>13 DEF SweepRejected, Answered, Step, CronInv, TypeOK, Final, Pending, SweepWrites
  <2>4. QED BY <2>1, <2>2, <2>3, RecordsStay
<1>14. CASE Crash
  <2>1. clock' = clock /\ life' = life /\ (up' = TRUE => up) /\ upset \subseteq upset' /\ left' = left
    BY <1>14 DEF Crash, Step, fate, process
  <2>2. \A p \in Place : disk'[p].status = "running" => disk[p].status = "running"
    BY <1>14 DEF Crash, CronInv, TypeOK, Final
  <2>3. \A o \in Run : up' /\ stage[o] \in {"telling", "exec"} =>
          \/ stage'[o] \in {"telling", "exec"} \/ o \in upset'
          \/ disk'[<<o, Today>>].status # "running"
    BY <1>14 DEF Crash, Step, CronInv, TypeOK, Final
  <2>4. QED BY <2>1, <2>2, <2>3, RecordsStay
<1>15. ASSUME NEW passed \in SUBSET Orphan, Restart(passed) PROVE RecordsTrue'
  <2>1. /\ Today' = Today /\ left \subseteq left'
        /\ \A q \in Place : disk'[q].status = "running" =>
              disk[q].status = "running" /\ (Recent(q) => q[1] \in left')
    BY <1>15 DEF Restart, Today, Orphan
  <2>2. SUFFICES ASSUME NEW r \in Run, NEW d \in Days, disk'[<<r, d>>].status = "running"
        PROVE  d <= Today /\ (Today - d \in {0, 1} => r \in left')
    BY <2>1 DEF RecordsTrue
  <2>3. <<r, d>> \in Place /\ disk[<<r, d>>].status = "running"
        /\ (Recent(<<r, d>>) => r \in left')
    BY <2>1, <2>2 DEF Place
  <2>4. QED BY <2>3 DEF CronInv, RecordsTrue, Recent
<1>16. CASE UNCHANGED vars
  <2>1. Today' = Today
    BY <1>16 DEF vars, Today
  <2>2. QED BY <1>16, <2>1 DEF CronInv, RecordsTrue, vars, process, fate
<1>17. QED
  BY <1>1, <1>2, <1>3, <1>4, <1>5, <1>6, <1>7, <1>8,
     <1>9, <1>10, <1>11, <1>12, <1>13, <1>14, <1>15, <1>16 DEF Next, Work, SweepPosts

\* What a post leaves behind.
LEMMA Posted ==
    ASSUME TypeOK, NEW r \in Run, NEW s \in {"none", "running"} \cup Final,
           Accepted(r, s) \/ Refused \/ Unanswered
    PROVE  /\ dash' \in [Run -> {"none", "running"} \cup Final]
           /\ mishaps' \in 0..MaxMishaps
<1>1. MaxMishaps \in Nat
  BY CronAssumption
<1>2. CASE Accepted(r, s)
  BY <1>2 DEF Accepted, TypeOK
<1>3. CASE Refused
  BY <1>1, <1>3 DEF Refused, Mishap, TypeOK
<1>4. CASE Unanswered
  BY <1>4 DEF Unanswered, TypeOK
<1>5. QED BY <1>2, <1>3, <1>4

\* Every step keeps the type.
LEMMA TypeStep == CronInv /\ [Next]_vars => TypeOK'
<1> SUFFICES ASSUME CronInv, [Next]_vars PROVE TypeOK'
  OBVIOUS
<1> USE DEF CronInv, TypeOK
<1>1. ASSUME NEW scanned \in Declared, Round(scanned) PROVE TypeOK'
  BY <1>1, CronAssumption DEF Round, Step, fate, process, vars, Final
<1>2. CASE MinutePasses
  <2>1. clock' \in Minute
    BY <1>2, CronAssumption DEF MinutePasses, Minute
  <2>2. QED BY <1>2, <2>1 DEF MinutePasses, InPool, Inflight, process
<1>3. ASSUME NEW r \in Run, Begin(r) PROVE TypeOK'
  <2>1. disk' \in [Place -> [status : {"none", "running", "skipped"} \cup Final,
                          pushed : {"no", "yes", "never"}]]
    BY <1>3, TodayKnown DEF Begin, WriteRecord, Place
  <2>2. QED BY <1>3, <2>1 DEF Begin, Step, fate, process, Final
<1>4. ASSUME NEW r \in Run, TellRunning(r) PROVE TypeOK'
  <2>1. dash' \in [Run -> {"none", "running"} \cup Final] /\ mishaps' \in 0..MaxMishaps
    BY <1>4, Posted DEF TellRunning
  <2>2. QED BY <1>4, <2>1 DEF TellRunning, Step, fate, process
<1>5. ASSUME NEW r \in Run, Finish(r) PROVE TypeOK'
  <2>1. result[r] \in {"none", "running", "skipped"} \cup Final /\ pushed[r] \in {"no", "yes", "never"}
    OBVIOUS
  <2>2. disk' \in [Place -> [status : {"none", "running", "skipped"} \cup Final,
                          pushed : {"no", "yes", "never"}]]
    BY <1>5, <2>1, TodayKnown DEF Finish, WriteRecord, Place
  <2>3. QED BY <1>5, <2>1, <2>2 DEF Finish, Step, fate, process, Final
<1>6. ASSUME NEW r \in Run, TellFinal(r) PROVE TypeOK'
  <2>1. result[r] \in {"none"} \cup Final
    OBVIOUS
  <2>2. dash' \in [Run -> {"none", "running"} \cup Final] /\ mishaps' \in 0..MaxMishaps
    BY <1>6, <2>1, Posted DEF TellFinal
  <2>3. disk' \in [Place -> [status : {"none", "running", "skipped"} \cup Final,
                          pushed : {"no", "yes", "never"}]]
    BY <1>6, <2>1, Written DEF TellFinal
  <2>4. QED BY <1>6, <2>2, <2>3 DEF TellFinal, Step, fate, process
<1>7. ASSUME NEW r \in Run, Leave(r) PROVE TypeOK'
  BY <1>7, CronAssumption DEF Leave, Step, fate, process, vars, Final
<1>8. ASSUME NEW r \in Run, RunnerTimeout(r) PROVE TypeOK'
  <2>1. "fail" \in {"none", "running", "skipped"} \cup Final /\ pushed[r] \in {"no", "yes", "never"}
    BY DEF Final
  <2>2. disk' \in [Place -> [status : {"none", "running", "skipped"} \cup Final,
                          pushed : {"no", "yes", "never"}]]
    BY <1>8, <2>1, TodayKnown DEF RunnerTimeout, WriteRecord, Place
  <2>3. /\ mishaps' \in 0..MaxMishaps /\ upset' \subseteq Run
        /\ result' \in [Run -> {"none"} \cup Final]
    BY <1>8, CronAssumption DEF RunnerTimeout, Mishap, Final
  <2>4. QED BY <1>8, <2>2, <2>3 DEF RunnerTimeout, Step, process
<1>9. ASSUME NEW r \in Run, RunRaises(r) PROVE TypeOK'
  BY <1>9, CronAssumption DEF RunRaises, Mishap, Step, fate, process, vars, Final
<1>10. ASSUME NEW r \in inside, NEW s \in Outcome, CommandEnds(r, s) PROVE TypeOK'
  BY <1>10, CronAssumption DEF CommandEnds, Step, fate, process, vars, Final
<1>11. ASSUME NEW w \in Sweeper, NEW q \in Place, SweepRead(w, q) PROVE TypeOK'
  <2>1. disk[q] \in [status : Final, pushed : {"no"}]
    BY <1>11 DEF SweepRead, Pending
  <2>2. held' \in [Sweeper -> [place : Place, rec : [status : Final, pushed : {"no"}]] \cup {None}]
    BY <1>11, <2>1 DEF SweepRead
  <2>3. disk' \in [Place -> [status : {"none", "running", "skipped"} \cup Final,
                          pushed : {"no", "yes", "never"}]]
    BY <1>11 DEF SweepRead
  <2>4. QED BY <1>11, <2>2, <2>3 DEF SweepRead, fate, process
<1>12. ASSUME NEW w \in Sweeper, SweepAccepted(w) PROVE TypeOK'
  <2>1. held[w].place \in Place /\ held[w].rec \in [status : Final, pushed : {"no"}]
    BY <1>12 DEF SweepAccepted, Answered
  <2>2. held[w].place[1] \in Run
    BY <2>1 DEF Place
  <2>3. dash' \in [Run -> {"none", "running"} \cup Final] /\ mishaps' \in 0..MaxMishaps
    BY <1>12, <2>1, <2>2, Posted DEF SweepAccepted, Answered
  <2>4. disk' \in [Place -> [status : {"none", "running", "skipped"} \cup Final,
                          pushed : {"no", "yes", "never"}]]
    BY <1>12, <2>1 DEF SweepAccepted, Answered, SweepWrites
  <2>5. QED BY <1>12, <2>3, <2>4 DEF SweepAccepted, Answered, fate, process
<1>13. ASSUME NEW w \in Sweeper, SweepRejected(w) PROVE TypeOK'
  <2>1. held[w].place \in Place /\ held[w].rec \in [status : Final, pushed : {"no"}]
    BY <1>13 DEF SweepRejected, Answered
  <2>2. dash' \in [Run -> {"none", "running"} \cup Final] /\ mishaps' \in 0..MaxMishaps
    BY <1>13, CronAssumption DEF SweepRejected, Answered, Refused, Mishap, Unanswered
  <2>3. disk' \in [Place -> [status : {"none", "running", "skipped"} \cup Final,
                          pushed : {"no", "yes", "never"}]]
    BY <1>13, <2>1 DEF SweepRejected, Answered, SweepWrites
  <2>4. QED BY <1>13, <2>2, <2>3 DEF SweepRejected, Answered, fate, process
<1>14. CASE Crash
  BY <1>14 DEF Crash, InPool, Inflight
<1>15. ASSUME NEW passed \in SUBSET Orphan, Restart(passed) PROVE TypeOK'
  <2>1. life' \in 1..MaxLives /\ up' \in BOOLEAN
    BY <1>15, CronAssumption DEF Restart, Restarted
  <2>2. disk' \in [Place -> [status : {"none", "running", "skipped"} \cup Final,
                          pushed : {"no", "yes", "never"}]]
    BY <1>15 DEF Restart, Final
  <2>3. left' \subseteq Run
    <3>1. \A q \in passed : q[1] \in Run
      BY DEF Orphan, Place
    <3>2. QED BY <1>15, <3>1 DEF Restart
  <2>4. QED BY <1>15, <2>1, <2>2, <2>3 DEF Restart, fate
<1>16. CASE UNCHANGED vars
  BY <1>16, CronAssumption DEF vars, Step, fate, process, vars, Final
<1>17. QED
  BY <1>1, <1>2, <1>3, <1>4, <1>5, <1>6, <1>7, <1>8,
     <1>9, <1>10, <1>11, <1>12, <1>13, <1>14, <1>15, <1>16 DEF Next, Work, SweepPosts

\* A crash is followed by a restart.
LEMMA LifeStep == CronInv /\ [Next]_vars => Restarted'
<1> SUFFICES ASSUME CronInv, [Next]_vars PROVE Restarted'
  OBVIOUS
<1> USE DEF CronInv, Restarted
<1>1. ASSUME NEW scanned \in Declared, Round(scanned) PROVE Restarted'
  BY <1>1 DEF Round, Step, process
<1>2. CASE MinutePasses
  BY <1>2 DEF MinutePasses, Step, process
<1>3. ASSUME NEW r \in Run, Begin(r) PROVE Restarted'
  BY <1>3 DEF Begin, Step, process
<1>4. ASSUME NEW r \in Run, TellRunning(r) PROVE Restarted'
  BY <1>4 DEF TellRunning, Step, process
<1>5. ASSUME NEW r \in Run, Finish(r) PROVE Restarted'
  BY <1>5 DEF Finish, Step, process
<1>6. ASSUME NEW r \in Run, TellFinal(r) PROVE Restarted'
  BY <1>6 DEF TellFinal, Step, process
<1>7. ASSUME NEW r \in Run, Leave(r) PROVE Restarted'
  BY <1>7 DEF Leave, Step, process
<1>8. ASSUME NEW r \in Run, RunnerTimeout(r) PROVE Restarted'
  BY <1>8 DEF RunnerTimeout, Step, process
<1>9. ASSUME NEW r \in Run, RunRaises(r) PROVE Restarted'
  BY <1>9 DEF RunRaises, Step, process
<1>10. ASSUME NEW r \in inside, NEW s \in Outcome, CommandEnds(r, s) PROVE Restarted'
  BY <1>10 DEF CommandEnds, Step, process
<1>11. ASSUME NEW w \in Sweeper, NEW q \in Place, SweepRead(w, q) PROVE Restarted'
  BY <1>11 DEF SweepRead, Step, process
<1>12. ASSUME NEW w \in Sweeper, SweepAccepted(w) PROVE Restarted'
  BY <1>12 DEF SweepAccepted, Answered, Step, process
<1>13. ASSUME NEW w \in Sweeper, SweepRejected(w) PROVE Restarted'
  BY <1>13 DEF SweepRejected, Answered, Step, process
<1>14. CASE Crash
  BY <1>14 DEF Crash, Step, process
<1>15. ASSUME NEW passed \in SUBSET Orphan, Restart(passed) PROVE Restarted'
  BY <1>15 DEF Restart, Step, process
<1>16. CASE UNCHANGED vars
  BY <1>16 DEF vars, process
<1>17. QED
  BY <1>1, <1>2, <1>3, <1>4, <1>5, <1>6, <1>7, <1>8,
     <1>9, <1>10, <1>11, <1>12, <1>13, <1>14, <1>15, <1>16 DEF Next, Work, SweepPosts

\* The runner starts in a state that satisfies the invariant.
LEMMA Initially == Init => CronInv
<1> SUFFICES ASSUME Init PROVE CronInv
  OBVIOUS
<1>1. 1 \in 1..MaxLives /\ 0 \in Minute /\ 0 \in 0..MaxMishaps
  BY CronAssumption DEF Minute
<1>2. TypeOK
  BY <1>1 DEF Init, TypeOK, NoRecord, Final
<1>3. Restarted /\ OneThread /\ Numbered /\ AwaitedInside
  BY DEF Init, Restarted, OneThread, Inflight, Numbered, AwaitedInside
<1>4. RecordsTrue
  BY DEF Init, RecordsTrue, Place, NoRecord
<1>5. QED BY <1>2, <1>3, <1>4 DEF CronInv

\* The invariant holds throughout: with any number of batches and threads, however
\* the main loop, the batch threads, the sweeps, crashes and restarts interleave.
THEOREM CronInvariant == Spec => []CronInv
<1>1. Init => CronInv
  BY Initially
<1>2. CronInv /\ [Next]_vars => CronInv'
  BY TypeStep, LifeStep, ThreadStep, NumberStep, InsideStep, RecordStep DEF CronInv
<1>3. QED BY <1>1, <1>2, PTL DEF Spec

\* The variables of the runner keep their types.
THEOREM CronTypes == Spec => []TypeOK
<1>1. CronInv => TypeOK
  BY DEF CronInv
<1>2. QED BY <1>1, CronInvariant, PTL

\* Two runs in the container are of one batch only when one of them was cut off: the
\* threads of both would wait for them, and a batch has one thread.
LEMMA OneInside == CronInv => NoOverlap
<1> SUFFICES ASSUME CronInv, NEW r \in inside, NEW s \in inside, r # s, r.batch = s.batch,
                    r \notin upset, s \notin upset
             PROVE  FALSE
  BY DEF NoOverlap
<1>1. stage[r] = "exec" /\ stage[s] = "exec" /\ r \in Run /\ s \in Run
  BY DEF CronInv, AwaitedInside, TypeOK
<1>2. r \in Inflight /\ s \in Inflight
  BY <1>1 DEF Inflight
<1>3. QED BY <1>2 DEF CronInv, OneThread

\* A record that says its run is running is found by the day it was written.
LEMMA RunningRuns == CronInv => RunningIsRunning
<1> SUFFICES ASSUME CronInv, NEW q \in Place, up, disk[q].status = "running", Recent(q)
             PROVE  \/ stage[q[1]] \in {"telling", "exec"}
                    \/ q[1] \in upset /\ q[1].life = life
                    \/ q[1] \in left
  BY DEF RunningIsRunning
<1>1. q[1] \in Run /\ q[2] \in Days /\ q = <<q[1], q[2]>>
  BY DEF Place
<1>2. QED BY <1>1 DEF CronInv, RecordsTrue, Recent

\* A batch has one run at most, and the records of today and yesterday say truly
\* which runs are under way, those apart that a restart's reconcile_orphans could not
\* come to: for every set of batches, every schedule and any number of restarts.
THEOREM RecordsOfRuns == Spec => []RunsRecorded
<1>1. CronInv => RunsRecorded
  BY OneInside, RunningRuns DEF RunsRecorded
<1>2. QED BY <1>1, CronInvariant, PTL

-----------------------------------------------------------------------------
(* What is posted: the records of a run that nothing came across tell, from    *)
(* the end of its command on, what became of it.                              *)

\* Such a run is recorded as running in today's directory, while it does.
RunningNow ==
    \A q \in Place : disk[q].status = "running" /\ q[1] \notin upset =>
        stage[q[1]] \in {"telling", "exec"} /\ q[2] = Today

\* A result that is recorded is the command's, and it is recorded after its end.
Finished == {"closing", "leaving", "over"}
FinalTrue ==
    \A q \in Place : disk[q].status \in Final /\ q[1] \notin upset =>
        stage[q[1]] \in Finished /\ disk[q].status = result[q[1]]

\* A thread that waits for its command in vain will find out how it ended.
CommandHeard == \A r \in Run \ upset : stage[r] = "exec" => r \in inside \/ result[r] # "none"

\* What the sweep has read is still so.
HeldTrue ==
    \A w \in Sweeper : held[w] # None /\ held[w].place[1] \notin upset =>
        stage[held[w].place[1]] \in Finished /\ held[w].rec.status = result[held[w].place[1]]

PostInv == CronInv /\ RunningNow /\ FinalTrue /\ CommandHeard /\ HeldTrue /\ PushedMeansShown

\* Who ends a run says so, or is one of those that come across it.
LEMMA RunningNowStep == PostInv /\ [Next]_vars => RunningNow'
<1> SUFFICES ASSUME PostInv, [Next]_vars PROVE RunningNow'
  OBVIOUS
<1> USE DEF PostInv, CronInv, TypeOK, RunningNow, Place
<1>1. ASSUME NEW scanned \in Declared, Round(scanned) PROVE RunningNow'
  <2>1. \A r \in Run : stage[r] # "none" => stage'[r] = stage[r]
    BY <1>1, RoundKeeps
  <2>2. /\ Today' = Today /\ upset' = upset
        /\ \A q \in Place : disk'[q].status = "running" => disk[q].status = "running"
    BY <1>1 DEF Round, fate, Today
  <2>3. QED BY <2>1, <2>2
<1>2. CASE MinutePasses
  <2>1. /\ UNCHANGED <<stage, disk>> /\ upset \subseteq upset'
        /\ Today' # Today => InPool \subseteq upset'
    BY <1>2 DEF MinutePasses, Today
  <2>2. \A r \in Run : stage[r] \in {"telling", "exec"} => r \in InPool
    BY DEF InPool, Inflight
  <2>3. QED BY <2>1, <2>2
<1>3. ASSUME NEW r \in Run, Begin(r) PROVE RunningNow'
  BY <1>3 DEF Begin, Step, fate, process, vars, WriteRecord, Today
<1>4. ASSUME NEW r \in Run, TellRunning(r) PROVE RunningNow'
  BY <1>4 DEF TellRunning, Step, fate, process, vars, WriteRecord, Today
<1>5. ASSUME NEW r \in Run, Finish(r) PROVE RunningNow'
  <2>1. /\ result[r] # "running" /\ result[r] \in {"none", "running", "skipped"} \cup Final
        /\ pushed[r] \in {"no", "yes", "never"}
    BY DEF Final
  <2>2. /\ \A q \in Place : q # <<r, Today>> => disk'[q] = disk[q]
        /\ disk'[<<r, Today>>].status # "running"
    BY <1>5, <2>1, TodayKnown DEF Finish, WriteRecord
  <2>3. /\ Today' = Today /\ upset' = upset /\ \A o \in Run \ {r} : stage'[o] = stage[o]
    BY <1>5 DEF Finish, Step, fate, Today
  <2>4. \A q \in Place : q[1] = r /\ q[2] = Today => q = <<r, Today>>
    OBVIOUS
  <2>5. QED BY <2>2, <2>3, <2>4
<1>6. ASSUME NEW r \in Run, TellFinal(r) PROVE RunningNow'
  <2>1. result[r] # "running" /\ result[r] \in {"none", "running", "skipped"} \cup Final
    BY DEF Final
  <2>2. /\ \A q \in Place : q # <<r, Today>> => disk'[q] = disk[q]
        /\ disk'[<<r, Today>>].status = "running" => disk'[<<r, Today>>] = disk[<<r, Today>>]
    BY <1>6, <2>1, Written DEF TellFinal
  <2>3. /\ Today' = Today /\ upset' = upset /\ stage[r] = "closing"
        /\ \A o \in Run \ {r} : stage'[o] = stage[o]
    BY <1>6 DEF TellFinal, Step, fate, Today
  <2>4. QED BY SMTT(30), <2>2, <2>3
<1>7. ASSUME NEW r \in Run, Leave(r) PROVE RunningNow'
  BY <1>7 DEF Leave, Step, fate, process, vars, WriteRecord, Today
<1>8. ASSUME NEW r \in Run, RunnerTimeout(r) PROVE RunningNow'
  BY <1>8 DEF RunnerTimeout, Step, fate, process, vars, WriteRecord, Today
<1>9. ASSUME NEW r \in Run, RunRaises(r) PROVE RunningNow'
  BY <1>9 DEF RunRaises, Step, fate, process, vars, WriteRecord, Today
<1>10. ASSUME NEW r \in inside, NEW s \in Outcome, CommandEnds(r, s) PROVE RunningNow'
  BY <1>10 DEF CommandEnds, Step, fate, process, vars, WriteRecord, Today
<1>11. ASSUME NEW w \in Sweeper, NEW q \in Place, SweepRead(w, q) PROVE RunningNow'
  BY <1>11 DEF SweepRead, Step, fate, process, vars, WriteRecord, Today
<1>12. ASSUME NEW w \in Sweeper, SweepAccepted(w) PROVE RunningNow'
  <2>1. held[w].place \in Place /\ held[w].rec.status \in Final /\ "running" \notin Final
    BY <1>12 DEF SweepAccepted, Answered, Final
  <2>2. \A q \in Place : disk'[q].status = "running" => disk[q].status = "running"
    BY <1>12, <2>1 DEF SweepAccepted, Answered, SweepWrites
  <2>3. QED BY <1>12, <2>2 DEF SweepAccepted, Answered, Today, fate
<1>13. ASSUME NEW w \in Sweeper, SweepRejected(w) PROVE RunningNow'
  <2>1. held[w].place \in Place /\ held[w].rec.status \in Final /\ "running" \notin Final
    BY <1>13 DEF SweepRejected, Answered, Final
  <2>2. \A q \in Place : disk'[q].status = "running" => disk[q].status = "running"
    BY <1>13, <2>1 DEF SweepRejected, Answered, SweepWrites
  <2>3. QED BY <1>13, <2>2 DEF SweepRejected, Answered, Today, fate
<1>14. CASE Crash
  <2>1. \A r \in Run : stage[r] \in {"telling", "exec"} => r \in InPool
    BY DEF InPool, Inflight
  <2>2. QED BY <1>14, <2>1 DEF Crash, Today
<1>15. ASSUME NEW passed \in SUBSET Orphan, Restart(passed) PROVE RunningNow'
  BY <1>15 DEF Restart, Orphan, Step, fate, process, vars, WriteRecord, Today
<1>16. CASE UNCHANGED vars
  BY <1>16 DEF vars, Step, fate, process, vars, WriteRecord, Today
<1>17. QED
  BY <1>1, <1>2, <1>3, <1>4, <1>5, <1>6, <1>7, <1>8,
     <1>9, <1>10, <1>11, <1>12, <1>13, <1>14, <1>15, <1>16 DEF Next, Work, SweepPosts

\* A result is only recorded by the thread and by the sweep.
LEMMA FinalStep == PostInv /\ [Next]_vars => FinalTrue'
<1> SUFFICES ASSUME PostInv, [Next]_vars PROVE FinalTrue'
  OBVIOUS
<1> USE DEF PostInv, CronInv, TypeOK, FinalTrue, Place, Final, Finished
<1>1. ASSUME NEW scanned \in Declared, Round(scanned) PROVE FinalTrue'
  <2>1. \A r \in Run : stage[r] # "none" => stage'[r] = stage[r]
    BY <1>1, RoundKeeps
  <2>2. /\ upset' = upset /\ result' = result
        /\ \A q \in Place : disk'[q].status \in Final => disk'[q] = disk[q]
    BY <1>1 DEF Round, fate
  <2>3. QED BY <2>1, <2>2
<1>2. CASE MinutePasses
  BY <1>2 DEF MinutePasses, Step, fate, process, vars, WriteRecord
<1>3. ASSUME NEW r \in Run, Begin(r) PROVE FinalTrue'
  BY <1>3 DEF Begin, Step, fate, process, vars, WriteRecord
<1>4. ASSUME NEW r \in Run, TellRunning(r) PROVE FinalTrue'
  BY <1>4 DEF TellRunning, Step, fate, process, vars, WriteRecord
<1>5. ASSUME NEW r \in Run, Finish(r) PROVE FinalTrue'
  BY <1>5 DEF Finish, Step, fate, process, vars, WriteRecord
<1>6. ASSUME NEW r \in Run, TellFinal(r) PROVE FinalTrue'
  <2>1. result[r] \in {"none", "running", "skipped"} \cup Final
    OBVIOUS
  <2>2. /\ \A q \in Place : q # <<r, Today>> => disk'[q] = disk[q]
        /\ disk'[<<r, Today>>].status = result[r] \/ disk' = disk
    BY <1>6, <2>1, Written DEF TellFinal
  <2>3. /\ UNCHANGED <<result, upset>> /\ stage[r] = "closing" /\ stage'[r] = "leaving"
        /\ \A o \in Run \ {r} : stage'[o] = stage[o]
    BY <1>6 DEF TellFinal, Step, fate
  <2>4. \A q \in Place : disk'[q].status \in Final /\ q[1] = r =>
           disk'[q].status = result[r] \/ disk'[q] = disk[q]
    BY <2>2
  <2>5. \A q \in Place : q[1] # r => disk'[q] = disk[q]
    BY <2>2
  <2>6. QED BY <2>3, <2>4, <2>5
<1>7. ASSUME NEW r \in Run, Leave(r) PROVE FinalTrue'
  BY <1>7 DEF Leave, Step, fate, process, vars, WriteRecord
<1>8. ASSUME NEW r \in Run, RunnerTimeout(r) PROVE FinalTrue'
  BY <1>8 DEF RunnerTimeout, Step, fate, process, vars, WriteRecord
<1>9. ASSUME NEW r \in Run, RunRaises(r) PROVE FinalTrue'
  BY <1>9 DEF RunRaises, Step, fate, process, vars, WriteRecord
<1>10. ASSUME NEW r \in inside, NEW s \in Outcome, CommandEnds(r, s) PROVE FinalTrue'
  BY <1>10 DEF CommandEnds, Step, fate, process, vars, WriteRecord
<1>11. ASSUME NEW w \in Sweeper, NEW q \in Place, SweepRead(w, q) PROVE FinalTrue'
  BY <1>11 DEF SweepRead, Step, fate, process, vars, WriteRecord
<1>12. ASSUME NEW w \in Sweeper, SweepAccepted(w) PROVE FinalTrue'
  <2>1. held[w].place \in Place /\ held[w] # None
    BY <1>12 DEF SweepAccepted, Answered
  <2>2. \A q \in Place : disk'[q].status = disk[q].status
                       \/ (q = held[w].place /\ disk'[q].status = held[w].rec.status)
    BY <1>12, <2>1 DEF SweepAccepted, Answered, SweepWrites
  <2>3. QED BY <1>12, <2>1, <2>2 DEF SweepAccepted, Answered, HeldTrue, fate
<1>13. ASSUME NEW w \in Sweeper, SweepRejected(w) PROVE FinalTrue'
  <2>1. held[w].place \in Place /\ held[w] # None
    BY <1>13 DEF SweepRejected, Answered
  <2>2. \A q \in Place : disk'[q].status = disk[q].status
                       \/ (q = held[w].place /\ disk'[q].status = held[w].rec.status)
    BY <1>13, <2>1 DEF SweepRejected, Answered, SweepWrites
  <2>3. UNCHANGED <<stage, result, upset>>
    BY <1>13 DEF SweepRejected, fate
  <2>4. held[w].place[1] \notin upset =>
           stage[held[w].place[1]] \in Finished /\ held[w].rec.status = result[held[w].place[1]]
    BY <2>1 DEF HeldTrue
  <2>5. QED BY <2>2, <2>3, <2>4
<1>14. CASE Crash
  BY <1>14 DEF Crash, Step, fate, process, vars, WriteRecord
<1>15. ASSUME NEW passed \in SUBSET Orphan, Restart(passed) PROVE FinalTrue'
  <2>1. \A q \in Place : ~(disk[q].status = "running" /\ q[1] \notin upset)
    BY <1>15 DEF Restart, Orphan, RunningNow, OneThread, Inflight
  <2>2. QED BY <1>15, <2>1 DEF Restart, Orphan, fate
<1>16. CASE UNCHANGED vars
  BY <1>16 DEF vars, Step, fate, process, vars, WriteRecord
<1>17. QED
  BY <1>1, <1>2, <1>3, <1>4, <1>5, <1>6, <1>7, <1>8,
     <1>9, <1>10, <1>11, <1>12, <1>13, <1>14, <1>15, <1>16 DEF Next, Work, SweepPosts

\* A command's end is noted before its thread goes on.
LEMMA HeardStep == PostInv /\ [Next]_vars => CommandHeard'
<1> SUFFICES ASSUME PostInv, [Next]_vars PROVE CommandHeard'
  OBVIOUS
<1> USE DEF PostInv, CronInv, TypeOK, CommandHeard
<1>1. ASSUME NEW scanned \in Declared, Round(scanned) PROVE CommandHeard'
  BY <1>1 DEF Round, Step, fate, process, vars
<1>2. CASE MinutePasses
  BY <1>2 DEF MinutePasses, Step, fate, process, vars
<1>3. ASSUME NEW r \in Run, Begin(r) PROVE CommandHeard'
  BY <1>3 DEF Begin, Step, fate, process, vars
<1>4. ASSUME NEW r \in Run, TellRunning(r) PROVE CommandHeard'
  BY <1>4 DEF TellRunning, Step, fate, process, vars
<1>5. ASSUME NEW r \in Run, Finish(r) PROVE CommandHeard'
  BY <1>5 DEF Finish, Step, fate, process, vars
<1>6. ASSUME NEW r \in Run, TellFinal(r) PROVE CommandHeard'
  BY <1>6 DEF TellFinal, Step, fate, process, vars
<1>7. ASSUME NEW r \in Run, Leave(r) PROVE CommandHeard'
  BY <1>7 DEF Leave, Step, fate, process, vars
<1>8. ASSUME NEW r \in Run, RunnerTimeout(r) PROVE CommandHeard'
  BY <1>8 DEF RunnerTimeout, Step, fate, process, vars
<1>9. ASSUME NEW r \in Run, RunRaises(r) PROVE CommandHeard'
  BY <1>9 DEF RunRaises, Step, fate, process, vars
<1>10. ASSUME NEW r \in inside, NEW s \in Outcome, CommandEnds(r, s) PROVE CommandHeard'
  <2>1. s # "none"
    BY CronAssumption DEF Final
  <2>2. QED BY <1>10, <2>1 DEF CommandEnds
<1>11. ASSUME NEW w \in Sweeper, NEW q \in Place, SweepRead(w, q) PROVE CommandHeard'
  BY <1>11 DEF SweepRead, Step, fate, process, vars
<1>12. ASSUME NEW w \in Sweeper, SweepAccepted(w) PROVE CommandHeard'
  BY <1>12 DEF SweepAccepted, Answered, Step, fate, process, vars
<1>13. ASSUME NEW w \in Sweeper, SweepRejected(w) PROVE CommandHeard'
  BY <1>13 DEF SweepRejected, Answered, Step, fate, process, vars
<1>14. CASE Crash
  BY <1>14 DEF Crash, Step, fate, process, vars
<1>15. ASSUME NEW passed \in SUBSET Orphan, Restart(passed) PROVE CommandHeard'
  BY <1>15 DEF Restart, Orphan, Step, fate, process, vars
<1>16. CASE UNCHANGED vars
  BY <1>16 DEF vars, Step, fate, process, vars
<1>17. QED
  BY <1>1, <1>2, <1>3, <1>4, <1>5, <1>6, <1>7, <1>8,
     <1>9, <1>10, <1>11, <1>12, <1>13, <1>14, <1>15, <1>16 DEF Next, Work, SweepPosts

\* What the sweep reads is final.
LEMMA HeldStep == PostInv /\ [Next]_vars => HeldTrue'
<1> SUFFICES ASSUME PostInv, [Next]_vars PROVE HeldTrue'
  OBVIOUS
<1> USE DEF PostInv, CronInv, TypeOK, HeldTrue, Place, Finished
<1>1. ASSUME NEW scanned \in Declared, Round(scanned) PROVE HeldTrue'
  <2>1. \A r \in Run : stage[r] # "none" => stage'[r] = stage[r]
    BY <1>1, RoundKeeps
  <2>2. UNCHANGED <<held, upset, result>> /\ \A w \in Sweeper : held[w] # None => held[w].place[1] \in Run
    BY <1>1 DEF Round, fate
  <2>3. QED BY <2>1, <2>2
<1>2. CASE MinutePasses
  BY <1>2 DEF MinutePasses, Step, fate, process, vars
<1>3. ASSUME NEW r \in Run, Begin(r) PROVE HeldTrue'
  BY <1>3 DEF Begin, Step, fate, process, vars
<1>4. ASSUME NEW r \in Run, TellRunning(r) PROVE HeldTrue'
  BY <1>4 DEF TellRunning, Step, fate, process, vars
<1>5. ASSUME NEW r \in Run, Finish(r) PROVE HeldTrue'
  BY <1>5 DEF Finish, Step, fate, process, vars
<1>6. ASSUME NEW r \in Run, TellFinal(r) PROVE HeldTrue'
  BY <1>6 DEF TellFinal, Step, fate, process, vars
<1>7. ASSUME NEW r \in Run, Leave(r) PROVE HeldTrue'
  BY <1>7 DEF Leave, Step, fate, process, vars
<1>8. ASSUME NEW r \in Run, RunnerTimeout(r) PROVE HeldTrue'
  BY <1>8 DEF RunnerTimeout, Step, fate, process, vars
<1>9. ASSUME NEW r \in Run, RunRaises(r) PROVE HeldTrue'
  BY <1>9 DEF RunRaises, Step, fate, process, vars
<1>10. ASSUME NEW r \in inside, NEW s \in Outcome, CommandEnds(r, s) PROVE HeldTrue'
  <2>1. UNCHANGED <<held, upset, stage>>
    BY <1>10 DEF CommandEnds
  <2>2. \A o \in Run : result[o] # "none" => result'[o] = result[o]
    BY <1>10 DEF CommandEnds
  <2>3. \A w \in Sweeper : held[w] # None =>
           held[w].place[1] \in Run /\ held[w].rec.status # "none"
    BY DEF Final
  <2>4. QED BY <2>1, <2>2, <2>3
<1>11. ASSUME NEW w \in Sweeper, NEW q \in Place, SweepRead(w, q) PROVE HeldTrue'
  <2>1. UNCHANGED <<result, upset, stage>>
    BY <1>11 DEF SweepRead, fate
  <2>2. CASE held' = [held EXCEPT ![w] = [place |-> q, rec |-> disk[q]]]
    BY <1>11, <2>1, <2>2 DEF SweepRead, Pending, FinalTrue
  <2>3. CASE held' = held
    BY <2>1, <2>3
  <2>4. QED BY <1>11, <2>2, <2>3 DEF SweepRead
<1>12. ASSUME NEW w \in Sweeper, SweepAccepted(w) PROVE HeldTrue'
  BY <1>12 DEF SweepAccepted, Answered, Step, fate, process, vars
<1>13. ASSUME NEW w \in Sweeper, SweepRejected(w) PROVE HeldTrue'
  BY <1>13 DEF SweepRejected, Answered, Step, fate, process, vars
<1>14. CASE Crash
  BY <1>14 DEF Crash, Step, fate, process, vars
<1>15. ASSUME NEW passed \in SUBSET Orphan, Restart(passed) PROVE HeldTrue'
  BY <1>15 DEF Restart, Orphan, Step, fate, process, vars
<1>16. CASE UNCHANGED vars
  BY <1>16 DEF vars, Step, fate, process, vars
<1>17. QED
  BY <1>1, <1>2, <1>3, <1>4, <1>5, <1>6, <1>7, <1>8,
     <1>9, <1>10, <1>11, <1>12, <1>13, <1>14, <1>15, <1>16 DEF Next, Work, SweepPosts

\* Whoever records a post as accepted has shown it.
LEMMA ShownStep == PostInv /\ [Next]_vars => PushedMeansShown'
<1> SUFFICES ASSUME PostInv, [Next]_vars PROVE PushedMeansShown'
  OBVIOUS
<1> USE DEF PostInv, CronInv, TypeOK, PushedMeansShown, Place, Final
<1>1. ASSUME NEW scanned \in Declared, Round(scanned) PROVE PushedMeansShown'
  BY <1>1 DEF Round, Step, fate, process, vars, WriteRecord, Accepted, Refused, Unanswered
<1>2. CASE MinutePasses
  BY <1>2 DEF MinutePasses, Step, fate, process, vars, WriteRecord, Accepted, Refused, Unanswered
<1>3. ASSUME NEW r \in Run, Begin(r) PROVE PushedMeansShown'
  BY <1>3 DEF Begin, Step, fate, process, vars, WriteRecord, Accepted, Refused, Unanswered
<1>4. ASSUME NEW r \in Run, TellRunning(r) PROVE PushedMeansShown'
  <2>1. UNCHANGED <<disk, upset>> /\ stage[r] = "telling"
    BY <1>4 DEF TellRunning, Step, fate
  <2>2. \A o \in Run \ {r} : dash'[o] = dash[o] /\ pushed'[o] = pushed[o]
    BY <1>4 DEF TellRunning, Accepted, Refused, Unanswered
  <2>3. \A q \in Place : disk[q].status \in Final /\ q[1] \notin upset => q[1] # r
    BY <2>1 DEF FinalTrue, Finished
  <2>4. QED BY <2>1, <2>2, <2>3
<1>5. ASSUME NEW r \in Run, Finish(r) PROVE PushedMeansShown'
  BY <1>5 DEF Finish, Step, fate, process, vars, WriteRecord, Accepted, Refused, Unanswered
<1>6. ASSUME NEW r \in Run, TellFinal(r) PROVE PushedMeansShown'
  <2>1. result[r] \in {"none", "running", "skipped"} \cup Final
    OBVIOUS
  <2>2. /\ UNCHANGED <<pushed, upset>>
        /\ \A o \in Run \ {r} : dash'[o] = dash[o]
        /\ \A q \in Place : q # <<r, Today>> => disk'[q] = disk[q]
    BY ZenonT(40), <1>6, <2>1, Written DEF TellFinal, fate, Accepted, Refused, Unanswered
  <2>3. CASE dash'[r] = result[r] /\ disk'[<<r, Today>>].status = result[r]
    BY <2>2, <2>3 DEF FinalTrue
  <2>4. CASE UNCHANGED <<dash, disk>>
    BY <2>2, <2>4
  <2>5. CASE UNCHANGED dash /\ disk'[<<r, Today>>].pushed = "never"
    BY <2>2, <2>5
  <2>6. \/ dash'[r] = result[r] /\ disk'[<<r, Today>>].status = result[r]
        \/ UNCHANGED <<dash, disk>>
        \/ UNCHANGED dash /\ disk'[<<r, Today>>].pushed = "never"
    <3>1. CASE Accepted(r, result[r]) /\ WriteRecord(r, result[r], "yes")
      BY <2>1, <3>1, Written DEF Accepted
    <3>2. CASE Refused /\ WriteRecord(r, result[r], "never")
      BY <2>1, <3>2, TodayKnown DEF Refused, WriteRecord
    <3>3. QED BY <1>6, <3>1, <3>2 DEF TellFinal, Unanswered
  <2>7. QED BY <2>3, <2>4, <2>5, <2>6
<1>7. ASSUME NEW r \in Run, Leave(r) PROVE PushedMeansShown'
  BY <1>7 DEF Leave, Step, fate, process, vars, WriteRecord, Accepted, Refused, Unanswered
<1>8. ASSUME NEW r \in Run, RunnerTimeout(r) PROVE PushedMeansShown'
  BY <1>8 DEF RunnerTimeout, Step, fate, process, vars, WriteRecord, Accepted, Refused, Unanswered
<1>9. ASSUME NEW r \in Run, RunRaises(r) PROVE PushedMeansShown'
  BY <1>9 DEF RunRaises, Step, fate, process, vars, WriteRecord, Accepted, Refused, Unanswered
<1>10. ASSUME NEW r \in inside, NEW s \in Outcome, CommandEnds(r, s) PROVE PushedMeansShown'
  BY <1>10 DEF CommandEnds, Step, fate, process, vars, WriteRecord, Accepted, Refused, Unanswered
<1>11. ASSUME NEW w \in Sweeper, NEW q \in Place, SweepRead(w, q) PROVE PushedMeansShown'
  BY <1>11 DEF SweepRead, Step, fate, process, vars, WriteRecord, Accepted, Refused, Unanswered
<1>12. ASSUME NEW w \in Sweeper, SweepAccepted(w) PROVE PushedMeansShown'
  <2>1. held[w].place \in Place /\ held[w] # None /\ held[w].place[1] \in Run
    BY <1>12 DEF SweepAccepted, Answered
  <2>2. /\ \A q \in Place : q # held[w].place => disk'[q] = disk[q]
        /\ disk'[held[w].place].status = held[w].rec.status
    BY <1>12, <2>1 DEF SweepAccepted, Answered, SweepWrites
  <2>3. /\ dash'[held[w].place[1]] = held[w].rec.status
        /\ \A o \in Run : o # held[w].place[1] => dash'[o] = dash[o]
        /\ UNCHANGED <<pushed, upset>>
    BY <1>12, <2>1 DEF SweepAccepted, Answered, Accepted, fate
  <2>4. QED BY <2>1, <2>2, <2>3 DEF HeldTrue, FinalTrue
<1>13. ASSUME NEW w \in Sweeper, SweepRejected(w) PROVE PushedMeansShown'
  <2>1. held[w].place \in Place
    BY <1>13 DEF SweepRejected, Answered
  <2>2. \A q \in Place : disk'[q].pushed = "yes" => disk'[q] = disk[q]
    BY <1>13, <2>1 DEF SweepRejected, Answered, SweepWrites
  <2>3. UNCHANGED <<dash, pushed, upset>>
    BY <1>13 DEF SweepRejected, Answered, Refused, Unanswered, fate
  <2>4. QED BY <2>2, <2>3
<1>14. CASE Crash
  BY <1>14 DEF Crash, Step, fate, process, vars, WriteRecord, Accepted, Refused, Unanswered
<1>15. ASSUME NEW passed \in SUBSET Orphan, Restart(passed) PROVE PushedMeansShown'
  BY <1>15 DEF Restart, Orphan, Step, fate, process, vars, WriteRecord, Accepted, Refused, Unanswered
<1>16. CASE UNCHANGED vars
  BY <1>16 DEF vars, Step, fate, process, vars, WriteRecord, Accepted, Refused, Unanswered
<1>17. QED
  BY <1>1, <1>2, <1>3, <1>4, <1>5, <1>6, <1>7, <1>8,
     <1>9, <1>10, <1>11, <1>12, <1>13, <1>14, <1>15, <1>16 DEF Next, Work, SweepPosts

\* At first nothing is recorded.
LEMMA PostStarts == Init => PostInv
<1> SUFFICES ASSUME Init PROVE PostInv
  OBVIOUS
<1>1. CronInv
  BY Initially
<1>2. RunningNow /\ FinalTrue /\ CommandHeard /\ HeldTrue /\ PushedMeansShown
  BY DEF Init, RunningNow, FinalTrue, CommandHeard, HeldTrue, PushedMeansShown, NoRecord, Final
<1>3. QED BY <1>1, <1>2 DEF PostInv

\* The invariant behind the dashboard: for a run that no restart, exception or midnight
\* came across, the thread, the sweep and every copy of its record agree on its result.
THEOREM PostInvariant == Spec => []PostInv
<1>1. PostInv /\ [Next]_vars => CronInv'
  BY TypeStep, LifeStep, ThreadStep, NumberStep, InsideStep, RecordStep DEF PostInv, CronInv
<1>2. PostInv /\ [Next]_vars => PostInv'
  BY <1>1, RunningNowStep, FinalStep, HeardStep, HeldStep, ShownStep DEF PostInv
<1>3. QED BY PostStarts, <1>2, PTL DEF Spec

\* A result recorded as posted is on the dashboard, or only the post of the run's
\* beginning was accepted: in whatever order the batch thread and the sweep post, are
\* answered and write, for any number of batches, refusals and restarts.
THEOREM PushedIsShown == Spec => []PushedMeansShown
<1>1. PostInv => PushedMeansShown
  BY DEF PostInv
<1>2. QED BY <1>1, PostInvariant, PTL

-----------------------------------------------------------------------------
(* UserContainer: what goes on between two looks at a user's container.      *)

\* Whoever is in ensure_running, or about to replace the container for its port,
\* has their process's lock; so one of each process at a time.
OneUnderLock == \A c \in Client : at[c] \in Ensuring \cup Replacing => lock[ProcessOf(c)] = c

\* What runs in the container runs while it is up.
InsideRuns == Inside # {} => pod = "running"

\* What a client has seen is how it is, until someone without their lock changes it;
\* or it has seen nothing, the look having failed.
LookStands ==
    \A c \in Client \ meddled :
        /\ at[c] = "judge" => seen[c] = pod \/ (c \in failed /\ seen[c] = "none")
        /\ at[c] = "unwedge" => pod = "stopping"

\* Who is about to replace the container, was left alone and could look, found no turn
\* in it: those that are there now came after.
ReplacersLooked ==
    \A c \in Client : at[c] \in {"stop", "remove"} \cup Replacing /\ c \notin meddled \cup blind =>
        Inside \cap Turns \subseteq raced

\* Only who is in ensure_running can be meddled with.
MeddledEnsure == \A c \in meddled : at[c] \in Ensuring

ContainerInv ==
    /\ ContainerTypeOK /\ OneUnderLock /\ MeddledEnsure
    /\ InsideRuns /\ LookStands /\ ReplacersLooked
    /\ EnsureSucceeds /\ TurnsSpared

\* Of the clients of one process, one at most is at it.
LEMMA OneAtIt ==
  ASSUME ContainerTypeOK, OneUnderLock, NEW c \in Client, NEW d \in Client,
         at[c] \in Ensuring \cup Replacing, at[d] \in Ensuring \cup Replacing, ProcessOf(c) = ProcessOf(d)
  PROVE  c = d
BY DEF OneUnderLock

\* The types, and the locks.
ContainerTypes == ContainerTypeOK /\ OneUnderLock /\ MeddledEnsure

\* What is left to do depends on what was seen.
LEMMA ThenTypes ==
  ASSUME NEW c \in Client, NEW st \in {"none", "running", "exited", "stopping"}
  PROVE  /\ st = "running" => Then(c, st) \in {"idle", "ready"}
         /\ st # "running" => Then(c, st) \in {"unwedge", "remove", "start", "create"}
         /\ Then(c, st) = "start" => st = "exited"
         /\ Then(c, st) = "create" => st = "none"
         /\ Then(c, st) = "remove" => st = "exited"
BY DEF Then, Ready

\* The failures are counted, and told of clients only.
SlipsOK == failures \in 0..MaxFailures /\ failed \subseteq Client /\ blind \subseteq Client

LEMMA SlipsStep ==
  ASSUME ContainerTypes, [ContainerNext]_containerVars
  PROVE  SlipsOK'
<1>1. SlipsOK /\ MaxFailures \in Nat
  BY ContainerAssumption DEF ContainerTypes, ContainerTypeOK, SlipsOK
<1>2. ASSUME Fails PROVE failures' \in 0..MaxFailures
  BY <1>1, <1>2 DEF Fails, SlipsOK
<1>3. CASE Works \/ UNCHANGED <<failures, slips>> \/ (\E c \in Client : FailsFor(c) \/ Blinds(c))
  BY <1>1, <1>2, <1>3 DEF Works, slips, FailsFor, Blinds, SlipsOK
<1>4. CASE \E c \in Client : Settle(c) /\ (Fails \/ UNCHANGED failures)
  BY <1>1, <1>2, <1>4 DEF Settle, SlipsOK
<1>5. ASSUME NEW c \in Client, Start(c) \/ Create(c) PROVE SlipsOK'
  BY <1>4, <1>5 DEF Start, Create, StartServices
<1>6. ASSUME NEW c \in Client, Ensure(c) PROVE SlipsOK'
  <2>1. CASE Look(c)
    BY <1>3, <2>1 DEF Look
  <2>2. CASE Judge(c)
    BY <1>3, <1>4, <2>2 DEF Judge
  <2>3. CASE StopOld(c) \/ Remove(c) \/ Unwedge(c) \/ CdpStop(c)
    BY <1>3, <2>3 DEF StopOld, Remove, Unwedge, CdpStop
  <2>4. CASE Cdp(c)
    BY <1>3, <2>4 DEF Cdp, history
  <2>5. CASE CdpRemove(c)
    BY <1>4, <2>5 DEF CdpRemove
  <2>6. QED BY <1>5, <1>6, <2>1, <2>2, <2>3, <2>4, <2>5 DEF Ensure
<1>7. ASSUME NEW c \in Client, Failing(c) PROVE SlipsOK'
  BY <1>3, <1>4, <1>7 DEF Failing, JudgeBlind, CdpBlind, CommandFails, PodmanTimesOut
<1>8. ASSUME NEW c \in Client, Exec(c) \/ End(c) \/ KeepServices(c) PROVE SlipsOK'
  BY <1>3, <1>8 DEF Exec, End, KeepServices, history
<1>9. CASE Reap \/ TierChanges \/ UNCHANGED containerVars
  BY <1>3, <1>9 DEF Reap, ReapLook, ReapStop, ReapUnwedge, TierChanges, containerVars, history
<1>10. QED BY <1>6, <1>7, <1>8, <1>9 DEF ContainerNext

\* Every step keeps the types and the locks.
LEMMA ContainerTypesStep ==
  ASSUME ContainerTypes, [ContainerNext]_containerVars
  PROVE  ContainerTypes'
<1> USE ContainerAssumption
<1>0. /\ \A c \in Client : ProcessOf(c) \in Process /\ c # Nobody
      /\ \A c \in Handoffs : ProcessOf(c) = "daemon"
  BY DEF ProcessOf, Process, Client
<1>s. failures' \in 0..MaxFailures /\ failed' \subseteq Client /\ blind' \subseteq Client
  BY SlipsStep DEF SlipsOK
<1>1. ASSUME NEW c \in Client, Look(c) PROVE ContainerTypes'
  <2>1. seen' \in [Client -> {"none", "running", "exited", "stopping"}]
    BY <1>1 DEF Look, ContainerTypes, ContainerTypeOK
  <2>2. QED
    BY <1>0, <1>s, <1>1, <2>1 DEF Look, Goto, ContainerTypes, ContainerTypeOK, OneUnderLock, MeddledEnsure, container, Ensuring, Replacing
<1>2. ASSUME NEW c \in Client, Judge(c) PROVE ContainerTypes'
  <2>1. seen[c] \in {"none", "running", "exited", "stopping"} /\ at[c] = "judge"
    BY <1>2 DEF Judge, ContainerTypes, ContainerTypeOK
  <2>2. /\ lock[ProcessOf(c)] = c
        /\ \A d \in Client : d # c /\ at[d] \in Ensuring \cup Replacing => ProcessOf(d) # ProcessOf(c)
    BY <2>1, OneAtIt DEF ContainerTypes, OneUnderLock, Ensuring
  <2>3. PICK s \in {"idle", "ready", "stop", "unwedge", "remove", "start", "create"} :
           /\ at' = [at EXCEPT ![c] = s]
           /\ \/ s \in Ensuring /\ lock' = lock
              \/ s \notin Ensuring /\ Unlock(c)
    BY <1>2, <2>1, ThenTypes DEF Judge, Goto, Ensuring
  <2>4. /\ lock' \in [Process -> Client \cup {Nobody}] /\ at' \in [Client -> {"idle", "want", "ready", "inside"} \cup Ensuring \cup Replacing]
        /\ OneUnderLock'
        /\ \A p \in Process : lock'[p] # Nobody =>
             ProcessOf(lock'[p]) = p /\ at'[lock'[p]] \in Ensuring \cup Replacing
    BY <1>0, <2>1, <2>2, <2>3 DEF ContainerTypes, ContainerTypeOK, OneUnderLock, Unlock, Ensuring, Replacing
  <2>5. MeddledEnsure' /\ meddled' \subseteq Client
    BY <1>2, <2>1, <2>3 DEF Judge, ContainerTypes, ContainerTypeOK, MeddledEnsure
  <2>6. QED
    BY <1>s, <1>2, <2>4, <2>5 DEF Judge, ContainerTypes, ContainerTypeOK, container
<1>3. ASSUME NEW c \in Client, StopOld(c) \/ Remove(c) \/ Unwedge(c) \/ CdpStop(c) PROVE ContainerTypes'
  <2>0. at[c] \in Ensuring \cup Replacing /\ lock' = lock /\ lock[ProcessOf(c)] = c /\ Meddle(c)
    BY <1>3 DEF StopOld, Remove, Unwedge, CdpStop, Ensuring, Replacing, ContainerTypes, OneUnderLock
  <2>1. PICK s \in Ensuring \cup Replacing : Killed(c, s)
    <3>1. CASE Unwedge(c)
      <4>1. pod' \in {"none", "exited"}
        BY <3>1 DEF Unwedge
      <4>2. Then(c, pod') \in Ensuring /\ Killed(c, Then(c, pod'))
        BY <3>1, <4>1, ThenTypes DEF Unwedge, Ensuring
      <4>3. QED BY <4>2
    <3>2. QED BY <1>3, <3>1 DEF StopOld, Remove, CdpStop, Ensuring, Replacing
  <2>2. /\ at'[c] = s
        /\ \A d \in Client \ {c} : at'[d] = at[d] \/ (at[d] = "inside" /\ at'[d] = "idle")
        /\ at' \in [Client -> {"idle", "want", "ready", "inside"} \cup Ensuring \cup Replacing]
    BY <2>0, <2>1 DEF Killed, Inside, ContainerTypes, ContainerTypeOK, Ensuring, Replacing
  <2>3. OneUnderLock' /\ \A p \in Process : lock'[p] # Nobody =>
             ProcessOf(lock'[p]) = p /\ at'[lock'[p]] \in Ensuring \cup Replacing
    BY <2>0, <2>1, <2>2 DEF ContainerTypes, ContainerTypeOK, OneUnderLock, Ensuring, Replacing
  <2>4. MeddledEnsure' /\ meddled' \subseteq Client
    BY <2>0 DEF Meddle, MeddledEnsure
  <2>5. /\ pod' \in {"none", "running", "exited", "stopping"} /\ outdated' \in BOOLEAN
        /\ mem' \in Memory /\ tier' \in Memory /\ published' \in BOOLEAN /\ services' \in BOOLEAN
        /\ alwaysOn' \in BOOLEAN /\ seen' = seen /\ reaper' = reaper
    BY <1>3 DEF StopOld, Remove, Unwedge, CdpStop, Stopped, ContainerTypes, ContainerTypeOK
  <2>6. raced' \subseteq Turns /\ wronged' \subseteq Turns
    BY <1>3, <2>1 DEF StopOld, Remove, Unwedge, CdpStop, Killed, Wronged, ContainerTypes, ContainerTypeOK
  <2>7. QED
    BY <1>s, <2>0, <2>2, <2>3, <2>4, <2>5, <2>6 DEF ContainerTypes, ContainerTypeOK
<1>4. ASSUME NEW c \in Client, Start(c) \/ Create(c) \/ CdpRemove(c) \/ PodmanTimesOut(c) PROVE ContainerTypes'
  <2>0. at[c] \in Ensuring \cup Replacing /\ Unlock(c) /\ lock[ProcessOf(c)] = c
    BY <1>4 DEF Start, Create, CdpRemove, PodmanTimesOut, Ensuring, Replacing, ContainerTypes, OneUnderLock
  <2>1. \A d \in Client : d # c /\ at[d] \in Ensuring \cup Replacing => ProcessOf(d) # ProcessOf(c)
    BY <2>0, OneAtIt DEF ContainerTypes
  <2>2. /\ at'[c] \in {"idle", "ready", "want"}
        /\ \A d \in Client \ {c} : at'[d] = at[d] \/ (at[d] = "inside" /\ at'[d] = "idle")
        /\ at' \in [Client -> {"idle", "want", "ready", "inside"} \cup Ensuring \cup Replacing]
    BY <1>4 DEF Start, Create, CdpRemove, PodmanTimesOut, Goto, Ready, Killed, Inside, ContainerTypes, ContainerTypeOK
  <2>3. /\ lock' \in [Process -> Client \cup {Nobody}] /\ OneUnderLock'
        /\ \A p \in Process : lock'[p] # Nobody =>
             ProcessOf(lock'[p]) = p /\ at'[lock'[p]] \in Ensuring \cup Replacing
    BY <1>0, <2>0, <2>1, <2>2 DEF Unlock, ContainerTypes, ContainerTypeOK, OneUnderLock, Ensuring, Replacing
  <2>4. MeddledEnsure' /\ meddled' \subseteq Client
    <3>1. CASE Meddle(c)
      BY <3>1 DEF Meddle, MeddledEnsure
    <3>2. CASE meddled' = meddled \ {c}
      BY <2>2, <3>2 DEF ContainerTypes, ContainerTypeOK, MeddledEnsure, Ensuring
    <3>3. QED BY <1>4, <3>1, <3>2 DEF Start, Create, CdpRemove, PodmanTimesOut
  <2>5. /\ pod' \in {"none", "running", "exited", "stopping"} /\ outdated' \in BOOLEAN
        /\ mem' \in Memory /\ tier' \in Memory /\ published' \in BOOLEAN /\ services' \in BOOLEAN
        /\ alwaysOn' \in BOOLEAN /\ seen' = seen /\ reaper' = reaper
    BY <1>4 DEF Start, Create, CdpRemove, PodmanTimesOut, StartServices, Wanted, Memory, container, ContainerTypes, ContainerTypeOK
  <2>6. raced' \subseteq Turns /\ wronged' \subseteq Turns
    BY <1>4 DEF Start, Create, CdpRemove, PodmanTimesOut, Killed, Wronged, ContainerTypes, ContainerTypeOK
  <2>7. QED
    BY <1>s, <2>2, <2>3, <2>4, <2>5, <2>6 DEF ContainerTypes, ContainerTypeOK
<1>5. ASSUME NEW c \in Client, Cdp(c) \/ CdpBlind(c) PROVE ContainerTypes'
  <2>1. /\ c \in Handoffs /\ at[c] = "ready" /\ ProcessOf(c) = "daemon" /\ "daemon" \in Process
        /\ UNCHANGED <<container, tier, alwaysOn, seen, reaper, meddled, raced, wronged>>
    BY <1>0, <1>5 DEF Cdp, CdpBlind, Process, history
  <2>2. CASE at' = [at EXCEPT ![c] = "idle"] /\ lock' = lock
    BY <1>0, <1>s, <2>1, <2>2 DEF ContainerTypes, ContainerTypeOK, OneUnderLock, MeddledEnsure, container, Ensuring, Replacing
  <2>3. CASE at' = [at EXCEPT ![c] = "cdpstop"] /\ lock["daemon"] = Nobody /\ lock' = [lock EXCEPT !["daemon"] = c]
    BY <1>0, <1>s, <2>1, <2>3 DEF ContainerTypes, ContainerTypeOK, OneUnderLock, MeddledEnsure, container, Ensuring, Replacing
  <2>4. QED BY <1>5, <2>2, <2>3 DEF Cdp, CdpBlind, Goto
<1>6. ASSUME NEW c \in Client, Exec(c) \/ End(c) \/ KeepServices(c) PROVE ContainerTypes'
  <2>1. PICK s \in {"idle", "want", "inside"} : /\ at[c] \in {"ready", "inside", "idle"}
                                                /\ (at' = [at EXCEPT ![c] = s] \/ at' = at)
    BY <1>6 DEF Exec, End, KeepServices, Goto
  <2>2. /\ services' \in BOOLEAN /\ raced' \subseteq Turns
        /\ UNCHANGED <<pod, outdated, mem, published, tier, alwaysOn, lock, seen, reaper, meddled, wronged>>
    BY <1>6 DEF Exec, End, KeepServices, container, history, ContainerTypes, ContainerTypeOK
  <2>3. QED
    BY <1>0, <1>s, <2>1, <2>2 DEF ContainerTypes, ContainerTypeOK, OneUnderLock, MeddledEnsure, Ensuring, Replacing
<1>7. CASE ReapStop
  <2>1. /\ \A d \in Client : at'[d] = at[d] \/ (at[d] = "inside" /\ at'[d] = "idle")
        /\ at' \in [Client -> {"idle", "want", "ready", "inside"} \cup Ensuring \cup Replacing]
    BY <1>0, <1>7 DEF ReapStop, Killed, Inside, ContainerTypes, ContainerTypeOK
  <2>2. MeddledEnsure' /\ meddled' \subseteq Client
    <3>1. CASE Meddle(Nobody)
      BY <3>1 DEF Meddle, MeddledEnsure
    <3>2. CASE meddled' = meddled
      BY <2>1, <3>2 DEF ContainerTypes, ContainerTypeOK, MeddledEnsure, Ensuring
    <3>3. QED BY <1>7, <3>1, <3>2 DEF ReapStop
  <2>3. /\ pod' \in {"none", "running", "exited", "stopping"} /\ services' \in BOOLEAN
        /\ raced' \subseteq Turns /\ reaper' = "check"
    BY <1>7 DEF ReapStop, Killed, Stopped, ContainerTypes, ContainerTypeOK
  <2>4. lock' = lock /\ OneUnderLock' /\ \A p \in Process : lock'[p] # Nobody =>
             ProcessOf(lock'[p]) = p /\ at'[lock'[p]] \in Ensuring \cup Replacing
    BY <1>7, <2>1 DEF ReapStop, ContainerTypes, ContainerTypeOK, OneUnderLock, Ensuring, Replacing
  <2>5. QED
    BY <1>s, <1>7, <2>1, <2>2, <2>3, <2>4 DEF ReapStop, ContainerTypes, ContainerTypeOK
<1>8. CASE ReapUnwedge
  <2>1. MeddledEnsure' /\ meddled' \subseteq Client
    <3>1. CASE Meddle(Nobody)
      BY <3>1 DEF Meddle, MeddledEnsure
    <3>2. CASE meddled' = meddled
      BY <1>8, <3>2 DEF ReapUnwedge, ContainerTypes, ContainerTypeOK, MeddledEnsure
    <3>3. QED BY <1>8, <3>1, <3>2 DEF ReapUnwedge
  <2>2. QED
    BY <1>s, <1>8, <2>1 DEF ReapUnwedge, ContainerTypes, ContainerTypeOK, OneUnderLock
<1>9. CASE ReapLook \/ TierChanges \/ UNCHANGED containerVars
  BY <1>s, <1>9 DEF ReapLook, TierChanges, containerVars, container, history, ContainerTypes, ContainerTypeOK, OneUnderLock, MeddledEnsure
<1>10. ASSUME NEW c \in Client, JudgeBlind(c) \/ CommandFails(c) PROVE ContainerTypes'
  <2>1. PICK s \in Ensuring \cup Replacing : at[c] \in Ensuring \cup Replacing /\ at' = [at EXCEPT ![c] = s]
                                            /\ (at[c] \in Ensuring => s \in Ensuring)
    BY <1>10 DEF JudgeBlind, CommandFails, AfterFailure, Goto, Ensuring, Replacing
  <2>2. /\ seen' \in [Client -> {"none", "running", "exited", "stopping"}]
        /\ UNCHANGED <<container, tier, alwaysOn, lock, reaper, meddled, raced, wronged>>
    BY <1>10 DEF JudgeBlind, CommandFails, ContainerTypes, ContainerTypeOK
  <2>3. at' \in [Client -> {"idle", "want", "ready", "inside"} \cup Ensuring \cup Replacing]
    BY <2>1 DEF ContainerTypes, ContainerTypeOK
  <2>4. \A d \in Client : at[d] \in Ensuring \cup Replacing <=> at'[d] \in Ensuring \cup Replacing
    BY <2>1 DEF ContainerTypes, ContainerTypeOK
  <2>5. /\ OneUnderLock'
        /\ \A p \in Process : lock'[p] # Nobody =>
             ProcessOf(lock'[p]) = p /\ at'[lock'[p]] \in Ensuring \cup Replacing
    BY <2>2, <2>4 DEF ContainerTypes, ContainerTypeOK, OneUnderLock
  <2>6. MeddledEnsure'
    BY <2>1, <2>2 DEF ContainerTypes, ContainerTypeOK, MeddledEnsure
  <2>7. QED
    BY <1>s, <2>2, <2>3, <2>5, <2>6 DEF ContainerTypes, ContainerTypeOK, container
<1>11. QED
  BY <1>1, <1>2, <1>3, <1>4, <1>5, <1>6, <1>7, <1>8, <1>9, <1>10
  DEF ContainerNext, Ensure, Failing, Reap

\* When a client under its lock changes the container, all others in ensure_running
\* are meddled with, and who replaces it for its port is not counted among those.
LEMMA OthersMeddled ==
  ASSUME ContainerTypes, NEW c \in Client, at[c] \in Ensuring \cup Replacing, Meddle(c),
         NEW d \in Client, d # c, at'[d] = at[d], at[d] \in Ensuring
  PROVE  d \in meddled'
<1>1. ProcessOf(d) # ProcessOf(c)
  BY OneAtIt DEF ContainerTypes
<1>2. QED BY <1>1 DEF Meddle

\* Whom it serves.
Serves == InsideRuns /\ LookStands /\ ReplacersLooked /\ EnsureSucceeds /\ TurnsSpared

\* A command of ensure_running or ensure_cdp that ends what runs in the container.
LEMMA ServesAtKill ==
  ASSUME ContainerTypes, Serves, NEW c \in Client,
         StopOld(c) \/ Remove(c) \/ Unwedge(c) \/ CdpStop(c) \/ CdpRemove(c)
  PROVE  Serves'
<1>1. at[c] \in {"stop", "remove", "unwedge"} \cup Replacing /\ Meddle(c) /\ \E s : Killed(c, s)
  BY DEF StopOld, Remove, Unwedge, CdpStop, CdpRemove, Replacing
<1>2. \A d \in Client : d # c => at'[d] = at[d] \/ at'[d] = "idle"
  BY <1>1 DEF Killed
<1>3. at'[c] \in {"remove", "create", "start", "cdpremove", "want"}
      /\ (at'[c] = "create" => pod' = "none") /\ (at'[c] = "start" => pod' = "exited")
  <2>1. CASE Unwedge(c)
    <3>1. pod' \in {"none", "exited"} /\ at'[c] = Then(c, pod')
      BY <1>1, <2>1 DEF Unwedge, Killed, Inside, ContainerTypes, ContainerTypeOK
    <3>2. Then(c, pod') # "unwedge"
      BY <3>1 DEF Then, Ready
    <3>3. QED BY <3>1, <3>2, ThenTypes
  <2>2. QED
    BY <1>1, <2>1 DEF StopOld, Remove, CdpStop, CdpRemove, Killed, Inside, Replacing
<1>4. Inside' = {}
  <2>1. ASSUME NEW d \in Client PROVE at'[d] # "inside"
    BY <1>1, <1>3 DEF Killed, Inside
  <2>2. QED BY <2>1 DEF Inside
<1>5. \A d \in Client : d # c /\ at'[d] \in Ensuring => d \in meddled'
  BY <1>1, <1>2, OthersMeddled DEF Ensuring
<1>6. InsideRuns' /\ ReplacersLooked'
  BY <1>4 DEF InsideRuns, ReplacersLooked
<1>7. LookStands' /\ EnsureSucceeds'
  <2>1. ASSUME NEW d \in Client \ meddled' PROVE d = c \/ at'[d] \notin Ensuring
    BY <1>5, <2>1
  <2>2. QED BY <1>3, <2>1 DEF LookStands, EnsureSucceeds, Ensuring
<1>8. TurnsSpared'
  <2>1. CASE Unwedge(c)
    BY <2>1 DEF Unwedge, Serves, TurnsSpared
  <2>2. CASE Wronged(c) /\ at[c] \in {"stop", "remove"} \cup Replacing
    BY <2>2 DEF Wronged, Serves, TurnsSpared, ReplacersLooked
  <2>3. QED BY <2>1, <2>2 DEF StopOld, Remove, CdpStop, CdpRemove, Replacing
<1>9. QED BY <1>6, <1>7, <1>8 DEF Serves

\* The container is up again, or the command failed.
LEMMA ServesAtStart ==
  ASSUME ContainerTypes, Serves, NEW c \in Client, Start(c) \/ Create(c)
  PROVE  Serves'
<1>1. /\ at[c] \in {"start", "create"} /\ at'[c] \in {"idle", "ready"}
      /\ \A d \in Client : d # c => at'[d] = at[d]
      /\ UNCHANGED <<seen, raced, wronged>> /\ Settle(c)
  BY DEF Start, Create, Goto, Ready, ContainerTypes, ContainerTypeOK
<1>2. Inside' = Inside
  BY <1>1 DEF Inside
<1>3. CASE pod' = "running" /\ Meddle(c)
  <2>1. \A d \in Client : d # c /\ at[d] \in Ensuring => d \in meddled'
    BY <1>1, <1>3, OthersMeddled DEF Ensuring
  <2>2. ReplacersLooked'
    <3> SUFFICES ASSUME NEW d \in Client, at'[d] \in {"stop", "remove"} \cup Replacing, d \notin meddled' \cup blind'
                 PROVE  Inside \cap Turns \subseteq raced
      BY <1>1, <1>2 DEF ReplacersLooked
    <3>1. d # c /\ at[d] \in Replacing
      BY <1>1, <2>1 DEF Ensuring, Replacing
    <3>2. d \notin meddled \cup blind
      BY <1>1, <3>1 DEF ContainerTypes, MeddledEnsure, Settle, Ensuring, Replacing
    <3>3. QED BY <3>1, <3>2 DEF Serves, ReplacersLooked
  <2>3. QED
    BY <1>1, <1>3, <2>1, <2>2 DEF Serves, InsideRuns, LookStands, EnsureSucceeds, TurnsSpared, Ensuring, Settle
<1>4. CASE pod' = pod /\ meddled' = meddled \ {c}
  BY <1>1, <1>2, <1>4 DEF Serves, InsideRuns, LookStands, ReplacersLooked, EnsureSucceeds, TurnsSpared, Replacing, Settle
<1>5. QED BY <1>3, <1>4 DEF Start, Create, container

\* What was seen decides, and is how it is if nobody meddled.
LEMMA ServesAtJudge ==
  ASSUME ContainerTypes, Serves, NEW c \in Client, Judge(c)
  PROVE  Serves'
<1>1. /\ at[c] = "judge" /\ \A d \in Client : d # c => at'[d] = at[d] /\ seen'[d] = seen[d]
      /\ UNCHANGED <<pod, raced, wronged>>
      /\ \A d \in Client : d # c => (d \in meddled' <=> d \in meddled)
      /\ at'[c] \in Ensuring => meddled' = meddled
      /\ at'[c] = IF Replace(c) THEN "stop" ELSE Then(c, seen[c])
  BY DEF Judge, Goto, container, ContainerTypes, ContainerTypeOK
<1>2. seen[c] \in {"none", "running", "exited", "stopping"}
  BY DEF ContainerTypes, ContainerTypeOK
<1>3. c \notin meddled => seen[c] = pod \/ (c \in failed /\ seen[c] = "none")
  BY <1>1 DEF Serves, LookStands
<1>a. /\ \A d \in Client : d # c => (d \in failed' <=> d \in failed) /\ (d \in blind' <=> d \in blind)
      /\ at'[c] \in Ensuring => failed' = failed /\ blind' = blind
  <2>1. CASE UNCHANGED slips
    BY <2>1 DEF slips
  <2>2. CASE Settle(c) /\ ~Replace(c) /\ seen[c] = "running"
    <3>1. at'[c] \notin Ensuring
      BY <1>1, <1>2, <2>2, ThenTypes DEF Ensuring
    <3>2. QED BY <2>2, <3>1 DEF Settle
  <2>3. QED BY <2>1, <2>2 DEF Judge
<1>4. at'[c] \in {"idle", "ready", "stop", "unwedge", "remove", "start", "create"}
  BY <1>1, <1>2, ThenTypes
<1>5. Inside' = Inside
  BY <1>1, <1>4 DEF Inside
<1>6. at'[c] \in {"stop", "remove"} /\ c \notin meddled => Inside \cap Turns = {}
  <2>1. CASE Replace(c) /\ seen[c] = "running"
    BY <2>1 DEF Replace, TurnInside, Inside
  <2>2. CASE seen[c] # "running"
    <3>1. seen[c] # "none" \/ at'[c] \notin {"stop", "remove"}
      BY <1>1, ThenTypes DEF Replace
    <3>2. QED BY <1>3, <2>2, <3>1 DEF Serves, InsideRuns
  <2>3. CASE ~Replace(c) /\ seen[c] = "running"
    BY <1>1, <1>2, <2>3, ThenTypes
  <2>4. QED BY <2>1, <2>2, <2>3
<1>7. /\ at'[c] = "start" /\ c \notin meddled \cup failed => pod = "exited"
      /\ at'[c] = "create" /\ c \notin meddled \cup failed => pod = "none"
      /\ at'[c] = "unwedge" /\ c \notin meddled => pod = "stopping"
  <2>1. at'[c] = "unwedge" => seen[c] = "stopping"
    BY <1>1, <1>2 DEF Then, Ready
  <2>2. QED BY <1>1, <1>2, <1>3, <2>1, ThenTypes
<1>8. InsideRuns' /\ TurnsSpared'
  BY <1>1, <1>4, <1>5 DEF Serves, InsideRuns, TurnsSpared
<1>9. LookStands'
  <2> SUFFICES ASSUME NEW d \in Client \ meddled'
               PROVE  /\ at'[d] = "judge" => seen'[d] = pod' \/ (d \in failed' /\ seen'[d] = "none")
                      /\ at'[d] = "unwedge" => pod' = "stopping"
    BY DEF LookStands
  <2>1. CASE d = c
    BY <1>1, <1>4, <1>7, <2>1 DEF Ensuring
  <2>2. CASE d # c
    BY <1>1, <1>a, <2>2 DEF Serves, LookStands
  <2>3. QED BY <2>1, <2>2
<1>10. ReplacersLooked'
  <2> SUFFICES ASSUME NEW d \in Client, at'[d] \in {"stop", "remove"} \cup Replacing, d \notin meddled' \cup blind'
               PROVE  Inside \cap Turns \subseteq raced
    BY <1>1, <1>5 DEF ReplacersLooked
  <2>1. CASE d = c
    BY <1>1, <1>4, <1>6, <2>1 DEF Ensuring, Replacing
  <2>2. CASE d # c
    BY <1>1, <1>a, <2>2 DEF Serves, ReplacersLooked
  <2>3. QED BY <2>1, <2>2
<1>11. EnsureSucceeds'
  <2> SUFFICES ASSUME NEW d \in Client, at'[d] \in {"start", "create"}, d \notin meddled' \cup failed'
               PROVE  pod' = IF at'[d] = "start" THEN "exited" ELSE "none"
    BY DEF EnsureSucceeds
  <2>1. CASE d = c
    BY <1>1, <1>a, <1>7, <2>1 DEF Ensuring
  <2>2. CASE d # c
    BY <1>1, <1>a, <2>2 DEF Serves, EnsureSucceeds
  <2>3. QED BY <2>1, <2>2
<1>12. QED BY <1>8, <1>9, <1>10, <1>11 DEF Serves

\* Every step leaves them served.
LEMMA ServesStep ==
  ASSUME ContainerTypes, Serves, [ContainerNext]_containerVars
  PROVE  Serves'
<1> USE DEF Serves, InsideRuns, LookStands, ReplacersLooked, EnsureSucceeds, TurnsSpared
<1>0. at \in [Client -> {"idle", "want", "ready", "inside"} \cup Ensuring \cup Replacing]
  BY DEF ContainerTypes, ContainerTypeOK
<1>1. ASSUME NEW c \in Client, Look(c) PROVE Serves'
  <2>1. Inside' = Inside
    BY <1>0, <1>1 DEF Look, Goto, Inside
  <2>2. /\ at'[c] = "judge" /\ \A d \in Client : d # c => at'[d] = at[d] /\ seen'[d] = seen[d]
        /\ meddled' = meddled \ {c} /\ UNCHANGED <<pod, raced, wronged>>
    BY <1>0, <1>1 DEF Look, Goto, container, ContainerTypes, ContainerTypeOK
  <2>3. /\ blind' = blind /\ \A d \in Client : d # c => (d \in failed' <=> d \in failed)
        /\ seen'[c] = pod \/ (c \in failed' /\ seen'[c] = "none")
    BY <1>1 DEF Look, Works, slips, FailsFor, ContainerTypes, ContainerTypeOK
  <2>4. QED BY <2>1, <2>2, <2>3 DEF Replacing
<1>2. ASSUME NEW c \in Client, Cdp(c) PROVE Serves'
  <2>1. at'[c] \in {"idle", "cdpstop"} /\ (at'[c] = "cdpstop" => ~TurnInside) /\ at[c] = "ready"
        /\ (\A d \in Client : d # c => at'[d] = at[d])
        /\ UNCHANGED <<pod, seen, meddled, failed, blind, raced, wronged>>
    BY <1>0, <1>2 DEF Cdp, Goto, container, history, slips
  <2>2. Inside' = Inside /\ (at'[c] = "cdpstop" => Inside \cap Turns = {})
    BY <2>1 DEF Inside, TurnInside
  <2>3. QED BY <2>1, <2>2 DEF Replacing
<1>3. ASSUME NEW c \in Client, Exec(c) PROVE Serves'
  <2>1. at[c] = "ready" /\ at'[c] \in {"inside", "idle"} /\ (at'[c] = "inside" => pod = "running")
        /\ (\A d \in Client : d # c => at'[d] = at[d])
        /\ UNCHANGED <<pod, seen, meddled, failed, blind, wronged>>
    BY <1>0, <1>3 DEF Exec, Goto, container, slips
  <2>2. /\ Inside' \subseteq Inside \cup {c} /\ raced \subseteq raced'
        /\ at'[c] = "idle" => Inside' \subseteq Inside
    BY <1>3, <2>1 DEF Exec, Inside
  <2>a. InsideRuns'
    BY <2>1, <2>2
  <2>b. LookStands' /\ EnsureSucceeds' /\ TurnsSpared'
    BY <2>1
  <2>3. InsideRuns' /\ LookStands' /\ EnsureSucceeds' /\ TurnsSpared'
    BY <2>a, <2>b
  <2>4. ReplacersLooked'
    <3> SUFFICES ASSUME NEW d \in Client, at'[d] \in {"stop", "remove"} \cup Replacing, d \notin meddled' \cup blind'
                 PROVE  Inside' \cap Turns \subseteq raced'
      OBVIOUS
    <3>1. d # c /\ at[d] \in {"stop", "remove"} \cup Replacing
      BY <2>1 DEF Replacing
    <3>2. Inside \cap Turns \subseteq raced
      BY <2>1, <3>1
    <3>3. c \in Turns => c \in raced'
      BY <1>3, <3>1 DEF Exec
    <3>4. QED BY <2>2, <3>2, <3>3
  <2>5. QED BY <2>3, <2>4
<1>4. ASSUME NEW c \in Client, End(c) \/ KeepServices(c) \/ PodmanTimesOut(c) PROVE Serves'
  <2>1. at'[c] \in {"idle", "want"}
        /\ (\A d \in Client : d # c => at'[d] = at[d])
        /\ raced' \in {raced, raced \ {c}} /\ meddled' \in {meddled, meddled \ {c}}
        /\ UNCHANGED <<pod, seen, wronged>>
    BY <1>0, <1>4 DEF End, KeepServices, PodmanTimesOut, Goto, container, history
  <2>2. Inside' = Inside \ {c}
    BY <2>1 DEF Inside
  <2>3. \A d \in Client : d # c => (d \in failed' <=> d \in failed) /\ (d \in blind' <=> d \in blind)
    BY <1>4 DEF End, KeepServices, PodmanTimesOut, Settle, slips, history
  <2>4. QED BY <2>1, <2>2, <2>3 DEF Replacing, Ensuring
<1>5. CASE ReapStop
  <2>1. \A d \in Client : at'[d] = at[d] \/ at'[d] = "idle"
    BY <1>5 DEF ReapStop, Killed
  <2>2. Inside' = {}
    <3>1. Nobody \notin Client
      BY ContainerAssumption
    <3>2. ASSUME NEW d \in Client PROVE at'[d] # "inside"
      BY <1>5, <3>1 DEF ReapStop, Killed, Inside
    <3>3. QED BY <3>2 DEF Inside
  <2>3. UNCHANGED <<seen, wronged, failed, blind>>
    BY <1>5 DEF ReapStop, slips
  <2>4. CASE Meddle(Nobody)
    <3>1. \A d \in Client : at'[d] \in Ensuring => d \in meddled'
      BY <2>4 DEF Meddle
    <3>2. QED BY <2>2, <2>3, <3>1 DEF Ensuring
  <2>5. CASE pod' = pod /\ meddled' = meddled
    BY <2>1, <2>2, <2>3, <2>5
  <2>6. QED BY <1>5, <2>4, <2>5 DEF ReapStop, Stopped
<1>6. CASE ReapUnwedge
  <2>1. UNCHANGED <<at, seen, raced, wronged, failed, blind>> /\ Inside' = Inside
    BY <1>6 DEF ReapUnwedge, Inside, slips
  <2>2. CASE pod = "stopping" /\ Meddle(Nobody)
    <3>1. \A d \in Client : at'[d] \in Ensuring => d \in meddled'
      BY <2>2 DEF Meddle
    <3>2. Inside' = {}
      BY <2>1, <2>2
    <3>3. QED BY <2>1, <3>1, <3>2 DEF Ensuring
  <2>3. CASE pod' = pod /\ meddled' = meddled
    BY <2>1, <2>3
  <2>4. QED BY <1>6, <2>2, <2>3 DEF ReapUnwedge
<1>7. CASE ReapLook \/ TierChanges \/ UNCHANGED containerVars
  <2>1. UNCHANGED <<pod, at, seen, meddled, failed, blind, raced, wronged>> /\ Inside' = Inside
    BY <1>7 DEF ReapLook, TierChanges, containerVars, container, history, slips, Inside
  <2>2. QED BY <2>1
<1>8. ASSUME NEW c \in Client, Ensure(c) PROVE Serves'
  BY <1>1, <1>2, <1>8, ServesAtKill, ServesAtStart, ServesAtJudge DEF Ensure
<1>9. ASSUME NEW c \in Client, JudgeBlind(c) \/ CdpBlind(c) PROVE Serves'
  <2>1. /\ at'[c] \in {"stop", "cdpstop"} /\ at[c] \in {"judge", "ready"}
        /\ \A d \in Client : d # c => at'[d] = at[d] /\ seen'[d] = seen[d]
        /\ UNCHANGED <<pod, meddled, failed, raced, wronged>> /\ blind' = blind \cup {c}
    BY <1>0, <1>9 DEF JudgeBlind, CdpBlind, Blinds, Goto, container, ContainerTypes, ContainerTypeOK
  <2>2. Inside' = Inside
    BY <2>1 DEF Inside
  <2>3. QED BY <2>1, <2>2
<1>10. ASSUME NEW c \in Client, CommandFails(c) PROVE Serves'
  <2>1. /\ at[c] \in {"stop", "remove", "unwedge", "cdpstop"} /\ at'[c] = AfterFailure(c)
        /\ \A d \in Client : d # c => at'[d] = at[d]
        /\ UNCHANGED <<pod, seen, meddled, blind, raced, wronged>> /\ failed' = failed \cup {c}
    BY <1>0, <1>10 DEF CommandFails, FailsFor, Goto, container
  <2>2. /\ at'[c] \in {"remove", "cdpremove", "start", "create"}
        /\ at'[c] \in {"remove", "cdpremove"} => at[c] \in {"stop", "cdpstop", "unwedge"}
    BY <2>1 DEF AfterFailure
  <2>3. Inside' = Inside
    BY <2>1, <2>2 DEF Inside
  <2>4. ReplacersLooked'
    <3> SUFFICES ASSUME NEW d \in Client, at'[d] \in {"stop", "remove"} \cup Replacing, d \notin meddled \cup blind
                 PROVE  Inside \cap Turns \subseteq raced
      BY <2>1, <2>3
    <3>1. CASE d = c /\ at[c] = "unwedge"
      BY <3>1
    <3>2. CASE at[d] \in {"stop", "remove"} \cup Replacing
      BY <3>2
    <3>3. QED BY <2>1, <2>2, <3>1, <3>2 DEF Replacing
  <2>5. QED BY <2>1, <2>2, <2>3, <2>4 DEF Replacing
<1> HIDE DEF Serves, InsideRuns, LookStands, ReplacersLooked, EnsureSucceeds, TurnsSpared
<1>11. QED
  BY <1>3, <1>4, <1>5, <1>6, <1>7, <1>8, <1>9, <1>10 DEF ContainerNext, Reap, Failing

\* The initial states.
LEMMA ContainerInvInit == ContainerInit => ContainerInv
<1> SUFFICES ASSUME ContainerInit PROVE ContainerInv
  OBVIOUS
<1>1. ContainerTypeOK
  <2>1. \A p \in Process : lock[p] = Nobody
    BY DEF ContainerInit
  <2>2. /\ outdated \in BOOLEAN /\ published \in BOOLEAN /\ services \in BOOLEAN /\ alwaysOn \in BOOLEAN
    BY DEF ContainerInit
  <2>3. /\ lock \in [Process -> Client \cup {Nobody}] /\ seen \in [Client -> {"none", "running", "exited", "stopping"}]
        /\ at \in [Client -> {"idle", "want", "ready", "inside"} \cup Ensuring \cup Replacing]
        /\ failures \in 0..MaxFailures
    BY ContainerAssumption DEF ContainerInit
  <2>4. /\ pod \in {"none", "running", "exited", "stopping"} /\ {mem, tier} \subseteq Memory
        /\ reaper \in {"rest", "stop", "check"}
        /\ {meddled, failed, blind} \subseteq SUBSET Client /\ raced \subseteq Turns /\ wronged \subseteq Turns
    BY DEF ContainerInit
  <2>5. QED BY <2>1, <2>2, <2>3, <2>4 DEF ContainerTypeOK
<1>2. OneUnderLock /\ MeddledEnsure /\ InsideRuns /\ LookStands /\ ReplacersLooked /\ EnsureSucceeds /\ TurnsSpared
  BY DEF ContainerInit, OneUnderLock, MeddledEnsure, InsideRuns, LookStands, ReplacersLooked,
         EnsureSucceeds, TurnsSpared, Inside, Ensuring, Replacing
<1>3. QED BY <1>1, <1>2 DEF ContainerInv

\* The inductive invariant holds throughout.
THEOREM ContainerInvariant == ContainerSpec => []ContainerInv
<1>1. ContainerInv /\ [ContainerNext]_containerVars => ContainerInv'
  BY ContainerTypesStep, ServesStep DEF ContainerInv, ContainerTypes, Serves
<1>2. QED BY <1>1, ContainerInvInit, PTL DEF ContainerSpec

\* Whatever state a container is found in, ensure_running brings it up unless someone
\* without its lock comes between, and no turn dies of its replacement that was
\* there to be seen (ensure_running, ensure_cdp and reap_idle of cloud_container.py).
THEOREM ContainerIsServing == ContainerSpec => []ContainerServes
<1>1. ContainerInv => ContainerServes
  BY DEF ContainerInv, ContainerServes
<1>2. QED BY <1>1, ContainerInvariant, PTL
=============================================================================
