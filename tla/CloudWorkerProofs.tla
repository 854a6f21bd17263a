------------------------ MODULE CloudWorkerProofs --------------------------
(***************************************************************************)
(* Proofs about CloudWorker, for all messages, users, conversations and     *)
(* bounds.  The inductive invariant is in seven parts: the shape of the     *)
(* state, the queue of the pool, the lock of a conversation, what accounts  *)
(* for a message, what a first turn looks like, who waits for a process     *)
(* without the daemon, and what is left to put back.  Each part has a lemma *)
(* that every step keeps it.                                                *)
(***************************************************************************)
EXTENDS CloudWorker, FiniteSetTheorems, TLAPS

\* Once the loop is left nothing waits for a thread any more, and a daemon that
\* is down has no jobs.
Quiet ==
    /\ loop \notin {"poll", "handle"} =>
          pool = <<>> /\ \A m \in Msgs : at[m] # "submitted"
    /\ loop = "down" => \A m \in Msgs : at[m] = "idle"

\* A message with a job is in spawned, and a queued one is in the queue once.
Queue ==
    /\ \A m \in Msgs : at[m] # "idle" => m \in spawned
    /\ \A i \in 1..Len(pool) : at[pool[i]] = "submitted"
    /\ \A i, j \in 1..Len(pool) : pool[i] = pool[j] => i = j

Shape == TypeOK /\ Quiet

LockAlone ==
    \A a, b \in Msgs :
        at[a] \in LockStages /\ at[b] \in LockStages /\ KeyOf[a] = KeyOf[b] => a = b

\* A message taken in by this life of the daemon is on its way to its turn, or
\* accounted for; so a message that is marked again needs no new turn.
Settled(m) == m \in told \cup lost \/ InHand(m)
Accounts ==
    /\ NotForgotten
    /\ loop # "down" => \A m \in processedIds : Settled(m) \/ at[m] = "mark"
    /\ \A m \in Msgs : at[m] = "remark" => m \in told \cup lost

\* Until the set is cleared, a message that begins its turn is in it and has
\* had none.
FirstTurns ==
    ~wiped => \A m \in Msgs :
        /\ begun[m] <= 1
        /\ begun[m] > 0 => m \in processedIds
        /\ at[m] \in {"mark", "prepare"} => begun[m] = 0 /\ m \in processedIds

\* A process without the daemon is waited for under its lock, or the daemon that
\* left it is down.
Orphaned ==
    ~unwatched =>
        /\ loop # "down" => \A m \in orphans : at[m] = "recover"
        /\ \A a, b \in orphans : KeyOf[a] = KeyOf[b] => a = b

\* While the requeue runs no job is before its mark, and every message of a job
\* is still to come, in hand, or settled.
Requeueing ==
    loop = "requeue" =>
        /\ \A m \in Msgs : at[m] \notin Young \cup {"submitted"}
        /\ \A m \in inflight : m \in todo \cup {back} \cup lost \/ server[m] = "pending"

CloudInv ==
    Shape /\ Queue /\ LockAlone /\ Accounts /\ FirstTurns /\ Orphaned /\ Requeueing

-----------------------------------------------------------------------------
\* The bounds are natural numbers.
LEMMA Bounds == MaxFaults \in Nat /\ MaxStops \in Nat
BY CloudAssumption

\* A counted fault stays within its bound.
LEMMA FaultCounted == TypeOK /\ Fault => faults' \in 0..MaxFaults
BY Bounds DEF TypeOK, Fault

\* A stop or restart request stays within its bound.
LEMMA StopCounted == TypeOK /\ stops < MaxStops => stops + 1 \in 0..MaxStops
BY Bounds DEF TypeOK

\* The head of the queue waits for its thread, and the rest moves up.
LEMMA StartsWaiting ==
    ASSUME TypeOK, Queue, NEW m \in Msgs, Start(m)
    PROVE  /\ at[m] = "submitted" /\ pool' \in Seq(Msgs)
           /\ pool # <<>> /\ m = pool[1] /\ Len(pool') = Len(pool) - 1
           /\ \A i \in 1..Len(pool') : i + 1 \in 1..Len(pool) /\ pool'[i] = pool[i + 1]
<1>1. pool \in Seq(Msgs) /\ pool # <<>> /\ pool' = Tail(pool) /\ m = Head(pool)
  BY DEF TypeOK, Start
<1>2. Len(pool) \in Nat /\ Len(pool) > 0 /\ m = pool[1]
  BY <1>1
<1>3. /\ pool' \in Seq(Msgs) /\ Len(pool') = Len(pool) - 1
      /\ \A i \in 1..Len(pool') : pool'[i] = pool[i + 1]
  BY <1>1
<1>4. at[m] = "submitted"
  BY <1>2 DEF Queue
<1>5. QED BY <1>1, <1>2, <1>3, <1>4

\* A step that leaves the pool's queue, and those waiting in it, alone keeps its order.
LEMMA QueueStays ==
    ASSUME TypeOK, Queue, pool' = pool,
           \A o \in Msgs : at[o] = "submitted" => at'[o] = "submitted",
           \A o \in Msgs : at'[o] # "idle" => o \in spawned'
    PROVE  Queue'
<1>1. \A i \in 1..Len(pool) : pool[i] \in Msgs
  BY DEF TypeOK
<1>2. QED BY <1>1 DEF Queue

\* The shape: where a job, the loop and the pool can be.
LEMMA ShapeStep == CloudInv /\ [Next]_vars => Shape'
<1> SUFFICES ASSUME CloudInv, [Next]_vars PROVE Shape'
  OBVIOUS
<1> USE DEF CloudInv, Shape, TypeOK, Quiet, Stages, LockStages, loopVars, ids,
   jobVars, histories
<1>1. ASSUME NEW m \in Msgs, JobStep(m) PROVE Shape'
  <2>1. CASE Start(m)
    <3>1. pool' \in Seq(Msgs) /\ pool # <<>>
      BY <2>1, StartsWaiting
    <3>2. /\ Goto(m, "started")
          /\ UNCHANGED <<server, arrival, restartAsked, loopVars, shutdown, ids, orphans,
                         histories, faults, stops>>
      BY <2>1 DEF Start
    <3>3. QED BY <3>1, <3>2 DEF Goto
  <2>2. CASE TryLock(m) \/ Enter(m)
    BY <2>2, FaultCounted, StopCounted DEF TryLock, Enter, Goto
  <2>3. CASE Check(m)
    <3>1. processedIds' \subseteq Msgs /\ wiped' \in BOOLEAN /\ faults' \in 0..MaxFaults
      BY <2>3, FaultCounted DEF Check
    <3>2. \E s \in {"leave", "remark", "mark"} : Goto(m, s)
      BY <2>3 DEF Check
    <3>3. /\ at[m] = "entered"
          /\ UNCHANGED <<server, arrival, restartAsked, loopVars, shutdown, spawned,
                         inflight, pool, orphans, begun, told, lost, unwatched, stops>>
      BY <2>3 DEF Check
    <3>4. QED BY <3>1, <3>2, <3>3 DEF Goto
  <2>4. CASE Remark(m) \/ Mark(m)
    <3>1. /\ server' \in [Msgs -> {"absent", "pending", "processed"}]
          /\ faults' \in 0..MaxFaults
      BY <2>4, FaultCounted DEF Remark, Mark, MarkProcessed
    <3>2. \E s \in {"leave", "prepare"} : Goto(m, s)
      BY <2>4 DEF Remark, Mark
    <3>3. /\ at[m] \in {"remark", "mark"}
          /\ UNCHANGED <<arrival, restartAsked, loopVars, shutdown, ids, pool, orphans,
                         histories, stops>>
      BY <2>4 DEF Remark, Mark
    <3>4. QED BY <3>1, <3>2, <3>3 DEF Goto
  <2>5. CASE AnswerAtOnce(m) \/ Answer(m) \/ ReplyError(m)
    BY <2>5, FaultCounted, StopCounted DEF AnswerAtOnce, Answer, ReplyError, Goto
  <2>6. CASE SkipEmpty(m)
    BY <2>6, FaultCounted, StopCounted DEF SkipEmpty, Goto
  <2>7. CASE BeginTurn(m)
    BY <2>7, FaultCounted, StopCounted DEF BeginTurn, Goto
  <2>8. CASE TurnEnds(m) \/ ExecRace(m) \/ Recover(m) \/ LeaveRunning(m)
    BY <2>8, FaultCounted, StopCounted DEF TurnEnds, ExecRace, Recover, LeaveRunning,
       Goto
  <2>9. CASE Raise(m)
    BY <2>9, FaultCounted, StopCounted DEF Raise, Goto
  <2>10. CASE Release(m) \/ Cleanup(m)
    BY <2>10, FaultCounted, StopCounted DEF Release, Cleanup, Goto
  <2>11. CASE TurnTimesOut(m)
    BY <2>11, FaultCounted, StopCounted DEF TurnTimesOut, Goto, CutTurns, Spared
  <2>12. QED BY <1>1, <2>1, <2>2, <2>3, <2>4, <2>5, <2>6, <2>7, <2>8, <2>9, <2>10,
     <2>11 DEF JobStep
<1>2. CASE SeeShutdown
  BY <1>2, FaultCounted, StopCounted DEF SeeShutdown, StartDrain
<1>3. CASE ForceRestart
  <2>1. /\ StartDrain /\ restartAsked' \in BOOLEAN
        /\ UNCHANGED <<server, arrival, shutdown, orphans, histories, faults, stops>>
    BY <1>3 DEF ForceRestart
  <2>2. QED BY <2>1 DEF StartDrain
<1>4. CASE Poll
  BY <1>4, FaultCounted, StopCounted DEF Poll, Pending
<1>5. ASSUME NEW m \in Msgs, HandlePolled(m) PROVE Shape'
  <2>1. pool' \in Seq(Msgs)
    <3>1. CASE m \in spawned
      BY <1>5, <3>1 DEF HandlePolled
    <3>2. CASE m \notin spawned
      <4>1. pool' = Append(pool, m) /\ pool \in Seq(Msgs)
        BY <1>5, <3>2 DEF HandlePolled
      <4>2. QED BY <4>1
    <3>3. QED BY <3>1, <3>2
  <2>2. /\ spawned' \subseteq Msgs /\ polled' \subseteq Msgs
        /\ loop' \in {"poll", "handle"}
        /\ at' = at \/ Goto(m, "submitted")
    BY <1>5 DEF HandlePolled, Goto
  <2>3. UNCHANGED <<server, arrival, restartAsked, todo, back, shutdown, inflight,
                   processedIds, orphans, histories, faults, stops>>
    BY <1>5 DEF HandlePolled
  <2>4. QED BY ZenonT(40), <2>1, <2>2, <2>3 DEF Goto
<1>6. CASE Drained \/ DrainEnds \/ Requeued \/ Exit
  BY <1>6, FaultCounted, StopCounted DEF Drained, DrainEnds, Requeued, Exit
<1>7. CASE AskRestart \/ Signal
  BY <1>7, FaultCounted, StopCounted DEF AskRestart, Signal
<1>8. ASSUME NEW m \in Msgs, RequeueKill(m) PROVE Shape'
  BY <1>8, FaultCounted, StopCounted DEF RequeueKill, CutTurns, Spared
<1>9. CASE RequeueUnmark
  BY <1>9, FaultCounted, StopCounted DEF RequeueUnmark
<1>10. CASE Restart
  BY <1>10, FaultCounted, StopCounted DEF Restart, ReapOrphanTurns
<1>11. ASSUME NEW m \in Msgs, Arrive(m) PROVE Shape'
  <2>1. Cardinality({o \in Msgs : arrival[o] > 0}) \in Nat
    BY CloudAssumption, FS_Subset, FS_CardinalityType
  <2>2. arrival' \in [Msgs -> Nat]
    BY <1>11, <2>1 DEF Arrive
  <2>3. /\ server' \in [Msgs -> {"absent", "pending", "processed"}]
        /\ UNCHANGED <<restartAsked, loopVars, shutdown, jobVars, orphans, histories,
                       faults, stops>>
    BY <1>11 DEF Arrive
  <2>4. QED BY <2>2, <2>3
<1>12. ASSUME NEW m \in Msgs, OrphanEnds(m) PROVE Shape'
  BY <1>12, FaultCounted, StopCounted DEF OrphanEnds
<1>13. CASE Crash
  <2>1. /\ loop' = "down" /\ polled' = {} /\ todo' = {} /\ back' = NoMsg /\ pool' = <<>>
        /\ at' = [o \in Msgs |-> "idle"]
        /\ UNCHANGED <<server, arrival, restartAsked, shutdown, ids, begun, told, wiped,
                       unwatched, stops>>
    BY <1>13 DEF Crash
  <2>2. /\ orphans' \subseteq Msgs /\ lost' \subseteq Msgs /\ faults' \in 0..MaxFaults
    BY <1>13, FaultCounted DEF Crash, Turning
  <2>3. QED BY <2>1, <2>2
<1>14. CASE UNCHANGED vars
  BY <1>14 DEF vars
<1>15. QED BY <1>1, <1>2, <1>3, <1>4, <1>5, <1>6, <1>7, <1>8, <1>9, <1>10, <1>11,
   <1>12, <1>13, <1>14 DEF Next, Main

\* The queue: a message joins it when it has no job, and leaves it once.
LEMMA QueueStep == CloudInv /\ [Next]_vars => Queue'
<1> SUFFICES ASSUME CloudInv, [Next]_vars PROVE Queue'
  OBVIOUS
<1> USE DEF CloudInv, Shape, TypeOK, Queue, Stages, LockStages, loopVars, ids,
   jobVars, histories
<1>1. ASSUME NEW m \in Msgs, JobStep(m) PROVE Queue'
  <2>1. CASE Start(m)
    <3>1. /\ at[m] = "submitted" /\ pool' \in Seq(Msgs) /\ pool # <<>> /\ m = pool[1]
          /\ Len(pool') = Len(pool) - 1
          /\ \A i \in 1..Len(pool') : i + 1 \in 1..Len(pool) /\ pool'[i] = pool[i + 1]
      BY <2>1, StartsWaiting
    <3>2. Goto(m, "started") /\ spawned' = spawned
      BY <2>1 DEF Start
    <3>3. \A k \in 1..Len(pool) : pool[k] \in Msgs /\ (k # 1 => pool[k] # pool[1])
      <4>1. 1 \in 1..Len(pool)
        BY <3>1
      <4>2. QED BY <4>1
    <3>4. \A i \in 1..Len(pool') :
              /\ i + 1 \in 1..Len(pool) /\ i + 1 # 1
              /\ pool'[i] = pool[i + 1] /\ pool'[i] \in Msgs \ {m}
      <4>1. ASSUME NEW i \in 1..Len(pool')
            PROVE  i + 1 \in 1..Len(pool) /\ i + 1 # 1 /\ pool'[i] = pool[i + 1]
        BY SMTT(30), <3>1
      <4>2. ASSUME NEW i \in 1..Len(pool') PROVE pool'[i] \in Msgs \ {m}
        <5>1. pool[i + 1] \in Msgs /\ pool[i + 1] # pool[1]
          BY <4>1, <3>3
        <5>2. QED BY <4>1, <5>1, <3>1
      <4>3. QED BY <4>1, <4>2
    <3>5. \A o \in Msgs \ {m} : at'[o] = at[o]
      BY <3>2 DEF Goto
    <3>6. \A i \in 1..Len(pool') : at'[pool'[i]] = "submitted"
      <4>1. ASSUME NEW i \in 1..Len(pool') PROVE at'[pool'[i]] = "submitted"
        <5>1. at[pool[i + 1]] = "submitted"
          BY <3>4
        <5>2. at[pool'[i]] = "submitted"
          BY <3>4, <5>1
        <5>3. QED BY <3>4, <3>5, <5>2
      <4>2. QED BY <4>1
    <3>7. \A i, k \in 1..Len(pool') : pool'[i] = pool'[k] => i = k
      <4>1. ASSUME NEW i \in 1..Len(pool'), NEW k \in 1..Len(pool'), pool'[i] = pool'[k]
            PROVE  i = k
        <5>1. pool[i + 1] = pool[k + 1] /\ i + 1 \in 1..Len(pool) /\ k + 1 \in 1..Len(pool)
          BY <3>1, <4>1
        <5>2. i + 1 = k + 1
          BY <5>1
        <5>3. QED BY <5>2
      <4>2. QED BY <4>1
    <3>8. \A o \in Msgs : at'[o] # "idle" => o \in spawned'
      BY <3>1, <3>2, <3>5
    <3>9. QED BY <3>6, <3>7, <3>8
  <2>2. CASE TryLock(m) \/ Cleanup(m)
    <3>1. /\ at[m] \notin {"idle", "submitted"} /\ pool' = pool
          /\ \/ at'[m] = "locked" /\ spawned' = spawned
             \/ at'[m] = "idle" /\ spawned' = spawned \ {m}
          /\ \A o \in Msgs \ {m} : at'[o] = at[o]
      BY <2>2 DEF TryLock, Cleanup, Goto
    <3>2. QED BY <3>1, QueueStays
  <2>3. CASE Enter(m) \/ Check(m) \/ Remark(m) \/ Mark(m) \/ AnswerAtOnce(m) \/ SkipEmpty(m)
          \/ BeginTurn(m) \/ TurnEnds(m) \/ ExecRace(m) \/ Recover(m) \/ LeaveRunning(m)
          \/ Answer(m) \/ Raise(m) \/ ReplyError(m) \/ Release(m)
    <3>1. /\ at[m] \notin {"idle", "submitted"} /\ UNCHANGED <<pool, spawned>>
          /\ \A o \in Msgs \ {m} : at'[o] = at[o]
      BY <2>3 DEF Enter, Check, Remark, Mark, AnswerAtOnce, SkipEmpty, BeginTurn, TurnEnds, ExecRace,
         Recover, LeaveRunning, Answer, Raise, ReplyError, Release, Goto
    <3>2. QED BY <3>1, QueueStays
  <2>4. CASE TurnTimesOut(m)
    BY <2>4 DEF TurnTimesOut, Goto, CutTurns, Spared
  <2>5. QED BY <1>1, <2>1, <2>2, <2>3, <2>4 DEF JobStep
<1>2. CASE SeeShutdown \/ ForceRestart
  BY <1>2 DEF SeeShutdown, ForceRestart, StartDrain
<1>3. ASSUME NEW m \in Msgs, HandlePolled(m) PROVE Queue'
  <2>1. CASE m \in spawned
    BY <1>3, <2>1 DEF HandlePolled
  <2>2. CASE m \notin spawned
    <3>1. at[m] = "idle" /\ at' = [at EXCEPT ![m] = "submitted"] /\ m \in spawned'
          /\ spawned \subseteq spawned' /\ pool' = Append(pool, m)
      BY <1>3, <2>2 DEF HandlePolled
    <3>2. /\ Len(pool') = Len(pool) + 1 /\ pool'[Len(pool')] = m
          /\ \A i \in 1..Len(pool) : pool'[i] = pool[i] /\ pool[i] # m
      BY <3>1
    <3>3. QED BY SMTT(30), <3>1, <3>2
  <2>3. QED BY <2>1, <2>2
<1>4. CASE Poll \/ Drained \/ DrainEnds \/ RequeueUnmark \/ Requeued \/ Exit
   \/ AskRestart \/ Signal
  BY <1>4 DEF Poll, Drained, DrainEnds, RequeueUnmark, Requeued, Exit, AskRestart,
     Signal, Fault, Pending
<1>5. CASE Restart
  <2>1. pool = <<>> /\ pool' = pool /\ (\A o \in Msgs : at[o] = "idle") /\ at' = at
    BY <1>5 DEF Restart, ReapOrphanTurns, Quiet
  <2>2. QED BY <2>1
<1>6. CASE Crash
  BY <1>6 DEF Crash, Fault
<1>7. ASSUME NEW m \in Msgs, RequeueKill(m) PROVE Queue'
  BY <1>7 DEF RequeueKill, CutTurns, Spared, Fault
<1>8. ASSUME NEW m \in Msgs, Arrive(m) \/ OrphanEnds(m) PROVE Queue'
  BY <1>8 DEF Arrive, OrphanEnds
<1>9. CASE UNCHANGED vars
  BY <1>9 DEF vars
<1>10. QED BY <1>1, <1>2, <1>3, <1>4, <1>5, <1>6, <1>7, <1>8, <1>9 DEF Next, Main

\* The lock: it is tried before it is held, and no other step takes it.
LEMMA LockStep == CloudInv /\ [Next]_vars => LockAlone'
<1> SUFFICES ASSUME CloudInv, [Next]_vars PROVE LockAlone'
  OBVIOUS
<1> USE DEF CloudInv, Shape, TypeOK, LockAlone, Stages, LockStages, loopVars, ids,
   jobVars, histories
<1>1. ASSUME NEW m \in Msgs, JobStep(m) PROVE LockAlone'
  <2>1. CASE Start(m)
    <3>1. /\ Goto(m, "started") /\ at[m] = "submitted"
          /\ UNCHANGED <<inflight>>
      BY <2>1, StartsWaiting DEF Start
    <3>2. QED BY <3>1 DEF Goto
  <2>2. CASE TryLock(m)
    BY <2>2 DEF TryLock, Goto, LockHolders
  <2>3. CASE Enter(m)
    BY <2>3 DEF Enter, Goto
  <2>4. CASE Check(m)
    <3>1. at[m] = "entered" /\ \E s \in {"leave", "remark", "mark"} : Goto(m, s)
      BY <2>4 DEF Check
    <3>2. QED BY <3>1 DEF Goto
  <2>5. CASE Remark(m) \/ Mark(m) \/ AnswerAtOnce(m) \/ SkipEmpty(m) \/ BeginTurn(m)
     \/ TurnEnds(m) \/ ExecRace(m) \/ Recover(m) \/ LeaveRunning(m) \/ Answer(m)
     \/ Raise(m) \/ ReplyError(m) \/ Release(m) \/ Cleanup(m)
    BY <2>5 DEF Remark, Mark, AnswerAtOnce, SkipEmpty, BeginTurn, TurnEnds, ExecRace,
       Recover, LeaveRunning, Answer, Raise, ReplyError, Release, Cleanup, Goto,
       MarkProcessed, Fault
  <2>6. CASE TurnTimesOut(m)
    BY <2>6 DEF TurnTimesOut, Goto, CutTurns, Spared
  <2>7. QED BY <1>1, <2>1, <2>2, <2>3, <2>4, <2>5, <2>6 DEF JobStep
<1>2. CASE SeeShutdown
  BY <1>2 DEF SeeShutdown, StartDrain
<1>3. CASE ForceRestart
  BY <1>3 DEF ForceRestart, StartDrain
<1>4. ASSUME NEW m \in Msgs, HandlePolled(m) PROVE LockAlone'
  BY <1>4 DEF HandlePolled
<1>5. CASE Poll \/ Drained \/ DrainEnds \/ RequeueUnmark \/ Requeued \/ Exit
   \/ Restart \/ AskRestart \/ Signal \/ Crash
  BY <1>5 DEF Poll, Drained, DrainEnds, RequeueUnmark, Requeued, Exit, Restart, ReapOrphanTurns,
     AskRestart, Signal, Crash, Fault, Pending
<1>6. ASSUME NEW m \in Msgs, RequeueKill(m) PROVE LockAlone'
  BY <1>6 DEF RequeueKill, CutTurns, Spared, Fault
<1>7. ASSUME NEW m \in Msgs, Arrive(m) \/ OrphanEnds(m) PROVE LockAlone'
  BY <1>7 DEF Arrive, OrphanEnds
<1>8. CASE UNCHANGED vars
  BY <1>8 DEF vars
<1>9. QED BY <1>1, <1>2, <1>3, <1>4, <1>5, <1>6, <1>7, <1>8 DEF Next, Main

\* The account: a message is marked when its turn is certain, or done.
LEMMA AccountsStep == CloudInv /\ [Next]_vars => Accounts'
<1> SUFFICES ASSUME CloudInv, [Next]_vars PROVE Accounts'
  OBVIOUS
<1> USE DEF CloudInv, Shape, TypeOK, Quiet, Accounts, NotForgotten, Settled, InHand,
   Stages, LockStages, loopVars, ids, jobVars, histories
<1>1. ASSUME NEW m \in Msgs, JobStep(m) PROVE Accounts'
  <2>1. CASE Start(m)
    <3>1. /\ Goto(m, "started") /\ at[m] = "submitted"
          /\ UNCHANGED <<server, processedIds, loop, told, lost>>
      BY <2>1, StartsWaiting DEF Start
    <3>2. QED BY <3>1 DEF Goto
  <2>2. CASE TryLock(m) \/ Enter(m)
    BY <2>2 DEF TryLock, Enter, Goto
  <2>3. CASE Check(m)
    BY <2>3 DEF Check, Goto, Fault
  <2>4. CASE Remark(m) \/ Mark(m)
    BY <2>4 DEF Remark, Mark, Goto, MarkProcessed, Fault
  <2>5. CASE AnswerAtOnce(m) \/ SkipEmpty(m) \/ BeginTurn(m) \/ TurnEnds(m)
     \/ ExecRace(m) \/ Recover(m) \/ LeaveRunning(m) \/ Answer(m) \/ Raise(m)
     \/ ReplyError(m) \/ Release(m) \/ Cleanup(m)
    BY <2>5 DEF AnswerAtOnce, SkipEmpty, BeginTurn, TurnEnds, ExecRace, Recover,
       LeaveRunning, Answer, Raise, ReplyError, Release, Cleanup, Goto, Fault
  <2>6. CASE TurnTimesOut(m)
    BY <2>6 DEF TurnTimesOut, Goto, CutTurns, Spared
  <2>7. QED BY <1>1, <2>1, <2>2, <2>3, <2>4, <2>5, <2>6 DEF JobStep
<1>2. CASE SeeShutdown
  BY <1>2 DEF SeeShutdown, StartDrain
<1>3. CASE ForceRestart
  BY <1>3 DEF ForceRestart, StartDrain
<1>4. ASSUME NEW m \in Msgs, HandlePolled(m) PROVE Accounts'
  <2>1. /\ UNCHANGED <<server, processedIds, told, lost>>
        /\ at' = at \/ (at[m] = "idle" /\ Goto(m, "submitted"))
        /\ loop = "handle" /\ loop' \in {"poll", "handle"}
    BY <1>4 DEF HandlePolled, Goto, Queue
  <2>2. QED BY ZenonT(40), <2>1 DEF Goto
<1>5. CASE Poll \/ Drained \/ DrainEnds \/ Requeued \/ Exit \/ Restart \/ AskRestart
   \/ Signal
  BY <1>5 DEF Poll, Drained, DrainEnds, Requeued, Exit, Restart, ReapOrphanTurns, AskRestart, Signal,
     Fault, Pending
<1>6. CASE RequeueUnmark
  BY <1>6 DEF RequeueUnmark, Fault
<1>7. ASSUME NEW m \in Msgs, RequeueKill(m) PROVE Accounts'
  BY <1>7 DEF RequeueKill, CutTurns, Spared, Fault
<1>8. ASSUME NEW m \in Msgs, Arrive(m) \/ OrphanEnds(m) PROVE Accounts'
  BY <1>8 DEF Arrive, OrphanEnds
<1>9. CASE Crash
  BY <1>9 DEF Crash, Fault
<1>10. CASE UNCHANGED vars
  BY <1>10 DEF vars
<1>11. QED BY <1>1, <1>2, <1>3, <1>4, <1>5, <1>6, <1>7, <1>8, <1>9, <1>10 DEF Next,
   Main

\* First turns: the only way to a turn is past the set of messages taken in.
LEMMA FirstTurnsStep == CloudInv /\ [Next]_vars => FirstTurns'
<1> SUFFICES ASSUME CloudInv, [Next]_vars PROVE FirstTurns'
  OBVIOUS
<1> USE DEF CloudInv, Shape, TypeOK, Quiet, FirstTurns, Stages, LockStages, loopVars,
   ids, jobVars, histories
<1>1. ASSUME NEW m \in Msgs, JobStep(m) PROVE FirstTurns'
  <2>1. CASE Start(m)
    <3>1. /\ Goto(m, "started") /\ at[m] = "submitted"
          /\ UNCHANGED <<processedIds, begun, wiped>>
      BY <2>1, StartsWaiting DEF Start
    <3>2. QED BY <3>1 DEF Goto
  <2>2. CASE TryLock(m) \/ Enter(m)
    BY <2>2 DEF TryLock, Enter, Goto
  <2>3. CASE Check(m)
    BY <2>3 DEF Check, Goto, Fault
  <2>4. CASE BeginTurn(m)
    BY <2>4 DEF BeginTurn, Goto
  <2>5. CASE Remark(m) \/ Mark(m) \/ AnswerAtOnce(m) \/ SkipEmpty(m) \/ TurnEnds(m)
     \/ ExecRace(m) \/ Recover(m) \/ LeaveRunning(m) \/ Answer(m) \/ Raise(m)
     \/ ReplyError(m) \/ Release(m) \/ Cleanup(m)
    BY <2>5 DEF Remark, Mark, AnswerAtOnce, SkipEmpty, TurnEnds, ExecRace, Recover,
       LeaveRunning, Answer, Raise, ReplyError, Release, Cleanup, Goto, MarkProcessed,
       Fault
  <2>6. CASE TurnTimesOut(m)
    BY <2>6 DEF TurnTimesOut, Goto, CutTurns, Spared
  <2>7. QED BY <1>1, <2>1, <2>2, <2>3, <2>4, <2>5, <2>6 DEF JobStep
<1>2. CASE SeeShutdown
  BY <1>2 DEF SeeShutdown, StartDrain
<1>3. CASE ForceRestart
  BY <1>3 DEF ForceRestart, StartDrain
<1>4. ASSUME NEW m \in Msgs, HandlePolled(m) PROVE FirstTurns'
  <2>1. /\ UNCHANGED <<processedIds, begun, wiped>>
        /\ at' = at \/ (at[m] = "idle" /\ Goto(m, "submitted"))
        /\ loop = "handle" /\ loop' \in {"poll", "handle"}
    BY <1>4 DEF HandlePolled, Goto, Queue
  <2>2. QED BY <2>1 DEF Goto
<1>5. CASE Poll \/ Drained \/ DrainEnds \/ RequeueUnmark \/ Requeued \/ Exit
   \/ AskRestart \/ Signal
  BY <1>5 DEF Poll, Drained, DrainEnds, RequeueUnmark, Requeued, Exit, AskRestart,
     Signal, Fault, Pending
<1>6. CASE Restart
  BY <1>6 DEF Restart, ReapOrphanTurns, Fault
<1>7. ASSUME NEW m \in Msgs, RequeueKill(m) PROVE FirstTurns'
  BY <1>7 DEF RequeueKill, CutTurns, Spared, Fault
<1>8. ASSUME NEW m \in Msgs, Arrive(m) \/ OrphanEnds(m) PROVE FirstTurns'
  BY <1>8 DEF Arrive, OrphanEnds
<1>9. CASE Crash
  BY <1>9 DEF Crash, Fault
<1>10. CASE UNCHANGED vars
  BY <1>10 DEF vars
<1>11. QED BY <1>1, <1>2, <1>3, <1>4, <1>5, <1>6, <1>7, <1>8, <1>9, <1>10 DEF Next,
   Main

\* Processes without the daemon: cut off under a lock, or left by a crash.
LEMMA OrphanedStep == CloudInv /\ [Next]_vars => Orphaned'
<1> SUFFICES ASSUME CloudInv, [Next]_vars PROVE Orphaned'
  OBVIOUS
<1> USE DEF CloudInv, Shape, TypeOK, Quiet, Orphaned, LockAlone, Turning, Stages,
   LockStages, loopVars, ids, jobVars, histories
<1>1. ASSUME NEW m \in Msgs, JobStep(m) PROVE Orphaned'
  <2>1. CASE Start(m)
    <3>1. /\ Goto(m, "started") /\ at[m] = "submitted"
          /\ UNCHANGED <<unwatched, loop, orphans>>
      BY <2>1, StartsWaiting DEF Start
    <3>2. QED BY <3>1 DEF Goto
  <2>2. CASE TryLock(m) \/ Enter(m)
    BY <2>2 DEF TryLock, Enter, Goto
  <2>3. CASE Check(m)
    BY <2>3 DEF Check, Goto, Fault
  <2>4. CASE ExecRace(m)
    BY <2>4 DEF ExecRace, Goto, Fault
  <2>5. CASE Recover(m) \/ LeaveRunning(m) \/ Raise(m)
    BY <2>5 DEF Recover, LeaveRunning, Raise, Goto, Fault
  <2>6. CASE Remark(m) \/ Mark(m) \/ AnswerAtOnce(m) \/ SkipEmpty(m) \/ BeginTurn(m)
     \/ TurnEnds(m) \/ Answer(m) \/ ReplyError(m) \/ Release(m) \/ Cleanup(m)
    BY <2>6 DEF Remark, Mark, AnswerAtOnce, SkipEmpty, BeginTurn, TurnEnds, Answer,
       ReplyError, Release, Cleanup, Goto, MarkProcessed, Fault
  <2>7. CASE TurnTimesOut(m)
    BY <2>7 DEF TurnTimesOut, Goto, CutTurns, Spared
  <2>8. QED BY <1>1, <2>1, <2>2, <2>3, <2>4, <2>5, <2>6, <2>7 DEF JobStep
<1>2. CASE SeeShutdown \/ ForceRestart
  BY <1>2 DEF SeeShutdown, ForceRestart, StartDrain
<1>3. ASSUME NEW m \in Msgs, HandlePolled(m) PROVE Orphaned'
  <2>1. /\ UNCHANGED <<orphans, unwatched>>
        /\ at' = at \/ (at[m] = "idle" /\ Goto(m, "submitted"))
        /\ loop = "handle" /\ loop' \in {"poll", "handle"}
    BY <1>3 DEF HandlePolled, Goto, Queue
  <2>2. QED BY <2>1 DEF Goto
<1>4. CASE Poll \/ Drained \/ DrainEnds \/ RequeueUnmark \/ Requeued \/ Exit
   \/ AskRestart \/ Signal
  BY <1>4 DEF Poll, Drained, DrainEnds, RequeueUnmark, Requeued, Exit, AskRestart,
     Signal, Fault, Pending
<1>5. CASE Restart
  BY <1>5 DEF Restart, ReapOrphanTurns, Fault
<1>6. ASSUME NEW m \in Msgs, RequeueKill(m) PROVE Orphaned'
  BY <1>6 DEF RequeueKill, CutTurns, Spared, Fault
<1>7. ASSUME NEW m \in Msgs, Arrive(m) \/ OrphanEnds(m) PROVE Orphaned'
  BY <1>7 DEF Arrive, OrphanEnds
<1>8. CASE Crash
  BY <1>8 DEF Crash, Fault
<1>9. CASE UNCHANGED vars
  BY <1>9 DEF vars
<1>10. QED BY <1>1, <1>2, <1>3, <1>4, <1>5, <1>6, <1>7, <1>8, <1>9 DEF Next, Main

\* The requeue: all of its messages stay to come, in hand or settled.
LEMMA RequeueingStep == CloudInv /\ [Next]_vars => Requeueing'
<1> SUFFICES ASSUME CloudInv, [Next]_vars PROVE Requeueing'
  OBVIOUS
<1> USE DEF CloudInv, Shape, TypeOK, Quiet, Requeueing, Young, Stages, LockStages,
   loopVars, ids, jobVars, histories
<1>1. ASSUME NEW m \in Msgs, JobStep(m) PROVE Requeueing'
  <2>1. CASE Start(m)
    BY <2>1 DEF Start, Goto
  <2>2. CASE TryLock(m) \/ Enter(m) \/ Check(m)
    BY <2>2 DEF TryLock, Enter, Check, Goto, Fault
  <2>3. CASE Remark(m) \/ Mark(m) \/ AnswerAtOnce(m) \/ SkipEmpty(m) \/ BeginTurn(m)
     \/ TurnEnds(m) \/ ExecRace(m) \/ Recover(m) \/ LeaveRunning(m) \/ Answer(m)
     \/ Raise(m) \/ ReplyError(m) \/ Release(m) \/ Cleanup(m)
    BY <2>3 DEF Remark, Mark, AnswerAtOnce, SkipEmpty, BeginTurn, TurnEnds, ExecRace,
       Recover, LeaveRunning, Answer, Raise, ReplyError, Release, Cleanup, Goto,
       MarkProcessed, Fault
  <2>4. CASE TurnTimesOut(m)
    BY <2>4 DEF TurnTimesOut, Goto, CutTurns, Spared
  <2>5. QED BY <1>1, <2>1, <2>2, <2>3, <2>4 DEF JobStep
<1>2. CASE SeeShutdown \/ ForceRestart
  BY <1>2 DEF SeeShutdown, ForceRestart, StartDrain
<1>3. ASSUME NEW m \in Msgs, HandlePolled(m) PROVE Requeueing'
  BY <1>3 DEF HandlePolled
<1>4. CASE Poll \/ Drained \/ Requeued \/ Exit \/ Restart \/ AskRestart \/ Signal
   \/ Crash
  BY <1>4 DEF Poll, Drained, Requeued, Exit, Restart, ReapOrphanTurns, AskRestart, Signal, Crash,
     Fault, Pending
<1>5. CASE DrainEnds
  BY <1>5 DEF DrainEnds
<1>6. CASE RequeueUnmark
  BY <1>6 DEF RequeueUnmark, Fault
<1>7. ASSUME NEW m \in Msgs, RequeueKill(m) PROVE Requeueing'
  <2>1. /\ loop = "requeue" /\ back = NoMsg /\ back' = m /\ todo' = todo \ {m}
        /\ UNCHANGED <<server, loop, inflight, lost>>
    BY <1>7 DEF RequeueKill
  <2>2. \A o \in Msgs : at'[o] = at[o] \/ at'[o] = "cut"
    BY <1>7 DEF RequeueKill, CutTurns
  <2>3. \A o \in inflight : o # NoMsg
    BY CloudAssumption
  <2>4. QED BY <2>1, <2>2, <2>3
<1>8. ASSUME NEW m \in Msgs, Arrive(m) \/ OrphanEnds(m) PROVE Requeueing'
  BY <1>8 DEF Arrive, OrphanEnds
<1>9. CASE UNCHANGED vars
  BY <1>9 DEF vars
<1>10. QED BY <1>1, <1>2, <1>3, <1>4, <1>5, <1>6, <1>7, <1>8, <1>9 DEF Next, Main

-----------------------------------------------------------------------------
\* The initial states.
LEMMA CloudInit == Init => CloudInv
<1> SUFFICES ASSUME Init PROVE CloudInv
  OBVIOUS
<1> USE DEF Init
<1>1. Shape
  <2>1. /\ pool \in Seq(Msgs) /\ arrival \in [Msgs -> Nat] /\ begun \in [Msgs -> Nat]
        /\ faults \in 0..MaxFaults /\ stops \in 0..MaxStops
    BY Bounds
  <2>2. /\ server \in [Msgs -> {"absent", "pending", "processed"}] /\ at \in [Msgs -> Stages]
        /\ back \in Msgs \cup {NoMsg}
    BY DEF Stages
  <2>3. QED BY <2>1, <2>2 DEF Shape, TypeOK, Quiet
<1>2. Queue
  BY DEF Queue
<1>3. LockAlone /\ Accounts /\ FirstTurns /\ Orphaned /\ Requeueing
  BY DEF LockAlone, LockStages, Accounts, NotForgotten, FirstTurns, Orphaned, Requeueing
<1>4. QED BY <1>1, <1>2, <1>3 DEF CloudInv

\* Every step keeps the invariant, part by part.
LEMMA CloudStep == CloudInv /\ [Next]_vars => CloudInv'
BY ShapeStep, QueueStep, LockStep, AccountsStep, FirstTurnsStep, OrphanedStep,
   RequeueingStep DEF CloudInv

(* The inductive invariant holds in every behaviour, crashes included.       *)
THEOREM CloudInvariant == Spec => []CloudInv
BY CloudInit, CloudStep, PTL DEF Spec

(* Every variable keeps its type.                                            *)
THEOREM CloudTypes == Spec => []TypeOK
<1>1. CloudInv => TypeOK
  BY DEF CloudInv, Shape
<1>2. QED BY <1>1, CloudInvariant, PTL

(* A message marked on the server has been answered, is being worked on, or  *)
(* was lost in one of the ways that are named, whatever stops, crashes and   *)
(* failed calls there have been.                                             *)
THEOREM NoneForgotten == Spec => []NotForgotten
<1>1. CloudInv => NotForgotten
  BY DEF CloudInv, Accounts
<1>2. QED BY <1>1, CloudInvariant, PTL

(* While the set of messages taken in is not cleared, none has two turns in a *)
(* life of the daemon.                                                       *)
THEOREM OneTurnInALife == Spec => []RunOnce
<1>1. CloudInv => RunOnce
  BY DEF CloudInv, FirstTurns, RunOnce
<1>2. QED BY <1>1, CloudInvariant, PTL

(* Both together: a message taken in is kept, and has one turn in a life.     *)
THEOREM MessagesSafe == Spec => []MessagesKept
<1>1. QED BY NoneForgotten, OneTurnInALife, PTL DEF MessagesKept

(* No conversation has two processes, of any lives of the daemon, unless one *)
(* was left running with nobody to wait for it.                              *)
THEOREM OneProcessAtATime == Spec => []OneProcess
<1>1. CloudInv => OneProcess
  <2> SUFFICES ASSUME CloudInv, ~unwatched PROVE OneProcessEver
    BY DEF OneProcess
  <2>1. CASE loop = "down"
    BY <2>1 DEF CloudInv, Shape, Quiet, Orphaned, OneProcessEver, NoTwin, Turning
  <2>2. CASE loop # "down"
    BY <2>2 DEF CloudInv, Shape, TypeOK, Orphaned, LockAlone, LockStages,
       OneProcessEver, NoTwin, Turning
  <2>3. QED BY <2>1, <2>2
<1>2. QED BY <1>1, CloudInvariant, PTL

(* When the requeue is over, every message that still has a job is pending   *)
(* again, but for those whose call failed.                                   *)
THEOREM AllPutBack == Spec => PutBack
<1>1. ASSUME CloudInv, [Next]_vars, loop = "requeue", loop' = "exit", NEW m \in inflight
      PROVE  server[m] = "pending" \/ m \in lost
  <2>1. loop = "requeue" /\ back = NoMsg /\ todo = {}
    <3>1. Requeued
      BY <1>1 DEF Next, JobStep, Main, vars, loopVars, SeeShutdown, ForceRestart, StartDrain,
         Poll, HandlePolled, Drained, DrainEnds, RequeueKill, RequeueUnmark, Exit, Restart, ReapOrphanTurns,
         Arrive, AskRestart, Signal, OrphanEnds, Crash, Start, TryLock, Enter, Check, Remark,
         Mark, AnswerAtOnce, SkipEmpty, BeginTurn, TurnEnds, TurnTimesOut, ExecRace, Recover,
         LeaveRunning, Answer, Raise, ReplyError, Release, Cleanup
    <3>2. QED BY <3>1 DEF Requeued
  <2>2. m \in Msgs /\ m # NoMsg
    BY <1>1, CloudAssumption DEF CloudInv, Shape, TypeOK
  <2>3. QED BY <1>1, <2>1, <2>2 DEF CloudInv, Requeueing
<1>2. CloudInv /\ [Next]_vars =>
          [loop = "requeue" /\ loop' = "exit" =>
              \A m \in inflight : server[m] = "pending" \/ m \in lost]_vars
  BY <1>1
<1>3. QED BY <1>2, CloudInvariant, PTL DEF Spec, PutBack
=============================================================================
