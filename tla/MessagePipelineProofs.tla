----------------------- MODULE MessagePipelineProofs ------------------------
(***************************************************************************)
(* Proofs about MessagePipeline, for all messages, projects, pool sizes and *)
(* bounds.  The inductive invariant is in three parts: the shape of the     *)
(* state, the project lock, and what the guards against losing a message    *)
(* and against running it twice say at every stage of a job.  With it every *)
(* step of the pipeline is a step of Custody or a stutter.  And about       *)
(* ManagerLoop, whose turns are messages of that pipeline, for any tasks    *)
(* and limits: its invariant says that a task stays in hand until its end   *)
(* has been told or was cut short, that tasks given are in memory and file  *)
(* alike, and that turns and silences stay below their limits.              *)
(***************************************************************************)
EXTENDS MessagePipeline, ManagerLoop, FiniteSetTheorems, TLAPS

Job == [msg : Msgs \cup {NoMsg}, live : BOOLEAN, again : BOOLEAN,
        at : JobStages, sent : 0..Chunks, late : BOOLEAN]

\* A slot in use is in use for a message, and so is a recovery about to act.
InUse ==
    /\ \A j \in Slots : jobs[j].at # "free" => jobs[j].msg \in Msgs
    /\ recovery.at \in {"dequeue", "resubmit"} => recovery.msg \in Msgs
    /\ \A j \in Slots : jobs[j].at \notin {"dequeue", "followup", "error", "finish"}
          => jobs[j].sent < Chunks

Shape == TypeOK /\ InUse

\* No two jobs of a project are within its lock.
LockAlone ==
    \A i, j \in Slots :
        /\ jobs[i].at \in LockStages /\ jobs[j].at \in LockStages
        /\ ProjectAt(i) = ProjectAt(j)
        => i = j

\* The message is in the crash queue or has been answered.
Accounted(m) == m \in queue \/ m \in attempted \/ delivered[m] # {}

\* Where the message of a job must be accounted for already; a job that knows
\* its message from processed_ids relies on the job that put it there.
Accounts ==
    /\ \A m \in Msgs : server[m] = "processed" => Accounted(m)
    /\ \A m \in processedIds :
          \/ Accounted(m)
          \/ \E j \in Slots : jobs[j].msg = m /\ jobs[j].at \in {"enqueue", "error"}
    /\ \A j \in Slots :
          /\ jobs[j].at \in {"remark", "mark", "turn", "send"} => Accounted(jobs[j].msg)
          /\ jobs[j].at = "dequeue" => jobs[j].msg \in attempted
    /\ recovery.at = "dequeue" => delivered[recovery.msg] # {}

\* Until processed_ids is cleared, a message that begins its turn is in it, and
\* a job on its way to the turn is the first one.
FirstTurns ==
    ~wiped =>
        /\ \A m \in Msgs : begun[m] <= 1
        /\ \A m \in Msgs : begun[m] > 0 => m \in processedIds
        /\ \A j \in Slots : jobs[j].at \in {"enqueue", "mark"}
              => begun[jobs[j].msg] = 0 /\ jobs[j].msg \in processedIds

PipelineInv == Shape /\ LockAlone /\ Accounts /\ FirstTurns

-----------------------------------------------------------------------------
(* What a step does to the jobs.                                             *)

\* Moving a job to another stage leaves its message and every other job alone.
LEMMA JobMoved ==
    ASSUME TypeOK, NEW j \in Slots, NEW s \in JobStages, Goto(j, s)
    PROVE  /\ jobs' \in [Slots -> Job]
           /\ jobs'[j].at = s /\ jobs'[j].msg = jobs[j].msg
           /\ jobs'[j].sent = jobs[j].sent
           /\ \A i \in Slots \ {j} : jobs'[i] = jobs[i]
<1>1. jobs \in [Slots -> Job]
  BY DEF TypeOK, Job
<1>2. jobs' = [jobs EXCEPT ![j] = [jobs[j] EXCEPT !.at = s]]
  BY <1>1 DEF Goto
<1>3. [jobs[j] EXCEPT !.at = s] \in Job
  BY <1>1 DEF Job
<1>4. QED BY <1>1, <1>2, <1>3 DEF Job

\* A submitted message takes a free slot, and stands in the queue there.
LEMMA JobSubmitted ==
    ASSUME TypeOK, NEW m \in Msgs, NEW recovered \in BOOLEAN, Submit(m, recovered)
    PROVE  /\ jobs' \in [Slots -> Job]
           /\ \E slot \in Slots :
                 /\ jobs[slot].at = "free"
                 /\ jobs'[slot].at = "queued" /\ jobs'[slot].msg = m
                 /\ jobs'[slot].sent < Chunks
                 /\ \A i \in Slots \ {slot} : jobs'[i] = jobs[i]
<1>1. jobs \in [Slots -> Job]
  BY DEF TypeOK, Job
<1> DEFINE new(live) == [FreeJob EXCEPT !.msg = m, !.at = "queued",
                                        !.again = recovered, !.live = live]
<1>2. ASSUME NEW live \in BOOLEAN
      PROVE  /\ new(live) \in Job /\ new(live).at = "queued" /\ new(live).msg = m
             /\ new(live).sent < Chunks
  <2>1. Chunks \in Nat \ {0}
    BY PipelineAssumption
  <2>2. FreeJob \in Job /\ FreeJob.sent < Chunks
    BY <2>1 DEF Job, FreeJob, JobStages, Waits
  <2>3. "queued" \in JobStages
    BY DEF JobStages, Waits
  <2>4. ASSUME NEW r \in Job
        PROVE  LET changed == [r EXCEPT !.msg = m, !.at = "queued", !.again = recovered,
                                        !.live = live]
               IN  /\ changed \in Job /\ changed.at = "queued" /\ changed.msg = m
                   /\ changed.sent = r.sent
    BY <2>3 DEF Job
  <2>5. QED BY <2>2, <2>4
<1>3. PICK slot \in FreeSlots : jobs' = [jobs EXCEPT ![slot] = new(m \in LiveMsgs /\ ~recovered)]
  BY DEF Submit
<1>4. slot \in Slots /\ jobs[slot].at = "free"
  BY DEF FreeSlots
<1>5. (m \in LiveMsgs /\ ~recovered) \in BOOLEAN
  OBVIOUS
<1> HIDE DEF new
<1>6. PICK live \in BOOLEAN : jobs' = [jobs EXCEPT ![slot] = new(live)]
  BY <1>3, <1>5
<1>7. QED BY <1>1, <1>2, <1>4, <1>6

\* The lock stays with one job when no job comes to hold it.
LEMMA LockKept ==
    ASSUME LockAlone,
           \A i \in Slots : jobs'[i].at \in LockStages
               => jobs[i].at \in LockStages /\ jobs'[i].msg = jobs[i].msg
    PROVE  LockAlone'
BY DEF LockAlone, ProjectAt

\* What is accounted for stays so, unless a message leaves the queue unanswered.
LEMMA AccountedStays ==
    ASSUME NEW m \in Msgs, Accounted(m),
           m \in queue => m \in queue' \/ m \in attempted',
           m \in attempted => m \in attempted',
           delivered[m] \subseteq delivered'[m]
    PROVE  Accounted(m)'
BY DEF Accounted

-----------------------------------------------------------------------------
(* Steps of a job that leave everything else alone, but for counting a fault.*)

\* A job that moves on, having told nobody and changed nothing shared, keeps the invariant.
LEMMA QuietMove ==
    ASSUME PipelineInv, NEW j \in Slots, NEW s \in JobStages,
           jobs' \in [Slots -> Job],
           jobs'[j].at = s, jobs'[j].msg = jobs[j].msg,
           jobs'[j].sent = jobs[j].sent \/ (s = "send" /\ jobs'[j].sent < Chunks),
           \A i \in Slots \ {j} : jobs'[i] = jobs[i],
           jobs[j].at \notin {"free", "error"},
           jobs[j].at = "finish" => s = "finish",
           jobs[j].at = "followup" => s = "finish",
           jobs[j].at \in {"enqueue", "dequeue"} => s = "error",
           s \notin {"free", "remark", "enqueue", "mark", "turn", "dequeue", "followup"},
           s = "send" => jobs[j].at = "turn",
           s \in LockStages => \/ jobs[j].at \in LockStages
                              \/ LockHolders(ProjectAt(j)) = {},
           UNCHANGED <<outside, up, shutdown, polled, spawned, processedIds, recovery,
                       histories>>,
           faults' \in 0..MaxFaults
    PROVE  PipelineInv'
<1>1. TypeOK'
  BY DEF PipelineInv, Shape, TypeOK, Job, outside, histories
<1>2. InUse'
  BY DEF PipelineInv, Shape, InUse
<1>3. LockAlone'
  <2>1. CASE jobs[j].at \in LockStages \/ s \notin LockStages
    <3>1. \A i \in Slots : jobs'[i].at \in LockStages
              => jobs[i].at \in LockStages /\ jobs'[i].msg = jobs[i].msg
      BY <2>1
    <3>2. QED BY <3>1, LockKept DEF PipelineInv
  <2>2. CASE LockHolders(ProjectAt(j)) = {}
    BY <2>2 DEF LockHolders, LockAlone, ProjectAt, PipelineInv
  <2>3. QED BY <2>1, <2>2
<1>4. \A m \in Msgs : Accounted(m)' <=> Accounted(m)
  BY DEF Accounted, outside, histories
<1>5. Accounts'
  <2>1. \A m \in Msgs : server'[m] = "processed" => Accounted(m)'
    BY <1>4 DEF PipelineInv, Accounts, outside
  <2>2. ASSUME NEW m \in processedIds'
        PROVE  \/ Accounted(m)'
               \/ \E i \in Slots : jobs'[i].msg = m /\ jobs'[i].at \in {"enqueue", "error"}
    <3>1. m \in processedIds /\ m \in Msgs
      BY DEF PipelineInv, Shape, TypeOK
    <3>2. \A i \in Slots : jobs[i].at \in {"enqueue", "error"}
              => jobs'[i].msg = jobs[i].msg /\ jobs'[i].at \in {"enqueue", "error"}
      OBVIOUS
    <3>3. QED BY <1>4, <3>1, <3>2 DEF PipelineInv, Accounts
  <2>3. ASSUME NEW i \in Slots
        PROVE  /\ jobs'[i].at \in {"remark", "mark", "turn", "send"} => Accounted(jobs[i].msg)'
               /\ jobs'[i].at = "dequeue" => jobs'[i].msg \in attempted'
    <3>1. /\ jobs[i].at \in {"remark", "mark", "turn", "send"} => Accounted(jobs[i].msg)
          /\ jobs[i].at = "dequeue" => jobs[i].msg \in attempted
      BY DEF PipelineInv, Accounts
    <3>2. UNCHANGED <<queue, attempted, delivered>> /\ jobs'[i].msg = jobs[i].msg
      BY DEF histories, outside
    <3>3. /\ jobs'[i].at \in {"remark", "mark", "turn", "send"}
                => jobs[i].at \in {"remark", "mark", "turn", "send"}
          /\ jobs'[i].at = "dequeue" => jobs[i].at = "dequeue"
      OBVIOUS
    <3>4. QED BY <3>1, <3>2, <3>3 DEF Accounted
  <2>4. recovery'.at = "dequeue" => delivered'[recovery'.msg] # {}
    BY DEF PipelineInv, Accounts, outside
  <2>5. QED BY <2>1, <2>2, <2>3, <2>4 DEF Accounts
<1>6. FirstTurns'
  BY DEF PipelineInv, FirstTurns, histories
<1>7. QED BY <1>1, <1>2, <1>3, <1>5, <1>6 DEF PipelineInv, Shape

\* Waiting, locking, ending a turn and raising are such steps.
LEMMA QuietSteps ==
    ASSUME PipelineInv, NEW j \in Slots,
           GetLane(j) \/ Lock(j) \/ CommandAnswered(j) \/ TurnEnds(j) \/ Raise(j)
           \/ Followup(j)
    PROVE  PipelineInv'
<1>1. UNCHANGED <<outside, up, shutdown, polled, spawned, processedIds, recovery,
                  histories>>
  BY DEF GetLane, Lock, CommandAnswered, TurnEnds, Raise, Followup
<1>2. faults' \in 0..MaxFaults
  BY PipelineAssumption DEF GetLane, Lock, CommandAnswered, TurnEnds, Raise, Followup, Fault, PipelineInv,
     Shape, TypeOK
<1>3. TypeOK
  BY DEF PipelineInv, Shape
<1>4. CASE GetLane(j)
  <2>1. "laned" \in JobStages /\ "laned" \notin LockStages
    BY DEF JobStages, LockStages
  <2>2. QED BY <1>1, <1>2, <1>3, <1>4, <2>1, JobMoved, QuietMove DEF GetLane, AtStage
<1>5. CASE Lock(j)
  <2>1. PICK s \in {"finish", "check"} : Goto(j, s)
    BY <1>5 DEF Lock
  <2>2. s \in JobStages
    BY <2>1 DEF JobStages, LockStages
  <2>3. QED BY <1>1, <1>2, <1>3, <1>5, <2>1, <2>2, JobMoved, QuietMove DEF Lock, AtStage
<1>6. CASE TurnEnds(j)
  <2>1. CASE Goto(j, "finish")
    <3>1. "finish" \in JobStages /\ "finish" \notin LockStages
      BY DEF JobStages, LockStages
    <3>2. QED BY <1>1, <1>2, <1>3, <1>6, <2>1, <3>1, JobMoved, QuietMove DEF TurnEnds, AtStage
  <2>2. ASSUME NEW isLate \in BOOLEAN,
               jobs' = [jobs EXCEPT ![j].at = "send", ![j].late = isLate]
        PROVE  PipelineInv'
    <3>1. "send" \in JobStages
      BY DEF JobStages, LockStages
    <3>2. jobs[j].at = "turn" /\ "turn" \in LockStages
      BY <1>6 DEF TurnEnds, AtStage, LockStages
    <3>3. /\ jobs' \in [Slots -> Job]
          /\ jobs'[j].at = "send" /\ jobs'[j].msg = jobs[j].msg
          /\ jobs'[j].sent = jobs[j].sent
          /\ \A i \in Slots \ {j} : jobs'[i] = jobs[i]
      BY <1>3, <2>2, <3>1 DEF TypeOK, Job
    <3>4. QED BY <1>1, <1>2, <3>1, <3>2, <3>3, QuietMove
  <2>3. QED BY <1>6, <2>1, <2>2 DEF TurnEnds
<1>7. CASE Raise(j)
  <2>1. "error" \in JobStages
    BY DEF JobStages, LockStages
  <2>2. jobs[j].at \in {"enqueue", "turn", "dequeue"} /\ Goto(j, "error")
    BY <1>7 DEF Raise, AtStage
  <2>3. jobs[j].at \in LockStages
    BY <2>2 DEF LockStages
  <2>4. QED BY <1>1, <1>2, <1>3, <2>1, <2>2, <2>3, JobMoved, QuietMove
<1>8. CASE Followup(j)
  <2>1. "finish" \in JobStages /\ "finish" \notin LockStages
    BY DEF JobStages, LockStages
  <2>2. QED BY <1>1, <1>2, <1>3, <1>8, <2>1, JobMoved, QuietMove DEF Followup, AtStage
<1>9. CASE CommandAnswered(j)
  <2>1. "send" \in JobStages /\ Chunks - 1 \in 0..Chunks /\ Chunks - 1 < Chunks
    BY PipelineAssumption DEF JobStages, LockStages
  <2>2. jobs[j].at = "turn" /\ "turn" \in LockStages
    BY <1>9 DEF CommandAnswered, AtStage, LockStages
  <2>3. /\ jobs' \in [Slots -> Job]
        /\ jobs'[j].at = "send" /\ jobs'[j].msg = jobs[j].msg
        /\ jobs'[j].sent = Chunks - 1
        /\ \A i \in Slots \ {j} : jobs'[i] = jobs[i]
    BY <1>3, <1>9, <2>1 DEF TypeOK, Job, CommandAnswered
  <2>4. QED BY <1>1, <1>2, <2>1, <2>2, <2>3, QuietMove
<1>10. QED BY <1>4, <1>5, <1>6, <1>7, <1>8, <1>9

-----------------------------------------------------------------------------
(* Steps of a job within the project lock that act on the message.           *)

\* What such a step has to see to, and what it may leave to the invariant.
LEMMA LockedMove ==
    ASSUME PipelineInv, NEW j \in Slots, jobs[j].at \in LockStages,
           NEW m \in Msgs, jobs[j].msg = m, jobs'[j].msg = m,
           \A i \in Slots \ {j} : jobs'[i] = jobs[i],
           \A x \in Msgs : Accounted(x) => Accounted(x)',
           attempted \subseteq attempted',
           \A x \in Msgs : server'[x] = "processed"
               => server[x] = "processed" \/ Accounted(x)',
           processedIds' \subseteq processedIds \cup {m},
           m \in processedIds \/ m \notin processedIds' \/ jobs'[j].at = "enqueue",
           jobs[j].at \in {"enqueue", "error"} => Accounted(m)',
           jobs'[j].at \in {"remark", "mark", "turn", "send"} => Accounted(m)',
           jobs'[j].at = "dequeue" => m \in attempted',
           UNCHANGED recovery, \A x \in Msgs : delivered[x] \subseteq delivered'[x]
    PROVE  LockAlone' /\ Accounts'
<1>1. LockAlone'
  <2>1. \A i \in Slots : jobs'[i].at \in LockStages
            => jobs[i].at \in LockStages /\ jobs'[i].msg = jobs[i].msg
    OBVIOUS
  <2>2. QED BY <2>1, LockKept DEF PipelineInv
<1>2. ASSUME NEW x \in Msgs, server'[x] = "processed" PROVE Accounted(x)'
  BY <1>2 DEF PipelineInv, Accounts
<1>3. ASSUME NEW x \in processedIds'
      PROVE  \/ Accounted(x)'
             \/ \E i \in Slots : jobs'[i].msg = x /\ jobs'[i].at \in {"enqueue", "error"}
  <2>1. CASE x \in processedIds
    <3>1. x \in Msgs
      BY <2>1 DEF PipelineInv, Shape, TypeOK
    <3>2. CASE Accounted(x)
      BY <3>1, <3>2
    <3>3. ASSUME NEW i \in Slots, jobs[i].msg = x, jobs[i].at \in {"enqueue", "error"}
          PROVE  \/ Accounted(x)'
                 \/ jobs'[i].msg = x /\ jobs'[i].at \in {"enqueue", "error"}
      <4>1. CASE i # j
        BY <3>3, <4>1
      <4>2. CASE i = j
        BY <3>3, <4>2
      <4>3. QED BY <4>1, <4>2
    <3>4. QED BY <2>1, <3>2, <3>3 DEF PipelineInv, Accounts
  <2>2. CASE x = m /\ jobs'[j].at = "enqueue"
    BY <2>2
  <2>3. QED BY <2>1, <2>2
<1>4. ASSUME NEW i \in Slots
      PROVE  /\ jobs'[i].at \in {"remark", "mark", "turn", "send"} => Accounted(jobs[i].msg)'
             /\ jobs'[i].at = "dequeue" => jobs'[i].msg \in attempted'
  <2>1. CASE i = j
    BY <2>1 DEF Accounted
  <2>2. CASE i # j
    <3>1. jobs'[i] = jobs[i]
      BY <2>2
    <3>2. jobs[i].at = "dequeue" => jobs[i].msg \in attempted'
      BY DEF PipelineInv, Accounts
    <3>3. jobs[i].at \in {"remark", "mark", "turn", "send"}
              => jobs[i].msg \in Msgs /\ Accounted(jobs[i].msg)
      BY DEF PipelineInv, Accounts, Shape, InUse
    <3>4. ASSUME NEW x \in Msgs, x = jobs[i].msg, Accounted(x)
          PROVE  Accounted(jobs[i].msg)'
      <4>1. Accounted(x)'
        BY <3>4
      <4>2. jobs'[i].msg = x
        BY <3>1, <3>4
      <4>3. QED BY <4>1, <4>2 DEF Accounted
    <3>5. QED BY <3>1, <3>2, <3>3, <3>4 DEF Accounted
  <2>3. QED BY <2>1, <2>2
<1>5. recovery'.at = "dequeue" => delivered'[recovery'.msg] # {}
  BY DEF PipelineInv, Accounts, Shape, InUse
<1>6. QED BY <1>1, <1>2, <1>3, <1>4, <1>5 DEF Accounts

\* The stages a job may be sent to are stages.
LEMMA StagesKnown ==
    /\ LockStages \subseteq JobStages
    /\ {"free", "queued", "laned", "finish"} \subseteq JobStages
    /\ {"check", "remark", "enqueue", "mark", "turn", "send", "error", "dequeue",
        "followup"} = LockStages
BY DEF JobStages, LockStages, Waits

\* A message known already is accounted for: whoever put it into processed_ids
\* and is not through with it would hold the lock.
LEMMA CheckStep ==
    ASSUME PipelineInv, NEW j \in Slots, Check(j)
    PROVE  PipelineInv'
<1>m. PICK m \in Msgs : m = jobs[j].msg
  BY DEF Check, AtStage, PipelineInv, Shape, InUse
<1>1. /\ jobs[j].at = "check" /\ m \in Msgs /\ TypeOK
      /\ UNCHANGED <<outside, up, shutdown, polled, spawned, recovery, begun, attempted, told>>
  BY <1>m DEF Check, AtStage, PipelineInv, Shape, InUse
<1>2. PICK s \in {"remark", "enqueue"} :
        /\ Goto(j, s)
        /\ s = "remark" => /\ m \in processedIds /\ processedIds' = processedIds
                          /\ UNCHANGED <<wiped, faults>>
        /\ s = "enqueue" =>
             /\ m \notin processedIds
             /\ \/ processedIds' = processedIds \cup {m} /\ UNCHANGED <<wiped, faults>>
                \/ processedIds' = {m} /\ wiped' = TRUE /\ Fault
  BY <1>m DEF Check
<1>3. s \in JobStages
  BY StagesKnown
<1>4. /\ jobs' \in [Slots -> Job]
      /\ jobs'[j].at = s /\ jobs'[j].msg = m /\ jobs'[j].sent = jobs[j].sent
      /\ \A i \in Slots \ {j} : jobs'[i] = jobs[i]
  BY <1>m, <1>1, <1>2, <1>3, JobMoved
<1>5. Shape'
  <2>1. faults' \in 0..MaxFaults /\ wiped' \in BOOLEAN /\ processedIds' \subseteq Msgs
    <3>1. CASE UNCHANGED <<wiped, faults>> /\ processedIds' \subseteq processedIds \cup {m}
      BY <1>1, <3>1 DEF TypeOK
    <3>2. CASE processedIds' = {m} /\ wiped' = TRUE /\ Fault
      BY <1>1, <3>2, PipelineAssumption DEF TypeOK, Fault
    <3>3. QED BY <1>2, <3>1, <3>2
  <2>2. TypeOK'
    BY <1>m, <1>1, <1>4, <2>1 DEF TypeOK, Job, outside
  <2>3. InUse'
    BY <1>m, <1>1, <1>4 DEF PipelineInv, Shape, InUse
  <2>4. QED BY <2>2, <2>3 DEF Shape
<1>6. m \in processedIds => Accounted(m)
  <2>1. ASSUME NEW i \in Slots, jobs[i].msg = m, jobs[i].at \in {"enqueue", "error"}
        PROVE  FALSE
    BY <1>m, <1>1, <2>1, StagesKnown DEF PipelineInv, LockAlone, ProjectAt
  <2>2. QED BY <2>1 DEF PipelineInv, Accounts
<1>7. LockAlone' /\ Accounts'
  <2>1. \A x \in Msgs : Accounted(x)' <=> Accounted(x)
    BY <1>1 DEF Accounted, outside
  <2>2. s = "remark" => Accounted(m)'
    BY <1>m, <1>1, <1>2, <1>4, <1>6 DEF Accounted, outside
  <2>3. /\ processedIds' \subseteq processedIds \cup {m}
        /\ m \in processedIds \/ jobs'[j].at = "enqueue"
    BY <1>2, <1>4
  <2>4. UNCHANGED <<server, attempted, delivered, recovery>>
    BY <1>1 DEF outside
  <2>5. QED BY <1>m, <1>1, <1>2, <1>4, <2>1, <2>2, <2>3, <2>4, LockedMove, StagesKnown
<1>8. FirstTurns'
  <2>1. CASE s = "remark"
    BY <1>m, <1>1, <1>2, <1>4, <2>1 DEF PipelineInv, FirstTurns
  <2>2. CASE s = "enqueue" /\ ~wiped'
    <3>1. ~wiped /\ processedIds' = processedIds \cup {m} /\ m \notin processedIds
      BY <1>m, <1>2, <2>2
    <3>2. begun[m] = 0
      BY <1>m, <1>1, <3>1 DEF PipelineInv, FirstTurns, TypeOK
    <3>3. QED BY <1>m, <1>1, <1>4, <2>2, <3>1, <3>2 DEF PipelineInv, FirstTurns
  <2>3. CASE wiped'
    BY <2>3 DEF FirstTurns
  <2>4. QED BY <1>m, <1>2, <2>1, <2>2, <2>3
<1>9. QED BY <1>5, <1>7, <1>8 DEF PipelineInv

\* The mark is repeated for a message that is accounted for.
LEMMA RemarkStep ==
    ASSUME PipelineInv, NEW j \in Slots, Remark(j)
    PROVE  PipelineInv'
<1>m. PICK m \in Msgs : m = jobs[j].msg
  BY DEF Remark, AtStage, PipelineInv, Shape, InUse
<1>1. /\ jobs[j].at = "remark" /\ m \in Msgs /\ TypeOK /\ Goto(j, "finish")
      /\ MarkProcessed(m)
      /\ UNCHANGED <<delivered, queue, up, shutdown, polled, spawned, processedIds,
                     recovery, histories>>
  BY <1>m DEF Remark, AtStage, PipelineInv, Shape, InUse
<1>2. /\ jobs' \in [Slots -> Job]
      /\ jobs'[j].at = "finish" /\ jobs'[j].msg = m /\ jobs'[j].sent = jobs[j].sent
      /\ \A i \in Slots \ {j} : jobs'[i] = jobs[i]
  BY <1>m, <1>1, JobMoved, StagesKnown
<1>3. /\ faults' \in 0..MaxFaults /\ server' \in [Msgs -> {"absent", "pending", "processed"}]
      /\ \A x \in Msgs : x # m => server'[x] = server[x]
  BY <1>m, <1>1, PipelineAssumption DEF MarkProcessed, Fault, TypeOK
<1>4. Shape'
  BY <1>m, <1>1, <1>2, <1>3 DEF PipelineInv, Shape, InUse, TypeOK, Job, histories
<1>5. Accounted(m)
  BY <1>m, <1>1 DEF PipelineInv, Accounts
<1>6. LockAlone' /\ Accounts'
  <2>1. \A x \in Msgs : Accounted(x)' <=> Accounted(x)
    BY <1>1 DEF Accounted, histories
  <2>2. UNCHANGED <<attempted, delivered, processedIds, recovery>> /\ "remark" \in LockStages
    BY <1>1, StagesKnown DEF histories
  <2>3. QED BY <1>m, <1>1, <1>2, <1>3, <1>5, <2>1, <2>2, LockedMove
<1>7. FirstTurns'
  BY <1>m, <1>1, <1>2 DEF PipelineInv, FirstTurns, histories
<1>8. QED BY <1>4, <1>6, <1>7 DEF PipelineInv

\* From here on the message is in the crash queue.
LEMMA EnqueueStep ==
    ASSUME PipelineInv, NEW j \in Slots, EnqueueMessage(j)
    PROVE  PipelineInv'
<1>m. PICK m \in Msgs : m = jobs[j].msg
  BY DEF EnqueueMessage, AtStage, PipelineInv, Shape, InUse
<1>1. /\ jobs[j].at = "enqueue" /\ m \in Msgs /\ TypeOK /\ Goto(j, "mark")
      /\ queue' = queue \cup {m}
      /\ UNCHANGED <<server, delivered, up, shutdown, polled, spawned, processedIds,
                     recovery, histories, faults>>
  BY <1>m DEF EnqueueMessage, AtStage, PipelineInv, Shape, InUse
<1>2. /\ jobs' \in [Slots -> Job]
      /\ jobs'[j].at = "mark" /\ jobs'[j].msg = m /\ jobs'[j].sent = jobs[j].sent
      /\ \A i \in Slots \ {j} : jobs'[i] = jobs[i]
  BY <1>m, <1>1, JobMoved, StagesKnown
<1>3. Shape'
  BY <1>m, <1>1, <1>2 DEF PipelineInv, Shape, InUse, TypeOK, Job, histories
<1>4. LockAlone' /\ Accounts'
  <2>1. \A x \in Msgs : Accounted(x) => Accounted(x)'
    BY <1>1 DEF Accounted, histories
  <2>2. Accounted(m)'
    BY <1>m, <1>1, <1>2 DEF Accounted
  <2>3. /\ UNCHANGED <<server, attempted, delivered, processedIds, recovery>>
        /\ "enqueue" \in LockStages
    BY <1>1, StagesKnown DEF histories
  <2>4. QED BY <1>m, <1>1, <1>2, <2>1, <2>2, <2>3, LockedMove
<1>5. FirstTurns'
  BY <1>m, <1>1, <1>2 DEF PipelineInv, FirstTurns, histories
<1>6. QED BY <1>3, <1>4, <1>5 DEF PipelineInv

\* The server stops offering the message, which is in the queue, and its turn
\* begins: its first, since another job on its way would hold the lock.
LEMMA MarkStep ==
    ASSUME PipelineInv, NEW j \in Slots, Mark(j)
    PROVE  PipelineInv'
<1>1. PICK m \in Msgs : m = jobs[j].msg
  BY DEF Mark, AtStage, PipelineInv, Shape, InUse
<1>2. /\ jobs[j].at = "mark" /\ TypeOK /\ MarkProcessed(m)
      /\ UNCHANGED <<delivered, queue, up, shutdown, polled, spawned, processedIds,
                     recovery, wiped, attempted, told>>
  BY <1>1 DEF Mark, AtStage, PipelineInv, Shape
<1>3. PICK s \in {"finish", "turn"} :
        /\ Goto(j, s)
        /\ s = "finish" => UNCHANGED begun
        /\ s = "turn" => begun' = [begun EXCEPT ![m] = @ + 1]
  BY <1>1 DEF Mark
<1>4. /\ jobs' \in [Slots -> Job]
      /\ jobs'[j].at = s /\ jobs'[j].msg = m /\ jobs'[j].sent = jobs[j].sent
      /\ \A i \in Slots \ {j} : jobs'[i] = jobs[i]
  BY <1>1, <1>2, <1>3, JobMoved, StagesKnown
<1>5. /\ faults' \in 0..MaxFaults /\ server' \in [Msgs -> {"absent", "pending", "processed"}]
      /\ \A x \in Msgs : x # m => server'[x] = server[x]
  BY <1>2, PipelineAssumption DEF MarkProcessed, Fault, TypeOK
<1>6. /\ begun' \in [Msgs -> Nat] /\ begun'[m] \in {begun[m], begun[m] + 1}
      /\ \A x \in Msgs : x # m => begun'[x] = begun[x]
  BY <1>2, <1>3 DEF TypeOK
<1>7. Shape'
  BY <1>1, <1>2, <1>4, <1>5, <1>6 DEF PipelineInv, Shape, InUse, TypeOK, Job
<1>8. Accounted(m)
  BY <1>1, <1>2 DEF PipelineInv, Accounts
<1>9. LockAlone' /\ Accounts'
  <2>1. \A x \in Msgs : Accounted(x)' <=> Accounted(x)
    BY <1>2 DEF Accounted
  <2>2. UNCHANGED <<attempted, delivered, processedIds, recovery>> /\ "mark" \in LockStages
    BY <1>2, StagesKnown
  <2>3. QED BY <1>1, <1>2, <1>4, <1>5, <1>8, <2>1, <2>2, LockedMove
<1>10. FirstTurns'
  <2>1. SUFFICES ASSUME ~wiped' PROVE FirstTurns'
    BY DEF FirstTurns
  <2>2. ~wiped /\ processedIds' = processedIds
    BY <1>2, <2>1
  <2>3. begun[m] = 0 /\ m \in processedIds
    BY <1>1, <1>2, <2>2 DEF PipelineInv, FirstTurns
  <2>4. \A x \in Msgs : begun'[x] <= 1
    BY <1>6, <2>2, <2>3 DEF PipelineInv, FirstTurns
  <2>5. \A x \in Msgs : begun'[x] > 0 => x \in processedIds'
    BY <1>6, <2>2, <2>3 DEF PipelineInv, FirstTurns
  <2>6. ASSUME NEW i \in Slots, jobs'[i].at \in {"enqueue", "mark"}
        PROVE  begun'[jobs'[i].msg] = 0 /\ jobs'[i].msg \in processedIds'
    <3>1. i # j /\ jobs'[i] = jobs[i]
      BY <1>3, <1>4, <2>6
    <3>2. jobs[i].msg \in Msgs
      BY <2>6, <3>1 DEF PipelineInv, Shape, InUse
    <3>3. jobs[i].msg # m
      BY <1>1, <1>2, <2>6, <3>1, StagesKnown DEF PipelineInv, LockAlone, ProjectAt
    <3>4. begun[jobs[i].msg] = 0 /\ jobs[i].msg \in processedIds
      BY <2>2, <2>6, <3>1 DEF PipelineInv, FirstTurns
    <3>5. QED BY <1>6, <2>2, <3>1, <3>2, <3>3, <3>4
  <2>7. QED BY <2>4, <2>5, <2>6 DEF FirstTurns
<1>11. QED BY <1>7, <1>9, <1>10 DEF PipelineInv

\* An answer or an error that has been sent keeps its message accounted for.
LEMMA ReplyStep ==
    ASSUME PipelineInv, NEW j \in Slots, ReplyError(j) \/ SendChunk(j)
    PROVE  PipelineInv'
<1>1. PICK m \in Msgs : m = jobs[j].msg
  BY DEF ReplyError, SendChunk, AtStage, PipelineInv, Shape, InUse
<1>2. /\ jobs[j].at \in {"error", "send"} /\ TypeOK
      /\ UNCHANGED <<server, queue, up, shutdown, polled, spawned, processedIds,
                     recovery, begun, wiped, told>>
  BY DEF ReplyError, SendChunk, AtStage, PipelineInv, Shape
<1>3. /\ jobs[j].at = "send" => jobs[j].sent < Chunks
      /\ jobs[j].sent \in Nat /\ Chunks \in Nat
  <2>1. jobs[j].sent \in 0..Chunks /\ Chunks \in Nat
    BY PipelineAssumption DEF PipelineInv, Shape, TypeOK
  <2>2. QED BY <1>2, <2>1 DEF PipelineInv, Shape, InUse
<1>4. /\ delivered' \in [Msgs -> SUBSET (0..Chunks)] /\ faults' \in 0..MaxFaults
      /\ \A x \in Msgs : delivered[x] \subseteq delivered'[x]
  <2>1. PICK part \in 0..Chunks : Reply(m, part)
    <3>1. CASE ReplyError(j)
      <4>1. 0 \in 0..Chunks
        BY <1>3
      <4>2. QED BY <1>1, <3>1, <4>1 DEF ReplyError
    <3>2. CASE SendChunk(j)
      <4>1. jobs[j].sent + 1 \in 0..Chunks
        BY <1>3, <3>2 DEF SendChunk, AtStage
      <4>2. QED BY <1>1, <3>2, <4>1 DEF SendChunk
    <3>3. QED BY <3>1, <3>2
  <2>2. QED BY <1>2, <2>1, PipelineAssumption DEF Reply, Fault, TypeOK
<1>5. attempted' \subseteq Msgs /\ attempted \subseteq attempted'
  BY <1>1, <1>2 DEF ReplyError, SendChunk, TypeOK
<1>6. /\ jobs' \in [Slots -> Job] /\ jobs'[j].msg = m
      /\ jobs'[j].at \in {"send", "dequeue", "finish"}
      /\ jobs'[j].at = "send" => jobs'[j].sent < Chunks
      /\ \A i \in Slots \ {j} : jobs'[i] = jobs[i]
      /\ jobs'[j].at = "send" => jobs[j].at = "send"
      /\ jobs'[j].at # "send" => m \in attempted'
  <2>1. CASE ReplyError(j)
    <3>1. Goto(j, "finish") /\ m \in attempted'
      BY <1>1, <2>1 DEF ReplyError
    <3>2. QED BY <1>1, <1>2, <3>1, JobMoved, StagesKnown
  <2>2. CASE SendChunk(j)
    <3>1. PICK k \in 1..Chunks : k = jobs[j].sent + 1
      BY <1>3, <2>2 DEF SendChunk, AtStage
    <3>2. CASE k = Chunks
      <4>1. jobs' = [jobs EXCEPT ![j].sent = k, ![j].at = "dequeue"] /\ m \in attempted'
        BY <1>1, <2>2, <3>1, <3>2 DEF SendChunk
      <4>2. "dequeue" \in JobStages
        BY StagesKnown
      <4>3. QED BY <1>1, <1>2, <3>1, <4>1, <4>2 DEF TypeOK, Job
    <3>3. CASE k # Chunks
      <4>1. jobs' = [jobs EXCEPT ![j].sent = k] /\ jobs[j].at = "send"
        BY <1>1, <2>2, <3>1, <3>3 DEF SendChunk, AtStage
      <4>2. k < Chunks
        BY <1>3, <3>1, <3>3
      <4>3. QED BY <1>1, <1>2, <3>1, <4>1, <4>2 DEF TypeOK, Job
    <3>4. QED BY <3>2, <3>3
  <2>3. QED BY <2>1, <2>2
<1>7. Shape'
  <2>1. TypeOK'
    BY <1>2, <1>4, <1>5, <1>6 DEF TypeOK, Job
  <2>2. InUse'
    BY <1>2, <1>6 DEF PipelineInv, Shape, InUse
  <2>3. QED BY <2>1, <2>2 DEF Shape
<1>8. LockAlone' /\ Accounts'
  <2>1. \A x \in Msgs : Accounted(x) => Accounted(x)'
    BY <1>2, <1>4, <1>5 DEF Accounted
  <2>2. UNCHANGED <<server, processedIds, recovery>> /\ {"error", "send"} \subseteq LockStages
    BY <1>2, StagesKnown
  <2>3. Accounted(m)'
    <3>1. CASE jobs'[j].at # "send"
      BY <1>6, <3>1 DEF Accounted
    <3>2. CASE jobs'[j].at = "send"
      <4>1. Accounted(m)
        BY <1>1, <1>6, <3>2 DEF PipelineInv, Accounts
      <4>2. QED BY <2>1, <4>1
    <3>3. QED BY <3>1, <3>2
  <2>4. jobs'[j].at = "dequeue" => m \in attempted'
    BY <1>6
  <2>5. jobs[j].at \in LockStages
    BY <1>2, <2>2
  <2>6. QED BY <1>1, <1>4, <1>5, <1>6, <2>1, <2>2, <2>3, <2>4, <2>5, LockedMove
<1>9. FirstTurns'
  BY <1>2, <1>6 DEF PipelineInv, FirstTurns
<1>10. QED BY <1>7, <1>8, <1>9 DEF PipelineInv

\* The message leaves the queue with its answer sent.
LEMMA DequeueStep ==
    ASSUME PipelineInv, NEW j \in Slots, Dequeue(j)
    PROVE  PipelineInv'
<1>1. PICK m \in Msgs : m = jobs[j].msg
  BY DEF Dequeue, AtStage, PipelineInv, Shape, InUse
<1>2. /\ jobs[j].at = "dequeue" /\ TypeOK /\ queue' = queue \ {m}
      /\ UNCHANGED <<server, delivered, up, shutdown, polled, spawned, processedIds,
                     recovery, histories, faults>>
  BY <1>1 DEF Dequeue, AtStage, PipelineInv, Shape
<1>3. PICK s \in {"followup", "finish"} : Goto(j, s)
  BY DEF Dequeue
<1>4. /\ jobs' \in [Slots -> Job]
      /\ jobs'[j].at = s /\ jobs'[j].msg = m /\ jobs'[j].sent = jobs[j].sent
      /\ \A i \in Slots \ {j} : jobs'[i] = jobs[i]
  BY <1>1, <1>2, <1>3, JobMoved, StagesKnown
<1>5. Shape'
  BY <1>1, <1>2, <1>4 DEF PipelineInv, Shape, InUse, TypeOK, Job, histories
<1>6. m \in attempted
  BY <1>1, <1>2 DEF PipelineInv, Accounts
<1>7. LockAlone' /\ Accounts'
  <2>1. \A x \in Msgs : Accounted(x) => Accounted(x)'
    BY <1>2, <1>6 DEF Accounted, histories
  <2>2. /\ UNCHANGED <<server, attempted, delivered, processedIds, recovery>>
        /\ "dequeue" \in LockStages
    BY <1>2, StagesKnown DEF histories
  <2>3. QED BY <1>1, <1>2, <1>4, <2>1, <2>2, LockedMove
<1>8. FirstTurns'
  BY <1>2, <1>4 DEF PipelineInv, FirstTurns, histories
<1>9. QED BY <1>5, <1>7, <1>8 DEF PipelineInv

-----------------------------------------------------------------------------
(* The end of a job, the submission of one, and what touches no job.         *)

\* A job's slot is freed once it is out of the lock.
LEMMA FinishStep ==
    ASSUME PipelineInv, NEW j \in Slots, Finish(j)
    PROVE  PipelineInv'
<1>1. /\ jobs[j].at = "finish" /\ TypeOK /\ jobs' = [jobs EXCEPT ![j] = FreeJob]
      /\ spawned' \subseteq spawned
      /\ UNCHANGED <<outside, up, shutdown, polled, processedIds, recovery, histories,
                     faults>>
  BY DEF Finish, AtStage, PipelineInv, Shape
<1>2. Chunks \in Nat \ {0} /\ "free" \notin LockStages
  BY PipelineAssumption DEF LockStages
<1>3. FreeJob \in Job /\ FreeJob.at = "free" /\ FreeJob.sent = 0
  BY <1>2, StagesKnown DEF FreeJob, Job
<1>4. /\ jobs' \in [Slots -> Job] /\ jobs'[j] = FreeJob
      /\ \A i \in Slots \ {j} : jobs'[i] = jobs[i]
  BY <1>1, <1>3 DEF TypeOK, Job
<1>5. Shape'
  <2>1. TypeOK'
    BY <1>1, <1>4 DEF TypeOK, Job, outside, histories
  <2>2. InUse'
    BY <1>1, <1>2, <1>3, <1>4 DEF PipelineInv, Shape, InUse
  <2>3. QED BY <2>1, <2>2 DEF Shape
<1>6. LockAlone'
  <2>1. \A i \in Slots : jobs'[i].at \in LockStages
            => jobs[i].at \in LockStages /\ jobs'[i].msg = jobs[i].msg
    BY <1>2, <1>3, <1>4
  <2>2. QED BY <2>1, LockKept DEF PipelineInv
<1>7. UNCHANGED <<server, queue, delivered, attempted, processedIds, recovery, begun, wiped>>
  BY <1>1 DEF outside, histories
<1>8. Accounts'
  <2>1. ASSUME NEW m \in processedIds
        PROVE  \/ Accounted(m)
               \/ \E i \in Slots : jobs'[i].msg = m /\ jobs'[i].at \in {"enqueue", "error"}
    <3>1. \A i \in Slots : jobs[i].at \in {"enqueue", "error"} => jobs'[i] = jobs[i]
      BY <1>1, <1>4
    <3>2. QED BY <3>1 DEF PipelineInv, Accounts
  <2>2. ASSUME NEW i \in Slots
        PROVE  /\ jobs'[i].at \in {"remark", "mark", "turn", "send"} => Accounted(jobs[i].msg)'
               /\ jobs'[i].at = "dequeue" => jobs'[i].msg \in attempted
    <3>1. jobs'[i].at \in {"remark", "mark", "turn", "send", "dequeue"} => jobs'[i] = jobs[i]
      BY <1>3, <1>4
    <3>2. /\ jobs[i].at \in {"remark", "mark", "turn", "send"} => Accounted(jobs[i].msg)
          /\ jobs[i].at = "dequeue" => jobs[i].msg \in attempted
      BY DEF PipelineInv, Accounts
    <3>3. QED BY <1>7, <3>1, <3>2 DEF Accounted
  <2>3. QED BY <1>7, <2>1, <2>2 DEF PipelineInv, Accounts, Accounted
<1>9. FirstTurns'
  BY <1>3, <1>4, <1>7 DEF PipelineInv, FirstTurns
<1>10. QED BY <1>5, <1>6, <1>8, <1>9 DEF PipelineInv

\* A job in the executor's queue holds nothing and promises nothing.
LEMMA SubmitStep ==
    ASSUME PipelineInv, NEW m \in Msgs, NEW recovered \in BOOLEAN,
           Submit(m, recovered),
           spawned' \subseteq Msgs, polled' \subseteq Msgs,
           recovery' = recovery \/ recovery' = [recovery EXCEPT !.at = "next", !.msg = NoMsg],
           UNCHANGED <<outside, up, shutdown, processedIds, histories, faults>>
    PROVE  PipelineInv'
<1>1. TypeOK /\ "queued" \notin LockStages /\ "queued" \notin {"send", "dequeue", "followup", "finish"}
  BY DEF PipelineInv, Shape, LockStages
<1>2. jobs' \in [Slots -> Job]
  BY <1>1, JobSubmitted
<1>3. PICK slot \in Slots : /\ jobs[slot].at = "free"
                           /\ jobs'[slot].at = "queued" /\ jobs'[slot].msg = m
                           /\ jobs'[slot].sent < Chunks
                           /\ \A i \in Slots \ {slot} : jobs'[i] = jobs[i]
  BY <1>1, JobSubmitted
<1>4. Shape'
  <2>1. recovery' \in [at : {"load", "next", "dequeue", "resubmit", "done"},
                       todo : SUBSET Msgs, msg : Msgs \cup {NoMsg}]
    BY <1>1 DEF TypeOK
  <2>2. TypeOK'
    BY <1>1, <1>2, <2>1 DEF TypeOK, Job, outside, histories
  <2>3. recovery'.at \in {"dequeue", "resubmit"} => recovery'.msg \in Msgs
    BY <1>1 DEF PipelineInv, Shape, InUse, TypeOK
  <2>4. InUse'
    BY <1>3, <2>3 DEF PipelineInv, Shape, InUse
  <2>5. QED BY <2>2, <2>4 DEF Shape
<1>5. LockAlone'
  <2>1. \A i \in Slots : jobs'[i].at \in LockStages
            => jobs[i].at \in LockStages /\ jobs'[i].msg = jobs[i].msg
    BY <1>1, <1>3
  <2>2. QED BY <2>1, LockKept DEF PipelineInv
<1>6. UNCHANGED <<server, queue, delivered, attempted, processedIds, begun, wiped>>
  BY DEF outside, histories
<1>7. Accounts'
  <2>1. ASSUME NEW x \in processedIds
        PROVE  \/ Accounted(x)
               \/ \E i \in Slots : jobs'[i].msg = x /\ jobs'[i].at \in {"enqueue", "error"}
    <3>1. \A i \in Slots : jobs[i].at \in {"enqueue", "error"} => jobs'[i] = jobs[i]
      BY <1>3
    <3>2. QED BY <3>1 DEF PipelineInv, Accounts
  <2>2. ASSUME NEW i \in Slots
        PROVE  /\ jobs'[i].at \in {"remark", "mark", "turn", "send"} => Accounted(jobs[i].msg)'
               /\ jobs'[i].at = "dequeue" => jobs'[i].msg \in attempted
    <3>1. jobs'[i].at \in {"remark", "mark", "turn", "send", "dequeue"} => jobs'[i] = jobs[i]
      BY <1>3
    <3>2. /\ jobs[i].at \in {"remark", "mark", "turn", "send"} => Accounted(jobs[i].msg)
          /\ jobs[i].at = "dequeue" => jobs[i].msg \in attempted
      BY DEF PipelineInv, Accounts
    <3>3. QED BY <1>6, <3>1, <3>2 DEF Accounted
  <2>3. recovery'.at = "dequeue" => delivered[recovery'.msg] # {}
    BY <1>1 DEF PipelineInv, Accounts, TypeOK
  <2>4. QED BY <1>6, <2>1, <2>2, <2>3 DEF PipelineInv, Accounts, Accounted
<1>8. FirstTurns'
  BY <1>3, <1>6 DEF PipelineInv, FirstTurns
<1>9. QED BY <1>4, <1>5, <1>7, <1>8 DEF PipelineInv

\* The poll hands a message over, and so does the recovery.
LEMMA HandOverStep ==
    ASSUME PipelineInv, (\E m \in Msgs : HandlePolled(m)) \/ RecoverResubmit
    PROVE  PipelineInv'
<1>1. TypeOK /\ InUse
  BY DEF PipelineInv, Shape
<1>2. ASSUME NEW m \in Msgs, HandlePolled(m), Submit(m, FALSE) PROVE PipelineInv'
  <2>1. /\ spawned' \subseteq Msgs /\ polled' \subseteq Msgs /\ recovery' = recovery
        /\ UNCHANGED <<outside, up, shutdown, processedIds, histories, faults>>
    BY ZenonT(40), <1>1, <1>2 DEF HandlePolled, TypeOK
  <2>2. QED BY <1>2, <2>1, SubmitStep
<1>3. CASE RecoverResubmit
  <2>1. recovery.msg \in Msgs
    BY <1>1, <1>3 DEF RecoverResubmit, InUse
  <2>2. /\ spawned' \subseteq Msgs /\ polled' \subseteq Msgs
        /\ recovery' = [recovery EXCEPT !.at = "next", !.msg = NoMsg]
        /\ Submit(recovery.msg, TRUE)
        /\ UNCHANGED <<outside, up, shutdown, processedIds, histories, faults>>
    BY <1>1, <1>3, <2>1 DEF RecoverResubmit, TypeOK
  <2>3. QED BY <2>1, <2>2, SubmitStep
<1>4. ASSUME NEW m \in Msgs, HandlePolled(m), UNCHANGED jobs PROVE PipelineInv'
  <2>1. /\ spawned' \subseteq Msgs /\ polled' \subseteq Msgs
        /\ UNCHANGED <<outside, up, shutdown, processedIds, recovery, histories, faults>>
    BY ZenonT(40), <1>1, <1>4 DEF HandlePolled, TypeOK
  <2>2. TypeOK' /\ InUse'
    BY <1>1, <1>4, <2>1 DEF TypeOK, InUse, outside, histories
  <2>3. LockAlone' /\ Accounts' /\ FirstTurns'
    BY <1>4, <2>1 DEF PipelineInv, LockAlone, ProjectAt, Accounts, Accounted, FirstTurns,
       outside, histories
  <2>4. QED BY <2>2, <2>3 DEF PipelineInv, Shape
<1>5. QED BY <1>2, <1>3, <1>4 DEF HandlePolled

\* The steps that touch neither a job nor an account of a message: arrivals,
\* polling, stops and restarts, and the recovery but for its dequeue.
LEMMA BystanderStep ==
    ASSUME PipelineInv,
           \/ \E m \in Msgs : Arrive(m) \/ RecoverCheck(m)
           \/ Poll \/ RecoverLoad \/ RecoverDone \/ Stop \/ Restart
    PROVE  PipelineInv'
<1>1. TypeOK /\ InUse
  BY DEF PipelineInv, Shape
<1>2. UNCHANGED <<delivered, queue, spawned, processedIds, jobs, histories>>
  BY DEF Arrive, RecoverCheck, Poll, RecoverLoad, RecoverDone, Stop, Restart, outside
<1>3. /\ server' \in [Msgs -> {"absent", "pending", "processed"}]
      /\ \A m \in Msgs : server'[m] = "processed" => server[m] = "processed"
  BY <1>1 DEF Arrive, RecoverCheck, Poll, RecoverLoad, RecoverDone, Stop, Restart, outside,
     TypeOK
<1>4. up' \in BOOLEAN /\ shutdown' \in BOOLEAN /\ polled' \subseteq Msgs
  <2>1. CASE \E m \in Msgs : Arrive(m) \/ RecoverCheck(m)
    BY <1>1, <2>1 DEF Arrive, RecoverCheck, TypeOK
  <2>2. CASE RecoverLoad \/ RecoverDone
    BY <1>1, <2>2 DEF RecoverLoad, RecoverDone, TypeOK
  <2>3. CASE Poll
    BY <1>1, <2>3 DEF Poll, TypeOK
  <2>4. CASE Stop \/ Restart
    BY <1>1, <2>4 DEF Stop, Restart, TypeOK
  <2>5. QED BY <2>1, <2>2, <2>3, <2>4
<1>5. faults' \in 0..MaxFaults
  BY <1>1, PipelineAssumption DEF Arrive, RecoverCheck, Poll, RecoverLoad, RecoverDone, Stop,
     Restart, Fault, TypeOK
<1>6. /\ recovery' \in [at : {"load", "next", "dequeue", "resubmit", "done"},
                        todo : SUBSET Msgs, msg : Msgs \cup {NoMsg}]
      /\ recovery'.at \in {"dequeue", "resubmit"} => recovery'.msg \in Msgs
      /\ recovery'.at = "dequeue" => delivered[recovery'.msg] # {}
  <2>1. CASE UNCHANGED recovery
    BY <1>1, <2>1 DEF TypeOK, InUse, PipelineInv, Accounts
  <2>2. CASE RecoverLoad \/ RecoverDone
    BY <1>1, <2>2 DEF RecoverLoad, RecoverDone, TypeOK
  <2>3. ASSUME NEW m \in Msgs, RecoverCheck(m)
        PROVE  <1>6!:
    BY <1>1, <2>3 DEF RecoverCheck, RecoverNext, TypeOK
  <2>4. QED BY <2>1, <2>2, <2>3 DEF Arrive, Poll, Stop, Restart
<1>7. Shape'
  BY <1>1, <1>2, <1>3, <1>4, <1>5, <1>6 DEF Shape, TypeOK, InUse, histories
<1>8. LockAlone' /\ FirstTurns'
  BY <1>2 DEF PipelineInv, LockAlone, ProjectAt, FirstTurns, histories
<1>9. Accounts'
  BY <1>2, <1>3, <1>6 DEF PipelineInv, Accounts, Accounted, histories
<1>10. QED BY <1>7, <1>8, <1>9 DEF PipelineInv

\* Recovery takes a message off the queue for which the server has a reply.
LEMMA RecoverDequeueStep ==
    ASSUME PipelineInv, RecoverDequeue
    PROVE  PipelineInv'
<1>1. PICK m \in Msgs : m = recovery.msg
  BY DEF RecoverDequeue, PipelineInv, Shape, InUse
<1>2. /\ TypeOK /\ InUse /\ delivered[m] # {} /\ queue' = queue \ {m}
      /\ told' = told \cup {m}
      /\ recovery' = [recovery EXCEPT !.at = "next", !.msg = NoMsg]
      /\ UNCHANGED <<server, delivered, up, shutdown, polled, spawned, processedIds,
                     jobs, begun, wiped, attempted, faults>>
  BY <1>1 DEF RecoverDequeue, PipelineInv, Shape, Accounts
<1>3. /\ recovery' \in [at : {"load", "next", "dequeue", "resubmit", "done"},
                        todo : SUBSET Msgs, msg : Msgs \cup {NoMsg}]
      /\ recovery'.at = "next"
  BY <1>2 DEF TypeOK
<1>4. Shape'
  BY <1>2, <1>3 DEF Shape, TypeOK, InUse
<1>5. \A x \in Msgs : Accounted(x) => Accounted(x)'
  BY <1>2 DEF Accounted
<1>6. Accounts'
  <2>1. \A x \in Msgs : server'[x] = "processed" => Accounted(x)'
    BY <1>2, <1>5 DEF PipelineInv, Accounts
  <2>2. ASSUME NEW x \in Msgs, x \in processedIds
        PROVE  \/ Accounted(x)'
               \/ \E j \in Slots : jobs[j].msg = x /\ jobs[j].at \in {"enqueue", "error"}
    BY <1>5, <2>2 DEF PipelineInv, Accounts
  <2>3. ASSUME NEW j \in Slots
        PROVE  /\ jobs[j].at \in {"remark", "mark", "turn", "send"} => Accounted(jobs[j].msg)'
               /\ jobs[j].at = "dequeue" => jobs[j].msg \in attempted
    BY <1>2 DEF PipelineInv, Accounts, Accounted
  <2>4. processedIds \subseteq Msgs
    BY <1>2 DEF TypeOK
  <2>5. QED BY <1>2, <1>3, <2>1, <2>2, <2>3, <2>4 DEF Accounts
<1>7. LockAlone' /\ FirstTurns'
  BY <1>2 DEF PipelineInv, LockAlone, ProjectAt, FirstTurns
<1>8. QED BY <1>4, <1>6, <1>7 DEF PipelineInv

\* What a crash leaves is what the queue, the server and the replies say.
LEMMA DieStep ==
    ASSUME PipelineInv, Exit \/ Crash
    PROVE  PipelineInv'
<1>1. TypeOK /\ Die
  BY DEF PipelineInv, Shape, Exit, Crash
<1>2. faults' \in 0..MaxFaults
  BY <1>1, PipelineAssumption DEF Exit, Crash, Fault, TypeOK
<1>3. Chunks \in Nat \ {0} /\ "free" \notin LockStages
  BY PipelineAssumption DEF LockStages
<1>4. FreeJob \in Job /\ FreeJob.at = "free" /\ FreeJob.sent = 0
  BY <1>3, StagesKnown DEF FreeJob, Job
<1>5. /\ jobs' \in [Slots -> Job] /\ \A j \in Slots : jobs'[j] = FreeJob
  BY <1>1, <1>4 DEF Die
<1>6. /\ recovery' \in [at : {"load", "next", "dequeue", "resubmit", "done"},
                        todo : SUBSET Msgs, msg : Msgs \cup {NoMsg}]
      /\ recovery'.at = "load"
  BY <1>1 DEF Die, IdleRecovery
<1>7. /\ up' = FALSE /\ shutdown' = FALSE /\ polled' = {} /\ spawned' = {}
      /\ processedIds' = {} /\ begun' = [m \in Msgs |-> 0] /\ wiped' = FALSE
      /\ UNCHANGED <<server, delivered, queue, attempted, told>>
  BY <1>1 DEF Die, outside
<1>8. Shape'
  <2>1. TypeOK'
    BY <1>1, <1>2, <1>5, <1>6, <1>7 DEF TypeOK, Job
  <2>2. InUse'
    BY <1>3, <1>4, <1>5, <1>6 DEF InUse
  <2>3. QED BY <2>1, <2>2 DEF Shape
<1>9. LockAlone' /\ FirstTurns'
  BY <1>3, <1>4, <1>5, <1>7 DEF LockAlone, FirstTurns
<1>10. Accounts'
  BY <1>4, <1>5, <1>6, <1>7 DEF PipelineInv, Accounts, Accounted
<1>11. QED BY <1>8, <1>9, <1>10 DEF PipelineInv

-----------------------------------------------------------------------------
\* The initial states.
LEMMA InvInit == Init => PipelineInv
<1> SUFFICES ASSUME Init PROVE PipelineInv
  OBVIOUS
<1>1. Chunks \in Nat \ {0} /\ "free" \notin LockStages
  BY PipelineAssumption DEF LockStages
<1>2. FreeJob \in Job /\ FreeJob.at = "free" /\ FreeJob.sent = 0
  BY <1>1, StagesKnown DEF FreeJob, Job
<1>3. /\ jobs \in [Slots -> Job] /\ \A j \in Slots : jobs[j] = FreeJob
  BY <1>2 DEF Init
<1>4. TypeOK
  <2>1. /\ faults \in 0..MaxFaults
        /\ recovery \in [at : {"load", "next", "dequeue", "resubmit", "done"},
                         todo : SUBSET Msgs, msg : Msgs \cup {NoMsg}]
    BY PipelineAssumption DEF Init, IdleRecovery
  <2>2. /\ server \in [Msgs -> {"absent", "pending", "processed"}]
        /\ delivered \in [Msgs -> SUBSET (0..Chunks)] /\ begun \in [Msgs -> Nat]
    BY DEF Init
  <2>3. QED BY <1>3, <2>1, <2>2 DEF Init, TypeOK, Job
<1>5. InUse
  BY <1>1, <1>2, <1>3 DEF Init, InUse, IdleRecovery
<1>6. LockAlone
  BY <1>1, <1>2, <1>3 DEF LockAlone
<1>7. Accounts /\ FirstTurns
  BY <1>2, <1>3 DEF Init, Accounts, FirstTurns, IdleRecovery
<1>8. QED BY <1>4, <1>5, <1>6, <1>7 DEF PipelineInv, Shape

\* Every step keeps the inductive invariant.
LEMMA InvStep == PipelineInv /\ [Next]_vars => PipelineInv'
<1> SUFFICES ASSUME PipelineInv, [Next]_vars PROVE PipelineInv'
  OBVIOUS
<1>1. ASSUME NEW j \in Slots, JobStep(j) PROVE PipelineInv'
  BY <1>1, QuietSteps, CheckStep, RemarkStep, EnqueueStep, MarkStep, ReplyStep,
     DequeueStep, FinishStep DEF JobStep
<1>2. CASE Polling \/ Recover
  BY <1>2, HandOverStep, BystanderStep, RecoverDequeueStep DEF Polling, Recover
<1>3. CASE (\E m \in Msgs : Arrive(m)) \/ Stop \/ Restart
  BY <1>3, BystanderStep
<1>4. CASE Exit \/ Crash
  BY <1>4, DieStep
<1>5. CASE UNCHANGED vars
  BY <1>5 DEF vars, outside, histories, PipelineInv, Shape, TypeOK, InUse, LockAlone,
     ProjectAt, Accounts, Accounted, FirstTurns
<1>6. QED BY <1>1, <1>2, <1>3, <1>4, <1>5 DEF Next

(* The inductive invariant holds in every behaviour, crashes included.       *)
THEOREM PipelineInvariant == Spec => []PipelineInv
BY InvInit, InvStep, PTL DEF Spec

(* Every variable keeps its type; no answer has a part beyond its last.      *)
THEOREM PipelineTypes == Spec => []TypeOK
<1>1. PipelineInv => TypeOK
  BY DEF PipelineInv, Shape
<1>2. QED BY <1>1, PipelineInvariant, PTL

(* A request the server no longer offers is in queue.json, or an answer or   *)
(* an error has been sent for it, whatever crashes, stops and lost calls     *)
(* there have been.                                                          *)
THEOREM NoRequestLost == Spec => []NothingLost
<1>1. PipelineInv => NothingLost
  BY DEF PipelineInv, Accounts, Accounted, NothingLost
<1>2. QED BY <1>1, PipelineInvariant, PTL

(* While processed_ids is not cleared, no message gets two turns between two *)
(* restarts.                                                                 *)
THEOREM TurnsNotRepeated == Spec => []OneTurnPerLife
<1>1. PipelineInv => OneTurnPerLife
  BY DEF PipelineInv, FirstTurns, OneTurnPerLife
<1>2. QED BY <1>1, PipelineInvariant, PTL

(* Both together: a request is kept, and not worked on twice in one life.     *)
THEOREM RequestsSafe == Spec => []RequestsKept
<1>1. QED BY NoRequestLost, TurnsNotRepeated, PTL DEF RequestsKept

(* The project lock: no two jobs of a project at work at once.               *)
THEOREM ProjectsExclusive == Spec => []OneHolder
<1>1. ASSUME PipelineInv, NEW p \in Projects PROVE Cardinality(LockHolders(p)) <= 1
  <2>1. CASE LockHolders(p) = {}
    BY <2>1, FS_EmptySet
  <2>2. ASSUME NEW j \in LockHolders(p) PROVE Cardinality(LockHolders(p)) <= 1
    <3>1. LockHolders(p) = {j}
      BY <1>1, <2>2 DEF LockHolders, PipelineInv, LockAlone
    <3>2. QED BY <3>1, FS_Singleton
  <2>3. QED BY <2>1, <2>2
<1>2. PipelineInv => OneHolder
  BY <1>1 DEF OneHolder
<1>3. QED BY <1>2, PipelineInvariant, PTL

-----------------------------------------------------------------------------
(* The refinement of Custody.                                                *)

\* Whatever the daemon has of a message, it has from the server.
Listed(m) == server[m] # "absent"
AllListed ==
    /\ \A m \in Msgs : m \in polled \/ m \in queue \/ m \in recovery.todo => Listed(m)
    /\ recovery.at \in {"dequeue", "resubmit"} => Listed(recovery.msg)
    /\ \A j \in Slots : jobs[j].at # "free" => Listed(jobs[j].msg)

CustodyInv == PipelineInv /\ AllListed

HeldListed ==
    \A m \in Msgs : m \in polled' \/ m \in queue' \/ m \in recovery'.todo
        => m \in polled \/ m \in queue \/ m \in recovery.todo \/ Listed(m)
JobsListed ==
    \A j \in Slots : jobs'[j].at # "free" => jobs'[j].msg \in Msgs /\ Listed(jobs'[j].msg)
RecoveryListedNext ==
    recovery'.at \in {"dequeue", "resubmit"} => recovery'.msg \in Msgs /\ Listed(recovery'.msg)

\* What a step has to see to: the jobs, the queue and the rest of a response hold
\* messages that were held before, or are listed.
LEMMA ListedKept ==
    ASSUME AllListed, PipelineInv,
           \A m \in Msgs : Listed(m) => Listed(m)',
           HeldListed, JobsListed, RecoveryListedNext
    PROVE  AllListed'
<1>1. ASSUME NEW m \in Msgs, m \in polled' \/ m \in queue' \/ m \in recovery'.todo
      PROVE  Listed(m)'
  BY <1>1 DEF AllListed, HeldListed
<1>2. ASSUME recovery'.at \in {"dequeue", "resubmit"} PROVE server'[recovery'.msg] # "absent"
  BY <1>2 DEF Listed, RecoveryListedNext
<1>3. ASSUME NEW j \in Slots, jobs'[j].at # "free" PROVE server'[jobs'[j].msg] # "absent"
  BY <1>3 DEF Listed, JobsListed
<1>4. QED BY <1>1, <1>2, <1>3 DEF AllListed, Listed

\* A job has its message from the server.
LEMMA JobListed ==
    ASSUME CustodyInv, NEW j \in Slots, jobs[j].at # "free"
    PROVE  jobs[j].msg \in Msgs /\ Listed(jobs[j].msg)
BY DEF CustodyInv, AllListed, PipelineInv, Shape, InUse

\* So has recovery.
LEMMA RecoveryListed ==
    ASSUME CustodyInv, recovery.at \in {"dequeue", "resubmit"}
    PROVE  recovery.msg \in Msgs /\ Listed(recovery.msg)
BY DEF CustodyInv, AllListed, PipelineInv, Shape, InUse

\* A row of the server's table does not go away.
LEMMA RowsStay ==
    ASSUME PipelineInv, [Next]_vars, NEW m \in Msgs, Listed(m)
    PROVE  Listed(m)'
<1>1. server \in [Msgs -> {"absent", "pending", "processed"}]
  BY DEF PipelineInv, Shape, TypeOK
<1>2. CASE UNCHANGED server
  BY <1>2 DEF Listed
<1>3. ASSUME NEW x \in Msgs, server' = [server EXCEPT ![x] = "pending"] PROVE Listed(m)'
  BY <1>1, <1>3 DEF Listed
<1>4. ASSUME NEW j \in Slots, MarkProcessed(jobs[j].msg) PROVE Listed(m)'
  BY <1>1, <1>4 DEF Listed, MarkProcessed
<1>5. ASSUME NEW j \in Slots, JobStep(j) PROVE Listed(m)'
  BY <1>2, <1>4, <1>5 DEF JobStep, GetLane, Lock, Check, Remark, EnqueueMessage, Mark,
     CommandAnswered, TurnEnds, Raise, ReplyError, SendChunk, Dequeue, Followup, Finish, outside
<1>6. QED BY <1>2, <1>3, <1>5 DEF Next, Arrive, Polling, Poll, HandlePolled, Recover, RecoverLoad,
     RecoverCheck, RecoverNext, RecoverDequeue, RecoverResubmit, RecoverDone, Stop, Exit, Crash,
     Die, Restart, vars, outside

\* A step of a job gives no job another message, and puts into the queue no other than
\* its own.
LEMMA JobStepKeeps ==
    ASSUME CustodyInv, NEW j \in Slots, JobStep(j)
    PROVE  /\ \A i \in Slots : jobs'[i].at # "free"
                => jobs[i].at # "free" /\ jobs'[i].msg = jobs[i].msg
           /\ queue' \subseteq queue \cup {jobs[j].msg} /\ jobs[j].at # "free"
           /\ UNCHANGED <<polled, recovery>>
<1>1. /\ UNCHANGED <<polled, recovery>> /\ jobs[j].at # "free"
      /\ queue' \subseteq queue \cup {jobs[j].msg}
  BY DEF JobStep, GetLane, Lock, Check, Remark, EnqueueMessage, Mark, CommandAnswered, TurnEnds,
     Raise, ReplyError, SendChunk, Dequeue, Followup, Finish, outside, AtStage
<1>2. PICK rec : jobs' = [jobs EXCEPT ![j] = rec] /\ (rec.at # "free" => rec.msg = jobs[j].msg)
  <2>1. jobs \in [Slots -> Job]
    BY DEF CustodyInv, PipelineInv, Shape, TypeOK, Job
  <2>2. ASSUME NEW s, Goto(j, s)
        PROVE  \E rec : jobs' = [jobs EXCEPT ![j] = rec] /\ rec.msg = jobs[j].msg
    <3>1. jobs' = [jobs EXCEPT ![j] = [jobs[j] EXCEPT !.at = s]]
      BY <2>1, <2>2 DEF Goto
    <3>2. [jobs[j] EXCEPT !.at = s].msg = jobs[j].msg
      BY <2>1 DEF Job
    <3>3. QED BY <3>1, <3>2
  <2>3. CASE \E s : Goto(j, s)
    BY <2>2, <2>3
  <2>4. ASSUME NEW s, NEW l, jobs' = [jobs EXCEPT ![j].at = s, ![j].late = l]
        PROVE  \E rec : jobs' = [jobs EXCEPT ![j] = rec] /\ rec.msg = jobs[j].msg
    <3>1. jobs' = [jobs EXCEPT ![j] = [jobs[j] EXCEPT !.at = s, !.late = l]]
      BY <2>1, <2>4
    <3>2. [jobs[j] EXCEPT !.at = s, !.late = l].msg = jobs[j].msg
      BY <2>1 DEF Job
    <3>3. QED BY <3>1, <3>2
  <2>5. ASSUME NEW s, NEW k, \/ jobs' = [jobs EXCEPT ![j].sent = k, ![j].at = s]
                             \/ jobs' = [jobs EXCEPT ![j].at = s, ![j].sent = k]
        PROVE  \E rec : jobs' = [jobs EXCEPT ![j] = rec] /\ rec.msg = jobs[j].msg
    <3>1. jobs' = [jobs EXCEPT ![j] = [jobs[j] EXCEPT !.sent = k, !.at = s]]
      BY <2>1, <2>5
    <3>2. [jobs[j] EXCEPT !.sent = k, !.at = s].msg = jobs[j].msg
      BY <2>1 DEF Job
    <3>3. QED BY <3>1, <3>2
  <2>6. ASSUME NEW k, jobs' = [jobs EXCEPT ![j].sent = k]
        PROVE  \E rec : jobs' = [jobs EXCEPT ![j] = rec] /\ rec.msg = jobs[j].msg
    <3>1. jobs' = [jobs EXCEPT ![j] = [jobs[j] EXCEPT !.sent = k]]
      BY <2>1, <2>6
    <3>2. [jobs[j] EXCEPT !.sent = k].msg = jobs[j].msg
      BY <2>1 DEF Job
    <3>3. QED BY <3>1, <3>2
  <2>7. CASE jobs' = [jobs EXCEPT ![j] = FreeJob]
    <3>1. FreeJob.at = "free"
      BY DEF FreeJob
    <3>2. QED BY <2>7, <3>1
  <2>8. QED BY <2>3, <2>4, <2>5, <2>6, <2>7 DEF JobStep, GetLane, Lock, Check, Remark, EnqueueMessage,
     Mark, CommandAnswered, TurnEnds, Raise, ReplyError, SendChunk, Dequeue, Followup, Finish
<1>3. jobs \in [Slots -> Job]
  BY DEF CustodyInv, PipelineInv, Shape, TypeOK, Job
<1>4. ASSUME NEW i \in Slots, jobs'[i].at # "free"
      PROVE  jobs[i].at # "free" /\ jobs'[i].msg = jobs[i].msg
  <2>1. CASE i = j
    BY <1>1, <1>2, <1>3, <1>4, <2>1
  <2>2. CASE i # j
    BY <1>2, <1>3, <1>4, <2>2
  <2>3. QED BY <2>1, <2>2
<1>5. QED BY <1>1, <1>4

\* A submitted message that is listed keeps the jobs' messages listed.
LEMMA SubmitListed ==
    ASSUME CustodyInv, NEW m \in Msgs, NEW recovered \in BOOLEAN, Submit(m, recovered), Listed(m)
    PROVE  JobsListed
<1>1. TypeOK
  BY DEF CustodyInv, PipelineInv, Shape
<1>2. PICK slot \in Slots : /\ jobs'[slot].msg = m
                            /\ \A i \in Slots \ {slot} : jobs'[i] = jobs[i]
  BY <1>1, JobSubmitted
<1>3. QED BY <1>2, JobListed DEF JobsListed

\* Every step keeps to what the server has listed.
LEMMA ListedStep == CustodyInv /\ [Next]_vars => AllListed'
<1> SUFFICES ASSUME CustodyInv, [Next]_vars PROVE AllListed'
  OBVIOUS
<1>1. PipelineInv /\ AllListed /\ TypeOK
  BY DEF CustodyInv, PipelineInv, Shape
<1>2. \A m \in Msgs : Listed(m) => Listed(m)'
  BY <1>1, RowsStay
<1>3. /\ recovery.at \in {"dequeue", "resubmit"} => recovery.msg \in Msgs /\ Listed(recovery.msg)
      /\ \A j \in Slots : jobs[j].at # "free" => jobs[j].msg \in Msgs /\ Listed(jobs[j].msg)
  BY JobListed, RecoveryListed
<1>4. ASSUME NEW j \in Slots, JobStep(j) PROVE AllListed'
  <2>1. /\ \A i \in Slots : jobs'[i].at # "free"
             => jobs[i].at # "free" /\ jobs'[i].msg = jobs[i].msg
        /\ queue' \subseteq queue \cup {jobs[j].msg} /\ jobs[j].at # "free"
        /\ UNCHANGED <<polled, recovery>>
    BY <1>4, JobStepKeeps
  <2>2. JobsListed /\ RecoveryListedNext
    BY <1>3, <2>1 DEF JobsListed, RecoveryListedNext
  <2>3. HeldListed
    BY <1>3, <2>1 DEF HeldListed
  <2>4. QED BY <1>1, <1>2, <2>2, <2>3, ListedKept
<1>5. CASE Poll
  <2>1. \A m \in polled' : Listed(m)
    BY <1>5 DEF Poll, Listed
  <2>2. UNCHANGED <<queue, recovery, jobs>>
    BY <1>5 DEF Poll, outside
  <2>3. HeldListed /\ JobsListed /\ RecoveryListedNext
    BY <1>3, <2>1, <2>2 DEF HeldListed, JobsListed, RecoveryListedNext
  <2>4. QED BY <1>1, <1>2, <2>3, ListedKept
<1>6. ASSUME NEW m \in Msgs, HandlePolled(m) PROVE AllListed'
  <2>1. Listed(m) /\ polled' \subseteq polled /\ UNCHANGED <<queue, recovery>>
    BY <1>1, <1>6 DEF HandlePolled, AllListed, outside
  <2>2. JobsListed
    <3>1. CASE UNCHANGED jobs
      BY <1>3, <3>1 DEF JobsListed
    <3>2. CASE Submit(m, FALSE)
      BY <2>1, <3>2, SubmitListed
    <3>3. QED BY <1>6, <3>1, <3>2 DEF HandlePolled
  <2>3. HeldListed /\ RecoveryListedNext
    BY <1>3, <2>1 DEF HeldListed, RecoveryListedNext
  <2>4. QED BY <1>1, <1>2, <2>2, <2>3, ListedKept
<1>7. CASE RecoverLoad
  <2>1. /\ recovery'.todo = queue /\ recovery'.at = "next"
        /\ UNCHANGED <<queue, polled, jobs>>
    BY <1>1, <1>7 DEF RecoverLoad, outside, TypeOK
  <2>2. HeldListed /\ JobsListed /\ RecoveryListedNext
    BY <1>3, <2>1 DEF HeldListed, JobsListed, RecoveryListedNext
  <2>3. QED BY <1>1, <1>2, <2>2, ListedKept
<1>8. ASSUME NEW m \in Msgs, RecoverCheck(m) PROVE AllListed'
  <2>1. /\ recovery'.todo \subseteq recovery.todo /\ recovery'.msg = m /\ Listed(m)
        /\ UNCHANGED <<queue, polled, jobs>>
    BY <1>1, <1>8 DEF RecoverCheck, RecoverNext, outside, AllListed
  <2>2. HeldListed /\ JobsListed /\ RecoveryListedNext
    BY <1>3, <2>1 DEF HeldListed, JobsListed, RecoveryListedNext
  <2>3. QED BY <1>1, <1>2, <2>2, ListedKept
<1>9. CASE RecoverDequeue \/ RecoverDone
  <2>1. /\ recovery'.at \notin {"dequeue", "resubmit"} /\ recovery'.todo = recovery.todo
        /\ queue' \subseteq queue /\ UNCHANGED <<polled, jobs>>
    BY <1>1, <1>9 DEF RecoverDequeue, RecoverDone, outside, TypeOK
  <2>2. HeldListed /\ JobsListed /\ RecoveryListedNext
    BY <1>3, <2>1 DEF HeldListed, JobsListed, RecoveryListedNext
  <2>3. QED BY <1>1, <1>2, <2>2, ListedKept
<1>10. CASE RecoverResubmit
  <2>1. /\ recovery.at = "resubmit" /\ Submit(recovery.msg, TRUE)
        /\ recovery'.at = "next" /\ recovery'.todo = recovery.todo /\ UNCHANGED <<polled, queue>>
    BY <1>1, <1>10 DEF RecoverResubmit, outside, TypeOK
  <2>2. JobsListed
    BY <1>3, <2>1, SubmitListed
  <2>3. HeldListed /\ RecoveryListedNext
    BY <1>3, <2>1 DEF HeldListed, RecoveryListedNext
  <2>4. QED BY <1>1, <1>2, <2>2, <2>3, ListedKept
<1>11. CASE Exit \/ Crash
  <2>1. /\ \A j \in Slots : jobs'[j].at = "free"
        /\ recovery'.todo = {} /\ recovery'.at = "load" /\ polled' = {} /\ UNCHANGED queue
    BY <1>11 DEF Exit, Crash, Die, FreeJob, IdleRecovery, outside
  <2>2. HeldListed /\ JobsListed /\ RecoveryListedNext
    BY <1>3, <2>1 DEF HeldListed, JobsListed, RecoveryListedNext
  <2>3. QED BY <1>1, <1>2, <2>2, ListedKept
<1>12. CASE UNCHANGED <<queue, polled, jobs, recovery>>
  <2>1. HeldListed /\ JobsListed /\ RecoveryListedNext
    BY <1>3, <1>12 DEF HeldListed, JobsListed, RecoveryListedNext
  <2>2. QED BY <1>1, <1>2, <2>1, ListedKept
<1>13. QED BY <1>4, <1>5, <1>6, <1>7, <1>8, <1>9, <1>10, <1>11, <1>12 DEF Next, Arrive, Polling,
     Recover, Stop, Restart, vars, outside

\* Nothing is listed at first, and nothing held.
LEMMA ListedStart == Init => CustodyInv
<1>1. Init => AllListed
  BY DEF Init, AllListed, FreeJob, IdleRecovery
<1>2. QED BY <1>1, InvInit DEF CustodyInv

\* The messages a word has gone out for stay the same, or one more is among them.
LEMMA AnsweredKept ==
    ASSUME UNCHANGED <<attempted, delivered>>
    PROVE  Answered' = Answered
BY DEF Answered

LEMMA AnsweredMore ==
    ASSUME PipelineInv, NEW m \in Msgs, NEW part, Reply(m, part),
           attempted' \in {attempted, attempted \cup {m}}
    PROVE  Answered' \in {Answered, Answered \cup {m}}
<1>1. /\ delivered \in [Msgs -> SUBSET (0..Chunks)]
      /\ \/ UNCHANGED delivered
         \/ delivered' = [delivered EXCEPT ![m] = @ \cup {part}]
  BY DEF Reply, PipelineInv, Shape, TypeOK
<1>2. \A x \in Msgs \ {m} : x \in Answered' <=> x \in Answered
  BY <1>1 DEF Answered
<1>3. m \in Answered => m \in Answered'
  BY <1>1 DEF Answered
<1>4. Answered \subseteq Msgs /\ Answered' \subseteq Msgs
  BY DEF Answered
<1>5. QED BY <1>2, <1>3, <1>4

\* What a message is accounted for with is what keeps it in custody.
LEMMA InCustodyHere ==
    ASSUME NEW m \in Msgs, Accounted(m)
    PROVE  Promise!InCustody(m)
BY DEF Accounted, Promise!InCustody, Answered

\* Marking a message, or losing the call, is letting go of it.
LEMMA MarkLetsGo ==
    ASSUME CustodyInv, NEW m \in Msgs, Listed(m), Accounted(m), MarkProcessed(m)
    PROVE  Promise!LetGo(m)
BY InCustodyHere DEF MarkProcessed, Promise!LetGo, Promise!Made, Listed

\* The steps of a job that do something to its message, as steps of the promise.
LEMMA RemarkReleases ==
    ASSUME CustodyInv, NEW j \in Slots, Remark(j)
    PROVE  Promise!Release(jobs[j].msg) /\ jobs[j].msg \in Msgs
<1>1. jobs[j].at = "remark" /\ jobs[j].msg \in Msgs /\ Listed(jobs[j].msg)
  BY JobListed DEF Remark, AtStage
<1>2. Accounted(jobs[j].msg)
  BY <1>1 DEF CustodyInv, PipelineInv, Accounts
<1>3. Promise!LetGo(jobs[j].msg)
  BY <1>1, <1>2, MarkLetsGo DEF Remark
<1>4. UNCHANGED <<queue, attempted, delivered, begun, wiped>>
  BY DEF Remark, histories
<1>5. QED BY <1>1, <1>3, <1>4, AnsweredKept DEF Promise!Release

LEMMA EnqueueKeeps ==
    ASSUME CustodyInv, NEW j \in Slots, EnqueueMessage(j)
    PROVE  Promise!Keep(jobs[j].msg) /\ jobs[j].msg \in Msgs
<1>1. jobs[j].msg \in Msgs /\ Listed(jobs[j].msg)
  BY JobListed DEF EnqueueMessage, AtStage
<1>2. /\ queue' = queue \cup {jobs[j].msg}
      /\ UNCHANGED <<server, attempted, delivered, begun, wiped>>
  BY DEF EnqueueMessage, histories
<1>3. QED BY <1>1, <1>2, AnsweredKept DEF Promise!Keep, Promise!Made, Listed

LEMMA MarkBegins ==
    ASSUME CustodyInv, NEW j \in Slots, Mark(j)
    PROVE  (Promise!Release(jobs[j].msg) \/ Promise!Begin(jobs[j].msg)) /\ jobs[j].msg \in Msgs
<1>1. jobs[j].at = "mark" /\ jobs[j].msg \in Msgs /\ Listed(jobs[j].msg)
  BY JobListed DEF Mark, AtStage
<1>2. Accounted(jobs[j].msg) /\ (~wiped => begun[jobs[j].msg] = 0)
  BY <1>1 DEF CustodyInv, PipelineInv, Accounts, FirstTurns
<1>3. Promise!LetGo(jobs[j].msg)
  BY <1>1, <1>2, MarkLetsGo DEF Mark
<1>4. UNCHANGED <<queue, Answered, wiped>>
  BY AnsweredKept DEF Mark
<1>5. UNCHANGED begun \/ begun' = [begun EXCEPT ![jobs[j].msg] = @ + 1]
  BY DEF Mark
<1>6. CASE UNCHANGED begun
  BY <1>1, <1>3, <1>4, <1>6 DEF Promise!Release
<1>7. CASE begun' = [begun EXCEPT ![jobs[j].msg] = @ + 1]
  BY <1>1, <1>2, <1>3, <1>4, <1>7 DEF Promise!Begin
<1>8. QED BY <1>5, <1>6, <1>7

LEMMA RepliesAnswer ==
    ASSUME CustodyInv, NEW j \in Slots, ReplyError(j) \/ SendChunk(j)
    PROVE  /\ jobs[j].msg \in Msgs
           /\ \/ Promise!Answer(jobs[j].msg)
              \/ UNCHANGED <<server, queue, Answered, begun, wiped>>
<1>1. jobs[j].msg \in Msgs /\ Listed(jobs[j].msg)
  BY JobListed DEF ReplyError, SendChunk, AtStage
<1>2. PICK part : Reply(jobs[j].msg, part)
  BY DEF ReplyError, SendChunk
<1>3. attempted' \in {attempted, attempted \cup {jobs[j].msg}}
  BY DEF ReplyError, SendChunk
<1>4. Answered' \in {Answered, Answered \cup {jobs[j].msg}}
  BY <1>1, <1>2, <1>3, AnsweredMore DEF CustodyInv
<1>5. UNCHANGED <<server, queue, begun, wiped>>
  BY DEF ReplyError, SendChunk
<1>6. QED BY <1>1, <1>4, <1>5 DEF Promise!Answer, Promise!Made, Listed

LEMMA DequeuesDrop ==
    ASSUME CustodyInv, NEW j \in Slots, Dequeue(j)
    PROVE  Promise!Drop(jobs[j].msg) /\ jobs[j].msg \in Msgs
<1>1. jobs[j].at = "dequeue" /\ jobs[j].msg \in Msgs
  BY JobListed DEF Dequeue, AtStage
<1>2. jobs[j].msg \in Answered
  BY <1>1 DEF CustodyInv, PipelineInv, Accounts, Answered
<1>3. /\ queue' = queue \ {jobs[j].msg}
      /\ UNCHANGED <<server, attempted, delivered, begun, wiped>>
  BY DEF Dequeue, histories
<1>4. QED BY <1>1, <1>2, <1>3, AnsweredKept DEF Promise!Drop

\* Recovery drops a message whose answer the server has.
LEMMA RecoveryDrops ==
    ASSUME CustodyInv, RecoverDequeue
    PROVE  Promise!Drop(recovery.msg) /\ recovery.msg \in Msgs
<1>1. recovery.at = "dequeue" /\ recovery.msg \in Msgs
  BY RecoveryListed DEF RecoverDequeue
<1>2. recovery.msg \in Answered
  BY <1>1 DEF CustodyInv, PipelineInv, Accounts, Answered
<1>3. /\ queue' = queue \ {recovery.msg}
      /\ UNCHANGED <<server, attempted, delivered, begun, wiped>>
  BY DEF RecoverDequeue
<1>4. QED BY <1>1, <1>2, <1>3, AnsweredKept DEF Promise!Drop

\* The other steps of a job: looking a message up may make processed_ids overflow, and
\* the rest is of no concern to the promise.
LEMMA OthersStutter ==
    ASSUME NEW j \in Slots,
           \/ GetLane(j) \/ Lock(j) \/ Check(j) \/ CommandAnswered(j) \/ TurnEnds(j) \/ Raise(j)
           \/ Followup(j) \/ Finish(j)
    PROVE  Promise!Overflow \/ UNCHANGED <<server, queue, Answered, begun, wiped>>
<1>1. UNCHANGED <<server, queue, delivered, attempted, begun>> /\ (wiped' = TRUE \/ UNCHANGED wiped)
  BY DEF GetLane, Lock, Check, CommandAnswered, TurnEnds, Raise, Followup, Finish, outside, histories
<1>2. (~wiped)' = FALSE <=> wiped' = TRUE
  OBVIOUS
<1>3. QED BY <1>1, AnsweredKept DEF Promise!Overflow

\* Every step of the pipeline is one of the promise, or hidden behind it.
LEMMA StepKeepsPromise ==
    ASSUME CustodyInv, [Next]_vars
    PROVE  Promise!CustodyNext \/ UNCHANGED <<server, queue, Answered, begun, ~wiped>>
<1> DEFINE Hidden == UNCHANGED <<server, queue, Answered, begun, wiped>>
<1>1. ASSUME NEW m \in Msgs, Arrive(m) PROVE Promise!CustodyNext
  <2>1. Promise!Offer(m)
    BY <1>1, AnsweredKept DEF Arrive, Promise!Offer, Promise!Made, histories
  <2>2. QED BY <2>1 DEF Promise!CustodyNext
<1>2. ASSUME NEW j \in Slots, JobStep(j) PROVE Promise!CustodyNext \/ Hidden
  <2>1. CASE Remark(j)
    BY <2>1, RemarkReleases DEF Promise!CustodyNext
  <2>2. CASE EnqueueMessage(j)
    BY <2>2, EnqueueKeeps DEF Promise!CustodyNext
  <2>3. CASE Mark(j)
    BY <2>3, MarkBegins DEF Promise!CustodyNext
  <2>4. CASE ReplyError(j) \/ SendChunk(j)
    BY <2>4, RepliesAnswer DEF Promise!CustodyNext
  <2>5. CASE Dequeue(j)
    BY <2>5, DequeuesDrop DEF Promise!CustodyNext
  <2>6. CASE \/ GetLane(j) \/ Lock(j) \/ Check(j) \/ CommandAnswered(j) \/ TurnEnds(j)
             \/ Raise(j) \/ Followup(j) \/ Finish(j)
    BY <2>6, OthersStutter DEF Promise!CustodyNext
  <2>7. QED BY <1>2, <2>1, <2>2, <2>3, <2>4, <2>5, <2>6 DEF JobStep
<1>3. CASE RecoverDequeue
  BY <1>3, RecoveryDrops DEF Promise!CustodyNext
<1>4. CASE Exit \/ Crash
  <2>1. /\ UNCHANGED <<server, queue, attempted, delivered>>
        /\ begun' = [m \in Msgs |-> 0] /\ wiped' = FALSE
    BY <1>4 DEF Exit, Crash, Die, outside
  <2>2. (~wiped)' = TRUE
    BY <2>1
  <2>3. QED BY <2>1, <2>2, AnsweredKept DEF Promise!Forget, Promise!CustodyNext
<1>5. CASE \/ Polling \/ RecoverLoad \/ RecoverResubmit \/ RecoverDone \/ Stop \/ Restart
           \/ UNCHANGED vars \/ \E m \in Msgs : RecoverCheck(m)
  <2>1. UNCHANGED <<server, queue, attempted, delivered, begun, wiped>>
    BY <1>5 DEF Polling, Poll, HandlePolled, RecoverLoad, RecoverResubmit, RecoverDone, RecoverCheck,
       Stop, Restart, vars, outside, histories
  <2>2. QED BY <2>1, AnsweredKept
<1>6. Hidden => UNCHANGED <<server, queue, Answered, begun, ~wiped>>
  OBVIOUS
<1>7. \/ (\E m \in Msgs : Arrive(m)) \/ (\E j \in Slots : JobStep(j))
      \/ RecoverDequeue \/ Exit \/ Crash
      \/ Polling \/ RecoverLoad \/ RecoverResubmit \/ RecoverDone \/ Stop
      \/ Restart \/ UNCHANGED vars \/ \E m \in Msgs : RecoverCheck(m)
  BY DEF Next, Recover
<1> HIDE DEF Hidden
<1>8. QED BY <1>1, <1>2, <1>3, <1>4, <1>5, <1>6, <1>7

\* At first nobody has made a request.
LEMMA PromiseStarts == Init => Promise!CustodyInit
<1> SUFFICES ASSUME Init PROVE Promise!CustodyInit
  OBVIOUS
<1>1. Answered = {}
  BY DEF Init, Answered
<1>2. (~wiped) = TRUE
  BY DEF Init
<1>3. QED BY <1>1, <1>2 DEF Init, Promise!CustodyInit

(* Whatever is polled, locked, recovered, lost or cut short behind it: every   *)
(* behaviour of the pipeline is a behaviour of Custody, for any messages,      *)
(* projects, lanes, parts and bounds.                                         *)
THEOREM PipelineKeepsCustody == Spec => KeepsCustody
<1>1. CustodyInv /\ [Next]_vars => CustodyInv'
  BY InvStep, ListedStep DEF CustodyInv
<1>2. Spec => []CustodyInv
  BY <1>1, ListedStart, PTL DEF Spec
<1>3. CustodyInv /\ [Next]_vars
          => [Promise!CustodyNext]_<<server, queue, Answered, begun, ~wiped>>
  BY StepKeepsPromise
<1>4. QED BY <1>2, <1>3, PromiseStarts, PTL
          DEF Spec, KeepsCustody, Promise!CustodySpec, Promise!custodyVars

\* The promise says of its own accord that a request let go of is kept or answered, and
\* that none is come to twice in a life.
PromiseInv ==
    /\ server \in [Msgs -> {"absent", "pending", "processed"}] /\ begun \in [Msgs -> Nat]
    /\ \A m \in Msgs : server[m] = "processed" => Promise!InCustody(m)
    /\ ~wiped => \A m \in Msgs : begun[m] <= 1

LEMMA PromiseStep == PromiseInv /\ [Promise!CustodyNext]_(Promise!custodyVars) => PromiseInv'
<1> SUFFICES ASSUME PromiseInv, [Promise!CustodyNext]_(Promise!custodyVars) PROVE PromiseInv'
  OBVIOUS
<1>1. ASSUME NEW m \in Msgs,
             Promise!Offer(m) \/ Promise!Keep(m) \/ Promise!Answer(m) \/ Promise!Drop(m)
      PROVE  PromiseInv'
  BY <1>1 DEF PromiseInv, Promise!Offer, Promise!Keep, Promise!Answer, Promise!Drop, Promise!Made,
     Promise!InCustody
<1>2. ASSUME NEW m \in Msgs, Promise!LetGo(m), UNCHANGED <<queue, Answered>>
      PROVE  /\ server' \in [Msgs -> {"absent", "pending", "processed"}]
             /\ \A x \in Msgs : server'[x] = "processed" => Promise!InCustody(x)'
  BY <1>2 DEF PromiseInv, Promise!LetGo, Promise!InCustody
<1>3. ASSUME NEW m \in Msgs, Promise!Release(m) PROVE PromiseInv'
  BY <1>2, <1>3 DEF PromiseInv, Promise!Release
<1>4. ASSUME NEW m \in Msgs, Promise!Begin(m) PROVE PromiseInv'
  <2>1. begun' \in [Msgs -> Nat] /\ (~wiped' => \A x \in Msgs : begun'[x] <= 1)
    BY <1>4 DEF PromiseInv, Promise!Begin
  <2>2. QED BY <1>2, <1>4, <2>1 DEF PromiseInv, Promise!Begin
<1>5. CASE Promise!Overflow \/ Promise!Forget \/ UNCHANGED Promise!custodyVars
  BY <1>5 DEF PromiseInv, Promise!Overflow, Promise!Forget, Promise!InCustody, Promise!custodyVars
<1>6. QED BY <1>1, <1>3, <1>4, <1>5 DEF Promise!CustodyNext

(* The promise is worth keeping: whoever implements Custody loses no request   *)
(* and comes to none twice in a life, however it goes about it.               *)
THEOREM CustodySuffices == KeepsCustody => []RequestsKept
<1>1. Promise!CustodyInit => PromiseInv
  BY DEF Promise!CustodyInit, PromiseInv
<1>2. PromiseInv => RequestsKept
  BY DEF PromiseInv, RequestsKept, NothingLost, OneTurnPerLife, Promise!InCustody, Answered
<1>3. QED BY <1>1, <1>2, PromiseStep, PTL DEF KeepsCustody, Promise!CustodySpec

-----------------------------------------------------------------------------
(* ManagerLoop: what becomes of a task.                                      *)

\* A task is in hand while its turns go on, and until the cycle that took it is over.
TaskInHand ==
    /\ at \in {"deep", "deepwait", "judge"} => task # None
    /\ task # None => at \in {"deep", "deepwait", "judge", "finish"} /\ task \in popped

\* It comes to the cycle's end only when its end has been told, or was cut short.
ToldBeforeEnd == at = "finish" /\ task # None => ended[task] \in {"told", "unheard"} \/ task \in short

\* The turns of a task and of an execution, and the silences in a row, stay below
\* their limits as long as another may follow.
TurnsLeft ==
    /\ at \in {"deep", "deepwait", "judge"} => turns <= MaxTurns
    /\ at \in {"exec", "suggest"} => turns < ExecTurns
    /\ at = "execwait" => turns <= ExecTurns
    /\ at \in {"deep", "deepwait", "judge"} => streak < MaxStreak
    /\ down => lives < MaxLives

\* A task given, but not when the state was being read, is in whatever state is to be put
\* in place of another; one that is just being given is in the dictionary, and nothing is
\* being read.
GivenKept ==
    /\ \A d \in accepted \ (popped \cup crossed) :
          /\ d \in mem.tasks /\ d \in file.tasks
          /\ at = "load" => d \in loaded.tasks
          /\ command # None => d \in command.tasks
    /\ giving # None /\ giving \notin popped \cup crossed =>
          giving \in mem.tasks /\ at # "load" /\ command = None

ManagerInv ==
    /\ ManagerTypeOK /\ TaskInHand /\ ToldBeforeEnd /\ TurnsLeft
    /\ ToldHowItEnded /\ GivenKept

\* Every step keeps the invariant.
LEMMA ManagerStep ==
  ASSUME ManagerInv, [ManagerNext]_managerVars
  PROVE  ManagerInv'
<1> USE ManagerAssumption
<1> USE DEF ManagerInv, ManagerTypeOK, TaskInHand, ToldBeforeEnd, TurnsLeft, ToldHowItEnded, GivenKept,
            Cycling, Message, thread, project, users, counters, history
<1>1. /\ mem.retry \in BOOLEAN
      /\ \A again \in BOOLEAN : /\ [mem EXCEPT !.retry = again] \in State
                               /\ [mem EXCEPT !.retry = again].tasks = mem.tasks
  BY DEF State
<1>2. CASE Woken
  BY <1>2 DEF Woken, Crosses, State
<1>3. CASE PutInPlace
  BY <1>3 DEF PutInPlace, Fresh, State
<1>4. CASE WaitedLong
  BY <1>4 DEF WaitedLong
<1>5. CASE Top
  BY <1>5 DEF Top
<1>6. CASE Stopped
  BY <1>6 DEF Stopped
<1>7. CASE Clear
  BY <1>7 DEF Clear
<1>8. CASE CycleRaises
  BY <1>8 DEF CycleRaises
<1>9. CASE Pop
  BY <1>9 DEF Pop, Save, State
<1>10. CASE DeepBusy
  BY <1>10 DEF DeepBusy
<1>11. CASE DeepTurn
  BY <1>11 DEF DeepTurn, Inject
<1>12. CASE DeepReply
  BY <1>12 DEF DeepReply
<1>13. CASE DeepSilence
  BY <1>13 DEF DeepSilence, Tell
<1>14. CASE Judge
  BY <1>14 DEF Judge, Tell
<1>15. CASE DeepOut
  BY <1>15 DEF DeepOut, Tell
<1>16. CASE CycleEnds
  BY <1>16 DEF CycleEnds, Save
<1>17. CASE Round
  <2>1. /\ mem' \in State /\ file' \in State
        /\ mem'.tasks = mem.tasks /\ (file'.tasks = mem.tasks \/ file' = file)
    BY <1>1, <1>17 DEF Round, Save
  <2>2. QED BY <1>17, <2>1 DEF Round
<1>18. CASE ScoutBusy
  <2>1. /\ mem' \in State /\ file' \in State
        /\ mem'.tasks = mem.tasks /\ (file'.tasks = mem.tasks \/ file' = file)
    BY <1>1, <1>18 DEF ScoutBusy, Save
  <2>2. QED BY <1>18, <2>1 DEF ScoutBusy
<1>19. CASE Scout
  BY <1>19 DEF Scout, Inject
<1>20. CASE ScoutReply
  BY <1>20 DEF ScoutReply
<1>21. CASE ScoutSilence
  <2>1. /\ mem' \in State /\ file' \in State
        /\ mem'.tasks = mem.tasks /\ (file'.tasks = mem.tasks \/ file' = file)
    BY <1>1, <1>21 DEF ScoutSilence, Save
  <2>2. QED BY <1>21, <2>1 DEF ScoutSilence
<1>22. CASE Triage
  <2>1. /\ mem' \in State /\ file' \in State
        /\ mem'.tasks = mem.tasks /\ (file'.tasks = mem.tasks \/ file' = file)
    BY <1>1, <1>22 DEF Triage, Save
  <2>2. QED BY <1>22, <2>1 DEF Triage
<1>23. CASE Suggest
  <2>1. /\ mem' \in State /\ file' \in State
        /\ mem'.tasks = mem.tasks /\ (file'.tasks = mem.tasks \/ file' = file)
    BY <1>1, <1>23 DEF Suggest, Save
  <2>2. QED BY <1>23, <2>1 DEF Suggest
<1>24. CASE Exec
  BY <1>24 DEF Exec, Inject
<1>25. CASE ExecEnds
  <2>1. /\ mem' \in State /\ file' \in State
        /\ mem'.tasks = mem.tasks /\ (file'.tasks = mem.tasks \/ file' = file)
    BY <1>1, <1>25 DEF ExecEnds, Save
  <2>2. QED BY <1>25, <2>1 DEF ExecEnds
<1>26. CASE RunReads
  BY <1>26 DEF RunReads, Crosses
<1>27. CASE RunWrites
  BY <1>27 DEF RunWrites
<1>28. CASE Refresh
  BY <1>28 DEF Refresh
<1>29. CASE UserTurn
  BY <1>29 DEF UserTurn
<1>30. CASE ProjectTurnBegins
  BY <1>30 DEF ProjectTurnBegins
<1>31. CASE ProjectTurnEnds
  BY <1>31 DEF ProjectTurnEnds
<1>32. CASE Shutdown
  BY <1>32 DEF Shutdown
<1>33. CASE ManagerRestarts
  <2>1. Fresh \in State
    BY DEF Fresh, State
  <2>2. ToldHowItEnded'
    BY <1>33 DEF ManagerRestarts
  <2>3. lives' \in 1..MaxLives /\ down' = FALSE /\ at' = "wait" /\ task' = None /\ turns' = 0 /\ streak' = 0
        /\ short' \subseteq Tasks /\ mem' = file /\ loaded' = Fresh /\ command' = None /\ giving' = None
        /\ UNCHANGED <<file, sent, late, commands, raises, accepted, popped, ended, crossed>>
        /\ wake' = FALSE /\ forced' = FALSE /\ busy' = FALSE
    BY <1>33 DEF ManagerRestarts
  <2>4. {wake, forced, busy, down}' \subseteq BOOLEAN
    BY <2>3
  <2>5. {mem, file, loaded}' \subseteq State /\ command' \in State \cup {None}
        /\ giving' \in Tasks \cup {None}
    BY <2>1, <2>3
  <2>6. ManagerTypeOK'
    BY <2>4, <2>5, <2>3
  <2>7. TaskInHand' /\ ToldBeforeEnd' /\ TurnsLeft'
    BY <2>3
  <2>8. GivenKept'
    <3>1. accepted' = accepted /\ popped' = popped /\ crossed' = crossed /\ mem' = file /\ file' = file
          /\ at' = "wait" /\ command' = None /\ giving' = None
      BY <2>3
    <3>2. GivenKept
      OBVIOUS
    <3>3. QED BY <3>1, <3>2
  <2>9. QED BY <2>2, <2>6, <2>7, <2>8
<1>34. ASSUME NEW d \in Tasks, DoAppends(d) PROVE ManagerInv'
  BY <1>34 DEF DoAppends, State
<1>35. CASE DoSaves
  BY <1>35 DEF DoSaves
<1>36. CASE UNCHANGED managerVars
  BY <1>36 DEF managerVars
<1> HIDE DEF ManagerInv
<1>37. QED
  BY <1>2, <1>3, <1>4, <1>5, <1>6, <1>7, <1>8, <1>9, <1>10, <1>11, <1>12, <1>13, <1>14, <1>15, <1>16, <1>17, <1>18, <1>19, <1>20, <1>21, <1>22, <1>23, <1>24, <1>25, <1>26, <1>27, <1>28, <1>29, <1>30, <1>31, <1>32, <1>33, <1>34, <1>36, <1>35 DEF ManagerNext, Manager, Loop, Deep, Rounds

\* The initial states.
LEMMA ManagerInvInit == ManagerInit => ManagerInv
<1> SUFFICES ASSUME ManagerInit PROVE ManagerInv
  OBVIOUS
<1>1. Fresh \in State
  BY DEF Fresh, State
<1>2. ManagerTypeOK
  <2>1. {mem, file, loaded} \subseteq State /\ command \in State \cup {None}
        /\ giving \in Tasks \cup {None}
    BY <1>1 DEF ManagerInit
  <2>2. {wake, forced, busy, down} \subseteq BOOLEAN
    BY DEF ManagerInit
  <2>3. /\ turns \in 0..(MaxTurns + ExecTurns) /\ streak \in 0..MaxStreak
        /\ commands \in 0..MaxCommands /\ lives \in 1..MaxLives /\ raises \in 0..MaxRaises
    BY ManagerAssumption DEF ManagerInit
  <2>4. /\ {sent, late} \subseteq Message /\ {accepted, popped, short, crossed} \subseteq SUBSET Tasks
        /\ ended \in [Tasks -> {"nothing", "told", "unheard"}]
        /\ at = "wait" /\ task = None
    BY DEF ManagerInit, Message
  <2>5. QED BY <2>1, <2>2, <2>3, <2>4 DEF ManagerTypeOK
<1>3. TaskInHand /\ ToldBeforeEnd /\ TurnsLeft /\ ToldHowItEnded /\ GivenKept
  BY DEF ManagerInit, TaskInHand, ToldBeforeEnd, TurnsLeft, ToldHowItEnded, GivenKept
<1>4. QED BY <1>2, <1>3 DEF ManagerInv

\* The inductive invariant of the manager's thread holds throughout.
THEOREM ManagerInvariant == ManagerSpec => []ManagerInv
BY ManagerInvInit, ManagerStep, PTL DEF ManagerSpec

\* Whoever writes the dictionary and the file, a task the user was told is registered is
\* in both until it is taken, unless it was given when an older state was to be put in
\* place; and over wake-ups, silences, exceptions, shutdowns and restarts its end is posted
\* to the user, unless it was cut short (manager/thread.py, worker.py:245-297).
THEOREM ManagerTasksAccounted == ManagerSpec => []TasksAccounted
<1>1. ManagerInv => TasksAccounted
  BY DEF ManagerInv, GivenKept, TasksAccounted, TasksKept
<1>2. QED BY <1>1, ManagerInvariant, PTL
=============================================================================
