-------------------------- MODULE DispatcherProofs --------------------------
(***************************************************************************)
(* Proofs about Dispatcher, for every set of messages, assignment of        *)
(* projects and configuration, and about SiteManager, for every set of      *)
(* commands, sites and ports.  The dispatcher's inductive invariant adds to *)
(* the accounting and the lane rules what its thread carries between the    *)
(* pick and the submit: exactly while it is about to submit, exactly one    *)
(* item is held.  The sites' two invariants are introduced below.           *)
(***************************************************************************)
EXTENDS Dispatcher, SiteManager, FiniteSetTheorems, TLAPS

\* The loop is between pick and submit exactly when an item is held.
HeldOne ==
    /\ \A a, b \in At({"held"}) : a = b
    /\ At({"held"}) # {} => loop = "submit"
    /\ loop = "submit" => At({"held"}) # {}

LaneInv == TypeOK /\ LaneAccounting /\ LaneSafety /\ HeldOne

-----------------------------------------------------------------------------
(* The clamps of the constructor: at least one lane, and at least one of     *)
(* them open to automatic turns.                                             *)
LEMMA Clamps ==
    /\ Lanes \in Nat \ {0} /\ Lanes = MaxWorkersCfg
    /\ Reserve \in 0..(Lanes - 1)
    /\ AutoCap \in 1..Lanes
<1>1. Lanes \in Nat \ {0} /\ Lanes = MaxWorkersCfg
  BY DispatcherAssumption DEF Lanes
<1>2. Reserve \in 0..(Lanes - 1)
  BY <1>1, DispatcherAssumption DEF Reserve
<1>3. AutoCap \in 1..Lanes
  BY <1>1, <1>2 DEF AutoCap
<1>4. QED BY <1>1, <1>2, <1>3

\* Every set of items is finite.
LEMMA LanesFinite ==
    /\ IsFiniteSet(InLanes) /\ IsFiniteSet(InLanes \cap AutoMsgs)
    /\ Cardinality(InLanes) \in Nat
    /\ Cardinality(InLanes \cap AutoMsgs) \in Nat
<1>1. InLanes \subseteq Msgs /\ InLanes \cap AutoMsgs \subseteq Msgs
  BY DEF InLanes, At
<1>2. IsFiniteSet(InLanes) /\ IsFiniteSet(InLanes \cap AutoMsgs)
  BY <1>1, FS_Subset, DispatcherAssumption
<1>3. QED BY <1>2, FS_CardinalityType

-----------------------------------------------------------------------------
(* What a step does to the lanes: nothing, one more, or one less.            *)

\* A step that moves no item in or out of a lane and no counter keeps both.
LEMMA LanesKept ==
    ASSUME LaneAccounting, LaneSafety,
           InLanes' = InLanes, UNCHANGED counters
    PROVE  LaneAccounting' /\ LaneSafety'
BY DEF LaneAccounting, LaneSafety, OneTurnPerProject, LaneBound, ReserveKept, counters

\* Taking a lane for a pickable item adds it to the lanes and to the counters.
LEMMA LaneTaken ==
    ASSUME LaneAccounting, LaneSafety, NEW m \in Msgs, m \notin InLanes,
           InLanes' = InLanes \cup {m}, Pickable(m),
           running \in Nat, autoRunning \in Nat,
           runningProjects' = runningProjects \cup {ProjectOf[m]},
           running' = running + 1,
           autoRunning' = IF m \in AutoMsgs THEN autoRunning + 1 ELSE autoRunning
    PROVE  LaneAccounting' /\ LaneSafety'
<1>1. running' = Cardinality(InLanes')
  BY LanesFinite, FS_AddElement DEF LaneAccounting
<1>2. autoRunning' = Cardinality(InLanes' \cap AutoMsgs)
  <2>1. CASE m \in AutoMsgs
    <3>1. InLanes' \cap AutoMsgs = (InLanes \cap AutoMsgs) \cup {m}
      BY <2>1
    <3>2. m \notin InLanes \cap AutoMsgs
      OBVIOUS
    <3>3. Cardinality(InLanes' \cap AutoMsgs) = Cardinality(InLanes \cap AutoMsgs) + 1
      BY <3>1, <3>2, LanesFinite, FS_AddElement
    <3>4. QED BY <2>1, <3>3 DEF LaneAccounting
  <2>2. CASE m \notin AutoMsgs
    <3>1. InLanes' \cap AutoMsgs = InLanes \cap AutoMsgs
      BY <2>2
    <3>2. QED BY <2>2, <3>1 DEF LaneAccounting
  <2>3. QED BY <2>1, <2>2
<1>3. runningProjects' = {ProjectOf[o] : o \in InLanes'}
  BY DEF LaneAccounting
<1>4. OneTurnPerProject'
  <2>1. \A o \in InLanes : ProjectOf[o] # ProjectOf[m]
    BY DEF Pickable, Eligible, LaneAccounting
  <2>2. QED BY <2>1 DEF LaneSafety, OneTurnPerProject
<1>5. LaneBound'
  BY <1>1, Clamps DEF Pickable, LaneBound
<1>6. ReserveKept'
  <2>1. CASE m \in AutoMsgs
    BY <2>1, <1>2, Clamps DEF Pickable, Eligible, ReserveKept, AutoCap
  <2>2. CASE m \notin AutoMsgs
    <3>1. InLanes' \cap AutoMsgs = InLanes \cap AutoMsgs
      BY <2>2
    <3>2. QED BY <3>1 DEF LaneSafety, ReserveKept
  <2>3. QED BY <2>1, <2>2
<1>7. QED BY <1>1, <1>2, <1>3, <1>4, <1>5, <1>6 DEF LaneAccounting, LaneSafety

\* Giving a lane back takes its item out of the lanes and of the counters; its
\* project has no other item there, so the project is free.
LEMMA LaneGivenBack ==
    ASSUME LaneAccounting, LaneSafety, NEW m \in Msgs, m \in InLanes,
           InLanes' = InLanes \ {m}, GiveBack(m),
           running \in Nat, autoRunning \in Nat
    PROVE  /\ LaneAccounting' /\ LaneSafety'
           /\ running' \in Nat /\ autoRunning' \in Nat
<1>1. /\ Cardinality(InLanes') = Cardinality(InLanes) - 1
      /\ Cardinality(InLanes') \in Nat
  BY LanesFinite, FS_RemoveElement, FS_CardinalityType
<1>2. running' = Cardinality(InLanes')
  BY <1>1 DEF LaneAccounting, GiveBack
<1>3. /\ autoRunning' = Cardinality(InLanes' \cap AutoMsgs)
      /\ autoRunning' \in Nat /\ autoRunning' <= autoRunning
  <2>1. CASE m \in AutoMsgs
    <3>1. InLanes' \cap AutoMsgs = (InLanes \cap AutoMsgs) \ {m}
      OBVIOUS
    <3>2. m \in InLanes \cap AutoMsgs
      BY <2>1
    <3>3. /\ Cardinality(InLanes' \cap AutoMsgs) = Cardinality(InLanes \cap AutoMsgs) - 1
          /\ Cardinality(InLanes' \cap AutoMsgs) \in Nat
      BY ZenonT(40), <3>1, <3>2, LanesFinite, FS_RemoveElement, FS_CardinalityType
    <3>4. QED BY <2>1, <3>3 DEF LaneAccounting, GiveBack
  <2>2. CASE m \notin AutoMsgs
    <3>1. InLanes' \cap AutoMsgs = InLanes \cap AutoMsgs
      BY <2>2
    <3>2. autoRunning' = autoRunning
      BY <2>2 DEF GiveBack
    <3>3. autoRunning = Cardinality(InLanes \cap AutoMsgs)
      BY DEF LaneAccounting
    <3>4. QED BY <3>1, <3>2, <3>3
  <2>3. QED BY <2>1, <2>2
<1>4. runningProjects' = {ProjectOf[o] : o \in InLanes'}
  BY DEF LaneAccounting, GiveBack, LaneSafety, OneTurnPerProject
<1>5. OneTurnPerProject'
  BY DEF LaneSafety, OneTurnPerProject
<1>6. LaneBound'
  BY <1>1, Clamps, LanesFinite DEF LaneSafety, LaneBound
<1>7. ReserveKept'
  BY <1>3, Clamps DEF LaneSafety, ReserveKept, LaneAccounting
<1>8. QED BY <1>1, <1>2, <1>3, <1>4, <1>5, <1>6, <1>7 DEF LaneAccounting, LaneSafety
-----------------------------------------------------------------------------
(* Where the step of each action leaves the lanes.                           *)

\* Moving one item between stages of the same side leaves the lanes alone.
LEMMA SameSide ==
    ASSUME TypeOK, NEW m \in Msgs, NEW s \in Stages,
           stage' = [stage EXCEPT ![m] = s],
           stage[m] \in LaneStages <=> s \in LaneStages
    PROVE  InLanes' = InLanes
BY DEF TypeOK, InLanes, At

\* The inductive step: every action of the dispatcher, of its callers, of the
\* pool and of the shutdown keeps LaneInv.
LEMMA LaneInvStep == LaneInv /\ [Next]_vars => LaneInv'
<1> SUFFICES ASSUME LaneInv, [Next]_vars PROVE LaneInv'
  OBVIOUS
<1> USE DEF LaneInv
<1>1. ASSUME NEW m \in Msgs, DrawSeq(m) PROVE LaneInv'
  <2>1. InLanes' = InLanes
    BY <1>1, SameSide DEF DrawSeq, Stages, LaneStages
  <2>2. LaneAccounting' /\ LaneSafety'
    BY <1>1, <2>1, LanesKept DEF DrawSeq
  <2>3. TypeOK'
    BY <1>1 DEF DrawSeq, TypeOK, Stages, counters
  <2>4. HeldOne'
    BY <1>1 DEF DrawSeq, TypeOK, HeldOne, At
  <2>5. QED BY <2>2, <2>3, <2>4
<1>2. ASSUME NEW m \in Msgs, Enqueue(m) PROVE LaneInv'
  <2>1. InLanes' = InLanes
    BY <1>2, SameSide DEF Enqueue, Stages, LaneStages
  <2>2. LaneAccounting' /\ LaneSafety'
    BY <1>2, <2>1, LanesKept DEF Enqueue
  <2>3. TypeOK'
    BY <1>2 DEF Enqueue, TypeOK, Stages, counters
  <2>4. HeldOne'
    BY <1>2 DEF Enqueue, TypeOK, HeldOne, At
  <2>5. QED BY <2>2, <2>3, <2>4
<1>3. CASE LoopCheck
  <2>1. InLanes' = InLanes
    BY <1>3 DEF LoopCheck, InLanes, At
  <2>2. LaneAccounting' /\ LaneSafety'
    BY <1>3, <2>1, LanesKept DEF LoopCheck
  <2>3. TypeOK'
    BY <1>3 DEF LoopCheck, TypeOK, counters
  <2>4. HeldOne'
    BY <1>3 DEF LoopCheck, TypeOK, HeldOne, At
  <2>5. QED BY <2>2, <2>3, <2>4
<1>4. CASE PickNothing
  <2>1. InLanes' = InLanes
    BY <1>4 DEF PickNothing, InLanes, At
  <2>2. LaneAccounting' /\ LaneSafety'
    BY <1>4, <2>1, LanesKept DEF PickNothing
  <2>3. TypeOK'
    BY <1>4 DEF PickNothing, TypeOK, counters
  <2>4. HeldOne'
    BY <1>4 DEF PickNothing, TypeOK, HeldOne, At
  <2>5. QED BY <2>2, <2>3, <2>4
<1>5. ASSUME NEW m \in Msgs, Pick(m) PROVE LaneInv'
  <2>1. m \notin InLanes /\ InLanes' = InLanes \cup {m}
    BY <1>5 DEF Pick, Pickable, Eligible, TypeOK, InLanes, At, LaneStages, Stages
  <2>2. LaneAccounting' /\ LaneSafety'
    BY <1>5, <2>1, LaneTaken DEF Pick, TypeOK
  <2>3. ProjectOf[m] \in Projects
    BY DispatcherAssumption
  <2>4. TypeOK'
    BY <1>5, <2>3 DEF Pick, TypeOK, Stages
  <2>5. HeldOne'
    BY <1>5 DEF Pick, TypeOK, HeldOne, At
  <2>6. QED BY <2>2, <2>4, <2>5
<1>6. ASSUME NEW m \in Msgs, Submit(m) PROVE LaneInv'
  <2>1. InLanes' = InLanes
    BY <1>6, SameSide DEF Submit, Stages, LaneStages
  <2>2. LaneAccounting' /\ LaneSafety'
    BY <1>6, <2>1, LanesKept DEF Submit
  <2>3. TypeOK'
    BY <1>6 DEF Submit, TypeOK, Stages, counters
  <2>4. HeldOne'
    BY <1>6 DEF Submit, TypeOK, HeldOne, At
  <2>5. QED BY <2>2, <2>3, <2>4
<1>7. ASSUME NEW m \in Msgs, SubmitRefused(m) PROVE LaneInv'
  <2>1. m \in InLanes /\ InLanes' = InLanes \ {m}
    BY <1>7 DEF SubmitRefused, TypeOK, InLanes, At, LaneStages, Stages
  <2>2. /\ LaneAccounting' /\ LaneSafety'
        /\ running' \in Nat /\ autoRunning' \in Nat
    BY <1>7, <2>1, LaneGivenBack DEF SubmitRefused, TypeOK
  <2>3. TypeOK'
    BY <1>7, <2>2 DEF SubmitRefused, GiveBack, TypeOK, Stages
  <2>4. HeldOne'
    BY <1>7 DEF SubmitRefused, TypeOK, HeldOne, At
  <2>5. QED BY <2>2, <2>3, <2>4
<1>8. ASSUME NEW m \in Msgs, Begin(m) \/ EndTurn(m) \/ ThreadBack(m) PROVE LaneInv'
  <2>1. InLanes' = InLanes
    BY <1>8, SameSide DEF Begin, EndTurn, ThreadBack, Stages, LaneStages
  <2>2. LaneAccounting' /\ LaneSafety'
    BY <1>8, <2>1, LanesKept DEF Begin, EndTurn, ThreadBack
  <2>3. TypeOK'
    BY <1>8 DEF Begin, EndTurn, ThreadBack, TypeOK, Stages, counters
  <2>4. HeldOne'
    BY <1>8 DEF Begin, EndTurn, ThreadBack, TypeOK, HeldOne, At
  <2>5. QED BY <2>2, <2>3, <2>4
<1>9. ASSUME NEW m \in Msgs, Release(m) PROVE LaneInv'
  <2>1. m \in InLanes /\ InLanes' = InLanes \ {m}
    BY <1>9 DEF Release, TypeOK, InLanes, At, LaneStages, Stages
  <2>2. /\ LaneAccounting' /\ LaneSafety'
        /\ running' \in Nat /\ autoRunning' \in Nat
    BY <1>9, <2>1, LaneGivenBack DEF Release, TypeOK
  <2>3. TypeOK'
    BY <1>9, <2>2 DEF Release, GiveBack, TypeOK, Stages
  <2>4. HeldOne'
    BY <1>9 DEF Release, TypeOK, HeldOne, At
  <2>5. QED BY <2>2, <2>3, <2>4
<1>10. CASE SetShutdown
  <2>1. InLanes' = InLanes
    BY <1>10 DEF SetShutdown, InLanes, At
  <2>2. LaneAccounting' /\ LaneSafety'
    BY <1>10, <2>1, LanesKept DEF SetShutdown
  <2>3. TypeOK'
    BY <1>10 DEF SetShutdown, TypeOK, counters
  <2>4. HeldOne'
    BY <1>10 DEF SetShutdown, HeldOne, At
  <2>5. QED BY <2>2, <2>3, <2>4
<1>11. CASE ClosePool
  <2>1. InLanes' = InLanes
    BY <1>11 DEF ClosePool, InLanes, At, LaneStages
  <2>2. LaneAccounting' /\ LaneSafety'
    BY <1>11, <2>1, LanesKept DEF ClosePool
  <2>3. TypeOK'
    BY <1>11 DEF ClosePool, TypeOK, Stages, counters
  <2>4. HeldOne'
    BY <1>11 DEF ClosePool, HeldOne, At
  <2>5. QED BY <2>2, <2>3, <2>4
<1>12. CASE UNCHANGED vars
  BY <1>12 DEF vars, counters, TypeOK, LaneAccounting, LaneSafety, OneTurnPerProject,
     LaneBound, ReserveKept, HeldOne, InLanes, At
<1>13. QED
  BY <1>1, <1>2, <1>3, <1>4, <1>5, <1>6, <1>7, <1>8, <1>9, <1>10, <1>11, <1>12
  DEF Next, Dispatch, PoolStep

\* A new dispatcher has nothing in its lanes.
LEMMA LaneInvInit == Init => LaneInv
<1> SUFFICES ASSUME Init PROVE LaneInv
  OBVIOUS
<1>1. InLanes = {} /\ At({"held"}) = {}
  BY DEF Init, InLanes, At, LaneStages
<1>2. Cardinality({}) = 0
  BY FS_EmptySet
<1>3. TypeOK
  <2>1. stage \in [Msgs -> Stages]
    BY DEF Init, Stages
  <2>2. seq \in [Msgs -> Nat]
    BY DEF Init
  <2>3. shutdown \in BOOLEAN /\ poolClosed \in BOOLEAN /\ (poolClosed => shutdown)
    BY Zenon DEF Init
  <2>4. /\ nextSeq \in Nat \ {0} /\ running \in Nat /\ autoRunning \in Nat
        /\ runningProjects \subseteq Projects
        /\ loop \in {"check", "pick", "submit", "ended"}
    BY DEF Init
  <2>5. QED BY <2>1, <2>2, <2>3, <2>4, Zenon DEF TypeOK
<1>4. LaneAccounting
  BY <1>1, <1>2 DEF Init, LaneAccounting
<1>5. LaneSafety
  BY <1>1, <1>2, Clamps DEF LaneSafety, OneTurnPerProject, LaneBound, ReserveKept
<1>6. HeldOne
  BY <1>1 DEF Init, HeldOne
<1>7. QED BY <1>3, <1>4, <1>5, <1>6 DEF LaneInv

\* The lane invariant holds throughout.
LEMMA LaneInvAlways == Spec => []LaneInv
BY LaneInvInit, LaneInvStep, PTL DEF Spec

-----------------------------------------------------------------------------
(* The dispatcher is type-correct: in particular its counters never go       *)
(* below zero, whatever the interleaving of picks, refusals and releases.    *)
THEOREM TypeCorrect == Spec => []TypeOK
<1>1. LaneInv => TypeOK
  BY DEF LaneInv
<1>2. QED BY <1>1, LaneInvAlways, PTL

(* The three counters always equal what the items say.                       *)
THEOREM CountersAgree == Spec => []LaneAccounting
<1>1. LaneInv => LaneAccounting
  BY DEF LaneInv
<1>2. QED BY <1>1, LaneInvAlways, PTL

(* One turn per project, at most Lanes turns, at most Lanes - Reserve of     *)
(* them automatic, for every configuration of lanes and reserve.             *)
THEOREM LanesSafe == Spec => []LaneSafety
<1>1. LaneInv => LaneSafety
  BY DEF LaneInv
<1>2. QED BY <1>1, LaneInvAlways, PTL

(* No item the dispatcher gave a lane ever queues inside the thread pool     *)
(* behind turns that fill it.                                                *)
THEOREM PoolNeverBacklogged == Spec => []NoHiddenQueue
<1>1. LaneInv => NoHiddenQueue
  <2> SUFFICES ASSUME LaneInv PROVE NoHiddenQueue
    OBVIOUS
  <2> DEFINE S == At({"submitted", "running", "ending"})
  <2>1. S \subseteq InLanes
    BY DEF At, InLanes, LaneStages
  <2>2. Cardinality(S) <= Cardinality(InLanes) /\ Cardinality(S) \in Nat
    BY <2>1, LanesFinite, FS_Subset, FS_CardinalityType
  <2>3. QED
    BY <2>2, Clamps, LanesFinite DEF LaneInv, LaneSafety, LaneBound, NoHiddenQueue
<1>2. QED BY <1>1, LaneInvAlways, PTL
-----------------------------------------------------------------------------
(* The refinement.  Tickets need one more invariant: numbers already drawn   *)
(* are positive, below the next one, and all different.                      *)
SeqDistinct ==
    /\ \A m \in Msgs : stage[m] # "new" => seq[m] > 0 /\ seq[m] < nextSeq
    /\ \A a, b \in Msgs :
          stage[a] # "new" /\ stage[b] # "new" /\ seq[a] = seq[b] => a = b

RefInv == LaneInv /\ SeqDistinct

\* So does the one the refinement needs, with distinct numbers.
LEMMA RefInvAlways == Spec => []RefInv
<1>1. Init => SeqDistinct
  BY DEF Init, SeqDistinct
<1>2. LaneInv /\ SeqDistinct /\ [Next]_vars => SeqDistinct'
  <2> SUFFICES ASSUME TypeOK, SeqDistinct, [Next]_vars PROVE SeqDistinct'
    BY DEF LaneInv
  <2>1. ASSUME NEW m \in Msgs, DrawSeq(m) PROVE SeqDistinct'
    BY <2>1 DEF DrawSeq, TypeOK, SeqDistinct
  <2>2. ASSUME UNCHANGED <<seq, nextSeq>>,
               \A m \in Msgs : stage'[m] # "new" => stage[m] # "new"
        PROVE  SeqDistinct'
    BY <2>2 DEF SeqDistinct
  <2>3. ASSUME NEW m \in Msgs, Enqueue(m) \/ Pick(m) \/ Submit(m) \/ SubmitRefused(m)
        PROVE  SeqDistinct'
    <3>1. UNCHANGED <<seq, nextSeq>>
      BY <2>3 DEF Enqueue, Pick, Submit, SubmitRefused
    <3>2. stage[m] # "new" /\ \E s \in Stages : stage' = [stage EXCEPT ![m] = s]
      BY <2>3 DEF Enqueue, Pick, Pickable, Eligible, Submit, SubmitRefused, Stages
    <3>3. \A o \in Msgs : stage'[o] # "new" => stage[o] # "new"
      BY <3>2 DEF TypeOK
    <3>4. QED BY <2>2, <3>1, <3>3
  <2>4. ASSUME NEW m \in Msgs, PoolStep(m) PROVE SeqDistinct'
    BY <2>2, <2>4 DEF PoolStep, Begin, EndTurn, Release, ThreadBack, TypeOK
  <2>5. CASE LoopCheck \/ PickNothing \/ SetShutdown \/ UNCHANGED vars
    BY <2>2, <2>5 DEF LoopCheck, PickNothing, SetShutdown, vars
  <2>6. CASE ClosePool
    BY <2>2, <2>6 DEF ClosePool
  <2>7. QED BY <2>1, <2>3, <2>4, <2>5, <2>6 DEF Next, Dispatch
<1>3. QED BY <1>1, <1>2, LaneInvAlways, PTL DEF Spec, RefInv

\* The abstract line counts with the same Cardinality.
LEMMA SameCardinality == \A S : Promise!Cardinality(S) = Cardinality(S)
BY DEF Promise!Cardinality, Cardinality

\* How the mapped state reads in terms of the stages.
LEMMA Mapping ==
    /\ Promise!InLane = InLanes
    /\ Promise!Waiting = At({"pending"})
    /\ \A m \in Msgs :
          /\ AbsStatus[m] = "away" <=> stage[m] \in {"new", "drawn"}
          /\ AbsStatus[m] = "waiting" <=> stage[m] = "pending"
          /\ AbsStatus[m] = "inLane" <=> stage[m] \in LaneStages
<1>1. \A m \in Msgs :
        /\ AbsStatus[m] = "away" <=> stage[m] \in {"new", "drawn"}
        /\ AbsStatus[m] = "waiting" <=> stage[m] = "pending"
        /\ AbsStatus[m] = "inLane" <=> stage[m] \in LaneStages
  BY DEF AbsStatus, StatusOf, LaneStages
<1>2. QED BY <1>1 DEF Promise!InLane, Promise!Waiting, InLanes, At

\* Moving one item moves its abstract status, and no ticket of an item whose
\* number is already visible.
LEMMA ItemMoves ==
    ASSUME TypeOK, NEW m \in Msgs, NEW s \in Stages,
           stage' = [stage EXCEPT ![m] = s]
    PROVE  /\ AbsStatus' = [AbsStatus EXCEPT ![m] = StatusOf(s)]
           /\ StatusOf(s) = AbsStatus[m] => AbsStatus' = AbsStatus
           /\ /\ seq' = seq
              /\ stage[m] \in {"new", "drawn"} <=> s \in {"new", "drawn"}
              => AbsTicket' = AbsTicket
<1>1. \A o \in Msgs : stage'[o] = IF o = m THEN s ELSE stage[o]
  BY DEF TypeOK
<1>2. AbsStatus' = [o \in Msgs |-> StatusOf(stage'[o])]
  BY DEF AbsStatus, StatusOf
<1>3. AbsStatus' = [AbsStatus EXCEPT ![m] = StatusOf(s)]
  <2>1. \A o \in Msgs : StatusOf(stage'[o]) = IF o = m THEN StatusOf(s) ELSE AbsStatus[o]
    BY <1>1 DEF AbsStatus
  <2>2. DOMAIN AbsStatus = Msgs /\ AbsStatus = [o \in Msgs |-> AbsStatus[o]]
    BY DEF AbsStatus
  <2>3. [AbsStatus EXCEPT ![m] = StatusOf(s)]
          = [o \in Msgs |-> IF o = m THEN StatusOf(s) ELSE AbsStatus[o]]
    BY <2>2, Zenon
  <2>4. QED BY <1>2, <2>1, <2>3
<1>4. StatusOf(s) = AbsStatus[m] => AbsStatus' = AbsStatus
  BY <1>1, <1>2 DEF AbsStatus
<1>5. ASSUME seq' = seq,
             stage[m] \in {"new", "drawn"} <=> s \in {"new", "drawn"}
      PROVE  AbsTicket' = AbsTicket
  BY <1>1, <1>5 DEF AbsTicket
<1>6. QED BY <1>3, <1>4, <1>5

\* Appending to the pending list is an arrival with a fresh ticket.
LEMMA EnqueueArrives ==
    ASSUME RefInv, NEW m \in Msgs, Enqueue(m)
    PROVE  Promise!Arrive(m)
<1> USE DEF RefInv, LaneInv
<1>1. stage[m] = "drawn" /\ AbsStatus[m] = "away"
  BY Mapping DEF Enqueue
<1>2. StatusOf("pending") = "waiting"
  BY DEF StatusOf
<1>3. AbsStatus' = [AbsStatus EXCEPT ![m] = "waiting"]
  BY <1>2, ItemMoves DEF Enqueue, Stages
<1>4. \A o \in Msgs : AbsTicket'[o] = IF o = m THEN seq[m] ELSE AbsTicket[o]
  BY DEF Enqueue, AbsTicket, TypeOK
<1>5. AbsTicket' = [AbsTicket EXCEPT ![m] = AbsTicket'[m]]
  BY <1>4 DEF AbsTicket
<1>6. \A o \in Msgs : AbsTicket[o] # seq[m]
  BY <1>1 DEF AbsTicket, TypeOK, SeqDistinct
<1>7. seq[m] \in Nat \ {0}
  BY <1>1 DEF TypeOK, SeqDistinct
<1>8. AbsTicket'[m] \in Nat \ ({0} \cup {AbsTicket[o] : o \in Msgs})
  BY <1>4, <1>6, <1>7
<1>9. QED BY <1>1, <1>3, <1>5, <1>8 DEF Promise!Arrive

\* A pick gives the lane to the best admissible waiting message.
LEMMA PickTakesLane ==
    ASSUME RefInv, NEW m \in Msgs, Pick(m)
    PROVE  Promise!TakeLane(m)
<1> USE DEF RefInv, LaneInv
<1>1. stage[m] = "pending" /\ AbsStatus[m] = "waiting"
  BY Mapping DEF Pick, Pickable, Eligible
<1>2. StatusOf("held") = "inLane"
  BY DEF StatusOf, LaneStages
<1>3. AbsStatus' = [AbsStatus EXCEPT ![m] = "inLane"] /\ AbsTicket' = AbsTicket
  BY <1>1, <1>2, ItemMoves DEF Pick, Stages
<1>4. Promise!Cardinality(Promise!InLane) < Lanes
  BY Mapping, SameCardinality DEF Pick, Pickable, LaneAccounting
<1>5. ASSUME NEW o \in Msgs, stage[o] = "pending"
      PROVE  Promise!Admissible(o) <=> Eligible(o)
  <2>1. (\A i \in InLanes : ProjectOf[i] # ProjectOf[o])
          <=> ProjectOf[o] \notin runningProjects
    BY DEF LaneAccounting
  <2>2. Promise!Cardinality(Promise!InLane \cap AutoMsgs) = autoRunning
    BY Mapping, SameCardinality DEF LaneAccounting
  <2>3. QED
    BY <1>5, <2>1, <2>2, Mapping DEF Promise!Admissible, Eligible, AutoCap
<1>6. \A o \in Msgs : stage[o] = "pending" => AbsTicket[o] = seq[o]
  BY DEF AbsTicket
<1>7. \A o \in Promise!Waiting \ {m} :
        Promise!Admissible(o) => Promise!GoesBefore(m, o)
  BY <1>1, <1>5, <1>6, Mapping
  DEF Pick, Pickable, KeyBelow, Promise!GoesBefore, At
<1>8. Promise!Admissible(m)
  BY <1>1, <1>5 DEF Pick, Pickable
<1>9. QED BY <1>1, <1>3, <1>4, <1>7, <1>8 DEF Promise!TakeLane

\* A release, or a refused submit, gives the lane back.
LEMMA ReleaseLeavesLane ==
    ASSUME RefInv, NEW m \in Msgs, SubmitRefused(m) \/ Release(m)
    PROVE  Promise!LeaveLane(m)
<1> USE DEF RefInv, LaneInv
<1>1. stage[m] \in LaneStages /\ stage[m] \notin {"new", "drawn"}
  BY DEF SubmitRefused, Release, LaneStages
<1>2. StatusOf("refused") = "gone" /\ StatusOf("returning") = "gone"
  BY DEF StatusOf, LaneStages
<1>3. AbsStatus' = [AbsStatus EXCEPT ![m] = "gone"] /\ AbsTicket' = AbsTicket
  BY <1>1, <1>2, ItemMoves DEF SubmitRefused, Release, Stages
<1>4. AbsStatus[m] = "inLane"
  BY <1>1, Mapping
<1>5. QED BY <1>3, <1>4 DEF Promise!LeaveLane

\* Every other step is invisible to a client of the promise.
LEMMA OtherStepsStutter ==
    ASSUME RefInv,
           \/ \E m \in Msgs : \/ DrawSeq(m) \/ Submit(m)
                              \/ Begin(m) \/ EndTurn(m) \/ ThreadBack(m)
           \/ LoopCheck \/ PickNothing \/ SetShutdown \/ ClosePool
           \/ UNCHANGED vars
    PROVE  UNCHANGED <<AbsStatus, AbsTicket>>
<1> USE DEF RefInv, LaneInv
<1>1. ASSUME NEW m \in Msgs, DrawSeq(m) PROVE UNCHANGED <<AbsStatus, AbsTicket>>
  <2>1. StatusOf("drawn") = "away" /\ AbsStatus[m] = "away"
    BY <1>1, Mapping DEF DrawSeq, StatusOf
  <2>2. AbsStatus' = AbsStatus
    BY <1>1, <2>1, ItemMoves DEF DrawSeq, Stages
  <2>3. AbsTicket' = AbsTicket
    BY <1>1 DEF DrawSeq, TypeOK, AbsTicket
  <2>4. QED BY <2>2, <2>3
<1>2. ASSUME NEW m \in Msgs, Submit(m) \/ Begin(m) \/ EndTurn(m)
      PROVE  UNCHANGED <<AbsStatus, AbsTicket>>
  <2>1. \A s \in LaneStages : StatusOf(s) = "inLane" /\ s \notin {"new", "drawn"}
    BY DEF StatusOf, LaneStages
  <2>2. stage[m] \in LaneStages /\ AbsStatus[m] = "inLane"
    BY <1>2, Mapping DEF Submit, Begin, EndTurn, LaneStages
  <2>3. \E s \in LaneStages : stage' = [stage EXCEPT ![m] = s]
    BY <1>2 DEF Submit, Begin, EndTurn, LaneStages
  <2>4. seq' = seq /\ LaneStages \subseteq Stages
    BY <1>2 DEF Submit, Begin, EndTurn, LaneStages, Stages
  <2>5. QED BY <2>1, <2>2, <2>3, <2>4, ItemMoves
<1>3. ASSUME NEW m \in Msgs, ThreadBack(m)
      PROVE  UNCHANGED <<AbsStatus, AbsTicket>>
  <2>1. StatusOf("returning") = "gone" /\ StatusOf("done") = "gone"
    BY DEF StatusOf, LaneStages
  <2>2. AbsStatus[m] = "gone"
    BY <1>3, <2>1 DEF ThreadBack, AbsStatus
  <2>3. QED BY <1>3, <2>1, <2>2, ItemMoves DEF ThreadBack, Stages
<1>4. CASE LoopCheck \/ PickNothing \/ SetShutdown \/ UNCHANGED vars
  BY <1>4 DEF LoopCheck, PickNothing, SetShutdown, vars, AbsStatus, AbsTicket, StatusOf
<1>5. CASE ClosePool
  <2>1. \A m \in Msgs : stage'[m] = IF stage[m] = "submitted" THEN "dropped"
                                    ELSE stage[m]
    BY <1>5 DEF ClosePool
  <2>2. AbsStatus' = [m \in Msgs |-> StatusOf(stage'[m])]
    BY DEF AbsStatus, StatusOf
  <2>3. StatusOf("submitted") = "inLane" /\ StatusOf("dropped") = "inLane"
    BY DEF StatusOf, LaneStages
  <2>4. AbsStatus' = AbsStatus
    BY <2>1, <2>2, <2>3 DEF AbsStatus
  <2>5. AbsTicket' = AbsTicket
    BY <1>5, <2>1 DEF ClosePool, AbsTicket
  <2>6. QED BY <2>4, <2>5
<1>6. QED BY <1>1, <1>2, <1>3, <1>4, <1>5

(* The dispatcher keeps its promise: hidden behind the mapping, every        *)
(* behaviour of the counters, the dispatcher thread and the pool is a        *)
(* behaviour of the lane line of TurnLanes, priority and order included.     *)
THEOREM KeepsPromise == Spec => ImplementsPromise
<1>1. Init => Promise!LanesInit
  <2> SUFFICES ASSUME Init PROVE Promise!LanesInit
    OBVIOUS
  <2>1. StatusOf("new") = "away"
    BY DEF StatusOf
  <2>2. \A m \in Msgs : stage[m] = "new" /\ seq[m] = 0
    BY DEF Init
  <2>3. AbsStatus = [m \in Msgs |-> "away"]
    BY <2>1, <2>2 DEF AbsStatus
  <2>4. AbsTicket = [m \in Msgs |-> 0]
    BY <2>2 DEF AbsTicket
  <2>5. QED BY <2>3, <2>4 DEF Promise!LanesInit
<1>2. RefInv /\ [Next]_vars => [Promise!LanesNext]_<<AbsStatus, AbsTicket>>
  <2> SUFFICES ASSUME RefInv, [Next]_vars
               PROVE  Promise!LanesNext \/ UNCHANGED <<AbsStatus, AbsTicket>>
    OBVIOUS
  <2>1. ASSUME NEW m \in Msgs, Enqueue(m) PROVE Promise!LanesNext
    BY <2>1, EnqueueArrives DEF Promise!LanesNext
  <2>2. ASSUME NEW m \in Msgs, Pick(m) PROVE Promise!LanesNext
    BY <2>2, PickTakesLane DEF Promise!LanesNext
  <2>3. ASSUME NEW m \in Msgs, SubmitRefused(m) \/ Release(m) PROVE Promise!LanesNext
    BY <2>3, ReleaseLeavesLane DEF Promise!LanesNext
  <2>4. QED BY <2>1, <2>2, <2>3, OtherStepsStutter DEF Next, Dispatch, PoolStep
<1>3. QED
  BY <1>1, <1>2, RefInvAlways, PTL
  DEF Spec, ImplementsPromise, Promise!LanesSpec, Promise!lanesVars
-----------------------------------------------------------------------------
(***************************************************************************)
(* Publishing from a Mac (SiteManager), for any number of sites, ports,     *)
(* instances and commands.                                                  *)
(***************************************************************************)

CommandPlace ==
    {"rest", "allocate", "build", "snapshot", "restart", "reap", "unload", "killold", "save", "write", "done"}

\* What a command is, and which of its steps belong to which command.
Work ==
    [at : CommandPlace, op : {"none", "publish", "unpublish", "rebuild"}, site : Site \cup {NoEntry},
     seen : [Site -> RegistryEntry], port : {0} \cup Port, old : SUBSET Instance, had : SUBSET Instance,
     alone : BOOLEAN]

WorkShape(w) ==
    /\ w.at = "rest" <=> w.site = NoEntry
    /\ w.at \notin {"rest", "allocate"} => w.port # 0
    /\ w.at \in {"unload", "killold"} => w.op = "unpublish"
    /\ w.at = "allocate" => w.op = "publish"
    /\ w.at \in {"build", "snapshot", "restart", "reap"} => w.op \in {"publish", "rebuild"}
    /\ w.at \in {"save", "write"} => w.op \in {"publish", "unpublish"}
    /\ w.at = "done" => w.op = "rebuild"

CommandTypes ==
    /\ command \in [Command -> Work]
    /\ \A c \in Command : WorkShape(command[c])

SiteTypes == SiteTypeOK /\ CommandTypes

\* A job's instance is one of its site's, and the only ones that start are jobs' instances.
JobsInstances ==
    /\ \A s \in Site : current[s] # 0 => Alive(current[s]) /\ instance[current[s]].site = s
    /\ \A s \in Site : loaded[s] = 0 => current[s] = 0
    /\ \A n \in Instance : instance[n].life = "starting" =>
          instance[n].site \in Site /\ current[instance[n].site] = n

\* A command that is alone on its site is the only one on it.
AloneIsAlone ==
    \A c, d \in Command : Busy(c) /\ Busy(d) /\ c # d /\ command[c].alone => Site_(c) # Site_(d)

\* Every server of a Next.js site that was there is in the list of those to end.
HadIsOld ==
    \A c \in Command :
        IF command[c].at \in {"restart", "reap", "killold"} THEN command[c].had \subseteq command[c].old
        ELSE command[c].at \in {"save", "write", "done"} \/ command[c].had = {}

ServerInv == SiteTypes /\ JobsInstances /\ AloneIsAlone /\ HadIsOld /\ OldServersGone

\* Commands that are at work together have their sites crossed.
OverlapCrosses ==
    \A c, d \in Command : Busy(c) /\ Busy(d) /\ c # d => Site_(c) \in crossed

\* The sites of which the registry may not be true: commands overlapped on them, or launchd refused.
Untrue == crossed \cup refused

Agrees(registry, s) ==
    /\ (registry[s] # NoEntry /\ registry[s].running) <=> loaded[s] # 0
    /\ loaded[s] # 0 => loaded[s] = registry[s].port

\* No command has touched the site's job without writing so.
Untouched(s) ==
    \A c \in Command : Site_(c) = s =>
        command[c].op = "rebuild" \/ command[c].at \in {"allocate", "build", "snapshot", "restart", "unload"}

\* The file agrees, unless a command is about to write it; and what a command has read agrees
\* about every other site.
FileAgrees ==
    /\ sites = Emptied => Site \subseteq crossed \/ \E c \in Command : command[c].at = "write"
    /\ sites # Emptied => \A s \in Site \ Untrue : Untouched(s) => Agrees(sites, s)
    /\ \A c \in Command : Busy(c) /\ command[c].op # "rebuild" =>
          \A s \in Site \ Untrue : s # Site_(c) => Agrees(command[c].seen, s)

\* What a command has done to its site's job is what it will write.
WillWrite ==
    \A c \in Command : Busy(c) /\ Site_(c) \notin Untrue =>
        /\ command[c].op = "publish" /\ command[c].at \in {"reap", "save", "write"} =>
               loaded[Site_(c)] = command[c].port
        /\ command[c].op = "unpublish" /\ command[c].at \in {"killold", "save", "write"} =>
               loaded[Site_(c)] = 0

\* Ports are given to one site each.
PortsApart ==
    /\ \A s, r \in Site \ Untrue : s # r /\ loaded[s] # 0 => loaded[s] # loaded[r]
    /\ \A c \in Command :
         Busy(c) /\ Site_(c) \notin Untrue /\ command[c].op = "publish" /\ command[c].at # "allocate" =>
            \A r \in Site \ Untrue : r # Site_(c) => loaded[r] # command[c].port

RegistryInv == ServerInv /\ OverlapCrosses /\ FileAgrees /\ WillWrite /\ PortsApart

SiteInstance == [site : Site \cup {NoEntry}, port : {0} \cup Port, life : Lives]

\* The constants and the types, taken apart.
LEMMA SiteFacts ==
    /\ 0 \notin Port /\ 0 \notin Instance /\ NoEntry \notin Site
    /\ NoEntry \notin [port : Port, running : BOOLEAN] /\ Emptied \notin [Site -> RegistryEntry]
    /\ Port \subseteq Nat /\ Instance \subseteq Nat /\ MaxCommands \in Nat /\ MaxKilled \in Nat
    /\ NoInstance \in SiteInstance /\ NoInstance.life = "none" /\ NoInstance.site = NoEntry
    /\ NoRegistry \in [Site -> RegistryEntry]
    /\ Rest \in Work /\ WorkShape(Rest) /\ Rest.at = "rest" /\ Rest.site = NoEntry /\ Rest.had = {}
<1>1. NoInstance \in SiteInstance /\ NoInstance.life = "none" /\ NoInstance.site = NoEntry
  BY DEF NoInstance, SiteInstance, Lives
<1>2. NoRegistry \in [Site -> RegistryEntry]
  BY DEF NoRegistry, RegistryEntry
<1>3. Rest \in Work /\ WorkShape(Rest) /\ Rest.at = "rest" /\ Rest.site = NoEntry /\ Rest.had = {}
  BY <1>2 DEF Rest, Work, WorkShape, CommandPlace
<1>4. QED BY <1>1, <1>2, <1>3, SiteAssumption, RegistryAssumption

\* What the registry is read as.
LEMMA LoadedTyped ==
    ASSUME SiteTypeOK
    PROVE  Loaded \in [Site -> RegistryEntry] /\ (sites # Emptied => Loaded = sites)
BY SiteFacts DEF SiteTypeOK, Loaded

\* A command that begins.
LEMMA BegunShape ==
    ASSUME SiteTypeOK, NEW s \in Site, NEW begun \in {Publish(s), Unpublish(s), Rebuild(s)}, NEW b \in BOOLEAN
    PROVE  /\ [begun EXCEPT !.alone = b] \in Work /\ WorkShape([begun EXCEPT !.alone = b])
           /\ [begun EXCEPT !.alone = b].alone = b /\ [begun EXCEPT !.alone = b].had = {}
           /\ begun = Rest => [begun EXCEPT !.alone = b].at = "rest"
           /\ begun # Rest =>
                /\ [begun EXCEPT !.alone = b].site = s
                /\ [begun EXCEPT !.alone = b].at \in {"allocate", "build", "unload"}
                /\ [begun EXCEPT !.alone = b].op # "rebuild" => [begun EXCEPT !.alone = b].seen = Loaded
                /\ [begun EXCEPT !.alone = b].op = "publish" /\ [begun EXCEPT !.alone = b].at = "build" =>
                      Running(Loaded[s]) /\ [begun EXCEPT !.alone = b].port = Loaded[s].port
<1>1. Loaded \in [Site -> RegistryEntry] /\ Loaded[s] \in RegistryEntry
  BY LoadedTyped
<1>2. Loaded[s] # NoEntry => Loaded[s].port \in Port /\ Loaded[s].port # 0
  BY <1>1, SiteFacts DEF RegistryEntry
<1>3. CASE begun = Publish(s)
  <2>1. ASSUME Running(Loaded[s])
        PROVE  [begun EXCEPT !.alone = b] =
                  [at |-> "build", op |-> "publish", site |-> s, seen |-> Loaded, port |-> Loaded[s].port,
                   old |-> {}, had |-> {}, alone |-> b]
    <3>1. begun = [Rest EXCEPT !.op = "publish", !.site = s, !.seen = Loaded, !.at = "build",
                               !.port = Loaded[s].port]
      BY <1>3, <2>1 DEF Publish, Begun, Running
    <3>2. begun = [at |-> "build", op |-> "publish", site |-> s, seen |-> Loaded, port |-> Loaded[s].port,
                   old |-> {}, had |-> {}, alone |-> TRUE]
      BY <3>1 DEF Rest
    <3>3. QED BY <3>2
  <2>2. CASE Running(Loaded[s])
    <3>1. Loaded[s].port \in Port
      BY <1>2, <2>2 DEF Running
    <3>2. begun.at = "build"
      BY <1>3, <2>2 DEF Publish, Begun, Running, Rest
    <3>3. QED BY <1>1, <2>1, <2>2, <3>1, <3>2, SiteFacts DEF Work, WorkShape, CommandPlace
  <2>3. ASSUME ~Running(Loaded[s]), NEW port \in {0} \cup Port,
               port = IF Loaded[s] = NoEntry THEN 0 ELSE Loaded[s].port
        PROVE  [begun EXCEPT !.alone = b] =
                  [at |-> "allocate", op |-> "publish", site |-> s, seen |-> Loaded, port |-> port,
                   old |-> {}, had |-> {}, alone |-> b]
    <3>1. begun = [Rest EXCEPT !.op = "publish", !.site = s, !.seen = Loaded, !.at = "allocate",
                               !.port = port]
      BY <1>3, <2>3 DEF Publish, Begun
    <3>2. begun = [at |-> "allocate", op |-> "publish", site |-> s, seen |-> Loaded, port |-> port,
                   old |-> {}, had |-> {}, alone |-> TRUE]
      BY <3>1 DEF Rest
    <3>3. QED BY <3>2
  <2>4. CASE ~Running(Loaded[s])
    <3>1. PICK port \in {0} \cup Port : port = IF Loaded[s] = NoEntry THEN 0 ELSE Loaded[s].port
      BY <1>2
    <3>2. begun.at = "allocate"
      BY <1>3, <2>4 DEF Publish, Begun, Rest
    <3>3. [begun EXCEPT !.alone = b] =
             [at |-> "allocate", op |-> "publish", site |-> s, seen |-> Loaded, port |-> port,
              old |-> {}, had |-> {}, alone |-> b]
      BY <2>3, <2>4, <3>1
    <3>4. begun # Rest
      BY <3>2 DEF Rest
    <3>5. QED BY <1>1, <3>1, <3>3, <3>4, SiteFacts DEF Work, WorkShape, CommandPlace
  <2>5. QED BY <2>2, <2>4
<1>4. CASE begun = Unpublish(s)
  <2>1. CASE Loaded[s] = NoEntry
    <3>1. begun = Rest
      BY <1>4, <2>1 DEF Unpublish
    <3>2. QED BY <3>1, SiteFacts DEF Work, WorkShape, Rest
  <2>2. CASE Loaded[s] # NoEntry
    <3>1. begun = [Rest EXCEPT !.op = "unpublish", !.site = s, !.seen = Loaded, !.at = "unload",
                               !.port = Loaded[s].port]
      BY <1>4, <2>2 DEF Unpublish, Begun
    <3>2. QED BY <1>1, <1>2, <2>2, <3>1, SiteFacts DEF Work, WorkShape, CommandPlace, Rest
  <2>3. QED BY <2>1, <2>2
<1>5. CASE begun = Rebuild(s)
  <2>1. CASE Loaded[s] = NoEntry
    <3>1. begun = Rest
      BY <1>5, <2>1 DEF Rebuild
    <3>2. QED BY <3>1, SiteFacts DEF Work, WorkShape, Rest
  <2>2. CASE Loaded[s] # NoEntry
    <3>1. begun = [Rest EXCEPT !.op = "rebuild", !.site = s, !.seen = NoRegistry, !.at = "build",
                               !.port = Loaded[s].port]
      BY <1>5, <2>2 DEF Rebuild, Begun, Rest
    <3>2. QED BY <1>1, <1>2, <2>2, <3>1, SiteFacts DEF Work, WorkShape, CommandPlace, Rest
  <2>3. QED BY <2>1, <2>2
<1>6. QED BY <1>3, <1>4, <1>5

\* A command that is no longer alone is otherwise the command it was.
LEMMA AloneTaken ==
  ASSUME NEW w \in Work, WorkShape(w)
  PROVE  LET v == [w EXCEPT !.alone = FALSE]
         IN  /\ v \in Work /\ WorkShape(v) /\ ~v.alone
             /\ v.at = w.at /\ v.op = w.op /\ v.site = w.site
             /\ v.seen = w.seen /\ v.port = w.port /\ v.old = w.old /\ v.had = w.had
<1> DEFINE v == [w EXCEPT !.alone = FALSE]
<1>1. v \in Work /\ ~v.alone
  BY DEF Work
<1>2. /\ v.at = w.at /\ v.op = w.op /\ v.site = w.site
      /\ v.seen = w.seen /\ v.port = w.port /\ v.old = w.old /\ v.had = w.had
  BY DEF Work
<1> HIDE DEF v
<1>3. WorkShape(v)
  BY <1>2 DEF WorkShape
<1>4. QED BY <1>1, <1>2, <1>3 DEF v

\* A command at work does not become another one.
SameWork(d) ==
    /\ command'[d].at = command[d].at /\ command'[d].op = command[d].op /\ command'[d].site = command[d].site
    /\ command'[d].seen = command[d].seen /\ command'[d].port = command[d].port
    /\ command'[d].old = command[d].old /\ command'[d].had = command[d].had

\* What a command that begins leaves of the others.
LEMMA CommandBegins ==
    ASSUME SiteTypes, NEW c \in Command, NEW s \in Site, BeginCommand(c, s)
    PROVE  /\ CommandTypes' /\ ~Busy(c)
           /\ \A d \in Command \ {c} :
                SameWork(d) /\ (command'[d].alone => command[d].alone /\ ~(Busy(c)' /\ Site_(d) = s))
           /\ command'[c].had = {}
           /\ Busy(c)' =>
                /\ command'[c].site = s /\ command'[c].at \in {"allocate", "build", "unload"}
                /\ command'[c].alone => s \notin Others(c)
                /\ command'[c].op # "rebuild" => command'[c].seen = Loaded
                /\ command'[c].op = "publish" /\ command'[c].at = "build" =>
                      Running(Loaded[s]) /\ command'[c].port = Loaded[s].port
<1>1. ~Busy(c) /\ command \in [Command -> Work] /\ SiteTypeOK
  BY DEF BeginCommand, SiteTypes, CommandTypes
<1>2. PICK begun \in {Publish(s), Unpublish(s), Rebuild(s)} :
        command' = [d \in Command |->
            IF d = c THEN [begun EXCEPT !.alone = begun = Rest \/ s \notin Others(c)]
            ELSE IF Site_(d) = s /\ begun # Rest THEN [command[d] EXCEPT !.alone = FALSE]
            ELSE command[d]]
  BY DEF BeginCommand
<1> DEFINE b == begun = Rest \/ s \notin Others(c)
<1>3. b \in BOOLEAN
  OBVIOUS
<1>4. command'[c] = [begun EXCEPT !.alone = b]
  BY <1>2
<1>5. b /\ begun # Rest => s \notin Others(c)
  OBVIOUS
<1> HIDE DEF b
<1>6. /\ command'[c] \in Work /\ WorkShape(command'[c]) /\ command'[c].alone = b /\ command'[c].had = {}
      /\ begun = Rest => command'[c].at = "rest"
      /\ begun # Rest =>
           /\ command'[c].site = s /\ command'[c].at \in {"allocate", "build", "unload"}
           /\ command'[c].op # "rebuild" => command'[c].seen = Loaded
           /\ command'[c].op = "publish" /\ command'[c].at = "build" =>
                 Running(Loaded[s]) /\ command'[c].port = Loaded[s].port
  BY <1>1, <1>3, <1>4, BegunShape
<1>7. ASSUME NEW d \in Command \ {c}
      PROVE  /\ command'[d] \in Work /\ WorkShape(command'[d]) /\ SameWork(d)
             /\ command'[d].alone => command[d].alone /\ ~(begun # Rest /\ Site_(d) = s)
  <2>1. command[d] \in Work /\ WorkShape(command[d])
    BY DEF SiteTypes, CommandTypes
  <2>2. command'[d] = IF Site_(d) = s /\ begun # Rest THEN [command[d] EXCEPT !.alone = FALSE] ELSE command[d]
    BY <1>2
  <2>3. CASE Site_(d) = s /\ begun # Rest
    BY <2>1, <2>2, <2>3, AloneTaken DEF SameWork
  <2>4. CASE ~(Site_(d) = s /\ begun # Rest)
    BY <2>1, <2>2, <2>4 DEF SameWork
  <2>5. QED BY <2>3, <2>4
<1>8. Busy(c)' => begun # Rest
  BY <1>6 DEF Busy
<1>9. command' \in [Command -> Work]
  BY <1>2, <1>6, <1>7
<1>10. CommandTypes'
  BY <1>6, <1>7, <1>9 DEF CommandTypes
<1>11. QED BY <1>1, <1>5, <1>6, <1>7, <1>8, <1>10

\* A step of a command: the others stay as they are; it goes on or is over.
GoesOnWith(c) ==
    /\ command'[c].op = command[c].op /\ command'[c].site = command[c].site
    /\ command'[c].seen = command[c].seen /\ command'[c].alone = command[c].alone
    /\ command'[c].at # "rest"

Proceeds(c) ==
    /\ CommandTypes' /\ Busy(c)
    /\ \A d \in Command \ {c} : command'[d] = command[d]
    /\ command'[c] = Rest \/ GoesOnWith(c)

\* And so do all of its steps.
LEMMA CommandMoves ==
    ASSUME SiteTypes, NEW c \in Command, CommandStep(c) \/ Killed(c)
    PROVE  Proceeds(c)
<1>1. command \in [Command -> Work] /\ command[c] \in Work /\ WorkShape(command[c])
  BY DEF SiteTypes, CommandTypes
<1>2. ASSUME NEW w \in Work, command' = [command EXCEPT ![c] = w], WorkShape(w)
      PROVE  CommandTypes' /\ command'[c] = w /\ \A d \in Command \ {c} : command'[d] = command[d]
  BY <1>1, <1>2 DEF CommandTypes, SiteTypes
<1>3. ASSUME Ends(c), Busy(c) PROVE Proceeds(c)
  BY <1>2, <1>3, SiteFacts DEF Ends, Proceeds
<1>4. ASSUME NEW w \in CommandPlace \ {"rest"}, Goes(c, w), Busy(c),
             WorkShape([command[c] EXCEPT !.at = w])
      PROVE  Proceeds(c)
  <2>1. [command[c] EXCEPT !.at = w] \in Work
    BY <1>1 DEF Work
  <2>2. command' = [command EXCEPT ![c] = [command[c] EXCEPT !.at = w]]
    BY <1>1, <1>4 DEF Goes
  <2>3. QED BY <1>1, <1>2, <1>4, <2>1, <2>2 DEF GoesOnWith, Work, Proceeds
<1>5. ASSUME NEW old2 \in SUBSET Instance, NEW had2 \in SUBSET Instance, NEW port2 \in {0} \cup Port,
             NEW w \in CommandPlace \ {"rest"}, Busy(c),
             command' = [command EXCEPT ![c] =
                [command[c] EXCEPT !.at = w, !.old = old2, !.had = had2, !.port = port2]],
             WorkShape([command[c] EXCEPT !.at = w, !.old = old2, !.had = had2, !.port = port2])
      PROVE  Proceeds(c)
  <2>1. [command[c] EXCEPT !.at = w, !.old = old2, !.had = had2, !.port = port2] \in Work
    BY <1>1 DEF Work
  <2>2. QED BY <1>1, <1>2, <1>5, <2>1 DEF GoesOnWith, Work, Proceeds
<1>8. ASSUME NEW old2 \in SUBSET Instance, NEW had2 \in SUBSET Instance, NEW w \in CommandPlace \ {"rest"}, Busy(c),
             command' = [command EXCEPT ![c].at = w, ![c].old = old2, ![c].had = had2],
             WorkShape([command[c] EXCEPT !.at = w])
      PROVE  Proceeds(c)
  <2>1. command[c].port \in {0} \cup Port
    BY <1>1 DEF Work
  <2>2. command' = [command EXCEPT ![c] = [command[c] EXCEPT !.at = w, !.old = old2, !.had = had2,
                                                             !.port = command[c].port]]
    BY <1>1, <1>8 DEF Work
  <2>3. WorkShape([command[c] EXCEPT !.at = w, !.old = old2, !.had = had2, !.port = command[c].port])
    BY <1>1, <1>8 DEF WorkShape, Work
  <2>4. QED BY <1>5, <1>8, <2>1, <2>2, <2>3
<1>6. CASE Allocate(c)
  <2>1. Busy(c)
    BY <1>6 DEF Allocate, Busy
  <2>2. CASE FreePorts = {}
    BY <1>3, <1>6, <2>1, <2>2 DEF Allocate
  <2>3. CASE FreePorts # {}
    <3>1. PICK p \in Port : command' = [command EXCEPT ![c].port = p, ![c].at = "build"]
      BY <1>6, <2>3 DEF Allocate, FreePorts
    <3>2. command' = [command EXCEPT ![c] = [command[c] EXCEPT !.at = "build", !.old = command[c].old,
                                             !.had = command[c].had, !.port = p]]
      BY <1>1, <3>1 DEF Work
    <3>3. WorkShape([command[c] EXCEPT !.at = "build", !.old = command[c].old,
                                       !.had = command[c].had, !.port = p])
      BY <1>1, <1>6, SiteFacts DEF WorkShape, Work, Allocate
    <3>4. command[c].old \in SUBSET Instance /\ command[c].had \in SUBSET Instance
      BY <1>1 DEF Work
    <3>5. p \in {0} \cup Port /\ "build" \in CommandPlace \ {"rest"}
      BY DEF CommandPlace
    <3>6. QED BY <1>5, <2>1, <3>2, <3>3, <3>4, <3>5
  <2>4. QED BY <2>2, <2>3
<1>7. CASE Build(c)
  <2>1. Busy(c) /\ WorkShape([command[c] EXCEPT !.at = "snapshot"])
    BY <1>1, <1>7 DEF Build, Busy, WorkShape, Work
  <2>2. QED BY <1>3, <1>4, <1>7, <2>1 DEF Build, CommandPlace
<1>9. Old(c) \subseteq Instance /\ Had(c) \subseteq Instance
  <2>1. Job(Site_(c)) \subseteq Instance
    <3>1. CASE Site_(c) \in Site
      BY <3>1 DEF Job, SiteTypes, SiteTypeOK
    <3>2. CASE Site_(c) \notin Site
      <4>1. command[c].at = "rest"
        BY <1>1, <3>2 DEF Site_, Work, WorkShape
      <4>2. QED BY <4>1 DEF CommandStep, Killed, Busy, Allocate, Build, Snapshot, Reload, Kickstart, Reap,
                            Unload, KillOld, OpenFile, WriteFile, Done
    <3>3. QED BY <3>1, <3>2
  <2>2. QED BY <2>1 DEF Old, Had, Listeners, ByFolder, OfSite
<1>10. CASE Snapshot(c)
  <2>1. Busy(c) /\ WorkShape([command[c] EXCEPT !.at = "restart"])
    BY <1>1, <1>10 DEF Snapshot, Busy, WorkShape, Work
  <2>2. command' = [command EXCEPT ![c].at = "restart", ![c].old = Old(c), ![c].had = Had(c)]
    BY <1>10 DEF Snapshot
  <2>3. QED BY <1>8, <1>9, <2>1, <2>2 DEF CommandPlace
<1>11. CASE Unload(c)
  <2>1. Busy(c) /\ WorkShape([command[c] EXCEPT !.at = "killold"])
    BY <1>1, <1>11 DEF Unload, Busy, WorkShape, Work
  <2>2. command' = [command EXCEPT ![c].at = "killold", ![c].old = Old(c), ![c].had = Had(c)]
    BY <1>11 DEF Unload
  <2>3. QED BY <1>8, <1>9, <2>1, <2>2 DEF CommandPlace
<1>12. CASE Reload(c)
  <2>1. Busy(c) /\ WorkShape([command[c] EXCEPT !.at = "reap"])
    BY <1>1, <1>12 DEF Reload, Busy, WorkShape, Work
  <2>2. QED BY <1>4, <1>12, <2>1 DEF Reload, CommandPlace
<1>13. CASE Kickstart(c)
  <2>1. Busy(c) /\ WorkShape([command[c] EXCEPT !.at = "reap"])
    BY <1>1, <1>13 DEF Kickstart, Busy, WorkShape, Work
  <2>2. QED BY <1>4, <1>13, <2>1 DEF Kickstart, CommandPlace
<1>14. CASE Reap(c)
  <2>1. Busy(c) /\ command[c].had \in SUBSET Instance
    BY <1>1, <1>14 DEF Reap, Busy, Work
  <2>2. PICK w \in {"done", "save"} :
          /\ command' = [command EXCEPT ![c].at = w, ![c].old = {}]
          /\ w = IF command[c].op = "rebuild" THEN "done" ELSE "save"
    BY <1>14 DEF Reap
  <2>3. WorkShape([command[c] EXCEPT !.at = w])
    BY <1>1, <1>14, <2>2 DEF Reap, WorkShape, Work
  <2>4. command' = [command EXCEPT ![c].at = w, ![c].old = {}, ![c].had = command[c].had]
    BY <1>1, <2>2 DEF Work
  <2>5. w \in CommandPlace \ {"rest"} /\ {} \in SUBSET Instance
    BY DEF CommandPlace
  <2>6. QED BY <1>8, <2>1, <2>3, <2>4, <2>5
<1>15. CASE KillOld(c)
  <2>1. Busy(c) /\ command[c].had \in SUBSET Instance /\ WorkShape([command[c] EXCEPT !.at = "save"])
    BY <1>1, <1>15 DEF KillOld, Busy, Work, WorkShape
  <2>2. command' = [command EXCEPT ![c].at = "save", ![c].old = {}, ![c].had = command[c].had]
    BY <1>1, <1>15 DEF KillOld, Work
  <2>3. QED BY <1>8, <2>1, <2>2 DEF CommandPlace
<1>16. CASE OpenFile(c)
  <2>1. Busy(c) /\ WorkShape([command[c] EXCEPT !.at = "write"])
    BY <1>1, <1>16 DEF OpenFile, Busy, WorkShape, Work
  <2>2. QED BY <1>4, <1>16, <2>1 DEF OpenFile, CommandPlace
<1>17. CASE WriteFile(c) \/ Done(c)
  BY <1>3, <1>17 DEF WriteFile, Done, Busy
<1>18. CASE Killed(c)
  BY <1>3, <1>18 DEF Killed
<1>19. QED
  BY <1>6, <1>7, <1>10, <1>11, <1>12, <1>13, <1>14, <1>15, <1>16, <1>17, <1>18 DEF CommandStep

-----------------------------------------------------------------------------
(* The instances.                                                           *)

\* Ending a job leaves of its instance nothing, or an orphan.
LEMMA OrphanedLeaves ==
    ASSUME SiteTypeOK, JobsInstances, NEW s \in Site, instance' \in Orphaned(s)
    PROVE  /\ instance' \in [Instance -> SiteInstance]
           /\ \A n \in Instance : n # current[s] => instance'[n] = instance[n]
           /\ current[s] # 0 =>
                /\ instance'[current[s]].life # "starting"
                /\ instance'[current[s]].life = "none" \/ instance'[current[s]].site = s
<1>1. instance \in [Instance -> SiteInstance] /\ current[s] \in {0} \cup Instance
  BY DEF SiteTypeOK, SiteInstance
<1>2. CASE current[s] = 0
  BY <1>1, <1>2, SiteFacts DEF Orphaned
<1>3. CASE current[s] # 0
  <2>1. current[s] \in Instance /\ instance[current[s]] \in SiteInstance /\ instance[current[s]].site = s
    BY <1>1, <1>3 DEF JobsInstances
  <2>2. PICK o \in SiteInstance :
          /\ instance' = [instance EXCEPT ![current[s]] = o]
          /\ o.life # "starting" /\ (o.life = "none" \/ o.site = s)
    <3>1. CASE instance' = [instance EXCEPT ![current[s]] = NoInstance]
      BY <3>1, SiteFacts
    <3>2. ASSUME NEW w \in {"deaf", "holding"}, instance' = [instance EXCEPT ![current[s]].life = w]
          PROVE  \E o \in SiteInstance :
                    /\ instance' = [instance EXCEPT ![current[s]] = o]
                    /\ o.life # "starting" /\ (o.life = "none" \/ o.site = s)
      <4>1. [instance[current[s]] EXCEPT !.life = w] \in SiteInstance
        BY <2>1 DEF SiteInstance, Lives
      <4>2. /\ [instance[current[s]] EXCEPT !.life = w].life = w
            /\ [instance[current[s]] EXCEPT !.life = w].site = s
        BY <2>1 DEF SiteInstance
      <4>3. instance' = [instance EXCEPT ![current[s]] = [instance[current[s]] EXCEPT !.life = w]]
        BY <3>2
      <4>4. QED BY <4>1, <4>2, <4>3
    <3>3. QED BY <1>3, <3>1, <3>2 DEF Orphaned
  <2>3. QED BY <1>1, <1>3, <2>1, <2>2
<1>4. QED BY <1>2, <1>3

\* What is killed is gone, and what is not stays.
LEMMA KillLeaves ==
    ASSUME SiteTypeOK, NEW pids, Kill(pids)
    PROVE  /\ instance' \in [Instance -> SiteInstance]
           /\ current' \in [Site -> {0} \cup Instance]
           /\ \A n \in Instance : instance'[n] = IF n \in pids THEN NoInstance ELSE instance[n]
           /\ \A s \in Site : current'[s] = IF current[s] \in pids THEN 0 ELSE current[s]
BY SiteFacts DEF SiteTypeOK, SiteInstance, Kill

\* What launchd starts is the job's.
LEMMA StartsLeaves ==
    ASSUME SiteTypeOK, NEW s \in Site, Starts(s)
    PROVE  \E n \in Instance :
             /\ ~Alive(n) /\ (\A c \in Command : n \notin command[c].old)
             /\ instance' \in [Instance -> SiteInstance] /\ current' = [current EXCEPT ![s] = n]
             /\ instance'[n].site = s /\ instance'[n].life = "starting"
             /\ \A k \in Instance \ {n} : instance'[k] = instance[k]
<1>1. PICK n \in Instance :
        /\ ~Alive(n) /\ (\A c \in Command : n \notin command[c].old)
        /\ instance' = [instance EXCEPT ![n] = [site |-> s, port |-> loaded[s], life |-> "starting"]]
        /\ current' = [current EXCEPT ![s] = n]
  BY DEF Starts
<1>2. [site |-> s, port |-> loaded[s], life |-> "starting"] \in SiteInstance
  BY DEF SiteTypeOK, SiteInstance, Lives
<1>3. QED BY <1>1, <1>2 DEF SiteTypeOK, SiteInstance

\* It comes up, or ends again.
LEMMA BindsLeaves ==
    ASSUME SiteTypeOK, NEW s \in Site, Binds(s)
    PROVE  /\ current[s] \in Instance /\ instance' \in [Instance -> SiteInstance]
           /\ \A k \in Instance \ {current[s]} : instance'[k] = instance[k]
           /\ \/ /\ instance'[current[s]] = NoInstance /\ current' = [current EXCEPT ![s] = 0]
              \/ /\ instance'[current[s]].life = "listening" /\ current' = current
                 /\ instance'[current[s]].site = instance[current[s]].site
<1>1. /\ instance \in [Instance -> SiteInstance] /\ current[s] \in Instance
      /\ instance[current[s]] \in SiteInstance
  BY DEF SiteTypeOK, SiteInstance, Binds
<1>2. CASE InUse(instance[current[s]].port)
  BY <1>1, <1>2, SiteFacts DEF Binds
<1>3. CASE ~InUse(instance[current[s]].port)
  <2>1. instance' = [instance EXCEPT ![current[s]].life = "listening"] /\ current' = current
    BY <1>3 DEF Binds
  <2>2. [instance[current[s]] EXCEPT !.life = "listening"] \in SiteInstance
    BY <1>1 DEF SiteInstance, Lives
  <2>3. QED BY <1>1, <2>1, <2>2 DEF SiteInstance
<1>4. QED BY <1>2, <1>3

\* What a step does to the jobs and their instances: nothing; launchd starts one, or it binds; a
\* command ends a job's instance, perhaps to load the job anew or to unload it; or it kills.
LEMMA SiteSteps ==
    ASSUME SiteTypes, [SiteNext]_siteVars
    PROVE  \/ UNCHANGED <<loaded, current, instance>>
           \/ \E s \in Site : (Starts(s) \/ Binds(s)) /\ UNCHANGED <<loaded, command>>
           \/ \E c \in Command :
                /\ Busy(c) /\ Proceeds(c) /\ (Reload(c) \/ Kickstart(c) \/ Unload(c))
                /\ Site_(c) \in Site
                /\ \/ UNCHANGED <<loaded, current, instance>>
                   \/ /\ instance' \in IF loaded[Site_(c)] # 0 THEN Orphaned(Site_(c)) ELSE {instance}
                      /\ current' = [current EXCEPT ![Site_(c)] = 0]
                      /\ \/ UNCHANGED loaded
                         \/ \E p \in {0} \cup Port : loaded' = [loaded EXCEPT ![Site_(c)] = p]
           \/ \E c \in Command : (Reap(c) \/ KillOld(c)) /\ Proceeds(c) /\ UNCHANGED loaded
<1>1. ASSUME NEW c \in Command, CommandStep(c)
      PROVE  /\ Proceeds(c) /\ Busy(c) /\ Site_(c) \in Site /\ command[c].port \in {0} \cup Port
  <2>1. Proceeds(c) /\ Busy(c)
    BY <1>1, CommandMoves DEF Proceeds
  <2>2. QED BY <2>1 DEF SiteTypes, CommandTypes, Work, WorkShape, Busy, Site_
<1>2. ASSUME NEW c \in Command, Allocate(c) \/ Build(c) \/ Snapshot(c) \/ OpenFile(c) \/ WriteFile(c) \/ Done(c)
                                \/ Killed(c) \/ \E s \in Site : BeginCommand(c, s)
      PROVE  UNCHANGED <<loaded, current, instance>>
  BY <1>2 DEF Allocate, Build, Snapshot, OpenFile, WriteFile, Done, Killed, BeginCommand
<1>3. ASSUME NEW s \in Site, NEW p \in {0} \cup Port, Boots(s, p)
      PROVE  /\ instance' \in IF loaded[s] # 0 THEN Orphaned(s) ELSE {instance}
             /\ current' = [current EXCEPT ![s] = 0]
             /\ \E q \in {0} \cup Port : loaded' = [loaded EXCEPT ![s] = q]
  BY <1>3 DEF Boots
<1>4. ASSUME NEW c \in Command, Reload(c) \/ Unload(c), Site_(c) \in Site, command[c].port \in {0} \cup Port
      PROVE  \/ UNCHANGED <<loaded, current, instance>>
             \/ \E p \in {0} \cup Port : Boots(Site_(c), p)
  BY <1>4 DEF Reload, Unload, Stays
<1>5. ASSUME NEW c \in Command, Kickstart(c)
      PROVE  /\ UNCHANGED loaded
             /\ \/ UNCHANGED <<current, instance>>
                \/ /\ instance' \in IF loaded[Site_(c)] # 0 THEN Orphaned(Site_(c)) ELSE {instance}
                   /\ current' = [current EXCEPT ![Site_(c)] = 0]
  BY <1>5 DEF Kickstart
<1>6. ASSUME NEW c \in Command, Reap(c) \/ KillOld(c) PROVE UNCHANGED loaded
  BY <1>6 DEF Reap, KillOld
<1>7. ASSUME NEW s \in Site, Starts(s) \/ Binds(s) PROVE UNCHANGED <<loaded, command>>
  BY <1>7 DEF Starts, Binds
<1>8. CASE UNCHANGED siteVars
  BY <1>8 DEF siteVars
<1>9. ASSUME NEW c \in Command, CommandStep(c), Reload(c) \/ Kickstart(c) \/ Unload(c)
      PROVE  /\ Busy(c) /\ Proceeds(c) /\ (Reload(c) \/ Kickstart(c) \/ Unload(c))
             /\ Site_(c) \in Site
             /\ \/ UNCHANGED <<loaded, current, instance>>
                \/ /\ instance' \in IF loaded[Site_(c)] # 0 THEN Orphaned(Site_(c)) ELSE {instance}
                   /\ current' = [current EXCEPT ![Site_(c)] = 0]
                   /\ \/ UNCHANGED loaded
                      \/ \E p \in {0} \cup Port : loaded' = [loaded EXCEPT ![Site_(c)] = p]
  BY <1>1, <1>3, <1>4, <1>5, <1>9
<1>10. ASSUME NEW c \in Command, CommandStep(c)
      PROVE  \/ UNCHANGED <<loaded, current, instance>>
             \/ Reload(c) \/ Kickstart(c) \/ Unload(c) \/ Reap(c) \/ KillOld(c)
  BY <1>2, <1>10 DEF CommandStep
<1>11. QED
  BY <1>1, <1>2, <1>6, <1>7, <1>8, <1>9, <1>10 DEF SiteNext

\* The types hold, and a job's instance is one of its site.
LEMMA SiteTypeStep == SiteTypes /\ JobsInstances /\ [SiteNext]_siteVars => (SiteTypes /\ JobsInstances)'
<1> SUFFICES ASSUME SiteTypes, JobsInstances, [SiteNext]_siteVars PROVE SiteTypes' /\ JobsInstances'
  OBVIOUS
<1>0. SiteTypeOK /\ CommandTypes
  BY DEF SiteTypes
<1>1. CommandTypes'
  <2>1. CASE UNCHANGED siteVars
    BY <1>0, <2>1 DEF siteVars, CommandTypes
  <2>2. ASSUME NEW s \in Site, Starts(s) \/ Binds(s) PROVE CommandTypes'
    BY <1>0, <2>2 DEF Starts, Binds, CommandTypes
  <2>3. QED BY <2>1, <2>2, CommandBegins, CommandMoves DEF SiteNext, Proceeds
<1>2. /\ sites' \in [Site -> RegistryEntry] \cup {Emptied}
      /\ given' \in 0..MaxCommands /\ killed' \in 0..MaxKilled
      /\ crossed' \subseteq Site /\ refused' \subseteq Site /\ filed' \subseteq Site
  <2> USE SiteFacts
  <2>1. ASSUME NEW c \in Command, Busy(c) PROVE Site_(c) \in Site
    BY <1>0, <2>1 DEF CommandTypes, Work, WorkShape, Busy, Site_
  <2>2. CASE UNCHANGED siteVars
    BY <1>0, <2>2 DEF siteVars, SiteTypeOK
  <2>3. ASSUME NEW s \in Site, Starts(s) PROVE <1>2
    BY <1>0, <2>1, <2>3 DEF Starts, SiteTypeOK, Busy
  <2>4. ASSUME NEW s \in Site, Binds(s) PROVE <1>2
    BY <1>0, <2>4 DEF Binds, SiteTypeOK
  <2>5. ASSUME NEW c \in Command, NEW s \in Site, BeginCommand(c, s) PROVE <1>2
    <3>1. Others(c) \subseteq Site
      BY <2>1 DEF Others
    <3>2. QED BY <1>0, <2>5, <3>1 DEF BeginCommand, SiteTypeOK
  <2>6. ASSUME NEW c \in Command, Killed(c) PROVE <1>2
    BY <1>0, <2>1, <2>6 DEF Killed, SiteTypeOK
  <2>7. ASSUME NEW c \in Command, WriteFile(c) PROVE <1>2
    <3>1. command[c].port \in Port /\ command[c].seen \in [Site -> RegistryEntry]
      BY <1>0, <2>7 DEF WriteFile, CommandTypes, Work, WorkShape
    <3>2. [port |-> command[c].port, running |-> command[c].op = "publish"] \in RegistryEntry
      BY <3>1 DEF RegistryEntry
    <3>3. QED BY <1>0, <2>7, <3>1, <3>2 DEF WriteFile, SiteTypeOK
  <2>8. ASSUME NEW c \in Command, CommandStep(c), ~WriteFile(c) PROVE <1>2
    <3>1. CASE Reload(c) \/ Unload(c)
      <4>1. Site_(c) \in Site
        BY <1>0, <2>1, <3>1 DEF Reload, Unload, Busy
      <4>2. refused' \subseteq Site /\ filed' \subseteq Site
        BY <1>0, <3>1, <4>1 DEF Reload, Unload, SiteTypeOK
      <4>3. QED BY <1>0, <3>1, <4>2 DEF Reload, Unload, SiteTypeOK
    <3>2. QED BY <1>0, <2>8, <3>1 DEF CommandStep, Allocate, Build, Snapshot, Kickstart, Reap, KillOld,
                                      OpenFile, Done, SiteTypeOK
  <2>9. QED BY <2>2, <2>3, <2>4, <2>5, <2>6, <2>7, <2>8 DEF SiteNext
<1>3. /\ loaded' \in [Site -> {0} \cup Port] /\ current' \in [Site -> {0} \cup Instance]
      /\ instance' \in [Instance -> SiteInstance] /\ JobsInstances'
  <2> DEFINE Fine == /\ loaded' \in [Site -> {0} \cup Port] /\ current' \in [Site -> {0} \cup Instance]
                     /\ instance' \in [Instance -> SiteInstance] /\ JobsInstances'
  <2>0. /\ loaded \in [Site -> {0} \cup Port] /\ current \in [Site -> {0} \cup Instance]
        /\ instance \in [Instance -> SiteInstance]
    BY <1>0 DEF SiteTypeOK, SiteInstance
  <2>J. /\ \A s \in Site : current[s] # 0 =>
              current[s] \in Instance /\ instance[current[s]].life # "none" /\ instance[current[s]].site = s
        /\ \A s \in Site : loaded[s] = 0 => current[s] = 0
        /\ \A n \in Instance : instance[n].life = "starting" =>
              instance[n].site \in Site /\ current[instance[n].site] = n
    BY <2>0 DEF JobsInstances, Alive
  <2>K. ASSUME \A s \in Site : current'[s] # 0 => instance'[current'[s]].life # "none" /\ instance'[current'[s]].site = s,
               \A s \in Site : loaded'[s] = 0 => current'[s] = 0,
               \A n \in Instance : instance'[n].life = "starting" =>
                  instance'[n].site \in Site /\ current'[instance'[n].site] = n
        PROVE  JobsInstances'
    BY <2>K DEF JobsInstances, Alive
  <2>1. CASE UNCHANGED <<loaded, current, instance>>
    BY <2>0, <2>1 DEF JobsInstances, Alive
  <2>2. ASSUME NEW s \in Site, Starts(s), UNCHANGED loaded PROVE Fine
    <3>1. PICK n \in Instance :
             /\ ~Alive(n) /\ instance' \in [Instance -> SiteInstance] /\ current' = [current EXCEPT ![s] = n]
             /\ instance'[n].site = s /\ instance'[n].life = "starting"
             /\ \A k \in Instance \ {n} : instance'[k] = instance[k]
      BY <1>0, <2>2, StartsLeaves
    <3>2. loaded[s] # 0 /\ current[s] = 0
      BY <2>2 DEF Starts
    <3>3. \A r \in Site : current[r] # n
      BY <2>J, <3>1, SiteFacts DEF Alive
    <3>4. \A r \in Site : loaded'[r] = 0 => current'[r] = 0
      BY <2>0, <2>2, <3>1, <3>2 DEF JobsInstances
    <3>5. \A r \in Site : current'[r] # 0 =>
             instance'[current'[r]].life # "none" /\ instance'[current'[r]].site = r
      BY <2>0, <2>J, <3>1, <3>3
    <3>6. \A k \in Instance : instance'[k].life = "starting" =>
             instance'[k].site \in Site /\ current'[instance'[k].site] = k
      BY <2>0, <2>J, <3>1, <3>2, SiteFacts
    <3>7. QED BY <2>0, <2>2, <2>K, <3>1, <3>4, <3>5, <3>6
  <2>3. ASSUME NEW s \in Site, Binds(s), UNCHANGED loaded PROVE Fine
    <3>1. /\ current[s] \in Instance /\ instance' \in [Instance -> SiteInstance]
          /\ \A k \in Instance \ {current[s]} : instance'[k] = instance[k]
          /\ \/ /\ instance'[current[s]] = NoInstance /\ current' = [current EXCEPT ![s] = 0]
             \/ /\ instance'[current[s]].life = "listening" /\ current' = current
                /\ instance'[current[s]].site = instance[current[s]].site
      BY <1>0, <2>3, BindsLeaves
    <3>2. instance[current[s]].site = s
      BY <3>1, SiteFacts DEF JobsInstances
    <3>3. \A r \in Site \ {s} : current[r] # 0 => current[r] # current[s]
      BY <3>2 DEF JobsInstances
    <3>4. CASE instance'[current[s]] = NoInstance /\ current' = [current EXCEPT ![s] = 0]
      <4>1. \A r \in Site : current'[r] # 0 =>
               instance'[current'[r]].life # "none" /\ instance'[current'[r]].site = r
        BY <2>0, <2>J, <3>1, <3>3, <3>4
      <4>2. \A k \in Instance : instance'[k].life = "starting" =>
               instance'[k].site \in Site /\ current'[instance'[k].site] = k
        BY <2>0, <2>J, <3>1, <3>2, <3>4, SiteFacts
      <4>3. \A r \in Site : loaded'[r] = 0 => current'[r] = 0
        BY <2>0, <2>3, <2>J, <3>4
      <4>4. current' \in [Site -> {0} \cup Instance]
        BY <2>0, <3>4
      <4>5. QED BY <2>0, <2>3, <2>K, <3>1, <4>1, <4>2, <4>3, <4>4
    <3>5. CASE /\ instance'[current[s]].life = "listening" /\ current' = current
               /\ instance'[current[s]].site = instance[current[s]].site
      <4>1. \A r \in Site : current'[r] # 0 =>
               instance'[current'[r]].life # "none" /\ instance'[current'[r]].site = r
        BY <2>J, <3>1, <3>2, <3>3, <3>5
      <4>2. \A k \in Instance : instance'[k].life = "starting" =>
               instance'[k].site \in Site /\ current'[instance'[k].site] = k
        BY <2>J, <3>1, <3>5
      <4>3. QED BY <2>0, <2>3, <2>J, <2>K, <3>1, <3>5, <4>1, <4>2
    <3>6. QED BY <3>1, <3>4, <3>5
  <2>4. ASSUME NEW s \in Site,
               instance' \in IF loaded[s] # 0 THEN Orphaned(s) ELSE {instance},
               current' = [current EXCEPT ![s] = 0],
               \/ UNCHANGED loaded
               \/ \E p \in {0} \cup Port : loaded' = [loaded EXCEPT ![s] = p]
        PROVE  Fine
    <3>1. /\ instance' \in [Instance -> SiteInstance]
          /\ \A n \in Instance : n # current[s] => instance'[n] = instance[n]
          /\ current[s] # 0 =>
                /\ instance'[current[s]].life # "starting"
                /\ instance'[current[s]].life = "none" \/ instance'[current[s]].site = s
      <4>1. CASE loaded[s] # 0
        BY <1>0, <2>4, <4>1, OrphanedLeaves
      <4>2. CASE loaded[s] = 0
        BY <2>0, <2>4, <2>J, <4>2
      <4>3. QED BY <4>1, <4>2
    <3>2. loaded' \in [Site -> {0} \cup Port] /\ \A r \in Site \ {s} : loaded'[r] = loaded[r]
      BY <2>0, <2>4
    <3>3. \A r \in Site \ {s} : current[r] # 0 => current[r] # current[s]
      BY <2>J
    <3>4. \A r \in Site : current'[r] # 0 =>
             instance'[current'[r]].life # "none" /\ instance'[current'[r]].site = r
      BY <2>0, <2>4, <2>J, <3>1, <3>3
    <3>5. \A r \in Site : loaded'[r] = 0 => current'[r] = 0
      BY <2>0, <2>4, <2>J, <3>2
    <3>6. \A k \in Instance : instance'[k].life = "starting" =>
             instance'[k].site \in Site /\ current'[instance'[k].site] = k
      BY <2>0, <2>4, <2>J, <3>1, SiteFacts
    <3>7. QED BY <2>0, <2>4, <2>K, <3>1, <3>2, <3>4, <3>5, <3>6
  <2>5. ASSUME NEW c \in Command, Reap(c) \/ KillOld(c), UNCHANGED loaded PROVE Fine
    <3>1. PICK pids : Kill(pids)
      BY <2>5 DEF Reap, KillOld
    <3>2. /\ instance' \in [Instance -> SiteInstance] /\ current' \in [Site -> {0} \cup Instance]
          /\ \A n \in Instance : instance'[n] = IF n \in pids THEN NoInstance ELSE instance[n]
          /\ \A s \in Site : current'[s] = IF current[s] \in pids THEN 0 ELSE current[s]
      BY <1>0, <3>1, KillLeaves
    <3>3. \A r \in Site : current'[r] # 0 =>
             instance'[current'[r]].life # "none" /\ instance'[current'[r]].site = r
      BY <2>0, <2>J, <3>2
    <3>4. \A r \in Site : loaded'[r] = 0 => current'[r] = 0
      BY <2>5, <2>J, <3>2
    <3>5. \A k \in Instance : instance'[k].life = "starting" =>
             instance'[k].site \in Site /\ current'[instance'[k].site] = k
      <4>1. \A k \in Instance : instance'[k].life = "starting" => instance'[k] = instance[k] /\ k \notin pids
        BY <3>2, SiteFacts
      <4>2. QED BY <2>J, <3>2, <4>1
    <3>6. QED BY <2>0, <2>5, <2>K, <3>2, <3>3, <3>4, <3>5
  <2> HIDE DEF Fine
  <2>6. Fine
    <3>1. CASE UNCHANGED <<loaded, current, instance>>
      BY <2>1, <3>1 DEF Fine
    <3>2. QED BY <2>2, <2>3, <2>4, <2>5, <3>1, SiteSteps
  <2>7. QED BY <2>6 DEF Fine
<1>4. QED BY <1>1, <1>2, <1>3 DEF SiteTypes, SiteTypeOK, SiteInstance

\* Who takes a step.
LEMMA SiteActors ==
    ASSUME [SiteNext]_siteVars
    PROVE  \/ command' = command
           \/ \E c \in Command : \E s \in Site : BeginCommand(c, s)
           \/ \E c \in Command : CommandStep(c) \/ Killed(c)
BY DEF SiteNext, siteVars, Starts, Binds

\* A command that is alone stays so, or is told by the one that comes.
LEMMA AloneStep == SiteTypes /\ AloneIsAlone /\ [SiteNext]_siteVars => AloneIsAlone'
<1> SUFFICES ASSUME SiteTypes, AloneIsAlone, [SiteNext]_siteVars PROVE AloneIsAlone'
  OBVIOUS
<1>1. CASE command' = command
  BY <1>1 DEF AloneIsAlone, Busy, Site_
<1>2. ASSUME NEW c \in Command, NEW s \in Site, BeginCommand(c, s) PROVE AloneIsAlone'
  <2>1. /\ ~Busy(c)
        /\ \A d \in Command \ {c} :
             SameWork(d) /\ (command'[d].alone => command[d].alone /\ ~(Busy(c)' /\ Site_(d) = s))
        /\ Busy(c)' => command'[c].site = s /\ (command'[c].alone => s \notin Others(c))
    BY <1>2, CommandBegins
  <2>2. ASSUME NEW d \in Command \ {c}, Busy(d)', Busy(c)'
        PROVE  /\ command'[d].alone => Site_(d)' # Site_(c)'
               /\ command'[c].alone => Site_(d)' # Site_(c)'
    BY <2>1, <2>2 DEF SameWork, Busy, Site_, Others
  <2>3. ASSUME NEW d \in Command \ {c}, NEW e \in Command \ {c}, Busy(d)', Busy(e)', d # e, command'[d].alone
        PROVE  Site_(d)' # Site_(e)'
    BY <2>1, <2>3 DEF SameWork, Busy, Site_, AloneIsAlone
  <2>4. QED BY <2>2, <2>3 DEF AloneIsAlone
<1>3. ASSUME NEW c \in Command, CommandStep(c) \/ Killed(c) PROVE AloneIsAlone'
  <2>1. Proceeds(c)
    BY <1>3, CommandMoves
  <2>2. Busy(c)' => Site_(c)' = Site_(c) /\ command'[c].alone = command[c].alone
    BY <2>1, SiteFacts DEF Proceeds, GoesOnWith, Busy, Site_
  <2>3. QED BY <2>1, <2>2 DEF AloneIsAlone, Proceeds, Busy, Site_
<1>4. QED BY <1>1, <1>2, <1>3, SiteActors

\* All servers of a Next.js site are found: by their folder, or as the job's instance.
LEMMA HadFound ==
    ASSUME SiteTypes, JobsInstances, NEW c \in Command
    PROVE  Had(c) \subseteq Old(c)
<1> SUFFICES ASSUME NEW n \in Had(c) PROVE n \in Old(c)
  OBVIOUS
<1>1. Site_(c) \in NextSite /\ n \in OfSite(Site_(c)) /\ n \in Instance /\ n # 0
  BY SiteFacts DEF Had, OfSite
<1>2. CASE instance[n].life = "starting"
  <2>1. current[Site_(c)] = n
    BY <1>1, <1>2 DEF JobsInstances, OfSite
  <2>2. QED BY <1>1, <2>1 DEF Old, Job
<1>3. CASE instance[n].life # "starting"
  BY <1>1, <1>3 DEF Old, ByFolder
<1>4. QED BY <1>2, <1>3

\* The list is kept until it is done with.
LEMMA HadStep == SiteTypes /\ JobsInstances /\ HadIsOld /\ [SiteNext]_siteVars => HadIsOld'
<1> SUFFICES ASSUME SiteTypes, JobsInstances, HadIsOld, [SiteNext]_siteVars PROVE HadIsOld'
  OBVIOUS
<1>0. command \in [Command -> Work] /\ \A c \in Command : WorkShape(command[c])
  BY DEF SiteTypes, CommandTypes
<1>1. CASE command' = command
  BY <1>1 DEF HadIsOld
<1>2. ASSUME NEW c \in Command, NEW s \in Site, BeginCommand(c, s) PROVE HadIsOld'
  <2>1. command'[c].had = {} /\ \A d \in Command \ {c} : SameWork(d)
    BY <1>2, CommandBegins
  <2>2. command'[c].at \in {"rest", "allocate", "build", "unload"}
    <3>1. Busy(c)' => command'[c].at \in {"allocate", "build", "unload"}
      BY <1>2, CommandBegins
    <3>2. QED BY <3>1 DEF Busy
  <2>3. QED BY <2>1, <2>2 DEF HadIsOld, SameWork
<1>3. ASSUME NEW c \in Command, CommandStep(c) \/ Killed(c) PROVE HadIsOld'
  <2>1. \A d \in Command \ {c} : command'[d] = command[d]
    BY <1>3, CommandMoves DEF Proceeds
  <2>2. command[c] \in Work
    BY <1>0
  <2> DEFINE Mine == IF command'[c].at \in {"restart", "reap", "killold"} THEN command'[c].had \subseteq command'[c].old
                     ELSE command'[c].at \in {"save", "write", "done"} \/ command'[c].had = {}
  <2>3. CASE command'[c] = Rest
    <3>1. Mine
      BY <2>3, SiteFacts
    <3>2. QED BY <2>1, <3>1 DEF HadIsOld
  <2>4. CASE Snapshot(c)
    <3>1. command'[c].at = "restart" /\ command'[c].old = Old(c) /\ command'[c].had = Had(c)
      BY <1>0, <2>2, <2>4 DEF Snapshot, Work
    <3>2. QED BY <2>1, <3>1, HadFound DEF HadIsOld
  <2>5. CASE Unload(c)
    <3>1. command'[c].at = "killold" /\ command'[c].old = Old(c) /\ command'[c].had = Had(c)
      BY <1>0, <2>2, <2>5 DEF Unload, Work
    <3>2. QED BY <2>1, <3>1, HadFound DEF HadIsOld
  <2>6. CASE Reload(c) \/ Kickstart(c)
    <3>1. command'[c].at = "reap" /\ command'[c].old = command[c].old /\ command'[c].had = command[c].had
          /\ command[c].at = "restart"
      BY <1>0, <2>2, <2>6 DEF Reload, Kickstart, Goes, Work
    <3>2. QED BY <2>1, <3>1 DEF HadIsOld
  <2>7. CASE Reap(c) \/ KillOld(c) \/ OpenFile(c)
    <3>1. command'[c].at \in {"save", "done", "write"}
      BY <1>0, <2>2, <2>7 DEF Reap, KillOld, OpenFile, Goes, Work
    <3>2. QED BY <2>1, <3>1 DEF HadIsOld
  <2>8. CASE (Allocate(c) \/ Build(c)) /\ command'[c] # Rest
    <3>1. command'[c].at \in {"build", "snapshot"} /\ command'[c].had = command[c].had
          /\ command[c].at \in {"allocate", "build"}
      <4>1. command' # [command EXCEPT ![c] = Rest]
        BY <1>0, <2>8
      <4>2. CASE Allocate(c)
        <5>1. FreePorts # {} /\ command[c].at = "allocate"
          BY <4>1, <4>2 DEF Allocate, Ends
        <5>2. PICK p \in FreePorts : command' = [command EXCEPT ![c].port = p, ![c].at = "build"]
          BY <4>2, <5>1 DEF Allocate
        <5>3. QED BY <1>0, <2>2, <5>1, <5>2 DEF Work
      <4>3. CASE Build(c)
        BY <1>0, <2>2, <4>1, <4>3 DEF Build, Goes, Ends, Work
      <4>4. QED BY <2>8, <4>2, <4>3
    <3>2. QED BY <2>1, <3>1 DEF HadIsOld
  <2>9. CASE WriteFile(c) \/ Done(c) \/ Killed(c)
    BY <1>0, <2>3, <2>9 DEF WriteFile, Done, Killed, Ends
  <2>10. QED BY <1>3, <2>3, <2>4, <2>5, <2>6, <2>7, <2>8, <2>9 DEF CommandStep
<1>4. QED BY <1>1, <1>2, <1>3, SiteActors

\* While a command that has cleaned up is alone on its site, no old server comes back.
LEMMA NoneComesBack ==
    ASSUME ServerInv, [SiteNext]_siteVars, NEW c \in Command, Reaped(c), command[c].alone,
           NEW n \in Instance, n \in OfSite(Site_(c)) => current[Site_(c)] = n, n \in OfSite(Site_(c))',
           Site_(c)' = Site_(c), Site_(c) \in Site
    PROVE  current'[Site_(c)] = n
<1> DEFINE s == Site_(c)
<1>1. /\ SiteTypes /\ SiteTypeOK /\ JobsInstances /\ AloneIsAlone /\ Busy(c) /\ n # 0
      /\ current \in [Site -> {0} \cup Instance]
  BY SiteFacts DEF ServerInv, SiteTypes, SiteTypeOK, Reaped, Busy
<1>2. s \in Site /\ s' = s /\ instance'[n].life # "none" /\ instance'[n].site = s
  BY DEF OfSite, Alive
<1>3. ASSUME instance'[n] = instance[n] PROVE current[s] = n
  BY <1>2, <1>3 DEF OfSite, Alive
<1>4. \A r \in Site : current[r] # 0 => instance[current[r]].site = r
  BY <1>1 DEF JobsInstances
<1> HIDE DEF s
<1> SUFFICES current'[s] = n
  BY DEF s
<1>5. CASE UNCHANGED <<loaded, current, instance>>
  BY <1>3, <1>5
<1>6. ASSUME NEW r \in Site, Starts(r) PROVE current'[s] = n
  <2>1. PICK k \in Instance : /\ current' = [current EXCEPT ![r] = k] /\ instance'[k].site = r
                              /\ \A m \in Instance \ {k} : instance'[m] = instance[m]
    BY <1>1, <1>6, StartsLeaves
  <2>2. CASE k = n
    BY <1>1, <1>2, <2>1, <2>2
  <2>3. CASE k # n
    <3>1. current[s] = n /\ current[r] = 0
      BY <1>3, <1>6, <2>1, <2>3 DEF Starts
    <3>2. QED BY <1>1, <2>1, <3>1
  <2>4. QED BY <2>2, <2>3
<1>7. ASSUME NEW r \in Site, Binds(r) PROVE current'[s] = n
  <2>1. /\ current[r] \in Instance
        /\ \A k \in Instance \ {current[r]} : instance'[k] = instance[k]
        /\ \/ /\ instance'[current[r]] = NoInstance /\ current' = [current EXCEPT ![r] = 0]
           \/ /\ instance'[current[r]].life = "listening" /\ current' = current
              /\ instance'[current[r]].site = instance[current[r]].site
    BY <1>1, <1>7, BindsLeaves
  <2>2. CASE n = current[r]
    BY <1>1, <1>2, <1>4, <2>1, <2>2, SiteFacts
  <2>3. CASE n # current[r]
    <3>1. current[s] = n /\ r # s
      BY <1>3, <2>1, <2>3
    <3>2. QED BY <1>1, <1>2, <2>1, <3>1
  <2>4. QED BY <2>2, <2>3
<1>8. ASSUME NEW d \in Command, Busy(d), Reload(d) \/ Kickstart(d) \/ Unload(d), Site_(d) \in Site,
             instance' \in IF loaded[Site_(d)] # 0 THEN Orphaned(Site_(d)) ELSE {instance},
             current' = [current EXCEPT ![Site_(d)] = 0]
      PROVE  current'[s] = n
  <2>1. d # c
    BY <1>8 DEF Reload, Kickstart, Unload, Reaped
  <2>2. Site_(d) # s
    BY <1>1, <1>8, <2>1 DEF AloneIsAlone, s
  <2>3. /\ n # current[Site_(d)] => instance'[n] = instance[n]
        /\ instance'[n] = instance[n] \/ instance'[n].life = "none" \/ instance'[n].site = Site_(d)
    <3>1. CASE loaded[Site_(d)] # 0
      BY <1>1, <1>8, <3>1, OrphanedLeaves
    <3>2. CASE loaded[Site_(d)] = 0
      BY <1>8, <3>2
    <3>3. QED BY <3>1, <3>2
  <2>4. current[s] = n
    BY <1>2, <1>3, <2>2, <2>3
  <2>5. QED BY <1>1, <1>2, <1>8, <2>2, <2>4
<1>9. ASSUME NEW d \in Command, Reap(d) \/ KillOld(d) PROVE current'[s] = n
  <2>1. PICK pids : Kill(pids)
    BY <1>9 DEF Reap, KillOld
  <2>2. /\ instance'[n] = IF n \in pids THEN NoInstance ELSE instance[n]
        /\ current'[s] = IF current[s] \in pids THEN 0 ELSE current[s]
    BY <1>1, <1>2, <2>1, KillLeaves
  <2>3. QED BY <1>2, <1>3, <2>2, SiteFacts
<1>10. QED BY <1>1, <1>5, <1>6, <1>7, <1>8, <1>9, SiteSteps

\* Old servers do not come back, and a command that cleans up ends them all.
LEMMA ServersStep == ServerInv /\ [SiteNext]_siteVars => OldServersGone'
<1> SUFFICES ASSUME ServerInv, [SiteNext]_siteVars, NEW c \in Command, Reaped(c)', command'[c].alone,
                    NEW n \in command'[c].had, n \in OfSite(Site_(c))'
             PROVE  current'[Site_(c)'] = n
  BY DEF OldServersGone
<1>1. SiteTypes /\ SiteTypeOK /\ command \in [Command -> Work] /\ WorkShape(command[c])
  BY DEF ServerInv, SiteTypes, CommandTypes
<1>2. n \in Instance /\ n # 0
  BY SiteFacts DEF OfSite
<1>3. ASSUME Reaped(c), command[c].alone, Site_(c)' = Site_(c), command'[c].had = command[c].had
      PROVE  current'[Site_(c)'] = n
  <2>1. n \in OfSite(Site_(c)) => current[Site_(c)] = n
    BY <1>3 DEF ServerInv, OldServersGone
  <2>2. Site_(c) \in Site
    BY <1>1, <1>3 DEF Work, WorkShape, Reaped, Site_
  <2>3. QED BY <1>2, <1>3, <2>1, <2>2, NoneComesBack
<1>4. CASE command' = command
  BY <1>3, <1>4 DEF Reaped, Site_
<1>5. ASSUME NEW d \in Command, NEW s \in Site, BeginCommand(d, s) PROVE current'[Site_(c)'] = n
  <2>1. CASE d = c
    <3>1. Busy(c)' => command'[c].at \in {"allocate", "build", "unload"}
      BY <1>1, <1>5, <2>1, CommandBegins
    <3>2. QED BY <3>1 DEF Reaped, Busy
  <2>2. CASE d # c
    <3>1. SameWork(c) /\ (command'[c].alone => command[c].alone)
      BY <1>1, <1>5, <2>2, CommandBegins
    <3>2. QED BY <1>3, <3>1 DEF SameWork, Reaped, Site_
  <2>3. QED BY <2>1, <2>2
<1>6. ASSUME NEW d \in Command, CommandStep(d) \/ Killed(d) PROVE current'[Site_(c)'] = n
  <2>1. Proceeds(d)
    BY <1>1, <1>6, CommandMoves
  <2>2. CASE d # c
    <3>1. command'[c] = command[c]
      BY <2>1, <2>2 DEF Proceeds
    <3>2. QED BY <1>3, <3>1 DEF Reaped, Site_
  <2>3. CASE d = c
    <3>1. command'[c] # Rest /\ Site_(c)' = Site_(c) /\ command'[c].at \in {"save", "done"}
      BY <2>1, <2>3, SiteFacts DEF Proceeds, GoesOnWith, Reaped, Site_
    <3>2. CASE Reap(c) \/ KillOld(c)
      <4>1. command'[c].had = command[c].had /\ command[c].at \in {"reap", "killold"}
        BY <1>1, <3>2 DEF Reap, KillOld, Work
      <4>2. n \in command[c].old
        BY <4>1 DEF ServerInv, HadIsOld
      <4>3. PICK pids : Kill(pids) /\ command[c].old \subseteq pids
        BY <3>2 DEF Reap, KillOld, StalePids, New
      <4>4. instance'[n] = NoInstance
        BY <1>1, <1>2, <4>2, <4>3, KillLeaves
      <4>5. QED BY <4>4, SiteFacts DEF OfSite, Alive
    <3>3. CASE ~(Reap(c) \/ KillOld(c))
      <4>1. command'[c] = Rest \/ command'[c].at \notin {"save", "done"}
        <5>1. CASE Ends(c)
          BY <1>1, <5>1 DEF Ends
        <5>2. CASE Allocate(c) \/ Snapshot(c) \/ Unload(c)
          <6>1. CASE Allocate(c)
            BY <1>1, <5>1, <6>1 DEF Allocate, Work
          <6>2. CASE Snapshot(c) \/ Unload(c)
            BY <1>1, <6>2 DEF Snapshot, Unload, Work
          <6>3. QED BY <5>2, <6>1, <6>2
        <5>3. CASE Build(c) \/ Reload(c) \/ Kickstart(c) \/ OpenFile(c)
          BY <1>1, <5>1, <5>3 DEF Build, Reload, Kickstart, OpenFile, Goes, Work
        <5>4. CASE WriteFile(c) \/ Done(c) \/ Killed(c)
          BY <5>1, <5>4 DEF WriteFile, Done, Killed
        <5>5. QED BY <1>6, <2>3, <3>3, <5>2, <5>3, <5>4 DEF CommandStep
      <4>2. QED BY <3>1, <4>1
    <3>4. QED BY <3>2, <3>3
  <2>4. QED BY <2>2, <2>3
<1>7. QED BY <1>4, <1>5, <1>6, SiteActors

\* At the start no instance runs and no command is at work.
LEMMA SiteStarts == SiteInit => ServerInv
<1> SUFFICES ASSUME SiteInit PROVE ServerInv
  OBVIOUS
<1> USE SiteFacts
<1>1. /\ command \in [Command -> Work]
      /\ \A c \in Command : command[c] = Rest /\ command[c].at = "rest" /\ command[c].had = {}
  BY DEF SiteInit
<1>2. CommandTypes
  BY <1>1 DEF CommandTypes
<1>3. loaded \in [Site -> {0} \cup Port]
  BY SiteAssumption DEF SiteInit
<1>4. sites \in [Site -> RegistryEntry]
  BY <1>3 DEF SiteInit, RegistryEntry
<1>5. /\ current \in [Site -> {0} \cup Instance] /\ (\A s \in Site : current[s] = 0)
      /\ instance \in [Instance -> SiteInstance] /\ (\A n \in Instance : instance[n] = NoInstance)
      /\ given \in 0..MaxCommands /\ killed \in 0..MaxKilled
      /\ crossed = {} /\ refused = {} /\ filed \subseteq Site
  BY DEF SiteInit
<1>6. SiteTypes /\ JobsInstances
  BY <1>2, <1>3, <1>4, <1>5 DEF SiteTypes, SiteTypeOK, SiteInstance, JobsInstances
<1>7. AloneIsAlone /\ HadIsOld /\ OldServersGone
  BY <1>1 DEF AloneIsAlone, HadIsOld, OldServersGone, Reaped, Busy
<1>8. QED BY <1>6, <1>7 DEF ServerInv

\* The invariant of the servers.
THEOREM ServerInvariant == SiteSpec => []ServerInv
<1>1. ServerInv /\ [SiteNext]_siteVars => ServerInv'
  BY SiteTypeStep, AloneStep, HadStep, ServersStep DEF ServerInv
<1>2. QED BY SiteStarts, <1>1, PTL DEF SiteSpec

\* Once a command has cleaned up, no server of a Next.js site that it found there answers any more,
\* for any number of sites, ports, instances and commands, wherever one is killed.
THEOREM OldServersEnded == SiteSpec => []OldServersGone
<1>1. ServerInv => OldServersGone
  BY DEF ServerInv
<1>2. QED BY ServerInvariant, <1>1, PTL

-----------------------------------------------------------------------------
(* The registry.                                                            *)

\* From one place of a command's way to the next.
OnItsWay ==
    {<<"allocate", "build">>, <<"build", "snapshot">>, <<"snapshot", "restart">>, <<"restart", "reap">>,
     <<"reap", "save">>, <<"reap", "done">>, <<"unload", "killold">>, <<"killold", "save">>,
     <<"save", "write">>}

\* How a command goes on, and how it ends.
LEMMA CommandWays ==
    ASSUME SiteTypes, NEW c \in Command, CommandStep(c) \/ Killed(c)
    PROVE  \/ /\ command'[c] = Rest
              /\ Killed(c) \/ WriteFile(c) \/ command[c].at \in {"allocate", "build", "done"}
           \/ /\ <<command[c].at, command'[c].at>> \in OnItsWay
              /\ Allocate(c) \/ command'[c].port = command[c].port
<1>1. command \in [Command -> Work] /\ command[c] \in Work
  BY DEF SiteTypes, CommandTypes
<1>2. ASSUME Ends(c) PROVE command'[c] = Rest
  BY <1>1, <1>2 DEF Ends
<1>3. CASE Allocate(c)
  <2>1. CASE FreePorts = {}
    BY <1>2, <1>3, <2>1 DEF Allocate
  <2>2. CASE FreePorts # {}
    <3>1. PICK p \in FreePorts : command' = [command EXCEPT ![c].port = p, ![c].at = "build"]
      BY <1>3, <2>2 DEF Allocate
    <3>2. command'[c].at = "build" /\ command[c].at = "allocate"
      BY <1>1, <1>3, <3>1 DEF Allocate, Work
    <3>3. QED BY <1>3, <3>2 DEF OnItsWay
  <2>3. QED BY <2>1, <2>2
<1>4. CASE Build(c)
  <2>1. command[c].at = "build" /\ (Ends(c) \/ Goes(c, "snapshot"))
    BY <1>4 DEF Build
  <2>2. CASE Goes(c, "snapshot")
    BY <1>1, <2>1, <2>2 DEF Goes, Work, OnItsWay
  <2>3. QED BY <1>2, <2>1, <2>2
<1>5. CASE Snapshot(c) \/ Unload(c)
  BY <1>1, <1>5 DEF Snapshot, Unload, Work, OnItsWay
<1>6. CASE Reload(c) \/ Kickstart(c) \/ OpenFile(c)
  BY <1>1, <1>6 DEF Reload, Kickstart, OpenFile, Goes, Work, OnItsWay
<1>7. CASE Reap(c) \/ KillOld(c)
  BY <1>1, <1>7 DEF Reap, KillOld, Work, OnItsWay
<1>8. CASE WriteFile(c) \/ Done(c) \/ Killed(c)
  BY <1>2, <1>8 DEF WriteFile, Done, Killed
<1>9. QED BY <1>3, <1>4, <1>5, <1>6, <1>7, <1>8 DEF CommandStep

\* What a command's step does to the file and to the launchd files.
Inscribes(c) ==
    \/ /\ Reload(c) \/ Unload(c)
       /\ UNCHANGED sites
       /\ \A s \in Site \ {Site_(c)} : loaded'[s] = loaded[s]
       /\ Site_(c) \notin refused' =>
            /\ Reload(c) => loaded'[Site_(c)] = command[c].port
            /\ Unload(c) => loaded'[Site_(c)] = 0
    \/ OpenFile(c) /\ sites' = Emptied /\ UNCHANGED loaded
    \/ WriteFile(c) /\ UNCHANGED loaded
    \/ UNCHANGED <<sites, loaded>> /\ ~Reload(c) /\ ~Unload(c) /\ ~OpenFile(c) /\ ~WriteFile(c)

\* And so with every step.
LEMMA RegistrySteps ==
    ASSUME SiteTypes, [SiteNext]_siteVars
    PROVE  \/ command' = command /\ UNCHANGED <<sites, loaded>>
           \/ \E c \in Command : \E s \in Site : BeginCommand(c, s) /\ UNCHANGED <<sites, loaded>>
           \/ \E c \in Command :
                /\ CommandStep(c) \/ Killed(c)
                /\ Proceeds(c) /\ Site_(c) \in Site
                /\ Inscribes(c)
<1>1. CASE UNCHANGED siteVars \/ \E s \in Site : Starts(s) \/ Binds(s)
  BY <1>1 DEF siteVars, Starts, Binds
<1>2. CASE \E c \in Command : \E s \in Site : BeginCommand(c, s)
  BY <1>2 DEF BeginCommand
<1>3. ASSUME NEW c \in Command, CommandStep(c) \/ Killed(c)
      PROVE  /\ Proceeds(c) /\ Site_(c) \in Site
             /\ Inscribes(c)
  <2>1. Proceeds(c) /\ Site_(c) \in Site
    <3>1. Proceeds(c)
      BY <1>3, CommandMoves
    <3>2. QED BY <3>1 DEF Proceeds, SiteTypes, CommandTypes, Work, WorkShape, Busy, Site_
  <2>2. loaded \in [Site -> {0} \cup Port]
    BY DEF SiteTypes, SiteTypeOK
  <2>3. CASE Reload(c)
    BY <2>1, <2>2, <2>3 DEF Reload, Unload, Boots, Stays, Inscribes
  <2>4. CASE Unload(c)
    BY <2>1, <2>2, <2>4 DEF Reload, Unload, Boots, Stays, Inscribes
  <2>5. CASE OpenFile(c) \/ WriteFile(c)
    BY <2>1, <2>5 DEF OpenFile, WriteFile, Inscribes
  <2>6. CASE ~Reload(c) /\ ~Unload(c) /\ ~OpenFile(c) /\ ~WriteFile(c)
    BY <1>3, <2>1, <2>6 DEF CommandStep, Allocate, Build, Snapshot, Kickstart, Reap, KillOld, Done, Killed, Inscribes
  <2>7. QED BY <2>3, <2>4, <2>5, <2>6
<1>4. QED BY <1>1, <1>2, <1>3 DEF SiteNext

\* What was crossed stays so; two commands at once cross their sites, as a killed one its own.
LEMMA CrossedGrows ==
    ASSUME SiteTypes, [SiteNext]_siteVars
    PROVE  /\ crossed \subseteq crossed' /\ Untrue \subseteq Untrue'
           /\ \A c \in Command, s \in Site : BeginCommand(c, s) =>
                /\ sites = Emptied => crossed' = Site
                /\ Others(c) \subseteq crossed'
                /\ Others(c) # {} => s \in crossed'
           /\ \A c \in Command : Killed(c) =>
                Site_(c) \in crossed' /\ (command[c].at = "write" => Site \subseteq crossed')
<1>0. /\ crossed \subseteq Site /\ \A c \in Command : Busy(c) => Site_(c) \in Site
  BY DEF SiteTypes, SiteTypeOK, CommandTypes, Work, WorkShape, Busy, Site_
<1>1. ASSUME NEW c \in Command, NEW s \in Site, BeginCommand(c, s)
      PROVE  /\ crossed \subseteq crossed' /\ (sites = Emptied => crossed' = Site)
             /\ Others(c) \subseteq crossed' /\ (Others(c) # {} => s \in crossed')
  <2>1. Others(c) \subseteq Site
    BY <1>0 DEF Others
  <2>2. QED BY <1>0, <1>1, <2>1 DEF BeginCommand
<1>2. ASSUME NEW c \in Command, Killed(c)
      PROVE  crossed \subseteq crossed' /\ Site_(c) \in crossed' /\ (command[c].at = "write" => Site \subseteq crossed')
  BY <1>0, <1>2 DEF Killed
<1>3. ASSUME NEW c \in Command, CommandStep(c) PROVE crossed' = crossed
  BY <1>3 DEF CommandStep, Allocate, Build, Snapshot, Reload, Kickstart, Reap, Unload, KillOld, OpenFile,
              WriteFile, Done
<1>4. ASSUME NEW s \in Site, Starts(s) \/ Binds(s) PROVE crossed \subseteq crossed'
  BY <1>4 DEF Starts, Binds
<1>5. crossed \subseteq crossed'
  BY <1>1, <1>2, <1>3, <1>4 DEF SiteNext, siteVars
<1>6. refused \subseteq refused'
  BY DEF SiteNext, siteVars, Starts, Binds, BeginCommand, Killed, CommandStep, Allocate, Build, Snapshot, Reload,
         Kickstart, Reap, Unload, KillOld, OpenFile, WriteFile, Done
<1>7. QED BY <1>1, <1>2, <1>5, <1>6 DEF Untrue

\* Commands at work at once have their sites crossed.
LEMMA OverlapStep == SiteTypes /\ OverlapCrosses /\ [SiteNext]_siteVars => OverlapCrosses'
<1> SUFFICES ASSUME SiteTypes, OverlapCrosses, [SiteNext]_siteVars PROVE OverlapCrosses'
  OBVIOUS
<1>0. crossed \subseteq crossed'
  BY CrossedGrows
<1>1. CASE command' = command
  BY <1>0, <1>1 DEF OverlapCrosses, Busy, Site_
<1>2. ASSUME NEW c \in Command, NEW s \in Site, BeginCommand(c, s) PROVE OverlapCrosses'
  <2>1. /\ \A d \in Command \ {c} : SameWork(d)
        /\ Busy(c)' => command'[c].site = s
    BY <1>2, CommandBegins
  <2>2. Others(c) \subseteq crossed' /\ (Others(c) # {} => s \in crossed')
    BY <1>2, CrossedGrows
  <2>3. \A d \in Command \ {c} : Busy(d)' => Busy(d) /\ Site_(d)' = Site_(d) /\ Site_(d) \in Others(c)
    BY <2>1 DEF SameWork, Busy, Site_, Others
  <2>4. QED BY <2>1, <2>2, <2>3 DEF OverlapCrosses, Site_
<1>3. ASSUME NEW c \in Command, CommandStep(c) \/ Killed(c) PROVE OverlapCrosses'
  <2>1. Proceeds(c)
    BY <1>3, CommandMoves
  <2>2. \A d \in Command : Busy(d)' => Busy(d) /\ Site_(d)' = Site_(d)
    BY <2>1, SiteFacts DEF Proceeds, GoesOnWith, Busy, Site_
  <2>3. QED BY <1>0, <2>2 DEF OverlapCrosses
<1>4. QED BY <1>1, <1>2, <1>3, SiteActors

\* With nobody else on the site, the file as it is agrees about it.
LEMMA QuietAgrees ==
    ASSUME RegistryInv, sites # Emptied, NEW s \in Site \ Untrue,
           \A c \in Command : Busy(c) => Site_(c) # s \/ command[c].at \in {"allocate", "build"}
    PROVE  Agrees(sites, s)
<1>1. \A c \in Command : Site_(c) = s => command[c].at \in {"allocate", "build"}
  BY SiteFacts DEF RegistryInv, ServerInv, SiteTypes, CommandTypes, WorkShape, Busy, Site_
<1>2. QED BY <1>1 DEF RegistryInv, FileAgrees, Untouched

\* The file agrees but for what a command is about to write.
LEMMA FileStep == RegistryInv /\ [SiteNext]_siteVars => FileAgrees'
<1> SUFFICES ASSUME RegistryInv, [SiteNext]_siteVars PROVE FileAgrees'
  OBVIOUS
<1>0. /\ SiteTypes /\ OverlapCrosses /\ FileAgrees /\ WillWrite /\ Untrue \subseteq Untrue' /\ crossed' \subseteq Untrue'
      /\ crossed \subseteq Untrue /\ refused' \subseteq Untrue' /\ crossed \subseteq crossed'
      /\ command \in [Command -> Work] /\ \A c \in Command : WorkShape(command[c])
  BY CrossedGrows DEF RegistryInv, ServerInv, SiteTypes, CommandTypes, Untrue
<1>1. CASE command' = command /\ UNCHANGED <<sites, loaded>>
  BY <1>0, <1>1 DEF FileAgrees, Agrees, Untouched, Busy, Site_
<1>2. ASSUME NEW c \in Command, NEW s \in Site, BeginCommand(c, s), UNCHANGED <<sites, loaded>> PROVE FileAgrees'
  <2>1. /\ ~Busy(c) /\ (\A d \in Command \ {c} : SameWork(d))
        /\ Busy(c)' => /\ command'[c].site = s /\ command'[c].at \in {"allocate", "build", "unload"}
                       /\ command'[c].op # "rebuild" => command'[c].seen = Loaded
    BY <1>0, <1>2, CommandBegins
  <2>2. Others(c) \subseteq crossed' /\ (sites = Emptied => crossed' = Site)
    BY <1>0, <1>2, CrossedGrows
  <2>3. sites' = Emptied => Site \subseteq crossed' \/ \E d \in Command : command'[d].at = "write"
    BY <1>2, <2>2
  <2>4. ASSUME sites # Emptied, NEW r \in Site \ Untrue', Untouched(r)' PROVE Agrees(sites, r)
    <3>1. command[c].site = NoEntry
      BY <1>0, <2>1 DEF Busy, WorkShape
    <3>2. Untouched(r)
      BY <2>1, <2>4, <3>1, SiteFacts DEF Untouched, SameWork, Site_
    <3>3. QED BY <1>0, <2>4, <3>2 DEF FileAgrees
  <2>5. ASSUME Busy(c)', command'[c].op # "rebuild", NEW r \in Site \ Untrue', r # s PROVE Agrees(command'[c].seen, r)
    <3>1. sites # Emptied /\ Loaded = sites
      BY <1>0, <2>2, <2>5, LoadedTyped DEF SiteTypes
    <3>2. \A d \in Command : Busy(d) => Site_(d) # r
      BY <1>0, <2>1, <2>2, <2>5 DEF Others
    <3>3. Agrees(sites, r)
      BY <1>0, <2>5, <3>1, <3>2, QuietAgrees
    <3>4. QED BY <2>1, <2>5, <3>1, <3>3
  <2>6. ASSUME NEW d \in Command \ {c}, Busy(d)', command'[d].op # "rebuild", NEW r \in Site \ Untrue',
               r # Site_(d)'
        PROVE  Agrees(command'[d].seen, r)
    BY <1>0, <2>1, <2>6 DEF FileAgrees, SameWork, Busy, Site_
  <2>7. \A registry, r : Agrees(registry, r) => Agrees(registry, r)'
    BY <1>2 DEF Agrees
  <2>8. \A d \in Command : Busy(d)' /\ command'[d].op # "rebuild" =>
           \A r \in Site \ Untrue' : r # Site_(d)' =>
              \A registry : registry = command'[d].seen =>
                 /\ (registry[r] # NoEntry /\ registry[r].running) <=> loaded'[r] # 0
                 /\ loaded'[r] # 0 => loaded'[r] = registry[r].port
    BY <1>2, <2>1, <2>5, <2>6 DEF Agrees, Site_
  <2>9. QED BY <1>2, <2>3, <2>4, <2>8 DEF FileAgrees, Agrees
<1>3. ASSUME NEW c \in Command, CommandStep(c) \/ Killed(c), Proceeds(c), Site_(c) \in Site, Inscribes(c)
      PROVE  FileAgrees'
  <2>0. /\ Busy(c) /\ (\A d \in Command \ {c} : command'[d] = command[d])
        /\ command'[c] = Rest \/ GoesOnWith(c)
        /\ \A d \in Command : Busy(d)' => /\ Busy(d) /\ Site_(d)' = Site_(d) /\ command'[d].op = command[d].op
                                          /\ command'[d].seen = command[d].seen
    BY <1>3, SiteFacts DEF Proceeds, GoesOnWith, Busy, Site_
  <2>1. \/ /\ command'[c] = Rest
           /\ Killed(c) \/ WriteFile(c) \/ command[c].at \in {"allocate", "build", "done"}
        \/ <<command[c].at, command'[c].at>> \in OnItsWay
    BY <1>0, <1>3, CommandWays
  <2>2. ASSUME NEW r \in Site \ Untrue', Untouched(r)', ~WriteFile(c) PROVE Untouched(r)
    <3>1. ASSUME Site_(c) = r
          PROVE  command[c].op = "rebuild" \/ command[c].at \in {"allocate", "build", "snapshot", "restart", "unload"}
      <4>1. ~Killed(c)
        BY <1>0, <2>2, <3>1, CrossedGrows
      <4>2. CASE command'[c] = Rest
        BY <1>0, <2>1, <2>2, <4>1, <4>2, SiteFacts DEF OnItsWay, WorkShape
      <4>3. CASE command'[c] # Rest
        <5>1. command'[c].op = command[c].op /\ Site_(c)' = Site_(c)
          BY <2>0, <4>3 DEF GoesOnWith, Site_
        <5>2. command'[c].op = "rebuild" \/ command'[c].at \in {"allocate", "build", "snapshot", "restart", "unload"}
          BY <2>2, <3>1, <5>1 DEF Untouched
        <5>3. QED BY <2>1, <4>3, <5>1, <5>2 DEF OnItsWay
      <4>4. QED BY <4>2, <4>3
    <3>2. QED BY <2>0, <2>2, <3>1 DEF Untouched, Site_
  <2>3. ASSUME sites' = Emptied, UNCHANGED sites
        PROVE  Site \subseteq crossed' \/ \E d \in Command : command'[d].at = "write"
    <3>1. CASE Site \subseteq crossed
      BY <1>0, <3>1
    <3>2. ASSUME NEW d \in Command, command[d].at = "write", Killed(c) \/ ~WriteFile(c)
          PROVE  Site \subseteq crossed' \/ command'[d].at = "write"
      <4>1. CASE d # c
        BY <2>0, <3>2, <4>1
      <4>2. CASE d = c
        <5>1. Killed(c)
          BY <2>1, <3>2, <4>2 DEF OnItsWay
        <5>2. QED BY <1>0, <3>2, <4>2, <5>1, CrossedGrows
      <4>3. QED BY <4>1, <4>2
    <3>3. ~WriteFile(c)
      <4>1. ASSUME WriteFile(c) PROVE FALSE
        <5>1. command[c].seen \in [Site -> RegistryEntry] /\ command[c].port \in Port
          BY <1>0, <4>1 DEF WriteFile, Work, WorkShape
        <5>2. sites' \in [Site -> RegistryEntry]
          BY <4>1, <5>1 DEF WriteFile, RegistryEntry
        <5>3. QED BY <2>3, <5>2, SiteFacts
      <4>2. QED BY <4>1
    <3>4. QED BY <1>0, <2>3, <3>1, <3>2, <3>3 DEF FileAgrees
  <2>4. CASE UNCHANGED <<sites, loaded>> /\ ~WriteFile(c)
    <3>1. \A r \in Site \ Untrue' : Untouched(r)' /\ sites' # Emptied => Agrees(sites, r)
      BY <1>0, <2>2, <2>4 DEF FileAgrees
    <3>2. \A d \in Command : Busy(d)' /\ command'[d].op # "rebuild" =>
             \A r \in Site \ Untrue' : r # Site_(d)' => Agrees(command[d].seen, r) /\ command'[d].seen = command[d].seen
      BY <1>0, <2>0 DEF FileAgrees
    <3>3. QED BY <2>3, <2>4, <3>1, <3>2 DEF FileAgrees, Agrees
  <2>5. CASE OpenFile(c) /\ sites' = Emptied /\ UNCHANGED loaded
    <3>1. command'[c].at = "write"
      BY <1>0, <2>5 DEF OpenFile, Goes, Work
    <3>2. \A d \in Command : Busy(d)' /\ command'[d].op # "rebuild" =>
             \A r \in Site \ Untrue' : r # Site_(d)' => Agrees(command[d].seen, r) /\ command'[d].seen = command[d].seen
      BY <1>0, <2>0 DEF FileAgrees
    <3>3. QED BY <2>5, <3>1, <3>2 DEF FileAgrees, Agrees
  <2>6. CASE (Reload(c) \/ Unload(c)) /\ UNCHANGED sites /\ \A s \in Site \ {Site_(c)} : loaded'[s] = loaded[s]
    <3>1. command'[c].at \in {"reap", "killold"} /\ command[c].op # "rebuild" /\ ~WriteFile(c)
          /\ command'[c].op = command[c].op /\ Site_(c)' = Site_(c)
      BY <1>0, <2>6 DEF Reload, Unload, WriteFile, Goes, Work, WorkShape, Site_
    <3>2. ASSUME NEW r \in Site \ Untrue', Untouched(r)', sites' # Emptied
          PROVE  Agrees(sites, r) /\ loaded'[r] = loaded[r]
      <4>1. r # Site_(c)
        BY <3>1, <3>2 DEF Untouched
      <4>2. QED BY <1>0, <2>2, <2>6, <3>1, <3>2, <4>1 DEF FileAgrees
    <3>3. ASSUME NEW d \in Command, Busy(d)', command'[d].op # "rebuild", NEW r \in Site \ Untrue', r # Site_(d)'
          PROVE  /\ Agrees(command[d].seen, r) /\ command'[d].seen = command[d].seen /\ loaded'[r] = loaded[r]
      <4>1. Agrees(command[d].seen, r) /\ command'[d].seen = command[d].seen /\ Busy(d) /\ r # Site_(d)
        BY <1>0, <2>0, <3>3 DEF FileAgrees
      <4>2. d # c => Site_(c) \in crossed
        BY <1>0, <2>0, <4>1 DEF OverlapCrosses
      <4>3. r # Site_(c)
        BY <1>0, <3>3, <4>1, <4>2
      <4>4. QED BY <2>6, <4>1, <4>3
    <3>4. QED BY <2>3, <2>6, <3>2, <3>3 DEF FileAgrees, Agrees
  <2>7. CASE WriteFile(c) /\ UNCHANGED loaded
    <3>0. /\ sites' = [command[c].seen EXCEPT ![Site_(c)] =
                          [port |-> command[c].port, running |-> command[c].op = "publish"]]
          /\ command[c].seen \in [Site -> RegistryEntry] /\ command[c].port \in Port /\ command[c].at = "write"
          /\ command[c].op \in {"publish", "unpublish"} /\ command[c].port # 0
      BY <1>0, <2>7 DEF WriteFile, Work, WorkShape
    <3>1. sites' # Emptied
      <4>1. sites' \in [Site -> RegistryEntry]
        BY <3>0 DEF RegistryEntry
      <4>2. QED BY <4>1, SiteFacts
    <3>2. ASSUME NEW r \in Site \ Untrue', r # Site_(c) PROVE Agrees(command[c].seen, r) /\ sites'[r] = command[c].seen[r]
      BY <1>0, <2>0, <3>0, <3>2 DEF FileAgrees
    <3>3. ASSUME Site_(c) \notin Untrue
          PROVE  /\ (sites'[Site_(c)] # NoEntry /\ sites'[Site_(c)].running) <=> loaded[Site_(c)] # 0
                 /\ loaded[Site_(c)] # 0 => loaded[Site_(c)] = sites'[Site_(c)].port
      <4>0. PICK b \in BOOLEAN : b <=> command[c].op = "publish"
        OBVIOUS
      <4>1. sites'[Site_(c)] = [port |-> command[c].port, running |-> b]
        <5>1. b = (command[c].op = "publish")
          BY <4>0
        <5>2. QED BY <1>3, <3>0, <5>1
      <4>2. sites'[Site_(c)] # NoEntry
        BY <3>0, <4>1, SiteFacts
      <4>3. /\ command[c].op = "publish" => loaded[Site_(c)] = command[c].port
            /\ command[c].op = "unpublish" => loaded[Site_(c)] = 0
        BY <1>0, <2>0, <3>0, <3>3 DEF WillWrite
      <4>4. sites'[Site_(c)].port = command[c].port /\ (sites'[Site_(c)].running <=> command[c].op = "publish")
        BY <4>0, <4>1
      <4>5. QED BY <3>0, <4>2, <4>3, <4>4
    <3>4. \A r \in Site \ Untrue' :
             /\ (sites'[r] # NoEntry /\ sites'[r].running) <=> loaded[r] # 0
             /\ loaded[r] # 0 => loaded[r] = sites'[r].port
      BY <1>0, <3>2, <3>3 DEF Agrees
    <3>5. \A d \in Command : Busy(d)' /\ command'[d].op # "rebuild" =>
             \A r \in Site \ Untrue' : r # Site_(d)' => Agrees(command[d].seen, r) /\ command'[d].seen = command[d].seen
      BY <1>0, <2>0 DEF FileAgrees
    <3>6. QED BY <2>7, <3>1, <3>4, <3>5 DEF FileAgrees, Agrees
  <2>8. QED BY <1>3, <2>4, <2>5, <2>6, <2>7 DEF Inscribes
<1>4. QED BY <1>0, <1>1, <1>2, <1>3, RegistrySteps

\* What a command has done to its job is what it will write.
LEMMA WillWriteStep == RegistryInv /\ [SiteNext]_siteVars => WillWrite'
<1> SUFFICES ASSUME RegistryInv, [SiteNext]_siteVars, NEW c \in Command, Busy(c)', Site_(c)' \notin Untrue'
             PROVE  /\ command'[c].op = "publish" /\ command'[c].at \in {"reap", "save", "write"} =>
                          loaded'[Site_(c)'] = command'[c].port
                    /\ command'[c].op = "unpublish" /\ command'[c].at \in {"killold", "save", "write"} =>
                          loaded'[Site_(c)'] = 0
  BY DEF WillWrite
<1> DEFINE Goal == /\ command'[c].op = "publish" /\ command'[c].at \in {"reap", "save", "write"} =>
                         loaded'[Site_(c)'] = command'[c].port
                   /\ command'[c].op = "unpublish" /\ command'[c].at \in {"killold", "save", "write"} =>
                         loaded'[Site_(c)'] = 0
<1>0. /\ SiteTypes /\ OverlapCrosses /\ WillWrite /\ Untrue \subseteq Untrue' /\ crossed' \subseteq Untrue'
      /\ crossed \subseteq Untrue /\ refused' \subseteq Untrue' /\ crossed \subseteq crossed'
      /\ command \in [Command -> Work] /\ \A d \in Command : WorkShape(command[d])
  BY CrossedGrows DEF RegistryInv, ServerInv, SiteTypes, CommandTypes, Untrue
<1>1. CASE command' = command /\ UNCHANGED <<sites, loaded>>
  BY <1>0, <1>1 DEF WillWrite, Busy, Site_
<1>2. ASSUME NEW d \in Command, NEW s \in Site, BeginCommand(d, s), UNCHANGED <<sites, loaded>> PROVE Goal
  <2>1. CASE d = c
    <3>1. command'[c].at \in {"allocate", "build", "unload"}
      BY <1>0, <1>2, <2>1, CommandBegins
    <3>2. QED BY <3>1
  <2>2. CASE d # c
    <3>1. SameWork(c)
      BY <1>0, <1>2, <2>2, CommandBegins
    <3>2. QED BY <1>0, <1>2, <3>1 DEF SameWork, WillWrite, Busy, Site_
  <2>3. QED BY <2>1, <2>2
<1>3. ASSUME NEW d \in Command, CommandStep(d) \/ Killed(d), Proceeds(d), Site_(d) \in Site, Inscribes(d)
      PROVE  Goal
  <2>1. CASE d # c
    <3>1. command'[c] = command[c] /\ Busy(c) /\ Busy(d) /\ Site_(c)' = Site_(c)
      BY <1>3, <2>1 DEF Proceeds, Busy, Site_
    <3>2. Site_(c) \notin Untrue
      BY <1>0, <3>1
    <3>3. FALSE
      BY <1>0, <2>1, <3>1, <3>2 DEF OverlapCrosses
    <3>4. QED BY <3>3
  <2>2. CASE d = c
    <3>1. /\ Busy(c) /\ command'[c] # Rest /\ GoesOnWith(c) /\ Site_(c)' = Site_(c) /\ Site_(c) \notin Untrue
          /\ command'[c].op = command[c].op
      BY <1>0, <1>3, <2>2, SiteFacts DEF Proceeds, Busy, GoesOnWith, Site_
    <3>2. /\ <<command[c].at, command'[c].at>> \in OnItsWay
          /\ Allocate(c) \/ command'[c].port = command[c].port
      BY <1>0, <1>3, <2>2, <3>1, CommandWays
    <3>3. CASE Reload(c) \/ Unload(c)
      <4>1. /\ Reload(c) => command[c].op = "publish" /\ command[c].at = "restart"
            /\ Unload(c) => command[c].op = "unpublish" /\ command[c].at = "unload"
        BY <1>0 DEF Reload, Unload, WorkShape
      <4>2. /\ Reload(c) => loaded'[Site_(c)] = command[c].port
            /\ Unload(c) => loaded'[Site_(c)] = 0
        BY <1>0, <1>3, <2>2, <3>1, <3>3 DEF Inscribes, OpenFile, WriteFile, Reload, Unload
      <4>3. Allocate(c) => command[c].at = "allocate"
        BY DEF Allocate
      <4>4. QED BY <3>1, <3>2, <3>3, <4>1, <4>2, <4>3
    <3>4. CASE ~Reload(c) /\ ~Unload(c)
      <4>1. UNCHANGED loaded
        BY <1>3, <2>2, <3>4 DEF Inscribes
      <4>2. Allocate(c) => command[c].at = "allocate"
        BY DEF Allocate
      <4>3. command[c].at = "restart" => command[c].op = "rebuild"
        BY <1>0, <1>3, <2>2, <3>1, <3>4 DEF CommandStep, Allocate, Build, Snapshot, Kickstart, Reap, KillOld,
              OpenFile, WriteFile, Done, Killed, Ends
      <4>4. command[c].at # "unload"
        BY <1>0, <1>3, <2>2, <3>1, <3>4 DEF CommandStep, Allocate, Build, Snapshot, Kickstart, Reap, KillOld,
              OpenFile, WriteFile, Done, Killed, Ends
      <4>5. /\ command[c].op = "publish" /\ command[c].at \in {"reap", "save", "write"} =>
                  loaded[Site_(c)] = command[c].port
            /\ command[c].op = "unpublish" /\ command[c].at \in {"killold", "save", "write"} =>
                  loaded[Site_(c)] = 0
        BY <1>0, <3>1 DEF WillWrite
      <4>6. /\ command'[c].at \in {"reap", "save", "write"} =>
                  command[c].at \in {"restart", "reap", "killold", "save"} /\ command'[c].port = command[c].port
            /\ command'[c].at \in {"killold", "save", "write"} =>
                  command[c].at \in {"unload", "reap", "killold", "save"}
            /\ command'[c].at = "save" => command[c].at \in {"reap", "killold"}
            /\ command'[c].at = "write" => command[c].at = "save"
            /\ command'[c].at = "reap" => command[c].at = "restart"
        BY <3>2, <4>2 DEF OnItsWay
      <4>7. command[c].at = "killold" => command[c].op = "unpublish"
        BY <1>0 DEF WorkShape
      <4>8. command[c].at = "reap" => command[c].op \in {"publish", "rebuild"}
        BY <1>0 DEF WorkShape
      <4>9. loaded'[Site_(c)'] = loaded[Site_(c)]
        BY <3>1, <4>1
      <4>10. QED BY <3>1, <4>3, <4>4, <4>5, <4>6, <4>7, <4>8, <4>9
    <3>5. QED BY <3>3, <3>4
  <2>3. QED BY <2>1, <2>2
<1>4. Goal
  BY <1>0, <1>1, <1>2, <1>3, RegistrySteps
<1>5. QED BY <1>4

\* Ports stay apart.
LEMMA PortsStep == RegistryInv /\ [SiteNext]_siteVars => PortsApart'
<1> SUFFICES ASSUME RegistryInv, [SiteNext]_siteVars PROVE PortsApart'
  OBVIOUS
<1>0. /\ SiteTypes /\ OverlapCrosses /\ FileAgrees /\ PortsApart /\ Untrue \subseteq Untrue' /\ crossed' \subseteq Untrue'
      /\ crossed \subseteq Untrue /\ refused' \subseteq Untrue' /\ crossed \subseteq crossed'
      /\ command \in [Command -> Work] /\ \A d \in Command : WorkShape(command[d])
  BY CrossedGrows DEF RegistryInv, ServerInv, SiteTypes, CommandTypes, Untrue
<1>1. CASE command' = command /\ UNCHANGED <<sites, loaded>>
  BY <1>0, <1>1 DEF PortsApart, Busy, Site_
<1>2. ASSUME NEW c \in Command, NEW s \in Site, BeginCommand(c, s), UNCHANGED <<sites, loaded>> PROVE PortsApart'
  <2>1. /\ ~Busy(c) /\ (\A d \in Command \ {c} : SameWork(d))
        /\ Busy(c)' => /\ command'[c].site = s /\ command'[c].at \in {"allocate", "build", "unload"}
                       /\ command'[c].op = "publish" /\ command'[c].at = "build" =>
                             Running(Loaded[s]) /\ command'[c].port = Loaded[s].port
        /\ WorkShape(command'[c])
    BY <1>0, <1>2, CommandBegins DEF CommandTypes
  <2>2. /\ Others(c) \subseteq crossed' /\ (sites = Emptied => crossed' = Site)
        /\ Others(c) # {} => s \in crossed'
    BY <1>0, <1>2, CrossedGrows
  <2>3. ASSUME Busy(c)', s \notin Untrue', command'[c].op = "publish", command'[c].at # "allocate",
               NEW r \in Site \ Untrue', r # s
        PROVE  loaded[r] # command'[c].port
    <3>1. sites # Emptied /\ Loaded = sites
      BY <1>0, <1>2, <2>2, <2>3, LoadedTyped DEF SiteTypes
    <3>2. \A d \in Command : Busy(d) => Site_(d) # s
      BY <1>0, <2>1, <2>2, <2>3 DEF Others
    <3>3. Agrees(sites, s)
      BY <1>0, <1>2, <2>3, <3>1, <3>2, QuietAgrees
    <3>4. command'[c].at = "build"
      BY <2>1, <2>3 DEF WorkShape
    <3>5. loaded[s] # 0 /\ loaded[s] = command'[c].port
      BY <2>1, <2>3, <3>1, <3>3, <3>4 DEF Agrees, Running
    <3>6. QED BY <1>0, <1>2, <2>3, <3>5 DEF PortsApart
  <2>4. ASSUME NEW d \in Command \ {c}, Busy(d)', Site_(d)' \notin Untrue', command'[d].op = "publish",
               command'[d].at # "allocate", NEW r \in Site \ Untrue', r # Site_(d)'
        PROVE  loaded[r] # command'[d].port
    BY <1>0, <2>1, <2>4 DEF PortsApart, SameWork, Busy, Site_
  <2>5. QED BY <1>0, <1>2, <2>1, <2>3, <2>4 DEF PortsApart, Site_
<1>3. ASSUME NEW c \in Command, CommandStep(c) \/ Killed(c), Proceeds(c), Site_(c) \in Site, Inscribes(c)
      PROVE  PortsApart'
  <2>0. /\ Busy(c) /\ (\A d \in Command \ {c} : command'[d] = command[d])
        /\ command'[c] = Rest \/ GoesOnWith(c)
        /\ \A d \in Command : Busy(d)' => /\ Busy(d) /\ Site_(d)' = Site_(d) /\ command'[d].op = command[d].op
    BY <1>3, SiteFacts DEF Proceeds, GoesOnWith, Busy, Site_
  <2>1. command'[c] # Rest =>
           /\ <<command[c].at, command'[c].at>> \in OnItsWay
           /\ Allocate(c) \/ command'[c].port = command[c].port
    BY <1>0, <1>3, CommandWays
  <2>2. ASSUME NEW d \in Command, Busy(d)', Site_(d)' \notin Untrue', command'[d].op = "publish",
               command'[d].at # "allocate", ~(d = c /\ Allocate(c))
        PROVE  /\ Busy(d) /\ Site_(d) \notin Untrue /\ command[d].op = "publish" /\ command[d].at # "allocate"
               /\ command'[d].port = command[d].port /\ Site_(d)' = Site_(d)
    <3>1. CASE d # c
      BY <1>0, <2>0, <2>2, <3>1 DEF Busy, Site_
    <3>2. CASE d = c
      <4>1. command'[c] # Rest
        BY <2>2, <3>2, SiteFacts DEF Busy
      <4>2. command[c].at # "allocate"
        BY <1>3, <2>2, <3>2, <4>1, <1>0 DEF CommandStep, Build, Snapshot, Reload, Kickstart, Reap, Unload, KillOld,
              OpenFile, WriteFile, Done, Killed, Ends
      <4>3. QED BY <1>0, <2>0, <2>1, <2>2, <3>2, <4>1, <4>2
    <3>3. QED BY <3>1, <3>2
  <2>3. ASSUME Allocate(c), command'[c] # Rest, Site_(c) \notin Untrue, NEW r \in Site \ Untrue, r # Site_(c)
        PROVE  loaded[r] # command'[c].port
    <3>1. PICK p \in FreePorts : command' = [command EXCEPT ![c].port = p, ![c].at = "build"]
      <4>1. FreePorts # {}
        BY <1>0, <2>3 DEF Allocate, Ends
      <4>2. QED BY <2>3, <4>1 DEF Allocate
    <3>2. command'[c].port = p
      BY <1>0, <3>1 DEF Work
    <3>3. \A d \in Command \ {c} : ~Busy(d)
      BY <1>0, <2>0, <2>3 DEF OverlapCrosses
    <3>4. sites # Emptied
      <4>1. ~(Site \subseteq crossed) /\ command[c].at = "allocate"
        BY <1>0, <1>3, <2>3 DEF Allocate
      <4>2. QED BY <1>0, <3>3, <4>1 DEF FileAgrees, Busy
    <3>5. Loaded = sites
      BY <1>0, <3>4, LoadedTyped DEF SiteTypes
    <3>6. Agrees(sites, r)
      BY <2>3, <3>3, <3>4, QuietAgrees
    <3>7. p \in Port /\ p # 0 /\ (sites[r] = NoEntry \/ sites[r].port # p)
      BY <3>1, <3>5, SiteFacts DEF FreePorts
    <3>8. QED BY <3>2, <3>6, <3>7 DEF Agrees
  <2>4. CASE UNCHANGED loaded
    <3>1. ASSUME NEW d \in Command, Busy(d)', Site_(d)' \notin Untrue', command'[d].op = "publish",
                 command'[d].at # "allocate", NEW r \in Site \ Untrue', r # Site_(d)'
          PROVE  loaded[r] # command'[d].port
      <4>1. CASE ~(d = c /\ Allocate(c))
        BY <1>0, <2>2, <3>1, <4>1 DEF PortsApart
      <4>2. CASE d = c /\ Allocate(c)
        BY <1>0, <2>0, <2>3, <3>1, <4>2, SiteFacts DEF Busy
      <4>3. QED BY <4>1, <4>2
    <3>2. \A s, r \in Site \ Untrue' : s # r /\ loaded[s] # 0 => loaded[s] # loaded[r]
      BY <1>0 DEF PortsApart
    <3>3. QED BY <2>4, <3>1, <3>2 DEF PortsApart
  <2>5. CASE /\ Reload(c) \/ Unload(c)
             /\ \A s \in Site \ {Site_(c)} : loaded'[s] = loaded[s]
             /\ Site_(c) \notin refused' =>
                  /\ Reload(c) => loaded'[Site_(c)] = command[c].port
                  /\ Unload(c) => loaded'[Site_(c)] = 0
    <3>1. /\ Reload(c) => command[c].op = "publish" /\ command[c].at = "restart"
          /\ Unload(c) => command[c].op = "unpublish" /\ command[c].at = "unload"
          /\ ~Allocate(c)
      BY <1>0, <2>5 DEF Reload, Unload, Allocate, WorkShape
    <3>2. Site_(c) \notin Untrue' => \A r \in Site \ Untrue : r # Site_(c) =>
             loaded'[Site_(c)] = 0 \/ loaded[r] # loaded'[Site_(c)]
      BY <1>0, <2>0, <2>5, <3>1 DEF PortsApart
    <3>3. \A s, r \in Site \ Untrue' : s # r /\ loaded'[s] # 0 => loaded'[s] # loaded'[r]
      <4>1. SUFFICES ASSUME NEW s \in Site \ Untrue', NEW r \in Site \ Untrue', s # r, loaded'[s] # 0
                     PROVE  loaded'[s] # loaded'[r]
        OBVIOUS
      <4>2. s \in Site \ Untrue /\ r \in Site \ Untrue
        BY <1>0
      <4>3. CASE s = Site_(c)
        BY <2>5, <3>2, <4>1, <4>2, <4>3
      <4>4. CASE r = Site_(c)
        <5>1. loaded'[s] = loaded[s]
          BY <2>5, <4>1, <4>4
        <5>2. loaded'[r] = 0 \/ loaded[s] # loaded'[r]
          BY <3>2, <4>1, <4>2, <4>4
        <5>3. QED BY <4>1, <5>1, <5>2
      <4>5. CASE s # Site_(c) /\ r # Site_(c)
        BY <1>0, <2>5, <4>1, <4>2, <4>5 DEF PortsApart
      <4>6. QED BY <4>3, <4>4, <4>5
    <3>4. ASSUME NEW d \in Command, Busy(d)', Site_(d)' \notin Untrue', command'[d].op = "publish",
                 command'[d].at # "allocate", NEW r \in Site \ Untrue', r # Site_(d)'
          PROVE  loaded'[r] # command'[d].port
      <4>1. /\ Busy(d) /\ Site_(d) \notin Untrue /\ command[d].op = "publish" /\ command[d].at # "allocate"
            /\ command'[d].port = command[d].port /\ Site_(d)' = Site_(d)
        BY <2>2, <3>1, <3>4
      <4>2. d = c
        BY <1>0, <2>0, <4>1 DEF OverlapCrosses
      <4>3. loaded'[r] = loaded[r]
        BY <2>5, <3>4, <4>1, <4>2
      <4>4. QED BY <1>0, <3>4, <4>1, <4>3 DEF PortsApart
    <3>5. QED BY <3>3, <3>4 DEF PortsApart
  <2>6. QED BY <1>3, <2>4, <2>5 DEF Inscribes
<1>4. QED BY <1>0, <1>1, <1>2, <1>3, RegistrySteps

\* At the start the file agrees.
LEMMA RegistryStarts == SiteInit => RegistryInv
<1> SUFFICES ASSUME SiteInit PROVE RegistryInv
  OBVIOUS
<1>1. ServerInv
  BY SiteStarts
<1>2. \A c \in Command : ~Busy(c)
  BY SiteFacts DEF SiteInit, Busy
<1>3. loaded \in [Site -> {0} \cup Port] /\ \A s, r \in Site : s # r /\ loaded[s] # 0 => loaded[s] # loaded[r]
  BY SiteAssumption DEF SiteInit
<1>4. sites # Emptied /\ \A s \in Site : Agrees(sites, s)
  <2>1. sites = [s \in Site |-> IF loaded[s] = 0 THEN NoEntry ELSE [port |-> loaded[s], running |-> TRUE]]
    BY DEF SiteInit
  <2>2. sites \in [Site -> RegistryEntry]
    BY <1>3, <2>1 DEF RegistryEntry
  <2>3. \A s \in Site : loaded[s] # 0 => sites[s] # NoEntry
    <3>1. ASSUME NEW s \in Site, loaded[s] # 0 PROVE sites[s] # NoEntry
      <4>1. sites[s] = [port |-> loaded[s], running |-> TRUE] /\ loaded[s] \in Port
        BY <1>3, <2>1, <3>1
      <4>2. sites[s] \in [port : Port, running : BOOLEAN]
        BY <4>1
      <4>3. QED BY <4>2, SiteFacts
    <3>2. QED BY <3>1
  <2>4. QED BY <2>1, <2>2, <2>3, SiteFacts DEF Agrees
<1>5. QED BY <1>1, <1>2, <1>3, <1>4 DEF RegistryInv, OverlapCrosses, FileAgrees, WillWrite, PortsApart

\* The invariant of the registry.
THEOREM RegistryInvariant == SiteSpec => []RegistryInv
<1>1. RegistryInv /\ [SiteNext]_siteVars => RegistryInv'
  BY SiteTypeStep, AloneStep, HadStep, ServersStep, OverlapStep, FileStep, WillWriteStep, PortsStep
     DEF RegistryInv, ServerInv
<1>2. QED BY RegistryStarts, <1>1, PTL DEF SiteSpec

\* The registry says of every site at rest whether it runs, and on which port of its own, unless
\* commands overlapped, one was killed or launchd did not do as it was told.
THEOREM RegistryIsTrue == SiteSpec => []RegistryTrue
<1>1. ASSUME RegistryInv, sites # Emptied, NEW s \in Site \ Untrue, Quiet(s)
      PROVE  /\ (sites[s] # NoEntry /\ sites[s].running) <=> loaded[s] # 0
             /\ loaded[s] # 0 =>
                  /\ loaded[s] = sites[s].port
                  /\ \A r \in Site \ (crossed \cup refused \cup {s}) : loaded[r] # loaded[s]
  <2>1. Agrees(sites, s)
    BY <1>1, QuietAgrees DEF Quiet
  <2>2. QED BY <1>1, <2>1 DEF Agrees, RegistryInv, PortsApart, Untrue
<1>2. RegistryInv => RegistryTrue
  BY <1>1 DEF RegistryTrue, Untrue
<1>3. QED BY RegistryInvariant, <1>2, PTL
=============================================================================
