------------------------- MODULE TunnelHealthProofs -------------------------
(***************************************************************************)
(* What the home portal does by itself: its watch over the tunnel           *)
(* (TunnelHealth), for all thresholds, windows and cooldowns, and its        *)
(* meetings (Meetings, below), for any number of chunks and faults.         *)
(* Of the tunnel: the inductive invariant relates the ages: an outage as the breaker sees  *)
(* it is no older than the last healthy check, and a restart of the         *)
(* connector is older than the failures counted since.                      *)
(***************************************************************************)
EXTENDS TunnelHealth, Meetings, FiniteSetTheorems, TLAPS

\* The breaker's own record of the outage does not exceed the outage.
OutageKnown == failAge <= sinceOk /\ (cb # "closed" => sinceOk = OpenAfter)

\* Every restart came before the failures that are being counted; one made by
\* the last check was made with the breaker closed.
KicksBefore ==
    /\ \A k \in kickAges : k > unreachable
    /\ 1 \in kickAges => cb = "closed"

HealthInv == TypeOK /\ OutageKnown /\ KickDiscipline /\ KicksBefore

-----------------------------------------------------------------------------
\* The thresholds are positive numbers.
LEMMA Thresholds ==
    /\ FailThreshold \in Nat \ {0} /\ KickMax \in Nat \ {0} /\ KickWindow \in Nat
    /\ KickWindow > 1 /\ OpenAfter \in Nat \ {0} /\ HalfOpenEvery \in Nat \ {0}
    /\ ChatAfter \in Nat \ {0} /\ ChatCooldown \in Nat \ {0}
    /\ ReportEvery \in Nat /\ ReportEvery > 3
BY TunnelAssumption

\* Growing older by a check, up to a cap.
LEMMA OlderBounds ==
    ASSUME NEW cap \in Nat \ {0}, NEW age \in 0..cap
    PROVE  /\ Older(age, cap) \in 1..cap
           /\ Older(age, cap) >= age
           /\ \A young \in 0..cap : young <= age => Older(young, cap) <= Older(age, cap)
BY DEF Older, Least

\* A kick once in the list leaves it or grows older: no more of them, the same
\* distances, none a check old.
LEMMA OlderKicksBounds ==
    ASSUME TypeOK
    PROVE  /\ OlderKicks \subseteq 2..(KickWindow - 1)
           /\ IsFiniteSet(OlderKicks) /\ IsFiniteSet(kickAges)
           /\ Cardinality(OlderKicks) <= Cardinality(kickAges)
           /\ Cardinality(kickAges) \in Nat /\ Cardinality(OlderKicks) \in Nat
<1>1. kickAges \subseteq 1..(KickWindow - 1) /\ KickWindow \in Nat
  BY Thresholds DEF TypeOK
<1>2. OlderKicks \subseteq 2..(KickWindow - 1)
  BY <1>1 DEF OlderKicks
<1>3. IsFiniteSet(OlderKicks) /\ IsFiniteSet(kickAges)
  <2>1. IsFiniteSet(1..(KickWindow - 1)) /\ IsFiniteSet(2..(KickWindow - 1))
    BY <1>1, FS_Interval
  <2>2. QED BY <1>1, <1>2, <2>1, FS_Subset
<1> DEFINE kept == {a \in kickAges : a + 1 < KickWindow}
           grow == [k \in kept |-> k + 1]
<1>4. grow \in Surjection(kept, OlderKicks)
  BY DEF Surjection, OlderKicks
<1>5. kept \subseteq kickAges
  OBVIOUS
<1> HIDE DEF kept, grow
<1>6. /\ IsFiniteSet(kept) /\ Cardinality(kept) <= Cardinality(kickAges)
      /\ Cardinality(OlderKicks) <= Cardinality(kept)
  BY <1>3, <1>4, <1>5, FS_Subset, FS_Surjection
<1>7. QED BY <1>2, <1>3, <1>6, FS_CardinalityType

-----------------------------------------------------------------------------
(* The pieces of a check.                                                    *)

\* What a check may say, and how it notes that it did.
NewsTyped ==
    /\ alarm \in {"none", "closed", "open", "exhausted"}
    /\ chatAge \in 1..ChatCooldown /\ chatHeard \in BOOLEAN

\* Each way of telling, and of not telling, keeps the domains of what was told.
LEMMA NewsPieces ==
    ASSUME TypeOK
    PROVE  /\ NoChat => chatAge' \in 1..ChatCooldown /\ chatHeard' \in BOOLEAN
           /\ Chat => chatAge' \in 1..ChatCooldown /\ chatHeard' \in BOOLEAN
           /\ \A state \in {"closed", "open", "exhausted"} :
                 Report(state) => alarm' \in {"none", "closed", "open", "exhausted"}
           /\ NoNews => NewsTyped'
<1>1. chatAge \in 0..ChatCooldown /\ Older(chatAge, ChatCooldown) \in 1..ChatCooldown
  BY Thresholds, OlderBounds DEF TypeOK
<1>2. NoChat => chatAge' \in 1..ChatCooldown /\ chatHeard' \in BOOLEAN
  BY <1>1 DEF NoChat, TypeOK
<1>3. Chat => chatAge' \in 1..ChatCooldown /\ chatHeard' \in BOOLEAN
  <2>1. SUFFICES ASSUME Chat PROVE chatAge' \in 1..ChatCooldown /\ chatHeard' \in BOOLEAN
    OBVIOUS
  <2>2. chatAge' \in 1..ChatCooldown
    BY <2>1, Thresholds DEF Chat
  <2>3. chatHeard' \in IF MayLose THEN BOOLEAN ELSE {TRUE}
    BY <2>1 DEF Chat
  <2>4. (IF MayLose THEN BOOLEAN ELSE {TRUE}) \subseteq BOOLEAN
    OBVIOUS
  <2>5. QED BY <2>2, <2>3, <2>4
<1>4. ASSUME NEW state \in {"closed", "open", "exhausted"}, Report(state)
      PROVE  alarm' \in {"none", "closed", "open", "exhausted"}
  BY <1>4 DEF Report, TypeOK
<1>5. NoNews => NewsTyped'
  BY <1>2 DEF NoNews, NewsTyped, TypeOK
<1>6. QED BY <1>2, <1>3, <1>4, <1>5

\* So does the report of an exhaustion.
LEMMA ExhaustionNews ==
    ASSUME TypeOK, NEW n \in Nat, NotifyExhaustion(n)
    PROVE  NewsTyped'
BY NewsPieces DEF NotifyExhaustion, NewsTyped

\* The recovery's backoff.
RecoveringTyped == recoverAge \in 1..MaxBackoff /\ recoverStreak \in 0..4

\* A recovery, or none, keeps the domains of its backoff.
LEMMA RecoveryPieces ==
    ASSUME TypeOK, RecoverHomePortal \/ NoRecovery
    PROVE  RecoveringTyped'
<1>1. MaxBackoff \in Nat \ {0} /\ 1 \in 1..MaxBackoff
  BY DEF MaxBackoff
<1>2. Older(recoverAge, MaxBackoff) \in 1..MaxBackoff
  BY <1>1, OlderBounds DEF TypeOK
<1>3. Least(recoverStreak + 1, 4) \in 0..4
  BY DEF Least, TypeOK
<1>4. QED BY <1>1, <1>2, <1>3 DEF RecoverHomePortal, NoRecovery, RecoveringTyped, TypeOK

\* A check that kicks nothing keeps what is known of the kicks, if it counts at
\* most one failure.
KicksInOrder == kickAges \subseteq 1..(KickWindow - 1) /\ KickDiscipline /\ KicksBefore

\* What is known of the kicks outlives such a check.
LEMMA KicksKept ==
    ASSUME HealthInv, NoKick, unreachable' \in 0..(unreachable + 1)
    PROVE  KicksInOrder'
<1>1. TypeOK /\ unreachable \in Nat /\ kickAges \subseteq Nat
  BY DEF HealthInv, TypeOK
<1>2. kickAges' = OlderKicks
  BY DEF NoKick
<1>3. \A k \in OlderKicks : k - 1 \in kickAges /\ k \in Nat
  BY <1>1 DEF OlderKicks
<1>4. Cardinality(kickAges') <= KickMax
  BY <1>1, <1>2, OlderKicksBounds, Thresholds DEF HealthInv, KickDiscipline
<1>5. \A a, b \in kickAges' : a < b => b - a >= FailThreshold
  <2>1. SUFFICES ASSUME NEW a \in OlderKicks, NEW b \in OlderKicks, a < b
                 PROVE  b - a >= FailThreshold
    BY <1>2
  <2>2. a - 1 < b - 1 /\ (b - 1) - (a - 1) = b - a
    BY <1>3, <2>1
  <2>3. QED BY <1>3, <2>2 DEF HealthInv, KickDiscipline
<1>6. \A k \in kickAges' : k > unreachable'
  BY <1>1, <1>2, <1>3 DEF HealthInv, KicksBefore
<1>7. kickAges' \subseteq 1..(KickWindow - 1) /\ 1 \notin kickAges'
  BY <1>1, <1>2, OlderKicksBounds, Thresholds
<1>8. QED BY <1>4, <1>5, <1>6, <1>7 DEF KicksInOrder, KickDiscipline, KicksBefore

\* The breaker's ages when a minute passes.
LEMMA AgesGrow ==
    ASSUME HealthInv
    PROVE  /\ OlderFail \in 0..OpenAfter
           /\ Older(sinceOk, OpenAfter) \in 1..OpenAfter
           /\ OlderFail <= Older(sinceOk, OpenAfter)
           /\ Older(sinceOk, OpenAfter) >= sinceOk
           /\ Older(probeAge, HalfOpenEvery) \in 1..HalfOpenEvery
<1>1. /\ failAge \in 0..OpenAfter /\ sinceOk \in 0..OpenAfter
      /\ probeAge \in 0..HalfOpenEvery /\ failAge <= sinceOk
  BY Thresholds DEF HealthInv, TypeOK, OutageKnown
<1>2. QED BY <1>1, Thresholds, OlderBounds DEF OlderFail

\* What is left for a step to establish.
BreakerTyped ==
    /\ cb \in {"closed", "open", "half_open"} /\ failAge \in 0..OpenAfter
    /\ probeAge \in 1..HalfOpenEvery /\ sinceOk \in 0..OpenAfter
CountsTyped == unreachable \in 0..FailThreshold /\ exhaustion \in 0..(ReportEvery + 3)

\* The parts of the invariant make it up.
LEMMA Together ==
    ASSUME world' \in Worlds, BreakerTyped', OutageKnown', CountsTyped', KicksInOrder',
           RecoveringTyped', NewsTyped'
    PROVE  HealthInv'
BY DEF HealthInv, TypeOK, BreakerTyped, CountsTyped, KicksInOrder, RecoveringTyped, NewsTyped

-----------------------------------------------------------------------------
(* The ways through a check.                                                 *)

\* The connector's process is gone: the portal and its tunnel are recovered.
LEMMA DeadStep ==
    ASSUME HealthInv, ConnectorDead
    PROVE  HealthInv'
<1>1. TypeOK /\ UNCHANGED <<world, cb, exhaustion>> /\ unreachable' = 0
  BY DEF HealthInv, ConnectorDead
<1>2. BreakerTyped' /\ OutageKnown'
  BY <1>1, AgesGrow, Thresholds DEF ConnectorDead, StillDown, HealthInv, TypeOK, BreakerTyped,
     OutageKnown
<1>3. CountsTyped' /\ KicksInOrder'
  BY <1>1, KicksKept, Thresholds DEF ConnectorDead, TypeOK, CountsTyped
<1>4. RecoveringTyped' /\ NewsTyped'
  BY <1>1, RecoveryPieces, NewsPieces DEF ConnectorDead
<1>5. QED BY <1>1, <1>2, <1>3, <1>4, Together DEF TypeOK

\* The breaker is open and it is not yet time for a trial.
LEMMA SkipStep ==
    ASSUME HealthInv, SkipWhileOpen
    PROVE  HealthInv'
<1>1. TypeOK /\ UNCHANGED <<world, cb, unreachable, exhaustion>>
  BY DEF HealthInv, SkipWhileOpen
<1>2. BreakerTyped' /\ OutageKnown'
  BY <1>1, AgesGrow, Thresholds DEF SkipWhileOpen, StillDown, HealthInv, TypeOK, BreakerTyped,
     OutageKnown
<1>3. CountsTyped' /\ KicksInOrder'
  BY <1>1, KicksKept, Thresholds DEF SkipWhileOpen, TypeOK, CountsTyped
<1>4. RecoveringTyped' /\ NewsTyped'
  BY <1>1, RecoveryPieces, NewsPieces DEF SkipWhileOpen
<1>5. QED BY <1>1, <1>2, <1>3, <1>4, Together DEF TypeOK

\* The tunnel answers.
LEMMA HealthyStep ==
    ASSUME HealthInv, Healthy
    PROVE  HealthInv'
<1>1. TypeOK /\ world' = world /\ unreachable' = 0 /\ exhaustion' = 0
  BY DEF HealthInv, Healthy
<1>2. BreakerTyped' /\ OutageKnown'
  BY <1>1, AgesGrow, Thresholds DEF Healthy, OlderProbe, BreakerTyped, OutageKnown
<1>3. CountsTyped' /\ KicksInOrder'
  BY <1>1, KicksKept, Thresholds DEF Healthy, TypeOK, CountsTyped
<1>4. RecoveringTyped'
  <2>1. MaxBackoff \in Nat \ {0}
    BY DEF MaxBackoff
  <2>2. QED BY <1>1, <2>1, OlderBounds DEF Healthy, RecoveringTyped, TypeOK
<1>5. NewsTyped'
  <2>1. CASE Report("closed") /\ NoChat
    BY <1>1, <2>1, NewsPieces DEF NewsTyped
  <2>2. CASE Report("closed") /\ chatAge' = ChatCooldown /\ UNCHANGED chatHeard
    BY <1>1, <2>2, NewsPieces, Thresholds DEF NewsTyped, TypeOK
  <2>3. CASE NoNews
    BY <1>1, <2>3, NewsPieces
  <2>4. QED BY <2>1, <2>2, <2>3 DEF Healthy
<1>6. QED BY <1>1, <1>2, <1>3, <1>4, <1>5, Together DEF TypeOK

\* Resources are exhausted, by no fault of the tunnel: it is only told.
LEMMA ExhaustedStep ==
    ASSUME HealthInv, ExhaustedOutside
    PROVE  HealthInv'
<1>1. TypeOK /\ UNCHANGED <<world, unreachable>> /\ KeepBreaker
  BY DEF HealthInv, ExhaustedOutside
<1>2. BreakerTyped' /\ OutageKnown'
  BY <1>1, AgesGrow, Thresholds DEF ExhaustedOutside, StillDown, KeepBreaker, Gated, OlderProbe,
     HealthInv, TypeOK, BreakerTyped, OutageKnown
<1>3. exhaustion' \in 0..(ReportEvery + 3) /\ exhaustion' \in Nat
  BY <1>1, Thresholds DEF ExhaustedOutside, NextStreak, TypeOK
<1>4. CountsTyped' /\ KicksInOrder'
  BY <1>1, <1>3, KicksKept, Thresholds DEF ExhaustedOutside, TypeOK, CountsTyped
<1>5. NewsTyped'
  <2>1. PICK n \in Nat : n = NextStreak(exhaustion)
    BY <1>3 DEF ExhaustedOutside
  <2>2. NotifyExhaustion(n)
    BY <2>1, <1>3 DEF ExhaustedOutside, NotifyExhaustion
  <2>3. QED BY <1>1, <2>2, ExhaustionNews
<1>6. RecoveringTyped'
  BY <1>1, RecoveryPieces DEF ExhaustedOutside
<1>7. QED BY <1>1, <1>2, <1>4, <1>5, <1>6, Together DEF TypeOK

\* A failed check: the outage the breaker sees has begun, or goes on.
LEMMA FailureAges ==
    ASSUME HealthInv, GenuineFailure
    PROVE  /\ world' \in Worlds
           /\ failAge' \in 0..OpenAfter /\ sinceOk' \in 0..OpenAfter
           /\ failAge' <= sinceOk' /\ sinceOk' >= sinceOk
           /\ LongDown => sinceOk' = OpenAfter
<1>1. /\ TypeOK /\ failAge <= sinceOk
      /\ sinceOk' = Older(sinceOk, OpenAfter)
      /\ failAge' = IF failAge = 0 THEN 1 ELSE OlderFail
  BY DEF HealthInv, OutageKnown, GenuineFailure, StillDown
<1>2. QED BY <1>1, AgesGrow, Thresholds DEF GenuineFailure, LongDown, TypeOK

\* The breaker opens, or opens again after a trial.
LEMMA OpeningStep ==
    ASSUME HealthInv, OpenBreaker \/ HalfOpenFails
    PROVE  HealthInv'
<1>1. /\ TypeOK /\ GenuineFailure /\ unreachable' = unreachable /\ exhaustion' = 0
      /\ cb' = "open" /\ probeAge' = 1 /\ NoKick /\ NoRecovery
  BY DEF HealthInv, OpenBreaker, HalfOpenFails
<1>2. sinceOk' = OpenAfter
  <2>1. CASE OpenBreaker
    BY <2>1, <1>1, FailureAges DEF OpenBreaker
  <2>2. CASE HalfOpenFails
    <3>1. sinceOk = OpenAfter
      BY <2>2 DEF HalfOpenFails, Gated, HealthInv, OutageKnown
    <3>2. QED BY <1>1, <3>1, FailureAges, Thresholds
  <2>3. QED BY <2>1, <2>2
<1>3. BreakerTyped' /\ OutageKnown'
  BY <1>1, <1>2, FailureAges, Thresholds DEF BreakerTyped, OutageKnown
<1>4. CountsTyped' /\ KicksInOrder'
  BY <1>1, KicksKept, Thresholds DEF TypeOK, CountsTyped
<1>5. NewsTyped'
  BY <1>1, NewsPieces DEF OpenBreaker, HalfOpenFails, NewsTyped
<1>6. RecoveringTyped'
  BY <1>1, RecoveryPieces
<1>7. QED BY <1>1, <1>3, <1>4, <1>5, <1>6, FailureAges, Together

\* Repairs are tried with the breaker closed, and it stays so.
LEMMA ActingKeeps ==
    ASSUME HealthInv, Acting
    PROVE  /\ cb = "closed" /\ cb' = "closed"
           /\ world' \in Worlds /\ BreakerTyped' /\ OutageKnown'
<1>1. GenuineFailure /\ Gated = "closed" /\ KeepBreaker /\ TypeOK
  BY DEF Acting, HealthInv
<1>2. cb = "closed" /\ cb' = "closed" /\ probeAge' = Older(probeAge, HalfOpenEvery)
  BY <1>1 DEF Gated, KeepBreaker, OlderProbe
<1>3. QED BY <1>1, <1>2, FailureAges, AgesGrow DEF BreakerTyped, OutageKnown

\* A failure is counted or met, without a restart that works.
LEMMA RepairStep ==
    ASSUME HealthInv, PortalDown \/ ExhaustedInside \/ CountFailure \/ KickBackoff \/ KickFails
    PROVE  HealthInv'
<1>1. TypeOK /\ Acting /\ NoKick /\ (RecoverHomePortal \/ NoRecovery)
  BY DEF HealthInv, PortalDown, ExhaustedInside, CountFailure, KickBackoff, KickFails, Zombie
<1>2. /\ exhaustion' \in {0, 1} /\ unreachable' \in 0..FailThreshold
      /\ unreachable' \in 0..(unreachable + 1)
  BY <1>1, Thresholds DEF PortalDown, ExhaustedInside, CountFailure, KickBackoff, KickFails,
     Zombie, Confirmed, TypeOK
<1>3. CountsTyped'
  BY <1>2, Thresholds DEF CountsTyped
<1>4. KicksInOrder'
  BY <1>1, <1>2, KicksKept
<1>5. NewsTyped'
  <2>1. CASE ExhaustedInside
    BY <1>1, <2>1, ExhaustionNews DEF ExhaustedInside
  <2>2. CASE PortalDown \/ CountFailure \/ KickBackoff \/ KickFails
    BY <1>1, <2>2, NewsPieces DEF PortalDown, CountFailure, KickBackoff, KickFails, Zombie
  <2>3. QED BY <2>1, <2>2
<1>6. RecoveringTyped'
  BY <1>1, RecoveryPieces
<1>7. QED BY <1>1, <1>3, <1>4, <1>5, <1>6, ActingKeeps, Together

\* A kick follows a full count of failures, which came after the kick before.
LEMMA KickStep ==
    ASSUME HealthInv, Kick
    PROVE  HealthInv'
<1>1. /\ TypeOK /\ Acting /\ NoRecovery /\ NoNews /\ exhaustion' = 0 /\ unreachable' = 0
      /\ unreachable + 1 >= FailThreshold /\ Cardinality(kickAges) < KickMax
      /\ kickAges' = OlderKicks \cup {1}
  BY DEF HealthInv, Kick, Zombie, Confirmed
<1>2. /\ unreachable \in Nat
      /\ \A k \in OlderKicks : k \in Nat /\ k >= 2 /\ k - 1 \in kickAges
  BY <1>1, OlderKicksBounds, Thresholds DEF OlderKicks, TypeOK
<1>3. Cardinality(kickAges') <= KickMax
  <2>1. 1 \notin OlderKicks
    BY <1>2
  <2>2. IsFiniteSet(OlderKicks)
    BY <1>1, OlderKicksBounds
  <2>3. Cardinality(OlderKicks \cup {1}) = Cardinality(OlderKicks) + 1
    BY <2>1, <2>2, FS_AddElement
  <2>4. QED BY <1>1, <2>3, OlderKicksBounds, Thresholds
<1>4. \A k \in OlderKicks : k - 1 >= FailThreshold
  <2>1. ASSUME NEW k \in OlderKicks PROVE k - 1 >= FailThreshold
    <3>1. k - 1 > unreachable
      BY <1>2 DEF HealthInv, KicksBefore
    <3>2. QED BY <1>1, <1>2, <3>1, Thresholds
  <2>2. QED BY <2>1
<1>5. \A a, b \in kickAges' : a < b => b - a >= FailThreshold
  <2>1. SUFFICES ASSUME NEW a \in OlderKicks \cup {1}, NEW b \in OlderKicks \cup {1}, a < b
                 PROVE  b - a >= FailThreshold
    BY <1>1
  <2>2. b \in OlderKicks
    BY <1>2, <2>1
  <2>3. CASE a = 1
    BY <1>4, <2>2, <2>3
  <2>4. CASE a \in OlderKicks
    <3>1. a - 1 < b - 1 /\ (b - 1) - (a - 1) = b - a
      BY <1>2, <2>1, <2>2, <2>4
    <3>2. QED BY <1>2, <2>2, <2>4, <3>1 DEF HealthInv, KickDiscipline
  <2>5. QED BY <2>3, <2>4
<1>6. kickAges' \subseteq 1..(KickWindow - 1)
  BY <1>1, OlderKicksBounds, Thresholds
<1>7. KicksBefore'
  BY <1>1, <1>2, ActingKeeps DEF KicksBefore
<1>8. KicksInOrder'
  BY <1>3, <1>5, <1>6, <1>7 DEF KicksInOrder, KickDiscipline
<1>9. CountsTyped'
  BY <1>1, Thresholds DEF CountsTyped
<1>10. RecoveringTyped' /\ NewsTyped'
  BY <1>1, RecoveryPieces, NewsPieces
<1>11. QED BY <1>1, <1>8, <1>9, <1>10, ActingKeeps, Together

-----------------------------------------------------------------------------
(* The invariant, and what follows from it.                                  *)

\* The initial states.
LEMMA InvInit == Init => HealthInv
<1>1. SUFFICES ASSUME Init PROVE HealthInv
  OBVIOUS
<1>2. TypeOK
  <2>1. /\ world \in Worlds /\ cb \in {"closed", "open", "half_open"} /\ chatHeard \in BOOLEAN
        /\ alarm \in {"none", "closed", "open", "exhausted"}
    BY <1>1 DEF Init
  <2>2. /\ failAge \in 0..OpenAfter /\ probeAge \in 1..HalfOpenEvery
        /\ unreachable \in 0..FailThreshold /\ chatAge \in 1..ChatCooldown
        /\ sinceOk \in 0..OpenAfter /\ kickAges \subseteq 1..(KickWindow - 1)
    BY <1>1, Thresholds DEF Init
  <2>3. /\ exhaustion \in 0..(ReportEvery + 3)
        /\ recoverAge \in 1..MaxBackoff /\ recoverStreak \in 0..4
    BY <1>1, Thresholds DEF Init, MaxBackoff
  <2>4. QED BY <2>1, <2>2, <2>3 DEF TypeOK
<1>3. KickDiscipline
  <2>1. kickAges = {} /\ Cardinality(kickAges) = 0
    BY <1>1, FS_EmptySet DEF Init
  <2>2. QED BY <2>1, Thresholds DEF KickDiscipline
<1>4. OutageKnown /\ KicksBefore
  BY <1>1 DEF Init, OutageKnown, KicksBefore
<1>5. QED BY <1>2, <1>3, <1>4 DEF HealthInv

\* Every check, and every change of the world, keeps the invariant.
LEMMA InvStep == HealthInv /\ [Next]_vars => HealthInv'
<1>1. SUFFICES ASSUME HealthInv, [Next]_vars PROVE HealthInv'
  OBVIOUS
<1>2. CASE WorldChanges
  BY <1>1, <1>2 DEF WorldChanges, breaker, recovering, HealthInv, TypeOK, OutageKnown,
     KickDiscipline, KicksBefore
<1>3. CASE ConnectorDead
  BY <1>1, <1>3, DeadStep
<1>4. CASE SkipWhileOpen
  BY <1>1, <1>4, SkipStep
<1>5. CASE Healthy
  BY <1>1, <1>5, HealthyStep
<1>6. CASE ExhaustedOutside
  BY <1>1, <1>6, ExhaustedStep
<1>7. CASE OpenBreaker \/ HalfOpenFails
  BY <1>1, <1>7, OpeningStep
<1>8. CASE PortalDown \/ ExhaustedInside \/ CountFailure \/ KickBackoff \/ KickFails
  BY <1>1, <1>8, RepairStep
<1>9. CASE Kick
  BY <1>1, <1>9, KickStep
<1>10. CASE UNCHANGED vars
  BY <1>1, <1>10 DEF vars, breaker, recovering, HealthInv, TypeOK, OutageKnown, KickDiscipline,
     KicksBefore
<1>11. QED
  BY <1>1, <1>2, <1>3, <1>4, <1>5, <1>6, <1>7, <1>8, <1>9, <1>10 DEF Next, Check

\* The inductive invariant holds throughout, whatever the thresholds are.
THEOREM HealthInvariant == Spec => []HealthInv
BY InvInit, InvStep, PTL DEF Spec

\* Every age and counter of _check_cloudflared_health stays within the range
\* the code can tell apart.
THEOREM HealthTypes == Spec => []TypeOK
<1>1. HealthInv => TypeOK
  BY DEF HealthInv
<1>2. QED BY HealthInvariant, <1>1, PTL

\* The breaker of _check_cloudflared_health (lines 702-726) is not closed unless
\* the tunnel has been found unwell for _CB_OPEN_AFTER.
THEOREM BreakerOpensLate == Spec => []OutageBeforeOpen
<1>1. HealthInv => OutageBeforeOpen
  BY Thresholds DEF HealthInv, OutageKnown, OutageBeforeOpen
<1>2. QED BY HealthInvariant, <1>1, PTL

\* _kickstart_cloudflared is called at most _TUNNEL_KICK_MAX_PER_HOUR times in
\* an hour, and between two calls there are enough failed checks.
THEOREM KicksRationed == Spec => []KickDiscipline
<1>1. HealthInv => KickDiscipline
  BY DEF HealthInv
<1>2. QED BY HealthInvariant, <1>1, PTL

\* No check with the breaker open, or half open, restarts the connector.
THEOREM KicksOnlyClosed == Spec => KicksOnlyWhenClosed
<1>1. HealthInv /\ [Next]_vars => [1 \in kickAges' => cb = "closed"]_vars
  <2>1. SUFFICES ASSUME HealthInv, Next, 1 \in kickAges' PROVE cb = "closed"
    OBVIOUS
  <2>2. 1 \notin OlderKicks
    BY <2>1, OlderKicksBounds, Thresholds DEF HealthInv
  <2>3. CASE Kick
    BY <2>1, <2>3, ActingKeeps DEF Kick, Zombie
  <2>4. CASE WorldChanges
    BY <2>1, <2>4 DEF WorldChanges, HealthInv, KicksBefore
  <2>5. CASE Check /\ ~Kick
    <3>1. NoKick
      BY <2>5 DEF Check, ConnectorDead, SkipWhileOpen, Healthy, ExhaustedOutside, OpenBreaker,
         HalfOpenFails, PortalDown, ExhaustedInside, CountFailure, KickBackoff, KickFails
    <3>2. QED BY <2>1, <2>2, <3>1 DEF NoKick
  <2>6. QED BY <2>1, <2>3, <2>4, <2>5 DEF Next
<1>2. QED BY HealthInvariant, <1>1, PTL DEF Spec, KicksOnlyWhenClosed
-----------------------------------------------------------------------------
(***************************************************************************)
(* The meetings.  The pieces come together in order, a piece too many only  *)
(* where a crash cut the taking of a chunk, and then the size is wrong; a    *)
(* transcript that a job notes is there; and once the agent was asked, every *)
(* job that is under way knows it, or the request is excused.               *)
(***************************************************************************)

\* What the pieces are, as far as the state file counts them.
PiecesInOrder ==
    /\ upto <= client.at + 1
    /\ part # NoFile =>
        /\ Len(part) >= upto
        /\ Len(part) = upto => \A i \in 1 .. upto : part[i] = i - 1
    /\ upto = Chunks => late
    /\ client.knows = "waiting" => client.way = "live"

\* What each job may count on.
JobKnows(j) ==
    /\ job[j].at # "idle" => Known /\ job[j].snap # NoFile
    /\ job[j].at = "asking" \/ (j = "auto" /\ job[j].at = "listed") => ~job[j].snap.asked
    /\ job[j].at \in {"noting", "dropping"} => "precise" \in docs
JobsKnow == \A j \in Jobs : JobKnows(j)

\* The request for minutes is in the metadata and in every view of them.
AskedIsSeen ==
    posted > 0 /\ ~excused =>
        /\ Known /\ meta.asked
        /\ \A j \in Jobs : job[j].at # "idle" => job[j].snap.asked

MeetingInv ==
    /\ MeetingTypeOK /\ PiecesInOrder /\ JobsKnow /\ AskedIsSeen
    /\ RecordingTaken /\ NothingThrownAway /\ AskedOnce

\* The constants.
LEMMA MeetingConstants ==
    /\ Chunks \in Nat /\ Last \in Nat /\ Chunks = Last + 1 /\ Last > 0
    /\ MaxAttempts \in Nat /\ MaxFaults \in Nat
    /\ NoFile # Torn /\ NoFile \notin Metadata /\ Torn \notin Metadata
    /\ NoFile \notin Seq(Nat) /\ NoFile \notin Transcripts
BY MeetingsAssumption, FileAssumption DEF Last

\* A file of metadata is known exactly if it is one.
LEMMA KnownIsMetadata ==
    ASSUME MeetingTypeOK
    PROVE  (Known <=> meta \in Metadata) /\ (meta # NoFile /\ ~Known <=> meta = Torn)
BY MeetingConstants DEF MeetingTypeOK, Known

\* Metadata are written over with these two fields.
Writes(doc, asked) ==
    /\ meta \in Metadata /\ meta' \in Metadata
    /\ meta'.doc = doc /\ meta'.asked = asked

\* A job that is not idle has metadata to write.
LEMMA JobHasMeta ==
    ASSUME MeetingInv, NEW j \in Jobs, job[j].at # "idle"
    PROVE  meta \in Metadata /\ job[j].snap \in Metadata
BY KnownIsMetadata DEF MeetingInv, JobsKnow, JobKnows, MeetingTypeOK

\* The steps that leave a meeting's transcript and request as they are.
LEMMA PlainWrites ==
    ASSUME MeetingInv, NEW j \in Jobs,
           \/ GotKey(j) \/ NoKey(j) \/ Sent(j) \/ Nowhere(j)
           \/ (AskFails(j) /\ j # "auto") \/ (j = "sweep" /\ SweepGivesUp)
    PROVE  Writes(meta.doc, meta.asked)
<1>1. meta \in Metadata /\ job[j].snap \in Metadata
  BY JobHasMeta DEF GotKey, NoKey, Sent, Nowhere, AskFails, Asks, SweepGivesUp, Listed, At
<1>2. job[j].snap.attempts + 1 \in Nat
  BY <1>1 DEF Metadata
<1>3. CASE GotKey(j)
  BY <1>1, <1>3 DEF GotKey, Rest, Writes, Metadata, Update
<1>4. CASE NoKey(j)
  BY <1>1, <1>2, <1>4 DEF NoKey, Rest, Writes, Metadata, Update
<1>5. CASE Sent(j)
  BY <1>1, <1>5 DEF Sent, Rest, Writes, Metadata, Update
<1>6. CASE Nowhere(j)
  BY <1>1, <1>6 DEF Nowhere, Rest, Writes, Metadata, Update
<1>7. CASE AskFails(j) /\ j # "auto"
  BY <1>1, <1>7 DEF AskFails, Rest, Writes, Metadata, Update
<1>8. CASE j = "sweep" /\ SweepGivesUp
  BY <1>1, <1>8 DEF SweepGivesUp, Rest, Writes, Metadata, Update
<1>9. QED BY <1>3, <1>4, <1>5, <1>6, <1>7, <1>8

\* The rescue by the captions.
LEMMA RescueWrites ==
    ASSUME MeetingInv, NEW j \in Jobs, job[j].at # "idle", Rescue(j)
    PROVE  Writes("fallback", meta.asked)
<1>1. meta \in Metadata /\ job[j].snap \in Metadata
  BY JobHasMeta
<1>2. job[j].snap.attempts + 1 \in Nat
  BY <1>1 DEF Metadata
<1>3. QED BY <1>1, <1>2 DEF Rescue, Rest, Writes, Metadata, Update, Transcripts

\* A job that throws rescues the meeting or marks it as failed.
LEMMA ThrowsWrites ==
    ASSUME MeetingInv, NEW j \in Jobs, Throws(j)
    PROVE  Rescue(j) \/ (Writes(meta.doc, meta.asked) /\ Ends(j) /\ UNCHANGED docs
                         /\ UNCHANGED <<client, part, upto, audio, running, posted, old>> /\ History)
<1>1. meta \in Metadata /\ job[j].snap \in Metadata
  BY JobHasMeta DEF Throws
<1>2. job[j].snap.attempts + 1 \in Nat
  BY <1>1 DEF Metadata
<1>3. QED BY <1>1, <1>2 DEF Throws, Rest, Writes, Metadata, Update

\* The steps that note a transcript.
LEMMA DocWrites ==
    ASSUME MeetingInv
    PROVE  /\ \A j \in Process : NoteDoc(j) => Writes("precise", meta.asked)
           /\ SweepLive => Writes("live", meta.asked)
           /\ Label => Writes("precise", meta.asked) /\ meta.doc = "precise"
<1>1. ASSUME NEW j \in Process, NoteDoc(j) PROVE Writes("precise", meta.asked)
  <2>1. meta \in Metadata
    BY <1>1, JobHasMeta DEF NoteDoc, At, Process, Jobs
  <2>2. QED BY <1>1, <2>1 DEF NoteDoc, Writes, Metadata, Update, Transcripts
<1>2. ASSUME SweepLive PROVE Writes("live", meta.asked)
  <2>1. meta \in Metadata
    BY <1>2, JobHasMeta DEF SweepLive, Listed, At, Jobs
  <2>2. QED BY <1>2, <2>1 DEF SweepLive, LiveNoted, Rest, Writes, Metadata, Update, Transcripts
<1>3. ASSUME Label PROVE Writes("precise", meta.asked) /\ meta.doc = "precise"
  <2>1. meta \in Metadata
    BY <1>3, KnownIsMetadata DEF Label, MeetingInv
  <2>2. QED BY <1>3, <2>1 DEF Label, Writes, Metadata, Update, Transcripts
<1>4. QED BY <1>1, <1>2, <1>3

\* The agent has heard; or time has passed.
LEMMA AskWrites ==
    ASSUME MeetingInv
    PROVE  /\ \A j \in Jobs : AskHeard(j) => Writes(meta.doc, TRUE)
           /\ Age => Writes(meta.doc, meta.asked)
<1>1. ASSUME NEW j \in Jobs, AskHeard(j) PROVE Writes(meta.doc, TRUE)
  <2>1. meta \in Metadata
    BY <1>1, JobHasMeta DEF AskHeard, Asks
  <2>2. \A heard \in BOOLEAN :
          LET m == Update([status |-> "minutes_pending", asked |-> heard])
          IN  m \in Metadata /\ m.asked = heard /\ m.doc = meta.doc
    BY <2>1 DEF Metadata, Update
  <2>3. meta' = Update([status |-> "minutes_pending", asked |-> TRUE])
    BY <1>1 DEF AskHeard
  <2>4. QED BY <2>1, <2>2, <2>3 DEF Writes
<1>2. ASSUME Age PROVE Writes(meta.doc, meta.asked)
  <2>1. meta \in Metadata /\ meta' = [meta EXCEPT !.age = @ + 1] /\ meta.age < 2
    BY <1>2, KnownIsMetadata DEF Age, MeetingInv
  <2>2. QED BY <2>1 DEF Writes, Metadata
<1>3. QED BY <1>1, <1>2

\* A meeting's first metadata.
LEMMA FirstMeta ==
    ASSUME MeetingInv
    PROVE  /\ NewMeta("audio", NoFile) \in Metadata /\ NewMeta("live", "live") \in Metadata
           /\ [NewMeta("live", "live") EXCEPT !.status = "transcribed", !.doc = "live"] \in Metadata
           /\ ~NewMeta("audio", NoFile).asked /\ ~NewMeta("live", "live").asked
           /\ NewMeta("audio", NoFile).doc = NoFile /\ NewMeta("live", "live").doc = NoFile
<1>1. client.captions \in BOOLEAN
  BY DEF MeetingInv, MeetingTypeOK
<1>2. NewMeta("audio", NoFile) \in Metadata /\ NewMeta("live", "live") \in Metadata
  BY <1>1 DEF NewMeta, Metadata
<1>3. [NewMeta("live", "live") EXCEPT !.status = "transcribed", !.doc = "live"] \in Metadata
  BY <1>2 DEF Metadata, Transcripts
<1>4. QED BY <1>2, <1>3 DEF NewMeta

\* How many requests are out when the portal dies.
LEMMA TakenCounted ==
    ASSUME NEW taken \in SUBSET {j \in Jobs : At(j, "asking")}
    PROVE  Cardinality(taken) \in Nat /\ (taken = {} => Cardinality(taken) = 0)
<1>1. IsFiniteSet({}) /\ Cardinality({}) = 0
  BY FS_EmptySet
<1>2. IsFiniteSet({"upload"}) /\ IsFiniteSet({"upload", "live"})
  <2>1. {"upload"} = {} \cup {"upload"} /\ {"upload", "live"} = {"upload"} \cup {"live"}
    OBVIOUS
  <2>2. QED BY <1>1, <2>1, FS_AddElement
<1>3. IsFiniteSet({"upload", "live", "sweep"})
  <2>1. {"upload", "live", "sweep"} = {"upload", "live"} \cup {"sweep"}
    OBVIOUS
  <2>2. QED BY <1>2, <2>1, FS_AddElement
<1>4. IsFiniteSet({"upload", "live", "sweep", "auto"})
  <2>1. {"upload", "live", "sweep", "auto"} = {"upload", "live", "sweep"} \cup {"auto"}
    OBVIOUS
  <2>2. QED BY <1>3, <2>1, FS_AddElement
<1>5. IsFiniteSet(Jobs)
  <2>1. Jobs = {"upload", "live", "sweep", "auto"} \cup {"label"}
    BY DEF Jobs
  <2>2. QED BY <1>4, <2>1, FS_AddElement
<1>6. QED BY <1>1, <1>5, FS_Subset, FS_CardinalityType

-----------------------------------------------------------------------------
(* What a step does to the jobs and to what they know of the meeting.       *)

\* A job moves on: with the view it has, or with one of the metadata as they are.
Moved(j) ==
    \E w \in Places, s \in Metadata \cup {NoFile} :
        /\ job' = [job EXCEPT ![j] = [at |-> w, snap |-> s]]
        /\ w # "idle" => s \in Metadata /\ meta \in Metadata
                         /\ (s = meta \/ (s = job[j].snap /\ job[j].at # "idle"))
        /\ w = "asking" \/ (j = "auto" /\ w = "listed") => ~s.asked
        /\ w \in {"noting", "dropping"} => "precise" \in docs'

\* The metadata stay, or are written over but for the request.
GoesOn ==
    /\ UNCHANGED <<posted, excused>>
    /\ UNCHANGED job \/ \E j \in Jobs : Moved(j)
    /\ UNCHANGED meta \/ \E d \in Transcripts \cup {NoFile} : Writes(d, meta.asked)
    /\ "precise" \in docs => "precise" \in docs'

\* A meeting begins, with a job of its own.
Begins ==
    /\ UNCHANGED <<posted, excused>>
    /\ "precise" \in docs => "precise" \in docs'
    /\ ~Known /\ meta' \in Metadata /\ ~meta'.asked
    /\ \E j \in Jobs \ {"auto"}, w \in {"key", "asking"} :
          job' = [job EXCEPT ![j] = [at |-> w, snap |-> meta']]

\* A job asks, and ends.
Heard(j) ==
    /\ job[j].at \in Asks /\ job' = [job EXCEPT ![j] = Idle] /\ docs' = docs
    /\ posted' = posted + New(j)
    /\ excused' = (excused \/ (New(j) = 1 /\ Behind(j)))
    /\ Writes(meta.doc, TRUE)

NotHeard(j) ==
    /\ job[j].at \in Asks /\ job' = [job EXCEPT ![j] = Idle] /\ docs' = docs
    /\ UNCHANGED <<posted, excused>> \/ (posted' = posted + New(j) /\ excused' = (excused \/ New(j) = 1))
    /\ UNCHANGED meta \/ Writes(meta.doc, meta.asked)

\* The portal dies: no job is left.
Dead ==
    /\ job' = [j \in Jobs |-> Idle] /\ docs' = docs
    /\ \/ UNCHANGED <<posted, excused, meta>>
       \/ (UNCHANGED <<posted, excused>> /\ meta = NoFile /\ meta' \in Metadata)
       \/ /\ meta' \in {meta, Torn} /\ posted' \in Nat
          /\ excused' \in BOOLEAN /\ (excused => excused')
          /\ posted' # posted \/ (meta' = Torn /\ posted > 0) => excused'

\* A job that goes to another place keeps its view.
LEMMA GoesIsMove ==
    ASSUME MeetingInv, NEW j \in Jobs, NEW w \in Places, Goes(j, w), job[j].at # "idle",
           w = "asking" => ~job[j].snap.asked, w # "listed",
           w \in {"noting", "dropping"} => "precise" \in docs'
    PROVE  Moved(j)
<1>1. meta \in Metadata /\ job[j].snap \in Metadata
  BY JobHasMeta
<1>2. job \in [Jobs -> [at : Places, snap : Metadata \cup {NoFile}]]
  BY DEF MeetingInv, MeetingTypeOK
<1>3. [job[j] EXCEPT !.at = w] = [at |-> w, snap |-> job[j].snap]
  BY <1>2
<1>4. job' = [job EXCEPT ![j] = [at |-> w, snap |-> job[j].snap]]
  BY <1>2, <1>3 DEF Goes
<1>5. QED BY <1>1, <1>4 DEF Moved

\* So does a job that ends.
LEMMA EndsIsMove ==
    ASSUME NEW j \in Jobs, Ends(j) PROVE Moved(j)
BY MeetingConstants DEF Ends, Moved, Idle, Places

\* And one that takes a new view.
LEMMA ViewIsMove ==
    ASSUME NEW j \in Jobs, NEW w \in Places \ {"idle", "noting", "dropping"}, meta \in Metadata,
           w = "asking" \/ (j = "auto" /\ w = "listed") => ~meta.asked,
           job' = [job EXCEPT ![j] = [at |-> w, snap |-> meta]]
    PROVE  Moved(j)
BY DEF Moved

\* Every step is one of these.
LEMMA StepKinds ==
    ASSUME MeetingInv, MeetingNext
    PROVE  GoesOn \/ Begins \/ Dead \/ \E j \in Jobs : Heard(j) \/ NotHeard(j)
<1> DEFINE Kind == GoesOn \/ Begins \/ Dead \/ \E j \in Jobs : Heard(j) \/ NotHeard(j)
<1> SUFFICES Kind
  OBVIOUS
<1>0. /\ Process \subseteq Jobs /\ {"sweep", "auto", "label", "upload", "live"} = Jobs
      /\ docs \subseteq Transcripts /\ meta \in Metadata \cup {NoFile, Torn}
      /\ meta \in Metadata => meta.doc \in Transcripts \cup {NoFile}
      /\ {"precise", "fallback", "live"} = Transcripts
  BY DEF Process, Jobs, Transcripts, MeetingInv, MeetingTypeOK, Metadata
<1>1. CASE Already
  BY <1>1 DEF Already, History, GoesOn
<1>2. CASE Duplicate
  BY <1>2 DEF Duplicate, History, GoesOn
<1>3. CASE OutOfOrder
  BY <1>3 DEF OutOfOrder, History, GoesOn
<1>4. CASE TakeChunk
  BY <1>4 DEF TakeChunk, History, GoesOn
<1>5. CASE WrongSize
  BY <1>5 DEF WrongSize, History, GoesOn
<1>6. CASE CaptionsFail
  BY <1>6 DEF CaptionsFail, History, GoesOn
<1>7. CASE CaptionsAgain
  BY <1>7 DEF CaptionsAgain, History, GoesOn
<1>8. CASE CleanParts
  BY <1>8 DEF CleanParts, History, GoesOn
<1>9. CASE GrowOld
  BY <1>9 DEF GrowOld, History, GoesOn
<1>10. CASE TakeLast
  <2>1. ~Known /\ meta' \in Metadata /\ ~meta'.asked
    BY <1>10, FirstMeta DEF TakeLast
  <2>2. job' = [job EXCEPT !["upload"] = [at |-> "key", snap |-> meta']] /\ UNCHANGED <<posted, excused, docs>>
    BY <1>10 DEF TakeLast
  <2>3. QED BY <2>1, <2>2, <1>0 DEF Begins
<1>11. CASE Captions
  <2>1. ~Known /\ meta' \in Metadata /\ ~meta'.asked
    <3>1. meta' = [NewMeta("live", "live") EXCEPT !.status = "transcribed", !.doc = "live"] /\ meta = NoFile
      BY <1>11 DEF Captions
    <3>2. meta' \in Metadata
      BY <3>1, FirstMeta
    <3>3. ~meta'.asked
      BY <3>1, FirstMeta DEF Metadata
    <3>4. QED BY <3>1, <3>2, <3>3 DEF Known
  <2>2. /\ job' = [job EXCEPT !["live"] = [at |-> "asking", snap |-> meta']] /\ UNCHANGED <<posted, excused>>
        /\ "precise" \in docs => "precise" \in docs'
    BY <1>11 DEF Captions, History
  <2>3. QED BY <2>1, <2>2, <1>0 DEF Begins
<1>12. CASE TakeCut
  BY <1>12 DEF TakeCut, Dies, Dead
<1>13. CASE CaptionsCut
  BY <1>13, FirstMeta DEF CaptionsCut, Dies, Dead, History
<1>14. ASSUME NEW j \in Process, GotKey(j) PROVE Kind
  <2>1. j \in Jobs /\ job[j].at # "idle" /\ Goes(j, "sending")
    BY <1>14, <1>0 DEF GotKey, At
  <2>2. TRUE
    BY <1>14, <1>0 DEF GotKey, At, MeetingInv, JobsKnow, JobKnows
  <2>3. Moved(j)
    BY <2>1, <2>2, GoesIsMove DEF Places
  <2>4. UNCHANGED <<posted, excused>> /\ Writes(meta.doc, meta.asked)
    BY <1>14, <2>1, PlainWrites DEF GotKey, Rest, History
  <2>5. "precise" \in docs => "precise" \in docs'
    BY <1>14 DEF GotKey
  <2>6. QED BY <2>1, <2>3, <2>4, <2>5, <1>0 DEF GoesOn, Writes
<1>15. ASSUME NEW j \in Process, NoKey(j) PROVE Kind
  <2>1. j \in Jobs /\ Ends(j)
    BY <1>15, <1>0 DEF NoKey
  <2>2. Moved(j)
    BY <2>1, EndsIsMove
  <2>3. UNCHANGED <<posted, excused, docs>> /\ Writes(meta.doc, meta.asked)
    BY <1>15, <2>1, PlainWrites DEF NoKey, Rest, History
  <2>4. QED BY <2>1, <2>2, <2>3, <1>0 DEF GoesOn, Writes
<1>16. ASSUME NEW j \in Process, Sent(j) PROVE Kind
  <2>1. j \in Jobs /\ job[j].at # "idle" /\ Goes(j, "polling")
    BY <1>16, <1>0 DEF Sent, At
  <2>2. TRUE
    BY <1>16, <1>0 DEF Sent, At, MeetingInv, JobsKnow, JobKnows
  <2>3. Moved(j)
    BY <2>1, <2>2, GoesIsMove DEF Places
  <2>4. UNCHANGED <<posted, excused>> /\ Writes(meta.doc, meta.asked)
    BY <1>16, <2>1, PlainWrites DEF Sent, Rest, History
  <2>5. "precise" \in docs => "precise" \in docs'
    BY <1>16 DEF Sent
  <2>6. QED BY <2>1, <2>3, <2>4, <2>5, <1>0 DEF GoesOn, Writes
<1>17. ASSUME NEW j \in Process, Nowhere(j) PROVE Kind
  <2>1. j \in Jobs /\ Ends(j)
    BY <1>17, <1>0 DEF Nowhere
  <2>2. Moved(j)
    BY <2>1, EndsIsMove
  <2>3. UNCHANGED <<posted, excused, docs>> /\ Writes(meta.doc, meta.asked)
    BY <1>17, <2>1, PlainWrites DEF Nowhere, Rest, History
  <2>4. QED BY <2>1, <2>2, <2>3, <1>0 DEF GoesOn, Writes
<1>18. ASSUME NEW j \in Process, WriteDoc(j) PROVE Kind
  <2>1. j \in Jobs /\ job[j].at # "idle" /\ Goes(j, "noting")
    BY <1>18, <1>0 DEF WriteDoc, At
  <2>2. "precise" \in docs'
    BY <1>18, <1>0 DEF WriteDoc, At, MeetingInv, JobsKnow, JobKnows
  <2>3. Moved(j)
    BY <2>1, <2>2, GoesIsMove DEF Places
  <2>4. UNCHANGED <<posted, excused>> /\ UNCHANGED meta
    BY <1>18, <2>1, <1>0 DEF WriteDoc, Rest, History
  <2>5. "precise" \in docs => "precise" \in docs'
    BY <1>18 DEF WriteDoc
  <2>6. QED BY <2>1, <2>3, <2>4, <2>5, <1>0 DEF GoesOn, Writes
<1>19. ASSUME NEW j \in Process, NoteDoc(j) PROVE Kind
  <2>1. j \in Jobs /\ job[j].at # "idle" /\ Goes(j, "dropping")
    BY <1>19, <1>0 DEF NoteDoc, At
  <2>2. "precise" \in docs'
    BY <1>19, <1>0 DEF NoteDoc, At, MeetingInv, JobsKnow, JobKnows
  <2>3. Moved(j)
    BY <2>1, <2>2, GoesIsMove DEF Places
  <2>4. UNCHANGED <<posted, excused>> /\ Writes("precise", meta.asked)
    BY <1>19, <2>1, DocWrites DEF NoteDoc, Rest, History
  <2>5. "precise" \in docs => "precise" \in docs'
    BY <1>19 DEF NoteDoc
  <2>6. QED BY <2>1, <2>3, <2>4, <2>5, <1>0 DEF GoesOn, Writes
<1>20. ASSUME NEW j \in Process, DropAudio(j) PROVE Kind
  <2>1. j \in Jobs /\ job[j].at # "idle" /\ Goes(j, IF job[j].snap.asked THEN "refreshing" ELSE "asking")
    BY <1>20, <1>0 DEF DropAudio, At
  <2>2. TRUE
    BY <1>20, <1>0 DEF DropAudio, At, MeetingInv, JobsKnow, JobKnows
  <2>3. Moved(j)
    BY <2>1, <2>2, GoesIsMove DEF Places
  <2>4. UNCHANGED <<posted, excused>> /\ UNCHANGED meta
    BY <1>20, <2>1, <1>0 DEF DropAudio, Rest, History
  <2>5. "precise" \in docs => "precise" \in docs'
    BY <1>20 DEF DropAudio
  <2>6. QED BY <2>1, <2>3, <2>4, <2>5, <1>0 DEF GoesOn, Writes
<1>21. ASSUME NEW j \in Process, Throws(j) PROVE Kind
  <2>1. j \in Jobs /\ job[j].at # "idle"
    BY <1>21, <1>0 DEF Throws
  <2>2. ASSUME NEW k \in Jobs, job[k].at # "idle", Rescue(k) PROVE GoesOn
    <3>1. Moved(k)
      <4>1. CASE job[k].snap.asked
        BY <2>2, <4>1, EndsIsMove DEF Rescue, FallBack
      <4>2. CASE ~job[k].snap.asked
        BY <2>2, <4>2, GoesIsMove DEF Rescue, FallBack, Places
      <4>3. QED BY <4>1, <4>2
    <3>2. Writes("fallback", meta.asked)
      BY <2>2, RescueWrites
    <3>3. UNCHANGED <<posted, excused>> /\ docs' = docs \cup {"fallback"}
      BY <2>2 DEF Rescue, Rest, History
    <3>4. QED BY <3>1, <3>2, <3>3, <1>0 DEF GoesOn
  <2>3. CASE Rescue(j)
    BY <2>1, <2>2, <2>3
  <2>4. CASE Writes(meta.doc, meta.asked) /\ Ends(j) /\ UNCHANGED <<docs, posted, excused>>
    BY <2>1, <2>4, EndsIsMove, <1>0 DEF GoesOn, Writes
  <2>5. QED BY <1>21, <2>1, <2>3, <2>4, ThrowsWrites DEF History
<1>22. CASE SweepFallBack
  <2>1. job["sweep"].at # "idle" /\ Rescue("sweep") /\ "sweep" \in Jobs
    BY <1>22, <1>0 DEF SweepFallBack, Listed, At
  <2>2. ASSUME NEW k \in Jobs, job[k].at # "idle", Rescue(k) PROVE GoesOn
    <3>1. Moved(k)
      <4>1. CASE job[k].snap.asked
        BY <2>2, <4>1, EndsIsMove DEF Rescue, FallBack
      <4>2. CASE ~job[k].snap.asked
        BY <2>2, <4>2, GoesIsMove DEF Rescue, FallBack, Places
      <4>3. QED BY <4>1, <4>2
    <3>2. Writes("fallback", meta.asked)
      BY <2>2, RescueWrites
    <3>3. UNCHANGED <<posted, excused>> /\ docs' = docs \cup {"fallback"}
      BY <2>2 DEF Rescue, Rest, History
    <3>4. QED BY <3>1, <3>2, <3>3, <1>0 DEF GoesOn
  <2>3. QED BY <2>1, <2>2
<1>23. ASSUME NEW j \in Jobs, AskHeard(j) PROVE Kind
  <2>1. Heard(j)
    BY <1>23, AskWrites DEF AskHeard, Heard, Ends
  <2>2. QED BY <2>1
<1>24. ASSUME NEW j \in Jobs, AskFails(j) PROVE Kind
  <2>1. UNCHANGED meta \/ Writes(meta.doc, meta.asked)
    <3>1. CASE j = "auto"
      BY <1>24, <3>1 DEF AskFails
    <3>2. CASE j # "auto"
      BY <1>24, <3>2, PlainWrites
    <3>3. QED BY <3>1, <3>2
  <2>2. NotHeard(j)
    BY <1>24, <2>1 DEF AskFails, NotHeard, Ends
  <2>3. QED BY <2>2
<1>25. CASE SweepList
  <2>1. /\ "sweep" \in Jobs /\ meta \in Metadata
        /\ job' = [job EXCEPT !["sweep"] = [at |-> "listed", snap |-> meta]]
    BY <1>25, <1>0, KnownIsMetadata, JobHasMeta DEF SweepList, Listed, At, MeetingInv
  <2>2. TRUE
    BY <1>25, <2>1 DEF SweepList, Waits
  <2>3. Moved("sweep")
    BY <2>1, <2>2, ViewIsMove DEF Places
  <2>4. UNCHANGED <<posted, excused>> /\ UNCHANGED meta /\ ("precise" \in docs => "precise" \in docs')
    BY <1>25 DEF SweepList, Rest, History
  <2>5. QED BY <2>1, <2>3, <2>4, <1>0 DEF GoesOn, Writes
<1>26. CASE SweepPrecise
  <2>1. /\ "sweep" \in Jobs /\ meta \in Metadata
        /\ job' = [job EXCEPT !["sweep"] = [at |-> "key", snap |-> meta]]
    BY <1>26, <1>0, KnownIsMetadata, JobHasMeta DEF SweepPrecise, Listed, At, MeetingInv
  <2>2. TRUE
    BY <1>26, <2>1 DEF SweepPrecise, Waits
  <2>3. Moved("sweep")
    BY <2>1, <2>2, ViewIsMove DEF Places
  <2>4. UNCHANGED <<posted, excused>> /\ UNCHANGED meta /\ ("precise" \in docs => "precise" \in docs')
    BY <1>26 DEF SweepPrecise, Rest, History
  <2>5. QED BY <2>1, <2>3, <2>4, <1>0 DEF GoesOn, Writes
<1>27. CASE AutoList
  <2>1. /\ "auto" \in Jobs /\ meta \in Metadata
        /\ job' = [job EXCEPT !["auto"] = [at |-> "listed", snap |-> meta]]
    BY <1>27, <1>0, KnownIsMetadata, JobHasMeta DEF AutoList, Listed, At, MeetingInv
  <2>2. ~meta.asked
    BY <1>27, <2>1 DEF AutoList, Waits
  <2>3. Moved("auto")
    BY <2>1, <2>2, ViewIsMove DEF Places
  <2>4. UNCHANGED <<posted, excused>> /\ UNCHANGED meta /\ ("precise" \in docs => "precise" \in docs')
    BY <1>27 DEF AutoList, Rest, History
  <2>5. QED BY <2>1, <2>3, <2>4, <1>0 DEF GoesOn, Writes
<1>28. CASE Label
  <2>1. /\ "label" \in Jobs /\ meta \in Metadata
        /\ job' = [job EXCEPT !["label"] = [at |-> (IF meta.asked THEN "renaming" ELSE "asking"), snap |-> meta]]
    BY <1>28, <1>0, KnownIsMetadata, JobHasMeta DEF Label, Listed, At, MeetingInv
  <2>2. TRUE
    BY <1>28, <2>1 DEF Label, Waits
  <2>3. Moved("label")
    BY <2>1, <2>2, ViewIsMove DEF Places
  <2>4. UNCHANGED <<posted, excused>> /\ Writes("precise", meta.asked) /\ ("precise" \in docs => "precise" \in docs')
    BY <1>28, DocWrites DEF Label, Rest, History
  <2>5. QED BY <2>1, <2>3, <2>4, <1>0 DEF GoesOn, Writes
<1>29. CASE SweepLive
  <2>1. Writes("live", meta.asked) /\ "sweep" \in Jobs /\ meta \in Metadata
    BY <1>29, <1>0, DocWrites DEF Writes
  <2>2. Moved("sweep")
    <3>1. CASE meta.asked
      BY <1>29, <3>1, <2>1, EndsIsMove DEF SweepLive, Ends
    <3>2. CASE ~meta.asked
      BY <1>29, <3>2, <2>1, ViewIsMove DEF SweepLive, Places
    <3>3. QED BY <3>1, <3>2
  <2>3. UNCHANGED <<posted, excused>> /\ ("precise" \in docs => "precise" \in docs')
    BY <1>29 DEF SweepLive, Rest, History
  <2>4. QED BY <2>1, <2>2, <2>3, <1>0 DEF GoesOn
<1>30. CASE SweepGivesUp
  <2>1. "sweep" \in Jobs /\ Ends("sweep")
    BY <1>30, <1>0 DEF SweepGivesUp
  <2>2. Moved("sweep")
    BY <2>1, EndsIsMove
  <2>3. UNCHANGED <<posted, excused, docs>> /\ Writes(meta.doc, meta.asked)
    BY <1>30, <2>1, PlainWrites, <1>0 DEF SweepGivesUp, Rest, History
  <2>4. QED BY <2>1, <2>2, <2>3, <1>0 DEF GoesOn, Writes
<1>31. CASE SweepRest
  <2>1. "sweep" \in Jobs /\ Ends("sweep")
    BY <1>31, <1>0 DEF SweepRest
  <2>2. Moved("sweep")
    BY <2>1, EndsIsMove
  <2>3. UNCHANGED <<posted, excused, docs>> /\ UNCHANGED meta
    BY <1>31, <2>1, <1>0 DEF SweepRest, Rest, History
  <2>4. QED BY <2>1, <2>2, <2>3, <1>0 DEF GoesOn, Writes
<1>32. CASE AutoJudge
  <2>1. job["auto"].at = "listed" /\ Goes("auto", "asking") /\ "auto" \in Jobs
    BY <1>32, <1>0 DEF AutoJudge, Listed, At
  <2>2. ~job["auto"].snap.asked
    BY <2>1 DEF MeetingInv, JobsKnow, JobKnows
  <2>3. Moved("auto")
    BY <2>1, <2>2, GoesIsMove DEF Places
  <2>4. UNCHANGED <<posted, excused, docs, meta>>
    BY <1>32 DEF AutoJudge, History
  <2>5. QED BY <2>1, <2>3, <2>4 DEF GoesOn
<1>33. CASE PortalDies
  <2>1. PICK taken \in SUBSET {j \in Jobs : At(j, "asking")} :
          /\ posted' = posted + Cardinality(taken)
          /\ excused' = (excused \/ taken # {} \/ (meta' = Torn /\ posted > 0))
    BY <1>33 DEF PortalDies
  <2>2. Cardinality(taken) \in Nat /\ (taken = {} => Cardinality(taken) = 0)
    BY TakenCounted
  <2>3. /\ job' = [j \in Jobs |-> Idle] /\ docs' = docs /\ meta' \in {meta, Torn}
        /\ posted \in Nat /\ excused \in BOOLEAN
    BY <1>33 DEF PortalDies, Dies, MeetingInv, MeetingTypeOK
  <2>4. /\ excused' \in BOOLEAN /\ (excused => excused') /\ (taken # {} => excused')
        /\ meta' = Torn /\ posted > 0 => excused'
    BY <2>1
  <2>5. posted' \in Nat /\ (taken = {} => posted' = posted)
    BY <2>1, <2>2, <2>3
  <2>6. Dead
    BY <2>3, <2>4, <2>5 DEF Dead
  <2>7. QED BY <2>6
<1>34. CASE Age
  BY <1>34, AskWrites, <1>0 DEF Age, GoesOn, Writes, History
<1> HIDE DEF Kind
<1>35. QED
  BY <1>1, <1>2, <1>3, <1>4, <1>5, <1>6, <1>7, <1>8, <1>9, <1>10, <1>11, <1>12,
     <1>13, <1>14, <1>15, <1>16, <1>17, <1>18, <1>19, <1>20, <1>21, <1>22,
     <1>23, <1>24, <1>25, <1>26, <1>27, <1>28, <1>29, <1>30, <1>31, <1>32,
     <1>33, <1>34
     DEF MeetingNext, Browser, ProcessStep, AskStep, SweepStep

\* What the jobs see has its types.
LEMMA ViewTypeStep ==
    ASSUME MeetingInv, [MeetingNext]_meetingVars
    PROVE  /\ job' \in [Jobs -> [at : Places, snap : Metadata \cup {NoFile}]]
           /\ meta' \in Metadata \cup {NoFile, Torn} /\ posted' \in Nat /\ excused' \in BOOLEAN
<1>1. /\ job \in [Jobs -> [at : Places, snap : Metadata \cup {NoFile}]]
      /\ meta \in Metadata \cup {NoFile, Torn} /\ posted \in Nat /\ excused \in BOOLEAN
  BY DEF MeetingInv, MeetingTypeOK
<1>2. Idle \in [at : Places, snap : Metadata \cup {NoFile}]
  BY DEF Idle, Places
<1>3. \A j \in Jobs : New(j) \in Nat
  BY DEF New
<1>4. CASE GoesOn
  <2>1. job' \in [Jobs -> [at : Places, snap : Metadata \cup {NoFile}]]
    <3>1. CASE \E j \in Jobs : Moved(j)
      <4>1. PICK j \in Jobs, w \in Places, s \in Metadata \cup {NoFile} :
              job' = [job EXCEPT ![j] = [at |-> w, snap |-> s]]
        BY <3>1 DEF Moved
      <4>2. QED BY <1>1, <4>1
    <3>2. QED BY <1>1, <1>4, <3>1 DEF GoesOn
  <2>2. QED BY <1>1, <1>4, <2>1 DEF GoesOn, Writes
<1>5. CASE Begins
  <2>1. PICK j \in Jobs, w \in {"key", "asking"} : job' = [job EXCEPT ![j] = [at |-> w, snap |-> meta']]
    BY <1>5 DEF Begins
  <2>2. QED BY <1>1, <1>5, <2>1 DEF Begins, Places
<1>6. CASE Dead
  BY <1>1, <1>2, <1>6 DEF Dead
<1>7. ASSUME NEW j \in Jobs, Heard(j) PROVE
        /\ job' \in [Jobs -> [at : Places, snap : Metadata \cup {NoFile}]]
        /\ meta' \in Metadata \cup {NoFile, Torn} /\ posted' \in Nat /\ excused' \in BOOLEAN
  BY <1>1, <1>2, <1>3, <1>7 DEF Heard, Writes
<1>8. ASSUME NEW j \in Jobs, NotHeard(j) PROVE
        /\ job' \in [Jobs -> [at : Places, snap : Metadata \cup {NoFile}]]
        /\ meta' \in Metadata \cup {NoFile, Torn} /\ posted' \in Nat /\ excused' \in BOOLEAN
  <2>1. posted' \in Nat /\ excused' \in BOOLEAN
    <3>1. CASE UNCHANGED <<posted, excused>>
      BY <1>1, <3>1
    <3>2. CASE posted' = posted + New(j) /\ excused' = (excused \/ New(j) = 1)
      BY <1>1, <1>3, <3>2
    <3>3. QED BY <1>8, <3>1, <3>2 DEF NotHeard
  <2>2. job' = [job EXCEPT ![j] = Idle] /\ (UNCHANGED meta \/ Writes(meta.doc, meta.asked))
    BY <1>8 DEF NotHeard
  <2>3. QED BY <1>1, <1>2, <2>1, <2>2 DEF Writes
<1>9. CASE UNCHANGED meetingVars
  BY <1>1, <1>9 DEF meetingVars
<1>10. QED BY <1>4, <1>5, <1>6, <1>7, <1>8, <1>9, StepKinds

\* What a job counts on stays.
LEMMA JobsStep == MeetingInv /\ [MeetingNext]_meetingVars => JobsKnow'
<1> SUFFICES ASSUME MeetingInv, [MeetingNext]_meetingVars, NEW k \in Jobs PROVE JobKnows(k)'
  BY DEF JobsKnow
<1>1. /\ job \in [Jobs -> [at : Places, snap : Metadata \cup {NoFile}]]
      /\ \A j \in Jobs : JobKnows(j)
      /\ (Known <=> meta \in Metadata) /\ (meta' \in Metadata => Known')
  BY KnownIsMetadata, MeetingConstants DEF MeetingInv, MeetingTypeOK, JobsKnow, Known
<1>2. CASE GoesOn
  <2>1. CASE UNCHANGED job
    BY <1>1, <1>2, <2>1 DEF GoesOn, JobKnows, Writes
  <2>2. ASSUME NEW j \in Jobs, Moved(j) PROVE JobKnows(k)'
    <3>1. PICK w \in Places, s \in Metadata \cup {NoFile} :
            /\ job' = [job EXCEPT ![j] = [at |-> w, snap |-> s]]
            /\ w # "idle" => s \in Metadata /\ meta \in Metadata
            /\ w = "asking" \/ (j = "auto" /\ w = "listed") => ~s.asked
            /\ w \in {"noting", "dropping"} => "precise" \in docs'
      BY <2>2 DEF Moved
    <3>2. meta \in Metadata => Known'
      BY <1>1, <1>2 DEF GoesOn, Writes
    <3>3. CASE k = j
      BY <1>1, <3>1, <3>2, <3>3, MeetingConstants DEF JobKnows
    <3>4. CASE k # j
      BY <1>1, <1>2, <3>1, <3>2, <3>4 DEF JobKnows, GoesOn
    <3>5. QED BY <3>3, <3>4
  <2>3. QED BY <1>2, <2>1, <2>2 DEF GoesOn
<1>3. CASE Begins
  <2>1. PICK j \in Jobs \ {"auto"}, w \in {"key", "asking"} :
          job' = [job EXCEPT ![j] = [at |-> w, snap |-> meta']]
    BY <1>3 DEF Begins
  <2>2. job[k].at = "idle"
    BY <1>1, <1>3 DEF Begins, JobKnows
  <2>3. QED BY <1>1, <1>3, <2>1, <2>2, MeetingConstants DEF Begins, JobKnows
<1>4. CASE Dead
  BY <1>4 DEF Dead, JobKnows, Idle
<1>5. ASSUME NEW j \in Jobs, Heard(j) \/ NotHeard(j) PROVE JobKnows(k)'
  <2>1. /\ job' = [job EXCEPT ![j] = Idle] /\ docs' = docs /\ job[j].at # "idle"
        /\ UNCHANGED meta \/ meta' \in Metadata
    BY <1>5 DEF Heard, NotHeard, Writes, Asks
  <2>2. Known'
    BY <1>1, <2>1 DEF JobKnows, Known
  <2>3. CASE k = j
    BY <1>1, <2>1, <2>3 DEF JobKnows, Idle
  <2>4. CASE k # j
    BY <1>1, <2>1, <2>2, <2>4 DEF JobKnows
  <2>5. QED BY <2>3, <2>4
<1>6. CASE UNCHANGED meetingVars
  BY <1>1, <1>6 DEF meetingVars, JobKnows, Known
<1>7. QED BY <1>2, <1>3, <1>4, <1>5, <1>6, StepKinds

\* The agent is asked once.
LEMMA AskedStep == MeetingInv /\ [MeetingNext]_meetingVars => (AskedIsSeen /\ AskedOnce)'
<1> SUFFICES ASSUME MeetingInv, [MeetingNext]_meetingVars PROVE (AskedIsSeen /\ AskedOnce)'
  OBVIOUS
<1>1. /\ job \in [Jobs -> [at : Places, snap : Metadata \cup {NoFile}]] /\ posted \in Nat
      /\ AskedIsSeen /\ AskedOnce /\ \A j \in Jobs : JobKnows(j)
      /\ (Known <=> meta \in Metadata) /\ (meta' \in Metadata => Known') /\ excused \in BOOLEAN
  BY KnownIsMetadata, MeetingConstants DEF MeetingInv, MeetingTypeOK, JobsKnow, Known
<1>2. CASE GoesOn
  <2>1. UNCHANGED <<posted, excused>>
    BY <1>2 DEF GoesOn
  <2>2. AskedOnce'
    BY <1>1, <2>1 DEF AskedOnce
  <2>3. ASSUME posted > 0, ~excused PROVE Known' /\ meta'.asked
    BY <1>1, <1>2, <2>3 DEF GoesOn, AskedIsSeen, Writes, Known
  <2>4. ASSUME posted > 0, ~excused, NEW k \in Jobs, job'[k].at # "idle" PROVE job'[k].snap.asked
    <3>1. CASE UNCHANGED job
      BY <1>1, <2>4, <3>1 DEF AskedIsSeen
    <3>2. ASSUME NEW j \in Jobs, Moved(j) PROVE job'[k].snap.asked
      <4>1. PICK w \in Places, s \in Metadata \cup {NoFile} :
              /\ job' = [job EXCEPT ![j] = [at |-> w, snap |-> s]]
              /\ w # "idle" => s = meta \/ (s = job[j].snap /\ job[j].at # "idle")
        BY <3>2 DEF Moved
      <4>2. CASE k = j
        BY <1>1, <2>4, <4>1, <4>2 DEF AskedIsSeen
      <4>3. CASE k # j
        BY <1>1, <2>4, <4>1, <4>3 DEF AskedIsSeen
      <4>4. QED BY <4>2, <4>3
    <3>3. QED BY <1>2, <3>1, <3>2 DEF GoesOn
  <2>5. QED BY <2>1, <2>2, <2>3, <2>4 DEF AskedIsSeen
<1>3. CASE Begins
  <2>1. posted' = posted /\ excused' = excused /\ ~(posted > 0 /\ ~excused)
    BY <1>1, <1>3 DEF Begins, AskedIsSeen
  <2>2. QED BY <1>1, <2>1 DEF AskedIsSeen, AskedOnce
<1>4. CASE Dead
  <2>1. ASSUME posted' > 0, ~excused' PROVE Known' /\ meta'.asked /\ posted' = posted /\ ~excused
    BY <1>1, <1>4, <2>1 DEF Dead, AskedIsSeen, Known
  <2>2. \A k \in Jobs : job'[k].at = "idle"
    BY <1>4 DEF Dead, Idle
  <2>3. posted' > 1 => posted' > 0
    BY <1>1, <1>4 DEF Dead
  <2>4. QED BY <1>1, <2>1, <2>2, <2>3 DEF AskedIsSeen, AskedOnce
<1>5. ASSUME NEW j \in Jobs, Heard(j) PROVE (AskedIsSeen /\ AskedOnce)'
  <2>1. Known' /\ meta'.asked
    BY <1>1, <1>5 DEF Heard, Writes
  <2>2. job' = [job EXCEPT ![j] = Idle]
    BY <1>5 DEF Heard
  <2>3. CASE job[j].at = "asking"
    <3>1. posted' = posted + 1 /\ excused' = (excused \/ Behind(j))
      BY <1>5, <2>3 DEF Heard, New, At
    <3>2. ~(posted > 0 /\ ~excused)
      BY <1>1, <2>3 DEF AskedIsSeen, JobKnows
    <3>3. ASSUME ~excused', NEW k \in Jobs, job'[k].at # "idle" PROVE job'[k].snap.asked
      <4>1. k # j
        BY <1>1, <2>2, <3>3 DEF Idle
      <4>2. job'[k] = job[k] /\ job[k].snap # NoFile
        BY <1>1, <2>2, <3>3, <4>1 DEF JobKnows
      <4>3. ~Behind(j)
        BY <3>1, <3>3
      <4>4. QED BY <3>3, <4>1, <4>2, <4>3 DEF Behind
    <3>4. QED BY <1>1, <2>1, <3>1, <3>2, <3>3 DEF AskedIsSeen, AskedOnce
  <2>4. CASE job[j].at # "asking"
    <3>1. posted' = posted /\ excused' = excused
      BY <1>1, <1>5, <2>4 DEF Heard, New, At
    <3>2. ASSUME posted > 0, ~excused, NEW k \in Jobs, job'[k].at # "idle" PROVE job'[k].snap.asked
      BY <1>1, <2>2, <3>2 DEF AskedIsSeen, Idle
    <3>3. QED BY <1>1, <2>1, <3>1, <3>2 DEF AskedIsSeen, AskedOnce
  <2>5. QED BY <2>3, <2>4
<1>6. ASSUME NEW j \in Jobs, NotHeard(j) PROVE (AskedIsSeen /\ AskedOnce)'
  <2>1. /\ job' = [job EXCEPT ![j] = Idle]
        /\ (posted' = posted /\ excused' = excused) \/ excused'
    <3>1. CASE New(j) = 1
      BY <1>1, <1>6, <3>1 DEF NotHeard
    <3>2. CASE New(j) = 0
      BY <1>1, <1>6, <3>2 DEF NotHeard
    <3>3. QED BY <3>1, <3>2 DEF New
  <2>2. CASE excused'
    BY <2>2 DEF AskedIsSeen, AskedOnce
  <2>3. CASE posted' = posted /\ excused' = excused
    <3>1. ASSUME posted > 0, ~excused PROVE Known' /\ meta'.asked
      BY <1>1, <1>6, <3>1 DEF NotHeard, AskedIsSeen, Writes, Known
    <3>2. ASSUME posted > 0, ~excused, NEW k \in Jobs, job'[k].at # "idle" PROVE job'[k].snap.asked
      BY <1>1, <2>1, <3>2 DEF AskedIsSeen, Idle
    <3>3. QED BY <1>1, <2>3, <3>1, <3>2 DEF AskedIsSeen, AskedOnce
  <2>4. QED BY <2>1, <2>2, <2>3
<1>7. CASE UNCHANGED meetingVars
  BY <1>1, <1>7 DEF meetingVars, AskedIsSeen, AskedOnce, Known
<1>8. QED BY <1>2, <1>3, <1>4, <1>5, <1>6, <1>7, StepKinds

-----------------------------------------------------------------------------
(* The browser and the pieces.                                              *)

Client ==
    [way : {"audio", "live"}, at : 0 .. Last, knows : {"nothing", "waiting", "told"},
     captions : BOOLEAN, dir : BOOLEAN, sized : BOOLEAN, named : BOOLEAN]

SourceTypes ==
    /\ client \in Client /\ part \in Seq(Nat) \cup {NoFile} /\ upto \in 0 .. Chunks
    /\ audio \in Seq(Nat) \cup {NoFile} /\ running \in Jobs \cup {NoJob}
    /\ {stored, late, old} \subseteq BOOLEAN /\ faults \in 0 .. MaxFaults

\* The types in two halves.
LEMMA TypesSplit ==
    MeetingTypeOK <=>
        /\ SourceTypes /\ docs \subseteq Transcripts
        /\ job \in [Jobs -> [at : Places, snap : Metadata \cup {NoFile}]]
        /\ meta \in Metadata \cup {NoFile, Torn} /\ posted \in Nat /\ excused \in BOOLEAN
BY DEF MeetingTypeOK, SourceTypes, Client

\* What the browser may become.
LEMMA ClientSteps ==
    ASSUME client \in Client
    PROVE  /\ Told \in Client /\ Told.at = client.at /\ Told.way = client.way /\ Told.knows = "told"
           /\ Told.sized = client.sized
           /\ \A i \in 0 .. Last :
                 /\ Send(i) \in Client /\ Send(i).at = i
                 /\ Send(i).way = client.way /\ Send(i).knows = client.knows /\ Send(i).sized = client.sized
           /\ [client EXCEPT !.knows = "waiting"] \in Client
           /\ [client EXCEPT !.knows = "waiting"].sized = client.sized
           /\ [client EXCEPT !.knows = "nothing"] \in Client
           /\ [client EXCEPT !.knows = "nothing"].sized = client.sized
           /\ [client EXCEPT !.way = "audio"] \in Client
           /\ [client EXCEPT !.way = "audio"].sized = client.sized
           /\ [client EXCEPT !.named = TRUE] \in Client
           /\ [client EXCEPT !.named = TRUE].sized = client.sized
BY DEF Client, Told, Send

\* A piece is put behind the others.
LEMMA AppendedPieces ==
    ASSUME SourceTypes, client.at = 0 \/ part # NoFile
    PROVE  /\ Appended \in Seq(Nat)
           /\ client.at = 0 => Appended = <<0>>
           /\ client.at # 0 =>
                /\ part \in Seq(Nat) /\ Len(Appended) = Len(part) + 1
                /\ \A i \in 1 .. Len(part) : Appended[i] = part[i]
                /\ Appended[Len(part) + 1] = client.at
<1>1. client.at \in Nat
  BY MeetingConstants DEF SourceTypes, Client
<1>2. CASE client.at = 0
  BY <1>2 DEF Appended
<1>3. CASE client.at # 0
  <2>1. part \in Seq(Nat) /\ Appended = Append(part, client.at)
    BY <1>3 DEF SourceTypes, Appended
  <2>2. QED BY <1>1, <1>3, <2>1
<1>4. QED BY <1>2, <1>3

\* What is put together stays in order.
LEMMA PutInOrder ==
    ASSUME SourceTypes, PiecesInOrder, Fits
    PROVE  /\ Appended \in Seq(Nat) /\ Len(Appended) >= client.at + 1
           /\ Len(Appended) = client.at + 1 => \A i \in 1 .. client.at + 1 : Appended[i] = i - 1
           /\ client.at \in 0 .. Last /\ upto \in Nat /\ upto <= client.at + 1
           /\ client.at # 0 => upto = client.at
<1>1. client.at \in 0 .. Last /\ upto \in Nat /\ upto <= client.at + 1
  BY MeetingConstants DEF SourceTypes, Client, PiecesInOrder
<1>2. CASE client.at = 0
  <2>1. Appended = <<0>>
    BY <1>2, AppendedPieces
  <2>2. QED BY <1>1, <1>2, <2>1
<1>3. CASE client.at # 0
  <2>1. client.at = upto /\ part # NoFile
    BY <1>3 DEF Fits
  <2>2. /\ Appended \in Seq(Nat) /\ part \in Seq(Nat) /\ Len(Appended) = Len(part) + 1
        /\ \A i \in 1 .. Len(part) : Appended[i] = part[i]
        /\ Appended[Len(part) + 1] = client.at
    BY <1>3, <2>1, AppendedPieces
  <2>3. /\ Len(part) >= upto
        /\ Len(part) = upto => \A i \in 1 .. upto : part[i] = i - 1
    BY <2>1 DEF PiecesInOrder
  <2>4. Len(part) \in Nat
    BY <2>2
  <2>5. ASSUME Len(Appended) = client.at + 1, NEW i \in 1 .. client.at + 1 PROVE Appended[i] = i - 1
    <3>1. Len(part) = upto /\ upto = client.at
      BY <1>1, <2>1, <2>2, <2>4, <2>5
    <3>2. CASE i = client.at + 1
      BY <1>1, <2>2, <3>1, <3>2
    <3>3. CASE i \in 1 .. upto
      BY <2>2, <2>3, <3>1, <3>3
    <3>4. QED BY <1>1, <2>5, <3>1, <3>2, <3>3
  <2>6. QED BY <1>1, <2>1, <2>2, <2>3, <2>4, <2>5
<1>4. QED BY <1>2, <1>3

\* The browser, the pieces and the marks keep their types.
LEMMA SourceTypeStep == MeetingInv /\ [MeetingNext]_meetingVars => SourceTypes'
<1> SUFFICES ASSUME MeetingInv, [MeetingNext]_meetingVars PROVE SourceTypes'
  OBVIOUS
<1>0. /\ SourceTypes /\ client \in Client /\ Process \subseteq Jobs
      /\ {"upload", "live", "sweep", "auto", "label"} \subseteq Jobs
  BY TypesSplit DEF MeetingInv, SourceTypes, Process, Jobs
<1>S. /\ Told \in Client /\ Told.at = client.at /\ Told.way = client.way /\ Told.knows = "told"
      /\ Told.sized = client.sized
      /\ \A i \in 0 .. Last :
            /\ Send(i) \in Client /\ Send(i).at = i
            /\ Send(i).way = client.way /\ Send(i).knows = client.knows /\ Send(i).sized = client.sized
      /\ [client EXCEPT !.knows = "waiting"] \in Client
      /\ [client EXCEPT !.knows = "waiting"].sized = client.sized
      /\ [client EXCEPT !.knows = "nothing"] \in Client
      /\ [client EXCEPT !.knows = "nothing"].sized = client.sized
      /\ [client EXCEPT !.way = "audio"] \in Client
      /\ [client EXCEPT !.way = "audio"].sized = client.sized
      /\ [client EXCEPT !.named = TRUE] \in Client
      /\ [client EXCEPT !.named = TRUE].sized = client.sized
  BY <1>0, ClientSteps
<1> USE MeetingConstants, <1>0, <1>S
<1>1. CASE Already
  <2>1. client' \in Client /\ faults' \in 0 .. MaxFaults
    BY <1>1 DEF Already, Answered, Sound, Faulty, SourceTypes, Client
  <2>2. QED BY <1>1, <2>1 DEF Already, History, SourceTypes
<1>2. CASE Duplicate
  <2>1. client' \in Client /\ faults' \in 0 .. MaxFaults
    BY <1>2 DEF Duplicate, Answered, Sound, Faulty, SourceTypes, Onward, Client
  <2>2. QED BY <1>2, <2>1 DEF Duplicate, History, SourceTypes
<1>3. CASE OutOfOrder
  <2>1. client' \in Client /\ faults' \in 0 .. MaxFaults
    BY <1>3 DEF OutOfOrder, Answered, Sound, Faulty, SourceTypes, Client
  <2>2. QED BY <1>3, <2>1 DEF OutOfOrder, History, SourceTypes
<1>4. CASE TakeChunk
  <2>1. client' \in Client /\ faults' \in 0 .. MaxFaults
    <3>1. client.at + 1 \in 0 .. Last
      BY <1>4 DEF TakeChunk, SourceTypes, Client
    <3>2. client' = Send(client.at + 1) \/ client' = client
      BY <1>4 DEF TakeChunk, Answered
    <3>3. faults' \in 0 .. MaxFaults
      BY <1>4 DEF TakeChunk, Answered, Sound, Faulty, SourceTypes
    <3>4. QED BY <3>1, <3>2, <3>3 DEF SourceTypes
  <2>2. Appended \in Seq(Nat) /\ client.at + 1 \in 0 .. Chunks
    BY SMTT(30), <1>4, AppendedPieces DEF TakeChunk, Fits, SourceTypes, Client
  <2>3. QED BY <1>4, <2>1, <2>2 DEF TakeChunk, History, SourceTypes
<1>5. CASE WrongSize
  <2>1. 0 \in 0 .. Last
    OBVIOUS
  <2>2. client' \in Client /\ faults' \in 0 .. MaxFaults
    BY <1>5, <2>1 DEF WrongSize, Answered, Sound, Faulty, SourceTypes
  <2>3. QED BY <1>5, <2>2 DEF WrongSize, History, SourceTypes
<1>6. CASE TakeLast
  <2>1. client' \in Client /\ faults' \in 0 .. MaxFaults
    BY <1>6 DEF TakeLast, Answered, Sound, Faulty, SourceTypes, Client
  <2>2. Appended \in Seq(Nat)
    BY <1>6, AppendedPieces DEF TakeLast, Fits
  <2>3. QED BY <1>6, <2>1, <2>2 DEF TakeLast, History, SourceTypes
<1>7. CASE Captions
  BY <1>7 DEF Captions, Sound, SourceTypes, History
<1>8. CASE CaptionsFail
  BY <1>8 DEF CaptionsFail, Faulty, SourceTypes, History
<1>9. CASE CaptionsAgain
  BY <1>9 DEF CaptionsAgain, Sound, SourceTypes, History
<1>10. CASE TakeCut
  <2>1. Appended \in Seq(Nat) /\ client.at + 1 \in 0 .. Chunks /\ Chunks \in 0 .. Chunks
    BY SMTT(30), <1>10, AppendedPieces DEF TakeCut, Fits, SourceTypes, Client
  <2>2. faults' \in 0 .. MaxFaults /\ running' = NoJob /\ client' = client
    BY <1>10 DEF TakeCut, Dies, Faulty, SourceTypes
  <2>3. part' \in Seq(Nat) \cup {NoFile} /\ upto' \in 0 .. Chunks /\ audio' \in Seq(Nat) \cup {NoFile}
        /\ late' \in BOOLEAN /\ UNCHANGED <<stored, old>>
    BY <1>10, <2>1 DEF TakeCut, SourceTypes
  <2>4. QED BY <2>2, <2>3 DEF SourceTypes
<1>11. CASE CaptionsCut
  BY <1>11 DEF CaptionsCut, Dies, Faulty, SourceTypes, History
<1>12. CASE CleanParts
  BY <1>12 DEF CleanParts, Faulty, SourceTypes, History
<1>13. ASSUME NEW j \in Process, GotKey(j) PROVE SourceTypes'
  BY <1>13 DEF GotKey, Sound, Rest, SourceTypes, History
<1>14. ASSUME NEW j \in Process, NoKey(j) PROVE SourceTypes'
  BY <1>14 DEF NoKey, Faulty, Rest, SourceTypes, History
<1>15. ASSUME NEW j \in Process, Sent(j) PROVE SourceTypes'
  BY <1>15 DEF Sent, Sound, Rest, SourceTypes, History
<1>16. ASSUME NEW j \in Process, Nowhere(j) PROVE SourceTypes'
  BY <1>16 DEF Nowhere, Sound, Rest, SourceTypes, History
<1>17. ASSUME NEW j \in Process, WriteDoc(j) PROVE SourceTypes'
  BY <1>17 DEF WriteDoc, Sound, SourceTypes, History
<1>18. ASSUME NEW j \in Process, NoteDoc(j) PROVE SourceTypes'
  BY <1>18 DEF NoteDoc, Sound, SourceTypes, History
<1>19. ASSUME NEW j \in Process, DropAudio(j) PROVE SourceTypes'
  BY <1>19 DEF DropAudio, Sound, SourceTypes, History
<1>20. ASSUME NEW j \in Process, Throws(j) PROVE SourceTypes'
  <2>1. UNCHANGED <<client, part, upto, audio, running, stored, late, old>>
    BY <1>20 DEF Throws, Rescue, Rest, History
  <2>2. faults' \in 0 .. MaxFaults
    BY <1>20 DEF Throws, Sound, Faulty, SourceTypes
  <2>3. QED BY <2>1, <2>2 DEF SourceTypes
<1>21. ASSUME NEW j \in Jobs, AskHeard(j) PROVE SourceTypes'
  BY <1>21 DEF AskHeard, Listener, Sound, SourceTypes, History
<1>22. ASSUME NEW j \in Jobs, AskFails(j) PROVE SourceTypes'
  BY <1>22 DEF AskFails, Listener, Faulty, SourceTypes, History
<1>23. CASE SweepList
  BY <1>23 DEF SweepList, Sound, SourceTypes, History
<1>24. CASE SweepPrecise
  BY <1>24 DEF SweepPrecise, Listed, Sound, SourceTypes, History
<1>25. CASE SweepLive
  BY <1>25 DEF SweepLive, Listed, Sound, Rest, SourceTypes, History
<1>26. CASE SweepFallBack
  BY <1>26 DEF SweepFallBack, Listed, Sound, Rescue, Rest, SourceTypes, History
<1>27. CASE SweepGivesUp
  BY <1>27 DEF SweepGivesUp, Listed, Sound, Rest, SourceTypes, History
<1>28. CASE SweepRest
  BY <1>28 DEF SweepRest, Listed, Sound, SourceTypes, History
<1>29. CASE AutoList
  BY <1>29 DEF AutoList, Sound, SourceTypes, History
<1>30. CASE AutoJudge
  BY <1>30 DEF AutoJudge, Listed, Sound, SourceTypes, History
<1>31. CASE Label
  BY <1>31 DEF Label, Sound, SourceTypes, History
<1>32. CASE PortalDies
  BY <1>32 DEF PortalDies, Dies, Faulty, SourceTypes, History
<1>33. CASE Age
  BY <1>33 DEF Age, Sound, SourceTypes, History
<1>34. CASE GrowOld
  BY <1>34 DEF GrowOld, Sound, SourceTypes, History
<1>35. CASE UNCHANGED meetingVars
  BY <1>35 DEF meetingVars, SourceTypes
<1> HIDE MeetingConstants, <1>0, <1>S
<1>36. QED
  BY <1>1, <1>2, <1>3, <1>4, <1>5, <1>6, <1>7, <1>8, <1>9, <1>10, <1>11, <1>12,
     <1>13, <1>14, <1>15, <1>16, <1>17, <1>18, <1>19, <1>20, <1>21, <1>22,
     <1>23, <1>24, <1>25, <1>26, <1>27, <1>28, <1>29, <1>30, <1>31, <1>32,
     <1>33, <1>34, <1>35
     DEF MeetingNext, Browser, ProcessStep, AskStep, SweepStep

\* Metadata do not disappear.
LEMMA MetaStays ==
    ASSUME MeetingInv, [MeetingNext]_meetingVars, meta # NoFile
    PROVE  meta' # NoFile
<1>1. Metadata \cap {NoFile} = {} /\ Torn # NoFile
  BY MeetingConstants
<1>2. CASE UNCHANGED meetingVars
  BY <1>2 DEF meetingVars
<1>3. CASE MeetingNext
  BY <1>1, <1>3, StepKinds DEF GoesOn, Begins, Dead, Heard, NotHeard, Writes
<1>4. QED BY <1>2, <1>3

\* The pieces stay in order, and a recording is taken whole.
LEMMA PiecesStep == MeetingInv /\ [MeetingNext]_meetingVars => (PiecesInOrder /\ RecordingTaken)'
<1> SUFFICES ASSUME MeetingInv, [MeetingNext]_meetingVars PROVE (PiecesInOrder /\ RecordingTaken)'
  OBVIOUS
<1>0. /\ SourceTypes /\ client \in Client /\ Process \subseteq Jobs
      /\ {"upload", "live", "sweep", "auto", "label"} \subseteq Jobs
  BY TypesSplit DEF MeetingInv, SourceTypes, Process, Jobs
<1>P. PiecesInOrder /\ RecordingTaken
  BY DEF MeetingInv
<1>S. /\ Told \in Client /\ Told.at = client.at /\ Told.way = client.way /\ Told.knows = "told"
      /\ Told.sized = client.sized
      /\ \A i \in 0 .. Last :
            /\ Send(i) \in Client /\ Send(i).at = i
            /\ Send(i).way = client.way /\ Send(i).knows = client.knows /\ Send(i).sized = client.sized
      /\ [client EXCEPT !.knows = "waiting"] \in Client
      /\ [client EXCEPT !.knows = "waiting"].sized = client.sized
      /\ [client EXCEPT !.knows = "nothing"] \in Client
      /\ [client EXCEPT !.knows = "nothing"].sized = client.sized
      /\ [client EXCEPT !.way = "audio"] \in Client
      /\ [client EXCEPT !.way = "audio"].sized = client.sized
      /\ [client EXCEPT !.named = TRUE] \in Client
      /\ [client EXCEPT !.named = TRUE].sized = client.sized
  BY <1>0, ClientSteps
<1> USE MeetingConstants, <1>0, <1>P, <1>S
<1>1. CASE Already
  <2>1. client' = Told \/ client' = client
    BY <1>1 DEF Already, Answered
  <2>2. UNCHANGED <<part, upto, audio, meta, late>> /\ meta # NoFile
    BY <1>1 DEF Already, History, Known
  <2>3. QED BY <2>1, <2>2 DEF PiecesInOrder, RecordingTaken
<1>2. CASE Duplicate
  <2>1. CASE client.at = Last
    <3>1. late
      BY <1>2, <2>1 DEF Duplicate, PiecesInOrder, SourceTypes, Client
    <3>2. client' = Told \/ client' = client
      BY <1>2, <2>1 DEF Duplicate, Answered, Onward
    <3>3. QED BY <1>2, <3>1, <3>2 DEF Duplicate, PiecesInOrder, RecordingTaken, History, SourceTypes
  <2>2. CASE client.at # Last
    <3>1. client.at + 1 \in 0 .. Last /\ (client' = Send(client.at + 1) \/ client' = client)
      <4>1. client.at \in 0 .. Last
        BY DEF SourceTypes, Client
      <4>2. client' = Send(client.at + 1) \/ client' = client
        BY <1>2, <2>2 DEF Duplicate, Answered, Onward
      <4>3. QED BY <2>2, <4>1, <4>2
    <3>2. UNCHANGED <<part, upto, audio, meta, late>>
      BY <1>2 DEF Duplicate, History
    <3>3. QED BY <3>1, <3>2 DEF PiecesInOrder, RecordingTaken, SourceTypes, Client
  <2>3. QED BY <2>1, <2>2
<1>3. CASE OutOfOrder
  <2>1. CASE part # NoFile
    <3>0. upto \in Nat /\ client.at \in Nat
      BY DEF SourceTypes, Client
    <3>1. /\ UNCHANGED <<upto, audio, meta, late>> /\ part' \in {part, NoFile}
          /\ client' = Send(upto) \/ client' = client
          /\ client.at # upto /\ upto <= client.at
      <4>1. client.at # upto /\ upto <= client.at
        BY <1>3, <2>1, <3>0 DEF OutOfOrder, Fits
      <4>2. UNCHANGED <<upto, audio, meta, late>> /\ part' \in {part, NoFile}
        <5>1. CASE upto = 0
          BY <1>3, <2>1, <5>1 DEF OutOfOrder, History
        <5>2. CASE upto # 0
          BY <1>3, <2>1, <5>2 DEF OutOfOrder, History
        <5>3. QED BY <5>1, <5>2
      <4>3. client' = Send(upto) \/ client' = client
        BY <1>3, <2>1 DEF OutOfOrder, Answered
      <4>4. QED BY <4>1, <4>2, <4>3
    <3>2. upto \in 0 .. Last
      BY <3>1 DEF SourceTypes, Client
    <3>3. QED BY <3>1, <3>2 DEF PiecesInOrder, RecordingTaken, SourceTypes
  <2>2. CASE part = NoFile
    <3>1. /\ UNCHANGED <<audio, meta, late>> /\ (client' = Send(0) \/ client' = client)
          /\ part' = NoFile /\ upto' = 0
      BY <1>3, <2>2 DEF OutOfOrder, Answered, History
    <3>2. 0 \in 0 .. Last /\ client.at \in Nat
      BY DEF SourceTypes, Client
    <3>3. QED BY <3>1, <3>2 DEF PiecesInOrder, RecordingTaken
  <2>3. QED BY <2>1, <2>2
<1>4. CASE TakeChunk
  <2>1. /\ Appended \in Seq(Nat) /\ Len(Appended) >= client.at + 1
        /\ Len(Appended) = client.at + 1 => \A i \in 1 .. client.at + 1 : Appended[i] = i - 1
        /\ client.at \in 0 .. Last /\ upto \in Nat /\ upto <= client.at + 1
        /\ client.at # 0 => upto = client.at
    BY <1>4, PutInOrder DEF TakeChunk
  <2>2. /\ UNCHANGED <<audio, meta, late>> /\ part' = Appended /\ upto' = client.at + 1 /\ client.at < Last
        /\ client' = Send(client.at + 1) \/ client' = client
    BY <1>4 DEF TakeChunk, Answered, History
  <2>3. client.at + 1 \in 0 .. Last
    BY <2>1, <2>2
  <2>4. QED BY <2>1, <2>2, <2>3 DEF PiecesInOrder, RecordingTaken
<1>5. CASE WrongSize
  <2>1. UNCHANGED <<audio, meta, late>> /\ (client' = Send(0) \/ client' = client) /\ part' = NoFile /\ upto' = 0
    BY <1>5 DEF WrongSize, Answered, History
  <2>2. 0 \in 0 .. Last /\ client.at \in Nat
    BY DEF SourceTypes, Client
  <2>3. QED BY <2>1, <2>2 DEF PiecesInOrder, RecordingTaken
<1>6. CASE TakeLast
  <2>1. /\ Appended \in Seq(Nat) /\ Len(Appended) >= client.at + 1
        /\ Len(Appended) = client.at + 1 => \A i \in 1 .. client.at + 1 : Appended[i] = i - 1
        /\ client.at \in 0 .. Last /\ upto \in Nat /\ upto <= client.at + 1
        /\ client.at # 0 => upto = client.at
    BY <1>6, PutInOrder DEF TakeLast
  <2>2. ASSUME client.at = Last, SizeRight, client.sized PROVE Appended = Whole
    <3>1. Len(Appended) = Chunks /\ \A i \in 1 .. Chunks : Appended[i] = i - 1
      BY <2>1, <2>2 DEF SizeRight
    <3>2. QED BY <2>1, <3>1 DEF Whole
  <2>3. /\ audio' = Appended /\ part' = NoFile /\ upto' = 0 /\ client.at = Last /\ SizeRight /\ UNCHANGED late
        /\ client' = Told \/ client' = client
    BY <1>6 DEF TakeLast, Answered
  <2>4. meta' # NoFile
    BY <1>6, FirstMeta DEF TakeLast
  <2>5. QED BY <2>1, <2>2, <2>3, <2>4 DEF PiecesInOrder, RecordingTaken
<1>7. CASE Captions
  <2>1. /\ UNCHANGED <<part, upto, audio, late>> /\ client' = [client EXCEPT !.knows = "waiting"]
        /\ client.way = "live"
    BY <1>7 DEF Captions, History
  <2>2. client'.at = client.at /\ client'.way = "live" /\ client'.sized = client.sized
    BY <2>1 DEF Client
  <2>3. QED BY <2>1, <2>2 DEF PiecesInOrder, RecordingTaken
<1>8. CASE CaptionsFail
  <2>1. /\ UNCHANGED <<part, upto, audio, late>> /\ client' = [client EXCEPT !.way = "audio"]
        /\ client.knows = "nothing"
    BY <1>8 DEF CaptionsFail, History
  <2>2. client'.at = client.at /\ client'.knows = "nothing" /\ client'.sized = client.sized
    BY <2>1 DEF Client
  <2>3. QED BY <2>1, <2>2 DEF PiecesInOrder, RecordingTaken
<1>9. CASE CaptionsAgain
  <2>1. UNCHANGED <<part, upto, audio, late>> /\ client' = Told /\ client.way = "live"
    BY <1>9 DEF CaptionsAgain, History
  <2>2. QED BY <2>1 DEF PiecesInOrder, RecordingTaken
<1>10. CASE TakeCut
  <2>1. /\ Appended \in Seq(Nat) /\ Len(Appended) >= client.at + 1
        /\ Len(Appended) = client.at + 1 => \A i \in 1 .. client.at + 1 : Appended[i] = i - 1
        /\ client.at \in 0 .. Last /\ upto \in Nat /\ upto <= client.at + 1
        /\ client.at # 0 => upto = client.at
    BY <1>10, PutInOrder DEF TakeCut
  <2>2. ASSUME client.at = Last, SizeRight, client.sized PROVE Appended = Whole
    <3>1. Len(Appended) = Chunks /\ \A i \in 1 .. Chunks : Appended[i] = i - 1
      BY <2>1, <2>2 DEF SizeRight
    <3>2. QED BY <2>1, <3>1 DEF Whole
  <2>3. UNCHANGED <<client, meta>> /\ client.knows = "nothing"
    BY <1>10 DEF TakeCut, Sending
  <2>4. CASE part' = Appended /\ UNCHANGED <<upto, audio, late>>
    <3>1. upto' <= client'.at + 1 /\ Len(part') >= upto' /\ (upto' = Chunks => late')
      BY <2>1, <2>3, <2>4 DEF PiecesInOrder
    <3>2. ASSUME Len(part') = upto' PROVE \A i \in 1 .. upto' : part'[i] = i - 1
      <4>1. Len(Appended) = client.at + 1 /\ upto = client.at + 1
        BY <2>1, <2>4, <3>2
      <4>2. QED BY <2>1, <2>4, <4>1
    <3>3. QED BY <2>3, <2>4, <3>1, <3>2 DEF PiecesInOrder, RecordingTaken
  <2>5. CASE part' = Appended /\ upto' = client.at + 1 /\ (late' = (late \/ client.at = Last)) /\ UNCHANGED audio
    <3>1. upto' <= client'.at + 1 /\ Len(part') >= upto'
      BY <2>1, <2>3, <2>5
    <3>0. upto' = Chunks => late'
      <4>1. upto' = Chunks => client.at = Last
        BY <2>1, <2>5
      <4>2. QED BY <2>5, <4>1
    <3>2. Len(part') = upto' => \A i \in 1 .. upto' : part'[i] = i - 1
      BY <2>1, <2>5
    <3>3. QED BY <2>3, <2>5, <3>0, <3>1, <3>2 DEF PiecesInOrder, RecordingTaken
  <2>6. CASE client.at = Last /\ SizeRight /\ audio' = Appended /\ part' = NoFile /\ upto' = Chunks /\ late' = TRUE
    BY <2>1, <2>2, <2>3, <2>6 DEF PiecesInOrder, RecordingTaken
  <2>7. QED BY <1>10, <2>4, <2>5, <2>6 DEF TakeCut
<1>11. CASE CaptionsCut
  <2>1. UNCHANGED <<client, part, upto, audio, late>>
    BY <1>11 DEF CaptionsCut, History
  <2>2. QED BY <2>1, MetaStays DEF PiecesInOrder, RecordingTaken
<1>12. CASE CleanParts
  <2>1. UNCHANGED <<client, audio, meta, late>> /\ part' = NoFile /\ upto' = 0 /\ client.at \in Nat
    BY <1>12 DEF CleanParts, History, SourceTypes, Client
  <2>2. QED BY <2>1 DEF PiecesInOrder, RecordingTaken
<1>13. ASSUME NEW j \in Process, GotKey(j) PROVE (PiecesInOrder /\ RecordingTaken)'
  <2>1. /\ UNCHANGED <<part, upto, late>> /\ audio' \in {audio, NoFile}
        /\ client'.at = client.at /\ client'.way = client.way /\ client'.sized = client.sized
        /\ client'.knows = client.knows \/ (client.knows = "waiting" /\ client'.knows # "waiting")
    BY <1>13 DEF GotKey, History, Sound, Rest, Client
  <2>2. QED BY <2>1, MetaStays DEF PiecesInOrder, RecordingTaken
<1>14. ASSUME NEW j \in Process, NoKey(j) PROVE (PiecesInOrder /\ RecordingTaken)'
  <2>1. /\ UNCHANGED <<part, upto, late>> /\ audio' \in {audio, NoFile}
        /\ client'.at = client.at /\ client'.way = client.way /\ client'.sized = client.sized
        /\ client'.knows = client.knows \/ (client.knows = "waiting" /\ client'.knows # "waiting")
    BY <1>14 DEF NoKey, History, Faulty, Rest, Client
  <2>2. QED BY <2>1, MetaStays DEF PiecesInOrder, RecordingTaken
<1>15. ASSUME NEW j \in Process, Sent(j) PROVE (PiecesInOrder /\ RecordingTaken)'
  <2>1. /\ UNCHANGED <<part, upto, late>> /\ audio' \in {audio, NoFile}
        /\ client'.at = client.at /\ client'.way = client.way /\ client'.sized = client.sized
        /\ client'.knows = client.knows \/ (client.knows = "waiting" /\ client'.knows # "waiting")
    BY <1>15 DEF Sent, History, Sound, Rest, Client
  <2>2. QED BY <2>1, MetaStays DEF PiecesInOrder, RecordingTaken
<1>16. ASSUME NEW j \in Process, Nowhere(j) PROVE (PiecesInOrder /\ RecordingTaken)'
  <2>1. /\ UNCHANGED <<part, upto, late>> /\ audio' \in {audio, NoFile}
        /\ client'.at = client.at /\ client'.way = client.way /\ client'.sized = client.sized
        /\ client'.knows = client.knows \/ (client.knows = "waiting" /\ client'.knows # "waiting")
    BY <1>16 DEF Nowhere, History, Sound, Rest, Client
  <2>2. QED BY <2>1, MetaStays DEF PiecesInOrder, RecordingTaken
<1>17. ASSUME NEW j \in Process, WriteDoc(j) PROVE (PiecesInOrder /\ RecordingTaken)'
  <2>1. /\ UNCHANGED <<part, upto, late>> /\ audio' \in {audio, NoFile}
        /\ client'.at = client.at /\ client'.way = client.way /\ client'.sized = client.sized
        /\ client'.knows = client.knows \/ (client.knows = "waiting" /\ client'.knows # "waiting")
    BY <1>17 DEF WriteDoc, History, Sound, Client
  <2>2. QED BY <2>1, MetaStays DEF PiecesInOrder, RecordingTaken
<1>18. ASSUME NEW j \in Process, NoteDoc(j) PROVE (PiecesInOrder /\ RecordingTaken)'
  <2>1. /\ UNCHANGED <<part, upto, late>> /\ audio' \in {audio, NoFile}
        /\ client'.at = client.at /\ client'.way = client.way /\ client'.sized = client.sized
        /\ client'.knows = client.knows \/ (client.knows = "waiting" /\ client'.knows # "waiting")
    BY <1>18 DEF NoteDoc, History, Sound, Client
  <2>2. QED BY <2>1, MetaStays DEF PiecesInOrder, RecordingTaken
<1>19. ASSUME NEW j \in Process, DropAudio(j) PROVE (PiecesInOrder /\ RecordingTaken)'
  <2>1. /\ UNCHANGED <<part, upto, late>> /\ audio' \in {audio, NoFile}
        /\ client'.at = client.at /\ client'.way = client.way /\ client'.sized = client.sized
        /\ client'.knows = client.knows \/ (client.knows = "waiting" /\ client'.knows # "waiting")
    BY <1>19 DEF DropAudio, History, Sound, Client
  <2>2. QED BY <2>1, MetaStays DEF PiecesInOrder, RecordingTaken
<1>20. ASSUME NEW j \in Process, Throws(j) PROVE (PiecesInOrder /\ RecordingTaken)'
  <2>1. /\ UNCHANGED <<part, upto, late>> /\ audio' \in {audio, NoFile}
        /\ client'.at = client.at /\ client'.way = client.way /\ client'.sized = client.sized
        /\ client'.knows = client.knows \/ (client.knows = "waiting" /\ client'.knows # "waiting")
    BY <1>20 DEF Throws, History, Rescue, Rest, Sound, Faulty, Client
  <2>2. QED BY <2>1, MetaStays DEF PiecesInOrder, RecordingTaken
<1>21. ASSUME NEW j \in Jobs, AskHeard(j) PROVE (PiecesInOrder /\ RecordingTaken)'
  <2>1. /\ UNCHANGED <<part, upto, late>> /\ audio' \in {audio, NoFile}
        /\ client'.at = client.at /\ client'.way = client.way /\ client'.sized = client.sized
        /\ client'.knows = client.knows \/ (client.knows = "waiting" /\ client'.knows # "waiting")
    BY <1>21 DEF AskHeard, History, Listener, Client
  <2>2. QED BY <2>1, MetaStays DEF PiecesInOrder, RecordingTaken
<1>22. ASSUME NEW j \in Jobs, AskFails(j) PROVE (PiecesInOrder /\ RecordingTaken)'
  <2>1. /\ UNCHANGED <<part, upto, late>> /\ audio' \in {audio, NoFile}
        /\ client'.at = client.at /\ client'.way = client.way /\ client'.sized = client.sized
        /\ client'.knows = client.knows \/ (client.knows = "waiting" /\ client'.knows # "waiting")
    BY <1>22 DEF AskFails, History, Listener, Client
  <2>2. QED BY <2>1, MetaStays DEF PiecesInOrder, RecordingTaken
<1>23. CASE SweepList
  <2>1. /\ UNCHANGED <<part, upto, late>> /\ audio' \in {audio, NoFile}
        /\ client'.at = client.at /\ client'.way = client.way /\ client'.sized = client.sized
        /\ client'.knows = client.knows \/ (client.knows = "waiting" /\ client'.knows # "waiting")
    BY <1>23 DEF SweepList, History, Sound, Client
  <2>2. QED BY <2>1, MetaStays DEF PiecesInOrder, RecordingTaken
<1>24. CASE SweepPrecise
  <2>1. /\ UNCHANGED <<part, upto, late>> /\ audio' \in {audio, NoFile}
        /\ client'.at = client.at /\ client'.way = client.way /\ client'.sized = client.sized
        /\ client'.knows = client.knows \/ (client.knows = "waiting" /\ client'.knows # "waiting")
    BY <1>24 DEF SweepPrecise, History, Listed, Sound, Client
  <2>2. QED BY <2>1, MetaStays DEF PiecesInOrder, RecordingTaken
<1>25. CASE SweepLive
  <2>1. /\ UNCHANGED <<part, upto, late>> /\ audio' \in {audio, NoFile}
        /\ client'.at = client.at /\ client'.way = client.way /\ client'.sized = client.sized
        /\ client'.knows = client.knows \/ (client.knows = "waiting" /\ client'.knows # "waiting")
    BY <1>25 DEF SweepLive, History, Listed, Sound, Rest, Client
  <2>2. QED BY <2>1, MetaStays DEF PiecesInOrder, RecordingTaken
<1>26. CASE SweepFallBack
  <2>1. /\ UNCHANGED <<part, upto, late>> /\ audio' \in {audio, NoFile}
        /\ client'.at = client.at /\ client'.way = client.way /\ client'.sized = client.sized
        /\ client'.knows = client.knows \/ (client.knows = "waiting" /\ client'.knows # "waiting")
    BY <1>26 DEF SweepFallBack, History, Listed, Sound, Rescue, Rest, Client
  <2>2. QED BY <2>1, MetaStays DEF PiecesInOrder, RecordingTaken
<1>27. CASE SweepGivesUp
  <2>1. /\ UNCHANGED <<part, upto, late>> /\ audio' \in {audio, NoFile}
        /\ client'.at = client.at /\ client'.way = client.way /\ client'.sized = client.sized
        /\ client'.knows = client.knows \/ (client.knows = "waiting" /\ client'.knows # "waiting")
    BY <1>27 DEF SweepGivesUp, History, Listed, Sound, Rest, Client
  <2>2. QED BY <2>1, MetaStays DEF PiecesInOrder, RecordingTaken
<1>28. CASE SweepRest
  <2>1. /\ UNCHANGED <<part, upto, late>> /\ audio' \in {audio, NoFile}
        /\ client'.at = client.at /\ client'.way = client.way /\ client'.sized = client.sized
        /\ client'.knows = client.knows \/ (client.knows = "waiting" /\ client'.knows # "waiting")
    BY <1>28 DEF SweepRest, History, Listed, Sound, Client
  <2>2. QED BY <2>1, MetaStays DEF PiecesInOrder, RecordingTaken
<1>29. CASE AutoList
  <2>1. /\ UNCHANGED <<part, upto, late>> /\ audio' \in {audio, NoFile}
        /\ client'.at = client.at /\ client'.way = client.way /\ client'.sized = client.sized
        /\ client'.knows = client.knows \/ (client.knows = "waiting" /\ client'.knows # "waiting")
    BY <1>29 DEF AutoList, History, Sound, Client
  <2>2. QED BY <2>1, MetaStays DEF PiecesInOrder, RecordingTaken
<1>30. CASE AutoJudge
  <2>1. /\ UNCHANGED <<part, upto, late>> /\ audio' \in {audio, NoFile}
        /\ client'.at = client.at /\ client'.way = client.way /\ client'.sized = client.sized
        /\ client'.knows = client.knows \/ (client.knows = "waiting" /\ client'.knows # "waiting")
    BY <1>30 DEF AutoJudge, History, Listed, Sound, Client
  <2>2. QED BY <2>1, MetaStays DEF PiecesInOrder, RecordingTaken
<1>31. CASE Label
  <2>1. /\ UNCHANGED <<part, upto, late>> /\ audio' \in {audio, NoFile}
        /\ client'.at = client.at /\ client'.way = client.way /\ client'.sized = client.sized
        /\ client'.knows = client.knows \/ (client.knows = "waiting" /\ client'.knows # "waiting")
    BY <1>31 DEF Label, History, Sound, Client
  <2>2. QED BY <2>1, MetaStays DEF PiecesInOrder, RecordingTaken
<1>32. CASE PortalDies
  <2>1. /\ UNCHANGED <<part, upto, late>> /\ audio' \in {audio, NoFile}
        /\ client'.at = client.at /\ client'.way = client.way /\ client'.sized = client.sized
        /\ client'.knows = client.knows \/ (client.knows = "waiting" /\ client'.knows # "waiting")
    BY <1>32 DEF PortalDies, History, Dies, Client
  <2>2. QED BY <2>1, MetaStays DEF PiecesInOrder, RecordingTaken
<1>33. CASE Age
  <2>1. /\ UNCHANGED <<part, upto, late>> /\ audio' \in {audio, NoFile}
        /\ client'.at = client.at /\ client'.way = client.way /\ client'.sized = client.sized
        /\ client'.knows = client.knows \/ (client.knows = "waiting" /\ client'.knows # "waiting")
    BY <1>33 DEF Age, History, Sound, Client
  <2>2. QED BY <2>1, MetaStays DEF PiecesInOrder, RecordingTaken
<1>34. CASE GrowOld
  <2>1. /\ UNCHANGED <<part, upto, late>> /\ audio' \in {audio, NoFile}
        /\ client'.at = client.at /\ client'.way = client.way /\ client'.sized = client.sized
        /\ client'.knows = client.knows \/ (client.knows = "waiting" /\ client'.knows # "waiting")
    BY <1>34 DEF GrowOld, History, Sound, Client
  <2>2. QED BY <2>1, MetaStays DEF PiecesInOrder, RecordingTaken
<1>35. CASE UNCHANGED meetingVars
  BY <1>35 DEF meetingVars, PiecesInOrder, RecordingTaken
<1> HIDE MeetingConstants, <1>0, <1>P, <1>S
<1>36. QED
  BY <1>1, <1>2, <1>3, <1>4, <1>5, <1>6, <1>7, <1>8, <1>9, <1>10, <1>11, <1>12,
     <1>13, <1>14, <1>15, <1>16, <1>17, <1>18, <1>19, <1>20, <1>21, <1>22,
     <1>23, <1>24, <1>25, <1>26, <1>27, <1>28, <1>29, <1>30, <1>31, <1>32,
     <1>33, <1>34, <1>35
     DEF MeetingNext, Browser, ProcessStep, AskStep, SweepStep

\* No step throws anything away.
LEMMA DocsStep == MeetingInv /\ [MeetingNext]_meetingVars => NothingThrownAway'
<1> SUFFICES ASSUME MeetingInv, [MeetingNext]_meetingVars PROVE NothingThrownAway'
  OBVIOUS
<1>0. /\ docs \subseteq Transcripts /\ NothingThrownAway /\ Process \subseteq Jobs
      /\ {"precise", "fallback", "live"} = Transcripts
      /\ (Known <=> meta \in Metadata) /\ (Known' => meta' # NoFile /\ meta' # Torn)
      /\ \A k \in Jobs : job[k].at \in {"noting", "dropping"} => "precise" \in docs
  BY KnownIsMetadata DEF MeetingInv, MeetingTypeOK, Transcripts, Process, Jobs, JobsKnow, JobKnows, Known
<1> USE <1>0
<1>1. CASE Already
  <2>1. UNCHANGED <<docs, stored, old, meta, audio>>
    BY <1>1 DEF Already, History
  <2>2. QED BY <2>1 DEF NothingThrownAway, Known
<1>2. CASE Duplicate
  <2>1. UNCHANGED <<docs, stored, old, meta, audio>>
    BY <1>2 DEF Duplicate, History
  <2>2. QED BY <2>1 DEF NothingThrownAway, Known
<1>3. CASE OutOfOrder
  <2>1. UNCHANGED <<docs, stored, old, meta, audio>>
    BY <1>3 DEF OutOfOrder, History
  <2>2. QED BY <2>1 DEF NothingThrownAway, Known
<1>4. CASE TakeChunk
  <2>1. UNCHANGED <<docs, stored, old, meta, audio>>
    BY <1>4 DEF TakeChunk, History
  <2>2. QED BY <2>1 DEF NothingThrownAway, Known
<1>5. CASE WrongSize
  <2>1. UNCHANGED <<docs, stored, old, meta, audio>>
    BY <1>5 DEF WrongSize, History
  <2>2. QED BY <2>1 DEF NothingThrownAway, Known
<1>6. CASE TakeLast
  <2>1. audio' # NoFile
    <3>1. Appended \in Seq(Nat)
      BY <1>6, AppendedPieces, TypesSplit DEF TakeLast, Fits, MeetingInv
    <3>2. QED BY <1>6, <3>1, MeetingConstants DEF TakeLast
  <2>2. meta'.doc = NoFile
    BY <1>6, FirstMeta DEF TakeLast
  <2>3. QED BY <2>1, <2>2 DEF NothingThrownAway
<1>7. CASE Captions
  <2>1. meta'.doc = "live"
    BY <1>7, FirstMeta DEF Captions, Metadata
  <2>2. UNCHANGED <<audio, stored, old>> /\ docs' = docs \cup {"live"}
    BY <1>7 DEF Captions, History
  <2>3. QED BY <2>1, <2>2 DEF NothingThrownAway
<1>8. CASE CaptionsFail
  <2>1. UNCHANGED <<docs, stored, old, meta, audio>>
    BY <1>8 DEF CaptionsFail, History
  <2>2. QED BY <2>1 DEF NothingThrownAway, Known
<1>9. CASE CaptionsAgain
  <2>1. UNCHANGED <<docs, stored, old, meta, audio>>
    BY <1>9 DEF CaptionsAgain, History
  <2>2. QED BY <2>1 DEF NothingThrownAway, Known
<1>10. CASE TakeCut
  <2>1. UNCHANGED <<docs, stored, old, meta>>
    BY <1>10 DEF TakeCut
  <2>2. audio' = audio \/ audio' # NoFile
    <3>1. Appended \in Seq(Nat)
      BY <1>10, AppendedPieces, TypesSplit DEF TakeCut, Fits, MeetingInv
    <3>2. QED BY <1>10, <3>1, MeetingConstants DEF TakeCut
  <2>3. QED BY <2>1, <2>2 DEF NothingThrownAway, Known
<1>11. CASE CaptionsCut
  <2>1. meta'.doc = NoFile
    BY <1>11, FirstMeta DEF CaptionsCut
  <2>2. UNCHANGED <<audio, stored, old, docs>>
    BY <1>11 DEF CaptionsCut, History
  <2>3. QED BY <2>1, <2>2 DEF NothingThrownAway
<1>12. CASE CleanParts
  <2>1. UNCHANGED <<docs, stored, old, meta, audio>>
    BY <1>12 DEF CleanParts, History
  <2>2. QED BY <2>1 DEF NothingThrownAway, Known
<1>13. ASSUME NEW j \in Process, GotKey(j) PROVE NothingThrownAway'
  <2>1. Writes(meta.doc, meta'.asked)
    BY <1>13, <1>0, PlainWrites DEF Writes
  <2>2. UNCHANGED <<audio, stored, old>> /\ docs' = docs
    BY <1>13 DEF GotKey, History, Rest
  <2>3. QED BY <2>1, <2>2 DEF NothingThrownAway, Writes
<1>14. ASSUME NEW j \in Process, NoKey(j) PROVE NothingThrownAway'
  <2>1. Writes(meta.doc, meta'.asked)
    BY <1>14, <1>0, PlainWrites DEF Writes
  <2>2. UNCHANGED <<audio, stored, old>> /\ docs' = docs
    BY <1>14 DEF NoKey, History, Rest
  <2>3. QED BY <2>1, <2>2 DEF NothingThrownAway, Writes
<1>15. ASSUME NEW j \in Process, Sent(j) PROVE NothingThrownAway'
  <2>1. Writes(meta.doc, meta'.asked)
    BY <1>15, <1>0, PlainWrites DEF Writes
  <2>2. UNCHANGED <<audio, stored, old>> /\ docs' = docs
    BY <1>15 DEF Sent, History, Rest
  <2>3. QED BY <2>1, <2>2 DEF NothingThrownAway, Writes
<1>16. ASSUME NEW j \in Process, Nowhere(j) PROVE NothingThrownAway'
  <2>1. Writes(meta.doc, meta'.asked)
    BY <1>16, <1>0, PlainWrites DEF Writes
  <2>2. UNCHANGED <<audio, stored, old>> /\ docs' = docs
    BY <1>16 DEF Nowhere, History, Rest
  <2>3. QED BY <2>1, <2>2 DEF NothingThrownAway, Writes
<1>17. ASSUME NEW j \in Process, WriteDoc(j) PROVE NothingThrownAway'
  <2>1. docs' = docs \cup {"precise"} /\ UNCHANGED <<audio, meta, stored, old>>
    BY <1>17 DEF WriteDoc, History
  <2>2. QED BY <2>1 DEF NothingThrownAway, Known
<1>18. ASSUME NEW j \in Process, NoteDoc(j) PROVE NothingThrownAway'
  <2>1. Writes("precise", meta'.asked)
    BY <1>18, <1>0, DocWrites DEF Writes
  <2>2. UNCHANGED <<audio, stored, old>> /\ ("precise" \in docs => "precise" \in docs')
    BY <1>18 DEF NoteDoc, History, Rest
  <2>3. "precise" \in docs
    BY <1>18, <1>0 DEF NoteDoc, At
  <2>4. docs' \subseteq Transcripts
    BY <1>18 DEF NoteDoc
  <2>5. QED BY <2>1, <2>2, <2>3, <2>4 DEF NothingThrownAway, Writes
<1>19. ASSUME NEW j \in Process, DropAudio(j) PROVE NothingThrownAway'
  <2>1. "precise" \in docs /\ UNCHANGED <<docs, meta, stored, old>>
    BY <1>19 DEF DropAudio, At, History
  <2>2. QED BY <2>1 DEF NothingThrownAway, Known
<1>20. ASSUME NEW j \in Process, Throws(j) PROVE NothingThrownAway'
  <2>1. j \in Jobs /\ job[j].at # "idle"
    BY <1>20 DEF Throws
  <2>2. ASSUME Rescue(j) PROVE NothingThrownAway'
    <3>1. Writes("fallback", meta.asked)
      BY <2>1, <2>2, RescueWrites
    <3>2. UNCHANGED <<audio, stored, old>> /\ docs' = docs \cup {"fallback"}
      BY <2>2 DEF Rescue, Rest, History
    <3>3. QED BY <3>1, <3>2 DEF NothingThrownAway, Writes
  <2>3. CASE Writes(meta.doc, meta.asked) /\ UNCHANGED <<audio, docs, stored, old>>
    BY <2>3 DEF NothingThrownAway, Writes
  <2>4. QED BY <1>20, <2>1, <2>2, <2>3, ThrowsWrites DEF History
<1>21. ASSUME NEW j \in Jobs, AskHeard(j) PROVE NothingThrownAway'
  <2>1. Writes(meta.doc, meta'.asked)
    BY <1>21, <1>0, AskWrites DEF Writes
  <2>2. UNCHANGED <<audio, stored, old>> /\ docs' = docs
    BY <1>21 DEF AskHeard, History, Rest
  <2>3. QED BY <2>1, <2>2 DEF NothingThrownAway, Writes
<1>22. ASSUME NEW j \in Jobs, AskFails(j) PROVE NothingThrownAway'
  <2>1. UNCHANGED <<audio, stored, old, docs>>
    BY <1>22 DEF AskFails
  <2>2. CASE j = "auto"
    BY <1>22, <2>1, <2>2 DEF AskFails, NothingThrownAway, Known
  <2>3. CASE j # "auto"
    <3>1. Writes(meta.doc, meta.asked)
      BY <1>22, <2>3, PlainWrites
    <3>2. QED BY <2>1, <3>1 DEF NothingThrownAway, Writes
  <2>4. QED BY <2>2, <2>3
<1>23. CASE SweepList
  <2>1. UNCHANGED <<docs, stored, old, meta, audio>>
    BY <1>23 DEF SweepList, History
  <2>2. QED BY <2>1 DEF NothingThrownAway, Known
<1>24. CASE SweepPrecise
  <2>1. UNCHANGED <<docs, stored, old, meta, audio>>
    BY <1>24 DEF SweepPrecise, History
  <2>2. QED BY <2>1 DEF NothingThrownAway, Known
<1>25. CASE SweepLive
  <2>1. Writes("live", meta'.asked)
    BY <1>25, <1>0, DocWrites DEF Writes
  <2>2. UNCHANGED <<audio, stored, old>> /\ docs' = docs \cup {"live"}
    BY <1>25 DEF SweepLive, History, Rest
  <2>3. QED BY <2>1, <2>2 DEF NothingThrownAway, Writes
<1>26. CASE SweepFallBack
  <2>1. job["sweep"].at # "idle" /\ Rescue("sweep") /\ "sweep" \in Jobs
    BY <1>26 DEF SweepFallBack, Listed, At, Jobs
  <2>2. ASSUME Rescue("sweep") PROVE NothingThrownAway'
    <3>1. Writes("fallback", meta.asked)
      BY <2>1, <2>2, RescueWrites
    <3>2. UNCHANGED <<audio, stored, old>> /\ docs' = docs \cup {"fallback"}
      BY <2>2 DEF Rescue, Rest, History
    <3>3. QED BY <3>1, <3>2 DEF NothingThrownAway, Writes
  <2>3. QED BY <2>1, <2>2
<1>27. CASE SweepGivesUp
  <2>1. Writes(meta.doc, meta'.asked)
    <3>1. "sweep" \in Jobs
      BY DEF Jobs
    <3>2. Writes(meta.doc, meta.asked)
      BY <1>27, <3>1, PlainWrites
    <3>3. QED BY <3>2 DEF Writes
  <2>2. UNCHANGED <<audio, stored, old>> /\ docs' = docs
    BY <1>27 DEF SweepGivesUp, History, Rest
  <2>3. QED BY <2>1, <2>2 DEF NothingThrownAway, Writes
<1>28. CASE SweepRest
  <2>1. UNCHANGED <<docs, stored, old, meta>> /\ (audio' = audio \/ old)
    BY <1>28 DEF SweepRest, History, Expired
  <2>2. QED BY <2>1 DEF NothingThrownAway, Known
<1>29. CASE AutoList
  <2>1. UNCHANGED <<docs, stored, old, meta, audio>>
    BY <1>29 DEF AutoList, History
  <2>2. QED BY <2>1 DEF NothingThrownAway, Known
<1>30. CASE AutoJudge
  <2>1. UNCHANGED <<docs, stored, old, meta, audio>>
    BY <1>30 DEF AutoJudge, History
  <2>2. QED BY <2>1 DEF NothingThrownAway, Known
<1>31. CASE Label
  <2>1. Writes(meta.doc, meta'.asked)
    BY <1>31, <1>0, DocWrites DEF Writes
  <2>2. UNCHANGED <<audio, stored, old>> /\ docs' = docs
    BY <1>31 DEF Label, History, Rest
  <2>3. QED BY <2>1, <2>2 DEF NothingThrownAway, Writes
<1>32. CASE PortalDies
  <2>1. UNCHANGED <<audio, docs, stored, old>> /\ meta' \in {meta, Torn}
    BY <1>32 DEF PortalDies
  <2>2. QED BY <2>1 DEF NothingThrownAway, Known
<1>33. CASE Age
  <2>1. Writes(meta.doc, meta'.asked)
    BY <1>33, <1>0, AskWrites DEF Writes
  <2>2. UNCHANGED <<audio, stored, old>> /\ docs' = docs
    BY <1>33 DEF Age, History, Rest
  <2>3. QED BY <2>1, <2>2 DEF NothingThrownAway, Writes
<1>34. CASE GrowOld
  <2>1. UNCHANGED <<docs, stored, meta, audio>> /\ old'
    BY <1>34 DEF GrowOld, History
  <2>2. QED BY <2>1 DEF NothingThrownAway, Known
<1>35. CASE UNCHANGED meetingVars
  BY <1>35 DEF meetingVars, NothingThrownAway, Known
<1> HIDE <1>0
<1>36. QED
  BY <1>1, <1>2, <1>3, <1>4, <1>5, <1>6, <1>7, <1>8, <1>9, <1>10, <1>11, <1>12,
     <1>13, <1>14, <1>15, <1>16, <1>17, <1>18, <1>19, <1>20, <1>21, <1>22,
     <1>23, <1>24, <1>25, <1>26, <1>27, <1>28, <1>29, <1>30, <1>31, <1>32,
     <1>33, <1>34, <1>35
     DEF MeetingNext, Browser, ProcessStep, AskStep, SweepStep

\* Only transcripts are written.
LEMMA DocsTypeStep == MeetingInv /\ [MeetingNext]_meetingVars => docs' \subseteq Transcripts
<1> SUFFICES ASSUME MeetingInv, [MeetingNext]_meetingVars PROVE docs' \subseteq Transcripts
  OBVIOUS
<1>0. docs \subseteq Transcripts /\ {"precise", "fallback", "live"} = Transcripts
  BY DEF MeetingInv, MeetingTypeOK, Transcripts
<1> USE <1>0
<1>1. CASE Already
  BY <1>1 DEF Already, Rest, Rescue, Listed, Dies, History
<1>2. CASE Duplicate
  BY <1>2 DEF Duplicate, Rest, Rescue, Listed, Dies, History
<1>3. CASE OutOfOrder
  BY <1>3 DEF OutOfOrder, Rest, Rescue, Listed, Dies, History
<1>4. CASE TakeChunk
  BY <1>4 DEF TakeChunk, Rest, Rescue, Listed, Dies, History
<1>5. CASE WrongSize
  BY <1>5 DEF WrongSize, Rest, Rescue, Listed, Dies, History
<1>6. CASE TakeLast
  BY <1>6 DEF TakeLast, Rest, Rescue, Listed, Dies, History
<1>7. CASE Captions
  BY <1>7 DEF Captions, Rest, Rescue, Listed, Dies, History
<1>8. CASE CaptionsFail
  BY <1>8 DEF CaptionsFail, Rest, Rescue, Listed, Dies, History
<1>9. CASE CaptionsAgain
  BY <1>9 DEF CaptionsAgain, Rest, Rescue, Listed, Dies, History
<1>10. CASE TakeCut
  BY <1>10 DEF TakeCut, Rest, Rescue, Listed, Dies, History
<1>11. CASE CaptionsCut
  BY <1>11 DEF CaptionsCut, Rest, Rescue, Listed, Dies, History
<1>12. CASE CleanParts
  BY <1>12 DEF CleanParts, Rest, Rescue, Listed, Dies, History
<1>13. ASSUME NEW j \in Process, GotKey(j) PROVE docs' \subseteq Transcripts
  BY <1>13 DEF GotKey, Rest, Rescue, Listed, Dies, History
<1>14. ASSUME NEW j \in Process, NoKey(j) PROVE docs' \subseteq Transcripts
  BY <1>14 DEF NoKey, Rest, Rescue, Listed, Dies, History
<1>15. ASSUME NEW j \in Process, Sent(j) PROVE docs' \subseteq Transcripts
  BY <1>15 DEF Sent, Rest, Rescue, Listed, Dies, History
<1>16. ASSUME NEW j \in Process, Nowhere(j) PROVE docs' \subseteq Transcripts
  BY <1>16 DEF Nowhere, Rest, Rescue, Listed, Dies, History
<1>17. ASSUME NEW j \in Process, WriteDoc(j) PROVE docs' \subseteq Transcripts
  BY <1>17 DEF WriteDoc, Rest, Rescue, Listed, Dies, History
<1>18. ASSUME NEW j \in Process, NoteDoc(j) PROVE docs' \subseteq Transcripts
  BY <1>18 DEF NoteDoc, Rest, Rescue, Listed, Dies, History
<1>19. ASSUME NEW j \in Process, DropAudio(j) PROVE docs' \subseteq Transcripts
  BY <1>19 DEF DropAudio, Rest, Rescue, Listed, Dies, History
<1>20. ASSUME NEW j \in Process, Throws(j) PROVE docs' \subseteq Transcripts
  BY <1>20, ThrowsWrites DEF Throws, Rescue, Rest, History
<1>21. ASSUME NEW j \in Jobs, AskHeard(j) PROVE docs' \subseteq Transcripts
  BY <1>21 DEF AskHeard, Rest, Rescue, Listed, Dies, History
<1>22. ASSUME NEW j \in Jobs, AskFails(j) PROVE docs' \subseteq Transcripts
  BY <1>22 DEF AskFails, Rest, Rescue, Listed, Dies, History
<1>23. CASE SweepList
  BY <1>23 DEF SweepList, Rest, Rescue, Listed, Dies, History
<1>24. CASE SweepPrecise
  BY <1>24 DEF SweepPrecise, Rest, Rescue, Listed, Dies, History
<1>25. CASE SweepLive
  BY <1>25 DEF SweepLive, Rest, Rescue, Listed, Dies, History
<1>26. CASE SweepFallBack
  BY <1>26 DEF SweepFallBack, Rest, Rescue, Listed, Dies, History
<1>27. CASE SweepGivesUp
  BY <1>27 DEF SweepGivesUp, Rest, Rescue, Listed, Dies, History
<1>28. CASE SweepRest
  BY <1>28 DEF SweepRest, Rest, Rescue, Listed, Dies, History
<1>29. CASE AutoList
  BY <1>29 DEF AutoList, Rest, Rescue, Listed, Dies, History
<1>30. CASE AutoJudge
  BY <1>30 DEF AutoJudge, Rest, Rescue, Listed, Dies, History
<1>31. CASE Label
  BY <1>31 DEF Label, Rest, Rescue, Listed, Dies, History
<1>32. CASE PortalDies
  BY <1>32 DEF PortalDies, Rest, Rescue, Listed, Dies, History
<1>33. CASE Age
  BY <1>33 DEF Age, Rest, Rescue, Listed, Dies, History
<1>34. CASE GrowOld
  BY <1>34 DEF GrowOld, Rest, Rescue, Listed, Dies, History
<1>35. CASE UNCHANGED meetingVars
  BY <1>35 DEF meetingVars
<1> HIDE <1>0
<1>36. QED
  BY <1>1, <1>2, <1>3, <1>4, <1>5, <1>6, <1>7, <1>8, <1>9, <1>10, <1>11, <1>12,
     <1>13, <1>14, <1>15, <1>16, <1>17, <1>18, <1>19, <1>20, <1>21, <1>22,
     <1>23, <1>24, <1>25, <1>26, <1>27, <1>28, <1>29, <1>30, <1>31, <1>32,
     <1>33, <1>34, <1>35
     DEF MeetingNext, Browser, ProcessStep, AskStep, SweepStep

\* So every step keeps the types.
LEMMA MeetingTypeStep == MeetingInv /\ [MeetingNext]_meetingVars => MeetingTypeOK'
<1> SUFFICES ASSUME MeetingInv, [MeetingNext]_meetingVars PROVE MeetingTypeOK'
  OBVIOUS
<1>1. SourceTypes' /\ docs' \subseteq Transcripts
  BY SourceTypeStep, DocsTypeStep
<1>2. QED BY <1>1, ViewTypeStep DEF MeetingTypeOK, SourceTypes, Client

\* At the start there is nothing.
LEMMA MeetingStarts == MeetingInit => MeetingInv
<1> SUFFICES ASSUME MeetingInit PROVE MeetingInv
  OBVIOUS
<1> USE MeetingConstants
<1>1. MeetingTypeOK
  <2>1. client \in Client
    <3>1. 0 \in 0 .. Last /\ FALSE \in BOOLEAN
      OBVIOUS
    <3>2. QED BY <3>1 DEF MeetingInit, Client
  <2>2. job \in [Jobs -> [at : Places, snap : Metadata \cup {NoFile}]]
    BY DEF MeetingInit, Idle, Places
  <2>3. /\ part = NoFile /\ upto \in 0 .. Chunks /\ audio = NoFile /\ running \in Jobs \cup {NoJob}
        /\ {stored, late, old} \subseteq BOOLEAN /\ faults \in 0 .. MaxFaults
    <3>1. stored = FALSE /\ late = FALSE /\ old = FALSE
      BY DEF MeetingInit
    <3>2. part = NoFile /\ audio = NoFile /\ running = NoJob /\ upto = 0 /\ faults = 0
      BY DEF MeetingInit
    <3>3. 0 \in 0 .. Chunks /\ 0 \in 0 .. MaxFaults
      OBVIOUS
    <3>4. {stored, late, old} \subseteq BOOLEAN
      <4> HIDE MeetingConstants
      <4> QED BY <3>1
    <3>5. QED BY <3>2, <3>3, <3>4
  <2>4. SourceTypes
    BY <2>1, <2>3 DEF SourceTypes
  <2>5. QED BY <2>2, <2>4, TypesSplit DEF MeetingInit
<1>2. PiecesInOrder /\ JobsKnow /\ AskedIsSeen /\ RecordingTaken /\ NothingThrownAway /\ AskedOnce
  BY DEF MeetingInit, PiecesInOrder, JobsKnow, JobKnows, AskedIsSeen, RecordingTaken, NothingThrownAway,
         AskedOnce, Idle, Known
<1>3. QED BY <1>1, <1>2 DEF MeetingInv

\* The invariant of a meeting.
THEOREM MeetingInvariant == MeetingSpec => []MeetingInv
<1>1. MeetingInv /\ [MeetingNext]_meetingVars => MeetingInv'
  BY MeetingTypeStep, PiecesStep, DocsStep, JobsStep, AskedStep DEF MeetingInv
<1>2. QED BY MeetingStarts, <1>1, PTL DEF MeetingSpec

\* A meeting is kept whole on its way to the minutes, for any number of chunks, attempts and
\* faults, wherever the portal dies.
THEOREM MeetingIsKept == MeetingSpec => []MeetingKept
<1>1. MeetingInv => MeetingKept
  BY DEF MeetingInv, MeetingKept
<1>2. QED BY MeetingInvariant, <1>1, PTL
=============================================================================
