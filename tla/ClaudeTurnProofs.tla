-------------------------- MODULE ClaudeTurnProofs --------------------------
(***************************************************************************)
(* Proofs about ClaudeTurn, for every set of turns and seats, every size of *)
(* the semaphore and all retry limits; about Relogin, which a turn that     *)
(* meets a 401 begins, for all bounds; and about SessionStore, where a turn *)
(* finds and leaves its session, for every set of keys and all bounds. The  *)
(* inductive invariant of the turn adds to the properties that a turn asks  *)
(* for another seat only on its first limit, and that the sessions a turn   *)
(* has thrown away are the context retries its call carries, and one more   *)
(* once it is over. That of the logins says that the thread of the last     *)
(* session is in step with the session and its process as long as no        *)
(* session outlived its time. That of the sessions says whose an id is,     *)
(* which thread may be writing what, and where a request that is owed       *)
(* stands.                                                                  *)
(***************************************************************************)
EXTENDS ClaudeTurn, Relogin, SessionStore, FiniteSetTheorems, TLAPS

Holders == {x \in Turns : held[x]}

HookFirst == \A x \in Turns : at[x] = "hook" => limitRetry[x] = 0

SessionsCounted ==
    \A x \in Turns :
        \/ resets[x] = contextRetry[x]
        \/ at[x] = "done" /\ resets[x] = contextRetry[x] + 1

TurnInv == TypeOK /\ PermitsExact /\ HookFirst /\ SessionsCounted

-----------------------------------------------------------------------------
(* What a step does to the permits: nothing, one fewer, or one more.         *)

\* Holders are finitely many.
LEMMA HoldersFinite == IsFiniteSet(Holders) /\ Cardinality(Holders) \in Nat
<1>1. Holders \subseteq Turns
  BY DEF Holders
<1>2. QED BY <1>1, FS_Subset, FS_CardinalityType, TurnAssumption

\* A step at which no turn starts or stops running keeps the permits exact.
LEMMA PermitsKept ==
    ASSUME TurnInv, UNCHANGED <<permits, held>>,
           \A x \in Turns : at'[x] = "running" <=> at[x] = "running"
    PROVE  PermitsExact'
BY DEF TurnInv, PermitsExact

\* A turn that spawns its process takes a permit with it.
LEMMA PermitTaken ==
    ASSUME TurnInv, NEW t \in Turns, Spawn(t)
    PROVE  PermitsExact' /\ permits' \in 0..Permits /\ held' \in [Turns -> BOOLEAN]
<1>1. held' \in [Turns -> BOOLEAN] /\ at' \in [Turns -> Places]
  BY DEF TurnInv, TypeOK, Spawn, Goto, Places
<1>2. ~held[t]
  BY DEF TurnInv, PermitsExact, Spawn
<1>3. Holders' = Holders \cup {t} /\ t \notin Holders
  BY <1>2 DEF Holders, Spawn, TurnInv, TypeOK
<1>4. Cardinality(Holders') = Cardinality(Holders) + 1
  BY <1>3, HoldersFinite, FS_AddElement
<1>5. permits + Cardinality(Holders) = Permits
  BY DEF TurnInv, PermitsExact, Holders
<1>6. permits' \in 0..Permits /\ permits' + Cardinality(Holders') = Permits
  BY <1>4, <1>5, HoldersFinite, TurnAssumption DEF TurnInv, TypeOK, Spawn
<1>7. \A x \in Turns : held'[x] <=> at'[x] = "running"
  BY DEF TurnInv, TypeOK, PermitsExact, Spawn, Goto
<1>8. QED BY <1>1, <1>6, <1>7 DEF PermitsExact, Holders

\* A running turn that moves on gives its permit back.
LEMMA PermitGivenBack ==
    ASSUME TurnInv, NEW t \in Turns, at[t] = "running", GiveBack(t),
           NEW place, Goto(t, place), place # "running"
    PROVE  PermitsExact' /\ permits' \in 0..Permits /\ held' \in [Turns -> BOOLEAN]
<1>1. held' \in [Turns -> BOOLEAN]
  BY DEF TurnInv, TypeOK, GiveBack
<1>2. held[t]
  BY DEF TurnInv, PermitsExact
<1>3. Holders' = Holders \ {t} /\ t \in Holders
  BY <1>2 DEF Holders, GiveBack, TurnInv, TypeOK
<1>4. Cardinality(Holders') = Cardinality(Holders) - 1 /\ Cardinality(Holders') \in Nat
  <2>1. IsFiniteSet(Holders')
    BY <1>3, HoldersFinite, FS_RemoveElement
  <2>2. QED BY <2>1, <1>3, HoldersFinite, FS_RemoveElement, FS_CardinalityType
<1>5. permits + Cardinality(Holders) = Permits
  BY DEF TurnInv, PermitsExact, Holders
<1>6. permits' \in 0..Permits /\ permits' + Cardinality(Holders') = Permits
  BY <1>2, <1>4, <1>5, HoldersFinite, TurnAssumption DEF TurnInv, TypeOK, GiveBack
<1>7. \A x \in Turns : held'[x] <=> at'[x] = "running"
  BY DEF TurnInv, TypeOK, PermitsExact, GiveBack, Goto
<1>8. QED BY <1>1, <1>6, <1>7 DEF PermitsExact, Holders

\* A turn in the hook or cooling holds no permit, so that giving back changes
\* nothing.
LEMMA NothingGivenBack ==
    ASSUME TurnInv, NEW t \in Turns, at[t] # "running", GiveBack(t)
    PROVE  UNCHANGED <<permits, held>>
<1>1. ~held[t]
  BY DEF TurnInv, PermitsExact
<1>2. QED BY <1>1 DEF GiveBack, TurnInv, TypeOK

-----------------------------------------------------------------------------
\* The initial states: every permit free, no session thrown away.
LEMMA InvInit == Init => TurnInv
<1> SUFFICES ASSUME Init PROVE TurnInv
  OBVIOUS
<1>1. TypeOK
  BY TurnAssumption DEF Init, TypeOK, Places, NoCooldown
<1>2. PermitsExact
  <2>1. {t \in Turns : held[t]} = {}
    BY DEF Init
  <2>2. QED BY <2>1, FS_EmptySet, TurnAssumption DEF Init, PermitsExact
<1>3. HookFirst /\ SessionsCounted
  BY DEF Init, HookFirst, SessionsCounted
<1>4. QED BY <1>1, <1>2, <1>3 DEF TurnInv

-----------------------------------------------------------------------------
\* A fresh call, and the end of a call, leave the turn's locals well typed.
LEMMA LocalsForgotten ==
    ASSUME TypeOK, NEW t \in Turns, Forget(t)
    PROVE  /\ dir' \in [Turns -> Seats \cup {NoSeat}]
           /\ seatSeen' \in [Turns -> Seats \cup {NoSeat}]
           /\ canary' \in [Turns -> BOOLEAN]
           /\ stopSeen' \in [Turns -> {"no", "seen", "heeded"}]
BY DEF Forget, TypeOK

\* The values the cooldown is given are cooldowns.
Cooldowns == [on : BOOLEAN, seat : Seats \cup {NoSeat}, trial : BOOLEAN]

\* The three values a step gives the cooldown are among them.
LEMMA CooldownValues ==
    ASSUME TypeOK
    PROVE  /\ NoCooldown \in Cooldowns
           /\ cooldown \in Cooldowns
           /\ \A b \in BOOLEAN : [cooldown EXCEPT !.trial = b] \in Cooldowns
           /\ \A x \in Turns : [on |-> TRUE, seat |-> dir[x], trial |-> FALSE] \in Cooldowns
<1>1. NoCooldown \in Cooldowns /\ cooldown \in Cooldowns
  BY DEF NoCooldown, Cooldowns, TypeOK
<1>2. ASSUME NEW b \in BOOLEAN PROVE [cooldown EXCEPT !.trial = b] \in Cooldowns
  BY <1>1 DEF Cooldowns
<1>3. ASSUME NEW x \in Turns
      PROVE  [on |-> TRUE, seat |-> dir[x], trial |-> FALSE] \in Cooldowns
  BY DEF Cooldowns, TypeOK
<1>4. QED BY <1>1, <1>2, <1>3

\* What people and the provider do touches no turn.
LEMMA OutsideStep ==
    ASSUME TurnInv,
           \/ \E target \in Turns \cup {EveryTurn} : RequestStop(target)
           \/ LimitMoves \/ CooldownClock
    PROVE  TurnInv'
<1>1. TypeOK'
  <2>1. ASSUME NEW target \in Turns \cup {EveryTurn}, RequestStop(target)
        PROVE  TypeOK'
    BY <2>1, TurnAssumption DEF TurnInv, TypeOK, RequestStop, reads, args
  <2>2. CASE LimitMoves
    BY <2>2 DEF TurnInv, TypeOK, LimitMoves, reads, args
  <2>3. CASE CooldownClock
    <3>1. cooldown' \in Cooldowns
      BY <2>3, CooldownValues DEF CooldownClock, TurnInv
    <3>2. QED BY <2>3, <3>1 DEF TurnInv, TypeOK, CooldownClock, Cooldowns, reads, args
  <2>4. QED BY <2>1, <2>2, <2>3
<1>2. UNCHANGED <<at, args, held, permits, resets>>
  BY DEF RequestStop, LimitMoves, CooldownClock, args
<1>3. PermitsExact' /\ HookFirst' /\ SessionsCounted'
  BY <1>2, PermitsKept DEF TurnInv, HookFirst, SessionsCounted, args
<1>4. QED BY <1>1, <1>3 DEF TurnInv

\* A turn on its way to its process, and one that sees a stop, keeps its
\* arguments and the permits.
LEMMA WayInStep ==
    ASSUME TurnInv, NEW t \in Turns,
           \/ Enter(t) \/ ResolveDir(t) \/ AskCooldown(t) \/ BackoffOver(t)
           \/ SeeStop(t) \/ HeedStop(t)
    PROVE  TurnInv'
<1>1. TypeOK'
  <2>1. CASE Enter(t) \/ BackoffOver(t)
    BY <2>1 DEF TurnInv, TypeOK, Enter, BackoffOver, Goto, Places, reads, args, shared
  <2>2. CASE ResolveDir(t)
    BY <2>2 DEF TurnInv, TypeOK, ResolveDir, Goto, Places, args, shared
  <2>3. CASE AskCooldown(t)
    <3>1. cooldown' \in Cooldowns
      BY <2>3, CooldownValues DEF AskCooldown, PassCooldown, TurnInv
    <3>2. canary' \in [Turns -> BOOLEAN] /\ at' \in [Turns -> Places]
      BY <2>3 DEF TurnInv, TypeOK, AskCooldown, PassCooldown, Goto, Places
    <3>3. QED BY <2>3, <3>1, <3>2 DEF TurnInv, TypeOK, AskCooldown, Cooldowns, args
  <2>4. CASE SeeStop(t) \/ HeedStop(t)
    BY <2>4 DEF TurnInv, TypeOK, SeeStop, HeedStop, reads, args, shared
  <2>5. QED BY <2>1, <2>2, <2>3, <2>4
<1>2. UNCHANGED <<args, held, permits, resets>>
  BY DEF Enter, ResolveDir, AskCooldown, BackoffOver, SeeStop, HeedStop, args, shared
<1>3. \/ UNCHANGED at
      \/ \E place \in {"entry", "resolved", "waiting", "done"} : Goto(t, place)
         /\ at[t] \notin {"running", "done"}
  BY DEF Enter, ResolveDir, AskCooldown, BackoffOver, SeeStop, HeedStop
<1>4. \A x \in Turns : /\ at'[x] = "running" <=> at[x] = "running"
                       /\ at'[x] = "hook" => at[x] = "hook"
                       /\ at[x] = "done" => at'[x] = "done"
  BY <1>3 DEF Goto, TurnInv, TypeOK
<1>5. PermitsExact'
  BY <1>2, <1>4, PermitsKept
<1>6. HookFirst' /\ SessionsCounted'
  BY <1>2, <1>4 DEF TurnInv, HookFirst, SessionsCounted, args
<1>7. QED BY <1>1, <1>5, <1>6 DEF TurnInv

\* A turn starts its process (claude_runner.py:435-442).
LEMMA SpawnStep ==
    ASSUME TurnInv, NEW t \in Turns, Spawn(t)
    PROVE  TurnInv'
<1>1. TypeOK'
  BY PermitTaken, TurnAssumption DEF TurnInv, TypeOK, Spawn, Goto, Places, reads, args
<1>2. HookFirst' /\ SessionsCounted'
  BY DEF TurnInv, TypeOK, HookFirst, SessionsCounted, Spawn, Goto, args
<1>3. QED BY <1>1, <1>2, PermitTaken DEF TurnInv

\* A turn that is over, in whatever way, has thrown away one session more than
\* its call's retries, or none.
LEMMA WayOutStep ==
    ASSUME TurnInv, NEW t \in Turns, EndOtherwise(t) \/ EndWell(t)
    PROVE  TurnInv'
<1>1. at[t] = "running" /\ GiveBack(t) /\ Goto(t, "done") /\ Forget(t)
  BY DEF EndOtherwise, EndWell, Ends
<1>2. PermitsExact' /\ permits' \in 0..Permits /\ held' \in [Turns -> BOOLEAN]
  BY <1>1, PermitGivenBack
<1>3. TypeOK'
  <2>1. cooldown' \in Cooldowns
    BY CooldownValues DEF EndOtherwise, EndWell, TurnInv
  <2>2. at' \in [Turns -> Places]
    BY <1>1 DEF TurnInv, TypeOK, Goto, Places
  <2>3. UNCHANGED <<args, seat, limited, stopRequest, resets, spawned, stopsMade>>
    BY DEF EndOtherwise, EndWell, Ends
  <2>4. QED BY <1>1, <1>2, <2>1, <2>2, <2>3, LocalsForgotten
              DEF TurnInv, TypeOK, Cooldowns, args
<1>4. UNCHANGED <<args, resets>>
  BY DEF EndOtherwise, EndWell
<1>5. HookFirst' /\ SessionsCounted'
  BY <1>1, <1>4 DEF TurnInv, TypeOK, HookFirst, SessionsCounted, Goto, args
<1>6. QED BY <1>2, <1>3, <1>5 DEF TurnInv

\* A running turn that calls itself again keeps its count of sessions, or
\* raises it with the session it throws away.
LEMMA RetryStep ==
    ASSUME TurnInv, NEW t \in Turns, Overload(t) \/ ContextOverflow(t) \/ ModelLimit(t)
    PROVE  TurnInv'
<1>1. at[t] = "running" /\ GiveBack(t) /\ Forget(t)
  BY DEF Overload, ContextOverflow, ModelLimit, CallAgain
<1>2. PICK place \in {"backoff", "entry", "done"} : Goto(t, place)
  BY DEF Overload, ContextOverflow, ModelLimit
<1>3. PermitsExact' /\ permits' \in 0..Permits /\ held' \in [Turns -> BOOLEAN]
  BY <1>1, <1>2, PermitGivenBack
<1>4. /\ contextRetry' \in [Turns -> 0..MaxContextRetries]
      /\ overloadRetry' \in [Turns -> 0..MaxOverloadRetries]
      /\ limitRetry' \in [Turns -> 0..1]
      /\ resets' \in [Turns -> Nat]
  <2>1. CASE Overload(t)
    BY <2>1, TurnAssumption DEF Overload, CallAgain, TurnInv, TypeOK
  <2>2. CASE ContextOverflow(t)
    BY <2>2, TurnAssumption DEF ContextOverflow, CallAgain, TurnInv, TypeOK, args
  <2>3. CASE ModelLimit(t)
    BY <2>3, TurnAssumption DEF ModelLimit, CallAgain, TurnInv, TypeOK, args
  <2>4. QED BY <2>1, <2>2, <2>3
<1>5. at' \in [Turns -> Places]
  BY <1>2 DEF TurnInv, TypeOK, Goto, Places
<1>6. UNCHANGED <<seat, limited, cooldown, stopRequest, spawned, stopsMade>>
  BY DEF Overload, ContextOverflow, ModelLimit
<1>7. TypeOK'
  BY <1>1, <1>3, <1>4, <1>5, <1>6, LocalsForgotten DEF TurnInv, TypeOK
<1>8. SessionsCounted'
  <2>1. resets[t] = contextRetry[t]
    BY <1>1 DEF TurnInv, SessionsCounted
  <2>2. CASE Overload(t)
    BY <2>1, <2>2 DEF Overload, CallAgain, Goto, TurnInv, TypeOK, SessionsCounted
  <2>3. CASE ContextOverflow(t)
    <3>1. \A x \in Turns \ {t} : /\ resets'[x] = resets[x] /\ at'[x] = at[x]
                                 /\ contextRetry'[x] = contextRetry[x]
      BY <2>3 DEF ContextOverflow, CallAgain, Goto, TurnInv, TypeOK, args
    <3>2. \/ resets'[t] = contextRetry'[t]
          \/ at'[t] = "done" /\ resets'[t] = contextRetry'[t] + 1
      BY <2>1, <2>3 DEF ContextOverflow, CallAgain, Goto, TurnInv, TypeOK, args
    <3>3. QED BY <3>1, <3>2 DEF TurnInv, SessionsCounted
  <2>4. CASE ModelLimit(t)
    BY <2>1, <2>4 DEF ModelLimit, CallAgain, Goto, TurnInv, TypeOK, SessionsCounted, args
  <2>5. QED BY <2>2, <2>3, <2>4
<1>9. HookFirst'
  <2>1. \A x \in Turns \ {t} : limitRetry'[x] = limitRetry[x] /\ at'[x] = at[x]
    BY <1>2 DEF Overload, ContextOverflow, ModelLimit, CallAgain, Goto, TurnInv, TypeOK, args
  <2>2. at'[t] # "hook"
    BY <1>2 DEF Goto, TurnInv, TypeOK
  <2>3. QED BY <2>1, <2>2 DEF TurnInv, HookFirst
<1>10. QED BY <1>3, <1>7, <1>8, <1>9 DEF TurnInv

\* A turn meets the account's limit and asks for another seat, or cools down.
LEMMA AccountLimitStep ==
    ASSUME TurnInv, NEW t \in Turns, AccountLimit(t)
    PROVE  TurnInv'
<1>1. PICK place \in {"hook", "cooling"} :
          Goto(t, place) /\ (place = "hook" => limitRetry[t] = 0)
  BY DEF AccountLimit
<1>2. PermitsExact' /\ permits' \in 0..Permits /\ held' \in [Turns -> BOOLEAN]
  BY <1>1, PermitGivenBack DEF AccountLimit
<1>3. TypeOK'
  BY <1>1, <1>2 DEF AccountLimit, TurnInv, TypeOK, Goto, Places, reads, args
<1>4. HookFirst' /\ SessionsCounted'
  BY <1>1 DEF AccountLimit, TurnInv, TypeOK, HookFirst, SessionsCounted, Goto, args
<1>5. QED BY <1>2, <1>3, <1>4 DEF TurnInv

\* On the first limit of a call a turn tries another seat; the call it makes
\* then will not.
LEMMA SeatHookStep ==
    ASSUME TurnInv, NEW t \in Turns, SeatHook(t)
    PROVE  TurnInv'
<1>1. at[t] = "hook" /\ limitRetry[t] = 0 /\ resets[t] = contextRetry[t]
  BY DEF SeatHook, RunSeatHook, TurnInv, HookFirst, SessionsCounted
<1>2. UNCHANGED <<permits, held>>
  BY <1>1, NothingGivenBack DEF SeatHook, RunSeatHook, CallAgain
<1>3. PICK place \in {"entry", "cooling"} : Goto(t, place)
  BY DEF SeatHook, RunSeatHook
<1>4. PermitsExact'
  BY <1>1, <1>2, <1>3, PermitsKept DEF Goto, TurnInv, TypeOK
<1>5. /\ dir' \in [Turns -> Seats \cup {NoSeat}]
      /\ seatSeen' \in [Turns -> Seats \cup {NoSeat}]
      /\ canary' \in [Turns -> BOOLEAN]
      /\ stopSeen' \in [Turns -> {"no", "seen", "heeded"}]
  <2>1. Forget(t) \/ UNCHANGED <<reads, stopSeen>>
    BY DEF SeatHook, RunSeatHook, CallAgain
  <2>2. QED BY <2>1, LocalsForgotten DEF TurnInv, TypeOK, reads
<1>6. /\ contextRetry' = contextRetry
      /\ overloadRetry' \in [Turns -> 0..MaxOverloadRetries]
      /\ limitRetry' \in [Turns -> 0..1]
  BY <1>1, TurnAssumption DEF SeatHook, RunSeatHook, CallAgain, TurnInv, TypeOK, args
<1>7. seat' \in Seats /\ at' \in [Turns -> Places]
  BY <1>3 DEF SeatHook, RunSeatHook, TurnInv, TypeOK, Goto, Places
<1>8. TypeOK'
  BY <1>2, <1>5, <1>6, <1>7 DEF SeatHook, RunSeatHook, TurnInv, TypeOK
<1>9. \A x \in Turns \ {t} : limitRetry'[x] = limitRetry[x] /\ at'[x] = at[x]
  BY <1>3 DEF SeatHook, RunSeatHook, CallAgain, Goto, TurnInv, TypeOK, args
<1>10. at'[t] # "hook" /\ UNCHANGED resets
  BY <1>3 DEF SeatHook, RunSeatHook, Goto, TurnInv, TypeOK
<1>11. HookFirst' /\ SessionsCounted'
  BY <1>1, <1>6, <1>9, <1>10 DEF TurnInv, HookFirst, SessionsCounted
<1>12. QED BY <1>4, <1>8, <1>11 DEF TurnInv

\* A turn without another seat starts the cooldown of its account.
LEMMA StartCooldownStep ==
    ASSUME TurnInv, NEW t \in Turns, StartCooldown(t)
    PROVE  TurnInv'
<1>1. at[t] = "cooling" /\ GiveBack(t) /\ Goto(t, "done") /\ Forget(t)
  BY DEF StartCooldown, Ends
<1>2. UNCHANGED <<permits, held>>
  BY <1>1, NothingGivenBack
<1>3. UNCHANGED <<args, seat, limited, stopRequest, resets, spawned, stopsMade>>
  BY DEF StartCooldown, Ends
<1>4. PermitsExact'
  BY <1>1, <1>2, PermitsKept DEF Goto, TurnInv, TypeOK
<1>5. cooldown' \in Cooldowns
  BY CooldownValues DEF StartCooldown, TurnInv
<1>6. at' \in [Turns -> Places]
  BY <1>1 DEF TurnInv, TypeOK, Goto, Places
<1>7. TypeOK'
  BY <1>1, <1>2, <1>3, <1>5, <1>6, LocalsForgotten DEF TurnInv, TypeOK, Cooldowns, args
<1>8. HookFirst' /\ SessionsCounted'
  BY <1>1, <1>3 DEF TurnInv, TypeOK, HookFirst, SessionsCounted, Goto, args
<1>9. QED BY <1>4, <1>7, <1>8 DEF TurnInv

-----------------------------------------------------------------------------
\* Every step keeps the inductive invariant.
LEMMA InvStep == TurnInv /\ [Next]_vars => TurnInv'
<1> SUFFICES ASSUME TurnInv, [Next]_vars PROVE TurnInv'
  OBVIOUS
<1>1. ASSUME NEW t \in Turns, TurnStep(t) PROVE TurnInv'
  BY <1>1, WayInStep, WayOutStep, RetryStep, AccountLimitStep, SeatHookStep,
     StartCooldownStep DEF TurnStep
<1>2. ASSUME NEW t \in Turns, Spawn(t) PROVE TurnInv'
  BY <1>2, SpawnStep
<1>3. CASE \/ \E target \in Turns \cup {EveryTurn} : RequestStop(target)
           \/ LimitMoves \/ CooldownClock
  BY <1>3, OutsideStep
<1>4. CASE UNCHANGED vars
  BY <1>4 DEF vars, reads, args, shared, TurnInv, TypeOK, PermitsExact, HookFirst,
     SessionsCounted
<1>5. QED BY <1>1, <1>2, <1>3, <1>4 DEF Next

(* The inductive invariant holds in every behaviour.                         *)
THEOREM TurnInvariant == Spec => []TurnInv
BY InvInit, InvStep, PTL DEF Spec

(* Every variable of the turns keeps its type; retry counts stay within the  *)
(* limits of claude_runner.py, permits within the semaphore's size.          *)
THEOREM TurnTypes == Spec => []TypeOK
<1>1. TurnInv => TypeOK
  BY DEF TurnInv
<1>2. QED BY <1>1, TurnInvariant, PTL

(* The semaphore is given back exactly as often as it is taken, over every   *)
(* retry and every way out of run_claude.                                    *)
THEOREM PermitsNeverLeak == Spec => []PermitsExact
<1>1. TurnInv => PermitsExact
  BY DEF TurnInv
<1>2. QED BY <1>1, TurnInvariant, PTL

(* No turn throws away more than MaxContextRetries + 1 sessions, however the *)
(* retries for overload, limits and overflow follow one another.             *)
THEOREM SessionsSpared == Spec => []ResetsBounded
<1>1. TurnInv => ResetsBounded
  BY TurnAssumption DEF TurnInv, TypeOK, SessionsCounted, ResetsBounded
<1>2. QED BY <1>1, TurnInvariant, PTL

-----------------------------------------------------------------------------
(* Re-login.                                                                *)

\* The domains of the variables; a session's number is bounded further down.
LoginTypes ==
    /\ session \in [state : Active \cup {"idle", "done", "failed"}, flow : Nat,
                    code : {NoCode, "code"}, proc : Nat, ui : BOOLEAN]
    /\ pc \in [Flow -> Pc] /\ woken \in [Flow -> BOOLEAN] /\ overdue \in [Flow -> BOOLEAN]
    /\ child \in [Flow -> {"none", "running", "gone"}] /\ reaping \in [Flow -> Nat]
    /\ session.flow <= flows /\ session.proc <= flows
    /\ \A f \in Flow : reaping[f] <= flows

BridgeTypes ==
    /\ db \in [state : DbState, code : Code \cup {NoCode}]
    /\ poll \in {"idle", "mark", "start", "submit", "accepted", "rejected"}
    /\ polled \in Code \cup {NoCode} /\ starting \in BOOLEAN /\ chat \in Code \cup {NoCode} /\ userless \in BOOLEAN
    /\ poll = "submit" => polled # NoCode
    /\ poll \in {"mark", "start"} => starting

\* A login the page's request is still owed: one that is being begun, or a request
\* no poll has taken up.
Owed == IF poll \in {"mark", "start"} \/ (db.state = "requested" /\ ~starting) THEN 1 ELSE 0

\* Every session has been asked for, or its request begun again after a fault.
Asked == asks + requests
Room == Asked + faults
Begun == flows + Owed
FlowsFit ==
    /\ flows \in Nat /\ asks \in 0..MaxAsks /\ requests \in 0..MaxRequests /\ faults \in 0..MaxFaults
    /\ Begun <= Room

\* No session up to this one has outlived its time.
Clean(f) == \A e \in Flow : e <= f => ~overdue[e]

\* A flow thread that is through with the session and has left no process.
Ended(f) == pc[f] \in {"tell_failed", "tell_done", "over"} /\ child[f] # "running"

\* While its session is the present one and no earlier thread disturbs it, the thread,
\* the session and the login process are in step.
InStep(f) ==
    /\ session.flow = f
    /\ \/ /\ pc[f] = "spawn" /\ session.state = "pending_url"
          /\ ~woken[f] /\ session.code = NoCode /\ child[f] = "none"
       \/ /\ pc[f] = "capture" /\ session.state = "pending_url"
          /\ ~woken[f] /\ session.code = NoCode /\ session.proc = f
       \/ /\ pc[f] \in {"tell_page", "tell_chat", "wait"} /\ session.proc = f
          /\ \/ session.state = "waiting_code" /\ ~woken[f]
             \/ session.state = "verifying" /\ woken[f] /\ session.code # NoCode
       \/ /\ pc[f] \in {"inject", "verify", "reap_ok", "reap_bad"}
          /\ session.state = "verifying" /\ session.proc = f
       \/ /\ pc[f] \in {"reaping_ok", "reaping_bad"}
          /\ session.state = "verifying" /\ reaping[f] = f
       \/ /\ pc[f] = "kill" /\ session.state \in {"pending_url", "verifying"} /\ session.proc = f
       \/ /\ pc[f] \in {"fail", "win"} /\ session.state \in {"pending_url", "verifying"}
          /\ child[f] # "running"

\* Of a session that has not been begun there is nothing yet.
NothingYet == \A f \in Flow : f > flows => pc[f] = "none" /\ child[f] = "none" /\ ~woken[f]

\* As long as none has outlived its time, a session is begun when the last is through.
InTurn == \A f \in Flow : Clean(f) /\ f < flows => Ended(f)
LastInStep == flows \in Flow /\ Clean(flows) => Ended(flows) \/ InStep(flows)

ReloginInv ==
    LoginTypes /\ BridgeTypes /\ FlowsFit /\ NothingYet /\ InTurn /\ LastInStep

\* The initial states.
LEMMA ReloginInvInit == ReloginInit => ReloginInv
<1> SUFFICES ASSUME ReloginInit PROVE ReloginInv
  OBVIOUS
<1>1. LoginTypes
  BY DEF ReloginInit, LoginTypes, NoSession, NoFlow, NoCode, Pc
<1>2. BridgeTypes
  BY DEF ReloginInit, BridgeTypes, DbState, NoCode, Code
<1>3. FlowsFit
  BY ReloginAssumption DEF ReloginInit, FlowsFit, Begun, Room, Owed, Asked
<1>4. NothingYet /\ InTurn /\ LastInStep
  BY DEF ReloginInit, NothingYet, InTurn, LastInStep, Flow
<1>5. QED BY <1>1, <1>2, <1>3, <1>4 DEF ReloginInv

\* A flow is a number above zero, and NoFlow is none.
LEMMA FlowNumbers == Flow \subseteq Nat /\ NoFlow \in Nat /\ NoFlow \notin Flow /\ \A f \in Flow : f >= 1
<1>1. MaxAsks + MaxRequests + MaxFaults \in Nat
  BY ReloginAssumption
<1>2. QED BY <1>1 DEF Flow, NoFlow

-----------------------------------------------------------------------------
(* What the steps do to the threads and the sessions.                       *)

\* A step of a thread begins no session, moves no other thread, starts no process but
\* its own first one, and leaves a session alone when it only tells the result.
ThreadOnly(f) ==
    /\ pc[f] \notin {"none", "over"}
    /\ UNCHANGED <<flows, overdue, asks, requests, bridge, chat, userless>>
    /\ session'.flow = session.flow
    /\ \A g \in Flow \ {f} : pc'[g] = pc[g]
    /\ \A g \in Flow : child'[g] = "running" => child[g] = "running" \/ (g = f /\ pc[f] = "spawn")
    /\ pc[f] \in {"tell_failed", "tell_done"} =>
           pc'[f] = "over" /\ UNCHANGED <<session, woken, child, reaping>>

\* Every step of a flow thread is such a step.
LEMMA ThreadStep ==
    ASSUME LoginTypes, NEW f \in Flow, FlowStep(f)
    PROVE  ThreadOnly(f)
<1> USE DEF LoginTypes, ThreadOnly, AtFlow, GoesTo, Outside, bridge
<1>1. CASE Fork(f) BY <1>1 DEF Fork
<1>2. CASE ForkFails(f) BY <1>2 DEF ForkFails, FailLocked
<1>3. CASE UrlSeen(f) BY <1>3 DEF UrlSeen
<1>4. CASE UrlMissed(f) BY <1>4 DEF UrlMissed
<1>5. CASE PublishUrl(f) BY <1>5 DEF PublishUrl
<1>6. CASE TakeCode(f) BY <1>6 DEF TakeCode
<1>7. CASE TimedOut(f) BY <1>7 DEF TimedOut
<1>8. CASE EndWithoutCode(f) BY <1>8 DEF EndWithoutCode, FailLocked
<1>9. CASE Inject(f) BY <1>9 DEF Inject
<1>10. CASE ReadVerdict(f) BY <1>10 DEF ReadVerdict
<1>11. CASE ReadProc(f) BY <1>11 DEF ReadProc
<1>12. CASE WaitProc(f) BY <1>12 DEF WaitProc
<1>13. CASE KillProc(f) BY <1>13 DEF KillProc
<1>14. CASE Fail(f) BY <1>14 DEF Fail, FailLocked
<1>15. CASE Win(f) BY <1>15 DEF Win
<1>16. CASE PublishResult(f) BY <1>16 DEF PublishResult
<1>17. QED
  BY FlowStep(f), <1>1, <1>2, <1>3, <1>4, <1>5, <1>6, <1>7, <1>8, <1>9, <1>10, <1>11, <1>12,
     <1>13, <1>14, <1>15, <1>16 DEF FlowStep

\* The thread's own variables keep their domains.
LEMMA ThreadTypes ==
    ASSUME LoginTypes, flows \in Nat, NEW f \in Flow, f <= flows, FlowStep(f)
    PROVE  LoginTypes'
<1> USE FlowNumbers DEF LoginTypes, AtFlow, GoesTo, Outside, Active, Pc, NoFlow, NoCode
<1>1. CASE Fork(f) BY <1>1 DEF Fork
<1>2. CASE ForkFails(f) BY <1>2 DEF ForkFails, FailLocked
<1>3. CASE UrlSeen(f) BY <1>3 DEF UrlSeen
<1>4. CASE UrlMissed(f) BY <1>4 DEF UrlMissed
<1>5. CASE PublishUrl(f) BY <1>5 DEF PublishUrl
<1>6. CASE TakeCode(f) BY <1>6 DEF TakeCode
<1>7. CASE TimedOut(f) BY <1>7 DEF TimedOut
<1>8. CASE EndWithoutCode(f) BY <1>8 DEF EndWithoutCode, FailLocked
<1>9. CASE Inject(f) BY <1>9 DEF Inject
<1>10. CASE ReadVerdict(f) BY <1>10 DEF ReadVerdict
<1>11. CASE ReadProc(f) BY <1>11 DEF ReadProc
<1>12. CASE WaitProc(f) BY <1>12 DEF WaitProc
<1>13. CASE KillProc(f)
  <2>1. child' \in [Flow -> {"none", "running", "gone"}]
    BY <1>13 DEF KillProc
  <2>2. QED BY <1>13, <2>1 DEF KillProc
<1>14. CASE Fail(f) BY <1>14 DEF Fail, FailLocked
<1>15. CASE Win(f) BY <1>15 DEF Win
<1>16. CASE PublishResult(f) BY <1>16 DEF PublishResult
<1>17. QED
  BY FlowStep(f), <1>1, <1>2, <1>3, <1>4, <1>5, <1>6, <1>7, <1>8, <1>9, <1>10, <1>11, <1>12,
     <1>13, <1>14, <1>15, <1>16 DEF FlowStep

\* The thread of the present session, undisturbed, stays in step with it or ends.
LEMMA LastThreadStep ==
    ASSUME LoginTypes, NEW f \in Flow, ~overdue[f], InStep(f), FlowStep(f)
    PROVE  Ended(f)' \/ InStep(f)'
<1> USE FlowNumbers DEF LoginTypes, InStep, Ended, AtFlow, GoesTo, Outside, NoFlow, NoCode
<1>1. CASE Fork(f) BY <1>1 DEF Fork
<1>2. CASE ForkFails(f) BY <1>2 DEF ForkFails, FailLocked
<1>3. CASE UrlSeen(f) BY <1>3 DEF UrlSeen
<1>4. CASE UrlMissed(f) BY <1>4 DEF UrlMissed
<1>5. CASE PublishUrl(f) BY <1>5 DEF PublishUrl
<1>6. CASE TakeCode(f) BY <1>6 DEF TakeCode
<1>7. CASE TimedOut(f) BY <1>7 DEF TimedOut
<1>8. CASE EndWithoutCode(f) BY <1>8 DEF EndWithoutCode, FailLocked
<1>9. CASE Inject(f) BY <1>9 DEF Inject
<1>10. CASE ReadVerdict(f) BY <1>10 DEF ReadVerdict
<1>11. CASE ReadProc(f) BY <1>11 DEF ReadProc
<1>12. CASE WaitProc(f) BY <1>12 DEF WaitProc
<1>13. CASE KillProc(f) BY <1>13 DEF KillProc
<1>14. CASE Fail(f) BY <1>14 DEF Fail, FailLocked
<1>15. CASE Win(f) BY <1>15 DEF Win
<1>16. CASE PublishResult(f) BY <1>16 DEF PublishResult
<1>17. QED
  BY FlowStep(f), <1>1, <1>2, <1>3, <1>4, <1>5, <1>6, <1>7, <1>8, <1>9, <1>10, <1>11, <1>12,
     <1>13, <1>14, <1>15, <1>16 DEF FlowStep

-----------------------------------------------------------------------------
(* The sessions stay in turn, under each kind of step.                      *)

Logins == LoginTypes /\ flows \in Nat /\ NothingYet /\ InTurn /\ LastInStep

\* A step of a thread.
LEMMA LoginsAtThread ==
    ASSUME Logins, NEW f \in Flow, FlowStep(f)
    PROVE  Logins'
<1>0. LoginTypes /\ ThreadOnly(f) /\ f <= flows /\ flows \in Nat
  BY ThreadStep, FlowNumbers DEF Logins, NothingYet, ThreadOnly
<1>1. LoginTypes'
  BY <1>0, ThreadTypes
<1>2. NothingYet'
  <2> SUFFICES ASSUME NEW g \in Flow, g > flows'
               PROVE  pc'[g] = "none" /\ child'[g] = "none" /\ ~woken'[g]
    BY DEF NothingYet
  <2>1. g > flows /\ g # f /\ pc[g] = "none" /\ child[g] = "none" /\ ~woken[g]
    BY <1>0, FlowNumbers DEF ThreadOnly, Logins, NothingYet
  <2>2. pc'[g] = "none"
    BY <1>0, <2>1 DEF ThreadOnly
  <2>3. session.flow # g /\ session.proc # g /\ reaping[f] # g
    BY <1>0, <2>1, FlowNumbers DEF LoginTypes
  <2>4. child'[g] = child[g] /\ woken'[g] = woken[g]
    <3> USE <1>0, <2>1, <2>3 DEF LoginTypes, AtFlow
    <3>1. CASE Fork(f) BY <3>1 DEF Fork
    <3>2. CASE ForkFails(f) BY <3>2 DEF ForkFails, FailLocked
    <3>3. CASE UrlSeen(f) \/ UrlMissed(f) \/ PublishUrl(f) BY <3>3 DEF UrlSeen, UrlMissed, PublishUrl
    <3>4. CASE TakeCode(f) \/ TimedOut(f) BY <3>4 DEF TakeCode, TimedOut
    <3>5. CASE EndWithoutCode(f) BY <3>5 DEF EndWithoutCode, FailLocked
    <3>6. CASE Inject(f) \/ ReadVerdict(f) \/ ReadProc(f) BY <3>6 DEF Inject, ReadVerdict, ReadProc
    <3>7. CASE WaitProc(f) BY <3>7 DEF WaitProc
    <3>8. CASE KillProc(f) BY <3>8 DEF KillProc
    <3>9. CASE Fail(f) BY <3>9 DEF Fail, FailLocked
    <3>10. CASE Win(f) \/ PublishResult(f) BY <3>10 DEF Win, PublishResult
    <3>11. QED
      BY FlowStep(f), <3>1, <3>2, <3>3, <3>4, <3>5, <3>6, <3>7, <3>8, <3>9, <3>10 DEF FlowStep
  <2>5. QED BY <2>1, <2>2, <2>4
<1>3. ASSUME NEW g \in Flow, Ended(g)
      PROVE  Ended(g)' /\ (g = f => UNCHANGED <<session, woken, child, reaping>>)
  <2>1. CASE g = f
    BY <1>0, <1>3, <2>1 DEF Ended, ThreadOnly
  <2>2. CASE g # f
    BY <1>0, <1>3, <2>2 DEF Ended, ThreadOnly
  <2>3. QED BY <2>1, <2>2
<1>4. \A g \in Flow : Clean(g)' <=> Clean(g)
  BY <1>0 DEF ThreadOnly, Clean
<1>5. InTurn'
  BY <1>0, <1>3, <1>4 DEF Logins, InTurn, ThreadOnly
<1>6. LastInStep'
  <2> SUFFICES ASSUME flows \in Flow, Clean(flows), ~Ended(flows)
               PROVE  Ended(flows)' \/ InStep(flows)'
    BY <1>0, <1>3, <1>4 DEF LastInStep, ThreadOnly, Ended, InStep
  <2>1. InStep(flows) /\ ~overdue[flows]
    BY FlowNumbers DEF Logins, LastInStep, Clean
  <2>2. CASE f = flows
    <3>1. Ended(f)' \/ InStep(f)'
      BY <1>0, <2>1, <2>2, LastThreadStep
    <3>2. flows' = f
      BY <1>0, <2>2 DEF ThreadOnly
    <3>3. QED BY <3>1, <3>2 DEF Ended, InStep
  <2>3. CASE f # flows
    <3>1. Clean(f) /\ f < flows
      BY <1>0, <2>3, FlowNumbers DEF Clean
    <3>2. Ended(f)
      BY <3>1 DEF Logins, InTurn
    <3>3. UNCHANGED <<session, woken, child, reaping>> /\ pc'[flows] = pc[flows]
      BY <1>0, <1>3, <2>3, <3>2 DEF ThreadOnly
    <3>4. QED BY <2>1, <3>3, <1>0 DEF InStep, ThreadOnly
  <2>4. QED BY <2>2, <2>3
<1>7. QED BY <1>0, <1>1, <1>2, <1>5, <1>6 DEF Logins, ThreadOnly

\* A session outlives its time.
LEMMA LoginsAtExpiry ==
    ASSUME Logins, NEW f \in Flow, Expire(f)
    PROVE  Logins'
<1>1. LoginTypes' /\ flows' = flows /\ NothingYet'
  BY DEF Logins, LoginTypes, NothingYet, Expire
<1>2. \A g \in Flow : Clean(g)' => Clean(g)
  BY DEF Logins, LoginTypes, Clean, Expire
<1>3. \A g \in Flow : (Ended(g)' <=> Ended(g)) /\ (InStep(g)' <=> InStep(g))
  BY DEF Ended, InStep, Expire
<1>4. QED BY <1>1, <1>2, <1>3 DEF Logins, InTurn, LastInStep

\* A login process ends by itself.
LEMMA LoginsAtProcessEnd ==
    ASSUME Logins, NEW f \in Flow, ProcessEnds(f)
    PROVE  Logins'
<1>1. LoginTypes' /\ flows' = flows /\ overdue' = overdue
  BY DEF Logins, LoginTypes, ProcessEnds
<1>2. NothingYet'
  BY DEF Logins, LoginTypes, NothingYet, ProcessEnds
<1>3. \A g \in Flow : Clean(g)' <=> Clean(g)
  BY <1>1 DEF Clean
<1>4. \A g \in Flow : (Ended(g) => Ended(g)') /\ (InStep(g) => InStep(g)')
  BY DEF Logins, LoginTypes, Ended, InStep, ProcessEnds
<1>5. QED BY <1>1, <1>2, <1>3, <1>4 DEF Logins, InTurn, LastInStep

\* Nothing of the engine changes.
LEMMA LoginsAtRest ==
    ASSUME Logins, UNCHANGED engine
    PROVE  Logins'
BY DEF Logins, LoginTypes, NothingYet, InTurn, LastInStep, Clean, Ended, InStep, engine

\* A login is asked for: told again what is under way, or begun when the last is through.
LEMMA LoginsAtStart ==
    ASSUME Logins, NEW ui \in BOOLEAN, StartEngine(ui)
    PROVE  Logins'
<1>1. CASE UNCHANGED engine
  BY <1>1, LoginsAtRest
<1>2. CASE ~UNCHANGED engine
  <2>1. /\ ~(session.state \in Active /\ Fresh)
        /\ flows' = flows + 1
        /\ session' = [state |-> "pending_url", flow |-> flows + 1, code |-> NoCode, proc |-> NoFlow, ui |-> ui]
        /\ pc' = [pc EXCEPT ![flows + 1] = "spawn"]
        /\ UNCHANGED <<woken, overdue, child, reaping>>
    BY <1>2 DEF StartEngine, Active
  <2>2. LoginTypes'
    <3>1. session' \in [state : Active \cup {"idle", "done", "failed"}, flow : Nat,
                        code : {NoCode, "code"}, proc : Nat, ui : BOOLEAN]
      BY <2>1 DEF Logins, Active, NoFlow
    <3>2. pc' \in [Flow -> Pc]
      BY <2>1 DEF Logins, LoginTypes, Pc
    <3>3. session'.flow <= flows' /\ session'.proc <= flows' /\ \A g \in Flow : reaping[g] <= flows'
      BY <2>1 DEF Logins, LoginTypes, NoFlow
    <3>4. QED BY <2>1, <3>1, <3>2, <3>3 DEF Logins, LoginTypes
  <2>3. NothingYet'
    BY <2>1, FlowNumbers DEF Logins, LoginTypes, NothingYet
  <2>4. \A g \in Flow : Clean(g)' <=> Clean(g)
    BY <2>1 DEF Clean
  <2>5. \A g \in Flow : Ended(g) => Ended(g)'
    BY <2>1, FlowNumbers DEF Logins, LoginTypes, NothingYet, Ended
  <2>6. flows \in Flow /\ Clean(flows) => Ended(flows)
    <3> SUFFICES ASSUME flows \in Flow, Clean(flows), InStep(flows) PROVE FALSE
      BY DEF Logins, LastInStep
    <3>1. session.flow = flows /\ session.state \in Active
      BY DEF InStep, Active
    <3>2. ~overdue[flows] /\ flows # NoFlow
      BY FlowNumbers DEF Clean
    <3>3. QED BY <2>1, <3>1, <3>2 DEF Fresh
  <2>7. InTurn'
    <3> SUFFICES ASSUME NEW g \in Flow, Clean(g), g < flows + 1 PROVE Ended(g)
      BY <2>1, <2>4, <2>5 DEF InTurn
    <3>1. g < flows \/ g = flows
      BY FlowNumbers DEF Logins
    <3>2. QED BY <3>1, <2>6 DEF Logins, InTurn
  <2>8. LastInStep'
    <3> SUFFICES ASSUME NEW g \in Flow, g = flows' PROVE InStep(g)'
      BY DEF LastInStep, InStep
    <3>1. g = flows + 1
      BY <2>1
    <3>2. ~woken[g] /\ child[g] = "none"
      BY <3>1 DEF Logins, NothingYet
    <3>3. pc'[g] = "spawn"
      BY <2>1, <3>1 DEF Logins, LoginTypes
    <3>4. session'.flow = g /\ session'.state = "pending_url" /\ session'.code = NoCode
      BY <2>1, <3>1
    <3>5. QED BY <2>1, <3>2, <3>3, <3>4 DEF InStep
  <2>9. QED BY <2>1, <2>2, <2>3, <2>7, <2>8 DEF Logins
<1>3. QED BY <1>1, <1>2

\* A code is handed in, to whichever session is there.
LEMMA LoginsAtCode ==
    ASSUME Logins, NEW code \in Code, SubmitCode(code)
    PROVE  Logins'
<1>0. UNCHANGED <<pc, overdue, child, reaping, flows>>
  BY DEF SubmitCode
<1>1. LoginTypes' /\ session'.flow = session.flow
  <2>1. CASE Answer(code) = "timeout"
    BY ZenonT(30), <2>1, <1>0 DEF Logins, LoginTypes, SubmitCode, FailLocked, Active
  <2>2. CASE Answer(code) = "ok"
    <3>1. code = "code"
      BY <2>2 DEF Answer, Code, Logins, LoginTypes
    <3>2. /\ session' = [session EXCEPT !.state = "verifying", !.code = "code"]
          /\ woken' = [woken EXCEPT ![session.flow] = TRUE]
      BY <2>2, <3>1 DEF SubmitCode
    <3>3. QED BY <3>2, <1>0 DEF Logins, LoginTypes, Active
  <2>3. CASE Answer(code) \notin {"timeout", "ok"}
    BY <2>3, <1>0 DEF Logins, LoginTypes, SubmitCode
  <2>4. QED BY <2>1, <2>2, <2>3
<1>2. \A g \in Flow : g # session.flow => woken'[g] = woken[g]
  BY DEF Logins, LoginTypes, SubmitCode, FailLocked
<1>3. NothingYet'
  BY <1>0, <1>2, FlowNumbers DEF Logins, LoginTypes, NothingYet
<1>4. \A g \in Flow : (Clean(g)' <=> Clean(g)) /\ (Ended(g)' <=> Ended(g))
  BY <1>0 DEF Clean, Ended
<1>5. LastInStep'
  <2> SUFFICES ASSUME flows \in Flow, Clean(flows), InStep(flows)
               PROVE  InStep(flows)'
    BY <1>0, <1>4 DEF Logins, LastInStep
  <2>1. session.flow = flows /\ Fresh
    BY FlowNumbers DEF InStep, Fresh, Clean
  <2>2. CASE session.state # "waiting_code"
    BY <1>0, <2>1, <2>2 DEF SubmitCode, Answer, InStep
  <2>3. CASE session.state = "waiting_code"
    <3>1. /\ pc[flows] \in {"tell_page", "tell_chat", "wait"} /\ session.proc = flows
          /\ Answer(code) # "timeout"
      BY <2>1, <2>3 DEF InStep, Answer
    <3>2. CASE code = "junk"
      BY <1>0, <2>1, <2>3, <3>2 DEF SubmitCode, Answer, InStep
    <3>3. CASE code # "junk"
      <4>1. Answer(code) = "ok" /\ code # NoCode
        BY <2>1, <2>3, <3>3 DEF Answer, Code, NoCode
      <4>2. /\ session'.state = "verifying" /\ session'.code # NoCode /\ session'.proc = session.proc
            /\ session'.flow = flows /\ woken'[flows]
        BY <4>1, <2>1 DEF SubmitCode, Logins, LoginTypes
      <4>3. QED BY <1>0, <3>1, <4>2 DEF InStep
    <3>4. QED BY <3>2, <3>3
  <2>4. QED BY <2>2, <2>3
<1>6. QED BY <1>0, <1>1, <1>3, <1>4, <1>5 DEF Logins, InTurn

\* The daemon dies: every thread is through and no process of its runs.
LEMMA LoginsAtCrash ==
    ASSUME Logins, Crash
    PROVE  Logins'
<1>1. flows' = flows /\ overdue' = overdue /\ woken' = woken
  BY DEF Crash
<1>2. LoginTypes'
  BY FlowNumbers DEF Logins, LoginTypes, Crash, NoSession, NoFlow, NoCode, Pc
<1>3. NothingYet'
  BY DEF Logins, NothingYet, Crash
<1>4. ASSUME NEW g \in Flow, g <= flows, Clean(g)
      PROVE  Ended(g)'
  <2>1. pc[g] # "none"
    BY <1>4, FlowNumbers DEF Logins, InTurn, LastInStep, Ended, InStep
  <2>2. QED BY <2>1 DEF Crash, Ended
<1>5. InTurn' /\ LastInStep'
  BY <1>1, <1>4, FlowNumbers DEF InTurn, LastInStep, Clean, Logins
<1>6. QED BY <1>1, <1>2, <1>3, <1>5 DEF Logins

-----------------------------------------------------------------------------
(* The page's two fields and the poll; sessions do not outnumber what was asked. *)

\* An owed login counts as one.
LEMMA OwedIsOne == Owed \in 0..1 /\ Owed' \in 0..1
BY DEF Owed

\* What is begun or owed grows by one session or one owed login at most.
LEMMA BegunGrows ==
    ASSUME flows \in Nat, flows' \in Nat
    PROVE  /\ Begun \in Nat /\ Begun' \in Nat
           /\ flows' <= flows => Begun' <= Begun + 1
           /\ flows' <= flows /\ Owed' <= Owed => Begun' <= Begun
           /\ flows' <= flows + 1 /\ Owed' <= Owed => Begun' <= Begun + 1
           /\ flows' <= flows + 1 /\ Owed = 1 /\ Owed' = 0 => Begun' <= Begun
<1>1. PICK n \in Nat : n = flows
  OBVIOUS
<1>2. PICK m \in Nat : m = flows'
  OBVIOUS
<1>3. PICK o \in 0..1 : o = Owed
  BY OwedIsOne
<1>4. PICK p \in 0..1 : p = Owed'
  BY OwedIsOne
<1>5. Begun = n + o /\ Begun' = m + p
  BY <1>1, <1>2, <1>3, <1>4 DEF Begun
<1>6. n + o \in Nat /\ m + p \in Nat
  OBVIOUS
<1>7. ASSUME m <= n PROVE m + p <= (n + o) + 1 /\ (p <= o => m + p <= n + o)
  BY <1>7
<1>8. ASSUME m <= n + 1
      PROVE  (p <= o => m + p <= (n + o) + 1) /\ (o = 1 /\ p = 0 => m + p <= n + o)
  BY <1>8
<1>9. QED BY <1>1, <1>2, <1>3, <1>4, <1>5, <1>6, <1>7, <1>8

\* A login asked for, or a fault, makes room for one more.
LEMMA RoomGrows ==
    ASSUME FlowsFit
    PROVE  /\ Asked \in Nat /\ Room \in Nat /\ faults \in Nat
           /\ Asked' = Asked /\ faults' = faults + 1 => Room' = Room + 1
           /\ Asked' = Asked + 1 /\ faults' = faults => Room' = Room + 1
<1>1. PICK a \in Nat, q \in Nat, n \in Nat : a = asks /\ q = requests /\ n = faults
  BY ReloginAssumption DEF FlowsFit
<1>2. Asked = a + q /\ Room = Asked + n
  BY <1>1 DEF Asked, Room
<1>3. Room' = Asked' + faults'
  BY DEF Room
<1>4. QED BY <1>1, <1>2, <1>3

\* A step at which no session begins and nobody asks: a login may come to be owed by
\* a fault only.
LEMMA FitsAtRest ==
    ASSUME FlowsFit, UNCHANGED <<flows, asks, requests>>, UNCHANGED faults \/ Fault,
           Owed' <= Owed \/ Fault
    PROVE  FlowsFit'
<1>1. Asked' = Asked /\ flows \in Nat /\ flows' = flows /\ Begun <= Room
  BY DEF Asked, FlowsFit
<1>2. faults' \in 0..MaxFaults /\ (Fault => faults' = faults + 1)
  BY ReloginAssumption DEF FlowsFit, Fault
<1>3. CASE Fault
  <2>1. Room' = Room + 1 /\ Room \in Nat
    BY <1>1, <1>2, <1>3, RoomGrows
  <2>2. Begun' <= Begun + 1 /\ Begun \in Nat /\ Begun' \in Nat
    BY <1>1, BegunGrows
  <2>3. Begun' <= Room'
    BY <1>1, <2>1, <2>2
  <2>4. QED BY <1>1, <1>2, <2>3 DEF FlowsFit
<1>4. CASE ~Fault
  <2>1. Room' = Room /\ Room \in Nat
    BY <1>1, <1>4, RoomGrows DEF Room
  <2>2. Begun' <= Begun /\ Begun \in Nat /\ Begun' \in Nat
    BY <1>1, <1>4, BegunGrows
  <2>3. Begun' <= Room'
    BY <1>1, <2>1, <2>2
  <2>4. QED BY <1>1, <1>2, <2>3 DEF FlowsFit
<1>5. QED BY <1>3, <1>4

\* What the database holds after a PATCH that asks for nothing.
LEMMA AfterPatch ==
    ASSUME BridgeTypes, FlowsFit, NEW state \in DbState \ {"requested"}, NEW code \in Code \cup {NoCode},
           Patch(state, code)
    PROVE  /\ db' \in [state : DbState, code : Code \cup {NoCode}]
           /\ db'.state = "requested" => db.state = "requested"
           /\ UNCHANGED faults \/ Fault
BY DEF Patch, BridgeTypes

\* A step that leaves the poll alone and asks for nothing in the database.
LEMMA BridgeAtPatch ==
    ASSUME BridgeTypes, FlowsFit, UNCHANGED <<bridge, chat, userless, flows, asks, requests>>,
           db' \in [state : DbState, code : Code \cup {NoCode}],
           db'.state = "requested" => db.state = "requested",
           UNCHANGED faults \/ Fault
    PROVE  BridgeTypes' /\ FlowsFit'
<1>1. BridgeTypes'
  BY DEF BridgeTypes, bridge
<1>2. Owed' <= Owed
  BY DEF Owed, bridge
<1>3. QED BY <1>1, <1>2, FitsAtRest

\* A step of a thread, whose word to the page may get lost.
LEMMA BridgeAtThread ==
    ASSUME LoginTypes, BridgeTypes, FlowsFit, NEW f \in Flow, FlowStep(f)
    PROVE  BridgeTypes' /\ FlowsFit'
<1>1. UNCHANGED <<bridge, chat, userless, flows, asks, requests>>
  BY ThreadStep DEF ThreadOnly
<1>2. db \in [state : DbState, code : Code \cup {NoCode}] /\ db.code \in Code \cup {NoCode}
  BY DEF BridgeTypes
<1>3. /\ db' \in [state : DbState, code : Code \cup {NoCode}]
      /\ db'.state = "requested" => db.state = "requested"
      /\ UNCHANGED faults \/ Fault
  <2>1. CASE PublishUrl(f)
    BY <2>1, <1>2, AfterPatch DEF PublishUrl, DbState
  <2>2. CASE PublishResult(f)
    BY <2>2, <1>2, AfterPatch DEF PublishResult, DbState
  <2>3. CASE ForkFails(f)
    BY <2>3, <1>2 DEF ForkFails
  <2>4. CASE Fork(f) \/ UrlSeen(f) \/ UrlMissed(f) \/ TakeCode(f) \/ TimedOut(f)
    BY <2>4, <1>2 DEF Fork, UrlSeen, UrlMissed, TakeCode, TimedOut
  <2>5. CASE EndWithoutCode(f) \/ Inject(f) \/ ReadVerdict(f) \/ ReadProc(f) \/ WaitProc(f)
    BY <2>5, <1>2 DEF EndWithoutCode, Inject, ReadVerdict, ReadProc, WaitProc
  <2>6. CASE KillProc(f) \/ Fail(f) \/ Win(f)
    BY <2>6, <1>2 DEF KillProc, Fail, Win
  <2>7. QED BY FlowStep(f), <2>1, <2>2, <2>3, <2>4, <2>5, <2>6 DEF FlowStep
<1>4. QED BY <1>1, <1>3, BridgeAtPatch

\* A login begun in the chat has been asked for; one begun by the poll was owed.
LEMMA BridgeAtStart ==
    ASSUME BridgeTypes, FlowsFit, AskInChat \/ PollStarts
    PROVE  BridgeTypes' /\ FlowsFit'
<1>1. flows' \in Nat /\ flows' <= flows + 1
  BY DEF FlowsFit, AskInChat, PollStarts, StartEngine, engine
<1>2. BridgeTypes'
  BY DEF BridgeTypes, AskInChat, PollStarts, bridge
<1>3. flows \in Nat /\ Begun <= Room
  BY DEF FlowsFit
<1>4. CASE AskInChat
  <2>1. Owed' = Owed
    BY <1>4 DEF AskInChat, Owed, bridge
  <2>2. asks' \in 0..MaxAsks /\ asks' = asks + 1 /\ UNCHANGED <<requests, faults>>
    BY <1>4, ReloginAssumption DEF AskInChat, FlowsFit
  <2>3. Asked' = Asked + 1
    BY <2>2, ReloginAssumption DEF FlowsFit, Asked
  <2>4. Room' = Room + 1 /\ Room \in Nat
    BY <2>2, <2>3, RoomGrows
  <2>5. Begun' <= Begun + 1 /\ Begun \in Nat /\ Begun' \in Nat
    BY <1>1, <1>3, <2>1, OwedIsOne, BegunGrows
  <2>6. Begun' <= Room'
    BY <1>3, <2>4, <2>5
  <2>7. QED BY <1>1, <1>2, <2>2, <2>6 DEF FlowsFit
<1>5. CASE PollStarts
  <2>1. Owed = 1 /\ Owed' = 0
    BY <1>5 DEF PollStarts, Owed, BridgeTypes
  <2>2. Begun' <= Begun /\ Begun \in Nat /\ Begun' \in Nat
    BY <1>1, <1>3, <2>1, BegunGrows
  <2>3. UNCHANGED <<asks, requests, faults>>
    BY <1>5 DEF PollStarts
  <2>4. Room' = Room /\ Room \in Nat
    BY <2>3, RoomGrows DEF Room, Asked
  <2>5. Begun' <= Room'
    BY <1>3, <2>2, <2>4
  <2>6. QED BY <1>1, <1>2, <2>3, <2>5 DEF FlowsFit
<1>6. QED BY <1>4, <1>5

\* A code is caught in the chat, or handed in from there.
LEMMA BridgeAtChat ==
    ASSUME BridgeTypes, FlowsFit, CatchCode \/ HandInCode
    PROVE  BridgeTypes' /\ FlowsFit'
<1>1. BridgeTypes' /\ UNCHANGED <<flows, asks, requests, faults>> /\ Owed' = Owed
  BY DEF BridgeTypes, CatchCode, HandInCode, SubmitCode, Code, bridge, engine, Owed
<1>2. QED BY <1>1, OwedIsOne, FitsAtRest

\* The user asks for a login on the page, or enters a code there.
LEMMA BridgeAtUser ==
    ASSUME BridgeTypes, FlowsFit, Request \/ EnterCode
    PROVE  BridgeTypes' /\ FlowsFit'
<1>1. CASE Request
  <2>1. BridgeTypes'
    BY <1>1 DEF BridgeTypes, Request, DbState, bridge
  <2>2. requests' \in 0..MaxRequests /\ requests' = requests + 1 /\ UNCHANGED <<flows, asks, faults>>
    BY <1>1, ReloginAssumption DEF Request, FlowsFit, engine
  <2>3. Asked' = Asked + 1
    BY <2>2, ReloginAssumption DEF FlowsFit, Asked
  <2>4. Room' = Room + 1 /\ Room \in Nat
    BY <2>2, <2>3, RoomGrows
  <2>5. Begun' <= Begun + 1 /\ Begun \in Nat /\ Begun' \in Nat
    BY <2>2, BegunGrows DEF FlowsFit
  <2>6. Begun' <= Room'
    BY <2>4, <2>5 DEF FlowsFit
  <2>7. QED BY <2>1, <2>2, <2>6 DEF FlowsFit
<1>2. CASE EnterCode
  <2>1. BridgeTypes' /\ UNCHANGED <<flows, asks, requests, faults>>
    BY <1>2 DEF BridgeTypes, EnterCode, DbState, bridge, engine
  <2>2. Owed' <= Owed
    BY <1>2 DEF EnterCode, Owed, bridge
  <2>3. QED BY <2>1, <2>2, FitsAtRest
<1>3. QED BY <1>1, <1>2

\* The poll sees that a login is over, or sees nothing.
LEMMA BridgeAtEnd ==
    ASSUME BridgeTypes, FlowsFit, PollSeesEnd \/ PollReadsNothing
    PROVE  BridgeTypes' /\ FlowsFit'
<1>1. BridgeTypes' /\ UNCHANGED <<flows, asks, requests>>
  BY DEF BridgeTypes, PollSeesEnd, PollReadsNothing, PollsNow, engine
<1>2. CASE PollSeesEnd
  BY <1>1, <1>2, FitsAtRest DEF PollSeesEnd, Owed
<1>3. CASE PollReadsNothing
  BY <1>1, <1>3, FitsAtRest DEF PollReadsNothing
<1>4. QED BY <1>2, <1>3

\* The poll takes a request up and marks it.
LEMMA BridgeAtRequest ==
    ASSUME BridgeTypes, FlowsFit, PollSeesRequest \/ PollMarks
    PROVE  BridgeTypes' /\ FlowsFit'
<1>1. UNCHANGED <<flows, asks, requests>> /\ Owed = 1
  BY DEF PollSeesRequest, PollMarks, PollsNow, engine, Owed
<1>2. BridgeTypes' /\ (UNCHANGED faults \/ Fault)
  <2>1. CASE PollSeesRequest
    BY <2>1 DEF BridgeTypes, PollSeesRequest, PollsNow
  <2>2. CASE PollMarks
    <3>1. /\ db' \in [state : DbState, code : Code \cup {NoCode}]
          /\ UNCHANGED faults \/ Fault
      BY <2>2, AfterPatch DEF PollMarks, DbState, BridgeTypes
    <3>2. QED BY <2>2, <3>1 DEF BridgeTypes, PollMarks
  <2>3. QED BY <2>1, <2>2
<1>3. QED BY <1>1, <1>2, OwedIsOne, FitsAtRest

\* The poll takes a code up, hands it in and records the answer.
LEMMA BridgeAtPollCode ==
    ASSUME BridgeTypes, FlowsFit, PollSeesCode \/ PollSubmits \/ PollRecords
    PROVE  BridgeTypes' /\ FlowsFit'
<1>1. CASE PollSeesCode
  BY <1>1, FitsAtRest DEF BridgeTypes, PollSeesCode, PollsNow, Owed, engine
<1>2. CASE PollSubmits
  BY <1>2, FitsAtRest DEF BridgeTypes, PollSubmits, SubmitCode, Owed
<1>3. CASE PollRecords
  <2>1. /\ db' \in [state : DbState, code : Code \cup {NoCode}]
        /\ db'.state = "requested" => db.state = "requested"
        /\ UNCHANGED faults \/ Fault
    BY <1>3, AfterPatch DEF PollRecords, DbState
  <2>2. BridgeTypes' /\ UNCHANGED <<flows, asks, requests>> /\ Owed' <= Owed
    BY <1>3, <2>1 DEF BridgeTypes, PollRecords, Owed, engine
  <2>3. QED BY <2>1, <2>2, FitsAtRest
<1>4. QED BY <1>1, <1>2, <1>3

\* The daemon dies.
LEMMA BridgeAtCrash ==
    ASSUME BridgeTypes, FlowsFit, Crash
    PROVE  BridgeTypes' /\ FlowsFit'
<1>1. BridgeTypes' /\ UNCHANGED <<flows, asks, requests>> /\ Fault
  BY DEF BridgeTypes, Crash
<1>2. QED BY <1>1, FitsAtRest

\* A thread's time passes or its process ends: the bridge does not notice.
LEMMA BridgeAtFlow ==
    ASSUME BridgeTypes, FlowsFit, NEW f \in Flow, Expire(f) \/ ProcessEnds(f)
    PROVE  BridgeTypes' /\ FlowsFit'
<1>1. UNCHANGED <<bridge, chat, userless, flows, asks, requests, db, faults>>
  BY DEF Expire, ProcessEnds, Outside
<1>2. QED BY <1>1, BridgeAtPatch DEF BridgeTypes

-----------------------------------------------------------------------------
\* Every step keeps the invariant.
LEMMA ReloginInvStep == ReloginInv /\ [ReloginNext]_reloginVars => ReloginInv'
<1> SUFFICES ASSUME ReloginInv, [ReloginNext]_reloginVars PROVE ReloginInv'
  OBVIOUS
<1>0. Logins /\ LoginTypes /\ BridgeTypes /\ FlowsFit
  BY DEF ReloginInv, Logins, FlowsFit
<1> SUFFICES Logins' /\ BridgeTypes' /\ FlowsFit'
  BY DEF ReloginInv, Logins
<1>1. ASSUME NEW f \in Flow, FlowStep(f) PROVE Logins' /\ BridgeTypes' /\ FlowsFit'
  BY <1>0, <1>1, LoginsAtThread, BridgeAtThread
<1>2. ASSUME NEW f \in Flow, Expire(f) \/ ProcessEnds(f) PROVE Logins' /\ BridgeTypes' /\ FlowsFit'
  BY <1>0, <1>2, LoginsAtExpiry, LoginsAtProcessEnd, BridgeAtFlow
<1>3. CASE AskInChat \/ PollStarts
  BY <1>0, <1>3, LoginsAtStart, BridgeAtStart DEF AskInChat, PollStarts
<1>4. CASE CatchCode \/ HandInCode
  <2>1. CASE CatchCode
    BY <1>0, <1>4, <2>1, LoginsAtRest, BridgeAtChat DEF CatchCode
  <2>2. CASE HandInCode
    <3>1. chat \in Code
      BY <1>0, <2>2 DEF HandInCode, BridgeTypes
    <3>2. QED BY <1>0, <1>4, <2>2, <3>1, LoginsAtCode, BridgeAtChat DEF HandInCode
  <2>3. QED BY <1>4, <2>1, <2>2
<1>5. CASE Request \/ EnterCode
  BY <1>0, <1>5, LoginsAtRest, BridgeAtUser DEF Request, EnterCode
<1>6. CASE PollSeesEnd \/ PollReadsNothing
  BY <1>0, <1>6, LoginsAtRest, BridgeAtEnd DEF PollSeesEnd, PollReadsNothing
<1>7. CASE PollSeesRequest \/ PollMarks
  BY <1>0, <1>7, LoginsAtRest, BridgeAtRequest DEF PollSeesRequest, PollMarks
<1>8. CASE PollSeesCode \/ PollSubmits \/ PollRecords
  <2>1. CASE PollSeesCode \/ PollRecords
    BY <1>0, <1>8, <2>1, LoginsAtRest, BridgeAtPollCode DEF PollSeesCode, PollRecords
  <2>2. CASE PollSubmits
    <3>1. polled \in Code
      BY <1>0, <2>2 DEF PollSubmits, BridgeTypes
    <3>2. QED BY <1>0, <1>8, <2>2, <3>1, LoginsAtCode, BridgeAtPollCode DEF PollSubmits
  <2>3. QED BY <1>8, <2>1, <2>2
<1>9. CASE Crash
  BY <1>0, <1>9, LoginsAtCrash, BridgeAtCrash
<1>10. CASE UNCHANGED reloginVars
  <2>1. UNCHANGED <<engine, bridge, chat, userless, flows, asks, requests, db, faults>>
    BY <1>10 DEF reloginVars, engine
  <2>2. QED BY <1>0, <2>1, LoginsAtRest, BridgeAtPatch DEF BridgeTypes
<1>11. QED
  BY <1>1, <1>2, <1>3, <1>4, <1>5, <1>6, <1>7, <1>8, <1>9, <1>10 DEF ReloginNext, PollStep

\* The inductive invariant of the logins holds throughout.
THEOREM ReloginInvariant == ReloginSpec => []ReloginInv
BY ReloginInvInit, ReloginInvStep, PTL DEF ReloginSpec

\* The variables keep their domains: no more sessions are begun than were asked for in
\* the chat, by a 401 or on the page, or begun again after a fault
\* (relogin_settings.py:60-69).
THEOREM ReloginTypes == ReloginSpec => []ReloginTypeOK
<1>1. ReloginInv => ReloginTypeOK
  <2> SUFFICES ASSUME ReloginInv PROVE ReloginTypeOK
    OBVIOUS
  <2>1. flows \in 0..(MaxAsks + MaxRequests + MaxFaults)
    <3>1. Begun <= Room /\ flows \in Nat /\ flows <= Begun
      BY OwedIsOne DEF ReloginInv, FlowsFit, Begun
    <3>2. Asked \in 0..(MaxAsks + MaxRequests)
      BY ReloginAssumption DEF ReloginInv, FlowsFit, Asked
    <3>3. faults \in 0..MaxFaults
      BY DEF ReloginInv, FlowsFit
    <3>4. Room \in 0..(MaxAsks + MaxRequests + MaxFaults)
      BY <3>2, <3>3, ReloginAssumption DEF Room
    <3>5. Begun \in Nat
      BY <3>1, OwedIsOne DEF Begun
    <3>6. QED BY <3>1, <3>4, <3>5, ReloginAssumption
  <2>2. \A n \in Nat : n <= flows => n \in Flow \cup {NoFlow}
    BY <2>1, ReloginAssumption DEF Flow, NoFlow
  <2>3. flows \in Flow \cup {0}
    BY <2>1, ReloginAssumption DEF Flow
  <2>4. /\ session \in [state : Active \cup {"idle", "done", "failed"}, flow : Flow \cup {NoFlow},
                        code : {NoCode, "code"}, proc : Flow \cup {NoFlow}, ui : BOOLEAN]
        /\ reaping \in [Flow -> Flow \cup {NoFlow}]
    BY <2>2 DEF ReloginInv, LoginTypes
  <2>5. QED BY <2>3, <2>4 DEF ReloginInv, LoginTypes, BridgeTypes, FlowsFit, ReloginTypeOK
<1>2. QED BY <1>1, ReloginInvariant, PTL

\* As long as logins end within their ten minutes, no login process runs beside the
\* thread of a later session, however the chat, the settings page, lost calls and
\* crashes mix (ReloginSession.start and the ends of a flow thread).
THEOREM OneLoginWhileFresh == ReloginSpec => []OneWhileFresh
<1>1. ReloginInv => OneWhileFresh
  <2> SUFFICES ASSUME ReloginInv, NEW f \in Flow, NEW g \in Flow, f < g, child[f] = "running", pc[g] # "none"
               PROVE  \E e \in 1..f : overdue[e]
    BY DEF OneWhileFresh
  <2>1. f < flows
    BY FlowNumbers DEF ReloginInv, NothingYet, FlowsFit
  <2>2. ~Clean(f)
    BY <2>1 DEF ReloginInv, InTurn, Ended
  <2>3. QED BY <2>2, FlowNumbers DEF Clean
<1>2. QED BY <1>1, ReloginInvariant, PTL

-----------------------------------------------------------------------------
(* SessionStore: who may drop a session, and what the file says of it.      *)

\* What a turn and a saver record hold.
TurnRecord == [at : {"idle", "moving", "run", "command"}, sid : 1..MaxSids \cup {None}, lost : BOOLEAN]
SaverRecord == [step : {"no", "copy", "write"}, data : Store]

\* An id that a key's entry, its turn, a copy under way or the file names for it.
Names(k, s) ==
    \/ sessions[k] # None /\ sessions[k].sid = s
    \/ turn[k].sid # None /\ turn[k].sid = s
    \/ \E t \in Thread : saver[t].data[k] # None /\ saver[t].data[k].sid = s
    \/ file \notin {Empty, Mixed} /\ file[k] # None /\ file[k].sid = s

\* A session is one key's, and Claude has opened it.
OwnIds ==
    /\ \A s \in 1..MaxSids, j, k \in Key : Names(j, s) /\ Names(k, s) => j = k
    /\ \A s \in 1..MaxSids, k \in Key : Names(k, s) => s <= opened
    /\ \A s \in gone : s <= opened

\* What is dropped is in no entry, and in no turn but one it was taken from.
DroppedKnown ==
    /\ DroppedStaysDropped
    /\ \A k \in Key : turn[k].sid # None /\ ~turn[k].lost => turn[k].sid \notin gone

\* As long as the file is not known to be behind, one thread at most writes, into
\* an emptied file, and what it writes is up to date unless a save is about to begin.
SavesInStep ==
    up /\ ~unsettled =>
        /\ \A t, u \in Thread : saver[t].step = "write" /\ saver[u].step = "write" => t = u
        /\ \A t \in Thread : saver[t].step = "write" =>
              file = Empty /\ ((\A u \in Thread : saver[u].step # "copy") => saver[t].data = sessions)
        /\ (\A t \in Thread : ~Saving(t)) => file = sessions

\* Between two lives nobody saves, and the file says nothing that was dropped.
NobodySaves ==
    ~up =>
        /\ \A t \in Thread : ~Saving(t)
        /\ ~unsettled /\ file \notin {Empty, Mixed} =>
              \A k \in Key : file[k] # None => file[k].sid \notin gone

\* The hygiene thread saves nothing while it waits for a summary; it makes one
\* for each candidate at most.
CycleKept ==
    /\ hygiene.at \in Key => ~Saving(Hygiene) /\ hygiene.at \in hygiene.todo
    /\ hygiene.made + Cardinality(hygiene.todo) <= Cardinality(Key)

\* A request that is owed is in the file, and is what the main loop has read.
OwedKept ==
    /\ owed \subseteq {pending}
    /\ main # None => owed \subseteq {main}
    /\ asking # None => pending \in {Empty, NoFile}

Stored == OwnIds /\ DroppedKnown /\ SavesInStep /\ NobodySaves
StoreInv == StoreTypeOK /\ Stored /\ CycleKept /\ OwedKept

-----------------------------------------------------------------------------
(* The kinds of steps, as far as the entries, the turns and the file go.    *)

StoreRests == UNCHANGED <<sessions, file, saver, turn, up, opened, gone, unsettled>>

\* A thread that is not saving drops the entry of a key, and saves; the turn of the
\* key is overtaken, or is the one that does it.
Drops(t, k) ==
    /\ up /\ ~Saving(t) /\ ResetSession(t, k)
    /\ \/ turn' = [turn EXCEPT ![k] = NoTurn]
       \/ turn' = [turn EXCEPT ![k] = [NoTurn EXCEPT !.at = "run"]]
       \/ Overtake(k)
    /\ UNCHANGED <<file, up, opened, unsettled>>

\* A turn begins with the id of its entry or with none, ends, or becomes a command.
Moves(k) ==
    /\ \E w \in TurnRecord :
          /\ turn' = [turn EXCEPT ![k] = w]
          /\ \/ w.sid = None
             \/ w.sid = turn[k].sid /\ w.lost = turn[k].lost
             \/ w.sid = ReadSid(k)
    /\ UNCHANGED <<sessions, file, saver, up, opened, gone, unsettled>>

StoreKinds ==
    \/ StoreRests
    \/ \E t \in Thread : Copy(t) \/ Write(t) \/ WriteFails(t) \/ \E k \in Key : Drops(t, k)
    \/ \E k \in Key : Moves(k) \/ EndTurn(k)
    \/ PreSave \/ DaemonDies \/ Restart

\* Every step is of one of these kinds.
LEMMA StoreKindsAll ==
  ASSUME StoreTypeOK, CycleKept, [StoreNext]_storeVars
  PROVE  StoreKinds
<1> USE StoreAssumption
<1>1. ASSUME NEW k \in Key, SessionTurn(k) PROVE StoreKinds
  <2>1. k \in Thread
    BY DEF Thread
  <2>2. CASE StartTurn(k)
    <3> DEFINE w1 == [at |-> "run", sid |-> ReadSid(k), lost |-> FALSE]
              w2 == [at |-> "moving", sid |-> ReadSid(k), lost |-> FALSE]
    <3>a. ReadSid(k) \in 1..MaxSids \cup {None}
      BY DEF ReadSid, StoreTypeOK, Store, Entry
    <3>b. w1 \in TurnRecord /\ w2 \in TurnRecord /\ w1.sid = ReadSid(k) /\ w2.sid = ReadSid(k)
      BY <3>a DEF TurnRecord
    <3>c. turn' = [turn EXCEPT ![k] = w1] \/ turn' = [turn EXCEPT ![k] = w2]
      BY <2>2 DEF StartTurn, NoTurn
    <3> HIDE DEF w1, w2
    <3>1. PICK w \in TurnRecord : turn' = [turn EXCEPT ![k] = w] /\ w.sid = ReadSid(k)
      BY <3>b, <3>c
    <3>2. Moves(k)
      BY <2>2, <3>1 DEF StartTurn, Moves, resetFile, counters
    <3>3. QED BY <3>2 DEF StoreKinds
  <2>3. CASE DropOldAccount(k) \/ TurnOverflows(k) \/ ResetAfterSummary(k)
    <3>1. Drops(k, k)
      BY <2>3 DEF DropOldAccount, TurnOverflows, ResetAfterSummary, Drops, Free, resetFile, counters
    <3>2. QED BY <2>1, <3>1 DEF StoreKinds
  <2>4. CASE EndTurn(k)
    BY <2>4 DEF StoreKinds
  <2>5. CASE TurnFails(k)
    <3>0. NoTurn \in TurnRecord /\ NoTurn.sid = None
      BY DEF NoTurn, TurnRecord
    <3>1. PICK w \in TurnRecord : turn' = [turn EXCEPT ![k] = w] /\ w.sid = None
      BY <2>5, <3>0 DEF TurnFails
    <3>2. Moves(k)
      BY <2>5, <3>1 DEF TurnFails, Moves, resetFile, counters
    <3>3. QED BY <3>2 DEF StoreKinds
  <2>6. CASE ResetCommand(k)
    <3>0. [turn[k] EXCEPT !.at = "command"] \in TurnRecord
      BY DEF StoreTypeOK, TurnRecord
    <3>1. PICK w \in TurnRecord : w = [turn[k] EXCEPT !.at = "command"]
      BY <3>0
    <3>2. w.sid = turn[k].sid /\ w.lost = turn[k].lost
      BY <3>1 DEF StoreTypeOK
    <3>3. turn' = [turn EXCEPT ![k] = w]
      BY <2>6, <3>1 DEF ResetCommand, StoreTypeOK
    <3>4. Moves(k)
      BY <2>6, <3>2, <3>3 DEF ResetCommand, Moves, resetFile, counters
    <3>5. QED BY <3>4 DEF StoreKinds
  <2>7. QED BY <1>1, <2>2, <2>3, <2>4, <2>5, <2>6 DEF SessionTurn
<1>2. ASSUME NEW k \in Key, HygieneStep(k) PROVE StoreKinds
  <2>1. Hygiene \in Thread
    BY DEF Thread
  <2>2. CASE ResetStale(k)
    <3>1. Drops(Hygiene, k)
      BY <2>2 DEF ResetStale, Drops, Free, resetFile, counters
    <3>2. QED BY <2>1, <3>1 DEF StoreKinds
  <2>3. CASE SummarySaved(k)
    <3>1. ~Saving(Hygiene)
      BY <2>3 DEF SummarySaved, CycleKept
    <3>2. Drops(Hygiene, k)
      BY <2>3, <3>1 DEF SummarySaved, Drops, resetFile, counters
    <3>3. QED BY <2>1, <3>2 DEF StoreKinds
  <2>4. CASE SummaryFails(k)
    <3>1. ~Saving(Hygiene)
      BY <2>4 DEF SummaryFails, CycleKept
    <3>2. Drops(Hygiene, k) \/ StoreRests
      BY <2>4, <3>1 DEF SummaryFails, Drops, StoreRests, resetFile, counters
    <3>3. QED BY <2>1, <3>2 DEF StoreKinds
  <2>5. CASE Defer(k) \/ Summarise(k)
    BY <2>5 DEF Defer, Summarise, StoreKinds, StoreRests, resetFile, counters
  <2>6. QED BY <1>2, <2>2, <2>3, <2>4, <2>5 DEF HygieneStep
<1>2a. ASSUME NEW k \in Key, SummaryHangs(k) PROVE StoreKinds
  BY <1>2a DEF SummaryHangs, StoreKinds, StoreRests, resetFile, counters
<1>3. ASSUME NEW k \in Key, ResetPending(k) PROVE StoreKinds
  <2>1. Main \in Thread
    BY DEF Thread
  <2>2. Drops(Main, k)
    BY <1>3 DEF ResetPending, Drops, Free, resetFile, counters
  <2>3. QED BY <2>1, <2>2 DEF StoreKinds
<1>4. ASSUME NEW k \in Key, GrowsHeavy(k) \/ AskOpen(k) PROVE StoreKinds
  BY <1>4 DEF GrowsHeavy, AskOpen, StoreKinds, StoreRests, resetFile, counters
<1>5. CASE Collect \/ EndCycle \/ AskWrite \/ ReadPending \/ UnlinkPending
  BY <1>5 DEF Collect, EndCycle, AskWrite, ReadPending, UnlinkPending, StoreKinds, StoreRests, resetFile, counters
<1>6. CASE PreSave \/ DaemonDies \/ Restart
  BY <1>6 DEF StoreKinds
<1>7. ASSUME NEW t \in Thread, SaveStep(t) \/ WriteFails(t) PROVE StoreKinds
  BY <1>7 DEF SaveStep, StoreKinds
<1>8. CASE UNCHANGED storeVars
  BY <1>8 DEF storeVars, StoreKinds, StoreRests, counters
<1>9. QED
  BY <1>1, <1>2, <1>2a, <1>3, <1>4, <1>5, <1>6, <1>7, <1>8 DEF StoreNext

-----------------------------------------------------------------------------
(* What each kind does to the four parts about ids and saves.               *)

\* Nobody names an id for a key that was not named for it before.
Narrows == \A k \in Key, s \in 1..MaxSids : Names(k, s)' => Names(k, s)

\* Fewer names, and of what is gone only what was gone or named: ids stay apart.
LEMMA OwnIdsNarrowed ==
  ASSUME OwnIds, Narrows, opened' = opened,
         \A s \in gone' : s \in gone \/ \E k \in Key : s \in 1..MaxSids /\ Names(k, s)
  PROVE  OwnIds'
BY DEF OwnIds, Narrows

\* Entries, turns, copies and file as they were: nothing changes.
LEMMA StoredAtRest ==
  ASSUME Stored, StoreRests
  PROVE  Stored'
BY DEF Stored, StoreRests, OwnIds, Names, DroppedKnown, DroppedStaysDropped, SavesInStep, NobodySaves, Saving

\* A drop that finds no entry leaves all but a turn as it was.
LEMMA StoredAtDrop ==
  ASSUME StoreTypeOK, Stored, NEW t \in Thread, NEW k \in Key, Drops(t, k)
  PROVE  Stored'
<1> DEFINE had == sessions[k] # None
<1>1. /\ up /\ up' /\ saver[t].step = "no" /\ file' = file /\ opened' = opened /\ unsettled' = unsettled
  BY DEF Drops, Saving
<1>2. /\ saver \in [Thread -> SaverRecord] /\ sessions \in Store /\ turn \in [Key -> TurnRecord]
      /\ gone \subseteq 1..MaxSids
  BY DEF StoreTypeOK, SaverRecord, TurnRecord
<1>3. \A j \in Key : sessions'[j] = IF j = k THEN None ELSE sessions[j]
  <2>1. CASE had
    BY <1>2, <2>1 DEF Drops, ResetSession, Store
  <2>2. CASE ~had
    BY <1>2, <2>2 DEF Drops, ResetSession, Store
  <2>3. QED BY <2>1, <2>2
<1>4. gone' = IF had THEN gone \cup {sessions[k].sid} ELSE gone
  BY DEF Drops, ResetSession
<1>5. \A u \in Thread : saver'[u].data = saver[u].data
  BY <1>2 DEF Drops, ResetSession, BeginSave, SaverRecord
<1>6. \A u \in Thread : saver'[u].step = IF had /\ u = t THEN "copy" ELSE saver[u].step
  BY <1>2 DEF Drops, ResetSession, BeginSave, SaverRecord
<1>7. \A j \in Key \ {k} : turn'[j] = turn[j]
  BY <1>2 DEF Drops, Overtake
<1>8. \/ turn'[k].sid = None
      \/ turn'[k].sid = turn[k].sid /\ turn'[k].lost = (turn[k].lost \/ (had /\ turn[k].sid = sessions[k].sid))
  <2>1. CASE turn' = [turn EXCEPT ![k] = NoTurn] \/ turn' = [turn EXCEPT ![k] = [NoTurn EXCEPT !.at = "run"]]
    BY <1>2, <2>1 DEF NoTurn
  <2>2. CASE Overtake(k)
    BY <1>2, <2>2 DEF Overtake, TurnRecord
  <2>3. QED BY <2>1, <2>2 DEF Drops
<1>9. Narrows
  <2> SUFFICES ASSUME NEW j \in Key, NEW s \in 1..MaxSids, Names(j, s)' PROVE Names(j, s)
    BY DEF Narrows
  <2>1. CASE sessions'[j] # None /\ sessions'[j].sid = s
    BY <1>3, <2>1 DEF Names
  <2>2. CASE turn'[j].sid # None /\ turn'[j].sid = s
    BY <1>7, <1>8, <2>2 DEF Names
  <2>3. CASE \E u \in Thread : saver'[u].data[j] # None /\ saver'[u].data[j].sid = s
    BY <1>5, <2>3 DEF Names
  <2>4. CASE file \notin {Empty, Mixed} /\ file[j] # None /\ file[j].sid = s
    BY <2>4 DEF Names
  <2>5. QED BY <1>1, <2>1, <2>2, <2>3, <2>4 DEF Names
<1>10. had => sessions[k].sid \in 1..MaxSids /\ Names(k, sessions[k].sid)
  BY <1>2 DEF Names, Store, Entry
<1>11. OwnIds'
  BY <1>1, <1>4, <1>9, <1>10, OwnIdsNarrowed DEF Stored
<1>12. \A j \in Key \ {k}, s \in 1..MaxSids : had /\ Names(j, s) => s # sessions[k].sid
  BY <1>10 DEF Stored, OwnIds
<1>13. DroppedStaysDropped'
  <2> SUFFICES ASSUME NEW j \in Key, sessions'[j] # None PROVE sessions'[j].sid \notin gone'
    BY DEF DroppedStaysDropped
  <2>1. j # k /\ sessions'[j] = sessions[j]
    BY <1>3
  <2>2. sessions[j].sid \notin gone
    BY <2>1 DEF Stored, DroppedKnown, DroppedStaysDropped
  <2>3. sessions[j].sid \in 1..MaxSids /\ Names(j, sessions[j].sid)
    BY <1>2, <2>1 DEF Names, Store, Entry
  <2>4. QED BY <1>4, <1>12, <2>1, <2>2, <2>3
<1>14. ASSUME NEW j \in Key, turn'[j].sid # None, ~turn'[j].lost PROVE turn'[j].sid \notin gone'
  <2>1. turn'[j].sid = turn[j].sid /\ ~turn[j].lost
    BY <1>7, <1>8, <1>14
  <2>2. turn[j].sid \notin gone
    BY <1>14, <2>1 DEF Stored, DroppedKnown
  <2>3. CASE j = k
    <3>1. ~(had /\ turn[k].sid = sessions[k].sid)
      BY <1>8, <1>14, <2>3
    <3>2. QED BY <1>4, <2>1, <2>2, <2>3, <3>1
  <2>4. CASE j # k
    <3>1. turn[j].sid \in 1..MaxSids /\ Names(j, turn[j].sid)
      BY <1>2, <1>14, <2>1 DEF Names, TurnRecord
    <3>2. QED BY <1>4, <1>12, <2>1, <2>2, <2>4, <3>1
  <2>5. QED BY <2>3, <2>4
<1>15. SavesInStep'
  <2>1. CASE had
    <3>1. saver'[t].step = "copy" /\ \A u \in Thread : saver'[u].step = "write" => saver[u].step = "write"
      BY <1>1, <1>6, <2>1
    <3>2. QED BY <1>1, <3>1 DEF Stored, SavesInStep, Saving
  <2>2. CASE ~had
    <3>1. sessions' = sessions /\ saver' = saver
      BY <2>2 DEF Drops, ResetSession
    <3>2. QED BY <1>1, <3>1 DEF Stored, SavesInStep, Saving
  <2>3. QED BY <2>1, <2>2
<1>16. NobodySaves'
  BY <1>1 DEF NobodySaves
<1>17. QED BY <1>11, <1>13, <1>14, <1>15, <1>16 DEF Stored, DroppedKnown

\* A turn that begins holds what its entry names.
LEMMA StoredAtMove ==
  ASSUME StoreTypeOK, Stored, NEW k \in Key, Moves(k)
  PROVE  Stored'
<1>1. sessions' = sessions /\ file' = file /\ saver' = saver /\ up' = up /\ opened' = opened
      /\ gone' = gone /\ unsettled' = unsettled
  BY DEF Moves
<1>2. /\ sessions \in Store /\ turn \in [Key -> TurnRecord] /\ gone \subseteq 1..MaxSids
  BY DEF StoreTypeOK, TurnRecord
<1>3. \A j \in Key \ {k} : turn'[j] = turn[j]
  BY <1>2 DEF Moves
<1>4. \/ turn'[k].sid = None
      \/ turn'[k].sid = turn[k].sid /\ turn'[k].lost = turn[k].lost
      \/ turn'[k].sid = ReadSid(k)
  BY <1>2 DEF Moves
<1>5. \A j \in Key : turn'[j].sid # None =>
         \/ turn'[j].sid = turn[j].sid /\ turn'[j].lost = turn[j].lost
         \/ sessions[j] # None /\ turn'[j].sid = sessions[j].sid
  BY <1>3, <1>4 DEF ReadSid
<1>6. Narrows
  BY <1>1, <1>5 DEF Narrows, Names
<1>7. OwnIds'
  BY <1>1, <1>6, OwnIdsNarrowed DEF Stored
<1>8. DroppedKnown'
  BY <1>1, <1>5 DEF Stored, DroppedKnown, DroppedStaysDropped
<1>9. SavesInStep' /\ NobodySaves'
  BY <1>1 DEF Stored, SavesInStep, NobodySaves, Saving
<1>10. QED BY <1>7, <1>8, <1>9 DEF Stored

\* The copy names what the entries name; if nobody else writes, the file is settled.
LEMMA StoredAtCopy ==
  ASSUME StoreTypeOK, Stored, NEW t \in Thread, Copy(t)
  PROVE  Stored'
<1>1. /\ up /\ up' /\ sessions' = sessions /\ turn' = turn /\ opened' = opened /\ gone' = gone /\ file' = Empty
      /\ unsettled' = \E u \in Thread \ {t} : saver[u].step = "write"
  BY DEF Copy, counters
<1>2. \A u \in Thread : saver'[u] = IF u = t THEN [step |-> "write", data |-> sessions] ELSE saver[u]
  BY DEF Copy, StoreTypeOK
<1>3. Narrows
  BY <1>1, <1>2 DEF Narrows, Names
<1>4. OwnIds'
  BY <1>1, <1>3, OwnIdsNarrowed DEF Stored
<1>5. DroppedKnown'
  BY <1>1 DEF Stored, DroppedKnown, DroppedStaysDropped
<1>6. SavesInStep'
  <2> SUFFICES ASSUME ~unsettled'
               PROVE  /\ \A u, v \in Thread : saver'[u].step = "write" /\ saver'[v].step = "write" => u = v
                      /\ \A u \in Thread : saver'[u].step = "write" => file' = Empty /\ saver'[u].data = sessions'
                      /\ ~\A u \in Thread : saver'[u].step = "no"
    BY DEF SavesInStep, Saving
  <2>1. \A u \in Thread : saver'[u].step = "write" => u = t
    BY <1>1, <1>2
  <2>2. saver'[t].step = "write" /\ saver'[t].data = sessions
    BY <1>2
  <2>3. QED BY <1>1, <2>1, <2>2
<1>7. NobodySaves'
  BY <1>1 DEF NobodySaves
<1>8. QED BY <1>4, <1>5, <1>6, <1>7 DEF Stored

\* What is written names what the copy named.
LEMMA StoredAtWrite ==
  ASSUME StoreTypeOK, Stored, NEW t \in Thread, Write(t)
  PROVE  Stored'
<1>1. /\ up /\ up' /\ sessions' = sessions /\ turn' = turn /\ opened' = opened /\ gone' = gone
      /\ saver[t].step = "write" /\ unsettled' = unsettled
      /\ file' = saver[t].data \/ (file # Empty /\ file' = Mixed)
  BY DEF Write, counters
<1>2. \A u \in Thread : saver'[u] = IF u = t THEN NotSaving ELSE saver[u]
  BY DEF Write, StoreTypeOK
<1>3. \A k \in Key : NotSaving.data[k] = None
  BY DEF NotSaving, NoSessions
<1>4. Narrows
  <2> SUFFICES ASSUME NEW j \in Key, NEW s \in 1..MaxSids, Names(j, s)' PROVE Names(j, s)
    BY DEF Narrows
  <2>1. CASE \E u \in Thread : saver'[u].data[j] # None /\ saver'[u].data[j].sid = s
    BY <1>2, <1>3, <2>1 DEF Names
  <2>2. CASE file' \notin {Empty, Mixed} /\ file'[j] # None /\ file'[j].sid = s
    BY <1>1, <2>2 DEF Names
  <2>3. QED BY <1>1, <2>1, <2>2 DEF Names
<1>5. OwnIds'
  BY <1>1, <1>4, OwnIdsNarrowed DEF Stored
<1>6. DroppedKnown'
  BY <1>1 DEF Stored, DroppedKnown, DroppedStaysDropped
<1>7. SavesInStep'
  <2> SUFFICES ASSUME ~unsettled'
               PROVE  /\ \A u \in Thread : saver'[u].step # "write"
                      /\ (\A u \in Thread : saver'[u].step = "no") => file' = sessions'
    BY DEF SavesInStep, Saving
  <2>1. \A u \in Thread : saver[u].step = "write" => u = t
    BY <1>1 DEF Stored, SavesInStep
  <2>2. file = Empty /\ ((\A u \in Thread : saver[u].step # "copy") => saver[t].data = sessions)
    BY <1>1 DEF Stored, SavesInStep
  <2>3. \A u \in Thread : saver'[u].step # "write"
    BY <1>2, <2>1 DEF NotSaving
  <2>4. ASSUME \A u \in Thread : saver'[u].step = "no" PROVE file' = sessions'
    <3>1. \A u \in Thread : saver[u].step # "copy"
      BY <1>1, <1>2, <2>4
    <3>2. QED BY <1>1, <2>2, <3>1
  <2>5. QED BY <2>3, <2>4
<1>8. NobodySaves'
  BY <1>1 DEF NobodySaves
<1>9. QED BY <1>5, <1>6, <1>7, <1>8 DEF Stored

\* A failed write forgets its copy.
LEMMA StoredAtFailure ==
  ASSUME StoreTypeOK, Stored, NEW t \in Thread, WriteFails(t)
  PROVE  Stored'
<1>1. up /\ up' /\ sessions' = sessions /\ turn' = turn /\ opened' = opened /\ gone' = gone
      /\ file' = file /\ unsettled'
  BY DEF WriteFails
<1>2. \A u \in Thread : saver'[u] = IF u = t THEN NotSaving ELSE saver[u]
  BY DEF WriteFails, StoreTypeOK
<1>3. \A k \in Key : NotSaving.data[k] = None
  BY DEF NotSaving, NoSessions
<1>4. Narrows
  BY <1>1, <1>2, <1>3 DEF Narrows, Names
<1>5. OwnIds'
  BY <1>1, <1>4, OwnIdsNarrowed DEF Stored
<1>6. DroppedKnown'
  BY <1>1 DEF Stored, DroppedKnown, DroppedStaysDropped
<1>7. SavesInStep' /\ NobodySaves'
  BY <1>1 DEF SavesInStep, NobodySaves
<1>8. QED BY <1>5, <1>6, <1>7 DEF Stored

\* The checker is about to save.
LEMMA StoredAtPreSave ==
  ASSUME StoreTypeOK, Stored, PreSave
  PROVE  Stored'
<1>0. Checker \in Thread
  BY DEF Thread
<1>1. up /\ up' /\ sessions' = sessions /\ turn' = turn /\ opened' = opened /\ gone' = gone
      /\ file' = file /\ unsettled' = unsettled /\ saver[Checker].step = "no"
  BY DEF PreSave, Free, Saving
<1>2. /\ \A u \in Thread : saver'[u].data = saver[u].data
      /\ \A u \in Thread : saver'[u].step = IF u = Checker THEN "copy" ELSE saver[u].step
  BY <1>0 DEF PreSave, BeginSave, StoreTypeOK
<1>3. Narrows
  BY <1>1, <1>2 DEF Narrows, Names
<1>4. OwnIds'
  BY <1>1, <1>3, OwnIdsNarrowed DEF Stored
<1>5. DroppedKnown'
  BY <1>1 DEF Stored, DroppedKnown, DroppedStaysDropped
<1>6. SavesInStep'
  <2>1. saver'[Checker].step = "copy" /\ \A u \in Thread : saver'[u].step = "write" => saver[u].step = "write"
    BY <1>1, <1>2, <1>0
  <2>2. QED BY <1>0, <1>1, <2>1 DEF Stored, SavesInStep, Saving
<1>7. NobodySaves'
  BY <1>1 DEF NobodySaves
<1>8. QED BY <1>4, <1>5, <1>6, <1>7 DEF Stored

\* The entry after a turn: the turn's id, and one message more.
LEMMA EntryUpdated ==
  ASSUME StoreTypeOK, NEW k \in Key, NEW sid \in 1..MaxSids, UpdateSession(k, sid)
  PROVE  /\ \A j \in Key : j # k => sessions'[j] = sessions[j]
         /\ sessions'[k].sid = sid /\ sessions'[k] \in Entry /\ sessions' \in Store
         /\ \A u \in Thread : saver'[u].data = saver[u].data
         /\ \A u \in Thread : saver'[u].step = IF u = k THEN "copy" ELSE saver[u].step
         /\ saver' \in [Thread -> SaverRecord]
<1>1. k \in Thread /\ saver \in [Thread -> SaverRecord] /\ sessions \in Store
  BY DEF Thread, StoreTypeOK, SaverRecord
<1> DEFINE e == IF sessions[k] = None THEN [sid |-> sid, msgs |-> 1]
                ELSE [sessions[k] EXCEPT !.sid = sid, !.msgs = IF @ < MaxMsgs THEN @ + 1 ELSE @]
<1>2. e \in Entry /\ e.sid = sid
  <2>1. CASE sessions[k] = None
    BY <2>1, StoreAssumption DEF Entry
  <2>2. CASE sessions[k] # None
    <3>1. sessions[k] \in Entry /\ sessions[k].msgs \in 1..MaxMsgs
      BY <1>1, <2>2 DEF Store, Entry
    <3>2. PICK m \in 1..MaxMsgs : m = IF sessions[k].msgs < MaxMsgs THEN sessions[k].msgs + 1 ELSE sessions[k].msgs
      BY <3>1, StoreAssumption
    <3>3. e = [sid |-> sid, msgs |-> m]
      BY <2>2, <3>1, <3>2 DEF Entry
    <3>4. QED BY <3>3 DEF Entry
  <2>3. QED BY <2>1, <2>2
<1>3. sessions' = [sessions EXCEPT ![k] = e]
  BY DEF UpdateSession
<1> HIDE DEF e
<1>4. sessions' \in Store /\ sessions'[k] = e /\ \A j \in Key : j # k => sessions'[j] = sessions[j]
  BY <1>1, <1>2, <1>3 DEF Store
<1>5. saver' = [saver EXCEPT ![k].step = "copy"]
  BY DEF UpdateSession, BeginSave
<1>6. saver' \in [Thread -> SaverRecord]
      /\ \A u \in Thread : saver'[u].data = saver[u].data /\ saver'[u].step = IF u = k THEN "copy" ELSE saver[u].step
  BY <1>1, <1>5 DEF SaverRecord
<1>7. QED BY <1>2, <1>4, <1>6

\* A turn that ends puts back the session it ran in, or one Claude has just opened.
LEMMA StoredAtEnd ==
  ASSUME StoreTypeOK, Stored, NEW k \in Key, EndTurn(k)
  PROVE  Stored'
<1>1. /\ up /\ up' /\ file' = file /\ unsettled' = unsettled /\ saver[k].step = "no" /\ k \in Thread
  BY DEF EndTurn, Free, Saving, Thread
<1>2. /\ sessions \in Store /\ turn \in [Key -> TurnRecord] /\ gone \subseteq 1..MaxSids
      /\ opened \in 0..MaxSids /\ MaxSids \in Nat
  BY StoreAssumption DEF StoreTypeOK, TurnRecord
<1>3. /\ \A j \in Key \ {k} : turn'[j] = turn[j]
      /\ turn'[k].sid = None
  BY <1>2 DEF EndTurn, NoTurn
<1>4. PICK sid \in 1..MaxSids :
        /\ UpdateSession(k, sid)
        /\ \/ turn[k].sid # None /\ sid = turn[k].sid /\ opened' = opened
              /\ gone' = IF turn[k].lost THEN gone \ {sid} ELSE gone
           \/ opened' = opened + 1 /\ sid = opened' /\ gone' = gone
  BY <1>2 DEF EndTurn, TurnRecord
<1>5. /\ \A j \in Key : j # k => sessions'[j] = sessions[j]
      /\ sessions'[k].sid = sid
      /\ \A u \in Thread : saver'[u].data = saver[u].data
      /\ \A u \in Thread : saver'[u].step = IF u = k THEN "copy" ELSE saver[u].step
  BY <1>4, EntryUpdated
<1>6. opened <= opened' /\ gone' \subseteq gone
  BY <1>2, <1>4
<1>7. \A j \in Key, s \in 1..MaxSids : Names(j, s)' =>
         Names(j, s) \/ (j = k /\ s = sid /\ sid = opened' /\ opened' = opened + 1)
  <2> SUFFICES ASSUME NEW j \in Key, NEW s \in 1..MaxSids, Names(j, s)', ~Names(j, s)
               PROVE  j = k /\ s = sid /\ sid = opened' /\ opened' = opened + 1
    OBVIOUS
  <2>1. sessions'[j] # None /\ sessions'[j].sid = s
    BY <1>1, <1>3, <1>5 DEF Names
  <2>2. j = k /\ s = sid
    BY <1>5, <2>1 DEF Names
  <2>3. turn[k].sid # None => turn[k].sid # sid
    BY <2>2 DEF Names
  <2>4. QED BY <1>4, <2>2, <2>3
<1>8. OwnIds'
  <2>1. \A s \in 1..MaxSids, j \in Key : Names(j, s) => s <= opened
    BY DEF Stored, OwnIds
  <2>2. \A s \in 1..MaxSids, j \in Key : Names(j, s)' => s <= opened'
    BY <1>2, <1>6, <1>7, <2>1, <1>4
  <2>3. \A s \in gone' : s <= opened'
    BY <1>2, <1>6, <1>4 DEF Stored, OwnIds
  <2>4. ASSUME NEW s \in 1..MaxSids, NEW i \in Key, NEW j \in Key, Names(i, s)', Names(j, s)' PROVE i = j
    <3>1. CASE s = opened + 1
      <4>1. ~Names(i, s) /\ ~Names(j, s)
        BY <1>2, <2>1, <3>1
      <4>2. QED BY <1>7, <2>4, <4>1
    <3>2. CASE s # opened + 1
      <4>1. Names(i, s) /\ Names(j, s)
        BY <1>7, <2>4, <3>2
      <4>2. QED BY <4>1 DEF Stored, OwnIds
    <3>3. QED BY <3>1, <3>2
  <2>5. QED BY <2>2, <2>3, <2>4 DEF OwnIds
<1>9. sid \notin gone'
  <2>1. CASE turn[k].sid # None /\ sid = turn[k].sid /\ gone' = IF turn[k].lost THEN gone \ {sid} ELSE gone
    BY <2>1 DEF Stored, DroppedKnown
  <2>2. CASE opened' = opened + 1 /\ sid = opened' /\ gone' = gone
    <3>1. \A s \in gone : s <= opened
      BY DEF Stored, OwnIds
    <3>2. QED BY <1>2, <2>2, <3>1
  <2>3. QED BY <1>4, <2>1, <2>2
<1>10. DroppedKnown'
  BY <1>3, <1>5, <1>6, <1>9 DEF Stored, DroppedKnown, DroppedStaysDropped
<1>11. SavesInStep'
  <2>1. saver'[k].step = "copy" /\ \A u \in Thread : saver'[u].step = "write" => saver[u].step = "write"
    BY <1>1, <1>5
  <2>2. QED BY <1>1, <2>1 DEF Stored, SavesInStep, Saving
<1>12. NobodySaves'
  BY <1>1 DEF NobodySaves
<1>13. QED BY <1>8, <1>10, <1>11, <1>12 DEF Stored

\* A crash in no save leaves a file that says what the entries said.
LEMMA StoredAtDeath ==
  ASSUME StoreTypeOK, Stored, DaemonDies
  PROVE  Stored'
<1>1. /\ up /\ ~up' /\ file' = file /\ opened' = opened /\ gone' = gone
      /\ unsettled' = (unsettled \/ \E t \in Thread : Saving(t))
      /\ sessions' = NoSessions /\ saver' = [t \in Thread |-> NotSaving] /\ turn' = [k \in Key |-> NoTurn]
  BY DEF DaemonDies
<1>2. /\ \A k \in Key : sessions'[k] = None /\ turn'[k].sid = None
      /\ \A u \in Thread : saver'[u].step = "no" /\ \A k \in Key : saver'[u].data[k] = None
  BY <1>1 DEF NoSessions, NotSaving, NoTurn
<1>3. Narrows
  BY <1>1, <1>2 DEF Narrows, Names
<1>4. OwnIds'
  BY <1>1, <1>3, OwnIdsNarrowed DEF Stored
<1>5. DroppedKnown' /\ SavesInStep'
  BY <1>1, <1>2 DEF DroppedKnown, DroppedStaysDropped, SavesInStep
<1>6. ASSUME ~unsettled', NEW k \in Key, file[k] # None PROVE file[k].sid \notin gone
  <2>1. file = sessions
    BY <1>1, <1>6 DEF Stored, SavesInStep
  <2>2. QED BY <1>6, <2>1 DEF Stored, DroppedKnown, DroppedStaysDropped
<1>7. NobodySaves'
  BY <1>1, <1>2, <1>6 DEF NobodySaves, Saving
<1>8. QED BY <1>4, <1>5, <1>7 DEF Stored

\* What the file names comes back; it names what was dropped only when it was behind.
LEMMA StoredAtRestart ==
  ASSUME StoreTypeOK, Stored, Restart
  PROVE  Stored'
<1>1. ~up /\ up' /\ file' = file /\ saver' = saver /\ turn' = turn /\ opened' = opened
  BY DEF Restart, counters
<1>2. \A t \in Thread : saver[t].step = "no"
  BY <1>1 DEF Stored, NobodySaves, Saving
<1>3. CASE file \in {Empty, Mixed}
  <2>1. unsettled' /\ gone' = gone /\ \A k \in Key : sessions'[k] = None
    BY <1>3 DEF Restart, NoSessions
  <2>2. Narrows
    BY <1>1, <2>1 DEF Narrows, Names
  <2>3. OwnIds'
    BY <1>1, <2>1, <2>2, OwnIdsNarrowed DEF Stored
  <2>4. QED BY <1>1, <2>1, <2>3 DEF Stored, DroppedKnown, DroppedStaysDropped, SavesInStep, NobodySaves
<1>4. CASE file \notin {Empty, Mixed}
  <2>1. /\ sessions' = file /\ unsettled' = unsettled
        /\ gone' = IF unsettled THEN gone \ {file[k].sid : k \in {j \in Key : file[j] # None}} ELSE gone
    BY <1>4 DEF Restart
  <2>2. Narrows
    BY <1>1, <1>4, <2>1 DEF Narrows, Names
  <2>3. OwnIds'
    BY <1>1, <2>1, <2>2, OwnIdsNarrowed DEF Stored
  <2>4. DroppedStaysDropped'
    BY <1>1, <1>4, <2>1 DEF Stored, NobodySaves, DroppedStaysDropped
  <2>5. DroppedKnown'
    BY <1>1, <2>1, <2>4 DEF Stored, DroppedKnown
  <2>6. SavesInStep' /\ NobodySaves'
    BY <1>1, <1>2, <2>1 DEF SavesInStep, NobodySaves
  <2>7. QED BY <2>3, <2>5, <2>6 DEF Stored
<1>5. QED BY <1>3, <1>4

\* Every step keeps the four parts.
LEMMA StoredStep ==
  ASSUME StoreTypeOK, CycleKept, Stored, [StoreNext]_storeVars
  PROVE  Stored'
<1>1. StoreKinds
  BY StoreKindsAll
<1>2. QED
  BY <1>1, StoredAtRest, StoredAtDrop, StoredAtMove, StoredAtCopy, StoredAtWrite, StoredAtFailure,
     StoredAtPreSave, StoredAtEnd, StoredAtDeath, StoredAtRestart DEF StoreKinds

-----------------------------------------------------------------------------
(* The hygiene thread's cycle, and the file of requests.                    *)

\* A step that leaves the cycle and the hygiene thread's save alone keeps what is said of them.
LEMMA CycleRests ==
  ASSUME CycleKept, hygiene' = hygiene, saver'[Hygiene] = saver[Hygiene] \/ saver[Hygiene].step # "no"
  PROVE  CycleKept'
BY DEF CycleKept, Saving

\* Fewer candidates, and a summary made only of one of them.
LEMMA CandidateLeaves ==
  ASSUME StoreTypeOK, CycleKept, NEW k \in hygiene.todo, hygiene'.todo = hygiene.todo \ {k},
         hygiene'.made \in {hygiene.made, hygiene.made + 1}, hygiene'.at = "cycle"
  PROVE  CycleKept' /\ hygiene'.made \in 0..Cardinality(Key)
<1>0. hygiene.todo \subseteq Key /\ IsFiniteSet(Key) /\ hygiene.made \in 0..Cardinality(Key)
  BY StoreAssumption DEF StoreTypeOK
<1>1. /\ IsFiniteSet(hygiene.todo) /\ Cardinality(hygiene.todo) \in Nat /\ Cardinality(Key) \in Nat
      /\ hygiene.made \in Nat
  BY <1>0, FS_Subset, FS_CardinalityType
<1>2. IsFiniteSet(hygiene'.todo) /\ Cardinality(hygiene'.todo) = Cardinality(hygiene.todo) - 1
      /\ Cardinality(hygiene'.todo) \in Nat
  BY <1>1, FS_RemoveElement, FS_CardinalityType
<1>3. hygiene'.made + Cardinality(hygiene'.todo) <= Cardinality(Key) /\ hygiene'.made \in Nat
  BY <1>1, <1>2 DEF CycleKept
<1>4. hygiene'.made \in 0..Cardinality(Key)
  BY <1>1, <1>2, <1>3
<1>5. hygiene'.at \notin Key
  BY StoreAssumption
<1>6. QED BY <1>3, <1>4, <1>5 DEF CycleKept

\* Every step keeps what is said of the cycle.
LEMMA CycleStep ==
  ASSUME StoreTypeOK, CycleKept, [StoreNext]_storeVars
  PROVE  CycleKept'
<1> USE StoreAssumption
<1>0. /\ saver \in [Thread -> SaverRecord] /\ Hygiene \in Thread /\ Hygiene \notin Key
      /\ Main # Hygiene /\ Checker # Hygiene
  BY DEF StoreTypeOK, SaverRecord, Thread
<1>1. ASSUME NEW k \in Key, SessionTurn(k) PROVE CycleKept'
  <2>1. hygiene' = hygiene
    BY <1>1 DEF SessionTurn, StartTurn, DropOldAccount, EndTurn, TurnFails, TurnOverflows, ResetCommand, ResetAfterSummary
  <2>2. saver' = saver \/ saver' = [saver EXCEPT ![k].step = "copy"]
    BY <1>1 DEF SessionTurn, StartTurn, DropOldAccount, EndTurn, TurnFails, TurnOverflows, ResetCommand,
                ResetAfterSummary, ResetSession, UpdateSession, BeginSave
  <2>3. QED BY <1>0, <2>1, <2>2, CycleRests
<1>2. ASSUME NEW k \in Key, ResetStale(k) \/ Defer(k) PROVE CycleKept'
  <2>1. k \in hygiene.todo /\ Leave(k) /\ hygiene.at = "cycle"
    BY <1>2 DEF ResetStale, Defer
  <2>2. hygiene'.todo = hygiene.todo \ {k} /\ hygiene'.made = hygiene.made /\ hygiene'.at = "cycle"
    BY <2>1 DEF Leave, StoreTypeOK
  <2>3. QED BY <2>1, <2>2, CandidateLeaves
<1>3. ASSUME NEW k \in Key, Summarise(k) PROVE CycleKept'
  <2>1. k \in hygiene.todo /\ ~Saving(Hygiene) /\ saver' = saver /\ hygiene' = [hygiene EXCEPT !.at = k]
    BY <1>3 DEF Summarise, Free
  <2>2. hygiene'.at = k /\ hygiene'.todo = hygiene.todo /\ hygiene'.made = hygiene.made
    BY <2>1 DEF StoreTypeOK
  <2>3. QED BY <2>1, <2>2 DEF CycleKept, Saving
<1>3a. ASSUME NEW k \in Key, SummaryHangs(k) PROVE CycleKept'
  <2>1. hygiene'.at = "hung" /\ hygiene'.todo = hygiene.todo /\ hygiene'.made = hygiene.made
    BY <1>3a DEF SummaryHangs, StoreTypeOK
  <2>2. QED BY <2>1 DEF CycleKept
<1>4. ASSUME NEW k \in Key, SummarySaved(k) \/ SummaryFails(k) PROVE CycleKept'
  <2>1. hygiene.at = k /\ Summarised(k)
    BY <1>4 DEF SummarySaved, SummaryFails
  <2>2. k \in hygiene.todo
    BY <2>1 DEF CycleKept
  <2>3. hygiene'.todo = hygiene.todo \ {k} /\ hygiene'.made = hygiene.made + 1 /\ hygiene'.at = "cycle"
    BY <2>1 DEF Summarised, StoreTypeOK
  <2>4. QED BY <2>2, <2>3, CandidateLeaves
<1>5. CASE Collect
  <2>1. PICK todo \in SUBSET Key : hygiene'.todo = todo /\ hygiene'.made = 0 /\ hygiene'.at = "cycle"
    BY <1>5 DEF Collect
  <2>2. Cardinality(todo) <= Cardinality(Key) /\ Cardinality(todo) \in Nat
    BY FS_Subset, FS_CardinalityType
  <2>3. QED BY <2>1, <2>2 DEF CycleKept
<1>6. CASE EndCycle \/ DaemonDies
  <2>1. hygiene'.at = "idle" /\ hygiene'.made = 0 /\ hygiene'.todo = {}
    BY <1>6 DEF EndCycle, DaemonDies, NoCycle
  <2>2. Cardinality({}) = 0 /\ Cardinality(Key) \in Nat
    BY FS_EmptySet, FS_CardinalityType
  <2>3. QED BY <2>1, <2>2 DEF CycleKept
<1>7. ASSUME NEW t \in Thread, SaveStep(t) \/ WriteFails(t) PROVE CycleKept'
  <2>1. hygiene' = hygiene /\ saver[t].step # "no" /\ \A u \in Thread \ {t} : saver'[u] = saver[u]
    BY <1>0, <1>7 DEF SaveStep, Copy, Write, WriteFails
  <2>2. QED BY <1>0, <2>1, CycleRests
<1>8. ASSUME NEW k \in Key, ResetPending(k) PROVE CycleKept'
  <2>1. hygiene' = hygiene /\ (saver' = saver \/ saver' = [saver EXCEPT ![Main].step = "copy"])
    BY <1>8 DEF ResetPending, ResetSession, BeginSave
  <2>2. QED BY <1>0, <2>1, CycleRests
<1>9. CASE PreSave
  <2>1. hygiene' = hygiene /\ saver' = [saver EXCEPT ![Checker].step = "copy"]
    BY <1>9 DEF PreSave, BeginSave
  <2>2. QED BY <1>0, <2>1, CycleRests
<1>10. CASE hygiene' = hygiene /\ saver' = saver
  BY <1>10, CycleRests
<1>11. ASSUME NEW k \in Key, GrowsHeavy(k) \/ AskOpen(k) PROVE CycleKept'
  BY <1>10, <1>11 DEF GrowsHeavy, AskOpen
<1>12. CASE AskWrite \/ ReadPending \/ UnlinkPending \/ Restart \/ UNCHANGED storeVars
  BY <1>10, <1>12 DEF AskWrite, ReadPending, UnlinkPending, Restart, storeVars
<1>13. QED
  BY <1>1, <1>2, <1>3, <1>3a, <1>4, <1>5, <1>6, <1>7, <1>8, <1>9, <1>11, <1>12 DEF StoreNext, HygieneStep

\* Every step keeps what is said of the requests.
LEMMA OwedStep ==
  ASSUME StoreTypeOK, OwedKept, [StoreNext]_storeVars
  PROVE  OwedKept'
<1> USE StoreAssumption
<1>0. /\ owed \subseteq Key /\ pending \in Key \cup {NoFile, Empty} /\ main \in Key \cup {None, Main}
      /\ asking \in Key \cup {None} /\ {NoFile, Empty, None, Main} \cap Key = {} /\ Main # None
  BY DEF StoreTypeOK
<1>1. ASSUME NEW k \in Key, AskOpen(k) PROVE OwedKept'
  BY <1>0, <1>1 DEF AskOpen, OwedKept
<1>2. CASE AskWrite
  BY <1>0, <1>2 DEF AskWrite, OwedKept
<1>3. CASE ReadPending
  BY <1>0, <1>3 DEF ReadPending, OwedKept
<1>4. ASSUME NEW k \in Key, ResetPending(k) PROVE OwedKept'
  BY <1>0, <1>4 DEF ResetPending, OwedKept
<1>5. CASE UnlinkPending
  BY <1>0, <1>5 DEF UnlinkPending, OwedKept
<1>6. CASE DaemonDies
  BY <1>6 DEF DaemonDies, OwedKept
<1>7. CASE UNCHANGED resetFile
  BY <1>7 DEF resetFile, OwedKept
<1>8. ASSUME NEW k \in Key, SessionTurn(k) PROVE OwedKept'
  BY <1>7, <1>8 DEF SessionTurn, StartTurn, DropOldAccount, EndTurn, TurnFails, TurnOverflows, ResetCommand,
                    ResetAfterSummary
<1>9. ASSUME NEW k \in Key, HygieneStep(k) \/ SummaryHangs(k) \/ GrowsHeavy(k) PROVE OwedKept'
  BY <1>7, <1>9 DEF HygieneStep, ResetStale, Defer, Summarise, SummarySaved, SummaryFails, SummaryHangs,
                    GrowsHeavy
<1>10. ASSUME NEW t \in Thread, SaveStep(t) \/ WriteFails(t) PROVE OwedKept'
  BY <1>7, <1>10 DEF SaveStep, Copy, Write, WriteFails
<1>11. CASE Collect \/ EndCycle \/ PreSave \/ Restart \/ UNCHANGED storeVars
  BY <1>7, <1>11 DEF Collect, EndCycle, PreSave, Restart, storeVars
<1>12. QED
  BY <1>1, <1>2, <1>3, <1>4, <1>5, <1>6, <1>8, <1>9, <1>10, <1>11 DEF StoreNext

-----------------------------------------------------------------------------
(* The domains.                                                             *)

\* What a drop changes stays within its domain.
LEMMA DropTypes ==
  ASSUME StoreTypeOK, NEW t \in Thread, NEW k \in Key, ResetSession(t, k)
  PROVE  /\ sessions' \in Store /\ saver' \in [Thread -> SaverRecord] /\ gone' \subseteq 1..MaxSids
         /\ Overtake(k) => turn' \in [Key -> TurnRecord]
<1>1. /\ sessions \in Store /\ saver \in [Thread -> SaverRecord] /\ gone \subseteq 1..MaxSids
      /\ turn \in [Key -> TurnRecord]
  BY DEF StoreTypeOK, SaverRecord, TurnRecord
<1>2. sessions' \in Store /\ gone' \subseteq 1..MaxSids
  BY <1>1 DEF ResetSession, Store, Entry
<1>3. saver' \in [Thread -> SaverRecord]
  BY <1>1 DEF ResetSession, BeginSave, SaverRecord
<1>4. ASSUME Overtake(k) PROVE turn' \in [Key -> TurnRecord]
  <2>1. (turn[k].lost \/ (sessions[k] # None /\ turn[k].sid = sessions[k].sid)) \in BOOLEAN
    BY <1>1 DEF TurnRecord
  <2>2. QED BY <1>1, <1>4, <2>1 DEF Overtake, TurnRecord
<1>5. QED BY <1>2, <1>3, <1>4

\* The domains of the entries and turns, of the cycle, of the requests, and of the rest.
Entries == /\ sessions \in Store /\ saver \in [Thread -> SaverRecord] /\ gone \subseteq 1..MaxSids
           /\ turn \in [Key -> TurnRecord]
Cycle == /\ hygiene \in [at : {"idle", "cycle", "hung"} \cup Key, todo : SUBSET Key,
                         stale : SUBSET Key, made : 0..Cardinality(Key)]
         /\ failures \in [Key -> 0..MaxFailures - 1]
RequestFile == /\ pending \in Key \cup {NoFile, Empty} /\ asking \in Key \cup {None}
         /\ main \in Key \cup {None, Main} /\ owed \subseteq Key
Files == /\ file \in Store \cup {Empty, Mixed} /\ heavy \subseteq 1..MaxSids /\ up \in BOOLEAN
Counts == /\ opened \in 0..MaxSids /\ turns \in 0..MaxTurns /\ requested \in 0..MaxRequested
          /\ presaves \in 0..MaxPreSaves /\ mishaps \in 0..MaxMishaps
OtherStates == Files /\ Counts /\ unsettled \in BOOLEAN

\* The domains, in groups.
LEMMA StoreDomains == StoreTypeOK <=> Entries /\ Cycle /\ RequestFile /\ OtherStates
BY DEF StoreTypeOK, Entries, Cycle, RequestFile, OtherStates, Files, Counts, SaverRecord, TurnRecord

\* Every step keeps the domains.
LEMMA StoreTypeStep ==
  ASSUME StoreTypeOK, CycleKept, [StoreNext]_storeVars
  PROVE  StoreTypeOK'
<1> USE StoreAssumption
<1>0. /\ Entries /\ Cycle /\ RequestFile /\ OtherStates /\ NoTurn \in TurnRecord /\ NotSaving \in SaverRecord /\ NoSessions \in Store
      /\ {Hygiene, Main, Checker} \subseteq Thread /\ Key \subseteq Thread
  BY StoreDomains DEF NoTurn, NotSaving, NoSessions, Store, TurnRecord, SaverRecord, Thread
<1>m. ASSUME mishaps < MaxMishaps, mishaps' = mishaps + 1 PROVE mishaps' \in 0..MaxMishaps
  BY <1>0, <1>m DEF OtherStates, Counts
<1> SUFFICES Entries' /\ Cycle' /\ RequestFile' /\ OtherStates'
  BY DEF StoreTypeOK, Entries, Cycle, RequestFile, OtherStates, Files, Counts, Files, Counts, SaverRecord, TurnRecord
<1>1. ASSUME NEW k \in Key, SessionTurn(k) PROVE Entries' /\ Cycle' /\ RequestFile' /\ OtherStates'
  <2>1. /\ UNCHANGED <<hygiene, failures, resetFile, file, heavy, up, requested, presaves, mishaps, unsettled>>
        /\ opened' = opened \/ (opened < MaxSids /\ opened' = opened + 1)
        /\ turns' = turns \/ (turns < MaxTurns /\ turns' = turns + 1)
    BY <1>1 DEF SessionTurn, StartTurn, DropOldAccount, EndTurn, TurnFails, TurnOverflows, ResetCommand,
                ResetAfterSummary, counters
  <2>2. Cycle' /\ RequestFile' /\ OtherStates'
    BY <1>0, <2>1 DEF Cycle, RequestFile, OtherStates, Files, Counts, resetFile
  <2>4. CASE StartTurn(k)
    <3>1. ReadSid(k) \in 1..MaxSids \cup {None}
      BY <1>0 DEF ReadSid, Entries, Store, Entry
    <3>2. [NoTurn EXCEPT !.at = "run", !.sid = ReadSid(k)] \in TurnRecord
          /\ [NoTurn EXCEPT !.at = "moving", !.sid = ReadSid(k)] \in TurnRecord
      BY <3>1 DEF NoTurn, TurnRecord
    <3>3. turn' \in [Key -> TurnRecord]
      BY <1>0, <2>4, <3>2 DEF StartTurn, Entries
    <3>4. QED BY <1>0, <2>2, <2>4, <3>3 DEF StartTurn, Entries
  <2>5. CASE DropOldAccount(k) \/ TurnOverflows(k) \/ ResetAfterSummary(k)
    <3>1. [NoTurn EXCEPT !.at = "run"] \in TurnRecord
      BY DEF NoTurn, TurnRecord
    <3>2. ResetSession(k, k) /\ turn' \in [Key -> TurnRecord]
      BY <1>0, <2>5, <3>1 DEF DropOldAccount, TurnOverflows, ResetAfterSummary, Entries
    <3>3. QED BY <1>0, <2>2, <3>2, DropTypes DEF Entries
  <2>6. CASE EndTurn(k)
    <3>1. turn' \in [Key -> TurnRecord] /\ gone' \subseteq gone
      BY <1>0, <2>6 DEF EndTurn, Entries
    <3>2. PICK sid \in 1..MaxSids : UpdateSession(k, sid)
      BY <1>0, <2>6 DEF EndTurn, Entries, TurnRecord, OtherStates, Files, Counts
    <3>3. QED BY <1>0, <2>2, <3>1, <3>2, EntryUpdated DEF Entries
  <2>7. CASE TurnFails(k)
    BY <1>0, <2>2, <2>7 DEF TurnFails, Entries
  <2>8. CASE ResetCommand(k)
    <3>1. turn' \in [Key -> TurnRecord]
      BY <1>0, <2>8 DEF ResetCommand, Entries, TurnRecord
    <3>2. QED BY <1>0, <2>2, <2>8, <3>1 DEF ResetCommand, Entries
  <2>9. QED BY <1>1, <2>4, <2>5, <2>6, <2>7, <2>8 DEF SessionTurn
<1>2. ASSUME NEW k \in Key, ResetStale(k) \/ Defer(k) PROVE Entries' /\ Cycle' /\ RequestFile' /\ OtherStates'
  <2>1. UNCHANGED <<failures, resetFile, file, heavy, up, counters, unsettled>> /\ Leave(k)
    BY <1>2 DEF ResetStale, Defer
  <2>2. Cycle' /\ RequestFile' /\ OtherStates'
    BY <1>0, <2>1 DEF Cycle, RequestFile, OtherStates, Files, Counts, resetFile, counters, Leave
  <2>3. Entries'
    BY <1>0, <1>2, DropTypes DEF ResetStale, Defer, Entries
  <2>4. QED BY <2>2, <2>3
<1>3. ASSUME NEW k \in Key, Summarise(k) PROVE Entries' /\ Cycle' /\ RequestFile' /\ OtherStates'
  BY <1>0, <1>3 DEF Summarise, Entries, Cycle, RequestFile, OtherStates, Files, Counts, resetFile, counters
<1>3a. ASSUME NEW k \in Key, SummaryHangs(k) PROVE Entries' /\ Cycle' /\ RequestFile' /\ OtherStates'
  <2>1. mishaps' \in 0..MaxMishaps
    BY <1>3a, <1>m DEF SummaryHangs
  <2>2. Entries' /\ Cycle' /\ RequestFile'
    BY <1>0, <1>3a DEF SummaryHangs, Entries, Cycle, RequestFile, resetFile
  <2>3. QED BY <1>0, <1>3a, <2>1, <2>2 DEF SummaryHangs, OtherStates, Files, Counts
<1>4. ASSUME NEW k \in Key, SummarySaved(k) \/ SummaryFails(k) PROVE Entries' /\ Cycle' /\ RequestFile' /\ OtherStates'
  <2>1. UNCHANGED <<resetFile, file, heavy, up, counters, unsettled>> /\ Summarised(k) /\ hygiene.at = k
    BY <1>4 DEF SummarySaved, SummaryFails
  <2>2. RequestFile' /\ OtherStates'
    BY <1>0, <2>1 DEF RequestFile, OtherStates, Files, Counts, resetFile, counters
  <2>3. k \in hygiene.todo
    BY <2>1 DEF CycleKept
  <2>4. hygiene'.todo = hygiene.todo \ {k} /\ hygiene'.made = hygiene.made + 1 /\ hygiene'.at = "cycle"
    BY <2>1 DEF Summarised, StoreTypeOK
  <2>5. hygiene'.made \in 0..Cardinality(Key)
    BY <2>3, <2>4, CandidateLeaves
  <2>6. hygiene' = [hygiene EXCEPT !.todo = hygiene.todo \ {k}, !.made = hygiene'.made, !.at = "cycle"]
    BY <1>0, <2>1, <2>4 DEF Summarised, Cycle
  <2>7. failures' \in [Key -> 0..MaxFailures - 1]
    BY <1>0, <1>4 DEF SummarySaved, SummaryFails, Cycle
  <2>8. Cycle'
    BY <1>0, <2>5, <2>6, <2>7 DEF Cycle
  <2>9. Entries'
    BY <1>0, <1>4, DropTypes DEF SummarySaved, SummaryFails, Entries
  <2>10. QED BY <2>2, <2>8, <2>9
<1>5. CASE Collect \/ EndCycle
  <2>1. 0 \in 0..Cardinality(Key)
    BY FS_CardinalityType
  <2>2. Cycle'
    BY <1>0, <1>5, <2>1 DEF Collect, EndCycle, NoCycle, Cycle
  <2>3. QED BY <1>0, <1>5, <2>2 DEF Collect, EndCycle, Entries, RequestFile, OtherStates, Files, Counts, resetFile, counters
<1>6. ASSUME NEW k \in Key, GrowsHeavy(k) PROVE Entries' /\ Cycle' /\ RequestFile' /\ OtherStates'
  <2>1. heavy' \subseteq 1..MaxSids
    BY <1>0, <1>6 DEF GrowsHeavy, Entries, Store, Entry, OtherStates, Files, Counts
  <2>2. QED BY <1>0, <1>6, <2>1 DEF GrowsHeavy, Entries, Cycle, RequestFile, OtherStates, Files, Counts, resetFile, counters
<1>7. ASSUME NEW k \in Key, AskOpen(k) PROVE Entries' /\ Cycle' /\ RequestFile' /\ OtherStates'
  BY <1>0, <1>7 DEF AskOpen, Entries, Cycle, RequestFile, OtherStates, Files, Counts
<1>8. ASSUME NEW k \in Key, ResetPending(k) PROVE Entries' /\ Cycle' /\ RequestFile' /\ OtherStates'
  <2>1. Cycle' /\ RequestFile' /\ OtherStates'
    BY <1>0, <1>8 DEF ResetPending, Cycle, RequestFile, OtherStates, Files, Counts, counters
  <2>2. Entries'
    BY <1>0, <1>8, DropTypes DEF ResetPending, Entries
  <2>3. QED BY <2>1, <2>2
<1>9. CASE AskWrite \/ ReadPending \/ UnlinkPending
  BY <1>0, <1>9 DEF AskWrite, ReadPending, UnlinkPending, Entries, Cycle, RequestFile, OtherStates, Files, Counts, counters
<1>10. CASE PreSave
  BY <1>0, <1>10 DEF PreSave, BeginSave, SaverRecord, Entries, Cycle, RequestFile, OtherStates, Files, Counts, resetFile
<1>11. CASE DaemonDies
  <2>1. 0 \in 0..Cardinality(Key)
    BY FS_CardinalityType
  <2>2. Cycle'
    BY <1>0, <1>11, <2>1 DEF DaemonDies, NoCycle, Cycle
  <2>3. Entries'
    BY <1>0, <1>11 DEF DaemonDies, Entries
  <2>4. RequestFile' /\ Files' /\ Counts'
    <3>1. RequestFile' /\ Files'
      BY <1>0, <1>11 DEF DaemonDies, RequestFile, OtherStates, Files
    <3>2. Counts'
      BY <1>0, <1>11, <1>m DEF DaemonDies, OtherStates, Counts
    <3>3. QED BY <3>1, <3>2
  <2>5. unsettled' \in BOOLEAN
    BY <1>0, <1>11 DEF DaemonDies, OtherStates
  <2>6. QED BY <2>2, <2>3, <2>4, <2>5 DEF OtherStates
<1>12. CASE Restart
  BY <1>0, <1>12 DEF Restart, Entries, Cycle, RequestFile, OtherStates, Files, Counts, resetFile, counters
<1>13. ASSUME NEW t \in Thread, SaveStep(t) \/ WriteFails(t) PROVE Entries' /\ Cycle' /\ RequestFile' /\ OtherStates'
  <2>1. Cycle' /\ RequestFile'
    BY <1>0, <1>13 DEF SaveStep, Copy, Write, WriteFails, Cycle, RequestFile, resetFile
  <2>2. sessions' = sessions /\ turn' = turn /\ gone' = gone
    BY <1>13 DEF SaveStep, Copy, Write, WriteFails
  <2>3. saver' \in [Thread -> SaverRecord]
    <3>1. CASE Copy(t)
      <4>1. [step |-> "write", data |-> sessions] \in SaverRecord
        BY <1>0 DEF Entries, SaverRecord
      <4>2. QED BY <1>0, <3>1, <4>1 DEF Copy, Entries
    <3>2. CASE Write(t) \/ WriteFails(t)
      BY <1>0, <3>2 DEF Write, WriteFails, Entries
    <3>3. QED BY <1>13, <3>1, <3>2 DEF SaveStep
  <2>4. Entries'
    BY <1>0, <2>2, <2>3 DEF Entries
  <2>5. file' \in Store \cup {Empty, Mixed}
    <3>1. saver[t].data \in Store
      BY <1>0 DEF Entries, SaverRecord
    <3>2. QED BY <1>0, <1>13, <3>1 DEF SaveStep, Copy, Write, WriteFails, OtherStates, Files
  <2>6. heavy' = heavy /\ up' = up /\ Counts'
    <3>1. heavy' = heavy /\ up' = up /\ UNCHANGED <<opened, turns, requested, presaves>>
      BY <1>13 DEF SaveStep, Copy, Write, WriteFails, counters
    <3>2. mishaps' \in 0..MaxMishaps
      BY <1>0, <1>13, <1>m DEF SaveStep, Copy, Write, WriteFails, OtherStates, Counts, counters
    <3>3. QED BY <1>0, <3>1, <3>2 DEF OtherStates, Counts
  <2>7. unsettled' \in BOOLEAN
    BY <1>0, <1>13 DEF SaveStep, Copy, Write, WriteFails, OtherStates
  <2>8. OtherStates'
    BY <1>0, <2>5, <2>6, <2>7 DEF OtherStates, Files
  <2>9. QED BY <2>1, <2>4, <2>8
<1>14. CASE UNCHANGED storeVars
  BY <1>0, <1>14 DEF storeVars, Entries, Cycle, RequestFile, OtherStates, Files, Counts, resetFile, counters
<1>15. QED
  BY <1>1, <1>2, <1>3, <1>3a, <1>4, <1>5, <1>6, <1>7, <1>8, <1>9, <1>10, <1>11, <1>12, <1>13, <1>14
     DEF StoreNext, HygieneStep

-----------------------------------------------------------------------------
(* The theorems.                                                            *)

\* The initial states.
LEMMA StoreInvInit == StoreInit => StoreInv
<1> SUFFICES ASSUME StoreInit PROVE StoreInv
  OBVIOUS
<1> USE StoreAssumption, LeftAssumption
<1>1. /\ LeftKeys \subseteq Key /\ IsFiniteSet(LeftKeys) /\ Cardinality(LeftKeys) \in Nat /\ Cardinality(Key) \in Nat
      /\ Cardinality({}) = 0
  BY FS_Subset, FS_CardinalityType, FS_EmptySet DEF LeftKeys
<1>2. /\ NoTurn \in TurnRecord /\ NotSaving \in SaverRecord /\ NoSessions \in Store /\ NotSaving.step = "no"
      /\ \A k \in Key : NoTurn.sid = None /\ NotSaving.data[k] = None
  BY DEF NoTurn, NotSaving, NoSessions, Store, TurnRecord, SaverRecord
<1>3. StoreTypeOK
  <2>1. Entries
    BY <1>2 DEF StoreInit, Entries
  <2>2. Cycle
    BY <1>1 DEF StoreInit, NoCycle, Cycle
  <2>3. RequestFile /\ Counts /\ unsettled \in BOOLEAN
    <3>1. RequestFile /\ unsettled \in BOOLEAN
      BY DEF StoreInit, RequestFile
    <3>2. Cardinality(LeftKeys) \in 0..MaxSids
      BY <1>1
    <3>3. Counts
      BY <3>2 DEF StoreInit, Counts
    <3>4. QED BY <3>1, <3>3
  <2>4. Files
    BY DEF StoreInit, Files
  <2>5. QED BY <2>1, <2>2, <2>3, <2>4, StoreDomains DEF OtherStates
<1>4. \A k \in Key, s \in 1..MaxSids : Names(k, s) => k \in LeftKeys /\ Left[k].sid = s
  BY <1>2 DEF StoreInit, Names, LeftKeys
<1>5. OwnIds
  BY <1>1, <1>4 DEF StoreInit, OwnIds
<1>6. DroppedKnown /\ SavesInStep /\ NobodySaves
  BY <1>2 DEF StoreInit, DroppedKnown, DroppedStaysDropped, SavesInStep, NobodySaves
<1>7. CycleKept /\ OwedKept
  BY <1>1 DEF StoreInit, NoCycle, CycleKept, OwedKept
<1>8. QED BY <1>3, <1>5, <1>6, <1>7 DEF StoreInv, Stored

\* Every step keeps the invariant.
LEMMA StoreInvStep == StoreInv /\ [StoreNext]_storeVars => StoreInv'
BY StoreTypeStep, StoredStep, CycleStep, OwedStep DEF StoreInv

\* The inductive invariant of the session store holds throughout.
THEOREM StoreInvariant == StoreSpec => []StoreInv
BY StoreInvInit, StoreInvStep, PTL DEF StoreSpec

\* The variables keep their domains: a cycle makes no more summaries than there are keys
\* (autoreset.py:198-240), and failures are counted to the limit and not beyond.
THEOREM StoreTypes == StoreSpec => []StoreTypeOK
<1>1. StoreInv => StoreTypeOK
  BY DEF StoreInv
<1>2. QED BY <1>1, StoreInvariant, PTL

\* Whatever threads save, reset and summarise, and in whatever order, the file follows the
\* dictionary, a dropped session is not resumed, and a reset asked for is not forgotten
\* (save_sessions, reset_session, _process_pending_resets of sessions.py).
THEOREM SessionsAreKept == StoreSpec => []SessionsKept
<1>1. StoreInv => SessionsKept
  BY DEF StoreInv, Stored, SavesInStep, DroppedKnown, OwedKept, SessionsKept, FileFollows, PendingHonoured
<1>2. QED BY <1>1, StoreInvariant, PTL
=============================================================================
