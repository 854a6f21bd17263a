---------------------------- MODULE DaemonProofs ----------------------------
(***************************************************************************)
(* Proofs about the daemon: its summoned sessions (Summons), its teams'      *)
(* turns (TeamTurn) and a project's periodic task (Heartbeat), for any       *)
(* number of sessions, turns, members and faults.                            *)
(*                                                                           *)
(* That a cancel is heeded rests on what the server says of a cancelled      *)
(* session as long as its thread is up.  The other parts' invariants are     *)
(* introduced where they are stated.                                         *)
(***************************************************************************)
EXTENDS Summons, TeamTurn, Heartbeat, TLAPS

\* What the server says of a cancelled session, and of one that is completed.
CancelKnown ==
    \A s \in Summoned :
        /\ s \in cancelled => status[s] \in {"cancelled", "completed"}
        /\ status[s] = "completed" => talk[s].at = "none"

SummonTypes ==
    /\ status \in [Summoned -> {"none", "pending", "active", "cancelled", "completed"}]
    /\ talk \in [Summoned -> [at : {"none", "starting", "rounds", "talking"}, round : Nat,
                              left : SUBSET Experts, named : SUBSET Experts]]
    /\ cancelled \subseteq Summoned

SummonInv == SummonTypes /\ CancelKnown /\ CancelHeeded

-----------------------------------------------------------------------------
(* The summoned sessions.                                                  *)

\* At the start nothing has been asked for.
LEMMA SummonStarts == SummonInit => SummonInv
BY DEF SummonInit, SummonInv, SummonTypes, CancelKnown, CancelHeeded, NoTalk

Talks == [at : {"none", "starting", "rounds", "talking"}, round : Nat,
          left : SUBSET Experts, named : SUBSET Experts]

\* A round is counted and the called are to speak.
LEMMA NextTalk ==
    ASSUME NEW t \in Talks, NEW called \in SUBSET Experts
    PROVE  [t EXCEPT !.at = "talking", !.round = t.round + 1, !.left = called] \in Talks
<1>1. t.round \in Nat /\ t.round + 1 \in Nat
  BY DEF Talks
<1>2. QED BY <1>1 DEF Talks

\* Each step keeps what is known of a cancelled session.
LEMMA SummonStep == SummonInv /\ [SummonNext]_summonVars => SummonInv'
<1> SUFFICES ASSUME SummonInv, [SummonNext]_summonVars PROVE SummonInv'
  OBVIOUS
<1> USE DEF SummonInv, SummonTypes, CancelKnown, CancelHeeded, NoTalk, Alone, Arrives, Lost
<1>1. ASSUME NEW s \in Summoned, Ask(s) PROVE SummonInv'
  BY <1>1 DEF Ask
<1>2. ASSUME NEW s \in Summoned, Cancel(s) PROVE SummonInv'
  BY <1>2 DEF Cancel
<1>3. ASSUME NEW s \in Summoned, Poll(s) PROVE SummonInv'
  BY <1>3 DEF Poll
<1>4. ASSUME NEW s \in Summoned, BeginSession(s) PROVE SummonInv'
  BY <1>4 DEF BeginSession
<1>5. ASSUME NEW s \in Summoned, Round(s) PROVE SummonInv'
  <2>1. CASE status[s] = "cancelled" /\ talk' = [talk EXCEPT ![s] = NoTalk] /\ UNCHANGED ignored
    BY <1>5, <2>1 DEF Round
  <2>2. CASE NextRound(s) /\ (ignored' = ignored \/ (status[s] # "cancelled" /\ Heard(s)))
    <3>1. talk' \in [Summoned -> Talks]
      <4>1. Called(s) \subseteq Experts
        BY DEF Called
      <4>2. talk \in [Summoned -> Talks]
        BY DEF Talks
      <4>3. [talk[s] EXCEPT !.at = "talking", !.round = talk[s].round + 1, !.left = Called(s)] \in Talks
        BY <4>1, <4>2, NextTalk
      <4>4. QED BY <2>2, <4>2, <4>3 DEF NextRound
    <3>2. talk[s].at = "rounds" /\ UNCHANGED <<status, cancelled>>
      BY <1>5 DEF Round, MoreRounds
    <3>3. status[s] # "completed"
      BY <3>2
    <3>4. \A r \in Summoned : r # s => talk'[r] = talk[r]
      BY <2>2 DEF NextRound
    <3>5. CancelKnown'
      BY <3>2, <3>3, <3>4
    <3>6. CancelHeeded'
      <4>1. CASE status[s] # "cancelled" /\ Heard(s)
        BY <3>3, <4>1 DEF Heard
      <4>2. QED BY <2>2, <4>1
    <3>7. SummonTypes'
      <4>1. status' \in [Summoned -> {"none", "pending", "active", "cancelled", "completed"}]
            /\ cancelled' \subseteq Summoned
        BY <3>2
      <4>2. QED BY <3>1, <4>1 DEF Talks
    <3>8. QED BY <3>5, <3>6, <3>7
  <2>3. QED BY <1>5, <2>1, <2>2 DEF Round
<1>6. ASSUME NEW s \in Summoned, Opinion(s) PROVE SummonInv'
  BY <1>6 DEF Opinion
<1>7. ASSUME NEW s \in Summoned, Raises(s) PROVE SummonInv'
  BY <1>7 DEF Raises
<1>8. ASSUME NEW s \in Summoned, Critic(s) PROVE SummonInv'
  BY ZenonT(40), <1>8 DEF Critic
<1>9. ASSUME NEW s \in Summoned, Content(s) PROVE SummonInv'
  BY <1>9 DEF Content, End
<1>10. ASSUME NEW s \in Summoned, RoundsOver(s) PROVE SummonInv'
  BY <1>10 DEF RoundsOver, End
<1>11. CASE SummonShutdown
  BY <1>11 DEF SummonShutdown
<1>12. CASE NextLife
  BY <1>12 DEF NextLife
<1>13. CASE UNCHANGED summonVars
  BY <1>13 DEF summonVars
<1>14. QED
  BY <1>1, <1>2, <1>3, <1>4, <1>5, <1>6, <1>8, <1>9, <1>10, <1>11, <1>12, <1>13, <1>7
     DEF SummonNext, Thread

\* A cancelled session begins no round whose check is answered, unless the thread's start
\* undid the cancel: for any number of sessions, experts, rounds, lost calls and stops.
THEOREM CancelIsHeeded == SummonSpec => []CancelHeeded
<1>1. SummonInv => CancelHeeded
  BY DEF SummonInv
<1>2. QED BY SummonStarts, SummonStep, <1>1, PTL DEF SummonSpec

-----------------------------------------------------------------------------
(* A team's turn.                                                          *)

WithMembers == {"members", "talking", "again"}
\* The answers that a message is taken for answered on.
Counts == {"lead", "direct", "sum"}
\* Only after a member's answer.
AfterMembers == {"talk", "talking", "reviewing", "review", "again", "summing", "sum", "learn"}

TeamTypes ==
    /\ queued \subseteq Turns
    /\ step \in [Turns -> Steps \cup {"out"}] /\ cut \in [Turns -> SUBSET Steps]
    /\ run \in [Turns -> [Runs -> Lived]]
    /\ results \in [Turns -> Nat]
    /\ told \in [Turns -> {"nothing", "plan", "member", "answer", "summary", "stopped"}]

BusyRuns(u) == {r \in Runs : run[u][r] \in {"wait", "run", "said"}}

\* A message that was dequeued has no turn; one of whose runs that count one was cut
\* is still queued, and the turn is over or has yet to find out.  Past the members,
\* one of them has answered.
Honest(u) ==
    /\ u \notin queued => step[u] = "out"
    /\ step[u] = "out" => BusyRuns(u) = {}
    /\ cut[u] \cap Counts # {} => u \in queued /\ (step[u] = "out" \/ (step[u] \in Counts /\ LeadCut(u)))
    /\ step[u] \in AfterMembers => results[u] > 0

\* What RoundsTrue says of one turn.
InRounds(u) ==
    /\ step[u] \notin WithMembers => BusyRuns(u) \subseteq {LeadRun}
    /\ LeadRun \in BusyRuns(u) => BusyRuns(u) = {LeadRun}
    /\ told[u] = "summary" => results[u] > 0

TeamInv == TeamTypes /\ \A u \in Turns : Honest(u) /\ InRounds(u)

\* The invariant says what the property says, and more.
LEMMA TeamInvSuffices == TeamInv => RoundsTrue
<1> SUFFICES ASSUME TeamInv PROVE RoundsTrue
  OBVIOUS
<1>1. RoundByRound
  BY DEF TeamInv, InRounds, BusyRuns, WithMembers, RoundByRound
<1>2. AnswerReal
  BY DEF TeamInv, TeamTypes, Honest, InRounds, AnswerReal, Counts, Steps
<1>3. QED BY <1>1, <1>2 DEF RoundsTrue

\* The lead's run is no member's.
LEMMA LeadAside == LeadRun \in Runs /\ LeadRun \notin MemberRuns /\ MemberRuns = Runs \ {LeadRun}
BY TeamAssumption DEF LeadRun, Runs, MemberRuns

\* A step of turn u leaves the other turns alone.
OnlyOf(u) ==
    \A v \in Turns \ {u} :
        /\ run'[v] = run[v] /\ step'[v] = step[v] /\ cut'[v] = cut[v]
        /\ results'[v] = results[v] /\ told'[v] = told[v] /\ (v \in queued' <=> v \in queued)

\* What a step of turn u has to keep.
KeepsOf(u) == TeamTypes' /\ OnlyOf(u) /\ Honest(u)' /\ InRounds(u)'

\* It then keeps the invariant.
LEMMA OneTurn == ASSUME TeamInv, NEW u \in Turns, KeepsOf(u) PROVE TeamInv'
<1>1. ASSUME NEW v \in Turns \ {u} PROVE Honest(v)' /\ InRounds(v)'
  <2>1. Honest(v) /\ InRounds(v)
    BY DEF TeamInv
  <2>2. /\ run'[v] = run[v] /\ step'[v] = step[v] /\ cut'[v] = cut[v]
        /\ results'[v] = results[v] /\ told'[v] = told[v] /\ (v \in queued' <=> v \in queued)
    BY DEF KeepsOf, OnlyOf
  <2>3. QED BY <2>1, <2>2 DEF Honest, InRounds, BusyRuns, LeadCut
<1>2. QED BY <1>1 DEF TeamInv, KeepsOf

\* One run of a turn is another step on.
LEMMA RunMoves ==
    ASSUME TeamInv, NEW u \in Turns, NEW r \in Runs, NEW s \in Lived, run' = [run EXCEPT ![u][r] = s]
    PROVE  /\ run' \in [Turns -> [Runs -> Lived]]
           /\ \A v \in Turns \ {u} : run'[v] = run[v]
           /\ run'[u][r] = s /\ \A q \in Runs \ {r} : run'[u][q] = run[u][q]
BY DEF TeamInv, TeamTypes

\* A run's own steps.
LEMMA RunnerStep == ASSUME TeamInv, NEW u \in Turns, NEW r \in Runs, Runner(u, r) PROVE KeepsOf(u)
<1> USE DEF KeepsOf
<1>1. TeamTypes /\ Honest(u) /\ InRounds(u)
  BY DEF TeamInv
<1>2. ASSUME NEW s \in {"run", "said"}, run' = [run EXCEPT ![u][r] = s], run[u][r] \in {"wait", "run"},
             UNCHANGED <<queued, step, results, cut, told>>
      PROVE  KeepsOf(u)
  <2>1. /\ run' \in [Turns -> [Runs -> Lived]] /\ \A v \in Turns \ {u} : run'[v] = run[v]
        /\ run'[u][r] = s /\ \A q \in Runs \ {r} : run'[u][q] = run[u][q]
    BY <1>2, RunMoves DEF Lived
  <2>2. BusyRuns(u)' = BusyRuns(u)
    BY <1>2, <2>1 DEF BusyRuns
  <2>3. run[u][LeadRun] = "cut" => run'[u][LeadRun] = "cut"
    BY <1>2, <2>1, LeadAside
  <2>4. QED BY <1>1, <1>2, <2>1, <2>2, <2>3 DEF TeamTypes, OnlyOf, Honest, InRounds, LeadCut
<1>3. CASE Start(u, r) \/ Say(u, r) \/ Interrupt(u, r)
  BY <1>2, <1>3 DEF Start, Say, Interrupt
<1>4. CASE Cut(u, r)
  <2>1. /\ run' \in [Turns -> [Runs -> Lived]] /\ \A v \in Turns \ {u} : run'[v] = run[v]
        /\ run'[u][r] = "cut" /\ \A q \in Runs \ {r} : run'[u][q] = run[u][q]
    BY <1>4, RunMoves DEF Lived, Cut
  <2>2. BusyRuns(u)' = BusyRuns(u) \ {r} /\ r \in BusyRuns(u)
    BY <1>4, <2>1 DEF BusyRuns, Cut
  <2>3. step[u] \notin WithMembers => r = LeadRun
    BY <1>1, <2>2 DEF InRounds
  <2>4. step[u] # "out" /\ u \in queued /\ step[u] \in Steps
    BY <1>1, <2>2 DEF Honest, TeamTypes
  <2>5. step[u] \in Counts => r = LeadRun /\ LeadCut(u)'
    BY <2>1, <2>3 DEF Counts, WithMembers, LeadCut
  <2>6. cut' = [cut EXCEPT ![u] = @ \cup {step[u]}] /\ UNCHANGED <<queued, step, results, told>>
    BY <1>4 DEF Cut
  <2>7. TeamTypes' /\ OnlyOf(u)
    BY <1>1, <2>1, <2>4, <2>6 DEF TeamTypes, OnlyOf
  <2>8. cut'[u] = cut[u] \cup {step[u]}
    BY <1>1, <2>6 DEF TeamTypes
  <2>9. Honest(u)'
    <3>1. cut'[u] \cap Counts # {} => step[u] \in Counts
      BY <1>1, <2>4, <2>8 DEF Honest
    <3>2. QED BY <1>1, <2>4, <2>5, <2>6, <3>1 DEF Honest
  <2>10. InRounds(u)'
    BY <1>1, <2>2, <2>6 DEF InRounds
  <2>11. QED BY <2>7, <2>9, <2>10
<1>5. CASE Show(u, r)
  <2>1. /\ run' \in [Turns -> [Runs -> Lived]] /\ \A v \in Turns \ {u} : run'[v] = run[v]
        /\ run'[u][r] = "shown" /\ \A q \in Runs \ {r} : run'[u][q] = run[u][q]
    BY <1>5, RunMoves DEF Lived, Show
  <2>2. BusyRuns(u)' = BusyRuns(u) \ {r} /\ r \in BusyRuns(u) /\ r # LeadRun
    BY <1>5, <2>1 DEF BusyRuns, Show
  <2>3. step[u] \in WithMembers
    BY <1>1, <2>2 DEF InRounds
  <2>4. /\ UNCHANGED <<queued, step, cut>> /\ told' = [told EXCEPT ![u] = "member"]
        /\ results' = [results EXCEPT ![u] = IF step[u] = "members" THEN @ + 1 ELSE @]
    BY <1>5 DEF Show
  <2>5. results'[u] \in Nat /\ results'[u] >= results[u]
    BY <1>1, <2>4 DEF TeamTypes
  <2>6. TeamTypes' /\ OnlyOf(u) /\ told'[u] = "member"
    BY <1>1, <2>1, <2>4, <2>5 DEF TeamTypes, OnlyOf
  <2>7. Honest(u)'
    BY <1>1, <2>2, <2>3, <2>4, <2>5 DEF Honest, WithMembers, TeamTypes, Counts
  <2>8. InRounds(u)'
    BY <1>1, <2>2, <2>3, <2>4, <2>6 DEF InRounds
  <2>9. QED BY <2>6, <2>7, <2>8
<1>6. QED BY <1>3, <1>4, <1>5 DEF Runner

\* The lead is run, and nobody else.
LEMMA LeadRuns ==
    ASSUME TeamInv, NEW u \in Turns, NEW s \in Steps, AskLead(u, s)
    PROVE  /\ run' \in [Turns -> [Runs -> Lived]] /\ step' \in [Turns -> Steps \cup {"out"}]
           /\ \A v \in Turns \ {u} : run'[v] = run[v] /\ step'[v] = step[v]
           /\ step'[u] = s /\ BusyRuns(u)' = {LeadRun}
<1>1. [Idle EXCEPT ![LeadRun] = "wait"] \in [Runs -> Lived]
  BY DEF Idle, Lived
<1>2. run' = [run EXCEPT ![u] = [Idle EXCEPT ![LeadRun] = "wait"]] /\ step' = [step EXCEPT ![u] = s]
  BY DEF AskLead, Goto
<1>3. run'[u] = [Idle EXCEPT ![LeadRun] = "wait"]
  BY <1>2 DEF TeamInv, TeamTypes
<1>4. BusyRuns(u)' = {LeadRun}
  BY <1>3, LeadAside DEF BusyRuns, Idle
<1>5. QED BY <1>1, <1>2, <1>4 DEF TeamInv, TeamTypes

\* Members are run, and the lead is not.
LEMMA MembersRun ==
    ASSUME TeamInv, NEW u \in Turns, NEW s \in Steps, NEW named, Submit(u, s, named)
    PROVE  /\ run' \in [Turns -> [Runs -> Lived]] /\ step' \in [Turns -> Steps \cup {"out"}]
           /\ \A v \in Turns \ {u} : run'[v] = run[v] /\ step'[v] = step[v]
           /\ step'[u] = s /\ LeadRun \notin BusyRuns(u)'
<1> DEFINE some == [r \in Runs |-> IF r # LeadRun /\ r[2] <= named[r[1]] THEN "wait" ELSE "none"]
<1>1. some \in [Runs -> Lived] /\ some[LeadRun] = "none"
  BY LeadAside DEF Lived
<1>2. run' = [run EXCEPT ![u] = some] /\ step' = [step EXCEPT ![u] = s]
  BY DEF Submit, Goto
<1> HIDE DEF some
<1>3. run'[u] = some
  BY <1>2 DEF TeamInv, TeamTypes
<1>4. LeadRun \notin BusyRuns(u)'
  BY <1>1, <1>3 DEF BusyRuns
<1>5. QED BY <1>1, <1>2, <1>4 DEF TeamInv, TeamTypes

\* The turn is over.
LEMMA Over ==
    ASSUME TeamInv, NEW u \in Turns, Finish(u) \/ LeftQueued(u)
    PROVE  /\ run' \in [Turns -> [Runs -> Lived]] /\ step' \in [Turns -> Steps \cup {"out"}]
           /\ \A v \in Turns \ {u} : run'[v] = run[v] /\ step'[v] = step[v] /\ (v \in queued' <=> v \in queued)
           /\ step'[u] = "out" /\ BusyRuns(u)' = {}
           /\ queued' \in {queued, queued \ {u}} /\ (u \notin queued' => u \notin queued \/ Finish(u))
<1>1. Idle \in [Runs -> Lived]
  BY DEF Idle, Lived
<1>2. run' = [run EXCEPT ![u] = Idle] /\ step' = [step EXCEPT ![u] = "out"]
  BY DEF Finish, LeftQueued, Goto
<1>3. run'[u] = Idle
  BY <1>2 DEF TeamInv, TeamTypes
<1>4. BusyRuns(u)' = {}
  BY <1>3 DEF BusyRuns, Idle
<1>5. queued' \in {queued, queued \ {u}} /\ (u \notin queued' => u \notin queued \/ Finish(u))
  BY DEF Finish, LeftQueued
<1>6. QED BY <1>1, <1>2, <1>4, <1>5 DEF TeamInv, TeamTypes

\* What the user has heard of a turn.
LEMMA Told ==
    ASSUME TeamInv, NEW u \in Turns, NEW s \in {"nothing", "plan", "answer", "summary", "stopped"}, Tell(u, s)
    PROVE  /\ told' \in [Turns -> {"nothing", "plan", "member", "answer", "summary", "stopped"}]
           /\ told'[u] = s /\ \A v \in Turns \ {u} : told'[v] = told[v]
BY DEF TeamInv, TeamTypes, Tell

\* A turn is left: its message is dequeued only when no run that counts was cut, and
\* a summary is told only when members have answered.
LEMMA EndOfTurn ==
    ASSUME TeamInv, NEW u \in Turns, step[u] # "out", UNCHANGED <<results, cut>>,
           LeftQueued(u) \/ (Finish(u) /\ (step[u] \notin Counts \/ LeadSaid(u))),
           \/ UNCHANGED told
           \/ Tell(u, "answer") \/ Tell(u, "stopped")
    PROVE  KeepsOf(u)
<1>1. TeamTypes /\ Honest(u) /\ InRounds(u)
  BY DEF TeamInv
<1>2. /\ run' \in [Turns -> [Runs -> Lived]] /\ step' \in [Turns -> Steps \cup {"out"}]
      /\ \A v \in Turns \ {u} : run'[v] = run[v] /\ step'[v] = step[v] /\ (v \in queued' <=> v \in queued)
      /\ step'[u] = "out" /\ BusyRuns(u)' = {}
      /\ queued' \in {queued, queued \ {u}} /\ (u \notin queued' => u \notin queued \/ Finish(u))
  BY Over
<1>3. /\ told' \in [Turns -> {"nothing", "plan", "member", "answer", "summary", "stopped"}]
      /\ told'[u] # "summary" \/ told'[u] = told[u]
      /\ \A v \in Turns \ {u} : told'[v] = told[v]
  BY <1>1, Told DEF TeamTypes
<1>4. TeamTypes' /\ OnlyOf(u)
  BY <1>1, <1>2, <1>3 DEF TeamTypes, OnlyOf
<1>5. u \notin queued' => cut[u] \cap Counts = {}
  BY <1>1 DEF Honest, LeadCut, LeadSaid, LeftQueued
<1>6. Honest(u)'
  <2>1. step'[u] \notin AfterMembers /\ cut' = cut
    BY <1>2 DEF AfterMembers
  <2>2. cut[u] \cap Counts # {} => u \in queued /\ u \in queued'
    BY <1>1, <1>2, <1>5 DEF Honest
  <2>3. QED BY <1>2, <2>1, <2>2 DEF Honest
<1>7. InRounds(u)'
  BY <1>1, <1>2, <1>3 DEF InRounds
<1>8. QED BY <1>4, <1>6, <1>7 DEF KeepsOf

\* The lead is asked: it has not been cut where its answer counts, and where members
\* have to have answered, they have.
LEMMA LeadAsked ==
    ASSUME TeamInv, NEW u \in Turns, NEW s \in Steps, AskLead(u, s), u \in queued,
           queued' = queued, results' \in [Turns -> Nat],
           \A v \in Turns \ {u} : results'[v] = results[v] /\ cut'[v] = cut[v],
           cut' \in [Turns -> SUBSET Steps], cut'[u] \cap Counts = {},
           s \in AfterMembers => results'[u] > 0,
           s \notin WithMembers,
           \/ told' = told /\ results' = results
           \/ \E m \in {"nothing", "plan"} : Tell(u, m)
           \/ Tell(u, "summary") /\ s \in AfterMembers
    PROVE  KeepsOf(u)
<1>1. TeamTypes /\ Honest(u) /\ InRounds(u)
  BY DEF TeamInv
<1>2. /\ run' \in [Turns -> [Runs -> Lived]] /\ step' \in [Turns -> Steps \cup {"out"}]
      /\ \A v \in Turns \ {u} : run'[v] = run[v] /\ step'[v] = step[v]
      /\ step'[u] = s /\ BusyRuns(u)' = {LeadRun}
  BY LeadRuns
<1>3. /\ told' \in [Turns -> {"nothing", "plan", "member", "answer", "summary", "stopped"}]
      /\ told'[u] = "summary" => results'[u] > 0
      /\ \A v \in Turns \ {u} : told'[v] = told[v]
  <2>1. CASE told' = told /\ results' = results
    BY <1>1, <2>1 DEF TeamTypes, InRounds
  <2>2. ASSUME NEW m \in {"nothing", "plan"}, Tell(u, m) PROVE <1>3
    BY <2>2, Told
  <2>3. CASE Tell(u, "summary") /\ s \in AfterMembers
    BY <2>3, Told
  <2>4. QED BY <2>1, <2>2, <2>3
<1>4. TeamTypes' /\ OnlyOf(u)
  BY <1>1, <1>2, <1>3 DEF TeamTypes, OnlyOf
<1>5. Honest(u)'
  <2>1. s # "out"
    BY DEF Steps
  <2>2. QED BY <1>2, <2>1 DEF Honest
<1>6. InRounds(u)'
  BY <1>2, <1>3 DEF InRounds
<1>7. QED BY <1>4, <1>5, <1>6 DEF KeepsOf

\* Members are asked.
LEMMA MembersAsked ==
    ASSUME TeamInv, NEW u \in Turns, NEW s \in WithMembers, NEW named, Submit(u, s, named), u \in queued,
           UNCHANGED <<queued, results, cut>>, cut[u] \cap Counts = {},
           s \in AfterMembers => results[u] > 0,
           told' = told \/ Tell(u, "plan")
    PROVE  KeepsOf(u)
<1>1. TeamTypes /\ Honest(u) /\ InRounds(u)
  BY DEF TeamInv
<1>2. /\ run' \in [Turns -> [Runs -> Lived]] /\ step' \in [Turns -> Steps \cup {"out"}]
      /\ \A v \in Turns \ {u} : run'[v] = run[v] /\ step'[v] = step[v]
      /\ step'[u] = s /\ LeadRun \notin BusyRuns(u)'
  BY MembersRun DEF WithMembers, Steps
<1>3. /\ told' \in [Turns -> {"nothing", "plan", "member", "answer", "summary", "stopped"}]
      /\ told'[u] = "summary" => told[u] = "summary"
      /\ \A v \in Turns \ {u} : told'[v] = told[v]
  BY <1>1, Told DEF TeamTypes
<1>4. TeamTypes' /\ OnlyOf(u)
  BY <1>1, <1>2, <1>3 DEF TeamTypes, OnlyOf
<1>5. Honest(u)'
  <2>1. s # "out"
    BY DEF WithMembers
  <2>2. QED BY <1>2, <2>1 DEF Honest
<1>6. InRounds(u)'
  BY <1>1, <1>2, <1>3 DEF InRounds
<1>7. QED BY <1>4, <1>5, <1>6 DEF KeepsOf

\* The turn goes on to its next step, with nobody at work but, at most, the lead.
LEMMA GoesToNext ==
    ASSUME TeamInv, NEW u \in Turns, NEW s \in AfterMembers \ (WithMembers \cup Counts), Goto(u, s), u \in queued,
           UNCHANGED <<queued, run, results, cut, told>>, BusyRuns(u) \subseteq {LeadRun},
           cut[u] \cap Counts = {}, results[u] > 0
    PROVE  KeepsOf(u)
<1>1. TeamTypes /\ Honest(u) /\ InRounds(u)
  BY DEF TeamInv
<1>2. step' = [step EXCEPT ![u] = s] /\ s \in Steps /\ s # "out"
  BY DEF Goto, AfterMembers, Steps
<1>3. TeamTypes' /\ OnlyOf(u) /\ step'[u] = s
  BY <1>1, <1>2 DEF TeamTypes, OnlyOf
<1>4. Honest(u)'
  BY <1>2, <1>3 DEF Honest
<1>5. InRounds(u)'
  BY <1>1, <1>3 DEF InRounds, BusyRuns
<1>6. QED BY <1>3, <1>4, <1>5 DEF KeepsOf

\* In a turn that is under way the message is queued.
LEMMA UnderWay ==
    ASSUME TeamInv, NEW u \in Turns, step[u] # "out"
    PROVE  /\ u \in queued
           /\ step[u] \notin Counts \/ LeadSaid(u) => cut[u] \cap Counts = {}
           /\ step[u] \in AfterMembers => results[u] > 0
           /\ step[u] \notin WithMembers => BusyRuns(u) \subseteq {LeadRun}
           /\ Settled(u) => BusyRuns(u) \subseteq {LeadRun}
<1>1. Honest(u) /\ InRounds(u)
  BY DEF TeamInv
<1>2. Settled(u) => BusyRuns(u) \subseteq {LeadRun}
  BY LeadAside DEF Settled, BusyRuns
<1>3. QED BY <1>1, <1>2 DEF Honest, InRounds, LeadCut, LeadSaid

\* A message is taken up.
LEMMA BeginStep == ASSUME TeamInv, NEW u \in Turns, Begin(u) PROVE KeepsOf(u)
<1>1. TeamTypes
  BY DEF TeamInv
<1>2. PICK s \in {"lead", "direct"} : AskLead(u, s)
  BY DEF Begin
<1>3. s \in Steps /\ s \notin AfterMembers /\ s \notin WithMembers
  BY DEF Steps, AfterMembers, WithMembers
<1>4. /\ results' \in [Turns -> Nat] /\ cut' \in [Turns -> SUBSET Steps] /\ cut'[u] = {}
      /\ \A v \in Turns \ {u} : results'[v] = results[v] /\ cut'[v] = cut[v]
  BY <1>1 DEF Begin, TeamTypes
<1>5. Tell(u, "nothing") /\ u \in queued /\ queued' = queued
  BY DEF Begin
<1>6. QED BY <1>2, <1>3, <1>4, <1>5, LeadAsked

\* The steps of a turn.
LEMMA TeamStep == ASSUME TeamInv, NEW u \in Turns, Team(u) PROVE KeepsOf(u)
<1> USE DEF Counts, AfterMembers, WithMembers
<1>1. TeamTypes
  BY DEF TeamInv
<1>2. CASE Begin(u)
  BY <1>2, BeginStep
<1>3. CASE Direct(u)
  <2>1. CASE LeftQueued(u) /\ UNCHANGED told
    BY <1>3, <2>1, EndOfTurn DEF Direct
  <2>2. CASE LeadSaid(u) /\ Finish(u) /\ Tell(u, "answer")
    BY <1>3, <2>2, EndOfTurn DEF Direct
  <2>3. QED BY <1>3, <2>1, <2>2 DEF Direct
<1>4. CASE Delegate(u)
  <2>1. CASE \E named \in [Members -> 0..Slots] : LeadSaid(u) /\ UNCHANGED queued /\ Tell(u, "plan")
                                                  /\ Submit(u, "members", named)
    BY <1>4, <2>1, UnderWay, MembersAsked DEF Delegate
  <2>2. CASE LeftQueued(u) /\ UNCHANGED told
    BY <1>4, <2>2, EndOfTurn DEF Delegate
  <2>3. CASE LeadSaid(u) /\ Finish(u) /\ (Tell(u, "answer") \/ Tell(u, "stopped"))
    BY <1>4, <2>3, EndOfTurn DEF Delegate
  <2>4. QED BY <1>4, <2>1, <2>2, <2>3 DEF Delegate
<1>5. CASE MembersDone(u)
  <2>1. CASE Finish(u)
    BY <1>5, <2>1, EndOfTurn DEF MembersDone
  <2>2. CASE results[u] > 0 /\ Goto(u, "talk") /\ UNCHANGED <<queued, run>>
    BY <1>5, <2>2, UnderWay, GoesToNext DEF MembersDone
  <2>3. QED BY <1>5, <2>1, <2>2 DEF MembersDone
<1>6. CASE Talk(u)
  <2>1. CASE Submit(u, "talking", Named(pending[u]))
    BY <1>6, <2>1, UnderWay, MembersAsked DEF Talk
  <2>2. CASE Goto(u, "reviewing") /\ UNCHANGED run
    BY <1>6, <2>2, UnderWay, GoesToNext DEF Talk
  <2>3. QED BY <1>6, <2>1, <2>2 DEF Talk
<1>7. CASE TalkDone(u)
  BY <1>7, UnderWay, GoesToNext DEF TalkDone
<1>8. CASE Reviewing(u)
  <2>1. CASE Goto(u, "summing") /\ UNCHANGED <<queued, run, told>>
    BY <1>8, <2>1, UnderWay, GoesToNext DEF Reviewing
  <2>2. CASE Finish(u) /\ Tell(u, "stopped")
    BY <1>8, <2>2, EndOfTurn DEF Reviewing
  <2>3. CASE AskLead(u, "review") /\ UNCHANGED <<queued, told>>
    BY <1>1, <1>8, <2>3, UnderWay, LeadAsked DEF Reviewing, TeamTypes, Steps
  <2>4. QED BY <1>8, <2>1, <2>2, <2>3 DEF Reviewing
<1>9. CASE Review(u)
  <2>1. CASE Goto(u, "summing") /\ UNCHANGED run
    BY <1>9, <2>1, UnderWay, GoesToNext DEF Review
  <2>2. CASE \E named \in [Members -> 0..Slots] : Submit(u, "again", named)
    BY <1>9, <2>2, UnderWay, MembersAsked DEF Review
  <2>3. QED BY <1>9, <2>1, <2>2 DEF Review
<1>10. CASE AgainDone(u)
  BY <1>10, UnderWay, GoesToNext DEF AgainDone
<1>11. CASE Summing(u)
  <2>1. CASE Finish(u) /\ Tell(u, "stopped")
    BY <1>11, <2>1, EndOfTurn DEF Summing
  <2>2. CASE AskLead(u, "sum") /\ UNCHANGED <<queued, told>>
    BY <1>1, <1>11, <2>2, UnderWay, LeadAsked DEF Summing, TeamTypes, Steps
  <2>3. QED BY <1>11, <2>1, <2>2 DEF Summing
<1>12. CASE Sum(u)
  <2>1. CASE LeftQueued(u) /\ UNCHANGED told
    BY <1>12, <2>1, EndOfTurn DEF Sum
  <2>2. CASE LeadSaid(u) /\ AskLead(u, "learn") /\ Tell(u, "summary") /\ UNCHANGED queued
    BY <1>1, <1>12, <2>2, UnderWay, LeadAsked DEF Sum, TeamTypes, Steps
  <2>3. QED BY <1>12, <2>1, <2>2 DEF Sum
<1>13. CASE Learn(u)
  BY <1>13, EndOfTurn DEF Learn
<1>14. QED
  BY <1>2, <1>3, <1>4, <1>5, <1>6, <1>7, <1>8, <1>9, <1>10, <1>11, <1>12, <1>13 DEF Team

\* Nothing else touches a turn, but the end of the daemon, which leaves all of them.
LEMMA AroundStep ==
    ASSUME TeamInv, (\E p \in Turns \cup {Elsewhere} : AskStop(p)) \/ Shutdown \/ Restart \/ UNCHANGED vars
    PROVE  TeamInv'
<1>1. CASE UNCHANGED <<queued, step, run, results, cut, told>>
  BY <1>1 DEF TeamInv, TeamTypes, Honest, InRounds, BusyRuns, LeadCut
<1>2. CASE Restart
  <2>1. Idle \in [Runs -> Lived]
    BY DEF Idle, Lived
  <2>2. TeamTypes'
    BY <1>2, <2>1 DEF Restart, TeamInv, TeamTypes
  <2>3. ASSUME NEW u \in Turns PROVE Honest(u)' /\ InRounds(u)'
    <3>1. Honest(u) /\ InRounds(u)
      BY DEF TeamInv
    <3>2. step'[u] = "out" /\ run'[u] = Idle /\ UNCHANGED <<queued, results, cut, told>>
      BY <1>2 DEF Restart
    <3>3. BusyRuns(u)' = {}
      BY <3>2 DEF BusyRuns, Idle
    <3>4. QED BY <3>1, <3>2, <3>3 DEF Honest, InRounds, AfterMembers
  <2>4. QED BY <2>2, <2>3 DEF TeamInv
<1>3. QED BY <1>1, <1>2 DEF AskStop, Shutdown, vars, turn

\* At the start no turn is under way.
LEMMA TeamStarts == Init => TeamInv
<1> SUFFICES ASSUME Init PROVE TeamInv
  OBVIOUS
<1>1. TeamTypes
  BY DEF Init, TeamTypes, Idle, Lived
<1>2. ASSUME NEW u \in Turns PROVE Honest(u) /\ InRounds(u)
  BY DEF Init, Honest, InRounds, BusyRuns, Idle, AfterMembers
<1>3. QED BY <1>1, <1>2 DEF TeamInv

\* The invariant of the team's turns.
THEOREM TurnInvariant == Spec => []TeamInv
<1>1. TeamInv /\ [Next]_vars => TeamInv'
  BY RunnerStep, TeamStep, AroundStep, OneTurn DEF Next
<1>2. QED BY TeamStarts, <1>1, PTL DEF Spec

\* A team answers what the team has said, for any number of turns, members, permits,
\* rounds and stops, and however often the daemon is started anew: the lead and the
\* members never speak at once, and no message is dequeued on the word of a run that
\* was cut.
THEOREM TeamRoundsTrue == Spec => []RoundsTrue
BY TurnInvariant, TeamInvSuffices, PTL

-----------------------------------------------------------------------------
(* The heartbeat of a project.                                             *)

HbTypes ==
    /\ task \in [left : Int, count : Nat, status : {"active", "done"}] /\ limited \in BOOLEAN
    /\ beat \in {"idle", "due", "waking", "moving"} /\ scout \in {"none", "sent", "found", "hung"}
    /\ queue \in Seq(BOOLEAN) /\ age \in Int
    /\ world \in [file : {"full", "empty", "missing"}, night : Nat, cooling : BOOLEAN]
    /\ events \in Nat /\ injected \in Nat /\ slipped \in BOOLEAN

\* A scout that may still have a message sent.
ScoutOut == IF scout \in {"sent", "found"} THEN 1 ELSE 0

\* Unless _pending slipped, the one message that waits is the one it names, none
\* waits where another is about to be sent, and only one is about to be.
PendingTrue ==
    ~slipped =>
        /\ Len(queue) <= 1
        /\ Len(queue) = 1 => queue[1] /\ age >= 0
        /\ beat = "waking" \/ ScoutOut = 1 => Len(queue) = 0
        /\ ~(beat = "waking" /\ scout # "none")

\* A message that has been sent and is not counted yet, and one that is to be sent.
Moving == IF beat = "moving" THEN 1 ELSE 0
Waking == IF beat = "waking" THEN 1 ELSE 0

\* What a limited task has sent, and what is about to be sent, is counted but for the
\* message of this moment and one per event; and it was looked at before it was begun.
Out == injected + ScoutOut
Known == task.count + events
CountsFit == Out <= Known + Moving /\ Out + Waking <= MaxRuns + events

CountTrue == IF limited THEN CountsFit ELSE injected = 0

HbInv == HbTypes /\ PendingTrue /\ CountTrue

\* A planned time is a number of minutes.
LEMMA SlotIsTime == ASSUME NEW left \in Int PROVE NextSlot(left) \in Int
<1>1. Interval \in Int /\ Interval > 0
  BY HeartbeatAssumption
<1>2. NextSlotNear(left) \in Int
  BY <1>1 DEF NextSlotNear
<1>3. QED BY <1>1, <1>2 DEF NextSlot

\* The server's row of the task.
Row == [left : Int, count : Nat, status : {"active", "done"}]

\* A run is counted, and only up.
LEMMA CountGoesUp ==
    ASSUME HbTypes
    PROVE  /\ Counted \in [left : Int, count : Nat, status : {"active", "done"}]
           /\ limited => Counted.count = task.count + 1
<1>1. NextSlot(task.left) \in Int
  BY SlotIsTime DEF HbTypes
<1>2. CountedUp \in Nat /\ (limited => CountedUp = task.count + 1)
  <2>1. ForceEvery \in Nat \ {0}
    BY HeartbeatAssumption
  <2>2. QED BY <2>1 DEF CountedUp, HbTypes
<1>3. QED BY <1>1, <1>2 DEF Counted, HbTypes

\* A change of the row that leaves the count alone leaves it alone, arrived or not.
LEMMA RowPatched ==
    ASSUME HbTypes, NEW row \in [left : Int, count : Nat, status : {"active", "done"}], Patch(row)
    PROVE  /\ task' \in [left : Int, count : Nat, status : {"active", "done"}]
           /\ events' \in Nat /\ events' >= events
           /\ task' = row \/ (task' = task /\ events' = events + 1)
BY DEF HbTypes, Patch, Event, Quiet

\* What is in the queue after another message.
LEMMA OneMoreMessage ==
    ASSUME HbTypes, NEW m \in BOOLEAN
    PROVE  /\ Append(Others, m) \in Seq(BOOLEAN) /\ Len(Append(Others, m)) = Len(queue) + 1
           /\ Len(queue) = 0 => Append(Others, m)[1] = m
           /\ Append(queue, m) \in Seq(BOOLEAN) /\ Len(Append(queue, m)) = Len(queue) + 1
<1>1. Others \in Seq(BOOLEAN) /\ Len(Others) = Len(queue)
  <2>1. Len(queue) \in Nat /\ DOMAIN queue = 1..Len(queue)
    BY DEF HbTypes
  <2>2. Others \in [1..Len(queue) -> BOOLEAN]
    BY <2>1 DEF Others
  <2>3. QED BY <2>1, <2>2
<1>2. QED BY <1>1 DEF HbTypes

\* At most one, and not none.
LEMMA ZeroOrOne == \A n \in Nat : n <= 1 /\ n # 0 => n = 1
OBVIOUS

\* What a step of the heartbeat's thread finds when it goes on: the last message has
\* been picked, or it is forgotten while it waits.
LEMMA GoesOnFinds ==
    ASSUME HbInv, GoesOn, age' = IF Forgets THEN -1 ELSE age, slipped \/ (Forgets /\ StillQueued) => slipped'
    PROVE  /\ age' \in Int
           /\ ~slipped' => Len(queue) = 0 /\ ~slipped
           /\ limited => task.count < MaxRuns
<1>1. age' \in Int
  BY DEF HbInv, HbTypes
<1>2. ASSUME ~slipped', Len(queue) # 0 PROVE FALSE
  <2>1. Len(queue) = 1 /\ queue[1] /\ age >= 0
    <3>1. Len(queue) \in Nat
      BY DEF HbInv, HbTypes
    <3>2. ~slipped
      BY <1>2
    <3>3. Len(queue) <= 1
      BY <3>2 DEF HbInv, PendingTrue
    <3>4. Len(queue) = 1
      BY <1>2, <3>1, <3>3, ZeroOrOne
    <3>5. QED BY <3>2, <3>4 DEF HbInv, PendingTrue
  <2>2. StillQueued
    BY <2>1 DEF StillQueued, HbInv, HbTypes
  <2>3. Forgets
    <3>1. age > PendingTtl
      BY <2>1, <2>2, HeartbeatAssumption DEF GoesOn, WakeUpQueued, HbInv, HbTypes
    <3>2. QED BY <2>1, <3>1 DEF Forgets
  <2>4. QED BY <1>2, <2>2, <2>3
<1>3. limited => task.count < MaxRuns
  BY HeartbeatAssumption DEF GoesOn, OverLimit, HbInv, HbTypes
<1>4. QED BY <1>1, <1>2, <1>3 DEF HbInv, HbTypes

\* What is counted with.
Numbers ==
    /\ injected \in Nat /\ task.count \in Nat /\ events \in Nat /\ MaxRuns \in Nat
    /\ ScoutOut \in Nat /\ Moving \in Nat /\ Waking \in Nat /\ Out \in Nat /\ Known \in Nat

\* They are numbers.
LEMMA NumbersAre == (HbTypes => Numbers) /\ (HbTypes' => Numbers')
<1>1. /\ ScoutOut \in Nat /\ Moving \in Nat /\ Waking \in Nat
      /\ ScoutOut' \in Nat /\ Moving' \in Nat /\ Waking' \in Nat
  BY DEF ScoutOut, Moving, Waking
<1>2. HbTypes => Numbers
  BY <1>1, HeartbeatAssumption DEF HbTypes, Numbers, Out, Known
<1>3. ASSUME HbTypes' PROVE Numbers'
  <2>1. injected' \in Nat /\ task'.count \in Nat /\ events' \in Nat /\ MaxRuns \in Nat
    BY <1>3, HeartbeatAssumption DEF HbTypes
  <2>2. PICK i, s, c, e \in Nat : i = injected' /\ s = ScoutOut' /\ c = task'.count /\ e = events'
    BY <1>1, <2>1
  <2>3. i + s \in Nat /\ c + e \in Nat
    OBVIOUS
  <2>4. Out' \in Nat /\ Known' \in Nat
    BY <2>2, <2>3 DEF Out, Known
  <2>5. QED BY <1>1, <2>1, <2>4 DEF Numbers
<1>4. QED BY <1>2, <1>3

\* Where no more is sent or about to be, and no less is counted, the counts fit.
LEMMA FitsStill ==
    ASSUME HbTypes, HbTypes', Out' <= Out, Waking' <= Waking, events <= events',
           \/ Known <= Known' /\ Moving <= Moving'
           \/ Known + 1 <= Known' /\ Moving <= 1
    PROVE  CountsFit => CountsFit'
<1>1. Numbers /\ Numbers'
  BY NumbersAre
<1>2. PICK o, k, m, w, x, e, o1, k1, m1, w1, e1 \in Nat :
         /\ o = Out /\ k = Known /\ m = Moving /\ w = Waking /\ x = MaxRuns /\ e = events
         /\ o1 = Out' /\ k1 = Known' /\ m1 = Moving' /\ w1 = Waking' /\ e1 = events'
  BY <1>1 DEF Numbers
<1>3. o1 <= o /\ w1 <= w /\ e <= e1 /\ ((k <= k1 /\ m <= m1) \/ (k + 1 <= k1 /\ m <= 1))
  BY <1>2
<1>4. o <= k + m => o1 <= k1 + m1
  BY <1>3
<1>5. o + w <= x + e => o1 + w1 <= x + e1
  BY <1>3
<1>6. QED BY <1>2, <1>4, <1>5 DEF CountsFit

\* The two cases of CountTrue, one after the other.
LEMMA CountsKept ==
    ASSUME CountTrue, limited' = limited, ~limited /\ injected = 0 => injected' = 0,
           limited /\ CountsFit => CountsFit'
    PROVE  CountTrue'
BY DEF CountTrue

\* Steps at which nothing is sent, nobody sets out to send, and no run is counted.
Harmless ==
    /\ HbTypes' /\ queue' = queue /\ injected' = injected /\ limited' = limited
    /\ beat' \in {beat, "idle", "due"} /\ beat \in {"idle", "due"} /\ scout' = scout
    /\ events' >= events /\ task'.count = task.count
    /\ ~slipped' => ~slipped /\ (Len(queue) = 1 => age' >= 0)

\* They keep the invariant.
LEMMA HarmlessStep == HbInv /\ Harmless => HbInv'
<1> SUFFICES ASSUME HbInv, Harmless PROVE HbInv'
  OBVIOUS
<1>1. PendingTrue'
  BY DEF Harmless, HbInv, HbTypes, PendingTrue, ScoutOut
<1>2. CountTrue'
  <2>1. Numbers /\ Numbers' /\ injected' = injected /\ events' >= events /\ task'.count = task.count
    BY NumbersAre DEF Harmless, HbInv
  <2>2. Out' = Out
    BY <2>1 DEF Harmless, Out, ScoutOut
  <2>3. Moving' = 0 /\ Moving = 0 /\ Waking' = 0 /\ Waking = 0
    BY DEF Harmless, Moving, Waking
  <2>4. Known <= Known'
    BY <2>1 DEF Known, Numbers
  <2>5. CountsFit => CountsFit'
    BY <2>1, <2>2, <2>3, <2>4, FitsStill DEF Numbers, Harmless, HbInv
  <2>6. QED BY <2>5, CountsKept DEF Harmless, HbInv
<1>3. QED BY <1>1, <1>2 DEF HbInv, Harmless

\* The early ends are harmless.
LEMMA PutOffStep == ASSUME HbInv, PutOff PROVE Harmless
<1>1. HbTypes /\ PendingTrue
  BY DEF HbInv
<1>2. /\ beat = "due" /\ beat' = "idle" /\ UNCHANGED <<scout, limited, world, queue, age, injected, slipped>>
  BY DEF PutOff, TheirsStays, QueueStays
<1>3. PICK row \in Row : Patch(row) /\ row.count = task.count
  <2>1. CASE Patch([task EXCEPT !.status = "done"])
    <3>1. [task EXCEPT !.status = "done"] \in Row /\ [task EXCEPT !.status = "done"].count = task.count
      BY <1>1 DEF HbTypes, Row
    <3>2. QED BY <2>1, <3>1
  <2>2. ASSUME NEW minutes \in Int, Postponed(minutes) PROVE \E row \in Row : Patch(row) /\ row.count = task.count
    <3>1. [task EXCEPT !.left = minutes] \in Row /\ [task EXCEPT !.left = minutes].count = task.count
      BY <1>1 DEF HbTypes, Row
    <3>2. QED BY <2>2, <3>1 DEF Postponed
  <2>3. BusyPostpone \in Int /\ NextWindow \in Int
    BY <1>1, HeartbeatAssumption DEF BusyPostpone, Smaller, NextWindow, HbTypes
  <2>4. QED BY <2>1, <2>2, <2>3 DEF PutOff
<1>4. task' \in Row /\ events' \in Nat /\ events' >= events /\ task'.count = task.count
  BY <1>1, <1>3, RowPatched DEF Row
<1>5. QED BY <1>1, <1>2, <1>4 DEF Harmless, HbTypes, Row, PendingTrue

\* So are the ends of a step that goes on and sends nothing.
LEMMA GoesOnIdly ==
    ASSUME HbInv, GoesOn, Forget, TheirsStays, UNCHANGED scout, beat' = "idle",
           NEW row \in Row, Patch(row), row.count = task.count
    PROVE  Harmless
<1>1. HbTypes
  BY DEF HbInv
<1>2. task' \in Row /\ events' \in Nat /\ events' >= events /\ task'.count = task.count
  BY <1>1, RowPatched DEF Row
<1>3. slipped' = (slipped \/ (Forgets /\ StillQueued)) /\ (age' = IF Forgets THEN -1 ELSE age)
  BY DEF Forget
<1>4. age' \in Int /\ (~slipped' => Len(queue) = 0 /\ ~slipped)
  BY <1>3, GoesOnFinds
<1>5. slipped' \in BOOLEAN
  BY <1>1, <1>3 DEF HbTypes, Forgets, StillQueued
<1>6. beat = "due" /\ UNCHANGED <<queue, injected, limited, world>>
  BY DEF GoesOn, Forget, TheirsStays
<1>7. HbTypes'
  BY <1>1, <1>2, <1>4, <1>5, <1>6 DEF HbTypes, Row
<1>8. ~slipped' => ~slipped /\ (Len(queue) = 1 => age' >= 0)
  BY <1>4
<1>9. QED BY <1>2, <1>6, <1>7, <1>8 DEF Harmless

\* The steps that send nothing and send nobody.
LEMMA IdleSteps == ASSUME HbInv, Tick \/ PutOff \/ NoFileSkipped \/ StillScouting \/ AccountCools PROVE HbInv'
<1>1. HbTypes /\ PendingTrue
  BY DEF HbInv
<1>2. CASE Tick
  <2>1. UNCHANGED <<task, scout, queue, age, injected, slipped, limited, world, events>> /\ beat = "idle" /\ beat' = "due"
    BY <1>2 DEF Tick, TheirsStays, QueueStays, Quiet
  <2>2. QED BY <1>1, <2>1, HarmlessStep DEF Harmless, HbTypes, PendingTrue
<1>3. CASE PutOff
  BY <1>3, PutOffStep, HarmlessStep
<1>4. CASE NoFileSkipped
  <2>1. [task EXCEPT !.left = NextSlot(task.left)] \in Row /\ [task EXCEPT !.left = NextSlot(task.left)].count = task.count
    BY <1>1, SlotIsTime DEF HbTypes, Row
  <2>2. QED BY <1>4, <2>1, GoesOnIdly, HarmlessStep DEF NoFileSkipped
<1>5. CASE StillScouting
  <2>1. task \in Row /\ Patch(task)
    BY <1>1, <1>5 DEF HbTypes, Row, StillScouting, Patch
  <2>2. QED BY <1>5, <2>1, GoesOnIdly, HarmlessStep DEF StillScouting, Scouted
<1>6. CASE AccountCools
  <2>1. BusyPostpone \in Int
    BY HeartbeatAssumption DEF BusyPostpone, Smaller
  <2>2. [task EXCEPT !.left = BusyPostpone] \in Row /\ [task EXCEPT !.left = BusyPostpone].count = task.count
    BY <1>1, <2>1 DEF HbTypes, Row
  <2>3. QED BY <1>6, <2>2, GoesOnIdly, HarmlessStep DEF AccountCools, Scouted, Postponed
<1>7. QED BY <1>2, <1>3, <1>4, <1>5, <1>6

\* A scout is sent when no other is out: what it may have sent is counted first, or
\* the call that counts it fails.
LEMMA SendScoutStep == ASSUME HbInv, SendScout PROVE HbInv'
<1>1. HbTypes /\ PendingTrue /\ CountTrue
  BY DEF HbInv
<1>2. /\ GoesOn /\ beat = "due" /\ beat' = "idle" /\ scout = "none" /\ scout' = "sent"
      /\ UNCHANGED <<queue, injected, limited, world>> /\ Patch(Counted)
      /\ slipped' = (slipped \/ (Forgets /\ StillQueued)) /\ age' = IF Forgets THEN -1 ELSE age
  BY DEF SendScout, Scouted, GoesOn, Forget, TheirsStays
<1>3. Counted \in Row /\ (limited => Counted.count = task.count + 1)
  BY <1>1, CountGoesUp DEF Row
<1>4. /\ task' \in Row /\ events' \in Nat /\ events' >= events
      /\ task' = Counted \/ (task' = task /\ events' = events + 1)
  BY <1>1, <1>2, <1>3, RowPatched DEF Row
<1>5. age' \in Int /\ (~slipped' => Len(queue) = 0 /\ ~slipped) /\ (limited => task.count < MaxRuns)
  BY <1>1, <1>2, GoesOnFinds
<1>6. HbTypes'
  <2>1. slipped' \in BOOLEAN
    BY <1>1, <1>2 DEF HbTypes, Forgets, StillQueued
  <2>2. QED BY <1>1, <1>2, <1>4, <1>5, <2>1 DEF HbTypes, Row
<1>7. PendingTrue'
  BY <1>2, <1>5 DEF PendingTrue
<1>8. CountTrue'
  <2>1. Numbers /\ Numbers'
    BY <1>1, <1>6, NumbersAre
  <2>2. Out' = Out + 1
    BY <1>2, <2>1 DEF Out, ScoutOut, Numbers
  <2>3. Moving' = 0 /\ Moving = 0 /\ Waking' = 0
    BY <1>2 DEF Moving, Waking
  <2>4. ASSUME limited, CountsFit PROVE CountsFit'
    <3>1. Known' >= Known + 1
      <4>1. CASE task' = Counted
        BY <1>3, <1>4, <2>1, <2>4, <4>1 DEF Known, Numbers
      <4>2. CASE task' = task /\ events' = events + 1
        BY <2>1, <4>2 DEF Known, Numbers
      <4>3. QED BY <1>4, <4>1, <4>2
    <3>2. Known < MaxRuns + events
      BY <1>5, <2>1, <2>4 DEF Known, Numbers
    <3>3. Out <= Known
      BY <2>1, <2>3, <2>4 DEF CountsFit, Numbers
    <3>4. Out' <= Known'
      BY <2>1, <2>2, <3>1, <3>3 DEF Numbers
    <3>5. PICK o, k, x, e, o1, k1, e1 \in Nat :
             /\ o = Out /\ k = Known /\ x = MaxRuns /\ e = events
             /\ o1 = Out' /\ k1 = Known' /\ e1 = events'
      BY <2>1 DEF Numbers
    <3>6. o1 = o + 1 /\ k < x + e /\ o <= k /\ e <= e1 /\ o1 <= k1
      BY <1>4, <2>2, <3>2, <3>3, <3>4, <3>5
    <3>7. o1 <= k1 + 0 /\ o1 + 0 <= x + e1
      BY <3>6
    <3>8. QED BY <2>3, <3>5, <3>7 DEF CountsFit
  <2>5. QED BY <1>1, <1>2, <2>4, CountsKept
<1>9. QED BY <1>6, <1>7, <1>8 DEF HbInv

\* The session is to be woken.
LEMMA WakeStep == ASSUME HbInv, Wake PROVE HbInv'
<1>1. HbTypes /\ PendingTrue /\ CountTrue
  BY DEF HbInv
<1>2. /\ GoesOn /\ beat = "due" /\ beat' = "waking"
      /\ UNCHANGED <<task, scout, queue, injected, limited, world, events>>
      /\ slipped' = (slipped \/ (Forgets /\ StillQueued) \/ scout # "none") /\ age' = IF Forgets THEN -1 ELSE age
  BY DEF Wake, GoesOn, TheirsStays, Quiet
<1>3. age' \in Int /\ (~slipped' => Len(queue) = 0 /\ ~slipped) /\ (limited => task.count < MaxRuns)
  BY <1>1, <1>2, GoesOnFinds
<1>4. HbTypes'
  <2>1. slipped' \in BOOLEAN
    BY <1>1, <1>2 DEF HbTypes, Forgets, StillQueued
  <2>2. QED BY <1>1, <1>2, <1>3, <2>1 DEF HbTypes
<1>5. PendingTrue'
  <2>1. ~slipped' => scout' = "none"
    BY <1>2
  <2>2. ~slipped' => Len(queue') = 0
    BY <1>2, <1>3
  <2>3. QED BY <2>1, <2>2 DEF PendingTrue
<1>6. CountTrue'
  <2>1. Numbers /\ Numbers'
    BY <1>1, <1>4, NumbersAre
  <2>2. Out' = Out /\ Known' = Known
    BY <1>2 DEF Out, ScoutOut, Known
  <2>3. Moving' = 0 /\ Moving = 0 /\ Waking' = 1
    BY <1>2 DEF Moving, Waking
  <2>4. ASSUME limited, CountsFit PROVE CountsFit'
    <3>1. Known < MaxRuns + events
      BY <1>3, <2>1, <2>4 DEF Known, Numbers
    <3>2. Out <= Known
      BY <2>1, <2>3, <2>4 DEF CountsFit, Numbers
    <3>3. Out + 1 <= MaxRuns + events
      BY <2>1, <3>1, <3>2 DEF Numbers
    <3>4. QED BY <1>2, <2>1, <2>2, <2>3, <3>2, <3>3 DEF CountsFit, Numbers
  <2>5. QED BY <1>1, <1>2, <2>4, CountsKept
<1>7. QED BY <1>4, <1>5, <1>6 DEF HbInv

\* The run that was woken is counted, or the call that counts it fails.
LEMMA MoveOnStep == ASSUME HbInv, MoveOn PROVE HbInv'
<1>1. HbTypes /\ PendingTrue /\ CountTrue
  BY DEF HbInv
<1>2. /\ beat = "moving" /\ beat' = "idle" /\ Patch(Counted)
      /\ UNCHANGED <<scout, queue, age, injected, slipped, limited, world>>
  BY DEF MoveOn, TheirsStays, QueueStays
<1>3. Counted \in Row /\ (limited => Counted.count = task.count + 1)
  BY <1>1, CountGoesUp DEF Row
<1>4. /\ task' \in Row /\ events' \in Nat /\ events' >= events
      /\ task' = Counted \/ (task' = task /\ events' = events + 1)
  BY <1>1, <1>2, <1>3, RowPatched DEF Row
<1>5. HbTypes'
  BY <1>1, <1>2, <1>4 DEF HbTypes, Row
<1>6. PendingTrue'
  BY <1>1, <1>2 DEF PendingTrue, ScoutOut
<1>7. CountTrue'
  <2>1. Numbers /\ Numbers'
    BY <1>1, <1>5, NumbersAre
  <2>2. Out' = Out
    BY <1>2 DEF Out, ScoutOut
  <2>3. Moving' = 0 /\ Moving = 1 /\ Waking' = 0
    BY <1>2 DEF Moving, Waking
  <2>4. ASSUME limited, CountsFit PROVE CountsFit'
    <3>1. Known' >= Known + 1
      <4>1. CASE task' = Counted
        BY <1>3, <1>4, <2>1, <2>4, <4>1 DEF Known, Numbers
      <4>2. CASE task' = task /\ events' = events + 1
        BY <2>1, <4>2 DEF Known, Numbers
      <4>3. QED BY <1>4, <4>1, <4>2
    <3>2. QED BY <1>1, <1>4, <1>5, <2>1, <2>2, <2>3, <2>4, <3>1, FitsStill DEF Numbers
  <2>5. QED BY <1>1, <1>2, <2>4, CountsKept
<1>8. QED BY <1>5, <1>6, <1>7 DEF HbInv

\* The three ways a message goes out or does not.
LEMMA MessageGoes ==
    ASSUME HbTypes, NEW sent, NEW lost, Inject(sent, lost)
    PROVE  \/ /\ sent /\ events' = events /\ queue' \in Seq(BOOLEAN) /\ Len(queue') = Len(queue) + 1
              /\ Len(queue) = 0 => queue'[1]
              /\ age' = 0 /\ injected' = (IF limited THEN injected + 1 ELSE 0) /\ slipped' = slipped
           \/ /\ lost /\ events' = events + 1 /\ UNCHANGED <<queue, age, injected, slipped>>
           \/ /\ lost /\ events' = events + 1 /\ queue' \in Seq(BOOLEAN) /\ age' = age
              /\ injected' = (IF limited THEN injected + 1 ELSE 0) /\ slipped' = TRUE
BY OneMoreMessage DEF Inject, Event, Quiet, OneMore

\* The wake-up is sent.
LEMMA WakeInjectStep == ASSUME HbInv, WakeInject PROVE HbInv'
<1>1. HbTypes /\ PendingTrue /\ CountTrue
  BY DEF HbInv
<1>2. beat = "waking" /\ beat' \in {"moving", "idle"} /\ UNCHANGED <<task, scout, limited, world>>
  BY DEF WakeInject, Inject, TheirsStays
<1>3. Inject(beat' = "moving", beat' = "idle")
  BY DEF WakeInject
<1>4. ScoutOut' = ScoutOut /\ ScoutOut \in Nat
  BY <1>2 DEF ScoutOut
<1>5. CASE /\ beat' = "moving" /\ events' = events /\ queue' \in Seq(BOOLEAN) /\ Len(queue') = Len(queue) + 1
           /\ Len(queue) = 0 => queue'[1]
           /\ age' = 0 /\ injected' = (IF limited THEN injected + 1 ELSE 0) /\ slipped' = slipped
  <2>1. HbTypes'
    BY <1>1, <1>2, <1>5 DEF HbTypes
  <2>2. PendingTrue'
    BY <1>1, <1>2, <1>4, <1>5 DEF PendingTrue, ScoutOut
  <2>3. CountTrue'
    <3>1. ASSUME limited, CountsFit PROVE CountsFit'
      <4>1. injected' = injected + 1
        BY <1>5, <3>1
      <4>2. Numbers /\ Numbers'
        BY <1>1, <2>1, NumbersAre
      <4>3. Out' = Out + 1 /\ Known' = Known
        BY <1>2, <1>4, <1>5, <4>1, <4>2 DEF Out, Known, Numbers
      <4>4. Moving' = 1 /\ Moving = 0 /\ Waking' = 0 /\ Waking = 1
        BY <1>2, <1>5 DEF Moving, Waking
      <4>5. QED BY <1>5, <3>1, <4>2, <4>3, <4>4 DEF CountsFit, Numbers
    <3>2. QED BY <1>1, <1>2, <1>5, <3>1, CountsKept
  <2>4. QED BY <2>1, <2>2, <2>3 DEF HbInv
<1>6. CASE beat' = "idle" /\ events' = events + 1 /\ UNCHANGED <<queue, age, injected, slipped>>
  <2>1. HbTypes'
    BY <1>1, <1>2, <1>6 DEF HbTypes
  <2>2. PendingTrue'
    BY <1>1, <1>2, <1>4, <1>6 DEF PendingTrue
  <2>3. CountTrue'
    <3>1. ASSUME limited, CountsFit PROVE CountsFit'
      <4>1. injected' = injected
        BY <1>6, <3>1
      <4>2. Numbers /\ Numbers'
        BY <1>1, <2>1, NumbersAre
      <4>3. Out' = Out /\ Known' = Known + 1
        BY <1>2, <1>4, <1>6, <4>1, <4>2 DEF Out, Known, Numbers
      <4>4. Moving' = 0 /\ Moving = 0 /\ Waking' = 0 /\ Waking = 1
        BY <1>2, <1>6 DEF Moving, Waking
      <4>5. Out' <= Out /\ Known <= Known' /\ events <= events'
        BY <1>6, <4>2, <4>3 DEF Numbers
      <4>6. Moving <= Moving' /\ Waking' <= Waking
        BY <4>2, <4>4 DEF Numbers
      <4>7. QED BY <1>1, <2>1, <3>1, <4>5, <4>6, FitsStill
    <3>2. QED BY <1>1, <1>2, <1>6, <3>1, CountsKept
  <2>4. QED BY <2>1, <2>2, <2>3 DEF HbInv
<1>7. CASE /\ beat' = "idle" /\ events' = events + 1 /\ queue' \in Seq(BOOLEAN) /\ age' = age
           /\ injected' = (IF limited THEN injected + 1 ELSE 0) /\ slipped' = TRUE
  <2>1. HbTypes'
    BY <1>1, <1>2, <1>7 DEF HbTypes
  <2>2. PendingTrue'
    BY <1>7 DEF PendingTrue
  <2>3. CountTrue'
    <3>1. ASSUME limited, CountsFit PROVE CountsFit'
      <4>1. injected' = injected + 1
        BY <1>7, <3>1
      <4>2. Numbers /\ Numbers'
        BY <1>1, <2>1, NumbersAre
      <4>3. Out' = Out + 1 /\ Known' = Known + 1
        BY <1>2, <1>4, <1>7, <4>1, <4>2 DEF Out, Known, Numbers
      <4>4. Moving' = 0 /\ Moving = 0 /\ Waking' = 0 /\ Waking = 1
        BY <1>2, <1>7 DEF Moving, Waking
      <4>5. QED BY <1>7, <3>1, <4>2, <4>3, <4>4 DEF CountsFit, Numbers
    <3>2. QED BY <1>1, <1>2, <1>7, <3>1, CountsKept
  <2>4. QED BY <2>1, <2>2, <2>3 DEF HbInv
<1>8. QED BY <1>1, <1>3, <1>5, <1>6, <1>7, MessageGoes

\* A scout that has found work has the session woken.
LEMMA ScoutInjectStep == ASSUME HbInv, ScoutInject PROVE HbInv'
<1>1. HbTypes /\ PendingTrue /\ CountTrue
  BY DEF HbInv
<1>2. scout = "found" /\ scout' = "none" /\ UNCHANGED <<task, beat, limited, world>>
  BY DEF ScoutInject, TheirsStays
<1>3. Inject(TRUE, TRUE)
  BY DEF ScoutInject
<1>4. ScoutOut' = 0 /\ ScoutOut = 1
  BY <1>2 DEF ScoutOut
<1>5. CASE /\ events' = events /\ queue' \in Seq(BOOLEAN) /\ Len(queue') = Len(queue) + 1
           /\ Len(queue) = 0 => queue'[1]
           /\ age' = 0 /\ injected' = (IF limited THEN injected + 1 ELSE 0) /\ slipped' = slipped
  <2>1. HbTypes'
    BY <1>1, <1>2, <1>5 DEF HbTypes
  <2>2. PendingTrue'
    BY <1>1, <1>2, <1>4, <1>5 DEF PendingTrue
  <2>3. CountTrue'
    <3>1. ASSUME limited, CountsFit PROVE CountsFit'
      <4>1. injected' = injected + 1
        BY <1>5, <3>1
      <4>2. Numbers /\ Numbers'
        BY <1>1, <2>1, NumbersAre
      <4>3. Out' = Out /\ Known' = Known
        BY <1>2, <1>4, <1>5, <4>1, <4>2 DEF Out, Known, Numbers
      <4>4. Moving' = Moving /\ Waking' = Waking
        BY <1>2, <1>5 DEF Moving, Waking
      <4>5. Out' <= Out /\ Known <= Known' /\ events <= events'
        BY <1>5, <4>2, <4>3 DEF Numbers
      <4>6. Moving <= Moving' /\ Waking' <= Waking
        BY <4>2, <4>4 DEF Numbers
      <4>7. QED BY <1>1, <2>1, <3>1, <4>5, <4>6, FitsStill
    <3>2. QED BY <1>1, <1>2, <1>5, <3>1, CountsKept
  <2>4. QED BY <2>1, <2>2, <2>3 DEF HbInv
<1>6. CASE events' = events + 1 /\ UNCHANGED <<queue, age, injected, slipped>>
  <2>1. HbTypes'
    BY <1>1, <1>2, <1>6 DEF HbTypes
  <2>2. PendingTrue'
    BY <1>1, <1>2, <1>4, <1>6 DEF PendingTrue
  <2>3. CountTrue'
    <3>1. ASSUME limited, CountsFit PROVE CountsFit'
      <4>1. injected' = injected
        BY <1>6, <3>1
      <4>2. Numbers /\ Numbers'
        BY <1>1, <2>1, NumbersAre
      <4>3. Out' <= Out /\ Known' = Known + 1
        BY <1>2, <1>4, <1>6, <4>1, <4>2 DEF Out, Known, Numbers
      <4>4. Moving' = Moving /\ Waking' = Waking
        BY <1>2, <1>6 DEF Moving, Waking
      <4>5. Out' <= Out /\ Known <= Known' /\ events <= events'
        BY <1>6, <4>2, <4>3 DEF Numbers
      <4>6. Moving <= Moving' /\ Waking' <= Waking
        BY <4>2, <4>4 DEF Numbers
      <4>7. QED BY <1>1, <2>1, <3>1, <4>5, <4>6, FitsStill
    <3>2. QED BY <1>1, <1>2, <1>6, <3>1, CountsKept
  <2>4. QED BY <2>1, <2>2, <2>3 DEF HbInv
<1>7. CASE /\ events' = events + 1 /\ queue' \in Seq(BOOLEAN) /\ age' = age
           /\ injected' = (IF limited THEN injected + 1 ELSE 0) /\ slipped' = TRUE
  <2>1. HbTypes'
    BY <1>1, <1>2, <1>7 DEF HbTypes
  <2>2. PendingTrue'
    BY <1>7 DEF PendingTrue
  <2>3. CountTrue'
    <3>1. ASSUME limited, CountsFit PROVE CountsFit'
      <4>1. injected' = injected + 1
        BY <1>7, <3>1
      <4>2. Numbers /\ Numbers'
        BY <1>1, <2>1, NumbersAre
      <4>3. Out' = Out /\ Known' = Known + 1
        BY <1>2, <1>4, <1>7, <4>1, <4>2 DEF Out, Known, Numbers
      <4>4. Moving' = Moving /\ Waking' = Waking
        BY <1>2, <1>7 DEF Moving, Waking
      <4>5. Out' <= Out /\ Known <= Known' /\ events <= events'
        BY <1>7, <4>2, <4>3 DEF Numbers
      <4>6. Moving <= Moving' /\ Waking' <= Waking
        BY <4>2, <4>4 DEF Numbers
      <4>7. QED BY <1>1, <2>1, <3>1, <4>5, <4>6, FitsStill
    <3>2. QED BY <1>1, <1>2, <1>7, <3>1, CountsKept
  <2>4. QED BY <2>1, <2>2, <2>3 DEF HbInv
<1>8. QED BY <1>1, <1>3, <1>5, <1>6, <1>7, MessageGoes

\* The scout's verdict, or its silence.
LEMMA VerdictStep == ASSUME HbInv, Verdict \/ Hang PROVE HbInv'
<1>1. HbTypes /\ PendingTrue /\ CountTrue
  BY DEF HbInv
<1>2. /\ scout = "sent" /\ scout' \in {"found", "none", "hung"}
      /\ UNCHANGED <<task, beat, limited, world, queue, age, injected, slipped>>
      /\ events' \in {events, events + 1}
  BY DEF Verdict, Hang, TheirsStays, QueueStays, Quiet, Event
<1>3. ScoutOut = 1 /\ ScoutOut' \in Nat /\ ScoutOut' <= 1
  BY <1>2 DEF ScoutOut
<1>4. HbTypes'
  BY <1>1, <1>2 DEF HbTypes
<1>5. PendingTrue'
  BY <1>1, <1>2, <1>3 DEF PendingTrue
<1>6. CountTrue'
  <2>1. Numbers /\ Numbers'
    BY <1>1, <1>4, NumbersAre
  <2>2. Out' <= Out
    <3>1. PICK i, s1 \in Nat : i = injected /\ s1 = ScoutOut' /\ s1 <= 1
      BY <1>3, <2>1 DEF Numbers
    <3>2. s1 <= 1
      BY <3>1
    <3>3. i + s1 <= i + 1
      BY <3>2
    <3>4. QED BY <1>2, <1>3, <3>1, <3>3 DEF Out
  <2>3. Known <= Known' /\ events <= events'
    BY <1>2, <2>1 DEF Known, Numbers
  <2>4. Moving' = Moving /\ Waking' = Waking
    BY <1>2 DEF Moving, Waking
  <2>5. CountsFit => CountsFit'
    BY <1>1, <1>4, <2>1, <2>2, <2>3, <2>4, FitsStill DEF Numbers
  <2>6. QED BY <1>1, <1>2, <2>5, CountsKept
<1>7. QED BY <1>4, <1>5, <1>6 DEF HbInv

\* Time, the worker, the user and the world do not touch what is counted.
LEMMA WorldStep ==
    ASSUME HbInv,
           Minute \/ Pick \/ UserTurn \/ TurnOver \/ NewWork \/ Edit \/ Evening \/ Cool \/ CooledDown
    PROVE  HbInv'
<1>1. HbTypes /\ PendingTrue /\ CountTrue /\ Len(queue) \in Nat
  BY DEF HbInv, HbTypes
<1>2. UNCHANGED <<limited, beat, scout, injected, slipped>> /\ task'.count = task.count
  BY <1>1 DEF Minute, Pick, UserTurn, TurnOver, NewWork, Edit, Evening, Cool, CooledDown, OursStays, HbTypes
<1>3. events' \in {events, events + 1}
  BY DEF Minute, Pick, UserTurn, TurnOver, NewWork, Edit, Evening, Cool, CooledDown, Event, Quiet
<1>4. ScoutOut' = ScoutOut /\ ScoutOut \in Nat
  BY <1>2 DEF ScoutOut
<1>5. age' \in Int /\ (age >= 0 => age' >= 0)
  BY <1>1 DEF Minute, Pick, UserTurn, TurnOver, NewWork, Edit, Evening, Cool, CooledDown, OursStays, HbTypes
<1>6. queue' = queue \/ (queue # <<>> /\ queue' = Tail(queue))
  BY DEF Minute, Pick, UserTurn, TurnOver, NewWork, Edit, Evening, Cool, CooledDown
<1>7. queue' \in Seq(BOOLEAN) /\ (queue' = queue \/ Len(queue') = Len(queue) - 1)
  BY <1>1, <1>6 DEF HbTypes
<1>8. task' \in Row
  BY <1>1 DEF Minute, Pick, UserTurn, TurnOver, NewWork, Edit, Evening, Cool, CooledDown, OursStays, HbTypes, Row
<1>9. world' \in [file : {"full", "empty", "missing"}, night : Nat, cooling : BOOLEAN]
  <2>1. CASE Minute
    <3>1. (IF world.night > 0 THEN world.night - 1 ELSE 0) \in Nat
      BY <1>1 DEF HbTypes
    <3>2. QED BY <1>1, <2>1, <3>1 DEF Minute, HbTypes
  <2>2. CASE Edit \/ Cool \/ CooledDown
    BY <1>1, <2>2 DEF Edit, Cool, CooledDown, HbTypes
  <2>3. CASE Evening
    BY <1>1, <2>3, HeartbeatAssumption DEF Evening, HbTypes
  <2>4. CASE Pick \/ UserTurn \/ TurnOver \/ NewWork
    BY <1>1, <2>4 DEF Pick, UserTurn, TurnOver, NewWork, HbTypes
  <2>5. QED BY <2>1, <2>2, <2>3, <2>4
<1>10. HbTypes'
  BY <1>1, <1>2, <1>3, <1>5, <1>7, <1>8, <1>9 DEF HbTypes, Row
<1>11. PendingTrue'
  BY <1>1, <1>2, <1>4, <1>5, <1>7 DEF PendingTrue
<1>12. CountTrue'
  <2>1. Numbers /\ Numbers'
    BY <1>1, <1>10, NumbersAre
  <2>2. Out' = Out /\ Known <= Known' /\ events <= events'
    BY <1>2, <1>3, <1>4, <2>1 DEF Out, Known, Numbers
  <2>3. Moving' = Moving /\ Waking' = Waking
    BY <1>2 DEF Moving, Waking
  <2>4. CountsFit => CountsFit'
    BY <1>1, <1>10, <2>1, <2>2, <2>3, FitsStill DEF Numbers
  <2>5. QED BY <1>1, <1>2, <2>4, CountsKept
<1>13. QED BY <1>10, <1>11, <1>12 DEF HbInv

\* A restart forgets what was under way, and is an event.
LEMMA RestartedStep == ASSUME HbInv, Restarted PROVE HbInv'
<1>1. HbTypes /\ PendingTrue /\ CountTrue /\ Len(queue) \in Nat
  BY DEF HbInv, HbTypes
<1>2. /\ events' = events + 1 /\ beat' = "idle" /\ scout' = "none" /\ age' = -1
      /\ queue' = Others /\ slipped' = (slipped \/ queue # <<>>)
      /\ UNCHANGED <<task, limited, world, injected>>
  BY DEF Restarted, Event
<1>3. Others \in Seq(BOOLEAN) /\ Len(Others) = Len(queue)
  <2>1. DOMAIN queue = 1..Len(queue)
    BY <1>1 DEF HbTypes
  <2>2. Others \in [1..Len(queue) -> BOOLEAN]
    BY <2>1 DEF Others
  <2>3. QED BY <1>1, <2>2
<1>4. queue = <<>> => Len(queue) = 0
  OBVIOUS
<1>5. HbTypes'
  BY <1>1, <1>2, <1>3 DEF HbTypes
<1>6. PendingTrue'
  <2>1. ~slipped' => queue = <<>>
    BY <1>2
  <2>2. ~slipped' => Len(queue') = 0
    BY <1>2, <1>3, <1>4, <2>1
  <2>3. QED BY <1>2, <2>2 DEF PendingTrue
<1>7. CountTrue'
  <2>1. Numbers /\ Numbers'
    BY <1>1, <1>5, NumbersAre
  <2>2. Out' <= Out /\ Known' = Known + 1
    BY <1>2, <2>1 DEF Out, ScoutOut, Known, Numbers
  <2>3. Moving' = 0 /\ Moving <= 1 /\ Waking' = 0
    BY <1>2 DEF Moving, Waking
  <2>4. CountsFit => CountsFit'
    BY <1>1, <1>2, <1>5, <2>1, <2>2, <2>3, FitsStill DEF Numbers
  <2>5. QED BY <1>1, <1>2, <2>4, CountsKept
<1>8. QED BY <1>5, <1>6, <1>7 DEF HbInv

\* At the start nothing waits and nothing has been sent.
LEMMA HbStarts == HbInit => HbInv
<1> SUFFICES ASSUME HbInit PROVE HbInv
  OBVIOUS
<1>1. HbTypes
  <2>1. limited \in BOOLEAN /\ slipped = FALSE
    BY DEF HbInit
  <2>2. queue \in Seq(BOOLEAN) /\ age \in Int /\ events \in Nat /\ injected \in Nat
    BY DEF HbInit
  <2>3. task \in [left : Int, count : Nat, status : {"active", "done"}]
    BY DEF HbInit
  <2>4. world \in [file : {"full", "empty", "missing"}, night : Nat, cooling : BOOLEAN]
    BY DEF HbInit
  <2>5. QED BY <2>1, <2>2, <2>3, <2>4 DEF HbInit, HbTypes
<1>2. PendingTrue
  BY DEF HbInit, PendingTrue, ScoutOut
<1>3. CountTrue
  BY HeartbeatAssumption DEF HbInit, CountTrue, CountsFit, ScoutOut, Moving, Waking, Out, Known
<1>4. QED BY <1>1, <1>2, <1>3 DEF HbInv

\* The invariant of the heartbeat.
THEOREM HeartbeatInvariant == HbSpec => []HbInv
<1>1. HbInv /\ [HbNext]_hbVars => HbInv'
  <2>1. HbInv /\ UNCHANGED hbVars => HbInv'
    BY DEF hbVars, HbInv, HbTypes, PendingTrue, CountTrue, CountsFit, ScoutOut, Moving, Waking, Out, Known
  <2>2. HbInv /\ Beats => HbInv'
    BY IdleSteps, SendScoutStep, WakeStep, WakeInjectStep, MoveOnStep DEF Beats
  <2>3. HbInv /\ (Scouts \/ Hang) => HbInv'
    BY VerdictStep, ScoutInjectStep DEF Scouts
  <2>4. QED BY <2>1, <2>2, <2>3, WorldStep, RestartedStep DEF HbNext, Worker
<1>2. QED BY HbStarts, <1>1, PTL DEF HbSpec

\* A project is woken sparingly, for every interval, max_runs and number of disturbances:
\* a second message waits only where _pending slipped, and a limited task sends no more
\* than max_runs and one for each event.
THEOREM IsWokenSparingly == HbSpec => []WokenSparingly
<1>1. HbInv => WokenSparingly
  <2> SUFFICES ASSUME HbInv PROVE WokenSparingly
    OBVIOUS
  <2>1. OneWaiting
    BY DEF HbInv, HbTypes, PendingTrue, OneWaiting
  <2>2. RunsLimited
    <3>1. Numbers
      BY NumbersAre DEF HbInv
    <3>2. CASE limited
      <4>1. CountsFit
        BY <3>2 DEF HbInv, CountTrue
      <4>2. Out <= MaxRuns + events /\ injected <= Out
        BY <3>1, <4>1 DEF CountsFit, Out, Numbers
      <4>3. QED BY <3>1, <4>2 DEF Numbers, RunsLimited
    <3>3. CASE ~limited
      <4>1. injected = 0
        BY <3>3 DEF HbInv, CountTrue
      <4>2. QED BY <3>1, <4>1 DEF Numbers, RunsLimited
    <3>4. QED BY <3>2, <3>3
  <2>3. QED BY <2>1, <2>2 DEF WokenSparingly
<1>2. QED BY HeartbeatInvariant, <1>1, PTL
=============================================================================
