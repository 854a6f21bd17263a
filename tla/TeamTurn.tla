------------------------------ MODULE TeamTurn ------------------------------
(***************************************************************************)
(* A team's turn: process_team_message of scripts/daemon/team.py.            *)
(*                                                                         *)
(* The lead of the team delegates; the members it names run side by side, in   *)
(* a pool of threads of the turn's own; what they write to each other is        *)
(* carried to them in rounds; the lead looks the results over and may send      *)
(* members out once more; then it sums up, and puts down what is to be learnt.   *)
(* Each of these is a run of the CLI (run_claude) that takes one of the permits   *)
(* all turns share; the turn itself holds none while it waits.                   *)
(*                                                                         *)
(* The daemon may be told to stop at any time.  Runs are then cut after a while,   *)
(* but none is kept from beginning; a message that is not answered is to stay     *)
(* queued and to be taken up by the next daemon (worker.py, 416-420).             *)
(***************************************************************************)
EXTENDS Integers, FiniteSets

CONSTANTS
    Turns,      \* messages to teams, each of a project of its own
    Members,
    Lead,
    Slots,      \* bound: how often the lead may name the same member at once
    Permits,    \* max_concurrent
    MaxRounds,  \* max_crosstalk_rounds
    MaxLives,   \* bound: lives of the daemon
    MaxStops,   \* bound: stops the user asks for
    NoStop, Elsewhere

ASSUME TeamAssumption ==
    /\ IsFiniteSet(Turns) /\ IsFiniteSet(Members) /\ Lead \notin Members
    /\ {Slots, Permits, MaxLives} \subseteq Nat \ {0} /\ {MaxRounds, MaxStops} \subseteq Nat
    /\ {NoStop, Elsewhere} \cap Turns = {} /\ NoStop # Elsewhere

Runs == {<<Lead, 1>>} \cup (Members \X (1..Slots))
MemberRuns == Members \X (1..Slots)
LeadRun == <<Lead, 1>>

VARIABLES
    queued,     \* messages that have not been dequeued
    step,       \* where each turn is
    run,        \* each turn's runs
    results,    \* how many members have answered in the first round
    pending,    \* whom messages between members wait for
    round,      \* ct_round
    down,       \* shutdown_event
    stop,       \* user_status: the project a stop is asked for
    lives, stops,
    cut,        \* history: steps of each turn in which a run of it was cut
    told        \* history: the last the user has heard of a message

turn == <<step, run, results, pending, round>>
counters == <<lives, stops>>
vars == <<queued, turn, down, stop, counters, cut, told>>

Idle == [r \in Runs |-> "none"]

Init ==
    /\ queued = Turns
    /\ step = [t \in Turns |-> "out"] /\ run = [t \in Turns |-> Idle]
    /\ results = [t \in Turns |-> 0] /\ pending = [t \in Turns |-> {}]
    /\ round = [t \in Turns |-> 0]
    /\ down = FALSE /\ stop = NoStop
    /\ lives = 1 /\ stops = 0
    /\ cut = [t \in Turns |-> {}] /\ told = [t \in Turns |-> "nothing"]

-----------------------------------------------------------------------------
(* Runs of the CLI.                                                          *)

Running == {x \in Turns \X Runs : run[x[1]][x[2]] = "run"}

\* The turn keeping its permit while its members run.
StartNested(t, r) ==
    /\ run[t][r] = "wait" /\ Cardinality(Running) + (IF r = LeadRun THEN 0 ELSE 1) < Permits
    /\ run' = [run EXCEPT ![t][r] = "run"]
    /\ UNCHANGED <<queued, step, results, pending, round, down, stop, counters, cut, told>>

\* The run waits for a permit in a thread, and holds it while its process runs.
Start(t, r) ==
    /\ run[t][r] = "wait" /\ Cardinality(Running) < Permits
    /\ run' = [run EXCEPT ![t][r] = "run"]
    /\ UNCHANGED <<queued, step, results, pending, round, down, stop, counters, cut, told>>

\* It ends, with an answer or with a word about what went wrong.
Say(t, r) ==
    /\ run[t][r] = "run"
    /\ run' = [run EXCEPT ![t][r] = "said"]
    /\ UNCHANGED <<queued, step, results, pending, round, down, stop, counters, cut, told>>

\* Its poller sees the stop request, takes it back, and interrupts it.
Interrupt(t, r) ==
    /\ run[t][r] = "run" /\ stop = t
    /\ stop' = NoStop
    /\ run' = [run EXCEPT ![t][r] = "said"]
    /\ UNCHANGED <<queued, step, results, pending, round, down, counters, cut, told>>

\* The daemon is stopping and the run has had its time: SHUTDOWN_INTERRUPTED.
Cut(t, r) ==
    /\ run[t][r] = "run" /\ down
    /\ run' = [run EXCEPT ![t][r] = "cut"]
    /\ cut' = [cut EXCEPT ![t] = @ \cup {step[t]}]
    /\ UNCHANGED <<queued, step, results, pending, round, down, stop, counters, told>>

\* run_members_parallel shows each answer as it comes, and passes over a run that
\* was cut.
Show(t, r) ==
    /\ r # LeadRun /\ run[t][r] = "said"
    /\ run' = [run EXCEPT ![t][r] = "shown"]
    /\ told' = [told EXCEPT ![t] = "member"]
    /\ results' = [results EXCEPT ![t] = IF step[t] = "members" THEN @ + 1 ELSE @]
    /\ UNCHANGED <<queued, step, pending, round, down, stop, counters, cut>>

-----------------------------------------------------------------------------
(* The turn.                                                                 *)

StopAsked == stop # NoStop      \* check_stop_requested: for whatever project

Goto(t, s) == step' = [step EXCEPT ![t] = s]
\* The lead is run again; a run of the lead begins with none of the others there.
AskLead(t, s) == Goto(t, s) /\ run' = [run EXCEPT ![t] = [Idle EXCEPT ![LeadRun] = "wait"]]
\* Members are run, each as often as it is named.
Submit(t, s, named) ==
    /\ Goto(t, s)
    /\ run' = [run EXCEPT ![t] =
                  [r \in Runs |-> IF r # LeadRun /\ r[2] <= named[r[1]] THEN "wait" ELSE "none"]]
Named(m) == [x \in Members |-> IF x \in m THEN 1 ELSE 0]

\* The worker dequeues the message, and the turn is over.
Finish(t) ==
    /\ Goto(t, "out") /\ run' = [run EXCEPT ![t] = Idle]
    /\ queued' = queued \ {t}
\* The worker leaves the message to the next daemon.
LeftQueued(t) ==
    /\ Goto(t, "out") /\ run' = [run EXCEPT ![t] = Idle]
    /\ UNCHANGED queued
Tell(t, s) == told' = [told EXCEPT ![t] = s]
LeadCut(t) == run[t][LeadRun] = "cut"
LeadSaid(t) == run[t][LeadRun] = "said"

\* The worker takes the message and clears the stop request; the lead is run, or
\* the member the message is addressed to (or there is no team: run_claude alone).
Begin(t) ==
    /\ step[t] = "out" /\ t \in queued /\ ~down
    /\ stop' = NoStop
    /\ \E s \in {"lead", "direct"} : AskLead(t, s)
    /\ results' = [results EXCEPT ![t] = 0] /\ round' = [round EXCEPT ![t] = 0]
    /\ cut' = [cut EXCEPT ![t] = {}] /\ Tell(t, "nothing")
    /\ UNCHANGED <<queued, pending, down, counters>>

Direct(t) ==
    /\ step[t] = "direct"
    /\ \/ LeadCut(t) /\ LeftQueued(t) /\ UNCHANGED told
       \/ LeadSaid(t) /\ Finish(t) /\ Tell(t, "answer")
    /\ UNCHANGED <<results, pending, round, down, stop, counters, cut>>

\* What the lead said is shown, and carries the members it delegates to; keys no
\* member has are passed over.
Delegate(t) ==
    /\ step[t] = "lead"
    /\ \/ LeadCut(t) /\ LeftQueued(t) /\ UNCHANGED told
       \/ LeadSaid(t) /\ Finish(t) /\ Tell(t, "answer")
       \/ LeadSaid(t) /\ StopAsked /\ Finish(t) /\ Tell(t, "stopped")
       \/ LeadSaid(t) /\ ~StopAsked /\ UNCHANGED queued /\ Tell(t, "plan")
          /\ \E named \in [Members -> 0..Slots] : Submit(t, "members", named)
    /\ UNCHANGED <<results, pending, round, down, stop, counters, cut>>

\* Moving on with the first of them.
SettledFirst(t) == \E r \in MemberRuns : run[t][r] \in {"shown", "cut"}

\* The pool is left when all its runs have been seen to.
Settled(t) == \A r \in MemberRuns : run[t][r] \in {"none", "shown", "cut"}

Shown(t) == {m \in Members : \E i \in 1..Slots : run[t][<<m, i>>] = "shown"}
\* Members write to others, not to themselves.
Addressed(t, to) == \A m \in to : Shown(t) \ {m} # {}

\* No result, and the turn is over with what the lead said.
MembersDone(t) ==
    /\ step[t] = "members" /\ Settled(t)
    /\ \/ results[t] = 0 /\ Finish(t) /\ UNCHANGED <<pending, round>>
       \/ /\ results[t] > 0 /\ Goto(t, "talk") /\ UNCHANGED <<queued, run>>
          /\ \E to \in SUBSET Members :
                Addressed(t, to) /\ pending' = [pending EXCEPT ![t] = to]
          /\ round' = [round EXCEPT ![t] = 2]
    /\ UNCHANGED <<results, down, stop, counters, cut, told>>

\* Another round, or on to the review.
Talk(t) ==
    /\ step[t] = "talk"
    /\ IF pending[t] # {} /\ round[t] <= MaxRounds + 1 /\ ~StopAsked
       THEN Submit(t, "talking", Named(pending[t]))
       ELSE Goto(t, "reviewing") /\ UNCHANGED run
    /\ UNCHANGED <<queued, results, pending, round, down, stop, counters, cut, told>>

TalkDone(t) ==
    /\ step[t] = "talking" /\ Settled(t)
    /\ \E to \in SUBSET Members : Addressed(t, to) /\ pending' = [pending EXCEPT ![t] = to]
    /\ round' = [round EXCEPT ![t] = @ + 1]
    /\ Goto(t, "talk")
    /\ UNCHANGED <<queued, run, results, down, stop, counters, cut, told>>

\* The lead reviews the results if there are two or more of them.
Reviewing(t) ==
    /\ step[t] = "reviewing"
    /\ IF results[t] < 2
       THEN Goto(t, "summing") /\ UNCHANGED <<queued, run, told>>
       ELSE IF StopAsked THEN Finish(t) /\ Tell(t, "stopped")
       ELSE AskLead(t, "review") /\ UNCHANGED <<queued, told>>
    /\ UNCHANGED <<results, pending, round, down, stop, counters, cut>>

\* It sends members out once more, or does not; or was cut.
Review(t) ==
    /\ step[t] = "review"
    /\ \/ (LeadCut(t) \/ LeadSaid(t)) /\ Goto(t, "summing") /\ UNCHANGED run
       \/ LeadSaid(t) /\ \E named \in [Members -> 0..Slots] : Submit(t, "again", named)
    /\ UNCHANGED <<queued, results, pending, round, down, stop, counters, cut, told>>

AgainDone(t) ==
    /\ step[t] = "again" /\ Settled(t)
    /\ Goto(t, "summing")
    /\ UNCHANGED <<queued, run, results, pending, round, down, stop, counters, cut, told>>

Summing(t) ==
    /\ step[t] = "summing"
    /\ IF StopAsked THEN Finish(t) /\ Tell(t, "stopped")
       ELSE AskLead(t, "sum") /\ UNCHANGED <<queued, told>>
    /\ UNCHANGED <<results, pending, round, down, stop, counters, cut>>

Sum(t) ==
    /\ step[t] = "sum"
    /\ \/ LeadCut(t) /\ LeftQueued(t) /\ UNCHANGED told
       \/ LeadSaid(t) /\ AskLead(t, "learn") /\ Tell(t, "summary") /\ UNCHANGED queued
    /\ UNCHANGED <<results, pending, round, down, stop, counters, cut>>

\* What is to be learnt is put down, if the lead gets to say it; the message has
\* been answered either way.
Learn(t) ==
    /\ step[t] = "learn"
    /\ LeadCut(t) \/ LeadSaid(t)
    /\ Finish(t)
    /\ UNCHANGED <<results, pending, round, down, stop, counters, cut, told>>

-----------------------------------------------------------------------------
(* What goes on around.                                                      *)

\* The user asks for a stop, here or in another conversation.
AskStop(p) ==
    /\ stops < MaxStops /\ stops' = stops + 1
    /\ stop' = p
    /\ UNCHANGED <<queued, turn, down, lives, cut, told>>

Shutdown ==
    /\ ~down /\ lives < MaxLives /\ down' = TRUE
    /\ UNCHANGED <<queued, turn, stop, counters, cut, told>>

\* The daemon exits, whether or not its turns are through, and comes up again.
Restart ==
    /\ down /\ down' = FALSE /\ lives' = lives + 1
    /\ step' = [t \in Turns |-> "out"] /\ run' = [t \in Turns |-> Idle]
    /\ UNCHANGED <<queued, results, pending, round, stop, stops, cut, told>>

Runner(t, r) == Start(t, r) \/ Say(t, r) \/ Interrupt(t, r) \/ Cut(t, r) \/ Show(t, r)
Team(t) ==
    \/ Begin(t) \/ Direct(t) \/ Delegate(t) \/ MembersDone(t) \/ Talk(t) \/ TalkDone(t)
    \/ Reviewing(t) \/ Review(t) \/ AgainDone(t) \/ Summing(t) \/ Sum(t) \/ Learn(t)

Next ==
    \/ \E t \in Turns : Team(t) \/ \E r \in Runs : Runner(t, r)
    \/ \E p \in Turns \cup {Elsewhere} : AskStop(p)
    \/ Shutdown \/ Restart

Spec == Init /\ [][Next]_vars

\* Threads go on, every process comes to its end (run_claude bounds its time), and
\* a daemon that has been told to exit does.  Permits go round.
TeamFairness ==
    /\ \A t \in Turns : WF_vars(Team(t))
    /\ \A t \in Turns : WF_vars(\E r \in Runs : Start(t, r))
    /\ \A t \in Turns : WF_vars(\E r \in Runs : Say(t, r) \/ Show(t, r))
    /\ WF_vars(Restart)

FairSpec == Spec /\ TeamFairness

-----------------------------------------------------------------------------
(* Properties.                                                               *)

Steps == {"lead", "direct", "members", "talk", "talking", "reviewing", "review",
          "again", "summing", "sum", "learn"}
Lived == {"none", "wait", "run", "said", "shown", "cut"}

TypeOK ==
    /\ queued \subseteq Turns
    /\ step \in [Turns -> Steps \cup {"out"}] /\ cut \in [Turns -> SUBSET Steps]
    /\ run \in [Turns -> [Runs -> Lived]]
    /\ results \in [Turns -> 0..(Slots * Cardinality(Members))]
    /\ pending \in [Turns -> SUBSET Members]
    /\ round \in [Turns -> 0..(MaxRounds + 2)]
    /\ down \in BOOLEAN /\ stop \in Turns \cup {NoStop, Elsewhere}
    /\ lives \in 1..MaxLives /\ stops \in 0..MaxStops
    /\ told \in [Turns -> {"nothing", "plan", "member", "answer", "summary", "stopped"}]
    /\ Cardinality(Running) <= Permits

\* While the lead speaks no member of the team does, and the other way round:
\* a round is over before the next begins, so that no answer of a round is left
\* out of what the lead is given, and no session is in use twice between rounds.
RoundByRound ==
    \A t \in Turns :
        LET busy == {r \in Runs : run[t][r] \in {"wait", "run", "said"}}
        IN /\ step[t] \notin {"members", "talking", "again"} => busy \subseteq {LeadRun}
           /\ LeadRun \in busy => busy = {LeadRun}

\* A message is not taken for answered on the word of a run that was cut: of the
\* lead as it begins or sums up, or of the member addressed directly.  And nobody
\* sums up what nobody has said.
AnswerReal ==
    \A t \in Turns :
        /\ t \notin queued => cut[t] \cap {"lead", "direct", "sum"} = {}
        /\ told[t] = "summary" => results[t] > 0

\* What a team answers is what the team has said: rounds one after the other, so
\* that every answer is in, and no run that was cut among those that count.
RoundsTrue == RoundByRound /\ AnswerReal

\* However few the permits, and whether the daemon goes on or is started anew, a
\* team's turn that has begun comes to its end.
TurnEnds == \A t \in Turns : step[t] # "out" ~> t \notin queued
=============================================================================
