------------------------------ MODULE CloudUsage ------------------------------
(***************************************************************************)
(* The usage banner of the cloud's users, UsageThread and its neighbours in   *)
(* scripts/cloud_daemon.py.  A user presses the banner's button, which raises  *)
(* a flag on the server; the poll brings the flags; the thread, woken by a new *)
(* one, collects each wanted or overdue user's usage in turn and lowers the    *)
(* flag when it succeeded, or after REFRESH_MAX_TRIES failures.                *)
(*                                                                         *)
(* A collection that raises (a podman command over its time) ends the round,  *)
(* for the users after it too, and is not counted as a try.                    *)
(***************************************************************************)
EXTENDS Integers, Sequences, FiniteSets

CONSTANTS
    Roster,         \* the users in the roster's order, a sequence
    MaxTries,       \* REFRESH_MAX_TRIES
    DueRounds,      \* rounds between two periodic collections: USAGE_INTERVAL_SEC
                    \* over USAGE_REFRESH_POLL_SEC
    Steady          \* users whose collections do not raise for ever

Users == {Roster[i] : i \in 1..Len(Roster)}

ASSUME UsageAssumption ==
    /\ Roster \in Seq(Users) /\ Len(Roster) = Cardinality(Users)
    /\ MaxTries \in Nat \ {0} /\ DueRounds \in Nat \ {0} /\ Steady \subseteq Users

VARIABLES
    flag,       \* usage_refresh on the server, by user
    wanted,     \* _usage_refresh: the daemon's copy
    wake,       \* _usage_wake
    round,      \* the thread: where it is in the roster, and whether it read a flag
    elapsed,    \* rounds since each user's last collection
    tries,      \* retry_counts
    unheard     \* history: users new in the copy that no round has come to

usageVars == <<flag, wanted, wake, round, elapsed, tries, unheard>>

Asleep == [at |-> 0, step |-> "asleep", refresh |-> FALSE]

UsageInit ==
    /\ flag = [u \in Users |-> FALSE] /\ wanted = {} /\ wake = FALSE
    /\ round = Asleep
    /\ elapsed = [u \in Users |-> DueRounds] /\ tries = [u \in Users |-> 0]
    /\ unheard = {}

(* The button.                                                              *)
Press(u) ==
    /\ ~flag[u] /\ flag' = [flag EXCEPT ![u] = TRUE]
    /\ UNCHANGED <<wanted, wake, round, elapsed, tries, unheard>>

(* _set_usage_refresh, with the answer of /api/cloud/poll.                   *)
PollFlags ==
    LET now == {u \in Users : flag[u]}
        new == now \ wanted
    IN /\ wanted' = now
       /\ wake' = (wake \/ new # {})
       /\ unheard' = (unheard \cup new) \cap now
       /\ UNCHANGED <<flag, round, elapsed, tries>>

-----------------------------------------------------------------------------
(* UsageThread.run.                                                          *)

Here == Roster[round.at]
NextUser == IF round.at = Len(Roster) THEN Asleep
          ELSE [at |-> round.at + 1, step |-> "look", refresh |-> FALSE]

(* MUTANT ClearAfterRound: the event is cleared when the round is over.       *)
ClearAfterRound == wake' = IF round.step = "asleep" THEN wake ELSE FALSE
ClearBeforeRound == wake' = IF round.step = "asleep" THEN FALSE ELSE wake

(* The event, or USAGE_REFRESH_POLL_SEC; then the event is cleared.          *)
WakeUp ==
    /\ round.step = "asleep" /\ round' = NextUser
    /\ ClearBeforeRound
    /\ elapsed' = [u \in Users |-> IF elapsed[u] < DueRounds THEN elapsed[u] + 1 ELSE elapsed[u]]
    /\ UNCHANGED <<flag, wanted, tries, unheard>>

(* Neither overdue nor wanted: the next user.                                *)
Due(u) == elapsed[u] = DueRounds

PassBy ==
    /\ round.step = "look" /\ ~Due(Here) /\ Here \notin wanted
    /\ round' = NextUser
    /\ (IF round' = Asleep THEN ClearBeforeRound ELSE UNCHANGED wake)
    /\ UNCHANGED <<flag, wanted, elapsed, tries, unheard>>

(* MUTANT AgeKept: the time of the collection is noted when it succeeded.     *)
AgeKept == UNCHANGED elapsed
NoteTime == elapsed' = [elapsed EXCEPT ![Here] = 0]

Begin ==
    /\ round.step = "look" /\ (Due(Here) \/ Here \in wanted)
    /\ round' = [at |-> round.at, step |-> "collect", refresh |-> Here \in wanted]
    /\ NoteTime /\ unheard' = unheard \ {Here}
    /\ UNCHANGED <<flag, wanted, wake, tries>>

Settles(ok) == ok \/ tries[Here] + 1 >= MaxTries

(* collect_and_store_usage has come back, with a value or without.           *)
Collected(u, ok) ==
    /\ round.step = "collect" /\ Here = u
    /\ IF ~round.refresh THEN round' = NextUser /\ UNCHANGED tries
       ELSE IF Settles(ok) THEN round' = [round EXCEPT !.step = "lower"] /\ UNCHANGED tries
       ELSE round' = NextUser /\ tries' = [tries EXCEPT ![u] = @ + 1]
    /\ (IF round' = Asleep THEN ClearBeforeRound ELSE UNCHANGED wake)
    /\ UNCHANGED <<flag, wanted, elapsed, unheard>>

(* It has raised: the loop's handler ends the round.                         *)
Raised ==
    /\ round.step = "collect" /\ round' = Asleep /\ ClearBeforeRound
    /\ unheard' = {}
    /\ UNCHANGED <<flag, wanted, elapsed, tries>>

(* PATCH usage_refresh FALSE, which may be lost; the tries start anew.       *)
Lower(arrives) ==
    /\ round.step = "lower" /\ round' = NextUser
    /\ flag' = IF arrives THEN [flag EXCEPT ![Here] = FALSE] ELSE flag
    /\ tries' = [tries EXCEPT ![Here] = 0]
    /\ (IF round' = Asleep THEN ClearBeforeRound ELSE UNCHANGED wake)
    /\ UNCHANGED <<wanted, elapsed, unheard>>

UsageStep ==
    \/ WakeUp \/ PassBy \/ Begin \/ Raised
    \/ \E u \in Users, ok \in BOOLEAN : Collected(u, ok)
    \/ \E arrives \in BOOLEAN : Lower(arrives)

UsageNext == UsageStep \/ PollFlags \/ \E u \in Users : Press(u)

(* The thread and the poll go on.  A steady user's collection does not       *)
(* raise every time, and the PATCH does not get lost every time.             *)
UsageFairness ==
    /\ WF_usageVars(UsageStep) /\ WF_usageVars(PollFlags)
    /\ \A u \in Steady : SF_usageVars(\E ok \in BOOLEAN : Collected(u, ok))
    /\ \A u \in Steady : SF_usageVars(Lower(TRUE) /\ Here = u)

UsageSpec == UsageInit /\ [][UsageNext]_usageVars /\ UsageFairness

-----------------------------------------------------------------------------
UsageTypeOK ==
    /\ flag \in [Users -> BOOLEAN] /\ wanted \subseteq Users /\ wake \in BOOLEAN
    /\ round \in [at : 0..Len(Roster), step : {"asleep", "look", "collect", "lower"},
                  refresh : BOOLEAN]
    /\ elapsed \in [Users -> 0..DueRounds] /\ tries \in [Users -> 0..MaxTries]
    /\ unheard \subseteq wanted

(* The thread does not go to sleep for its 30 s over a press the poll has     *)
(* brought meanwhile: the event is set, unless a round that began later has   *)
(* come to that user or was cut off by one who raises.                       *)
PressHeard == round.step = "asleep" /\ ~wake => unheard = {}

(* A steady user's banner stops turning, even if no collection of theirs     *)
(* ever succeeds, and even if others' collections always raise - as long as    *)
(* no other user's flag stays up for ever, which would end each round.        *)
BannerSettles ==
    \A v \in Steady :
        (\A u \in Users \ {v} : []<>(~flag[u])) => (flag[v] ~> ~flag[v])
=============================================================================
