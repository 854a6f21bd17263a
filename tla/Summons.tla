------------------------------ MODULE Summons ------------------------------
(***************************************************************************)
(* Summoned sessions: scripts/daemon/summon.py.  A project's agent asks    *)
(* the server for a session; the daemon's poll starts a thread for it, in  *)
(* which experts and a critic speak in rounds, each a process of its own,  *)
(* until the critic is content or the rounds are over.                     *)
(*                                                                         *)
(* The server keeps the session's status.  It is not under src/: it hands  *)
(* out pending sessions, and takes over whatever status it is sent.        *)
(***************************************************************************)
EXTENDS Naturals, FiniteSets

CONSTANTS
    Summoned,        \* the sessions asked for, of different projects
    Experts,         \* guest_agents but the critic
    SummonRounds,    \* max_rounds
    MaxSummonFaults, \* lost calls and exceptions of one behaviour
    MaxSummonStops   \* stops of the daemon in one behaviour

ASSUME SummonAssumption ==
    /\ IsFiniteSet(Experts) /\ SummonRounds \in Nat \ {0}
    /\ MaxSummonFaults \in Nat /\ MaxSummonStops \in Nat

VARIABLES
    status,      \* per session: what the server has it at
    talk,        \* per session: its thread: where it is, its round, who is still to speak,
                 \* whom the critic named for the next one
    stopping,    \* shutdown_event
    summonFaults, stopsMade,
    cancelled,   \* history: sessions the user has cancelled, but those that the
                 \* thread's start has then set to active
    ignored,     \* history: those of them that began a round and had their check answered
    broken       \* history: sessions whose thread died, or whose end was not heard

summonVars == <<status, talk, stopping, summonFaults, stopsMade, cancelled, ignored, broken>>

NoTalk == [at |-> "none", round |-> 0, left |-> {}, named |-> {}]

SummonInit ==
    /\ status = [s \in Summoned |-> "none"] /\ talk = [s \in Summoned |-> NoTalk]
    /\ stopping = FALSE /\ summonFaults = 0 /\ stopsMade = 0
    /\ cancelled = {} /\ ignored = {} /\ broken = {}

Lost == summonFaults < MaxSummonFaults /\ summonFaults' = summonFaults + 1
Arrives == UNCHANGED summonFaults
Alone == UNCHANGED <<stopping, stopsMade>>

Ask(s) ==
    /\ status[s] = "none" /\ status' = [status EXCEPT ![s] = "pending"]
    /\ Arrives /\ Alone /\ UNCHANGED <<talk, cancelled, ignored, broken>>

Cancel(s) ==
    /\ status[s] \in {"pending", "active"} /\ status' = [status EXCEPT ![s] = "cancelled"]
    /\ cancelled' = cancelled \cup {s}
    /\ Arrives /\ Alone /\ UNCHANGED <<talk, ignored, broken>>

(* The poll starts a thread for a pending session that has none alive.     *)
Poll(s) ==
    /\ ~stopping /\ status[s] = "pending" /\ talk[s].at = "none"
    /\ talk' = [talk EXCEPT ![s] = [NoTalk EXCEPT !.at = "starting"]]
    /\ Arrives /\ Alone /\ UNCHANGED <<status, cancelled, ignored, broken>>

(* The thread sets the session to active, whatever has become of it.       *)
BeginSession(s) ==
    /\ talk[s].at = "starting" /\ talk' = [talk EXCEPT ![s].at = "rounds"]
    /\ \/ /\ status' = [status EXCEPT ![s] = "active"] /\ Arrives
          /\ cancelled' = cancelled \ {s}
       \/ Lost /\ UNCHANGED <<status, cancelled>>
    /\ Alone /\ UNCHANGED <<ignored, broken>>

(* Whom a round calls: the experts the critic named, or all.               *)
Called(s) == IF talk[s].named = {} THEN Experts ELSE talk[s].named

NextRound(s) ==
    /\ talk' = [talk EXCEPT ![s] = [@ EXCEPT !.at = "talking", !.round = talk[s].round + 1,
                                              !.left = Called(s)]]

Heard(s) == ignored' = ignored \cup ({s} \cap cancelled)
MoreRounds(s) == talk[s].at = "rounds" /\ ~stopping /\ talk[s].round < SummonRounds

RoundUnasked(s) ==
    /\ MoreRounds(s) /\ NextRound(s) /\ Heard(s) /\ Arrives
    /\ Alone /\ UNCHANGED <<status, cancelled, broken>>

(* Before each round the status is looked up; no answer counts as go on.   *)
Round(s) ==
    /\ MoreRounds(s)
    /\ \/ /\ status[s] = "cancelled" /\ Arrives
          /\ talk' = [talk EXCEPT ![s] = NoTalk] /\ UNCHANGED ignored
       \/ status[s] # "cancelled" /\ Arrives /\ NextRound(s) /\ Heard(s)
       \/ Lost /\ NextRound(s) /\ UNCHANGED ignored
    /\ Alone /\ UNCHANGED <<status, cancelled, broken>>

(* The experts speak one after the other.  If the process of one fails or  *)
(* takes too long, its words are those of the error.                       *)
Opinion(s) ==
    /\ talk[s].at = "talking" /\ talk[s].left # {}
    /\ talk' = [talk EXCEPT ![s].left = @ \ {CHOOSE e \in @ : TRUE}]
    /\ Arrives /\ Alone /\ UNCHANGED <<status, cancelled, ignored, broken>>

(* The critic names who is to speak next.                                  *)
Critic(s) ==
    /\ talk[s].at = "talking" /\ talk[s].left = {}
    /\ \E named \in SUBSET Experts :
          talk' = [talk EXCEPT ![s] = [@ EXCEPT !.at = "rounds", !.named = named]]
    /\ Arrives /\ Alone /\ UNCHANGED <<status, cancelled, ignored, broken>>

(* Neither the session's thread nor a speaker's start catches what is      *)
(* raised there: the prompt file cannot be written, the secrets not read.  *)
(* The thread is gone, and nobody tells the server.                        *)
Raises(s) ==
    /\ talk[s].at = "talking" /\ Lost
    /\ talk' = [talk EXCEPT ![s] = NoTalk] /\ broken' = broken \cup {s}
    /\ Alone /\ UNCHANGED <<status, cancelled, ignored>>

EndUntold(s) ==
    /\ talk' = [talk EXCEPT ![s] = NoTalk] /\ Arrives /\ UNCHANGED <<status, broken>>

(* The session is set to completed, and the thread is over.                *)
End(s) ==
    /\ talk' = [talk EXCEPT ![s] = NoTalk]
    /\ \/ status' = [status EXCEPT ![s] = "completed"] /\ Arrives /\ UNCHANGED broken
       \/ Lost /\ broken' = broken \cup {s} /\ UNCHANGED status

(* It is enough.                                                           *)
Content(s) ==
    /\ talk[s].at = "talking" /\ talk[s].left = {} /\ End(s)
    /\ Alone /\ UNCHANGED <<cancelled, ignored>>

(* The rounds are over, or a shutdown broke them off: told alike.          *)
RoundsOver(s) ==
    /\ talk[s].at = "rounds" /\ (stopping \/ talk[s].round = SummonRounds) /\ End(s)
    /\ Alone /\ UNCHANGED <<cancelled, ignored>>

SummonShutdown ==
    /\ ~stopping /\ stopsMade < MaxSummonStops /\ stopping' = TRUE /\ stopsMade' = stopsMade + 1
    /\ Arrives /\ UNCHANGED <<status, talk, cancelled, ignored, broken>>

(* The process ends and takes its threads along; the next one starts.      *)
NextLife ==
    /\ stopping /\ stopping' = FALSE
    /\ talk' = [s \in Summoned |-> NoTalk]
    /\ broken' = broken \cup {s \in Summoned : talk[s].at # "none"}
    /\ Arrives /\ UNCHANGED <<status, stopsMade, cancelled, ignored>>

Thread(s) ==
    BeginSession(s) \/ Round(s) \/ Opinion(s) \/ Critic(s) \/ Raises(s) \/ Content(s) \/ RoundsOver(s)

SummonNext ==
    \/ \E s \in Summoned : Ask(s) \/ Cancel(s) \/ Poll(s) \/ Thread(s)
    \/ SummonShutdown \/ NextLife

SummonFairness ==
    /\ WF_summonVars(NextLife)
    /\ \A s \in Summoned : WF_summonVars(Poll(s)) /\ WF_summonVars(Thread(s))

(***************************************************************************)
(* A cancelled session does not begin another round: 현재 라운드 완료 후   *)
(* 중단됨 (docs/manual/22-summon.md:82).  A round goes ahead only if its   *)
(* own check is lost, and the cancel comes to nothing only if it fell      *)
(* between the poll and the thread's start (summon.py:191, :220), or if the *)
(* session had come to its end: that is then told over it (:286, :315).    *)
(***************************************************************************)
CancelHeeded == ignored = {}

(***************************************************************************)
(* A session that is asked for is closed in the end, also by a daemon that *)
(* stops, so that its project may ask for another one, unless its thread   *)
(* died, of the process's end or of an exception (summon.py:112, :127), or *)
(* the news of its end was lost.                                           *)
(***************************************************************************)
SummonEnds ==
    \A s \in Summoned :
        status[s] = "pending" ~> (status[s] \in {"completed", "cancelled"} \/ s \in broken)

SummonSpec == SummonInit /\ [][SummonNext]_summonVars /\ SummonFairness
=============================================================================
