------------------------------ MODULE TurnLanes ------------------------------
(***************************************************************************)
(* What the turn dispatcher of the daemon promises, without the means it    *)
(* uses to keep the promise: no counters, no dispatcher thread and no       *)
(* executor.  A message waits, gets a lane, gives the lane back.  Lanes     *)
(* belong to turns, a project has at most one of them, automatic messages   *)
(* may not take the reserved ones, and a lane always goes to the best       *)
(* admissible waiting message: people before machines, then by ticket.      *)
(*                                                                         *)
(* Source of the promise: scripts/daemon/dispatch.py, lines 8-13.           *)
(***************************************************************************)
EXTENDS Integers, FiniteSets

CONSTANTS
    Msgs,           \* the messages that may ever arrive
    ProjectOf,      \* the project (conversation) of each message
    AutoMsgs,       \* the messages no person typed
    Lanes,          \* how many turns may run at once
    Reserve         \* how many of the lanes automatic turns must leave free

VARIABLES
    status,         \* where a message is: away, waiting, inLane or gone
    ticket          \* order of arrival; 0 before the message has arrived

lanesVars == <<status, ticket>>

InLane == {m \in Msgs : status[m] = "inLane"}
Waiting == {m \in Msgs : status[m] = "waiting"}

Admissible(m) ==
    /\ \A o \in InLane : ProjectOf[o] # ProjectOf[m]
    /\ m \in AutoMsgs => Cardinality(InLane \cap AutoMsgs) < Lanes - Reserve

\* a goes before b: a person's message before an automatic one, then by ticket
GoesBefore(a, b) ==
    \/ a \notin AutoMsgs /\ b \in AutoMsgs
    \/ (a \in AutoMsgs <=> b \in AutoMsgs) /\ ticket[a] < ticket[b]

LanesInit ==
    /\ status = [m \in Msgs |-> "away"]
    /\ ticket = [m \in Msgs |-> 0]

\* A message joins the line with a ticket nobody else in the line has.
Arrive(m) ==
    /\ status[m] = "away"
    /\ status' = [status EXCEPT ![m] = "waiting"]
    /\ ticket' = [ticket EXCEPT ![m] = ticket'[m]]
    /\ ticket'[m] \in Nat \ ({0} \cup {ticket[o] : o \in Msgs})

TakeLane(m) ==
    /\ status[m] = "waiting"
    /\ Cardinality(InLane) < Lanes
    /\ Admissible(m)
    /\ \A o \in Waiting \ {m} : Admissible(o) => GoesBefore(m, o)
    /\ status' = [status EXCEPT ![m] = "inLane"]
    /\ UNCHANGED ticket

LeaveLane(m) ==
    /\ status[m] = "inLane"
    /\ status' = [status EXCEPT ![m] = "gone"]
    /\ UNCHANGED ticket

LanesNext == \E m \in Msgs : Arrive(m) \/ TakeLane(m) \/ LeaveLane(m)

LanesSpec == LanesInit /\ [][LanesNext]_lanesVars
=============================================================================
