------------------------------- MODULE Custody -------------------------------
(***************************************************************************)
(* What the message pipeline of the daemon promises of each request,         *)
(* without the means it uses: no poll, no jobs, no locks, no recovery.  A    *)
(* request is always in somebody's custody: offered by the server, or kept   *)
(* on this machine, until a word about it has been sent.  Crashes make the   *)
(* daemon forget how often it has come to a request, and nothing else.       *)
(*                                                                         *)
(* Source of the promise: enqueue_message and dequeue_message of              *)
(* scripts/daemon/queue.py, and the order in which process_message of         *)
(* scripts/daemon/worker.py calls them, marks the message and answers it.     *)
(***************************************************************************)
EXTENDS Integers

CONSTANT
    Msgs            \* the requests that may ever be made

VARIABLES
    listing,        \* on the server: absent, pending, or processed (let go)
    kept,           \* the requests kept on this machine
    answered,       \* those an answer, or an error, has been sent for
    turns,          \* how often each was come to since the daemon began
    sure            \* the daemon still knows all it came to since then

custodyVars == <<listing, kept, answered, turns, sure>>

CustodyInit ==
    /\ listing = [m \in Msgs |-> "absent"]
    /\ kept = {} /\ answered = {}
    /\ turns = [m \in Msgs |-> 0]
    /\ sure = TRUE

Made(m) == listing[m] # "absent"
InCustody(m) == m \in kept \/ m \in answered

Offer(m) ==
    /\ ~Made(m)
    /\ listing' = [listing EXCEPT ![m] = "pending"]
    /\ UNCHANGED <<kept, answered, turns, sure>>

Keep(m) ==
    /\ Made(m)
    /\ kept' = kept \cup {m}
    /\ UNCHANGED <<listing, answered, turns, sure>>

\* The server is told to let go; the call may be lost.
LetGo(m) ==
    /\ Made(m) /\ InCustody(m)
    /\ listing' \in {listing, [listing EXCEPT ![m] = "processed"]}

Release(m) == LetGo(m) /\ UNCHANGED <<kept, answered, turns, sure>>

\* Work on a request begins as the server is told to let go of it.
Begin(m) ==
    /\ LetGo(m)
    /\ sure => turns[m] = 0
    /\ turns' = [turns EXCEPT ![m] = @ + 1]
    /\ UNCHANGED <<kept, answered, sure>>

Answer(m) ==
    /\ Made(m)
    /\ answered' = answered \cup {m}
    /\ UNCHANGED <<listing, kept, turns, sure>>

Drop(m) ==
    /\ m \in answered
    /\ kept' = kept \ {m}
    /\ UNCHANGED <<listing, answered, turns, sure>>

\* The daemon forgets some of what it came to: its memory of that has a limit.
Overflow ==
    /\ sure' = FALSE
    /\ UNCHANGED <<listing, kept, answered, turns>>

\* The daemon ends, in whatever way.
Forget ==
    /\ turns' = [m \in Msgs |-> 0] /\ sure' = TRUE
    /\ UNCHANGED <<listing, kept, answered>>

CustodyNext ==
    \/ \E m \in Msgs : \/ Offer(m) \/ Keep(m) \/ Release(m) \/ Begin(m)
                       \/ Answer(m) \/ Drop(m)
    \/ Overflow \/ Forget

CustodySpec == CustodyInit /\ [][CustodyNext]_custodyVars
=============================================================================
