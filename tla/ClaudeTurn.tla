----------------------------- MODULE ClaudeTurn -----------------------------
(***************************************************************************)
(* Turns of the Claude CLI and what they share: run_claude of               *)
(* scripts/daemon/claude_runner.py with its retries, the semaphore over the *)
(* CLI processes, the account cooldown and the seat switch of               *)
(* scripts/daemon/limits.py, and the single stop request the server keeps.  *)
(*                                                                         *)
(* Every turn belongs to a project of its own (the project lock sees to     *)
(* that), so a project is named by its turn.  A retry is a recursive call   *)
(* in the code: here the turn goes back to its entry with the arguments the *)
(* call passes on, and the ones it leaves to their defaults reset.          *)
(***************************************************************************)
EXTENDS Integers, FiniteSets

CONSTANTS
    Turns,
    Seats,              \* claude_seats: subscriptions the machine may run on
    NoSeat, NoStop, EveryTurn,
    Permits,            \* max_concurrent, the semaphore's count
    MaxContextRetries,  \* MAX_CONTEXT_OVERFLOW_RETRIES
    MaxOverloadRetries, \* MAX_OVERLOAD_RETRIES
    MaxSpawns,          \* bound: processes started in all
    MaxStops            \* bound: stop requests users make

ASSUME TurnAssumption ==
    /\ IsFiniteSet(Turns)
    /\ {NoStop, EveryTurn} \cap Turns = {} /\ NoStop # EveryTurn
    /\ NoSeat \notin Seats /\ Seats # {}
    /\ {Permits, MaxSpawns} \subseteq Nat \ {0}
    /\ {MaxContextRetries, MaxOverloadRetries, MaxStops} \subseteq Nat

VARIABLES
    at,             \* where each turn is
    dir,            \* seat whose directory the turn has resolved (line 403)
    seatSeen,       \* active_seat() as the turn saw it (line 404)
    canary,         \* the cooldown let the turn through as its trial
    contextRetry,   \* _retry_count
    overloadRetry,  \* _overload_retry
    limitRetry,     \* _limit_retry
    held,           \* _sem_held of the turn's innermost call
    stopSeen,       \* stop_event of the turn's process, and stop_initiated
    permits,        \* value of claude_semaphore
    seat,           \* the active seat
    limited,        \* seats whose account is at its limit, as the provider knows
    cooldown,       \* the account's slot: on, the seat it began on, trial due
    stopRequest,    \* user_status of the server
    resets,         \* history: sessions the turn has thrown away
    spawned,        \* history: how many processes have been started
    stopsMade       \* how many stops have been requested

args == <<contextRetry, overloadRetry, limitRetry>>
reads == <<dir, seatSeen, canary>>
shared == <<permits, seat, limited, cooldown, stopRequest>>
vars == <<at, reads, args, held, stopSeen, shared, resets, spawned, stopsMade>>

Places == {"new", "entry", "resolved", "waiting", "running", "hook", "backoff",
           "cooling", "done"}
NoCooldown == [on |-> FALSE, seat |-> NoSeat, trial |-> FALSE]

Init ==
    /\ at = [t \in Turns |-> "new"]
    /\ dir = [t \in Turns |-> NoSeat] /\ seatSeen = [t \in Turns |-> NoSeat]
    /\ canary = [t \in Turns |-> FALSE]
    /\ contextRetry = [t \in Turns |-> 0]
    /\ overloadRetry = [t \in Turns |-> 0]
    /\ limitRetry = [t \in Turns |-> 0]
    /\ held = [t \in Turns |-> FALSE] /\ stopSeen = [t \in Turns |-> "no"]
    /\ permits = Permits
    /\ seat \in Seats /\ limited = {}
    /\ cooldown = NoCooldown
    /\ stopRequest = NoStop
    /\ resets = [t \in Turns |-> 0] /\ spawned = 0
    /\ stopsMade = 0

Goto(t, place) == at' = [at EXCEPT ![t] = place]

-----------------------------------------------------------------------------
(* What goes on around the turns.                                            *)

\* A person presses stop, for one conversation or, on an old page, for all.
RequestStop(target) ==
    /\ stopsMade < MaxStops /\ stopsMade' = stopsMade + 1
    /\ stopRequest' = target
    /\ UNCHANGED <<at, reads, args, held, stopSeen, permits, seat, limited, cooldown,
                   resets, spawned>>

LimitMoves ==
    /\ \E s \in Seats : limited' = (limited \ {s}) \cup ({s} \ limited)
    /\ UNCHANGED <<at, reads, args, held, stopSeen, permits, seat, cooldown,
                   stopRequest, resets, spawned, stopsMade>>

CooldownClock ==
    /\ cooldown.on
    /\ \/ cooldown' = NoCooldown
       \/ cooldown' = [cooldown EXCEPT !.trial = TRUE]
    /\ UNCHANGED <<at, reads, args, held, stopSeen, permits, seat, limited,
                   stopRequest, resets, spawned, stopsMade>>

-----------------------------------------------------------------------------
(* Into run_claude.                                                          *)

\* The worker withdraws whatever stop is on the server before a turn.
Enter(t) ==
    /\ at[t] = "new"
    /\ stopRequest' = NoStop
    /\ Goto(t, "entry")
    /\ UNCHANGED <<reads, args, held, stopSeen, permits, seat, limited, cooldown,
                   resets, spawned, stopsMade>>

\* Two reads of the live configuration, one line after the other.
ResolveDir(t) ==
    /\ at[t] = "entry"
    /\ dir' = [dir EXCEPT ![t] = seat]
    /\ Goto(t, "resolved")
    /\ UNCHANGED <<seatSeen, canary, args, held, stopSeen, shared, resets, spawned,
                   stopsMade>>

\* account_cooldown_notice: over, another account by now, due for a trial, or
\* the turn is refused.  It decides before the wait for the semaphore.
PassCooldown(t) ==
    \/ /\ ~cooldown.on \/ cooldown.seat # dir[t]
       /\ cooldown' = NoCooldown
       /\ canary' = [canary EXCEPT ![t] = FALSE]
    \/ /\ cooldown.on /\ cooldown.seat = dir[t] /\ cooldown.trial
       /\ cooldown' = [cooldown EXCEPT !.trial = FALSE]
       /\ canary' = [canary EXCEPT ![t] = TRUE]
AskCooldown(t) ==
    /\ at[t] = "resolved"
    /\ seatSeen' = [seatSeen EXCEPT ![t] = seat]
    /\ \/ PassCooldown(t) /\ Goto(t, "waiting")
       \/ /\ cooldown.on /\ cooldown.seat = dir[t] /\ ~cooldown.trial
          /\ Goto(t, "done")
          /\ UNCHANGED <<canary, cooldown>>
    /\ UNCHANGED <<dir, args, held, stopSeen, permits, seat, limited, stopRequest,
                   resets, spawned, stopsMade>>

Spawn(t) ==
    /\ at[t] = "waiting" /\ permits > 0
    /\ spawned < MaxSpawns
    /\ permits' = permits - 1
    /\ held' = [held EXCEPT ![t] = TRUE]
    /\ stopSeen' = [stopSeen EXCEPT ![t] = "no"]
    /\ spawned' = spawned + 1
    /\ Goto(t, "running")
    /\ UNCHANGED <<reads, args, seat, limited, cooldown, stopRequest, resets, stopsMade>>

-----------------------------------------------------------------------------
(* While the process runs.                                                   *)

\* The poller's thread reads the request; the turn's own loop withdraws it and
\* interrupts the process.
SeeStop(t) ==
    /\ at[t] = "running" /\ stopSeen[t] = "no"
    /\ stopRequest \in {t, EveryTurn}
    /\ stopSeen' = [stopSeen EXCEPT ![t] = "seen"]
    /\ UNCHANGED <<at, reads, args, held, shared, resets, spawned, stopsMade>>

HeedStop(t) ==
    /\ at[t] = "running" /\ stopSeen[t] = "seen"
    /\ stopRequest' = NoStop
    /\ stopSeen' = [stopSeen EXCEPT ![t] = "heeded"]
    /\ UNCHANGED <<at, reads, args, held, permits, seat, limited, cooldown,
                   resets, spawned, stopsMade>>

\* _release_semaphore: once for every call of run_claude, though each of its
\* ways out asks for it.
GiveBackTwice(t) ==
    /\ permits' = permits + 1
    /\ UNCHANGED held
GiveBack(t) ==
    /\ permits' = IF held[t] THEN permits + 1 ELSE permits
    /\ held' = [held EXCEPT ![t] = FALSE]

\* A call of run_claude is over, and its locals with it.
Forget(t) ==
    /\ dir' = [dir EXCEPT ![t] = NoSeat] /\ seatSeen' = [seatSeen EXCEPT ![t] = NoSeat]
    /\ canary' = [canary EXCEPT ![t] = FALSE]
    /\ stopSeen' = [stopSeen EXCEPT ![t] = "no"]

\* The turn is over: the finally clause.
Ends(t) == Goto(t, "done") /\ GiveBack(t) /\ Forget(t) /\ UNCHANGED <<spawned, stopsMade>>

\* The ways out that need nothing else: an answer after a stop, the hard or the
\* silence timeout, an expired login, an unknown error.
EndOtherwise(t) ==
    /\ at[t] = "running"
    /\ Ends(t)
    /\ UNCHANGED <<args, seat, limited, cooldown, stopRequest, resets>>

\* A normal answer also lifts the account's cooldown.
EndWell(t) ==
    /\ at[t] = "running" /\ dir[t] \notin limited
    /\ cooldown' = NoCooldown
    /\ Ends(t)
    /\ UNCHANGED <<args, seat, limited, stopRequest, resets>>

\* Back to the entry of a fresh call, with these three arguments.
CallAgainHolding(t, context, overload, limit) ==
    /\ contextRetry' = [contextRetry EXCEPT ![t] = context]
    /\ overloadRetry' = [overloadRetry EXCEPT ![t] = overload]
    /\ limitRetry' = [limitRetry EXCEPT ![t] = limit]
    /\ Forget(t) /\ UNCHANGED <<permits, held>>
CallAgain(t, context, overload, limit) ==
    /\ contextRetry' = [contextRetry EXCEPT ![t] = context]
    /\ overloadRetry' = [overloadRetry EXCEPT ![t] = overload]
    /\ limitRetry' = [limitRetry EXCEPT ![t] = limit]
    /\ GiveBack(t) /\ Forget(t)

\* Overloaded: up to three more tries, after a pause without the permit.
Overload(t) ==
    /\ at[t] = "running" /\ overloadRetry[t] < MaxOverloadRetries
    /\ CallAgain(t, contextRetry[t], overloadRetry[t] + 1, 0)
    /\ Goto(t, "backoff")
    /\ UNCHANGED <<seat, limited, cooldown, stopRequest, resets,
                   spawned, stopsMade>>
BackoffOver(t) ==
    /\ at[t] = "backoff"
    /\ Goto(t, "entry")
    /\ UNCHANGED <<reads, args, held, stopSeen, shared, resets, spawned, stopsMade>>

\* The conversation is too long, has a bad image, or is unknown to the CLI: the
\* session is thrown away, and the same request tried on a new one.
ContextOverflow(t) ==
    /\ at[t] = "running"
    /\ resets' = [resets EXCEPT ![t] = @ + 1]
    /\ IF contextRetry[t] < MaxContextRetries
       THEN CallAgain(t, contextRetry[t] + 1, 0, 0) /\ Goto(t, "entry")
       ELSE GiveBack(t) /\ Forget(t) /\ UNCHANGED args /\ Goto(t, "done")
    /\ UNCHANGED <<seat, limited, cooldown, stopRequest, spawned,
                   stopsMade>>

\* The model's own limit: once, with another model.
ModelLimit(t) ==
    /\ at[t] = "running"
    /\ IF limitRetry[t] = 0
       THEN CallAgain(t, contextRetry[t], 0, 1) /\ Goto(t, "entry")
       ELSE GiveBack(t) /\ Forget(t) /\ UNCHANGED args /\ Goto(t, "done")
    /\ UNCHANGED <<seat, limited, cooldown, stopRequest, resets,
                   spawned, stopsMade>>

\* The account's limit: first whether another seat is there to go to.
AccountLimit(t) ==
    /\ at[t] = "running" /\ dir[t] \in limited
    /\ GiveBack(t)
    /\ stopSeen' = [stopSeen EXCEPT ![t] = "no"]
    /\ Goto(t, IF limitRetry[t] = 0 THEN "hook" ELSE "cooling")
    /\ UNCHANGED <<reads, args, seat, limited, cooldown, stopRequest,
                   resets, spawned, stopsMade>>

\* run_seat_limit_hook, under its lock: another turn has moved already, or the
\* hook is run and moves to a seat of its choice, or stays, or was run too
\* recently.
RunSeatHook(t) ==
    \/ seat # seatSeen[t] /\ UNCHANGED seat
    \/ seat = seatSeen[t] /\ seat' \in Seats

\* The same turn again from another seat, or the cooldown.
SeatHook(t) ==
    /\ at[t] = "hook"
    /\ RunSeatHook(t)
    /\ IF seat' # seatSeen[t]
       THEN CallAgain(t, contextRetry[t], 0, limitRetry[t] + 1) /\ Goto(t, "entry")
       ELSE UNCHANGED <<reads, args, held, stopSeen, permits>> /\ Goto(t, "cooling")
    /\ UNCHANGED <<limited, cooldown, stopRequest, resets, spawned,
                   stopsMade>>

\* start_account_cooldown: a cooldown that lasts longer anyway is left alone.
StartCooldown(t) ==
    /\ at[t] = "cooling"
    /\ \/ cooldown' = [on |-> TRUE, seat |-> dir[t], trial |-> FALSE]
       \/ cooldown.on /\ UNCHANGED cooldown
    /\ Ends(t)
    /\ UNCHANGED <<args, seat, limited, stopRequest, resets>>

-----------------------------------------------------------------------------
TurnStep(t) ==
    \/ Enter(t) \/ ResolveDir(t) \/ AskCooldown(t) \/ SeeStop(t) \/ HeedStop(t)
    \/ EndOtherwise(t) \/ EndWell(t) \/ Overload(t) \/ BackoffOver(t)
    \/ ContextOverflow(t) \/ ModelLimit(t) \/ AccountLimit(t) \/ SeatHook(t)
    \/ StartCooldown(t)

Next ==
    \/ \E t \in Turns : TurnStep(t) \/ Spawn(t)
    \/ \E target \in Turns \cup {EveryTurn} : RequestStop(target)
    \/ LimitMoves \/ CooldownClock

Spec == Init /\ [][Next]_vars

(* A process ends, by its own or by a timeout; the hook has a timeout; a     *)
(* semaphore serves its waiters in turn, so that one which is free again and *)
(* again reaches each of them.                                               *)
Ending(t) == EndOtherwise(t) \/ EndWell(t) \/ Overload(t) \/ ContextOverflow(t)
             \/ ModelLimit(t) \/ AccountLimit(t)
Between(t) == ResolveDir(t) \/ AskCooldown(t) \/ BackoffOver(t) \/ SeatHook(t)
              \/ StartCooldown(t)
Fairness == \A t \in Turns : WF_vars(Ending(t)) /\ WF_vars(Between(t)) /\ SF_vars(Spawn(t))
FairSpec == Spec /\ Fairness

-----------------------------------------------------------------------------
TypeOK ==
    /\ at \in [Turns -> Places]
    /\ dir \in [Turns -> Seats \cup {NoSeat}]
    /\ seatSeen \in [Turns -> Seats \cup {NoSeat}]
    /\ canary \in [Turns -> BOOLEAN]
    /\ contextRetry \in [Turns -> 0..MaxContextRetries]
    /\ overloadRetry \in [Turns -> 0..MaxOverloadRetries]
    /\ limitRetry \in [Turns -> 0..1]
    /\ held \in [Turns -> BOOLEAN] /\ stopSeen \in [Turns -> {"no", "seen", "heeded"}]
    /\ permits \in 0..Permits
    /\ seat \in Seats /\ limited \subseteq Seats
    /\ cooldown \in [on : BOOLEAN, seat : Seats \cup {NoSeat}, trial : BOOLEAN]
    /\ stopRequest \in Turns \cup {NoStop, EveryTurn}
    /\ resets \in [Turns -> Nat] /\ spawned \in 0..MaxSpawns
    /\ stopsMade \in 0..MaxStops

(* The semaphore is given back exactly as often as it is taken, over every   *)
(* retry and every way out (lines 423-426 tell of the time it was not): each *)
(* running process has a permit, nobody else has one, and none is lost.      *)
PermitsExact ==
    /\ \A t \in Turns : held[t] <=> at[t] = "running"
    /\ permits + Cardinality({t \in Turns : held[t]}) = Permits

(* A request costs its conversation at most MaxContextRetries + 1 sessions,  *)
(* whatever overloads and limits come between the overflows.                 *)
ResetsBounded == \A t \in Turns : resets[t] <= MaxContextRetries + 1

(* A turn that waits for a permit gets one, or has used up the bound.        *)
WaitersServed ==
    \A t \in Turns : at[t] = "waiting" ~> (at[t] = "running" \/ spawned = MaxSpawns)

=============================================================================
