----------------------------- MODULE CloudLimits -----------------------------
(***************************************************************************)
(* The cooldown of one cloud user after a limit of the Claude account, of    *)
(* scripts/cloud_daemon.py.  The user's projects run their turns at the same *)
(* time and share the account; a turn that reports the session limit opens a  *)
(* cooldown, in which messages are turned away without a CLI, but for one     *)
(* probe every LIMIT_COOLDOWN_PROBE_SEC.  It ends by itself, by a turn that    *)
(* goes well, by a usage report with room, or by a login with another account. *)
(*                                                                         *)
(* user_cooldown_notice looks at the slot twice, under the lock each time,    *)
(* and reads the account's e-mail in between; anything may happen there.      *)
(* Times are counted down, so nothing bounds how long a behaviour lasts.       *)
(***************************************************************************)
EXTENDS Integers, FiniteSets

CONSTANTS
    Project,        \* the user's projects
    Account,        \* the accounts the user may log in with, by their e-mail
    Unread,         \* the e-mail could not be read
    ProbeGap,       \* LIMIT_COOLDOWN_PROBE_SEC
    DefaultCooldown,  \* LIMIT_COOLDOWN_DEFAULT_SEC
    MaxCooldown,    \* LIMIT_COOLDOWN_MAX_SEC
    MaxReset        \* bound: how far off a limit's reset can be

ASSUME LimitsAssumption ==
    /\ Unread \notin Account
    /\ {ProbeGap, DefaultCooldown, MaxCooldown, MaxReset} \subseteq Nat \ {0}
    /\ DefaultCooldown <= MaxCooldown

VARIABLES
    account,    \* the account logged in with
    reset,      \* each account: how long until it has quota again
    slot,       \* _limit_cooldowns[user]
    talk,       \* each project's turn
    report,     \* a usage report under way: what it read
    welcome,    \* a login has succeeded, process() has not come to its clearing
    told        \* history: time since a CLI began or reported a limit, and how
                \* messages have been turned away

limitVars == <<account, reset, slot, talk, report, welcome, told>>

Mail == Account \cup {Unread}
Open == [left : 0..MaxCooldown, probe : 0..ProbeGap, email : Mail, before : BOOLEAN]
NoCooldown == [left |-> 0, probe |-> 0, email |-> Unread, before |-> FALSE]
NotAsking == [at |-> "idle", with |-> Unread]

LimitInit ==
    /\ account \in Account /\ reset = [a \in Account |-> 0]
    /\ slot = NoCooldown /\ talk = [p \in Project |-> NotAsking]
    /\ report = "none" /\ welcome = FALSE
    /\ told = [quiet |-> ProbeGap, late |-> FALSE, old |-> FALSE]

(* A cooldown that has run out counts as none; user_cooldown_notice clears   *)
(* it away when it meets it.                                               *)
Cooling == slot.left > 0
Clear == slot' = NoCooldown

(* _claude_account_email: the file may be missing or unreadable.            *)
Email == {account, Unread}

-----------------------------------------------------------------------------
(* run_claude_turn, up to the CLI's start.                                   *)

(* The CLI starts with the account logged in with now.                      *)
Spawn(p) ==
    /\ talk' = [talk EXCEPT ![p] = [at |-> "running", with |-> account]]
    /\ told' = [told EXCEPT !.quiet = 0]

(* The first look: no cooldown, or one with the e-mail it began with.       *)
Ask(p) ==
    /\ talk[p].at = "idle"
    /\ IF Cooling
       THEN /\ talk' = [talk EXCEPT ![p] = [at |-> "asked", with |-> slot.email]]
            /\ UNCHANGED <<slot, told>>
       ELSE Clear /\ Spawn(p)
    /\ UNCHANGED <<account, reset, report, welcome>>

(* Another account's e-mail means a new login: the cooldown is not its.     *)
ReadEmail(p) ==
    /\ talk[p].at = "asked"
    /\ \E m \in Email :
        IF talk[p].with # Unread /\ m # Unread /\ m # talk[p].with
        THEN Clear /\ Spawn(p)
        ELSE talk' = [talk EXCEPT ![p].at = "read"] /\ UNCHANGED <<slot, told>>
    /\ UNCHANGED <<account, reset, report, welcome>>

(* MUTANT OnSnapshot: the second look relies on the first one.               *)
OnSnapshot(p) == talk[p].at = "read"
OnCooldown(p) == Cooling

ProbeDue == slot.probe = 0

(* The second look.                                                         *)
Decide(p) ==
    /\ talk[p].at = "read"
    /\ IF ~OnCooldown(p) THEN Spawn(p) /\ UNCHANGED slot
       ELSE IF ProbeDue
       THEN /\ slot' = [slot EXCEPT !.probe = ProbeGap]
            /\ talk' = [talk EXCEPT ![p] = [at |-> "running", with |-> account]]
            /\ told' = [told EXCEPT !.quiet = 0]
       ELSE /\ talk' = [talk EXCEPT ![p] = NotAsking]
            /\ told' = [told EXCEPT !.late = @ \/ told.quiet >= ProbeGap,
                                    !.old = @ \/ (~welcome /\ (slot.before \/ ~Cooling))]
            /\ UNCHANGED slot
    /\ UNCHANGED <<account, reset, report, welcome>>

-----------------------------------------------------------------------------
(* The turn's end, _parse_turn_result.                                       *)

(* An answer: the account has quota, so a cooldown cannot be right.         *)
GoesWell(p) ==
    /\ talk[p].at = "running" /\ reset[talk[p].with] = 0
    /\ Clear
    /\ talk' = [talk EXCEPT ![p] = NotAsking]
    /\ UNCHANGED <<account, reset, report, welcome, told>>

(* Cut off, failed, or at a model's limit: nothing is learnt of the account. *)
GoesBadly(p) ==
    /\ talk[p].at = "running"
    /\ talk' = [talk EXCEPT ![p] = NotAsking]
    /\ UNCHANGED <<account, reset, slot, report, welcome, told>>

(* detect_usage_limit finds the session limit in what the CLI says.          *)
HitLimit(p) ==
    /\ talk[p].at = "running" /\ reset[talk[p].with] > 0
    /\ talk' = [talk EXCEPT ![p].at = "limited"]
    /\ UNCHANGED <<account, reset, slot, report, welcome, told>>

(* _parse_reset_dt: a time of day that has just passed is tomorrow's, a date *)
(* that has passed and an unreadable text give the default.                  *)
Remaining(a) ==
    {IF reset[a] > 0 THEN reset[a] ELSE DefaultCooldown,
     IF reset[a] > 0 THEN reset[a] ELSE MaxCooldown, DefaultCooldown}

Capped(n) == IF n < MaxCooldown THEN n ELSE MaxCooldown

(* start_user_cooldown: the later end wins, with the e-mail of now.          *)
Opened(n, m) ==
    IF Capped(n) > slot.left
    THEN [left |-> Capped(n), probe |-> ProbeGap, email |-> m, before |-> FALSE]
    ELSE slot

Report(p) ==
    /\ talk[p].at = "limited"
    /\ \E n \in Remaining(talk[p].with), m \in Email :
        slot' = Opened(n, m)
    /\ talk' = [talk EXCEPT ![p] = NotAsking]
    /\ told' = [told EXCEPT !.quiet = 0]
    /\ UNCHANGED <<account, reset, report, welcome>>

-----------------------------------------------------------------------------
(* Usage reports and logins.                                                 *)

(* What /usage or the API says: room, or near a limit (USAGE_CLEAR_PCT).     *)
Readings == {"near"} \cup (IF reset[account] = 0 THEN {"room"} ELSE {})

(* probe_usage, when it reads anything at all.                               *)
ReadUsage ==
    /\ report = "none"
    /\ report' \in Readings
    /\ UNCHANGED <<account, reset, slot, talk, welcome, told>>

(* clear_user_cooldown_if_stale.                                            *)
ClearIfStale == IF report = "room" THEN Clear ELSE UNCHANGED slot

StoreUsage ==
    /\ report # "none" /\ report' = "none"
    /\ ClearIfStale
    /\ UNCHANGED <<account, reset, talk, welcome, told>>

(* A login process ends well: the account in the home is the new one.        *)
LogIn(a) ==
    /\ ~welcome /\ welcome' = TRUE
    /\ account' = a
    /\ slot' = IF Cooling THEN [slot EXCEPT !.before = TRUE] ELSE slot
    /\ UNCHANGED <<reset, talk, report, told>>

(* process(): the cooldown is cleared, then the user is told.                *)
Welcome ==
    /\ welcome /\ welcome' = FALSE
    /\ Clear
    /\ UNCHANGED <<account, reset, talk, report, told>>

-----------------------------------------------------------------------------
Down(n) == IF n > 0 THEN n - 1 ELSE 0

TimePasses ==
    /\ reset' = [a \in Account |-> Down(reset[a])]
    /\ slot' = IF slot.left > 1 THEN [slot EXCEPT !.left = Down(slot.left), !.probe = Down(slot.probe)] ELSE NoCooldown
    /\ told' = [told EXCEPT !.quiet = IF @ < ProbeGap THEN @ + 1 ELSE @]
    /\ UNCHANGED <<account, talk, report, welcome>>

(* An account runs out; another has quota.                                   *)
RunOut(a) ==
    /\ reset[a] = 0 /\ \A p \in Project : talk[p].at # "limited"
    /\ reset' \in {[reset EXCEPT ![a] = n] : n \in 1..MaxReset}
    /\ UNCHANGED <<account, slot, talk, report, welcome, told>>

LimitNext ==
    \/ \E p \in Project :
        \/ Ask(p) \/ ReadEmail(p) \/ Decide(p)
        \/ GoesWell(p) \/ GoesBadly(p) \/ HitLimit(p) \/ Report(p)
    \/ ReadUsage \/ StoreUsage \/ Welcome \/ TimePasses
    \/ \E a \in Account : LogIn(a) \/ RunOut(a)

LimitSpec == LimitInit /\ [][LimitNext]_limitVars

-----------------------------------------------------------------------------
LimitTypeOK ==
    /\ account \in Account /\ reset \in [Account -> 0..MaxReset]
    /\ slot \in Open
    /\ talk \in [Project -> [at : {"idle", "asked", "read", "running", "limited"}, with : Mail]]
    /\ report \in {"none", "near", "room"} /\ welcome \in BOOLEAN
    /\ told \in [quiet : 0..ProbeGap, late : BOOLEAN, old : BOOLEAN]

(* A message is never turned away when no CLI has run and none has reported a *)
(* limit for the length of the probe interval: whoever writes then finds out   *)
(* whether the quota is back, however wrong the reset time read was.           *)
RefusedBriefly == ~told.late

(* Once process() has told the user that the new account is connected, no     *)
(* project is turned away over a cooldown that began before that login, also   *)
(* not one that had looked at the cooldown already.                           *)
NewAccountServed == ~told.old

(* Nobody is turned away longer than the cooldown's own rules say: both of      *)
(* these, while the projects of the account ask, report and log in at once.    *)
TurnedAwayFairly == RefusedBriefly /\ NewAccountServed
=============================================================================
