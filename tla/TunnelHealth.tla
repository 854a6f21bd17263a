---------------------------- MODULE TunnelHealth ----------------------------
(***************************************************************************)
(* Self-healing of the tunnel: _check_cloudflared_health and what it calls, *)
(* scripts/claude_daemon.py, run by the main loop once a minute.  One step  *)
(* is one check.  The world the check looks at changes between checks as it *)
(* likes.                                                                  *)
(*                                                                         *)
(* Time stamps are kept as ages in checks, each up to the age from which on *)
(* the code no longer tells it from an older one; the counters likewise.    *)
(***************************************************************************)
EXTENDS Integers, FiniteSets

CONSTANTS
    FailThreshold,  \* _TUNNEL_FAIL_THRESHOLD
    KickMax,        \* _TUNNEL_KICK_MAX_PER_HOUR
    KickWindow,     \* checks in an hour
    OpenAfter,      \* _CB_OPEN_AFTER, in checks
    HalfOpenEvery,  \* _CB_HALFOPEN_EVERY, in checks
    ChatAfter,      \* _EXHAUSTION_CHAT_AFTER
    ChatCooldown,   \* _EXHAUSTION_CHAT_COOLDOWN, in checks
    ReportEvery,    \* a long exhaustion is reported every so many checks
    MayLose         \* whether a report to the server may be lost

ASSUME TunnelAssumption ==
    /\ {FailThreshold, KickMax, KickWindow, OpenAfter, HalfOpenEvery,
        ChatAfter, ChatCooldown} \subseteq Nat \ {0}
    /\ KickWindow > 1
    /\ ReportEvery \in Nat /\ ReportEvery > 3
    /\ ChatAfter <= 3
    /\ MayLose \in BOOLEAN

VARIABLES
    world,          \* what a check would find now
    cb,             \* _cb_state
    failAge,        \* age of _cb_fail_since, 0 for none
    probeAge,       \* age of _cb_last_probe_ts
    kickAges,       \* ages of _tunnel_kick_times
    unreachable,    \* _tunnel_unreachable_streak
    exhaustion,     \* _tunnel_exhaustion_streak
    recoverAge,     \* age of _last_recover_ts
    recoverStreak,  \* _recover_streak
    chatAge,        \* age of _last_exhaustion_chat_ts
    chatHeard,      \* history: the server took the last chat notice
    alarm,          \* tunnel_health, as the server has it
    sinceOk         \* history: age of the last check that found the tunnel well

breaker == <<cb, failAge, probeAge>>
recovering == <<recoverAge, recoverStreak>>
vars == <<world, breaker, kickAges, unreachable, exhaustion, recovering, chatAge,
          chatHeard, alarm, sinceOk>>

(* "failing": the edge does not reach the tunnel, the portal answers locally; *)
(* "portalDown": neither; "exhausted", "localExhausted": the outer or only    *)
(* the local probe fails for want of ports, memory or descriptors.           *)
Worlds == {"dead", "ok", "failing", "portalDown", "exhausted", "localExhausted"}

MaxBackoff == 5                             \* 300 seconds, in checks
Least(a, b) == IF a < b THEN a ELSE b
BackoffChecks == (Least(300, 20 * 2^recoverStreak) + 59) \div 60

Older(age, cap) == Least(age + 1, cap)
OlderFail == IF failAge = 0 THEN 0 ELSE Older(failAge, OpenAfter)
OlderKicks == {k + 1 : k \in {a \in kickAges : a + 1 < KickWindow}}

Init ==
    /\ world \in Worlds
    /\ cb = "closed" /\ failAge = 0 /\ probeAge = HalfOpenEvery
    /\ kickAges = {} /\ unreachable = 0 /\ exhaustion = 0
    /\ recoverAge = MaxBackoff /\ recoverStreak = 0
    /\ chatAge = ChatCooldown /\ chatHeard = FALSE
    /\ alarm = "none"
    /\ sinceOk = 0

WorldChanges ==
    /\ world' \in Worlds \ {world}
    /\ UNCHANGED <<breaker, kickAges, unreachable, exhaustion, recovering, chatAge,
                   chatHeard, alarm, sinceOk>>

-----------------------------------------------------------------------------
(* Pieces of a check.  Each says what becomes of its own variables when a    *)
(* minute passes as well.                                                    *)

\* _report_tunnel_health: sent once, and a failure is not noticed.
Report(state) == \/ alarm' = state
                 \/ MayLose /\ UNCHANGED alarm

\* _recover_home_portal, with its exponential backoff.
RecoverHomePortal ==
    IF recoverAge < BackoffChecks
    THEN recoverAge' = Older(recoverAge, MaxBackoff) /\ UNCHANGED recoverStreak
    ELSE recoverAge' = 1 /\ recoverStreak' = Least(recoverStreak + 1, 4)
NoRecovery == recoverAge' = Older(recoverAge, MaxBackoff) /\ UNCHANGED recoverStreak

NoKick == kickAges' = OlderKicks
NoChat == chatAge' = Older(chatAge, ChatCooldown) /\ UNCHANGED chatHeard
\* api_request answers None and does not raise when the notice is not taken, so
\* the cooldown starts either way.
Chat == chatAge' = 1 /\ chatHeard' \in IF MayLose THEN BOOLEAN ELSE {TRUE}
NoNews == NoChat /\ UNCHANGED alarm
StillDown == sinceOk' = Older(sinceOk, OpenAfter)

\* One more exhausted check: three, then every tenth; the count goes round.
NextStreak(n) == IF n = ReportEvery + 3 THEN 4 ELSE n + 1
NotifyExhaustion(n) ==
    IF n <= 3 \/ n = ReportEvery
    THEN /\ Report("exhausted")
         /\ IF n >= ChatAfter /\ chatAge >= ChatCooldown THEN Chat ELSE NoChat
    ELSE NoNews

\* The gate: an open breaker lets a trial probe through now and then.
Quiet == cb = "open" /\ probeAge < HalfOpenEvery
Gated == IF cb = "open" THEN "half_open" ELSE cb
OlderProbe == IF cb = "open" THEN 1 ELSE Older(probeAge, HalfOpenEvery)
KeepBreaker == cb' = Gated /\ probeAge' = OlderProbe

-----------------------------------------------------------------------------
(* _check_cloudflared_health, one action for each way through it.            *)

\* The connector's process is gone.
ConnectorDead ==
    /\ world = "dead"
    /\ UNCHANGED <<world, cb, exhaustion>>
    /\ probeAge' = Older(probeAge, HalfOpenEvery) /\ failAge' = OlderFail
    /\ unreachable' = 0
    /\ RecoverHomePortal
    /\ NoKick /\ NoNews /\ StillDown

SkipWhileOpen ==
    /\ world # "dead" /\ Quiet
    /\ UNCHANGED <<world, cb, unreachable, exhaustion>>
    /\ probeAge' = Older(probeAge, HalfOpenEvery) /\ failAge' = OlderFail
    /\ NoRecovery /\ NoKick /\ NoNews /\ StillDown

HealthyStillCounting ==
    /\ world = "ok" /\ ~Quiet
    /\ cb' = "closed" /\ probeAge' = OlderProbe /\ failAge' = OlderFail
    /\ unreachable' = 0 /\ exhaustion' = 0
    /\ recoverAge' = Older(recoverAge, MaxBackoff) /\ recoverStreak' = 0
    /\ IF cb # "closed" THEN Report("closed") /\ NoChat
       ELSE IF exhaustion > 0 THEN Report("closed") /\ chatAge' = ChatCooldown /\ UNCHANGED chatHeard
       ELSE NoNews
    /\ sinceOk' = 0
    /\ UNCHANGED world /\ NoKick
Healthy ==
    /\ world = "ok" /\ ~Quiet
    /\ cb' = "closed" /\ probeAge' = OlderProbe /\ failAge' = 0
    /\ unreachable' = 0 /\ exhaustion' = 0
    /\ recoverAge' = Older(recoverAge, MaxBackoff) /\ recoverStreak' = 0
    /\ IF cb # "closed" THEN Report("closed") /\ NoChat
       ELSE IF exhaustion > 0 THEN Report("closed") /\ chatAge' = ChatCooldown /\ UNCHANGED chatHeard
       ELSE NoNews
    /\ sinceOk' = 0
    /\ UNCHANGED world /\ NoKick

\* Not the tunnel's fault: nothing is touched, least of all the breaker.
ExhaustedOutside ==
    /\ world = "exhausted" /\ ~Quiet
    /\ exhaustion' = NextStreak(exhaustion)
    /\ NotifyExhaustion(exhaustion')
    /\ KeepBreaker /\ failAge' = OlderFail
    /\ UNCHANGED <<world, unreachable>>
    /\ NoRecovery /\ NoKick /\ StillDown

-----------------------------------------------------------------------------
(* From here on the outage is the tunnel's own, or the portal's.             *)

GenuineFailure ==
    /\ world \in {"failing", "portalDown", "localExhausted"} /\ ~Quiet
    /\ failAge' = IF failAge = 0 THEN 1 ELSE OlderFail
    /\ UNCHANGED world /\ StillDown
LongDown == failAge >= OpenAfter

OpenBreaker ==
    /\ GenuineFailure /\ Gated = "closed" /\ LongDown
    /\ cb' = "open" /\ probeAge' = 1
    /\ exhaustion' = 0
    /\ Report("open") /\ NoChat
    /\ UNCHANGED unreachable /\ NoRecovery /\ NoKick

HalfOpenFails ==
    /\ GenuineFailure /\ Gated = "half_open"
    /\ cb' = "open" /\ probeAge' = 1
    /\ exhaustion' = 0
    /\ UNCHANGED unreachable /\ NoRecovery /\ NoKick /\ NoNews

\* What is left is a breaker closed and a recent outage.
Acting == GenuineFailure /\ Gated = "closed" /\ ~LongDown /\ KeepBreaker

PortalDown ==
    /\ Acting /\ world = "portalDown"
    /\ exhaustion' = 0 /\ unreachable' = 0
    /\ RecoverHomePortal
    /\ NoKick /\ NoNews

\* The streak has just been reset, so here it is always the first.
ExhaustedInside ==
    /\ Acting /\ world = "localExhausted"
    /\ exhaustion' = 1 /\ UNCHANGED unreachable
    /\ NotifyExhaustion(1)
    /\ NoRecovery /\ NoKick

Zombie == Acting /\ world = "failing" /\ exhaustion' = 0 /\ NoNews
Confirmed == unreachable + 1 >= FailThreshold

CountFailure ==
    /\ Zombie /\ ~Confirmed
    /\ unreachable' = unreachable + 1
    /\ NoRecovery /\ NoKick

\* The count stays at the threshold or above: both mean confirmed.
KickBackoff ==
    /\ Zombie /\ Confirmed /\ Cardinality(kickAges) >= KickMax
    /\ unreachable' = FailThreshold
    /\ NoRecovery /\ NoKick

Kick ==
    /\ Zombie /\ Confirmed /\ Cardinality(kickAges) < KickMax
    /\ kickAges' = OlderKicks \cup {1}
    /\ unreachable' = 0
    /\ NoRecovery

KickFails ==
    /\ Zombie /\ Confirmed /\ Cardinality(kickAges) < KickMax
    /\ unreachable' = 0
    /\ RecoverHomePortal
    /\ NoKick

-----------------------------------------------------------------------------
Check ==
    \/ ConnectorDead \/ SkipWhileOpen \/ Healthy \/ ExhaustedOutside
    \/ OpenBreaker \/ HalfOpenFails \/ PortalDown \/ ExhaustedInside
    \/ CountFailure \/ KickBackoff \/ Kick \/ KickFails

Next == WorldChanges \/ Check

Spec == Init /\ [][Next]_vars

\* The main loop comes round every minute; exceptions in a check are caught.
FairSpec == Spec /\ WF_vars(Check)

-----------------------------------------------------------------------------
TypeOK ==
    /\ world \in Worlds
    /\ cb \in {"closed", "open", "half_open"}
    /\ failAge \in 0..OpenAfter /\ probeAge \in 1..HalfOpenEvery
    /\ kickAges \subseteq 1..(KickWindow - 1)
    /\ unreachable \in 0..FailThreshold
    /\ exhaustion \in 0..(ReportEvery + 3)
    /\ recoverAge \in 1..MaxBackoff /\ recoverStreak \in 0..4
    /\ chatAge \in 1..ChatCooldown /\ chatHeard \in BOOLEAN
    /\ alarm \in {"none", "closed", "open", "exhausted"}
    /\ sinceOk \in 0..OpenAfter

(* The breaker gives up on repairs only after the tunnel has not been found  *)
(* well for a whole OpenAfter, whatever else the checks met in between.      *)
OutageBeforeOpen == cb # "closed" => sinceOk >= OpenAfter

(* Restarting cloudflared cuts off whoever is using it: at most KickMax times *)
(* in an hour, and with at least FailThreshold failed checks for each.       *)
KickDiscipline ==
    /\ Cardinality(kickAges) <= KickMax
    /\ \A a, b \in kickAges : a < b => b - a >= FailThreshold

(* While the breaker is open, trial probes included, nothing restarts the    *)
(* connector.                                                                *)
KicksOnlyWhenClosed == [][1 \in kickAges' => cb = "closed"]_vars

(* A tunnel that is well again for good closes the breaker again, and for    *)
(* good, with no one's help.                                                 *)
BreakerCloses == <>[](world = "ok") => <>[](cb = "closed" /\ failAge = 0)

(* An exhaustion that lasts is written to the owner's chat, again and again  *)
(* as cooldowns end (lines 585-586: "what was detected must be told").       *)
CustomerTold == <>[](world = "exhausted") => []<>(chatAge < ChatCooldown)

(* An outage ends, or is told: when the tunnel is well for good the breaker is *)
(* closed for good, and an exhaustion that lasts is told again and again.    *)
HealedOrTold == BreakerCloses /\ CustomerTold

=============================================================================
