------------------------------- MODULE MCTeam -------------------------------
(***************************************************************************)
(* Small instances of three parts of the daemon that share no state: a     *)
(* message to a team of two with one permit (TeamTurn), a summoned session *)
(* (Summons), and the daemon's process with a second one started by hand   *)
(* (DaemonShell).  One behaviour is about one of them, its subject, and    *)
(* the others rest.                                                        *)
(***************************************************************************)
EXTENDS TeamTurn, Summons, DaemonShell

CONSTANTS t, a, b, s1, e1, e2, launchd, hand

VARIABLE subject
partVars == <<subject, vars, summonVars, shellVars>>

PartInit ==
    /\ subject \in {"team", "summon", "shell"}
    /\ Init /\ SummonInit /\ ShellInit

PartNext ==
    \/ subject = "team" /\ Next /\ UNCHANGED <<subject, summonVars, shellVars>>
    \/ subject = "summon" /\ SummonNext /\ UNCHANGED <<subject, vars, shellVars>>
    \/ subject = "shell" /\ ShellNext /\ UNCHANGED <<subject, vars, summonVars>>

OfTeam == subject = "team"
OfSummon == subject = "summon"
OfShell == subject = "shell"

(* TeamFairness, SummonFairness and ShellFairness, each for its subject.   *)
PartSpec ==
    /\ PartInit /\ [][PartNext]_partVars
    /\ \A u \in Turns :
        /\ WF_vars(OfTeam /\ Team(u))
        /\ WF_vars(OfTeam /\ \E r \in Runs : Start(u, r))
        /\ WF_vars(OfTeam /\ \E r \in Runs : Say(u, r) \/ Show(u, r))
    /\ WF_vars(OfTeam /\ Restart)
    /\ WF_summonVars(OfSummon /\ NextLife)
    /\ \A s \in Summoned : WF_summonVars(OfSummon /\ Poll(s)) /\ WF_summonVars(OfSummon /\ Thread(s))
    /\ WF_shellVars(OfShell /\ Launch(Service))
    /\ \A p \in Procs :
        /\ WF_shellVars(OfShell /\ ProcStep(p))
        /\ WF_shellVars(OfShell /\ Updates(p))
=============================================================================
