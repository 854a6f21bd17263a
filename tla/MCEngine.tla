------------------------------ MODULE MCEngine ------------------------------
(***************************************************************************)
(* Small instances of three parts that share no state: one turn on every    *)
(* engine, with its times scaled down (EngineRun); a cloud user with two     *)
(* projects and two accounts (CloudLimits); a cloud user logging in from two *)
(* projects (CloudLogin).  One behaviour is about one of them, its subject,  *)
(* and the others rest.                                                    *)
(***************************************************************************)
EXTENDS EngineRun, CloudLimits, CloudLogin

CONSTANTS p, q, x, y

AllEngines == {"claude", "codex", "gemini", "cloud"}

VARIABLE subject

TurnInit ==
    /\ subject \in {"engine", "limits", "login"}
    /\ Init /\ LimitInit /\ LoginInit
    /\ subject # "engine" => engine = "cloud" /\ stored = "none"
    /\ subject # "limits" => account = x
    /\ subject # "login" => contained /\ foreign

TurnNext ==
    /\ UNCHANGED subject
    /\ \/ subject = "engine" /\ Next /\ UNCHANGED <<limitVars, loginVars>>
       \/ subject = "limits" /\ LimitNext /\ UNCHANGED <<vars, loginVars>>
       \/ subject = "login" /\ LoginNext /\ UNCHANGED <<vars, limitVars>>

TurnSpec == TurnInit /\ [][TurnNext]_<<subject, vars, limitVars, loginVars>>
=============================================================================
