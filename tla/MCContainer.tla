----------------------------- MODULE MCContainer ----------------------------
(***************************************************************************)
(* Small instances of two parts that share no state: a user's container    *)
(* with a turn, a batch, a hand-off and the round of keep_services         *)
(* (UserContainer), and a project's periodic task (Heartbeat).  One        *)
(* behaviour is about one of them, its subject, and the other rests.       *)
(***************************************************************************)
EXTENDS UserContainer, Heartbeat

CONSTANTS t, b, h, k

VARIABLE subject
aroundVars == <<subject, containerVars, hbVars>>

AroundInit ==
    /\ subject \in {"container", "heartbeat"}
    /\ ContainerInit /\ HbInit
    /\ subject # "heartbeat" => ~work /\ ~limited
    /\ subject # "container" => ~alwaysOn /\ pod = "none" /\ tier = "config"

AroundNext ==
    /\ UNCHANGED subject
    /\ \/ subject = "container" /\ ContainerNext /\ UNCHANGED hbVars
       \/ subject = "heartbeat" /\ HbNext /\ UNCHANGED containerVars

OfContainer == subject = "container"
OfHeartbeat == subject = "heartbeat"

(* The fairness of UserContainer and HbFairness, each for its subject.     *)
AroundSpec ==
    /\ AroundInit /\ [][AroundNext]_aroundVars
    /\ \A c \in Client :
        /\ WF_containerVars(OfContainer /\ at[c] # "idle" /\ Ensure(c))
        /\ WF_containerVars(OfContainer /\ (Exec(c) \/ End(c)))
    /\ WF_containerVars(OfContainer /\ (ReapStop \/ ReapUnwedge))
    /\ \A c \in Keepers :
        /\ WF_containerVars(OfContainer /\ KeepServices(c))
        /\ SF_containerVars(OfContainer /\ Look(c))
    /\ WF_hbVars(OfHeartbeat /\ Beats) /\ WF_hbVars(OfHeartbeat /\ Scouts)
    /\ WF_hbVars(OfHeartbeat /\ Worker)
    /\ WF_hbVars(OfHeartbeat /\ Minute) /\ WF_hbVars(OfHeartbeat /\ CooledDown)
=============================================================================
