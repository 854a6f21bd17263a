------------------------------ MODULE MCTunnel ------------------------------
(***************************************************************************)
(* Small instances of three parts that share no state: the tunnel of a      *)
(* user's home portal (TunnelHealth, an hour being six checks long), the   *)
(* meetings that portal takes in (Meetings), and the usage banners of two   *)
(* cloud users (CloudUsage).  One behaviour is about one of them, its       *)
(* subject, and the others rest.                                           *)
(***************************************************************************)
EXTENDS TunnelHealth, Meetings, CloudUsage

CONSTANTS u, v

TwoUsers == <<u, v>>

VARIABLE subject
portalVars == <<subject, vars, meetingVars, usageVars>>

PortalInit ==
    /\ subject \in {"tunnel", "meeting", "usage"}
    /\ Init /\ MeetingInit /\ UsageInit
    /\ subject # "meeting" => client.way = "live"
    /\ subject # "tunnel" => world = "ok"

PortalNext ==
    /\ UNCHANGED subject
    /\ \/ subject = "tunnel" /\ Next /\ UNCHANGED <<meetingVars, usageVars>>
       \/ subject = "meeting" /\ MeetingNext /\ UNCHANGED <<vars, usageVars>>
       \/ subject = "usage" /\ UsageNext /\ UNCHANGED <<vars, meetingVars>>

OfTunnel == subject = "tunnel"
OfMeeting == subject = "meeting"
OfUsage == subject = "usage"

(* The fairness of TunnelHealth, MeetingFairness and UsageFairness, each    *)
(* for its subject.                                                        *)
PortalSpec ==
    /\ PortalInit /\ [][PortalNext]_portalVars
    /\ WF_vars(OfTunnel /\ Check)
    /\ WF_meetingVars(OfMeeting /\ Browser)
    /\ \A j \in Process : WF_meetingVars(OfMeeting /\ ProcessStep(j))
    /\ \A j \in Jobs : WF_meetingVars(OfMeeting /\ AskStep(j))
    /\ WF_meetingVars(OfMeeting /\ SweepList) /\ WF_meetingVars(OfMeeting /\ SweepStep)
    /\ WF_meetingVars(OfMeeting /\ AutoList) /\ WF_meetingVars(OfMeeting /\ AutoJudge)
    /\ SF_meetingVars(OfMeeting /\ Age)
    /\ WF_usageVars(OfUsage /\ UsageStep) /\ WF_usageVars(OfUsage /\ PollFlags)
    /\ \A w \in Steady :
        /\ SF_usageVars(OfUsage /\ \E ok \in BOOLEAN : Collected(w, ok))
        /\ SF_usageVars(OfUsage /\ Lower(TRUE) /\ Here = w)
=============================================================================
