---------------------------- MODULE MCDispatcher ----------------------------
(***************************************************************************)
(* Small instances of two parts that share no state.                        *)
(*                                                                         *)
(* Dispatcher: two lanes, and a configured reserve that the constructor      *)
(* must clamp to one.  Project p has a person's message and an automatic     *)
(* one, q a person's, r an automatic one, so that lanes, reserve, projects    *)
(* and classes all contend.                                                *)
(*                                                                         *)
(* SiteManager: two projects published from one Mac, one of them built with  *)
(* Next.js, and two commands at a time.                                     *)
(*                                                                         *)
(* One behaviour is about one of them, its subject, and the other rests.     *)
(***************************************************************************)
EXTENDS Dispatcher, SiteManager

CONSTANTS h1, h2, a1, a2, p, q, r, blog, shop, i, j

MCMsgs == {h1, h2, a1, a2}
MCProjects == {p, q, r}
MCAutoMsgs == {a1, a2}
MCProjectOf == [m \in MCMsgs |-> IF m = h2 THEN q ELSE IF m = a2 THEN r ELSE p]

PublishedBefore == [s \in {blog, shop} |-> IF s = blog THEN 1 ELSE 0]

VARIABLE subject

MacInit ==
    /\ subject \in {"dispatcher", "sites"} /\ Init /\ SiteInit
    /\ subject # "sites" => sites = NoRegistry

MacNext ==
    /\ UNCHANGED subject
    /\ \/ subject = "dispatcher" /\ Next /\ UNCHANGED siteVars
       \/ subject = "sites" /\ SiteNext /\ UNCHANGED vars

\* The fairness of Dispatcher and of SiteManager, each for its subject.
OfDispatcher == subject = "dispatcher"
OfSites == subject = "sites"

MacSpec ==
    /\ MacInit /\ [][MacNext]_<<subject, vars, siteVars>>
    /\ WF_vars(OfDispatcher /\ Dispatch)
    /\ \A m \in Msgs :
        WF_vars(OfDispatcher /\ Enqueue(m)) /\ WF_vars(OfDispatcher /\ PoolStep(m))
    /\ \A s \in Site : WF_siteVars(OfSites /\ Starts(s)) /\ WF_siteVars(OfSites /\ Binds(s))
    /\ \A c \in Command : WF_siteVars(OfSites /\ CommandStep(c))
=============================================================================
