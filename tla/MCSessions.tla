----------------------------- MODULE MCSessions -----------------------------
(***************************************************************************)
(* A small instance of SessionStore: a conversation and a team member, each  *)
(* with a long session from an earlier run.  A behaviour has a pre-save or a *)
(* request for a reset, not both.                                            *)
(***************************************************************************)
EXTENDS SessionStore

CONSTANTS p, m

EarlierSessions == [k \in {p, m} |-> [sid |-> IF k = p THEN 1 ELSE 2, msgs |-> MaxMsgs]]

OneExtra == presaves' + requested' <= 1

SessionsSpec == StoreInit /\ [][StoreNext /\ OneExtra]_storeVars /\ StoreFairness
=============================================================================
