----------------------------- MODULE MCPipeline -----------------------------
(* A small instance of MessagePipeline: in the branch of a live meeting, a    *)
(* paragraph of it and a message to its secretary with nothing in it.         *)
EXTENDS MessagePipeline

CONSTANTS n, live, p

MCProjectOf == [x \in Msgs |-> p]
=============================================================================
