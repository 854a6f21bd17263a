------------------------------ MODULE MCCloud ------------------------------
(* Small instances of CloudWorker: c1 and c2 are of one conversation, d1 of  *)
(* another conversation of the same user.                                    *)
EXTENDS CloudWorker

CONSTANTS c1, c2, d1, chat, desk, owner

MCKeys == {chat, desk}
MCKeyOf == [m \in Msgs |-> IF m = d1 THEN desk ELSE chat]
MCOwnerOf == [k \in MCKeys |-> owner]
=============================================================================
