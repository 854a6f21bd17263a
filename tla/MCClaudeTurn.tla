---------------------------- MODULE MCClaudeTurn ----------------------------
(* Small instances of ClaudeTurn: turns that outnumber the permits, and two  *)
(* seats to move between.                                                    *)
EXTENDS ClaudeTurn
=============================================================================
