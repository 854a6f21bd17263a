------------------------------ MODULE MCManager ------------------------------
(* A small instance of ManagerLoop: a task given with /do, a /manager run, and *)
(* two lives of the daemon.                                                    *)
EXTENDS ManagerLoop

CONSTANT d
=============================================================================
