------------------------------ MODULE MCRelogin ------------------------------
(* A small instance of Relogin; its bounds are in the cfg.                    *)
EXTENDS Relogin
=============================================================================
