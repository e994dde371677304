------------------------------ MODULE MCNetwork ------------------------------
(* Network for TLC: every constant is given in the .cfg.                    *)
EXTENDS Network
=============================================================================
