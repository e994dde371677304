----------------------------- MODULE MCBacklight -----------------------------
(* Backlight for TLC: every constant is given in the .cfg.                  *)
EXTENDS Backlight
=============================================================================
