----------------------------- MODULE MCLogTunnel -----------------------------
(* LogTunnel for TLC: every constant is given in the .cfg.                  *)
EXTENDS LogTunnel
=============================================================================
