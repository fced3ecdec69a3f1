----------------------------- MODULE MCStartup -----------------------------
(* Startup for TLC: every step of init_ucc may fail on every rank.         *)
EXTENDS Startup
=============================================================================
