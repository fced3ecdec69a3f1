----------------------------- MODULE MCBarrier -----------------------------
(* Barrier for TLC: all four properties on three ranks and three calls.    *)
EXTENDS Barrier
=============================================================================
