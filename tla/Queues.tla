------------------------------- MODULE Queues -------------------------------
(***************************************************************************)
(* Queues of messages whose receiver takes them out where it finds one that*)
(* matches.                                                                *)
(***************************************************************************)
EXTENDS Naturals, Sequences, FiniteSets

CountIn(seq, x) == Cardinality({i \in DOMAIN seq : seq[i] = x})

Without(q, i) == SubSeq(q, 1, i - 1) \o SubSeq(q, i + 1, Len(q))
=============================================================================
