---------------------------- MODULE MessageSizes ----------------------------
(***************************************************************************)
(* message_sizes (common/src/cli.rs): the sizes a benchmark runs through,  *)
(* from the smallest to the largest one asked for.  The code collects them *)
(* in a vector; a benchmark then takes them one by one, so they can as well*)
(* be computed one by one.                                                 *)
(***************************************************************************)
EXTENDS Naturals

CONSTANTS
  LargeMessageSize,   \* up to here a size is multiplied, above it is added to
  MessageSizeIncr,    \* by which a size grows, -m MIN:MAX:INCR
  UsizeValues,        \* number of values of a usize
  MinSizes, MaxSizes  \* the smallest and largest sizes considered, -m MIN:MAX

(***************************************************************************)
(* The code checks none of this.  With an increment of 0 or 1 the vector   *)
(* grows until memory is exhausted, and so it does when a size wraps.      *)
(***************************************************************************)
ASSUME SizesAssumption ==
  /\ LargeMessageSize \in Nat
  /\ MessageSizeIncr \in Nat \ {0, 1}
  /\ UsizeValues \in Nat \ {0}
  /\ MinSizes \subseteq Nat /\ MaxSizes \subseteq Nat
  /\ LargeMessageSize * MessageSizeIncr < UsizeValues
  /\ \A max \in MaxSizes : max + MessageSizeIncr < UsizeValues
  /\ 1 < UsizeValues

(* Fault: size 0 is multiplied like any other. *)
GrowWithoutZero(size) ==
  IF size <= LargeMessageSize THEN (size * MessageSizeIncr) % UsizeValues
                              ELSE (size + MessageSizeIncr) % UsizeValues

(* Fault: sizes are multiplied however large they are. *)
GrowByFactor(size) ==
  IF size = 0 THEN 1 ELSE (size * MessageSizeIncr) % UsizeValues

(* The next message size: a usize, which wraps silently in a release build. *)
Grow(size) ==
  IF size = 0 THEN 1
  ELSE IF size <= LargeMessageSize THEN (size * MessageSizeIncr) % UsizeValues
                                   ELSE (size + MessageSizeIncr) % UsizeValues
=============================================================================
