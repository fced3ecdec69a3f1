------------------------------- MODULE Calls -------------------------------
(***************************************************************************)
(* What a call of a communication function makes UCX do, seen from one     *)
(* rank: the peers it sends to, the slots of its receive buffer it posts   *)
(* receives for, and whether it waits for each send.                       *)
(*                                                                         *)
(* Every function of the runtime uses one tag for all peers and the full   *)
(* tag mask, so the peer a slot is meant for is only a comment in the code:*)
(* "from" records it, and no receive can depend on it.                     *)
(***************************************************************************)
EXTENDS Naturals, Sequences

(***************************************************************************)
(* tag    the tag of every message the call sends                          *)
(* takes  the tag of its receives, the same tag but for osu_bibw           *)
(* to     the destinations, in the order of the send loop                  *)
(* from   the peer each receive is meant for, in the order they are posted *)
(* waits  whether a send is waited for: "never", its request is dropped;   *)
(*        "each", before the next one is made; "all", when all are made    *)
(* keep   TRUE if what is received reaches the caller's buffer             *)
(***************************************************************************)

(* Send to every destination without waiting, then receive. *)
Exchange(tag, to, from) ==
  [tag |-> tag, takes |-> tag, to |-> to, from |-> from,
   waits |-> "never", keep |-> TRUE]

(* Post the receives, send to each destination and wait, wait for all. *)
Awaited(call) == [call EXCEPT !.waits = "each"]

(* A non-blocking call that receives into buffers dropped at its return. *)
Dropped(call) == [call EXCEPT !.keep = FALSE]

(* "for peer in 0..size { if peer != rank { ... } }" *)
PeersOf(r, n) == [k \in 1 .. n-1 |-> IF k - 1 < r THEN k - 1 ELSE k]

(* Nothing to do: a job of one rank, or a root without peers. *)
NoPeers == <<>>

ToAll(tag, r, n) == Exchange(tag, PeersOf(r, n), PeersOf(r, n))

RootSends(tag, r, n, root) ==
  IF r = root THEN Exchange(tag, PeersOf(r, n), NoPeers)
              ELSE Exchange(tag, NoPeers, <<root>>)

RootReceives(tag, r, n, root) ==
  IF r = root THEN Exchange(tag, NoPeers, PeersOf(r, n))
              ELSE Exchange(tag, <<root>>, NoPeers)

(***************************************************************************)
(* rank.wrapping_sub(1).rem_euclid(size) on usize.  The word has 2^64      *)
(* values; 2^4 leaves the same remainder for every size up to 9.           *)
(***************************************************************************)
UsizeValues == 2^4

WrappingPrev(r, n) == IF r = 0 THEN (UsizeValues - 1) % n ELSE (r - 1) % n

NextRank(r, n) == (r + 1) % n
=============================================================================
