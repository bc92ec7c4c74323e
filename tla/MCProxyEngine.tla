--------------------------- MODULE MCProxyEngine ---------------------------
(***************************************************************************)
(* Instances of ProxyEngine for TLC.  Page a has a fingerprint of its own;  *)
(* b and c collide: same fingerprint, same 64-byte prefix, other contents;   *)
(* d collides with z in the fingerprint but not in the prefix, and the Bloom  *)
(* bits of a's fingerprint are covered by those of the other two.            *)
(***************************************************************************)
EXTENDS ProxyEngine, TLC

CONSTANTS z, a, b, c, d, fz, fa, fb, p0, p1, p2, t1, t2

MCFpOf == [x \in Pages |-> IF x \in {z, d} THEN fz ELSE IF x = a THEN fa ELSE fb]
MCPrefixOf == [x \in Pages |-> IF x = z THEN p0 ELSE IF x = d THEN p2 ELSE p1]
MCBloomOf == [f \in Fingerprints |-> IF f = fz THEN {1, 2} ELSE IF f = fa THEN {2, 3} ELSE {3, 4}]

(* Threads run the same code on offsets that nothing tells apart. *)
RealSymmetry == Permutations(Threads) \cup Permutations(Offsets)
=============================================================================
