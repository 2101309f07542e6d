--------------------------- MODULE MCLayerErasure ---------------------------
(* Small instances: a capture filed in layer hr, a public operation that names *)
(* a page of ops and sweeps links in hr and ops, the same original bytes for   *)
(* both, and a commit somebody else pushed into ops.                           *)
EXTENDS LayerErasure

CONSTANTS hr, ops, public, a, b, x

MCLayers == {hr, ops, public}
MCCaptures == {a, b}
MCLayerOf == a :> hr @@ b :> public
MCNames == a :> {} @@ b :> {ops}
MCTouches == [c \in MCCaptures \cup Outside |->
                 CASE c = a -> {hr} [] c = b -> {hr, ops} [] OTHER -> {ops}]
MCBlob == a :> 1 @@ b :> 1

\* The crashes and failing steps, the requests and the outside pushes of one behaviour.
Bounded == faults + requests + Cardinality({i \in DOMAIN remote : remote[i].cap \in Outside}) <= 3
=============================================================================
