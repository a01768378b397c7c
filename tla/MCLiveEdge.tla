----------------------------- MODULE MCLiveEdge -----------------------------
(* One home page or one detail page over two traces; symmetry is not used, *)
(* because one of the traces is the watched one.                           *)
EXTENDS LiveEdge
=============================================================================
