-------------------------- MODULE ExportedStoreMC ---------------------------
(* Instances of ExportedStore: node a compiled twice and node b once, or once each. *)
EXTENDS ExportedStore, TLC

CONSTANTS a1, a2, b1, na, nb, t1, t2, v1, v2

TwoNodes == (a1 :> na) @@ (a2 :> na) @@ (b1 :> nb)
OneEach == (a1 :> na) @@ (b1 :> nb)

AnyQuery == {{v1, v2}, {v1}}
NoQuery == {{v1, v2}}
=============================================================================
