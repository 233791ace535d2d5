------------------------------ MODULE BatchMC -------------------------------
(***************************************************************************)
(* Instances of BatchConvert: the first or the second key of the listing   *)
(* cannot be converted when its file is partial.                           *)
(***************************************************************************)
EXTENDS BatchConvert, TLC

CONSTANTS k1, k2, c1, c2

MCPlace == (k1 :> 1) @@ (k2 :> 2)

MCRaises == {<<k2, "partial">>}

MCFirstRaises == {<<k1, "partial">>}
=============================================================================
