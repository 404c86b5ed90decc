------------------------- MODULE MCProjectVisibility -------------------------
(* A small instance of ProjectVisibility. *)
EXTENDS ProjectVisibility, TLC

CONSTANTS restore1, restore2, archive1

ActionOf == (restore1 :> "restore") @@ (restore2 :> "restore") @@ (archive1 :> "archive")
=============================================================================
