------------------------------ MODULE MCSearch -------------------------------
EXTENDS WineSearch, TLC
CONSTANTS Some, Nothing
(* Two pages and a half for the empty text, a page and a half, no result. *)
Catalogue == (NoText :> 5) @@ (Some :> 3) @@ (Nothing :> 0)
=============================================================================
