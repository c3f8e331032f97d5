----------------------------- MODULE MCLocation ------------------------------
EXTENDS LocationString
(* Rack; Rack > 1; Rack > and A ; (which separate only with the text after *)
(* them); > A; Spot 1; Rack with a blank at its end; the name of the       *)
(* unassigned cabinet.                                                     *)
SomeNames ==
    {<<"Rack">>, <<"Rack", " ", ">", " ", "1">>, <<"Rack", " ", ">">>,
     <<"A", " ", ";">>, <<">", " ", "A">>, <<"Spot", " ", "1">>,
     <<"Rack", " ">>, <<"Unassigned">>}
=============================================================================
