------------------------------ MODULE WineLists ------------------------------
(***************************************************************************)
(* What the repositories promise about the lists a wine can be in: the     *)
(* cellar, the archive and the wishlist, each changed by one step of its   *)
(* own. A wine leaves the cellar only into the archive, and the archive    *)
(* only into the cellar or by being discarded. A wine that is given up is  *)
(* in no list the promise is about.                                        *)
(***************************************************************************)
CONSTANT Wine

VARIABLES inCellar, inArchive, inWishlist, givenUp

lists == <<inCellar, inArchive, inWishlist, givenUp>>

ListsInit ==
    /\ inCellar = {} /\ inArchive = {} /\ inWishlist = {}
    /\ givenUp = {}

(* Saved, moved from the wishlist, or restored.                            *)
Keep(w) ==
    /\ inCellar' = inCellar \cup {w}
    /\ inArchive' = inArchive \ {w}
    /\ UNCHANGED <<inWishlist, givenUp>>

(* Deleted on a page that shows the wine, even when it has left the cellar *)
(* since.                                                                  *)
Archive(w) ==
    /\ inCellar' = inCellar \ {w}
    /\ inArchive' = inArchive \cup {w}
    /\ UNCHANGED <<inWishlist, givenUp>>

Discard(w) ==
    /\ w \in inArchive
    /\ inArchive' = inArchive \ {w}
    /\ UNCHANGED <<inCellar, inWishlist, givenUp>>

Wish(w) ==
    /\ inWishlist' = inWishlist \cup {w}
    /\ UNCHANGED <<inCellar, inArchive, givenUp>>

Unwish(w) ==
    /\ inWishlist' = inWishlist \ {w}
    /\ UNCHANGED <<inCellar, inArchive, givenUp>>

GiveUp(w) ==
    /\ givenUp' = givenUp \cup {w}
    /\ inCellar' = inCellar \ {w}
    /\ inArchive' = inArchive \ {w}
    /\ inWishlist' = inWishlist \ {w}

ListsNext ==
    \E w \in Wine \ givenUp :
        Keep(w) \/ Archive(w) \/ Discard(w) \/ Wish(w) \/ Unwish(w) \/ GiveUp(w)

ListsSpec == ListsInit /\ [][ListsNext]_lists

=============================================================================
