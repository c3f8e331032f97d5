---------------------------- MODULE CellarHistory ----------------------------
(***************************************************************************)
(* CellarStore with two history variables, to say which wines the          *)
(* operations without a transaction can lose and that they lose no other.  *)
(*                                                                         *)
(* owned  wines saved to the cellar and not permanently deleted since.     *)
(* raced  wines that changed lists between two statements of an operation  *)
(*        on them: after removeFromWishlist has looked into the cellar,    *)
(*        while permanentlyDelete runs, or after deleteWine has archived.  *)
(***************************************************************************)
EXTENDS CellarStore

VARIABLES owned, raced

historyVars == <<owned, raced>>

Window ==
    {"wishArchive", "wishErase", "unarchive", "archWishlist", "archCellar",
     "archErase", "free", "uncellar"}

Lists(w) == <<w \in cellar, w \in archive, w \in wishlist>>

(* Operation o on w is in its window and the step is not one of its own.   *)
Overtaken(o, w) ==
    /\ arg[o] = w
    /\ pc[o] \in Window
    /\ pc'[o] = pc[o]
    /\ Lists(w)' # Lists(w)

(* permanentlyDelete of w begins, and w is not in the cellar again.        *)
GivenUp(w) ==
    /\ w \notin cellar
    /\ \E o \in Op : pc[o] = "idle" /\ pc'[o] = "unarchive" /\ arg'[o] = w

HistoryStep ==
    /\ owned' = {w \in owned \cup cellar' : ~GivenUp(w)}
    /\ raced' = raced \cup {w \in Wine : \E o \in Op : Overtaken(o, w)}

CHInit == StoreInit /\ owned = {} /\ raced = {}

CHNext == StoreNext /\ HistoryStep

CHSpec == CHInit /\ [][CHNext]_<<storeVars, historyVars>>

(***************************************************************************)
(* A wine that was saved to the cellar stays in the cellar or in the       *)
(* archive until permanentlyDelete is asked for, through removals from the *)
(* wishlist, restores, stale archive lists, storage dialogs and kills      *)
(* between statements; only a wine that raced can be lost.                 *)
(***************************************************************************)
OwnedIsVisible == owned \ raced \subseteq cellar \cup archive

(***************************************************************************)
(* The hearts agree with the wishlist table: once no toggle or remove of a *)
(* wine is under way, WishlistCubit shows it exactly when it is wishlisted *)
(* (unless it raced), although its own loads interleave with all erases.   *)
(* This is within one database: a start-up download that replaces it after *)
(* the splash page has loaded the hearts (splash_page 48) is outside.      *)
(***************************************************************************)
WishlistShown ==
    \A w \in Wine \ raced :
        \/ \E o \in Op : arg[o] = w /\ pc[o] \in WishPC
        \/ w \in wished <=> w \in wishlist

(***************************************************************************)
(* The four repositories implement WineLists: the tables as the pages read *)
(* them (getArchivedWines leaves out what is in the cellar) change as if   *)
(* every operation were one step, although deleteWine, removeFromWishlist  *)
(* and permanentlyDelete are several statements that interleave and may be *)
(* cut short by the end of the process. Raced wines are given up.          *)
(***************************************************************************)
Kept == INSTANCE WineLists
            WITH inCellar <- cellar \ raced,
                 inArchive <- ArchivedWines \ raced,
                 inWishlist <- wishlist \ raced,
                 givenUp <- raced

KeepsLists == Kept!ListsSpec

(***************************************************************************)
(* "Only remove from all_wines if not referenced by cellar or archive"     *)
(* (wishlist_repository.dart, removeFromWishlist).                         *)
(***************************************************************************)
ErasesUnreferenced ==
    \A o \in Op : pc[o] = "wishErase" => arg[o] \notin cellar \cup archive

=============================================================================
