---------------------------- MODULE CellarStore -----------------------------
(***************************************************************************)
(* The tables of database_service.dart (_onCreate) and the repositories    *)
(* that change them, with the two cubits that outlive a page. A wine is in *)
(* all_wines and may be referenced by cellar_wines, wishlist, archive and  *)
(* purchase_history; positions reference cellar_wines. PRAGMA foreign_keys *)
(* is ON: deletes cascade and an insert without its parent throws.         *)
(*                                                                         *)
(* A transaction is one step. An operation of several statements without a *)
(* transaction is an Op that other operations interleave with: pc names    *)
(* the statement it is about to execute. sqflite executes the statements   *)
(* of the one connection in the order they were issued. The columns of a   *)
(* wine, its quantity and its single spots are left out here.              *)
(***************************************************************************)

CONSTANTS
    Wine,
    Op,    \* slots for operations that run at the same time
    None   \* no wine

ASSUME StoreAssumption == None \notin Wine

VARIABLES
    allWines, cellar, wishlist, archive,  \* the wine ids of these tables
    bought,   \* wines with rows in purchase_history
    placed,   \* wines some position refers to
    pc, arg,  \* pc[o], arg[o]: next statement of operation o and its wine
    found,    \* found[o]: whether a query of o has found a reference
    snap,     \* snap[o]: the positions a storage dialog has loaded
    wished,   \* WishlistCubit: the wines of WishlistLoaded
    listed    \* ArchiveCubit: the wines of ArchiveLoaded

tables == <<allWines, cellar, wishlist, archive, bought, placed>>
ops == <<pc, arg, found, snap>>
cubits == <<wished, listed>>
storeVars == <<tables, ops, cubits>>

WishPC == {"unwish", "wishCellar", "wishArchive", "wishErase", "wishLoad"}
ArchivePC == {"unarchive", "archWishlist", "archCellar", "archErase", "archLoad"}
DeletePC == {"archive", "free", "uncellar"}
DialogPC == {"dialog", "confirm", "freeSpots", "resave"}
OpPC == {"idle"} \cup WishPC \cup ArchivePC \cup DeletePC \cup DialogPC

StoreTypeOK ==
    /\ allWines \subseteq Wine
    /\ cellar \subseteq Wine
    /\ wishlist \subseteq Wine
    /\ archive \subseteq Wine
    /\ bought \subseteq Wine
    /\ placed \subseteq Wine
    /\ pc \in [Op -> OpPC]
    /\ arg \in [Op -> Wine \cup {None}]
    /\ \A o \in Op : pc[o] # "idle" => arg[o] \in Wine
    /\ found \in [Op -> BOOLEAN]
    /\ snap \in [Op -> SUBSET Wine]
    /\ wished \subseteq Wine
    /\ listed \subseteq Wine

StoreInit ==
    /\ allWines = {} /\ cellar = {} /\ wishlist = {} /\ archive = {}
    /\ bought = {} /\ placed = {}
    /\ pc = [o \in Op |-> "idle"]
    /\ arg = [o \in Op |-> None]
    /\ found = [o \in Op |-> FALSE]
    /\ snap = [o \in Op |-> {}]
    /\ wished = {} /\ listed = {}

(* Operation o on wine w begins, goes on to another statement, or ends.    *)
Begin(o, w, label) ==
    /\ pc[o] = "idle"
    /\ pc' = [pc EXCEPT ![o] = label]
    /\ arg' = [arg EXCEPT ![o] = w]

Continue(o, from, label) ==
    /\ pc[o] = from
    /\ pc' = [pc EXCEPT ![o] = label]
    /\ UNCHANGED arg

Finish(o) ==
    /\ pc' = [pc EXCEPT ![o] = "idle"]
    /\ arg' = [arg EXCEPT ![o] = None]
    /\ found' = [found EXCEPT ![o] = FALSE]
    /\ snap' = [snap EXCEPT ![o] = {}]

-----------------------------------------------------------------------------
(* MainRepository                                                          *)

(* The transaction of saveWine: insert-or-ignore and update, so that the   *)
(* rows that refer to the wine stay.                                       *)
PutInCellar(w) ==
    /\ allWines' = allWines \cup {w}
    /\ cellar' = cellar \cup {w}

SaveWine(w) ==
    /\ PutInCellar(w)
    /\ UNCHANGED <<wishlist, archive, bought, placed, ops, cubits>>

(* deleteWine, from a page that may show the wine when it has left the     *)
(* cellar: into the archive, off the positions, out of the cellar.         *)
DeleteWine(o, w) ==
    /\ Begin(o, w, "archive")
    /\ UNCHANGED <<tables, found, snap, cubits>>

(* A variant that leaves the archive for later.                            *)
InsertNothing(o) ==
    /\ arg[o] \in allWines
    /\ Continue(o, "archive", "free")
    /\ UNCHANGED <<tables, found, snap, cubits>>

InsertArchive(o) ==
    /\ arg[o] \in allWines
    /\ Continue(o, "archive", "free")
    /\ archive' = archive \cup {arg[o]}
    /\ UNCHANGED <<allWines, cellar, wishlist, bought, placed, found, snap, cubits>>

(* The wine has been erased meanwhile: the insert throws.                  *)
InsertArchiveThrows(o) ==
    /\ pc[o] = "archive"
    /\ arg[o] \notin allWines
    /\ Finish(o)
    /\ UNCHANGED <<tables, cubits>>

FreePositions(o) ==
    /\ Continue(o, "free", "uncellar")
    /\ placed' = placed \ {arg[o]}
    /\ UNCHANGED <<allWines, cellar, wishlist, archive, bought, found, snap, cubits>>

(* ON DELETE SET NULL frees positions taken since.                         *)
DeleteFromCellar(o) ==
    /\ pc[o] = "uncellar"
    /\ cellar' = cellar \ {arg[o]}
    /\ placed' = placed \ {arg[o]}
    /\ Finish(o)
    /\ UNCHANGED <<allWines, wishlist, archive, bought, cubits>>

(* savePurchaseRecord throws for a wine that is in no table.               *)
SavePurchaseRecord(w) ==
    /\ w \in allWines
    /\ bought' = bought \cup {w}
    /\ UNCHANGED <<allWines, cellar, wishlist, archive, placed, ops, cubits>>

(* deletePurchaseRecord of the only record of w.                           *)
DeletePurchaseRecord(w) ==
    /\ w \in bought
    /\ bought' = bought \ {w}
    /\ UNCHANGED <<allWines, cellar, wishlist, archive, placed, ops, cubits>>

-----------------------------------------------------------------------------
(* DELETE FROM all_wines with everything that refers to the wine.          *)

(* A variant without PRAGMA foreign_keys.                                  *)
EraseRow(w) ==
    /\ allWines' = allWines \ {w}
    /\ UNCHANGED <<cellar, wishlist, archive, bought, placed>>

Erase(w) ==
    /\ allWines' = allWines \ {w}
    /\ cellar' = cellar \ {w}
    /\ wishlist' = wishlist \ {w}
    /\ archive' = archive \ {w}
    /\ bought' = bought \ {w}
    /\ placed' = placed \ {w}

-----------------------------------------------------------------------------
(* WishlistRepository and WishlistCubit                                    *)

(* A variant of AddToWishlist whose caller does not load the list again.   *)
AddUnloaded(o, w) ==
    /\ w \notin wished
    /\ pc[o] = "idle"
    /\ allWines' = allWines \cup {w}
    /\ wishlist' = wishlist \cup {w}
    /\ UNCHANGED <<cellar, archive, bought, placed, ops, cubits>>

(* toggle of a wine without a heart: one transaction, then load.           *)
AddToWishlist(o, w) ==
    /\ w \notin wished
    /\ Begin(o, w, "wishLoad")
    /\ allWines' = allWines \cup {w}
    /\ wishlist' = wishlist \cup {w}
    /\ UNCHANGED <<cellar, archive, bought, placed, found, snap, cubits>>

(* toggle of a wine with a heart, or remove.                               *)
RemoveFromWishlist(o, w) ==
    /\ w \in wished
    /\ Begin(o, w, "unwish")
    /\ UNCHANGED <<tables, found, snap, cubits>>

(* A variant of MoveToCellar that only removes.                            *)
MoveNowhere(o, w) ==
    /\ w \in wished
    /\ Begin(o, w, "unwish")
    /\ UNCHANGED <<tables, found, snap, cubits>>

(* "Add to cellar" on the wishlist page: saveWine and remove are both      *)
(* called without await, the transaction first.                            *)
MoveToCellar(o, w) ==
    /\ w \in wished
    /\ PutInCellar(w)
    /\ Begin(o, w, "unwish")
    /\ UNCHANGED <<wishlist, archive, bought, placed, found, snap, cubits>>

DeleteFromWishlist(o) ==
    /\ Continue(o, "unwish", "wishCellar")
    /\ wishlist' = wishlist \ {arg[o]}
    /\ UNCHANGED <<allWines, cellar, archive, bought, placed, found, snap, cubits>>

WishQueryCellar(o) ==
    /\ Continue(o, "wishCellar", "wishArchive")
    /\ found' = [found EXCEPT ![o] = arg[o] \in cellar]
    /\ UNCHANGED <<tables, snap, cubits>>

(* A variant that forgets the archive.                                     *)
WishQueryNothing(o) ==
    /\ Continue(o, "wishArchive", IF found[o] THEN "wishLoad" ELSE "wishErase")
    /\ UNCHANGED <<tables, found, snap, cubits>>

WishQueryArchive(o) ==
    /\ Continue(o, "wishArchive",
                IF found[o] \/ arg[o] \in archive THEN "wishLoad" ELSE "wishErase")
    /\ UNCHANGED <<tables, found, snap, cubits>>

WishErase(o) ==
    /\ Continue(o, "wishErase", "wishLoad")
    /\ Erase(arg[o])
    /\ UNCHANGED <<found, snap, cubits>>

LoadWishlist(o) ==
    /\ pc[o] = "wishLoad"
    /\ wished' = wishlist
    /\ Finish(o)
    /\ UNCHANGED <<tables, listed>>

(* The wishlist page is shown; the load of its initState is one query.     *)
ShowWishlist ==
    /\ wished' = wishlist
    /\ UNCHANGED <<tables, ops, listed>>

-----------------------------------------------------------------------------
(* ArchiveRepository and ArchiveCubit                                      *)

(* getArchivedWines leaves out what is in the cellar again.                *)
ArchivedWines == archive \ cellar

(* The page is shown.                                                      *)
ShowArchive ==
    /\ listed' = ArchivedWines
    /\ UNCHANGED <<tables, ops, wished>>

(* restoreWine, one transaction: the row inserted OR REPLACE frees the     *)
(* positions of one that was there.                                        *)
RestoreWine(o, w) ==
    /\ w \in listed
    /\ w \in allWines
    /\ Begin(o, w, "archLoad")
    /\ archive' = archive \ {w}
    /\ cellar' = cellar \cup {w}
    /\ placed' = placed \ {w}
    /\ UNCHANGED <<allWines, wishlist, bought, found, snap, cubits>>

(* A wine erased since the list was loaded: the transaction is rolled back *)
(* and ArchiveError shows no list.                                         *)
RestoreThrows(w) ==
    /\ w \in listed
    /\ w \notin allWines
    /\ listed' = {}
    /\ UNCHANGED <<tables, ops, wished>>

PermanentlyDelete(o, w) ==
    /\ w \in listed
    /\ Begin(o, w, "unarchive")
    /\ UNCHANGED <<tables, found, snap, cubits>>

DeleteFromArchive(o) ==
    /\ Continue(o, "unarchive", "archWishlist")
    /\ archive' = archive \ {arg[o]}
    /\ UNCHANGED <<allWines, cellar, wishlist, bought, placed, found, snap, cubits>>

ArchiveQueryWishlist(o) ==
    /\ Continue(o, "archWishlist", "archCellar")
    /\ found' = [found EXCEPT ![o] = arg[o] \in wishlist]
    /\ UNCHANGED <<tables, snap, cubits>>

ArchiveQueryCellar(o) ==
    /\ Continue(o, "archCellar",
                IF found[o] \/ arg[o] \in cellar THEN "archLoad" ELSE "archErase")
    /\ UNCHANGED <<tables, found, snap, cubits>>

ArchiveErase(o) ==
    /\ Continue(o, "archErase", "archLoad")
    /\ Erase(arg[o])
    /\ UNCHANGED <<found, snap, cubits>>

LoadArchive(o) ==
    /\ pc[o] = "archLoad"
    /\ listed' = ArchivedWines
    /\ Finish(o)
    /\ UNCHANGED <<tables, wished>>

-----------------------------------------------------------------------------
(* StorageLocationDialog on the positions                                  *)

OpenDialog(o, w) ==
    /\ Begin(o, w, "dialog")
    /\ snap' = [snap EXCEPT ![o] = placed]
    /\ UNCHANGED <<tables, found, cubits>>

(* "Save" stores the wine before anything is checked or confirmed.         *)
SaveLocation(o) ==
    /\ Continue(o, "dialog", "confirm")
    /\ PutInCellar(arg[o])
    /\ UNCHANGED <<wishlist, archive, bought, placed, found, snap, cubits>>

(* In remove mode, for a wine with positions, nothing is stored first.     *)
SaveLocationRemoveMode(o) ==
    /\ arg[o] \in snap[o]
    /\ Continue(o, "dialog", "confirm")
    /\ UNCHANGED <<tables, found, snap, cubits>>

(* Not confirmed, or too many spots: the dialog stays, with what it loaded.*)
Decline(o) ==
    /\ Continue(o, "confirm", "dialog")
    /\ UNCHANGED <<tables, found, snap, cubits>>

(* A variant that drops what the dialog holds and leaves it on the screen. *)
CancelDialogOpen(o) ==
    /\ pc[o] = "dialog"
    /\ arg' = [arg EXCEPT ![o] = None]
    /\ snap' = [snap EXCEPT ![o] = {}]
    /\ UNCHANGED <<tables, pc, found, cubits>>

CancelDialog(o) ==
    /\ pc[o] = "dialog"
    /\ Finish(o)
    /\ UNCHANGED <<tables, cubits>>

(* What saveCabinet writes: the positions as they were loaded, with the    *)
(* wine added to some or taken off all of them.                            *)
SavedPositions(o) == {snap[o] \cup {arg[o]}, snap[o] \ {arg[o]}}

(* A variant that does not care for positions of wines that are gone.      *)
SaveCabinetUnchecked(o) ==
    /\ Continue(o, "confirm", "resave")
    /\ placed' \in SavedPositions(o)
    /\ UNCHANGED <<allWines, cellar, wishlist, archive, bought, found, snap, cubits>>

(* saveCabinet deletes and inserts all positions of the cabinet.           *)
SaveCabinet(o) ==
    /\ Continue(o, "confirm", "resave")
    /\ placed' \in {positions \in SavedPositions(o) : positions \subseteq cellar}
    /\ UNCHANGED <<allWines, cellar, wishlist, archive, bought, found, snap, cubits>>

(* A wine of the loaded positions has left the cellar: the insert throws,  *)
(* the transaction is rolled back and the dialog is left loading.          *)
SaveCabinetThrows(o) ==
    /\ pc[o] = "confirm"
    /\ \E positions \in SavedPositions(o) : ~ positions \subseteq cellar
    /\ Finish(o)
    /\ UNCHANGED <<tables, cubits>>

(* No position changed: nothing is written.                                *)
KeepPositions(o) ==
    /\ Continue(o, "confirm", "resave")
    /\ UNCHANGED <<tables, found, snap, cubits>>

(* The page that opened the dialog saves the wine with its new location    *)
(* or, when its last bottle was removed, deletes it.                       *)
SaveAfterDialog(o) ==
    /\ pc[o] = "resave"
    /\ PutInCellar(arg[o])
    /\ Finish(o)
    /\ UNCHANGED <<wishlist, archive, bought, placed, cubits>>

DeleteAfterDialog(o) ==
    /\ Continue(o, "resave", "archive")
    /\ UNCHANGED <<tables, found, snap, cubits>>

(* updateBottleSizes to fewer bottles: freeSpots looks for positions of w  *)
(* and frees those it found by their ids, whatever wine they hold by then: *)
(* the last ones of a wine, or a part that leaves it others.               *)
FreeSpots(o, w) ==
    /\ w \in placed
    /\ Begin(o, w, "freeSpots")
    /\ UNCHANGED <<tables, found, snap, cubits>>

FreeFound(o) ==
    /\ Continue(o, "freeSpots", "resave")
    /\ placed' \in {placed} \cup {placed \ {w} : w \in Wine}
    /\ UNCHANGED <<allWines, cellar, wishlist, archive, bought, found, snap, cubits>>

(* deleteCabinet cascades to its shelves and positions.                    *)
DeleteCabinet ==
    /\ placed' = {}
    /\ UNCHANGED <<allWines, cellar, wishlist, archive, bought, ops, cubits>>

-----------------------------------------------------------------------------
(* The process is killed between two statements; the splash page loads the *)
(* wishlist at the next start. (That syncOnStart may replace the database  *)
(* right after, and that a start at the login page loads nothing, is left  *)
(* out: this module keeps one database.)                                   *)

Kill ==
    /\ pc' = [o \in Op |-> "idle"]
    /\ arg' = [o \in Op |-> None]
    /\ found' = [o \in Op |-> FALSE]
    /\ snap' = [o \in Op |-> {}]
    /\ wished' = wishlist /\ listed' = {}
    /\ UNCHANGED tables

UserOp(o, w) ==
    \/ DeleteWine(o, w)
    \/ AddToWishlist(o, w)
    \/ RemoveFromWishlist(o, w)
    \/ MoveToCellar(o, w)
    \/ RestoreWine(o, w)
    \/ PermanentlyDelete(o, w)
    \/ OpenDialog(o, w)
    \/ FreeSpots(o, w)

Statement(o) ==
    \/ InsertArchive(o) \/ InsertArchiveThrows(o)
    \/ FreePositions(o)
    \/ DeleteFromCellar(o)
    \/ DeleteFromWishlist(o)
    \/ WishQueryCellar(o)
    \/ WishQueryArchive(o)
    \/ WishErase(o)
    \/ LoadWishlist(o)
    \/ DeleteFromArchive(o)
    \/ ArchiveQueryWishlist(o)
    \/ ArchiveQueryCellar(o)
    \/ ArchiveErase(o)
    \/ LoadArchive(o)
    \/ SaveLocation(o)
    \/ SaveLocationRemoveMode(o)
    \/ Decline(o) \/ CancelDialog(o)
    \/ SaveCabinet(o) \/ SaveCabinetThrows(o) \/ KeepPositions(o)
    \/ FreeFound(o)
    \/ SaveAfterDialog(o) \/ DeleteAfterDialog(o)

StoreNext ==
    \/ \E w \in Wine : \/ SaveWine(w)
                       \/ SavePurchaseRecord(w)
                       \/ DeletePurchaseRecord(w)
                       \/ RestoreThrows(w)
    \/ \E o \in Op, w \in Wine : UserOp(o, w)
    \/ \E o \in Op : Statement(o)
    \/ ShowArchive
    \/ ShowWishlist
    \/ DeleteCabinet
    \/ Kill

StoreSpec == StoreInit /\ [][StoreNext]_storeVars

(***************************************************************************)
(* Every reference of _onCreate's schema has its parent row, after every   *)
(* interleaving of cascading deletes, stale dialogs and transactions: no   *)
(* position names a wine that is not in the cellar, no list a wine without *)
(* a row in all_wines.                                                     *)
(***************************************************************************)
ForeignKeys ==
    /\ cellar \cup wishlist \cup archive \cup bought \subseteq allWines
    /\ placed \subseteq cellar

=============================================================================
