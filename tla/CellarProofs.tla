---------------------------- MODULE CellarProofs ----------------------------
(***************************************************************************)
(* Proofs about CellarStore and CellarHistory, for any sets of wines and   *)
(* operations.                                                             *)
(***************************************************************************)
EXTENDS CellarHistory, TLAPS

(* What StoreTypeOK says of the operations.                                *)
OpsTypeOK ==
    /\ pc \in [Op -> OpPC]
    /\ arg \in [Op -> Wine \cup {None}]
    /\ \A o \in Op : pc[o] # "idle" => arg[o] \in Wine

(***************************************************************************)
(* Beginning an operation keeps the operations typed.                      *)
(***************************************************************************)
LEMMA BeginKeepsOps ==
    ASSUME NEW o \in Op, NEW w \in Wine, NEW label \in OpPC,
           OpsTypeOK, Begin(o, w, label)
    PROVE  OpsTypeOK'
BY DEF OpsTypeOK, Begin

(***************************************************************************)
(* So does going on to its next statement.                                 *)
(***************************************************************************)
LEMMA ContinueKeepsOps ==
    ASSUME NEW o \in Op, NEW from \in OpPC \ {"idle"}, NEW label \in OpPC,
           OpsTypeOK, Continue(o, from, label)
    PROVE  OpsTypeOK'
BY DEF OpsTypeOK, Continue

(***************************************************************************)
(* And so does ending it, after a throw or the last statement.             *)
(***************************************************************************)
LEMMA FinishKeepsOps ==
    ASSUME NEW o \in Op, OpsTypeOK, Finish(o)
    PROVE  OpsTypeOK'
BY DEF OpsTypeOK, Finish, OpPC

(* What it says of the tables, the other variables of the operations and   *)
(* the cubits.                                                             *)
DataTypeOK ==
    /\ allWines \subseteq Wine /\ cellar \subseteq Wine /\ wishlist \subseteq Wine
    /\ archive \subseteq Wine /\ bought \subseteq Wine /\ placed \subseteq Wine
    /\ found \in [Op -> BOOLEAN]
    /\ snap \in [Op -> SUBSET Wine]
    /\ wished \subseteq Wine /\ listed \subseteq Wine

(***************************************************************************)
(* These are the two parts of the type invariant of the tables, operations *)
(* and cubits.                                                             *)
(***************************************************************************)
LEMMA TypeParts == StoreTypeOK <=> OpsTypeOK /\ DataTypeOK
BY DEF StoreTypeOK, OpsTypeOK, DataTypeOK

(***************************************************************************)
(* The first statement of an operation keeps the types.                    *)
(***************************************************************************)
LEMMA UserOpTypes ==
    ASSUME StoreTypeOK, NEW o \in Op, NEW w \in Wine, UserOp(o, w)
    PROVE  StoreTypeOK'
<1>1. OpsTypeOK /\ DataTypeOK
  BY TypeParts
<1> SUFFICES OpsTypeOK' /\ DataTypeOK'
  BY DEF StoreTypeOK, OpsTypeOK, DataTypeOK
<1>2. \E label \in OpPC : Begin(o, w, label)
  BY DEF UserOp, DeleteWine, AddToWishlist, RemoveFromWishlist, MoveToCellar,
         RestoreWine, PermanentlyDelete, OpenDialog, FreeSpots, OpPC, WishPC, ArchivePC,
         DeletePC, DialogPC
<1>3. OpsTypeOK'
  BY <1>1, <1>2, BeginKeepsOps
<1>4. DataTypeOK'
  <2>1. CASE DeleteWine(o, w)
    BY <1>1, <2>1 DEF DeleteWine, DataTypeOK, tables, cubits
  <2>2. CASE AddToWishlist(o, w)
    BY <1>1, <2>2 DEF AddToWishlist, DataTypeOK, tables, cubits
  <2>3. CASE RemoveFromWishlist(o, w)
    BY <1>1, <2>3 DEF RemoveFromWishlist, DataTypeOK, tables, cubits
  <2>4. CASE MoveToCellar(o, w)
    BY <1>1, <2>4 DEF MoveToCellar, PutInCellar, DataTypeOK, tables, cubits
  <2>5. CASE RestoreWine(o, w)
    BY <1>1, <2>5 DEF RestoreWine, DataTypeOK, tables, cubits
  <2>6. CASE PermanentlyDelete(o, w)
    BY <1>1, <2>6 DEF PermanentlyDelete, DataTypeOK, tables, cubits
  <2>7. CASE OpenDialog(o, w)
    BY <1>1, <2>7 DEF OpenDialog, DataTypeOK, tables, cubits
  <2>8. CASE FreeSpots(o, w)
    BY <1>1, <2>8 DEF FreeSpots, DataTypeOK, tables, cubits
  <2> QED
    BY <2>1, <2>2, <2>3, <2>4, <2>5, <2>6, <2>7, <2>8 DEF UserOp
<1> QED
  BY <1>3, <1>4

(***************************************************************************)
(* So does every other statement.                                          *)
(***************************************************************************)
LEMMA StatementTypes ==
    ASSUME StoreTypeOK, NEW o \in Op, Statement(o)
    PROVE  StoreTypeOK'
<1>1. OpsTypeOK /\ DataTypeOK
  BY TypeParts
<1>2. arg[o] \in Wine \cup {None}
  BY <1>1 DEF OpsTypeOK
<1> SUFFICES OpsTypeOK' /\ DataTypeOK'
  BY DEF StoreTypeOK, OpsTypeOK, DataTypeOK
<1> USE DEF OpPC, WishPC, ArchivePC, DeletePC, DialogPC
<1>3. CASE InsertArchive(o)
  <2>1. OpsTypeOK'
    BY <1>1, <1>3, ContinueKeepsOps DEF InsertArchive
  <2>2. DataTypeOK'
    <3>1. arg[o] \in Wine
      BY <1>1, <1>3 DEF InsertArchive, OpsTypeOK, Continue
    <3> QED
      BY <1>1, <1>3, <3>1 DEF InsertArchive, DataTypeOK, tables, cubits
  <2> QED
    BY <2>1, <2>2
<1>4. CASE FreePositions(o)
  <2>1. OpsTypeOK'
    BY <1>1, <1>4, ContinueKeepsOps DEF FreePositions
  <2>2. DataTypeOK'
    BY <1>1, <1>4 DEF FreePositions, DataTypeOK, tables, cubits
  <2> QED
    BY <2>1, <2>2
<1>5. CASE DeleteFromWishlist(o)
  <2>1. OpsTypeOK'
    BY <1>1, <1>5, ContinueKeepsOps DEF DeleteFromWishlist
  <2>2. DataTypeOK'
    BY <1>1, <1>5 DEF DeleteFromWishlist, DataTypeOK, tables, cubits
  <2> QED
    BY <2>1, <2>2
<1>6. CASE WishQueryCellar(o)
  <2>1. OpsTypeOK'
    BY <1>1, <1>6, ContinueKeepsOps DEF WishQueryCellar
  <2>2. DataTypeOK'
    BY <1>1, <1>6 DEF WishQueryCellar, DataTypeOK, tables, cubits
  <2> QED
    BY <2>1, <2>2
<1>7. CASE WishQueryArchive(o)
  <2>1. OpsTypeOK'
    BY <1>1, <1>7, ContinueKeepsOps DEF WishQueryArchive
  <2>2. DataTypeOK'
    BY <1>1, <1>7 DEF WishQueryArchive, DataTypeOK, tables, cubits
  <2> QED
    BY <2>1, <2>2
<1>8. CASE WishErase(o)
  <2>1. OpsTypeOK'
    BY <1>1, <1>8, ContinueKeepsOps DEF WishErase
  <2>2. DataTypeOK'
    BY <1>1, <1>8 DEF WishErase, Erase, DataTypeOK, tables, cubits
  <2> QED
    BY <2>1, <2>2
<1>9. CASE DeleteFromArchive(o)
  <2>1. OpsTypeOK'
    BY <1>1, <1>9, ContinueKeepsOps DEF DeleteFromArchive
  <2>2. DataTypeOK'
    BY <1>1, <1>9 DEF DeleteFromArchive, DataTypeOK, tables, cubits
  <2> QED
    BY <2>1, <2>2
<1>10. CASE ArchiveQueryWishlist(o)
  <2>1. OpsTypeOK'
    BY <1>1, <1>10, ContinueKeepsOps DEF ArchiveQueryWishlist
  <2>2. DataTypeOK'
    BY <1>1, <1>10 DEF ArchiveQueryWishlist, DataTypeOK, tables, cubits
  <2> QED
    BY <2>1, <2>2
<1>11. CASE ArchiveQueryCellar(o)
  <2>1. OpsTypeOK'
    BY <1>1, <1>11, ContinueKeepsOps DEF ArchiveQueryCellar
  <2>2. DataTypeOK'
    BY <1>1, <1>11 DEF ArchiveQueryCellar, DataTypeOK, tables, cubits
  <2> QED
    BY <2>1, <2>2
<1>12. CASE ArchiveErase(o)
  <2>1. OpsTypeOK'
    BY <1>1, <1>12, ContinueKeepsOps DEF ArchiveErase
  <2>2. DataTypeOK'
    BY <1>1, <1>12 DEF ArchiveErase, Erase, DataTypeOK, tables, cubits
  <2> QED
    BY <2>1, <2>2
<1>13. CASE SaveLocation(o)
  <2>1. OpsTypeOK'
    BY <1>1, <1>13, ContinueKeepsOps DEF SaveLocation
  <2>2. DataTypeOK'
    <3>1. arg[o] \in Wine
      BY <1>1, <1>13 DEF SaveLocation, OpsTypeOK, Continue
    <3> QED
      BY <1>1, <1>13, <3>1 DEF SaveLocation, PutInCellar, DataTypeOK, tables,
         cubits
  <2> QED
    BY <2>1, <2>2
<1>14. CASE SaveLocationRemoveMode(o)
  <2>1. OpsTypeOK'
    BY <1>1, <1>14, ContinueKeepsOps DEF SaveLocationRemoveMode
  <2>2. DataTypeOK'
    BY <1>1, <1>14 DEF SaveLocationRemoveMode, DataTypeOK, tables, cubits
  <2> QED
    BY <2>1, <2>2
<1>15. CASE Decline(o)
  <2>1. OpsTypeOK'
    BY <1>1, <1>15, ContinueKeepsOps DEF Decline
  <2>2. DataTypeOK'
    BY <1>1, <1>15 DEF Decline, DataTypeOK, tables, cubits
  <2> QED
    BY <2>1, <2>2
<1>16. CASE SaveCabinet(o)
  <2>1. OpsTypeOK'
    BY <1>1, <1>16, ContinueKeepsOps DEF SaveCabinet
  <2>2. DataTypeOK'
    <3>1. arg[o] \in Wine
      BY <1>1, <1>16 DEF SaveCabinet, OpsTypeOK, Continue
    <3> QED
      BY <1>1, <1>16, <3>1 DEF SaveCabinet, SavedPositions, DataTypeOK, tables,
         cubits
  <2> QED
    BY <2>1, <2>2
<1>17. CASE KeepPositions(o)
  <2>1. OpsTypeOK'
    BY <1>1, <1>17, ContinueKeepsOps DEF KeepPositions
  <2>2. DataTypeOK'
    BY <1>1, <1>17 DEF KeepPositions, DataTypeOK, tables, cubits
  <2> QED
    BY <2>1, <2>2
<1>18. CASE DeleteAfterDialog(o)
  <2>1. OpsTypeOK'
    BY <1>1, <1>18, ContinueKeepsOps DEF DeleteAfterDialog
  <2>2. DataTypeOK'
    BY <1>1, <1>18 DEF DeleteAfterDialog, DataTypeOK, tables, cubits
  <2> QED
    BY <2>1, <2>2
<1>19. CASE InsertArchiveThrows(o)
  <2>1. OpsTypeOK'
    BY <1>1, <1>19, FinishKeepsOps DEF InsertArchiveThrows
  <2>2. DataTypeOK'
    BY <1>1, <1>19 DEF InsertArchiveThrows, Finish, DataTypeOK, tables, cubits
  <2> QED
    BY <2>1, <2>2
<1>20. CASE DeleteFromCellar(o)
  <2>1. OpsTypeOK'
    BY <1>1, <1>20, FinishKeepsOps DEF DeleteFromCellar
  <2>2. DataTypeOK'
    BY <1>1, <1>20 DEF DeleteFromCellar, Finish, DataTypeOK, tables, cubits
  <2> QED
    BY <2>1, <2>2
<1>21. CASE LoadWishlist(o)
  <2>1. OpsTypeOK'
    BY <1>1, <1>21, FinishKeepsOps DEF LoadWishlist
  <2>2. DataTypeOK'
    BY <1>1, <1>21 DEF LoadWishlist, Finish, DataTypeOK, tables, cubits
  <2> QED
    BY <2>1, <2>2
<1>22. CASE LoadArchive(o)
  <2>1. OpsTypeOK'
    BY <1>1, <1>22, FinishKeepsOps DEF LoadArchive
  <2>2. DataTypeOK'
    BY <1>1, <1>22 DEF LoadArchive, ArchivedWines, Finish, DataTypeOK, tables,
       cubits
  <2> QED
    BY <2>1, <2>2
<1>23. CASE CancelDialog(o)
  <2>1. OpsTypeOK'
    BY <1>1, <1>23, FinishKeepsOps DEF CancelDialog
  <2>2. DataTypeOK'
    BY <1>1, <1>23 DEF CancelDialog, Finish, DataTypeOK, tables, cubits
  <2> QED
    BY <2>1, <2>2
<1>24. CASE SaveCabinetThrows(o)
  <2>1. OpsTypeOK'
    BY <1>1, <1>24, FinishKeepsOps DEF SaveCabinetThrows
  <2>2. DataTypeOK'
    BY <1>1, <1>24 DEF SaveCabinetThrows, Finish, DataTypeOK, tables, cubits
  <2> QED
    BY <2>1, <2>2
<1>25. CASE SaveAfterDialog(o)
  <2>1. OpsTypeOK'
    BY <1>1, <1>25, FinishKeepsOps DEF SaveAfterDialog
  <2>2. DataTypeOK'
    <3>1. arg[o] \in Wine
      BY <1>1, <1>25 DEF SaveAfterDialog, OpsTypeOK
    <3> QED
      BY <1>1, <1>25, <3>1 DEF SaveAfterDialog, PutInCellar, Finish,
         DataTypeOK, tables, cubits
  <2> QED
    BY <2>1, <2>2
<1>26. CASE FreeFound(o)
  <2>1. OpsTypeOK'
    BY <1>1, <1>26, ContinueKeepsOps DEF FreeFound
  <2>2. DataTypeOK'
    BY <1>1, <1>26 DEF FreeFound, DataTypeOK, tables, cubits
  <2> QED
    BY <2>1, <2>2
<1> QED
  BY <1>3, <1>4, <1>5, <1>6, <1>7, <1>8, <1>9, <1>10, <1>11, <1>12, <1>13,
     <1>14, <1>15, <1>16, <1>17, <1>18, <1>19, <1>20, <1>21, <1>22, <1>23,
     <1>24, <1>25, <1>26 DEF Statement

(***************************************************************************)
(* Every step of CellarStore keeps the types.                              *)
(***************************************************************************)
LEMMA StoreTypesStep ==
    ASSUME StoreTypeOK, [StoreNext]_storeVars
    PROVE  StoreTypeOK'
<1>1. OpsTypeOK /\ DataTypeOK
  BY TypeParts
<1> USE DEF OpsTypeOK, DataTypeOK, StoreTypeOK, tables, ops, cubits
<1>2. ASSUME NEW w \in Wine, SaveWine(w) PROVE StoreTypeOK'
  BY <1>2 DEF SaveWine, PutInCellar
<1>3. ASSUME NEW w \in Wine, SavePurchaseRecord(w) PROVE StoreTypeOK'
  BY <1>3 DEF SavePurchaseRecord
<1>4. ASSUME NEW w \in Wine, DeletePurchaseRecord(w) PROVE StoreTypeOK'
  BY <1>4 DEF DeletePurchaseRecord
<1>5. ASSUME NEW w \in Wine, RestoreThrows(w) PROVE StoreTypeOK'
  BY <1>5 DEF RestoreThrows
<1>7. CASE ShowArchive
  BY <1>7 DEF ShowArchive, ArchivedWines
<1>6. CASE ShowWishlist
  BY <1>6 DEF ShowWishlist
<1>8. CASE DeleteCabinet
  BY <1>8 DEF DeleteCabinet
<1>9. CASE Kill
  BY <1>9 DEF Kill, OpPC
<1>10. CASE UNCHANGED storeVars
  BY <1>10 DEF storeVars
<1> QED
  BY <1>2, <1>3, <1>4, <1>5, <1>6, <1>7, <1>8, <1>9, <1>10, UserOpTypes,
     StatementTypes DEF StoreNext

(***************************************************************************)
(* The tables, operations and cubits of CellarStore keep their types.      *)
(***************************************************************************)
THEOREM StoreTypes == StoreSpec => []StoreTypeOK
<1>1. StoreInit => StoreTypeOK
  BY DEF StoreInit, StoreTypeOK, OpPC
<1>2. StoreTypeOK /\ [StoreNext]_storeVars => StoreTypeOK'
  BY StoreTypesStep
<1> QED
  BY <1>1, <1>2, PTL DEF StoreSpec

(***************************************************************************)
(* No interleaving of the cascades, transactions and stale dialogs leaves  *)
(* a reference without its parent row.                                     *)
(***************************************************************************)
THEOREM ReferencesHold == StoreSpec => []ForeignKeys
<1>1. StoreInit => ForeignKeys
  BY DEF StoreInit, ForeignKeys
<1>2. ForeignKeys /\ [StoreNext]_storeVars => ForeignKeys'
  <2> SUFFICES ASSUME ForeignKeys, [StoreNext]_storeVars
               PROVE  ForeignKeys'
    OBVIOUS
  <2> USE DEF ForeignKeys, tables
  <2>1. ASSUME NEW o \in Op, NEW w \in Wine, UserOp(o, w) PROVE ForeignKeys'
    BY <2>1 DEF UserOp, DeleteWine, AddToWishlist, RemoveFromWishlist,
                MoveToCellar, PutInCellar, RestoreWine, PermanentlyDelete,
                OpenDialog, FreeSpots
  <2>2. ASSUME NEW o \in Op, Statement(o) PROVE ForeignKeys'
    <3>1. CASE InsertArchive(o) \/ InsertArchiveThrows(o)
      BY <3>1 DEF InsertArchive, InsertArchiveThrows
    <3>2. CASE \/ FreePositions(o) \/ FreeFound(o)
               \/ DeleteFromCellar(o) \/ DeleteAfterDialog(o)
      BY <3>2 DEF FreePositions, FreeFound, DeleteFromCellar, DeleteAfterDialog
    <3>3. CASE WishErase(o) \/ ArchiveErase(o)
      BY <3>3 DEF WishErase, ArchiveErase, Erase
    <3>4. CASE \/ DeleteFromWishlist(o) \/ WishQueryCellar(o)
               \/ WishQueryArchive(o) \/ LoadWishlist(o)
      BY <3>4 DEF DeleteFromWishlist, WishQueryCellar, WishQueryArchive,
                  LoadWishlist
    <3>5. CASE \/ DeleteFromArchive(o) \/ ArchiveQueryWishlist(o)
               \/ ArchiveQueryCellar(o) \/ LoadArchive(o)
      BY <3>5 DEF DeleteFromArchive, ArchiveQueryWishlist, ArchiveQueryCellar,
                  LoadArchive
    <3>6. CASE SaveLocation(o) \/ SaveAfterDialog(o)
      BY <3>6 DEF SaveLocation, SaveAfterDialog, PutInCellar
    <3>7. CASE SaveCabinet(o)
      BY <3>7 DEF SaveCabinet
    <3>8. CASE \/ SaveLocationRemoveMode(o) \/ Decline(o) \/ CancelDialog(o)
               \/ SaveCabinetThrows(o) \/ KeepPositions(o)
      BY <3>8 DEF SaveLocationRemoveMode, Decline, CancelDialog,
                  SaveCabinetThrows, KeepPositions
    <3> QED
      BY <2>2, <3>1, <3>2, <3>3, <3>4, <3>5, <3>6, <3>7, <3>8 DEF Statement
  <2>3. ASSUME NEW w \in Wine,
               \/ SaveWine(w) \/ SavePurchaseRecord(w) \/ DeletePurchaseRecord(w)
               \/ RestoreThrows(w)
        PROVE  ForeignKeys'
    BY <2>3 DEF SaveWine, PutInCellar, SavePurchaseRecord,
       DeletePurchaseRecord,
                RestoreThrows
  <2>4. CASE ShowArchive \/ ShowWishlist \/ DeleteCabinet \/ Kill \/ UNCHANGED storeVars
    BY <2>4 DEF ShowArchive, ShowWishlist, DeleteCabinet, Kill, storeVars
  <2> QED
    BY <2>1, <2>2, <2>3, <2>4 DEF StoreNext
<1> QED
  BY <1>1, <1>2, PTL DEF StoreSpec

-----------------------------------------------------------------------------
(* What an operation on a wine that did not race still knows from the      *)
(* statements it has executed.                                             *)
Knows(o) ==
    \/ arg[o] \in raced
    \/ /\ pc[o] = "wishArchive" => found[o] \/ arg[o] \notin cellar
       /\ pc[o] = "wishErase" => arg[o] \notin cellar \cup archive
       /\ pc[o] \in {"unarchive", "archWishlist", "archCellar"} =>
              arg[o] \notin owned \ cellar
       /\ pc[o] = "archCellar" => found[o] \/ arg[o] \notin wishlist
       /\ pc[o] = "archErase" => arg[o] \notin owned \cup wishlist
       /\ pc[o] \in {"free", "uncellar"} => arg[o] \in archive

CellarInv ==
    /\ StoreTypeOK
    /\ owned \subseteq Wine
    /\ cellar \subseteq owned
    /\ \A o \in Op : Knows(o)
    /\ OwnedIsVisible
    /\ WishlistShown

(* What a step has to satisfy to keep CellarInv, in five parts: the hearts *)
(* and the operations on them, the wishlist table, no wine is given up and *)
(* saved at once, none of the owned ones disappears, and every operation   *)
(* knows what it must, or is not the one that moves.                       *)
HeartsKept ==
    \/ wished' = wishlist'
    \/ /\ wished' = wished
       /\ \A p \in Op : pc[p] \in WishPC => pc'[p] \in WishPC /\ arg'[p] = arg[p]

WishlistKept ==
    \/ wished' = wishlist'
    \/ \A w \in Wine \ raced :
           \/ w \in wishlist' <=> w \in wishlist
           \/ \E p \in Op : arg'[p] = w /\ pc'[p] \in WishPC

NoneGivenUp ==
    \/ cellar' = cellar
    \/ \A p \in Op : pc[p] = "idle" => pc'[p] # "unarchive"

OwnedKept ==
    \A w \in owned \ raced : w \in cellar \cup archive => w \in cellar' \cup archive'

OpsKept ==
    \A p \in Op :
        \/ Knows(p)'
        \/ pc'[p] = pc[p] /\ arg'[p] = arg[p] /\ found'[p] = found[p]

StepOK == HeartsKept /\ WishlistKept /\ NoneGivenUp /\ OwnedKept /\ OpsKept

(***************************************************************************)
(* The history variables: raced only grows, and what becomes owned is in   *)
(* the cellar.                                                             *)
(***************************************************************************)
LEMMA HistoryFacts ==
    ASSUME HistoryStep
    PROVE  raced \subseteq raced' /\ owned' \subseteq owned \cup cellar'
BY DEF HistoryStep

(***************************************************************************)
(* An operation that does not move still knows what it knew: a step that   *)
(* changes the lists of its wine makes the wine a raced one.               *)
(***************************************************************************)
LEMMA OthersKnow ==
    ASSUME CellarInv, HistoryStep, NEW p \in Op,
           pc'[p] = pc[p], arg'[p] = arg[p], found'[p] = found[p]
    PROVE  Knows(p)'
<1>1. Knows(p) /\ cellar \subseteq owned
  BY DEF CellarInv
<1>2. raced \subseteq raced' /\ owned' \subseteq owned \cup cellar'
  BY HistoryFacts
<1>3. CASE pc[p] \notin Window
  BY <1>3 DEF Knows, Window
<1>4. CASE pc[p] \in Window
  <2>1. arg[p] \in Wine
    BY <1>4 DEF CellarInv, StoreTypeOK, Window
  <2>2. CASE Lists(arg[p])' # Lists(arg[p])
    <3>1. Overtaken(p, arg[p])
      BY <1>4, <2>2 DEF Overtaken, Lists
    <3>2. arg[p] \in raced'
      BY <2>1, <3>1 DEF HistoryStep
    <3> QED
      BY <3>2 DEF Knows
  <2>3. CASE Lists(arg[p])' = Lists(arg[p])
    <3>1. /\ arg[p] \in cellar' <=> arg[p] \in cellar
          /\ arg[p] \in archive' <=> arg[p] \in archive
          /\ arg[p] \in wishlist' <=> arg[p] \in wishlist
      BY <2>3 DEF Lists
    <3> QED
      BY <1>1, <1>2, <3>1 DEF Knows
  <2> QED
    BY <2>2, <2>3
<1> QED
  BY <1>3, <1>4

(***************************************************************************)
(* A step that satisfies StepOK keeps the invariant.                       *)
(***************************************************************************)
LEMMA StepSuffices ==
    ASSUME CellarInv, HistoryStep, StoreTypeOK', StepOK
    PROVE  CellarInv'
<1>1. raced \subseteq raced' /\ owned' \subseteq owned \cup cellar'
  BY HistoryFacts
<1>2. owned' \subseteq Wine
  BY <1>1 DEF CellarInv, StoreTypeOK
<1>3. cellar' \subseteq owned'
  BY DEF StepOK, NoneGivenUp, HistoryStep, GivenUp
<1>4. \A p \in Op : Knows(p)'
  BY OthersKnow DEF StepOK, OpsKept
<1>5. OwnedIsVisible'
  BY <1>1 DEF StepOK, OwnedKept, OwnedIsVisible, CellarInv
<1>6. WishlistShown'
  <2> SUFFICES ASSUME NEW w \in Wine \ raced',
                      ~ \E o \in Op : arg'[o] = w /\ pc'[o] \in WishPC
               PROVE  w \in wished' <=> w \in wishlist'
    BY DEF WishlistShown
  <2>1. CASE wished' = wishlist'
    BY <2>1
  <2>2. CASE wished' # wishlist'
    <3>1. ~ \E o \in Op : arg[o] = w /\ pc[o] \in WishPC
      BY <2>2 DEF StepOK, HeartsKept
    <3>2. w \in wished <=> w \in wishlist
      BY <1>1, <3>1 DEF CellarInv, WishlistShown
    <3>3. w \in wishlist' <=> w \in wishlist
      BY <1>1, <2>2 DEF StepOK, WishlistKept
    <3>4. wished' = wished
      BY <2>2 DEF StepOK, HeartsKept
    <3> QED
      BY <3>2, <3>3, <3>4
  <2> QED
    BY <2>1, <2>2
<1> QED
  BY <1>2, <1>3, <1>4, <1>5, <1>6 DEF CellarInv

(***************************************************************************)
(* Beginning an operation moves no other one.                              *)
(***************************************************************************)
LEMMA BeginOps ==
    ASSUME OpsTypeOK, NEW o \in Op, NEW w, NEW label, Begin(o, w, label)
    PROVE  /\ pc[o] = "idle" /\ pc'[o] = label /\ arg'[o] = w
           /\ \A p \in Op \ {o} : pc'[p] = pc[p] /\ arg'[p] = arg[p]
BY DEF OpsTypeOK, Begin

(***************************************************************************)
(* Ending an operation moves no other one.                                 *)
(***************************************************************************)
LEMMA FinishOps ==
    ASSUME OpsTypeOK, found \in [Op -> BOOLEAN], NEW o \in Op, Finish(o)
    PROVE  /\ pc'[o] = "idle"
           /\ \A p \in Op \ {o} :
                  pc'[p] = pc[p] /\ arg'[p] = arg[p] /\ found'[p] = found[p]
BY DEF OpsTypeOK, Finish

(***************************************************************************)
(* The first statement of an operation satisfies StepOK.                   *)
(***************************************************************************)
LEMMA UserOpStepOK ==
    ASSUME CellarInv, HistoryStep, NEW o \in Op, NEW w \in Wine, UserOp(o, w)
    PROVE  StepOK
<1>1. /\ OpsTypeOK
      /\ found \in [Op -> BOOLEAN]
      /\ Knows(o)
  BY DEF CellarInv, OpsTypeOK, StoreTypeOK
<1>2. raced \subseteq raced' /\ owned' \subseteq owned \cup cellar'
  BY HistoryFacts
<1> USE <1>1, <1>2 DEF StepOK, HeartsKept, WishlistKept, NoneGivenUp, OwnedKept,
        OpsKept, Knows, WishPC, tables, cubits
<1>3. CASE DeleteWine(o, w)
  <2>1. /\ pc[o] = "idle" /\ pc'[o] = "archive" /\ arg'[o] = w /\ found' = found
        /\ \A p \in Op \ {o} : pc'[p] = pc[p] /\ arg'[p] = arg[p]
    BY <1>1, <1>3, BeginOps DEF DeleteWine
  <2> QED
    BY <1>3, <2>1 DEF DeleteWine
<1>4. CASE AddToWishlist(o, w)
  <2>1. /\ pc[o] = "idle" /\ pc'[o] = "wishLoad" /\ arg'[o] = w /\ found' = found
        /\ \A p \in Op \ {o} : pc'[p] = pc[p] /\ arg'[p] = arg[p]
    BY <1>1, <1>4, BeginOps DEF AddToWishlist
  <2> QED
    BY <1>4, <2>1 DEF AddToWishlist
<1>5. CASE RemoveFromWishlist(o, w)
  <2>1. /\ pc[o] = "idle" /\ pc'[o] = "unwish" /\ arg'[o] = w /\ found' = found
        /\ \A p \in Op \ {o} : pc'[p] = pc[p] /\ arg'[p] = arg[p]
    BY <1>1, <1>5, BeginOps DEF RemoveFromWishlist
  <2> QED
    BY <1>5, <2>1 DEF RemoveFromWishlist
<1>6. CASE MoveToCellar(o, w)
  <2>1. /\ pc[o] = "idle" /\ pc'[o] = "unwish" /\ arg'[o] = w /\ found' = found
        /\ \A p \in Op \ {o} : pc'[p] = pc[p] /\ arg'[p] = arg[p]
    BY <1>1, <1>6, BeginOps DEF MoveToCellar
  <2> QED
    BY <1>6, <2>1 DEF MoveToCellar, PutInCellar
<1>7. CASE RestoreWine(o, w)
  <2>1. /\ pc[o] = "idle" /\ pc'[o] = "archLoad" /\ arg'[o] = w /\ found' = found
        /\ \A p \in Op \ {o} : pc'[p] = pc[p] /\ arg'[p] = arg[p]
    BY <1>1, <1>7, BeginOps DEF RestoreWine
  <2> QED
    BY <1>7, <2>1 DEF RestoreWine
<1>8. CASE PermanentlyDelete(o, w)
  <2>1. /\ pc[o] = "idle" /\ pc'[o] = "unarchive" /\ arg'[o] = w /\ found' = found
        /\ \A p \in Op \ {o} : pc'[p] = pc[p] /\ arg'[p] = arg[p]
    BY <1>1, <1>8, BeginOps DEF PermanentlyDelete
  <2> QED
    BY <1>8, <2>1 DEF PermanentlyDelete, HistoryStep, GivenUp
<1>9. CASE OpenDialog(o, w)
  <2>1. /\ pc[o] = "idle" /\ pc'[o] = "dialog" /\ arg'[o] = w /\ found' = found
        /\ \A p \in Op \ {o} : pc'[p] = pc[p] /\ arg'[p] = arg[p]
    BY <1>1, <1>9, BeginOps DEF OpenDialog
  <2> QED
    BY <1>9, <2>1 DEF OpenDialog
<1>10. CASE FreeSpots(o, w)
  <2>1. /\ pc[o] = "idle" /\ pc'[o] = "freeSpots" /\ arg'[o] = w /\ found' = found
        /\ \A p \in Op \ {o} : pc'[p] = pc[p] /\ arg'[p] = arg[p]
    BY <1>1, <1>10, BeginOps DEF FreeSpots
  <2> QED
    BY <1>10, <2>1 DEF FreeSpots
<1> QED
  BY <1>3, <1>4, <1>5, <1>6, <1>7, <1>8, <1>9, <1>10 DEF UserOp

(***************************************************************************)
(* So does every other statement.                                          *)
(***************************************************************************)
LEMMA StatementStepOK ==
    ASSUME CellarInv, HistoryStep, NEW o \in Op, Statement(o)
    PROVE  StepOK
<1>1. /\ OpsTypeOK
      /\ found \in [Op -> BOOLEAN]
      /\ Knows(o)
      /\ OwnedIsVisible
  BY DEF CellarInv, OpsTypeOK, StoreTypeOK
<1>2. raced \subseteq raced' /\ owned' \subseteq owned \cup cellar'
  BY HistoryFacts
<1> USE <1>1, <1>2 DEF StepOK, HeartsKept, WishlistKept, NoneGivenUp, OwnedKept,
        OpsKept, Knows, WishPC, tables, cubits
<1>3. CASE InsertArchive(o)
  BY <1>3 DEF InsertArchive, Continue, OpsTypeOK
<1>4. CASE FreePositions(o)
  BY <1>4 DEF FreePositions, Continue, OpsTypeOK
<1>5. CASE DeleteFromWishlist(o)
  BY <1>5 DEF DeleteFromWishlist, Continue, OpsTypeOK
<1>6. CASE WishQueryCellar(o)
  BY <1>6 DEF WishQueryCellar, Continue, OpsTypeOK
<1>7. CASE WishQueryArchive(o)
  BY <1>7 DEF WishQueryArchive, Continue, OpsTypeOK
<1>8. CASE WishErase(o)
  BY <1>8 DEF WishErase, Continue, Erase, OwnedIsVisible, OpsTypeOK
<1>9. CASE DeleteFromArchive(o)
  BY <1>9 DEF DeleteFromArchive, Continue, OpsTypeOK
<1>10. CASE ArchiveQueryWishlist(o)
  BY <1>10 DEF ArchiveQueryWishlist, Continue, OpsTypeOK
<1>11. CASE ArchiveQueryCellar(o)
  BY <1>11 DEF ArchiveQueryCellar, Continue, OpsTypeOK
<1>12. CASE ArchiveErase(o)
  BY <1>12 DEF ArchiveErase, Continue, Erase, OwnedIsVisible, OpsTypeOK
<1>13. CASE SaveLocation(o)
  BY <1>13 DEF SaveLocation, Continue, PutInCellar, OpsTypeOK
<1>14. CASE SaveLocationRemoveMode(o)
  BY <1>14 DEF SaveLocationRemoveMode, Continue, OpsTypeOK
<1>15. CASE Decline(o)
  BY <1>15 DEF Decline, Continue, OpsTypeOK
<1>16. CASE SaveCabinet(o)
  BY <1>16 DEF SaveCabinet, Continue, OpsTypeOK
<1>17. CASE KeepPositions(o)
  BY <1>17 DEF KeepPositions, Continue, OpsTypeOK
<1>18. CASE DeleteAfterDialog(o)
  BY <1>18 DEF DeleteAfterDialog, Continue, OpsTypeOK
<1>19. CASE InsertArchiveThrows(o)
  <2>1. /\ pc[o] = "archive" /\ pc'[o] = "idle"
        /\ \A p \in Op \ {o} :
               pc'[p] = pc[p] /\ arg'[p] = arg[p] /\ found'[p] = found[p]
    BY <1>1, <1>19, FinishOps DEF InsertArchiveThrows
  <2> QED
    BY <1>19, <2>1 DEF InsertArchiveThrows
<1>20. CASE DeleteFromCellar(o)
  <2>1. /\ pc[o] = "uncellar" /\ pc'[o] = "idle"
        /\ \A p \in Op \ {o} :
               pc'[p] = pc[p] /\ arg'[p] = arg[p] /\ found'[p] = found[p]
    BY <1>1, <1>20, FinishOps DEF DeleteFromCellar
  <2> QED
    BY <1>20, <2>1 DEF DeleteFromCellar
<1>21. CASE LoadWishlist(o)
  <2>1. /\ pc[o] = "wishLoad" /\ pc'[o] = "idle"
        /\ \A p \in Op \ {o} :
               pc'[p] = pc[p] /\ arg'[p] = arg[p] /\ found'[p] = found[p]
    BY <1>1, <1>21, FinishOps DEF LoadWishlist
  <2> QED
    BY <1>21, <2>1 DEF LoadWishlist
<1>22. CASE LoadArchive(o)
  <2>1. /\ pc[o] = "archLoad" /\ pc'[o] = "idle"
        /\ \A p \in Op \ {o} :
               pc'[p] = pc[p] /\ arg'[p] = arg[p] /\ found'[p] = found[p]
    BY <1>1, <1>22, FinishOps DEF LoadArchive
  <2> QED
    BY <1>22, <2>1 DEF LoadArchive
<1>23. CASE CancelDialog(o)
  <2>1. /\ pc[o] = "dialog" /\ pc'[o] = "idle"
        /\ \A p \in Op \ {o} :
               pc'[p] = pc[p] /\ arg'[p] = arg[p] /\ found'[p] = found[p]
    BY <1>1, <1>23, FinishOps DEF CancelDialog
  <2> QED
    BY <1>23, <2>1 DEF CancelDialog
<1>24. CASE SaveCabinetThrows(o)
  <2>1. /\ pc[o] = "confirm" /\ pc'[o] = "idle"
        /\ \A p \in Op \ {o} :
               pc'[p] = pc[p] /\ arg'[p] = arg[p] /\ found'[p] = found[p]
    BY <1>1, <1>24, FinishOps DEF SaveCabinetThrows
  <2> QED
    BY <1>24, <2>1 DEF SaveCabinetThrows
<1>25. CASE SaveAfterDialog(o)
  <2>1. /\ pc[o] = "resave" /\ pc'[o] = "idle"
        /\ \A p \in Op \ {o} :
               pc'[p] = pc[p] /\ arg'[p] = arg[p] /\ found'[p] = found[p]
    BY <1>1, <1>25, FinishOps DEF SaveAfterDialog
  <2> QED
    BY <1>25, <2>1 DEF SaveAfterDialog, PutInCellar
<1>26. CASE FreeFound(o)
  BY <1>26 DEF FreeFound, Continue, OpsTypeOK
<1> QED
  BY <1>3, <1>4, <1>5, <1>6, <1>7, <1>8, <1>9, <1>10, <1>11, <1>12, <1>13,
     <1>14, <1>15, <1>16, <1>17, <1>18, <1>19, <1>20, <1>21, <1>22, <1>23,
     <1>24, <1>25, <1>26 DEF Statement

(***************************************************************************)
(* Every step of CellarHistory keeps the invariant.                        *)
(***************************************************************************)
LEMMA CellarInvStep ==
    ASSUME CellarInv, [CHNext]_<<storeVars, historyVars>>
    PROVE  CellarInv'
<1>1. CASE UNCHANGED <<storeVars, historyVars>>
  <2>1. /\ UNCHANGED <<allWines, cellar, wishlist, archive, bought, placed>>
        /\ UNCHANGED <<pc, arg, found, snap, wished, listed, owned, raced>>
    BY <1>1 DEF storeVars, historyVars, tables, ops, cubits
  <2> QED
    BY <2>1 DEF CellarInv, StoreTypeOK, Knows, OwnedIsVisible, WishlistShown
<1>2. CASE CHNext
  <2>1. HistoryStep /\ StoreNext
    BY <1>2 DEF CHNext
  <2>2. StoreTypeOK'
    BY <2>1, StoreTypesStep DEF CellarInv
  <2> SUFFICES StepOK
    BY <2>1, <2>2, StepSuffices
  <2> USE DEF tables, ops, cubits, StepOK, HeartsKept, WishlistKept, NoneGivenUp,
          OwnedKept, OpsKept
  <2>3. ASSUME NEW w \in Wine, SaveWine(w) PROVE StepOK
    BY <2>3 DEF SaveWine, PutInCellar
  <2>4. ASSUME NEW w \in Wine,
               \/ SavePurchaseRecord(w) \/ DeletePurchaseRecord(w)
               \/ RestoreThrows(w)
        PROVE  StepOK
    BY <2>4 DEF SavePurchaseRecord, DeletePurchaseRecord, RestoreThrows,
       FreeSpots
  <2>5. CASE ShowArchive \/ ShowWishlist \/ DeleteCabinet
    BY <2>5 DEF ShowArchive, ShowWishlist, DeleteCabinet
  <2>6. CASE Kill
    BY <2>6 DEF Kill, Knows
  <2> QED
    BY <2>1, <2>3, <2>4, <2>5, <2>6, UserOpStepOK, StatementStepOK DEF
       StoreNext
<1> QED
  BY <1>1, <1>2

(***************************************************************************)
(* The invariant holds of CellarHistory.                                   *)
(***************************************************************************)
LEMMA CellarInvHolds == CHSpec => []CellarInv
<1>1. CHInit => CellarInv
  BY DEF CHInit, StoreInit, CellarInv, StoreTypeOK, OpPC, Knows,
     OwnedIsVisible,
         WishlistShown
<1>2. CellarInv /\ [CHNext]_<<storeVars, historyVars>> => CellarInv'
  BY CellarInvStep
<1> QED
  BY <1>1, <1>2, PTL DEF CHSpec

(***************************************************************************)
(* Whatever operations interleave and wherever the process is killed, a    *)
(* wine of the cellar is lost only when it raced.                          *)
(***************************************************************************)
THEOREM CellarKeepsWines == CHSpec => []OwnedIsVisible
<1>1. CellarInv => OwnedIsVisible
  BY DEF CellarInv
<1> QED
  BY <1>1, CellarInvHolds, PTL

(***************************************************************************)
(* And the hearts WishlistCubit shows are those of the wishlist table.     *)
(***************************************************************************)
THEOREM HeartsAgree == CHSpec => []WishlistShown
<1>1. CellarInv => WishlistShown
  BY DEF CellarInv
<1> QED
  BY <1>1, CellarInvHolds, PTL

-----------------------------------------------------------------------------
(***************************************************************************)
(* The repositories implement WineLists: a proof of KeepsLists. A step of  *)
(* CellarHistory touches the lists of one wine at most. It is a step of    *)
(* WineLists when it changes them as one of its actions does (Legal), when *)
(* the wine races by it (GiveUp), and a stuttering step when the wine has  *)
(* raced before. That the single statements of an operation change the     *)
(* lists legally rests on what the operation knows (CellarInv).            *)
(***************************************************************************)

(* The step leaves the lists of w alone.                                   *)
Untouched(w) ==
    /\ w \in cellar' <=> w \in cellar
    /\ w \in archive' <=> w \in archive
    /\ w \in wishlist' <=> w \in wishlist

OnlyTouches(w) == \A v \in Wine \ {w} : Untouched(v)

(* The step does to w what one action of WineLists, or none, does.         *)
Legal(w) ==
    \/ /\ w \in wishlist' <=> w \in wishlist
       /\ \/ w \in cellar' \cup archive'
          \/ w \notin cellar /\ w \notin cellar'
    \/ /\ w \in cellar' <=> w \in cellar
       /\ w \in archive' <=> w \in archive

(***************************************************************************)
(* Only a wine whose lists change can race.                                *)
(***************************************************************************)
LEMMA RacesTouched ==
    ASSUME HistoryStep, NEW w \in Wine, OnlyTouches(w)
    PROVE  raced' = raced \/ raced' = raced \cup {w}
<1>1. ASSUME NEW v \in Wine, NEW o \in Op, v # w PROVE ~Overtaken(o, v)
  BY <1>1 DEF OnlyTouches, Untouched, Overtaken, Lists
<1> QED
  BY <1>1 DEF HistoryStep

(***************************************************************************)
(* A legal change of the lists of one wine is a step of WineLists.         *)
(***************************************************************************)
LEMMA LegalIsStep ==
    ASSUME StoreTypeOK, StoreTypeOK', HistoryStep,
           NEW w \in Wine, OnlyTouches(w), w \in raced' \/ Legal(w)
    PROVE  [Kept!ListsNext]_(Kept!lists)
<1> USE DEF ArchivedWines
<1>1. /\ \A v \in Wine \ {w} : Untouched(v)
      /\ cellar \subseteq Wine /\ archive \subseteq Wine /\ wishlist \subseteq Wine
      /\ cellar' \subseteq Wine /\ archive' \subseteq Wine /\ wishlist' \subseteq Wine
  BY DEF OnlyTouches, StoreTypeOK
<1>2. CASE w \in raced
  <2>1. raced' = raced
    BY <1>2, RacesTouched
  <2>2. UNCHANGED Kept!lists
    BY <1>1, <1>2, <2>1 DEF Kept!lists, Untouched
  <2> QED
    BY <2>2
<1>3. CASE w \notin raced /\ w \in raced'
  <2>1. raced' = raced \cup {w}
    BY <1>3, RacesTouched
  <2>2. Kept!GiveUp(w)
    BY <1>1, <2>1 DEF Kept!GiveUp, Untouched
  <2> QED
    BY <1>3, <2>2 DEF Kept!ListsNext
<1>4. CASE w \notin raced'
  <2>1. raced' = raced /\ w \in Wine \ raced
    BY <1>4, RacesTouched
  <2>2. CASE /\ w \in cellar' <=> w \in cellar
             /\ w \in archive' <=> w \in archive
    <3>1. CASE w \in wishlist'
      <4>1. Kept!Wish(w)
        BY <1>1, <2>1, <2>2, <3>1 DEF Kept!Wish, Untouched
      <4> QED
        BY <2>1, <4>1 DEF Kept!ListsNext
    <3>2. CASE w \notin wishlist'
      <4>1. Kept!Unwish(w)
        BY <1>1, <2>1, <2>2, <3>2 DEF Kept!Unwish, Untouched
      <4> QED
        BY <2>1, <4>1 DEF Kept!ListsNext
    <3> QED
      BY <3>1, <3>2
  <2>3. CASE (w \in wishlist' <=> w \in wishlist) /\ w \in cellar'
    <3>1. Kept!Keep(w)
      BY <1>1, <2>1, <2>3 DEF Kept!Keep, Untouched
    <3> QED
      BY <2>1, <3>1 DEF Kept!ListsNext
  <2>4. CASE (w \in wishlist' <=> w \in wishlist) /\ w \notin cellar' /\ w \in archive'
    <3>1. Kept!Archive(w)
      BY <1>1, <2>1, <2>4 DEF Kept!Archive, Untouched
    <3> QED
      BY <2>1, <3>1 DEF Kept!ListsNext
  <2>5. CASE /\ w \in wishlist' <=> w \in wishlist
             /\ w \notin cellar /\ w \notin cellar'
             /\ w \in archive /\ w \notin archive'
    <3>1. Kept!Discard(w)
      BY <1>1, <2>1, <2>5 DEF Kept!Discard, Untouched
    <3> QED
      BY <2>1, <3>1 DEF Kept!ListsNext
  <2> QED
    BY <1>4, <2>2, <2>3, <2>4, <2>5 DEF Legal
<1> QED
  BY <1>2, <1>3, <1>4

(***************************************************************************)
(* A step that touches no list is a stuttering step of WineLists.          *)
(***************************************************************************)
LEMMA NothingTouched ==
    ASSUME HistoryStep, UNCHANGED <<cellar, archive, wishlist>>
    PROVE  [Kept!ListsNext]_(Kept!lists)
<1>1. ASSUME NEW v \in Wine, NEW o \in Op PROVE ~Overtaken(o, v)
  BY <1>1 DEF Overtaken, Lists
<1>2. raced' = raced
  BY <1>1 DEF HistoryStep
<1> QED
  BY <1>2 DEF Kept!lists, ArchivedWines

(***************************************************************************)
(* The first statement of an operation changes the lists legally.          *)
(***************************************************************************)
LEMMA UserOpLegal ==
    ASSUME CellarInv, NEW o \in Op, NEW w \in Wine, UserOp(o, w)
    PROVE  \/ UNCHANGED <<cellar, archive, wishlist>>
           \/ OnlyTouches(w) /\ Legal(w)
<1> USE DEF OnlyTouches, Untouched, Legal, tables
<1>1. CASE \/ DeleteWine(o, w) \/ RemoveFromWishlist(o, w)
           \/ PermanentlyDelete(o, w) \/ OpenDialog(o, w) \/ FreeSpots(o, w)
  BY <1>1 DEF DeleteWine, RemoveFromWishlist, PermanentlyDelete, OpenDialog, FreeSpots
<1>2. CASE AddToWishlist(o, w)
  BY <1>2 DEF AddToWishlist
<1>3. CASE MoveToCellar(o, w)
  BY <1>3 DEF MoveToCellar, PutInCellar
<1>4. CASE RestoreWine(o, w)
  BY <1>4 DEF RestoreWine
<1> QED
  BY <1>1, <1>2, <1>3, <1>4 DEF UserOp

(***************************************************************************)
(* So does every other statement, because of what its operation knows: a   *)
(* wine leaves the cellar when it is in the archive, and is erased when it *)
(* is in neither.                                                          *)
(***************************************************************************)
LEMMA StatementLegal ==
    ASSUME CellarInv, HistoryStep, NEW o \in Op, Statement(o)
    PROVE  \/ UNCHANGED <<cellar, archive, wishlist>>
           \/ /\ arg[o] \in Wine
              /\ OnlyTouches(arg[o])
              /\ arg[o] \in raced' \/ Legal(arg[o])
<1>1. /\ Knows(o)
      /\ cellar \subseteq owned
      /\ raced \subseteq raced'
      /\ pc[o] # "idle" => arg[o] \in Wine
  BY HistoryFacts DEF CellarInv, StoreTypeOK
<1> USE <1>1 DEF OnlyTouches, Untouched, Legal, tables, Continue
<1>2. CASE \/ InsertArchiveThrows(o) \/ FreePositions(o) \/ WishQueryCellar(o)
           \/ WishQueryArchive(o) \/ LoadWishlist(o) \/ ArchiveQueryWishlist(o)
           \/ ArchiveQueryCellar(o) \/ LoadArchive(o)
  BY <1>2 DEF InsertArchiveThrows, FreePositions, WishQueryCellar, WishQueryArchive,
     LoadWishlist, ArchiveQueryWishlist, ArchiveQueryCellar, LoadArchive
<1>3. CASE \/ SaveLocationRemoveMode(o) \/ Decline(o) \/ CancelDialog(o)
           \/ SaveCabinet(o) \/ SaveCabinetThrows(o) \/ KeepPositions(o)
           \/ FreeFound(o) \/ DeleteAfterDialog(o)
  BY <1>3 DEF SaveLocationRemoveMode, Decline, CancelDialog, SaveCabinet,
     SaveCabinetThrows, KeepPositions, FreeFound, DeleteAfterDialog
<1>4. CASE InsertArchive(o)
  BY <1>4 DEF InsertArchive
<1>5. CASE DeleteFromCellar(o)
  BY <1>5 DEF DeleteFromCellar, Knows
<1>6. CASE DeleteFromWishlist(o)
  BY <1>6 DEF DeleteFromWishlist
<1>7. CASE WishErase(o)
  BY <1>7 DEF WishErase, Erase, Knows
<1>8. CASE DeleteFromArchive(o)
  BY <1>8 DEF DeleteFromArchive
<1>9. CASE ArchiveErase(o)
  BY <1>9 DEF ArchiveErase, Erase, Knows
<1>10. CASE SaveLocation(o) \/ SaveAfterDialog(o)
  BY <1>10 DEF SaveLocation, SaveAfterDialog, PutInCellar
<1> QED
  BY <1>2, <1>3, <1>4, <1>5, <1>6, <1>7, <1>8, <1>9, <1>10 DEF Statement

(***************************************************************************)
(* Every step of CellarHistory is a step of WineLists or leaves its lists  *)
(* unchanged.                                                              *)
(***************************************************************************)
LEMMA StepImplements ==
    ASSUME CellarInv, CellarInv', [CHNext]_<<storeVars, historyVars>>
    PROVE  [Kept!ListsNext]_(Kept!lists)
<1>1. StoreTypeOK /\ StoreTypeOK'
  BY DEF CellarInv
<1>2. CASE UNCHANGED <<storeVars, historyVars>>
  BY <1>2 DEF storeVars, historyVars, tables, Kept!lists, ArchivedWines
<1>3. CASE CHNext
  <2>1. HistoryStep /\ StoreNext
    BY <1>3 DEF CHNext
  <2>2. ASSUME NEW w \in Wine, SaveWine(w) PROVE OnlyTouches(w) /\ Legal(w)
    BY <2>2 DEF SaveWine, PutInCellar, OnlyTouches, Untouched, Legal
  <2>3. ASSUME \/ \E w \in Wine : \/ SavePurchaseRecord(w)
                                  \/ DeletePurchaseRecord(w)
                                  \/ RestoreThrows(w)
               \/ ShowArchive \/ ShowWishlist \/ DeleteCabinet \/ Kill
        PROVE  UNCHANGED <<cellar, archive, wishlist>>
    BY <2>3 DEF SavePurchaseRecord, DeletePurchaseRecord, RestoreThrows, ShowArchive,
       ShowWishlist, DeleteCabinet, Kill, tables
  <2>4. ASSUME NEW w \in Wine, OnlyTouches(w), w \in raced' \/ Legal(w)
        PROVE  [Kept!ListsNext]_(Kept!lists)
    BY <1>1, <2>1, <2>4, LegalIsStep
  <2>5. CASE UNCHANGED <<cellar, archive, wishlist>>
    BY <2>1, <2>5, NothingTouched
  <2>6. ASSUME NEW w \in Wine, SaveWine(w) PROVE [Kept!ListsNext]_(Kept!lists)
    BY <2>2, <2>4, <2>6
  <2>7. ASSUME NEW o \in Op, NEW w \in Wine, UserOp(o, w)
        PROVE  [Kept!ListsNext]_(Kept!lists)
    BY <2>4, <2>5, <2>7, UserOpLegal
  <2>8. ASSUME NEW o \in Op, Statement(o) PROVE [Kept!ListsNext]_(Kept!lists)
    BY <2>1, <2>4, <2>5, <2>8, StatementLegal
  <2> QED
    BY <2>1, <2>3, <2>5, <2>6, <2>7, <2>8 DEF StoreNext
<1> QED
  BY <1>2, <1>3

(***************************************************************************)
(* The repositories implement WineLists for any sets of wines and          *)
(* concurrent operations.                                                  *)
(***************************************************************************)
THEOREM ListsKept == CHSpec => KeepsLists
<1>1. CHInit => Kept!ListsInit
  BY DEF CHInit, StoreInit, Kept!ListsInit, ArchivedWines
<1>2. CellarInv /\ CellarInv' /\ [CHNext]_<<storeVars, historyVars>>
          => [Kept!ListsNext]_(Kept!lists)
  BY StepImplements
<1> QED
  BY <1>1, <1>2, CellarInvHolds, PTL DEF CHSpec, KeepsLists, Kept!ListsSpec

=============================================================================
