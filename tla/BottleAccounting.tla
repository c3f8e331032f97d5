-------------------------- MODULE BottleAccounting --------------------------
(***************************************************************************)
(* How many bottles of a wine there are and where they lie, kept three     *)
(* times: the quantity in cellar_wines, the sizes in wine_bottles and the  *)
(* positions that name the wine. MainCubit, StorageLocationDialog and the  *)
(* handlers of the search, wishlist and detail pages keep them in step,    *)
(* each from the copy of the wine its page has loaded.                     *)
(*                                                                         *)
(* Dialogs are modal and there is one user, so one dialog is open at most; *)
(* sqflite executes statements in the order they are issued, so a save     *)
(* takes effect where the page issues it. deleteWine, freeSpots and the    *)
(* three queries of getLocalWines are single steps here: CellarStore takes *)
(* the first two apart. There is one cabinet; its shelves may share names. *)
(***************************************************************************)
EXTENDS Naturals, FiniteSets, Functions

CONSTANTS
    Wine,
    Shelf, Index,  \* sets of numbers: shelves by id, positions of a shelf
    ShelfName,     \* ShelfName[sh]: the name the user gave to a shelf
    Size,          \* bottle sizes
    Standard,      \* '750ml', the size of bottles without rows in wine_bottles
    NoSize,        \* bottle_size NULL
    None,          \* no wine, no dialog, no page
    MaxQuantity,   \* bound on the bottles of a wine
    MaxPick,       \* bound on the bottles of one operation
    MaxOps         \* bound on the operations of the user

Spot == Shelf \X Index
Bottles == [Size -> 0..MaxQuantity]
NoBottles == [size \in Size |-> 0]
Label == {ShelfName[sh] : sh \in Shelf} \X Index
Page == {"search", "detail"}

(* A WineModel: quantity, bottles (NoBottles is null), cellarLocation.     *)
Model == [qty : 1..MaxQuantity, bottles : Bottles, loc : SUBSET Label]

(* A position: not there, free, or holding a bottle. The bottle_size a     *)
(* position keeps when it is freed is never read.                          *)
Absent == [wine |-> None, size |-> None]
Free == [wine |-> None, size |-> NoSize]
Position == {Absent, Free} \cup [wine : Wine, size : Size \cup {NoSize}]

(* The wine of a detail page as resolved, a StorageLocationDialog, and a    *)
(* saveWine() that waits.                                                  *)
Resolved == [wine : Wine, model : Model]
Dialog ==
    [page : Page \cup {"form"}, wine : Wine, mode : {"new", "add", "locate", "form", "remove"},
     base : Model, early : Model, size : Size \cup {NoSize}, max : Nat,
     initial : SUBSET Spot, selected : SUBSET Spot,
     stage : {"open", "confirm", "write", "apply"}, saved : BOOLEAN]
Saving == [page : Page, wine : Wine, model : Model]

ASSUME AccountingAssumption ==
    /\ Shelf \subseteq Nat /\ Index \subseteq Nat
    /\ IsFiniteSet(Shelf) /\ IsFiniteSet(Index) /\ IsFiniteSet(Size)
    /\ ShelfName \in [Shelf -> STRING]
    /\ Standard \in Size /\ NoSize \notin Size
    /\ None \notin Nat \cup Wine \cup Size \cup {NoSize} \cup Model
    /\ None \notin Resolved \cup Dialog \cup Saving
    /\ MaxQuantity \in Nat \ {0} /\ MaxPick \in 1..MaxQuantity /\ MaxOps \in Nat

VARIABLES
    qty,      \* qty[w]: cellar_wines.quantity, 0 when the wine is not there
    bottles,  \* bottles[w]: wine_bottles
    spots,    \* spots[s]: positions
    shown,    \* shown[p][w]: the wine in the MainLoaded of page p, None if not
    loading,  \* loading[p]: whether a loadWines() of p is under way
    full,     \* the wine of the open detail page with the model of _wineFuture
    dlg,      \* the open StorageLocationDialog
    saving,   \* a saveWine() that waits for freeSpots()
    intended, \* history: the bottles of w the user has put in and not taken
              \* out, or None once w was changed from an outdated model or by
              \* a dialog that was left after its first save
    ops       \* operations so far

tables == <<qty, bottles, spots>>
pages == <<shown, loading, full>>
accVars == <<tables, pages, dlg, saving, intended, ops>>

Held(w) == {s \in Spot : spots[s].wine = w}
LabelOf(s) == <<ShelfName[s[1]], s[2]>>
Total(b) == SumFunction(b)

(* getLocalWines: the row of w with its bottles and its location string.   *)
Stored(w) ==
    IF qty[w] = 0 THEN None
    ELSE [qty |-> qty[w], bottles |-> bottles[w], loc |-> {LabelOf(s) : s \in Held(w)}]

(* getWineDetails, and a wine of the search results.                       *)
Catalogue == [qty |-> 1, bottles |-> NoBottles, loc |-> {}]

(* A variant that counts no bottles of a wine without rows.                *)
EffectiveBare(m) == m.bottles

(* _effectiveBottles                                                       *)
Effective(m) ==
    IF m.bottles = NoBottles THEN [NoBottles EXCEPT ![Standard] = m.qty] ELSE m.bottles

AccountingTypeOK ==
    /\ qty \in [Wine -> 0..MaxQuantity]
    /\ bottles \in [Wine -> Bottles]
    /\ spots \in [Spot -> Position]
    /\ shown \in [Page -> [Wine -> Model \cup {None}]]
    /\ loading \in [Page -> BOOLEAN]
    /\ full \in Resolved \cup {None}
    /\ dlg \in Dialog \cup {None}
    /\ saving \in Saving \cup {None}
    /\ intended \in [Wine -> 0..MaxQuantity \cup {None}]
    /\ ops \in 0..MaxOps

(* A cabinet with its shelves and no wine; the search tab has loaded.      *)
AccountingInit ==
    /\ qty = [w \in Wine |-> 0]
    /\ bottles = [w \in Wine |-> NoBottles]
    /\ spots = [s \in Spot |-> Free]
    /\ shown = [p \in Page |-> [w \in Wine |-> None]]
    /\ loading = [p \in Page |-> FALSE]
    /\ full = None /\ dlg = None /\ saving = None
    /\ intended = [w \in Wine |-> 0]
    /\ ops = 0

(* The counts of model m of w are not those of the database (or m is None  *)
(* and there is such a wine).                                              *)
Outdated(w, m) ==
    IF m = None THEN qty[w] # 0 ELSE <<m.qty, m.bottles>> # <<qty[w], bottles[w]>>

-----------------------------------------------------------------------------
(* MainRepository and MainCubit                                            *)

(* The transaction of saveWine: bottles that are null leave the rows.      *)
PutWine(w, m) ==
    /\ qty' = [qty EXCEPT ![w] = m.qty]
    /\ bottles' = [bottles EXCEPT ![w] = IF m.bottles = NoBottles THEN @ ELSE m.bottles]

(* MainCubit.saveWine: the list of the page at once, the row, a reload.    *)
SaveModel(p, w, m) ==
    /\ PutWine(w, m)
    /\ shown' = [shown EXCEPT ![p][w] = m]
    /\ loading' = [loading EXCEPT ![p] = TRUE]
    /\ UNCHANGED spots

(* MainCubit.deleteWine: bottles cascade, positions are freed.             *)
DeleteModel(p, w) ==
    /\ qty' = [qty EXCEPT ![w] = 0]
    /\ bottles' = [bottles EXCEPT ![w] = NoBottles]
    /\ spots' = [s \in Spot |-> IF spots[s].wine = w THEN Free ELSE spots[s]]
    /\ shown' = [shown EXCEPT ![p][w] = None]
    /\ loading' = [loading EXCEPT ![p] = TRUE]

(* freeSpots: those of w with the highest position_index, n at most.       *)
Highest(w, n) ==
    {set \in SUBSET Held(w) :
        /\ Cardinality(set) <= n
        /\ Cardinality(set) < n => set = Held(w)
        /\ \A s \in set, t \in Held(w) \ set : s[2] >= t[2]}

FreeSpots(w, n) ==
    \E set \in Highest(w, n) :
        spots' = [s \in Spot |-> IF s \in set THEN Free ELSE spots[s]]

(* updateBottleSizes for a page that adds: when the new bottles are fewer  *)
(* than the quantity of the model was, positions are freed first and the   *)
(* save waits for that.                                                    *)
UpdateBottleSizes(p, w, base, new) ==
    LET m == [base EXCEPT !.qty = Total(new), !.bottles = new] IN
    \/ /\ m.qty >= base.qty
       /\ SaveModel(p, w, m)
       /\ UNCHANGED saving
    \/ /\ m.qty < base.qty
       /\ FreeSpots(w, base.qty - m.qty)
       /\ saving' = [page |-> p, wine |-> w, model |-> m]
       /\ UNCHANGED <<qty, bottles, shown, loading>>

SaveAfterFree ==
    /\ saving # None
    /\ SaveModel(saving.page, saving.wine, saving.model)
    /\ saving' = None
    /\ UNCHANGED <<full, dlg, intended, ops>>

(* loadWines answers. The detail page looks at its own wine only.          *)
Load(p) ==
    /\ loading[p]
    /\ shown' = [shown EXCEPT ![p] =
                    [w \in Wine |-> IF p = "search" \/ full.wine = w THEN Stored(w) ELSE None]]
    /\ loading' = [loading EXCEPT ![p] = FALSE]
    /\ UNCHANGED <<tables, full, dlg, saving, intended, ops>>

-----------------------------------------------------------------------------
(* Pages                                                                   *)

(* The detail page loads its own list and keeps the wine it resolved; the  *)
(* search page below it keeps its list as it is.                           *)
OpenDetail(w) ==
    /\ full = None /\ dlg = None
    /\ full' = [wine |-> w, model |-> IF qty[w] = 0 THEN Catalogue ELSE Stored(w)]
    /\ shown' = [shown EXCEPT !["detail"][w] = Stored(w)]
    /\ loading' = [loading EXCEPT !["detail"] = FALSE]
    /\ UNCHANGED <<tables, dlg, saving, intended, ops>>

(* A cubit that is closed ignores the answers it still gets; a save that   *)
(* waited for freeSpots is lost, since its emit() throws.                  *)
CloseDetail ==
    /\ full # None /\ dlg = None
    /\ full' = None
    /\ shown' = [shown EXCEPT !["detail"] = [w \in Wine |-> None]]
    /\ loading' = [loading EXCEPT !["detail"] = FALSE]
    /\ saving' = IF saving # None /\ saving.page = "detail" THEN None ELSE saving
    /\ UNCHANGED <<tables, dlg, intended, ops>>

(* An operation of the user.                                               *)
NextOp == ops < MaxOps /\ ops' = ops + 1

(* The page in front, for wine w. While updateBottleSizes awaits freeSpots *)
(* no other operation begins; the detail page may be closed.               *)
Front(p, w) ==
    /\ dlg = None /\ saving = None
    /\ IF p = "detail" THEN full # None /\ full.wine = w ELSE full = None

-----------------------------------------------------------------------------
(* StorageLocationDialog                                                   *)

(* _restoreSelectedSpotsFromWineLocation: a place in the location string   *)
(* is looked up by the name of its shelf, and the first such shelf counts. *)
Named(loc) ==
    {s \in Spot : /\ LabelOf(s) \in loc
                  /\ spots[s] # Absent
                  /\ \A sh \in Shelf : ShelfName[sh] = ShelfName[s[1]] /\ sh < s[1] =>
                                           \A i \in Index : spots[<<sh, i>>] = Absent}

(* The positions a dialog shows as selected when it opens.                 *)
Initial(w, mode, m, size) ==
    IF mode = "remove" THEN {s \in Held(w) : size \in {NoSize, spots[s].size}}
    ELSE Held(w) \cup Named(m.loc)

Opened(p, w, mode, base, early, size, max) ==
    LET initial == Initial(w, mode, early, size) IN
    dlg' = [page |-> p, wine |-> w, mode |-> mode, base |-> base, early |-> early,
            size |-> size, initial |-> initial, selected |-> initial,
            max |-> IF mode = "add" THEN Cardinality(initial) + max ELSE max,
            stage |-> "open", saved |-> FALSE]

(* The history: wines that can no longer be accounted for, an operation    *)
(* that starts from model m of w, and n bottles of w put in or taken out.  *)
Forget(W) == [w \in Wine |-> IF w \in W THEN None ELSE intended[w]]
Begin(w, m) == intended' = Forget(IF Outdated(w, m) THEN {w} ELSE {})
PutIn(w, n) == intended' = [intended EXCEPT ![w] = IF @ = None THEN None ELSE @ + n]
TakeOut(w, n) ==
    [intended EXCEPT ![w] = IF @ = None THEN None ELSE IF @ > n THEN @ - n ELSE 0]

(* "Add to Cellar", offered for a wine the page does not show as owned.    *)
AddToCellar(p, w, size, n) ==
    LET base == IF p = "detail" THEN full.model ELSE Catalogue IN
    /\ Front(p, w)
    /\ shown[p][w] = None
    /\ Opened(p, w, "new", base, [base EXCEPT !.qty = n], size, n)
    /\ Begin(w, None)
    /\ NextOp
    /\ UNCHANGED <<tables, pages, saving>>

(* "+" and "Add size"                                                      *)
AddBottles(p, w, size, n) ==
    LET base == shown[p][w] IN
    /\ Front(p, w)
    /\ base # None
    /\ base.qty + n <= MaxQuantity /\ Total(base.bottles) + n <= MaxQuantity
    /\ Opened(p, w, "add", base, [base EXCEPT !.qty = @ + n], size, n)
    /\ Begin(w, base)
    /\ NextOp
    /\ UNCHANGED <<tables, pages, saving>>

(* _showLocationDialog                                                     *)
ShowLocation(w) ==
    LET base == shown["detail"][w] IN
    /\ Front("detail", w)
    /\ base # None
    /\ Opened("detail", w, "locate", base, base, NoSize, base.qty)
    /\ Begin(w, base)
    /\ NextOp
    /\ UNCHANGED <<tables, pages, saving>>

(* AddWineForm, for a new wine or one that is edited: saved with one size, *)
(* then located; what that dialog returns is not used.                     *)
SaveForm(w, size, n) ==
    LET m == [qty |-> n, bottles |-> [NoBottles EXCEPT ![size] = n], loc |-> {}] IN
    /\ Front("form", w)
    /\ PutWine(w, m)
    /\ Opened("form", w, "form", m, m, NoSize, n)
    /\ intended' = [intended EXCEPT ![w] = n]
    /\ NextOp
    /\ UNCHANGED <<spots, pages, saving>>

(* "-" from storage: on the detail page for one size, on the search page   *)
(* for all.                                                                *)
RemoveFromStorage(p, w, size) ==
    LET base == shown[p][w] IN
    /\ Front(p, w)
    /\ base # None
    /\ (p = "search") <=> (size = NoSize)
    /\ size \in Size => Effective(base)[size] > 0
    /\ Initial(w, "remove", base, size) # {}
    /\ Opened(p, w, "remove", base, base, size,
              IF size = NoSize THEN base.qty ELSE Effective(base)[size])
    /\ Begin(w, base)
    /\ NextOp
    /\ UNCHANGED <<tables, pages, saving>>

(* A variant of Selections that lets positions of other wines be tapped.   *)
SelectionsAnywhere(d) ==
    IF d.mode = "remove" THEN SUBSET d.initial
    ELSE {set \in SUBSET {s \in Spot : spots[s] # Absent} : Cardinality(set) <= d.max}

(* A variant of Selections without the limit on tapping.                   *)
SelectionsUnlimited(d) ==
    LET tappable == {s \in Spot : spots[s] # Absent /\ spots[s].wine \in {None, d.wine}}
        fixed == IF d.mode = "add" THEN d.initial ELSE d.initial \ tappable
    IN IF d.mode = "remove" THEN SUBSET d.initial
       ELSE {set \in SUBSET (d.initial \cup tappable) : fixed \subseteq set}

(* The positions that can be selected: those of other wines cannot be      *)
(* tapped, nor can locked ones, and none beyond the limit is added.        *)
Selections(d) ==
    LET tappable == {s \in Spot : spots[s] # Absent /\ spots[s].wine \in {None, d.wine}}
        fixed == IF d.mode = "add" THEN d.initial ELSE d.initial \ tappable
    IN IF d.mode = "remove"
       THEN {set \in SUBSET d.initial : Cardinality(d.initial \ set) <= d.max}
       ELSE {set \in SUBSET (d.initial \cup tappable) :
                /\ fixed \subseteq set
                /\ set \subseteq d.initial \/ Cardinality(set) <= d.max}

(* _saveLocation stores the wine first; then more positions than bottles   *)
(* are refused (unless the storage chosen last is "Unassigned"), and a     *)
(* change of positions has to be confirmed.                                *)
SaveLocation ==
    /\ dlg # None /\ dlg.mode # "remove" /\ dlg.stage = "open"
    /\ PutWine(dlg.wine, dlg.early)
    /\ \E set \in Selections(dlg), unassigned \in BOOLEAN :
           dlg' = [dlg EXCEPT
                     !.selected = set,
                     !.saved = TRUE,
                     !.stage = CASE ~unassigned /\ Cardinality(set) > dlg.early.qty -> "open"
                                 [] OTHER -> IF set # dlg.initial THEN "confirm" ELSE "write"]
    /\ UNCHANGED <<spots, pages, saving, intended, ops>>

(* _saveLocationRemoveMode stores nothing first.                           *)
SaveLocationRemoveMode ==
    /\ dlg # None /\ dlg.mode = "remove" /\ dlg.stage = "open"
    /\ \E set \in Selections(dlg) \ {dlg.initial} :
           dlg' = [dlg EXCEPT !.selected = set, !.stage = "confirm"]
    /\ UNCHANGED <<tables, pages, saving, intended, ops>>

Confirm ==
    /\ dlg # None /\ dlg.stage = "confirm"
    /\ \E yes \in BOOLEAN : dlg' = [dlg EXCEPT !.stage = IF yes THEN "write" ELSE "open"]
    /\ UNCHANGED <<tables, pages, saving, intended, ops>>

(* The dialog has stored bottles that its page would add.                  *)
Promised == dlg # None /\ dlg.saved /\ dlg.mode \in {"new", "add"}

(* "Cancel", and "Remove" without a change: the page gets no result. (The  *)
(* barrier could also close the dialog in the middle of its writes, which  *)
(* is left out.)                                                           *)
CancelDialog ==
    /\ dlg # None /\ dlg.stage = "open"
    /\ dlg' = None
    /\ intended' = Forget(IF Promised THEN {dlg.wine} ELSE {})
    /\ UNCHANGED <<tables, pages, saving, ops>>

(* The positions as loaded with the selected ones given to the wine and    *)
(* its other ones freed. (No other step changes positions while a dialog   *)
(* is open, so those in the table are those it has loaded.)                *)
Rearranged(d) ==
    [s \in Spot |->
        IF d.mode # "remove" /\ s \in d.selected /\ spots[s].wine # d.wine
        THEN [wine |-> d.wine, size |-> d.size]
        ELSE IF s \notin d.selected
                /\ (IF d.mode = "remove" THEN s \in d.initial ELSE spots[s].wine = d.wine)
        THEN Free
        ELSE spots[s]]

(* saveCabinet, if a position changed; then the page gets its result.      *)
WriteLocation ==
    /\ dlg # None /\ dlg.stage = "write"
    /\ spots' = Rearranged(dlg)
    /\ dlg' = [dlg EXCEPT !.stage = "apply"]
    /\ UNCHANGED <<qty, bottles, pages, saving, intended, ops>>

-----------------------------------------------------------------------------
(* What the pages do with the result                                       *)

(* _addToCellar of the three pages                                         *)
ApplyNew ==
    LET m == [dlg.early EXCEPT !.bottles = [NoBottles EXCEPT ![dlg.size] = dlg.early.qty],
                               !.loc = {LabelOf(s) : s \in dlg.selected}]
    IN /\ dlg # None /\ dlg.stage = "apply" /\ dlg.mode = "new"
       /\ SaveModel(dlg.page, dlg.wine, m)
       /\ dlg' = None
       /\ PutIn(dlg.wine, m.qty)
       /\ UNCHANGED <<full, saving, ops>>

ApplyAdd ==
    LET n == dlg.early.qty - dlg.base.qty IN
    /\ dlg # None /\ dlg.stage = "apply" /\ dlg.mode = "add"
    /\ UpdateBottleSizes(dlg.page, dlg.wine, dlg.base,
                         [Effective(dlg.base) EXCEPT ![dlg.size] = @ + n])
    /\ dlg' = None
    /\ PutIn(dlg.wine, n)
    /\ UNCHANGED <<full, ops>>

ApplyLocate ==
    /\ dlg # None /\ dlg.stage = "apply" /\ dlg.mode = "locate"
    /\ SaveModel("detail", dlg.wine, [dlg.base EXCEPT !.loc = {LabelOf(s) : s \in dlg.selected}])
    /\ dlg' = None
    /\ UNCHANGED <<full, saving, intended, ops>>

ApplyForm ==
    /\ dlg # None /\ dlg.stage = "apply" /\ dlg.mode = "form"
    /\ dlg' = None
    /\ UNCHANGED <<tables, pages, saving, intended, ops>>

(* The detail page takes n bottles of one size.                            *)
TakeSize(m, size, n) ==
    {[Effective(m) EXCEPT ![size] = IF @ > n THEN @ - n ELSE 0]}

(* The search page takes them from the sizes with the most bottles.        *)
TakeLargest(m, n) ==
    LET old == Effective(m) IN
    {new \in [Size -> 0..MaxQuantity] :
        /\ \A s \in Size : new[s] <= old[s]
        /\ Total(new) = IF Total(old) > n THEN Total(old) - n ELSE 0
        /\ \A s, t \in Size : new[t] < old[t] /\ old[s] > old[t] => new[s] = 0
        /\ \A s, t \in Size : new[s] \in 1..(old[s] - 1) /\ new[t] \in 1..(old[t] - 1) => s = t}

(* A variant of RemoveBottles that stores a wine without bottles.          *)
RemoveBottlesKept(p, w, base, size, n) ==
    \E new \in IF p = "detail" THEN TakeSize(base, size, n) ELSE TakeLargest(base, n) :
        SaveModel(p, w, [base EXCEPT !.qty = Total(new), !.bottles = new])

(* The wine goes when no bottle is left, on the search page also when its  *)
(* quantity says so.                                                       *)
RemoveBottles(p, w, base, size, n) ==
    \E new \in IF p = "detail" THEN TakeSize(base, size, n) ELSE TakeLargest(base, n) :
        IF new = NoBottles \/ (p = "search" /\ base.qty <= n) THEN DeleteModel(p, w)
        ELSE SaveModel(p, w, [base EXCEPT !.qty = Total(new), !.bottles = new])

ApplyRemove ==
    LET n == Cardinality(dlg.initial \ dlg.selected) IN
    /\ dlg # None /\ dlg.stage = "apply" /\ dlg.mode = "remove"
    /\ RemoveBottles(dlg.page, dlg.wine, dlg.base, dlg.size, n)
    /\ dlg' = None
    /\ intended' = TakeOut(dlg.wine, n)
    /\ UNCHANGED <<full, saving, ops>>

(* A variant of RemoveUnassigned that asks for no dialog.                  *)
RemoveUndirected(p, w, size, n) ==
    LET base == shown[p][w] IN
    /\ Front(p, w)
    /\ base # None
    /\ (p = "search") <=> (size = NoSize)
    /\ size \in Size => Effective(base)[size] > 0
    /\ RemoveBottles(p, w, base, size, n)
    /\ intended' = IF Outdated(w, base) THEN Forget({w}) ELSE TakeOut(w, n)
    /\ NextOp
    /\ UNCHANGED <<full, dlg, saving>>

(* "-" without a dialog: one bottle of a size (of a wine, on the search    *)
(* page) no position holds, or some of the unassigned ones of a size.      *)
RemoveUnassigned(p, w, size, n) ==
    LET base == shown[p][w]
        held == Initial(w, "remove", base, size)
    IN /\ Front(p, w)
       /\ base # None
       /\ (p = "search") <=> (size = NoSize)
       /\ size \in Size => Effective(base)[size] > 0
       /\ \/ held = {} /\ n = 1
          \/ size \in Size /\ held # {} /\ Cardinality(held) + n <= Effective(base)[size]
       /\ RemoveBottles(p, w, base, size, n)
       /\ intended' = IF Outdated(w, base) THEN Forget({w}) ELSE TakeOut(w, n)
       /\ NextOp
       /\ UNCHANGED <<full, dlg, saving>>

(* EditWineDialog works on the model the page resolved when it was opened, *)
(* which keeps the counts of that time.                                    *)
EditWine(w) ==
    /\ Front("detail", w)
    /\ shown["detail"][w] # None
    /\ SaveModel("detail", w, full.model)
    /\ Begin(w, full.model)
    /\ NextOp
    /\ UNCHANGED <<full, dlg, saving>>

-----------------------------------------------------------------------------
(* Archive, storage management, and the process                            *)

(* restoreWine: one bottle, no sizes. The archive tab, reloaded whenever   *)
(* it is shown, lists no wine of the cellar.                               *)
Restore(w) ==
    /\ full = None /\ dlg = None
    /\ qty[w] = 0
    /\ qty' = [qty EXCEPT ![w] = 1]
    /\ intended' = [intended EXCEPT ![w] = 1]
    /\ NextOp
    /\ UNCHANGED <<bottles, spots, pages, dlg, saving>>

(* addShelf and deleteCabinet: the page reloads the cabinets when it is    *)
(* shown and after every change.                                           *)
AddShelf(sh) ==
    /\ full = None /\ dlg = None
    /\ \A i \in Index : spots[<<sh, i>>] = Absent
    /\ spots' = [s \in Spot |-> IF s[1] = sh THEN Free ELSE spots[s]]
    /\ NextOp
    /\ UNCHANGED <<qty, bottles, pages, dlg, saving, intended>>

DeleteCabinet ==
    /\ full = None /\ dlg = None
    /\ spots' = [s \in Spot |-> Absent]
    /\ NextOp
    /\ UNCHANGED <<qty, bottles, pages, dlg, saving, intended>>

(* The process is killed; at the next start the pages load.                *)
Kill ==
    /\ shown' = [p \in Page |-> [w \in Wine |-> IF p = "search" THEN Stored(w) ELSE None]]
    /\ loading' = [p \in Page |-> FALSE]
    /\ full' = None /\ dlg' = None /\ saving' = None
    /\ intended' = Forget({w \in Wine : \/ Promised /\ dlg.wine = w
                                        \/ saving # None /\ saving.wine = w})
    /\ UNCHANGED <<tables, ops>>

(* What the user begins.                                                   *)
Operation ==
    \/ \E w \in Wine : ShowLocation(w) \/ EditWine(w) \/ Restore(w)
    \/ \E w \in Wine, n \in 1..MaxPick :
          \/ \E size \in Size : SaveForm(w, size, n)
          \/ \E p \in Page, size \in Size :
                AddToCellar(p, w, size, n) \/ AddBottles(p, w, size, n)
          \/ \E p \in Page, size \in Size \cup {NoSize} : RemoveUnassigned(p, w, size, n)
    \/ \E p \in Page, w \in Wine, size \in Size \cup {NoSize} : RemoveFromStorage(p, w, size)
    \/ \E sh \in Shelf : AddShelf(sh)
    \/ DeleteCabinet

(* What follows from it, and the way around.                               *)
DialogStep ==
    \/ SaveLocation \/ SaveLocationRemoveMode
    \/ Confirm \/ CancelDialog \/ WriteLocation
    \/ ApplyNew \/ ApplyAdd \/ ApplyLocate \/ ApplyForm \/ ApplyRemove

OtherStep ==
    \/ \E w \in Wine : OpenDetail(w)
    \/ CloseDetail
    \/ SaveAfterFree
    \/ \E p \in Page : Load(p)
    \/ Kill

AccountingNext ==
    \/ Operation
    \/ DialogStep
    \/ OtherStep

AccountingSpec == AccountingInit /\ [][AccountingNext]_accVars

-----------------------------------------------------------------------------
(* Properties                                                              *)

(* A dialog on w follows a save or is past its first one, or a save of w   *)
(* is waiting.                                                             *)
UnderWay(w) ==
    \/ dlg # None /\ dlg.wine = w /\ (dlg.saved \/ dlg.mode = "form")
    \/ saving # None /\ saving.wine = w

(***************************************************************************)
(* Quantity, bottle sizes and what the user has added and removed agree    *)
(* whenever no change is under way, through additions, removals on either  *)
(* page, edits, restores and moves: only a wine that was changed from an   *)
(* outdated copy, or left in a dialog after its first save, can be         *)
(* miscounted (updateBottleSizes, _removeOneBottle, _saveLocation).        *)
(***************************************************************************)
CountsAgree ==
    \A w \in {v \in Wine : intended[v] # None} :
        \/ UnderWay(w)
        \/ /\ qty[w] = intended[w]
           /\ bottles[w] = NoBottles \/ Total(bottles[w]) = qty[w]

(***************************************************************************)
(* A position changes hands only to the wine of the dialog, and one that   *)
(* holds another wine only when the location string of that dialog's       *)
(* model names its place (_restoreSelectedSpotsFromWineLocation).          *)
(***************************************************************************)
TakesOnlyNamed ==
    [][\A s \in Spot :
          spots[s].wine \in Wine /\ spots'[s].wine \in Wine \ {spots[s].wine} =>
              /\ dlg # None /\ spots'[s].wine = dlg.wine
              /\ LabelOf(s) \in dlg.early.loc]_accVars

(***************************************************************************)
(* A dialog gives a wine no more positions than it has bottles, although   *)
(* "Unassigned" skips the check of _saveLocation: the limit on tapping     *)
(* holds. The exceptions are adding to a wine that had more positions than *)
(* bottles already, when the limit counts from its positions, and          *)
(* positions that the location string only seems to name.                  *)
(***************************************************************************)
PlacesWithinBottles ==
    [][\A w \in Wine :
          LET new == Held(w)' \ Held(w) IN
          new # {} /\ Cardinality(Held(w)') > qty'[w] =>
              \/ dlg.mode = "add" /\ Cardinality(Held(w)) > dlg.base.qty
              \/ \E s \in new : LabelOf(s) \in dlg.early.loc]_accVars

HeldOf(w, size) == {s \in Held(w) : spots[s].size = size}

(* The positions that a dialog for removing bottles of w has freed, while  *)
(* its page has not taken the bottles out yet; those of the given size.    *)
Freed(w) ==
    IF dlg # None /\ dlg.wine = w /\ dlg.mode = "remove" /\ dlg.stage = "apply"
    THEN dlg.initial \ dlg.selected ELSE {}
FreedOf(w, size) == IF dlg # None /\ dlg.size = size THEN Freed(w) ELSE {}

(* Every position that w has, or had before the dialog, has the size of a  *)
(* bottle of its own.                                                      *)
Fitting(w) ==
    LET counts == Effective(Stored(w)) IN
    /\ HeldOf(w, NoSize) = {}
    /\ Cardinality(Held(w) \cup Freed(w)) <= Total(counts)
    /\ \A size \in Size :
          Cardinality(HeldOf(w, size) \cup FreedOf(w, size)) <= counts[size]

(***************************************************************************)
(* Taking bottles out of a wine whose positions fit its sizes leaves no    *)
(* position without a bottle, on either page, with or without a dialog     *)
(* (_removeOneBottle, _buildSizeQuantityPicker). Only the form, which      *)
(* stores its quantity before the dialog opens, and an outdated copy do.   *)
(***************************************************************************)
RemovalsFit ==
    [][\A w \in Wine :
          qty'[w] \in 1..(qty[w] - 1) /\ Fitting(w) /\ Cardinality(Held(w)') > qty'[w] =>
              \/ intended'[w] = None
              \/ dlg' # None /\ dlg'.mode = "form"]_accVars

=============================================================================
