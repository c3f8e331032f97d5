-------------------------- MODULE AccountingProofs --------------------------
(***************************************************************************)
(* Proofs about BottleAccounting for any number of wines, sizes, shelves   *)
(* and bottles: its types, CountsAgree, and the three action properties on *)
(* positions.                                                              *)
(*                                                                         *)
(* None of them is inductive. What carries them is what a dialog knows: it *)
(* works on a copy of the wine that was read before it opened, stores it   *)
(* once before the positions are chosen and once after, and only the       *)
(* second time with all bottles. AccountingInv says, part by part, how the *)
(* copy, the row and the history differ in between.                        *)
(***************************************************************************)
EXTENDS BottleAccounting, BottleSums

(* The models of at most MaxQuantity bottles, which is all the pages keep. *)
Counted == {m \in Model : Total(m.bottles) <= MaxQuantity}

(* The sizes of a model add up to its quantity, if it has any.             *)
Agree(m) == m.bottles = NoBottles \/ Total(m.bottles) = m.qty

-----------------------------------------------------------------------------
(* The inductive invariant                                                 *)

(* A wine that is not there has no bottles.                                *)
TablesOK ==
    /\ qty \in [Wine -> 0..MaxQuantity]
    /\ bottles \in [Wine -> Bottles]
    /\ \A w \in Wine : /\ Total(bottles[w]) <= MaxQuantity
                       /\ qty[w] = 0 => bottles[w] = NoBottles

SpotsOK == spots \in [Spot -> Position]

ShownOK ==
    /\ shown \in [Page -> [Wine -> Counted \cup {None}]]
    /\ loading \in [Page -> BOOLEAN]

FullOK == full \in [wine : Wine, model : Counted] \cup {None}

(* How the fields of a dialog fit together, and the row that it stores     *)
(* first.                                                                  *)
DialogForm(d) ==
    /\ d.base \in Counted
    /\ d.early.bottles = d.base.bottles
    /\ d.mode # "form" => d.page \in Page
    /\ d.mode \notin {"new", "add"} => d.early = d.base
    /\ d.mode \in {"new", "add"} => d.size \in Size
    /\ d.mode = "add" =>
          /\ d.early.qty > d.base.qty
          /\ Total(d.base.bottles) + (d.early.qty - d.base.qty) <= MaxQuantity
    /\ d.mode = "remove" =>
          /\ ~d.saved
          /\ (d.page = "search") <=> (d.size = NoSize)
          /\ d.size \in Size => d.max = Effective(d.base)[d.size]
          /\ Cardinality(d.initial \ d.selected) <= d.max
    /\ d.mode # "remove" =>
          /\ d.saved => qty[d.wine] = d.early.qty
          /\ d.stage # "open" => d.saved

(* What a dialog is based on, while its wine is accounted for.             *)
DialogBase(d) ==
    intended[d.wine] # None =>
        IF d.mode = "new" THEN intended[d.wine] = 0 /\ (~d.saved => qty[d.wine] = 0)
        ELSE /\ intended[d.wine] = d.base.qty
             /\ Agree(d.base)
             /\ bottles[d.wine] = d.base.bottles
             /\ ~(d.saved /\ d.mode = "add") => qty[d.wine] = d.base.qty

(* The positions a dialog shows and those selected, until it writes them.  *)
ChosenPlaces(d) ==
    /\ Held(d.wine) \subseteq d.initial
    /\ \A s \in d.initial \ Held(d.wine) : LabelOf(s) \in d.early.loc
    /\ \A s \in d.selected \ d.initial : spots[s].wine \in {None, d.wine}
    /\ d.selected \subseteq d.initial \/ Cardinality(d.selected) <= d.max
    /\ d.mode = "add" => d.initial \subseteq d.selected
    /\ d.max = IF d.mode = "add" THEN Cardinality(d.initial) + (d.early.qty - d.base.qty)
                                 ELSE d.early.qty
DialogPlaces(d) ==
    /\ d.mode # "remove" /\ d.stage # "apply" => ChosenPlaces(d)
    /\ d.mode = "remove" /\ d.stage = "apply" =>
          Held(d.wine) \cap (d.initial \ d.selected) = {}

DialogOK ==
    /\ dlg \in Dialog \cup {None}
    /\ dlg # None => /\ saving = None
                     /\ DialogForm(dlg) /\ DialogBase(dlg) /\ DialogPlaces(dlg)

(* A save that waits is one of a wine that is there and not accounted for. *)
SavingOK ==
    /\ saving \in [page : Page, wine : Wine, model : Counted] \cup {None}
    /\ saving # None => qty[saving.wine] # 0 /\ intended[saving.wine] = None

(* The row and the sizes of w are what the user has put in.                *)
AccountedFor(w) ==
    intended[w] # None => /\ qty[w] = intended[w]
                          /\ bottles[w] = NoBottles \/ Total(bottles[w]) = qty[w]

HistoryOK ==
    /\ intended \in [Wine -> 0..MaxQuantity \cup {None}]
    /\ \A w \in Wine : (dlg # None => dlg.wine # w) => AccountedFor(w)

AccountingInv ==
    /\ TablesOK /\ SpotsOK /\ ShownOK /\ FullOK
    /\ DialogOK /\ SavingOK /\ HistoryOK
    /\ ops \in 0..MaxOps

-----------------------------------------------------------------------------
(* Positions, totals and sizes                                             *)

(***************************************************************************)
(* There are finitely many positions.                                      *)
(***************************************************************************)
LEMMA SpotsFinite ==
    \A set \in SUBSET Spot : IsFiniteSet(set) /\ Cardinality(set) \in Nat
<1>1. IsFiniteSet(Spot)
  BY AccountingAssumption, FS_Product DEF Spot
<1> QED
  BY <1>1, FS_Subset, FS_CardinalityType

(***************************************************************************)
(* The total of the sizes, and how it changes with one of them.            *)
(***************************************************************************)
LEMMA Totals ==
    ASSUME NEW b \in [Size -> Nat]
    PROVE  /\ Total(b) \in Nat
           /\ \A size \in Size : b[size] <= Total(b)
           /\ Total(b) = 0 <=> b = NoBottles
           /\ \A size \in Size, n \in Nat :
                 Total([b EXCEPT ![size] = n]) = (Total(b) - b[size]) + n
<1>1. IsFiniteSet(Size)
  BY AccountingAssumption
<1>2. SumFunction(b) \in Nat /\ \A size \in Size : b[size] <= SumFunction(b)
  BY <1>1, SumBounds
<1>3. SumFunction(b) = 0 <=> b = NoBottles
  BY <1>1, SumZero DEF NoBottles
<1>4. ASSUME NEW size \in Size, NEW n \in Nat
      PROVE  SumFunction([b EXCEPT ![size] = n]) = (SumFunction(b) - b[size]) + n
  BY <1>1, SumExcept
<1> QED
  BY <1>2, <1>3, <1>4 DEF Total

(***************************************************************************)
(* Sizes within the bound, and none at all, are sizes.                     *)
(***************************************************************************)
LEMMA BottlesAreCounts ==
    /\ Bottles \subseteq [Size -> Nat]
    /\ NoBottles \in Bottles /\ Total(NoBottles) = 0
    /\ \A b \in [Size -> Nat] : Total(b) <= MaxQuantity => b \in Bottles
<1>1. Bottles \subseteq [Size -> Nat] /\ NoBottles \in Bottles
  BY AccountingAssumption DEF Bottles, NoBottles
<1>2. Total(NoBottles) = 0
  BY <1>1, Totals
<1>3. ASSUME NEW b \in [Size -> Nat], Total(b) <= MaxQuantity PROVE b \in Bottles
  <2>1. \A size \in Size : b[size] \in 0..MaxQuantity
    BY <1>3, Totals, AccountingAssumption
  <2> QED
    BY <2>1 DEF Bottles
<1> QED
  BY <1>1, <1>2, <1>3

(***************************************************************************)
(* Bottles of one size only.                                               *)
(***************************************************************************)
LEMMA OneSize ==
    ASSUME NEW size \in Size, NEW n \in 1..MaxQuantity
    PROVE  /\ [NoBottles EXCEPT ![size] = n] \in Bottles
           /\ [NoBottles EXCEPT ![size] = n] # NoBottles
           /\ Total([NoBottles EXCEPT ![size] = n]) = n
<1> DEFINE b == [NoBottles EXCEPT ![size] = n]
<1>1. n \in Nat \ {0} /\ MaxQuantity \in Nat
  BY AccountingAssumption
<1>2. NoBottles \in [Size -> Nat] /\ NoBottles[size] = 0 /\ Total(NoBottles) = 0
  BY BottlesAreCounts DEF NoBottles
<1>3. Total(b) = (Total(NoBottles) - NoBottles[size]) + n
  BY <1>1, <1>2, Totals
<1>4. b \in [Size -> Nat]
  BY <1>1, <1>2
<1> HIDE DEF b
<1>5. Total(b) = n
  BY <1>1, <1>2, <1>3
<1>6. b \in Bottles /\ b # NoBottles
  BY <1>1, <1>2, <1>4, <1>5, BottlesAreCounts
<1> QED
  BY <1>5, <1>6 DEF b

(***************************************************************************)
(* _effectiveBottles counts every bottle of a model once.                  *)
(***************************************************************************)
LEMMA EffectiveSizes ==
    ASSUME NEW m \in Counted
    PROVE  /\ Effective(m) \in Bottles
           /\ Total(Effective(m)) \in 1..MaxQuantity
           /\ m.bottles # NoBottles => Total(Effective(m)) = Total(m.bottles)
           /\ Agree(m) => Total(Effective(m)) = m.qty
<1>1. /\ m.qty \in 1..MaxQuantity /\ m.bottles \in Bottles
      /\ Total(m.bottles) <= MaxQuantity /\ m.bottles \in [Size -> Nat]
  BY BottlesAreCounts DEF Counted, Model
<1>2. CASE m.bottles = NoBottles
  <2>1. Effective(m) = [NoBottles EXCEPT ![Standard] = m.qty] /\ Standard \in Size
    BY <1>2, AccountingAssumption DEF Effective
  <2>2. Effective(m) \in Bottles /\ Total(Effective(m)) = m.qty
    BY <1>1, <2>1, OneSize
  <2> QED
    BY <1>1, <1>2, <2>2
<1>3. CASE m.bottles # NoBottles
  <2>1. Effective(m) = m.bottles
    BY <1>3 DEF Effective
  <2>2. Total(m.bottles) \in Nat \ {0} /\ MaxQuantity \in Nat
    BY <1>1, <1>3, Totals, AccountingAssumption
  <2> QED
    BY <1>1, <1>3, <2>1, <2>2 DEF Agree
<1> QED
  BY <1>2, <1>3

(***************************************************************************)
(* The fields of a model.                                                  *)
(***************************************************************************)
LEMMA ModelFields ==
    ASSUME NEW m \in Counted
    PROVE  /\ m \in Model /\ m.qty \in 1..MaxQuantity /\ m.qty \in Nat
           /\ m.bottles \in Bottles /\ Total(m.bottles) <= MaxQuantity
           /\ Total(m.bottles) \in Nat /\ MaxQuantity \in Nat
<1>1. m \in Model /\ m.qty \in 1..MaxQuantity /\ m.bottles \in Bottles
      /\ Total(m.bottles) <= MaxQuantity
  BY DEF Counted, Model
<1> QED
  BY <1>1, BottlesAreCounts, Totals, AccountingAssumption

(***************************************************************************)
(* The labels of positions.                                                *)
(***************************************************************************)
LEMMA LabelType ==
    ASSUME NEW set \in SUBSET Spot
    PROVE  {LabelOf(s) : s \in set} \in SUBSET Label
<1>1. ASSUME NEW s \in set PROVE LabelOf(s) \in Label
  <2>1. s[1] \in Shelf /\ s[2] \in Index
    BY DEF Spot
  <2> QED
    BY <2>1 DEF LabelOf, Label
<1> QED
  BY <1>1

(***************************************************************************)
(* What getLocalWines loads and what the catalogue shows.                  *)
(***************************************************************************)
LEMMA LoadedModels ==
    ASSUME TablesOK
    PROVE  /\ Catalogue \in Counted
           /\ \A w \in Wine :
                 /\ Stored(w) \in Counted \cup {None}
                 /\ qty[w] # 0 => /\ Stored(w) \in Counted
                                  /\ Stored(w).qty = qty[w]
                                  /\ Stored(w).bottles = bottles[w]
<1>1. Catalogue \in Counted
  BY AccountingAssumption, BottlesAreCounts DEF Catalogue, Counted, Model
<1>2. ASSUME NEW w \in Wine, qty[w] # 0
      PROVE  /\ Stored(w) \in Counted
             /\ Stored(w).qty = qty[w] /\ Stored(w).bottles = bottles[w]
  <2>1. {LabelOf(s) : s \in Held(w)} \in SUBSET Label
    BY LabelType DEF Held
  <2>2. qty[w] \in 1..MaxQuantity /\ bottles[w] \in Bottles /\ Total(bottles[w]) <= MaxQuantity
    BY <1>2, AccountingAssumption DEF TablesOK
  <2> QED
    BY <1>2, <2>1, <2>2 DEF Stored, Counted, Model
<1>3. ASSUME NEW w \in Wine, qty[w] = 0 PROVE Stored(w) = None
  BY <1>3 DEF Stored
<1> QED
  BY <1>1, <1>2, <1>3

-----------------------------------------------------------------------------
(* What the shared parts of the actions do                                 *)

OthersKept(w) == \A v \in Wine \ {w} : qty'[v] = qty[v] /\ bottles'[v] = bottles[v]

(***************************************************************************)
(* The transaction of saveWine.                                            *)
(***************************************************************************)
LEMMA PutKeeps ==
    ASSUME TablesOK, NEW w \in Wine, NEW m \in Counted, PutWine(w, m)
    PROVE  /\ TablesOK' /\ OthersKept(w)
           /\ qty'[w] = m.qty
           /\ bottles'[w] = IF m.bottles = NoBottles THEN bottles[w] ELSE m.bottles
<1>1. m.qty \in 1..MaxQuantity /\ m.bottles \in Bottles /\ Total(m.bottles) <= MaxQuantity
  BY ModelFields
<1>2. /\ qty'[w] = m.qty
      /\ bottles'[w] = IF m.bottles = NoBottles THEN bottles[w] ELSE m.bottles
      /\ OthersKept(w)
  BY DEF PutWine, TablesOK, OthersKept
<1>3. qty' \in [Wine -> 0..MaxQuantity] /\ bottles' \in [Wine -> Bottles]
  <2>1. m.qty \in 0..MaxQuantity
    BY <1>1
  <2> QED
    BY <1>1, <2>1 DEF PutWine, TablesOK
<1>4. \A v \in Wine : /\ Total(bottles'[v]) <= MaxQuantity
                      /\ qty'[v] = 0 => bottles'[v] = NoBottles
  <2>1. m.qty # 0
    BY <1>1
  <2> QED
    BY <1>1, <1>2, <2>1 DEF TablesOK, OthersKept
<1> QED
  BY <1>2, <1>3, <1>4 DEF TablesOK

(***************************************************************************)
(* MainCubit.saveWine.                                                     *)
(***************************************************************************)
LEMMA SaveKeeps ==
    ASSUME TablesOK, ShownOK, NEW p \in Page, NEW w \in Wine, NEW m \in Counted,
           SaveModel(p, w, m)
    PROVE  /\ TablesOK' /\ ShownOK' /\ OthersKept(w) /\ UNCHANGED spots
           /\ qty'[w] = m.qty
           /\ bottles'[w] = IF m.bottles = NoBottles THEN bottles[w] ELSE m.bottles
<1>1. PutWine(w, m) /\ UNCHANGED spots
  BY DEF SaveModel
<1>2. ShownOK'
  BY DEF SaveModel, ShownOK
<1> QED
  BY <1>1, <1>2, PutKeeps

(***************************************************************************)
(* MainCubit.deleteWine.                                                   *)
(***************************************************************************)
LEMMA DeleteKeeps ==
    ASSUME TablesOK, SpotsOK, ShownOK, NEW p \in Page, NEW w \in Wine, DeleteModel(p, w)
    PROVE  /\ TablesOK' /\ SpotsOK' /\ ShownOK' /\ OthersKept(w)
           /\ qty'[w] = 0 /\ bottles'[w] = NoBottles
<1>1. qty'[w] = 0 /\ bottles'[w] = NoBottles /\ OthersKept(w)
  BY DEF DeleteModel, TablesOK, OthersKept
<1>2. qty' \in [Wine -> 0..MaxQuantity] /\ bottles' \in [Wine -> Bottles]
  BY BottlesAreCounts, AccountingAssumption DEF DeleteModel, TablesOK
<1>3. \A v \in Wine : /\ Total(bottles'[v]) <= MaxQuantity
                      /\ qty'[v] = 0 => bottles'[v] = NoBottles
  BY <1>1, BottlesAreCounts, AccountingAssumption DEF TablesOK, OthersKept
<1>4. ShownOK'
  BY DEF DeleteModel, ShownOK
<1>5. SpotsOK'
  BY DEF DeleteModel, SpotsOK, Position
<1> QED
  BY <1>1, <1>2, <1>3, <1>4, <1>5 DEF TablesOK

(***************************************************************************)
(* What is left when n bottles are taken, from one size or from the        *)
(* largest ones: n fewer, if the one size has so many.                     *)
(***************************************************************************)
LEMMA TakenSizes ==
    ASSUME NEW m \in Counted, NEW p \in Page, NEW size \in Size \cup {NoSize},
           p = "detail" => size \in Size, NEW n \in Nat,
           NEW new \in IF p = "detail" THEN TakeSize(m, size, n) ELSE TakeLargest(m, n)
    PROVE  /\ new \in Bottles /\ Total(new) <= MaxQuantity
           /\ (p = "detail" => n <= Effective(m)[size]) =>
                 Total(new) = IF Total(Effective(m)) > n THEN Total(Effective(m)) - n ELSE 0
<1> DEFINE old == Effective(m)
<1>1. old \in Bottles /\ Total(old) \in 1..MaxQuantity /\ old \in [Size -> Nat]
  BY EffectiveSizes, BottlesAreCounts
<1>2. MaxQuantity \in Nat
  BY AccountingAssumption
<1> HIDE DEF old
<1>3. CASE p = "detail"
  <2> DEFINE left == IF old[size] > n THEN old[size] - n ELSE 0
  <2>1. new = [old EXCEPT ![size] = left] /\ size \in Size
    BY <1>3 DEF TakeSize, old
  <2>2. left \in Nat /\ old[size] \in Nat /\ left <= old[size]
        /\ (n <= old[size] => left = old[size] - n)
    BY <1>1, <2>1
  <2> HIDE DEF left
  <2>3. Total(new) = (Total(old) - old[size]) + left /\ old[size] <= Total(old)
    BY <1>1, <2>1, <2>2, Totals
  <2>4. Total(new) <= MaxQuantity
        /\ (n <= old[size] => Total(new) = IF Total(old) > n THEN Total(old) - n ELSE 0)
    BY <1>1, <1>2, <2>2, <2>3
  <2>5. new \in [Size -> Nat]
    BY <1>1, <2>1, <2>2
  <2> QED
    BY <1>3, <2>4, <2>5, BottlesAreCounts DEF old
<1>4. CASE p # "detail"
  <2>1. /\ new \in [Size -> 0..MaxQuantity]
        /\ Total(new) = IF Total(old) > n THEN Total(old) - n ELSE 0
    BY <1>4 DEF TakeLargest, old
  <2>2. Total(new) <= MaxQuantity
    BY <1>1, <1>2, <2>1
  <2> QED
    BY <2>1, <2>2 DEF Bottles, old
<1> QED
  BY <1>3, <1>4

(***************************************************************************)
(* Taking bottles out, from a model whose sizes and quantity agree: the    *)
(* row has n fewer bottles, or is gone.                                    *)
(***************************************************************************)
LEMMA RemoveKeeps ==
    ASSUME TablesOK, SpotsOK, ShownOK, NEW p \in Page, NEW w \in Wine,
           NEW base \in Counted, NEW size \in Size \cup {NoSize},
           p = "detail" => size \in Size, NEW n \in Nat,
           RemoveBottles(p, w, base, size, n)
    PROVE  /\ TablesOK' /\ SpotsOK' /\ ShownOK' /\ OthersKept(w)
           /\ qty'[w] # 0 => UNCHANGED spots
           /\ Agree(base) /\ (p = "detail" => n <= Effective(base)[size]) =>
                 /\ qty'[w] = IF base.qty > n THEN base.qty - n ELSE 0
                 /\ bottles'[w] = NoBottles \/ Total(bottles'[w]) = qty'[w]
<1>1. PICK new \in IF p = "detail" THEN TakeSize(base, size, n) ELSE TakeLargest(base, n) :
          IF new = NoBottles \/ (p = "search" /\ base.qty <= n) THEN DeleteModel(p, w)
          ELSE SaveModel(p, w, [base EXCEPT !.qty = Total(new), !.bottles = new])
  BY DEF RemoveBottles
<1>2. /\ new \in Bottles /\ Total(new) <= MaxQuantity /\ Total(new) \in Nat
      /\ Total(new) = 0 <=> new = NoBottles
  BY TakenSizes, BottlesAreCounts, Totals
<1>3. Agree(base) /\ (p = "detail" => n <= Effective(base)[size]) =>
          Total(new) = IF base.qty > n THEN base.qty - n ELSE 0
  BY TakenSizes, EffectiveSizes
<1>4. base.qty \in 1..MaxQuantity /\ MaxQuantity \in Nat
  BY ModelFields, AccountingAssumption DEF Counted
<1>5. CASE new = NoBottles \/ (p = "search" /\ base.qty <= n)
  <2>1. DeleteModel(p, w)
    BY <1>1, <1>5
  <2>2. /\ TablesOK' /\ SpotsOK' /\ ShownOK' /\ OthersKept(w)
        /\ qty'[w] = 0 /\ bottles'[w] = NoBottles
    BY <2>1, DeleteKeeps
  <2>3. Agree(base) /\ (p = "detail" => n <= Effective(base)[size]) => base.qty <= n
    BY <1>2, <1>3, <1>4, <1>5
  <2> QED
    BY <1>4, <2>2, <2>3
<1>6. CASE ~(new = NoBottles \/ (p = "search" /\ base.qty <= n))
  <2> DEFINE m == [base EXCEPT !.qty = Total(new), !.bottles = new]
  <2>1. SaveModel(p, w, m)
    BY <1>1, <1>6
  <2>2. Total(new) \in 1..MaxQuantity /\ new # NoBottles
    BY <1>2, <1>4, <1>6
  <2>3. m \in Counted /\ m.qty = Total(new) /\ m.bottles = new
    <3> DEFINE t == Total(new)
    <3>1. m = [base EXCEPT !.qty = t, !.bottles = new] /\ base \in Model
          /\ t \in 1..MaxQuantity
      BY <2>2 DEF Counted
    <3> HIDE DEF t, m
    <3>2. m \in Model /\ m.qty = t /\ m.bottles = new
      BY <1>2, <3>1 DEF Model
    <3> QED
      BY <1>2, <3>2 DEF Counted, t
  <2> HIDE DEF m
  <2>4. /\ TablesOK' /\ ShownOK' /\ OthersKept(w) /\ UNCHANGED spots
        /\ qty'[w] = Total(new) /\ bottles'[w] = new
    BY <2>1, <2>2, <2>3, SaveKeeps
  <2>5. SpotsOK'
    BY <2>4 DEF SpotsOK
  <2> QED
    BY <1>3, <2>4, <2>5
<1> QED
  BY <1>5, <1>6

(***************************************************************************)
(* A step about w leaves the accounts of the others.                       *)
(***************************************************************************)
LEMMA OthersAccounted ==
    ASSUME HistoryOK, NEW w \in Wine,
           dlg # None => dlg.wine = w, dlg' # None => dlg'.wine = w, OthersKept(w),
           intended' \in [Wine -> 0..MaxQuantity \cup {None}],
           \A v \in Wine \ {w} : intended'[v] = intended[v],
           dlg' = None => AccountedFor(w)'
    PROVE  HistoryOK'
<1>1. ASSUME NEW v \in Wine, dlg' # None => dlg'.wine # v PROVE AccountedFor(v)'
  <2>1. CASE v = w
    BY <1>1, <2>1
  <2>2. CASE v # w
    <3>1. AccountedFor(v)
      BY <2>2 DEF HistoryOK
    <3>2. intended'[v] = intended[v] /\ qty'[v] = qty[v] /\ bottles'[v] = bottles[v]
      BY <2>2 DEF OthersKept
    <3> QED
      BY <3>1, <3>2 DEF AccountedFor
  <2> QED
    BY <2>1, <2>2
<1> QED
  BY <1>1 DEF HistoryOK

(***************************************************************************)
(* A wine is accounted for unless an open dialog has stored bottles of it  *)
(* that its page has not added.                                            *)
(***************************************************************************)
LEMMA AccountedNow ==
    ASSUME TablesOK, DialogOK, HistoryOK, NEW w \in Wine, ~(Promised /\ dlg.wine = w)
    PROVE  AccountedFor(w)
<1>1. CASE dlg = None \/ dlg.wine # w
  BY <1>1 DEF HistoryOK
<1>2. CASE dlg # None /\ dlg.wine = w
  <2>1. dlg \in Dialog /\ DialogForm(dlg) /\ DialogBase(dlg)
    BY <1>2 DEF DialogOK
  <2>2. CASE dlg.mode = "new"
    BY <1>2, <2>1, <2>2 DEF DialogBase, Promised, AccountedFor, TablesOK
  <2>3. CASE dlg.mode # "new"
    BY <1>2, <2>1, <2>3 DEF DialogBase, Promised, AccountedFor, Agree
  <2> QED
    BY <2>2, <2>3
<1> QED
  BY <1>1, <1>2

(***************************************************************************)
(* The history when an operation begins, and when bottles are taken out.   *)
(***************************************************************************)
LEMMA BeginKeeps ==
    ASSUME HistoryOK, NEW w \in Wine, NEW m, Begin(w, m)
    PROVE  /\ intended' \in [Wine -> 0..MaxQuantity \cup {None}]
           /\ \A v \in Wine \ {w} : intended'[v] = intended[v]
           /\ intended'[w] = IF Outdated(w, m) THEN None ELSE intended[w]
BY DEF HistoryOK, Begin, Forget

LEMMA TakeOutKeeps ==
    ASSUME HistoryOK, NEW w \in Wine, NEW n \in Nat
    PROVE  /\ TakeOut(w, n) \in [Wine -> 0..MaxQuantity \cup {None}]
           /\ \A v \in Wine \ {w} : TakeOut(w, n)[v] = intended[v]
           /\ TakeOut(w, n)[w] = IF intended[w] = None THEN None
                                 ELSE IF intended[w] > n THEN intended[w] - n ELSE 0
<1>1. MaxQuantity \in Nat
  BY AccountingAssumption
<1> QED
  BY <1>1 DEF HistoryOK, TakeOut

-----------------------------------------------------------------------------
(* Opening a dialog                                                        *)

(* The fields of a dialog that has just opened.                            *)
OpenedAs(d, p, w, mode, base, early, size) ==
    /\ d.page = p /\ d.wine = w /\ d.mode = mode
    /\ d.base = base /\ d.early = early /\ d.size = size
    /\ d.stage = "open" /\ d.saved = FALSE

(***************************************************************************)
(* The fields of a dialog that opens, and its positions.                   *)
(***************************************************************************)
LEMMA OpenedDialog ==
    ASSUME SpotsOK, UNCHANGED spots,
           NEW p \in Page \cup {"form"}, NEW w \in Wine,
           NEW mode \in {"new", "add", "locate", "form", "remove"},
           NEW base \in Model, NEW early \in Model, NEW size \in Size \cup {NoSize},
           NEW max \in Nat, Opened(p, w, mode, base, early, size, max),
           mode \in {"new", "locate", "form"} => max = early.qty,
           mode = "add" => max = early.qty - base.qty
    PROVE  /\ dlg' \in Dialog /\ dlg' # None /\ DialogPlaces(dlg)'
           /\ OpenedAs(dlg', p, w, mode, base, early, size)
           /\ mode = "remove" => dlg'.max = max
           /\ Cardinality(dlg'.initial \ dlg'.selected) = 0
<1> DEFINE initial == Initial(w, mode, early, size)
<1> DEFINE limit == IF mode = "add" THEN Cardinality(initial) + max ELSE max
<1>1. dlg' = [page |-> p, wine |-> w, mode |-> mode, base |-> base, early |-> early,
              size |-> size, initial |-> initial, selected |-> initial, max |-> limit,
              stage |-> "open", saved |-> FALSE]
  BY DEF Opened
<1>2. initial \in SUBSET Spot
  BY DEF Initial, Held, Named
<1>3. mode # "remove" => /\ Held(w) \subseteq initial
                         /\ \A s \in initial \ Held(w) : LabelOf(s) \in early.loc
  BY DEF Initial, Named
<1> HIDE DEF initial
<1>4. limit \in Nat
  BY <1>2, SpotsFinite
<1>5. /\ mode = "add" => limit = Cardinality(initial) + (early.qty - base.qty)
      /\ mode \in {"new", "locate", "form"} => limit = early.qty
      /\ mode = "remove" => limit = max
  OBVIOUS
<1> HIDE DEF limit
<1>6. /\ dlg'.page = p /\ dlg'.wine = w /\ dlg'.mode = mode
      /\ dlg'.base = base /\ dlg'.early = early /\ dlg'.size = size
      /\ dlg'.initial = initial /\ dlg'.selected = initial /\ dlg'.max = limit
      /\ dlg'.stage = "open" /\ dlg'.saved = FALSE
  BY <1>1
<1>7. dlg' \in Dialog
  BY <1>1, <1>2, <1>4 DEF Dialog
<1>8. dlg' # None
  BY <1>7, AccountingAssumption
<1>9. Held(w)' = Held(w)
  BY DEF Held
<1>10. mode # "remove" => ChosenPlaces(dlg)'
  <2> SUFFICES ASSUME mode # "remove" PROVE ChosenPlaces(dlg)'
    OBVIOUS
  <2>1. Held(dlg.wine)' = Held(w)
    BY <1>6 DEF Held
  <2>2. limit = IF mode = "add" THEN Cardinality(initial) + (early.qty - base.qty)
                ELSE early.qty
    BY <1>5
  <2> QED
    BY <1>3, <1>6, <2>1, <2>2 DEF ChosenPlaces, LabelOf
<1>11. DialogPlaces(dlg)'
  BY <1>6, <1>10 DEF DialogPlaces
<1>12. Cardinality(dlg'.initial \ dlg'.selected) = 0
  <2>1. dlg'.initial \ dlg'.selected = {}
    BY <1>6
  <2> QED
    BY <2>1, FS_EmptySet
<1> QED
  BY <1>5, <1>6, <1>7, <1>8, <1>11, <1>12 DEF OpenedAs

(***************************************************************************)
(* A dialog that opens over unchanged tables keeps the invariant: either   *)
(* its model is the wine as stored, or the wine is not accounted for.      *)
(***************************************************************************)
LEMMA OpenKeeps ==
    ASSUME AccountingInv, dlg = None, saving = None,
           UNCHANGED <<tables, pages, saving>>, NextOp, NEW w \in Wine, NEW m, Begin(w, m),
           dlg' \in Dialog, dlg' # None, dlg'.wine = w, DialogPlaces(dlg)', DialogForm(dlg)',
           dlg'.saved = FALSE, m = IF dlg'.mode = "new" THEN None ELSE dlg'.base
    PROVE  AccountingInv'
<1>1. /\ TablesOK /\ SpotsOK /\ ShownOK /\ FullOK /\ HistoryOK
      /\ ops \in 0..MaxOps
  BY DEF AccountingInv
<1>2. TablesOK' /\ SpotsOK' /\ ShownOK' /\ FullOK' /\ SavingOK'
  BY <1>1 DEF tables, pages, TablesOK, SpotsOK, ShownOK, FullOK, SavingOK
<1>3. /\ intended' \in [Wine -> 0..MaxQuantity \cup {None}]
      /\ \A v \in Wine \ {w} : intended'[v] = intended[v]
      /\ intended'[w] = IF Outdated(w, m) THEN None ELSE intended[w]
  BY <1>1, BeginKeeps
<1>4. HistoryOK'
  <2>1. OthersKept(w)
    BY DEF OthersKept, tables
  <2> QED
    BY <1>1, <1>3, <2>1, OthersAccounted
<1>5. DialogBase(dlg)'
  <2>1. CASE intended'[w] = None
    BY <2>1 DEF DialogBase
  <2>2. CASE intended'[w] # None
    <3>1. ~Outdated(w, m) /\ intended'[w] = intended[w] /\ AccountedFor(w)
      BY <1>1, <1>3, <2>2 DEF HistoryOK
    <3>2. UNCHANGED <<qty, bottles>>
      BY DEF tables
    <3>3. CASE dlg'.mode = "new"
      BY <2>2, <3>1, <3>2, <3>3 DEF Outdated, AccountedFor, DialogBase
    <3>4. CASE dlg'.mode # "new"
      <4>1. m = dlg'.base /\ m # None
        BY <3>4, AccountingAssumption DEF DialogForm, Counted
      <4>2. m.qty = qty[w] /\ m.bottles = bottles[w]
        BY <3>1, <4>1 DEF Outdated
      <4>3. intended[w] = m.qty /\ (m.bottles = NoBottles \/ Total(m.bottles) = m.qty)
        BY <2>2, <3>1, <4>2 DEF AccountedFor
      <4> QED
        BY <3>1, <3>2, <3>4, <4>1, <4>2, <4>3 DEF DialogBase, Agree
    <3> QED
      BY <3>3, <3>4
  <2> QED
    BY <2>1, <2>2
<1>6. DialogOK'
  BY <1>5 DEF DialogOK
<1>7. ops' \in 0..MaxOps
  BY <1>1, AccountingAssumption DEF NextOp
<1> QED
  BY <1>2, <1>4, <1>6, <1>7 DEF AccountingInv

(***************************************************************************)
(* The page in front has no dialog open and no save waiting.               *)
(***************************************************************************)
LEMMA FrontIsFree ==
    ASSUME NEW p, NEW w, Front(p, w)
    PROVE  dlg = None /\ saving = None /\ (p = "detail" => full # None /\ full.wine = w)
BY DEF Front

LEMMA AddToCellarKeeps ==
    ASSUME AccountingInv, NEW p \in Page, NEW w \in Wine, NEW size \in Size,
           NEW n \in 1..MaxPick, AddToCellar(p, w, size, n)
    PROVE  AccountingInv'
<1> DEFINE base == IF p = "detail" THEN full.model ELSE Catalogue
<1> DEFINE early == [base EXCEPT !.qty = n]
<1>1. /\ Front(p, w) /\ Opened(p, w, "new", base, early, size, n)
      /\ Begin(w, None) /\ NextOp /\ UNCHANGED <<tables, pages, saving>>
  BY DEF AddToCellar
<1>2. /\ dlg = None /\ saving = None
      /\ p = "detail" => full # None
  BY <1>1, FrontIsFree
<1>3. base \in Counted
  BY <1>2, LoadedModels DEF AccountingInv, FullOK
<1>4. n \in 1..MaxQuantity /\ n \in Nat
  BY AccountingAssumption
<1> HIDE DEF base
<1>5. early \in Model /\ early.qty = n /\ early.bottles = base.bottles /\ base \in Model
  BY <1>3, <1>4 DEF Counted, Model
<1> HIDE DEF early
<1>6. SpotsOK /\ UNCHANGED spots
  BY <1>1 DEF AccountingInv, tables
<1>7. /\ dlg' \in Dialog /\ dlg' # None /\ DialogPlaces(dlg)'
      /\ OpenedAs(dlg', p, w, "new", base, early, size)
  BY <1>1, <1>4, <1>5, <1>6, OpenedDialog
<1>8. DialogForm(dlg)'
  BY <1>3, <1>5, <1>7 DEF OpenedAs, DialogForm, Counted
<1> QED
  BY <1>1, <1>2, <1>7, <1>8, OpenKeeps DEF OpenedAs

LEMMA AddBottlesKeeps ==
    ASSUME AccountingInv, NEW p \in Page, NEW w \in Wine, NEW size \in Size,
           NEW n \in 1..MaxPick, AddBottles(p, w, size, n)
    PROVE  AccountingInv'
<1> DEFINE base == shown[p][w]
<1> DEFINE early == [base EXCEPT !.qty = @ + n]
<1>1. /\ Front(p, w) /\ base # None /\ Opened(p, w, "add", base, early, size, n)
      /\ base.qty + n <= MaxQuantity /\ Total(base.bottles) + n <= MaxQuantity
      /\ Begin(w, base) /\ NextOp /\ UNCHANGED <<tables, pages, saving>>
  BY DEF AddBottles
<1>2. dlg = None /\ saving = None
  BY <1>1, FrontIsFree
<1>3. base \in Counted
  BY <1>1 DEF AccountingInv, ShownOK
<1>4. n \in Nat \ {0} /\ base \in Model /\ base.qty \in Nat /\ MaxQuantity \in Nat
      /\ Total(base.bottles) \in Nat
  BY <1>3, AccountingAssumption, ModelFields
<1> HIDE DEF base
<1>5. early \in Model /\ early.qty = base.qty + n /\ early.bottles = base.bottles
  BY <1>1, <1>4 DEF Model
<1> HIDE DEF early
<1>6. SpotsOK /\ UNCHANGED spots
  BY <1>1 DEF AccountingInv, tables
<1>7. n = early.qty - base.qty /\ early.qty > base.qty
  BY <1>4, <1>5
<1>8. /\ dlg' \in Dialog /\ dlg' # None /\ DialogPlaces(dlg)'
      /\ OpenedAs(dlg', p, w, "add", base, early, size)
  BY <1>1, <1>4, <1>5, <1>6, <1>7, OpenedDialog
<1>9. DialogForm(dlg)'
  BY <1>1, <1>3, <1>5, <1>7, <1>8 DEF OpenedAs, DialogForm, Counted, Total
<1> QED
  BY <1>1, <1>2, <1>8, <1>9, OpenKeeps DEF OpenedAs

LEMMA ShowLocationKeeps ==
    ASSUME AccountingInv, NEW w \in Wine, ShowLocation(w)
    PROVE  AccountingInv'
<1> DEFINE base == shown["detail"][w]
<1>1. /\ Front("detail", w) /\ base # None
      /\ Opened("detail", w, "locate", base, base, NoSize, base.qty)
      /\ Begin(w, base) /\ NextOp /\ UNCHANGED <<tables, pages, saving>>
  BY DEF ShowLocation
<1>2. dlg = None /\ saving = None
  BY <1>1, FrontIsFree
<1>3. base \in Counted /\ "detail" \in Page
  BY <1>1 DEF AccountingInv, ShownOK, Page
<1>4. base \in Model /\ base.qty \in Nat
  BY <1>3, ModelFields
<1>5. SpotsOK /\ UNCHANGED spots
  BY <1>1 DEF AccountingInv, tables
<1> HIDE DEF base
<1>6. /\ dlg' \in Dialog /\ dlg' # None /\ DialogPlaces(dlg)'
      /\ OpenedAs(dlg', "detail", w, "locate", base, base, NoSize)
  BY <1>1, <1>3, <1>4, <1>5, OpenedDialog
<1>7. DialogForm(dlg)'
  BY <1>3, <1>6 DEF OpenedAs, DialogForm, Counted
<1> QED
  BY <1>1, <1>2, <1>6, <1>7, OpenKeeps DEF OpenedAs

LEMMA RemoveFromStorageKeeps ==
    ASSUME AccountingInv, NEW p \in Page, NEW w \in Wine, NEW size \in Size \cup {NoSize},
           RemoveFromStorage(p, w, size)
    PROVE  AccountingInv'
<1> DEFINE base == shown[p][w]
<1> DEFINE max == IF size = NoSize THEN base.qty ELSE Effective(base)[size]
<1>1. /\ Front(p, w) /\ base # None /\ ((p = "search") <=> (size = NoSize))
      /\ Opened(p, w, "remove", base, base, size, max)
      /\ Begin(w, base) /\ NextOp /\ UNCHANGED <<tables, pages, saving>>
  BY DEF RemoveFromStorage
<1>2. dlg = None /\ saving = None
  BY <1>1, FrontIsFree
<1>3. base \in Counted
  BY <1>1 DEF AccountingInv, ShownOK
<1>4. base \in Model /\ base.qty \in Nat /\ Effective(base) \in [Size -> Nat]
  BY <1>3, ModelFields, EffectiveSizes, BottlesAreCounts
<1> HIDE DEF base
<1>5. max \in Nat /\ (size \in Size => max = Effective(base)[size])
  BY <1>4, AccountingAssumption
<1> HIDE DEF max
<1>6. SpotsOK /\ UNCHANGED spots
  BY <1>1 DEF AccountingInv, tables
<1>7. /\ dlg' \in Dialog /\ dlg' # None /\ DialogPlaces(dlg)'
      /\ OpenedAs(dlg', p, w, "remove", base, base, size) /\ dlg'.max = max
      /\ Cardinality(dlg'.initial \ dlg'.selected) = 0
  BY <1>1, <1>4, <1>5, <1>6, OpenedDialog
<1>8. DialogForm(dlg)'
  <2>1. dlg'.size \in Size => dlg'.max = Effective(dlg'.base)[dlg'.size]
    BY <1>5, <1>7 DEF OpenedAs
  <2>2. Cardinality(dlg'.initial \ dlg'.selected) <= dlg'.max
    BY <1>5, <1>7
  <2> QED
    BY <1>1, <1>3, <1>7, <2>1, <2>2
       DEF OpenedAs, DialogForm, Counted, Effective, NoBottles
<1> QED
  BY <1>1, <1>2, <1>7, <1>8, OpenKeeps DEF OpenedAs

(***************************************************************************)
(* The form stores its wine before the dialog opens.                       *)
(***************************************************************************)
LEMMA FormOpens ==
    ASSUME AccountingInv, NEW w \in Wine, NEW size \in Size, NEW n \in 1..MaxPick,
           SaveForm(w, size, n)
    PROVE  \E m \in Counted :
              /\ PutWine(w, m) /\ m.qty = n /\ m.bottles # NoBottles /\ Agree(m)
              /\ dlg' \in Dialog /\ dlg' # None /\ DialogPlaces(dlg)'
              /\ OpenedAs(dlg', "form", w, "form", m, m, NoSize) /\ dlg'.mode = "form"
<1> DEFINE b == [NoBottles EXCEPT ![size] = n]
<1> DEFINE m == [qty |-> n, bottles |-> b, loc |-> {}]
<1>1. /\ PutWine(w, m) /\ Opened("form", w, "form", m, m, NoSize, n)
      /\ SpotsOK /\ UNCHANGED spots
  BY DEF SaveForm, AccountingInv
<1>2. n \in 1..MaxQuantity /\ n \in Nat /\ MaxQuantity \in Nat
  BY AccountingAssumption
<1>3. b \in Bottles /\ Total(b) = n /\ b # NoBottles
  BY <1>2, OneSize
<1> HIDE DEF b
<1>4. m \in Counted /\ m.qty = n /\ m.bottles = b /\ m \in Model
  BY <1>2, <1>3 DEF Counted, Model
<1> HIDE DEF m
<1>5. /\ dlg' \in Dialog /\ dlg' # None /\ DialogPlaces(dlg)'
      /\ OpenedAs(dlg', "form", w, "form", m, m, NoSize)
  BY <1>1, <1>2, <1>4, OpenedDialog
<1>6. dlg'.mode = "form" /\ Agree(m)
  BY <1>3, <1>4, <1>5 DEF OpenedAs, Agree
<1> QED
  BY <1>1, <1>3, <1>4, <1>5, <1>6

LEMMA SaveFormKeeps ==
    ASSUME AccountingInv, NEW w \in Wine, NEW size \in Size, NEW n \in 1..MaxPick,
           SaveForm(w, size, n)
    PROVE  AccountingInv'
<1>1. /\ Front("form", w) /\ intended' = [intended EXCEPT ![w] = n]
      /\ NextOp /\ UNCHANGED <<spots, pages, saving>>
  BY DEF SaveForm
<1>2. dlg = None /\ saving = None
  BY <1>1, FrontIsFree
<1>3. PICK m \in Counted :
          /\ PutWine(w, m) /\ m.qty = n /\ m.bottles # NoBottles /\ Agree(m)
          /\ dlg' \in Dialog /\ dlg' # None /\ DialogPlaces(dlg)'
          /\ OpenedAs(dlg', "form", w, "form", m, m, NoSize)
  BY FormOpens
<1>4. n \in 0..MaxQuantity
  BY AccountingAssumption
<1>5. /\ TablesOK /\ SpotsOK /\ ShownOK /\ FullOK /\ HistoryOK
      /\ ops \in 0..MaxOps
  BY DEF AccountingInv
<1>6. TablesOK' /\ OthersKept(w) /\ qty'[w] = n /\ bottles'[w] = m.bottles
  BY <1>3, <1>5, PutKeeps
<1>7. SpotsOK' /\ ShownOK' /\ FullOK' /\ SavingOK'
  BY <1>1, <1>2, <1>5 DEF pages, SpotsOK, ShownOK, FullOK, SavingOK
<1>8. DialogForm(dlg)'
  BY <1>3 DEF OpenedAs, DialogForm, Counted
<1>9. DialogBase(dlg)'
  BY <1>1, <1>3, <1>5, <1>6 DEF OpenedAs, DialogBase, Agree, HistoryOK
<1>10. DialogOK'
  BY <1>1, <1>2, <1>3, <1>8, <1>9 DEF DialogOK
<1>11. HistoryOK'
  <2>1. intended' \in [Wine -> 0..MaxQuantity \cup {None}]
        /\ \A v \in Wine \ {w} : intended'[v] = intended[v]
    BY <1>1, <1>4, <1>5 DEF HistoryOK
  <2> QED
    BY <1>2, <1>3, <1>5, <1>6, <2>1, OthersAccounted DEF OpenedAs
<1>12. ops' \in 0..MaxOps
  BY <1>1, <1>5, AccountingAssumption DEF NextOp
<1> QED
  BY <1>6, <1>7, <1>10, <1>11, <1>12 DEF AccountingInv

-----------------------------------------------------------------------------
(* While a dialog is open                                                  *)

(* d and e differ in what the user has selected and how far they are.      *)
SameDialog(d, e) ==
    /\ e.page = d.page /\ e.wine = d.wine /\ e.mode = d.mode /\ e.base = d.base
    /\ e.early = d.early /\ e.size = d.size /\ e.max = d.max /\ e.initial = d.initial

(***************************************************************************)
(* The fields of a dialog, and the model it stores first.                  *)
(***************************************************************************)
LEMMA DialogFields ==
    ASSUME DialogOK, dlg # None
    PROVE  /\ dlg \in Dialog /\ dlg.wine \in Wine /\ dlg.early \in Counted
           /\ dlg.initial \in SUBSET Spot /\ dlg.selected \in SUBSET Spot
           /\ saving = None /\ DialogForm(dlg) /\ DialogBase(dlg) /\ DialogPlaces(dlg)
<1>1. /\ dlg \in Dialog /\ saving = None
      /\ DialogForm(dlg) /\ DialogBase(dlg) /\ DialogPlaces(dlg)
  BY DEF DialogOK
<1>2. /\ dlg.wine \in Wine /\ dlg.early \in Model
      /\ dlg.initial \in SUBSET Spot /\ dlg.selected \in SUBSET Spot
  BY <1>1 DEF Dialog
<1>3. dlg.early \in Counted
  BY <1>1, <1>2 DEF DialogForm, Counted
<1> QED
  BY <1>1, <1>2, <1>3

(***************************************************************************)
(* A step of a dialog that stays open keeps the invariant, if the dialog   *)
(* still fits the tables.                                                  *)
(***************************************************************************)
LEMMA DialogKeeps ==
    ASSUME AccountingInv, dlg # None, dlg' \in Dialog, SameDialog(dlg, dlg'),
           UNCHANGED <<pages, saving, intended, ops>>,
           TablesOK', SpotsOK', OthersKept(dlg.wine),
           DialogForm(dlg)', DialogBase(dlg)', DialogPlaces(dlg)'
    PROVE  AccountingInv'
<1>1. /\ ShownOK /\ FullOK /\ HistoryOK /\ DialogOK
      /\ ops \in 0..MaxOps
  BY DEF AccountingInv
<1>2. dlg.wine \in Wine /\ saving = None
  BY <1>1, DialogFields
<1>3. ShownOK' /\ FullOK' /\ SavingOK' /\ ops' \in 0..MaxOps
  BY <1>1, <1>2 DEF pages, ShownOK, FullOK, SavingOK
<1>4. dlg' # None
  BY AccountingAssumption
<1>5. DialogOK'
  BY <1>2, <1>4 DEF DialogOK
<1>6. HistoryOK'
  <2>1. dlg'.wine = dlg.wine
    BY DEF SameDialog
  <2>2. intended' \in [Wine -> 0..MaxQuantity \cup {None}]
        /\ \A v \in Wine \ {dlg.wine} : intended'[v] = intended[v]
    BY <1>1 DEF HistoryOK
  <2> QED
    BY <1>1, <1>2, <1>4, <2>1, <2>2, OthersAccounted
<1> QED
  BY <1>3, <1>5, <1>6 DEF AccountingInv

LEMMA SaveLocationKeeps ==
    ASSUME AccountingInv, SaveLocation
    PROVE  AccountingInv'
<1>1. /\ dlg # None /\ dlg.mode # "remove" /\ dlg.stage = "open"
      /\ PutWine(dlg.wine, dlg.early)
      /\ UNCHANGED <<spots, pages, saving, intended, ops>>
  BY DEF SaveLocation
<1>2. PICK set \in Selections(dlg), unassigned \in BOOLEAN :
          dlg' = [dlg EXCEPT
                    !.selected = set, !.saved = TRUE,
                    !.stage = CASE ~unassigned /\ Cardinality(set) > dlg.early.qty -> "open"
                                [] OTHER -> IF set # dlg.initial THEN "confirm" ELSE "write"]
  BY DEF SaveLocation
<1>3. /\ dlg \in Dialog /\ dlg.wine \in Wine /\ dlg.early \in Counted
      /\ dlg.initial \in SUBSET Spot
      /\ DialogForm(dlg) /\ DialogBase(dlg) /\ DialogPlaces(dlg) /\ TablesOK /\ SpotsOK
  BY <1>1, DialogFields DEF AccountingInv
<1>4. /\ TablesOK' /\ OthersKept(dlg.wine) /\ qty'[dlg.wine] = dlg.early.qty
      /\ bottles'[dlg.wine] = IF dlg.early.bottles = NoBottles THEN bottles[dlg.wine]
                              ELSE dlg.early.bottles
  BY <1>1, <1>3, PutKeeps
<1>5. /\ set \in SUBSET Spot
      /\ \A s \in set \ dlg.initial : spots[s].wine \in {None, dlg.wine}
      /\ set \subseteq dlg.initial \/ Cardinality(set) <= dlg.max
      /\ dlg.mode = "add" => dlg.initial \subseteq set
  BY <1>1, <1>3 DEF Selections
<1> DEFINE next == CASE ~unassigned /\ Cardinality(set) > dlg.early.qty -> "open"
                     [] OTHER -> IF set # dlg.initial THEN "confirm" ELSE "write"
<1>6. next \in {"open", "confirm", "write"}
  OBVIOUS
<1>7. dlg' = [dlg EXCEPT !.selected = set, !.saved = TRUE, !.stage = next]
  BY <1>2
<1> HIDE DEF next
<1>8. dlg' \in Dialog
  BY <1>3, <1>5, <1>6, <1>7 DEF Dialog
<1>9. SameDialog(dlg, dlg') /\ dlg'.selected = set /\ dlg'.saved = TRUE /\ dlg'.stage = next
  BY <1>3, <1>7 DEF SameDialog, Dialog
<1>10. DialogForm(dlg)'
  BY <1>1, <1>3, <1>4, <1>9 DEF DialogForm, SameDialog, Counted
<1>11. DialogBase(dlg)'
  BY <1>1, <1>3, <1>4, <1>9 DEF DialogBase, DialogForm, SameDialog, Agree
<1>12. DialogPlaces(dlg)'
  <2>1. ChosenPlaces(dlg)
    BY <1>1, <1>3 DEF DialogPlaces
  <2>2. Held(dlg.wine)' = Held(dlg.wine)
    BY <1>1, <1>9 DEF Held, SameDialog
  <2>3. ChosenPlaces(dlg)'
    BY <1>1, <1>5, <1>9, <2>1, <2>2 DEF ChosenPlaces, SameDialog, LabelOf
  <2> QED
    BY <1>1, <1>9, <2>3 DEF DialogPlaces, SameDialog
<1>13. SpotsOK'
  BY <1>1, <1>3 DEF SpotsOK
<1> QED
  BY <1>1, <1>4, <1>8, <1>9, <1>10, <1>11, <1>12, <1>13, DialogKeeps

LEMMA SaveLocationRemoveModeKeeps ==
    ASSUME AccountingInv, SaveLocationRemoveMode
    PROVE  AccountingInv'
<1>1. /\ dlg # None /\ dlg.mode = "remove" /\ dlg.stage = "open"
      /\ UNCHANGED <<tables, pages, saving, intended, ops>>
  BY DEF SaveLocationRemoveMode
<1>2. PICK set \in Selections(dlg) : dlg' = [dlg EXCEPT !.selected = set, !.stage = "confirm"]
  BY DEF SaveLocationRemoveMode
<1>3. /\ dlg \in Dialog /\ dlg.initial \in SUBSET Spot
      /\ DialogForm(dlg) /\ DialogBase(dlg) /\ TablesOK /\ SpotsOK
  BY <1>1, DialogFields DEF AccountingInv
<1>4. set \in SUBSET Spot /\ Cardinality(dlg.initial \ set) <= dlg.max
  BY <1>1, <1>3 DEF Selections
<1>5. dlg' \in Dialog
  BY <1>2, <1>3, <1>4 DEF Dialog
<1>6. /\ SameDialog(dlg, dlg') /\ dlg'.selected = set
      /\ dlg'.saved = dlg.saved /\ dlg'.stage = "confirm"
  BY <1>2, <1>3 DEF SameDialog, Dialog
<1>7. TablesOK' /\ SpotsOK' /\ OthersKept(dlg.wine)
  BY <1>1, <1>3 DEF tables, TablesOK, SpotsOK, OthersKept
<1>8. DialogForm(dlg)'
  <2>1. Cardinality(dlg'.initial \ dlg'.selected) <= dlg'.max
    BY <1>4, <1>6 DEF SameDialog
  <2>2. dlg'.size \in Size => dlg'.max = Effective(dlg'.base)[dlg'.size]
    BY <1>1, <1>3, <1>6 DEF DialogForm, SameDialog
  <2> QED
    BY <1>1, <1>3, <1>6, <2>1, <2>2
       DEF DialogForm, SameDialog, Counted, Effective, NoBottles
<1>9. DialogBase(dlg)'
  BY <1>1, <1>3, <1>6 DEF DialogBase, SameDialog, Agree, tables
<1>10. DialogPlaces(dlg)'
  BY <1>1, <1>6 DEF DialogPlaces, SameDialog
<1> QED
  BY <1>1, <1>5, <1>6, <1>7, <1>8, <1>9, <1>10, DialogKeeps

(***************************************************************************)
(* A dialog that only goes on, over the same counts.                       *)
(***************************************************************************)
LEMMA StageKeeps ==
    ASSUME AccountingInv, dlg # None, dlg.stage # "open",
           UNCHANGED <<qty, bottles, pages, saving, intended, ops>>,
           NEW stage \in {"open", "write", "apply"}, dlg' = [dlg EXCEPT !.stage = stage],
           SpotsOK', stage # "apply" => UNCHANGED spots /\ dlg.stage # "apply",
           stage = "apply" /\ dlg.mode = "remove" =>
               Held(dlg.wine)' \cap (dlg.initial \ dlg.selected) = {}
    PROVE  AccountingInv'
<1>1. /\ dlg \in Dialog
      /\ DialogForm(dlg) /\ DialogBase(dlg) /\ DialogPlaces(dlg) /\ TablesOK
  BY DialogFields DEF AccountingInv
<1>2. dlg' \in Dialog
  BY <1>1 DEF Dialog
<1>3. /\ SameDialog(dlg, dlg') /\ dlg'.selected = dlg.selected
      /\ dlg'.saved = dlg.saved /\ dlg'.stage = stage
  BY <1>1 DEF SameDialog, Dialog
<1>4. TablesOK' /\ OthersKept(dlg.wine)
  BY <1>1 DEF TablesOK, OthersKept
<1>5. DialogForm(dlg)'
  BY <1>1, <1>3 DEF DialogForm, SameDialog, Counted, Effective, NoBottles
<1>6. DialogBase(dlg)'
  BY <1>1, <1>3 DEF DialogBase, SameDialog, Agree
<1>7. DialogPlaces(dlg)'
  <2>1. CASE stage = "apply"
    BY <1>3, <2>1 DEF DialogPlaces, SameDialog
  <2>2. CASE stage # "apply"
    <3>1. Held(dlg.wine)' = Held(dlg.wine)
      BY <1>3, <2>2 DEF Held, SameDialog
    <3>2. dlg.mode # "remove" => ChosenPlaces(dlg)
      BY <1>1, <2>2 DEF DialogPlaces
    <3>3. dlg.mode # "remove" => ChosenPlaces(dlg)'
      BY <1>3, <2>2, <3>1, <3>2 DEF ChosenPlaces, SameDialog, LabelOf
    <3> QED
      BY <1>3, <2>2, <3>3 DEF DialogPlaces, SameDialog
  <2> QED
    BY <2>1, <2>2
<1> QED
  BY <1>2, <1>3, <1>4, <1>5, <1>6, <1>7, DialogKeeps

LEMMA ConfirmKeeps ==
    ASSUME AccountingInv, Confirm
    PROVE  AccountingInv'
<1>1. /\ dlg # None /\ dlg.stage = "confirm"
      /\ UNCHANGED <<tables, pages, saving, intended, ops>>
  BY DEF Confirm
<1>2. PICK stage \in {"open", "write"} : dlg' = [dlg EXCEPT !.stage = stage]
  BY DEF Confirm
<1>3. SpotsOK' /\ UNCHANGED <<qty, bottles, spots>>
  BY <1>1 DEF AccountingInv, SpotsOK, tables
<1> QED
  BY <1>1, <1>2, <1>3, StageKeeps

(***************************************************************************)
(* What the dialog writes: its wine has the selected positions (when they  *)
(* are chosen) or loses those that are not selected any more (when bottles *)
(* are taken out); the other positions stay.                               *)
(***************************************************************************)
LEMMA WrittenPlaces ==
    ASSUME SpotsOK, DialogOK, WriteLocation
    PROVE  /\ SpotsOK'
           /\ dlg.mode # "remove" => /\ Held(dlg.wine)' = dlg.selected
                                     /\ \A s \in Spot : s \notin dlg.selected =>
                                           spots'[s].wine \in {None, spots[s].wine}
           /\ dlg.mode = "remove" =>
                 /\ Held(dlg.wine)' \cap (dlg.initial \ dlg.selected) = {}
                 /\ \A s \in Spot : spots'[s].wine \in {None, spots[s].wine}
<1>1. dlg # None /\ dlg.stage = "write" /\ spots' = Rearranged(dlg)
      /\ dlg' = [dlg EXCEPT !.stage = "apply"]
  BY DEF WriteLocation
<1>2. /\ dlg.wine \in Wine /\ dlg.initial \in SUBSET Spot /\ dlg.selected \in SUBSET Spot
      /\ dlg.size \in Size \cup {NoSize} /\ dlg'.wine = dlg.wine
  BY <1>1, DialogFields DEF Dialog
<1>3. None \notin Wine
  BY AccountingAssumption
<1>4. ASSUME NEW s \in Spot
      PROVE  spots'[s] = IF dlg.mode # "remove" /\ s \in dlg.selected /\ spots[s].wine # dlg.wine
                         THEN [wine |-> dlg.wine, size |-> dlg.size]
                         ELSE IF /\ s \notin dlg.selected
                                 /\ IF dlg.mode = "remove" THEN s \in dlg.initial
                                    ELSE spots[s].wine = dlg.wine
                         THEN Free ELSE spots[s]
  BY <1>1 DEF Rearranged
<1>5. SpotsOK'
  <2>1. ASSUME NEW s \in Spot PROVE spots'[s] \in Position
    BY <1>2, <1>4 DEF SpotsOK, Position
  <2>2. spots' = [s \in Spot |-> spots'[s]]
    BY <1>1 DEF Rearranged
  <2> QED
    BY <2>1, <2>2 DEF SpotsOK
<1>6. Free.wine = None
  BY DEF Free
<1>7. ASSUME NEW s \in Spot, dlg.mode # "remove"
      PROVE  /\ spots'[s].wine = dlg.wine <=> s \in dlg.selected
             /\ s \notin dlg.selected => spots'[s].wine \in {None, spots[s].wine}
  BY <1>2, <1>3, <1>4, <1>6, <1>7
<1>8. ASSUME NEW s \in Spot, dlg.mode = "remove"
      PROVE  /\ s \in dlg.initial \ dlg.selected => spots'[s].wine # dlg.wine
             /\ spots'[s].wine \in {None, spots[s].wine}
  BY <1>2, <1>3, <1>4, <1>6, <1>8
<1>9. Held(dlg.wine)' = {s \in Spot : spots'[s].wine = dlg.wine}
  BY <1>2 DEF Held
<1>10. dlg.mode # "remove" => Held(dlg.wine)' = dlg.selected
  BY <1>2, <1>7, <1>9
<1>11. dlg.mode = "remove" => Held(dlg.wine)' \cap (dlg.initial \ dlg.selected) = {}
  BY <1>8, <1>9
<1> QED
  BY <1>5, <1>7, <1>8, <1>10, <1>11

LEMMA WriteLocationKeeps ==
    ASSUME AccountingInv, WriteLocation
    PROVE  AccountingInv'
<1>1. /\ dlg # None /\ dlg.stage = "write" /\ dlg' = [dlg EXCEPT !.stage = "apply"]
      /\ UNCHANGED <<qty, bottles, pages, saving, intended, ops>>
  BY DEF WriteLocation
<1>2. SpotsOK' /\ (dlg.mode = "remove" =>
                      Held(dlg.wine)' \cap (dlg.initial \ dlg.selected) = {})
  BY WrittenPlaces DEF AccountingInv
<1> QED
  BY <1>1, <1>2, StageKeeps

-----------------------------------------------------------------------------
(* Closing a dialog                                                        *)

LEMMA PutInKeeps ==
    ASSUME HistoryOK, NEW w \in Wine, NEW n, PutIn(w, n),
           intended[w] # None => intended[w] + n \in 0..MaxQuantity
    PROVE  /\ intended' \in [Wine -> 0..MaxQuantity \cup {None}]
           /\ \A v \in Wine \ {w} : intended'[v] = intended[v]
           /\ intended'[w] = IF intended[w] = None THEN None ELSE intended[w] + n
BY DEF HistoryOK, PutIn

(***************************************************************************)
(* A dialog that closes keeps the invariant if its wine, unless forgotten, *)
(* is accounted for.                                                       *)
(***************************************************************************)
LEMMA CloseKeeps ==
    ASSUME AccountingInv, dlg # None, dlg' = None, UNCHANGED <<full, ops>>,
           TablesOK', SpotsOK', ShownOK', SavingOK', OthersKept(dlg.wine),
           intended' \in [Wine -> 0..MaxQuantity \cup {None}],
           \A v \in Wine \ {dlg.wine} : intended'[v] = intended[v],
           NEW w, w = dlg.wine, AccountedFor(w)'
    PROVE  AccountingInv'
<1>1. FullOK /\ HistoryOK /\ DialogOK /\ ops \in 0..MaxOps /\ w \in Wine
  BY DialogFields DEF AccountingInv
<1>2. FullOK' /\ ops' \in 0..MaxOps
  BY <1>1 DEF FullOK
<1>3. HistoryOK'
  BY <1>1, OthersAccounted
<1>4. DialogOK'
  BY DEF DialogOK
<1> QED
  BY <1>2, <1>3, <1>4 DEF AccountingInv

LEMMA CancelDialogKeeps ==
    ASSUME AccountingInv, CancelDialog
    PROVE  AccountingInv'
<1>1. /\ dlg # None /\ dlg' = None
      /\ intended' = Forget(IF Promised THEN {dlg.wine} ELSE {})
      /\ UNCHANGED <<tables, pages, saving, ops>>
  BY DEF CancelDialog
<1>2. /\ TablesOK /\ SpotsOK /\ ShownOK /\ DialogOK /\ HistoryOK
      /\ dlg.wine \in Wine /\ saving = None
  BY <1>1, DialogFields DEF AccountingInv
<1>3. TablesOK' /\ SpotsOK' /\ ShownOK' /\ SavingOK' /\ OthersKept(dlg.wine)
      /\ UNCHANGED <<full, ops>>
  BY <1>1, <1>2 DEF tables, pages, TablesOK, SpotsOK, ShownOK, SavingOK, OthersKept
<1> DEFINE w == dlg.wine
<1>4. /\ intended' \in [Wine -> 0..MaxQuantity \cup {None}]
      /\ \A v \in Wine \ {w} : intended'[v] = intended[v]
      /\ intended'[w] = IF Promised THEN None ELSE intended[w]
  BY <1>1, <1>2 DEF Forget, HistoryOK
<1>5. ~Promised => AccountedFor(w)
  BY <1>2, AccountedNow
<1> QED
  <2>1. PICK v : v = w
    OBVIOUS
  <2>2. UNCHANGED <<qty, bottles>>
    BY <1>1 DEF tables
  <2>3. AccountedFor(v)'
    BY <1>4, <1>5, <2>1, <2>2 DEF AccountedFor
  <2> QED
    BY <1>1, <1>3, <1>4, <2>1, <2>3, CloseKeeps

(***************************************************************************)
(* The wine of a dialog that has a result and was not about taking bottles *)
(* out is stored as the dialog did first.                                  *)
(***************************************************************************)
LEMMA AppliedDialog ==
    ASSUME AccountingInv, dlg # None, dlg.stage = "apply"
    PROVE  /\ TablesOK /\ SpotsOK /\ ShownOK /\ HistoryOK /\ DialogOK /\ saving = None
           /\ dlg \in Dialog /\ dlg.wine \in Wine
           /\ dlg.early \in Counted /\ dlg.base \in Counted
           /\ dlg.initial \in SUBSET Spot /\ dlg.selected \in SUBSET Spot
           /\ DialogForm(dlg) /\ DialogBase(dlg) /\ DialogPlaces(dlg)
           /\ dlg.mode # "remove" => dlg.saved /\ qty[dlg.wine] = dlg.early.qty
<1>1. TablesOK /\ SpotsOK /\ ShownOK /\ HistoryOK /\ DialogOK
  BY DEF AccountingInv
<1> QED
  BY <1>1, DialogFields DEF DialogForm

LEMMA ApplyNewKeeps ==
    ASSUME AccountingInv, ApplyNew
    PROVE  AccountingInv'
<1> DEFINE n == dlg.early.qty
<1> DEFINE b == [NoBottles EXCEPT ![dlg.size] = n]
<1> DEFINE loc == {LabelOf(s) : s \in dlg.selected}
<1> DEFINE m == [dlg.early EXCEPT !.bottles = b, !.loc = loc]
<1>1. /\ dlg # None /\ dlg.stage = "apply" /\ dlg.mode = "new"
      /\ SaveModel(dlg.page, dlg.wine, m) /\ dlg' = None
      /\ PutIn(dlg.wine, m.qty) /\ UNCHANGED <<full, saving, ops>>
  BY DEF ApplyNew
<1>2. /\ TablesOK /\ SpotsOK /\ ShownOK /\ HistoryOK /\ saving = None
      /\ dlg.wine \in Wine /\ dlg.early \in Counted /\ dlg.selected \in SUBSET Spot
      /\ dlg.page \in Page /\ dlg.size \in Size
  BY <1>1, AppliedDialog DEF DialogForm
<1>3. n \in 1..MaxQuantity /\ n \in Nat \ {0} /\ MaxQuantity \in Nat /\ dlg.early \in Model
  BY <1>2, ModelFields
<1>4. b \in Bottles /\ Total(b) = n /\ b # NoBottles
  BY <1>2, <1>3, OneSize
<1>5. loc \in SUBSET Label
  BY <1>2, LabelType
<1> HIDE DEF b, loc
<1>6. m \in Counted /\ m.qty = n /\ m.bottles = b
  <2>1. m \in Model /\ m.qty = n /\ m.bottles = b
    BY <1>3, <1>4, <1>5 DEF Model
  <2> HIDE DEF m
  <2> QED
    BY <1>3, <1>4, <2>1 DEF Counted
<1> HIDE DEF m, n
<1>7. /\ TablesOK' /\ ShownOK' /\ OthersKept(dlg.wine) /\ UNCHANGED spots
      /\ qty'[dlg.wine] = n /\ bottles'[dlg.wine] = b
  BY <1>1, <1>2, <1>4, <1>6, SaveKeeps
<1>8. SpotsOK' /\ SavingOK'
  BY <1>1, <1>2, <1>7 DEF SpotsOK, SavingOK
<1>9. intended[dlg.wine] # None => intended[dlg.wine] = 0
  BY <1>1, AppliedDialog DEF DialogBase
<1>10. intended[dlg.wine] # None => intended[dlg.wine] + n = n /\ n \in 0..MaxQuantity
  BY <1>3, <1>9
<1>11. /\ intended' \in [Wine -> 0..MaxQuantity \cup {None}]
       /\ \A v \in Wine \ {dlg.wine} : intended'[v] = intended[v]
       /\ intended'[dlg.wine] = IF intended[dlg.wine] = None THEN None ELSE n
  BY <1>1, <1>2, <1>6, <1>10, PutInKeeps
<1> QED
  <2>1. PICK w : w = dlg.wine
    OBVIOUS
  <2>2. AccountedFor(w)'
    BY <1>4, <1>7, <1>11, <2>1 DEF AccountedFor
  <2> QED
    BY <1>1, <1>7, <1>8, <1>11, <2>1, <2>2, CloseKeeps

LEMMA ApplyLocateKeeps ==
    ASSUME AccountingInv, ApplyLocate
    PROVE  AccountingInv'
<1> DEFINE loc == {LabelOf(s) : s \in dlg.selected}
<1> DEFINE m == [dlg.base EXCEPT !.loc = loc]
<1>1. /\ dlg # None /\ dlg.stage = "apply" /\ dlg.mode = "locate"
      /\ SaveModel("detail", dlg.wine, m) /\ dlg' = None
      /\ UNCHANGED <<full, saving, intended, ops>>
  BY DEF ApplyLocate
<1>2. /\ TablesOK /\ SpotsOK /\ ShownOK /\ HistoryOK /\ saving = None
      /\ dlg.wine \in Wine /\ dlg.base \in Counted /\ dlg.selected \in SUBSET Spot
      /\ DialogBase(dlg)
  BY <1>1, AppliedDialog
<1>3. loc \in SUBSET Label /\ "detail" \in Page
  BY <1>2, LabelType DEF Page
<1> HIDE DEF loc
<1>4. m \in Counted /\ m.qty = dlg.base.qty /\ m.bottles = dlg.base.bottles
  <2>1. dlg.base \in Model /\ Total(dlg.base.bottles) <= MaxQuantity
    BY <1>2, ModelFields
  <2>2. m \in Model /\ m.qty = dlg.base.qty /\ m.bottles = dlg.base.bottles
    BY <1>3, <2>1 DEF Model
  <2> HIDE DEF m
  <2> QED
    BY <2>1, <2>2 DEF Counted
<1> HIDE DEF m
<1>5. /\ TablesOK' /\ ShownOK' /\ OthersKept(dlg.wine) /\ UNCHANGED spots
      /\ qty'[dlg.wine] = dlg.base.qty
      /\ bottles'[dlg.wine] = IF dlg.base.bottles = NoBottles THEN bottles[dlg.wine]
                              ELSE dlg.base.bottles
  BY <1>1, <1>2, <1>3, <1>4, SaveKeeps
<1>6. SpotsOK' /\ SavingOK'
  BY <1>1, <1>2, <1>5 DEF SpotsOK, SavingOK
<1> QED
  <2>1. PICK w : w = dlg.wine
    OBVIOUS
  <2>2. AccountedFor(w)'
    BY <1>1, <1>2, <1>5, <2>1 DEF AccountedFor, DialogBase, Agree
  <2>3. intended' \in [Wine -> 0..MaxQuantity \cup {None}]
        /\ \A v \in Wine \ {dlg.wine} : intended'[v] = intended[v]
    BY <1>1, <1>2 DEF HistoryOK
  <2> QED
    BY <1>1, <1>5, <1>6, <2>1, <2>2, <2>3, CloseKeeps

LEMMA ApplyFormKeeps ==
    ASSUME AccountingInv, ApplyForm
    PROVE  AccountingInv'
<1>1. /\ dlg # None /\ dlg.stage = "apply" /\ dlg.mode = "form" /\ dlg' = None
      /\ UNCHANGED <<tables, pages, saving, intended, ops>>
  BY DEF ApplyForm
<1>2. /\ TablesOK /\ SpotsOK /\ ShownOK /\ HistoryOK /\ DialogOK /\ saving = None
      /\ dlg.wine \in Wine
  BY <1>1, AppliedDialog
<1>3. /\ TablesOK' /\ SpotsOK' /\ ShownOK' /\ SavingOK' /\ OthersKept(dlg.wine)
      /\ UNCHANGED <<full, ops>>
      /\ intended' \in [Wine -> 0..MaxQuantity \cup {None}]
      /\ \A v \in Wine \ {dlg.wine} : intended'[v] = intended[v]
  BY <1>1, <1>2
     DEF tables, pages, TablesOK, SpotsOK, ShownOK, SavingOK, OthersKept, HistoryOK
<1>4. PICK w : w = dlg.wine
  OBVIOUS
<1>5. AccountedFor(w)
  BY <1>1, <1>2, <1>4, AccountedNow DEF Promised
<1>6. AccountedFor(w)'
  BY <1>1, <1>5 DEF AccountedFor, tables
<1> QED
  BY <1>1, <1>3, <1>4, <1>6, CloseKeeps

LEMMA ApplyRemoveKeeps ==
    ASSUME AccountingInv, ApplyRemove
    PROVE  AccountingInv'
<1> DEFINE n == Cardinality(dlg.initial \ dlg.selected)
<1>1. /\ dlg # None /\ dlg.stage = "apply" /\ dlg.mode = "remove"
      /\ RemoveBottles(dlg.page, dlg.wine, dlg.base, dlg.size, n)
      /\ dlg' = None /\ intended' = TakeOut(dlg.wine, n)
      /\ UNCHANGED <<full, saving, ops>>
  BY DEF ApplyRemove
<1>2. /\ TablesOK /\ SpotsOK /\ ShownOK /\ HistoryOK /\ saving = None
      /\ dlg.wine \in Wine /\ dlg.base \in Counted /\ DialogBase(dlg)
      /\ dlg.initial \in SUBSET Spot /\ dlg \in Dialog /\ DialogForm(dlg)
  BY <1>1, AppliedDialog
<1>3. n \in Nat
  <2>1. dlg.initial \ dlg.selected \in SUBSET Spot
    BY <1>2
  <2> QED
    BY <2>1, SpotsFinite
<1>4. /\ dlg.page \in Page /\ dlg.size \in Size \cup {NoSize}
      /\ dlg.page = "detail" => dlg.size \in Size /\ n <= Effective(dlg.base)[dlg.size]
  BY <1>1, <1>2 DEF DialogForm, Page, Dialog
<1> HIDE DEF n
<1>5. /\ TablesOK' /\ SpotsOK' /\ ShownOK' /\ OthersKept(dlg.wine)
      /\ Agree(dlg.base) =>
            /\ qty'[dlg.wine] = IF dlg.base.qty > n THEN dlg.base.qty - n ELSE 0
            /\ \/ bottles'[dlg.wine] = NoBottles
               \/ Total(bottles'[dlg.wine]) = qty'[dlg.wine]
  BY <1>1, <1>2, <1>3, <1>4, RemoveKeeps
<1>6. /\ intended' \in [Wine -> 0..MaxQuantity \cup {None}]
      /\ \A v \in Wine \ {dlg.wine} : intended'[v] = intended[v]
      /\ intended'[dlg.wine] = IF intended[dlg.wine] = None THEN None
                               ELSE IF intended[dlg.wine] > n THEN intended[dlg.wine] - n ELSE 0
  BY <1>1, <1>2, <1>3, TakeOutKeeps
<1>7. SavingOK'
  BY <1>1, <1>2 DEF SavingOK
<1> QED
  <2>1. PICK w : w = dlg.wine
    OBVIOUS
  <2>2. AccountedFor(w)'
    BY <1>1, <1>2, <1>5, <1>6, <2>1 DEF AccountedFor, DialogBase
  <2> QED
    BY <1>1, <1>5, <1>6, <1>7, <2>1, <2>2, CloseKeeps

(***************************************************************************)
(* freeSpots gives no position away.                                       *)
(***************************************************************************)
LEMMA FreeSpotsKeeps ==
    ASSUME SpotsOK, NEW w, NEW n, FreeSpots(w, n)
    PROVE  SpotsOK' /\ \A s \in Spot : spots'[s] \in {Free, spots[s]}
BY DEF FreeSpots, SpotsOK, Position

(***************************************************************************)
(* The bottles of a model with n more of one size.                         *)
(***************************************************************************)
LEMMA AddedSizes ==
    ASSUME NEW m \in Counted, NEW size \in Size, NEW n \in Nat \ {0},
           m.qty + n <= MaxQuantity, Total(m.bottles) + n <= MaxQuantity
    PROVE  LET new == [Effective(m) EXCEPT ![size] = @ + n] IN
           /\ new \in Bottles /\ new # NoBottles /\ Total(new) \in 1..MaxQuantity
           /\ Agree(m) => Total(new) = m.qty + n
<1> DEFINE old == Effective(m)
<1> DEFINE sum == old[size] + n
<1> DEFINE new == [old EXCEPT ![size] = sum]
<1>1. /\ old \in [Size -> Nat] /\ Total(old) \in Nat
      /\ m.bottles # NoBottles => Total(old) = Total(m.bottles)
      /\ Agree(m) => Total(old) = m.qty
      /\ m.bottles = NoBottles => Total(old) = m.qty
  BY EffectiveSizes, BottlesAreCounts DEF Agree
<1>2. m.qty \in Nat /\ MaxQuantity \in Nat /\ Total(m.bottles) \in Nat
  BY ModelFields
<1> HIDE DEF old
<1>3. sum \in Nat /\ old[size] \in Nat
  BY <1>1
<1>4. new \in [Size -> Nat]
  BY <1>1, <1>3
<1>5. Total(new) = (Total(old) - old[size]) + sum
  <2> HIDE DEF sum
  <2> QED
    BY <1>1, <1>3, Totals
<1> HIDE DEF new
<1>6. Total(new) = Total(old) + n
  BY <1>1, <1>3, <1>5
<1>7. Total(new) \in 1..MaxQuantity
  BY <1>1, <1>2, <1>6
<1>8. new \in Bottles /\ new # NoBottles
  BY <1>4, <1>7, BottlesAreCounts
<1>9. Agree(m) => Total(new) = m.qty + n
  BY <1>1, <1>6
<1>10. new = [Effective(m) EXCEPT ![size] = @ + n]
  BY DEF new, old
<1> QED
  BY <1>7, <1>8, <1>9, <1>10

LEMMA ApplyAddKeeps ==
    ASSUME AccountingInv, ApplyAdd
    PROVE  AccountingInv'
<1> DEFINE n == dlg.early.qty - dlg.base.qty
<1> DEFINE new == [Effective(dlg.base) EXCEPT ![dlg.size] = @ + n]
<1> DEFINE t == Total(new)
<1> DEFINE m == [dlg.base EXCEPT !.qty = t, !.bottles = new]
<1>1. /\ dlg # None /\ dlg.stage = "apply" /\ dlg.mode = "add"
      /\ UpdateBottleSizes(dlg.page, dlg.wine, dlg.base, new)
      /\ dlg' = None /\ PutIn(dlg.wine, n) /\ UNCHANGED <<full, ops>>
  BY DEF ApplyAdd
<1>2. /\ TablesOK /\ SpotsOK /\ ShownOK /\ HistoryOK /\ saving = None
      /\ dlg.wine \in Wine /\ dlg.base \in Counted /\ dlg.early \in Counted
      /\ DialogBase(dlg) /\ DialogForm(dlg) /\ qty[dlg.wine] = dlg.early.qty
  BY <1>1, AppliedDialog
<1>3. /\ dlg.page \in Page /\ dlg.size \in Size /\ dlg.early.qty > dlg.base.qty
      /\ Total(dlg.base.bottles) + n <= MaxQuantity
  BY <1>1, <1>2 DEF DialogForm
<1>4. /\ dlg.base \in Model /\ dlg.base.qty \in Nat /\ dlg.early.qty \in 1..MaxQuantity
      /\ MaxQuantity \in Nat
  BY <1>2, ModelFields
<1>5. n \in Nat \ {0} /\ dlg.base.qty + n = dlg.early.qty
  BY <1>3, <1>4
<1> HIDE DEF n
<1>6. /\ new \in Bottles /\ new # NoBottles /\ t \in 1..MaxQuantity
      /\ Agree(dlg.base) => t = dlg.base.qty + n
  <2>1. dlg.base.qty + n <= MaxQuantity
    BY <1>4, <1>5
  <2> QED
    BY <1>2, <1>3, <1>5, <2>1, AddedSizes
<1> HIDE DEF new
<1>7. \/ m.qty >= dlg.base.qty /\ SaveModel(dlg.page, dlg.wine, m) /\ UNCHANGED saving
      \/ /\ m.qty < dlg.base.qty /\ FreeSpots(dlg.wine, dlg.base.qty - m.qty)
         /\ saving' = [page |-> dlg.page, wine |-> dlg.wine, model |-> m]
         /\ UNCHANGED <<qty, bottles, shown, loading>>
  BY <1>1 DEF UpdateBottleSizes
<1>8. m \in Counted /\ m.qty = t /\ m.bottles = new
  <2>1. t = Total(new)
    OBVIOUS
  <2> HIDE DEF t
  <2>2. m \in Model /\ m.qty = t /\ m.bottles = new
    BY <1>4, <1>6 DEF Model
  <2> HIDE DEF m
  <2> QED
    BY <1>4, <1>6, <2>1, <2>2 DEF Counted
<1>9. t = Total(new)
  OBVIOUS
<1> HIDE DEF m, t
<1>10. intended[dlg.wine] # None => intended[dlg.wine] = dlg.base.qty /\ Agree(dlg.base)
  BY <1>1, <1>2 DEF DialogBase
<1>11. /\ intended' \in [Wine -> 0..MaxQuantity \cup {None}]
       /\ \A v \in Wine \ {dlg.wine} : intended'[v] = intended[v]
       /\ intended'[dlg.wine] = IF intended[dlg.wine] = None THEN None
                                ELSE intended[dlg.wine] + n
  <2>1. intended[dlg.wine] # None => intended[dlg.wine] + n \in 0..MaxQuantity
    BY <1>4, <1>5, <1>10
  <2> QED
    BY <1>1, <1>2, <2>1, PutInKeeps
<1>12. intended'[dlg.wine] # None => intended'[dlg.wine] = t /\ t = dlg.early.qty
  BY <1>5, <1>6, <1>10, <1>11
<1>13. PICK w : w = dlg.wine
  OBVIOUS
<1>14. CASE m.qty >= dlg.base.qty /\ SaveModel(dlg.page, dlg.wine, m) /\ UNCHANGED saving
  <2>1. /\ TablesOK' /\ ShownOK' /\ OthersKept(dlg.wine) /\ UNCHANGED spots
        /\ qty'[dlg.wine] = t /\ bottles'[dlg.wine] = new
    BY <1>2, <1>3, <1>6, <1>8, <1>14, SaveKeeps
  <2>2. SpotsOK' /\ SavingOK'
    BY <1>2, <1>14, <2>1 DEF SpotsOK, SavingOK
  <2>3. AccountedFor(w)'
    BY <1>9, <1>12, <1>13, <2>1 DEF AccountedFor
  <2> QED
    BY <1>1, <1>11, <1>13, <2>1, <2>2, <2>3, CloseKeeps
<1>15. CASE /\ m.qty < dlg.base.qty /\ FreeSpots(dlg.wine, dlg.base.qty - m.qty)
            /\ saving' = [page |-> dlg.page, wine |-> dlg.wine, model |-> m]
            /\ UNCHANGED <<qty, bottles, shown, loading>>
  <2>1. TablesOK' /\ ShownOK' /\ OthersKept(dlg.wine)
    BY <1>2, <1>15 DEF TablesOK, ShownOK, OthersKept
  <2>2. SpotsOK'
    BY <1>2, <1>15, FreeSpotsKeeps
  <2>3. intended'[dlg.wine] = None
    <3>1. ~(t = dlg.early.qty)
      BY <1>3, <1>4, <1>6, <1>8, <1>15
    <3> QED
      BY <1>12, <3>1
  <2>4. SavingOK'
    <3>1. /\ saving' \in [page : Page, wine : Wine, model : Counted]
          /\ saving'.wine = dlg.wine
      BY <1>2, <1>3, <1>8, <1>15
    <3>2. qty'[dlg.wine] # 0
      BY <1>2, <1>4, <1>15
    <3> QED
      BY <2>3, <3>1, <3>2 DEF SavingOK
  <2>5. AccountedFor(w)'
    BY <1>13, <2>3 DEF AccountedFor
  <2> QED
    BY <1>1, <1>11, <1>13, <2>1, <2>2, <2>4, <2>5, CloseKeeps
<1> QED
  BY <1>7, <1>14, <1>15

-----------------------------------------------------------------------------
(* Without a dialog                                                        *)

(***************************************************************************)
(* An operation about w that a page carries out without a dialog.          *)
(***************************************************************************)
LEMMA PageKeeps ==
    ASSUME AccountingInv, dlg = None, saving = None, UNCHANGED <<full, dlg, saving>>, NextOp,
           NEW w \in Wine, TablesOK', SpotsOK', ShownOK', OthersKept(w),
           intended' \in [Wine -> 0..MaxQuantity \cup {None}],
           \A v \in Wine \ {w} : intended'[v] = intended[v],
           AccountedFor(w)'
    PROVE  AccountingInv'
<1>1. FullOK /\ HistoryOK /\ ops \in 0..MaxOps
  BY DEF AccountingInv
<1>2. FullOK' /\ SavingOK' /\ DialogOK' /\ ops' \in 0..MaxOps
  BY <1>1, AccountingAssumption DEF FullOK, SavingOK, DialogOK, NextOp
<1>3. HistoryOK'
  BY <1>1, OthersAccounted
<1> QED
  BY <1>2, <1>3 DEF AccountingInv

LEMMA RemoveUnassignedKeeps ==
    ASSUME AccountingInv, NEW p \in Page, NEW w \in Wine, NEW size \in Size \cup {NoSize},
           NEW n \in 1..MaxPick, RemoveUnassigned(p, w, size, n)
    PROVE  AccountingInv'
<1> DEFINE base == shown[p][w]
<1> DEFINE held == Initial(w, "remove", base, size)
<1>1. /\ Front(p, w) /\ base # None /\ ((p = "search") <=> (size = NoSize))
      /\ size \in Size => Effective(base)[size] > 0
      /\ \/ held = {} /\ n = 1
         \/ size \in Size /\ held # {} /\ Cardinality(held) + n <= Effective(base)[size]
      /\ RemoveBottles(p, w, base, size, n)
      /\ intended' = IF Outdated(w, base) THEN Forget({w}) ELSE TakeOut(w, n)
      /\ NextOp /\ UNCHANGED <<full, dlg, saving>>
  BY DEF RemoveUnassigned
<1>2. dlg = None /\ saving = None
  BY <1>1, FrontIsFree
<1>3. /\ TablesOK /\ SpotsOK /\ ShownOK /\ HistoryOK
      /\ base \in Counted /\ AccountedFor(w)
  BY <1>1, <1>2 DEF AccountingInv, ShownOK, HistoryOK
<1>4. n \in Nat /\ held \in SUBSET Spot /\ Cardinality(held) \in Nat
  <2>1. held \in SUBSET Spot
    BY DEF Initial, Held
  <2> QED
    BY <2>1, SpotsFinite, AccountingAssumption
<1>5. p = "detail" => size \in Size
  BY <1>1
<1> HIDE DEF base, held
<1>6. p = "detail" => n <= Effective(base)[size]
  <2>1. Effective(base) \in [Size -> Nat]
    BY <1>3, EffectiveSizes, BottlesAreCounts
  <2>2. size \in Size => Effective(base)[size] \in Nat
    BY <2>1
  <2> QED
    BY <1>1, <1>4, <1>5, <2>2
<1>7. /\ TablesOK' /\ SpotsOK' /\ ShownOK' /\ OthersKept(w)
      /\ Agree(base) =>
            /\ qty'[w] = IF base.qty > n THEN base.qty - n ELSE 0
            /\ bottles'[w] = NoBottles \/ Total(bottles'[w]) = qty'[w]
  BY <1>1, <1>3, <1>4, <1>5, <1>6, RemoveKeeps
<1>8. /\ intended' \in [Wine -> 0..MaxQuantity \cup {None}]
      /\ \A v \in Wine \ {w} : intended'[v] = intended[v]
      /\ intended'[w] = IF Outdated(w, base) \/ intended[w] = None THEN None
                        ELSE IF intended[w] > n THEN intended[w] - n ELSE 0
  <2>1. CASE Outdated(w, base)
    BY <1>1, <1>3, <2>1 DEF Forget, HistoryOK
  <2>2. CASE ~Outdated(w, base)
    BY <1>1, <1>3, <1>4, <2>2, TakeOutKeeps
  <2> QED
    BY <2>1, <2>2
<1>9. AccountedFor(w)'
  <2>1. CASE intended'[w] = None
    BY <2>1 DEF AccountedFor
  <2>2. CASE intended'[w] # None
    <3>1. ~Outdated(w, base) /\ intended[w] # None
          /\ intended'[w] = IF intended[w] > n THEN intended[w] - n ELSE 0
      BY <1>8, <2>2
    <3>2. base.qty = qty[w] /\ base.bottles = bottles[w]
      BY <1>1, <3>1 DEF Outdated
    <3>3. intended[w] = base.qty /\ Agree(base)
      BY <1>3, <3>1, <3>2 DEF AccountedFor, Agree
    <3> QED
      BY <1>7, <3>1, <3>3 DEF AccountedFor
  <2> QED
    BY <2>1, <2>2
<1> QED
  BY <1>1, <1>2, <1>7, <1>8, <1>9, PageKeeps

LEMMA EditWineKeeps ==
    ASSUME AccountingInv, NEW w \in Wine, EditWine(w)
    PROVE  AccountingInv'
<1>1. /\ Front("detail", w) /\ SaveModel("detail", w, full.model) /\ Begin(w, full.model)
      /\ NextOp /\ UNCHANGED <<full, dlg, saving>>
  BY DEF EditWine
<1>2. dlg = None /\ saving = None /\ full # None
  BY <1>1, FrontIsFree
<1>3. /\ TablesOK /\ SpotsOK /\ ShownOK /\ HistoryOK /\ full.model \in Counted
      /\ AccountedFor(w) /\ "detail" \in Page
  BY <1>2 DEF AccountingInv, FullOK, HistoryOK, Page
<1> DEFINE m == full.model
<1> HIDE DEF m
<1>4. /\ TablesOK' /\ ShownOK' /\ OthersKept(w) /\ UNCHANGED spots
      /\ qty'[w] = m.qty
      /\ bottles'[w] = IF m.bottles = NoBottles THEN bottles[w] ELSE m.bottles
  BY <1>1, <1>3, SaveKeeps DEF m
<1>5. SpotsOK'
  BY <1>3, <1>4 DEF SpotsOK
<1>6. /\ intended' \in [Wine -> 0..MaxQuantity \cup {None}]
      /\ \A v \in Wine \ {w} : intended'[v] = intended[v]
      /\ intended'[w] = IF Outdated(w, m) THEN None ELSE intended[w]
  BY <1>1, <1>3, BeginKeeps DEF m
<1>7. AccountedFor(w)'
  <2>1. m # None
    BY <1>3, AccountingAssumption DEF m, Counted
  <2>2. ~Outdated(w, m) => qty'[w] = qty[w] /\ bottles'[w] = bottles[w]
    BY <1>4, <2>1 DEF Outdated
  <2> QED
    BY <1>3, <1>6, <2>2 DEF AccountedFor
<1> QED
  BY <1>1, <1>2, <1>4, <1>5, <1>6, <1>7, PageKeeps

(***************************************************************************)
(* Restoring an archived wine, while a save of another one may wait.       *)
(***************************************************************************)
LEMMA RestoreKeeps ==
    ASSUME AccountingInv, NEW w \in Wine, Restore(w)
    PROVE  AccountingInv'
<1>1. /\ dlg = None /\ qty[w] = 0
      /\ qty' = [qty EXCEPT ![w] = 1] /\ intended' = [intended EXCEPT ![w] = 1]
      /\ NextOp /\ UNCHANGED <<bottles, spots, pages, dlg, saving>>
  BY DEF Restore
<1>2. /\ TablesOK /\ SpotsOK /\ ShownOK /\ FullOK /\ SavingOK /\ HistoryOK
      /\ ops \in 0..MaxOps
  BY DEF AccountingInv
<1>3. 1 \in 0..MaxQuantity
  BY AccountingAssumption
<1>4. qty'[w] = 1 /\ intended'[w] = 1 /\ bottles'[w] = NoBottles /\ OthersKept(w)
  BY <1>1, <1>2 DEF TablesOK, HistoryOK, OthersKept
<1>5. TablesOK'
  <2>1. qty' \in [Wine -> 0..MaxQuantity] /\ bottles' \in [Wine -> Bottles]
    BY <1>1, <1>2, <1>3 DEF TablesOK
  <2>2. \A v \in Wine : /\ Total(bottles'[v]) <= MaxQuantity
                        /\ qty'[v] = 0 => bottles'[v] = NoBottles
    BY <1>1, <1>2, <1>4 DEF TablesOK, OthersKept
  <2> QED
    BY <2>1, <2>2 DEF TablesOK
<1>6. SpotsOK' /\ ShownOK' /\ FullOK' /\ DialogOK'
  BY <1>1, <1>2 DEF SpotsOK, ShownOK, FullOK, DialogOK, pages
<1>7. SavingOK'
  <2>1. CASE saving = None
    BY <1>1, <2>1 DEF SavingOK
  <2>2. CASE saving # None
    <3>1. saving.wine \in Wine /\ saving.wine # w
      BY <1>1, <1>2, <2>2 DEF SavingOK
    <3>2. qty'[saving.wine] = qty[saving.wine] /\ intended'[saving.wine] = intended[saving.wine]
      BY <1>1, <1>2, <3>1 DEF TablesOK, HistoryOK
    <3> QED
      BY <1>1, <1>2, <2>2, <3>2 DEF SavingOK
  <2> QED
    BY <2>1, <2>2
<1>8. HistoryOK'
  <2>1. intended' \in [Wine -> 0..MaxQuantity \cup {None}]
        /\ \A v \in Wine \ {w} : intended'[v] = intended[v]
    BY <1>1, <1>2, <1>3 DEF HistoryOK
  <2>2. AccountedFor(w)'
    BY <1>4 DEF AccountedFor
  <2> QED
    BY <1>1, <1>2, <1>4, <2>1, <2>2, OthersAccounted
<1>9. ops' \in 0..MaxOps
  BY <1>1, <1>2, AccountingAssumption DEF NextOp
<1> QED
  BY <1>5, <1>6, <1>7, <1>8, <1>9 DEF AccountingInv

LEMMA ShelfStepKeeps ==
    ASSUME AccountingInv, (\E sh \in Shelf : AddShelf(sh)) \/ DeleteCabinet
    PROVE  AccountingInv'
<1>1. dlg = None /\ NextOp /\ UNCHANGED <<qty, bottles, pages, dlg, saving, intended>>
  BY DEF AddShelf, DeleteCabinet
<1>2. /\ TablesOK /\ SpotsOK /\ ShownOK /\ FullOK /\ SavingOK /\ HistoryOK
      /\ ops \in 0..MaxOps
  BY DEF AccountingInv
<1>3. SpotsOK'
  BY <1>2 DEF AddShelf, DeleteCabinet, SpotsOK, Position
<1>4. TablesOK' /\ ShownOK' /\ FullOK' /\ DialogOK' /\ SavingOK'
  BY <1>1, <1>2 DEF TablesOK, ShownOK, FullOK, DialogOK, SavingOK, pages
<1>5. HistoryOK'
  BY <1>1, <1>2 DEF HistoryOK, AccountedFor
<1>6. ops' \in 0..MaxOps
  BY <1>1, <1>2, AccountingAssumption DEF NextOp
<1> QED
  BY <1>3, <1>4, <1>5, <1>6 DEF AccountingInv

(***************************************************************************)
(* Loading, opening and closing a page over unchanged tables.              *)
(***************************************************************************)
LEMMA PagesStepKeeps ==
    ASSUME AccountingInv, UNCHANGED <<tables, dlg, intended, ops>>,
           ShownOK', FullOK', saving' \in {None, saving}
    PROVE  AccountingInv'
<1>1. TablesOK /\ SpotsOK /\ SavingOK /\ HistoryOK /\ DialogOK /\ ops \in 0..MaxOps
  BY DEF AccountingInv
<1>2. TablesOK' /\ SpotsOK' /\ SavingOK' /\ ops' \in 0..MaxOps
  BY <1>1 DEF tables, TablesOK, SpotsOK, SavingOK
<1>3. HistoryOK'
  BY <1>1 DEF tables, HistoryOK, AccountedFor
<1>4. DialogOK'
  <2>1. dlg' = dlg /\ UNCHANGED <<qty, bottles, spots, intended>>
    BY DEF tables
  <2>2. CASE dlg = None
    BY <2>1, <2>2 DEF DialogOK
  <2>3. CASE dlg # None
    <3>1. dlg \in Dialog /\ DialogForm(dlg) /\ DialogBase(dlg) /\ DialogPlaces(dlg)
          /\ saving = None
      BY <1>1, <2>3 DEF DialogOK
    <3>2. DialogForm(dlg)'
      BY <2>1, <3>1 DEF DialogForm, Counted, Effective, NoBottles
    <3>3. DialogBase(dlg)'
      BY <2>1, <3>1 DEF DialogBase, Agree
    <3>4. DialogPlaces(dlg)'
      BY <2>1, <3>1 DEF DialogPlaces, ChosenPlaces, Held, LabelOf
    <3> QED
      BY <2>1, <3>1, <3>2, <3>3, <3>4 DEF DialogOK
  <2> QED
    BY <2>2, <2>3
<1> QED
  BY <1>2, <1>3, <1>4 DEF AccountingInv

LEMMA LoadKeeps ==
    ASSUME AccountingInv, NEW p \in Page, Load(p)
    PROVE  AccountingInv'
<1>1. \A w \in Wine : Stored(w) \in Counted \cup {None}
  BY LoadedModels DEF AccountingInv
<1>2. ShownOK'
  BY <1>1 DEF AccountingInv, ShownOK, Load
<1>3. FullOK' /\ UNCHANGED <<tables, dlg, saving, intended, ops>>
  BY DEF AccountingInv, FullOK, Load
<1> QED
  BY <1>2, <1>3, PagesStepKeeps

LEMMA OpenDetailKeeps ==
    ASSUME AccountingInv, NEW w \in Wine, OpenDetail(w)
    PROVE  AccountingInv'
<1>1. /\ Stored(w) \in Counted \cup {None} /\ Catalogue \in Counted
      /\ qty[w] # 0 => Stored(w) \in Counted
  BY LoadedModels DEF AccountingInv
<1>2. ShownOK'
  BY <1>1 DEF AccountingInv, ShownOK, OpenDetail, Page
<1>3. FullOK' /\ UNCHANGED <<tables, dlg, saving, intended, ops>>
  BY <1>1 DEF FullOK, OpenDetail
<1> QED
  BY <1>2, <1>3, PagesStepKeeps

LEMMA CloseDetailKeeps ==
    ASSUME AccountingInv, CloseDetail
    PROVE  AccountingInv'
<1>1. ShownOK'
  BY DEF AccountingInv, ShownOK, CloseDetail, Page
<1>2. FullOK' /\ UNCHANGED <<tables, dlg, intended, ops>> /\ saving' \in {None, saving}
  BY DEF FullOK, CloseDetail
<1> QED
  BY <1>1, <1>2, PagesStepKeeps

LEMMA SaveAfterFreeKeeps ==
    ASSUME AccountingInv, SaveAfterFree
    PROVE  AccountingInv'
<1>1. /\ saving # None /\ SaveModel(saving.page, saving.wine, saving.model)
      /\ saving' = None /\ UNCHANGED <<full, dlg, intended, ops>>
  BY DEF SaveAfterFree
<1>2. /\ TablesOK /\ SpotsOK /\ ShownOK /\ FullOK /\ SavingOK /\ HistoryOK /\ DialogOK
      /\ ops \in 0..MaxOps
  BY DEF AccountingInv
<1>3. /\ saving.page \in Page /\ saving.wine \in Wine /\ saving.model \in Counted
      /\ intended[saving.wine] = None /\ dlg = None
  BY <1>1, <1>2 DEF SavingOK, DialogOK
<1>4. TablesOK' /\ ShownOK' /\ OthersKept(saving.wine) /\ UNCHANGED spots
  BY <1>1, <1>2, <1>3, SaveKeeps
<1>5. SpotsOK' /\ FullOK' /\ SavingOK' /\ DialogOK' /\ ops' \in 0..MaxOps
  BY <1>1, <1>2, <1>3, <1>4 DEF SpotsOK, FullOK, SavingOK, DialogOK
<1>6. HistoryOK'
  <2>1. PICK w \in Wine : w = saving.wine
    BY <1>3
  <2>2. AccountedFor(w)'
    BY <1>1, <1>3, <2>1 DEF AccountedFor
  <2>3. intended' \in [Wine -> 0..MaxQuantity \cup {None}]
        /\ \A v \in Wine \ {w} : intended'[v] = intended[v]
    BY <1>1, <1>2 DEF HistoryOK
  <2> QED
    BY <1>1, <1>2, <1>3, <1>4, <2>1, <2>2, <2>3, OthersAccounted
<1> QED
  BY <1>4, <1>5, <1>6 DEF AccountingInv

LEMMA KillKeeps ==
    ASSUME AccountingInv, Kill
    PROVE  AccountingInv'
<1>1. /\ full' = None /\ dlg' = None /\ saving' = None /\ UNCHANGED <<tables, ops>>
      /\ intended' = Forget({w \in Wine : \/ Promised /\ dlg.wine = w
                                          \/ saving # None /\ saving.wine = w})
  BY DEF Kill
<1>2. TablesOK /\ SpotsOK /\ HistoryOK /\ DialogOK /\ ops \in 0..MaxOps
  BY DEF AccountingInv
<1>3. \A w \in Wine : Stored(w) \in Counted \cup {None}
  BY <1>2, LoadedModels
<1>4. ShownOK'
  BY <1>3 DEF ShownOK, Kill
<1>5. TablesOK' /\ SpotsOK' /\ FullOK' /\ DialogOK' /\ SavingOK' /\ ops' \in 0..MaxOps
  BY <1>1, <1>2 DEF tables, TablesOK, SpotsOK, FullOK, DialogOK, SavingOK
<1>6. intended' \in [Wine -> 0..MaxQuantity \cup {None}]
  BY <1>1, <1>2 DEF Forget, HistoryOK
<1>7. ASSUME NEW w \in Wine PROVE AccountedFor(w)'
  <2>1. CASE Promised /\ dlg.wine = w
    BY <1>1, <2>1 DEF Forget, AccountedFor
  <2>2. CASE ~(Promised /\ dlg.wine = w)
    <3>1. AccountedFor(w)
      BY <1>2, <2>2, AccountedNow
    <3>2. intended'[w] \in {None, intended[w]} /\ UNCHANGED <<qty, bottles>>
      BY <1>1 DEF Forget, tables
    <3> QED
      BY <3>1, <3>2 DEF AccountedFor
  <2> QED
    BY <2>1, <2>2
<1>8. HistoryOK'
  BY <1>6, <1>7 DEF HistoryOK
<1> QED
  BY <1>4, <1>5, <1>8 DEF AccountingInv

-----------------------------------------------------------------------------
(* The theorems on counts                                                  *)

LEMMA AccountingInvInit ==
    AccountingInit => AccountingInv
<1> SUFFICES ASSUME AccountingInit PROVE AccountingInv
  OBVIOUS
<1>1. NoBottles \in Bottles /\ Total(NoBottles) = 0 /\ MaxQuantity \in Nat /\ MaxOps \in Nat
  BY BottlesAreCounts, AccountingAssumption
<1>2. TablesOK
  BY <1>1 DEF AccountingInit, TablesOK
<1>3. SpotsOK /\ ShownOK /\ FullOK /\ DialogOK /\ SavingOK
  BY DEF AccountingInit, SpotsOK, Position, ShownOK, FullOK, DialogOK, SavingOK
<1>4. HistoryOK /\ ops \in 0..MaxOps
  BY <1>1 DEF AccountingInit, HistoryOK, AccountedFor
<1> QED
  BY <1>2, <1>3, <1>4 DEF AccountingInv

(***************************************************************************)
(* Every action keeps the invariant.                                       *)
(***************************************************************************)
LEMMA AccountingInvStep ==
    AccountingInv /\ [AccountingNext]_accVars => AccountingInv'
<1> SUFFICES ASSUME AccountingInv, [AccountingNext]_accVars PROVE AccountingInv'
  OBVIOUS
<1>1. CASE Operation
  <2>1. ASSUME NEW w \in Wine, ShowLocation(w) \/ EditWine(w) \/ Restore(w)
        PROVE  AccountingInv'
    BY <2>1, ShowLocationKeeps, EditWineKeeps, RestoreKeeps
  <2>2. ASSUME NEW w \in Wine, NEW n \in 1..MaxPick, NEW size \in Size, SaveForm(w, size, n)
        PROVE  AccountingInv'
    BY <2>2, SaveFormKeeps
  <2>3. ASSUME NEW w \in Wine, NEW n \in 1..MaxPick, NEW p \in Page, NEW size \in Size,
               AddToCellar(p, w, size, n) \/ AddBottles(p, w, size, n)
        PROVE  AccountingInv'
    BY <2>3, AddToCellarKeeps, AddBottlesKeeps
  <2>4. ASSUME NEW w \in Wine, NEW n \in 1..MaxPick, NEW p \in Page,
               NEW size \in Size \cup {NoSize}, RemoveUnassigned(p, w, size, n)
        PROVE  AccountingInv'
    BY <2>4, RemoveUnassignedKeeps
  <2>5. ASSUME NEW p \in Page, NEW w \in Wine, NEW size \in Size \cup {NoSize},
               RemoveFromStorage(p, w, size)
        PROVE  AccountingInv'
    BY <2>5, RemoveFromStorageKeeps
  <2>6. ASSUME (\E sh \in Shelf : AddShelf(sh)) \/ DeleteCabinet PROVE AccountingInv'
    BY <2>6, ShelfStepKeeps
  <2> QED
    BY <1>1, <2>1, <2>2, <2>3, <2>4, <2>5, <2>6 DEF Operation
<1>2. CASE DialogStep
  BY <1>2, SaveLocationKeeps, SaveLocationRemoveModeKeeps, ConfirmKeeps, CancelDialogKeeps,
     WriteLocationKeeps, ApplyNewKeeps, ApplyAddKeeps, ApplyLocateKeeps, ApplyFormKeeps,
     ApplyRemoveKeeps DEF DialogStep
<1>3. CASE OtherStep
  BY <1>3, OpenDetailKeeps, CloseDetailKeeps, SaveAfterFreeKeeps, LoadKeeps, KillKeeps
     DEF OtherStep
<1>4. CASE UNCHANGED accVars
  <2>1. /\ UNCHANGED <<tables, dlg, intended, ops, saving>>
        /\ UNCHANGED <<shown, loading, full>>
    BY <1>4 DEF accVars, pages
  <2>2. ShownOK' /\ FullOK'
    BY <2>1 DEF AccountingInv, ShownOK, FullOK
  <2> QED
    BY <2>1, <2>2, PagesStepKeeps
<1> QED
  BY <1>1, <1>2, <1>3, <1>4 DEF AccountingNext

(***************************************************************************)
(* The invariant: what a dialog's copy, the row it has stored first, the   *)
(* sizes and the history have to do with each other at every moment.       *)
(***************************************************************************)
THEOREM AccountingInvariant == AccountingSpec => []AccountingInv
<1> QED
  BY AccountingInvInit, AccountingInvStep, PTL DEF AccountingSpec

(***************************************************************************)
(* Quantities, sizes and copies stay within their types and bounds:        *)
(* updateBottleSizes and _removeOneBottle never store a wine without a     *)
(* bottle or with more than the pages have put in.                         *)
(***************************************************************************)
THEOREM AccountingTypes == AccountingSpec => []AccountingTypeOK
<1>1. AccountingInv => AccountingTypeOK
  <2>1. Counted \subseteq Model
    BY DEF Counted
  <2>2. ShownOK => shown \in [Page -> [Wine -> Model \cup {None}]] /\ loading \in [Page -> BOOLEAN]
    BY <2>1 DEF ShownOK
  <2>3. FullOK => full \in Resolved \cup {None}
    BY <2>1 DEF FullOK, Resolved
  <2>4. SavingOK => saving \in Saving \cup {None}
    BY <2>1 DEF SavingOK, Saving
  <2> QED
    BY <2>2, <2>3, <2>4
       DEF AccountingInv, AccountingTypeOK, TablesOK, SpotsOK, DialogOK, HistoryOK
<1> QED
  BY <1>1, AccountingInvariant, PTL

(***************************************************************************)
(* Quantity, sizes and what the user has added and removed agree whenever  *)
(* no change is under way, through dialogs on either page, edits, restores *)
(* and kills of the process (updateBottleSizes, _removeOneBottle,          *)
(* _saveLocation), for any number of bottles.                              *)
(***************************************************************************)
THEOREM BottlesCounted == AccountingSpec => []CountsAgree
<1>1. AccountingInv => CountsAgree
  <2> SUFFICES ASSUME AccountingInv, NEW w \in Wine, intended[w] # None, ~UnderWay(w)
               PROVE  qty[w] = intended[w] /\ (bottles[w] = NoBottles \/ Total(bottles[w]) = qty[w])
    BY DEF CountsAgree
  <2>1. ~(Promised /\ dlg.wine = w)
    BY DEF Promised, UnderWay
  <2>2. AccountedFor(w)
    BY <2>1, AccountedNow DEF AccountingInv
  <2> QED
    BY <2>2 DEF AccountedFor
<1> QED
  BY <1>1, AccountingInvariant, PTL

-----------------------------------------------------------------------------
(* The theorems on positions                                               *)

(***************************************************************************)
(* Taking bottles out gives no position to a wine.                         *)
(***************************************************************************)
LEMMA RemoveFrees ==
    ASSUME NEW p, NEW w, NEW base, NEW size, NEW n, RemoveBottles(p, w, base, size, n)
    PROVE  \A s \in Spot : spots'[s] \in {Free, spots[s]}
<1>1. DeleteModel(p, w) \/ UNCHANGED spots
  BY DEF RemoveBottles, SaveModel
<1> QED
  BY <1>1 DEF DeleteModel

(***************************************************************************)
(* Only a dialog in which positions are chosen gives one to a wine.        *)
(***************************************************************************)
LEMMA OnlyDialogsGive ==
    ASSUME AccountingInv, [AccountingNext]_accVars
    PROVE  \/ WriteLocation /\ dlg.mode # "remove"
           \/ \A s \in Spot : spots'[s].wine \in {None, spots[s].wine}
<1>1. CASE UNCHANGED spots
  BY <1>1
<1>2. CASE \A s \in Spot : spots'[s] \in {Free, Absent, spots[s]}
  BY <1>2 DEF Free, Absent
<1>3. CASE Operation
  <2>1. ASSUME NEW w, ShowLocation(w) \/ EditWine(w) \/ Restore(w) PROVE UNCHANGED spots
    BY <2>1 DEF ShowLocation, EditWine, Restore, SaveModel, tables
  <2>2. ASSUME NEW w, NEW n, NEW size, SaveForm(w, size, n) PROVE UNCHANGED spots
    BY <2>2 DEF SaveForm
  <2>3. ASSUME NEW w, NEW n, NEW p, NEW size,
               AddToCellar(p, w, size, n) \/ AddBottles(p, w, size, n)
        PROVE  UNCHANGED spots
    BY <2>3 DEF AddToCellar, AddBottles, tables
  <2>4. ASSUME NEW w, NEW n, NEW p, NEW size, RemoveUnassigned(p, w, size, n)
        PROVE  \A s \in Spot : spots'[s] \in {Free, spots[s]}
    BY <2>4, RemoveFrees DEF RemoveUnassigned
  <2>5. ASSUME NEW p, NEW w, NEW size, RemoveFromStorage(p, w, size) PROVE UNCHANGED spots
    BY <2>5 DEF RemoveFromStorage, tables
  <2>6. ASSUME (\E sh \in Shelf : AddShelf(sh)) \/ DeleteCabinet
        PROVE  \A s \in Spot : spots'[s] \in {Free, Absent, spots[s]}
    BY <2>6 DEF AddShelf, DeleteCabinet
  <2> QED
    BY <1>1, <1>2, <1>3, <2>1, <2>2, <2>3, <2>4, <2>5, <2>6 DEF Operation
<1>4. CASE DialogStep
  <2>1. ASSUME SaveLocation \/ SaveLocationRemoveMode \/ Confirm \/ CancelDialog
               \/ ApplyNew \/ ApplyLocate \/ ApplyForm
        PROVE  UNCHANGED spots
    BY <2>1 DEF SaveLocation, SaveLocationRemoveMode, Confirm, CancelDialog,
                ApplyNew, ApplyLocate, ApplyForm, SaveModel, tables
  <2>2. ASSUME ApplyRemove PROVE \A s \in Spot : spots'[s] \in {Free, spots[s]}
    BY <2>2, RemoveFrees DEF ApplyRemove
  <2>3. ASSUME ApplyAdd PROVE \A s \in Spot : spots'[s] \in {Free, spots[s]}
    <3>1. UNCHANGED spots \/ \E n : FreeSpots(dlg.wine, n)
      BY <2>3 DEF ApplyAdd, UpdateBottleSizes, SaveModel
    <3> QED
      BY <3>1, FreeSpotsKeeps DEF AccountingInv
  <2>4. ASSUME WriteLocation, dlg.mode = "remove"
        PROVE  \A s \in Spot : spots'[s].wine \in {None, spots[s].wine}
    BY <2>4, WrittenPlaces DEF AccountingInv
  <2> QED
    BY <1>1, <1>2, <1>4, <2>1, <2>2, <2>3, <2>4 DEF DialogStep
<1>5. CASE OtherStep
  <2>1. UNCHANGED spots
    BY <1>5 DEF OtherStep, OpenDetail, CloseDetail, SaveAfterFree, SaveModel, Load, Kill, tables
  <2> QED
    BY <1>1, <2>1
<1>6. CASE UNCHANGED accVars
  BY <1>1, <1>6 DEF accVars, tables
<1> QED
  BY <1>3, <1>4, <1>5, <1>6 DEF AccountingNext

(***************************************************************************)
(* When a dialog writes: its positions are as it has loaded them, and its  *)
(* wine has as many bottles as it has stored first.                        *)
(***************************************************************************)
LEMMA WritingDialog ==
    ASSUME AccountingInv, WriteLocation, dlg.mode # "remove"
    PROVE  /\ dlg # None /\ dlg \in Dialog /\ dlg.wine \in Wine /\ ChosenPlaces(dlg)
           /\ dlg.initial \in SUBSET Spot /\ dlg.selected \in SUBSET Spot
           /\ dlg.early \in Counted /\ dlg.base \in Counted
           /\ UNCHANGED qty /\ qty[dlg.wine] = dlg.early.qty
           /\ \A s \in Spot : /\ s \in dlg.selected <=> spots'[s].wine = dlg.wine
                              /\ s \notin dlg.selected =>
                                    spots'[s].wine \in {None, spots[s].wine}
<1>1. dlg # None /\ dlg.stage = "write" /\ UNCHANGED qty
  BY DEF WriteLocation
<1>2. /\ dlg \in Dialog /\ dlg.wine \in Wine /\ dlg.early \in Counted
      /\ dlg.initial \in SUBSET Spot /\ dlg.selected \in SUBSET Spot
      /\ DialogForm(dlg) /\ DialogPlaces(dlg) /\ SpotsOK /\ DialogOK
  BY <1>1, DialogFields DEF AccountingInv
<1>3. qty[dlg.wine] = dlg.early.qty /\ dlg.base \in Counted
  BY <1>1, <1>2 DEF DialogForm
<1>4. ChosenPlaces(dlg)
  BY <1>1, <1>2 DEF DialogPlaces
<1>5. /\ Held(dlg.wine)' = dlg.selected
      /\ \A s \in Spot : s \notin dlg.selected => spots'[s].wine \in {None, spots[s].wine}
  BY <1>2, WrittenPlaces
<1>6. dlg'.wine = dlg.wine
  BY <1>2 DEF WriteLocation, Dialog
<1>7. \A s \in Spot : s \in dlg.selected <=> spots'[s].wine = dlg.wine
  BY <1>5, <1>6 DEF Held
<1> QED
  BY <1>1, <1>2, <1>3, <1>4, <1>5, <1>7

(***************************************************************************)
(* A position changes hands only to the wine of the dialog, and one that   *)
(* holds another wine only when the location string of the dialog's model  *)
(* names its place (_restoreSelectedSpotsFromWineLocation).                *)
(***************************************************************************)
THEOREM PositionsTaken == AccountingSpec => TakesOnlyNamed
<1>1. ASSUME AccountingInv, [AccountingNext]_accVars, NEW s \in Spot,
             spots[s].wine \in Wine, spots'[s].wine \in Wine \ {spots[s].wine}
      PROVE  dlg # None /\ spots'[s].wine = dlg.wine /\ LabelOf(s) \in dlg.early.loc
  <2>1. None \notin Wine
    BY AccountingAssumption
  <2>2. ~(spots'[s].wine \in {None, spots[s].wine})
    BY <1>1, <2>1
  <2>3. WriteLocation /\ dlg.mode # "remove"
    BY <1>1, <2>2, OnlyDialogsGive
  <2>4. /\ dlg # None /\ ChosenPlaces(dlg)
        /\ s \in dlg.selected /\ spots'[s].wine = dlg.wine
    BY <1>1, <2>2, <2>3, WritingDialog
  <2>5. s \in dlg.initial
    BY <1>1, <2>1, <2>4 DEF ChosenPlaces
  <2>6. s \notin Held(dlg.wine)
    BY <1>1, <2>4 DEF Held
  <2> QED
    BY <2>4, <2>5, <2>6 DEF ChosenPlaces
<1>2. AccountingInv /\ [AccountingNext]_accVars =>
        [\A s \in Spot :
            spots[s].wine \in Wine /\ spots'[s].wine \in Wine \ {spots[s].wine} =>
                /\ dlg # None /\ spots'[s].wine = dlg.wine
                /\ LabelOf(s) \in dlg.early.loc]_accVars
  BY <1>1
<1> QED
  BY <1>2, AccountingInvariant, PTL DEF AccountingSpec, TakesOnlyNamed

(***************************************************************************)
(* A dialog gives a wine no more positions than it has bottles, although   *)
(* "Unassigned" skips the check of _saveLocation, unless the wine had more *)
(* already or the location string only seems to name a position.           *)
(***************************************************************************)
THEOREM PositionsGiven == AccountingSpec => PlacesWithinBottles
<1>1. ASSUME AccountingInv, [AccountingNext]_accVars, NEW w \in Wine,
             Held(w)' \ Held(w) # {}, Cardinality(Held(w)') > qty'[w]
      PROVE  \/ dlg.mode = "add" /\ Cardinality(Held(w)) > dlg.base.qty
             \/ \E s \in Held(w)' \ Held(w) : LabelOf(s) \in dlg.early.loc
  <2>1. None \notin Wine
    BY AccountingAssumption
  <2>2. PICK s \in Spot : spots'[s].wine = w /\ spots[s].wine # w
    BY <1>1 DEF Held
  <2>3. ~(spots'[s].wine \in {None, spots[s].wine})
    BY <2>1, <2>2
  <2>4. WriteLocation /\ dlg.mode # "remove"
    BY <1>1, <2>3, OnlyDialogsGive
  <2>5. /\ ChosenPlaces(dlg) /\ dlg.early \in Counted /\ dlg.base \in Counted
        /\ dlg.initial \in SUBSET Spot /\ dlg.selected \in SUBSET Spot
        /\ UNCHANGED qty /\ qty[dlg.wine] = dlg.early.qty
        /\ \A t \in Spot : /\ t \in dlg.selected <=> spots'[t].wine = dlg.wine
                           /\ t \notin dlg.selected => spots'[t].wine \in {None, spots[t].wine}
    BY <1>1, <2>4, WritingDialog
  <2>6. w = dlg.wine
    BY <2>2, <2>3, <2>5
  <2>7. Held(w)' = dlg.selected
    BY <2>5, <2>6 DEF Held
  <2>8. Cardinality(dlg.selected) > dlg.early.qty
    BY <1>1, <2>5, <2>6, <2>7
  <2>9. CASE \E t \in dlg.selected \ Held(w) : LabelOf(t) \in dlg.early.loc
    BY <2>7, <2>9
  <2>10. CASE ~\E t \in dlg.selected \ Held(w) : LabelOf(t) \in dlg.early.loc
    <3>1. ~(dlg.selected \subseteq dlg.initial)
      BY <1>1, <2>5, <2>6, <2>7, <2>10 DEF ChosenPlaces
    <3>2. Cardinality(dlg.selected) <= dlg.max
      BY <2>5, <3>1 DEF ChosenPlaces
    <3>3. /\ dlg.early.qty \in Nat /\ dlg.base.qty \in Nat
          /\ Cardinality(dlg.selected) \in Nat /\ Cardinality(dlg.initial) \in Nat
      BY <2>5, ModelFields, SpotsFinite
    <3>4. dlg.mode = "add" /\ dlg.max = Cardinality(dlg.initial) + (dlg.early.qty - dlg.base.qty)
      BY <2>5, <2>8, <3>2, <3>3 DEF ChosenPlaces
    <3>5. Cardinality(dlg.initial) > dlg.base.qty
      BY <2>8, <3>2, <3>3, <3>4
    <3>6. Held(w) = dlg.initial
      BY <2>5, <2>6, <2>10, <3>4 DEF ChosenPlaces
    <3> QED
      BY <3>4, <3>5, <3>6
  <2> QED
    BY <2>9, <2>10
<1>2. AccountingInv /\ [AccountingNext]_accVars =>
        [\A w \in Wine :
            LET new == Held(w)' \ Held(w) IN
            new # {} /\ Cardinality(Held(w)') > qty'[w] =>
                \/ dlg.mode = "add" /\ Cardinality(Held(w)) > dlg.base.qty
                \/ \E s \in new : LabelOf(s) \in dlg.early.loc]_accVars
  BY <1>1
<1> QED
  BY <1>2, AccountingInvariant, PTL DEF AccountingSpec, PlacesWithinBottles

(* w loses bottles and keeps some, not by the form.                        *)
Loses(w) ==
    /\ qty'[w] \in 1..(qty[w] - 1)
    /\ intended'[w] # None
    /\ ~(dlg' # None /\ dlg'.mode = "form")

(***************************************************************************)
(* An accounted wine loses bottles only where a page takes them out: no    *)
(* save of a dialog, an edit or a reload stores fewer than there are.      *)
(***************************************************************************)
LEMMA OnlyRemovalsLose ==
    ASSUME AccountingInv, [AccountingNext]_accVars, NEW w \in Wine, Loses(w)
    PROVE  \/ \E p \in Page, size \in Size \cup {NoSize}, n \in 1..MaxPick :
                 RemoveUnassigned(p, w, size, n)
           \/ ApplyRemove /\ dlg.wine = w
<1>1. /\ TablesOK /\ HistoryOK /\ DialogOK /\ SavingOK
      /\ qty[w] \in 0..MaxQuantity /\ MaxQuantity \in Nat
  BY AccountingAssumption DEF AccountingInv, TablesOK
<1>2. ASSUME qty'[w] = qty[w] PROVE FALSE
  BY <1>1, <1>2 DEF Loses
<1>3. ASSUME NEW v \in Wine, NEW m, PutWine(v, m), v # w PROVE FALSE
  BY <1>1, <1>2, <1>3 DEF PutWine, TablesOK
<1>4. ASSUME NEW v \in Wine, NEW m, PutWine(v, m) PROVE v = w /\ qty'[w] = m.qty
  BY <1>1, <1>3, <1>4 DEF PutWine, TablesOK
<1>5. ASSUME NEW v \in Wine, NEW p, NEW base, NEW size, NEW n,
             RemoveBottles(p, v, base, size, n)
      PROVE  v = w
  <2>1. qty' = [qty EXCEPT ![v] = qty'[v]]
    BY <1>1, <1>5 DEF RemoveBottles, DeleteModel, SaveModel, PutWine, TablesOK
  <2> QED
    BY <1>1, <1>2, <2>1 DEF TablesOK
<1>6. CASE Operation
  <2>1. ASSUME NEW v \in Wine, ShowLocation(v) PROVE FALSE
    BY <1>2, <2>1 DEF ShowLocation, tables
  <2>2. ASSUME NEW v \in Wine, EditWine(v) PROVE FALSE
    <3>1. PutWine(v, full.model) /\ Begin(v, full.model) /\ full # None
      BY <2>2, FrontIsFree DEF EditWine, SaveModel
    <3>2. v = w /\ qty'[w] = full.model.qty
      BY <1>4, <2>2, <3>1
    <3>3. full.model # None
      BY <3>1, AccountingAssumption DEF AccountingInv, FullOK, Counted
    <3>4. Outdated(w, full.model)
      BY <1>2, <3>2, <3>3 DEF Outdated
    <3> QED
      BY <1>1, <3>1, <3>2, <3>4, BeginKeeps DEF Loses
  <2>3. ASSUME NEW v \in Wine, Restore(v) PROVE FALSE
    <3>1. qty[v] = 0 /\ qty' = [qty EXCEPT ![v] = 1]
      BY <2>3 DEF Restore
    <3> QED
      BY <1>1, <1>2, <3>1 DEF TablesOK, Loses
  <2>4. ASSUME NEW v \in Wine, NEW n \in 1..MaxPick, NEW size \in Size, SaveForm(v, size, n)
        PROVE  FALSE
    <3>1. dlg'.mode = "form" /\ dlg' # None
      BY <2>4, FormOpens
    <3> QED
      BY <3>1 DEF Loses
  <2>5. ASSUME NEW v \in Wine, NEW n, NEW p, NEW size,
               AddToCellar(p, v, size, n) \/ AddBottles(p, v, size, n)
        PROVE  FALSE
    BY <1>2, <2>5 DEF AddToCellar, AddBottles, tables
  <2>6. ASSUME NEW v \in Wine, NEW n \in 1..MaxPick, NEW p \in Page,
               NEW size \in Size \cup {NoSize}, RemoveUnassigned(p, v, size, n)
        PROVE  v = w
    BY <1>5, <2>6 DEF RemoveUnassigned
  <2>7. ASSUME NEW p, NEW v, NEW size, RemoveFromStorage(p, v, size) PROVE FALSE
    BY <1>2, <2>7 DEF RemoveFromStorage, tables
  <2>8. ASSUME (\E sh \in Shelf : AddShelf(sh)) \/ DeleteCabinet PROVE FALSE
    BY <1>2, <2>8 DEF AddShelf, DeleteCabinet
  <2> QED
    BY <1>6, <2>1, <2>2, <2>3, <2>4, <2>5, <2>6, <2>7, <2>8 DEF Operation
<1>7. CASE DialogStep
  <2>1. ASSUME SaveLocationRemoveMode \/ Confirm \/ CancelDialog \/ WriteLocation \/ ApplyForm
        PROVE  FALSE
    BY <1>2, <2>1
       DEF SaveLocationRemoveMode, Confirm, CancelDialog, WriteLocation, ApplyForm, tables
  <2>2. ASSUME SaveLocation PROVE FALSE
    <3>1. /\ dlg # None /\ dlg.mode # "remove" /\ PutWine(dlg.wine, dlg.early)
          /\ UNCHANGED intended
      BY <2>2 DEF SaveLocation
    <3>2. /\ dlg.wine \in Wine /\ dlg.early \in Counted /\ dlg.base \in Counted
          /\ DialogForm(dlg) /\ DialogBase(dlg)
      BY <1>1, <3>1, DialogFields DEF DialogForm
    <3>3. dlg.wine = w /\ qty'[w] = dlg.early.qty
      BY <1>4, <3>1, <3>2
    <3>4. dlg.early.qty \in Nat /\ dlg.base.qty \in Nat /\ dlg.early.qty > 0
      BY <3>2, ModelFields
    <3>5. qty[w] = 0 \/ qty[w] = dlg.early.qty \/ qty[w] = dlg.base.qty
      BY <3>1, <3>2, <3>3 DEF DialogBase, DialogForm, Loses
    <3>6. dlg.mode # "new" => dlg.base.qty <= dlg.early.qty
      BY <3>1, <3>2, <3>4 DEF DialogForm
    <3>7. dlg.mode = "new" => qty[w] = 0 \/ qty[w] = dlg.early.qty
      BY <3>1, <3>2, <3>3 DEF DialogBase, DialogForm, Loses
    <3> QED
      BY <1>1, <3>3, <3>4, <3>5, <3>6, <3>7 DEF Loses
  <2>3. ASSUME ApplyNew \/ ApplyLocate PROVE FALSE
    <3>1. dlg # None /\ dlg.stage = "apply" /\ dlg.mode \in {"new", "locate"}
      BY <2>3 DEF ApplyNew, ApplyLocate
    <3>2. /\ dlg.wine \in Wine /\ dlg.early \in Counted /\ dlg.base \in Counted
          /\ qty[dlg.wine] = dlg.early.qty
          /\ dlg.mode = "locate" => dlg.early = dlg.base
      BY <3>1, AppliedDialog DEF DialogForm
    <3>3. dlg.early \in Model /\ dlg.base \in Model
      BY <3>2, ModelFields
    <3>4. \E m : PutWine(dlg.wine, m) /\ m.qty = dlg.early.qty
      <4>1. CASE ApplyNew
        <5>1. PICK b, l : PutWine(dlg.wine, [dlg.early EXCEPT !.bottles = b, !.loc = l])
          BY <4>1 DEF ApplyNew, SaveModel
        <5>2. [dlg.early EXCEPT !.bottles = b, !.loc = l].qty = dlg.early.qty
          BY <3>3 DEF Model
        <5> QED
          BY <5>1, <5>2
      <4>2. CASE ApplyLocate
        <5>1. PICK l : PutWine(dlg.wine, [dlg.base EXCEPT !.loc = l])
          BY <4>2 DEF ApplyLocate, SaveModel
        <5>2. [dlg.base EXCEPT !.loc = l].qty = dlg.base.qty
          BY <3>3 DEF Model
        <5>3. dlg.mode = "locate"
          BY <4>2 DEF ApplyLocate
        <5> QED
          BY <3>2, <5>1, <5>2, <5>3
      <4> QED
        BY <2>3, <4>1, <4>2
    <3> QED
      BY <1>2, <1>4, <3>2, <3>4
  <2>4. ASSUME ApplyAdd PROVE FALSE
    <3>1. dlg # None /\ dlg.stage = "apply" /\ dlg.mode = "add"
          /\ PutIn(dlg.wine, dlg.early.qty - dlg.base.qty) /\ dlg' = None
      BY <2>4 DEF ApplyAdd
    <3>2. /\ dlg.wine \in Wine /\ dlg.early \in Counted /\ dlg.base \in Counted
          /\ qty[dlg.wine] = dlg.early.qty /\ DialogBase(dlg)
      BY <3>1, AppliedDialog
    <3>3. dlg.wine = w
      <4>1. qty' = qty \/ \E m : PutWine(dlg.wine, m)
        BY <2>4 DEF ApplyAdd, UpdateBottleSizes, SaveModel
      <4> QED
        BY <1>2, <1>4, <3>2, <4>1
    <3>4. AccountedFor(w)'
      <4>1. HistoryOK'
        BY <2>4, ApplyAddKeeps DEF AccountingInv
      <4> QED
        BY <3>1, <4>1 DEF HistoryOK
    <3>5. qty'[w] = intended'[w]
      BY <3>4 DEF AccountedFor, Loses
    <3>6. dlg.early.qty \in Nat /\ dlg.base.qty \in Nat
      BY <3>2, ModelFields
    <3>7. intended'[w] = dlg.base.qty + (dlg.early.qty - dlg.base.qty)
      BY <1>1, <3>1, <3>2, <3>3 DEF PutIn, HistoryOK, Loses, DialogBase
    <3> QED
      BY <1>2, <3>2, <3>3, <3>5, <3>6, <3>7
  <2>5. ASSUME ApplyRemove PROVE dlg.wine = w
    <3>1. dlg # None /\ dlg.stage = "apply"
      BY <2>5 DEF ApplyRemove
    <3>2. dlg.wine \in Wine
      BY <3>1, AppliedDialog
    <3> QED
      BY <1>5, <2>5, <3>2 DEF ApplyRemove
  <2> QED
    BY <1>7, <2>1, <2>2, <2>3, <2>4, <2>5 DEF DialogStep
<1>8. CASE OtherStep
  <2>1. ASSUME SaveAfterFree PROVE FALSE
    <3>1. saving # None /\ PutWine(saving.wine, saving.model) /\ UNCHANGED intended
      BY <2>1 DEF SaveAfterFree, SaveModel
    <3>2. saving.wine \in Wine /\ intended[saving.wine] = None
      BY <1>1, <3>1 DEF SavingOK
    <3> QED
      BY <1>4, <3>1, <3>2 DEF Loses
  <2>2. ASSUME (\E v \in Wine : OpenDetail(v)) \/ CloseDetail \/ (\E p \in Page : Load(p)) \/ Kill
        PROVE  FALSE
    BY <1>2, <2>2 DEF OpenDetail, CloseDetail, Load, Kill, tables
  <2> QED
    BY <1>8, <2>1, <2>2 DEF OtherStep
<1>9. CASE UNCHANGED accVars
  BY <1>2, <1>9 DEF accVars, tables
<1> QED
  BY <1>6, <1>7, <1>8, <1>9 DEF AccountingNext

(***************************************************************************)
(* Positions that fit the sizes, of which one size has n bottles without a *)
(* position, are at least n fewer than the bottles.                        *)
(***************************************************************************)
LEMMA SizesLeaveRoom ==
    ASSUME SpotsOK, NEW w \in Wine, NEW counts \in [Size -> Nat], HeldOf(w, NoSize) = {},
           \A x \in Size : Cardinality(HeldOf(w, x)) <= counts[x],
           NEW size \in Size, NEW n \in Nat, Cardinality(HeldOf(w, size)) + n <= counts[size]
    PROVE  Cardinality(Held(w)) + n <= Total(counts)
<1> DEFINE H == Held(w)
<1> DEFINE k == [s \in H |-> spots[s].size]
<1> DEFINE parts == [x \in Size |-> Cardinality({s \in H : k[s] = x})]
<1> DEFINE room == [counts EXCEPT ![size] = counts[size] - n]
<1>1. H \in SUBSET Spot /\ IsFiniteSet(H) /\ Cardinality(H) \in Nat /\ IsFiniteSet(Size)
  BY SpotsFinite, AccountingAssumption DEF Held
<1>2. k \in [H -> Size]
  <2>1. ASSUME NEW s \in H PROVE spots[s].size \in Size
    <3>1. s \in Spot /\ spots[s].wine = w /\ spots[s] \in Position
      BY DEF Held, SpotsOK
    <3>2. spots[s].size \in Size \cup {NoSize}
      BY <3>1, AccountingAssumption DEF Position, Absent, Free
    <3>3. spots[s].size # NoSize
      BY <3>1 DEF HeldOf
    <3> QED
      BY <3>2, <3>3
  <2> QED
    BY <2>1
<1>3. \A x \in Size : {s \in H : k[s] = x} = HeldOf(w, x)
  BY DEF HeldOf
<1>4. SumFunction(parts) = Cardinality(H)
  <2> HIDE DEF H, k
  <2> QED
    BY <1>1, <1>2, SumOfParts
<1>5. \A x \in Size : HeldOf(w, x) \in SUBSET Spot /\ Cardinality(HeldOf(w, x)) \in Nat
  <2>1. \A x \in Size : HeldOf(w, x) \in SUBSET Spot
    BY DEF HeldOf, Held
  <2> QED
    BY <2>1, SpotsFinite
<1>6. parts = [x \in Size |-> Cardinality(HeldOf(w, x))] /\ parts \in [Size -> Nat]
  <2> HIDE DEF H, k
  <2> QED
    BY <1>3, <1>5
<1>7. counts[size] - n \in Nat /\ counts[size] \in Nat
  BY <1>5
<1>8. room \in [Size -> Nat] /\ \A x \in Size : parts[x] <= room[x]
  <2> HIDE DEF parts
  <2> QED
    BY <1>5, <1>6, <1>7
<1>9. Total(room) = (Total(counts) - counts[size]) + (counts[size] - n)
  BY <1>7, Totals
<1>10. Total(counts) \in Nat
  BY Totals
<1> HIDE DEF parts, room, H
<1>11. Cardinality(H) <= Total(room)
  BY <1>1, <1>4, <1>6, <1>8, SumMonotone DEF Total
<1>12. Cardinality(H) + n <= Total(counts)
  BY <1>1, <1>7, <1>9, <1>10, <1>11
<1> QED
  BY <1>12 DEF H

(***************************************************************************)
(* What is left after n bottles are taken out of a wine that has bottles   *)
(* for its positions and n more.                                           *)
(***************************************************************************)
LEMMA RemovalLeaves ==
    ASSUME TablesOK, SpotsOK, ShownOK, NEW p \in Page, NEW w \in Wine,
           NEW base \in Counted, NEW size \in Size \cup {NoSize},
           NEW n \in Nat, RemoveBottles(p, w, base, size, n), Agree(base),
           p = "detail" => size \in Size /\ n <= Effective(base)[size],
           Cardinality(Held(w)) + n <= Total(Effective(base)), qty'[w] # 0
    PROVE  Cardinality(Held(w)') <= qty'[w]
<1>1. UNCHANGED spots /\ qty'[w] = IF base.qty > n THEN base.qty - n ELSE 0
  BY RemoveKeeps
<1>2. Total(Effective(base)) = base.qty /\ base.qty \in Nat
  BY EffectiveSizes, ModelFields
<1>3. Held(w)' = Held(w) /\ Cardinality(Held(w)) \in Nat
  <2>1. Held(w) \in SUBSET Spot
    BY DEF Held
  <2> QED
    BY <1>1, <2>1, SpotsFinite DEF Held
<1> QED
  BY <1>1, <1>2, <1>3

(***************************************************************************)
(* Taking bottles out of a wine whose positions fit its sizes leaves no    *)
(* position without a bottle, on either page, with or without a dialog     *)
(* (_removeOneBottle, _buildSizeQuantityPicker).                           *)
(***************************************************************************)
THEOREM PositionsFit == AccountingSpec => RemovalsFit
<1>1. ASSUME AccountingInv, [AccountingNext]_accVars, NEW w \in Wine, Loses(w), Fitting(w)
      PROVE  Cardinality(Held(w)') <= qty'[w]
  <2>1. /\ TablesOK /\ SpotsOK /\ ShownOK /\ HistoryOK /\ DialogOK
        /\ qty'[w] # 0 /\ qty[w] # 0
    <3>1. TablesOK /\ qty[w] \in 0..MaxQuantity /\ MaxQuantity \in Nat
      BY <1>1, AccountingAssumption DEF AccountingInv, TablesOK
    <3>2. qty'[w] # 0 /\ qty[w] # 0
      BY <1>1, <3>1 DEF Loses
    <3> QED
      BY <1>1, <3>2 DEF AccountingInv
  <2>2. /\ Stored(w).qty = qty[w] /\ Stored(w).bottles = bottles[w]
    BY <2>1, LoadedModels
  <2>3. ASSUME NEW base, base.qty = qty[w], base.bottles = bottles[w]
        PROVE  Effective(base) = Effective(Stored(w))
    BY <2>2, <2>3 DEF Effective
  <2>4. ASSUME NEW p \in Page, NEW size \in Size \cup {NoSize}, NEW n \in 1..MaxPick,
               RemoveUnassigned(p, w, size, n)
        PROVE  Cardinality(Held(w)') <= qty'[w]
    <3> DEFINE base == shown[p][w]
    <3> DEFINE held == Initial(w, "remove", base, size)
    <3>1. /\ Front(p, w) /\ base # None /\ ((p = "search") <=> (size = NoSize))
          /\ size \in Size => Effective(base)[size] > 0
          /\ \/ held = {} /\ n = 1
             \/ size \in Size /\ held # {} /\ Cardinality(held) + n <= Effective(base)[size]
          /\ RemoveBottles(p, w, base, size, n)
          /\ intended' = IF Outdated(w, base) THEN Forget({w}) ELSE TakeOut(w, n)
      BY <2>4 DEF RemoveUnassigned
    <3>2. dlg = None /\ base \in Counted /\ AccountedFor(w) /\ n \in Nat
      BY <2>1, <3>1, FrontIsFree, AccountingAssumption DEF ShownOK, HistoryOK
    <3>3. ~Outdated(w, base) /\ intended[w] # None
      BY <1>1, <2>1, <3>1 DEF Loses, Forget, TakeOut, HistoryOK
    <3>4. base.qty = qty[w] /\ base.bottles = bottles[w]
      BY <3>1, <3>3 DEF Outdated
    <3>5. Agree(base)
      BY <3>2, <3>3, <3>4 DEF AccountedFor, Agree
    <3> DEFINE counts == Effective(base)
    <3>6. counts = Effective(Stored(w)) /\ counts \in [Size -> Nat] /\ Total(counts) \in Nat \ {0}
      BY <2>3, <3>2, <3>4, EffectiveSizes, BottlesAreCounts
    <3>7. p = "detail" => size \in Size
      BY <3>1
    <3>8. held = IF size = NoSize THEN Held(w) ELSE HeldOf(w, size)
      BY DEF Initial, HeldOf
    <3> HIDE DEF base, counts, held
    <3>9. ASSUME size \in Size
          PROVE  Cardinality(HeldOf(w, size)) + n <= counts[size]
      <4>1. held = HeldOf(w, size) /\ counts[size] \in Nat /\ counts[size] > 0
        BY <3>1, <3>6, <3>8, <3>9, AccountingAssumption DEF counts
      <4>2. held = {} => Cardinality(held) = 0
        BY FS_EmptySet
      <4> QED
        BY <3>1, <4>1, <4>2 DEF counts
    <3>10. Cardinality(Held(w)) + n <= Total(counts)
      <4>1. CASE size \in Size
        <5>1. \A x \in Size : FreedOf(w, x) = {}
          BY <3>2 DEF FreedOf
        <5>2. /\ HeldOf(w, NoSize) = {}
              /\ \A x \in Size : Cardinality(HeldOf(w, x) \cup FreedOf(w, x)) <= counts[x]
          BY <1>1, <3>6 DEF Fitting
        <5>3. \A x \in Size : Cardinality(HeldOf(w, x)) <= counts[x]
          BY <5>1, <5>2
        <5> QED
          BY <2>1, <3>2, <3>6, <3>9, <4>1, <5>2, <5>3, SizesLeaveRoom
      <4>2. CASE size \notin Size
        <5>1. Held(w) = {} /\ n = 1
          BY <3>1, <3>8, <4>2
        <5>2. Cardinality(Held(w)) = 0
          BY <5>1, FS_EmptySet
        <5> QED
          BY <3>6, <5>1, <5>2
      <4> QED
        BY <4>1, <4>2
    <3>11. p = "detail" => n <= counts[size]
      <4>1. \A x \in Size : Cardinality(HeldOf(w, x)) \in Nat
        <5>1. \A x \in Size : HeldOf(w, x) \in SUBSET Spot
          BY DEF HeldOf, Held
        <5> QED
          BY <5>1, SpotsFinite
      <4> QED
        BY <3>2, <3>6, <3>7, <3>9, <4>1
    <3> QED
      BY <2>1, <3>1, <3>2, <3>5, <3>7, <3>10, <3>11, RemovalLeaves DEF counts
  <2>5. ASSUME ApplyRemove, dlg.wine = w
        PROVE  Cardinality(Held(w)') <= qty'[w]
    <3> DEFINE F == dlg.initial \ dlg.selected
    <3> DEFINE n == Cardinality(F)
    <3>1. /\ dlg # None /\ dlg.stage = "apply" /\ dlg.mode = "remove"
          /\ RemoveBottles(dlg.page, dlg.wine, dlg.base, dlg.size, n)
          /\ intended' = TakeOut(dlg.wine, n)
      BY <2>5 DEF ApplyRemove
    <3>2. /\ dlg.base \in Counted /\ DialogBase(dlg) /\ DialogPlaces(dlg) /\ DialogForm(dlg)
          /\ dlg.initial \in SUBSET Spot /\ dlg \in Dialog
      BY <1>1, <3>1, AppliedDialog
    <3>3. /\ dlg.page \in Page /\ dlg.size \in Size \cup {NoSize}
          /\ dlg.page = "detail" => dlg.size \in Size /\ n <= Effective(dlg.base)[dlg.size]
      BY <3>1, <3>2 DEF DialogForm, Page, Dialog
    <3>4. intended[w] # None
      BY <1>1, <2>1, <2>5, <3>1 DEF Loses, TakeOut, HistoryOK
    <3>5. dlg.base.qty = qty[w] /\ dlg.base.bottles = bottles[w] /\ Agree(dlg.base)
      BY <2>5, <3>1, <3>2, <3>4 DEF DialogBase
    <3>6. Freed(w) = F /\ Held(w) \cap F = {} /\ F \in SUBSET Spot /\ Held(w) \in SUBSET Spot
      BY <2>5, <3>1, <3>2 DEF Freed, DialogPlaces, Held
    <3> HIDE DEF F
    <3>7. /\ IsFiniteSet(F) /\ IsFiniteSet(Held(w))
          /\ n \in Nat /\ Cardinality(Held(w)) \in Nat
      BY <3>6, SpotsFinite
    <3>8. Cardinality(Held(w) \cup F) = Cardinality(Held(w)) + n
      <4>1. Cardinality(Held(w) \cup F)
                = Cardinality(Held(w)) + Cardinality(F) - Cardinality(Held(w) \cap F)
        BY <3>7, FS_Union
      <4>2. Cardinality(Held(w) \cap F) = 0
        BY <3>6, FS_EmptySet
      <4> QED
        BY <3>7, <4>1, <4>2
    <3>9. Cardinality(Held(w) \cup F) <= Total(Effective(Stored(w)))
      BY <1>1, <3>6 DEF Fitting
    <3>10. Effective(dlg.base) = Effective(Stored(w))
      BY <2>3, <3>5
    <3> HIDE DEF n
    <3>11. Cardinality(Held(w)) + n <= Total(Effective(dlg.base))
      BY <3>8, <3>9, <3>10
    <3> QED
      BY <2>1, <2>5, <3>1, <3>2, <3>3, <3>5, <3>7, <3>11, RemovalLeaves
  <2> QED
    BY <1>1, <2>4, <2>5, OnlyRemovalsLose
<1>2. ASSUME AccountingInv, [AccountingNext]_accVars, NEW w \in Wine,
             qty'[w] \in 1..(qty[w] - 1), Fitting(w), Cardinality(Held(w)') > qty'[w]
      PROVE  intended'[w] = None \/ (dlg' # None /\ dlg'.mode = "form")
  <2>1. Cardinality(Held(w)') \in Nat /\ qty'[w] \in Nat
    <3>1. Held(w)' \in SUBSET Spot
      BY DEF Held
    <3>2. qty[w] \in Nat
      BY <1>2 DEF AccountingInv, TablesOK
    <3> QED
      BY <1>2, <3>1, <3>2, SpotsFinite
  <2>2. ~(Cardinality(Held(w)') <= qty'[w])
    BY <1>2, <2>1
  <2> QED
    BY <1>1, <1>2, <2>2 DEF Loses
<1>3. AccountingInv /\ [AccountingNext]_accVars =>
        [\A w \in Wine :
            qty'[w] \in 1..(qty[w] - 1) /\ Fitting(w) /\ Cardinality(Held(w)') > qty'[w] =>
                \/ intended'[w] = None
                \/ dlg' # None /\ dlg'.mode = "form"]_accVars
  BY <1>2
<1> QED
  BY <1>3, AccountingInvariant, PTL DEF AccountingSpec, RemovalsFit

=============================================================================
