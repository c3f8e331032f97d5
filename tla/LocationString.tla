--------------------------- MODULE LocationString ---------------------------
(***************************************************************************)
(* cellarLocation: where the bottles of a wine lie, as one string          *)
(*     Cabinet > Shelf > Spot 1, 2 ; Cabinet > Shelf > Spot 1 ; Unassigned *)
(* written by getLocalWines and by the storage dialog and taken apart      *)
(* again by the storage dialog, the main page and the detail page. Nothing *)
(* is escaped, and the names of cabinets and shelves are what the user     *)
(* typed (manage_storage.dart only asks for a name that is not empty).     *)
(*                                                                         *)
(* A string is a sequence of characters. Runs of characters that no reader *)
(* looks into are one of them: a numeral, the words Spot and Unassigned,   *)
(* any other run of letters. Blanks and the marks > ; , stand for          *)
(* themselves, so that a separator may also be found where a name meets    *)
(* the text around it: the shelf "Rack >" is written "Cab > Rack > > Spot" *)
(* and split after "Cab" and after "Rack". The order of the segments is    *)
(* left open: no reader's result that is of interest here depends on it.   *)
(***************************************************************************)
EXTENDS Naturals, FiniteSets, SequencesExt

CONSTANTS
    Name,        \* the names users give: non-empty strings, whose only white
                 \* space is blanks
    Shelf,       \* shelves 1..n, in the order in which they are loaded
    Index,       \* numerals of the positions of a shelf
    MaxQuantity  \* bound on the bottles of the wine

(* The characters the readers look for.                                    *)
Blank == " "
Greater == ">"
Semi == ";"
Comma == ","
SpotWord == "Spot"

Marks == {Blank, Greater, Semi, Comma, SpotWord}

(* What the writers put between names and numerals.                        *)
Arrow == <<Blank, Greater, Blank>>
Semicolon == <<Blank, Semi, Blank>>
SpotLabel == <<SpotWord, Blank>>

ASSUME LocationAssumption ==
    /\ Name \subseteq Seq(STRING) /\ <<>> \notin Name
    /\ Shelf \subseteq Nat /\ IsFiniteSet(Shelf)
    /\ Index \subseteq STRING \ Marks /\ IsFiniteSet(Index)
    /\ MaxQuantity \in Nat

VARIABLES
    cabinetOf,  \* cabinetOf[sh]: the cabinet of a shelf, by its number
    cabinet,    \* cabinet[c]: its name
    shelf,      \* shelf[sh]: its name
    held,       \* the positions that hold a bottle of the wine
    quantity,   \* the bottles of the wine
    writer      \* who wrote the string: the repository, or the dialog with a
                \* cabinet or with "Unassigned" selected

locVars == <<cabinetOf, cabinet, shelf, held, quantity, writer>>

Spot == Shelf \X Index

-----------------------------------------------------------------------------
(* Strings                                                                 *)

(* The positions at which an occurrence of w ends.                         *)
Found(s, w) == {i \in Len(w)..Len(s) : SubSeq(s, i - Len(w) + 1, i) = w}

(* The occurrences a scan from the left meets, where one that overlaps the *)
(* one before it is not seen.                                              *)
Cuts(s, sep) ==
    CHOOSE C \in SUBSET Found(s, sep) :
        \A i \in Found(s, sep) : i \in C <=> ~\E j \in C : j < i /\ i < j + Len(sep)

(* The k-th smallest member of a set of numbers.                           *)
Nth(S, k) == CHOOSE i \in S : Cardinality({j \in S : j < i}) = k - 1

(* The pieces lie between two successive ends.                             *)
Ends(s, sep) == {0, Len(s) + Len(sep)} \cup Cuts(s, sep)

Split(s, sep) ==
    LET ends == Ends(s, sep)
    IN  [k \in 1..(Cardinality(ends) - 1) |->
            SubSeq(s, Nth(ends, k) + 1, Nth(ends, k + 1) - Len(sep))]

Join(parts, sep) ==
    LET joined[n \in 1..Len(parts)] ==
            IF n = 1 THEN parts[1] ELSE joined[n - 1] \o sep \o parts[n]
    IN  IF parts = <<>> THEN <<>> ELSE joined[Len(parts)]

Trim(s) ==
    LET ink == {i \in DOMAIN s : s[i] # Blank}
    IN  IF ink = {} THEN <<>> ELSE SubSeq(s, Min(ink), Max(ink))

(* replaceFirst with the empty string.                                     *)
Strip(s, w) == ReplaceFirstSubSeq(<<>>, w, s)

(* int.tryParse of a trimmed string, as the set of its results.            *)
TryParse(s) == {i \in Index : s = <<i>>}

Unassigned == <<"Unassigned">>

-----------------------------------------------------------------------------
(* The writers                                                             *)

Key(sh) == cabinet[cabinetOf[sh]] \o Arrow \o shelf[sh]

Segment(key, spots) ==
    LET numerals == [k \in DOMAIN spots |-> <<spots[k][2]>>]
    IN  key \o Arrow \o SpotLabel \o Join(numerals, <<Comma, Blank>>)

(* getLocalWines: positions grouped by the names of cabinet and shelf; the *)
(* empty string stands for null.                                           *)
LocalLocation ==
    LET keys == SetToSeq({Key(s[1]) : s \in held})
        parts == [k \in DOMAIN keys |->
                    Segment(keys[k], SetToSeq({s \in held : Key(s[1]) = keys[k]}))]
        rest == IF Cardinality(held) < quantity THEN <<Unassigned>> ELSE <<>>
    IN  IF held = {} THEN <<>> ELSE Join(parts \o rest, Semicolon)

(* The dialog: shelf by shelf.                                             *)
DialogLocation(isUnassignedSelected) ==
    LET used == SetToSeq({s[1] : s \in held})
        parts == [k \in DOMAIN used |->
                    Segment(Key(used[k]), SetToSeq({s \in held : s[1] = used[k]}))]
        rest == IF isUnassignedSelected \/ Cardinality(held) < quantity
                THEN <<Unassigned>> ELSE <<>>
    IN  Join(parts \o rest, Semicolon)

Location ==
    CASE writer = "repository" -> LocalLocation
      [] writer = "dialog" -> DialogLocation(FALSE)
      [] writer = "dialogUnassigned" -> DialogLocation(TRUE)

-----------------------------------------------------------------------------
(* _restoreSelectedSpotsFromWineLocation: the positions of the shelf a     *)
(* segment names, found by name, the first one each time.                  *)

FirstCabinet(name) ==
    LET found == {c \in DOMAIN cabinet : cabinet[c] = name}
    IN  IF found = {} THEN {} ELSE {Min(found)}

(* A variant that looks for the shelf in all cabinets.                     *)
FirstShelfAnywhere(c, name) ==
    LET found == {sh \in Shelf : shelf[sh] = name}
    IN  IF found = {} THEN {} ELSE {Min(found)}

FirstShelf(c, name) ==
    LET found == {sh \in Shelf : cabinetOf[sh] = c /\ shelf[sh] = name}
    IN  IF found = {} THEN {} ELSE {Min(found)}

SpotIndexes(part) ==
    UNION {TryParse(Trim(s)) : s \in ToSet(Split(Trim(Strip(part, SpotLabel)), <<Comma>>))}

RestoredFrom(entry) ==
    LET parts == Split(entry, Arrow)
    IN  IF Len(parts) < 3 THEN {}
        ELSE (UNION {FirstShelf(c, Trim(parts[2])) : c \in FirstCabinet(Trim(parts[1]))})
                 \X SpotIndexes(parts[3])

Restored ==
    LET entries == {Trim(s) : s \in ToSet(Split(Location, Semicolon))}
    IN  UNION {RestoredFrom(e) : e \in {e \in entries : Found(e, SpotLabel) # {}}}

-----------------------------------------------------------------------------
(* _groupWines of the main page                                            *)

Locations == IF Location = <<>> THEN <<Unassigned>> ELSE Split(Location, Semicolon)

(* The spots of a segment by their position in it; empty pieces are left   *)
(* out.                                                                    *)
SpotsIn(loc) ==
    IF loc = Unassigned \/ Found(loc, SpotLabel) = {} THEN <<>>
    ELSE LET pieces == Split(Last(Split(loc, SpotLabel)), <<Comma>>)
         IN  [k \in {k \in DOMAIN pieces : Trim(pieces[k]) # <<>>} |-> Trim(pieces[k])]

SpotCount(loc) == Cardinality(DOMAIN SpotsIn(loc))

(* A variant that counts the segments.                                     *)
AssignedSegments == Cardinality({k \in DOMAIN Locations : SpotCount(Locations[k]) > 0})

AssignedSpotCount == SumFunction([k \in DOMAIN Locations |-> SpotCount(Locations[k])])

UnassignedRemainder ==
    IF AssignedSpotCount < quantity THEN quantity - AssignedSpotCount ELSE 0

(* A variant that shows the wine with all its bottles.                     *)
UnspottedAll(loc) == quantity

(* Bottles shown for a segment without spots.                              *)
Unspotted(loc) ==
    IF loc = Unassigned /\ Len(Locations) > 1 THEN UnassignedRemainder ELSE quantity

BottlesShown(loc) == IF SpotCount(loc) > 0 THEN SpotCount(loc) ELSE Unspotted(loc)

(* Cabinet, shelf and spot under which single bottles are shown.           *)
PlacesShown(loc) ==
    LET parts == Split(loc, Arrow)
    IN  {<<Trim(parts[1]), IF Len(parts) > 1 THEN Trim(parts[2]) ELSE <<>>, spot>> :
            spot \in Range(SpotsIn(loc))}

(* _buildLocationPicker of the detail page                                 *)
DetailCount(loc) ==
    LET part == Trim(Last(Split(loc, Arrow)))
    IN  IF Trim(loc) = Unassigned \/ ~IsPrefix(SpotLabel, part) THEN 0
        ELSE Len(Split(Strip(part, SpotLabel), <<Comma>>))

DetailAssigned ==
    IF Location = <<>> THEN 0
    ELSE SumFunction([k \in DOMAIN Locations |-> DetailCount(Locations[k])])

-----------------------------------------------------------------------------
(* Cabinets with any names; bottles are placed, taken off and counted.     *)

LocInit ==
    /\ cabinetOf \in [Shelf -> {1, 2}]
    /\ cabinet \in [{1, 2} -> Name]
    /\ shelf \in [Shelf -> Name]
    /\ held = {}
    /\ quantity = 1
    /\ writer = "repository"

(* _saveLocation refuses more spots than bottles.                          *)
Place(s) ==
    /\ Cardinality(held \cup {s}) <= quantity
    /\ held' = held \cup {s}
    /\ writer' = "dialog"
    /\ UNCHANGED <<cabinetOf, cabinet, shelf, quantity>>

TakeOff(s, isUnassignedSelected) ==
    /\ held' = held \ {s}
    /\ writer' = IF isUnassignedSelected THEN "dialogUnassigned" ELSE "dialog"
    /\ UNCHANGED <<cabinetOf, cabinet, shelf, quantity>>

(* The quantity changes, also below the number of spots (the wine form).   *)
SetQuantity(n) ==
    /\ quantity' = n
    /\ writer' = "repository"
    /\ UNCHANGED <<cabinetOf, cabinet, shelf, held>>

LocNext ==
    \/ \E s \in Spot : Place(s)
    \/ \E s \in Spot, u \in BOOLEAN : TakeOff(s, u)
    \/ \E n \in 1..MaxQuantity : SetQuantity(n)

LocSpec == LocInit /\ [][LocNext]_locVars

-----------------------------------------------------------------------------
(* Properties                                                              *)

Names == {cabinet[c] : c \in DOMAIN cabinet} \cup {shelf[sh] : sh \in Shelf}

Padded(name) == <<Blank>> \o name \o <<Blank>>

(* No name has the mark of the separator as a word of its own: inside the  *)
(* name, at its beginning or at its end.                                   *)
Without(sep) == \A name \in Names : Found(Padded(name), sep) = {}

(* A name that makes a separator with the text after it.                   *)
EndsIn(name, sep) == Len(name) + 2 \in Found(Padded(name), sep)

(* Names that are read as they were written.                               *)
Plain == Without(Semicolon) /\ Without(Arrow) /\ \A name \in Names : Trim(name) = name

Distinct ==
    /\ cabinet[1] # cabinet[2]
    /\ \A sh, other \in Shelf : Key(sh) = Key(other) => sh = other

(***************************************************************************)
(* The dialog finds again exactly the positions the string was written     *)
(* from, whichever of the writers wrote it, when names are distinct, have  *)
(* no outer blanks and have neither > nor ; as a word of their own: "Rack  *)
(* > 1" and "Rack >" are out, "A>B" is not. Names that look like a spot or *)
(* like "Unassigned" do no harm.                                           *)
(***************************************************************************)
ReadsBack == Plain /\ Distinct => Restored = held

(***************************************************************************)
(* The main page counts the bottles that lie in a spot right for all names *)
(* that do not have ; as a word: ambiguous, equal or blank ones, and names *)
(* with > or Spot in them. So does the detail page, which takes what is    *)
(* behind the last " > ", unless a shelf's name ends in > as a word.       *)
(***************************************************************************)
CountsSpots ==
    Without(Semicolon) =>
        /\ AssignedSpotCount = Cardinality(held)
        /\ (\A sh \in Shelf : ~EndsIn(shelf[sh], Arrow)) => DetailAssigned = Cardinality(held)

(***************************************************************************)
(* The main page shows as many bottles as there are, however they are      *)
(* spread over shelves and the unassigned rest, as long as no more spots   *)
(* than bottles are taken and no name has ; as a word; with plain names    *)
(* each under its own place.                                               *)
(***************************************************************************)
ShelvesShowAll ==
    /\ Without(Semicolon) /\ Cardinality(held) <= quantity =>
           SumFunction([k \in DOMAIN Locations |-> BottlesShown(Locations[k])]) = quantity
    /\ Plain =>
           UNION {PlacesShown(loc) : loc \in ToSet(Locations)}
               = {<<cabinet[cabinetOf[s[1]]], shelf[s[1]], <<s[2]>>>> : s \in held}

=============================================================================
