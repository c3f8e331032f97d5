# Wine Cellar: a TLA+ verification project

Wine Cellar is a Flutter application (Dart, `lib/`) that keeps a private wine
collection in one SQLite file and copies that file to and from a WebDAV folder
("u:cloud"). There is no server of its own: every conflict, crash and lost
answer is dealt with by the client, mostly by the three preferences
`has_unsynced_changes`, `local_last_write_time` and `local_db_path`. This
directory models that client. Everything outside `lib/` (platform runners,
CocoaPods, the SQLite amalgamation) is scaffolding or vendored: counted in lines,
nearly all of the repository is C and C++ that is not its own, and the program is
the Dart code.

## 1. The system

Dart runs one isolate: code between two `await`s is atomic, and every `await`
is a point where other asynchronous calls go on. The program has no locks. What
is concurrent is chains of awaits: page start-up code, un-awaited
`syncAfterWrite()` calls, cubit operations started by taps.

| Component | State | Operations | Talks to |
|---|---|---|---|
| `DatabaseService` | the connection `_db`, its path `_dbPath`; the file | `init`, `close`, `openAtPath`, `openPickedFile`, `createLocalDatabase`, `readBytesForExport`; schema in `_onCreate` | SQLite, the file system |
| `UCloudSyncService` | `_isUploading`; preferences; credentials in secure storage | `markDirty`, `clearDirty`, `uploadDb`, `downloadDb`, `syncOnStart`, `resolveWithRemote`, `syncAfterWrite` | `DatabaseService`, WebDAV server |
| Splash page, `LoginCubit`, login page | the page shown; `local_db_path` | `_checkAuth`, `login`, `resolveConflict`, `openLocalDatabase`, `createLocalDatabase` | both services |
| Profile page | none | sign out, save the database as | services |
| `main.dart` | none | life-cycle listener: `syncAfterWrite()` on pause, hide, detach | sync service |
| `MainRepository`, `ProfileRepository`, `WishlistRepository`, `ArchiveRepository` | tables `all_wines`, `cellar_wines`, `wishlist`, `archive`, `purchase_history`, `cabinets`, `shelves`, `positions` | save, delete, restore and erase wines, purchases, cabinets, `freeSpots` | connection; the first two call `syncAfterWrite()` |
| `WishlistCubit`, `ArchiveCubit` | the lists they last loaded | `toggle`, `remove`, `load`, `restore`, `permanentlyDelete` | repositories |
| `StorageLocationDialog` | the cabinets as loaded when it opened, the selected spots | `_saveLocation`, `_saveLocationRemoveMode` | repositories |
| `MainCubit`, `ManageStorageCubit` | optimistic `MainLoaded` list; cabinets | `saveWine`, `deleteWine`, `updateQuantity`, `updateBottleSizes`; `addCabinet`, `addShelf` | repositories |
| Search page, `WineSearchCubit` | text field, debounce timer; offset, last page, accumulated list | `_onSearchChanged`, suggestions, "clear"; `searchWines`, `loadMoreWines` | catalogue over HTTP |
| `cellarLocation` | the places of a wine as one string | written by `getLocalWines` and the storage dialog | read by the storage dialog, main page, detail page |

What is hard in it, and what correctness means there:

- **Sync.** A local change must be flagged until it is in u:cloud, and the
  unconditional download of `syncOnStart` must not overwrite one that never
  was. Uploads are started from five places and guarded by one Boolean; they
  read the file without a lock; requests fail, or succeed with a lost answer;
  the process may be killed at any await.
- **Session.** Splash page, login page, local-only databases and sign-out all
  move one connection between files; `close()` keeps the old path. The
  dashboard needs an open database, whatever failed on the way.
- **Store.** `removeFromWishlist`, `permanentlyDelete`, `deleteWine` and
  `freeSpots` are several statements without a transaction, on a schema with
  cascading deletes. A wine the user put into the cellar must not vanish.
- **Cached lists.** Cubits and dialogs act on what they loaded some time ago.
- **Late answers.** Searches and pages of the catalogue are in flight together
  and are not matched with the query they were for.
- **Text as data.** Names the user typed are joined into the location string
  without escaping, and three pages take it apart with three parsers.
- **Counts.** A wine's `quantity`, the sum of its bottle sizes and the number of
  positions that hold it are three records of the same thing.

`PROJECT.json` lists the hazards one by one, at their lines.

## 2. Modules

```
DatabaseService <- UCloudSync <- AppSession <- SyncHistory <- MCSyncHistory
                                     ^    ^         |  ^
                                     |    |         |  +-- SyncHistoryProofs
                                     |    |         +- instantiates CloudCopies
                                     |    +-- SyncClaims
                                     |-- AppSessionProofs   (also extended by the
                                     |     other two proof modules of the sync)
                                     +-- ServerHistory <- MCServer
                                               ^
                                               +-- ServerHistoryProofs
CellarStore <- CellarHistory <- MCCellar
                    |  ^
                    |  +-- CellarProofs
                    +- instantiates WineLists
BottleAccounting <- MCAccounting
     ^
     +-- AccountingProofs -> BottleSums
WineSearch <- MCSearch
     ^
     +-- WineSearchProofs
LocationString <- MCLocation
     ^
     +-- LocationProofs -> BottleSums
```

**DatabaseService** (`database_service.dart`). `files[d][p]` is the body of the
file at path `p` of installation `d`; a body is the set of user changes it holds
(the schema alone is `{}`), `None` when there is no file, or `Torn` when its
bytes are no database. `dbOpen` is `_db != null`; `dbPath` is `_dbPath`. Its
operators are the methods of the class, each with its failing form: when
`openDatabase` throws, `_dbPath` has already been assigned.

**UCloudSync** (`ucloud_sync_service.dart`). A thread is one chain of awaits:
`Main` is the chain of the splash or login page, each `Call` an un-awaited
`syncAfterWrite()`. `pc[d][t]` names the await the thread is suspended at. One
action per stretch between two awaits:

| Code | Actions |
|---|---|
| `markDirty` | `MarkDirty`, `StampLastWrite` |
| `uploadDb` | `SkipUpload`, `BeginUpload`, `Checkpoint`, `NoClient`, `GetClient`, `BeginRead`, `EndRead`, `Put`, `PutUnanswered`, `ClearAfterUpload`, `UploadThrows` |
| `syncOnStart` | `StartInit`, `StartInitThrows`, `CheckDirty`, `CompareTimes`, `CloseForDownload`, `Reopen`, `ReopenThrows` |
| `downloadDb` | `ReadRemote`, `SkipDownload`, `BeginSave`, `EndSave` |
| `resolveWithRemote` | `ResolveWithRemote` and the download |

`readAsBytes` and `writeAsBytes` take no lock, so each is two steps: a read
during which the file changed returns the old bytes, the new ones or a mixture
(`Torn`); a write truncates first. `Put` and `PutUnanswered` are the two ways in
which a request can be carried out, `UploadThrows` the one in which it is not.
Time is in seconds, the resolution of WebDAV's `mTime`.

**AppSession** adds the pages: `_checkAuth` (`SplashLocal`, `SplashCloud`), the
conflict dialog, `LoginCubit`, the dashboard's writes (`WriteAndSync` for the
repositories that call `syncAfterWrite()`, `WriteOnly` for those that do not),
sign-out, export, the background notification and `Kill`. It defines `Spec` and
`FairSpec`. `LocalOnly` says whether users of an instance keep databases of
their own; `InPlace` is `_supportsInPlaceEditing` (desktop).

**SyncHistory** adds two history variables that constrain nothing. `stored[d]`
are the changes device `d` has had an answered upload or a download of;
`exposed[d]` are the changes the code has left without protection, and its
definition is the exact list of the ways in which that happens:

- committed, and no `markDirty()` yet (for wishlist, archive and `freeSpots`
  changes there never is one of their own);
- flagged while a running upload, past its read, is going to clear the flag, or
  while the start-up has already decided to download;
- `login` or `resolveWithRemote` has dropped the flag;
- a torn copy is being uploaded, or a set flag is cleared after uploading a file
  other than `winecellar.db`.

**CloudCopies** is what the sync promises, without threads, awaits, paths or
requests: the cellar of a device and the file of an account are copied as they are
at one moment (`Take`, `Fetch`) and replaced by such a copy (`Install`,
`Deliver`). A cellar is emptied or replaced (`Truncate`, `Install`), and the flag is
taken back (`Settle`), only when every change in it is safe or at risk; the other
ways to take it back put the whole cellar at risk (`GiveUp`, `SettleOther`).
`SyncHistory` instantiates it with `winecellar.db` as the cellar, the bytes between
`readAsBytes` and the end of `uploadDb` as the copy that is sent, the bytes between
`client.read` and the end of `writeAsBytes` as the copy that was fetched, and
`stored` and `exposed` as what is safe and at risk; `KeepsCopies` is that
refinement. What is allowed on one platform only is a parameter: another file is
sent only where databases are opened in place, and a picked file replaces
`winecellar.db` only where they are not.

**ServerHistory** asks what the server comes to hold. Signing out leaves the
file `winecellar.db`, the connection and running uploads as they are, and the next
login may be to another account. `origin[w]` is the account a change was made
under, `home[d]` the account whose file `winecellar.db` was last downloaded from
(none before the first complete download after a login), `crossed` the changes
that were read for an account whose file it was not, and `overtaken[d]` the
uploads whose read a download interrupted.

**SyncClaims** states what comments and dialogs of the repository say of the
sync and the code does not do (section 4).

**CellarStore** holds the tables as sets of wine ids, with cascades and foreign
keys, and one action per SQL statement or transaction. An operation without a
transaction occupies an `Op` slot, whose `pc` names its next statement, so that
other operations come in between; sqflite executes the statements of the one
connection in the order in which they were issued. `wished` and `listed` are the
lists of the two cubits, `snap` the positions a storage dialog has loaded. Columns
of a wine, quantities and single spots are left out: of a cabinet the model
keeps which wines some position refers to. There is one cabinet.

**CellarHistory** adds `owned` (wines saved to the cellar and not permanently
deleted since) and `raced` (wines that changed lists inside the window of an
operation on them: after `removeFromWishlist` has looked into the cellar, while
`permanentlyDelete` runs, after `deleteWine` has archived).

**WineLists** is what the repositories promise about a wine: it is saved, moved to
the archive, discarded from there, wished for or not, each in one step.
`CellarHistory` instantiates it with the tables as the pages read them
(`getArchivedWines` leaves out what is in the cellar) and a raced wine as given
up; `KeepsLists` is that refinement.

**BottleAccounting** looks at the same tables from the other side: of a wine it
keeps the `quantity`, the bottles per size and every single position, and leaves
out the windows between statements that CellarStore is about. `shown[p]` is the
`MainLoaded` list of a page with a cubit of its own: the search tab (the wishlist
tab behaves alike) and the detail page on top of it. `full` is the model a detail
page resolved when it was opened. `dlg` is the open storage dialog, in one of its
five uses, with the model it was given:

| Code | Actions |
|---|---|
| `_addToCellar`, "+", "Add size", `_showLocationDialog`, the wine form | `AddToCellar`, `AddBottles`, `ShowLocation`, `SaveForm` open a dialog |
| "-" (`_removeOneBottle`, `_buildSizeQuantityPicker`) | `RemoveFromStorage` opens one in remove mode, `RemoveUnassigned` needs none |
| `StorageLocationDialog` | `SaveLocation`, `SaveLocationRemoveMode`, `Confirm`, `CancelDialog`, `WriteLocation` |
| what the page does with the result | `ApplyNew`, `ApplyAdd`, `ApplyLocate`, `ApplyForm`, `ApplyRemove` |
| `MainCubit` | `Load`, `SaveAfterFree`, and the operators `SaveModel`, `DeleteModel`, `UpdateBottleSizes` |
| pages, archive, storage management, process | `OpenDetail`, `CloseDetail`, `EditWine`, `Restore`, `AddShelf`, `DeleteCabinet`, `Kill` |

A position is found again from a location string by the name of its shelf, so the
string is kept as the set of (name, index) pairs it lists. The history variable
`intended[w]` counts the bottles the user has put in and not taken out; it is
given up (`None`) when a handler starts from a model that is not that of the
tables, and when a dialog that has stored its quantity is abandoned. That list is
what `CountsAgree` is about. The counters are bounded by `MaxQuantity`, `MaxPick`
and `MaxOps`, the number of operations a user begins.

**WineSearch** is the catalogue page with its cubit. Requests are in `inFlight`
until `Answer` takes one, in any order, with a result or an exception.

| Code | Actions |
|---|---|
| `searchWines` | the operator `SearchWines` up to the await, then `SearchAnswered` or `SearchFailed` |
| `_onScroll`, `loadMoreWines` | `LoadMoreWines` up to the await, then `MoreAnswered` or `MoreFailed` |
| search page | `OpenPage`, `OnSearchChanged`, `DebounceFires`, `SearchNow` (suggestion, "clear"), `Dispose` |

The history variable `session` numbers the calls of `searchWines`, and
`disturbed` records the three ways in which a list may not be what was asked for:
an answer of an earlier search came late, the user scrolled a list left over from
it, or a page failed to load.

**LocationString** is a pure algorithm: the two writers and the four readers of
`cellarLocation`. A string is a sequence of characters: blanks and the marks
`>`, `;` and `,` stand for themselves, and runs that no reader looks into (a numeral,
the word "Spot", other letters) are one character each. So a separator is found
wherever its three characters meet, also where a name meets the text around it: the
shelf "Rack >" is written `Cab > Rack > > Spot 1` and split into `Cab`, `Rack` and
`> Spot 1`, and the shelf "A ;" tears its segment in two. `Found` are the occurrences,
`Cuts` those that a scan from the left meets without overlap, as `String.split` does;
`Split(s, sep)` takes the pieces between two successive `Ends`, which are the cuts and the
two outer ends. `Join` is the usual recursion, as a function on the numbers of the parts;
`Strip` is `replaceFirst` by the empty string. White space in names is blanks only. The behaviour
of the specification only enumerates inputs: every naming of two shelves in one or two
cabinets, every placement, every quantity, every writer.

Definitions called *a variant* are not part of any specification: each is a
mapped definition with a plausible mistake, and shows that a property notices it.

## 3. What the runs check

| Run | Instance | Checks |
|---|---|---|
| `sync_cloud` | 1 desktop device, 1 account, 1 change, 2 calls, clock 2 | `TypeOK`, `OneUploader`, `DownloadOffline`, `UnsyncedIsFlagged`, `OverwritesOnlyStored`, `KeepsCopies` |
| `sync_live` | 1 mobile device, local databases, 1 change, 1 call, clock 2, `FairSpec` | `DashboardHasDatabase`, `UploadEnds`, `StartUpEnds`, `LoginEnds` |
| `accounts` | 1 desktop device, 2 accounts, 1 change, 2 calls, clock 1 | `AccountsSeparate`, `PutsInOrder` |
| `cellar` | 1 wine, 3 operations | `StoreTypeOK`, `ForeignKeys`, `OwnedIsVisible`, `WishlistShown`, `KeepsLists` |
| `accounting` | 2 wines, 2 sizes, 2 shelves of one name with 1 position each, up to 4 bottles, 2 at a time, 3 operations | `AccountingTypeOK`, `CountsAgree`, `TakesOnlyNamed`, `PlacesWithinBottles`, `RemovalsFit` |
| `search` | 3 texts with 5, 3 and no results, pages of 2, 4 searches, offsets up to 6 | `SearchTypeOK`, `LoadingIsLatest`, `OnePageAtATime`, `FieldSearched`, `ListIsResults`, `LoadingEnds` |
| `location` | 8 names, 2 shelves of 2 positions, up to 2 bottles | `ReadsBack`, `CountsSpots`, `ShelvesShowAll` |

- `OneUploader`: uploads of a device exclude each other and `_isUploading` is set
  exactly while one is inside, through every early return, exception and lost
  answer.
- `DownloadOffline`: no download overwrites a file under an open connection.
- `DashboardHasDatabase`: whoever reaches the dashboard has an open connection to
  an existing file.
- `UnsyncedIsFlagged`: a change in `winecellar.db` that was never in u:cloud is
  flagged, unless it is exposed.
- `OverwritesOnlyStored`: a download, and "Keep uCloud", overwrite no change that
  was never in u:cloud, unless it is exposed. With the list above this says
  precisely which changes the sync can lose.
- `UploadEnds`, `StartUpEnds`: uploads end; a start-up reaches a page.
- `LoginEnds`: so does a login. The one page that keeps loading is that of
  `resolveConflict`, which has no catch, when the database cannot be reopened.
- `KeepsCopies`: the sync implements CloudCopies: whatever interleaves, fails or is
  killed, what is sent is the cellar of one moment or a torn copy, what is taken
  over is the server's file of one moment, and the cellar that `syncOnStart`
  overwrites long after it has looked at the flag still has only stored and exposed
  changes.
- `AccountsSeparate`: the folder of an account holds only changes made while
  signed in to it, and crossed ones. Once an account's own file has been
  downloaded, nothing uploaded for it is another account's, and an upload that
  outlives a sign-out still goes to the account it was begun for.
- `PutsInOrder`: uploads reach the server in the order of their reads. A PUT
  removes no change the sender's own file holds, unless it is torn, of another
  file, or overtaken by a download.
- `ForeignKeys`: no interleaving of cascades, transactions and stale dialogs
  leaves a reference without its parent.
- `OwnedIsVisible`: a wine in the cellar is in the cellar or the archive until it
  is permanently deleted, unless it raced.
- `WishlistShown`: with no toggle of a wine under way, its heart agrees with the
  table, unless it raced.
- `KeepsLists`: the statements of all operations together implement WineLists.
- `CountsAgree`: with no change of a wine under way, its quantity, the sum of its
  sizes and what the user has put in and taken out are equal, unless a page
  worked on an outdated copy or a dialog was abandoned after its first save.
- `TakesOnlyNamed`: a position passes from one wine to another only through a
  dialog whose location string names its place.
- `PlacesWithinBottles`: a dialog gives a wine no more positions than it has
  bottles, although choosing "Unassigned" skips the check in `_saveLocation`;
  exceptions are adding to a wine that had more positions than bottles already
  (the limit then counts from its positions), and positions that its location
  string only seems to name.
- `RemovalsFit`: taking bottles out of a wine whose positions fit its sizes (those
  a dialog has just freed counted in) leaves no position without a bottle, unless
  through the form, which stores the quantity first, or from an outdated copy.
- `LoadingIsLatest`, `LoadingEnds`: the progress indicator stands for the latest
  search and ends.
- `OnePageAtATime`: `_isLoadingMore` is set exactly while one page is under way.
- `FieldSearched`: with no timer running the last query is the text of the field.
- `ListIsResults`: an undisturbed list is the beginning of the results of the last
  query, without gap or repetition, and complete when `_isLastPage` is set.
- `ReadsBack`: the dialog finds the positions a string was written from when names
  are distinct, without outer blanks, and have neither `>` nor `;` as a word of its
  own, inside or at either end. Names like "Spot 1", "Unassigned" or "A>B" do no harm.
- `CountsSpots`, `ShelvesShowAll`: the main page counts the bottles in spots right, and
  shows as many bottles as there are, for all names that do not have `;` as a word. The
  detail page reads what is behind the last " > " and needs shelves that do not end in `>`
  as a word, too.

  The conditions are not chosen for convenience. The names of the run include "Rack >",
  "A ;", "> A" and "Rack " with its blank; without the condition on the ends of names
  each of the three properties is violated by them (the dialog restores nothing and the
  detail page counts no spot for "Rack >", the main page shows a bottle too many for
  "A ;"), and `manage_storage.dart` (216-217, 255-256) accepts such names. They are
  sufficient, not necessary: a *cabinet* that begins with "> " would be read right.

**Bounds.** In `location` two bottles in four positions have one or two segments, with
one or two numerals, with and without the unassigned rest, and more positions than bottles
(the quantity is lowered); two shelves can share a cabinet, a name, or both. One change and two calls are enough for a change to be committed
before, during and after an upload, for a request to be dropped by a running
upload and for two background notifications to overlap; the claims about a
*second* change (`claim_dropped`, `claim_safe_open`) use two. `MaxClock` 2 has a
write before, in and after the second of the remote file, which are the outcomes
of the comparison in `syncOnStart`. Devices interact only through the server,
whose file every property takes as arbitrary except for what the device itself
stored. Cellar operations race pairwise on one wine, so three slots give a running
operation, its competitor and a third that reloads a list; that a dialog on one
wine writes back the positions of another is left to the theorem `ReferencesHold`.
In `accounting`, three operations are enough to store a wine, leave a drifted
quantity behind and have "+" free a position because of it, which takes up to four
bottles; and to give two wines the positions of two shelves of one name and have a
third dialog mix them up. What needs a third position (a wine that has come to
hold more of them than bottles is given one more) is left to the theorem
`PositionsGiven`; TLC agrees on the same instance with three shelves, which takes
four minutes. In `accounts`, one change passes from the file of one account to the
other, and two calls let an upload survive the sign-out while another begins. In
`search`, the empty text has two full pages and a rest, the second text a full
page and a rest, the third nothing; four searches allow late answers of two older
ones while the user scrolls, and offset 6 is beyond every result. In `location`,
one name is ordinary, each of the others has one thing that could confuse a
reader. The theorems of section 5 remove these bounds for every safety property of
every passing run. Symmetry is used for interchangeable sets
only (changes, accounts, calls, wines, operation slots), and never in a run with
liveness properties.

**Fairness.** `Fairness` is weak fairness of what the process does by itself:
page code, the start-up, uploads and `markDirty`. Every request has 30 s connect
and receive timeouts (`ucloud_sync_service.dart` 28-29), so an await ends with a
result or an exception. In WineSearch, `Answer` is weakly fair: the catalogue's
requests have the same timeouts (`core/dependencies/module.dart` 15-16). Users, the
operating system, timers of a page and time owe nothing.

**Deadlock** is checked in every run; there is always a user who can act.

## 4. Where text and code disagree

Five runs check a sentence of the repository and end in a counterexample:

| Run | The text | What the code does |
|---|---|---|
| `claim_dropped` | "the in-flight upload already has the latest data" (`ucloud_sync_service.dart` 172) | a request is dropped by an upload that read the file before the request's change was committed |
| `claim_safe_open` | `uploadDb` is "Safe to call while the DB is open" (170) | a commit during `readAsBytes` leaves torn bytes to be uploaded |
| `claim_download` | `downloadDb` "overwrites the local one" (151) | `_dbPath` outlives `close()`: after a local-only session it overwrites the user's file and `init()` then opens `winecellar.db` |
| `claim_fresh` | "won't be reachable once you sign out" (`profile_page.dart` 53), "Creates/opens a fresh local database" (`database_service.dart` 106) | on mobile a new local database is the old `winecellar.db` |
| `claim_unreferenced` | "Only remove from all_wines if not referenced by cellar or archive" (`wishlist_repository.dart` 114) | a `saveWine` between the queries and the delete is cascaded away |

Two further remarks of the same kind have no run of their own. The conflict dialog
("You have local changes that were not uploaded", `splash_page.dart` 78) also
follows an upload whose answer was lost. And a wine can keep more positions than
bottles when the form has stored a lower quantity and the dialog after it is
cancelled; `RemovalsFit` names that exception.

## 5. What is proved

The theorems hold for any sets of devices, accounts, changes, calls, wines and
operations, any sizes, shelves, positions and names, and any value of the
counters' bounds. They rest on the named assumptions of the
modules, all about constants being distinct and of their kind:
`DatabaseAssumption`, `SyncAssumption`, `SessionAssumption`, `StoreAssumption`,
`SearchAssumption`, `AccountingAssumption`, `LocationAssumption`.
TLC evaluates each on the instances above.

**AppSessionProofs** (`Spec`): `SessionTypeCorrect`, `UploadsExclusive`,
`DownloadsOffline`, `DashboardUsable`, from the inductive invariant
`Inv == TypeOK /\ OneUploader /\ Connected`. None of the three safety properties
is inductive alone. A new upload is exclusive only because the flag means exactly
"someone is inside", so both halves of `OneUploader` are needed. That the
dashboard has a database depends on every label of the start-up before it, so
`Connected` says for each label whether the connection is open, that an open
connection has a file, and that uploads and downloads have a path to work on.

**SyncHistoryProofs** (`HSpec`): `ChangesFlagged` and `DownloadsLoseNothing`,
from `HInv == Inv /\ \A d : Protected(d)`. `Protected` says at each point of an
upload what stands in for the flag once it is about to be cleared: from the read
to the PUT the bytes in hand, after the answer the server. The argument has two
halves: `StepKept` lists five facts about a step that together preserve
`Protected`, and each action is shown to have them; the steps of other devices
are `Same`.

Its second half proves `CopiesKept`, the refinement `KeepsCopies`. The inductive
invariant is `RInv`: `HInv`, and three facts the mapping needs. `Transfers` says
that what a download has received is stored, that the file it writes is not
readable meanwhile (so that installing the copy cannot lose anything that was
committed in between), and that an upload which reads or sends has an account;
`OwnFiles` that there is no other path where databases are not opened in place;
`HistoryTyped` that the history variables are functions. The argument is about
views: the *view* of a device is what CloudCopies sees of it, a step changes the
view of one device (`OneView`), most awaits do not change it at all (`Pause`,
`PauseStutters`), and for each action of CloudCopies a lemma says which change of
the view it is (`ViewTake`, `ViewSettle`, ...). Each action of the code then only
has to show its change of the view (`UploadViews`, `CallViews`, `StartViews`,
`PageViews`, `UserViews`). `Protected` of `HInv` is what the guards of `Settle`,
`Truncate` and `Install` follow from. The proof attempt showed that `exposed` was
too generous: it also counted a killed or failed upload of another file, which
leaves the flag alone. It now counts only one that really clears a set flag, which
makes `UnsyncedIsFlagged` and `OverwritesOnlyStored` stronger.

**ServerHistoryProofs** (`ASpec`): `AccountsAreSeparate` and `UploadsInOrder`, from
`AInv`, which is `Inv` of the session and four parts. `AllWritten`: every change
in a file, a folder or a buffer has been made, so a new one is nowhere yet.
`Separate`: not only the folders but the file while it has a `home`, and the bytes
an upload has read, hold what was made under their account or has crossed.
`SavedIsTorn`: a file that a download is writing is no database meanwhile.
`InOrder`: from the read of an upload to its PUT, what the file has and the upload's
bytes lack has not left the device, neither to a folder nor in another buffer,
unless the upload is one of the excepted ones. The argument is one
statement about data flow, `Flow(d)`: in a step of device `d`, where each new
file, folder and buffer comes from. Every action is shown to have it
(`UploadFlow`, `CallFlow`, `StartFlow`, `PageFlow`, `UserFlow`), and the parts of
the invariant are then preserved by `Flow`, never by looking at the actions again.

**CellarProofs** (`StoreSpec`, `CHSpec`): `StoreTypes`, `ReferencesHold`,
`CellarKeepsWines`, `HeartsAgree`. `ForeignKeys` is inductive with the types. For
the other two, `CellarInv` adds what each suspended operation *knows*
(`Knows(o)`): for instance that an operation about to erase a wine that has not
raced has found it in neither list, and that it is still there. `ListsKept` is the
refinement `KeepsLists`. A step touches the lists of one wine at most; if the wine
has raced the abstract step stutters, if it races now the abstract step gives it
up, and otherwise the change is `Legal`, which for the single statements of an
operation follows from what `CellarInv` says the operation knows.

**WineSearchProofs** (`SearchSpec`): `SearchTypes`, `LatestLoading`, `TextSearched`,
`PagingExclusive` and `PagesJoin`, for any catalogue and page size, from
`SearchInv`. `ListIsResults` is not inductive: an older search that fails shows
its error while a page is under way that will show the list again, so `ListLoaded`
says the same of that state, and `Requests` says that the requests of the current
session ask for what the cubit records. `NextPage` is the lemma about the
catalogue: the results loaded so far followed by the next page are the beginning
of the results again.

**BottleSums**: what the counting needs of the library's `SumFunction`, which folds
a function over its finite domain in the order of `CHOOSE`: `SumBounds`,
`SumExcept` (changing one value changes the sum by the difference), `SumZero`,
`SumMonotone`, `SumOfParts`. The library's induction theorems take an operator as
a parameter, which the provers cannot instantiate. The induction over the domain
is therefore first-order: `SmallestSubset` says that a non-empty family of finite
subsets has a smallest member, and each proof derives a contradiction from a
smallest counterexample.

**AccountingProofs** (`AccountingSpec`): `AccountingTypes`, `BottlesCounted`,
`PositionsTaken`, `PositionsGiven`, `PositionsFit`, from `AccountingInv`. Neither
`CountsAgree` nor the types are inductive. While a dialog is open the row has the
new quantity and the old bottles; which of the two the page will store depends on
the dialog's use and stage, and a "+" may exceed `MaxQuantity` unless the sum the
dialog is going to add was bounded when it opened. `DialogOK` says, per use and
stage, how the dialog's copy, the row and `intended` differ; `ChosenPlaces` that
the positions selected are free, the wine's own, or named by its location string,
and how many of them there can be; `SavingOK` that a save which waits for
`freeSpots` is of a wine no longer accounted for; `HistoryOK` is the agreement of
the counts for the wines no dialog is open on.
There is one lemma per action. The action properties then need to know who gives
and who takes: `OnlyDialogsGive` (a position is only ever given by `WriteLocation`,
and not in remove mode), `OnlyRemovalsLose` (an accounted wine loses bottles only in
`RemoveUnassigned` and `ApplyRemove`, or in the form), and `SizesLeaveRoom` (positions
that fit the sizes, one of which has `n` bottles without a position, are at least
`n` fewer than the bottles).

Trying to prove the last two properties showed that an earlier statement of each
was wrong on larger instances than the run had: a wine with more positions than
bottles may be given another by "+", and a remove dialog has freed its positions
before its page takes the bottles out. They are stated as above since.

**LocationProofs** (`LocSpec`): `RestoredAsWritten` (`ReadsBack`), `SpotsCounted`
(`CountsSpots`) and `AllShown` (`ShelvesShowAll`), for any finite sets of shelves
and indexes, any names and any number of bottles. The state needs no more than its
types (`LocationTyped`); everything else is about strings, in five layers.

- *Splitting.* A separator may overlap itself (" > > "), so `Cuts` is a choice among the
  occurrences; that exactly one set of them is a scan from the left is proved by
  induction over the string (`ScanExists`, `ScanUnique`, `CutsIs`). `Nth` of a finite set of
  numbers is determined by how many members are below it (`NthIs`, `NthExists`). A string
  is `Clean` when no occurrence begins in it and ends in a separator put after it; then
  the pieces of `s`, a separator and a piece without one are the pieces of `s` and that
  piece (`FoundAfter`, `SplitAppend`), although the separator may be found once more where
  it meets the piece. `SplitJoin`, that splitting undoes joining, is an induction over the
  parts; it is first-order, with the set of the numbers for which the statement holds
  as its parameter (`PartByPart`).
- *Words.* `Alone(s, m)`: the mark `m` is a word of its own in `s`. A string without such a
  word does not contain the separator (`AloneFree`), the condition on names says exactly
  that (`AlonePadded`), and joining two such strings by another separator makes no new one
  (`AloneAfter`). A string that does not end in the mark as a word is clean (`CleanMark`).
- *Segments.* `SegmentRead`, `SpotPartRead` and `SegmentSpots` say what each parser
  makes of one segment: the numerals come after the *last* "Spot ", whatever the key, and
  after the *last* " > " if the key is clean; the list of numerals has neither, so a name
  that contains one of them does no harm.
- *Shape.* Both writers group the positions, by the names of their shelves or by
  the shelves, and write one segment per group and perhaps "Unassigned"
  (`Grouped`, `LocationJoined`). `Shape(n, g, L)` is what the two have in common: `g` says
  which of the `n` segments of `L` a position is in, and the positions of a segment
  agree on the key. For names without `;` as a word the readers see exactly `L`
  (`LocationsShape`).
- *Readers.* The counts are sums over the groups (`SumOfParts`), the rest adds what is
  missing (`RestShown`, `SumExcept`), and with plain names a key splits into its two
  names (`KeyParts`), which name one shelf when they are distinct (`FoundByName`).

Only model-checked: the liveness properties (fairness and `ENABLED` are outside
the prover's reach) and the counterexamples of section 4.

## 6. Not modelled

- **Parts of the accounting**: several cabinets, `addCabinet`, purchase records,
  the answer of a `loadWines()` that is overtaken by the next; and
  `MainCubit.updateQuantity`, which nothing calls.
- **The optimistic list of `MainCubit`** while un-awaited loads are under way:
  the connection executes queries in the order they were issued, so loads finish
  in order; BottleAccounting takes a load as one step.
- **A dialog or a save interrupted in the middle of its writes**: a storage dialog
  closed while `saveCabinet` is awaited, which ends like a cancelled one with the
  positions written; and an operation begun while `updateBottleSizes` awaits
  `freeSpots` (only closing the page is modelled there), when the wine's `intended`
  is `None` already.
- **A PUT the server carries out after the client's timeout**, behind a later
  upload: `PutUnanswered` takes the server to be done when the client gives up.
  Likewise a download that rewrites the very bytes an upload is reading counts as
  no change of the file.
- **Hearts after a download**: the splash page loads the wishlist before
  `syncOnStart` replaces the database (`splash_page.dart` 48). The store module
  keeps one database through its life.
- **Wine models**: field-by-field JSON conversion, no state.
- **Widgets, theme, routing, validators**: layout; generated code.
- **Several devices in one TLC run**: the modules are written for any number and
  the theorems cover them, but a run does not fit five minutes. Another device
  acts only through the server; that an upload replaces what another device stored
  and this one never downloaded is stated in the comment of `PutsInOrder`.
- **SQLite itself, WebDAV, secure storage**: external; modelled by what the code
  relies on. A failing disk other than during the copies above is left out.

## 7. Plan

Every safety property that a run checks is a theorem. What would add to that:
*MainList*, the optimistic `MainLoaded` list against the table; several cabinets and
the purchase records in BottleAccounting; and hearts after a download, which needs
the store and the sync in one module.

## 8. Running it

In this directory, `tlc -workers 2 -config <run>.cfg <module>` with the module
`PROJECT.json` names for the run, and `tlapm <module>` for the eight modules of
section 5. No run takes more than three minutes with two workers, most less than
one; `LocationProofs` is the longest proof, with about three minutes.
