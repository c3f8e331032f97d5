-------------------------- MODULE DatabaseService --------------------------
(***************************************************************************)
(* lib/core/database/database_service.dart: the one SQLite connection of   *)
(* an installation (`_db`) and the path it was opened at (`_dbPath`).      *)
(*                                                                         *)
(* The body of a database file is abstracted to the set of user changes it *)
(* holds: the blank schema of _onCreate is {}, a commit adds a change.     *)
(* Torn is a file whose bytes are no database at all: one that was being   *)
(* overwritten when the process died, or a mixture of two versions.        *)
(***************************************************************************)

CONSTANTS
    Device,   \* installations of the app
    Write,    \* user changes, each committed at most once
    Default,  \* <documents or databases directory>/winecellar.db
    Picked,   \* a file the user chose in a file picker
    Torn,     \* body of a file that is not a readable database
    None,     \* no file, no path, no account
    InPlace   \* _supportsInPlaceEditing: desktop TRUE, mobile FALSE

Path == {Default, Picked}
Body == {Torn} \cup SUBSET Write

ASSUME DatabaseAssumption ==
    /\ Default # Picked
    /\ None \notin Path
    /\ \A body \in Body : body # None
    /\ \A changes \in SUBSET Write : changes # Torn
    /\ InPlace \in BOOLEAN

VARIABLES
    files,   \* files[d][p]: body of the file at p, None when there is none
    dbOpen,  \* dbOpen[d]: isInitialized, i.e. _db # null
    dbPath   \* dbPath[d]: _dbPath, which close() preserves

dbVars == <<files, dbOpen, dbPath>>

DatabaseTypeOK ==
    /\ files \in [Device -> [Path -> {None} \cup Body]]
    /\ dbOpen \in [Device -> BOOLEAN]
    /\ dbPath \in [Device -> Path \cup {None}]

DatabaseInit ==
    /\ files = [d \in Device |-> [p \in Path |-> None]]
    /\ dbOpen = [d \in Device |-> FALSE]
    /\ dbPath = [d \in Device |-> None]

(***************************************************************************)
(* What SQLite makes of a file it opens: a missing one gets the schema of  *)
(* _onCreate; a torn one is taken for a blank database when it was         *)
(* truncated to nothing, and stays unreadable otherwise.                   *)
(***************************************************************************)
Opened(body) == IF body = None THEN {{}}
                ELSE IF body = Torn THEN {Torn, {}}
                ELSE {body}

(* _openAt: on success the connection is set ...                           *)
OpenAt(d, p) ==
    /\ dbPath' = [dbPath EXCEPT ![d] = p]
    /\ dbOpen' = [dbOpen EXCEPT ![d] = TRUE]
    /\ \E body \in Opened(files[d][p]) :
           files' = [files EXCEPT ![d][p] = body]

(* ... and when openDatabase throws only _dbPath has been assigned.        *)
OpenFails(d, p) ==
    /\ dbPath' = [dbPath EXCEPT ![d] = p]
    /\ dbOpen' = [dbOpen EXCEPT ![d] = FALSE]
    /\ UNCHANGED files

(* init(): nothing when a connection is open, else _resolveDbPath.         *)
InitDb(d) == IF dbOpen[d] THEN UNCHANGED dbVars ELSE OpenAt(d, Default)

(* close(): _dbPath is kept.                                               *)
Close(d) ==
    /\ dbOpen' = [dbOpen EXCEPT ![d] = FALSE]
    /\ UNCHANGED <<files, dbPath>>

(* openPickedFile on mobile: close, copy the source over winecellar.db and *)
(* open that copy.                                                         *)
OpenCopyOf(d, source) ==
    /\ dbPath' = [dbPath EXCEPT ![d] = Default]
    /\ dbOpen' = [dbOpen EXCEPT ![d] = TRUE]
    /\ \E body \in Opened(files[d][source]) :
           files' = [files EXCEPT ![d][Default] = body]

(* The copy throws before or after it has begun to write winecellar.db, or *)
(* what was copied cannot be opened.                                       *)
OpenCopyFails(d, source) ==
    /\ dbOpen' = [dbOpen EXCEPT ![d] = FALSE]
    /\ \/ UNCHANGED <<files, dbPath>>
       \/ files' = [files EXCEPT ![d][Default] = Torn] /\ UNCHANGED dbPath
       \/ /\ files' = [files EXCEPT ![d][Default] = files[d][source]]
          /\ dbPath' = [dbPath EXCEPT ![d] = Default]

(* readBytesForExport handed to the "save as" dialog, which stores it at p *)
(* (profile_page.dart, _saveDatabaseAs).                                   *)
ExportTo(d, p) ==
    /\ files[d][dbPath[d]] # None
    /\ files' = [files EXCEPT ![d][p] = files[d][dbPath[d]]]
    /\ UNCHANGED <<dbOpen, dbPath>>

(* A repository transaction on the open connection: w becomes part of the  *)
(* database, unless the file is unreadable, when the statement fails.      *)
Commit(d, w) ==
    LET body == files[d][dbPath[d]] IN
    /\ dbOpen[d]
    /\ body # Torn
    /\ files' = [files EXCEPT ![d][dbPath[d]] = body \cup {w}]
    /\ UNCHANGED <<dbOpen, dbPath>>

=============================================================================
