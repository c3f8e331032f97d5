----------------------------- MODULE AppSession -----------------------------
(***************************************************************************)
(* A whole installation: the splash page's _checkAuth, the login page, the *)
(* dashboard on which the user changes the cellar, signing out, the app    *)
(* going to the background, and the process being killed, around the       *)
(* services of UCloudSync and DatabaseService. Several devices share the   *)
(* server.                                                                 *)
(***************************************************************************)
EXTENDS UCloudSync

CONSTANT
    LocalOnly  \* whether the users of this instance keep databases of their own

ASSUME SessionAssumption == LocalOnly \in BOOLEAN

VARIABLES
    localPath,  \* localPath[d]: preference local_db_path, None when not set
    written     \* changes the users have made so far, on any device

vars == <<dbVars, syncVars, localPath, written>>

TypeOK ==
    /\ DatabaseTypeOK
    /\ SyncTypeOK
    /\ localPath \in [Device -> Path \cup {None}]
    /\ written \subseteq Write

Init ==
    /\ DatabaseInit
    /\ SyncInit
    /\ localPath = [d \in Device |-> None]
    /\ written = {}

-----------------------------------------------------------------------------
(* Splash page                                                             *)

Launch(d) ==
    /\ At(d, Main, "off")
    /\ GoTo(d, Main, "splash")
    /\ flow' = [flow EXCEPT ![d] = "splash"]
    /\ UNCHANGED <<dbVars, prefVars, isUploading, remoteVars, clock, regVars, localPath, written>>

(* _checkAuth: the local-only database wins over stored credentials.       *)
SplashLocal(d) ==
    /\ At(d, Main, "splash")
    /\ localPath[d] # None
    /\ \/ OpenAt(d, localPath[d]) /\ GoTo(d, Main, "dash")
       \/ OpenFails(d, localPath[d]) /\ GoTo(d, Main, "login")
    /\ UNCHANGED <<prefVars, isUploading, remoteVars, clock, regVars, localPath, written, flow>>

SplashCloud(d) ==
    /\ At(d, Main, "splash")
    /\ localPath[d] = None
    /\ GoTo(d, Main, IF creds[d] # None THEN "init" ELSE "login")
    /\ UNCHANGED <<dbVars, prefVars, isUploading, remoteVars, clock, regVars, localPath, written, flow>>

(* The conflict dialog. Closing it without an answer keeps the local       *)
(* database at the start, and on the login page leaves the user there.     *)
AnswerConflict(d) ==
    /\ At(d, Main, "conflict")
    /\ \/ /\ \E keepLocal \in BOOLEAN :
                 GoTo(d, Main, IF keepLocal THEN "enter" ELSE "resolve")
          /\ flow' = [flow EXCEPT ![d] = IF @ = "login" THEN "resolve" ELSE @]
       \/ flow[d] = "login" /\ GoTo(d, Main, "login") /\ UNCHANGED flow
    /\ UNCHANGED <<dbVars, prefVars, isUploading, remoteVars, clock, regVars, localPath, written>>

-----------------------------------------------------------------------------
(* Login page                                                              *)

(* login: credentials the server accepts are stored, the flag is dropped,  *)
(* and syncOnStart runs. Rejected ones and errors leave everything alone.  *)
Login(d, a) ==
    /\ At(d, Main, "login")
    /\ creds' = [creds EXCEPT ![d] = a]
    /\ GoTo(d, Main, "loginClear")
    /\ flow' = [flow EXCEPT ![d] = "login"]
    /\ UNCHANGED <<dbVars, dirty, lastWrite, isUploading, remoteVars, clock, regVars, localPath, written>>

LoginClearDirty(d) ==
    /\ At(d, Main, "loginClear")
    /\ dirty' = [dirty EXCEPT ![d] = FALSE]
    /\ GoTo(d, Main, "init")
    /\ UNCHANGED <<dbVars, creds, lastWrite, isUploading, remoteVars, clock, regVars, localPath, written, flow>>

(* createLocalDatabase: the chosen place on desktop, winecellar.db itself  *)
(* on mobile.                                                              *)
CreateLocalDatabase(d) ==
    LET path == IF InPlace THEN Picked ELSE Default IN
    /\ LocalOnly
    /\ At(d, Main, "login")
    /\ \/ /\ OpenAt(d, path)
          /\ localPath' = [localPath EXCEPT ![d] = path]
          /\ GoTo(d, Main, "dash")
       \/ OpenFails(d, path) /\ GoTo(d, Main, "login") /\ UNCHANGED localPath
    /\ UNCHANGED <<prefVars, isUploading, remoteVars, clock, regVars, written, flow>>

(* openLocalDatabase: in place on desktop, as a copy on mobile.            *)
OpenLocalDatabase(d) ==
    LET path == IF InPlace THEN Picked ELSE Default IN
    /\ LocalOnly
    /\ At(d, Main, "login")
    /\ files[d][Picked] # None
    /\ \/ /\ IF InPlace THEN OpenAt(d, Picked) ELSE OpenCopyOf(d, Picked)
          /\ localPath' = [localPath EXCEPT ![d] = path]
          /\ GoTo(d, Main, "dash")
       \/ /\ IF InPlace THEN OpenFails(d, Picked) ELSE OpenCopyFails(d, Picked)
          /\ GoTo(d, Main, "login")
          /\ UNCHANGED localPath
    /\ UNCHANGED <<prefVars, isUploading, remoteVars, clock, regVars, written, flow>>

-----------------------------------------------------------------------------
(* Dashboard                                                               *)

(* A change by MainRepository or ProfileRepository: committed, then        *)
(* syncAfterWrite() is called without being awaited.                       *)
WriteAndSync(d, w, c) ==
    /\ At(d, Main, "dash")
    /\ At(d, c, "idle")
    /\ w \notin written
    /\ written' = written \cup {w}
    /\ Commit(d, w)
    /\ GoTo(d, c, "mark")
    /\ UNCHANGED <<prefVars, isUploading, remoteVars, clock, regVars, localPath, flow>>

(* A change by WishlistRepository, ArchiveRepository or freeSpots: no      *)
(* syncAfterWrite() follows.                                               *)
WriteOnly(d, w) ==
    /\ At(d, Main, "dash")
    /\ w \notin written
    /\ written' = written \cup {w}
    /\ Commit(d, w)
    /\ UNCHANGED <<syncVars, localPath>>

(* ProfilePage: save a copy of the open database where the user wants it.  *)
SaveDatabaseAs(d) ==
    /\ At(d, Main, "dash")
    /\ LocalOnly
    /\ ExportTo(d, Picked)
    /\ UNCHANGED <<syncVars, localPath, written>>

(* signOut removes credentials and local path; the connection stays open.  *)
SignOut(d) ==
    /\ At(d, Main, "dash")
    /\ creds' = [creds EXCEPT ![d] = None]
    /\ localPath' = [localPath EXCEPT ![d] = None]
    /\ GoTo(d, Main, "login")
    /\ UNCHANGED <<dbVars, dirty, lastWrite, isUploading, remoteVars, clock, regVars, written, flow>>

-----------------------------------------------------------------------------
(* Life cycle                                                              *)

(* onPause, onHide, onDetach: syncAfterWrite() whether or not anything     *)
(* changed, on whatever page the app is.                                   *)
AppBackground(d, c) ==
    /\ ~At(d, Main, "off")
    /\ At(d, c, "idle")
    /\ creds[d] # None
    /\ GoTo(d, c, "mark")
    /\ UNCHANGED <<dbVars, prefVars, isUploading, remoteVars, clock, regVars, localPath, written, flow>>

(* The process ends at any point: files, preferences and secure storage    *)
(* stay, everything in memory is gone. A request already sent may still    *)
(* have been carried out: PutUnanswered before this step.                  *)
Kill(d) ==
    /\ ~At(d, Main, "off")
    /\ dbOpen' = [dbOpen EXCEPT ![d] = FALSE]
    /\ dbPath' = [dbPath EXCEPT ![d] = None]
    /\ isUploading' = [isUploading EXCEPT ![d] = FALSE]
    /\ pc' = [pc EXCEPT ![d] = [t \in Thread |-> IF t = Main THEN "off" ELSE "idle"]]
    /\ client' = [client EXCEPT ![d] = [t \in Thread |-> None]]
    /\ target' = [target EXCEPT ![d] = [t \in Thread |-> None]]
    /\ bytes' = [bytes EXCEPT ![d] = [t \in Thread |-> None]]
    /\ UNCHANGED <<files, prefVars, remoteVars, clock, localPath, written, flow>>

UserStep(d) ==
    \/ Launch(d)
    \/ AnswerConflict(d)
    \/ \E a \in Account : Login(d, a)
    \/ CreateLocalDatabase(d)
    \/ OpenLocalDatabase(d)
    \/ \E w \in Write, c \in Call : WriteAndSync(d, w, c)
    \/ \E w \in Write : WriteOnly(d, w)
    \/ SaveDatabaseAs(d)
    \/ SignOut(d)
    \/ \E c \in Call : AppBackground(d, c)
    \/ Kill(d)

PageStep(d) ==
    \/ SplashLocal(d)
    \/ SplashCloud(d)
    \/ LoginClearDirty(d)

ServiceStep(d) ==
    \/ /\ \/ \E c \in Call : MarkDirty(d, c) \/ StampLastWrite(d, c)
          \/ \E t \in Thread : UploadStep(d, t)
          \/ StartStep(d)
       /\ UNCHANGED <<localPath, written>>

Next ==
    \/ \E d \in Device : UserStep(d) \/ PageStep(d) \/ ServiceStep(d)
    \/ Tick /\ UNCHANGED <<localPath, written>>

Spec == Init /\ [][Next]_vars

(***************************************************************************)
(* What the process does by itself it eventually does: every request has a *)
(* 30 s connect and receive timeout (ucloud_sync_service.dart 28-29), so   *)
(* an await ends, with a result or with an exception. Users, the operating *)
(* system and the passing of time owe nothing.                             *)
(***************************************************************************)
Fairness ==
    \A d \in Device :
        /\ WF_vars(PageStep(d))
        /\ WF_vars(StartStep(d) /\ UNCHANGED <<localPath, written>>)
        /\ \A t \in Thread : WF_vars(UploadStep(d, t) /\ UNCHANGED <<localPath, written>>)
        /\ \A c \in Call :
               WF_vars((MarkDirty(d, c) \/ StampLastWrite(d, c))
                           /\ UNCHANGED <<localPath, written>>)

FairSpec == Spec /\ Fairness

-----------------------------------------------------------------------------
(* Properties                                                              *)

Uploading(d, t) == pc[d][t] \in UploadPC

(***************************************************************************)
(* uploadDb is exclusive on a device although the splash page, the login   *)
(* page, every repository and the life-cycle listener start it             *)
(* independently, and _isUploading is set exactly while one of them is     *)
(* inside: it neither lets a second one in nor stays set after any of the  *)
(* early returns, exceptions or lost answers.                              *)
(***************************************************************************)
OneUploader ==
    \A d \in Device :
        /\ \A t, u \in Thread : Uploading(d, t) /\ Uploading(d, u) => t = u
        /\ isUploading[d] <=> \E t \in Thread : Uploading(d, t)

(***************************************************************************)
(* downloadDb never overwrites a file under an open connection, whatever   *)
(* syncAfterWrite() calls and uploads run beside the start-up: SQLite      *)
(* would go on with the pages of another database.                         *)
(***************************************************************************)
DownloadOffline ==
    \A d \in Device : pc[d][Main] \in DownloadPC => ~dbOpen[d]

(***************************************************************************)
(* On the dashboard there is an open connection to an existing file:       *)
(* every repository asserts isInitialized, and start-up, failed            *)
(* downloads, conflicts and local databases all have to establish it.      *)
(***************************************************************************)
DashboardHasDatabase ==
    \A d \in Device :
        At(d, Main, "dash") => /\ dbOpen[d]
                               /\ dbPath[d] # None
                               /\ files[d][dbPath[d]] # None

(***************************************************************************)
(* An upload always ends: the flag that blocks all later uploads is never  *)
(* left set (finally block of uploadDb).                                   *)
(***************************************************************************)
UploadEnds == \A d \in Device : isUploading[d] ~> ~isUploading[d]

(***************************************************************************)
(* The start-up never hangs: from the splash page one reaches the          *)
(* dashboard, the login page or the conflict dialog, whatever fails.       *)
(***************************************************************************)
StartUpEnds ==
    \A d \in Device :
        At(d, Main, "splash")
            ~> pc[d][Main] \in {"dash", "login", "conflict", "off"}

(***************************************************************************)
(* Neither does logging in, or taking the remote version in a conflict.    *)
(* The one page that keeps loading is that of resolveConflict, which has   *)
(* no catch, and only when the database could not be opened again.         *)
(***************************************************************************)
LoginEnds ==
    \A d \in Device :
        pc[d][Main] \in {"loginClear", "resolve"}
            ~> \/ pc[d][Main] \in {"dash", "login", "conflict", "off"}
               \/ At(d, Main, "loading") /\ flow[d] = "resolve" /\ ~dbOpen[d]

=============================================================================
