----------------------------- MODULE UCloudSync -----------------------------
(***************************************************************************)
(* lib/core/sync/ucloud_sync_service.dart: the service that copies the     *)
(* whole database file to and from the WebDAV folder of an account.        *)
(*                                                                         *)
(* Dart runs one isolate, so code between two awaits is atomic and every   *)
(* await is a point where other asynchronous calls continue. A thread here *)
(* is one such chain of awaits: Main is the chain started by the splash or *)
(* the login page, a Call is one (un-awaited) syncAfterWrite(). pc names   *)
(* the await a thread is suspended at. The server is shared by the devices *)
(* and every request to it may fail, or be done and its answer lost.       *)
(***************************************************************************)
EXTENDS DatabaseService, Naturals

CONSTANTS
    Account,  \* u:cloud accounts
    Main,     \* the thread of splash page / login page
    Call,     \* slots for concurrent syncAfterWrite() calls
    MaxClock  \* bound on the passing of time

Thread == Call \cup {Main}

ASSUME SyncAssumption ==
    /\ Main \notin Call
    /\ None \notin Account
    /\ MaxClock \in Nat

VARIABLES
    creds,        \* creds[d]: account in secure storage, None when signed out
    dirty,        \* dirty[d]: preference has_unsynced_changes
    lastWrite,    \* lastWrite[d]: preference local_last_write_time, 0 = null
    isUploading,  \* isUploading[d]: the service's _isUploading
    remoteBody,   \* remoteBody[a]: winecellar/winecellar.db on the server
    remoteTime,   \* remoteTime[a]: its mTime
    clock,        \* time in seconds, the resolution of WebDAV's mTime
    pc,           \* pc[d][t]: where thread t of d is suspended
    client,       \* client[d][t]: account of the WebDAV client t holds
    target,       \* target[d][t]: path of the File t holds
    bytes,        \* bytes[d][t]: bytes t has read, not yet written
    flow          \* flow[d]: the caller Main runs for: _checkAuth of the splash
                  \* page, login or resolveConflict of the login cubit

prefVars == <<creds, dirty, lastWrite>>
remoteVars == <<remoteBody, remoteTime>>
regVars == <<client, target, bytes>>
syncVars == <<prefVars, isUploading, remoteVars, clock, pc, regVars, flow>>

UploadPC == {"checkpoint", "client", "read", "reading", "put", "clear"}
CallPC == {"idle", "mark", "stamp", "enter"} \cup UploadPC
DownloadPC == {"get", "save", "saving"}
MainPC == {"off", "splash", "login", "loginClear", "init", "start", "lastmod",
           "conflict", "enter", "resolve", "close", "reopen", "loading", "dash"}
              \cup UploadPC \cup DownloadPC

PCOf(t) == IF t = Main THEN MainPC ELSE CallPC

ThreadsTypeOK ==
    /\ pc \in [Device -> [Thread -> CallPC \cup MainPC]]
    /\ \A d \in Device, t \in Thread : pc[d][t] \in PCOf(t)

SyncTypeOK ==
    /\ creds \in [Device -> Account \cup {None}]
    /\ dirty \in [Device -> BOOLEAN]
    /\ lastWrite \in [Device -> Nat]
    /\ isUploading \in [Device -> BOOLEAN]
    /\ remoteBody \in [Account -> {None} \cup Body]
    /\ remoteTime \in [Account -> Nat]
    /\ clock \in Nat \ {0}
    /\ ThreadsTypeOK
    /\ client \in [Device -> [Thread -> Account \cup {None}]]
    /\ target \in [Device -> [Thread -> Path \cup {None}]]
    /\ bytes \in [Device -> [Thread -> {None} \cup Body]]
    /\ flow \in [Device -> {"splash", "login", "resolve"}]

SyncInit ==
    /\ creds = [d \in Device |-> None]
    /\ dirty = [d \in Device |-> FALSE]
    /\ lastWrite = [d \in Device |-> 0]
    /\ isUploading = [d \in Device |-> FALSE]
    /\ remoteBody = [a \in Account |-> None]
    /\ remoteTime = [a \in Account |-> 0]
    /\ clock = 1
    /\ pc = [d \in Device |-> [t \in Thread |-> IF t = Main THEN "off" ELSE "idle"]]
    /\ client = [d \in Device |-> [t \in Thread |-> None]]
    /\ target = [d \in Device |-> [t \in Thread |-> None]]
    /\ bytes = [d \in Device |-> [t \in Thread |-> None]]
    /\ flow = [d \in Device |-> "splash"]

GoTo(d, t, label) == pc' = [pc EXCEPT ![d][t] = label]
At(d, t, label) == pc[d][t] = label

-----------------------------------------------------------------------------
(* markDirty: two preferences, written one after the other.                *)

MarkDirty(d, c) ==
    /\ At(d, c, "mark")
    /\ dirty' = [dirty EXCEPT ![d] = TRUE]
    /\ GoTo(d, c, "stamp")
    /\ UNCHANGED <<dbVars, creds, lastWrite, isUploading, remoteVars, clock, regVars, flow>>

StampLastWrite(d, c) ==
    /\ At(d, c, "stamp")
    /\ lastWrite' = [lastWrite EXCEPT ![d] = clock]
    /\ GoTo(d, c, "enter")
    /\ UNCHANGED <<dbVars, creds, dirty, isUploading, remoteVars, clock, regVars, flow>>

-----------------------------------------------------------------------------
(* uploadDb, run by any thread. A splash or login page that awaited it     *)
(* goes on to the dashboard; a syncAfterWrite() call is over.              *)

(* A variant: every caller waits for the upload and then shows its page.   *)
AfterUploadPage(t) == "dash"

AfterUpload(t) == IF t = Main THEN "dash" ELSE "idle"

(* The two early returns of uploadDb ...                                   *)
SkipUpload(d, t) ==
    /\ At(d, t, "enter")
    /\ isUploading[d] \/ ~dbOpen[d]
    /\ GoTo(d, t, AfterUpload(t))
    /\ UNCHANGED <<dbVars, prefVars, isUploading, remoteVars, clock, regVars, flow>>

(* A variant of BeginUpload without the early return for _isUploading.     *)
BeginUploadAgain(d, t) ==
    /\ At(d, t, "enter")
    /\ dbOpen[d]
    /\ isUploading' = [isUploading EXCEPT ![d] = TRUE]
    /\ GoTo(d, t, "checkpoint")
    /\ UNCHANGED <<dbVars, prefVars, remoteVars, clock, regVars, flow>>

(* ... and its start.                                                      *)
BeginUpload(d, t) ==
    /\ At(d, t, "enter")
    /\ ~isUploading[d]
    /\ dbOpen[d]
    /\ isUploading' = [isUploading EXCEPT ![d] = TRUE]
    /\ GoTo(d, t, "checkpoint")
    /\ UNCHANGED <<dbVars, prefVars, remoteVars, clock, regVars, flow>>

(* The finally block; the locals of the call disappear with it.            *)
LeaveUpload(d, t) ==
    /\ isUploading' = [isUploading EXCEPT ![d] = FALSE]
    /\ GoTo(d, t, AfterUpload(t))
    /\ client' = [client EXCEPT ![d][t] = None]
    /\ target' = [target EXCEPT ![d][t] = None]
    /\ bytes' = [bytes EXCEPT ![d][t] = None]

(* Variants of UploadThrows: one without a finally block, and one that     *)
(* takes a failed upload for a done one.                                   *)
UploadThrowsOut(d, t) ==
    /\ pc[d][t] \in UploadPC
    /\ GoTo(d, t, AfterUpload(t))
    /\ client' = [client EXCEPT ![d][t] = None]
    /\ target' = [target EXCEPT ![d][t] = None]
    /\ bytes' = [bytes EXCEPT ![d][t] = None]
    /\ UNCHANGED <<dbVars, prefVars, isUploading, remoteVars, clock, flow>>

UploadThrowsClean(d, t) ==
    /\ pc[d][t] \in UploadPC
    /\ LeaveUpload(d, t)
    /\ dirty' = [dirty EXCEPT ![d] = FALSE]
    /\ UNCHANGED <<dbVars, creds, lastWrite, remoteVars, clock, flow>>

(* Any await inside the try may throw; the error is swallowed.             *)
UploadThrows(d, t) ==
    /\ pc[d][t] \in UploadPC
    /\ LeaveUpload(d, t)
    /\ UNCHANGED <<dbVars, prefVars, remoteVars, clock, flow>>

(* PRAGMA wal_checkpoint, then File(dbPath).                               *)
Checkpoint(d, t) ==
    /\ At(d, t, "checkpoint")
    /\ target' = [target EXCEPT ![d][t] = dbPath[d]]
    /\ GoTo(d, t, "client")
    /\ UNCHANGED <<dbVars, prefVars, isUploading, remoteVars, clock, client, bytes, flow>>

(* A variant of NoClient: without an account there is nothing to sync.     *)
NoClientClean(d, t) ==
    /\ At(d, t, "client")
    /\ creds[d] = None
    /\ LeaveUpload(d, t)
    /\ dirty' = [dirty EXCEPT ![d] = FALSE]
    /\ UNCHANGED <<dbVars, creds, lastWrite, remoteVars, clock, flow>>

(* _getClient: null without stored credentials,                            *)
NoClient(d, t) ==
    /\ At(d, t, "client")
    /\ creds[d] = None
    /\ LeaveUpload(d, t)
    /\ UNCHANGED <<dbVars, prefVars, remoteVars, clock, flow>>

(* otherwise a client for the account signed in now.                       *)
GetClient(d, t) ==
    /\ At(d, t, "client")
    /\ creds[d] # None
    /\ client' = [client EXCEPT ![d][t] = creds[d]]
    /\ GoTo(d, t, "read")
    /\ UNCHANGED <<dbVars, prefVars, isUploading, remoteVars, clock, target, bytes, flow>>

(* mkdir, whose error is ignored; then readAsBytes of an existing file     *)
(* starts (the return for a missing one has the effect of UploadThrows).   *)
BeginRead(d, t) ==
    /\ At(d, t, "read")
    /\ files[d][target[d][t]] # None
    /\ bytes' = [bytes EXCEPT ![d][t] = files[d][target[d][t]]]
    /\ GoTo(d, t, "reading")
    /\ UNCHANGED <<dbVars, prefVars, isUploading, remoteVars, clock, client, target, flow>>

(* A variant that clears the flag before the request is sent.              *)
EndReadClean(d, t) ==
    LET now == files[d][target[d][t]] IN
    /\ At(d, t, "reading")
    /\ \E b \in IF now = bytes[d][t] THEN {now} ELSE {bytes[d][t], now, Torn} :
           bytes' = [bytes EXCEPT ![d][t] = b]
    /\ dirty' = [dirty EXCEPT ![d] = FALSE]
    /\ GoTo(d, t, "put")
    /\ UNCHANGED <<dbVars, creds, lastWrite, isUploading, remoteVars, clock, client, target, flow>>

(* readAsBytes ends. It runs beside SQLite and beside a download's write   *)
(* of the same file without any lock: when the file changed meanwhile the  *)
(* bytes are the old ones, the new ones or pages of both. (A download of   *)
(* the very bytes that were there counts as no change.)                    *)
EndRead(d, t) ==
    LET now == files[d][target[d][t]] IN
    /\ At(d, t, "reading")
    /\ \E b \in IF now = bytes[d][t] THEN {now} ELSE {bytes[d][t], now, Torn} :
           bytes' = [bytes EXCEPT ![d][t] = b]
    /\ GoTo(d, t, "put")
    /\ UNCHANGED <<dbVars, prefVars, isUploading, remoteVars, clock, client, target, flow>>

(* A variant that asks for the credentials again before it sends.          *)
StoreSignedIn(d, t) ==
    LET a == IF creds[d] = None THEN client[d][t] ELSE creds[d] IN
    /\ remoteBody' = [remoteBody EXCEPT ![a] = bytes[d][t]]
    /\ remoteTime' = [remoteTime EXCEPT ![a] = clock]

(* client.write is carried out by the server ...                           *)
StoreRemote(d, t) ==
    /\ remoteBody' = [remoteBody EXCEPT ![client[d][t]] = bytes[d][t]]
    /\ remoteTime' = [remoteTime EXCEPT ![client[d][t]] = clock]

(* ... and answered,                                                       *)
Put(d, t) ==
    /\ At(d, t, "put")
    /\ StoreRemote(d, t)
    /\ GoTo(d, t, "clear")
    /\ UNCHANGED <<dbVars, prefVars, isUploading, clock, regVars, flow>>

(* or the answer is lost and the write throws (a timeout). The server is   *)
(* taken to be done by then: a request it carries out after the timeout,   *)
(* behind a later upload, is left out.                                     *)
PutUnanswered(d, t) ==
    /\ At(d, t, "put")
    /\ StoreRemote(d, t)
    /\ LeaveUpload(d, t)
    /\ UNCHANGED <<dbVars, prefVars, clock, flow>>

(* _clearDirty, then the finally block, in one step: a call dropped        *)
(* between them leaves the flag as it is, like one that throws at once.    *)
ClearAfterUpload(d, t) ==
    /\ At(d, t, "clear")
    /\ dirty' = [dirty EXCEPT ![d] = FALSE]
    /\ LeaveUpload(d, t)
    /\ UNCHANGED <<dbVars, creds, lastWrite, remoteVars, clock, flow>>

UploadStep(d, t) ==
    \/ SkipUpload(d, t)
    \/ BeginUpload(d, t)
    \/ UploadThrows(d, t)
    \/ Checkpoint(d, t)
    \/ NoClient(d, t)
    \/ GetClient(d, t)
    \/ BeginRead(d, t)
    \/ EndRead(d, t)
    \/ Put(d, t)
    \/ PutUnanswered(d, t)
    \/ ClearAfterUpload(d, t)

-----------------------------------------------------------------------------
(* syncOnStart, run by Main. init() may throw, which ends at the login     *)
(* page (splash_page.dart and login_cubit.dart both catch it).             *)

StartInit(d) ==
    /\ At(d, Main, "init")
    /\ InitDb(d)
    /\ GoTo(d, Main, "start")
    /\ UNCHANGED <<prefVars, isUploading, remoteVars, clock, regVars, flow>>

StartInitThrows(d) ==
    /\ At(d, Main, "init")
    /\ ~dbOpen[d]
    /\ OpenFails(d, Default)
    /\ GoTo(d, Main, "login")
    /\ UNCHANGED <<prefVars, isUploading, remoteVars, clock, regVars, flow>>

(* A variant of CheckDirty that always takes the remote version.           *)
CheckNothing(d) ==
    /\ At(d, Main, "start")
    /\ GoTo(d, Main, "close")
    /\ UNCHANGED <<dbVars, prefVars, isUploading, remoteVars, clock, regVars, flow>>

(* _hasUnsyncedChanges decides between upload and download.                *)
CheckDirty(d) ==
    /\ At(d, Main, "start")
    /\ GoTo(d, Main, IF dirty[d] THEN "lastmod" ELSE "close")
    /\ UNCHANGED <<dbVars, prefVars, isUploading, remoteVars, clock, regVars, flow>>

(* _getRemoteLastModified: null when signed out, when the file is missing, *)
(* or on any error. 0 stands for null.                                     *)
RemoteLastModified(d) ==
    IF creds[d] = None \/ remoteBody[creds[d]] = None
    THEN {0}
    ELSE {0, remoteTime[creds[d]]}

IsConflict(remoteModified, localModified) ==
    /\ remoteModified # 0
    /\ localModified # 0
    /\ remoteModified > localModified

(* A variant that needs the time of the remote file.                       *)
CompareKnownTimes(d) ==
    /\ At(d, Main, "lastmod")
    /\ \E remoteModified \in RemoteLastModified(d) \ {0} :
           GoTo(d, Main, IF IsConflict(remoteModified, lastWrite[d])
                         THEN "conflict" ELSE "enter")
    /\ UNCHANGED <<dbVars, prefVars, isUploading, remoteVars, clock, regVars, flow>>

CompareTimes(d) ==
    /\ At(d, Main, "lastmod")
    /\ \E remoteModified \in RemoteLastModified(d) :
           GoTo(d, Main, IF IsConflict(remoteModified, lastWrite[d])
                         THEN "conflict" ELSE "enter")
    /\ UNCHANGED <<dbVars, prefVars, isUploading, remoteVars, clock, regVars, flow>>

(* resolveWithRemote starts by dropping the flag.                          *)
ResolveWithRemote(d) ==
    /\ At(d, Main, "resolve")
    /\ dirty' = [dirty EXCEPT ![d] = FALSE]
    /\ GoTo(d, Main, "close")
    /\ UNCHANGED <<dbVars, creds, lastWrite, isUploading, remoteVars, clock, regVars, flow>>

(* A variant of CloseForDownload that leaves the connection open.          *)
DownloadUnclosed(d) ==
    /\ At(d, Main, "close")
    /\ GoTo(d, Main, "get")
    /\ UNCHANGED <<dbVars, prefVars, isUploading, remoteVars, clock, regVars, flow>>

(* Both ways to the remote version close the connection, download and call *)
(* init() again.                                                           *)
CloseForDownload(d) ==
    /\ At(d, Main, "close")
    /\ Close(d)
    /\ GoTo(d, Main, "get")
    /\ UNCHANGED <<prefVars, isUploading, remoteVars, clock, regVars, flow>>

(* downloadDb: client.read of the remote file,                             *)
ReadRemote(d) ==
    /\ At(d, Main, "get")
    /\ creds[d] # None
    /\ remoteBody[creds[d]] # None
    /\ bytes' = [bytes EXCEPT ![d][Main] = remoteBody[creds[d]]]
    /\ GoTo(d, Main, "save")
    /\ UNCHANGED <<dbVars, prefVars, isUploading, remoteVars, clock, client, target, flow>>

(* A variant of SkipDownload that only catches the errors of the write.    *)
SkipSaveOnly(d) ==
    /\ At(d, Main, "save")
    /\ bytes' = [bytes EXCEPT ![d][Main] = None]
    /\ GoTo(d, Main, "reopen")
    /\ UNCHANGED <<dbVars, prefVars, isUploading, remoteVars, clock, client, target, flow>>

(* which no client, a 404, a timeout or an IO error silently skips;        *)
SkipDownload(d) ==
    /\ pc[d][Main] \in {"get", "save"}
    /\ bytes' = [bytes EXCEPT ![d][Main] = None]
    /\ GoTo(d, Main, "reopen")
    /\ UNCHANGED <<dbVars, prefVars, isUploading, remoteVars, clock, client, target, flow>>

(* writeAsBytes truncates File(dbPath) first                               *)
BeginSave(d) ==
    /\ At(d, Main, "save")
    /\ files' = [files EXCEPT ![d][dbPath[d]] = Torn]
    /\ GoTo(d, Main, "saving")
    /\ UNCHANGED <<dbOpen, dbPath, prefVars, isUploading, remoteVars, clock, regVars, flow>>

(* and is complete only later, unless it throws half way.                  *)
EndSave(d) ==
    /\ At(d, Main, "saving")
    /\ \E body \in {bytes[d][Main], Torn} :
           files' = [files EXCEPT ![d][dbPath[d]] = body]
    /\ bytes' = [bytes EXCEPT ![d][Main] = None]
    /\ GoTo(d, Main, "reopen")
    /\ UNCHANGED <<dbOpen, dbPath, prefVars, isUploading, remoteVars, clock, client, target, flow>>

Reopen(d) ==
    /\ At(d, Main, "reopen")
    /\ InitDb(d)
    /\ GoTo(d, Main, "dash")
    /\ UNCHANGED <<prefVars, isUploading, remoteVars, clock, regVars, flow>>

(* A variant of ReopenThrows: the exception is swallowed.                  *)
ReopenSwallowed(d) ==
    /\ At(d, Main, "reopen")
    /\ ~dbOpen[d]
    /\ OpenFails(d, Default)
    /\ GoTo(d, Main, "dash")
    /\ UNCHANGED <<prefVars, isUploading, remoteVars, clock, regVars, flow>>

(* _checkAuth and login catch an exception and show the login page;        *)
(* resolveConflict does not, and its page keeps showing LoginLoading.      *)
ReopenThrows(d) ==
    /\ At(d, Main, "reopen")
    /\ ~dbOpen[d]
    /\ OpenFails(d, Default)
    /\ GoTo(d, Main, IF flow[d] = "resolve" THEN "loading" ELSE "login")
    /\ UNCHANGED <<prefVars, isUploading, remoteVars, clock, regVars, flow>>

StartStep(d) ==
    \/ StartInit(d)
    \/ StartInitThrows(d)
    \/ CheckDirty(d)
    \/ CompareTimes(d)
    \/ ResolveWithRemote(d)
    \/ CloseForDownload(d)
    \/ ReadRemote(d)
    \/ SkipDownload(d)
    \/ BeginSave(d)
    \/ EndSave(d)
    \/ Reopen(d)
    \/ ReopenThrows(d)

(* Seconds pass.                                                           *)
Tick ==
    /\ clock < MaxClock
    /\ clock' = clock + 1
    /\ UNCHANGED <<dbVars, prefVars, isUploading, remoteVars, pc, regVars, flow>>

=============================================================================
