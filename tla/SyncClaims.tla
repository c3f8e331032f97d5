----------------------------- MODULE SyncClaims -----------------------------
(***************************************************************************)
(* What comments and messages of the repository say about the sync, stated  *)
(* of AppSession. None of these holds: each has a run that shows how the   *)
(* code breaks it.                                                         *)
(***************************************************************************)
EXTENDS AppSession

(***************************************************************************)
(* ucloud_sync_service.dart 172-173: "if an upload is already running the  *)
(* new request is silently dropped (the in-flight upload already has the   *)
(* latest data)". So whenever a request is about to be dropped, an upload  *)
(* that has read its bytes read what is in the database now.               *)
(***************************************************************************)
InFlightHasLatest ==
    \A d \in Device, c \in Call, t \in Thread :
        /\ At(d, c, "enter")
        /\ pc[d][t] \in {"put", "clear"}
        /\ dbOpen[d]
        => bytes[d][t] = files[d][dbPath[d]]

(***************************************************************************)
(* ucloud_sync_service.dart 170: uploadDb is "safe to call while the DB is *)
(* open". So what it sends is a database.                                  *)
(***************************************************************************)
UploadsADatabase ==
    \A d \in Device, t \in Thread :
        At(d, t, "put") /\ dbOpen[d] => bytes[d][t] # Torn

(***************************************************************************)
(* ucloud_sync_service.dart 151: downloadDb "downloads the remote .db file *)
(* and overwrites the local one". So the file that was overwritten is the  *)
(* one the app goes on with.                                               *)
(***************************************************************************)
DownloadIsOpened ==
    [][\A d \in Device :
          At(d, Main, "reopen") /\ pc'[d][Main] = "dash" => dbPath'[d] = dbPath[d]]_vars

(***************************************************************************)
(* profile_page.dart 53, of a local-only database on mobile: "This         *)
(* database file lives inside the app and won't be reachable once you sign *)
(* out." and database_service.dart 106, of createLocalDatabase:            *)
(* "Creates/opens a fresh local database". So a new local database holds   *)
(* no change.                                                              *)
(***************************************************************************)
NewLocalDatabaseIsFresh ==
    [][\A d \in Device :
          /\ At(d, Main, "login")
          /\ pc'[d][Main] = "dash"
          /\ files[d][Picked] = None
          => files'[d][dbPath'[d]] = {}]_vars

=============================================================================
