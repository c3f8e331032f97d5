----------------------------- MODULE SyncHistory -----------------------------
(***************************************************************************)
(* AppSession with two history variables, to say which changes the sync of *)
(* ucloud_sync_service.dart can lose and that it loses no other.           *)
(*                                                                         *)
(* stored[d]  changes device d knows to be, or to have been, in u:cloud:   *)
(*            the bytes of its answered uploads and of its downloads.      *)
(* exposed[d] changes the code has left without protection. A change is    *)
(*            exposed from its commit until a later markDirty(), and that  *)
(*            call protects it only when the flag it sets will still be    *)
(*            there for the next upload or start-up: not while an upload   *)
(*            that has begun to read is going to clear the flag, and not   *)
(*            once the start-up has decided to download. Dropping the flag *)
(*            on login or for the remote version, sending a torn copy, and *)
(*            clearing the flag after uploading another file expose all.   *)
(***************************************************************************)
EXTENDS AppSession

VARIABLES stored, exposed

historyVars == <<stored, exposed>>

(* The changes in winecellar.db of d, in this state and in the next.       *)
Changes(body) == IF body \in {None, Torn} THEN {} ELSE body
Local(d) == Changes(files[d][Default])

Steps(d, t, from, to) == pc[d][t] = from /\ pc'[d][t] = to

(* Whether a flag set now is cleared, or ignored, without its changes      *)
(* having been uploaded.                                                   *)
FlagInVain(d) ==
    \/ \E t \in Thread : pc[d][t] \in {"reading", "put", "clear"}
    \/ pc[d][Main] \in {"close"} \cup DownloadPC

StoredBy(d) ==
    (UNION {Changes(bytes[d][t]) : t \in {u \in Thread : Steps(d, u, "put", "clear")}})
        \cup (IF Steps(d, Main, "get", "save") THEN Changes(bytes'[d][Main]) ELSE {})

ExposesAll(d) ==
    \/ Steps(d, Main, "loginClear", "init")
    \/ Steps(d, Main, "resolve", "close")
    \/ \E t \in Thread : Steps(d, t, "reading", "put") /\ bytes'[d][t] = Torn
    \/ \E t \in Thread : /\ Steps(d, t, "clear", AfterUpload(t))
                         /\ target[d][t] # Default
                         /\ dirty[d] /\ ~dirty'[d]

Protects(d) ==
    /\ \E c \in Call : Steps(d, c, "mark", "stamp")
    /\ ~FlagInVain(d)

HistoryStep ==
    /\ stored' = [d \in Device |-> stored[d] \cup StoredBy(d)]
    /\ exposed' = [d \in Device |->
                     CASE Protects(d) -> {}
                       [] ExposesAll(d) -> exposed[d] \cup Local(d)
                       [] OTHER -> exposed[d] \cup (Local(d)' \ (Local(d) \cup stored'[d]))]

HInit ==
    /\ Init
    /\ stored = [d \in Device |-> {}]
    /\ exposed = [d \in Device |-> {}]

HNext == Next /\ HistoryStep

HSpec == HInit /\ [][HNext]_<<vars, historyVars>>

(***************************************************************************)
(* The preference has_unsynced_changes is on whenever winecellar.db holds  *)
(* a change that was never in u:cloud, but for the exposed ones. No        *)
(* failed, unanswered or interrupted upload and no killed process turns it *)
(* off too early ("Upload failure is silent - will retry on next sync").   *)
(***************************************************************************)
UnsyncedIsFlagged ==
    \A d \in Device : dirty[d] \/ Local(d) \subseteq stored[d] \cup exposed[d]

(***************************************************************************)
(* The download at start-up, and "Keep uCloud", overwrite no local change  *)
(* that was never in u:cloud, but for the exposed ones.                    *)
(***************************************************************************)
OverwritesOnlyStored ==
    \A d \in Device :
        pc[d][Main] \in {"close", "get", "save"} =>
            Local(d) \subseteq stored[d] \cup exposed[d]

(* The state that CloudCopies speaks of: the bytes an upload of d has read *)
(* count until they are dropped, those of a download until they are        *)
(* written.                                                                *)
Sending(d) ==
    UNION {Changes(bytes[d][t]) : t \in {u \in Thread : pc[d][u] \in {"reading", "put", "clear"}}}
Received(d) == IF pc[d][Main] \in {"save", "saving"} THEN Changes(bytes[d][Main]) ELSE {}

Held == [d \in Device |-> Local(d)]
Outgoing == [d \in Device |-> Sending(d)]
Incoming == [d \in Device |-> Received(d)]
OnServer == [a \in Account |-> Changes(remoteBody[a])]

(***************************************************************************)
(* The service and the pages around it implement CloudCopies: whatever     *)
(* interleaves between their awaits, fails or is killed, what a device     *)
(* sends is winecellar.db as it was at one moment (or a torn copy, which   *)
(* exposes its changes), what it takes over is what the server had at one  *)
(* moment, and the file that syncOnStart overwrites long after it has      *)
(* looked at the flag still has only safe and exposed changes. Only on a   *)
(* mobile device does a picked file replace winecellar.db, and only on a   *)
(* desktop is another database sent.                                       *)
(***************************************************************************)
Copies == INSTANCE CloudCopies
              WITH Change <- Write,
                   OtherFile <- LocalOnly /\ InPlace,
                   PickReplaces <- LocalOnly /\ ~InPlace,
                   held <- Held,
                   flag <- dirty,
                   copy <- Outgoing,
                   fetched <- Incoming,
                   safe <- stored,
                   risk <- exposed,
                   cloud <- OnServer

KeepsCopies == Copies!CopiesSpec

=============================================================================
