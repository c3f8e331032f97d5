------------------------ MODULE ServerHistoryProofs ------------------------
(***************************************************************************)
(* Proofs about ServerHistory: which changes reach which account, and in   *)
(* which order uploads reach the server, for any number of devices,        *)
(* accounts, changes and concurrent calls.                                 *)
(***************************************************************************)
EXTENDS ServerHistory, AppSessionProofs

Reading == {"reading", "put"}
Saving == {"save", "saving"}

(* Account a may receive the changes of body.                              *)
Clean(a, body) == \A w \in Changes(body) : origin[w] = a \/ <<a, w>> \in crossed

(* The same after the step.                                                *)
StillClean(a, body) ==
    \A w \in Changes(body) : origin'[w] = a \/ <<a, w>> \in crossed'

(* Every change that is in some file, buffer or folder has been made.      *)
AllWritten ==
    /\ \A a \in Account : Changes(remoteBody[a]) \subseteq written
    /\ \A d \in Device, p \in Path : Changes(files[d][p]) \subseteq written
    /\ \A d \in Device, t \in Thread : Changes(bytes[d][t]) \subseteq written

(* What is on its way to or from an account is clean, and so is the file   *)
(* that is known to be the account's.                                      *)
CleanOn(d) ==
    /\ \A t \in Thread :
          /\ pc[d][t] \in Reading => Clean(client[d][t], bytes[d][t])
          /\ pc[d][t] \in Reading \cup {"read"} => client[d][t] # None
    /\ pc[d][Main] \in Saving => Clean(creds[d], bytes[d][Main])
    /\ home[d] # None => home[d] = creds[d] /\ Clean(home[d], files[d][Default])
    /\ pc[d][Main] = "login" => home[d] = None

Separate ==
    /\ \A a \in Account : Clean(a, remoteBody[a])
    /\ \A d \in Device : CleanOn(d)

(* Change w is nowhere but on device d, and there in no buffer but t's.    *)
OnlyAt(d, t, w) ==
    /\ \A a \in Account : w \notin Changes(remoteBody[a])
    /\ \A e \in Device \ {d}, p \in Path : w \notin Changes(files[e][p])
    /\ \A e \in Device, u \in Thread : w \in Changes(bytes[e][u]) => e = d /\ u = t

(* Thread t is uploading winecellar.db, whole and not overtaken.           *)
InTime(d, t) ==
    /\ pc[d][t] \in Reading
    /\ target[d][t] = Default
    /\ bytes[d][t] # Torn
    /\ t \notin overtaken[d]

(* What the file has and the upload lacks has left the device on no way.   *)
Current(d, t) ==
    /\ files[d][Default] # Torn
    /\ \A w \in Changes(files[d][Default]) \ Changes(bytes[d][t]) : OnlyAt(d, t, w)

InOrder == \A d \in Device, t \in Thread : InTime(d, t) => Current(d, t)

(* A file that a download is writing is not a database meanwhile.          *)
SavedIsTorn == \A d \in Device : pc[d][Main] = "saving" => files[d][dbPath[d]] = Torn

AInv == Inv /\ AllWritten /\ Separate /\ SavedIsTorn /\ InOrder

-----------------------------------------------------------------------------
(* How bodies flow in one step of device d: where each new file, folder    *)
(* and buffer comes from. The invariants follow from these facts alone.    *)

(* Where a new file comes from that is no commit.                          *)
Replaced(d, p) ==
    /\ p = Default => Replaces(d) \/ files[d][p] = Torn
    /\ \/ files'[d][p] = Torn
       \/ /\ files'[d][p] = bytes[d][Main] /\ p = dbPath[d]
          /\ pc[d][Main] = "saving" /\ pc'[d][Main] = "reopen"
       \/ /\ \E q \in Path : files'[d][p] = files[d][q]
          /\ p = Default => pc[d][Main] = "login"

Committed(d, p) ==
    \E w \in Write \ written :
        /\ written' = written \cup {w}
        /\ files[d][p] \in SUBSET Write
        /\ files'[d][p] = files[d][p] \cup {w}

FileFlow(d) ==
    \A p \in Path : \/ files'[d][p] \in {files[d][p], {}}
                    \/ Replaced(d, p)
                    \/ Committed(d, p)

RemoteFlow(d) ==
    \A a \in Account :
        \/ remoteBody'[a] = remoteBody[a]
        \/ \E t \in Thread : /\ pc[d][t] = "put" /\ pc'[d][t] \notin Reading
                             /\ client[d][t] = a
                             /\ remoteBody'[a] = bytes[d][t]

BytesFlow(d, t) ==
    \/ bytes'[d][t] \in {bytes[d][t], None, Torn}
    \/ \E a \in Account : bytes'[d][t] = remoteBody[a]
    \/ pc'[d][t] \in Reading /\ \E p \in Path : bytes'[d][t] = files[d][p]

ReadFlow(d, t) ==
    pc'[d][t] \in Reading =>
        /\ client'[d][t] = client[d][t] /\ target'[d][t] = target[d][t]
        /\ \/ pc'[d][t] = pc[d][t] /\ bytes'[d][t] = bytes[d][t]
           \/ /\ pc[d][t] \in {"read", "reading"} /\ pc'[d][t] # pc[d][t]
              /\ files'[d] = files[d]
              /\ \/ bytes'[d][t] = files[d][target[d][t]]
                 \/ pc[d][t] = "reading" /\ bytes'[d][t] \in {bytes[d][t], Torn}

ClientFlow(d, t) ==
    pc'[d][t] \in Reading \cup {"read"} =>
        \/ client'[d][t] = creds[d] /\ creds[d] # None
        \/ client'[d][t] = client[d][t] /\ pc[d][t] \in Reading \cup {"read"}

DownloadFlow(d) ==
    /\ pc[d][Main] = "saving" \/ pc'[d][Main] \in Saving => creds'[d] = creds[d]
    /\ pc'[d][Main] \in Saving =>
          \/ pc[d][Main] \in Saving /\ bytes'[d][Main] = bytes[d][Main]
          \/ creds[d] \in Account /\ bytes'[d][Main] = remoteBody[creds[d]]

SavingFlow(d) ==
    pc'[d][Main] = "saving" =>
        \/ files'[d][dbPath'[d]] = Torn
        \/ pc[d][Main] = "saving" /\ dbPath'[d] = dbPath[d] /\ files'[d] = files[d]

Flow(d) ==
    /\ FileFlow(d) /\ RemoteFlow(d) /\ DownloadFlow(d) /\ SavingFlow(d)
    /\ \A t \in Thread : BytesFlow(d, t) /\ ReadFlow(d, t) /\ ClientFlow(d, t)
    /\ written \subseteq written'

(* Nothing of device d changes.                                            *)
Same(d) ==
    /\ files'[d] = files[d] /\ dbPath'[d] = dbPath[d] /\ creds'[d] = creds[d]
    /\ pc'[d] = pc[d] /\ client'[d] = client[d]
    /\ target'[d] = target[d] /\ bytes'[d] = bytes[d]

OneFlows(d) == Flow(d) /\ \A e \in Device \ {d} : Same(e)

(* At most thread t of device d moves, and neither into a read nor into a  *)
(* download.                                                               *)
Moves(d, t) ==
    /\ \A u \in Thread \ {t} :
          /\ pc'[d][u] = pc[d][u] /\ client'[d][u] = client[d][u]
          /\ target'[d][u] = target[d][u] /\ bytes'[d][u] = bytes[d][u]
    /\ pc'[d][t] \notin Reading \cup Saving \cup {"read"}
    /\ bytes'[d][t] \in {bytes[d][t], None}
    /\ pc[d][Main] = "saving" \/ pc'[d][Main] \in Saving => creds'[d] = creds[d]
    /\ pc'[d][Main] \in Saving => files'[d] = files[d] /\ dbPath'[d] = dbPath[d]

(* Such a move lets no body flow between threads, and where the files and  *)
(* the server stay as they are nothing flows at all.                       *)
LEMMA MovesFlow ==
    ASSUME NEW d \in Device, NEW t \in Thread, Moves(d, t)
    PROVE  /\ \A u \in Thread : BytesFlow(d, u) /\ ReadFlow(d, u) /\ ClientFlow(d, u)
           /\ DownloadFlow(d) /\ SavingFlow(d)
<1>1. Main \in Thread
  BY DEF Thread
<1>2. ASSUME NEW u \in Thread
      PROVE  BytesFlow(d, u) /\ ReadFlow(d, u) /\ ClientFlow(d, u)
  BY DEF Moves, BytesFlow, ReadFlow, ClientFlow
<1>3. DownloadFlow(d)
  BY <1>1 DEF Moves, DownloadFlow, Saving
<1>4. SavingFlow(d)
  BY <1>1 DEF Moves, SavingFlow, Saving
<1> QED
  BY <1>2, <1>3, <1>4

(* A step that touches no file.                                            *)
LEMMA FilesKept ==
    ASSUME NEW d \in Device, files' = files
    PROVE  FileFlow(d)
BY DEF FileFlow

(* A step that sends nothing.                                              *)
LEMMA RemoteKept ==
    ASSUME NEW d \in Device, remoteBody' = remoteBody
    PROVE  RemoteFlow(d)
BY DEF RemoteFlow

(* An ordinary step: one thread moves, files and server stay.              *)
LEMMA QuietFlow ==
    ASSUME NEW d \in Device, NEW t \in Thread, Moves(d, t),
           files' = files, remoteBody' = remoteBody, written' = written
    PROVE  Flow(d)
BY MovesFlow, FilesKept, RemoteKept DEF Flow

(* What opening a database does to the files.                              *)
LEMMA OpenedFlow ==
    ASSUME NEW d \in Device, NEW p \in Path, OpenAt(d, p),
           files \in [Device -> [Path -> {None} \cup Body]]
    PROVE  \A q \in Path : files'[d][q] \in {files[d][q], {}}
BY DEF OpenAt, Opened

(* And what a commit does.                                                 *)
LEMMA CommitFlow ==
    ASSUME Inv, NEW d \in Device, NEW w \in Write \ written, Commit(d, w),
           written' = written \cup {w}
    PROVE  \A p \in Path : files'[d][p] = files[d][p] \/ Committed(d, p)
<1>1. /\ files \in [Device -> [Path -> {None} \cup Body]]
      /\ dbPath[d] \in Path /\ files[d][dbPath[d]] \in SUBSET Write
  BY DEF Inv, TypeOK, DatabaseTypeOK, Connected, Commit, Body
<1> QED
  BY <1>1 DEF Commit, Committed

(***************************************************************************)
(* How the steps of uploadDb let bodies flow.                              *)
(***************************************************************************)
LEMMA UploadFlow ==
    ASSUME Inv, NEW d \in Device, NEW t \in Thread, UploadStep(d, t), written' = written
    PROVE  OneFlows(d)
<1>1. /\ ThreadsTypeOK
      /\ files \in [Device -> [Path -> {None} \cup Body]]
      /\ dbPath \in [Device -> Path \cup {None}]
      /\ creds \in [Device -> Account \cup {None}]
      /\ remoteBody \in [Account -> {None} \cup Body]
      /\ client \in [Device -> [Thread -> Account \cup {None}]]
      /\ target \in [Device -> [Thread -> Path \cup {None}]]
      /\ bytes \in [Device -> [Thread -> {None} \cup Body]]
      /\ Main \in Thread
      /\ Call \subseteq Thread
  BY StepTypes DEF Thread
<1> USE DEF dbVars, prefVars, remoteVars, regVars, syncVars
<1>2. CASE SkipUpload(d, t)
  <2>1. /\ pc[d][t] = "enter"
        /\ pc'[d][t] = AfterUpload(t)
        /\ \A u \in Thread \ {t} : pc'[d][u] = pc[d][u]
        /\ \A e \in Device \ {d} : pc'[e] = pc[e]
    BY <1>1, <1>2, Moved DEF SkipUpload, At
  <2>2. \A e \in Device \ {d} : Same(e)
    BY <1>1, <1>2, <2>1 DEF SkipUpload, Same
  <2>3. Moves(d, t)
    BY <1>1, <1>2, <2>1 DEF SkipUpload, AfterUpload, Moves, Reading, Saving
  <2>4. files' = files /\ remoteBody' = remoteBody /\ written' = written
    BY <1>2 DEF SkipUpload
  <2> QED
    BY <1>1, <2>2, <2>3, <2>4, QuietFlow DEF OneFlows
<1>3. CASE BeginUpload(d, t)
  <2>1. /\ pc[d][t] = "enter"
        /\ pc'[d][t] = "checkpoint"
        /\ \A u \in Thread \ {t} : pc'[d][u] = pc[d][u]
        /\ \A e \in Device \ {d} : pc'[e] = pc[e]
    BY <1>1, <1>3, Moved DEF BeginUpload, At
  <2>2. \A e \in Device \ {d} : Same(e)
    BY <1>1, <1>3, <2>1 DEF BeginUpload, Same
  <2>3. Moves(d, t)
    BY <1>1, <1>3, <2>1 DEF BeginUpload, Moves, Reading, Saving
  <2>4. files' = files /\ remoteBody' = remoteBody /\ written' = written
    BY <1>3 DEF BeginUpload
  <2> QED
    BY <1>1, <2>2, <2>3, <2>4, QuietFlow DEF OneFlows
<1>4. CASE UploadThrows(d, t)
  <2>1. /\ pc[d][t] \in UploadPC
        /\ pc'[d][t] = AfterUpload(t)
        /\ \A u \in Thread \ {t} : pc'[d][u] = pc[d][u]
        /\ \A e \in Device \ {d} : pc'[e] = pc[e]
    BY <1>1, <1>4, Moved DEF UploadThrows, At, LeaveUpload
  <2>2. \A e \in Device \ {d} : Same(e)
    BY <1>1, <1>4, <2>1 DEF UploadThrows, LeaveUpload, Same
  <2>3. Moves(d, t)
    BY <1>1, <1>4, <2>1 DEF UploadThrows, LeaveUpload, AfterUpload, Moves,
       Reading, Saving
  <2>4. files' = files /\ remoteBody' = remoteBody /\ written' = written
    BY <1>4 DEF UploadThrows, LeaveUpload
  <2> QED
    BY <1>1, <2>2, <2>3, <2>4, QuietFlow DEF OneFlows
<1>5. CASE Checkpoint(d, t)
  <2>1. /\ pc[d][t] = "checkpoint"
        /\ pc'[d][t] = "client"
        /\ \A u \in Thread \ {t} : pc'[d][u] = pc[d][u]
        /\ \A e \in Device \ {d} : pc'[e] = pc[e]
    BY <1>1, <1>5, Moved DEF Checkpoint, At
  <2>2. \A e \in Device \ {d} : Same(e)
    BY <1>1, <1>5, <2>1 DEF Checkpoint, Same
  <2>3. Moves(d, t)
    BY <1>1, <1>5, <2>1 DEF Checkpoint, Moves, Reading, Saving
  <2>4. files' = files /\ remoteBody' = remoteBody /\ written' = written
    BY <1>5 DEF Checkpoint
  <2> QED
    BY <1>1, <2>2, <2>3, <2>4, QuietFlow DEF OneFlows
<1>6. CASE NoClient(d, t)
  <2>1. /\ pc[d][t] = "client"
        /\ pc'[d][t] = AfterUpload(t)
        /\ \A u \in Thread \ {t} : pc'[d][u] = pc[d][u]
        /\ \A e \in Device \ {d} : pc'[e] = pc[e]
    BY <1>1, <1>6, Moved DEF NoClient, At, LeaveUpload
  <2>2. \A e \in Device \ {d} : Same(e)
    BY <1>1, <1>6, <2>1 DEF NoClient, LeaveUpload, Same
  <2>3. Moves(d, t)
    BY <1>1, <1>6, <2>1 DEF NoClient, LeaveUpload, AfterUpload, Moves, Reading,
       Saving
  <2>4. files' = files /\ remoteBody' = remoteBody /\ written' = written
    BY <1>6 DEF NoClient, LeaveUpload
  <2> QED
    BY <1>1, <2>2, <2>3, <2>4, QuietFlow DEF OneFlows
<1>7. CASE GetClient(d, t)
  <2>1. /\ pc[d][t] = "client"
        /\ pc'[d][t] = "read"
        /\ \A u \in Thread \ {t} : pc'[d][u] = pc[d][u]
        /\ \A e \in Device \ {d} : pc'[e] = pc[e]
    BY <1>1, <1>7, Moved DEF GetClient, At
  <2>2. \A e \in Device \ {d} : Same(e)
    BY <1>1, <1>7, <2>1 DEF GetClient, Same
  <2>3. /\ client'[d][t] = creds[d] /\ creds[d] # None
        /\ \A u \in Thread \ {t} : client'[d][u] = client[d][u]
        /\ bytes' = bytes /\ target' = target /\ files' = files /\ remoteBody' = remoteBody
        /\ dbPath' = dbPath /\ creds' = creds
    BY <1>1, <1>7 DEF GetClient
  <2>4. \A u \in Thread : BytesFlow(d, u) /\ ReadFlow(d, u) /\ ClientFlow(d, u)
    BY <2>1, <2>3 DEF BytesFlow, ReadFlow, ClientFlow, Reading
  <2>5. DownloadFlow(d) /\ SavingFlow(d)
    BY <1>1, <2>1, <2>3 DEF DownloadFlow, SavingFlow, Saving
  <2> QED
    BY <2>2, <2>3, <2>4, <2>5, FilesKept, RemoteKept DEF OneFlows, Flow
<1>8. CASE BeginRead(d, t)
  <2>1. /\ pc[d][t] = "read"
        /\ pc'[d][t] = "reading"
        /\ \A u \in Thread \ {t} : pc'[d][u] = pc[d][u]
        /\ \A e \in Device \ {d} : pc'[e] = pc[e]
    BY <1>1, <1>8, Moved DEF BeginRead, At
  <2>2. \A e \in Device \ {d} : Same(e)
    BY <1>1, <1>8, <2>1 DEF BeginRead, Same
  <2>3. /\ target[d][t] \in Path
        /\ bytes'[d][t] = files[d][target[d][t]]
        /\ \A u \in Thread \ {t} : bytes'[d][u] = bytes[d][u]
        /\ client' = client /\ target' = target /\ files' = files /\ remoteBody' = remoteBody
        /\ dbPath' = dbPath /\ creds' = creds
    BY <1>1, <1>8, <2>1 DEF BeginRead, Inv, Connected, UploadPC
  <2>4. \A u \in Thread : BytesFlow(d, u) /\ ReadFlow(d, u) /\ ClientFlow(d, u)
    BY <2>1, <2>3 DEF BytesFlow, ReadFlow, ClientFlow, Reading
  <2>5. DownloadFlow(d) /\ SavingFlow(d)
    BY <1>1, <2>1, <2>3 DEF DownloadFlow, SavingFlow, Saving
  <2> QED
    BY <2>2, <2>3, <2>4, <2>5, FilesKept, RemoteKept DEF OneFlows, Flow
<1>9. CASE EndRead(d, t)
  <2>1. /\ pc[d][t] = "reading"
        /\ pc'[d][t] = "put"
        /\ \A u \in Thread \ {t} : pc'[d][u] = pc[d][u]
        /\ \A e \in Device \ {d} : pc'[e] = pc[e]
    BY <1>1, <1>9, Moved DEF EndRead, At
  <2>2. \A e \in Device \ {d} : Same(e)
    BY <1>1, <1>9, <2>1 DEF EndRead, Same
  <2>3. /\ target[d][t] \in Path
        /\ bytes'[d][t] \in {bytes[d][t], files[d][target[d][t]], Torn}
        /\ \A u \in Thread \ {t} : bytes'[d][u] = bytes[d][u]
        /\ client' = client /\ target' = target /\ files' = files /\ remoteBody' = remoteBody
        /\ dbPath' = dbPath /\ creds' = creds
    BY <1>1, <1>9, <2>1 DEF EndRead, Inv, Connected, UploadPC
  <2>4. \A u \in Thread : BytesFlow(d, u) /\ ReadFlow(d, u) /\ ClientFlow(d, u)
    BY <2>1, <2>3 DEF BytesFlow, ReadFlow, ClientFlow, Reading
  <2>5. DownloadFlow(d) /\ SavingFlow(d)
    BY <1>1, <2>1, <2>3 DEF DownloadFlow, SavingFlow, Saving
  <2> QED
    BY <2>2, <2>3, <2>4, <2>5, FilesKept, RemoteKept DEF OneFlows, Flow
<1>10. CASE Put(d, t)
  <2>1. /\ pc[d][t] = "put"
        /\ pc'[d][t] = "clear"
        /\ \A u \in Thread \ {t} : pc'[d][u] = pc[d][u]
        /\ \A e \in Device \ {d} : pc'[e] = pc[e]
    BY <1>1, <1>10, Moved DEF Put, At
  <2>2. \A e \in Device \ {d} : Same(e)
    BY <1>1, <1>10, <2>1 DEF Put, Same
  <2>3. Moves(d, t)
    BY <1>1, <1>10, <2>1 DEF Put, Moves, Reading, Saving
  <2>4. RemoteFlow(d)
    <3>1. \A a \in Account :
            remoteBody'[a] = remoteBody[a] \/ (a = client[d][t] /\ remoteBody'[a] = bytes[d][t])
      BY <1>1, <1>10 DEF Put, StoreRemote
    <3>2. pc'[d][t] \notin Reading
      BY <2>3 DEF Moves
    <3> QED
      BY <2>1, <3>1, <3>2 DEF RemoteFlow
  <2>5. FileFlow(d) /\ written \subseteq written'
    BY <1>10, FilesKept DEF Put
  <2> QED
    BY <1>1, <2>2, <2>3, <2>4, <2>5, MovesFlow DEF OneFlows, Flow
<1>11. CASE PutUnanswered(d, t)
  <2>1. /\ pc[d][t] = "put"
        /\ pc'[d][t] = AfterUpload(t)
        /\ \A u \in Thread \ {t} : pc'[d][u] = pc[d][u]
        /\ \A e \in Device \ {d} : pc'[e] = pc[e]
    BY <1>1, <1>11, Moved DEF PutUnanswered, At, LeaveUpload
  <2>2. \A e \in Device \ {d} : Same(e)
    BY <1>1, <1>11, <2>1 DEF PutUnanswered, LeaveUpload, Same
  <2>3. Moves(d, t)
    BY <1>1, <1>11, <2>1 DEF PutUnanswered, LeaveUpload, AfterUpload, Moves,
       Reading, Saving
  <2>4. RemoteFlow(d)
    <3>1. \A a \in Account :
            remoteBody'[a] = remoteBody[a] \/ (a = client[d][t] /\ remoteBody'[a] = bytes[d][t])
      BY <1>1, <1>11 DEF PutUnanswered, StoreRemote
    <3>2. pc'[d][t] \notin Reading
      BY <2>3 DEF Moves
    <3> QED
      BY <2>1, <3>1, <3>2 DEF RemoteFlow
  <2>5. FileFlow(d) /\ written \subseteq written'
    BY <1>11, FilesKept DEF PutUnanswered
  <2> QED
    BY <1>1, <2>2, <2>3, <2>4, <2>5, MovesFlow DEF OneFlows, Flow
<1>12. CASE ClearAfterUpload(d, t)
  <2>1. /\ pc[d][t] = "clear"
        /\ pc'[d][t] = AfterUpload(t)
        /\ \A u \in Thread \ {t} : pc'[d][u] = pc[d][u]
        /\ \A e \in Device \ {d} : pc'[e] = pc[e]
    BY <1>1, <1>12, Moved DEF ClearAfterUpload, At, LeaveUpload
  <2>2. \A e \in Device \ {d} : Same(e)
    BY <1>1, <1>12, <2>1 DEF ClearAfterUpload, LeaveUpload, Same
  <2>3. Moves(d, t)
    BY <1>1, <1>12, <2>1 DEF ClearAfterUpload, LeaveUpload, AfterUpload, Moves,
       Reading, Saving
  <2>4. files' = files /\ remoteBody' = remoteBody /\ written' = written
    BY <1>12 DEF ClearAfterUpload, LeaveUpload
  <2> QED
    BY <1>1, <2>2, <2>3, <2>4, QuietFlow DEF OneFlows
<1> QED
  BY <1>2, <1>3, <1>4, <1>5, <1>6, <1>7, <1>8, <1>9, <1>10, <1>11, <1>12
     DEF UploadStep

(***************************************************************************)
(* Those of markDirty let none flow.                                       *)
(***************************************************************************)
LEMMA CallFlow ==
    ASSUME Inv, NEW d \in Device, NEW c \in Call, written' = written,
           MarkDirty(d, c) \/ StampLastWrite(d, c)
    PROVE  OneFlows(d)
<1>1. /\ ThreadsTypeOK
      /\ files \in [Device -> [Path -> {None} \cup Body]]
      /\ dbPath \in [Device -> Path \cup {None}]
      /\ creds \in [Device -> Account \cup {None}]
      /\ remoteBody \in [Account -> {None} \cup Body]
      /\ client \in [Device -> [Thread -> Account \cup {None}]]
      /\ target \in [Device -> [Thread -> Path \cup {None}]]
      /\ bytes \in [Device -> [Thread -> {None} \cup Body]]
      /\ Main \in Thread
      /\ Call \subseteq Thread
  BY StepTypes DEF Thread
<1> USE DEF dbVars, prefVars, remoteVars, regVars, syncVars
<1>2. CASE MarkDirty(d, c)
  <2>1. /\ pc[d][c] = "mark"
        /\ pc'[d][c] = "stamp"
        /\ \A u \in Thread \ {c} : pc'[d][u] = pc[d][u]
        /\ \A e \in Device \ {d} : pc'[e] = pc[e]
    BY <1>1, <1>2, Moved DEF MarkDirty, At
  <2>2. \A e \in Device \ {d} : Same(e)
    BY <1>1, <1>2, <2>1 DEF MarkDirty, Same
  <2>3. Moves(d, c)
    BY <1>1, <1>2, <2>1 DEF MarkDirty, Moves, Reading, Saving
  <2>4. files' = files /\ remoteBody' = remoteBody /\ written' = written
    BY <1>2 DEF MarkDirty
  <2> QED
    BY <1>1, <2>2, <2>3, <2>4, QuietFlow DEF OneFlows
<1>3. CASE StampLastWrite(d, c)
  <2>1. /\ pc[d][c] = "stamp"
        /\ pc'[d][c] = "enter"
        /\ \A u \in Thread \ {c} : pc'[d][u] = pc[d][u]
        /\ \A e \in Device \ {d} : pc'[e] = pc[e]
    BY <1>1, <1>3, Moved DEF StampLastWrite, At
  <2>2. \A e \in Device \ {d} : Same(e)
    BY <1>1, <1>3, <2>1 DEF StampLastWrite, Same
  <2>3. Moves(d, c)
    BY <1>1, <1>3, <2>1 DEF StampLastWrite, Moves, Reading, Saving
  <2>4. files' = files /\ remoteBody' = remoteBody /\ written' = written
    BY <1>3 DEF StampLastWrite
  <2> QED
    BY <1>1, <2>2, <2>3, <2>4, QuietFlow DEF OneFlows
<1> QED
  BY <1>2, <1>3

(***************************************************************************)
(* Those of syncOnStart and resolveWithRemote.                             *)
(***************************************************************************)
LEMMA StartFlow ==
    ASSUME Inv, SavedIsTorn, NEW d \in Device, StartStep(d), written' = written
    PROVE  OneFlows(d)
<1>1. /\ ThreadsTypeOK
      /\ files \in [Device -> [Path -> {None} \cup Body]]
      /\ dbPath \in [Device -> Path \cup {None}]
      /\ creds \in [Device -> Account \cup {None}]
      /\ remoteBody \in [Account -> {None} \cup Body]
      /\ client \in [Device -> [Thread -> Account \cup {None}]]
      /\ target \in [Device -> [Thread -> Path \cup {None}]]
      /\ bytes \in [Device -> [Thread -> {None} \cup Body]]
      /\ Main \in Thread
      /\ Call \subseteq Thread
  BY StepTypes DEF Thread
<1> USE DEF dbVars, prefVars, remoteVars, regVars, syncVars
<1>2. CASE StartInit(d)
  <2>1. /\ pc[d][Main] = "init"
        /\ pc'[d][Main] = "start"
        /\ \A u \in Thread \ {Main} : pc'[d][u] = pc[d][u]
        /\ \A e \in Device \ {d} : pc'[e] = pc[e]
    BY <1>1, <1>2, Moved DEF StartInit, At
  <2>2. \A e \in Device \ {d} : Same(e)
    BY <1>1, <1>2, <2>1 DEF StartInit, InitDb, OpenAt, Same
  <2>3. Moves(d, Main)
    BY <1>1, <1>2, <2>1 DEF StartInit, InitDb, OpenAt, Moves, Reading, Saving
  <2>4. FileFlow(d)
    BY <1>1, <1>2, OpenedFlow DEF StartInit, InitDb, FileFlow, Path
  <2>5. RemoteFlow(d) /\ written \subseteq written'
    BY <1>2, RemoteKept DEF StartInit
  <2> QED
    BY <1>1, <2>2, <2>3, <2>4, <2>5, MovesFlow DEF OneFlows, Flow
<1>3. CASE StartInitThrows(d)
  <2>1. /\ pc[d][Main] = "init"
        /\ pc'[d][Main] = "login"
        /\ \A u \in Thread \ {Main} : pc'[d][u] = pc[d][u]
        /\ \A e \in Device \ {d} : pc'[e] = pc[e]
    BY <1>1, <1>3, Moved DEF StartInitThrows, At
  <2>2. \A e \in Device \ {d} : Same(e)
    BY <1>1, <1>3, <2>1 DEF StartInitThrows, OpenFails, Same
  <2>3. Moves(d, Main)
    BY <1>1, <1>3, <2>1 DEF StartInitThrows, OpenFails, Moves, Reading, Saving
  <2>4. files' = files /\ remoteBody' = remoteBody /\ written' = written
    BY <1>3 DEF StartInitThrows, OpenFails
  <2> QED
    BY <1>1, <2>2, <2>3, <2>4, QuietFlow DEF OneFlows
<1>4. CASE CheckDirty(d)
  <2>1. /\ pc[d][Main] = "start"
        /\ pc'[d][Main] \in {"lastmod", "close"}
        /\ \A u \in Thread \ {Main} : pc'[d][u] = pc[d][u]
        /\ \A e \in Device \ {d} : pc'[e] = pc[e]
    BY <1>1, <1>4, Moved DEF CheckDirty, At
  <2>2. \A e \in Device \ {d} : Same(e)
    BY <1>1, <1>4, <2>1 DEF CheckDirty, Same
  <2>3. Moves(d, Main)
    BY <1>1, <1>4, <2>1 DEF CheckDirty, Moves, Reading, Saving
  <2>4. files' = files /\ remoteBody' = remoteBody /\ written' = written
    BY <1>4 DEF CheckDirty
  <2> QED
    BY <1>1, <2>2, <2>3, <2>4, QuietFlow DEF OneFlows
<1>5. CASE CompareTimes(d)
  <2>1. /\ pc[d][Main] = "lastmod"
        /\ pc'[d][Main] \in {"conflict", "enter"}
        /\ \A u \in Thread \ {Main} : pc'[d][u] = pc[d][u]
        /\ \A e \in Device \ {d} : pc'[e] = pc[e]
    BY <1>1, <1>5, Moved DEF CompareTimes, At
  <2>2. \A e \in Device \ {d} : Same(e)
    BY <1>1, <1>5, <2>1 DEF CompareTimes, Same
  <2>3. Moves(d, Main)
    BY <1>1, <1>5, <2>1 DEF CompareTimes, Moves, Reading, Saving
  <2>4. files' = files /\ remoteBody' = remoteBody /\ written' = written
    BY <1>5 DEF CompareTimes
  <2> QED
    BY <1>1, <2>2, <2>3, <2>4, QuietFlow DEF OneFlows
<1>6. CASE ResolveWithRemote(d)
  <2>1. /\ pc[d][Main] = "resolve"
        /\ pc'[d][Main] = "close"
        /\ \A u \in Thread \ {Main} : pc'[d][u] = pc[d][u]
        /\ \A e \in Device \ {d} : pc'[e] = pc[e]
    BY <1>1, <1>6, Moved DEF ResolveWithRemote, At
  <2>2. \A e \in Device \ {d} : Same(e)
    BY <1>1, <1>6, <2>1 DEF ResolveWithRemote, Same
  <2>3. Moves(d, Main)
    BY <1>1, <1>6, <2>1 DEF ResolveWithRemote, Moves, Reading, Saving
  <2>4. files' = files /\ remoteBody' = remoteBody /\ written' = written
    BY <1>6 DEF ResolveWithRemote
  <2> QED
    BY <1>1, <2>2, <2>3, <2>4, QuietFlow DEF OneFlows
<1>7. CASE CloseForDownload(d)
  <2>1. /\ pc[d][Main] = "close"
        /\ pc'[d][Main] = "get"
        /\ \A u \in Thread \ {Main} : pc'[d][u] = pc[d][u]
        /\ \A e \in Device \ {d} : pc'[e] = pc[e]
    BY <1>1, <1>7, Moved DEF CloseForDownload, At
  <2>2. \A e \in Device \ {d} : Same(e)
    BY <1>1, <1>7, <2>1 DEF CloseForDownload, Close, Same
  <2>3. Moves(d, Main)
    BY <1>1, <1>7, <2>1 DEF CloseForDownload, Close, Moves, Reading, Saving
  <2>4. files' = files /\ remoteBody' = remoteBody /\ written' = written
    BY <1>7 DEF CloseForDownload, Close
  <2> QED
    BY <1>1, <2>2, <2>3, <2>4, QuietFlow DEF OneFlows
<1>8. CASE ReadRemote(d)
  <2>1. /\ pc[d][Main] = "get"
        /\ pc'[d][Main] = "save"
        /\ \A u \in Thread \ {Main} : pc'[d][u] = pc[d][u]
        /\ \A e \in Device \ {d} : pc'[e] = pc[e]
    BY <1>1, <1>8, Moved DEF ReadRemote, At
  <2>2. \A e \in Device \ {d} : Same(e)
    BY <1>1, <1>8, <2>1 DEF ReadRemote, Same
  <2>3. /\ creds[d] \in Account /\ creds' = creds
        /\ bytes'[d][Main] = remoteBody[creds[d]]
        /\ \A u \in Thread \ {Main} : bytes'[d][u] = bytes[d][u]
        /\ client' = client /\ target' = target /\ files' = files /\ remoteBody' = remoteBody
    BY <1>1, <1>8 DEF ReadRemote
  <2>4. \A u \in Thread : BytesFlow(d, u) /\ ReadFlow(d, u) /\ ClientFlow(d, u)
    BY <2>1, <2>3 DEF BytesFlow, ReadFlow, ClientFlow, Reading
  <2>5. DownloadFlow(d) /\ SavingFlow(d)
    BY <2>1, <2>3 DEF DownloadFlow, SavingFlow, Saving
  <2> QED
    BY <2>2, <2>3, <2>4, <2>5, FilesKept, RemoteKept DEF OneFlows, Flow
<1>9. CASE SkipDownload(d)
  <2>1. /\ pc[d][Main] \in {"get", "save"}
        /\ pc'[d][Main] = "reopen"
        /\ \A u \in Thread \ {Main} : pc'[d][u] = pc[d][u]
        /\ \A e \in Device \ {d} : pc'[e] = pc[e]
    BY <1>1, <1>9, Moved DEF SkipDownload, At
  <2>2. \A e \in Device \ {d} : Same(e)
    BY <1>1, <1>9, <2>1 DEF SkipDownload, Same
  <2>3. Moves(d, Main)
    BY <1>1, <1>9, <2>1 DEF SkipDownload, Moves, Reading, Saving
  <2>4. files' = files /\ remoteBody' = remoteBody /\ written' = written
    BY <1>9 DEF SkipDownload
  <2> QED
    BY <1>1, <2>2, <2>3, <2>4, QuietFlow DEF OneFlows
<1>10. CASE BeginSave(d)
  <2>1. /\ pc[d][Main] = "save"
        /\ pc'[d][Main] = "saving"
        /\ \A u \in Thread \ {Main} : pc'[d][u] = pc[d][u]
        /\ \A e \in Device \ {d} : pc'[e] = pc[e]
    BY <1>1, <1>10, Moved DEF BeginSave, At
  <2>2. \A e \in Device \ {d} : Same(e)
    BY <1>1, <1>10, <2>1 DEF BeginSave, Same
  <2>3. /\ dbPath[d] \in Path
        /\ files'[d][dbPath[d]] = Torn
        /\ \A p \in Path \ {dbPath[d]} : files'[d][p] = files[d][p]
        /\ UNCHANGED <<dbPath, creds, client, target, bytes, remoteBody>>
    BY <1>1, <1>10, <2>1 DEF BeginSave, Inv, Connected, ClosedPC, DownloadPC
  <2>4. FileFlow(d)
    <3>1. files'[d][Default] # files[d][Default] => Replaces(d)
      BY <2>1 DEF Replaces
    <3> QED
      BY <2>3, <3>1 DEF FileFlow, Replaced
  <2>5. \A u \in Thread : BytesFlow(d, u) /\ ReadFlow(d, u) /\ ClientFlow(d, u)
    BY <2>1, <2>3 DEF BytesFlow, ReadFlow, ClientFlow, Reading
  <2>6. DownloadFlow(d) /\ SavingFlow(d)
    BY <2>1, <2>3 DEF DownloadFlow, SavingFlow, Saving
  <2> QED
    BY <2>2, <2>3, <2>4, <2>5, <2>6, RemoteKept DEF OneFlows, Flow
<1>11. CASE EndSave(d)
  <2>1. /\ pc[d][Main] = "saving"
        /\ pc'[d][Main] = "reopen"
        /\ \A u \in Thread \ {Main} : pc'[d][u] = pc[d][u]
        /\ \A e \in Device \ {d} : pc'[e] = pc[e]
    BY <1>1, <1>11, Moved DEF EndSave, At
  <2>2. \A e \in Device \ {d} : Same(e)
    BY <1>1, <1>11, <2>1 DEF EndSave, Same
  <2>3. Moves(d, Main)
    BY <1>1, <1>11, <2>1 DEF EndSave, Moves, Reading, Saving
  <2>4. FileFlow(d)
    <3>1. /\ dbPath[d] \in Path
          /\ files[d][dbPath[d]] = Torn
          /\ files'[d][dbPath[d]] \in {bytes[d][Main], Torn}
          /\ \A p \in Path \ {dbPath[d]} : files'[d][p] = files[d][p]
      BY <1>1, <1>11, <2>1 DEF EndSave, Inv, Connected, ClosedPC, DownloadPC,
         SavedIsTorn
    <3> QED
      BY <2>1, <3>1 DEF FileFlow, Replaced
  <2>5. RemoteFlow(d) /\ written \subseteq written'
    BY <1>11, RemoteKept DEF EndSave
  <2> QED
    BY <1>1, <2>2, <2>3, <2>4, <2>5, MovesFlow DEF OneFlows, Flow
<1>12. CASE Reopen(d)
  <2>1. /\ pc[d][Main] = "reopen"
        /\ pc'[d][Main] = "dash"
        /\ \A u \in Thread \ {Main} : pc'[d][u] = pc[d][u]
        /\ \A e \in Device \ {d} : pc'[e] = pc[e]
    BY <1>1, <1>12, Moved DEF Reopen, At
  <2>2. \A e \in Device \ {d} : Same(e)
    BY <1>1, <1>12, <2>1 DEF Reopen, InitDb, OpenAt, Same
  <2>3. Moves(d, Main)
    BY <1>1, <1>12, <2>1 DEF Reopen, InitDb, OpenAt, Moves, Reading, Saving
  <2>4. FileFlow(d)
    BY <1>1, <1>12, OpenedFlow DEF Reopen, InitDb, FileFlow, Path
  <2>5. RemoteFlow(d) /\ written \subseteq written'
    BY <1>12, RemoteKept DEF Reopen
  <2> QED
    BY <1>1, <2>2, <2>3, <2>4, <2>5, MovesFlow DEF OneFlows, Flow
<1>13. CASE ReopenThrows(d)
  <2>1. /\ pc[d][Main] = "reopen"
        /\ pc'[d][Main] \in {"loading", "login"}
        /\ \A u \in Thread \ {Main} : pc'[d][u] = pc[d][u]
        /\ \A e \in Device \ {d} : pc'[e] = pc[e]
    BY <1>1, <1>13, Moved DEF ReopenThrows, At
  <2>2. \A e \in Device \ {d} : Same(e)
    BY <1>1, <1>13, <2>1 DEF ReopenThrows, OpenFails, Same
  <2>3. Moves(d, Main)
    BY <1>1, <1>13, <2>1 DEF ReopenThrows, OpenFails, Moves, Reading, Saving
  <2>4. files' = files /\ remoteBody' = remoteBody /\ written' = written
    BY <1>13 DEF ReopenThrows, OpenFails
  <2> QED
    BY <1>1, <2>2, <2>3, <2>4, QuietFlow DEF OneFlows
<1> QED
  BY <1>2, <1>3, <1>4, <1>5, <1>6, <1>7, <1>8, <1>9, <1>10, <1>11, <1>12, <1>13
     DEF StartStep

(***************************************************************************)
(* Those of the splash page and of logging in.                             *)
(***************************************************************************)
LEMMA PageFlow ==
    ASSUME Inv, NEW d \in Device, PageStep(d)
    PROVE  OneFlows(d)
<1>1. /\ ThreadsTypeOK
      /\ files \in [Device -> [Path -> {None} \cup Body]]
      /\ dbPath \in [Device -> Path \cup {None}]
      /\ creds \in [Device -> Account \cup {None}]
      /\ remoteBody \in [Account -> {None} \cup Body]
      /\ client \in [Device -> [Thread -> Account \cup {None}]]
      /\ target \in [Device -> [Thread -> Path \cup {None}]]
      /\ bytes \in [Device -> [Thread -> {None} \cup Body]]
      /\ Main \in Thread
      /\ Call \subseteq Thread
  BY StepTypes DEF Thread
<1> USE DEF dbVars, prefVars, remoteVars, regVars, syncVars
<1>2. CASE SplashLocal(d)
  <2>1. /\ pc[d][Main] = "splash"
        /\ pc'[d][Main] \in {"dash", "login"}
        /\ \A u \in Thread \ {Main} : pc'[d][u] = pc[d][u]
        /\ \A e \in Device \ {d} : pc'[e] = pc[e]
    BY <1>1, <1>2, Moved DEF SplashLocal, At
  <2>2. \A e \in Device \ {d} : Same(e)
    BY <1>1, <1>2, <2>1 DEF SplashLocal, OpenAt, OpenFails, Same
  <2>3. Moves(d, Main)
    BY <1>1, <1>2, <2>1 DEF SplashLocal, OpenAt, OpenFails, Moves, Reading, Saving
  <2>4. FileFlow(d)
    <3>1. CASE files' = files
      BY <3>1, FilesKept
    <3>2. CASE OpenAt(d, localPath[d])
      BY <1>1, <1>2, <3>2, OpenedFlow DEF FileFlow, SplashLocal, Inv, TypeOK
    <3> QED
      BY <1>2, <3>1, <3>2 DEF SplashLocal, OpenFails
  <2>5. RemoteFlow(d) /\ written \subseteq written'
    BY <1>2, RemoteKept DEF SplashLocal
  <2> QED
    BY <1>1, <2>2, <2>3, <2>4, <2>5, MovesFlow DEF OneFlows, Flow
<1>3. CASE SplashCloud(d)
  <2>1. /\ pc[d][Main] = "splash"
        /\ pc'[d][Main] \in {"init", "login"}
        /\ \A u \in Thread \ {Main} : pc'[d][u] = pc[d][u]
        /\ \A e \in Device \ {d} : pc'[e] = pc[e]
    BY <1>1, <1>3, Moved DEF SplashCloud, At
  <2>2. \A e \in Device \ {d} : Same(e)
    BY <1>1, <1>3, <2>1 DEF SplashCloud, Same
  <2>3. Moves(d, Main)
    BY <1>1, <1>3, <2>1 DEF SplashCloud, Moves, Reading, Saving
  <2>4. files' = files /\ remoteBody' = remoteBody /\ written' = written
    BY <1>3 DEF SplashCloud
  <2> QED
    BY <1>1, <2>2, <2>3, <2>4, QuietFlow DEF OneFlows
<1>4. CASE LoginClearDirty(d)
  <2>1. /\ pc[d][Main] = "loginClear"
        /\ pc'[d][Main] = "init"
        /\ \A u \in Thread \ {Main} : pc'[d][u] = pc[d][u]
        /\ \A e \in Device \ {d} : pc'[e] = pc[e]
    BY <1>1, <1>4, Moved DEF LoginClearDirty, At
  <2>2. \A e \in Device \ {d} : Same(e)
    BY <1>1, <1>4, <2>1 DEF LoginClearDirty, Same
  <2>3. Moves(d, Main)
    BY <1>1, <1>4, <2>1 DEF LoginClearDirty, Moves, Reading, Saving
  <2>4. files' = files /\ remoteBody' = remoteBody /\ written' = written
    BY <1>4 DEF LoginClearDirty
  <2> QED
    BY <1>1, <2>2, <2>3, <2>4, QuietFlow DEF OneFlows
<1> QED
  BY <1>2, <1>3, <1>4 DEF PageStep

(***************************************************************************)
(* Those of the user, the operating system and the commits.                *)
(***************************************************************************)
LEMMA UserFlow ==
    ASSUME Inv, NEW d \in Device, UserStep(d)
    PROVE  OneFlows(d)
<1>1. /\ ThreadsTypeOK
      /\ files \in [Device -> [Path -> {None} \cup Body]]
      /\ dbPath \in [Device -> Path \cup {None}]
      /\ creds \in [Device -> Account \cup {None}]
      /\ remoteBody \in [Account -> {None} \cup Body]
      /\ client \in [Device -> [Thread -> Account \cup {None}]]
      /\ target \in [Device -> [Thread -> Path \cup {None}]]
      /\ bytes \in [Device -> [Thread -> {None} \cup Body]]
      /\ Main \in Thread
      /\ Call \subseteq Thread
  BY StepTypes DEF Thread
<1> USE DEF dbVars, prefVars, remoteVars, regVars, syncVars
<1>2. CASE Launch(d)
  <2>1. /\ pc[d][Main] = "off"
        /\ pc'[d][Main] = "splash"
        /\ \A u \in Thread \ {Main} : pc'[d][u] = pc[d][u]
        /\ \A e \in Device \ {d} : pc'[e] = pc[e]
    BY <1>1, <1>2, Moved DEF Launch, At
  <2>2. \A e \in Device \ {d} : Same(e)
    BY <1>1, <1>2, <2>1 DEF Launch, Same
  <2>3. Moves(d, Main)
    BY <1>1, <1>2, <2>1 DEF Launch, Moves, Reading, Saving
  <2>4. files' = files /\ remoteBody' = remoteBody /\ written' = written
    BY <1>2 DEF Launch
  <2> QED
    BY <1>1, <2>2, <2>3, <2>4, QuietFlow DEF OneFlows
<1>3. CASE AnswerConflict(d)
  <2>1. /\ pc[d][Main] = "conflict"
        /\ pc'[d][Main] \in {"enter", "resolve", "login"}
        /\ \A u \in Thread \ {Main} : pc'[d][u] = pc[d][u]
        /\ \A e \in Device \ {d} : pc'[e] = pc[e]
    BY <1>1, <1>3, Moved DEF AnswerConflict, At
  <2>2. \A e \in Device \ {d} : Same(e)
    BY <1>1, <1>3, <2>1 DEF AnswerConflict, Same
  <2>3. Moves(d, Main)
    BY <1>1, <1>3, <2>1 DEF AnswerConflict, Moves, Reading, Saving
  <2>4. files' = files /\ remoteBody' = remoteBody /\ written' = written
    BY <1>3 DEF AnswerConflict
  <2> QED
    BY <1>1, <2>2, <2>3, <2>4, QuietFlow DEF OneFlows
<1>4. ASSUME NEW a \in Account, Login(d, a)
      PROVE  OneFlows(d)
  <2>1. /\ pc[d][Main] = "login"
        /\ pc'[d][Main] = "loginClear"
        /\ \A u \in Thread \ {Main} : pc'[d][u] = pc[d][u]
        /\ \A e \in Device \ {d} : pc'[e] = pc[e]
    BY <1>1, <1>4, Moved DEF Login, At
  <2>2. \A e \in Device \ {d} : Same(e)
    BY <1>1, <1>4, <2>1 DEF Login, Same
  <2>3. Moves(d, Main)
    BY <1>1, <1>4, <2>1 DEF Login, Moves, Reading, Saving
  <2>4. files' = files /\ remoteBody' = remoteBody /\ written' = written
    BY <1>4 DEF Login
  <2> QED
    BY <1>1, <2>2, <2>3, <2>4, QuietFlow DEF OneFlows
<1>5. CASE CreateLocalDatabase(d)
  <2>1. /\ pc[d][Main] = "login"
        /\ pc'[d][Main] \in {"dash", "login"}
        /\ \A u \in Thread \ {Main} : pc'[d][u] = pc[d][u]
        /\ \A e \in Device \ {d} : pc'[e] = pc[e]
    BY <1>1, <1>5, Moved DEF CreateLocalDatabase, At
  <2>2. \A e \in Device \ {d} : Same(e)
    BY <1>1, <1>5, <2>1 DEF CreateLocalDatabase, OpenAt, OpenFails, Same
  <2>3. Moves(d, Main)
    BY <1>1, <1>5, <2>1 DEF CreateLocalDatabase, OpenAt, OpenFails, Moves,
       Reading, Saving
  <2>4. FileFlow(d)
    <3>1. CASE files' = files
      BY <3>1, FilesKept
    <3>2. ASSUME NEW p \in Path, OpenAt(d, p) PROVE FileFlow(d)
      BY <1>1, <3>2, OpenedFlow DEF FileFlow
    <3> QED
      BY <1>5, <3>1, <3>2 DEF CreateLocalDatabase, OpenFails, Path
  <2>5. RemoteFlow(d) /\ written \subseteq written'
    BY <1>5, RemoteKept DEF CreateLocalDatabase
  <2> QED
    BY <1>1, <2>2, <2>3, <2>4, <2>5, MovesFlow DEF OneFlows, Flow
<1>6. CASE OpenLocalDatabase(d)
  <2>1. /\ pc[d][Main] = "login"
        /\ pc'[d][Main] \in {"dash", "login"}
        /\ \A u \in Thread \ {Main} : pc'[d][u] = pc[d][u]
        /\ \A e \in Device \ {d} : pc'[e] = pc[e]
    BY <1>1, <1>6, Moved DEF OpenLocalDatabase, At
  <2>2. \A e \in Device \ {d} : Same(e)
    BY <1>1, <1>6, <2>1 DEF OpenLocalDatabase, OpenAt, OpenFails, OpenCopyOf,
       OpenCopyFails, Same
  <2>3. Moves(d, Main)
    BY <1>1, <1>6, <2>1 DEF OpenLocalDatabase, OpenAt, OpenFails, OpenCopyOf,
       OpenCopyFails, Moves, Reading, Saving
  <2>4. FileFlow(d)
    <3>1. CASE files' = files
      BY <3>1, FilesKept
    <3>2. CASE OpenAt(d, Picked)
      BY <1>1, <3>2, OpenedFlow DEF FileFlow, Path
    <3>3. CASE OpenCopyOf(d, Picked) \/ OpenCopyFails(d, Picked)
      <4>1. /\ files'[d][Default] \in {files[d][Default], files[d][Picked], Torn, {}}
            /\ files'[d][Picked] = files[d][Picked]
        <5>1. CASE OpenCopyOf(d, Picked)
          BY <1>1, <5>1, DatabaseAssumption DEF OpenCopyOf, Opened, Path
        <5>2. CASE OpenCopyFails(d, Picked)
          BY <1>1, <5>2, DatabaseAssumption DEF OpenCopyFails, Path
        <5> QED
          BY <3>3, <5>1, <5>2
      <4>2. files'[d][Default] # files[d][Default] => Replaces(d)
        BY <1>6, <2>1 DEF Replaces, OpenLocalDatabase
      <4> QED
        BY <2>1, <4>1, <4>2 DEF FileFlow, Replaced, Path
    <3> QED
      BY <1>6, <3>1, <3>2, <3>3 DEF OpenLocalDatabase, OpenFails
  <2>5. RemoteFlow(d) /\ written \subseteq written'
    BY <1>6, RemoteKept DEF OpenLocalDatabase
  <2> QED
    BY <1>1, <2>2, <2>3, <2>4, <2>5, MovesFlow DEF OneFlows, Flow
<1>7. ASSUME NEW w \in Write, NEW c \in Call, WriteAndSync(d, w, c)
      PROVE  OneFlows(d)
  <2>1. /\ pc[d][Main] = "dash" /\ c \in Thread
        /\ pc'[d][c] = "mark"
        /\ \A u \in Thread \ {c} : pc'[d][u] = pc[d][u]
        /\ \A e \in Device \ {d} : pc'[e] = pc[e]
    BY <1>1, <1>7, Moved DEF WriteAndSync, At, Thread
  <2>2. \A e \in Device \ {d} : Same(e)
    BY <1>1, <1>7, <2>1 DEF WriteAndSync, Commit, Same
  <2>3. Moves(d, c)
    <3>1. pc'[d][Main] = "dash"
      BY <1>1, <2>1, SyncAssumption
    <3> QED
      BY <1>1, <1>7, <2>1, <3>1 DEF WriteAndSync, Moves, Reading, Saving
  <2>4. FileFlow(d)
    BY <1>1, <1>7, CommitFlow DEF WriteAndSync, FileFlow
  <2>5. RemoteFlow(d) /\ written \subseteq written'
    BY <1>7, RemoteKept DEF WriteAndSync
  <2> QED
    BY <2>1, <2>2, <2>3, <2>4, <2>5, MovesFlow DEF OneFlows, Flow
<1>8. ASSUME NEW w \in Write, WriteOnly(d, w)
      PROVE  OneFlows(d)
  <2>1. pc[d][Main] = "dash" /\ pc' = pc
    BY <1>8 DEF WriteOnly, At
  <2>2. \A e \in Device \ {d} : Same(e)
    BY <1>1, <1>8, <2>1 DEF WriteOnly, Commit, Same
  <2>3. Moves(d, Main)
    BY <1>1, <1>8, <2>1 DEF WriteOnly, Moves, Reading, Saving
  <2>4. FileFlow(d)
    BY <1>1, <1>8, CommitFlow DEF WriteOnly, FileFlow
  <2>5. RemoteFlow(d) /\ written \subseteq written'
    BY <1>8, RemoteKept DEF WriteOnly
  <2> QED
    BY <1>1, <2>2, <2>3, <2>4, <2>5, MovesFlow DEF OneFlows, Flow
<1>9. CASE SaveDatabaseAs(d)
  <2>1. pc[d][Main] = "dash" /\ pc' = pc
    BY <1>9 DEF SaveDatabaseAs, At
  <2>2. \A e \in Device \ {d} : Same(e)
    BY <1>1, <1>9, <2>1 DEF SaveDatabaseAs, ExportTo, Same
  <2>3. Moves(d, Main)
    BY <1>1, <1>9, <2>1 DEF SaveDatabaseAs, Moves, Reading, Saving
  <2>4. FileFlow(d)
    <3>1. /\ dbPath[d] \in Path
          /\ files'[d][Picked] = files[d][dbPath[d]]
          /\ files'[d][Default] = files[d][Default]
      BY <1>1, <1>9, <2>1 DEF SaveDatabaseAs, ExportTo, Inv, Connected, OpenPC,
         Path
    <3> QED
      BY <3>1 DEF FileFlow, Replaced, Path
  <2>5. RemoteFlow(d) /\ written \subseteq written'
    BY <1>9, RemoteKept DEF SaveDatabaseAs
  <2> QED
    BY <1>1, <2>2, <2>3, <2>4, <2>5, MovesFlow DEF OneFlows, Flow
<1>10. CASE SignOut(d)
  <2>1. /\ pc[d][Main] = "dash"
        /\ pc'[d][Main] = "login"
        /\ \A u \in Thread \ {Main} : pc'[d][u] = pc[d][u]
        /\ \A e \in Device \ {d} : pc'[e] = pc[e]
    BY <1>1, <1>10, Moved DEF SignOut, At
  <2>2. \A e \in Device \ {d} : Same(e)
    BY <1>1, <1>10, <2>1 DEF SignOut, Same
  <2>3. Moves(d, Main)
    BY <1>1, <1>10, <2>1 DEF SignOut, Moves, Reading, Saving
  <2>4. files' = files /\ remoteBody' = remoteBody /\ written' = written
    BY <1>10 DEF SignOut
  <2> QED
    BY <1>1, <2>2, <2>3, <2>4, QuietFlow DEF OneFlows
<1>11. ASSUME NEW c \in Call, AppBackground(d, c)
      PROVE  OneFlows(d)
  <2>1. /\ pc[d][c] = "idle"
        /\ pc'[d][c] = "mark"
        /\ \A u \in Thread \ {c} : pc'[d][u] = pc[d][u]
        /\ \A e \in Device \ {d} : pc'[e] = pc[e]
    BY <1>1, <1>11, Moved DEF AppBackground, At
  <2>2. \A e \in Device \ {d} : Same(e)
    BY <1>1, <1>11, <2>1 DEF AppBackground, Same
  <2>3. Moves(d, c)
    BY <1>1, <1>11, <2>1 DEF AppBackground, Moves, Reading, Saving
  <2>4. files' = files /\ remoteBody' = remoteBody /\ written' = written
    BY <1>11 DEF AppBackground
  <2> QED
    BY <1>1, <2>2, <2>3, <2>4, QuietFlow DEF OneFlows
<1>12. CASE Kill(d)
  <2>1. /\ \A t \in Thread : pc'[d][t] \in {"off", "idle"} /\ bytes'[d][t] = None
        /\ \A e \in Device \ {d} : pc'[e] = pc[e]
    BY <1>1, <1>12 DEF Kill, ThreadsTypeOK
  <2>2. \A e \in Device \ {d} : Same(e)
    BY <1>1, <1>12, <2>1 DEF Kill, Same
  <2>3. files' = files /\ remoteBody' = remoteBody /\ written' = written
    BY <1>12 DEF Kill
  <2>4. \A t \in Thread : BytesFlow(d, t) /\ ReadFlow(d, t) /\ ClientFlow(d, t)
    BY <2>1 DEF BytesFlow, ReadFlow, ClientFlow, Reading
  <2>5. DownloadFlow(d) /\ SavingFlow(d)
    BY <1>1, <1>12, <2>1 DEF Kill, DownloadFlow, SavingFlow, Saving
  <2> QED
    BY <2>2, <2>3, <2>4, <2>5, FilesKept, RemoteKept DEF OneFlows, Flow
<1> QED
  BY <1>2, <1>3, <1>4, <1>5, <1>6, <1>7, <1>8, <1>9, <1>10, <1>11, <1>12
     DEF UserStep

-----------------------------------------------------------------------------
(* What the invariants need of Changes and of the history variables.       *)

(* A database holds its changes; a missing or torn file holds none.        *)
LEMMA ChangesOf ==
    /\ \A body \in SUBSET Write : Changes(body) = body
    /\ Changes(None) = {} /\ Changes(Torn) = {} /\ Changes({}) = {}
    /\ {} # Torn
<1>1. \A body \in SUBSET Write : body # None /\ body # Torn
  BY DatabaseAssumption DEF Body
<1> QED
  BY <1>1 DEF Changes

(* What was clean stays clean: origins are fixed and crossings remembered. *)
LEMMA CleanStable ==
    ASSUME AccountStep, written \subseteq Write, NEW a, NEW body, Clean(a, body),
           Changes(body) \subseteq written
    PROVE  StillClean(a, body)
<1>1. crossed \subseteq crossed'
  BY DEF AccountStep
<1>2. \A w \in written : origin'[w] = origin[w]
  BY DEF AccountStep, Makes
<1> QED
  BY <1>1, <1>2 DEF Clean, StillClean

(* Every step is one of some device, or leaves all bodies where they are.  *)
LEMMA NextFlow ==
    ASSUME Inv, SavedIsTorn, Next
    PROVE  \/ \E d \in Device : OneFlows(d)
           \/ /\ Device = {}
              /\ UNCHANGED <<remoteBody, written>>
<1>1. CASE \E d \in Device : UserStep(d) \/ PageStep(d) \/ ServiceStep(d)
  <2>1. PICK d \in Device : UserStep(d) \/ PageStep(d) \/ ServiceStep(d)
    BY <1>1
  <2>2. CASE UserStep(d)
    BY <2>2, UserFlow
  <2>3. CASE PageStep(d)
    BY <2>3, PageFlow
  <2>4. CASE ServiceStep(d)
    BY <2>4, CallFlow, UploadFlow, StartFlow DEF ServiceStep
  <2> QED
    BY <2>1, <2>2, <2>3, <2>4
<1>2. CASE Tick /\ UNCHANGED <<localPath, written>>
  <2>1. UNCHANGED <<files, dbPath, creds, pc, client, target, bytes, remoteBody, written>>
    BY <1>2 DEF Tick, dbVars, prefVars, remoteVars, regVars
  <2>2. ASSUME NEW d \in Device PROVE OneFlows(d)
    <3>1. \A t \in Thread : BytesFlow(d, t) /\ ReadFlow(d, t) /\ ClientFlow(d, t)
      BY <2>1 DEF BytesFlow, ReadFlow, ClientFlow
    <3>2. DownloadFlow(d) /\ SavingFlow(d)
      BY <2>1 DEF DownloadFlow, SavingFlow
    <3>3. \A e \in Device \ {d} : Same(e)
      BY <2>1 DEF Same
    <3> QED
      BY <2>1, <3>1, <3>2, <3>3, FilesKept, RemoteKept DEF OneFlows, Flow
  <2> QED
    BY <2>1, <2>2
<1> QED
  BY <1>1, <1>2 DEF Next

-----------------------------------------------------------------------------
(* Each invariant is kept by a step in which only d's bodies flow.         *)

(* No step brings a change about that nobody has made.                     *)
LEMMA WrittenKept ==
    ASSUME AInv, NEW d \in Device, OneFlows(d)
    PROVE  AllWritten'
<1> USE ChangesOf
<1>1. AllWritten /\ written \subseteq written'
  BY DEF AInv, OneFlows, Flow
<1>2. \A body : Changes(body)' = Changes(body)
  BY DEF Changes
<1>3. ASSUME NEW a \in Account PROVE Changes(remoteBody'[a]) \subseteq written'
  BY <1>1 DEF AllWritten, OneFlows, Flow, RemoteFlow
<1>4. ASSUME NEW e \in Device, NEW p \in Path
      PROVE  Changes(files'[e][p]) \subseteq written'
  <2>1. CASE e # d
    BY <1>1, <2>1 DEF AllWritten, OneFlows, Same
  <2>2. CASE e = d
    <3>1. CASE Committed(d, p)
      <4>1. PICK w \in Write \ written : /\ written' = written \cup {w}
                                         /\ files[d][p] \in SUBSET Write
                                         /\ files'[d][p] = files[d][p] \cup {w}
        BY <3>1 DEF Committed
      <4> QED
        BY <1>1, <2>2, <4>1 DEF AllWritten
    <3>2. CASE Replaced(d, p)
      <4>1. Main \in Thread
        BY DEF Thread
      <4> QED
        BY <1>1, <2>2, <3>2, <4>1 DEF AllWritten, Replaced
    <3>3. CASE files'[d][p] \in {files[d][p], {}}
      BY <1>1, <2>2, <3>3 DEF AllWritten
    <3> QED
      BY <3>1, <3>2, <3>3 DEF OneFlows, Flow, FileFlow
  <2> QED
    BY <2>1, <2>2
<1>5. ASSUME NEW e \in Device, NEW t \in Thread
      PROVE  Changes(bytes'[e][t]) \subseteq written'
  <2>1. CASE e # d
    BY <1>1, <2>1 DEF AllWritten, OneFlows, Same
  <2>2. CASE e = d
    BY <1>1, <2>2 DEF AllWritten, OneFlows, Flow, BytesFlow
  <2> QED
    BY <2>1, <2>2
<1> QED
  BY <1>2, <1>3, <1>4, <1>5 DEF AllWritten

(* The file of a download under way stays torn.                            *)
LEMMA TornKept ==
    ASSUME AInv, NEW d \in Device, OneFlows(d)
    PROVE  SavedIsTorn'
BY DEF AInv, SavedIsTorn, OneFlows, Flow, SavingFlow, Same

(* The account of a change that d commits is the one d is signed in to.    *)
LEMMA CommitOrigin ==
    ASSUME AInv, AccountStep, NEW d \in Device, OneFlows(d), NEW p \in Path,
           NEW w \in Write \ written, written' = written \cup {w},
           files[d][p] \in SUBSET Write, files'[d][p] = files[d][p] \cup {w}
    PROVE  origin'[w] = creds[d]
<1>1. w \notin files[d][p]
  BY ChangesOf DEF AInv, AllWritten
<1>2. Makes(d, w)
  BY <1>1 DEF Makes
<1>3. \A e \in Device : Makes(e, w) => e = d
  BY DEF Makes, OneFlows, Same
<1>4. (CHOOSE e \in Device : Makes(e, w)) = d
  BY <1>2, <1>3
<1> QED
  BY <1>2, <1>4 DEF AccountStep

(* What thread t of d holds to send, it may send: it was clean before, or  *)
(* it has just been read from the account's own file, or it has crossed.   *)
LEMMA ReadClean ==
    ASSUME AInv, AccountStep, NEW d \in Device, OneFlows(d), NEW t \in Thread,
           pc'[d][t] \in Reading
    PROVE  StillClean(client'[d][t], bytes'[d][t])
<1>1. /\ AllWritten /\ CleanOn(d) /\ ReadFlow(d, t) /\ written \subseteq Write
      /\ target[d][t] \in Path \cup {None}
  BY DEF AInv, Separate, OneFlows, Flow, Inv, TypeOK, SyncTypeOK
<1>2. client'[d][t] = client[d][t] /\ target'[d][t] = target[d][t]
  BY <1>1 DEF ReadFlow
<1>3. CASE pc'[d][t] = pc[d][t] /\ bytes'[d][t] = bytes[d][t]
  <2>1. Clean(client[d][t], bytes[d][t]) /\ Changes(bytes[d][t]) \subseteq written
    BY <1>1, <1>3 DEF CleanOn, AllWritten
  <2>2. StillClean(client[d][t], bytes[d][t])
    BY <1>1, <2>1, CleanStable
  <2> QED
    BY <1>2, <1>3, <2>2
<1>4. CASE Reads(d, t) /\ (home[d] # client[d][t] \/ target[d][t] # Default)
  <2>1. Misdirected(d, t) \subseteq crossed'
    BY DEF AccountStep
  <2>2. \A w \in Changes(bytes'[d][t]) : <<client[d][t], w>> \in crossed'
    BY <1>4, <2>1 DEF Misdirected
  <2> QED
    BY <1>2, <2>2 DEF StillClean, Changes
<1>5. CASE /\ pc[d][t] \in {"read", "reading"}
           /\ home[d] = client[d][t] /\ target[d][t] = Default
           /\ \/ bytes'[d][t] = files[d][target[d][t]]
              \/ pc[d][t] = "reading" /\ bytes'[d][t] \in {bytes[d][t], Torn}
  <2>1. client[d][t] # None
    BY <1>1, <1>5 DEF CleanOn, Reading
  <2>2. Clean(home[d], files[d][Default]) /\ Changes(files[d][Default]) \subseteq written
    BY <1>1, <1>5, <2>1 DEF CleanOn, AllWritten, Path
  <2>3. CASE bytes'[d][t] = files[d][Default]
    <3>1. StillClean(home[d], files[d][Default])
      BY <1>1, <2>2, CleanStable
    <3> QED
      BY <1>2, <1>5, <2>3, <3>1
  <2>4. CASE pc[d][t] = "reading" /\ bytes'[d][t] = bytes[d][t]
    <3>1. Clean(client[d][t], bytes[d][t]) /\ Changes(bytes[d][t]) \subseteq written
      BY <1>1, <2>4 DEF CleanOn, AllWritten, Reading
    <3>2. StillClean(client[d][t], bytes[d][t])
      BY <1>1, <3>1, CleanStable
    <3> QED
      BY <1>2, <2>4, <3>2
  <2>5. CASE bytes'[d][t] = Torn
    BY <2>5 DEF StillClean, Changes
  <2> QED
    BY <1>5, <2>3, <2>4, <2>5
<1> QED
  BY <1>1, <1>3, <1>4, <1>5 DEF ReadFlow, Reads, Reading

(* The file that is known to be an account's stays clean.                  *)
LEMMA HomeClean ==
    ASSUME AInv, AccountStep, NEW d \in Device, OneFlows(d), home'[d] # None
    PROVE  home'[d] = creds'[d] /\ StillClean(home'[d], files'[d][Default])
<1>1. /\ AllWritten /\ CleanOn(d) /\ FileFlow(d) /\ written \subseteq Write
      /\ Main \in Thread /\ Default \in Path
  BY DEF AInv, Separate, OneFlows, Flow, Inv, TypeOK, Thread, Path
<1>2. /\ pc'[d][Main] # "login" /\ creds'[d] = creds[d]
      /\ home'[d] = IF Downloads(d) THEN creds[d] ELSE home[d]
  <2>1. home'[d] = CASE pc'[d][Main] = "login" \/ creds'[d] # creds[d] -> None
                     [] Downloads(d) -> creds[d]
                     [] OTHER -> home[d]
    BY DEF AccountStep
  <2>2. Downloads(d) => pc'[d][Main] # "login" /\ creds'[d] = creds[d]
    BY DEF Downloads, OneFlows, Flow, DownloadFlow
  <2>3. ~(pc'[d][Main] = "login" \/ creds'[d] # creds[d])
    BY <2>1, <2>2
  <2> QED
    BY <2>1, <2>3
<1>3. home'[d] = creds[d]
  BY <1>1, <1>2 DEF CleanOn
<1>4. ASSUME NEW body, files'[d][Default] = body, Clean(creds[d], body),
             Changes(body) \subseteq written
      PROVE  StillClean(home'[d], files'[d][Default])
  <2>1. StillClean(creds[d], body)
    BY <1>1, <1>4, CleanStable
  <2> QED
    BY <1>3, <1>4, <2>1
<1>5. CASE Downloads(d)
  <2>1. /\ files'[d][Default] = bytes[d][Main] /\ Clean(creds[d], bytes[d][Main])
        /\ Changes(bytes[d][Main]) \subseteq written
    BY <1>1, <1>5 DEF Downloads, CleanOn, Saving, AllWritten
  <2> QED
    BY <1>2, <1>3, <1>4, <2>1
<1>6. CASE ~Downloads(d)
  <2>1. /\ home[d] # None /\ home[d] = creds[d] /\ Clean(creds[d], files[d][Default])
        /\ Changes(files[d][Default]) \subseteq written
    BY <1>1, <1>2, <1>6 DEF CleanOn, AllWritten
  <2>2. CASE files'[d][Default] = files[d][Default]
    BY <1>2, <1>3, <1>4, <2>1, <2>2
  <2>3. CASE files'[d][Default] \in {Torn, {}}
    BY <1>2, <1>3, <2>3, ChangesOf DEF StillClean
  <2>4. CASE Replaced(d, Default)
    <3>1. pc[d][Main] # "login"
      BY <1>1, <2>1 DEF CleanOn
    <3>2. files'[d][Default] = Torn
      BY <1>6, <2>4, <3>1 DEF Replaced, Downloads
    <3> QED
      BY <2>3, <3>2
  <2>5. CASE Committed(d, Default)
    <3>1. PICK w \in Write \ written :
             /\ written' = written \cup {w}
             /\ files[d][Default] \in SUBSET Write
             /\ files'[d][Default] = files[d][Default] \cup {w}
      BY <2>5 DEF Committed
    <3>2. origin'[w] = creds[d]
      BY <1>1, <3>1, CommitOrigin
    <3>3. StillClean(creds[d], files[d][Default])
      BY <1>1, <2>1, CleanStable
    <3>4. Changes(files'[d][Default]) = Changes(files[d][Default]) \cup {w}
      BY <3>1, ChangesOf
    <3> QED
      BY <1>2, <1>3, <3>2, <3>3, <3>4 DEF StillClean
  <2> QED
    BY <1>1, <1>2, <1>3, <2>2, <2>3, <2>4, <2>5 DEF FileFlow
<1> QED
  BY <1>2, <1>3, <1>5, <1>6

(* Nothing that an account must not get comes closer to it.                *)
LEMMA SeparateKept ==
    ASSUME AInv, AccountStep, NEW d \in Device, OneFlows(d)
    PROVE  Separate'
<1>1. /\ AllWritten /\ Separate /\ written \subseteq Write
      /\ Main \in Thread /\ Default \in Path
  BY DEF AInv, Inv, TypeOK, Thread, Path
<1>2. ASSUME NEW a \in Account PROVE StillClean(a, remoteBody'[a])
  <2>1. CASE remoteBody'[a] = remoteBody[a]
    <3>1. Clean(a, remoteBody[a]) /\ Changes(remoteBody[a]) \subseteq written
      BY <1>1 DEF Separate, AllWritten
    <3> QED
      BY <1>1, <2>1, <3>1, CleanStable
  <2>2. ASSUME NEW t \in Thread, pc[d][t] = "put", client[d][t] = a,
               remoteBody'[a] = bytes[d][t]
        PROVE  StillClean(a, remoteBody'[a])
    <3>1. Clean(a, bytes[d][t]) /\ Changes(bytes[d][t]) \subseteq written
      BY <1>1, <2>2 DEF Separate, CleanOn, AllWritten, Reading
    <3> QED
      BY <1>1, <2>2, <3>1, CleanStable
  <2> QED
    BY <2>1, <2>2 DEF OneFlows, Flow, RemoteFlow
<1>3. ASSUME NEW e \in Device
      PROVE  /\ \A t \in Thread :
                   /\ pc'[e][t] \in Reading => StillClean(client'[e][t], bytes'[e][t])
                   /\ pc'[e][t] \in Reading \cup {"read"} => client'[e][t] # None
             /\ pc'[e][Main] \in Saving => StillClean(creds'[e], bytes'[e][Main])
             /\ home'[e] # None =>
                   home'[e] = creds'[e] /\ StillClean(home'[e], files'[e][Default])
             /\ pc'[e][Main] = "login" => home'[e] = None
  <2>1. CASE e # d
    <3>1. Same(e) /\ CleanOn(e)
      BY <1>1, <2>1 DEF OneFlows, Separate
    <3>2. home'[e] = IF pc[e][Main] = "login" THEN None ELSE home[e]
      BY <3>1 DEF AccountStep, Downloads, Same
    <3>3. ASSUME NEW t \in Thread, pc[e][t] \in Reading
          PROVE  StillClean(client[e][t], bytes[e][t])
      BY <1>1, <3>1, <3>3, CleanStable DEF CleanOn, AllWritten
    <3>4. ASSUME pc[e][Main] \in Saving PROVE StillClean(creds[e], bytes[e][Main])
      BY <1>1, <3>1, <3>4, CleanStable DEF CleanOn, AllWritten
    <3>5. ASSUME home[e] # None
          PROVE  home[e] = creds[e] /\ StillClean(home[e], files[e][Default])
      BY <1>1, <3>1, <3>5, CleanStable DEF CleanOn, AllWritten
    <3> QED
      BY <3>1, <3>2, <3>3, <3>4, <3>5 DEF Same, CleanOn
  <2>2. CASE e = d
    <3>1. CleanOn(d)
      BY <1>1 DEF Separate
    <3>2. ASSUME NEW t \in Thread
          PROVE  /\ pc'[d][t] \in Reading => StillClean(client'[d][t], bytes'[d][t])
                 /\ pc'[d][t] \in Reading \cup {"read"} => client'[d][t] # None
      <4>1. pc'[d][t] \in Reading \cup {"read"} => client'[d][t] # None
        BY <3>1 DEF OneFlows, Flow, ClientFlow, CleanOn
      <4> QED
        BY <4>1, ReadClean
    <3>3. ASSUME pc'[d][Main] \in Saving PROVE StillClean(creds'[d], bytes'[d][Main])
      <4>1. CASE pc[d][Main] \in Saving /\ bytes'[d][Main] = bytes[d][Main]
        <5>1. Clean(creds[d], bytes[d][Main]) /\ Changes(bytes[d][Main]) \subseteq written
          BY <1>1, <3>1, <4>1 DEF CleanOn, AllWritten
        <5>2. StillClean(creds[d], bytes[d][Main])
          BY <1>1, <5>1, CleanStable
        <5> QED
          BY <3>3, <4>1, <5>2 DEF OneFlows, Flow, DownloadFlow
      <4>2. CASE creds[d] \in Account /\ bytes'[d][Main] = remoteBody[creds[d]]
        <5>1. /\ Clean(creds[d], remoteBody[creds[d]])
              /\ Changes(remoteBody[creds[d]]) \subseteq written
          BY <1>1, <4>2 DEF Separate, AllWritten
        <5>2. StillClean(creds[d], remoteBody[creds[d]])
          BY <1>1, <5>1, CleanStable
        <5> QED
          BY <3>3, <4>2, <5>2 DEF OneFlows, Flow, DownloadFlow
      <4> QED
        BY <3>3, <4>1, <4>2 DEF OneFlows, Flow, DownloadFlow
    <3>4. pc'[d][Main] = "login" => home'[d] = None
      BY DEF AccountStep, Downloads
    <3> QED
      BY <2>2, <3>2, <3>3, <3>4, HomeClean
  <2> QED
    BY <2>1, <2>2
<1>4. ASSUME NEW e \in Device PROVE CleanOn(e)'
  BY <1>3 DEF CleanOn, StillClean, Clean, Changes, Reading, Saving
<1>5. \A a \in Account : Clean(a, remoteBody[a])'
  BY <1>2 DEF StillClean, Clean, Changes
<1> QED
  BY <1>4, <1>5 DEF Separate

(* A change that only upload t of d could send stays where it is as long   *)
(* as t has not sent it.                                                   *)
LEMMA OnlyAtKept ==
    ASSUME AInv, Inv', NEW d \in Device, OneFlows(d), NEW e \in Device,
           NEW t \in Thread, NEW w, OnlyAt(e, t, w),
           pc'[e][t] \in Reading,
           e = d \/ w \in written
    PROVE  OnlyAt(e, t, w)'
<1> USE ChangesOf
<1>1. /\ Flow(d) /\ \A f \in Device \ {d} : Same(f)
      /\ Main \in Thread
  BY DEF OneFlows, Thread
<1>2. ASSUME NEW a \in Account PROVE w \notin Changes(remoteBody'[a])
  <2>1. \A u \in Thread :
            pc[d][u] = "put" /\ pc'[d][u] \notin Reading => w \notin Changes(bytes[d][u])
    BY DEF OnlyAt
  <2> QED
    BY <1>1, <2>1 DEF Flow, RemoteFlow, OnlyAt
<1>3. ASSUME NEW f \in Device \ {e}, NEW p \in Path
      PROVE  w \notin Changes(files'[f][p])
  <2>1. CASE f # d
    BY <1>1, <2>1 DEF Same, OnlyAt
  <2>2. CASE f = d
    <3>1. /\ w \in written
          /\ \A q \in Path : w \notin Changes(files[d][q])
          /\ w \notin Changes(bytes[d][Main])
      BY <1>1, <2>2 DEF OnlyAt
    <3>2. CASE files'[d][p] \in {files[d][p], {}}
      BY <2>2, <3>1, <3>2
    <3>3. CASE Replaced(d, p)
      BY <2>2, <3>1, <3>3 DEF Replaced
    <3>4. CASE Committed(d, p)
      BY <2>2, <3>1, <3>4 DEF Committed
    <3> QED
      BY <1>1, <3>2, <3>3, <3>4 DEF Flow, FileFlow
  <2> QED
    BY <2>1, <2>2
<1>4. ASSUME NEW f \in Device, NEW u \in Thread, w \in Changes(bytes'[f][u])
      PROVE  f = e /\ u = t
  <2>1. CASE f # d
    BY <1>1, <1>4, <2>1 DEF Same, OnlyAt
  <2>2. CASE f = d /\ e # d
    <3>1. /\ \A q \in Path : w \notin Changes(files[d][q])
          /\ w \notin Changes(bytes[d][u])
          /\ \A a \in Account : w \notin Changes(remoteBody[a])
      BY <2>2 DEF OnlyAt
    <3> QED
      BY <1>1, <1>4, <2>2, <3>1 DEF Flow, BytesFlow
  <2>3. CASE f = d /\ e = d
    <3>1. CASE pc'[d][u] \in Reading
      BY <2>3, <3>1 DEF Inv, OneUploader, Uploading, UploadPC, Reading
    <3>2. CASE pc'[d][u] \notin Reading
      BY <1>1, <1>4, <2>3, <3>2 DEF Flow, BytesFlow, OnlyAt
    <3> QED
      BY <3>1, <3>2
  <2> QED
    BY <2>1, <2>2, <2>3
<1> QED
  BY <1>2, <1>3, <1>4 DEF OnlyAt, Changes

(* What an upload in time has not read has not left the device.            *)
LEMMA OrderKept ==
    ASSUME AInv, Inv', AccountStep, NEW d \in Device, OneFlows(d)
    PROVE  InOrder'
<1> USE ChangesOf
<1>1. AllWritten /\ InOrder /\ Default \in Path
  BY DEF AInv, Path
<1>2. ASSUME NEW e \in Device, NEW t \in Thread,
             pc'[e][t] \in Reading, target'[e][t] = Default,
             bytes'[e][t] # Torn, t \notin overtaken'[e]
      PROVE  /\ files'[e][Default] # Torn
             /\ \A w \in Changes(files'[e][Default]) \ Changes(bytes'[e][t]) :
                    OnlyAt(e, t, w)'
  <2>1. t \notin overtaken[e] /\ ~Replaces(e)
    BY <1>2 DEF AccountStep, Reading
  <2>2. CASE e # d
    <3>1. Same(e)
      BY <2>2 DEF OneFlows
    <3>2. Current(e, t)
      BY <1>1, <1>2, <2>1, <3>1 DEF InOrder, InTime, Same
    <3>3. ASSUME NEW w \in Changes(files[e][Default]) \ Changes(bytes[e][t])
          PROVE  OnlyAt(e, t, w)'
      <4>1. OnlyAt(e, t, w) /\ w \in written
        BY <1>1, <3>2 DEF Current, AllWritten
      <4> QED
        BY <1>2, <4>1, OnlyAtKept
    <3> QED
      BY <3>1, <3>2, <3>3 DEF Same, Current
  <2>3. CASE e = d
    <3>1. ReadFlow(d, t) /\ FileFlow(d)
      BY DEF OneFlows, Flow
    <3>2. CASE files'[d] = files[d] /\ bytes'[d][t] = files[d][Default]
      BY <1>2, <2>3, <3>2
    <3>3. CASE pc[d][t] \in Reading /\ bytes'[d][t] = bytes[d][t]
      <4>1. Current(d, t)
        BY <1>1, <1>2, <2>1, <2>3, <3>1, <3>3 DEF InOrder, InTime, ReadFlow
      <4>2. ~Replaced(d, Default)
        BY <2>1, <2>3, <4>1 DEF Replaced, Current
      <4>3. /\ files'[d][Default] # Torn
            /\ \A w \in Changes(files'[d][Default]) :
                   w \in Changes(files[d][Default]) \/ w \notin written
        <5>1. CASE Committed(d, Default)
          <6>1. PICK w \in Write \ written :
                   /\ files[d][Default] \in SUBSET Write
                   /\ files'[d][Default] = files[d][Default] \cup {w}
            BY <5>1 DEF Committed
          <6>2. files'[d][Default] \in SUBSET Write
            BY <6>1
          <6> QED
            BY <6>1, <6>2, DatabaseAssumption
        <5>2. CASE files'[d][Default] \in {files[d][Default], {}}
          BY <4>1, <5>2 DEF Current
        <5> QED
          BY <1>1, <3>1, <4>2, <5>1, <5>2 DEF FileFlow
      <4>4. ASSUME NEW w \in Changes(files'[d][Default]) \ Changes(bytes[d][t])
            PROVE  OnlyAt(d, t, w)'
        <5>1. CASE w \in Changes(files[d][Default])
          BY <1>2, <2>3, <4>1, <4>4, <5>1, OnlyAtKept DEF Current
        <5>2. CASE w \notin written
          <6>1. OnlyAt(d, t, w)
            BY <1>1, <5>2 DEF AllWritten, OnlyAt
          <6> QED
            BY <1>2, <2>3, <6>1, OnlyAtKept
        <5> QED
          BY <4>3, <5>1, <5>2
      <4> QED
        BY <2>3, <3>3, <4>3, <4>4
    <3> QED
      BY <1>2, <2>3, <3>1, <3>2, <3>3 DEF ReadFlow, Reading
  <2> QED
    BY <2>2, <2>3
<1> QED
  BY <1>2 DEF InOrder, InTime, Current, Changes, Reading

(***************************************************************************)
(* Every step of ServerHistory keeps the invariant.                        *)
(***************************************************************************)
LEMMA AInvStep ==
    ASSUME AInv, [ANext]_<<vars, accountVars>>
    PROVE  AInv'
<1>1. CASE UNCHANGED <<vars, accountVars>>
  <2>1. Inv'
    BY <1>1, NextInv DEF AInv
  <2>2. UNCHANGED <<files, dbPath, creds, pc, client, target, bytes, remoteBody, written,
                    origin, home, crossed, overtaken>>
    BY <1>1 DEF vars, dbVars, syncVars, prefVars, remoteVars, regVars, accountVars
  <2>3. AllWritten' /\ SavedIsTorn'
    BY <2>2 DEF AInv, AllWritten, SavedIsTorn, Changes
  <2>4. Separate'
    BY <2>2 DEF AInv, Separate, CleanOn, Clean, Changes
  <2>5. InOrder'
    BY <2>2 DEF AInv, InOrder, InTime, Current, OnlyAt, Changes
  <2> QED
    BY <2>1, <2>3, <2>4, <2>5 DEF AInv
<1>2. CASE ANext
  <2>1. Next /\ AccountStep
    BY <1>2 DEF ANext
  <2>2. Inv'
    BY <2>1, NextInv DEF AInv
  <2>3. CASE \E d \in Device : OneFlows(d)
    BY <2>1, <2>2, <2>3, WrittenKept, TornKept, SeparateKept, OrderKept DEF AInv
  <2>4. CASE Device = {} /\ UNCHANGED <<remoteBody, written>>
    <3>1. AllWritten /\ Separate /\ written \subseteq Write
      BY DEF AInv, Inv, TypeOK
    <3>2. ASSUME NEW a \in Account PROVE StillClean(a, remoteBody[a])
      BY <2>1, <3>1, CleanStable DEF AllWritten, Separate
    <3>3. \A a \in Account : Clean(a, remoteBody[a])'
      BY <2>4, <3>2 DEF Clean, StillClean, Changes
    <3>4. AllWritten'
      BY <2>4, <3>1 DEF AllWritten, Changes
    <3> QED
      BY <2>2, <2>4, <3>3, <3>4 DEF AInv, Separate, SavedIsTorn, InOrder
  <2> QED
    BY <2>1, <2>3, <2>4, NextFlow DEF AInv
<1> QED
  BY <1>1, <1>2

(***************************************************************************)
(* The invariant holds of ServerHistory.                                   *)
(***************************************************************************)
THEOREM ServerInvariant == ASpec => []AInv
<1>1. AInit => AInv
  <2> SUFFICES ASSUME AInit PROVE AInv
    OBVIOUS
  <2>1. Inv
    BY InitInv DEF AInit
  <2>2. /\ \A a \in Account : remoteBody[a] = None
        /\ \A d \in Device, p \in Path : files[d][p] = None
        /\ \A d \in Device, t \in Thread : bytes[d][t] = None /\ pc[d][t] \in {"off", "idle"}
        /\ \A d \in Device : home[d] = None
        /\ Main \in Thread
    BY DEF AInit, Init, DatabaseInit, SyncInit, Thread
  <2>3. AllWritten
    BY <2>2, ChangesOf DEF AllWritten
  <2>4. Separate
    BY <2>2, ChangesOf DEF Separate, CleanOn, Clean, Reading, Saving
  <2>5. SavedIsTorn
    BY <2>2 DEF SavedIsTorn
  <2>6. InOrder
    BY <2>2 DEF InOrder, InTime, Reading
  <2> QED
    BY <2>1, <2>3, <2>4, <2>5, <2>6 DEF AInv
<1>2. AInv /\ [ANext]_<<vars, accountVars>> => AInv'
  BY AInvStep
<1> QED
  BY <1>1, <1>2, PTL DEF ASpec

(***************************************************************************)
(* However signing out and in, uploads, downloads and kills overlap, an    *)
(* account's folder holds only changes made while signed in to it, and     *)
(* those read, to be sent to it, from a file that was not known to be its. *)
(***************************************************************************)
THEOREM AccountsAreSeparate == ASpec => []AccountsSeparate
<1>1. AInv => AccountsSeparate
  BY DEF AInv, Separate, Clean, AccountsSeparate
<1> QED
  BY <1>1, ServerInvariant, PTL

(***************************************************************************)
(* A complete upload of winecellar.db that no download has overtaken       *)
(* removes no change from the server that the device itself has.           *)
(***************************************************************************)
THEOREM UploadsInOrder == ASpec => PutsInOrder
<1>1. ASSUME AInv, [ANext]_<<vars, accountVars>>
      PROVE  [\A d \in Device, t \in Thread :
                /\ pc[d][t] = "put" /\ pc'[d][t] # "put"
                /\ bytes[d][t] # Torn /\ target[d][t] = Default /\ t \notin overtaken[d]
                => \A a \in Account :
                     Changes(remoteBody[a]) \cap Changes(files[d][Default])
                         \subseteq Changes(remoteBody'[a])]_<<vars, accountVars>>
  <2> SUFFICES ASSUME ANext, NEW d \in Device, NEW t \in Thread, NEW a \in Account,
                      pc[d][t] = "put", pc'[d][t] # "put", bytes[d][t] # Torn,
                      target[d][t] = Default, t \notin overtaken[d],
                      NEW w \in Changes(remoteBody[a]) \cap Changes(files[d][Default])
               PROVE  w \in Changes(remoteBody'[a])
    BY <1>1
  <2>1. Current(d, t)
    BY <1>1 DEF AInv, InOrder, InTime, Reading
  <2>2. w \in Changes(bytes[d][t])
    BY <2>1 DEF Current, OnlyAt
  <2>3. PICK e \in Device : OneFlows(e)
    BY <1>1, NextFlow DEF AInv, ANext
  <2>4. e = d
    BY <2>3 DEF OneFlows, Same
  <2>5. \/ remoteBody'[a] = remoteBody[a]
        \/ \E u \in Thread : pc[d][u] = "put" /\ remoteBody'[a] = bytes[d][u]
    BY <2>3, <2>4 DEF OneFlows, Flow, RemoteFlow
  <2>6. \A u \in Thread : pc[d][u] = "put" => u = t
    BY <1>1 DEF AInv, Inv, OneUploader, Uploading, UploadPC
  <2> QED
    BY <2>2, <2>5, <2>6
<1> QED
  BY <1>1, ServerInvariant, PTL DEF ASpec, PutsInOrder

=============================================================================
