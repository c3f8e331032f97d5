-------------------------- MODULE AppSessionProofs --------------------------
(***************************************************************************)
(* Proofs about AppSession, for any number of devices, accounts, changes   *)
(* and concurrent calls.                                                   *)
(***************************************************************************)
EXTENDS AppSession, TLAPS

(* Labels of Main between which the connection stays open, and those       *)
(* between which it is closed for a download.                              *)
OpenPC == {"start", "lastmod", "conflict", "enter", "resolve", "close", "dash"}
              \cup UploadPC
ClosedPC == DownloadPC \cup {"reopen"}

(***************************************************************************)
(* How the connection, the uploads and the start-up hang together: an open *)
(* connection has a file, a running upload and a running download have a   *)
(* path to work on.                                                        *)
(***************************************************************************)
Connected ==
    \A d \in Device :
        /\ dbOpen[d] => dbPath[d] \in Path /\ files[d][dbPath[d]] # None
        /\ isUploading[d] => dbPath[d] \in Path
        /\ pc[d][Main] \in OpenPC => dbOpen[d]
        /\ pc[d][Main] \in ClosedPC => ~dbOpen[d] /\ dbPath[d] \in Path
        /\ \A t \in Thread :
               pc[d][t] \in UploadPC \ {"checkpoint"} => target[d][t] \in Path

Inv == TypeOK /\ OneUploader /\ Connected

USE DatabaseAssumption, SyncAssumption, SessionAssumption

(* Initially everything is closed, idle and typed.                         *)
LEMMA InitInv == Init => Inv
<1> SUFFICES ASSUME Init PROVE Inv
  OBVIOUS
<1> USE DEF Init, DatabaseInit, SyncInit
<1>1. DatabaseTypeOK
  BY DEF DatabaseTypeOK, Path, Body
<1>2. SyncTypeOK
  <2>1. pc \in [Device -> [Thread -> CallPC \cup MainPC]]
    BY DEF CallPC, MainPC
  <2>2. \A d \in Device, t \in Thread : pc[d][t] \in PCOf(t)
    BY DEF PCOf, MainPC, CallPC, Thread
  <2> QED
    BY <2>1, <2>2 DEF SyncTypeOK, ThreadsTypeOK
<1>3. OneUploader
  BY DEF OneUploader, Uploading, UploadPC
<1>4. Connected
  BY DEF Connected, OpenPC, ClosedPC, UploadPC, DownloadPC, Thread
<1> QED
  BY <1>1, <1>2, <1>3, <1>4 DEF Inv, TypeOK

(* Moving one thread to a label of its own kind keeps all labels typed.    *)
LEMMA GoToTyped ==
  ASSUME ThreadsTypeOK, NEW d \in Device, NEW t \in Thread,
         NEW label \in PCOf(t), GoTo(d, t, label)
  PROVE  ThreadsTypeOK'
<1>1. label \in CallPC \cup MainPC
  BY DEF PCOf
<1>2. pc' \in [Device -> [Thread -> CallPC \cup MainPC]]
  BY <1>1 DEF ThreadsTypeOK, GoTo
<1>3. \A e \in Device, u \in Thread : pc'[e][u] \in PCOf(u)
  BY DEF ThreadsTypeOK, GoTo
<1> QED
  BY <1>2, <1>3 DEF ThreadsTypeOK

(* Labels of an upload are labels of every thread.                         *)
LEMMA UploadLabels ==
  ASSUME NEW t \in Thread
  PROVE  AfterUpload(t) \in PCOf(t) /\ UploadPC \subseteq PCOf(t)
  BY DEF AfterUpload, PCOf, MainPC, CallPC, UploadPC, Thread

(* What an upload stores on the server is a body and a time.               *)
LEMMA StoreRemoteTyped ==
  ASSUME SyncTypeOK, NEW d \in Device, NEW t \in Thread, StoreRemote(d, t)
  PROVE  /\ remoteBody' \in [Account -> {None} \cup Body]
         /\ remoteTime' \in [Account -> Nat]
<1>1. bytes[d][t] \in {None} \cup Body /\ clock \in Nat
  BY DEF SyncTypeOK
<1> QED
  BY <1>1 DEF SyncTypeOK, StoreRemote

(* Every await of uploadDb preserves the invariant.                        *)
LEMMA UploadStepInv ==
  ASSUME Inv, NEW d \in Device, NEW t \in Thread, UploadStep(d, t),
         UNCHANGED <<localPath, written>>
  PROVE  Inv'
<1> USE DEF Inv, TypeOK, DatabaseTypeOK, SyncTypeOK, At, dbVars, prefVars,
            remoteVars, regVars, LeaveUpload
<1>1. CASE SkipUpload(d, t)
  <2> USE <1>1 DEF SkipUpload
  <2>1. ThreadsTypeOK'
    BY GoToTyped, UploadLabels DEF UploadPC
  <2>2. TypeOK'
    BY <2>1 DEF Connected, UploadPC
  <2>3. OneUploader'
    BY DEF OneUploader, Uploading, UploadPC, GoTo, AfterUpload, ThreadsTypeOK
  <2>4. Connected'
    BY DEF Connected, OneUploader, Uploading, OpenPC, ClosedPC, UploadPC, DownloadPC,
           Thread, GoTo, AfterUpload, ThreadsTypeOK
  <2> QED
    BY <2>2, <2>3, <2>4
<1>2. CASE BeginUpload(d, t)
  <2> USE <1>2 DEF BeginUpload
  <2>1. ThreadsTypeOK'
    BY GoToTyped, UploadLabels DEF UploadPC
  <2>2. TypeOK'
    BY <2>1 DEF Connected, UploadPC
  <2>3. OneUploader'
    BY DEF OneUploader, Uploading, UploadPC, GoTo, AfterUpload, ThreadsTypeOK
  <2>4. Connected'
    BY DEF Connected, OneUploader, Uploading, OpenPC, ClosedPC, UploadPC, DownloadPC,
           Thread, GoTo, AfterUpload, ThreadsTypeOK
  <2> QED
    BY <2>2, <2>3, <2>4
<1>3. CASE UploadThrows(d, t)
  <2> USE <1>3 DEF UploadThrows
  <2>1. ThreadsTypeOK'
    BY GoToTyped, UploadLabels DEF UploadPC
  <2>2. TypeOK'
    BY <2>1 DEF Connected, UploadPC
  <2>3. OneUploader'
    BY DEF OneUploader, Uploading, UploadPC, GoTo, AfterUpload, ThreadsTypeOK
  <2>4. Connected'
    BY DEF Connected, OneUploader, Uploading, OpenPC, ClosedPC, UploadPC, DownloadPC,
           Thread, GoTo, AfterUpload, ThreadsTypeOK
  <2> QED
    BY <2>2, <2>3, <2>4
<1>4. CASE Checkpoint(d, t)
  <2> USE <1>4 DEF Checkpoint
  <2>1. ThreadsTypeOK'
    BY GoToTyped, UploadLabels DEF UploadPC
  <2>2. TypeOK'
    BY <2>1 DEF Connected, UploadPC
  <2>3. OneUploader'
    BY DEF OneUploader, Uploading, UploadPC, GoTo, AfterUpload, ThreadsTypeOK
  <2>4. Connected'
    BY DEF Connected, OneUploader, Uploading, OpenPC, ClosedPC, UploadPC, DownloadPC,
           Thread, GoTo, AfterUpload, ThreadsTypeOK
  <2> QED
    BY <2>2, <2>3, <2>4
<1>5. CASE NoClient(d, t)
  <2> USE <1>5 DEF NoClient
  <2>1. ThreadsTypeOK'
    BY GoToTyped, UploadLabels DEF UploadPC
  <2>2. TypeOK'
    BY <2>1 DEF Connected, UploadPC
  <2>3. OneUploader'
    BY DEF OneUploader, Uploading, UploadPC, GoTo, AfterUpload, ThreadsTypeOK
  <2>4. Connected'
    BY DEF Connected, OneUploader, Uploading, OpenPC, ClosedPC, UploadPC, DownloadPC,
           Thread, GoTo, AfterUpload, ThreadsTypeOK
  <2> QED
    BY <2>2, <2>3, <2>4
<1>6. CASE GetClient(d, t)
  <2> USE <1>6 DEF GetClient
  <2>1. ThreadsTypeOK'
    BY GoToTyped, UploadLabels DEF UploadPC
  <2>2. TypeOK'
    BY <2>1 DEF Connected, UploadPC
  <2>3. OneUploader'
    BY DEF OneUploader, Uploading, UploadPC, GoTo, AfterUpload, ThreadsTypeOK
  <2>4. Connected'
    BY DEF Connected, OneUploader, Uploading, OpenPC, ClosedPC, UploadPC, DownloadPC,
           Thread, GoTo, AfterUpload, ThreadsTypeOK
  <2> QED
    BY <2>2, <2>3, <2>4
<1>7. CASE BeginRead(d, t)
  <2> USE <1>7 DEF BeginRead
  <2>1. ThreadsTypeOK'
    BY GoToTyped, UploadLabels DEF UploadPC
  <2>2. TypeOK'
    <3>1. bytes' \in [Device -> [Thread -> {None} \cup Body]]
      BY DEF Connected, UploadPC
    <3> QED
      BY <2>1, <3>1
  <2>3. OneUploader'
    BY DEF OneUploader, Uploading, UploadPC, GoTo, AfterUpload, ThreadsTypeOK
  <2>4. Connected'
    BY DEF Connected, OneUploader, Uploading, OpenPC, ClosedPC, UploadPC, DownloadPC,
           Thread, GoTo, AfterUpload, ThreadsTypeOK
  <2> QED
    BY <2>2, <2>3, <2>4
<1>8. CASE EndRead(d, t)
  <2> USE <1>8 DEF EndRead
  <2>1. ThreadsTypeOK'
    BY GoToTyped, UploadLabels DEF UploadPC
  <2>2. TypeOK'
    <3>1. bytes' \in [Device -> [Thread -> {None} \cup Body]]
      BY DEF Connected, UploadPC, Body
    <3> QED
      BY <2>1, <3>1
  <2>3. OneUploader'
    BY DEF OneUploader, Uploading, UploadPC, GoTo, AfterUpload, ThreadsTypeOK
  <2>4. Connected'
    BY DEF Connected, OneUploader, Uploading, OpenPC, ClosedPC, UploadPC, DownloadPC,
           Thread, GoTo, AfterUpload, ThreadsTypeOK
  <2> QED
    BY <2>2, <2>3, <2>4
<1>9. CASE Put(d, t)
  <2> USE <1>9 DEF Put
  <2>1. ThreadsTypeOK'
    BY GoToTyped, UploadLabels DEF UploadPC
  <2>2. TypeOK'
    <3>1. remoteBody' \in [Account -> {None} \cup Body] /\ remoteTime' \in [Account -> Nat]
      BY StoreRemoteTyped
    <3> QED
      BY <2>1, <3>1
  <2>3. OneUploader'
    BY DEF OneUploader, Uploading, UploadPC, GoTo, AfterUpload, ThreadsTypeOK
  <2>4. Connected'
    BY DEF Connected, OneUploader, Uploading, OpenPC, ClosedPC, UploadPC, DownloadPC,
           Thread, GoTo, AfterUpload, ThreadsTypeOK
  <2> QED
    BY <2>2, <2>3, <2>4
<1>10. CASE PutUnanswered(d, t)
  <2> USE <1>10 DEF PutUnanswered
  <2>1. ThreadsTypeOK'
    BY GoToTyped, UploadLabels DEF UploadPC
  <2>2. TypeOK'
    <3>1. remoteBody' \in [Account -> {None} \cup Body] /\ remoteTime' \in [Account -> Nat]
      BY StoreRemoteTyped
    <3> QED
      BY <2>1, <3>1
  <2>3. OneUploader'
    BY DEF OneUploader, Uploading, UploadPC, GoTo, AfterUpload, ThreadsTypeOK
  <2>4. Connected'
    BY DEF Connected, OneUploader, Uploading, OpenPC, ClosedPC, UploadPC, DownloadPC,
           Thread, GoTo, AfterUpload, ThreadsTypeOK
  <2> QED
    BY <2>2, <2>3, <2>4
<1>11. CASE ClearAfterUpload(d, t)
  <2> USE <1>11 DEF ClearAfterUpload
  <2>1. ThreadsTypeOK'
    BY GoToTyped, UploadLabels DEF UploadPC
  <2>2. TypeOK'
    BY <2>1 DEF Connected, UploadPC
  <2>3. OneUploader'
    BY DEF OneUploader, Uploading, UploadPC, GoTo, AfterUpload, ThreadsTypeOK
  <2>4. Connected'
    BY DEF Connected, OneUploader, Uploading, OpenPC, ClosedPC, UploadPC, DownloadPC,
           Thread, GoTo, AfterUpload, ThreadsTypeOK
  <2> QED
    BY <2>2, <2>3, <2>4
<1> QED
  BY <1>1, <1>2, <1>3, <1>4, <1>5, <1>6, <1>7, <1>8, <1>9, <1>10, <1>11 DEF UploadStep

(* A thread that stays outside uploadDb does not disturb its exclusion.    *)
LEMMA MoveOutside ==
  ASSUME OneUploader, ThreadsTypeOK, NEW d \in Device, NEW t \in Thread, NEW label,
         label \notin UploadPC, pc[d][t] \notin UploadPC,
         GoTo(d, t, label), UNCHANGED isUploading
  PROVE  OneUploader'
  BY DEF OneUploader, Uploading, GoTo, ThreadsTypeOK

(* What _openAt establishes.                                               *)
LEMMA OpenAtEffect ==
  ASSUME DatabaseTypeOK, NEW d \in Device, NEW p \in Path, OpenAt(d, p)
  PROVE  /\ DatabaseTypeOK'
         /\ dbOpen'[d] /\ dbPath'[d] = p /\ files'[d][p] # None
         /\ \A e \in Device \ {d} :
                /\ files'[e] = files[e]
                /\ dbOpen'[e] = dbOpen[e]
                /\ dbPath'[e] = dbPath[e]
<1>1. PICK body \in Opened(files[d][p]) : files' = [files EXCEPT ![d][p] = body]
  BY DEF OpenAt
<1>2. body \in Body
  BY <1>1 DEF Opened, Body, DatabaseTypeOK
<1>3. files' \in [Device -> [Path -> {None} \cup Body]]
  BY <1>1, <1>2 DEF DatabaseTypeOK
<1>4. files'[d][p] = body /\ body # None
  BY <1>1, <1>2 DEF DatabaseTypeOK
<1> QED
  BY <1>1, <1>3, <1>4 DEF OpenAt, DatabaseTypeOK

(* markDirty preserves the invariant.                                      *)
LEMMA CallStepInv ==
  ASSUME Inv, NEW d \in Device, NEW c \in Call,
         MarkDirty(d, c) \/ StampLastWrite(d, c), UNCHANGED <<localPath, written>>
  PROVE  Inv'
<1> USE DEF Inv, TypeOK, DatabaseTypeOK, SyncTypeOK, At, dbVars, prefVars,
            remoteVars, regVars
<1>1. CASE MarkDirty(d, c)
  <2> USE <1>1 DEF MarkDirty
  <2>1. ThreadsTypeOK'
    BY GoToTyped DEF PCOf, CallPC, Thread
  <2>2. TypeOK'
    BY <2>1
  <2>3. OneUploader'
    BY MoveOutside DEF UploadPC, DownloadPC, Thread
  <2>4. Connected'
    BY DEF Connected, OneUploader, Uploading, OpenPC, ClosedPC, UploadPC, DownloadPC,
           Thread, GoTo, ThreadsTypeOK, PCOf, MainPC, CallPC
  <2> QED
    BY <2>2, <2>3, <2>4
<1>2. CASE StampLastWrite(d, c)
  <2> USE <1>2 DEF StampLastWrite
  <2>1. ThreadsTypeOK'
    BY GoToTyped DEF PCOf, CallPC, Thread
  <2>2. TypeOK'
    BY <2>1
  <2>3. OneUploader'
    BY MoveOutside DEF UploadPC, DownloadPC, Thread
  <2>4. Connected'
    BY DEF Connected, OneUploader, Uploading, OpenPC, ClosedPC, UploadPC, DownloadPC,
           Thread, GoTo, ThreadsTypeOK, PCOf, MainPC, CallPC
  <2> QED
    BY <2>2, <2>3, <2>4
<1> QED
  BY <1>1, <1>2 DEF TypeOK

(* Every await of syncOnStart and resolveWithRemote preserves it.          *)
LEMMA StartStepInv ==
  ASSUME Inv, NEW d \in Device, StartStep(d), UNCHANGED <<localPath, written>>
  PROVE  Inv'
<1> USE DEF Inv, TypeOK, DatabaseTypeOK, SyncTypeOK, At, dbVars, prefVars,
            remoteVars, regVars
<1>1. CASE StartInit(d)
  <2> USE <1>1 DEF StartInit
  <2>1. ThreadsTypeOK'
    BY GoToTyped DEF PCOf, MainPC, Thread, DownloadPC
  <2>2. TypeOK'
    BY <2>1, OpenAtEffect DEF InitDb, Path
  <2>3. OneUploader'
    BY MoveOutside DEF UploadPC, DownloadPC, Thread
  <2>4. Connected'
    <3>1. CASE dbOpen[d]
      BY <3>1 DEF InitDb, Connected, OneUploader, Uploading, OpenPC, ClosedPC, UploadPC, DownloadPC,
                 Thread, GoTo, ThreadsTypeOK, PCOf, MainPC, CallPC, Path
    <3>2. CASE ~dbOpen[d]
      <4>1. OpenAt(d, Default)
        BY <3>2 DEF InitDb
      <4>2. /\ dbOpen'[d] /\ dbPath'[d] = Default /\ files'[d][Default] # None
            /\ \A e \in Device \ {d} : /\ files'[e] = files[e]
                                         /\ dbOpen'[e] = dbOpen[e]
                                         /\ dbPath'[e] = dbPath[e]
        BY <4>1, OpenAtEffect DEF Path
      <4>3. ASSUME NEW e \in Device \ {d}, NEW u \in Thread
            PROVE  pc'[e][u] = pc[e][u] /\ target'[e][u] = target[e][u]
        BY DEF GoTo, ThreadsTypeOK
      <4>4. \A u \in Thread \ {Main} : pc'[d][u] = pc[d][u]
        BY DEF GoTo, ThreadsTypeOK
      <4> QED
        BY <4>2, <4>3, <4>4 DEF Connected, OneUploader, Uploading, OpenPC, ClosedPC, UploadPC, DownloadPC,
                 Thread, GoTo, ThreadsTypeOK, PCOf, MainPC, CallPC, Path
    <3> QED
      BY <3>1, <3>2
  <2> QED
    BY <2>2, <2>3, <2>4
<1>2. CASE StartInitThrows(d)
  <2> USE <1>2 DEF StartInitThrows
  <2>1. ThreadsTypeOK'
    BY GoToTyped DEF PCOf, MainPC, Thread, DownloadPC
  <2>2. TypeOK'
    BY <2>1 DEF OpenFails, Close, Path, Body, Connected, OpenPC, ClosedPC, DownloadPC
  <2>3. OneUploader'
    BY MoveOutside DEF UploadPC, DownloadPC, Thread
  <2>4. Connected'
    BY DEF Connected, OneUploader, Uploading, OpenPC, ClosedPC, UploadPC, DownloadPC,
           Thread, GoTo, ThreadsTypeOK, PCOf, MainPC, CallPC,
           OpenFails, Close, Path
  <2> QED
    BY <2>2, <2>3, <2>4
<1>3. CASE CheckDirty(d)
  <2> USE <1>3 DEF CheckDirty
  <2>1. ThreadsTypeOK'
    BY GoToTyped DEF PCOf, MainPC, Thread, DownloadPC
  <2>2. TypeOK'
    BY <2>1
  <2>3. OneUploader'
    BY MoveOutside DEF UploadPC, DownloadPC, Thread
  <2>4. Connected'
    BY DEF Connected, OneUploader, Uploading, OpenPC, ClosedPC, UploadPC, DownloadPC,
           Thread, GoTo, ThreadsTypeOK, PCOf, MainPC, CallPC
  <2> QED
    BY <2>2, <2>3, <2>4
<1>4. CASE CompareTimes(d)
  <2> USE <1>4 DEF CompareTimes
  <2>1. ThreadsTypeOK'
    BY GoToTyped DEF PCOf, MainPC, Thread, DownloadPC
  <2>2. TypeOK'
    BY <2>1
  <2>3. OneUploader'
    BY MoveOutside DEF UploadPC, DownloadPC, Thread
  <2>4. Connected'
    BY DEF Connected, OneUploader, Uploading, OpenPC, ClosedPC, UploadPC, DownloadPC,
           Thread, GoTo, ThreadsTypeOK, PCOf, MainPC, CallPC
  <2> QED
    BY <2>2, <2>3, <2>4
<1>5. CASE ResolveWithRemote(d)
  <2> USE <1>5 DEF ResolveWithRemote
  <2>1. ThreadsTypeOK'
    BY GoToTyped DEF PCOf, MainPC, Thread, DownloadPC
  <2>2. TypeOK'
    BY <2>1
  <2>3. OneUploader'
    BY MoveOutside DEF UploadPC, DownloadPC, Thread
  <2>4. Connected'
    BY DEF Connected, OneUploader, Uploading, OpenPC, ClosedPC, UploadPC, DownloadPC,
           Thread, GoTo, ThreadsTypeOK, PCOf, MainPC, CallPC
  <2> QED
    BY <2>2, <2>3, <2>4
<1>6. CASE CloseForDownload(d)
  <2> USE <1>6 DEF CloseForDownload
  <2>1. ThreadsTypeOK'
    BY GoToTyped DEF PCOf, MainPC, Thread, DownloadPC
  <2>2. TypeOK'
    BY <2>1 DEF OpenFails, Close, Path, Body, Connected, OpenPC, ClosedPC, DownloadPC
  <2>3. OneUploader'
    BY MoveOutside DEF UploadPC, DownloadPC, Thread
  <2>4. Connected'
    BY DEF Connected, OneUploader, Uploading, OpenPC, ClosedPC, UploadPC, DownloadPC,
           Thread, GoTo, ThreadsTypeOK, PCOf, MainPC, CallPC,
           OpenFails, Close, Path
  <2> QED
    BY <2>2, <2>3, <2>4
<1>7. CASE ReadRemote(d)
  <2> USE <1>7 DEF ReadRemote
  <2>1. ThreadsTypeOK'
    BY GoToTyped DEF PCOf, MainPC, Thread, DownloadPC
  <2>2. TypeOK'
    BY <2>1
  <2>3. OneUploader'
    BY MoveOutside DEF UploadPC, DownloadPC, Thread
  <2>4. Connected'
    BY DEF Connected, OneUploader, Uploading, OpenPC, ClosedPC, UploadPC, DownloadPC,
           Thread, GoTo, ThreadsTypeOK, PCOf, MainPC, CallPC
  <2> QED
    BY <2>2, <2>3, <2>4
<1>8. CASE SkipDownload(d)
  <2> USE <1>8 DEF SkipDownload
  <2>1. ThreadsTypeOK'
    BY GoToTyped DEF PCOf, MainPC, Thread, DownloadPC
  <2>2. TypeOK'
    BY <2>1
  <2>3. OneUploader'
    BY MoveOutside DEF UploadPC, DownloadPC, Thread
  <2>4. Connected'
    BY DEF Connected, OneUploader, Uploading, OpenPC, ClosedPC, UploadPC, DownloadPC,
           Thread, GoTo, ThreadsTypeOK, PCOf, MainPC, CallPC
  <2> QED
    BY <2>2, <2>3, <2>4
<1>9. CASE BeginSave(d)
  <2> USE <1>9 DEF BeginSave
  <2>1. ThreadsTypeOK'
    BY GoToTyped DEF PCOf, MainPC, Thread, DownloadPC
  <2>2. TypeOK'
    BY <2>1 DEF OpenFails, Close, Path, Body, Connected, OpenPC, ClosedPC, DownloadPC
  <2>3. OneUploader'
    BY MoveOutside DEF UploadPC, DownloadPC, Thread
  <2>4. Connected'
    BY DEF Connected, OneUploader, Uploading, OpenPC, ClosedPC, UploadPC, DownloadPC,
           Thread, GoTo, ThreadsTypeOK, PCOf, MainPC, CallPC,
           OpenFails, Close, Path
  <2> QED
    BY <2>2, <2>3, <2>4
<1>10. CASE EndSave(d)
  <2> USE <1>10 DEF EndSave
  <2>1. ThreadsTypeOK'
    BY GoToTyped DEF PCOf, MainPC, Thread, DownloadPC
  <2>2. TypeOK'
    <3>1. bytes[d][Main] \in {None} \cup Body
      BY DEF Thread
    <3>2. PICK body \in {bytes[d][Main], Torn} : files' = [files EXCEPT ![d][dbPath[d]] = body]
      OBVIOUS
    <3>3. body \in {None} \cup Body
      BY <3>1 DEF Body
    <3>4. files' \in [Device -> [Path -> {None} \cup Body]]
      BY <3>2, <3>3
    <3>5. bytes' \in [Device -> [Thread -> {None} \cup Body]]
      OBVIOUS
    <3> QED
      BY <2>1, <3>4, <3>5
  <2>3. OneUploader'
    BY MoveOutside DEF UploadPC, DownloadPC, Thread
  <2>4. Connected'
    BY DEF Connected, OneUploader, Uploading, OpenPC, ClosedPC, UploadPC, DownloadPC,
           Thread, GoTo, ThreadsTypeOK, PCOf, MainPC, CallPC,
           OpenFails, Close, Path
  <2> QED
    BY <2>2, <2>3, <2>4
<1>11. CASE Reopen(d)
  <2> USE <1>11 DEF Reopen
  <2>1. ThreadsTypeOK'
    BY GoToTyped DEF PCOf, MainPC, Thread, DownloadPC
  <2>2. TypeOK'
    BY <2>1, OpenAtEffect DEF InitDb, Path
  <2>3. OneUploader'
    BY MoveOutside DEF UploadPC, DownloadPC, Thread
  <2>4. Connected'
    <3>1. CASE dbOpen[d]
      BY <3>1 DEF InitDb, Connected, OneUploader, Uploading, OpenPC, ClosedPC, UploadPC, DownloadPC,
                 Thread, GoTo, ThreadsTypeOK, PCOf, MainPC, CallPC, Path
    <3>2. CASE ~dbOpen[d]
      <4>1. OpenAt(d, Default)
        BY <3>2 DEF InitDb
      <4>2. /\ dbOpen'[d] /\ dbPath'[d] = Default /\ files'[d][Default] # None
            /\ \A e \in Device \ {d} : /\ files'[e] = files[e]
                                         /\ dbOpen'[e] = dbOpen[e]
                                         /\ dbPath'[e] = dbPath[e]
        BY <4>1, OpenAtEffect DEF Path
      <4>3. ASSUME NEW e \in Device \ {d}, NEW u \in Thread
            PROVE  pc'[e][u] = pc[e][u] /\ target'[e][u] = target[e][u]
        BY DEF GoTo, ThreadsTypeOK
      <4>4. \A u \in Thread \ {Main} : pc'[d][u] = pc[d][u]
        BY DEF GoTo, ThreadsTypeOK
      <4> QED
        BY <4>2, <4>3, <4>4 DEF Connected, OneUploader, Uploading, OpenPC, ClosedPC, UploadPC, DownloadPC,
                 Thread, GoTo, ThreadsTypeOK, PCOf, MainPC, CallPC, Path
    <3> QED
      BY <3>1, <3>2
  <2> QED
    BY <2>2, <2>3, <2>4
<1>12. CASE ReopenThrows(d)
  <2> USE <1>12 DEF ReopenThrows
  <2>1. ThreadsTypeOK'
    BY GoToTyped DEF PCOf, MainPC, Thread, DownloadPC
  <2>2. TypeOK'
    BY <2>1 DEF OpenFails, Close, Path, Body, Connected, OpenPC, ClosedPC, DownloadPC
  <2>3. OneUploader'
    BY MoveOutside DEF UploadPC, DownloadPC, Thread
  <2>4. Connected'
    BY DEF Connected, OneUploader, Uploading, OpenPC, ClosedPC, UploadPC, DownloadPC,
           Thread, GoTo, ThreadsTypeOK, PCOf, MainPC, CallPC,
           OpenFails, Close, Path
  <2> QED
    BY <2>2, <2>3, <2>4
<1> QED
  BY <1>1, <1>2, <1>3, <1>4, <1>5, <1>6, <1>7, <1>8, <1>9, <1>10, <1>11, <1>12 DEF StartStep

(* Opening a connection from a label at which Main needs none.             *)
LEMMA OpenConnected ==
  ASSUME Inv, NEW d \in Device, NEW p \in Path,
         DatabaseTypeOK', dbOpen'[d], dbPath'[d] = p, files'[d][p] # None,
         \A e \in Device \ {d} :
            files'[e] = files[e] /\ dbOpen'[e] = dbOpen[e] /\ dbPath'[e] = dbPath[e],
         GoTo(d, Main, "dash"), UNCHANGED <<isUploading, target>>
  PROVE  Connected'
<1>1. ASSUME NEW e \in Device \ {d}, NEW u \in Thread
      PROVE  pc'[e][u] = pc[e][u]
  BY DEF GoTo, Inv, TypeOK, SyncTypeOK, ThreadsTypeOK
<1>2. /\ pc'[d][Main] = "dash"
      /\ \A u \in Thread \ {Main} : pc'[d][u] = pc[d][u]
  BY DEF GoTo, Inv, TypeOK, SyncTypeOK, ThreadsTypeOK, Thread
<1>3. ASSUME NEW e \in Device \ {d}
      PROVE  /\ dbOpen'[e] => dbPath'[e] \in Path /\ files'[e][dbPath'[e]] # None
             /\ isUploading'[e] => dbPath'[e] \in Path
             /\ pc'[e][Main] \in OpenPC => dbOpen'[e]
             /\ pc'[e][Main] \in ClosedPC => ~dbOpen'[e] /\ dbPath'[e] \in Path
             /\ \A t \in Thread :
                    pc'[e][t] \in UploadPC \ {"checkpoint"} => target'[e][t] \in Path
  BY <1>1 DEF Inv, Connected, Thread
<1>4. /\ pc'[d][Main] \notin ClosedPC
      /\ \A t \in Thread :
             pc'[d][t] \in UploadPC \ {"checkpoint"} => target'[d][t] \in Path
  BY <1>2 DEF Inv, Connected, ClosedPC, DownloadPC, UploadPC
<1> QED
  BY <1>3, <1>4 DEF Connected

(* An attempt to open that fails, back on the login page.                  *)
LEMMA OpenFailsConnected ==
  ASSUME Inv, NEW d \in Device, NEW p \in Path, OpenFails(d, p),
         pc[d][Main] \in {"splash", "login"},
         GoTo(d, Main, "login"),
         UNCHANGED <<isUploading, target>>
  PROVE  DatabaseTypeOK' /\ Connected'
<1>1. DatabaseTypeOK'
  BY DEF OpenFails, Inv, TypeOK, DatabaseTypeOK
<1>2. Connected'
  BY DEF OpenFails, Inv, TypeOK, DatabaseTypeOK, SyncTypeOK, Connected, OneUploader, Uploading, OpenPC, ClosedPC, UploadPC, DownloadPC,
         Thread, GoTo, ThreadsTypeOK, PCOf, MainPC, CallPC
<1> QED
  BY <1>1, <1>2

(* The same when the failed attempt was to copy a picked file.             *)
LEMMA OpenCopyFailsConnected ==
  ASSUME Inv, NEW d \in Device, files[d][Picked] # None, OpenCopyFails(d, Picked),
         pc[d][Main] = "login", GoTo(d, Main, "login"),
         UNCHANGED <<isUploading, target>>
  PROVE  DatabaseTypeOK' /\ Connected'
<1> USE DEF OpenCopyFails
<1>1. /\ files' \in [Device -> [Path -> {None} \cup Body]]
      /\ \A e \in Device \ {d} : files'[e] = files[e]
  <2>0. files \in [Device -> [Path -> {None} \cup Body]]
    BY DEF Inv, TypeOK, DatabaseTypeOK
  <2>1. ASSUME NEW body \in Body, files' = [files EXCEPT ![d][Default] = body]
        PROVE  /\ files' \in [Device -> [Path -> {None} \cup Body]]
               /\ \A e \in Device \ {d} : files'[e] = files[e]
    BY <2>0, <2>1
  <2>2. Torn \in Body /\ files[d][Picked] \in Body
    BY <2>0 DEF Path, Body
  <2>3. CASE files' = files
    BY <2>0, <2>3
  <2> QED
    BY <2>1, <2>2, <2>3
<1>2. /\ dbPath' \in [Device -> Path \cup {None}]
      /\ dbPath'[d] \in {dbPath[d], Default}
      /\ \A e \in Device \ {d} : dbPath'[e] = dbPath[e]
  BY DEF Inv, TypeOK, DatabaseTypeOK, Path
<1>3. /\ dbOpen' \in [Device -> BOOLEAN]
      /\ ~dbOpen'[d]
      /\ \A e \in Device \ {d} : dbOpen'[e] = dbOpen[e]
  BY DEF Inv, TypeOK, DatabaseTypeOK
<1>4. pc' = pc
  BY DEF GoTo, Inv, TypeOK, SyncTypeOK, ThreadsTypeOK, Thread
<1>5. Connected'
  BY <1>1, <1>2, <1>3, <1>4 DEF Inv, Connected, OpenPC, ClosedPC, DownloadPC, UploadPC, Path
<1> QED
  BY <1>1, <1>2, <1>3, <1>5 DEF DatabaseTypeOK

(* What a successful copy leaves behind.                                   *)
LEMMA OpenCopyEffect ==
  ASSUME DatabaseTypeOK, NEW d \in Device, NEW p \in Path, OpenCopyOf(d, p)
  PROVE  /\ DatabaseTypeOK'
         /\ dbOpen'[d] /\ dbPath'[d] = Default /\ files'[d][Default] # None
         /\ \A e \in Device \ {d} :
                files'[e] = files[e] /\ dbOpen'[e] = dbOpen[e] /\ dbPath'[e] = dbPath[e]
<1>1. PICK body \in Opened(files[d][p]) : files' = [files EXCEPT ![d][Default] = body]
  BY DEF OpenCopyOf
<1>2. body \in Body
  BY <1>1 DEF Opened, Body, DatabaseTypeOK
<1>3. files' \in [Device -> [Path -> {None} \cup Body]]
  BY <1>1, <1>2 DEF DatabaseTypeOK
<1>4. files'[d][Default] = body /\ body # None
  BY <1>1, <1>2 DEF DatabaseTypeOK, Path
<1> QED
  BY <1>1, <1>3, <1>4 DEF OpenCopyOf, DatabaseTypeOK, Path

(* Only Main's label changes, and the connection does not: the facts about *)
(* the connection survive when the new label asks for no more.             *)
LEMMA MoveConnected ==
  ASSUME Inv, NEW d \in Device, NEW t \in Thread, NEW label,
         label \notin UploadPC, t = Main => label \notin ClosedPC,
         t = Main /\ label \in OpenPC => dbOpen[d],
         GoTo(d, t, label), UNCHANGED <<dbVars, isUploading, target>>
  PROVE  Connected'
  BY DEF Inv, TypeOK, DatabaseTypeOK, SyncTypeOK, dbVars, Connected, GoTo, ThreadsTypeOK,
         Thread, UploadPC

(* The splash page and the beginning of a login preserve it.               *)
LEMMA PageStepInv ==
  ASSUME Inv, NEW d \in Device, PageStep(d)
  PROVE  Inv'
<1>0. TypeOK /\ SyncTypeOK /\ DatabaseTypeOK /\ ThreadsTypeOK /\ OneUploader
  BY DEF Inv, TypeOK, SyncTypeOK
<1> USE DEF At, prefVars, remoteVars, regVars
<1>1. CASE SplashLocal(d)
  <2> USE <1>0, <1>1 DEF SplashLocal
  <2>1. localPath[d] \in Path
    BY DEF TypeOK
  <2>2. ThreadsTypeOK'
    BY GoToTyped DEF PCOf, MainPC, Thread
  <2>3. OneUploader'
    BY MoveOutside DEF UploadPC, Thread
  <2>4. DatabaseTypeOK' /\ Connected'
    <3>1. CASE OpenAt(d, localPath[d]) /\ GoTo(d, Main, "dash")
      <4>1. /\ DatabaseTypeOK' /\ dbOpen'[d] /\ dbPath'[d] = localPath[d]
            /\ files'[d][localPath[d]] # None
            /\ \A e \in Device \ {d} :
                   files'[e] = files[e] /\ dbOpen'[e] = dbOpen[e] /\ dbPath'[e] = dbPath[e]
        BY <2>1, <3>1, OpenAtEffect
      <4> QED
        BY <2>1, <3>1, <4>1, OpenConnected
    <3>2. CASE OpenFails(d, localPath[d]) /\ GoTo(d, Main, "login")
      BY <2>1, <3>2, OpenFailsConnected
    <3> QED
      BY <3>1, <3>2
  <2> QED
    BY <2>2, <2>3, <2>4 DEF Inv, TypeOK, SyncTypeOK
<1>2. CASE SplashCloud(d)
  <2> USE <1>0, <1>2 DEF SplashCloud
  <2>1. ThreadsTypeOK'
    BY GoToTyped DEF PCOf, MainPC, Thread
  <2>2. OneUploader'
    BY MoveOutside DEF UploadPC, Thread
  <2>3. Connected'
    BY MoveConnected DEF UploadPC, Thread, OpenPC, ClosedPC, DownloadPC
  <2> QED
    BY <2>1, <2>2, <2>3 DEF Inv, TypeOK, SyncTypeOK, DatabaseTypeOK, dbVars
<1>3. CASE LoginClearDirty(d)
  <2> USE <1>0, <1>3 DEF LoginClearDirty
  <2>1. ThreadsTypeOK'
    BY GoToTyped DEF PCOf, MainPC, Thread
  <2>2. OneUploader'
    BY MoveOutside DEF UploadPC, Thread
  <2>3. Connected'
    BY MoveConnected DEF UploadPC, Thread, OpenPC, ClosedPC, DownloadPC
  <2> QED
    BY <2>1, <2>2, <2>3 DEF Inv, TypeOK, SyncTypeOK, DatabaseTypeOK, dbVars
<1> QED
  BY <1>1, <1>2, <1>3 DEF PageStep

(* A commit leaves a database where there was one, and only there.         *)
LEMMA CommitTyped ==
  ASSUME DatabaseTypeOK, Connected, NEW d \in Device, NEW w \in Write, Commit(d, w)
  PROVE  /\ DatabaseTypeOK'
         /\ \A e \in Device, p \in Path : files[e][p] # None => files'[e][p] # None
<1> DEFINE body == files[d][dbPath[d]]
<1>1. dbPath[d] \in Path /\ body \in SUBSET Write
  BY DEF Commit, Connected, DatabaseTypeOK, Body
<1>2. body \cup {w} \in Body /\ body \cup {w} # None
  BY <1>1 DEF Body
<1>3. files' = [files EXCEPT ![d][dbPath[d]] = body \cup {w}]
  BY DEF Commit
<1> HIDE DEF body
<1> QED
  <2>1. files' \in [Device -> [Path -> {None} \cup Body]]
    BY <1>1, <1>2, <1>3 DEF DatabaseTypeOK
  <2>2. DatabaseTypeOK'
    BY <2>1 DEF DatabaseTypeOK, Commit
  <2>3. \A e \in Device, p \in Path : files[e][p] # None => files'[e][p] # None
    BY <1>1, <1>2, <1>3 DEF DatabaseTypeOK
  <2> QED
    BY <2>2, <2>3

(* What users and the operating system do preserves it.                    *)
LEMMA UserStepInv ==
  ASSUME Inv, NEW d \in Device, UserStep(d)
  PROVE  Inv'
<1>0. TypeOK /\ SyncTypeOK /\ DatabaseTypeOK /\ ThreadsTypeOK /\ OneUploader /\ Connected
  BY DEF Inv, TypeOK, SyncTypeOK
<1> USE DEF At, prefVars, remoteVars, regVars
<1>1. CASE Launch(d)
  <2> USE <1>0, <1>1 DEF Launch
  <2>1. ThreadsTypeOK'
    BY GoToTyped DEF PCOf, MainPC, Thread
  <2>2. OneUploader'
    BY MoveOutside DEF UploadPC, Thread
  <2>3. Connected'
    BY MoveConnected DEF UploadPC, Thread, OpenPC, ClosedPC, DownloadPC, Connected
  <2> QED
    BY <2>1, <2>2, <2>3 DEF Inv, TypeOK, SyncTypeOK, DatabaseTypeOK, dbVars
<1>2. CASE AnswerConflict(d)
  <2> USE <1>0, <1>2 DEF AnswerConflict
  <2>1. ThreadsTypeOK'
    BY GoToTyped DEF PCOf, MainPC, Thread
  <2>2. OneUploader'
    BY MoveOutside DEF UploadPC, Thread
  <2>3. Connected'
    BY MoveConnected DEF UploadPC, Thread, OpenPC, ClosedPC, DownloadPC, Connected
  <2> QED
    BY <2>1, <2>2, <2>3 DEF Inv, TypeOK, SyncTypeOK, DatabaseTypeOK, dbVars
<1>3. ASSUME NEW a \in Account, Login(d, a)
      PROVE  Inv'
  <2> USE <1>0, <1>3 DEF Login
  <2>1. ThreadsTypeOK'
    BY GoToTyped DEF PCOf, MainPC, Thread
  <2>2. OneUploader'
    BY MoveOutside DEF UploadPC, Thread
  <2>3. Connected'
    BY MoveConnected DEF UploadPC, Thread, OpenPC, ClosedPC, DownloadPC, Connected
  <2> QED
    BY <2>1, <2>2, <2>3 DEF Inv, TypeOK, SyncTypeOK, DatabaseTypeOK, dbVars
<1>4. CASE CreateLocalDatabase(d)
  <2> DEFINE path == IF InPlace THEN Picked ELSE Default
  <2> USE <1>0, <1>4 DEF CreateLocalDatabase
  <2>1. path \in Path
    BY DEF Path
  <2>2. CASE /\ OpenAt(d, path)
             /\ localPath' = [localPath EXCEPT ![d] = path]
             /\ GoTo(d, Main, "dash")
    <3>1. GoTo(d, Main, "dash")
      BY <2>2
    <3>2. ThreadsTypeOK'
      BY <3>1, GoToTyped DEF PCOf, MainPC, Thread
    <3>3. OneUploader'
      BY <3>1, MoveOutside DEF UploadPC, Thread
    <3>4. /\ DatabaseTypeOK' /\ dbOpen'[d] /\ dbPath'[d] = path
          /\ files'[d][path] # None
          /\ \A e \in Device \ {d} :
                 files'[e] = files[e] /\ dbOpen'[e] = dbOpen[e] /\ dbPath'[e] = dbPath[e]
      BY <2>1, <2>2, OpenAtEffect
    <3>5. Connected'
      BY <2>1, <3>1, <3>4, OpenConnected
    <3>6. localPath' \in [Device -> Path \cup {None}]
      BY <2>1, <2>2 DEF TypeOK
    <3> QED
      BY <3>2, <3>3, <3>4, <3>5, <3>6 DEF Inv, TypeOK, SyncTypeOK
  <2>3. CASE OpenFails(d, path) /\ GoTo(d, Main, "login") /\ UNCHANGED localPath
    <3>1. ThreadsTypeOK'
      BY <2>3, GoToTyped DEF PCOf, MainPC, Thread
    <3>2. OneUploader'
      BY <2>3, MoveOutside DEF UploadPC, Thread
    <3>3. DatabaseTypeOK' /\ Connected'
      BY <2>1, <2>3, OpenFailsConnected
    <3> QED
      BY <2>3, <3>1, <3>2, <3>3 DEF Inv, TypeOK, SyncTypeOK
  <2> QED
    BY <2>2, <2>3
<1>5. CASE OpenLocalDatabase(d)
  <2> DEFINE path == IF InPlace THEN Picked ELSE Default
  <2> USE <1>0, <1>5 DEF OpenLocalDatabase
  <2>1. path \in Path
    BY DEF Path
  <2>2. CASE /\ IF InPlace THEN OpenAt(d, Picked) ELSE OpenCopyOf(d, Picked)
             /\ localPath' = [localPath EXCEPT ![d] = path]
             /\ GoTo(d, Main, "dash")
    <3>1. GoTo(d, Main, "dash")
      BY <2>2
    <3>2. ThreadsTypeOK'
      BY <3>1, GoToTyped DEF PCOf, MainPC, Thread
    <3>3. OneUploader'
      BY <3>1, MoveOutside DEF UploadPC, Thread
    <3>4. /\ DatabaseTypeOK' /\ dbOpen'[d] /\ dbPath'[d] = path
          /\ files'[d][path] # None
          /\ \A e \in Device \ {d} :
                 files'[e] = files[e] /\ dbOpen'[e] = dbOpen[e] /\ dbPath'[e] = dbPath[e]
      BY <2>1, <2>2, OpenAtEffect, OpenCopyEffect DEF Path
    <3>5. Connected'
      BY <2>1, <3>1, <3>4, OpenConnected
    <3>6. localPath' \in [Device -> Path \cup {None}]
      BY <2>1, <2>2 DEF TypeOK
    <3> QED
      BY <3>2, <3>3, <3>4, <3>5, <3>6 DEF Inv, TypeOK, SyncTypeOK
  <2>3. CASE /\ IF InPlace THEN OpenFails(d, Picked) ELSE OpenCopyFails(d, Picked)
             /\ GoTo(d, Main, "login")
             /\ UNCHANGED localPath
    <3>1. ThreadsTypeOK'
      BY <2>3, GoToTyped DEF PCOf, MainPC, Thread
    <3>2. OneUploader'
      BY <2>3, MoveOutside DEF UploadPC, Thread
    <3>3. DatabaseTypeOK' /\ Connected'
      BY <2>3, OpenFailsConnected, OpenCopyFailsConnected DEF Path, At
    <3> QED
      BY <2>3, <3>1, <3>2, <3>3 DEF Inv, TypeOK, SyncTypeOK
  <2> QED
    BY <2>2, <2>3
<1>6. ASSUME NEW w \in Write, NEW c \in Call, WriteAndSync(d, w, c)
      PROVE  Inv'
  <2> USE <1>0, <1>6 DEF WriteAndSync
  <2>1. ThreadsTypeOK'
    BY GoToTyped DEF PCOf, CallPC, Thread
  <2>2. OneUploader'
    BY MoveOutside DEF UploadPC, Thread
  <2>3. DatabaseTypeOK'
    BY CommitTyped
  <2>4. Connected'
    BY CommitTyped DEF Connected, GoTo, ThreadsTypeOK, Thread, UploadPC, Commit
  <2> QED
    BY <2>1, <2>2, <2>3, <2>4 DEF Inv, TypeOK, SyncTypeOK
<1>7. ASSUME NEW w \in Write, WriteOnly(d, w)
      PROVE  Inv'
  <2> USE <1>0, <1>7 DEF WriteOnly, syncVars
  <2>1. DatabaseTypeOK'
    BY CommitTyped
  <2>2. Connected'
    BY CommitTyped DEF Connected, Commit
  <2> QED
    BY <2>1, <2>2 DEF Inv, TypeOK, SyncTypeOK, ThreadsTypeOK, OneUploader, Uploading
<1>8. CASE SaveDatabaseAs(d)
  <2> USE <1>0, <1>8 DEF SaveDatabaseAs, syncVars, ExportTo
  <2>1. dbPath[d] \in Path
    BY DEF Connected, OpenPC
  <2>2. DatabaseTypeOK'
    BY <2>1 DEF DatabaseTypeOK
  <2>3. Connected'
    BY <2>1 DEF Connected, DatabaseTypeOK
  <2> QED
    BY <2>2, <2>3 DEF Inv, TypeOK, SyncTypeOK, ThreadsTypeOK, OneUploader, Uploading
<1>9. CASE SignOut(d)
  <2> USE <1>0, <1>9 DEF SignOut
  <2>1. ThreadsTypeOK'
    BY GoToTyped DEF PCOf, MainPC, Thread
  <2>2. OneUploader'
    BY MoveOutside DEF UploadPC, Thread
  <2>3. Connected'
    BY MoveConnected DEF UploadPC, Thread, OpenPC, ClosedPC, DownloadPC, Connected
  <2> QED
    BY <2>1, <2>2, <2>3 DEF Inv, TypeOK, SyncTypeOK, DatabaseTypeOK, dbVars
<1>10. ASSUME NEW c \in Call, AppBackground(d, c)
       PROVE  Inv'
  <2> USE <1>0, <1>10 DEF AppBackground
  <2>1. ThreadsTypeOK'
    BY GoToTyped DEF PCOf, CallPC, Thread
  <2>2. OneUploader'
    BY MoveOutside DEF UploadPC, Thread
  <2>3. Connected'
    BY MoveConnected DEF UploadPC, Thread, OpenPC, ClosedPC, DownloadPC, Connected
  <2> QED
    BY <2>1, <2>2, <2>3 DEF Inv, TypeOK, SyncTypeOK, DatabaseTypeOK, dbVars
<1>11. CASE Kill(d)
  <2> USE <1>0, <1>11 DEF Kill
  <2>1. ThreadsTypeOK'
    BY DEF ThreadsTypeOK, PCOf, MainPC, CallPC, Thread
  <2>2. TypeOK'
    BY <2>1 DEF TypeOK, SyncTypeOK, DatabaseTypeOK
  <2>3. OneUploader'
    BY DEF OneUploader, Uploading, UploadPC, ThreadsTypeOK, SyncTypeOK
  <2>4. Connected'
    BY DEF Connected, UploadPC, OpenPC, ClosedPC, DownloadPC, ThreadsTypeOK, SyncTypeOK,
           DatabaseTypeOK, Thread
  <2> QED
    BY <2>2, <2>3, <2>4 DEF Inv
<1> QED
  BY <1>1, <1>2, <1>3, <1>4, <1>5, <1>6, <1>7, <1>8, <1>9, <1>10, <1>11 DEF UserStep

(* The invariant is inductive.                                             *)
LEMMA NextInv == Inv /\ [Next]_vars => Inv'
<1> SUFFICES ASSUME Inv, [Next]_vars PROVE Inv'
  OBVIOUS
<1>1. ASSUME NEW d \in Device, UserStep(d) PROVE Inv'
  BY <1>1, UserStepInv
<1>2. ASSUME NEW d \in Device, PageStep(d) PROVE Inv'
  BY <1>2, PageStepInv
<1>3. ASSUME NEW d \in Device, ServiceStep(d) PROVE Inv'
  <2>1. ASSUME NEW c \in Call, MarkDirty(d, c) \/ StampLastWrite(d, c) PROVE Inv'
    BY <1>3, <2>1, CallStepInv DEF ServiceStep
  <2>2. ASSUME NEW t \in Thread, UploadStep(d, t) PROVE Inv'
    BY <1>3, <2>2, UploadStepInv DEF ServiceStep
  <2>3. CASE StartStep(d)
    BY <1>3, <2>3, StartStepInv DEF ServiceStep
  <2> QED
    BY <1>3, <2>1, <2>2, <2>3 DEF ServiceStep
<1>4. CASE Tick /\ UNCHANGED <<localPath, written>>
  BY <1>4 DEF Tick, Inv, TypeOK, DatabaseTypeOK, SyncTypeOK, ThreadsTypeOK, OneUploader,
              Uploading, Connected, dbVars, prefVars, remoteVars, regVars
<1>5. CASE UNCHANGED vars
  BY <1>5 DEF vars, syncVars, Inv, TypeOK, DatabaseTypeOK, SyncTypeOK, ThreadsTypeOK,
              OneUploader, Uploading, Connected, dbVars, prefVars, remoteVars, regVars
<1> QED
  BY <1>1, <1>2, <1>3, <1>4, <1>5 DEF Next

(***************************************************************************)
(* Going to a label moves one thread of one device.                        *)
(***************************************************************************)
LEMMA Moved ==
    ASSUME ThreadsTypeOK, NEW d \in Device, NEW t \in Thread, NEW label,
           GoTo(d, t, label)
    PROVE  /\ pc'[d][t] = label
           /\ \A u \in Thread \ {t} : pc'[d][u] = pc[d][u]
           /\ \A e \in Device \ {d} : pc'[e] = pc[e]
BY DEF ThreadsTypeOK, GoTo

(***************************************************************************)
(* The types that the proofs about single steps need.                      *)
(***************************************************************************)
LEMMA StepTypes ==
    ASSUME Inv
    PROVE  /\ ThreadsTypeOK
           /\ files \in [Device -> [Path -> {None} \cup Body]]
           /\ dbPath \in [Device -> Path \cup {None}]
           /\ creds \in [Device -> Account \cup {None}]
           /\ dirty \in [Device -> BOOLEAN]
           /\ remoteBody \in [Account -> {None} \cup Body]
           /\ client \in [Device -> [Thread -> Account \cup {None}]]
           /\ target \in [Device -> [Thread -> Path \cup {None}]]
           /\ bytes \in [Device -> [Thread -> {None} \cup Body]]
BY DEF Inv, TypeOK, DatabaseTypeOK, SyncTypeOK

(***************************************************************************)
(* The inductive invariant holds of every reachable state, whatever the    *)
(* number of devices, accounts and concurrent calls.                       *)
(***************************************************************************)
THEOREM SessionInvariant == Spec => []Inv
  BY InitInv, NextInv, PTL DEF Spec

(***************************************************************************)
(* Type correctness of the sync service, the connection and the session.   *)
(***************************************************************************)
THEOREM SessionTypeCorrect == Spec => []TypeOK
<1>1. Inv => TypeOK
  BY DEF Inv
<1> QED
  BY <1>1, SessionInvariant, PTL

(***************************************************************************)
(* _isUploading makes uploadDb exclusive and is never left set.            *)
(***************************************************************************)
THEOREM UploadsExclusive == Spec => []OneUploader
<1>1. Inv => OneUploader
  BY DEF Inv
<1> QED
  BY <1>1, SessionInvariant, PTL

(***************************************************************************)
(* downloadDb never writes under an open connection.                       *)
(***************************************************************************)
THEOREM DownloadsOffline == Spec => []DownloadOffline
<1>1. Inv => DownloadOffline
  BY DEF Inv, Connected, DownloadOffline, ClosedPC
<1> QED
  BY <1>1, SessionInvariant, PTL

(***************************************************************************)
(* Whoever reaches the dashboard finds an open database.                   *)
(***************************************************************************)
THEOREM DashboardUsable == Spec => []DashboardHasDatabase
<1>1. Inv => DashboardHasDatabase
  BY DEF Inv, Connected, DashboardHasDatabase, OpenPC, At
<1> QED
  BY <1>1, SessionInvariant, PTL

=============================================================================
