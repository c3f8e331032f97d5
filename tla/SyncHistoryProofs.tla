-------------------------- MODULE SyncHistoryProofs --------------------------
(***************************************************************************)
(* Proofs about SyncHistory: which changes the sync can lose, for any      *)
(* number of devices, accounts, changes and concurrent calls.              *)
(***************************************************************************)
EXTENDS SyncHistory, AppSessionProofs

Reading == {"reading", "put"}
Overwriting == {"close", "get", "save"}

(* What protects the changes in winecellar.db of d: the flag; and where    *)
(* the flag is about to be cleared or ignored, the server or the bytes     *)
(* that are being uploaded.                                                *)
Protected(d) ==
    /\ dirty[d] \/ Local(d) \subseteq stored[d] \cup exposed[d]
    /\ pc[d][Main] \in Overwriting => Local(d) \subseteq stored[d] \cup exposed[d]
    /\ \A t \in Thread : target[d][t] = Default =>
          /\ pc[d][t] \in Reading =>
                Local(d) \subseteq Changes(bytes[d][t]) \cup stored[d] \cup exposed[d]
          /\ pc[d][t] = "clear" => Local(d) \subseteq stored[d] \cup exposed[d]

HInv == Inv /\ \A d \in Device : Protected(d)

(* What a step of d has to satisfy to keep Protected(d).                   *)
FlagKept(d) ==
    \/ dirty'[d] \/ ~dirty[d] \/ ExposesAll(d)
    \/ \E t \in Thread : pc[d][t] = "clear" /\ target[d][t] = Default

OverwriteKept(d) ==
    pc'[d][Main] \in Overwriting =>
        pc[d][Main] \in Overwriting \/ ~dirty[d] \/ ExposesAll(d)

ReadKept(d) ==
    \A t \in Thread : pc'[d][t] \in Reading =>
        \/ ExposesAll(d)
        \/ /\ pc[d][t] \in Reading
           /\ target'[d][t] = target[d][t] /\ bytes'[d][t] = bytes[d][t]
        \/ files'[d] = files[d] /\ bytes'[d][t] = files[d][target'[d][t]]

ClearKept(d) ==
    \A t \in Thread : pc'[d][t] = "clear" =>
        pc[d][t] \in {"put", "clear"} /\ target'[d][t] = target[d][t]

(* A step that flags or exposes all changes does not touch the files, and  *)
(* one that flags them opens no window in which the flag is in vain.       *)
HistoryKept(d) ==
    /\ ExposesAll(d) => files'[d] = files[d]
    /\ Protects(d) =>
          /\ dirty'[d]
          /\ pc'[d][Main] \in Overwriting => pc[d][Main] \in Overwriting
          /\ \A t \in Thread : pc'[d][t] \in Reading \cup {"clear"} =>
                                  pc[d][t] \in Reading \cup {"clear"}

StepKept(d) ==
    FlagKept(d) /\ OverwriteKept(d) /\ ReadKept(d) /\ ClearKept(d) /\ HistoryKept(d)

(* Nothing of device d changes.                                            *)
Same(d) ==
    /\ files'[d] = files[d] /\ dirty'[d] = dirty[d] /\ pc'[d] = pc[d]
    /\ target'[d] = target[d] /\ bytes'[d] = bytes[d]

(***************************************************************************)
(* Unless a markDirty() protects them all, what is stored or exposed stays *)
(* so, and new changes in winecellar.db are stored or exposed.             *)
(***************************************************************************)
LEMMA HistoryGrows ==
    ASSUME HistoryStep, NEW d \in Device, HistoryKept(d), ~Protects(d)
    PROVE  /\ stored[d] \cup exposed[d] \subseteq stored'[d] \cup exposed'[d]
           /\ Local(d)' \subseteq Local(d) \cup stored'[d] \cup exposed'[d]
           /\ ExposesAll(d) => Local(d) \subseteq exposed'[d]
           /\ StoredBy(d) \subseteq stored'[d]
<1>1. stored'[d] = stored[d] \cup StoredBy(d)
  BY DEF HistoryStep
<1>2. CASE ExposesAll(d)
  <2>1. exposed'[d] = exposed[d] \cup Local(d)
    BY <1>2 DEF HistoryStep
  <2>2. Local(d)' = Local(d)
    BY <1>2 DEF HistoryKept, Local
  <2> QED
    BY <1>1, <2>1, <2>2
<1>3. CASE ~ExposesAll(d)
  <2>1. exposed'[d] = exposed[d] \cup (Local(d)' \ (Local(d) \cup stored'[d]))
    BY <1>3 DEF HistoryStep
  <2> QED
    BY <1>1, <1>3, <2>1
<1> QED
  BY <1>2, <1>3

(***************************************************************************)
(* A step that satisfies StepKept keeps the changes of d protected.        *)
(***************************************************************************)
LEMMA KeptSuffices ==
    ASSUME HistoryStep, NEW d \in Device, Protected(d), StepKept(d)
    PROVE  Protected(d)'
<1> DEFINE K == stored[d] \cup exposed[d]
<1> DEFINE L == Local(d)
<1> DEFINE NK == stored'[d] \cup exposed'[d]
<1> DEFINE NL == Local(d)'
<1>1. CASE Protects(d)
  <2>1. /\ \A t \in Thread : pc[d][t] \notin Reading \cup {"clear"}
        /\ pc[d][Main] \notin Overwriting
    BY <1>1 DEF Protects, FlagInVain, Reading, Overwriting, DownloadPC
  <2>2. /\ dirty'[d]
        /\ \A t \in Thread : pc'[d][t] \notin Reading \cup {"clear"}
        /\ pc'[d][Main] \notin Overwriting
    BY <1>1, <2>1 DEF StepKept, HistoryKept
  <2> QED
    BY <2>2 DEF Protected
<1>2. CASE ~Protects(d)
  <2>1. /\ K \subseteq NK
        /\ NL \subseteq L \cup NK
        /\ ExposesAll(d) => L \subseteq NK
        /\ StoredBy(d) \subseteq NK
    BY <1>2, HistoryGrows DEF StepKept
  <2>2. (L \subseteq K \/ ExposesAll(d)) => NL \subseteq NK
    BY <2>1
  <2>3. dirty'[d] \/ NL \subseteq NK
    <3> HIDE DEF K, L, NK, NL
    <3>1. dirty[d] \/ L \subseteq K
      BY DEF Protected, K, L
    <3>2. \A t \in Thread : pc[d][t] = "clear" /\ target[d][t] = Default => L \subseteq K
      BY DEF Protected, K, L
    <3> QED
      BY <2>2, <3>1, <3>2 DEF StepKept, FlagKept
  <2>4. pc'[d][Main] \in Overwriting => NL \subseteq NK
    <3> HIDE DEF K, L, NK, NL
    <3>1. (~dirty[d] \/ pc[d][Main] \in Overwriting) => L \subseteq K
      BY DEF Protected, K, L
    <3> QED
      BY <2>2, <3>1 DEF StepKept, OverwriteKept
  <2>5. ASSUME NEW t \in Thread, target'[d][t] = Default, pc'[d][t] \in Reading
        PROVE  NL \subseteq Changes(bytes'[d][t]) \cup NK
    <3>1. CASE ExposesAll(d)
      BY <2>2, <3>1
    <3>2. CASE /\ pc[d][t] \in Reading
               /\ target'[d][t] = target[d][t] /\ bytes'[d][t] = bytes[d][t]
      <4>1. L \subseteq Changes(bytes[d][t]) \cup K
        BY <2>5, <3>2 DEF Protected
      <4> QED
        BY <2>1, <3>2, <4>1
    <3>3. CASE files'[d] = files[d] /\ bytes'[d][t] = files[d][target'[d][t]]
      <4>1. NL = Changes(bytes'[d][t])
        BY <2>5, <3>3 DEF Local, Changes
      <4> QED
        BY <4>1
    <3> QED
      BY <2>5, <3>1, <3>2, <3>3 DEF StepKept, ReadKept
  <2>6. ASSUME NEW t \in Thread, target'[d][t] = Default, pc'[d][t] = "clear"
        PROVE  NL \subseteq NK
    <3>1. pc[d][t] \in {"put", "clear"} /\ target[d][t] = Default
      BY <2>6 DEF StepKept, ClearKept
    <3>2. CASE pc[d][t] = "clear"
      BY <2>2, <3>1, <3>2 DEF Protected
    <3>3. CASE pc[d][t] = "put"
      <4>1. L \subseteq Changes(bytes[d][t]) \cup K
        BY <3>1, <3>3 DEF Protected, Reading
      <4>2. Steps(d, t, "put", "clear")
        BY <2>6, <3>3 DEF Steps
      <4>3. Changes(bytes[d][t]) \subseteq StoredBy(d)
        BY <4>2 DEF StoredBy
      <4> QED
        BY <2>1, <4>1, <4>3
    <3> QED
      BY <3>1, <3>2, <3>3
  <2> QED
    BY <2>3, <2>4, <2>5, <2>6 DEF Protected, Changes
<1> QED
  BY <1>1, <1>2

(***************************************************************************)
(* A step of another device keeps the changes of d protected.              *)
(***************************************************************************)
LEMMA SameKept ==
    ASSUME NEW d \in Device, Same(d)
    PROVE  StepKept(d)
BY DEF Same, StepKept, FlagKept, OverwriteKept, ReadKept, ClearKept,
   HistoryKept,
       ExposesAll, Protects, Steps, AfterUpload, Overwriting, Reading

(* At most thread t of device d moves ...                                  *)
OneMoves(d, t) ==
    \A u \in Thread \ {t} : /\ pc'[d][u] = pc[d][u]
                            /\ target'[d][u] = target[d][u]
                            /\ bytes'[d][u] = bytes[d][u]

(* ... and to a label that protects, exposes and reads nothing.            *)
Ordinary(d, t) ==
    /\ OneMoves(d, t)
    /\ dirty'[d] = dirty[d]
    /\ pc'[d][t] \notin Reading \cup {"clear", "stamp"}
    /\ pc'[d][t] \in Overwriting => pc[d][t] \in Overwriting \/ ~dirty[d]
    /\ files'[d] = files[d] \/ pc[d][t] \notin {"loginClear", "resolve", "reading", "clear"}

(***************************************************************************)
(* An ordinary step keeps the changes of d protected.                      *)
(***************************************************************************)
LEMMA OrdinaryKept ==
    ASSUME NEW d \in Device, NEW t \in Thread, Ordinary(d, t)
    PROVE  StepKept(d)
<1> USE DEF Ordinary, OneMoves
<1>1. Main \in Thread /\ Call \subseteq Thread
  BY DEF Thread
<1>2. FlagKept(d)
  BY DEF FlagKept
<1>3. OverwriteKept(d)
  BY <1>1 DEF OverwriteKept
<1>4. ReadKept(d)
  BY DEF ReadKept
<1>5. ClearKept(d)
  BY DEF ClearKept
<1>6. ~Protects(d)
  BY <1>1 DEF Protects, Steps
<1>7. ExposesAll(d) => files'[d] = files[d]
  BY <1>1 DEF ExposesAll, Steps, AfterUpload
<1> QED
  BY <1>2, <1>3, <1>4, <1>5, <1>6, <1>7 DEF StepKept, HistoryKept

(***************************************************************************)
(* Every step of uploadDb keeps the changes protected.                     *)
(***************************************************************************)
LEMMA UploadKept ==
    ASSUME Inv, NEW d \in Device, NEW t \in Thread, UploadStep(d, t)
    PROVE  StepKept(d) /\ \A e \in Device \ {d} : Same(e)
<1>1. /\ ThreadsTypeOK
      /\ files \in [Device -> [Path -> {None} \cup Body]]
      /\ dirty \in [Device -> BOOLEAN]
      /\ target \in [Device -> [Thread -> Path \cup {None}]]
      /\ bytes \in [Device -> [Thread -> {None} \cup Body]]
      /\ Main \in Thread
      /\ Call \subseteq Thread
  BY StepTypes DEF Thread
<1> USE DEF dbVars, prefVars, remoteVars, regVars, syncVars
<1>2. CASE SkipUpload(d, t)
  <2>1. /\ pc[d][t] = "enter"
        /\ pc'[d][t] = AfterUpload(t)
        /\ \A u \in Thread \ {t} : pc'[d][u] = pc[d][u]
        /\ \A e \in Device \ {d} : pc'[e] = pc[e]
    BY <1>1, <1>2, Moved DEF SkipUpload, At
  <2>2. \A e \in Device \ {d} : Same(e)
    BY <1>1, <1>2, <2>1 DEF SkipUpload, Same
  <2>3. Ordinary(d, t)
    BY <1>1, <1>2, <2>1 DEF SkipUpload, Ordinary, OneMoves, Reading,
       Overwriting, AfterUpload
  <2> QED
    BY <1>1, <2>2, <2>3, OrdinaryKept
<1>3. CASE BeginUpload(d, t)
  <2>1. /\ pc[d][t] = "enter"
        /\ pc'[d][t] = "checkpoint"
        /\ \A u \in Thread \ {t} : pc'[d][u] = pc[d][u]
        /\ \A e \in Device \ {d} : pc'[e] = pc[e]
    BY <1>1, <1>3, Moved DEF BeginUpload, At
  <2>2. \A e \in Device \ {d} : Same(e)
    BY <1>1, <1>3, <2>1 DEF BeginUpload, Same
  <2>3. Ordinary(d, t)
    BY <1>1, <1>3, <2>1 DEF BeginUpload, Ordinary, OneMoves, Reading,
       Overwriting
  <2> QED
    BY <1>1, <2>2, <2>3, OrdinaryKept
<1>4. CASE UploadThrows(d, t)
  <2>1. /\ pc[d][t] \in UploadPC
        /\ pc'[d][t] = AfterUpload(t)
        /\ \A u \in Thread \ {t} : pc'[d][u] = pc[d][u]
        /\ \A e \in Device \ {d} : pc'[e] = pc[e]
    BY <1>1, <1>4, Moved DEF UploadThrows, At, LeaveUpload
  <2>2. \A e \in Device \ {d} : Same(e)
    BY <1>1, <1>4, <2>1 DEF UploadThrows, LeaveUpload, Same
  <2>3. Ordinary(d, t)
    BY <1>1, <1>4, <2>1 DEF UploadThrows, LeaveUpload, Ordinary, OneMoves,
       Reading, Overwriting, AfterUpload
  <2> QED
    BY <1>1, <2>2, <2>3, OrdinaryKept
<1>5. CASE Checkpoint(d, t)
  <2>1. /\ pc[d][t] = "checkpoint"
        /\ pc'[d][t] = "client"
        /\ \A u \in Thread \ {t} : pc'[d][u] = pc[d][u]
        /\ \A e \in Device \ {d} : pc'[e] = pc[e]
    BY <1>1, <1>5, Moved DEF Checkpoint, At
  <2>2. \A e \in Device \ {d} : Same(e)
    BY <1>1, <1>5, <2>1 DEF Checkpoint, Same
  <2>3. Ordinary(d, t)
    BY <1>1, <1>5, <2>1 DEF Checkpoint, Ordinary, OneMoves, Reading, Overwriting
  <2> QED
    BY <1>1, <2>2, <2>3, OrdinaryKept
<1>6. CASE NoClient(d, t)
  <2>1. /\ pc[d][t] = "client"
        /\ pc'[d][t] = AfterUpload(t)
        /\ \A u \in Thread \ {t} : pc'[d][u] = pc[d][u]
        /\ \A e \in Device \ {d} : pc'[e] = pc[e]
    BY <1>1, <1>6, Moved DEF NoClient, At, LeaveUpload
  <2>2. \A e \in Device \ {d} : Same(e)
    BY <1>1, <1>6, <2>1 DEF NoClient, LeaveUpload, Same
  <2>3. Ordinary(d, t)
    BY <1>1, <1>6, <2>1 DEF NoClient, LeaveUpload, Ordinary, OneMoves, Reading,
       Overwriting, AfterUpload
  <2> QED
    BY <1>1, <2>2, <2>3, OrdinaryKept
<1>7. CASE GetClient(d, t)
  <2>1. /\ pc[d][t] = "client"
        /\ pc'[d][t] = "read"
        /\ \A u \in Thread \ {t} : pc'[d][u] = pc[d][u]
        /\ \A e \in Device \ {d} : pc'[e] = pc[e]
    BY <1>1, <1>7, Moved DEF GetClient, At
  <2>2. \A e \in Device \ {d} : Same(e)
    BY <1>1, <1>7, <2>1 DEF GetClient, Same
  <2>3. Ordinary(d, t)
    BY <1>1, <1>7, <2>1 DEF GetClient, Ordinary, OneMoves, Reading, Overwriting
  <2> QED
    BY <1>1, <2>2, <2>3, OrdinaryKept
<1>8. CASE BeginRead(d, t)
  <2>1. /\ pc[d][t] = "read"
        /\ pc'[d][t] = "reading"
        /\ \A u \in Thread \ {t} : pc'[d][u] = pc[d][u]
        /\ \A e \in Device \ {d} : pc'[e] = pc[e]
    BY <1>1, <1>8, Moved DEF BeginRead, At
  <2>2. \A e \in Device \ {d} : Same(e)
    BY <1>1, <1>8, <2>1 DEF BeginRead, Same
  <2>3. OneMoves(d, t)
    BY <1>1, <1>8, <2>1 DEF BeginRead, OneMoves
  <2>4. FlagKept(d)
    BY <1>1, <1>8, <2>1 DEF BeginRead, FlagKept
  <2>5. OverwriteKept(d)
    BY <1>1, <2>1, <2>3 DEF OneMoves, OverwriteKept, Overwriting
  <2>6. ReadKept(d)
    BY <1>1, <1>8, <2>1, <2>3 DEF BeginRead, OneMoves, ReadKept, Reading
  <2>7. ClearKept(d)
    BY <1>1, <1>8, <2>1, <2>3 DEF BeginRead, OneMoves, ClearKept
  <2>8. HistoryKept(d)
    BY <1>1, <1>8, <2>1, <2>3 DEF BeginRead, OneMoves, HistoryKept, Protects,
       Steps, Reading, Overwriting
  <2> QED
    BY <2>2, <2>4, <2>5, <2>6, <2>7, <2>8 DEF StepKept
<1>9. CASE EndRead(d, t)
  <2>1. /\ pc[d][t] = "reading"
        /\ pc'[d][t] = "put"
        /\ \A u \in Thread \ {t} : pc'[d][u] = pc[d][u]
        /\ \A e \in Device \ {d} : pc'[e] = pc[e]
    BY <1>1, <1>9, Moved DEF EndRead, At
  <2>2. \A e \in Device \ {d} : Same(e)
    BY <1>1, <1>9, <2>1 DEF EndRead, Same
  <2>3. OneMoves(d, t)
    BY <1>1, <1>9, <2>1 DEF EndRead, OneMoves
  <2>4. FlagKept(d)
    BY <1>1, <1>9, <2>1 DEF EndRead, FlagKept
  <2>5. OverwriteKept(d)
    BY <1>1, <2>1, <2>3 DEF OneMoves, OverwriteKept, Overwriting
  <2>6. ReadKept(d)
    <3>1. /\ files'[d] = files[d] /\ target'[d][t] = target[d][t]
          /\ bytes'[d][t] \in {bytes[d][t], files[d][target[d][t]], Torn}
      BY <1>1, <1>9 DEF EndRead
    <3>2. bytes'[d][t] = Torn => ExposesAll(d)
      BY <2>1 DEF ExposesAll, Steps
    <3> QED
      BY <2>1, <2>3, <3>1, <3>2 DEF ReadKept, Reading, OneMoves
  <2>7. ClearKept(d)
    BY <1>1, <1>9, <2>1, <2>3 DEF EndRead, OneMoves, ClearKept
  <2>8. HistoryKept(d)
    BY <1>1, <1>9, <2>1, <2>3 DEF EndRead, OneMoves, HistoryKept, Protects,
       Steps, Reading, Overwriting
  <2> QED
    BY <2>2, <2>4, <2>5, <2>6, <2>7, <2>8 DEF StepKept
<1>10. CASE Put(d, t)
  <2>1. /\ pc[d][t] = "put"
        /\ pc'[d][t] = "clear"
        /\ \A u \in Thread \ {t} : pc'[d][u] = pc[d][u]
        /\ \A e \in Device \ {d} : pc'[e] = pc[e]
    BY <1>1, <1>10, Moved DEF Put, At
  <2>2. \A e \in Device \ {d} : Same(e)
    BY <1>1, <1>10, <2>1 DEF Put, Same
  <2>3. OneMoves(d, t)
    BY <1>1, <1>10, <2>1 DEF Put, OneMoves
  <2>4. FlagKept(d)
    BY <1>1, <1>10, <2>1 DEF Put, FlagKept
  <2>5. OverwriteKept(d)
    BY <1>1, <2>1, <2>3 DEF OneMoves, OverwriteKept, Overwriting
  <2>6. ReadKept(d)
    BY <1>1, <1>10, <2>1, <2>3 DEF Put, OneMoves, ReadKept, Reading
  <2>7. ClearKept(d)
    BY <1>1, <1>10, <2>1, <2>3 DEF Put, OneMoves, ClearKept
  <2>8. HistoryKept(d)
    BY <1>1, <1>10, <2>1, <2>3 DEF Put, OneMoves, HistoryKept, Protects, Steps,
       Reading, Overwriting
  <2> QED
    BY <2>2, <2>4, <2>5, <2>6, <2>7, <2>8 DEF StepKept
<1>11. CASE PutUnanswered(d, t)
  <2>1. /\ pc[d][t] = "put"
        /\ pc'[d][t] = AfterUpload(t)
        /\ \A u \in Thread \ {t} : pc'[d][u] = pc[d][u]
        /\ \A e \in Device \ {d} : pc'[e] = pc[e]
    BY <1>1, <1>11, Moved DEF PutUnanswered, At, LeaveUpload
  <2>2. \A e \in Device \ {d} : Same(e)
    BY <1>1, <1>11, <2>1 DEF PutUnanswered, LeaveUpload, Same
  <2>3. Ordinary(d, t)
    BY <1>1, <1>11, <2>1 DEF PutUnanswered, LeaveUpload, Ordinary, OneMoves,
       Reading, Overwriting, AfterUpload
  <2> QED
    BY <1>1, <2>2, <2>3, OrdinaryKept
<1>12. CASE ClearAfterUpload(d, t)
  <2>1. /\ pc[d][t] = "clear"
        /\ pc'[d][t] = AfterUpload(t)
        /\ \A u \in Thread \ {t} : pc'[d][u] = pc[d][u]
        /\ \A e \in Device \ {d} : pc'[e] = pc[e]
    BY <1>1, <1>12, Moved DEF ClearAfterUpload, At, LeaveUpload
  <2>2. \A e \in Device \ {d} : Same(e)
    BY <1>1, <1>12, <2>1 DEF ClearAfterUpload, LeaveUpload, Same
  <2>3. OneMoves(d, t)
    BY <1>1, <1>12, <2>1 DEF ClearAfterUpload, LeaveUpload, AfterUpload,
       OneMoves
  <2>4. FlagKept(d)
    BY <1>1, <1>12, <2>1 DEF ClearAfterUpload, LeaveUpload, AfterUpload,
       FlagKept, ExposesAll, Steps
  <2>5. OverwriteKept(d)
    BY <1>1, <2>1, <2>3 DEF OneMoves, OverwriteKept, Overwriting, AfterUpload
  <2>6. ReadKept(d)
    BY <1>1, <1>12, <2>1, <2>3 DEF ClearAfterUpload, LeaveUpload, AfterUpload,
       OneMoves, ReadKept, Reading
  <2>7. ClearKept(d)
    BY <1>1, <1>12, <2>1, <2>3 DEF ClearAfterUpload, LeaveUpload, AfterUpload,
       OneMoves, ClearKept
  <2>8. HistoryKept(d)
    BY <1>1, <1>12, <2>1, <2>3 DEF ClearAfterUpload, LeaveUpload, AfterUpload,
       OneMoves, HistoryKept, Protects, Steps, Reading, Overwriting
  <2> QED
    BY <2>2, <2>4, <2>5, <2>6, <2>7, <2>8 DEF StepKept
<1> QED
  BY <1>2, <1>3, <1>4, <1>5, <1>6, <1>7, <1>8, <1>9, <1>10, <1>11, <1>12
     DEF UploadStep

(***************************************************************************)
(* The two preferences of markDirty() too.                                 *)
(***************************************************************************)
LEMMA CallKept ==
    ASSUME Inv, NEW d \in Device, NEW c \in Call,
           MarkDirty(d, c) \/ StampLastWrite(d, c)
    PROVE  StepKept(d) /\ \A e \in Device \ {d} : Same(e)
<1>1. /\ ThreadsTypeOK
      /\ files \in [Device -> [Path -> {None} \cup Body]]
      /\ dirty \in [Device -> BOOLEAN]
      /\ target \in [Device -> [Thread -> Path \cup {None}]]
      /\ bytes \in [Device -> [Thread -> {None} \cup Body]]
      /\ c \in Thread /\ Main \in Thread
      /\ Call \subseteq Thread
  BY StepTypes DEF Thread
<1> USE DEF dbVars, prefVars, remoteVars, regVars, syncVars
<1>2. CASE MarkDirty(d, c)
  <2>1. /\ pc[d][c] = "mark"
        /\ pc'[d][c] = "stamp"
        /\ \A u \in Thread \ {c} : pc'[d][u] = pc[d][u]
        /\ \A e \in Device \ {d} : pc'[e] = pc[e]
    BY <1>1, <1>2, Moved DEF MarkDirty, At
  <2>2. \A e \in Device \ {d} : Same(e)
    BY <1>1, <1>2, <2>1 DEF MarkDirty, Same
  <2>3. OneMoves(d, c)
    BY <1>1, <1>2, <2>1 DEF MarkDirty, OneMoves
  <2>4. FlagKept(d)
    BY <1>1, <1>2, <2>1 DEF MarkDirty, FlagKept
  <2>5. OverwriteKept(d)
    BY <1>1, <2>1, <2>3 DEF OneMoves, OverwriteKept, Overwriting
  <2>6. ReadKept(d)
    BY <1>1, <1>2, <2>1, <2>3 DEF MarkDirty, OneMoves, ReadKept, Reading
  <2>7. ClearKept(d)
    BY <1>1, <1>2, <2>1, <2>3 DEF MarkDirty, OneMoves, ClearKept
  <2>8. HistoryKept(d)
    BY <1>1, <1>2, <2>1, <2>3 DEF MarkDirty, OneMoves, HistoryKept, Protects,
       Steps, Reading, Overwriting
  <2> QED
    BY <2>2, <2>4, <2>5, <2>6, <2>7, <2>8 DEF StepKept
<1>3. CASE StampLastWrite(d, c)
  <2>1. /\ pc[d][c] = "stamp"
        /\ pc'[d][c] = "enter"
        /\ \A u \in Thread \ {c} : pc'[d][u] = pc[d][u]
        /\ \A e \in Device \ {d} : pc'[e] = pc[e]
    BY <1>1, <1>3, Moved DEF StampLastWrite, At
  <2>2. \A e \in Device \ {d} : Same(e)
    BY <1>1, <1>3, <2>1 DEF StampLastWrite, Same
  <2>3. Ordinary(d, c)
    BY <1>1, <1>3, <2>1 DEF StampLastWrite, Ordinary, OneMoves, Reading,
       Overwriting
  <2> QED
    BY <1>1, <2>2, <2>3, OrdinaryKept
<1> QED
  BY <1>2, <1>3

(***************************************************************************)
(* And every step of syncOnStart.                                          *)
(***************************************************************************)
LEMMA StartKept ==
    ASSUME Inv, NEW d \in Device, StartStep(d)
    PROVE  StepKept(d) /\ \A e \in Device \ {d} : Same(e)
<1>1. /\ ThreadsTypeOK
      /\ files \in [Device -> [Path -> {None} \cup Body]]
      /\ dirty \in [Device -> BOOLEAN]
      /\ target \in [Device -> [Thread -> Path \cup {None}]]
      /\ bytes \in [Device -> [Thread -> {None} \cup Body]]
      /\ Main \in Thread
      /\ Call \subseteq Thread
  BY StepTypes DEF Thread
<1> USE DEF dbVars, prefVars, remoteVars, regVars, syncVars
<1>2. CASE StartInit(d)
  <2>1. /\ pc[d][Main] = "init"
        /\ pc'[d][Main] = "start"
        /\ \A u \in Thread \ {Main} : pc'[d][u] = pc[d][u]
        /\ \A e \in Device \ {d} : pc'[e] = pc[e]
    BY <1>1, <1>2, Moved DEF StartInit, At
  <2>2. \A e \in Device \ {d} : Same(e)
    BY <1>1, <1>2, <2>1 DEF StartInit, InitDb, OpenAt, Same
  <2>3. Ordinary(d, Main)
    BY <1>1, <1>2, <2>1 DEF StartInit, InitDb, OpenAt, Ordinary, OneMoves,
       Reading, Overwriting
  <2> QED
    BY <1>1, <2>2, <2>3, OrdinaryKept
<1>3. CASE StartInitThrows(d)
  <2>1. /\ pc[d][Main] = "init"
        /\ pc'[d][Main] = "login"
        /\ \A u \in Thread \ {Main} : pc'[d][u] = pc[d][u]
        /\ \A e \in Device \ {d} : pc'[e] = pc[e]
    BY <1>1, <1>3, Moved DEF StartInitThrows, At
  <2>2. \A e \in Device \ {d} : Same(e)
    BY <1>1, <1>3, <2>1 DEF StartInitThrows, OpenFails, Same
  <2>3. Ordinary(d, Main)
    BY <1>1, <1>3, <2>1 DEF StartInitThrows, OpenFails, Ordinary, OneMoves,
       Reading, Overwriting
  <2> QED
    BY <1>1, <2>2, <2>3, OrdinaryKept
<1>4. CASE CheckDirty(d)
  <2>1. /\ pc[d][Main] = "start"
        /\ pc'[d][Main] = IF dirty[d] THEN "lastmod" ELSE "close"
        /\ \A u \in Thread \ {Main} : pc'[d][u] = pc[d][u]
        /\ \A e \in Device \ {d} : pc'[e] = pc[e]
    BY <1>1, <1>4, Moved DEF CheckDirty, At
  <2>2. \A e \in Device \ {d} : Same(e)
    BY <1>1, <1>4, <2>1 DEF CheckDirty, Same
  <2>3. Ordinary(d, Main)
    BY <1>1, <1>4, <2>1 DEF CheckDirty, Ordinary, OneMoves, Reading, Overwriting
  <2> QED
    BY <1>1, <2>2, <2>3, OrdinaryKept
<1>5. CASE CompareTimes(d)
  <2>1. /\ pc[d][Main] = "lastmod"
        /\ pc'[d][Main] \in {"conflict", "enter"}
        /\ \A u \in Thread \ {Main} : pc'[d][u] = pc[d][u]
        /\ \A e \in Device \ {d} : pc'[e] = pc[e]
    BY <1>1, <1>5, Moved DEF CompareTimes, At
  <2>2. \A e \in Device \ {d} : Same(e)
    BY <1>1, <1>5, <2>1 DEF CompareTimes, Same
  <2>3. Ordinary(d, Main)
    BY <1>1, <1>5, <2>1 DEF CompareTimes, Ordinary, OneMoves, Reading,
       Overwriting
  <2> QED
    BY <1>1, <2>2, <2>3, OrdinaryKept
<1>6. CASE ResolveWithRemote(d)
  <2>1. /\ pc[d][Main] = "resolve"
        /\ pc'[d][Main] = "close"
        /\ \A u \in Thread \ {Main} : pc'[d][u] = pc[d][u]
        /\ \A e \in Device \ {d} : pc'[e] = pc[e]
    BY <1>1, <1>6, Moved DEF ResolveWithRemote, At
  <2>2. \A e \in Device \ {d} : Same(e)
    BY <1>1, <1>6, <2>1 DEF ResolveWithRemote, Same
  <2>3. OneMoves(d, Main)
    BY <1>1, <1>6, <2>1 DEF ResolveWithRemote, OneMoves
  <2>4. FlagKept(d)
    BY <1>1, <1>6, <2>1 DEF ResolveWithRemote, FlagKept, ExposesAll, Steps
  <2>5. OverwriteKept(d)
    BY <1>1, <2>1, <2>3 DEF OneMoves, OverwriteKept, Overwriting, ExposesAll,
       Steps
  <2>6. ReadKept(d)
    BY <1>1, <1>6, <2>1, <2>3 DEF ResolveWithRemote, OneMoves, ReadKept, Reading
  <2>7. ClearKept(d)
    BY <1>1, <1>6, <2>1, <2>3 DEF ResolveWithRemote, OneMoves, ClearKept
  <2>8. HistoryKept(d)
    BY <1>1, <1>6, <2>1, <2>3 DEF ResolveWithRemote, OneMoves, HistoryKept,
       Protects, Steps, Reading, Overwriting
  <2> QED
    BY <2>2, <2>4, <2>5, <2>6, <2>7, <2>8 DEF StepKept
<1>7. CASE CloseForDownload(d)
  <2>1. /\ pc[d][Main] = "close"
        /\ pc'[d][Main] = "get"
        /\ \A u \in Thread \ {Main} : pc'[d][u] = pc[d][u]
        /\ \A e \in Device \ {d} : pc'[e] = pc[e]
    BY <1>1, <1>7, Moved DEF CloseForDownload, At
  <2>2. \A e \in Device \ {d} : Same(e)
    BY <1>1, <1>7, <2>1 DEF CloseForDownload, Close, Same
  <2>3. Ordinary(d, Main)
    BY <1>1, <1>7, <2>1 DEF CloseForDownload, Close, Ordinary, OneMoves,
       Reading, Overwriting
  <2> QED
    BY <1>1, <2>2, <2>3, OrdinaryKept
<1>8. CASE ReadRemote(d)
  <2>1. /\ pc[d][Main] = "get"
        /\ pc'[d][Main] = "save"
        /\ \A u \in Thread \ {Main} : pc'[d][u] = pc[d][u]
        /\ \A e \in Device \ {d} : pc'[e] = pc[e]
    BY <1>1, <1>8, Moved DEF ReadRemote, At
  <2>2. \A e \in Device \ {d} : Same(e)
    BY <1>1, <1>8, <2>1 DEF ReadRemote, Same
  <2>3. Ordinary(d, Main)
    BY <1>1, <1>8, <2>1 DEF ReadRemote, Ordinary, OneMoves, Reading, Overwriting
  <2> QED
    BY <1>1, <2>2, <2>3, OrdinaryKept
<1>9. CASE SkipDownload(d)
  <2>1. /\ pc[d][Main] \in {"get", "save"}
        /\ pc'[d][Main] = "reopen"
        /\ \A u \in Thread \ {Main} : pc'[d][u] = pc[d][u]
        /\ \A e \in Device \ {d} : pc'[e] = pc[e]
    BY <1>1, <1>9, Moved DEF SkipDownload, At
  <2>2. \A e \in Device \ {d} : Same(e)
    BY <1>1, <1>9, <2>1 DEF SkipDownload, Same
  <2>3. Ordinary(d, Main)
    BY <1>1, <1>9, <2>1 DEF SkipDownload, Ordinary, OneMoves, Reading,
       Overwriting
  <2> QED
    BY <1>1, <2>2, <2>3, OrdinaryKept
<1>10. CASE BeginSave(d)
  <2>1. /\ pc[d][Main] = "save"
        /\ pc'[d][Main] = "saving"
        /\ \A u \in Thread \ {Main} : pc'[d][u] = pc[d][u]
        /\ \A e \in Device \ {d} : pc'[e] = pc[e]
    BY <1>1, <1>10, Moved DEF BeginSave, At
  <2>2. \A e \in Device \ {d} : Same(e)
    BY <1>1, <1>10, <2>1 DEF BeginSave, Same
  <2>3. Ordinary(d, Main)
    BY <1>1, <1>10, <2>1 DEF BeginSave, Ordinary, OneMoves, Reading, Overwriting
  <2> QED
    BY <1>1, <2>2, <2>3, OrdinaryKept
<1>11. CASE EndSave(d)
  <2>1. /\ pc[d][Main] = "saving"
        /\ pc'[d][Main] = "reopen"
        /\ \A u \in Thread \ {Main} : pc'[d][u] = pc[d][u]
        /\ \A e \in Device \ {d} : pc'[e] = pc[e]
    BY <1>1, <1>11, Moved DEF EndSave, At
  <2>2. \A e \in Device \ {d} : Same(e)
    BY <1>1, <1>11, <2>1 DEF EndSave, Same
  <2>3. Ordinary(d, Main)
    BY <1>1, <1>11, <2>1 DEF EndSave, Ordinary, OneMoves, Reading, Overwriting
  <2> QED
    BY <1>1, <2>2, <2>3, OrdinaryKept
<1>12. CASE Reopen(d)
  <2>1. /\ pc[d][Main] = "reopen"
        /\ pc'[d][Main] = "dash"
        /\ \A u \in Thread \ {Main} : pc'[d][u] = pc[d][u]
        /\ \A e \in Device \ {d} : pc'[e] = pc[e]
    BY <1>1, <1>12, Moved DEF Reopen, At
  <2>2. \A e \in Device \ {d} : Same(e)
    BY <1>1, <1>12, <2>1 DEF Reopen, InitDb, OpenAt, Same
  <2>3. Ordinary(d, Main)
    BY <1>1, <1>12, <2>1 DEF Reopen, InitDb, OpenAt, Ordinary, OneMoves,
       Reading, Overwriting
  <2> QED
    BY <1>1, <2>2, <2>3, OrdinaryKept
<1>13. CASE ReopenThrows(d)
  <2>1. /\ pc[d][Main] = "reopen"
        /\ pc'[d][Main] = IF flow[d] = "resolve" THEN "loading" ELSE "login"
        /\ \A u \in Thread \ {Main} : pc'[d][u] = pc[d][u]
        /\ \A e \in Device \ {d} : pc'[e] = pc[e]
    BY <1>1, <1>13, Moved DEF ReopenThrows, At
  <2>2. \A e \in Device \ {d} : Same(e)
    BY <1>1, <1>13, <2>1 DEF ReopenThrows, OpenFails, Same
  <2>3. Ordinary(d, Main)
    BY <1>1, <1>13, <2>1 DEF ReopenThrows, OpenFails, Ordinary, OneMoves,
       Reading, Overwriting
  <2> QED
    BY <1>1, <2>2, <2>3, OrdinaryKept
<1> QED
  BY <1>2, <1>3, <1>4, <1>5, <1>6, <1>7, <1>8, <1>9, <1>10, <1>11,
     <1>12, <1>13 DEF StartStep

(***************************************************************************)
(* The splash page and the dropping of the flag at a login keep them too.  *)
(***************************************************************************)
LEMMA PageKept ==
    ASSUME Inv, NEW d \in Device, PageStep(d)
    PROVE  StepKept(d) /\ \A e \in Device \ {d} : Same(e)
<1>1. /\ ThreadsTypeOK
      /\ files \in [Device -> [Path -> {None} \cup Body]]
      /\ dirty \in [Device -> BOOLEAN]
      /\ target \in [Device -> [Thread -> Path \cup {None}]]
      /\ bytes \in [Device -> [Thread -> {None} \cup Body]]
      /\ Main \in Thread
      /\ Call \subseteq Thread
  BY StepTypes DEF Thread
<1> USE DEF dbVars, prefVars, remoteVars, regVars, syncVars
<1>2. CASE SplashLocal(d)
  <2>1. /\ pc[d][Main] = "splash"
        /\ pc'[d][Main] \in {"dash", "login"}
        /\ \A u \in Thread \ {Main} : pc'[d][u] = pc[d][u]
        /\ \A e \in Device \ {d} : pc'[e] = pc[e]
    BY <1>1, <1>2, Moved DEF SplashLocal, At
  <2>2. \A e \in Device \ {d} : Same(e)
    BY <1>1, <1>2, <2>1 DEF SplashLocal, OpenAt, OpenFails, Same
  <2>3. Ordinary(d, Main)
    BY <1>1, <1>2, <2>1 DEF SplashLocal, OpenAt, OpenFails, Ordinary, OneMoves,
       Reading, Overwriting
  <2> QED
    BY <1>1, <2>2, <2>3, OrdinaryKept
<1>3. CASE SplashCloud(d)
  <2>1. /\ pc[d][Main] = "splash"
        /\ pc'[d][Main] \in {"init", "login"}
        /\ \A u \in Thread \ {Main} : pc'[d][u] = pc[d][u]
        /\ \A e \in Device \ {d} : pc'[e] = pc[e]
    BY <1>1, <1>3, Moved DEF SplashCloud, At
  <2>2. \A e \in Device \ {d} : Same(e)
    BY <1>1, <1>3, <2>1 DEF SplashCloud, Same
  <2>3. Ordinary(d, Main)
    BY <1>1, <1>3, <2>1 DEF SplashCloud, Ordinary, OneMoves, Reading,
       Overwriting
  <2> QED
    BY <1>1, <2>2, <2>3, OrdinaryKept
<1>4. CASE LoginClearDirty(d)
  <2>1. /\ pc[d][Main] = "loginClear"
        /\ pc'[d][Main] = "init"
        /\ \A u \in Thread \ {Main} : pc'[d][u] = pc[d][u]
        /\ \A e \in Device \ {d} : pc'[e] = pc[e]
    BY <1>1, <1>4, Moved DEF LoginClearDirty, At
  <2>2. \A e \in Device \ {d} : Same(e)
    BY <1>1, <1>4, <2>1 DEF LoginClearDirty, Same
  <2>3. OneMoves(d, Main)
    BY <1>1, <1>4, <2>1 DEF LoginClearDirty, OneMoves
  <2>4. FlagKept(d)
    BY <1>1, <1>4, <2>1 DEF LoginClearDirty, FlagKept, ExposesAll, Steps
  <2>5. OverwriteKept(d)
    BY <1>1, <2>1, <2>3 DEF OneMoves, OverwriteKept, Overwriting
  <2>6. ReadKept(d)
    BY <1>1, <1>4, <2>1, <2>3 DEF LoginClearDirty, OneMoves, ReadKept, Reading
  <2>7. ClearKept(d)
    BY <1>1, <1>4, <2>1, <2>3 DEF LoginClearDirty, OneMoves, ClearKept
  <2>8. HistoryKept(d)
    BY <1>1, <1>4, <2>1, <2>3 DEF LoginClearDirty, OneMoves, HistoryKept,
       Protects, Steps, Reading, Overwriting
  <2> QED
    BY <2>2, <2>4, <2>5, <2>6, <2>7, <2>8 DEF StepKept
<1> QED
  BY <1>2, <1>3, <1>4 DEF PageStep

(***************************************************************************)
(* And so do the user, the operating system and the commits.               *)
(***************************************************************************)
LEMMA UserKept ==
    ASSUME Inv, NEW d \in Device, UserStep(d)
    PROVE  StepKept(d) /\ \A e \in Device \ {d} : Same(e)
<1>1. /\ ThreadsTypeOK
      /\ files \in [Device -> [Path -> {None} \cup Body]]
      /\ dirty \in [Device -> BOOLEAN]
      /\ target \in [Device -> [Thread -> Path \cup {None}]]
      /\ bytes \in [Device -> [Thread -> {None} \cup Body]]
      /\ Main \in Thread
      /\ Call \subseteq Thread
  BY StepTypes DEF Thread
<1> USE DEF dbVars, prefVars, remoteVars, regVars, syncVars
<1>2. CASE Launch(d)
  <2>1. /\ pc[d][Main] = "off"
        /\ pc'[d][Main] = "splash"
        /\ \A u \in Thread \ {Main} : pc'[d][u] = pc[d][u]
        /\ \A e \in Device \ {d} : pc'[e] = pc[e]
    BY <1>1, <1>2, Moved DEF Launch, At
  <2>2. \A e \in Device \ {d} : Same(e)
    BY <1>1, <1>2, <2>1 DEF Launch, Same
  <2>3. Ordinary(d, Main)
    BY <1>1, <1>2, <2>1 DEF Launch, Ordinary, OneMoves, Reading, Overwriting
  <2> QED
    BY <1>1, <2>2, <2>3, OrdinaryKept
<1>3. CASE AnswerConflict(d)
  <2>1. /\ pc[d][Main] = "conflict"
        /\ pc'[d][Main] \in {"enter", "resolve", "login"}
        /\ \A u \in Thread \ {Main} : pc'[d][u] = pc[d][u]
        /\ \A e \in Device \ {d} : pc'[e] = pc[e]
    BY <1>1, <1>3, Moved DEF AnswerConflict, At
  <2>2. \A e \in Device \ {d} : Same(e)
    BY <1>1, <1>3, <2>1 DEF AnswerConflict, Same
  <2>3. Ordinary(d, Main)
    BY <1>1, <1>3, <2>1 DEF AnswerConflict, Ordinary, OneMoves, Reading,
       Overwriting
  <2> QED
    BY <1>1, <2>2, <2>3, OrdinaryKept
<1>4. ASSUME NEW a \in Account, Login(d, a)
      PROVE  StepKept(d) /\ \A e \in Device \ {d} : Same(e)
  <2>1. /\ pc[d][Main] = "login"
        /\ pc'[d][Main] = "loginClear"
        /\ \A u \in Thread \ {Main} : pc'[d][u] = pc[d][u]
        /\ \A e \in Device \ {d} : pc'[e] = pc[e]
    BY <1>1, <1>4, Moved DEF Login, At
  <2>2. \A e \in Device \ {d} : Same(e)
    BY <1>1, <1>4, <2>1 DEF Login, Same
  <2>3. Ordinary(d, Main)
    BY <1>1, <1>4, <2>1 DEF Login, Ordinary, OneMoves, Reading, Overwriting
  <2> QED
    BY <1>1, <2>2, <2>3, OrdinaryKept
<1>5. CASE CreateLocalDatabase(d)
  <2>1. /\ pc[d][Main] = "login"
        /\ pc'[d][Main] \in {"dash", "login"}
        /\ \A u \in Thread \ {Main} : pc'[d][u] = pc[d][u]
        /\ \A e \in Device \ {d} : pc'[e] = pc[e]
    BY <1>1, <1>5, Moved DEF CreateLocalDatabase, At
  <2>2. \A e \in Device \ {d} : Same(e)
    BY <1>1, <1>5, <2>1 DEF CreateLocalDatabase, OpenAt, OpenFails, Same
  <2>3. Ordinary(d, Main)
    BY <1>1, <1>5, <2>1 DEF CreateLocalDatabase, OpenAt, OpenFails, Ordinary,
       OneMoves, Reading, Overwriting
  <2> QED
    BY <1>1, <2>2, <2>3, OrdinaryKept
<1>6. CASE OpenLocalDatabase(d)
  <2>1. /\ pc[d][Main] = "login"
        /\ pc'[d][Main] \in {"dash", "login"}
        /\ \A u \in Thread \ {Main} : pc'[d][u] = pc[d][u]
        /\ \A e \in Device \ {d} : pc'[e] = pc[e]
    BY <1>1, <1>6, Moved DEF OpenLocalDatabase, At
  <2>2. \A e \in Device \ {d} : Same(e)
    BY <1>1, <1>6, <2>1 DEF OpenLocalDatabase, OpenAt, OpenFails, OpenCopyOf,
       OpenCopyFails, Same
  <2>3. Ordinary(d, Main)
    BY <1>1, <1>6, <2>1 DEF OpenLocalDatabase, OpenAt, OpenFails, OpenCopyOf,
       OpenCopyFails, Ordinary, OneMoves, Reading, Overwriting
  <2> QED
    BY <1>1, <2>2, <2>3, OrdinaryKept
<1>7. ASSUME NEW w \in Write, NEW c \in Call, WriteAndSync(d, w, c)
      PROVE  StepKept(d) /\ \A e \in Device \ {d} : Same(e)
  <2>1. /\ pc[d][c] = "idle"
        /\ pc'[d][c] = "mark"
        /\ \A u \in Thread \ {c} : pc'[d][u] = pc[d][u]
        /\ \A e \in Device \ {d} : pc'[e] = pc[e]
    BY <1>1, <1>7, Moved DEF WriteAndSync, At
  <2>2. \A e \in Device \ {d} : Same(e)
    BY <1>1, <1>7, <2>1 DEF WriteAndSync, Commit, Same
  <2>3. Ordinary(d, c)
    BY <1>1, <1>7, <2>1 DEF WriteAndSync, Commit, Ordinary, OneMoves, Reading,
       Overwriting
  <2> QED
    BY <1>1, <2>2, <2>3, OrdinaryKept
<1>8. ASSUME NEW w \in Write, WriteOnly(d, w)
      PROVE  StepKept(d) /\ \A e \in Device \ {d} : Same(e)
  <2>1. pc[d][Main] = "dash" /\ pc' = pc
    BY <1>8 DEF WriteOnly, At
  <2>2. \A e \in Device \ {d} : Same(e)
    BY <1>1, <1>8, <2>1 DEF WriteOnly, Commit, Same
  <2>3. Ordinary(d, Main)
    BY <1>1, <1>8, <2>1 DEF WriteOnly, Commit, Ordinary, OneMoves, Reading,
       Overwriting
  <2> QED
    BY <1>1, <2>2, <2>3, OrdinaryKept
<1>9. CASE SaveDatabaseAs(d)
  <2>1. pc[d][Main] = "dash" /\ pc' = pc
    BY <1>9 DEF SaveDatabaseAs, At
  <2>2. \A e \in Device \ {d} : Same(e)
    BY <1>1, <1>9, <2>1 DEF SaveDatabaseAs, ExportTo, Same
  <2>3. Ordinary(d, Main)
    BY <1>1, <1>9, <2>1 DEF SaveDatabaseAs, ExportTo, Ordinary, OneMoves,
       Reading, Overwriting
  <2> QED
    BY <1>1, <2>2, <2>3, OrdinaryKept
<1>10. CASE SignOut(d)
  <2>1. /\ pc[d][Main] = "dash"
        /\ pc'[d][Main] = "login"
        /\ \A u \in Thread \ {Main} : pc'[d][u] = pc[d][u]
        /\ \A e \in Device \ {d} : pc'[e] = pc[e]
    BY <1>1, <1>10, Moved DEF SignOut, At
  <2>2. \A e \in Device \ {d} : Same(e)
    BY <1>1, <1>10, <2>1 DEF SignOut, Same
  <2>3. Ordinary(d, Main)
    BY <1>1, <1>10, <2>1 DEF SignOut, Ordinary, OneMoves, Reading, Overwriting
  <2> QED
    BY <1>1, <2>2, <2>3, OrdinaryKept
<1>11. ASSUME NEW c \in Call, AppBackground(d, c)
      PROVE  StepKept(d) /\ \A e \in Device \ {d} : Same(e)
  <2>1. /\ pc[d][c] = "idle"
        /\ pc'[d][c] = "mark"
        /\ \A u \in Thread \ {c} : pc'[d][u] = pc[d][u]
        /\ \A e \in Device \ {d} : pc'[e] = pc[e]
    BY <1>1, <1>11, Moved DEF AppBackground, At
  <2>2. \A e \in Device \ {d} : Same(e)
    BY <1>1, <1>11, <2>1 DEF AppBackground, Same
  <2>3. Ordinary(d, c)
    BY <1>1, <1>11, <2>1 DEF AppBackground, Ordinary, OneMoves, Reading,
       Overwriting
  <2> QED
    BY <1>1, <2>2, <2>3, OrdinaryKept
<1>12. CASE Kill(d)
  <2>1. /\ \A t \in Thread : pc'[d][t] \in {"off", "idle"}
        /\ \A e \in Device \ {d} : pc'[e] = pc[e]
    BY <1>1, <1>12 DEF Kill, ThreadsTypeOK
  <2>2. files'[d] = files[d] /\ dirty'[d] = dirty[d]
    BY <1>12 DEF Kill
  <2>3. \A e \in Device \ {d} : Same(e)
    BY <1>1, <1>12, <2>1 DEF Kill, Same
  <2>4. ~Protects(d)
    BY <1>1, <2>1 DEF Protects, Steps
  <2> QED
    BY <1>1, <2>1, <2>2, <2>3, <2>4 DEF StepKept, FlagKept, OverwriteKept,
       ReadKept,
           ClearKept, HistoryKept, Reading, Overwriting
<1> QED
  BY <1>2, <1>3, <1>4, <1>5, <1>6, <1>7, <1>8, <1>9, <1>10, <1>11, <1>12
     DEF UserStep

(***************************************************************************)
(* Every step of SyncHistory keeps the invariant.                          *)
(***************************************************************************)
LEMMA HInvStep ==
    ASSUME HInv, [HNext]_<<vars, historyVars>>
    PROVE  HInv'
<1>1. Inv /\ \A d \in Device : Protected(d)
  BY DEF HInv
<1>2. CASE UNCHANGED <<vars, historyVars>>
  <2>1. Inv'
    BY <1>1, <1>2, NextInv
  <2>2. UNCHANGED <<files, dirty, pc, target, bytes, stored, exposed>>
    BY <1>2 DEF vars, dbVars, syncVars, prefVars, regVars, historyVars
  <2>3. \A d \in Device : Protected(d)'
    BY <1>1, <2>2 DEF Protected, Local, Changes
  <2> QED
    BY <2>1, <2>3 DEF HInv
<1>3. CASE HNext
  <2>1. Next /\ HistoryStep
    BY <1>3 DEF HNext
  <2>2. Inv'
    BY <1>1, <2>1, NextInv
  <2>3. \A d \in Device : StepKept(d)
    <3>1. CASE \E d \in Device : UserStep(d) \/ PageStep(d) \/ ServiceStep(d)
      <4>1. PICK d \in Device : UserStep(d) \/ PageStep(d) \/ ServiceStep(d)
        BY <3>1
      <4>2. StepKept(d) /\ \A e \in Device \ {d} : Same(e)
        BY <1>1, <4>1, UserKept, PageKept, CallKept, UploadKept, StartKept
           DEF ServiceStep
      <4>3. ASSUME NEW e \in Device PROVE StepKept(e)
        <5>1. CASE e = d
          BY <4>2, <5>1
        <5>2. CASE e # d
          BY <4>2, <5>2, SameKept
        <5> QED
          BY <5>1, <5>2
      <4> QED
        BY <4>3
    <3>2. CASE Tick /\ UNCHANGED <<localPath, written>>
      <4>1. \A d \in Device : Same(d)
        BY <3>2 DEF Tick, Same, dbVars, prefVars, regVars
      <4> QED
        BY <4>1, SameKept
    <3> QED
      BY <2>1, <3>1, <3>2 DEF Next
  <2>4. ASSUME NEW d \in Device PROVE Protected(d)'
    BY <1>1, <2>1, <2>3, KeptSuffices
  <2> QED
    BY <2>2, <2>4 DEF HInv
<1> QED
  BY <1>2, <1>3

(***************************************************************************)
(* The invariant holds of SyncHistory.                                     *)
(***************************************************************************)
LEMMA HInvHolds == HSpec => []HInv
<1>1. HInit => HInv
  <2> SUFFICES ASSUME HInit PROVE HInv
    OBVIOUS
  <2>1. Inv
    BY InitInv DEF HInit
  <2>2. \A d \in Device : files[d][Default] = None
    BY DEF HInit, Init, DatabaseInit, Path
  <2>3. \A d \in Device : Local(d) = {}
    BY <2>2 DEF Local, Changes
  <2> QED
    BY <2>1, <2>3 DEF HInv, Protected
<1>2. HInv /\ [HNext]_<<vars, historyVars>> => HInv'
  BY HInvStep
<1> QED
  BY <1>1, <1>2, PTL DEF HSpec

(***************************************************************************)
(* Whatever fails, is lost, is killed or runs at the same time, a change   *)
(* that u:cloud never had is flagged, but for the exposed ones.            *)
(***************************************************************************)
THEOREM ChangesFlagged == HSpec => []UnsyncedIsFlagged
<1>1. HInv => UnsyncedIsFlagged
  BY DEF HInv, Protected, UnsyncedIsFlagged
<1> QED
  BY <1>1, HInvHolds, PTL

(***************************************************************************)
(* And no start-up download overwrites one of the other changes.           *)
(***************************************************************************)
THEOREM DownloadsLoseNothing == HSpec => []OverwritesOnlyStored
<1>1. HInv => OverwritesOnlyStored
  BY DEF HInv, Protected, OverwritesOnlyStored, Overwriting
<1> QED
  BY <1>1, HInvHolds, PTL

-----------------------------------------------------------------------------
(***************************************************************************)
(* The sync implements CloudCopies: a proof of KeepsCopies. Every step is  *)
(* one of one device, and the view that CloudCopies has of a device        *)
(* changes in few ways: most awaits are stuttering steps.                  *)
(***************************************************************************)

Carrying == {"reading", "put", "clear"}
Storing == {"save", "saving"}

(* Without local databases beside winecellar.db there is no other path.    *)
OwnFiles(d) ==
    ~(LocalOnly /\ InPlace) =>
        /\ dbPath[d] # Picked /\ localPath[d] # Picked
        /\ \A t \in Thread : target[d][t] # Picked

(* What a download has received is stored, and the file it is writing is   *)
(* not readable meanwhile; an upload that reads or sends has an account.   *)
Transfers(d) ==
    /\ Received(d) \subseteq stored[d]
    /\ pc[d][Main] = "saving" => files[d][dbPath[d]] = Torn
    /\ \A t \in Thread : pc[d][t] \in {"read", "reading", "put"} => client[d][t] \in Account

HistoryTyped ==
    stored = [d \in Device |-> stored[d]] /\ exposed = [d \in Device |-> exposed[d]]

RInv == HInv /\ HistoryTyped /\ \A d \in Device : OwnFiles(d) /\ Transfers(d)

-----------------------------------------------------------------------------
(* Views                                                                   *)

(* The view of device d does not change.                                   *)
SameView(d) ==
    /\ Local(d)' = Local(d)
    /\ dirty'[d] = dirty[d]
    /\ Sending(d)' = Sending(d)
    /\ Received(d)' = Received(d)
    /\ stored'[d] = stored[d]
    /\ exposed'[d] = exposed[d]

(***************************************************************************)
(* A device that does nothing keeps its view.                              *)
(***************************************************************************)
LEMMA SameIsSameView ==
    ASSUME HistoryStep, NEW d \in Device, Same(d)
    PROVE  SameView(d)
<1>1. Local(d)' = Local(d) /\ Sending(d)' = Sending(d) /\ Received(d)' = Received(d)
  BY DEF Same, Local, Sending, Received, Changes
<1>2. ~Protects(d) /\ ~ExposesAll(d) /\ StoredBy(d) = {}
  <2>1. ASSUME NEW t, NEW from, NEW to, Steps(d, t, from, to) PROVE from = to
    BY <2>1 DEF Same, Steps
  <2>2. ~Protects(d) /\ StoredBy(d) = {}
    BY <2>1 DEF Protects, StoredBy
  <2>3. ~ExposesAll(d)
    BY <2>1 DEF ExposesAll, AfterUpload
  <2> QED
    BY <2>2, <2>3
<1>3. stored'[d] = stored[d]
  BY <1>2 DEF HistoryStep
<1>4. exposed'[d] = exposed[d] \cup (Local(d)' \ (Local(d) \cup stored'[d]))
  BY <1>2 DEF HistoryStep
<1> QED
  BY <1>1, <1>3, <1>4 DEF SameView, Same

(* The functions that CloudCopies sees differ at d at most.                *)
OnlyAt(d) ==
    /\ Held' = [Held EXCEPT ![d] = Local(d)']
    /\ dirty' = [dirty EXCEPT ![d] = dirty'[d]]
    /\ Outgoing' = [Outgoing EXCEPT ![d] = Sending(d)']
    /\ Incoming' = [Incoming EXCEPT ![d] = Received(d)']
    /\ stored' = [stored EXCEPT ![d] = stored'[d]]
    /\ exposed' = [exposed EXCEPT ![d] = exposed'[d]]
    /\ Held[d] = Local(d) /\ Outgoing[d] = Sending(d) /\ Incoming[d] = Received(d)

(***************************************************************************)
(* The step of one device changes the view of that device only.            *)
(***************************************************************************)
LEMMA OneView ==
    ASSUME Inv, Inv', HistoryTyped, HistoryStep,
           NEW d \in Device, \A e \in Device \ {d} : Same(e)
    PROVE  OnlyAt(d)
<1>1. \A e \in Device \ {d} : SameView(e)
  BY SameIsSameView
<1>2. dirty \in [Device -> BOOLEAN] /\ dirty' \in [Device -> BOOLEAN]
  BY DEF Inv, TypeOK, SyncTypeOK
<1>3. stored' = [e \in Device |-> stored'[e]] /\ exposed' = [e \in Device |-> exposed'[e]]
  BY DEF HistoryStep
<1>4. Held' = [Held EXCEPT ![d] = Local(d)']
  BY <1>1 DEF Held, SameView
<1>5. Outgoing' = [Outgoing EXCEPT ![d] = Sending(d)']
  BY <1>1 DEF Outgoing, SameView
<1>6. Incoming' = [Incoming EXCEPT ![d] = Received(d)']
  BY <1>1 DEF Incoming, SameView
<1>7. dirty' = [dirty EXCEPT ![d] = dirty'[d]]
  BY <1>1, <1>2 DEF SameView
<1>8. /\ stored' = [stored EXCEPT ![d] = stored'[d]]
      /\ exposed' = [exposed EXCEPT ![d] = exposed'[d]]
  BY <1>1, <1>3 DEF SameView, HistoryTyped
<1>9. Held[d] = Local(d) /\ Outgoing[d] = Sending(d) /\ Incoming[d] = Received(d)
  BY DEF Held, Outgoing, Incoming
<1> QED
  BY <1>4, <1>5, <1>6, <1>7, <1>8, <1>9 DEF OnlyAt

-----------------------------------------------------------------------------
(* What a device sends, receives, stores and exposes                       *)

(***************************************************************************)
(* What a device sends is what its one upload has read.                    *)
(***************************************************************************)
LEMMA SendingOne ==
    ASSUME OneUploader, NEW d \in Device, NEW t \in Thread, pc[d][t] \in UploadPC
    PROVE  Sending(d) = IF pc[d][t] \in Carrying THEN Changes(bytes[d][t]) ELSE {}
<1>1. \A u \in Thread : pc[d][u] \in Carrying => u = t
  BY DEF OneUploader, Uploading, UploadPC, Carrying
<1>2. {u \in Thread : pc[d][u] \in {"reading", "put", "clear"}}
          = IF pc[d][t] \in Carrying THEN {t} ELSE {}
  BY <1>1 DEF Carrying
<1> QED
  BY <1>2 DEF Sending

(* No thread carries bytes, so nothing is being sent.                      *)
LEMMA SendingNothing ==
    ASSUME NEW d \in Device, \A t \in Thread : pc[d][t] \notin Carrying
    PROVE  Sending(d) = {}
BY DEF Sending, Carrying

(***************************************************************************)
(* When the one thread that moves carries nothing before and after, the    *)
(* device sends what it sent.                                              *)
(***************************************************************************)
LEMMA SendingSame ==
    ASSUME NEW d \in Device, NEW t \in Thread, OneMoves(d, t),
           pc[d][t] \notin Carrying, pc'[d][t] \notin Carrying
    PROVE  Sending(d)' = Sending(d)
<1> DEFINE T == {u \in Thread : pc[d][u] \in {"reading", "put", "clear"}}
<1>1. T' = T
  BY DEF OneMoves, Carrying
<1>2. \A u \in T : bytes'[d][u] = bytes[d][u]
  BY DEF OneMoves, Carrying
<1>3. {Changes(bytes'[d][u]) : u \in T} = {Changes(bytes[d][u]) : u \in T}
  BY <1>2
<1>4. Sending(d)' = UNION {Changes(bytes'[d][u]) : u \in T'}
  BY DEF Sending, Changes
<1> QED
  BY <1>1, <1>3, <1>4 DEF Sending

(* The step of d neither flags nor exposes changes, and stores none.       *)
NoHistory(d) == ~Protects(d) /\ ~ExposesAll(d) /\ StoredBy(d) = {}

(***************************************************************************)
(* Then only a new change in winecellar.db is exposed.                     *)
(***************************************************************************)
LEMMA NoHistoryEffect ==
    ASSUME HistoryStep, NEW d \in Device, NoHistory(d)
    PROVE  /\ stored'[d] = stored[d]
           /\ exposed'[d] = exposed[d] \cup (Local(d)' \ (Local(d) \cup stored[d]))
<1>1. stored'[d] = stored[d]
  BY DEF HistoryStep, NoHistory
<1> QED
  BY <1>1 DEF HistoryStep, NoHistory

(* One thread moves, to and from labels that the history is not about.     *)
Silent(d, t) ==
    /\ OneMoves(d, t)
    /\ pc[d][t] \notin Carrying \cup {"mark", "loginClear", "resolve"}
    /\ ~(pc[d][t] = "get" /\ pc'[d][t] = "save")

(* Such a step neither stores nor exposes a change.                        *)
LEMMA SilentHistory ==
    ASSUME NEW d \in Device, NEW t \in Thread, Silent(d, t)
    PROVE  NoHistory(d)
<1>1. Main \in Thread /\ Call \subseteq Thread
  BY DEF Thread
<1>2. ASSUME NEW u \in Thread, NEW from, NEW to, Steps(d, u, from, to), from # to
      PROVE  u = t
  BY <1>2 DEF Steps, Silent, OneMoves
<1>3. ~Protects(d)
  BY <1>1, <1>2 DEF Protects, Steps, Silent
<1>4. ~ExposesAll(d)
  BY <1>1, <1>2 DEF ExposesAll, Steps, Silent, AfterUpload, Carrying
<1>5. StoredBy(d) = {}
  BY <1>1, <1>2 DEF StoredBy, Steps, Silent, Carrying
<1> QED
  BY <1>3, <1>4, <1>5 DEF NoHistory

(***************************************************************************)
(* A thread that is not storing a download changes nothing received.       *)
(***************************************************************************)
LEMMA ReceivedSame ==
    ASSUME NEW d \in Device, NEW t \in Thread, OneMoves(d, t),
           pc[d][t] \notin Storing, pc'[d][t] \notin Storing
    PROVE  Received(d)' = Received(d)
<1>1. Main \in Thread
  BY DEF Thread
<1>2. CASE t = Main
  BY <1>2 DEF Received, Storing
<1>3. CASE t # Main
  BY <1>1, <1>3 DEF Received, OneMoves, Changes
<1> QED
  BY <1>2, <1>3

-----------------------------------------------------------------------------
(* Steps                                                                   *)

Implements == [Copies!CopiesNext]_(Copies!copies)

(***************************************************************************)
(* A step that changes no view and no file on the server stutters.         *)
(***************************************************************************)
LEMMA Stutters ==
    ASSUME Inv, HistoryTyped, NEW d \in Device, OnlyAt(d), SameView(d),
           UNCHANGED remoteBody
    PROVE  Implements
<1>1. dirty \in [Device -> BOOLEAN]
  BY DEF Inv, TypeOK, SyncTypeOK
<1>2. Held' = Held
  BY DEF OnlyAt, SameView, Held
<1>3. Outgoing' = Outgoing
  BY DEF OnlyAt, SameView, Outgoing
<1>4. Incoming' = Incoming
  BY DEF OnlyAt, SameView, Incoming
<1>5. OnServer' = OnServer
  BY DEF OnServer, Changes
<1>6. dirty' = dirty /\ stored' = stored /\ exposed' = exposed
  BY <1>1 DEF OnlyAt, SameView, HistoryTyped
<1> QED
  BY <1>2, <1>3, <1>4, <1>5, <1>6 DEF Implements, Copies!copies

(* A silent move that leaves the files and what is on its way alone.       *)
Pause(d, t) ==
    /\ Silent(d, t)
    /\ {pc[d][t], pc'[d][t]} \cap (Carrying \cup Storing) = {}
    /\ dirty'[d] = dirty[d]
    /\ UNCHANGED remoteBody

(***************************************************************************)
(* Of such a move only a new winecellar.db is visible.                     *)
(***************************************************************************)
LEMMA PauseEffect ==
    ASSUME HistoryStep, NEW d \in Device, NEW t \in Thread, Pause(d, t)
    PROVE  /\ Sending(d)' = Sending(d)
           /\ Received(d)' = Received(d)
           /\ stored'[d] = stored[d]
           /\ exposed'[d] = exposed[d] \cup (Local(d)' \ (Local(d) \cup stored[d]))
<1>1. Silent(d, t) /\ OneMoves(d, t)
  BY DEF Pause, Silent
<1>2. /\ pc[d][t] \notin Carrying /\ pc'[d][t] \notin Carrying
      /\ pc[d][t] \notin Storing /\ pc'[d][t] \notin Storing
  BY DEF Pause
<1> QED
  BY <1>1, <1>2, SendingSame, ReceivedSame, SilentHistory, NoHistoryEffect

(* A step between two awaits is a stuttering step of CloudCopies.          *)
LEMMA PauseStutters ==
    ASSUME Inv, HistoryTyped, HistoryStep, NEW d \in Device, OnlyAt(d),
           NEW t \in Thread, Pause(d, t), Local(d)' = Local(d)
    PROVE  Implements
<1>1. SameView(d)
  BY PauseEffect DEF SameView, Pause
<1> QED
  BY <1>1, Stutters DEF Pause

(***************************************************************************)
(* A step on a file other than winecellar.db is not visible.               *)
(***************************************************************************)
LEMMA LocalSame ==
    ASSUME NEW d \in Device, files'[d][Default] = files[d][Default]
    PROVE  Local(d)' = Local(d)
BY DEF Local, Changes

(***************************************************************************)
(* A part of the view that is the same at d is the same everywhere.        *)
(***************************************************************************)
LEMMA SameField ==
    ASSUME Inv, HistoryTyped, NEW d \in Device, OnlyAt(d)
    PROVE  /\ Local(d)' = Local(d) => Held' = Held
           /\ dirty'[d] = dirty[d] => dirty' = dirty
           /\ Sending(d)' = Sending(d) => Outgoing' = Outgoing
           /\ Received(d)' = Received(d) => Incoming' = Incoming
           /\ stored'[d] = stored[d] => stored' = stored
           /\ exposed'[d] = exposed[d] => exposed' = exposed
           /\ UNCHANGED remoteBody => OnServer' = OnServer
<1>1. dirty \in [Device -> BOOLEAN]
  BY DEF Inv, TypeOK, SyncTypeOK
<1>2. Local(d)' = Local(d) => Held' = Held
  BY DEF OnlyAt, Held
<1>3. Sending(d)' = Sending(d) => Outgoing' = Outgoing
  BY DEF OnlyAt, Outgoing
<1>4. Received(d)' = Received(d) => Incoming' = Incoming
  BY DEF OnlyAt, Incoming
<1>5. UNCHANGED remoteBody => OnServer' = OnServer
  BY DEF OnServer, Changes
<1>6. /\ dirty'[d] = dirty[d] => dirty' = dirty
      /\ stored'[d] = stored[d] => stored' = stored
      /\ exposed'[d] = exposed[d] => exposed' = exposed
  BY <1>1 DEF OnlyAt, HistoryTyped
<1> QED
  BY <1>2, <1>3, <1>4, <1>5, <1>6

-----------------------------------------------------------------------------
(* What the view of d has to do for each action of CloudCopies             *)

(* A change entered in the cellar.                                         *)
LEMMA ViewEdit ==
    ASSUME Inv, HistoryTyped, NEW d \in Device, OnlyAt(d), UNCHANGED remoteBody,
           dirty'[d] = dirty[d], Sending(d)' = Sending(d), Received(d)' = Received(d),
           stored'[d] = stored[d],
           NEW w \in Write, w \notin Local(d),
           Local(d)' = Local(d) \cup {w},
           exposed'[d] = exposed[d] \cup ({w} \ stored[d])
    PROVE  Implements
<1>1. Copies!Edit(d, w)
  BY SameField DEF OnlyAt, Copies!Edit
<1> QED
  BY <1>1 DEF Implements, Copies!CopiesNext

(* markDirty.                                                              *)
LEMMA ViewFlag ==
    ASSUME Inv, HistoryTyped, NEW d \in Device, OnlyAt(d), UNCHANGED remoteBody,
           Local(d)' = Local(d), Sending(d)' = Sending(d), Received(d)' = Received(d),
           stored'[d] = stored[d],
           dirty'[d] = TRUE, exposed'[d] \in {exposed[d], {}}
    PROVE  Implements
<1>1. Copies!Flag(d)
  BY SameField DEF OnlyAt, Copies!Flag
<1> QED
  BY <1>1 DEF Implements, Copies!CopiesNext

(* The file is read for an upload.                                         *)
LEMMA ViewTake ==
    ASSUME Inv, HistoryTyped, NEW d \in Device, OnlyAt(d), UNCHANGED remoteBody,
           Local(d)' = Local(d), dirty'[d] = dirty[d], Received(d)' = Received(d),
           stored'[d] = stored[d], exposed'[d] = exposed[d],
           \/ Sending(d)' = Local(d)
           \/ LocalOnly /\ InPlace /\ Sending(d)' \subseteq Write
    PROVE  Implements
<1>1. Copies!Take(d) \/ \E body \in SUBSET Write : Copies!TakeOther(d, body)
  BY SameField DEF OnlyAt, Copies!Take, Copies!TakeOther
<1> QED
  BY <1>1 DEF Implements, Copies!CopiesNext

(* A file that is being written is read for an upload.                     *)
LEMMA ViewTakeTorn ==
    ASSUME Inv, HistoryTyped, NEW d \in Device, OnlyAt(d), UNCHANGED remoteBody,
           Local(d)' = Local(d), dirty'[d] = dirty[d], Received(d)' = Received(d),
           stored'[d] = stored[d],
           Sending(d)' = {}, exposed'[d] = exposed[d] \cup Local(d)
    PROVE  Implements
<1>1. Copies!TakeTorn(d)
  BY SameField DEF OnlyAt, Copies!TakeTorn
<1> QED
  BY <1>1 DEF Implements, Copies!CopiesNext

(* The server stores an upload, its answer arrives or is lost.             *)
LEMMA ViewDeliver ==
    ASSUME Inv, HistoryTyped, NEW d \in Device, OnlyAt(d),
           Local(d)' = Local(d), dirty'[d] = dirty[d], Received(d)' = Received(d),
           exposed'[d] = exposed[d],
           NEW a \in Account, OnServer' = [OnServer EXCEPT ![a] = Sending(d)],
           \/ Sending(d)' = Sending(d) /\ stored'[d] = stored[d] \cup Sending(d)
           \/ Sending(d)' = {} /\ stored'[d] = stored[d]
    PROVE  Implements
<1>1. Copies!Deliver(d, a) \/ Copies!DeliverUnanswered(d, a)
  BY SameField DEF OnlyAt, Copies!Deliver, Copies!DeliverUnanswered
<1> QED
  BY <1>1 DEF Implements, Copies!CopiesNext

(* clearDirty after an upload.                                             *)
LEMMA ViewSettle ==
    ASSUME Inv, HistoryTyped, NEW d \in Device, OnlyAt(d), UNCHANGED remoteBody,
           Local(d)' = Local(d), Received(d)' = Received(d), stored'[d] = stored[d],
           dirty'[d] = FALSE, Sending(d)' = {},
           \/ Local(d) \subseteq stored[d] \cup exposed[d] /\ exposed'[d] = exposed[d]
           \/ LocalOnly /\ InPlace /\ exposed'[d] = exposed[d] \cup Local(d)
    PROVE  Implements
<1>1. Copies!Settle(d) \/ Copies!SettleOther(d)
  BY SameField DEF OnlyAt, Copies!Settle, Copies!SettleOther, Copies!Covered
<1> QED
  BY <1>1 DEF Implements, Copies!CopiesNext

(* The flag is cleared without one.                                        *)
LEMMA ViewGiveUp ==
    ASSUME Inv, HistoryTyped, NEW d \in Device, OnlyAt(d), UNCHANGED remoteBody,
           Local(d)' = Local(d), Sending(d)' = Sending(d), Received(d)' = Received(d),
           stored'[d] = stored[d],
           dirty'[d] = FALSE, exposed'[d] = exposed[d] \cup Local(d)
    PROVE  Implements
<1>1. Copies!GiveUp(d)
  BY SameField DEF OnlyAt, Copies!GiveUp
<1> QED
  BY <1>1 DEF Implements, Copies!CopiesNext

(* A download is answered.                                                 *)
LEMMA ViewFetch ==
    ASSUME Inv, HistoryTyped, NEW d \in Device, OnlyAt(d), UNCHANGED remoteBody,
           Local(d)' = Local(d), dirty'[d] = dirty[d], Sending(d)' = Sending(d),
           exposed'[d] = exposed[d],
           NEW a \in Account, Received(d)' = Changes(remoteBody[a]),
           stored'[d] = stored[d] \cup Changes(remoteBody[a])
    PROVE  Implements
<1>1. OnServer[a] = Changes(remoteBody[a])
  BY DEF OnServer
<1>2. Copies!Fetch(d, a)
  BY <1>1, SameField DEF OnlyAt, Copies!Fetch
<1> QED
  BY <1>2 DEF Implements, Copies!CopiesNext

(* The download is written over the file: emptied, then filled.            *)
LEMMA ViewReplace ==
    ASSUME Inv, HistoryTyped, NEW d \in Device, OnlyAt(d), UNCHANGED remoteBody,
           dirty'[d] = dirty[d], Sending(d)' = Sending(d),
           stored'[d] = stored[d], exposed'[d] = exposed[d],
           Local(d) \subseteq stored[d] \cup exposed[d],
           \/ Local(d)' = {} /\ Received(d)' = Received(d)
           \/ Local(d)' = Received(d) /\ Received(d)' = {}
    PROVE  Implements
<1>1. Copies!Truncate(d) \/ Copies!Install(d)
  BY SameField DEF OnlyAt, Copies!Truncate, Copies!Install, Copies!Covered
<1> QED
  BY <1>1 DEF Implements, Copies!CopiesNext

(* A call fails or the program ends, with what it carried.                 *)
LEMMA ViewDrop ==
    ASSUME Inv, HistoryTyped, NEW d \in Device, OnlyAt(d), UNCHANGED remoteBody,
           Local(d)' = Local(d), dirty'[d] = dirty[d],
           stored'[d] = stored[d], exposed'[d] = exposed[d],
           Sending(d)' \in {Sending(d), {}}, Received(d)' \in {Received(d), {}}
    PROVE  Implements
<1>1. Copies!Drop(d)
  BY SameField DEF OnlyAt, Copies!Drop
<1> QED
  BY <1>1 DEF Implements, Copies!CopiesNext

(* Another file is opened in place of the cellar.                          *)
LEMMA ViewPick ==
    ASSUME Inv, HistoryTyped, NEW d \in Device, OnlyAt(d), UNCHANGED remoteBody,
           dirty'[d] = dirty[d], Sending(d)' = Sending(d), Received(d)' = Received(d),
           stored'[d] = stored[d], LocalOnly, ~InPlace, Local(d)' \subseteq Write,
           exposed'[d] = exposed[d] \cup (Local(d)' \ (Local(d) \cup stored[d]))
    PROVE  Implements
<1>1. \E body \in SUBSET Write : Copies!Pick(d, body)
  BY SameField DEF OnlyAt, Copies!Pick
<1> QED
  BY <1>1 DEF Implements, Copies!CopiesNext

-----------------------------------------------------------------------------
(* Uploads                                                                 *)

(***************************************************************************)
(* What an uploading thread sends before and after its step.               *)
(***************************************************************************)
LEMMA UploadSends ==
    ASSUME OneUploader, NEW d \in Device, NEW t \in Thread, OneMoves(d, t),
           pc[d][t] \in UploadPC
    PROVE  /\ Sending(d) = IF pc[d][t] \in Carrying THEN Changes(bytes[d][t]) ELSE {}
           /\ Sending(d)' = IF pc'[d][t] \in Carrying THEN Changes(bytes'[d][t]) ELSE {}
<1>1. \A u \in Thread : u # t => pc'[d][u] \notin Carrying
  BY DEF OneUploader, Uploading, UploadPC, Carrying, OneMoves
<1>2. {u \in Thread : pc'[d][u] \in {"reading", "put", "clear"}}
          = IF pc'[d][t] \in Carrying THEN {t} ELSE {}
  BY <1>1 DEF Carrying
<1>3. Sending(d)' =
          UNION {Changes(bytes'[d][u]) :
                    u \in {v \in Thread : pc'[d][v] \in {"reading", "put", "clear"}}}
  BY DEF Sending, Changes
<1> QED
  BY <1>2, <1>3, SendingOne

(***************************************************************************)
(* What it stores and exposes.                                             *)
(***************************************************************************)
LEMMA UploadHistory ==
    ASSUME HistoryStep, NEW d \in Device, NEW t \in Thread, OneMoves(d, t),
           pc[d][t] \in UploadPC, files'[d] = files[d]
    PROVE  /\ stored'[d] = IF Steps(d, t, "put", "clear")
                           THEN stored[d] \cup Changes(bytes[d][t]) ELSE stored[d]
           /\ exposed'[d] = IF ExposesAll(d) THEN exposed[d] \cup Local(d) ELSE exposed[d]
           /\ ExposesAll(d) <=>
                \/ Steps(d, t, "reading", "put") /\ bytes'[d][t] = Torn
                \/ /\ Steps(d, t, "clear", AfterUpload(t))
                   /\ target[d][t] # Default /\ dirty[d] /\ ~dirty'[d]
<1>1. Main \in Thread /\ Call \subseteq Thread
  BY DEF Thread
<1>2. ASSUME NEW u \in Thread, NEW from, NEW to, Steps(d, u, from, to), from # to
      PROVE  u = t
  BY <1>2 DEF Steps, OneMoves
<1>3. ~Protects(d)
  BY <1>1, <1>2 DEF Protects, Steps, UploadPC
<1>4. StoredBy(d) = IF Steps(d, t, "put", "clear") THEN Changes(bytes[d][t]) ELSE {}
  <2>1. {u \in Thread : Steps(d, u, "put", "clear")}
            = IF Steps(d, t, "put", "clear") THEN {t} ELSE {}
    BY <1>2
  <2>2. ~Steps(d, Main, "get", "save")
    BY <1>1, <1>2 DEF Steps, UploadPC
  <2> QED
    BY <2>1, <2>2 DEF StoredBy
<1>5. ExposesAll(d) <=>
          \/ Steps(d, t, "reading", "put") /\ bytes'[d][t] = Torn
          \/ /\ Steps(d, t, "clear", AfterUpload(t))
             /\ target[d][t] # Default /\ dirty[d] /\ ~dirty'[d]
  <2>1. ~Steps(d, Main, "loginClear", "init") /\ ~Steps(d, Main, "resolve", "close")
    BY <1>1, <1>2 DEF Steps, UploadPC
  <2>2. \A u \in Thread : AfterUpload(u) # "clear"
    BY DEF AfterUpload
  <2> QED
    BY <1>2, <2>1, <2>2 DEF ExposesAll
<1>6. Local(d)' = Local(d)
  BY LocalSame
<1>7. stored'[d] = stored[d] \cup StoredBy(d)
  BY DEF HistoryStep
<1>8. exposed'[d] = IF ExposesAll(d) THEN exposed[d] \cup Local(d) ELSE exposed[d]
  BY <1>3, <1>6 DEF HistoryStep
<1> QED
  BY <1>4, <1>5, <1>7, <1>8

(***************************************************************************)
(* Leaving uploadDb drops the bytes that were read.                        *)
(***************************************************************************)
LEMMA LeaveDrops ==
    ASSUME RInv, HistoryStep, NEW d \in Device, OnlyAt(d), NEW t \in Thread, OneMoves(d, t),
           pc[d][t] \in UploadPC, pc'[d][t] = AfterUpload(t),
           files'[d] = files[d], dirty'[d] = dirty[d], UNCHANGED remoteBody
    PROVE  Implements
<1>1. Inv /\ HistoryTyped /\ OneUploader
  BY DEF RInv, HInv, Inv
<1>2. pc'[d][t] \notin Carrying \cup Storing \cup {"put"} /\ pc[d][t] \notin Storing
  BY DEF AfterUpload, Carrying, Storing, UploadPC
<1>3. Local(d)' = Local(d) /\ Received(d)' = Received(d)
  BY <1>2, LocalSame, ReceivedSame
<1>4. Sending(d)' = {}
  BY <1>1, <1>2, UploadSends
<1>5. stored'[d] = stored[d]
  BY <1>2, UploadHistory DEF Steps, Carrying
<1>6. exposed'[d] = exposed[d]
  BY <1>2, UploadHistory DEF Steps
<1> QED
  BY <1>1, <1>3, <1>4, <1>5, <1>6, ViewDrop

(***************************************************************************)
(* Every step of uploadDb is one of CloudCopies.                           *)
(***************************************************************************)
LEMMA UploadViews ==
    ASSUME RInv, HistoryStep, NEW d \in Device, OnlyAt(d),
           NEW t \in Thread, UploadStep(d, t)
    PROVE  Implements
<1>1. /\ ThreadsTypeOK
      /\ files \in [Device -> [Path -> {None} \cup Body]]
      /\ dirty \in [Device -> BOOLEAN]
      /\ target \in [Device -> [Thread -> Path \cup {None}]]
      /\ bytes \in [Device -> [Thread -> {None} \cup Body]]
      /\ remoteBody \in [Account -> {None} \cup Body]
      /\ Main \in Thread
      /\ Inv /\ HistoryTyped /\ OneUploader /\ Connected
      /\ OwnFiles(d) /\ Protected(d) /\ Transfers(d)
  BY StepTypes DEF Thread, RInv, HInv, Inv, TypeOK, SyncTypeOK
<1> USE DEF dbVars, prefVars, remoteVars, regVars, syncVars
<1>2. CASE SkipUpload(d, t)
  <2>1. /\ pc[d][t] = "enter"
        /\ pc'[d][t] = AfterUpload(t)
        /\ \A u \in Thread \ {t} : pc'[d][u] = pc[d][u]
    BY <1>1, <1>2, Moved DEF SkipUpload, At
  <2>2. Pause(d, t)
    BY <1>1, <1>2, <2>1 DEF SkipUpload, Pause, Silent, OneMoves, Carrying, Storing,
       AfterUpload
  <2>3. Local(d)' = Local(d)
    BY <1>2, LocalSame DEF SkipUpload
  <2> QED
    BY <1>1, <2>2, <2>3, PauseStutters
<1>3. CASE BeginUpload(d, t)
  <2>1. /\ pc[d][t] = "enter"
        /\ pc'[d][t] = "checkpoint"
        /\ \A u \in Thread \ {t} : pc'[d][u] = pc[d][u]
    BY <1>1, <1>3, Moved DEF BeginUpload, At
  <2>2. Pause(d, t)
    BY <1>1, <1>3, <2>1 DEF BeginUpload, Pause, Silent, OneMoves, Carrying, Storing
  <2>3. Local(d)' = Local(d)
    BY <1>3, LocalSame DEF BeginUpload
  <2> QED
    BY <1>1, <2>2, <2>3, PauseStutters
<1>4. CASE UploadThrows(d, t)
  <2>1. /\ pc[d][t] \in UploadPC
        /\ pc'[d][t] = AfterUpload(t)
        /\ \A u \in Thread \ {t} : pc'[d][u] = pc[d][u]
    BY <1>1, <1>4, Moved DEF UploadThrows, At, LeaveUpload
  <2>2. OneMoves(d, t)
    BY <1>1, <1>4, <2>1 DEF UploadThrows, LeaveUpload, OneMoves
  <2> QED
    BY <1>1, <1>4, <2>1, <2>2, LeaveDrops DEF UploadThrows
<1>5. CASE Checkpoint(d, t)
  <2>1. /\ pc[d][t] = "checkpoint"
        /\ pc'[d][t] = "client"
        /\ \A u \in Thread \ {t} : pc'[d][u] = pc[d][u]
    BY <1>1, <1>5, Moved DEF Checkpoint, At
  <2>2. Pause(d, t)
    BY <1>1, <1>5, <2>1 DEF Checkpoint, Pause, Silent, OneMoves, Carrying, Storing
  <2>3. Local(d)' = Local(d)
    BY <1>5, LocalSame DEF Checkpoint
  <2> QED
    BY <1>1, <2>2, <2>3, PauseStutters
<1>6. CASE NoClient(d, t)
  <2>1. /\ pc[d][t] = "client"
        /\ pc'[d][t] = AfterUpload(t)
        /\ \A u \in Thread \ {t} : pc'[d][u] = pc[d][u]
    BY <1>1, <1>6, Moved DEF NoClient, At, LeaveUpload
  <2>2. OneMoves(d, t) /\ pc[d][t] \in UploadPC
    BY <1>1, <1>6, <2>1 DEF NoClient, LeaveUpload, OneMoves, UploadPC
  <2> QED
    BY <1>1, <1>6, <2>1, <2>2, LeaveDrops DEF NoClient
<1>7. CASE GetClient(d, t)
  <2>1. /\ pc[d][t] = "client"
        /\ pc'[d][t] = "read"
        /\ \A u \in Thread \ {t} : pc'[d][u] = pc[d][u]
    BY <1>1, <1>7, Moved DEF GetClient, At
  <2>2. Pause(d, t)
    BY <1>1, <1>7, <2>1 DEF GetClient, Pause, Silent, OneMoves, Carrying, Storing
  <2>3. Local(d)' = Local(d)
    BY <1>7, LocalSame DEF GetClient
  <2> QED
    BY <1>1, <2>2, <2>3, PauseStutters
<1>8. CASE BeginRead(d, t) \/ EndRead(d, t)
  <2>1. /\ \/ pc[d][t] = "read" /\ pc'[d][t] = "reading"
           \/ pc[d][t] = "reading" /\ pc'[d][t] = "put"
        /\ \A u \in Thread \ {t} : pc'[d][u] = pc[d][u]
    BY <1>1, <1>8, Moved DEF BeginRead, EndRead, At
  <2>2. /\ pc[d][t] \in UploadPC /\ pc[d][t] \notin Storing
        /\ pc'[d][t] \in Carrying /\ pc'[d][t] \notin Storing
    BY <2>1 DEF UploadPC, Carrying, Storing
  <2>3. /\ OneMoves(d, t)
        /\ files'[d] = files[d] /\ dirty'[d] = dirty[d] /\ UNCHANGED remoteBody
    BY <1>1, <1>8, <2>1 DEF BeginRead, EndRead, OneMoves
  <2>4. Local(d)' = Local(d) /\ Received(d)' = Received(d)
    BY <2>2, <2>3, LocalSame, ReceivedSame
  <2>5. stored'[d] = stored[d]
    BY <2>1, <2>2, <2>3, UploadHistory DEF Steps
  <2>6. Sending(d)' = Changes(bytes'[d][t])
    BY <1>1, <2>2, <2>3, UploadSends
  <2>7. /\ exposed'[d] = IF ExposesAll(d) THEN exposed[d] \cup Local(d) ELSE exposed[d]
        /\ ExposesAll(d) <=> pc[d][t] = "reading" /\ bytes'[d][t] = Torn
    BY <2>1, <2>2, <2>3, UploadHistory DEF Steps
  <2>8. target[d][t] \in Path
    BY <1>1, <2>1 DEF Connected, UploadPC
  <2>9. \/ bytes'[d][t] = files[d][target[d][t]]
        \/ pc[d][t] = "reading" /\ bytes'[d][t] \in {bytes[d][t], Torn}
    BY <1>1, <1>8 DEF BeginRead, EndRead, At
  <2>10. CASE ExposesAll(d)
    <3>1. Sending(d)' = {}
      BY <2>6, <2>7, <2>10 DEF Changes
    <3> QED
      BY <1>1, <2>3, <2>4, <2>5, <2>7, <2>10, <3>1, ViewTakeTorn
  <2>11. CASE ~ExposesAll(d) /\ bytes'[d][t] = files[d][target[d][t]]
    <3>1. CASE target[d][t] = Default
      <4>1. Sending(d)' = Local(d)
        BY <2>6, <2>11, <3>1 DEF Local
      <4> QED
        BY <1>1, <2>3, <2>4, <2>5, <2>7, <2>11, <4>1, ViewTake
    <3>2. CASE target[d][t] = Picked
      <4>1. LocalOnly /\ InPlace
        BY <1>1, <3>2 DEF OwnFiles
      <4>2. files[d][Picked] \in {None} \cup Body
        BY <1>1 DEF Path
      <4>3. Sending(d)' \subseteq Write
        BY <2>6, <2>11, <3>2, <4>2 DEF Changes, Body
      <4> QED
        BY <1>1, <2>3, <2>4, <2>5, <2>7, <2>11, <4>1, <4>3, ViewTake
    <3> QED
      BY <2>8, <3>1, <3>2 DEF Path
  <2>12. CASE ~ExposesAll(d) /\ pc[d][t] = "reading" /\ bytes'[d][t] = bytes[d][t]
    <3>1. Sending(d) = Changes(bytes[d][t])
      BY <1>1, <2>2, <2>3, <2>12, UploadSends DEF Carrying
    <3>2. SameView(d)
      BY <2>3, <2>4, <2>5, <2>6, <2>7, <2>12, <3>1 DEF SameView
    <3> QED
      BY <1>1, <2>3, <3>2, Stutters
  <2> QED
    BY <2>7, <2>9, <2>10, <2>11, <2>12
<1>9. CASE Put(d, t) \/ PutUnanswered(d, t)
  <2>1. /\ pc[d][t] = "put"
        /\ pc'[d][t] = IF Put(d, t) THEN "clear" ELSE AfterUpload(t)
        /\ \A u \in Thread \ {t} : pc'[d][u] = pc[d][u]
    BY <1>1, <1>9, Moved DEF Put, PutUnanswered, LeaveUpload, At
  <2>2. pc[d][t] \in UploadPC /\ pc[d][t] \notin Storing /\ pc'[d][t] \notin Storing
    BY <2>1 DEF UploadPC, Storing, AfterUpload
  <2>3. OneMoves(d, t) /\ files'[d] = files[d] /\ dirty'[d] = dirty[d]
    BY <1>1, <1>9, <2>1 DEF Put, PutUnanswered, LeaveUpload, OneMoves
  <2>4. Local(d)' = Local(d) /\ Received(d)' = Received(d)
    BY <2>2, <2>3, LocalSame, ReceivedSame
  <2>5. Sending(d) = Changes(bytes[d][t])
    BY <1>1, <2>1, <2>2, <2>3, UploadSends DEF Carrying
  <2>6. exposed'[d] = exposed[d]
    BY <2>1, <2>2, <2>3, UploadHistory DEF Steps
  <2>7. client[d][t] \in Account
    BY <1>1, <2>1 DEF Transfers
  <2>8. remoteBody' = [remoteBody EXCEPT ![client[d][t]] = bytes[d][t]]
    BY <1>9 DEF Put, PutUnanswered, StoreRemote
  <2>9. OnServer' = [OnServer EXCEPT ![client[d][t]] = Sending(d)]
    BY <1>1, <2>5, <2>7, <2>8 DEF OnServer, Changes
  <2>10. CASE Put(d, t)
    <3>1. pc'[d][t] = "clear" /\ bytes'[d][t] = bytes[d][t]
      BY <2>1, <2>10 DEF Put
    <3>2. Sending(d)' = Sending(d)
      BY <1>1, <2>2, <2>3, <2>5, <3>1, UploadSends DEF Carrying
    <3>3. stored'[d] = stored[d] \cup Sending(d)
      BY <2>1, <2>2, <2>3, <2>5, <3>1, UploadHistory DEF Steps
    <3> QED
      BY <1>1, <2>3, <2>4, <2>6, <2>7, <2>9, <3>2, <3>3, ViewDeliver
  <2>11. CASE ~Put(d, t)
    <3>1. pc'[d][t] \notin Carrying
      BY <2>1, <2>11 DEF AfterUpload, Carrying
    <3>2. Sending(d)' = {} /\ stored'[d] = stored[d]
      BY <1>1, <2>2, <2>3, <3>1, UploadSends, UploadHistory DEF Steps, Carrying
    <3> QED
      BY <1>1, <2>3, <2>4, <2>6, <2>7, <2>9, <3>2, ViewDeliver
  <2> QED
    BY <2>10, <2>11
<1>10. CASE ClearAfterUpload(d, t)
  <2>1. /\ pc[d][t] = "clear"
        /\ pc'[d][t] = AfterUpload(t)
        /\ \A u \in Thread \ {t} : pc'[d][u] = pc[d][u]
    BY <1>1, <1>10, Moved DEF ClearAfterUpload, LeaveUpload, At
  <2>2. /\ pc[d][t] \in UploadPC /\ pc[d][t] \notin Storing
        /\ pc'[d][t] \notin Storing \cup Carrying
    BY <2>1 DEF UploadPC, Storing, Carrying, AfterUpload
  <2>3. /\ OneMoves(d, t)
        /\ files'[d] = files[d] /\ dirty'[d] = FALSE /\ UNCHANGED remoteBody
    BY <1>1, <1>10, <2>1 DEF ClearAfterUpload, LeaveUpload, OneMoves
  <2>4. Local(d)' = Local(d) /\ Received(d)' = Received(d)
    BY <2>2, <2>3, LocalSame, ReceivedSame
  <2>5. Sending(d)' = {} /\ stored'[d] = stored[d]
    BY <1>1, <2>1, <2>2, <2>3, UploadSends, UploadHistory DEF Steps
  <2>6. /\ exposed'[d] = IF ExposesAll(d) THEN exposed[d] \cup Local(d) ELSE exposed[d]
        /\ ExposesAll(d) <=> target[d][t] # Default /\ dirty[d]
    BY <2>1, <2>2, <2>3, UploadHistory DEF Steps
  <2>7. target[d][t] \in Path
    BY <1>1, <2>1 DEF Connected, UploadPC
  <2>8. CASE ~ExposesAll(d)
    <3>1. Local(d) \subseteq stored[d] \cup exposed[d]
      BY <1>1, <2>1, <2>6, <2>8 DEF Protected
    <3> QED
      BY <1>1, <2>3, <2>4, <2>5, <2>6, <2>8, <3>1, ViewSettle
  <2>9. CASE ExposesAll(d)
    <3>1. LocalOnly /\ InPlace
      BY <1>1, <2>6, <2>7, <2>9 DEF OwnFiles, Path
    <3> QED
      BY <1>1, <2>3, <2>4, <2>5, <2>6, <2>9, <3>1, ViewSettle
  <2> QED
    BY <2>8, <2>9
<1> QED
  BY <1>2, <1>3, <1>4, <1>5, <1>6, <1>7, <1>8, <1>9, <1>10 DEF UploadStep

-----------------------------------------------------------------------------
(* Calls, start-up and pages                                               *)

(***************************************************************************)
(* Of a silent step a new winecellar.db and a dropped download are seen.   *)
(***************************************************************************)
LEMMA SilentEffect ==
    ASSUME HistoryStep, NEW d \in Device, NEW t \in Thread, Silent(d, t),
           pc'[d][t] \notin Carrying
    PROVE  /\ Sending(d)' = Sending(d)
           /\ stored'[d] = stored[d]
           /\ exposed'[d] = exposed[d] \cup (Local(d)' \ (Local(d) \cup stored[d]))
<1>1. OneMoves(d, t) /\ pc[d][t] \notin Carrying
  BY DEF Silent
<1> QED
  BY <1>1, SendingSame, SilentHistory, NoHistoryEffect

(***************************************************************************)
(* Opening a database makes nothing appear in it or disappear from it.     *)
(***************************************************************************)
LEMMA OpenAtLocal ==
    ASSUME DatabaseTypeOK, NEW d \in Device, NEW p \in Path, OpenAt(d, p)
    PROVE  Local(d)' = Local(d)
<1>1. PICK body \in Opened(files[d][p]) : files' = [files EXCEPT ![d][p] = body]
  BY DEF OpenAt
<1>2. Changes(body) = Changes(files[d][p])
  BY DatabaseAssumption DEF Opened, Changes
<1>3. files'[d][Default] = IF p = Default THEN body ELSE files[d][Default]
  BY <1>1 DEF DatabaseTypeOK, Path
<1> QED
  BY <1>2, <1>3 DEF Local, Changes

(* Opening the database leaves the changes in the cellar.                  *)
LEMMA InitDbLocal ==
    ASSUME DatabaseTypeOK, NEW d \in Device, InitDb(d)
    PROVE  Local(d)' = Local(d)
<1>1. CASE dbOpen[d]
  BY <1>1, LocalSame DEF InitDb, dbVars
<1>2. CASE ~dbOpen[d]
  BY <1>2, OpenAtLocal DEF InitDb, Path
<1> QED
  BY <1>1, <1>2

(***************************************************************************)
(* syncAfterWrite() before its upload flags the changes.                   *)
(***************************************************************************)
LEMMA CallViews ==
    ASSUME RInv, HistoryStep, NEW d \in Device, OnlyAt(d),
           NEW c \in Call, MarkDirty(d, c) \/ StampLastWrite(d, c)
    PROVE  Implements
<1>1. /\ ThreadsTypeOK
      /\ dirty \in [Device -> BOOLEAN]
      /\ Main \in Thread /\ Call \subseteq Thread
      /\ Inv /\ HistoryTyped
  BY StepTypes DEF Thread, RInv, HInv
<1> USE DEF dbVars, prefVars, remoteVars, regVars, syncVars
<1>2. CASE MarkDirty(d, c)
  <2>1. /\ pc[d][c] = "mark"
        /\ pc'[d][c] = "stamp"
        /\ \A u \in Thread \ {c} : pc'[d][u] = pc[d][u]
    BY <1>1, <1>2, Moved DEF MarkDirty, At
  <2>2. OneMoves(d, c) /\ dirty'[d] = TRUE /\ UNCHANGED remoteBody
    BY <1>1, <1>2, <2>1 DEF MarkDirty, OneMoves
  <2>3. Local(d)' = Local(d)
    BY <1>2, LocalSame DEF MarkDirty
  <2>4. Sending(d)' = Sending(d) /\ Received(d)' = Received(d)
    BY <1>1, <2>1, <2>2, SendingSame, ReceivedSame DEF Carrying, Storing
  <2>5. ASSUME NEW u \in Thread, NEW from, NEW to, Steps(d, u, from, to), from # to
        PROVE  from = "mark"
    BY <2>1, <2>2, <2>5 DEF Steps, OneMoves
  <2>6. ~ExposesAll(d)
    BY <1>1, <2>5 DEF ExposesAll, AfterUpload
  <2>7. StoredBy(d) = {}
    BY <1>1, <2>5 DEF StoredBy
  <2>8. stored'[d] = stored[d]
    BY <2>7 DEF HistoryStep
  <2>9. exposed'[d] \in {exposed[d], {}}
    BY <2>3, <2>6 DEF HistoryStep
  <2> QED
    BY <1>1, <2>2, <2>3, <2>4, <2>8, <2>9, ViewFlag
<1>3. CASE StampLastWrite(d, c)
  <2>1. /\ pc[d][c] = "stamp"
        /\ pc'[d][c] = "enter"
        /\ \A u \in Thread \ {c} : pc'[d][u] = pc[d][u]
    BY <1>1, <1>3, Moved DEF StampLastWrite, At
  <2>2. Pause(d, c)
    BY <1>1, <1>3, <2>1 DEF StampLastWrite, Pause, Silent, OneMoves, Carrying, Storing
  <2>3. Local(d)' = Local(d)
    BY <1>3, LocalSame DEF StampLastWrite
  <2> QED
    BY <1>1, <2>2, <2>3, PauseStutters
<1> QED
  BY <1>2, <1>3

(***************************************************************************)
(* Dropping the flag at a login or for the remote version gives up.        *)
(***************************************************************************)
LEMMA GiveUpViews ==
    ASSUME RInv, HistoryStep, NEW d \in Device, OnlyAt(d), OneMoves(d, Main),
           \/ Steps(d, Main, "resolve", "close")
           \/ Steps(d, Main, "loginClear", "init"),
           files'[d] = files[d], dirty'[d] = FALSE, UNCHANGED remoteBody
    PROVE  Implements
<1>1. Inv /\ HistoryTyped /\ Main \in Thread /\ Call \subseteq Thread
  BY DEF RInv, HInv, Thread
<1>2. Local(d)' = Local(d)
  BY LocalSame
<1>3. Sending(d)' = Sending(d) /\ Received(d)' = Received(d)
  BY <1>1, SendingSame, ReceivedSame DEF Carrying, Storing, Steps
<1>4. ~Protects(d)
  BY <1>1, SyncAssumption DEF Protects, Steps, OneMoves
<1>5. ExposesAll(d)
  BY DEF ExposesAll
<1>6. StoredBy(d) = {}
  BY <1>1 DEF StoredBy, Steps, OneMoves
<1>7. stored'[d] = stored[d] /\ exposed'[d] = exposed[d] \cup Local(d)
  BY <1>4, <1>5, <1>6 DEF HistoryStep
<1> QED
  BY <1>1, <1>2, <1>3, <1>7, ViewGiveUp

(***************************************************************************)
(* Every step of syncOnStart and of the download is one of CloudCopies.    *)
(***************************************************************************)
LEMMA StartViews ==
    ASSUME RInv, HistoryStep, NEW d \in Device, OnlyAt(d), StartStep(d)
    PROVE  Implements
<1>1. /\ ThreadsTypeOK /\ DatabaseTypeOK
      /\ files \in [Device -> [Path -> {None} \cup Body]]
      /\ dirty \in [Device -> BOOLEAN]
      /\ creds \in [Device -> Account \cup {None}]
      /\ bytes \in [Device -> [Thread -> {None} \cup Body]]
      /\ Main \in Thread
      /\ Inv /\ HistoryTyped /\ Connected
      /\ Protected(d) /\ Transfers(d)
  BY StepTypes DEF Thread, RInv, HInv, Inv, TypeOK, SyncTypeOK
<1> USE DEF dbVars, prefVars, remoteVars, regVars, syncVars
<1>2. CASE StartInit(d) \/ Reopen(d)
  <2>1. /\ pc[d][Main] \in {"init", "reopen"}
        /\ pc'[d][Main] \in {"start", "dash"}
        /\ \A u \in Thread \ {Main} : pc'[d][u] = pc[d][u]
    BY <1>1, <1>2, Moved DEF StartInit, Reopen, At
  <2>2. Pause(d, Main)
    BY <1>1, <1>2, <2>1 DEF StartInit, Reopen, Pause, Silent, OneMoves, Carrying, Storing
  <2>3. Local(d)' = Local(d)
    BY <1>1, <1>2, InitDbLocal DEF StartInit, Reopen
  <2> QED
    BY <1>1, <2>2, <2>3, PauseStutters
<1>3. CASE StartInitThrows(d) \/ ReopenThrows(d)
  <2>1. /\ pc[d][Main] \in {"init", "reopen"}
        /\ pc'[d][Main] \in {"login", "loading"}
        /\ \A u \in Thread \ {Main} : pc'[d][u] = pc[d][u]
    BY <1>1, <1>3, Moved DEF StartInitThrows, ReopenThrows, At
  <2>2. Pause(d, Main)
    BY <1>1, <1>3, <2>1 DEF StartInitThrows, ReopenThrows, Pause, Silent, OneMoves,
       Carrying, Storing
  <2>3. Local(d)' = Local(d)
    BY <1>3, LocalSame DEF StartInitThrows, ReopenThrows, OpenFails
  <2> QED
    BY <1>1, <2>2, <2>3, PauseStutters
<1>4. CASE CheckDirty(d) \/ CompareTimes(d) \/ CloseForDownload(d)
  <2>1. /\ pc[d][Main] \in {"start", "lastmod", "close"}
        /\ pc'[d][Main] \in {"lastmod", "close", "conflict", "enter", "get"}
        /\ \A u \in Thread \ {Main} : pc'[d][u] = pc[d][u]
    BY <1>1, <1>4, Moved DEF CheckDirty, CompareTimes, CloseForDownload, At
  <2>2. Pause(d, Main)
    BY <1>1, <1>4, <2>1 DEF CheckDirty, CompareTimes, CloseForDownload, Pause, Silent,
       OneMoves, Carrying, Storing
  <2>3. Local(d)' = Local(d)
    BY <1>4, LocalSame DEF CheckDirty, CompareTimes, CloseForDownload, Close
  <2> QED
    BY <1>1, <2>2, <2>3, PauseStutters
<1>5. CASE ResolveWithRemote(d)
  <2>1. /\ Steps(d, Main, "resolve", "close")
        /\ \A u \in Thread \ {Main} : pc'[d][u] = pc[d][u]
    BY <1>1, <1>5, Moved DEF ResolveWithRemote, At, Steps
  <2>2. OneMoves(d, Main)
    BY <1>1, <1>5, <2>1 DEF ResolveWithRemote, OneMoves
  <2>3. files'[d] = files[d] /\ dirty'[d] = FALSE /\ UNCHANGED remoteBody
    BY <1>1, <1>5 DEF ResolveWithRemote
  <2> QED
    BY <2>1, <2>2, <2>3, GiveUpViews
<1>6. CASE ReadRemote(d)
  <2>1. /\ Steps(d, Main, "get", "save")
        /\ \A u \in Thread \ {Main} : pc'[d][u] = pc[d][u]
    BY <1>1, <1>6, Moved DEF ReadRemote, At, Steps
  <2>2. /\ OneMoves(d, Main)
        /\ bytes'[d][Main] = remoteBody[creds[d]] /\ creds[d] \in Account
        /\ files'[d] = files[d] /\ dirty'[d] = dirty[d] /\ UNCHANGED remoteBody
    BY <1>1, <1>6, <2>1 DEF ReadRemote, OneMoves
  <2>3. Local(d)' = Local(d)
    BY <2>2, LocalSame
  <2>4. Sending(d)' = Sending(d)
    BY <1>1, <2>1, <2>2, SendingSame DEF Carrying, Steps
  <2>5. Received(d)' = Changes(remoteBody[creds[d]])
    BY <2>1, <2>2 DEF Received, Changes, Steps
  <2>6. ASSUME NEW u \in Thread, NEW from, NEW to, Steps(d, u, from, to), from # to
        PROVE  from = "get"
    BY <2>1, <2>2, <2>6 DEF Steps, OneMoves
  <2>7. ~Protects(d) /\ ~ExposesAll(d)
    BY <1>1, <2>6 DEF Protects, ExposesAll, AfterUpload, Thread
  <2>8. StoredBy(d) = Changes(remoteBody[creds[d]])
    <3>1. {u \in Thread : Steps(d, u, "put", "clear")} = {}
      BY <2>6
    <3> QED
      BY <2>1, <2>2, <3>1 DEF StoredBy
  <2>9. stored'[d] = stored[d] \cup Changes(remoteBody[creds[d]])
    BY <2>8 DEF HistoryStep
  <2>10. exposed'[d] = exposed[d]
    BY <2>3, <2>7 DEF HistoryStep
  <2> QED
    BY <1>1, <2>2, <2>3, <2>4, <2>5, <2>9, <2>10, ViewFetch
<1>7. CASE SkipDownload(d)
  <2>1. /\ pc[d][Main] \in {"get", "save"}
        /\ pc'[d][Main] = "reopen"
        /\ \A u \in Thread \ {Main} : pc'[d][u] = pc[d][u]
    BY <1>1, <1>7, Moved DEF SkipDownload, At
  <2>2. Silent(d, Main) /\ pc'[d][Main] \notin Carrying
    BY <1>1, <1>7, <2>1 DEF SkipDownload, Silent, OneMoves, Carrying
  <2>3. files'[d] = files[d] /\ dirty'[d] = dirty[d] /\ UNCHANGED remoteBody
    BY <1>7 DEF SkipDownload
  <2>4. Local(d)' = Local(d) /\ Received(d)' = {}
    BY <2>1, <2>3, LocalSame DEF Received
  <2>5. Sending(d)' = Sending(d) /\ stored'[d] = stored[d] /\ exposed'[d] = exposed[d]
    BY <1>1, <2>2, <2>4, SilentEffect
  <2> QED
    BY <1>1, <2>3, <2>4, <2>5, ViewDrop
<1>8. CASE BeginSave(d)
  <2>1. /\ pc[d][Main] = "save"
        /\ pc'[d][Main] = "saving"
        /\ \A u \in Thread \ {Main} : pc'[d][u] = pc[d][u]
    BY <1>1, <1>8, Moved DEF BeginSave, At
  <2>2. Silent(d, Main) /\ pc'[d][Main] \notin Carrying
    BY <1>1, <1>8, <2>1 DEF BeginSave, Silent, OneMoves, Carrying
  <2>3. dirty'[d] = dirty[d] /\ bytes' = bytes /\ UNCHANGED remoteBody
    BY <1>8 DEF BeginSave
  <2>4. Received(d)' = Received(d)
    BY <2>1, <2>3 DEF Received, Changes
  <2>5. dbPath[d] \in Path
    BY <1>1, <2>1 DEF Connected, ClosedPC, DownloadPC
  <2>6. Local(d)' = IF dbPath[d] = Default THEN {} ELSE Local(d)
    BY <1>1, <1>8, <2>5 DEF BeginSave, Local, Changes, Path
  <2>7. Sending(d)' = Sending(d) /\ stored'[d] = stored[d] /\ exposed'[d] = exposed[d]
    BY <1>1, <2>2, <2>6, SilentEffect
  <2>8. Local(d) \subseteq stored[d] \cup exposed[d]
    BY <1>1, <2>1 DEF Protected, Overwriting
  <2>9. CASE dbPath[d] = Default
    BY <1>1, <2>3, <2>4, <2>6, <2>7, <2>8, <2>9, ViewReplace
  <2>10. CASE dbPath[d] # Default
    BY <1>1, <2>3, <2>4, <2>6, <2>7, <2>10, Stutters DEF SameView
  <2> QED
    BY <2>9, <2>10
<1>9. CASE EndSave(d)
  <2>1. /\ pc[d][Main] = "saving"
        /\ pc'[d][Main] = "reopen"
        /\ \A u \in Thread \ {Main} : pc'[d][u] = pc[d][u]
    BY <1>1, <1>9, Moved DEF EndSave, At
  <2>2. Silent(d, Main) /\ pc'[d][Main] \notin Carrying
    BY <1>1, <1>9, <2>1 DEF EndSave, Silent, OneMoves, Carrying
  <2>3. dirty'[d] = dirty[d] /\ UNCHANGED remoteBody
    BY <1>9 DEF EndSave
  <2>4. /\ Received(d)' = {}
        /\ Received(d) = Changes(bytes[d][Main])
        /\ Received(d) \subseteq stored[d]
    BY <1>1, <2>1 DEF Received, Transfers
  <2>5. dbPath[d] \in Path
    BY <1>1, <2>1 DEF Connected, ClosedPC, DownloadPC
  <2>6. PICK body \in {bytes[d][Main], Torn} : files' = [files EXCEPT ![d][dbPath[d]] = body]
    BY <1>9 DEF EndSave
  <2>7. Local(d)' = IF dbPath[d] = Default THEN Changes(body) ELSE Local(d)
    BY <1>1, <2>5, <2>6 DEF Local, Changes, Path
  <2>8. dbPath[d] = Default => Local(d) = {}
    BY <1>1, <2>1 DEF Transfers, Local, Changes
  <2>9. Changes(body) \in {Received(d), {}}
    BY <2>4, <2>6 DEF Changes
  <2>10. Sending(d)' = Sending(d) /\ stored'[d] = stored[d] /\ exposed'[d] = exposed[d]
    <3>1. Local(d)' \subseteq Local(d) \cup stored[d]
      BY <2>4, <2>7, <2>9
    <3> QED
      BY <1>1, <2>2, <3>1, SilentEffect
  <2>11. CASE dbPath[d] = Default /\ Changes(body) = Received(d)
    BY <1>1, <2>3, <2>4, <2>7, <2>8, <2>10, <2>11, ViewReplace
  <2>12. CASE dbPath[d] # Default \/ Changes(body) = {}
    <3>1. Local(d)' = Local(d)
      BY <2>7, <2>8, <2>12
    <3> QED
      BY <1>1, <2>3, <2>4, <2>10, <3>1, ViewDrop
  <2> QED
    BY <2>9, <2>11, <2>12
<1> QED
  BY <1>2, <1>3, <1>4, <1>5, <1>6, <1>7, <1>8, <1>9 DEF StartStep

(***************************************************************************)
(* And so is every step of the splash page and of the login page.          *)
(***************************************************************************)
LEMMA PageViews ==
    ASSUME RInv, HistoryStep, NEW d \in Device, OnlyAt(d), PageStep(d)
    PROVE  Implements
<1>1. /\ ThreadsTypeOK /\ DatabaseTypeOK
      /\ dirty \in [Device -> BOOLEAN]
      /\ localPath \in [Device -> Path \cup {None}]
      /\ Main \in Thread
      /\ Inv /\ HistoryTyped
  BY StepTypes DEF Thread, RInv, HInv, Inv, TypeOK
<1> USE DEF dbVars, prefVars, remoteVars, regVars, syncVars
<1>2. CASE SplashLocal(d) \/ SplashCloud(d)
  <2>1. /\ pc[d][Main] = "splash"
        /\ pc'[d][Main] \in {"dash", "login", "init"}
        /\ \A u \in Thread \ {Main} : pc'[d][u] = pc[d][u]
    BY <1>1, <1>2, Moved DEF SplashLocal, SplashCloud, At
  <2>2. Pause(d, Main)
    BY <1>1, <1>2, <2>1 DEF SplashLocal, SplashCloud, Pause, Silent, OneMoves,
       Carrying, Storing
  <2>3. Local(d)' = Local(d)
    BY <1>1, <1>2, OpenAtLocal, LocalSame DEF SplashLocal, SplashCloud, OpenFails
  <2> QED
    BY <1>1, <2>2, <2>3, PauseStutters
<1>3. CASE LoginClearDirty(d)
  <2>1. /\ Steps(d, Main, "loginClear", "init")
        /\ \A u \in Thread \ {Main} : pc'[d][u] = pc[d][u]
    BY <1>1, <1>3, Moved DEF LoginClearDirty, At, Steps
  <2>2. OneMoves(d, Main)
    BY <1>1, <1>3, <2>1 DEF LoginClearDirty, OneMoves
  <2>3. files'[d] = files[d] /\ dirty'[d] = FALSE /\ UNCHANGED remoteBody
    BY <1>1, <1>3 DEF LoginClearDirty
  <2> QED
    BY <2>1, <2>2, <2>3, GiveUpViews
<1> QED
  BY <1>2, <1>3 DEF PageStep

-----------------------------------------------------------------------------
(* The user                                                                *)

(***************************************************************************)
(* A commit edits the cellar, or another database.                         *)
(***************************************************************************)
LEMMA CommitViews ==
    ASSUME RInv, HistoryStep, NEW d \in Device, OnlyAt(d),
           NEW t \in Thread, Pause(d, t), NEW w \in Write, Commit(d, w)
    PROVE  Implements
<1>1. /\ files \in [Device -> [Path -> {None} \cup Body]]
      /\ Inv /\ HistoryTyped
      /\ dbPath[d] \in Path /\ files[d][dbPath[d]] # None
  BY StepTypes DEF RInv, HInv, Inv, Connected, Commit
<1>2. dirty'[d] = dirty[d] /\ UNCHANGED remoteBody
  BY DEF Pause
<1>3. CASE dbPath[d] = Default
  <2>1. Local(d) = files[d][Default]
    BY <1>1, <1>3 DEF Local, Changes, Commit
  <2>2. files'[d][Default] = files[d][Default] \cup {w}
    BY <1>1, <1>3 DEF Commit
  <2>3. files[d][Default] \in SUBSET Write
    BY <1>1, <1>3 DEF Commit, Body
  <2>4. files'[d][Default] \in Body \ {None, Torn}
    BY <2>2, <2>3, DatabaseAssumption DEF Body
  <2>5. Local(d)' = Local(d) \cup {w}
    BY <2>1, <2>2, <2>4 DEF Local, Changes
  <2>6. CASE w \in Local(d)
    BY <1>1, <2>5, <2>6, PauseStutters
  <2>7. CASE w \notin Local(d)
    <3>1. exposed'[d] = exposed[d] \cup ({w} \ stored[d])
      BY <2>5, <2>7, PauseEffect
    <3> QED
      BY <1>1, <1>2, <2>5, <2>7, <3>1, PauseEffect, ViewEdit
  <2> QED
    BY <2>6, <2>7
<1>4. CASE dbPath[d] # Default
  <2>1. Local(d)' = Local(d)
    BY <1>1, <1>4, LocalSame DEF Commit, Path
  <2> QED
    BY <1>1, <2>1, PauseStutters
<1> QED
  BY <1>3, <1>4

(***************************************************************************)
(* When the process is killed, what was on its way is dropped.             *)
(***************************************************************************)
LEMMA KillViews ==
    ASSUME RInv, HistoryStep, NEW d \in Device, OnlyAt(d), Kill(d)
    PROVE  Implements
<1>1. /\ ThreadsTypeOK /\ Main \in Thread /\ Call \subseteq Thread
      /\ Inv /\ HistoryTyped
  BY StepTypes DEF Thread, RInv, HInv
<1>2. \A t \in Thread : pc'[d][t] = IF t = Main THEN "off" ELSE "idle"
  BY <1>1 DEF Kill, ThreadsTypeOK
<1>3. files'[d] = files[d] /\ dirty'[d] = dirty[d] /\ UNCHANGED remoteBody
  BY DEF Kill, prefVars, remoteVars
<1>4. Local(d)' = Local(d)
  BY <1>3, LocalSame
<1>5. Received(d)' = {}
  BY <1>1, <1>2 DEF Received
<1>6. Sending(d)' = {}
  <2>1. {u \in Thread : pc'[d][u] \in {"reading", "put", "clear"}} = {}
    BY <1>2
  <2> QED
    BY <2>1 DEF Sending
<1>7. ~Protects(d)
  BY <1>1, <1>2 DEF Protects, Steps
<1>8. ~ExposesAll(d)
  BY <1>1, <1>2, <1>3 DEF ExposesAll, Steps
<1>9. StoredBy(d) = {}
  BY <1>1, <1>2 DEF StoredBy, Steps
<1>10. stored'[d] = stored[d] /\ exposed'[d] = exposed[d]
  BY <1>4, <1>7, <1>8, <1>9, NoHistoryEffect DEF NoHistory
<1> QED
  BY <1>1, <1>3, <1>4, <1>5, <1>6, <1>10, ViewDrop

(***************************************************************************)
(* On a mobile device the file that is opened replaces the cellar.         *)
(***************************************************************************)
LEMMA PickViews ==
    ASSUME RInv, HistoryStep, NEW d \in Device, OnlyAt(d), Pause(d, Main),
           LocalOnly, ~InPlace, OpenCopyOf(d, Picked) \/ OpenCopyFails(d, Picked)
    PROVE  Implements
<1>1. /\ files \in [Device -> [Path -> {None} \cup Body]]
      /\ Inv /\ HistoryTyped /\ Main \in Thread
      /\ files[d][Picked] \in {None} \cup Body /\ files[d][Default] \in {None} \cup Body
  BY StepTypes DEF RInv, HInv, Thread, Path
<1>2. files'[d][Default] \in {None} \cup Body
  <2>1. \A body \in Opened(files[d][Picked]) : body \in Body
    BY <1>1 DEF Opened, Body
  <2>2. CASE OpenCopyOf(d, Picked)
    <3>1. PICK body \in Opened(files[d][Picked]) : files' = [files EXCEPT ![d][Default] = body]
      BY <2>2 DEF OpenCopyOf
    <3> QED
      BY <1>1, <2>1, <3>1 DEF Path
  <2>3. CASE OpenCopyFails(d, Picked)
    BY <1>1, <2>3 DEF OpenCopyFails, Path, Body
  <2> QED
    BY <2>2, <2>3
<1>3. Local(d)' \subseteq Write
  BY <1>2 DEF Local, Changes, Body
<1>4. dirty'[d] = dirty[d] /\ UNCHANGED remoteBody
  BY DEF Pause
<1> QED
  BY <1>1, <1>3, <1>4, PauseEffect, ViewPick

(***************************************************************************)
(* Every step of the user and of the operating system is one of            *)
(* CloudCopies.                                                            *)
(***************************************************************************)
LEMMA UserViews ==
    ASSUME RInv, HistoryStep, NEW d \in Device, OnlyAt(d), UserStep(d)
    PROVE  Implements
<1>1. /\ ThreadsTypeOK /\ DatabaseTypeOK
      /\ files \in [Device -> [Path -> {None} \cup Body]]
      /\ Main \in Thread /\ Call \subseteq Thread
      /\ Inv /\ HistoryTyped
  BY StepTypes DEF Thread, RInv, HInv, Inv, TypeOK
<1> USE DEF dbVars, prefVars, remoteVars, regVars, syncVars
<1>2. CASE Launch(d) \/ AnswerConflict(d) \/ SignOut(d) \/ \E a \in Account : Login(d, a)
  <2>1. /\ pc[d][Main] \in {"off", "conflict", "dash", "login"}
        /\ pc'[d][Main] \in {"splash", "enter", "resolve", "login", "loginClear"}
        /\ \A u \in Thread \ {Main} : pc'[d][u] = pc[d][u]
    BY <1>1, <1>2, Moved DEF Launch, AnswerConflict, SignOut, Login, At
  <2>2. Pause(d, Main)
    BY <1>1, <1>2, <2>1 DEF Launch, AnswerConflict, SignOut, Login, Pause, Silent, OneMoves,
       Carrying, Storing
  <2>3. Local(d)' = Local(d)
    BY <1>2, LocalSame DEF Launch, AnswerConflict, SignOut, Login
  <2> QED
    BY <1>1, <2>2, <2>3, PauseStutters
<1>3. CASE CreateLocalDatabase(d) \/ OpenLocalDatabase(d)
  <2>1. /\ pc[d][Main] = "login"
        /\ pc'[d][Main] \in {"dash", "login"}
        /\ \A u \in Thread \ {Main} : pc'[d][u] = pc[d][u]
    BY <1>1, <1>3, Moved DEF CreateLocalDatabase, OpenLocalDatabase, At
  <2>2. Pause(d, Main)
    BY <1>1, <1>3, <2>1 DEF CreateLocalDatabase, OpenLocalDatabase, Pause, Silent, OneMoves,
       Carrying, Storing
  <2>3. CASE \E p \in Path : OpenAt(d, p) \/ OpenFails(d, p)
    <3>1. Local(d)' = Local(d)
      BY <1>1, <2>3, OpenAtLocal, LocalSame DEF OpenFails
    <3> QED
      BY <1>1, <2>2, <3>1, PauseStutters
  <2>4. CASE LocalOnly /\ ~InPlace /\ (OpenCopyOf(d, Picked) \/ OpenCopyFails(d, Picked))
    BY <2>2, <2>4, PickViews
  <2> QED
    BY <1>3, <2>3, <2>4 DEF CreateLocalDatabase, OpenLocalDatabase, Path
<1>4. ASSUME NEW w \in Write, NEW c \in Call, WriteAndSync(d, w, c)
      PROVE  Implements
  <2>1. /\ pc[d][c] = "idle"
        /\ pc'[d][c] = "mark"
        /\ \A u \in Thread \ {c} : pc'[d][u] = pc[d][u]
    BY <1>1, <1>4, Moved DEF WriteAndSync, At
  <2>2. Pause(d, c)
    BY <1>1, <1>4, <2>1 DEF WriteAndSync, Pause, Silent, OneMoves, Carrying, Storing
  <2> QED
    BY <1>1, <1>4, <2>2, CommitViews DEF WriteAndSync
<1>5. ASSUME NEW w \in Write, WriteOnly(d, w)
      PROVE  Implements
  <2>1. pc[d][Main] = "dash" /\ pc' = pc
    BY <1>5 DEF WriteOnly, At
  <2>2. Pause(d, Main)
    BY <1>1, <1>5, <2>1 DEF WriteOnly, Pause, Silent, OneMoves, Carrying, Storing
  <2> QED
    BY <1>1, <1>5, <2>2, CommitViews DEF WriteOnly
<1>6. CASE SaveDatabaseAs(d)
  <2>1. pc[d][Main] = "dash" /\ pc' = pc
    BY <1>6 DEF SaveDatabaseAs, At
  <2>2. Pause(d, Main)
    BY <1>1, <1>6, <2>1 DEF SaveDatabaseAs, Pause, Silent, OneMoves, Carrying, Storing
  <2>3. Local(d)' = Local(d)
    BY <1>1, <1>6, LocalSame, DatabaseAssumption DEF SaveDatabaseAs, ExportTo, Path
  <2> QED
    BY <1>1, <2>2, <2>3, PauseStutters
<1>7. ASSUME NEW c \in Call, AppBackground(d, c)
      PROVE  Implements
  <2>1. /\ pc[d][c] = "idle"
        /\ pc'[d][c] = "mark"
        /\ \A u \in Thread \ {c} : pc'[d][u] = pc[d][u]
    BY <1>1, <1>7, Moved DEF AppBackground, At
  <2>2. Pause(d, c)
    BY <1>1, <1>7, <2>1 DEF AppBackground, Pause, Silent, OneMoves, Carrying, Storing
  <2>3. Local(d)' = Local(d)
    BY <1>7, LocalSame DEF AppBackground
  <2> QED
    BY <1>1, <2>2, <2>3, PauseStutters
<1> QED
  BY <1>2, <1>3, <1>4, <1>5, <1>6, <1>7, KillViews DEF UserStep

-----------------------------------------------------------------------------
(* The invariant                                                           *)

(* Nothing of device d that the invariant is about changes.                *)
Still(d) ==
    /\ Same(d)
    /\ dbPath'[d] = dbPath[d] /\ localPath'[d] = localPath[d] /\ client'[d] = client[d]

(* Thread t of d moves, not to the storing of a download, and touches no   *)
(* file while another thread stores one.                                   *)
Steady(d, t) ==
    /\ OneMoves(d, t)
    /\ \A u \in Thread \ {t} : client'[d][u] = client[d][u]
    /\ pc'[d][t] \notin Storing
    /\ pc'[d][t] \in {"read", "reading", "put"} => client'[d][t] \in Account
    /\ \/ t = Main \/ pc[d][Main] = "dash"
       \/ files'[d] = files[d] /\ dbPath'[d] = dbPath[d]

(***************************************************************************)
(* Such a move keeps what is known of the transfers.                       *)
(***************************************************************************)
LEMMA SteadyKept ==
    ASSUME HistoryStep, NEW d \in Device, Transfers(d), NEW t \in Thread, Steady(d, t)
    PROVE  Transfers(d)'
<1>1. Main \in Thread
  BY DEF Thread
<1>2. stored[d] \subseteq stored'[d]
  BY DEF HistoryStep
<1>3. OneMoves(d, t)
  BY DEF Steady
<1>4. Received(d)' \in {Received(d), {}}
  <2>1. CASE t = Main
    BY <2>1 DEF Steady, Storing, Received
  <2>2. CASE t # Main
    BY <1>1, <1>3, <2>2 DEF OneMoves, Received, Changes
  <2> QED
    BY <2>1, <2>2
<1>5. Received(d)' \subseteq stored'[d]
  BY <1>2, <1>4 DEF Transfers
<1>6. pc'[d][Main] = "saving" => files'[d][dbPath'[d]] = Torn
  BY <1>1 DEF Transfers, Steady, OneMoves, Storing
<1>7. \A u \in Thread : pc'[d][u] \in {"read", "reading", "put"} => client'[d][u] \in Account
  BY DEF Transfers, Steady, OneMoves
<1> QED
  BY <1>5, <1>6, <1>7 DEF Transfers

(* A device that stands still keeps its invariants.                        *)
LEMMA StillKept ==
    ASSUME HistoryStep, NEW d \in Device, OwnFiles(d), Transfers(d), Still(d)
    PROVE  OwnFiles(d)' /\ Transfers(d)'
<1>1. stored[d] \subseteq stored'[d]
  BY DEF HistoryStep
<1>2. Received(d)' = Received(d)
  BY DEF Still, Same, Received, Changes
<1> QED
  BY <1>1, <1>2 DEF OwnFiles, Transfers, Still, Same

(***************************************************************************)
(* An upload works with the path of the connection and the account that is *)
(* signed in.                                                              *)
(***************************************************************************)
LEMMA UploadSteady ==
    ASSUME RInv, HistoryStep, NEW d \in Device, NEW t \in Thread, UploadStep(d, t),
           UNCHANGED localPath
    PROVE  OwnFiles(d)' /\ Transfers(d)' /\ \A e \in Device \ {d} : Still(e)
<1>1. /\ ThreadsTypeOK
      /\ creds \in [Device -> Account \cup {None}]
      /\ client \in [Device -> [Thread -> Account \cup {None}]]
      /\ target \in [Device -> [Thread -> Path \cup {None}]]
      /\ bytes \in [Device -> [Thread -> {None} \cup Body]]
      /\ Inv /\ OwnFiles(d) /\ Transfers(d)
  BY StepTypes DEF RInv, HInv
<1> USE DEF dbVars, prefVars, remoteVars, regVars, LeaveUpload
<1>2. files' = files /\ dbPath' = dbPath
  BY DEF UploadStep, SkipUpload, BeginUpload, UploadThrows, Checkpoint, NoClient, GetClient,
     BeginRead, EndRead, Put, PutUnanswered, ClearAfterUpload
<1>3. PICK label \in UploadPC \cup {AfterUpload(t)} : GoTo(d, t, label)
  BY DEF UploadStep, SkipUpload, BeginUpload, UploadThrows, Checkpoint, NoClient, GetClient,
     BeginRead, EndRead, Put, PutUnanswered, ClearAfterUpload, UploadPC
<1>4. /\ pc'[d][t] = label
      /\ \A u \in Thread \ {t} : pc'[d][u] = pc[d][u]
  BY <1>1, <1>3, Moved
<1>5. /\ \A u \in Thread \ {t} : /\ client'[d][u] = client[d][u]
                                 /\ target'[d][u] = target[d][u]
                                 /\ bytes'[d][u] = bytes[d][u]
      /\ \A e \in Device \ {d} : client'[e] = client[e]
      /\ target'[d][t] \in {target[d][t], dbPath[d], None}
  BY <1>1 DEF UploadStep, SkipUpload, BeginUpload, UploadThrows, Checkpoint, NoClient,
     GetClient, BeginRead, EndRead, Put, PutUnanswered, ClearAfterUpload
<1>6. label \in {"read", "reading", "put"} => client'[d][t] \in Account
  <2>1. CASE GetClient(d, t)
    BY <1>1, <2>1 DEF GetClient
  <2>2. CASE BeginRead(d, t) \/ EndRead(d, t)
    BY <1>1, <2>2 DEF BeginRead, EndRead, At, Transfers
  <2>3. CASE ~GetClient(d, t) /\ ~BeginRead(d, t) /\ ~EndRead(d, t)
    <3>1. pc'[d][t] \in {"checkpoint", "client", "clear", AfterUpload(t)}
      BY <1>1, <2>3, Moved DEF UploadStep, SkipUpload, BeginUpload, UploadThrows, Checkpoint,
         NoClient, Put, PutUnanswered, ClearAfterUpload
    <3> QED
      BY <1>4, <3>1 DEF AfterUpload
  <2> QED
    BY <2>1, <2>2, <2>3
<1>7. Steady(d, t)
  BY <1>2, <1>4, <1>5, <1>6 DEF Steady, OneMoves, Storing, UploadPC, AfterUpload
<1>8. OwnFiles(d)'
  BY <1>1, <1>2, <1>5, DatabaseAssumption DEF OwnFiles, Path
<1>9. \A e \in Device \ {d} : Still(e)
  BY <1>1, <1>2, <1>5, UploadKept DEF Still
<1> QED
  BY <1>1, <1>7, <1>8, <1>9, SteadyKept

(***************************************************************************)
(* A call that flags its changes does not touch any of it.                 *)
(***************************************************************************)
LEMMA CallSteady ==
    ASSUME RInv, HistoryStep, NEW d \in Device, NEW c \in Call,
           MarkDirty(d, c) \/ StampLastWrite(d, c), UNCHANGED localPath
    PROVE  OwnFiles(d)' /\ Transfers(d)' /\ \A e \in Device \ {d} : Still(e)
<1>1. ThreadsTypeOK /\ Inv /\ OwnFiles(d) /\ Transfers(d) /\ c \in Thread
  BY StepTypes DEF RInv, HInv, Thread
<1>2. UNCHANGED <<files, dbPath, client, target, bytes>>
  BY DEF MarkDirty, StampLastWrite, dbVars, regVars
<1>3. /\ pc'[d][c] \in {"stamp", "enter"}
      /\ \A u \in Thread \ {c} : pc'[d][u] = pc[d][u]
  BY <1>1, Moved DEF MarkDirty, StampLastWrite
<1>4. Steady(d, c)
  BY <1>2, <1>3 DEF Steady, OneMoves, Storing
<1>5. OwnFiles(d)' /\ \A e \in Device \ {d} : Still(e)
  BY <1>1, <1>2, CallKept DEF OwnFiles, Still
<1> QED
  BY <1>1, <1>4, <1>5, SteadyKept

(***************************************************************************)
(* What the start-up downloads is stored from then on, and it truncates    *)
(* the file before it writes it.                                           *)
(***************************************************************************)
LEMMA StartSteady ==
    ASSUME RInv, HistoryStep, NEW d \in Device, StartStep(d), UNCHANGED localPath
    PROVE  OwnFiles(d)' /\ Transfers(d)' /\ \A e \in Device \ {d} : Still(e)
<1>1. /\ ThreadsTypeOK
      /\ files \in [Device -> [Path -> {None} \cup Body]]
      /\ dbPath \in [Device -> Path \cup {None}]
      /\ bytes \in [Device -> [Thread -> {None} \cup Body]]
      /\ Inv /\ OwnFiles(d) /\ Transfers(d) /\ Main \in Thread /\ Connected
  BY StepTypes DEF RInv, HInv, Inv, Thread
<1> USE DEF dbVars, regVars
<1>2. /\ client' = client /\ target' = target
      /\ dbPath'[d] \in {dbPath[d], Default}
      /\ \A e \in Device \ {d} : dbPath'[e] = dbPath[e]
      /\ \A u \in Thread \ {Main} : bytes'[d][u] = bytes[d][u]
  BY <1>1 DEF StartStep, StartInit, StartInitThrows, CheckDirty, CompareTimes,
     ResolveWithRemote, CloseForDownload, ReadRemote, SkipDownload, BeginSave, EndSave, Reopen,
     ReopenThrows, InitDb, OpenAt, OpenFails, Close
<1>3. PICK label : GoTo(d, Main, label)
  BY DEF StartStep, StartInit, StartInitThrows, CheckDirty, CompareTimes,
     ResolveWithRemote, CloseForDownload, ReadRemote, SkipDownload, BeginSave, EndSave, Reopen,
     ReopenThrows
<1>4. \A u \in Thread \ {Main} : pc'[d][u] = pc[d][u]
  BY <1>1, <1>3, Moved
<1>5. OneMoves(d, Main)
  BY <1>2, <1>4 DEF OneMoves
<1>6. OwnFiles(d)'
  BY <1>1, <1>2, DatabaseAssumption DEF OwnFiles
<1>7. \A e \in Device \ {d} : Still(e)
  BY <1>1, <1>2, StartKept DEF Still
<1>8. \A u \in Thread \ {Main} :
          pc'[d][u] \in {"read", "reading", "put"} => client'[d][u] \in Account
  BY <1>1, <1>2, <1>4 DEF Transfers
<1>9. CASE ReadRemote(d)
  <2>1. Steps(d, Main, "get", "save")
    BY <1>1, <1>9, Moved DEF ReadRemote, At, Steps
  <2>2. Received(d)' = Changes(bytes'[d][Main])
    BY <2>1 DEF Steps, Received, Changes
  <2>3. Changes(bytes'[d][Main]) \subseteq StoredBy(d)
    BY <2>1 DEF StoredBy
  <2>4. Received(d)' \subseteq stored'[d]
    BY <2>2, <2>3 DEF HistoryStep
  <2> QED
    BY <1>6, <1>7, <1>8, <2>1, <2>4 DEF Transfers, Steps
<1>10. CASE BeginSave(d)
  <2>1. pc[d][Main] = "save" /\ pc'[d][Main] = "saving"
    BY <1>1, <1>10, Moved DEF BeginSave, At
  <2>2. Received(d)' = Received(d) /\ stored[d] \subseteq stored'[d]
    BY <1>10, <2>1 DEF BeginSave, Received, Changes, HistoryStep
  <2>3. dbPath[d] \in Path
    BY <1>1, <2>1 DEF Connected, ClosedPC, DownloadPC
  <2>4. files'[d][dbPath'[d]] = Torn
    BY <1>1, <1>10, <2>3 DEF BeginSave
  <2> QED
    BY <1>1, <1>6, <1>7, <1>8, <2>1, <2>2, <2>4 DEF Transfers
<1>11. CASE ~ReadRemote(d) /\ ~BeginSave(d)
  <2>1. pc'[d][Main] \in {"start", "login", "lastmod", "close", "conflict", "enter", "get",
                          "reopen", "dash", "loading"}
    BY <1>1, <1>11, Moved DEF StartStep, StartInit, StartInitThrows, CheckDirty, CompareTimes,
       ResolveWithRemote, CloseForDownload, SkipDownload, EndSave, Reopen, ReopenThrows
  <2>2. Steady(d, Main)
    BY <1>2, <1>5, <2>1 DEF Steady, Storing
  <2> QED
    BY <1>1, <1>6, <1>7, <2>2, SteadyKept
<1> QED
  BY <1>9, <1>10, <1>11

(***************************************************************************)
(* The splash page opens the database that was chosen before.              *)
(***************************************************************************)
LEMMA PageSteady ==
    ASSUME RInv, HistoryStep, NEW d \in Device, PageStep(d)
    PROVE  OwnFiles(d)' /\ Transfers(d)' /\ \A e \in Device \ {d} : Still(e)
<1>1. /\ ThreadsTypeOK
      /\ dbPath \in [Device -> Path \cup {None}]
      /\ Inv /\ OwnFiles(d) /\ Transfers(d) /\ Main \in Thread
  BY StepTypes DEF RInv, HInv, Thread
<1>2. /\ UNCHANGED <<client, target, bytes, localPath>>
      /\ dbPath'[d] \in {dbPath[d], localPath[d]}
      /\ \A e \in Device \ {d} : dbPath'[e] = dbPath[e]
  BY <1>1 DEF PageStep, SplashLocal, SplashCloud, LoginClearDirty, OpenAt, OpenFails,
     dbVars, regVars
<1>3. /\ pc'[d][Main] \in {"dash", "login", "init"}
      /\ \A u \in Thread \ {Main} : pc'[d][u] = pc[d][u]
  BY <1>1, Moved DEF PageStep, SplashLocal, SplashCloud, LoginClearDirty
<1>4. Steady(d, Main)
  BY <1>2, <1>3 DEF Steady, OneMoves, Storing
<1>5. OwnFiles(d)' /\ \A e \in Device \ {d} : Still(e)
  BY <1>1, <1>2, PageKept DEF OwnFiles, Still
<1> QED
  BY <1>1, <1>4, <1>5, SteadyKept

(***************************************************************************)
(* Only where databases are opened in place does the user choose a path,   *)
(* and no file is written while a download is stored.                      *)
(***************************************************************************)
LEMMA UserSteady ==
    ASSUME RInv, HistoryStep, NEW d \in Device, UserStep(d)
    PROVE  OwnFiles(d)' /\ Transfers(d)' /\ \A e \in Device \ {d} : Still(e)
<1>1. /\ ThreadsTypeOK
      /\ dbPath \in [Device -> Path \cup {None}]
      /\ localPath \in [Device -> Path \cup {None}]
      /\ client \in [Device -> [Thread -> Account \cup {None}]]
      /\ target \in [Device -> [Thread -> Path \cup {None}]]
      /\ Inv /\ OwnFiles(d) /\ Transfers(d) /\ Main \in Thread /\ Call \subseteq Thread
  BY StepTypes DEF RInv, HInv, Inv, TypeOK, Thread
<1>2. \A e \in Device \ {d} : Same(e)
  BY <1>1, UserKept
<1> USE DEF dbVars, syncVars, regVars
<1>3. CASE Launch(d) \/ AnswerConflict(d) \/ SignOut(d) \/ \E a \in Account : Login(d, a)
  <2>1. /\ pc'[d][Main] \in {"splash", "enter", "resolve", "login", "loginClear"}
        /\ \A u \in Thread \ {Main} : pc'[d][u] = pc[d][u]
    BY <1>1, <1>3, Moved DEF Launch, AnswerConflict, SignOut, Login
  <2>2. /\ UNCHANGED <<dbPath, client, target, bytes>>
        /\ localPath'[d] \in {localPath[d], None}
        /\ \A e \in Device \ {d} : localPath'[e] = localPath[e]
    BY <1>1, <1>3 DEF Launch, AnswerConflict, SignOut, Login
  <2>3. Steady(d, Main)
    BY <2>1, <2>2 DEF Steady, OneMoves, Storing
  <2>4. OwnFiles(d)' /\ \A e \in Device \ {d} : Still(e)
    BY <1>1, <1>2, <2>2, DatabaseAssumption DEF OwnFiles, Still, Path
  <2> QED
    BY <1>1, <2>3, <2>4, SteadyKept
<1>4. CASE CreateLocalDatabase(d) \/ OpenLocalDatabase(d)
  <2>1. /\ pc'[d][Main] \in {"dash", "login"}
        /\ \A u \in Thread \ {Main} : pc'[d][u] = pc[d][u]
    BY <1>1, <1>4, Moved DEF CreateLocalDatabase, OpenLocalDatabase
  <2>2. UNCHANGED <<client, target, bytes>>
    BY <1>4 DEF CreateLocalDatabase, OpenLocalDatabase
  <2>3. /\ dbPath'[d] \in {dbPath[d], IF InPlace THEN Picked ELSE Default}
        /\ \A e \in Device \ {d} : dbPath'[e] = dbPath[e]
    BY <1>1, <1>4 DEF CreateLocalDatabase, OpenLocalDatabase, OpenAt, OpenFails, OpenCopyOf,
       OpenCopyFails
  <2>4. /\ localPath'[d] \in {localPath[d], IF InPlace THEN Picked ELSE Default}
        /\ \A e \in Device \ {d} : localPath'[e] = localPath[e]
        /\ LocalOnly
    BY <1>1, <1>4 DEF CreateLocalDatabase, OpenLocalDatabase
  <2>5. Steady(d, Main)
    BY <2>1, <2>2 DEF Steady, OneMoves, Storing
  <2>6. OwnFiles(d)' /\ \A e \in Device \ {d} : Still(e)
    BY <1>1, <1>2, <2>2, <2>3, <2>4, DatabaseAssumption DEF OwnFiles, Still
  <2> QED
    BY <1>1, <2>5, <2>6, SteadyKept
<1>5. CASE \E w \in Write : WriteOnly(d, w) \/ \E c \in Call : WriteAndSync(d, w, c)
  <2>1. PICK t \in Thread : /\ pc'[d][t] \in {"dash", "mark"}
                            /\ \A u \in Thread \ {t} : pc'[d][u] = pc[d][u]
    <3>1. CASE \E w \in Write : WriteOnly(d, w)
      BY <1>1, <3>1 DEF WriteOnly, At
    <3>2. ASSUME NEW w \in Write, NEW c \in Call, WriteAndSync(d, w, c)
          PROVE  /\ pc'[d][c] = "mark"
                 /\ \A u \in Thread \ {c} : pc'[d][u] = pc[d][u]
      BY <1>1, <3>2, Moved DEF WriteAndSync
    <3> QED
      BY <1>1, <1>5, <3>1, <3>2
  <2>2. UNCHANGED <<dbPath, localPath, client, target, bytes>> /\ pc[d][Main] = "dash"
    BY <1>5 DEF WriteOnly, WriteAndSync, Commit, At
  <2>3. Steady(d, t)
    BY <2>1, <2>2 DEF Steady, OneMoves, Storing
  <2>4. OwnFiles(d)' /\ \A e \in Device \ {d} : Still(e)
    BY <1>1, <1>2, <2>2 DEF OwnFiles, Still
  <2> QED
    BY <1>1, <2>3, <2>4, SteadyKept
<1>6. CASE SaveDatabaseAs(d)
  <2>1. /\ UNCHANGED <<pc, dbPath, localPath, client, target, bytes>>
        /\ pc[d][Main] = "dash"
    BY <1>6 DEF SaveDatabaseAs, ExportTo, At
  <2>2. Steady(d, Main)
    BY <2>1 DEF Steady, OneMoves, Storing
  <2>3. OwnFiles(d)' /\ \A e \in Device \ {d} : Still(e)
    BY <1>1, <1>2, <2>1 DEF OwnFiles, Still
  <2> QED
    BY <1>1, <2>2, <2>3, SteadyKept
<1>7. ASSUME NEW c \in Call, AppBackground(d, c)
      PROVE  OwnFiles(d)' /\ Transfers(d)' /\ \A e \in Device \ {d} : Still(e)
  <2>1. /\ pc'[d][c] = "mark"
        /\ \A u \in Thread \ {c} : pc'[d][u] = pc[d][u]
    BY <1>1, <1>7, Moved DEF AppBackground
  <2>2. UNCHANGED <<files, dbPath, localPath, client, target, bytes>>
    BY <1>7 DEF AppBackground
  <2>3. Steady(d, c)
    BY <2>1, <2>2 DEF Steady, OneMoves, Storing
  <2>4. OwnFiles(d)' /\ \A e \in Device \ {d} : Still(e)
    BY <1>1, <1>2, <2>2 DEF OwnFiles, Still
  <2> QED
    BY <1>1, <1>7, <2>3, <2>4, SteadyKept
<1>8. CASE Kill(d)
  <2>1. \A t \in Thread : pc'[d][t] \in {"off", "idle"}
    BY <1>1, <1>8 DEF Kill, ThreadsTypeOK
  <2>2. Transfers(d)'
    BY <1>1, <2>1 DEF Transfers, Received
  <2>3. OwnFiles(d)' /\ \A e \in Device \ {d} : Still(e)
    BY <1>1, <1>2, <1>8, DatabaseAssumption DEF Kill, OwnFiles, Still, Path
  <2> QED
    BY <2>2, <2>3
<1> QED
  BY <1>3, <1>4, <1>5, <1>6, <1>7, <1>8 DEF UserStep

-----------------------------------------------------------------------------
(* The refinement                                                          *)

(***************************************************************************)
(* A step of one device keeps the invariant and is one of CloudCopies.     *)
(***************************************************************************)
LEMMA DeviceStep ==
    ASSUME RInv, HNext, NEW d \in Device, UserStep(d) \/ PageStep(d) \/ ServiceStep(d)
    PROVE  RInv' /\ Implements
<1>1. Inv /\ HInv /\ HistoryTyped /\ HistoryStep /\ Next
  BY DEF RInv, HInv, HNext
<1>2. HInv' /\ Inv'
  BY <1>1, HInvStep DEF HInv
<1>3. OwnFiles(d)' /\ Transfers(d)' /\ \A e \in Device \ {d} : Still(e)
  BY <1>1, UserSteady, PageSteady, CallSteady, UploadSteady, StartSteady DEF ServiceStep
<1>4. HistoryTyped'
  BY <1>1 DEF HistoryStep, HistoryTyped
<1>5. ASSUME NEW e \in Device PROVE OwnFiles(e)' /\ Transfers(e)'
  <2>1. OwnFiles(e) /\ Transfers(e)
    BY DEF RInv
  <2>2. CASE e = d
    BY <1>3, <2>2
  <2>3. CASE e # d
    BY <1>1, <1>3, <2>1, <2>3, StillKept
  <2> QED
    BY <2>2, <2>3
<1>6. RInv'
  BY <1>2, <1>4, <1>5 DEF RInv
<1>7. OnlyAt(d)
  BY <1>1, <1>2, <1>3, OneView DEF Still
<1>8. Implements
  BY <1>1, <1>7, UserViews, PageViews, CallViews, UploadViews, StartViews DEF ServiceStep
<1> QED
  BY <1>6, <1>8

(***************************************************************************)
(* Time passing, and nothing happening, change no view.                    *)
(***************************************************************************)
LEMMA IdleStep ==
    ASSUME RInv, [HNext]_<<vars, historyVars>>,
           UNCHANGED <<files, dirty, pc, target, bytes, dbPath, localPath, client, remoteBody>>,
           HistoryStep \/ UNCHANGED historyVars
    PROVE  RInv' /\ Implements
<1>1. Inv /\ HInv /\ HistoryTyped
  BY DEF RInv, HInv
<1>2. HInv' /\ Inv'
  BY <1>1, HInvStep DEF HInv
<1>3. \A d \in Device : Still(d) /\ Same(d)
  BY DEF Still, Same
<1>4. \A d \in Device : stored'[d] = stored[d] /\ exposed'[d] = exposed[d]
  BY <1>3, SameIsSameView DEF SameView, historyVars
<1>5. stored' = stored /\ exposed' = exposed
  BY <1>1, <1>4 DEF HistoryTyped, HistoryStep, historyVars
<1>6. RInv'
  <2>1. \A d \in Device : Received(d)' = Received(d)
    BY DEF Received, Changes
  <2>2. ASSUME NEW d \in Device PROVE OwnFiles(d)' /\ Transfers(d)'
    BY <1>5, <2>1 DEF RInv, OwnFiles, Transfers
  <2> QED
    BY <1>1, <1>2, <1>5, <2>2 DEF RInv, HistoryTyped
<1>7. /\ Held' = Held /\ Outgoing' = Outgoing /\ Incoming' = Incoming
      /\ OnServer' = OnServer
  BY DEF Held, Outgoing, Incoming, OnServer, Local, Sending, Received, Changes
<1>8. Implements
  BY <1>5, <1>7 DEF Implements, Copies!copies
<1> QED
  BY <1>6, <1>8

(* Every step keeps the invariant and is a step of CloudCopies or none.    *)
LEMMA RInvStep ==
    ASSUME RInv, [HNext]_<<vars, historyVars>>
    PROVE  RInv' /\ Implements
<1>1. CASE UNCHANGED <<vars, historyVars>>
  BY <1>1, IdleStep DEF vars, dbVars, syncVars, prefVars, remoteVars, regVars
<1>2. CASE HNext
  <2>1. CASE \E d \in Device : UserStep(d) \/ PageStep(d) \/ ServiceStep(d)
    BY <1>2, <2>1, DeviceStep
  <2>2. CASE Tick /\ UNCHANGED <<localPath, written>>
    BY <1>2, <2>2, IdleStep DEF Tick, HNext, dbVars, prefVars, remoteVars, regVars
  <2> QED
    BY <1>2, <2>1, <2>2 DEF HNext, Next
<1> QED
  BY <1>1, <1>2

(***************************************************************************)
(* Initially there is nothing to copy.                                     *)
(***************************************************************************)
LEMMA RInvInit ==
    ASSUME HInit
    PROVE  RInv /\ Copies!CopiesInit
<1> USE DEF HInit, Init, DatabaseInit, SyncInit
<1>1. Inv
  BY InitInv
<1>2. /\ \A d \in Device : files[d][Default] = None
      /\ \A d \in Device, t \in Thread : pc[d][t] \in {"off", "idle"}
      /\ \A d \in Device, t \in Thread : target[d][t] = None
      /\ \A d \in Device : dbPath[d] = None /\ localPath[d] = None
      /\ Main \in Thread
  BY DEF Path, Thread
<1>3. \A d \in Device : Local(d) = {} /\ Sending(d) = {} /\ Received(d) = {}
  <2> TAKE d \in Device
  <2>1. Local(d) = {}
    BY <1>2 DEF Local, Changes
  <2>2. Sending(d) = {}
    BY <1>2, SendingNothing DEF Carrying
  <2>3. Received(d) = {}
    BY <1>2 DEF Received
  <2> QED
    BY <2>1, <2>2, <2>3
<1>4. HInv
  BY <1>1, <1>3 DEF HInv, Protected
<1>5. \A d \in Device : OwnFiles(d) /\ Transfers(d)
  BY <1>2, <1>3, DatabaseAssumption DEF OwnFiles, Transfers, Path
<1>6. RInv
  BY <1>4, <1>5 DEF RInv, HistoryTyped
<1>7. Held = [d \in Device |-> {}] /\ Outgoing = [d \in Device |-> {}]
        /\ Incoming = [d \in Device |-> {}]
  BY <1>3 DEF Held, Outgoing, Incoming
<1>8. OnServer = [a \in Account |-> {}]
  BY DEF OnServer, Changes
<1>9. Copies!CopiesInit
  BY <1>7, <1>8 DEF Copies!CopiesInit
<1> QED
  BY <1>6, <1>9

(***************************************************************************)
(* The service, the pages and the database service around it implement     *)
(* CloudCopies, whatever interleaves between their awaits, fails, is lost  *)
(* or is killed.                                                           *)
(***************************************************************************)
THEOREM CopiesKept == HSpec => KeepsCopies
<1>1. HInit => RInv /\ Copies!CopiesInit
  BY RInvInit
<1>2. RInv /\ [HNext]_<<vars, historyVars>> => RInv' /\ [Copies!CopiesNext]_(Copies!copies)
  BY RInvStep DEF Implements
<1> QED
  BY <1>1, <1>2, PTL DEF HSpec, KeepsCopies, Copies!CopiesSpec

=============================================================================
