---------------------------- MODULE ServerHistory ----------------------------
(***************************************************************************)
(* AppSession with four history variables, to say which changes end in the *)
(* u:cloud folder of another account and which an upload removes from the  *)
(* server. Signing out leaves the connection, the file winecellar.db and   *)
(* running uploads as they are, and the next login may be to another       *)
(* account; an upload may also run beside the download of a start-up.      *)
(*                                                                         *)
(* origin[w]  the account signed in when change w was made.                *)
(* home[d]    the account whose file winecellar.db of d is: the one it was *)
(*            completely downloaded from, until the user signs out or in.  *)
(* crossed    the changes that were read to be sent to an account although *)
(*            the file was not that account's.                             *)
(* overtaken[d]  the threads whose upload had begun to read the file when  *)
(*            a download began to replace it.                              *)
(***************************************************************************)
EXTENDS AppSession

VARIABLES origin, home, crossed, overtaken

accountVars == <<origin, home, crossed, overtaken>>

Changes(body) == IF body \in {None, Torn} THEN {} ELSE body

(* The step takes t into or through readAsBytes of uploadDb.               *)
Reads(d, t) == pc'[d][t] \in {"reading", "put"} /\ pc'[d][t] # pc[d][t]

(* A complete download into winecellar.db.                                 *)
Downloads(d) ==
    /\ pc[d][Main] = "saving" /\ pc'[d][Main] = "reopen"
    /\ dbPath[d] = Default
    /\ files'[d][Default] = bytes[d][Main]

(* A download begins, or a picked file is copied, over winecellar.db.      *)
Replaces(d) ==
    /\ pc'[d][Main] \in {"saving", "dash", "login"}
    /\ files'[d][Default] # files[d][Default]
    /\ written' = written

(* What t has read of a file that is not its account's.                    *)
Misdirected(d, t) ==
    IF Reads(d, t) /\ (home[d] # client[d][t] \/ target[d][t] # Default)
    THEN {<<client[d][t], w>> : w \in Changes(bytes'[d][t])}
    ELSE {}

(* The user of d makes change w.                                           *)
Makes(d, w) == w \notin written /\ w \in written' /\ files'[d] # files[d]

AccountStep ==
    /\ origin' = [w \in Write |-> IF \E d \in Device : Makes(d, w)
                                  THEN creds[CHOOSE d \in Device : Makes(d, w)]
                                  ELSE origin[w]]
    /\ home' = [d \in Device |->
                  CASE pc'[d][Main] = "login" \/ creds'[d] # creds[d] -> None
                    [] Downloads(d) -> creds[d]
                    [] OTHER -> home[d]]
    /\ crossed' = crossed \cup UNION {Misdirected(d, t) : d \in Device, t \in Thread}
    /\ overtaken' = [d \in Device |->
                       {t \in Thread : /\ pc'[d][t] \in {"reading", "put"}
                                       /\ t \in overtaken[d] \/ Replaces(d)}]

AInit ==
    /\ Init
    /\ origin = [w \in Write |-> None]
    /\ home = [d \in Device |-> None]
    /\ crossed = {}
    /\ overtaken = [d \in Device |-> {}]

ANext == Next /\ AccountStep

ASpec == AInit /\ [][ANext]_<<vars, accountVars>>

(***************************************************************************)
(* The folder of an account holds only changes made while signed in to it  *)
(* and crossed ones. Uploads overlap signing out and in, and the file of   *)
(* the previous account stays until the download: once an account's own    *)
(* file has been downloaded, nothing it uploads is another account's, and  *)
(* an upload begun before goes to the account it was begun for.            *)
(***************************************************************************)
AccountsSeparate ==
    \A a \in Account, w \in Write :
        w \in Changes(remoteBody[a]) => origin[w] = a \/ <<a, w>> \in crossed

(***************************************************************************)
(* Uploads reach the server in the order of their reads: a PUT removes no  *)
(* change from the server that the sender's own winecellar.db holds. The   *)
(* exceptions are torn bytes, uploads of another file, and uploads that a  *)
(* download has overtaken. What a PUT does remove are the changes of other *)
(* devices that the sender has never downloaded. A PUT that the server     *)
(* carries out after the client's timeout, behind a later one, is outside. *)
(***************************************************************************)
PutsInOrder ==
    [][\A d \in Device, t \in Thread :
         /\ pc[d][t] = "put" /\ pc'[d][t] # "put"
         /\ bytes[d][t] # Torn /\ target[d][t] = Default /\ t \notin overtaken[d]
         => \A a \in Account :
              Changes(remoteBody[a]) \cap Changes(files[d][Default])
                  \subseteq Changes(remoteBody'[a])]_<<vars, accountVars>>

=============================================================================
