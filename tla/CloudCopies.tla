---------------------------- MODULE CloudCopies -----------------------------
(***************************************************************************)
(* What the sync with u:cloud promises about the cellar of a device and    *)
(* the file of an account: each is copied as it is at one moment, and is   *)
(* replaced by such a copy. A change leaves a cellar only when it is safe  *)
(* (it has been on the server) or at risk, and the flag for unsynced       *)
(* changes is taken back only when the cellar has no other changes.        *)
(***************************************************************************)
CONSTANTS
    Device, Account, Change,
    OtherFile,   \* whether a device may have a second database that is synced
    PickReplaces \* whether opening a database replaces the cellar by it

VARIABLES
    held,     \* held[d]: the changes in the cellar of d
    flag,     \* flag[d]: there may be unsynced changes
    copy,     \* copy[d]: what d is sending
    fetched,  \* fetched[d]: what d has received and not yet stored
    safe,     \* safe[d]: changes that d knows to have been on the server
    risk,     \* risk[d]: changes that are not protected
    cloud     \* cloud[a]: the changes in the file of account a

copies == <<held, flag, copy, fetched, safe, risk, cloud>>

CopiesInit ==
    /\ held = [d \in Device |-> {}]
    /\ flag = [d \in Device |-> FALSE]
    /\ copy = [d \in Device |-> {}]
    /\ fetched = [d \in Device |-> {}]
    /\ safe = [d \in Device |-> {}]
    /\ risk = [d \in Device |-> {}]
    /\ cloud = [a \in Account |-> {}]

Covered(d) == held[d] \subseteq safe[d] \cup risk[d]

(* A change is at risk until it is flagged,                                *)
Edit(d, c) ==
    /\ c \notin held[d]
    /\ held' = [held EXCEPT ![d] = @ \cup {c}]
    /\ risk' = [risk EXCEPT ![d] = @ \cup ({c} \ safe[d])]
    /\ UNCHANGED <<flag, copy, fetched, safe, cloud>>

(* and then no more, unless the flag comes too late.                       *)
Flag(d) ==
    /\ flag' = [flag EXCEPT ![d] = TRUE]
    /\ risk' \in {risk, [risk EXCEPT ![d] = {}]}
    /\ UNCHANGED <<held, copy, fetched, safe, cloud>>

(* A copy of the cellar is sent, of a second database, or one that is not  *)
(* readable because the cellar changed meanwhile.                          *)
Take(d) ==
    /\ copy' = [copy EXCEPT ![d] = held[d]]
    /\ UNCHANGED <<held, flag, fetched, safe, risk, cloud>>

TakeOther(d, body) ==
    /\ OtherFile
    /\ copy' = [copy EXCEPT ![d] = body]
    /\ UNCHANGED <<held, flag, fetched, safe, risk, cloud>>

TakeTorn(d) ==
    /\ copy' = [copy EXCEPT ![d] = {}]
    /\ risk' = [risk EXCEPT ![d] = @ \cup held[d]]
    /\ UNCHANGED <<held, flag, fetched, safe, cloud>>

(* It replaces the file on the server, and d learns that it did,           *)
Deliver(d, a) ==
    /\ cloud' = [cloud EXCEPT ![a] = copy[d]]
    /\ safe' = [safe EXCEPT ![d] = @ \cup copy[d]]
    /\ UNCHANGED <<held, flag, copy, fetched, risk>>

(* or does not.                                                            *)
DeliverUnanswered(d, a) ==
    /\ cloud' = [cloud EXCEPT ![a] = copy[d]]
    /\ copy' = [copy EXCEPT ![d] = {}]
    /\ UNCHANGED <<held, flag, fetched, safe, risk>>

(* Nothing is left to be synced.                                           *)
Settle(d) ==
    /\ Covered(d)
    /\ flag' = [flag EXCEPT ![d] = FALSE]
    /\ copy' = [copy EXCEPT ![d] = {}]
    /\ UNCHANGED <<held, fetched, safe, risk, cloud>>

(* The same is believed after sending a second database.                   *)
SettleOther(d) ==
    /\ OtherFile
    /\ flag' = [flag EXCEPT ![d] = FALSE]
    /\ copy' = [copy EXCEPT ![d] = {}]
    /\ risk' = [risk EXCEPT ![d] = @ \cup held[d]]
    /\ UNCHANGED <<held, fetched, safe, cloud>>

(* The user logs in, or wants the version of the server.                   *)
GiveUp(d) ==
    /\ flag' = [flag EXCEPT ![d] = FALSE]
    /\ risk' = [risk EXCEPT ![d] = @ \cup held[d]]
    /\ UNCHANGED <<held, copy, fetched, safe, cloud>>

(* What the server has is fetched, the cellar makes room for it and is     *)
(* replaced by it.                                                         *)
Fetch(d, a) ==
    /\ fetched' = [fetched EXCEPT ![d] = cloud[a]]
    /\ safe' = [safe EXCEPT ![d] = @ \cup cloud[a]]
    /\ UNCHANGED <<held, flag, copy, risk, cloud>>

Truncate(d) ==
    /\ Covered(d)
    /\ held' = [held EXCEPT ![d] = {}]
    /\ UNCHANGED <<flag, copy, fetched, safe, risk, cloud>>

Install(d) ==
    /\ Covered(d)
    /\ held' = [held EXCEPT ![d] = fetched[d]]
    /\ fetched' = [fetched EXCEPT ![d] = {}]
    /\ UNCHANGED <<flag, copy, safe, risk, cloud>>

(* An attempt fails, or the process ends.                                  *)
Drop(d) ==
    /\ copy' \in {copy, [copy EXCEPT ![d] = {}]}
    /\ fetched' \in {fetched, [fetched EXCEPT ![d] = {}]}
    /\ UNCHANGED <<held, flag, safe, risk, cloud>>

(* The user opens a database, whose changes are at risk unless safe.       *)
Pick(d, body) ==
    /\ PickReplaces
    /\ held' = [held EXCEPT ![d] = body]
    /\ risk' = [risk EXCEPT ![d] = @ \cup (body \ (held[d] \cup safe[d]))]
    /\ UNCHANGED <<flag, copy, fetched, safe, cloud>>

CopiesNext ==
    \E d \in Device :
        \/ \E c \in Change : Edit(d, c)
        \/ Flag(d)
        \/ Take(d) \/ TakeTorn(d)
        \/ \E body \in SUBSET Change : TakeOther(d, body) \/ Pick(d, body)
        \/ \E a \in Account : Deliver(d, a) \/ DeliverUnanswered(d, a) \/ Fetch(d, a)
        \/ Settle(d) \/ SettleOther(d) \/ GiveUp(d)
        \/ Truncate(d) \/ Install(d) \/ Drop(d)

CopiesSpec == CopiesInit /\ [][CopiesNext]_copies

=============================================================================
