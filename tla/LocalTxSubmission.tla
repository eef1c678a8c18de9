------------------------- MODULE LocalTxSubmission -------------------------
(***************************************************************************)
(* localtxsubmissionServerSubmitTx (src/outbound.go, the localtxsubmission *)
(* part) handling concurrent submissions from local clients, against the   *)
(* mempool it inserts into (spec 4.9: one entry per hash, insertion        *)
(* ordered, bounded; re-adding a hash refreshes its last-seen; a full      *)
(* mempool rejects with MempoolFull).  Each client's handler decodes the   *)
(* transaction, hashes it, stamps LastSeen with time.Now() and then calls  *)
(* AddTransaction, which is atomic under the mempool's lock.  Blocks that  *)
(* consume pooled transactions are the environment.                        *)
(***************************************************************************)
EXTENDS Naturals, Sequences, SequencesExt, FiniteSets

CONSTANTS
    Clients,    \* local tx-submission sessions
    Txs,        \* transaction hashes (a decodable transaction per hash)
    Cap,        \* mempool capacity
    MaxTime     \* bound: the wall clock reading

VARIABLES
    now,        \* time.Now()
    pc,         \* pc[c]: "idle" | "decoded" | "stamped" | "done"
    txOf,       \* txOf[c]: the hash client c submits
    stamp,      \* stamp[c]: the LastSeen the handler took
    res,        \* res[c]: what SubmitTx returned: "none" | "ok" | "err"
    pool,       \* the mempool: sequence of [hash, lastSeen] in insertion order
    consumed    \* history: hashes a block consumed out of the pool

vars == <<now, pc, txOf, stamp, res, pool, consumed>>

Entry == [hash : Txs, lastSeen : 0..MaxTime]

TypeOK ==
    /\ now \in 0..MaxTime
    /\ pc \in [Clients -> {"idle", "decoded", "stamped", "done"}]
    /\ txOf \in [Clients -> Txs] /\ stamp \in [Clients -> 0..MaxTime]
    /\ res \in [Clients -> {"none", "ok", "err"}]
    /\ pool \in Seq(Entry)
    /\ consumed \subseteq Txs

PoolHashes == {pool[i].hash : i \in 1..Len(pool)}

IndexOf(h) == CHOOSE i \in 1..Len(pool) : pool[i].hash = h

-----------------------------------------------------------------------------
(* Mempool (spec 4.9) *)

\* mempool.AddTransaction: refresh an existing entry in place, else append
\* if there is room; TRUE when the transaction was accepted.
AddOk(h) == h \in PoolHashes \/ Len(pool) < Cap

AddTransaction(h, ts) ==
    /\ pool' = IF h \in PoolHashes
               THEN [pool EXCEPT ![IndexOf(h)].lastSeen = ts]
               ELSE IF Len(pool) < Cap THEN Append(pool, [hash |-> h, lastSeen |-> ts])
               ELSE pool

\* A block consumes a pooled transaction.
Consume ==
    /\ pool # <<>>
    /\ \E i \in 1..Len(pool) :
         /\ pool' = RemoveAt(pool, i)
         /\ consumed' = consumed \cup {pool[i].hash}
    /\ UNCHANGED <<now, pc, txOf, stamp, res>>

Tick ==
    /\ now < MaxTime
    /\ now' = now + 1
    /\ UNCHANGED <<pc, txOf, stamp, res, pool, consumed>>

-----------------------------------------------------------------------------
(* localtxsubmissionServerSubmitTx *)

\* NewTransactionFromCbor: a codec error returns it to the client.
Decode(c) ==
    /\ pc[c] = "idle"
    /\ \E h \in Txs, ok \in BOOLEAN :
         /\ txOf' = [txOf EXCEPT ![c] = h]
         /\ pc' = [pc EXCEPT ![c] = IF ok THEN "decoded" ELSE "done"]
         /\ res' = [res EXCEPT ![c] = IF ok THEN "none" ELSE "err"]
    /\ UNCHANGED <<now, stamp, pool, consumed>>

\* Hash it and build the MempoolTransaction with LastSeen: time.Now().
Stamp(c) ==
    /\ pc[c] = "decoded"
    /\ stamp' = [stamp EXCEPT ![c] = now]
    /\ pc' = [pc EXCEPT ![c] = "stamped"]
    /\ UNCHANGED <<now, txOf, res, pool, consumed>>

\* Fault: the AddTransaction error logged but nil returned.
AddIgnoringError(c) ==
    /\ pc[c] = "stamped"
    /\ AddTransaction(txOf[c], stamp[c])
    /\ res' = [res EXCEPT ![c] = "ok"]
    /\ pc' = [pc EXCEPT ![c] = "done"]
    /\ UNCHANGED <<now, txOf, stamp, consumed>>

\* mempool.AddTransaction; its error is logged and returned.
Add(c) ==
    /\ pc[c] = "stamped"
    /\ AddTransaction(txOf[c], stamp[c])
    /\ res' = [res EXCEPT ![c] = IF AddOk(txOf[c]) THEN "ok" ELSE "err"]
    /\ pc' = [pc EXCEPT ![c] = "done"]
    /\ UNCHANGED <<now, txOf, stamp, consumed>>

\* The client submits again on the same session.
Resubmit(c) ==
    /\ pc[c] = "done"
    /\ pc' = [pc EXCEPT ![c] = "idle"]
    /\ res' = [res EXCEPT ![c] = "none"]
    /\ UNCHANGED <<now, txOf, stamp, pool, consumed>>

Init ==
    /\ now = 0
    /\ pc = [c \in Clients |-> "idle"]
    /\ txOf \in [Clients -> Txs]
    /\ stamp = [c \in Clients |-> 0]
    /\ res = [c \in Clients |-> "none"]
    /\ pool = <<>>
    /\ consumed = {}

Next ==
    \/ Tick \/ Consume
    \/ \E c \in Clients : Decode(c) \/ Stamp(c) \/ Add(c) \/ Resubmit(c)

Spec == Init /\ [][Next]_vars

-----------------------------------------------------------------------------
(* Properties *)

\* A client told its submission succeeded has its transaction in the
\* mempool, unless a block has consumed that hash since: a MempoolFull from
\* AddTransaction must reach the client as an error.
AckMeansPooled ==
    \A c \in Clients :
        res[c] = "ok" => (txOf[c] \in PoolHashes \/ txOf[c] \in consumed)
=============================================================================
