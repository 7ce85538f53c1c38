-------------------------- MODULE IdempotencyStore --------------------------
(***************************************************************************)
(* The key store behind the idempotency middleware: the Store interface of *)
(* pkg/idempotency/store.go as pkg/idempotency/redisstore/store.go         *)
(* implements it.  Redis runs one command at a time, so each operation is  *)
(* one atomic change of store; its network failures belong to the caller   *)
(* (module Idempotency), because what a failure means depends on the step  *)
(* of the request that met it.                                             *)
(***************************************************************************)
EXTENDS Naturals

CONSTANTS
  Requests,      \* one member per HTTP attempt; a retry is another member
  Keys,          \* the namespaced keys "idempotency:{service}:{key}"
  Bodies,        \* request bodies up to their SHA-256 fingerprint
  Codes,         \* the status codes the handler chain may answer with
  NoEntry        \* what Get returns for a key that Redis does not hold

VARIABLE
  store          \* store[k]: the entry Redis holds under k, or NoEntry

Processing == "PROCESSING"
Completed  == "COMPLETED"

(***************************************************************************)
(* The stored body is abstracted to the request whose handler wrote it.    *)
(* The program keeps no owner in a PROCESSING entry: there, by is a        *)
(* history field that no guard reads.                                      *)
(***************************************************************************)
Entry == [status : {Processing, Completed}, code : Codes \cup {0},
          fingerprint : Bodies, by : Requests]

-----------------------------------------------------------------------------
(***************************************************************************)
(* Mutants: SET without NX; a lock entry without its status.               *)
(***************************************************************************)
PlainSet(k, body, r) ==
  store' = [store EXCEPT ![k] =
    [status |-> Processing, code |-> 0, fingerprint |-> body, by |-> r]]

UnmarkedEntry(body, r) ==
  [status |-> "", code |-> 0, fingerprint |-> body, by |-> r]

-----------------------------------------------------------------------------
Held(k) == store[k] # NoEntry

LockEntry(body, r) ==
  [status |-> Processing, code |-> 0, fingerprint |-> body, by |-> r]

\* SET key value NX EX lockTTL, the answer being "acquired".
Lock(k, body, r) ==
  /\ ~Held(k)
  /\ store' = [store EXCEPT ![k] = LockEntry(body, r)]

\* SET key value EX ttl, whatever is under the key.
Complete(k, body, r, code) ==
  store' = [store EXCEPT ![k] =
    [status |-> Completed, code |-> code, fingerprint |-> body, by |-> r]]

\* DEL key, whoever wrote what is under it.
Unlock(k) == store' = [store EXCEPT ![k] = NoEntry]

\* Redis drops an entry whose TTL (lockTTL or ttl) ran out.
Expire(k, status) ==
  /\ Held(k)
  /\ store[k].status = status
  /\ store' = [store EXCEPT ![k] = NoEntry]
=============================================================================
