------------------------- MODULE IdempotencyProofs -------------------------
(***************************************************************************)
(* Proofs about module Idempotency, for any requests, keys, bodies, codes  *)
(* and faults.                                                             *)
(***************************************************************************)
EXTENDS Idempotency, TLAPS

(***************************************************************************)
(* The inductive invariant, part by part.                                  *)
(***************************************************************************)
\* Only requests with a key get past Lock, a request holds the lock it took or
\* was refused it, and only its holders send Complete and Unlock.
LockedSane == \A r \in Requests :
  /\ r \in locked => Keyed(r) /\ pc[r] \notin {"received", "refused"}
  /\ pc[r] = "refused" => Keyed(r)
  /\ r \in late["lock"] => Keyed(r)
  /\ r \in late["settle"] => r \in locked

\* A keyed request that runs without a lock has waived its key.
BareWaived == \A r \in Requests :
  pc[r] = "running" /\ r \notin locked /\ Keyed(r) => Key(r) \in waived

\* A request that returned, and later one of which Complete or Unlock may still
\* arrive, has a code; with a write and a 5xx it has waived.
ReturnedSane == \A r \in Requests :
  pc[r] = "returned" \/ r \in late["settle"] =>
  /\ pc[r] \in {"returned", "finished", "lost"}
  /\ code[r] \in Codes
  /\ r \in effect /\ ServerError(code[r]) /\ Keyed(r) => Key(r) \in waived

\* While the promise stands, whoever wrote, or holds the lock and may still
\* write or settle, owns the entry.
Owned == \A r \in Requests :
  Keyed(r) /\ Key(r) \notin waived /\ Claims(r)
  => /\ r \in locked
     /\ Held(Key(r))
     /\ store[Key(r)].by = r

\* A completed entry records what its lock holder answered.
CompletedSane == \A k \in Keys : Held(k) /\ store[k].status = Completed =>
  LET s == store[k].by IN
    /\ s \in locked
    /\ Key(s) = k
    /\ pc[s] \in {"returned", "finished", "lost"}
    /\ BodyOf[s] = store[k].fingerprint
    /\ code[s] = store[k].code
    /\ ~ServerError(code[s])

\* A replay is faithful to a request that has returned, so stays faithful.
ReplaySane == \A r \in Requests : reply[r].kind = "replay" =>
  LET s == reply[r].by IN
    /\ pc[r] = "finished"
    /\ pc[s] \in {"returned", "finished", "lost"}
    /\ r \notin locked
    /\ s \in locked
    /\ Key(s) = Key(r)
    /\ BodyOf[s] = BodyOf[r]
    /\ reply[r].code = code[s]
    /\ ~ServerError(code[s])

IInv ==
  /\ TypeOK
  /\ LockedSane
  /\ BareWaived
  /\ ReturnedSane
  /\ Owned
  /\ CompletedSane
  /\ ReplaySane
-----------------------------------------------------------------------------
USE IdempotencyAssumption DEF Key, Keyed, Held, Processing, Completed, Commands

LEMMA EntryFacts ==
  /\ \A b \in Bodies, r \in Requests : LockEntry(b, r) \in Entry
  /\ \A k \in Keys : store \in [Keys -> Entry \cup {NoEntry}] /\ Held(k)
       => store[k] \in Entry
BY DEF LockEntry, Entry

\* Step 8 stores every answer but a server error.
LEMMA StoredUnlessServerError ==
  \A c \in Codes : shouldStoreResponse(c) <=> ~ServerError(c)
<1> SUFFICES ASSUME NEW c \in Codes
             PROVE shouldStoreResponse(c) <=> ~ServerError(c)
  OBVIOUS
<1>1. c \in Nat /\ c >= 200
  OBVIOUS
<1>2. QED
  BY <1>1 DEF shouldStoreResponse, ServerError

\* A refusal answers for itself.
LEMMA Refusal ==
  ASSUME NEW r \in Requests, Conflict(r) \/ Mismatch(r)
  PROVE  /\ Goto(r, "finished")
         /\ \E c \in {409, 422}, kind \in {"conflict", "mismatch"} :
              reply' = [reply EXCEPT ![r] = [kind |-> kind, code |-> c, by |-> r]]
         /\ UNCHANGED <<store, locked, gone, effect, late, code, waived>>
<1>1. CASE Conflict(r)
  <2>1. reply' = [reply EXCEPT ![r] = [kind |-> "conflict", code |-> 409, by |-> r]]
    BY <1>1, Zenon DEF Conflict, Answer
  <2>2. Goto(r, "finished") /\ UNCHANGED <<store, locked, gone, effect, late, code, waived>>
    BY <1>1, Zenon DEF Conflict, Answer
  <2> QED
    BY <2>1, <2>2
<1>2. CASE Mismatch(r)
  <2>1. reply' = [reply EXCEPT ![r] = [kind |-> "mismatch", code |-> 422, by |-> r]]
    BY <1>2, Zenon DEF Mismatch, Answer
  <2>2. Goto(r, "finished") /\ UNCHANGED <<store, locked, gone, effect, late, code, waived>>
    BY <1>2, Zenon DEF Mismatch, Answer
  <2> QED
    BY <2>1, <2>2
<1> QED
  BY <1>1, <1>2

\* What settles an entry leaves the answer of its request, or nothing.
LEMMA Settled ==
  ASSUME NEW r \in Requests, Settle(r), Keyed(r), code[r] \in Codes,
         store \in [Keys -> Entry \cup {NoEntry}]
  PROVE  /\ store' \in [Keys -> Entry \cup {NoEntry}]
         /\ \A k \in Keys \ {Key(r)} : store'[k] = store[k]
         /\ \/ ServerError(code[r]) /\ store'[Key(r)] = NoEntry
            \/ /\ ~ServerError(code[r])
               /\ store'[Key(r)] \in Entry
               /\ store'[Key(r)] = [status |-> "COMPLETED", code |-> code[r],
                                    fingerprint |-> BodyOf[r], by |-> r]
         /\ \/ waived' = waived
            \/ Overtaken(r) /\ waived' = waived \cup {Key(r)}
<1> DEFINE e == [status |-> "COMPLETED", code |-> code[r],
                 fingerprint |-> BodyOf[r], by |-> r]
<1>1. e \in Entry /\ Key(r) \in Keys
  BY DEF Entry
<1>2. \/ ~ServerError(code[r]) /\ store' = [store EXCEPT ![Key(r)] = e]
      \/ ServerError(code[r]) /\ store' = [store EXCEPT ![Key(r)] = NoEntry]
  BY StoredUnlessServerError DEF Settle, Complete, Unlock
<1>3. \/ waived' = waived
      \/ Overtaken(r) /\ waived' = waived \cup {Key(r)}
  BY DEF Settle
<1> HIDE DEF e
<1>4. /\ store' \in [Keys -> Entry \cup {NoEntry}]
      /\ \A k \in Keys \ {Key(r)} : store'[k] = store[k]
      /\ \/ ServerError(code[r]) /\ store'[Key(r)] = NoEntry
         \/ ~ServerError(code[r]) /\ store'[Key(r)] \in Entry /\ store'[Key(r)] = e
  BY <1>1, <1>2
<1>5. QED
  BY <1>3, <1>4 DEF e

\* Who settles its entry, in time or late, holds the lock and has returned.
LEMMA Settler ==
  ASSUME TypeOK, LockedSane, ReturnedSane, NEW r \in Requests,
         StoreResponse(r) \/ ReleaseLock(r) \/ LateSettle(r)
  PROVE  /\ Settle(r) /\ r \in locked /\ Keyed(r) /\ Key(r) \in Keys
         /\ pc[r] = "returned" \/ r \in late["settle"]
         /\ pc[r] \in {"returned", "finished", "lost"}
         /\ code[r] \in Codes
         /\ pc' = pc \/ (pc[r] = "returned" /\ Goto(r, "finished"))
         /\ UNCHANGED <<locked, gone, effect, late, code>>
<1>1. /\ Settle(r) /\ r \in locked
      /\ pc[r] = "returned" \/ r \in late["settle"]
      /\ pc' = pc \/ (pc[r] = "returned" /\ Goto(r, "finished"))
      /\ UNCHANGED <<locked, gone, effect, late, code>>
  BY DEF StoreResponse, ReleaseLock, LateSettle, AnswerOwn, Answer, LockedSane
<1>2. QED
  BY <1>1 DEF LockedSane, ReturnedSane

\* Every step keeps the types.
LEMMA TypeStep ==
  TypeOK /\ LockedSane /\ ReturnedSane /\ [Next]_vars => TypeOK'
<1> SUFFICES ASSUME TypeOK, LockedSane, ReturnedSane, [Next]_vars PROVE TypeOK'
  OBVIOUS
<1> USE DEF TypeOK
<1>1. ASSUME NEW r \in Requests, PassThrough(r) PROVE TypeOK'
  BY <1>1 DEF PassThrough, RunBare, Goto
<1>2. ASSUME NEW r \in Requests, BodyTooLarge(r) PROVE TypeOK'
  BY <1>2 DEF BodyTooLarge, Answer, Goto, Replies
<1>3. ASSUME NEW r \in Requests, BodyUnreadable(r) PROVE TypeOK'
  BY <1>3 DEF BodyUnreadable, Goto
<1>4. ASSUME NEW r \in Requests, LockAcquired(r) PROVE TypeOK'
  BY <1>4, EntryFacts DEF LockAcquired, Lock, Goto
<1>5. ASSUME NEW r \in Requests, LockRefused(r) PROVE TypeOK'
  BY <1>5 DEF LockRefused, Goto
<1>6. ASSUME NEW r \in Requests, NEW c \in Commands, CommandTimesOut(r, c)
      PROVE TypeOK'
  BY <1>6 DEF CommandTimesOut
<1>7. ASSUME NEW r \in Requests, LockErrs(r) PROVE TypeOK'
  BY <1>7 DEF LockErrs, RunBare, Goto
<1>8. ASSUME NEW r \in Requests, GetErrs(r) \/ EntryGone(r) PROVE TypeOK'
  BY <1>8 DEF GetErrs, EntryGone, RunBare, Goto
<1>9. ASSUME NEW r \in Requests, Conflict(r) \/ Mismatch(r) PROVE TypeOK'
  <2>1. /\ Goto(r, "finished")
        /\ \E c \in {409, 422}, kind \in {"conflict", "mismatch"} :
             reply' = [reply EXCEPT ![r] = [kind |-> kind, code |-> c, by |-> r]]
        /\ UNCHANGED <<store, locked, gone, effect, late, code, waived>>
    BY <1>9, Refusal
  <2>2. PICK c \in {409, 422}, kind \in {"conflict", "mismatch"} :
          reply' = [reply EXCEPT ![r] = [kind |-> kind, code |-> c, by |-> r]]
    BY <2>1, Zenon
  <2>3. [kind |-> kind, code |-> c, by |-> r] \in Replies
    BY DEF Replies
  <2>4. QED
    BY <2>1, <2>2, <2>3 DEF Goto
<1>10. ASSUME NEW r \in Requests, Replay(r) PROVE TypeOK'
  <2>1. store[Key(r)] \in Entry
    <3>1. Held(Key(r)) /\ store[Key(r)].status = "COMPLETED"
      BY <1>10 DEF Replay, GetFinds
    <3>2. Key(r) \in Keys
      BY <1>10 DEF Replay, GetFinds, LockedSane
    <3>3. QED
      BY <3>1, <3>2
  <2>2. /\ Goto(r, "finished")
        /\ reply' = [reply EXCEPT ![r] =
             [kind |-> "replay", code |-> store[Key(r)].code, by |-> store[Key(r)].by]]
        /\ UNCHANGED <<store, locked, gone, effect, late, code, waived>>
    BY <1>10 DEF Replay, Answer
  <2>3. QED
    BY <2>1, <2>2 DEF Goto, Replies, Entry
<1>11. ASSUME NEW r \in Requests, HandlerCommits(r) PROVE TypeOK'
  BY <1>11 DEF HandlerCommits
<1>12. ASSUME NEW r \in Requests, HandlerReturns(r) PROVE TypeOK'
  BY <1>12 DEF HandlerReturns, Goto
<1>13. ASSUME NEW r \in Requests, HandlerPanics(r) PROVE TypeOK'
  BY <1>13 DEF HandlerPanics, Answer, Goto, Replies
<1>14. ASSUME NEW r \in Requests, FinishBare(r) PROVE TypeOK'
  BY <1>14 DEF FinishBare, AnswerOwn, Answer, Goto, Replies
<1>15. ASSUME NEW r \in Requests, StoreResponse(r) \/ ReleaseLock(r) \/ LateSettle(r)
       PROVE TypeOK'
  <2>1. /\ Settle(r) /\ Keyed(r) /\ Key(r) \in Keys /\ code[r] \in Codes
    BY <1>15, Settler
  <2>2. store' \in [Keys -> Entry \cup {NoEntry}]
    BY <2>1, Settled
  <2>3. waived' = waived \/ waived' = waived \cup {Key(r)}
    BY <2>1, Settled
  <2>4. reply' \in [Requests -> Replies]
    BY <1>15 DEF StoreResponse, ReleaseLock, LateSettle, AnswerOwn, Answer, Replies
  <2>5. QED
    BY <1>15, <2>1, <2>2, <2>3, <2>4, Settler DEF Goto
<1>16. ASSUME NEW r \in Requests, LateLock(r) PROVE TypeOK'
  <2>1. Key(r) \in Keys
    BY <1>16 DEF LateLock, LockedSane
  <2>2. QED
    BY <1>16, <2>1, EntryFacts DEF LateLock, Lock
<1>17. ASSUME NEW r \in Requests, SettleErrs(r) PROVE TypeOK'
  BY <1>17 DEF SettleErrs, AnswerOwn, Answer, Goto, Replies
<1>18. ASSUME NEW r \in Requests, Disconnect(r) \/ Crash(r) PROVE TypeOK'
  BY <1>18 DEF Disconnect, Crash, Goto
<1>19. ASSUME NEW k \in Keys, ExpireLock(k) \/ ExpireEntry(k) PROVE TypeOK'
  BY <1>19 DEF ExpireLock, ExpireEntry, TimeOut, Expire
<1>20. CASE UNCHANGED vars
  BY <1>20 DEF vars
<1>21. QED
  BY <1>1, <1>2, <1>3, <1>4, <1>5, <1>6, <1>7, <1>8, <1>9, <1>10, <1>11, <1>12,
     <1>13, <1>14, <1>15, <1>16, <1>17, <1>18, <1>19, <1>20 DEF Next, Serve

\* Every step keeps LockedSane.
LEMMA LockedStep == TypeOK /\ LockedSane /\ [Next]_vars => LockedSane'
<1> SUFFICES ASSUME TypeOK, LockedSane, [Next]_vars PROVE LockedSane'
  OBVIOUS
<1> USE DEF LockedSane, TypeOK, Goto, Answer, RunBare, AnswerOwn, InHandler
<1>1. ASSUME NEW r \in Requests,
             PassThrough(r) \/ BodyTooLarge(r) \/ BodyUnreadable(r)
      PROVE LockedSane'
  BY <1>1 DEF PassThrough, BodyTooLarge, BodyUnreadable
<1>2. ASSUME NEW r \in Requests,
             LockAcquired(r) \/ LockRefused(r) \/ LockErrs(r)
      PROVE LockedSane'
  BY <1>2 DEF LockAcquired, LockRefused, LockErrs
<1>3. ASSUME NEW r \in Requests, GetErrs(r) \/ EntryGone(r) PROVE LockedSane'
  BY <1>3 DEF GetErrs, EntryGone
<1>4. ASSUME NEW r \in Requests, Conflict(r) \/ Mismatch(r) \/ Replay(r)
      PROVE LockedSane'
  <2>1. Goto(r, "finished") /\ UNCHANGED locked
    BY <1>4 DEF Conflict, Mismatch, Replay
  <2>2. QED
    BY <2>1, <1>4 DEF Conflict, Mismatch, Replay, GetFinds
<1>5. ASSUME NEW r \in Requests,
             HandlerCommits(r) \/ HandlerReturns(r) \/ HandlerPanics(r)
      PROVE LockedSane'
  BY <1>5 DEF HandlerCommits, HandlerReturns, HandlerPanics
<1>6. ASSUME NEW r \in Requests,
             \/ FinishBare(r) \/ StoreResponse(r)
             \/ ReleaseLock(r) \/ SettleErrs(r)
      PROVE LockedSane'
  BY <1>6 DEF FinishBare, StoreResponse, ReleaseLock, SettleErrs
<1>7. ASSUME NEW r \in Requests, Disconnect(r) \/ Crash(r) PROVE LockedSane'
  BY <1>7 DEF Disconnect, Crash
<1>8. ASSUME NEW k \in Keys, ExpireLock(k) \/ ExpireEntry(k) PROVE LockedSane'
  BY <1>8 DEF ExpireLock, ExpireEntry, TimeOut
<1>9. CASE UNCHANGED vars
  BY <1>9 DEF vars
<1>10. ASSUME NEW r \in Requests, NEW c \in Commands, CommandTimesOut(r, c)
       PROVE LockedSane'
  <2>1. Sending(r, c) /\ late' = [late EXCEPT ![c] = @ \cup {r}] /\ UNCHANGED <<locked, pc>>
    BY <1>10 DEF CommandTimesOut
  <2>2. c = "settle" => r \in locked
    BY <2>1 DEF Sending
  <2>3. c = "lock" => Keyed(r)
    BY <2>1 DEF Sending
  <2>4. QED
    BY <2>1, <2>2, <2>3
<1>11. ASSUME NEW r \in Requests, LateLock(r) \/ LateSettle(r) PROVE LockedSane'
  BY <1>11 DEF LateLock, LateSettle
<1>12. QED
  BY <1>1, <1>2, <1>3, <1>4, <1>5, <1>6, <1>7, <1>8, <1>9, <1>10, <1>11
  DEF Next, Serve

\* Every step keeps BareWaived.
LEMMA BareStep ==
  TypeOK /\ LockedSane /\ ReturnedSane /\ BareWaived /\ [Next]_vars => BareWaived'
<1> SUFFICES ASSUME TypeOK, LockedSane, ReturnedSane, BareWaived, [Next]_vars PROVE BareWaived'
  OBVIOUS
<1> USE DEF BareWaived, TypeOK, LockedSane, Goto, Answer, RunBare, AnswerOwn, InHandler
<1>1. ASSUME NEW r \in Requests, PassThrough(r) \/ BodyTooLarge(r) \/ BodyUnreadable(r)
      PROVE BareWaived'
  BY <1>1 DEF PassThrough, BodyTooLarge, BodyUnreadable
<1>2. ASSUME NEW r \in Requests, LockAcquired(r)
      PROVE BareWaived'
  BY <1>2 DEF LockAcquired, Lock
<1>3. ASSUME NEW r \in Requests, LockRefused(r)
      PROVE BareWaived'
  BY <1>3 DEF LockRefused
<1>4. ASSUME NEW r \in Requests, NEW c \in Commands, CommandTimesOut(r, c)
      PROVE BareWaived'
  BY <1>4 DEF CommandTimesOut
<1>5. ASSUME NEW r \in Requests, LockErrs(r)
      PROVE BareWaived'
  BY <1>5 DEF LockErrs
<1>6. ASSUME NEW r \in Requests, GetErrs(r) \/ EntryGone(r)
      PROVE BareWaived'
  BY <1>6 DEF GetErrs, EntryGone
<1>7. ASSUME NEW r \in Requests, Conflict(r) \/ Mismatch(r) \/ Replay(r)
      PROVE BareWaived'
  BY <1>7 DEF Conflict, Mismatch, Replay, GetFinds
<1>8. ASSUME NEW r \in Requests, HandlerCommits(r)
      PROVE BareWaived'
  BY <1>8 DEF HandlerCommits
<1>9. ASSUME NEW r \in Requests, HandlerReturns(r)
      PROVE BareWaived'
  BY <1>9 DEF HandlerReturns
<1>10. ASSUME NEW r \in Requests, HandlerPanics(r)
      PROVE BareWaived'
  BY <1>10 DEF HandlerPanics
<1>11. ASSUME NEW r \in Requests, FinishBare(r) \/ SettleErrs(r)
      PROVE BareWaived'
  BY <1>11 DEF FinishBare, SettleErrs
<1>12. ASSUME NEW r \in Requests, StoreResponse(r) \/ ReleaseLock(r) \/ LateSettle(r)
      PROVE BareWaived'
  <2>1. /\ pc[r] \in {"returned", "finished", "lost"}
        /\ pc' = pc \/ (pc[r] = "returned" /\ Goto(r, "finished"))
        /\ UNCHANGED <<locked, gone, effect, late, code>>
    BY <1>12, Settler
  <2>2. waived \subseteq waived'
    BY <1>12, Settler DEF Settle
  <2>3. QED
    BY <2>1, <2>2
<1>13. ASSUME NEW r \in Requests, LateLock(r)
      PROVE BareWaived'
  BY <1>13 DEF LateLock, Lock
<1>14. ASSUME NEW r \in Requests, Disconnect(r) \/ Crash(r)
      PROVE BareWaived'
  BY <1>14 DEF Disconnect, Crash
<1>15. ASSUME NEW k \in Keys, ExpireLock(k) \/ ExpireEntry(k)
      PROVE BareWaived'
  BY <1>15 DEF ExpireLock, ExpireEntry, TimeOut, Expire
<1>16. CASE UNCHANGED vars
  BY <1>16 DEF vars
<1>17. QED
  BY <1>1, <1>2, <1>3, <1>4, <1>5, <1>6, <1>7, <1>8, <1>9, <1>10, <1>11, <1>12, <1>13, <1>14, <1>15, <1>16
  DEF Next, Serve

\* Every step keeps ReturnedSane.
LEMMA ReturnedStep ==
  TypeOK /\ LockedSane /\ ReturnedSane /\ [Next]_vars => ReturnedSane'
<1> SUFFICES ASSUME TypeOK, LockedSane, ReturnedSane, [Next]_vars PROVE ReturnedSane'
  OBVIOUS
<1> USE DEF ReturnedSane, ServerError, TypeOK, LockedSane, Goto, Answer, RunBare, AnswerOwn, InHandler
<1>1. ASSUME NEW r \in Requests, PassThrough(r) \/ BodyTooLarge(r) \/ BodyUnreadable(r)
      PROVE ReturnedSane'
  BY <1>1 DEF PassThrough, BodyTooLarge, BodyUnreadable
<1>2. ASSUME NEW r \in Requests, LockAcquired(r)
      PROVE ReturnedSane'
  BY <1>2 DEF LockAcquired, Lock
<1>3. ASSUME NEW r \in Requests, LockRefused(r)
      PROVE ReturnedSane'
  BY <1>3 DEF LockRefused
<1>4. ASSUME NEW r \in Requests, NEW c \in Commands, CommandTimesOut(r, c)
      PROVE ReturnedSane'
  BY <1>4 DEF CommandTimesOut, Sending
<1>5. ASSUME NEW r \in Requests, LockErrs(r)
      PROVE ReturnedSane'
  BY <1>5 DEF LockErrs
<1>6. ASSUME NEW r \in Requests, GetErrs(r) \/ EntryGone(r)
      PROVE ReturnedSane'
  BY <1>6 DEF GetErrs, EntryGone
<1>7. ASSUME NEW r \in Requests, Conflict(r) \/ Mismatch(r) \/ Replay(r)
      PROVE ReturnedSane'
  BY <1>7 DEF Conflict, Mismatch, Replay, GetFinds
<1>8. ASSUME NEW r \in Requests, HandlerCommits(r)
      PROVE ReturnedSane'
  BY <1>8 DEF HandlerCommits
<1>9. ASSUME NEW r \in Requests, HandlerReturns(r)
      PROVE ReturnedSane'
  BY <1>9 DEF HandlerReturns
<1>10. ASSUME NEW r \in Requests, HandlerPanics(r)
      PROVE ReturnedSane'
  BY <1>10 DEF HandlerPanics
<1>11. ASSUME NEW r \in Requests, FinishBare(r) \/ SettleErrs(r)
      PROVE ReturnedSane'
  BY <1>11 DEF FinishBare, SettleErrs
<1>12. ASSUME NEW r \in Requests, StoreResponse(r) \/ ReleaseLock(r) \/ LateSettle(r)
      PROVE ReturnedSane'
  <2>1. /\ pc[r] \in {"returned", "finished", "lost"}
        /\ pc' = pc \/ (pc[r] = "returned" /\ Goto(r, "finished"))
        /\ UNCHANGED <<locked, gone, effect, late, code>>
    BY <1>12, Settler
  <2>2. waived \subseteq waived'
    BY <1>12, Settler DEF Settle
  <2>3. QED
    BY <2>1, <2>2
<1>13. ASSUME NEW r \in Requests, LateLock(r)
      PROVE ReturnedSane'
  BY <1>13 DEF LateLock, Lock
<1>14. ASSUME NEW r \in Requests, Disconnect(r) \/ Crash(r)
      PROVE ReturnedSane'
  BY <1>14 DEF Disconnect, Crash
<1>15. ASSUME NEW k \in Keys, ExpireLock(k) \/ ExpireEntry(k)
      PROVE ReturnedSane'
  BY <1>15 DEF ExpireLock, ExpireEntry, TimeOut, Expire
<1>16. CASE UNCHANGED vars
  BY <1>16 DEF vars
<1>17. QED
  BY <1>1, <1>2, <1>3, <1>4, <1>5, <1>6, <1>7, <1>8, <1>9, <1>10, <1>11, <1>12, <1>13, <1>14, <1>15, <1>16
  DEF Next, Serve

\* Every variable of the middleware keeps its type (idempotency.go, store.go).
THEOREM TypeCorrect == Spec => []TypeOK
<1>1. Init => TypeOK /\ LockedSane /\ ReturnedSane
  BY DEF Init, TypeOK, Replies, LockedSane, ReturnedSane
<1>2. TypeOK /\ LockedSane /\ ReturnedSane /\ [Next]_vars
        => (TypeOK /\ LockedSane /\ ReturnedSane)'
  BY TypeStep, LockedStep, ReturnedStep
<1>3. QED
  BY <1>1, <1>2, PTL DEF Spec

\* Every step keeps Owned: the heart of the matter.
LEMMA OwnedStep ==
  TypeOK /\ LockedSane /\ BareWaived /\ ReturnedSane /\ Owned /\ [Next]_vars => Owned'
<1> SUFFICES ASSUME TypeOK, LockedSane, BareWaived, ReturnedSane, Owned, [Next]_vars PROVE Owned'
  OBVIOUS
<1> USE DEF Owned, Claims, TypeOK, LockedSane, Goto, Answer, RunBare, AnswerOwn, InHandler
<1>1. ASSUME NEW r \in Requests, PassThrough(r) \/ BodyTooLarge(r) \/ BodyUnreadable(r)
      PROVE Owned'
  BY <1>1 DEF PassThrough, BodyTooLarge, BodyUnreadable
<1>2. ASSUME NEW r \in Requests, LockAcquired(r)
      PROVE Owned'
  <2> SUFFICES ASSUME NEW s \in Requests, Keyed(s), Key(s) \notin waived',
                      Claims(s)'
               PROVE  s \in locked' /\ Held(Key(s))' /\ store'[Key(s)].by = s
    BY DEF Owned
  <2>1. CASE s = r
    BY <1>2, <2>1 DEF LockAcquired, Lock, LockEntry, Entry
  <2>2. CASE s # r
    <3>1. s \in locked /\ Held(Key(s)) /\ store[Key(s)].by = s
      BY <1>2, <2>2 DEF LockAcquired
    <3>2. Key(s) # Key(r)
      BY <1>2, <3>1 DEF LockAcquired, Lock
    <3>3. QED
      BY <1>2, <3>1, <3>2 DEF LockAcquired, Lock
  <2>3. QED
    BY <2>1, <2>2
<1>3. ASSUME NEW r \in Requests, LockRefused(r)
      PROVE Owned'
  BY <1>3 DEF LockRefused
<1>4. ASSUME NEW r \in Requests, NEW c \in Commands, CommandTimesOut(r, c)
      PROVE Owned'
  BY <1>4 DEF CommandTimesOut
<1>5. ASSUME NEW r \in Requests, LockErrs(r)
      PROVE Owned'
  BY <1>5 DEF LockErrs
<1>6. ASSUME NEW r \in Requests, GetErrs(r) \/ EntryGone(r)
      PROVE Owned'
  BY <1>6 DEF GetErrs, EntryGone
<1>7. ASSUME NEW r \in Requests, Conflict(r) \/ Mismatch(r) \/ Replay(r)
      PROVE Owned'
  BY <1>7 DEF Conflict, Mismatch, Replay, GetFinds
<1>8. ASSUME NEW r \in Requests, HandlerCommits(r)
      PROVE Owned'
  BY <1>8 DEF HandlerCommits, BareWaived, ReturnedSane
<1>9. ASSUME NEW r \in Requests, HandlerReturns(r)
      PROVE Owned'
  BY <1>9 DEF HandlerReturns
<1>10. ASSUME NEW r \in Requests, HandlerPanics(r)
      PROVE Owned'
  BY <1>10 DEF HandlerPanics
<1>11. ASSUME NEW r \in Requests, FinishBare(r) \/ SettleErrs(r)
      PROVE Owned'
  BY <1>11 DEF FinishBare, SettleErrs
<1>12. ASSUME NEW r \in Requests, StoreResponse(r) \/ ReleaseLock(r) \/ LateSettle(r)
      PROVE Owned'
  <2> SUFFICES ASSUME NEW s \in Requests, Keyed(s), Key(s) \notin waived',
                      Claims(s)'
               PROVE  s \in locked' /\ Held(Key(s))' /\ store'[Key(s)].by = s
    BY DEF Owned
  <2>1. /\ Settle(r) /\ r \in locked /\ Keyed(r) /\ Key(r) \in Keys
        /\ pc[r] = "returned" \/ r \in late["settle"]
        /\ pc[r] \in {"returned", "finished", "lost"}
        /\ code[r] \in Codes
        /\ pc' = pc \/ (pc[r] = "returned" /\ Goto(r, "finished"))
        /\ UNCHANGED <<locked, gone, effect, late, code>>
    BY <1>12, Settler
  <2>2. Claims(s)
    BY <2>1 DEF Claims
  <2>3. /\ \A k \in Keys \ {Key(r)} : store'[k] = store[k]
        /\ \/ ServerError(code[r]) /\ store'[Key(r)] = NoEntry
           \/ /\ ~ServerError(code[r])
              /\ store'[Key(r)] \in Entry
              /\ store'[Key(r)] = [status |-> "COMPLETED", code |-> code[r],
                                   fingerprint |-> BodyOf[r], by |-> r]
    BY <2>1, Settled
  <2>4. waived' = waived \/ waived' = waived \cup {Key(r)}
    BY <2>1, Settled
  <2>5. s \in locked /\ Held(Key(s)) /\ store[Key(s)].by = s
    BY <2>2, <2>4
  <2>6. CASE s = r
    <3>1. r \in effect
      BY <1>12, <2>1, <2>6
      DEF Claims, StoreResponse, ReleaseLock, LateSettle, ReturnedSane
    <3>2. ~ServerError(code[r])
      BY <2>1, <2>4, <2>6, <3>1 DEF ReturnedSane
    <3>3. QED
      BY <2>1, <2>3, <2>6, <3>2
  <2>7. CASE s # r
    <3>1. Key(s) # Key(r)
      <4>1. SUFFICES ASSUME Key(s) = Key(r) PROVE FALSE
        OBVIOUS
      <4>2. r \notin late["settle"]
        BY <2>1, <2>2, <2>7, <4>1 DEF Settle, Overtaken
      <4>3. Claims(r)
        BY <2>1, <4>2 DEF Claims, InHandler
      <4>4. QED
        BY <2>1, <2>4, <2>5, <2>7, <4>1, <4>3
    <3>2. QED
      BY <2>1, <2>3, <2>5, <3>1
  <2>8. QED
    BY <2>6, <2>7
<1>13. ASSUME NEW r \in Requests, LateLock(r)
      PROVE Owned'
  <2> SUFFICES ASSUME NEW s \in Requests, Keyed(s), Key(s) \notin waived',
                      Claims(s)'
               PROVE  s \in locked' /\ Held(Key(s))' /\ store'[Key(s)].by = s
    BY DEF Owned
  <2>1. s \in locked /\ Held(Key(s)) /\ store[Key(s)].by = s
    BY <1>13 DEF LateLock, Claims
  <2>2. Key(s) # Key(r)
    BY <1>13, <2>1 DEF LateLock, Lock
  <2>3. QED
    BY <1>13, <2>1, <2>2 DEF LateLock, Lock
<1>14. ASSUME NEW r \in Requests, Disconnect(r) \/ Crash(r)
      PROVE Owned'
  BY <1>14 DEF Disconnect, Crash
<1>15. ASSUME NEW k \in Keys, ExpireLock(k) \/ ExpireEntry(k)
      PROVE Owned'
  <2> SUFFICES ASSUME NEW s \in Requests, Keyed(s), Key(s) \notin waived',
                      Claims(s)'
               PROVE  s \in locked' /\ Held(Key(s))' /\ store'[Key(s)].by = s
    BY DEF Owned
  <2>1. PICK status : TimeOut(k, status)
    BY <1>15 DEF ExpireLock, ExpireEntry
  <2>2. s \in locked /\ Held(Key(s)) /\ store[Key(s)].by = s
    BY <2>1 DEF TimeOut
  <2>3. Key(s) # k
    BY <2>1 DEF TimeOut, Exposed
  <2>4. QED
    BY <2>1, <2>2, <2>3 DEF TimeOut, Expire
<1>16. CASE UNCHANGED vars
  BY <1>16 DEF vars
<1>17. QED
  BY <1>1, <1>2, <1>3, <1>4, <1>5, <1>6, <1>7, <1>8, <1>9, <1>10, <1>11, <1>12, <1>13, <1>14, <1>15, <1>16
  DEF Next, Serve

\* Every step keeps CompletedSane.
LEMMA CompletedStep ==
  TypeOK /\ LockedSane /\ ReturnedSane /\ CompletedSane /\ [Next]_vars => CompletedSane'
<1> SUFFICES ASSUME TypeOK, LockedSane, ReturnedSane, CompletedSane, [Next]_vars PROVE CompletedSane'
  OBVIOUS
<1> USE DEF CompletedSane, TypeOK, LockedSane, Goto, Answer, RunBare, AnswerOwn, InHandler
<1>1. ASSUME NEW r \in Requests, PassThrough(r) \/ BodyTooLarge(r) \/ BodyUnreadable(r)
      PROVE CompletedSane'
  BY <1>1 DEF PassThrough, BodyTooLarge, BodyUnreadable
<1>2. ASSUME NEW r \in Requests, LockAcquired(r) \/ LateLock(r)
      PROVE CompletedSane'
  <2> SUFFICES ASSUME NEW k \in Keys, Held(k)', store'[k].status = "COMPLETED"
               PROVE  LET s == store'[k].by IN
                        /\ s \in locked'
                        /\ Key(s) = k
                        /\ pc'[s] \in {"returned", "finished", "lost"}
                        /\ BodyOf[s] = store'[k].fingerprint
                        /\ code'[s] = store'[k].code
                        /\ ~ServerError(code'[s])
    BY DEF CompletedSane
  <2>1. k # Key(r) /\ store'[k] = store[k]
    BY <1>2 DEF LockAcquired, LateLock, Lock, LockEntry
  <2>2. store[k] \in Entry
    BY <2>1, EntryFacts
  <2>3. store[k].by \in Requests
    BY <2>2 DEF Entry
  <2>4. QED
    BY <1>2, <2>1, <2>3 DEF LockAcquired, LateLock
<1>3. ASSUME NEW r \in Requests, LockRefused(r)
      PROVE CompletedSane'
  BY <1>3 DEF LockRefused
<1>4. ASSUME NEW r \in Requests, NEW d \in Commands, CommandTimesOut(r, d)
      PROVE CompletedSane'
  BY <1>4 DEF CommandTimesOut
<1>5. ASSUME NEW r \in Requests, LockErrs(r)
      PROVE CompletedSane'
  BY <1>5 DEF LockErrs
<1>6. ASSUME NEW r \in Requests, GetErrs(r) \/ EntryGone(r)
      PROVE CompletedSane'
  BY <1>6 DEF GetErrs, EntryGone
<1>7. ASSUME NEW r \in Requests, Conflict(r) \/ Mismatch(r) \/ Replay(r)
      PROVE CompletedSane'
  BY <1>7 DEF Conflict, Mismatch, Replay, GetFinds
<1>8. ASSUME NEW r \in Requests, HandlerCommits(r)
      PROVE CompletedSane'
  BY <1>8 DEF HandlerCommits
<1>9. ASSUME NEW r \in Requests, HandlerReturns(r)
      PROVE CompletedSane'
  BY <1>9 DEF HandlerReturns
<1>10. ASSUME NEW r \in Requests, HandlerPanics(r)
      PROVE CompletedSane'
  BY <1>10 DEF HandlerPanics
<1>11. ASSUME NEW r \in Requests, FinishBare(r) \/ SettleErrs(r)
      PROVE CompletedSane'
  BY <1>11 DEF FinishBare, SettleErrs
<1>12. ASSUME NEW r \in Requests, StoreResponse(r) \/ ReleaseLock(r) \/ LateSettle(r)
      PROVE CompletedSane'
  <2> SUFFICES ASSUME NEW k \in Keys, Held(k)', store'[k].status = "COMPLETED"
               PROVE  LET s == store'[k].by IN
                        /\ s \in locked'
                        /\ Key(s) = k
                        /\ pc'[s] \in {"returned", "finished", "lost"}
                        /\ BodyOf[s] = store'[k].fingerprint
                        /\ code'[s] = store'[k].code
                        /\ ~ServerError(code'[s])
    BY DEF CompletedSane
  <2>1. /\ Settle(r) /\ r \in locked /\ Keyed(r) /\ Key(r) \in Keys
        /\ pc[r] \in {"returned", "finished", "lost"}
        /\ code[r] \in Codes
        /\ pc' = pc \/ (pc[r] = "returned" /\ Goto(r, "finished"))
        /\ UNCHANGED <<locked, gone, effect, late, code>>
    BY <1>12, Settler
  <2>2. /\ \A j \in Keys \ {Key(r)} : store'[j] = store[j]
        /\ \/ ServerError(code[r]) /\ store'[Key(r)] = NoEntry
           \/ /\ ~ServerError(code[r])
              /\ store'[Key(r)] \in Entry
              /\ store'[Key(r)] = [status |-> "COMPLETED", code |-> code[r],
                                   fingerprint |-> BodyOf[r], by |-> r]
    BY <2>1, Settled
  <2>3. CASE k = Key(r)
    <3>1. /\ ~ServerError(code[r])
          /\ store'[k] = [status |-> "COMPLETED", code |-> code[r],
                          fingerprint |-> BodyOf[r], by |-> r]
      BY <2>2, <2>3
    <3>2. QED
      BY <2>1, <2>3, <3>1
  <2>4. CASE k # Key(r)
    <3>1. store'[k] = store[k]
      BY <2>2, <2>4
    <3>2. store[k].by \in Requests
      BY <3>1, EntryFacts DEF Entry
    <3>3. QED
      BY <2>1, <3>1, <3>2
  <2>5. QED
    BY <2>3, <2>4
<1>14. ASSUME NEW r \in Requests, Disconnect(r) \/ Crash(r)
      PROVE CompletedSane'
  BY <1>14 DEF Disconnect, Crash
<1>15. ASSUME NEW k \in Keys, ExpireLock(k) \/ ExpireEntry(k)
      PROVE CompletedSane'
  BY <1>15 DEF ExpireLock, ExpireEntry, TimeOut, Expire
<1>16. CASE UNCHANGED vars
  BY <1>16 DEF vars
<1>17. QED
  BY <1>1, <1>2, <1>3, <1>4, <1>5, <1>6, <1>7, <1>8, <1>9, <1>10, <1>11, <1>12, <1>14, <1>15, <1>16
  DEF Next, Serve

\* Every step keeps ReplaySane.
LEMMA ReplayStep ==
  TypeOK /\ LockedSane /\ ReturnedSane /\ CompletedSane /\ ReplaySane /\ [Next]_vars
    => ReplaySane'
<1> SUFFICES ASSUME TypeOK, LockedSane, ReturnedSane, CompletedSane, ReplaySane, [Next]_vars PROVE ReplaySane'
  OBVIOUS
<1> USE DEF ReplaySane, TypeOK, LockedSane, Goto, Answer, RunBare, AnswerOwn, InHandler
<1>1. ASSUME NEW r \in Requests, PassThrough(r) \/ BodyTooLarge(r) \/ BodyUnreadable(r)
      PROVE ReplaySane'
  BY <1>1 DEF PassThrough, BodyTooLarge, BodyUnreadable
<1>2. ASSUME NEW r \in Requests, LockAcquired(r)
      PROVE ReplaySane'
  BY <1>2 DEF LockAcquired, Lock
<1>3. ASSUME NEW r \in Requests, LockRefused(r)
      PROVE ReplaySane'
  BY <1>3 DEF LockRefused
<1>4. ASSUME NEW r \in Requests, NEW c \in Commands, CommandTimesOut(r, c)
      PROVE ReplaySane'
  BY <1>4 DEF CommandTimesOut
<1>5. ASSUME NEW r \in Requests, LockErrs(r)
      PROVE ReplaySane'
  BY <1>5 DEF LockErrs
<1>6. ASSUME NEW r \in Requests, GetErrs(r) \/ EntryGone(r)
      PROVE ReplaySane'
  BY <1>6 DEF GetErrs, EntryGone
<1>7. ASSUME NEW r \in Requests, Conflict(r) \/ Mismatch(r) \/ Replay(r)
      PROVE ReplaySane'
  <2>1. CASE Conflict(r) \/ Mismatch(r)
    <3>1. /\ Goto(r, "finished") /\ UNCHANGED <<locked, late, code>>
          /\ \E c \in {409, 422}, kind \in {"conflict", "mismatch"} :
               reply' = [reply EXCEPT ![r] = [kind |-> kind, code |-> c, by |-> r]]
      BY <2>1, Refusal
    <3>2. PICK c \in {409, 422}, kind \in {"conflict", "mismatch"} :
            reply' = [reply EXCEPT ![r] = [kind |-> kind, code |-> c, by |-> r]]
      BY <3>1, Zenon
    <3>3. /\ reply'[r].kind # "replay"
          /\ \A q \in Requests \ {r} : reply'[q] = reply[q]
      BY <3>2
    <3>4. QED
      BY <3>1, <3>3
  <2>2. CASE Replay(r)
    <3> DEFINE e == store[Key(r)]
    <3>1. /\ Goto(r, "finished") /\ UNCHANGED <<locked, late, code>>
          /\ reply' = [reply EXCEPT ![r] =
               [kind |-> "replay", code |-> e.code, by |-> e.by]]
      BY <2>2 DEF Replay
    <3>2. /\ pc[r] = "refused" /\ Key(r) \in Keys /\ r \notin locked
          /\ Held(Key(r)) /\ e.status = "COMPLETED" /\ BodyOf[r] = e.fingerprint
      BY <2>2 DEF Replay, GetFinds, SameFingerprint
    <3>3. /\ e.by \in locked /\ Key(e.by) = Key(r)
          /\ pc[e.by] \in {"returned", "finished", "lost"}
          /\ BodyOf[e.by] = BodyOf[r] /\ code[e.by] = e.code
          /\ ~ServerError(code[e.by])
      BY <3>2 DEF CompletedSane
    <3>4. QED
      BY <3>1, <3>2, <3>3
  <2>3. QED
    BY <1>7, <2>1, <2>2
<1>8. ASSUME NEW r \in Requests, HandlerCommits(r)
      PROVE ReplaySane'
  BY <1>8 DEF HandlerCommits
<1>9. ASSUME NEW r \in Requests, HandlerReturns(r)
      PROVE ReplaySane'
  BY <1>9 DEF HandlerReturns
<1>10. ASSUME NEW r \in Requests, HandlerPanics(r)
      PROVE ReplaySane'
  BY <1>10 DEF HandlerPanics
<1>11. ASSUME NEW r \in Requests, FinishBare(r) \/ SettleErrs(r)
      PROVE ReplaySane'
  BY <1>11 DEF FinishBare, SettleErrs
<1>12. ASSUME NEW r \in Requests, StoreResponse(r) \/ ReleaseLock(r) \/ LateSettle(r)
      PROVE ReplaySane'
  <2>1. /\ pc[r] \in {"returned", "finished", "lost"}
        /\ pc' = pc \/ (pc[r] = "returned" /\ Goto(r, "finished"))
        /\ UNCHANGED <<locked, gone, effect, late, code>>
    BY <1>12, Settler
  <2>2. reply' = reply \/ reply' = [reply EXCEPT ![r] =
                                     [kind |-> "own", code |-> code[r], by |-> r]]
    BY <1>12 DEF StoreResponse, ReleaseLock, LateSettle
  <2>3. QED
    BY <2>1, <2>2
<1>13. ASSUME NEW r \in Requests, LateLock(r)
      PROVE ReplaySane'
  BY <1>13 DEF LateLock, Lock
<1>14. ASSUME NEW r \in Requests, Disconnect(r) \/ Crash(r)
      PROVE ReplaySane'
  BY <1>14 DEF Disconnect, Crash
<1>15. ASSUME NEW k \in Keys, ExpireLock(k) \/ ExpireEntry(k)
      PROVE ReplaySane'
  BY <1>15 DEF ExpireLock, ExpireEntry, TimeOut, Expire
<1>16. CASE UNCHANGED vars
  BY <1>16 DEF vars
<1>17. QED
  BY <1>1, <1>2, <1>3, <1>4, <1>5, <1>6, <1>7, <1>8, <1>9, <1>10, <1>11, <1>12, <1>13, <1>14, <1>15, <1>16
  DEF Next, Serve

-----------------------------------------------------------------------------
LEMMA InitIInv == Init => IInv
BY DEF Init, IInv, TypeOK, Replies, LockedSane, BareWaived, ReturnedSane,
       Owned, Claims, CompletedSane, ReplaySane, InHandler

LEMMA StepIInv == IInv /\ [Next]_vars => IInv'
BY TypeStep, LockedStep, BareStep, ReturnedStep, OwnedStep, CompletedStep,
   ReplayStep DEF IInv

\* The inductive invariant holds of every behaviour of the middleware.
THEOREM Inductive == Spec => []IInv
BY InitIInv, StepIInv, PTL DEF Spec

\* Attempts with one key write at most once while the promise stands: two
\* writers would both own the one entry of their key (idempotency.go:76-174).
THEOREM EffectOnce == Spec => []EffectOncePerKey
<1>1. IInv => EffectOncePerKey
  <2> SUFFICES ASSUME TypeOK, Owned, NEW r \in effect, NEW s \in effect,
                      Key(r) = Key(s), Key(r) \in Keys \ waived
               PROVE  r = s
    BY DEF IInv, EffectOncePerKey
  <2>0. Keyed(r) /\ Keyed(s) /\ r \in Requests /\ s \in Requests
    BY DEF TypeOK
  <2>1. store[Key(r)].by = r /\ store[Key(s)].by = s
    BY <2>0 DEF Owned, Claims
  <2> QED
    BY <2>1
<1>2. QED
  BY <1>1, Inductive, PTL

\* A key that Redis does not hold was not executed: a writer owns an entry
\* (idempotency.go:162-173, store.go:44).
THEOREM RetryIsSafe == Spec => []SafeToRetry
<1>1. IInv => SafeToRetry
  <2> SUFFICES ASSUME IInv, NEW k \in Keys \ waived, ~Held(k), NEW r \in effect, Key(r) = k
               PROVE  FALSE
    BY DEF SafeToRetry
  <2>1. r \in Requests /\ Keyed(r)
    BY DEF IInv, TypeOK
  <2>2. Held(Key(r))
    BY <2>1 DEF IInv, Owned, Claims
  <2> QED
    BY <2>2
<1>2. QED
  BY <1>1, Inductive, PTL

\* Whatever fails, a replay is the recorded answer of another attempt with the
\* same key and body, and not a server error (idempotency.go:117-151).
THEOREM ReplaysAreFaithful == Spec => []ReplayIsFaithful
<1>1. IInv => ReplayIsFaithful
  BY DEF IInv, TypeOK, ReplaySane, ReplayIsFaithful
<1>2. QED
  BY <1>1, Inductive, PTL

\* An attempt that runs under the lock owns a PROCESSING entry.
LEMMA HolderHasLockEntry ==
  ASSUME IInv, NEW r \in locked, pc[r] = "running", Key(r) \notin waived
  PROVE  /\ Key(r) \in Keys
         /\ Held(Key(r))
         /\ store[Key(r)].by = r
         /\ store[Key(r)].status = "PROCESSING"
<1>1. /\ r \in Requests /\ Key(r) \in Keys /\ Held(Key(r))
      /\ store[Key(r)].by = r
  <2>1. r \in Requests /\ Keyed(r) /\ Key(r) \in Keys
    BY DEF IInv, TypeOK, LockedSane
  <2>2. Claims(r)
    BY <2>1 DEF Claims, InHandler, IInv, ReturnedSane
  <2>3. QED
    BY <2>1, <2>2 DEF IInv, Owned
<1>2. store[Key(r)].status # "COMPLETED"
  BY <1>1 DEF IInv, CompletedSane
<1>3. store[Key(r)] \in Entry
  BY <1>1, EntryFacts DEF IInv, TypeOK
<1>4. QED
  BY <1>1, <1>2, <1>3 DEF Entry

\* While the promise stands, an attempt that settles its entry is the only one
\* to have written, if any did, and nobody else is in the handler under the lock.
LEMMA SettlerIsAlone ==
  ASSUME IInv, NEW r \in Requests,
         StoreResponse(r) \/ ReleaseLock(r) \/ LateSettle(r),
         Key(r) \notin waived',
         NEW s \in Requests, Key(s) = Key(r),
         s \in effect \/ (s \in locked /\ pc[s] = "running")
  PROVE  s = r /\ r \in effect /\ ~ServerError(code[r])
<1> SUFFICES ASSUME s # r PROVE FALSE
  <2>1. /\ Settle(r) /\ Keyed(r) /\ waived \subseteq waived'
        /\ pc[r] = "returned" \/ r \in late["settle"]
        /\ pc[r] # "running"
    BY Settler DEF IInv, Settle
  <2>2. r \in effect => ~ServerError(code[r])
    BY <2>1 DEF IInv, ReturnedSane
  <2>3. QED
    BY <2>1, <2>2
<1>1. /\ Settle(r) /\ r \in locked /\ Keyed(r)
      /\ pc[r] = "returned" \/ r \in late["settle"]
  BY Settler DEF IInv
<1>2. Claims(s)
  BY DEF Claims, InHandler, IInv, ReturnedSane
<1>3. /\ r \notin late["settle"]
      /\ Key(r) \notin waived
  BY <1>1, <1>2 DEF Settle, Overtaken
<1>4. Claims(r)
  BY <1>1, <1>3 DEF Claims, InHandler
<1>5. store[Key(r)].by = r /\ store[Key(r)].by = s
  BY <1>1, <1>2, <1>3, <1>4 DEF IInv, Owned
<1>6. QED
  BY <1>5

\* Complete and Unlock name no owner, yet no attempt that wrote or is still in
\* its handler under the lock loses its entry to another while the promise
\* stands, commands sent again or late included (store.go:72-86).
THEOREM OwnersChangeEntries == Spec => OnlyOwnerChangesEntry
<1> DEFINE A == \A k \in Keys \ waived' : OwnerChangesEntry(k)
<1>1. IInv /\ [Next]_vars => [A]_vars
  <2> SUFFICES ASSUME IInv, Next, NEW k \in Keys, k \notin waived',
                      Held(k), store'[k] # store[k],
                      NEW s \in Requests, Key(s) = k,
                      s \in effect \/ (s \in locked /\ pc[s] = "running")
               PROVE  /\ store'[k] # NoEntry
                      /\ store'[k].status = "COMPLETED"
                      /\ store'[k].by = s
    BY DEF OwnerChangesEntry
  <2> USE DEF IInv, TypeOK
  <2>1. ASSUME NEW r \in Requests,
               StoreResponse(r) \/ ReleaseLock(r) \/ LateSettle(r)
        PROVE  /\ store'[k] # NoEntry
               /\ store'[k].status = "COMPLETED"
               /\ store'[k].by = s
    <3>1. Settle(r) /\ Keyed(r) /\ code[r] \in Codes
      BY <2>1, Settler
    <3>2. /\ \A j \in Keys \ {Key(r)} : store'[j] = store[j]
          /\ \/ ServerError(code[r]) /\ store'[Key(r)] = NoEntry
             \/ /\ ~ServerError(code[r])
                /\ store'[Key(r)] \in Entry
                /\ store'[Key(r)] = [status |-> "COMPLETED", code |-> code[r],
                                     fingerprint |-> BodyOf[r], by |-> r]
      BY <3>1, Settled
    <3>3. Key(r) = k
      BY <3>2
    <3>4. s = r /\ ~ServerError(code[r])
      BY <2>1, <3>3, SettlerIsAlone
    <3>5. QED
      BY <3>2, <3>3, <3>4
  <2>2. ASSUME NEW j \in Keys, NEW status, TimeOut(j, status) PROVE FALSE
    <3>1. Claims(s)
      BY DEF Claims, InHandler, ReturnedSane
    <3>2. QED
      BY <2>2, <3>1 DEF TimeOut, Expire, Exposed
  <2>3. ASSUME NEW r \in Requests, Lock(Key(r), BodyOf[r], r) PROVE FALSE
    BY <2>3 DEF Lock
  <2>4. store' # store
    OBVIOUS
  <2>5. ASSUME NEW r \in Requests, Serve(r)
        PROVE  \/ StoreResponse(r) \/ ReleaseLock(r)
               \/ Lock(Key(r), BodyOf[r], r)
    BY <2>4, <2>5, Zenon DEF Serve, PassThrough, BodyTooLarge, BodyUnreadable,
      LockAcquired, LockRefused, LockErrs, GetErrs,
      EntryGone, Conflict, Mismatch, Replay, HandlerCommits, HandlerReturns,
      HandlerPanics, FinishBare, SettleErrs
  <2>6. ASSUME NEW r \in Requests, LateLock(r) PROVE FALSE
    BY <2>3, <2>6 DEF LateLock
  <2>7. QED
    BY <2>1, <2>2, <2>3, <2>4, <2>5, <2>6
    DEF Next, Disconnect, Crash, CommandTimesOut, ExpireLock, ExpireEntry
<1>2. QED
  BY <1>1, Inductive, PTL DEF Spec, OnlyOwnerChangesEntry
-----------------------------------------------------------------------------
(***************************************************************************)
(* The middleware implements OncePerKey.                                   *)
(***************************************************************************)
\* A step that touches one key at most moves that key only.
LEMMA OneKeyMoves ==
  ASSUME NEW k \in Keys,
         \A j \in Keys \ {k} :
           store'[j] = store[j] /\ (j \in waived' <=> j \in waived)
  PROVE  KeyStates' = [KeyStates EXCEPT ![k] = KeyState(k)']
<1>1. \A j \in Keys \ {k} : KeyState(j)' = KeyState(j)
  BY DEF KeyState
<1>2. QED
  BY <1>1 DEF KeyStates

\* A step that touches neither entries, writes nor waivers is a stutter.
LEMMA Stutters ==
  ASSUME UNCHANGED <<store, effect, waived>>
  PROVE  UNCHANGED <<KeyStates, ExecutedKeys>>
BY DEF KeyStates, KeyState, ExecutedKeys

\* So is a step on a key whose promise is withdrawn already.
LEMMA WaivedStutters ==
  ASSUME NEW k \in Keys, k \in waived, waived' = waived,
         \A j \in Keys \ {k} : store'[j] = store[j],
         effect' = effect
  PROVE  UNCHANGED <<KeyStates, ExecutedKeys>>
<1>1. \A j \in Keys : KeyState(j)' = KeyState(j)
  BY DEF KeyState
<1>2. QED
  BY <1>1 DEF KeyStates, ExecutedKeys

\* Withdrawing the promise of a key is Waive, whatever happens to its entry.
LEMMA WaiveMaps ==
  ASSUME NEW k \in Keys, waived' = waived \cup {k}, effect' = effect,
         \A j \in Keys \ {k} : store'[j] = store[j]
  PROVE  Promise!Waive(k)
<1>1. KeyState(k)' = "waived"
  BY DEF KeyState
<1>2. KeyStates' = [KeyStates EXCEPT ![k] = "waived"]
  BY <1>1, OneKeyMoves
<1>3. ExecutedKeys' = ExecutedKeys \ {k}
  BY DEF ExecutedKeys
<1>4. QED
  BY <1>2, <1>3 DEF Promise!Waive

\* SET NX on a free key is Claim.
LEMMA LockMaps ==
  ASSUME TypeOK, NEW r \in Requests, Keyed(r), Lock(Key(r), BodyOf[r], r),
         UNCHANGED <<effect, waived>>
  PROVE  [Promise!Next]_<<KeyStates, ExecutedKeys>>
<1> DEFINE k == Key(r)
<1>1. k \in Keys /\ ~Held(k) /\ store' = [store EXCEPT ![k] = LockEntry(BodyOf[r], r)]
  BY DEF Lock
<1>2. CASE k \in waived
  BY <1>1, <1>2, WaivedStutters DEF TypeOK
<1>3. CASE k \notin waived
  <2>1. store'[k] = LockEntry(BodyOf[r], r)
    BY <1>1 DEF TypeOK
  <2>2. KeyState(k) = "idle" /\ KeyState(k)' = "claimed"
    BY <1>1, <1>3, <2>1, EntryFacts DEF KeyState, LockEntry
  <2>3. KeyStates' = [KeyStates EXCEPT ![k] = "claimed"]
    BY <1>1, <2>2, OneKeyMoves DEF TypeOK
  <2>4. KeyStates[k] = "idle" /\ ExecutedKeys' = ExecutedKeys
    BY <1>1, <2>2 DEF KeyStates, ExecutedKeys
  <2>5. Promise!Claim(k)
    BY <2>3, <2>4 DEF Promise!Claim, Promise!Move
  <2>6. QED
    BY <1>1, <2>5 DEF Promise!Next
<1>4. QED
  BY <1>2, <1>3

\* The handler's write is Execute.
LEMMA CommitMaps ==
  ASSUME IInv, NEW r \in Requests, HandlerCommits(r)
  PROVE  [Promise!Next]_<<KeyStates, ExecutedKeys>>
<1> DEFINE k == Key(r)
<1>1. /\ effect' = effect \cup {r} /\ r \notin effect /\ pc[r] = "running"
      /\ UNCHANGED <<store, waived>> /\ InHandler(r)
  BY DEF HandlerCommits, InHandler
<1>2. UNCHANGED KeyStates
  BY <1>1 DEF KeyStates, KeyState
<1>3. CASE k \notin Keys \/ k \in waived
  BY <1>1, <1>2, <1>3 DEF ExecutedKeys
<1>4. CASE k \in Keys \ waived
  <2>1. r \in locked
    BY <1>1, <1>4 DEF IInv, BareWaived
  <2>2. Held(k) /\ store[k].status = "PROCESSING" /\ store[k].by = r
    BY <1>1, <1>4, <2>1, HolderHasLockEntry
  <2>3. KeyStates[k] = "claimed"
    BY <1>4, <2>2 DEF KeyStates, KeyState
  <2>4. k \notin ExecutedKeys
    <3>1. ASSUME NEW s \in effect, Key(s) = k PROVE FALSE
      BY <1>1, <1>4, <2>2, <3>1 DEF IInv, TypeOK, Owned, Claims
    <3>2. QED
      BY <3>1 DEF ExecutedKeys
  <2>5. ExecutedKeys' = ExecutedKeys \cup {k}
    BY <1>1, <1>4 DEF ExecutedKeys
  <2>6. Promise!Execute(k)
    BY <1>2, <2>3, <2>4, <2>5 DEF Promise!Execute
  <2>7. QED
    BY <1>4, <2>6 DEF Promise!Next
<1>5. QED
  BY <1>3, <1>4

\* Removing the entry of a key that wrote nothing is Forget.
LEMMA RemovalMaps ==
  ASSUME TypeOK, NEW k \in Keys, Held(k), k \notin waived,
         \A r \in effect : Key(r) # k,
         store' = [store EXCEPT ![k] = NoEntry], UNCHANGED <<effect, waived>>
  PROVE  Promise!Forget(k)
<1>1. /\ KeyState(k) \in {"claimed", "settled"}
      /\ KeyState(k)' = "idle"
  BY DEF KeyState, TypeOK
<1>2. KeyStates' = [KeyStates EXCEPT ![k] = "idle"]
  BY <1>1, OneKeyMoves DEF TypeOK
<1>3. /\ KeyStates[k] \in {"claimed", "settled"}
      /\ ExecutedKeys' = ExecutedKeys /\ k \notin ExecutedKeys
  BY <1>1 DEF KeyStates, ExecutedKeys
<1>4. QED
  BY <1>2, <1>3 DEF Promise!Forget, Promise!Move

\* Complete is Settle and Unlock is Forget, in time or late; either stutters if
\* the key is so already, and waives the promise if it meets another's claim.
LEMMA SettleMaps ==
  ASSUME IInv, NEW r \in Requests,
         StoreResponse(r) \/ ReleaseLock(r) \/ LateSettle(r)
  PROVE  [Promise!Next]_<<KeyStates, ExecutedKeys>>
<1> DEFINE k == Key(r)
<1>1. /\ Settle(r) /\ Keyed(r) /\ k \in Keys /\ code[r] \in Codes
      /\ effect' = effect
  BY Settler DEF IInv
<1>2. /\ \A j \in Keys \ {k} : store'[j] = store[j]
      /\ store' \in [Keys -> Entry \cup {NoEntry}]
      /\ \/ ServerError(code[r]) /\ store'[k] = NoEntry
         \/ /\ ~ServerError(code[r])
            /\ store'[k] \in Entry
            /\ store'[k] = [status |-> "COMPLETED", code |-> code[r],
                            fingerprint |-> BodyOf[r], by |-> r]
      /\ waived' = waived \/ waived' = waived \cup {k}
  BY <1>1, Settled DEF IInv, TypeOK
<1>3. CASE waived' = waived \cup {k}
  BY <1>1, <1>2, <1>3, WaiveMaps DEF Promise!Next
<1>4. CASE waived' = waived /\ k \in waived
  BY <1>1, <1>2, <1>4, WaivedStutters
<1>5. CASE waived' = waived /\ k \notin waived
  <2>1. KeyStates' = [KeyStates EXCEPT ![k] = KeyState(k)']
    BY <1>1, <1>2, <1>5, OneKeyMoves
  <2>2. ExecutedKeys' = ExecutedKeys /\ KeyStates[k] = KeyState(k)
    BY <1>1, <1>5 DEF KeyStates, ExecutedKeys
  <2>3. KeyState(k) \in {"idle", "claimed", "settled"}
    BY <1>5 DEF KeyState
  <2>4. KeyState(k) = "idle" => k \notin ExecutedKeys
    <3>1. ASSUME NEW s \in effect, Key(s) = k PROVE Held(k)
      BY <1>1, <1>5, <3>1 DEF IInv, TypeOK, Owned, Claims
    <3>2. QED
      BY <1>5, <3>1 DEF KeyState, ExecutedKeys
  <2>5. CASE ServerError(code[r]) /\ store'[k] = NoEntry
    <3>1. k \notin ExecutedKeys
      <4>1. ASSUME NEW s \in effect, Key(s) = k PROVE FALSE
        BY <1>5, <2>5, <4>1, SettlerIsAlone DEF IInv, TypeOK
      <4>2. QED
        BY <4>1 DEF ExecutedKeys
    <3>2. KeyState(k)' = "idle"
      BY <1>5, <2>5 DEF KeyState
    <3>3. CASE KeyState(k) = "idle"
      BY <2>1, <2>2, <3>2, <3>3 DEF KeyStates
    <3>4. CASE KeyState(k) # "idle"
      <4>1. Promise!Forget(k)
        BY <2>1, <2>2, <2>3, <3>1, <3>2, <3>4 DEF Promise!Forget, Promise!Move
      <4>2. QED
        BY <1>1, <4>1 DEF Promise!Next
    <3>5. QED
      BY <3>3, <3>4
  <2>6. CASE /\ store'[k] \in Entry
             /\ store'[k] = [status |-> "COMPLETED", code |-> code[r],
                             fingerprint |-> BodyOf[r], by |-> r]
    <3>1. KeyState(k)' = "settled"
      BY <1>5, <2>6 DEF KeyState
    <3>2. CASE KeyState(k) = "settled"
      BY <2>1, <2>2, <3>1, <3>2 DEF KeyStates
    <3>3. CASE KeyState(k) # "settled"
      <4>1. Promise!Settle(k)
        BY <2>1, <2>2, <2>3, <2>4, <3>1, <3>3 DEF Promise!Settle, Promise!Move
      <4>2. QED
        BY <1>1, <4>1 DEF Promise!Next
    <3>4. QED
      BY <3>2, <3>3
  <2>7. QED
    BY <1>2, <2>5, <2>6
<1>6. QED
  BY <1>2, <1>3, <1>4, <1>5

\* A time-out is Waive or Forget, as something may have been written or not.
LEMMA TimeOutMaps ==
  ASSUME IInv, NEW k \in Keys, NEW status, TimeOut(k, status)
  PROVE  [Promise!Next]_<<KeyStates, ExecutedKeys>>
<1>1. /\ Held(k) /\ effect' = effect
      /\ store' = [store EXCEPT ![k] = NoEntry]
      /\ waived' = IF Exposed(k) THEN waived \cup {k} ELSE waived
  BY DEF TimeOut, Expire
<1>2. CASE Exposed(k)
  <2>1. Promise!Waive(k)
    BY <1>1, <1>2, WaiveMaps DEF IInv, TypeOK
  <2>2. QED
    BY <2>1 DEF Promise!Next
<1>3. CASE ~Exposed(k) /\ k \in waived
  BY <1>1, <1>3, WaivedStutters DEF IInv, TypeOK
<1>4. CASE ~Exposed(k) /\ k \notin waived
  <2>1. Promise!Forget(k)
    BY <1>1, <1>4, RemovalMaps DEF IInv, TypeOK, Exposed, Claims
  <2>2. QED
    BY <2>1 DEF Promise!Next
<1>5. QED
  BY <1>2, <1>3, <1>4

\* Running without a lock withdraws the promise of the key, if there is one.
LEMMA BareMaps ==
  ASSUME TypeOK, NEW r \in Requests, RunBare(r), UNCHANGED store
  PROVE  [Promise!Next]_<<KeyStates, ExecutedKeys>>
<1>1. effect' = effect /\ waived' = waived \cup ({Key(r)} \cap Keys)
  BY DEF RunBare
<1>2. CASE Key(r) \in Keys
  <2>1. Promise!Waive(Key(r))
    BY <1>1, <1>2, WaiveMaps
  <2>2. QED
    BY <1>2, <2>1 DEF Promise!Next
<1>3. CASE Key(r) \notin Keys
  BY <1>1, <1>3, Stutters
<1>4. QED
  BY <1>2, <1>3

\* Every step of the middleware is a step of OncePerKey or a stutter of it.
LEMMA StepMaps ==
  IInv /\ [Next]_vars => [Promise!Next]_<<KeyStates, ExecutedKeys>>
<1> SUFFICES ASSUME IInv, [Next]_vars
             PROVE [Promise!Next]_<<KeyStates, ExecutedKeys>>
  OBVIOUS
<1> DEFINE Goal == [Promise!Next]_<<KeyStates, ExecutedKeys>>
<1> HIDE DEF Goal
<1>0. TypeOK
  BY DEF IInv
<1>1. ASSUME NEW r \in Requests,
             PassThrough(r) \/ GetErrs(r) \/ EntryGone(r) \/ LockErrs(r)
      PROVE Goal
  <2>1. RunBare(r) /\ UNCHANGED store
    BY <1>1 DEF PassThrough, GetErrs, EntryGone, LockErrs
  <2>2. QED
    BY <1>0, <2>1, BareMaps DEF Goal
<1>2. ASSUME NEW r \in Requests, LockAcquired(r) \/ LateLock(r)
      PROVE Goal
  <2>1. Keyed(r) /\ Lock(Key(r), BodyOf[r], r) /\ UNCHANGED <<effect, waived>>
    BY <1>2 DEF LockAcquired, LateLock, IInv, LockedSane
  <2>2. QED
    BY <1>0, <2>1, LockMaps DEF Goal
<1>3. ASSUME NEW r \in Requests, HandlerCommits(r) PROVE Goal
  BY <1>3, CommitMaps DEF Goal
<1>4. ASSUME NEW r \in Requests, HandlerReturns(r) PROVE Goal
  <2>1. UNCHANGED <<store, effect>>
    BY <1>4 DEF HandlerReturns
  <2>2. CASE waived' = waived
    BY <2>1, <2>2, Stutters DEF Goal
  <2>3. CASE waived' = waived \cup {Key(r)} /\ Key(r) \in Keys
    BY <2>1, <2>3, WaiveMaps DEF Goal, Promise!Next
  <2>4. waived' = waived \/ waived' = waived \cup ({Key(r)} \cap Keys)
    BY <1>4 DEF HandlerReturns
  <2>5. QED
    BY <2>2, <2>3, <2>4
<1>5. ASSUME NEW r \in Requests,
             StoreResponse(r) \/ ReleaseLock(r) \/ LateSettle(r)
      PROVE Goal
  BY <1>5, SettleMaps DEF Goal
<1>6. ASSUME NEW r \in Requests, NEW c \in Commands, CommandTimesOut(r, c)
      PROVE Goal
  BY <1>6, Stutters DEF CommandTimesOut, Goal
<1>7. ASSUME NEW k \in Keys, ExpireLock(k) \/ ExpireEntry(k) PROVE Goal
  BY <1>7, TimeOutMaps DEF ExpireLock, ExpireEntry, Goal
<1>8. ASSUME NEW r \in Requests,
             \/ BodyTooLarge(r) \/ BodyUnreadable(r) \/ LockRefused(r)
             \/ Conflict(r) \/ Mismatch(r) \/ Replay(r) \/ HandlerPanics(r)
             \/ FinishBare(r) \/ SettleErrs(r) \/ Disconnect(r) \/ Crash(r)
      PROVE Goal
  <2>1. UNCHANGED <<store, effect, waived>>
    BY <1>8, Zenon DEF BodyTooLarge, BodyUnreadable, LockRefused, Conflict,
      Mismatch, Replay, HandlerPanics, FinishBare, SettleErrs, AnswerOwn,
      Disconnect, Crash
  <2>2. QED
    BY <2>1, Stutters DEF Goal
<1>9. ASSUME UNCHANGED vars PROVE Goal
  BY <1>9, Stutters DEF vars, Goal
<1>10. ASSUME NEW r \in Requests, Serve(r) PROVE Goal
  BY <1>1, <1>2, <1>3, <1>4, <1>5, <1>8, <1>10
  DEF Serve
<1>11. CASE Next
  BY <1>2, <1>5, <1>6, <1>7, <1>8, <1>10, <1>11 DEF Next, Goal
<1>12. QED
  BY <1>9, <1>11 DEF Goal

\* Seen through its Redis entries, the middleware keeps the promise OncePerKey
\* states: each of its steps claims, executes, settles, forgets or waives a key.
THEOREM Refinement == Spec => ImplementsOncePerKey
<1>1. Init => Promise!Init
  BY DEF Init, Promise!Init, KeyStates, KeyState, ExecutedKeys
<1>2. QED
  BY <1>1, StepMaps, Inductive, PTL DEF Spec, Promise!Spec, ImplementsOncePerKey
=============================================================================
