--------------------------- MODULE MCIdempotency ---------------------------
(***************************************************************************)
(* Three attempts with one key, the third with another body; the liveness  *)
(* configuration has one of them come without a key.  Two bodies and one   *)
(* status per class of answer are all the middleware can tell apart; the   *)
(* third attempt is what it takes for one to slip in between two others.   *)
(* The first two, alike in key and body, may be exchanged.                 *)
(*                                                                         *)
(* The configuration of the faults leaves "disconnect" out: gone only      *)
(* disables steps when commands may fail anyway, so the steps of a         *)
(* behaviour with disconnects are those of one without.                    *)
(***************************************************************************)
EXTENDS Idempotency, TLC

CONSTANTS r1, r2, r3, k1, b1, b2

MCKeyOf == r1 :> k1 @@ r2 :> k1 @@ r3 :> k1
MCOneKeyless == r1 :> k1 @@ r2 :> k1 @@ r3 :> NoKey
FirstTwo == Permutations({r1, r2})

MCBodyOf == r1 :> b1 @@ r2 :> b1 @@ r3 :> b2
=============================================================================
