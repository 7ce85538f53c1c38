---------------------------- MODULE OncePerKey ----------------------------
(***************************************************************************)
(* What an Idempotency-Key promises, without requests, Redis or timeouts:  *)
(* between being claimed and being settled a key executes at most once; a  *)
(* claim is given up, or a settled key forgotten, only if it executed      *)
(* nothing, and a late answer may settle such a key once more; and the     *)
(* promise may be withdrawn (waived) for good.                             *)
(***************************************************************************)
CONSTANT Keys

VARIABLES
  state,         \* state[k] \in {"idle", "claimed", "settled", "waived"}
  executed       \* keys that executed, among those not waived

Init ==
  /\ state = [k \in Keys |-> "idle"]
  /\ executed = {}

Move(k, from, to) ==
  /\ state[k] = from
  /\ state' = [state EXCEPT ![k] = to]

Claim(k) == Move(k, "idle", "claimed") /\ UNCHANGED executed

Execute(k) ==
  /\ state[k] = "claimed"
  /\ k \notin executed
  /\ executed' = executed \cup {k}
  /\ UNCHANGED state

Settle(k) ==
  /\ \/ Move(k, "claimed", "settled")
     \/ k \notin executed /\ Move(k, "idle", "settled")
  /\ UNCHANGED executed

Forget(k) ==
  /\ k \notin executed
  /\ Move(k, "claimed", "idle") \/ Move(k, "settled", "idle")
  /\ UNCHANGED executed

Waive(k) ==
  /\ state' = [state EXCEPT ![k] = "waived"]
  /\ executed' = executed \ {k}

Next == \E k \in Keys :
  Claim(k) \/ Execute(k) \/ Settle(k) \/ Forget(k) \/ Waive(k)

Spec == Init /\ [][Next]_<<state, executed>>
=============================================================================
