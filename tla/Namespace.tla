----------------------------- MODULE Namespace ------------------------------
(***************************************************************************)
(* What the index promises its callers: a map from slots to root sectors,  *)
(* changed by one operation at a time.  An operation that returned success *)
(* is in the map, one that failed is not, and one that a power loss cut    *)
(* short is found either done or not done by the mount that follows, never *)
(* half done and never at the expense of another slot.                     *)
(***************************************************************************)
CONSTANTS
  Slots,   \* index keys
  Heads,   \* root sectors a slot may map to
  Free,    \* the head of a slot without a file
  NoOp     \* no operation in progress

VARIABLES
  names,   \* the namespace
  op,      \* the operation in progress, or cut short by a power loss
  power    \* "on" while the file system is mounted

vars == <<names, op, power>>

Ops == [slot : Slots, head : Heads \cup {Free}]

Applied(n, o) == IF o = NoOp THEN n ELSE [n EXCEPT ![o.slot] = o.head]

Init ==
  /\ names = [s \in Slots |-> Free]
  /\ op = NoOp
  /\ power = "off"

Request ==
  /\ power = "on" /\ op = NoOp
  /\ op' \in Ops
  /\ UNCHANGED <<names, power>>

Succeed ==
  /\ power = "on" /\ op # NoOp
  /\ names' = Applied(names, op)
  /\ op' = NoOp
  /\ UNCHANGED power

Fail ==
  /\ power = "on" /\ op # NoOp
  /\ op' = NoOp
  /\ UNCHANGED <<names, power>>

PowerLoss ==
  /\ power = "on"
  /\ power' = "off"
  /\ UNCHANGED <<names, op>>

Mount ==
  /\ power = "off"
  /\ power' = "on"
  /\ names' \in {names, Applied(names, op)}
  /\ op' = NoOp

Next == Request \/ Succeed \/ Fail \/ PowerLoss \/ Mount

Spec == Init /\ [][Next]_vars
=============================================================================
