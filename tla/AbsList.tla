------------------------------- MODULE AbsList -------------------------------
(***************************************************************************)
(* What class List promises: a fixed set of nodes, some linked in a queue  *)
(* that grows at its end and can lose any of its nodes, some held by       *)
(* callers that allocated them, the others free.  It promises nothing once *)
(* a caller has broken the contract.                                       *)
(***************************************************************************)
EXTENDS Naturals, Sequences

CONSTANT Node

VARIABLES
  order,   (* the linked nodes, oldest first                                *)
  held,    (* nodes a caller allocated and has not linked                   *)
  kept     (* whether the contract was kept                                 *)

Linked == {order[k] : k \in DOMAIN order}
FreeNodes == Node \ (Linked \cup held)

Init == order = <<>> /\ held = {} /\ kept = TRUE

Add(n) == n \in FreeNodes /\ order' = Append(order, n) /\ UNCHANGED held

Alloc(n) == n \in FreeNodes /\ held' = held \cup {n} /\ UNCHANGED order

LinkBack(n) == n \in held /\ order' = Append(order, n) /\ held' = held \ {n}

Without(q, k) == [i \in 1 .. Len(q) - 1 |-> IF i < k THEN q[i] ELSE q[i + 1]]

Unlink(n) ==
  /\ \E k \in DOMAIN order : order[k] = n /\ order' = Without(order, k)
  /\ UNCHANGED held

Call == \E n \in Node : Add(n) \/ Alloc(n) \/ LinkBack(n) \/ Unlink(n)

Next == (kept /\ Call /\ UNCHANGED kept) \/ kept' = FALSE

Spec == Init /\ [][Next]_<<order, held, kept>>
=============================================================================
