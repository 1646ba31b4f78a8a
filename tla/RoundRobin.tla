----------------------------- MODULE RoundRobin -----------------------------
(***************************************************************************)
(* What the queue of upstreams is for: sm3t__run_server fills it once and  *)
(* takes the upstream of every new connection from it, each in turn.       *)
(***************************************************************************)
EXTENDS Integers, Sequences

CONSTANTS Item, None

VARIABLES items,   \* the upstreams, in the order they were added
          pos,     \* how many come before the next one
          got      \* the answer of the last dequeue

vars == <<items, pos, got>>

TypeOK ==
  /\ items \in Seq(Item)
  /\ pos \in Nat
  /\ got \in Item \cup {None}

Init == items = <<>> /\ pos = 0 /\ got = None

Enqueue(x) ==
  /\ items' = Append(items, x)
  /\ UNCHANGED <<pos, got>>

Dequeue ==
  IF items = <<>>
  THEN got' = None /\ UNCHANGED <<items, pos>>
  ELSE /\ got' = items[pos + 1]
       /\ pos' = (pos + 1) % Len(items)
       /\ UNCHANGED items

Clear ==
  /\ items' = <<>>
  /\ pos' = 0
  /\ UNCHANGED got

Next == (\E x \in Item : Enqueue(x)) \/ Dequeue \/ Clear

Spec == Init /\ [][Next]_vars
=============================================================================
