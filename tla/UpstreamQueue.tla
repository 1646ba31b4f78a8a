--------------------------- MODULE UpstreamQueue ----------------------------
(***************************************************************************)
(* The ring of src/core/sm3t_queue.c that holds the upstreams of forward   *)
(* mode.  A dequeue does not remove: it moves head around the elements.    *)
(***************************************************************************)
EXTENDS Integers, Sequences

CONSTANTS
  Item,       \* upstreams
  None,       \* the null pointer
  Junk,       \* what malloc and realloc leave in a slot
  QueueMax,   \* QUEUE_MAX
  MaxItems    \* bound: elements ever enqueued between two frees

ASSUME QueueAssumption ==
  /\ None \notin Item /\ Junk \notin Item /\ None # Junk
  /\ QueueMax \in Nat \ {0}
  /\ MaxItems \in Nat

VARIABLES
  data,       \* queue->data
  capacity,   \* queue->capacity, 0 while the queue is a null pointer
  size,       \* queue->size
  head,       \* queue->head
  tail,       \* queue->tail
  got,        \* what the last dequeue returned
  proc        \* the process: "run", or "oom" when SM3T__OUT_OF_MEMORY ended it

ring == <<data, capacity, size, head, tail, got>>
vars == <<ring, proc>>

Slots(n) == 0..(n - 1)

\* Types, and the indices stay inside the array and the head on an element.
TypeOK ==
  /\ capacity \in Nat
  /\ data \in [Slots(capacity) -> Item \cup {Junk}]
  /\ size \in 0..capacity
  /\ size = 0 <=> capacity = 0
  /\ size > 0 => head \in Slots(size) /\ tail \in Slots(capacity)
  /\ size = 0 => head = 0
  /\ got \in Item \cup {None, Junk}
  /\ proc \in {"run", "oom"}

Init ==
  /\ data = [i \in Slots(0) |-> Junk]
  /\ capacity = 0
  /\ size = 0
  /\ head = 0
  /\ tail = 0
  /\ got = None
  /\ proc = "run"

\* The capacity an element finds: a new array for an empty queue, one of twice
\* the capacity for a full one.
Grown ==
  IF size = 0 THEN QueueMax
  ELSE IF size = capacity THEN 2 * capacity ELSE capacity

\* malloc, or realloc, which keeps what was there.
Enlarged(n) == [i \in Slots(n) |-> IF i \in Slots(capacity) THEN data[i] ELSE Junk]

\* An element to enqueue: the bound is on their number.
Enqueues == proc = "run" /\ size < MaxItems

\* sm3t__enqueue, with memory. The other fields of a new ring are set to 0.
Enqueue(x) ==
  /\ Enqueues
  /\ capacity' = Grown
  /\ data' = [Enlarged(Grown) EXCEPT ![tail] = x]
  /\ tail' = (tail + 1) % Grown
  /\ size' = size + 1
  /\ UNCHANGED <<head, got, proc>>

\* sm3t__enqueue without memory for a new ring: false is returned.
EnqueueFails == Enqueues /\ size = 0 /\ UNCHANGED vars

\* sm3t__enqueue without memory for twice the ring: the process exits.
GrowFails ==
  /\ Enqueues
  /\ size > 0 /\ size = capacity
  /\ proc' = "oom"
  /\ UNCHANGED ring

\* Mutant: the head runs over the capacity.
NextHeadAll == (head + 1) % capacity

NextHead == (head + 1) % size

\* sm3t__dequeue.
Dequeue ==
  /\ proc = "run"
  /\ IF size = 0 THEN got' = None /\ UNCHANGED head
                 ELSE got' = data[head] /\ head' = NextHead
  /\ UNCHANGED <<data, capacity, size, tail, proc>>

\* sm3t__free_queue.
Free_queue ==
  /\ proc = "run"
  /\ data' = [i \in Slots(0) |-> Junk]
  /\ capacity' = 0
  /\ size' = 0
  /\ head' = 0
  /\ tail' = 0
  /\ UNCHANGED <<got, proc>>

Next == (\E x \in Item : Enqueue(x)) \/ EnqueueFails \/ GrowFails \/ Dequeue \/ Free_queue

Spec == Init /\ [][Next]_vars

-----------------------------------------------------------------------------

RR == INSTANCE RoundRobin WITH
        items <- [i \in 1..size |-> data[i - 1]],
        pos   <- head

\* The ring hands out what was enqueued, each upstream in its turn, however
\* enqueues, dequeues and frees are interleaved: sm3t_queue.c is a RoundRobin.
\* It is so until it grows, and again once it was freed: the tail of a full ring
\* is back at slot 0 and stays there when realloc has doubled the array, so what
\* is done to a grown ring is excepted.
InTurn == RR!Init /\ [][capacity' <= QueueMax => RR!Next]_(RR!vars)
=============================================================================
