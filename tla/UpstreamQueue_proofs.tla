------------------------ MODULE UpstreamQueue_proofs ------------------------
(* Proofs about UpstreamQueue, for every QUEUE_MAX and every set of items. *)
EXTENDS UpstreamQueue, SequenceTheorems, TLAPS

\* The ring before it ever grows: the elements fill it from slot 0, and tail
\* comes back to 0 only when it is full.
RingInv ==
  /\ TypeOK
  /\ size = 0 => tail = 0
  /\ size > 0 => capacity = QueueMax
  /\ size <= QueueMax
  /\ size > 0 => tail = IF size = QueueMax THEN 0 ELSE size
  /\ \A i \in Slots(size) : data[i] \in Item

\* The elements, as the abstract queue sees them.
Elements == [i \in 1..size |-> data[i - 1]]

LEMMA RingInit == Init => RingInv
BY QueueAssumption DEF Init, RingInv, TypeOK, Slots

LEMMA RingEnqueue ==
  ASSUME RingInv, size < QueueMax, NEW x \in Item, Enqueue(x)
  PROVE  RingInv' /\ RR!Enqueue(x)
<1>1. size \in Nat /\ size < QueueMax /\ QueueMax \in Nat \ {0} /\ capacity \in Nat
  BY QueueAssumption DEF RingInv, TypeOK, Enqueue, Enqueues
<1>2. Grown = QueueMax /\ tail = size
  BY <1>1 DEF RingInv, TypeOK, Grown
<1>3. /\ capacity' = QueueMax /\ size' = size + 1 /\ head' = head /\ got' = got
      /\ tail' = (size + 1) % QueueMax /\ proc' = proc
      /\ data' = [Enlarged(QueueMax) EXCEPT ![size] = x]
  BY <1>2 DEF Enqueue, Enqueues
<1>4. /\ data' \in [Slots(QueueMax) -> Item \cup {Junk}]
      /\ data'[size] = x
      /\ \A i \in Slots(size) : data'[i] = data[i]
  BY <1>1, <1>3 DEF Enlarged, Slots, RingInv, TypeOK
<1>5. tail' = IF size' = QueueMax THEN 0 ELSE size'
  BY <1>1, <1>3
<1>6. RingInv'
  BY <1>1, <1>3, <1>4, <1>5 DEF RingInv, TypeOK, Slots
<1>7. Elements' = Append(Elements, x)
  <2>1. Elements \in Seq(Item) /\ Len(Elements) = size
    BY <1>1, IsASeq DEF Elements, RingInv, Slots
  <2>2. Elements' \in Seq(Item) /\ Len(Elements') = size + 1
    BY <1>1, <1>3, <1>6, IsASeq DEF Elements, RingInv, Slots
  <2>3. /\ Append(Elements, x) \in Seq(Item) /\ Len(Append(Elements, x)) = size + 1
        /\ \A i \in 1..size : Append(Elements, x)[i] = Elements[i]
        /\ Append(Elements, x)[size + 1] = x
    BY <2>1, AppendProperties
  <2>4. \A i \in 1..(size + 1) : Elements'[i] = Append(Elements, x)[i]
    BY <1>1, <1>3, <1>4, <2>3 DEF Elements, Slots
  <2> QED
    BY <1>1, <2>2, <2>3, <2>4, SeqEqual
<1> QED
  BY <1>3, <1>6, <1>7 DEF RR!Enqueue, Elements

LEMMA RingDequeue ==
  ASSUME RingInv, Dequeue
  PROVE  RingInv' /\ RR!Dequeue
<1>1. size \in Nat
  BY DEF RingInv, TypeOK
<1>2. Elements \in Seq(Item) /\ Len(Elements) = size
  BY <1>1, IsASeq DEF Elements, RingInv, Slots
<1>3. CASE size = 0
  <2>1. Elements = <<>>
    BY <1>2, <1>3, EmptySeq
  <2> QED
    BY <1>3, <2>1 DEF Dequeue, RR!Dequeue, Elements, RingInv, TypeOK, Slots
<1>4. CASE size # 0
  <2>1. Elements # <<>>
    BY <1>2, <1>4, EmptySeq
  <2>2. /\ got' = data[head] /\ head' = (head + 1) % size
        /\ UNCHANGED <<data, capacity, size, tail, proc>>
    BY <1>4 DEF Dequeue, NextHead
  <2>3. head \in Nat /\ head < size /\ data[head] \in Item
    BY <1>1, <1>4 DEF RingInv, TypeOK, Slots
  <2>4. head' \in Slots(size)
    BY <1>1, <1>4, <2>2, <2>3 DEF Slots
  <2>5. Elements[head + 1] = data[head]
    BY <1>1, <2>3 DEF Elements
  <2>6. RingInv'
    BY <1>1, <1>4, <2>2, <2>3, <2>4 DEF RingInv, TypeOK, Slots
  <2> QED
    BY <1>2, <2>1, <2>2, <2>5, <2>6 DEF RR!Dequeue, Elements
<1> QED
  BY <1>3, <1>4

LEMMA RingFree ==
  ASSUME TypeOK, Free_queue
  PROVE  RingInv' /\ RR!Clear
<1>1. RingInv'
  BY QueueAssumption DEF RingInv, Free_queue, TypeOK, Slots
<1>2. Elements' = <<>>
  <2>1. Elements' \in Seq(Item) /\ Len(Elements') = 0
    BY IsASeq DEF Elements, Free_queue
  <2> QED
    BY <2>1, EmptySeq
<1> QED
  BY <1>1, <1>2 DEF RR!Clear, Free_queue, Elements

-----------------------------------------------------------------------------
(* The indices of a ring of any size, however often it has grown. *)

\* What TypeOK needs of the step before: an empty queue starts at slot 0.
IndexInv == TypeOK /\ (size = 0 => tail = 0)

LEMMA IndexEnqueue ==
  ASSUME IndexInv, NEW x \in Item, Enqueue(x)
  PROVE  IndexInv'
<1>1. /\ size \in Nat /\ capacity \in Nat /\ size <= capacity
      /\ QueueMax \in Nat /\ QueueMax > 0 /\ tail \in Nat /\ head \in Nat
      /\ (size = 0 <=> capacity = 0)
      /\ size > 0 => head < size /\ tail < capacity
      /\ size = 0 => head = 0 /\ tail = 0
  BY QueueAssumption DEF IndexInv, TypeOK, Slots
<1>2. /\ capacity' = Grown /\ size' = size + 1 /\ head' = head /\ got' = got
      /\ tail' = (tail + 1) % Grown /\ proc' = proc
      /\ data' = [Enlarged(Grown) EXCEPT ![tail] = x]
  BY DEF Enqueue
<1>3. Grown \in Nat /\ Grown > size
  BY <1>1 DEF Grown
<1>4. Enlarged(Grown) \in [Slots(Grown) -> Item \cup {Junk}]
  BY DEF Enlarged, IndexInv, TypeOK
<1>5. data' \in [Slots(Grown) -> Item \cup {Junk}]
  BY <1>2, <1>4
<1>6. (tail + 1) % Grown \in Slots(Grown)
  BY <1>1, <1>3 DEF Slots
<1> QED
  BY <1>1, <1>2, <1>3, <1>5, <1>6 DEF IndexInv, TypeOK, Slots

LEMMA IndexDequeue ==
  ASSUME IndexInv, Dequeue
  PROVE  IndexInv'
<1>1. UNCHANGED <<data, capacity, size, tail, proc>> /\ size \in Nat
  BY DEF Dequeue, IndexInv, TypeOK
<1>2. CASE size = 0
  BY <1>1, <1>2 DEF Dequeue, IndexInv, TypeOK, Slots
<1>3. CASE size # 0
  <2>1. got' = data[head] /\ head' = (head + 1) % size
    BY <1>3 DEF Dequeue, NextHead
  <2>2. head \in Nat /\ head < size /\ size <= capacity /\ capacity \in Nat
    BY <1>1, <1>3 DEF IndexInv, TypeOK, Slots
  <2>3. head' \in Slots(size) /\ head \in Slots(capacity)
    BY <1>1, <1>3, <2>1, <2>2 DEF Slots
  <2>4. data[head] \in Item \cup {Junk}
    BY <2>3 DEF IndexInv, TypeOK
  <2> QED
    BY <1>1, <1>3, <2>1, <2>3, <2>4 DEF IndexInv, TypeOK
<1> QED
  BY <1>2, <1>3

LEMMA IndexNext ==
  ASSUME IndexInv, [Next]_vars
  PROVE  IndexInv'
<1>1. CASE Free_queue
  BY <1>1 DEF Free_queue, IndexInv, TypeOK, Slots
<1>2. CASE UNCHANGED ring
  <2>1. proc' \in {"run", "oom"}
    BY DEF Next, Enqueue, EnqueueFails, GrowFails, Dequeue, Free_queue, vars, IndexInv, TypeOK
  <2> QED
    BY <1>2, <2>1 DEF ring, IndexInv, TypeOK, Slots
<1> QED
  BY <1>1, <1>2, IndexEnqueue, IndexDequeue DEF Next, EnqueueFails, GrowFails, vars

\* head and tail never leave the array, and head stays on an element, whatever
\* the order of enqueues, dequeues and frees and however often realloc doubles
\* the ring or fails to.
THEOREM IndicesInRing == Spec => []TypeOK
<1>1. Init => IndexInv
  BY DEF Init, IndexInv, TypeOK, Slots
<1>2. IndexInv => TypeOK
  BY DEF IndexInv
<1> QED
  BY <1>1, <1>2, IndexNext, PTL DEF Spec

-----------------------------------------------------------------------------
(* The order of the elements. *)

\* The ring as it is until it grows; of a ring that has grown, the indices.
TurnInv == IndexInv /\ (capacity <= QueueMax => RingInv)

LEMMA TurnNext ==
  ASSUME TurnInv, [Next]_vars
  PROVE  TurnInv' /\ [capacity' <= QueueMax => RR!Next]_<<Elements, head, got>>
<1>1. IndexInv'
  BY IndexNext DEF TurnInv
<1>2. QueueMax \in Nat /\ QueueMax > 0 /\ capacity \in Nat /\ size \in Nat /\ size <= capacity
  BY QueueAssumption DEF TurnInv, IndexInv, TypeOK
<1>3. ASSUME NEW x \in Item, Enqueue(x), capacity' <= QueueMax
      PROVE  RingInv' /\ RR!Next
  <2>1. capacity' = Grown
    BY <1>3 DEF Enqueue
  <2>2. capacity <= QueueMax
    BY <1>2, <1>3, <2>1 DEF Grown, TurnInv, IndexInv, TypeOK
  <2>3. RingInv /\ size < QueueMax
    BY <1>2, <1>3, <2>1, <2>2 DEF Grown, TurnInv, RingInv
  <2> QED
    BY <1>3, <2>3, RingEnqueue DEF RR!Next
<1>4. ASSUME Dequeue, capacity' <= QueueMax
      PROVE  RingInv' /\ RR!Next
  <2>1. RingInv
    BY <1>4 DEF Dequeue, TurnInv
  <2> QED
    BY <1>4, <2>1, RingDequeue DEF RR!Next
<1>5. ASSUME Free_queue
      PROVE  RingInv' /\ RR!Next
  BY <1>5, RingFree DEF RR!Next, TurnInv, IndexInv
<1>6. ASSUME UNCHANGED ring
      PROVE  TurnInv' /\ UNCHANGED <<Elements, head, got>>
  BY <1>1, <1>6 DEF ring, TurnInv, RingInv, IndexInv, TypeOK, Slots, Elements
<1>7. CASE \/ \E x \in Item : Enqueue(x)
           \/ Dequeue
           \/ Free_queue
  BY <1>1, <1>3, <1>4, <1>5, <1>7 DEF TurnInv
<1>8. CASE EnqueueFails \/ GrowFails \/ UNCHANGED vars
  BY <1>6, <1>8 DEF EnqueueFails, GrowFails, vars
<1> QED
  BY <1>7, <1>8 DEF Next

\* The ring hands out every upstream in turn until it grows, and again once it
\* was freed, for every QUEUE_MAX: sm3t__enqueue, sm3t__dequeue and
\* sm3t__free_queue.
THEOREM RingInTurn == Spec => InTurn
<1>1. Init => TurnInv /\ RR!Init
  <2>1. Init => Elements = <<>>
    BY EmptySeq, IsASeq DEF Init, Elements
  <2>2. Init => TurnInv
    BY RingInit DEF TurnInv, IndexInv, RingInv
  <2> QED
    BY <2>1, <2>2 DEF RR!Init, Init, Elements
<1>2. TurnInv /\ [Next]_vars =>
        TurnInv' /\ [capacity' <= QueueMax => RR!Next]_<<Elements, head, got>>
  BY TurnNext
<1> QED
  BY <1>1, <1>2, PTL DEF Spec, InTurn, RR!vars, Elements

\* With at most QUEUE_MAX upstreams it never grows: it implements RoundRobin.
THEOREM RingImplementsRoundRobin ==
  ASSUME MaxItems <= QueueMax
  PROVE  Spec => RR!Spec
<1>1. Init => RingInv /\ RR!Init
  <2>1. Init => Elements = <<>>
    BY EmptySeq, IsASeq DEF Init, Elements
  <2> QED
    BY <2>1, RingInit DEF RR!Init, Init, Elements
<1>2. ASSUME RingInv, [Next]_vars
      PROVE  RingInv' /\ [RR!Next]_<<Elements, head, got>>
  <2>1. ASSUME NEW x \in Item, Enqueue(x) PROVE RingInv' /\ RR!Next
    <3>1. size < QueueMax
      BY <2>1, <1>2, QueueAssumption DEF Enqueue, Enqueues, RingInv, TypeOK
    <3> QED
      BY <1>2, <2>1, <3>1, RingEnqueue DEF RR!Next
  <2>2. CASE UNCHANGED ring
    <3>1. proc' \in {"run", "oom"}
      BY <1>2 DEF Next, Enqueue, EnqueueFails, GrowFails, Dequeue, Free_queue, vars, RingInv, TypeOK
    <3> QED
      BY <1>2, <2>2, <3>1 DEF ring, RingInv, TypeOK, Slots, Elements
  <2>3. CASE Dequeue
    BY <1>2, <2>3, RingDequeue DEF RR!Next
  <2>4. CASE Free_queue
    BY <1>2, <2>4, RingFree DEF RR!Next, RingInv
  <2> QED
    BY <1>2, <2>1, <2>2, <2>3, <2>4 DEF Next, EnqueueFails, GrowFails, vars
<1> QED
  BY <1>1, <1>2, PTL DEF Spec, RR!Spec, RR!vars, Elements
=============================================================================
