------------------------------- MODULE Relay --------------------------------
(***************************************************************************)
(* What the proxy promises of a connection, without sockets, buffers or    *)
(* events: two ends are joined, what one end gives is promised to the      *)
(* other, and what is promised is sent, in order and once, until the ends  *)
(* part.  An end that was parted may be used for another connection, which *)
(* learns nothing of the first.                                            *)
(***************************************************************************)
EXTENDS Naturals, Sequences

CONSTANTS End, None

VARIABLES
  other,      \* the other end of the connection, or None
  promised,   \* the bytes that were released for an end
  sent        \* the bytes that were sent to it

vars == <<other, promised, sent>>

Begins(s, t) == Len(s) <= Len(t) /\ SubSeq(t, 1, Len(s)) = s

Init ==
  /\ other = [e \in End |-> None]
  /\ promised = [e \in End |-> <<>>]
  /\ sent = [e \in End |-> <<>>]

\* Two ends that hold nothing of an earlier connection are joined.
Join(d, e) ==
  /\ d # e
  /\ \A x \in {d, e} : other[x] = None /\ promised[x] = <<>> /\ sent[x] = <<>>
  /\ other' = [other EXCEPT ![d] = e, ![e] = d]
  /\ UNCHANGED <<promised, sent>>

\* More is promised to an end that is joined, or more of it is sent, or both.
Carry(e) ==
  /\ other[e] # None
  /\ Begins(promised[e], promised'[e])
  /\ Begins(sent[e], sent'[e])
  /\ Begins(sent'[e], promised'[e])
  /\ promised' = [promised EXCEPT ![e] = promised'[e]]
  /\ sent' = [sent EXCEPT ![e] = sent'[e]]
  /\ UNCHANGED other

Part(e) ==
  /\ other[e] # None
  /\ other' = [other EXCEPT ![e] = None, ![other[e]] = None]
  /\ UNCHANGED <<promised, sent>>

\* Ends that were parted are forgotten.
Forget(E) ==
  /\ \A e \in E : other[e] = None
  /\ promised' = [e \in End |-> IF e \in E THEN <<>> ELSE promised[e]]
  /\ sent' = [e \in End |-> IF e \in E THEN <<>> ELSE sent[e]]
  /\ UNCHANGED other

Next ==
  \/ \E d, e \in End : Join(d, e)
  \/ \E e \in End : Carry(e) \/ Part(e)
  \/ \E E \in SUBSET End : Forget(E)

Spec == Init /\ [][Next]_vars
=============================================================================
