---------------------------- MODULE MCEventLoop -----------------------------
(* Instances of EventLoop for TLC. *)
EXTENDS EventLoop, TLC

CONSTANTS c1, c2, c3, c4

TwoPairs == 1..4        \* the descriptors of two connections
ThreeFds == 1..3        \* one connection, and one accepted beside it
OnePair == 1..2         \* of one
Ctxs4 == {c1, c2, c3, c4}
Ctxs2 == {c1, c2}

\* Contexts are interchangeable heap addresses.
Sym4 == Permutations(Ctxs4)
Sym2 == Permutations(Ctxs2)

\* Which failures an instance has: all a server with an upstream may meet, a
\* RST, or what can alias descriptors.
AllFaults == FaultKinds \ {"enqueue"}
NoFaults == {}
Resets == {"reset"}
StrayFaults == {"orig_dst", "append_poll", "eintr"}

Both == {"client", "upstream"}
ClientOnly == {"client"}

Dirty == BOOLEAN
Zeroed == {FALSE}

NoRewrites == {}
\* A hook's answer that fills a buffer of two bytes, and one of three.
FullBuffer2 == {<<<<0, 1>>, <<0, 2>>>>}
FullBuffer3 == {<<<<0, 1>>, <<0, 2>>, <<0, 3>>>>}
=============================================================================
