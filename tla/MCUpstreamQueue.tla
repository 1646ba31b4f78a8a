-------------------------- MODULE MCUpstreamQueue ---------------------------
(* Instances of UpstreamQueue for TLC. *)
EXTENDS UpstreamQueue

CONSTANTS u1, u2, u3

Upstreams == {u1, u2, u3}
=============================================================================
