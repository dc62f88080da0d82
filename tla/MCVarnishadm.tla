---------------------------- MODULE MCVarnishadm ----------------------------
(* Varnishadm on small instances; the .cfg files choose the calls, the     *)
(* timers that may expire and the number of faults.                        *)
EXTENDS Varnishadm
CONSTANTS c1, c2, c3

OneCall == {c1}
ThreeCalls == {c1, c2, c3}
NoCalls == {}
=============================================================================
