----------------------------- MODULE MCHarness -----------------------------
(* Harness with two mock backends and three tests: the third command after *)
(* the loss of varnishd is the first one that can block for ever.          *)
EXTENDS Harness
=============================================================================
