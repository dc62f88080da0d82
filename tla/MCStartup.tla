----------------------------- MODULE MCStartup ------------------------------
(* Startup on small instances; the .cfg file sets the bounds.              *)
EXTENDS Startup
=============================================================================
