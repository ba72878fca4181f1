------------------------------ MODULE MCDriver ------------------------------
(* A few runs on small sources.  *)
EXTENDS Driver
=============================================================================
