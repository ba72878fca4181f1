------------------------------- MODULE MCAst --------------------------------
(* Trees of a few nodes, and their drawings.  *)
EXTENDS Draw
=============================================================================
