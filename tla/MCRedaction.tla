---------------------------- MODULE MCRedaction ----------------------------
(* The bars of one page, as the tool describes them. *)
EXTENDS RedactionContent
=============================================================================
