------------------------------ MODULE MCCodegen ------------------------------
(* Names and fragments for model-checking CodegenRun. *)
EXTENDS CodegenRun
=============================================================================
