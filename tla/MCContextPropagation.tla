----------------------- MODULE MCContextPropagation -----------------------
(* An instance of ContextPropagation for TLC.                              *)
EXTENDS ContextPropagation
=============================================================================
