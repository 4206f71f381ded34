---------------------------- MODULE MCXdsServer ----------------------------
(***************************************************************************)
(* XdsServer with the resource types reduced to one: the streams and the   *)
(* rebuilds are what matters.                                              *)
(***************************************************************************)
EXTENDS XdsServer

OneType == <<"cds">>

=============================================================================
