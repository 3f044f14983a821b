---------------------------- MODULE MCWorkspace ----------------------------
(* Two datasets with different columns, one of which is revised: a draft of *)
(* one revision can be resumed over the other, one of the other dataset     *)
(* cannot.                                                                  *)
EXTENDS Workspace

MCSchema == <<"orders", "customers">>
MCMaxRevised == <<0, 1>>
=============================================================================
