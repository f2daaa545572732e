------------------------------ MODULE MCReload ------------------------------
(* Instances of Reload for TLC: the two files are model values. *)
EXTENDS Reload

CONSTANTS local, kubeconfig
=============================================================================
