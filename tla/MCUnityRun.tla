----------------------------- MODULE MCUnityRun -----------------------------
(* A small instance of module UnityRun. *)
EXTENDS UnityRun

=============================================================================
