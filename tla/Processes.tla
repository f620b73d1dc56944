----------------------------- MODULE Processes -----------------------------
(* The processes and request handlers that run on a workstation, each once. *)
CONSTANTS Procs, None

ASSUME NoneAssumption == None \notin Procs

=============================================================================
