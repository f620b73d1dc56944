---------------------------- MODULE Workstation ----------------------------
(***************************************************************************)
(* A developer's machine: commands of ctxfw that write configuration files *)
(* and requests that are reported to the centre, side by side.  A process  *)
(* is one of the two; they share no file, only the machine.                *)
(***************************************************************************)
EXTENDS Installer, Telemetry

Init == InstallerInit /\ TelemetryInit

Install(p) == task[p].pc = "new" /\ (Run(p) \/ Work(p)) /\ UNCHANGED telemetryVars

Account(p) == job[p].pc = "new" /\ (Serve(p) \/ Report(p)) /\ UNCHANGED installerVars

Edit == EditorSaves /\ UNCHANGED telemetryVars

Next == Edit \/ \E p \in Procs : Install(p) \/ Account(p)

vars == <<installerVars, telemetryVars>>

Spec == Init /\ [][Next]_vars

=============================================================================
