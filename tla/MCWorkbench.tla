------------------------------ MODULE MCWorkbench ------------------------------
(* Workbench for TLC: without configured agents, as the program comes, and     *)
(* with one.                                                                   *)
EXTENDS Workbench

NoPreset == <<>>
OnePreset == <<CHOOSE a \in Agent : TRUE>>
=============================================================================
