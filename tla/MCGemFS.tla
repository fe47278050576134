------------------------------ MODULE MCGemFS ------------------------------
(* The paths that the programs of GemFS's run open.  The constants of the   *)
(* run meet what the theorems ask of them, unless programs write to a file  *)
(* without blocks, which the theorems leave out.                            *)
EXTENDS GemFS

KnownPaths ==
  {<<"bin", "shell.elf">>, <<"etc", "boot_msg.txt">>, <<"bin">>,
   <<"dev", "zero", "none">>}

ASSUME RunHypotheses == WritesEmpty \/ GemHypotheses
=============================================================================
