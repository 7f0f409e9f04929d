-------------------------------- MODULE MCProInstall --------------------------------
(***************************************************************************)
(* Two or three processes, two builds that run and one that does not.      *)
(***************************************************************************)
EXTENDS ProInstall, TLC

CONSTANTS good1, good2, bad

AllBuilds == {good1, good2, bad}
BadBuilds == {bad}

================================================================================
