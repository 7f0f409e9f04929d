---------------------------------- MODULE MCPlan ----------------------------------
(***************************************************************************)
(* Devices files of up to four hosts, the same host twice included, with   *)
(* counts below, at and above every length.                                *)
(***************************************************************************)
EXTENDS Plan

CONSTANTS h1, h2, h3, h4

AllHosts == {h1, h2, h3, h4}

Files == {<<>>, <<h1>>, <<h1, h2>>, <<h1, h1>>, <<h1, h2, h3>>, <<h1, h2, h1>>,
          <<h1, h2, h3, h4>>, <<h1, h2, h2, h3>>}

Counts == -1 .. 5

================================================================================
