------------------------------ MODULE MCClusterSetup ------------------------------
(***************************************************************************)
(* Small clusters for TLC: a first server with up to three hosts to join,  *)
(* which join as servers, as agents, or not at all.                        *)
(***************************************************************************)
EXTENDS ClusterSetup

CONSTANTS h1, h2, h3, h4

AllHosts == {h1, h2, h3, h4}

DevicesFiles == {<<>>, <<h1>>, <<h1, h2, h3, h4>>}

\* One server, some servers, servers only.
Counts == {0, 2, 4}

NoneOrThree == {0, 3}

================================================================================
