---------------------------- MODULE MCInstallerArgs ----------------------------
(***************************************************************************)
(* No extra arguments, some that also have a flag of their own, one that   *)
(* names another server, and three with quotes in a value: around a space, *)
(* as in --node-label 'zone=rack 1', around none, and one without a second *)
(* one behind an option that has none.                                     *)
(***************************************************************************)
EXTENDS InstallerArgs

Label       == <<"--node-label", "'zone=rack 1'">>
Typo        == <<"--node-label", "zone=rack'">>
Taint       == <<"--node-taint", "key=value:NoExecute">>
TaintQuoted == <<"--node-taint", "'key=value:NoExecute'">>

SomeExtras ==
  {<<>>, <<<<"--disable", "traefik">>, <<"--tls-san", "host">>>>,
   <<<<"--server", "https://other:6443">>>>,
   <<TaintQuoted>>, <<Label>>, <<Taint, Typo>>}

EndsWord   == {Label, Typo}
WithoutEnd == {Typo}

================================================================================
