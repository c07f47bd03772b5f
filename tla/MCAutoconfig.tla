---------------------------- MODULE MCAutoconfig ----------------------------
(* The devices in the order of the repository's configurations, two boards *)
(* of memory in either space, up to two boards in the Amiga.               *)
EXTENDS Autoconfig, TLC

MCSetVars == {<<"piscsi">>, <<"piscsi", "a314">>}
MCZ2Fast == <<"fast">>
MCZ3Fast == <<"z3 a", "z3 b">>
MCShuts == {"pistorm-dev", "scsi card"}
MCOwn == <<"scsi card", "memory card">>
MCConfigBase == ("fast" :> 32) @@ ("z3 a" :> 4096) @@ ("z3 b" :> 8192)
MCSize == ("fast" :> 4) @@ ("z3 a" :> 2) @@ ("z3 b" :> 2)
MCBase ==
  ("piscsi" :> 233) @@ ("a314" :> 234) @@ ("pistorm-dev" :> 235)
  @@ ("fast" :> 32) @@ ("z3 a" :> 16385) @@ ("z3 b" :> 16387)
  @@ ("scsi card" :> 236) @@ ("memory card" :> 64)
=============================================================================
