---------------------------- MODULE MCDiscovery ----------------------------
(* Small instances of Discovery: two devices, asked for together or apart.  *)
EXTENDS Discovery, TLC

CONSTANTS d1, d2

MCDevices == {d1, d2}
MCRanges == {MCDevices, {d1}}
MCNone == {}
=============================================================================
