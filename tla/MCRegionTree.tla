---------------------------- MODULE MCRegionTree ----------------------------
(* RegionTree with the libraries of a small host: one that claims a bit and  *)
(* installs, and three that never stay: a claim of two bits without          *)
(* xy_install, a claim of zero bits, and a library that claims nothing.      *)
EXTENDS RegionTree

MCPaths == {"leaf", "broken", "zero", "bare"}
MCClaimOf == [p \in MCPaths |-> CASE p = "leaf"   -> 1
                                  [] p = "broken" -> 2
                                  [] p = "zero"   -> 0
                                  [] p = "bare"   -> NoClaim]
MCNoInstall == {"broken", "zero", "bare"}
=============================================================================
