---------------------------- MODULE MCModuleTree ----------------------------
(* A small instance of ModuleTree for TLC. *)
EXTENDS ModuleTree, TLC

CONSTANTS m1, m2, m3, m4

MCMods  == {m1, m2, m3, m4}
MCNames == {"a", "b", "a[0]"}

MCWithIndex(n, i) == n \o "[" \o ToString(i) \o "]"

(* Two types; the T of m2 needs arguments. *)
MCDefaultName   == [m \in MCMods |-> IF m = m2 THEN "b" ELSE "a"]
MCCanAccessCtor == MCMods \ {m2}
MCMembers       == {m3, m4}
MCRenamed       == {m3}
=============================================================================
