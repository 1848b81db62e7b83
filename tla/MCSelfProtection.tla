------------------------- MODULE MCSelfProtection -------------------------
(***************************************************************************)
(* Two slots for two regions of two types, two registrars and one checker.   *)
(* The two contents are different bytes with the same sum.                   *)
(***************************************************************************)
EXTENDS SelfProtection, TLC

CONSTANTS text, table1, t1, t2, c1

MCRegions == {text, table1}
MCTypeOf == (text :> "MODULE_CODE") @@ (table1 :> "SYSCALL_TABLE")
MCContents == 1 .. 2
MCSum == <<5, 5>>
MCRegistrars == {t1, t2}
MCCheckers == {c1}

Symmetry == Permutations(MCRegistrars)
=============================================================================
