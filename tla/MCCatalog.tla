------------------------------- MODULE MCCatalog -------------------------------
(* The instance of CatalogGeneration that TLC checks: two refreshes, a save,   *)
(* an instantiation that awaits the second one (or, awaiting none, composes a  *)
(* root agent), a team creation, and a reader of another catalog directory.    *)
EXTENDS CatalogGeneration

CONSTANTS r1, r2, s1, c1, c2, f1, k1, k2
MCKeyOf == [o \in Op |-> IF o = f1 THEN k2 ELSE k1]
MCRefreshOf == [c \in Consumer |-> IF c = c1 /\ c \notin Root THEN r2 ELSE None]
MCCatalogOf == [c \in Consumer |-> IF c = c1 THEN Agents ELSE Teams]
================================================================================
