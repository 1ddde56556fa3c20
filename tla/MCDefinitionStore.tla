--------------------------- MODULE MCDefinitionStore ---------------------------
(***************************************************************************)
(* Small instances of DefinitionStore for TLC.                             *)
(***************************************************************************)
EXTENDS DefinitionStore, TLC

ClientSymmetry == Permutations(Client)
=============================================================================
