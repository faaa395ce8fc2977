----------------------------- MODULE MCCliConfig ----------------------------
(* CliConfig on small sets.                                                *)
EXTENDS CliConfig, TLC

NameSymmetry == Permutations(Names)
=============================================================================
