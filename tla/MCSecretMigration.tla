-------------------------- MODULE MCSecretMigration --------------------------
(* SecretMigration for TLC: the passes are interchangeable. *)
EXTENDS SecretMigration, TLC

PassSymmetry == Permutations(Passes)
=============================================================================
