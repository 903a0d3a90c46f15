--------------------------- MODULE MCStorePersister ---------------------------
(* StorePersister for TLC: the wallets are interchangeable. *)
EXTENDS StorePersister, TLC

WalletSymmetry == Permutations(Wallets)
=============================================================================
