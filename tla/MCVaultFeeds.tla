---------------------------- MODULE MCVaultFeeds ----------------------------
(***************************************************************************)
(* Two vaults, with keys of three bytes of eight values written in base 5. *)
(***************************************************************************)
EXTENDS VaultFeeds

MCKeys == {<<1, 2, 3>>, <<0, 7, 5>>}
=============================================================================
