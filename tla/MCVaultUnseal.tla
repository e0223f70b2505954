--------------------------- MODULE MCVaultUnseal ---------------------------
(* Model values for VaultUnseal: three key shares, a Vault whose own      *)
(* threshold is 2 while the spec asks for 3, one timer task and one pod    *)
(* watcher task.                                                           *)
EXTENDS VaultUnseal

CONSTANTS k1, k2, k3, timer, watcher

MCKeyList == <<k1, k2, k3>>
MCCheckers == {timer}
MCWatchers == {watcher}
=============================================================================
