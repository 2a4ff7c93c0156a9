----------------------------- MODULE MCKnownHosts -----------------------------
(***************************************************************************)
(* Two hosts and two keys; the names are alike up to renaming.             *)
(***************************************************************************)
EXTENDS KnownHosts, TLC

Symmetric ==
    Permutations(Hosts) \cup Permutations(Keys) \cup Permutations(Clients)

===============================================================================
