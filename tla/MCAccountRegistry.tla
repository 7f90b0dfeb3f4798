------------------------- MODULE MCAccountRegistry --------------------------
(* Instances of AccountRegistry.                                           *)
EXTENDS AccountRegistry, TLC

(* Rows, numbers and clients are interchangeable.                          *)
RegistrySymmetry ==
    Permutations(Clients) \union Permutations(Ids) \union Permutations(Numbers)

TwoBalances == {0, 1}
=============================================================================
