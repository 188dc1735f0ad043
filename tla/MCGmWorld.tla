----------------------------- MODULE MCGmWorld -----------------------------
EXTENDS GmWorld
MCCharacters ==
  {[bags |-> TRUE, holds |-> ("first" :> "bow") @@ ("second" :> NULL)
                               @@ ("weapon" :> "bow") @@ ("body" :> "body")]}
Symmetry == Permutations(Accounts)
=============================================================================
