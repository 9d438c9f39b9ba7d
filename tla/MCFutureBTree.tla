---------------------------- MODULE MCFutureBTree ----------------------------
(***************************************************************************)
(* Instances of FutureBTreeHistory in which producers share the keys.      *)
(***************************************************************************)
EXTENDS FutureBTreeHistory, TLC

\* Every producer writes every key.
SharedKeys == [p \in Producers |-> Keys]

\* The model distinguishes keys only by equality.
KeySymmetry == Permutations(Keys)

=============================================================================
