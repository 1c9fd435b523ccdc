-------------------------- MODULE MCDecodedMessages --------------------------
(* DecodedMessages with addresses that are alike. *)
EXTENDS DecodedMessages, TLC

BlockSymmetry == Permutations(Blocks)

==============================================================================
