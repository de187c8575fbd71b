----------------------------- MODULE MCPrReview -----------------------------
(***************************************************************************)
(* PrReview for TLC: users are interchangeable.                            *)
(***************************************************************************)
EXTENDS PrReview, TLC

SymmetricUsers == Permutations(Users)

==============================================================================
