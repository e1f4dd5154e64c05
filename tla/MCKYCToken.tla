----------------------------- MODULE MCKYCToken -----------------------------
(* The token beside an arbitrary registry, with words of a few values, so  *)
(* that the checked and unchecked additions reach their limits.            *)
EXTENDS KYCToken, TLC

(* The token treats the accounts that can send transactions alike. *)
AccountSymmetry == Permutations(Callers)

=============================================================================
