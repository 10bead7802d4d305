------------------------- MODULE MCIdentityLinking -------------------------
(* A small instance of IdentityLinking.                                      *)
EXTENDS IdentityLinking, TLC

Interchangeable ==
    Permutations(Users) \cup Permutations(Subjects) \cup Permutations(Requests)
        \cup Permutations(Institutional)
=============================================================================
