----------------------------- MODULE MCAppRoles -----------------------------
(* Small instances of AppRoles.                                              *)
EXTENDS AppRoles, TLC

CONSTANTS r1, r2

\* Catalogues that overlap, and that leave a role out.
SomeCatalogues == {{r1}, {r1, r2}, {}}
AllUsers == {Users}

Interchangeable == Permutations(Requests) \cup Permutations(Users)
=============================================================================
