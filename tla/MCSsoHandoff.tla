---------------------------- MODULE MCSsoHandoff ----------------------------
(* Small instances of SsoHandoff.                                            *)
EXTENDS SsoHandoff, TLC

CONSTANTS u1, a1, a2, r1, guest, coder

\* Single-role apps that map the global role of coders to r1, or nothing, and migrate
\* nobody.
SingleCardinality == [a \in Apps |-> "single"]
NoneMigrate == [a \in Apps |-> FALSE]
CodersMapped == {[g \in GlobalRoles |-> IF g = coder THEN {r1} ELSE {}]}

NothingOrCoders == CodersMapped \cup {[g \in GlobalRoles |-> {}]}

\* The user begins as a guest.
Promoted == {{coder}}
GuestOrCoder == {{guest}, {coder}}

Interchangeable == Permutations(Workers) \cup Permutations(Codes) \cup Permutations(Sessions)
                   \cup Permutations(Revokers)
=============================================================================
