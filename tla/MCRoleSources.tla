--------------------------- MODULE MCRoleSources ---------------------------
(* Small instances of RoleSources.                                           *)
EXTENDS RoleSources, TLC

CONSTANTS admin, coder, lead, guest

Call(op, R) == [op: {op}, role: R]

\* mapped_orbita_role yields any role but guest, or none; one will do.
MoodleCalls == Call("moodle", {coder, None})
LoginCalls == MoodleCalls \cup Call("default", {None})
AdminCalls == Call("manual", {admin, lead}) \cup Call("revoke", {admin})
BulkCalls == Call("bulk_grant", {coder}) \cup Call("bulk_revoke", {coder})

EveryCall == LoginCalls \cup AdminCalls \cup BulkCalls \cup Call("bootstrap", {None})

Interchangeable == Permutations(Requests)
=============================================================================
