---------------------------- MODULE AccessPolicy ----------------------------
(* Which app roles a user is granted in an SSO app, from the global roles,   *)
(* the explicit assignments and the mappings of global roles: the decision   *)
(* of RoleService.resolve_access, apart from the queries that feed it.       *)
EXTENDS Naturals, FiniteSets

CONSTANTS
    Roles,        \* names of app roles
    GlobalRoles,  \* names of global roles
    Guest         \* the fallback global role, DEFAULT_ROLE in the code

ASSUME GuestAssumption == Guest \in GlobalRoles

Cardinalities == {"single", "multiple"}

\* AppAccessResolution: the roles a token carries, and the migration flag.
Access == [roles: SUBSET Roles, migration: BOOLEAN]

NoAccess == [roles |-> {}, migration |-> FALSE]

\* The roles R as an answer, closed when a single-role app would carry several.
GrantRoles(R, cardinality) ==
    IF cardinality = "single" /\ Cardinality(R) # 1
    THEN NoAccess
    ELSE [roles |-> R, migration |-> FALSE]

ResolveAppAccess(globals, explicit, mapped, cardinality, migrationEnabled) ==
    IF globals = {} \/ Guest \in globals THEN NoAccess
    ELSE IF explicit # {} THEN GrantRoles(explicit, cardinality)
    ELSE IF mapped # {}   THEN GrantRoles(mapped, cardinality)
    ELSE [roles |-> {}, migration |-> migrationEnabled]

\* Whether an access lets a code be issued or exchanged.
IsProvisioned(access) == access.roles # {} \/ access.migration
=============================================================================
