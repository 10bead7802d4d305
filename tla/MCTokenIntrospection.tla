------------------------ MODULE MCTokenIntrospection ------------------------
(* A small instance of TokenIntrospection: one exchange, one administrator   *)
(* and one introspection.                                                    *)
EXTENDS TokenIntrospection

CONSTANTS u1, a1, r1, guest, coder

SingleCardinality == [a \in Apps |-> "single"]
AllMigrate == [a \in Apps |-> TRUE]
NothingOrCoders == {[g \in GlobalRoles |-> {}], [g \in GlobalRoles |-> IF g = coder THEN {r1} ELSE {}]}
GuestOrCoder == {{guest}, {coder}}

\* Bound: once the session is recorded the worker sends no more requests.  The code is
\* spent and there is no other, so they would change nothing that introspection reads.
OneExchange ==
    (\E j \in Sessions : session[j].state # "none") => \A w \in Workers : pc[w] = "idle"

\* Bound: what happens after an answer is not followed; another introspection starts
\* from the same states.
OneAnswer == \A p \in Probes : probe[p].step \notin {"active", "inactive"}

Bounded == OneExchange /\ OneAnswer
=============================================================================
