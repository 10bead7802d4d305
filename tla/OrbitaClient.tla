---------------------------- MODULE OrbitaClient ----------------------------
(* The reference adapter of a consumer, clients/fastapi/orbita_sso.py: one    *)
(* client object whose calls share two cached documents, discovery and the    *)
(* key set, while the instances of Órbita that answer come and go with keys   *)
(* of their own.  A call runs undisturbed up to its next await, so a step     *)
(* here reaches from one await to the next.                                   *)
EXTENDS Naturals

CONSTANTS
    Calls,      \* calls of the client in flight
    Keys,       \* key pairs that instances are deployed with, by kid
    Documents,  \* what the discovery endpoint may answer with
    None

Verdicts == {"conforming", "rejected"}  \* of contract_version and _validate_discovery_origins

ASSUME ClientAssumption ==
    /\ Keys # {}
    /\ Documents \subseteq Verdicts
    /\ None \notin Keys \cup Verdicts
    /\ \A keys \in SUBSET Keys : keys # None

VARIABLES
    serving,    \* the keys of the running instances
    discovery,  \* _discovery
    jwks,       \* _jwks, the kids in it
    call,       \* per call: where it is and what it knows
    strayed     \* history: a document that is to be rejected has been answered

vars == <<serving, discovery, jwks, call, strayed>>

Operations == {"authorization_url", "exchange_code", "sync_role_catalog", "verify_token"}

\* A call waits for an answer ("ask_..."), has it ("got_..."), or has stored it and
\* is about to go on ("kept_...").  "missing" is history: the keys that an instance
\* running at some moment of the call, or of one it overlaps, has not published.
Call == [step: {"idle", "ask_discovery", "got_discovery", "kept_discovery", "ask_token",
                "ask_sync", "ask_jwks", "got_jwks", "kept_jwks", "done"},
         op: Operations \cup {"none"}, kid: Keys \cup {None}, used: Verdicts \cup {None},
         document: Verdicts \cup {None}, keys: SUBSET Keys, verifying: BOOLEAN,
         refreshed: BOOLEAN, result: {"none", "ok", "unknown_key", "unsupported"},
         missing: SUBSET Keys]

NoCall == [step |-> "idle", op |-> "none", kid |-> None, used |-> None, document |-> None,
           keys |-> {}, verifying |-> FALSE, refreshed |-> FALSE, result |-> "none", missing |-> {}]

\* The caches hold a document each or nothing, and every call is at one of its awaits.
TypeOK ==
    /\ serving \in (SUBSET Keys) \ {{}}
    /\ discovery \in Verdicts \cup {None}
    /\ jwks \in {None} \cup SUBSET Keys
    /\ call \in [Calls -> Call]
    /\ strayed \in BOOLEAN

Init ==
    /\ serving \in {{k} : k \in Keys}
    /\ discovery = None
    /\ jwks = None
    /\ call = [t \in Calls |-> NoCall]
    /\ strayed = FALSE

-----------------------------------------------------------------------------
(* What a call becomes when it goes on: r is its record *)

Done(r, result) == [r EXCEPT !.step = "done", !.result = result]

\* discovery() has returned d, and the call sends its next request.
Discovered(r, d) ==
    LET s == [r EXCEPT !.used = d] IN
    CASE r.verifying -> [s EXCEPT !.step = "ask_jwks"]
      [] ~r.verifying /\ r.op = "exchange_code" -> [s EXCEPT !.step = "ask_token"]
      [] ~r.verifying /\ r.op = "sync_role_catalog" -> [s EXCEPT !.step = "ask_sync"]
      [] OTHER -> Done(s, "ok")

\* discovery() is called.
Discover(r) ==
    IF discovery # None THEN Discovered(r, discovery)
    ELSE [r EXCEPT !.step = "ask_discovery"]

\* Mutant: an unknown kid is refused at once.
SelectOnce(r, keys) == IF r.kid \in keys THEN Done(r, "ok") ELSE Done(r, "unknown_key")

\* Mutant: the refresh is repeated for as long as the kid is unknown.
SelectAgain(r, keys) == IF r.kid \in keys THEN Done(r, "ok") ELSE Discover(r)

\* Mutant: the key that is found is the result, and the token is not verified.
SelectKey(r, keys) ==
    IF r.kid \in keys THEN Done(r, r.kid)
    ELSE IF r.refreshed THEN Done(r, "unknown_key")
    ELSE Discover([r EXCEPT !.refreshed = TRUE])

\* verify_token has the key set: an unknown kid makes it refresh the set once.
Select(r, keys) ==
    IF r.kid \in keys THEN Done(r, "ok")
    ELSE IF r.refreshed THEN Done(r, "unknown_key")
    ELSE Discover([r EXCEPT !.refreshed = TRUE])

\* verify_token is called with a token signed under kid k.
Verify(r, k) ==
    LET s == [r EXCEPT !.verifying = TRUE, !.kid = k] IN
    IF jwks # None THEN Select(s, jwks) ELSE Discover(s)

-----------------------------------------------------------------------------
(* The steps of a call *)

Awaiting(t) == call[t].step \notin {"idle", "done"}

Become(t, r) == call' = [call EXCEPT ![t] = r]

Unpublished(s) == {k \in Keys : s # {k}}

Begin(t, op) ==
    LET others == {u \in Calls : Awaiting(u)}
        r == [NoCall EXCEPT !.op = op,
                 !.missing = Unpublished(serving) \cup UNION {call[u].missing : u \in others}]
    IN
    /\ ~Awaiting(t)
    /\ IF op = "verify_token" THEN \E k \in Keys : Become(t, Verify(r, k))
       ELSE Become(t, Discover(r))
    /\ UNCHANGED <<serving, discovery, jwks, strayed>>

AnswerDiscovery(t, d) ==
    /\ call[t].step = "ask_discovery"
    /\ Become(t, [call[t] EXCEPT !.step = "got_discovery", !.document = d])
    /\ strayed' = (strayed \/ d = "rejected")
    /\ UNCHANGED <<serving, discovery, jwks>>

StoreDiscovery(t) ==
    /\ call[t].step = "got_discovery"
    /\ discovery' = call[t].document
    /\ Become(t, [call[t] EXCEPT !.step = "kept_discovery", !.document = None])
    /\ UNCHANGED <<serving, jwks, strayed>>

\* After the connection is closed: what is stored by now is checked, and stays
\* stored when it is rejected.
CheckDiscovery(t) ==
    /\ call[t].step = "kept_discovery"
    /\ Become(t, IF discovery = "rejected" THEN Done(call[t], "unsupported")
                 ELSE Discovered(call[t], discovery))
    /\ UNCHANGED <<serving, discovery, jwks, strayed>>

\* An instance answers with a token it has signed.
AnswerToken(t, k) ==
    /\ call[t].step = "ask_token"
    /\ k \in serving
    /\ Become(t, Verify(call[t], k))
    /\ UNCHANGED <<serving, discovery, jwks, strayed>>

AnswerSync(t) ==
    /\ call[t].step = "ask_sync"
    /\ Become(t, Done(call[t], "ok"))
    /\ UNCHANGED <<serving, discovery, jwks, strayed>>

\* An instance publishes its own key alone.  A document that is to be rejected may
\* name any other address.
AnswerJwks(t, keys) ==
    /\ call[t].step = "ask_jwks"
    /\ call[t].used = "conforming" => \E k \in serving : keys = {k}
    /\ Become(t, [call[t] EXCEPT !.step = "got_jwks", !.keys = keys])
    /\ UNCHANGED <<serving, discovery, jwks, strayed>>

StoreJwks(t) ==
    /\ call[t].step = "got_jwks"
    /\ jwks' = call[t].keys
    /\ Become(t, [call[t] EXCEPT !.step = "kept_jwks", !.keys = {}])
    /\ UNCHANGED <<serving, discovery, strayed>>

\* After the connection is closed: the key set that is stored by now is searched.
UseJwks(t) ==
    /\ call[t].step = "kept_jwks"
    /\ Become(t, Select(call[t], jwks))
    /\ UNCHANGED <<serving, discovery, jwks, strayed>>

\* A request of the call fails or times out, or its caller is cancelled.
FailCall(t) ==
    /\ Awaiting(t)
    /\ Become(t, NoCall)
    /\ UNCHANGED <<serving, discovery, jwks, strayed>>

-----------------------------------------------------------------------------
(* Deployment *)

Deploy(s) ==
    /\ serving' = s
    /\ call' = [t \in Calls |->
           IF Awaiting(t) THEN [call[t] EXCEPT !.missing = @ \cup Unpublished(s)] ELSE call[t]]
    /\ UNCHANGED <<discovery, jwks, strayed>>

StartInstance(k) == k \notin serving /\ Deploy(serving \cup {k})

StopInstance(k) == k \in serving /\ serving # {k} /\ Deploy(serving \ {k})

\* An answer arrives within the timeout of 10 seconds, or the call fails.
Answered(t) ==
    \/ \E d \in Documents : AnswerDiscovery(t, d)
    \/ \E k \in Keys : AnswerToken(t, k)
    \/ AnswerSync(t)
    \/ \E keys \in {{}} \cup {{k} : k \in Keys} : AnswerJwks(t, keys)

Step(t) == Answered(t) \/ StoreDiscovery(t) \/ CheckDiscovery(t) \/ StoreJwks(t) \/ UseJwks(t)

Next ==
    \/ \E t \in Calls : (\E op \in Operations : Begin(t, op)) \/ Step(t) \/ FailCall(t)
    \/ \E k \in Keys : StartInstance(k) \/ StopInstance(k)

Spec == Init /\ [][Next]_vars

\* httpx times out and the event loop is fair; nothing makes a caller call.
FairSpec == Spec /\ \A t \in Calls : WF_vars(Step(t))

-----------------------------------------------------------------------------

Refuse(t, k) ==
    call'[t] # call[t] /\ call'[t].kid = k /\ call'[t].result = "unknown_key"

\* A token is refused for its kid only if an instance that ran during the call, or
\* during one that it overlaps, does not publish that key: neither a stale cache nor
\* the answer to another call that arrives late refuses what the call could verify.
RefusedKeysWereMissing ==
    \A t \in Calls : call[t].result = "unknown_key" => call[t].kid \in call[t].missing \/ strayed

\* Every call ends: an unknown kid is looked for once more and no further.
CallsEnd == \A t \in Calls : Awaiting(t) ~> ~Awaiting(t)

\* When a deployment has come to an end, with one key left, tokens of that key are
\* in the end no longer refused, whatever the caches held, without a restart of the
\* consumer, unless a document that is to be rejected has come in.
RefusalsEnd ==
    \A k \in Keys :
        <>[](serving = {k} /\ ~strayed) => <>[][\A t \in Calls : ~Refuse(t, k)]_vars

\* The contract has consumers require the version, and the expected origin, before
\* they use an endpoint of the document.
UsesOnlyValidatedDiscovery == \A t \in Calls : call[t].used # "rejected"
=============================================================================
