------------------------ MODULE OrbitaClientProofs -------------------------
(* Theorems of OrbitaClient for any number of calls and keys: what is at hand *)
(* at each await, and when a token is refused for its key.                    *)
EXTENDS OrbitaClient, Integers, TLAPS

-----------------------------------------------------------------------------
(* The steps of one call, by what they make of its record                     *)

\* What a call has where it is.
Known(r) ==
    /\ r.step = "got_discovery" => r.document # None
    /\ r.step \in {"ask_token", "ask_sync", "ask_jwks", "got_jwks", "kept_jwks"} => r.used # None
    /\ r.step \in {"ask_jwks", "got_jwks", "kept_jwks"} => r.verifying
    /\ r.refreshed => r.verifying
    /\ r.verifying => r.kid # None
    /\ r.result = "unknown_key" => r.step = "done"

\* What a call has at the await where it is: it asks for a token and then verifies it.
Shaped(r) == Known(r) /\ (r.step = "ask_token" => ~r.verifying)

\* A call that came from r and is at s: it has kept what it knows of keys that are
\* missing, and is at no place where an answer is kept.
Follows(r, s) ==
    /\ s \in Call /\ Shaped(s)
    /\ s.missing = r.missing
    /\ s.step \notin {"idle", "got_discovery", "kept_discovery", "got_jwks", "kept_jwks"}
    /\ s.document = r.document

\* What a record is changed to, field by field, stays a record.
LEMMA NoCallShape == NoCall \in Call /\ Shaped(NoCall)
  BY ClientAssumption DEF NoCall, Call, Shaped, Known, Operations

\* A call ends (Done).
LEMMA DoneFields ==
    ASSUME NEW r \in Call, NEW result \in {"ok", "unknown_key", "unsupported"}, Known(r),
           r.refreshed => r.verifying, r.verifying => r.kid # None
    PROVE  /\ Follows(r, Done(r, result)) /\ Done(r, result).step = "done"
           /\ Done(r, result).result = result /\ Done(r, result).kid = r.kid
           /\ Done(r, result).used = r.used
  <1> DEFINE s == [r EXCEPT !.step = "done", !.result = result]
  <1>1. s \in Call
    BY DEF Call
  <1>2. /\ s.step = "done" /\ s.result = result /\ s.kid = r.kid /\ s.used = r.used
        /\ s.missing = r.missing /\ s.document = r.document
        /\ s.refreshed = r.refreshed /\ s.verifying = r.verifying
    BY DEF Call
  <1>3. Done(r, result) = s
    BY DEF Done
  <1> HIDE DEF s
  <1> QED
    BY <1>1, <1>2, <1>3 DEF Follows, Shaped, Known

\* A call goes on with the document d (Discovered).
LEMMA DiscoveredFields ==
    ASSUME NEW r \in Call, NEW d \in Verdicts, Known(r), r.result # "unknown_key"
    PROVE  /\ Follows(r, Discovered(r, d)) /\ Discovered(r, d).used = d
           /\ Discovered(r, d).result # "unknown_key"
  <1> DEFINE s == [r EXCEPT !.used = d]
  <1>1. s \in Call
    BY DEF Call
  <1>2. /\ s.used = d /\ s.op = r.op /\ s.kid = r.kid /\ s.missing = r.missing
        /\ s.document = r.document /\ s.refreshed = r.refreshed /\ s.verifying = r.verifying
        /\ s.result = r.result /\ s.step = r.step
    BY DEF Call
  <1>3. d # None
    BY ClientAssumption
  <1> HIDE DEF s
  <1>4. Known(s)
    BY <1>2, <1>3 DEF Known
  <1>5. ASSUME NEW step \in {"ask_jwks", "ask_token", "ask_sync"}, step = "ask_jwks" <=> s.verifying
        PROVE  LET q == [s EXCEPT !.step = step] IN
               Follows(r, q) /\ q.used = d /\ q.result # "unknown_key"
    <2> DEFINE q == [s EXCEPT !.step = step]
    <2>1. q \in Call
      BY <1>1 DEF Call
    <2>2. /\ q.step = step /\ q.used = d /\ q.kid = r.kid /\ q.missing = r.missing
          /\ q.document = r.document /\ q.refreshed = r.refreshed
          /\ q.verifying = s.verifying /\ q.result = r.result /\ s.verifying = r.verifying
      BY <1>1, <1>2 DEF Call
    <2> HIDE DEF q
    <2>3. Follows(r, q) /\ q.used = d /\ q.result # "unknown_key"
      BY <1>3, <1>5, <2>1, <2>2 DEF Follows, Shaped, Known
    <2> QED
      BY <2>3 DEF q
  <1>6. /\ Follows(s, Done(s, "ok")) /\ Done(s, "ok").result = "ok" /\ Done(s, "ok").used = d
    BY <1>1, <1>2, <1>4, DoneFields DEF Known
  <1>7. Follows(r, Done(s, "ok"))
    BY <1>2, <1>6 DEF Follows
  <1>8. \/ s.verifying /\ Discovered(r, d) = [s EXCEPT !.step = "ask_jwks"]
        \/ ~s.verifying /\ Discovered(r, d) = [s EXCEPT !.step = "ask_token"]
        \/ ~s.verifying /\ Discovered(r, d) = [s EXCEPT !.step = "ask_sync"]
        \/ Discovered(r, d) = Done(s, "ok")
    BY <1>2 DEF Discovered, s
  <1> QED
    BY <1>5, <1>6, <1>7, <1>8

\* A call asks for the discovery document or has it (Discover).
LEMMA DiscoverFields ==
    ASSUME NEW r \in Call, Known(r), r.result # "unknown_key", discovery \in Verdicts \cup {None}
    PROVE  /\ Follows(r, Discover(r)) /\ Discover(r).used \in {r.used, discovery}
           /\ Discover(r).result # "unknown_key"
  <1>1. CASE discovery # None
    BY <1>1, DiscoveredFields DEF Discover
  <1>2. CASE discovery = None
    <2> DEFINE s == [r EXCEPT !.step = "ask_discovery"]
    <2>1. s \in Call
      BY DEF Call
    <2>2. /\ s.step = "ask_discovery" /\ s.used = r.used /\ s.kid = r.kid
          /\ s.missing = r.missing /\ s.document = r.document
          /\ s.refreshed = r.refreshed /\ s.verifying = r.verifying /\ s.result = r.result
      BY DEF Call
    <2>3. Discover(r) = s
      BY <1>2 DEF Discover
    <2> HIDE DEF s
    <2> QED
      BY <2>1, <2>2, <2>3 DEF Follows, Shaped, Known
  <1> QED
    BY <1>1, <1>2

\* A call searches a key set: it refuses its token only when it has refreshed, and
\* the set lacks the kid (Select).
LEMMA SelectFields ==
    ASSUME NEW r \in Call, NEW keys \in SUBSET Keys, Known(r), r.verifying,
           r.result # "unknown_key", discovery \in Verdicts \cup {None}
    PROVE  /\ Follows(r, Select(r, keys)) /\ Select(r, keys).used \in {r.used, discovery}
           /\ Select(r, keys).result = "unknown_key" =>
                  r.refreshed /\ r.kid \notin keys /\ Select(r, keys).kid = r.kid
  <1>1. CASE r.kid \in keys
    BY <1>1, DoneFields DEF Select, Known
  <1>2. CASE r.kid \notin keys /\ r.refreshed
    BY <1>2, DoneFields DEF Select, Known
  <1>3. CASE r.kid \notin keys /\ ~r.refreshed
    <2> DEFINE s == [r EXCEPT !.refreshed = TRUE]
    <2>1. s \in Call
      BY DEF Call
    <2>2. /\ s.refreshed /\ s.step = r.step /\ s.used = r.used /\ s.kid = r.kid
          /\ s.missing = r.missing /\ s.document = r.document
          /\ s.verifying = r.verifying /\ s.result = r.result
      BY DEF Call
    <2>3. Select(r, keys) = Discover(s)
      BY <1>3 DEF Select
    <2> HIDE DEF s
    <2>4. Known(s)
      BY <2>2 DEF Known
    <2>5. /\ Follows(s, Discover(s)) /\ Discover(s).used \in {s.used, discovery}
          /\ Discover(s).result # "unknown_key"
      BY <2>1, <2>2, <2>4, DiscoverFields
    <2> QED
      BY <2>2, <2>3, <2>5 DEF Follows
  <1> QED
    BY <1>1, <1>2, <1>3

\* A call begins to verify a token of key k, and does not refuse it yet (Verify).
LEMMA VerifyFields ==
    ASSUME NEW r \in Call, NEW k \in Keys, Shaped(r), ~r.verifying, r.result # "unknown_key",
           discovery \in Verdicts \cup {None}, jwks \in {None} \cup SUBSET Keys
    PROVE  /\ Follows(r, Verify(r, k)) /\ Verify(r, k).used \in {r.used, discovery}
           /\ Verify(r, k).result # "unknown_key"
  <1> DEFINE s == [r EXCEPT !.verifying = TRUE, !.kid = k]
  <1>1. s \in Call
    BY DEF Call
  <1>2. /\ s.verifying /\ s.kid = k /\ s.step = r.step /\ s.used = r.used
        /\ s.missing = r.missing /\ s.document = r.document
        /\ s.refreshed = r.refreshed /\ s.result = r.result /\ ~s.refreshed
    BY DEF Call, Shaped, Known
  <1>3. Verify(r, k) = IF jwks # None THEN Select(s, jwks) ELSE Discover(s)
    BY DEF Verify
  <1> HIDE DEF s
  <1>4. k # None
    BY ClientAssumption
  <1>5. Known(s)
    BY <1>2, <1>4 DEF Shaped, Known
  <1> QED
    BY <1>1, <1>2, <1>3, <1>5, SelectFields, DiscoverFields DEF Follows

-----------------------------------------------------------------------------
(* Types                                                                      *)

\* Every call has the fields of its step, and what it has stored is there.
Shape ==
    /\ TypeOK
    /\ \A t \in Calls : Shaped(call[t])
    /\ \A t \in Calls : call[t].step = "kept_discovery" => discovery # None
    /\ \A t \in Calls : call[t].step = "kept_jwks" => jwks # None

\* Nothing is rejected before a document that is to be has come in.
Trusted ==
    ~strayed => /\ discovery # "rejected"
                /\ \A t \in Calls : call[t].used # "rejected" /\ call[t].document # "rejected"

\* A call knows as missing what an instance that runs now does not publish, what is
\* missing from an answer that a call has in its hands, and what is missing from the
\* key set that it is going to search.
Missed ==
    /\ \A t \in Calls : Awaiting(t) => Unpublished(serving) \subseteq call[t].missing
    /\ ~strayed => \A t, u \in Calls :
           Awaiting(t) /\ call[u].step = "got_jwks" => Keys \ call[u].keys \subseteq call[t].missing
    /\ ~strayed => \A t \in Calls :
           call[t].step = "kept_jwks" => Keys \ jwks \subseteq call[t].missing

\* The inductive invariant.
ClientInv == Shape /\ Trusted /\ Missed /\ RefusedKeysWereMissing

\* A call that goes on, and refuses only what is missing, keeps the invariant
\* (CheckDiscovery, AnswerToken, AnswerSync, UseJwks).
LEMMA GoesOn ==
    ASSUME ClientInv, NEW t \in Calls, Awaiting(t), NEW s,
           Follows(call[t], s), s.used \in {call[t].used, discovery},
           s.result = "unknown_key" => s.kid \in call[t].missing \/ strayed,
           Become(t, s), UNCHANGED <<serving, discovery, jwks, strayed>>
    PROVE  ClientInv'
  <1>1. call'[t] = s /\ \A u \in Calls \ {t} : call'[u] = call[u]
    BY DEF Become, ClientInv, Shape, TypeOK
  <1>2. Shape'
    <2>1. call' \in [Calls -> Call]
      BY DEF Become, Follows, ClientInv, Shape, TypeOK
    <2>2. TypeOK'
      BY <2>1 DEF ClientInv, Shape, TypeOK
    <2> QED
      BY <1>1, <2>2 DEF ClientInv, Shape, Follows
  <1>3. Trusted'
    BY <1>1 DEF ClientInv, Trusted, Follows
  <1>4. Missed'
    BY <1>1 DEF ClientInv, Missed, Follows, Awaiting
  <1>5. RefusedKeysWereMissing'
    BY <1>1 DEF ClientInv, RefusedKeysWereMissing, Follows
  <1> QED
    BY <1>2, <1>3, <1>4, <1>5 DEF ClientInv

\* A call of a consumer begins (Begin).
LEMMA BeginKeeps ==
    ASSUME ClientInv, NEW t \in Calls, NEW op \in Operations, Begin(t, op)
    PROVE  ClientInv'
  <1> DEFINE others == {u \in Calls : Awaiting(u)}
             missing == Unpublished(serving) \cup UNION {call[u].missing : u \in others}
             r == [NoCall EXCEPT !.op = op, !.missing = missing]
  <1>a. /\ discovery \in Verdicts \cup {None} /\ jwks \in {None} \cup SUBSET Keys
        /\ \A u \in Calls : call[u] \in Call
    BY DEF ClientInv, Shape, TypeOK
  <1>1. missing \in SUBSET Keys
    <2>1. \A u \in others : call[u].missing \in SUBSET Keys
      BY <1>a DEF Call
    <2> QED
      BY <2>1 DEF Unpublished
  <1>m. /\ Unpublished(serving) \subseteq missing
        /\ \A u \in Calls : Awaiting(u) => call[u].missing \subseteq missing
    OBVIOUS
  <1> HIDE DEF missing
  <1>2. r \in Call
    BY <1>1, NoCallShape DEF Call
  <1>3. /\ r.step = "idle" /\ r.used = None /\ r.kid = None /\ r.missing = missing
        /\ r.document = None /\ ~r.verifying /\ ~r.refreshed /\ r.result = "none"
    BY DEF NoCall
  <1>4. /\ \/ \E k \in Keys : Become(t, Verify(r, k))
           \/ Become(t, Discover(r))
        /\ ~Awaiting(t) /\ UNCHANGED <<serving, discovery, jwks, strayed>>
    BY DEF Begin, missing
  <1> HIDE DEF r
  <1>5. Shaped(r) /\ Known(r)
    BY <1>3 DEF Shaped, Known
  <1>6. PICK s : /\ Follows(r, s) /\ s.used \in {r.used, discovery}
                 /\ s.result # "unknown_key" /\ Become(t, s)
    BY <1>a, <1>2, <1>3, <1>4, <1>5, VerifyFields, DiscoverFields
  <1>7. call'[t] = s /\ \A u \in Calls \ {t} : call'[u] = call[u]
    BY <1>6, <1>a DEF Become, ClientInv, Shape, TypeOK
  <1>8. Shape'
    <2>1. call' \in [Calls -> Call]
      BY <1>6 DEF Become, Follows, ClientInv, Shape, TypeOK
    <2>2. TypeOK'
      BY <1>4, <2>1 DEF ClientInv, Shape, TypeOK
    <2> QED
      BY <1>4, <1>6, <1>7, <2>2 DEF ClientInv, Shape, Follows
  <1>9. Trusted'
    <2>1. None # "rejected"
      BY ClientAssumption DEF Verdicts
    <2> QED
      BY <1>3, <1>4, <1>6, <1>7, <2>1 DEF ClientInv, Trusted, Follows
  <1>10. Missed'
    <2>1. s.missing = missing /\ s.step \notin {"got_jwks", "kept_jwks"}
      BY <1>3, <1>6 DEF Follows
    <2>2. ~strayed => \A u \in Calls : call[u].step = "got_jwks" => Keys \ call[u].keys \subseteq missing
      BY <1>m DEF ClientInv, Missed, Awaiting
    <2> QED
      BY <1>m, <1>4, <1>7, <2>1, <2>2 DEF ClientInv, Missed, Awaiting
  <1>11. RefusedKeysWereMissing'
    BY <1>4, <1>6, <1>7 DEF ClientInv, RefusedKeysWereMissing
  <1> QED
    BY <1>8, <1>9, <1>10, <1>11 DEF ClientInv

\* A call that stays a call, and keeps its key and what it knows as missing, with
\* another step, document or key set.
Shifts(r, s) ==
    /\ s \in Call /\ s.op = r.op /\ s.kid = r.kid /\ s.used = r.used
    /\ s.verifying = r.verifying /\ s.refreshed = r.refreshed
    /\ s.result = r.result /\ s.missing = r.missing

\* An answer comes in or is stored (AnswerDiscovery, StoreDiscovery, AnswerJwks,
\* StoreJwks).
LEMMA AnswerKeeps ==
    ASSUME ClientInv, NEW t \in Calls,
           \/ \E d \in Documents : AnswerDiscovery(t, d)
           \/ \E keys \in {{}} \cup {{k} : k \in Keys} : AnswerJwks(t, keys)
           \/ StoreDiscovery(t) \/ StoreJwks(t)
    PROVE  ClientInv'
  <1>a. call[t] \in Call /\ Shaped(call[t]) /\ call \in [Calls -> Call]
    BY DEF ClientInv, Shape, TypeOK
  <1>b. None # "rejected" /\ Documents \subseteq Verdicts /\ None \notin Verdicts
    BY ClientAssumption DEF Verdicts
  <1>1. ASSUME NEW s, Shifts(call[t], s), Become(t, s)
        PROVE  /\ call'[t] = s /\ \A u \in Calls \ {t} : call'[u] = call[u]
               /\ call' \in [Calls -> Call]
    BY <1>1, <1>a DEF Become, Shifts
  <1>2. ASSUME NEW d \in Documents, AnswerDiscovery(t, d)
        PROVE  ClientInv'
    <2> DEFINE s == [call[t] EXCEPT !.step = "got_discovery", !.document = d]
    <2>1. s \in Call
      BY <1>a, <1>b DEF Call
    <2>2. Shifts(call[t], s) /\ s.step = "got_discovery" /\ s.document = d
      BY <1>a, <2>1 DEF Call, Shifts
    <2>3. /\ Become(t, s) /\ call[t].step = "ask_discovery"
          /\ strayed' = (strayed \/ d = "rejected") /\ UNCHANGED <<serving, discovery, jwks>>
      BY <1>2 DEF AnswerDiscovery
    <2> HIDE DEF s
    <2>4. /\ call'[t] = s /\ \A u \in Calls \ {t} : call'[u] = call[u]
          /\ call' \in [Calls -> Call]
      BY <1>1, <2>2, <2>3
    <2>5. TypeOK'
      BY <2>3, <2>4 DEF ClientInv, Shape, TypeOK
    <2>6. Shaped(s)
      BY <1>a, <1>b, <2>2, <2>3 DEF Shaped, Known, Shifts
    <2>7. Shape'
      BY <2>2, <2>3, <2>4, <2>5, <2>6 DEF ClientInv, Shape
    <2>8. Trusted'
      BY <2>2, <2>3, <2>4 DEF ClientInv, Trusted, Shifts
    <2>9. Missed'
      BY <2>2, <2>3, <2>4 DEF ClientInv, Missed, Shifts, Awaiting
    <2>10. RefusedKeysWereMissing'
      BY <2>2, <2>3, <2>4 DEF ClientInv, RefusedKeysWereMissing, Shifts
    <2> QED
      BY <2>7, <2>8, <2>9, <2>10 DEF ClientInv
  <1>3. CASE StoreDiscovery(t)
    <2> DEFINE s == [call[t] EXCEPT !.step = "kept_discovery", !.document = None]
    <2>1. s \in Call
      BY <1>a DEF Call
    <2>2. Shifts(call[t], s) /\ s.step = "kept_discovery" /\ s.document = None
      BY <1>a, <2>1 DEF Call, Shifts
    <2>3. /\ Become(t, s) /\ call[t].step = "got_discovery" /\ discovery' = call[t].document
          /\ UNCHANGED <<serving, jwks, strayed>>
      BY <1>3 DEF StoreDiscovery
    <2> HIDE DEF s
    <2>4. /\ call'[t] = s /\ \A u \in Calls \ {t} : call'[u] = call[u]
          /\ call' \in [Calls -> Call]
      BY <1>1, <2>2, <2>3
    <2>5. discovery' \in Verdicts
      BY <1>a, <2>3 DEF Call, Shaped, Known
    <2>6. TypeOK'
      BY <2>3, <2>4, <2>5 DEF ClientInv, Shape, TypeOK
    <2>7. Shaped(s)
      BY <1>a, <2>2, <2>3 DEF Shaped, Known, Shifts
    <2>8. Shape'
      BY <1>b, <2>2, <2>3, <2>4, <2>5, <2>6, <2>7 DEF ClientInv, Shape
    <2>9. Trusted'
      BY <1>b, <2>2, <2>3, <2>4 DEF ClientInv, Trusted, Shifts
    <2>10. Missed'
      BY <2>2, <2>3, <2>4 DEF ClientInv, Missed, Shifts, Awaiting
    <2>11. RefusedKeysWereMissing'
      BY <2>2, <2>3, <2>4 DEF ClientInv, RefusedKeysWereMissing, Shifts
    <2> QED
      BY <2>8, <2>9, <2>10, <2>11 DEF ClientInv
  <1>4. ASSUME NEW keys \in {{}} \cup {{k} : k \in Keys}, AnswerJwks(t, keys)
        PROVE  ClientInv'
    <2> DEFINE s == [call[t] EXCEPT !.step = "got_jwks", !.keys = keys]
    <2>0. keys \in SUBSET Keys
      OBVIOUS
    <2>1. s \in Call
      BY <1>a, <2>0 DEF Call
    <2>2. Shifts(call[t], s) /\ s.step = "got_jwks" /\ s.keys = keys /\ s.document = call[t].document
      BY <1>a, <2>1 DEF Call, Shifts
    <2>3. /\ Become(t, s) /\ call[t].step = "ask_jwks"
          /\ call[t].used = "conforming" => \E k \in serving : keys = {k}
          /\ UNCHANGED <<serving, discovery, jwks, strayed>>
      BY <1>4 DEF AnswerJwks
    <2> HIDE DEF s
    <2>4. /\ call'[t] = s /\ \A u \in Calls \ {t} : call'[u] = call[u]
          /\ call' \in [Calls -> Call]
      BY <1>1, <2>2, <2>3
    <2>5. TypeOK'
      BY <2>3, <2>4 DEF ClientInv, Shape, TypeOK
    <2>6. Shaped(s)
      BY <1>a, <2>2, <2>3 DEF Shaped, Known, Shifts
    <2>7. Shape'
      BY <2>2, <2>3, <2>4, <2>5, <2>6 DEF ClientInv, Shape
    <2>8. Trusted'
      BY <2>2, <2>3, <2>4 DEF ClientInv, Trusted, Shifts
    <2>9. ~strayed => Keys \ keys \subseteq Unpublished(serving)
      <3>1. call[t].used \in Verdicts
        BY <1>a, <2>3 DEF Shaped, Known, Call
      <3>2. ~strayed => call[t].used = "conforming"
        BY <3>1 DEF Verdicts, ClientInv, Trusted
      <3> QED
        BY <2>3, <3>2 DEF Unpublished
    <2>10. Missed'
      <3>1. \A u \in Calls : Awaiting(u)' => Awaiting(u) /\ call'[u].missing = call[u].missing
        BY <2>2, <2>3, <2>4 DEF Awaiting, Shifts
      <3>2. \A u \in Calls : Awaiting(u)' => Unpublished(serving') \subseteq call'[u].missing
        BY <2>3, <3>1 DEF ClientInv, Missed
      <3>3. ASSUME ~strayed, NEW u \in Calls, NEW v \in Calls, Awaiting(u)', call'[v].step = "got_jwks"
            PROVE  Keys \ call'[v].keys \subseteq call'[u].missing
        <4>1. CASE v = t
          BY <2>2, <2>3, <2>4, <2>9, <3>2, <3>3, <4>1
        <4>2. CASE v # t
          BY <2>4, <3>1, <3>3, <4>2 DEF ClientInv, Missed
        <4> QED
          BY <4>1, <4>2
      <3>4. ~strayed => \A u \in Calls :
               call'[u].step = "kept_jwks" => Keys \ jwks' \subseteq call'[u].missing
        BY <2>2, <2>3, <2>4 DEF ClientInv, Missed
      <3> QED
        BY <2>3, <3>2, <3>3, <3>4 DEF Missed
    <2>11. RefusedKeysWereMissing'
      BY <2>2, <2>3, <2>4 DEF ClientInv, RefusedKeysWereMissing, Shifts
    <2> QED
      BY <2>7, <2>8, <2>10, <2>11 DEF ClientInv
  <1>5. CASE StoreJwks(t)
    <2> DEFINE s == [call[t] EXCEPT !.step = "kept_jwks", !.keys = {}]
    <2>1. s \in Call
      BY <1>a DEF Call
    <2>2. Shifts(call[t], s) /\ s.step = "kept_jwks" /\ s.document = call[t].document
      BY <1>a, <2>1 DEF Call, Shifts
    <2>3. /\ Become(t, s) /\ call[t].step = "got_jwks" /\ jwks' = call[t].keys
          /\ UNCHANGED <<serving, discovery, strayed>>
      BY <1>5 DEF StoreJwks
    <2> HIDE DEF s
    <2>4. /\ call'[t] = s /\ \A u \in Calls \ {t} : call'[u] = call[u]
          /\ call' \in [Calls -> Call]
      BY <1>1, <2>2, <2>3
    <2>5. jwks' \in SUBSET Keys
      BY <1>a, <2>3 DEF Call
    <2>6. TypeOK'
      BY <2>3, <2>4, <2>5 DEF ClientInv, Shape, TypeOK
    <2>7. Shaped(s)
      BY <1>a, <2>2, <2>3 DEF Shaped, Known, Shifts
    <2>8. jwks' # None
      BY ClientAssumption, <2>5
    <2>9. Shape'
      BY <2>2, <2>3, <2>4, <2>6, <2>7, <2>8 DEF ClientInv, Shape
    <2>10. Trusted'
      BY <2>2, <2>3, <2>4 DEF ClientInv, Trusted, Shifts
    <2>11. Missed'
      BY <2>2, <2>3, <2>4 DEF ClientInv, Missed, Shifts, Awaiting
    <2>12. RefusedKeysWereMissing'
      BY <2>2, <2>3, <2>4 DEF ClientInv, RefusedKeysWereMissing, Shifts
    <2> QED
      BY <2>9, <2>10, <2>11, <2>12 DEF ClientInv
  <1> QED
    BY <1>2, <1>3, <1>4, <1>5

\* A call goes on with what it has, ends, or is given up (CheckDiscovery, AnswerToken,
\* AnswerSync, UseJwks, FailCall).
LEMMA StepKeeps ==
    ASSUME ClientInv, NEW t \in Calls, Step(t) \/ FailCall(t)
    PROVE  ClientInv'
  <1>a. /\ call[t] \in Call /\ Shaped(call[t]) /\ Known(call[t])
        /\ discovery \in Verdicts \cup {None} /\ jwks \in {None} \cup SUBSET Keys
        /\ serving \subseteq Keys
    BY DEF ClientInv, Shape, TypeOK, Shaped
  <1>1. CASE CheckDiscovery(t)
    <2>1. /\ Awaiting(t) /\ call[t].result # "unknown_key" /\ discovery \in Verdicts
          /\ UNCHANGED <<serving, discovery, jwks, strayed>>
      BY <1>1, <1>a DEF CheckDiscovery, Awaiting, Known, ClientInv, Shape
    <2>2. CASE Become(t, Done(call[t], "unsupported"))
      BY <1>a, <2>1, <2>2, DoneFields, GoesOn DEF Known
    <2>3. CASE Become(t, Discovered(call[t], discovery))
      BY <1>a, <2>1, <2>3, DiscoveredFields, GoesOn
    <2> QED
      BY <1>1, <2>2, <2>3 DEF CheckDiscovery
  <1>2. ASSUME NEW k \in Keys, AnswerToken(t, k)
        PROVE  ClientInv'
    <2>1. /\ Awaiting(t) /\ call[t].result # "unknown_key" /\ ~call[t].verifying
          /\ UNCHANGED <<serving, discovery, jwks, strayed>>
          /\ Become(t, Verify(call[t], k))
      BY <1>2, <1>a DEF AnswerToken, Awaiting, Shaped, Known
    <2> QED
      BY <1>a, <2>1, VerifyFields, GoesOn
  <1>3. CASE AnswerSync(t)
    <2>1. /\ Awaiting(t) /\ UNCHANGED <<serving, discovery, jwks, strayed>>
          /\ Become(t, Done(call[t], "ok"))
      BY <1>3 DEF AnswerSync, Awaiting
    <2> QED
      BY <1>a, <2>1, DoneFields, GoesOn DEF Known
  <1>4. CASE UseJwks(t)
    <2>1. /\ Awaiting(t) /\ call[t].result # "unknown_key" /\ call[t].verifying
          /\ UNCHANGED <<serving, discovery, jwks, strayed>>
          /\ Become(t, Select(call[t], jwks)) /\ jwks \in SUBSET Keys
          /\ call[t].kid \in Keys /\ call[t].step = "kept_jwks"
      BY <1>4, <1>a DEF UseJwks, Awaiting, Known, ClientInv, Shape, Call
    <2>2. /\ Follows(call[t], Select(call[t], jwks))
          /\ Select(call[t], jwks).used \in {call[t].used, discovery}
          /\ Select(call[t], jwks).result = "unknown_key" =>
                 call[t].kid \notin jwks /\ Select(call[t], jwks).kid = call[t].kid
      BY <1>a, <2>1, SelectFields
    <2>3. Select(call[t], jwks).result = "unknown_key" =>
              Select(call[t], jwks).kid \in call[t].missing \/ strayed
      BY <2>1, <2>2 DEF ClientInv, Missed
    <2> QED
      BY <2>1, <2>2, <2>3, GoesOn
  <1>5. CASE FailCall(t)
    <2>1. /\ call'[t] = NoCall /\ \A u \in Calls \ {t} : call'[u] = call[u]
          /\ call' \in [Calls -> Call] /\ UNCHANGED <<serving, discovery, jwks, strayed>>
      BY <1>5, NoCallShape DEF FailCall, Become, ClientInv, Shape, TypeOK
    <2>2. /\ NoCall.step = "idle" /\ NoCall.used = None /\ NoCall.document = None
          /\ NoCall.result = "none" /\ None # "rejected"
      BY ClientAssumption DEF NoCall, Verdicts
    <2>3. Shape'
      BY <2>1, <2>2, NoCallShape DEF ClientInv, Shape, TypeOK
    <2>4. Trusted' /\ Missed' /\ RefusedKeysWereMissing'
      BY <2>1, <2>2 DEF ClientInv, Trusted, Missed, RefusedKeysWereMissing, Awaiting
    <2> QED
      BY <2>3, <2>4 DEF ClientInv
  <1> QED
    BY <1>a, <1>1, <1>2, <1>3, <1>4, <1>5, AnswerKeeps DEF Step, Answered

\* Instances come and go, and every call knows what they do not publish (Deploy).
LEMMA DeployKeeps ==
    ASSUME ClientInv, NEW s \in (SUBSET Keys) \ {{}}, Deploy(s)
    PROVE  ClientInv'
  <1>a. call \in [Calls -> Call] /\ \A t \in Calls : call[t] \in Call /\ Shaped(call[t])
    BY DEF ClientInv, Shape, TypeOK
  <1>1. /\ serving' = s /\ UNCHANGED <<discovery, jwks, strayed>>
        /\ call' = [t \in Calls |->
               IF Awaiting(t) THEN [call[t] EXCEPT !.missing = @ \cup Unpublished(s)] ELSE call[t]]
    BY DEF Deploy
  <1>2. ASSUME NEW t \in Calls
        PROVE  /\ call'[t] \in Call /\ Shaped(call'[t])
               /\ call'[t].step = call[t].step /\ call'[t].used = call[t].used
               /\ call'[t].document = call[t].document /\ call'[t].keys = call[t].keys
               /\ call'[t].result = call[t].result /\ call'[t].kid = call[t].kid
               /\ call[t].missing \subseteq call'[t].missing
               /\ Awaiting(t) => Unpublished(s) \subseteq call'[t].missing
    <2> DEFINE r == [call[t] EXCEPT !.missing = @ \cup Unpublished(s)]
    <2>1. Unpublished(s) \subseteq Keys /\ call[t].missing \subseteq Keys
      BY <1>a DEF Unpublished, Call
    <2>2. r \in Call
      BY <1>a, <2>1 DEF Call
    <2>3. /\ r.step = call[t].step /\ r.used = call[t].used /\ r.document = call[t].document
          /\ r.keys = call[t].keys /\ r.result = call[t].result /\ r.kid = call[t].kid
          /\ r.op = call[t].op /\ r.verifying = call[t].verifying /\ r.refreshed = call[t].refreshed
          /\ r.missing = call[t].missing \cup Unpublished(s)
      BY <1>a DEF Call
    <2>4. call'[t] = IF Awaiting(t) THEN r ELSE call[t]
      BY <1>1
    <2> HIDE DEF r
    <2>5. Shaped(r)
      BY <1>a, <2>3 DEF Shaped, Known
    <2> QED
      BY <1>a, <2>2, <2>3, <2>4, <2>5
  <1>3. call' \in [Calls -> Call]
    BY <1>1, <1>2
  <1>4. Shape'
    BY <1>1, <1>2, <1>3 DEF ClientInv, Shape, TypeOK
  <1>5. Trusted'
    BY <1>1, <1>2 DEF ClientInv, Trusted
  <1>6. Missed'
    <2>1. \A t \in Calls : Awaiting(t)' <=> Awaiting(t)
      BY <1>2 DEF Awaiting
    <2>2. \A t \in Calls : Awaiting(t)' => Unpublished(serving)' \subseteq call'[t].missing
      BY <1>1, <1>2, <2>1 DEF Unpublished
    <2>3. ASSUME ~strayed, NEW t \in Calls, NEW u \in Calls, Awaiting(t)', call'[u].step = "got_jwks"
          PROVE  Keys \ call'[u].keys \subseteq call'[t].missing
      <3>1. Keys \ call[u].keys \subseteq call[t].missing
        BY <1>2, <2>1, <2>3 DEF ClientInv, Missed
      <3> QED
        BY <1>2, <3>1
    <2>4. ASSUME ~strayed, NEW t \in Calls, call'[t].step = "kept_jwks"
          PROVE  Keys \ jwks \subseteq call'[t].missing
      <3>1. Keys \ jwks \subseteq call[t].missing
        BY <1>2, <2>4 DEF ClientInv, Missed
      <3> QED
        BY <1>2, <3>1
    <2> QED
      BY <1>1, <2>2, <2>3, <2>4 DEF Missed
  <1>7. RefusedKeysWereMissing'
    BY <1>1, <1>2 DEF ClientInv, RefusedKeysWereMissing
  <1> QED
    BY <1>4, <1>5, <1>6, <1>7 DEF ClientInv

\* Every step keeps the invariant (Next).
LEMMA ClientStep == ClientInv /\ [Next]_vars => ClientInv'
  <1> SUFFICES ASSUME ClientInv, [Next]_vars PROVE ClientInv'
    OBVIOUS
  <1>1. CASE UNCHANGED vars
    BY <1>1 DEF vars, ClientInv, Shape, TypeOK, Trusted, Missed, RefusedKeysWereMissing, Awaiting
  <1>2. ASSUME NEW k \in Keys, StartInstance(k) \/ StopInstance(k)
        PROVE  ClientInv'
    <2>1. serving \in (SUBSET Keys) \ {{}}
      BY DEF ClientInv, Shape, TypeOK
    <2>2. CASE StartInstance(k)
      <3>1. serving \cup {k} \in (SUBSET Keys) \ {{}}
        BY <2>1
      <3> QED
        BY <2>2, <3>1, DeployKeeps DEF StartInstance
    <2>3. CASE StopInstance(k)
      <3>1. serving \ {k} \in (SUBSET Keys) \ {{}}
        BY <2>1, <2>3 DEF StopInstance
      <3> QED
        BY <2>3, <3>1, DeployKeeps DEF StopInstance
    <2> QED
      BY <1>2, <2>2, <2>3
  <1> QED
    BY <1>1, <1>2, BeginKeeps, StepKeeps DEF Next

\* The client has nothing at first, and no call runs (Init).
LEMMA ClientInit == Init => ClientInv
  <1> SUFFICES ASSUME Init PROVE ClientInv
    OBVIOUS
  <1>1. \A t \in Calls : call[t] = NoCall
    BY DEF Init
  <1>2. /\ NoCall.step = "idle" /\ NoCall.used = None /\ NoCall.document = None
        /\ NoCall.result = "none" /\ None # "rejected"
    BY ClientAssumption DEF NoCall, Verdicts
  <1>3. TypeOK
    <2>1. PICK k \in Keys : serving = {k}
      BY DEF Init
    <2>2. serving # {} /\ serving \subseteq Keys
      BY <2>1
    <2>3. serving \in (SUBSET Keys) \ {{}}
      BY <2>2
    <2> QED
      BY <2>3, NoCallShape DEF Init, TypeOK
  <1>4. Shape
    BY <1>1, <1>2, <1>3, NoCallShape DEF Shape
  <1>5. Trusted /\ Missed /\ RefusedKeysWereMissing
    BY <1>1, <1>2 DEF Init, Trusted, Missed, RefusedKeysWereMissing, Awaiting
  <1> QED
    BY <1>4, <1>5 DEF ClientInv

\* Every state has the types of the caches and the calls.
THEOREM TypeCorrect == Spec => []TypeOK
  <1>1. ClientInv => TypeOK
    BY DEF ClientInv, Shape
  <1> QED
    BY <1>1, ClientInit, ClientStep, PTL DEF Spec

\* However calls overlap and instances come and go, a token is refused for its kid
\* only if an instance of that time lacked the key (RefusedKeysWereMissing).
THEOREM RefusalsAreJustified == Spec => []RefusedKeysWereMissing
  <1>1. ClientInv => RefusedKeysWereMissing
    BY DEF ClientInv
  <1> QED
    BY <1>1, ClientInit, ClientStep, PTL DEF Spec

-----------------------------------------------------------------------------
(* Calls shrink.  That they end is then a matter of fairness alone, which TLC  *)
(* checks (CallsEnd): what is proved is that they cannot go on for ever.       *)

\* What is ahead of a call: the awaits up to the use of a key set, once before it
\* has a token, once before it has refreshed the set, and once after.
Stage(r) ==
    CASE r.step = "ask_discovery"                       -> 6
      [] r.step = "got_discovery"                       -> 5
      [] r.step = "kept_discovery"                      -> 4
      [] r.step \in {"ask_token", "ask_sync", "ask_jwks"} -> 3
      [] r.step = "got_jwks"                            -> 2
      [] r.step = "kept_jwks"                           -> 1
      [] r.step \in {"idle", "done"}                    -> 0

Rounds(r) == IF r.refreshed THEN 0 ELSE IF r.verifying THEN 1 ELSE 2

Left(r) == IF Stage(r) = 0 THEN 0 ELSE 6 * Rounds(r) + Stage(r)

\* Only a call that is at an await has something ahead, and 18 steps at most.
LEMMA LeftType ==
    ASSUME NEW r \in Call
    PROVE  /\ Stage(r) \in 0 .. 6 /\ Rounds(r) \in 0 .. 2 /\ Left(r) \in 0 .. 18
           /\ Left(r) = 0 <=> r.step \in {"idle", "done"}
  <1>1. Stage(r) \in 0 .. 6 /\ (Stage(r) = 0 <=> r.step \in {"idle", "done"})
    BY DEF Stage, Call
  <1>2. Rounds(r) \in 0 .. 2
    BY DEF Rounds
  <1> QED
    BY <1>1, <1>2 DEF Left

\* A call that has ended has nothing ahead (Done).
LEMMA DoneLeft ==
    ASSUME NEW r \in Call, NEW result
    PROVE  Left(Done(r, result)) = 0
  <1>1. Done(r, result).step = "done"
    BY DEF Done, Call
  <1> QED
    BY <1>1 DEF Left, Stage

\* A call that has its document is past the discovery of its round (Discovered).
LEMMA DiscoveredLeft ==
    ASSUME NEW r \in Call, NEW d \in Verdicts
    PROVE  Left(Discovered(r, d)) \in 0 .. (6 * Rounds(r) + 3)
  <1> DEFINE s == [r EXCEPT !.used = d]
  <1>1. s \in Call /\ s.verifying = r.verifying /\ s.refreshed = r.refreshed
    BY DEF Call
  <1> HIDE DEF s
  <1>2. ASSUME NEW step \in {"ask_jwks", "ask_token", "ask_sync"}
        PROVE  Left([s EXCEPT !.step = step]) = 6 * Rounds(r) + 3
    <2> DEFINE q == [s EXCEPT !.step = step]
    <2>1. q.step = step /\ q.verifying = r.verifying /\ q.refreshed = r.refreshed
      BY <1>1 DEF Call
    <2> HIDE DEF q
    <2>2. Stage(q) = 3 /\ Rounds(q) = Rounds(r)
      BY <2>1 DEF Stage, Rounds
    <2>3. Left(q) = 6 * Rounds(r) + 3
      BY <2>2 DEF Left
    <2> QED
      BY <2>3 DEF q
  <1>3. Left(Done(s, "ok")) = 0
    BY <1>1, DoneLeft
  <1>4. \/ \E step \in {"ask_jwks", "ask_token", "ask_sync"} :
               Discovered(r, d) = [s EXCEPT !.step = step]
        \/ Discovered(r, d) = Done(s, "ok")
    <2>1. s.op = r.op
      BY DEF s, Call
    <2> QED
      BY <1>1, <2>1 DEF Discovered, s
  <1>5. Rounds(r) \in 0 .. 2
    BY LeftType
  <1> QED
    BY <1>2, <1>3, <1>4, <1>5

\* A call that begins a round has at most that round and the later ones ahead
\* (Discover).
LEMMA DiscoverLeft ==
    ASSUME NEW r \in Call, discovery \in Verdicts \cup {None}
    PROVE  Left(Discover(r)) \in 0 .. (6 * Rounds(r) + 6)
  <1>1. CASE discovery # None
    <2>1. Rounds(r) \in 0 .. 2
      BY LeftType
    <2>2. Discover(r) = Discovered(r, discovery) /\ discovery \in Verdicts
      BY <1>1 DEF Discover
    <2>3. Left(Discover(r)) \in 0 .. (6 * Rounds(r) + 3)
      BY <2>2, DiscoveredLeft
    <2> QED
      BY <2>1, <2>3
  <1>2. CASE discovery = None
    <2> DEFINE s == [r EXCEPT !.step = "ask_discovery"]
    <2>1. s.step = "ask_discovery" /\ s.verifying = r.verifying /\ s.refreshed = r.refreshed
      BY DEF Call
    <2>2. Discover(r) = s
      BY <1>2 DEF Discover
    <2> HIDE DEF s
    <2>3. Stage(s) = 6 /\ Rounds(s) = Rounds(r) /\ Rounds(r) \in 0 .. 2
      BY <2>1, LeftType DEF Stage, Rounds
    <2> QED
      BY <2>2, <2>3 DEF Left
  <1> QED
    BY <1>1, <1>2

\* A call that searches a key set ends, or begins the one round after a refresh
\* (Select).
LEMMA SelectLeft ==
    ASSUME NEW r \in Call, NEW keys, discovery \in Verdicts \cup {None}
    PROVE  /\ Left(Select(r, keys)) \in 0 .. 6
           /\ r.refreshed => Left(Select(r, keys)) = 0
  <1>1. CASE r.kid \in keys \/ r.refreshed
    BY <1>1, DoneLeft DEF Select
  <1>2. CASE r.kid \notin keys /\ ~r.refreshed
    <2> DEFINE s == [r EXCEPT !.refreshed = TRUE]
    <2>1. s \in Call /\ s.refreshed
      BY DEF Call
    <2>2. Select(r, keys) = Discover(s)
      BY <1>2 DEF Select
    <2> HIDE DEF s
    <2>3. Rounds(s) = 0
      BY <2>1 DEF Rounds
    <2> QED
      BY <1>2, <2>1, <2>2, <2>3, DiscoverLeft
  <1> QED
    BY <1>1, <1>2

\* A call that has its token has the two rounds of verifying ahead (Verify).
LEMMA VerifyLeft ==
    ASSUME NEW r \in Call, NEW k \in Keys, discovery \in Verdicts \cup {None}
    PROVE  Left(Verify(r, k)) \in 0 .. 12
  <1> DEFINE s == [r EXCEPT !.verifying = TRUE, !.kid = k]
  <1>1. s \in Call /\ s.verifying
    BY DEF Call
  <1>2. Verify(r, k) = IF jwks # None THEN Select(s, jwks) ELSE Discover(s)
    BY DEF Verify
  <1> HIDE DEF s
  <1>3. Rounds(s) \in 0 .. 1
    BY <1>1 DEF Rounds
  <1>4. Left(Discover(s)) \in 0 .. (6 * Rounds(s) + 6) /\ Left(Select(s, jwks)) \in 0 .. 6
    BY <1>1, DiscoverLeft, SelectLeft
  <1> QED
    BY <1>2, <1>3, <1>4

\* An answer that comes in or is stored takes the call one stage on (AnswerDiscovery,
\* StoreDiscovery, AnswerJwks, StoreJwks).
LEMMA ShiftLeft ==
    ASSUME NEW r \in Call, NEW s, Shifts(r, s), Stage(r) = Stage(s) + 1, Stage(s) # 0
    PROVE  Left(s) < Left(r)
  <1>1. Stage(r) \in 0 .. 6 /\ Stage(s) \in 0 .. 6 /\ Rounds(r) \in 0 .. 2
    BY LeftType DEF Shifts
  <1>2. Rounds(s) = Rounds(r)
    BY DEF Shifts, Rounds
  <1> QED
    BY <1>1, <1>2 DEF Left

\* Every step of a call leaves less ahead of it (Step).
LEMMA StepShrinks ==
    ASSUME ClientInv, NEW t \in Calls, Step(t)
    PROVE  Left(call'[t]) < Left(call[t])
  <1>a. /\ call[t] \in Call /\ Shaped(call[t]) /\ call \in [Calls -> Call]
        /\ discovery \in Verdicts \cup {None} /\ jwks \in {None} \cup SUBSET Keys
        /\ call[t].step = "kept_discovery" => discovery # None
        /\ Rounds(call[t]) \in 0 .. 2
    BY LeftType DEF ClientInv, Shape, TypeOK
  <1>b. ASSUME NEW s, Become(t, s)
        PROVE  call'[t] = s
    BY <1>a, <1>b DEF Become
  <1>1. ASSUME NEW d \in Documents, AnswerDiscovery(t, d)
        PROVE  Left(call'[t]) < Left(call[t])
    <2> DEFINE s == [call[t] EXCEPT !.step = "got_discovery", !.document = d]
    <2>1. Shifts(call[t], s) /\ s.step = "got_discovery"
      BY <1>a, ClientAssumption DEF Call, Shifts
    <2>2. Become(t, s) /\ call[t].step = "ask_discovery"
      BY <1>1 DEF AnswerDiscovery
    <2> HIDE DEF s
    <2>3. Stage(call[t]) = 6 /\ Stage(s) = 5
      BY <2>1, <2>2 DEF Stage
    <2> QED
      BY <1>a, <1>b, <2>1, <2>2, <2>3, ShiftLeft
  <1>2. CASE StoreDiscovery(t)
    <2> DEFINE s == [call[t] EXCEPT !.step = "kept_discovery", !.document = None]
    <2>1. Shifts(call[t], s) /\ s.step = "kept_discovery"
      BY <1>a DEF Call, Shifts
    <2>2. Become(t, s) /\ call[t].step = "got_discovery"
      BY <1>2 DEF StoreDiscovery
    <2> HIDE DEF s
    <2>3. Stage(call[t]) = 5 /\ Stage(s) = 4
      BY <2>1, <2>2 DEF Stage
    <2> QED
      BY <1>a, <1>b, <2>1, <2>2, <2>3, ShiftLeft
  <1>3. ASSUME NEW keys \in {{}} \cup {{k} : k \in Keys}, AnswerJwks(t, keys)
        PROVE  Left(call'[t]) < Left(call[t])
    <2> DEFINE s == [call[t] EXCEPT !.step = "got_jwks", !.keys = keys]
    <2>0. keys \in SUBSET Keys
      OBVIOUS
    <2>1. Shifts(call[t], s) /\ s.step = "got_jwks"
      BY <1>a, <2>0 DEF Call, Shifts
    <2>2. Become(t, s) /\ call[t].step = "ask_jwks"
      BY <1>3 DEF AnswerJwks
    <2> HIDE DEF s
    <2>3. Stage(call[t]) = 3 /\ Stage(s) = 2
      BY <2>1, <2>2 DEF Stage
    <2> QED
      BY <1>a, <1>b, <2>1, <2>2, <2>3, ShiftLeft
  <1>4. CASE StoreJwks(t)
    <2> DEFINE s == [call[t] EXCEPT !.step = "kept_jwks", !.keys = {}]
    <2>1. Shifts(call[t], s) /\ s.step = "kept_jwks"
      BY <1>a DEF Call, Shifts
    <2>2. Become(t, s) /\ call[t].step = "got_jwks"
      BY <1>4 DEF StoreJwks
    <2> HIDE DEF s
    <2>3. Stage(call[t]) = 2 /\ Stage(s) = 1
      BY <2>1, <2>2 DEF Stage
    <2> QED
      BY <1>a, <1>b, <2>1, <2>2, <2>3, ShiftLeft
  <1>5. CASE CheckDiscovery(t)
    <2>1. Left(call[t]) = 6 * Rounds(call[t]) + 4
      BY <1>5 DEF CheckDiscovery, Left, Stage
    <2>2. /\ Left(Done(call[t], "unsupported")) = 0
          /\ Left(Discovered(call[t], discovery)) \in 0 .. (6 * Rounds(call[t]) + 3)
      BY <1>5, <1>a, DoneLeft, DiscoveredLeft DEF CheckDiscovery
    <2>3. \/ call'[t] = Done(call[t], "unsupported")
          \/ call'[t] = Discovered(call[t], discovery)
      BY <1>5, <1>b DEF CheckDiscovery
    <2> QED
      BY <1>a, <2>1, <2>2, <2>3
  <1>6. ASSUME NEW k \in Keys, AnswerToken(t, k)
        PROVE  Left(call'[t]) < Left(call[t])
    <2>1. call[t].step = "ask_token" /\ call'[t] = Verify(call[t], k)
      BY <1>6, <1>b DEF AnswerToken
    <2>2. Rounds(call[t]) = 2
      BY <1>a, <2>1 DEF Shaped, Known, Rounds
    <2>3. Left(call[t]) = 15
      BY <2>1, <2>2 DEF Left, Stage
    <2> QED
      BY <1>a, <2>1, <2>3, VerifyLeft
  <1>7. CASE AnswerSync(t)
    <2>1. Left(call[t]) = 6 * Rounds(call[t]) + 3 /\ call'[t] = Done(call[t], "ok")
      BY <1>7, <1>b DEF AnswerSync, Left, Stage
    <2> QED
      BY <1>a, <2>1, DoneLeft
  <1>8. CASE UseJwks(t)
    <2>1. call[t].verifying /\ call'[t] = Select(call[t], jwks)
      BY <1>8, <1>a, <1>b DEF UseJwks, Shaped, Known
    <2>2. Left(call[t]) = IF call[t].refreshed THEN 1 ELSE 7
      BY <1>8, <2>1 DEF UseJwks, Left, Stage, Rounds
    <2> QED
      BY <1>a, <2>1, <2>2, SelectLeft
  <1> QED
    BY <1>1, <1>2, <1>3, <1>4, <1>5, <1>6, <1>7, <1>8 DEF Step, Answered

\* What others do leaves a call where it is (Begin, Step, Deploy).
LEMMA OthersShrinkNothing ==
    ASSUME ClientInv, [Next]_vars, NEW t \in Calls, Awaiting(t), ~Step(t)
    PROVE  Left(call'[t]) = Left(call[t]) \/ Left(call'[t]) = 0
  <1>a. call \in [Calls -> Call]
    BY DEF ClientInv, Shape, TypeOK
  <1>1. CASE call'[t] = call[t]
    BY <1>1
  <1>2. ASSUME NEW u \in Calls, u # t, (\E op \in Operations : Begin(u, op)) \/ Step(u) \/ FailCall(u)
        PROVE  call'[t] = call[t]
    <2>1. PICK r : Become(u, r)
      BY <1>2 DEF Begin, Step, Answered, AnswerDiscovery, StoreDiscovery, CheckDiscovery,
                  AnswerToken, AnswerSync, AnswerJwks, StoreJwks, UseJwks, FailCall
    <2> QED
      BY <1>2, <1>a, <2>1 DEF Become
  <1>3. CASE FailCall(t)
    <2>1. call'[t] = NoCall
      BY <1>3, <1>a DEF FailCall, Become
    <2> QED
      BY <2>1 DEF NoCall, Left, Stage
  <1>4. ASSUME NEW s, Deploy(s)
        PROVE  Left(call'[t]) = Left(call[t])
    <2>1. call'[t] = [call[t] EXCEPT !.missing = @ \cup Unpublished(s)]
      BY <1>4 DEF Deploy
    <2>2. /\ call'[t].step = call[t].step /\ call'[t].verifying = call[t].verifying
          /\ call'[t].refreshed = call[t].refreshed
      BY <1>a, <2>1 DEF Call
    <2> QED
      BY <2>2 DEF Left, Stage, Rounds
  <1>5. \A op \in Operations : ~Begin(t, op)
    BY DEF Begin
  <1> QED
    BY <1>1, <1>2, <1>3, <1>4, <1>5 DEF Next, vars, StartInstance, StopInstance

\* A call takes 18 steps at most, whatever it is answered: each leaves less ahead of
\* it, and nothing but its end changes that.  An unknown kid makes it refresh the key
\* set once; other calls that store documents meanwhile do not set it back.  What
\* CallsEnd needs beyond this is that a waiting call is answered or fails.
THEOREM CallsShrink ==
    Spec => [][\A t \in Calls :
                  /\ Left(call[t]) \in 0 .. 18
                  /\ Awaiting(t) => Left(call'[t]) <= Left(call[t])
                  /\ Step(t) => Left(call'[t]) < Left(call[t])]_vars
  <1> DEFINE Shrink == \A t \in Calls :
                 /\ Left(call[t]) \in 0 .. 18
                 /\ Awaiting(t) => Left(call'[t]) <= Left(call[t])
                 /\ Step(t) => Left(call'[t]) < Left(call[t])
  <1>1. ClientInv /\ [Next]_vars => Shrink
    <2> SUFFICES ASSUME ClientInv, [Next]_vars, NEW t \in Calls
                 PROVE  /\ Left(call[t]) \in 0 .. 18
                        /\ Awaiting(t) => Left(call'[t]) <= Left(call[t])
                        /\ Step(t) => Left(call'[t]) < Left(call[t])
      OBVIOUS
    <2>1. call[t] \in Call /\ call'[t] \in Call
      BY ClientStep DEF ClientInv, Shape, TypeOK
    <2>2. Left(call[t]) \in 0 .. 18 /\ Left(call'[t]) \in 0 .. 18
      BY <2>1, LeftType
    <2> QED
      BY <2>2, StepShrinks, OthersShrinkNothing
  <1> QED
    BY <1>1, ClientInit, ClientStep, PTL DEF Spec

-----------------------------------------------------------------------------
(* The end of a deployment.  That the caches settle on the key that is left is *)
(* a matter of fairness, which TLC checks (RefusalsEnd): what is proved is     *)
(* that nothing unsettles them, and that settled caches refuse nothing.        *)

\* One key is left, it is what is stored, and no call has another answer in hand.
Settled(k) ==
    /\ serving = {k} /\ ~strayed /\ jwks = {k}
    /\ \A t \in Calls : call[t].step = "got_jwks" => call[t].keys = {k}

\* Searching the settled key set refuses no token of its key (Select).
LEMMA SelectSettled ==
    ASSUME NEW k \in Keys, NEW r \in Call, Known(r), r.verifying, r.result # "unknown_key",
           discovery \in Verdicts \cup {None},
           Select(r, {k}).result = "unknown_key"
    PROVE  Select(r, {k}).kid # k
  <1>1. r.kid \notin {k} /\ Select(r, {k}).kid = r.kid
    BY SelectFields
  <1> QED
    BY <1>1

\* Nor does verifying one (Verify).
LEMMA VerifySettled ==
    ASSUME ClientInv, NEW t \in Calls, NEW k \in Keys, AnswerToken(t, k)
    PROVE  call'[t].result # "unknown_key" /\ call'[t].step # "got_jwks"
  <1>1. /\ call[t] \in Call /\ Shaped(call[t]) /\ call \in [Calls -> Call]
        /\ discovery \in Verdicts \cup {None} /\ jwks \in {None} \cup SUBSET Keys
    BY DEF ClientInv, Shape, TypeOK
  <1>2. ~call[t].verifying /\ call[t].result # "unknown_key" /\ call'[t] = Verify(call[t], k)
    BY <1>1 DEF AnswerToken, Become, Shaped, Known
  <1> QED
    BY <1>1, <1>2, VerifyFields DEF Follows

\* A call that begins refuses nothing yet, and has no answer in hand (Begin).
LEMMA BeginSettled ==
    ASSUME ClientInv, NEW t \in Calls, NEW op \in Operations, Begin(t, op)
    PROVE  call'[t].result # "unknown_key" /\ call'[t].step # "got_jwks"
  <1> DEFINE others == {u \in Calls : Awaiting(u)}
             missing == Unpublished(serving) \cup UNION {call[u].missing : u \in others}
             r == [NoCall EXCEPT !.op = op, !.missing = missing]
  <1>a. /\ discovery \in Verdicts \cup {None} /\ jwks \in {None} \cup SUBSET Keys
        /\ call \in [Calls -> Call]
    BY DEF ClientInv, Shape, TypeOK
  <1>1. missing \in SUBSET Keys
    BY <1>a DEF Unpublished, Call
  <1>2. \/ \E k \in Keys : Become(t, Verify(r, k))
        \/ Become(t, Discover(r))
    BY DEF Begin
  <1> HIDE DEF missing
  <1>3. r \in Call
    BY <1>1, NoCallShape DEF Call
  <1>4. r.step = "idle" /\ ~r.verifying /\ ~r.refreshed /\ r.result = "none"
    BY DEF NoCall
  <1> HIDE DEF r
  <1>5. Shaped(r) /\ Known(r)
    BY <1>4 DEF Shaped, Known
  <1>6. PICK s : Follows(r, s) /\ s.result # "unknown_key" /\ Become(t, s)
    BY <1>a, <1>2, <1>3, <1>4, <1>5, VerifyFields, DiscoverFields
  <1>7. call'[t] = s
    BY <1>6, <1>a DEF Become
  <1> QED
    BY <1>6, <1>7 DEF Follows

\* A step of a call leaves the caches settled, and refuses no token of the key (Step,
\* FailCall).
LEMMA StepSettled ==
    ASSUME ClientInv, NEW k \in Keys, Settled(k), NEW t \in Calls, Step(t) \/ FailCall(t),
           ~strayed'
    PROVE  /\ jwks' = {k} /\ ~Refuse(t, k)
           /\ call'[t].step = "got_jwks" => call'[t].keys = {k}
  <1>a. /\ call[t] \in Call /\ Shaped(call[t]) /\ Known(call[t]) /\ call \in [Calls -> Call]
        /\ discovery \in Verdicts \cup {None} /\ jwks = {k}
        /\ call[t].step = "kept_discovery" => discovery # None
    BY DEF ClientInv, Shape, TypeOK, Shaped, Settled
  <1>b. ASSUME NEW s, Become(t, s)
        PROVE  call'[t] = s
    BY <1>a, <1>b DEF Become
  <1>c. Awaiting(t) => call[t].result # "unknown_key"
    BY <1>a DEF Known, Awaiting
  <1>1. ASSUME NEW d \in Documents, AnswerDiscovery(t, d)
        PROVE  /\ jwks' = jwks /\ call'[t].step = "got_discovery"
               /\ call'[t].result # "unknown_key"
    BY <1>1, <1>a, <1>c DEF AnswerDiscovery, Become, Call, Awaiting
  <1>2. ASSUME StoreDiscovery(t)
        PROVE  /\ jwks' = jwks /\ call'[t].step = "kept_discovery"
               /\ call'[t].result # "unknown_key"
    BY <1>2, <1>a, <1>c DEF StoreDiscovery, Become, Call, Awaiting
  <1>3. ASSUME CheckDiscovery(t)
        PROVE  /\ jwks' = jwks /\ call'[t].step # "got_jwks"
               /\ call'[t].result # "unknown_key"
    <2>1. call[t].result # "unknown_key" /\ discovery \in Verdicts /\ jwks' = jwks
      BY <1>3, <1>a, <1>c DEF CheckDiscovery, Awaiting
    <2>2. \/ call'[t] = Done(call[t], "unsupported")
          \/ call'[t] = Discovered(call[t], discovery)
      BY <1>3, <1>b DEF CheckDiscovery
    <2> QED
      BY <1>a, <2>1, <2>2, DoneFields, DiscoveredFields DEF Follows, Known
  <1>4. ASSUME AnswerSync(t)
        PROVE  jwks' = jwks /\ call'[t].step = "done" /\ call'[t].result = "ok"
    BY <1>4, <1>a DEF AnswerSync, Become, Done, Call
  <1>5. ASSUME NEW keys \in {{}} \cup {{h} : h \in Keys}, AnswerJwks(t, keys)
        PROVE  jwks' = jwks /\ call'[t].keys = {k} /\ call'[t].result # "unknown_key"
    <2>1. call[t].used \in Verdicts
      BY <1>5, <1>a DEF AnswerJwks, Known, Call
    <2>2. call[t].used = "conforming"
      BY <2>1 DEF Verdicts, ClientInv, Trusted, Settled
    <2>3. keys = {k}
      BY <1>5, <2>2 DEF AnswerJwks, Settled
    <2> QED
      BY <1>5, <1>a, <1>c, <2>3 DEF AnswerJwks, Become, Call, Awaiting
  <1>6. ASSUME StoreJwks(t)
        PROVE  /\ jwks' = {k} /\ call'[t].step = "kept_jwks"
               /\ call'[t].result # "unknown_key"
    BY <1>6, <1>a, <1>c DEF StoreJwks, Become, Call, Settled, Awaiting
  <1>7. ASSUME UseJwks(t)
        PROVE  /\ jwks' = jwks /\ call'[t].step # "got_jwks"
               /\ call'[t].result = "unknown_key" => call'[t].kid # k
    <2>1. /\ jwks' = jwks /\ call'[t] = Select(call[t], {k})
          /\ call[t].verifying /\ call[t].result # "unknown_key"
      BY <1>7, <1>a, <1>b, <1>c DEF UseJwks, Known, Awaiting
    <2>2. Follows(call[t], Select(call[t], {k}))
      BY <1>a, <2>1, SelectFields
    <2> QED
      BY <1>a, <2>1, <2>2, SelectSettled DEF Follows
  <1>8. ASSUME FailCall(t)
        PROVE  jwks' = jwks /\ call'[t].step = "idle" /\ call'[t].result = "none"
    BY <1>8, <1>a DEF FailCall, Become, NoCall
  <1>9. ASSUME NEW h \in Keys, AnswerToken(t, h)
        PROVE  jwks' = jwks /\ call'[t].step # "got_jwks" /\ call'[t].result # "unknown_key"
    BY <1>9, VerifySettled DEF AnswerToken
  <1> QED
    BY <1>a, <1>1, <1>2, <1>3, <1>4, <1>5, <1>6, <1>7, <1>8, <1>9 DEF Step, Answered, Refuse

\* While one key is left, settled caches stay settled: no late answer, no other call
\* and no failure brings back a key that is gone, and no token of the key is refused.
THEOREM SettledCachesStay ==
    Spec => [][\A k \in Keys :
                  Settled(k) /\ serving' = {k} /\ ~strayed' =>
                      Settled(k)' /\ \A t \in Calls : ~Refuse(t, k)]_vars
  <1> DEFINE Stays == \A k \in Keys :
                 Settled(k) /\ serving' = {k} /\ ~strayed' =>
                     Settled(k)' /\ \A t \in Calls : ~Refuse(t, k)
  <1>1. ClientInv /\ [Next]_vars => [Stays]_vars
    <2> SUFFICES ASSUME ClientInv, Next, NEW k \in Keys, Settled(k), serving' = {k}, ~strayed'
                 PROVE  Settled(k)' /\ \A t \in Calls : ~Refuse(t, k)
      OBVIOUS
    <2>a. call \in [Calls -> Call]
      BY DEF ClientInv, Shape, TypeOK
    <2>1. ASSUME NEW t \in Calls, \A u \in Calls \ {t} : call'[u] = call[u], jwks' = {k},
                 ~Refuse(t, k), call'[t].step = "got_jwks" => call'[t].keys = {k}
          PROVE  Settled(k)' /\ \A u \in Calls : ~Refuse(u, k)
      BY <2>1 DEF Settled, Refuse
    <2>2. ASSUME NEW t \in Calls, NEW op \in Operations, Begin(t, op)
          PROVE  Settled(k)' /\ \A u \in Calls : ~Refuse(u, k)
      <3>1. PICK r : Become(t, r)
        BY <2>2 DEF Begin
      <3>2. (\A u \in Calls \ {t} : call'[u] = call[u]) /\ jwks' = {k}
        BY <2>2, <2>a, <3>1 DEF Become, Begin, Settled
      <3> QED
        BY <2>1, <2>2, <3>2, BeginSettled DEF Refuse
    <2>3. ASSUME NEW t \in Calls, Step(t) \/ FailCall(t)
          PROVE  Settled(k)' /\ \A u \in Calls : ~Refuse(u, k)
      <3>1. PICK r : Become(t, r)
        BY <2>3 DEF Step, Answered, AnswerDiscovery, StoreDiscovery, CheckDiscovery,
                    AnswerToken, AnswerSync, AnswerJwks, StoreJwks, UseJwks, FailCall
      <3>2. \A u \in Calls \ {t} : call'[u] = call[u]
        BY <2>a, <3>1 DEF Become
      <3> QED
        BY <2>1, <2>3, <3>2, StepSettled
    <2>4. \A s : Deploy(s) => serving' = s
      BY DEF Deploy
    <2>5. \A h \in Keys : ~StartInstance(h) /\ ~StopInstance(h)
      BY <2>4 DEF StartInstance, StopInstance, Settled
    <2> QED
      BY <2>2, <2>3, <2>5 DEF Next
  <1> QED
    BY <1>1, ClientInit, ClientStep, PTL DEF Spec
=============================================================================
