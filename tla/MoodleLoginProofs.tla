------------------------- MODULE MoodleLoginProofs -------------------------
(* Theorems of LoginThrottle, how far the limits can be overshot, for any     *)
(* limits and any number of requests, subjects and addresses; and of          *)
(* MoodleLogin for any number of accounts, courses and logins: it implements  *)
(* the throttle, whose bounds it inherits, and a login that runs alone leaves *)
(* what Moodle's whole answer gives.                                          *)
EXTENDS MoodleLogin, FiniteSetTheorems, TLAPS

-----------------------------------------------------------------------------
(* The throttle on its own                                                    *)

USE DEF NoRequest, NoFailure

\* Rows and requests keep their shape.
THEOREM ThrottleTypeCorrect == Spec => []TypeOK
<1>1. Init => TypeOK
  BY ThrottleAssumption DEF Init, TypeOK, Failure, Request, Steps
<1>2. TypeOK /\ [Next]_vars => TypeOK'
  <2> SUFFICES ASSUME TypeOK, [Next]_vars PROVE TypeOK'
    OBVIOUS
  <2> USE DEF TypeOK, Failure, Request, Steps
  <2>1. ASSUME NEW t \in Requests, NEW op \in {"login", "reset"}, NEW s \in Subjects,
               NEW a \in Addresses, Start(t, op, s, a)
        PROVE TypeOK'
    BY <2>1 DEF Start
  <2>2. ASSUME NEW t \in Requests, CountPair(t) PROVE TypeOK'
    <3> DEFINE full == Cardinality(OfPair(request[t].subject, request[t].address)) >= PairLimit
    <3>1. request' = [request EXCEPT ![t].step = "address", ![t].full = full]
      BY <2>2 DEF CountPair
    <3>2. full \in BOOLEAN
      OBVIOUS
    <3>3. request[t] \in Request
      BY <2>2 DEF CountPair
    <3>4. request'[t] \in Request
      <4> HIDE DEF full
      <4>1. request'[t] = [request[t] EXCEPT !.step = "address", !.full = full]
        BY <3>1
      <4> QED
        BY <3>2, <3>3, <4>1
    <3>5. \A u \in Requests \ {t} : request'[u] = request[u]
      BY <3>1
    <3>6. request' \in [Requests -> Request \cup {NoRequest}]
      <4>1. DOMAIN request' = Requests /\ request' = [u \in Requests |-> request'[u]]
        BY <3>1
      <4> QED
        BY <3>4, <3>5, <4>1
    <3> QED
      BY <2>2, <3>6 DEF CountPair
  <2>3. ASSUME NEW t \in Requests, CountAddress(t) PROVE TypeOK'
    <3>1. failure' \in [Slots -> Failure \cup {NoFailure}]
      BY <2>3 DEF CountAddress, Purged
    <3>2. CASE request' = [request EXCEPT ![t] = NoRequest]
      BY <3>1, <3>2
    <3>3. CASE Goto(t, "answer")
      <4>1. request[t] \in Request
        BY <2>3 DEF CountAddress
      <4> QED
        BY <3>1, <3>3, <4>1 DEF Goto
    <3> QED
      BY <2>3, <3>2, <3>3 DEF CountAddress
  <2>4. ASSUME NEW t \in Requests, Answer(t) PROVE TypeOK'
    BY <2>4 DEF Answer, Goto
  <2>5. ASSUME NEW t \in Requests, NEW x \in Slots, Record(t, x) PROVE TypeOK'
    <3>1. request[t].subject \in Subjects /\ request[t].address \in Addresses
      BY <2>5 DEF Record
    <3> QED
      BY <2>5, <3>1 DEF Record
  <2>6. ASSUME NEW t \in Requests, Clear(t) PROVE TypeOK'
    BY <2>6 DEF Clear
  <2>7. ASSUME NEW t \in Requests, Leave(t) PROVE TypeOK'
    BY <2>7 DEF Leave
  <2>8. ASSUME NEW x \in Slots, Age(x) PROVE TypeOK'
    BY <2>8 DEF Age
  <2>9. CASE UNCHANGED vars
    BY <2>9 DEF vars
  <2> QED
    BY <2>1, <2>2, <2>3, <2>4, <2>5, <2>6, <2>7, <2>8, <2>9 DEF Next
<1> QED
  BY <1>1, <1>2, PTL DEF Spec

-----------------------------------------------------------------------------

\* A request that has been admitted had not found its pair full.
AdmittedBelowLimit ==
    \A t \in Requests :
        request[t].step \in {"answer", "record", "clear"} => ~request[t].full

\* Fewer elements on both sides do not add up to more.
LEMMA Shrinking ==
    ASSUME NEW P, NEW Q, NEW P2 \in SUBSET P, NEW Q2 \in SUBSET Q,
           IsFiniteSet(P), IsFiniteSet(Q)
    PROVE  Cardinality(P2) + Cardinality(Q2) <= Cardinality(P) + Cardinality(Q)
<1>1. Cardinality(P2) <= Cardinality(P) /\ Cardinality(P2) \in Nat /\ Cardinality(P) \in Nat
  BY FS_Subset, FS_CardinalityType
<1>2. Cardinality(Q2) <= Cardinality(Q) /\ Cardinality(Q2) \in Nat /\ Cardinality(Q) \in Nat
  BY FS_Subset, FS_CardinalityType
<1> QED
  BY <1>1, <1>2

\* An element that moves from one side to the other leaves the sum as it was.
LEMMA Trading ==
    ASSUME NEW P, NEW Q, NEW x, NEW t \in Q, x \notin P, IsFiniteSet(P), IsFiniteSet(Q)
    PROVE  Cardinality(P \cup {x}) + Cardinality(Q \ {t}) = Cardinality(P) + Cardinality(Q)
<1>1. Cardinality(P \cup {x}) = Cardinality(P) + 1 /\ Cardinality(P) \in Nat
  BY FS_AddElement, FS_CardinalityType
<1>2. Cardinality(Q \ {t}) = Cardinality(Q) - 1 /\ Cardinality(Q) \in Nat
  BY FS_RemoveElement, FS_CardinalityType
<1> QED
  BY <1>1, <1>2

\* The requests of a subset are no more than all of them.
LEMMA InFlight ==
    ASSUME NEW Q \in SUBSET Requests
    PROVE  Cardinality(Q) \in Nat /\ Cardinality(Q) <= Cardinality(Requests)
           /\ Cardinality(Requests) \in Nat
BY FS_Subset, FS_CardinalityType, ThrottleAssumption

\* A request on its way to the provider was not refused for its pair
\* (ensure_allowed).
LEMMA Admission == Spec => []AdmittedBelowLimit
<1>1. Init => AdmittedBelowLimit
  BY DEF Init, AdmittedBelowLimit
<1>2. TypeOK /\ AdmittedBelowLimit /\ [Next]_vars => AdmittedBelowLimit'
  <2> SUFFICES ASSUME TypeOK, AdmittedBelowLimit, [Next]_vars PROVE AdmittedBelowLimit'
    OBVIOUS
  <2> USE DEF TypeOK, AdmittedBelowLimit, Request
  <2>1. CASE UNCHANGED vars
    BY <2>1 DEF vars
  <2>2. CASE \E x \in Slots : Age(x)
    BY <2>2 DEF Age
  <2>3. ASSUME NEW t \in Requests,
               \/ \E op \in {"login", "reset"}, s \in Subjects, a \in Addresses : Start(t, op, s, a)
               \/ \E x \in Slots : Record(t, x)
               \/ Clear(t)
               \/ Leave(t)
               \/ Answer(t)
        PROVE AdmittedBelowLimit'
    <3>1. CASE \E v \in Request \cup {NoRequest} :
                  request' = [request EXCEPT ![t] = v] /\ v.step \in {"idle", "pair"}
      BY <3>1
    <3>2. CASE \E op \in {"login", "reset"}, s \in Subjects, a \in Addresses : Start(t, op, s, a)
      <4>1. PICK op \in {"login", "reset"}, s \in Subjects, a \in Addresses : Start(t, op, s, a)
        BY <3>2
      <4>2. [step |-> "pair", op |-> op, subject |-> s, address |-> a, full |-> FALSE] \in Request
        BY DEF Steps
      <4> QED
        BY <3>1, <4>1, <4>2 DEF Start
    <3>3. CASE (\E x \in Slots : Record(t, x)) \/ Clear(t) \/ Leave(t)
      BY <3>1, <3>3 DEF Record, Clear, Leave
    <3>4. CASE Answer(t)
      <4>1. request[t].step = "answer" /\ \E step : request' = [request EXCEPT ![t].step = step]
        BY <3>4 DEF Answer, Goto
      <4> QED
        BY <4>1
    <3> QED
      BY <2>3, <3>2, <3>3, <3>4
  <2>4. ASSUME NEW t \in Requests, CountPair(t) PROVE AdmittedBelowLimit'
    BY <2>4 DEF CountPair
  <2>5. ASSUME NEW t \in Requests, CountAddress(t) PROVE AdmittedBelowLimit'
    <3>1. CASE request' = [request EXCEPT ![t] = NoRequest]
      BY <3>1
    <3>2. CASE ~request[t].full /\ request' = [request EXCEPT ![t].step = "answer"]
      BY <2>5, <3>2 DEF CountAddress
    <3> QED
      BY <2>5, <3>1, <3>2 DEF CountAddress, Goto
  <2> QED
    BY <2>1, <2>2, <2>3, <2>4, <2>5 DEF Next
<1> QED
  BY <1>1, <1>2, ThrottleTypeCorrect, PTL DEF Spec

-----------------------------------------------------------------------------

\* However many requests race past the count, a pair has fewer recent failures
\* than its limit and the requests in flight together.
THEOREM PairBound == Spec => []PairOvershootIsBounded
<1>1. Init => PairOvershootIsBounded
  <2> SUFFICES ASSUME Init, NEW s \in Subjects, NEW a \in Addresses
               PROVE  Cardinality(OfPair(s, a)) + Cardinality(PassedOfPair(s, a))
                          < PairLimit + Cardinality(Requests)
    BY DEF PairOvershootIsBounded
  <2>1. OfPair(s, a) = {} /\ PassedOfPair(s, a) = {}
    BY DEF Init, OfPair, PassedOfPair
  <2> QED
    BY <2>1, FS_EmptySet, FS_CardinalityType, ThrottleAssumption
<1>2. TypeOK /\ AdmittedBelowLimit /\ PairOvershootIsBounded /\ [Next]_vars
          => PairOvershootIsBounded'
  <2> SUFFICES ASSUME TypeOK, AdmittedBelowLimit, PairOvershootIsBounded, [Next]_vars,
                      NEW s \in Subjects, NEW a \in Addresses
               PROVE  Cardinality(OfPair(s, a)') + Cardinality(PassedOfPair(s, a)')
                          < PairLimit + Cardinality(Requests)
    BY DEF PairOvershootIsBounded
  <2> DEFINE P == OfPair(s, a)  Q == PassedOfPair(s, a)
  <2>1. /\ P \in SUBSET Slots /\ P' \in SUBSET Slots
        /\ Q \in SUBSET Requests /\ Q' \in SUBSET Requests
    BY DEF OfPair, PassedOfPair
  <2>2. IsFiniteSet(P) /\ IsFiniteSet(Q) /\ IsFiniteSet(P') /\ IsFiniteSet(Q')
    BY <2>1, FS_Subset, ThrottleAssumption
  <2>3. /\ Cardinality(P) \in Nat /\ Cardinality(P') \in Nat
        /\ Cardinality(Q) \in Nat /\ Cardinality(Q') \in Nat
        /\ Cardinality(Requests) \in Nat /\ PairLimit \in Nat
    BY <2>2, FS_CardinalityType, ThrottleAssumption
  <2>4. Cardinality(P) + Cardinality(Q) < PairLimit + Cardinality(Requests)
    BY DEF PairOvershootIsBounded
  <2>5. CASE P' \subseteq P /\ Q' \subseteq Q
    BY <2>2, <2>3, <2>4, <2>5, Shrinking
  <2>6. ASSUME NEW t \in Requests, CountPair(t) 
        PROVE  \/ P' \subseteq P /\ Q' \subseteq Q
               \/ P' = P /\ Cardinality(P) < PairLimit
    <3>1. P' = P
      BY <2>6 DEF CountPair, OfPair
    <3>2. CASE request[t].subject = s /\ request[t].address = a /\ ~request'[t].full
      <4>1. ~(Cardinality(P) >= PairLimit)
        BY <2>6, <3>2 DEF CountPair, TypeOK, Request
      <4> QED
        BY <3>1, <4>1, <2>3
    <3>3. CASE ~(request[t].subject = s /\ request[t].address = a /\ ~request'[t].full)
      <4>1. Q' \subseteq Q
        <5>1. PICK full : request' = [request EXCEPT ![t].step = "address", ![t].full = full]
          BY <2>6 DEF CountPair
        <5>2. request[t] \in Request /\ request[t].step = "pair"
          BY <2>6 DEF CountPair, TypeOK
        <5>3. request'[t] = [request[t] EXCEPT !.step = "address", !.full = full]
          BY <5>1 DEF TypeOK
        <5>4. /\ request'[t].subject = request[t].subject
              /\ request'[t].address = request[t].address
          BY <5>2, <5>3 DEF Request
        <5>5. \A u \in Requests \ {t} : request'[u] = request[u]
          BY <5>1 DEF TypeOK
        <5> QED
          BY <3>3, <5>4, <5>5 DEF PassedOfPair
      <4> QED
        BY <3>1, <4>1
    <3> QED
      BY <3>2, <3>3
  <2>7. ASSUME NEW t \in Requests, CountPair(t)
        PROVE  Cardinality(P') + Cardinality(Q') < PairLimit + Cardinality(Requests)
    <3>1. CASE P' = P /\ Cardinality(P) < PairLimit
      BY <2>1, <2>3, <3>1, InFlight
    <3> QED
      BY <2>5, <2>6, <2>7, <3>1
  <2>8. ASSUME NEW t \in Requests, NEW x \in Slots, Record(t, x)
        PROVE  Cardinality(P') + Cardinality(Q') < PairLimit + Cardinality(Requests)
    <3>1. CASE request[t].subject = s /\ request[t].address = a
      <4>1. P' = P \cup {x} /\ x \notin P
        BY <2>8, <3>1 DEF Record, OfPair, TypeOK, NoFailure
      <4>2. Q' = Q \ {t} /\ t \in Q
        BY <2>8, <3>1 DEF Record, PassedOfPair, TypeOK, AdmittedBelowLimit, NoRequest
      <4> QED
        BY <2>2, <2>4, <4>1, <4>2, Trading
    <3>2. CASE ~(request[t].subject = s /\ request[t].address = a)
      <4>1. P' \subseteq P
        BY <2>8, <3>2 DEF Record, OfPair, TypeOK, NoFailure
      <4>2. Q' \subseteq Q
        BY <2>8 DEF Record, PassedOfPair, TypeOK, NoRequest
      <4> QED
        BY <4>1, <4>2, <2>5
    <3> QED
      BY <3>1, <3>2
  <2>9. ASSUME NEW t \in Requests,
               \/ \E op \in {"login", "reset"}, u \in Subjects, b \in Addresses : Start(t, op, u, b)
               \/ CountAddress(t)
               \/ Answer(t)
               \/ Clear(t)
               \/ Leave(t)
        PROVE  P' \subseteq P /\ Q' \subseteq Q
    <3>1. P' \subseteq P
      BY <2>9 DEF Start, CountAddress, Purged, Answer, Clear, Leave, OfPair, TypeOK, NoFailure
    <3>2. Q' \subseteq Q
      <4>1. ASSUME NEW v, request' = [request EXCEPT ![t] = v], v.step \in {"idle", "pair"}
            PROVE  Q' \subseteq Q
        BY <4>1 DEF PassedOfPair, TypeOK
      <4>2. CASE /\ request[t].step \in {"address", "answer"}
                 /\ \E step : request' = [request EXCEPT ![t].step = step]
        BY <4>2 DEF PassedOfPair, TypeOK, Request
      <4>3. CASE \E op \in {"login", "reset"}, u \in Subjects, b \in Addresses : Start(t, op, u, b)
        BY <4>1, <4>3 DEF Start
      <4>4. CASE CountAddress(t)
        <5>1. CASE request' = [request EXCEPT ![t] = NoRequest]
          BY <4>1, <5>1
        <5>2. CASE request' = [request EXCEPT ![t].step = "answer"]
          BY <4>2, <4>4, <5>2 DEF CountAddress
        <5> QED
          BY <4>4, <5>1, <5>2 DEF CountAddress, Goto
      <4>6. CASE Answer(t)
        BY <4>2, <4>6 DEF Answer, Goto
      <4>5. CASE Clear(t) \/ Leave(t)
        BY <4>1, <4>5 DEF Clear, Leave
      <4> QED
        BY <2>9, <4>3, <4>4, <4>5, <4>6
    <3> QED
      BY <3>1, <3>2
  <2>10. ASSUME NEW x \in Slots, Age(x) PROVE P' \subseteq P /\ Q' \subseteq Q
    BY <2>10 DEF Age, OfPair, PassedOfPair, TypeOK
  <2>11. CASE UNCHANGED vars
    BY <2>11, <2>5 DEF vars, OfPair, PassedOfPair
  <2> QED
    BY <2>5, <2>7, <2>8, <2>9, <2>10, <2>11 DEF Next
<1> QED
  BY <1>1, <1>2, ThrottleTypeCorrect, Admission, PTL DEF Spec

\* The same for an address: what counts is who was admitted to the provider.
THEOREM AddressBound == Spec => []AddressOvershootIsBounded
<1>1. Init => AddressOvershootIsBounded
  <2> SUFFICES ASSUME Init, NEW a \in Addresses
               PROVE  Cardinality(OfAddress(a)) + Cardinality(PassedOfAddress(a))
                          < IpLimit + Cardinality(Requests)
    BY DEF AddressOvershootIsBounded
  <2>1. OfAddress(a) = {} /\ PassedOfAddress(a) = {}
    BY DEF Init, OfAddress, PassedOfAddress
  <2> QED
    BY <2>1, FS_EmptySet, FS_CardinalityType, ThrottleAssumption
<1>2. TypeOK /\ AddressOvershootIsBounded /\ [Next]_vars => AddressOvershootIsBounded'
  <2> SUFFICES ASSUME TypeOK, AddressOvershootIsBounded, [Next]_vars, NEW a \in Addresses
               PROVE  Cardinality(OfAddress(a)') + Cardinality(PassedOfAddress(a)')
                          < IpLimit + Cardinality(Requests)
    BY DEF AddressOvershootIsBounded
  <2> DEFINE P == OfAddress(a)  Q == PassedOfAddress(a)
  <2>1. /\ P \in SUBSET Slots /\ P' \in SUBSET Slots
        /\ Q \in SUBSET Requests /\ Q' \in SUBSET Requests
    BY DEF OfAddress, PassedOfAddress
  <2>2. IsFiniteSet(P) /\ IsFiniteSet(Q) /\ IsFiniteSet(P') /\ IsFiniteSet(Q')
    BY <2>1, FS_Subset, ThrottleAssumption
  <2>3. /\ Cardinality(P) \in Nat /\ Cardinality(P') \in Nat
        /\ Cardinality(Q) \in Nat /\ Cardinality(Q') \in Nat
        /\ Cardinality(Requests) \in Nat /\ IpLimit \in Nat
    BY <2>2, FS_CardinalityType, ThrottleAssumption
  <2>4. Cardinality(P) + Cardinality(Q) < IpLimit + Cardinality(Requests)
    BY DEF AddressOvershootIsBounded
  <2>5. CASE P' \subseteq P /\ Q' \subseteq Q
    BY <2>2, <2>3, <2>4, <2>5, Shrinking
  <2>6. ASSUME NEW t \in Requests, NEW v, request' = [request EXCEPT ![t] = v],
               v.step \in {"idle", "pair"}
        PROVE  Q' \subseteq Q
    BY <2>6 DEF PassedOfAddress, TypeOK
  <2>7. ASSUME NEW t \in Requests, CountAddress(t)
        PROVE  Cardinality(P') + Cardinality(Q') < IpLimit + Cardinality(Requests)
    <3>1. P' \subseteq P
      BY <2>7 DEF CountAddress, Purged, OfAddress, TypeOK, NoFailure
    <3>2. CASE request' = [request EXCEPT ![t] = NoRequest]
      BY <2>5, <2>6, <3>1, <3>2
    <3>3. CASE ~(Cardinality(OfAddress(request[t].address)) >= IpLimit) /\ Goto(t, "answer")
      <4>1. request[t] \in Request
        BY <2>7 DEF CountAddress, TypeOK
      <4>2. CASE request[t].address = a
        <5>1. Cardinality(P') <= Cardinality(P) /\ Cardinality(P) < IpLimit
          BY <2>2, <2>3, <3>1, <3>3, <4>2, FS_Subset
        <5> QED
          BY <2>1, <2>3, <5>1, InFlight
      <4>3. CASE request[t].address # a
        <5>1. Q' \subseteq Q
          BY <3>3, <4>1, <4>3 DEF Goto, PassedOfAddress, TypeOK, Request
        <5> QED
          BY <2>5, <3>1, <5>1
      <4> QED
        BY <4>2, <4>3
    <3> QED
      BY <2>7, <3>2, <3>3 DEF CountAddress
  <2>8. ASSUME NEW t \in Requests, NEW x \in Slots, Record(t, x)
        PROVE  Cardinality(P') + Cardinality(Q') < IpLimit + Cardinality(Requests)
    <3>1. CASE request[t].address = a
      <4>1. P' = P \cup {x} /\ x \notin P
        BY <2>8, <3>1 DEF Record, OfAddress, TypeOK, NoFailure
      <4>2. Q' = Q \ {t} /\ t \in Q
        BY <2>8, <3>1 DEF Record, PassedOfAddress, TypeOK, NoRequest
      <4> QED
        BY <2>2, <2>4, <4>1, <4>2, Trading
    <3>2. CASE request[t].address # a
      <4>1. P' \subseteq P
        BY <2>8, <3>2 DEF Record, OfAddress, TypeOK, NoFailure
      <4>2. Q' \subseteq Q
        BY <2>6, <2>8 DEF Record
      <4> QED
        BY <4>1, <4>2, <2>5
    <3> QED
      BY <3>1, <3>2
  <2>9. ASSUME NEW t \in Requests,
               \/ \E op \in {"login", "reset"}, u \in Subjects, b \in Addresses : Start(t, op, u, b)
               \/ CountPair(t)
               \/ Answer(t)
               \/ Clear(t)
               \/ Leave(t)
        PROVE  P' \subseteq P /\ Q' \subseteq Q
    <3>1. P' \subseteq P
      BY <2>9 DEF Start, CountPair, Answer, Clear, Leave, OfAddress, TypeOK, NoFailure
    <3>2. CASE \E op \in {"login", "reset"}, u \in Subjects, b \in Addresses : Start(t, op, u, b)
      BY <2>6, <3>1, <3>2 DEF Start
    <3>3. CASE Clear(t) \/ Leave(t)
      BY <2>6, <3>1, <3>3 DEF Clear, Leave
    <3>4. CASE Answer(t)
      <4>1. request[t] \in Request /\ request[t].step = "answer"
        BY <3>4 DEF Answer, TypeOK
      <4> QED
        BY <3>1, <3>4, <4>1 DEF Answer, Goto, PassedOfAddress, TypeOK, Request
    <3>5. CASE CountPair(t)
      <4>1. PICK full : request' = [request EXCEPT ![t].step = "address", ![t].full = full]
        BY <3>5 DEF CountPair
      <4>2. request[t] \in Request
        BY <3>5 DEF CountPair, TypeOK
      <4>3. request'[t] = [request[t] EXCEPT !.step = "address", !.full = full]
        BY <4>1 DEF TypeOK
      <4>4. request'[t].step = "address"
        BY <4>2, <4>3 DEF Request
      <4> QED
        BY <3>1, <4>1, <4>4 DEF PassedOfAddress, TypeOK
    <3> QED
      BY <2>9, <3>2, <3>3, <3>4, <3>5
  <2>10. ASSUME NEW x \in Slots, Age(x) PROVE P' \subseteq P /\ Q' \subseteq Q
    BY <2>10 DEF Age, OfAddress, PassedOfAddress, TypeOK
  <2>11. CASE UNCHANGED vars
    BY <2>11, <2>5 DEF vars, OfAddress, PassedOfAddress
  <2> QED
    BY <2>5, <2>7, <2>8, <2>9, <2>10, <2>11 DEF Next
<1> QED
  BY <1>1, <1>2, ThrottleTypeCorrect, PTL DEF Spec

HIDE DEF NoRequest, NoFailure

-----------------------------------------------------------------------------
(* The throttle within a login                                                *)

\* A step of a login is a step of the throttle, or leaves it alone.
LEMMA ThrottleSimulation == [MoodleNext]_moodleVars => [Next]_vars
  <1> SUFFICES ASSUME [MoodleNext]_moodleVars
               PROVE  [Next]_vars
    OBVIOUS
  <1>1. CASE UNCHANGED moodleVars
    BY <1>1 DEF moodleVars
  <1>2. ASSUME NEW t \in Requests, Throttle(t)
        PROVE  Next
    BY <1>2 DEF Throttle, AnswerLogin, ClearLogin, Next
  <1>3. ASSUME NEW t \in Requests, MoodleStep(t)
        PROVE  [Next]_vars
    BY <1>3 DEF MoodleStep, Token, ListCourses, ReadCourse, Resolve, SyncRole, DropClan, FindClan,
                StoreClan, LeaveLogin, Next
  <1>4. ASSUME NEW x \in Slots, Age(x)
        PROVE  Next
    BY <1>4 DEF Next
  <1>5. ASSUME NEW a \in Accounts, NEW c \in Courses, NEW e \in Enrolments \cup {None},
               Enrol(a, c, e)
        PROVE  UNCHANGED vars
    BY <1>5 DEF Enrol
  <1> QED
    BY <1>1, <1>2, <1>3, <1>4, <1>5 DEF MoodleNext

\* Logins with all that they ask of Moodle and store implement the throttle.
THEOREM LoginsImplementThrottle == MoodleSpec => Spec
  <1>1. MoodleInit => Init
    BY DEF MoodleInit
  <1> QED
    BY <1>1, ThrottleSimulation, PTL DEF MoodleSpec, Spec

\* The bound of a pair holds of logins (PairOvershootIsBounded).
THEOREM LoginPairBound == MoodleSpec => []PairOvershootIsBounded
  BY LoginsImplementThrottle, PairBound, PTL

\* The bound of an address holds of logins (AddressOvershootIsBounded).
THEOREM LoginAddressBound == MoodleSpec => []AddressOvershootIsBounded
  BY LoginsImplementThrottle, AddressBound, PTL

-----------------------------------------------------------------------------
(* What a login knows.  Fits says of a login r what its step promises: that   *)
(* its answers are those of the enrolment, while that is steady, and that     *)
(* what it has stored or found is still there, while it is alone.             *)

Late == {"resolved", "role", "clan", "store"}

\* The courses, roles and groups of an account that Moodle has enrolled as in E.
CoursesIn(E) == {c \in Courses : E[c] # None}

RolesIn(E, C) == UNION {E[c].roles : c \in C}

GroupsIn(E, C) == UNION {GroupsOf(E[c]) : c \in C}

\* r has the answers of every course of E but those it waits for.
Knows(r, E) ==
    /\ r.pending \subseteq CoursesIn(E)
    /\ r.roles = RolesIn(E, CoursesIn(E) \ r.pending)
    /\ r.groups = GroupsIn(E, CoursesIn(E) \ r.pending)

\* What a login knows is of the enrolment, if that stays, and of the rows, if alone.
Fits(r) ==
    /\ r.step = "idle" <=> r.account = None
    /\ r.alone => r.account # None
    /\ r.step \in Late => r.pending = {}
    /\ r.steady /\ r.step \in Late \cup {"access"} => Knows(r, enrolment[r.account])
    /\ r.step \in {"idle", "courses"} => r.roles = {} /\ r.groups = {}
    /\ r.step = "store" => MappedRole(r.roles) = "coder"
    /\ r.alone /\ r.step \in {"clan", "store"} => role[r.account] = MappedRole(r.roles)
    /\ r.alone /\ r.step = "store" => r.found = clan[r.account]

\* What Moodle has, what is stored of it, and the logins.
LoginTypes ==
    /\ enrolment \in [Accounts -> [Courses -> Enrolments \cup {None}]]
    /\ role \in [Accounts -> GlobalRoles \cup {None}]
    /\ clan \in [Accounts -> Clan \cup {None}]
    /\ raced \in SUBSET Accounts
    /\ login \in [Requests -> Login]

\* A login that is alone is the only one of its account.
Lone ==
    \A t, u \in Requests :
        t # u /\ login[t].alone => login[t].account # login[u].account

\* The inductive invariant of the logins.
LoginInv ==
    /\ LoginTypes
    /\ \A t \in Requests : Fits(login[t])
    /\ Lone
    /\ ClanIsWholeUnlessRaced

\* None is no account.
LEMMA NoneIsNoAccount == None \notin Accounts
  BY ThrottleAssumption, MoodleAssumption

\* The record of a request without a login fits.
LEMMA NoLoginFits == NoLogin \in Login /\ Fits(NoLogin)
  BY DEF NoLogin, Login, Fits, Late

\* mapped_orbita_role gives a global role or none.
LEMMA MappedRoleType == \A R : MappedRole(R) \in GlobalRoles \cup {None}
  BY DEF MappedRole, GlobalRoles

\* resolve_moodle_clan gives a value with the status "synced" and only with it.
LEMMA ResolvedClanIsWhole ==
    ASSUME NEW G \in SUBSET Clans
    PROVE  /\ ResolvedClan(G) \in Clan
           /\ ResolvedClan(G).value # None <=> ResolvedClan(G).status = "synced"
  <1>1. CASE Cardinality(G) = 1
    <2>1. G # {}
      BY <1>1, FS_EmptySet
    <2>2. PICK g \in G : g = CHOOSE h \in G : TRUE
      BY <2>1
    <2>3. ResolvedClan(G) = [value |-> g, status |-> "synced"]
      BY <1>1, <2>2 DEF ResolvedClan
    <2> QED
      BY <2>3, MoodleAssumption DEF Clan
  <1>2. CASE Cardinality(G) # 1
    BY <1>2 DEF ResolvedClan, Clan
  <1> QED
    BY <1>1, <1>2

\* An update of a row as it was loaded writes the whole of it (sync_moodle_clan).
LEMMA UpdateOfFound ==
    ASSUME NEW row \in Clan \cup {None}, NEW new \in Clan
    PROVE  Updated(row, row, new) = new
  BY DEF Updated, Clan

\* Enrolments are of roles and groups that Moodle has.
LEMMA EnrolmentType ==
    ASSUME LoginTypes, NEW a \in Accounts, NEW c \in EnrolledIn(a)
    PROVE  /\ enrolment[a][c].roles \in SUBSET MoodleRoles
           /\ GroupsOf(enrolment[a][c]) \in SUBSET Clans
  BY MoodleAssumption DEF LoginTypes, EnrolledIn, GroupsOf

-----------------------------------------------------------------------------
(* One step, one login: what becomes of the others                            *)

\* A login becomes r, and stores at most for its own account.
LEMMA OneLogin ==
    ASSUME LoginTypes, \A t \in Requests : Fits(login[t]), Lone,
           NEW t \in Requests, NEW r \in Login,
           login' = [login EXCEPT ![t] = r], UNCHANGED enrolment,
           r = NoLogin \/ (r.account = login[t].account /\ r.alone = login[t].alone),
           \A b \in Accounts : b # login[t].account => role'[b] = role[b] /\ clan'[b] = clan[b],
           Fits(r)'
    PROVE  (\A u \in Requests : Fits(login[u]))' /\ Lone'
  <1>1. login'[t] = r /\ \A u \in Requests \ {t} : login'[u] = login[u]
    BY DEF LoginTypes
  <1>2. ASSUME NEW u \in Requests \ {t}
        PROVE  Fits(login[u])'
    <2>1. Fits(login[u]) /\ login[u] \in Login /\ login'[u] = login[u]
      BY <1>1 DEF LoginTypes
    <2>2. ASSUME login[u].alone, login[u].step \in {"clan", "store"}
          PROVE  role'[login[u].account] = role[login[u].account]
                 /\ clan'[login[u].account] = clan[login[u].account]
      BY <2>1, <2>2 DEF Lone, Fits, Login
    <2> QED
      BY <2>1, <2>2 DEF Fits
  <1>3. Lone'
    <2>1. \A u \in Requests \ {t} :
              /\ login[u].alone => login[u].account # None
              /\ login[u].alone => login[u].account # login[t].account
              /\ login[t].alone => login[t].account # login[u].account
      BY DEF Lone, Fits
    <2>2. r = NoLogin => ~r.alone /\ r.account = None
      BY DEF NoLogin
    <2>3. \A u \in Requests \ {t} :
              /\ login[u].alone => login[u].account # r.account
              /\ r.alone => r.account # login[u].account
      BY <2>1, <2>2
    <2> QED
      BY <1>1, <2>3 DEF Lone
  <1> QED
    BY <1>1, <1>2, <1>3

\* A login whose steps say nothing new of its account keeps what it knows.
LEMMA NextStep ==
    ASSUME LoginInv, NEW t \in Requests, NEW r \in Login,
           login' = [login EXCEPT ![t] = r],
           r = NoLogin \/ (r.account = login[t].account /\ r.alone = login[t].alone),
           UNCHANGED <<enrolment, role, clan, raced>>, Fits(r)
    PROVE  LoginInv'
  <1>1. LoginTypes'
    BY DEF LoginInv, LoginTypes
  <1>2. Fits(r)'
    BY DEF Fits
  <1>3. (\A u \in Requests : Fits(login[u]))' /\ Lone'
    BY <1>2, OneLogin DEF LoginInv
  <1>4. ClanIsWholeUnlessRaced'
    BY DEF LoginInv, ClanIsWholeUnlessRaced
  <1> QED
    BY <1>1, <1>3, <1>4 DEF LoginInv

\* A login begins: those it runs beside are no longer alone (Token).
LEMMA TokenStep ==
    ASSUME LoginInv, request \in [Requests -> Request \cup {NoRequest}],
           NEW t \in Requests, Token(t)
    PROVE  LoginInv'
  <1> DEFINE s == request[t].subject
             r == [NoLogin EXCEPT !.step = "courses", !.account = s, !.alone = Beside(t) = {}]
  <1>0. s \in Accounts /\ s # None
    BY NoneIsNoAccount DEF Token
  <1>1. r \in Login /\ Fits(r)
    BY <1>0 DEF Login, NoLogin, Fits, Late
  <1>2. /\ login'[t] = r
        /\ \A u \in Beside(t) : login'[u] = [login[u] EXCEPT !.alone = FALSE]
        /\ \A u \in Requests \ {t} : u \notin Beside(t) => login'[u] = login[u]
        /\ login' = [u \in Requests |-> login'[u]]
    BY DEF Token, Beside
  <1>3. UNCHANGED <<enrolment, role, clan, raced>>
    BY DEF Token
  <1>4. \A u \in Requests : login[u] \in Login /\ Fits(login[u])
    BY DEF LoginInv, LoginTypes
  <1>5. ASSUME NEW u \in Beside(t)
        PROVE  /\ login'[u] \in Login /\ Fits(login'[u]) /\ ~login'[u].alone
               /\ login'[u].account = login[u].account
    <2>1. login'[u] = [login[u] EXCEPT !.alone = FALSE] /\ login[u] \in Login /\ Fits(login[u])
      BY <1>2, <1>4 DEF Beside
    <2>2. /\ login'[u] \in Login /\ ~login'[u].alone
          /\ login'[u].step = login[u].step /\ login'[u].account = login[u].account
          /\ login'[u].pending = login[u].pending /\ login'[u].roles = login[u].roles
          /\ login'[u].groups = login[u].groups /\ login'[u].steady = login[u].steady
      BY <2>1 DEF Login
    <2> QED
      BY <2>1, <2>2 DEF Fits, Knows
  <1> HIDE DEF r
  <1>6. \A u \in Requests : login'[u] \in Login /\ Fits(login'[u])
    BY <1>1, <1>2, <1>4, <1>5
  <1>7. LoginTypes'
    BY <1>2, <1>3, <1>6 DEF LoginInv, LoginTypes
  <1>8. (\A u \in Requests : Fits(login[u]))'
    BY <1>3, <1>6 DEF Fits
  <1>9. Lone'
    <2>1. r.account = s /\ (r.alone <=> Beside(t) = {})
      BY DEF r, NoLogin
    <2> QED
      BY <1>2, <1>5, <2>1 DEF LoginInv, Lone, Beside
  <1>10. ClanIsWholeUnlessRaced'
    BY <1>3 DEF LoginInv, ClanIsWholeUnlessRaced
  <1> QED
    BY <1>7, <1>8, <1>9, <1>10 DEF LoginInv

\* The enrolment changes: what was read of the account is no longer steady (Enrol).
LEMMA EnrolStep ==
    ASSUME LoginInv, NEW a \in Accounts, NEW c \in Courses, NEW e \in Enrolments \cup {None},
           Enrol(a, c, e)
    PROVE  LoginInv'
  <1>1. UNCHANGED <<role, clan, raced>>
    BY DEF Enrol
  <1>2. /\ enrolment' \in [Accounts -> [Courses -> Enrolments \cup {None}]]
        /\ \A b \in Accounts \ {a} : enrolment'[b] = enrolment[b]
    BY DEF Enrol, LoginInv, LoginTypes
  <1>3. \A t \in Requests :
            /\ login'[t] = IF login[t].account = a THEN [login[t] EXCEPT !.steady = FALSE]
                           ELSE login[t]
            /\ login[t] \in Login /\ Fits(login[t])
    BY DEF Enrol, LoginInv, LoginTypes
  <1>4. \A t \in Requests :
            /\ login'[t] \in Login
            /\ login'[t].account = login[t].account
            /\ login'[t].alone = login[t].alone
    <2> SUFFICES ASSUME NEW t \in Requests
                 PROVE  /\ login'[t] \in Login
                        /\ login'[t].account = login[t].account
                        /\ login'[t].alone = login[t].alone
      OBVIOUS
    <2>1. login[t] \in Login
      BY <1>3
    <2>2. CASE login'[t] = [login[t] EXCEPT !.steady = FALSE]
      BY <2>1, <2>2 DEF Login
    <2>3. CASE login'[t] = login[t]
      BY <2>1, <2>3
    <2> QED
      BY <1>3, <2>2, <2>3
  <1>5. LoginTypes'
    BY <1>1, <1>2, <1>4 DEF LoginInv, LoginTypes, Enrol
  <1>6. ASSUME NEW t \in Requests
        PROVE  Fits(login[t])'
    <2>1. CASE login[t].account = a
      <3>1. login'[t] = [login[t] EXCEPT !.steady = FALSE]
        BY <1>3, <2>1
      <3>2. /\ ~login'[t].steady
            /\ login'[t].step = login[t].step /\ login'[t].account = login[t].account
            /\ login'[t].pending = login[t].pending /\ login'[t].roles = login[t].roles
            /\ login'[t].groups = login[t].groups /\ login'[t].found = login[t].found
            /\ login'[t].alone = login[t].alone
        BY <1>3, <3>1 DEF Login
      <3> QED
        BY <1>1, <1>3, <3>2 DEF Fits, Knows
    <2>2. CASE login[t].account # a
      <3>1. login'[t] = login[t] /\ login[t].account \in Accounts \cup {None}
        BY <1>3, <2>2 DEF Login
      <3>2. CASE login[t].account \in Accounts
        <4>1. enrolment'[login[t].account] = enrolment[login[t].account]
          BY <1>2, <2>2, <3>2
        <4> QED
          BY <1>1, <1>3, <3>1, <4>1 DEF Fits
      <3>3. CASE login[t].account = None
        BY <1>1, <1>3, <3>1, <3>3 DEF Fits, Late
      <3> QED
        BY <3>1, <3>2, <3>3
    <2> QED
      BY <2>1, <2>2
  <1>7. Lone'
    BY <1>4 DEF LoginInv, Lone
  <1>8. ClanIsWholeUnlessRaced'
    BY <1>1 DEF LoginInv, ClanIsWholeUnlessRaced
  <1> QED
    BY <1>5, <1>6, <1>7, <1>8 DEF LoginInv

\* A request and its login go together: a login begins when its request is at
\* "answer" and stores when that is over.
Coupled ==
    \A t \in Requests : LoggingIn(t) =>
        \/ request[t].step = "idle" /\ login[t].step \in {"role", "clan", "store"}
        \/ /\ request[t].step = "answer"
           /\ request[t].subject \in Accounts
           /\ login[t].step \in {"courses", "access", "resolved"}
        \/ request[t].step = "clear" /\ login[t].step = "resolved"

\* No step takes a login and its request in the throttle apart (AnswerLogin,
\* ClearLogin, MoodleStep).
LEMMA CoupledStep ==
    ASSUME TypeOK, LoginTypes, Coupled, [MoodleNext]_moodleVars
    PROVE  Coupled'
  <1> USE DEF TypeOK, LoginTypes
  <1>1. ASSUME NEW t \in Requests,
               \A u \in Requests \ {t} :
                   /\ LoggingIn(u)' => LoggingIn(u)
                   /\ request'[u] = request[u] /\ login'[u].step = login[u].step,
               LoggingIn(t)' =>
                   \/ request'[t].step = "idle" /\ login'[t].step \in {"role", "clan", "store"}
                   \/ /\ request'[t].step = "answer"
                      /\ request'[t].subject \in Accounts
                      /\ login'[t].step \in {"courses", "access", "resolved"}
                   \/ request'[t].step = "clear" /\ login'[t].step = "resolved"
        PROVE  Coupled'
    BY <1>1 DEF Coupled, LoggingIn
  <1>2. ASSUME NEW t \in Requests, Throttle(t) \/ MoodleStep(t)
        PROVE  Coupled'
    <2>1. \A u \in Requests \ {t} :
              /\ LoggingIn(u)' => LoggingIn(u)
              /\ request'[u] = request[u] /\ login'[u].step = login[u].step
      <3>1. CASE Throttle(t)
        BY <3>1 DEF Throttle, AnswerLogin, ClearLogin, Start, CountPair, CountAddress, Record,
                    Answer, Clear, Goto, LoggingIn
      <3>2. CASE Token(t)
        BY <3>2 DEF Token, vars, LoggingIn, Login
      <3>3. CASE MoodleStep(t) /\ ~Token(t)
        BY <3>3 DEF MoodleStep, vars, ListCourses, ReadCourse, Resolve, SyncRole, DropClan,
                    FindClan, StoreClan, LeaveLogin, EndLogin, Leave, LoggingIn
      <3> QED
        BY <1>2, <3>1, <3>2, <3>3
    <2>2. LoggingIn(t)' =>
                   \/ request'[t].step = "idle" /\ login'[t].step \in {"role", "clan", "store"}
                   \/ /\ request'[t].step = "answer"
                      /\ request'[t].subject \in Accounts
                      /\ login'[t].step \in {"courses", "access", "resolved"}
                   \/ request'[t].step = "clear" /\ login'[t].step = "resolved"
      <3>1. CASE AnswerLogin(t)
        <4>1. /\ request[t].step = "answer" /\ login' = login
              /\ request'[t].step = "clear" /\ request[t].subject \in Accounts =>
                     login[t].step = "resolved"
              /\ request'[t].step = "record" => ~LoggingIn(t)
          BY <3>1 DEF AnswerLogin, Answer
        <4>2. PICK s \in {"record", "clear"} : request' = [request EXCEPT ![t].step = s]
          BY <3>1 DEF AnswerLogin, Answer, Goto
        <4>3. request'[t] = [request[t] EXCEPT !.step = s]
          BY <4>2
        <4>4. request'[t].step = s
          BY <4>3 DEF Request, NoRequest
        <4>5. LoggingIn(t) => request[t].subject \in Accounts
          BY <4>1 DEF Coupled
        <4> QED
          BY <4>1, <4>4, <4>5 DEF LoggingIn
      <3>2. CASE ClearLogin(t)
        <4>1. request'[t] = NoRequest
          BY <3>2 DEF ClearLogin, Clear
        <4>2. CASE LoggingIn(t)
          <5>1. login'[t] = [login[t] EXCEPT !.step = "role"]
            BY <3>2, <4>2 DEF ClearLogin
          <5>2. login'[t].step = "role"
            BY <5>1 DEF Login
          <5> QED
            BY <4>1, <5>2 DEF NoRequest
        <4>3. CASE ~LoggingIn(t)
          BY <3>2, <4>3 DEF ClearLogin, LoggingIn
        <4> QED
          BY <4>2, <4>3
      <3>3. CASE Throttle(t) /\ ~AnswerLogin(t) /\ ~ClearLogin(t)
        BY <3>3 DEF Throttle, Start, CountPair, CountAddress, Record, Goto, LoggingIn, Coupled
      <3>4. CASE Token(t)
        BY <3>4 DEF Token, vars, NoLogin
      <3>5. CASE MoodleStep(t) /\ ~Token(t)
        <4>1. CASE DropClan(t) \/ StoreClan(t) \/ LeaveLogin(t)
          <5>1. login'[t] = NoLogin
            BY <4>1 DEF DropClan, StoreClan, LeaveLogin, EndLogin
          <5> QED
            BY <5>1 DEF NoLogin, LoggingIn
        <4>2. ASSUME NEW c \in Courses, ReadCourse(t, c)
              PROVE  login'[t].step = login[t].step /\ UNCHANGED request
          <5>1. PICK P, R, G : login'[t] = [login[t] EXCEPT !.pending = P, !.roles = R, !.groups = G]
            BY <4>2 DEF ReadCourse
          <5> QED
            BY <4>2, <5>1 DEF ReadCourse, vars, Login
        <4>3. CASE ListCourses(t)
          <5>1. login'[t] = [login[t] EXCEPT !.step = "access", !.steady = TRUE,
                                             !.pending = EnrolledIn(login[t].account)]
            BY <4>3 DEF ListCourses
          <5>2. login'[t].step = "access"
            BY <5>1 DEF Login
          <5> QED
            BY <4>3, <5>2 DEF ListCourses, vars, LoggingIn, Coupled
        <4>4. CASE Resolve(t)
          <5>1. login'[t] = [login[t] EXCEPT !.step = "resolved"]
            BY <4>4 DEF Resolve
          <5>2. login'[t].step = "resolved"
            BY <5>1 DEF Login
          <5> QED
            BY <4>4, <5>2 DEF Resolve, vars, LoggingIn, Coupled
        <4>5. CASE SyncRole(t)
          <5>1. login'[t] = [login[t] EXCEPT !.step = "clan"]
            BY <4>5 DEF SyncRole
          <5>2. login'[t].step = "clan"
            BY <5>1 DEF Login
          <5> QED
            BY <4>5, <5>2 DEF SyncRole, vars, LoggingIn, Coupled
        <4>6. CASE FindClan(t)
          <5>1. login'[t] = [login[t] EXCEPT !.step = "store", !.found = clan[login[t].account]]
            BY <4>6 DEF FindClan
          <5>2. login'[t].step = "store"
            BY <5>1 DEF Login
          <5> QED
            BY <4>6, <5>2 DEF FindClan, vars, LoggingIn, Coupled
        <4> QED
          BY <3>5, <4>1, <4>2, <4>3, <4>4, <4>5, <4>6 DEF MoodleStep, LoggingIn, Coupled
      <3> QED
        BY <1>2, <3>1, <3>2, <3>3, <3>4, <3>5
    <2> QED
      BY <1>1, <2>1, <2>2
  <1>3. ASSUME UNCHANGED <<request, login>>
        PROVE  Coupled'
    BY <1>3 DEF Coupled, LoggingIn
  <1>4. ASSUME NEW a \in Accounts, NEW c \in Courses, NEW e \in Enrolments \cup {None},
               Enrol(a, c, e)
        PROVE  Coupled'
    <2>1. UNCHANGED request /\ \A t \in Requests : login'[t].step = login[t].step
      BY <1>4 DEF Enrol, vars, Login
    <2> QED
      BY <2>1 DEF Coupled, LoggingIn
  <1> QED
    BY <1>2, <1>3, <1>4 DEF MoodleNext, Age, moodleVars, vars

\* Every step of a login keeps what is known of it (MoodleStep, ClearLogin).
LEMMA LoginStep ==
    ASSUME LoginInv, Coupled, NEW t \in Requests, MoodleStep(t) \/ ClearLogin(t), ~Token(t)
    PROVE  LoginInv'
  <1> DEFINE l == login[t]
             a == login[t].account
  <1>0. /\ l \in Login /\ Fits(l)
        /\ LoggingIn(t) => a \in Accounts
    BY DEF LoginInv, LoginTypes, Fits, LoggingIn, Login
  <1>1. CASE ListCourses(t)
    <2> DEFINE r == [l EXCEPT !.step = "access", !.steady = TRUE, !.pending = EnrolledIn(a)]
    <2>1. /\ r \in Login /\ r.account = a /\ r.alone = l.alone
          /\ r.step = "access" /\ r.pending = EnrolledIn(a) /\ r.roles = l.roles /\ r.groups = l.groups
      BY <1>0 DEF Login, EnrolledIn
    <2>2. l.roles = {} /\ l.groups = {} /\ a \in Accounts
      BY <1>0, <1>1 DEF ListCourses, Fits, LoggingIn
    <2>3. EnrolledIn(a) = CoursesIn(enrolment[a])
      BY DEF EnrolledIn, CoursesIn
    <2>4. Knows(r, enrolment[a])
      BY <2>1, <2>2, <2>3 DEF Knows, RolesIn, GroupsIn
    <2>5. Fits(r)
      BY <1>0, <2>1, <2>2, <2>4, NoneIsNoAccount DEF Fits, Late
    <2>6. login' = [login EXCEPT ![t] = r] /\ UNCHANGED <<enrolment, role, clan, raced>>
      BY <1>1 DEF ListCourses, LoginInv, LoginTypes
    <2> HIDE DEF r
    <2> QED
      BY <2>1, <2>5, <2>6, NextStep
  <1>2. ASSUME NEW c \in Courses, ReadCourse(t, c)
        PROVE  LoginInv'
    <2> DEFINE e == enrolment[a][c]
               r == [l EXCEPT !.pending = @ \ {c}, !.roles = @ \cup e.roles,
                              !.groups = @ \cup GroupsOf(e)]
    <2>1. a \in Accounts /\ c \in l.pending /\ c \in EnrolledIn(a) /\ l.step = "access"
      BY <1>0, <1>2 DEF ReadCourse, LoggingIn, EnrolledIn
    <2>2. e.roles \in SUBSET MoodleRoles /\ GroupsOf(e) \in SUBSET Clans
      BY <2>1, EnrolmentType DEF LoginInv
    <2> HIDE DEF e
    <2>3. /\ r \in Login /\ r.account = a /\ r.alone = l.alone /\ r.steady = l.steady
          /\ r.step = "access" /\ r.pending = l.pending \ {c}
          /\ r.roles = l.roles \cup e.roles /\ r.groups = l.groups \cup GroupsOf(e)
      BY <1>0, <2>1, <2>2 DEF Login
    <2>4. ASSUME Knows(l, enrolment[a])
          PROVE  Knows(r, enrolment[a])
      <3>1. CoursesIn(enrolment[a]) \ r.pending = (CoursesIn(enrolment[a]) \ l.pending) \cup {c}
        BY <2>1, <2>3, <2>4 DEF Knows
      <3>2. \A C : /\ RolesIn(enrolment[a], C \cup {c}) = RolesIn(enrolment[a], C) \cup e.roles
                   /\ GroupsIn(enrolment[a], C \cup {c}) = GroupsIn(enrolment[a], C) \cup GroupsOf(e)
        BY DEF RolesIn, GroupsIn, e
      <3> QED
        BY <2>3, <2>4, <3>1, <3>2 DEF Knows
    <2>5. Fits(r)
      BY <1>0, <2>1, <2>3, <2>4 DEF Fits, Late
    <2>6. login' = [login EXCEPT ![t] = r] /\ UNCHANGED <<enrolment, role, clan, raced>>
      BY <1>2 DEF ReadCourse, LoginInv, LoginTypes, e
    <2> HIDE DEF r
    <2> QED
      BY <2>3, <2>5, <2>6, NextStep
  <1>3. ASSUME NEW step \in {"resolved", "role"}, login' = [login EXCEPT ![t].step = step],
               UNCHANGED <<enrolment, role, clan, raced>>, l.step \in {"access", "resolved"},
               l.pending = {}
        PROVE  LoginInv'
    <2> DEFINE r == [l EXCEPT !.step = step]
    <2>1. /\ r \in Login /\ r.account = a /\ r.alone = l.alone /\ r.steady = l.steady
          /\ r.step = step /\ r.pending = l.pending /\ r.roles = l.roles /\ r.groups = l.groups
      BY <1>0, <1>3 DEF Login
    <2>2. Fits(r)
      BY <1>0, <1>3, <2>1 DEF Fits, Late, Knows
    <2>3. login' = [login EXCEPT ![t] = r]
      BY <1>3
    <2> HIDE DEF r
    <2> QED
      BY <1>3, <2>1, <2>2, <2>3, NextStep
  <1>4. CASE Resolve(t)
    BY <1>3, <1>4 DEF Resolve
  <1>5. CASE ClearLogin(t)
    <2>1. CASE ~LoggingIn(t)
      <3>1. UNCHANGED <<enrolment, role, clan, raced, login>>
        BY <1>5, <2>1 DEF ClearLogin
      <3>2. login' = [login EXCEPT ![t] = l]
        BY <3>1 DEF LoginInv, LoginTypes
      <3> QED
        BY <1>0, <3>1, <3>2, NextStep
    <2>2. CASE LoggingIn(t)
      <3>1. l.step = "resolved"
        BY <1>5, <2>2 DEF ClearLogin, Clear, Coupled
      <3>2. l.pending = {}
        BY <1>0, <3>1 DEF Fits, Late
      <3> QED
        BY <1>3, <1>5, <2>2, <3>1, <3>2 DEF ClearLogin
    <2> QED
      BY <2>1, <2>2
  <1>6. CASE SyncRole(t)
    <2>0. [l EXCEPT !.step = "clan"] \in Login
      BY <1>0 DEF Login
    <2> PICK r \in Login : r = [l EXCEPT !.step = "clan"]
      BY <2>0
    <2>1. /\ r.account = a /\ r.alone = l.alone /\ r.steady = l.steady
          /\ r.step = "clan" /\ r.pending = l.pending /\ r.roles = l.roles /\ r.groups = l.groups
      BY <1>0 DEF Login
    <2>2. a \in Accounts /\ l.step = "role"
      BY <1>0, <1>6 DEF SyncRole, LoggingIn
    <2>3. /\ role' = [role EXCEPT ![a] = MappedRole(l.roles)]
          /\ UNCHANGED <<enrolment, clan, raced>>
          /\ login' = [login EXCEPT ![t] = r]
      BY <1>6 DEF SyncRole
    <2>4. role' \in [Accounts -> GlobalRoles \cup {None}] /\ role'[a] = MappedRole(l.roles)
      BY <2>2, <2>3, MappedRoleType DEF LoginInv, LoginTypes
    <2>5. Fits(r)'
      <3>1. /\ r.account # None /\ r.pending = {}
            /\ r.steady => Knows(l, enrolment[a])
        BY <1>0, <2>1, <2>2, NoneIsNoAccount DEF Fits, Late
      <3>2. Knows(l, enrolment[a]) => Knows(r, enrolment[a])
        BY <2>1 DEF Knows
      <3>3. role'[r.account] = MappedRole(r.roles) /\ enrolment'[r.account] = enrolment[a]
        BY <2>1, <2>3, <2>4
      <3> QED
        BY <2>1, <3>1, <3>2, <3>3 DEF Fits
    <2>6. \A b \in Accounts : b # a => role'[b] = role[b] /\ clan'[b] = clan[b]
      BY <2>3 DEF LoginInv, LoginTypes
    <2>7. (\A u \in Requests : Fits(login[u]))' /\ Lone'
      <3>1. LoginTypes /\ (\A u \in Requests : Fits(login[u])) /\ Lone
        BY DEF LoginInv
      <3>2. r.account = login[t].account /\ r.alone = login[t].alone
        BY <2>1
      <3> QED
        BY <2>1, <2>3, <2>5, <2>6, <3>1, <3>2, OneLogin
    <2>8. LoginTypes' /\ ClanIsWholeUnlessRaced'
      BY <2>1, <2>3, <2>4 DEF LoginInv, LoginTypes, ClanIsWholeUnlessRaced
    <2> QED
      BY <2>7, <2>8 DEF LoginInv
  <1>7. CASE FindClan(t)
    <2> DEFINE r == [l EXCEPT !.step = "store", !.found = clan[a]]
    <2>1. a \in Accounts /\ l.step = "clan" /\ MappedRole(l.roles) = "coder"
      BY <1>0, <1>7 DEF FindClan, LoggingIn
    <2>2. /\ r \in Login /\ r.account = a /\ r.alone = l.alone /\ r.steady = l.steady
          /\ r.step = "store" /\ r.pending = l.pending /\ r.roles = l.roles /\ r.groups = l.groups
          /\ r.found = clan[a]
      BY <1>0, <2>1 DEF Login, LoginInv, LoginTypes
    <2>3. Fits(r)
      BY <1>0, <2>1, <2>2 DEF Fits, Late, Knows
    <2>4. login' = [login EXCEPT ![t] = r] /\ UNCHANGED <<enrolment, role, clan, raced>>
      BY <1>7 DEF FindClan, LoginInv, LoginTypes
    <2> HIDE DEF r
    <2> QED
      BY <2>2, <2>3, <2>4, NextStep
  <1>8. ASSUME NEW new \in Clan \cup {None}, clan' = [clan EXCEPT ![a] = new], LoggingIn(t),
               Written(t), EndLogin(t), UNCHANGED <<enrolment, role>>,
               l.alone => new = None \/ (new.value # None <=> new.status = "synced")
        PROVE  LoginInv'
    <2>1. a \in Accounts
      BY <1>0, <1>8
    <2>2. (\A u \in Requests : Fits(login[u]))' /\ Lone'
      <3>1. \A b \in Accounts : b # a => role'[b] = role[b] /\ clan'[b] = clan[b]
        BY <1>8 DEF LoginInv, LoginTypes
      <3>2. NoLogin \in Login /\ Fits(NoLogin)'
        BY NoLoginFits DEF Fits, NoLogin, Late
      <3> QED
        BY <1>8, <3>1, <3>2, OneLogin DEF LoginInv, EndLogin
    <2>3. LoginTypes'
      BY <1>8, <2>1, NoLoginFits DEF LoginInv, LoginTypes, Written, EndLogin
    <2>4. ClanIsWholeUnlessRaced'
      <3>1. clan'[a] = new /\ \A b \in Accounts \ {a} : clan'[b] = clan[b]
        BY <1>8, <2>1 DEF LoginInv, LoginTypes
      <3>2. (a \notin raced' => l.alone) /\ \A b \in Accounts \ {a} : b \in raced' <=> b \in raced
        BY <1>8, <2>1 DEF Written
      <3> QED
        BY <1>8, <3>1, <3>2 DEF LoginInv, ClanIsWholeUnlessRaced
    <2> QED
      BY <2>2, <2>3, <2>4 DEF LoginInv
  <1>9. CASE DropClan(t)
    BY <1>8, <1>9 DEF DropClan, LoggingIn
  <1>10. CASE StoreClan(t)
    <2> DEFINE new == Updated(clan[a], l.found, ResolvedClan(l.groups))
    <2>1. a \in Accounts /\ l.step = "store" /\ l.groups \in SUBSET Clans
          /\ clan[a] \in Clan \cup {None} /\ l.found \in Clan \cup {None}
      BY <1>0, <1>10 DEF StoreClan, LoggingIn, LoginInv, LoginTypes, Login
    <2>2. ResolvedClan(l.groups) \in Clan
          /\ (ResolvedClan(l.groups).value # None <=> ResolvedClan(l.groups).status = "synced")
      BY <2>1, ResolvedClanIsWhole
    <2>3. l.alone => new = ResolvedClan(l.groups)
      BY <1>0, <2>1, <2>2, UpdateOfFound DEF Fits
    <2>4. new \in Clan
      <3>1. l.found # None => clan[a] \in Clan
        BY <1>10, <2>1 DEF StoreClan
      <3> QED
        BY <2>1, <2>2, <3>1 DEF Updated, Clan
    <2>5. clan' = [clan EXCEPT ![a] = new] /\ LoggingIn(t)
      BY <1>10, <2>1 DEF StoreClan, LoggingIn, LoginInv, LoginTypes
    <2> HIDE DEF new
    <2> QED
      BY <1>8, <1>10, <2>2, <2>3, <2>4, <2>5 DEF StoreClan
  <1>11. CASE LeaveLogin(t)
    BY <1>11, NoLoginFits, NextStep DEF LeaveLogin, EndLogin
  <1> QED
    BY <1>1, <1>2, <1>4, <1>5, <1>6, <1>7, <1>9, <1>10, <1>11 DEF MoodleStep

\* Every step keeps what logins know.
LEMMA LoginInvStep ==
    ASSUME TypeOK, LoginInv, Coupled, [MoodleNext]_moodleVars
    PROVE  LoginInv'
  <1>1. ASSUME UNCHANGED <<enrolment, role, clan, raced, login>>
        PROVE  LoginInv'
    <2>1. LoginTypes' /\ Lone' /\ ClanIsWholeUnlessRaced'
      BY <1>1 DEF LoginInv, LoginTypes, Lone, ClanIsWholeUnlessRaced
    <2>2. (\A t \in Requests : Fits(login[t]))'
      BY <1>1 DEF LoginInv, Fits
    <2> QED
      BY <2>1, <2>2 DEF LoginInv
  <1>2. ASSUME NEW t \in Requests, Throttle(t)
        PROVE  LoginInv'
    <2>1. CASE ClearLogin(t)
      <3>1. ~Token(t)
        BY <2>1 DEF ClearLogin, Clear, Token
      <3> QED
        BY <2>1, <3>1, LoginStep
    <2> QED
      BY <1>1, <1>2, <2>1 DEF Throttle, AnswerLogin
  <1>3. ASSUME NEW t \in Requests, MoodleStep(t)
        PROVE  LoginInv'
    <2>1. CASE Token(t)
      BY <2>1, TokenStep DEF TypeOK
    <2> QED
      BY <1>3, <2>1, LoginStep
  <1>4. ASSUME NEW a \in Accounts, NEW c \in Courses, NEW e \in Enrolments \cup {None},
               Enrol(a, c, e)
        PROVE  LoginInv'
    BY <1>4, EnrolStep
  <1> QED
    BY <1>1, <1>2, <1>3, <1>4 DEF MoodleNext, moodleVars

\* The invariant of logins (MoodleInit, MoodleNext).
LEMMA LoginsAreCoupled == MoodleSpec => [](TypeOK /\ LoginInv /\ Coupled)
  <1>1. MoodleInit => LoginInv /\ Coupled
    <2> SUFFICES ASSUME MoodleInit
                 PROVE  LoginInv /\ Coupled
      OBVIOUS
    <2>1. \A t \in Requests : login[t] = NoLogin
      BY DEF MoodleInit
    <2>2. LoginTypes
      BY NoLoginFits DEF MoodleInit, LoginTypes
    <2>3. \A t \in Requests : Fits(login[t])
      BY <2>1, NoLoginFits
    <2>4. Lone /\ Coupled
      BY <2>1 DEF Lone, Coupled, LoggingIn, NoLogin
    <2>5. ClanIsWholeUnlessRaced
      BY DEF MoodleInit, ClanIsWholeUnlessRaced
    <2> QED
      BY <2>2, <2>3, <2>4, <2>5 DEF LoginInv
  <1>2. TypeOK /\ LoginInv /\ Coupled /\ [MoodleNext]_moodleVars => LoginInv' /\ Coupled'
    BY LoginInvStep, CoupledStep DEF LoginInv
  <1>3. MoodleSpec => []TypeOK
    BY LoginsImplementThrottle, ThrottleTypeCorrect, PTL
  <1> QED
    BY <1>1, <1>2, <1>3, PTL DEF MoodleSpec

-----------------------------------------------------------------------------

\* Accounts, attributes and logins keep their shape (MoodleTypeOK).
THEOREM LoginTypeCorrect == MoodleSpec => []MoodleTypeOK
  <1>1. TypeOK /\ LoginInv => MoodleTypeOK
    BY DEF LoginInv, LoginTypes, MoodleTypeOK
  <1> QED
    BY <1>1, LoginsAreCoupled, PTL

\* What is stored of a clan is of one answer (ClanIsWholeUnlessRaced).
THEOREM ClanIsWhole == MoodleSpec => []ClanIsWholeUnlessRaced
  <1>1. LoginInv => ClanIsWholeUnlessRaced
    BY DEF LoginInv
  <1> QED
    BY <1>1, LoginsAreCoupled, PTL

\* A login that is alone, of a steady enrolment, stores what the whole enrolment
\* gives (SoloLoginSynchronizes).
THEOREM SoloLogins == MoodleSpec => SoloLoginSynchronizes
  <1> DEFINE Synchronizes(t) ==
               LET a == login[t].account
                   roles == RolesOf(a)
                   groups == UNION {GroupsOf(enrolment[a][c]) : c \in EnrolledIn(a)}
               IN role'[a] = MappedRole(roles) /\ clan'[a] = ClanFor(roles, groups)
  <1>1. ASSUME LoginInv, NEW t \in Requests, login[t].alone, login[t].steady,
               DropClan(t) \/ StoreClan(t)
        PROVE  Synchronizes(t)
    <2> DEFINE l == login[t]
               a == l.account
               E == enrolment[a]
    <2>1. l \in Login /\ Fits(l) /\ l.step \in {"clan", "store"} /\ role' = role
      BY <1>1 DEF LoginInv, LoginTypes, DropClan, StoreClan
    <2>2. a \in Accounts
      BY <2>1 DEF Fits, Login
    <2>3. Knows(l, E) /\ l.pending = {} /\ role[a] = MappedRole(l.roles)
      BY <1>1, <2>1 DEF Fits, Late
    <2>4. RolesOf(a) = RolesIn(E, CoursesIn(E))
          /\ UNION {GroupsOf(E[c]) : c \in EnrolledIn(a)} = GroupsIn(E, CoursesIn(E))
      BY DEF RolesOf, EnrolledIn, RolesIn, GroupsIn, CoursesIn
    <2>5. /\ l.roles = RolesOf(a)
          /\ l.groups = UNION {GroupsOf(E[c]) : c \in EnrolledIn(a)}
      BY <2>3, <2>4 DEF Knows
    <2>6. clan'[a] = ClanFor(l.roles, l.groups)
      <3>1. CASE DropClan(t)
        BY <1>1, <2>2, <3>1 DEF DropClan, ClanFor, LoginInv, LoginTypes
      <3>2. CASE StoreClan(t)
        <4>1. /\ clan'[a] = Updated(clan[a], l.found, ResolvedClan(l.groups))
              /\ l.step = "store"
          BY <1>1, <2>2, <3>2 DEF StoreClan, LoginInv, LoginTypes
        <4>2. l.found = clan[a] /\ MappedRole(l.roles) = "coder"
          BY <1>1, <2>1, <4>1 DEF Fits
        <4>3. clan[a] \in Clan \cup {None} /\ ResolvedClan(l.groups) \in Clan
          BY <1>1, <2>1, <2>2, ResolvedClanIsWhole DEF LoginInv, LoginTypes, Login
        <4>4. Updated(clan[a], l.found, ResolvedClan(l.groups)) = ResolvedClan(l.groups)
          BY <4>2, <4>3, UpdateOfFound
        <4> QED
          BY <4>1, <4>2, <4>4 DEF ClanFor
      <3> QED
        BY <1>1, <3>1, <3>2
    <2> QED
      BY <2>1, <2>3, <2>5, <2>6
  <1>2. LoginInv => \A t \in Requests :
            login[t].alone /\ login[t].steady /\ (DropClan(t) \/ StoreClan(t)) => Synchronizes(t)
    BY <1>1
  <1>3. MoodleSpec => []LoginInv
    BY LoginsAreCoupled, PTL
  <1> QED
    BY <1>2, <1>3, PTL DEF SoloLoginSynchronizes
=============================================================================
