------------------------ MODULE BackendClientProofs -------------------------
(***************************************************************************)
(* Theorems about BackendClient, for any number of calls and retries, any  *)
(* cap on the delays and whatever Retry-After the backend sends.           *)
(***************************************************************************)
EXTENDS BackendClient, FiniteSetTheorems, TLAPS

-----------------------------------------------------------------------------
(* Delays                                                                  *)

\* A power of two is the number of subsets of a set.
LEMMA PowerOfTwo ==
    ASSUME NEW n \in Nat PROVE 2^n \in Nat
<1>1. IsFiniteSet(1..n) /\ Cardinality(1..n) = n
  BY FS_Interval
<1>2. IsFiniteSet(SUBSET (1..n)) /\ Cardinality(SUBSET (1..n)) = 2^n
  BY <1>1, FS_SUBSET
<1> QED
  BY <1>2, FS_CardinalityType

\* No delay exceeds the cap, whatever the backend asks for.
LEMMA DelayBounded ==
    ASSUME NEW n \in Nat, NEW r \in RetryAfters \cup {0}
    PROVE  DelayAfter(n, r) \in 0..MaxDelay
<1>1. 2^n \in Nat /\ r \in Nat /\ MaxDelay \in Nat
  BY PowerOfTwo, DelaysAssumption
<1> DEFINE p == 2^n
<1>2. DelayAfter(n, r) = Least(Greatest(p, r), MaxDelay) /\ p \in Nat
  BY <1>1 DEF DelayAfter
<1> HIDE DEF p
<1> QED
  BY <1>1, <1>2 DEF Least, Greatest

-----------------------------------------------------------------------------
(* Requests that may still be served                                       *)

\* There are finitely many.
LEMMA PendingFinite ==
    ASSUME NEW L, NEW c
    PROVE  IsFiniteSet(Pending(L, c)) /\ Cardinality(Pending(L, c)) \in Nat
<1>1. IsFiniteSet(0..MaxRetries) /\ Pending(L, c) \in SUBSET (0..MaxRetries)
  BY FS_Interval, CallsAssumption DEF Pending
<1> QED
  BY <1>1, FS_Subset, FS_CardinalityType

\* Without requests there are none of any call.
LEMMA PendingNone ==
    ASSUME NEW c PROVE Cardinality(Pending({}, c)) = 0
BY FS_EmptySet DEF Pending

\* A request more is one more of its call at most, and none of another.
LEMMA PendingAdd ==
    ASSUME NEW L, NEW c, NEW n, NEW d
    PROVE  Cardinality(Pending(L \cup {<<c, n>>}, d))
             <= Cardinality(Pending(L, d)) + IF d = c THEN 1 ELSE 0
<1> DEFINE A == Pending(L, d)
           B == Pending(L \cup {<<c, n>>}, d)
<1>1. IsFiniteSet(A) /\ Cardinality(A) \in Nat
  BY PendingFinite
<1>2. \/ B = A
      \/ d = c /\ B = A \cup {n}
  BY Zenon DEF Pending
<1> HIDE DEF A, B
<1>3. Cardinality(A \cup {n}) <= Cardinality(A) + 1
  BY <1>1, FS_AddElement
<1>4. Cardinality(B) <= Cardinality(A) + IF d = c THEN 1 ELSE 0
  BY <1>1, <1>2, <1>3
<1> QED
  BY <1>4 DEF A, B

\* A request less is one less of its call, and none of another.
LEMMA PendingRemove ==
    ASSUME NEW L, NEW c, NEW n \in 0..MaxRetries, <<c, n>> \in L, NEW d
    PROVE  Cardinality(Pending(L \ {<<c, n>>}, d))
             = Cardinality(Pending(L, d)) - IF d = c THEN 1 ELSE 0
<1> DEFINE A == Pending(L, d)
           B == Pending(L \ {<<c, n>>}, d)
<1>1. IsFiniteSet(A) /\ Cardinality(A) \in Nat
  BY PendingFinite
<1>2. CASE d = c
  <2>1. B = A \ {n} /\ n \in A
    BY <1>2 DEF Pending
  <2> HIDE DEF A, B
  <2>2. Cardinality(B) = Cardinality(A) - 1
    BY <1>1, <2>1, FS_RemoveElement
  <2> QED
    BY <1>2, <2>2 DEF A, B
<1>3. CASE d # c
  <2>1. B = A
    BY <1>3 DEF Pending
  <2> HIDE DEF A, B
  <2>2. Cardinality(B) = Cardinality(A) - 0
    BY <1>1, <2>1
  <2> QED
    BY <1>3, <2>2 DEF A, B
<1> QED
  BY <1>2, <1>3

-----------------------------------------------------------------------------
(* The inductive invariant                                                 *)

\* What the invariant says of the numbers it relates.
LEMMA Numbers ==
    ASSUME IndInv
    PROVE  /\ MaxCalls \in Nat /\ MaxRetries \in Nat
           /\ call \in Nat /\ call <= MaxCalls
           /\ attempt \in Nat /\ attempt <= MaxRetries
           /\ last \in Nat /\ last <= call
           /\ pc # "idle" => call \in Calls
           /\ \A c \in Calls : /\ c \in Nat /\ c > 0 /\ c <= MaxCalls
                               /\ served[c] \in Nat
                               /\ Settled(c) \in Nat /\ Settled(c) <= MaxRetries + 1
<1> USE CallsAssumption DEF IndInv, Calls
<1>1. /\ call \in 0..MaxCalls /\ attempt \in 0..MaxRetries /\ last \in 0..MaxCalls
      /\ served \in [Calls -> 0..MaxServed] /\ late \in SUBSET (Calls \X (0..MaxRetries))
  BY DEF TypeOK
<1>2. /\ last <= call
      /\ pc # "idle" => call > 0
      /\ pc = "backoff" => attempt < MaxRetries
  BY DEF ServedInOrder, Underway
<1>3. \A c \in Calls : Settled(c) \in Nat /\ Settled(c) <= MaxRetries + 1
  BY <1>1, <1>2 DEF Settled
<1>4. \A c \in Calls : served[c] \in Nat
  BY <1>1 DEF MaxServed
<1>5. \A c \in Calls : c \in Nat /\ c > 0 /\ c <= MaxCalls
  OBVIOUS
<1>6. /\ MaxCalls \in Nat /\ MaxRetries \in Nat /\ call \in Nat /\ call <= MaxCalls
      /\ attempt \in Nat /\ attempt <= MaxRetries /\ last \in Nat
  BY <1>1
<1>7. pc # "idle" => call \in Calls
  BY <1>2, <1>6
<1> HIDE DEF IndInv, Calls
<1> QED
  BY <1>2, <1>3, <1>4, <1>5, <1>6, <1>7

\* A request is told by its call and its attempt.
LEMMA LateRequests ==
    ASSUME IndInv, NEW req \in late
    PROVE  /\ req[1] \in Calls /\ req[2] \in 0..MaxRetries
           /\ req = <<req[1], req[2]>> /\ req[1] <= call
BY DEF IndInv, TypeOK, ServedInOrder

\* A request acted upon is counted, up to one more than there should be.
LEMMA ActUponCounts ==
    ASSUME IndInv, NEW c \in Calls, ActUpon(c)
    PROVE  /\ served' \in [Calls -> 0..MaxServed]
           /\ \A d \in Calls : /\ served'[d] \in Nat /\ served'[d] >= served[d]
                               /\ served'[d] <= served[d] + IF d = c THEN 1 ELSE 0
           /\ served'[c] >= 1
           /\ last' = c
<1>1. served \in [Calls -> 0..MaxServed] /\ MaxServed \in Nat /\ MaxServed >= 1
  BY CallsAssumption DEF IndInv, TypeOK, MaxServed
<1>2. served' = [served EXCEPT ![c] = Least(served[c] + 1, MaxServed)] /\ last' = c
  BY DEF ActUpon
<1>3. served[c] \in Nat /\ served[c] <= MaxServed
  BY <1>1
<1>4. /\ Least(served[c] + 1, MaxServed) \in 1..MaxServed
      /\ Least(served[c] + 1, MaxServed) <= served[c] + 1
      /\ Least(served[c] + 1, MaxServed) >= served[c]
  BY <1>1, <1>3 DEF Least
<1> QED
  BY <1>1, <1>2, <1>4

\* An answer settles one request of the call in hand.
LEMMA AnswerSettles ==
    ASSUME IndInv, pc = "sent", UNCHANGED <<call, attempt>>, pc' \in {"idle", "backoff"}
    PROVE  \A c \in Calls : Settled(c)' >= Settled(c) + IF c = call THEN 1 ELSE 0
BY Numbers, CallsAssumption DEF Settled, Calls

\* What a body is decoded to.
LEMMA DecodeGives ==
    ASSUME NEW k \in Kinds, NEW body \in Bodies
    PROVE  /\ Decode(k, body) \in {"value", "empty", "backend_error"}
           /\ body = "not_ok" => Decode(k, body) = "backend_error"
<1>1. CASE body = "not_ok"
  BY <1>1, Zenon DEF Decode
<1>2. CASE body = "data"
  <2>1. Decode(k, body) = "value"
    BY <1>2, Zenon DEF Decode
  <2> QED
    BY <1>2, <2>1
<1>3. CASE body = "null"
  <2>1. CASE k \in {"active_users", "wallet_key"}
    <3>1. Decode(k, body) = "empty"
      BY <1>3, <2>1, Zenon DEF Decode
    <3> QED
      BY <1>3, <3>1
  <2>2. CASE k \in {"login", "settings"}
    <3>1. Decode(k, body) = "backend_error"
      BY <1>3, <2>2, Zenon DEF Decode
    <3> QED
      BY <3>1
  <2>3. CASE k = "event"
    <3>1. Decode(k, body) = "value"
      BY <1>3, <2>3, Zenon DEF Decode
    <3> QED
      BY <1>3, <3>1
  <2> QED
    BY <2>1, <2>2, <2>3 DEF Kinds
<1> QED
  BY <1>1, <1>2, <1>3 DEF Bodies

\* A request that failed is sent again later, or the call gives up.
LEMMA RetryLeads ==
    ASSUME IndInv, NEW r \in RetryAfters \cup {0}, Retry(r)
    PROVE  \/ /\ pc' = "idle" /\ result' = [result EXCEPT ![call] = "gave_up"]
              /\ UNCHANGED <<call, kind, attempt, delay>>
           \/ /\ pc' = "backoff" /\ attempt < MaxRetries /\ delay' \in 0..MaxDelay
              /\ UNCHANGED <<call, kind, attempt, result>>
<1>1. attempt \in Nat /\ MaxRetries \in Nat
  BY Numbers
<1>2. CASE attempt >= MaxRetries
  BY <1>2 DEF Retry, Return
<1>3. CASE ~(attempt >= MaxRetries)
  BY <1>1, <1>3, DelayBounded DEF Retry
<1> QED
  BY <1>2, <1>3

\* The initial states satisfy the invariant.
LEMMA InitInd == Init => IndInv
<1> SUFFICES ASSUME Init PROVE IndInv
  OBVIOUS
<1>1. TypeOK
  <2>1. lost \in BOOLEAN
    BY DEF Init
  <2>2. served \in [Calls -> 0..MaxServed]
    BY CallsAssumption DEF Init, MaxServed
  <2> QED
    BY <2>1, <2>2, CallsAssumption, DelaysAssumption DEF Init, TypeOK, Results
<1>2. RequestsCounted
  <2> SUFFICES ASSUME NEW c \in Calls
               PROVE  served[c] + Cardinality(Pending(late, c)) <= Settled(c)
    BY DEF RequestsCounted
  <2>1. served[c] = 0 /\ Cardinality(Pending(late, c)) = 0
    BY PendingNone DEF Init
  <2>2. Settled(c) = 0
    BY DEF Init, Settled, Calls
  <2> QED
    BY <2>1, <2>2
<1>3. Underway /\ ServedInOrder /\ ValuesServed
  BY DEF Init, Underway, ServedInOrder, ValuesServed
<1> QED
  BY <1>1, <1>2, <1>3 DEF IndInv

\* A call begins with nothing sent for it yet.
LEMMA CallInd ==
    ASSUME IndInv, Call PROVE IndInv'
<1>1. /\ pc = "idle" /\ pc' = "sent" /\ call' = call + 1 /\ call < MaxCalls
      /\ attempt' = 0 /\ delay' = 0
      /\ UNCHANGED <<kind, result, late, lost, served, last>>
  BY DEF Call, Send, serverVars
<1>2. TypeOK'
  <2>1. call' \in 0..MaxCalls /\ attempt' \in 0..MaxRetries /\ delay' \in 0..MaxDelay
    BY <1>1, Numbers, DelaysAssumption
  <2> QED
    BY <1>1, <2>1 DEF IndInv, TypeOK
<1>3. Underway'
  BY <1>1, Numbers DEF Underway
<1>4. RequestsCounted'
  <2> SUFFICES ASSUME NEW c \in Calls
               PROVE  served[c] + Cardinality(Pending(late, c)) <= Settled(c)'
    BY <1>1 DEF RequestsCounted
  <2>1. Settled(c)' = Settled(c)
    BY <1>1, Numbers DEF Settled
  <2> QED
    BY <2>1 DEF IndInv, RequestsCounted
<1>5. ServedInOrder'
  <2>1. last' <= call' /\ \A req \in late' : req[1] <= call'
    <3>1. \A req \in late : req[1] \in Nat /\ req[1] <= call
      BY LateRequests, Numbers
    <3> QED
      BY <1>1, <3>1, Numbers
  <2>2. ~lost => served[call'] = 0
    <3>1. call' \in Calls /\ Settled(call') = 0
      BY <1>1, Numbers DEF Calls, Settled
    <3>2. served[call'] + Cardinality(Pending(late, call')) <= 0
      BY <3>1 DEF IndInv, RequestsCounted
    <3> QED
      BY <3>1, <3>2, Numbers, PendingFinite
  <2>3. ~lost => late = {} /\ \A c \in Calls : served[c] <= 1
    BY DEF IndInv, ServedInOrder
  <2> QED
    BY <1>1, <2>1, <2>2, <2>3 DEF ServedInOrder
<1>6. ValuesServed'
  BY <1>1 DEF IndInv, ValuesServed
<1> QED
  BY <1>2, <1>3, <1>4, <1>5, <1>6 DEF IndInv

\* After the sleep the next attempt leaves.
LEMMA BackoffOverInd ==
    ASSUME IndInv, BackoffOver PROVE IndInv'
<1>1. /\ pc = "backoff" /\ pc' = "sent" /\ attempt' = attempt + 1 /\ delay' = 0
      /\ UNCHANGED <<call, kind, result, late, lost, served, last>>
  BY DEF BackoffOver, Send, serverVars
<1>2. attempt < MaxRetries
  BY <1>1 DEF IndInv, Underway
<1>3. TypeOK'
  <2>1. attempt' \in 0..MaxRetries /\ delay' \in 0..MaxDelay
    BY <1>1, <1>2, Numbers, DelaysAssumption
  <2> QED
    BY <1>1, <2>1 DEF IndInv, TypeOK
<1>4. RequestsCounted'
  <2>1. \A c \in Calls : Settled(c)' = Settled(c)
    BY <1>1, Numbers DEF Settled
  <2> QED
    BY <1>1, <2>1 DEF IndInv, RequestsCounted
<1>5. Underway' /\ ServedInOrder' /\ ValuesServed'
  BY <1>1 DEF IndInv, Underway, ServedInOrder, ValuesServed
<1> QED
  BY <1>3, <1>4, <1>5 DEF IndInv

(***************************************************************************)
(* An answer, or the lack of one: the backend has acted upon the request,  *)
(* may yet act, or never does; the client returns or waits to send again.  *)
(***************************************************************************)
LEMMA AnswerInd ==
    ASSUME IndInv, pc = "sent", pc' \in {"idle", "backoff"},
           UNCHANGED <<call, kind, attempt>>,
           pc' = "backoff" => attempt < MaxRetries,
           delay' \in 0..MaxDelay,
           NEW r \in Results, result' \in {result, [result EXCEPT ![call] = r]},
           lost' \in BOOLEAN, lost => lost',
           \/ UNCHANGED late /\ ActUpon(call) /\ (pc' = "idle" \/ lost')
           \/ UNCHANGED <<late, served, last>> /\ r \notin {"value", "empty"}
           \/ /\ late' = late \cup {<<call, attempt>>} /\ lost'
              /\ UNCHANGED <<served, last>> /\ r \notin {"value", "empty"}
    PROVE  IndInv'
<1>1. call \in Calls
  BY Numbers
<1>2. /\ served' \in [Calls -> 0..MaxServed] /\ last' \in {last, call}
      /\ \A c \in Calls : /\ served'[c] \in Nat /\ served'[c] >= served[c]
                          /\ served'[c] <= served[c] + IF c = call THEN 1 ELSE 0
      /\ r \in {"value", "empty"} => served'[call] >= 1
  BY <1>1, Numbers, ActUponCounts DEF IndInv, TypeOK
<1>3. TypeOK'
  <2>1. result' \in [Calls -> Results]
    BY <1>1 DEF IndInv, TypeOK
  <2>2. last' \in 0..MaxCalls
    BY <1>2 DEF IndInv, TypeOK
  <2>3. late' \in SUBSET (Calls \X (0..MaxRetries))
    BY <1>1 DEF IndInv, TypeOK
  <2> QED
    BY <1>2, <2>1, <2>2, <2>3 DEF IndInv, TypeOK
<1>4. Underway'
  BY DEF IndInv, Underway
<1>5. RequestsCounted'
  <2> SUFFICES ASSUME NEW c \in Calls
               PROVE  served'[c] + Cardinality(Pending(late', c)) <= Settled(c)'
    BY DEF RequestsCounted
  <2> DEFINE one == IF c = call THEN 1 ELSE 0
             P   == Cardinality(Pending(late, c))
             Q   == Cardinality(Pending(late', c))
  <2>1. /\ P \in Nat /\ Q \in Nat /\ one \in Nat /\ served[c] \in Nat
        /\ Settled(c) \in Nat /\ Settled(c)' \in Int
    <3>1. Settled(c)' \in Int
      BY Numbers DEF Settled
    <3> QED
      BY <3>1, PendingFinite, Numbers
  <2>2. served[c] + P <= Settled(c) /\ Settled(c)' >= Settled(c) + one
    BY AnswerSettles DEF IndInv, RequestsCounted
  <2>3. served'[c] + Q <= served[c] + P + one
    <3>1. CASE UNCHANGED late
      BY <1>2, <2>1, <3>1
    <3>2. CASE late' = late \cup {<<call, attempt>>} /\ UNCHANGED served
      <4>1. Q <= P + one
        BY <3>2, PendingAdd
      <4> HIDE DEF P, Q, one
      <4> QED
        BY <2>1, <3>2, <4>1
    <3> QED
      BY <3>1, <3>2
  <2> HIDE DEF P, one
  <2>4. served'[c] \in Nat
    BY <1>2
  <2> QED
    BY <2>1, <2>2, <2>3, <2>4
<1>6. ServedInOrder'
  <2>1. last' <= call
    BY <1>2, Numbers
  <2>2. \A req \in late' : req[1] <= call
    BY Numbers, LateRequests
  <2>3. ASSUME ~lost'
        PROVE  late' = {} /\ (\A c \in Calls : served'[c] <= 1)
               /\ (pc' # "idle" => served'[call] = 0)
    <3>1. late = {} /\ served[call] = 0 /\ \A c \in Calls : served[c] <= 1
      BY <2>3 DEF IndInv, ServedInOrder
    <3>2. CASE UNCHANGED late /\ ActUpon(call) /\ pc' = "idle"
      <4>1. \A c \in Calls : served'[c] <= 1
        BY <1>1, <1>2, <3>1, Numbers
      <4> QED
        BY <3>1, <3>2, <4>1
    <3>3. CASE UNCHANGED <<late, served, last>>
      BY <3>1, <3>3
    <3> QED
      BY <2>3, <3>2, <3>3
  <2> QED
    BY <2>1, <2>2, <2>3 DEF ServedInOrder
<1>7. ValuesServed'
  <2> SUFFICES ASSUME NEW c \in Calls, result'[c] \in {"value", "empty"}
               PROVE  served'[c] >= 1
    BY DEF ValuesServed
  <2>1. result \in [Calls -> Results]
    BY DEF IndInv, TypeOK
  <2>2. CASE c = call /\ result' = [result EXCEPT ![call] = r]
    BY <1>1, <1>2, <2>1, <2>2
  <2>3. CASE result'[c] = result[c]
    <3>1. served[c] >= 1 /\ served[c] \in Nat /\ served'[c] \in Nat /\ served'[c] >= served[c]
      BY <1>2, <2>3, Numbers DEF IndInv, ValuesServed
    <3> QED
      BY <3>1
  <2> QED
    BY <1>1, <2>1, <2>2, <2>3
<1> QED
  BY <1>3, <1>4, <1>5, <1>6, <1>7 DEF IndInv

\* A late request is acted upon, or dropped, without the client.
LEMMA LateInd ==
    ASSUME IndInv, LateRequest \/ LateDropped PROVE IndInv'
<1>1. PICK req \in late : /\ late' = late \ {req}
                          /\ ActUpon(req[1]) \/ UNCHANGED <<served, last>>
                          /\ UNCHANGED <<clientVars, lost>>
  BY DEF LateRequest, LateDropped
<1> DEFINE c == req[1]
           n == req[2]
<1>2. c \in Calls /\ n \in 0..MaxRetries /\ req = <<c, n>> /\ c <= call /\ <<c, n>> \in late
  BY LateRequests
<1> HIDE DEF c, n
<1>3. /\ late' = late \ {<<c, n>>}
      /\ ActUpon(c) \/ UNCHANGED <<served, last>>
      /\ UNCHANGED <<pc, call, kind, attempt, delay, result, lost>>
  BY <1>1, <1>2 DEF c, clientVars
<1>4. /\ served' \in [Calls -> 0..MaxServed] /\ last' \in {last, c}
      /\ \A d \in Calls : /\ served'[d] \in Nat /\ served'[d] >= served[d]
                          /\ served'[d] <= served[d] + IF d = c THEN 1 ELSE 0
  BY <1>2, <1>3, Numbers, ActUponCounts DEF IndInv, TypeOK
<1>5. TypeOK'
  <2>1. last' \in 0..MaxCalls
    BY <1>2, <1>4, Numbers DEF IndInv, TypeOK
  <2> QED
    BY <1>3, <1>4, <2>1 DEF IndInv, TypeOK
<1>6. RequestsCounted'
  <2> SUFFICES ASSUME NEW d \in Calls
               PROVE  served'[d] + Cardinality(Pending(late', d)) <= Settled(d)'
    BY DEF RequestsCounted
  <2> DEFINE one == IF d = c THEN 1 ELSE 0
             P   == Cardinality(Pending(late, d))
             Q   == Cardinality(Pending(late', d))
  <2>1. /\ P \in Nat /\ Q \in Nat /\ one \in Nat /\ served[d] \in Nat
        /\ served'[d] \in Nat /\ Settled(d) \in Nat /\ Settled(d)' = Settled(d)
    BY <1>3, <1>4, PendingFinite, Numbers DEF Settled
  <2>2. Q = P - one
    BY <1>2, <1>3, PendingRemove
  <2>3. served[d] + P <= Settled(d) /\ served'[d] <= served[d] + one
    BY <1>4 DEF IndInv, RequestsCounted
  <2> HIDE DEF P, Q, one
  <2>4. served'[d] + Q <= Settled(d)'
    BY <2>1, <2>2, <2>3
  <2> QED
    BY <2>4 DEF Q
<1>7. ServedInOrder'
  <2>1. last' <= call
    BY <1>2, <1>4, Numbers
  <2>2. \A q \in late' : q[1] <= call
    BY <1>3, LateRequests
  <2>3. lost
    BY <1>2 DEF IndInv, ServedInOrder
  <2> QED
    BY <1>3, <2>1, <2>2, <2>3 DEF ServedInOrder
<1>8. ValuesServed'
  <2> SUFFICES ASSUME NEW d \in Calls, result[d] \in {"value", "empty"}
               PROVE  served'[d] >= 1
    BY <1>3 DEF ValuesServed
  <2>1. served[d] >= 1 /\ served[d] \in Nat /\ served'[d] \in Nat /\ served'[d] >= served[d]
    BY <1>4, Numbers DEF IndInv, ValuesServed
  <2> QED
    BY <2>1
<1>9. Underway'
  BY <1>3 DEF IndInv, Underway
<1> QED
  BY <1>5, <1>6, <1>7, <1>8, <1>9 DEF IndInv

\* Every step keeps the invariant.
LEMMA NextInd == IndInv /\ [Next]_vars => IndInv'
<1> SUFFICES ASSUME IndInv, [Next]_vars PROVE IndInv'
  OBVIOUS
<1>1. lost \in BOOLEAN /\ delay \in 0..MaxDelay
  BY DEF IndInv, TypeOK
<1>2. CASE Answer200
  <2>1. PICK body \in Bodies :
           /\ Return(Decode(kind[call], body))
           /\ IF body = "not_ok" THEN UNCHANGED <<served, last>> ELSE ActUpon(call)
    BY <1>2 DEF Answer200
  <2> DEFINE r == Decode(kind[call], body)
  <2>2. kind[call] \in Kinds
    BY <1>2, Numbers DEF IndInv, TypeOK, Answer200
  <2>3. r \in Results /\ (body = "not_ok" => r \notin {"value", "empty"})
    BY <2>2, DecodeGives DEF Results
  <2>4. /\ pc = "sent" /\ pc' = "idle" /\ result' = [result EXCEPT ![call] = r]
        /\ UNCHANGED <<call, kind, attempt, delay, late, lost>>
    BY <1>2, <2>1 DEF Answer200, Return
  <2> HIDE DEF r
  <2> QED
    BY <1>1, <2>1, <2>3, <2>4, AnswerInd
<1>3. CASE AnswerRefused
  <2>1. PICK r \in {"auth_error", "backend_error"} : Return(r)
    BY <1>3 DEF AnswerRefused
  <2> QED
    BY <1>1, <1>3, <2>1, AnswerInd DEF AnswerRefused, Return, Results, serverVars
<1>4. CASE AnswerBusy \/ AnswerLost
  <2>1. PICK ra \in RetryAfters \cup {0} : Retry(ra)
    BY <1>4 DEF AnswerBusy, AnswerLost
  <2>2. /\ pc = "sent" /\ pc' \in {"idle", "backoff"} /\ UNCHANGED <<call, kind, attempt>>
        /\ pc' = "backoff" => attempt < MaxRetries
        /\ delay' \in 0..MaxDelay
        /\ result' \in {result, [result EXCEPT ![call] = "gave_up"]}
    BY <1>1, <1>4, <2>1, RetryLeads DEF AnswerBusy, AnswerLost
  <2>3. \/ UNCHANGED <<late, lost, served, last>>
        \/ lost' = TRUE /\ UNCHANGED late /\ ActUpon(call)
        \/ /\ lost' = TRUE /\ late' = late \cup {<<call, attempt>>}
           /\ UNCHANGED <<served, last>>
    BY <1>4 DEF AnswerBusy, AnswerLost, serverVars
  <2>4. "gave_up" \in Results /\ "gave_up" \notin {"value", "empty"}
    BY DEF Results
  <2> QED
    BY <1>1, <2>2, <2>3, <2>4, AnswerInd
<1>5. CASE UNCHANGED vars
  BY <1>5 DEF vars, clientVars, serverVars, IndInv, TypeOK, Underway, RequestsCounted,
              Settled, ServedInOrder, ValuesServed
<1> QED
  BY <1>2, <1>3, <1>4, <1>5, CallInd, BackoffOverInd, LateInd DEF Next, CallStep, Over

-----------------------------------------------------------------------------
(* Theorems                                                                *)

\* The inductive invariant of BackendClient: of every call the requests acted
\* upon, with those that may yet be, are no more than those settled.
THEOREM Invariance == Spec => []IndInv
BY InitInd, NextInd, PTL DEF Spec

\* Every variable keeps its type; no delay exceeds max_delay of retry_async.
THEOREM TypeCorrect == Spec => []TypeOK
<1>1. IndInv => TypeOK
  BY DEF IndInv
<1> QED
  BY <1>1, Invariance, PTL

\* A call that returns was acted upon, none more often than it may be sent,
\* and none twice unless an answer was lost (retry_async, _request_json).
THEOREM CallsServed == Spec => []ServedAsSent
<1>1. IndInv => ServedAsSent
  <2> SUFFICES ASSUME IndInv, NEW c \in Calls
               PROVE  /\ result[c] \in {"value", "empty"} => served[c] >= 1
                      /\ served[c] <= MaxRetries + 1
                      /\ served[c] > 1 => lost
    BY DEF ServedAsSent
  <2>1. result[c] \in {"value", "empty"} => served[c] >= 1
    BY DEF IndInv, ValuesServed
  <2>2. served[c] <= MaxRetries + 1
    <3>1. served[c] + Cardinality(Pending(late, c)) <= Settled(c)
      BY DEF IndInv, RequestsCounted
    <3> QED
      BY <3>1, PendingFinite, Numbers
  <2>3. ~lost => ~(served[c] > 1)
    <3>1. ~lost => served[c] <= 1
      BY DEF IndInv, ServedInOrder
    <3> QED
      BY <3>1, Numbers
  <2> QED
    BY <2>1, <2>2, <2>3
<1> QED
  BY <1>1, Invariance, PTL

\* As long as no answer was lost, the backend acts upon the calls in their
\* order, however many were retried.
THEOREM InOrder == Spec => OrderKeptUnlessLost
<1>1. IndInv /\ [Next]_vars => [~lost /\ last' # last => last' > last]_vars
  <2> SUFFICES ASSUME IndInv, Next, ~lost, last' # last PROVE last' > last
    OBVIOUS
  <2>1. late = {}
    BY DEF IndInv, ServedInOrder
  <2>2. ActUpon(call)
    BY <2>1 DEF Next, Call, CallStep, Answer200, AnswerRefused, AnswerBusy, AnswerLost,
                BackoffOver, LateRequest, LateDropped, Over, vars, serverVars
  <2>3. last' = call
    BY <2>2 DEF ActUpon
  <2> QED
    BY <2>3, Numbers
<1> QED
  BY <1>1, Invariance, PTL DEF Spec, OrderKeptUnlessLost
=============================================================================
