----------------------------- MODULE BrowserProofs -----------------------------
(***************************************************************************)
(* Facts about the bag of requests in flight, which the proofs about the   *)
(* pages rest on.                                                           *)
(***************************************************************************)
EXTENDS Browser, TLAPS

\* What is in flight after rs were sent.
LEMMA SentCalls ==
    ASSUME IsABag(calls), NEW rs, Sends(rs)
    PROVE  /\ IsABag(calls')
           /\ \A q : q \in DOMAIN calls' <=> q \in rs \/ q \in DOMAIN calls
           /\ \A q : q \in rs /\ q \notin DOMAIN calls => calls'[q] = 1
           /\ \A q : q \in DOMAIN calls /\ q \notin rs => calls'[q] = calls[q]
<1>1. calls' = [e \in DOMAIN calls \cup rs |->
                  (IF e \in DOMAIN calls THEN calls[e] ELSE 0) + (IF e \in rs THEN 1 ELSE 0)]
  BY DEF Sends, SetToBag, (+)
<1>2. \A e \in DOMAIN calls : calls[e] \in Nat /\ calls[e] > 0
  BY DEF IsABag
<1> HIDE DEF Sends
<1> QED
  BY <1>1, <1>2 DEF IsABag

\* What is in flight after one r was settled and rs were sent by its continuation.
LEMMA SettledCalls ==
    ASSUME IsABag(calls), NEW view, NEW r, NEW rs, SettledBy(view, r, rs)
    PROVE  /\ IsABag(calls') /\ r \in DOMAIN calls
           /\ \A q : q \in DOMAIN calls'
                     <=> q \in rs \/ (q \in DOMAIN calls /\ (q = r => calls[q] > 1))
           /\ \A q : q \in rs /\ q \notin DOMAIN calls => calls'[q] = 1
           /\ \A q : q \in DOMAIN calls /\ q \notin rs /\ q # r => calls'[q] = calls[q]
<1> DEFINE rest == [e \in {d \in DOMAIN calls : d = r => calls[d] > 1} |->
                       IF e = r THEN calls[e] - 1 ELSE calls[e]]
<1>1. \A e \in DOMAIN calls : calls[e] \in Nat /\ calls[e] > 0
  BY DEF IsABag
<1>2. calls (-) SetToBag({r}) = rest
  BY <1>1 DEF SetToBag, (-)
<1>3. IsABag(rest)
  BY <1>1 DEF IsABag
<1>4. calls' = rest (+) SetToBag(rs)
  BY <1>2 DEF SettledBy
<1>5. calls' = [e \in DOMAIN rest \cup rs |->
                  (IF e \in DOMAIN rest THEN rest[e] ELSE 0) + (IF e \in rs THEN 1 ELSE 0)]
  BY <1>4 DEF SetToBag, (+)
<1>6. r \in DOMAIN calls
  BY DEF SettledBy, BagIn, BagToSet
<1>7. IsABag(calls')
  BY <1>3, <1>5 DEF IsABag
<1> QED
  BY <1>1, <1>5, <1>6, <1>7

\* Requests of an operation that a step does not settle stay in flight.
LEMMA StillInFlight ==
    ASSUME IsABag(calls), NEW op,
           \/ SendsNothing
           \/ \E rs : Sends(rs)
           \/ \E view, r, rs : r.op # op /\ SettledBy(view, r, rs)
    PROVE  IsABag(calls') /\ InFlight(op) \subseteq InFlight(op)'
<1>1. CASE SendsNothing
  BY <1>1 DEF SendsNothing, InFlight
<1>2. ASSUME NEW rs, Sends(rs)
      PROVE  IsABag(calls') /\ InFlight(op) \subseteq InFlight(op)'
  BY <1>2, SentCalls DEF InFlight, BagToSet
<1>3. ASSUME NEW view, NEW r, NEW rs, r.op # op, SettledBy(view, r, rs)
      PROVE  IsABag(calls') /\ InFlight(op) \subseteq InFlight(op)'
  BY <1>3, SettledCalls DEF InFlight, BagToSet
<1> QED
  BY <1>1, <1>2, <1>3

IsRequest(r) == r = Request(r.op, r.key, r.arg)

LEMMA RequestFields ==
    ASSUME NEW op, NEW key, NEW arg
    PROVE  /\ IsRequest(Request(op, key, arg))
           /\ Request(op, key, arg).op = op /\ Request(op, key, arg).key = key
           /\ Request(op, key, arg).arg = arg
BY DEF IsRequest, Request

\* A request the server has served is the same one with what it found.
LEMMA ServedRequest ==
    ASSUME NEW r, IsRequest(r), NEW a
    PROVE  [r EXCEPT !.arg = a] = Request(r.op, r.key, a)
BY DEF IsRequest, Request

\* What the pages' invariants suppose of the requests in flight.
CallsSound == IsABag(calls) /\ \A r \in DOMAIN calls : IsRequest(r)

LEMMA SentSound ==
    ASSUME CallsSound, NEW rs, Sends(rs), \A q \in rs : IsRequest(q)
    PROVE  CallsSound'
BY SentCalls DEF CallsSound

LEMMA SettledSound ==
    ASSUME CallsSound, NEW view, NEW r, NEW rs, SettledBy(view, r, rs), \A q \in rs : IsRequest(q)
    PROVE  CallsSound'
BY SettledCalls DEF CallsSound

\* What is in flight after a bag of requests was sent at once.
LEMMA BagSent ==
    ASSUME CallsSound, NEW B, IsABag(B), \A q \in DOMAIN B : IsRequest(q), calls' = calls (+) B
    PROVE  CallsSound' /\ DOMAIN calls' = DOMAIN calls \cup DOMAIN B
<1>1. calls' = [e \in DOMAIN calls \cup DOMAIN B |->
                  (IF e \in DOMAIN calls THEN calls[e] ELSE 0)
                    + (IF e \in DOMAIN B THEN B[e] ELSE 0)]
  BY DEF (+)
<1>2. /\ \A e \in DOMAIN calls : calls[e] \in Nat /\ calls[e] > 0
      /\ \A e \in DOMAIN B : B[e] \in Nat /\ B[e] > 0
  BY DEF IsABag, CallsSound
<1>3. IsABag(calls')
  BY <1>1, <1>2 DEF IsABag
<1> QED
  BY <1>1, <1>3 DEF CallsSound

=============================================================================
