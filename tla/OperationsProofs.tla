---------------------------- MODULE OperationsProofs ----------------------------
(***************************************************************************)
(* Proofs about operations that must not run twice or unasked: the pages    *)
(* with such operations implement Exclusive, a batch is about rows of the   *)
(* table and destroys none but the confirmed ones, and the label that tells *)
(* of an operation under way is true.                                       *)
(***************************************************************************)
EXTENDS BrowserProofs, Frontend

-----------------------------------------------------------------------------
(* Operations that exclude one another                                      *)

ExclusiveViews == {Instances, Tenants, Backup}

ExclusiveInit == InstancesInit \/ TenantsInit \/ BackupInit

ExclusiveNext ==
    \/ At(Instances) /\ InstancesNext
    \/ At(Tenants) /\ TenantsNext
    \/ At(Backup) /\ BackupNext

ExclusiveSpec == ExclusiveInit /\ [][ExclusiveNext]_vars

Things == Keys \cup {None}

\* Request r is an operation on thing d of page v.
Occupies(v, r, d) ==
    \/ v = Instances /\ r.op \in {"500m", "ipv6"} /\ r.key = d
    \/ v = Tenants /\ r.op = "sync" /\ d = None
    \/ v = Backup /\ r.op \in {"export", "restore"} /\ d = None

Plain(v, r) == \A d \in Things : ~Occupies(v, r, d)

\* The operations under way on thing d are at most one.
OneOn(v, d) == \A r, s \in DOMAIN calls :
    Occupies(v, r, d) /\ Occupies(v, s, d) => r = s /\ calls[r] = 1

LEMMA ExclusiveViewsDiffer == Instances # Tenants /\ Instances # Backup /\ Tenants # Backup
BY DEF Instances, Tenants, Backup

LEMMA OperationsOccupy ==
    ASSUME page.view \in ExclusiveViews, NEW d \in Things
    PROVE  OperationsOf(d) = {r \in DOMAIN calls : Occupies(page.view, r, d)}
<1>1. CASE page.view = Instances
  BY <1>1, ExclusiveViewsDiffer DEF OperationsOf, At, InFlight, BagToSet, Occupies
<1>2. CASE page.view = Tenants
  BY <1>2, ExclusiveViewsDiffer DEF OperationsOf, At, InFlight, BagToSet, Occupies
<1>3. CASE page.view = Backup
  BY <1>3, ExclusiveViewsDiffer DEF OperationsOf, At, InFlight, BagToSet, Occupies
<1> QED
  BY <1>1, <1>2, <1>3 DEF ExclusiveViews

LEMMA OperationsOccupyNext ==
    ASSUME page'.view \in ExclusiveViews, NEW d \in Things
    PROVE  OperationsOf(d)' = {r \in DOMAIN calls' : Occupies(page'.view, r, d)}
<1>1. CASE page'.view = Instances
  BY <1>1, ExclusiveViewsDiffer DEF OperationsOf, At, InFlight, BagToSet, Occupies
<1>2. CASE page'.view = Tenants
  BY <1>2, ExclusiveViewsDiffer DEF OperationsOf, At, InFlight, BagToSet, Occupies
<1>3. CASE page'.view = Backup
  BY <1>3, ExclusiveViewsDiffer DEF OperationsOf, At, InFlight, BagToSet, Occupies
<1> QED
  BY <1>1, <1>2, <1>3 DEF ExclusiveViews

UnderWayOn(d) == [r \in OperationsOf(d) |-> calls[r]]

LEMMA UnderWayFree ==
    ASSUME NEW d, OperationsOf(d) = {}
    PROVE  UnderWayOn(d) = EmptyBag
BY DEF UnderWayOn, EmptyBag, SetToBag

LEMMA UnderWaySingle ==
    ASSUME NEW d, NEW r, OperationsOf(d) = {r}, calls[r] = 1
    PROVE  UnderWayOn(d) = SetToBag({r}) /\ Operations!IsSingle(UnderWayOn(d))
<1>1. UnderWayOn(d) = SetToBag({r})
  BY DEF UnderWayOn, SetToBag
<1>2. r \in BagToSet(UnderWayOn(d))
  BY <1>1 DEF SetToBag, BagToSet
<1> QED
  BY <1>1, <1>2 DEF Operations!IsSingle, Operations!BagToSet, Operations!SetToBag,
                    BagToSet, SetToBag

\* A step that neither starts nor ends an operation is a stuttering step of Exclusive.
LEMMA PlainStep ==
    ASSUME CallsSound, page.view \in ExclusiveViews, page'.view = page.view, NEW rs,
           \A q \in rs : IsRequest(q) /\ Plain(page.view, q),
           \/ Sends(rs) \/ SendsNothing
           \/ \E view, r : Plain(page.view, r) /\ SettledBy(view, r, rs)
    PROVE  /\ CallsSound' /\ UNCHANGED UnderWay
           /\ \A r : ~Plain(page.view, r) =>
                 /\ r \in DOMAIN calls' <=> r \in DOMAIN calls
                 /\ r \in DOMAIN calls => calls'[r] = calls[r]
<1>1. /\ CallsSound'
      /\ \A r : ~Plain(page.view, r) =>
            /\ r \in DOMAIN calls' <=> r \in DOMAIN calls
            /\ r \in DOMAIN calls => calls'[r] = calls[r]
  <2>1. CASE Sends(rs)
    BY <2>1, SentCalls DEF CallsSound
  <2>2. ASSUME NEW view, NEW r, Plain(page.view, r), SettledBy(view, r, rs)
        PROVE  /\ CallsSound'
               /\ \A q : ~Plain(page.view, q) =>
                     /\ q \in DOMAIN calls' <=> q \in DOMAIN calls
                     /\ q \in DOMAIN calls => calls'[q] = calls[q]
    BY <2>2, SettledCalls DEF CallsSound
  <2>3. CASE SendsNothing
    BY <2>3 DEF SendsNothing, CallsSound
  <2> QED
    BY <2>1, <2>2, <2>3
<1>2. ASSUME NEW d \in Things
      PROVE  UnderWayOn(d)' = UnderWayOn(d)
  <2>1. OperationsOf(d) = {r \in DOMAIN calls : Occupies(page.view, r, d)}
    BY OperationsOccupy
  <2>2. OperationsOf(d)' = {r \in DOMAIN calls' : Occupies(page.view, r, d)}
    BY OperationsOccupyNext
  <2>3. \A r : Occupies(page.view, r, d) => ~Plain(page.view, r)
    BY DEF Plain
  <2>4. OperationsOf(d)' = OperationsOf(d) /\ \A r \in OperationsOf(d) : calls'[r] = calls[r]
    BY <1>1, <2>1, <2>2, <2>3
  <2> QED
    BY <2>4 DEF UnderWayOn
<1>3. UNCHANGED UnderWay
  BY <1>2 DEF UnderWay, UnderWayOn, Things
<1> QED
  BY <1>1, <1>3

\* A step that sends the first operation on d is a Start of Exclusive.
LEMMA StartStep ==
    ASSUME CallsSound, page.view \in ExclusiveViews, page'.view = page.view,
           NEW d \in Things, NEW q, IsRequest(q), Occupies(page.view, q, d),
           \A e \in Things : Occupies(page.view, q, e) => e = d,
           \A r \in DOMAIN calls : ~Occupies(page.view, r, d),
           Sends({q})
    PROVE  /\ CallsSound' /\ Operations!Next
           /\ calls'[q] = 1 /\ \A r : r \in DOMAIN calls' <=> r = q \/ r \in DOMAIN calls
           /\ \A r \in DOMAIN calls : r # q => calls'[r] = calls[r]
<1>1. /\ CallsSound' /\ q \notin DOMAIN calls
      /\ calls'[q] = 1 /\ \A r : r \in DOMAIN calls' <=> r = q \/ r \in DOMAIN calls
      /\ \A r \in DOMAIN calls : r # q => calls'[r] = calls[r]
  BY SentCalls DEF CallsSound
<1>2. ASSUME NEW e \in Things, e # d
      PROVE  UnderWayOn(e)' = UnderWayOn(e)
  <2>1. /\ OperationsOf(e) = {r \in DOMAIN calls : Occupies(page.view, r, e)}
        /\ OperationsOf(e)' = {r \in DOMAIN calls' : Occupies(page.view, r, e)}
    BY OperationsOccupy, OperationsOccupyNext
  <2>2. OperationsOf(e)' = OperationsOf(e) /\ \A r \in OperationsOf(e) : calls'[r] = calls[r]
    BY <1>1, <1>2, <2>1
  <2> QED
    BY <2>2 DEF UnderWayOn
<1>3. UnderWayOn(d) = EmptyBag
  <2>1. OperationsOf(d) = {}
    BY OperationsOccupy
  <2> QED
    BY <2>1, UnderWayFree
<1>4. Operations!IsSingle(UnderWayOn(d)')
  <2>1. OperationsOf(d)' = {q}
    BY <1>1, OperationsOccupyNext
  <2>2. UnderWayOn(d)' = SetToBag({q})
    BY <1>1, <2>1 DEF UnderWayOn, SetToBag
  <2>3. q \in BagToSet(UnderWayOn(d)')
    BY <2>2 DEF SetToBag, BagToSet
  <2> QED
    BY <2>2, <2>3 DEF Operations!IsSingle, Operations!BagToSet, Operations!SetToBag,
                      BagToSet, SetToBag
<1>5. /\ UnderWay = [e \in Things |-> UnderWayOn(e)]
      /\ UnderWay' = [e \in Things |-> UnderWayOn(e)']
  BY DEF UnderWay, UnderWayOn, Things
<1>6. UnderWay' = [UnderWay EXCEPT ![d] = UnderWay'[d]]
  BY <1>2, <1>5
<1>7. Operations!Start(d)
  BY <1>3, <1>4, <1>5, <1>6 DEF Operations!Start, Operations!EmptyBag, EmptyBag,
                                Operations!SetToBag, SetToBag
<1> QED
  BY <1>1, <1>7 DEF Operations!Next, Things

\* A step that settles the only operation on d, and starts none, is an End.
LEMMA EndStep ==
    ASSUME CallsSound, page.view \in ExclusiveViews, page'.view = page.view,
           NEW d \in Things, OneOn(page.view, d),
           NEW view, NEW q, NEW rs, SettledBy(view, q, rs), Occupies(page.view, q, d),
           \A e \in Things : Occupies(page.view, q, e) => e = d,
           \A r \in rs : IsRequest(r) /\ Plain(page.view, r)
    PROVE  /\ CallsSound' /\ Operations!Next
           /\ \A r : ~Plain(page.view, r) =>
                 /\ r \in DOMAIN calls' <=> r \in DOMAIN calls /\ r # q
                 /\ r \in DOMAIN calls /\ r # q => calls'[r] = calls[r]
<1>1. CallsSound' /\ q \in DOMAIN calls
  BY SettledCalls DEF CallsSound
<1>2. calls[q] = 1 /\ \A r \in DOMAIN calls : Occupies(page.view, r, d) => r = q
  BY <1>1 DEF OneOn
<1>3. ~Plain(page.view, q)
  BY DEF Plain
<1>4. \A r : ~Plain(page.view, r) =>
          /\ r \in DOMAIN calls' <=> r \in DOMAIN calls /\ r # q
          /\ r \in DOMAIN calls /\ r # q => calls'[r] = calls[r]
  <2>1. /\ \A r : r \in DOMAIN calls'
                    <=> r \in rs \/ (r \in DOMAIN calls /\ (r = q => calls[r] > 1))
        /\ \A r : r \in DOMAIN calls /\ r \notin rs /\ r # q => calls'[r] = calls[r]
    BY SettledCalls DEF CallsSound
  <2> QED
    BY <1>2, <2>1
<1>5. \A r, e : e \in Things /\ Occupies(page.view, r, e) => ~Plain(page.view, r)
  BY DEF Plain
<1>6. ASSUME NEW e \in Things, e # d
      PROVE  UnderWayOn(e)' = UnderWayOn(e)
  <2>1. /\ OperationsOf(e) = {r \in DOMAIN calls : Occupies(page.view, r, e)}
        /\ OperationsOf(e)' = {r \in DOMAIN calls' : Occupies(page.view, r, e)}
    BY OperationsOccupy, OperationsOccupyNext
  <2>2. OperationsOf(e)' = OperationsOf(e) /\ \A r \in OperationsOf(e) : calls'[r] = calls[r]
    BY <1>4, <1>5, <1>6, <2>1
  <2> QED
    BY <2>2 DEF UnderWayOn
<1>7. Operations!IsSingle(UnderWayOn(d))
  <2>1. OperationsOf(d) = {q}
    BY <1>1, <1>2, OperationsOccupy
  <2> QED
    BY <1>2, <2>1, UnderWaySingle
<1>8. UnderWayOn(d)' = EmptyBag
  <2>1. OperationsOf(d)' = {}
    BY <1>2, <1>4, <1>5, OperationsOccupyNext
  <2> QED
    BY <2>1 DEF UnderWayOn, EmptyBag, SetToBag
<1>9. /\ UnderWay = [e \in Things |-> UnderWayOn(e)]
      /\ UnderWay' = [e \in Things |-> UnderWayOn(e)']
  BY DEF UnderWay, UnderWayOn, Things
<1>10. UnderWay' = [UnderWay EXCEPT ![d] = EmptyBag]
  BY <1>6, <1>8, <1>9
<1>11. Operations!End(d)
  BY <1>7, <1>9, <1>10 DEF Operations!End, Operations!EmptyBag, EmptyBag,
                           Operations!SetToBag, SetToBag
<1> QED
  BY <1>1, <1>4, <1>11 DEF Operations!Next, Things

-----------------------------------------------------------------------------
(* The network operations of Instances.vue                                  *)

NetOps == {"500m", "ipv6"}

\* An operation under way is the one its row is marked with.
NetSound ==
    /\ CallsSound
    /\ page.view = Instances /\ {"view", "busy"} \subseteq DOMAIN page
    /\ DOMAIN page.busy = Keys
    /\ \A r \in DOMAIN calls : r.op \in NetOps =>
          r.key \in Keys /\ r.arg = None /\ calls[r] = 1 /\ page.busy[r.key] = r.op

LEMMA NoneIsNoNetOp == None \notin NetOps
BY InstancesAssumption DEF NetOps

LEMMA NetPlain ==
    ASSUME NEW r, r.op \notin NetOps
    PROVE  Plain(Instances, r)
BY ExclusiveViewsDiffer DEF Plain, Occupies, NetOps

LEMMA NetKept ==
    ASSUME NetSound, NEW rs, \A q \in rs : IsRequest(q) /\ q.op \notin NetOps,
           \/ Sends(rs) \/ SendsNothing
           \/ \E view, r : r.op \notin NetOps /\ SettledBy(view, r, rs),
           DOMAIN page' = DOMAIN page, page'.view = page.view, page'.busy = page.busy
    PROVE  NetSound' /\ UNCHANGED UnderWay
<1>1. /\ CallsSound' /\ UNCHANGED UnderWay
      /\ \A r : ~Plain(Instances, r) =>
            /\ r \in DOMAIN calls' <=> r \in DOMAIN calls
            /\ r \in DOMAIN calls => calls'[r] = calls[r]
  BY PlainStep, NetPlain DEF NetSound, ExclusiveViews
<1>2. ASSUME NEW r \in DOMAIN calls', r.op \in NetOps
      PROVE  r \in DOMAIN calls /\ calls'[r] = calls[r]
  <2>1. CASE Sends(rs)
    BY <1>2, <2>1, SentCalls DEF NetSound, CallsSound
  <2>2. CASE \E view, q : q.op \notin NetOps /\ SettledBy(view, q, rs)
    BY <1>2, <2>2, SettledCalls DEF NetSound, CallsSound
  <2>3. CASE SendsNothing
    BY <2>3 DEF SendsNothing
  <2> QED
    BY <2>1, <2>2, <2>3
<1> QED
  BY <1>1, <1>2 DEF NetSound

LEMMA NetStarts ==
    ASSUME NetSound, NEW row \in Keys, NEW op \in NetOps, page.busy[row] = None,
           Sends({Request(op, row, None)}), DOMAIN page' = DOMAIN page,
           page'.view = page.view, page'.busy = [page.busy EXCEPT ![row] = op]
    PROVE  NetSound' /\ Operations!Next
<1>1. PICK q : q = Request(op, row, None)
  OBVIOUS
<1>2. IsRequest(q) /\ q.op = op /\ q.key = row /\ q.arg = None
  BY <1>1, RequestFields
<1>3. Occupies(Instances, q, row) /\ \A e \in Things : Occupies(Instances, q, e) => e = row
  BY <1>2, ExclusiveViewsDiffer DEF Occupies, NetOps
<1>4. \A r \in DOMAIN calls : r.op \in NetOps => r.key # row
  BY NoneIsNoNetOp DEF NetSound
<1>5. \A r \in DOMAIN calls : ~Occupies(Instances, r, row)
  BY <1>4, ExclusiveViewsDiffer DEF Occupies, NetOps
<1>6. /\ CallsSound' /\ Operations!Next
      /\ calls'[q] = 1 /\ \A r : r \in DOMAIN calls' <=> r = q \/ r \in DOMAIN calls
      /\ \A r \in DOMAIN calls : r # q => calls'[r] = calls[r]
  BY <1>1, <1>2, <1>3, <1>5, StartStep DEF NetSound, ExclusiveViews, Things
<1> QED
  BY <1>2, <1>4, <1>6 DEF NetSound

LEMMA NetEnds ==
    ASSUME NetSound, InstancesNetworkDone
    PROVE  NetSound' /\ Operations!Next
<1>1. PICK q \in InFlight("500m") \cup InFlight("ipv6") :
          SettledBy(Instances, q, {}) /\ page' = [page EXCEPT !.busy[q.key] = None]
  BY DEF InstancesNetworkDone
<1>2. q \in DOMAIN calls /\ q.op \in NetOps
  BY <1>1 DEF InFlight, BagToSet, NetOps
<1>3. q.key \in Keys /\ Occupies(Instances, q, q.key)
  BY <1>2 DEF NetSound, Occupies, NetOps
<1>4. /\ DOMAIN page' = DOMAIN page /\ page'.view = Instances
      /\ page'.busy = [page.busy EXCEPT ![q.key] = None]
  BY <1>1 DEF NetSound
<1>5. \A r, t \in DOMAIN calls : r.op \in NetOps /\ t.op \in NetOps /\ r.key = t.key => r = t
  BY DEF NetSound, CallsSound, IsRequest
<1>6. OneOn(Instances, q.key)
  BY <1>5, ExclusiveViewsDiffer DEF OneOn, Occupies, NetOps, NetSound
<1>7. /\ CallsSound' /\ Operations!Next
      /\ \A r : ~Plain(Instances, r) =>
            /\ r \in DOMAIN calls' <=> r \in DOMAIN calls /\ r # q
            /\ r \in DOMAIN calls /\ r # q => calls'[r] = calls[r]
  <2>1. \A e \in Things : Occupies(Instances, q, e) => e = q.key
    BY ExclusiveViewsDiffer DEF Occupies
  <2> QED
    BY <1>1, <1>3, <1>4, <1>6, <2>1, EndStep DEF NetSound, ExclusiveViews, Things
<1>8. \A r \in DOMAIN calls' : r.op \in NetOps => r \in DOMAIN calls
  BY <1>1, SettledCalls DEF NetSound, CallsSound
<1>9. \A r \in DOMAIN calls : r.op \in NetOps => ~Plain(Instances, r)
  BY DEF Plain, Occupies, NetSound, NetOps, Things
<1> QED
  BY <1>2, <1>4, <1>5, <1>7, <1>8, <1>9 DEF NetSound

-----------------------------------------------------------------------------
(* The rows a batch is about, and the ones whose termination was confirmed  *)

HandFields == {"selected", "shown", "box", "prompts", "confirmed"}

\* Lists that arrive take rows out of the selection and put none in: an open
\* confirmation is about all that is still selected.
InHand(p) ==
    /\ HandFields \subseteq DOMAIN p
    /\ p.selected \subseteq RowsOf(p.shown)
    /\ p.box # None => p.selected \subseteq p.box
    /\ p.prompts \subseteq p.confirmed

\* A termination, or a step on the way to one, is about confirmed rows.
Confirmed(r, rows) ==
    /\ r.op \in {"config", "captcha", "terminate", "batchTerminate"} => r.key \in rows
    /\ r.op = "batchTerminate" => r.arg \subseteq rows

HandSound == InHand(page) /\ \A r \in DOMAIN calls : Confirmed(r, page.confirmed)

InstancesSound == NetSound /\ HandSound

InstancesStep == InstancesSound' /\ [Operations!Next]_UnderWay

LEMMA ConfirmedMore ==
    ASSUME NEW r, NEW S, NEW T, S \subseteq T, Confirmed(r, S)
    PROVE  Confirmed(r, T)
BY DEF Confirmed

LEMMA InstancesKept ==
    ASSUME InstancesSound, NEW rs,
           \A q \in rs : IsRequest(q) /\ q.op \notin NetOps /\ Confirmed(q, page'.confirmed),
           \/ Sends(rs) \/ SendsNothing
           \/ \E view, r : r.op \notin NetOps /\ SettledBy(view, r, rs),
           DOMAIN page' = DOMAIN page, page'.view = page.view, page'.busy = page.busy,
           page.confirmed \subseteq page'.confirmed, InHand(page')
    PROVE  InstancesStep
<1>1. NetSound' /\ UNCHANGED UnderWay
  BY NetKept DEF InstancesSound
<1>2. \A r \in DOMAIN calls' : r \in rs \/ r \in DOMAIN calls
  <2>1. CASE Sends(rs)
    BY <2>1, SentCalls DEF InstancesSound, NetSound, CallsSound
  <2>2. CASE \E view, q : q.op \notin NetOps /\ SettledBy(view, q, rs)
    BY <2>2, SettledCalls DEF InstancesSound, NetSound, CallsSound
  <2>3. CASE SendsNothing
    BY <2>3 DEF SendsNothing
  <2> QED
    BY <2>1, <2>2, <2>3
<1>3. HandSound'
  BY <1>2, ConfirmedMore DEF InstancesSound, HandSound
<1> QED
  BY <1>1, <1>3 DEF InstancesStep, InstancesSound

SameHand(p, q) ==
    /\ DOMAIN q = DOMAIN p
    /\ \A f \in HandFields \cup {"view", "busy"} : q[f] = p[f]

\* Requests that have nothing to do with either.
Harmless(r) ==
    /\ IsRequest(r)
    /\ r.op \notin NetOps \cup {"config", "captcha", "terminate", "batchTerminate"}

LEMMA HarmlessRequest ==
    ASSUME NEW op, NEW key, NEW arg,
           op \notin NetOps \cup {"config", "captcha", "terminate", "batchTerminate"}
    PROVE  Harmless(Request(op, key, arg))
BY RequestFields DEF Harmless

LEMMA HarmlessQuery == ASSUME NEW p PROVE Harmless(InstancesQuery(p))
<1>1. "instances" \notin NetOps \cup {"config", "captcha", "terminate", "batchTerminate"}
  BY DEF NetOps
<1> QED
  BY <1>1, HarmlessRequest DEF InstancesQuery

LEMMA HandsOff ==
    ASSUME InstancesSound, NEW rs, \A q \in rs : Harmless(q),
           \/ Sends(rs) \/ SendsNothing
           \/ \E view, r : r.op \notin NetOps /\ SettledBy(view, r, rs),
           SameHand(page, page')
    PROVE  InstancesStep
<1>1. InHand(page') /\ page'.confirmed = page.confirmed
      /\ page'.view = page.view /\ page'.busy = page.busy /\ DOMAIN page' = DOMAIN page
  BY DEF InstancesSound, HandSound, InHand, SameHand, HandFields
<1>2. \A q \in rs : IsRequest(q) /\ q.op \notin NetOps /\ Confirmed(q, page'.confirmed)
  BY DEF Harmless, Confirmed
<1> QED
  BY <1>1, <1>2, InstancesKept

LEMMA HandsOffUnsent ==
    ASSUME InstancesSound, SendsNothing, SameHand(page, page')
    PROVE  InstancesStep
<1>1. PICK rs : rs = {}
  OBVIOUS
<1> QED
  BY <1>1, HandsOff

LEMMA HandsOffSettled ==
    ASSUME InstancesSound, NEW r, r.op \notin NetOps, SettledBy(Instances, r, {}),
           SameHand(page, page')
    PROVE  InstancesStep
<1>1. PICK rs : rs = {}
  OBVIOUS
<1> QED
  BY <1>1, HandsOff

\* What the user does on the table and in its dialogs, but for confirmations.
LEMMA InstancesClicks ==
    ASSUME InstancesSound,
           \/ \E t \in Keys \cup {None} : InstancesHandleSearch(t)
           \/ InstancesSearchTimer \/ InstancesCancelDialog
           \/ InstancesHandleBatchStart \/ InstancesHandleCheckAlive
           \/ \E no \in 1..2 : InstancesPage(no)
           \/ \E row \in Keys :
                 \/ InstancesHandleAction(row) \/ InstancesHandleAutoRescue(row)
                 \/ InstancesConfigInfo(row) \/ InstancesConfirm500M(row)
                 \/ \E kind \in SaveKinds : InstancesHandleDropdownAction(row, kind)
           \/ \E kind \in SaveKinds : InstancesSave(kind)
    PROVE  InstancesStep
<1>f. HandFields \cup {"view", "busy"} \subseteq DOMAIN page
  BY DEF InstancesSound, NetSound, HandSound, InHand
<1>1. ASSUME NEW t, InstancesHandleSearch(t)
      PROVE  InstancesStep
  BY <1>f, <1>1, HandsOffUnsent DEF InstancesHandleSearch, SameHand, HandFields
<1>2. CASE InstancesSearchTimer
  <2>1. PICK rs : rs = {InstancesQuery([page EXCEPT !.no = 1])}
    OBVIOUS
  <2>2. SameHand(page, page')
    BY <1>f, <1>2 DEF InstancesSearchTimer, SameHand, HandFields
  <2> QED
    BY <1>2, <2>1, <2>2, HarmlessQuery, HandsOff DEF InstancesSearchTimer
<1>3. CASE InstancesCancelDialog
  BY <1>f, <1>3, HandsOffUnsent DEF InstancesCancelDialog, SameHand, HandFields
<1>4. ASSUME NEW op \in {"action", "configInfo", "batchStart", "checkAlive"} \cup SaveKinds,
             NEW key, NEW arg, Sends({Request(op, key, arg)}), SameHand(page, page')
      PROVE  InstancesStep
  <2>1. PICK rs : rs = {Request(op, key, arg)}
    OBVIOUS
  <2>2. op \notin NetOps \cup {"config", "captcha", "terminate", "batchTerminate"}
    BY DEF NetOps, SaveKinds
  <2> QED
    BY <1>4, <2>1, <2>2, HarmlessRequest, HandsOff
<1>5. CASE InstancesHandleBatchStart
  BY <1>f, <1>4, <1>5 DEF InstancesHandleBatchStart, SameHand
<1>6. CASE InstancesHandleCheckAlive
  <2>1. SameHand(page, page')
    BY <1>f, <1>6 DEF InstancesHandleCheckAlive, SameHand, HandFields
  <2> QED
    BY <1>4, <1>6, <2>1 DEF InstancesHandleCheckAlive
<1>7. ASSUME NEW no, InstancesPage(no)
      PROVE  InstancesStep
  <2>1. PICK rs : rs = {InstancesQuery([page EXCEPT !.no = no])}
    OBVIOUS
  <2>2. SameHand(page, page')
    BY <1>f, <1>7 DEF InstancesPage, SameHand, HandFields
  <2> QED
    BY <1>7, <2>1, <2>2, HarmlessQuery, HandsOff DEF InstancesPage
<1>8. ASSUME NEW row, InstancesHandleAction(row) \/ InstancesHandleAutoRescue(row)
                      \/ InstancesConfigInfo(row)
      PROVE  InstancesStep
  BY <1>f, <1>4, <1>8 DEF InstancesHandleAction, InstancesHandleAutoRescue, InstancesConfigInfo,
      SameHand
<1>9. ASSUME NEW row, InstancesConfirm500M(row)
      PROVE  InstancesStep
  BY <1>f, <1>9, HandsOffUnsent DEF InstancesConfirm500M, SameHand, HandFields
<1>10. ASSUME NEW row, NEW kind, InstancesHandleDropdownAction(row, kind)
       PROVE  InstancesStep
  BY <1>f, <1>10, HandsOffUnsent DEF InstancesHandleDropdownAction, SameHand, HandFields
<1>11. ASSUME NEW kind \in SaveKinds, InstancesSave(kind)
       PROVE  InstancesStep
  <2>1. SameHand(page, page')
    BY <1>f, <1>11 DEF InstancesSave, SameHand, HandFields
  <2> QED
    BY <1>4, <1>11, <2>1 DEF InstancesSave
<1> QED
  BY <1>1, <1>2, <1>3, <1>5, <1>6, <1>7, <1>8, <1>9, <1>10, <1>11

\* Answers that leave the selection and the confirmations alone.
LEMMA InstancesAnswered ==
    ASSUME InstancesSound,
           \/ InstancesCheckedAlive \/ InstancesConfigShown
           \/ \E ok \in BOOLEAN :
                 \/ InstancesLoadTenants(ok) \/ InstancesActed(ok)
                 \/ \E kind \in SaveKinds : InstancesSaved(kind, ok)
    PROVE  InstancesStep
<1>f. HandFields \cup {"view", "busy"} \subseteq DOMAIN page
  BY DEF InstancesSound, NetSound, HandSound, InHand
<1>o. \A op \in {"tenants", "checkAlive", "configInfo", "action", "terminate"} \cup SaveKinds :
          \A r \in InFlight(op) : r.op \notin NetOps
  BY DEF InFlight, NetOps, SaveKinds
<1>1. CASE InstancesCheckedAlive
  <2>1. SameHand(page, page')
    BY <1>f, <1>1 DEF InstancesCheckedAlive, SameHand, HandFields
  <2> QED
    BY <1>o, <1>1, <2>1, HandsOffSettled DEF InstancesCheckedAlive
<1>2. CASE InstancesConfigShown
  BY <1>o, <1>2, HandsOffSettled DEF InstancesConfigShown, SameHand
<1>3. ASSUME NEW ok \in BOOLEAN, InstancesLoadTenants(ok)
      PROVE  InstancesStep
  <2>1. SameHand(page, page')
    BY <1>f, <1>3 DEF InstancesLoadTenants, SameHand, HandFields
  <2> QED
    BY <1>o, <1>3, <2>1, HandsOffSettled DEF InstancesLoadTenants
<1>4. ASSUME NEW ok \in BOOLEAN, InstancesActed(ok)
      PROVE  InstancesStep
  <2>1. PICK rs : rs = IF ok THEN {InstancesQuery(page)} ELSE {}
    OBVIOUS
  <2>2. PICK r \in InFlight("action") \cup InFlight("terminate") : SettledBy(Instances, r, rs)
    BY <1>4, <2>1 DEF InstancesActed
  <2>3. PICK l : page' = [page EXCEPT !.loading = l]
    BY <1>4 DEF InstancesActed
  <2>4. SameHand(page, page')
    BY <1>f, <2>3 DEF SameHand, HandFields
  <2> QED
    BY <1>o, <2>1, <2>2, <2>4, HarmlessQuery, HandsOff
<1>5. ASSUME NEW ok \in BOOLEAN, NEW kind \in SaveKinds, InstancesSaved(kind, ok)
      PROVE  InstancesStep
  <2>0. PICK q : q = Request("reload", Query(page.tenantId, page.no), None)
    OBVIOUS
  <2>q. Harmless(q)
    <3>1. "reload" \notin NetOps \cup {"config", "captcha", "terminate", "batchTerminate"}
      BY DEF NetOps
    <3> QED
      BY <2>0, <3>1, HarmlessRequest
  <2>1. PICK rs : rs = IF ok THEN {q} ELSE {}
    OBVIOUS
  <2>2. PICK r \in InFlight(kind) : SettledBy(Instances, r, rs)
    BY <1>5, <2>0, <2>1 DEF InstancesSaved
  <2>3. PICK l, d : page' = [page EXCEPT !.saving = ok, !.loading = l, !.dialog = d]
    BY <1>5 DEF InstancesSaved
  <2>4. SameHand(page, page')
    BY <1>f, <2>3 DEF SameHand, HandFields
  <2>5. (\A e \in rs : Harmless(e)) /\ r.op \notin NetOps
    BY <1>o, <2>q, <2>1, <2>2
  <2> QED
    BY <2>2, <2>4, <2>5, HandsOff
<1> QED
  BY <1>1, <1>2, <1>3, <1>4, <1>5

\* New rows, or a batch that is done, leave nothing selected.
SelectsNone(p, q) ==
    /\ DOMAIN q = DOMAIN p
    /\ \A f \in {"view", "busy", "box", "prompts", "confirmed"} : q[f] = p[f]
    /\ q.selected = {} \/ (q.selected = p.selected /\ q.shown = p.shown)

LEMMA ListedSelectsNone ==
    ASSUME NEW p, HandFields \cup {"view", "busy"} \subseteq DOMAIN p, NEW query, NEW ok \in BOOLEAN
    PROVE  SelectsNone(p, InstancesListed(p, query, ok))
BY DEF InstancesListed, SelectsNone, HandFields

LEMMA SelectionDropped ==
    ASSUME InstancesSound, NEW rs, \A q \in rs : Harmless(q),
           NEW r, r.op \notin NetOps, SettledBy(Instances, r, rs), SelectsNone(page, page')
    PROVE  InstancesStep
<1>1. /\ InHand(page') /\ page'.confirmed = page.confirmed /\ DOMAIN page' = DOMAIN page
      /\ page'.view = page.view /\ page'.busy = page.busy
  BY DEF InstancesSound, HandSound, InHand, SelectsNone
<1>2. \A q \in rs : IsRequest(q) /\ q.op \notin NetOps /\ Confirmed(q, page'.confirmed)
  BY DEF Harmless, Confirmed
<1> QED
  BY <1>1, <1>2, InstancesKept

LEMMA InstancesSelections ==
    ASSUME InstancesSound,
           \/ \E ok \in BOOLEAN : InstancesLoadInstances(ok) \/ InstancesSaveReloaded(ok)
                                  \/ InstancesBatchStarted(ok)
           \/ \E rows \in SUBSET RowsOf(page.shown) : InstancesOnSelectionChange(rows)
    PROVE  InstancesStep
<1>f. HandFields \cup {"view", "busy"} \subseteq DOMAIN page
  BY DEF InstancesSound, NetSound, HandSound, InHand
<1>o. \A op \in {"instances", "reload", "batchStart"} : \A r \in InFlight(op) : r.op \notin NetOps
  BY DEF InFlight, NetOps
<1>1. ASSUME NEW ok \in BOOLEAN, InstancesLoadInstances(ok)
      PROVE  InstancesStep
  <2>1. PICK r \in InFlight("instances") :
            SettledBy(Instances, r, {}) /\ page' = InstancesListed(page, r.key, ok)
    BY <1>1 DEF InstancesLoadInstances
  <2>2. SelectsNone(page, page')
    BY <1>f, <2>1, ListedSelectsNone
  <2>3. PICK rs : rs = {}
    OBVIOUS
  <2> QED
    BY <1>o, <2>1, <2>2, <2>3, SelectionDropped
<1>2. ASSUME NEW ok \in BOOLEAN, InstancesSaveReloaded(ok)
      PROVE  InstancesStep
  <2>1. PICK r \in InFlight("reload") :
            /\ SettledBy(Instances, r, {})
            /\ page' = [InstancesListed(page, r.key, ok) EXCEPT !.saving = FALSE]
    BY <1>2 DEF InstancesSaveReloaded
  <2>2. PICK p : p = InstancesListed(page, r.key, ok)
    OBVIOUS
  <2>3. SelectsNone(page, p)
    BY <1>f, <2>2, ListedSelectsNone
  <2>4. SelectsNone(page, page')
    BY <1>f, <2>1, <2>2, <2>3 DEF SelectsNone, HandFields
  <2>5. PICK rs : rs = {}
    OBVIOUS
  <2> QED
    BY <1>o, <2>1, <2>4, <2>5, SelectionDropped
<1>3. ASSUME NEW ok \in BOOLEAN, InstancesBatchStarted(ok)
      PROVE  InstancesStep
  <2>1. PICK rs : rs = IF ok THEN {InstancesQuery(page)} ELSE {}
    OBVIOUS
  <2>2. PICK r \in InFlight("batchStart") : SettledBy(Instances, r, rs)
    BY <1>3, <2>1 DEF InstancesBatchStarted
  <2>3. SelectsNone(page, page')
    BY <1>f, <1>3 DEF InstancesBatchStarted, SelectsNone, HandFields
  <2>4. (\A e \in rs : Harmless(e)) /\ r.op \notin NetOps
    BY <1>o, <2>1, <2>2, HarmlessQuery
  <2> QED
    BY <2>2, <2>3, <2>4, SelectionDropped
<1>4. ASSUME NEW rows \in SUBSET RowsOf(page.shown), InstancesOnSelectionChange(rows)
      PROVE  InstancesStep
  <2>1. /\ SendsNothing /\ page' = [page EXCEPT !.selected = rows]
        /\ page.box = None
    BY <1>4 DEF InstancesOnSelectionChange, Free
  <2>2. /\ InHand(page') /\ page'.confirmed = page.confirmed /\ DOMAIN page' = DOMAIN page
        /\ page'.view = page.view /\ page'.busy = page.busy
    BY <1>f, <2>1 DEF InstancesSound, HandSound, InHand, HandFields
  <2>3. PICK rs : rs = {}
    OBVIOUS
  <2> QED
    BY <2>1, <2>2, <2>3, InstancesKept
<1> QED
  BY <1>1, <1>2, <1>3, <1>4

\* What follows in a batch is about the rows that are left of it.
LEMMA BatchGoesOn ==
    ASSUME NEW rows, NEW C, rows \subseteq C
    PROVE  \A q \in NextOfBatch(rows) : IsRequest(q) /\ q.op \notin NetOps /\ Confirmed(q, C)
<1>1. CASE rows = {}
  BY <1>1, HarmlessQuery DEF NextOfBatch, Harmless, Confirmed
<1>2. CASE rows # {}
  <2>1. PICK row : row = CHOOSE x \in rows : TRUE
    OBVIOUS
  <2>2. row \in rows
    BY <1>2, <2>1
  <2>3. PICK q : q = Request("batchTerminate", row, rows \ {row})
    OBVIOUS
  <2>4. NextOfBatch(rows) = {q}
    BY <1>2, <2>1, <2>3 DEF NextOfBatch
  <2>5. IsRequest(q) /\ q.op = "batchTerminate" /\ q.key = row /\ q.arg = rows \ {row}
    BY <2>3, RequestFields
  <2> QED
    BY <2>2, <2>4, <2>5 DEF Confirmed, NetOps
<1> QED
  BY <1>1, <1>2

LEMMA EndOfBatchSelects ==
    ASSUME NEW p, HandFields \cup {"view", "busy"} \subseteq DOMAIN p, NEW rows
    PROVE  SelectsNone(p, EndOfBatch(p, rows))
BY DEF EndOfBatch, SelectsNone, HandFields

LEMMA InstancesConfirmations ==
    ASSUME InstancesSound,
           \/ InstancesHandleBatchTerminate \/ InstancesCancelBox \/ InstancesBatchConfirmed
           \/ InstancesBatchTerminated
           \/ \E row \in Keys : InstancesHandleTerminate(row)
           \/ \E ok \in BOOLEAN : \/ InstancesTerminateConfig(ok) \/ InstancesTerminateCode(ok)
                                  \/ InstancesTerminatePrompt(ok)
    PROVE  InstancesStep
<1>f. HandFields \cup {"view", "busy"} \subseteq DOMAIN page
  BY DEF InstancesSound, NetSound, HandSound, InHand
<1>h. InHand(page) /\ \A r \in DOMAIN calls : Confirmed(r, page.confirmed)
  BY DEF InstancesSound, HandSound
<1>n. PICK none : none = {}
  OBVIOUS
<1>1. CASE InstancesHandleBatchTerminate
  <2>1. SendsNothing /\ page' = [page EXCEPT !.box = page.selected]
    BY <1>1 DEF InstancesHandleBatchTerminate
  <2>2. /\ InHand(page') /\ page'.confirmed = page.confirmed /\ DOMAIN page' = DOMAIN page
        /\ page'.view = page.view /\ page'.busy = page.busy
    BY <1>f, <1>h, <2>1 DEF InHand, HandFields
  <2> QED
    BY <1>n, <2>1, <2>2, InstancesKept
<1>2. CASE InstancesCancelBox
  <2>1. SendsNothing /\ page' = [page EXCEPT !.box = None]
    BY <1>2 DEF InstancesCancelBox
  <2>2. /\ InHand(page') /\ page'.confirmed = page.confirmed /\ DOMAIN page' = DOMAIN page
        /\ page'.view = page.view /\ page'.busy = page.busy
    BY <1>f, <1>h, <2>1 DEF InHand, HandFields
  <2> QED
    BY <1>n, <2>1, <2>2, InstancesKept
<1>3. CASE InstancesBatchConfirmed
  <2>0. PICK p : p = [page EXCEPT !.box = None, !.confirmed = page.confirmed \cup page.box]
    OBVIOUS
  <2>1. /\ page.box # None /\ Sends(NextOfBatch(page.selected))
        /\ page' = EndOfBatch(p, page.selected)
    BY <1>3, <2>0 DEF InstancesBatchConfirmed, BatchTargets
  <2>2. /\ DOMAIN p = DOMAIN page /\ p.box = None /\ p.confirmed = page.confirmed \cup page.box
        /\ \A f \in {"view", "busy", "selected", "shown", "prompts"} : p[f] = page[f]
    BY <1>f, <2>0 DEF HandFields
  <2>3. SelectsNone(p, page')
    BY <1>f, <2>1, <2>2, EndOfBatchSelects DEF HandFields
  <2>4. /\ InHand(page') /\ page'.confirmed = page.confirmed \cup page.box
        /\ DOMAIN page' = DOMAIN page /\ page'.view = page.view /\ page'.busy = page.busy
    BY <1>h, <2>2, <2>3 DEF InHand, SelectsNone
  <2>5. page.selected \subseteq page'.confirmed
    BY <1>h, <2>1, <2>4 DEF InHand
  <2>6. PICK rs : rs = NextOfBatch(page.selected)
    OBVIOUS
  <2>7. \A q \in rs : IsRequest(q) /\ q.op \notin NetOps /\ Confirmed(q, page'.confirmed)
    BY <2>5, <2>6, BatchGoesOn
  <2> QED
    BY <2>1, <2>4, <2>6, <2>7, InstancesKept
<1>4. CASE InstancesBatchTerminated
  <2>1. PICK r \in InFlight("batchTerminate") :
            SettledBy(Instances, r, NextOfBatch(r.arg)) /\ page' = EndOfBatch(page, r.arg)
    BY <1>4 DEF InstancesBatchTerminated
  <2>2. r \in DOMAIN calls /\ r.op = "batchTerminate" /\ r.op \notin NetOps
    BY DEF InFlight, BagToSet, NetOps
  <2>3. r.arg \subseteq page.confirmed
    BY <1>h, <2>2 DEF Confirmed
  <2>4. SelectsNone(page, page')
    BY <1>f, <2>1, EndOfBatchSelects
  <2>5. /\ InHand(page') /\ page'.confirmed = page.confirmed /\ DOMAIN page' = DOMAIN page
        /\ page'.view = page.view /\ page'.busy = page.busy
    BY <1>h, <2>4 DEF InHand, SelectsNone
  <2>6. PICK rs : rs = NextOfBatch(r.arg)
    OBVIOUS
  <2>7. \A q \in rs : IsRequest(q) /\ q.op \notin NetOps /\ Confirmed(q, page'.confirmed)
    BY <2>3, <2>5, <2>6, BatchGoesOn
  <2> QED
    BY <2>1, <2>2, <2>5, <2>6, <2>7, InstancesKept
<1>5. ASSUME NEW row \in Keys, InstancesHandleTerminate(row)
      PROVE  InstancesStep
  <2>1. PICK q : q = Request("config", row, None)
    OBVIOUS
  <2>2. Sends({q}) /\ page' = [page EXCEPT !.confirmed = page.confirmed \cup {row}]
    BY <1>5, <2>1 DEF InstancesHandleTerminate
  <2>3. IsRequest(q) /\ q.op = "config" /\ q.key = row
    BY <2>1, RequestFields
  <2>4. /\ InHand(page') /\ page'.confirmed = page.confirmed \cup {row}
        /\ DOMAIN page' = DOMAIN page /\ page'.view = page.view /\ page'.busy = page.busy
    BY <1>f, <1>h, <2>2 DEF InHand, HandFields
  <2>5. Confirmed(q, page'.confirmed) /\ q.op \notin NetOps
    BY <2>3, <2>4 DEF Confirmed, NetOps
  <2>6. PICK rs : rs = {q}
    OBVIOUS
  <2>7. \A e \in rs : IsRequest(e) /\ e.op \notin NetOps /\ Confirmed(e, page'.confirmed)
    BY <2>3, <2>5, <2>6
  <2>8. page.confirmed \subseteq page'.confirmed
    BY <2>4
  <2> QED
    BY <2>2, <2>4, <2>6, <2>7, <2>8, InstancesKept
<1>6. ASSUME NEW ok \in BOOLEAN, InstancesTerminateConfig(ok)
      PROVE  InstancesStep
  <2>1. PICK r \in InFlight("config") :
            /\ SettledBy(Instances, r, {IF ok /\ page.channel THEN Request("captcha", r.key, None)
                                        ELSE Request("terminate", r.key, {})})
            /\ page' = page
    BY <1>6 DEF InstancesTerminateConfig
  <2>2. PICK q : q = IF ok /\ page.channel THEN Request("captcha", r.key, None)
                     ELSE Request("terminate", r.key, {})
    OBVIOUS
  <2>3. IsRequest(q) /\ q.op \in {"captcha", "terminate"} /\ q.key = r.key
    BY <2>2, RequestFields
  <2>4. r \in DOMAIN calls /\ r.op = "config" /\ r.op \notin NetOps
    BY DEF InFlight, BagToSet, NetOps
  <2>5. Confirmed(q, page'.confirmed) /\ q.op \notin NetOps
    BY <1>h, <2>1, <2>3, <2>4 DEF Confirmed, NetOps
  <2>6. PICK rs : rs = {q}
    OBVIOUS
  <2> QED
    BY <1>h, <2>1, <2>2, <2>3, <2>4, <2>5, <2>6, InstancesKept
<1>7. ASSUME NEW ok \in BOOLEAN, InstancesTerminateCode(ok)
      PROVE  InstancesStep
  <2>1. PICK r \in InFlight("captcha") :
            /\ SettledBy(Instances, r, {})
            /\ page' = [page EXCEPT !.prompts = IF ok THEN page.prompts \cup {r.key}
                                                ELSE page.prompts]
    BY <1>7 DEF InstancesTerminateCode
  <2>2. r \in DOMAIN calls /\ r.op = "captcha" /\ r.op \notin NetOps
    BY DEF InFlight, BagToSet, NetOps
  <2>3. r.key \in page.confirmed
    BY <1>h, <2>2 DEF Confirmed
  <2>4. /\ InHand(page') /\ page'.confirmed = page.confirmed /\ DOMAIN page' = DOMAIN page
        /\ page'.view = page.view /\ page'.busy = page.busy
    BY <1>f, <1>h, <2>1, <2>3 DEF InHand, HandFields
  <2>5. SettledBy(Instances, r, none)
    BY <1>n, <2>1
  <2>6. page.confirmed \subseteq page'.confirmed
    BY <2>4
  <2> QED
    BY <1>n, <2>2, <2>4, <2>5, <2>6, InstancesKept
<1>8. ASSUME NEW ok \in BOOLEAN, InstancesTerminatePrompt(ok)
      PROVE  InstancesStep
  <2>1. PICK row \in page.prompts :
            /\ page' = [page EXCEPT !.prompts = page.prompts \ {row}]
            /\ Sends(IF ok THEN {Request("terminate", row, {"code"})} ELSE {})
    BY <1>8 DEF InstancesTerminatePrompt
  <2>2. PICK q : q = Request("terminate", row, {"code"})
    OBVIOUS
  <2>3. IsRequest(q) /\ q.op = "terminate" /\ q.key = row
    BY <2>2, RequestFields
  <2>4. /\ InHand(page') /\ page'.confirmed = page.confirmed /\ DOMAIN page' = DOMAIN page
        /\ page'.view = page.view /\ page'.busy = page.busy
    BY <1>f, <1>h, <2>1 DEF InHand, HandFields
  <2>5. Confirmed(q, page'.confirmed) /\ q.op \notin NetOps
    BY <1>h, <2>1, <2>3, <2>4 DEF Confirmed, NetOps, InHand
  <2>6. PICK rs : rs = IF ok THEN {q} ELSE {}
    OBVIOUS
  <2>7. \A e \in rs : IsRequest(e) /\ e.op \notin NetOps /\ Confirmed(e, page'.confirmed)
    BY <2>3, <2>5, <2>6
  <2> QED
    BY <2>1, <2>2, <2>4, <2>6, <2>7, InstancesKept
<1> QED
  BY <1>1, <1>2, <1>3, <1>4, <1>5, <1>6, <1>7, <1>8

LEMMA InstancesOperations ==
    ASSUME InstancesSound,
           InstancesDo500M \/ InstancesNetworkDone \/ \E row \in Keys : InstancesConfirmIPv6(row)
    PROVE  InstancesSound' /\ Operations!Next
<1>f. HandFields \cup {"view", "busy"} \subseteq DOMAIN page /\ DOMAIN page.busy = Keys
  BY DEF InstancesSound, NetSound, HandSound, InHand
<1>h. InHand(page) /\ \A r \in DOMAIN calls : Confirmed(r, page.confirmed)
  BY DEF InstancesSound, HandSound
<1>1. ASSUME NEW row \in Keys, NEW op \in NetOps, page.busy[row] = None,
             Sends({Request(op, row, None)}), NEW p, DOMAIN p = DOMAIN page,
             \A f \in HandFields \cup {"view", "busy"} : p[f] = page[f],
             page' = Busied(p, row, op)
      PROVE  InstancesSound' /\ Operations!Next
  <2>1. /\ DOMAIN page' = DOMAIN page /\ page'.busy = [page.busy EXCEPT ![row] = op]
        /\ \A f \in HandFields \cup {"view"} : page'[f] = page[f]
    BY <1>f, <1>1 DEF Busied, HandFields
  <2>2. NetSound' /\ Operations!Next
    BY <1>1, <2>1, NetStarts DEF InstancesSound
  <2>3. InHand(page') /\ page'.confirmed = page.confirmed
    BY <1>h, <2>1 DEF InHand, HandFields
  <2>4. PICK q : q = Request(op, row, None)
    OBVIOUS
  <2>5. Confirmed(q, page.confirmed)
    BY <2>4, RequestFields DEF Confirmed, NetOps
  <2>6. \A r \in DOMAIN calls' : r = q \/ r \in DOMAIN calls
    BY <1>1, <2>4, SentCalls DEF InstancesSound, NetSound, CallsSound
  <2> QED
    BY <1>h, <2>2, <2>3, <2>5, <2>6 DEF InstancesSound, HandSound
<1>2. CASE InstancesDo500M
  <2>1. PICK row \in Keys :
            /\ page.busy[row] = None /\ Sends({Request("500m", row, None)})
            /\ page' = Busied([page EXCEPT !.dialog = None], row, "500m")
    BY <1>2 DEF InstancesDo500M
  <2>2. PICK p : p = [page EXCEPT !.dialog = None]
    OBVIOUS
  <2>3. /\ DOMAIN p = DOMAIN page
        /\ \A f \in HandFields \cup {"view", "busy"} : p[f] = page[f]
    BY <1>f, <2>2 DEF HandFields
  <2>4. "500m" \in NetOps
    BY DEF NetOps
  <2> QED
    BY <1>1, <2>1, <2>2, <2>3, <2>4
<1>3. ASSUME NEW row \in Keys, InstancesConfirmIPv6(row)
      PROVE  InstancesSound' /\ Operations!Next
  <2>1. "ipv6" \in NetOps
    BY DEF NetOps
  <2>2. /\ page.busy[row] = None /\ Sends({Request("ipv6", row, None)})
        /\ page' = Busied(page, row, "ipv6")
    BY <1>3 DEF InstancesConfirmIPv6
  <2> QED
    BY <1>1, <2>1, <2>2
<1>4. CASE InstancesNetworkDone
  <2>1. NetSound' /\ Operations!Next
    BY <1>4, NetEnds DEF InstancesSound
  <2>2. PICK q : SettledBy(Instances, q, {}) /\ page' = [page EXCEPT !.busy[q.key] = None]
    BY <1>4 DEF InstancesNetworkDone
  <2>3. InHand(page') /\ page'.confirmed = page.confirmed
    BY <1>f, <1>h, <2>2 DEF InHand, HandFields
  <2>4. \A r \in DOMAIN calls' : r \in DOMAIN calls
    BY <2>2, SettledCalls DEF InstancesSound, NetSound, CallsSound
  <2> QED
    BY <1>h, <2>1, <2>3, <2>4 DEF InstancesSound, HandSound
<1> QED
  BY <1>2, <1>3, <1>4

LEMMA InstancesSteps ==
    ASSUME InstancesSound, InstancesNext
    PROVE  InstancesStep
<1>1. InstancesAnswers => InstancesStep
  BY InstancesClicks, InstancesAnswered, InstancesSelections, InstancesConfirmations,
     InstancesOperations DEF InstancesAnswers, InstancesStep
<1>2. InstancesNext => InstancesAnswers \/ InstancesStep
  BY InstancesClicks, InstancesSelections, InstancesConfirmations, InstancesOperations
     DEF InstancesNext, InstancesStep
<1> QED
  BY <1>1, <1>2

LEMMA InstancesInitSound == InstancesInit => InstancesSound
<1> SUFFICES ASSUME InstancesInit PROVE InstancesSound
  OBVIOUS
<1>1. PICK t, i : t = Request("tenants", None, None)
                  /\ i = Request("instances", Query(None, 1), None)
  OBVIOUS
<1>2. calls = SetToBag({t, i})
  BY <1>1 DEF InstancesInit
<1>3. /\ IsRequest(t) /\ t.op = "tenants"
      /\ IsRequest(i) /\ i.op = "instances"
  BY <1>1, RequestFields
<1>4. IsABag(calls) /\ DOMAIN calls = {t, i}
  BY <1>2 DEF SetToBag, IsABag
<1>5. \A r \in DOMAIN calls : IsRequest(r) /\ r.op \notin NetOps /\ Confirmed(r, {})
  BY <1>3, <1>4 DEF NetOps, Confirmed
<1>6. /\ page.view = Instances /\ DOMAIN page.busy = Keys
      /\ page.selected = {} /\ page.box = None /\ page.prompts = {} /\ page.confirmed = {}
      /\ HandFields \cup {"view", "busy"} \subseteq DOMAIN page
  BY DEF InstancesInit, Opens, HandFields
<1> QED
  BY <1>4, <1>5, <1>6 DEF InstancesSound, NetSound, CallsSound, HandSound, InHand

-----------------------------------------------------------------------------
(* The synchronisation of tenants in Tenants.vue                            *)

SyncingSound ==
    /\ CallsSound
    /\ page.view = Tenants /\ {"view", "syncing"} \subseteq DOMAIN page
    /\ \A r \in DOMAIN calls : r.op = "sync" =>
          page.syncing \in Keys /\ r.key = page.syncing /\ r.arg = None /\ calls[r] = 1

SyncingStep == SyncingSound' /\ [Operations!Next]_UnderWay

LEMMA SyncingPlain ==
    ASSUME NEW r, r.op # "sync"
    PROVE  Plain(Tenants, r)
BY ExclusiveViewsDiffer DEF Plain, Occupies

LEMMA SyncingKept ==
    ASSUME SyncingSound, NEW rs, \A q \in rs : IsRequest(q) /\ q.op # "sync",
           \/ Sends(rs) \/ SendsNothing
           \/ \E view, r : r.op # "sync" /\ SettledBy(view, r, rs),
           DOMAIN page' = DOMAIN page, page'.view = page.view, page'.syncing = page.syncing
    PROVE  SyncingStep
<1>1. CallsSound' /\ UNCHANGED UnderWay
  BY PlainStep, SyncingPlain DEF SyncingSound, ExclusiveViews
<1>2. ASSUME NEW r \in DOMAIN calls', r.op = "sync"
      PROVE  r \in DOMAIN calls /\ calls'[r] = calls[r]
  <2>1. CASE Sends(rs)
    BY <1>2, <2>1, SentCalls DEF SyncingSound, CallsSound
  <2>2. CASE \E view, q : q.op # "sync" /\ SettledBy(view, q, rs)
    BY <1>2, <2>2, SettledCalls DEF SyncingSound, CallsSound
  <2>3. CASE SendsNothing
    BY <2>3 DEF SendsNothing
  <2> QED
    BY <2>1, <2>2, <2>3
<1> QED
  BY <1>1, <1>2 DEF SyncingSound, SyncingStep

LEMMA SyncStarts ==
    ASSUME SyncingSound, NEW t \in Keys, TenantsSync(t)
    PROVE  SyncingStep
<1>1. PICK q : q = Request("sync", t, None)
  OBVIOUS
<1>2. IsRequest(q) /\ q.op = "sync" /\ q.key = t /\ q.arg = None
  BY <1>1, RequestFields
<1>3. /\ page.syncing = None /\ Sends({q}) /\ page' = [page EXCEPT !.syncing = t]
  BY <1>1 DEF TenantsSync, SyncFree
<1>4. DOMAIN page' = DOMAIN page /\ page'.view = Tenants /\ page'.syncing = t
  BY <1>3 DEF SyncingSound
<1>5. \A r \in DOMAIN calls : r.op # "sync"
  BY <1>3, BrowserAssumption DEF SyncingSound
<1>6. /\ Occupies(Tenants, q, None) /\ \A e \in Things : Occupies(Tenants, q, e) => e = None
      /\ \A r \in DOMAIN calls : ~Occupies(Tenants, r, None)
  BY <1>2, <1>5, ExclusiveViewsDiffer DEF Occupies
<1>7. /\ CallsSound' /\ Operations!Next
      /\ calls'[q] = 1 /\ \A r : r \in DOMAIN calls' <=> r = q \/ r \in DOMAIN calls
  BY <1>2, <1>3, <1>4, <1>6, StartStep DEF SyncingSound, ExclusiveViews, Things
<1> QED
  BY <1>2, <1>4, <1>5, <1>7 DEF SyncingSound, SyncingStep

LEMMA SyncEnds ==
    ASSUME SyncingSound, NEW ok \in BOOLEAN, TenantsActed("sync", ok)
    PROVE  SyncingStep
<1>1. PICK rs : rs = IF ok THEN {Request("list", page.no, None)} ELSE {}
  OBVIOUS
<1>2. PICK p : p = IF ok THEN TenantsLoad(page) ELSE page
  OBVIOUS
<1>3. PICK q \in InFlight("sync") :
          SettledBy(Tenants, q, rs) /\ page' = [p EXCEPT !.syncing = None]
  BY <1>1, <1>2 DEF TenantsActed
<1>4. DOMAIN page' = DOMAIN page /\ page'.view = Tenants
  BY <1>2, <1>3 DEF TenantsLoad, SyncingSound
<1>5. \A r \in rs : IsRequest(r) /\ r.op # "sync"
  BY <1>1, RequestFields
<1>6. q \in DOMAIN calls /\ q.op = "sync"
  BY <1>3 DEF InFlight, BagToSet
<1>7. \A r \in DOMAIN calls : r.op = "sync" => r = q /\ calls[r] = 1
  BY <1>6 DEF SyncingSound, CallsSound, IsRequest
<1>8. /\ OneOn(Tenants, None) /\ Occupies(Tenants, q, None)
      /\ \A e \in Things : Occupies(Tenants, q, e) => e = None
  BY <1>6, <1>7, ExclusiveViewsDiffer DEF OneOn, Occupies
<1>9. \A r \in rs : IsRequest(r) /\ Plain(Tenants, r)
  BY <1>5, SyncingPlain
<1>10. CallsSound' /\ Operations!Next
  BY <1>3, <1>4, <1>8, <1>9, EndStep DEF SyncingSound, ExclusiveViews, Things
<1>11. \A r \in DOMAIN calls' : r.op # "sync"
  BY <1>3, <1>5, <1>7, SettledCalls DEF SyncingSound, CallsSound
<1> QED
  BY <1>4, <1>10, <1>11 DEF SyncingSound, SyncingStep

LEMMA TenantsClicks ==
    ASSUME SyncingSound,
           \/ \E t \in Keys : TenantsAskDelete(t) \/ TenantsCheckAlive(t)
           \/ \E sure \in BOOLEAN : TenantsDelete(sure)
           \/ \E no \in 1..2 : TenantsPage(no)
           \/ TenantsSearch \/ TenantsSearchTimer \/ TenantsRefreshPlans
    PROVE  SyncingStep
<1>f. {"view", "syncing"} \subseteq DOMAIN page
  BY DEF SyncingSound
<1>n. PICK none : none = {}
  OBVIOUS
<1>s. ASSUME NEW op, NEW key, op # "sync", Sends({Request(op, key, None)}),
             DOMAIN page' = DOMAIN page, page'.view = page.view, page'.syncing = page.syncing
      PROVE  SyncingStep
  <2>1. PICK rs : rs = {Request(op, key, None)}
    OBVIOUS
  <2>2. \A q \in rs : IsRequest(q) /\ q.op # "sync"
    BY <1>s, <2>1, RequestFields
  <2> QED
    BY <1>s, <2>1, <2>2, SyncingKept
<1>1. ASSUME NEW t, TenantsAskDelete(t)
      PROVE  SyncingStep
  BY <1>f, <1>n, <1>1, SyncingKept DEF TenantsAskDelete
<1>2. ASSUME NEW t, TenantsCheckAlive(t)
      PROVE  SyncingStep
  BY <1>f, <1>s, <1>2 DEF TenantsCheckAlive
<1>3. ASSUME NEW sure \in BOOLEAN, TenantsDelete(sure)
      PROVE  SyncingStep
  <2>1. PICK rs : rs = IF sure THEN {Request("delete", page.box, None)} ELSE {}
    OBVIOUS
  <2>2. Sends(rs) /\ page' = [page EXCEPT !.box = None]
    BY <1>3, <2>1 DEF TenantsDelete
  <2>3. \A q \in rs : IsRequest(q) /\ q.op # "sync"
    BY <2>1, RequestFields
  <2> QED
    BY <1>f, <2>2, <2>3, SyncingKept
<1>4. ASSUME NEW no, TenantsPage(no)
      PROVE  SyncingStep
  BY <1>f, <1>s, <1>4 DEF TenantsPage, TenantsLoad
<1>5. CASE TenantsSearch
  BY <1>f, <1>n, <1>5, SyncingKept DEF TenantsSearch
<1>6. CASE TenantsSearchTimer
  BY <1>f, <1>s, <1>6 DEF TenantsSearchTimer, TenantsLoad
<1>7. CASE TenantsRefreshPlans
  BY <1>f, <1>s, <1>7 DEF TenantsRefreshPlans
<1> QED
  BY <1>1, <1>2, <1>3, <1>4, <1>5, <1>6, <1>7

LEMMA TenantsAnswered ==
    ASSUME SyncingSound, NEW ok \in BOOLEAN,
           TenantsListed(ok) \/ \E op \in {"delete", "alive", "plans"} : TenantsActed(op, ok)
    PROVE  SyncingStep
<1>f. {"view", "syncing"} \subseteq DOMAIN page
  BY DEF SyncingSound
<1>1. CASE TenantsListed(ok)
  <2>1. PICK r \in InFlight("list") : SettledBy(Tenants, r, {})
    BY <1>1 DEF TenantsListed
  <2>2. r.op # "sync"
    BY DEF InFlight
  <2>3. DOMAIN page' = DOMAIN page /\ page'.view = page.view /\ page'.syncing = page.syncing
    BY <1>f, <1>1 DEF TenantsListed
  <2>4. PICK none : none = {}
    OBVIOUS
  <2> QED
    BY <2>1, <2>2, <2>3, <2>4, SyncingKept
<1>2. ASSUME NEW op \in {"delete", "alive", "plans"}, TenantsActed(op, ok)
      PROVE  SyncingStep
  <2>1. PICK rs : rs = IF ok THEN {Request("list", page.no, None)} ELSE {}
    OBVIOUS
  <2>2. PICK r \in InFlight(op) : SettledBy(Tenants, r, rs)
    BY <1>2, <2>1 DEF TenantsActed
  <2>3. r.op # "sync"
    BY DEF InFlight
  <2>4. DOMAIN page' = DOMAIN page /\ page'.view = page.view /\ page'.syncing = page.syncing
    BY <1>f, <1>2 DEF TenantsActed, TenantsLoad
  <2>5. \A q \in rs : IsRequest(q) /\ q.op # "sync"
    BY <2>1, RequestFields
  <2> QED
    BY <2>2, <2>3, <2>4, <2>5, SyncingKept
<1> QED
  BY <1>1, <1>2

LEMMA TenantsSteps == ASSUME SyncingSound, TenantsNext PROVE SyncingStep
BY TenantsClicks, TenantsAnswered, SyncStarts, SyncEnds DEF TenantsNext, TenantsAnswers

LEMMA TenantsInitSound == TenantsInit => SyncingSound
<1> SUFFICES ASSUME TenantsInit PROVE SyncingSound
  OBVIOUS
<1>1. PICK q : q = Request("list", 1, None)
  OBVIOUS
<1>2. calls = SetToBag({q}) /\ page.view = Tenants /\ {"view", "syncing"} \subseteq DOMAIN page
  BY <1>1 DEF TenantsInit, Opens
<1>3. IsRequest(q) /\ q.op = "list"
  BY <1>1, RequestFields
<1> QED
  BY <1>2, <1>3 DEF SyncingSound, CallsSound, SetToBag, IsABag

-----------------------------------------------------------------------------
(* Export and restore in Backup.vue                                         *)

\* All requests of the page are of this kind.  A confirmation is open only while none is
\* under way, and keeps the export from being started.
BackupSound ==
    /\ CallsSound
    /\ page.view = Backup /\ {"view", "loading", "box"} \subseteq DOMAIN page
    /\ page.loading \in BOOLEAN /\ page.box \in BOOLEAN /\ (page.box => ~page.loading)
    /\ \A r \in DOMAIN calls :
          r.op \in {"export", "restore"} /\ page.loading /\ calls[r] = 1
    /\ \A r, s \in DOMAIN calls : r = s

BackupStep == BackupSound' /\ [Operations!Next]_UnderWay

LEMMA BackupKept ==
    ASSUME BackupSound, SendsNothing, DOMAIN page' = DOMAIN page, page'.view = page.view,
           page'.loading = page.loading, page'.box \in BOOLEAN, page'.box => ~page.loading
    PROVE  BackupStep
<1>1. PICK none : none = {}
  OBVIOUS
<1>2. CallsSound' /\ UNCHANGED UnderWay
  <2>1. CallsSound /\ page.view \in ExclusiveViews
    BY DEF BackupSound, ExclusiveViews
  <2>2. \A q \in none : IsRequest(q) /\ Plain(page.view, q)
    BY <1>1
  <2> QED
    BY <2>1, <2>2, PlainStep
<1> QED
  BY <1>2 DEF BackupSound, BackupStep, SendsNothing

LEMMA BackupStarts ==
    ASSUME BackupSound, ~page.loading, NEW op \in {"export", "restore"},
           Sends({Request(op, None, None)}), DOMAIN page' = DOMAIN page, page'.view = page.view,
           page'.loading = TRUE, page'.box = FALSE
    PROVE  BackupStep
<1>1. PICK q : q = Request(op, None, None)
  OBVIOUS
<1>2. IsRequest(q) /\ q.op = op
  BY <1>1, RequestFields
<1>3. DOMAIN calls = {}
  BY DEF BackupSound
<1>4. Occupies(Backup, q, None) /\ \A e \in Things : Occupies(Backup, q, e) => e = None
  BY <1>2, ExclusiveViewsDiffer DEF Occupies
<1>5. /\ CallsSound' /\ Operations!Next
      /\ calls'[q] = 1 /\ \A r : r \in DOMAIN calls' <=> r = q \/ r \in DOMAIN calls
  BY <1>1, <1>2, <1>3, <1>4, StartStep DEF BackupSound, ExclusiveViews, Things
<1>6. \A r \in DOMAIN calls' : r = q
  BY <1>3, <1>5
<1>7. BackupSound'
  BY <1>2, <1>5, <1>6 DEF BackupSound
<1> QED
  BY <1>5, <1>7 DEF BackupStep

LEMMA BackupEnds ==
    ASSUME BackupSound, NEW q, SettledBy(Backup, q, {}), DOMAIN page' = DOMAIN page,
           page'.view = page.view, page'.loading = FALSE, page'.box = page.box
    PROVE  BackupStep
<1>1. PICK none : none = {}
  OBVIOUS
<1>2. q \in DOMAIN calls
  BY SettledCalls DEF BackupSound, CallsSound
<1>3. /\ OneOn(Backup, None) /\ Occupies(Backup, q, None)
      /\ \A e \in Things : Occupies(Backup, q, e) => e = None
  BY <1>2, ExclusiveViewsDiffer DEF OneOn, Occupies, BackupSound
<1>4. CallsSound' /\ Operations!Next
  BY <1>1, <1>3, EndStep DEF BackupSound, ExclusiveViews, Things
<1>5. DOMAIN calls' = {}
  <2>1. \A r \in DOMAIN calls : r = q /\ calls[r] = 1
    BY <1>2 DEF BackupSound
  <2>2. IsABag(calls) /\ SettledBy(Backup, q, none)
    BY <1>1 DEF BackupSound, CallsSound
  <2>3. \A r : r \in DOMAIN calls' <=> r \in none \/ (r \in DOMAIN calls /\ (r = q => calls[r] > 1))
    BY <2>2, SettledCalls
  <2>4. \A r : r \notin DOMAIN calls'
    <3> SUFFICES ASSUME NEW r, r \in DOMAIN calls' PROVE FALSE
      OBVIOUS
    <3>1. r \notin none
      BY <1>1
    <3>2. r \in DOMAIN calls /\ (r = q => calls[r] > 1)
      BY <2>3, <3>1
    <3>3. r = q /\ calls[r] = 1
      BY <2>1, <3>2
    <3> QED
      BY <3>2, <3>3
  <2> QED
    BY <2>4
<1> QED
  BY <1>4, <1>5 DEF BackupSound, BackupStep

LEMMA BackupSteps == ASSUME BackupSound, BackupNext PROVE BackupStep
<1>f. {"view", "loading", "box"} \subseteq DOMAIN page
  BY DEF BackupSound
<1>1. CASE BackupFill
  BY <1>f, <1>1, BackupKept DEF BackupFill, BackupSound
<1>2. CASE BackupExport
  BY <1>f, <1>2, BackupStarts DEF BackupExport, BackupFree, BackupSound
<1>3. CASE BackupAskRestore
  BY <1>f, <1>3, BackupKept DEF BackupAskRestore, BackupFree
<1>4. CASE BackupRestore(TRUE)
  <2>1. ~page.loading /\ Sends({Request("restore", None, None)})
    BY <1>4 DEF BackupRestore, BackupSound
  <2>2. page' = [page EXCEPT !.box = FALSE, !.loading = TRUE]
    BY <1>4 DEF BackupRestore, RestoreStarted
  <2> QED
    BY <1>f, <2>1, <2>2, BackupStarts
<1>5. CASE BackupRestore(FALSE)
  <2>1. PICK none : none = {}
    OBVIOUS
  <2>2. Sends(none) /\ page' = [page EXCEPT !.box = FALSE]
    BY <1>5, <2>1 DEF BackupRestore
  <2>3. CallsSound' /\ UNCHANGED UnderWay
    BY <1>f, <2>1, <2>2, PlainStep DEF BackupSound, ExclusiveViews
  <2>4. (\A r : r \in DOMAIN calls' <=> r \in DOMAIN calls)
        /\ \A r \in DOMAIN calls : calls'[r] = calls[r]
    BY <2>1, <2>2, SentCalls DEF BackupSound, CallsSound
  <2> QED
    BY <1>f, <2>2, <2>3, <2>4 DEF BackupSound, BackupStep
<1>6. ASSUME NEW ok \in BOOLEAN, BackupExported(ok)
      PROVE  BackupStep
  BY <1>f, <1>6, BackupEnds DEF BackupExported
<1>7. ASSUME NEW ok \in BOOLEAN, BackupRestored(ok)
      PROVE  BackupStep
  BY <1>f, <1>7, BackupEnds DEF BackupRestored
<1>8. ASSUME NEW sure \in BOOLEAN, BackupRestore(sure)
      PROVE  BackupStep
  BY <1>4, <1>5, <1>8
<1> QED
  BY <1>1, <1>2, <1>3, <1>6, <1>7, <1>8 DEF BackupNext, BackupAnswers

LEMMA BackupInitSound == BackupInit => BackupSound
BY DEF BackupInit, Opens, BackupSound, CallsSound, EmptyBag, SetToBag, IsABag

-----------------------------------------------------------------------------
ExclusiveInv == InstancesSound \/ SyncingSound \/ BackupSound

LEMMA ExclusiveInvViews ==
    /\ InstancesSound => page.view = Instances
    /\ SyncingSound => page.view = Tenants
    /\ BackupSound => page.view = Backup
BY DEF InstancesSound, NetSound, SyncingSound, BackupSound

LEMMA ExclusiveStep ==
    ExclusiveInv /\ [ExclusiveNext]_vars => ExclusiveInv' /\ [Operations!Next]_UnderWay
<1> SUFFICES ASSUME ExclusiveInv, [ExclusiveNext]_vars
             PROVE  ExclusiveInv' /\ [Operations!Next]_UnderWay
  OBVIOUS
<1>1. CASE At(Instances) /\ InstancesNext
  BY <1>1, InstancesSteps, ExclusiveInvViews, ExclusiveViewsDiffer
     DEF At, ExclusiveInv, InstancesStep
<1>2. CASE At(Tenants) /\ TenantsNext
  BY <1>2, TenantsSteps, ExclusiveInvViews, ExclusiveViewsDiffer DEF At, ExclusiveInv, SyncingStep
<1>3. CASE At(Backup) /\ BackupNext
  BY <1>3, BackupSteps, ExclusiveInvViews, ExclusiveViewsDiffer DEF At, ExclusiveInv, BackupStep
<1>4. CASE UNCHANGED vars
  <2>1. ExclusiveInv'
    BY <1>4 DEF vars, ExclusiveInv, InstancesSound, NetSound, HandSound, SyncingSound, BackupSound,
        CallsSound
  <2>2. UNCHANGED UnderWay
    BY <1>4 DEF vars, UnderWay, OperationsOf, At, InFlight
  <2> QED
    BY <2>1, <2>2
<1> QED
  BY <1>1, <1>2, <1>3, <1>4 DEF ExclusiveNext

\* The pages that keep operations apart implement Exclusive: a network operation of an
\* instance, a synchronisation of tenants, an export or a restore starts only when the
\* last one on the same thing has ended, whatever the user clicks and however late the
\* answers are; for any instances and tenants.
THEOREM PagesExclusive == ExclusiveSpec => OneAtATime
<1>1. ExclusiveInit => ExclusiveInv
  BY InstancesInitSound, TenantsInitSound, BackupInitSound DEF ExclusiveInit, ExclusiveInv
<1>2. ExclusiveInit => UnderWay = Operations!Free
  <2> SUFFICES ASSUME ExclusiveInit PROVE UnderWay = Operations!Free
    OBVIOUS
  <2>1. \A r \in DOMAIN calls : r.op \in {"tenants", "instances", "list"}
    <3>1. PICK t, i, l : /\ t = Request("tenants", None, None)
                         /\ i = Request("instances", Query(None, 1), None)
                         /\ l = Request("list", 1, None)
      OBVIOUS
    <3>2. t.op = "tenants" /\ i.op = "instances" /\ l.op = "list"
      BY <3>1, RequestFields
    <3>3. calls = SetToBag({t, i}) \/ calls = SetToBag({l}) \/ calls = SetToBag({})
      BY <3>1 DEF ExclusiveInit, InstancesInit, TenantsInit, BackupInit, EmptyBag
    <3> QED
      BY <3>2, <3>3 DEF SetToBag
  <2>2. ASSUME NEW d \in Things PROVE OperationsOf(d) = {}
    BY <2>1 DEF OperationsOf, InFlight, BagToSet
  <2>3. \A d \in Things : UnderWayOn(d) = EmptyBag
    BY <2>2, UnderWayFree
  <2> QED
    BY <2>3 DEF UnderWay, UnderWayOn, Things, Operations!Free, Operations!EmptyBag, EmptyBag,
                Operations!SetToBag, SetToBag
<1> QED
  BY <1>1, <1>2, ExclusiveStep, PTL DEF ExclusiveSpec, OneAtATime, Operations!Spec

-----------------------------------------------------------------------------
(* The batches of CreateTasks.vue                                           *)

TaskFields == {"view", "selected", "shown", "confirmed"}

\* Nothing but confirmed tasks is under deletion, and the selection is in the table.
BatchSound ==
    /\ CallsSound
    /\ page.view = CreateTasks /\ TaskFields \subseteq DOMAIN page
    /\ page.selected \subseteq TaskRowsOf(page.shown)
    /\ \A r \in DOMAIN calls : r.op = "deleteTasks" => r.arg \subseteq page.confirmed

LEMMA BatchKept ==
    ASSUME BatchSound, NEW rs,
           \A q \in rs : IsRequest(q) /\ (q.op = "deleteTasks" => q.arg \subseteq page'.confirmed),
           Sends(rs) \/ SendsNothing \/ \E view, r : SettledBy(view, r, rs),
           DOMAIN page' = DOMAIN page, page'.view = page.view,
           page.confirmed \subseteq page'.confirmed,
           page'.selected \subseteq TaskRowsOf(page'.shown)
    PROVE  BatchSound'
<1>1. CallsSound' /\ \A r \in DOMAIN calls' : r \in rs \/ r \in DOMAIN calls
  <2>1. CASE Sends(rs)
    BY <2>1, SentCalls DEF BatchSound, CallsSound
  <2>2. CASE \E view, q : SettledBy(view, q, rs)
    BY <2>2, SettledCalls DEF BatchSound, CallsSound
  <2>3. CASE SendsNothing
    BY <2>3 DEF SendsNothing, BatchSound, CallsSound
  <2> QED
    BY <2>1, <2>2, <2>3
<1>2. \A r \in DOMAIN calls' : r.op = "deleteTasks" => r.arg \subseteq page'.confirmed
  BY <1>1 DEF BatchSound
<1> QED
  BY <1>1, <1>2 DEF BatchSound

SameBatch(p, q) ==
    /\ DOMAIN q = DOMAIN p
    /\ \A f \in TaskFields : q[f] = p[f]

\* Steps that send at most a request that deletes nothing and keep the batch, or drop it.
LEMMA BatchSame ==
    ASSUME BatchSound, NEW rs, \A q \in rs : IsRequest(q) /\ q.op # "deleteTasks",
           Sends(rs) \/ SendsNothing \/ \E view, r : SettledBy(view, r, rs),
           NEW p, SameBatch(page, p), page' = p \/ page' = [p EXCEPT !.selected = {}]
    PROVE  BatchSound'
<1>f. TaskFields \subseteq DOMAIN page /\ page.selected \subseteq TaskRowsOf(page.shown)
  BY DEF BatchSound
<1>1. /\ DOMAIN p = DOMAIN page /\ p.view = page.view /\ p.selected = page.selected
      /\ p.shown = page.shown /\ p.confirmed = page.confirmed
  BY DEF SameBatch, TaskFields
<1>2. /\ DOMAIN page' = DOMAIN page /\ page'.view = page.view
      /\ page'.confirmed = page.confirmed /\ page'.selected \subseteq TaskRowsOf(page'.shown)
  <2>1. CASE page' = p
    BY <1>f, <1>1, <2>1
  <2>2. CASE page' = [p EXCEPT !.selected = {}]
    BY <1>f, <1>1, <2>2 DEF TaskFields
  <2> QED
    BY <2>1, <2>2
<1> QED
  BY <1>2, BatchKept

LEMMA BatchUnsent ==
    ASSUME BatchSound, SendsNothing, SameBatch(page, page')
    PROVE  BatchSound'
<1>1. PICK rs : rs = {}
  OBVIOUS
<1> QED
  BY <1>1, BatchSame

LEMMA BatchSends ==
    ASSUME BatchSound, NEW op, op # "deleteTasks", NEW key, NEW arg,
           Sends({Request(op, key, arg)}), SameBatch(page, page')
    PROVE  BatchSound'
<1>1. PICK rs : rs = {Request(op, key, arg)}
  OBVIOUS
<1>2. \A q \in rs : IsRequest(q) /\ q.op # "deleteTasks"
  BY <1>1, RequestFields
<1> QED
  BY <1>1, <1>2, BatchSame

\* A list, too, drops the selection with the rows it replaces.
LEMMA BatchListed ==
    ASSUME BatchSound, NEW r, SettledBy(CreateTasks, r, {}), NEW query, NEW ok \in BOOLEAN,
           NEW p, p = CreateTasksListed(page, query, ok),
           page' = p \/ page' = [p EXCEPT !.saving = FALSE]
    PROVE  BatchSound'
<1>f. TaskFields \subseteq DOMAIN page /\ page.selected \subseteq TaskRowsOf(page.shown)
  BY DEF BatchSound
<1>1. PICK s, t : /\ p = [page EXCEPT !.loading = FALSE, !.shown = t, !.selected = s]
                  /\ s = {} \/ (s = page.selected /\ t = page.shown)
  BY DEF CreateTasksListed
<1>2. s \subseteq TaskRowsOf(t)
  BY <1>f, <1>1
<1>3. /\ DOMAIN page' = DOMAIN page /\ page'.view = page.view /\ page'.confirmed = page.confirmed
      /\ page'.selected = s /\ page'.shown = t
  BY <1>f, <1>1 DEF TaskFields
<1>4. PICK none : none = {}
  OBVIOUS
<1> QED
  BY <1>2, <1>3, <1>4, BatchKept

LEMMA BatchClicks ==
    ASSUME BatchSound,
           \/ CreateTasksLoadTasks \/ CreateTasksUnmount \/ CreateTasksSearchTimer
           \/ \E keyword \in Keys \cup {None} : CreateTasksHandleSearch(keyword)
           \/ \E no \in 1..2 : CreateTasksPage(no)
           \/ \E row \in Keys : CreateTasksHandleEdit(row)
           \/ CreateTasksCancelEdit \/ CreateTasksHandleSaveEdit
           \/ \E rows \in SUBSET Keys : CreateTasksHandleAction(rows) \/ CreateTasksAsksToDelete(rows)
    PROVE  BatchSound'
<1>f. TaskFields \subseteq DOMAIN page
  BY DEF BatchSound
<1>1. CASE CreateTasksLoadTasks
  <2>1. SameBatch(page, page')
    BY <1>f, <1>1 DEF CreateTasksLoadTasks, CreateTasksLoads, SameBatch, TaskFields
  <2> QED
    BY <1>1, <2>1, BatchSends DEF CreateTasksLoadTasks, CreateTasksQuery
<1>2. CASE CreateTasksUnmount
  <2>1. SameBatch(page, page')
    BY <1>f, <1>2 DEF CreateTasksUnmount, SameBatch, TaskFields
  <2> QED
    BY <1>2, <2>1, BatchUnsent DEF CreateTasksUnmount
<1>3. CASE CreateTasksSearchTimer
  <2>1. SameBatch(page, page')
    BY <1>f, <1>3 DEF CreateTasksSearchTimer, CreateTasksLoads, SameBatch, TaskFields
  <2> QED
    BY <1>3, <2>1, BatchSends DEF CreateTasksSearchTimer, CreateTasksQuery
<1>4. ASSUME NEW keyword, CreateTasksHandleSearch(keyword)
      PROVE  BatchSound'
  <2>1. SameBatch(page, page')
    BY <1>f, <1>4 DEF CreateTasksHandleSearch, SameBatch, TaskFields
  <2> QED
    BY <1>4, <2>1, BatchUnsent DEF CreateTasksHandleSearch
<1>5. ASSUME NEW no, CreateTasksPage(no)
      PROVE  BatchSound'
  <2>1. SameBatch(page, page')
    BY <1>f, <1>5 DEF CreateTasksPage, CreateTasksLoads, SameBatch, TaskFields
  <2> QED
    BY <1>5, <2>1, BatchSends DEF CreateTasksPage, CreateTasksQuery
<1>6. ASSUME NEW row, CreateTasksHandleEdit(row)
      PROVE  BatchSound'
  <2>1. SameBatch(page, page')
    BY <1>f, <1>6 DEF CreateTasksHandleEdit, SameBatch, TaskFields
  <2> QED
    BY <1>6, <2>1, BatchUnsent DEF CreateTasksHandleEdit
<1>7. CASE CreateTasksCancelEdit
  <2>1. SameBatch(page, page')
    BY <1>f, <1>7 DEF CreateTasksCancelEdit, SameBatch, TaskFields
  <2> QED
    BY <1>7, <2>1, BatchUnsent DEF CreateTasksCancelEdit
<1>8. CASE CreateTasksHandleSaveEdit
  <2>1. SameBatch(page, page')
    BY <1>f, <1>8 DEF CreateTasksHandleSaveEdit, SameBatch, TaskFields
  <2> QED
    BY <1>8, <2>1, BatchSends DEF CreateTasksHandleSaveEdit
<1>9. ASSUME NEW rows, CreateTasksHandleAction(rows)
      PROVE  BatchSound'
  BY <1>9, BatchSends DEF CreateTasksHandleAction, SameBatch
<1>10. ASSUME NEW rows, CreateTasksAsksToDelete(rows)
       PROVE  BatchSound'
  <2>1. SameBatch(page, page')
    BY <1>f, <1>10 DEF CreateTasksAsksToDelete, SameBatch, TaskFields
  <2> QED
    BY <1>10, <2>1, BatchUnsent DEF CreateTasksAsksToDelete
<1> QED
  BY <1>1, <1>2, <1>3, <1>4, <1>5, <1>6, <1>7, <1>8, <1>9, <1>10

LEMMA BatchChoices ==
    ASSUME BatchSound,
           \/ \E rows \in SUBSET TaskRowsOf(page.shown) : CreateTasksOnSelectionChange(rows)
           \/ \E yes \in BOOLEAN : CreateTasksAnswersBox(yes)
    PROVE  BatchSound'
<1>f. TaskFields \subseteq DOMAIN page /\ page.selected \subseteq TaskRowsOf(page.shown)
  BY DEF BatchSound
<1>n. PICK none : none = {}
  OBVIOUS
<1>1. ASSUME NEW rows \in SUBSET TaskRowsOf(page.shown), CreateTasksOnSelectionChange(rows)
      PROVE  BatchSound'
  <2>1. SendsNothing /\ page' = [page EXCEPT !.selected = rows]
    BY <1>1 DEF CreateTasksOnSelectionChange
  <2>2. /\ DOMAIN page' = DOMAIN page /\ page'.view = page.view
        /\ page'.confirmed = page.confirmed /\ page'.selected = rows /\ page'.shown = page.shown
    BY <1>f, <2>1 DEF TaskFields
  <2> QED
    BY <1>n, <2>1, <2>2, BatchKept
<1>2. CASE CreateTasksAnswersBox(TRUE)
  <2>1. PICK q : q = Request("deleteTasks", None, page.box)
    OBVIOUS
  <2>2. PICK rs : rs = {q}
    OBVIOUS
  <2>3. IsRequest(q) /\ q.arg = page.box
    BY <2>1, RequestFields
  <2>4. /\ Sends(rs)
        /\ page' = [page EXCEPT !.box = None, !.confirmed = @ \cup page.box]
    BY <1>2, <2>1, <2>2 DEF CreateTasksAnswersBox
  <2>5. /\ DOMAIN page' = DOMAIN page /\ page'.view = page.view
        /\ page'.confirmed = page.confirmed \cup page.box
        /\ page'.selected = page.selected /\ page'.shown = page.shown
    BY <1>f, <2>4 DEF TaskFields
  <2> QED
    BY <1>f, <2>2, <2>3, <2>4, <2>5, BatchKept
<1>3. CASE CreateTasksAnswersBox(FALSE)
  <2>1. Sends(none) /\ SameBatch(page, page')
    BY <1>f, <1>n, <1>3 DEF CreateTasksAnswersBox, SameBatch, TaskFields
  <2> QED
    BY <1>n, <2>1, BatchSame
<1> QED
  BY <1>1, <1>2, <1>3

LEMMA BatchAnswered == ASSUME BatchSound, NEW ok \in BOOLEAN,
           \/ CreateTasksLoaded(ok) \/ CreateTasksActed(ok)
           \/ CreateTasksSavedEdit(ok) \/ CreateTasksEditLoaded(ok)
    PROVE  BatchSound'
<1>f. TaskFields \subseteq DOMAIN page
  BY DEF BatchSound
<1>q. PICK q, e : q = CreateTasksQuery(page) /\ e = [CreateTasksQuery(page) EXCEPT !.op = "tasksOfEdit"]
  OBVIOUS
<1>o. IsRequest(q) /\ q.op # "deleteTasks" /\ IsRequest(e) /\ e.op # "deleteTasks"
  BY <1>q, RequestFields DEF CreateTasksQuery, Request, IsRequest
<1>1. CASE CreateTasksLoaded(ok)
  BY <1>1, BatchListed DEF CreateTasksLoaded
<1>2. CASE CreateTasksEditLoaded(ok)
  BY <1>2, BatchListed DEF CreateTasksEditLoaded
<1>3. CASE CreateTasksActed(ok)
  <2>1. PICK rs : rs = IF ok THEN {q} ELSE {}
    OBVIOUS
  <2>2. \E r : SettledBy(CreateTasks, r, rs)
    BY <1>q, <1>3, <2>1 DEF CreateTasksActed
  <2>3. PICK l : page' = page \/ page' = [page EXCEPT !.selected = {}, !.loading = l]
    BY <1>3 DEF CreateTasksActed, CreateTasksLoads
  <2>4. PICK p : p = [page EXCEPT !.loading = l]
    OBVIOUS
  <2>5. SameBatch(page, page) /\ SameBatch(page, p)
    BY <1>f, <2>4 DEF SameBatch, TaskFields
  <2>6. page' = page \/ page' = [p EXCEPT !.selected = {}]
    BY <2>3, <2>4
  <2>7. \A r \in rs : IsRequest(r) /\ r.op # "deleteTasks"
    BY <1>o, <2>1
  <2> QED
    BY <2>2, <2>5, <2>6, <2>7, BatchSame
<1>4. CASE CreateTasksSavedEdit(ok)
  <2>1. PICK rs : rs = IF ok THEN {e} ELSE {}
    OBVIOUS
  <2>2. \E r : SettledBy(CreateTasks, r, rs)
    BY <1>q, <1>4, <2>1 DEF CreateTasksSavedEdit
  <2>3. SameBatch(page, page')
    BY <1>f, <1>4 DEF CreateTasksSavedEdit, CreateTasksLoads, SameBatch, TaskFields
  <2>4. \A r \in rs : IsRequest(r) /\ r.op # "deleteTasks"
    BY <1>o, <2>1
  <2> QED
    BY <2>2, <2>3, <2>4, BatchSame
<1> QED
  BY <1>1, <1>2, <1>3, <1>4

LEMMA BatchInitSound == CreateTasksInit => BatchSound
<1> SUFFICES ASSUME CreateTasksInit PROVE BatchSound
  OBVIOUS
<1>1. PICK q : q = Request("tasks", TaskQuery(None, 1), None)
  OBVIOUS
<1>2. IsRequest(q) /\ q.op = "tasks"
  BY <1>1, RequestFields
<1>3. calls = SetToBag({q})
  BY <1>1 DEF CreateTasksInit
<1>4. IsABag(calls) /\ DOMAIN calls = {q}
  BY <1>3 DEF SetToBag, IsABag
<1>5. page.view = CreateTasks /\ page.selected = {} /\ TaskFields \subseteq DOMAIN page
  BY DEF CreateTasksInit, Opens, TaskFields
<1> QED
  BY <1>2, <1>4, <1>5 DEF BatchSound, CallsSound

-----------------------------------------------------------------------------
(* The batches of both pages                                                *)

BatchNext ==
    \/ At(Instances) /\ InstancesNext
    \/ At(CreateTasks) /\ CreateTasksNext

BatchSpec == (InstancesInit \/ CreateTasksInit) /\ [][BatchNext]_vars

BatchInv == InstancesSound \/ BatchSound

LEMMA BatchStep == BatchInv /\ [BatchNext]_vars => BatchInv'
<1> SUFFICES ASSUME BatchInv, [BatchNext]_vars PROVE BatchInv'
  OBVIOUS
<1>1. /\ InstancesSound => page.view = Instances
      /\ BatchSound => page.view = CreateTasks
      /\ Instances # CreateTasks
  BY DEF InstancesSound, NetSound, BatchSound, Instances, CreateTasks
<1>2. CASE At(Instances) /\ InstancesNext
  BY <1>1, <1>2, InstancesSteps DEF At, BatchInv, InstancesStep
<1>3. CASE At(CreateTasks) /\ CreateTasksNext
  <2>1. BatchSound
    BY <1>1, <1>3 DEF At, BatchInv
  <2> QED
    BY <1>3, <2>1, BatchClicks, BatchChoices, BatchAnswered
       DEF CreateTasksNext, CreateTasksAnswers, BatchInv
<1>4. CASE UNCHANGED vars
  BY <1>4 DEF vars, BatchInv, InstancesSound, NetSound, HandSound, BatchSound, CallsSound
<1> QED
  BY <1>2, <1>3, <1>4 DEF BatchNext

LEMMA BatchInvariant == BatchSpec => []BatchInv
<1>1. InstancesInit \/ CreateTasksInit => BatchInv
  BY InstancesInitSound, BatchInitSound DEF BatchInv
<1> QED
  BY <1>1, BatchStep, PTL DEF BatchSpec

\* The rows a batch of instances or of tasks would act on are rows of the table, for any
\* rows, however often the tables are asked for and in whatever order the lists arrive.
THEOREM SelectionsShown == BatchSpec => []BatchesShown
<1>1. BatchInv => BatchesShown
  BY DEF BatchInv, InstancesSound, NetSound, HandSound, InHand, BatchSound, BatchesShown,
     SelectionShown, At, Instances, CreateTasks
<1> QED
  BY <1>1, BatchInvariant, PTL

\* No instance is terminated and no task deleted but those the user confirmed, although
\* a termination asks two questions of the server first, a batch goes on row by row, and
\* lists arrive while a confirmation is open.
THEOREM DestructionConfirmed == BatchSpec => []DestroyedIfConfirmed
<1>1. InstancesSound => DestroyedIfConfirmed
  BY DEF InstancesSound, NetSound, HandSound, Confirmed, DestroyedIfConfirmed,
     TerminationConfirmed, InFlight, BagToSet, At, Instances, CreateTasks
<1>2. BatchSound => DestroyedIfConfirmed
  BY DEF BatchSound, DestroyedIfConfirmed, TerminationConfirmed, InFlight, BagToSet, At,
     Instances, CreateTasks
<1> QED
  BY <1>1, <1>2, BatchInvariant, PTL DEF BatchInv

-----------------------------------------------------------------------------
(* The labels of InstanceDetail.vue                                         *)

Labelled == Actions \cup LongOperations \cup {"terminate", "config"}

\* The requests before the one that terminates the instance.
Stages == {"config?", "captcha"}

\* The label names an operation that is under way.
Standing(p) ==
    p.acting = None \/
    (/\ p.acting \in Labelled
     /\ \/ \E r \in DOMAIN calls : r.op = p.acting
        \/ /\ p.acting = "terminate"
           /\ p.prompts > 0 \/ \E r \in DOMAIN calls : r.op \in Stages)

LabelSound ==
    /\ IsABag(calls)
    /\ page.view = Detail /\ {"view", "acting", "prompts"} \subseteq DOMAIN page
    /\ page.prompts \in Nat
    /\ Standing(page)

SameLabel(p, q) ==
    /\ DOMAIN q = DOMAIN p
    /\ \A f \in {"view", "acting", "prompts"} : q[f] = p[f]

\* Requests that are not those of a label may be answered.
LEMMA OperationsStay ==
    ASSUME IsABag(calls), NEW S,
           SendsNothing \/ (\E rs : Sends(rs)) \/ \E view, r, rs : r.op \notin S /\ SettledBy(view, r, rs)
    PROVE  IsABag(calls') /\ \A r \in DOMAIN calls : r.op \in S => r \in DOMAIN calls'
<1>1. CASE SendsNothing
  BY <1>1 DEF SendsNothing
<1>2. ASSUME NEW rs, Sends(rs)
      PROVE  IsABag(calls') /\ \A r \in DOMAIN calls : r.op \in S => r \in DOMAIN calls'
  BY <1>2, SentCalls
<1>3. ASSUME NEW view, NEW r, NEW rs, r.op \notin S, SettledBy(view, r, rs)
      PROVE  IsABag(calls') /\ \A q \in DOMAIN calls : q.op \in S => q \in DOMAIN calls'
  BY <1>3, SettledCalls
<1> QED
  BY <1>1, <1>2, <1>3

LEMMA LabelStays ==
    ASSUME LabelSound, SameLabel(page, page'), IsABag(calls'),
           \A r \in DOMAIN calls : r.op \in Labelled \cup Stages => r \in DOMAIN calls'
    PROVE  LabelSound'
<1>1. /\ page'.view = Detail /\ {"view", "acting", "prompts"} \subseteq DOMAIN page'
      /\ page'.prompts = page.prompts /\ page'.acting = page.acting
  BY DEF LabelSound, SameLabel
<1>2. Standing(page)'
  BY <1>1 DEF LabelSound, Standing
<1> QED
  BY <1>1, <1>2 DEF LabelSound

LEMMA LabelKept ==
    ASSUME LabelSound, SameLabel(page, page'),
           \/ SendsNothing \/ \E rs : Sends(rs)
           \/ \E view, r, rs : r.op \notin Labelled \cup Stages /\ SettledBy(view, r, rs)
    PROVE  LabelSound'
<1>1. PICK S : S = Labelled \cup Stages
  OBVIOUS
<1>2. IsABag(calls') /\ \A r \in DOMAIN calls : r.op \in S => r \in DOMAIN calls'
  BY <1>1, OperationsStay DEF LabelSound
<1> QED
  BY <1>1, <1>2, LabelStays

LEMMA LabelCleared ==
    ASSUME LabelSound, SendsNothing \/ (\E rs : Sends(rs)) \/ \E view, r, rs : SettledBy(view, r, rs),
           DOMAIN page' = DOMAIN page, page'.view = page.view, page'.prompts \in Nat,
           page'.acting = None
    PROVE  LabelSound'
<1>1. IsABag(calls')
  BY SentCalls, SettledCalls DEF LabelSound, SendsNothing
<1> QED
  BY <1>1 DEF LabelSound, Standing

LEMMA LabelSet ==
    ASSUME LabelSound, NEW op \in Labelled,
           NEW q, q.op = op \/ (op = "terminate" /\ q.op \in Stages), Sends({q}),
           DOMAIN page' = DOMAIN page, page'.view = page.view, page'.prompts = page.prompts,
           page'.acting = op
    PROVE  LabelSound'
<1>1. IsABag(calls') /\ q \in DOMAIN calls'
  BY SentCalls DEF LabelSound
<1>2. Standing(page)'
  BY <1>1 DEF Standing
<1> QED
  BY <1>1, <1>2 DEF LabelSound

\* The dialog of a binding has a state of its own.
LEMMA BindingsBeside ==
    ASSUME LabelSound, BindingClicks(Detail) \/ BindingAnswers(Detail)
    PROVE  LabelSound'
<1>f. {"view", "acting", "prompts"} \subseteq DOMAIN page
  BY DEF LabelSound
<1>o. /\ \A op \in {"bindingZones", "saveBinding", "deleteBinding", "bindings", "bindingsOfSave"} :
             op \notin Labelled \cup Stages
      /\ \A op : \A r \in InFlight(op) : r.op = op
  BY DEF Labelled, Stages, Actions, LongOperations, InFlight
<1>b. \A B, cfg : /\ IsABag(B) => IsABag(B (+) WatcherLoads(page, cfg))
                                  /\ DOMAIN B \subseteq DOMAIN (B (+) WatcherLoads(page, cfg))
                  /\ IsABag(B) => IsABag(B (+) SetToBag({BindingZonesOf(cfg)}))
                                  /\ DOMAIN B \subseteq DOMAIN (B (+) SetToBag({BindingZonesOf(cfg)}))
  <2>1. ASSUME NEW B, NEW C, IsABag(B), IsABag(C)
        PROVE  IsABag(B (+) C) /\ DOMAIN B \subseteq DOMAIN (B (+) C)
    <3>1. B (+) C = [e \in DOMAIN B \cup DOMAIN C |->
                       (IF e \in DOMAIN B THEN B[e] ELSE 0) + (IF e \in DOMAIN C THEN C[e] ELSE 0)]
      BY DEF (+)
    <3>2. /\ \A e \in DOMAIN B : B[e] \in Nat /\ B[e] > 0
          /\ \A e \in DOMAIN C : C[e] \in Nat /\ C[e] > 0
      BY <2>1 DEF IsABag
    <3> QED
      BY <3>1, <3>2 DEF IsABag
  <2>2. \A cfg : IsABag(SetToBag({BindingZonesOf(cfg)})) /\ IsABag(WatcherLoads(page, cfg))
    BY DEF WatcherLoads, SetToBag, EmptyBag, IsABag
  <2> QED
    BY <2>1, <2>2
<1>g. ASSUME NEW cfg, SameLabel(page, page'),
             \/ calls' = calls (+) SetToBag({BindingZonesOf(cfg)}) (+) WatcherLoads(page, cfg)
             \/ calls' = calls (+) WatcherLoads(page, cfg)
      PROVE  LabelSound'
  <2>1. IsABag(calls') /\ DOMAIN calls \subseteq DOMAIN calls'
    BY <1>b, <1>g DEF LabelSound
  <2> QED
    BY <1>g, <2>1, LabelStays
<1>1. ASSUME NEW kind, NEW cfg, NEW zone, BindingOpens(Detail, kind, cfg, zone)
      PROVE  LabelSound'
  <2>1. SameLabel(page, page')
    BY <1>f, <1>1 DEF BindingOpens, BindingForm, SameLabel
  <2> QED
    BY <1>g, <1>1, <2>1 DEF BindingOpens
<1>2. ASSUME NEW cfg, BindingPickCfg(Detail, cfg)
      PROVE  LabelSound'
  <2>1. SameLabel(page, page')
    BY <1>f, <1>2 DEF BindingPickCfg, BindingForm, SameLabel
  <2> QED
    BY <1>g, <1>2, <2>1 DEF BindingPickCfg
<1>3. CASE BindingPickZone(Detail) \/ CloseBindingDialog(Detail)
  <2>1. SameLabel(page, page') /\ SendsNothing
    BY <1>f, <1>3 DEF BindingPickZone, CloseBindingDialog, SameLabel
  <2> QED
    BY <2>1, LabelKept
<1>4. CASE HandleSaveBinding(Detail)
  <2>1. SameLabel(page, page') /\ \E rs : Sends(rs)
    BY <1>f, <1>4 DEF HandleSaveBinding, SameLabel
  <2> QED
    BY <2>1, LabelKept
<1>5. ASSUME NEW row, HandleDeleteBinding(Detail, row)
      PROVE  LabelSound'
  <2>1. SameLabel(page, page') /\ \E rs : Sends(rs)
    BY <1>f, <1>5 DEF HandleDeleteBinding, SameLabel
  <2> QED
    BY <2>1, LabelKept
<1>s. ASSUME NEW op \in {"bindingZones", "saveBinding", "deleteBinding", "bindings", "bindingsOfSave"},
             NEW r \in InFlight(op), NEW rs, SettledBy(Detail, r, rs), SameLabel(page, page')
      PROVE  LabelSound'
  BY <1>o, <1>s, LabelKept
<1>6. ASSUME NEW ok \in BOOLEAN, LoadBindingZones(Detail, ok)
      PROVE  LabelSound'
  <2>1. PICK r \in InFlight("bindingZones") :
            /\ SettledBy(Detail, r, {})
            /\ \E z, s : page' = [page EXCEPT !.bZonesLoading = FALSE, !.bZones = z, !.bStale = s]
    BY <1>6 DEF LoadBindingZones
  <2>2. SameLabel(page, page')
    BY <1>f, <2>1 DEF SameLabel
  <2> QED
    BY <1>s, <2>1, <2>2
<1>7. ASSUME NEW ok \in BOOLEAN, BindingSaved(Detail, ok)
      PROVE  LabelSound'
  <2>1. PICK rs : rs = IF ok THEN {Request("bindingsOfSave", None, None)} ELSE {}
    OBVIOUS
  <2>2. PICK r \in InFlight("saveBinding") : SettledBy(Detail, r, rs)
    BY <1>7, <2>1 DEF BindingSaved
  <2>3. PICK l, d : page' = [page EXCEPT !.bSaving = ok, !.bLoading = l, !.bDialog = d]
    BY <1>7 DEF BindingSaved
  <2>4. SameLabel(page, page')
    BY <1>f, <2>3 DEF SameLabel
  <2> QED
    BY <1>s, <2>2, <2>4
<1>8. ASSUME NEW ok \in BOOLEAN, BindingDeleted(Detail, ok)
      PROVE  LabelSound'
  <2>1. PICK rs : rs = IF ok THEN {Request("bindings", None, None)} ELSE {}
    OBVIOUS
  <2>2. PICK r \in InFlight("deleteBinding") : SettledBy(Detail, r, rs)
    BY <1>8, <2>1 DEF BindingDeleted
  <2>3. PICK l : page' = [page EXCEPT !.bLoading = l]
    BY <1>8 DEF BindingDeleted
  <2>4. SameLabel(page, page')
    BY <1>f, <2>3 DEF SameLabel
  <2> QED
    BY <1>s, <2>2, <2>4
<1>l. \A ok \in BOOLEAN : SameLabel(page, BindingsListed(page, ok))
  BY <1>f DEF BindingsListed, SameLabel
<1>9. ASSUME NEW ok \in BOOLEAN, LoadBindings(Detail, ok)
      PROVE  LabelSound'
  BY <1>s, <1>l, <1>9 DEF LoadBindings
<1>10. ASSUME NEW ok \in BOOLEAN, LoadBindingsOfSave(Detail, ok)
       PROVE  LabelSound'
  <2>1. PICK p : p = BindingsListed(page, ok)
    OBVIOUS
  <2>2. SameLabel(page, p) /\ page' = [p EXCEPT !.bSaving = FALSE]
    BY <1>l, <1>10, <2>1 DEF LoadBindingsOfSave
  <2>3. SameLabel(page, page')
    BY <1>f, <2>2 DEF SameLabel
  <2> QED
    BY <1>s, <1>10, <2>3 DEF LoadBindingsOfSave
<1> QED
  BY <1>1, <1>2, <1>3, <1>4, <1>5, <1>6, <1>7, <1>8, <1>9, <1>10
     DEF BindingClicks, BindingAnswers, OpenAddBindingDialog, OpenEditBindingDialog

\* Opening and refreshing the page, and its other dialogs.
LEMMA LabelBeside ==
    ASSUME LabelSound,
           \/ DetailMounting \/ DetailRefreshTimer \/ DetailVncInfo \/ DetailCloses
           \/ \E kind : DetailOpens(kind)
           \/ \E ok \in BOOLEAN : DetailRefreshed(ok)
    PROVE  LabelSound'
<1>f. {"view", "acting", "prompts"} \subseteq DOMAIN page
  BY DEF LabelSound
<1>o. \A op \in {"instance", "tenant", "configs", "firstBindings", "firstZones", "refresh", "vncInfo"} :
          \A r \in InFlight(op) : r.op \notin Labelled \cup Stages
  BY DEF Labelled, Stages, Actions, LongOperations, InFlight
<1>1. ASSUME NEW ok \in BOOLEAN, DetailLoaded(ok)
      PROVE  LabelSound'
  <2>1. PICK rs : rs = IF ok THEN {Request("tenant", None, None)} ELSE {}
    OBVIOUS
  <2>2. PICK r \in InFlight("instance") : SettledBy(Detail, r, rs)
    BY <1>1, <2>1 DEF DetailLoaded
  <2>3. SameLabel(page, page')
    BY <1>f, <1>1 DEF DetailLoaded, SameLabel
  <2> QED
    BY <1>o, <2>2, <2>3, LabelKept
<1>2. ASSUME NEW op \in {"tenant", "configs"}, NEW next, NEW ok \in BOOLEAN, DetailMounted(op, next, ok)
      PROVE  LabelSound'
  <2>1. PICK rs : rs = IF ok THEN next ELSE {}
    OBVIOUS
  <2>2. PICK r \in InFlight(op) : SettledBy(Detail, r, rs)
    BY <1>2, <2>1 DEF DetailMounted
  <2>3. PICK l, b : page' = [page EXCEPT !.loading = l, !.bLoading = b]
    BY <1>2 DEF DetailMounted
  <2>4. SameLabel(page, page')
    BY <1>f, <2>3 DEF SameLabel
  <2> QED
    BY <1>o, <2>2, <2>4, LabelKept
<1>3. ASSUME NEW ok \in BOOLEAN, DetailMountedLast(ok)
      PROVE  LabelSound'
  <2>1. PICK r \in InFlight("firstBindings") \cup InFlight("firstZones") :
            /\ SettledBy(Detail, r, {})
            /\ LET p == IF r.op = "firstZones" THEN page ELSE BindingsListed(page, ok)
               IN  page' = [p EXCEPT !.loading =
                               Cardinality(InFlight("firstBindings") \cup InFlight("firstZones")) > 1]
    BY <1>3 DEF DetailMountedLast
  <2>2. PICK l : l = (Cardinality(InFlight("firstBindings") \cup InFlight("firstZones")) > 1)
    OBVIOUS
  <2>3. PICK p : p = IF r.op = "firstZones" THEN page ELSE BindingsListed(page, ok)
    OBVIOUS
  <2>4. p \in {page, BindingsListed(page, ok)} /\ page' = [p EXCEPT !.loading = l]
    BY <2>1, <2>2, <2>3
  <2>5. SameLabel(page, p)
    BY <1>f, <2>4 DEF BindingsListed, SameLabel
  <2>6. SameLabel(page, page')
    BY <1>f, <2>4, <2>5 DEF SameLabel
  <2> QED
    BY <1>o, <2>1, <2>6, LabelKept
<1>4. CASE DetailRefreshTimer
  <2>1. SameLabel(page, page') /\ \E rs : Sends(rs)
    BY <1>f, <1>4 DEF DetailRefreshTimer, SameLabel
  <2> QED
    BY <2>1, LabelKept
<1>5. CASE DetailVncInfo
  BY <1>o, <1>5, LabelKept DEF DetailVncInfo, SameLabel
<1>6. CASE DetailCloses
  <2>1. SameLabel(page, page')
    BY <1>f, <1>6 DEF DetailCloses, SameLabel
  <2> QED
    BY <1>6, <2>1, LabelKept DEF DetailCloses
<1>7. ASSUME NEW kind, DetailOpens(kind)
      PROVE  LabelSound'
  <2>1. SameLabel(page, page') /\ \E rs : Sends(rs)
    BY <1>f, <1>7 DEF DetailOpens, SameLabel
  <2> QED
    BY <2>1, LabelKept
<1>8. ASSUME NEW ok \in BOOLEAN, DetailRefreshed(ok)
      PROVE  LabelSound'
  <2>1. PICK r \in InFlight("refresh") : SettledBy(Detail, r, {})
    BY <1>8 DEF DetailRefreshed
  <2>2. SameLabel(page, page')
    BY <1>f, <1>8 DEF DetailRefreshed, SameLabel
  <2> QED
    BY <1>o, <2>1, <2>2, LabelKept
<1> QED
  BY <1>1, <1>2, <1>3, <1>4, <1>5, <1>6, <1>7, <1>8 DEF DetailMounting

\* The operations: each sets the label, and whichever ends clears it.
LEMMA LabelledSteps ==
    ASSUME LabelSound,
           \/ DetailTerminate
           \/ \E op \in Actions \cup LongOperations : DetailDoAction(op)
           \/ \E kind \in DetailForms : DetailSaveForm(kind)
           \/ \E ok \in BOOLEAN :
                 \/ DetailTerminatePrompt(ok) \/ DetailTerminateConfig(ok) \/ DetailTerminateCode(ok)
                 \/ \E op : DetailActionDone(op, ok)
                 \/ \E kind \in DetailForms : DetailSavedForm(kind, ok)
    PROVE  LabelSound'
<1>f. {"view", "acting", "prompts"} \subseteq DOMAIN page /\ page.prompts \in Nat
  BY DEF LabelSound
<1>t. "terminate" \in Labelled /\ "config" \in Labelled /\ "config?" \in Stages
      /\ Actions \cup LongOperations \subseteq Labelled
  BY DEF Labelled, Stages
<1>s. ASSUME NEW op \in Labelled, NEW stage, stage = op \/ (op = "terminate" /\ stage \in Stages),
             NEW key, NEW arg, Sends({Request(stage, key, arg)}), page' = [page EXCEPT !.acting = op]
      PROVE  LabelSound'
  <2>1. PICK q : q = Request(stage, key, arg)
    OBVIOUS
  <2>2. q.op = stage
    BY <2>1, RequestFields
  <2>3. /\ DOMAIN page' = DOMAIN page /\ page'.view = page.view /\ page'.prompts = page.prompts
        /\ page'.acting = op
    BY <1>f, <1>s
  <2> QED
    BY <1>s, <2>1, <2>2, <2>3, LabelSet
<1>1. CASE DetailTerminate
  BY <1>s, <1>t, <1>1 DEF DetailTerminate
<1>2. ASSUME NEW op \in Actions \cup LongOperations, DetailDoAction(op)
      PROVE  LabelSound'
  BY <1>s, <1>t, <1>2 DEF DetailDoAction
<1>3. CASE DetailSaveForm("config")
  BY <1>s, <1>t, <1>3 DEF DetailSaveForm
<1>4. ASSUME NEW kind \in DetailForms, kind # "config", DetailSaveForm(kind)
      PROVE  LabelSound'
  <2>1. SameLabel(page, page') /\ \E rs : Sends(rs)
    BY <1>f, <1>4 DEF DetailSaveForm, SameLabel
  <2> QED
    BY <2>1, LabelKept
<1>5. CASE DetailTerminatePrompt(TRUE)
  <2>1. PICK q : q = Request("terminate", None, None)
    OBVIOUS
  <2>2. q.op = "terminate"
    BY <2>1, RequestFields
  <2>3. /\ Sends({q}) /\ page.prompts > 0
        /\ DOMAIN page' = DOMAIN page /\ page'.view = page.view /\ page'.acting = page.acting
        /\ page'.prompts = page.prompts - 1
    BY <1>f, <1>5, <2>1 DEF DetailTerminatePrompt
  <2>4. /\ IsABag(calls') /\ q \in DOMAIN calls'
        /\ \A r \in DOMAIN calls : r \in DOMAIN calls'
    BY <2>3, SentCalls DEF LabelSound
  <2>5. Standing(page)'
    BY <2>2, <2>3, <2>4 DEF Standing, LabelSound
  <2> QED
    BY <1>f, <2>3, <2>4, <2>5 DEF LabelSound
<1>6. CASE DetailTerminatePrompt(FALSE)
  <2>1. PICK none : none = {}
    OBVIOUS
  <2>2. /\ Sends(none) /\ page.prompts > 0
        /\ DOMAIN page' = DOMAIN page /\ page'.view = page.view /\ page'.acting = None
        /\ page'.prompts = page.prompts - 1
    BY <1>f, <1>6, <2>1 DEF DetailTerminatePrompt
  <2> QED
    BY <1>f, <2>2, LabelCleared
<1>7. ASSUME NEW ok \in BOOLEAN, DetailTerminateConfig(ok)
      PROVE  LabelSound'
  <2>1. PICK q, none : q = Request("captcha", None, None) /\ none = {}
    OBVIOUS
  <2>2. q.op \in Stages
    BY <2>1, RequestFields DEF Stages
  <2>3. CASE ok /\ page.channel
    <3>1. PICK r \in InFlight("config?") : SettledBy(Detail, r, {q}) /\ page' = page
      BY <1>7, <2>1, <2>3 DEF DetailTerminateConfig
    <3>2. IsABag(calls') /\ \A e \in DOMAIN calls : e.op \in Labelled => e \in DOMAIN calls'
      <4>1. r.op \notin Labelled
        BY DEF InFlight, Labelled, Actions, LongOperations
      <4> QED
        BY <3>1, <4>1, SettledCalls DEF LabelSound
    <3>3. q \in DOMAIN calls'
      BY <3>1, SettledCalls DEF LabelSound
    <3>4. Standing(page)'
      BY <2>2, <3>1, <3>2, <3>3 DEF Standing, LabelSound
    <3> QED
      BY <3>1, <3>2, <3>4 DEF LabelSound
  <2>4. CASE ~(ok /\ page.channel)
    <3>1. PICK r \in InFlight("config?") :
              SettledBy(Detail, r, none) /\ page' = [page EXCEPT !.acting = None]
      BY <1>7, <2>1, <2>4 DEF DetailTerminateConfig
    <3> QED
      BY <1>f, <3>1, LabelCleared
  <2> QED
    BY <2>3, <2>4
<1>8. CASE DetailTerminateCode(TRUE)
  <2>1. PICK r \in InFlight("captcha") :
            SettledBy(Detail, r, {}) /\ page' = [page EXCEPT !.prompts = @ + 1]
    BY <1>8 DEF DetailTerminateCode
  <2>2. /\ DOMAIN page' = DOMAIN page /\ page'.view = page.view /\ page'.acting = page.acting
        /\ page'.prompts = page.prompts + 1 /\ page'.prompts \in Nat /\ page'.prompts > 0
    BY <1>f, <2>1
  <2>3. IsABag(calls') /\ \A e \in DOMAIN calls : e.op \in Labelled => e \in DOMAIN calls'
    <3>1. r.op \notin Labelled
      BY DEF InFlight, Labelled, Actions, LongOperations
    <3> QED
      BY <2>1, <3>1, SettledCalls DEF LabelSound
  <2>4. Standing(page)'
    BY <2>2, <2>3 DEF Standing, LabelSound
  <2> QED
    BY <2>2, <2>3, <2>4 DEF LabelSound
<1>9. CASE DetailTerminateCode(FALSE)
  <2>1. PICK r : SettledBy(Detail, r, {}) /\ page' = [page EXCEPT !.acting = None]
    BY <1>9 DEF DetailTerminateCode
  <2> QED
    BY <1>f, <2>1, LabelCleared
<1>10. ASSUME NEW ok \in BOOLEAN, NEW op, DetailActionDone(op, ok)
       PROVE  LabelSound'
  <2>1. PICK r : SettledBy(Detail, r, {}) /\ page' = DetailActed(page, op, ok)
    BY <1>10 DEF DetailActionDone
  <2>2. PICK n, d : page' = [page EXCEPT !.acting = None, !.refreshes = n, !.dialog = d]
    BY <2>1 DEF DetailActed
  <2>3. /\ DOMAIN page' = DOMAIN page /\ page'.view = page.view /\ page'.acting = None
        /\ page'.prompts = page.prompts
    BY <1>f, <2>2
  <2> QED
    BY <1>f, <2>1, <2>3, LabelCleared
<1>11. ASSUME NEW ok \in BOOLEAN, NEW kind \in DetailForms, DetailSavedForm(kind, ok)
       PROVE  LabelSound'
  <2>1. PICK r \in InFlight(kind) : SettledBy(Detail, r, {})
    BY <1>11 DEF DetailSavedForm
  <2>2. PICK a, v, d : page' = [page EXCEPT !.acting = a, !.saving = v, !.dialog = d]
                       /\ a = IF kind = "config" THEN None ELSE page.acting
    BY <1>11 DEF DetailSavedForm
  <2>3. /\ DOMAIN page' = DOMAIN page /\ page'.view = page.view /\ page'.acting = a
        /\ page'.prompts = page.prompts
    BY <1>f, <2>2
  <2>4. CASE kind = "config"
    BY <1>f, <2>1, <2>2, <2>3, <2>4, LabelCleared
  <2>5. CASE kind # "config"
    <3>1. r.op \notin Labelled \cup Stages
      BY <2>5 DEF InFlight, DetailForms, Labelled, Stages, Actions, LongOperations
    <3>2. SameLabel(page, page')
      BY <2>2, <2>3, <2>5 DEF SameLabel
    <3> QED
      BY <2>1, <3>1, <3>2, LabelKept
  <2> QED
    BY <2>4, <2>5
<1>12. ASSUME NEW kind \in DetailForms, DetailSaveForm(kind)
       PROVE  LabelSound'
  BY <1>3, <1>4, <1>12
<1>13. ASSUME NEW ok \in BOOLEAN, DetailTerminatePrompt(ok) \/ DetailTerminateCode(ok)
       PROVE  LabelSound'
  BY <1>5, <1>6, <1>8, <1>9, <1>13
<1> QED
  BY <1>1, <1>2, <1>7, <1>10, <1>11, <1>12, <1>13

LEMMA DetailSteps == ASSUME LabelSound, DetailNext PROVE LabelSound'
BY BindingsBeside, LabelBeside, LabelledSteps DEF DetailNext, DetailAnswers

LEMMA LabelInitSound == DetailInit => LabelSound
<1> SUFFICES ASSUME DetailInit PROVE LabelSound
  OBVIOUS
<1>1. PICK r : /\ \E channel \in BOOLEAN :
                     r = [view |-> Detail, channel |-> channel, loading |-> TRUE,
                          state |-> None, acting |-> None, refreshes |-> 0, prompts |-> 0,
                          dialog |-> None, saving |-> {}]
               /\ page = With(r, BindingFields)
  BY DEF DetailInit, Opens
<1>2. {"view", "acting", "prompts"} \subseteq DOMAIN r
      /\ r.view = Detail /\ r.acting = None /\ r.prompts = 0
  BY <1>1
<1>3. /\ {"view", "acting", "prompts"} \subseteq DOMAIN page
      /\ page.view = Detail /\ page.acting = None /\ page.prompts = 0
  BY <1>1, <1>2 DEF With
<1>4. IsABag(calls)
  BY DEF DetailInit, SetToBag, IsABag
<1> QED
  BY <1>3, <1>4 DEF LabelSound, Standing

-----------------------------------------------------------------------------
(* The label of TenantDetail.vue                                            *)

TenantLabelled == UserOps \cup {"reset", "policy"}

\* The box asks about an operation on a user.
TenantLabelSound ==
    /\ IsABag(calls)
    /\ page.view = TenantDetail /\ {"view", "acting", "box"} \subseteq DOMAIN page
    /\ page.box # None => page.box.op \in UserOps
    /\ page.acting # None =>
          page.acting \in TenantLabelled /\ \E r \in DOMAIN calls : r.op = page.acting

\* Steps that send and settle requests beside those of the label.
LEMMA TenantLabelKept ==
    ASSUME TenantLabelSound,
           \/ SendsNothing \/ \E rs : Sends(rs)
           \/ \E view, r, rs : r.op \notin TenantLabelled /\ SettledBy(view, r, rs),
           DOMAIN page' = DOMAIN page, page'.view = page.view, page'.acting = page.acting,
           page'.box # None => page'.box.op \in UserOps
    PROVE  TenantLabelSound'
<1>1. PICK S : S = TenantLabelled
  OBVIOUS
<1>2. IsABag(calls') /\ \A r \in DOMAIN calls : r.op \in S => r \in DOMAIN calls'
  BY <1>1, OperationsStay DEF TenantLabelSound
<1> QED
  BY <1>1, <1>2 DEF TenantLabelSound

LEMMA TenantLabelSet ==
    ASSUME TenantLabelSound, NEW op \in TenantLabelled, NEW key, NEW arg,
           Sends({Request(op, key, arg)}),
           DOMAIN page' = DOMAIN page, page'.view = page.view, page'.acting = op,
           page'.box \in {page.box, None}
    PROVE  TenantLabelSound'
<1>1. PICK q : q = Request(op, key, arg)
  OBVIOUS
<1>2. q.op = op
  BY <1>1, RequestFields
<1>3. IsABag(calls') /\ q \in DOMAIN calls'
  BY <1>1, SentCalls DEF TenantLabelSound
<1> QED
  BY <1>2, <1>3 DEF TenantLabelSound

LEMMA TenantDetailSteps ==
    ASSUME TenantLabelSound, TenantDetailNext
    PROVE  TenantLabelSound'
<1>f. {"view", "acting", "box"} \subseteq DOMAIN page
      /\ (page.box # None => page.box.op \in UserOps)
  BY DEF TenantLabelSound
<1>t. "reset" \in TenantLabelled /\ "policy" \in TenantLabelled /\ UserOps \subseteq TenantLabelled
  BY DEF TenantLabelled
<1>o. \A op \in {"info", "basic", "refresh"} : \A r \in InFlight(op) : r.op \notin TenantLabelled
  BY DEF InFlight, TenantLabelled, UserOps
<1>1. ASSUME NEW user, TenantDetailOpenReset(user)
      PROVE  TenantLabelSound'
  BY <1>f, <1>1, TenantLabelKept DEF TenantDetailOpenReset
<1>2. ASSUME NEW op \in UserOps, NEW user, TenantDetailAsk(op, user)
      PROVE  TenantLabelSound'
  BY <1>f, <1>2, TenantLabelKept DEF TenantDetailAsk
<1>3. CASE TenantDetailConfirm(TRUE)
  <2>1. PICK op : op = page.box.op
    OBVIOUS
  <2>2. /\ op \in TenantLabelled /\ Sends({Request(op, page.box.user, None)})
        /\ page' = [page EXCEPT !.box = None, !.acting = op]
    BY <1>f, <1>t, <1>3, <2>1 DEF TenantDetailConfirm
  <2> QED
    BY <1>f, <2>2, TenantLabelSet
<1>4. CASE TenantDetailConfirm(FALSE)
  <2>1. PICK none : none = {}
    OBVIOUS
  <2>2. Sends(none) /\ page' = [page EXCEPT !.box = None]
    BY <1>f, <1>4, <2>1 DEF TenantDetailConfirm
  <2> QED
    BY <1>f, <2>2, TenantLabelKept
<1>5. CASE TenantDetailCloseReset \/ TenantDetailEditPolicy
  BY <1>f, <1>5, TenantLabelKept DEF TenantDetailCloseReset, TenantDetailEditPolicy
<1>6. CASE TenantDetailReset
  BY <1>f, <1>t, <1>6, TenantLabelSet DEF TenantDetailReset
<1>7. CASE TenantDetailSavePolicy
  BY <1>f, <1>t, <1>7, TenantLabelSet DEF TenantDetailSavePolicy
<1>8. ASSUME NEW ok \in BOOLEAN, TenantDetailLoaded(ok)
      PROVE  TenantLabelSound'
  <2>1. PICK rs : rs = IF ok THEN {} ELSE {Request("basic", None, None)}
    OBVIOUS
  <2>2. PICK r \in InFlight("info") : SettledBy(TenantDetail, r, rs)
    BY <1>8, <2>1 DEF TenantDetailLoaded
  <2>3. page' = page \/ page' = [page EXCEPT !.known = "all", !.loading = FALSE]
    BY <1>8 DEF TenantDetailLoaded
  <2> QED
    BY <1>f, <1>o, <2>2, <2>3, TenantLabelKept
<1>9. ASSUME NEW ok \in BOOLEAN, TenantDetailBasic(ok)
      PROVE  TenantLabelSound'
  <2>1. PICK r \in InFlight("basic") : SettledBy(TenantDetail, r, {})
    BY <1>9 DEF TenantDetailBasic
  <2>2. PICK k : page' = [page EXCEPT !.known = k, !.loading = FALSE]
    BY <1>9 DEF TenantDetailBasic
  <2> QED
    BY <1>f, <1>o, <2>1, <2>2, TenantLabelKept
<1>10. ASSUME NEW ok \in BOOLEAN, TenantDetailRefreshed(ok)
       PROVE  TenantLabelSound'
  <2>1. PICK r \in InFlight("refresh") : SettledBy(TenantDetail, r, {})
    BY <1>10 DEF TenantDetailRefreshed
  <2>2. page' = page \/ page' = [page EXCEPT !.edited = FALSE]
    BY <1>10 DEF TenantDetailRefreshed
  <2> QED
    BY <1>f, <1>o, <2>1, <2>2, TenantLabelKept
<1>11. ASSUME NEW op, NEW ok \in BOOLEAN, TenantDetailDone(op, ok)
       PROVE  TenantLabelSound'
  <2>1. PICK rs : rs = IF ok /\ op \in UserOps THEN {Request("refresh", None, None)} ELSE {}
    OBVIOUS
  <2>2. PICK r : SettledBy(TenantDetail, r, rs)
    BY <1>11, <2>1 DEF TenantDetailDone
  <2>3. PICK d, e : page' = [page EXCEPT !.acting = None, !.dialog = d, !.edited = e]
    BY <1>11 DEF TenantDetailDone, TenantDetailActed
  <2>4. /\ DOMAIN page' = DOMAIN page /\ page'.view = page.view /\ page'.acting = None
        /\ page'.box = page.box
    BY <1>f, <2>3
  <2>5. IsABag(calls')
    BY <2>2, SettledCalls DEF TenantLabelSound
  <2> QED
    BY <2>4, <2>5 DEF TenantLabelSound
<1>12. ASSUME NEW sure \in BOOLEAN, TenantDetailConfirm(sure)
       PROVE  TenantLabelSound'
  BY <1>3, <1>4, <1>12
<1> QED
  BY <1>1, <1>2, <1>5, <1>6, <1>7, <1>8, <1>9, <1>10, <1>11, <1>12
     DEF TenantDetailNext, TenantDetailAnswers

LEMMA TenantLabelInitSound == TenantDetailInit => TenantLabelSound
BY DEF TenantDetailInit, Opens, TenantLabelSound, SetToBag, IsABag

-----------------------------------------------------------------------------
LabelNext ==
    \/ At(Detail) /\ DetailNext
    \/ At(TenantDetail) /\ TenantDetailNext

LabelSpec == (DetailInit \/ TenantDetailInit) /\ [][LabelNext]_vars

LabelInv == LabelSound \/ TenantLabelSound

\* A label on a button stands for a request of its operation, on both pages that share one
\* label between many: for any number of operations that overlap and end in any order, and
\* through the questions that come before a termination.
THEOREM LabelsStand == LabelSpec => []LabelsHonest
<1>v. /\ LabelSound => page.view = Detail
      /\ TenantLabelSound => page.view = TenantDetail
      /\ Detail # TenantDetail
  BY DEF LabelSound, TenantLabelSound, Detail, TenantDetail
<1>1. DetailInit \/ TenantDetailInit => LabelInv
  BY LabelInitSound, TenantLabelInitSound DEF LabelInv
<1>2. LabelInv /\ [LabelNext]_vars => LabelInv'
  <2> SUFFICES ASSUME LabelInv, [LabelNext]_vars PROVE LabelInv'
    OBVIOUS
  <2>1. CASE At(Detail) /\ DetailNext
    BY <1>v, <2>1, DetailSteps DEF At, LabelInv
  <2>2. CASE At(TenantDetail) /\ TenantDetailNext
    BY <1>v, <2>2, TenantDetailSteps DEF At, LabelInv
  <2>3. CASE UNCHANGED vars
    BY <2>3 DEF vars, LabelInv, LabelSound, Standing, TenantLabelSound
  <2> QED
    BY <2>1, <2>2, <2>3 DEF LabelNext
<1>3. LabelSound => LabelsHonest
  BY <1>v DEF LabelSound, Standing, Stages, LabelsHonest, ActingHonest, TenantActingHonest, At,
      InFlight, BagToSet
<1>4. TenantLabelSound => LabelsHonest
  BY <1>v DEF TenantLabelSound, LabelsHonest, ActingHonest, TenantActingHonest, At,
      InFlight, BagToSet
<1> QED
  BY <1>1, <1>2, <1>3, <1>4, PTL DEF LabelSpec, LabelInv

=============================================================================
