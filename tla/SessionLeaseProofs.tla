------------------------- MODULE SessionLeaseProofs -------------------------
(* Proofs about SessionLease for every set of holders, every mix of        *)
(* durable and older-format holders, every TTL, deadline and clock skew.   *)
EXTENDS SessionLease, TLAPS

-----------------------------------------------------------------------------
(* Type correctness *)

\* Math.min of an expiry and a deadline is a time.
LEMMA CapType ==
    ASSUME NEW t \in Nat, NEW d \in Nat \cup {Infinity}
    PROVE  /\ Cap(t, d) \in Nat
           /\ Cap(t, d) <= t
           /\ d # Infinity => Cap(t, d) <= d
BY ConstantsAssumption DEF Cap, Before

\* Every document a holder sends is a well-formed LeaseDocument.
LEMMA DocumentType ==
    ASSUME TypeOK, NEW h \in Holders
    PROVE  /\ Date(h) \in Nat
           /\ AcquiredDocument(h) \in Document
           /\ \A s \in Payloads : NextDocument(h, s) \in Document
           /\ ReleasedDocument(h) \in Document
           /\ OutOfScope(h) \in Locals
           /\ Absent \in Document
           /\ NoObject \in Stored
<1>1. Absent \in Document
  BY DEF Absent, Document, Payloads
<1>2. NoObject \in Stored
  BY <1>1 DEF NoObject, Stored
<1>3. Date(h) \in Nat
  BY ConstantsAssumption DEF TypeOK, Date
<1>4. local[h] \in Locals
  BY DEF TypeOK
<1>5. /\ local[h].doc \in Document
      /\ local[h].snap.doc \in Document
      /\ local[h].deadline \in Nat \cup {Infinity}
  BY <1>4 DEF Locals, Stored
<1>6. Cap(Date(h) + TTL, local[h].deadline) \in Nat
  <2>1. Date(h) + TTL \in Nat
    BY <1>3, ConstantsAssumption
  <2>. QED
    BY <2>1, <1>5, CapType
<1>7. AcquiredDocument(h) \in Document
  BY <1>5, <1>6 DEF AcquiredDocument, Document, Payloads
<1>8. \A s \in Payloads : NextDocument(h, s) \in Document
  BY <1>5, <1>6 DEF NextDocument, Document
<1>9. ReleasedDocument(h) \in Document
  BY <1>1, <1>5 DEF ReleasedDocument, Document
<1>10. OutOfScope(h) \in Locals
  BY <1>1, <1>2, <1>5 DEF OutOfScope, Locals
<1>. QED
  BY <1>1, <1>2, <1>3, <1>7, <1>8, <1>9, <1>10

\* A holder that gives up leaves well-formed requests behind.
LEMMA AbandonedType ==
    ASSUME TypeOK, NEW h \in Holders
    PROVE  Abandoned(h) \in SUBSET Requests
BY DEF TypeOK, Abandoned, Requests

\* The lease starts well typed.
LEMMA TypeInit == Init => TypeOK
BY ConstantsAssumption
DEF Init, TypeOK, Stored, Document, Locals, Responses, PCs, Payloads, NoObject,
    Absent, LegacyLease, NoResponse

\* Every variable keeps its type.
LEMMA TypeStep == TypeOK /\ [Next]_vars => TypeOK'
<1>. SUFFICES ASSUME TypeOK, [Next]_vars PROVE TypeOK'
  OBVIOUS
<1>1. ASSUME NEW h \in Holders, Acquisition(h) PROVE TypeOK'
  <2>d. /\ Date(h) \in Nat
        /\ AcquiredDocument(h) \in Document
        /\ \A s \in Payloads : NextDocument(h, s) \in Document
        /\ ReleasedDocument(h) \in Document
        /\ OutOfScope(h) \in Locals
        /\ Absent \in Document
        /\ NoObject \in Stored
        /\ Abandoned(h) \in SUBSET Requests
    BY <1>1, DocumentType, AbandonedType
  <2>. USE <1>1, <2>d
  <2>1. CASE Read(h)
    BY <2>1, ConstantsAssumption DEF Read, TypeOK, PCs, Locals
  <2>2. CASE ReadError(h)
    BY <2>2 DEF ReadError, TypeOK, PCs
  <2>3. CASE DecideThrow(h)
    BY <2>3 DEF DecideThrow, TypeOK, PCs
  <2>4. CASE DecidePut(h)
    <3>1. local' \in [Holders -> Locals]
      BY <2>4 DEF DecidePut, TypeOK, Locals
    <3>2. net' \in SUBSET Requests
      <4>1. local[h].snap.etag \in Nat
        BY DEF TypeOK, Locals, Stored
      <4>2. Request(h, local[h].snap.etag, AcquiredDocument(h)) \in Requests
        BY <4>1 DEF Request, Requests
      <4>. QED
        BY <2>4, <4>2 DEF DecidePut, TypeOK
    <3>. QED
      BY <2>4, <3>1, <3>2 DEF DecidePut, TypeOK, PCs
  <2>5. CASE DecideBackoff(h)
    BY <2>5 DEF DecideBackoff, TypeOK, PCs, Locals
  <2>6. CASE AcquireOk(h)
    <3>1. local' \in [Holders -> Locals]
      <4>1. local[h].next \in Document /\ resp[h].etag \in Nat
        BY DEF TypeOK, Locals, Responses
      <4>. QED
        BY <2>6, <4>1 DEF AcquireOk, TypeOK, Locals
    <3>. QED
      BY <2>6, <3>1 DEF AcquireOk, TypeOK, PCs, Responses, NoResponse
  <2>7. CASE AcquireConflict(h)
    <3>1. local' \in [Holders -> Locals]
      BY <2>7 DEF AcquireConflict, TypeOK, Locals
    <3>. QED
      BY <2>7, <3>1 DEF AcquireConflict, TypeOK, PCs, Responses, NoResponse
  <2>8. CASE AcquireError(h)
    BY <2>8 DEF AcquireError, TypeOK, PCs, Responses, NoResponse
  <2>. QED
    BY <2>1, <2>2, <2>3, <2>4, <2>5, <2>6, <2>7, <2>8 DEF Acquisition
<1>2. ASSUME NEW h \in Holders, LeaseObject(h) PROVE TypeOK'
  <2>d. /\ Date(h) \in Nat
        /\ AcquiredDocument(h) \in Document
        /\ \A s \in Payloads : NextDocument(h, s) \in Document
        /\ ReleasedDocument(h) \in Document
        /\ OutOfScope(h) \in Locals
        /\ Absent \in Document
        /\ NoObject \in Stored
        /\ Abandoned(h) \in SUBSET Requests
    BY <1>2, DocumentType, AbandonedType
  <2>. USE <1>2, <2>d
  <2>0. ASSUME NEW s \in Payloads, WriteSend(h, s) PROVE TypeOK'
    <3>1. local' \in [Holders -> Locals]
      BY <2>0 DEF WriteSend, TypeOK, Locals
    <3>2. net' \in SUBSET Requests
      <4>1. local[h].etag \in Nat
        BY DEF TypeOK, Locals
      <4>2. Request(h, local[h].etag, NextDocument(h, s)) \in Requests
        BY <4>1 DEF Request, Requests
      <4>. QED
        BY <2>0, <4>2 DEF WriteSend, TypeOK
    <3>. QED
      BY <2>0, <3>1, <3>2 DEF WriteSend, TypeOK, PCs
  <2>1. CASE Renew(h)
    <3>1. local[h].doc.state \in Payloads
      BY DEF TypeOK, Locals, Document
    <3>. QED
      BY <2>0, <2>1, <3>1 DEF Renew
  <2>2. CASE UpdateState(h)
    BY <2>0, <2>2 DEF UpdateState, Payloads
  <2>3. CASE CheckRefused(h)
    BY <2>3 DEF CheckRefused, TypeOK, Locals
  <2>4. CASE WriteOk(h)
    <3>1. local' \in [Holders -> Locals]
      <4>1. local[h].next \in Document /\ resp[h].etag \in Nat
        BY DEF TypeOK, Locals, Responses
      <4>. QED
        BY <2>4, <4>1 DEF WriteOk, TypeOK, Locals
    <3>. QED
      BY <2>4, <3>1 DEF WriteOk, TypeOK, PCs, Responses, NoResponse
  <2>5. CASE WriteFailed(h)
    BY <2>5 DEF WriteFailed, TypeOK, PCs, Locals, Responses, NoResponse
  <2>6. CASE ExpiryTimer(h)
    BY <2>6 DEF ExpiryTimer, TypeOK, Locals
  <2>7. CASE CallerAbort(h)
    BY <2>7 DEF CallerAbort, TypeOK, Locals
  <2>8. CASE Promote(h)
    BY <2>8 DEF Promote, TypeOK, Locals
  <2>9. CASE ReleaseCall(h)
    BY <2>9 DEF ReleaseCall, TypeOK, Locals
  <2>10. CASE ReleaseSend(h)
    <3>1. local[h].etag \in Nat
      BY DEF TypeOK, Locals
    <3>2. Request(h, local[h].etag, ReleasedDocument(h)) \in Requests
      BY <3>1 DEF Request, Requests
    <3>. QED
      BY <2>10, <3>2 DEF ReleaseSend, TypeOK, PCs
  <2>11. CASE ReleaseDone(h)
    BY <2>11 DEF ReleaseDone, TypeOK, PCs, Responses, NoResponse
  <2>. QED
    BY <2>1, <2>2, <2>3, <2>4, <2>5, <2>6, <2>7, <2>8, <2>9, <2>10, <2>11
    DEF LeaseObject
<1>3. ASSUME NEW h \in Holders, Crash(h) PROVE TypeOK'
  BY <1>3, DocumentType, AbandonedType
  DEF Crash, TypeOK, PCs, Responses, NoResponse
<1>4. ASSUME NEW r \in net, Serve(r) PROVE TypeOK'
  BY <1>4 DEF Serve, TypeOK, Requests, Stored, Responses, Accepted, Rejected
<1>5. CASE Tick
  BY <1>5 DEF Tick, TypeOK
<1>6. CASE UNCHANGED vars
  BY <1>6 DEF vars, TypeOK
<1>. QED
  BY <1>1, <1>2, <1>3, <1>4, <1>5, <1>6 DEF Next

\* lease.ts keeps its documents, its closure and its queue well formed.
THEOREM TypeCorrect == Spec => []TypeOK
BY TypeInit, TypeStep, PTL DEF Spec

-----------------------------------------------------------------------------
(* The inductive invariant, layer by layer *)

\* The format a holder writes.
Format(h) == IF h \in Durable THEN 2 ELSE 1

\* Every ETag anybody remembers has been handed out already.
Etags ==
    /\ nextEtag > 0
    /\ obj.etag < nextEtag
    /\ \A r \in net : r.cond < nextEtag
    /\ \A h \in Holders : /\ local[h].etag < nextEtag
                          /\ local[h].snap.etag < nextEtag
                          /\ resp[h].etag < nextEtag

\* A holder awaits at most one write, and nothing it gave up on can be taken
\* for the write it awaits now.
Exchange ==
    \A h \in Holders :
        /\ local[h].released => local[h].aborted
        /\ resp[h].status # "none" => pc[h] \in {"put", "write", "releasing"}
        /\ \A r \in net : r.from = h /\ r.awaited =>
             /\ resp[h].status = "none"
             /\ pc[h] \in {"put", "write", "releasing"}
             /\ pc[h] \in {"put", "write"} => r.doc = local[h].next
             /\ \A q \in net : q.from = h /\ q.awaited => q = r
        /\ \A r \in net : r.from = h /\ ~r.awaited =>
             \/ pc[h] \in {"threw", "crashed", "done"}
             \/ pc[h] \in {"held", "releasing"} /\ local[h].aborted

\* A lease object speaks only for the holder that created it.
Ownership ==
    \A h \in Holders :
        /\ pc[h] \in {"held", "write", "releasing"} =>
             /\ local[h].etag # 0
             /\ local[h].doc.holder = h
             /\ local[h].doc.version = Format(h)
        /\ pc[h] \notin {"held", "write", "releasing"} =>
             /\ local[h].etag = 0
             /\ local[h].doc = Absent
        /\ pc[h] \in {"put", "write"} =>
             /\ local[h].next.holder = h
             /\ local[h].next.version = Format(h)
             /\ resp[h].status = "ok" => resp[h].etag # 0

\* Whoever remembers the current ETag remembers the current document.
Copies ==
    /\ obj.etag = 0 => obj = NoObject
    /\ \A r \in net : r.doc.version = 0 => r.doc = Absent
    /\ \A h \in Holders :
         /\ local[h].snap.etag = 0 => local[h].snap = NoObject
         /\ local[h].snap.etag = obj.etag => local[h].snap = obj
         /\ local[h].etag = obj.etag => local[h].doc = obj.doc
         /\ pc[h] \in {"put", "write"} /\ resp[h].status = "ok"
              /\ resp[h].etag = obj.etag => local[h].next = obj.doc

\* Abandoned requests keep their sender, condition and document.
LEMMA AbandonedRequests ==
    ASSUME TypeOK, NEW h \in Holders, NEW r \in Abandoned(h)
    PROVE  \E q \in net : /\ r.from = q.from /\ r.cond = q.cond /\ r.doc = q.doc
                          /\ r.awaited => q = r /\ r.from # h
                          /\ ~r.awaited => (q = r \/ r.from = h)
BY DEF TypeOK, Abandoned, Requests

\* ETags stay behind the counter: S3 never hands one out twice.
LEMMA EtagsStep == TypeOK /\ Etags /\ [Next]_vars => Etags'
<1>. SUFFICES ASSUME TypeOK, Etags, [Next]_vars PROVE Etags'
  OBVIOUS
<1>2. ASSUME NEW h \in Holders, NEW r \in Abandoned(h) PROVE r.cond < nextEtag
  BY <1>2, AbandonedRequests DEF Etags
<1>3. ASSUME NEW h \in Holders, Acquisition(h) PROVE Etags'
  <2>1. CASE Read(h)
    BY <1>3, <2>1 DEF Read, Etags, TypeOK, Locals, OutOfScope, NoObject
  <2>2. CASE ReadError(h)
    BY <1>3, <2>2 DEF ReadError, Etags, TypeOK, Locals, OutOfScope, NoObject
  <2>3. CASE DecideThrow(h)
    BY <1>3, <2>3 DEF DecideThrow, Etags, TypeOK, Locals, OutOfScope, NoObject
  <2>4. CASE DecidePut(h)
    BY <1>3, <2>4 DEF DecidePut, Etags, TypeOK, Locals, NoObject, Request
  <2>5. CASE DecideBackoff(h)
    BY <1>3, <2>5 DEF DecideBackoff, Etags, TypeOK, Locals, NoObject
  <2>6. CASE AcquireOk(h)
    BY <1>3, <2>6 DEF AcquireOk, Etags, TypeOK, Locals, NoResponse
  <2>7. CASE AcquireConflict(h)
    BY <1>3, <2>7 DEF AcquireConflict, Etags, TypeOK, Locals, OutOfScope, NoObject, NoResponse
  <2>8. CASE AcquireError(h)
    BY <1>2, <1>3, <2>8 DEF AcquireError, Etags, TypeOK, Locals, OutOfScope, NoObject, NoResponse
  <2>. QED
    BY <1>3, <2>1, <2>2, <2>3, <2>4, <2>5, <2>6, <2>7, <2>8 DEF Acquisition
<1>4. ASSUME NEW h \in Holders, LeaseObject(h) PROVE Etags'
  <2>1. ASSUME NEW s, WriteSend(h, s) PROVE Etags'
    BY <1>4, <2>1 DEF WriteSend, Etags, TypeOK, Locals, Request
  <2>2. CASE Renew(h) \/ UpdateState(h)
    BY <2>1, <2>2 DEF Renew, UpdateState
  <2>3. CASE CheckRefused(h) \/ ExpiryTimer(h) \/ CallerAbort(h) \/ Promote(h) \/ ReleaseCall(h)
    BY <1>4, <2>3
    DEF CheckRefused, ExpiryTimer, CallerAbort, Promote, ReleaseCall, Etags, TypeOK, Locals
  <2>4. CASE WriteOk(h)
    BY <1>4, <2>4 DEF WriteOk, Etags, TypeOK, Locals, NoResponse
  <2>5. CASE WriteFailed(h)
    BY <1>2, <1>4, <2>5 DEF WriteFailed, Etags, TypeOK, Locals, NoResponse
  <2>6. CASE ReleaseSend(h)
    BY <1>4, <2>6 DEF ReleaseSend, Etags, TypeOK, Request
  <2>7. CASE ReleaseDone(h)
    BY <1>2, <1>4, <2>7 DEF ReleaseDone, Etags, TypeOK, Locals, OutOfScope, NoObject, NoResponse
  <2>. QED
    BY <1>4, <2>2, <2>3, <2>4, <2>5, <2>6, <2>7 DEF LeaseObject
<1>5. ASSUME NEW h \in Holders, Crash(h) PROVE Etags'
  BY <1>2, <1>5 DEF Crash, Etags, TypeOK, Locals, OutOfScope, NoObject, NoResponse
<1>6. ASSUME NEW r \in net, Serve(r) PROVE Etags'
  BY <1>6 DEF Serve, Etags, TypeOK, Stored, Requests, Locals, Responses, Accepted, Rejected
<1>7. CASE Tick \/ UNCHANGED vars
  BY <1>7 DEF Tick, vars, Etags
<1>. QED
  BY <1>3, <1>4, <1>5, <1>6, <1>7 DEF Next

\* A holder that awaits nothing may send one request and await its answer.
LEMMA ExchangeSend ==
    ASSUME TypeOK, TypeOK', Exchange, NEW h \in Holders,
           NEW e, NEW d,
           \A r \in net : r.from # h \/ ~r.awaited,
           resp[h].status = "none",
           net' = net \cup {Request(h, e, d)},
           UNCHANGED resp,
           local'[h].released => local'[h].aborted,
           \A g \in Holders \ {h} : pc'[g] = pc[g] /\ local'[g] = local[g],
           \/ /\ pc'[h] \in {"put", "write"} /\ local'[h].next = d
              /\ \A r \in net : r.from # h
           \/ pc'[h] = "releasing" /\ local'[h].aborted
    PROVE  Exchange'
<1>1. ASSUME NEW g \in Holders \ {h}, NEW r \in net', r.from = g PROVE r \in net
  BY <1>1 DEF Request
<1>2. ASSUME NEW r \in net', r.from = h, r.awaited PROVE r = Request(h, e, d)
  BY <1>2
<1>3. ASSUME NEW r \in net', r.from = h, ~r.awaited PROVE r \in net
  BY <1>3 DEF Request
<1>4. Request(h, e, d).doc = d
  BY DEF Request
<1>. QED
  BY <1>1, <1>2, <1>3, <1>4 DEF Exchange

\* No step confuses the answers of two writes of one holder.
LEMMA ExchangeStep == TypeOK /\ Exchange /\ [Next]_vars => Exchange'
<1>. SUFFICES ASSUME TypeOK, Exchange, [Next]_vars PROVE Exchange'
  OBVIOUS
<1>1. ASSUME NEW h \in Holders, Acquisition(h) PROVE Exchange'
  <2>1. CASE Read(h)
    BY <1>1, <2>1 DEF Read, OutOfScope, Exchange, TypeOK, Locals, PCs, Requests
  <2>2. CASE ReadError(h)
    BY <1>1, <2>2 DEF ReadError, OutOfScope, Exchange, TypeOK, Locals, PCs, Requests
  <2>3. CASE DecideThrow(h)
    BY <1>1, <2>3 DEF DecideThrow, OutOfScope, Exchange, TypeOK, Locals, PCs, Requests
  <2>4. CASE DecidePut(h)
    <3>1. \A r \in net : r.from # h
      BY <1>1, <2>4 DEF DecidePut, Exchange, TypeOK, Requests
    <3>2. resp[h].status = "none"
      BY <1>1, <2>4 DEF DecidePut, Exchange
    <3>3. /\ pc'[h] = "put" /\ local'[h].next = AcquiredDocument(h)
          /\ local'[h].released => local'[h].aborted
          /\ \A g \in Holders \ {h} : pc'[g] = pc[g] /\ local'[g] = local[g]
      BY <1>1, <2>4 DEF DecidePut, Exchange, TypeOK, Locals
    <3>. QED
      BY <1>1, <2>4, <3>1, <3>2, <3>3, TypeStep, ExchangeSend DEF DecidePut
  <2>5. CASE DecideBackoff(h)
    BY <1>1, <2>5 DEF DecideBackoff, Exchange, TypeOK, Locals, PCs, Requests
  <2>6. CASE AcquireOk(h)
    BY <1>1, <2>6 DEF AcquireOk, Exchange, TypeOK, Locals, PCs, Requests, NoResponse
  <2>7. CASE AcquireConflict(h)
    BY <1>1, <2>7 DEF AcquireConflict, OutOfScope, Exchange, TypeOK, Locals, PCs, Requests, NoResponse
  <2>8. CASE AcquireError(h)
    BY <1>1, <2>8, AbandonedRequests
    DEF AcquireError, Exchange, TypeOK, Locals, PCs, Requests, NoResponse, OutOfScope
  <2>. QED
    BY <1>1, <2>1, <2>2, <2>3, <2>4, <2>5, <2>6, <2>7, <2>8 DEF Acquisition
<1>2. ASSUME NEW h \in Holders, LeaseObject(h) PROVE Exchange'
  <2>1. ASSUME NEW s, WriteSend(h, s) PROVE Exchange'
    <3>1. \A r \in net : r.from # h
      BY <1>2, <2>1 DEF WriteSend, CheckFails, DeadlineFails, Exchange, TypeOK, Requests
    <3>2. resp[h].status = "none"
      BY <1>2, <2>1 DEF WriteSend, Exchange
    <3>3. /\ pc'[h] = "write" /\ local'[h].next = NextDocument(h, s)
          /\ local'[h].released => local'[h].aborted
          /\ \A g \in Holders \ {h} : pc'[g] = pc[g] /\ local'[g] = local[g]
      BY <1>2, <2>1 DEF WriteSend, Exchange, TypeOK, Locals
    <3>. QED
      BY <1>2, <2>1, <3>1, <3>2, <3>3, TypeStep, ExchangeSend DEF WriteSend
  <2>2. CASE Renew(h) \/ UpdateState(h)
    BY <2>1, <2>2 DEF Renew, UpdateState
  <2>3. CASE CheckRefused(h) \/ ExpiryTimer(h) \/ CallerAbort(h) \/ Promote(h) \/ ReleaseCall(h)
    BY <1>2, <2>3
    DEF CheckRefused, ExpiryTimer, CallerAbort, Promote, ReleaseCall, Exchange, TypeOK,
        Locals, PCs, Requests
  <2>4. CASE WriteOk(h)
    BY <1>2, <2>4 DEF WriteOk, Exchange, TypeOK, Locals, PCs, Requests, NoResponse
  <2>5. CASE WriteFailed(h)
    BY <1>2, <2>5, AbandonedRequests
    DEF WriteFailed, Exchange, TypeOK, Locals, PCs, Requests, NoResponse
  <2>6. CASE ReleaseSend(h)
    <3>1. \A r \in net : r.from # h \/ ~r.awaited
      BY <1>2, <2>6 DEF ReleaseSend, Exchange
    <3>2. resp[h].status = "none"
      BY <1>2, <2>6 DEF ReleaseSend, Exchange
    <3>3. /\ pc'[h] = "releasing" /\ local'[h].aborted
          /\ \A g \in Holders \ {h} : pc'[g] = pc[g] /\ local'[g] = local[g]
      BY <1>2, <2>6 DEF ReleaseSend, Exchange, TypeOK
    <3>. QED
      BY <1>2, <2>6, <3>1, <3>2, <3>3, TypeStep, ExchangeSend DEF ReleaseSend
  <2>7. CASE ReleaseDone(h)
    BY <1>2, <2>7, AbandonedRequests
    DEF ReleaseDone, OutOfScope, Exchange, TypeOK, Locals, PCs, Requests, NoResponse
  <2>. QED
    BY <1>2, <2>2, <2>3, <2>4, <2>5, <2>6, <2>7 DEF LeaseObject
<1>3. ASSUME NEW h \in Holders, Crash(h) PROVE Exchange'
  BY <1>3, AbandonedRequests DEF Crash, OutOfScope, Exchange, TypeOK, Locals, PCs, Requests, NoResponse
<1>4. ASSUME NEW r \in net, Serve(r) PROVE Exchange'
  BY <1>4 DEF Serve, Exchange, TypeOK, Requests, Responses, Accepted, Rejected
<1>5. CASE Tick \/ UNCHANGED vars
  BY <1>5 DEF Tick, vars, Exchange
<1>. QED
  BY <1>1, <1>2, <1>3, <1>4, <1>5 DEF Next

\* No step makes a lease object speak for another holder.
LEMMA OwnershipStep ==
    TypeOK /\ Etags /\ Exchange /\ Ownership /\ [Next]_vars => Ownership'
<1>. SUFFICES ASSUME TypeOK, Etags, Exchange, Ownership, [Next]_vars PROVE Ownership'
  OBVIOUS
<1>1. ASSUME NEW h \in Holders, Acquisition(h) PROVE Ownership'
  <2>1. CASE Read(h)
    BY <1>1, <2>1 DEF Read, Ownership, TypeOK, Locals, PCs, OutOfScope
  <2>2. CASE ReadError(h)
    BY <1>1, <2>2 DEF ReadError, Ownership, TypeOK, Locals, PCs, OutOfScope
  <2>3. CASE DecideThrow(h)
    BY <1>1, <2>3 DEF DecideThrow, Ownership, TypeOK, Locals, PCs, OutOfScope
  <2>4. CASE DecidePut(h)
    BY <1>1, <2>4
    DEF DecidePut, AcquiredDocument, Format, Ownership, Exchange, TypeOK, Locals, PCs
  <2>5. CASE DecideBackoff(h)
    BY <1>1, <2>5 DEF DecideBackoff, Ownership, TypeOK, Locals, PCs
  <2>6. CASE AcquireOk(h)
    BY <1>1, <2>6 DEF AcquireOk, Ownership, TypeOK, Locals, PCs, NoResponse
  <2>7. CASE AcquireConflict(h)
    BY <1>1, <2>7 DEF AcquireConflict, Ownership, TypeOK, Locals, PCs, OutOfScope, NoResponse
  <2>8. CASE AcquireError(h)
    BY <1>1, <2>8 DEF AcquireError, Ownership, TypeOK, Locals, PCs, OutOfScope, NoResponse
  <2>. QED
    BY <1>1, <2>1, <2>2, <2>3, <2>4, <2>5, <2>6, <2>7, <2>8 DEF Acquisition
<1>2. ASSUME NEW h \in Holders, LeaseObject(h) PROVE Ownership'
  <2>1. ASSUME NEW s, WriteSend(h, s) PROVE Ownership'
    BY <1>2, <2>1
    DEF WriteSend, NextDocument, Ownership, Exchange, TypeOK, Locals, Document, PCs
  <2>2. CASE Renew(h) \/ UpdateState(h)
    BY <2>1, <2>2 DEF Renew, UpdateState
  <2>3. CASE CheckRefused(h) \/ ExpiryTimer(h) \/ CallerAbort(h) \/ Promote(h) \/ ReleaseCall(h)
    BY <1>2, <2>3
    DEF CheckRefused, ExpiryTimer, CallerAbort, Promote, ReleaseCall, Ownership, TypeOK,
        Locals, PCs
  <2>4. CASE WriteOk(h)
    BY <1>2, <2>4 DEF WriteOk, Ownership, TypeOK, Locals, PCs, NoResponse
  <2>5. CASE WriteFailed(h)
    BY <1>2, <2>5 DEF WriteFailed, Ownership, TypeOK, Locals, PCs, NoResponse
  <2>6. CASE ReleaseSend(h)
    BY <1>2, <2>6 DEF ReleaseSend, Ownership, TypeOK, Locals, PCs
  <2>7. CASE ReleaseDone(h)
    BY <1>2, <2>7 DEF ReleaseDone, Ownership, TypeOK, Locals, PCs, OutOfScope, NoResponse
  <2>. QED
    BY <1>2, <2>2, <2>3, <2>4, <2>5, <2>6, <2>7 DEF LeaseObject
<1>3. ASSUME NEW h \in Holders, Crash(h) PROVE Ownership'
  BY <1>3 DEF Crash, Ownership, TypeOK, Locals, PCs, OutOfScope, NoResponse
<1>4. ASSUME NEW r \in net, Serve(r) PROVE Ownership'
  BY <1>4
  DEF Serve, Ownership, Exchange, Etags, Format, TypeOK, Requests, Responses, Accepted, Rejected
<1>5. CASE Tick \/ UNCHANGED vars
  BY <1>5 DEF Tick, vars, Ownership
<1>. QED
  BY <1>1, <1>2, <1>3, <1>4, <1>5 DEF Next

\* No step separates an ETag from its document.
LEMMA CopiesStep ==
    TypeOK /\ Etags /\ Exchange /\ Ownership /\ Copies /\ [Next]_vars => Copies'
<1>. SUFFICES ASSUME TypeOK, Etags, Exchange, Ownership, Copies, [Next]_vars PROVE Copies'
  OBVIOUS
<1>1. ASSUME NEW h \in Holders, Acquisition(h) PROVE Copies'
  <2>1. CASE Read(h)
    BY <1>1, <2>1 DEF Read, Copies, TypeOK, Locals, PCs, OutOfScope, NoObject
  <2>2. CASE ReadError(h)
    BY <1>1, <2>2 DEF ReadError, Copies, TypeOK, Locals, PCs, OutOfScope, NoObject
  <2>3. CASE DecideThrow(h)
    BY <1>1, <2>3 DEF DecideThrow, Copies, TypeOK, Locals, PCs, OutOfScope, NoObject
  <2>4. CASE DecidePut(h)
    BY <1>1, <2>4
    DEF DecidePut, AcquiredDocument, Request, Copies, Exchange, TypeOK, Locals, PCs, NoObject
  <2>5. CASE DecideBackoff(h)
    BY <1>1, <2>5 DEF DecideBackoff, Copies, TypeOK, Locals, PCs, NoObject
  <2>6. CASE AcquireOk(h)
    BY <1>1, <2>6 DEF AcquireOk, Copies, TypeOK, Locals, PCs, NoResponse
  <2>7. CASE AcquireConflict(h)
    BY <1>1, <2>7
    DEF AcquireConflict, Copies, TypeOK, Locals, PCs, OutOfScope, NoObject, NoResponse
  <2>8. CASE AcquireError(h)
    BY <1>1, <2>8, AbandonedRequests
    DEF AcquireError, Copies, TypeOK, Locals, PCs, OutOfScope, NoObject, NoResponse
  <2>. QED
    BY <1>1, <2>1, <2>2, <2>3, <2>4, <2>5, <2>6, <2>7, <2>8 DEF Acquisition
<1>2. ASSUME NEW h \in Holders, LeaseObject(h) PROVE Copies'
  <2>1. ASSUME NEW s, WriteSend(h, s) PROVE Copies'
    <3>1. NextDocument(h, s).version # 0
      BY <1>2, <2>1 DEF WriteSend, NextDocument, Ownership, Format, TypeOK, Locals, Document
    <3>2. resp[h].status # "ok"
      BY <1>2, <2>1 DEF WriteSend, Exchange
    <3>. QED
      BY <1>2, <2>1, <3>1, <3>2 DEF WriteSend, Request, Copies, TypeOK, Locals
  <2>2. CASE Renew(h) \/ UpdateState(h)
    BY <2>1, <2>2 DEF Renew, UpdateState
  <2>3. CASE CheckRefused(h) \/ ExpiryTimer(h) \/ CallerAbort(h) \/ Promote(h) \/ ReleaseCall(h)
    BY <1>2, <2>3
    DEF CheckRefused, ExpiryTimer, CallerAbort, Promote, ReleaseCall, Copies, TypeOK,
        Locals, PCs
  <2>4. CASE WriteOk(h)
    BY <1>2, <2>4 DEF WriteOk, Copies, TypeOK, Locals, PCs, NoResponse
  <2>5. CASE WriteFailed(h)
    BY <1>2, <2>5, AbandonedRequests DEF WriteFailed, Copies, TypeOK, Locals, PCs, NoResponse
  <2>6. CASE ReleaseSend(h)
    BY <1>2, <2>6
    DEF ReleaseSend, ReleasedDocument, Request, Copies, Ownership, Format, TypeOK, Locals,
        Document, PCs
  <2>7. CASE ReleaseDone(h)
    BY <1>2, <2>7, AbandonedRequests
    DEF ReleaseDone, Copies, TypeOK, Locals, PCs, OutOfScope, NoObject, NoResponse
  <2>. QED
    BY <1>2, <2>2, <2>3, <2>4, <2>5, <2>6, <2>7 DEF LeaseObject
<1>3. ASSUME NEW h \in Holders, Crash(h) PROVE Copies'
  BY <1>3, AbandonedRequests
  DEF Crash, Copies, TypeOK, Locals, PCs, OutOfScope, NoObject, NoResponse
<1>4. ASSUME NEW r \in net, Serve(r) PROVE Copies'
  BY <1>4
  DEF Serve, Copies, Ownership, Exchange, Etags, Format, TypeOK, Requests, Responses, Stored,
      Locals, Accepted, Rejected, NoObject, Absent
<1>5. CASE Tick \/ UNCHANGED vars
  BY <1>5 DEF Tick, vars, Copies
<1>. QED
  BY <1>1, <1>2, <1>3, <1>4, <1>5 DEF Next

\* Why S3 may accept r: its sender saw the current document expired and takes
\* over, or it is the holder the current document names.
Justified(r) ==
    \/ /\ r.doc.holder = r.from
       /\ r.doc.version = Format(r.from)
       /\ r.doc.generation = obj.doc.generation + 1
       /\ r.doc.state = obj.doc.state
       /\ obj.doc.version = 2 => r.from \in Durable
       /\ obj.doc.version = 0 \/ obj.doc.expiresAt <= now + Skew[r.from]
    \/ /\ obj.doc.holder = r.from
       /\ obj.doc.version = Format(r.from)
       /\ \/ r.doc = Absent /\ r.from \notin Durable
          \/ /\ r.doc.holder = r.from
             /\ r.doc.version = Format(r.from)
             /\ r.doc.generation = obj.doc.generation

\* Every write that S3 would accept now is justified; one that waits for the
\* object to be absent starts a new history.
Justification ==
    \A r \in net :
        /\ r.cond = obj.etag => Justified(r)
        /\ r.cond = 0 => /\ r.doc.holder = r.from
                         /\ r.doc.version = Format(r.from)
                         /\ r.doc.generation = 1
                         /\ r.doc.state = NoState

\* Everything known so far about the exchange with S3.
Protocol == TypeOK /\ Etags /\ Exchange /\ Ownership /\ Copies

\* The exchange with S3 stays consistent.
LEMMA ProtocolInvariant == Spec => []Protocol
<1>1. Init => Protocol
  BY TypeInit DEF Protocol, Init, Etags, Exchange, Ownership, Copies, NoObject, NoResponse
<1>2. Protocol /\ [Next]_vars => Protocol'
  BY TypeStep, EtagsStep, ExchangeStep, OwnershipStep, CopiesStep DEF Protocol
<1>. QED
  BY <1>1, <1>2, PTL DEF Spec

\* No step puts an unjustified write in front of S3.
LEMMA JustificationStep == Protocol /\ Justification /\ [Next]_vars => Justification'
<1>. SUFFICES ASSUME Protocol, Justification, [Next]_vars PROVE Justification'
  OBVIOUS
<1>. USE DEF Protocol
\* What happens to the requests already sent when the object stays as it is.
<1>1. ASSUME UNCHANGED obj, now' >= now, NEW q \in net, NEW r,
             r.from = q.from, r.cond = q.cond, r.doc = q.doc
      PROVE  /\ r.cond = obj'.etag => Justified(r)'
             /\ r.cond = 0 => /\ r.doc.holder = r.from
                              /\ r.doc.version = Format(r.from)
                              /\ r.doc.generation = 1
                              /\ r.doc.state = NoState
  <2>1. q.from \in Holders /\ Skew[q.from] \in Nat /\ now \in Nat /\ obj.doc.expiresAt \in Nat
    BY ConstantsAssumption DEF TypeOK, Requests, Stored, Document
  <2>2. now' \in Nat
    BY TypeStep DEF TypeOK
  <2>. QED
    BY <1>1, <2>1, <2>2 DEF Justification, Justified
<1>2. ASSUME NEW h \in Holders, NEW e, NEW d,
             net' = net \cup {Request(h, e, d)},
             UNCHANGED <<obj, now>>,
             e = obj.etag => Justified(Request(h, e, d)),
             e = 0 => /\ d.holder = h /\ d.version = Format(h)
                      /\ d.generation = 1 /\ d.state = NoState
      PROVE  Justification'
  <2>1. Request(h, e, d).from = h /\ Request(h, e, d).cond = e /\ Request(h, e, d).doc = d
    BY DEF Request
  <2>2. Justified(Request(h, e, d)) => Justified(Request(h, e, d))'
    BY <1>2, <2>1 DEF Justified
  <2>3. now' >= now
    BY <1>2 DEF TypeOK
  <2>4. ASSUME NEW r \in net
        PROVE  /\ r.cond = obj'.etag => Justified(r)'
               /\ r.cond = 0 => /\ r.doc.holder = r.from
                                /\ r.doc.version = Format(r.from)
                                /\ r.doc.generation = 1
                                /\ r.doc.state = NoState
    BY <1>1, <1>2, <2>3
  <2>. QED
    BY <1>2, <2>1, <2>2, <2>4 DEF Justification
<1>3. ASSUME NEW h \in Holders, net' = Abandoned(h), UNCHANGED <<obj, now>>
      PROVE  Justification'
  <2>1. now' >= now
    BY <1>3 DEF TypeOK
  <2>2. SUFFICES ASSUME NEW r \in Abandoned(h)
        PROVE  /\ r.cond = obj'.etag => Justified(r)'
               /\ r.cond = 0 => /\ r.doc.holder = r.from
                                /\ r.doc.version = Format(r.from)
                                /\ r.doc.generation = 1
                                /\ r.doc.state = NoState
    BY <1>3 DEF Justification
  <2>3. PICK q \in net : r.from = q.from /\ r.cond = q.cond /\ r.doc = q.doc
    BY AbandonedRequests
  <2>. QED
    BY <1>1, <1>3, <2>1, <2>3
<1>4. ASSUME UNCHANGED <<net, obj>>, now' >= now PROVE Justification'
  BY <1>1, <1>4 DEF Justification
<1>5. ASSUME NEW h \in Holders, Acquisition(h) PROVE Justification'
  <2>1. CASE DecidePut(h)
    <3>1. local[h].snap.etag = obj.etag =>
             Justified(Request(h, local[h].snap.etag, AcquiredDocument(h)))
      BY <1>5, <2>1
      DEF DecidePut, Justified, Request, AcquiredDocument, Copies, FormatRefused, Takeable,
          Format, Date
    <3>2. local[h].snap.etag = 0 =>
             /\ AcquiredDocument(h).holder = h /\ AcquiredDocument(h).version = Format(h)
             /\ AcquiredDocument(h).generation = 1 /\ AcquiredDocument(h).state = NoState
      BY <1>5 DEF AcquiredDocument, Copies, NoObject, Absent, Format
    <3>. QED
      BY <1>2, <1>5, <2>1, <3>1, <3>2 DEF DecidePut
  <2>2. CASE AcquireError(h)
    BY <1>3, <1>5, <2>2 DEF AcquireError
  <2>3. CASE \/ Read(h) \/ ReadError(h) \/ DecideThrow(h) \/ DecideBackoff(h)
             \/ AcquireOk(h) \/ AcquireConflict(h)
    BY <1>4, <1>5, <2>3
    DEF Read, ReadError, DecideThrow, DecideBackoff, AcquireOk, AcquireConflict, TypeOK
  <2>. QED
    BY <1>5, <2>1, <2>2, <2>3 DEF Acquisition
<1>6. ASSUME NEW h \in Holders, LeaseObject(h) PROVE Justification'
  <2>1. ASSUME NEW s, WriteSend(h, s) PROVE Justification'
    <3>1. local[h].etag # 0
      BY <1>6, <2>1 DEF WriteSend, Ownership
    <3>2. local[h].etag = obj.etag =>
             Justified(Request(h, local[h].etag, NextDocument(h, s)))
      <4>1. /\ NextDocument(h, s).holder = local[h].doc.holder
            /\ NextDocument(h, s).version = local[h].doc.version
            /\ NextDocument(h, s).generation = local[h].doc.generation
        BY <1>6 DEF NextDocument, TypeOK, Locals, Document
      <4>. QED
        BY <1>6, <2>1, <4>1 DEF WriteSend, Justified, Request, Copies, Ownership
    <3>. QED
      BY <1>2, <1>6, <2>1, <3>1, <3>2 DEF WriteSend
  <2>2. CASE Renew(h) \/ UpdateState(h)
    BY <2>1, <2>2 DEF Renew, UpdateState
  <2>3. CASE WriteFailed(h) \/ ReleaseDone(h)
    BY <1>3, <1>6, <2>3 DEF WriteFailed, ReleaseDone
  <2>4. CASE ReleaseSend(h)
    <3>1. local[h].etag # 0
      BY <1>6, <2>4 DEF ReleaseSend, Ownership
    <3>2. local[h].etag = obj.etag =>
             Justified(Request(h, local[h].etag, ReleasedDocument(h)))
      <4>1. ReleasedDocument(h) = Absent \/
              /\ ReleasedDocument(h).holder = local[h].doc.holder
              /\ ReleasedDocument(h).version = local[h].doc.version
              /\ ReleasedDocument(h).generation = local[h].doc.generation
        BY <1>6 DEF ReleasedDocument, TypeOK, Locals, Document
      <4>2. h \in Durable => ReleasedDocument(h) # Absent
        BY <1>6, <2>4, ConstantsAssumption
        DEF ReleaseSend, ReleasedDocument, Ownership, TypeOK, Locals, Document, Absent
      <4>. QED
        BY <1>6, <2>4, <4>1, <4>2 DEF ReleaseSend, Justified, Request, Copies, Ownership
    <3>. QED
      BY <1>2, <1>6, <2>4, <3>1, <3>2 DEF ReleaseSend
  <2>5. CASE \/ CheckRefused(h) \/ WriteOk(h) \/ ExpiryTimer(h) \/ CallerAbort(h)
             \/ Promote(h) \/ ReleaseCall(h)
    BY <1>4, <1>6, <2>5
    DEF CheckRefused, WriteOk, ExpiryTimer, CallerAbort, Promote, ReleaseCall, TypeOK
  <2>. QED
    BY <1>6, <2>2, <2>3, <2>4, <2>5 DEF LeaseObject
<1>7. ASSUME NEW h \in Holders, Crash(h) PROVE Justification'
  BY <1>3, <1>7 DEF Crash
<1>8. ASSUME NEW r \in net, Serve(r) PROVE Justification'
  <2>1. CASE ~Matches(r)
    <3>1. UNCHANGED <<obj, now>> /\ net' \subseteq net
      BY <1>8, <2>1 DEF Serve
    <3>. QED
      BY <1>1, <3>1 DEF Justification, TypeOK
  <2>2. CASE Matches(r) /\ r.doc.version # 0
    <3>1. obj'.etag = nextEtag /\ net' \subseteq net
      BY <1>8, <2>2 DEF Serve
    <3>. QED
      BY <1>8, <3>1 DEF Justification, Etags, TypeOK, Requests
  <2>3. CASE Matches(r) /\ r.doc.version = 0
    <3>1. obj' = NoObject /\ net' \subseteq net
      BY <1>8, <2>3 DEF Serve, Copies, NoObject
    <3>. QED
      BY <1>8, <3>1 DEF Justification, Justified, NoObject, Absent
  <2>. QED
    BY <2>1, <2>2, <2>3
<1>9. CASE Tick
  BY <1>4, <1>9 DEF Tick, TypeOK
<1>10. CASE UNCHANGED vars
  BY <1>4, <1>10 DEF vars, TypeOK
<1>. QED
  BY <1>5, <1>6, <1>7, <1>8, <1>9, <1>10 DEF Next

\* S3 never accepts an unjustified write.
LEMMA JustificationInvariant == Spec => [](Protocol /\ Justification)
<1>1. Init => Justification
  BY DEF Init, Justification
<1>. QED
  BY <1>1, ProtocolInvariant, JustificationStep, PTL DEF Spec

-----------------------------------------------------------------------------
(* Durable authority *)

\* The object changes only when S3 accepts a justified write.
LEMMA AuthorityStep ==
    ASSUME Protocol, Justification, [Next]_vars
    PROVE  \/ UNCHANGED obj
           \/ \E r \in net : Justified(r) /\ obj'.doc = r.doc
<1>1. ASSUME NEW r \in net, Serve(r)
      PROVE  UNCHANGED obj \/ (Justified(r) /\ obj'.doc = r.doc)
  BY <1>1 DEF Serve, Matches, Justification
<1>2. ASSUME NEW h \in Holders, Acquisition(h) PROVE UNCHANGED obj
  BY <1>2
  DEF Acquisition, Read, ReadError, DecideThrow, DecidePut, DecideBackoff, AcquireOk,
      AcquireConflict, AcquireError
<1>3. ASSUME NEW h \in Holders, LeaseObject(h) PROVE UNCHANGED obj
  BY <1>3
  DEF LeaseObject, Renew, UpdateState, WriteSend, CheckRefused, WriteOk, WriteFailed,
      ExpiryTimer, CallerAbort, Promote, ReleaseCall, ReleaseSend, ReleaseDone
<1>. QED
  BY <1>1, <1>2, <1>3 DEF Next, Crash, Tick, vars

\* However late a write or a delete of an older-format holder reaches S3, it
\* never replaces or removes a fencing-aware document.
THEOREM NeverDowngraded == Spec => AuthorityNeverDowngraded
<1>1. Protocol /\ Justification /\ [Next]_vars
        => [obj.doc.version = 2 => obj'.doc.version = 2]_vars
  BY AuthorityStep, ConstantsAssumption DEF Justified, Format
<1>. QED
  BY <1>1, JustificationInvariant, PTL DEF Spec, AuthorityNeverDowngraded

\* When every holder is durable, the document is a fenced register: whatever is
\* lost, delayed or resumed, a superseded generation never publishes.
THEOREM Fencing == ASSUME Durable = Holders PROVE Spec => FencedAuthority
<1>1. Init => Register!Init
  BY DEF Init, Register!Init, NoObject, Absent, LegacyLease
<1>2. Protocol /\ Justification /\ [Next]_vars => [Register!Next]_Register!rvars
  <2>. SUFFICES ASSUME Protocol, Justification, [Next]_vars
                PROVE  [Register!Next]_Register!rvars
    OBVIOUS
  <2>1. CASE UNCHANGED obj
    BY <2>1 DEF Register!rvars
  <2>2. ASSUME NEW r \in net, Justified(r), obj'.doc = r.doc
        PROVE  [Register!Next]_Register!rvars
    <3>1. r.from \in Holders /\ r.from \in Durable /\ r.from # Legacy /\ r.doc \in Document
      BY ConstantsAssumption DEF Protocol, TypeOK, Requests
    <3>2. r.doc.state \in Payloads
      BY <3>1 DEF Document
    <3>. QED
      BY <2>2, <3>1, <3>2
      DEF Justified, Register!Next, Register!Takeover, Register!Publish, Register!rvars
  <2>. QED
    BY <2>1, <2>2, AuthorityStep
<1>. QED
  BY <1>1, <1>2, JustificationInvariant, PTL DEF Spec, FencedAuthority, Register!Spec

-----------------------------------------------------------------------------
(* Exclusive ownership, when the clocks agree *)

ClocksAgreed == \A h \in Holders : Skew[h] = 0

\* t <= d, where d may be the missing deadline.
Within(t, d) == d = Infinity \/ t <= d

\* No document outlives a full TTL or the launch deadline of its holder.
Expiries ==
    \A h \in Holders :
        /\ pc[h] \in {"held", "write", "releasing"} =>
             /\ local[h].doc.expiresAt <= Date(h) + TTL
             /\ Within(local[h].doc.expiresAt, local[h].deadline)
        /\ pc[h] \in {"put", "write"} =>
             /\ local[h].next.expiresAt <= Date(h) + TTL
             /\ Within(local[h].next.expiresAt, local[h].deadline)
        /\ pc[h] = "write" => local[h].doc.expiresAt <= local[h].next.expiresAt
        /\ \A r \in net : r.from = h => Within(r.doc.expiresAt, local[h].deadline)
        /\ obj.doc.holder = h => Within(obj.doc.expiresAt, local[h].deadline)

\* No step lets a document outlive its bounds.
LEMMA ExpiriesStep ==
    Protocol /\ Justification /\ Expiries /\ [Next]_vars => Expiries'
<1>. SUFFICES ASSUME Protocol, Justification, Expiries, [Next]_vars PROVE Expiries'
  OBVIOUS
<1>. USE DEF Protocol
<1>1. ASSUME NEW h \in Holders, NEW d \in Nat \cup {Infinity}, d = local[h].deadline
      PROVE  /\ Date(h) + TTL \in Nat
             /\ Cap(Date(h) + TTL, d) \in Nat
             /\ Cap(Date(h) + TTL, d) <= Date(h) + TTL
             /\ Within(Cap(Date(h) + TTL, d), d)
             /\ \A t \in Nat : t <= Date(h) + TTL /\ Within(t, d)
                                 => t <= Cap(Date(h) + TTL, d)
  <2>1. Date(h) + TTL \in Nat
    BY <1>1, ConstantsAssumption DEF Date, TypeOK
  <2>. QED
    BY <1>1, <2>1, ConstantsAssumption DEF Cap, Before, Within
<1>2. ASSUME NEW h \in Holders, Acquisition(h) PROVE Expiries'
  <2>1. CASE DecidePut(h)
    <3>1. local[h].deadline \in Nat \cup {Infinity}
      BY <1>2 DEF TypeOK, Locals
    <3>2. /\ AcquiredDocument(h).expiresAt <= Date(h) + TTL
          /\ Within(AcquiredDocument(h).expiresAt, local[h].deadline)
      BY <1>1, <1>2, <3>1 DEF AcquiredDocument
    <3>. QED
      BY <1>2, <2>1, <3>2 DEF DecidePut, Expiries, Request, Date, TypeOK, Locals
  <2>2. CASE AcquireOk(h)
    BY <1>2, <2>2 DEF AcquireOk, Expiries, Date, TypeOK, Locals
  <2>3. CASE AcquireError(h)
    BY <1>2, <2>3, AbandonedRequests
    DEF AcquireError, Expiries, Date, TypeOK, Locals, OutOfScope
  <2>4. CASE Read(h) \/ ReadError(h) \/ DecideThrow(h)
    BY <1>2, <2>4
    DEF Read, ReadError, DecideThrow, Expiries, Date, TypeOK, Locals, OutOfScope
  <2>5. CASE DecideBackoff(h) \/ AcquireConflict(h)
    BY <1>2, <2>5
    DEF DecideBackoff, AcquireConflict, Expiries, Date, TypeOK, Locals, OutOfScope
  <2>. QED
    BY <1>2, <2>1, <2>2, <2>3, <2>4, <2>5 DEF Acquisition
<1>3. ASSUME NEW h \in Holders, LeaseObject(h) PROVE Expiries'
  <2>1. ASSUME NEW s, WriteSend(h, s) PROVE Expiries'
    <3>1. local[h].deadline \in Nat \cup {Infinity} /\ local[h].doc.expiresAt \in Nat
      BY <1>3 DEF TypeOK, Locals, Document
    <3>2. NextDocument(h, s).expiresAt = Cap(Date(h) + TTL, local[h].deadline)
      BY <1>3 DEF NextDocument, TypeOK, Locals, Document
    <3>3. /\ local[h].doc.expiresAt <= Date(h) + TTL
          /\ Within(local[h].doc.expiresAt, local[h].deadline)
      BY <1>3, <2>1 DEF WriteSend, Expiries
    <3>4. /\ NextDocument(h, s).expiresAt <= Date(h) + TTL
          /\ Within(NextDocument(h, s).expiresAt, local[h].deadline)
          /\ local[h].doc.expiresAt <= NextDocument(h, s).expiresAt
      BY <1>1, <1>3, <3>1, <3>2, <3>3
    <3>. QED
      BY <1>3, <2>1, <3>4 DEF WriteSend, Expiries, Request, Date, TypeOK, Locals
  <2>2. CASE Renew(h) \/ UpdateState(h)
    BY <2>1, <2>2 DEF Renew, UpdateState
  <2>3. CASE CheckRefused(h) \/ ExpiryTimer(h) \/ CallerAbort(h) \/ ReleaseCall(h)
    BY <1>3, <2>3
    DEF CheckRefused, ExpiryTimer, CallerAbort, ReleaseCall, Expiries, Date, TypeOK, Locals
  <2>4. CASE Promote(h)
    BY <1>3, <2>4 DEF Promote, Expiries, Within, Date, TypeOK, Locals
  <2>5. CASE WriteOk(h)
    BY <1>3, <2>5 DEF WriteOk, Expiries, Date, TypeOK, Locals
  <2>6. CASE WriteFailed(h)
    BY <1>3, <2>6, AbandonedRequests DEF WriteFailed, Expiries, Date, TypeOK, Locals
  <2>7. CASE ReleaseSend(h)
    <3>1. Within(ReleasedDocument(h).expiresAt, local[h].deadline)
      BY <1>3, ConstantsAssumption
      DEF ReleasedDocument, Absent, Within, TypeOK, Locals, Document
    <3>. QED
      BY <1>3, <2>7, <3>1 DEF ReleaseSend, Expiries, Request, Date, TypeOK
  <2>8. CASE ReleaseDone(h)
    BY <1>3, <2>8, AbandonedRequests
    DEF ReleaseDone, Expiries, Date, TypeOK, Locals, OutOfScope
  <2>. QED
    BY <1>3, <2>2, <2>3, <2>4, <2>5, <2>6, <2>7, <2>8 DEF LeaseObject
<1>4. ASSUME NEW h \in Holders, Crash(h) PROVE Expiries'
  BY <1>4, AbandonedRequests DEF Crash, Expiries, Date, TypeOK, Locals, OutOfScope
<1>5. ASSUME NEW r \in net, Serve(r) PROVE Expiries'
  <2>1. r.doc.holder = r.from \/ r.doc.holder = Legacy \/ ~Matches(r)
    BY <1>5 DEF Matches, Justification, Justified, Absent
  <2>2. obj' = obj \/ (Matches(r) /\ obj'.doc = r.doc)
    BY <1>5 DEF Serve
  <2>3. UNCHANGED <<now, pc, local>> /\ net' \subseteq net
    BY <1>5 DEF Serve
  <2>4. \A g \in Holders : obj'.doc.holder = g => Within(obj'.doc.expiresAt, local[g].deadline)
    BY <2>1, <2>2, ConstantsAssumption DEF Expiries, TypeOK, Requests
  <2>. QED
    BY <2>3, <2>4 DEF Expiries, Date
<1>6. CASE Tick
  BY <1>6, ConstantsAssumption DEF Tick, Expiries, Date, TypeOK, Locals, Document
<1>7. CASE UNCHANGED vars
  BY <1>7 DEF vars, Expiries, Date
<1>. QED
  BY <1>2, <1>3, <1>4, <1>5, <1>6, <1>7 DEF Next

\* While its own clock says the lease is unexpired, a holder's copy is what S3
\* stores: the one it last saw accepted, or the one S3 has just accepted.
Claims ==
    \A h \in Holders :
        /\ pc[h] \in {"put", "write"} /\ resp[h].status = "ok"
             /\ now < local[h].next.expiresAt
             => obj = [etag |-> resp[h].etag, doc |-> local[h].next]
        /\ pc[h] \in {"held", "write"} /\ ~local[h].aborted
             /\ now < local[h].doc.expiresAt
             /\ ~(pc[h] = "write" /\ resp[h].status = "ok")
             => obj = [etag |-> local[h].etag, doc |-> local[h].doc]

\* No step takes the document away from a holder whose lease is unexpired.
LEMMA ClaimsStep ==
    ClocksAgreed /\ Protocol /\ Justification /\ Expiries /\ Claims /\ [Next]_vars => Claims'
<1>. SUFFICES ASSUME ClocksAgreed, Protocol, Justification, Expiries, Claims, [Next]_vars
              PROVE  Claims'
  OBVIOUS
<1>. USE DEF Protocol
<1>1. ASSUME NEW h \in Holders, Acquisition(h) PROVE Claims'
  <2>1. CASE DecidePut(h)
    BY <1>1, <2>1 DEF DecidePut, Claims, Exchange, TypeOK, Locals, PCs
  <2>2. CASE AcquireOk(h)
    BY <1>1, <2>2 DEF AcquireOk, Claims, TypeOK, Locals, PCs, NoResponse
  <2>3. CASE AcquireError(h)
    BY <1>1, <2>3 DEF AcquireError, Claims, TypeOK, Locals, PCs, NoResponse
  <2>4. CASE Read(h) \/ ReadError(h) \/ DecideThrow(h)
    BY <1>1, <2>4 DEF Read, ReadError, DecideThrow, Claims, TypeOK, Locals, PCs
  <2>5. CASE DecideBackoff(h) \/ AcquireConflict(h)
    BY <1>1, <2>5 DEF DecideBackoff, AcquireConflict, Claims, TypeOK, Locals, PCs, NoResponse
  <2>. QED
    BY <1>1, <2>1, <2>2, <2>3, <2>4, <2>5 DEF Acquisition
<1>2. ASSUME NEW h \in Holders, LeaseObject(h) PROVE Claims'
  <2>1. ASSUME NEW s, WriteSend(h, s) PROVE Claims'
    BY <1>2, <2>1 DEF WriteSend, Claims, Exchange, TypeOK, Locals, PCs
  <2>2. CASE Renew(h) \/ UpdateState(h)
    BY <2>1, <2>2 DEF Renew, UpdateState
  <2>3. CASE \/ CheckRefused(h) \/ ExpiryTimer(h) \/ CallerAbort(h) \/ Promote(h)
             \/ ReleaseCall(h)
    BY <1>2, <2>3
    DEF CheckRefused, ExpiryTimer, CallerAbort, Promote, ReleaseCall, Claims, TypeOK, Locals, PCs
  <2>4. CASE WriteOk(h)
    BY <1>2, <2>4 DEF WriteOk, Claims, TypeOK, Locals, PCs, NoResponse
  <2>5. CASE WriteFailed(h)
    BY <1>2, <2>5 DEF WriteFailed, Claims, TypeOK, Locals, PCs, NoResponse
  <2>6. CASE ReleaseSend(h)
    BY <1>2, <2>6 DEF ReleaseSend, Claims, TypeOK, Locals, PCs
  <2>7. CASE ReleaseDone(h)
    BY <1>2, <2>7 DEF ReleaseDone, Claims, TypeOK, Locals, PCs, NoResponse
  <2>. QED
    BY <1>2, <2>2, <2>3, <2>4, <2>5, <2>6, <2>7 DEF LeaseObject
<1>3. ASSUME NEW h \in Holders, Crash(h) PROVE Claims'
  BY <1>3 DEF Crash, Claims, TypeOK, Locals, PCs, NoResponse
<1>4. ASSUME NEW r \in net, Serve(r) PROVE Claims'
  <2>. SUFFICES ASSUME NEW h \in Holders
       PROVE  /\ pc[h] \in {"put", "write"} /\ resp'[h].status = "ok"
                   /\ now < local[h].next.expiresAt
                   => obj' = [etag |-> resp'[h].etag, doc |-> local[h].next]
              /\ pc[h] \in {"held", "write"} /\ ~local[h].aborted
                   /\ now < local[h].doc.expiresAt
                   /\ ~(pc[h] = "write" /\ resp'[h].status = "ok")
                   => obj' = [etag |-> local[h].etag, doc |-> local[h].doc]
    BY <1>4 DEF Serve, Claims
  <2>0. r.from \in Holders /\ r.awaited \in BOOLEAN
    BY <1>4 DEF TypeOK, Requests
  <2>1. CASE ~Matches(r)
    BY <1>4, <2>0, <2>1 DEF Serve, Rejected, Claims, TypeOK, Exchange
  \* An accepted write of h itself is the one h awaits.
  <2>2. CASE Matches(r) /\ r.from = h
    BY <1>4, <2>0, <2>2 DEF Serve, Accepted, Exchange, TypeOK
  \* Nobody else's write is accepted while h's copy is current and unexpired.
  <2>3. CASE Matches(r) /\ r.from # h
    <3>1. resp'[h] = resp[h]
      BY <1>4, <2>0, <2>3 DEF Serve, TypeOK
    <3>2. Justified(r)
      BY <1>4, <2>3 DEF Justification, Matches
    <3>3. obj.doc.holder # h \/ obj.doc.version = 0 \/ obj.doc.expiresAt <= now
      BY <2>0, <2>3, <3>2 DEF Justified, ClocksAgreed, TypeOK
    <3>4. now \in Nat
          /\ local[h].doc.expiresAt \in Nat /\ local[h].next.expiresAt \in Nat
      BY DEF TypeOK, Locals, Document
    <3>. QED
      BY <3>1, <3>3, <3>4 DEF Claims, Ownership, Format
  <2>. QED
    BY <2>1, <2>2, <2>3
<1>5. CASE Tick
  BY <1>5 DEF Tick, Claims, TypeOK, Locals, Document
<1>6. CASE UNCHANGED vars
  BY <1>6 DEF vars, Claims
<1>. QED
  BY <1>1, <1>2, <1>3, <1>4, <1>5, <1>6 DEF Next

\* The inductive invariant of the lease.
LeaseInvariant ==
    Protocol /\ Justification /\ Expiries /\ (ClocksAgreed => Claims)

\* The invariant holds in every reachable state.
LEMMA LeaseInvariantHolds == Spec => []LeaseInvariant
<1>1. Init => Expiries /\ Claims
  BY ConstantsAssumption
  DEF Init, Expiries, Claims, NoResponse, NoObject, Absent, LegacyLease
<1>2. (ClocksAgreed => Claims) /\ Protocol /\ Justification /\ Expiries /\ [Next]_vars
        => (ClocksAgreed => Claims)'
  BY ClaimsStep DEF ClocksAgreed
<1>. QED
  BY <1>1, <1>2, JustificationInvariant, ExpiriesStep, PTL DEF Spec, LeaseInvariant

\* Two runtimes whose clocks agree never both own the session, whatever writes
\* are delayed, lost or answered late.
THEOREM Exclusive == Spec => []MutualExclusion
<1>1. LeaseInvariant => MutualExclusion
  <2>. SUFFICES ASSUME LeaseInvariant, ClocksAgreed, NEW h \in Holders, Valid(h)
                PROVE  obj.doc.holder = h
    BY DEF MutualExclusion, ClocksAgreed
  <2>1. ~local[h].aborted /\ now < local[h].doc.expiresAt
    BY DEF Valid, CheckFails, DeadlineFails, Date, ClocksAgreed, LeaseInvariant, Protocol,
           TypeOK, Locals, Document
  <2>2. pc[h] = "write" => now < local[h].next.expiresAt
    BY <2>1 DEF LeaseInvariant, Expiries, Protocol, TypeOK, Locals, Document
  <2>. QED
    BY <2>1, <2>2 DEF LeaseInvariant, Protocol, Claims, Ownership, Valid
<1>. QED
  BY <1>1, LeaseInvariantHolds, PTL

\* What a holder between two writes reads from its lease object is what S3
\* stores, for as long as its check passes.
THEOREM CurrentView == Spec => []HolderSeesAuthority
<1>1. LeaseInvariant => HolderSeesAuthority
  <2>. SUFFICES ASSUME LeaseInvariant, ClocksAgreed, NEW h \in Holders, Valid(h), pc[h] = "held"
                PROVE  obj = [etag |-> local[h].etag, doc |-> local[h].doc]
    BY DEF HolderSeesAuthority, ClocksAgreed
  <2>1. ~local[h].aborted /\ now < local[h].doc.expiresAt
    BY DEF Valid, CheckFails, DeadlineFails, Date, ClocksAgreed, LeaseInvariant, Protocol,
           TypeOK, Locals, Document
  <2>. QED
    BY <2>1 DEF LeaseInvariant, Claims
<1>. QED
  BY <1>1, LeaseInvariantHolds, PTL

\* The expiry stored for a launch never exceeds its absolute deadline.
THEOREM ExpiryCapped == Spec => []LaunchExpiryCapped
<1>1. LeaseInvariant => LaunchExpiryCapped
  BY DEF LeaseInvariant, Expiries, Within, LaunchExpiryCapped
<1>. QED
  BY <1>1, LeaseInvariantHolds, PTL

\* What makes a check fail stays: flags are never cleared, time does not run
\* back, and only an unexpired lease gets a later expiry or loses its deadline.
THEOREM NeverRevived == Spec => ExpiredStaysExpired
<1>1. TypeOK /\ [Next]_vars =>
        \A h \in Holders : pc[h] \in {"held", "write"} /\ CheckFails(h) => ~Valid(h)'
  <2>. SUFFICES ASSUME TypeOK, [Next]_vars, NEW h \in Holders,
                       pc[h] \in {"held", "write"}, CheckFails(h), Valid(h)'
                PROVE  FALSE
    OBVIOUS
  <2>0. /\ now \in Nat /\ now' \in Nat /\ Skew[h] \in Nat
        /\ local[h] \in Locals /\ local'[h] \in Locals
    BY TypeStep, ConstantsAssumption DEF TypeOK
  <2>1. /\ pc'[h] \in {"held", "write"} /\ ~local'[h].aborted /\ ~local'[h].released
        /\ Before(now' + Skew[h], local'[h].deadline)
        /\ now' + Skew[h] < local'[h].doc.expiresAt
    BY <2>0 DEF Valid, CheckFails, DeadlineFails, Date, Locals, Document
  \* It is enough that the flags, the deadline and the document stay.
  <2>2. ASSUME now' >= now, local[h].aborted => local'[h].aborted,
               local[h].released => local'[h].released,
               local'[h].deadline = local[h].deadline, local'[h].doc = local[h].doc
        PROVE  FALSE
    BY <2>0, <2>1, <2>2, ConstantsAssumption
    DEF CheckFails, DeadlineFails, Before, Date, Locals, Document
  <2>3. ASSUME NEW g \in Holders, g # h, Acquisition(g) \/ LeaseObject(g) \/ Crash(g)
        PROVE  local'[h] = local[h] /\ now' = now
    <3>1. CASE Acquisition(g)
      BY <2>3, <3>1
      DEF Acquisition, Read, ReadError, DecideThrow, DecidePut, DecideBackoff, AcquireOk,
          AcquireConflict, AcquireError, TypeOK
    <3>2. CASE LeaseObject(g)
      BY <2>3, <3>2
      DEF LeaseObject, Renew, UpdateState, WriteSend, CheckRefused, WriteOk, WriteFailed,
          ExpiryTimer, CallerAbort, Promote, ReleaseCall, ReleaseSend, ReleaseDone, TypeOK
    <3>3. CASE Crash(g)
      BY <2>3, <3>3 DEF Crash, TypeOK
    <3>. QED
      BY <2>3, <3>1, <3>2, <3>3
  <2>4. CASE Acquisition(h) \/ Crash(h)
    BY <2>1, <2>4
    DEF Acquisition, Read, ReadError, DecideThrow, DecidePut, DecideBackoff, AcquireOk,
        AcquireConflict, AcquireError, Crash, TypeOK
  <2>5. CASE LeaseObject(h)
    <3>1. ASSUME NEW s, WriteSend(h, s) PROVE FALSE
      BY <3>1 DEF WriteSend
    <3>2. CASE Renew(h) \/ UpdateState(h)
      BY <3>1, <3>2 DEF Renew, UpdateState
    <3>3. CASE CheckRefused(h) \/ ExpiryTimer(h) \/ CallerAbort(h) \/ ReleaseCall(h)
      BY <2>1, <3>3
      DEF CheckRefused, ExpiryTimer, CallerAbort, ReleaseCall, TypeOK, Locals
    <3>4. CASE Promote(h)
      BY <3>4 DEF Promote, Valid
    <3>5. CASE WriteOk(h)
      BY <2>0, <2>1, <3>5 DEF WriteOk, CheckFails, TypeOK, Locals
    <3>6. CASE WriteFailed(h)
      BY <2>1, <3>6 DEF WriteFailed, TypeOK, Locals
    <3>7. CASE ReleaseSend(h) \/ ReleaseDone(h)
      BY <2>1, <3>7 DEF ReleaseSend, ReleaseDone, TypeOK
    <3>. QED
      BY <2>5, <3>2, <3>3, <3>4, <3>5, <3>6, <3>7 DEF LeaseObject
  <2>6. CASE \E r \in net : Serve(r)
    BY <2>0, <2>2, <2>6 DEF Serve
  <2>7. CASE Tick \/ UNCHANGED vars
    BY <2>0, <2>2, <2>7 DEF Tick, vars
  <2>8. ASSUME NEW g \in Holders, g # h, Acquisition(g) \/ LeaseObject(g) \/ Crash(g)
        PROVE  FALSE
    BY <2>0, <2>2, <2>3, <2>8
  <2>. QED
    BY <2>4, <2>5, <2>6, <2>7, <2>8 DEF Next
<1>. QED
  BY <1>1, TypeCorrect, PTL DEF Spec, ExpiredStaysExpired
=============================================================================
