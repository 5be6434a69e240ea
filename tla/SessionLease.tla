---------------------------- MODULE SessionLease ----------------------------
(***************************************************************************)
(* The lease of packages/eve-aws-lambda-microvms/src/lease.ts: a document  *)
(* in S3 that names the current owner of a sandbox session (or of a        *)
(* template being prewarmed), changed only by conditional writes.          *)
(*                                                                         *)
(* One element of Holders is one call of acquireAwsLambdaMicrovmLease: it  *)
(* draws a fresh random holder id, tries to take the lease, and, once it   *)
(* has it, renews, publishes state and releases.  A conditional write is   *)
(* sent, applied by S3 and answered in three separate steps, so time and   *)
(* every other holder may pass between them; an answer may be lost while   *)
(* the write itself is still applied later.                                *)
(***************************************************************************)
EXTENDS Integers, FiniteSets

CONSTANTS
    Holders,    \* the acquisition attempts
    Durable,    \* the holders that ask for a tombstone on release (sessions)
    States,     \* what updateState publishes (checkpoint and launch records)
    NoState,    \* the state of a document that never carried one
    TTL,        \* ttlMs
    Wait,       \* waitMs: how long an attempt waits for another holder
    Deadline,   \* deadlineAt of each holder, in its own clock
    Infinity,   \* the deadlineAt of a holder without a launch deadline
    Skew,       \* how far each holder's Date.now() runs ahead of real time
    MaxTime,    \* bound: real time stops here
    MaxWrites   \* bound: a lease object starts no further write beyond these

\* The holder id of a document written by a runtime older than this package.
Legacy == "legacy"

ASSUME ConstantsAssumption ==
    /\ Legacy \notin Holders
    /\ Durable \subseteq Holders
    /\ NoState \notin States
    /\ TTL \in Nat /\ TTL > 0
    /\ Wait \in Nat
    /\ Infinity \notin Nat
    /\ Deadline \in [Holders -> Nat \cup {Infinity}]
    /\ Skew \in [Holders -> Nat]
    /\ MaxTime \in Nat /\ MaxWrites \in Nat

VARIABLES
    now,        \* real time
    obj,        \* the lease document stored in S3, with its ETag
    nextEtag,   \* S3 never repeats an ETag
    net,        \* conditional writes on their way to S3
    pc,         \* where each holder is in its program
    local,      \* what each holder remembers
    resp        \* S3's answer to the write a holder awaits

vars == <<now, obj, nextEtag, net, pc, local, resp>>

Payloads == States \cup {NoState}

\* LeaseDocument.  Version 0 stands for "no such object".
Document ==
    [version : 0..2, expiresAt : Nat, holder : Holders \cup {Legacy},
     generation : Nat, state : Payloads]

Absent ==
    [version |-> 0, expiresAt |-> 0, holder |-> Legacy, generation |-> 0,
     state |-> NoState]

\* A version-1 lease left behind by an older runtime has no generation.
LegacyLease ==
    [version |-> 1, expiresAt |-> 1, holder |-> Legacy, generation |-> 0,
     state |-> NoState]

NoObject == [etag |-> 0, doc |-> Absent]

Stored == [etag : Nat, doc : Document]

\* IfMatch carries an ETag; cond 0 is IfNoneMatch "*".
Requests ==
    [from : Holders, awaited : BOOLEAN, cond : Nat, doc : Document]

NoResponse == [status |-> "none", etag |-> 0]
Rejected   == [status |-> "rejected", etag |-> 0]
Accepted(e) == [status |-> "ok", etag |-> e]

Responses == [status : {"none", "rejected", "ok"}, etag : Nat]

PCs == {"idle", "read", "backoff", "put",       \* acquiring
        "held", "write", "releasing", "done",   \* lease object returned
        "threw", "crashed"}                     \* acquisition rejected; process gone

\* The closure of acquireAwsLambdaMicrovmLease: `document` and `etag`, the
\* document being written, the last document read, and the flags.
Locals ==
    [doc : Document, etag : Nat, next : Document, snap : Stored,
     waitUntil : Nat, deadline : Nat \cup {Infinity},
     aborted : BOOLEAN, released : BOOLEAN]

TypeOK ==
    /\ now \in Nat
    /\ obj \in Stored
    /\ nextEtag \in Nat
    /\ net \in SUBSET Requests
    /\ pc \in [Holders -> PCs]
    /\ local \in [Holders -> Locals]
    /\ resp \in [Holders -> Responses]

Init ==
    /\ now = 0
    /\ obj \in {NoObject, [etag |-> 1, doc |-> LegacyLease]}
    /\ nextEtag = 2
    /\ net = {}
    /\ pc = [h \in Holders |-> "idle"]
    /\ local = [h \in Holders |->
                 [doc |-> Absent, etag |-> 0, next |-> Absent, snap |-> NoObject,
                  waitUntil |-> 0, deadline |-> Deadline[h],
                  aborted |-> FALSE, released |-> FALSE]]
    /\ resp = [h \in Holders |-> NoResponse]

-----------------------------------------------------------------------------
(* Helpers *)

\* Date.now() on the host of h.
Date(h) == now + Skew[h]

\* t < deadline, t >= deadline, Math.min(t, deadline).
Before(t, d) == d = Infinity \/ t < d
CapMutant(t, d) == d
Cap(t, d) == IF Before(t, d) THEN t ELSE d

\* checkDeadline() throws: the absolute deadline passed, or a signal fired.
DeadlineFails(h) == local[h].aborted \/ ~Before(Date(h), local[h].deadline)

\* check() throws.
CheckFails(h) ==
    \/ DeadlineFails(h)
    \/ local[h].released
    \/ Date(h) >= local[h].doc.expiresAt

\* The lease object answers that it is held (no check has to have run).
Valid(h) == pc[h] \in {"held", "write"} /\ ~CheckFails(h)

\* storage.putJson / deleteObject with an exact condition.
Request(h, e, d) == [from |-> h, awaited |-> TRUE, cond |-> e, doc |-> d]

\* The variables of a call that has returned or died are out of scope; only
\* whether the lease was promoted still matters to what S3 stores.
OutOfScope(h) ==
    [doc |-> Absent, etag |-> 0, next |-> Absent, snap |-> NoObject,
     waitUntil |-> 0, deadline |-> local[h].deadline,
     aborted |-> TRUE, released |-> TRUE]

\* h stops waiting for the answers of what it sent.
Abandoned(h) ==
    {IF r.from = h THEN [r EXCEPT !.awaited = FALSE] ELSE r : r \in net}

-----------------------------------------------------------------------------
(* Acquisition: the loop of lines 62-103 *)

\* One pass reads the document.  A pass that starts after the deadline or an
\* abort throws before reading.
Read(h) ==
    /\ pc[h] \in {"idle", "backoff"}
    /\ pc[h] = "idle" => now + Wait <= MaxTime   \* bound: its wait ends within MaxTime
    /\ IF DeadlineFails(h)
       THEN /\ pc' = [pc EXCEPT ![h] = "threw"]
            /\ local' = [local EXCEPT ![h] = OutOfScope(h)]
       ELSE /\ pc' = [pc EXCEPT ![h] = "read"]
            /\ local' = [local EXCEPT
                 ![h].snap = obj,
                 ![h].waitUntil = IF pc[h] = "idle" THEN Date(h) + Wait ELSE @]
    /\ UNCHANGED <<now, obj, nextEtag, net, resp>>

\* The wait for another holder is over.
WaitOverMutant(h) == FALSE
WaitOver(h) == Date(h) >= local[h].waitUntil

\* A non-durable caller met fencing-aware authority.
FormatRefusedMutant(h) == FALSE
FormatRefused(h) == local[h].snap.doc.version = 2 /\ h \notin Durable

\* The document read is absent or expired: this pass tries to replace it.
TakeableMutant(h) ==
    local[h].snap.doc.version = 0 \/ local[h].snap.doc.expiresAt <= Date(h) + 1

Takeable(h) ==
    local[h].snap.doc.version = 0 \/ local[h].snap.doc.expiresAt <= Date(h)

\* The document a successful acquisition stores.
AcquiredDocumentMutant(h) ==
    [version |-> IF h \in Durable THEN 2 ELSE 1,
     expiresAt |-> Cap(Date(h) + TTL, local[h].deadline),
     holder |-> h,
     generation |-> local[h].snap.doc.generation + 1,
     state |-> NoState]

AcquiredDocument(h) ==
    [version |-> IF h \in Durable THEN 2 ELSE 1,
     expiresAt |-> Cap(Date(h) + TTL, local[h].deadline),
     holder |-> h,
     generation |-> local[h].snap.doc.generation + 1,
     state |-> local[h].snap.doc.state]

\* The read returned.  The pass ends here when the deadline passed meanwhile,
\* when the format is refused, or when another holder outlasts the wait.
DecideThrow(h) ==
    /\ pc[h] = "read"
    /\ \/ DeadlineFails(h)
       \/ FormatRefused(h)
       \/ ~Takeable(h) /\ WaitOver(h)
    /\ pc' = [pc EXCEPT ![h] = "threw"]
    /\ local' = [local EXCEPT ![h] = OutOfScope(h)]
    /\ UNCHANGED <<now, obj, nextEtag, net, resp>>

\* getJson itself failed.
ReadError(h) ==
    /\ pc[h] = "read"
    /\ pc' = [pc EXCEPT ![h] = "threw"]
    /\ local' = [local EXCEPT ![h] = OutOfScope(h)]
    /\ UNCHANGED <<now, obj, nextEtag, net, resp>>

DecidePut(h) ==
    /\ pc[h] = "read"
    /\ ~DeadlineFails(h) /\ ~FormatRefused(h) /\ Takeable(h)
    /\ pc' = [pc EXCEPT ![h] = "put"]
    /\ local' = [local EXCEPT ![h].next = AcquiredDocument(h), ![h].snap = NoObject]
    /\ net' = net \cup {Request(h, local[h].snap.etag, AcquiredDocument(h))}
    /\ UNCHANGED <<now, obj, nextEtag, resp>>

DecideBackoff(h) ==
    /\ pc[h] = "read"
    /\ ~DeadlineFails(h) /\ ~FormatRefused(h) /\ ~Takeable(h) /\ ~WaitOver(h)
    /\ pc' = [pc EXCEPT ![h] = "backoff"]
    /\ local' = [local EXCEPT ![h].snap = NoObject]
    /\ UNCHANGED <<now, obj, nextEtag, net, resp>>

\* The lease is ours; the caller gets the lease object whatever the time is.
AcquireOk(h) ==
    /\ pc[h] = "put" /\ resp[h].status = "ok"
    /\ pc' = [pc EXCEPT ![h] = "held"]
    /\ local' = [local EXCEPT ![h] = [@ EXCEPT
         !.doc = local[h].next, !.etag = resp[h].etag, !.next = Absent, !.waitUntil = 0]]
    /\ resp' = [resp EXCEPT ![h] = NoResponse]
    /\ UNCHANGED <<now, obj, nextEtag, net>>

\* 412: somebody else wrote first.  Try again unless the wait is over; the
\* sleep of the retry throws at once when the signal has fired.
AcquireConflict(h) ==
    /\ pc[h] = "put" /\ resp[h].status = "rejected"
    /\ IF WaitOver(h) \/ local[h].aborted
       THEN /\ pc' = [pc EXCEPT ![h] = "threw"]
            /\ local' = [local EXCEPT ![h] = OutOfScope(h)]
       ELSE /\ pc' = [pc EXCEPT ![h] = "backoff"]
            /\ local' = [local EXCEPT ![h].next = Absent]
    /\ resp' = [resp EXCEPT ![h] = NoResponse]
    /\ UNCHANGED <<now, obj, nextEtag, net>>

\* Any other error of putJson is rethrown; the write may still be applied.
AcquireError(h) ==
    /\ pc[h] = "put"
    /\ pc' = [pc EXCEPT ![h] = "threw"]
    /\ local' = [local EXCEPT ![h] = OutOfScope(h)]
    /\ resp' = [resp EXCEPT ![h] = NoResponse]
    /\ net' = Abandoned(h)
    /\ UNCHANGED <<now, obj, nextEtag>>

-----------------------------------------------------------------------------
(* The lease object: write(), ensureHeld(), updateState(), promote(),      *)
(* release() and the timers.  enqueue() serialises the writes of a holder. *)

\* write(state): check, then send the document with a fresh expiry.
NextDocumentMutant(h, s) ==
    [local[h].doc EXCEPT !.expiresAt = Date(h) + TTL, !.state = s]

NextDocument(h, s) ==
    [local[h].doc EXCEPT !.expiresAt = Cap(Date(h) + TTL, local[h].deadline),
                         !.state = s]

WriteSend(h, s) ==
    /\ pc[h] = "held" /\ ~CheckFails(h) /\ nextEtag < MaxWrites
    /\ pc' = [pc EXCEPT ![h] = "write"]
    /\ local' = [local EXCEPT ![h].next = NextDocument(h, s)]
    /\ net' = net \cup {Request(h, local[h].etag, NextDocument(h, s))}
    /\ UNCHANGED <<now, obj, nextEtag, resp>>

\* The renewal timer, ensureHeld() and the promotion timer rewrite the state.
Renew(h) == WriteSend(h, local[h].doc.state)

UpdateState(h) == \E s \in States : WriteSend(h, s)

\* check() of ensureHeld() or of a write that is due finds the lease expired
\* or past its deadline.
CheckRefused(h) ==
    /\ pc[h] \in {"held", "write"} /\ CheckFails(h) /\ ~local[h].aborted
    /\ local' = [local EXCEPT ![h].aborted = TRUE]
    /\ UNCHANGED <<now, obj, nextEtag, net, pc, resp>>

\* S3 accepted the write.  Both fields are assigned before the checks, and a
\* request that outlived the previous expiry does not revive the lease.
WriteOkMutant(h) ==
    /\ pc[h] = "write" /\ resp[h].status = "ok"
    /\ pc' = [pc EXCEPT ![h] = "held"]
    /\ local' = [local EXCEPT ![h] = [@ EXCEPT
         !.doc = local[h].next,
         !.etag = resp[h].etag,
         !.next = Absent,
         !.aborted = @ \/ DeadlineFails(h) \/ local[h].released
                          \/ Date(h) >= local[h].next.expiresAt]]
    /\ resp' = [resp EXCEPT ![h] = NoResponse]
    /\ UNCHANGED <<now, obj, nextEtag, net>>

WriteOk(h) ==
    /\ pc[h] = "write" /\ resp[h].status = "ok"
    /\ pc' = [pc EXCEPT ![h] = "held"]
    /\ local' = [local EXCEPT ![h] = [@ EXCEPT
         !.doc = local[h].next,
         !.etag = resp[h].etag,
         !.next = Absent,
         !.aborted = @ \/ Date(h) >= local[h].doc.expiresAt
                          \/ DeadlineFails(h) \/ local[h].released
                          \/ Date(h) >= local[h].next.expiresAt]]
    /\ resp' = [resp EXCEPT ![h] = NoResponse]
    /\ UNCHANGED <<now, obj, nextEtag, net>>

\* 412 or a lost answer: the lease object fails for good.
WriteFailedMutant(h) ==
    /\ pc[h] = "write" /\ resp[h].status # "ok"
    /\ pc' = [pc EXCEPT ![h] = "held"]
    /\ local' = [local EXCEPT ![h].next = Absent]
    /\ resp' = [resp EXCEPT ![h] = NoResponse]
    /\ net' = Abandoned(h)
    /\ UNCHANGED <<now, obj, nextEtag>>

WriteFailed(h) ==
    /\ pc[h] = "write" /\ resp[h].status # "ok"
    /\ pc' = [pc EXCEPT ![h] = "held"]
    /\ local' = [local EXCEPT ![h].next = Absent, ![h].aborted = TRUE]
    /\ resp' = [resp EXCEPT ![h] = NoResponse]
    /\ net' = Abandoned(h)
    /\ UNCHANGED <<now, obj, nextEtag>>

\* The expiry timer armed for document.expiresAt (a suspended process may run
\* it late or never).
ExpiryTimer(h) ==
    /\ pc[h] \in {"held", "write"} /\ ~local[h].aborted
    /\ Date(h) >= local[h].doc.expiresAt
    /\ local' = [local EXCEPT ![h].aborted = TRUE]
    /\ UNCHANGED <<now, obj, nextEtag, net, pc, resp>>

\* The caller's abortSignal, joined to the lease's own.
CallerAbort(h) ==
    /\ pc[h] \in {"idle", "read", "backoff", "put", "held", "write"}
    /\ ~local[h].aborted
    /\ local' = [local EXCEPT ![h].aborted = TRUE]
    /\ UNCHANGED <<now, obj, nextEtag, net, pc, resp>>

\* promote(): the launch deadline no longer bounds the lease.
Promote(h) ==
    /\ Valid(h) /\ local[h].deadline # Infinity
    /\ local' = [local EXCEPT ![h].deadline = Infinity]
    /\ UNCHANGED <<now, obj, nextEtag, net, pc, resp>>

\* release() marks the lease at once; its write waits for the queue.
ReleaseCall(h) ==
    /\ pc[h] \in {"held", "write"} /\ ~local[h].released
    /\ local' = [local EXCEPT ![h].released = TRUE, ![h].aborted = TRUE]
    /\ UNCHANGED <<now, obj, nextEtag, net, pc, resp>>

\* The tombstone keeps generation and state; a non-durable lease is deleted.
ReleasedDocument(h) ==
    IF h \in Durable THEN [local[h].doc EXCEPT !.expiresAt = 0] ELSE Absent

ReleaseSend(h) ==
    /\ pc[h] = "held" /\ local[h].released
    /\ pc' = [pc EXCEPT ![h] = "releasing"]
    /\ net' = net \cup {Request(h, local[h].etag, ReleasedDocument(h))}
    /\ UNCHANGED <<now, obj, nextEtag, local, resp>>

\* Answered or not, nothing of the lease object runs after release().
ReleaseDone(h) ==
    /\ pc[h] = "releasing"
    /\ pc' = [pc EXCEPT ![h] = "done"]
    /\ local' = [local EXCEPT ![h] = OutOfScope(h)]
    /\ resp' = [resp EXCEPT ![h] = NoResponse]
    /\ net' = Abandoned(h)
    /\ UNCHANGED <<now, obj, nextEtag>>

-----------------------------------------------------------------------------
(* The environment *)

\* IfMatch / IfNoneMatch of a conditional PutObject or DeleteObject.
Matches(r) == obj.etag = r.cond

\* S3 evaluates the condition of one write and applies or rejects it.
Serve(r) ==
    /\ r \in net
    /\ net' = net \ {r}
    /\ LET match == Matches(r)
           newEtag == IF r.doc.version = 0 THEN 0 ELSE nextEtag
       IN  /\ obj' = IF match THEN [etag |-> newEtag, doc |-> r.doc] ELSE obj
           /\ nextEtag' = IF match THEN nextEtag + 1 ELSE nextEtag
           /\ resp' = IF r.awaited
                      THEN [resp EXCEPT ![r.from] =
                              IF match THEN Accepted(newEtag) ELSE Rejected]
                      ELSE resp
    /\ UNCHANGED <<now, pc, local>>

\* The process of h dies; what it sent is still on its way.
Crash(h) ==
    /\ pc[h] \notin {"done", "threw", "crashed"}
    /\ pc' = [pc EXCEPT ![h] = "crashed"]
    /\ local' = [local EXCEPT ![h] = OutOfScope(h)]
    /\ resp' = [resp EXCEPT ![h] = NoResponse]
    /\ net' = Abandoned(h)
    /\ UNCHANGED <<now, obj, nextEtag>>

Tick ==
    /\ now < MaxTime
    /\ now' = now + 1
    /\ UNCHANGED <<obj, nextEtag, net, pc, local, resp>>

Acquisition(h) ==
    \/ Read(h) \/ ReadError(h) \/ DecideThrow(h) \/ DecidePut(h) \/ DecideBackoff(h)
    \/ AcquireOk(h) \/ AcquireConflict(h) \/ AcquireError(h)

LeaseObject(h) ==
    \/ Renew(h) \/ UpdateState(h) \/ CheckRefused(h) \/ WriteOk(h)
    \/ WriteFailed(h) \/ ExpiryTimer(h) \/ CallerAbort(h) \/ Promote(h)
    \/ ReleaseCall(h) \/ ReleaseSend(h) \/ ReleaseDone(h)

Next ==
    \/ \E h \in Holders : Acquisition(h) \/ LeaseObject(h) \/ Crash(h)
    \/ \E r \in net : Serve(r)
    \/ Tick

Spec == Init /\ [][Next]_vars

\* The steps a running process and a reachable S3 do take: timers fire, sent
\* requests are served, answers are consumed.  Nothing obliges a caller to
\* renew, publish, promote or release, and no failure ever has to happen.
Fairness ==
    /\ WF_vars(Tick)
    /\ \A h \in Holders :
         /\ WF_vars(pc[h] = "backoff" /\ Read(h))
         /\ WF_vars(DecideThrow(h) \/ DecidePut(h) \/ DecideBackoff(h))
         /\ WF_vars(AcquireOk(h) \/ AcquireConflict(h))
         /\ WF_vars(\E r \in net : r.from = h /\ Serve(r))

FairSpec == Spec /\ Fairness

-----------------------------------------------------------------------------
(* Properties *)

\* Two runtimes never both believe they own the lease (check() of lease.ts
\* passing on both), as long as their clocks agree.
MutualExclusion ==
    (\A h \in Holders : Skew[h] = 0) =>
        \A g, h \in Holders : Valid(g) /\ Valid(h) => g = h

\* What a holder between two writes reads from its lease object (`state`,
\* `generation`) is what S3 stores: the backend decides which VM to retire
\* and which checkpoint to extend from that copy.
HolderSeesAuthority ==
    (\A h \in Holders : Skew[h] = 0) =>
        \A h \in Holders : Valid(h) /\ pc[h] = "held" =>
            obj = [etag |-> local[h].etag, doc |-> local[h].doc]

\* Until the launch is promoted, the expiry stored in S3 never exceeds the
\* absolute launch deadline, whichever renewals are still in flight.
LaunchExpiryCapped ==
    \A h \in Holders :
        obj.doc.holder = h /\ local[h].deadline # Infinity
            => obj.doc.expiresAt <= local[h].deadline

\* A lease that has once failed its check never passes it again: a renewal
\* answered after the previous expiry does not resurrect authority.
ExpiredStaysExpired ==
    [][\A h \in Holders :
         pc[h] \in {"held", "write"} /\ CheckFails(h) => ~Valid(h)']_vars

\* Once the document carries fencing state (version 2), no older-format
\* holder, however late its writes or its delete arrive, replaces or removes it.
AuthorityNeverDowngraded ==
    [][obj.doc.version = 2 => obj'.doc.version = 2]_vars

\* For durable sessions the document is a fenced register.
Register == INSTANCE FencedRegister WITH
    Owners <- Holders, NoOwner <- Legacy, Values <- Payloads, NoValue <- NoState,
    generation <- obj.doc.generation, owner <- obj.doc.holder, value <- obj.doc.state

\* Every change of durable authority is a takeover with a new generation that
\* keeps the published state, or a publication by the owner of the current
\* generation; a release keeps both.
FencedAuthority == Register!Spec

\* Every attempt to acquire ends: with the lease or with an error.
AcquisitionEnds ==
    \A h \in Holders :
        pc[h] \in {"read", "backoff", "put"} ~>
            pc[h] \in {"held", "threw", "crashed"}
=============================================================================
