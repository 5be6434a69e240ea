--------------------------- MODULE MicrovmSession ---------------------------
(***************************************************************************)
(* Session handles of packages/eve-aws-lambda-microvms/src/backend.ts: how *)
(* a create() launches or adopts a MicroVM under the session lease, how    *)
(* capture, stop and delete end it, and how a launch that failed or came   *)
(* back late is cleaned up.                                                *)
(*                                                                         *)
(* The lease is used here as the fenced register SessionLease implements:  *)
(* whoever holds the current generation changes `auth` atomically, and a   *)
(* holder may find at any step that it holds the lease no longer.  The AWS *)
(* calls RunMicrovm and TerminateMicrovm are sent, carried out and         *)
(* answered in separate steps, and may be answered late or not at all.     *)
(*                                                                         *)
(* A launch identity is hash(manifestKey:generation), so it is modelled by *)
(* the generation; RunMicrovm is idempotent in it, so a MicroVM is named   *)
(* by the launch identity it was started with.                             *)
(***************************************************************************)
EXTENDS Naturals, FiniteSets

CONSTANTS
    Handles,      \* create() calls, and the handles they return
    Nobody,       \* no holder
    Worlds,       \* what create() calls ask for and what may fail: [config, faults]
    NoConfig,     \* no request recorded
    MaxGen,       \* bound: lease acquisitions
    MaxCaptures   \* bound: capture() calls that reach the upload

FaultKinds == {"crash",      \* the process of a handle dies
               "expire",     \* a live holder loses the lease
               "answer",     \* an accepted authority write is not answered
               "run",        \* RunMicrovm fails
               "mismatch",   \* it answers with another image or connector
               "boot",       \* readiness or restore fails
               "terminate",  \* TerminateMicrovm fails or its answer is lost
               "commit",     \* the controller does not confirm the checkpoint
               "delete",     \* deleting the checkpoint object fails
               "survive",    \* delete() cannot end the MicroVM of its handle
               "retire"}     \* AWS ends the MicroVM by itself

ASSUME SessionConstants ==
    /\ Nobody \notin Handles
    /\ \A w \in Worlds : NoConfig \notin {w.config[h] : h \in Handles} /\ w.faults \subseteq FaultKinds
    /\ MaxGen \in Nat /\ MaxCaptures \in Nat

VARIABLES
    world,     \* what this behaviour explores; never changes
    auth,      \* SessionAuthority and fencing generation in lease.json
    vms,       \* the MicroVM of each launch identity
    runs,      \* RunMicrovm requests sent
    kills,     \* TerminateMicrovm requests not carried out yet
    objects,   \* checkpoint objects in S3
    origin,    \* history: the checkpoint each upload was made on top of
    uploads,   \* number of uploads; names checkpoints and manifest etags
    pc,        \* where each handle is
    lease,     \* its lease object: 0 undefined, a generation, or broken
    loc        \* its other variables

vars == <<world, auth, vms, runs, kills, objects, origin, uploads, pc, lease, loc>>

Gens == 1..MaxGen

\* The image and runtime options a create() asks for, and what may fail.
Config(h) == world.config[h]
Faults == world.faults

Checkpoints == 1..MaxCaptures

\* A lease object whose write was not answered: its etag is stale for ever.
Broken == MaxGen + 1

\* Session metadata: the checkpoint (0: none yet) and its manifestEtag.
Metadata == [checkpoint : 0..MaxCaptures, etag : 0..MaxCaptures]
NoMetadata == [checkpoint |-> 0, etag |-> 0]

\* SessionAuthority.launch: id 0 is undefined; activation 0 means that no
\* request was recorded; recorded says that microvmId is set.
Configs == {w.config[h] : w \in Worlds, h \in Handles} \cup {NoConfig}
Launches == [id : 0..MaxGen, activation : 0..MaxGen, config : Configs, recorded : BOOLEAN]
NoLaunch == [id |-> 0, activation |-> 0, config |-> NoConfig, recorded |-> FALSE]

Authority ==
    [gen : 0..MaxGen, holder : Handles \cup {Nobody}, metadata : Metadata, launch : Launches]

Vms == [status : {"none", "running", "gone"}, content : 0..MaxCaptures, dirty : BOOLEAN]

Runs == [by : Handles, token : Gens, activation : Gens, config : Configs]
Kills == [by : Handles, vm : Gens]

PCs == {"idle",                                                  \* before create
        "leased", "retiring", "identify", "request", "dispatch", \* create
        "running", "launched", "booting", "handoff", "abandon", "undo",
        "mismatched", "mismatch", "rejected",
        "ready",                                                 \* handle returned
        "publish", "commit", "terminating",                      \* capture
        "deleting", "unpublish", "erase",                        \* delete
        "late", "cleanup", "intent", "cleaning", "forget",       \* late results
        "over"}

Locals ==
    [launch : 0..MaxGen, activation : 0..MaxGen, vm : 0..MaxGen, metadata : Metadata, pending : Metadata,
     paused : BOOLEAN, captured : BOOLEAN, shutDown : BOOLEAN]

TypeOK ==
    /\ world \in Worlds
    /\ auth \in Authority
    /\ vms \in [Gens -> Vms]
    /\ runs \subseteq Runs
    /\ kills \subseteq Kills
    /\ objects \subseteq Checkpoints
    /\ origin \in [Checkpoints -> 0..MaxCaptures]
    /\ uploads \in 0..MaxCaptures
    /\ pc \in [Handles -> PCs]
    /\ lease \in [Handles -> 0..Broken]
    /\ loc \in [Handles -> Locals]

Init ==
    /\ world \in Worlds
    /\ auth = [gen |-> 0, holder |-> Nobody, metadata |-> NoMetadata, launch |-> NoLaunch]
    /\ vms = [g \in Gens |-> [status |-> "none", content |-> 0, dirty |-> FALSE]]
    /\ runs = {} /\ kills = {} /\ objects = {}
    /\ origin = [c \in Checkpoints |-> 0]
    /\ uploads = 0
    /\ pc = [h \in Handles |-> "idle"]
    /\ lease = [h \in Handles |-> 0]
    /\ loc = [h \in Handles |->
               [launch |-> 0, activation |-> 0, vm |-> 0,
                metadata |-> NoMetadata, pending |-> NoMetadata,
                paused |-> FALSE, captured |-> FALSE, shutDown |-> FALSE]]

-----------------------------------------------------------------------------
(* The lease, as its users see it *)

Held(h) == auth.holder = h /\ lease[h] = auth.gen

\* acquireAwsLambdaMicrovmLease: the lease is released or expired.
Free == auth.holder = Nobody /\ auth.gen < MaxGen

Taken(h) == [auth EXCEPT !.gen = @ + 1, !.holder = h]

\* release() succeeds unless a successor's write came first.
Releasable(h) == lease[h] = auth.gen
Released(h) == IF Held(h) THEN [auth EXCEPT !.holder = Nobody] ELSE auth

\* updateState(metadata, launch) by its holder: applied and answered, or applied
\* and never answered, which leaves the lease object unusable.
UpdateState(h, metadata, launch, next) ==
    /\ Held(h)
    /\ \/ /\ auth' = [auth EXCEPT !.metadata = metadata, !.launch = launch]
          /\ pc' = [pc EXCEPT ![h] = next]
          /\ UNCHANGED <<world, lease>>
       \/ /\ "answer" \in Faults
          /\ auth' = [auth EXCEPT !.metadata = metadata, !.launch = launch, !.holder = Nobody]
          /\ lease' = [lease EXCEPT ![h] = Broken]
          /\ UNCHANGED <<world, pc>>

\* TerminateMicrovm is sent.
Kill(h, g) == kills' = kills \cup {[by |-> h, vm |-> g]}

\* TerminateMicrovm answered that the MicroVM is gone, or 404.
Confirmed(h, g) == [by |-> h, vm |-> g] \notin kills /\ vms[g].status = "gone"

-----------------------------------------------------------------------------
(* create(): lines 266-334 and 336-459 *)

\* The lease is acquired; the metadata read is what the authority stores.
Acquire(h) ==
    /\ pc[h] = "idle" /\ Free
    /\ auth' = Taken(h)
    /\ lease' = [lease EXCEPT ![h] = auth.gen + 1]
    /\ loc' = [loc EXCEPT ![h].metadata = auth.metadata]
    /\ pc' = [pc EXCEPT ![h] = "leased"]
    /\ UNCHANGED <<world, vms, runs, kills, objects, origin, uploads>>

\* A MicroVM the previous owner knew of is retired first.
RetirePreviousMutant(h) ==
    /\ pc[h] = "leased" /\ Held(h)
    /\ Kill(h, auth.launch.id) /\ pc' = [pc EXCEPT ![h] = "retiring"]
    /\ loc' = [loc EXCEPT ![h].launch = auth.launch.id]
    /\ UNCHANGED <<world, auth, vms, runs, objects, origin, uploads, lease>>

RetirePrevious(h) ==
    /\ pc[h] = "leased" /\ Held(h)
    /\ IF auth.launch.recorded
       THEN Kill(h, auth.launch.id) /\ pc' = [pc EXCEPT ![h] = "retiring"]
       ELSE UNCHANGED kills /\ pc' = [pc EXCEPT ![h] = "identify"]
    /\ loc' = [loc EXCEPT ![h].launch = auth.launch.id]
    /\ UNCHANGED <<world, auth, vms, runs, objects, origin, uploads, lease>>

PreviousRetiredMutant(h) ==
    /\ pc[h] = "retiring"
    /\ pc' = [pc EXCEPT ![h] = "identify"]
    /\ UNCHANGED <<world, auth, vms, runs, kills, objects, origin, uploads, lease, loc>>

PreviousRetired(h) ==
    /\ pc[h] = "retiring" /\ Confirmed(h, loc[h].launch)
    /\ pc' = [pc EXCEPT ![h] = "identify"]
    /\ UNCHANGED <<world, auth, vms, runs, kills, objects, origin, uploads, lease, loc>>

\* The launch identity: an unconfirmed one is kept, a retired one is replaced.
LaunchOf(h) ==
    IF auth.launch.id # 0 /\ ~auth.launch.recorded THEN auth.launch
    ELSE [NoLaunch EXCEPT !.id = lease[h]]

Identify(h) ==
    /\ pc[h] = "identify"
    /\ loc' = [loc EXCEPT ![h].launch = LaunchOf(h).id]
    /\ UpdateState(h, auth.metadata, LaunchOf(h), "request")
    /\ UNCHANGED <<world, vms, runs, kills, objects, origin, uploads>>

\* The request and activation to send: the recorded ones if there are any.
RequestOfMutant(h) == [auth.launch EXCEPT !.activation = lease[h], !.config = Config(h)]

RequestOf(h) ==
    IF auth.launch.activation # 0 THEN auth.launch
    ELSE [auth.launch EXCEPT !.activation = lease[h], !.config = Config(h)]

\* Persist the exact request before it is sent.  A pending launch of another
\* configuration is refused.
PersistRequest(h) ==
    /\ pc[h] = "request" /\ RequestOf(h).config = Config(h)
    /\ loc' = [loc EXCEPT ![h].activation = RequestOf(h).activation]
    /\ UpdateState(h, auth.metadata, RequestOf(h), "dispatch")
    /\ UNCHANGED <<world, vms, runs, kills, objects, origin, uploads>>

\* RunMicrovm leaves without another look at the lease.
Dispatch(h) ==
    /\ pc[h] = "dispatch"
    /\ runs' = runs \cup {[by |-> h, token |-> loc[h].launch,
                          activation |-> loc[h].activation, config |-> Config(h)]}
    /\ pc' = [pc EXCEPT ![h] = "running"]
    /\ UNCHANGED <<world, auth, vms, kills, objects, origin, uploads, lease, loc>>

\* RunMicrovm answered in time: ensureHeld() passes.
Launched(h) ==
    /\ pc[h] = "running" /\ Held(h) /\ vms[loc[h].launch].status # "none"
    /\ loc' = [loc EXCEPT ![h].vm = loc[h].launch]
    /\ pc' = [pc EXCEPT ![h] = "launched"]
    /\ UNCHANGED <<world, auth, vms, runs, kills, objects, origin, uploads, lease>>

\* The answer names another image or connector: record the MicroVM, end it.
Mismatched(h) ==
    /\ pc[h] = "running" /\ Held(h) /\ vms[loc[h].launch].status # "none"
    /\ "mismatch" \in Faults
    /\ pc' = [pc EXCEPT ![h] = "mismatched"]
    /\ UNCHANGED <<world, auth, vms, runs, kills, objects, origin, uploads, lease, loc>>

Mismatch(h) ==
    /\ pc[h] = "mismatched"
    /\ UpdateState(h, auth.metadata, [auth.launch EXCEPT !.recorded = TRUE], "mismatch")
    /\ UNCHANGED <<world, vms, runs, kills, objects, origin, uploads, loc>>

MismatchKill(h) ==
    /\ pc[h] = "mismatch"
    /\ Kill(h, loc[h].launch)
    /\ pc' = [pc EXCEPT ![h] = "rejected"]
    /\ UNCHANGED <<world, auth, vms, runs, objects, origin, uploads, lease, loc>>

\* The MicroVM becomes known to the authority.
Record(h) ==
    /\ pc[h] = "launched"
    /\ UpdateState(h, auth.metadata, [auth.launch EXCEPT !.recorded = TRUE], "booting")
    /\ UNCHANGED <<world, vms, runs, kills, objects, origin, uploads, loc>>

\* Controller readiness and restore of the session's checkpoint.
BootMutant(h) ==
    /\ pc[h] = "booting" /\ Held(h) /\ vms[loc[h].vm].status = "running"
    /\ pc' = [pc EXCEPT ![h] = "handoff"]
    /\ UNCHANGED <<world, auth, vms, runs, kills, objects, origin, uploads, lease, loc>>

Boot(h) ==
    /\ pc[h] = "booting" /\ Held(h) /\ vms[loc[h].vm].status = "running"
    /\ loc[h].metadata.checkpoint \in objects \cup {0}
    /\ vms' = [vms EXCEPT ![loc[h].vm].content = loc[h].metadata.checkpoint,
                          ![loc[h].vm].dirty = FALSE]
    /\ pc' = [pc EXCEPT ![h] = "handoff"]
    /\ UNCHANGED <<world, auth, runs, kills, objects, origin, uploads, lease, loc>>

\* The last ensureHeld() and promote(): the caller has its handle.
Handoff(h) ==
    /\ pc[h] = "handoff" /\ Held(h)
    /\ pc' = [pc EXCEPT ![h] = "ready"]
    /\ UNCHANGED <<world, auth, vms, runs, kills, objects, origin, uploads, lease, loc>>

\* Readiness or restore fails: retire the MicroVM while still the owner.
BootFails(h) ==
    /\ pc[h] = "booting" /\ Held(h)
    /\ \/ "boot" \in Faults
       \/ vms[loc[h].vm].status = "gone"
       \/ loc[h].metadata.checkpoint \notin objects \cup {0}
    /\ Kill(h, loc[h].vm)
    /\ pc' = [pc EXCEPT ![h] = "abandon"]
    /\ UNCHANGED <<world, auth, vms, runs, objects, origin, uploads, lease, loc>>

Abandoned(h) ==
    /\ pc[h] = "abandon" /\ Confirmed(h, loc[h].vm)
    /\ pc' = [pc EXCEPT ![h] = "undo"]
    /\ UNCHANGED <<world, auth, vms, runs, kills, objects, origin, uploads, lease, loc>>

\* ... and forget the launch.
Undo(h) ==
    /\ pc[h] = "undo"
    /\ UpdateState(h, auth.metadata, NoLaunch, "rejected")
    /\ UNCHANGED <<world, vms, runs, kills, objects, origin, uploads, loc>>

Creating == {"leased", "retiring", "identify", "request", "dispatch", "running",
             "launched", "booting", "handoff", "abandon", "undo",
             "mismatched", "mismatch", "rejected"}

\* Without bounded(): create() notices the end of its lease only when the call
\* to AWS that it waits for has been answered.
CreateRejectedMutant(h) ==
    \/ /\ ~Held(h)
       /\ pc[h] = "running" => vms[loc[h].launch].status # "none"
       /\ pc[h] = "retiring" => Confirmed(h, loc[h].launch)
       /\ pc[h] = "abandon" => Confirmed(h, loc[h].vm)
    \/ pc[h] = "rejected"
    \/ pc[h] = "request" /\ RequestOf(h).config # Config(h)
    \/ pc[h] = "running" /\ "run" \in Faults
    \/ pc[h] \in {"retiring", "abandon"} /\ "terminate" \in Faults

\* What makes create() reject: the lease is gone (deadline, cancellation,
\* expiry), whatever call is unanswered, because bounded() rejects with the
\* signal; the pending launch has another configuration; RunMicrovm failed; or
\* the retirement of a MicroVM failed.
CreateRejected(h) ==
    \/ ~Held(h)
    \/ pc[h] = "rejected"
    \/ pc[h] = "request" /\ RequestOf(h).config # Config(h)
    \/ pc[h] = "running" /\ "run" \in Faults
    \/ pc[h] \in {"retiring", "abandon"} /\ "terminate" \in Faults

\* create() rejects and releases the lease in the background.  A MicroVM that
\* was launched, or a RunMicrovm still unanswered, is cleaned up later.
CreateFails(h) ==
    /\ pc[h] \in Creating /\ CreateRejected(h)
    /\ auth' = Released(h)
    /\ lease' = [lease EXCEPT ![h] = 0]
    /\ pc' = [pc EXCEPT ![h] =
                IF loc[h].vm # 0 \/ (pc[h] = "running" /\ ~Held(h)) THEN "late" ELSE "over"]
    /\ UNCHANGED <<world, vms, runs, kills, objects, origin, uploads, loc>>

-----------------------------------------------------------------------------
(* retireLateLaunch(): lines 692-719 *)

\* The late result is there and the lease is free: take it for the clean-up.
CleanAcquire(h) ==
    /\ pc[h] = "late" /\ vms[loc[h].launch].status # "none"
    /\ IF Free
       THEN /\ auth' = Taken(h)
            /\ lease' = [lease EXCEPT ![h] = auth.gen + 1]
            /\ pc' = [pc EXCEPT ![h] = "cleanup"]
       ELSE /\ pc' = [pc EXCEPT ![h] = "over"]
            /\ UNCHANGED <<world, auth, lease>>
    /\ UNCHANGED <<world, vms, runs, kills, objects, origin, uploads, loc>>

\* A successor's launch is left alone; an unconfirmed or own one is claimed.
StillOurs(h) == auth.launch.id = loc[h].launch

\* Publish the retirement intent before dispatching the termination.
PublishIntentMutant(h) ==
    /\ pc[h] = "cleanup" /\ Held(h) /\ StillOurs(h)
    /\ pc' = [pc EXCEPT ![h] = "intent"]
    /\ UNCHANGED <<world, auth, vms, runs, kills, objects, origin, uploads, lease, loc>>

PublishIntent(h) ==
    /\ pc[h] = "cleanup" /\ StillOurs(h)
    /\ UpdateState(h, auth.metadata, [auth.launch EXCEPT !.recorded = TRUE], "intent")
    /\ UNCHANGED <<world, vms, runs, kills, objects, origin, uploads, loc>>

CleanKill(h) ==
    /\ pc[h] = "intent"
    /\ Kill(h, loc[h].launch)
    /\ pc' = [pc EXCEPT ![h] = "cleaning"]
    /\ UNCHANGED <<world, auth, vms, runs, objects, origin, uploads, lease, loc>>

CleanConfirmed(h) ==
    /\ pc[h] = "cleaning" /\ Confirmed(h, loc[h].launch)
    /\ pc' = [pc EXCEPT ![h] = "forget"]
    /\ UNCHANGED <<world, auth, vms, runs, kills, objects, origin, uploads, lease, loc>>

\* The launch is forgotten and the lease released.
Forget(h) ==
    /\ pc[h] = "forget" /\ Held(h)
    /\ auth' = [auth EXCEPT !.launch = NoLaunch, !.holder = Nobody]
    /\ lease' = [lease EXCEPT ![h] = 0]
    /\ pc' = [pc EXCEPT ![h] = "over"]
    /\ UNCHANGED <<world, vms, runs, kills, objects, origin, uploads, loc>>

\* Superseded, or the lease or the termination failed: give up and release.
CleanGivesUp(h) ==
    /\ pc[h] \in {"cleanup", "intent", "cleaning", "forget"}
    /\ \/ ~Held(h) /\ pc[h] # "intent"
       \/ pc[h] = "cleanup" /\ ~StillOurs(h)
       \/ pc[h] = "cleaning" /\ "terminate" \in Faults
    /\ auth' = Released(h)
    /\ lease' = [lease EXCEPT ![h] = 0]
    /\ pc' = [pc EXCEPT ![h] = "over"]
    /\ UNCHANGED <<world, vms, runs, kills, objects, origin, uploads, loc>>

-----------------------------------------------------------------------------
(* The handle: lines 461-633.  Its calls are made one after the other. *)

\* ensureLease() of any call acquires when the last call gave the lease up.
EnsureLease(h) ==
    /\ pc[h] = "ready" /\ lease[h] = 0 /\ Free
    /\ auth' = Taken(h)
    /\ lease' = [lease EXCEPT ![h] = auth.gen + 1]
    /\ UNCHANGED <<world, vms, runs, kills, objects, origin, uploads, pc, loc>>

\* ensureActive() passes: the session may be used.
Active(h) == pc[h] = "ready" /\ Held(h) /\ ~loc[h].paused

\* A session operation that changes files or runs a command.
Mutate(h) ==
    /\ Active(h)
    /\ loc' = [loc EXCEPT ![h].captured = FALSE]
    /\ vms' = [vms EXCEPT ![loc[h].vm].dirty = @ \/ vms[loc[h].vm].status = "running"]
    /\ UNCHANGED <<world, auth, runs, kills, objects, origin, uploads, pc, lease>>

\* capture(): the overlay is uploaded under a fresh name if it is dirty;
\* otherwise the previous checkpoint is published again.
Upload(h) ==
    /\ Active(h) /\ ~loc[h].shutDown /\ vms[loc[h].vm].status = "running"
    /\ uploads < MaxCaptures
    /\ uploads' = uploads + 1
    /\ IF vms[loc[h].vm].dirty
       THEN /\ objects' = objects \cup {uploads'}
            /\ origin' = [origin EXCEPT ![uploads'] = vms[loc[h].vm].content]
            /\ loc' = [loc EXCEPT ![h].pending = [checkpoint |-> uploads', etag |-> uploads']]
       ELSE /\ loc' = [loc EXCEPT ![h].pending =
                         [checkpoint |-> loc[h].metadata.checkpoint, etag |-> uploads']]
            /\ UNCHANGED <<world, objects, origin>>
    /\ pc' = [pc EXCEPT ![h] = "publish"]
    /\ UNCHANGED <<world, auth, vms, runs, kills, lease>>

\* The checkpoint becomes the session's in one authority write, which also
\* ends the launch identity.
Publish(h) ==
    /\ pc[h] = "publish"
    /\ UpdateState(h, loc[h].pending, NoLaunch, "commit")
    /\ loc' = IF pc'[h] = "commit"
              THEN [loc EXCEPT ![h].metadata = loc[h].pending] ELSE loc
    /\ vms' = [vms EXCEPT ![loc[h].vm].content = loc[h].pending.checkpoint]
    /\ UNCHANGED <<world, runs, kills, objects, origin, uploads>>

PublishFails(h) ==
    /\ pc[h] = "publish" /\ ~Held(h)
    /\ pc' = [pc EXCEPT ![h] = "ready"]
    /\ UNCHANGED <<world, auth, vms, runs, kills, objects, origin, uploads, lease, loc>>

\* The controller confirms the checkpoint; heartbeats stop, the binding is
\* revoked and the MicroVM's termination is sent (also when revoking failed).
Commit(h) ==
    /\ pc[h] = "commit"
    /\ vms[loc[h].vm].status = "running" \/ loc[h].pending.checkpoint # loc[h].pending.etag
    /\ loc' = [loc EXCEPT ![h].paused = TRUE]
    /\ vms' = [vms EXCEPT ![loc[h].vm].dirty = FALSE]
    /\ Kill(h, loc[h].vm)
    /\ pc' = [pc EXCEPT ![h] = "terminating"]
    /\ UNCHANGED <<world, auth, runs, objects, origin, uploads, lease>>

\* A confirmation is asked only for a dirty overlay.
CommitFails(h) ==
    /\ pc[h] = "commit" /\ loc[h].pending.checkpoint = loc[h].pending.etag
    /\ "commit" \in Faults \/ vms[loc[h].vm].status # "running"
    /\ pc' = [pc EXCEPT ![h] = "ready"]
    /\ UNCHANGED <<world, auth, vms, runs, kills, objects, origin, uploads, lease, loc>>

\* The MicroVM is gone; the lease is given up unless a successor has it.
LetGo(h) ==
    /\ auth' = Released(h)
    /\ lease' = [lease EXCEPT ![h] = IF Releasable(h) THEN 0 ELSE @]

Captured(h) ==
    /\ pc[h] = "terminating" /\ Confirmed(h, loc[h].vm)
    /\ loc' = [loc EXCEPT ![h].captured = TRUE]
    /\ LetGo(h)
    /\ pc' = [pc EXCEPT ![h] = "ready"]
    /\ UNCHANGED <<world, vms, runs, kills, objects, origin, uploads>>

TerminateFails(h) ==
    /\ pc[h] = "terminating" /\ "terminate" \in Faults
    /\ pc' = [pc EXCEPT ![h] = "ready"]
    /\ UNCHANGED <<world, auth, vms, runs, kills, objects, origin, uploads, lease, loc>>

\* stop() and shutdown() after a capture (otherwise they capture first).
Stop(h) ==
    /\ pc[h] = "ready" /\ ~loc[h].shutDown /\ loc[h].captured
    /\ loc' = [loc EXCEPT ![h].shutDown = TRUE]
    /\ UNCHANGED <<world, auth, vms, runs, kills, objects, origin, uploads, pc, lease>>

\* delete(): end the MicroVM unless a capture already took care of it.
Delete(h) ==
    /\ pc[h] = "ready" /\ Held(h)
    /\ ~(loc[h].shutDown /\ loc[h].metadata = NoMetadata)
    /\ IF loc[h].paused
       THEN UNCHANGED kills /\ pc' = [pc EXCEPT ![h] = "unpublish"]
       ELSE Kill(h, loc[h].vm) /\ pc' = [pc EXCEPT ![h] = "deleting"]
    /\ UNCHANGED <<world, auth, vms, runs, objects, origin, uploads, lease, loc>>

DeleteConfirmed(h) ==
    /\ pc[h] = "deleting" /\ Confirmed(h, loc[h].vm)
    /\ loc' = [loc EXCEPT ![h].paused = TRUE]
    /\ pc' = [pc EXCEPT ![h] = "unpublish"]
    /\ UNCHANGED <<world, auth, vms, runs, kills, objects, origin, uploads, lease>>

\* The session is still the one this handle knows.
SameManifest(h) == auth.metadata.etag = loc[h].metadata.etag

UnpublishMutant(h) ==
    /\ pc[h] = "unpublish" /\ Held(h) /\ SameManifest(h)
    /\ pc' = [pc EXCEPT ![h] = "erase"]
    /\ UNCHANGED <<world, auth, vms, runs, kills, objects, origin, uploads, lease, loc>>

Unpublish(h) ==
    /\ pc[h] = "unpublish" /\ SameManifest(h)
    /\ UpdateState(h, NoMetadata, NoLaunch, "erase")
    /\ UNCHANGED <<world, vms, runs, kills, objects, origin, uploads, loc>>

\* The checkpoint object is deleted and the lease released.
Erase(h) ==
    /\ pc[h] = "erase"
    /\ objects' = objects \ {loc[h].metadata.checkpoint}
    /\ loc' = [loc EXCEPT ![h].metadata = NoMetadata, ![h].captured = FALSE,
                          ![h].shutDown = TRUE]
    /\ LetGo(h)
    /\ pc' = [pc EXCEPT ![h] = "ready"]
    /\ UNCHANGED <<world, vms, runs, kills, origin, uploads>>

\* Any error of delete() still releases the lease and clears the variable.
DeleteFails(h) ==
    /\ \/ pc[h] = "deleting" /\ "survive" \in Faults
       \/ pc[h] = "unpublish" /\ (~Held(h) \/ ~SameManifest(h))
       \/ pc[h] = "erase" /\ "delete" \in Faults
    /\ LetGo(h)
    /\ pc' = [pc EXCEPT ![h] = "ready"]
    /\ UNCHANGED <<world, vms, runs, kills, objects, origin, uploads, loc>>

-----------------------------------------------------------------------------
(* The environment *)

\* AWS starts the MicroVM of a client token once.
ServeRun(r) ==
    /\ vms[r.token].status = "none"
    /\ vms' = [vms EXCEPT ![r.token].status = "running"]
    /\ UNCHANGED <<world, auth, runs, kills, objects, origin, uploads, pc, lease, loc>>

ServeKill(k) ==
    /\ vms' = [vms EXCEPT ![k.vm].status = "gone"]
    /\ kills' = kills \ {k}
    /\ UNCHANGED <<world, auth, runs, objects, origin, uploads, pc, lease, loc>>

\* AWS ends a MicroVM at its maximum duration or after a failure.
VmRetired(g) ==
    /\ "retire" \in Faults /\ vms[g].status = "running"
    /\ vms' = [vms EXCEPT ![g].status = "gone"]
    /\ UNCHANGED <<world, auth, runs, kills, objects, origin, uploads, pc, lease, loc>>

\* A lease with a deadline, beyond which it is never renewed: that of create()
\* until its promote(), and that of a clean-up.
Deadlined(h) == pc[h] \in Creating \cup {"cleanup", "intent", "cleaning", "forget"}

\* The lease of h runs out: its deadline has passed, h is dead, or it is
\* suspended, partitioned or cancelled.
Expire(h) ==
    /\ auth.holder = h
    /\ Deadlined(h) \/ pc[h] = "over" \/ "expire" \in Faults
    /\ auth' = [auth EXCEPT !.holder = Nobody]
    /\ UNCHANGED <<world, vms, runs, kills, objects, origin, uploads, pc, lease, loc>>

Crash(h) ==
    /\ "crash" \in Faults /\ pc[h] \notin {"idle", "over"}
    /\ pc' = [pc EXCEPT ![h] = "over"]
    /\ UNCHANGED <<world, auth, vms, runs, kills, objects, origin, uploads, lease, loc>>

Create(h) ==
    \/ Acquire(h) \/ RetirePrevious(h) \/ PreviousRetired(h) \/ Identify(h)
    \/ PersistRequest(h) \/ Dispatch(h) \/ Launched(h) \/ Mismatched(h)
    \/ Mismatch(h) \/ MismatchKill(h) \/ Record(h) \/ Boot(h) \/ Handoff(h) \/ BootFails(h) \/ Abandoned(h) \/ Undo(h)
    \/ CreateFails(h)

CleanUp(h) ==
    \/ CleanAcquire(h) \/ PublishIntent(h) \/ CleanKill(h) \/ CleanConfirmed(h)
    \/ Forget(h) \/ CleanGivesUp(h)

\* The rest of a capture or delete that has started.
Finish(h) ==
    \/ Publish(h) \/ PublishFails(h) \/ Commit(h) \/ CommitFails(h) \/ Captured(h)
    \/ TerminateFails(h) \/ DeleteConfirmed(h) \/ Unpublish(h) \/ Erase(h)
    \/ DeleteFails(h)

Handle(h) ==
    EnsureLease(h) \/ Mutate(h) \/ Upload(h) \/ Finish(h) \/ Stop(h) \/ Delete(h)

Next ==
    \/ \E h \in Handles : Create(h) \/ CleanUp(h) \/ Handle(h) \/ Expire(h) \/ Crash(h)
    \/ \E r \in runs : ServeRun(r)
    \/ \E k \in kills : ServeKill(k)
    \/ \E g \in Gens : VmRetired(g)

Spec == Init /\ [][Next]_vars

\* Deadlines pass, the lease of a dead process runs out, bounded() rejects when
\* the lease has ended, and a capture or delete goes on once it is answered.
\* Neither AWS nor S3 nor the controller ever has to answer create(), nothing
\* obliges a caller to make a call, and no failure ever has to happen.
Fairness ==
    \A h \in Handles :
      /\ WF_vars((Deadlined(h) \/ pc[h] = "over") /\ Expire(h))
      /\ WF_vars(~Held(h) /\ CreateFails(h))
      /\ WF_vars(Finish(h))

FairSpec == Spec /\ Fairness

-----------------------------------------------------------------------------
(* Properties *)

\* RunMicrovm is idempotent only for an identical request: whatever attempt
\* sends a client token, it sends the same activation and configuration.
SameTokenSameRequest ==
    \A r, s \in runs :
        r.token = s.token => r.activation = s.activation /\ r.config = s.config

\* h owns the session and works on the MicroVM of launch g.
Uses(h, g) ==
    /\ Held(h)
    /\ \/ pc[h] \in {"running", "launched", "booting", "handoff"} /\ loc[h].launch = g
       \/ pc[h] \in {"ready", "publish"} /\ ~loc[h].paused /\ loc[h].vm = g

\* A termination ordered by somebody else, however late it is carried out,
\* never hits a MicroVM that the session's owner is using (and has not itself
\* ordered to end).
AdoptedNeverKilled ==
    \A k \in kills, h \in Handles :
        Uses(h, k.vm) /\ vms[k.vm].status = "running" => [by |-> h, vm |-> k.vm] \in kills

\* The session's checkpoint is in S3.
CheckpointPresent == auth.metadata.checkpoint \in objects \cup {0}

\* Nothing saved is lost: a checkpoint is only ever replaced by one made on top
\* of it (or by nothing, when the session is deleted).
LinearHistory ==
    [][auth'.metadata.checkpoint \in Checkpoints =>
         \/ auth'.metadata.checkpoint = auth.metadata.checkpoint
         \/ origin[auth'.metadata.checkpoint] = auth.metadata.checkpoint]_vars

\* The authority forgets a launch whose MicroVM may be running only when the
\* handle that uses that MicroVM publishes its checkpoint, or on delete.
OnlyOwnersForget ==
    [][auth.launch.id # 0 /\ vms[auth.launch.id].status = "running"
         /\ auth'.launch.id # auth.launch.id
         => \E h \in Handles :
              \/ pc[h] = "publish" /\ loc[h].vm = auth.launch.id
              \/ pc[h] = "unpublish"]_vars

\* Every create() that got the lease ends, at its deadline at the latest, even
\* when no call it makes is ever answered: with a handle, or with an error whose
\* late result, if any, is left to the clean-up (bounded() in launch.ts).
LaunchSettles ==
    \A h \in Handles : pc[h] \in Creating ~> pc[h] \in {"ready", "late", "over"}

\* A handle whose session has been captured and stopped does not keep the lease
\* from the handle that is opened next.
StoppedHandleLetsGo ==
    \A h \in Handles :
        pc[h] = "ready" /\ loc[h].captured /\ loc[h].shutDown ~> auth.holder # h
=============================================================================
