-------------------------- MODULE MicrovmController --------------------------
(***************************************************************************)
(* One MicroVM of packages/eve-aws-lambda-microvms seen from inside: the   *)
(* controller that runs in it (controller.py), the client that talks to it *)
(* over HTTP (controller-client.ts) and the session operations that use    *)
(* the client, the capture of a checkpoint above all (checkpoint.ts and    *)
(* backend.ts; MicrovmSession models who owns the VM meanwhile).           *)
(*                                                                         *)
(* The operations of a session handle are called one at a time; the        *)
(* processes they started run on meanwhile.  A request may be lost, its    *)
(* answer may be lost, and one that the client no longer waits for may     *)
(* still be carried out (Lingering).                                       *)
(*                                                                         *)
(* The writable overlay is the set of changes made to the image: one for   *)
(* each file operation, two, in their order, for each process.  Paths,     *)
(* bytes, checksums and reading are left out.                              *)
(***************************************************************************)
EXTENDS Naturals, FiniteSets

CONSTANTS
    Writes, Removals, Processes,  \* what the session does, each once
    Old,          \* the change that an earlier session left in its checkpoint
    Nothing,      \* neither an archive nor an argument
    Lingering,    \* requests that may be carried out after the client gave up
    Chunks,       \* chunks of a written file
    MaxTries,     \* TRANSIENT_ATTEMPTS
    MaxCaptures,  \* bound: captures that are begun
    MaxFaults     \* bound: failures of the network, of storage, of the workload

VARIABLES
    \* the controller
    activated,   \* the run hook has been called for this VM
    dirty, frozen,
    overlay,     \* the changes in UPPER
    processes,   \* state of each process by its requestId
    writes,      \* chunks received of each open write
    archives,    \* what each checkpoint archive holds
    \* the network
    wire,        \* requests on their way, being handled, or answered
    \* the session
    call,        \* the operation in progress and the request it waits for
    taken,       \* operations that were begun
    captures,    \* captures that were begun
    waits,       \* wait() of each process
    heartbeats,  \* #heartbeatsEnabled
    published,   \* what the checkpoint of the session authority holds
    life,        \* of the handle
    \* history and bounds
    acked,       \* changes the caller was told of
    starts,      \* how often each process was started
    stranded,    \* kinds of request about the workload that the client gave up on, or
                 \* (upload) never came to, so that nobody releases the workload
    faults

vars == <<activated, dirty, frozen, overlay, processes, writes, archives, wire, call, taken,
          captures, waits, heartbeats, published, life, acked, starts, stranded, faults>>

Stages == {1, 2}
Changes == {Old} \cup Writes \cup Removals \cup (Processes \X Stages)
Kinds == {"health", "restore", "begin", "chunk", "commit_write", "abort", "remove", "spawn",
          "kill", "prepare", "upload", "commit", "release"}
\* Steps of a capture that talk to storage and to the service instead.
Local == {"publish", "terminate"}
Args == Writes \cup Removals \cup Processes \cup 1..MaxCaptures \cup {Nothing}

ASSUME ControllerConstants ==
    /\ Chunks \in Nat \ {0} /\ MaxTries \in Nat \ {0}
    /\ MaxCaptures \in Nat /\ MaxFaults \in Nat
    /\ Nothing \notin Writes \cup Removals \cup Processes
    /\ \A changes \in SUBSET Changes : changes # Nothing
    /\ ({Old} \cup Writes \cup Removals) \cap (Processes \X Stages) = {}

Requests == [kind : Kinds, arg : Args, offset : 0..Chunks, try : 1..MaxTries,
             stage : {"sent", "frozen", "half", "ok", "clean", "error"}]
Idle == [op |-> "idle"]
Calls == [op : {"launch", "write", "remove", "spawn", "kill", "capture"}, arg : Args,
          kind : Kinds \cup Local, offset : 0..Chunks, try : 1..MaxTries]

TypeOK ==
    /\ activated \in BOOLEAN /\ dirty \in BOOLEAN /\ frozen \in BOOLEAN
    /\ overlay \subseteq Changes
    /\ processes \in [Processes -> {"none", "running", "stopped", "exited"}]
    /\ writes \in [Writes -> {Nothing} \cup 0..Chunks]
    /\ archives \in [1..MaxCaptures -> {Nothing} \cup SUBSET Changes]
    /\ wire \subseteq Requests
    /\ call \in Calls \cup {Idle}
    /\ taken \subseteq Args \ {Nothing}
    /\ captures \in 0..MaxCaptures
    /\ waits \in [Processes -> {"none", "waiting", "exited"}]
    /\ heartbeats \in BOOLEAN
    /\ published \subseteq Changes
    /\ life \in {"up", "captured", "deleted", "failed"}
    /\ acked \subseteq Changes
    /\ starts \in [Processes -> Nat]
    /\ stranded \subseteq Kinds
    /\ faults \in 0..MaxFaults

controller == <<activated, dirty, frozen, overlay, processes, writes, archives, starts>>
session == <<call, taken, captures, waits, heartbeats, published, life, acked, stranded>>

Sent(kind, arg, offset, try) ==
    [kind |-> kind, arg |-> arg, offset |-> offset, try |-> try, stage |-> "sent"]

\* A VM was launched for a session that has a checkpoint or none.
Init ==
    /\ activated = FALSE /\ dirty = FALSE /\ frozen = FALSE
    /\ overlay = {}
    /\ processes = [p \in Processes |-> "none"]
    /\ writes = [w \in Writes |-> Nothing]
    /\ archives = [c \in 1..MaxCaptures |-> Nothing]
    /\ wire = {Sent("health", Nothing, 0, 1)}
    /\ call = [op |-> "launch", arg |-> Nothing, kind |-> "health", offset |-> 0, try |-> 1]
    /\ taken = {} /\ captures = 0
    /\ waits = [p \in Processes |-> "none"]
    /\ heartbeats = TRUE
    /\ published \in {{}, {Old}}
    /\ life = "up"
    /\ acked = published
    /\ starts = [p \in Processes |-> 0]
    /\ stranded = {} /\ faults = 0

-----------------------------------------------------------------------------
(* The controller: what is done with a request *)

\* A step of the handler of r that leaves it at a stage, the answer last.  The
\* answer to a request nobody waits for is dropped.
Handle(r, stage) ==
    /\ wire' = (wire \ {r}) \cup
               {a \in {[r EXCEPT !.stage = stage]} :
                  \/ stage \in {"frozen", "half"}
                  \/ /\ call # Idle
                     /\ call.kind = r.kind /\ call.arg = r.arg /\ call.try = r.try}
    /\ UNCHANGED session

\* do_GET, do_POST, do_PUT and do_DELETE: a request that has arrived.
Arrived(r, kind, stage) == life = "up" /\ r.kind = kind /\ r.stage = stage

\* handle_error(): the handler fails before it has changed anything.
HandleError(r) ==
    /\ Arrived(r, r.kind, "sent") /\ Handle(r, "error")
    /\ faults < MaxFaults /\ faults' = faults + 1
    /\ UNCHANGED controller

\* /v1/health tells which activation the controller is of.
Health(r) ==
    /\ Arrived(r, "health", "sent")
    /\ Handle(r, IF activated THEN "ok" ELSE "error")
    /\ UNCHANGED <<controller, faults>>

\* start_process(): a request ID that is known starts nothing.
StartProcessMutant(r) ==
    /\ Arrived(r, "spawn", "sent") /\ Handle(r, "ok")
    /\ processes' = [processes EXCEPT ![r.arg] = "running"]
    /\ starts' = [starts EXCEPT ![r.arg] = @ + 1]
    /\ dirty' = TRUE
    /\ UNCHANGED <<activated, frozen, overlay, writes, archives, faults>>

StartProcess(r) ==
    /\ Arrived(r, "spawn", "sent") /\ Handle(r, "ok")
    /\ IF processes[r.arg] # "none" THEN UNCHANGED <<processes, starts, dirty>>
       ELSE /\ processes' = [processes EXCEPT ![r.arg] = "running"]
            /\ starts' = [starts EXCEPT ![r.arg] = @ + 1]
            /\ dirty' = TRUE
    /\ UNCHANGED <<activated, frozen, overlay, writes, archives, faults>>

\* process_group_running(): a stopped process counts as running.
Running(p) == processes[p] \in {"running", "stopped"}

\* kill_process(): SIGKILL ends a stopped process too.
KillProcess(r) ==
    /\ Arrived(r, "kill", "sent") /\ Handle(r, "ok")
    /\ processes' = [processes EXCEPT ![r.arg] = IF Running(r.arg) THEN "exited" ELSE @]
    /\ UNCHANGED <<activated, dirty, frozen, overlay, writes, archives, starts, faults>>

\* begin_write()
BeginWrite(r) ==
    /\ Arrived(r, "begin", "sent") /\ Handle(r, "ok")
    /\ writes' = [writes EXCEPT ![r.arg] = 0]
    /\ UNCHANGED <<activated, dirty, frozen, overlay, processes, archives, starts, faults>>

\* write_chunk(): chunks are appended in their order or refused.
WriteChunk(r) ==
    /\ Arrived(r, "chunk", "sent")
    /\ IF writes[r.arg] # Nothing /\ writes[r.arg] = r.offset
       THEN Handle(r, "ok") /\ writes' = [writes EXCEPT ![r.arg] = @ + 1]
       ELSE Handle(r, "error") /\ writes' = writes
    /\ UNCHANGED <<activated, dirty, frozen, overlay, processes, archives, starts, faults>>

\* commit_write(): the write is forgotten, then the file is moved into place,
\* which may fail.
CommitWrite(r) ==
    /\ Arrived(r, "commit_write", "sent")
    /\ writes' = [writes EXCEPT ![r.arg] = Nothing]
    /\ \/ /\ writes[r.arg] # Nothing
          /\ overlay' = overlay \cup {r.arg} /\ dirty' = TRUE
          /\ Handle(r, "ok") /\ faults' = faults
       \/ /\ writes[r.arg] = Nothing \/ faults < MaxFaults
          /\ faults' = IF writes[r.arg] = Nothing THEN faults ELSE faults + 1
          /\ Handle(r, "error") /\ UNCHANGED <<overlay, dirty>>
    /\ UNCHANGED <<activated, frozen, processes, archives, starts>>

\* abort_write()
AbortWrite(r) ==
    /\ Arrived(r, "abort", "sent") /\ Handle(r, "ok")
    /\ writes' = [writes EXCEPT ![r.arg] = Nothing]
    /\ UNCHANGED <<activated, dirty, frozen, overlay, processes, archives, starts, faults>>

\* remove_path(): rm may fail half way, and dirty is then not set.
RemovePath(r) ==
    /\ Arrived(r, "remove", "sent")
    /\ \/ overlay' = overlay \cup {r.arg} /\ dirty' = TRUE /\ Handle(r, "ok") /\ faults' = faults
       \/ /\ faults < MaxFaults /\ faults' = faults + 1
          /\ overlay' \in {overlay, overlay \cup {r.arg}} /\ dirty' = dirty /\ Handle(r, "error")
    /\ UNCHANGED <<activated, frozen, processes, writes, archives, starts>>

-----------------------------------------------------------------------------
(* The controller: checkpoints *)

\* freeze_workload(): nothing is stopped when the workload is frozen already.
FreezeWorkload ==
    /\ frozen' = TRUE
    /\ processes' = IF frozen THEN processes
                    ELSE [p \in Processes |-> IF Running(p) THEN "stopped" ELSE processes[p]]

\* release_workload()
ReleaseWorkload ==
    /\ frozen' = FALSE
    /\ processes' = IF ~frozen THEN processes
                    ELSE [p \in Processes |-> IF Running(p) THEN "running" ELSE processes[p]]

\* prepare_checkpoint(), up to the archive.
PrepareCheckpoint(r) ==
    /\ Arrived(r, "prepare", "sent")
    /\ IF dirty THEN FreezeWorkload /\ Handle(r, "frozen")
       ELSE Handle(r, "clean") /\ UNCHANGED <<frozen, processes>>
    /\ UNCHANGED <<activated, dirty, overlay, writes, archives, starts, faults>>

\* tar reads one file after the other; the order that matters is the one that
\* meets the first change of a process before its second.
ArchiveFirst(r) ==
    /\ Arrived(r, "prepare", "frozen") /\ Handle(r, "half")
    /\ archives' = [archives EXCEPT ![r.arg] = overlay \ (Processes \X {2})]
    /\ UNCHANGED <<activated, dirty, frozen, overlay, processes, writes, starts, faults>>

ArchiveSecond(r) ==
    /\ Arrived(r, "prepare", "half") /\ Handle(r, "ok")
    /\ archives' = [archives EXCEPT ![r.arg] = @ \cup (overlay \cap (Processes \X {2}))]
    /\ UNCHANGED <<activated, dirty, frozen, overlay, processes, writes, starts, faults>>

\* upload_checkpoint(): it fails when the archive is gone.
UploadCheckpoint(r) ==
    /\ Arrived(r, "upload", "sent")
    /\ Handle(r, IF archives[r.arg] = Nothing THEN "error" ELSE "ok")
    /\ UNCHANGED <<controller, faults>>

\* commit_checkpoint(): the workload stays frozen.
CommitCheckpoint(r) ==
    /\ Arrived(r, "commit", "sent") /\ Handle(r, "ok")
    /\ archives' = [archives EXCEPT ![r.arg] = Nothing]
    /\ dirty' = FALSE
    /\ UNCHANGED <<activated, frozen, overlay, processes, writes, starts, faults>>

Release(r) ==
    /\ Arrived(r, "release", "sent") /\ Handle(r, "ok")
    /\ ReleaseWorkload
    /\ UNCHANGED <<activated, dirty, overlay, writes, archives, starts, faults>>

\* restore_checkpoint(): the overlay is replaced, unless a process runs on it.
RestoreCheckpoint(r) ==
    /\ Arrived(r, "restore", "sent")
    /\ IF \E p \in Processes : Running(p)
       THEN Handle(r, "error") /\ UNCHANGED <<overlay, dirty>>
       ELSE Handle(r, "ok") /\ overlay' = published /\ dirty' = FALSE
    /\ UNCHANGED <<activated, frozen, processes, writes, archives, starts, faults>>

\* reset_for_run(): the run hook of the service, once for a launched VM.
RunHook ==
    /\ ~activated /\ life = "up"
    /\ activated' = TRUE
    /\ writes' = [w \in Writes |-> Nothing]
    /\ archives' = [c \in 1..MaxCaptures |-> Nothing]
    /\ processes' = [p \in Processes |-> "none"]
    /\ dirty' = FALSE /\ frozen' = FALSE
    /\ UNCHANGED <<overlay, starts, wire, session, faults>>

\* The resume hook: a VM without traffic was suspended and goes on.
Resume ==
    /\ activated /\ life = "up" /\ call = Idle /\ frozen
    /\ ReleaseWorkload
    /\ UNCHANGED <<activated, dirty, overlay, writes, archives, starts, wire, session, faults>>

\* A process makes its changes and ends; launcher.py runs it in the overlay.
Work(p) ==
    /\ processes[p] = "running" /\ life = "up"
    /\ \/ \E n \in Stages : /\ <<p, n>> \notin overlay
                            /\ n = 1 \/ <<p, 1>> \in overlay
                            /\ overlay' = overlay \cup {<<p, n>>}
                            /\ processes' = processes
       \/ processes' = [processes EXCEPT ![p] = "exited"] /\ overlay' = overlay
    /\ UNCHANGED <<activated, dirty, frozen, writes, archives, starts, wire, session, faults>>

-----------------------------------------------------------------------------
(* The client *)

\* The requests made with retryTransient.
RetryTransient == {"restore", "spawn", "kill", "upload", "commit", "release"}

\* The request that the operation waits for, at a stage.
Current(stage) == [kind |-> call.kind, arg |-> call.arg, offset |-> call.offset,
                   try |-> call.try, stage |-> stage]

Answered(kind, stage) == call # Idle /\ call.kind = kind /\ Current(stage) \in wire

\* What may be left of the current request when its answer is done with.
Settled == {r \in wire : \A stage \in {"ok", "clean", "error"} : r # Current(stage)}

\* The next step of the operation: a request is made, unless the step is local.
Then(kind, offset, left) ==
    /\ call' = [call EXCEPT !.kind = kind, !.offset = offset, !.try = 1]
    /\ wire' = left \cup {r \in {Sent(kind, call.arg, offset, 1)} : kind \notin Local}

Done(left) == call' = Idle /\ wire' = left

\* The connection of the current request breaks before or after it was handled.
\* One that was not yet handled never will be, unless it lingers.
Broken(left) ==
    /\ call # Idle /\ faults < MaxFaults /\ faults' = faults + 1
    /\ \E stage \in {"sent", "ok", "clean", "error"} :
         /\ Current(stage) \in wire
         /\ left = IF stage = "sent" /\ call.kind \in Lingering THEN wire
                   ELSE wire \ {Current(stage)}

\* An attempt came to nothing: the answer was a status of 500 or more, or none.
\* A refusal below 500 is not told apart: repeating it changes nothing.
Failed(left) ==
    \/ Answered(call.kind, "error") /\ left = Settled /\ faults' = faults
    \/ Broken(left)

\* #request() tries again, up to TRANSIENT_ATTEMPTS.  A 403 of the proxy in front
\* of the controller is answered with a new token and the same request.
RetryMutant ==
    /\ call # Idle /\ call.kind \in RetryTransient
    /\ \E left \in SUBSET wire :
         /\ Failed(left)
         /\ call' = [call EXCEPT !.try = @ + 1]
         /\ wire' = left \cup {Sent(call.kind, call.arg, call.offset, call.try + 1)}
    /\ UNCHANGED <<controller, taken, captures, waits, heartbeats, published, life, acked, stranded>>

Retry ==
    /\ call # Idle /\ call.kind \in RetryTransient /\ call.try < MaxTries
    /\ \E left \in SUBSET wire :
         /\ Failed(left)
         /\ call' = [call EXCEPT !.try = @ + 1]
         /\ wire' = left \cup {Sent(call.kind, call.arg, call.offset, call.try + 1)}
    /\ UNCHANGED <<controller, taken, captures, waits, heartbeats, published, life, acked, stranded>>

\* waitUntilReady(): asked again until the controller is of this activation.
ReadyMutant == \E stage \in {"ok", "error"} : Answered("health", stage)

Ready == Answered("health", "ok")

AskAgain ==
    /\ call # Idle /\ call.kind = "health" /\ ~Ready
    /\ \E left \in SUBSET wire : Failed(left) /\ Then("health", 0, left)
    /\ UNCHANGED <<controller, taken, captures, waits, heartbeats, published, life, acked, stranded>>

\* createSessionHandle(): a checkpoint is restored before the handle is returned.
Restore ==
    /\ call # Idle /\ Ready
    /\ IF published # {} THEN Then("restore", 0, Settled) ELSE Done(Settled)
    /\ UNCHANGED <<controller, taken, captures, waits, heartbeats, published, life, acked,
                   stranded, faults>>

Restored ==
    /\ Answered("restore", "ok") /\ Done(Settled)
    /\ UNCHANGED <<controller, taken, captures, waits, heartbeats, published, life, acked,
                   stranded, faults>>

\* The client gives up on a request that is not retried, or not any more.
GivesUp(kind, left) ==
    /\ call # Idle /\ call.kind = kind
    /\ kind \in RetryTransient => call.try = MaxTries
    /\ Failed(left)

\* The launch fails and the VM is terminated.
RestoreFails ==
    /\ \E left \in SUBSET wire : GivesUp("restore", left) /\ Done(left)
    /\ life' = "failed"
    /\ UNCHANGED <<controller, taken, captures, waits, heartbeats, published, acked, stranded>>

-----------------------------------------------------------------------------
(* The session operations *)

\* beforeOperation: the handle is active.
Begin(op, arg, kind) ==
    /\ call = Idle /\ life = "up"
    /\ call' = [op |-> op, arg |-> arg, kind |-> kind, offset |-> 0, try |-> 1]
    /\ wire' = wire \cup {Sent(kind, arg, 0, 1)}
    /\ UNCHANGED <<controller, waits, heartbeats, published, life, acked, stranded, faults>>

Once(arg) == arg \notin taken /\ taken' = taken \cup {arg} /\ captures' = captures

WriteFile(w) == Once(w) /\ Begin("write", w, "begin")
RemoveFile(f) == Once(f) /\ Begin("remove", f, "remove")
Spawn(p) == Once(p) /\ Begin("spawn", p, "spawn")
Kill(p) == waits[p] = "waiting" /\ Begin("kill", p, "kill") /\ UNCHANGED <<taken, captures>>

\* writeFile() sends the chunks one after the other and then commits.
WriteProceeds ==
    /\ \/ Answered("begin", "ok") /\ Then("chunk", 0, Settled)
       \/ /\ Answered("chunk", "ok")
          /\ IF call.offset + 1 < Chunks THEN Then("chunk", call.offset + 1, Settled)
             ELSE Then("commit_write", 0, Settled)
    /\ UNCHANGED <<controller, taken, captures, waits, heartbeats, published, life, acked,
                   stranded, faults>>

\* The caller is told that the change is made.
FileDone ==
    /\ \E kind \in {"commit_write", "remove"} : Answered(kind, "ok")
    /\ Done(Settled) /\ acked' = acked \cup {call.arg}
    /\ UNCHANGED <<controller, taken, captures, waits, heartbeats, published, life, stranded, faults>>

\* A write that fails is aborted, whatever becomes of that request.
WriteFails ==
    /\ \E left \in SUBSET wire :
         \/ \E kind \in {"chunk", "commit_write"} : GivesUp(kind, left) /\ Then("abort", 0, left)
         \/ \E kind \in {"begin", "remove"} : GivesUp(kind, left) /\ Done(left)
    /\ UNCHANGED <<controller, taken, captures, waits, heartbeats, published, life, acked, stranded>>

Aborted ==
    /\ \/ Answered("abort", "ok") /\ Done(Settled) /\ faults' = faults
       \/ \E left \in SUBSET wire : GivesUp("abort", left) /\ Done(left)
    /\ UNCHANGED <<controller, taken, captures, waits, heartbeats, published, life, acked, stranded>>

\* spawn() returns a process that is being waited for.
Spawned ==
    /\ Answered("spawn", "ok") /\ Done(Settled)
    /\ waits' = [waits EXCEPT ![call.arg] = "waiting"]
    /\ UNCHANGED <<controller, taken, captures, heartbeats, published, life, acked, stranded, faults>>

SpawnFails ==
    /\ \E left \in SUBSET wire : GivesUp("spawn", left) /\ Done(left)
    /\ stranded' = stranded \cup {"spawn"}
    /\ UNCHANGED <<controller, taken, captures, waits, heartbeats, published, life, acked>>

Killed ==
    /\ \/ Answered("kill", "ok") /\ Done(Settled) /\ faults' = faults
       \/ \E left \in SUBSET wire : GivesUp("kill", left) /\ Done(left)
    /\ UNCHANGED <<controller, taken, captures, waits, heartbeats, published, life, acked, stranded>>

\* #waitForProcess(): polls while heartbeats are enabled.  With the exit of a
\* process the caller knows of what it did.
Poll(p) ==
    /\ waits[p] = "waiting" /\ heartbeats /\ life = "up"
    /\ ~Running(p) /\ processes[p] # "none"
    /\ waits' = [waits EXCEPT ![p] = "exited"]
    /\ acked' = acked \cup (overlay \cap ({p} \X Stages))
    /\ UNCHANGED <<controller, wire, call, taken, captures, heartbeats, published, life,
                   stranded, faults>>

-----------------------------------------------------------------------------
(* Capturing the session *)

\* capture() and uploadAwsLambdaMicrovmCheckpoint(): a checkpoint is prepared.
Capture ==
    /\ captures < MaxCaptures /\ captures' = captures + 1
    /\ Begin("capture", captures + 1, "prepare") /\ taken' = taken

\* Nothing changed: the previous checkpoint is published again.
Prepared ==
    /\ \/ Answered("prepare", "clean") /\ Then("publish", 0, Settled)
       \/ Answered("prepare", "ok") /\ Then("upload", 0, Settled)
    /\ UNCHANGED <<controller, taken, captures, waits, heartbeats, published, life, acked,
                   stranded, faults>>

\* The capture fails without a release: it does not know of a frozen workload.
PrepareFails ==
    /\ \E left \in SUBSET wire : GivesUp("prepare", left) /\ Done(left)
    /\ stranded' = stranded \cup {"prepare"}
    /\ UNCHANGED <<controller, taken, captures, waits, heartbeats, published, life, acked>>

\* Nor does it when the answer to prepare is not complete or S3 refuses the
\* multipart upload: both come before the try whose catch releases.
UploadNotCreated ==
    /\ Answered("prepare", "ok") /\ Done(Settled)
    /\ faults < MaxFaults /\ faults' = faults + 1
    /\ stranded' = stranded \cup {"upload"}
    /\ UNCHANGED <<controller, taken, captures, waits, heartbeats, published, life, acked>>

\* The parts are put together and looked at; otherwise the workload is released.
Uploaded ==
    /\ Answered("upload", "ok")
    /\ \/ Then("publish", 0, Settled) /\ faults' = faults
       \/ faults < MaxFaults /\ faults' = faults + 1 /\ Then("release", 0, Settled)
    /\ UNCHANGED <<controller, taken, captures, waits, heartbeats, published, life, acked, stranded>>

UploadFails ==
    /\ \E left \in SUBSET wire : GivesUp("upload", left) /\ Then("release", 0, left)
    /\ UNCHANGED <<controller, taken, captures, waits, heartbeats, published, life, acked, stranded>>

\* There is a new checkpoint, not only the previous one.
Pending == archives[call.arg] # Nothing

\* updateState() of the session authority.
Publish ==
    /\ call # Idle /\ call.kind = "publish"
    /\ published' = IF Pending THEN archives[call.arg] ELSE published
    /\ Then(IF Pending THEN "commit" ELSE "terminate", 0, wire)
    /\ UNCHANGED <<controller, taken, captures, waits, heartbeats, life, acked, stranded, faults>>

PublishFails ==
    /\ call # Idle /\ call.kind = "publish"
    /\ faults < MaxFaults /\ faults' = faults + 1
    /\ IF Pending THEN Then("release", 0, wire) ELSE Done(wire)
    /\ UNCHANGED <<controller, taken, captures, waits, heartbeats, published, life, acked, stranded>>

Committed ==
    /\ Answered("commit", "ok") /\ Then("terminate", 0, Settled)
    /\ UNCHANGED <<controller, taken, captures, waits, heartbeats, published, life, acked,
                   stranded, faults>>

CommitFails ==
    /\ \E left \in SUBSET wire : GivesUp("commit", left) /\ Then("release", 0, left)
    /\ stranded' = stranded \cup {"commit"}
    /\ UNCHANGED <<controller, taken, captures, waits, heartbeats, published, life, acked>>

\* pauseHeartbeats(), the revocation and the end of the VM.  When one of them
\* fails the handle is of no more use either.
Terminate ==
    /\ call # Idle /\ call.kind = "terminate"
    /\ heartbeats' = FALSE /\ life' = "captured" /\ Done(wire)
    /\ UNCHANGED <<controller, taken, captures, waits, published, acked, stranded, faults>>

\* pending.release(); its failure is swallowed.
Released ==
    /\ \/ Answered("release", "ok") /\ Done(Settled) /\ UNCHANGED <<stranded, faults>>
       \/ \E left \in SUBSET wire : GivesUp("release", left) /\ Done(left) /\ stranded' = stranded \cup {"release"}
    /\ UNCHANGED <<controller, taken, captures, waits, heartbeats, published, life, acked>>

\* delete(): the VM is terminated without a checkpoint.
Delete ==
    /\ call = Idle /\ life = "up"
    /\ heartbeats' = FALSE /\ life' = "deleted"
    /\ UNCHANGED <<controller, wire, call, taken, captures, waits, published, acked, stranded, faults>>

-----------------------------------------------------------------------------
Next ==
    \/ \E r \in wire :
         \/ HandleError(r) \/ Health(r) \/ StartProcess(r) \/ KillProcess(r) \/ BeginWrite(r) \/ WriteChunk(r)
         \/ CommitWrite(r) \/ AbortWrite(r) \/ RemovePath(r) \/ PrepareCheckpoint(r)
         \/ ArchiveFirst(r) \/ ArchiveSecond(r) \/ UploadCheckpoint(r) \/ CommitCheckpoint(r)
         \/ Release(r) \/ RestoreCheckpoint(r)
    \/ RunHook \/ Resume
    \/ \E p \in Processes : Work(p) \/ Spawn(p) \/ Kill(p) \/ Poll(p)
    \/ \E w \in Writes : WriteFile(w)
    \/ \E f \in Removals : RemoveFile(f)
    \/ Retry \/ AskAgain \/ Restore \/ Restored \/ RestoreFails
    \/ WriteProceeds \/ FileDone \/ WriteFails \/ Aborted \/ Spawned \/ SpawnFails \/ Killed
    \/ Capture \/ Prepared \/ PrepareFails \/ UploadNotCreated \/ Uploaded \/ UploadFails \/ Publish
    \/ PublishFails \/ Committed \/ CommitFails \/ Terminate \/ Released \/ Delete

Spec == Init /\ [][Next]_vars

-----------------------------------------------------------------------------
(* Properties *)

\* Changes of the files, which nothing but the operations of the session makes.
FileChanges == {Old} \cup Writes \cup Removals

\* No process's second change without its first.
Whole(changes) == \A p \in Processes : <<p, 2>> \in changes => <<p, 1>> \in changes

\* The checkpoint a captured session is left with holds every change its caller
\* was told of and is the overlay of one instant, whatever was retried, failed
\* or captured in vain before (dirty, freeze_workload and the order in
\* capture()).  It promises less once something was stranded: only the files,
\* and after a commit was given up on not even those.  Then a process that was
\* started while the workload stayed frozen is not stopped by the next capture,
\* which may be torn, whether a request was given up on or a capture failed
\* between its prepare and its upload.  See the hazards.
CheckpointComplete ==
    life = "captured" =>
        /\ "commit" \notin stranded => acked \cap FileChanges \subseteq published
        /\ stranded = {} => acked \subseteq published /\ Whole(published)

\* An operation that is over leaves nothing behind: no workload is left frozen,
\* unless the client gave up on the request that froze or should have released
\* it, or a capture failed between its prepare and its upload, which no code
\* releases; and no request has started its process twice.
NothingLeftBehind ==
    /\ call = Idle /\ life = "up" /\ stranded \cap {"prepare", "upload", "release"} = {} => ~frozen
    /\ \A p \in Processes : starts[p] <= 1
=============================================================================
