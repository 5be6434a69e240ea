# TLA+ models of the eve extensions

The repository holds a set of extensions for the eve agent framework. Four of them
keep state that several processes, conversations or machines change at once, and
they are what this project models:

* `packages/eve-aws-lambda-microvms` keeps a sandbox session alive across
  processes that come and go. Ownership is a lease document in S3, the work is
  done in MicroVMs that AWS starts and ends by itself, and what is saved is a
  chain of checkpoints.
* `packages/eve-agent-builder` lets a conversation build a reusable agent. Child
  sessions with single-use grants and expiring leases edit, review and test a
  draft; publication must rest on evidence about exactly that draft. What is
  published is kept in versions, found by search and run.
* `packages/eve-celld-sandbox` keeps a sandbox in a durable object, with a journal
  of commands, a queue of mutations and templates.
* `packages/eve-project-link` ties a channel to one external project, whichever of
  its conversations provisions it.

Contents: [inventory](#1-inventory) · [modules](#2-modules-and-the-code) ·
[runs](#3-runs) · [fairness](#4-fairness) · [proofs](#5-proofs) ·
[disagreements with the docs](#6-where-code-and-documents-disagree) ·
[limits](#7-what-is-not-modelled) · [plan](#8-plan)

## 1. Inventory

### eve-aws-lambda-microvms

| Part | State | Operations | Correct when |
|---|---|---|---|
| lease (`lease.ts`) | `lease.json` in S3 with its ETag; in each process a copy, its ETag, deadline and flags | acquire, renew, updateState, promote, release | one owner at a time; authority only changes hands with a new generation; what the owner reads is what S3 stores; a launch never outlives its deadline |
| storage (`storage.ts`, `checkpoint.ts`) | S3 objects | conditional get/put/delete, multipart upload | a condition names the exact version it was computed from |
| session handles (`backend.ts`, `launch.ts`, `session.ts`) | the authority inside the lease document (checkpoint metadata, launch record); handle variables | create, operations, capture, stop, delete, late clean-up | a retry repeats the exact request; a MicroVM in use is never ended by somebody else; checkpoints form one line; no checkpoint reference dangles; create ends |
| controller (`controller.py`, `controller-client.ts`, `checkpoint.ts`) | overlay, dirty and frozen flags, processes, open writes, archives, heartbeats | spawn, kill, files, freeze, prepare/upload/commit/release, restore | a captured session has every acknowledged change, as of one instant; a repeated request takes effect once; nothing is left frozen |
| template provisioning (`provision.ts`, `reconcile.ts`) | template manifest, image versions | prewarm, build, poll | one build per template; the same inputs give the same image |
| activations (`activation.ts`) | activation id and generations | create, bind, revoke | a replacement never reuses a generation |
| options, provider, SDK adapter, telemetry | none | validation and translation | – |

### eve-agent-builder

| Part | State | Operations | Correct when |
|---|---|---|---|
| families (`stores/memory.ts`, `service.ts`, `domain.ts`) | family record, draft, versions, names, quotas | create, patch, begin revision, publish, activate, archive, restore, delete | revisions are compared and grow; the lifecycle table is respected; names are unique |
| ledger (`stores/memory.ts`) | result of each operation ID | mutate, replay | an operation takes effect once |
| workflow (`workflow.ts`, `workflow-service.ts`) | phase, revision, draft, test run, evidence, approval | submit role, record test, reopen, publish | evidence and approval belong to the published content |
| grants and leases (`bootstrap.ts`) | grants by token hash, a lease per child, closed parent turns | issue, redeem, begin, close, close by parent | one child per token, one submission per lease, nothing runs after its root turn |
| test steps (`stores/memory.ts`, `mounts/runner-tools.ts`) | started and finished steps, verified inputs | authorise, begin, complete | a pass means that every required capability succeeded |
| discovery and runs (`discovery.ts`, `runtime/service.ts`) | a cursor; a run's grant and lease | search, admit, grant, redeem, first turn | pages are complete under change; a run uses the version that is active when it starts |
| roles and prompts | none | – | – |

### eve-celld-sandbox

| Part | State | Operations | Correct when |
|---|---|---|---|
| just-bash cell (`worker/just-bash.ts`, `agentfs.ts`, `workspace.ts`) | generation, stopped and deleted, files, journal; in memory a queue, a stopping flag and running commands | open, publish, write, execute, cancel, stop, delete | answers are true and durable; a command commits once; stop is a barrier; delete fences old handles; nobody waits for ever |
| client (`just-bash.ts`, `client.ts`, `transport.ts`) | handles with their generation | create, prewarm, spawn with retries, stop, delete | a retry is recognised |
| container variant | generation, stopped, deleted; the rest in a container service | the same | – (not modelled) |

### eve-project-link

| Part | State | Operations | Correct when |
|---|---|---|---|
| service and store (`lib/project-link.ts`, `stores/memory.ts`) | one binding per channel with a revision | link, complete, save, unlink, status, guide | one history per binding; one resource per link |
| dynamic tools and prompt (`tools/`, `instructions/`) | per conversation, as resolved at its step | offer tools, run them durably | what an old tool set can do is still sound |

### The other packages

`eve-progress` (projection of todo lists to a Slack message), `eve-slack-participation`
(which events to answer), `eve-openai-plugins` (import of plugins),
`eve-openai-compaction`, `-imagegen` and `-connectors` (calls of an API).

### How the parts interact

A handle of `backend.ts` holds a lease object of `lease.ts` and changes the
session's authority only through its `updateState`, so a checkpoint and the
ownership it was published under are one S3 write. RunMicrovm and
TerminateMicrovm are requests whose effect, answer and loss are independent of
the caller's life. In the builder every store operation is atomic, and everything
hard is between two of them: a tool reads a snapshot, awaits, and commits; the
root turn ends while a child is being started; a call is repeated because its
answer was lost.

The hazards that follow from this are listed, with their lines, in
`PROJECT.json`; the properties below were chosen from that list.

## 2. Modules and the code

`PROJECT.json` maps every definition to the lines it stands for. A module `XProofs`
extends the component's module `X` with its theorems (section 5) and adds nothing to
the model.

### FencedRegister, SessionLease

`FencedRegister` is the abstract promise: a value with an owner and a generation.
A takeover raises the generation and keeps the value; only the current owner
publishes.

`SessionLease` is `lease.ts`. A member of `Holders` is one call of
`acquireAwsLambdaMicrovmLease` and the lease object it returns.

* `obj`, `nextEtag`: the S3 document and ETags that never repeat. `Init` also
  allows a version-1 document left by an older runtime.
* `net`, `resp`: a conditional write is *sent* (`DecidePut`, `WriteSend`,
  `ReleaseSend`), *served* by S3 at any later time (`Serve`) and its answer
  *consumed* (`AcquireOk`, `WriteOk`, ...). A holder that stops waiting leaves
  its request behind (`Abandoned`), to be served after it is gone.
* `pc`, `local`: the closure variables `document`, `etag`, `released`, the abort
  signal and the deadline, which `Promote` removes.
* `now`, `Skew`: `Date.now()` of a holder is real time plus its skew.

Acquisition is the loop of lines 62–103, one action per way a pass can end.
`Renew` and `UpdateState` run the check, send, and on the answer check again, as
`write()` does; `ExpiryTimer` and `CallerAbort` may come at any time.

### MicrovmSession

`backend.ts` on top of the lease. The lease is used as the register the first
pair of modules justifies: `auth` (generation, holder, metadata, launch) changes
atomically under `Held(h)`, `Expire` takes the lease from a create or a clean-up
at its deadline, from a dead process, and from any holder at any step (fault
`expire`), and `UpdateState` may be applied without being answered (fault
`answer`), after which that lease object is broken for ever.

A launch identity is `hash(manifestKey:generation)`, so it is named by the
generation, and so is the MicroVM that AWS starts for it, because RunMicrovm is
idempotent in the client token. `runs` and `kills` are requests on their way;
`vms` is what AWS runs; `objects` are checkpoint objects in S3; `origin` remembers
what each upload was made on top of. The program counter of a handle follows
`create()` (266–459, with `runMicrovmWithAuthority` 743–870), `retireLateLaunch`
(692–719), `capture` (498–584), `stop` and `deleteSandbox` (586–633). Calls of one
handle are made one after the other. A manifest etag is named by the number of the
capture that made it.

A member of the constant `Worlds` says which configuration each create asks for and
what the environment may do (`faults`, a subset of `FaultKinds`); a behaviour chooses one
and keeps it. Every fault is an error path of the code. Fault `survive` is a delete
whose TerminateMicrovm fails: `deleteSandbox` then releases the lease and leaves the
handle active.

### MicrovmController

The inside of one MicroVM: `controller.py`, the HTTP client, and the operations of
a session handle that use it. `wire` holds requests on their way, being handled, or
answered; a request or its answer can be lost (`MaxFaults`), the client tries again
as `#request` does for the calls it marks retryable (`Retry`), and a request of a kind
in `Lingering` may still be carried out when the client has given up. A change of the
workspace is a member of `overlay`; a process makes two, in order (`Work`), so that an
archive made of two reads (`ArchiveFirst`, `ArchiveSecond`) can show the second without
the first. Capture is `Capture`, `Prepared`, `Uploaded`, `Publish`, `Committed`,
`Terminate`, with one action for each way a step fails. One of them has no release: what
`uploadAwsLambdaMicrovmCheckpoint` does between the answer to prepare and its `try`
(`checkpoint.ts:21-27`, `UploadNotCreated`) fails with the workload frozen and nothing
pending in `capture()`. `stranded` records which kinds of request that stop, start or
release the workload the client gave up on, and `"upload"` for such a capture.

`MicrovmSession` and this module meet in `capture()`: there the controller's answers
are faults of the environment, here the lease is always held.

### BuildWorkflow

One family under its workflow. `family`, `workflow`, `grants`, `leases`, `closed`,
`execs`, `approvals` are the records of the owner's bucket in `stores/memory.ts`; each
store operation is one action because the store runs it under `#locked`.

A mutation is `Call...` (replay lookup and snapshot, `workflow-service.ts`), possibly
`Repeat` (the same operation ID with a new snapshot), one commit action per store
command (`SubmitRole`, `RecordTest`, `Reopen`, `Publish`, `Patch`, ...), and `Answer`,
which returns an error at any time or the recorded result. The commit compares what
the code compares: family and workflow revisions for most commands, the workflow's
alone in `RecordTest`.

A test step is resolved against a registry whose capabilities come and go
(`RegistryChanges`), authorised, begun and completed; the verdict of a run is computed
from its steps (`RunStatus`). Content is named by (draft, revision), since a draft's
content changes only with its `draftRevision`. `Redeem(c, d)` lets any child of the
right role present any token. A member of `Scenarios` says which children, turns,
mutations and results a behaviour explores; the rules are the same in all.

### AtomicAgents, SavedAgents

`AtomicAgents` is what the service promises its callers. A call is authorised (`Ask`)
or turned away, and then takes effect in one instant: it does to the families *as they
are then* what was asked for, and nothing else (`Apply`, with `Allowed` and `Becomes`); or it
answers what its operation was answered before (`Repeat`); or it is refused, and the
families as they are then do not allow it (`Refuse`). `Refuse` does not ask whether the
operation has been applied: `#replay` and the read of the family are two transactions, and
a retry whose original commits between them is answered REVISION_CONFLICT. One more retry
gets the original result.

`SavedAgents` is the code: several families of one owner that no workflow manages.
A call of `AgentBuilderService` is `Begin`, `Replay` (the ledger), a read of the family,
for some a read of a version, and a commit, each a transaction of its own, so that
any other call fits in between. `search` is a client that pages through the active
agents; `runs` are runs of published agents from admission to the first turn, with
the checks that each stage repeats. `steady` and `commits` are history variables. `Service`
instantiates `AtomicAgents` with the families and the ledger of the store, with what each
call has asked once it was authorised (`Sent`) and with its answer. The revision a
caller names is an input of the call (`expectedRevision`), so "as the caller has last seen
it" is part of what is asked.

### SandboxCell

One durable object per session, build or template. `mem` is what a cell's storage
reads as (generation, flags, files, and the journal table: the state of each command that
has a row, with its place in insertion order), `disk` what a crash goes back to; a transaction is one step, and answers are
held until the writes before them are flushed (`Hold`, `Deliver`). `queue` is the chain of
promises of `serialize`; work on its head may ask another cell (`Fetch`, `Serve`). A command
is journalled on arrival (`ReceiveCommand`), started and committed in its turn, joined
by a repeated request (`Join`) and aborted by cancel or stop. `Crash` loses everything
in memory (what the crashed cell had asked of another is served, and its answer goes
nowhere), and `Restarted` marks unfinished commands interrupted, as the constructor
does. Durable Object semantics (output gate, no event during a transaction) are
external and taken from how the code relies on them.

### ProjectLink

One channel, its conversations, the store and the external system. A conversation
resolves its tool set (`ResolveTools`) and its prompt (`ResolveInstructions`) from the
binding of that moment, finds or creates a resource for the ID its plan names, and
calls a tool; each service call is a read and a later compare-and-swap, with the
winner read again on failure. `Restart` runs a durable callback from its start.

## 3. Runs

All runs allow the system to stop (`CHECK_DEADLOCK FALSE`): time, generations,
captures and revisions are bounded, and a session or a build that has ended takes
no step.

| Run | Checks | States |
|---|---|---|
| `SessionLeaseDurable` | `TypeOK`, `MutualExclusion`, `HolderSeesAuthority`, `LaunchExpiryCapped`, `ExpiredStaysExpired`, `FencedAuthority` (refinement of `FencedRegister`) | 1,070,496 |
| `SessionLeaseMixed` | `AuthorityNeverDowngraded`, `AcquisitionEnds` | 134,604 |
| `MicrovmSessionLaunch` | `TypeOK`, `SameTokenSameRequest`, `AdoptedNeverKilled`, `CheckpointPresent`, `LinearHistory`, `OnlyOwnersForget`, `LaunchSettles` | 1,005,355 |
| `MicrovmController` | `TypeOK`, `CheckpointComplete`, `NothingLeftBehind` | 2,657,802 |
| `BuildWorkflow` | `TypeOK`, `PublishedWasTested`, `WorkflowTracksDraft`, `AccountedWork`, `OneSubmissionPerLease` | 1,098,051 |
| `SavedAgents` | `TypeOK`, `EditsKept`, `OwnerLimits`, `PagesComplete`, `CallsAtomic` (refinement of `AtomicAgents`), `HistoryGrows`, `RunsActiveVersion` | 832,902 |
| `SandboxCell` | `TypeOK`, `AnswersTrue`, `CommittedOnce`, `StopBarrier`, `SessionsKeepTemplate`, `EveryCallEnds` | 685,654 |
| `ProjectLink` | `TypeOK`, `OneHistory`, `OneResourcePerKey`, `Vouched` | 262,889 |
| `MicrovmSessionCommit` | `LinearHistory`, violated (section 6) | |
| `MicrovmSessionStop` | `StoppedHandleLetsGo`, violated | |
| `BuildWorkflowArchive` | `OnlyRestoreUnarchives`, violated | |
| `SandboxCellFence` | `Fenced`, violated | |

What each shows:

* **SessionLeaseDurable.** Two session runtimes, one of them a launch with deadline
  2, the other without one; `TTL` 2, time up to 4, so a lease can expire and its
  successor's can expire too while a write of the first is still unserved.
  `MutualExclusion` and `HolderSeesAuthority` are about agreeing clocks: nothing in
  the code corrects for skew, and with skew two holders can both believe they own
  the lease, which is why authority is fenced. `FencedAuthority` is what remains
  true then.
* **SessionLeaseMixed.** A session and a caller of the older format (templates use it)
  with a clock one unit ahead. `AcquisitionEnds` is checked here, under `FairSpec`.
* **MicrovmSessionLaunch.** Two handles, three generations, two captures: enough for
  a first owner, a successor that adopts or retires its launch, and a clean-up that
  comes back third. Two worlds: equal configurations with all faults but `survive`, and
  a redeployment with other options, so that "pending launch configuration changed"
  occurs. What a delete that could not end its MicroVM leads to is the subject of
  `MicrovmSessionCommit`, which needs a fourth generation to show it.
  `AdoptedNeverKilled` is the reason `retireLateLaunch` publishes its intent before it
  sends the termination; `OnlyOwnersForget` the reason `create` waits for the confirmed
  end of a recorded MicroVM. `OnlyOwnersForget` exempts the two steps that
  forget on purpose: the publication of a checkpoint by the handle that uses the
  MicroVM, and delete.
* **MicrovmController.** One write of two chunks, one removal, one process, two captures
  (the first may fail anywhere), two attempts per request and three failures: enough
  for a capture that fails at its upload and is retried, with a repeated request on
  each side. `Lingering` leaves out `restore` and `release`: with either of them
  added TLC refutes `CheckpointComplete`, because the controller does not recognise a
  late copy of them. A session with something `stranded` is promised less, and no more
  than TLC lets it be: after a spawn, a prepare, a release or a capture that failed between
  its prepare and its upload a checkpoint may be torn between two changes of a process; after
  all of these but a spawn the workload may stay frozen; after a commit
  even an acknowledged file may be missing, because the late copy resets `dirty` over
  newer writes and the next capture finds nothing to archive. What is left is in the
  properties: without a stranded commit the files are saved, and no process ever starts
  twice. The hazards at `checkpoint.ts:18` and `controller.py:374` describe the rest.
* **BuildWorkflow.** Four scenarios. *Publication*: five children, two mutations in
  flight, and just enough transitions for PM, implementor, QA, test, QA and publication;
  with fewer roles done the rest goes to reopening and edits. *Lifecycle*: one mutation at
  a time, every operation on the family, requested changes. *Sessions*: two root turns,
  two PM children, one of whose leases may expire, edits that send the workflow back.
  *Testing*: two steps whose capabilities vanish and return.
* **SavedAgents.** Four workloads of up to five calls: creation under one name with
  a repeated call and a reused operation ID (the quota never refuses here what the name
  does not; that half of `OwnerLimits` rests on its theorem); two patches, one repeated,
  against publication; a revision against the activation of another version; agents
  that are archived, restored and renamed during a search with pages of one entry. In
  each a run may be admitted at any time. `CallsAtomic` is the refinement: what a call
  read may be out of date when it commits, and what the store compares then must be
  enough for the outcome to be that of a call made at that moment. That an operation is
  applied once, whoever repeats it, follows from the refinement; `OperationsAppliedOnce`
  proves it by itself.
* **SandboxCell.** Four workloads: two commands and a cancel; a command against a stop
  and a second open; writes, delete, stop and opens; two prewarms and a session. One
  crash, one lost connection, two attempts, a queue of two and a journal of two rows,
  so that the queue fills and rows are pruned.
* **ProjectLink.** Two conversations of two steps, two presets (one with a requirement
  and creation, one with neither), two resources, three binding IDs, one restart.
  `OneHistory` and `OneResourcePerKey` except bindings that were overwritten through
  an equal revision of another binding (`reborn`, see the hazards): what is lost that way
  they do not catch.

Every property of a passing run has a mutant in `PROJECT.json`: a small change of one
mapped definition (a dropped comparison, a missing wait, a lost reset) under which the
same run finds the property violated.

## 4. Fairness

`SessionLease!FairSpec`: timers fire (`Tick`, the backoff sleep), S3 serves what it
was sent, and an answer that has arrived is consumed. Callers owe nothing: renewing,
publishing and releasing are never forced, nor is any failure or crash.

`MicrovmSession!FairSpec`: time passes and timers fire. A lease with a deadline (that of a
create until `promote()`, and that of a clean-up) is never renewed beyond it and the lease of
a dead process is not renewed at all, so both run out; `bounded()` then rejects
(`CreateFails` of a create without its lease); and a capture or delete goes on once it has
its answer. Nothing says that AWS, S3 or the controller ever answers: `LaunchSettles` rests
on the deadline alone, and a create that looks at its lease only after the answer of AWS
(its mutant) violates it. A live holder with a handle keeps its lease, because `lease.ts`
renews it on a timer, so its `Expire` is a fault and is never forced. This is what makes
`StoppedHandleLetsGo` a question about the code and not about patience.

`SandboxCell!FairSpec`: cells work on, and requests that were sent arrive and are
answered. No client has to make a call, and no crash or lost connection is forced.

The other modules state safety only: nothing in the code makes a role, a client or
a conversation take its next step.

## 5. Proofs

TLC checks the instances of section 3; the theorems below hold for every value of the
constants, and so for any number of handles, conversations, calls, cells, retries and
failures. Each `Spec => []P` rests on an inductive invariant, built in layers so that
each layer is preserved given the ones before it.

Assumptions. Every module names what its proofs assume of the constants in its `ASSUME`s,
which TLC evaluates in the runs: types and bounds; that `Nothing` is not a value it
could be confused with; and, for the modules with workloads or scenarios, that a
workload is one a client can really issue (`WellFormed`, `WorkloadsOK`,
`WorkflowConstants`). Theorems with a further hypothesis say so.

### SessionLeaseProofs

| Theorem | Statement |
|---|---|
| `TypeCorrect` | `Spec => []TypeOK` |
| `NeverDowngraded` | `Spec => AuthorityNeverDowngraded` |
| `Fencing` | `Durable = Holders` implies `Spec => FencedAuthority`: the refinement |
| `Exclusive` | `Spec => []MutualExclusion` (the property itself assumes agreeing clocks) |
| `CurrentView` | `Spec => []HolderSeesAuthority` |
| `ExpiryCapped` | `Spec => []LaunchExpiryCapped` |
| `NeverRevived` | `Spec => ExpiredStaysExpired` |

None of these is inductive by itself: what S3 will accept next is decided by requests
sent long ago. The layers of `LeaseInvariant`:

1. `TypeOK` and `Etags`: nobody remembers an ETag that was not handed out yet, so a
   new one is really new.
2. `Exchange`: a holder awaits at most one write, and what it abandoned cannot be
   taken for the write it awaits now.
3. `Ownership`: a lease object carries its own holder's documents.
4. `Copies`: whoever remembers the current ETag remembers the current document.
5. `Justification`: a request whose condition matches the stored ETag is a takeover of
   an expired document, with the next generation and the same state, or a write
   by the holder the document names. This gives `NeverDowngraded` and `Fencing`
   without any assumption on clocks.
6. `Expiries`: no document outlives its holder's deadline or a full TTL. Gives
   `ExpiryCapped`.
7. `Claims`, under agreeing clocks: while its clock says "unexpired", a holder's copy
   is what S3 stores. A takeover needs an expired document, so two such holders would
   be the same one. Gives `Exclusive` and `CurrentView`.

### MicrovmSessionProofs

| Theorem | Statement |
|---|---|
| `SessionTypes` | `Spec => []TypeOK` |
| `RetriesAreIdentical` | `Spec => []SameTokenSameRequest` |
| `TerminationsHitNoOwner` | `Spec => []AdoptedNeverKilled` |
| `CheckpointIsKept` | `DeletesEnd` implies `Spec => []CheckpointPresent` |
| `CheckpointsAreLinear` | `DeletesEnd` implies `Spec => LinearHistory` |
| `RunningIsRemembered` | `DeletesEnd` implies `Spec => OnlyOwnersForget` |

`DeletesEnd` says that no world has the fault `survive`, a delete that cannot end its
MicroVM. The hypothesis is needed: with that fault `MicrovmSessionCommit` refutes
`LinearHistory`, in its fourth generation. With the three of `MicrovmSessionLaunch` no
counterexample is found; the attempt to prove the property showed what it takes.

1. `Names`: every launch identity in use anywhere was chosen under a generation that
   is not from the future, and the identity a holder will choose next is not in use.
   The launch in the authority is the one its holder is working on.
2. `Requests`: all RunMicrovm requests sent or about to be sent under one token agree
   with each other and with the authority. A takeover keeps the recorded request, and
   a new identity is fresh by layer 1.
3. `Terminations`: no termination is on its way to the MicroVM that a successor could adopt
   (`Adoptable`: one that the authority has not recorded yet), and only the holder itself
   may have ordered the end of the one it uses (`Alone`). This is what makes the write of
   `retireLateLaunch` come before its request.
4. `History`, under `DeletesEnd`: a holder that is not paused knows what the authority says
   and its MicroVM holds that checkpoint (`Current`); what a paused one will delete from
   S3 is nobody's checkpoint (`Erasing`).

### SandboxCellProofs

| Theorem | Statement |
|---|---|
| `CellTypes` | `Spec => []TypeOK` |
| `TemplatesAreKept` | `Spec => []SessionsKeepTemplate` |
| `AnswersAreTrue` | `Spec => []AnswersTrue` |
| `CommandsCommitOnce` | `Spec => []CommittedOnce` |
| `StopsAreBarriers` | `Spec => []StopBarrier` |

1. `Names`: what stands in a queue (`Queued`), which work belongs to its head (`Stages`),
   and which question to another cell it waits for (`Fetches`).
2. `Spaces`: the generations on disk, in memory and in handles (`Generations`, `Vias`), whose
   changes a cell may hold (`Files`), and that a template somebody has started from is
   on disk and was published once (`Published`, `Started`).
3. `Settlement` adds three facts about each command whose rows were not pruned: its rows
   belong to the cell's generation (`Journals`); in memory and on disk its row says
   "completed" exactly when its changes are in the files, and until it has committed it
   is queued or finished for good (`Executions`); and an answer is true of what is in
   memory while the gate holds it and of what is on disk once it left the cell
   (`Answered`). The proof goes over the *fate* of a command in a step (`Fate`: unmoved,
   accepted, begun, ended, outlived, interrupted, ...): every action is classified once
   and the invariant is shown once per fate.
4. `Barriers`: a command accepted before a stop stands in front of it in the queue.

### BuildWorkflowProofs

| Theorem | Statement |
|---|---|
| `WorkflowTypes` | `Spec => []TypeOK` |
| `PublicationIsTested` | `Spec => []PublishedWasTested` |
| `WorkflowFollowsDraft` | `Spec => []WorkflowTracksDraft` |
| `WorkIsAccountedFor` | `Spec => []AccountedWork` |
| `LeasesSubmitOnce` | `Spec => []OneSubmissionPerLease` |

`WorkflowInvariant` adds that every version and edit has cost a revision of the family
(`Revised`); that no grant or lease is ahead of the workflow (`Scoped`); that a lease has
used up a token of its own and is not open after its turn (`Tokens`); that a child that
has submitted holds a lease of a revision that is over, so it cannot again (`Submissions`); and
that evidence, a publication in waiting and every version name a draft with a complete
and finished test run and an approval (`Tested`, `Settled`). `SettledKept` is the lemma
that makes the last one inductive: steps are only begun under the current revision.

### SavedAgentsProofs

| Theorem | Statement |
|---|---|
| `SavedTypes` | `Spec => []TypeOK` |
| `OperationsAppliedOnce` | `Spec => []AppliedOnce` |
| `NoEditLost` | `Spec => []EditsKept` |
| `LimitsHold` | `Spec => []OwnerLimits` |
| `SearchesComplete` | `Spec => []PagesComplete` |
| `FamiliesOnlyGrow` | `Spec => HistoryGrows` |
| `RunsAreCurrent` | `Spec => RunsActiveVersion` |

`StoreInvariant` relates a call in progress to what it has read (`CallFits`, `CallBuilds`): when
the revision it read is still the family's, so is everything else it read. The ledger
holds an answer exactly when its operation was applied (`LedgerTrue`, `CallTold`). All
commits are instances of two shapes, an update of one family (`Updates`) and a new family
(`Adds`), for which the conjuncts are shown once.

`SearchFits` is the invariant of a search under way: what it has returned is in strictly
growing order of names; the cursor is the last entry returned; and whatever has been active
all along (`steady`) and does not come after the cursor is among it. So it does not
matter what came and went in front of the cursor, and when no page follows nothing is
missing. It needs that `List` is sorted and complete. A sort's correctness would be an
induction over data; `List` puts at place i the entry that i - 1 others precede, and
`RankGrows` and `RanksFill` show, by the cardinality of the sets of predecessors alone, that
these ranks are exactly 1 to the number of entries.

### AtomicAgentsProofs

| Theorem | Statement |
|---|---|
| `CallsAreAtomic` | `Spec => CallsAtomic`: the refinement |

Every step of a call is shown to be one abstract step or a stutter. `Begin` is `Ask` or
`TurnAway`; a replay hit is `Repeat`; a read that answers is `Refuse`, and `MovesAtomically`
shows that what was read does not allow the call; a commit is `Apply`, `Repeat` or `Refuse`
(`CommitsAtomically`). `AllowedWhenCurrent` is the heart of it: what the store checks
(`Current`, `Creatable`, the name) is exactly what the atomic call needs. That the outcome
is also the atomic one rests on `CallBuilds`: as long as the family has the revision that
was read, the fields a patch or a revision was computed from are still its fields.

### ProjectLinkProofs

| Theorem | Statement |
|---|---|
| `LinkTypes` | `Spec => []TypeOK` |
| `LinkOneHistory` | `Spec => []OneHistory` |
| `LinkOneResource` | `Spec => []OneResourcePerKey` |
| `LinkVouched` | `Spec => []Vouched` |

`LinkInvariant` says what a conversation between its read and its compare-and-swap has
(`Prepared`, `Based`: what it read was stored), that binding IDs are reserved before they
are stored (`Reserved`), and that the stored revision is the latest of its ID (`Latest`).

### MicrovmControllerProofs

| Theorem | Statement |
|---|---|
| `ControllerTypesHold` | `Spec => []TypeOK` |
| `CheckpointsAreComplete` | `LateIsRecognised` implies `Spec => []CheckpointComplete` |
| `OperationsLeaveNothing` | `LateIsRecognised` implies `Spec => []NothingLeftBehind` |

`LateIsRecognised` says that only `spawn`, `kill`, `upload` and `commit` requests may be carried
out after the client gave up on them: those that `controller.py` recognises by a request ID
or that change nothing the second time. It is the run's value of `Lingering` and it is
needed: with `release` or `restore` added TLC refutes `CheckpointComplete` (section 3).
What both properties leave out for a session with something `stranded` is explained there.

1. `Protocol`, whatever lingers: a request has an argument of its kind (`Fits`), nothing but
   health is asked before the run hook (`Quiet`), a checkpoint is prepared by one request
   before it is uploaded or committed (`Prepares`), and a process that is known was
   started once (`Starts`).
2. `Wired`, under the proviso: what is on the wire is the request the client waits for, at
   one stage, or a lingering one that nobody has handled. So an answer is never taken for
   that of another request.
3. `Made`, `Thawed` and `Safe`, whatever the client gave up on. An archive exists from the
   second half of its request to its commit, and no late commit is for the one a capture
   is about (`Made`). A frozen workload is in a capture that will end or release it, while
   no prepare or release was given up on and no capture failed between prepare and upload
   (`Thawed`). While no commit was given up on, a
   capture carries the known changes of files from the overlay to its archive and to the
   checkpoint, and a workspace that is not dirty has them published already (`Reached`,
   `Carried`): the changes that processes make meanwhile do not matter, as they are of
   other files.
4. `Kept`, while nothing is stranded: lingering requests are `Harmless`; a `Frozen` workload
   stands still in a capture that will commit or release it, and the `Archive` being made
   is of the overlay of that moment; `Progress` carries this to the publication; a
   workspace that is not dirty has nothing to lose (`Clean`), so that the previous
   checkpoint may stand for it; the overlay holds what the caller knows of (`Held`, `Told`);
   and no process's second change is there without its first (`Whole`).

Because clean and dirty captures meet in `Progress`, the invariant shows why `dirty` may only
be cleared by commit: between commit and termination the workload is still frozen.

### What stays with TLC

* Liveness: `AcquisitionEnds`, `LaunchSettles`, `EveryCallEnds`. Fairness and ENABLED are out of
  the prover's reach.
* Whatever is violated (section 6) is a counterexample on one instance, not a theorem.
* What the properties leave out for sessions with something `stranded`, worlds with fault
  `survive` and clocks that disagree, for the theorems that exclude them.

## 6. Where code and documents disagree

* **A stopped handle can keep the lease** (`MicrovmSessionStop`). `ensureActive()`
  takes the lease before it refuses an operation on a captured handle, and `stop()`
  does not give it back. The refusal tells the user to open a new handle, which then
  cannot get the lease.
* **A stale handle can publish** (`MicrovmSessionCommit`). `capture()` does not compare
  the authority's manifest etag with its own, as `delete()` does. After a checkpoint
  was published but not confirmed by the controller, and a delete that failed in
  TerminateMicrovm, the handle can come back after a successor and publish on top of
  a checkpoint that no longer is the session's. The package's README says stale
  holders cannot. The failed delete is what it takes: it releases the lease but leaves
  the handle active, and `ensureActive()` takes the lease again. Without it (`DeletesEnd`,
  section 5) `LinearHistory` is a theorem, whatever else fails.
* **Publication leaves the archive** (`BuildWorkflowArchive`). `#publishBuildWorkflow`
  does not look at the lifecycle, though the RFC's table names restore as the only
  way out and the direct publication path refuses archived families.
* **A deleted session's old handle can still write** (`SandboxCellFence`). A command's
  generation is checked on arrival, not when its turn comes. An open that waits in the
  queue in front of a delete resets `stopping`, so a command of an old handle is accepted
  behind the delete and behind a second open, and commits to the generation that open
  creates. The package's README says that delete fences old handles.

## 7. What is not modelled

* In `lease.ts`: nothing that changes state. Backoff times are a nondeterministic wait.
* In `backend.ts`: import of version-1 manifests and of `existingMetadata`, prewarm,
  concurrent calls on one handle, the revocation of proxy bindings (only its failure's
  effect on the flow is kept: the MicroVM is terminated and the call fails).
* In the controller: reading files and output, token renewal, paths, checksums and
  multipart parts, concurrent calls on one handle.
* In the builder: the contents of drafts and reports, ranking by query text, schema
  validation, retention of closed turns by age, prompts of the roles.
* In the celld sandbox: the container variant (its state is in a service outside the
  repository), reads, byte limits, what a command computes.
* Template provisioning and activation envelopes of the MicroVM package: sequences of
  idempotent AWS calls and a provider outside the repository.
* The packages listed in section 1 under "other packages", options validation,
  telemetry, the deterministic zip, release scripts and the e2e applications: no
  protocol state, except the message that `eve-progress` creates once and updates.

## 8. Plan

1. *Done*: the eight component modules, their runs, and the proofs of section 5.
2. *Done*: the refinement of the saved-agent service and the proof that searches are
   complete. Every safety property that a run checks is a theorem.
3. *Done*: what still holds of a session whose requests were given up on. Left:
   `TemplatesAreKept` as a refinement of a write-once register.
4. `Progress`: the Slack message that is created once and updated in event order.
