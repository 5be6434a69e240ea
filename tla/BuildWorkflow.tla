---------------------------- MODULE BuildWorkflow ----------------------------
(***************************************************************************)
(* One saved agent of packages/eve-agent-builder under its build workflow: *)
(* the family record and its draft, the PM -> implementor -> QA -> test    *)
(* phases, the bootstrap grants and execution leases of the child sessions *)
(* that do the work, and the test evidence that publication rests on.      *)
(*                                                                         *)
(* Every operation of the store is one transaction (#locked).  A mutation  *)
(* reads a snapshot in one step and commits against the revisions it read  *)
(* in a later one.  The snapshot is two store reads in the code; both      *)
(* revisions only grow and the commit compares both, so a torn snapshot    *)
(* can only be refused and one step stands for the two.  A caller that     *)
(* lost the answer repeats the call under the same operation ID.           *)
(*                                                                         *)
(* Content is named by (draft, revision): a draft's content changes only   *)
(* with its draftRevision.  Which fields a role may edit, what a handoff   *)
(* must have filled in and the uniqueness of names are left out: they only *)
(* refuse a call, which Answer does at any time.                           *)
(***************************************************************************)
EXTENDS Naturals, Sequences, FiniteSets

CONSTANTS
    Children,        \* child sessions; each is bootstrapped at most once
    RoleOf,          \* the role each child directory is mounted for
    Roots,           \* root-session tool calls in flight
    Turns,           \* root turns
    Steps,           \* tool calls of a test run
    CapabilityOf,    \* the capability each of them calls
    Required,        \* capabilities the draft requires; the others are optional
    Consequential,   \* capabilities that need a verified approval in a test
    Scenarios,       \* what may happen in a behaviour, see WorkflowConstants
    MaxTransitions,  \* transitions a workflow may record (256 in the code)
    MaxRevision      \* bound: family revisions

AllRootKinds == {"publish", "reopen", "patch_pm", "patch_impl", "patch_qa",
                 "archive", "restore", "delete", "revise", "activate"}
RoleResults == {"completed_handoff", "needs_user_input", "failed",
                "needs_test", "changes_requested", "approved"}
TestResults == {"passed", "input_required", "failed"}

ASSUME WorkflowConstants ==
    /\ RoleOf \in [Children -> {"pm", "implementor", "qa", "test_runner"}]
    /\ Children \cap Roots = {}
    /\ MaxTransitions \in Nat \ {0} /\ MaxRevision \in Nat \ {0}
    /\ \A s \in Scenarios :
         /\ s.workers \subseteq Children      \* the children that are started,
         /\ s.turns \subseteq Turns           \* the root turns that start them,
         /\ s.steps \subseteq Steps           \* the calls a test run makes,
         /\ s.slow \subseteq Children         \* the children whose lease may expire,
         /\ s.fickle \subseteq {CapabilityOf[x] : x \in Steps}  \* what may vanish,
         /\ s.kinds \subseteq AllRootKinds    \* the root mutations,
         /\ s.results \subseteq RoleResults   \* the role results
         /\ s.outcomes \subseteq {"succeeded", "failed", "cancelled"}  \* of turns,
         /\ s.maxCalls \in Nat               \* bound: mutations in flight,
         /\ s.maxTransitions \in 1..MaxTransitions

VARIABLES
    scenario,   \* the one of Scenarios that this behaviour follows
    gone,       \* capabilities the registry does not resolve at the moment
    family,     \* the family record and its published versions
    workflow,   \* BuildWorkflowRecord
    grants,     \* the bootstrap grant in each child's first message
    leases,     \* execution lease of each child session
    lapsed,     \* children whose lease expiresAt has passed
    closed,     \* closedParentTurns
    execs,      \* test capability executions of each child
    approvals,  \* verified test input for each child's steps
    call,       \* the mutation each actor has in flight
    applied,    \* commits of that operation; in the ledger when not 0
    submitted,  \* history: submissions committed under each child's lease
    approved    \* history: drafts QA approved

vars == <<scenario, gone, family, workflow, grants, leases, lapsed, closed, execs, approvals,
          call, applied, submitted, approved>>

Actors == Children \cup Roots
Capabilities == {CapabilityOf[s] : s \in Steps}

Drafts == [id : 1..MaxRevision, rev : 1..MaxRevision]
NoDraft == [id |-> 0, rev |-> 0]

Families ==
    [lifecycle : {"draft_only", "active", "archived", "deleted"},
     revision : 1..MaxRevision,
     draft : Drafts \cup {NoDraft},
     active : 0..MaxRevision]

Phases == {"pm_work", "pm_input", "implementation_work", "implementation_input",
           "qa_review", "qa_input", "test_pending", "publish_ready", "published",
           "terminal_failure"}

\* A test run is named by the workflow revision that asked for it.
Evidence == [status : TestResults \cup {"none"}, draft : Drafts \cup {NoDraft}]
NoEvidence == [status |-> "none", draft |-> NoDraft]

Workflows ==
    [phase : Phases, revision : 1..MaxTransitions, draft : Drafts,
     run : 0..MaxTransitions, evidence : Evidence, approval : Drafts \cup {NoDraft}]

\* The target and BuildExecutionScope of a grant or a lease.
Scopes == [draft : Drafts, revision : 1..MaxTransitions, run : 0..MaxTransitions]
NoGrant == [state |-> "none"]
Grants == [state : {"issued", "redeemed"}, scope : Scopes, turn : Turns]
Terminal == {"succeeded", "failed", "cancelled", "expired"}
Open == {"ready", "running"}
NoLease == [status |-> "none"]
Leases == [status : Open \cup Terminal, scope : Scopes, turn : Turns, grant : Children,
           plan : SUBSET Capabilities]

\* Of a started step the runner may have failed to resolve the capability:
\* "orphaned" is "started" to the store, and nothing will ever complete it.
Executions == {"none", "started", "orphaned", "succeeded", "failed"}

Idle == [kind |-> "idle"]
Calls == [kind : AllRootKinds \cup RoleResults \cup TestResults, changed : BOOLEAN,
          family : 1..MaxRevision, workflow : 1..MaxTransitions]

TypeOK ==
    /\ scenario \in Scenarios
    /\ gone \subseteq Capabilities
    /\ family \in [record : Families, versions : Seq(Drafts)]
    /\ workflow \in Workflows
    /\ grants \in [Children -> Grants \cup {NoGrant}]
    /\ leases \in [Children -> Leases \cup {NoLease}]
    /\ lapsed \subseteq Children
    /\ closed \subseteq Turns
    /\ execs \in [Children -> [Steps -> Executions]]
    /\ approvals \in [Children -> [Steps -> {"none", "given", "consumed"}]]
    /\ call \in [Actors -> Calls \cup {Idle}]
    /\ applied \in [Actors -> Nat]
    /\ submitted \in [Children -> Nat]
    /\ approved \subseteq Drafts

-----------------------------------------------------------------------------
(* Reading the store *)

fam == family.record

\* #liveRecord: archived families are live.
Live == fam.lifecycle # "deleted"

Scope == [draft |-> workflow.draft, revision |-> workflow.revision, run |-> workflow.run]

\* #targetIsCurrent for a draft target.
TargetIsCurrent(scope) ==
    fam.lifecycle \notin {"deleted", "archived"} /\ fam.draft = scope.draft

\* #workflowScopeIsCurrent
WorkflowScopeIsCurrent(scope) == scope = Scope

\* nextRole(): who works in a phase.
NextRole ==
    [p \in Phases |->
       CASE p \in {"pm_work", "pm_input"} -> "pm"
         [] p \in {"implementation_work", "implementation_input"} -> "implementor"
         [] p \in {"qa_review", "qa_input"} -> "qa"
         [] p = "test_pending" -> "test_runner"
         [] OTHER -> "nobody"]

\* #allocateBuildWorkflow makes family, draft and workflow in one transaction.
Init ==
    /\ scenario \in Scenarios /\ gone = {}
    /\ family = [record |-> [lifecycle |-> "draft_only", revision |-> 1,
                             draft |-> [id |-> 1, rev |-> 1], active |-> 0],
                 versions |-> <<>>]
    /\ workflow = [phase |-> "pm_work", revision |-> 1, draft |-> [id |-> 1, rev |-> 1],
                   run |-> 0, evidence |-> NoEvidence, approval |-> NoDraft]
    /\ grants = [c \in Children |-> NoGrant]
    /\ leases = [c \in Children |-> NoLease]
    /\ lapsed = {} /\ closed = {}
    /\ execs = [c \in Children |-> [s \in Steps |-> "none"]]
    /\ approvals = [c \in Children |-> [s \in Steps |-> "none"]]
    /\ call = [a \in Actors |-> Idle]
    /\ applied = [a \in Actors |-> 0]
    /\ submitted = [c \in Children |-> 0] /\ approved = {}

records == <<scenario, gone, family, workflow>>
sessions == <<grants, leases, lapsed, closed>>
tests == <<execs, approvals>>
calls == <<call, applied>>
history == <<submitted, approved>>

-----------------------------------------------------------------------------
(* The capability registry *)

\* RunnerCapabilityService.prepare() and the registry it asks: a capability that
\* is missing, disabled, unauthorized or has another schema does not resolve.
Resolves(k) == k \in Capabilities \ gone

\* unavailable(): what is required must resolve, what is optional is left out.
Preparable == \A k \in Required : Resolves(k)

\* The plan of a turn: the requirements of the draft for a test, nothing for
\* the roles that only edit.
PlanOf(role) == IF role = "test_runner" THEN {k \in Capabilities : Resolves(k)} ELSE {}

\* A capability vanishes from the registry, or is there again.  Only a test run
\* asks the registry, so changes at other times are left out.
RegistryChanges(k) ==
    /\ k \in scenario.fickle /\ workflow.phase = "test_pending"
    /\ gone' = IF k \in gone THEN gone \ {k} ELSE gone \cup {k}
    /\ UNCHANGED <<scenario, family, workflow, sessions, tests, calls, history>>

-----------------------------------------------------------------------------
(* Grants and leases *)

\* #snapshot: the workflow and the family as the root and the roles may use them.
Usable == Live /\ (workflow.phase # "published" => fam.draft = workflow.draft)

\* #next: the role that the phase calls for, if any.
NextStep(role) == Usable /\ NextRole[workflow.phase] = role

\* #targetExists for a draft target.
TargetExists(scope) == Live /\ fam.lifecycle # "archived" /\ fam.draft = scope.draft

\* prepareNext(): a grant is issued for the draft and the scope of the next step.
PrepareNext(role) == NextStep(role) /\ TargetExists(Scope)

\* BootstrapService.issue(): the grant of a fresh token.
GrantFor(scope, t) == [state |-> "issued", scope |-> scope, turn |-> t]

\* createBootstrapGrant(): the token is put in the first message of child c.
Issue(c, t) ==
    /\ grants[c] = NoGrant /\ c \in scenario.workers
    /\ PrepareNext(RoleOf[c])
    /\ t \notin closed
    /\ grants' = [grants EXCEPT ![c] = GrantFor(Scope, t)]
    /\ UNCHANGED <<records, leases, lapsed, closed, tests, calls, history>>

\* What the mount of a child offers it: redemption until it has a lease, then
\* nothing in the bootstrap turn, then the tools of its role.
Mounted(c) ==
    CASE leases[c] = NoLease -> "redeem"
      [] leases[c].status = "running" -> "role"
      [] OTHER -> "nothing"

\* What redeemBootstrapGrant() checks of a grant.
RedeemableMutant(g) ==
    /\ g.state = "issued"
    /\ TargetIsCurrent(g.scope) /\ WorkflowScopeIsCurrent(g.scope)

Redeemable(g) ==
    /\ g.state = "issued" /\ g.turn \notin closed
    /\ TargetIsCurrent(g.scope) /\ WorkflowScopeIsCurrent(g.scope)

\* BootstrapService.redeem(): the lease a grant turns into.
LeaseFor(d) == [status |-> "ready", scope |-> grants[d].scope, turn |-> grants[d].turn,
                grant |-> d, plan |-> {}]

\* redeemBootstrapGrant(): child c presents the token of d's message.
Redeem(c, d) ==
    /\ c \in scenario.workers /\ Mounted(c) = "redeem"
    /\ Redeemable(grants[d]) /\ RoleOf[c] = RoleOf[d]
    /\ grants' = [grants EXCEPT ![d].state = "redeemed"]
    /\ leases' = [leases EXCEPT ![c] = LeaseFor(d)]
    /\ UNCHANGED <<records, lapsed, closed, tests, calls, history>>

\* inspectRunnerTurn(): an execution turn finds the leased draft and the
\* capabilities it requires.  The registry is asked just before the claim; its
\* later changes do not matter to the claim, so the two are one step.
Inspected(c) ==
    /\ fam.draft = leases[c].scope.draft
    /\ RoleOf[c] = "test_runner" => Preparable

\* beginExecutionLease(): the turn claims the lease.  A lease past its expiry is
\* marked expired, whatever its status was.
Begin(c) ==
    /\ leases[c] # NoLease /\ Inspected(c)
    /\ \/ /\ c \in lapsed
          /\ leases' = [leases EXCEPT ![c].status = "expired"]
       \/ /\ c \notin lapsed /\ leases[c].status = "ready"
          /\ TargetIsCurrent(leases[c].scope) /\ WorkflowScopeIsCurrent(leases[c].scope)
          /\ leases' = [leases EXCEPT ![c].status = "running", ![c].plan = PlanOf(RoleOf[c])]
    /\ UNCHANGED <<records, grants, lapsed, closed, tests, calls, history>>

\* The lease hook of a child: a bootstrap turn that succeeds leaves the lease.
Settles(c, outcome) ==
    /\ leases[c].status \in Open
    /\ leases[c].status = "ready" /\ c \notin lapsed => outcome # "succeeded"

\* closeExecutionLease(): a turn of the child settled, or one of its capability
\* calls found the lease expired.
TurnSettled(c, outcome) ==
    /\ Settles(c, outcome)
    /\ leases' = [leases EXCEPT ![c].status = IF c \in lapsed THEN "expired" ELSE outcome]
    /\ UNCHANGED <<records, grants, lapsed, closed, tests, calls, history>>

\* The root hook: a root turn that completed ends what is left of it as well.
ParentOutcome(outcome) == IF outcome = "failed" THEN "failed" ELSE "cancelled"

\* closeParentTurnExecutionLeases(): a root turn settled.
ParentSettled(t) ==
    /\ t \notin closed
    /\ closed' = closed \cup {t}
    /\ \E outcome \in scenario.outcomes :
         leases' = [c \in Children |->
                      IF leases[c].status \in Open /\ leases[c].turn = t
                      THEN [leases[c] EXCEPT !.status = ParentOutcome(outcome)]
                      ELSE leases[c]]
    /\ UNCHANGED <<records, grants, lapsed, tests, calls, history>>

\* The expiry time of a lease passes.
Lapse(c) ==
    /\ leases[c] # NoLease /\ c \in scenario.slow \ lapsed
    /\ lapsed' = lapsed \cup {c}
    /\ UNCHANGED <<records, grants, leases, closed, tests, calls, history>>

\* #execution: the lease and the workflow agree that this child may submit.
AuthorisedMutant(c) == leases[c].status = "running" /\ leases[c].scope.draft = workflow.draft

Authorised(c) ==
    /\ Mounted(c) = "role"
    /\ WorkflowScopeIsCurrent(leases[c].scope)
    /\ fam.draft = workflow.draft

-----------------------------------------------------------------------------
(* Test capability steps *)

\* testStep(): the plan of the lease selects the capability of the step.
Selected(c, s) == RoleOf[c] = "test_runner" /\ CapabilityOf[s] \in leases[c].plan

\* lowerDurableCapabilities(): the steps that c has a tool for.
StepsOf(c) == {s \in scenario.steps : Mounted(c) = "role" /\ Selected(c, s)}

\* resolveDurableCapability(): the registry is asked anew, for this one step.
Resolved(s) == Resolves(CapabilityOf[s])

\* executeDurableCapability(): what is checked before the store is asked.
Executable(c, s) == s \in StepsOf(c) /\ c \notin lapsed

\* #validateTestStep and the expiry that begin and authorize check after it.
TestStep(c) ==
    /\ Mounted(c) = "role" /\ c \notin lapsed
    /\ workflow.phase = "test_pending" /\ WorkflowScopeIsCurrent(leases[c].scope)
    /\ Live /\ fam.draft = leases[c].scope.draft

\* requestDurableCapabilityApproval(): the user is asked about a step.  The
\* question leaves no trace in the store and the answer checks all of it again.
Asked(c, s) == s \in StepsOf(c) /\ CapabilityOf[s] \in Consequential

\* respondDurableCapabilityApproval(): the user's answer is heard.
Heard(c, s) == Asked(c, s) /\ Resolved(s)

\* authorizeTestInput(): the user approved this exact step.
AuthorizeTestInput(c, s) ==
    /\ Heard(c, s) /\ TestStep(c) /\ approvals[c][s] = "none"
    /\ approvals' = [approvals EXCEPT ![c][s] = "given"]
    /\ UNCHANGED <<records, sessions, execs, calls, history>>

\* beginTestCapabilityExecution().  executeDurableCapability() resolves the host
\* tool after the step was begun and outside the block that completes it.
BeginTest(c, s) ==
    /\ Executable(c, s) /\ TestStep(c) /\ execs[c][s] = "none"
    /\ CapabilityOf[s] \in Consequential => approvals[c][s] = "given"
    /\ execs' = [execs EXCEPT ![c][s] =
                   IF Resolved(s) THEN "started" ELSE "orphaned"]
    /\ approvals' = [approvals EXCEPT ![c][s] = IF @ = "given" THEN "consumed" ELSE @]
    /\ UNCHANGED <<records, sessions, calls, history>>

\* completeTestCapabilityExecution(): no further check of workflow or lease.
CompleteTest(c, s, status) ==
    /\ execs[c][s] = "started"
    /\ execs' = [execs EXCEPT ![c][s] = status]
    /\ UNCHANGED <<records, sessions, approvals, calls, history>>

-----------------------------------------------------------------------------
(* Mutations: called, perhaps repeated, committed *)

\* The submission tool of a role takes its own results.
ResultsOf(role) ==
    CASE role = "qa" -> (RoleResults \ {"completed_handoff"}) \cap scenario.results
      [] role = "test_runner" -> TestResults
      [] OTHER -> {"completed_handoff", "needs_user_input", "failed"} \cap scenario.results

\* #replay: the ledger holds the result of a's operation.
Recorded(a) == applied[a] > 0

Snapshot(kind, changed) == [kind |-> kind, changed |-> changed,
                            family |-> fam.revision, workflow |-> workflow.revision]

\* #submitRole and recordTestResult() read lease, workflow and family.
RoleMayCall(c) == Live /\ Authorised(c) /\ c \notin lapsed

\* publish() and reopen() need the draft of a workflow that has not published.
Publishable == Usable /\ workflow.phase # "published"

Readable(a, kind) ==
    CASE a \in Children -> RoleMayCall(a)
      [] kind \in {"publish", "reopen"} -> Publishable
      [] OTHER -> Live

\* #prepareMutation and the snapshot of a new mutation.  occurredAt is taken
\* here, so a lease that expires before the commit is not noticed by it.
Call(a, kind, changed) ==
    /\ call[a] = Idle
    /\ Cardinality({b \in Actors : call[b] # Idle}) < scenario.maxCalls
    /\ call' = [call EXCEPT ![a] = Snapshot(kind, changed)]
    /\ UNCHANGED <<records, sessions, tests, applied, history>>

\* submitPm(), submitImplementor() and submitQa(), with or without an edit.
CallRole(c) ==
    /\ RoleOf[c] # "test_runner" /\ RoleMayCall(c)
    /\ \E result \in ResultsOf(RoleOf[c]), changed \in BOOLEAN : Call(c, result, changed)

\* recordTestResult()
CallTest(c) ==
    /\ RoleOf[c] = "test_runner" /\ RoleMayCall(c)
    /\ \E status \in ResultsOf("test_runner") : Call(c, status, FALSE)

\* workflow_publish: the user has approved the call, or the host's policy has.
CallPublish(r) == "publish" \in scenario.kinds /\ Publishable /\ Call(r, "publish", FALSE)

\* workflow_reopen
CallReopen(r) == "reopen" \in scenario.kinds /\ Publishable /\ Call(r, "reopen", FALSE)

\* The mutations of the family as such (see SavedAgents).
CallFamily(r) ==
    \E kind \in scenario.kinds \ {"publish", "reopen"} : Live /\ Call(r, kind, FALSE)

\* The answer was lost and the same operation is made again.
Repeat(a) ==
    /\ call[a] # Idle /\ ~Recorded(a) /\ Readable(a, call[a].kind)
    /\ call' = [call EXCEPT ![a] = Snapshot(@.kind, @.changed)]
    /\ call' # call
    /\ UNCHANGED <<records, sessions, tests, applied, history>>

\* An error, or the recorded result, is returned.
Answer(a) ==
    /\ call[a] # Idle
    /\ call' = [call EXCEPT ![a] = Idle]
    /\ applied' = [applied EXCEPT ![a] = 0]
    /\ UNCHANGED <<records, sessions, tests, history>>

\* mutate(): the transaction of a's call, once per operation.
Committing(a, kinds) ==
    /\ call[a].kind \in kinds /\ ~Recorded(a)
    /\ Live
    /\ applied' = [applied EXCEPT ![a] = @ + 1]
    /\ UNCHANGED <<scenario, gone, sessions, tests, call>>

SameFamily(a) == call[a].family = fam.revision
SameWorkflow(a) == call[a].workflow = workflow.revision

\* The next workflow record; one that is full of transitions fails its schema.
Advance(phase, draft, run, evidence, approval) ==
    /\ workflow.revision < scenario.maxTransitions
    /\ workflow' = [phase |-> phase, revision |-> workflow.revision + 1, draft |-> draft,
                    run |-> run, evidence |-> evidence, approval |-> approval]

\* #saveFamily: every saved record has the next revision.
Save(record) ==
    /\ fam.revision < MaxRevision
    /\ family' = [family EXCEPT !.record = [record EXCEPT !.revision = @ + 1]]

\* draftRevision of an edited draft.
EditedMutant == [fam.draft EXCEPT !.rev = @ + 2]

Edited == [fam.draft EXCEPT !.rev = @ + 1]

-----------------------------------------------------------------------------
(* The commits of the build roles *)

\* #nextRolePhase
NextPhase(role, result) ==
    CASE result = "failed" -> "terminal_failure"
      [] result = "needs_user_input" ->
           (CASE role = "pm" -> "pm_input" [] role = "implementor" -> "implementation_input"
              [] OTHER -> "qa_input")
      [] result = "completed_handoff" ->
           (IF role = "pm" THEN "implementation_work" ELSE "qa_review")
      [] result = "needs_test" -> "test_pending"
      [] result = "changes_requested" -> "implementation_work"
      [] OTHER -> "publish_ready"

\* QA approves exactly the draft that passed.
Approvable(draft) == workflow.evidence = [status |-> "passed", draft |-> draft]

\* #roleResultAllowed, and that the phase is the role's.
Submittable(role, result) ==
    /\ NextRole[workflow.phase] = role
    /\ role = "qa" \/ result \in {"completed_handoff", "needs_user_input", "failed"}

\* The workflow that a submission leaves: evidence, approval and the test run
\* are dropped unless QA looked at this very content and asked for no change.
Submitted(role, result, draft, changed) ==
    LET cleared == role # "qa" \/ result \in {"needs_test", "changes_requested"} \/ changed
    IN  Advance(NextPhase(role, result), draft,
                CASE result = "needs_test" -> workflow.revision + 1
                  [] cleared -> 0 [] OTHER -> workflow.run,
                IF cleared THEN NoEvidence ELSE workflow.evidence,
                CASE result = "approved" -> draft [] cleared -> NoDraft
                  [] OTHER -> workflow.approval)

\* #submitBuildRole
SubmitRole(c) ==
    LET result == call[c].kind
        changed == call[c].changed
        draft == IF changed THEN Edited ELSE fam.draft
    IN  /\ RoleOf[c] # "test_runner" /\ Committing(c, RoleResults)
        /\ SameFamily(c) /\ SameWorkflow(c) /\ Authorised(c)
        /\ Submittable(RoleOf[c], result)
        /\ result = "approved" => ~changed /\ Approvable(draft)
        /\ Submitted(RoleOf[c], result, draft, changed)
        /\ IF changed THEN Save([fam EXCEPT !.draft = draft]) ELSE family' = family
        /\ submitted' = [submitted EXCEPT ![c] = @ + 1]
        /\ approved' = IF result = "approved" THEN approved \cup {draft} ELSE approved

\* The status #recordBuildTest gives a run that was reported as "passed".
RunStatusMutant(c, reported) ==
    IF reported # "passed" THEN reported
    ELSE IF \E s \in Steps : execs[c][s] = "failed" THEN "failed" ELSE "passed"

RunStatus(c, reported) ==
    CASE reported = "input_required" -> "input_required"
      [] /\ reported = "passed"
         /\ \A k \in Required : \E s \in Steps : CapabilityOf[s] = k /\ execs[c][s] = "succeeded"
         /\ \A s \in Steps : execs[c][s] \in {"none", "succeeded"} -> "passed"
      [] OTHER -> "failed"

\* #recordBuildTest: the family revision is not compared.
RecordTest(c) ==
    /\ RoleOf[c] = "test_runner" /\ Committing(c, TestResults)
    /\ SameWorkflow(c) /\ Authorised(c)
    /\ workflow.phase = "test_pending"
    /\ Advance("qa_review", workflow.draft, workflow.run,
               [status |-> RunStatus(c, call[c].kind), draft |-> workflow.draft],
               workflow.approval)
    /\ submitted' = [submitted EXCEPT ![c] = @ + 1]
    /\ UNCHANGED <<family, approved>>

-----------------------------------------------------------------------------
(* The commits of the root *)

\* #reopenBuildWorkflow
Reopen(r) ==
    /\ Committing(r, {"reopen"})
    /\ SameFamily(r) /\ SameWorkflow(r)
    /\ workflow.phase = "publish_ready" /\ workflow.draft = fam.draft
    /\ Advance("pm_work", workflow.draft, 0, NoEvidence, NoDraft)
    /\ UNCHANGED <<family, history>>

\* #publishBuildWorkflow: the lifecycle is not looked at beyond #liveRecord.
Publish(r) ==
    /\ Committing(r, {"publish"})
    /\ SameFamily(r) /\ SameWorkflow(r)
    /\ workflow.phase = "publish_ready" /\ workflow.draft = fam.draft
    /\ workflow.approval = fam.draft /\ workflow.evidence.draft = fam.draft
    /\ Advance("published", workflow.draft, workflow.run, workflow.evidence, workflow.approval)
    /\ fam.revision < MaxRevision
    /\ family' = [record |-> [lifecycle |-> "active", revision |-> fam.revision + 1,
                              draft |-> NoDraft, active |-> Len(family.versions) + 1],
                  versions |-> Append(family.versions, fam.draft)]
    /\ UNCHANGED history

\* #patchDraft: an edit of the draft the workflow works on sends it back to the
\* role whose fields changed.
PatchMutant(r) ==
    /\ Committing(r, {"patch_pm", "patch_impl", "patch_qa"}) /\ SameFamily(r)
    /\ fam.draft # NoDraft /\ fam.lifecycle # "archived"
    /\ Save([fam EXCEPT !.draft = Edited])
    /\ UNCHANGED <<workflow, history>>

Patch(r) ==
    /\ Committing(r, {"patch_pm", "patch_impl", "patch_qa"}) /\ SameFamily(r)
    /\ fam.draft # NoDraft /\ fam.lifecycle # "archived"
    /\ IF workflow.draft = fam.draft
       THEN Advance(CASE call[r].kind = "patch_pm" -> "pm_work"
                      [] call[r].kind = "patch_impl" -> "implementation_work"
                      [] OTHER -> "qa_review", Edited, 0, NoEvidence, NoDraft)
       ELSE workflow' = workflow
    /\ Save([fam EXCEPT !.draft = Edited])
    /\ UNCHANGED history

\* #beginRevision: a new draft, which no workflow works on.
BeginRevision(r) ==
    /\ Committing(r, {"revise"}) /\ SameFamily(r)
    /\ fam.lifecycle = "active" /\ fam.draft = NoDraft
    /\ Save([fam EXCEPT !.draft = [id |-> fam.revision + 1, rev |-> 1]])
    /\ UNCHANGED <<workflow, history>>

\* #activateVersion
ActivateVersion(r) ==
    /\ Committing(r, {"activate"}) /\ SameFamily(r)
    /\ fam.lifecycle = "active"
    /\ \E v \in 1..Len(family.versions) : Save([fam EXCEPT !.active = v])
    /\ UNCHANGED <<workflow, history>>

\* #archiveFamily, #restoreFamily and #deleteFamily
Archive(r) ==
    /\ Committing(r, {"archive"}) /\ SameFamily(r)
    /\ fam.lifecycle \in {"active", "draft_only"}
    /\ Save([fam EXCEPT !.lifecycle = "archived"])
    /\ UNCHANGED <<workflow, history>>

Restore(r) ==
    /\ Committing(r, {"restore"}) /\ SameFamily(r)
    /\ fam.lifecycle = "archived"
    /\ Save([fam EXCEPT !.lifecycle = IF fam.active = 0 THEN "draft_only" ELSE "active"])
    /\ UNCHANGED <<workflow, history>>

Delete(r) ==
    /\ Committing(r, {"delete"}) /\ SameFamily(r)
    /\ Save([fam EXCEPT !.lifecycle = "deleted"])
    /\ UNCHANGED <<workflow, history>>

-----------------------------------------------------------------------------
Next ==
    \/ \E c \in Children :
         \/ \E t \in scenario.turns : Issue(c, t)
         \/ \E d \in Children : Redeem(c, d)
         \/ Begin(c) \/ Lapse(c)
         \/ \E o \in scenario.outcomes : TurnSettled(c, o)
         \/ \E s \in Steps : AuthorizeTestInput(c, s) \/ BeginTest(c, s)
         \/ \E s \in Steps, status \in {"succeeded", "failed"} : CompleteTest(c, s, status)
         \/ CallRole(c) \/ CallTest(c)
         \/ SubmitRole(c) \/ RecordTest(c)
    \/ \E t \in scenario.turns : ParentSettled(t)
    \/ \E k \in Capabilities : RegistryChanges(k)
    \/ \E a \in Actors : Repeat(a) \/ Answer(a)
    \/ \E r \in Roots :
         \/ CallPublish(r) \/ CallReopen(r) \/ CallFamily(r)
         \/ Reopen(r) \/ Publish(r) \/ Patch(r) \/ BeginRevision(r)
         \/ ActivateVersion(r) \/ Archive(r) \/ Restore(r) \/ Delete(r)

Spec == Init /\ [][Next]_vars

-----------------------------------------------------------------------------
(* Properties *)

\* A test run of this very content used every required capability with success
\* and left no step failed or unfinished.
PassedRun(draft) ==
    \E c \in Children :
        /\ RoleOf[c] = "test_runner" /\ leases[c] # NoLease /\ leases[c].scope.draft = draft
        /\ \A k \in Required : \E s \in Steps :
              CapabilityOf[s] = k /\ execs[c][s] = "succeeded"
        /\ \A s \in Steps : execs[c][s] \in {"none", "succeeded"}

\* What is published, and what waits for publication, is content that a test
\* run exercised in full and QA approved, whatever edits, repeated calls and
\* late submissions there were (#publishBuildWorkflow and all that leads to it).
PublishedWasTested ==
    \A draft \in {family.versions[i] : i \in 1..Len(family.versions)}
                 \cup {d \in {workflow.draft} : workflow.phase = "publish_ready"} :
        PassedRun(draft) /\ draft \in approved

\* The workflow works on the family's current draft until it has published: an
\* edit through any path moves both records together.
WorkflowTracksDraft ==
    Live /\ workflow.phase # "published" => workflow.draft = fam.draft

\* A child at work was started by a root turn that has not settled, with a token
\* of its own: when a turn settles nothing it started goes on, nothing starts
\* later from a grant that was still on its way, and no token starts two.
AccountedWork ==
    \A c \in Children : leases[c].status \in Open =>
        /\ leases[c].turn \notin closed
        /\ \A d \in Children \ {c} : leases[d] # NoLease => leases[d].grant # leases[c].grant

\* Under one lease at most one submission takes effect: the workflow revision it
\* was issued for is gone once it has.
OneSubmissionPerLease == \A c \in Children : submitted[c] <= 1

\* Restoring is the only way out of the archive short of deletion.
OnlyRestoreUnarchives ==
    [][fam.lifecycle = "archived" /\ fam'.lifecycle = "active" => family.versions = family'.versions]_vars
=============================================================================
