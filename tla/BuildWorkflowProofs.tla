------------------------ MODULE BuildWorkflowProofs ------------------------
(* Proofs about BuildWorkflow for every set of children, roots, turns and  *)
(* test steps, whatever the roles, the requirements and the scenarios.     *)
EXTENDS BuildWorkflow, TLAPS

-----------------------------------------------------------------------------
(* The inductive invariant *)

\* Every version and every edit of a draft has cost a revision of the family.
Revised == Len(family.versions) < fam.revision /\ fam.draft.rev <= fam.revision

\* A grant or a lease was issued for the workflow as it is, or as it was.
Scoped ==
    \A c \in Children :
      /\ grants[c] # NoGrant => grants[c].scope.revision <= workflow.revision
      /\ leases[c] # NoLease => leases[c].scope.revision <= workflow.revision

\* A lease has used up a token, its own.
Tokens ==
    \A c \in Children : leases[c] # NoLease =>
      /\ grants[leases[c].grant].state = "redeemed"
      /\ leases[c].status \in Open => leases[c].turn \notin closed
      /\ \A d \in Children \ {c} : leases[d] # NoLease => leases[d].grant # leases[c].grant

\* A child that has submitted holds a lease for a workflow revision that is over.
Submissions ==
    \A c \in Children : submitted[c] # 0 =>
      submitted[c] = 1 /\ leases[c] # NoLease /\ leases[c].scope.revision < workflow.revision

\* The contents with a test run that passed, and to which no step can be added any more.
Settled ==
    {draft \in Drafts : \E c \in Children :
      /\ RoleOf[c] = "test_runner" /\ leases[c] # NoLease /\ leases[c].scope.draft = draft
      /\ \A k \in Required : \E s \in Steps : CapabilityOf[s] = k /\ execs[c][s] = "succeeded"
      /\ \A s \in Steps : execs[c][s] \in {"none", "succeeded"}
      /\ leases[c].scope.revision < workflow.revision}

\* What was tested and approved, from the evidence to the versions.
Tested ==
    /\ workflow.evidence.status = "passed" => workflow.evidence.draft \in Settled
    /\ workflow.phase = "publish_ready" => workflow.draft \in Settled \cap approved
    /\ \A i \in 1..Len(family.versions) : family.versions[i] \in Settled \cap approved

WorkflowInvariant ==
    /\ TypeOK /\ Revised /\ Scoped /\ Tokens /\ Submissions /\ Tested
    /\ WorkflowTracksDraft

-----------------------------------------------------------------------------
(* What stays tested *)

\* What is settled stays settled when leases keep their scopes, the workflow does not go
\* back and steps are only begun under the current revision.
LEMMA SettledKept ==
    ASSUME TypeOK, TypeOK', workflow.revision <= workflow'.revision,
           \A c \in Children : leases[c] # NoLease => leases'[c] # NoLease /\ leases'[c].scope = leases[c].scope,
           \A c \in Children, s \in Steps :
             \/ execs'[c][s] = execs[c][s] \/ execs[c][s] = "started"
             \/ execs[c][s] = "none" /\ leases[c].scope.revision = workflow.revision
    PROVE  Settled \subseteq Settled'
<1>. SUFFICES ASSUME NEW draft \in Settled PROVE draft \in Settled'
  OBVIOUS
<1>1. PICK c \in Children :
        /\ RoleOf[c] = "test_runner" /\ leases[c] # NoLease /\ leases[c].scope.draft = draft
        /\ \A k \in Required : \E s \in Steps : CapabilityOf[s] = k /\ execs[c][s] = "succeeded"
        /\ \A s \in Steps : execs[c][s] \in {"none", "succeeded"}
        /\ leases[c].scope.revision < workflow.revision
  BY DEF Settled
<1>2. leases[c].scope.revision \in Nat /\ workflow.revision \in Nat /\ workflow'.revision \in Nat
  BY <1>1, WorkflowConstants DEF TypeOK, Leases, Scopes, Workflows
<1>3. \A s \in Steps : execs'[c][s] = execs[c][s]
  BY <1>1, <1>2
<1>4. leases'[c] # NoLease /\ leases'[c].scope = leases[c].scope /\ leases'[c].scope.revision < workflow'.revision
  BY <1>1, <1>2
<1>. QED
  BY <1>1, <1>3, <1>4 DEF Settled

-----------------------------------------------------------------------------
(* Steps of the child sessions *)

\* A step of grants and leases that keeps the scopes and the tokens.
LEMMA SessionStep ==
    ASSUME WorkflowInvariant, UNCHANGED <<records, tests, calls, history>>,
           grants' \in [Children -> Grants \cup {NoGrant}], leases' \in [Children -> Leases \cup {NoLease}],
           lapsed' \subseteq Children, closed' \subseteq Turns,
           \A c \in Children : leases[c] # NoLease => leases'[c] # NoLease /\ leases'[c].scope = leases[c].scope,
           Scoped', Tokens'
    PROVE  WorkflowInvariant'
<1>1. UNCHANGED <<scenario, gone, family, workflow, execs, approvals, call, applied, submitted, approved>>
  BY DEF records, tests, calls, history
<1>2. TypeOK'
  BY <1>1 DEF WorkflowInvariant, TypeOK
<1>3. workflow.revision <= workflow'.revision
  BY <1>1, WorkflowConstants DEF WorkflowInvariant, TypeOK, Workflows
<1>4. Settled \subseteq Settled'
  BY <1>1, <1>2, <1>3, SettledKept DEF WorkflowInvariant
<1>5. Tested'
  BY <1>1, <1>4 DEF WorkflowInvariant, Tested
<1>6. Submissions'
  BY <1>1 DEF WorkflowInvariant, Submissions
<1>7. Revised' /\ WorkflowTracksDraft'
  BY <1>1 DEF WorkflowInvariant, Revised, WorkflowTracksDraft, fam, Live
<1>. QED
  BY <1>2, <1>5, <1>6, <1>7 DEF WorkflowInvariant

LEMMA IssueKeeps ==
    ASSUME WorkflowInvariant, NEW c \in Children, NEW t \in Turns, Issue(c, t)
    PROVE  WorkflowInvariant'
<1>1. /\ grants[c] = NoGrant /\ grants' = [grants EXCEPT ![c] = GrantFor(Scope, t)]
      /\ UNCHANGED <<records, leases, lapsed, closed, tests, calls, history>>
  BY DEF Issue
<1>2. Scope \in Scopes /\ Scope.revision = workflow.revision
  BY DEF WorkflowInvariant, TypeOK, Scope, Scopes, Workflows
<1>3. /\ GrantFor(Scope, t) \in Grants /\ GrantFor(Scope, t).state = "issued"
      /\ GrantFor(Scope, t).scope = Scope
  BY <1>2 DEF GrantFor, Grants
<1>4. grants \in [Children -> Grants \cup {NoGrant}] /\ UNCHANGED workflow
  BY <1>1 DEF WorkflowInvariant, TypeOK, records
<1>5. grants' \in [Children -> Grants \cup {NoGrant}]
  BY <1>1, <1>3, <1>4
<1>6. workflow.revision \in Nat
  BY WorkflowConstants DEF WorkflowInvariant, TypeOK, Workflows
<1>7. Scoped'
  BY <1>1, <1>2, <1>3, <1>4, <1>6 DEF WorkflowInvariant, Scoped
<1>8. Tokens'
  <2>1. \A d \in Children : leases[d] # NoLease => leases[d].grant # c /\ leases[d].grant \in Children
    BY <1>1 DEF WorkflowInvariant, Tokens, NoGrant, TypeOK, Leases
  <2>. QED
    BY <1>1, <1>4, <2>1 DEF WorkflowInvariant, Tokens
<1>. QED
  BY <1>1, <1>5, <1>7, <1>8, SessionStep DEF WorkflowInvariant, TypeOK

\* A token is presented once, before its turn is closed.
LEMMA RedeemKeeps ==
    ASSUME WorkflowInvariant, NEW c \in Children, NEW d \in Children, Redeem(c, d)
    PROVE  WorkflowInvariant'
<1>1. /\ leases[c] = NoLease /\ grants[d].state = "issued" /\ grants[d].turn \notin closed
      /\ grants' = [grants EXCEPT ![d].state = "redeemed"]
      /\ leases' = [leases EXCEPT ![c] = LeaseFor(d)]
      /\ UNCHANGED <<records, lapsed, closed, tests, calls, history>>
  BY DEF Redeem, Mounted, Redeemable
<1>2. /\ grants \in [Children -> Grants \cup {NoGrant}] /\ leases \in [Children -> Leases \cup {NoLease}]
      /\ UNCHANGED workflow
  BY <1>1 DEF WorkflowInvariant, TypeOK, records
<1>3. grants[d] \in Grants /\ grants[d] # NoGrant
  BY <1>1, <1>2 DEF NoGrant
<1>4. /\ LeaseFor(d) \in Leases /\ LeaseFor(d).scope = grants[d].scope /\ LeaseFor(d).turn = grants[d].turn
      /\ LeaseFor(d).grant = d
  BY <1>3 DEF LeaseFor, Leases, Grants, Open
<1>5. LeaseFor(d) # NoLease
  BY <1>4 DEF NoLease, Leases, Open, Terminal
<1>. DEFINE g == [grants[d] EXCEPT !.state = "redeemed"]
<1>6. /\ g \in Grants /\ g # NoGrant /\ g.scope = grants[d].scope /\ g.state = "redeemed"
      /\ grants' = [grants EXCEPT ![d] = g]
  BY <1>1, <1>2, <1>3 DEF Grants, NoGrant
<1>. HIDE DEF g
<1>7. grants' \in [Children -> Grants \cup {NoGrant}] /\ leases' \in [Children -> Leases \cup {NoLease}]
  BY <1>1, <1>2, <1>4, <1>6
<1>8. /\ grants'[d] = g /\ \A e \in Children : e # d => grants'[e] = grants[e]
      /\ leases'[c] = LeaseFor(d) /\ \A e \in Children : e # c => leases'[e] = leases[e]
  BY <1>1, <1>2, <1>6
<1>9. Scoped'
  BY <1>2, <1>3, <1>4, <1>6, <1>8 DEF WorkflowInvariant, Scoped
<1>10. \A e \in Children : leases[e] # NoLease => leases[e].grant # d /\ leases[e].grant \in Children
  BY <1>1, <1>2 DEF WorkflowInvariant, Tokens, Leases
<1>11. Tokens'
  <2>. SUFFICES ASSUME NEW e \in Children, leases'[e] # NoLease
                PROVE  /\ grants'[leases'[e].grant].state = "redeemed"
                       /\ leases'[e].status \in Open => leases'[e].turn \notin closed'
                       /\ \A f \in Children \ {e} : leases'[f] # NoLease => leases'[f].grant # leases'[e].grant
    BY DEF Tokens
  <2>1. CASE e = c
    BY <1>1, <1>4, <1>6, <1>8, <1>10, <2>1
  <2>2. CASE e # c
    BY <1>1, <1>4, <1>8, <1>10, <2>2 DEF WorkflowInvariant, Tokens
  <2>. QED
    BY <2>1, <2>2
<1>12. \A e \in Children : leases[e] # NoLease => leases'[e] # NoLease /\ leases'[e].scope = leases[e].scope
  BY <1>1, <1>8
<1>. QED
  BY <1>1, <1>7, <1>9, <1>11, <1>12, SessionStep DEF WorkflowInvariant, TypeOK

\* A lease changes its status, and no lease is opened again.
LEMMA StatusKeeps ==
    ASSUME WorkflowInvariant, UNCHANGED <<records, grants, tests, calls, history>>,
           leases' \in [Children -> Leases \cup {NoLease}], lapsed' \subseteq Children,
           closed' \subseteq Turns,
           \A c \in Children :
             \/ leases'[c] = leases[c] /\ (leases[c].status \in Open => leases[c].turn \notin closed')
             \/ /\ leases[c] # NoLease /\ leases'[c] # NoLease /\ leases'[c].scope = leases[c].scope
                /\ leases'[c].grant = leases[c].grant /\ leases'[c].turn = leases[c].turn
                /\ leases'[c].status \in Open =>
                     leases[c].status \in Open /\ leases[c].turn \notin closed'
    PROVE  WorkflowInvariant'
<1>1. \A c \in Children : leases[c] # NoLease <=> leases'[c] # NoLease
  OBVIOUS
<1>2. \A c \in Children : leases[c] # NoLease => /\ leases'[c].scope = leases[c].scope
                                                 /\ leases'[c].grant = leases[c].grant
  OBVIOUS
<1>3. \A c \in Children : leases'[c].status \in Open => leases'[c].turn \notin closed'
  OBVIOUS
<1>4. UNCHANGED <<workflow, grants>>
  BY DEF records
<1>5. Scoped'
  BY <1>1, <1>2, <1>4 DEF WorkflowInvariant, Scoped
<1>6. Tokens'
  BY <1>1, <1>2, <1>3, <1>4 DEF WorkflowInvariant, Tokens
<1>. QED
  BY <1>1, <1>2, <1>4, <1>5, <1>6, SessionStep DEF WorkflowInvariant, TypeOK

LEMMA BeginKeeps ==
    ASSUME WorkflowInvariant, NEW c \in Children,
           Begin(c) \/ (\E o \in scenario.outcomes : TurnSettled(c, o)) \/ Lapse(c)
    PROVE  WorkflowInvariant'
<1>1. /\ leases \in [Children -> Leases \cup {NoLease}] /\ lapsed \subseteq Children /\ closed \subseteq Turns
      /\ scenario.outcomes \subseteq Terminal
  BY WorkflowConstants DEF WorkflowInvariant, TypeOK, Terminal
<1>2. \A e \in Children : leases[e].status \in Open => leases[e] # NoLease /\ leases[e].turn \notin closed
  BY DEF WorkflowInvariant, Tokens, NoLease, Open
<1>3. ASSUME NEW l \in Leases, leases' = [leases EXCEPT ![c] = l], leases[c] # NoLease,
             l.scope = leases[c].scope, l.grant = leases[c].grant, l.turn = leases[c].turn,
             l.status \in Open => leases[c].status \in Open,
             UNCHANGED <<records, grants, lapsed, closed, tests, calls, history>>
      PROVE  WorkflowInvariant'
  <2>1. l # NoLease
    BY DEF Leases, NoLease, Open, Terminal
  <2>2. leases' \in [Children -> Leases \cup {NoLease}]
    BY <1>1, <1>3
  <2>3. leases'[c] = l /\ \A e \in Children : e # c => leases'[e] = leases[e]
    BY <1>1, <1>3
  <2>. QED
    BY <1>1, <1>2, <1>3, <2>1, <2>2, <2>3, StatusKeeps
<1>4. ASSUME NEW x \in Open \cup Terminal, leases[c] # NoLease,
             leases' = [leases EXCEPT ![c].status = x], x \in Open => leases[c].status \in Open,
             UNCHANGED <<records, grants, lapsed, closed, tests, calls, history>>
      PROVE  WorkflowInvariant'
  <2>. DEFINE l == [leases[c] EXCEPT !.status = x]
  <2>1. /\ l \in Leases /\ leases' = [leases EXCEPT ![c] = l] /\ l.status = x
        /\ l.scope = leases[c].scope /\ l.grant = leases[c].grant /\ l.turn = leases[c].turn
    BY <1>1, <1>4 DEF Leases
  <2>. HIDE DEF l
  <2>. QED
    BY <1>3, <1>4, <2>1
<1>5. CASE Begin(c)
  <2>1. CASE leases' = [leases EXCEPT ![c].status = "expired"]
    BY <1>4, <1>5, <2>1 DEF Begin, Terminal, Open
  <2>2. CASE leases[c].status = "ready" /\ leases' = [leases EXCEPT ![c].status = "running", ![c].plan = PlanOf(RoleOf[c])]
    <3>. DEFINE p == PlanOf(RoleOf[c])
                l == [leases[c] EXCEPT !.status = "running", !.plan = p]
    <3>1. p \subseteq Capabilities
      BY DEF PlanOf
    <3>. HIDE DEF p
    <3>2. /\ l \in Leases /\ leases' = [leases EXCEPT ![c] = l] /\ l.status = "running"
          /\ l.scope = leases[c].scope /\ l.grant = leases[c].grant /\ l.turn = leases[c].turn
      BY <1>1, <1>5, <2>2, <3>1 DEF Begin, Leases, Open, p
    <3>. HIDE DEF l
    <3>. QED
      BY <1>3, <1>5, <2>2, <3>2 DEF Begin, Open
  <2>. QED
    BY <1>5, <2>1, <2>2 DEF Begin
<1>6. ASSUME NEW o \in scenario.outcomes, TurnSettled(c, o) PROVE WorkflowInvariant'
  <2>. DEFINE x == IF c \in lapsed THEN "expired" ELSE o
  <2>1. x \in Terminal /\ leases[c] # NoLease
    BY <1>1, <1>2, <1>6 DEF Terminal, TurnSettled, Settles
  <2>2. leases' = [leases EXCEPT ![c].status = x] /\ UNCHANGED <<records, grants, lapsed, closed, tests, calls, history>>
    BY <1>6 DEF TurnSettled
  <2>3. x \notin Open
    BY <2>1 DEF Terminal, Open
  <2>. HIDE DEF x
  <2>. QED
    BY <1>4, <2>1, <2>2, <2>3
<1>7. CASE Lapse(c)
  BY <1>1, <1>2, <1>7, StatusKeeps DEF Lapse
<1>. QED
  BY <1>5, <1>6, <1>7

\* closeParentTurnExecutionLeases() ends every open lease of the turn.
LEMMA ParentKeeps ==
    ASSUME WorkflowInvariant, NEW t \in Turns, ParentSettled(t)
    PROVE  WorkflowInvariant'
<1>1. /\ leases \in [Children -> Leases \cup {NoLease}] /\ closed' = closed \cup {t} /\ closed \subseteq Turns
      /\ lapsed \subseteq Children
      /\ UNCHANGED <<records, grants, lapsed, tests, calls, history>>
  BY DEF WorkflowInvariant, TypeOK, ParentSettled
<1>2. PICK x \in {"failed", "cancelled"} :
        leases' = [c \in Children |-> IF leases[c].status \in Open /\ leases[c].turn = t
                                      THEN [leases[c] EXCEPT !.status = x] ELSE leases[c]]
  BY DEF ParentSettled, ParentOutcome
<1>3. \A c \in Children : leases[c].status \in Open => leases[c] # NoLease /\ leases[c].turn \notin closed
  BY DEF WorkflowInvariant, Tokens, NoLease, Open
<1>4. ASSUME NEW c \in Children, leases[c].status \in Open, leases[c].turn = t
      PROVE  /\ leases'[c] \in Leases /\ leases'[c].scope = leases[c].scope /\ leases'[c].status \notin Open
             /\ leases'[c].grant = leases[c].grant /\ leases'[c].turn = leases[c].turn
  <2>. DEFINE l == [leases[c] EXCEPT !.status = x]
  <2>1. leases[c] \in Leases /\ leases'[c] = l
    BY <1>1, <1>2, <1>3, <1>4
  <2>. QED
    BY <2>1 DEF Leases, Open, Terminal
<1>5. ASSUME NEW c \in Children, ~(leases[c].status \in Open /\ leases[c].turn = t)
      PROVE  leases'[c] = leases[c] /\ (leases[c].status \in Open => leases[c].turn \notin closed')
  BY <1>1, <1>2, <1>3, <1>5
<1>6. leases' \in [Children -> Leases \cup {NoLease}]
  BY <1>1, <1>2, <1>4, <1>5
<1>7. \A c \in Children : leases[c].status \in Open /\ leases[c].turn = t => leases'[c] # NoLease
  BY <1>4 DEF Leases, NoLease, Open, Terminal
<1>. QED
  BY <1>1, <1>3, <1>4, <1>5, <1>6, <1>7, StatusKeeps

-----------------------------------------------------------------------------
(* Steps of test runs, calls and the registry *)

\* A step that leaves the records and the sessions alone, and begins test steps under the
\* current workflow revision only.
LEMMA OtherStep ==
    ASSUME WorkflowInvariant, UNCHANGED <<scenario, family, workflow, sessions, history>>,
           gone' \subseteq Capabilities, execs' \in [Children -> [Steps -> Executions]],
           approvals' \in [Children -> [Steps -> {"none", "given", "consumed"}]],
           call' \in [Actors -> Calls \cup {Idle}], applied' \in [Actors -> Nat],
           \A c \in Children, s \in Steps :
             \/ execs'[c][s] = execs[c][s] \/ execs[c][s] = "started"
             \/ execs[c][s] = "none" /\ leases[c].scope.revision = workflow.revision
    PROVE  WorkflowInvariant'
<1>1. UNCHANGED <<scenario, family, workflow, grants, leases, lapsed, closed, submitted, approved>>
  BY DEF sessions, history
<1>2. TypeOK'
  BY <1>1 DEF WorkflowInvariant, TypeOK
<1>3. workflow.revision <= workflow'.revision
  BY <1>1, WorkflowConstants DEF WorkflowInvariant, TypeOK, Workflows
<1>4. Settled \subseteq Settled'
  BY <1>1, <1>2, <1>3, SettledKept DEF WorkflowInvariant
<1>5. Tested'
  BY <1>1, <1>4 DEF WorkflowInvariant, Tested
<1>6. Submissions' /\ Scoped' /\ Tokens'
  BY <1>1 DEF WorkflowInvariant, Submissions, Scoped, Tokens
<1>7. Revised' /\ WorkflowTracksDraft'
  BY <1>1 DEF WorkflowInvariant, Revised, WorkflowTracksDraft, fam, Live
<1>. QED
  BY <1>2, <1>5, <1>6, <1>7 DEF WorkflowInvariant

LEMMA TestKeeps ==
    ASSUME WorkflowInvariant, NEW c \in Children, NEW s \in Steps,
           \/ AuthorizeTestInput(c, s) \/ BeginTest(c, s)
           \/ \E status \in {"succeeded", "failed"} : CompleteTest(c, s, status)
    PROVE  WorkflowInvariant'
<1>1. /\ execs \in [Children -> [Steps -> Executions]] /\ gone \subseteq Capabilities
      /\ approvals \in [Children -> [Steps -> {"none", "given", "consumed"}]]
      /\ call \in [Actors -> Calls \cup {Idle}] /\ applied \in [Actors -> Nat]
  BY DEF WorkflowInvariant, TypeOK
<1>2. CASE AuthorizeTestInput(c, s)
  <2>1. approvals' \in [Children -> [Steps -> {"none", "given", "consumed"}]]
    BY <1>1, <1>2 DEF AuthorizeTestInput
  <2>2. UNCHANGED <<scenario, gone, family, workflow, sessions, execs, calls, history>>
    BY <1>2 DEF AuthorizeTestInput, records
  <2>. QED
    BY <1>1, <2>1, <2>2, OtherStep DEF calls
<1>3. CASE BeginTest(c, s)
  <2>. DEFINE x == IF Resolved(s) THEN "started" ELSE "orphaned"
              y == IF approvals[c][s] = "given" THEN "consumed" ELSE approvals[c][s]
  <2>1. /\ execs[c][s] = "none" /\ execs' = [execs EXCEPT ![c][s] = x]
        /\ approvals' = [approvals EXCEPT ![c][s] = y] /\ leases[c].scope = Scope
    BY <1>3 DEF BeginTest, TestStep, WorkflowScopeIsCurrent
  <2>2. x \in Executions /\ y \in {"none", "given", "consumed"}
    BY <1>1 DEF Executions
  <2>. HIDE DEF x, y
  <2>3. /\ execs' \in [Children -> [Steps -> Executions]]
        /\ approvals' \in [Children -> [Steps -> {"none", "given", "consumed"}]]
    BY <1>1, <2>1, <2>2
  <2>4. leases[c].scope.revision = workflow.revision
    BY <2>1 DEF Scope
  <2>5. \A e \in Children, z \in Steps : execs'[e][z] = execs[e][z] \/ (e = c /\ z = s)
    BY <1>1, <2>1
  <2>6. UNCHANGED <<scenario, gone, family, workflow, sessions, calls, history>>
    BY <1>3 DEF BeginTest, records
  <2>. QED
    BY <1>1, <2>1, <2>3, <2>4, <2>5, <2>6, OtherStep DEF calls
<1>4. ASSUME NEW status \in {"succeeded", "failed"}, CompleteTest(c, s, status)
      PROVE  WorkflowInvariant'
  <2>1. execs[c][s] = "started" /\ execs' = [execs EXCEPT ![c][s] = status]
    BY <1>4 DEF CompleteTest
  <2>2. execs' \in [Children -> [Steps -> Executions]]
    BY <1>1, <2>1 DEF Executions
  <2>3. \A e \in Children, z \in Steps : execs'[e][z] = execs[e][z] \/ (e = c /\ z = s)
    BY <1>1, <2>1
  <2>4. UNCHANGED <<scenario, gone, family, workflow, sessions, approvals, calls, history>>
    BY <1>4 DEF CompleteTest, records
  <2>. QED
    BY <1>1, <2>1, <2>2, <2>3, <2>4, OtherStep DEF calls
<1>. QED
  BY <1>2, <1>3, <1>4

\* A mutation is called, repeated or answered.
LEMMA CallKeeps ==
    ASSUME WorkflowInvariant, NEW a \in Actors,
           \/ \E kind \in AllRootKinds \cup RoleResults \cup TestResults, changed \in BOOLEAN :
                Call(a, kind, changed)
           \/ Repeat(a) \/ Answer(a)
    PROVE  WorkflowInvariant'
<1>1. /\ call \in [Actors -> Calls \cup {Idle}] /\ applied \in [Actors -> Nat] /\ gone \subseteq Capabilities
      /\ execs \in [Children -> [Steps -> Executions]]
      /\ approvals \in [Children -> [Steps -> {"none", "given", "consumed"}]]
  BY DEF WorkflowInvariant, TypeOK
<1>2. \A kind \in AllRootKinds \cup RoleResults \cup TestResults, changed \in BOOLEAN :
        Snapshot(kind, changed) \in Calls
  <2>1. fam.revision \in 1..MaxRevision /\ workflow.revision \in 1..MaxTransitions
    BY DEF WorkflowInvariant, TypeOK, fam, Families, Workflows
  <2>. QED
    BY <2>1 DEF Snapshot, Calls
<1>3. ASSUME NEW v \in Calls \cup {Idle}, call' = [call EXCEPT ![a] = v],
             applied' \in [Actors -> Nat], UNCHANGED <<records, sessions, tests, history>>
      PROVE  WorkflowInvariant'
  <2>1. call' \in [Actors -> Calls \cup {Idle}]
    BY <1>1, <1>3
  <2>2. UNCHANGED <<scenario, gone, family, workflow, sessions, execs, approvals, history>>
    BY <1>3 DEF records, tests
  <2>. QED
    BY <1>1, <1>3, <2>1, <2>2, OtherStep
<1>4. ASSUME NEW kind \in AllRootKinds \cup RoleResults \cup TestResults, NEW changed \in BOOLEAN,
             Call(a, kind, changed)
      PROVE  WorkflowInvariant'
  BY <1>1, <1>2, <1>3, <1>4 DEF Call
<1>5. CASE Repeat(a)
  <2>. DEFINE k == call[a].kind
              x == call[a].changed
  <2>1. k \in AllRootKinds \cup RoleResults \cup TestResults /\ x \in BOOLEAN
    BY <1>1, <1>5 DEF Repeat, Calls
  <2>2. call' = [call EXCEPT ![a] = Snapshot(k, x)] /\ UNCHANGED <<records, sessions, tests, applied, history>>
    BY <1>5 DEF Repeat
  <2>. HIDE DEF k, x
  <2>. QED
    BY <1>1, <1>2, <1>3, <2>1, <2>2
<1>6. CASE Answer(a)
  <2>1. applied' \in [Actors -> Nat]
    BY <1>1, <1>6 DEF Answer
  <2>. QED
    BY <1>3, <1>6, <2>1 DEF Answer
<1>. QED
  BY <1>4, <1>5, <1>6

\* The actions that only make a call.
LEMMA CallersKeep ==
    ASSUME WorkflowInvariant,
           \/ \E c \in Children : CallRole(c) \/ CallTest(c)
           \/ \E r \in Roots : CallPublish(r) \/ CallReopen(r) \/ CallFamily(r)
    PROVE  WorkflowInvariant'
<1>1. scenario.kinds \subseteq AllRootKinds /\ \A role : ResultsOf(role) \subseteq RoleResults \cup TestResults
  BY WorkflowConstants DEF WorkflowInvariant, TypeOK, ResultsOf, RoleResults
<1>2. ASSUME NEW c \in Children, CallRole(c) \/ CallTest(c) PROVE WorkflowInvariant'
  <2>1. \E kind \in RoleResults \cup TestResults, changed \in BOOLEAN : Call(c, kind, changed)
    BY <1>1, <1>2 DEF CallRole, CallTest
  <2>. QED
    BY <2>1, CallKeeps DEF Actors
<1>3. ASSUME NEW r \in Roots, CallPublish(r) \/ CallReopen(r) \/ CallFamily(r) PROVE WorkflowInvariant'
  <2>1. \E kind \in AllRootKinds : Call(r, kind, FALSE)
    BY <1>1, <1>3 DEF CallPublish, CallReopen, CallFamily, AllRootKinds
  <2>. QED
    BY <2>1, CallKeeps DEF Actors
<1>. QED
  BY <1>2, <1>3

LEMMA RegistryKeeps ==
    ASSUME WorkflowInvariant, NEW k \in Capabilities, RegistryChanges(k)
    PROVE  WorkflowInvariant'
<1>1. gone' \subseteq Capabilities
  BY DEF RegistryChanges, WorkflowInvariant, TypeOK
<1>2. UNCHANGED <<scenario, family, workflow, sessions, execs, approvals, call, applied, history>>
  BY DEF RegistryChanges, tests, calls
<1>. QED
  BY <1>1, <1>2, OtherStep DEF WorkflowInvariant, TypeOK

-----------------------------------------------------------------------------
(* Commits *)

\* What Advance() leaves.
LEMMA AdvanceFacts ==
    ASSUME TypeOK, NEW phase \in Phases, NEW draft \in Drafts, NEW run \in 0..MaxTransitions,
           NEW evidence \in Evidence, NEW approval \in Drafts \cup {NoDraft},
           Advance(phase, draft, run, evidence, approval)
    PROVE  /\ workflow' \in Workflows /\ workflow'.revision = workflow.revision + 1
           /\ workflow'.phase = phase /\ workflow'.draft = draft /\ workflow'.evidence = evidence
<1>1. workflow.revision \in Nat /\ scenario.maxTransitions \in 1..MaxTransitions /\ MaxTransitions \in Nat
  BY WorkflowConstants DEF TypeOK, Workflows
<1>2. workflow.revision + 1 \in 1..MaxTransitions
  BY <1>1 DEF Advance
<1>. QED
  BY <1>2 DEF Advance, Workflows

\* What #saveFamily leaves.
LEMMA SaveFacts ==
    ASSUME TypeOK, NEW record \in Families, record.revision = fam.revision, Save(record)
    PROVE  /\ family' \in [record : Families, versions : Seq(Drafts)]
           /\ family'.versions = family.versions /\ fam'.revision = fam.revision + 1
           /\ fam'.lifecycle = record.lifecycle /\ fam'.draft = record.draft
<1>1. fam.revision + 1 \in 1..MaxRevision
  BY WorkflowConstants DEF TypeOK, fam, Families, Save
<1>. DEFINE n == fam.revision + 1
            next == [record EXCEPT !.revision = n]
<1>2. family' = [family EXCEPT !.record = next] /\ n \in 1..MaxRevision
  BY <1>1 DEF Save
<1>. HIDE DEF n
<1>3. next \in Families /\ next.revision = n /\ next.lifecycle = record.lifecycle /\ next.draft = record.draft
  BY <1>2 DEF Families
<1>. HIDE DEF next
<1>. QED
  BY <1>2, <1>3 DEF TypeOK, fam, n

\* Committing() counts the operation; nobody else is disturbed.
LEMMA CommitFacts ==
    ASSUME TypeOK, NEW a \in Actors, NEW kinds, Committing(a, kinds)
    PROVE  /\ applied' \in [Actors -> Nat]
           /\ UNCHANGED <<scenario, gone, grants, leases, lapsed, closed, execs, approvals, call>>
  BY DEF TypeOK, Committing, sessions, tests

\* A commit that types the records and does not take the workflow back keeps what is tested,
\* and the sessions within their scopes.
LEMMA CommitSettled ==
    ASSUME WorkflowInvariant, NEW a \in Actors, NEW kinds, Committing(a, kinds),
           family' \in [record : Families, versions : Seq(Drafts)], workflow' \in Workflows,
           workflow.revision <= workflow'.revision,
           submitted' \in [Children -> Nat], approved' \subseteq Drafts
    PROVE  TypeOK' /\ Settled \subseteq Settled' /\ Scoped' /\ Tokens'
<1>1. /\ applied' \in [Actors -> Nat]
      /\ UNCHANGED <<scenario, gone, grants, leases, lapsed, closed, execs, approvals, call>>
  BY CommitFacts DEF WorkflowInvariant
<1>2. TypeOK'
  BY <1>1 DEF WorkflowInvariant, TypeOK
<1>3. Settled \subseteq Settled'
  BY <1>1, <1>2, SettledKept DEF WorkflowInvariant
<1>4. workflow.revision \in Nat /\ workflow'.revision \in Nat
  BY WorkflowConstants DEF WorkflowInvariant, TypeOK, Workflows
<1>5. \A c \in Children : /\ grants[c] # NoGrant => grants[c].scope.revision \in Nat
                          /\ leases[c] # NoLease => leases[c].scope.revision \in Nat
  BY DEF WorkflowInvariant, TypeOK, Grants, Leases, Scopes
<1>6. Scoped'
  <2>. SUFFICES ASSUME NEW c \in Children
                PROVE  /\ grants[c] # NoGrant => grants[c].scope.revision <= workflow'.revision
                       /\ leases[c] # NoLease => leases[c].scope.revision <= workflow'.revision
    BY <1>1 DEF Scoped
  <2>1. /\ grants[c] # NoGrant => grants[c].scope.revision <= workflow.revision
        /\ leases[c] # NoLease => leases[c].scope.revision <= workflow.revision
    BY DEF WorkflowInvariant, Scoped
  <2>2. \A x \in Nat : x <= workflow.revision => x <= workflow'.revision
    BY <1>4
  <2>. QED
    BY <1>5, <2>1, <2>2
<1>7. Tokens'
  BY <1>1 DEF WorkflowInvariant, Tokens
<1>. QED
  BY <1>2, <1>3, <1>6, <1>7

\* Nobody submits in a commit of the root.
LEMMA SubmissionsKept ==
    ASSUME WorkflowInvariant, workflow' \in Workflows, workflow.revision <= workflow'.revision,
           UNCHANGED <<leases, submitted>>
    PROVE  Submissions'
<1>1. workflow.revision \in Nat /\ workflow'.revision \in Nat
  BY WorkflowConstants DEF WorkflowInvariant, TypeOK, Workflows
<1>2. \A c \in Children : leases[c] # NoLease => leases[c].scope.revision \in Nat
  BY DEF WorkflowInvariant, TypeOK, Leases, Scopes
<1>. QED
  BY <1>1, <1>2 DEF WorkflowInvariant, Submissions

\* A commit that saves a record and leaves the workflow as it is.
LEMMA SaveKeeps ==
    ASSUME WorkflowInvariant, NEW a \in Actors, NEW kinds, Committing(a, kinds),
           NEW record \in Families, record.revision = fam.revision, Save(record),
           record.draft.rev <= fam.revision + 1, UNCHANGED <<workflow, history>>,
           record.lifecycle # "deleted" /\ workflow.phase # "published" => record.draft = workflow.draft
    PROVE  WorkflowInvariant'
<1>1. /\ family' \in [record : Families, versions : Seq(Drafts)]
      /\ family'.versions = family.versions /\ fam'.revision = fam.revision + 1
      /\ fam'.lifecycle = record.lifecycle /\ fam'.draft = record.draft
  BY SaveFacts DEF WorkflowInvariant
<1>2. workflow' \in Workflows /\ workflow.revision <= workflow'.revision
  BY WorkflowConstants DEF WorkflowInvariant, TypeOK, Workflows
<1>3. submitted' \in [Children -> Nat] /\ approved' \subseteq Drafts /\ UNCHANGED <<submitted, approved, leases>>
  BY CommitFacts DEF WorkflowInvariant, TypeOK, history
<1>4. TypeOK' /\ Settled \subseteq Settled' /\ Scoped' /\ Tokens'
  BY <1>1, <1>2, <1>3, CommitSettled
<1>5. Submissions'
  BY <1>2, <1>3, SubmissionsKept
<1>6. Tested'
  BY <1>1, <1>3, <1>4 DEF WorkflowInvariant, Tested
<1>7. Revised'
  <2>1. fam.revision \in Nat /\ Len(family.versions) \in Nat
    BY DEF WorkflowInvariant, TypeOK, fam, Families
  <2>. QED
    BY <1>1, <2>1 DEF WorkflowInvariant, Revised
<1>8. WorkflowTracksDraft'
  BY <1>1 DEF WorkflowTracksDraft, Live
<1>. QED
  BY <1>4, <1>5, <1>6, <1>7, <1>8 DEF WorkflowInvariant

\* The commits of the root that leave the workflow alone.
LEMMA LifecycleKeeps ==
    ASSUME WorkflowInvariant, NEW r \in Roots,
           BeginRevision(r) \/ ActivateVersion(r) \/ Archive(r) \/ Restore(r) \/ Delete(r)
    PROVE  WorkflowInvariant'
<1>1. /\ fam \in Families /\ fam.revision \in Nat /\ MaxRevision \in Nat /\ family.versions \in Seq(Drafts)
      /\ Len(family.versions) < fam.revision /\ fam.draft.rev <= fam.revision /\ fam.revision <= MaxRevision
      /\ Len(family.versions) \in Nat /\ fam.draft.rev \in Nat
  BY WorkflowConstants DEF WorkflowInvariant, TypeOK, fam, Families, Revised, Drafts, NoDraft
<1>2. r \in Actors
  BY DEF Actors
<1>3. fam.lifecycle # "deleted" /\ workflow.phase # "published" => fam.draft = workflow.draft
  BY DEF WorkflowInvariant, WorkflowTracksDraft, Live
<1>4. workflow.draft # NoDraft
  BY DEF WorkflowInvariant, TypeOK, Workflows, Drafts, NoDraft
<1>5. CASE BeginRevision(r)
  <2>. DEFINE d == [id |-> fam.revision + 1, rev |-> 1]
              next == [fam EXCEPT !.draft = d]
  <2>1. Committing(r, {"revise"}) /\ Save(next) /\ fam.lifecycle = "active" /\ fam.draft = NoDraft
        /\ UNCHANGED <<workflow, history>> /\ fam.revision < MaxRevision
    BY <1>5 DEF BeginRevision, Save
  <2>2. d \in Drafts /\ d.rev = 1
    BY <1>1, <2>1 DEF Drafts
  <2>. HIDE DEF d
  <2>3. next \in Families /\ next.revision = fam.revision /\ next.draft = d /\ next.lifecycle = fam.lifecycle
    BY <1>1, <2>2 DEF Families
  <2>. HIDE DEF next
  <2>4. workflow.phase = "published"
    BY <1>3, <1>4, <2>1
  <2>. QED
    BY <1>1, <1>2, <2>1, <2>2, <2>3, <2>4, SaveKeeps
<1>6. CASE ActivateVersion(r)
  <2>1. PICK v \in 1..Len(family.versions) : Save([fam EXCEPT !.active = v])
    BY <1>6 DEF ActivateVersion
  <2>. DEFINE next == [fam EXCEPT !.active = v]
  <2>2. Committing(r, {"activate"}) /\ UNCHANGED <<workflow, history>> /\ fam.lifecycle = "active"
    BY <1>6 DEF ActivateVersion
  <2>3. v \in 0..MaxRevision
    BY <1>1
  <2>4. next \in Families /\ next.revision = fam.revision /\ next.draft = fam.draft
        /\ next.lifecycle = fam.lifecycle /\ Save(next)
    BY <1>1, <2>1, <2>3 DEF Families
  <2>. HIDE DEF next
  <2>. QED
    BY <1>1, <1>2, <1>3, <2>2, <2>4, SaveKeeps
<1>7. ASSUME NEW l \in {"active", "draft_only", "archived", "deleted"}, NEW kinds, Committing(r, kinds),
             Save([fam EXCEPT !.lifecycle = l]), UNCHANGED <<workflow, history>>
      PROVE  WorkflowInvariant'
  <2>. DEFINE next == [fam EXCEPT !.lifecycle = l]
  <2>1. next \in Families /\ next.revision = fam.revision /\ next.draft = fam.draft
        /\ next.lifecycle = l /\ Save(next)
    BY <1>1, <1>7 DEF Families
  <2>. HIDE DEF next
  <2>2. fam.lifecycle # "deleted"
    BY <1>7 DEF Committing, Live
  <2>. QED
    BY <1>1, <1>2, <1>3, <1>7, <2>1, <2>2, SaveKeeps
<1>8. CASE Archive(r)
  BY <1>7, <1>8 DEF Archive
<1>9. CASE Restore(r)
  <2>. DEFINE l == IF fam.active = 0 THEN "draft_only" ELSE "active"
  <2>1. /\ l \in {"active", "draft_only", "archived", "deleted"} /\ Committing(r, {"restore"})
        /\ Save([fam EXCEPT !.lifecycle = l]) /\ UNCHANGED <<workflow, history>>
    BY <1>9 DEF Restore
  <2>. HIDE DEF l
  <2>. QED
    BY <1>7, <2>1
<1>10. CASE Delete(r)
  BY <1>7, <1>10 DEF Delete
<1>. QED
  BY <1>5, <1>6, <1>8, <1>9, <1>10

\* An edited draft has a revision that the family can count.
LEMMA EditedFacts ==
    ASSUME WorkflowInvariant, fam.draft # NoDraft, fam.revision < MaxRevision
    PROVE  /\ Edited \in Drafts /\ Edited.rev <= fam.revision + 1
           /\ [fam EXCEPT !.draft = Edited] \in Families
           /\ [fam EXCEPT !.draft = Edited].draft = Edited
           /\ [fam EXCEPT !.draft = Edited].revision = fam.revision
           /\ [fam EXCEPT !.draft = Edited].lifecycle = fam.lifecycle
<1>1. /\ fam \in Families /\ fam.draft \in Drafts /\ fam.draft.rev <= fam.revision
      /\ fam.revision \in Nat /\ MaxRevision \in Nat
  BY WorkflowConstants DEF WorkflowInvariant, TypeOK, fam, Families, Revised
<1>2. fam.draft.rev + 1 \in 1..MaxRevision /\ fam.draft.rev + 1 <= fam.revision + 1
  BY <1>1 DEF Drafts
<1>3. Edited \in Drafts /\ Edited.rev = fam.draft.rev + 1
  BY <1>1, <1>2 DEF Edited, Drafts
<1>. QED
  BY <1>1, <1>2, <1>3 DEF Families

LEMMA PatchKeeps ==
    ASSUME WorkflowInvariant, NEW r \in Roots, Patch(r)
    PROVE  WorkflowInvariant'
<1>. DEFINE kinds == {"patch_pm", "patch_impl", "patch_qa"}
            next == [fam EXCEPT !.draft = Edited]
            phase == CASE call[r].kind = "patch_pm" -> "pm_work"
                       [] call[r].kind = "patch_impl" -> "implementation_work"
                       [] OTHER -> "qa_review"
<1>1. /\ Committing(r, kinds) /\ fam.draft # NoDraft /\ Save(next) /\ fam.revision < MaxRevision
      /\ fam.lifecycle # "deleted" /\ UNCHANGED history
  BY DEF Patch, Save, Committing, Live
<1>2. IF workflow.draft = fam.draft THEN Advance(phase, Edited, 0, NoEvidence, NoDraft) ELSE workflow' = workflow
  BY DEF Patch
<1>3. phase \in {"pm_work", "implementation_work", "qa_review"}
  OBVIOUS
<1>4. /\ Edited \in Drafts /\ Edited.rev <= fam.revision + 1 /\ next \in Families
      /\ next.draft = Edited /\ next.revision = fam.revision /\ next.lifecycle = fam.lifecycle
  BY <1>1, EditedFacts
<1>. HIDE DEF kinds, next, phase
<1>5. r \in Actors
  BY DEF Actors
<1>6. CASE workflow.draft # fam.draft
  <2>1. workflow.phase = "published"
    BY <1>1, <1>6 DEF WorkflowInvariant, WorkflowTracksDraft, Live
  <2>. QED
    BY <1>1, <1>2, <1>4, <1>5, <1>6, <2>1, SaveKeeps
<1>7. CASE workflow.draft = fam.draft
  <2>1. phase \in Phases /\ NoEvidence \in Evidence /\ NoDraft \in Drafts \cup {NoDraft} /\ 0 \in 0..MaxTransitions
    BY <1>3, WorkflowConstants DEF Phases, NoEvidence, Evidence
  <2>2. /\ workflow' \in Workflows /\ workflow'.revision = workflow.revision + 1
        /\ workflow'.phase = phase /\ workflow'.draft = Edited /\ workflow'.evidence = NoEvidence
    BY <1>2, <1>4, <1>7, <2>1, AdvanceFacts DEF WorkflowInvariant
  <2>3. workflow.revision \in Nat
    BY DEF WorkflowInvariant, TypeOK, Workflows
  <2>4. workflow.revision <= workflow'.revision
    BY <2>2, <2>3
  <2>5. /\ family' \in [record : Families, versions : Seq(Drafts)]
        /\ family'.versions = family.versions /\ fam'.revision = fam.revision + 1
        /\ fam'.lifecycle = fam.lifecycle /\ fam'.draft = Edited
    BY <1>1, <1>4, SaveFacts DEF WorkflowInvariant
  <2>6. submitted' \in [Children -> Nat] /\ approved' \subseteq Drafts /\ UNCHANGED <<submitted, approved, leases>>
    BY <1>1, <1>5, CommitFacts DEF WorkflowInvariant, TypeOK, history
  <2>7. TypeOK' /\ Settled \subseteq Settled' /\ Scoped' /\ Tokens'
    BY <1>1, <1>5, <2>2, <2>4, <2>5, <2>6, CommitSettled
  <2>8. Submissions'
    BY <2>2, <2>4, <2>6, SubmissionsKept
  <2>9. Tested'
    BY <1>3, <2>2, <2>5, <2>6, <2>7 DEF WorkflowInvariant, Tested, NoEvidence
  <2>10. Revised'
    <3>1. fam.revision \in Nat /\ Len(family.versions) \in Nat
      BY DEF WorkflowInvariant, TypeOK, fam, Families
    <3>. QED
      BY <1>4, <2>5, <3>1 DEF WorkflowInvariant, Revised
  <2>11. WorkflowTracksDraft'
    BY <2>2, <2>5 DEF WorkflowTracksDraft
  <2>. QED
    BY <2>7, <2>8, <2>9, <2>10, <2>11 DEF WorkflowInvariant
<1>. QED
  BY <1>6, <1>7

LEMMA ReopenKeeps ==
    ASSUME WorkflowInvariant, NEW r \in Roots, Reopen(r)
    PROVE  WorkflowInvariant'
<1>1. /\ Committing(r, {"reopen"}) /\ workflow.draft = fam.draft /\ UNCHANGED <<family, submitted, approved>>
      /\ Advance("pm_work", workflow.draft, 0, NoEvidence, NoDraft)
  BY DEF Reopen, history
<1>2. /\ "pm_work" \in Phases /\ NoEvidence \in Evidence /\ NoDraft \in Drafts \cup {NoDraft}
      /\ 0 \in 0..MaxTransitions /\ workflow.draft \in Drafts /\ r \in Actors /\ workflow.revision \in Nat
  BY WorkflowConstants DEF Phases, NoEvidence, Evidence, WorkflowInvariant, TypeOK, Workflows, Actors
<1>3. /\ workflow' \in Workflows /\ workflow'.revision = workflow.revision + 1
      /\ workflow'.phase = "pm_work" /\ workflow'.draft = workflow.draft /\ workflow'.evidence = NoEvidence
  BY <1>1, <1>2, AdvanceFacts DEF WorkflowInvariant
<1>4. workflow.revision <= workflow'.revision
  BY <1>2, <1>3
<1>5. /\ submitted' \in [Children -> Nat] /\ approved' \subseteq Drafts /\ UNCHANGED leases
      /\ family' \in [record : Families, versions : Seq(Drafts)]
  BY <1>1, <1>2, CommitFacts DEF WorkflowInvariant, TypeOK
<1>6. TypeOK' /\ Settled \subseteq Settled' /\ Scoped' /\ Tokens'
  BY <1>1, <1>2, <1>3, <1>4, <1>5, CommitSettled
<1>7. Submissions'
  BY <1>1, <1>3, <1>4, <1>5, SubmissionsKept
<1>8. Tested'
  BY <1>1, <1>3, <1>6 DEF WorkflowInvariant, Tested, NoEvidence
<1>9. Revised' /\ WorkflowTracksDraft'
  BY <1>1, <1>3 DEF WorkflowInvariant, Revised, WorkflowTracksDraft, fam
<1>. QED
  BY <1>6, <1>7, <1>8, <1>9 DEF WorkflowInvariant

\* What is published is the content that waited for publication.
LEMMA PublishKeeps ==
    ASSUME WorkflowInvariant, NEW r \in Roots, Publish(r)
    PROVE  WorkflowInvariant'
<1>1. /\ Committing(r, {"publish"}) /\ workflow.phase = "publish_ready" /\ workflow.draft = fam.draft
      /\ Advance("published", workflow.draft, workflow.run, workflow.evidence, workflow.approval)
      /\ fam.revision < MaxRevision /\ UNCHANGED <<submitted, approved>>
      /\ family' = [record |-> [lifecycle |-> "active", revision |-> fam.revision + 1,
                                draft |-> NoDraft, active |-> Len(family.versions) + 1],
                    versions |-> Append(family.versions, fam.draft)]
  BY DEF Publish, history
<1>2. /\ "published" \in Phases /\ workflow.evidence \in Evidence /\ workflow.approval \in Drafts \cup {NoDraft}
      /\ workflow.run \in 0..MaxTransitions /\ workflow.draft \in Drafts /\ r \in Actors
      /\ workflow.revision \in Nat /\ MaxRevision \in Nat
  BY WorkflowConstants DEF Phases, WorkflowInvariant, TypeOK, Workflows, Actors
<1>3. /\ workflow' \in Workflows /\ workflow'.revision = workflow.revision + 1
      /\ workflow'.phase = "published" /\ workflow'.evidence = workflow.evidence
  BY <1>1, <1>2, AdvanceFacts DEF WorkflowInvariant
<1>4. workflow.revision <= workflow'.revision
  BY <1>2, <1>3
<1>5. /\ family.versions \in Seq(Drafts) /\ Len(family.versions) \in Nat /\ fam.revision \in Nat
      /\ Len(family.versions) < fam.revision
  BY DEF WorkflowInvariant, TypeOK, Revised, fam, Families
<1>6. /\ family'.versions = Append(family.versions, workflow.draft)
      /\ fam'.revision = fam.revision + 1 /\ fam'.draft = NoDraft
  BY <1>1 DEF fam
<1>7. family' \in [record : Families, versions : Seq(Drafts)]
  <2>1. fam.revision + 1 \in 1..MaxRevision /\ Len(family.versions) + 1 \in 0..MaxRevision
    BY <1>1, <1>2, <1>5
  <2>2. family'.record \in Families
    BY <1>1, <2>1 DEF Families
  <2>3. family'.versions \in Seq(Drafts)
    BY <1>2, <1>5, <1>6
  <2>. QED
    BY <1>1, <2>2, <2>3
<1>8. submitted' \in [Children -> Nat] /\ approved' \subseteq Drafts /\ UNCHANGED leases
  BY <1>1, <1>2, CommitFacts DEF WorkflowInvariant, TypeOK
<1>9. TypeOK' /\ Settled \subseteq Settled' /\ Scoped' /\ Tokens'
  BY <1>1, <1>2, <1>3, <1>4, <1>7, <1>8, CommitSettled
<1>10. Submissions'
  BY <1>1, <1>3, <1>4, <1>8, SubmissionsKept
<1>11. Tested'
  <2>1. workflow.draft \in Settled \cap approved
    BY <1>1 DEF WorkflowInvariant, Tested
  <2>2. \A i \in 1..Len(family.versions) : family.versions[i] \in Settled \cap approved
    BY DEF WorkflowInvariant, Tested
  <2>3. ASSUME NEW i \in 1..Len(family'.versions) PROVE family'.versions[i] \in Settled \cap approved
    <3>1. family'.versions[i] = IF i = Len(family.versions) + 1 THEN workflow.draft ELSE family.versions[i]
      BY <1>2, <1>5, <1>6
    <3>2. i = Len(family.versions) + 1 \/ i \in 1..Len(family.versions)
      BY <1>2, <1>5, <1>6
    <3>. QED
      BY <2>1, <2>2, <3>1, <3>2
  <2>4. workflow.evidence.status = "passed" => workflow.evidence.draft \in Settled
    BY DEF WorkflowInvariant, Tested
  <2>. QED
    BY <1>1, <1>3, <1>9, <2>3, <2>4 DEF Tested
<1>12. Revised'
  <2>1. Len(family'.versions) = Len(family.versions) + 1
    BY <1>2, <1>5, <1>6
  <2>. QED
    BY <1>5, <1>6, <2>1 DEF Revised, NoDraft
<1>13. WorkflowTracksDraft'
  BY <1>3 DEF WorkflowTracksDraft
<1>. QED
  BY <1>9, <1>10, <1>11, <1>12, <1>13 DEF WorkflowInvariant

\* A child may submit only under a lease for the workflow revision that is.
LEMMA AuthorisedFacts ==
    ASSUME NEW c \in Children, Authorised(c)
    PROVE  /\ leases[c] # NoLease /\ leases[c].scope.revision = workflow.revision
           /\ leases[c].scope.draft = workflow.draft /\ fam.draft = workflow.draft
<1>1. leases[c] # NoLease
  <2>1. leases[c] = NoLease => leases[c].status # "running"
    BY DEF NoLease
  <2>2. leases[c] = NoLease => Mounted(c) = "redeem"
    BY <2>1, Zenon DEF Mounted
  <2>. QED
    BY <2>2 DEF Authorised
<1>. QED
  BY <1>1 DEF Authorised, WorkflowScopeIsCurrent, Scope

\* So it has not submitted before, and will not again.
LEMMA SubmissionKeeps ==
    ASSUME WorkflowInvariant, NEW c \in Children, Authorised(c), UNCHANGED leases,
           workflow'.revision = workflow.revision + 1,
           submitted' = [submitted EXCEPT ![c] = @ + 1]
    PROVE  submitted' \in [Children -> Nat] /\ Submissions'
<1>1. /\ submitted \in [Children -> Nat] /\ workflow.revision \in Nat
      /\ \A e \in Children : leases[e] # NoLease => leases[e].scope.revision \in Nat
  BY DEF WorkflowInvariant, TypeOK, Leases, Scopes, Workflows
<1>2. leases[c] # NoLease /\ leases[c].scope.revision = workflow.revision
  BY AuthorisedFacts
<1>3. submitted[c] = 0
  BY <1>1, <1>2 DEF WorkflowInvariant, Submissions
<1>4. submitted' = [submitted EXCEPT ![c] = 1]
  BY <1>1, <1>3
<1>5. submitted' \in [Children -> Nat]
  BY <1>1, <1>4
<1>6. leases[c].scope.revision < workflow'.revision
  BY <1>1, <1>2
<1>7. \A e \in Children : leases[e] # NoLease /\ leases[e].scope.revision < workflow.revision
                            => leases[e].scope.revision < workflow'.revision
  BY <1>1
<1>8. Submissions'
  <2>. SUFFICES ASSUME NEW e \in Children, submitted'[e] # 0
                PROVE  submitted'[e] = 1 /\ leases[e] # NoLease /\ leases[e].scope.revision < workflow'.revision
    BY DEF Submissions
  <2>1. CASE e = c
    BY <1>1, <1>2, <1>4, <1>6, <2>1
  <2>2. CASE e # c
    <3>1. submitted'[e] = submitted[e]
      BY <1>1, <1>4, <2>2
    <3>. QED
      BY <1>7, <3>1 DEF WorkflowInvariant, Submissions
  <2>. QED
    BY <2>1, <2>2
<1>. QED
  BY <1>5, <1>8

\* Only QA's approval leads to publication.
LEMMA NextPhaseFacts ==
    ASSUME NEW role, NEW result \in RoleResults
    PROVE  /\ NextPhase(role, result) \in Phases \ {"published"}
           /\ NextPhase(role, result) = "publish_ready" => result = "approved"
<1>1. NextPhase(role, result) \in {"terminal_failure", "pm_input", "implementation_input", "qa_input",
                                   "implementation_work", "qa_review", "test_pending", "publish_ready"}
  BY Zenon DEF NextPhase
<1>2. \/ result = "failed" \/ result = "needs_user_input" \/ result = "completed_handoff"
      \/ result = "needs_test" \/ result = "changes_requested" \/ result = "approved"
  BY DEF RoleResults
<1>3. result # "approved" => NextPhase(role, result) # "publish_ready"
  <2>1. result = "failed" => NextPhase(role, result) = "terminal_failure"
    BY Zenon DEF NextPhase
  <2>2. result = "needs_user_input" => NextPhase(role, result) \in {"pm_input", "implementation_input", "qa_input"}
    BY Zenon DEF NextPhase
  <2>3. result = "completed_handoff" => NextPhase(role, result) \in {"implementation_work", "qa_review"}
    BY Zenon DEF NextPhase
  <2>4. result = "needs_test" => NextPhase(role, result) = "test_pending"
    BY Zenon DEF NextPhase
  <2>5. result = "changes_requested" => NextPhase(role, result) = "implementation_work"
    BY Zenon DEF NextPhase
  <2>. QED
    BY <1>2, <2>1, <2>2, <2>3, <2>4, <2>5
<1>. QED
  BY <1>1, <1>3 DEF Phases

\* A submission keeps the evidence it found, or drops it.
LEMMA SubmittedFacts ==
    ASSUME TypeOK, NEW role, NEW result \in RoleResults, NEW draft \in Drafts, NEW changed,
           Submitted(role, result, draft, changed)
    PROVE  /\ workflow' \in Workflows /\ workflow'.revision = workflow.revision + 1
           /\ workflow'.phase = NextPhase(role, result) /\ workflow'.draft = draft
           /\ workflow'.evidence \in {NoEvidence, workflow.evidence}
<1>. DEFINE cleared == role # "qa" \/ result \in {"needs_test", "changes_requested"} \/ changed
            run == CASE result = "needs_test" -> workflow.revision + 1
                     [] cleared -> 0 [] OTHER -> workflow.run
            evidence == IF cleared THEN NoEvidence ELSE workflow.evidence
            approval == CASE result = "approved" -> draft [] cleared -> NoDraft
                          [] OTHER -> workflow.approval
<1>1. Advance(NextPhase(role, result), draft, run, evidence, approval)
  BY DEF Submitted
<1>2. workflow.revision < scenario.maxTransitions
  BY <1>1 DEF Advance
<1>3. /\ workflow.run \in 0..MaxTransitions /\ workflow.evidence \in Evidence /\ NoEvidence \in Evidence
      /\ workflow.approval \in Drafts \cup {NoDraft} /\ NoDraft \in Drafts \cup {NoDraft}
      /\ draft \in Drafts \cup {NoDraft}
  BY DEF TypeOK, Workflows, NoEvidence, Evidence
<1>4. workflow.revision + 1 \in 0..MaxTransitions /\ 0 \in 0..MaxTransitions
  BY <1>2, WorkflowConstants DEF TypeOK, Workflows
<1>5. run \in {workflow.revision + 1, 0, workflow.run}
  BY Zenon
<1>6. approval \in {draft, NoDraft, workflow.approval}
  BY Zenon
<1>7. evidence \in {NoEvidence, workflow.evidence}
  BY Zenon
<1>. HIDE DEF run, evidence, approval
<1>8. run \in 0..MaxTransitions /\ approval \in Drafts \cup {NoDraft} /\ evidence \in Evidence
  BY <1>3, <1>4, <1>5, <1>6, <1>7
<1>9. NextPhase(role, result) \in Phases
  BY NextPhaseFacts
<1>. QED
  BY <1>1, <1>7, <1>8, <1>9, AdvanceFacts

\* #submitBuildRole: what becomes ready for publication passed its test and was approved.
LEMMA SubmitRoleKeeps ==
    ASSUME WorkflowInvariant, NEW c \in Children, SubmitRole(c)
    PROVE  WorkflowInvariant'
<1>. DEFINE result == call[c].kind
            changed == call[c].changed
            draft == IF changed THEN Edited ELSE fam.draft
            next == [fam EXCEPT !.draft = draft]
<1>1. /\ Committing(c, RoleResults) /\ result \in RoleResults /\ Authorised(c)
      /\ result = "approved" => ~changed /\ Approvable(draft)
      /\ Submitted(RoleOf[c], result, draft, changed)
      /\ IF changed THEN Save(next) ELSE family' = family
      /\ submitted' = [submitted EXCEPT ![c] = @ + 1]
      /\ approved' = IF result = "approved" THEN approved \cup {draft} ELSE approved
  BY DEF SubmitRole, Committing
<1>2. /\ c \in Actors /\ UNCHANGED leases /\ fam \in Families /\ workflow.draft \in Drafts
      /\ workflow.revision \in Nat /\ approved \subseteq Drafts
  BY <1>1, CommitFacts DEF Actors, WorkflowInvariant, TypeOK, fam, Workflows
<1>3. fam.draft = workflow.draft /\ fam.draft # NoDraft
  BY <1>1, <1>2, AuthorisedFacts DEF Drafts, NoDraft
<1>4. changed => /\ fam.revision < MaxRevision /\ draft \in Drafts /\ draft.rev <= fam.revision + 1
                 /\ next \in Families /\ next.draft = draft /\ next.revision = fam.revision
                 /\ next.lifecycle = fam.lifecycle /\ Save(next)
  BY <1>1, <1>3, EditedFacts DEF Save
<1>5. draft \in Drafts /\ (~changed => draft = workflow.draft)
  BY <1>2, <1>3, <1>4
<1>. HIDE DEF result, changed, draft, next
<1>6. /\ workflow' \in Workflows /\ workflow'.revision = workflow.revision + 1
      /\ workflow'.phase = NextPhase(RoleOf[c], result) /\ workflow'.draft = draft
      /\ workflow'.evidence \in {NoEvidence, workflow.evidence}
  BY <1>1, <1>5, SubmittedFacts DEF WorkflowInvariant
<1>7. workflow.revision <= workflow'.revision
  BY <1>2, <1>6
<1>8. /\ family' \in [record : Families, versions : Seq(Drafts)] /\ family'.versions = family.versions
      /\ fam'.draft = draft /\ Revised'
  <2>1. CASE changed
    <3>1. /\ family' \in [record : Families, versions : Seq(Drafts)]
          /\ family'.versions = family.versions /\ fam'.revision = fam.revision + 1 /\ fam'.draft = draft
      BY <1>4, <2>1, SaveFacts DEF WorkflowInvariant
    <3>2. fam.revision \in Nat /\ Len(family.versions) \in Nat
      BY DEF WorkflowInvariant, TypeOK, fam, Families
    <3>. QED
      BY <1>4, <2>1, <3>1, <3>2 DEF WorkflowInvariant, Revised
  <2>2. CASE ~changed
    BY <1>1, <1>3, <1>5, <2>2 DEF WorkflowInvariant, TypeOK, Revised, fam
  <2>. QED
    BY <2>1, <2>2
<1>9. submitted' \in [Children -> Nat] /\ Submissions'
  BY <1>1, <1>2, <1>6, SubmissionKeeps
<1>10. approved \subseteq approved' /\ approved' \subseteq Drafts
  BY <1>1, <1>2, <1>5
<1>11. TypeOK' /\ Settled \subseteq Settled' /\ Scoped' /\ Tokens'
  BY <1>1, <1>2, <1>6, <1>7, <1>8, <1>9, <1>10, CommitSettled
<1>12. Tested'
  <2>1. workflow.evidence.status = "passed" => workflow.evidence.draft \in Settled
    BY DEF WorkflowInvariant, Tested
  <2>2. workflow'.evidence.status = "passed" => workflow'.evidence.draft \in Settled
    BY <1>6, <2>1 DEF NoEvidence
  <2>3. workflow'.phase = "publish_ready" => draft \in Settled \cap approved'
    <3>1. workflow'.phase = "publish_ready" => result = "approved"
      BY <1>1, <1>6, NextPhaseFacts
    <3>2. result = "approved" => workflow.evidence.status = "passed" /\ workflow.evidence.draft = draft
      BY <1>1 DEF Approvable
    <3>. QED
      BY <1>1, <2>1, <3>1, <3>2
  <2>4. \A i \in 1..Len(family.versions) : family.versions[i] \in Settled \cap approved
    BY DEF WorkflowInvariant, Tested
  <2>. QED
    BY <1>6, <1>8, <1>10, <1>11, <2>2, <2>3, <2>4 DEF Tested
<1>13. WorkflowTracksDraft'
  BY <1>6, <1>8 DEF WorkflowTracksDraft
<1>. QED
  BY <1>8, <1>9, <1>11, <1>12, <1>13 DEF WorkflowInvariant

\* #recordBuildTest: a run that is recorded as passed has settled.
LEMMA RecordTestKeeps ==
    ASSUME WorkflowInvariant, NEW c \in Children, RecordTest(c)
    PROVE  WorkflowInvariant'
<1>. DEFINE status == RunStatus(c, call[c].kind)
            evidence == [status |-> status, draft |-> workflow.draft]
<1>1. /\ RoleOf[c] = "test_runner" /\ Committing(c, TestResults) /\ Authorised(c)
      /\ Advance("qa_review", workflow.draft, workflow.run, evidence, workflow.approval)
      /\ submitted' = [submitted EXCEPT ![c] = @ + 1] /\ UNCHANGED <<family, approved>>
  BY DEF RecordTest
<1>2. /\ c \in Actors /\ UNCHANGED <<leases, execs>> /\ workflow.draft \in Drafts /\ "qa_review" \in Phases
      /\ workflow.revision \in Nat /\ workflow.run \in 0..MaxTransitions
      /\ workflow.approval \in Drafts \cup {NoDraft}
      /\ approved' \subseteq Drafts /\ family' \in [record : Families, versions : Seq(Drafts)]
  BY <1>1, CommitFacts DEF Actors, WorkflowInvariant, TypeOK, Workflows, Phases
<1>3. status \in TestResults
  <2>1. status \in {"input_required", "passed", "failed"}
    BY Zenon DEF RunStatus
  <2>. QED
    BY <2>1 DEF TestResults
<1>4. status = "passed" =>
        /\ \A k \in Required : \E s \in Steps : CapabilityOf[s] = k /\ execs[c][s] = "succeeded"
        /\ \A s \in Steps : execs[c][s] \in {"none", "succeeded"}
  BY Zenon DEF RunStatus
<1>. HIDE DEF status
<1>5. evidence \in Evidence /\ evidence.status = status /\ evidence.draft = workflow.draft
  BY <1>2, <1>3 DEF Evidence
<1>. HIDE DEF evidence
<1>6. /\ workflow' \in Workflows /\ workflow'.revision = workflow.revision + 1
      /\ workflow'.phase = "qa_review" /\ workflow'.draft = workflow.draft /\ workflow'.evidence = evidence
  BY <1>1, <1>2, <1>5, AdvanceFacts DEF WorkflowInvariant
<1>7. workflow.revision <= workflow'.revision
  BY <1>2, <1>6
<1>8. submitted' \in [Children -> Nat] /\ Submissions'
  BY <1>1, <1>2, <1>6, SubmissionKeeps
<1>9. TypeOK' /\ Settled \subseteq Settled' /\ Scoped' /\ Tokens'
  BY <1>1, <1>2, <1>6, <1>7, <1>8, CommitSettled
<1>10. status = "passed" => workflow.draft \in Settled'
  <2>1. /\ leases[c] # NoLease /\ leases[c].scope.revision = workflow.revision
        /\ leases[c].scope.draft = workflow.draft
    BY <1>1, AuthorisedFacts
  <2>2. leases[c].scope.revision < workflow'.revision
    BY <1>2, <1>6, <2>1
  <2>. QED
    BY <1>1, <1>2, <1>4, <2>1, <2>2 DEF Settled
<1>11. Tested'
  BY <1>1, <1>5, <1>6, <1>9, <1>10 DEF WorkflowInvariant, Tested
<1>12. Revised' /\ WorkflowTracksDraft'
  <2>1. fam' = fam /\ fam.draft = workflow.draft
    BY <1>1, AuthorisedFacts DEF fam
  <2>. QED
    BY <1>1, <1>6, <2>1 DEF WorkflowInvariant, Revised, WorkflowTracksDraft
<1>. QED
  BY <1>8, <1>9, <1>11, <1>12 DEF WorkflowInvariant

-----------------------------------------------------------------------------
(* The invariant and its theorems *)

LEMMA WorkflowInit == Init => WorkflowInvariant
<1>. SUFFICES ASSUME Init PROVE WorkflowInvariant
  OBVIOUS
<1>. DEFINE d == [id |-> 1, rev |-> 1]
<1>1. d \in Drafts /\ NoEvidence \in Evidence /\ MaxTransitions \in Nat \ {0} /\ MaxRevision \in Nat \ {0}
  BY WorkflowConstants DEF Drafts, NoEvidence, Evidence
<1>. HIDE DEF d
<1>2. family.record \in Families /\ family.versions = <<>> /\ family \in [record : Families, versions : Seq(Drafts)]
      /\ family.record.draft = d /\ family.record.revision = 1
  BY <1>1 DEF Init, Families, d
<1>3. workflow \in Workflows /\ workflow.phase = "pm_work" /\ workflow.draft = d /\ workflow.evidence = NoEvidence
  BY <1>1 DEF Init, Workflows, Phases, d
<1>4. TypeOK
  <2>1. execs \in [Children -> [Steps -> Executions]]
        /\ approvals \in [Children -> [Steps -> {"none", "given", "consumed"}]]
    BY DEF Init, Executions
  <2>. QED
    BY <1>2, <1>3, <2>1 DEF Init, TypeOK
<1>5. Revised
  BY <1>2 DEF Revised, fam, d
<1>6. Scoped /\ Tokens
  BY DEF Init, Scoped, Tokens
<1>7. Submissions
  BY DEF Init, Submissions
<1>8. Tested
  BY <1>2, <1>3 DEF Tested, NoEvidence
<1>9. WorkflowTracksDraft
  BY <1>2, <1>3 DEF WorkflowTracksDraft, fam
<1>. QED
  BY <1>4, <1>5, <1>6, <1>7, <1>8, <1>9 DEF WorkflowInvariant

LEMMA WorkflowStep == WorkflowInvariant /\ [Next]_vars => WorkflowInvariant'
<1>. SUFFICES ASSUME WorkflowInvariant, [Next]_vars PROVE WorkflowInvariant'
  OBVIOUS
<1>1. scenario.turns \subseteq Turns
  BY WorkflowConstants DEF WorkflowInvariant, TypeOK
<1>2. ASSUME NEW c \in Children, NEW t \in scenario.turns, Issue(c, t) PROVE WorkflowInvariant'
  BY <1>1, <1>2, IssueKeeps
<1>3. ASSUME NEW c \in Children, NEW d \in Children, Redeem(c, d) PROVE WorkflowInvariant'
  BY <1>3, RedeemKeeps
<1>4. ASSUME NEW c \in Children, Begin(c) \/ Lapse(c) \/ \E o \in scenario.outcomes : TurnSettled(c, o)
      PROVE  WorkflowInvariant'
  BY <1>4, BeginKeeps
<1>5. ASSUME NEW c \in Children, NEW s \in Steps,
             \/ AuthorizeTestInput(c, s) \/ BeginTest(c, s)
             \/ \E status \in {"succeeded", "failed"} : CompleteTest(c, s, status)
      PROVE  WorkflowInvariant'
  BY <1>5, TestKeeps
<1>6. ASSUME NEW c \in Children, CallRole(c) \/ CallTest(c) PROVE WorkflowInvariant'
  BY <1>6, CallersKeep
<1>7. ASSUME NEW c \in Children, SubmitRole(c) \/ RecordTest(c) PROVE WorkflowInvariant'
  BY <1>7, SubmitRoleKeeps, RecordTestKeeps
<1>8. ASSUME NEW t \in scenario.turns, ParentSettled(t) PROVE WorkflowInvariant'
  BY <1>1, <1>8, ParentKeeps
<1>9. ASSUME NEW k \in Capabilities, RegistryChanges(k) PROVE WorkflowInvariant'
  BY <1>9, RegistryKeeps
<1>10. ASSUME NEW a \in Actors, Repeat(a) \/ Answer(a) PROVE WorkflowInvariant'
  BY <1>10, CallKeeps
<1>11. ASSUME NEW r \in Roots, CallPublish(r) \/ CallReopen(r) \/ CallFamily(r) PROVE WorkflowInvariant'
  BY <1>11, CallersKeep
<1>12. ASSUME NEW r \in Roots, Reopen(r) \/ Publish(r) \/ Patch(r) PROVE WorkflowInvariant'
  BY <1>12, ReopenKeeps, PublishKeeps, PatchKeeps
<1>13. ASSUME NEW r \in Roots,
              BeginRevision(r) \/ ActivateVersion(r) \/ Archive(r) \/ Restore(r) \/ Delete(r)
       PROVE  WorkflowInvariant'
  BY <1>13, LifecycleKeeps
<1>14. CASE UNCHANGED vars
  <2>1. UNCHANGED <<scenario, family, workflow, sessions, history, gone, execs, approvals, call, applied>>
    BY <1>14 DEF vars, sessions, history
  <2>. QED
    BY <2>1, OtherStep DEF WorkflowInvariant, TypeOK
<1>15. CASE Next
  BY <1>2, <1>3, <1>4, <1>5, <1>6, <1>7, <1>8, <1>9, <1>10, <1>11, <1>12, <1>13, <1>15 DEF Next
<1>. QED
  BY <1>14, <1>15

LEMMA WorkflowInductive == Spec => []WorkflowInvariant
  BY WorkflowInit, WorkflowStep, PTL DEF Spec

\* The records of the store keep their types and stay within the limits: every revision
\* and every workflow transition that is counted is one that the schema accepts.
THEOREM WorkflowTypes == Spec => []TypeOK
<1>1. WorkflowInvariant => TypeOK
  BY DEF WorkflowInvariant
<1>. QED
  BY <1>1, WorkflowInductive, PTL

\* #publishBuildWorkflow publishes only content that a test run exercised in full and QA
\* approved, whatever is edited, repeated, submitted late or reopened on the way.
THEOREM PublicationIsTested == Spec => []PublishedWasTested
<1>1. WorkflowInvariant => PublishedWasTested
  <2>. SUFFICES ASSUME WorkflowInvariant,
                       NEW draft \in {family.versions[i] : i \in 1..Len(family.versions)}
                                     \cup {d \in {workflow.draft} : workflow.phase = "publish_ready"}
                PROVE  PassedRun(draft) /\ draft \in approved
    BY DEF PublishedWasTested
  <2>1. draft \in Settled \cap approved
    BY DEF WorkflowInvariant, Tested
  <2>. QED
    BY <2>1 DEF Settled, PassedRun
<1>. QED
  BY <1>1, WorkflowInductive, PTL

\* Family and workflow move together: until it has published, the workflow works on the
\* family's current draft, whichever of the store's mutations edits it.
THEOREM WorkflowFollowsDraft == Spec => []WorkflowTracksDraft
<1>1. WorkflowInvariant => WorkflowTracksDraft
  BY DEF WorkflowInvariant
<1>. QED
  BY <1>1, WorkflowInductive, PTL

\* No child works for a root turn that has settled, and no bootstrap token starts two.
THEOREM WorkIsAccountedFor == Spec => []AccountedWork
<1>1. WorkflowInvariant => AccountedWork
  <2>1. \A c \in Children : leases[c].status \in Open => leases[c] # NoLease
    BY DEF NoLease, Open
  <2>. QED
    BY <2>1 DEF WorkflowInvariant, Tokens, AccountedWork
<1>. QED
  BY <1>1, WorkflowInductive, PTL

\* A lease submits once: its scope is over with the transition that the submission makes.
THEOREM LeasesSubmitOnce == Spec => []OneSubmissionPerLease
<1>1. WorkflowInvariant => OneSubmissionPerLease
  <2>. SUFFICES ASSUME WorkflowInvariant PROVE OneSubmissionPerLease
    OBVIOUS
  <2>1. \A c \in Children : submitted[c] = 0 \/ submitted[c] = 1
    BY DEF WorkflowInvariant, Submissions
  <2>. QED
    BY <2>1 DEF OneSubmissionPerLease
<1>. QED
  BY <1>1, WorkflowInductive, PTL
=============================================================================
