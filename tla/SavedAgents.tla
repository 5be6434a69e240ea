---------------------------- MODULE SavedAgents ----------------------------
(***************************************************************************)
(* The saved agents of one owner in packages/eve-agent-builder: the calls  *)
(* of AgentBuilderService (service.ts), which look an operation up in the  *)
(* ledger, read the family, perhaps a version, and commit, each of them a  *)
(* transaction of its own (stores/memory.ts); paged discovery of what is   *)
(* active (discovery.ts); and the admission of a run of a published agent, *)
(* from discovery to the first turn of its runner (mounts/root-tools.ts,   *)
(* bootstrap.ts, runtime/service.ts).                                      *)
(*                                                                         *)
(* Families, drafts and versions are numbered in the order of their        *)
(* allocation, which is what fresh random IDs amount to.  The editable     *)
(* fields are the canonical name, by which discovery sorts, and the edits  *)
(* that went into the rest.  Workflow-managed families are in              *)
(* BuildWorkflow; here a family has no workflow.  Schema validation,       *)
(* timestamps and the kind of an agent are left out.                       *)
(***************************************************************************)
EXTENDS Naturals, Sequences, FiniteSets, SequencesExt

CONSTANTS
    Calls,        \* calls of the service; a repeated tool call is a call too
    OpIds,        \* operation IDs
    Users,        \* principals the host's owner policy takes for the owner
    Names,        \* canonical names, in their order
    Workloads,    \* [start: families there are, asks: what each call asks]
    Nothing,
    Runs,         \* runs of published agents
    PageLimit,    \* entries on a page of a search
    MaxFamilies   \* maxAgentFamiliesPerOwner

Ops == {"create_draft", "begin_revision", "patch_draft", "publish_draft", "activate_version",
        "archive_family", "restore_family", "delete_family"}

ASSUME SavedAgentConstants ==
    /\ Names \subseteq Nat \ {0} /\ PageLimit \in Nat \ {0} /\ MaxFamilies \in Nat \ {0}
    /\ Nothing \notin Calls

VARIABLES
    load,      \* the workload
    families,  \* families of the owner's bucket
    ledger,    \* its operations: what each ID was used for, and the result
    calls,     \* the calls of the service, as they go on
    search,    \* a client paging through the active agents
    steady,    \* history: entries active and unchanged since the search began
    runs,      \* runs being prepared
    commits    \* history: transactions committed under each operation ID

vars == <<load, families, ledger, calls, search, steady, runs, commits>>

Lifecycles == {"draft_only", "active", "archived", "deleted"}
Fields == [name : Names, edits : SUBSET OpIds]
Drafts == [rev : Nat \ {0}, based : Nat, fields : Fields]
Families ==
    [lifecycle : Lifecycles, draft : Drafts \cup {Nothing}, active : Nat, revision : Nat,
     versions : Seq(Fields)]

Answers == [st : {"none", "ok", "refused", "reused"}, agent : Nat, revision : Nat]
Answer(st) == [st |-> st, agent |-> 0, revision |-> 0]
Inputs == [op : Ops, actor : STRING, agent : Nat, name : Names \cup {0},
           revision : Nat, draftRevision : Nat, version : Nat]
Entries == [name : Names, agent : Nat]

\* What a tool call asks for; only a new agent has no ID, and it needs a name.
Requests ==
    {q \in [op : Ops, id : OpIds, actor : STRING, agent : Nat, name : Names \cup {0}] :
        /\ q.op = "create_draft" <=> q.agent = 0
        /\ q.op = "create_draft" => q.name # 0}

\* The names a family reserves, a deleted one too: its draft's and all it
\* has published.
NamesOf(f) ==
    {v.name : v \in Range(f.versions)} \cup (IF f.draft = Nothing THEN {} ELSE {f.draft.fields.name})

\* Families that earlier calls have left.
WellKept(fs) ==
    /\ \A a \in 1..Len(fs) : /\ fs[a].active \in 0..Len(fs[a].versions)
                             /\ fs[a].lifecycle = "active" => fs[a].active # 0
    /\ \A a, b \in 1..Len(fs) : a # b => NamesOf(fs[a]) \cap NamesOf(fs[b]) = {}
    /\ Cardinality({a \in 1..Len(fs) : fs[a].lifecycle # "deleted"}) <= MaxFamilies

ASSUME WorkloadsOK ==
    \A w \in Workloads : /\ w.start \in Seq(Families) /\ WellKept(w.start)
                         /\ \A k \in Calls : w.asks[k] \in Requests \cup {Nothing}

\* An absent value is no value.
ASSUME NothingIsAbsent ==
    /\ Nothing \notin Requests \cup Inputs \cup Answers \cup Fields \cup Drafts \cup Entries
    /\ Nothing \notin [input : Inputs, result : Answers] \cup [id : OpIds, input : Inputs]

TypeOK ==
    /\ load \in Workloads
    /\ families \in Seq(Families)
    /\ ledger \in [OpIds -> [input : Inputs, result : Answers] \cup {Nothing}]
    /\ calls \in [Calls -> [pc : {"idle", "replay", "read", "version", "commit", "done"},
                            input : Inputs \cup {Nothing}, fields : Fields \cup {Nothing},
                            base : Nat, answer : Answers]]
    /\ search \in [st : {"idle", "open", "done", "invalid"},
                   seen : Seq(Entries), cursor : Entries \cup {Nothing}]
    /\ steady \subseteq Entries
    /\ runs \in [Runs -> [st : {"idle", "listed", "admitted", "granted", "ready", "loaded",
                                "running", "over"},
                          agent : Nat, version : Nat, saved : Fields \cup {Nothing}]]
    /\ commits \in [OpIds -> Nat]

Init ==
    /\ load \in Workloads
    /\ families = load.start
    /\ ledger = [o \in OpIds |-> Nothing]
    /\ calls = [k \in Calls |-> [pc |-> "idle", input |-> Nothing, fields |-> Nothing,
                              base |-> 0, answer |-> Answer("none")]]
    /\ search = [st |-> "idle", seen |-> <<>>, cursor |-> Nothing]
    /\ steady = {}
    /\ runs = [r \in Runs |-> [st |-> "idle", agent |-> 0, version |-> 0, saved |-> Nothing]]
    /\ commits = [o \in OpIds |-> 0]

readers == <<search, runs>>

-----------------------------------------------------------------------------
(* A call of the service, up to its commit *)

Ask(k) == load.asks[k]
Family(a) == families[a]
Live(a) == a \in 1..Len(families) /\ Family(a).lifecycle # "deleted"
DraftRevision(a) == IF Family(a).draft = Nothing THEN 0 ELSE Family(a).draft.rev

\* What the client sends: the revisions it has seen last, or what it sent before
\* when it repeats a call.  The fingerprint is taken of all of it.
InputOf(k, v) ==
    LET q == Ask(k)
        before == {j \in Calls \ {k} : Ask(j) = q /\ calls[j].input # Nothing}
    IN  IF before # {} THEN calls[CHOOSE j \in before : TRUE].input
        ELSE [op |-> q.op, actor |-> q.actor, agent |-> q.agent, name |-> q.name,
              revision |-> IF q.agent = 0 THEN 0 ELSE Family(q.agent).revision,
              draftRevision |-> IF q.op \in {"patch_draft", "publish_draft"} THEN DraftRevision(q.agent) ELSE 0,
              version |-> v]

\* resolveCurrentOwner: only the current user stands for an owner.
Resolves(k) == Ask(k).actor \in Users

Answered(k, answer) == calls' = [calls EXCEPT ![k].pc = "done", ![k].answer = answer]

\* #prepareMutation: a tool call arrives.  An activation names a version.
Begin(k) ==
    /\ calls[k].pc = "idle" /\ Ask(k) # Nothing /\ Ask(k).agent <= Len(families)
    /\ \E v \in IF Ask(k).op = "activate_version" THEN 1..Len(Family(Ask(k).agent).versions) ELSE {0} :
         IF Resolves(k) THEN calls' = [calls EXCEPT ![k].pc = "replay", ![k].input = InputOf(k, v)]
         ELSE Answered(k, Answer("refused"))
    /\ UNCHANGED <<load, families, ledger, readers, steady, commits>>

\* What getMutationReplay() and the ledger check of mutate() find.
Recorded(k) ==
    LET entry == ledger[Ask(k).id] IN
    CASE entry = Nothing -> Nothing
      [] entry # Nothing /\ entry.input = calls[k].input -> entry.result
      [] OTHER -> Answer("reused")

\* #replay
Replay(k) ==
    /\ calls[k].pc = "replay"
    /\ IF Recorded(k) # Nothing THEN Answered(k, Recorded(k))
       ELSE calls' = [calls EXCEPT ![k].pc = "read"]
    /\ UNCHANGED <<load, families, ledger, readers, steady, commits>>

\* The family is live and has the revisions the client expects.
SameRevisionMutant(k) == LET a == calls[k].input.agent IN Live(a)

SameRevision(k) ==
    LET i == calls[k].input IN
    /\ Live(i.agent) /\ Family(i.agent).revision = i.revision
    /\ i.op \in {"patch_draft", "publish_draft"} => DraftRevision(i.agent) = i.draftRevision

\* What the lifecycle must be; the store asks the same again.
Revisable(f) == f.lifecycle = "active" /\ f.draft = Nothing
Editable(f) == f.draft # Nothing /\ f.lifecycle # "archived"
LifecyclesOf(op) ==
    CASE op = "archive_family" -> {"draft_only", "active"}
      [] op = "restore_family" -> {"archived"}
      [] op = "delete_family" -> {"draft_only", "active", "archived"}
      [] OTHER -> {"active"}

\* applyPatch: the patch over the fields that were read.
Patched(fields, k) ==
    [name |-> IF Ask(k).name = 0 THEN fields.name ELSE Ask(k).name,
     edits |-> fields.edits \cup {Ask(k).id}]

Reading(k, ops) ==
    /\ calls[k].pc = "read" /\ calls[k].input.op \in ops
    /\ UNCHANGED <<load, families, ledger, readers, steady, commits>>

\* A method goes on to its next step when its check holds of what it has read.
Proceed(k, check, next) ==
    IF check THEN calls' = [calls EXCEPT ![k] = next] ELSE Answered(k, Answer("refused"))

\* createDraft: nothing is read.
NewDraft(k) ==
    /\ Reading(k, {"create_draft"})
    /\ calls' = [calls EXCEPT ![k].pc = "commit",
                              ![k].fields = [name |-> Ask(k).name, edits |-> {Ask(k).id}]]

\* beginRevision: the family, then its active version.
ReadRevised(k) ==
    LET a == calls[k].input.agent IN
    /\ Reading(k, {"begin_revision"})
    /\ Proceed(k, SameRevision(k) /\ Revisable(Family(a)),
                [calls[k] EXCEPT !.pc = "version", !.base = Family(a).active])

\* patchDraft: the new fields are computed from the draft that was read.
ReadPatched(k) ==
    LET a == calls[k].input.agent IN
    /\ Reading(k, {"patch_draft"})
    /\ Proceed(k, SameRevision(k) /\ Editable(Family(a)),
                [calls[k] EXCEPT !.pc = "commit", !.fields = Patched(Family(a).draft.fields, k)])

\* publishDraft
ReadPublished(k) ==
    /\ Reading(k, {"publish_draft"})
    /\ Proceed(k, SameRevision(k) /\ Editable(Family(calls[k].input.agent)),
                [calls[k] EXCEPT !.pc = "commit"])

\* activateVersion: the family, then the version to activate.
ReadActivated(k) ==
    /\ Reading(k, {"activate_version"})
    /\ Proceed(k, SameRevision(k) /\ Family(calls[k].input.agent).lifecycle = "active",
                [calls[k] EXCEPT !.pc = "version"])

\* #lifecycleMutation
ReadLifecycle(k) ==
    LET i == calls[k].input IN
    /\ Reading(k, {"archive_family", "restore_family", "delete_family"})
    /\ Proceed(k, SameRevision(k) /\ Family(i.agent).lifecycle \in LifecyclesOf(i.op),
                [calls[k] EXCEPT !.pc = "commit"])

\* getVersion: versions are never removed; a revision copies its fields.
ReadVersion(k) ==
    LET i == calls[k].input IN
    /\ calls[k].pc = "version"
    /\ calls' = [calls EXCEPT ![k].pc = "commit",
                              ![k].fields = IF i.op = "begin_revision"
                                            THEN Family(i.agent).versions[calls[k].base] ELSE @]
    /\ UNCHANGED <<load, families, ledger, readers, steady, commits>>

-----------------------------------------------------------------------------
(* The transactions of the store *)

\* #nameOwner finds another family than a (0: none) under that name.
NameTakenMutant(name, a) ==
    \E b \in 1..Len(families) : b # a /\ families[b].draft # Nothing /\ families[b].draft.fields.name = name

NameTaken(name, a) ==
    \E b \in 1..Len(families) : b # a /\ name \in NamesOf(families[b])

ActiveEntries(fs) ==
    {[name |-> fs[a].versions[fs[a].active].name, agent |-> a] :
        a \in {b \in 1..Len(fs) : fs[b].lifecycle = "active"}}

\* mutate(): the operation is applied and recorded in one transaction.
Committed(k, fs, a) ==
    LET result == [st |-> "ok", agent |-> a, revision |-> fs[a].revision] IN
    /\ families' = fs
    /\ ledger' = [ledger EXCEPT ![Ask(k).id] = [input |-> calls[k].input, result |-> result]]
    /\ commits' = [commits EXCEPT ![Ask(k).id] = @ + 1]
    /\ steady' = steady \cap ActiveEntries(fs)
    /\ Answered(k, result)
    /\ UNCHANGED <<load, readers>>

\* A transaction on the family of the call, whose revision goes up.
SavedMutant(k, f) ==
    LET a == calls[k].input.agent IN Committed(k, [families EXCEPT ![a] = f], a)

Saved(k, f) ==
    LET a == calls[k].input.agent IN
    Committed(k, [families EXCEPT ![a] = [f EXCEPT !.revision = families[a].revision + 1]], a)

Committing(k, op) == calls[k].pc = "commit" /\ calls[k].input.op = op /\ Recorded(k) = Nothing

\* What the store checks of a call before it applies it.
CurrentMutant(k) ==
    LET i == calls[k].input
        f == Family(i.agent)
    IN  /\ Live(i.agent)
        /\ CASE i.op = "begin_revision" -> Revisable(f)
             [] i.op \in {"patch_draft", "publish_draft"} -> Editable(f)
             [] OTHER -> f.lifecycle \in LifecyclesOf(i.op)

Current(k) ==
    LET i == calls[k].input
        f == Family(i.agent)
    IN  /\ SameRevision(k)
        /\ CASE i.op = "begin_revision" -> Revisable(f)
             [] i.op \in {"patch_draft", "publish_draft"} -> Editable(f)
             [] OTHER -> f.lifecycle \in LifecyclesOf(i.op)

Quota == Cardinality({a \in 1..Len(families) : Live(a)}) < MaxFamilies

Creatable(k) == Quota /\ ~NameTaken(calls[k].fields.name, 0)

CreateFamily(k) ==
    /\ Committing(k, "create_draft") /\ Creatable(k)
    /\ Committed(k, Append(families, [lifecycle |-> "draft_only", active |-> 0, revision |-> 1, versions |-> <<>>,
                                      draft |-> [rev |-> 1, based |-> 0, fields |-> calls[k].fields]]),
                 Len(families) + 1)

\* The draft must be based on the version that is still active.
BeginRevisionMutant(k) ==
    LET f == Family(calls[k].input.agent) IN
    /\ Committing(k, "begin_revision") /\ Current(k)
    /\ Saved(k, [f EXCEPT !.draft = [rev |-> 0, based |-> f.active, fields |-> calls[k].fields]])

BeginRevision(k) ==
    LET f == Family(calls[k].input.agent) IN
    /\ Committing(k, "begin_revision") /\ Current(k)
    /\ f.active = calls[k].base /\ calls[k].fields = f.versions[f.active]
    /\ Saved(k, [f EXCEPT !.draft = [rev |-> 1, based |-> f.active, fields |-> calls[k].fields]])

PatchDraft(k) ==
    LET f == Family(calls[k].input.agent) IN
    /\ Committing(k, "patch_draft") /\ Current(k)
    /\ ~NameTaken(calls[k].fields.name, calls[k].input.agent)
    /\ Saved(k, [f EXCEPT !.draft = [f.draft EXCEPT !.fields = calls[k].fields, !.rev = @ + 1]])

\* The draft becomes the next version, and the active one.
PublishDraft(k) ==
    LET f == Family(calls[k].input.agent) IN
    /\ Committing(k, "publish_draft") /\ Current(k)
    /\ Saved(k, [f EXCEPT !.lifecycle = "active", !.draft = Nothing,
                          !.versions = Append(@, f.draft.fields), !.active = Len(f.versions) + 1])

ActivateVersion(k) ==
    /\ Committing(k, "activate_version") /\ Current(k)
    /\ Saved(k, [Family(calls[k].input.agent) EXCEPT !.active = calls[k].input.version])

ArchiveFamily(k) ==
    /\ Committing(k, "archive_family") /\ Current(k)
    /\ Saved(k, [Family(calls[k].input.agent) EXCEPT !.lifecycle = "archived"])

RestoreFamily(k) ==
    /\ Committing(k, "restore_family") /\ Current(k)
    /\ Saved(k, [Family(calls[k].input.agent) EXCEPT !.lifecycle = IF Family(calls[k].input.agent).active = 0
                                                                   THEN "draft_only" ELSE "active"])

DeleteFamily(k) ==
    /\ Committing(k, "delete_family") /\ Current(k)
    /\ Saved(k, [Family(calls[k].input.agent) EXCEPT !.lifecycle = "deleted"])

\* A transaction that finds the operation recorded, or one of its checks failed.
Refuse(k) ==
    LET i == calls[k].input IN
    /\ calls[k].pc = "commit"
    /\ \/ Recorded(k) # Nothing /\ Answered(k, Recorded(k))
       \/ /\ Recorded(k) = Nothing
          /\ CASE i.op = "create_draft" -> ~Creatable(k)
               [] i.op = "patch_draft" -> ~Current(k) \/ NameTaken(calls[k].fields.name, i.agent)
               [] OTHER -> ~Current(k)
          /\ Answered(k, Answer("refused"))
    /\ UNCHANGED <<load, families, ledger, readers, steady, commits>>

-----------------------------------------------------------------------------
(* Discovery *)

\* list(): what is active, by canonical name and then by agent ID: as many entries
\* come before the one at i as precede it.
Precedes(d, e) == d.name < e.name \/ (d.name = e.name /\ d.agent < e.agent)

List ==
    LET active == ActiveEntries(families) IN
    [i \in 1..Cardinality(active) |->
        CHOOSE d \in active : Cardinality({e \in active : Precedes(e, d)}) = i - 1]

\* Where the page after a cursor begins; 0 when its entry is gone.
AfterMutant(cursor) ==
    IF cursor = Nothing THEN 1 ELSE Len(search.seen) + 1

After(cursor) ==
    IF cursor = Nothing THEN 1
    ELSE IF cursor \in Range(List) THEN 1 + CHOOSE i \in 1..Len(List) : List[i] = cursor
    ELSE 0

\* search(): the first page, or the one after the cursor of the last.
SearchPage ==
    LET from == After(search.cursor)
        page == SubSeq(List, from, IF from + PageLimit - 1 < Len(List) THEN from + PageLimit - 1 ELSE Len(List))
        more == from + Len(page) <= Len(List)
    IN
    /\ search.st \in {"idle", "open"}
    /\ IF from = 0 THEN search' = [search EXCEPT !.st = "invalid"]
       ELSE search' = [st |-> IF more THEN "open" ELSE "done", seen |-> search.seen \o page,
                       cursor |-> IF more THEN page[Len(page)] ELSE Nothing]
    /\ steady' = IF search.st = "idle" THEN ActiveEntries(families) ELSE steady
    /\ UNCHANGED <<load, families, ledger, calls, runs, commits>>

-----------------------------------------------------------------------------
(* Runs of published agents *)

\* #targetIsCurrent
TargetIsCurrentMutant(r) == Live(runs[r].agent)

TargetIsCurrent(r) ==
    LET f == Family(runs[r].agent) IN f.lifecycle = "active" /\ f.active = runs[r].version

RunStep(r, from, to) ==
    /\ runs[r].st = from
    /\ runs' = [runs EXCEPT ![r].st = to]
    /\ UNCHANGED <<load, families, ledger, calls, search, steady, commits>>

\* admitRun(): the entry of an active agent.
AdmitRun(r, a) ==
    /\ runs[r].st = "idle" /\ \E e \in ActiveEntries(families) : e.agent = a
    /\ runs' = [runs EXCEPT ![r] = [@ EXCEPT !.st = "listed", !.agent = a, !.version = Family(a).active]]
    /\ UNCHANGED <<load, families, ledger, calls, search, steady, commits>>

\* Its version is read and a grant is issued for exactly that version.
Admitted(r) == RunStep(r, "listed", "admitted")
IssueGrant(r) == RunStep(r, "admitted", IF TargetIsCurrent(r) THEN "granted" ELSE "over")

\* The child redeems the grant.
RedeemGrant(r) == RunStep(r, "granted", IF TargetIsCurrent(r) THEN "ready" ELSE "over")

\* inspectRunnerTurn(): the child's next turn loads what it is to run, and only
\* then begins the execution; the tools of the turn use what was loaded.
LoadSaved(r) ==
    /\ runs[r].st = "ready"
    /\ runs' = [runs EXCEPT ![r] = [@ EXCEPT !.st = "loaded",
                                            !.saved = Family(runs[r].agent).versions[runs[r].version]]]
    /\ UNCHANGED <<load, families, ledger, calls, search, steady, commits>>

BeginExecution(r) == RunStep(r, "loaded", IF TargetIsCurrent(r) THEN "running" ELSE "over")

\* The turn ends and its lease is closed.
RunEnds(r) == RunStep(r, "running", "over")

-----------------------------------------------------------------------------
Read(k) ==
    \/ NewDraft(k) \/ ReadRevised(k) \/ ReadPatched(k) \/ ReadPublished(k) \/ ReadActivated(k)
    \/ ReadLifecycle(k) \/ ReadVersion(k)

Commit(k) ==
    \/ CreateFamily(k) \/ BeginRevision(k) \/ PatchDraft(k) \/ PublishDraft(k) \/ ActivateVersion(k)
    \/ ArchiveFamily(k) \/ RestoreFamily(k) \/ DeleteFamily(k) \/ Refuse(k)

Run(r) ==
    \/ \E a \in 1..Len(families) : AdmitRun(r, a)
    \/ Admitted(r) \/ IssueGrant(r) \/ RedeemGrant(r) \/ LoadSaved(r) \/ BeginExecution(r) \/ RunEnds(r)

Next ==
    \/ \E k \in Calls : Begin(k) \/ Replay(k) \/ Read(k) \/ Commit(k)
    \/ SearchPage
    \/ \E r \in Runs : Run(r)

Spec == Init /\ [][Next]_vars

-----------------------------------------------------------------------------
(* Properties *)

\* An operation ID is carried out once, however often and by whom it is used, and
\* everyone who repeats the same request is told the one result (mutate() and its
\* ledger, with fresh agent and draft IDs in every attempt).
AppliedOnce ==
    /\ \A o \in OpIds : commits[o] <= 1
    /\ \A j, k \in Calls :
         /\ Ask(j) # Nothing /\ Ask(k) # Nothing /\ Ask(j).id = Ask(k).id
         /\ calls[j].answer.st = "ok" /\ calls[k].answer.st = "ok"
         => calls[j].input = calls[k].input /\ calls[j].answer = calls[k].answer

\* What a call has asked the service for, once it has been authorised.
Sent(k) ==
    IF calls[k].input = Nothing THEN Nothing ELSE [id |-> Ask(k).id, input |-> calls[k].input]

\* The service does what AtomicAgents promises.
Service == INSTANCE AtomicAgents WITH
    asked <- [k \in Calls |-> Sent(k)], told <- [k \in Calls |-> calls[k].answer]

\* Every call is atomic although it reads and commits in steps of their own: what it
\* did, it did to the families as they were at one instant, to the state its caller
\* had seen, and when it was refused, they did not allow it at that instant.
CallsAtomic == Service!Spec

\* No edit is lost: a patch is computed from a draft that was read earlier, but
\* whatever committed in between, every committed patch is in the draft or in a
\* version of its family.
EditsKept ==
    \A o \in OpIds : ledger[o] # Nothing /\ ledger[o].input.op \in {"create_draft", "patch_draft"} =>
        LET f == Family(ledger[o].result.agent) IN
        \/ f.draft # Nothing /\ o \in f.draft.fields.edits
        \/ \E v \in Range(f.versions) : o \in v.edits

\* No two families of an owner ever reserve the same name, in a draft or in a
\* version, deleted or not, and the quota holds, whatever is created, renamed and
\* deleted at the same time.
OwnerLimits ==
    /\ \A a, b \in 1..Len(families) : a # b => NamesOf(families[a]) \cap NamesOf(families[b]) = {}
    /\ Cardinality({a \in 1..Len(families) : Live(a)}) <= MaxFamilies

\* What may become of a family in one step.
Continues(f, g) ==
    /\ IsPrefix(f.versions, g.versions)
    /\ g # f => g.revision = f.revision + 1 /\ f.lifecycle # "deleted"
    /\ g.lifecycle = "active" => g.active \in 1..Len(g.versions)
    /\ f.draft = Nothing /\ g.draft # Nothing =>
         g.draft.based = g.active /\ g.draft.fields = g.versions[g.active]

\* A family's history only grows: no version changes or disappears, the active
\* one exists, every change has a new revision, a deleted family stays as it is,
\* and a draft begun from a version starts with exactly that version's fields.
HistoryGrows == [][\A a \in 1..Len(families) : Continues(families[a], families'[a])]_vars

\* A search that was paged to its end has returned every agent that was active
\* under one name all the while, once, in order, although others were published,
\* renamed, archived or deleted between the pages.
PagesComplete ==
    search.st = "done" =>
        /\ steady \subseteq Range(search.seen)
        /\ \A i \in 1..(Len(search.seen) - 1) : search.seen[i].name < search.seen[i + 1].name

\* A run starts only on the version that is active at that moment, with exactly
\* the fields that were published, although it was admitted, granted and loaded
\* long before.
RunsActiveVersion ==
    [][\A r \in Runs : runs[r].st # "running" /\ runs'[r].st = "running" =>
        /\ Family(runs[r].agent).lifecycle = "active"
        /\ Family(runs[r].agent).versions[Family(runs[r].agent).active] = runs'[r].saved]_vars
=============================================================================
