------------------------- MODULE SavedAgentsProofs -------------------------
(* Proofs about SavedAgents for every set of calls, operation IDs, names   *)
(* and runs, and for every workload and page size.                         *)
EXTENDS SavedAgents, FiniteSetTheorems, TLAPS

-----------------------------------------------------------------------------
(* The inductive invariant *)

CallRecords ==
    [pc : {"idle", "replay", "read", "version", "commit", "done"},
     input : Inputs \cup {Nothing}, fields : Fields \cup {Nothing}, base : Nat, answer : Answers]

RunRecords ==
    [st : {"idle", "listed", "admitted", "granted", "ready", "loaded", "running", "over"},
     agent : Nat, version : Nat, saved : Fields \cup {Nothing}]

\* Everything but the search is well typed.
StoreTypes ==
    /\ load \in Workloads
    /\ families \in Seq(Families)
    /\ ledger \in [OpIds -> [input : Inputs, result : Answers] \cup {Nothing}]
    /\ calls \in [Calls -> CallRecords]
    /\ steady \subseteq Entries
    /\ runs \in [Runs -> RunRecords]
    /\ commits \in [OpIds -> Nat]

\* What a call carries is what it was asked, and fits the families it will be applied to.
CallFits(k) ==
    LET c == calls[k] i == c.input IN
    /\ c.pc \in {"replay", "read", "version", "commit"} => i # Nothing
    /\ c.pc = "idle" => i = Nothing
    /\ c.pc # "done" => c.answer.st = "none"
    /\ c.answer.st = "ok" => i # Nothing
    /\ i # Nothing =>
         /\ Ask(k) # Nothing /\ i.op = Ask(k).op /\ i.agent = Ask(k).agent /\ i.agent <= Len(families)
         /\ i.name = Ask(k).name
         /\ i.op = "activate_version" => i.version \in 1..Len(families[i.agent].versions)
    /\ c.pc = "version" =>
         /\ i.op \in {"begin_revision", "activate_version"}
         /\ i.op = "begin_revision" => c.base \in 1..Len(families[i.agent].versions)

\* What a call is about to write holds its own edit, and a patch is over the draft of the
\* store as long as the family has the revision that was read.
CallBuilds(k) ==
    LET c == calls[k] i == c.input IN
    /\ c.pc = "commit" /\ i.op \in {"create_draft", "patch_draft", "begin_revision"} => c.fields # Nothing
    /\ c.pc = "commit" /\ i.op = "create_draft" => c.fields = [name |-> Ask(k).name, edits |-> {Ask(k).id}]
    /\ c.pc = "commit" /\ i.op = "patch_draft" =>
         /\ Ask(k).id \in c.fields.edits /\ i.revision <= families[i.agent].revision
         /\ i.revision = families[i.agent].revision =>
              families[i.agent].draft # Nothing /\ c.fields = Patched(families[i.agent].draft.fields, k)

\* A call that succeeded was told what the ledger says of its operation.
CallTold(k) ==
    calls[k].answer.st = "ok" =>
      LET entry == ledger[Ask(k).id] IN
      entry # Nothing /\ entry.input = calls[k].input /\ entry.result = calls[k].answer

\* The ledger knows every operation that was committed.
LedgerTrue(o) ==
    /\ commits[o] = IF ledger[o] = Nothing THEN 0 ELSE 1
    /\ ledger[o] # Nothing => ledger[o].result.st = "ok" /\ ledger[o].result.agent \in 1..Len(families)

\* A run names a version that exists, and carries its fields once they are loaded.
RunFits(r) ==
    LET u == runs[r] IN
    u.st # "idle" =>
      /\ u.agent \in 1..Len(families) /\ u.version \in 1..Len(families[u.agent].versions)
      /\ u.st = "loaded" => u.saved = families[u.agent].versions[u.version]

\* A search in progress has returned, in the order of their names, all that has been active
\* all the while up to its cursor, and one that is done all that has been.
Searches == [st : {"idle", "open", "done", "invalid"}, seen : Seq(Entries), cursor : Entries \cup {Nothing}]

SearchFits ==
    /\ search \in Searches
    /\ search.st = "idle" => search.seen = <<>> /\ search.cursor = Nothing
    /\ search.st = "open" => search.seen # <<>> /\ search.cursor = search.seen[Len(search.seen)]
    /\ \A i, j \in 1..Len(search.seen) : i < j => search.seen[i].name < search.seen[j].name
    /\ steady \subseteq ActiveEntries(families)
    /\ search.st = "open" =>
         \A d \in steady : d = search.cursor \/ Precedes(d, search.cursor) => d \in Range(search.seen)
    /\ search.st = "done" => steady \subseteq Range(search.seen)

StoreInvariant ==
    /\ StoreTypes /\ WellKept(families)
    /\ \A k \in Calls : CallFits(k) /\ CallBuilds(k) /\ CallTold(k)
    /\ \A o \in OpIds : LedgerTrue(o)
    /\ \A r \in Runs : RunFits(r)
    /\ EditsKept

-----------------------------------------------------------------------------
(* How a family evolves *)

\* The edits that a family holds.
Edits(f) ==
    {o \in OpIds : \/ f.draft # Nothing /\ o \in f.draft.fields.edits
                   \/ \E v \in Range(f.versions) : o \in v.edits}

\* What a transaction may make of a family.
Evolves(f, g) ==
    /\ g \in Families /\ f.lifecycle # "deleted" /\ g.revision = f.revision + 1
    /\ IsPrefix(f.versions, g.versions)
    /\ Len(f.versions) <= Len(g.versions) /\ \A i \in 1..Len(f.versions) : g.versions[i] = f.versions[i]
    /\ g.active \in 0..Len(g.versions) /\ (g.lifecycle = "active" => g.active # 0)
    /\ f.draft = Nothing /\ g.draft # Nothing =>
         g.draft.based = g.active /\ g.draft.fields = g.versions[g.active]
    /\ Edits(f) \subseteq Edits(g)

\* A version that is published comes after all the others.
LEMMA Published ==
    ASSUME NEW v \in Seq(Fields), NEW x \in Fields
    PROVE  /\ Append(v, x) \in Seq(Fields) /\ Len(Append(v, x)) = Len(v) + 1
           /\ IsPrefix(v, v) /\ IsPrefix(v, Append(v, x))
           /\ \A i \in 1..Len(v) : Append(v, x)[i] = v[i]
           /\ Append(v, x)[Len(v) + 1] = x
           /\ Range(Append(v, x)) = Range(v) \cup {x}
<1>1. /\ Append(v, x) \in Seq(Fields) /\ Len(Append(v, x)) = Len(v) + 1
      /\ \A i \in 1..Len(v) : Append(v, x)[i] = v[i]
      /\ Append(v, x)[Len(v) + 1] = x
  OBVIOUS
<1>2. IsPrefix(v, v)
  BY DEF IsPrefix
<1>3. IsPrefix(v, Append(v, x))
  <2>1. SubSeq(v, 1, Len(v)) = SubSeq(Append(v, x), 1, Len(v))
    BY <1>1
  <2>. QED
    BY <1>1, <2>1 DEF IsPrefix
<1>4. Range(Append(v, x)) = Range(v) \cup {x}
  <2>1. DOMAIN Append(v, x) = 1..(Len(v) + 1) /\ DOMAIN v = 1..Len(v)
    OBVIOUS
  <2>2. \A i \in 1..(Len(v) + 1) : i \in 1..Len(v) \/ i = Len(v) + 1
    OBVIOUS
  <2>. QED
    BY <1>1, <2>1, <2>2 DEF Range
<1>. QED
  BY <1>1, <1>2, <1>3, <1>4

\* A revision begins with the fields of the active version.
LEMMA BeginRevisionEvolves ==
    ASSUME NEW f \in Families, f.lifecycle = "active", f.active \in 1..Len(f.versions), f.draft = Nothing
    PROVE  LET g == [f EXCEPT !.draft = [rev |-> 1, based |-> f.active, fields |-> f.versions[f.active]],
                              !.revision = f.revision + 1]
           IN  Evolves(f, g) /\ NamesOf(g) \subseteq NamesOf(f)
<1>. DEFINE d == [rev |-> 1, based |-> f.active, fields |-> f.versions[f.active]]
            next == f.revision + 1
            g == [f EXCEPT !.draft = d, !.revision = next]
<1>1. f.versions \in Seq(Fields) /\ f.versions[f.active] \in Fields /\ next \in Nat /\ f.active \in Nat
  BY DEF Families
<1>2. d \in Drafts /\ d.based = f.active /\ d.fields = f.versions[f.active]
  BY <1>1 DEF Drafts
<1>3. d # Nothing
  BY <1>2, NothingIsAbsent
<1>4. f.versions[f.active] \in Range(f.versions)
  BY <1>1 DEF Range
<1>. HIDE DEF d, next
<1>5. /\ g \in Families /\ g.versions = f.versions /\ g.active = f.active /\ g.draft = d
      /\ g.lifecycle = f.lifecycle /\ g.revision = next
  BY <1>1, <1>2 DEF Families
<1>. HIDE DEF g
<1>6. Edits(f) \subseteq Edits(g)
  BY <1>5 DEF Edits
<1>7. NamesOf(g) \subseteq NamesOf(f)
  BY <1>2, <1>3, <1>4, <1>5 DEF NamesOf
<1>8. IsPrefix(f.versions, g.versions)
  BY <1>1, <1>5, Published
<1>9. Evolves(f, g)
  BY <1>1, <1>2, <1>5, <1>6, <1>8 DEF Evolves, next
<1>. QED
  BY <1>7, <1>9 DEF g, d, next

\* A patch that was computed from the draft keeps its edits.
LEMMA PatchEvolves ==
    ASSUME NEW f \in Families, f.lifecycle # "deleted", f.draft # Nothing, NEW x \in Fields,
           f.draft.fields.edits \subseteq x.edits,
           f.active \in 0..Len(f.versions), f.lifecycle = "active" => f.active # 0
    PROVE  LET g == [f EXCEPT !.draft = [f.draft EXCEPT !.fields = x, !.rev = @ + 1], !.revision = f.revision + 1]
           IN  /\ Evolves(f, g) /\ NamesOf(g) \subseteq NamesOf(f) \cup {x.name}
               /\ x.edits \subseteq Edits(g)
<1>. DEFINE d == [f.draft EXCEPT !.fields = x, !.rev = @ + 1]
            next == f.revision + 1
            g == [f EXCEPT !.draft = d, !.revision = next]
<1>1. f.versions \in Seq(Fields) /\ next \in Nat /\ f.draft \in Drafts /\ f.active \in Nat
  BY DEF Families
<1>2. d \in Drafts /\ d.fields = x
  <2>. DEFINE rev == f.draft.rev + 1
  <2>1. rev \in Nat \ {0} /\ d = [f.draft EXCEPT !.fields = x, !.rev = rev]
    BY <1>1 DEF Drafts
  <2>. HIDE DEF rev
  <2>. QED
    BY <1>1, <2>1 DEF Drafts
<1>3. d # Nothing
  BY <1>2, NothingIsAbsent
<1>. HIDE DEF d, next
<1>5. /\ g \in Families /\ g.versions = f.versions /\ g.active = f.active /\ g.draft = d
      /\ g.lifecycle = f.lifecycle /\ g.revision = next
  BY <1>1, <1>2 DEF Families
<1>. HIDE DEF g
<1>6. Edits(f) \subseteq Edits(g)
  BY <1>2, <1>3, <1>5 DEF Edits
<1>7. NamesOf(g) \subseteq NamesOf(f) \cup {x.name}
  BY <1>2, <1>3, <1>5 DEF NamesOf
<1>8. IsPrefix(f.versions, g.versions)
  BY <1>1, <1>5, Published
<1>9. Evolves(f, g)
  BY <1>1, <1>2, <1>5, <1>6, <1>8 DEF Evolves, next
<1>10. x.edits \subseteq Edits(g)
  BY <1>2, <1>3, <1>5 DEF Edits, Fields
<1>. QED
  BY <1>7, <1>9, <1>10 DEF g, d, next

\* The draft's fields become the fields of the next version.
LEMMA PublishEvolves ==
    ASSUME NEW f \in Families, f.lifecycle # "deleted", f.draft # Nothing
    PROVE  LET g == [f EXCEPT !.lifecycle = "active", !.draft = Nothing,
                              !.versions = Append(@, f.draft.fields), !.active = Len(f.versions) + 1,
                              !.revision = f.revision + 1]
           IN  Evolves(f, g) /\ NamesOf(g) \subseteq NamesOf(f)
<1>. DEFINE x == f.draft.fields
            vs == Append(f.versions, x)
            last == Len(f.versions) + 1
            next == f.revision + 1
            g == [f EXCEPT !.lifecycle = "active", !.draft = Nothing, !.versions = vs, !.active = last,
                           !.revision = next]
<1>1. f.versions \in Seq(Fields) /\ next \in Nat /\ f.draft \in Drafts /\ x \in Fields
  BY DEF Families, Drafts
<1>2. /\ vs \in Seq(Fields) /\ Len(vs) = last /\ last \in Nat \ {0}
      /\ IsPrefix(f.versions, vs) /\ \A i \in 1..Len(f.versions) : vs[i] = f.versions[i]
      /\ Range(vs) = Range(f.versions) \cup {x}
      /\ Len(f.versions) <= last
  BY <1>1, Published
<1>. HIDE DEF vs, last, next
<1>3. /\ g \in Families /\ g.versions = vs /\ g.active = last /\ g.draft = Nothing
      /\ g.lifecycle = "active" /\ g.revision = next
  BY <1>1, <1>2 DEF Families, Lifecycles
<1>. HIDE DEF g, x
<1>4. Edits(f) \subseteq Edits(g)
  BY <1>2, <1>3 DEF Edits, x
<1>5. NamesOf(g) \subseteq NamesOf(f)
  BY <1>2, <1>3 DEF NamesOf, x
<1>6. Evolves(f, g)
  BY <1>2, <1>3, <1>4 DEF Evolves, next
<1>. QED
  BY <1>5, <1>6 DEF g, x, vs, last, next

\* A new lifecycle or another active version changes nothing else.
LEMMA LifecycleEvolves ==
    ASSUME NEW f \in Families, f.lifecycle # "deleted", NEW l \in Lifecycles, NEW n \in 0..Len(f.versions),
           l = "active" => n # 0
    PROVE  LET g == [f EXCEPT !.lifecycle = l, !.active = n, !.revision = f.revision + 1]
           IN  Evolves(f, g) /\ NamesOf(g) \subseteq NamesOf(f)
<1>. DEFINE next == f.revision + 1
            g == [f EXCEPT !.lifecycle = l, !.active = n, !.revision = next]
<1>1. f.versions \in Seq(Fields) /\ next \in Nat /\ n \in Nat
  BY DEF Families
<1>. HIDE DEF next
<1>2. /\ g \in Families /\ g.versions = f.versions /\ g.active = n /\ g.draft = f.draft
      /\ g.lifecycle = l /\ g.revision = next
  BY <1>1 DEF Families
<1>. HIDE DEF g
<1>3. Edits(f) \subseteq Edits(g) /\ NamesOf(g) \subseteq NamesOf(f)
  BY <1>2 DEF Edits, NamesOf
<1>4. IsPrefix(f.versions, g.versions)
  BY <1>1, <1>2 DEF IsPrefix
<1>5. Evolves(f, g)
  BY <1>1, <1>2, <1>3, <1>4 DEF Evolves, next
<1>. QED
  BY <1>3, <1>5 DEF g, next

-----------------------------------------------------------------------------
(* What a transaction does *)

\* A call that carries an input was asked for by a well-formed request.
LEMMA Asked ==
    ASSUME StoreInvariant, NEW k \in Calls, calls[k].input # Nothing
    PROVE  /\ Ask(k) \in Requests /\ Ask(k).id \in OpIds
           /\ calls[k] \in CallRecords /\ calls[k].input \in Inputs
           /\ calls[k].input.op = Ask(k).op /\ calls[k].input.agent = Ask(k).agent
           /\ calls[k].input.op # "create_draft" => calls[k].input.agent \in 1..Len(families)
<1>1. Ask(k) \in Requests \cup {Nothing}
  BY WorkloadsOK DEF StoreInvariant, StoreTypes, Ask
<1>2. CallFits(k) /\ calls[k] \in CallRecords
  BY DEF StoreInvariant, StoreTypes
<1>3. /\ Ask(k) # Nothing /\ calls[k].input.op = Ask(k).op /\ calls[k].input.agent = Ask(k).agent
      /\ calls[k].input.agent <= Len(families)
  BY <1>2 DEF CallFits
<1>4. calls[k].input \in Inputs
  BY <1>2 DEF CallRecords
<1>5. Len(families) \in Nat
  BY DEF StoreInvariant, StoreTypes
<1>. QED
  BY <1>1, <1>2, <1>3, <1>4, <1>5 DEF Requests

\* The family that a call finds as it expects it.
LEMMA FoundFamily ==
    ASSUME StoreInvariant, NEW k \in Calls, SameRevision(k)
    PROVE  LET a == calls[k].input.agent f == families[a] IN
           /\ a \in 1..Len(families) /\ f \in Families /\ f.lifecycle # "deleted"
           /\ f.active \in 0..Len(f.versions) /\ (f.lifecycle = "active" => f.active # 0)
           /\ f.revision = calls[k].input.revision
BY DEF SameRevision, Live, Family, StoreInvariant, StoreTypes, WellKept

\* A transaction makes a step of the family's evolution of the one it is about.
Updates(k, g) ==
    LET a == calls[k].input.agent IN
    /\ a \in 1..Len(families) /\ Evolves(families[a], g)
    /\ Committed(k, [families EXCEPT ![a] = g], a)
    /\ \E n \in Names \cup {0} : /\ NamesOf(g) \subseteq NamesOf(families[a]) \cup {n}
                                 /\ n # 0 => ~NameTaken(n, a)
    /\ calls[k].input.op # "create_draft"
    /\ calls[k].input.op = "patch_draft" => Ask(k).id \in Edits(g)

\* Or adds one with a free name.
NewFamily(fields) ==
    [lifecycle |-> "draft_only", active |-> 0, revision |-> 1, versions |-> <<>>,
     draft |-> [rev |-> 1, based |-> 0, fields |-> fields]]

Adds(k) ==
    /\ Creatable(k) /\ calls[k].fields \in Fields
    /\ Ask(k).id \in calls[k].fields.edits
    /\ Committed(k, Append(families, NewFamily(calls[k].fields)), Len(families) + 1)

\* Every transaction is refused, adds a family or makes one evolve.
LEMMA CommitShape ==
    ASSUME StoreInvariant, NEW k \in Calls, Commit(k), ~Refuse(k)
    PROVE  /\ calls[k].pc = "commit" /\ Recorded(k) = Nothing
           /\ Adds(k) \/ \E g \in Families : Updates(k, g)
<1>. DEFINE c == calls[k]
            i == c.input
            a == i.agent
            f == families[a]
<1>0. calls[k].pc = "commit" /\ Recorded(k) = Nothing
  BY DEF Commit, CreateFamily, BeginRevision, PatchDraft, PublishDraft, ActivateVersion, ArchiveFamily,
         RestoreFamily, DeleteFamily, Committing
<1>1. /\ c.input # Nothing /\ CallFits(k) /\ CallBuilds(k) /\ c \in CallRecords
  BY <1>0 DEF StoreInvariant, StoreTypes, CallFits
<1>2. SameRevision(k) =>
        /\ a \in 1..Len(families) /\ f \in Families /\ f.lifecycle # "deleted" /\ f.versions \in Seq(Fields)
        /\ f.active \in 0..Len(f.versions) /\ (f.lifecycle = "active" => f.active # 0)
        /\ f.revision = i.revision
  BY FoundFamily DEF Families
<1>3. ASSUME NEW g \in Families, NEW h, Current(k), Evolves(f, g), NamesOf(g) \subseteq NamesOf(f),
             i.op \notin {"create_draft", "patch_draft"}, Saved(k, h), g = [h EXCEPT !.revision = f.revision + 1]
      PROVE  Updates(k, g)
  <2>1. a \in 1..Len(families) /\ Committed(k, [families EXCEPT ![a] = g], a)
    BY <1>2, <1>3 DEF Saved, Current
  <2>. QED
    BY <1>3, <2>1 DEF Updates
<1>4. CASE CreateFamily(k)
  <2>1. c.fields \in Fields /\ Ask(k).id \in c.fields.edits
    BY <1>1, <1>4 DEF CreateFamily, Committing, CallBuilds, CallRecords
  <2>2. Adds(k)
    BY <1>4, <2>1 DEF CreateFamily, Adds, NewFamily
  <2>. QED
    BY <1>0, <2>2
<1>5. CASE BeginRevision(k)
  <2>. DEFINE h == [f EXCEPT !.draft = [rev |-> 1, based |-> f.active, fields |-> f.versions[f.active]]]
              g == [f EXCEPT !.draft = [rev |-> 1, based |-> f.active, fields |-> f.versions[f.active]],
                             !.revision = f.revision + 1]
  <2>1. /\ Current(k) /\ SameRevision(k) /\ i.op = "begin_revision" /\ Revisable(f)
        /\ c.fields = f.versions[f.active] /\ Saved(k, h)
    BY <1>5 DEF BeginRevision, Committing, Current, Family
  <2>2. f.active \in 1..Len(f.versions) /\ f.lifecycle = "active" /\ f.draft = Nothing
    BY <1>2, <2>1 DEF Revisable
  <2>3. Evolves(f, g) /\ NamesOf(g) \subseteq NamesOf(f)
    BY <1>2, <2>1, <2>2, BeginRevisionEvolves
  <2>4. g = [h EXCEPT !.revision = f.revision + 1]
    BY <1>2, <2>1 DEF Families
  <2>. HIDE DEF g, h
  <2>5. Updates(k, g)
    BY <1>3, <2>1, <2>3, <2>4 DEF Evolves
  <2>. QED
    BY <1>0, <2>3, <2>5 DEF Evolves
<1>6. CASE PatchDraft(k)
  <2>. DEFINE x == c.fields
              h == [f EXCEPT !.draft = [f.draft EXCEPT !.fields = x, !.rev = @ + 1]]
              g == [f EXCEPT !.draft = [f.draft EXCEPT !.fields = x, !.rev = @ + 1],
                             !.revision = f.revision + 1]
  <2>1. /\ SameRevision(k) /\ i.op = "patch_draft" /\ Editable(f) /\ ~NameTaken(x.name, a) /\ Saved(k, h)
    BY <1>6 DEF PatchDraft, Committing, Current, Family
  <2>2. x \in Fields /\ Ask(k).id \in x.edits /\ f.draft.fields.edits \subseteq x.edits /\ f.draft # Nothing
    <3>1. x \in Fields /\ x = Patched(f.draft.fields, k) /\ Ask(k).id \in x.edits /\ f.draft # Nothing
      BY <1>0, <1>1, <1>2, <2>1 DEF CallBuilds, CallRecords
    <3>2. f.draft.fields.edits \subseteq Patched(f.draft.fields, k).edits
      BY DEF Patched
    <3>. QED
      BY <3>1, <3>2
  <2>3. Evolves(f, g) /\ NamesOf(g) \subseteq NamesOf(f) \cup {x.name} /\ x.edits \subseteq Edits(g)
    BY <1>2, <2>1, <2>2, PatchEvolves
  <2>4. g = [h EXCEPT !.revision = f.revision + 1]
    BY <1>2, <2>1 DEF Families
  <2>. HIDE DEF g, h
  <2>5. Committed(k, [families EXCEPT ![a] = g], a)
    BY <2>1, <2>4 DEF Saved
  <2>6. x.name \in Names
    BY <2>2 DEF Fields
  <2>7. Updates(k, g)
    BY <1>2, <2>1, <2>2, <2>3, <2>5, <2>6 DEF Updates
  <2>. QED
    BY <1>0, <2>3, <2>7 DEF Evolves
<1>7. CASE PublishDraft(k)
  <2>. DEFINE h == [f EXCEPT !.lifecycle = "active", !.draft = Nothing,
                             !.versions = Append(@, f.draft.fields), !.active = Len(f.versions) + 1]
              g == [f EXCEPT !.lifecycle = "active", !.draft = Nothing,
                             !.versions = Append(@, f.draft.fields), !.active = Len(f.versions) + 1,
                             !.revision = f.revision + 1]
  <2>1. Current(k) /\ SameRevision(k) /\ i.op = "publish_draft" /\ f.draft # Nothing /\ Saved(k, h)
    BY <1>7 DEF PublishDraft, Committing, Current, Family, Editable
  <2>2. Evolves(f, g) /\ NamesOf(g) \subseteq NamesOf(f)
    BY <1>2, <2>1, PublishEvolves
  <2>3. g = [h EXCEPT !.revision = f.revision + 1]
    BY <1>2, <2>1 DEF Families
  <2>. HIDE DEF g, h
  <2>4. Updates(k, g)
    BY <1>3, <2>1, <2>2, <2>3 DEF Evolves
  <2>. QED
    BY <1>0, <2>2, <2>4 DEF Evolves
<1>8. ASSUME NEW l \in Lifecycles, NEW n \in 0..Len(f.versions), NEW h, l = "active" => n # 0, Current(k),
             Saved(k, h), h = [f EXCEPT !.lifecycle = l, !.active = n],
             i.op \notin {"create_draft", "patch_draft"}
      PROVE  \E g \in Families : Updates(k, g)
  <2>. DEFINE g == [f EXCEPT !.lifecycle = l, !.active = n, !.revision = f.revision + 1]
  <2>1. SameRevision(k)
    BY <1>8 DEF Current
  <2>2. Evolves(f, g) /\ NamesOf(g) \subseteq NamesOf(f)
    BY <1>2, <1>8, <2>1, LifecycleEvolves
  <2>3. g = [h EXCEPT !.revision = f.revision + 1]
    BY <1>2, <1>8, <2>1 DEF Families
  <2>. HIDE DEF g
  <2>4. Updates(k, g)
    BY <1>3, <1>8, <2>2, <2>3 DEF Evolves
  <2>. QED
    BY <2>2, <2>4 DEF Evolves
<1>9. CASE ActivateVersion(k)
  <2>1. /\ Current(k) /\ SameRevision(k) /\ i.op = "activate_version" /\ f.lifecycle = "active"
        /\ Saved(k, [f EXCEPT !.active = i.version])
    BY <1>9 DEF ActivateVersion, Committing, Current, Family, LifecyclesOf
  <2>2. i.version \in 1..Len(f.versions)
    BY <1>1, <2>1 DEF CallFits
  <2>3. [f EXCEPT !.active = i.version] = [f EXCEPT !.lifecycle = "active", !.active = i.version]
    BY <1>2, <2>1 DEF Families
  <2>4. i.version \in 0..Len(f.versions) /\ i.version # 0 /\ "active" \in Lifecycles
    BY <1>2, <2>1, <2>2 DEF Lifecycles
  <2>5. i.op \notin {"create_draft", "patch_draft"}
    BY <2>1
  <2>. QED
    BY <1>0, <1>8, <2>1, <2>3, <2>4, <2>5
<1>10. CASE ArchiveFamily(k) \/ DeleteFamily(k)
  <2>1. PICK l \in {"archived", "deleted"} : Saved(k, [f EXCEPT !.lifecycle = l])
    BY <1>10 DEF ArchiveFamily, DeleteFamily, Family
  <2>2. Current(k) /\ SameRevision(k) /\ i.op \in {"archive_family", "delete_family"}
    BY <1>10 DEF ArchiveFamily, DeleteFamily, Committing, Current
  <2>3. [f EXCEPT !.lifecycle = l] = [f EXCEPT !.lifecycle = l, !.active = f.active]
    BY <1>2, <2>2 DEF Families
  <2>. QED
    BY <1>0, <1>2, <1>8, <2>1, <2>2, <2>3 DEF Lifecycles
<1>11. CASE RestoreFamily(k)
  <2>. DEFINE l == IF f.active = 0 THEN "draft_only" ELSE "active"
  <2>1. Saved(k, [f EXCEPT !.lifecycle = l])
    BY <1>11 DEF RestoreFamily, Family
  <2>2. Current(k) /\ SameRevision(k) /\ i.op = "restore_family"
    BY <1>11 DEF RestoreFamily, Committing, Current
  <2>3. [f EXCEPT !.lifecycle = l] = [f EXCEPT !.lifecycle = l, !.active = f.active]
    BY <1>2, <2>2 DEF Families
  <2>4. l \in Lifecycles /\ (l = "active" => f.active # 0)
    BY DEF Lifecycles
  <2>. HIDE DEF l
  <2>. QED
    BY <1>0, <1>2, <1>8, <2>1, <2>2, <2>3, <2>4
<1>. QED
  BY <1>4, <1>5, <1>6, <1>7, <1>9, <1>10, <1>11 DEF Commit

\* Whatever happens, the families evolve or stay, and the ledger forgets nothing.
Grown ==
    /\ families' \in Seq(Families) /\ Len(families) <= Len(families')
    /\ \A b \in 1..Len(families) : families'[b] = families[b] \/ Evolves(families[b], families'[b])
    /\ \A o \in OpIds : ledger[o] # Nothing => ledger'[o] = ledger[o]
    /\ load' = load

\* An active agent is listed under a name of its own.
LEMMA EntriesTypes ==
    ASSUME NEW fs \in Seq(Families),
           \A a \in 1..Len(fs) : /\ fs[a].active \in 0..Len(fs[a].versions)
                                 /\ fs[a].lifecycle = "active" => fs[a].active # 0
    PROVE  ActiveEntries(fs) \subseteq Entries
<1>. SUFFICES ASSUME NEW a \in 1..Len(fs), fs[a].lifecycle = "active"
              PROVE  fs[a].versions[fs[a].active].name \in Names /\ a \in Nat
  BY DEF ActiveEntries, Entries
<1>1. fs[a] \in Families
  OBVIOUS
<1>2. fs[a].active \in 1..Len(fs[a].versions) /\ fs[a].versions \in Seq(Fields)
  BY <1>1 DEF Families
<1>3. fs[a].versions[fs[a].active] \in Fields
  BY <1>2
<1>. QED
  BY <1>3 DEF Fields

\* The live families of a bucket are finitely many.
LEMMA LiveFinite ==
    ASSUME NEW fs \in Seq(Families)
    PROVE  /\ IsFiniteSet({a \in 1..Len(fs) : fs[a].lifecycle # "deleted"})
           /\ Cardinality({a \in 1..Len(fs) : fs[a].lifecycle # "deleted"}) \in Nat
<1>1. IsFiniteSet(1..Len(fs))
  BY FS_Interval
<1>. QED
  BY <1>1, FS_Subset, FS_CardinalityType

\* A new family takes a place of the quota, and a name that no other has.
LEMMA AddKeeps ==
    ASSUME StoreInvariant, NEW k \in Calls, Adds(k)
    PROVE  LET fs == Append(families, NewFamily(calls[k].fields)) IN
           /\ NewFamily(calls[k].fields) \in Families
           /\ Ask(k).id \in OpIds => Ask(k).id \in Edits(NewFamily(calls[k].fields))
           /\ fs \in Seq(Families) /\ WellKept(fs)
<1>. DEFINE x == calls[k].fields
            g == NewFamily(x)
            n == Len(families)
            fs == Append(families, g)
            live == {a \in 1..n : families[a].lifecycle # "deleted"}
<1>1. families \in Seq(Families) /\ WellKept(families) /\ x \in Fields /\ n \in Nat /\ Ask(k).id \in x.edits
  BY DEF StoreInvariant, StoreTypes, Adds
<1>2. /\ g \in Families /\ g.active = 0 /\ g.lifecycle = "draft_only" /\ g.versions = <<>>
      /\ g.draft # Nothing /\ g.draft.fields = x
  <2>1. [rev |-> 1, based |-> 0, fields |-> x] \in Drafts
    BY <1>1 DEF Drafts
  <2>2. <<>> \in Seq(Fields)
    OBVIOUS
  <2>. QED
    BY <2>1, <2>2, NothingIsAbsent DEF NewFamily, Families, Lifecycles
<1>3. NamesOf(g) = {x.name}
  BY <1>2 DEF NamesOf, Range
<1>4. Ask(k).id \in OpIds => Ask(k).id \in Edits(g)
  BY <1>1, <1>2 DEF Edits
<1>. HIDE DEF g
<1>5. /\ fs \in Seq(Families) /\ Len(fs) = n + 1 /\ fs[n + 1] = g
      /\ \A a \in 1..n : fs[a] = families[a]
      /\ \A a \in 1..(n + 1) : a \in 1..n \/ a = n + 1
  BY <1>1, <1>2
<1>6. \A a \in 1..n : x.name \notin NamesOf(families[a])
  BY DEF Adds, Creatable, NameTaken
<1>7. {a \in 1..Len(fs) : fs[a].lifecycle # "deleted"} = live \cup {n + 1}
  BY <1>1, <1>2, <1>5
<1>8. Cardinality(live \cup {n + 1}) <= MaxFamilies
  <2>1. IsFiniteSet(live) /\ Cardinality(live) \in Nat
    BY <1>1, LiveFinite
  <2>2. {a \in 1..Len(families) : Live(a)} = live
    BY DEF Live, Family
  <2>3. Cardinality(live) < MaxFamilies
    BY <2>2 DEF Adds, Creatable, Quota
  <2>4. n + 1 \notin live
    BY <1>1
  <2>5. Cardinality(live \cup {n + 1}) = Cardinality(live) + 1
    BY <2>1, <2>4, FS_AddElement
  <2>. QED
    BY <2>1, <2>3, <2>5, SavedAgentConstants
<1>9. \A a, b \in 1..Len(fs) : a # b => NamesOf(fs[a]) \cap NamesOf(fs[b]) = {}
  <2>. SUFFICES ASSUME NEW a \in 1..Len(fs), NEW b \in 1..Len(fs), a # b
                PROVE  NamesOf(fs[a]) \cap NamesOf(fs[b]) = {}
    OBVIOUS
  <2>1. CASE a \in 1..n /\ b \in 1..n
    BY <1>1, <1>5, <2>1 DEF WellKept
  <2>2. CASE a = n + 1 /\ b \in 1..n
    BY <1>3, <1>5, <1>6, <2>2
  <2>3. CASE b = n + 1 /\ a \in 1..n
    BY <1>3, <1>5, <1>6, <2>3
  <2>. QED
    BY <1>5, <2>1, <2>2, <2>3
<1>10. ASSUME NEW a \in 1..Len(fs)
       PROVE  fs[a].active \in 0..Len(fs[a].versions) /\ (fs[a].lifecycle = "active" => fs[a].active # 0)
  <2>1. CASE a \in 1..n
    BY <1>1, <1>5, <2>1 DEF WellKept
  <2>2. CASE a = n + 1
    BY <1>2, <1>5, <2>2
  <2>. QED
    BY <1>5, <2>1, <2>2
<1>11. WellKept(fs)
  BY <1>7, <1>8, <1>9, <1>10 DEF WellKept
<1>. QED
  BY <1>2, <1>4, <1>5, <1>11 DEF g

\* A family that evolves takes no name of another, and none comes back to life.
LEMMA UpdateKeeps ==
    ASSUME StoreInvariant, NEW k \in Calls, NEW g \in Families, Updates(k, g)
    PROVE  LET a == calls[k].input.agent
               fs == [families EXCEPT ![a] = g]
           IN  fs \in Seq(Families) /\ WellKept(fs)
<1>. DEFINE a == calls[k].input.agent
            fs == [families EXCEPT ![a] = g]
            live(f) == {b \in 1..Len(f) : f[b].lifecycle # "deleted"}
<1>1. families \in Seq(Families) /\ WellKept(families) /\ a \in 1..Len(families) /\ Evolves(families[a], g)
  BY DEF StoreInvariant, StoreTypes, Updates
<1>2. /\ fs \in Seq(Families) /\ Len(fs) = Len(families) /\ fs[a] = g
      /\ \A b \in 1..Len(families) : b # a => fs[b] = families[b]
  BY <1>1
<1>. HIDE DEF fs
<1>3. PICK n \in Names \cup {0} : /\ NamesOf(g) \subseteq NamesOf(families[a]) \cup {n}
                                  /\ n # 0 => ~NameTaken(n, a)
  BY DEF Updates
<1>4. ASSUME NEW b \in 1..Len(families), b # a PROVE NamesOf(g) \cap NamesOf(families[b]) = {}
  <2>1. NamesOf(families[b]) \subseteq Names
    <3>1. families[b] \in Families
      BY <1>1
    <3>2. families[b].versions \in Seq(Fields) /\ families[b].draft \in Drafts \cup {Nothing}
      BY <3>1 DEF Families
    <3>3. Range(families[b].versions) \subseteq Fields
      BY <3>2 DEF Range
    <3>. QED
      BY <3>2, <3>3 DEF NamesOf, Fields, Drafts
  <2>2. n \notin NamesOf(families[b])
    BY <1>3, <1>4, <2>1, SavedAgentConstants DEF NameTaken
  <2>. QED
    BY <1>1, <1>3, <1>4, <2>2 DEF WellKept
<1>5. \A b, d \in 1..Len(fs) : b # d => NamesOf(fs[b]) \cap NamesOf(fs[d]) = {}
  <2>. SUFFICES ASSUME NEW b \in 1..Len(fs), NEW d \in 1..Len(fs), b # d
                PROVE  NamesOf(fs[b]) \cap NamesOf(fs[d]) = {}
    OBVIOUS
  <2>1. CASE b = a
    BY <1>2, <1>4, <2>1
  <2>2. CASE d = a
    BY <1>2, <1>4, <2>2
  <2>3. CASE b # a /\ d # a
    BY <1>1, <1>2, <2>3 DEF WellKept
  <2>. QED
    BY <2>1, <2>2, <2>3
<1>6. live(fs) \subseteq live(families)
  BY <1>1, <1>2 DEF Evolves
<1>7. Cardinality(live(fs)) <= MaxFamilies
  <2>1. IsFiniteSet(live(families)) /\ Cardinality(live(families)) \in Nat /\ Cardinality(live(fs)) \in Nat
    BY <1>1, <1>2, LiveFinite
  <2>2. Cardinality(live(fs)) <= Cardinality(live(families))
    BY <1>6, <2>1, FS_Subset
  <2>. QED
    BY <1>1, <2>1, <2>2, SavedAgentConstants DEF WellKept
<1>8. ASSUME NEW b \in 1..Len(fs)
      PROVE  fs[b].active \in 0..Len(fs[b].versions) /\ (fs[b].lifecycle = "active" => fs[b].active # 0)
  <2>1. CASE b = a
    BY <1>1, <1>2, <2>1 DEF Evolves
  <2>2. CASE b # a
    BY <1>1, <1>2, <2>2 DEF WellKept
  <2>. QED
    BY <2>1, <2>2
<1>9. WellKept(fs)
  BY <1>5, <1>7, <1>8 DEF WellKept
<1>. QED
  BY <1>2, <1>9 DEF fs

\* The operation is recorded, once, with its result.
CommitEffect(k) ==
    \E result \in Answers :
      /\ result.st = "ok" /\ result.agent \in 1..Len(families')
      /\ ledger' = [ledger EXCEPT ![Ask(k).id] = [input |-> calls[k].input, result |-> result]]
      /\ calls' = [calls EXCEPT ![k].pc = "done", ![k].answer = result]
      /\ calls[k].input.op \in {"create_draft", "patch_draft"} =>
           Ask(k).id \in Edits(families'[result.agent])

LEMMA Commits ==
    ASSUME StoreInvariant, NEW k \in Calls, Commit(k), ~Refuse(k)
    PROVE  /\ Grown /\ WellKept(families') /\ CommitEffect(k)
           /\ ledger[Ask(k).id] = Nothing
           /\ commits' = [commits EXCEPT ![Ask(k).id] = @ + 1]
           /\ steady' \subseteq Entries
           /\ UNCHANGED <<load, runs, search>>
<1>. DEFINE c == calls[k]
            o == Ask(k).id
<1>1. c.pc = "commit" /\ c.input # Nothing /\ Recorded(k) = Nothing
  BY CommitShape DEF StoreInvariant, CallFits
<1>2. o \in OpIds /\ families \in Seq(Families) /\ ledger \in [OpIds -> [input : Inputs, result : Answers] \cup {Nothing}]
      /\ Ask(k).op = c.input.op /\ steady \subseteq Entries
  BY <1>1, Asked DEF StoreInvariant, StoreTypes
<1>3. ledger[o] = Nothing
  <2>. SUFFICES ASSUME ledger[o] # Nothing PROVE FALSE
    OBVIOUS
  <2>1. ledger[o].result \in Answers /\ Answer("reused") \in Answers
    BY <1>2 DEF Answers, Answer
  <2>2. Recorded(k) \in Answers
    BY <2>1 DEF Recorded
  <2>. QED
    BY <1>1, <2>2, NothingIsAbsent
<1>4. ASSUME NEW fs \in Seq(Families), NEW a \in 1..Len(fs), Committed(k, fs, a), WellKept(fs),
             Len(families) <= Len(fs),
             \A b \in 1..Len(families) : fs[b] = families[b] \/ Evolves(families[b], fs[b]),
             c.input.op \in {"create_draft", "patch_draft"} => o \in Edits(fs[a])
      PROVE  /\ Grown /\ WellKept(families') /\ CommitEffect(k)
             /\ commits' = [commits EXCEPT ![o] = @ + 1] /\ steady' \subseteq Entries
             /\ UNCHANGED <<load, runs, search>>
  <2>. DEFINE result == [st |-> "ok", agent |-> a, revision |-> fs[a].revision]
  <2>1. /\ families' = fs /\ calls' = [calls EXCEPT ![k].pc = "done", ![k].answer = result]
        /\ ledger' = [ledger EXCEPT ![o] = [input |-> c.input, result |-> result]]
        /\ commits' = [commits EXCEPT ![o] = @ + 1] /\ steady' = steady \cap ActiveEntries(fs)
        /\ UNCHANGED <<load, runs, search>>
    BY <1>4 DEF Committed, Answered, readers
  <2>2. result \in Answers /\ result.st = "ok" /\ result.agent = a
    <3>1. fs[a] \in Families
      OBVIOUS
    <3>2. a \in Nat /\ fs[a].revision \in Nat
      BY <3>1 DEF Families
    <3>. QED
      BY <3>2 DEF Answers
  <2>. HIDE DEF result
  <2>3. CommitEffect(k)
    BY <1>4, <2>1, <2>2 DEF CommitEffect
  <2>4. Grown
    BY <1>2, <1>3, <1>4, <2>1 DEF Grown
  <2>. QED
    BY <1>2, <1>4, <2>1, <2>3, <2>4
<1>5. CASE Adds(k)
  <2>. DEFINE g == NewFamily(c.fields)
              fs == Append(families, g)
  <2>1. g \in Families /\ fs \in Seq(Families) /\ WellKept(fs) /\ o \in Edits(g)
    BY <1>2, <1>5, AddKeeps
  <2>2. Committed(k, fs, Len(families) + 1)
    BY <1>5 DEF Adds
  <2>. HIDE DEF g
  <2>3. /\ Len(fs) = Len(families) + 1 /\ fs[Len(families) + 1] = g /\ Len(families) + 1 \in 1..Len(fs)
        /\ Len(families) <= Len(fs) /\ \A b \in 1..Len(families) : fs[b] = families[b]
    BY <1>2, <2>1
  <2>. HIDE DEF fs
  <2>. QED
    BY <1>3, <1>4, <2>1, <2>2, <2>3
<1>6. ASSUME NEW g \in Families, Updates(k, g)
      PROVE  /\ Grown /\ WellKept(families') /\ CommitEffect(k)
             /\ commits' = [commits EXCEPT ![o] = @ + 1] /\ steady' \subseteq Entries
             /\ UNCHANGED <<load, runs, search>>
  <2>. DEFINE a == c.input.agent
              fs == [families EXCEPT ![a] = g]
  <2>1. fs \in Seq(Families) /\ WellKept(fs)
    BY <1>6, UpdateKeeps
  <2>2. /\ a \in 1..Len(families) /\ Evolves(families[a], g) /\ Committed(k, fs, a)
        /\ c.input.op \in {"create_draft", "patch_draft"} => o \in Edits(g)
    BY <1>6 DEF Updates
  <2>3. /\ Len(fs) = Len(families) /\ fs[a] = g
        /\ \A b \in 1..Len(families) : b # a => fs[b] = families[b]
    BY <1>2, <2>2
  <2>. HIDE DEF fs
  <2>4. \A b \in 1..Len(families) : fs[b] = families[b] \/ Evolves(families[b], fs[b])
    BY <2>2, <2>3
  <2>5. Len(families) <= Len(fs)
    BY <1>2, <2>3
  <2>. QED
    BY <1>4, <2>1, <2>2, <2>3, <2>4, <2>5
<1>. QED
  BY <1>3, <1>5, <1>6, CommitShape

-----------------------------------------------------------------------------
(* What is kept while the families grow *)

\* Where a version is, it stays.
LEMMA VersionsKept ==
    ASSUME StoreInvariant, Grown, NEW a \in 1..Len(families)
    PROVE  /\ a \in 1..Len(families') /\ families'[a] \in Families
           /\ \A i \in 1..Len(families[a].versions) :
                i \in 1..Len(families'[a].versions) /\ families'[a].versions[i] = families[a].versions[i]
           /\ Edits(families[a]) \subseteq Edits(families'[a])
           /\ families'[a] # families[a] => families'[a].revision = families[a].revision + 1
<1>1. families[a] \in Families /\ families'[a] \in Families /\ a \in 1..Len(families')
  BY DEF StoreInvariant, StoreTypes, Grown
<1>2. families[a].versions \in Seq(Fields) /\ families'[a].versions \in Seq(Fields)
  BY <1>1 DEF Families
<1>3. CASE families'[a] = families[a]
  BY <1>1, <1>3
<1>4. CASE Evolves(families[a], families'[a])
  BY <1>1, <1>2, <1>4 DEF Evolves
<1>. QED
  BY <1>3, <1>4 DEF Grown

\* A call that is not the one that moves.
LEMMA CallKept ==
    ASSUME StoreInvariant, Grown, NEW j \in Calls, calls'[j] = calls[j]
    PROVE  (CallFits(j) /\ CallBuilds(j) /\ CallTold(j))'
<1>. DEFINE c == calls[j]
            i == c.input
            a == i.agent
<1>1. CallFits(j) /\ CallBuilds(j) /\ CallTold(j) /\ Ask(j)' = Ask(j) /\ c \in CallRecords
  BY DEF StoreInvariant, StoreTypes, Grown, Ask
<1>2. CASE i = Nothing
  BY <1>1, <1>2 DEF CallFits, CallBuilds, CallTold
<1>3. CASE i # Nothing
  <2>1. /\ Ask(j) \in Requests /\ Ask(j).id \in OpIds /\ i \in Inputs /\ i.op = Ask(j).op /\ a = Ask(j).agent
        /\ i.op # "create_draft" => a \in 1..Len(families)
    BY <1>3, Asked
  <2>2. i.op # "create_draft" =>
          /\ families[a] \in Families /\ families'[a] \in Families
          /\ Len(families[a].versions) \in Nat /\ Len(families'[a].versions) \in Nat
          /\ \A n \in 1..Len(families[a].versions) : n \in 1..Len(families'[a].versions)
          /\ families'[a] # families[a] => families'[a].revision = families[a].revision + 1
    <3>. SUFFICES ASSUME i.op # "create_draft"
                  PROVE  /\ families[a] \in Families /\ families'[a] \in Families
                         /\ Len(families[a].versions) \in Nat /\ Len(families'[a].versions) \in Nat
                         /\ \A n \in 1..Len(families[a].versions) : n \in 1..Len(families'[a].versions)
                         /\ families'[a] # families[a] => families'[a].revision = families[a].revision + 1
      OBVIOUS
    <3>1. families[a] \in Families /\ families'[a] \in Families
      BY <2>1, VersionsKept DEF StoreInvariant, StoreTypes
    <3>2. Len(families[a].versions) \in Nat /\ Len(families'[a].versions) \in Nat
      BY <3>1 DEF Families
    <3>. QED
      BY <2>1, <3>1, <3>2, VersionsKept
  <2>3. CallFits(j)'
    <3>1. a <= Len(families) => a <= Len(families')
      <4>1. a \in Nat /\ Len(families) \in Nat /\ Len(families') \in Nat /\ Len(families) <= Len(families')
        BY <2>1 DEF Inputs, Grown, StoreInvariant, StoreTypes
      <4>. QED
        BY <4>1
    <3>. QED
      BY <1>1, <1>3, <2>1, <2>2, <3>1 DEF CallFits
  <2>4. CallTold(j)'
    BY <1>1, <2>1 DEF CallTold, Grown
  <2>5. CallBuilds(j)'
    <3>1. CASE c.pc = "commit" /\ i.op = "patch_draft"
      <4>1. a \in 1..Len(families) /\ families[a].revision \in Nat /\ i.revision \in Nat
        BY <2>1, <2>2, <3>1 DEF Families, Inputs
      <4>2. i.revision <= families[a].revision
        BY <1>1, <3>1 DEF CallBuilds
      <4>3. CASE families'[a] = families[a]
        BY <1>1, <3>1, <4>3 DEF CallBuilds, Patched
      <4>4. CASE families'[a].revision = families[a].revision + 1
        <5>1. i.revision <= families'[a].revision /\ i.revision # families'[a].revision
          BY <4>1, <4>2, <4>4
        <5>. QED
          BY <1>1, <3>1, <5>1 DEF CallBuilds
      <4>. QED
        BY <2>2, <3>1, <4>3, <4>4
    <3>2. CASE ~(c.pc = "commit" /\ i.op = "patch_draft")
      BY <1>1, <3>2 DEF CallBuilds
    <3>. QED
      BY <3>1, <3>2
  <2>. QED
    BY <2>3, <2>4, <2>5
<1>. QED
  BY <1>2, <1>3

\* A run that does not move.
LEMMA RunKept ==
    ASSUME StoreInvariant, Grown, NEW r \in Runs, runs'[r] = runs[r]
    PROVE  RunFits(r)'
<1>1. RunFits(r)
  BY DEF StoreInvariant
<1>. QED
  BY <1>1, VersionsKept DEF RunFits

-----------------------------------------------------------------------------
(* The other steps *)

\* A call moves, and nothing else.
Moves(k, n) ==
    /\ calls' = [calls EXCEPT ![k] = n]
    /\ UNCHANGED <<load, families, ledger, runs, steady, commits>>

\* An input that a client sends is one it has sent before, or names what it has seen.
LEMMA InputFits ==
    ASSUME StoreInvariant, NEW k \in Calls, Ask(k) \in Requests, Ask(k).agent <= Len(families),
           NEW v \in Nat,
           Ask(k).op = "activate_version" => v \in 1..Len(families[Ask(k).agent].versions)
    PROVE  LET i == InputOf(k, v) IN
           /\ i \in Inputs /\ i.op = Ask(k).op /\ i.agent = Ask(k).agent /\ i.name = Ask(k).name
           /\ i.op = "activate_version" => i.version \in 1..Len(families[i.agent].versions)
<1>. DEFINE q == Ask(k)
            before == {j \in Calls \ {k} : Ask(j) = q /\ calls[j].input # Nothing}
<1>1. CASE before # {}
  <2>. DEFINE j == CHOOSE j \in before : TRUE
  <2>1. j \in before
    BY <1>1
  <2>2. InputOf(k, v) = calls[j].input
    BY <1>1 DEF InputOf
  <2>. HIDE DEF j
  <2>3. calls[j].input \in Inputs /\ CallFits(j) /\ Ask(j) = q /\ calls[j].input # Nothing
    BY <2>1, Asked DEF StoreInvariant
  <2>. QED
    BY <2>2, <2>3 DEF CallFits
<1>2. CASE before = {}
  <2>. DEFINE rev == IF q.agent = 0 THEN 0 ELSE Family(q.agent).revision
              drev == IF q.op \in {"patch_draft", "publish_draft"} THEN DraftRevision(q.agent) ELSE 0
  <2>1. rev \in Nat /\ drev \in Nat
    <3>1. q.agent # 0 => families[q.agent] \in Families
      BY DEF StoreInvariant, StoreTypes, Requests
    <3>2. q.op \in {"patch_draft", "publish_draft"} => q.agent # 0
      BY DEF Requests
    <3>3. rev \in Nat
      BY <3>1 DEF Family, Families
    <3>4. drev \in Nat
      BY <3>1, <3>2 DEF DraftRevision, Family, Families, Drafts
    <3>. QED
      BY <3>3, <3>4
  <2>2. InputOf(k, v) = [op |-> q.op, actor |-> q.actor, agent |-> q.agent, name |-> q.name,
                         revision |-> rev, draftRevision |-> drev, version |-> v]
    BY <1>2 DEF InputOf
  <2>. HIDE DEF rev, drev
  <2>. QED
    BY <2>1, <2>2 DEF Inputs, Requests
<1>. QED
  BY <1>1, <1>2

\* A call that arrives, reads, is answered from the ledger or is refused.
LEMMA CallMoves ==
    ASSUME StoreInvariant, NEW k \in Calls,
           Begin(k) \/ Replay(k) \/ Read(k) \/ Refuse(k)
    PROVE  \E n \in CallRecords : Moves(k, n) /\ (CallFits(k) /\ CallBuilds(k) /\ CallTold(k))'
<1>. DEFINE c == calls[k]
            i == c.input
            a == i.agent
            Good == \E n \in CallRecords : Moves(k, n) /\ (CallFits(k) /\ CallBuilds(k) /\ CallTold(k))'
<1>1. /\ c \in CallRecords /\ calls \in [Calls -> CallRecords] /\ CallFits(k) /\ CallBuilds(k) /\ CallTold(k)
      /\ Ask(k) \in Requests \cup {Nothing}
  BY WorkloadsOK DEF StoreInvariant, StoreTypes, Ask
<1>2. UNCHANGED <<load, families, ledger, runs, steady, commits>>
  BY DEF Begin, Replay, Read, Refuse, NewDraft, ReadRevised, ReadPatched, ReadPublished, ReadActivated,
         ReadLifecycle, ReadVersion, Reading, readers
<1>3. Ask(k)' = Ask(k)
  BY <1>2 DEF Ask
<1>4. ASSUME NEW answer \in Answers, calls' = [calls EXCEPT ![k].pc = "done", ![k].answer = answer],
             answer.st = "ok" => /\ i # Nothing /\ ledger[Ask(k).id] # Nothing
                                 /\ ledger[Ask(k).id].input = i /\ ledger[Ask(k).id].result = answer
      PROVE  Good
  <2>. DEFINE n == [c EXCEPT !.pc = "done", !.answer = answer]
  <2>1. /\ n \in CallRecords /\ n.pc = "done" /\ n.input = i /\ n.answer = answer
        /\ calls' = [calls EXCEPT ![k] = n] /\ calls'[k] = n
    BY <1>1, <1>4 DEF CallRecords
  <2>. HIDE DEF n
  <2>2. CallFits(k)'
    BY <1>1, <1>2, <1>3, <1>4, <2>1 DEF CallFits
  <2>3. CallBuilds(k)' /\ CallTold(k)'
    BY <1>2, <1>3, <1>4, <2>1 DEF CallBuilds, CallTold
  <2>. QED
    BY <1>2, <2>1, <2>2, <2>3 DEF Moves
<1>5. Answer("refused") \in Answers /\ Answer("refused").st # "ok"
      /\ Answer("reused") \in Answers /\ Answer("reused").st # "ok"
  BY DEF Answers, Answer
<1>6. Answered(k, Answer("refused")) => Good
  BY <1>4, <1>5 DEF Answered
<1>7. ASSUME Recorded(k) # Nothing, Answered(k, Recorded(k)), i # Nothing PROVE Good
  <2>1. CASE ledger[Ask(k).id].input = i /\ ledger[Ask(k).id] # Nothing
    <3>1. Recorded(k) = ledger[Ask(k).id].result
      BY <2>1 DEF Recorded
    <3>2. ledger[Ask(k).id].result \in Answers
      BY <1>7, <2>1, Asked DEF StoreInvariant, StoreTypes
    <3>. QED
      BY <1>4, <1>7, <2>1, <3>1, <3>2 DEF Answered
  <2>2. CASE ~(ledger[Ask(k).id].input = i /\ ledger[Ask(k).id] # Nothing)
    <3>1. Recorded(k) = Answer("reused")
      BY <1>7, <2>2 DEF Recorded
    <3>. QED
      BY <1>4, <1>5, <1>7, <3>1 DEF Answered
  <2>. QED
    BY <2>1, <2>2
<1>8. ASSUME NEW n \in CallRecords, calls' = [calls EXCEPT ![k] = n], n.answer = c.answer, n.input = i, i # Nothing,
             n.pc \in {"read", "version", "commit"}, c.pc # "done",
             n.pc = "version" =>
               /\ i.op \in {"begin_revision", "activate_version"}
               /\ i.op = "begin_revision" => n.base \in 1..Len(families[i.agent].versions),
             n.pc = "commit" /\ i.op \in {"create_draft", "patch_draft", "begin_revision"} => n.fields # Nothing,
             n.pc = "commit" /\ i.op = "create_draft" => n.fields = [name |-> Ask(k).name, edits |-> {Ask(k).id}],
             n.pc = "commit" /\ i.op = "patch_draft" =>
               /\ Ask(k).id \in n.fields.edits /\ i.revision = families[a].revision
               /\ families[a].draft # Nothing /\ n.fields = Patched(families[a].draft.fields, k)
      PROVE  Good
  <2>1. calls'[k] = n
    BY <1>1, <1>8
  <2>2. CallFits(k)'
    BY <1>1, <1>2, <1>3, <1>8, <2>1 DEF CallFits
  <2>3. CallTold(k)'
    BY <1>1, <1>2, <1>3, <1>8, <2>1 DEF CallTold
  <2>4. n.pc = "commit" /\ i.op = "patch_draft" => i.revision <= families[a].revision
    <3>1. i.revision \in Nat
      BY <1>1, <1>8 DEF CallRecords, Inputs
    <3>. QED
      BY <1>8, <3>1
  <2>5. CallBuilds(k)'
    BY <1>2, <1>3, <1>8, <2>1, <2>4 DEF CallBuilds, Patched
  <2>. QED
    BY <1>2, <1>8, <2>2, <2>3, <2>5 DEF Moves
<1>9. ASSUME Begin(k) PROVE Good
  <2>1. /\ c.pc = "idle" /\ Ask(k) \in Requests /\ Ask(k).agent <= Len(families)
    BY <1>1, <1>9 DEF Begin
  <2>2. CASE ~Resolves(k)
    BY <1>6, <1>9, <2>2 DEF Begin
  <2>3. CASE Resolves(k)
    <3>1. PICK v \in IF Ask(k).op = "activate_version" THEN 1..Len(Family(Ask(k).agent).versions) ELSE {0} :
            calls' = [calls EXCEPT ![k].pc = "replay", ![k].input = InputOf(k, v)]
      BY <1>9, <2>3 DEF Begin
    <3>. DEFINE j == InputOf(k, v)
                n == [c EXCEPT !.pc = "replay", !.input = j]
    <3>2. /\ j \in Inputs /\ j.op = Ask(k).op /\ j.agent = Ask(k).agent
          /\ j.op = "activate_version" => j.version \in 1..Len(families[j.agent].versions)
          /\ j.name = Ask(k).name
      BY <2>1, <3>1, InputFits DEF Family
    <3>3. j # Nothing
      BY <3>2, NothingIsAbsent
    <3>. HIDE DEF j
    <3>4. /\ n \in CallRecords /\ calls' = [calls EXCEPT ![k] = n] /\ calls'[k] = n
          /\ n.pc = "replay" /\ n.input = j /\ n.answer = c.answer
      BY <1>1, <3>1, <3>2 DEF CallRecords, j
    <3>5. Ask(k) # Nothing
      BY <2>1, NothingIsAbsent
    <3>6. c.answer.st = "none"
      BY <1>1, <2>1 DEF CallFits
    <3>. HIDE DEF n
    <3>7. CallFits(k)' /\ CallBuilds(k)' /\ CallTold(k)'
      BY <1>2, <1>3, <2>1, <3>2, <3>3, <3>4, <3>5, <3>6 DEF CallFits, CallBuilds, CallTold
    <3>. QED
      BY <1>2, <3>4, <3>7 DEF Moves
  <2>. QED
    BY <2>2, <2>3
<1>10. ASSUME Replay(k) PROVE Good
  <2>1. c.pc = "replay" /\ i # Nothing
    BY <1>1, <1>10 DEF Replay, CallFits
  <2>2. CASE Recorded(k) # Nothing
    BY <1>7, <1>10, <2>1, <2>2 DEF Replay
  <2>3. CASE Recorded(k) = Nothing
    <3>. DEFINE n == [c EXCEPT !.pc = "read"]
    <3>1. /\ n \in CallRecords /\ calls' = [calls EXCEPT ![k] = n]
          /\ n.answer = c.answer /\ n.input = i /\ n.pc = "read"
      BY <1>1, <1>10, <2>3 DEF Replay, CallRecords
    <3>. HIDE DEF n
    <3>. QED
      BY <1>8, <2>1, <3>1
  <2>. QED
    BY <2>2, <2>3
<1>11. ASSUME Refuse(k) PROVE Good
  <2>1. i # Nothing
    BY <1>1, <1>11 DEF Refuse, CallFits
  <2>. QED
    BY <1>6, <1>7, <1>11, <2>1 DEF Refuse
<1>12. ASSUME c.pc \in {"read", "version"}
       PROVE  i # Nothing /\ i \in Inputs /\ Ask(k) \in Requests /\ Ask(k).id \in OpIds /\ i.op = Ask(k).op
  <2>1. i # Nothing
    BY <1>1, <1>12 DEF CallFits
  <2>. QED
    BY <2>1, Asked
<1>13. ASSUME NewDraft(k) PROVE Good
  <2>. DEFINE x == [name |-> Ask(k).name, edits |-> {Ask(k).id}]
              n == [c EXCEPT !.pc = "commit", !.fields = x]
  <2>1. c.pc = "read" /\ i.op = "create_draft" /\ calls' = [calls EXCEPT ![k].pc = "commit", ![k].fields = x]
    BY <1>13 DEF NewDraft, Reading
  <2>2. i # Nothing /\ x \in Fields
    BY <1>12, <2>1 DEF Requests, Fields
  <2>3. x # Nothing
    BY <2>2, NothingIsAbsent
  <2>. HIDE DEF x
  <2>4. /\ n \in CallRecords /\ calls' = [calls EXCEPT ![k] = n]
        /\ n.answer = c.answer /\ n.input = i /\ n.pc = "commit" /\ n.fields = x
    BY <1>1, <2>1, <2>2 DEF CallRecords
  <2>. HIDE DEF n
  <2>. QED
    BY <1>8, <2>1, <2>2, <2>3, <2>4 DEF x
<1>14. ASSUME ReadRevised(k) PROVE Good
  <2>1. c.pc = "read" /\ i.op = "begin_revision"
    BY <1>14 DEF ReadRevised, Reading
  <2>2. CASE ~(SameRevision(k) /\ Revisable(Family(a)))
    BY <1>6, <1>14, <2>2 DEF ReadRevised, Proceed
  <2>3. CASE SameRevision(k) /\ Revisable(Family(a))
    <3>. DEFINE n == [c EXCEPT !.pc = "version", !.base = families[a].active]
    <3>1. calls' = [calls EXCEPT ![k] = n]
      BY <1>14, <2>3 DEF ReadRevised, Proceed, Family
    <3>2. /\ families[a] \in Families /\ families[a].active \in 0..Len(families[a].versions)
          /\ families[a].active # 0 /\ families[a].versions \in Seq(Fields)
      BY <2>3, FoundFamily DEF Revisable, Family, Families
    <3>3. families[a].active \in 1..Len(families[a].versions) /\ families[a].active \in Nat
      BY <3>2
    <3>4. /\ n \in CallRecords /\ n.answer = c.answer /\ n.input = i /\ n.pc = "version"
          /\ n.base = families[a].active
      BY <1>1, <3>3 DEF CallRecords
    <3>. HIDE DEF n
    <3>. QED
      BY <1>8, <1>12, <2>1, <3>1, <3>3, <3>4
  <2>. QED
    BY <2>2, <2>3
<1>15. ASSUME ReadPatched(k) PROVE Good
  <2>1. c.pc = "read" /\ i.op = "patch_draft"
    BY <1>15 DEF ReadPatched, Reading
  <2>2. CASE ~(SameRevision(k) /\ Editable(Family(a)))
    BY <1>6, <1>15, <2>2 DEF ReadPatched, Proceed
  <2>3. CASE SameRevision(k) /\ Editable(Family(a))
    <3>. DEFINE d == families[a].draft
                x == Patched(d.fields, k)
                n == [c EXCEPT !.pc = "commit", !.fields = x]
    <3>1. calls' = [calls EXCEPT ![k] = n]
      BY <1>15, <2>3 DEF ReadPatched, Proceed, Family
    <3>2. families[a] \in Families /\ families[a].revision = i.revision /\ d # Nothing
      BY <2>3, FoundFamily DEF Editable, Family
    <3>3. d.fields \in Fields
      BY <3>2 DEF Families, Drafts
    <3>4. x \in Fields /\ Ask(k).id \in x.edits
      BY <1>12, <2>1, <3>3 DEF Patched, Fields, Requests
    <3>5. x # Nothing
      BY <3>4, NothingIsAbsent
    <3>. HIDE DEF x
    <3>6. /\ n \in CallRecords /\ n.answer = c.answer /\ n.input = i /\ n.pc = "commit" /\ n.fields = x
      BY <1>1, <3>4 DEF CallRecords
    <3>. HIDE DEF n
    <3>. QED
      BY <1>8, <1>12, <2>1, <3>1, <3>2, <3>4, <3>5, <3>6 DEF x
  <2>. QED
    BY <2>2, <2>3
<1>16. ASSUME NEW check, Proceed(k, check, [c EXCEPT !.pc = "commit"]), c.pc = "read",
              i.op \notin {"create_draft", "patch_draft", "begin_revision"}
       PROVE  Good
  <2>. DEFINE n == [c EXCEPT !.pc = "commit"]
  <2>1. CASE ~check
    BY <1>6, <1>16, <2>1 DEF Proceed
  <2>2. CASE check
    <3>1. /\ n \in CallRecords /\ n.answer = c.answer /\ n.input = i /\ n.pc = "commit"
          /\ calls' = [calls EXCEPT ![k] = n]
      BY <1>1, <1>16, <2>2 DEF CallRecords, Proceed
    <3>. HIDE DEF n
    <3>. QED
      BY <1>8, <1>12, <1>16, <3>1
  <2>. QED
    BY <2>1, <2>2
<1>17. ASSUME ReadPublished(k) \/ ReadLifecycle(k) PROVE Good
  BY <1>16, <1>17 DEF ReadPublished, ReadLifecycle, Reading
<1>18. ASSUME ReadActivated(k) PROVE Good
  <2>. DEFINE n == [c EXCEPT !.pc = "version"]
  <2>1. c.pc = "read" /\ i.op = "activate_version"
    BY <1>18 DEF ReadActivated, Reading
  <2>2. calls' = [calls EXCEPT ![k] = n] \/ Answered(k, Answer("refused"))
    BY <1>18 DEF ReadActivated, Proceed
  <2>3. n \in CallRecords /\ n.answer = c.answer /\ n.input = i /\ n.pc = "version"
    BY <1>1 DEF CallRecords
  <2>. HIDE DEF n
  <2>. QED
    BY <1>6, <1>8, <1>12, <2>1, <2>2, <2>3
<1>19. ASSUME ReadVersion(k) PROVE Good
  <2>. DEFINE x == IF i.op = "begin_revision" THEN families[a].versions[c.base] ELSE c.fields
              n == [c EXCEPT !.pc = "commit", !.fields = x]
  <2>1. c.pc = "version" /\ calls' = [calls EXCEPT ![k] = n]
    BY <1>1, <1>19 DEF ReadVersion, Family
  <2>2. i.op \in {"begin_revision", "activate_version"} /\ i # Nothing
    BY <1>1, <1>12, <2>1 DEF CallFits
  <2>3. x \in Fields \cup {Nothing} /\ (i.op = "begin_revision" => x # Nothing)
    <3>1. CASE i.op = "begin_revision"
      <4>1. c.base \in 1..Len(families[a].versions) /\ a \in 1..Len(families)
        BY <1>1, <2>1, <2>2, <3>1, Asked DEF CallFits
      <4>2. families[a] \in Families
        BY <4>1 DEF StoreInvariant, StoreTypes
      <4>3. families[a].versions[c.base] \in Fields
        BY <4>1, <4>2 DEF Families
      <4>. QED
        BY <3>1, <4>3, NothingIsAbsent
    <3>2. CASE i.op # "begin_revision"
      BY <1>1, <3>2 DEF CallRecords
    <3>. QED
      BY <3>1, <3>2
  <2>. HIDE DEF x
  <2>4. n \in CallRecords /\ n.answer = c.answer /\ n.input = i /\ n.pc = "commit" /\ n.fields = x
    BY <1>1, <2>3 DEF CallRecords
  <2>. HIDE DEF n
  <2>. QED
    BY <1>8, <2>1, <2>2, <2>3, <2>4
<1>. QED
  BY <1>9, <1>10, <1>11, <1>13, <1>14, <1>15, <1>17, <1>18, <1>19 DEF Read

\* A run is admitted for an active version, and carries what it loads.
LEMMA RunMoves ==
    ASSUME StoreInvariant, NEW r \in Runs, Run(r)
    PROVE  /\ UNCHANGED <<load, families, ledger, calls, steady, commits>>
           /\ runs' \in [Runs -> RunRecords] /\ \A q \in Runs \ {r} : runs'[q] = runs[q]
           /\ RunFits(r)'
           /\ runs[r].st # "running" /\ runs'[r].st = "running" => runs[r].st = "loaded" /\ TargetIsCurrent(r)
           /\ runs'[r].st = "running" => runs'[r].saved = runs[r].saved
<1>. DEFINE u == runs[r]
            Good == /\ UNCHANGED <<load, families, ledger, calls, steady, commits>>
                    /\ runs' \in [Runs -> RunRecords] /\ \A q \in Runs \ {r} : runs'[q] = runs[q]
                    /\ RunFits(r)'
                    /\ runs[r].st # "running" /\ runs'[r].st = "running" => runs[r].st = "loaded" /\ TargetIsCurrent(r)
                    /\ runs'[r].st = "running" => runs'[r].saved = runs[r].saved
<1>1. u \in RunRecords /\ runs \in [Runs -> RunRecords] /\ RunFits(r) /\ families \in Seq(Families)
  BY DEF StoreInvariant, StoreTypes
<1>2. ASSUME NEW from, NEW to, RunStep(r, from, to), from # "idle",
             to \in {"admitted", "granted", "ready", "running", "over"},
             to = "running" => from = "loaded" /\ TargetIsCurrent(r)
      PROVE  Good
  <2>. DEFINE n == [u EXCEPT !.st = to]
  <2>1. u.st = from /\ runs' = [runs EXCEPT ![r] = n] /\ UNCHANGED <<load, families, ledger, calls, steady, commits>>
    BY <1>1, <1>2 DEF RunStep
  <2>2. n \in RunRecords /\ n.st = to /\ n.agent = u.agent /\ n.version = u.version /\ n.saved = u.saved
    BY <1>1, <1>2 DEF RunRecords
  <2>. HIDE DEF n
  <2>3. runs'[r] = n /\ runs' \in [Runs -> RunRecords] /\ \A q \in Runs \ {r} : runs'[q] = runs[q]
    BY <1>1, <2>1, <2>2
  <2>4. RunFits(r)'
    BY <1>1, <1>2, <2>1, <2>2, <2>3 DEF RunFits
  <2>. QED
    BY <1>2, <2>1, <2>2, <2>3, <2>4
<1>3. ASSUME NEW a \in 1..Len(families), AdmitRun(r, a) PROVE Good
  <2>. DEFINE n == [u EXCEPT !.st = "listed", !.agent = a, !.version = families[a].active]
  <2>1. runs' = [runs EXCEPT ![r] = n] /\ UNCHANGED <<load, families, ledger, calls, steady, commits>>
    BY <1>3 DEF AdmitRun, Family
  <2>2. families[a].lifecycle = "active"
    BY <1>3 DEF AdmitRun, ActiveEntries
  <2>3. families[a].active \in 1..Len(families[a].versions) /\ families[a].active \in Nat /\ a \in Nat
    <3>1. families[a] \in Families
      BY <1>1
    <3>2. families[a].active \in 0..Len(families[a].versions) /\ families[a].active # 0
      BY <2>2 DEF StoreInvariant, WellKept
    <3>3. Len(families[a].versions) \in Nat
      BY <3>1 DEF Families
    <3>. QED
      BY <3>2, <3>3
  <2>4. n \in RunRecords /\ n.st = "listed" /\ n.agent = a /\ n.version = families[a].active
    BY <1>1, <2>3 DEF RunRecords
  <2>. HIDE DEF n
  <2>5. runs'[r] = n /\ runs' \in [Runs -> RunRecords] /\ \A q \in Runs \ {r} : runs'[q] = runs[q]
    BY <1>1, <2>1, <2>4
  <2>6. RunFits(r)'
    BY <2>1, <2>3, <2>4, <2>5 DEF RunFits
  <2>. QED
    BY <2>1, <2>4, <2>5, <2>6
<1>4. ASSUME LoadSaved(r) PROVE Good
  <2>. DEFINE x == families[u.agent].versions[u.version]
              n == [u EXCEPT !.st = "loaded", !.saved = x]
  <2>1. /\ u.st = "ready" /\ runs' = [runs EXCEPT ![r] = n]
        /\ UNCHANGED <<load, families, ledger, calls, steady, commits>>
    BY <1>4 DEF LoadSaved, Family
  <2>2. u.agent \in 1..Len(families) /\ u.version \in 1..Len(families[u.agent].versions)
    BY <1>1, <2>1 DEF RunFits
  <2>3. x \in Fields
    <3>1. families[u.agent] \in Families
      BY <1>1, <2>2
    <3>. QED
      BY <2>2, <3>1 DEF Families
  <2>4. n \in RunRecords /\ n.st = "loaded" /\ n.agent = u.agent /\ n.version = u.version /\ n.saved = x
    BY <1>1, <2>3 DEF RunRecords
  <2>. HIDE DEF n
  <2>5. runs'[r] = n /\ runs' \in [Runs -> RunRecords] /\ \A q \in Runs \ {r} : runs'[q] = runs[q]
    BY <1>1, <2>1, <2>4
  <2>6. RunFits(r)'
    BY <2>1, <2>2, <2>4, <2>5 DEF RunFits
  <2>. QED
    BY <2>1, <2>4, <2>5, <2>6
<1>5. Admitted(r) \/ IssueGrant(r) \/ RedeemGrant(r) \/ BeginExecution(r) \/ RunEnds(r) => Good
  BY <1>2 DEF Admitted, IssueGrant, RedeemGrant, BeginExecution, RunEnds
<1>. QED
  BY <1>3, <1>4, <1>5 DEF Run

\* The invariant when a call moves, when a transaction commits, when a client searches and
\* when a run goes on.
LEMMA MoveKeeps ==
    ASSUME StoreInvariant, NEW k \in Calls, Begin(k) \/ Replay(k) \/ Read(k) \/ Refuse(k)
    PROVE  StoreInvariant' /\ UNCHANGED <<families, runs>>
<1>1. PICK n \in CallRecords : Moves(k, n) /\ (CallFits(k) /\ CallBuilds(k) /\ CallTold(k))'
  BY CallMoves
<1>2. UNCHANGED <<load, families, ledger, runs, steady, commits>> /\ calls' = [calls EXCEPT ![k] = n]
  BY <1>1 DEF Moves
<1>3. StoreTypes'
  BY <1>2 DEF StoreInvariant, StoreTypes
<1>4. Grown
  BY <1>2 DEF Grown, StoreInvariant, StoreTypes
<1>5. ASSUME NEW j \in Calls PROVE (CallFits(j) /\ CallBuilds(j) /\ CallTold(j))'
  <2>1. j # k => calls'[j] = calls[j]
    BY <1>2 DEF StoreInvariant, StoreTypes
  <2>. QED
    BY <1>1, <1>4, <2>1, CallKept
<1>6. \A r \in Runs : RunFits(r)'
  BY <1>2, <1>4, RunKept
<1>7. EditsKept' /\ WellKept(families)' /\ \A o \in OpIds : LedgerTrue(o)'
  BY <1>2 DEF StoreInvariant, EditsKept, LedgerTrue, Family
<1>. QED
  BY <1>2, <1>3, <1>5, <1>6, <1>7 DEF StoreInvariant

LEMMA CommitKeeps ==
    ASSUME StoreInvariant, NEW k \in Calls, Commit(k), ~Refuse(k)
    PROVE  StoreInvariant' /\ Grown /\ UNCHANGED runs
<1>. DEFINE o == Ask(k).id
            c == calls[k]
<1>1. /\ Grown /\ WellKept(families)' /\ ledger[o] = Nothing
      /\ commits' = [commits EXCEPT ![o] = @ + 1] /\ steady' \subseteq Entries
      /\ UNCHANGED <<load, runs, search>>
  BY Commits
<1>2. PICK result \in Answers :
        /\ result.st = "ok" /\ result.agent \in 1..Len(families')
        /\ ledger' = [ledger EXCEPT ![o] = [input |-> c.input, result |-> result]]
        /\ calls' = [calls EXCEPT ![k].pc = "done", ![k].answer = result]
        /\ c.input.op \in {"create_draft", "patch_draft"} => o \in Edits(families'[result.agent])
  BY Commits DEF CommitEffect
<1>3. /\ c.pc = "commit" /\ c.input # Nothing /\ c \in CallRecords /\ CallFits(k) /\ Ask(k)' = Ask(k)
      /\ calls \in [Calls -> CallRecords]
      /\ ledger \in [OpIds -> [input : Inputs, result : Answers] \cup {Nothing}]
  BY <1>1, CommitShape DEF StoreInvariant, StoreTypes, CallFits, Ask
<1>4. o \in OpIds /\ c.input \in Inputs
  BY <1>3, Asked
<1>. DEFINE n == [c EXCEPT !.pc = "done", !.answer = result]
            entry == [input |-> c.input, result |-> result]
<1>5. /\ n \in CallRecords /\ calls' = [calls EXCEPT ![k] = n] /\ calls'[k] = n
      /\ n.pc = "done" /\ n.input = c.input /\ n.answer = result
  BY <1>2, <1>3 DEF CallRecords
<1>6. /\ entry \in [input : Inputs, result : Answers] /\ entry.input = c.input /\ entry.result = result
      /\ ledger' = [ledger EXCEPT ![o] = entry]
  BY <1>2, <1>4
<1>7. entry # Nothing
  BY <1>6, NothingIsAbsent
<1>. HIDE DEF n, entry
<1>8. ledger'[o] = entry /\ \A p \in OpIds : p # o => ledger'[p] = ledger[p]
  BY <1>3, <1>4, <1>6
<1>9. StoreTypes'
  <2>1. commits' \in [OpIds -> Nat]
    BY <1>1, <1>4 DEF StoreInvariant, StoreTypes
  <2>2. calls' \in [Calls -> CallRecords]
    BY <1>3, <1>5
  <2>3. ledger' \in [OpIds -> [input : Inputs, result : Answers] \cup {Nothing}]
    BY <1>3, <1>4, <1>6
  <2>4. families' \in Seq(Families)
    BY <1>1 DEF Grown
  <2>. QED
    BY <1>1, <2>1, <2>2, <2>3, <2>4 DEF StoreInvariant, StoreTypes
<1>10. ASSUME NEW j \in Calls PROVE (CallFits(j) /\ CallBuilds(j) /\ CallTold(j))'
  <2>1. CASE j # k
    <3>1. calls'[j] = calls[j]
      BY <1>3, <1>5, <2>1
    <3>. QED
      BY <1>1, <3>1, CallKept
  <2>2. CASE j = k
    <3>1. CallTold(k)'
      BY <1>2, <1>3, <1>5, <1>6, <1>7, <1>8 DEF CallTold
    <3>2. CallBuilds(k)'
      BY <1>5 DEF CallBuilds
    <3>3. c.input.agent <= Len(families')
      <4>1. c.input.agent <= Len(families) /\ Len(families) <= Len(families')
        BY <1>1, <1>3 DEF CallFits, Grown
      <4>2. c.input.agent \in Nat /\ Len(families) \in Nat /\ Len(families') \in Nat
        BY <1>1, <1>4 DEF Inputs, Grown, StoreInvariant, StoreTypes
      <4>. QED
        BY <4>1, <4>2
    <3>4. c.input.op = "activate_version" => c.input.version \in 1..Len(families'[c.input.agent].versions)
      <4>. SUFFICES ASSUME c.input.op = "activate_version"
                    PROVE  c.input.version \in 1..Len(families'[c.input.agent].versions)
        OBVIOUS
      <4>1. c.input.agent \in 1..Len(families)
        BY <1>3, Asked
      <4>2. c.input.version \in 1..Len(families[c.input.agent].versions)
        BY <1>3 DEF CallFits
      <4>. QED
        BY <1>1, <4>1, <4>2, VersionsKept
    <3>5. CallFits(k)'
      BY <1>3, <1>5, <3>3, <3>4 DEF CallFits
    <3>. QED
      BY <2>2, <3>1, <3>2, <3>5
  <2>. QED
    BY <2>1, <2>2
<1>11. ASSUME NEW p \in OpIds PROVE LedgerTrue(p)'
  <2>1. LedgerTrue(p) /\ commits \in [OpIds -> Nat] /\ Len(families) \in Nat /\ Len(families') \in Nat
        /\ Len(families) <= Len(families')
    BY <1>1 DEF StoreInvariant, StoreTypes, Grown
  <2>2. CASE p = o
    BY <1>1, <1>2, <1>4, <1>6, <1>7, <1>8, <2>1, <2>2 DEF LedgerTrue
  <2>3. CASE p # o
    BY <1>1, <1>8, <2>1, <2>3 DEF LedgerTrue
  <2>. QED
    BY <2>2, <2>3
<1>12. EditsKept'
  <2>. SUFFICES ASSUME NEW p \in OpIds, ledger'[p] # Nothing,
                       ledger'[p].input.op \in {"create_draft", "patch_draft"}
                PROVE  p \in Edits(families'[ledger'[p].result.agent])
    BY DEF EditsKept, Edits, Family
  <2>1. CASE p = o
    BY <1>2, <1>6, <1>8, <2>1
  <2>2. CASE p # o
    <3>1. ledger'[p] = ledger[p] /\ ledger[p].result.agent \in 1..Len(families)
      BY <1>8, <2>2 DEF StoreInvariant, LedgerTrue
    <3>2. p \in Edits(families[ledger[p].result.agent])
      BY <3>1 DEF StoreInvariant, EditsKept, Edits, Family
    <3>. QED
      BY <1>1, <3>1, <3>2, VersionsKept
  <2>. QED
    BY <2>1, <2>2
<1>13. \A r \in Runs : RunFits(r)'
  BY <1>1, RunKept
<1>. QED
  BY <1>1, <1>9, <1>10, <1>11, <1>12, <1>13 DEF StoreInvariant

LEMMA SearchKeeps ==
    ASSUME StoreInvariant, SearchPage
    PROVE  StoreInvariant' /\ UNCHANGED <<families, runs>>
<1>1. UNCHANGED <<load, families, ledger, calls, runs, commits>>
  BY DEF SearchPage
<1>2. steady' \subseteq Entries
  <2>1. ActiveEntries(families) \subseteq Entries
    BY EntriesTypes DEF StoreInvariant, StoreTypes, WellKept
  <2>. QED
    BY <2>1 DEF SearchPage, StoreInvariant, StoreTypes
<1>. QED
  BY <1>1, <1>2 DEF StoreInvariant, StoreTypes, CallFits, CallBuilds, CallTold, LedgerTrue, RunFits, EditsKept,
                    Family, Ask, Patched

LEMMA RunKeeps ==
    ASSUME StoreInvariant, NEW r \in Runs, Run(r)
    PROVE  StoreInvariant'
<1>1. /\ UNCHANGED <<load, families, ledger, calls, steady, commits>>
      /\ runs' \in [Runs -> RunRecords] /\ \A q \in Runs \ {r} : runs'[q] = runs[q]
      /\ RunFits(r)'
  BY RunMoves
<1>2. Grown
  BY <1>1 DEF Grown, StoreInvariant, StoreTypes
<1>3. \A q \in Runs : RunFits(q)'
  BY <1>1, <1>2, RunKept
<1>4. StoreTypes'
  BY <1>1 DEF StoreInvariant, StoreTypes
<1>. QED
  BY <1>1, <1>3, <1>4 DEF StoreInvariant, CallFits, CallBuilds, CallTold, LedgerTrue, EditsKept, Family, Ask,
                           Patched

-----------------------------------------------------------------------------
(* The invariant is inductive *)

LEMMA InitStore == Init => StoreInvariant
<1>. SUFFICES ASSUME Init PROVE StoreInvariant
  OBVIOUS
<1>1. load \in Workloads /\ families \in Seq(Families) /\ WellKept(families)
  BY WorkloadsOK DEF Init
<1>2. Answer("none") \in Answers /\ Answer("none").st = "none"
  BY DEF Answer, Answers
<1>3. StoreTypes
  BY <1>1, <1>2 DEF Init, StoreTypes, CallRecords, RunRecords
<1>4. \A k \in Calls : CallFits(k) /\ CallBuilds(k) /\ CallTold(k)
  BY <1>2 DEF Init, CallFits, CallBuilds, CallTold
<1>5. /\ \A o \in OpIds : LedgerTrue(o)
      /\ \A r \in Runs : RunFits(r)
      /\ EditsKept
  BY DEF Init, LedgerTrue, RunFits, EditsKept
<1>. QED
  BY <1>1, <1>3, <1>4, <1>5 DEF StoreInvariant

LEMMA InductiveStore == StoreInvariant /\ [Next]_vars => StoreInvariant'
<1>. SUFFICES ASSUME StoreInvariant, [Next]_vars PROVE StoreInvariant'
  OBVIOUS
<1>1. CASE UNCHANGED vars
  BY <1>1 DEF vars, StoreInvariant, StoreTypes, CallFits, CallBuilds, CallTold, LedgerTrue, RunFits, EditsKept,
              Family, Ask, Patched
<1>2. ASSUME NEW k \in Calls, Begin(k) \/ Replay(k) \/ Read(k) \/ Commit(k) PROVE StoreInvariant'
  BY <1>2, MoveKeeps, CommitKeeps
<1>3. SearchPage => StoreInvariant'
  BY SearchKeeps
<1>4. ASSUME NEW r \in Runs, Run(r) PROVE StoreInvariant'
  BY <1>4, RunKeeps
<1>. QED
  BY <1>1, <1>2, <1>3, <1>4 DEF Next

-----------------------------------------------------------------------------
(* Discovery *)

\* How many of the entries of S come before d.
Rank(S, d) == Cardinality({e \in S : Precedes(e, d)})

\* Entries are in a strict linear order.
LEMMA EntriesOrdered ==
    ASSUME NEW d \in Entries, NEW e \in Entries
    PROVE  /\ ~Precedes(d, d)
           /\ d = e \/ Precedes(d, e) \/ Precedes(e, d)
           /\ ~(Precedes(d, e) /\ Precedes(e, d))
           /\ \A f \in Entries : Precedes(d, e) /\ Precedes(e, f) => Precedes(d, f)
<1>1. /\ d.name \in Nat /\ d.agent \in Nat /\ e.name \in Nat /\ e.agent \in Nat
      /\ \A f \in Entries : f.name \in Nat /\ f.agent \in Nat
  BY SavedAgentConstants DEF Entries
<1>2. d.name = e.name /\ d.agent = e.agent => d = e
  BY DEF Entries
<1>. QED
  BY <1>1, <1>2 DEF Precedes

\* An entry that comes before another has fewer before it.
LEMMA RankGrows ==
    ASSUME NEW S \in SUBSET Entries, IsFiniteSet(S), NEW d \in S
    PROVE  /\ Rank(S, d) \in Nat /\ Rank(S, d) + 1 <= Cardinality(S)
           /\ \A e \in S : Precedes(d, e) => Rank(S, d) + 1 <= Rank(S, e)
<1>. DEFINE below(e) == {x \in S : Precedes(x, e)}
<1>1. ASSUME NEW e \in S PROVE IsFiniteSet(below(e)) /\ Cardinality(below(e)) \in Nat
  BY FS_Subset, FS_CardinalityType
<1>2. d \notin below(d)
  BY EntriesOrdered
<1>3. IsFiniteSet(below(d) \cup {d}) /\ Cardinality(below(d) \cup {d}) = Cardinality(below(d)) + 1
  BY <1>1, <1>2, FS_AddElement
<1>4. Cardinality(below(d)) + 1 <= Cardinality(S)
  <2>1. below(d) \cup {d} \subseteq S
    OBVIOUS
  <2>. QED
    BY <1>3, <2>1, FS_Subset
<1>5. ASSUME NEW e \in S, Precedes(d, e) PROVE Cardinality(below(d)) + 1 <= Cardinality(below(e))
  <2>1. below(d) \cup {d} \subseteq below(e)
    BY <1>5, EntriesOrdered
  <2>. QED
    BY <1>1, <1>3, <2>1, FS_Subset
<1>. QED
  BY <1>1, <1>4, <1>5 DEF Rank

\* As many places as entries: each has exactly one entry, so that the CHOOSE in List is
\* well defined without any induction.
LEMMA RanksFill ==
    ASSUME NEW S \in SUBSET Entries, IsFiniteSet(S)
    PROVE  /\ Cardinality(S) \in Nat
           /\ \A d, e \in S : Rank(S, d) = Rank(S, e) => d = e
           /\ \A i \in 1..Cardinality(S) : \E d \in S : Rank(S, d) = i - 1
<1>. DEFINE n == Cardinality(S)
            place == [d \in S |-> Rank(S, d) + 1]
<1>1. n \in Nat
  BY FS_CardinalityType
<1>2. \A d \in S : Rank(S, d) \in Nat /\ Rank(S, d) + 1 <= n
  BY RankGrows
<1>3. ASSUME NEW d \in S, NEW e \in S, Rank(S, d) = Rank(S, e) PROVE d = e
  <2>1. ~Precedes(d, e) /\ ~Precedes(e, d)
    BY <1>2, <1>3, RankGrows
  <2>. QED
    BY <2>1, EntriesOrdered
<1>4. place \in [S -> 1..n]
  BY <1>1, <1>2
<1>5. place \in Injection(S, 1..n)
  <2>1. \A d, e \in S : place[d] = place[e] => d = e
    BY <1>2, <1>3
  <2>. HIDE DEF place
  <2>. QED
    BY <1>4, <2>1 DEF Injection, IsInjective
<1>6. IsFiniteSet(1..n) /\ Cardinality(1..n) = n
  BY <1>1, FS_Interval
<1>. HIDE DEF place
<1>7. place \in Surjection(S, 1..n)
  BY <1>5, <1>6, FS_Injection
<1>8. ASSUME NEW i \in 1..n PROVE \E d \in S : Rank(S, d) = i - 1
  <2>1. PICK d \in S : place[d] = i
    BY <1>7 DEF Surjection
  <2>. QED
    BY <1>1, <1>2, <2>1 DEF place
<1>. QED
  BY <1>1, <1>3, <1>8

\* list(): what is active, each entry once, in order.
LEMMA ListSorted ==
    ASSUME StoreInvariant
    PROVE  LET S == ActiveEntries(families) IN
           /\ S \subseteq Entries /\ Cardinality(S) \in Nat
           /\ List \in Seq(S) /\ Len(List) = Cardinality(S)
           /\ \A d \in S : \E i \in 1..Len(List) : List[i] = d
           /\ \A i, j \in 1..Len(List) : i < j => Precedes(List[i], List[j])
<1>. DEFINE S == ActiveEntries(families)
            n == Cardinality(S)
<1>1. S \subseteq Entries
  BY EntriesTypes DEF StoreInvariant, StoreTypes, WellKept
<1>2. IsFiniteSet(S)
  <2>. DEFINE entry(a) == [name |-> families[a].versions[families[a].active].name, agent |-> a]
              A == {b \in 1..Len(families) : families[b].lifecycle = "active"}
  <2>1. IsFiniteSet(A)
    <3>1. IsFiniteSet(1..Len(families))
      BY FS_Interval DEF StoreInvariant, StoreTypes
    <3>. QED
      BY <3>1, FS_Subset
  <2>2. S = {entry(a) : a \in A}
    BY DEF ActiveEntries
  <2>. DEFINE f == [a \in A |-> entry(a)]
  <2>3. f \in Surjection(A, S)
    BY <2>2 DEF Surjection
  <2>. QED
    BY <2>1, <2>3, FS_Surjection
<1>3. /\ n \in Nat
      /\ \A d \in S : Rank(S, d) \in Nat /\ Rank(S, d) + 1 <= n
      /\ \A d, e \in S : Rank(S, d) = Rank(S, e) => d = e
      /\ \A d, e \in S : Precedes(d, e) => Rank(S, d) + 1 <= Rank(S, e)
      /\ \A i \in 1..n : \E d \in S : Rank(S, d) = i - 1
  BY <1>1, <1>2, RankGrows, RanksFill
<1>4. List = [i \in 1..n |-> CHOOSE d \in S : Rank(S, d) = i - 1]
  BY DEF List, Rank
<1>. HIDE DEF S
<1>5. ASSUME NEW i \in 1..n PROVE List[i] \in S /\ Rank(S, List[i]) = i - 1
  BY <1>3, <1>4
<1>6. List \in Seq(S) /\ Len(List) = n
  BY <1>3, <1>4, <1>5
<1>7. ASSUME NEW d \in S PROVE \E i \in 1..n : List[i] = d
  <2>1. Rank(S, d) + 1 \in 1..n /\ Rank(S, d) = (Rank(S, d) + 1) - 1
    BY <1>3
  <2>. QED
    BY <1>3, <1>5, <2>1
<1>8. ASSUME NEW i \in 1..n, NEW j \in 1..n, i < j PROVE Precedes(List[i], List[j])
  <2>1. List[i] \in S /\ List[j] \in S /\ Rank(S, List[i]) < Rank(S, List[j])
    BY <1>3, <1>5, <1>8
  <2>2. ~Precedes(List[j], List[i]) /\ List[i] # List[j]
    BY <1>3, <2>1
  <2>. QED
    BY <1>1, <2>1, <2>2, EntriesOrdered
<1>. QED
  BY <1>1, <1>3, <1>6, <1>7, <1>8 DEF S

\* Two agents that are active have different names.
LEMMA ActiveNamesDiffer ==
    ASSUME StoreInvariant, NEW d \in ActiveEntries(families), NEW e \in ActiveEntries(families), d.name = e.name
    PROVE  d = e
<1>1. ASSUME NEW x \in ActiveEntries(families)
      PROVE  /\ x.agent \in 1..Len(families) /\ x = [name |-> x.name, agent |-> x.agent]
             /\ x.name \in NamesOf(families[x.agent])
  <2>1. PICK a \in 1..Len(families) :
          families[a].lifecycle = "active" /\ x = [name |-> families[a].versions[families[a].active].name, agent |-> a]
    BY DEF ActiveEntries
  <2>2. families[a].versions \in Seq(Fields) /\ families[a].active \in 1..Len(families[a].versions)
    <3>1. families[a] \in Families /\ families[a].active \in 0..Len(families[a].versions) /\ families[a].active # 0
      BY <2>1 DEF StoreInvariant, StoreTypes, WellKept
    <3>2. families[a].versions \in Seq(Fields)
      BY <3>1 DEF Families
    <3>. QED
      BY <3>1, <3>2
  <2>3. families[a].versions[families[a].active] \in Range(families[a].versions)
    BY <2>2 DEF Range
  <2>. QED
    BY <2>1, <2>3 DEF NamesOf
<1>2. d.agent = e.agent
  BY <1>1 DEF StoreInvariant, WellKept
<1>. QED
  BY <1>1, <1>2

\* search(): a page more, or an end, or a cursor that is gone.
LEMMA PageKeeps ==
    ASSUME StoreInvariant, SearchFits, SearchPage
    PROVE  SearchFits'
<1>. DEFINE S == ActiveEntries(families)
            L == List
            n == Len(L)
            from == After(search.cursor)
            last == IF from + PageLimit - 1 < n THEN from + PageLimit - 1 ELSE n
            page == SubSeq(L, from, last)
            more == from + Len(page) <= n
            seen == search.seen
<1>1. /\ S \subseteq Entries /\ L \in Seq(S) /\ n \in Nat
      /\ \A d \in S : \E i \in 1..n : L[i] = d
      /\ \A i, j \in 1..n : i < j => Precedes(L[i], L[j])
      /\ \A i \in 1..n : L[i] \in S
  BY ListSorted
<1>2. \A i, j \in 1..n : i < j => L[i].name < L[j].name
  <2>. SUFFICES ASSUME NEW i \in 1..n, NEW j \in 1..n, i < j PROVE L[i].name < L[j].name
    OBVIOUS
  <2>1. L[i] \in S /\ L[j] \in S /\ Precedes(L[i], L[j])
    BY <1>1
  <2>2. L[i] # L[j]
    BY <1>1, <2>1, EntriesOrdered
  <2>3. L[i].name # L[j].name
    BY <2>1, <2>2, ActiveNamesDiffer
  <2>. QED
    BY <2>1, <2>3 DEF Precedes
<1>3. /\ search \in Searches /\ seen \in Seq(Entries) /\ Len(seen) \in Nat
      /\ search.cursor \in Entries \cup {Nothing} /\ search.st \in {"idle", "open"}
  BY DEF SearchFits, Searches, SearchPage
<1>4. /\ search.st = "idle" => search.cursor = Nothing /\ seen = <<>>
      /\ search.st = "open" => /\ search.cursor \in Entries /\ search.cursor # Nothing
                               /\ Len(seen) \in 1..Len(seen) /\ search.cursor = seen[Len(seen)]
  <2>1. search.st = "idle" => search.cursor = Nothing /\ seen = <<>>
    BY DEF SearchFits
  <2>2. ASSUME search.st = "open"
        PROVE  Len(seen) \in 1..Len(seen) /\ search.cursor = seen[Len(seen)] /\ search.cursor \in Entries
    BY <1>3, <2>2 DEF SearchFits
  <2>. QED
    BY <2>1, <2>2, NothingIsAbsent
<1>5. /\ families' = families /\ steady' = IF search.st = "idle" THEN S ELSE steady
      /\ IF from = 0 THEN search' = [search EXCEPT !.st = "invalid"]
         ELSE search' = [st |-> IF more THEN "open" ELSE "done", seen |-> seen \o page,
                         cursor |-> IF more THEN page[Len(page)] ELSE Nothing]
  BY DEF SearchPage
<1>6. steady' \subseteq S
  BY <1>5 DEF SearchFits
<1>. HIDE DEF L
<1>7. CASE from = 0
  <2>1. search' = [search EXCEPT !.st = "invalid"]
    BY <1>5, <1>7
  <2>2. search' \in Searches /\ search'.st = "invalid" /\ search'.seen = seen
    BY <1>3, <2>1 DEF Searches
  <2>3. \A i, j \in 1..Len(seen) : i < j => seen[i].name < seen[j].name
    BY DEF SearchFits
  <2>. QED
    BY <1>5, <1>6, <2>2, <2>3 DEF SearchFits
<1>8. CASE from # 0
  <2>1. \/ search.st = "idle" /\ from = 1 /\ seen = <<>>
        \/ /\ search.st = "open" /\ from \in 2..(n + 1)
           /\ search.cursor = L[from - 1] /\ search.cursor = seen[Len(seen)]
    <3>1. CASE search.st = "idle"
      BY <1>4, <3>1 DEF After
    <3>2. CASE search.st = "open"
      <4>1. search.cursor \in Range(L) /\ from = 1 + CHOOSE i \in 1..Len(L) : L[i] = search.cursor
        BY <1>4, <1>8, <3>2 DEF After, L
      <4>2. \E i \in 1..Len(L) : L[i] = search.cursor
        BY <1>1, <4>1 DEF Range
      <4>3. PICK i \in 1..n : from = 1 + i /\ L[i] = search.cursor
        BY <4>1, <4>2
      <4>. QED
        BY <1>1, <1>4, <3>2, <4>3
    <3>. QED
      BY <1>3, <3>1, <3>2
  <2>2. from \in 1..(n + 1)
    BY <1>1, <2>1
  <2>. HIDE DEF from
  <2>3. /\ last \in Nat /\ last <= n /\ from <= last + 1
        /\ last # n => last = from + PageLimit - 1 /\ from <= last
    BY <1>1, <2>2, SavedAgentConstants
  <2>. HIDE DEF last
  <2>4. /\ page \in Seq(S) /\ Len(page) = last + 1 - from /\ Len(page) \in Nat
        /\ \A i \in 1..Len(page) : page[i] = L[from + i - 1]
    <3>1. L \in Seq(S) /\ Len(L) = n
      BY <1>1
    <3>. QED
      BY <2>2, <2>3, <3>1
  <2>. HIDE DEF page, n, S
  <2>0. /\ n \in Nat /\ from \in Nat /\ last \in Nat /\ Len(page) \in Nat /\ Len(seen) \in Nat
        /\ 1 <= from /\ from <= last + 1 /\ last <= n /\ Len(page) = last + 1 - from
        /\ last # n => from <= last
    BY <1>1, <1>3, <2>2, <2>3, <2>4
  <2>5. more <=> last # n
    BY <1>1, <2>2, <2>3, <2>4
  <2>6. more => page[Len(page)] = L[last] /\ last \in 1..n
    <3>1. more => Len(page) \in 1..Len(page) /\ from + Len(page) - 1 = last /\ last \in 1..n
      BY <2>0, <2>5
    <3>. QED
      BY <2>4, <3>1
  <2>. HIDE DEF more
  <2>7. /\ search'.st = (IF more THEN "open" ELSE "done") /\ search'.seen = seen \o page
        /\ search'.cursor = IF more THEN page[Len(page)] ELSE Nothing
        /\ search' = [st |-> search'.st, seen |-> search'.seen, cursor |-> search'.cursor]
    BY <1>5, <1>8
  <2>8. /\ seen \o page \in Seq(Entries) /\ Len(seen \o page) = Len(seen) + Len(page)
        /\ \A i \in 1..Len(seen) : (seen \o page)[i] = seen[i]
        /\ \A i \in (Len(seen) + 1)..(Len(seen) + Len(page)) : (seen \o page)[i] = page[i - Len(seen)]
    <3>1. page \in Seq(Entries)
      BY <1>1, <2>4
    <3>. QED
      BY <1>3, <3>1
  <2>9. search' \in Searches
    <3>1. more => page[Len(page)] \in Entries
      BY <1>1, <2>6
    <3>. QED
      BY <2>7, <2>8, <3>1 DEF Searches
  <2>10. ASSUME NEW i \in 1..Len(seen), NEW j \in 1..Len(page) PROVE seen[i].name < page[j].name
    <3>1. search.st = "open" /\ from - 1 \in 1..n /\ seen[Len(seen)] = L[from - 1]
      <4>1. search.st = "open"
        <5>1. seen # <<>>
          BY <2>10, <2>0
        <5>. QED
          BY <2>1, <5>1
      <4>2. from \in 2..(n + 1) /\ search.cursor = L[from - 1] /\ search.cursor = seen[Len(seen)]
        BY <2>1, <4>1
      <4>. QED
        BY <2>0, <4>1, <4>2
    <3>2. page[j] = L[from + j - 1] /\ from + j - 1 \in 1..n /\ from - 1 < from + j - 1
      <4>1. from + j - 1 \in 1..n /\ from - 1 < from + j - 1
        BY <2>0
      <4>. QED
        BY <2>4, <4>1
    <3>3. seen[Len(seen)].name < page[j].name
      BY <1>2, <3>1, <3>2
    <3>4. i = Len(seen) \/ seen[i].name < seen[Len(seen)].name
      BY <1>3 DEF SearchFits
    <3>5. seen[i].name \in Nat /\ seen[Len(seen)].name \in Nat /\ page[j].name \in Nat
      <4>1. seen[i] \in Entries /\ seen[Len(seen)] \in Entries /\ page[j] \in Entries
        <5>1. Len(seen) \in 1..Len(seen)
          BY <2>0
        <5>2. page[j] \in S
          BY <2>4
        <5>. QED
          BY <1>1, <1>3, <5>1, <5>2
      <4>. QED
        BY <4>1, SavedAgentConstants DEF Entries
    <3>. QED
      BY <3>3, <3>4, <3>5
  <2>11. \A i, j \in 1..Len(seen \o page) : i < j => (seen \o page)[i].name < (seen \o page)[j].name
    <3>. SUFFICES ASSUME NEW i \in 1..Len(seen \o page), NEW j \in 1..Len(seen \o page), i < j
                  PROVE  (seen \o page)[i].name < (seen \o page)[j].name
      OBVIOUS
    <3>1. CASE j <= Len(seen)
      BY <1>3, <2>8, <3>1 DEF SearchFits
    <3>2. CASE i <= Len(seen) /\ j > Len(seen)
      <4>1. i \in 1..Len(seen) /\ j - Len(seen) \in 1..Len(page) /\ j \in (Len(seen) + 1)..(Len(seen) + Len(page))
        BY <1>3, <2>4, <2>8, <3>2
      <4>. QED
        BY <2>8, <2>10, <4>1
    <3>3. CASE i > Len(seen)
      <4>. DEFINE x == i - Len(seen)
                  y == j - Len(seen)
      <4>1. /\ x \in 1..Len(page) /\ y \in 1..Len(page) /\ x < y
            /\ (seen \o page)[i] = page[x] /\ (seen \o page)[j] = page[y]
        BY <1>3, <2>4, <2>8, <3>3
      <4>2. page[x] = L[from + x - 1] /\ page[y] = L[from + y - 1]
        BY <2>4, <4>1
      <4>3. from + x - 1 \in 1..n /\ from + y - 1 \in 1..n /\ from + x - 1 < from + y - 1
        <5>. HIDE DEF x, y
        <5>. QED
          BY <2>0, <4>1
      <4>. QED
        BY <1>2, <4>1, <4>2, <4>3
    <3>. QED
      BY <1>3, <2>4, <2>8, <3>1, <3>2, <3>3
  <2>12. ASSUME NEW i \in 1..last, L[i] \in steady' PROVE L[i] \in Range(seen \o page)
    <3>1. CASE i >= from
      <4>. DEFINE x == i + 1 - from
                  y == Len(seen) + x
      <4>1. x \in 1..Len(page) /\ from + x - 1 = i
        BY <2>0, <3>1
      <4>2. page[x] = L[i]
        BY <2>4, <4>1
      <4>6. x \in Nat /\ 1 <= x /\ x <= Len(page)
        BY <2>0, <4>1
      <4>. HIDE DEF x
      <4>3. y \in (Len(seen) + 1)..(Len(seen) + Len(page)) /\ y - Len(seen) = x /\ y \in 1..(Len(seen) + Len(page))
        <5>1. \A s, p, z \in Nat : 1 <= z /\ z <= p =>
                s + z \in (s + 1)..(s + p) /\ (s + z) - s = z /\ s + z \in 1..(s + p)
          OBVIOUS
        <5>. QED
          BY <2>0, <4>6, <5>1
      <4>. HIDE DEF y
      <4>4. (seen \o page)[y] = L[i]
        BY <2>8, <4>2, <4>3
      <4>5. y \in DOMAIN (seen \o page)
        BY <2>8, <4>3
      <4>. QED
        BY <4>4, <4>5 DEF Range
    <3>2. CASE i < from
      <4>1. search.st = "open" /\ from - 1 \in 1..n /\ search.cursor = L[from - 1] /\ i <= from - 1 /\ i \in 1..n
        BY <1>1, <2>1, <2>2, <2>3, <3>2
      <4>2. L[i] = search.cursor \/ Precedes(L[i], search.cursor)
        BY <1>1, <4>1
      <4>3. L[i] \in Range(seen)
        <5>1. L[i] \in steady
          BY <1>5, <2>12, <4>1
        <5>. QED
          BY <4>1, <4>2, <5>1 DEF SearchFits
      <4>4. PICK x \in 1..Len(seen) : seen[x] = L[i]
        BY <1>3, <4>3 DEF Range
      <4>5. (seen \o page)[x] = L[i] /\ x \in DOMAIN (seen \o page)
        BY <1>3, <2>4, <2>8, <4>4
      <4>. QED
        BY <4>5 DEF Range
    <3>. QED
      BY <2>2, <2>3, <3>1, <3>2
  <2>13. ASSUME more, NEW d \in steady', d = page[Len(page)] \/ Precedes(d, page[Len(page)])
         PROVE  d \in Range(seen \o page)
    <3>1. PICK i \in 1..n : L[i] = d
      BY <1>1, <1>6
    <3>2. ~(last < i)
      <4>1. L[i] \in Entries /\ L[last] \in Entries /\ page[Len(page)] = L[last] /\ last \in 1..n
        BY <1>1, <2>6, <2>13
      <4>. QED
        BY <1>1, <2>13, <3>1, <4>1, EntriesOrdered
    <3>. QED
      BY <1>1, <2>3, <2>12, <3>1, <3>2
  <2>14. ~more => steady' \subseteq Range(seen \o page)
    <3>. SUFFICES ASSUME ~more, NEW d \in steady' PROVE d \in Range(seen \o page)
      OBVIOUS
    <3>1. PICK i \in 1..last : L[i] = d
      BY <1>1, <1>6, <2>5
    <3>. QED
      BY <2>12, <3>1
  <2>15. more => seen \o page # <<>> /\ page[Len(page)] = (seen \o page)[Len(seen \o page)]
    <3>. SUFFICES ASSUME more PROVE seen \o page # <<>> /\ page[Len(page)] = (seen \o page)[Len(seen \o page)]
      OBVIOUS
    <3>1. Len(page) > 0
      BY <1>1, <2>2, <2>3, <2>4, <2>5
    <3>2. /\ Len(seen \o page) \in (Len(seen) + 1)..(Len(seen) + Len(page)) /\ Len(seen \o page) # 0
          /\ Len(seen \o page) - Len(seen) = Len(page)
      BY <1>3, <2>4, <2>8, <3>1
    <3>. QED
      BY <2>8, <3>2
  <2>16. /\ search'.st = "open" => search'.seen # <<>> /\ search'.cursor = search'.seen[Len(search'.seen)]
         /\ search'.st = "open" =>
              \A d \in steady' : d = search'.cursor \/ Precedes(d, search'.cursor) => d \in Range(search'.seen)
         /\ search'.st = "done" => steady' \subseteq Range(search'.seen)
         /\ search'.st # "idle"
    BY <2>7, <2>13, <2>14, <2>15
  <2>17. \A i, j \in 1..Len(search'.seen) : i < j => search'.seen[i].name < search'.seen[j].name
    BY <2>7, <2>11
  <2>18. steady' \subseteq ActiveEntries(families')
    BY <1>5, <1>6 DEF S
  <2>. QED
    BY <2>9, <2>16, <2>17, <2>18 DEF SearchFits, Precedes
<1>. QED
  BY <1>7, <1>8

\* A commit takes out of the history what it has changed.
LEMMA CommitKeepsSearch ==
    ASSUME StoreInvariant, SearchFits, NEW k \in Calls, Commit(k), ~Refuse(k)
    PROVE  SearchFits'
<1>1. steady' = steady \cap ActiveEntries(families') /\ search' = search
  <2>1. ASSUME NEW fs, NEW a, Committed(k, fs, a) PROVE steady' = steady \cap ActiveEntries(families') /\ search' = search
    BY <2>1 DEF Committed, readers
  <2>. QED
    BY <2>1, CommitShape DEF Adds, Updates
<1>. QED
  BY <1>1 DEF SearchFits

LEMMA InductiveSearch == StoreInvariant /\ SearchFits /\ [Next]_vars => SearchFits'
<1>. SUFFICES ASSUME StoreInvariant, SearchFits, [Next]_vars PROVE SearchFits'
  OBVIOUS
<1>1. UNCHANGED <<families, search, steady>> => SearchFits'
  BY DEF SearchFits
<1>2. CASE UNCHANGED vars
  BY <1>1, <1>2 DEF vars
<1>3. ASSUME NEW k \in Calls, Begin(k) \/ Replay(k) \/ Read(k) \/ Refuse(k) PROVE SearchFits'
  <2>1. UNCHANGED <<families, search, steady>>
    BY <1>3 DEF Begin, Replay, Read, Refuse, NewDraft, ReadRevised, ReadPatched, ReadPublished, ReadActivated,
                ReadLifecycle, ReadVersion, Reading, readers
  <2>. QED
    BY <1>1, <2>1
<1>4. ASSUME NEW r \in Runs, Run(r) PROVE SearchFits'
  <2>1. UNCHANGED <<families, search, steady>>
    BY <1>4 DEF Run, AdmitRun, Admitted, IssueGrant, RedeemGrant, LoadSaved, BeginExecution, RunEnds, RunStep
  <2>. QED
    BY <1>1, <2>1
<1>. QED
  BY <1>2, <1>3, <1>4, PageKeeps, CommitKeepsSearch DEF Next

LEMMA InitSearch == Init => SearchFits
<1>. SUFFICES ASSUME Init PROVE SearchFits
  OBVIOUS
<1>1. search = [st |-> "idle", seen |-> <<>>, cursor |-> Nothing] /\ steady = {}
  BY DEF Init
<1>2. search \in Searches /\ Len(search.seen) = 0
  BY <1>1 DEF Searches
<1>. QED
  BY <1>1, <1>2 DEF SearchFits


-----------------------------------------------------------------------------
(* Theorems *)

\* mutate() and its ledger: an operation ID is committed once, and everyone who repeats a
\* request is told the same.
THEOREM OperationsAppliedOnce == Spec => []AppliedOnce
<1>1. StoreInvariant => AppliedOnce
  <2>. SUFFICES ASSUME StoreInvariant PROVE AppliedOnce
    OBVIOUS
  <2>1. \A o \in OpIds : commits[o] <= 1
    BY DEF StoreInvariant, LedgerTrue
  <2>. QED
    BY <2>1 DEF StoreInvariant, AppliedOnce, CallTold
<1>. QED
  BY <1>1, InitStore, InductiveStore, PTL DEF Spec

\* patchDraft() under optimistic revisions: a committed edit is never lost.
THEOREM NoEditLost == Spec => []EditsKept
<1>1. StoreInvariant => EditsKept
  BY DEF StoreInvariant
<1>. QED
  BY <1>1, InitStore, InductiveStore, PTL DEF Spec

\* #nameOwner and the quota: names are unique in an owner's bucket and the number of its
\* families is bounded.
THEOREM LimitsHold == Spec => []OwnerLimits
<1>1. StoreInvariant => OwnerLimits
  <2>1. {a \in 1..Len(families) : Live(a)} = {a \in 1..Len(families) : families[a].lifecycle # "deleted"}
    BY DEF Live, Family
  <2>. QED
    BY <2>1 DEF StoreInvariant, WellKept, OwnerLimits
<1>. QED
  BY <1>1, InitStore, InductiveStore, PTL DEF Spec

\* The transactions on a family only add to its history.
THEOREM FamiliesOnlyGrow == Spec => HistoryGrows
<1>1. StoreInvariant /\ [Next]_vars => \A a \in 1..Len(families) : Continues(families[a], families'[a])
  <2>. SUFFICES ASSUME StoreInvariant, [Next]_vars, NEW a \in 1..Len(families)
                PROVE  Continues(families[a], families'[a])
    OBVIOUS
  <2>0. families[a] \in Families
    BY DEF StoreInvariant, StoreTypes
  <2>1. families[a].versions \in Seq(Fields)
    BY <2>0 DEF Families
  <2>2. CASE families'[a] = families[a]
    <3>1. IsPrefix(families[a].versions, families[a].versions)
      BY <2>1 DEF IsPrefix
    <3>2. families[a].lifecycle = "active" => families[a].active \in 1..Len(families[a].versions)
      <4>1. /\ families[a].active \in 0..Len(families[a].versions)
            /\ families[a].lifecycle = "active" => families[a].active # 0
        BY DEF StoreInvariant, WellKept
      <4>. QED
        BY <2>1, <4>1
    <3>. QED
      BY <2>2, <3>1, <3>2 DEF Continues
  <2>3. CASE Evolves(families[a], families'[a])
    <3>1. families'[a].lifecycle = "active" => families'[a].active \in 1..Len(families'[a].versions)
      <4>1. Len(families'[a].versions) \in Nat
        BY <2>3 DEF Evolves, Families
      <4>. QED
        BY <2>3, <4>1 DEF Evolves
    <3>. QED
      BY <2>3, <3>1 DEF Evolves, Continues
  <2>4. UNCHANGED families \/ Grown
    <3>1. CASE UNCHANGED vars
      BY <3>1 DEF vars
    <3>2. ASSUME NEW k \in Calls, Begin(k) \/ Replay(k) \/ Read(k) \/ Commit(k)
          PROVE  UNCHANGED families \/ Grown
      BY <3>2, MoveKeeps, CommitKeeps
    <3>3. SearchPage => UNCHANGED families
      BY SearchKeeps
    <3>4. ASSUME NEW r \in Runs, Run(r) PROVE UNCHANGED families
      BY <3>4, RunMoves
    <3>. QED
      BY <3>1, <3>2, <3>3, <3>4 DEF Next
  <2>. QED
    BY <2>2, <2>3, <2>4 DEF Grown
<1>. QED
  BY <1>1, InitStore, InductiveStore, PTL DEF Spec, HistoryGrows

\* inspectRunnerTurn(): a run starts with the fields of the version that is active then.
THEOREM RunsAreCurrent == Spec => RunsActiveVersion
<1>1. StoreInvariant /\ [Next]_vars =>
        \A r \in Runs : runs[r].st # "running" /\ runs'[r].st = "running" =>
          /\ Family(runs[r].agent).lifecycle = "active"
          /\ Family(runs[r].agent).versions[Family(runs[r].agent).active] = runs'[r].saved
  <2>. SUFFICES ASSUME StoreInvariant, [Next]_vars, NEW r \in Runs,
                       runs[r].st # "running", runs'[r].st = "running"
                PROVE  /\ Family(runs[r].agent).lifecycle = "active"
                       /\ Family(runs[r].agent).versions[Family(runs[r].agent).active] = runs'[r].saved
    OBVIOUS
  <2>1. Run(r)
    <3>1. ASSUME NEW k \in Calls, Begin(k) \/ Replay(k) \/ Read(k) \/ Commit(k) PROVE FALSE
      BY <3>1, MoveKeeps, CommitKeeps
    <3>2. ~SearchPage
      BY SearchKeeps
    <3>3. ASSUME NEW q \in Runs, q # r, Run(q) PROVE FALSE
      BY <3>3, RunMoves
    <3>4. ~UNCHANGED vars
      BY DEF vars
    <3>. QED
      BY <3>1, <3>2, <3>3, <3>4 DEF Next
  <2>2. runs[r].st = "loaded" /\ TargetIsCurrent(r) /\ runs'[r].saved = runs[r].saved
    BY <2>1, RunMoves
  <2>3. runs[r].saved = families[runs[r].agent].versions[runs[r].version]
    BY <2>2 DEF StoreInvariant, RunFits
  <2>. QED
    BY <2>2, <2>3 DEF TargetIsCurrent, Family
<1>. QED
  BY <1>1, InitStore, InductiveStore, PTL DEF Spec, RunsActiveVersion

\* search() and list(): a search that is paged to its end, while agents come, go and are
\* renamed, misses nothing that was there all the while and returns nothing twice.
THEOREM SearchesComplete == Spec => []PagesComplete
<1>1. StoreInvariant /\ SearchFits => PagesComplete
  <2>. SUFFICES ASSUME SearchFits, NEW i \in 1..(Len(search.seen) - 1)
                PROVE  search.seen[i].name < search.seen[i + 1].name
    BY DEF PagesComplete, SearchFits
  <2>1. Len(search.seen) \in Nat
    BY DEF SearchFits, Searches
  <2>2. i \in 1..Len(search.seen) /\ i + 1 \in 1..Len(search.seen) /\ i < i + 1
    BY <2>1
  <2>. QED
    BY <2>2 DEF SearchFits
<1>. QED
  BY <1>1, InitStore, InductiveStore, InitSearch, InductiveSearch, PTL DEF Spec

\* Every variable has its type.
THEOREM SavedTypes == Spec => []TypeOK
<1>1. StoreInvariant /\ SearchFits => TypeOK
  BY DEF StoreInvariant, StoreTypes, SearchFits, Searches, TypeOK, CallRecords, RunRecords
<1>. QED
  BY <1>1, InitStore, InductiveStore, InitSearch, InductiveSearch, PTL DEF Spec
=============================================================================
