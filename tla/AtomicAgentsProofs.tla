------------------------ MODULE AtomicAgentsProofs -------------------------
(* The calls of SavedAgents, with their replay check, reads and commit,    *)
(* implement those of AtomicAgents, which take effect in one instant.      *)
EXTENDS SavedAgentsProofs

\* What the abstract service sees of a step of one call.
LEMMA CallSeen ==
    ASSUME StoreInvariant, NEW k \in Calls, NEW n, calls' = [calls EXCEPT ![k] = n], load' = load
    PROVE  LET asked == [j \in Calls |-> Sent(j)]
               told == [j \in Calls |-> calls[j].answer]
           IN  /\ asked' = [asked EXCEPT ![k] = IF n.input = Nothing THEN Nothing
                                                ELSE [id |-> Ask(k).id, input |-> n.input]]
               /\ told' = [told EXCEPT ![k] = n.answer]
               /\ n.input = calls[k].input => asked' = asked
               /\ n.answer = calls[k].answer => told' = told
<1>1. calls \in [Calls -> CallRecords] /\ \A j \in Calls : Ask(j)' = Ask(j)
  BY DEF StoreInvariant, StoreTypes, Ask
<1>2. calls'[k] = n /\ \A j \in Calls \ {k} : calls'[j] = calls[j]
  BY <1>1
<1>3. /\ Sent(k)' = IF n.input = Nothing THEN Nothing ELSE [id |-> Ask(k).id, input |-> n.input]
      /\ \A j \in Calls \ {k} : Sent(j)' = Sent(j)
      /\ n.input = calls[k].input => Sent(k)' = Sent(k)
  BY <1>1, <1>2 DEF Sent
<1>. DEFINE asked == [j \in Calls |-> Sent(j)]
            told == [j \in Calls |-> calls[j].answer]
            sent == IF n.input = Nothing THEN Nothing ELSE [id |-> Ask(k).id, input |-> n.input]
<1>4. asked' = [j \in Calls |-> Sent(j)'] /\ told' = [j \in Calls |-> calls'[j].answer]
  OBVIOUS
<1>5. asked' = [asked EXCEPT ![k] = sent]
  <2>. HIDE DEF sent
  <2>1. Sent(k)' = sent
    BY <1>3 DEF sent
  <2>. QED
    BY <1>3, <1>4, <2>1
<1>6. told' = [told EXCEPT ![k] = n.answer]
  <2>1. \A j \in Calls : calls'[j].answer = IF j = k THEN n.answer ELSE calls[j].answer
    BY <1>2
  <2>2. [told EXCEPT ![k] = n.answer] = [j \in Calls |-> IF j = k THEN n.answer ELSE calls[j].answer]
    OBVIOUS
  <2>. QED
    BY <1>4, <2>1, <2>2
<1>7. n.input = calls[k].input => asked' = asked
  BY <1>3, <1>4
<1>8. n.answer = calls[k].answer => told' = told
  BY <1>2, <1>4
<1>. QED
  BY <1>5, <1>6, <1>7, <1>8

\* The names of a family, and who has one, are what the abstract service takes them for.
LEMMA SameNames ==
    ASSUME StoreInvariant, NEW name, NEW a
    PROVE  /\ Service!Free(name, a) <=> ~NameTaken(name, a)
           /\ Service!Cardinality(Service!LiveFamilies) = Cardinality({b \in 1..Len(families) : Live(b)})
<1>1. ASSUME NEW b \in 1..Len(families) PROVE Service!Reserved(families[b]) = NamesOf(families[b])
  <2>1. families[b] \in Families
    BY DEF StoreInvariant, StoreTypes
  <2>2. families[b].versions \in Seq(Fields)
    BY <2>1 DEF Families
  <2>3. {families[b].versions[i].name : i \in 1..Len(families[b].versions)}
          = {v.name : v \in Range(families[b].versions)}
    BY <2>2 DEF Range
  <2>. QED
    BY <2>3 DEF Service!Reserved, NamesOf
<1>2. \A S : Service!Cardinality(S) = Cardinality(S)
  BY DEF Service!Cardinality, Cardinality
<1>3. Service!LiveFamilies = {b \in 1..Len(families) : Live(b)}
  BY DEF Service!LiveFamilies, Live, Family
<1>4. Service!Free(name, a) <=> ~NameTaken(name, a)
  BY <1>1 DEF Service!Free, NameTaken
<1>. QED
  BY <1>2, <1>3, <1>4

\* What the store checks of a call is what the abstract service allows.
LEMMA AllowedWhenCurrent ==
    ASSUME StoreInvariant, NEW k \in Calls, calls[k].input # Nothing
    PROVE  LET i == calls[k].input IN
           /\ Sent(k) = [id |-> Ask(k).id, input |-> i] /\ Sent(k) # Nothing
           /\ Sent(k) \in [id : OpIds, input : Inputs]
           /\ i.op = "create_draft" =>
                (Service!Allowed(Sent(k)) <=> Quota /\ ~NameTaken(Ask(k).name, 0))
           /\ i.op = "patch_draft" =>
                (Service!Allowed(Sent(k)) <=>
                   Current(k) /\ ~NameTaken(Patched(families[i.agent].draft.fields, k).name, i.agent))
           /\ i.op \notin {"create_draft", "patch_draft"} => (Service!Allowed(Sent(k)) <=> Current(k))
<1>. DEFINE i == calls[k].input
            a == i.agent
            f == families[a]
            q == Sent(k)
<1>1. /\ Ask(k) \in Requests /\ Ask(k).id \in OpIds /\ i \in Inputs /\ i.op = Ask(k).op /\ a = Ask(k).agent
      /\ i.op # "create_draft" => a \in 1..Len(families)
  BY Asked
<1>2. i.name = Ask(k).name
  BY DEF StoreInvariant, CallFits
<1>3. q = [id |-> Ask(k).id, input |-> i] /\ q \in [id : OpIds, input : Inputs]
  BY <1>1 DEF Sent
<1>4. q # Nothing
  BY <1>3, NothingIsAbsent
<1>5. q.id = Ask(k).id /\ q.input = i
  BY <1>3
<1>. HIDE DEF q
<1>6. CASE i.op = "create_draft"
  <2>1. Service!Allowed(q) <=> Service!Cardinality(Service!LiveFamilies) < MaxFamilies /\ Service!Free(i.name, 0)
    BY <1>5, <1>6 DEF Service!Allowed
  <2>. QED
    BY <1>2, <1>3, <1>4, <1>6, <2>1, SameNames DEF Quota, q
<1>7. CASE i.op # "create_draft"
  <2>1. a \in 1..Len(families) /\ f \in Families
    BY <1>1, <1>7 DEF StoreInvariant, StoreTypes
  <2>2. Service!Unchanged(f, i) <=> Live(a) /\ f.revision = i.revision
    BY <2>1 DEF Service!Unchanged, Live, Family
  <2>3. i.op \in {"patch_draft", "publish_draft"} => (Service!Draft(f, i) <=> Current(k))
    BY <2>2 DEF Service!Draft, Current, SameRevision, DraftRevision, Family, Editable
  <2>4. i.op \notin {"patch_draft", "publish_draft"} => (SameRevision(k) <=> Service!Unchanged(f, i))
    BY <2>2 DEF SameRevision, Family
  <2>5. f.lifecycle \in {"draft_only", "active", "archived", "deleted"}
    BY <2>1 DEF Families, Lifecycles
  <2>6. Service!Unchanged(f, i) => f.lifecycle # "deleted"
    BY DEF Service!Unchanged
  <2>7. i.op \in Ops
    BY <1>1 DEF Inputs
  <2>8. CASE i.op = "patch_draft"
    <3>1. Service!Edited(f.draft.fields, q) = Patched(f.draft.fields, k)
      BY <1>2, <1>5 DEF Service!Edited, Patched
    <3>2. Service!Allowed(q) <=> Service!Draft(f, i) /\ Service!Free(Service!Edited(f.draft.fields, q).name, a)
      BY <1>5, <2>8 DEF Service!Allowed
    <3>. QED
      BY <1>3, <1>4, <2>3, <2>8, <3>1, <3>2, SameNames DEF q
  <2>9. CASE i.op = "publish_draft"
    <3>1. Service!Allowed(q) <=> Service!Draft(f, i)
      BY <1>5, <2>9 DEF Service!Allowed
    <3>. QED
      BY <1>3, <1>4, <2>3, <2>9, <3>1 DEF q
  <2>10. CASE i.op \in {"begin_revision", "activate_version"}
    <3>1. Service!Allowed(q) <=> /\ Service!Unchanged(f, i) /\ f.lifecycle = "active"
                                 /\ i.op = "begin_revision" => f.draft = Nothing
      BY <1>5, <2>10 DEF Service!Allowed
    <3>2. Current(k) <=> /\ SameRevision(k) /\ f.lifecycle = "active"
                         /\ i.op = "begin_revision" => f.draft = Nothing
      BY <2>10 DEF Current, Family, Revisable, LifecyclesOf
    <3>. QED
      BY <1>3, <1>4, <2>4, <2>10, <3>1, <3>2 DEF q
  <2>11. CASE i.op \in {"archive_family", "restore_family", "delete_family"}
    <3>1. Service!Allowed(q) <=> /\ Service!Unchanged(f, i)
                                 /\ i.op = "archive_family" => f.lifecycle # "archived"
                                 /\ i.op = "restore_family" => f.lifecycle = "archived"
      BY <1>5, <2>11 DEF Service!Allowed
    <3>2. Current(k) <=> SameRevision(k) /\ f.lifecycle \in LifecyclesOf(i.op)
      BY <2>11 DEF Current, Family
    <3>3. Service!Unchanged(f, i) =>
            (f.lifecycle \in LifecyclesOf(i.op) <=> /\ i.op = "archive_family" => f.lifecycle # "archived"
                                                    /\ i.op = "restore_family" => f.lifecycle = "archived")
      BY <2>5, <2>6, <2>11 DEF LifecyclesOf
    <3>. QED
      BY <1>3, <1>4, <2>4, <2>11, <3>1, <3>2, <3>3 DEF q
  <2>. QED
    BY <1>7, <2>7, <2>8, <2>9, <2>10, <2>11 DEF Ops
<1>. QED
  BY <1>6, <1>7

\* A call that is answered what is recorded of its operation, or refused what is not allowed.
LEMMA AnswersAtomically ==
    ASSUME StoreInvariant, NEW k \in Calls, calls[k].pc # "done", calls[k].input # Nothing,
           UNCHANGED <<load, families, ledger>>
    PROVE  /\ Recorded(k) # Nothing /\ Answered(k, Recorded(k)) => Service!Repeat(k)
           /\ ~Service!Allowed(Sent(k)) /\ Answered(k, Answer("refused")) => Service!Refuse(k)
<1>. DEFINE c == calls[k]
            asked == [j \in Calls |-> Sent(j)]
            told == [j \in Calls |-> calls[j].answer]
<1>1. /\ c \in CallRecords /\ c.answer.st = "none" /\ Sent(k) = [id |-> Ask(k).id, input |-> c.input]
      /\ Sent(k) # Nothing
  BY AllowedWhenCurrent DEF StoreInvariant, StoreTypes, CallFits
<1>2. ASSUME NEW answer, Answered(k, answer) PROVE asked' = asked /\ told' = [told EXCEPT ![k] = answer]
  <2>. DEFINE n == [c EXCEPT !.pc = "done", !.answer = answer]
  <2>1. calls' = [calls EXCEPT ![k] = n]
    BY <1>1, <1>2 DEF Answered, CallRecords
  <2>2. n.input = c.input /\ n.answer = answer
    BY <1>1 DEF CallRecords
  <2>. HIDE DEF n
  <2>. QED
    BY <2>1, <2>2, CallSeen
<1>3. told[k] = c.answer /\ asked[k] = Sent(k) /\ \A answer : told' = [told EXCEPT ![k] = answer] => told'[k] = answer
  OBVIOUS
<1>. HIDE DEF asked, told
<1>4. ASSUME Recorded(k) # Nothing, Answered(k, Recorded(k)) PROVE Service!Repeat(k)
  <2>1. ledger[Ask(k).id] # Nothing
    BY <1>4 DEF Recorded
  <2>2. Recorded(k) = IF ledger[Ask(k).id].input = c.input THEN ledger[Ask(k).id].result ELSE Answer("reused")
    BY <2>1 DEF Recorded
  <2>3. asked' = asked /\ told' = [told EXCEPT ![k] = Recorded(k)] /\ told'[k] = Recorded(k)
    BY <1>2, <1>3, <1>4
  <2>4. Answer("reused").st = "reused"
    BY DEF Answer
  <2>. QED
    <3>1. UNCHANGED <<families, ledger, asked>> /\ asked[k].id = Ask(k).id /\ asked[k].input = c.input
          /\ asked[k] # Nothing /\ told[k].st = "none"
      BY <1>1, <1>3, <2>3
    <3>2. CASE ledger[Ask(k).id].input = c.input
      <4>1. told' = [told EXCEPT ![k] = ledger[Ask(k).id].result]
        BY <2>2, <2>3, <3>2
      <4>. QED
        BY <2>1, <3>1, <3>2, <4>1 DEF Service!Repeat, Service!Tell, asked, told
    <3>3. CASE ledger[Ask(k).id].input # c.input
      <4>1. told' = [told EXCEPT ![k] = told'[k]] /\ told'[k].st = "reused"
        BY <2>2, <2>3, <2>4, <3>3
      <4>. QED
        BY <2>1, <3>1, <3>3, <4>1 DEF Service!Repeat, Service!Tell, asked, told
    <3>. QED
      BY <3>2, <3>3
<1>5. ASSUME ~Service!Allowed(Sent(k)), Answered(k, Answer("refused")) PROVE Service!Refuse(k)
  <2>1. asked' = asked /\ told' = [told EXCEPT ![k] = Answer("refused")] /\ told'[k] = Answer("refused")
    BY <1>2, <1>3, <1>5
  <2>2. Answer("refused").st = "refused"
    BY DEF Answer
  <2>. QED
    BY <1>1, <1>3, <1>5, <2>1, <2>2 DEF Service!Refuse, asked, told
<1>. QED
  BY <1>4, <1>5

\* What a transaction records of its operation is what the abstract service does.
LEMMA RecordsAtomically ==
    ASSUME StoreInvariant, NEW k \in Calls, calls[k].pc = "commit", Recorded(k) = Nothing
    PROVE  /\ Sent(k) # Nothing /\ ledger[Ask(k).id] = Nothing
           /\ \A fs, a : Committed(k, fs, a) => Service!Record(k, fs, a)
<1>. DEFINE c == calls[k]
            asked == [j \in Calls |-> Sent(j)]
            told == [j \in Calls |-> calls[j].answer]
<1>1. c \in CallRecords /\ c.input # Nothing /\ c.answer.st = "none"
  BY DEF StoreInvariant, StoreTypes, CallFits
<1>2. /\ Sent(k) = [id |-> Ask(k).id, input |-> c.input] /\ Sent(k) # Nothing /\ Ask(k).id \in OpIds
  BY <1>1, AllowedWhenCurrent, Asked
<1>3. ledger[Ask(k).id] = Nothing
  <2>. SUFFICES ASSUME ledger[Ask(k).id] # Nothing PROVE FALSE
    OBVIOUS
  <2>1. ledger[Ask(k).id].result \in Answers /\ Answer("reused") \in Answers
    BY <1>2 DEF StoreInvariant, StoreTypes, Answers, Answer
  <2>2. Recorded(k) \in Answers
    BY <2>1 DEF Recorded
  <2>. QED
    BY <2>2, NothingIsAbsent
<1>4. asked[k].id = Ask(k).id /\ asked[k].input = c.input /\ told[k].st = "none"
  BY <1>1, <1>2
<1>. HIDE DEF asked, told
<1>5. ASSUME NEW fs, NEW a, Committed(k, fs, a) PROVE Service!Record(k, fs, a)
  <2>. DEFINE result == [st |-> "ok", agent |-> a, revision |-> fs[a].revision]
              n == [c EXCEPT !.pc = "done", !.answer = result]
  <2>1. /\ families' = fs /\ load' = load
        /\ ledger' = [ledger EXCEPT ![Ask(k).id] = [input |-> c.input, result |-> result]]
        /\ calls' = [calls EXCEPT ![k].pc = "done", ![k].answer = result]
    BY <1>5 DEF Committed, Answered
  <2>. HIDE DEF result
  <2>2. calls' = [calls EXCEPT ![k] = n] /\ n.input = c.input /\ n.answer = result
    BY <1>1, <2>1 DEF CallRecords
  <2>. HIDE DEF n
  <2>3. asked' = asked /\ told' = [told EXCEPT ![k] = result]
    BY <2>1, <2>2, CallSeen DEF asked, told
  <2>. QED
    BY <1>4, <2>1, <2>3 DEF Service!Record, Service!Tell, asked, told, result
<1>. QED
  BY <1>2, <1>3, <1>5

\* Every transaction that commits is the abstract operation, applied to the families as they are.
LEMMA CommitsAtomically ==
    ASSUME StoreInvariant, NEW k \in Calls, Commit(k), ~Refuse(k)
    PROVE  Service!Apply(k)
<1>. DEFINE c == calls[k]
            i == c.input
            a == i.agent
            f == families[a]
            q == Sent(k)
            asked == [j \in Calls |-> Sent(j)]
<1>1. c.pc = "commit" /\ Recorded(k) = Nothing
  BY CommitShape
<1>2. /\ c \in CallRecords /\ i # Nothing /\ CallBuilds(k) /\ i.name = Ask(k).name
      /\ i.op = "activate_version" => i.version \in 1..Len(families[a].versions)
  BY <1>1 DEF StoreInvariant, StoreTypes, CallFits
<1>3. /\ q = [id |-> Ask(k).id, input |-> i] /\ q # Nothing /\ ledger[Ask(k).id] = Nothing
      /\ \A fs, b : Committed(k, fs, b) => Service!Record(k, fs, b)
  <2>1. q = [id |-> Ask(k).id, input |-> i]
    BY <1>2, AllowedWhenCurrent
  <2>. QED
    BY <1>1, <2>1, RecordsAtomically
<1>4. asked[k] = q /\ q.id = Ask(k).id /\ q.input = i
  BY <1>3
<1>. HIDE DEF asked, q
<1>5. ASSUME i.op # "create_draft", NEW h, Saved(k, h), Service!Allowed(q),
             [h EXCEPT !.revision = f.revision + 1] = Service!Becomes(f, q)
      PROVE  Service!Apply(k)
  <2>1. Service!Record(k, [families EXCEPT ![a] = Service!Becomes(f, q)], a)
    BY <1>3, <1>5 DEF Saved
  <2>. QED
    BY <1>3, <1>4, <1>5, <2>1 DEF Service!Apply, asked
<1>6. Current(k) => /\ f \in Families /\ SameRevision(k) /\ a \in 1..Len(families)
                    /\ f.revision = i.revision
  BY FoundFamily DEF Current
<1>7. CASE CreateFamily(k)
  <2>1. i.op = "create_draft" /\ Creatable(k) /\ c.fields = [name |-> i.name, edits |-> {q.id}]
    BY <1>1, <1>2, <1>4, <1>7 DEF CreateFamily, Committing, CallBuilds
  <2>2. c.fields.name = Ask(k).name
    BY <1>2, <2>1
  <2>3. Service!Allowed(q)
    BY <1>2, <2>1, <2>2, AllowedWhenCurrent DEF Creatable, q
  <2>4. Service!Record(k, Append(families, Service!Created(q)), Len(families) + 1)
    BY <1>3, <1>4, <1>7, <2>1 DEF CreateFamily, Service!Created
  <2>. QED
    BY <1>3, <1>4, <2>1, <2>3, <2>4 DEF Service!Apply, asked
<1>8. CASE BeginRevision(k)
  <2>. DEFINE d == [rev |-> 1, based |-> f.active, fields |-> f.versions[f.active]]
              next == f.revision + 1
  <2>1. i.op = "begin_revision" /\ Current(k) /\ Saved(k, [f EXCEPT !.draft = d])
    BY <1>8 DEF BeginRevision, Committing, Family
  <2>2. Service!Becomes(f, q) = [[f EXCEPT !.revision = next] EXCEPT !.draft = d]
    BY <1>4, <1>6, <2>1 DEF Service!Becomes, Families
  <2>. HIDE DEF d, next
  <2>3. [[f EXCEPT !.draft = d] EXCEPT !.revision = next] = Service!Becomes(f, q)
    BY <1>6, <2>1, <2>2 DEF Families
  <2>4. Service!Allowed(q)
    BY <1>2, <2>1, AllowedWhenCurrent DEF q
  <2>. QED
    BY <1>5, <2>1, <2>3, <2>4 DEF next
<1>9. CASE PatchDraft(k)
  <2>. DEFINE d == [f.draft EXCEPT !.fields = c.fields, !.rev = @ + 1]
              e == [f.draft EXCEPT !.rev = @ + 1, !.fields = Service!Edited(f.draft.fields, q)]
              next == f.revision + 1
  <2>1. /\ i.op = "patch_draft" /\ Current(k) /\ ~NameTaken(c.fields.name, a) /\ Editable(f)
        /\ Saved(k, [f EXCEPT !.draft = d])
    BY <1>9 DEF PatchDraft, Committing, Family, Current
  <2>2. c.fields = Patched(f.draft.fields, k)
    BY <1>1, <1>2, <1>6, <2>1 DEF CallBuilds
  <2>3. c.fields = Service!Edited(f.draft.fields, q)
    BY <1>2, <1>4, <2>2 DEF Service!Edited, Patched
  <2>4. f.draft \in Drafts
    BY <1>6, <2>1 DEF Families, Editable
  <2>5. d = e
    <3>. HIDE DEF i
    <3>. DEFINE rev == f.draft.rev + 1
    <3>1. d = [f.draft EXCEPT !.fields = c.fields, !.rev = rev] /\ e = [f.draft EXCEPT !.rev = rev, !.fields = c.fields]
      BY <2>3, <2>4 DEF Drafts
    <3>. HIDE DEF rev
    <3>. QED
      BY <2>4, <3>1 DEF Drafts
  <2>6. Service!Becomes(f, q) = [[f EXCEPT !.revision = next] EXCEPT !.draft = e]
    BY <1>4, <1>6, <2>1 DEF Service!Becomes, Families
  <2>. HIDE DEF d, e, next
  <2>7. [[f EXCEPT !.draft = d] EXCEPT !.revision = next] = Service!Becomes(f, q)
    BY <1>6, <2>1, <2>5, <2>6 DEF Families
  <2>8. Service!Allowed(q)
    BY <1>2, <2>1, <2>2, AllowedWhenCurrent DEF q
  <2>. QED
    BY <1>5, <2>1, <2>7, <2>8 DEF next
<1>10. CASE PublishDraft(k)
  <2>. DEFINE vs == Append(f.versions, f.draft.fields)
              last == Len(f.versions) + 1
              next == f.revision + 1
              h == [f EXCEPT !.lifecycle = "active", !.draft = Nothing, !.versions = vs, !.active = last]
  <2>1. /\ i.op = "publish_draft" /\ Current(k)
        /\ Saved(k, [f EXCEPT !.lifecycle = "active", !.draft = Nothing,
                               !.versions = Append(@, f.draft.fields), !.active = Len(f.versions) + 1])
    BY <1>10 DEF PublishDraft, Committing, Family
  <2>2. Saved(k, h)
    BY <1>6, <2>1 DEF Families
  <2>3. Service!Becomes(f, q) = [[f EXCEPT !.revision = next] EXCEPT !.versions = vs, !.active = last,
                                                                     !.draft = Nothing, !.lifecycle = "active"]
    BY <1>4, <1>6, <2>1 DEF Service!Becomes, Families
  <2>4. Service!Allowed(q)
    BY <1>2, <2>1, AllowedWhenCurrent DEF q
  <2>5. [h EXCEPT !.revision = next] = Service!Becomes(f, q)
    <3>. HIDE DEF vs, last, next
    <3>. QED
      BY <1>6, <2>1, <2>3 DEF Families
  <2>. QED
    BY <1>5, <2>1, <2>2, <2>4, <2>5
<1>11. CASE ActivateVersion(k)
  <2>. DEFINE next == f.revision + 1
              h == [f EXCEPT !.active = i.version]
  <2>1. i.op = "activate_version" /\ Current(k) /\ Saved(k, h)
    BY <1>11 DEF ActivateVersion, Committing, Family
  <2>2. Service!Becomes(f, q) = [[f EXCEPT !.revision = next] EXCEPT !.active = i.version]
    BY <1>4, <1>6, <2>1 DEF Service!Becomes, Families
  <2>3. [h EXCEPT !.revision = next] = Service!Becomes(f, q)
    <3>. HIDE DEF next
    <3>. QED
      BY <1>6, <2>1, <2>2 DEF Families
  <2>4. Service!Allowed(q)
    BY <1>2, <2>1, AllowedWhenCurrent DEF q
  <2>. QED
    BY <1>5, <2>1, <2>3, <2>4
<1>12. CASE ArchiveFamily(k) \/ RestoreFamily(k) \/ DeleteFamily(k)
  <2>. DEFINE next == f.revision + 1
              l == CASE i.op = "archive_family" -> "archived"
                     [] i.op = "restore_family" -> IF f.active = 0 THEN "draft_only" ELSE "active"
                     [] i.op = "delete_family" -> "deleted"
              h == [f EXCEPT !.lifecycle = l]
  <2>1. /\ i.op \in {"archive_family", "restore_family", "delete_family"} /\ Current(k) /\ Saved(k, h)
    BY <1>12 DEF ArchiveFamily, RestoreFamily, DeleteFamily, Committing, Family
  <2>2. Service!Becomes(f, q) = [[f EXCEPT !.revision = next] EXCEPT !.lifecycle = l]
    BY <1>4, <1>6, <2>1 DEF Service!Becomes, Families
  <2>3. [h EXCEPT !.revision = next] = Service!Becomes(f, q)
    <3>. HIDE DEF next, l
    <3>. QED
      BY <1>6, <2>1, <2>2 DEF Families
  <2>4. Service!Allowed(q)
    BY <1>2, <2>1, AllowedWhenCurrent DEF q
  <2>. QED
    BY <1>5, <2>1, <2>3, <2>4
<1>. QED
  BY <1>7, <1>8, <1>9, <1>10, <1>11, <1>12 DEF Commit

\* Every other step of a call is invisible, or an answer.
LEMMA MovesAtomically ==
    ASSUME StoreInvariant, NEW k \in Calls, Begin(k) \/ Replay(k) \/ Read(k) \/ Refuse(k)
    PROVE  UNCHANGED Service!avars \/ Service!Next
<1>. DEFINE c == calls[k]
            i == c.input
            a == i.agent
            f == families[a]
            asked == [j \in Calls |-> Sent(j)]
            told == [j \in Calls |-> calls[j].answer]
            Good == UNCHANGED Service!avars \/ Service!Next
<1>1. c \in CallRecords /\ CallFits(k) /\ CallBuilds(k)
  BY DEF StoreInvariant, StoreTypes
<1>2. UNCHANGED <<load, families, ledger>>
  BY DEF Begin, Replay, Read, Refuse, NewDraft, ReadRevised, ReadPatched, ReadPublished, ReadActivated,
         ReadLifecycle, ReadVersion, Reading
<1>3. ASSUME NEW n, calls' = [calls EXCEPT ![k] = n], n.input = i, n.answer = c.answer PROVE Good
  <2>1. asked' = asked /\ told' = told
    BY <1>2, <1>3, CallSeen
  <2>. QED
    BY <1>2, <2>1 DEF Service!avars
<1>4. Service!Ask(k) \/ Service!TurnAway(k) \/ Service!Repeat(k) \/ Service!Refuse(k) => Good
  BY DEF Service!Next
<1>5. c.pc # "done" /\ i # Nothing /\ Recorded(k) # Nothing /\ Answered(k, Recorded(k)) => Good
  BY <1>2, <1>4, AnswersAtomically
<1>6. c.pc # "done" /\ i # Nothing /\ ~Service!Allowed(Sent(k)) /\ Answered(k, Answer("refused")) => Good
  BY <1>2, <1>4, AnswersAtomically
<1>. HIDE DEF Good
<1>7. i # Nothing =>
        /\ i.op = "create_draft" => (Service!Allowed(Sent(k)) <=> Quota /\ ~NameTaken(Ask(k).name, 0))
        /\ i.op = "patch_draft" =>
             (Service!Allowed(Sent(k)) <=> Current(k) /\ ~NameTaken(Patched(f.draft.fields, k).name, a))
        /\ i.op \notin {"create_draft", "patch_draft"} => (Service!Allowed(Sent(k)) <=> Current(k))
  BY AllowedWhenCurrent
<1>8. c.pc \in {"replay", "read", "version", "commit"} => i # Nothing
  BY <1>1 DEF CallFits
<1>9. ASSUME Begin(k) PROVE Good
  <2>1. c.pc = "idle" /\ i = Nothing /\ c.answer.st = "none" /\ Ask(k) \in Requests /\ Ask(k).agent <= Len(families)
    <3>1. Ask(k) \in Requests \cup {Nothing}
      BY WorkloadsOK DEF StoreInvariant, StoreTypes, Ask
    <3>. QED
      BY <1>1, <1>9, <3>1 DEF Begin, CallFits
  <2>2. asked[k] = Nothing /\ told[k].st = "none"
    BY <2>1 DEF Sent
  <2>3. CASE ~Resolves(k)
    <3>. DEFINE n == [c EXCEPT !.pc = "done", !.answer = Answer("refused")]
    <3>1. calls' = [calls EXCEPT ![k] = n] /\ n.input = i /\ n.answer = Answer("refused")
      BY <1>1, <1>9, <2>3 DEF Begin, Answered, CallRecords
    <3>. HIDE DEF n
    <3>2. asked' = asked /\ told' = [told EXCEPT ![k] = Answer("refused")]
      <4>1. asked' = asked /\ told' = [told EXCEPT ![k] = n.answer]
        BY <1>2, <3>1, CallSeen
      <4>. QED
        BY <3>1, <4>1
    <3>3. told'[k] = Answer("refused") /\ Answer("refused").st = "refused"
      BY <3>2 DEF Answer
    <3>. HIDE DEF asked, told
    <3>4. Service!TurnAway(k)
      BY <1>2, <2>2, <3>2, <3>3 DEF Service!TurnAway, asked, told
    <3>. QED
      BY <1>4, <3>4
  <2>4. CASE Resolves(k)
    <3>1. PICK v \in IF Ask(k).op = "activate_version" THEN 1..Len(Family(Ask(k).agent).versions) ELSE {0} :
            calls' = [calls EXCEPT ![k].pc = "replay", ![k].input = InputOf(k, v)]
      BY <1>9, <2>4 DEF Begin
    <3>. DEFINE j == InputOf(k, v)
                n == [c EXCEPT !.pc = "replay", !.input = j]
                sent == [id |-> Ask(k).id, input |-> j]
    <3>2. j \in Inputs
      BY <2>1, <3>1, InputFits DEF Family
    <3>3. j # Nothing
      BY <3>2, NothingIsAbsent
    <3>. HIDE DEF j
    <3>4. calls' = [calls EXCEPT ![k] = n] /\ n.input = j /\ n.answer = c.answer
      BY <1>1, <3>1 DEF CallRecords, j
    <3>. HIDE DEF n
    <3>5. asked' = [asked EXCEPT ![k] = sent] /\ told' = told
      BY <1>2, <3>3, <3>4, CallSeen
    <3>6. sent \in [id : OpIds, input : Inputs]
      BY <2>1, <3>2 DEF Requests
    <3>. HIDE DEF sent
    <3>7. asked'[k] = sent
      BY <3>5
    <3>. HIDE DEF asked, told
    <3>8. Service!Ask(k)
      BY <1>2, <2>2, <3>5, <3>6, <3>7 DEF Service!Ask, asked, told
    <3>. QED
      BY <1>4, <3>8
  <2>. QED
    BY <2>3, <2>4
<1>10. ASSUME Replay(k) PROVE Good
  <2>1. CASE Recorded(k) # Nothing
    BY <1>5, <1>8, <1>10, <2>1 DEF Replay
  <2>2. CASE Recorded(k) = Nothing
    <3>. DEFINE n == [c EXCEPT !.pc = "read"]
    <3>1. calls' = [calls EXCEPT ![k] = n] /\ n.input = i /\ n.answer = c.answer
      BY <1>1, <1>10, <2>2 DEF Replay, CallRecords
    <3>. HIDE DEF n
    <3>. QED
      BY <1>3, <3>1
  <2>. QED
    BY <2>1, <2>2
<1>11. ASSUME Refuse(k) PROVE Good
  <2>1. c.pc = "commit" /\ i # Nothing
    BY <1>8, <1>11 DEF Refuse
  <2>2. CASE Recorded(k) # Nothing
    BY <1>5, <1>11, <2>1, <2>2 DEF Refuse
  <2>3. CASE Recorded(k) = Nothing
    <3>1. /\ Answered(k, Answer("refused"))
          /\ i.op = "create_draft" => ~Creatable(k)
          /\ i.op = "patch_draft" => ~Current(k) \/ NameTaken(c.fields.name, a)
          /\ i.op \notin {"create_draft", "patch_draft"} => ~Current(k)
      BY <1>11, <2>3 DEF Refuse
    <3>2. i.op = "create_draft" => c.fields.name = Ask(k).name
      BY <1>1, <2>1 DEF CallBuilds
    <3>3. i.op = "patch_draft" /\ Current(k) => c.fields = Patched(f.draft.fields, k)
      BY <1>1, <2>1, FoundFamily DEF CallBuilds, Current
    <3>4. ~Service!Allowed(Sent(k))
      BY <1>7, <2>1, <3>1, <3>2, <3>3 DEF Creatable
    <3>. QED
      BY <1>6, <2>1, <3>1, <3>4
  <2>. QED
    BY <2>2, <2>3
<1>12. ASSUME NEW check, NEW n, Proceed(k, check, n), n.input = i, n.answer = c.answer, c.pc = "read",
              i.op # "create_draft", Current(k) => check
       PROVE  Good
  <2>1. i # Nothing
    BY <1>8, <1>12
  <2>2. CASE check
    BY <1>3, <1>12, <2>2 DEF Proceed
  <2>3. CASE ~check
    <3>1. Answered(k, Answer("refused"))
      BY <1>12, <2>3 DEF Proceed
    <3>2. ~Service!Allowed(Sent(k))
      BY <1>7, <1>12, <2>1, <2>3
    <3>. QED
      BY <1>6, <1>12, <2>1, <3>1, <3>2
  <2>. QED
    BY <2>2, <2>3
<1>13. ASSUME NewDraft(k) \/ ReadVersion(k) PROVE Good
  <2>1. PICK x : calls' = [calls EXCEPT ![k].pc = "commit", ![k].fields = x]
    <3>1. CASE NewDraft(k)
      BY <3>1 DEF NewDraft
    <3>2. CASE ReadVersion(k)
      <4>. DEFINE y == IF i.op = "begin_revision" THEN f.versions[c.base] ELSE c.fields
      <4>1. calls' = [calls EXCEPT ![k].pc = "commit", ![k].fields = y]
        BY <1>1, <3>2 DEF ReadVersion, Family, CallRecords
      <4>. HIDE DEF y
      <4>. QED
        BY <4>1
    <3>. QED
      BY <1>13, <3>1, <3>2
  <2>. DEFINE n == [c EXCEPT !.pc = "commit", !.fields = x]
  <2>2. calls' = [calls EXCEPT ![k] = n] /\ n.input = i /\ n.answer = c.answer
    BY <1>1, <2>1 DEF CallRecords
  <2>. HIDE DEF n
  <2>. QED
    BY <1>3, <2>2
<1>14. ASSUME ReadRevised(k) PROVE Good
  <2>. DEFINE n == [c EXCEPT !.pc = "version", !.base = f.active]
              check == SameRevision(k) /\ Revisable(f)
  <2>1. c.pc = "read" /\ i.op = "begin_revision" /\ Proceed(k, check, n)
    BY <1>14 DEF ReadRevised, Reading, Family
  <2>2. n.input = i /\ n.answer = c.answer
    BY <1>1 DEF CallRecords
  <2>3. Current(k) => check
    BY <2>1 DEF Current, Family
  <2>. HIDE DEF n, check
  <2>. QED
    BY <1>12, <2>1, <2>2, <2>3
<1>15. ASSUME ReadPatched(k) PROVE Good
  <2>. DEFINE n == [c EXCEPT !.pc = "commit", !.fields = Patched(f.draft.fields, k)]
              check == SameRevision(k) /\ Editable(f)
  <2>1. c.pc = "read" /\ i.op = "patch_draft" /\ Proceed(k, check, n)
    BY <1>15 DEF ReadPatched, Reading, Family
  <2>2. n.input = i /\ n.answer = c.answer
    BY <1>1 DEF CallRecords
  <2>3. Current(k) => check
    BY <2>1 DEF Current, Family
  <2>. HIDE DEF n, check
  <2>. QED
    BY <1>12, <2>1, <2>2, <2>3
<1>16. ASSUME ReadPublished(k) \/ ReadActivated(k) \/ ReadLifecycle(k) PROVE Good
  <2>1. c.pc = "read" /\ i.op \in {"publish_draft", "activate_version", "archive_family", "restore_family",
                                   "delete_family"}
    BY <1>16 DEF ReadPublished, ReadActivated, ReadLifecycle, Reading
  <2>2. PICK pc \in {"commit", "version"} :
          \/ i.op = "publish_draft" /\ Proceed(k, SameRevision(k) /\ Editable(f), [c EXCEPT !.pc = pc])
          \/ /\ i.op # "publish_draft"
             /\ Proceed(k, SameRevision(k) /\ f.lifecycle \in LifecyclesOf(i.op), [c EXCEPT !.pc = pc])
    BY <1>16 DEF ReadPublished, ReadActivated, ReadLifecycle, Reading, Family, LifecyclesOf
  <2>. DEFINE n == [c EXCEPT !.pc = pc]
  <2>3. n.input = i /\ n.answer = c.answer
    BY <1>1 DEF CallRecords
  <2>4. Current(k) => /\ SameRevision(k)
                      /\ i.op = "publish_draft" => Editable(f)
                      /\ i.op # "publish_draft" => f.lifecycle \in LifecyclesOf(i.op)
    BY <2>1 DEF Current, Family
  <2>. HIDE DEF n
  <2>. QED
    BY <1>12, <2>1, <2>2, <2>3, <2>4 DEF n
<1>. QED
  BY <1>9, <1>10, <1>11, <1>13, <1>14, <1>15, <1>16 DEF Read, Good

\* AgentBuilderService over its store: every call takes effect in one instant, and what was
\* refused was not allowed at that instant.
THEOREM CallsAreAtomic == Spec => CallsAtomic
<1>1. Init => Service!Init
  BY DEF Init, Service!Init, Sent, Answer
<1>2. StoreInvariant /\ [Next]_vars => [Service!Next]_Service!avars
  <2>. SUFFICES ASSUME StoreInvariant, [Next]_vars PROVE UNCHANGED Service!avars \/ Service!Next
    OBVIOUS
  <2>1. UNCHANGED <<load, families, ledger, calls>> => UNCHANGED Service!avars
    BY DEF Service!avars, Sent, Ask
  <2>2. ASSUME NEW k \in Calls, Commit(k), ~Refuse(k) PROVE Service!Next
    BY <2>2, CommitsAtomically DEF Service!Next
  <2>3. ASSUME NEW r \in Runs, Run(r) PROVE UNCHANGED <<load, families, ledger, calls>>
    BY <2>3 DEF Run, AdmitRun, Admitted, IssueGrant, RedeemGrant, LoadSaved, BeginExecution, RunEnds, RunStep
  <2>4. SearchPage \/ UNCHANGED vars => UNCHANGED <<load, families, ledger, calls>>
    BY DEF SearchPage, vars
  <2>. QED
    BY <2>1, <2>2, <2>3, <2>4, MovesAtomically DEF Next
<1>. QED
  BY <1>1, <1>2, InitStore, InductiveStore, PTL DEF Spec, CallsAtomic, Service!Spec
=============================================================================
