---------------------------- MODULE AtomicAgents ----------------------------
(***************************************************************************)
(* What the saved-agent service promises its callers: although a call is   *)
(* a replay check, reads and a commit, it takes effect in one instant.     *)
(* It does to the families as they are at that instant what was asked for, *)
(* and nothing else; or it answers what the operation was answered before; *)
(* or it is refused, and then the families as they are do not allow it.    *)
(***************************************************************************)
EXTENDS Naturals, Sequences, FiniteSets

CONSTANTS Calls, OpIds, Inputs, Nothing, MaxFamilies

VARIABLES
    families, ledger,
    asked,   \* what a call asks for, once it has been authorised: [id, input]
    told     \* what it was answered

avars == <<families, ledger, asked, told>>

Init ==
    /\ ledger = [o \in OpIds |-> Nothing]
    /\ asked = [k \in Calls |-> Nothing]
    /\ \A k \in Calls : told[k].st = "none"

\* The names a family reserves, and whether another family than a has one.
Reserved(f) ==
    {f.versions[i].name : i \in 1..Len(f.versions)} \cup {d.fields.name : d \in {f.draft} \ {Nothing}}
Free(name, a) == \A b \in 1..Len(families) : b # a => name \notin Reserved(families[b])

LiveFamilies == {a \in 1..Len(families) : families[a].lifecycle # "deleted"}

\* The fields of a draft after an edit.
Edited(fields, q) ==
    [name |-> IF q.input.name = 0 THEN fields.name ELSE q.input.name, edits |-> fields.edits \cup {q.id}]

\* The family is as the caller has last seen it.
Unchanged(f, i) == f.lifecycle # "deleted" /\ f.revision = i.revision
Draft(f, i) == Unchanged(f, i) /\ f.draft # Nothing /\ f.draft.rev = i.draftRevision /\ f.lifecycle # "archived"

\* The families as they are allow what is asked for.
Allowed(q) ==
    LET i == q.input
        f == families[i.agent]
    IN  CASE i.op = "create_draft" -> Cardinality(LiveFamilies) < MaxFamilies /\ Free(i.name, 0)
          [] i.op = "begin_revision" -> Unchanged(f, i) /\ f.lifecycle = "active" /\ f.draft = Nothing
          [] i.op = "patch_draft" -> Draft(f, i) /\ Free(Edited(f.draft.fields, q).name, i.agent)
          [] i.op = "publish_draft" -> Draft(f, i)
          [] i.op = "activate_version" -> Unchanged(f, i) /\ f.lifecycle = "active"
          [] i.op = "archive_family" -> Unchanged(f, i) /\ f.lifecycle # "archived"
          [] i.op = "restore_family" -> Unchanged(f, i) /\ f.lifecycle = "archived"
          [] i.op = "delete_family" -> Unchanged(f, i)

\* What becomes of the family.
Becomes(f, q) ==
    LET i == q.input
        g == [f EXCEPT !.revision = @ + 1]
    IN  CASE i.op = "begin_revision" ->
               [g EXCEPT !.draft = [rev |-> 1, based |-> f.active, fields |-> f.versions[f.active]]]
          [] i.op = "patch_draft" ->
               [g EXCEPT !.draft = [f.draft EXCEPT !.rev = @ + 1, !.fields = Edited(f.draft.fields, q)]]
          [] i.op = "publish_draft" ->
               [g EXCEPT !.versions = Append(f.versions, f.draft.fields), !.active = Len(f.versions) + 1,
                         !.draft = Nothing, !.lifecycle = "active"]
          [] i.op = "activate_version" -> [g EXCEPT !.active = i.version]
          [] i.op = "archive_family" -> [g EXCEPT !.lifecycle = "archived"]
          [] i.op = "restore_family" -> [g EXCEPT !.lifecycle = IF f.active = 0 THEN "draft_only" ELSE "active"]
          [] i.op = "delete_family" -> [g EXCEPT !.lifecycle = "deleted"]

Created(q) ==
    [lifecycle |-> "draft_only", active |-> 0, revision |-> 1, versions |-> <<>>,
     draft |-> [rev |-> 1, based |-> 0, fields |-> [name |-> q.input.name, edits |-> {q.id}]]]

-----------------------------------------------------------------------------
Tell(k, answer) == told[k].st = "none" /\ told' = [told EXCEPT ![k] = answer]

\* A call is authorised, with all that its caller sends; or turned away.
Ask(k) ==
    /\ asked[k] = Nothing
    /\ asked'[k] \in [id : OpIds, input : Inputs] /\ asked' = [asked EXCEPT ![k] = asked'[k]]
    /\ UNCHANGED <<families, ledger, told>>

TurnAway(k) ==
    /\ asked[k] = Nothing
    /\ told[k].st = "none" /\ told'[k].st = "refused" /\ told' = [told EXCEPT ![k] = told'[k]]
    /\ UNCHANGED <<families, ledger, asked>>

Record(k, fs, a) ==
    LET result == [st |-> "ok", agent |-> a, revision |-> fs[a].revision] IN
    /\ families' = fs
    /\ ledger' = [ledger EXCEPT ![asked[k].id] = [input |-> asked[k].input, result |-> result]]
    /\ Tell(k, result)
    /\ UNCHANGED asked

Apply(k) ==
    LET q == asked[k]
        a == q.input.agent
    IN
    /\ q # Nothing /\ ledger[q.id] = Nothing /\ Allowed(q)
    /\ IF q.input.op = "create_draft" THEN Record(k, Append(families, Created(q)), Len(families) + 1)
       ELSE Record(k, [families EXCEPT ![a] = Becomes(families[a], q)], a)

\* The operation has been applied: the answer it had, unless other was asked for.
Repeat(k) ==
    /\ asked[k] # Nothing /\ ledger[asked[k].id] # Nothing
    /\ LET entry == ledger[asked[k].id] IN
         IF entry.input = asked[k].input THEN Tell(k, entry.result)
         ELSE told[k].st = "none" /\ told'[k].st = "reused" /\ told' = [told EXCEPT ![k] = told'[k]]
    /\ UNCHANGED <<families, ledger, asked>>

\* This is also what a retry may be told that looked for its operation before the
\* original call, still under way, was applied.
Refuse(k) ==
    /\ asked[k] # Nothing /\ ~Allowed(asked[k])
    /\ told[k].st = "none" /\ told'[k].st = "refused" /\ told' = [told EXCEPT ![k] = told'[k]]
    /\ UNCHANGED <<families, ledger, asked>>

Next == \E k \in Calls : Ask(k) \/ TurnAway(k) \/ Apply(k) \/ Repeat(k) \/ Refuse(k)

Spec == Init /\ [][Next]_avars
=============================================================================
