---------------------------- MODULE ProjectLink ----------------------------
(***************************************************************************)
(* The link between one channel and one external project in                *)
(* packages/eve-project-link: the conversations of the channel, whose tool *)
(* set and prompt are resolved from the binding as it was at that moment   *)
(* (tools/project-link.ts, instructions/project-context.ts); the calls of  *)
(* ProjectLinkService, each a read of the store and a later conditional    *)
(* write (lib/project-link.ts); the store (stores/memory.ts); and the      *)
(* external system, in which an agent that follows its plan looks for the  *)
(* binding's ID and creates a resource when it finds none.                 *)
(*                                                                         *)
(* Binding IDs are numbered in the order of their allocation.  A context   *)
(* card (with the title of its proposal) is named after the conversation   *)
(* and step that wrote it.  Guidance text, tool hints, URLs, timestamps    *)
(* and the truncation of prompts are left out.                             *)
(***************************************************************************)
EXTENDS Naturals, Sequences, SequencesExt

CONSTANTS
    Sessions,     \* conversations of the channel
    Resources,    \* resources of the external system
    Presets,      \* configured presets
    DefaultPreset,
    Required,     \* preset -> its completionRequirements
    MayCreate,    \* presets with guidance for creating a resource
    Receipts,     \* evidence a caller may bring: sequences of requirement IDs
    Nothing,
    MaxIds,       \* binding IDs
    MaxSteps,     \* steps of one conversation
    MaxRestarts,  \* times the agent's process starts again
    MaxTries      \* attempts of #storeContext

ASSUME ProjectLinkConstants ==
    /\ DefaultPreset \in Presets /\ MayCreate \subseteq Presets
    /\ Nothing \notin Sessions \cup Resources \cup Presets
    /\ MaxIds \in Nat \ {0} /\ MaxSteps \in Nat /\ MaxRestarts \in Nat /\ MaxTries \in Nat \ {0}

VARIABLES
    store,     \* the channel's binding, or Nothing
    external,  \* binding ID -> resources of the external system that carry it
    sessions,  \* the conversations
    ids,       \* binding IDs allocated so far
    restarts,  \* process restarts so far
    written,   \* history: every binding the store has held
    answers,   \* history: what successful calls returned, and what they asked for
    reborn     \* history: bindings written over another binding

vars == <<store, external, sessions, ids, restarts, written, answers, reborn>>

Cards == {<<0, 0>>} \cup (Sessions \X (1..MaxSteps))
Evidence == {Nothing} \cup Receipts
Bindings == [id : 1..MaxIds, preset : Presets, status : {"pending", "active"}, card : Cards \cup {Nothing},
             resource : Resources \cup {Nothing}, evidence : Evidence, revision : Nat]
\* What the plan of a binding tells the agent: the key to look for and the preset to follow.
Plans == [id : 1..MaxIds, preset : Presets]
Plan(b) == [id |-> b.id, preset |-> b.preset]
Tools == {"link", "status", "guide", "unlink", "complete", "save_context"}
Inputs == [preset : Presets \cup {Nothing}, card : Cards \cup {Nothing}, id : 0..MaxIds,
           resource : Resources \cup {Nothing}, evidence : Evidence]
NoInput == [preset |-> Nothing, card |-> Nothing, id |-> 0, resource |-> Nothing, evidence |-> Nothing]

\* An absent value is no value.
ASSUME NothingIsAbsent == Nothing \notin Bindings \cup Plans \cup Cards \cup Tools \cup Receipts

Conversations ==
    [pc : {"idle", "tools", "ready", "absent", "call", "write", "winner"},
     steps : 0..MaxSteps, view : Bindings \cup {Nothing}, known : Plans \cup {Nothing},
     found : Resources \cup {Nothing}, tool : Tools \cup {Nothing},
     input : Inputs, seen : Bindings \cup {Nothing}, tries : 0..(MaxTries - 1)]

TypeOK ==
    /\ store \in Bindings \cup {Nothing}
    /\ external \in [1..MaxIds -> SUBSET Resources]
    /\ sessions \in [Sessions -> Conversations]
    /\ ids \in 0..MaxIds /\ restarts \in 0..MaxRestarts
    /\ written \subseteq Bindings
    /\ \A a \in answers : a.binding \in Bindings
    /\ reborn \subseteq 1..MaxIds

NewSession == [pc |-> "idle", steps |-> 0, view |-> Nothing, known |-> Nothing, found |-> Nothing,
               tool |-> Nothing, input |-> NoInput, seen |-> Nothing, tries |-> 0]

NewBinding(id, preset, card) ==
    [id |-> id, preset |-> preset, status |-> "pending", card |-> card, resource |-> Nothing,
     evidence |-> Nothing, revision |-> 0]

\* complete() makes this of a pending binding.
Activated(b, resource, evidence) ==
    [b EXCEPT !.status = "active", !.resource = resource, !.evidence = evidence, !.revision = @ + 1]

\* Evidence that a completed link of the preset goes with.
EvidenceFor(preset) ==
    IF Required[preset] = {} THEN {Nothing} ELSE {e \in Receipts : ToSet(e) = Required[preset] /\ IsInjective(e)}

\* The channel is new, or earlier conversations have reserved or completed a link.
Init ==
    /\ \E p \in Presets, r \in Resources : \E e \in EvidenceFor(p) :
         LET b == NewBinding(1, p, <<0, 0>>) IN store \in {Nothing, b, Activated(b, r, e)}
    /\ external = [i \in 1..MaxIds |-> IF store = Nothing \/ i > 1 THEN {} ELSE {store.resource} \ {Nothing}]
    /\ sessions = [s \in Sessions |-> NewSession]
    /\ ids = IF store = Nothing THEN 0 ELSE 1
    /\ restarts = 0
    /\ written = {store} \ {Nothing}
    /\ answers = {} /\ reborn = {}

history == <<written, answers, reborn>>
others == <<external, ids, restarts>>

-----------------------------------------------------------------------------
(* A step of a conversation: its tools, its prompt, and the external system *)

\* The tools that the dynamic tool set holds when it is resolved.
Offered(b) ==
    {"link", "status"}
      \cup IF b = Nothing THEN {}
           ELSE {"guide", "unlink"} \cup {IF b.status = "pending" THEN "complete" ELSE "save_context"}

\* A conversation that learns of a binding drops what it found for another one.
Knows(session, b) ==
    [session EXCEPT !.known = Plan(b), !.found = IF Plan(b) = session.known THEN session.found ELSE Nothing]

\* The next step of a conversation, with the answer of its last call.
ResolveTools(s) ==
    LET c == sessions[s] IN
    /\ c.pc = "idle" /\ c.steps < MaxSteps
    /\ sessions' = [sessions EXCEPT ![s] =
         [(IF c.seen = Nothing THEN c ELSE Knows(c, c.seen)) EXCEPT
            !.pc = "tools", !.view = store, !.steps = @ + 1, !.tool = Nothing, !.input = NoInput,
            !.seen = Nothing, !.tries = 0]]
    /\ UNCHANGED <<store, others, history>>

\* The prompt is resolved by a read of its own; that of a pending link shows its ID.
ResolveInstructions(s) ==
    /\ sessions[s].pc = "tools"
    /\ sessions' = [sessions EXCEPT ![s] =
         [(IF store # Nothing /\ store.status = "pending" THEN Knows(@, store) ELSE @)
            EXCEPT !.pc = "ready"]]
    /\ UNCHANGED <<store, others, history>>

\* provisioningInstructions: look for the binding's ID first; one match is reused, with
\* several the agent stops.
Locate(s) ==
    LET c == sessions[s] IN
    /\ c.pc = "ready" /\ "complete" \in Offered(c.view)
    /\ c.known # Nothing /\ c.found = Nothing
    /\ \/ /\ external[c.known.id] = {} /\ c.known.preset \in MayCreate
          /\ sessions' = [sessions EXCEPT ![s].pc = "absent"]
       \/ \E r \in Resources :
            /\ external[c.known.id] = {r}
            /\ sessions' = [sessions EXCEPT ![s].found = r]
    /\ UNCHANGED <<store, others, history>>

\* A resource is created under the ID that was absent; another may be there by now.
CreateResource(s) ==
    LET c == sessions[s] IN
    /\ c.pc = "absent"
    /\ \E r \in Resources :
         /\ \A i \in 1..MaxIds : r \notin external[i]
         /\ external' = [external EXCEPT ![c.known.id] = @ \cup {r}]
         /\ sessions' = [sessions EXCEPT ![s].pc = "ready", ![s].found = r]
    /\ UNCHANGED <<store, ids, restarts, history>>

\* What the schema of a tool, as it was resolved, lets a conversation send.
InputsOf(s, tool) ==
    LET c == sessions[s]
        card == <<s, c.steps>>
    IN  CASE tool = "link" /\ c.view = Nothing ->
               {[NoInput EXCEPT !.preset = p, !.card = card] : p \in Presets \cup {Nothing}}
          [] tool = "save_context" -> {[NoInput EXCEPT !.card = card]}
          [] tool = "complete" /\ c.found = Nothing -> {}
          [] tool = "complete" /\ c.found # Nothing ->
               {[NoInput EXCEPT !.id = c.known.id, !.resource = c.found, !.evidence = e] :
                  e \in IF Required[c.view.preset] = {} THEN {Nothing} ELSE Receipts}
          [] OTHER -> {NoInput}

\* The agent calls a tool of the set it was given, after an approval that may take any time.
Invoke(s, tool) ==
    /\ sessions[s].pc = "ready" /\ tool \in Offered(sessions[s].view)
    /\ \E i \in InputsOf(s, tool) :
         sessions' = [sessions EXCEPT ![s].pc = "call", ![s].tool = tool, ![s].input = i,
                                         ![s].view = Nothing]
    /\ UNCHANGED <<store, others, history>>

-----------------------------------------------------------------------------
(* The store *)

\* replace() and delete() go by the revision alone.
MatchesMutant(seen) == store # Nothing

Matches(seen) == store # Nothing /\ store.revision = seen.revision

Stored(b) ==
    /\ store' = b
    /\ written' = written \cup ({b} \ {Nothing})
    /\ reborn' = IF b # Nothing /\ store # Nothing /\ store.id # b.id THEN reborn \cup {b.id} ELSE reborn

Untouched == UNCHANGED <<store, written, reborn>>

-----------------------------------------------------------------------------
(* ProjectLinkService *)

Calling(s, tool, pc) == sessions[s].pc = pc /\ sessions[s].tool = tool
Goes(s, pc, seen) == sessions' = [sessions EXCEPT ![s].pc = pc, ![s].seen = seen] /\ UNCHANGED answers

\* The call ends, with a binding or with an error.
Returns(s, b) ==
    /\ sessions' = [sessions EXCEPT ![s].pc = "idle", ![s].seen = b]
    /\ answers' = answers \cup {[binding |-> b, asked |-> sessions[s].input.resource]}
Throws(s) == sessions' = [sessions EXCEPT ![s].pc = "idle", ![s].seen = Nothing] /\ UNCHANGED answers

PresetOf(s) == IF sessions[s].input.preset = Nothing THEN DefaultPreset ELSE sessions[s].input.preset

\* link(): an existing binding is returned; a new one needs a confirmed proposal.
LinkRead(s) ==
    /\ Calling(s, "link", "call") /\ Untouched
    /\ \/ /\ store # Nothing
          /\ IF sessions[s].input.preset \in {Nothing, store.preset} THEN Returns(s, store) ELSE Throws(s)
          /\ UNCHANGED ids
       \/ /\ store = Nothing /\ sessions[s].input.card = Nothing
          /\ Throws(s) /\ UNCHANGED ids
       \/ /\ store = Nothing /\ sessions[s].input.card # Nothing
          /\ ids < MaxIds /\ ids' = ids + 1
          /\ Goes(s, "write", NewBinding(ids + 1, PresetOf(s), sessions[s].input.card))
    /\ UNCHANGED <<external, restarts>>

LinkCreate(s) ==
    /\ Calling(s, "link", "write")
    /\ IF store = Nothing THEN Stored(sessions[s].seen) /\ Returns(s, sessions[s].seen)
       ELSE Untouched /\ Goes(s, "winner", sessions[s].seen)
    /\ UNCHANGED others

\* The binding that was there first is returned, when it has the preset asked for.
LinkWinner(s) ==
    /\ Calling(s, "link", "winner") /\ Untouched
    /\ IF store # Nothing /\ store.preset = PresetOf(s) THEN Returns(s, store) ELSE Throws(s)
    /\ UNCHANGED others

\* validateCompletionVerification: one item for each requirement, and no other.
VerifiedMutant(preset, evidence) ==
    evidence # Nothing => ToSet(evidence) = Required[preset] /\ IsInjective(evidence)

Verified(preset, evidence) ==
    IF evidence = Nothing THEN Required[preset] = {}
    ELSE /\ ToSet(evidence) = Required[preset]
         /\ IsInjective(evidence)

\* complete(): the same resource again is no error; a pending binding needs its evidence.
CompleteRead(s) ==
    LET i == sessions[s].input IN
    /\ Calling(s, "complete", "call") /\ Untouched
    /\ CASE store = Nothing -> Throws(s)
         [] store # Nothing /\ store.id # i.id -> Throws(s)
         [] store # Nothing /\ store.id = i.id /\ store.status = "active" ->
              IF store.resource = i.resource THEN Returns(s, store) ELSE Throws(s)
         [] OTHER -> IF Verified(store.preset, i.evidence) THEN Goes(s, "write", store) ELSE Throws(s)
    /\ UNCHANGED others

CompleteWrite(s) ==
    LET c == sessions[s]
        active == Activated(c.seen, c.input.resource, c.input.evidence)
    IN  /\ Calling(s, "complete", "write")
        /\ IF Matches(c.seen) THEN Stored(active) /\ Returns(s, active)
           ELSE Untouched /\ Goes(s, "winner", c.seen)
        /\ UNCHANGED others

\* Another call completed the binding: that is a success when it attached the same resource.
SameLinkMutant(i) == store # Nothing /\ store.status = "active" /\ store.id = i.id

SameLink(i) == store # Nothing /\ store.status = "active" /\ store.id = i.id /\ store.resource = i.resource

CompleteWinner(s) ==
    /\ Calling(s, "complete", "winner") /\ Untouched
    /\ IF SameLink(sessions[s].input) THEN Returns(s, store) ELSE Throws(s)
    /\ UNCHANGED others

\* saveContext(): #requireActive, and a conditional write that is tried again a few times.
SaveRead(s) ==
    /\ Calling(s, "save_context", "call") /\ Untouched
    /\ IF store # Nothing /\ store.status = "active" /\ store.resource # Nothing
       THEN Goes(s, "write", store) ELSE Throws(s)
    /\ UNCHANGED others

MayRetryMutant(c) == TRUE

MayRetry(c) == c.tries + 1 < MaxTries

SaveWrite(s) ==
    LET c == sessions[s]
        updated == [c.seen EXCEPT !.card = c.input.card, !.revision = @ + 1]
    IN  /\ Calling(s, "save_context", "write")
        /\ IF Matches(c.seen) THEN Stored(updated) /\ Returns(s, updated)
           ELSE /\ Untouched
                /\ IF MayRetry(c)
                   THEN /\ sessions' = [sessions EXCEPT ![s].pc = "call", ![s].tries = @ + 1]
                        /\ UNCHANGED answers
                   ELSE Throws(s)
        /\ UNCHANGED others

UnlinkRead(s) ==
    /\ Calling(s, "unlink", "call") /\ Untouched
    /\ IF store = Nothing THEN Throws(s) ELSE Goes(s, "write", store)
    /\ UNCHANGED others

\* The external resource is kept.
UnlinkWrite(s) ==
    /\ Calling(s, "unlink", "write") /\ Throws(s)
    /\ IF Matches(sessions[s].seen) THEN Stored(Nothing) ELSE Untouched
    /\ UNCHANGED others

\* status reads once; guide reads the status, and then the binding of the plan again.
Status(s) ==
    /\ Calling(s, "status", "call") /\ Untouched
    /\ IF store = Nothing THEN Throws(s) ELSE Returns(s, store)
    /\ UNCHANGED others

Guide(s) ==
    /\ Untouched
    /\ \/ Calling(s, "guide", "call") /\ Goes(s, "write", store)
       \/ /\ Calling(s, "guide", "write")
          /\ IF store = Nothing THEN Throws(s) ELSE Returns(s, store)
    /\ UNCHANGED others

\* The process starts again before the result of a call is known: the durable callback
\* runs from its start, also when it has written.
Restart(s) ==
    /\ restarts < MaxRestarts /\ restarts' = restarts + 1
    /\ sessions[s].pc \in {"call", "write", "winner", "idle"} /\ sessions[s].tool # Nothing
    /\ sessions' = [sessions EXCEPT ![s].pc = "call", ![s].seen = Nothing, ![s].tries = 0]
    /\ UNCHANGED <<store, external, ids, history>>

Step(s) ==
    \/ ResolveTools(s) \/ ResolveInstructions(s) \/ Locate(s) \/ CreateResource(s)
    \/ \E tool \in Tools : Invoke(s, tool)
    \/ LinkRead(s) \/ LinkCreate(s) \/ LinkWinner(s)
    \/ CompleteRead(s) \/ CompleteWrite(s) \/ CompleteWinner(s)
    \/ SaveRead(s) \/ SaveWrite(s)
    \/ UnlinkRead(s) \/ UnlinkWrite(s)
    \/ Status(s) \/ Guide(s)
    \/ Restart(s)

Next == \E s \in Sessions : Step(s)

Spec == Init /\ [][Next]_vars

-----------------------------------------------------------------------------
(* Properties.  A binding in "reborn" was written over a later one of the same    *)
(* revision; what its callers were told no longer says anything.                  *)

\* Compare-and-swap keeps one history of each binding: no two different contents were ever
\* stored under one revision, so that of two saves or completions made from one revision
\* only one is stored, and no call returns a binding (an ID to put in the external system)
\* that the store has not held.  A binding that is overwritten by another of the same
\* revision is lost all the same (reborn): this property does not cover that.
OneHistory ==
    /\ \A a, b \in written :
         a.id = b.id /\ a.revision = b.revision /\ a.id \notin reborn => a = b
    /\ \A a \in answers : a.binding \in written

\* However many conversations provision one link, the resource attached to it is one, and
\* a complete() that succeeds has attached the resource it was called with.
OneResourcePerKey ==
    /\ \A a, b \in written :
         a.id = b.id /\ a.status = "active" /\ b.status = "active" /\ a.id \notin reborn
           => a.resource = b.resource
    /\ \A a \in answers : a.asked # Nothing => a.binding.resource = a.asked

\* Whatever tools a conversation was given before the link changed: every stored binding
\* goes back to a confirmed proposal, and an active one has a resource and evidence for each
\* requirement of its own preset.
Vouched ==
    \A b \in written :
      /\ b.card # Nothing
      /\ b.status = "active" =>
           /\ b.resource # Nothing
           /\ \A q \in Required[b.preset] : b.evidence # Nothing /\ q \in ToSet(b.evidence)

=============================================================================
