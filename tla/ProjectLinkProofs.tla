------------------------- MODULE ProjectLinkProofs -------------------------
(* Proofs about ProjectLink for every set of conversations, resources and  *)
(* presets, whatever evidence callers bring.                               *)
EXTENDS ProjectLink, TLAPS

-----------------------------------------------------------------------------
(* The inductive invariant *)

\* What a conversation has decided so far: it looks for the ID of a plan it knows,
\* and sends each tool what its schema demands.
Prepared(c) ==
    /\ c.pc \in {"tools", "ready", "absent"} => c.steps # 0
    /\ c.pc = "absent" \/ c.found # Nothing => c.known # Nothing
    /\ c.tool = "complete" <=> c.input.resource # Nothing
    /\ c.tool = "save_context" => c.input.card # Nothing

\* What a call is about to write was read from the store, or is a new proposal.
Based(c) ==
    /\ c.pc = "write" /\ c.tool = "link" =>
         c.seen # Nothing /\ c.seen.card # Nothing /\ c.seen.status = "pending"
    /\ c.pc = "write" /\ c.tool = "complete" =>
         c.seen \in written /\ c.seen.status = "pending" /\ Verified(c.seen.preset, c.input.evidence)
    /\ c.pc = "write" /\ c.tool = "save_context" =>
         c.seen \in written /\ c.seen.status = "active"

\* An ID is used by one proposal: it is in no binding of the store before that
\* proposal is stored.
Reserved ==
    /\ \A b \in written : b.id <= ids
    /\ \A s \in Sessions : sessions[s].pc = "write" /\ sessions[s].tool = "link" =>
         /\ sessions[s].seen.id <= ids
         /\ \A b \in written : b.id # sessions[s].seen.id
         /\ \A r \in Sessions \ {s} : sessions[r].pc = "write" /\ sessions[r].tool = "link" =>
              sessions[r].seen.id # sessions[s].seen.id

\* The store holds the latest of what was written under its ID.
Latest ==
    store # Nothing =>
      /\ store \in written
      /\ store.id \notin reborn => \A b \in written : b.id = store.id =>
           /\ b.revision <= store.revision
           /\ store.status = "pending" => b.status = "pending"

LinkInvariant ==
    /\ TypeOK
    /\ \A s \in Sessions : Prepared(sessions[s]) /\ Based(sessions[s])
    /\ Reserved /\ Latest
    /\ OneHistory /\ OneResourcePerKey /\ Vouched

-----------------------------------------------------------------------------
(* Types *)

\* What a write stores is a binding.
LEMMA BindingTypes ==
    ASSUME NEW b \in Bindings, NEW r \in Resources \cup {Nothing}, NEW e \in Evidence,
           NEW card \in Cards \cup {Nothing}
    PROVE  /\ Activated(b, r, e) \in Bindings
           /\ [b EXCEPT !.card = card, !.revision = @ + 1] \in Bindings
           /\ Plan(b) \in Plans
<1>. DEFINE next == b.revision + 1
<1>1. next \in Nat
  BY DEF Bindings
<1>2. /\ Activated(b, r, e)
            = [b EXCEPT !.status = "active", !.resource = r, !.evidence = e, !.revision = next]
      /\ [b EXCEPT !.card = card, !.revision = @ + 1] = [b EXCEPT !.card = card, !.revision = next]
  BY DEF Activated
<1>3. Plan(b) \in Plans
  BY DEF Bindings, Plan, Plans
<1>. HIDE DEF next
<1>. QED
  BY <1>1, <1>2, <1>3 DEF Bindings

\* The channel starts well typed, and so do its conversations.
LEMMA InitTypes == Init => TypeOK
<1>. SUFFICES ASSUME Init PROVE TypeOK
  OBVIOUS
<1>1. <<0, 0>> \in Cards
  BY DEF Cards
<1>2. NoInput \in Inputs
  BY ProjectLinkConstants DEF NoInput, Inputs, Evidence
<1>3. NewSession \in Conversations
  BY <1>2, ProjectLinkConstants DEF NewSession, Conversations
<1>4. store \in Bindings \cup {Nothing}
  <2>. PICK p \in Presets, r \in Resources : \E e \in EvidenceFor(p) :
         store \in {Nothing, NewBinding(1, p, <<0, 0>>), Activated(NewBinding(1, p, <<0, 0>>), r, e)}
    BY DEF Init
  <2>. PICK e \in EvidenceFor(p) :
         store \in {Nothing, NewBinding(1, p, <<0, 0>>), Activated(NewBinding(1, p, <<0, 0>>), r, e)}
    OBVIOUS
  <2>1. e \in Evidence
    BY DEF EvidenceFor, Evidence
  <2>2. NewBinding(1, p, <<0, 0>>) \in Bindings
    BY <1>1, ProjectLinkConstants DEF NewBinding, Bindings, Evidence
  <2>3. Activated(NewBinding(1, p, <<0, 0>>), r, e) \in Bindings
    BY <2>1, <2>2, BindingTypes
  <2>. QED
    BY <2>2, <2>3
<1>5. external \in [1..MaxIds -> SUBSET Resources]
  BY <1>4, NothingIsAbsent DEF Init, Bindings
<1>. QED
  BY <1>3, <1>4, <1>5, ProjectLinkConstants DEF Init, TypeOK

\* A conversation that learns of a binding remains one.
LEMMA KnowsType ==
    ASSUME NEW c \in Conversations, NEW b \in Bindings
    PROVE  /\ Knows(c, b) \in Conversations
           /\ Knows(c, b).known = Plan(b)
           /\ \A f \in {"pc", "steps", "view", "tool", "input", "seen", "tries"} : Knows(c, b)[f] = c[f]
<1>1. Plan(b) \in Plans
  BY DEF Bindings, Plan, Plans
<1>. QED
  BY <1>1 DEF Knows, Conversations

\* A tool call carries what the tool's schema demands.
LEMMA InputTypes ==
    ASSUME TypeOK, NEW s \in Sessions, Prepared(sessions[s]), sessions[s].pc = "ready",
           NEW tool \in Offered(sessions[s].view), NEW i \in InputsOf(s, tool)
    PROVE  /\ i \in Inputs
           /\ tool = "complete" <=> i.resource # Nothing
           /\ tool = "save_context" => i.card # Nothing
<1>. DEFINE c == sessions[s]
            card == <<s, c.steps>>
<1>1. c \in Conversations
  BY DEF TypeOK
<1>2. card \in Cards /\ card # Nothing
  <2>1. c.steps \in 1..MaxSteps
    BY <1>1, ProjectLinkConstants DEF Conversations, Prepared
  <2>. QED
    BY <2>1, NothingIsAbsent DEF Cards
<1>3. NoInput \in Inputs /\ NoInput.resource = Nothing
  BY ProjectLinkConstants DEF NoInput, Inputs, Evidence
<1>. HIDE DEF card
<1>4. CASE tool = "link" /\ c.view = Nothing
  <2>1. PICK p \in Presets \cup {Nothing} : i = [NoInput EXCEPT !.preset = p, !.card = card]
    BY <1>4 DEF InputsOf, card
  <2>. QED
    BY <1>2, <1>3, <1>4, <2>1 DEF Inputs, NoInput
<1>5. CASE tool = "save_context"
  <2>1. i = [NoInput EXCEPT !.card = card]
    BY <1>5 DEF InputsOf, card
  <2>. QED
    BY <1>2, <1>3, <1>5, <2>1 DEF Inputs, NoInput
<1>6. CASE tool = "complete"
  <2>1. c.found # Nothing /\ c.known # Nothing
    BY <1>6 DEF InputsOf, Prepared
  <2>2. PICK e \in Evidence : i = [NoInput EXCEPT !.id = c.known.id, !.resource = c.found, !.evidence = e]
    BY <1>6, <2>1 DEF InputsOf, Evidence
  <2>3. c.found \in Resources /\ c.known.id \in 0..MaxIds
    BY <1>1, <2>1, ProjectLinkConstants DEF Conversations, Plans
  <2>. QED
    BY <1>3, <1>6, <2>1, <2>2, <2>3 DEF Inputs, NoInput
<1>7. CASE tool \notin {"save_context", "complete"} /\ ~(tool = "link" /\ c.view = Nothing)
  <2>1. i = NoInput
    BY <1>7 DEF InputsOf
  <2>. QED
    BY <1>3, <1>7, <2>1
<1>. QED
  BY <1>4, <1>5, <1>6, <1>7

\* The conversations stay well typed and prepared: each step of one changes only
\* its own record.
LEMMA StepConversation ==
    ASSUME LinkInvariant, NEW s \in Sessions, Step(s)
    PROVE  /\ sessions' \in [Sessions -> Conversations]
           /\ \A r \in Sessions \ {s} : sessions'[r] = sessions[r]
           /\ Prepared(sessions'[s])
<1>. DEFINE c == sessions[s]
<1>1. c \in Conversations /\ Prepared(c) /\ sessions \in [Sessions -> Conversations]
  BY DEF LinkInvariant, TypeOK
<1>2. store \in Bindings \cup {Nothing} /\ (store # Nothing => Plan(store) \in Plans)
  BY DEF LinkInvariant, TypeOK, Bindings, Plan, Plans
<1>3. NoInput \in Inputs /\ NoInput.resource = Nothing /\ 0 \in 0..(MaxTries - 1)
  BY ProjectLinkConstants DEF NoInput, Inputs, Evidence
<1>4. CASE ResolveTools(s)
  <2>. DEFINE k == IF c.seen = Nothing THEN c ELSE Knows(c, c.seen)
              n == [k EXCEPT !.pc = "tools", !.view = store, !.steps = @ + 1, !.tool = Nothing,
                             !.input = NoInput, !.seen = Nothing, !.tries = 0]
  <2>1. /\ k \in Conversations /\ k.steps = c.steps
        /\ k.found # Nothing => k.known # Nothing
    <3>1. CASE c.seen = Nothing
      BY <1>1, <3>1 DEF Prepared
    <3>2. CASE c.seen # Nothing
      <4>1. c.seen \in Bindings
        BY <1>1, <3>2 DEF Conversations
      <4>2. Plan(c.seen) # Nothing
        BY <4>1, NothingIsAbsent DEF Bindings, Plan, Plans
      <4>. QED
        BY <1>1, <3>2, <4>1, <4>2, KnowsType
    <3>. QED
      BY <3>1, <3>2
  <2>2. sessions' = [sessions EXCEPT ![s] = n]
    BY <1>4 DEF ResolveTools
  <2>3. c.steps + 1 \in 0..MaxSteps /\ c.steps + 1 # 0
    BY <1>1, <1>4, ProjectLinkConstants DEF ResolveTools, Conversations
  <2>. DEFINE steps == k.steps + 1
  <2>4. /\ n = [k EXCEPT !.pc = "tools", !.view = store, !.steps = steps, !.tool = Nothing,
                         !.input = NoInput, !.seen = Nothing, !.tries = 0]
        /\ steps \in 0..MaxSteps /\ steps # 0
    BY <2>1, <2>3
  <2>. HIDE DEF k, steps, n
  <2>5. n \in Conversations
    BY <1>2, <1>3, <2>1, <2>4 DEF Conversations
  <2>6. Prepared(n)
    BY <1>3, <2>1, <2>4, NothingIsAbsent DEF Conversations, Prepared, Tools
  <2>. QED
    BY <1>1, <2>2, <2>5, <2>6
<1>5. CASE ResolveInstructions(s)
  <2>. DEFINE k == IF store # Nothing /\ store.status = "pending" THEN Knows(c, store) ELSE c
              n == [k EXCEPT !.pc = "ready"]
  <2>0. c.steps # 0
    BY <1>1, <1>5 DEF ResolveInstructions, Prepared
  <2>1. /\ k \in Conversations /\ k.steps = c.steps /\ k.tool = c.tool /\ k.input = c.input
        /\ k.found # Nothing => k.known # Nothing
    <3>1. CASE ~(store # Nothing /\ store.status = "pending")
      BY <1>1, <3>1 DEF Prepared
    <3>2. CASE store # Nothing /\ store.status = "pending"
      <4>1. Plan(store) # Nothing
        BY <1>2, <3>2, NothingIsAbsent
      <4>. QED
        BY <1>1, <1>2, <3>2, <4>1, KnowsType
    <3>. QED
      BY <3>1, <3>2
  <2>2. sessions' = [sessions EXCEPT ![s] = n]
    BY <1>1, <1>5 DEF ResolveInstructions
  <2>. HIDE DEF k
  <2>3. n \in Conversations /\ Prepared(n)
    BY <1>1, <2>0, <2>1 DEF Conversations, Prepared
  <2>. QED
    BY <1>1, <2>2, <2>3
<1>6. CASE Locate(s)
  BY <1>1, <1>6 DEF Locate, Conversations, Prepared
<1>7. CASE CreateResource(s)
  <2>1. PICK r \in Resources : sessions' = [sessions EXCEPT ![s] = [c EXCEPT !.pc = "ready", !.found = r]]
    BY <1>1, <1>7 DEF CreateResource
  <2>2. c.steps # 0 /\ c.known # Nothing
    BY <1>1, <1>7 DEF CreateResource, Prepared
  <2>. DEFINE n == [c EXCEPT !.pc = "ready", !.found = r]
  <2>3. n \in Conversations /\ Prepared(n)
    BY <1>1, <2>2 DEF Conversations, Prepared
  <2>. QED
    BY <1>1, <2>1, <2>3
<1>8. ASSUME NEW tool \in Tools, Invoke(s, tool)
      PROVE  /\ sessions' \in [Sessions -> Conversations]
             /\ \A r \in Sessions \ {s} : sessions'[r] = sessions[r]
             /\ Prepared(sessions'[s])
  <2>1. PICK i \in InputsOf(s, tool) :
          sessions' = [sessions EXCEPT ![s].pc = "call", ![s].tool = tool, ![s].input = i,
                                       ![s].view = Nothing]
    BY <1>8 DEF Invoke
  <2>2. /\ i \in Inputs /\ (tool = "complete" <=> i.resource # Nothing)
        /\ tool = "save_context" => i.card # Nothing
    BY <1>1, <1>8, InputTypes DEF Invoke, LinkInvariant
  <2>. QED
    BY <1>1, <2>1, <2>2 DEF Conversations, Prepared
<1>9. CASE \E pc \in {"call", "write", "winner", "idle"}, b \in Bindings \cup {Nothing}, t \in 0..(MaxTries - 1) :
             sessions' = [sessions EXCEPT ![s] = [c EXCEPT !.pc = pc, !.seen = b, !.tries = t]]
  <2>1. PICK pc \in {"call", "write", "winner", "idle"}, b \in Bindings \cup {Nothing}, t \in 0..(MaxTries - 1) :
          sessions' = [sessions EXCEPT ![s] = [c EXCEPT !.pc = pc, !.seen = b, !.tries = t]]
    BY <1>9
  <2>. DEFINE n == [c EXCEPT !.pc = pc, !.seen = b, !.tries = t]
  <2>2. n \in Conversations /\ Prepared(n)
    BY <1>1 DEF Conversations, Prepared
  <2>. QED
    BY <1>1, <2>1, <2>2
<1>. DEFINE Answering == \E pc \in {"call", "write", "winner", "idle"}, b \in Bindings \cup {Nothing},
                             t \in 0..(MaxTries - 1) :
              sessions' = [sessions EXCEPT ![s] = [c EXCEPT !.pc = pc, !.seen = b, !.tries = t]]
<1>10. ASSUME NEW pc \in {"call", "write", "winner", "idle"}, NEW b \in Bindings \cup {Nothing},
              sessions' = [sessions EXCEPT ![s].pc = pc, ![s].seen = b]
       PROVE  Answering
  <2>1. sessions' = [sessions EXCEPT ![s] = [c EXCEPT !.pc = pc, !.seen = b, !.tries = c.tries]]
    BY <1>1, <1>10 DEF Conversations
  <2>2. c.tries \in 0..(MaxTries - 1)
    BY <1>1 DEF Conversations
  <2>. QED
    BY <2>1, <2>2
<1>. HIDE DEF Answering
<1>11. /\ Throws(s) => Answering
       /\ \A b \in Bindings \cup {Nothing} : Returns(s, b) => Answering
       /\ \A b \in Bindings \cup {Nothing} : Goes(s, "write", b) \/ Goes(s, "winner", b) => Answering
  BY <1>10 DEF Throws, Returns, Goes
<1>12. c.seen \in Bindings \cup {Nothing}
  BY <1>1 DEF Conversations
<1>13. ASSUME LinkRead(s) PROVE Answering
  <2>1. CASE ids < MaxIds /\ c.input.card # Nothing
    <3>1. NewBinding(ids + 1, PresetOf(s), c.input.card) \in Bindings
      <4>1. ids + 1 \in 1..MaxIds
        BY <2>1, ProjectLinkConstants DEF LinkInvariant, TypeOK
      <4>2. PresetOf(s) \in Presets /\ c.input.card \in Cards
        BY <1>1, <2>1, ProjectLinkConstants DEF PresetOf, Conversations, Inputs
      <4>. QED
        BY <4>1, <4>2 DEF NewBinding, Bindings, Evidence
    <3>. QED
      BY <1>2, <1>11, <1>13, <3>1 DEF LinkRead
  <2>2. CASE ~(ids < MaxIds /\ c.input.card # Nothing)
    BY <1>2, <1>11, <1>13, <2>2 DEF LinkRead
  <2>. QED
    BY <2>1, <2>2
<1>14. ASSUME LinkCreate(s) \/ LinkWinner(s) PROVE Answering
  BY <1>2, <1>11, <1>12, <1>14 DEF LinkCreate, LinkWinner
<1>15. ASSUME CompleteRead(s) \/ CompleteWinner(s) PROVE Answering
  BY <1>2, <1>11, <1>12, <1>15 DEF CompleteRead, CompleteWinner
<1>16. ASSUME CompleteWrite(s) PROVE Answering
  <2>1. Calling(s, "complete", "write") => Activated(c.seen, c.input.resource, c.input.evidence) \in Bindings
    <3>. SUFFICES ASSUME Calling(s, "complete", "write")
                  PROVE  Activated(c.seen, c.input.resource, c.input.evidence) \in Bindings
      OBVIOUS
    <3>1. c.seen \in written /\ written \subseteq Bindings
      BY DEF Calling, LinkInvariant, Based, TypeOK
    <3>2. c.input.resource \in Resources \cup {Nothing} /\ c.input.evidence \in Evidence
      BY <1>1 DEF Conversations, Inputs
    <3>. QED
      BY <3>1, <3>2, BindingTypes
  <2>. QED
    BY <1>2, <1>11, <1>12, <1>16, <2>1 DEF CompleteWrite
<1>17. ASSUME SaveRead(s) PROVE Answering
  BY <1>2, <1>11, <1>17 DEF SaveRead
<1>18. ASSUME SaveWrite(s) PROVE Answering
  <2>1. Calling(s, "save_context", "write") =>
          [c.seen EXCEPT !.card = c.input.card, !.revision = @ + 1] \in Bindings
    <3>. SUFFICES ASSUME Calling(s, "save_context", "write")
                  PROVE  [c.seen EXCEPT !.card = c.input.card, !.revision = @ + 1] \in Bindings
      OBVIOUS
    <3>1. c.seen \in written /\ written \subseteq Bindings
      BY DEF Calling, LinkInvariant, Based, TypeOK
    <3>2. c.input.card \in Cards \cup {Nothing} /\ Nothing \in Evidence
      BY <1>1 DEF Conversations, Inputs, Evidence
    <3>. QED
      BY <3>1, <3>2, BindingTypes
  <2>2. CASE ~Matches(c.seen) /\ MayRetry(c)
    <3>1. sessions' = [sessions EXCEPT ![s] = [c EXCEPT !.pc = "call", !.seen = c.seen, !.tries = c.tries + 1]]
      BY <1>1, <1>18, <2>2 DEF SaveWrite, Conversations
    <3>2. c.tries + 1 \in 0..(MaxTries - 1)
      BY <1>1, <2>2, ProjectLinkConstants DEF MayRetry, Conversations
    <3>. QED
      BY <1>12, <3>1, <3>2 DEF Answering
  <2>3. CASE ~(~Matches(c.seen) /\ MayRetry(c))
    BY <1>11, <1>18, <2>1, <2>3 DEF SaveWrite
  <2>. QED
    BY <2>2, <2>3
<1>19. ASSUME UnlinkRead(s) \/ UnlinkWrite(s) \/ Status(s) \/ Guide(s) PROVE Answering
  BY <1>2, <1>11, <1>19 DEF UnlinkRead, UnlinkWrite, Status, Guide
<1>20. ASSUME Restart(s) PROVE Answering
  <2>1. sessions' = [sessions EXCEPT ![s] = [c EXCEPT !.pc = "call", !.seen = Nothing, !.tries = 0]]
    BY <1>1, <1>20 DEF Restart
  <2>. QED
    BY <1>3, <2>1 DEF Answering
<1>. QED
  BY <1>4, <1>5, <1>6, <1>7, <1>8, <1>9, <1>13, <1>14, <1>15, <1>16, <1>17, <1>18, <1>19, <1>20
  DEF Step, Answering

-----------------------------------------------------------------------------
(* What a step does to the store *)

\* A proposal, a completion or a saved context is stored, and the call returns.
Writes(s, b) ==
    /\ b \in Bindings /\ store' = b /\ written' = written \cup {b}
    /\ reborn' = IF store # Nothing /\ store.id # b.id THEN reborn \cup {b.id} ELSE reborn
    /\ sessions'[s].pc = "idle" /\ UNCHANGED ids
    /\ \/ Calling(s, "link", "write") /\ store = Nothing /\ b = sessions[s].seen
       \/ /\ Calling(s, "complete", "write") /\ Matches(sessions[s].seen)
          /\ b = Activated(sessions[s].seen, sessions[s].input.resource, sessions[s].input.evidence)
       \/ /\ Calling(s, "save_context", "write") /\ Matches(sessions[s].seen)
          /\ b = [sessions[s].seen EXCEPT !.card = sessions[s].input.card, !.revision = @ + 1]

\* Every step keeps the store, empties it or writes to it in one of three ways.
LEMMA StepStore ==
    ASSUME LinkInvariant, NEW s \in Sessions, Step(s)
    PROVE  \/ UNCHANGED <<store, written, reborn>>
           \/ store' = Nothing /\ UNCHANGED <<written, reborn, ids>>
           \/ \E b \in Bindings : Writes(s, b)
<1>. DEFINE c == sessions[s]
<1>1. c \in Conversations /\ sessions \in [Sessions -> Conversations] /\ Based(c)
      /\ store \in Bindings \cup {Nothing} /\ written \subseteq Bindings
  BY DEF LinkInvariant, TypeOK
<1>2. ASSUME NEW b \in Bindings, Stored(b), Returns(s, b)
      PROVE  /\ store' = b /\ written' = written \cup {b}
             /\ reborn' = IF store # Nothing /\ store.id # b.id THEN reborn \cup {b.id} ELSE reborn
             /\ sessions'[s].pc = "idle"
  <2>1. b # Nothing
    BY NothingIsAbsent
  <2>2. sessions'[s].pc = "idle"
    BY <1>1, <1>2 DEF Returns, Conversations
  <2>. QED
    BY <1>2, <2>1, <2>2 DEF Stored
<1>3. CASE LinkCreate(s) /\ store = Nothing
  <2>1. c.seen \in Bindings
    BY <1>1, <1>3 DEF LinkCreate, Calling, Based, Conversations
  <2>2. Writes(s, c.seen)
    BY <1>2, <1>3, <2>1 DEF LinkCreate, Writes, others
  <2>. QED
    BY <2>1, <2>2
<1>4. CASE CompleteWrite(s) /\ Matches(c.seen)
  <2>. DEFINE b == Activated(c.seen, c.input.resource, c.input.evidence)
  <2>1. c.seen \in Bindings
    BY <1>1, <1>4 DEF CompleteWrite, Calling, Based
  <2>2. b \in Bindings
    BY <1>1, <2>1, BindingTypes DEF Conversations, Inputs
  <2>3. Stored(b) /\ Returns(s, b) /\ Calling(s, "complete", "write") /\ UNCHANGED ids
    BY <1>4 DEF CompleteWrite, others
  <2>4. Writes(s, b)
    BY <1>2, <1>4, <2>2, <2>3 DEF Writes
  <2>. QED
    BY <2>2, <2>4
<1>5. CASE SaveWrite(s) /\ Matches(c.seen)
  <2>. DEFINE b == [c.seen EXCEPT !.card = c.input.card, !.revision = @ + 1]
  <2>1. c.seen \in Bindings
    BY <1>1, <1>5 DEF SaveWrite, Calling, Based
  <2>2. b \in Bindings
    BY <1>1, <2>1, BindingTypes DEF Conversations, Inputs, Evidence
  <2>3. Stored(b) /\ Returns(s, b) /\ Calling(s, "save_context", "write") /\ UNCHANGED ids
    BY <1>5 DEF SaveWrite, others
  <2>4. Writes(s, b)
    BY <1>2, <1>5, <2>2, <2>3 DEF Writes
  <2>. QED
    BY <2>2, <2>4
<1>6. CASE UnlinkWrite(s)
  BY <1>6 DEF UnlinkWrite, Stored, Untouched, others
<1>7. CASE \/ ResolveTools(s) \/ ResolveInstructions(s) \/ Locate(s) \/ CreateResource(s)
           \/ (\E tool \in Tools : Invoke(s, tool)) \/ Restart(s)
  BY <1>7 DEF ResolveTools, ResolveInstructions, Locate, CreateResource, Invoke, Restart, history
<1>8. CASE Untouched
  BY <1>8 DEF Untouched
<1>9. \/ LinkRead(s) \/ LinkWinner(s) \/ CompleteRead(s) \/ CompleteWinner(s) \/ SaveRead(s)
      \/ UnlinkRead(s) \/ Status(s) \/ Guide(s)
      \/ LinkCreate(s) /\ store # Nothing
      \/ (CompleteWrite(s) \/ SaveWrite(s)) /\ ~Matches(c.seen)
      => Untouched
  BY DEF LinkRead, LinkWinner, CompleteRead, CompleteWinner, SaveRead, UnlinkRead, Status, Guide,
         LinkCreate, CompleteWrite, SaveWrite
<1>. QED
  BY <1>3, <1>4, <1>5, <1>6, <1>7, <1>8, <1>9 DEF Step

\* A call gets ready to write with what it has just read, or with a new ID.
LEMMA StepDecides ==
    ASSUME LinkInvariant, NEW s \in Sessions, Step(s)
    PROVE  /\ \/ UNCHANGED ids
              \/ /\ ids < MaxIds /\ ids' = ids + 1 /\ UNCHANGED <<store, written, reborn>>
                 /\ sessions'[s].pc = "write" /\ sessions'[s].tool = "link"
           /\ sessions'[s].pc = "write" /\ sessions'[s].tool = "link" =>
                /\ ids < MaxIds /\ ids' = ids + 1
                /\ sessions'[s].seen = NewBinding(ids + 1, PresetOf(s), sessions[s].input.card)
                /\ sessions[s].input.card # Nothing
           /\ sessions'[s].pc = "write" /\ sessions'[s].tool \in {"complete", "save_context"} =>
                /\ store # Nothing /\ sessions'[s].seen = store
                /\ sessions'[s].tool = "save_context" => store.status = "active"
                /\ sessions'[s].tool = "complete" =>
                     store.status = "pending" /\ Verified(store.preset, sessions'[s].input.evidence)
<1>. DEFINE c == sessions[s]
            d == sessions'[s]
<1>1. c \in Conversations /\ sessions \in [Sessions -> Conversations]
      /\ store \in Bindings \cup {Nothing}
  BY DEF LinkInvariant, TypeOK
<1>2. ASSUME NEW pc, NEW b, Goes(s, pc, b)
      PROVE  d.pc = pc /\ d.seen = b /\ d.tool = c.tool /\ d.input = c.input
  BY <1>1, <1>2 DEF Goes, Conversations
<1>3. (\E b : Returns(s, b)) \/ Throws(s) => d.pc = "idle"
  BY <1>1 DEF Returns, Throws, Conversations
<1>4. CASE d.pc # "write" /\ UNCHANGED ids
  BY <1>4
<1>5. CASE LinkRead(s)
  <2>1. CASE store = Nothing /\ c.input.card # Nothing
    BY <1>1, <1>2, <1>5, <2>1 DEF LinkRead, Calling, Untouched
  <2>2. CASE ~(store = Nothing /\ c.input.card # Nothing)
    <3>1. d.pc = "idle" /\ UNCHANGED ids
      BY <1>3, <1>5, <2>2 DEF LinkRead
    <3>. QED
      BY <3>1
  <2>. QED
    BY <2>1, <2>2
<1>6. CASE CompleteRead(s)
  <2>1. CASE store # Nothing /\ store.id = c.input.id /\ store.status # "active"
             /\ Verified(store.preset, c.input.evidence)
    <3>1. Goes(s, "write", store) /\ UNCHANGED ids /\ c.tool = "complete"
      BY <1>6, <2>1 DEF CompleteRead, Calling, others
    <3>2. store.status = "pending"
      BY <1>1, <2>1 DEF Bindings
    <3>. QED
      BY <1>2, <2>1, <3>1, <3>2
  <2>2. CASE ~(store # Nothing /\ store.id = c.input.id /\ store.status # "active"
               /\ Verified(store.preset, c.input.evidence))
    <3>1. UNCHANGED ids /\ ((\E b : Returns(s, b)) \/ Throws(s))
      BY <1>6, <2>2 DEF CompleteRead, others
    <3>2. d.pc = "idle"
      BY <1>3, <3>1
    <3>. QED
      BY <3>1, <3>2
  <2>. QED
    BY <2>1, <2>2
<1>7. CASE SaveRead(s)
  BY <1>2, <1>3, <1>7 DEF SaveRead, Calling, others
<1>8. CASE UnlinkRead(s) \/ Guide(s)
  BY <1>2, <1>3, <1>8 DEF UnlinkRead, Guide, Calling, others
<1>9. \/ LinkCreate(s) \/ LinkWinner(s) \/ CompleteWrite(s) \/ CompleteWinner(s) \/ UnlinkWrite(s) \/ Status(s)
      => d.pc # "write" /\ UNCHANGED ids
  BY <1>2, <1>3 DEF LinkCreate, LinkWinner, CompleteWrite, CompleteWinner, UnlinkWrite, Status, others
<1>10. SaveWrite(s) => d.pc # "write" /\ UNCHANGED ids
  <2>1. sessions' = [sessions EXCEPT ![s].pc = "call", ![s].tries = @ + 1] => d.pc = "call"
    BY <1>1 DEF Conversations
  <2>. QED
    BY <1>3, <2>1 DEF SaveWrite, others
<1>11. \/ ResolveTools(s) \/ Locate(s) \/ CreateResource(s)
       \/ (\E tool \in Tools : Invoke(s, tool)) \/ Restart(s)
       => d.pc # "write" /\ UNCHANGED ids
  <2>1. ResolveTools(s) => d.pc # "write"
    <3>. DEFINE k == IF c.seen = Nothing THEN c ELSE Knows(c, c.seen)
    <3>1. k \in Conversations
      BY <1>1, KnowsType DEF Conversations
    <3>. QED
      BY <1>1, <3>1 DEF ResolveTools, Conversations
  <2>2. Locate(s) => d.pc # "write"
    BY <1>1 DEF Locate, Conversations
  <2>3. CreateResource(s) => d.pc # "write"
    BY <1>1 DEF CreateResource, Conversations
  <2>4. (\E tool \in Tools : Invoke(s, tool)) => d.pc # "write"
    BY <1>1 DEF Invoke, Conversations
  <2>5. Restart(s) => d.pc # "write"
    BY <1>1 DEF Restart, Conversations
  <2>6. \/ ResolveTools(s) \/ Locate(s) \/ CreateResource(s)
        \/ (\E tool \in Tools : Invoke(s, tool)) \/ Restart(s)
        => UNCHANGED ids
    BY DEF ResolveTools, Locate, CreateResource, Invoke, Restart, others
  <2>. QED
    BY <2>1, <2>2, <2>3, <2>4, <2>5, <2>6
<1>12. ResolveInstructions(s) => d.pc # "write" /\ UNCHANGED ids
  <2>. DEFINE k == IF store # Nothing /\ store.status = "pending" THEN Knows(c, store) ELSE c
  <2>1. k \in Conversations
    BY <1>1, KnowsType DEF Conversations
  <2>. QED
    BY <1>1, <2>1 DEF ResolveInstructions, Conversations, others
<1>. QED
  BY <1>4, <1>5, <1>6, <1>7, <1>8, <1>9, <1>10, <1>11, <1>12 DEF Step

\* What a call returns was stored, and a completion returns the resource it was called with.
LEMMA StepAnswers ==
    ASSUME LinkInvariant, NEW s \in Sessions, Step(s)
    PROVE  \/ UNCHANGED answers
           \/ \E b \in written' : LET asked == sessions[s].input.resource IN
                /\ answers' = answers \cup {[binding |-> b, asked |-> asked]}
                /\ asked # Nothing => b.resource = asked
<1>. DEFINE c == sessions[s]
            Told == \E b \in written' :
                      /\ answers' = answers \cup {[binding |-> b, asked |-> c.input.resource]}
                      /\ c.input.resource # Nothing => b.resource = c.input.resource
<1>1. /\ c \in Conversations /\ Prepared(c) /\ Based(c)
      /\ store # Nothing => store \in written
      /\ written \subseteq Bindings /\ Nothing \notin Bindings
  BY NothingIsAbsent DEF LinkInvariant, TypeOK, Latest
<1>2. ASSUME NEW b \in written', Returns(s, b), c.input.resource # Nothing => b.resource = c.input.resource
      PROVE  Told
  BY <1>2 DEF Returns
<1>3. Throws(s) \/ (\E pc, b : Goes(s, pc, b)) => UNCHANGED answers
  BY DEF Throws, Goes
<1>4. ASSUME Untouched, store # Nothing PROVE store \in written'
  BY <1>1, <1>4 DEF Untouched
<1>5. c.tool # "complete" => c.input.resource = Nothing
  BY <1>1 DEF Prepared
<1>. HIDE DEF Told
<1>6. ASSUME LinkRead(s) \/ LinkWinner(s) \/ Status(s) \/ Guide(s)
      PROVE  UNCHANGED answers \/ Told
  <2>1. c.input.resource = Nothing /\ Untouched
    BY <1>5, <1>6 DEF LinkRead, LinkWinner, Status, Guide, Calling
  <2>. QED
    BY <1>2, <1>3, <1>4, <1>6, <2>1 DEF LinkRead, LinkWinner, Status, Guide
<1>7. ASSUME LinkCreate(s) PROVE UNCHANGED answers \/ Told
  <2>1. c.input.resource = Nothing /\ c.seen # Nothing
    BY <1>1, <1>5, <1>7 DEF LinkCreate, Calling, Based
  <2>2. store = Nothing => c.seen \in written'
    BY <1>7, <2>1 DEF LinkCreate, Stored
  <2>. QED
    BY <1>2, <1>3, <1>7, <2>1, <2>2 DEF LinkCreate
<1>8. ASSUME CompleteRead(s) PROVE UNCHANGED answers \/ Told
  <2>1. CASE store # Nothing /\ store.id = c.input.id /\ store.status = "active"
             /\ store.resource = c.input.resource
    <3>1. Returns(s, store) /\ Untouched
      BY <1>8, <2>1 DEF CompleteRead
    <3>. QED
      BY <1>2, <1>4, <2>1, <3>1
  <2>2. CASE ~(store # Nothing /\ store.id = c.input.id /\ store.status = "active"
               /\ store.resource = c.input.resource)
    <3>1. Throws(s) \/ (\E pc, b : Goes(s, pc, b))
      BY <1>8, <2>2 DEF CompleteRead
    <3>. QED
      BY <1>3, <3>1
  <2>. QED
    BY <2>1, <2>2
<1>9. ASSUME CompleteWinner(s) PROVE UNCHANGED answers \/ Told
  BY <1>2, <1>3, <1>4, <1>9 DEF CompleteWinner, SameLink
<1>10. ASSUME CompleteWrite(s) PROVE UNCHANGED answers \/ Told
  <2>. DEFINE b == Activated(c.seen, c.input.resource, c.input.evidence)
  <2>1. c.seen \in Bindings
    BY <1>1, <1>10 DEF CompleteWrite, Calling, Based
  <2>2. b \in Bindings /\ b.resource = c.input.resource
    BY <1>1, <2>1, BindingTypes DEF Conversations, Inputs, Activated, Bindings
  <2>3. Stored(b) => b \in written'
    BY <1>1, <2>2 DEF Stored
  <2>. HIDE DEF b
  <2>4. \/ Stored(b) /\ Returns(s, b)
        \/ Goes(s, "winner", c.seen)
    BY <1>10 DEF CompleteWrite, b
  <2>. QED
    BY <1>2, <1>3, <2>2, <2>3, <2>4
<1>11. ASSUME SaveWrite(s) PROVE UNCHANGED answers \/ Told
  <2>. DEFINE b == [c.seen EXCEPT !.card = c.input.card, !.revision = @ + 1]
  <2>1. c.seen \in Bindings /\ c.input.resource = Nothing
    BY <1>1, <1>5, <1>11 DEF SaveWrite, Calling, Based
  <2>2. b \in Bindings
    BY <1>1, <2>1, BindingTypes DEF Conversations, Inputs, Evidence
  <2>3. Stored(b) => b \in written'
    BY <1>1, <2>2 DEF Stored
  <2>. HIDE DEF b
  <2>4. \/ Stored(b) /\ Returns(s, b)
        \/ UNCHANGED answers \/ Throws(s)
    BY <1>11 DEF SaveWrite, b
  <2>. QED
    BY <1>2, <1>3, <2>1, <2>3, <2>4
<1>12. \/ SaveRead(s) \/ UnlinkRead(s) \/ UnlinkWrite(s)
       \/ ResolveTools(s) \/ ResolveInstructions(s) \/ Locate(s) \/ CreateResource(s)
       \/ (\E tool \in Tools : Invoke(s, tool)) \/ Restart(s)
       => UNCHANGED answers
  BY <1>3 DEF SaveRead, UnlinkRead, UnlinkWrite, ResolveTools, ResolveInstructions, Locate, CreateResource,
              Invoke, Restart, history
<1>. QED
  BY <1>6, <1>7, <1>8, <1>9, <1>10, <1>11, <1>12 DEF Step, Told

-----------------------------------------------------------------------------
(* The invariant is inductive *)

\* What is written continues a stored binding, or opens a new ID; the binding it
\* continues is the one in the store, unless another link has taken its place.
LEMMA WriteFollows ==
    ASSUME LinkInvariant, NEW s \in Sessions, NEW b \in Bindings, Writes(s, b)
    PROVE  /\ b.card # Nothing /\ b.id <= ids
           /\ \/ /\ store = Nothing /\ b.status = "pending" /\ b = sessions[s].seen
                 /\ sessions[s].pc = "write" /\ sessions[s].tool = "link"
                 /\ \A w \in written : w.id # b.id
              \/ \E a \in written :
                   /\ a.id = b.id /\ b.revision = a.revision + 1
                   /\ b.id \notin reborn' => store = a /\ b.id \notin reborn
                   /\ b.status = "active" /\ b.resource # Nothing
                   /\ \A q \in Required[b.preset] : b.evidence # Nothing /\ q \in ToSet(b.evidence)
                   /\ a.status = "active" => a.resource = b.resource
<1>. DEFINE c == sessions[s]
<1>1. /\ c \in Conversations /\ Prepared(c) /\ Based(c) /\ written \subseteq Bindings
      /\ store \in Bindings \cup {Nothing}
  BY DEF LinkInvariant, TypeOK
<1>2. CASE Calling(s, "link", "write") /\ b = c.seen /\ store = Nothing
  BY <1>1, <1>2 DEF Calling, Based, LinkInvariant, Reserved
<1>3. ASSUME NEW a \in written, Matches(a), a.id = b.id
      PROVE  /\ b.id \notin reborn' => store = a /\ b.id \notin reborn
             /\ a.card # Nothing /\ b.id <= ids
  <2>1. store \in written /\ store.revision = a.revision
    BY <1>3 DEF Matches, LinkInvariant, Latest
  <2>2. b.id \notin reborn' => store.id = b.id /\ b.id \notin reborn
    BY <1>3 DEF Writes, Matches
  <2>3. \A x, y \in written : x.id = y.id /\ x.revision = y.revision /\ x.id \notin reborn => x = y
    BY DEF LinkInvariant, OneHistory
  <2>4. b.id \notin reborn' => store = a
    BY <1>3, <2>1, <2>2, <2>3
  <2>. QED
    BY <1>3, <2>2, <2>4 DEF LinkInvariant, Vouched, Reserved
<1>4. CASE /\ Calling(s, "complete", "write") /\ Matches(c.seen)
           /\ b = Activated(c.seen, c.input.resource, c.input.evidence)
  <2>1. /\ c.seen \in written /\ c.seen.status = "pending" /\ c.input.resource # Nothing
        /\ Verified(c.seen.preset, c.input.evidence)
    BY <1>1, <1>4 DEF Calling, Based, Prepared
  <2>2. /\ b.id = c.seen.id /\ b.preset = c.seen.preset /\ b.card = c.seen.card
        /\ b.status = "active" /\ b.resource = c.input.resource /\ b.evidence = c.input.evidence
        /\ b.revision = c.seen.revision + 1
    BY <1>1, <1>4, <2>1 DEF Activated, Bindings
  <2>3. \A q \in Required[b.preset] : b.evidence # Nothing /\ q \in ToSet(b.evidence)
    BY <2>1, <2>2 DEF Verified
  <2>. QED
    BY <1>3, <1>4, <2>1, <2>2, <2>3
<1>5. CASE /\ Calling(s, "save_context", "write") /\ Matches(c.seen)
           /\ b = [c.seen EXCEPT !.card = c.input.card, !.revision = @ + 1]
  <2>1. c.seen \in written /\ c.seen.status = "active" /\ c.input.card # Nothing
    BY <1>1, <1>5 DEF Calling, Based, Prepared
  <2>2. /\ b.id = c.seen.id /\ b.preset = c.seen.preset /\ b.card = c.input.card
        /\ b.status = "active" /\ b.resource = c.seen.resource /\ b.evidence = c.seen.evidence
        /\ b.revision = c.seen.revision + 1
    BY <1>1, <1>5, <2>1 DEF Bindings
  <2>3. /\ c.seen.resource # Nothing
        /\ \A q \in Required[c.seen.preset] : c.seen.evidence # Nothing /\ q \in ToSet(c.seen.evidence)
    BY <2>1 DEF LinkInvariant, Vouched
  <2>. QED
    BY <1>3, <1>5, <2>1, <2>2, <2>3
<1>. QED
  BY <1>2, <1>4, <1>5 DEF Writes

LEMMA StepTypes ==
    ASSUME LinkInvariant, NEW s \in Sessions, Step(s)
    PROVE  TypeOK'
<1>. DEFINE c == sessions[s]
<1>1. TypeOK /\ c \in Conversations /\ Prepared(c)
  BY DEF LinkInvariant, TypeOK
<1>2. sessions' \in [Sessions -> Conversations]
  BY StepConversation
<1>3. store' \in Bindings \cup {Nothing} /\ written' \subseteq Bindings /\ reborn' \subseteq 1..MaxIds
  <2>1. CASE UNCHANGED <<store, written, reborn>> \/ (store' = Nothing /\ UNCHANGED <<written, reborn, ids>>)
    BY <1>1, <2>1 DEF TypeOK
  <2>2. ASSUME NEW b \in Bindings, Writes(s, b)
        PROVE  store' \in Bindings \cup {Nothing} /\ written' \subseteq Bindings /\ reborn' \subseteq 1..MaxIds
    BY <1>1, <2>2 DEF TypeOK, Writes, Bindings
  <2>. QED
    BY <2>1, <2>2, StepStore
<1>4. ids' \in 0..MaxIds
  BY <1>1, StepDecides, ProjectLinkConstants DEF TypeOK
<1>5. \A a \in answers' : a.binding \in Bindings
  BY <1>1, <1>3, StepAnswers DEF TypeOK
<1>6. external' \in [1..MaxIds -> SUBSET Resources]
  <2>1. CASE CreateResource(s)
    <3>1. c.known.id \in 1..MaxIds
      BY <1>1, <2>1 DEF CreateResource, Prepared, Conversations, Plans
    <3>. QED
      BY <1>1, <2>1, <3>1 DEF CreateResource, TypeOK
  <2>2. CASE UNCHANGED external
    BY <1>1, <2>2 DEF TypeOK
  <2>3. Step(s) => CreateResource(s) \/ UNCHANGED external
    BY DEF Step, ResolveTools, ResolveInstructions, Locate, Invoke, LinkRead, LinkCreate, LinkWinner,
           CompleteRead, CompleteWrite, CompleteWinner, SaveRead, SaveWrite, UnlinkRead, UnlinkWrite,
           Status, Guide, Restart, others
  <2>. QED
    BY <2>1, <2>2, <2>3
<1>7. restarts' \in 0..MaxRestarts
  <2>1. Step(s) => (restarts < MaxRestarts /\ restarts' = restarts + 1) \/ UNCHANGED restarts
    BY DEF Step, ResolveTools, ResolveInstructions, Locate, CreateResource, Invoke, LinkRead, LinkCreate,
           LinkWinner, CompleteRead, CompleteWrite, CompleteWinner, SaveRead, SaveWrite, UnlinkRead,
           UnlinkWrite, Status, Guide, Restart, others
  <2>. QED
    BY <1>1, <2>1, ProjectLinkConstants DEF TypeOK
<1>. QED
  BY <1>2, <1>3, <1>4, <1>5, <1>6, <1>7 DEF TypeOK

\* The history grows, and no link is taken off the list of those written over another.
LEMMA HistoryGrows ==
    ASSUME LinkInvariant, NEW s \in Sessions, Step(s)
    PROVE  written \subseteq written' /\ reborn \subseteq reborn'
<1>1. ASSUME NEW b \in Bindings, Writes(s, b) PROVE written \subseteq written' /\ reborn \subseteq reborn'
  BY <1>1 DEF Writes
<1>. QED
  BY <1>1, StepStore

\* What a call got ready to write stays so while others write.
LEMMA StepBased ==
    ASSUME LinkInvariant, NEW s \in Sessions, Step(s)
    PROVE  \A r \in Sessions : Prepared(sessions'[r]) /\ Based(sessions[r])'
<1>. DEFINE c == sessions[s]
            d == sessions'[s]
<1>1. written \subseteq written'
  BY HistoryGrows
<1>2. ASSUME NEW r \in Sessions \ {s} PROVE Prepared(sessions'[r]) /\ Based(sessions[r])'
  BY <1>1, <1>2, StepConversation DEF LinkInvariant, Based
<1>3. Based(sessions[s])'
  <2>1. d.pc = "write" /\ d.tool = "link" =>
          d.seen # Nothing /\ d.seen.card # Nothing /\ d.seen.status = "pending"
    <3>. SUFFICES ASSUME d.pc = "write", d.tool = "link"
                  PROVE  d.seen # Nothing /\ d.seen.card # Nothing /\ d.seen.status = "pending"
      OBVIOUS
    <3>1. /\ d.seen = NewBinding(ids + 1, PresetOf(s), c.input.card) /\ c.input.card # Nothing
          /\ ids < MaxIds
      BY StepDecides
    <3>2. d.seen.card # Nothing /\ d.seen.status = "pending"
      BY <3>1 DEF NewBinding
    <3>3. d.seen \in Bindings
      <4>1. ids + 1 \in 1..MaxIds
        BY <3>1, ProjectLinkConstants DEF LinkInvariant, TypeOK
      <4>2. PresetOf(s) \in Presets /\ c.input.card \in Cards
        BY <3>1, ProjectLinkConstants DEF PresetOf, Conversations, Inputs, LinkInvariant, TypeOK
      <4>. QED
        BY <3>1, <4>1, <4>2 DEF NewBinding, Bindings, Evidence
    <3>. QED
      BY <3>2, <3>3, NothingIsAbsent
  <2>2. store # Nothing => store \in written'
    BY <1>1 DEF LinkInvariant, Latest
  <2>. QED
    BY <2>1, <2>2, StepDecides DEF Based
<1>4. Prepared(d)
  BY StepConversation
<1>. QED
  BY <1>2, <1>3, <1>4

\* An ID stays with its proposal.
LEMMA StepReserved ==
    ASSUME LinkInvariant, NEW s \in Sessions, Step(s)
    PROVE  Reserved'
<1>. DEFINE Linking(r) == sessions[r].pc = "write" /\ sessions[r].tool = "link"
            Proposing(r) == sessions'[r].pc = "write" /\ sessions'[r].tool = "link"
<1>1. /\ \A r \in Sessions \ {s} : sessions'[r] = sessions[r]
      /\ ids \in Nat /\ written \subseteq Bindings /\ \A b \in Bindings : b.id \in Nat
      /\ sessions \in [Sessions -> Conversations]
  BY StepConversation, ProjectLinkConstants DEF LinkInvariant, TypeOK, Bindings
<1>2. /\ \A b \in written : b.id <= ids
      /\ \A r \in Sessions : Linking(r) =>
           /\ sessions[r].seen \in Bindings
           /\ sessions[r].seen.id <= ids /\ \A b \in written : b.id # sessions[r].seen.id
           /\ \A t \in Sessions \ {r} : Linking(t) => sessions[t].seen.id # sessions[r].seen.id
  BY <1>1, NothingIsAbsent DEF LinkInvariant, Reserved, Based, Conversations
<1>3. \/ ids' = ids
      \/ ids' = ids + 1 /\ UNCHANGED written /\ Proposing(s)
  BY StepDecides
<1>4. Proposing(s) => ids' = ids + 1 /\ sessions'[s].seen.id = ids + 1 /\ UNCHANGED written
  <2>1. Proposing(s) => ids' = ids + 1 /\ sessions'[s].seen = NewBinding(ids + 1, PresetOf(s), sessions[s].input.card)
    BY StepDecides
  <2>2. NewBinding(ids + 1, PresetOf(s), sessions[s].input.card).id = ids + 1
    BY DEF NewBinding
  <2>. QED
    BY <1>1, <1>3, <2>1, <2>2
<1>5. ASSUME NEW b \in written'
      PROVE  /\ b.id <= ids'
             /\ \A r \in Sessions \ {s} : Linking(r) => b.id # sessions[r].seen.id
  <2>1. CASE b \in written
    BY <1>1, <1>2, <1>3, <2>1
  <2>2. CASE b \in Bindings /\ Writes(s, b)
    <3>1. b.id <= ids /\ ids' = ids
      BY <2>2, WriteFollows DEF Writes
    <3>2. \/ b = sessions[s].seen /\ Linking(s)
          \/ \E a \in written : a.id = b.id
      BY <2>2, WriteFollows
    <3>. QED
      BY <1>2, <3>1, <3>2
  <2>3. b \in written \/ (b \in Bindings /\ Writes(s, b))
    <3>1. ASSUME NEW w \in Bindings, Writes(s, w) PROVE b \in written \/ (b \in Bindings /\ Writes(s, b))
      <4>1. b \in written \/ b = w
        BY <3>1 DEF Writes
      <4>. QED
        BY <3>1, <4>1
    <3>2. UNCHANGED written => b \in written
      OBVIOUS
    <3>. QED
      BY <3>1, <3>2, StepStore
  <2>. QED
    BY <2>1, <2>2, <2>3
<1>6. ASSUME NEW r \in Sessions \ {s}, Linking(r)
      PROVE  /\ sessions[r].seen.id <= ids'
             /\ Proposing(s) => sessions'[s].seen.id # sessions[r].seen.id
  BY <1>1, <1>2, <1>3, <1>4, <1>6
<1>7. \A b \in written' : Proposing(s) => b.id # sessions'[s].seen.id
  BY <1>1, <1>2, <1>4
<1>8. Proposing(s) => sessions'[s].seen.id <= ids'
  BY <1>1, <1>4
<1>9. ASSUME NEW r \in Sessions, Proposing(r)
      PROVE  /\ sessions'[r].seen.id <= ids'
             /\ \A b \in written' : b.id # sessions'[r].seen.id
             /\ \A t \in Sessions \ {r} : Proposing(t) => sessions'[t].seen.id # sessions'[r].seen.id
  BY <1>1, <1>2, <1>5, <1>6, <1>7, <1>8, <1>9
<1>. QED
  BY <1>5, <1>9 DEF Reserved

\* The store stays the latest, and the histories stay single.
LEMMA StepHistory ==
    ASSUME LinkInvariant, NEW s \in Sessions, Step(s)
    PROVE  Latest' /\ OneHistory' /\ OneResourcePerKey' /\ Vouched'
<1>. DEFINE Answered ==
              /\ \A a \in answers' : a.binding \in written'
              /\ \A a \in answers' : a.asked # Nothing => a.binding.resource = a.asked
<1>1. /\ Latest /\ OneHistory /\ OneResourcePerKey /\ Vouched
      /\ written \subseteq Bindings /\ \A b \in Bindings : b.revision \in Nat
  BY DEF LinkInvariant, TypeOK, Bindings
<1>2. Answered
  BY <1>1, StepAnswers, HistoryGrows DEF OneHistory, OneResourcePerKey
<1>3. CASE UNCHANGED <<store, written, reborn>> \/ (store' = Nothing /\ UNCHANGED <<written, reborn, ids>>)
  BY <1>1, <1>2, <1>3 DEF Latest, OneHistory, OneResourcePerKey, Vouched
<1>4. ASSUME NEW b \in Bindings, Writes(s, b)
      PROVE  Latest' /\ OneHistory' /\ OneResourcePerKey' /\ Vouched'
  <2>1. store' = b /\ written' = written \cup {b} /\ reborn \subseteq reborn'
    BY <1>4, HistoryGrows DEF Writes
  <2>2. b.id \notin reborn' => \A w \in written : w.id = b.id =>
          /\ w.revision < b.revision
          /\ b.status = "pending" => w.status = "pending"
          /\ w.status = "active" => b.status = "active" /\ w.resource = b.resource
    <3>. SUFFICES ASSUME b.id \notin reborn', NEW w \in written, w.id = b.id
                  PROVE  /\ w.revision < b.revision
                         /\ b.status = "pending" => w.status = "pending"
                         /\ w.status = "active" => b.status = "active" /\ w.resource = b.resource
      OBVIOUS
    <3>1. PICK a \in written :
            /\ a.id = b.id /\ b.revision = a.revision + 1
            /\ store = a /\ b.id \notin reborn
            /\ b.status = "active"
            /\ a.status = "active" => a.resource = b.resource
      BY <1>4, WriteFollows
    <3>2. w.revision <= a.revision /\ (a.status = "pending" => w.status = "pending")
      BY <1>1, <3>1, NothingIsAbsent DEF Latest
    <3>3. w.revision < b.revision
      BY <1>1, <3>1, <3>2
    <3>4. w.status = "active" => w.resource = b.resource
      <4>1. a.status \in {"pending", "active"}
        BY <1>1 DEF Bindings
      <4>. QED
        BY <1>1, <3>1, <3>2, <4>1 DEF OneResourcePerKey
    <3>. QED
      BY <3>1, <3>3, <3>4
  <2>3. /\ b.card # Nothing
        /\ b.status = "active" =>
             /\ b.resource # Nothing
             /\ \A q \in Required[b.preset] : b.evidence # Nothing /\ q \in ToSet(b.evidence)
    BY <1>4, WriteFollows
  <2>4. Latest'
    BY <1>1, <2>1, <2>2 DEF Latest
  <2>5. ASSUME NEW x \in written', NEW y \in written', x.id = y.id, x.id \notin reborn'
        PROVE  /\ x.revision = y.revision => x = y
               /\ x.status = "active" /\ y.status = "active" => x.resource = y.resource
    <3>1. CASE x \in written /\ y \in written
      BY <1>1, <2>1, <2>5, <3>1 DEF OneHistory, OneResourcePerKey
    <3>2. CASE x = b /\ y = b
      BY <3>2
    <3>3. CASE x = b /\ y \in written
      BY <1>1, <2>2, <2>5, <3>3
    <3>4. CASE y = b /\ x \in written
      BY <1>1, <2>2, <2>5, <3>4
    <3>. QED
      BY <2>1, <3>1, <3>2, <3>3, <3>4
  <2>6. OneHistory' /\ OneResourcePerKey'
    BY <1>2, <2>5 DEF OneHistory, OneResourcePerKey
  <2>7. Vouched'
    BY <1>1, <2>1, <2>3 DEF Vouched
  <2>. QED
    BY <2>4, <2>6, <2>7
<1>. QED
  BY <1>3, <1>4, StepStore

\* The channel starts with at most one link, completed with its evidence or not at all.
LEMMA InitLink == Init => LinkInvariant
<1>. SUFFICES ASSUME Init PROVE LinkInvariant
  OBVIOUS
<1>1. TypeOK
  BY InitTypes
<1>2. \A s \in Sessions : sessions[s] = NewSession
  BY DEF Init
<1>3. \A s \in Sessions : Prepared(sessions[s]) /\ Based(sessions[s]) /\ sessions[s].pc # "write"
  BY <1>2, NothingIsAbsent DEF NewSession, NoInput, Prepared, Based, Tools
<1>4. store # Nothing =>
        /\ store.id = 1 /\ store.card # Nothing
        /\ store.status = "active" =>
             /\ store.resource # Nothing
             /\ \A q \in Required[store.preset] : store.evidence # Nothing /\ q \in ToSet(store.evidence)
  <2>. PICK p \in Presets, r \in Resources : \E e \in EvidenceFor(p) :
         store \in {Nothing, NewBinding(1, p, <<0, 0>>), Activated(NewBinding(1, p, <<0, 0>>), r, e)}
    BY DEF Init
  <2>. PICK e \in EvidenceFor(p) :
         store \in {Nothing, NewBinding(1, p, <<0, 0>>), Activated(NewBinding(1, p, <<0, 0>>), r, e)}
    OBVIOUS
  <2>1. <<0, 0>> # Nothing /\ r # Nothing
    BY NothingIsAbsent, ProjectLinkConstants DEF Cards
  <2>2. \A q \in Required[p] : e # Nothing /\ q \in ToSet(e)
    BY NothingIsAbsent DEF EvidenceFor
  <2>3. CASE store = NewBinding(1, p, <<0, 0>>)
    BY <2>1, <2>3 DEF NewBinding
  <2>4. CASE store = Activated(NewBinding(1, p, <<0, 0>>), r, e)
    <3>1. /\ store.id = 1 /\ store.card = <<0, 0>> /\ store.resource = r /\ store.evidence = e
          /\ store.preset = p
      BY <2>4 DEF NewBinding, Activated
    <3>. QED
      BY <2>1, <2>2, <3>1
  <2>. QED
    BY <2>3, <2>4
<1>5. written = {store} \ {Nothing} /\ answers = {} /\ reborn = {} /\ ids = IF store = Nothing THEN 0 ELSE 1
  BY DEF Init
<1>6. Reserved
  BY <1>3, <1>4, <1>5 DEF Reserved
<1>7. store \in written => store.revision \in Nat
  BY <1>1 DEF TypeOK, Bindings
<1>8. Latest /\ OneHistory /\ OneResourcePerKey /\ Vouched
  BY <1>4, <1>5, <1>7 DEF Latest, OneHistory, OneResourcePerKey, Vouched
<1>. QED
  BY <1>1, <1>3, <1>6, <1>8 DEF LinkInvariant

\* Every step of the channel keeps the invariant.
LEMMA InductiveLink == LinkInvariant /\ [Next]_vars => LinkInvariant'
<1>. SUFFICES ASSUME LinkInvariant, [Next]_vars PROVE LinkInvariant'
  OBVIOUS
<1>1. CASE UNCHANGED vars
  BY <1>1 DEF LinkInvariant, vars, TypeOK, Based, Reserved, Latest, OneHistory, OneResourcePerKey, Vouched
<1>2. ASSUME NEW s \in Sessions, Step(s) PROVE LinkInvariant'
  BY <1>2, StepTypes, StepBased, StepReserved, StepHistory DEF LinkInvariant
<1>. QED
  BY <1>1, <1>2 DEF Next

-----------------------------------------------------------------------------
(* Theorems *)

\* ProjectLinkService and its callers: every state of the channel, its conversations and
\* the external system is well typed.
THEOREM LinkTypes == Spec => []TypeOK
<1>1. LinkInvariant => TypeOK
  BY DEF LinkInvariant
<1>. QED
  BY <1>1, InitLink, InductiveLink, PTL DEF Spec

\* The conditional writes of link(), complete() and saveContext(): one history per binding,
\* and no answer that was not stored.
THEOREM LinkOneHistory == Spec => []OneHistory
<1>1. LinkInvariant => OneHistory
  BY DEF LinkInvariant
<1>. QED
  BY <1>1, InitLink, InductiveLink, PTL DEF Spec

\* complete(): at most one resource is ever attached under an ID, and a completion that
\* succeeds attached the resource it named.
THEOREM LinkOneResource == Spec => []OneResourcePerKey
<1>1. LinkInvariant => OneResourcePerKey
  BY DEF LinkInvariant
<1>. QED
  BY <1>1, InitLink, InductiveLink, PTL DEF Spec

\* The checks of link() and complete(): every stored binding has a confirmed card, and an
\* active one a resource and the evidence its preset requires.
THEOREM LinkVouched == Spec => []Vouched
<1>1. LinkInvariant => Vouched
  BY DEF LinkInvariant
<1>. QED
  BY <1>1, InitLink, InductiveLink, PTL DEF Spec

=============================================================================
