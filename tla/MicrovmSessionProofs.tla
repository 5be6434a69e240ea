------------------------ MODULE MicrovmSessionProofs ------------------------
(* Proofs about MicrovmSession for every set of handles, any number of     *)
(* generations and captures, and every world of configurations and faults. *)
EXTENDS MicrovmSession, TLAPS

-----------------------------------------------------------------------------
(* The inductive invariant: names *)

\* create() before it has chosen its launch identity.
Choosing == {"leased", "retiring", "identify"}

\* A handle that works on a MicroVM of its own.
Owning == {"launched", "booting", "handoff", "abandon", "undo", "ready", "publish", "commit",
           "terminating", "deleting", "unpublish", "erase"}

\* The handle has a launch identity.
Launching == Owning \cup {"request", "dispatch", "running", "mismatched", "mismatch",
                          "late", "cleanup", "intent", "cleaning", "forget"}

\* A holder has the current generation.
HolderHolds == \A h \in Handles : auth.holder = h => lease[h] = auth.gen /\ auth.gen # 0

\* The local variables of a handle that its place in the code relies on.
LocalOK(h) ==
    /\ loc[h].vm \in {0, loc[h].launch}
    /\ pc[h] \in {"idle"} \cup Choosing => loc[h].vm = 0
    /\ pc[h] \in Launching => loc[h].launch # 0
    /\ pc[h] \in Owning => loc[h].vm # 0
    /\ pc[h] = "dispatch" => loc[h].activation # 0
    /\ pc[h] \in {"idle", "publish", "commit", "deleting"} \cup Creating => ~loc[h].paused
    /\ pc[h] \in {"terminating", "unpublish", "erase"} => loc[h].paused
    /\ pc[h] \in {"publish", "commit"} => lease[h] # 0

\* Every launch identity in use anywhere.
Named ==
    {auth.launch.id} \cup {loc[h].launch : h \in Handles} \cup {r.token : r \in runs}
    \cup {k.vm : k \in kills}

\* No identity is from the future, and one that is still to be chosen is not in use.
Fresh ==
    \A g \in Named :
      /\ g <= auth.gen
      /\ \A h \in Handles : auth.holder = h /\ pc[h] \in Choosing => g < auth.gen

\* What the authority records of a launch has an identity.
LaunchOK == auth.launch.recorded \/ auth.launch.activation # 0 => auth.launch.id # 0

\* The launch of the authority is the one its holder works on.
HolderLaunch(h) ==
    /\ pc[h] \in {"request", "dispatch", "running", "launched", "mismatched"} =>
         auth.launch.id = loc[h].launch /\ ~auth.launch.recorded
    /\ pc[h] \in {"mismatch", "booting", "handoff", "abandon", "undo", "intent", "cleaning", "forget"} =>
         auth.launch.id = loc[h].launch /\ auth.launch.recorded
    /\ pc[h] = "retiring" => auth.launch.id = loc[h].launch /\ auth.launch.recorded
    /\ pc[h] = "identify" /\ auth.launch.recorded => vms[auth.launch.id].status = "gone"

Names ==
    /\ TypeOK /\ HolderHolds /\ Fresh /\ LaunchOK
    /\ \A h \in Handles : LocalOK(h) /\ (auth.holder = h => HolderLaunch(h))
    /\ \A h \in Handles : /\ pc[h] = "undo" => vms[loc[h].vm].status = "gone"
                          /\ pc[h] = "forget" => vms[loc[h].launch].status = "gone"

-----------------------------------------------------------------------------
(* The inductive invariant: requests *)

\* The requests that were sent, and those that are about to be.
Orders ==
    {[token |-> r.token, activation |-> r.activation, config |-> r.config] : r \in runs}
    \cup {[token |-> loc[h].launch, activation |-> loc[h].activation, config |-> Config(h)] :
            h \in {x \in Handles : pc[x] = "dispatch"}}

\* A request agrees with every other of its token, and with the authority.
Requests ==
    /\ \A o, p \in Orders : o.token = p.token => o = p
    /\ \A o \in Orders : o.token = auth.launch.id =>
         o.activation = auth.launch.activation /\ o.config = auth.launch.config

-----------------------------------------------------------------------------
(* The inductive invariant: terminations *)

\* The identity whose MicroVM may still be adopted: nobody has recorded it.
Adoptable == IF auth.launch.recorded THEN 0 ELSE auth.launch.id

\* The handle has recorded its MicroVM, or has ended the launch.
Recorded == {"mismatch", "booting", "handoff", "abandon", "undo", "ready", "publish", "commit",
             "terminating", "deleting", "unpublish", "erase", "intent", "cleaning", "forget"}

\* The handle itself has ordered the end of its MicroVM, or it has ended.
Doomed(h) == [by |-> h, vm |-> loc[h].vm] \in kills \/ vms[loc[h].vm].status = "gone"

\* Nobody else has ordered that, or is about to.
Alone(h) ==
    /\ \A k \in kills : k.vm = loc[h].vm => k.by = h
    /\ \A x \in Handles \ {h} : pc[x] \in {"mismatch", "intent", "commit"} => loc[x].launch # loc[h].vm

Terminations ==
    /\ \A k \in kills : k.vm # Adoptable
    /\ \A h \in Handles :
         /\ pc[h] \in Recorded => loc[h].launch # Adoptable
         /\ pc[h] = "deleting" \/ (pc[h] = "ready" /\ lease[h] = 0 /\ ~loc[h].paused) => Doomed(h)
         /\ auth.holder = h /\ ~loc[h].paused /\ pc[h] \in {"booting", "handoff", "ready", "publish", "commit"}
            => Doomed(h) \/ Alone(h)

-----------------------------------------------------------------------------
(* The inductive invariant: history *)

\* delete() ends the MicroVM of its handle.  A handle whose delete() did not
\* acquires the lease again and goes on where it was, see MicrovmSessionCommit.
DeletesEnd == \A w \in Worlds : "survive" \notin w.faults

\* No checkpoint is known that was not uploaded.
Uploaded ==
    /\ auth.metadata.checkpoint <= uploads
    /\ \A h \in Handles : loc[h].metadata.checkpoint <= uploads
    /\ \A c \in objects : c <= uploads

\* What a holder that is not paused knows is what the authority says, and its
\* MicroVM holds that checkpoint.
Current(h) ==
    /\ pc[h] \in {"ready", "publish", "commit", "deleting"} \cup Creating => loc[h].metadata = auth.metadata
    /\ pc[h] \in {"handoff", "ready", "publish", "commit"} =>
         vms[loc[h].vm].content = auth.metadata.checkpoint
    /\ pc[h] \in {"ready", "publish", "commit"} => auth.launch.id \in {0, loc[h].vm}
    /\ pc[h] = "publish" =>
         /\ loc[h].pending.checkpoint \in objects \cup {0}
         /\ \/ loc[h].pending.checkpoint \in {0, auth.metadata.checkpoint}
            \/ origin[loc[h].pending.checkpoint] = auth.metadata.checkpoint

\* A checkpoint that is about to be deleted is nobody's.
Erasing(x) ==
    /\ loc[x].metadata.checkpoint # auth.metadata.checkpoint
    /\ \A h \in Handles : auth.holder = h /\ pc[h] = "publish" =>
         loc[h].pending.checkpoint # loc[x].metadata.checkpoint

History ==
    /\ Uploaded /\ CheckpointPresent
    /\ \A h \in Handles : /\ pc[h] \in Owning /\ ~loc[h].paused => lease[h] # 0
                          /\ auth.holder = h /\ ~loc[h].paused => Current(h)
                          /\ pc[h] = "erase" /\ loc[h].metadata.checkpoint # 0 => Erasing(h)


-----------------------------------------------------------------------------
(* What a step does to the records *)

\* The types, field by field.
LEMMA TypeFacts ==
    ASSUME TypeOK
    PROVE  /\ auth.gen \in 0..MaxGen /\ auth.holder \in Handles \cup {Nobody}
           /\ auth.metadata \in Metadata /\ auth.launch \in Launches
           /\ auth.launch.id \in 0..MaxGen /\ auth.launch.activation \in 0..MaxGen
           /\ auth.launch.config \in Configs /\ auth.launch.recorded \in BOOLEAN
           /\ \A h \in Handles :
                /\ loc[h] \in Locals /\ loc[h].launch \in 0..MaxGen /\ loc[h].activation \in 0..MaxGen
                /\ loc[h].vm \in 0..MaxGen /\ loc[h].metadata \in Metadata /\ loc[h].pending \in Metadata
                /\ loc[h].paused \in BOOLEAN /\ pc[h] \in PCs /\ lease[h] \in 0..Broken
           /\ \A k \in kills : k.vm \in Gens /\ k.by \in Handles
           /\ \A r \in runs : r.token \in Gens /\ r.activation \in Gens
           /\ MaxGen \in Nat /\ MaxCaptures \in Nat
  BY SessionConstants DEF TypeOK, Authority, Launches, Locals, Kills, Runs

\* Only handle h moves, and nothing ever changes in the world.
Moves(h) ==
    /\ \A x \in Handles \ {h} : pc'[x] = pc[x] /\ lease'[x] = lease[x] /\ loc'[x] = loc[x]
    /\ world' = world

\* The lease is taken when it is free, given up at any time, and only its holder writes.
AuthStep(h) ==
    /\ \/ auth'.gen = auth.gen /\ auth'.holder \in {auth.holder, Nobody}
       \/ auth'.gen = auth.gen + 1 /\ auth.holder = Nobody /\ auth'.holder = h
    /\ auth.holder # h => auth'.launch = auth.launch /\ auth'.metadata = auth.metadata

\* MicroVMs do not come back, and no termination is lost.
VmsStep ==
    /\ \A g \in Gens : vms[g].status = "gone" => vms'[g].status = "gone"
    /\ \A k \in kills : k \in kills' \/ vms'[k.vm].status = "gone"

LEMMA TakeFacts ==
    ASSUME TypeOK, NEW h \in Handles, Free, auth' = Taken(h), lease' = [lease EXCEPT ![h] = auth.gen + 1]
    PROVE  /\ auth' \in Authority /\ auth'.gen = auth.gen + 1 /\ auth'.holder = h
           /\ auth'.metadata = auth.metadata /\ auth'.launch = auth.launch
           /\ lease' \in [Handles -> 0..Broken] /\ lease'[h] = auth'.gen
           /\ \A x \in Handles \ {h} : lease'[x] = lease[x]
           /\ auth.holder = Nobody /\ auth.holder # h
<1>1. auth.gen + 1 \in 1..MaxGen /\ auth.gen \in Nat
  BY TypeFacts DEF Free
<1>. DEFINE n == auth.gen + 1
            next == [auth EXCEPT !.gen = n, !.holder = h]
<1>2. auth' = next /\ n \in 0..MaxGen /\ n \in 0..Broken /\ lease' = [lease EXCEPT ![h] = n]
  BY <1>1, SessionConstants DEF Taken, Broken
<1>. HIDE DEF n
<1>3. next \in Authority /\ next.gen = n /\ next.holder = h /\ next.metadata = auth.metadata /\ next.launch = auth.launch
  BY <1>2 DEF TypeOK, Authority
<1>. HIDE DEF next
<1>4. lease \in [Handles -> 0..Broken] /\ auth.holder = Nobody
  BY DEF TypeOK, Free
<1>. QED
  BY <1>2, <1>3, <1>4, SessionConstants DEF n

LEMMA DropFacts ==
    ASSUME TypeOK, HolderHolds, NEW h \in Handles, auth' = Released(h)
    PROVE  /\ auth' \in Authority /\ auth'.gen = auth.gen /\ auth'.holder \in {auth.holder, Nobody}
           /\ auth'.holder # h /\ auth'.metadata = auth.metadata /\ auth'.launch = auth.launch
<1>1. auth.holder = h <=> Held(h)
  BY DEF HolderHolds, Held
<1>2. auth \in Authority
  BY DEF TypeOK
<1>. QED
  BY <1>1, <1>2, SessionConstants DEF Released, Authority

\* updateState() is answered, or it is not and the handle's lease is broken.
LEMMA WriteFacts ==
    ASSUME TypeOK, NEW h \in Handles, NEW m \in Metadata, NEW l \in Launches, NEW next \in PCs,
           UpdateState(h, m, l, next)
    PROVE  /\ auth.holder = h /\ lease[h] = auth.gen
           /\ auth' \in Authority /\ auth'.gen = auth.gen /\ auth'.metadata = m /\ auth'.launch = l
           /\ pc' \in [Handles -> PCs] /\ lease' \in [Handles -> 0..Broken]
           /\ \A x \in Handles \ {h} : pc'[x] = pc[x] /\ lease'[x] = lease[x]
           /\ \/ auth'.holder = h /\ lease'[h] = lease[h] /\ pc'[h] = next
              \/ auth'.holder = Nobody /\ lease'[h] = Broken /\ pc'[h] = pc[h]
<1>1. auth \in Authority /\ pc \in [Handles -> PCs] /\ lease \in [Handles -> 0..Broken] /\ Broken \in 0..Broken
  BY SessionConstants DEF TypeOK, Broken
<1>2. auth.holder = h /\ lease[h] = auth.gen
  BY DEF UpdateState, Held
<1>3. CASE /\ auth' = [auth EXCEPT !.metadata = m, !.launch = l]
           /\ pc' = [pc EXCEPT ![h] = next] /\ lease' = lease
  BY <1>1, <1>2, <1>3 DEF Authority
<1>4. CASE /\ auth' = [auth EXCEPT !.metadata = m, !.launch = l, !.holder = Nobody]
           /\ lease' = [lease EXCEPT ![h] = Broken] /\ pc' = pc
  <2>1. /\ auth' \in Authority /\ auth'.gen = auth.gen /\ auth'.metadata = m /\ auth'.launch = l
        /\ auth'.holder = Nobody
    BY <1>1, <1>4 DEF Authority
  <2>. QED
    BY <1>1, <1>2, <1>4, <2>1
<1>. QED
  BY <1>3, <1>4 DEF UpdateState

\* The handle itself goes on.
LEMMA MoveFacts ==
    ASSUME TypeOK, NEW h \in Handles, NEW next \in PCs, pc' = [pc EXCEPT ![h] = next]
    PROVE  pc' \in [Handles -> PCs] /\ pc'[h] = next /\ \A x \in Handles \ {h} : pc'[x] = pc[x]
  BY DEF TypeOK

\* A termination is sent.
LEMMA KillFacts ==
    ASSUME TypeOK, NEW h \in Handles, NEW g \in Gens, Kill(h, g)
    PROVE  /\ kills' \subseteq Kills /\ kills \subseteq kills'
           /\ [by |-> h, vm |-> g] \in kills'
           /\ \A k \in kills' : k \in kills \/ (k.by = h /\ k.vm = g)
  BY DEF TypeOK, Kill, Kills

-----------------------------------------------------------------------------
(* Names *)

\* What a step of h has to keep for itself, apart from the identities in use.
LEMMA NamesKept ==
    ASSUME Names, TypeOK', NEW h \in Handles, Moves(h), AuthStep(h), VmsStep,
           auth'.holder = h => lease'[h] = auth'.gen, Fresh', LaunchOK',
           LocalOK(h)', auth'.holder = h => HolderLaunch(h)',
           pc'[h] = "undo" => vms'[loc'[h].vm].status = "gone",
           pc'[h] = "forget" => vms'[loc'[h].launch].status = "gone"
    PROVE  Names'
<1>1. /\ auth.gen \in 0..MaxGen /\ auth'.gen \in 0..MaxGen /\ MaxGen \in Nat
      /\ \A x \in Handles : x # Nobody
  BY TypeFacts, SessionConstants DEF Names, TypeOK, Authority
<1>2. HolderHolds'
  BY <1>1 DEF Names, HolderHolds, Moves, AuthStep
<1>3. ASSUME NEW x \in Handles \ {h} PROVE LocalOK(x)' /\ (auth'.holder = x => HolderLaunch(x)')
  <2>1. pc'[x] = pc[x] /\ loc'[x] = loc[x] /\ lease'[x] = lease[x] /\ x # Nobody
    BY <1>1 DEF Moves
  <2>2. LocalOK(x)'
    BY <2>1 DEF Names, LocalOK
  <2>3. ASSUME auth'.holder = x PROVE HolderLaunch(x)'
    <3>1. auth.holder = x /\ auth'.launch = auth.launch
      BY <2>1, <2>3 DEF AuthStep
    <3>2. HolderLaunch(x) /\ LaunchOK /\ auth.launch.id \in 0..MaxGen
      BY <3>1, TypeFacts DEF Names
    <3>3. auth.launch.recorded => auth.launch.id \in Gens
      BY <3>2, SessionConstants DEF LaunchOK, Gens
    <3>. QED
      BY <2>1, <3>1, <3>2, <3>3 DEF HolderLaunch, VmsStep
  <2>. QED
    BY <2>2, <2>3
<1>4. ASSUME NEW x \in Handles \ {h}
      PROVE  /\ pc'[x] = "undo" => vms'[loc'[x].vm].status = "gone"
             /\ pc'[x] = "forget" => vms'[loc'[x].launch].status = "gone"
  <2>1. pc'[x] = pc[x] /\ loc'[x] = loc[x] /\ loc[x].vm \in 0..MaxGen /\ loc[x].launch \in 0..MaxGen
    BY TypeFacts DEF Moves, Names
  <2>2. /\ pc[x] = "undo" => loc[x].vm # 0 /\ vms[loc[x].vm].status = "gone"
        /\ pc[x] = "forget" => loc[x].launch # 0 /\ vms[loc[x].launch].status = "gone"
    BY DEF Names, LocalOK, Launching, Owning
  <2>. QED
    BY <1>1, <2>1, <2>2 DEF VmsStep, Gens
<1>. QED
  BY <1>2, <1>3, <1>4 DEF Names

\* What a step of h that brings up no new identity has to keep for itself.
LEMMA NamesStep ==
    ASSUME Names, TypeOK', NEW h \in Handles, Moves(h), AuthStep(h), VmsStep,
           auth'.holder = h => lease'[h] = auth'.gen,
           auth'.launch.id \in {auth.launch.id, 0}, LaunchOK',
           loc'[h].launch \in {loc[h].launch, auth.launch.id},
           \A r \in runs' : r \in runs \/ r.token = loc[h].launch,
           \A k \in kills' : k \in kills \/ k.vm \in {loc[h].launch, auth.launch.id},
           auth'.gen = auth.gen /\ pc'[h] \in Choosing => pc[h] \in Choosing,
           LocalOK(h)', auth'.holder = h => HolderLaunch(h)',
           pc'[h] = "undo" => vms'[loc'[h].vm].status = "gone",
           pc'[h] = "forget" => vms'[loc'[h].launch].status = "gone"
    PROVE  Names'
<1>1. /\ auth.gen \in 0..MaxGen /\ auth'.gen \in 0..MaxGen /\ MaxGen \in Nat
      /\ \A x \in Handles : x # Nobody
  BY TypeFacts, SessionConstants DEF Names, TypeOK, Authority
<1>2. Named' \subseteq Named \cup {0}
  <2>1. auth.launch.id \in Named /\ loc[h].launch \in Named
    BY DEF Named
  <2>2. \A x \in Handles : loc'[x].launch \in Named \cup {0}
    BY <2>1 DEF Moves, Named
  <2>3. \A r \in runs' : r.token \in Named
    BY <2>1 DEF Named
  <2>4. \A k \in kills' : k.vm \in Named
    BY <2>1 DEF Named
  <2>. QED
    BY <2>1, <2>2, <2>3, <2>4 DEF Named
<1>3. \A g \in Named : g \in Nat
  BY TypeFacts DEF Names, Named, Gens
<1>4. Fresh'
  <2>. SUFFICES ASSUME NEW g \in Named \cup {0}
                PROVE  /\ g <= auth'.gen
                       /\ \A x \in Handles : auth'.holder = x /\ pc'[x] \in Choosing => g < auth'.gen
    BY <1>2 DEF Fresh
  <2>1. /\ g \in Nat /\ g <= auth.gen
        /\ \A x \in Handles : auth.holder = x /\ pc[x] \in Choosing => g < auth.gen
    BY <1>1, <1>3 DEF Names, Fresh, HolderHolds
  <2>2. CASE auth'.gen = auth.gen + 1
    BY <1>1, <2>1, <2>2
  <2>3. CASE auth'.gen = auth.gen /\ auth'.holder \in {auth.holder, Nobody}
    BY <1>1, <2>1, <2>3 DEF Moves
  <2>. QED
    BY <2>2, <2>3 DEF AuthStep
<1>. QED
  BY <1>4, NamesKept

-----------------------------------------------------------------------------
(* Requests *)

\* A step that sends no new request and leaves the recorded one, or ends the launch.
LEMMA RequestsStep ==
    ASSUME Names, Requests, NEW h \in Handles, Moves(h), runs' = runs,
           pc'[h] = "dispatch" => pc[h] = "dispatch" /\ loc'[h].launch = loc[h].launch
                                   /\ loc'[h].activation = loc[h].activation,
           \/ auth'.launch.id = 0
           \/ /\ auth'.launch.id = auth.launch.id /\ auth'.launch.config = auth.launch.config
              /\ auth'.launch.activation = auth.launch.activation
    PROVE  Requests'
<1>1. Orders' \subseteq Orders
  <2>1. \A x \in Handles : pc'[x] = "dispatch" =>
          /\ pc[x] = "dispatch" /\ loc'[x].launch = loc[x].launch /\ loc'[x].activation = loc[x].activation
          /\ Config(x)' = Config(x)
    BY DEF Moves, Config
  <2>. QED
    BY <2>1 DEF Orders
<1>2. \A o \in Orders : o.token # 0
  <2>1. /\ \A r \in runs : r.token # 0
        /\ \A x \in Handles : pc[x] = "dispatch" => loc[x].launch # 0
    BY TypeFacts DEF Names, Gens, LocalOK, Launching
  <2>. QED
    BY <2>1 DEF Orders
<1>3. \A o \in Orders : o.token = auth'.launch.id =>
         o.activation = auth'.launch.activation /\ o.config = auth'.launch.config
  BY <1>2 DEF Requests
<1>. QED
  BY <1>1, <1>3 DEF Requests

-----------------------------------------------------------------------------
(* Terminations *)

\* What a step of h that makes no identity adoptable has to keep.
LEMMA TerminationsStep ==
    ASSUME Names, Terminations, NEW h \in Handles, Moves(h), AuthStep(h), VmsStep,
           Adoptable' \in {Adoptable, 0},
           pc'[h] \in Recorded => loc'[h].launch # Adoptable',
           \A k \in kills' :
             \/ k \in kills
             \/ /\ k.by = h /\ k.vm # Adoptable' /\ k.vm # 0
                /\ auth.holder = h \/ (pc[h] \in {"mismatch", "intent", "commit"} /\ k.vm = loc[h].launch),
           pc'[h] \in {"mismatch", "intent", "commit"} =>
             auth.holder = h \/ (pc[h] = pc'[h] /\ loc'[h].launch = loc[h].launch),
           pc'[h] = "deleting" \/ (pc'[h] = "ready" /\ lease'[h] = 0 /\ ~loc'[h].paused) => Doomed(h)',
           auth'.holder = h /\ ~loc'[h].paused /\ pc'[h] \in {"booting", "handoff", "ready", "publish", "commit"} =>
             \/ /\ auth.holder = h /\ ~loc[h].paused /\ loc'[h].vm = loc[h].vm
                /\ pc[h] \in {"booting", "handoff", "ready", "publish", "commit"}
             \/ Doomed(h)' \/ Alone(h)'
    PROVE  Terminations'
<1>1. /\ \A k \in kills : k.vm # 0 /\ k.vm \in Gens
      /\ \A x \in Handles : /\ x # Nobody /\ loc[x].vm \in 0..MaxGen
                            /\ pc[x] \in Recorded => loc[x].launch # 0
                            /\ pc[x] \in Owning => loc[x].vm # 0
  BY TypeFacts, SessionConstants DEF Names, Gens, LocalOK, Recorded, Launching, Owning
<1>2. \A k \in kills' : k.vm # Adoptable'
  BY <1>1 DEF Terminations
<1>3. ASSUME NEW x \in Handles, loc'[x].vm = loc[x].vm, loc[x].vm # 0, Doomed(x) PROVE Doomed(x)'
  <2>1. loc[x].vm \in Gens
    BY <1>1, <1>3 DEF Gens
  <2>2. CASE [by |-> x, vm |-> loc[x].vm] \in kills
    BY <1>3, <2>2 DEF VmsStep, Doomed
  <2>3. CASE vms[loc[x].vm].status = "gone"
    BY <1>3, <2>1, <2>3 DEF VmsStep, Doomed
  <2>. QED
    BY <1>3, <2>2, <2>3 DEF Doomed
<1>4. ASSUME NEW x \in Handles \ {h}
      PROVE  /\ pc'[x] \in Recorded => loc'[x].launch # Adoptable'
             /\ pc'[x] = "deleting" \/ (pc'[x] = "ready" /\ lease'[x] = 0 /\ ~loc'[x].paused) => Doomed(x)'
             /\ auth'.holder = x /\ ~loc'[x].paused /\ pc'[x] \in {"booting", "handoff", "ready", "publish", "commit"}
                => Doomed(x)' \/ Alone(x)'
  <2>1. pc'[x] = pc[x] /\ loc'[x] = loc[x] /\ lease'[x] = lease[x]
    BY DEF Moves
  <2>2. pc'[x] \in Recorded => loc'[x].launch # Adoptable'
    BY <1>1, <2>1 DEF Terminations
  <2>3. pc'[x] = "deleting" \/ (pc'[x] = "ready" /\ lease'[x] = 0 /\ ~loc'[x].paused) => Doomed(x)'
    BY <1>1, <1>3, <2>1 DEF Terminations, Owning
  <2>4. ASSUME auth'.holder = x, ~loc'[x].paused, pc'[x] \in {"booting", "handoff", "ready", "publish", "commit"}
        PROVE  Doomed(x)' \/ Alone(x)'
    <3>1. auth.holder = x /\ auth.holder # h /\ loc[x].vm # 0
      BY <1>1, <2>1, <2>4 DEF AuthStep, Owning
    <3>2. Doomed(x) \/ Alone(x)
      BY <2>1, <2>4, <3>1 DEF Terminations
    <3>3. ASSUME Alone(x) PROVE Alone(x)'
      <4>1. \A k \in kills' : k.vm = loc'[x].vm => k.by = x
        BY <2>1, <3>1, <3>3 DEF Alone
      <4>2. \A y \in Handles \ {x} : pc'[y] \in {"mismatch", "intent", "commit"} => loc'[y].launch # loc'[x].vm
        BY <2>1, <3>1, <3>3 DEF Alone, Moves
      <4>. QED
        BY <4>1, <4>2 DEF Alone
    <3>. QED
      BY <1>3, <2>1, <3>1, <3>2, <3>3
  <2>. QED
    BY <2>2, <2>3, <2>4
<1>5. ASSUME auth'.holder = h, ~loc'[h].paused, pc'[h] \in {"booting", "handoff", "ready", "publish", "commit"}
      PROVE  Doomed(h)' \/ Alone(h)'
  <2>1. CASE /\ auth.holder = h /\ ~loc[h].paused /\ loc'[h].vm = loc[h].vm
             /\ pc[h] \in {"booting", "handoff", "ready", "publish", "commit"}
    <3>1. (Doomed(h) \/ Alone(h)) /\ loc[h].vm # 0
      BY <1>1, <2>1 DEF Terminations, Owning
    <3>2. ASSUME Alone(h) PROVE Alone(h)'
      BY <2>1, <3>2 DEF Alone, Moves
    <3>. QED
      BY <1>3, <2>1, <3>1, <3>2
  <2>. QED
    BY <1>5, <2>1
<1>. QED
  BY <1>2, <1>4, <1>5 DEF Terminations

-----------------------------------------------------------------------------
(* History *)

\* A step of h that uploads and deletes nothing.
LEMMA HistoryStep ==
    ASSUME Names, TypeOK', History, NEW h \in Handles, Moves(h), AuthStep(h),
           UNCHANGED <<objects, origin, uploads>>,
           \A x \in Handles \ {h} : auth.holder = x => \A g \in Gens : vms'[g].content = vms[g].content,
           auth'.metadata.checkpoint \in {0, auth.metadata.checkpoint, loc[h].metadata.checkpoint}
             \/ (auth.holder = h /\ pc[h] = "publish" /\ auth'.metadata = loc[h].pending),
           loc'[h].metadata.checkpoint \in {0, auth.metadata.checkpoint, loc[h].metadata.checkpoint}
             \/ loc'[h].metadata = auth'.metadata,
           CheckpointPresent',
           pc'[h] \in Owning /\ ~loc'[h].paused => lease'[h] # 0,
           auth'.holder = h /\ ~loc'[h].paused => Current(h)',
           \A x \in Handles \ {h} : pc[x] = "erase" /\ loc[x].metadata.checkpoint # 0 =>
             /\ loc[x].metadata.checkpoint # auth'.metadata.checkpoint
             /\ auth'.holder = h /\ pc'[h] = "publish" => loc'[h].pending.checkpoint # loc[x].metadata.checkpoint,
           pc'[h] = "erase" /\ loc'[h].metadata.checkpoint # 0 => Erasing(h)'
    PROVE  History'
<1>1. \A x \in Handles : x # Nobody
  BY SessionConstants
<1>2. /\ uploads \in Nat /\ auth.metadata.checkpoint \in Nat /\ auth'.metadata.checkpoint \in Nat
      /\ \A x \in Handles : /\ loc[x].metadata.checkpoint \in Nat /\ loc'[x].metadata.checkpoint \in Nat
                            /\ loc[x].pending.checkpoint \in Nat
                            /\ loc[x].vm \in 0..MaxGen /\ (pc[x] \in Owning => loc[x].vm # 0)
  <2>1. /\ auth.metadata \in Metadata /\ auth'.metadata \in Metadata
        /\ \A x \in Handles : loc[x].metadata \in Metadata /\ loc'[x].metadata \in Metadata /\ loc[x].pending \in Metadata
    BY TypeFacts DEF Names, TypeOK, Authority, Locals
  <2>. QED
    BY <2>1, TypeFacts, SessionConstants DEF Names, TypeOK, Metadata, LocalOK
<1>3. ASSUME auth.holder = h, pc[h] = "publish" PROVE loc[h].pending.checkpoint <= uploads
  <2>1. ~loc[h].paused
    BY <1>3 DEF Names, LocalOK
  <2>2. loc[h].pending.checkpoint \in objects \cup {0}
    BY <1>3, <2>1 DEF History, Current
  <2>. QED
    BY <1>2, <2>2 DEF History, Uploaded
<1>4. Uploaded'
  <2>1. auth'.metadata.checkpoint <= uploads
    BY <1>2, <1>3 DEF History, Uploaded
  <2>2. loc'[h].metadata.checkpoint <= uploads
    BY <1>2, <2>1 DEF History, Uploaded
  <2>. QED
    BY <2>1, <2>2 DEF History, Uploaded, Moves
<1>5. ASSUME NEW x \in Handles \ {h}
      PROVE  /\ pc'[x] \in Owning /\ ~loc'[x].paused => lease'[x] # 0
             /\ auth'.holder = x /\ ~loc'[x].paused => Current(x)'
             /\ pc'[x] = "erase" /\ loc'[x].metadata.checkpoint # 0 => Erasing(x)'
  <2>1. pc'[x] = pc[x] /\ loc'[x] = loc[x] /\ lease'[x] = lease[x]
    BY DEF Moves
  <2>2. pc'[x] \in Owning /\ ~loc'[x].paused => lease'[x] # 0
    BY <2>1 DEF History
  <2>3. ASSUME auth'.holder = x, ~loc'[x].paused PROVE Current(x)'
    <3>1. auth.holder = x /\ auth.holder # h /\ auth'.metadata = auth.metadata /\ auth'.launch = auth.launch
      BY <1>1, <2>3 DEF AuthStep
    <3>2. Current(x) /\ \A g \in Gens : vms'[g].content = vms[g].content
      BY <2>1, <2>3, <3>1 DEF History
    <3>3. pc[x] \in {"handoff", "ready", "publish", "commit"} => loc[x].vm \in Gens
      BY <1>2, SessionConstants DEF Owning, Gens
    <3>. QED
      BY <2>1, <3>1, <3>2, <3>3 DEF Current
  <2>4. ASSUME pc'[x] = "erase", loc'[x].metadata.checkpoint # 0 PROVE Erasing(x)'
    <3>1. Erasing(x)
      BY <2>1, <2>4 DEF History
    <3>2. loc'[x].metadata.checkpoint # auth'.metadata.checkpoint
      BY <2>1, <2>4
    <3>3. ASSUME NEW y \in Handles, auth'.holder = y, pc'[y] = "publish"
          PROVE  loc'[y].pending.checkpoint # loc'[x].metadata.checkpoint
      <4>1. CASE y = h
        BY <2>1, <2>4, <3>3, <4>1
      <4>2. CASE y # h
        BY <1>1, <2>1, <3>1, <3>3, <4>2 DEF Moves, AuthStep, Erasing
      <4>. QED
        BY <4>1, <4>2
    <3>. QED
      BY <3>2, <3>3 DEF Erasing
  <2>. QED
    BY <2>2, <2>3, <2>4
<1>. QED
  BY <1>4, <1>5 DEF History

-----------------------------------------------------------------------------
(* Steps that only move on, and perhaps send a termination *)

Safe == Names /\ Requests /\ Terminations

\* Which place h goes to decides what has to be shown.
LEMMA QuietStep ==
    ASSUME Safe, NEW h \in Handles, NEW q \in PCs \ {"dispatch", "mismatch", "intent", "commit", "erase", "publish"},
           pc' = [pc EXCEPT ![h] = q],
           UNCHANGED <<world, auth, vms, runs, objects, origin, uploads, lease, loc>>,
           \/ UNCHANGED kills
           \/ \E g \in {loc[h].launch, auth.launch.id} :
                /\ g # 0 /\ g # Adoptable /\ Kill(h, g)
                /\ auth.holder = h \/ (pc[h] \in {"mismatch", "intent", "commit"} /\ g = loc[h].launch),
           q \in Choosing => pc[h] \in Choosing,
           LocalOK(h)', auth.holder = h => HolderLaunch(h)',
           q = "undo" => vms[loc[h].vm].status = "gone",
           q = "forget" => vms[loc[h].launch].status = "gone",
           q \in Recorded => loc[h].launch # Adoptable,
           q = "deleting" \/ (q = "ready" /\ lease[h] = 0 /\ ~loc[h].paused) => Doomed(h)',
           auth.holder = h /\ ~loc[h].paused /\ q \in {"booting", "handoff", "ready"} =>
             pc[h] \in {"booting", "handoff", "ready", "publish", "commit"}
    PROVE  /\ Safe'
           /\ History /\ (q \in Owning /\ ~loc[h].paused => lease[h] # 0)
                      /\ (auth.holder = h /\ ~loc[h].paused => Current(h)') => History'
<1>1. TypeOK /\ Names /\ Requests /\ Terminations
  BY DEF Safe, Names
<1>2. pc' \in [Handles -> PCs] /\ pc'[h] = q /\ \A x \in Handles \ {h} : pc'[x] = pc[x]
  BY <1>1, MoveFacts
<1>3. /\ kills \subseteq kills' /\ kills' \subseteq Kills
      /\ \A k \in kills' :
           \/ k \in kills
           \/ /\ k.by = h /\ k.vm # Adoptable /\ k.vm # 0 /\ k.vm \in {loc[h].launch, auth.launch.id}
              /\ auth.holder = h \/ (pc[h] \in {"mismatch", "intent", "commit"} /\ k.vm = loc[h].launch)
  <2>1. CASE UNCHANGED kills
    BY <1>1, <2>1 DEF TypeOK
  <2>2. ASSUME NEW g \in {loc[h].launch, auth.launch.id},
               g # 0, g # Adoptable, Kill(h, g),
               auth.holder = h \/ (pc[h] \in {"mismatch", "intent", "commit"} /\ g = loc[h].launch)
        PROVE  /\ kills \subseteq kills' /\ kills' \subseteq Kills
               /\ \A k \in kills' : k \in kills \/ (k.by = h /\ k.vm = g)
    <3>1. g \in Gens
      BY <1>1, <2>2, TypeFacts DEF Gens
    <3>. QED
      BY <1>1, <2>2, <3>1, KillFacts
  <2>. QED
    BY <2>1, <2>2
<1>4. TypeOK'
  BY <1>1, <1>2, <1>3 DEF TypeOK
<1>5. Moves(h) /\ AuthStep(h) /\ VmsStep /\ Adoptable' = Adoptable
  BY <1>2, <1>3 DEF Moves, AuthStep, VmsStep, Adoptable
<1>6. Names'
  <2>1. auth'.holder = h => lease'[h] = auth'.gen
    BY <1>1 DEF Names, HolderHolds
  <2>2. LaunchOK'
    BY <1>1 DEF Names, LaunchOK
  <2>. QED
    BY <1>1, <1>2, <1>3, <1>4, <1>5, <2>1, <2>2, NamesStep
<1>7. Requests'
  BY <1>1, <1>2, <1>5, RequestsStep
<1>8. Terminations'
  BY <1>1, <1>2, <1>3, <1>5, TerminationsStep
<1>9. ASSUME History, q \in Owning /\ ~loc[h].paused => lease[h] # 0,
             auth.holder = h /\ ~loc[h].paused => Current(h)'
      PROVE  History'
  <2>1. CheckpointPresent'
    BY <1>9 DEF History, CheckpointPresent
  <2>2. \A x \in Handles \ {h} : pc[x] = "erase" /\ loc[x].metadata.checkpoint # 0 =>
          loc[x].metadata.checkpoint # auth'.metadata.checkpoint
    BY <1>9 DEF History, Erasing
  <2>. QED
    BY <1>1, <1>2, <1>4, <1>5, <1>9, <2>1, <2>2, HistoryStep
<1>. QED
  BY <1>6, <1>7, <1>8, <1>9 DEF Safe

\* What is known of one handle.
LEMMA HandleFacts ==
    ASSUME Safe, NEW h \in Handles
    PROVE  /\ TypeOK /\ LocalOK(h) /\ LaunchOK /\ (auth.holder = h => HolderLaunch(h))
           /\ (Held(h) <=> auth.holder = h) /\ (auth.holder = h => lease[h] # 0)
           /\ loc[h].launch \in 0..MaxGen /\ loc[h].vm \in 0..MaxGen /\ auth.launch.id \in 0..MaxGen
           /\ loc[h].paused \in BOOLEAN /\ pc[h] \in PCs /\ MaxGen \in Nat /\ h # Nobody
           /\ pc[h] \in Recorded => loc[h].launch # Adoptable
           /\ pc[h] = "undo" => vms[loc[h].vm].status = "gone"
           /\ pc[h] = "forget" => vms[loc[h].launch].status = "gone"
<1>1. TypeOK /\ HolderHolds
  BY DEF Safe, Names
<1>2. (Held(h) <=> auth.holder = h) /\ (auth.holder = h => lease[h] # 0)
  BY <1>1 DEF Held, HolderHolds
<1>. QED
  BY <1>1, <1>2, TypeFacts, SessionConstants DEF Safe, Names, Terminations

LEMMA PreviousRetiredKeeps ==
    ASSUME Safe, NEW h \in Handles, PreviousRetired(h)
    PROVE  Safe' /\ (History => History')
<1>1. /\ pc[h] = "retiring" /\ vms[loc[h].launch].status = "gone" /\ pc' = [pc EXCEPT ![h] = "identify"]
      /\ UNCHANGED <<world, auth, vms, runs, kills, objects, origin, uploads, lease, loc>>
  BY DEF PreviousRetired, Confirmed
<1>2. /\ TypeOK /\ LocalOK(h) /\ LaunchOK /\ (auth.holder = h => HolderLaunch(h))
      /\ (Held(h) <=> auth.holder = h) /\ (auth.holder = h => lease[h] # 0)
      /\ pc[h] \in Recorded => loc[h].launch # Adoptable
  BY HandleFacts
<1>3. pc'[h] = "identify" /\ "identify" \in PCs
  BY <1>1, <1>2 DEF TypeOK, PCs
<1>4. LocalOK(h)' /\ (auth.holder = h => HolderLaunch(h)')
  BY <1>1, <1>2, <1>3 DEF LocalOK, HolderLaunch, Choosing, Launching, Owning, Creating
<1>6. ASSUME History
      PROVE  /\ "identify" \in Owning /\ ~loc[h].paused => lease[h] # 0
             /\ auth.holder = h /\ ~loc[h].paused => Current(h)'
  <2>1. /\ pc[h] \in Owning /\ ~loc[h].paused => lease[h] # 0
        /\ auth.holder = h /\ ~loc[h].paused => Current(h)
    BY <1>6 DEF History
  <2>. QED
    BY <1>1, <1>2, <1>3, <2>1 DEF Current, LocalOK, HolderLaunch, Launching, Owning, Creating
<1>. QED
  BY <1>1, <1>2, <1>3, <1>4, <1>6, QuietStep DEF LocalOK, Choosing, Recorded, Launching, Owning

LEMMA MismatchedKeeps ==
    ASSUME Safe, NEW h \in Handles, Mismatched(h)
    PROVE  Safe' /\ (History => History')
<1>1. /\ pc[h] = "running" /\ pc' = [pc EXCEPT ![h] = "mismatched"]
      /\ UNCHANGED <<world, auth, vms, runs, kills, objects, origin, uploads, lease, loc>>
  BY DEF Mismatched
<1>2. /\ TypeOK /\ LocalOK(h) /\ LaunchOK /\ (auth.holder = h => HolderLaunch(h))
      /\ (Held(h) <=> auth.holder = h) /\ (auth.holder = h => lease[h] # 0)
      /\ pc[h] \in Recorded => loc[h].launch # Adoptable
  BY HandleFacts
<1>3. pc'[h] = "mismatched" /\ "mismatched" \in PCs
  BY <1>1, <1>2 DEF TypeOK, PCs
<1>4. LocalOK(h)' /\ (auth.holder = h => HolderLaunch(h)')
  BY <1>1, <1>2, <1>3 DEF LocalOK, HolderLaunch, Choosing, Launching, Owning, Creating
<1>6. ASSUME History
      PROVE  /\ "mismatched" \in Owning /\ ~loc[h].paused => lease[h] # 0
             /\ auth.holder = h /\ ~loc[h].paused => Current(h)'
  <2>1. /\ pc[h] \in Owning /\ ~loc[h].paused => lease[h] # 0
        /\ auth.holder = h /\ ~loc[h].paused => Current(h)
    BY <1>6 DEF History
  <2>. QED
    BY <1>1, <1>2, <1>3, <2>1 DEF Current, LocalOK, HolderLaunch, Launching, Owning, Creating
<1>. QED
  BY <1>1, <1>2, <1>3, <1>4, <1>6, QuietStep DEF LocalOK, Choosing, Recorded, Launching, Owning

LEMMA MismatchKillKeeps ==
    ASSUME Safe, NEW h \in Handles, MismatchKill(h)
    PROVE  Safe' /\ (History => History')
<1>1. /\ pc[h] = "mismatch" /\ pc' = [pc EXCEPT ![h] = "rejected"]
      /\ UNCHANGED <<world, auth, vms, runs, objects, origin, uploads, lease, loc>>
      /\ Kill(h, loc[h].launch)
  BY DEF MismatchKill
<1>2. /\ TypeOK /\ LocalOK(h) /\ LaunchOK /\ (auth.holder = h => HolderLaunch(h))
      /\ (Held(h) <=> auth.holder = h) /\ (auth.holder = h => lease[h] # 0)
      /\ pc[h] \in Recorded => loc[h].launch # Adoptable
  BY HandleFacts
<1>3. pc'[h] = "rejected" /\ "rejected" \in PCs
  BY <1>1, <1>2 DEF TypeOK, PCs
<1>4. LocalOK(h)' /\ (auth.holder = h => HolderLaunch(h)')
  BY <1>1, <1>2, <1>3 DEF LocalOK, HolderLaunch, Choosing, Launching, Owning, Creating
<1>5. loc[h].launch # 0 /\ loc[h].launch # Adoptable /\ Kill(h, loc[h].launch)
  BY <1>1, <1>2 DEF LocalOK, Launching, Owning, Recorded
<1>6. ASSUME History
      PROVE  /\ "rejected" \in Owning /\ ~loc[h].paused => lease[h] # 0
             /\ auth.holder = h /\ ~loc[h].paused => Current(h)'
  <2>1. /\ pc[h] \in Owning /\ ~loc[h].paused => lease[h] # 0
        /\ auth.holder = h /\ ~loc[h].paused => Current(h)
    BY <1>6 DEF History
  <2>. QED
    BY <1>1, <1>2, <1>3, <2>1 DEF Current, LocalOK, HolderLaunch, Launching, Owning, Creating
<1>. QED
  BY <1>1, <1>2, <1>3, <1>4, <1>5, <1>6, QuietStep DEF LocalOK, Choosing, Recorded, Launching, Owning

LEMMA HandoffKeeps ==
    ASSUME Safe, NEW h \in Handles, Handoff(h)
    PROVE  Safe' /\ (History => History')
<1>1. /\ pc[h] = "handoff" /\ Held(h) /\ pc' = [pc EXCEPT ![h] = "ready"]
      /\ UNCHANGED <<world, auth, vms, runs, kills, objects, origin, uploads, lease, loc>>
  BY DEF Handoff
<1>2. /\ TypeOK /\ LocalOK(h) /\ LaunchOK /\ (auth.holder = h => HolderLaunch(h))
      /\ (Held(h) <=> auth.holder = h) /\ (auth.holder = h => lease[h] # 0)
      /\ pc[h] \in Recorded => loc[h].launch # Adoptable
  BY HandleFacts
<1>3. pc'[h] = "ready" /\ "ready" \in PCs
  BY <1>1, <1>2 DEF TypeOK, PCs
<1>4. LocalOK(h)' /\ (auth.holder = h => HolderLaunch(h)')
  BY <1>1, <1>2, <1>3 DEF LocalOK, HolderLaunch, Choosing, Launching, Owning, Creating
<1>6. ASSUME History
      PROVE  /\ "ready" \in Owning /\ ~loc[h].paused => lease[h] # 0
             /\ auth.holder = h /\ ~loc[h].paused => Current(h)'
  <2>1. /\ pc[h] \in Owning /\ ~loc[h].paused => lease[h] # 0
        /\ auth.holder = h /\ ~loc[h].paused => Current(h)
    BY <1>6 DEF History
  <2>. QED
    BY <1>1, <1>2, <1>3, <2>1 DEF Current, LocalOK, HolderLaunch, Launching, Owning, Creating
<1>. QED
  BY <1>1, <1>2, <1>3, <1>4, <1>6, QuietStep DEF LocalOK, Choosing, Recorded, Launching, Owning

LEMMA BootFailsKeeps ==
    ASSUME Safe, NEW h \in Handles, BootFails(h)
    PROVE  Safe' /\ (History => History')
<1>1. /\ pc[h] = "booting" /\ Held(h) /\ pc' = [pc EXCEPT ![h] = "abandon"]
      /\ UNCHANGED <<world, auth, vms, runs, objects, origin, uploads, lease, loc>>
      /\ Kill(h, loc[h].vm)
  BY DEF BootFails
<1>2. /\ TypeOK /\ LocalOK(h) /\ LaunchOK /\ (auth.holder = h => HolderLaunch(h))
      /\ (Held(h) <=> auth.holder = h) /\ (auth.holder = h => lease[h] # 0)
      /\ pc[h] \in Recorded => loc[h].launch # Adoptable
  BY HandleFacts
<1>3. pc'[h] = "abandon" /\ "abandon" \in PCs
  BY <1>1, <1>2 DEF TypeOK, PCs
<1>4. LocalOK(h)' /\ (auth.holder = h => HolderLaunch(h)')
  BY <1>1, <1>2, <1>3 DEF LocalOK, HolderLaunch, Choosing, Launching, Owning, Creating
<1>5. loc[h].launch # 0 /\ loc[h].launch # Adoptable /\ Kill(h, loc[h].launch)
  BY <1>1, <1>2 DEF LocalOK, Launching, Owning, Recorded
<1>6. ASSUME History
      PROVE  /\ "abandon" \in Owning /\ ~loc[h].paused => lease[h] # 0
             /\ auth.holder = h /\ ~loc[h].paused => Current(h)'
  <2>1. /\ pc[h] \in Owning /\ ~loc[h].paused => lease[h] # 0
        /\ auth.holder = h /\ ~loc[h].paused => Current(h)
    BY <1>6 DEF History
  <2>. QED
    BY <1>1, <1>2, <1>3, <2>1 DEF Current, LocalOK, HolderLaunch, Launching, Owning, Creating
<1>. QED
  BY <1>1, <1>2, <1>3, <1>4, <1>5, <1>6, QuietStep DEF LocalOK, Choosing, Recorded, Launching, Owning

LEMMA AbandonedKeeps ==
    ASSUME Safe, NEW h \in Handles, Abandoned(h)
    PROVE  Safe' /\ (History => History')
<1>1. /\ pc[h] = "abandon" /\ vms[loc[h].vm].status = "gone" /\ pc' = [pc EXCEPT ![h] = "undo"]
      /\ UNCHANGED <<world, auth, vms, runs, kills, objects, origin, uploads, lease, loc>>
  BY DEF Abandoned, Confirmed
<1>2. /\ TypeOK /\ LocalOK(h) /\ LaunchOK /\ (auth.holder = h => HolderLaunch(h))
      /\ (Held(h) <=> auth.holder = h) /\ (auth.holder = h => lease[h] # 0)
      /\ pc[h] \in Recorded => loc[h].launch # Adoptable
  BY HandleFacts
<1>3. pc'[h] = "undo" /\ "undo" \in PCs
  BY <1>1, <1>2 DEF TypeOK, PCs
<1>4. LocalOK(h)' /\ (auth.holder = h => HolderLaunch(h)')
  BY <1>1, <1>2, <1>3 DEF LocalOK, HolderLaunch, Choosing, Launching, Owning, Creating
<1>6. ASSUME History
      PROVE  /\ "undo" \in Owning /\ ~loc[h].paused => lease[h] # 0
             /\ auth.holder = h /\ ~loc[h].paused => Current(h)'
  <2>1. /\ pc[h] \in Owning /\ ~loc[h].paused => lease[h] # 0
        /\ auth.holder = h /\ ~loc[h].paused => Current(h)
    BY <1>6 DEF History
  <2>. QED
    BY <1>1, <1>2, <1>3, <2>1 DEF Current, LocalOK, HolderLaunch, Launching, Owning, Creating
<1>. QED
  BY <1>1, <1>2, <1>3, <1>4, <1>6, QuietStep DEF LocalOK, Choosing, Recorded, Launching, Owning

LEMMA CleanKillKeeps ==
    ASSUME Safe, NEW h \in Handles, CleanKill(h)
    PROVE  Safe' /\ (History => History')
<1>1. /\ pc[h] = "intent" /\ pc' = [pc EXCEPT ![h] = "cleaning"]
      /\ UNCHANGED <<world, auth, vms, runs, objects, origin, uploads, lease, loc>>
      /\ Kill(h, loc[h].launch)
  BY DEF CleanKill
<1>2. /\ TypeOK /\ LocalOK(h) /\ LaunchOK /\ (auth.holder = h => HolderLaunch(h))
      /\ (Held(h) <=> auth.holder = h) /\ (auth.holder = h => lease[h] # 0)
      /\ pc[h] \in Recorded => loc[h].launch # Adoptable
  BY HandleFacts
<1>3. pc'[h] = "cleaning" /\ "cleaning" \in PCs
  BY <1>1, <1>2 DEF TypeOK, PCs
<1>4. LocalOK(h)' /\ (auth.holder = h => HolderLaunch(h)')
  BY <1>1, <1>2, <1>3 DEF LocalOK, HolderLaunch, Choosing, Launching, Owning, Creating
<1>5. loc[h].launch # 0 /\ loc[h].launch # Adoptable /\ Kill(h, loc[h].launch)
  BY <1>1, <1>2 DEF LocalOK, Launching, Owning, Recorded
<1>6. ASSUME History
      PROVE  /\ "cleaning" \in Owning /\ ~loc[h].paused => lease[h] # 0
             /\ auth.holder = h /\ ~loc[h].paused => Current(h)'
  <2>1. /\ pc[h] \in Owning /\ ~loc[h].paused => lease[h] # 0
        /\ auth.holder = h /\ ~loc[h].paused => Current(h)
    BY <1>6 DEF History
  <2>. QED
    BY <1>1, <1>2, <1>3, <2>1 DEF Current, LocalOK, HolderLaunch, Launching, Owning, Creating
<1>. QED
  BY <1>1, <1>2, <1>3, <1>4, <1>5, <1>6, QuietStep DEF LocalOK, Choosing, Recorded, Launching, Owning

LEMMA CleanConfirmedKeeps ==
    ASSUME Safe, NEW h \in Handles, CleanConfirmed(h)
    PROVE  Safe' /\ (History => History')
<1>1. /\ pc[h] = "cleaning" /\ vms[loc[h].launch].status = "gone" /\ pc' = [pc EXCEPT ![h] = "forget"]
      /\ UNCHANGED <<world, auth, vms, runs, kills, objects, origin, uploads, lease, loc>>
  BY DEF CleanConfirmed, Confirmed
<1>2. /\ TypeOK /\ LocalOK(h) /\ LaunchOK /\ (auth.holder = h => HolderLaunch(h))
      /\ (Held(h) <=> auth.holder = h) /\ (auth.holder = h => lease[h] # 0)
      /\ pc[h] \in Recorded => loc[h].launch # Adoptable
  BY HandleFacts
<1>3. pc'[h] = "forget" /\ "forget" \in PCs
  BY <1>1, <1>2 DEF TypeOK, PCs
<1>4. LocalOK(h)' /\ (auth.holder = h => HolderLaunch(h)')
  BY <1>1, <1>2, <1>3 DEF LocalOK, HolderLaunch, Choosing, Launching, Owning, Creating
<1>6. ASSUME History
      PROVE  /\ "forget" \in Owning /\ ~loc[h].paused => lease[h] # 0
             /\ auth.holder = h /\ ~loc[h].paused => Current(h)'
  <2>1. /\ pc[h] \in Owning /\ ~loc[h].paused => lease[h] # 0
        /\ auth.holder = h /\ ~loc[h].paused => Current(h)
    BY <1>6 DEF History
  <2>. QED
    BY <1>1, <1>2, <1>3, <2>1 DEF Current, LocalOK, HolderLaunch, Launching, Owning, Creating
<1>. QED
  BY <1>1, <1>2, <1>3, <1>4, <1>6, QuietStep DEF LocalOK, Choosing, Recorded, Launching, Owning

LEMMA PublishFailsKeeps ==
    ASSUME Safe, NEW h \in Handles, PublishFails(h)
    PROVE  Safe' /\ (History => History')
<1>1. /\ pc[h] = "publish" /\ ~Held(h) /\ pc' = [pc EXCEPT ![h] = "ready"]
      /\ UNCHANGED <<world, auth, vms, runs, kills, objects, origin, uploads, lease, loc>>
  BY DEF PublishFails
<1>2. /\ TypeOK /\ LocalOK(h) /\ LaunchOK /\ (auth.holder = h => HolderLaunch(h))
      /\ (Held(h) <=> auth.holder = h) /\ (auth.holder = h => lease[h] # 0)
      /\ pc[h] \in Recorded => loc[h].launch # Adoptable
  BY HandleFacts
<1>3. pc'[h] = "ready" /\ "ready" \in PCs
  BY <1>1, <1>2 DEF TypeOK, PCs
<1>4. LocalOK(h)' /\ (auth.holder = h => HolderLaunch(h)')
  BY <1>1, <1>2, <1>3 DEF LocalOK, HolderLaunch, Choosing, Launching, Owning, Creating
<1>6. ASSUME History
      PROVE  /\ "ready" \in Owning /\ ~loc[h].paused => lease[h] # 0
             /\ auth.holder = h /\ ~loc[h].paused => Current(h)'
  <2>1. /\ pc[h] \in Owning /\ ~loc[h].paused => lease[h] # 0
        /\ auth.holder = h /\ ~loc[h].paused => Current(h)
    BY <1>6 DEF History
  <2>. QED
    BY <1>1, <1>2, <1>3, <2>1 DEF Current, LocalOK, HolderLaunch, Launching, Owning, Creating
<1>. QED
  BY <1>1, <1>2, <1>3, <1>4, <1>6, QuietStep DEF LocalOK, Choosing, Recorded, Launching, Owning

LEMMA CommitFailsKeeps ==
    ASSUME Safe, NEW h \in Handles, CommitFails(h)
    PROVE  Safe' /\ (History => History')
<1>1. /\ pc[h] = "commit" /\ pc' = [pc EXCEPT ![h] = "ready"]
      /\ UNCHANGED <<world, auth, vms, runs, kills, objects, origin, uploads, lease, loc>>
  BY DEF CommitFails
<1>2. /\ TypeOK /\ LocalOK(h) /\ LaunchOK /\ (auth.holder = h => HolderLaunch(h))
      /\ (Held(h) <=> auth.holder = h) /\ (auth.holder = h => lease[h] # 0)
      /\ pc[h] \in Recorded => loc[h].launch # Adoptable
  BY HandleFacts
<1>3. pc'[h] = "ready" /\ "ready" \in PCs
  BY <1>1, <1>2 DEF TypeOK, PCs
<1>4. LocalOK(h)' /\ (auth.holder = h => HolderLaunch(h)')
  BY <1>1, <1>2, <1>3 DEF LocalOK, HolderLaunch, Choosing, Launching, Owning, Creating
<1>6. ASSUME History
      PROVE  /\ "ready" \in Owning /\ ~loc[h].paused => lease[h] # 0
             /\ auth.holder = h /\ ~loc[h].paused => Current(h)'
  <2>1. /\ pc[h] \in Owning /\ ~loc[h].paused => lease[h] # 0
        /\ auth.holder = h /\ ~loc[h].paused => Current(h)
    BY <1>6 DEF History
  <2>. QED
    BY <1>1, <1>2, <1>3, <2>1 DEF Current, LocalOK, HolderLaunch, Launching, Owning, Creating
<1>. QED
  BY <1>1, <1>2, <1>3, <1>4, <1>6, QuietStep DEF LocalOK, Choosing, Recorded, Launching, Owning

LEMMA TerminateFailsKeeps ==
    ASSUME Safe, NEW h \in Handles, TerminateFails(h)
    PROVE  Safe' /\ (History => History')
<1>1. /\ pc[h] = "terminating" /\ pc' = [pc EXCEPT ![h] = "ready"]
      /\ UNCHANGED <<world, auth, vms, runs, kills, objects, origin, uploads, lease, loc>>
  BY DEF TerminateFails
<1>2. /\ TypeOK /\ LocalOK(h) /\ LaunchOK /\ (auth.holder = h => HolderLaunch(h))
      /\ (Held(h) <=> auth.holder = h) /\ (auth.holder = h => lease[h] # 0)
      /\ pc[h] \in Recorded => loc[h].launch # Adoptable
  BY HandleFacts
<1>3. pc'[h] = "ready" /\ "ready" \in PCs
  BY <1>1, <1>2 DEF TypeOK, PCs
<1>4. LocalOK(h)' /\ (auth.holder = h => HolderLaunch(h)')
  BY <1>1, <1>2, <1>3 DEF LocalOK, HolderLaunch, Choosing, Launching, Owning, Creating
<1>6. ASSUME History
      PROVE  /\ "ready" \in Owning /\ ~loc[h].paused => lease[h] # 0
             /\ auth.holder = h /\ ~loc[h].paused => Current(h)'
  <2>1. /\ pc[h] \in Owning /\ ~loc[h].paused => lease[h] # 0
        /\ auth.holder = h /\ ~loc[h].paused => Current(h)
    BY <1>6 DEF History
  <2>. QED
    BY <1>1, <1>2, <1>3, <2>1 DEF Current, LocalOK, HolderLaunch, Launching, Owning, Creating
<1>. QED
  BY <1>1, <1>2, <1>3, <1>4, <1>6, QuietStep DEF LocalOK, Choosing, Recorded, Launching, Owning

LEMMA CrashKeeps ==
    ASSUME Safe, NEW h \in Handles, Crash(h)
    PROVE  Safe' /\ (History => History')
<1>1. /\ pc[h] \notin {"idle", "over"} /\ pc' = [pc EXCEPT ![h] = "over"]
      /\ UNCHANGED <<world, auth, vms, runs, kills, objects, origin, uploads, lease, loc>>
  BY DEF Crash
<1>2. /\ TypeOK /\ LocalOK(h) /\ LaunchOK /\ (auth.holder = h => HolderLaunch(h))
      /\ (Held(h) <=> auth.holder = h) /\ (auth.holder = h => lease[h] # 0)
      /\ pc[h] \in Recorded => loc[h].launch # Adoptable
  BY HandleFacts
<1>3. pc'[h] = "over" /\ "over" \in PCs
  BY <1>1, <1>2 DEF TypeOK, PCs
<1>4. LocalOK(h)' /\ (auth.holder = h => HolderLaunch(h)')
  BY <1>1, <1>2, <1>3 DEF LocalOK, HolderLaunch, Choosing, Launching, Owning, Creating
<1>6. ASSUME History
      PROVE  /\ "over" \in Owning /\ ~loc[h].paused => lease[h] # 0
             /\ auth.holder = h /\ ~loc[h].paused => Current(h)'
  <2>1. /\ pc[h] \in Owning /\ ~loc[h].paused => lease[h] # 0
        /\ auth.holder = h /\ ~loc[h].paused => Current(h)
    BY <1>6 DEF History
  <2>. QED
    BY <1>1, <1>2, <1>3, <2>1 DEF Current, LocalOK, HolderLaunch, Launching, Owning, Creating
<1>. QED
  BY <1>1, <1>2, <1>3, <1>4, <1>6, QuietStep DEF LocalOK, Choosing, Recorded, Launching, Owning

-----------------------------------------------------------------------------
(* The lease is acquired *)

LEMMA AcquireKeeps ==
    ASSUME Safe, NEW h \in Handles, Acquire(h)
    PROVE  Safe' /\ (History => History')
<1>. DEFINE l == [loc[h] EXCEPT !.metadata = auth.metadata]
<1>1. /\ pc[h] = "idle" /\ Free /\ auth' = Taken(h) /\ lease' = [lease EXCEPT ![h] = auth.gen + 1]
      /\ pc' = [pc EXCEPT ![h] = "leased"] /\ UNCHANGED <<world, vms, runs, kills, objects, origin, uploads>>
  BY DEF Acquire
<1>2. Names /\ Requests /\ Terminations /\ TypeOK /\ LocalOK(h) /\ LaunchOK
  BY HandleFacts DEF Safe
<1>3. /\ l \in Locals /\ l.metadata = auth.metadata /\ l.launch = loc[h].launch /\ l.vm = loc[h].vm
      /\ l.activation = loc[h].activation /\ l.paused = loc[h].paused /\ loc' = [loc EXCEPT ![h] = l]
  BY <1>2, TypeFacts DEF Acquire, Locals, TypeOK
<1>. HIDE DEF l
<1>4. loc' \in [Handles -> Locals] /\ loc'[h] = l /\ \A x \in Handles \ {h} : loc'[x] = loc[x]
  BY <1>2, <1>3 DEF TypeOK
<1>5. /\ auth' \in Authority /\ auth'.gen = auth.gen + 1 /\ auth'.holder = h
      /\ auth'.metadata = auth.metadata /\ auth'.launch = auth.launch
      /\ lease' \in [Handles -> 0..Broken] /\ lease'[h] = auth'.gen
      /\ \A x \in Handles \ {h} : lease'[x] = lease[x]
      /\ auth.holder = Nobody /\ auth.holder # h
  BY <1>1, <1>2, TakeFacts
<1>6. pc' \in [Handles -> PCs] /\ pc'[h] = "leased" /\ \A x \in Handles \ {h} : pc'[x] = pc[x]
  BY <1>1, <1>2, MoveFacts DEF PCs
<1>7. TypeOK'
  BY <1>1, <1>2, <1>4, <1>5, <1>6 DEF TypeOK
<1>8. Moves(h) /\ AuthStep(h) /\ VmsStep
  BY <1>1, <1>4, <1>5, <1>6 DEF Moves, AuthStep, VmsStep
<1>9. LocalOK(h)' /\ HolderLaunch(h)' /\ LaunchOK'
  BY <1>1, <1>2, <1>3, <1>4, <1>5, <1>6 DEF LocalOK, HolderLaunch, LaunchOK, Choosing, Launching, Owning, Creating
<1>10. auth.gen \in Nat
  BY <1>2, TypeFacts
<1>11. Names'
  BY <1>1, <1>2, <1>3, <1>4, <1>5, <1>6, <1>7, <1>8, <1>9, <1>10, NamesStep
<1>12. Requests'
  BY <1>1, <1>2, <1>5, <1>6, <1>8, RequestsStep
<1>13. Terminations'
  <2>1. Adoptable' = Adoptable
    BY <1>5 DEF Adoptable
  <2>. QED
    BY <1>1, <1>2, <1>6, <1>8, <2>1, TerminationsStep DEF Recorded
<1>14. ASSUME History PROVE History'
  <2>1. CheckpointPresent'
    BY <1>1, <1>5, <1>14 DEF History, CheckpointPresent
  <2>2. Current(h)'
    BY <1>3, <1>4, <1>5, <1>6 DEF Current
  <2>3. \A x \in Handles \ {h} : pc[x] = "erase" /\ loc[x].metadata.checkpoint # 0 =>
          loc[x].metadata.checkpoint # auth'.metadata.checkpoint
    BY <1>5, <1>14 DEF History, Erasing
  <2>. QED
    BY <1>1, <1>2, <1>3, <1>4, <1>5, <1>6, <1>7, <1>8, <1>14, <2>1, <2>2, <2>3, HistoryStep DEF Owning
<1>. QED
  BY <1>11, <1>12, <1>13, <1>14 DEF Safe

\* retireLateLaunch() and ensureLease(): a handle that has been there before.
LEMMA RetakeKeeps ==
    ASSUME Safe, NEW h \in Handles, Free, auth' = Taken(h), lease' = [lease EXCEPT ![h] = auth.gen + 1],
           UNCHANGED <<world, vms, runs, kills, objects, origin, uploads, loc>>,
           \/ pc[h] = "late" /\ pc' = [pc EXCEPT ![h] = "cleanup"]
           \/ pc[h] = "ready" /\ lease[h] = 0 /\ pc' = pc
    PROVE  Safe' /\ (History => History')
<1>1. /\ Names /\ Requests /\ Terminations /\ TypeOK /\ LocalOK(h) /\ LaunchOK /\ auth.gen \in Nat
      /\ pc[h] \in Recorded => loc[h].launch # Adoptable
  BY HandleFacts, TypeFacts DEF Safe
<1>2. /\ auth' \in Authority /\ auth'.gen = auth.gen + 1 /\ auth'.holder = h
      /\ auth'.metadata = auth.metadata /\ auth'.launch = auth.launch
      /\ lease' \in [Handles -> 0..Broken] /\ lease'[h] = auth'.gen
      /\ \A x \in Handles \ {h} : lease'[x] = lease[x]
      /\ auth.holder = Nobody /\ auth.holder # h
  BY <1>1, TakeFacts
<1>3. /\ pc' \in [Handles -> PCs] /\ \A x \in Handles \ {h} : pc'[x] = pc[x]
      /\ (pc[h] = "late" /\ pc'[h] = "cleanup") \/ (pc[h] = "ready" /\ pc'[h] = "ready" /\ lease[h] = 0)
  BY <1>1 DEF TypeOK, PCs
<1>4. TypeOK'
  BY <1>1, <1>2, <1>3 DEF TypeOK
<1>5. Moves(h) /\ AuthStep(h) /\ VmsStep /\ Adoptable' = Adoptable
  BY <1>2, <1>3 DEF Moves, AuthStep, VmsStep, Adoptable
<1>6. LocalOK(h)' /\ HolderLaunch(h)' /\ LaunchOK'
  BY <1>1, <1>2, <1>3 DEF LocalOK, HolderLaunch, LaunchOK, Choosing, Launching, Owning, Creating
<1>7. Names'
  BY <1>1, <1>2, <1>3, <1>4, <1>5, <1>6, NamesStep DEF Choosing
<1>8. Requests'
  BY <1>1, <1>2, <1>3, <1>5, RequestsStep
<1>9. Terminations'
  <2>1. pc[h] = "ready" /\ ~loc[h].paused => Doomed(h)
    BY <1>1, <1>3 DEF Terminations
  <2>2. pc[h] = "ready" /\ ~loc[h].paused => Doomed(h)'
    BY <2>1 DEF Doomed
  <2>. QED
    BY <1>1, <1>2, <1>3, <1>5, <2>2, TerminationsStep DEF Recorded
<1>10. ASSUME History PROVE History'
  <2>1. CheckpointPresent'
    BY <1>2, <1>10 DEF History, CheckpointPresent
  <2>2. pc[h] = "ready" => loc[h].paused
    BY <1>3, <1>10 DEF History, Owning
  <2>3. ~loc[h].paused => Current(h)'
    BY <1>3, <2>2 DEF Current, Creating
  <2>4. \A x \in Handles \ {h} : pc[x] = "erase" /\ loc[x].metadata.checkpoint # 0 =>
          loc[x].metadata.checkpoint # auth'.metadata.checkpoint
    BY <1>2, <1>10 DEF History, Erasing
  <2>. QED
    BY <1>1, <1>2, <1>3, <1>4, <1>5, <1>10, <2>1, <2>2, <2>3, <2>4, HistoryStep DEF Owning
<1>. QED
  BY <1>7, <1>8, <1>9, <1>10 DEF Safe

LEMMA CleanAcquireKeeps ==
    ASSUME Safe, NEW h \in Handles, CleanAcquire(h)
    PROVE  Safe' /\ (History => History')
<1>1. CASE Free
  BY <1>1, RetakeKeeps DEF CleanAcquire
<1>2. CASE ~Free
  <2>1. /\ pc' = [pc EXCEPT ![h] = "over"]
        /\ UNCHANGED <<world, auth, vms, runs, kills, objects, origin, uploads, lease, loc>>
    BY <1>2 DEF CleanAcquire
  <2>2. TypeOK /\ LocalOK(h)
    BY HandleFacts
  <2>3. pc'[h] = "over" /\ "over" \in PCs
    BY <2>1, <2>2 DEF TypeOK, PCs
  <2>4. LocalOK(h)' /\ HolderLaunch(h)' /\ Current(h)'
    BY <2>1, <2>2, <2>3 DEF LocalOK, HolderLaunch, Current, Choosing, Launching, Owning, Creating
  <2>. QED
    BY <2>1, <2>3, <2>4, QuietStep DEF Choosing, Recorded, Owning
<1>. QED
  BY <1>1, <1>2

LEMMA EnsureLeaseKeeps ==
    ASSUME Safe, NEW h \in Handles, EnsureLease(h)
    PROVE  Safe' /\ (History => History')
  BY RetakeKeeps DEF EnsureLease


-----------------------------------------------------------------------------
(* Steps that change what the handle knows, or what its MicroVM holds *)

LEMMA OwnStep ==
    ASSUME Safe, NEW h \in Handles, NEW l \in Locals,
           NEW q \in PCs \ {"dispatch", "mismatch", "intent", "commit", "erase", "undo", "forget"},
           pc' = [pc EXCEPT ![h] = q], loc' = [loc EXCEPT ![h] = l],
           UNCHANGED <<world, auth, runs, lease>>,
           vms' \in [Gens -> Vms], \A g \in Gens : vms'[g].status = vms[g].status,
           objects' \subseteq Checkpoints, origin' \in [Checkpoints -> 0..MaxCaptures], uploads' \in 0..MaxCaptures,
           \/ UNCHANGED kills
           \/ \E g \in {loc[h].launch, auth.launch.id} :
                /\ g # 0 /\ g # Adoptable /\ Kill(h, g)
                /\ auth.holder = h \/ (pc[h] \in {"mismatch", "intent", "commit"} /\ g = loc[h].launch),
           l.launch \in {loc[h].launch, auth.launch.id},
           q \in Choosing => pc[h] \in Choosing,
           LocalOK(h)', auth.holder = h => HolderLaunch(h)',
           q \in Recorded => l.launch # Adoptable,
           q = "deleting" \/ (q = "ready" /\ lease[h] = 0 /\ ~l.paused) => Doomed(h)',
           auth.holder = h /\ ~l.paused /\ q \in {"booting", "handoff", "ready", "publish"} =>
             /\ ~loc[h].paused /\ l.vm = loc[h].vm
             /\ pc[h] \in {"booting", "handoff", "ready", "publish", "commit"}
    PROVE  Safe'
<1>1. TypeOK /\ Names /\ Requests /\ Terminations
  BY DEF Safe, Names
<1>2. /\ pc' \in [Handles -> PCs] /\ pc'[h] = q /\ \A x \in Handles \ {h} : pc'[x] = pc[x]
      /\ loc' \in [Handles -> Locals] /\ loc'[h] = l /\ \A x \in Handles \ {h} : loc'[x] = loc[x]
  BY <1>1 DEF TypeOK
<1>3. /\ kills \subseteq kills' /\ kills' \subseteq Kills
      /\ \A k \in kills' :
           \/ k \in kills
           \/ /\ k.by = h /\ k.vm # Adoptable /\ k.vm # 0 /\ k.vm \in {loc[h].launch, auth.launch.id}
              /\ auth.holder = h \/ (pc[h] \in {"mismatch", "intent", "commit"} /\ k.vm = loc[h].launch)
  <2>1. CASE UNCHANGED kills
    BY <1>1, <2>1 DEF TypeOK
  <2>2. ASSUME NEW g \in {loc[h].launch, auth.launch.id},
               g # 0, g # Adoptable, Kill(h, g),
               auth.holder = h \/ (pc[h] \in {"mismatch", "intent", "commit"} /\ g = loc[h].launch)
        PROVE  /\ kills \subseteq kills' /\ kills' \subseteq Kills
               /\ \A k \in kills' : k \in kills \/ (k.by = h /\ k.vm = g)
    <3>1. g \in Gens
      BY <1>1, <2>2, TypeFacts DEF Gens
    <3>. QED
      BY <1>1, <2>2, <3>1, KillFacts
  <2>. QED
    BY <2>1, <2>2
<1>4. TypeOK'
  BY <1>1, <1>2, <1>3 DEF TypeOK
<1>5. Moves(h) /\ AuthStep(h) /\ VmsStep /\ Adoptable' = Adoptable
  BY <1>2, <1>3 DEF Moves, AuthStep, VmsStep, Adoptable
<1>6. Names'
  <2>1. auth'.holder = h => lease'[h] = auth'.gen
    BY <1>1 DEF Names, HolderHolds
  <2>2. LaunchOK'
    BY <1>1 DEF Names, LaunchOK
  <2>. QED
    BY <1>1, <1>2, <1>3, <1>4, <1>5, <2>1, <2>2, NamesStep
<1>7. Requests'
  BY <1>1, <1>2, <1>5, RequestsStep
<1>8. Terminations'
  BY <1>1, <1>2, <1>3, <1>5, TerminationsStep
<1>. QED
  BY <1>6, <1>7, <1>8 DEF Safe

LEMMA OwnHistory ==
    ASSUME Safe, Safe', History, NEW h \in Handles, NEW l \in Locals, NEW q \in PCs \ {"erase", "publish"},
           pc' = [pc EXCEPT ![h] = q], loc' = [loc EXCEPT ![h] = l],
           UNCHANGED <<world, auth, lease, objects, origin, uploads>>, l.metadata = loc[h].metadata,
           auth.holder = h \/ \A g \in Gens : vms'[g].content = vms[g].content,
           q \in Owning /\ ~l.paused => lease[h] # 0,
           auth.holder = h /\ ~l.paused => Current(h)'
    PROVE  History'
<1>1. TypeOK /\ Names /\ TypeOK'
  BY DEF Safe, Names
<1>2. /\ pc'[h] = q /\ \A x \in Handles \ {h} : pc'[x] = pc[x]
      /\ loc'[h] = l /\ \A x \in Handles \ {h} : loc'[x] = loc[x]
  BY <1>1 DEF TypeOK
<1>3. Moves(h) /\ AuthStep(h)
  BY <1>2 DEF Moves, AuthStep
<1>4. CheckpointPresent'
  BY DEF History, CheckpointPresent
<1>5. \A x \in Handles \ {h} : pc[x] = "erase" /\ loc[x].metadata.checkpoint # 0 =>
        loc[x].metadata.checkpoint # auth'.metadata.checkpoint
  BY DEF History, Erasing
<1>. QED
  BY <1>1, <1>2, <1>3, <1>4, <1>5, HistoryStep

\* A field of one MicroVM changes, but not whether it runs.
LEMMA VmFacts ==
    ASSUME TypeOK, NEW g \in Gens, NEW v \in Vms, v.status = vms[g].status, vms' = [vms EXCEPT ![g] = v]
    PROVE  /\ vms' \in [Gens -> Vms] /\ vms'[g] = v
           /\ \A x \in Gens : vms'[x].status = vms[x].status
           /\ \A x \in Gens : x # g \/ v.content = vms[g].content => vms'[x].content = vms[x].content
  BY DEF TypeOK

LEMMA RetirePreviousKeeps ==
    ASSUME Safe, NEW h \in Handles, RetirePrevious(h)
    PROVE  Safe' /\ (History => History')
<1>. DEFINE l == [loc[h] EXCEPT !.launch = auth.launch.id]
            q == IF auth.launch.recorded THEN "retiring" ELSE "identify"
<1>1. /\ pc[h] = "leased" /\ Held(h) /\ UNCHANGED <<world, auth, vms, runs, objects, origin, uploads, lease>>
      /\ auth.launch.recorded => Kill(h, auth.launch.id) /\ pc' = [pc EXCEPT ![h] = "retiring"]
      /\ ~auth.launch.recorded => UNCHANGED kills /\ pc' = [pc EXCEPT ![h] = "identify"]
  BY DEF RetirePrevious
<1>2. /\ TypeOK /\ LocalOK(h) /\ LaunchOK /\ auth.holder = h /\ auth.launch.id \in 0..MaxGen /\ ~loc[h].paused
      /\ q \in PCs /\ q \in Choosing /\ q \notin Recorded /\ q \notin Owning
      /\ (q = "retiring" <=> auth.launch.recorded) /\ q \in {"retiring", "identify"}
      /\ pc' = [pc EXCEPT ![h] = q]
  BY <1>1, HandleFacts DEF PCs, Choosing, Recorded, Owning, LocalOK, Creating
<1>3. /\ l \in Locals /\ l.launch = auth.launch.id /\ l.vm = loc[h].vm /\ l.metadata = loc[h].metadata
      /\ l.activation = loc[h].activation /\ l.paused = loc[h].paused /\ loc' = [loc EXCEPT ![h] = l]
  BY <1>2, TypeFacts DEF RetirePrevious, Locals, TypeOK
<1>. HIDE DEF l, q
<1>4. pc'[h] = q /\ loc'[h] = l
  BY <1>1, <1>2, <1>3 DEF TypeOK
<1>5. LocalOK(h)' /\ HolderLaunch(h)'
  BY <1>1, <1>2, <1>3, <1>4 DEF LocalOK, HolderLaunch, Choosing, Launching, Owning, Creating
<1>6. auth.launch.recorded => auth.launch.id # 0 /\ auth.launch.id # Adoptable
  BY <1>2 DEF LaunchOK, Adoptable
<1>7. ASSUME History PROVE Current(h)'
  BY <1>1, <1>2, <1>3, <1>4, <1>7 DEF History, Current, Creating
<1>8. /\ vms' \in [Gens -> Vms] /\ \A g \in Gens : vms'[g].status = vms[g].status /\ vms'[g].content = vms[g].content
      /\ objects' \subseteq Checkpoints /\ origin' \in [Checkpoints -> 0..MaxCaptures] /\ uploads' \in 0..MaxCaptures
  BY <1>1, <1>2 DEF TypeOK
<1>9. Safe'
  <2>1. \/ UNCHANGED kills
        \/ \E g \in {loc[h].launch, auth.launch.id} :
             /\ g # 0 /\ g # Adoptable /\ Kill(h, g)
             /\ auth.holder = h \/ (pc[h] \in {"mismatch", "intent", "commit"} /\ g = loc[h].launch)
    BY <1>1, <1>2, <1>6
  <2>2. q \in PCs \ {"dispatch", "mismatch", "intent", "commit", "erase", "undo", "forget", "deleting", "ready"}
    BY <1>2
  <2>. QED
    BY <1>1, <1>2, <1>3, <1>5, <1>8, <2>1, <2>2, OwnStep DEF Choosing
<1>. QED
  BY <1>1, <1>2, <1>3, <1>5, <1>6, <1>7, <1>8, <1>9, OwnHistory

LEMMA LaunchedKeeps ==
    ASSUME Safe, NEW h \in Handles, Launched(h)
    PROVE  Safe' /\ (History => History')
<1>. DEFINE l == [loc[h] EXCEPT !.vm = loc[h].launch]
<1>1. /\ pc[h] = "running" /\ Held(h) /\ pc' = [pc EXCEPT ![h] = "launched"]
      /\ UNCHANGED <<world, auth, vms, runs, kills, objects, origin, uploads, lease>>
  BY DEF Launched
<1>2. /\ TypeOK /\ LocalOK(h) /\ HolderLaunch(h) /\ auth.holder = h /\ lease[h] # 0 /\ "launched" \in PCs
  BY <1>1, HandleFacts DEF PCs
<1>3. /\ l \in Locals /\ l.launch = loc[h].launch /\ l.vm = loc[h].launch /\ l.metadata = loc[h].metadata
      /\ l.activation = loc[h].activation /\ l.paused = loc[h].paused /\ loc' = [loc EXCEPT ![h] = l]
  BY <1>2, TypeFacts DEF Launched, Locals, TypeOK
<1>. HIDE DEF l
<1>4. pc'[h] = "launched" /\ loc'[h] = l
  BY <1>1, <1>2, <1>3 DEF TypeOK
<1>5. LocalOK(h)' /\ HolderLaunch(h)'
  BY <1>1, <1>2, <1>3, <1>4 DEF LocalOK, HolderLaunch, Choosing, Launching, Owning, Creating
<1>7. ASSUME History, ~l.paused PROVE Current(h)'
  BY <1>1, <1>2, <1>3, <1>4, <1>7 DEF History, Current, Creating
<1>8. /\ vms' \in [Gens -> Vms] /\ \A g \in Gens : vms'[g].status = vms[g].status /\ vms'[g].content = vms[g].content
      /\ objects' \subseteq Checkpoints /\ origin' \in [Checkpoints -> 0..MaxCaptures] /\ uploads' \in 0..MaxCaptures
  BY <1>1, <1>2 DEF TypeOK
<1>9. Safe'
  BY <1>1, <1>2, <1>3, <1>5, <1>7, <1>8, OwnStep DEF Choosing, Recorded
<1>. QED
  BY <1>1, <1>2, <1>3, <1>5, <1>7, <1>8, <1>9, OwnHistory DEF Choosing, Recorded

LEMMA StopKeeps ==
    ASSUME Safe, NEW h \in Handles, Stop(h)
    PROVE  Safe' /\ (History => History')
<1>. DEFINE l == [loc[h] EXCEPT !.shutDown = TRUE]
<1>1. /\ pc[h] = "ready" /\ UNCHANGED <<world, auth, vms, runs, kills, objects, origin, uploads, pc, lease>>
  BY DEF Stop
<1>2. /\ TypeOK /\ LocalOK(h) /\ (auth.holder = h => HolderLaunch(h)) /\ loc[h].launch # Adoptable
      /\ (lease[h] = 0 /\ ~loc[h].paused => Doomed(h))
  BY <1>1, HandleFacts DEF Recorded, Safe, Terminations
<1>3. /\ l \in Locals /\ l.launch = loc[h].launch /\ l.vm = loc[h].vm /\ l.metadata = loc[h].metadata
      /\ l.activation = loc[h].activation /\ l.paused = loc[h].paused /\ l.pending = loc[h].pending
      /\ loc' = [loc EXCEPT ![h] = l] /\ pc' = [pc EXCEPT ![h] = "ready"] /\ "ready" \in PCs
  BY <1>1, <1>2, TypeFacts DEF Stop, Locals, TypeOK, PCs
<1>. HIDE DEF l
<1>4. loc'[h] = l
  BY <1>2, <1>3 DEF TypeOK
<1>5. LocalOK(h)' /\ (auth.holder = h => HolderLaunch(h)') /\ (Doomed(h)' <=> Doomed(h))
  BY <1>1, <1>2, <1>3, <1>4 DEF LocalOK, HolderLaunch, Doomed
<1>7. ASSUME History PROVE (auth.holder = h /\ ~l.paused => Current(h)') /\ (~l.paused => lease[h] # 0)
  BY <1>1, <1>2, <1>3, <1>4, <1>7 DEF History, Current, Owning
<1>8. /\ vms' \in [Gens -> Vms] /\ \A g \in Gens : vms'[g].status = vms[g].status /\ vms'[g].content = vms[g].content
      /\ objects' \subseteq Checkpoints /\ origin' \in [Checkpoints -> 0..MaxCaptures] /\ uploads' \in 0..MaxCaptures
  BY <1>1, <1>2 DEF TypeOK
<1>9. Safe'
  BY <1>1, <1>2, <1>3, <1>5, <1>7, <1>8, OwnStep DEF Choosing
<1>. QED
  BY <1>1, <1>2, <1>3, <1>5, <1>7, <1>8, <1>9, OwnHistory DEF Choosing

LEMMA DeleteConfirmedKeeps ==
    ASSUME Safe, NEW h \in Handles, DeleteConfirmed(h)
    PROVE  Safe' /\ (History => History')
<1>. DEFINE l == [loc[h] EXCEPT !.paused = TRUE]
<1>1. /\ pc[h] = "deleting" /\ pc' = [pc EXCEPT ![h] = "unpublish"]
      /\ UNCHANGED <<world, auth, vms, runs, kills, objects, origin, uploads, lease>>
  BY DEF DeleteConfirmed
<1>2. /\ TypeOK /\ LocalOK(h) /\ (auth.holder = h => HolderLaunch(h)) /\ loc[h].launch # Adoptable
      /\ "unpublish" \in PCs
  BY <1>1, HandleFacts DEF Recorded, PCs
<1>3. /\ l \in Locals /\ l.launch = loc[h].launch /\ l.vm = loc[h].vm /\ l.metadata = loc[h].metadata
      /\ l.activation = loc[h].activation /\ l.paused /\ loc' = [loc EXCEPT ![h] = l]
  BY <1>2, TypeFacts DEF DeleteConfirmed, Locals, TypeOK
<1>. HIDE DEF l
<1>4. pc'[h] = "unpublish" /\ loc'[h] = l
  BY <1>1, <1>2, <1>3 DEF TypeOK
<1>5. LocalOK(h)' /\ (auth.holder = h => HolderLaunch(h)')
  BY <1>1, <1>2, <1>3, <1>4 DEF LocalOK, HolderLaunch, Choosing, Launching, Owning, Creating
<1>8. /\ vms' \in [Gens -> Vms] /\ \A g \in Gens : vms'[g].status = vms[g].status /\ vms'[g].content = vms[g].content
      /\ objects' \subseteq Checkpoints /\ origin' \in [Checkpoints -> 0..MaxCaptures] /\ uploads' \in 0..MaxCaptures
  BY <1>1, <1>2 DEF TypeOK
<1>9. Safe'
  BY <1>1, <1>2, <1>3, <1>5, <1>8, OwnStep DEF Choosing
<1>. QED
  BY <1>1, <1>2, <1>3, <1>5, <1>8, <1>9, OwnHistory DEF Choosing

LEMMA DeleteKeeps ==
    ASSUME Safe, NEW h \in Handles, Delete(h)
    PROVE  Safe' /\ (History => History')
<1>1. /\ pc[h] = "ready" /\ Held(h) /\ UNCHANGED <<world, auth, vms, runs, objects, origin, uploads, lease, loc>>
      /\ \/ loc[h].paused /\ UNCHANGED kills /\ pc' = [pc EXCEPT ![h] = "unpublish"]
         \/ ~loc[h].paused /\ Kill(h, loc[h].vm) /\ pc' = [pc EXCEPT ![h] = "deleting"]
  BY DEF Delete
<1>2. /\ TypeOK /\ LocalOK(h) /\ auth.holder = h /\ lease[h] # 0 /\ HolderLaunch(h)
      /\ loc[h].launch # Adoptable /\ loc[h].vm = loc[h].launch /\ loc[h].vm # 0 /\ loc[h].vm \in Gens
      /\ "unpublish" \in PCs /\ "deleting" \in PCs
  BY <1>1, HandleFacts DEF Recorded, PCs, LocalOK, Owning, Launching, Gens
<1>3. CASE loc[h].paused
  <2>1. pc'[h] = "unpublish" /\ UNCHANGED kills
    BY <1>1, <1>2, <1>3 DEF TypeOK
  <2>2. LocalOK(h)' /\ HolderLaunch(h)'
    BY <1>1, <1>2, <1>3, <2>1 DEF LocalOK, HolderLaunch, Choosing, Launching, Owning, Creating
  <2>. QED
    BY <1>1, <1>2, <1>3, <2>1, <2>2, QuietStep DEF Choosing
<1>4. CASE ~loc[h].paused
  <2>1. pc'[h] = "deleting" /\ Kill(h, loc[h].vm)
    BY <1>1, <1>2, <1>4 DEF TypeOK
  <2>2. LocalOK(h)' /\ HolderLaunch(h)' /\ Doomed(h)'
    BY <1>1, <1>2, <1>4, <2>1, KillFacts DEF LocalOK, HolderLaunch, Choosing, Launching, Owning, Creating, Doomed
  <2>3. ASSUME History PROVE Current(h)'
    BY <1>1, <1>2, <1>4, <2>1, <2>3 DEF History, Current
  <2>. QED
    BY <1>1, <1>2, <1>4, <2>1, <2>2, <2>3, QuietStep DEF Choosing
<1>. QED
  BY <1>3, <1>4

LEMMA MutateKeeps ==
    ASSUME Safe, NEW h \in Handles, Mutate(h)
    PROVE  Safe' /\ (History => History')
<1>. DEFINE g == loc[h].vm
            l == [loc[h] EXCEPT !.captured = FALSE]
            v == [vms[g] EXCEPT !.dirty = @ \/ vms[g].status = "running"]
<1>1. /\ pc[h] = "ready" /\ Held(h) /\ ~loc[h].paused
      /\ UNCHANGED <<world, auth, runs, kills, objects, origin, uploads, pc, lease>>
  BY DEF Mutate, Active
<1>2. /\ TypeOK /\ LocalOK(h) /\ auth.holder = h /\ lease[h] # 0 /\ HolderLaunch(h) /\ loc[h].launch # Adoptable
      /\ g \in Gens /\ g = loc[h].vm /\ "ready" \in PCs
  BY <1>1, HandleFacts DEF Recorded, PCs, Gens, LocalOK, Owning
<1>3. /\ l \in Locals /\ l.launch = loc[h].launch /\ l.vm = loc[h].vm /\ l.metadata = loc[h].metadata
      /\ l.activation = loc[h].activation /\ l.paused = loc[h].paused /\ loc' = [loc EXCEPT ![h] = l]
      /\ pc' = [pc EXCEPT ![h] = "ready"]
  BY <1>1, <1>2, TypeFacts DEF Mutate, Locals, TypeOK
<1>4. /\ v \in Vms /\ v.status = vms[g].status /\ v.content = vms[g].content /\ vms' = [vms EXCEPT ![g] = v]
  BY <1>2 DEF Mutate, Vms, TypeOK
<1>. HIDE DEF g, l, v
<1>5. /\ vms' \in [Gens -> Vms] /\ \A x \in Gens : vms'[x].status = vms[x].status /\ vms'[x].content = vms[x].content
  BY <1>2, <1>4, VmFacts
<1>6. /\ loc'[h] = l
      /\ objects' \subseteq Checkpoints /\ origin' \in [Checkpoints -> 0..MaxCaptures] /\ uploads' \in 0..MaxCaptures
  BY <1>1, <1>2, <1>3 DEF TypeOK
<1>7. LocalOK(h)' /\ HolderLaunch(h)'
  BY <1>1, <1>2, <1>3, <1>6 DEF LocalOK, HolderLaunch
<1>8. ASSUME History PROVE Current(h)'
  BY <1>1, <1>2, <1>3, <1>5, <1>6, <1>8 DEF History, Current
<1>9. Safe'
  <2>1. \A x \in Gens : vms'[x].status = vms[x].status
    BY <1>5
  <2>2. "ready" \in PCs \ {"dispatch", "mismatch", "intent", "commit", "erase", "undo", "forget"}
    BY <1>2
  <2>3. /\ l.launch \in {loc[h].launch, auth.launch.id} /\ l.launch # Adoptable /\ ~loc[h].paused /\ l.vm = loc[h].vm
        /\ pc[h] = "ready" /\ lease[h] # 0 /\ UNCHANGED kills /\ UNCHANGED <<world, auth, runs, lease>>
    BY <1>1, <1>2, <1>3
  <2>. QED
    BY <1>3, <1>5, <1>6, <1>7, <2>1, <2>2, <2>3, OwnStep DEF Choosing
<1>. QED
  BY <1>1, <1>2, <1>3, <1>5, <1>8, <1>9, OwnHistory

LEMMA BootKeeps ==
    ASSUME Safe, NEW h \in Handles, Boot(h)
    PROVE  Safe' /\ (History => History')
<1>. DEFINE g == loc[h].vm
            c == loc[h].metadata.checkpoint
            v == [vms[g] EXCEPT !.content = c, !.dirty = FALSE]
<1>1. /\ pc[h] = "booting" /\ Held(h) /\ pc' = [pc EXCEPT ![h] = "handoff"]
      /\ UNCHANGED <<world, auth, runs, kills, objects, origin, uploads, lease, loc>>
  BY DEF Boot
<1>2. /\ TypeOK /\ LocalOK(h) /\ auth.holder = h /\ lease[h] # 0 /\ HolderLaunch(h) /\ loc[h].launch # Adoptable
      /\ ~loc[h].paused /\ g \in Gens /\ "handoff" \in PCs
  BY <1>1, HandleFacts DEF Recorded, PCs, Gens, LocalOK, Owning, Creating
<1>3. loc[h] \in Locals /\ loc' = [loc EXCEPT ![h] = loc[h]] /\ c \in 0..MaxCaptures
  BY <1>1, <1>2, TypeFacts DEF TypeOK, Metadata
<1>4. /\ v \in Vms /\ v.status = vms[g].status /\ v.content = c /\ vms' = [vms EXCEPT ![g] = v]
  <2>1. vms' = [vms EXCEPT ![g].content = c, ![g].dirty = FALSE] /\ vms \in [Gens -> Vms] /\ vms[g] \in Vms
    BY <1>2 DEF Boot, TypeOK
  <2>. HIDE DEF g, c
  <2>2. v \in Vms /\ v.status = vms[g].status /\ v.content = c
    BY <1>2, <1>3, <2>1 DEF Vms
  <2>3. vms' = [vms EXCEPT ![g] = v]
    BY <1>2, <2>1
  <2>. QED
    BY <2>2, <2>3
<1>. HIDE DEF v
<1>5. /\ vms' \in [Gens -> Vms] /\ vms'[g] = v /\ \A x \in Gens : vms'[x].status = vms[x].status
  BY <1>2, <1>4, VmFacts
<1>6. pc'[h] = "handoff" /\ objects \subseteq Checkpoints /\ origin \in [Checkpoints -> 0..MaxCaptures] /\ uploads \in 0..MaxCaptures
  BY <1>1, <1>2 DEF TypeOK
<1>7. LocalOK(h)' /\ HolderLaunch(h)'
  BY <1>1, <1>2, <1>6 DEF LocalOK, HolderLaunch, Choosing, Launching, Owning, Creating
<1>8. ASSUME History PROVE Current(h)'
  BY <1>1, <1>2, <1>4, <1>5, <1>6, <1>8 DEF History, Current, Creating
<1>9. Safe'
  BY <1>1, <1>2, <1>3, <1>5, <1>6, <1>7, OwnStep DEF Choosing
<1>. QED
  BY <1>1, <1>2, <1>3, <1>5, <1>8, <1>9, OwnHistory

LEMMA CommitKeeps ==
    ASSUME Safe, NEW h \in Handles, Commit(h)
    PROVE  Safe' /\ (History => History')
<1>. DEFINE g == loc[h].vm
            l == [loc[h] EXCEPT !.paused = TRUE]
            v == [vms[g] EXCEPT !.dirty = FALSE]
<1>1. /\ pc[h] = "commit" /\ pc' = [pc EXCEPT ![h] = "terminating"] /\ Kill(h, g)
      /\ UNCHANGED <<world, auth, runs, objects, origin, uploads, lease>>
      /\ vms' = [vms EXCEPT ![g].dirty = FALSE] /\ loc' = [loc EXCEPT ![h].paused = TRUE]
  BY DEF Commit
<1>2. /\ TypeOK /\ LocalOK(h) /\ (auth.holder = h => HolderLaunch(h)) /\ loc[h].launch # Adoptable
      /\ g \in Gens /\ g = loc[h].launch /\ g # 0 /\ "terminating" \in PCs
  BY <1>1, HandleFacts DEF Recorded, PCs, Gens, LocalOK, Owning
<1>3. /\ l \in Locals /\ l.launch = loc[h].launch /\ l.vm = loc[h].vm /\ l.metadata = loc[h].metadata
      /\ l.activation = loc[h].activation /\ l.paused /\ loc' = [loc EXCEPT ![h] = l]
  BY <1>1, <1>2, TypeFacts DEF Locals, TypeOK
<1>4. /\ v \in Vms /\ v.status = vms[g].status /\ v.content = vms[g].content /\ vms' = [vms EXCEPT ![g] = v]
  BY <1>1, <1>2 DEF Vms, TypeOK
<1>. HIDE DEF l, v
<1>5. /\ vms' \in [Gens -> Vms] /\ \A x \in Gens : vms'[x].status = vms[x].status /\ vms'[x].content = vms[x].content
  BY <1>2, <1>4, VmFacts
<1>6. /\ loc'[h] = l /\ pc'[h] = "terminating"
      /\ objects \subseteq Checkpoints /\ origin \in [Checkpoints -> 0..MaxCaptures] /\ uploads \in 0..MaxCaptures
  BY <1>1, <1>2, <1>3 DEF TypeOK
<1>7. LocalOK(h)' /\ (auth.holder = h => HolderLaunch(h)')
  BY <1>1, <1>2, <1>3, <1>6 DEF LocalOK, HolderLaunch, Choosing, Launching, Owning, Creating
<1>8. \E x \in {loc[h].launch, auth.launch.id} :
        /\ x # 0 /\ x # Adoptable /\ Kill(h, x)
        /\ auth.holder = h \/ (pc[h] \in {"mismatch", "intent", "commit"} /\ x = loc[h].launch)
  BY <1>1, <1>2
<1>9. Safe'
  BY <1>1, <1>2, <1>3, <1>5, <1>6, <1>7, <1>8, OwnStep DEF Choosing
<1>. QED
  BY <1>1, <1>2, <1>3, <1>5, <1>9, OwnHistory

LEMMA DispatchKeeps ==
    ASSUME Safe, NEW h \in Handles, Dispatch(h)
    PROVE  Safe' /\ (History => History')
<1>. DEFINE r == [by |-> h, token |-> loc[h].launch, activation |-> loc[h].activation, config |-> Config(h)]
<1>1. /\ pc[h] = "dispatch" /\ pc' = [pc EXCEPT ![h] = "running"] /\ runs' = runs \cup {r}
      /\ UNCHANGED <<world, auth, vms, kills, objects, origin, uploads, lease, loc>>
  BY DEF Dispatch
<1>2. /\ TypeOK /\ LocalOK(h) /\ (auth.holder = h => HolderLaunch(h)) /\ loc[h].launch \in 0..MaxGen
      /\ "running" \in PCs /\ loc[h].activation \in 0..MaxGen /\ MaxGen \in Nat
      /\ Names /\ Requests /\ Terminations
  BY <1>1, HandleFacts, TypeFacts DEF PCs, Safe
<1>3. loc[h].launch \in Gens /\ loc[h].activation \in Gens
  BY <1>1, <1>2 DEF LocalOK, Launching, Gens
<1>4. Config(h) \in Configs
  BY <1>2 DEF TypeOK, Config, Configs
<1>5. /\ r \in Runs /\ r.token = loc[h].launch /\ r.activation = loc[h].activation /\ r.config = Config(h)
  BY <1>3, <1>4 DEF Runs
<1>. HIDE DEF r
<1>6. pc' \in [Handles -> PCs] /\ pc'[h] = "running" /\ \A x \in Handles \ {h} : pc'[x] = pc[x]
  BY <1>1, <1>2, MoveFacts
<1>7. TypeOK'
  BY <1>1, <1>2, <1>5, <1>6 DEF TypeOK
<1>8. Moves(h) /\ AuthStep(h) /\ VmsStep /\ Adoptable' = Adoptable
  BY <1>1, <1>6 DEF Moves, AuthStep, VmsStep, Adoptable
<1>9. LocalOK(h)' /\ (auth.holder = h => HolderLaunch(h)') /\ LaunchOK'
  BY <1>1, <1>2, <1>6 DEF LocalOK, HolderLaunch, LaunchOK, Names, Choosing, Launching, Owning, Creating
<1>10. auth'.holder = h => lease'[h] = auth'.gen
  BY <1>1, <1>2 DEF Names, HolderHolds
<1>11. Names'
  BY <1>1, <1>2, <1>5, <1>6, <1>7, <1>8, <1>9, <1>10, NamesStep DEF Choosing
<1>12. Requests'
  <2>1. [token |-> r.token, activation |-> r.activation, config |-> r.config] \in Orders
    BY <1>1, <1>5 DEF Orders
  <2>2. \A x \in Handles : pc'[x] = "dispatch" => pc[x] = "dispatch" /\ loc'[x] = loc[x] /\ Config(x)' = Config(x)
    BY <1>1, <1>6 DEF Config
  <2>3. Orders' \subseteq Orders
    BY <1>1, <2>1, <2>2 DEF Orders
  <2>. QED
    BY <1>1, <1>2, <2>3 DEF Requests
<1>13. Terminations'
  BY <1>1, <1>2, <1>6, <1>8, TerminationsStep DEF Recorded
<1>14. Safe'
  BY <1>11, <1>12, <1>13 DEF Safe
<1>15. ASSUME History PROVE History'
  <2>1. auth.holder = h /\ ~loc[h].paused => Current(h)'
    BY <1>1, <1>6, <1>15 DEF History, Current, Creating
  <2>2. loc[h] \in Locals /\ loc' = [loc EXCEPT ![h] = loc[h]]
    BY <1>1, <1>2 DEF TypeOK
  <2>. QED
    BY <1>1, <1>2, <1>14, <1>15, <2>1, <2>2, OwnHistory DEF Owning
<1>. QED
  BY <1>14, <1>15


-----------------------------------------------------------------------------
(* capture() uploads *)

LEMMA UploadKeeps ==
    ASSUME Safe, NEW h \in Handles, Upload(h)
    PROVE  Safe' /\ (History => History')
<1>. DEFINE g == loc[h].vm
            n == uploads + 1
            c == IF vms[g].dirty THEN n ELSE loc[h].metadata.checkpoint
            l == [loc[h] EXCEPT !.pending = [checkpoint |-> c, etag |-> n]]
<1>1. /\ pc[h] = "ready" /\ Held(h) /\ ~loc[h].paused /\ pc' = [pc EXCEPT ![h] = "publish"]
      /\ UNCHANGED <<world, auth, vms, runs, kills, lease>> /\ uploads < MaxCaptures /\ uploads' = n
  BY DEF Upload, Active
<1>2. /\ TypeOK /\ LocalOK(h) /\ auth.holder = h /\ lease[h] # 0 /\ HolderLaunch(h) /\ loc[h].launch # Adoptable
      /\ g \in Gens /\ "publish" \in PCs
  BY <1>1, HandleFacts DEF Recorded, PCs, Gens, LocalOK, Owning
<1>3. /\ uploads \in Nat /\ n \in Checkpoints /\ n \in 0..MaxCaptures /\ uploads' \in 0..MaxCaptures
      /\ loc[h].metadata.checkpoint \in 0..MaxCaptures /\ vms[g].content \in 0..MaxCaptures
  BY <1>1, <1>2, TypeFacts, SessionConstants DEF TypeOK, Checkpoints, Metadata, Vms
<1>4. /\ vms[g].dirty => objects' = objects \cup {n} /\ origin' = [origin EXCEPT ![n] = vms[g].content] /\ c = n
      /\ ~vms[g].dirty => objects' = objects /\ origin' = origin /\ c = loc[h].metadata.checkpoint
      /\ loc' = [loc EXCEPT ![h].pending = [checkpoint |-> c, etag |-> n]]
  BY <1>1 DEF Upload
<1>5. c \in 0..MaxCaptures
  BY <1>3
<1>. HIDE DEF c, n, g
<1>6. /\ l \in Locals /\ l.launch = loc[h].launch /\ l.vm = loc[h].vm /\ l.metadata = loc[h].metadata
      /\ l.activation = loc[h].activation /\ l.paused = loc[h].paused /\ l.pending.checkpoint = c
      /\ loc' = [loc EXCEPT ![h] = l]
  BY <1>2, <1>3, <1>4, <1>5, TypeFacts DEF Locals, TypeOK, Metadata
<1>. HIDE DEF l
<1>7. /\ loc'[h] = l /\ pc'[h] = "publish"
      /\ \A x \in Handles \ {h} : loc'[x] = loc[x] /\ pc'[x] = pc[x]
  BY <1>1, <1>2, <1>6 DEF TypeOK
<1>8. /\ objects' \subseteq Checkpoints /\ origin' \in [Checkpoints -> 0..MaxCaptures]
      /\ vms' \in [Gens -> Vms] /\ objects \subseteq objects' /\ objects' \subseteq objects \cup {n}
  BY <1>1, <1>2, <1>3, <1>4 DEF TypeOK
<1>9. LocalOK(h)' /\ HolderLaunch(h)'
  BY <1>1, <1>2, <1>6, <1>7 DEF LocalOK, HolderLaunch, Choosing, Launching, Owning, Creating
<1>10. Safe'
  <2>1. /\ l.launch \in {loc[h].launch, auth.launch.id} /\ l.launch # Adoptable /\ ~loc[h].paused /\ l.vm = loc[h].vm
        /\ pc[h] = "ready" /\ lease[h] # 0 /\ UNCHANGED kills /\ UNCHANGED <<world, auth, runs, lease>>
        /\ \A x \in Gens : vms'[x].status = vms[x].status
    BY <1>1, <1>2, <1>6
  <2>2. "publish" \in PCs \ {"dispatch", "mismatch", "intent", "commit", "erase", "undo", "forget"}
    BY <1>2
  <2>. QED
    BY <1>1, <1>3, <1>6, <1>8, <1>9, <2>1, <2>2, OwnStep DEF Choosing
<1>11. ASSUME History PROVE History'
  <2>1. /\ Uploaded /\ CheckpointPresent /\ Current(h) /\ loc[h].metadata = auth.metadata
        /\ vms[g].content = auth.metadata.checkpoint
    BY <1>1, <1>2, <1>11 DEF History, Current, g
  <2>2. /\ auth.metadata.checkpoint \in Nat /\ \A x \in Handles : loc[x].metadata.checkpoint \in Nat
        /\ \A y \in objects : y \in Nat
    BY <1>2, TypeFacts DEF Metadata, TypeOK, Checkpoints
  <2>3. Uploaded'
    <3>1. /\ \A x \in Handles : loc'[x].metadata.checkpoint = loc[x].metadata.checkpoint
          /\ auth'.metadata.checkpoint = auth.metadata.checkpoint
      BY <1>1, <1>6, <1>7
    <3>2. \A y \in objects' : y <= n
      BY <1>3, <1>8, <2>1, <2>2 DEF Uploaded, n
    <3>. QED
      BY <1>1, <1>3, <2>1, <2>2, <3>1, <3>2 DEF Uploaded, n
  <2>4. CheckpointPresent'
    BY <1>1, <1>8, <2>1 DEF CheckpointPresent
  <2>5. Current(h)'
    <3>1. c \in objects' \cup {0}
      BY <1>4, <2>1 DEF CheckpointPresent
    <3>2. c = auth.metadata.checkpoint \/ origin'[c] = auth.metadata.checkpoint
      BY <1>2, <1>3, <1>4, <2>1 DEF TypeOK
    <3>. QED
      BY <1>1, <1>6, <1>7, <2>1, <3>1, <3>2 DEF Current
  <2>6. ASSUME NEW x \in Handles \ {h}
        PROVE  /\ pc'[x] \in Owning /\ ~loc'[x].paused => lease'[x] # 0
               /\ auth'.holder # x
               /\ pc'[x] = "erase" /\ loc'[x].metadata.checkpoint # 0 => Erasing(x)'
    <3>1. pc'[x] = pc[x] /\ loc'[x] = loc[x] /\ lease'[x] = lease[x] /\ auth'.holder = h
      BY <1>1, <1>2, <1>7
    <3>2. ASSUME pc[x] = "erase", loc[x].metadata.checkpoint # 0 PROVE Erasing(x)'
      <4>1. loc[x].metadata.checkpoint # auth.metadata.checkpoint /\ loc[x].metadata.checkpoint <= uploads
        BY <1>11, <2>1, <3>2 DEF History, Erasing, Uploaded
      <4>2. loc[x].metadata.checkpoint # c
        BY <1>3, <1>4, <2>1, <2>2, <4>1 DEF n
      <4>. QED
        BY <1>1, <1>6, <1>7, <3>1, <4>1, <4>2 DEF Erasing
    <3>. QED
      BY <1>11, <3>1, <3>2 DEF History
  <2>7. lease'[h] # 0 /\ pc'[h] # "erase"
    BY <1>1, <1>2, <1>7
  <2>. QED
    BY <2>3, <2>4, <2>5, <2>6, <2>7 DEF History
<1>. QED
  BY <1>10, <1>11


-----------------------------------------------------------------------------
(* Writes to the authority that record or end a launch *)

LEMMA WriteStep ==
    ASSUME Safe, NEW h \in Handles, NEW m \in Metadata, NEW r \in Launches,
           NEW q \in PCs \ {"dispatch", "undo", "forget", "deleting", "ready"},
           UpdateState(h, m, r, q), loc' \in [Handles -> Locals], \A x \in Handles \ {h} : loc'[x] = loc[x],
           UNCHANGED <<world, runs, kills, objects, origin, uploads>>,
           vms' \in [Gens -> Vms], \A g \in Gens : vms'[g].status = vms[g].status,
           loc'[h].launch = loc[h].launch, loc'[h].vm = loc[h].vm,
           loc'[h].activation = loc[h].activation, loc'[h].paused = loc[h].paused,
           pc[h] \notin {"dispatch", "deleting", "ready"}, q \notin Choosing,
           \/ r = NoLaunch
           \/ /\ r.recorded /\ r.id = auth.launch.id /\ r.id # 0
              /\ r.config = auth.launch.config /\ r.activation = auth.launch.activation,
           pc'[h] = q /\ lease'[h] # 0 => LocalOK(h)', auth'.holder = h => HolderLaunch(h)',
           ~loc[h].paused /\ q \in {"booting", "handoff", "publish", "commit"} =>
             pc[h] \in {"booting", "handoff", "ready", "publish", "commit"} \/ Alone(h)'
    PROVE  Safe'
<1>1. /\ TypeOK /\ Names /\ Requests /\ Terminations /\ LocalOK(h) /\ Broken # 0 /\ h # Nobody
      /\ auth.holder = h => lease[h] # 0
      /\ pc[h] = "undo" => vms[loc[h].vm].status = "gone"
      /\ pc[h] = "forget" => vms[loc[h].launch].status = "gone"
  BY HandleFacts, SessionConstants DEF Safe, Broken
<1>2. /\ auth.holder = h /\ lease[h] = auth.gen
      /\ auth' \in Authority /\ auth'.gen = auth.gen /\ auth'.metadata = m /\ auth'.launch = r
      /\ pc' \in [Handles -> PCs] /\ lease' \in [Handles -> 0..Broken]
      /\ \A x \in Handles \ {h} : pc'[x] = pc[x] /\ lease'[x] = lease[x]
      /\ \/ auth'.holder = h /\ lease'[h] = lease[h] /\ pc'[h] = q
         \/ auth'.holder = Nobody /\ lease'[h] = Broken /\ pc'[h] = pc[h]
  BY <1>1, WriteFacts
<1>3. lease'[h] # 0
  BY <1>1, <1>2
<1>4. TypeOK'
  BY <1>1, <1>2, <1>3 DEF TypeOK
<1>5. Moves(h) /\ AuthStep(h) /\ VmsStep
  BY <1>2, <1>3 DEF Moves, AuthStep, VmsStep
<1>6. Adoptable' = 0 /\ auth'.launch.id \in {auth.launch.id, 0} /\ LaunchOK'
  BY <1>2 DEF Adoptable, LaunchOK, NoLaunch
<1>7. LocalOK(h)'
  <2>1. CASE pc'[h] = q
    BY <1>3, <2>1
  <2>2. CASE pc'[h] = pc[h]
    BY <1>1, <1>3, <2>2 DEF LocalOK
  <2>. QED
    BY <1>2, <2>1, <2>2
<1>8. /\ pc'[h] = "undo" => vms'[loc'[h].vm].status = "gone"
      /\ pc'[h] = "forget" => vms'[loc'[h].launch].status = "gone"
  <2>1. ASSUME pc'[h] \in {"undo", "forget"}
        PROVE  pc'[h] = pc[h] /\ loc[h].vm \in {0, loc[h].launch} /\ loc[h].launch \in Gens /\ (pc[h] = "undo" => loc[h].vm # 0)
    BY <1>1, <1>2, <2>1, TypeFacts DEF LocalOK, Launching, Owning, Gens
  <2>. QED
    BY <1>1, <1>3, <2>1
<1>9. Names'
  <2>1. auth'.holder = h => lease'[h] = auth'.gen
    BY <1>1, <1>2
  <2>2. pc'[h] \in Choosing => pc[h] \in Choosing
    BY <1>2
  <2>. QED
    BY <1>1, <1>3, <1>4, <1>5, <1>6, <1>7, <1>8, <2>1, <2>2, NamesStep
<1>10. Requests'
  <2>1. auth'.launch.id = 0 \/ /\ auth'.launch.id = auth.launch.id /\ auth'.launch.config = auth.launch.config
                               /\ auth'.launch.activation = auth.launch.activation
    BY <1>2 DEF NoLaunch
  <2>2. pc'[h] # "dispatch"
    BY <1>2
  <2>. QED
    BY <1>1, <1>5, <2>1, <2>2, RequestsStep
<1>11. Terminations'
  <2>1. pc'[h] \in Recorded => loc'[h].launch # Adoptable'
    BY <1>3, <1>6, <1>7 DEF LocalOK, Recorded, Launching, Owning
  <2>2. pc'[h] # "deleting" /\ pc'[h] # "ready"
    BY <1>2
  <2>3. auth'.holder = h => pc'[h] = q
    BY <1>1, <1>2
  <2>. QED
    BY <1>1, <1>2, <1>3, <1>5, <1>6, <2>1, <2>2, <2>3, TerminationsStep
<1>. QED
  BY <1>9, <1>10, <1>11 DEF Safe

\* ... and leave the session's checkpoint alone.
LEMMA WriteHistory ==
    ASSUME Safe, Safe', History, NEW h \in Handles, NEW r \in Launches, NEW q \in PCs \ {"erase", "publish"},
           UpdateState(h, auth.metadata, r, q), pc[h] \notin {"erase", "publish"},
           UNCHANGED <<world, vms, objects, origin, uploads>>, \A x \in Handles \ {h} : loc'[x] = loc[x],
           loc'[h].metadata = loc[h].metadata, loc'[h].paused = loc[h].paused,
           auth'.holder = h /\ ~loc[h].paused => Current(h)'
    PROVE  History'
<1>1. TypeOK /\ Names /\ TypeOK' /\ auth.metadata \in Metadata /\ Broken # 0 /\ (auth.holder = h => lease[h] # 0)
  BY TypeFacts, HandleFacts, SessionConstants DEF Safe, Names, Broken
<1>2. /\ auth.holder = h /\ auth'.gen = auth.gen /\ auth'.metadata = auth.metadata
      /\ \A x \in Handles \ {h} : pc'[x] = pc[x] /\ lease'[x] = lease[x]
      /\ lease'[h] # 0 /\ auth'.holder \in {h, Nobody} /\ pc'[h] \notin {"erase", "publish"}
  BY <1>1, WriteFacts
<1>3. Moves(h) /\ AuthStep(h)
  BY <1>2 DEF Moves, AuthStep
<1>4. CheckpointPresent'
  BY <1>2 DEF History, CheckpointPresent
<1>5. \A x \in Handles \ {h} : pc[x] = "erase" /\ loc[x].metadata.checkpoint # 0 =>
        loc[x].metadata.checkpoint # auth'.metadata.checkpoint
  BY <1>2 DEF History, Erasing
<1>. QED
  BY <1>1, <1>2, <1>3, <1>4, <1>5, HistoryStep

\* The MicroVM of the launch is recorded.
LEMMA RecordFacts ==
    ASSUME TypeOK
    PROVE  LET r == [auth.launch EXCEPT !.recorded = TRUE]
           IN  /\ r \in Launches /\ r.recorded /\ r.id = auth.launch.id
               /\ r.config = auth.launch.config /\ r.activation = auth.launch.activation
  BY TypeFacts DEF Launches

LEMMA NoLaunchFacts ==
    NoLaunch \in Launches /\ NoLaunch.id = 0 /\ NoLaunch.activation = 0 /\ ~NoLaunch.recorded
    /\ NoMetadata \in Metadata /\ NoMetadata.checkpoint = 0
  BY SessionConstants DEF NoLaunch, Launches, Configs, NoMetadata, Metadata

LEMMA MismatchKeeps ==
    ASSUME Safe, NEW h \in Handles, Mismatch(h)
    PROVE  Safe' /\ (History => History')
<1>. DEFINE r == [auth.launch EXCEPT !.recorded = TRUE]
<1>1. /\ pc[h] = "mismatched" /\ UpdateState(h, auth.metadata, r, "mismatch")
      /\ UNCHANGED <<world, vms, runs, kills, objects, origin, uploads, loc>>
  BY DEF Mismatch
<1>2. /\ TypeOK /\ LocalOK(h) /\ auth.holder = h /\ HolderLaunch(h) /\ "mismatch" \in PCs
      /\ loc' \in [Handles -> Locals] /\ auth.metadata \in Metadata
      /\ vms \in [Gens -> Vms] /\ h # Nobody
  BY <1>1, HandleFacts, TypeFacts DEF PCs, UpdateState, Held, TypeOK
<1>3. /\ r \in Launches /\ r.recorded /\ r.id = auth.launch.id
      /\ r.config = auth.launch.config /\ r.activation = auth.launch.activation
  BY <1>2, RecordFacts
<1>. HIDE DEF r
<1>4. auth'.launch = r /\ auth'.metadata = auth.metadata /\ (auth'.holder = h => pc'[h] = "mismatch")
  BY <1>1, <1>2, <1>3, WriteFacts
<1>5. pc'[h] = "mismatch" => LocalOK(h)'
  BY <1>1, <1>2 DEF LocalOK, Choosing, Launching, Owning, Creating
<1>6. auth'.holder = h => HolderLaunch(h)'
  BY <1>1, <1>2, <1>3, <1>4 DEF HolderLaunch
<1>7. r.id # 0
  BY <1>1, <1>2, <1>3 DEF HolderLaunch, LocalOK, Launching
<1>11. vms' \in [Gens -> Vms] /\ \A g \in Gens : vms'[g].status = vms[g].status
  BY <1>1, <1>2
<1>8. Safe'
  BY <1>1, <1>2, <1>3, <1>5, <1>6, <1>7, <1>11, WriteStep DEF Choosing
<1>9. ASSUME History PROVE auth'.holder = h /\ ~loc[h].paused => Current(h)'
  BY <1>1, <1>2, <1>4, <1>9 DEF History, Current, Creating
<1>. QED
  BY <1>1, <1>2, <1>3, <1>8, <1>9, WriteHistory

LEMMA RecordKeeps ==
    ASSUME Safe, NEW h \in Handles, Record(h)
    PROVE  Safe' /\ (History => History')
<1>. DEFINE r == [auth.launch EXCEPT !.recorded = TRUE]
<1>1. /\ pc[h] = "launched" /\ UpdateState(h, auth.metadata, r, "booting")
      /\ UNCHANGED <<world, vms, runs, kills, objects, origin, uploads, loc>>
  BY DEF Record
<1>2. /\ TypeOK /\ LocalOK(h) /\ auth.holder = h /\ HolderLaunch(h) /\ "booting" \in PCs
      /\ loc' \in [Handles -> Locals] /\ auth.metadata \in Metadata
      /\ vms \in [Gens -> Vms] /\ h # Nobody
  BY <1>1, HandleFacts, TypeFacts DEF PCs, UpdateState, Held, TypeOK
<1>3. /\ r \in Launches /\ r.recorded /\ r.id = auth.launch.id
      /\ r.config = auth.launch.config /\ r.activation = auth.launch.activation
  BY <1>2, RecordFacts
<1>. HIDE DEF r
<1>4. /\ auth'.launch = r /\ auth'.metadata = auth.metadata /\ (auth'.holder = h => pc'[h] = "booting")
      /\ \A x \in Handles \ {h} : pc'[x] = pc[x]
  BY <1>1, <1>2, <1>3, WriteFacts
<1>5. pc'[h] = "booting" => LocalOK(h)'
  BY <1>1, <1>2 DEF LocalOK, Choosing, Launching, Owning, Creating
<1>6. auth'.holder = h => HolderLaunch(h)'
  BY <1>1, <1>2, <1>3, <1>4 DEF HolderLaunch
<1>7. r.id # 0
  BY <1>1, <1>2, <1>3 DEF HolderLaunch, LocalOK, Launching, Owning
<1>8. Alone(h)'
  <2>1. loc[h].vm = Adoptable /\ loc[h].vm # 0
    BY <1>1, <1>2 DEF HolderLaunch, LocalOK, Launching, Owning, Adoptable
  <2>2. /\ \A k \in kills : k.vm # Adoptable
        /\ \A x \in Handles : pc[x] \in Recorded => loc[x].launch # Adoptable
    BY DEF Safe, Terminations
  <2>. QED
    BY <1>1, <1>4, <2>1, <2>2 DEF Alone, Recorded
<1>11. vms' \in [Gens -> Vms] /\ \A g \in Gens : vms'[g].status = vms[g].status
  BY <1>1, <1>2
<1>9. Safe'
  BY <1>1, <1>2, <1>3, <1>5, <1>6, <1>7, <1>8, <1>11, WriteStep DEF Choosing
<1>10. ASSUME History PROVE auth'.holder = h /\ ~loc[h].paused => Current(h)'
  BY <1>1, <1>2, <1>4, <1>10 DEF History, Current, Creating
<1>. QED
  BY <1>1, <1>2, <1>3, <1>9, <1>10, WriteHistory

LEMMA UndoKeeps ==
    ASSUME Safe, NEW h \in Handles, Undo(h)
    PROVE  Safe' /\ (History => History')
<1>1. /\ pc[h] = "undo" /\ UpdateState(h, auth.metadata, NoLaunch, "rejected")
      /\ UNCHANGED <<world, vms, runs, kills, objects, origin, uploads, loc>>
  BY DEF Undo
<1>2. /\ TypeOK /\ LocalOK(h) /\ auth.holder = h /\ HolderLaunch(h) /\ "rejected" \in PCs
      /\ loc' \in [Handles -> Locals] /\ auth.metadata \in Metadata
      /\ vms \in [Gens -> Vms] /\ h # Nobody
  BY <1>1, HandleFacts, TypeFacts DEF PCs, UpdateState, Held, TypeOK
<1>3. NoLaunch \in Launches
  BY NoLaunchFacts
<1>4. auth'.launch = NoLaunch /\ auth'.metadata = auth.metadata /\ (auth'.holder = h => pc'[h] = "rejected")
  BY <1>1, <1>2, <1>3, WriteFacts
<1>5. pc'[h] = "rejected" => LocalOK(h)'
  BY <1>1, <1>2 DEF LocalOK, Choosing, Launching, Owning, Creating
<1>6. auth'.holder = h => HolderLaunch(h)'
  BY <1>1, <1>2, <1>4 DEF HolderLaunch
<1>11. vms' \in [Gens -> Vms] /\ \A g \in Gens : vms'[g].status = vms[g].status
  BY <1>1, <1>2
<1>8. Safe'
  BY <1>1, <1>2, <1>3, <1>5, <1>6, <1>11, WriteStep DEF Choosing
<1>9. ASSUME History PROVE auth'.holder = h /\ ~loc[h].paused => Current(h)'
  BY <1>1, <1>2, <1>4, <1>9 DEF History, Current, Creating
<1>. QED
  BY <1>1, <1>2, <1>3, <1>8, <1>9, WriteHistory

LEMMA PublishIntentKeeps ==
    ASSUME Safe, NEW h \in Handles, PublishIntent(h)
    PROVE  Safe' /\ (History => History')
<1>. DEFINE r == [auth.launch EXCEPT !.recorded = TRUE]
<1>1. /\ pc[h] = "cleanup" /\ auth.launch.id = loc[h].launch /\ UpdateState(h, auth.metadata, r, "intent")
      /\ UNCHANGED <<world, vms, runs, kills, objects, origin, uploads, loc>>
  BY DEF PublishIntent, StillOurs
<1>2. /\ TypeOK /\ LocalOK(h) /\ auth.holder = h /\ "intent" \in PCs
      /\ loc' \in [Handles -> Locals] /\ auth.metadata \in Metadata
      /\ vms \in [Gens -> Vms] /\ h # Nobody
  BY <1>1, HandleFacts, TypeFacts DEF PCs, UpdateState, Held, TypeOK
<1>3. /\ r \in Launches /\ r.recorded /\ r.id = auth.launch.id
      /\ r.config = auth.launch.config /\ r.activation = auth.launch.activation
  BY <1>2, RecordFacts
<1>. HIDE DEF r
<1>4. auth'.launch = r /\ auth'.metadata = auth.metadata /\ (auth'.holder = h => pc'[h] = "intent")
  BY <1>1, <1>2, <1>3, WriteFacts
<1>5. pc'[h] = "intent" => LocalOK(h)'
  BY <1>1, <1>2 DEF LocalOK, Choosing, Launching, Owning, Creating
<1>6. auth'.holder = h => HolderLaunch(h)'
  BY <1>1, <1>2, <1>3, <1>4 DEF HolderLaunch
<1>7. r.id # 0
  BY <1>1, <1>2, <1>3 DEF LocalOK, Launching
<1>11. vms' \in [Gens -> Vms] /\ \A g \in Gens : vms'[g].status = vms[g].status
  BY <1>1, <1>2
<1>8. Safe'
  BY <1>1, <1>2, <1>3, <1>5, <1>6, <1>7, <1>11, WriteStep DEF Choosing
<1>9. ASSUME History PROVE auth'.holder = h /\ ~loc[h].paused => Current(h)'
  BY <1>1, <1>2, <1>4, <1>9 DEF History, Current, Creating
<1>. QED
  BY <1>1, <1>2, <1>3, <1>8, <1>9, WriteHistory


LEMMA PublishKeeps ==
    ASSUME Safe, NEW h \in Handles, Publish(h)
    PROVE  Safe' /\ (History => History')
<1>. DEFINE g == loc[h].vm
            m == loc[h].pending
            l == [loc[h] EXCEPT !.metadata = m]
            v == [vms[g] EXCEPT !.content = m.checkpoint]
<1>1. /\ pc[h] = "publish" /\ UpdateState(h, m, NoLaunch, "commit")
      /\ UNCHANGED <<world, runs, kills, objects, origin, uploads>>
  BY DEF Publish
<1>2. /\ TypeOK /\ LocalOK(h) /\ auth.holder = h /\ "commit" \in PCs /\ h # Nobody /\ Broken # 0
      /\ m \in Metadata /\ NoLaunch \in Launches /\ NoLaunch.id = 0 /\ g \in Gens
      /\ loc \in [Handles -> Locals] /\ loc[h] \in Locals /\ ~loc[h].paused
  BY <1>1, HandleFacts, TypeFacts, NoLaunchFacts, SessionConstants
     DEF PCs, UpdateState, Held, TypeOK, LocalOK, Owning, Gens, Broken
<1>3. /\ auth'.launch = NoLaunch /\ auth'.metadata = m /\ lease[h] = auth.gen /\ auth'.gen = auth.gen
      /\ \A x \in Handles \ {h} : pc'[x] = pc[x] /\ lease'[x] = lease[x]
      /\ \/ auth'.holder = h /\ lease'[h] = lease[h] /\ pc'[h] = "commit"
         \/ auth'.holder = Nobody /\ lease'[h] = Broken /\ pc'[h] = "publish"
  BY <1>1, <1>2, WriteFacts
<1>4. /\ l \in Locals /\ l.launch = loc[h].launch /\ l.vm = loc[h].vm /\ l.metadata = m /\ l.pending = m
      /\ l.activation = loc[h].activation /\ l.paused = loc[h].paused
      /\ \/ pc'[h] = "commit" /\ loc' = [loc EXCEPT ![h] = l]
         \/ pc'[h] # "commit" /\ loc' = loc
  BY <1>2 DEF Publish, Locals
<1>5. v \in Vms /\ v.status = vms[g].status /\ v.content = m.checkpoint /\ vms' = [vms EXCEPT ![g] = v]
  BY <1>2 DEF Publish, Vms, TypeOK, Metadata
<1>. HIDE DEF l, v, g, m
<1>6. /\ loc' \in [Handles -> Locals] /\ \A x \in Handles \ {h} : loc'[x] = loc[x]
      /\ loc'[h].launch = loc[h].launch /\ loc'[h].vm = loc[h].vm
      /\ loc'[h].activation = loc[h].activation /\ loc'[h].paused = loc[h].paused
      /\ pc'[h] = "commit" => loc'[h].metadata = m
      /\ pc'[h] # "commit" => loc'[h] = loc[h]
  BY <1>2, <1>4
<1>7. vms' \in [Gens -> Vms] /\ vms'[g] = v /\ \A x \in Gens : vms'[x].status = vms[x].status
  BY <1>2, <1>5, VmFacts
<1>8. pc'[h] = "commit" /\ lease'[h] # 0 => LocalOK(h)'
  BY <1>1, <1>2, <1>6 DEF LocalOK, Choosing, Launching, Owning, Creating
<1>9. auth'.holder = h => HolderLaunch(h)'
  BY <1>2, <1>3 DEF HolderLaunch
<1>10. Safe'
  BY <1>1, <1>2, <1>6, <1>7, <1>8, <1>9, WriteStep DEF Choosing
<1>11. ASSUME History PROVE History'
  <2>1. Current(h) /\ Names /\ TypeOK' /\ lease[h] # 0
    BY <1>1, <1>2, <1>10, <1>11, HandleFacts DEF History, Safe, Names
  <2>2. Moves(h) /\ AuthStep(h)
    BY <1>1, <1>2, <1>3, <1>6 DEF Moves, AuthStep
  <2>3. CheckpointPresent'
    BY <1>1, <1>3, <2>1 DEF Current, CheckpointPresent, m
  <2>4. auth'.holder = h => Current(h)'
    <3>1. ASSUME auth'.holder = h
          PROVE  /\ pc'[h] = "commit" /\ loc'[h].metadata = auth'.metadata /\ auth'.launch.id = 0
                 /\ vms'[loc'[h].vm].content = auth'.metadata.checkpoint
      BY <1>2, <1>3, <1>5, <1>6, <1>7, <3>1 DEF g
    <3>. QED
      BY <3>1 DEF Current
  <2>5. \A x \in Handles \ {h} : pc[x] = "erase" /\ loc[x].metadata.checkpoint # 0 =>
          loc[x].metadata.checkpoint # auth'.metadata.checkpoint
    BY <1>1, <1>2, <1>3, <1>11 DEF History, Erasing, m
  <2>6. /\ \A x \in Handles \ {h} : auth.holder # x
        /\ auth.holder = h /\ pc[h] = "publish" /\ auth'.metadata = loc[h].pending
        /\ loc'[h].metadata.checkpoint = loc[h].metadata.checkpoint \/ loc'[h].metadata = auth'.metadata
        /\ lease'[h] # 0 /\ pc'[h] # "erase" /\ ~(auth'.holder = h /\ pc'[h] = "publish")
    BY <1>1, <1>2, <1>3, <1>6, <2>1 DEF m
  <2>. QED
    BY <1>1, <1>11, <2>1, <2>2, <2>3, <2>4, <2>5, <2>6, HistoryStep
<1>. QED
  BY <1>10, <1>11

LEMMA UnpublishKeeps ==
    ASSUME Safe, NEW h \in Handles, Unpublish(h)
    PROVE  Safe' /\ (History => History')
<1>1. /\ pc[h] = "unpublish" /\ UpdateState(h, NoMetadata, NoLaunch, "erase")
      /\ UNCHANGED <<world, vms, runs, kills, objects, origin, uploads, loc>>
  BY DEF Unpublish
<1>2. /\ TypeOK /\ LocalOK(h) /\ auth.holder = h /\ "erase" \in PCs /\ h # Nobody /\ Broken # 0
      /\ NoMetadata \in Metadata /\ NoMetadata.checkpoint = 0 /\ NoLaunch \in Launches /\ NoLaunch.id = 0
      /\ loc' \in [Handles -> Locals] /\ loc[h].paused
  BY <1>1, HandleFacts, TypeFacts, NoLaunchFacts, SessionConstants
     DEF PCs, UpdateState, Held, TypeOK, LocalOK, Broken
<1>3. /\ auth'.launch = NoLaunch /\ auth'.metadata = NoMetadata /\ lease[h] = auth.gen /\ auth'.gen = auth.gen
      /\ \A x \in Handles \ {h} : pc'[x] = pc[x] /\ lease'[x] = lease[x]
      /\ \/ auth'.holder = h /\ lease'[h] = lease[h] /\ pc'[h] = "erase"
         \/ auth'.holder = Nobody /\ lease'[h] = Broken /\ pc'[h] = "unpublish"
  BY <1>1, <1>2, WriteFacts
<1>4. vms' \in [Gens -> Vms] /\ \A x \in Gens : vms'[x].status = vms[x].status
  BY <1>1, <1>2 DEF TypeOK
<1>5. pc'[h] = "erase" => LocalOK(h)'
  BY <1>1, <1>2 DEF LocalOK, Choosing, Launching, Owning, Creating
<1>6. auth'.holder = h => HolderLaunch(h)'
  BY <1>2, <1>3 DEF HolderLaunch
<1>7. Safe'
  BY <1>1, <1>2, <1>4, <1>5, <1>6, WriteStep DEF Choosing
<1>8. ASSUME History PROVE History'
  <2>1. Names /\ TypeOK' /\ lease[h] # 0
    BY <1>2, <1>7, HandleFacts DEF Safe, Names
  <2>2. Moves(h) /\ AuthStep(h)
    BY <1>1, <1>2, <1>3 DEF Moves, AuthStep
  <2>3. CheckpointPresent'
    BY <1>2, <1>3 DEF CheckpointPresent
  <2>4. loc'[h].metadata.checkpoint # 0 /\ pc'[h] = "erase" => Erasing(h)'
    BY <1>1, <1>2, <1>3 DEF Erasing
  <2>5. /\ auth'.metadata.checkpoint = 0 /\ \A x \in Handles \ {h} : auth.holder # x
        /\ loc'[h] = loc[h] /\ pc'[h] # "publish"
    BY <1>1, <1>2, <1>3
  <2>. QED
    BY <1>1, <1>2, <1>8, <2>1, <2>2, <2>3, <2>4, <2>5, HistoryStep
<1>. QED
  BY <1>7, <1>8


-----------------------------------------------------------------------------
(* Choosing the launch identity and recording its request *)

LEMMA IdentifyKeeps ==
    ASSUME Safe, NEW h \in Handles, Identify(h)
    PROVE  Safe' /\ (History => History')
<1>. DEFINE r == LaunchOf(h)
            l == [loc[h] EXCEPT !.launch = r.id]
<1>1. /\ pc[h] = "identify" /\ UpdateState(h, auth.metadata, r, "request")
      /\ UNCHANGED <<world, vms, runs, kills, objects, origin, uploads>>
  BY DEF Identify
<1>2. /\ TypeOK /\ Names /\ Requests /\ Terminations /\ LocalOK(h) /\ LaunchOK /\ auth.holder = h /\ lease[h] = auth.gen
      /\ auth.metadata \in Metadata /\ "request" \in PCs /\ h # Nobody /\ Broken # 0
      /\ auth.gen \in 0..MaxGen /\ auth.gen # 0 /\ auth.launch \in Launches /\ lease[h] # 0
  BY <1>1, HandleFacts, TypeFacts, SessionConstants DEF Safe, Names, HolderHolds, UpdateState, Held, PCs, Broken
<1>3. /\ r \in Launches /\ r.id # 0 /\ ~r.recorded
      /\ \/ r = auth.launch /\ ~auth.launch.recorded
         \/ r.id = auth.gen /\ r.activation = 0
  <2>1. CASE auth.launch.id # 0 /\ ~auth.launch.recorded
    BY <1>2, <2>1 DEF LaunchOf
  <2>2. CASE ~(auth.launch.id # 0 /\ ~auth.launch.recorded)
    <3>1. r = [NoLaunch EXCEPT !.id = auth.gen]
      BY <1>2, <2>2 DEF LaunchOf
    <3>. QED
      BY <1>2, <3>1, NoLaunchFacts DEF Launches
  <2>. QED
    BY <2>1, <2>2
<1>. HIDE DEF r
<1>4. /\ auth' \in Authority /\ auth'.gen = auth.gen /\ auth'.metadata = auth.metadata /\ auth'.launch = r
      /\ pc' \in [Handles -> PCs] /\ lease' \in [Handles -> 0..Broken]
      /\ \A x \in Handles \ {h} : pc'[x] = pc[x] /\ lease'[x] = lease[x]
      /\ \/ auth'.holder = h /\ lease'[h] = lease[h] /\ pc'[h] = "request"
         \/ auth'.holder = Nobody /\ lease'[h] = Broken /\ pc'[h] = "identify"
  BY <1>1, <1>2, <1>3, WriteFacts
<1>5. /\ l \in Locals /\ l.launch = r.id /\ l.vm = loc[h].vm /\ l.metadata = loc[h].metadata
      /\ l.activation = loc[h].activation /\ l.paused = loc[h].paused /\ loc' = [loc EXCEPT ![h] = l]
  BY <1>2, <1>3, TypeFacts DEF Identify, r, Locals, Launches, TypeOK
<1>. HIDE DEF l
<1>6. loc' \in [Handles -> Locals] /\ loc'[h] = l /\ \A x \in Handles \ {h} : loc'[x] = loc[x]
  BY <1>2, <1>5 DEF TypeOK
<1>7. TypeOK'
  BY <1>1, <1>2, <1>4, <1>6 DEF TypeOK
<1>8. Moves(h) /\ AuthStep(h) /\ VmsStep
  BY <1>1, <1>2, <1>4, <1>6 DEF Moves, AuthStep, VmsStep
<1>9. LocalOK(h)'
  BY <1>1, <1>2, <1>3, <1>4, <1>5, <1>6 DEF LocalOK, Choosing, Launching, Owning, Creating
<1>10. LaunchOK' /\ (auth'.holder = h => HolderLaunch(h)')
  BY <1>2, <1>3, <1>4, <1>5, <1>6 DEF HolderLaunch, LaunchOK
<1>11. auth'.holder = h => lease'[h] = auth'.gen
  BY <1>2, <1>4
<1>12. Named' \subseteq Named \cup {auth.gen}
  <2>1. auth'.launch.id \in Named \cup {auth.gen} /\ loc'[h].launch \in Named \cup {auth.gen}
    BY <1>3, <1>4, <1>5, <1>6 DEF Named
  <2>2. \A x \in Handles : loc'[x].launch \in Named \cup {auth.gen}
    BY <1>6, <2>1 DEF Named
  <2>. QED
    BY <1>1, <2>1, <2>2 DEF Named
<1>13. \A g \in Named : g \in Nat /\ g < auth.gen
  BY <1>1, <1>2, TypeFacts DEF Names, Fresh, Named, Gens, Choosing
<1>14. Fresh'
  <2>1. \A x \in Handles : auth'.holder = x => pc'[x] \notin Choosing
    BY <1>2, <1>4, SessionConstants DEF Choosing
  <2>2. \A g \in Named' : g <= auth'.gen
    BY <1>2, <1>4, <1>12, <1>13
  <2>. QED
    BY <2>1, <2>2 DEF Fresh
<1>15. Names'
  BY <1>1, <1>2, <1>4, <1>7, <1>8, <1>9, <1>10, <1>11, <1>14, NamesKept
<1>16. Requests'
  <2>1. CASE r = auth.launch
    BY <1>1, <1>2, <1>4, <1>8, <2>1, RequestsStep
  <2>2. CASE r.id = auth.gen
    <3>1. \A x \in Handles : pc'[x] = "dispatch" => pc[x] = "dispatch" /\ loc'[x] = loc[x] /\ Config(x)' = Config(x)
      BY <1>1, <1>4, <1>6 DEF Config
    <3>2. Orders' \subseteq Orders
      BY <1>1, <3>1 DEF Orders
    <3>3. \A o \in Orders : o.token \in Named
      BY DEF Orders, Named
    <3>4. \A o \in Orders : o.token # auth'.launch.id
      BY <1>2, <1>4, <1>13, <2>2, <3>3
    <3>. QED
      BY <1>2, <3>2, <3>4 DEF Requests
  <2>. QED
    BY <1>3, <2>1, <2>2
<1>17. Terminations'
  <2>1. pc'[h] \notin Recorded \cup {"deleting", "ready", "booting", "handoff", "publish", "commit", "mismatch", "intent"}
    BY <1>4 DEF Recorded
  <2>2. CASE r = auth.launch
    <3>1. Adoptable' = Adoptable
      BY <1>4, <2>2 DEF Adoptable
    <3>. QED
      BY <1>1, <1>2, <1>8, <2>1, <3>1, TerminationsStep
  <2>3. CASE r.id = auth.gen
    <3>1. Adoptable' = auth.gen
      BY <1>3, <1>4, <2>3 DEF Adoptable
    <3>2. \A k \in kills : k.vm # auth.gen
      BY <1>2, <1>13 DEF Named
    <3>3. \A x \in Handles : loc[x].launch # auth.gen
      BY <1>2, <1>13 DEF Named
    <3>4. ASSUME NEW x \in Handles \ {h}
          PROVE  /\ pc'[x] = "deleting" \/ (pc'[x] = "ready" /\ lease'[x] = 0 /\ ~loc'[x].paused) => Doomed(x)'
                 /\ auth'.holder # x
      BY <1>1, <1>2, <1>4, <1>6, SessionConstants DEF Terminations, Doomed
    <3>. QED
      BY <1>1, <1>4, <1>6, <2>1, <3>1, <3>2, <3>3, <3>4 DEF Terminations
  <2>. QED
    BY <1>3, <2>2, <2>3
<1>18. Safe'
  BY <1>15, <1>16, <1>17 DEF Safe
<1>19. ASSUME History PROVE History'
  <2>1. auth'.holder = h /\ ~loc[h].paused => Current(h)'
    BY <1>1, <1>2, <1>4, <1>5, <1>6, <1>19 DEF History, Current, Creating
  <2>. QED
    BY <1>1, <1>2, <1>3, <1>5, <1>6, <1>18, <1>19, <2>1, WriteHistory
<1>. QED
  BY <1>18, <1>19

LEMMA PersistRequestKeeps ==
    ASSUME Safe, NEW h \in Handles, PersistRequest(h)
    PROVE  Safe' /\ (History => History')
<1>. DEFINE r == RequestOf(h)
            l == [loc[h] EXCEPT !.activation = r.activation]
<1>1. /\ pc[h] = "request" /\ r.config = Config(h) /\ UpdateState(h, auth.metadata, r, "dispatch")
      /\ UNCHANGED <<world, vms, runs, kills, objects, origin, uploads>>
  BY DEF PersistRequest
<1>2. /\ TypeOK /\ Names /\ Requests /\ Terminations /\ LocalOK(h) /\ LaunchOK /\ auth.holder = h /\ lease[h] = auth.gen
      /\ auth.metadata \in Metadata /\ "dispatch" \in PCs /\ h # Nobody /\ Broken # 0
      /\ auth.gen \in 0..MaxGen /\ auth.gen # 0 /\ auth.launch \in Launches /\ lease[h] # 0 /\ HolderLaunch(h)
      /\ Config(h) \in Configs
  BY <1>1, HandleFacts, TypeFacts, SessionConstants
     DEF Safe, Names, HolderHolds, UpdateState, Held, PCs, Broken, TypeOK, Config, Configs
<1>3. /\ auth.launch.id = loc[h].launch /\ ~auth.launch.recorded /\ loc[h].launch # 0
  BY <1>1, <1>2 DEF HolderLaunch, LocalOK, Launching
<1>4. /\ r \in Launches /\ r.id = auth.launch.id /\ r.recorded = auth.launch.recorded /\ r.activation # 0
      /\ \/ auth.launch.activation # 0 /\ r = auth.launch
         \/ auth.launch.activation = 0
  <2>1. CASE auth.launch.activation # 0
    BY <1>2, <2>1 DEF RequestOf
  <2>2. CASE auth.launch.activation = 0
    <3>1. r = [auth.launch EXCEPT !.activation = auth.gen, !.config = Config(h)]
      BY <1>2, <2>2 DEF RequestOf
    <3>. QED
      BY <1>2, <2>2, <3>1 DEF Launches
  <2>. QED
    BY <2>1, <2>2
<1>. HIDE DEF r
<1>5. /\ auth' \in Authority /\ auth'.gen = auth.gen /\ auth'.metadata = auth.metadata /\ auth'.launch = r
      /\ pc' \in [Handles -> PCs] /\ lease' \in [Handles -> 0..Broken]
      /\ \A x \in Handles \ {h} : pc'[x] = pc[x] /\ lease'[x] = lease[x]
      /\ \/ auth'.holder = h /\ lease'[h] = lease[h] /\ pc'[h] = "dispatch"
         \/ auth'.holder = Nobody /\ lease'[h] = Broken /\ pc'[h] = "request"
  BY <1>1, <1>2, <1>4, WriteFacts
<1>6. /\ l \in Locals /\ l.launch = loc[h].launch /\ l.vm = loc[h].vm /\ l.metadata = loc[h].metadata
      /\ l.activation = r.activation /\ l.paused = loc[h].paused /\ loc' = [loc EXCEPT ![h] = l]
  BY <1>2, <1>4, TypeFacts DEF PersistRequest, r, Locals, Launches, TypeOK
<1>. HIDE DEF l
<1>7. loc' \in [Handles -> Locals] /\ loc'[h] = l /\ \A x \in Handles \ {h} : loc'[x] = loc[x]
  BY <1>2, <1>6 DEF TypeOK
<1>8. TypeOK'
  BY <1>1, <1>2, <1>5, <1>7 DEF TypeOK
<1>9. Moves(h) /\ AuthStep(h) /\ VmsStep /\ Adoptable' = Adoptable
  BY <1>1, <1>2, <1>4, <1>5, <1>7 DEF Moves, AuthStep, VmsStep, Adoptable
<1>10. LocalOK(h)'
  BY <1>1, <1>2, <1>4, <1>5, <1>6, <1>7 DEF LocalOK, Choosing, Launching, Owning, Creating
<1>11. LaunchOK' /\ (auth'.holder = h => HolderLaunch(h)')
  BY <1>2, <1>3, <1>4, <1>5, <1>6, <1>7 DEF HolderLaunch, LaunchOK
<1>12. Names'
  <2>1. (auth'.holder = h => lease'[h] = auth'.gen) /\ pc'[h] \notin Choosing \cup {"undo", "forget"}
    BY <1>2, <1>5 DEF Choosing
  <2>. QED
    BY <1>1, <1>2, <1>4, <1>5, <1>6, <1>7, <1>8, <1>9, <1>10, <1>11, <2>1, NamesStep
<1>13. Requests'
  <2>. DEFINE new == [token |-> auth.launch.id, activation |-> r.activation, config |-> r.config]
  <2>1. Orders' \subseteq Orders \cup {new}
    <3>1. \A x \in Handles : Config(x)' = Config(x)
      BY <1>1 DEF Config
    <3>. QED
      BY <1>1, <1>3, <1>5, <1>6, <1>7, <3>1 DEF Orders
  <2>2. \A o \in Orders : o.token = auth.launch.id => o = new
    <3>1. \A o \in Orders : o.activation # 0 /\ o = [token |-> o.token, activation |-> o.activation, config |-> o.config]
      <4>1. \A x \in Handles : pc[x] = "dispatch" => loc[x].activation # 0
        BY <1>2 DEF Names, LocalOK
      <4>2. \A s \in runs : s.activation # 0
        BY <1>2, TypeFacts DEF Gens
      <4>. QED
        BY <4>1, <4>2 DEF Orders
    <3>2. \A o \in Orders : o.token = auth.launch.id => o.activation = auth.launch.activation /\ o.config = auth.launch.config
      BY <1>2 DEF Requests
    <3>. QED
      BY <1>4, <3>1, <3>2
  <2>3. new.token = auth'.launch.id /\ new.activation = auth'.launch.activation /\ new.config = auth'.launch.config
    BY <1>4, <1>5
  <2>. HIDE DEF new
  <2>4. \A o, p \in Orders' : o.token = p.token => o = p
    BY <1>2, <1>4, <1>5, <2>1, <2>2, <2>3 DEF Requests
  <2>5. \A o \in Orders' : o.token = auth'.launch.id =>
          o.activation = auth'.launch.activation /\ o.config = auth'.launch.config
    BY <1>4, <1>5, <2>1, <2>2, <2>3
  <2>. QED
    BY <2>4, <2>5 DEF Requests
<1>14. Terminations'
  <2>1. pc'[h] \notin Recorded \cup {"deleting", "ready", "booting", "handoff", "publish", "commit", "mismatch", "intent"}
    BY <1>5 DEF Recorded
  <2>. QED
    BY <1>1, <1>2, <1>9, <2>1, TerminationsStep
<1>15. Safe'
  BY <1>12, <1>13, <1>14 DEF Safe
<1>16. ASSUME History PROVE History'
  <2>1. auth'.holder = h /\ ~loc[h].paused => Current(h)'
    BY <1>1, <1>2, <1>5, <1>6, <1>7, <1>16 DEF History, Current, Creating
  <2>. QED
    BY <1>1, <1>2, <1>4, <1>6, <1>7, <1>15, <1>16, <2>1, WriteHistory
<1>. QED
  BY <1>15, <1>16


-----------------------------------------------------------------------------
(* The lease is given up, or lost *)

LEMMA DropStep ==
    ASSUME Safe, NEW h \in Handles, NEW q \in PCs, NEW v \in 0..Broken,
           auth' \in Authority, auth'.gen = auth.gen, auth'.holder \in {auth.holder, Nobody}, auth'.holder # h,
           auth'.metadata = auth.metadata,
           auth'.launch = auth.launch \/ (auth.holder = h /\ auth'.launch = NoLaunch),
           pc' = [pc EXCEPT ![h] = q], lease' = [lease EXCEPT ![h] = v],
           loc' \in [Handles -> Locals], \A x \in Handles \ {h} : loc'[x] = loc[x],
           loc'[h].launch = loc[h].launch, loc'[h].vm = loc[h].vm,
           loc'[h].activation = loc[h].activation, loc'[h].paused = loc[h].paused,
           UNCHANGED <<world, vms, runs, kills, origin, uploads>>, objects' \subseteq Checkpoints,
           \/ q = pc[h] /\ v = lease[h]
           \/ /\ q \in {"late", "over", "ready"} /\ LocalOK(h)'
              /\ q = "ready" => pc[h] \in Recorded
              /\ q = "ready" /\ v = 0 /\ ~loc[h].paused => Doomed(h)
    PROVE  Safe'
<1>1. /\ TypeOK /\ Names /\ Requests /\ Terminations /\ LocalOK(h) /\ LaunchOK
      /\ pc[h] \in Recorded => loc[h].launch # Adoptable
      /\ pc[h] \in Recorded => loc[h].launch # 0
      /\ pc[h] = "undo" => vms[loc[h].vm].status = "gone"
      /\ pc[h] = "forget" => vms[loc[h].launch].status = "gone"
  BY HandleFacts DEF Safe, LocalOK, Recorded, Launching, Owning
<1>2. /\ pc' \in [Handles -> PCs] /\ pc'[h] = q /\ \A x \in Handles \ {h} : pc'[x] = pc[x]
      /\ lease' \in [Handles -> 0..Broken] /\ lease'[h] = v /\ \A x \in Handles \ {h} : lease'[x] = lease[x]
  BY <1>1 DEF TypeOK
<1>3. TypeOK'
  BY <1>1, <1>2 DEF TypeOK
<1>4. Moves(h) /\ AuthStep(h) /\ VmsStep
  BY <1>2 DEF Moves, AuthStep, VmsStep
<1>5. LaunchOK' /\ Adoptable' \in {Adoptable, 0} /\ auth'.launch.id \in {auth.launch.id, 0}
  BY <1>1, NoLaunchFacts DEF LaunchOK, Adoptable
<1>6. /\ LocalOK(h)'
      /\ pc'[h] \in Recorded => loc'[h].launch # Adoptable'
      /\ pc'[h] = "deleting" \/ (pc'[h] = "ready" /\ lease'[h] = 0 /\ ~loc'[h].paused) => Doomed(h)'
      /\ pc'[h] \in Choosing => pc[h] \in Choosing
      /\ pc'[h] \in {"dispatch", "mismatch", "intent", "commit", "undo", "forget"} => pc'[h] = pc[h]
  <2>1. Doomed(h)' <=> Doomed(h)
    BY DEF Doomed
  <2>2. CASE q = pc[h] /\ v = lease[h]
    <3>1. LocalOK(h)'
      BY <1>1, <1>2, <2>2 DEF LocalOK
    <3>2. pc[h] = "deleting" \/ (pc[h] = "ready" /\ lease[h] = 0 /\ ~loc[h].paused) => Doomed(h)
      BY <1>1 DEF Terminations
    <3>. QED
      BY <1>1, <1>2, <1>5, <2>1, <2>2, <3>1, <3>2
  <2>3. CASE /\ q \in {"late", "over", "ready"} /\ LocalOK(h)'
             /\ q = "ready" => pc[h] \in Recorded
             /\ q = "ready" /\ v = 0 /\ ~loc[h].paused => Doomed(h)
    <3>1. pc'[h] \in Recorded => pc[h] \in Recorded
      BY <1>2, <2>3 DEF Recorded
    <3>. QED
      BY <1>1, <1>2, <1>5, <2>1, <2>3, <3>1 DEF Choosing
  <2>. QED
    BY <2>2, <2>3
<1>7. Names'
  BY <1>1, <1>3, <1>4, <1>5, <1>6, NamesStep
<1>8. Requests'
  BY <1>1, <1>4, <1>5, <1>6, NoLaunchFacts, RequestsStep
<1>9. Terminations'
  BY <1>1, <1>4, <1>5, <1>6, TerminationsStep
<1>. QED
  BY <1>7, <1>8, <1>9 DEF Safe

LEMMA DropHistory ==
    ASSUME Safe, Safe', History, NEW h \in Handles, NEW q \in PCs, NEW v \in 0..Broken,
           auth'.gen = auth.gen, auth'.holder \in {auth.holder, Nobody}, auth'.holder # h,
           auth'.metadata = auth.metadata,
           auth'.launch = auth.launch \/ (auth.holder = h /\ auth'.launch = NoLaunch),
           pc' = [pc EXCEPT ![h] = q], lease' = [lease EXCEPT ![h] = v],
           \A x \in Handles \ {h} : loc'[x] = loc[x],
           loc'[h].metadata = loc[h].metadata, loc'[h].paused = loc[h].paused,
           UNCHANGED <<world, vms, objects, origin, uploads>>,
           \/ q = pc[h] /\ v = lease[h]
           \/ q \in {"late", "over"}
           \/ q = "ready" /\ loc[h].paused
    PROVE  History'
<1>1. TypeOK /\ Names /\ TypeOK'
  BY DEF Safe, Names
<1>2. /\ pc'[h] = q /\ \A x \in Handles \ {h} : pc'[x] = pc[x]
      /\ lease'[h] = v /\ \A x \in Handles \ {h} : lease'[x] = lease[x]
  BY <1>1 DEF TypeOK
<1>3. Moves(h) /\ AuthStep(h)
  BY <1>2 DEF Moves, AuthStep
<1>4. CheckpointPresent'
  BY DEF History, CheckpointPresent
<1>5. \A x \in Handles : pc[x] = "erase" /\ loc[x].metadata.checkpoint # 0 => Erasing(x)
  BY DEF History
<1>6. \A x \in Handles \ {h} : pc[x] = "erase" /\ loc[x].metadata.checkpoint # 0 =>
        loc[x].metadata.checkpoint # auth'.metadata.checkpoint
  BY <1>5 DEF Erasing
<1>7. pc'[h] \in Owning /\ ~loc'[h].paused => lease'[h] # 0
  BY <1>2 DEF History, Owning
<1>8. pc'[h] = "erase" /\ loc'[h].metadata.checkpoint # 0 => Erasing(h)'
  <2>1. ASSUME pc'[h] = "erase", loc'[h].metadata.checkpoint # 0 PROVE Erasing(h)
    BY <1>2, <1>5, <2>1
  <2>2. ASSUME NEW y \in Handles, auth'.holder = y PROVE auth.holder = y /\ pc'[y] = pc[y] /\ loc'[y] = loc[y]
    BY <1>2, <2>2, SessionConstants
  <2>. QED
    BY <2>1, <2>2 DEF Erasing
<1>. QED
  BY <1>1, <1>3, <1>4, <1>6, <1>7, <1>8, HistoryStep

\* What a release leaves alone.
LEMMA ReleaseFacts ==
    ASSUME Safe, NEW h \in Handles, auth' = Released(h)
    PROVE  /\ auth' \in Authority /\ auth'.gen = auth.gen /\ auth'.holder \in {auth.holder, Nobody}
           /\ auth'.holder # h /\ auth'.metadata = auth.metadata /\ auth'.launch = auth.launch
           /\ 0 \in 0..Broken /\ lease[h] \in 0..Broken /\ loc \in [Handles -> Locals] /\ objects \subseteq Checkpoints
  BY DropFacts, SessionConstants DEF Safe, Names, Broken, TypeOK

LEMMA CreateFailsKeeps ==
    ASSUME Safe, NEW h \in Handles, CreateFails(h)
    PROVE  Safe' /\ (History => History')
<1>. DEFINE q == IF loc[h].vm # 0 \/ (pc[h] = "running" /\ ~Held(h)) THEN "late" ELSE "over"
<1>1. /\ pc[h] \in Creating /\ auth' = Released(h) /\ lease' = [lease EXCEPT ![h] = 0]
      /\ pc' = [pc EXCEPT ![h] = q] /\ UNCHANGED <<world, vms, runs, kills, objects, origin, uploads, loc>>
  BY DEF CreateFails
<1>2. /\ TypeOK /\ LocalOK(h) /\ q \in PCs /\ q \in {"late", "over"} /\ (q = "late" => loc[h].launch # 0)
  BY HandleFacts DEF PCs, LocalOK, Launching
<1>. HIDE DEF q
<1>3. /\ auth' \in Authority /\ auth'.gen = auth.gen /\ auth'.holder \in {auth.holder, Nobody}
      /\ auth'.holder # h /\ auth'.metadata = auth.metadata /\ auth'.launch = auth.launch
      /\ 0 \in 0..Broken /\ loc' \in [Handles -> Locals] /\ objects' \subseteq Checkpoints
  BY <1>1, ReleaseFacts
<1>4. pc'[h] = q /\ LocalOK(h)'
  BY <1>1, <1>2 DEF TypeOK, LocalOK, Choosing, Launching, Owning, Creating
<1>5. Safe'
  BY <1>1, <1>2, <1>3, <1>4, DropStep
<1>. QED
  BY <1>1, <1>2, <1>3, <1>5, DropHistory

LEMMA ForgetKeeps ==
    ASSUME Safe, NEW h \in Handles, Forget(h)
    PROVE  Safe' /\ (History => History')
<1>1. /\ pc[h] = "forget" /\ Held(h) /\ lease' = [lease EXCEPT ![h] = 0] /\ pc' = [pc EXCEPT ![h] = "over"]
      /\ UNCHANGED <<world, vms, runs, kills, objects, origin, uploads, loc>>
  BY DEF Forget
<1>2. /\ TypeOK /\ LocalOK(h) /\ auth.holder = h /\ "over" \in PCs /\ h # Nobody
      /\ 0 \in 0..Broken /\ loc' \in [Handles -> Locals] /\ objects' \subseteq Checkpoints
  BY <1>1, HandleFacts, SessionConstants DEF PCs, Broken, TypeOK
<1>3. /\ auth' \in Authority /\ auth'.gen = auth.gen /\ auth'.holder = Nobody
      /\ auth'.metadata = auth.metadata /\ auth'.launch = NoLaunch
  <2>1. auth' = [auth EXCEPT !.launch = NoLaunch, !.holder = Nobody] /\ auth \in Authority /\ NoLaunch \in Launches
    BY <1>2, NoLaunchFacts DEF Forget, TypeOK
  <2>. QED
    BY <2>1 DEF Authority
<1>4. pc'[h] = "over" /\ LocalOK(h)'
  BY <1>1, <1>2 DEF TypeOK, LocalOK, Choosing, Launching, Owning, Creating
<1>5. Safe'
  BY <1>1, <1>2, <1>3, <1>4, DropStep
<1>. QED
  BY <1>1, <1>2, <1>3, <1>5, DropHistory

LEMMA CleanGivesUpKeeps ==
    ASSUME Safe, NEW h \in Handles, CleanGivesUp(h)
    PROVE  Safe' /\ (History => History')
<1>1. /\ auth' = Released(h) /\ lease' = [lease EXCEPT ![h] = 0] /\ pc' = [pc EXCEPT ![h] = "over"]
      /\ UNCHANGED <<world, vms, runs, kills, objects, origin, uploads, loc>>
      /\ pc[h] \in {"cleanup", "intent", "cleaning", "forget"}
  BY DEF CleanGivesUp
<1>2. TypeOK /\ LocalOK(h) /\ "over" \in PCs
  BY HandleFacts DEF PCs
<1>3. /\ auth' \in Authority /\ auth'.gen = auth.gen /\ auth'.holder \in {auth.holder, Nobody}
      /\ auth'.holder # h /\ auth'.metadata = auth.metadata /\ auth'.launch = auth.launch
      /\ 0 \in 0..Broken /\ loc' \in [Handles -> Locals] /\ objects' \subseteq Checkpoints
  BY <1>1, ReleaseFacts
<1>4. pc'[h] = "over" /\ LocalOK(h)'
  BY <1>1, <1>2 DEF TypeOK, LocalOK, Choosing, Launching, Owning, Creating
<1>5. Safe'
  BY <1>1, <1>2, <1>3, <1>4, DropStep
<1>. QED
  BY <1>1, <1>2, <1>3, <1>5, DropHistory

LEMMA ExpireKeeps ==
    ASSUME Safe, NEW h \in Handles, Expire(h)
    PROVE  Safe' /\ (History => History')
<1>1. auth.holder = h /\ UNCHANGED <<world, vms, runs, kills, objects, origin, uploads, pc, lease, loc>>
  BY DEF Expire
<1>2. /\ TypeOK /\ pc[h] \in PCs /\ h # Nobody /\ lease[h] \in 0..Broken
      /\ pc' = [pc EXCEPT ![h] = pc[h]] /\ lease' = [lease EXCEPT ![h] = lease[h]]
      /\ loc' \in [Handles -> Locals] /\ objects' \subseteq Checkpoints
  BY <1>1, HandleFacts DEF TypeOK
<1>3. /\ auth' \in Authority /\ auth'.gen = auth.gen /\ auth'.holder = Nobody
      /\ auth'.metadata = auth.metadata /\ auth'.launch = auth.launch
  BY <1>2 DEF Expire, TypeOK, Authority
<1>4. Safe'
  BY <1>1, <1>2, <1>3, DropStep
<1>. QED
  BY <1>1, <1>2, <1>3, <1>4, DropHistory


\* A capture or delete ends: the lease is given up unless a successor has it.
LEMMA LetGoFacts ==
    ASSUME Safe, NEW h \in Handles, LetGo(h)
    PROVE  /\ auth' \in Authority /\ auth'.gen = auth.gen /\ auth'.holder \in {auth.holder, Nobody}
           /\ auth'.holder # h /\ auth'.metadata = auth.metadata /\ auth'.launch = auth.launch
           /\ \E v \in 0..Broken : lease' = [lease EXCEPT ![h] = v]
<1>1. auth' = Released(h) /\ lease' = [lease EXCEPT ![h] = IF Releasable(h) THEN 0 ELSE @]
  BY DEF LetGo
<1>2. lease' = [lease EXCEPT ![h] = IF Releasable(h) THEN 0 ELSE lease[h]]
  BY <1>1 DEF Safe, Names, TypeOK
<1>. QED
  BY <1>1, <1>2, ReleaseFacts

LEMMA CapturedKeeps ==
    ASSUME Safe, NEW h \in Handles, Captured(h)
    PROVE  Safe' /\ (History => History')
<1>. DEFINE l == [loc[h] EXCEPT !.captured = TRUE]
<1>1. /\ pc[h] = "terminating" /\ LetGo(h) /\ pc' = [pc EXCEPT ![h] = "ready"]
      /\ UNCHANGED <<world, vms, runs, kills, objects, origin, uploads>>
  BY DEF Captured
<1>2. /\ TypeOK /\ LocalOK(h) /\ loc[h].paused /\ "ready" \in PCs /\ pc[h] \in Recorded /\ objects' \subseteq Checkpoints
  BY <1>1, HandleFacts DEF PCs, LocalOK, Recorded, TypeOK
<1>3. /\ l \in Locals /\ l.launch = loc[h].launch /\ l.vm = loc[h].vm /\ l.metadata = loc[h].metadata
      /\ l.activation = loc[h].activation /\ l.paused = loc[h].paused /\ loc' = [loc EXCEPT ![h] = l]
  BY <1>2, TypeFacts DEF Captured, Locals, TypeOK
<1>. HIDE DEF l
<1>4. /\ loc' \in [Handles -> Locals] /\ \A x \in Handles \ {h} : loc'[x] = loc[x]
      /\ loc'[h].launch = loc[h].launch /\ loc'[h].vm = loc[h].vm /\ loc'[h].activation = loc[h].activation
      /\ loc'[h].paused = loc[h].paused /\ loc'[h].metadata = loc[h].metadata /\ pc'[h] = "ready"
  BY <1>1, <1>2, <1>3 DEF TypeOK
<1>5. LocalOK(h)'
  BY <1>1, <1>2, <1>4 DEF LocalOK, Choosing, Launching, Owning, Creating
<1>6. /\ auth' \in Authority /\ auth'.gen = auth.gen /\ auth'.holder \in {auth.holder, Nobody}
      /\ auth'.holder # h /\ auth'.metadata = auth.metadata /\ auth'.launch = auth.launch
  BY <1>1, LetGoFacts
<1>7. PICK v \in 0..Broken : lease' = [lease EXCEPT ![h] = v]
  BY <1>1, LetGoFacts
<1>8. Safe'
  BY <1>1, <1>2, <1>4, <1>5, <1>6, <1>7, DropStep
<1>. QED
  BY <1>1, <1>2, <1>4, <1>6, <1>7, <1>8, DropHistory

LEMMA DeleteFailsKeeps ==
    ASSUME Safe, NEW h \in Handles, DeleteFails(h)
    PROVE  Safe' /\ (History /\ DeletesEnd => History')
<1>1. /\ pc[h] \in {"deleting", "unpublish", "erase"} /\ LetGo(h) /\ pc' = [pc EXCEPT ![h] = "ready"]
      /\ pc[h] = "deleting" => "survive" \in Faults
      /\ UNCHANGED <<world, vms, runs, kills, objects, origin, uploads, loc>>
  BY DEF DeleteFails
<1>2. /\ TypeOK /\ LocalOK(h) /\ "ready" \in PCs /\ pc[h] \in Recorded
      /\ objects' \subseteq Checkpoints /\ loc' \in [Handles -> Locals] /\ pc'[h] = "ready"
  BY <1>1, HandleFacts DEF PCs, Recorded, TypeOK
<1>3. pc[h] = "deleting" => Doomed(h)
  BY DEF Safe, Terminations
<1>4. pc[h] # "deleting" => loc[h].paused
  BY <1>1, <1>2 DEF LocalOK
<1>5. LocalOK(h)'
  BY <1>1, <1>2 DEF LocalOK, Choosing, Launching, Owning, Creating
<1>6. /\ auth' \in Authority /\ auth'.gen = auth.gen /\ auth'.holder \in {auth.holder, Nobody}
      /\ auth'.holder # h /\ auth'.metadata = auth.metadata /\ auth'.launch = auth.launch
  BY <1>1, LetGoFacts
<1>7. PICK v \in 0..Broken : lease' = [lease EXCEPT ![h] = v]
  BY <1>1, LetGoFacts
<1>8. Safe'
  BY <1>1, <1>2, <1>3, <1>4, <1>5, <1>6, <1>7, DropStep
<1>9. DeletesEnd => loc[h].paused
  BY <1>1, <1>2, <1>4 DEF DeletesEnd, Faults, TypeOK
<1>. QED
  BY <1>1, <1>2, <1>6, <1>7, <1>8, <1>9, DropHistory

LEMMA EraseKeeps ==
    ASSUME Safe, NEW h \in Handles, Erase(h)
    PROVE  Safe' /\ (History => History')
<1>. DEFINE c == loc[h].metadata.checkpoint
            l == [loc[h] EXCEPT !.metadata = NoMetadata, !.captured = FALSE, !.shutDown = TRUE]
<1>1. /\ pc[h] = "erase" /\ LetGo(h) /\ pc' = [pc EXCEPT ![h] = "ready"] /\ objects' = objects \ {c}
      /\ UNCHANGED <<world, vms, runs, kills, origin, uploads>>
  BY DEF Erase
<1>2. /\ TypeOK /\ LocalOK(h) /\ loc[h].paused /\ "ready" \in PCs /\ pc[h] \in Recorded /\ objects' \subseteq Checkpoints
      /\ loc \in [Handles -> Locals]
  BY <1>1, HandleFacts DEF PCs, LocalOK, Recorded, TypeOK
<1>3. /\ l \in Locals /\ l.launch = loc[h].launch /\ l.vm = loc[h].vm /\ l.metadata = NoMetadata
      /\ l.activation = loc[h].activation /\ l.paused = loc[h].paused /\ loc' = [loc EXCEPT ![h] = l]
  <2>1. loc[h] \in Locals
    BY <1>2
  <2>2. /\ l \in Locals /\ l.launch = loc[h].launch /\ l.vm = loc[h].vm /\ l.metadata = NoMetadata
        /\ l.activation = loc[h].activation /\ l.paused = loc[h].paused
    BY <2>1, NoLaunchFacts DEF Locals
  <2>3. loc' = [loc EXCEPT ![h] = l]
    BY <1>2 DEF Erase
  <2>. QED
    BY <2>2, <2>3
<1>. HIDE DEF l
<1>4. /\ loc' \in [Handles -> Locals] /\ \A x \in Handles \ {h} : loc'[x] = loc[x]
      /\ loc'[h].launch = loc[h].launch /\ loc'[h].vm = loc[h].vm /\ loc'[h].activation = loc[h].activation
      /\ loc'[h].paused = loc[h].paused /\ loc'[h].metadata = NoMetadata /\ pc'[h] = "ready"
      /\ \A x \in Handles \ {h} : pc'[x] = pc[x]
  BY <1>1, <1>2, <1>3 DEF TypeOK
<1>5. LocalOK(h)'
  BY <1>1, <1>2, <1>4 DEF LocalOK, Choosing, Launching, Owning, Creating
<1>6. /\ auth' \in Authority /\ auth'.gen = auth.gen /\ auth'.holder \in {auth.holder, Nobody}
      /\ auth'.holder # h /\ auth'.metadata = auth.metadata /\ auth'.launch = auth.launch
  BY <1>1, LetGoFacts
<1>7. PICK v \in 0..Broken : lease' = [lease EXCEPT ![h] = v]
  BY <1>1, LetGoFacts
<1>8. Safe'
  BY <1>1, <1>2, <1>4, <1>5, <1>6, <1>7, DropStep
<1>. HIDE DEF c
<1>9. ASSUME History PROVE History'
  <2>1. Uploaded /\ CheckpointPresent /\ (c # 0 => Erasing(h))
    BY <1>1, <1>9 DEF History, c
  <2>2. uploads \in Nat /\ \A x \in Handles \ {h} : lease'[x] = lease[x]
    BY <1>2, <1>7, SessionConstants DEF TypeOK
  <2>3. Uploaded'
    BY <1>1, <1>4, <1>6, <2>1, <2>2, NoLaunchFacts DEF Uploaded
  <2>4. CheckpointPresent'
    BY <1>1, <1>6, <2>1 DEF CheckpointPresent, Erasing, c
  <2>5. ASSUME NEW x \in Handles \ {h}
        PROVE  /\ pc'[x] \in Owning /\ ~loc'[x].paused => lease'[x] # 0
               /\ auth'.holder = x /\ ~loc'[x].paused => Current(x)'
               /\ pc'[x] = "erase" /\ loc'[x].metadata.checkpoint # 0 => Erasing(x)'
    <3>1. pc'[x] = pc[x] /\ loc'[x] = loc[x] /\ lease'[x] = lease[x] /\ x # Nobody
      BY <1>4, <2>2, SessionConstants
    <3>2. ASSUME auth'.holder = x, ~loc[x].paused PROVE Current(x)'
      <4>1. auth.holder = x /\ Current(x)
        BY <1>6, <1>9, <3>1, <3>2 DEF History
      <4>2. pc[x] = "publish" => loc[x].pending.checkpoint \in objects' \cup {0}
        BY <1>1, <2>1, <4>1 DEF Current, Erasing, c
      <4>. QED
        BY <1>1, <1>6, <3>1, <4>1, <4>2 DEF Current
    <3>3. ASSUME pc[x] = "erase", loc[x].metadata.checkpoint # 0 PROVE Erasing(x)'
      <4>1. Erasing(x)
        BY <1>9, <3>3 DEF History
      <4>2. ASSUME NEW y \in Handles, auth'.holder = y PROVE auth.holder = y /\ pc'[y] = pc[y] /\ loc'[y] = loc[y]
        BY <1>4, <1>6, <4>2, SessionConstants
      <4>. QED
        BY <1>6, <3>1, <4>1, <4>2 DEF Erasing
    <3>. QED
      BY <1>9, <3>1, <3>2, <3>3 DEF History
  <2>. QED
    BY <1>2, <1>4, <1>6, <2>3, <2>4, <2>5 DEF History
<1>. QED
  BY <1>8, <1>9

-----------------------------------------------------------------------------
(* The environment *)

LEMMA EnvironmentStep ==
    ASSUME Safe, UNCHANGED <<world, auth, runs, objects, origin, uploads, pc, lease, loc>>,
           kills' \subseteq kills, vms' \in [Gens -> Vms], VmsStep,
           \A g \in Gens : vms'[g].content = vms[g].content
    PROVE  Safe' /\ (History => History')
<1>1. /\ TypeOK /\ Names /\ Requests /\ Terminations /\ LaunchOK /\ MaxGen \in Nat
      /\ auth.launch.id \in 0..MaxGen /\ \A h \in Handles : loc[h].vm \in 0..MaxGen /\ loc[h].launch \in 0..MaxGen
  BY TypeFacts DEF Safe, Names
<1>2. TypeOK' /\ HolderHolds' /\ LaunchOK'
  BY <1>1 DEF Names, TypeOK, HolderHolds, LaunchOK
<1>3. Fresh'
  <2>1. Named' \subseteq Named
    BY DEF Named
  <2>. QED
    BY <1>1, <2>1 DEF Names, Fresh
<1>4. ASSUME NEW h \in Handles
      PROVE  /\ LocalOK(h)' /\ (auth'.holder = h => HolderLaunch(h)')
             /\ pc'[h] = "undo" => vms'[loc'[h].vm].status = "gone"
             /\ pc'[h] = "forget" => vms'[loc'[h].launch].status = "gone"
             /\ pc'[h] \in Owning => loc[h].vm \in Gens
  <2>1. /\ LocalOK(h) /\ (auth.holder = h => HolderLaunch(h))
        /\ pc[h] = "undo" => vms[loc[h].vm].status = "gone"
        /\ pc[h] = "forget" => vms[loc[h].launch].status = "gone"
    BY <1>1 DEF Names
  <2>2. LocalOK(h)'
    BY <2>1 DEF LocalOK
  <2>3. auth.launch.recorded => auth.launch.id \in Gens
    BY <1>1 DEF LaunchOK, Gens
  <2>4. auth'.holder = h => HolderLaunch(h)'
    BY <2>1, <2>3 DEF HolderLaunch, VmsStep
  <2>5. (pc[h] \in Owning => loc[h].vm \in Gens) /\ (pc[h] = "forget" => loc[h].launch \in Gens)
    BY <1>1, <2>1 DEF LocalOK, Owning, Launching, Gens
  <2>. QED
    BY <2>1, <2>2, <2>4, <2>5 DEF VmsStep, Owning
<1>5. Names'
  BY <1>2, <1>3, <1>4 DEF Names
<1>6. Requests'
  <2>1. Orders' = Orders
    BY DEF Orders, Config
  <2>. QED
    BY <1>1, <2>1 DEF Requests
<1>7. Terminations'
  <2>1. Adoptable' = Adoptable
    BY DEF Adoptable
  <2>2. ASSUME NEW h \in Handles, pc[h] \in Owning, Doomed(h) PROVE Doomed(h)'
    BY <1>4, <2>2 DEF Doomed, VmsStep
  <2>3. ASSUME NEW h \in Handles, Alone(h) PROVE Alone(h)'
    BY <2>3 DEF Alone
  <2>4. {"deleting", "ready", "booting", "handoff", "publish", "commit"} \subseteq Owning
    BY DEF Owning
  <2>. QED
    BY <1>1, <2>1, <2>2, <2>3, <2>4 DEF Terminations
<1>8. ASSUME History PROVE History'
  <2>1. Uploaded' /\ CheckpointPresent'
    BY <1>8 DEF History, Uploaded, CheckpointPresent
  <2>2. ASSUME NEW h \in Handles, Current(h) PROVE Current(h)'
    BY <1>4, <2>2 DEF Current, Owning
  <2>3. ASSUME NEW h \in Handles, Erasing(h) PROVE Erasing(h)'
    BY <2>3 DEF Erasing
  <2>. QED
    BY <1>8, <2>1, <2>2, <2>3 DEF History
<1>. QED
  BY <1>5, <1>6, <1>7, <1>8 DEF Safe

\* A MicroVM starts or ends.
LEMMA StatusFacts ==
    ASSUME TypeOK, NEW g \in Gens, NEW s \in {"running", "gone"}, vms' = [vms EXCEPT ![g].status = s]
    PROVE  /\ vms' \in [Gens -> Vms] /\ vms'[g].status = s
           /\ \A x \in Gens \ {g} : vms'[x] = vms[x]
           /\ \A x \in Gens : vms'[x].content = vms[x].content
<1>. DEFINE v == [vms[g] EXCEPT !.status = s]
<1>1. v \in Vms /\ v.status = s /\ v.content = vms[g].content /\ vms' = [vms EXCEPT ![g] = v] /\ vms \in [Gens -> Vms]
  BY DEF TypeOK, Vms
<1>. HIDE DEF v
<1>. QED
  BY <1>1

LEMMA ServeRunKeeps ==
    ASSUME Safe, NEW r \in runs, ServeRun(r)
    PROVE  Safe' /\ (History => History')
<1>1. /\ TypeOK /\ r.token \in Gens /\ vms[r.token].status = "none" /\ vms' = [vms EXCEPT ![r.token].status = "running"]
      /\ UNCHANGED <<world, auth, runs, kills, objects, origin, uploads, pc, lease, loc>>
  BY TypeFacts DEF Safe, Names, ServeRun
<1>2. VmsStep
  BY <1>1, StatusFacts DEF VmsStep
<1>. QED
  BY <1>1, <1>2, StatusFacts, EnvironmentStep

LEMMA ServeKillKeeps ==
    ASSUME Safe, NEW k \in kills, ServeKill(k)
    PROVE  Safe' /\ (History => History')
<1>1. /\ TypeOK /\ k.vm \in Gens /\ vms' = [vms EXCEPT ![k.vm].status = "gone"] /\ kills' = kills \ {k}
      /\ UNCHANGED <<world, auth, runs, objects, origin, uploads, pc, lease, loc>>
  BY TypeFacts DEF Safe, Names, ServeKill
<1>2. VmsStep
  BY <1>1, StatusFacts DEF VmsStep
<1>. QED
  BY <1>1, <1>2, StatusFacts, EnvironmentStep

LEMMA VmRetiredKeeps ==
    ASSUME Safe, NEW g \in Gens, VmRetired(g)
    PROVE  Safe' /\ (History => History')
<1>1. /\ TypeOK /\ vms' = [vms EXCEPT ![g].status = "gone"]
      /\ UNCHANGED <<world, auth, runs, kills, objects, origin, uploads, pc, lease, loc>>
  BY DEF Safe, Names, VmRetired
<1>2. VmsStep
  BY <1>1, StatusFacts DEF VmsStep
<1>. QED
  BY <1>1, <1>2, StatusFacts, EnvironmentStep


-----------------------------------------------------------------------------
(* The invariant holds *)

LEMMA InitSafe == Init => Safe /\ History
<1>. SUFFICES ASSUME Init PROVE Safe /\ History
  OBVIOUS
<1>. DEFINE z == [launch |-> 0, activation |-> 0, vm |-> 0, metadata |-> NoMetadata, pending |-> NoMetadata,
                  paused |-> FALSE, captured |-> FALSE, shutDown |-> FALSE]
            a == [gen |-> 0, holder |-> Nobody, metadata |-> NoMetadata, launch |-> NoLaunch]
            v == [status |-> "none", content |-> 0, dirty |-> FALSE]
<1>1. /\ z \in Locals /\ z.launch = 0 /\ z.vm = 0 /\ ~z.paused /\ z.metadata = NoMetadata
      /\ a \in Authority /\ a.gen = 0 /\ a.holder = Nobody /\ a.metadata = NoMetadata /\ a.launch = NoLaunch
      /\ v \in Vms
  BY NoLaunchFacts, SessionConstants DEF Locals, Authority, Vms
<1>2. /\ world \in Worlds /\ auth = a /\ vms = [g \in Gens |-> v] /\ runs = {} /\ kills = {} /\ objects = {}
      /\ origin = [c \in Checkpoints |-> 0] /\ uploads = 0 /\ pc = [h \in Handles |-> "idle"]
      /\ lease = [h \in Handles |-> 0] /\ loc = [h \in Handles |-> z]
  BY DEF Init
<1>. HIDE DEF z, a, v
<1>3. /\ \A h \in Handles : pc[h] = "idle" /\ lease[h] = 0 /\ loc[h] = z /\ auth.holder # h
      /\ "idle" \in PCs /\ 0 \in 0..Broken
  BY <1>1, <1>2, SessionConstants DEF PCs, Broken
<1>4. TypeOK
  BY <1>1, <1>2, <1>3, SessionConstants DEF TypeOK
<1>5. Fresh
  <2>1. \A g \in Named : g = 0
    BY <1>1, <1>2, <1>3, NoLaunchFacts DEF Named
  <2>. QED
    BY <1>1, <1>2, <1>3, <2>1 DEF Fresh
<1>6. Names
  BY <1>1, <1>2, <1>3, <1>4, <1>5, NoLaunchFacts
     DEF Names, HolderHolds, LaunchOK, LocalOK, Choosing, Launching, Owning, Creating
<1>7. Requests /\ Terminations
  <2>1. Orders = {}
    BY <1>2, <1>3 DEF Orders
  <2>. QED
    BY <1>2, <1>3, <2>1 DEF Requests, Terminations, Recorded
<1>8. History
  BY <1>1, <1>2, <1>3, NoLaunchFacts DEF History, Uploaded, CheckpointPresent, Owning
<1>. QED
  BY <1>6, <1>7, <1>8 DEF Safe

LEMMA StutterSafe ==
    ASSUME Safe, UNCHANGED vars
    PROVE  Safe' /\ (History => History')
<1>1. /\ UNCHANGED <<world, auth, runs, objects, origin, uploads, pc, lease, loc>> /\ kills' = kills /\ vms' = vms
      /\ vms \in [Gens -> Vms]
  BY DEF vars, Safe, Names, TypeOK
<1>2. VmsStep
  BY <1>1 DEF VmsStep
<1>. QED
  BY <1>1, <1>2, EnvironmentStep

LEMMA NextSafe ==
    ASSUME Safe, [Next]_vars
    PROVE  Safe' /\ (DeletesEnd /\ History => History')
<1>1. ASSUME NEW h \in Handles, Create(h) PROVE Safe' /\ (History => History')
  BY <1>1, AcquireKeeps, RetirePreviousKeeps, PreviousRetiredKeeps, IdentifyKeeps, PersistRequestKeeps, DispatchKeeps,
     LaunchedKeeps, MismatchedKeeps, MismatchKeeps, MismatchKillKeeps, RecordKeeps, BootKeeps, HandoffKeeps,
     BootFailsKeeps, AbandonedKeeps, UndoKeeps, CreateFailsKeeps DEF Create
<1>2. ASSUME NEW h \in Handles, CleanUp(h) PROVE Safe' /\ (History => History')
  BY <1>2, CleanAcquireKeeps, PublishIntentKeeps, CleanKillKeeps, CleanConfirmedKeeps, ForgetKeeps, CleanGivesUpKeeps
     DEF CleanUp
<1>3. ASSUME NEW h \in Handles, Finish(h) PROVE Safe' /\ (DeletesEnd /\ History => History')
  BY <1>3, PublishKeeps, PublishFailsKeeps, CommitKeeps, CommitFailsKeeps, CapturedKeeps, TerminateFailsKeeps,
     DeleteConfirmedKeeps, UnpublishKeeps, EraseKeeps, DeleteFailsKeeps DEF Finish
<1>4. ASSUME NEW h \in Handles, Handle(h) PROVE Safe' /\ (DeletesEnd /\ History => History')
  BY <1>3, <1>4, EnsureLeaseKeeps, MutateKeeps, UploadKeeps, StopKeeps, DeleteKeeps DEF Handle
<1>5. ASSUME NEW h \in Handles, Expire(h) \/ Crash(h) PROVE Safe' /\ (History => History')
  BY <1>5, ExpireKeeps, CrashKeeps
<1>. QED
  BY <1>1, <1>2, <1>4, <1>5, ServeRunKeeps, ServeKillKeeps, VmRetiredKeeps, StutterSafe DEF Next

LEMMA SafeAlways == Spec => []Safe
<1>1. Init => Safe
  BY InitSafe
<1>2. Safe /\ [Next]_vars => Safe'
  BY NextSafe
<1>. QED
  BY <1>1, <1>2, PTL DEF Spec

LEMMA HistoryAlways ==
    ASSUME DeletesEnd
    PROVE  Spec => [](Safe /\ History)
<1>1. Init => Safe /\ History
  BY InitSafe
<1>2. Safe /\ History /\ [Next]_vars => Safe' /\ History'
  BY NextSafe
<1>. QED
  BY <1>1, <1>2, PTL DEF Spec

\* The variables of the session handles, the lease authority and the MicroVMs
\* keep their types, whatever fails.
THEOREM SessionTypes == Spec => []TypeOK
<1>1. Safe => TypeOK
  BY DEF Safe, Names
<1>. QED
  BY <1>1, SafeAlways, PTL

\* However often create() is retried, by whom and with which options: the
\* RunMicrovm requests of one client token are identical, because the request
\* is persisted under the lease before it is sent and never changed after that.
THEOREM RetriesAreIdentical == Spec => []SameTokenSameRequest
<1>1. Safe => SameTokenSameRequest
  <2>1. ASSUME Safe, NEW r \in runs, NEW s \in runs, r.token = s.token
        PROVE  r.activation = s.activation /\ r.config = s.config
    <3>. DEFINE O(x) == [token |-> x.token, activation |-> x.activation, config |-> x.config]
    <3>1. O(r) \in Orders /\ O(s) \in Orders
      BY DEF Orders
    <3>2. O(r) = O(s)
      BY <2>1, <3>1 DEF Safe, Requests
    <3>. QED
      BY <3>2
  <2>. QED
    BY <2>1 DEF SameTokenSameRequest
<1>. QED
  BY <1>1, SafeAlways, PTL

\* However late a termination is carried out, it never hits a MicroVM that the
\* session's owner is using, unless the owner ordered it: a MicroVM is recorded
\* before anybody may end it, and a recorded one is never adopted.
THEOREM TerminationsHitNoOwner == Spec => []AdoptedNeverKilled
<1>1. Safe => AdoptedNeverKilled
  <2>1. ASSUME Safe, NEW k \in kills, NEW h \in Handles, Uses(h, k.vm), vms[k.vm].status = "running"
        PROVE  [by |-> h, vm |-> k.vm] \in kills
    <3>1. /\ LocalOK(h) /\ auth.holder = h /\ HolderLaunch(h) /\ k.vm # Adoptable
          /\ k \in Kills
      BY <2>1, HandleFacts DEF Safe, Names, Terminations, Uses, Held, TypeOK
    <3>2. k = [by |-> k.by, vm |-> k.vm]
      BY <3>1 DEF Kills
    <3>3. CASE pc[h] \in {"running", "launched"}
      BY <2>1, <3>1, <3>3 DEF Uses, HolderLaunch, Adoptable
    <3>4. CASE pc[h] \notin {"running", "launched"}
      <4>1. pc[h] \in {"booting", "handoff", "ready", "publish", "commit"} /\ loc[h].vm = k.vm /\ ~loc[h].paused
        BY <2>1, <3>1, <3>4 DEF Uses, LocalOK, Owning, Creating
      <4>2. Doomed(h) \/ Alone(h)
        BY <2>1, <3>1, <4>1 DEF Safe, Terminations
      <4>. QED
        BY <2>1, <3>2, <4>1, <4>2 DEF Doomed, Alone
    <3>. QED
      BY <3>3, <3>4
  <2>. QED
    BY <2>1 DEF AdoptedNeverKilled
<1>. QED
  BY <1>1, SafeAlways, PTL

\* The checkpoint the authority names is in S3: delete() erases an object only
\* after it has unpublished it, and no handle publishes an erased one.
THEOREM CheckpointIsKept ==
    ASSUME DeletesEnd
    PROVE  Spec => []CheckpointPresent
<1>1. Safe /\ History => CheckpointPresent
  BY DEF History
<1>. QED
  BY <1>1, HistoryAlways, PTL

-----------------------------------------------------------------------------
(* What a step may never do *)

\* The writes that may change the checkpoint or the launch identity.
LEMMA AuthorityMoves ==
    ASSUME Safe, [Next]_vars
    PROVE  \/ auth'.metadata = auth.metadata /\ auth'.launch.id = auth.launch.id
           \/ \E h \in Handles : Identify(h) \/ Undo(h) \/ Forget(h) \/ Publish(h) \/ Unpublish(h)
<1>. DEFINE Kept == auth'.metadata = auth.metadata /\ auth'.launch.id = auth.launch.id
<1>1. TypeOK /\ auth \in Authority /\ auth.metadata \in Metadata
  BY TypeFacts DEF Safe, Names, TypeOK
<1>2. ASSUME NEW h \in Handles, auth' = Taken(h) \/ auth' = Released(h) \/ auth' = auth PROVE Kept
  BY <1>1, <1>2 DEF Taken, Released, Authority
<1>3. ASSUME NEW h \in Handles, Mismatch(h) \/ Record(h) \/ PublishIntent(h) PROVE Kept
  <2>. DEFINE r == [auth.launch EXCEPT !.recorded = TRUE]
  <2>1. r \in Launches /\ r.id = auth.launch.id
    BY <1>1, RecordFacts
  <2>2. PICK q \in PCs : UpdateState(h, auth.metadata, r, q)
    BY <1>3 DEF Mismatch, Record, PublishIntent, PCs
  <2>. HIDE DEF r
  <2>. QED
    BY <1>1, <2>1, <2>2, WriteFacts
<1>4. ASSUME NEW h \in Handles, PersistRequest(h) PROVE Kept
  <2>. DEFINE r == RequestOf(h)
  <2>1. r \in Launches /\ r.id = auth.launch.id /\ "dispatch" \in PCs
    <3>1. lease[h] = auth.gen /\ auth.gen \in 0..MaxGen /\ Config(h) \in Configs /\ auth.launch \in Launches
      BY <1>1, <1>4, TypeFacts DEF PersistRequest, UpdateState, Held, TypeOK, Config, Configs
    <3>. QED
      BY <3>1 DEF RequestOf, Launches, PCs
  <2>2. UpdateState(h, auth.metadata, r, "dispatch")
    BY <1>4 DEF PersistRequest
  <2>. HIDE DEF r
  <2>. QED
    BY <1>1, <2>1, <2>2, WriteFacts
<1>5. ASSUME NEW h \in Handles, Create(h) PROVE Kept \/ Identify(h) \/ Undo(h)
  <2>1. CASE Acquire(h) \/ CreateFails(h)
    BY <1>2, <2>1 DEF Acquire, CreateFails
  <2>2. CASE Mismatch(h) \/ Record(h) \/ PersistRequest(h)
    BY <1>3, <1>4, <2>2
  <2>3. CASE \/ RetirePrevious(h) \/ PreviousRetired(h) \/ Dispatch(h) \/ Launched(h) \/ Mismatched(h)
             \/ MismatchKill(h) \/ Boot(h) \/ Handoff(h) \/ BootFails(h) \/ Abandoned(h)
    BY <2>3 DEF RetirePrevious, PreviousRetired, Dispatch, Launched, Mismatched, MismatchKill, Boot, Handoff,
                BootFails, Abandoned
  <2>. QED
    BY <1>5, <2>1, <2>2, <2>3 DEF Create
<1>6. ASSUME NEW h \in Handles, CleanUp(h) PROVE Kept \/ Forget(h)
  <2>1. CASE CleanAcquire(h) \/ CleanGivesUp(h) \/ CleanKill(h) \/ CleanConfirmed(h)
    BY <1>2, <2>1 DEF CleanAcquire, CleanGivesUp, CleanKill, CleanConfirmed
  <2>. QED
    BY <1>3, <1>6, <2>1 DEF CleanUp
<1>7. ASSUME NEW h \in Handles, Handle(h) PROVE Kept \/ Publish(h) \/ Unpublish(h)
  <2>1. CASE EnsureLease(h) \/ Captured(h) \/ Erase(h) \/ DeleteFails(h)
    BY <1>2, <2>1 DEF EnsureLease, Captured, Erase, DeleteFails, LetGo
  <2>2. CASE \/ Mutate(h) \/ Upload(h) \/ PublishFails(h) \/ Commit(h) \/ CommitFails(h) \/ TerminateFails(h)
             \/ DeleteConfirmed(h) \/ Stop(h) \/ Delete(h)
    BY <2>2 DEF Mutate, Upload, PublishFails, Commit, CommitFails, TerminateFails, DeleteConfirmed, Stop, Delete
  <2>. QED
    BY <1>7, <2>1, <2>2 DEF Handle, Finish
<1>8. ASSUME NEW h \in Handles, Expire(h) \/ Crash(h) PROVE Kept
  BY <1>1, <1>8 DEF Expire, Crash, Authority
<1>9. CASE (\E r \in runs : ServeRun(r)) \/ (\E k \in kills : ServeKill(k)) \/ (\E g \in Gens : VmRetired(g)) \/ UNCHANGED vars
  BY <1>9 DEF ServeRun, ServeKill, VmRetired, vars
<1>. QED
  BY <1>5, <1>6, <1>7, <1>8, <1>9 DEF Next

\* Nothing saved is lost: whoever publishes a checkpoint made it on top of the
\* one it replaces.
THEOREM CheckpointsAreLinear ==
    ASSUME DeletesEnd
    PROVE  Spec => LinearHistory
<1>. DEFINE Linear == auth'.metadata.checkpoint \in Checkpoints =>
                        \/ auth'.metadata.checkpoint = auth.metadata.checkpoint
                        \/ origin[auth'.metadata.checkpoint] = auth.metadata.checkpoint
<1>1. Safe /\ History /\ [Next]_vars => [Linear]_vars
  <2>. SUFFICES ASSUME Safe, History, [Next]_vars PROVE Linear
    OBVIOUS
  <2>1. ASSUME NEW h \in Handles, Identify(h) \/ Undo(h) \/ Forget(h) PROVE auth'.metadata = auth.metadata
    BY <2>1 DEF Identify, Undo, Forget, UpdateState, Safe, Names, TypeOK, Authority
  <2>2. ASSUME NEW h \in Handles, Unpublish(h) PROVE auth'.metadata.checkpoint = 0
    BY <2>2, NoLaunchFacts DEF Unpublish, UpdateState, Safe, Names, TypeOK, Authority
  <2>3. ASSUME NEW h \in Handles, Publish(h)
        PROVE  /\ auth'.metadata = loc[h].pending
               /\ \/ loc[h].pending.checkpoint \in {0, auth.metadata.checkpoint}
                  \/ origin[loc[h].pending.checkpoint] = auth.metadata.checkpoint
    <3>1. auth'.metadata = loc[h].pending
      BY <2>3 DEF Publish, UpdateState, Safe, Names, TypeOK, Authority
    <3>2. pc[h] = "publish" /\ auth.holder = h /\ ~loc[h].paused
      BY <2>3, HandleFacts DEF Publish, UpdateState, Held, LocalOK
    <3>. QED
      BY <3>1, <3>2 DEF History, Current
  <2>4. 0 \notin Checkpoints
    BY SessionConstants DEF Checkpoints
  <2>. QED
    BY <2>1, <2>2, <2>3, <2>4, AuthorityMoves
<1>. QED
  BY <1>1, HistoryAlways, PTL DEF Spec, LinearHistory

\* A launch whose MicroVM may be running is forgotten by the handle that uses
\* the MicroVM, or by delete(): anybody else has seen that it is gone.
THEOREM RunningIsRemembered ==
    ASSUME DeletesEnd
    PROVE  Spec => OnlyOwnersForget
<1>. DEFINE Owner == auth.launch.id # 0 /\ vms[auth.launch.id].status = "running" /\ auth'.launch.id # auth.launch.id
                     => \E h \in Handles : \/ pc[h] = "publish" /\ loc[h].vm = auth.launch.id
                                           \/ pc[h] = "unpublish"
<1>1. Safe /\ History /\ [Next]_vars => [Owner]_vars
  <2>. SUFFICES ASSUME Safe, History, [Next]_vars, auth.launch.id # 0, vms[auth.launch.id].status = "running",
                       auth'.launch.id # auth.launch.id
                PROVE  \E h \in Handles : \/ pc[h] = "publish" /\ loc[h].vm = auth.launch.id
                                          \/ pc[h] = "unpublish"
    OBVIOUS
  <2>1. ASSUME NEW h \in Handles, Undo(h) \/ Forget(h) PROVE FALSE
    BY <2>1, HandleFacts DEF Undo, Forget, UpdateState, Held, HolderLaunch, LocalOK, Owning
  <2>2. ASSUME NEW h \in Handles, Identify(h) PROVE FALSE
    <3>1. pc[h] = "identify" /\ HolderLaunch(h) /\ UpdateState(h, auth.metadata, LaunchOf(h), "request")
      BY <2>2, HandleFacts DEF Identify, UpdateState, Held
    <3>2. ~auth.launch.recorded
      BY <3>1 DEF HolderLaunch
    <3>3. LaunchOf(h) = auth.launch
      BY <3>2 DEF LaunchOf
    <3>. QED
      BY <3>1, <3>3 DEF UpdateState, Safe, Names, TypeOK, Authority
  <2>3. ASSUME NEW h \in Handles, Publish(h) PROVE pc[h] = "publish" /\ loc[h].vm = auth.launch.id
    <3>1. pc[h] = "publish" /\ auth.holder = h /\ ~loc[h].paused
      BY <2>3, HandleFacts DEF Publish, UpdateState, Held, LocalOK
    <3>. QED
      BY <3>1 DEF History, Current
  <2>4. ASSUME NEW h \in Handles, Unpublish(h) PROVE pc[h] = "unpublish"
    BY <2>4 DEF Unpublish
  <2>. QED
    BY <2>1, <2>2, <2>3, <2>4, AuthorityMoves
<1>. QED
  BY <1>1, HistoryAlways, PTL DEF Spec, OnlyOwnersForget

=============================================================================
