----------------------- MODULE MicrovmControllerProofs -----------------------
(* Proofs about MicrovmController for every set of writes, removals and    *)
(* processes and any number of tries, captures and failures.               *)
EXTENDS MicrovmController, TLAPS

-----------------------------------------------------------------------------
(* The inductive invariant: requests and what they are about *)

Launching == {"health", "restore"}
Writing == {"begin", "chunk", "commit_write", "abort"}
Capturing == {"prepare", "upload", "publish", "commit", "terminate", "release"}

\* A request, or the step an operation is at, has an argument of its kind.
Fits(x) ==
    /\ x.kind \in Launching => x.arg = Nothing
    /\ x.kind \in Writing => x.arg \in Writes
    /\ x.kind = "remove" => x.arg \in Removals
    /\ x.kind \in {"spawn", "kill"} => x.arg \in Processes
    /\ x.kind \in Capturing => x.arg \in 1..captures
    /\ IF x.kind = "chunk" THEN x.offset < Chunks ELSE x.offset = 0

Shapes ==
    /\ \A r \in wire : Fits(r) /\ (r.stage \in {"frozen", "half", "clean"} => r.kind = "prepare")
    /\ call # Idle => Fits(call)
    /\ life # "up" => call = Idle

\* Before the run hook the client only asks for the controller's health, in vain.
Quiet ==
    ~activated =>
        /\ call # Idle /\ call.kind = "health"
        /\ \A r \in wire : r.kind = "health" /\ r.stage # "ok"
        /\ \A p \in Processes : processes[p] = "none"

\* A checkpoint is prepared by one request, before anything else is done with it.
Prepares ==
    /\ \A r \in wire : r.kind = "prepare" =>
         /\ \A s \in wire : s.kind = "prepare" /\ s.arg = r.arg => s = r
         /\ \A s \in wire : s.kind = "commit" => s.arg # r.arg
         /\ call # Idle /\ call.kind \in Capturing \ {"prepare"} => call.arg # r.arg
         /\ r.stage = "half" => archives[r.arg] # Nothing
    /\ \A c \in 1..MaxCaptures : c > captures => archives[c] = Nothing

Starts == \A p \in Processes : starts[p] = IF processes[p] = "none" THEN 0 ELSE 1

Protocol == TypeOK /\ Shapes /\ Quiet /\ Prepares /\ Starts

-----------------------------------------------------------------------------
(* The inductive invariant: what is saved *)

\* The requests that are recognised when they come late.
Late == {"spawn", "kill", "upload", "commit"}
LateIsRecognised == Lingering \subseteq Late

At(kinds) == call # Idle /\ call.kind \in kinds

Outcomes == {"sent", "frozen", "half", "ok", "clean", "error"}

\* A request that may linger.
Stray(r) == r.kind \in Late /\ r.stage = "sent"

\* A request is the one that is waited for, or one that was given up on and lingers.
Wired ==
    /\ \A r \in wire : Stray(r) \/ (call # Idle /\ r = Current(r.stage))
    /\ call # Idle => \A s, t \in Outcomes : Current(s) \in wire /\ Current(t) \in wire => s = t

\* A lingering request finds done what it asks for, or comes before the end.
Harmless ==
    /\ \A r \in wire : r.kind = "spawn" =>
         processes[r.arg] # "none" \/ (At({"spawn"}) /\ call.arg = r.arg /\ r.stage # "ok")
    /\ \A r \in wire : r.kind = "commit" => At({"commit", "terminate"})

\* A frozen workload stands still, in a capture that will end or release it.
Frozen ==
    frozen =>
        /\ At(Capturing)
        /\ \A p \in Processes : processes[p] # "running"
        /\ \A r \in wire : /\ r.kind = "prepare" => r.stage \in {"frozen", "half", "ok"}
                           /\ r.kind = "release" => r.stage # "ok"

\* The archive that is being made is of the overlay, which stands still meanwhile.
Archive ==
    \A r \in wire : r.kind = "prepare" =>
        /\ r.stage \in {"sent", "clean", "frozen"} => archives[r.arg] = Nothing
        /\ r.stage = "clean" => ~dirty
        /\ r.stage \in {"frozen", "half", "ok"} => frozen /\ dirty
        /\ r.stage = "half" => archives[r.arg] = overlay \ (Processes \X {2})
        /\ r.stage = "ok" => archives[r.arg] = overlay

\* What a capture relies on, step by step.
Progress ==
    /\ At({"upload"}) => archives[call.arg] = overlay /\ frozen /\ dirty
    /\ At({"publish"}) => IF Pending THEN archives[call.arg] = overlay /\ frozen /\ dirty
                          ELSE ~frozen /\ ~dirty
    /\ At({"commit"}) => frozen /\ published = overlay
    /\ At({"terminate"}) => IF frozen THEN published = overlay ELSE ~dirty
    /\ At({"release"}) => dirty

\* No process was started.
Unused == \A p \in Processes : processes[p] = "none"

\* A workspace that is not dirty has nothing to lose.
Clean == ~dirty /\ ~frozen => acked \subseteq published /\ Unused

\* The overlay holds what the caller knows of, once the session's checkpoint is restored.
Held == IF At(Launching) THEN acked = published /\ ~dirty /\ ~frozen /\ Unused
        ELSE acked \subseteq overlay

\* An answer that is on its way is true.
Told ==
    \A r \in wire : r.stage = "ok" =>
        /\ r.kind = "restore" => overlay = published
        /\ r.kind \in {"commit_write", "remove"} => r.arg \in overlay /\ dirty

Kept ==
    /\ Harmless /\ Frozen /\ Archive /\ Progress /\ Clean /\ Held /\ Told
    /\ Whole(overlay) /\ Whole(published)

-----------------------------------------------------------------------------
(* The inductive invariant: what holds though the client gave up on requests *)

\* An archive is there from the second half of its request to its commit.
Made ==
    /\ \A r \in wire : /\ r.kind = "prepare" => (archives[r.arg] # Nothing <=> r.stage \in {"half", "ok"})
                       /\ r.kind = "commit" /\ At({"upload", "publish"}) => r.arg # call.arg
    /\ At({"upload"}) => archives[call.arg] # Nothing

\* The client gave up on no request that freezes or releases the workload, and
\* no capture failed between its prepare and its upload.
Tame == stranded \cap {"prepare", "upload", "release"} = {} /\ life = "up"

\* A frozen workload is in a capture that will end or release it.
Thawed ==
    Tame /\ frozen =>
        /\ At(Capturing)
        /\ \A r \in wire : /\ r.kind = "prepare" => r.stage \in {"frozen", "half", "ok"}
                           /\ r.kind = "release" => r.stage # "ok"
        /\ At({"publish"}) => Pending

\* The client gave up on no commit.
Firm == "commit" \notin stranded /\ life = "up"

\* The changes of files that the caller was told of.
Known == acked \cap FileChanges

\* How far a capture has saved them.
Reached ==
    /\ Known \subseteq IF At(Launching) THEN published ELSE overlay
    /\ ~dirty => Known \subseteq published
    /\ At({"upload"}) => Known \subseteq archives[call.arg]
    /\ At({"publish"}) => Known \subseteq IF Pending THEN archives[call.arg] ELSE published
    /\ At({"commit", "terminate"}) => Known \subseteq published

\* What the requests on their way say of them.
Carried ==
    \A r \in wire :
        /\ r.kind = "commit" => At({"commit", "terminate"})
        /\ r.kind = "prepare" /\ r.stage = "clean" => Known \subseteq published
        /\ r.kind = "prepare" /\ r.stage \in {"half", "ok"} => Known \subseteq archives[r.arg]
        /\ r.kind = "restore" /\ r.stage = "ok" => published \subseteq overlay
        /\ r.kind \in {"commit_write", "remove"} /\ r.stage = "ok" => r.arg \in overlay /\ dirty

Safe == Firm => Reached /\ Carried

Saved ==
    /\ Protocol /\ Wired /\ Made /\ Thawed /\ Safe
    /\ stranded = {} /\ life = "up" => Kept
    /\ CheckpointComplete

-----------------------------------------------------------------------------
(* Steps of the client *)

\* The client goes on to its next step or ends the operation.  Of the requests
\* that were on their way those in left remain.
Advance(left) ==
    /\ left \subseteq wire /\ UNCHANGED controller
    /\ captures' \in captures..MaxCaptures
    /\ \/ call' = Idle /\ wire' \subseteq left /\ activated
       \/ /\ call' \in Calls /\ Fits(call)' /\ life' = "up"
          /\ \A x \in wire' : x \in left \/ (call'.kind \in Kinds /\ x = Current("sent")')
          /\ activated \/ call'.kind = "health"
          /\ call'.kind = "prepare" => call'.arg > captures
          /\ call'.kind \in Capturing \ {"prepare"} =>
               \A x \in left : x.kind = "prepare" => x.arg # call'.arg

LEMMA CallsAreNotIdle == \A c \in Calls : c # Idle
BY DEF Calls, Idle

LEMMA AdvanceKeeps ==
    ASSUME Protocol, NEW left, Advance(left)
    PROVE  /\ wire' \subseteq Requests /\ call' \in Calls \cup {Idle}
           /\ Shapes' /\ Quiet' /\ Prepares' /\ Starts'
<1> USE DEF Protocol
<1>0. /\ captures \in Nat /\ captures' \in Nat /\ captures' \in 0..MaxCaptures /\ captures <= captures'
      /\ UNCHANGED <<activated, dirty, frozen, overlay, processes, writes, archives, starts>>
  BY ControllerConstants DEF TypeOK, Advance, controller
<1>1. CASE call' = Idle /\ wire' \subseteq left /\ activated
  <2>1. Shapes'
    BY <1>0, <1>1, SMT DEF Shapes, Fits, Advance
  <2>2. Prepares'
    BY <1>0, <1>1, SMT DEF Prepares, Advance
  <2> QED  BY <1>0, <1>1, <2>1, <2>2 DEF TypeOK, Quiet, Starts, Advance
<1>2. CASE call' \in Calls /\ ~(call' = Idle /\ wire' \subseteq left /\ activated)
  <2>n. PICK n : n = Current("sent")'
    OBVIOUS
  <2>1. call' # Idle
    BY <1>2, CallsAreNotIdle
  <2>2. /\ n.kind = call'.kind /\ n.arg = call'.arg /\ n.offset = call'.offset
        /\ n.try = call'.try /\ n.stage = "sent"
    BY <2>n DEF Current
  <2>3. /\ Fits(call)' /\ life' = "up"
        /\ \A x \in wire' : x \in left \/ (call'.kind \in Kinds /\ x = n)
        /\ activated \/ call'.kind = "health"
        /\ call'.kind = "prepare" => call'.arg > captures
        /\ call'.kind \in Capturing \ {"prepare"} =>
             \A x \in left : x.kind = "prepare" => x.arg # call'.arg
        /\ left \subseteq wire
    BY <1>2, <2>1, <2>n DEF Advance
  <2>4. call'.kind \in Kinds => n \in Requests
    BY <1>2, <2>2, <2>n, SMT DEF Calls, Requests, Current
  <2>5. wire' \subseteq Requests
    BY <2>3, <2>4 DEF TypeOK
  <2>6. Shapes'
    <3>1. Fits(call)' => (call'.kind \in Kinds => Fits(n)')
      BY <2>2, SMT DEF Fits
    <3>2. \A x \in wire : Fits(x) => Fits(x)'
      BY <1>0, SMT DEF Fits
    <3> QED  BY <2>1, <2>2, <2>3, <3>1, <3>2 DEF Shapes
  <2>7. Quiet'
    BY <1>0, <2>1, <2>2, <2>3 DEF Quiet, TypeOK
  <2>8. Prepares'
    <3> SUFFICES ASSUME NEW r \in wire', r.kind = "prepare"
                 PROVE  /\ \A s \in wire' : s.kind = "prepare" /\ s.arg = r.arg => s = r
                        /\ \A s \in wire' : s.kind = "commit" => s.arg # r.arg
                        /\ call'.kind \in Capturing \ {"prepare"} => call'.arg # r.arg
                        /\ r.stage = "half" => archives'[r.arg] # Nothing
      BY <1>0, SMT DEF Prepares
    <3>1. \A x \in left : x.kind \in {"prepare", "commit"} => x.arg <= captures /\ x.arg \in Nat
      BY <1>0, <2>3, SMT DEF Shapes, Fits, Capturing
    <3>2. CASE r \in left
      BY <1>0, <2>2, <2>3, <3>1, <3>2, SMT DEF Prepares, Capturing
    <3>3. CASE r \notin left
      BY <1>0, <2>2, <2>3, <3>1, <3>3, SMT DEF Prepares, Capturing
    <3> QED  BY <3>2, <3>3
  <2> QED  BY <1>0, <1>2, <2>5, <2>6, <2>7, <2>8 DEF Starts
<1> QED  BY <1>1, <1>2, CallsAreNotIdle DEF Advance

\* What is left has no more to do with the operation.
Cleared(left) == LateIsRecognised /\ Wired => \A x \in left : Stray(x)

LEMMA AnsweredClears ==
    ASSUME Protocol, NEW kind, NEW stage \in {"ok", "clean", "error"}, Answered(kind, stage)
    PROVE  Settled \subseteq wire /\ Cleared(Settled)
<1>1. Settled \subseteq wire
  BY DEF Settled
<1>2. ASSUME Wired, NEW x \in Settled, ~Stray(x)  PROVE FALSE
  <2>1. call # Idle /\ x = Current(x.stage) /\ x.stage \in Outcomes
    BY <1>2, <1>1 DEF Wired, Protocol, TypeOK, Requests, Outcomes
  <2>2. x.stage = stage
    BY <1>1, <1>2, <2>1 DEF Wired, Answered, Outcomes
  <2> QED  BY <2>1, <2>2, <1>2 DEF Settled
<1> QED  BY <1>1, <1>2 DEF Cleared

LEMMA FailedClears ==
    ASSUME Protocol, call # Idle, NEW left \in SUBSET wire, Failed(left)
    PROVE  Cleared(left) /\ faults' \in 0..MaxFaults
<1>1. CASE Answered(call.kind, "error") /\ left = Settled /\ faults' = faults
  BY <1>1, AnsweredClears DEF Protocol, TypeOK
<1>2. CASE Broken(left)
  <2>1. faults' \in 0..MaxFaults
    BY <1>2, ControllerConstants DEF Broken, Protocol, TypeOK
  <2>2. PICK stage \in {"sent", "ok", "clean", "error"} :
          /\ Current(stage) \in wire
          /\ left = IF stage = "sent" /\ call.kind \in Lingering THEN wire
                    ELSE wire \ {Current(stage)}
    BY <1>2 DEF Broken
  <2>3. ASSUME LateIsRecognised, Wired, NEW x \in left, ~Stray(x)  PROVE FALSE
    <3>1. x = Current(x.stage) /\ x.stage \in Outcomes
      BY <2>3 DEF Wired, Protocol, TypeOK, Requests, Outcomes
    <3>2. x.stage = stage
      BY <2>2, <2>3, <3>1 DEF Wired, Outcomes
    <3>3. x.kind = call.kind
      BY <3>1 DEF Current
    <3> QED  BY <2>2, <2>3, <3>1, <3>2, <3>3 DEF Stray, LateIsRecognised
  <2> QED  BY <2>1, <2>3 DEF Cleared
<1> QED  BY <1>1, <1>2 DEF Failed

LEMMA IdleClears ==
    ASSUME Protocol, call = Idle \/ call.kind \in Local
    PROVE  Cleared(wire)
<1> SUFFICES ASSUME Wired, NEW x \in wire, ~Stray(x)  PROVE FALSE
  BY DEF Cleared
<1>1. call # Idle /\ x = Current(x.stage)
  BY DEF Wired
<1>2. x.kind = call.kind
  BY <1>1 DEF Current
<1>3. x.kind \in Kinds
  BY DEF Protocol, TypeOK, Requests
<1> QED  BY <1>1, <1>2, <1>3 DEF Kinds, Local

LEMMA Activated ==
    ASSUME Protocol, call = Idle \/ call.kind # "health" \/ Ready
    PROVE  activated
BY DEF Protocol, Quiet, Ready, Answered, Current

LEMMA DoneAdvances ==
    ASSUME Protocol, NEW left, left \subseteq wire, Done(left), activated,
           UNCHANGED controller, captures' = captures
    PROVE  Advance(left) /\ call' = Idle
BY SMT DEF Protocol, TypeOK, Done, Advance

LEMMA ThenAdvances ==
    ASSUME Protocol, call # Idle, NEW left, left \subseteq wire,
           NEW kind \in Kinds \cup Local, NEW offset \in 0..Chunks, Then(kind, offset, left),
           UNCHANGED controller, captures' = captures, life' = life,
           kind \in Launching => call.kind \in Launching,
           kind \in Writing => call.kind \in Writing,
           kind \in Capturing => call.kind \in Capturing,
           kind \notin {"remove", "spawn", "kill", "prepare"},
           IF kind = "chunk" THEN offset < Chunks ELSE offset = 0,
           activated \/ kind = "health",
           kind \in Capturing => \A x \in left : x.kind = "prepare" => x.arg # call.arg
    PROVE  /\ Advance(left) /\ call' \in Calls
           /\ call'.kind = kind /\ call'.arg = call.arg /\ call'.offset = offset
<1>1. call \in Calls
  BY DEF Protocol, TypeOK
<1>2. /\ call' \in Calls /\ call'.kind = kind /\ call'.arg = call.arg /\ call'.offset = offset
      /\ call'.try = 1
  <2>1. call' = [call EXCEPT !.kind = kind, !.offset = offset, !.try = 1]
    BY DEF Then
  <2>2. 1 \in 1..MaxTries
    BY ControllerConstants
  <2> QED  BY <1>1, <2>1, <2>2 DEF Calls
<1>3. Fits(call)'
  BY <1>2, SMT DEF Protocol, Shapes, Fits, Launching, Writing, Capturing
<1>4. \A x \in wire' : x \in left \/ (call'.kind \in Kinds /\ x = Current("sent")')
  BY <1>2 DEF Then, Current, Sent
<1>5. life' = "up"
  BY DEF Protocol, Shapes
<1>6. captures' \in captures..MaxCaptures
  BY SMT DEF Protocol, TypeOK
<1> QED  BY <1>2, <1>3, <1>4, <1>5, <1>6 DEF Advance

LEMMA BeginAdvances ==
    ASSUME Protocol, NEW op \in {"write", "remove", "spawn", "kill", "capture"},
           NEW arg \in Args, NEW kind \in {"begin", "remove", "spawn", "kill", "prepare"},
           Begin(op, arg, kind), captures' \in captures..MaxCaptures,
           kind = "begin" => arg \in Writes,
           kind = "remove" => arg \in Removals,
           kind \in {"spawn", "kill"} => arg \in Processes,
           kind = "prepare" => arg \in 1..captures' /\ arg > captures
    PROVE  /\ Advance(wire) /\ Cleared(wire) /\ call' \in Calls
           /\ call'.kind = kind /\ call'.arg = arg
<1>1. /\ call' \in Calls /\ call'.kind = kind /\ call'.arg = arg /\ call'.offset = 0
      /\ call'.try = 1
  BY ControllerConstants, SMT DEF Calls, Begin, Kinds
<1>2. Fits(call)'
  BY <1>1, SMT DEF Fits, Launching, Writing, Capturing
<1>3. \A x \in wire' : x \in wire \/ (call'.kind \in Kinds /\ x = Current("sent")')
  BY <1>1 DEF Begin, Current, Sent, Kinds
<1>4. activated
  BY Activated DEF Begin
<1>5. Cleared(wire)
  BY IdleClears DEF Begin
<1> QED  BY <1>1, <1>2, <1>3, <1>4, <1>5 DEF Advance, Begin, Capturing

Goes == \E left \in SUBSET wire : Advance(left) /\ Cleared(left)

\* The rest of the session's state.
SessionTypes ==
    /\ taken \subseteq Args \ {Nothing}
    /\ waits \in [Processes -> {"none", "waiting", "exited"}]
    /\ heartbeats \in BOOLEAN
    /\ published \subseteq Changes
    /\ life \in {"up", "captured", "deleted", "failed"}
    /\ acked \subseteq Changes
    /\ stranded \subseteq Kinds
    /\ faults \in 0..MaxFaults

Launches == Retry \/ AskAgain \/ Restore \/ Restored \/ RestoreFails
Works ==
    \/ \E p \in Processes : Spawn(p) \/ Kill(p)
    \/ \E w \in Writes : WriteFile(w)
    \/ \E f \in Removals : RemoveFile(f)
    \/ WriteProceeds \/ FileDone \/ WriteFails \/ Aborted \/ Spawned \/ SpawnFails \/ Killed
Captures ==
    \/ Capture \/ Prepared \/ PrepareFails \/ UploadNotCreated \/ Uploaded \/ UploadFails \/ Publish \/ PublishFails
    \/ Committed \/ CommitFails \/ Terminate \/ Released \/ Delete
Client == Launches \/ Works \/ Captures

\* Something was answered, and the operation is over.
LEMMA AnsweredDone ==
    ASSUME Protocol, NEW kind, kind # "health", NEW stage \in {"ok", "clean", "error"},
           Answered(kind, stage), Done(Settled), UNCHANGED controller, captures' = captures
    PROVE  Goes
<1>1. activated
  BY Activated DEF Answered
<1> QED  BY <1>1, AnsweredClears, DoneAdvances DEF Goes

\* An attempt failed, and the operation is over.
LEMMA FailedDone ==
    ASSUME Protocol, NEW kind, kind # "health", NEW left \in SUBSET wire,
           GivesUp(kind, left), Done(left), UNCHANGED controller, captures' = captures
    PROVE  Goes /\ faults' \in 0..MaxFaults
<1>1. activated
  BY Activated DEF GivesUp
<1> QED  BY <1>1, FailedClears, DoneAdvances DEF Goes, GivesUp

LEMMA LaunchesGo ==
    ASSUME Protocol, Launches
    PROVE  Goes /\ SessionTypes'
<1> USE DEF SessionTypes
<1>1. CASE Retry
  <2>1. PICK left \in SUBSET wire :
          /\ Failed(left)
          /\ call' = [call EXCEPT !.try = @ + 1]
          /\ wire' = left \cup {Sent(call.kind, call.arg, call.offset, call.try + 1)}
    BY <1>1 DEF Retry
  <2>2. /\ call # Idle /\ call.kind \in RetryTransient /\ call.try < MaxTries
        /\ UNCHANGED <<controller, taken, captures, waits, heartbeats, published, life, acked, stranded>>
    BY <1>1 DEF Retry
  <2>3. call \in Calls
    BY <2>2 DEF Protocol, TypeOK
  <2>4. call.try \in 1..MaxTries /\ call.try + 1 \in 1..MaxTries
    BY <2>2, <2>3, ControllerConstants DEF Calls
  <2>5. /\ call' \in Calls /\ call'.kind = call.kind /\ call'.arg = call.arg
        /\ call'.offset = call.offset /\ call'.try = call.try + 1
    BY <2>1, <2>3, <2>4 DEF Calls
  <2>6. Fits(call)'
    BY <2>2, <2>5, SMT DEF Protocol, Shapes, Fits, Launching, Writing, Capturing
  <2>7. \A x \in wire' : x \in left \/ (call'.kind \in Kinds /\ x = Current("sent")')
    BY <2>1, <2>2, <2>5 DEF Current, Sent, RetryTransient, Kinds
  <2>8. life' = "up" /\ activated
    BY <2>2, Activated DEF Protocol, Shapes, RetryTransient
  <2>9. captures' \in captures..MaxCaptures
    BY <2>2, SMT DEF Protocol, TypeOK
  <2>10. Advance(left)
    BY <2>1, <2>2, <2>5, <2>6, <2>7, <2>8, <2>9 DEF Advance, RetryTransient, Protocol, Prepares
  <2>11. Cleared(left) /\ faults' \in 0..MaxFaults
    BY <2>1, <2>2, FailedClears
  <2> QED  BY <2>2, <2>10, <2>11 DEF Goes, Protocol, TypeOK
<1>2. CASE AskAgain
  <2>1. PICK left \in SUBSET wire : Failed(left) /\ Then("health", 0, left)
    BY <1>2 DEF AskAgain
  <2>2. /\ call # Idle /\ call.kind = "health"
        /\ UNCHANGED <<controller, taken, captures, waits, heartbeats, published, life, acked, stranded>>
    BY <1>2 DEF AskAgain
  <2>3. Advance(left)
    BY <2>1, <2>2, ThenAdvances, ControllerConstants DEF Launching, Writing, Capturing, Kinds
  <2> QED  BY <2>1, <2>2, <2>3, FailedClears DEF Goes, Protocol, TypeOK
<1>3. CASE Restore
  <2>1. /\ call # Idle /\ Ready /\ call.kind = "health" /\ activated
        /\ UNCHANGED <<controller, taken, captures, waits, heartbeats, published, life, acked,
                       stranded, faults>>
    BY <1>3, Activated DEF Restore, Ready, Answered
  <2>2. Settled \subseteq wire /\ Cleared(Settled)
    BY <2>1, AnsweredClears DEF Ready
  <2>3. CASE Then("restore", 0, Settled)
    <3>1. Advance(Settled)
      BY <2>1, <2>2, <2>3, ThenAdvances, ControllerConstants DEF Launching, Writing, Capturing, Kinds
    <3> QED  BY <2>1, <2>2, <3>1 DEF Goes, Protocol, TypeOK
  <2>4. CASE Done(Settled)
    BY <2>1, <2>2, <2>4, DoneAdvances DEF Goes, Protocol, TypeOK
  <2> QED  BY <1>3, <2>3, <2>4 DEF Restore
<1>4. CASE Restored
  BY <1>4, AnsweredDone DEF Restored, Protocol, TypeOK
<1>5. CASE RestoreFails
  BY <1>5, FailedDone DEF RestoreFails, Protocol, TypeOK
<1> QED  BY <1>1, <1>2, <1>3, <1>4, <1>5 DEF Launches

LEMMA WorksGo ==
    ASSUME Protocol, Works
    PROVE  Goes /\ SessionTypes'
<1> USE DEF SessionTypes
<1>0. captures \in captures..MaxCaptures
  BY SMT DEF Protocol, TypeOK
<1>1. ASSUME NEW p \in Processes, Spawn(p)  PROVE Goes /\ SessionTypes'
  <2>1. p \in Args /\ p # Nothing
    BY ControllerConstants DEF Args
  <2>2. Begin("spawn", p, "spawn") /\ Once(p) /\ captures' = captures
    BY <1>1 DEF Spawn, Once
  <2>3. Advance(wire) /\ Cleared(wire)
    BY <1>0, <2>1, <2>2, BeginAdvances
  <2> QED  BY <2>1, <2>2, <2>3 DEF Begin, Once, Goes, Protocol, TypeOK
<1>2. ASSUME NEW p \in Processes, Kill(p)  PROVE Goes /\ SessionTypes'
  <2>1. p \in Args /\ p # Nothing
    BY ControllerConstants DEF Args
  <2>2. Begin("kill", p, "kill") /\ taken' = taken /\ captures' = captures
    BY <1>2 DEF Kill
  <2>3. Advance(wire) /\ Cleared(wire)
    BY <1>0, <2>1, <2>2, BeginAdvances
  <2> QED  BY <2>2, <2>3 DEF Begin, Goes, Protocol, TypeOK
<1>3. ASSUME NEW w \in Writes, WriteFile(w)  PROVE Goes /\ SessionTypes'
  <2>1. w \in Args /\ w # Nothing
    BY ControllerConstants DEF Args
  <2>2. Begin("write", w, "begin") /\ Once(w) /\ captures' = captures
    BY <1>3 DEF WriteFile, Once
  <2>3. Advance(wire) /\ Cleared(wire)
    BY <1>0, <2>1, <2>2, BeginAdvances
  <2> QED  BY <2>1, <2>2, <2>3 DEF Begin, Once, Goes, Protocol, TypeOK
<1>4. ASSUME NEW f \in Removals, RemoveFile(f)  PROVE Goes /\ SessionTypes'
  <2>1. f \in Args /\ f # Nothing
    BY ControllerConstants DEF Args
  <2>2. Begin("remove", f, "remove") /\ Once(f) /\ captures' = captures
    BY <1>4 DEF RemoveFile, Once
  <2>3. Advance(wire) /\ Cleared(wire)
    BY <1>0, <2>1, <2>2, BeginAdvances
  <2> QED  BY <2>1, <2>2, <2>3 DEF Begin, Once, Goes, Protocol, TypeOK
<1>5. CASE WriteProceeds
  <2>1. UNCHANGED <<controller, taken, captures, waits, heartbeats, published, life, acked,
                    stranded, faults>>
    BY <1>5 DEF WriteProceeds
  <2>2. CASE Answered("begin", "ok") /\ Then("chunk", 0, Settled)
    <3>1. call # Idle /\ call.kind = "begin" /\ activated
      BY <2>2, Activated DEF Answered
    <3>2. Advance(Settled) /\ Settled \subseteq wire /\ Cleared(Settled)
      BY <2>1, <2>2, <3>1, ThenAdvances, AnsweredClears, ControllerConstants
         DEF Launching, Writing, Capturing, Kinds
    <3> QED  BY <2>1, <3>2 DEF Goes, Protocol, TypeOK
  <2>3. CASE Answered("chunk", "ok")
    <3>1. call # Idle /\ call.kind = "chunk" /\ activated
      BY <2>3, Activated DEF Answered
    <3>2. Settled \subseteq wire /\ Cleared(Settled)
      BY <2>3, AnsweredClears
    <3>3. call.offset \in 0..Chunks
      BY <3>1 DEF Protocol, TypeOK, Calls
    <3>4. CASE call.offset + 1 < Chunks /\ Then("chunk", call.offset + 1, Settled)
      <4>1. call.offset + 1 \in 0..Chunks
        BY <3>3, <3>4, ControllerConstants
      <4> QED  BY <2>1, <3>1, <3>2, <3>4, <4>1, ThenAdvances
               DEF Launching, Writing, Capturing, Kinds, Goes, Protocol, TypeOK
    <3>5. CASE Then("commit_write", 0, Settled)
      <4>1. Advance(Settled)
        BY <2>1, <3>1, <3>2, <3>5, ThenAdvances, ControllerConstants
           DEF Launching, Writing, Capturing, Kinds
      <4> QED  BY <2>1, <3>2, <4>1 DEF Goes, Protocol, TypeOK
    <3> QED  BY <1>5, <2>3, <3>1, <3>4, <3>5 DEF WriteProceeds, Answered
  <2> QED  BY <1>5, <2>2, <2>3 DEF WriteProceeds
<1>6. CASE FileDone
  <2>1. PICK kind \in {"commit_write", "remove"} : Answered(kind, "ok")
    BY <1>6 DEF FileDone
  <2>2. Goes
    BY <1>6, <2>1, AnsweredDone DEF FileDone
  <2>3. call.arg \in Changes
    BY <2>1 DEF Answered, Protocol, Shapes, Fits, Writing, Changes
  <2> QED  BY <1>6, <2>2, <2>3 DEF FileDone, Protocol, TypeOK
<1>7. CASE WriteFails
  <2>1. PICK left \in SUBSET wire :
          \/ \E kind \in {"chunk", "commit_write"} : GivesUp(kind, left) /\ Then("abort", 0, left)
          \/ \E kind \in {"begin", "remove"} : GivesUp(kind, left) /\ Done(left)
    BY <1>7 DEF WriteFails
  <2>2. UNCHANGED <<controller, taken, captures, waits, heartbeats, published, life, acked, stranded>>
    BY <1>7 DEF WriteFails
  <2>3. ASSUME NEW kind \in {"chunk", "commit_write"}, GivesUp(kind, left), Then("abort", 0, left)
        PROVE  Goes /\ faults' \in 0..MaxFaults
    <3>1. call # Idle /\ call.kind = kind /\ activated /\ Failed(left)
      BY <2>3, Activated DEF GivesUp
    <3>2. Advance(left)
      BY <2>2, <2>3, <3>1, ThenAdvances, ControllerConstants DEF Launching, Writing, Capturing, Kinds
    <3> QED  BY <3>1, <3>2, FailedClears DEF Goes
  <2>4. ASSUME NEW kind \in {"begin", "remove"}, GivesUp(kind, left), Done(left)
        PROVE  Goes /\ faults' \in 0..MaxFaults
    BY <2>2, <2>4, FailedDone
  <2> QED  BY <2>1, <2>2, <2>3, <2>4 DEF Protocol, TypeOK
<1>8. CASE Aborted
  BY <1>8, AnsweredDone, FailedDone DEF Aborted, Protocol, TypeOK
<1>9. CASE Spawned
  BY <1>9, AnsweredDone DEF Spawned, Protocol, TypeOK
<1>10. CASE SpawnFails
  BY <1>10, FailedDone DEF SpawnFails, Kinds, Protocol, TypeOK
<1>11. CASE Killed
  BY <1>11, AnsweredDone, FailedDone DEF Killed, Protocol, TypeOK
<1> QED  BY <1>1, <1>2, <1>3, <1>4, <1>5, <1>6, <1>7, <1>8, <1>9, <1>10, <1>11 DEF Works

LEMMA CapturesGo ==
    ASSUME Protocol, Captures
    PROVE  Goes /\ SessionTypes'
<1> USE DEF SessionTypes
<1>1. CASE Capture
  <2>1. /\ captures < MaxCaptures /\ captures' = captures + 1
        /\ Begin("capture", captures + 1, "prepare") /\ taken' = taken
    BY <1>1 DEF Capture
  <2>2. captures \in Nat /\ captures + 1 \in 1..MaxCaptures /\ captures' \in captures..MaxCaptures
    BY <2>1, ControllerConstants DEF Protocol, TypeOK
  <2>3. captures + 1 \in Args /\ captures + 1 \in 1..captures' /\ captures + 1 > captures
    BY <2>1, <2>2 DEF Args
  <2>4. Advance(wire) /\ Cleared(wire)
    BY <2>1, <2>2, <2>3, BeginAdvances
  <2> QED  BY <2>1, <2>4 DEF Begin, Goes, Protocol, TypeOK
<1>2. CASE Prepared
  <2>1. UNCHANGED <<controller, taken, captures, waits, heartbeats, published, life, acked,
                    stranded, faults>>
    BY <1>2 DEF Prepared
  <2>2. PICK stage \in {"clean", "ok"} :
          Answered("prepare", stage) /\ \E kind \in {"publish", "upload"} : Then(kind, 0, Settled)
    BY <1>2 DEF Prepared
  <2>3. call # Idle /\ call.kind = "prepare" /\ activated /\ Current(stage) \in wire
    BY <2>2, Activated DEF Answered
  <2>4. Settled \subseteq wire /\ Cleared(Settled)
    BY <2>2, AnsweredClears
  <2>5. \A x \in Settled : x.kind = "prepare" => x.arg # call.arg
    <3>1. Current(stage).kind = "prepare" /\ Current(stage).arg = call.arg
      BY <2>3 DEF Current
    <3> QED  BY <2>2, <2>3, <2>4, <3>1 DEF Protocol, Prepares, Settled
  <2>6. Advance(Settled)
    BY <2>1, <2>2, <2>3, <2>4, <2>5, ThenAdvances, ControllerConstants
       DEF Launching, Writing, Capturing, Kinds, Local
  <2> QED  BY <2>1, <2>4, <2>6 DEF Goes, Protocol, TypeOK
<1>3. CASE PrepareFails
  BY <1>3, FailedDone DEF PrepareFails, Kinds, Protocol, TypeOK
<1>13. CASE UploadNotCreated
  BY <1>13, AnsweredDone, ControllerConstants DEF UploadNotCreated, Kinds, Protocol, TypeOK
<1>4. CASE Uploaded
  <2>1. /\ UNCHANGED <<controller, taken, captures, waits, heartbeats, published, life, acked, stranded>>
        /\ Answered("upload", "ok") /\ faults' \in 0..MaxFaults
        /\ \E kind \in {"publish", "release"} : Then(kind, 0, Settled)
    BY <1>4, ControllerConstants DEF Uploaded, Protocol, TypeOK
  <2>2. call # Idle /\ call.kind = "upload" /\ activated
    BY <2>1, Activated DEF Answered
  <2>3. Settled \subseteq wire /\ Cleared(Settled)
    BY <2>1, AnsweredClears
  <2>4. \A x \in Settled : x.kind = "prepare" => x.arg # call.arg
    BY <2>2, <2>3 DEF Protocol, Prepares, Capturing
  <2>5. Advance(Settled)
    BY <2>1, <2>2, <2>3, <2>4, ThenAdvances, ControllerConstants
       DEF Launching, Writing, Capturing, Kinds, Local
  <2> QED  BY <2>1, <2>3, <2>5 DEF Goes, Protocol, TypeOK
<1>5. CASE UploadFails
  <2>1. PICK left \in SUBSET wire : GivesUp("upload", left) /\ Then("release", 0, left)
    BY <1>5 DEF UploadFails
  <2>2. UNCHANGED <<controller, taken, captures, waits, heartbeats, published, life, acked, stranded>>
    BY <1>5 DEF UploadFails
  <2>3. call # Idle /\ call.kind = "upload" /\ activated /\ Failed(left)
    BY <2>1, Activated DEF GivesUp
  <2>4. \A x \in left : x.kind = "prepare" => x.arg # call.arg
    BY <2>1, <2>3 DEF Protocol, Prepares, Capturing
  <2>5. Advance(left)
    BY <2>1, <2>2, <2>3, <2>4, ThenAdvances, ControllerConstants
       DEF Launching, Writing, Capturing, Kinds
  <2> QED  BY <2>2, <2>3, <2>5, FailedClears DEF Goes, Protocol, TypeOK
<1>6. CASE Publish
  <2>1. /\ call # Idle /\ call.kind = "publish" /\ activated
        /\ published' = IF Pending THEN archives[call.arg] ELSE published
        /\ \E kind \in {"commit", "terminate"} : Then(kind, 0, wire)
        /\ UNCHANGED <<controller, taken, captures, waits, heartbeats, life, acked, stranded, faults>>
    BY <1>6, Activated DEF Publish
  <2>2. \A x \in wire : x.kind = "prepare" => x.arg # call.arg
    BY <2>1 DEF Protocol, Prepares, Capturing
  <2>3. Advance(wire)
    BY <2>1, <2>2, ThenAdvances, ControllerConstants DEF Launching, Writing, Capturing, Kinds, Local
  <2>4. call.arg \in 1..MaxCaptures
    <3>1. call.arg \in 1..captures /\ captures \in 0..MaxCaptures
      BY <2>1 DEF Protocol, TypeOK, Shapes, Fits, Capturing
    <3> QED  BY <3>1, ControllerConstants
  <2>5. published' \subseteq Changes
    BY <2>1, <2>4 DEF Pending, Protocol, TypeOK
  <2> QED  BY <2>1, <2>3, <2>5, IdleClears DEF Goes, Local, Protocol, TypeOK
<1>7. CASE PublishFails
  <2>1. /\ call # Idle /\ call.kind = "publish" /\ activated /\ faults' \in 0..MaxFaults
        /\ Then("release", 0, wire) \/ Done(wire)
        /\ UNCHANGED <<controller, taken, captures, waits, heartbeats, published, life, acked, stranded>>
    BY <1>7, Activated, ControllerConstants DEF PublishFails, Protocol, TypeOK
  <2>2. \A x \in wire : x.kind = "prepare" => x.arg # call.arg
    BY <2>1 DEF Protocol, Prepares, Capturing
  <2>3. Advance(wire)
    BY <2>1, <2>2, ThenAdvances, DoneAdvances, ControllerConstants
       DEF Launching, Writing, Capturing, Kinds, Local
  <2> QED  BY <2>1, <2>3, IdleClears DEF Goes, Local, Protocol, TypeOK
<1>8. CASE Committed
  <2>1. /\ Answered("commit", "ok") /\ Then("terminate", 0, Settled)
        /\ UNCHANGED <<controller, taken, captures, waits, heartbeats, published, life, acked,
                       stranded, faults>>
    BY <1>8 DEF Committed
  <2>2. call # Idle /\ call.kind = "commit" /\ activated
    BY <2>1, Activated DEF Answered
  <2>3. Settled \subseteq wire /\ Cleared(Settled)
    BY <2>1, AnsweredClears
  <2>4. \A x \in Settled : x.kind = "prepare" => x.arg # call.arg
    BY <2>2, <2>3 DEF Protocol, Prepares, Capturing
  <2>5. Advance(Settled)
    BY <2>1, <2>2, <2>3, <2>4, ThenAdvances, ControllerConstants
       DEF Launching, Writing, Capturing, Kinds, Local
  <2> QED  BY <2>1, <2>3, <2>5 DEF Goes, Protocol, TypeOK
<1>9. CASE CommitFails
  <2>1. PICK left \in SUBSET wire : GivesUp("commit", left) /\ Then("release", 0, left)
    BY <1>9 DEF CommitFails
  <2>2. /\ UNCHANGED <<controller, taken, captures, waits, heartbeats, published, life, acked>>
        /\ stranded' = stranded \cup {"commit"}
    BY <1>9 DEF CommitFails
  <2>3. call # Idle /\ call.kind = "commit" /\ activated /\ Failed(left)
    BY <2>1, Activated DEF GivesUp
  <2>4. \A x \in left : x.kind = "prepare" => x.arg # call.arg
    BY <2>1, <2>3 DEF Protocol, Prepares, Capturing
  <2>5. Advance(left)
    BY <2>1, <2>2, <2>3, <2>4, ThenAdvances, ControllerConstants
       DEF Launching, Writing, Capturing, Kinds
  <2> QED  BY <2>2, <2>3, <2>5, FailedClears DEF Goes, Kinds, Protocol, TypeOK
<1>10. CASE Terminate
  <2>1. call # Idle /\ call.kind = "terminate" /\ activated
    BY <1>10, Activated DEF Terminate
  <2> QED  BY <1>10, <2>1, IdleClears, DoneAdvances DEF Terminate, Goes, Local, Protocol, TypeOK
<1>11. CASE Released
  <2>1. CASE Answered("release", "ok") /\ Done(Settled) /\ UNCHANGED <<stranded, faults>>
    BY <1>11, <2>1, AnsweredDone DEF Released, Protocol, TypeOK
  <2>2. CASE \E left \in SUBSET wire : GivesUp("release", left) /\ Done(left) /\ stranded' = stranded \cup {"release"}
    BY <1>11, <2>2, FailedDone DEF Released, Kinds, Protocol, TypeOK
  <2> QED  BY <1>11, <2>1, <2>2 DEF Released
<1>12. CASE Delete
  <2>1. activated /\ Done(wire)
    BY <1>12, Activated DEF Delete, Done
  <2> QED  BY <1>12, <2>1, IdleClears, DoneAdvances DEF Delete, Goes, Protocol, TypeOK
<1> QED  BY <1>1, <1>2, <1>3, <1>4, <1>5, <1>6, <1>7, <1>8, <1>9, <1>10, <1>11, <1>12, <1>13 DEF Captures

LEMMA ClientKeeps ==
    ASSUME Protocol, Client
    PROVE  Protocol'
<1>1. Goes /\ SessionTypes'
  BY LaunchesGo, WorksGo, CapturesGo DEF Client
<1>2. PICK left : Advance(left)
  BY <1>1 DEF Goes
<1>3. /\ wire' \subseteq Requests /\ call' \in Calls \cup {Idle}
      /\ Shapes' /\ Quiet' /\ Prepares' /\ Starts'
  BY <1>2, AdvanceKeeps
<1>4. UNCHANGED controller /\ captures' \in 0..MaxCaptures
  BY <1>2, SMT DEF Advance, Protocol, TypeOK
<1> QED  BY <1>1, <1>3, <1>4 DEF Protocol, TypeOK, SessionTypes, controller

-----------------------------------------------------------------------------
(* Steps of the controller *)

\* The request of a step of its handler is replaced by what the step makes of it.
LEMMA HandleShape ==
    ASSUME Protocol, NEW r \in wire, NEW stage \in Outcomes, Handle(r, stage)
    PROVE  \E a \in Requests :
             /\ a.kind = r.kind /\ a.arg = r.arg /\ a.offset = r.offset /\ a.try = r.try
             /\ a.stage = stage
             /\ \A x \in wire' : \/ x \in wire /\ x # r
                                 \/ /\ x = a
                                    /\ \/ stage \in {"frozen", "half"}
                                       \/ /\ call # Idle /\ call.kind = r.kind
                                          /\ call.arg = r.arg /\ call.try = r.try
<1>1. r \in Requests
  BY DEF Protocol, TypeOK
<1> DEFINE a == [r EXCEPT !.stage = stage]
<1>2. /\ a \in Requests /\ a.kind = r.kind /\ a.arg = r.arg /\ a.offset = r.offset /\ a.try = r.try
      /\ a.stage = stage
  BY <1>1 DEF Requests, Outcomes
<1>3. \A x \in wire' : \/ x \in wire /\ x # r
                       \/ /\ x = a
                          /\ \/ stage \in {"frozen", "half"}
                             \/ /\ call # Idle /\ call.kind = r.kind
                                /\ call.arg = r.arg /\ call.try = r.try
  BY DEF Handle
<1> HIDE DEF a
<1> QED  BY <1>2, <1>3

\* What holds of the requests is kept by a step of a handler.
LEMMA HandleKeeps ==
    ASSUME Protocol, NEW r \in wire, NEW stage \in Outcomes, Handle(r, stage),
           stage \in {"frozen", "half", "clean"} => r.kind = "prepare",
           archives' \in [1..MaxCaptures -> {Nothing} \cup SUBSET Changes],
           stage = "half" => archives'[r.arg] # Nothing,
           \A c \in 1..MaxCaptures : archives'[c] = Nothing =>
             archives[c] = Nothing \/ (r.kind = "commit" /\ r.arg = c),
           \A c \in 1..MaxCaptures : archives'[c] # Nothing =>
             archives[c] # Nothing \/ (r.kind = "prepare" /\ r.arg = c),
           activated' = activated,
           ~activated => stage # "ok" /\ processes' = processes
    PROVE  wire' \subseteq Requests /\ Shapes' /\ Quiet' /\ Prepares'
<1> USE DEF Protocol
<1>1. PICK a \in Requests :
        /\ a.kind = r.kind /\ a.arg = r.arg /\ a.offset = r.offset /\ a.try = r.try
        /\ a.stage = stage
        /\ \A x \in wire' : (x \in wire /\ x # r) \/ x = a
  BY HandleShape
<1>2. UNCHANGED <<call, captures, life>> /\ captures \in 0..MaxCaptures
  BY DEF Handle, session, TypeOK
<1>3. wire' \subseteq Requests
  BY <1>1 DEF TypeOK
<1>4. Shapes'
  <2>1. Fits(r) => Fits(a)'
    BY <1>1, <1>2, SMT DEF Fits
  <2>2. \A x : Fits(x) => Fits(x)'
    BY <1>2, SMT DEF Fits
  <2> QED  BY <1>1, <1>2, <2>1, <2>2 DEF Shapes
<1>5. Quiet'
  BY <1>1, <1>2 DEF Quiet
<1>6. Prepares'
  <2>0. \A x \in wire : x.kind \in {"prepare", "commit"} => x.arg \in 1..MaxCaptures /\ x.arg <= captures
    BY <1>2, ControllerConstants, SMT DEF Shapes, Fits, Capturing
  <2>1. ASSUME NEW x \in wire', x.kind = "prepare"
        PROVE  /\ \A s \in wire' : s.kind = "prepare" /\ s.arg = x.arg => s = x
               /\ \A s \in wire' : s.kind = "commit" => s.arg # x.arg
               /\ call # Idle /\ call.kind \in Capturing \ {"prepare"} => call.arg # x.arg
               /\ x.stage = "half" => archives'[x.arg] # Nothing
    <3>1. CASE x \in wire /\ x # r
      BY <1>1, <2>0, <2>1, <3>1 DEF Prepares
    <3>2. CASE x = a
      BY <1>1, <2>0, <2>1, <3>2 DEF Prepares
    <3> QED  BY <1>1, <3>1, <3>2
  <2>2. ASSUME NEW c \in 1..MaxCaptures, c > captures  PROVE archives'[c] = Nothing
    BY <1>2, <2>0, <2>2, ControllerConstants, SMT DEF Prepares
  <2> QED  BY <1>2, <2>1, <2>2 DEF Prepares
<1> QED  BY <1>3, <1>4, <1>5, <1>6

ControllerTypes ==
    /\ activated \in BOOLEAN /\ dirty \in BOOLEAN /\ frozen \in BOOLEAN
    /\ overlay \subseteq Changes
    /\ processes \in [Processes -> {"none", "running", "stopped", "exited"}]
    /\ writes \in [Writes -> {Nothing} \cup 0..Chunks]
    /\ starts \in [Processes -> Nat]
    /\ faults \in 0..MaxFaults

Files(r) ==
    \/ HandleError(r) \/ Health(r) \/ BeginWrite(r) \/ WriteChunk(r) \/ CommitWrite(r)
    \/ AbortWrite(r) \/ RemovePath(r) \/ RestoreCheckpoint(r)
Workload(r) == StartProcess(r) \/ KillProcess(r) \/ Release(r)
Checkpoints(r) ==
    \/ PrepareCheckpoint(r) \/ ArchiveFirst(r) \/ ArchiveSecond(r) \/ UploadCheckpoint(r)
    \/ CommitCheckpoint(r)
Handler(r) == Files(r) \/ Workload(r) \/ Checkpoints(r)

\* Handlers that touch neither the archives nor the processes.
LEMMA FilesKeep ==
    ASSUME Protocol, NEW r \in wire, Files(r)
    PROVE  Protocol'
<1> USE DEF Protocol
<1>0. /\ r \in Requests /\ r.kind \in Kinds /\ r.offset \in 0..Chunks
      /\ r.kind \in Writing => r.arg \in Writes
      /\ r.kind = "remove" => r.arg \in Removals
      /\ r.kind = "chunk" => r.offset < Chunks
      /\ ~activated => r.kind = "health"
  BY DEF TypeOK, Requests, Shapes, Fits, Quiet
<1>1. \E stage \in {"ok", "error"} : Handle(r, stage) /\ (~activated => stage # "ok")
  BY <1>0 DEF Files, HandleError, Health, BeginWrite, WriteChunk, CommitWrite, AbortWrite, RemovePath,
        RestoreCheckpoint, Arrived
<1>2. UNCHANGED <<activated, frozen, processes, archives, starts>>
  BY DEF Files, HandleError, Health, BeginWrite, WriteChunk, CommitWrite, AbortWrite, RemovePath,
         RestoreCheckpoint, controller
<1>3. wire' \subseteq Requests /\ Shapes' /\ Quiet' /\ Prepares'
  <2>1. PICK stage \in {"ok", "error"} : Handle(r, stage) /\ (~activated => stage # "ok")
    BY <1>1
  <2> QED  BY <1>2, <2>1, HandleKeeps DEF Outcomes, TypeOK
<1>4. ControllerTypes'
  <2> USE DEF ControllerTypes, TypeOK
  <2>1. CASE HandleError(r) \/ Health(r)
    BY <2>1, ControllerConstants DEF HandleError, Health, controller
  <2>2. CASE BeginWrite(r)
    <3>1. 0 \in 0..Chunks
      BY ControllerConstants
    <3>2. writes' = [writes EXCEPT ![r.arg] = 0] /\ UNCHANGED <<dirty, overlay, faults>>
      BY <2>2 DEF BeginWrite
    <3> QED  BY <1>2, <3>1, <3>2
  <2>3. CASE WriteChunk(r)
    <3>1. writes[r.arg] # Nothing /\ writes[r.arg] = r.offset => writes[r.arg] + 1 \in 0..Chunks
      BY <1>0, <2>3, ControllerConstants DEF WriteChunk, Arrived
    <3>2. writes' \in {writes, [writes EXCEPT ![r.arg] = @ + 1]}
      BY <2>3 DEF WriteChunk
    <3>3. writes' = writes \/ (writes[r.arg] + 1 \in 0..Chunks /\ r.arg \in Writes)
      BY <1>0, <2>3, <3>1 DEF WriteChunk, Arrived, Writing
    <3>4. writes' \in [Writes -> {Nothing} \cup 0..Chunks]
      BY <3>2, <3>3
    <3> QED  BY <1>2, <2>3, <3>4 DEF WriteChunk
  <2>4. CASE CommitWrite(r)
    <3>1. r.arg \in Changes
      BY <1>0, <2>4 DEF CommitWrite, Arrived, Writing, Changes
    <3>2. faults' \in 0..MaxFaults
      BY <2>4, ControllerConstants DEF CommitWrite
    <3>3. writes' \in [Writes -> {Nothing} \cup 0..Chunks]
      BY <2>4 DEF CommitWrite
    <3>4. overlay' \subseteq overlay \cup {r.arg} /\ dirty' \in {dirty, TRUE}
      BY <2>4 DEF CommitWrite
    <3> QED  BY <1>2, <3>1, <3>2, <3>3, <3>4
  <2>5. CASE AbortWrite(r)
    BY <1>2, <2>5 DEF AbortWrite
  <2>6. CASE RemovePath(r)
    <3>1. r.arg \in Changes
      BY <1>0, <2>6 DEF RemovePath, Arrived, Changes
    <3>2. faults' \in 0..MaxFaults
      BY <2>6, ControllerConstants DEF RemovePath
    <3>3. overlay' \subseteq overlay \cup {r.arg} /\ dirty' \in {dirty, TRUE} /\ writes' = writes
      BY <2>6 DEF RemovePath
    <3> QED  BY <1>2, <3>1, <3>2, <3>3
  <2>7. CASE RestoreCheckpoint(r)
    BY <1>2, <2>7 DEF RestoreCheckpoint
  <2> QED  BY <2>1, <2>2, <2>3, <2>4, <2>5, <2>6, <2>7 DEF Files
<1>5. UNCHANGED session
  BY <1>1 DEF Handle
<1> QED  BY <1>2, <1>3, <1>4, <1>5 DEF TypeOK, ControllerTypes, session, Starts

LEMMA WorkloadKeeps ==
    ASSUME Protocol, NEW r \in wire, Workload(r)
    PROVE  Protocol'
<1> USE DEF Protocol
<1>0. /\ r.kind \in {"spawn", "kill"} => r.arg \in Processes
      /\ ~activated => r.kind = "health"
  BY DEF Shapes, Fits, Quiet
<1>1. Handle(r, "ok") /\ r.kind \in {"spawn", "kill", "release"}
  BY DEF Workload, StartProcess, KillProcess, Release, Arrived
<1>2. UNCHANGED <<activated, overlay, writes, archives, faults>>
  BY DEF Workload, StartProcess, KillProcess, Release
<1>3. wire' \subseteq Requests /\ Shapes' /\ Quiet' /\ Prepares'
  BY <1>0, <1>1, <1>2, HandleKeeps DEF Outcomes, TypeOK
<1>4. ControllerTypes' /\ Starts'
  <2> USE DEF ControllerTypes, TypeOK
  <2>1. CASE StartProcess(r)
    <3>1. r.arg \in Processes
      BY <1>0, <2>1 DEF StartProcess, Arrived
    <3>2. CASE processes[r.arg] # "none"
      BY <1>2, <2>1, <3>2 DEF StartProcess, Starts
    <3>3. CASE processes[r.arg] = "none"
      <4>1. /\ processes' = [processes EXCEPT ![r.arg] = "running"]
            /\ starts' = [starts EXCEPT ![r.arg] = @ + 1] /\ dirty' = TRUE /\ frozen' = frozen
        BY <2>1, <3>3 DEF StartProcess
      <4> QED  BY <1>2, <3>1, <3>3, <4>1, SMT DEF Starts
    <3> QED  BY <3>2, <3>3
  <2>2. CASE KillProcess(r)
    <3>1. r.arg \in Processes /\ starts' = starts /\ dirty' = dirty /\ frozen' = frozen
      BY <1>0, <2>2 DEF KillProcess, Arrived
    <3>2. processes' = [processes EXCEPT ![r.arg] = IF Running(r.arg) THEN "exited" ELSE @]
      BY <2>2 DEF KillProcess
    <3> QED  BY <1>2, <3>1, <3>2, SMT DEF Starts, Running
  <2>3. CASE Release(r)
    <3>1. /\ processes' \in [Processes -> {"none", "running", "stopped", "exited"}]
          /\ \A p \in Processes : processes'[p] = "none" <=> processes[p] = "none"
      BY <2>3 DEF Release, ReleaseWorkload, Running
    <3>2. frozen' = FALSE /\ UNCHANGED <<dirty, starts>>
      BY <2>3 DEF Release, ReleaseWorkload
    <3> QED  BY <1>2, <3>1, <3>2 DEF Starts
  <2> QED  BY <2>1, <2>2, <2>3 DEF Workload
<1>5. UNCHANGED session
  BY <1>1 DEF Handle
<1> QED  BY <1>2, <1>3, <1>4, <1>5 DEF TypeOK, ControllerTypes, session

LEMMA CheckpointsKeep ==
    ASSUME Protocol, NEW r \in wire, Checkpoints(r)
    PROVE  Protocol'
<1> USE DEF Protocol
<1>0. /\ r.kind \in {"prepare", "upload", "commit"} /\ activated
      /\ r.arg \in 1..MaxCaptures
  <2>1. r.kind \in {"prepare", "upload", "commit"}
    BY DEF Checkpoints, PrepareCheckpoint, ArchiveFirst, ArchiveSecond, UploadCheckpoint,
           CommitCheckpoint, Arrived
  <2>2. r.arg \in 1..captures /\ captures \in 0..MaxCaptures /\ activated
    BY <2>1 DEF Shapes, Fits, Capturing, TypeOK, Quiet
  <2> QED  BY <2>1, <2>2, ControllerConstants
<1>1. UNCHANGED <<activated, overlay, writes, starts, faults>>
  BY DEF Checkpoints, PrepareCheckpoint, ArchiveFirst, ArchiveSecond, UploadCheckpoint,
         CommitCheckpoint, controller
<1>2. \E stage \in Outcomes :
        /\ Handle(r, stage)
        /\ stage \in {"frozen", "half", "clean"} => r.kind = "prepare"
        /\ archives' \in [1..MaxCaptures -> {Nothing} \cup SUBSET Changes]
        /\ stage = "half" => archives'[r.arg] # Nothing
        /\ \A c \in 1..MaxCaptures : archives'[c] = Nothing =>
             archives[c] = Nothing \/ (r.kind = "commit" /\ r.arg = c)
        /\ \A c \in 1..MaxCaptures : archives'[c] # Nothing =>
             archives[c] # Nothing \/ (r.kind = "prepare" /\ r.arg = c)
  <2> USE DEF Outcomes, TypeOK
  <2>1. CASE PrepareCheckpoint(r)
    BY <2>1 DEF PrepareCheckpoint, Arrived
  <2>2. CASE ArchiveFirst(r)
    <3>1. overlay \ (Processes \X {2}) \in SUBSET Changes
      BY DEF TypeOK
    <3>2. /\ archives' = [archives EXCEPT ![r.arg] = overlay \ (Processes \X {2})]
          /\ Handle(r, "half") /\ r.kind = "prepare"
      BY <2>2 DEF ArchiveFirst, Arrived
    <3> HIDE DEF Outcomes
    <3>3. /\ archives'[r.arg] # Nothing
          /\ \A c \in 1..MaxCaptures : c # r.arg => archives'[c] = archives[c]
          /\ archives' \in [1..MaxCaptures -> {Nothing} \cup SUBSET Changes]
      BY <1>0, <3>1, <3>2, ControllerConstants
    <3> QED  BY <3>2, <3>3 DEF Outcomes
  <2>3. CASE ArchiveSecond(r)
    <3>1. archives[r.arg] \in SUBSET Changes /\ r.kind = "prepare" /\ Handle(r, "ok")
      BY <1>0, <2>3 DEF ArchiveSecond, Arrived, Prepares
    <3>2. archives[r.arg] \cup (overlay \cap (Processes \X {2})) \in SUBSET Changes
      BY <3>1 DEF TypeOK
    <3>3. archives' = [archives EXCEPT ![r.arg] = archives[r.arg] \cup (overlay \cap (Processes \X {2}))]
      BY <2>3 DEF ArchiveSecond
    <3>4. /\ archives'[r.arg] # Nothing
          /\ \A c \in 1..MaxCaptures : c # r.arg => archives'[c] = archives[c]
          /\ archives' \in [1..MaxCaptures -> {Nothing} \cup SUBSET Changes]
      BY <1>0, <3>2, <3>3, ControllerConstants
    <3> QED  BY <3>1, <3>4
  <2>4. CASE UploadCheckpoint(r)
    BY <2>4 DEF UploadCheckpoint, controller
  <2>5. CASE CommitCheckpoint(r)
    <3>1. archives' = [archives EXCEPT ![r.arg] = Nothing] /\ Handle(r, "ok") /\ r.kind = "commit"
      BY <2>5 DEF CommitCheckpoint, Arrived
    <3>2. /\ \A c \in 1..MaxCaptures : c # r.arg => archives'[c] = archives[c]
          /\ archives'[r.arg] = Nothing
          /\ archives' \in [1..MaxCaptures -> {Nothing} \cup SUBSET Changes]
      BY <1>0, <3>1
    <3> QED  BY <3>1, <3>2
  <2> QED  BY <2>1, <2>2, <2>3, <2>4, <2>5 DEF Checkpoints
<1>3. /\ wire' \subseteq Requests /\ Shapes' /\ Quiet' /\ Prepares' /\ UNCHANGED session
      /\ archives' \in [1..MaxCaptures -> {Nothing} \cup SUBSET Changes]
  BY <1>0, <1>1, <1>2, HandleKeeps DEF Handle
<1>4. ControllerTypes' /\ Starts'
  <2>1. /\ processes' \in [Processes -> {"none", "running", "stopped", "exited"}]
        /\ \A p \in Processes : processes'[p] = "none" <=> processes[p] = "none"
    BY DEF TypeOK, Checkpoints, PrepareCheckpoint, ArchiveFirst, ArchiveSecond, UploadCheckpoint,
           CommitCheckpoint, controller, FreezeWorkload, Running
  <2>2. dirty' \in BOOLEAN /\ frozen' \in BOOLEAN
    BY DEF TypeOK, Checkpoints, PrepareCheckpoint, ArchiveFirst, ArchiveSecond, UploadCheckpoint,
           CommitCheckpoint, controller, FreezeWorkload
  <2> QED  BY <1>1, <2>1, <2>2 DEF ControllerTypes, TypeOK, Starts
<1> QED  BY <1>1, <1>3, <1>4 DEF TypeOK, ControllerTypes, session

LEMMA OthersKeep ==
    ASSUME Protocol, RunHook \/ Resume \/ \E p \in Processes : Work(p) \/ Poll(p)
    PROVE  Protocol'
<1> USE DEF Protocol
<1>1. CASE RunHook
  <2>1. /\ ~activated /\ activated' = TRUE
        /\ writes' = [w \in Writes |-> Nothing]
        /\ archives' = [c \in 1..MaxCaptures |-> Nothing]
        /\ processes' = [p \in Processes |-> "none"]
        /\ dirty' = FALSE /\ frozen' = FALSE
        /\ UNCHANGED <<overlay, starts, wire, session, faults>>
    BY <1>1 DEF RunHook
  <2>2. TypeOK'
    BY <2>1 DEF TypeOK, session
  <2>3. \A r \in wire : r.kind = "health"
    BY <2>1 DEF Quiet
  <2>4. Prepares'
    BY <2>1, <2>3 DEF Prepares
  <2>5. Shapes'
    BY <2>1 DEF Shapes, Fits, session
  <2>6. Quiet' /\ Starts'
    BY <2>1 DEF Quiet, Starts
  <2> QED  BY <2>2, <2>4, <2>5, <2>6
<1>2. CASE Resume
  <2>1. /\ ReleaseWorkload /\ activated
        /\ UNCHANGED <<activated, dirty, overlay, writes, archives, starts, wire, session, faults>>
    BY <1>2 DEF Resume
  <2>2. /\ processes' \in [Processes -> {"none", "running", "stopped", "exited"}]
        /\ frozen' \in BOOLEAN
        /\ \A p \in Processes : processes'[p] = "none" <=> processes[p] = "none"
    BY <2>1 DEF ReleaseWorkload, Running, TypeOK
  <2> QED  BY <2>1, <2>2 DEF TypeOK, Shapes, Fits, Quiet, Prepares, Starts, session
<1>3. ASSUME NEW p \in Processes, Work(p)  PROVE Protocol'
  <2>1. /\ UNCHANGED <<activated, dirty, frozen, writes, archives, starts, wire, session, faults>>
        /\ processes[p] = "running"
        /\ overlay' \subseteq overlay \cup {<<p, n>> : n \in Stages}
        /\ processes' \in {processes, [processes EXCEPT ![p] = "exited"]}
    BY <1>3 DEF Work
  <2>2. \A n \in Stages : <<p, n>> \in Changes
    BY DEF Changes
  <2>3. overlay' \subseteq Changes
    BY <2>1, <2>2 DEF TypeOK
  <2>4. /\ processes' \in [Processes -> {"none", "running", "stopped", "exited"}]
        /\ \A q \in Processes : processes'[q] = "none" <=> processes[q] = "none"
    BY <2>1 DEF TypeOK
  <2> QED  BY <2>1, <2>3, <2>4 DEF TypeOK, Shapes, Fits, Quiet, Prepares, Starts, session
<1>4. ASSUME NEW p \in Processes, Poll(p)  PROVE Protocol'
  <2>1. /\ UNCHANGED <<controller, wire, call, taken, captures, heartbeats, published, life,
                       stranded, faults>>
        /\ waits' = [waits EXCEPT ![p] = "exited"]
        /\ acked' \subseteq acked \cup overlay
    BY <1>4 DEF Poll
  <2>2. TypeOK'
    BY <2>1 DEF TypeOK, controller
  <2> QED  BY <2>1, <2>2 DEF Shapes, Fits, Quiet, Prepares, Starts, controller
<1> QED  BY <1>1, <1>2, <1>3, <1>4

-----------------------------------------------------------------------------
LEMMA NextCases ==
    ASSUME Next
    PROVE  \/ Client \/ \E r \in wire : Handler(r)
           \/ RunHook \/ Resume \/ \E p \in Processes : Work(p) \/ Poll(p)
BY DEF Next, Client, Launches, Works, Captures, Handler, Files, Workload, Checkpoints

LEMMA ProtocolInit == Init => Protocol
<1> SUFFICES ASSUME Init  PROVE Protocol
  OBVIOUS
<1> DEFINE n == Sent("health", Nothing, 0, 1)
<1>1. n \in Requests /\ n.kind = "health" /\ n.arg = Nothing /\ n.offset = 0 /\ n.stage = "sent"
  BY ControllerConstants DEF Sent, Requests, Kinds, Args
<1>2. call \in Calls /\ call.kind = "health" /\ call.arg = Nothing /\ call.offset = 0
  BY ControllerConstants DEF Init, Calls, Kinds, Args
<1>3. wire = {n}
  BY DEF Init
<1> HIDE DEF n
<1>4. Fits(n) /\ Fits(call)
  BY <1>1, <1>2 DEF Fits, Launching, Writing, Capturing
<1>5. TypeOK
  <2>1. 0 \in 0..MaxCaptures /\ 0 \in 0..MaxFaults
    BY ControllerConstants
  <2>2. published \subseteq Changes /\ acked \subseteq Changes
    BY DEF Init, Changes
  <2>3. wire \subseteq Requests /\ call \in Calls \cup {Idle}
    BY <1>1, <1>2, <1>3
  <2> QED  BY <2>1, <2>2, <2>3 DEF Init, TypeOK
<1>6. Shapes /\ Quiet /\ Prepares /\ Starts
  BY <1>1, <1>2, <1>3, <1>4, CallsAreNotIdle DEF Init, Shapes, Quiet, Prepares, Starts
<1> QED  BY <1>5, <1>6 DEF Protocol

LEMMA ProtocolNext == Protocol /\ [Next]_vars => Protocol'
<1> SUFFICES ASSUME Protocol, [Next]_vars  PROVE Protocol'
  OBVIOUS
<1>1. CASE UNCHANGED vars
  BY <1>1 DEF vars, Protocol, TypeOK, Shapes, Fits, Quiet, Prepares, Starts
<1>2. CASE Next
  BY <1>2, NextCases, ClientKeeps, FilesKeep, WorkloadKeeps, CheckpointsKeep, OthersKeep
     DEF Handler
<1> QED  BY <1>1, <1>2

\* The state of the controller, of its network and of the client keeps its types,
\* whatever is lost, repeated, late or refused: the handlers of controller.py find the
\* write, the process and the archive that a request is about.
THEOREM ControllerTypesHold == Spec => []TypeOK
<1>1. Protocol => TypeOK
  BY DEF Protocol
<1> QED  BY <1>1, ProtocolInit, ProtocolNext, PTL DEF Spec

-----------------------------------------------------------------------------
(* Nothing on the wire is taken for something else *)

\* The answer that is kept is the one that is waited for.
LEMMA HandleCurrent ==
    ASSUME Protocol, Wired, NEW r \in wire, NEW stage \in Outcomes, Handle(r, stage),
           stage \in {"frozen", "half"} => r.kind = "prepare"
    PROVE  \E a \in Requests :
             /\ a.kind = r.kind /\ a.arg = r.arg /\ a.offset = r.offset /\ a.try = r.try
             /\ a.stage = stage
             /\ \A x \in wire' :
                  \/ x \in wire /\ x # r
                  \/ x = a /\ call # Idle /\ r = Current(r.stage) /\ a = Current(stage)
<1>1. PICK a \in Requests :
        /\ a.kind = r.kind /\ a.arg = r.arg /\ a.offset = r.offset /\ a.try = r.try
        /\ a.stage = stage
        /\ \A x \in wire' : \/ x \in wire /\ x # r
                            \/ /\ x = a
                               /\ \/ stage \in {"frozen", "half"}
                                  \/ /\ call # Idle /\ call.kind = r.kind
                                     /\ call.arg = r.arg /\ call.try = r.try
  BY HandleShape
<1>2. ASSUME \/ stage \in {"frozen", "half"}
             \/ /\ call # Idle /\ call.kind = r.kind
                /\ call.arg = r.arg /\ call.try = r.try
      PROVE  call # Idle /\ r = Current(r.stage) /\ a = Current(stage)
  <2>1. r \in Requests
    BY DEF Protocol, TypeOK
  <2>2. /\ call # Idle /\ call.kind = r.kind /\ call.arg = r.arg /\ call.try = r.try
        /\ call.offset = r.offset
    <3>1. CASE Stray(r)
      BY <1>2, <3>1 DEF Stray, Late, Protocol, Shapes, Fits
    <3>2. CASE ~Stray(r)
      BY <3>2 DEF Wired, Current
    <3> QED  BY <3>1, <3>2
  <2>3. r = [kind |-> r.kind, arg |-> r.arg, offset |-> r.offset, try |-> r.try, stage |-> r.stage]
    BY <2>1 DEF Requests
  <2>4. a = [kind |-> a.kind, arg |-> a.arg, offset |-> a.offset, try |-> a.try, stage |-> a.stage]
    BY DEF Requests
  <2> QED  BY <1>1, <2>2, <2>3, <2>4 DEF Current
<1> QED  BY <1>1, <1>2

LEMMA HandlerShape ==
    ASSUME Protocol, NEW r \in wire, Handler(r)
    PROVE  /\ \E stage \in Outcomes : /\ Handle(r, stage)
                                      /\ stage \in {"frozen", "half"} => r.kind = "prepare"
           /\ UNCHANGED session /\ life = "up"
<1>1. CASE Files(r)
  BY <1>1 DEF Files, HandleError, Health, BeginWrite, WriteChunk, CommitWrite, AbortWrite,
              RemovePath, RestoreCheckpoint, Arrived, Outcomes, Handle
<1>2. CASE Workload(r)
  BY <1>2 DEF Workload, StartProcess, KillProcess, Release, Arrived, Outcomes, Handle
<1>3. CASE Checkpoints(r)
  BY <1>3 DEF Checkpoints, PrepareCheckpoint, ArchiveFirst, ArchiveSecond, UploadCheckpoint,
              CommitCheckpoint, Arrived, Outcomes, Handle
<1> QED  BY <1>1, <1>2, <1>3 DEF Handler

LEMMA HandlerWired ==
    ASSUME Protocol, Wired, NEW r \in wire, Handler(r)
    PROVE  Wired'
<1>1. PICK stage \in Outcomes : Handle(r, stage) /\ (stage \in {"frozen", "half"} => r.kind = "prepare")
  BY HandlerShape
<1>2. PICK a \in Requests :
        /\ a.stage = stage
        /\ \A x \in wire' :
             \/ x \in wire /\ x # r
             \/ x = a /\ call # Idle /\ r = Current(r.stage) /\ a = Current(stage)
  BY <1>1, HandleCurrent
<1>3. call' = call /\ \A s : Current(s)' = Current(s)
  BY <1>1 DEF Handle, session, Current
<1>4. \A x \in wire' : Stray(x) \/ (call # Idle /\ x = Current(x.stage))
  BY <1>2 DEF Wired
<1>5. ASSUME call # Idle, NEW s \in Outcomes, NEW t \in Outcomes,
             Current(s) \in wire', Current(t) \in wire'
      PROVE  s = t
  <2>1. r.stage \in Outcomes
    BY DEF Protocol, TypeOK, Requests, Outcomes
  <2>2. \A q \in Outcomes : Current(q).stage = q
    BY DEF Current
  <2> QED  BY <1>2, <1>5, <2>1, <2>2 DEF Wired
<1> QED  BY <1>3, <1>4, <1>5 DEF Wired, Stray

\* After a step of the client nothing is on the wire but requests that linger and
\* the request of its next step.
LEMMA ClientWire ==
    ASSUME Protocol, Wired, LateIsRecognised, Goes
    PROVE  /\ UNCHANGED controller
           /\ call' = Idle \/ call' \in Calls
           /\ \A x \in wire' : \/ x \in wire /\ Stray(x)
                               \/ call' # Idle /\ call'.kind \in Kinds /\ x = Current("sent")'
           /\ call' # Idle /\ call'.kind = "prepare" =>
                call'.arg \in 1..MaxCaptures /\ archives[call'.arg] = Nothing
<1>1. PICK left \in SUBSET wire : Advance(left) /\ Cleared(left)
  BY DEF Goes
<1>2. \A x \in left : x \in wire /\ Stray(x)
  BY <1>1 DEF Cleared
<1>3. CASE call' = Idle
  BY <1>1, <1>2, <1>3, CallsAreNotIdle DEF Advance
<1>4. CASE call' # Idle
  <2>1. /\ call' \in Calls /\ Fits(call)' /\ captures' \in captures..MaxCaptures
        /\ call'.kind = "prepare" => call'.arg > captures
        /\ \A x \in wire' : x \in left \/ (call'.kind \in Kinds /\ x = Current("sent")')
        /\ UNCHANGED controller
    BY <1>1, <1>4 DEF Advance
  <2>2. ASSUME call'.kind = "prepare"
        PROVE  call'.arg \in 1..MaxCaptures /\ archives[call'.arg] = Nothing
    <3>1. call'.arg \in 1..captures'
      BY <2>1, <2>2 DEF Fits, Capturing
    <3>2. call'.arg \in 1..MaxCaptures /\ call'.arg > captures
      BY <2>1, <2>2, <3>1, ControllerConstants DEF Protocol, TypeOK
    <3> QED  BY <3>2 DEF Protocol, Prepares
  <2> QED  BY <1>2, <1>4, <2>1, <2>2
<1> QED  BY <1>3, <1>4

LEMMA ClientWired ==
    ASSUME Protocol, Wired, LateIsRecognised, Goes
    PROVE  Wired'
<1>1. /\ call' = Idle \/ call' \in Calls
      /\ \A x \in wire' : \/ x \in wire /\ Stray(x)
                          \/ call' # Idle /\ call'.kind \in Kinds /\ x = Current("sent")'
  BY ClientWire
<1>2. \A q : Current(q)'.stage = q
  BY DEF Current
<1>3. \A x \in wire' : Stray(x) \/ (call' # Idle /\ x = Current(x.stage)')
  <2> TAKE x \in wire'
  <2>1. CASE x \in wire /\ Stray(x)
    BY <2>1
  <2>2. CASE call' # Idle /\ x = Current("sent")'
    <3>1. x.stage = "sent"
      BY <1>2, <2>2
    <3> QED  BY <2>2, <3>1
  <2> QED  BY <1>1, <2>1, <2>2
<1>4. \A q \in Outcomes : Current(q)' \in wire' => q = "sent"
  BY <1>1, <1>2 DEF Stray
<1> QED  BY <1>3, <1>4 DEF Wired, Stray

-----------------------------------------------------------------------------
(* What is saved: steps of the client *)

\* What the client's next step must find.
Finds ==
    /\ At({"spawn"}) => (At({"spawn"})' /\ call'.arg = call.arg) \/ processes[call.arg] # "none"
    /\ At({"commit", "terminate"}) => At({"commit", "terminate"})'
    /\ frozen => At(Capturing \ {"prepare"})'
    /\ Progress' /\ Clean' /\ Held' /\ Whole(published')

LEMMA ClientKept ==
    ASSUME Protocol, Wired, LateIsRecognised, Kept, Goes, Finds
    PROVE  Kept'
<1>1. /\ UNCHANGED <<activated, dirty, frozen, overlay, processes, writes, archives, starts>>
      /\ call' = Idle \/ call' \in Calls
      /\ \A x \in wire' : \/ x \in wire /\ Stray(x)
                          \/ call' # Idle /\ call'.kind \in Kinds /\ x = Current("sent")'
      /\ call' # Idle /\ call'.kind = "prepare" =>
           call'.arg \in 1..MaxCaptures /\ archives[call'.arg] = Nothing
  BY ClientWire DEF controller
<1>2. PICK n : n = Current("sent")'
  OBVIOUS
<1>3. n.kind = call'.kind /\ n.arg = call'.arg /\ n.stage = "sent"
  BY <1>2 DEF Current
<1>4. \A x \in wire' : x.stage = "sent" /\ (x.kind \notin Late => call' # Idle /\ x = n)
  BY <1>1, <1>2, <1>3 DEF Stray
<1>5. Harmless'
  <2>1. ASSUME NEW x \in wire', x.kind = "spawn"
        PROVE  processes[x.arg] # "none" \/ (At({"spawn"})' /\ call'.arg = x.arg)
    <3>1. CASE x \in wire
      BY <2>1, <3>1 DEF Kept, Harmless, Finds
    <3>2. CASE call' # Idle /\ x = n
      BY <1>3, <2>1, <3>2 DEF At
    <3> QED  BY <1>1, <1>2, <3>1, <3>2
  <2>2. ASSUME NEW x \in wire', x.kind = "commit"
        PROVE  At({"commit", "terminate"})'
    <3>1. CASE x \in wire
      BY <2>2, <3>1 DEF Kept, Harmless, Finds
    <3>2. CASE call' # Idle /\ x = n
      BY <1>3, <2>2, <3>2 DEF At
    <3> QED  BY <1>1, <1>2, <3>1, <3>2
  <2> QED  BY <1>1, <1>4, <2>1, <2>2 DEF Harmless
<1>6. Frozen'
  <2> SUFFICES ASSUME frozen  PROVE /\ At(Capturing)'
                                    /\ \A p \in Processes : processes[p] # "running"
                                    /\ \A x \in wire' : x.kind # "prepare" /\ x.stage # "ok"
    BY <1>1 DEF Frozen
  <2>1. call' # Idle /\ call'.kind \in Capturing \ {"prepare"}
    BY DEF Finds, At
  <2>2. \A p \in Processes : processes[p] # "running"
    BY DEF Kept, Frozen
  <2> QED  BY <1>3, <1>4, <2>1, <2>2 DEF At, Late
<1>7. Archive'
  <2>1. \A x \in wire' : x.kind = "prepare" => archives[x.arg] = Nothing /\ x.stage = "sent"
    BY <1>1, <1>3, <1>4 DEF Late
  <2> QED  BY <1>1, <2>1 DEF Archive
<1>8. Told'
  BY <1>4 DEF Told
<1>9. Whole(overlay)'
  BY <1>1 DEF Kept, Whole
<1> QED  BY <1>5, <1>6, <1>7, <1>8, <1>9 DEF Kept, Finds, Whole

\* The facts about the client's state that every step starts from.
LEMMA LaunchesKept ==
    ASSUME Protocol, Wired, LateIsRecognised, Kept, Launches, life' = "up"
    PROVE  Kept'
<1>0. Goes
  BY LaunchesGo
<1>a. UNCHANGED <<activated, dirty, frozen, overlay, processes, writes, archives, starts>>
  BY <1>0, ClientWire DEF controller
<1> SUFFICES Finds
  BY <1>0, ClientKept
<1>1. CASE Retry
  <2>1. /\ call # Idle /\ call.kind \in RetryTransient
        /\ call' = [call EXCEPT !.try = @ + 1]
        /\ UNCHANGED <<published, acked>>
    BY <1>1 DEF Retry
  <2>2. call \in Calls
    BY <2>1 DEF Protocol, TypeOK
  <2>3. call' # Idle /\ call'.kind = call.kind /\ call'.arg = call.arg
    <3>1. call'.op # "idle" /\ call'.kind = call.kind /\ call'.arg = call.arg
      BY <2>1, <2>2 DEF Calls
    <3> QED  BY <3>1 DEF Idle
  <2>4. \A kinds : At(kinds)' <=> At(kinds)
    BY <2>1, <2>3 DEF At
  <2>5. Progress' /\ Clean' /\ Held'
    BY <1>a, <2>1, <2>3, <2>4 DEF Kept, Progress, Clean, Held, Pending, Unused
  <2> QED  BY <1>a, <2>1, <2>3, <2>4, <2>5 DEF Finds, Kept, Frozen, At, RetryTransient
<1>2. CASE AskAgain
  <2>1. /\ call # Idle /\ call.kind = "health" /\ UNCHANGED <<published, acked>>
        /\ \E left : Then("health", 0, left)
    BY <1>2 DEF AskAgain
  <2>2. call' # Idle /\ call'.kind = "health"
    <3>1. call \in Calls
      BY <2>1 DEF Protocol, TypeOK
    <3>2. call'.op # "idle" /\ call'.kind = "health"
      BY <2>1, <3>1 DEF Calls, Then
    <3> QED  BY <3>2 DEF Idle
  <2>3. ~frozen
    BY <2>1 DEF Kept, Held, At, Launching
  <2>4. Progress' /\ Clean' /\ Held'
    BY <1>a, <2>1, <2>2 DEF Kept, Progress, Clean, Held, Unused, At, Launching
  <2> QED  BY <1>a, <2>1, <2>2, <2>3, <2>4 DEF Finds, Kept, At
<1>3. CASE Restore
  <2>1. /\ call # Idle /\ call.kind = "health" /\ UNCHANGED <<published, acked>>
        /\ IF published # {} THEN Then("restore", 0, Settled) ELSE Done(Settled)
    BY <1>3 DEF Restore, Ready, Answered
  <2>2. \/ call' # Idle /\ call'.kind = "restore"
        \/ call' = Idle /\ published = {}
    <3>1. call \in Calls
      BY <2>1 DEF Protocol, TypeOK
    <3>2. Then("restore", 0, Settled) => call'.op # "idle" /\ call'.kind = "restore"
      BY <2>1, <3>1 DEF Calls, Then
    <3> QED  BY <2>1, <3>2 DEF Idle, Done
  <2>3. ~frozen /\ acked = published
    BY <2>1 DEF Kept, Held, At, Launching
  <2>4. Progress' /\ Clean' /\ Held'
    BY <1>a, <2>1, <2>2, <2>3 DEF Kept, Progress, Clean, Held, Unused, At, Launching
  <2> QED  BY <1>a, <2>1, <2>2, <2>3, <2>4 DEF Finds, Kept, At
<1>4. CASE Restored
  <2>1. /\ call # Idle /\ call.kind = "restore" /\ Current("ok") \in wire /\ call' = Idle
        /\ UNCHANGED <<published, acked>>
    BY <1>4 DEF Restored, Answered, Done
  <2>2. overlay = published
    BY <2>1 DEF Kept, Told, Current
  <2>3. ~frozen /\ acked = published
    BY <2>1 DEF Kept, Held, At, Launching
  <2>4. Progress' /\ Clean' /\ Held'
    BY <1>a, <2>1, <2>2, <2>3 DEF Kept, Progress, Clean, Held, Unused, At, Launching
  <2> QED  BY <1>a, <2>1, <2>3, <2>4 DEF Finds, Kept, At
<1>5. CASE RestoreFails
  BY <1>5 DEF RestoreFails
<1> QED  BY <1>1, <1>2, <1>3, <1>4, <1>5 DEF Launches

\* A step towards an operation on files or processes, a capture, or the end.
LEMMA PlainFinds ==
    ASSUME Kept, ~frozen, ~At({"commit", "terminate"}), published' = published,
           UNCHANGED <<activated, dirty, frozen, overlay, processes, writes, archives, starts>>,
           call' = Idle \/ (call' # Idle /\ call'.kind \in Writing \cup {"remove", "spawn", "kill", "prepare"}),
           acked' \subseteq overlay, ~dirty => acked' \subseteq acked,
           At({"spawn"}) => processes[call.arg] # "none"
    PROVE  Finds
<1>1. Progress' /\ Held'
  BY DEF Progress, Held, At, Launching, Writing
<1>2. Clean'
  BY DEF Kept, Clean, Unused
<1> QED  BY <1>1, <1>2 DEF Finds, Kept

LEMMA ThenCall ==
    ASSUME Protocol, call # Idle, NEW kind, NEW offset, NEW left, Then(kind, offset, left)
    PROVE  call' # Idle /\ call'.kind = kind /\ call'.arg = call.arg
<1>1. call \in Calls /\ call' = [call EXCEPT !.kind = kind, !.offset = offset, !.try = 1]
  BY DEF Protocol, TypeOK, Then
<1>2. call'.op # "idle" /\ call'.kind = kind /\ call'.arg = call.arg
  BY <1>1 DEF Calls
<1> QED  BY <1>2 DEF Idle

LEMMA BeginCall ==
    ASSUME NEW op, op # "idle", NEW arg, NEW kind, Begin(op, arg, kind)
    PROVE  call = Idle /\ call' # Idle /\ call'.kind = kind /\ UNCHANGED <<published, acked>>
<1>1. call' = [op |-> op, arg |-> arg, kind |-> kind, offset |-> 0, try |-> 1]
  BY DEF Begin
<1>2. call'.op # "idle" /\ call'.kind = kind
  BY <1>1
<1> QED  BY <1>2 DEF Idle, Begin

LEMMA WorksKept ==
    ASSUME Protocol, Wired, LateIsRecognised, Kept, Works, stranded' = {}
    PROVE  Kept'
<1>0. Goes
  BY WorksGo
<1>a. UNCHANGED <<activated, dirty, frozen, overlay, processes, writes, archives, starts>>
  BY <1>0, ClientWire DEF controller
<1> SUFFICES Finds
  BY <1>0, ClientKept
<1>b. ASSUME call = Idle \/ (call # Idle /\ call.kind \notin Launching \cup Capturing)
      PROVE  ~frozen /\ acked \subseteq overlay /\ ~At({"commit", "terminate"})
  BY <1>b DEF Kept, Frozen, Held, At, Capturing
<1>1. ASSUME \/ \E p \in Processes : Spawn(p) \/ Kill(p)
             \/ \E w \in Writes : WriteFile(w)
             \/ \E f \in Removals : RemoveFile(f)
      PROVE  Finds
  <2>1. \E kind \in {"spawn", "kill", "begin", "remove"} : \E op, arg : op # "idle" /\ Begin(op, arg, kind)
    BY <1>1 DEF Spawn, Kill, WriteFile, RemoveFile
  <2>2. /\ call = Idle /\ call' # Idle /\ call'.kind \in {"spawn", "kill", "begin", "remove"}
        /\ UNCHANGED <<published, acked>>
    BY <2>1, BeginCall
  <2>3. ~At({"spawn"})
    BY <2>2 DEF At
  <2> QED  BY <1>a, <1>b, <2>2, <2>3, PlainFinds DEF Writing
<1>2. CASE WriteProceeds
  <2>1. /\ call # Idle /\ call.kind \in {"begin", "chunk"} /\ UNCHANGED <<published, acked>>
        /\ \E kind \in {"chunk", "commit_write"} : \E offset : Then(kind, offset, Settled)
    BY <1>2 DEF WriteProceeds, Answered
  <2>2. call' # Idle /\ call'.kind \in {"chunk", "commit_write"}
    BY <2>1, ThenCall
  <2>3. ~At({"spawn"}) /\ call.kind \notin Launching \cup Capturing
    BY <2>1 DEF At, Launching, Capturing
  <2> QED  BY <1>a, <1>b, <2>1, <2>2, <2>3, PlainFinds DEF Writing
<1>3. CASE FileDone
  <2>1. /\ call # Idle /\ call.kind \in {"commit_write", "remove"} /\ Current("ok") \in wire
        /\ call' = Idle /\ acked' = acked \cup {call.arg} /\ published' = published
    BY <1>3 DEF FileDone, Answered, Done
  <2>2. call.arg \in overlay /\ dirty
    BY <2>1 DEF Kept, Told, Current
  <2>3. ~At({"spawn"}) /\ call.kind \notin Launching \cup Capturing
    BY <2>1 DEF At, Launching, Capturing
  <2> QED  BY <1>a, <1>b, <2>1, <2>2, <2>3, PlainFinds
<1>4. CASE WriteFails \/ Aborted \/ Killed
  <2>1. /\ call # Idle /\ call.kind \in Writing \cup {"remove", "kill"} /\ UNCHANGED <<published, acked>>
        /\ (\E left : Then("abort", 0, left)) \/ call' = Idle
    BY <1>4 DEF WriteFails, Aborted, Killed, GivesUp, Done, Answered, Writing
  <2>2. call' = Idle \/ (call' # Idle /\ call'.kind = "abort")
    BY <2>1, ThenCall
  <2>3. ~At({"spawn"}) /\ call.kind \notin Launching \cup Capturing
    BY <2>1 DEF At, Launching, Capturing, Writing
  <2> QED  BY <1>a, <1>b, <2>1, <2>2, <2>3, PlainFinds DEF Writing
<1>5. CASE Spawned
  <2>1. /\ call # Idle /\ call.kind = "spawn" /\ Current("ok") \in wire
        /\ call' = Idle /\ UNCHANGED <<published, acked>>
    BY <1>5 DEF Spawned, Answered, Done
  <2>2. processes[call.arg] # "none"
    BY <2>1 DEF Kept, Harmless, Current
  <2>3. call.kind \notin Launching \cup Capturing
    BY <2>1 DEF Launching, Capturing
  <2> QED  BY <1>a, <1>b, <2>1, <2>2, <2>3, PlainFinds
<1>6. CASE SpawnFails
  BY <1>6 DEF SpawnFails
<1> QED  BY <1>1, <1>2, <1>3, <1>4, <1>5, <1>6 DEF Works

LEMMA CapturesKept ==
    ASSUME Protocol, Wired, LateIsRecognised, Kept, Captures, stranded' = {}, life' = "up"
    PROVE  Kept'
<1>0. Goes
  BY CapturesGo
<1>a. UNCHANGED <<activated, dirty, frozen, overlay, processes, writes, archives, starts>>
  BY <1>0, ClientWire DEF controller
<1> SUFFICES Finds
  BY <1>0, ClientKept
<1>b. At(Capturing) => acked \subseteq overlay /\ ~At({"spawn"})
  BY DEF Kept, Held, At, Capturing, Launching
<1>c. ASSUME call # Idle, call.kind \in Capturing, call.kind \notin {"commit", "terminate"},
             call' # Idle, call'.kind \in Capturing \ {"prepare"}, acked' = acked, published' = published,
             Progress'
      PROVE  Finds
  BY <1>a, <1>b, <1>c DEF Finds, Kept, At, Clean, Held, Unused, Capturing, Launching
<1>1. CASE Capture
  <2>1. call = Idle /\ call' # Idle /\ call'.kind = "prepare" /\ UNCHANGED <<published, acked>>
    BY <1>1, BeginCall DEF Capture
  <2>2. ~frozen /\ acked \subseteq overlay /\ ~At({"commit", "terminate"}) /\ ~At({"spawn"})
    BY <2>1 DEF Kept, Frozen, Held, At
  <2> QED  BY <1>a, <2>1, <2>2, PlainFinds
<1>2. CASE Prepared
  <2>1. UNCHANGED <<published, acked>>
    BY <1>2 DEF Prepared
  <2>2. CASE Answered("prepare", "clean") /\ Then("publish", 0, Settled)
    <3>1. call # Idle /\ call.kind = "prepare" /\ Current("clean") \in wire
      BY <2>2 DEF Answered
    <3>2. archives[call.arg] = Nothing /\ ~dirty /\ ~frozen
      BY <3>1 DEF Kept, Archive, Frozen, Current
    <3>3. call' # Idle /\ call'.kind = "publish" /\ call'.arg = call.arg
      BY <2>2, <3>1, ThenCall
    <3>4. Progress'
      BY <1>a, <3>2, <3>3 DEF Progress, At, Pending
    <3> QED  BY <1>c, <2>1, <3>1, <3>3, <3>4 DEF Capturing
  <2>3. CASE Answered("prepare", "ok") /\ Then("upload", 0, Settled)
    <3>1. call # Idle /\ call.kind = "prepare" /\ Current("ok") \in wire
      BY <2>3 DEF Answered
    <3>2. archives[call.arg] = overlay /\ dirty /\ frozen
      BY <3>1 DEF Kept, Archive, Current
    <3>3. call' # Idle /\ call'.kind = "upload" /\ call'.arg = call.arg
      BY <2>3, <3>1, ThenCall
    <3>4. Progress'
      BY <1>a, <3>2, <3>3 DEF Progress, At
    <3> QED  BY <1>c, <2>1, <3>1, <3>3, <3>4 DEF Capturing
  <2> QED  BY <1>2, <2>2, <2>3 DEF Prepared
<1>3. CASE Uploaded \/ UploadFails
  <2>1. /\ call # Idle /\ call.kind = "upload" /\ UNCHANGED <<published, acked>>
        /\ \E kind \in {"publish", "release"} : \E left : Then(kind, 0, left)
    BY <1>3 DEF Uploaded, UploadFails, GivesUp, Answered
  <2>2. archives[call.arg] = overlay /\ dirty /\ frozen
    BY <2>1 DEF Kept, Progress, At
  <2>3. overlay # Nothing
    BY ControllerConstants DEF Protocol, TypeOK
  <2>4. call' # Idle /\ call'.kind \in {"publish", "release"} /\ call'.arg = call.arg
    BY <2>1, ThenCall
  <2>5. Progress'
    BY <1>a, <2>2, <2>3, <2>4 DEF Progress, At, Pending
  <2> QED  BY <1>c, <2>1, <2>4, <2>5 DEF Capturing
<1>4. CASE Publish
  <2>1. /\ call # Idle /\ call.kind = "publish" /\ acked' = acked
        /\ published' = IF Pending THEN archives[call.arg] ELSE published
        /\ Then(IF Pending THEN "commit" ELSE "terminate", 0, wire)
    BY <1>4 DEF Publish
  <2>2. /\ IF Pending THEN archives[call.arg] = overlay /\ frozen /\ dirty ELSE ~frozen /\ ~dirty
        /\ acked \subseteq overlay /\ ~At({"spawn"})
    BY <1>b, <2>1 DEF Kept, Progress, At, Capturing
  <2>3. call' # Idle /\ call'.kind = IF Pending THEN "commit" ELSE "terminate"
    BY <2>1, ThenCall
  <2>4. CASE Pending
    BY <1>a, <2>1, <2>2, <2>3, <2>4
       DEF Finds, Kept, At, Progress, Clean, Held, Unused, Capturing, Launching, Whole
  <2>5. CASE ~Pending
    BY <1>a, <2>1, <2>2, <2>3, <2>5
       DEF Finds, Kept, At, Progress, Clean, Held, Unused, Capturing, Launching, Whole
  <2> QED  BY <2>4, <2>5
<1>5. CASE PublishFails
  <2>1. /\ call # Idle /\ call.kind = "publish" /\ UNCHANGED <<published, acked>>
        /\ IF Pending THEN Then("release", 0, wire) ELSE Done(wire)
    BY <1>5 DEF PublishFails
  <2>2. /\ IF Pending THEN archives[call.arg] = overlay /\ frozen /\ dirty ELSE ~frozen /\ ~dirty
        /\ acked \subseteq overlay /\ ~At({"spawn"}) /\ ~At({"commit", "terminate"})
    BY <1>b, <2>1 DEF Kept, Progress, At, Capturing
  <2>3. CASE Pending
    <3>1. call' # Idle /\ call'.kind = "release"
      BY <2>1, <2>3, ThenCall
    <3>2. Progress'
      BY <1>a, <2>2, <2>3, <3>1 DEF Progress, At
    <3> QED  BY <1>c, <2>1, <3>1, <3>2 DEF Capturing
  <2>4. CASE ~Pending
    BY <1>a, <2>1, <2>2, <2>4, PlainFinds DEF Done
  <2> QED  BY <2>3, <2>4
<1>6. CASE Committed
  <2>1. call # Idle /\ call.kind = "commit" /\ UNCHANGED <<published, acked>> /\ Then("terminate", 0, Settled)
    BY <1>6 DEF Committed, Answered
  <2>2. call' # Idle /\ call'.kind = "terminate"
    BY <2>1, ThenCall
  <2>3. frozen /\ published = overlay /\ acked \subseteq overlay
    BY <1>b, <2>1 DEF Kept, Progress, At, Capturing
  <2> QED  BY <1>a, <2>1, <2>2, <2>3
           DEF Finds, Kept, At, Progress, Clean, Held, Unused, Capturing, Launching
<1>7. CASE Released
  <2>1. /\ call # Idle /\ call.kind = "release" /\ Current("ok") \in wire
        /\ call' = Idle /\ UNCHANGED <<published, acked>>
    BY <1>7 DEF Released, Answered, Done
  <2>2. ~frozen
    BY <2>1 DEF Kept, Frozen, Current
  <2>3. acked \subseteq overlay /\ ~At({"spawn"}) /\ ~At({"commit", "terminate"})
    BY <1>b, <2>1 DEF At, Capturing
  <2> QED  BY <1>a, <2>1, <2>2, <2>3, PlainFinds
<1>8. CASE PrepareFails \/ UploadNotCreated \/ CommitFails \/ Terminate \/ Delete
  BY <1>8 DEF PrepareFails, UploadNotCreated, CommitFails, Terminate, Delete
<1> QED  BY <1>1, <1>2, <1>3, <1>4, <1>5, <1>6, <1>7, <1>8 DEF Captures

-----------------------------------------------------------------------------
(* What is saved: steps of the controller *)

LEMMA Awaited ==
    ASSUME Wired, NEW x \in wire, ~Stray(x)
    PROVE  call # Idle /\ call.kind = x.kind /\ call.arg = x.arg
BY DEF Wired, Current

\* What a step of a handler leaves on the wire.
LEMMA HandlerWire ==
    ASSUME Protocol, Wired, NEW r \in wire, NEW stage \in Outcomes, Handle(r, stage),
           stage \in {"frozen", "half"} => r.kind = "prepare"
    PROVE  /\ UNCHANGED <<call, published, acked>>
           /\ \E a : /\ a.kind = r.kind /\ a.arg = r.arg /\ a.stage = stage
                     /\ \A x \in wire' : \/ x \in wire /\ x # r
                                         \/ x = a /\ call # Idle /\ call.kind = r.kind /\ call.arg = r.arg
<1>1. PICK a \in Requests :
        /\ a.kind = r.kind /\ a.arg = r.arg /\ a.offset = r.offset /\ a.try = r.try
        /\ a.stage = stage
        /\ \A x \in wire' :
             \/ x \in wire /\ x # r
             \/ x = a /\ call # Idle /\ r = Current(r.stage) /\ a = Current(stage)
  BY HandleCurrent
<1>2. r = Current(r.stage) => call.kind = r.kind /\ call.arg = r.arg
  BY DEF Current
<1>3. UNCHANGED <<call, published, acked>>
  BY DEF Handle, session
<1> QED  BY <1>1, <1>2, <1>3

\* A step that answers a request and leaves the workspace alone.
LEMMA AnswerKept ==
    ASSUME Protocol, Wired, Kept, NEW r \in wire, r.stage = "sent",
           NEW stage \in {"ok", "error"}, Handle(r, stage),
           UNCHANGED <<dirty, frozen, overlay, processes, archives>>,
           stage = "ok" => r.kind \notin {"restore", "commit_write", "remove", "release", "prepare"},
           stage = "ok" /\ r.kind = "spawn" => processes[r.arg] # "none"
    PROVE  Kept'
<1>1. /\ UNCHANGED <<call, published, acked>>
      /\ \E a : /\ a.kind = r.kind /\ a.arg = r.arg /\ a.stage = stage
                /\ \A x \in wire' : \/ x \in wire /\ x # r
                                    \/ x = a /\ call # Idle /\ call.kind = r.kind /\ call.arg = r.arg
  BY HandlerWire DEF Outcomes
<1>2. PICK a : /\ a.kind = r.kind /\ a.arg = r.arg /\ a.stage = stage
               /\ \A x \in wire' : \/ x \in wire /\ x # r
                                   \/ x = a /\ call # Idle /\ call.kind = r.kind /\ call.arg = r.arg
  BY <1>1
<1>3. Harmless'
  <2>1. \A kinds : At(kinds)' <=> At(kinds)
    BY <1>1 DEF At
  <2> QED  BY <1>1, <1>2, <2>1 DEF Kept, Harmless, At
<1>4. Frozen'
  BY <1>1, <1>2 DEF Kept, Frozen, At
<1>5. Archive'
  BY <1>1, <1>2 DEF Kept, Archive
<1>6. Progress' /\ Clean' /\ Held'
  BY <1>1 DEF Kept, Progress, Clean, Held, Unused, At, Pending
<1>7. Told'
  BY <1>1, <1>2 DEF Kept, Told
<1>8. Whole(overlay)' /\ Whole(published)'
  BY <1>1 DEF Kept, Whole
<1> QED  BY <1>3, <1>4, <1>5, <1>6, <1>7, <1>8 DEF Kept

\* A step that changes files, for the operation that asked for it.
LEMMA ChangeKept ==
    ASSUME Protocol, Wired, Kept, NEW r \in wire, r.stage = "sent", r.kind \in {"commit_write", "remove"},
           NEW stage \in {"ok", "error"}, Handle(r, stage),
           UNCHANGED <<frozen, processes, archives>>,
           overlay' \in {overlay, overlay \cup {r.arg}}, (dirty => dirty'),
           stage = "ok" => dirty' /\ r.arg \in overlay'
    PROVE  Kept'
<1>0. ~Stray(r) /\ call # Idle /\ call.kind = r.kind /\ call.arg = r.arg
  BY Awaited DEF Stray, Late
<1>1. /\ UNCHANGED <<call, published, acked>>
      /\ \E a : /\ a.kind = r.kind /\ a.arg = r.arg /\ a.stage = stage
                /\ \A x \in wire' : \/ x \in wire /\ x # r
                                    \/ x = a /\ call # Idle /\ call.kind = r.kind /\ call.arg = r.arg
  BY HandlerWire DEF Outcomes
<1>2. PICK a : /\ a.kind = r.kind /\ a.arg = r.arg /\ a.stage = stage
               /\ \A x \in wire' : (x \in wire /\ x # r) \/ x = a
  BY <1>1
<1>3. \A x \in wire' : x.kind \notin {"prepare", "restore", "release"}
  BY <1>0, <1>2, Awaited DEF Stray, Late
<1>4. ~frozen /\ acked \subseteq overlay
  BY <1>0 DEF Kept, Frozen, Held, At, Capturing, Launching
<1>5. Harmless'
  <2>1. \A kinds : At(kinds)' <=> At(kinds)
    BY <1>1 DEF At
  <2> QED  BY <1>1, <1>2, <2>1 DEF Kept, Harmless
<1>6. Frozen' /\ Archive'
  BY <1>3, <1>4 DEF Frozen, Archive
<1>7. Progress' /\ Held'
  BY <1>0, <1>1, <1>4 DEF Progress, Held, At, Launching
<1>8. Clean'
  BY <1>1, <1>4 DEF Kept, Clean, Unused
<1>9. Told'
  <2>1. overlay \subseteq overlay'
    OBVIOUS
  <2>2. ASSUME NEW x \in wire', x.stage = "ok"
        PROVE  x.kind \in {"commit_write", "remove"} => x.arg \in overlay' /\ dirty'
    BY <1>2, <2>1, <2>2 DEF Kept, Told
  <2> QED  BY <1>3, <2>2 DEF Told
<1>10. Whole(overlay)' /\ Whole(published)'
  <2>1. r.arg \in Writes \cup Removals
    BY <1>0 DEF Protocol, Shapes, Fits, Writing
  <2>2. \A p \in Processes : \A n \in Stages : <<p, n>> # r.arg
    BY <2>1, ControllerConstants
  <2>3. Whole(overlay) /\ Whole(published)
    BY DEF Kept
  <2> QED  BY <1>1, <2>2, <2>3 DEF Whole, Stages
<1> QED  BY <1>5, <1>6, <1>7, <1>8, <1>9, <1>10 DEF Kept

LEMMA FilesKept ==
    ASSUME Protocol, Wired, Kept, NEW r \in wire, Files(r)
    PROVE  Kept'
<1>1. CASE HandleError(r)
  BY <1>1, AnswerKept DEF HandleError, Arrived, controller
<1>2. CASE Health(r)
  <2>1. /\ r.kind = "health" /\ r.stage = "sent" /\ UNCHANGED <<dirty, frozen, overlay, processes, archives>>
        /\ \E stage \in {"ok", "error"} : Handle(r, stage)
    BY <1>2 DEF Health, Arrived, controller
  <2> QED  BY <2>1, AnswerKept
<1>3. CASE BeginWrite(r) \/ WriteChunk(r) \/ AbortWrite(r)
  <2>1. /\ r.kind \in {"begin", "chunk", "abort"} /\ r.stage = "sent"
        /\ UNCHANGED <<dirty, frozen, overlay, processes, archives>>
        /\ \E stage \in {"ok", "error"} : Handle(r, stage)
    BY <1>3 DEF BeginWrite, WriteChunk, AbortWrite, Arrived
  <2> QED  BY <2>1, AnswerKept
<1>4. CASE CommitWrite(r)
  <2>1. /\ r.kind = "commit_write" /\ r.stage = "sent" /\ UNCHANGED <<frozen, processes, archives>>
        /\ overlay' \in {overlay, overlay \cup {r.arg}} /\ (dirty => dirty')
        /\ \E stage \in {"ok", "error"} : /\ Handle(r, stage)
                                          /\ stage = "ok" => dirty' /\ r.arg \in overlay'
    BY <1>4 DEF CommitWrite, Arrived
  <2> QED  BY <2>1, ChangeKept
<1>5. CASE RemovePath(r)
  <2>1. /\ r.kind = "remove" /\ r.stage = "sent" /\ UNCHANGED <<frozen, processes, archives>>
        /\ overlay' \in {overlay, overlay \cup {r.arg}} /\ (dirty => dirty')
        /\ \E stage \in {"ok", "error"} : /\ Handle(r, stage)
                                          /\ stage = "ok" => dirty' /\ r.arg \in overlay'
    BY <1>5 DEF RemovePath, Arrived
  <2> QED  BY <2>1, ChangeKept
<1>6. CASE RestoreCheckpoint(r)
  <2>1. r.kind = "restore" /\ r.stage = "sent" /\ UNCHANGED <<frozen, processes, archives>>
    BY <1>6 DEF RestoreCheckpoint, Arrived
  <2>2. call # Idle /\ call.kind = "restore"
    BY <2>1, Awaited DEF Stray, Late
  <2>3. acked = published /\ ~dirty /\ ~frozen /\ Unused
    BY <2>2 DEF Kept, Held, At, Launching
  <2>4. Handle(r, "ok") /\ overlay' = published /\ dirty' = FALSE
    BY <1>6, <2>3 DEF RestoreCheckpoint, Running, Unused
  <2>5. /\ UNCHANGED <<call, published, acked>>
        /\ \E a : /\ a.kind = r.kind /\ a.arg = r.arg /\ a.stage = "ok"
                  /\ \A x \in wire' : \/ x \in wire /\ x # r
                                      \/ x = a /\ call # Idle /\ call.kind = r.kind /\ call.arg = r.arg
    BY <2>4, HandlerWire DEF Outcomes
  <2>6. PICK a : /\ a.kind = r.kind /\ a.stage = "ok"
                 /\ \A x \in wire' : (x \in wire /\ x # r) \/ x = a
    BY <2>5
  <2>7. \A x \in wire' : x.kind \notin {"prepare", "commit_write", "remove", "release"}
    BY <2>1, <2>2, <2>6, Awaited DEF Stray, Late
  <2>8. \A kinds : At(kinds)' <=> At(kinds)
    BY <2>5 DEF At
  <2>9. Harmless'
    BY <2>1, <2>5, <2>6, <2>8 DEF Kept, Harmless
  <2>10. Frozen' /\ Archive' /\ Told'
    BY <2>1, <2>3, <2>4, <2>5, <2>6, <2>7 DEF Frozen, Archive, Told
  <2>11. Progress' /\ Clean' /\ Held'
    BY <2>1, <2>2, <2>3, <2>4, <2>5, <2>8 DEF Progress, Clean, Held, Unused, At, Launching
  <2>12. Whole(overlay)' /\ Whole(published)'
    BY <2>4, <2>5 DEF Kept, Whole
  <2> QED  BY <2>9, <2>10, <2>11, <2>12 DEF Kept
<1> QED  BY <1>1, <1>2, <1>3, <1>4, <1>5, <1>6 DEF Files

LEMMA WorkloadKept ==
    ASSUME Protocol, Wired, Kept, NEW r \in wire, Workload(r)
    PROVE  Kept'
<1>0. /\ Handle(r, "ok") /\ r.stage = "sent" /\ r.kind \in {"spawn", "kill", "release"}
      /\ UNCHANGED <<overlay, archives>>
  BY DEF Workload, StartProcess, KillProcess, Release, Arrived
<1>1. /\ UNCHANGED <<call, published, acked>>
      /\ \E a : /\ a.kind = r.kind /\ a.arg = r.arg /\ a.stage = "ok"
                /\ \A x \in wire' : \/ x \in wire /\ x # r
                                    \/ x = a /\ call # Idle /\ call.kind = r.kind /\ call.arg = r.arg
  BY <1>0, HandlerWire DEF Outcomes
<1>2. PICK a : /\ a.kind = r.kind /\ a.arg = r.arg /\ a.stage = "ok"
               /\ \A x \in wire' : \/ x \in wire /\ x # r
                                   \/ x = a /\ call # Idle /\ call.kind = r.kind /\ call.arg = r.arg
  BY <1>1
<1>3. \A kinds : At(kinds)' <=> At(kinds)
  BY <1>1 DEF At
<1>4. Whole(overlay)' /\ Whole(published)'
  BY <1>0, <1>1 DEF Kept, Whole
<1>5. processes \in [Processes -> {"none", "running", "stopped", "exited"}]
  BY DEF Protocol, TypeOK
<1>6. CASE StartProcess(r)
  <2>1. r.kind = "spawn" /\ frozen' = frozen /\ r.arg \in Processes
    BY <1>6 DEF StartProcess, Arrived, Protocol, Shapes, Fits
  <2>2. CASE processes[r.arg] # "none"
    BY <1>0, <1>6, <2>1, <2>2, AnswerKept DEF StartProcess
  <2>3. CASE processes[r.arg] = "none"
    <3>1. processes' = [processes EXCEPT ![r.arg] = "running"] /\ dirty' = TRUE
      BY <1>6, <2>3 DEF StartProcess
    <3>2. call # Idle /\ call.kind = "spawn"
      BY <2>1, <2>3 DEF Kept, Harmless, At
    <3>3. \A x \in wire' : x.kind \notin {"prepare", "restore", "commit_write", "remove", "release"}
      BY <1>2, <2>1, <3>2, Awaited DEF Stray, Late
    <3>4. ~frozen /\ acked \subseteq overlay
      BY <3>2 DEF Kept, Frozen, Held, At, Capturing, Launching
    <3>5. \A p \in Processes : processes[p] # "none" => processes'[p] # "none"
      BY <1>5, <2>1, <3>1
    <3>6. Harmless'
      <4>1. processes'[r.arg] # "none"
        BY <1>5, <2>1, <3>1
      <4>2. \A x \in wire' : x.kind = "spawn" => x.arg \in Processes
        BY <1>2, <2>1 DEF Protocol, Shapes, Fits
      <4> QED  BY <1>1, <1>2, <1>3, <2>1, <3>5, <4>1, <4>2 DEF Kept, Harmless
    <3>7. Frozen' /\ Archive' /\ Told'
      BY <2>1, <3>3, <3>4 DEF Frozen, Archive, Told
    <3>8. Progress' /\ Clean' /\ Held'
      BY <1>0, <1>1, <1>3, <3>1, <3>2, <3>4 DEF Progress, Clean, Held, At, Launching
    <3> QED  BY <1>4, <3>6, <3>7, <3>8 DEF Kept
  <2> QED  BY <2>2, <2>3
<1>7. CASE KillProcess(r)
  <2>1. r.kind = "kill" /\ UNCHANGED <<dirty, frozen>> /\ r.arg \in Processes
    BY <1>7 DEF KillProcess, Arrived, Protocol, Shapes, Fits
  <2>2. processes' = [processes EXCEPT ![r.arg] = IF Running(r.arg) THEN "exited" ELSE @]
    BY <1>7 DEF KillProcess
  <2>3. \A p \in Processes : /\ processes'[p] = "none" <=> processes[p] = "none"
                             /\ processes'[p] = "running" => processes[p] = "running"
    BY <1>5, <2>1, <2>2 DEF Running
  <2>4. \A x \in wire' : x.kind = "spawn" => x \in wire /\ x.arg \in Processes
    BY <1>2, <2>1 DEF Protocol, Shapes, Fits
  <2>5. Harmless'
    BY <1>1, <1>2, <1>3, <2>1, <2>3, <2>4 DEF Kept, Harmless
  <2>6. Frozen' /\ Archive' /\ Told'
    BY <1>0, <1>1, <1>2, <1>3, <2>1, <2>3 DEF Kept, Frozen, Archive, Told
  <2>7. Progress' /\ Clean' /\ Held'
    BY <1>0, <1>1, <1>3, <2>1, <2>3 DEF Kept, Progress, Clean, Held, Pending, Unused
  <2> QED  BY <1>4, <2>5, <2>6, <2>7 DEF Kept
<1>8. CASE Release(r)
  <2>1. r.kind = "release" /\ dirty' = dirty /\ frozen' = FALSE
    BY <1>8 DEF Release, ReleaseWorkload, Arrived
  <2>2. call # Idle /\ call.kind = "release"
    BY <2>1, Awaited DEF Stray, Late
  <2>3. \A p \in Processes : processes'[p] = "none" <=> processes[p] = "none"
    BY <1>5, <1>8 DEF Release, ReleaseWorkload, Running
  <2>4. \A x \in wire' : x.kind \notin {"prepare", "restore", "commit_write", "remove", "commit"}
    <3>1. \A x \in wire : x.kind # "commit"
      BY <2>2 DEF Kept, Harmless, At
    <3> QED  BY <1>2, <2>1, <2>2, <3>1, Awaited DEF Stray, Late
  <2>5. dirty /\ acked \subseteq overlay
    BY <2>2 DEF Kept, Progress, Held, At, Launching
  <2>6. Harmless'
    <3>1. \A x \in wire' : x.kind = "spawn" => x \in wire /\ x.arg \in Processes
      BY <1>2, <2>1 DEF Protocol, Shapes, Fits
    <3> QED  BY <1>1, <1>3, <2>3, <2>4, <3>1 DEF Kept, Harmless
  <2>7. Frozen' /\ Archive' /\ Told'
    BY <2>1, <2>4 DEF Frozen, Archive, Told
  <2>8. Progress' /\ Clean' /\ Held'
    BY <1>0, <1>1, <1>3, <2>1, <2>2, <2>5 DEF Progress, Clean, Held, At, Launching
  <2> QED  BY <1>4, <2>6, <2>7, <2>8 DEF Kept
<1> QED  BY <1>6, <1>7, <1>8 DEF Workload

LEMMA CheckpointsKept ==
    ASSUME Protocol, Wired, Kept, NEW r \in wire, Checkpoints(r)
    PROVE  Kept'
<1>0. UNCHANGED overlay
  BY DEF Checkpoints, PrepareCheckpoint, ArchiveFirst, ArchiveSecond, UploadCheckpoint,
         CommitCheckpoint, controller
<1>1. CASE UploadCheckpoint(r)
  <2>1. /\ r.kind = "upload" /\ r.stage = "sent" /\ UNCHANGED <<dirty, frozen, overlay, processes, archives>>
        /\ \E stage \in {"ok", "error"} : Handle(r, stage)
    BY <1>1 DEF UploadCheckpoint, Arrived, controller
  <2> QED  BY <2>1, AnswerKept
<1>2. CASE CommitCheckpoint(r)
  <2>1. /\ r.kind = "commit" /\ r.stage = "sent" /\ Handle(r, "ok")
        /\ archives' = [archives EXCEPT ![r.arg] = Nothing] /\ dirty' = FALSE
        /\ UNCHANGED <<frozen, processes>>
    BY <1>2 DEF CommitCheckpoint, Arrived
  <2>2. At({"commit", "terminate"})
    BY <2>1 DEF Kept, Harmless
  <2>3. /\ UNCHANGED <<call, published, acked>>
        /\ \E a : /\ a.kind = r.kind /\ a.arg = r.arg /\ a.stage = "ok"
                  /\ \A x \in wire' : \/ x \in wire /\ x # r
                                      \/ x = a /\ call # Idle /\ call.kind = r.kind /\ call.arg = r.arg
    BY <2>1, HandlerWire DEF Outcomes
  <2>4. PICK a : /\ a.kind = r.kind /\ a.stage = "ok"
                 /\ \A x \in wire' : (x \in wire /\ x # r) \/ x = a
    BY <2>3
  <2>5. \A x \in wire' : x.kind \notin {"prepare", "restore", "commit_write", "remove", "release"}
    BY <2>1, <2>2, <2>4, Awaited DEF At, Stray, Late
  <2>6. \A kinds : At(kinds)' <=> At(kinds)
    BY <2>3 DEF At
  <2>7. Harmless'
    BY <2>1, <2>2, <2>3, <2>4, <2>6 DEF Kept, Harmless
  <2>8. Frozen' /\ Archive' /\ Told'
    BY <2>1, <2>5, <2>6 DEF Kept, Frozen, Archive, Told
  <2>9. acked \subseteq overlay /\ (~dirty /\ ~frozen => acked \subseteq published /\ Unused)
    BY <2>2 DEF Kept, Held, At, Launching, Clean
  <2>10. Progress' /\ Clean' /\ Held'
    <3>1. IF frozen THEN published = overlay ELSE ~dirty
      BY <2>2 DEF Kept, Progress, At
    <3>2. Progress'
      BY <1>0, <2>1, <2>2, <2>3, <2>6, <3>1 DEF Kept, Progress, At
    <3>3. Clean'
      BY <2>1, <2>3, <2>9, <3>1 DEF Clean, Unused
    <3>4. Held'
      BY <1>0, <2>2, <2>6, <2>3, <2>9 DEF Held, At, Launching
    <3> QED  BY <3>2, <3>3, <3>4
  <2>11. Whole(overlay)' /\ Whole(published)'
    BY <1>0, <2>3 DEF Kept, Whole
  <2> QED  BY <2>7, <2>8, <2>10, <2>11 DEF Kept
<1>3. ASSUME PrepareCheckpoint(r) \/ ArchiveFirst(r) \/ ArchiveSecond(r)
      PROVE  Kept'
  <2>1. /\ r.kind = "prepare" /\ r.stage \in {"sent", "frozen", "half"}
        /\ r.arg \in 1..MaxCaptures
    <3>1. r.kind = "prepare" /\ r.stage \in {"sent", "frozen", "half"}
      BY <1>3 DEF PrepareCheckpoint, ArchiveFirst, ArchiveSecond, Arrived
    <3>2. r.arg \in 1..captures /\ captures \in 0..MaxCaptures
      BY <3>1 DEF Protocol, TypeOK, Shapes, Fits, Capturing
    <3> QED  BY <3>1, <3>2, ControllerConstants
  <2>2. PICK stage \in {"frozen", "clean", "half", "ok"} :
          /\ Handle(r, stage) /\ dirty' = dirty
          /\ stage \in {"frozen", "clean"} => archives' = archives /\ r.stage = "sent"
          /\ stage = "clean" => ~dirty /\ UNCHANGED <<frozen, processes>>
          /\ stage = "frozen" => dirty /\ FreezeWorkload
          /\ stage \in {"half", "ok"} => UNCHANGED <<frozen, processes>>
          /\ stage = "half" => /\ r.stage = "frozen"
                               /\ archives' = [archives EXCEPT ![r.arg] = overlay \ (Processes \X {2})]
          /\ stage = "ok" => /\ r.stage = "half"
                             /\ archives' = [archives EXCEPT ![r.arg] = @ \cup (overlay \cap (Processes \X {2}))]
    <3>1. CASE PrepareCheckpoint(r) /\ dirty
      <4>1. /\ Handle(r, "frozen") /\ dirty' = dirty /\ archives' = archives /\ r.stage = "sent"
            /\ dirty /\ FreezeWorkload
        BY <3>1 DEF PrepareCheckpoint, Arrived
      <4> QED  BY <4>1
    <3>2. CASE PrepareCheckpoint(r) /\ ~dirty
      <4>1. /\ Handle(r, "clean") /\ dirty' = dirty /\ archives' = archives /\ r.stage = "sent"
            /\ ~dirty /\ UNCHANGED <<frozen, processes>>
        BY <3>2 DEF PrepareCheckpoint, Arrived
      <4> QED  BY <4>1
    <3>3. CASE ArchiveFirst(r)
      BY <3>3 DEF ArchiveFirst, Arrived
    <3>4. CASE ArchiveSecond(r)
      BY <3>4 DEF ArchiveSecond, Arrived
    <3> QED  BY <1>3, <3>1, <3>2, <3>3, <3>4
  <2>3. call # Idle /\ call.kind = "prepare" /\ call.arg = r.arg
    BY <2>1, Awaited DEF Stray, Late
  <2>4. /\ UNCHANGED <<call, published, acked>>
        /\ \E a : /\ a.kind = r.kind /\ a.arg = r.arg /\ a.stage = stage
                  /\ \A x \in wire' : \/ x \in wire /\ x # r
                                      \/ x = a /\ call # Idle /\ call.kind = r.kind /\ call.arg = r.arg
    BY <2>1, <2>2, HandlerWire DEF Outcomes
  <2>5. PICK a : /\ a.kind = r.kind /\ a.arg = r.arg /\ a.stage = stage
                 /\ \A x \in wire' : (x \in wire /\ x # r) \/ x = a
    BY <2>4
  <2>6. /\ \A x \in wire' : x.kind \notin {"restore", "commit_write", "remove", "release", "commit"}
        /\ \A x \in wire' : x.kind = "prepare" => x = a
        /\ \A x \in wire' : x.kind = "spawn" => x \in wire /\ x.arg \in Processes
    <3>1. \A x \in wire : x.kind # "commit"
      BY <2>3 DEF Kept, Harmless, At
    <3>2. \A x \in wire : x.kind = "prepare" => x = r
      BY <2>1, <2>3, Awaited DEF Stray, Late, Protocol, Prepares
    <3>3. \A x \in wire : x.kind \notin {"restore", "commit_write", "remove", "release"}
      BY <2>3, Awaited DEF Stray, Late
    <3>4. \A x \in wire : x.kind = "spawn" => x.arg \in Processes
      BY DEF Protocol, Shapes, Fits
    <3> QED  BY <2>1, <2>5, <3>1, <3>2, <3>3, <3>4
  <2>7. /\ \A p \in Processes : processes'[p] = "none" <=> processes[p] = "none"
        /\ frozen' => \A p \in Processes : processes'[p] # "running"
        /\ frozen' <=> stage # "clean"
    <3>1. frozen => stage # "clean" /\ \A p \in Processes : processes[p] # "running"
      BY <2>1, <2>2 DEF Kept, Frozen
    <3>2. stage \in {"half", "ok"} => frozen
      BY <2>1, <2>2 DEF Kept, Archive
    <3>3. CASE stage = "frozen"
      <4>1. /\ frozen' = TRUE
            /\ processes' = IF frozen THEN processes
                            ELSE [p \in Processes |-> IF Running(p) THEN "stopped" ELSE processes[p]]
        BY <2>2, <3>3 DEF FreezeWorkload
      <4> QED  BY <3>1, <3>3, <4>1 DEF Running
    <3>4. CASE stage # "frozen"
      BY <2>2, <3>1, <3>2, <3>4
    <3> QED  BY <3>3, <3>4
  <2>8. \A kinds : At(kinds)' <=> At(kinds)
    BY <2>4 DEF At
  <2>9. Harmless'
    BY <2>4, <2>6, <2>7, <2>8 DEF Kept, Harmless
  <2>10. Frozen'
    BY <2>3, <2>5, <2>6, <2>7, <2>8 DEF Frozen, At, Capturing
  <2>11. Archive'
    <3> SUFFICES /\ stage \in {"clean", "frozen"} => archives'[r.arg] = Nothing
                 /\ stage = "clean" => ~dirty'
                 /\ stage \in {"frozen", "half", "ok"} => frozen' /\ dirty'
                 /\ stage = "half" => archives'[r.arg] = overlay \ (Processes \X {2})
                 /\ stage = "ok" => archives'[r.arg] = overlay
      BY <1>0, <2>5, <2>6 DEF Archive
    <3>1. stage \in {"clean", "frozen"} => archives'[r.arg] = Nothing
      BY <2>1, <2>2 DEF Kept, Archive
    <3>2. stage \in {"half", "ok"} => dirty
      BY <2>1, <2>2 DEF Kept, Archive
    <3>3. archives \in [1..MaxCaptures -> {Nothing} \cup SUBSET Changes]
      BY DEF Protocol, TypeOK
    <3>4. stage = "half" => archives'[r.arg] = overlay \ (Processes \X {2})
      BY <2>1, <2>2, <3>3
    <3>5. ASSUME stage = "ok"  PROVE archives'[r.arg] = overlay
      <4>1. archives[r.arg] = overlay \ (Processes \X {2})
        BY <2>1, <2>2, <3>5 DEF Kept, Archive
      <4>2. archives'[r.arg] = archives[r.arg] \cup (overlay \cap (Processes \X {2}))
        BY <2>1, <2>2, <3>3, <3>5
      <4>3. (overlay \ (Processes \X {2})) \cup (overlay \cap (Processes \X {2})) = overlay
        OBVIOUS
      <4> QED  BY <4>1, <4>2, <4>3
    <3> QED  BY <2>2, <2>7, <3>1, <3>2, <3>4, <3>5
  <2>12. Progress' /\ Held' /\ Told'
    <3>1. acked \subseteq overlay
      BY <2>3 DEF Kept, Held, At, Launching
    <3> QED  BY <1>0, <2>3, <2>4, <2>6, <2>8, <3>1 DEF Progress, Held, Told, At, Launching
  <2>13. Clean'
    <3>1. frozen' \/ UNCHANGED <<frozen, processes, dirty>>
      BY <2>2, <2>7
    <3> QED  BY <2>4, <3>1 DEF Kept, Clean, Unused
  <2>14. Whole(overlay)' /\ Whole(published)'
    BY <1>0, <2>4 DEF Kept, Whole
  <2> QED  BY <2>9, <2>10, <2>11, <2>12, <2>13, <2>14 DEF Kept
<1> QED  BY <1>1, <1>2, <1>3 DEF Checkpoints

LEMMA OthersKept ==
    ASSUME Protocol, Wired, Kept, RunHook \/ Resume \/ \E p \in Processes : Work(p) \/ Poll(p)
    PROVE  Kept'
<1>1. CASE RunHook
  <2>1. /\ ~activated /\ archives' = [c \in 1..MaxCaptures |-> Nothing]
        /\ processes' = [p \in Processes |-> "none"] /\ dirty' = FALSE /\ frozen' = FALSE
        /\ UNCHANGED <<overlay, wire, call, published, acked>>
    BY <1>1 DEF RunHook, session
  <2>2. call # Idle /\ call.kind = "health" /\ \A r \in wire : r.kind = "health"
    BY <2>1 DEF Protocol, Quiet
  <2>3. Unused'
    BY <2>1 DEF Unused
  <2>4. acked = published
    BY <2>2 DEF Kept, Held, At, Launching
  <2>5. Harmless' /\ Frozen' /\ Archive' /\ Told'
    BY <2>1, <2>2 DEF Harmless, Frozen, Archive, Told
  <2>6. Progress' /\ Clean' /\ Held'
    BY <2>1, <2>2, <2>3, <2>4 DEF Progress, Clean, Held, At, Launching
  <2> QED  BY <2>1, <2>5, <2>6 DEF Kept, Whole
<1>2. CASE Resume
  BY <1>2 DEF Resume, Kept, Frozen, At
<1>3. ASSUME NEW p \in Processes, Work(p)  PROVE Kept'
  <2>1. /\ processes[p] = "running"
        /\ UNCHANGED <<dirty, frozen, archives, wire, call, published, acked>>
        /\ \/ /\ processes' = processes
              /\ \E n \in Stages : (n = 1 \/ <<p, 1>> \in overlay) /\ overlay' = overlay \cup {<<p, n>>}
           \/ processes' = [processes EXCEPT ![p] = "exited"] /\ overlay' = overlay
    BY <1>3 DEF Work, session
  <2>2. ~frozen
    BY <2>1 DEF Kept, Frozen
  <2>3. dirty /\ ~At(Launching) /\ acked \subseteq overlay
    BY <2>1, <2>2 DEF Kept, Clean, Held, Unused
  <2>4. \A x \in wire : x.kind # "restore"
    BY <2>3, Awaited DEF Stray, Late, At, Launching
  <2>5. /\ overlay \subseteq overlay'
        /\ \A q \in Processes : processes'[q] = "none" <=> processes[q] = "none"
    BY <2>1 DEF Protocol, TypeOK
  <2>6. \A kinds : At(kinds)' <=> At(kinds)
    BY <2>1 DEF At
  <2>7. Harmless'
    <3>1. \A x \in wire : x.kind = "spawn" => x.arg \in Processes
      BY DEF Protocol, Shapes, Fits
    <3> QED  BY <2>1, <2>5, <2>6, <3>1 DEF Kept, Harmless
  <2>8. Frozen' /\ Clean' /\ Held'
    BY <2>1, <2>2, <2>3, <2>5, <2>6 DEF Frozen, Clean, Held
  <2>9. Archive'
    BY <2>1, <2>2, <2>3 DEF Kept, Archive
  <2>10. Progress'
    BY <2>1, <2>2, <2>3, <2>6 DEF Kept, Progress, Pending
  <2>11. Told'
    BY <2>1, <2>4, <2>5 DEF Kept, Told
  <2>12. Whole(overlay)'
    <3>1. CASE overlay' = overlay
      BY <3>1 DEF Kept, Whole
    <3>2. ASSUME NEW n \in Stages, n = 1 \/ <<p, 1>> \in overlay, overlay' = overlay \cup {<<p, n>>}
          PROVE  Whole(overlay')
      <4>1. ASSUME NEW q \in Processes, <<q, 2>> \in overlay'  PROVE <<q, 1>> \in overlay'
        <5>1. CASE <<q, 2>> \in overlay
          BY <3>2, <5>1 DEF Kept, Whole
        <5>2. CASE <<q, 2>> = <<p, n>>
          <6>1. q = p /\ n = 2
            BY <5>2
          <6> QED  BY <3>2, <6>1
        <5> QED  BY <3>2, <4>1, <5>1, <5>2
      <4> QED  BY <4>1 DEF Whole
    <3> QED  BY <2>1, <3>1, <3>2
  <2>13. Whole(published)'
    BY <2>1 DEF Kept, Whole
  <2> QED  BY <2>7, <2>8, <2>9, <2>10, <2>11, <2>12, <2>13 DEF Kept
<1>4. ASSUME NEW p \in Processes, Poll(p)  PROVE Kept'
  <2>1. /\ processes[p] # "none" /\ acked' \subseteq acked \cup overlay
        /\ UNCHANGED <<dirty, frozen, overlay, processes, archives, wire, call, published>>
    BY <1>4 DEF Poll, controller
  <2>2. ~Unused
    BY <2>1 DEF Unused
  <2>3. \A kinds : At(kinds)' <=> At(kinds)
    BY <2>1 DEF At
  <2>4. Harmless' /\ Frozen' /\ Archive' /\ Told'
    BY <2>1, <2>3 DEF Kept, Harmless, Frozen, Archive, Told
  <2>5. Progress'
    BY <2>1, <2>3 DEF Kept, Progress, Pending
  <2>6. Clean' /\ Held'
    BY <2>1, <2>2, <2>3 DEF Kept, Clean, Held, Unused
  <2> QED  BY <2>1, <2>4, <2>5, <2>6 DEF Kept, Whole
<1> QED  BY <1>1, <1>2, <1>3, <1>4

-----------------------------------------------------------------------------
(* What the client gave up on: its own steps *)

\* A handle that is of no more use does nothing, and what was stranded stays so.
LEMMA NextUp ==
    ASSUME Protocol, Next
    PROVE  /\ life = "up" /\ stranded \subseteq stranded'
           /\ Terminate \/ life' \in {"up", "failed", "deleted"}
<1>1. life # "up" => call = Idle
  BY DEF Protocol, Shapes
<1>2. ASSUME NEW r \in wire, Handler(r)  PROVE life = "up" /\ UNCHANGED <<life, stranded>>
  BY <1>2, HandlerShape DEF session
<1>3. CASE RunHook \/ Resume \/ \E p \in Processes : Work(p) \/ Poll(p)
  <2>1. CASE RunHook \/ Resume
    <3>1. life = "up" /\ UNCHANGED <<life, stranded>>
      BY <2>1 DEF RunHook, Resume, session
    <3> QED  BY <3>1
  <2>2. ASSUME NEW p \in Processes, Work(p) \/ Poll(p)
        PROVE  life = "up" /\ UNCHANGED <<life, stranded>>
    BY <2>2 DEF Work, Poll, session
  <2> QED  BY <1>3, <2>1, <2>2
<1>4. CASE Launches
  BY <1>1, <1>4 DEF Launches, Retry, AskAgain, Restore, Restored, RestoreFails, Answered, GivesUp
<1>5. CASE Works
  BY <1>1, <1>5 DEF Works, Spawn, Kill, WriteFile, RemoveFile, Begin, WriteProceeds, FileDone, WriteFails,
                    Aborted, Spawned, SpawnFails, Killed, Answered, GivesUp
<1>6. CASE Captures
  BY <1>1, <1>6 DEF Captures, Capture, Begin, Prepared, PrepareFails, UploadNotCreated, Uploaded, UploadFails, Publish,
                    PublishFails, Committed, CommitFails, Terminate, Released, Delete, Answered, GivesUp
<1> QED  BY <1>2, <1>3, <1>4, <1>5, <1>6, NextCases DEF Client

LEMMA FilesAreNotProcesses == FileChanges \cap (Processes \X Stages) = {}
BY ControllerConstants DEF FileChanges

\* What the client's next step must find.
Meets ==
    /\ At({"upload", "publish"})' => \A r \in wire : r.kind = "commit" => r.arg # call'.arg
    /\ At({"upload"})' => archives[call'.arg] # Nothing
    /\ Tame' /\ frozen => At(Capturing \ {"prepare"})' /\ (At({"publish"}) => Pending)'
    /\ Firm' => /\ At({"commit", "terminate"}) => At({"commit", "terminate"})'
                /\ Reached'

LEMMA ClientSafe ==
    ASSUME Protocol, Wired, LateIsRecognised, Made, Safe, Goes, Meets, Firm' => Firm
    PROVE  Made' /\ Thawed' /\ Safe'
<1>1. /\ UNCHANGED <<activated, dirty, frozen, overlay, processes, writes, archives, starts>>
      /\ call' = Idle \/ call' \in Calls
      /\ \A x \in wire' : \/ x \in wire /\ Stray(x)
                          \/ call' # Idle /\ call'.kind \in Kinds /\ x = Current("sent")'
      /\ call' # Idle /\ call'.kind = "prepare" =>
           call'.arg \in 1..MaxCaptures /\ archives[call'.arg] = Nothing
  BY ClientWire DEF controller
<1>2. PICK n : n = Current("sent")'
  OBVIOUS
<1>3. n.kind = call'.kind /\ n.arg = call'.arg /\ n.stage = "sent"
  BY <1>2 DEF Current
<1>4. \A x \in wire' : /\ x.stage = "sent"
                       /\ x.kind \notin Late => call' # Idle /\ x.kind = call'.kind /\ x.arg = call'.arg
                       /\ x \in wire \/ (call' # Idle /\ x.kind = call'.kind)
  BY <1>1, <1>2, <1>3 DEF Stray
<1>5. Made'
  <2>1. \A x \in wire' : x.kind = "prepare" => archives[x.arg] = Nothing /\ x.stage = "sent"
    BY <1>1, <1>4 DEF Late
  <2>2. \A x \in wire' : x.kind = "commit" /\ At({"upload", "publish"})' => x.arg # call'.arg
    BY <1>4 DEF Meets, At
  <2> QED  BY <1>1, <2>1, <2>2 DEF Made, Meets
<1>6. Thawed'
  <2> SUFFICES ASSUME Tame', frozen
               PROVE  /\ At(Capturing)' /\ (At({"publish"}) => Pending)'
                      /\ \A x \in wire' : x.kind # "prepare" /\ x.stage # "ok"
    BY <1>1 DEF Thawed
  <2>1. call' # Idle /\ call'.kind \in Capturing \ {"prepare"} /\ (At({"publish"}) => Pending)'
    BY DEF Meets, At
  <2> QED  BY <1>4, <2>1 DEF At, Late
<1>7. Safe'
  <2> SUFFICES ASSUME Firm'  PROVE Carried'
    BY DEF Safe, Meets
  <2>1. \A x \in wire' : x.kind = "commit" => At({"commit", "terminate"})'
    BY <1>4 DEF Meets, Safe, Carried, At
  <2> QED  BY <1>4, <2>1 DEF Carried
<1> QED  BY <1>5, <1>6, <1>7

\* A step towards an operation on files or processes, a capture, or the end.
LEMMA PlainMeets ==
    ASSUME published' = published,
           UNCHANGED <<activated, dirty, frozen, overlay, processes, writes, archives, starts>>,
           call' = Idle \/ (call' # Idle /\ call'.kind \in Writing \cup {"remove", "spawn", "kill", "prepare"}),
           Tame' => ~frozen,
           Firm' => /\ ~At({"commit", "terminate"})
                    /\ Known' \subseteq overlay /\ (~dirty => Known' \subseteq published)
    PROVE  Meets
<1>1. ~At({"upload", "publish", "commit", "terminate", "health", "restore"})'
  BY DEF At, Writing
<1>2. Firm' => Reached'
  BY <1>1 DEF Reached, At, Launching
<1> QED  BY <1>1, <1>2 DEF Meets, At

\* What holds before a step that gives up on nothing more.
Before ==
    /\ Protocol /\ Wired /\ Made /\ Thawed /\ Safe
    /\ life = "up" /\ stranded \subseteq stranded'

LEMMA BeforeHolds ==
    ASSUME Before
    PROVE  /\ Tame' /\ frozen =>
                /\ At(Capturing)
                /\ \A r \in wire : /\ r.kind = "prepare" => r.stage \in {"frozen", "half", "ok"}
                                   /\ r.kind = "release" => r.stage # "ok"
                /\ At({"publish"}) => Pending
           /\ Firm' => Firm /\ Reached /\ Carried
<1>1. Tame' => Tame
  BY DEF Before, Tame
<1>2. Firm' => Firm
  BY DEF Before, Firm
<1> QED  BY <1>1, <1>2 DEF Before, Thawed, Safe

LEMMA LaunchesMeet ==
    ASSUME Before, LateIsRecognised, Launches
    PROVE  Meets
<1> USE DEF Before
<1>0. Goes
  BY LaunchesGo
<1>a. UNCHANGED <<activated, dirty, frozen, overlay, processes, writes, archives, starts>>
  BY <1>0, ClientWire DEF controller
<1>b. /\ Tame' /\ frozen => At(Capturing) /\ (At({"publish"}) => Pending)
      /\ Firm' => Firm /\ Reached /\ Carried
  BY BeforeHolds
<1>1. CASE Retry
  <2>1. /\ call # Idle /\ call.kind \in RetryTransient
        /\ call' = [call EXCEPT !.try = @ + 1]
        /\ UNCHANGED <<published, acked>>
    BY <1>1 DEF Retry
  <2>2. call \in Calls
    BY <2>1 DEF Protocol, TypeOK
  <2>3. call' # Idle /\ call'.kind = call.kind /\ call'.arg = call.arg
    <3>1. call'.op # "idle" /\ call'.kind = call.kind /\ call'.arg = call.arg
      BY <2>1, <2>2 DEF Calls
    <3> QED  BY <3>1 DEF Idle
  <2>4. \A kinds : At(kinds)' <=> At(kinds)
    BY <2>1, <2>3 DEF At
  <2>5. Reached => Reached'
    BY <1>a, <2>1, <2>3, <2>4 DEF Reached, Known, Pending
  <2>6. ~At({"prepare", "publish"})
    BY <2>1 DEF At, RetryTransient
  <2> QED  BY <1>a, <1>b, <2>1, <2>3, <2>4, <2>5, <2>6 DEF Meets, Made, At
<1>2. CASE AskAgain
  <2>1. /\ call # Idle /\ call.kind = "health" /\ UNCHANGED <<published, acked>>
        /\ \E left : Then("health", 0, left)
    BY <1>2 DEF AskAgain
  <2>2. call' # Idle /\ call'.kind = "health"
    BY <2>1, ThenCall
  <2>3. Reached => Reached'
    BY <1>a, <2>1, <2>2 DEF Reached, Known, At, Launching
  <2> QED  BY <1>a, <1>b, <2>1, <2>2, <2>3 DEF Meets, At, Capturing
<1>3. CASE Restore
  <2>1. /\ call # Idle /\ call.kind = "health" /\ UNCHANGED <<published, acked>>
        /\ IF published # {} THEN Then("restore", 0, Settled) ELSE Done(Settled)
    BY <1>3 DEF Restore, Ready, Answered
  <2>2. \/ call' # Idle /\ call'.kind = "restore"
        \/ call' = Idle /\ published = {}
    BY <2>1, ThenCall DEF Done
  <2>3. Reached => Reached'
    BY <1>a, <2>1, <2>2 DEF Reached, Known, At, Launching
  <2> QED  BY <1>a, <1>b, <2>1, <2>2, <2>3 DEF Meets, At, Capturing
<1>4. CASE Restored
  <2>1. /\ call # Idle /\ call.kind = "restore" /\ Current("ok") \in wire /\ call' = Idle
        /\ UNCHANGED <<published, acked>>
    BY <1>4 DEF Restored, Answered, Done
  <2>2. Firm' => published \subseteq overlay
    BY <1>b, <2>1 DEF Carried, Current
  <2>3. Firm' => Known' \subseteq overlay /\ (~dirty => Known' \subseteq published)
    BY <1>b, <2>1, <2>2 DEF Reached, Known, At, Launching
  <2> QED  BY <1>a, <1>b, <2>1, <2>3, PlainMeets DEF At, Capturing
<1>5. CASE RestoreFails
  <2>1. /\ call # Idle /\ call.kind = "restore" /\ call' = Idle /\ life' = "failed"
        /\ UNCHANGED published
    BY <1>5 DEF RestoreFails, GivesUp, Done
  <2>2. ~Tame' /\ ~Firm'
    BY <2>1 DEF Tame, Firm
  <2> QED  BY <1>a, <2>1, <2>2, PlainMeets
<1> QED  BY <1>1, <1>2, <1>3, <1>4, <1>5 DEF Launches

LEMMA WorksMeet ==
    ASSUME Before, LateIsRecognised, Works
    PROVE  Meets
<1> USE DEF Before
<1>0. Goes
  BY WorksGo
<1>a. UNCHANGED <<activated, dirty, frozen, overlay, processes, writes, archives, starts>>
  BY <1>0, ClientWire DEF controller
<1>b. /\ Tame' /\ frozen => At(Capturing)
      /\ Firm' => Firm /\ Reached /\ Carried
  BY BeforeHolds
<1>c. ASSUME call = Idle \/ (call # Idle /\ call.kind \notin Launching \cup Capturing),
             UNCHANGED <<published, acked>>,
             call' = Idle \/ (call' # Idle /\ call'.kind \in Writing \cup {"remove", "spawn", "kill", "prepare"})
      PROVE  Meets
  <2>1. ~At(Capturing) /\ ~At(Launching) /\ ~At({"commit", "terminate"})
    BY <1>c DEF At, Capturing
  <2>2. Firm' => Known' \subseteq overlay /\ (~dirty => Known' \subseteq published)
    BY <1>b, <1>c, <2>1 DEF Reached, Known
  <2> QED  BY <1>a, <1>b, <1>c, <2>1, <2>2, PlainMeets
<1>1. ASSUME \/ \E p \in Processes : Spawn(p) \/ Kill(p)
             \/ \E w \in Writes : WriteFile(w)
             \/ \E f \in Removals : RemoveFile(f)
      PROVE  Meets
  <2>1. \E kind \in {"spawn", "kill", "begin", "remove"} : \E op, arg : op # "idle" /\ Begin(op, arg, kind)
    BY <1>1 DEF Spawn, Kill, WriteFile, RemoveFile
  <2>2. /\ call = Idle /\ call' # Idle /\ call'.kind \in {"spawn", "kill", "begin", "remove"}
        /\ UNCHANGED <<published, acked>>
    BY <2>1, BeginCall
  <2> QED  BY <1>c, <2>2 DEF Writing
<1>2. CASE WriteProceeds
  <2>1. /\ call # Idle /\ call.kind \in {"begin", "chunk"} /\ UNCHANGED <<published, acked>>
        /\ \E kind \in {"chunk", "commit_write"} : \E offset : Then(kind, offset, Settled)
    BY <1>2 DEF WriteProceeds, Answered
  <2>2. call' # Idle /\ call'.kind \in {"chunk", "commit_write"}
    BY <2>1, ThenCall
  <2> QED  BY <1>c, <2>1, <2>2 DEF Writing, Launching, Capturing
<1>3. CASE FileDone
  <2>1. /\ call # Idle /\ call.kind \in {"commit_write", "remove"} /\ Current("ok") \in wire
        /\ call' = Idle /\ acked' = acked \cup {call.arg} /\ published' = published
    BY <1>3 DEF FileDone, Answered, Done
  <2>2. Firm' => call.arg \in overlay /\ dirty
    BY <1>b, <2>1 DEF Carried, Current
  <2>3. ~At(Capturing) /\ ~At(Launching) /\ ~At({"commit", "terminate"})
    BY <2>1 DEF At, Launching, Capturing
  <2>4. Firm' => Known' \subseteq overlay
    BY <1>b, <2>1, <2>2, <2>3 DEF Reached, Known
  <2> QED  BY <1>a, <1>b, <2>1, <2>2, <2>3, <2>4, PlainMeets
<1>4. CASE WriteFails \/ Aborted \/ Killed \/ Spawned \/ SpawnFails
  <2>1. /\ call # Idle /\ call.kind \in Writing \cup {"remove", "kill", "spawn"}
        /\ UNCHANGED <<published, acked>>
        /\ (\E left : Then("abort", 0, left)) \/ call' = Idle
    BY <1>4 DEF WriteFails, Aborted, Killed, Spawned, SpawnFails, GivesUp, Done, Answered, Writing
  <2>2. call' = Idle \/ (call' # Idle /\ call'.kind = "abort")
    BY <2>1, ThenCall
  <2> QED  BY <1>c, <2>1, <2>2 DEF Writing, Launching, Capturing
<1> QED  BY <1>1, <1>2, <1>3, <1>4 DEF Works

LEMMA CapturesMeet ==
    ASSUME Before, LateIsRecognised, Captures
    PROVE  Meets
<1> USE DEF Before
<1>0. Goes
  BY CapturesGo
<1>a. UNCHANGED <<activated, dirty, frozen, overlay, processes, writes, archives, starts>>
  BY <1>0, ClientWire DEF controller
<1>b. /\ Tame' /\ frozen =>
           /\ At(Capturing)
           /\ \A r \in wire : /\ r.kind = "prepare" => r.stage \in {"frozen", "half", "ok"}
                              /\ r.kind = "release" => r.stage # "ok"
           /\ At({"publish"}) => Pending
      /\ Firm' => Firm /\ Reached /\ Carried
  BY BeforeHolds
<1>c. At(Capturing) => ~At(Launching)
  BY DEF At, Capturing, Launching
\* The capture goes on.
<1>d. ASSUME At(Capturing), At(Capturing \ {"prepare", "upload", "publish"})',
             UNCHANGED acked, Firm' => Known \subseteq published',
             At({"commit"}) => At({"commit", "terminate"})' \/ ~Firm', ~At({"terminate"})
      PROVE  Meets
  <2>1. ~At({"upload", "publish", "health", "restore"})' /\ At(Capturing \ {"prepare"})'
    BY <1>d DEF At, Capturing
  <2>2. Firm' => Reached'
    <3>1. Firm' => Known \subseteq overlay
      BY <1>b, <1>c, <1>d DEF Reached
    <3> QED  BY <1>a, <1>d, <2>1, <3>1 DEF Reached, Known, At, Launching
  <2> QED  BY <1>a, <1>d, <2>1, <2>2 DEF Meets, At
\* The operation is over.
<1>e. ASSUME At(Capturing), call' = Idle, UNCHANGED <<acked, published>>,
             Tame' => ~frozen, Firm' => ~At({"commit", "terminate"})
      PROVE  Meets
  <2>1. Firm' => Known' \subseteq overlay /\ (~dirty => Known' \subseteq published)
    BY <1>b, <1>c, <1>e DEF Reached, Known
  <2> QED  BY <1>a, <1>e, <2>1, PlainMeets
<1>1. CASE Capture
  <2>1. call = Idle /\ call' # Idle /\ call'.kind = "prepare" /\ UNCHANGED <<published, acked>>
    BY <1>1, BeginCall DEF Capture
  <2>2. ~At(Capturing) /\ ~At(Launching) /\ ~At({"commit", "terminate"})
    BY <2>1 DEF At
  <2>3. Firm' => Known' \subseteq overlay /\ (~dirty => Known' \subseteq published)
    BY <1>b, <2>1, <2>2 DEF Reached, Known
  <2> QED  BY <1>a, <1>b, <2>1, <2>2, <2>3, PlainMeets
<1>2. CASE Prepared
  <2>1. UNCHANGED <<published, acked>>
    BY <1>2 DEF Prepared
  <2>2. PICK stage \in {"clean", "ok"} : \E kind \in {"publish", "upload"} :
          /\ Answered("prepare", stage) /\ Then(kind, 0, Settled)
          /\ stage = "clean" <=> kind = "publish"
    BY <1>2 DEF Prepared
  <2>3. /\ call # Idle /\ call.kind = "prepare" /\ Current(stage) \in wire
        /\ \E left : Then(IF stage = "clean" THEN "publish" ELSE "upload", 0, left)
    BY <2>2 DEF Answered
  <2>4. call' # Idle /\ call'.kind = (IF stage = "clean" THEN "publish" ELSE "upload") /\ call'.arg = call.arg
    BY <2>3, ThenCall
  <2>5. PICK r \in wire : r.kind = "prepare" /\ r.stage = stage /\ r.arg = call.arg
    BY <2>3 DEF Current
  <2>6. archives[call.arg] # Nothing <=> stage = "ok"
    BY <2>5 DEF Made
  <2>7. \A s \in wire : s.kind = "commit" => s.arg # call.arg
    BY <2>5 DEF Protocol, Prepares
  <2>8. Tame' /\ frozen => stage = "ok"
    BY <1>b, <2>5
  <2>9. Firm' => Reached'
    <3>1. Firm' => /\ Known \subseteq overlay /\ (~dirty => Known \subseteq published)
                   /\ Known \subseteq IF stage = "ok" THEN archives[call.arg] ELSE published
      BY <1>b, <1>c, <2>3, <2>5 DEF Reached, Carried, At, Capturing
    <3> QED  BY <1>a, <2>1, <2>4, <2>6, <3>1 DEF Reached, Known, Pending, At, Launching
  <2> QED  BY <1>a, <2>3, <2>4, <2>6, <2>7, <2>8, <2>9 DEF Meets, At, Capturing
<1>3. CASE PrepareFails
  <2>1. /\ call # Idle /\ call.kind = "prepare" /\ call' = Idle /\ UNCHANGED <<acked, published>>
        /\ stranded' = stranded \cup {"prepare"}
    BY <1>3 DEF PrepareFails, GivesUp, Done
  <2>2. ~Tame' /\ At(Capturing) /\ ~At({"commit", "terminate"})
    BY <2>1 DEF Tame, At, Capturing
  <2> QED  BY <1>e, <2>1, <2>2
<1>11. CASE UploadNotCreated
  <2>1. /\ call # Idle /\ call.kind = "prepare" /\ call' = Idle /\ UNCHANGED <<acked, published>>
        /\ stranded' = stranded \cup {"upload"}
    BY <1>11 DEF UploadNotCreated, Answered, Done
  <2>2. ~Tame' /\ At(Capturing) /\ ~At({"commit", "terminate"})
    BY <2>1 DEF Tame, At, Capturing
  <2> QED  BY <1>e, <2>1, <2>2
<1>4. CASE Uploaded \/ UploadFails
  <2>1. /\ call # Idle /\ call.kind = "upload" /\ UNCHANGED <<published, acked>>
        /\ \E kind \in {"publish", "release"} : \E left : Then(kind, 0, left)
    BY <1>4 DEF Uploaded, UploadFails, GivesUp, Answered
  <2>2. call' # Idle /\ call'.kind \in {"publish", "release"} /\ call'.arg = call.arg
    BY <2>1, ThenCall
  <2>3. /\ archives[call.arg] # Nothing
        /\ \A r \in wire : r.kind = "commit" => r.arg # call.arg
    BY <2>1 DEF Made, At
  <2>4. Firm' => Reached'
    <3>1. Firm' => /\ Known \subseteq overlay /\ (~dirty => Known \subseteq published)
                   /\ Known \subseteq archives[call.arg]
      BY <1>b, <1>c, <2>1 DEF Reached, At, Capturing
    <3> QED  BY <1>a, <2>1, <2>2, <2>3, <3>1 DEF Reached, Known, Pending, At, Launching
  <2> QED  BY <1>a, <2>1, <2>2, <2>3, <2>4 DEF Meets, Pending, At, Capturing
<1>5. CASE Publish
  <2>1. /\ call # Idle /\ call.kind = "publish" /\ acked' = acked
        /\ published' = IF Pending THEN archives[call.arg] ELSE published
        /\ Then(IF Pending THEN "commit" ELSE "terminate", 0, wire)
    BY <1>5 DEF Publish
  <2>2. call' # Idle /\ call'.kind = IF Pending THEN "commit" ELSE "terminate"
    BY <2>1, ThenCall
  <2>3. At(Capturing) /\ ~At({"commit"}) /\ ~At({"terminate"})
    BY <2>1 DEF At, Capturing
  <2>4. At(Capturing \ {"prepare", "upload", "publish"})'
    BY <2>2 DEF At, Capturing
  <2>5. Firm' => Known \subseteq published'
    BY <1>b, <2>1 DEF Reached, At
  <2> QED  BY <1>d, <2>1, <2>3, <2>4, <2>5
<1>6. CASE PublishFails
  <2>1. /\ call # Idle /\ call.kind = "publish" /\ UNCHANGED <<published, acked>>
        /\ IF Pending THEN Then("release", 0, wire) ELSE Done(wire)
    BY <1>6 DEF PublishFails
  <2>2. At(Capturing) /\ ~At({"commit"}) /\ ~At({"terminate"}) /\ ~At({"commit", "terminate"}) /\ At({"publish"})
    BY <2>1 DEF At, Capturing
  <2>3. CASE Pending
    <3>1. call' # Idle /\ call'.kind = "release"
      BY <2>1, <2>3, ThenCall
    <3>2. ~At({"upload", "publish", "health", "restore", "commit", "terminate"})' /\ At(Capturing \ {"prepare"})'
      BY <3>1 DEF At, Capturing
    <3>3. Firm' => Reached'
      BY <1>a, <1>b, <1>c, <2>1, <2>2, <3>2 DEF Reached, Known, At, Launching
    <3> QED  BY <1>a, <2>2, <3>2, <3>3 DEF Meets, At
  <2>4. CASE ~Pending
    <3>1. Tame' => ~frozen
      BY <1>b, <2>2, <2>4
    <3> QED  BY <1>e, <2>1, <2>2, <2>4, <3>1 DEF Done
  <2> QED  BY <2>3, <2>4
<1>7. CASE Committed
  <2>1. call # Idle /\ call.kind = "commit" /\ UNCHANGED <<published, acked>> /\ Then("terminate", 0, Settled)
    BY <1>7 DEF Committed, Answered
  <2>2. call' # Idle /\ call'.kind = "terminate"
    BY <2>1, ThenCall
  <2>3. At(Capturing) /\ ~At({"terminate"}) /\ At({"commit", "terminate"})
    BY <2>1 DEF At, Capturing
  <2>4. At(Capturing \ {"prepare", "upload", "publish"})' /\ At({"commit", "terminate"})'
    BY <2>2 DEF At, Capturing
  <2>5. Firm' => Known \subseteq published'
    BY <1>b, <2>1, <2>3 DEF Reached
  <2> QED  BY <1>d, <2>1, <2>3, <2>4, <2>5
<1>8. CASE CommitFails
  <2>1. /\ call # Idle /\ call.kind = "commit" /\ UNCHANGED <<published, acked>>
        /\ \E left : Then("release", 0, left)
        /\ stranded' = stranded \cup {"commit"}
    BY <1>8 DEF CommitFails, GivesUp
  <2>2. call' # Idle /\ call'.kind = "release"
    BY <2>1, ThenCall
  <2>3. ~Firm' /\ At(Capturing) /\ ~At({"terminate"})
    BY <2>1 DEF Firm, At, Capturing
  <2>4. At(Capturing \ {"prepare", "upload", "publish"})'
    BY <2>2 DEF At, Capturing
  <2> QED  BY <1>d, <2>1, <2>3, <2>4
<1>9. CASE Terminate \/ Delete
  <2>1. call' = Idle /\ ~Tame' /\ ~Firm' /\ UNCHANGED published
    BY <1>9 DEF Terminate, Delete, Done, Tame, Firm
  <2> QED  BY <1>a, <2>1, PlainMeets
<1>10. CASE Released
  <2>1. /\ call # Idle /\ call.kind = "release" /\ call' = Idle /\ UNCHANGED <<acked, published>>
        /\ Current("ok") \in wire \/ stranded' = stranded \cup {"release"}
    BY <1>10 DEF Released, Answered, GivesUp, Done
  <2>2. At(Capturing) /\ ~At({"commit", "terminate"})
    BY <2>1 DEF At, Capturing
  <2>3. Tame' => ~frozen
    <3>1. CASE Current("ok") \in wire
      <4>1. Current("ok").kind = "release" /\ Current("ok").stage = "ok"
        BY <2>1 DEF Current
      <4> QED  BY <1>b, <3>1, <4>1
    <3>2. CASE stranded' = stranded \cup {"release"}
      BY <3>2 DEF Tame
    <3> QED  BY <2>1, <3>1, <3>2
  <2> QED  BY <1>e, <2>1, <2>2, <2>3
<1> QED  BY <1>1, <1>2, <1>3, <1>4, <1>5, <1>6, <1>7, <1>8, <1>9, <1>10, <1>11 DEF Captures

LEMMA ClientKeepsSafe ==
    ASSUME Before, LateIsRecognised, Client
    PROVE  Made' /\ Thawed' /\ Safe'
<1>1. Goes
  BY LaunchesGo, WorksGo, CapturesGo DEF Before, Client
<1>2. Meets
  BY LaunchesMeet, WorksMeet, CapturesMeet DEF Client
<1>3. Firm' => Firm
  BY BeforeHolds
<1> QED  BY <1>1, <1>2, <1>3, ClientSafe DEF Before

-----------------------------------------------------------------------------
(* What the client gave up on: steps of the controller *)

\* A step of a handler that at most adds to the files and to what is dirty, or
\* freezes or releases the workload.
LEMMA HandledSafe ==
    ASSUME Before, NEW r \in wire, r.stage = "sent", NEW stage \in Outcomes \ {"sent", "half"}, Handle(r, stage),
           UNCHANGED archives, overlay \subseteq overlay', dirty => dirty',
           stage \in {"frozen", "clean"} => r.kind = "prepare",
           frozen' => frozen \/ stage = "frozen",
           stage = "clean" => ~dirty,
           stage = "ok" => /\ r.kind \notin {"prepare", "restore"}
                           /\ r.kind = "release" => ~frozen'
                           /\ r.kind \in {"commit_write", "remove"} => r.arg \in overlay' /\ dirty'
    PROVE  Made' /\ Thawed' /\ Safe'
<1> USE DEF Before
<1>1. UNCHANGED <<call, published, acked, stranded, life>>
  BY DEF Handle, session
<1>2. PICK a : /\ a.kind = r.kind /\ a.arg = r.arg /\ a.stage = stage
               /\ \A x \in wire' : \/ x \in wire /\ x # r
                                   \/ x = a /\ call # Idle /\ call.kind = r.kind /\ call.arg = r.arg
  BY HandlerWire DEF Outcomes
<1>3. \A kinds : At(kinds)' <=> At(kinds)
  BY <1>1 DEF At
<1>4. Made'
  <2>1. \A x \in wire' : x.kind = "prepare" => (archives[x.arg] # Nothing <=> x.stage \in {"half", "ok"})
    BY <1>2 DEF Made, Outcomes
  <2>2. \A x \in wire' : x.kind = "commit" /\ At({"upload", "publish"}) => x.arg # call.arg
    BY <1>2 DEF Made, At
  <2> QED  BY <1>1, <1>3, <2>1, <2>2 DEF Made
<1>5. Thawed'
  <2> SUFFICES ASSUME Tame, frozen'
               PROVE  /\ At(Capturing)
                      /\ \A x \in wire' : /\ x.kind = "prepare" => x.stage \in {"frozen", "half", "ok"}
                                          /\ x.kind = "release" => x.stage # "ok"
                      /\ At({"publish"}) => Pending
    BY <1>1, <1>3 DEF Thawed, Tame, Pending
  <2>1. CASE stage = "frozen"
    <3>1. call # Idle /\ call.kind = "prepare" /\ call.arg = r.arg
      BY <2>1, Awaited DEF Stray, Late
    <3>2. \A x \in wire' : x.kind = "prepare" => x.stage = "frozen"
      BY <1>2, <2>1, <3>1, Awaited DEF Protocol, Prepares, Stray, Late
    <3>3. \A x \in wire' : x.kind # "release"
      BY <1>2, <2>1, <3>1, Awaited DEF Stray, Late
    <3> QED  BY <3>1, <3>2, <3>3 DEF At, Capturing
  <2>2. CASE stage # "frozen"
    <3>1. frozen /\ At(Capturing) /\ (At({"publish"}) => Pending)
      BY <2>2 DEF Thawed
    <3>2. r.kind # "prepare"
      BY <3>1 DEF Thawed
    <3> QED  BY <1>2, <3>1, <3>2 DEF Thawed
  <2> QED  BY <2>1, <2>2
<1>6. Safe'
  <2> SUFFICES ASSUME Firm  PROVE Reached' /\ Carried'
    BY <1>1 DEF Safe, Firm
  <2>1. Reached /\ Carried
    BY DEF Safe
  <2>2. Reached'
    BY <1>1, <1>3, <2>1 DEF Reached, Known, Pending
  <2>3. \A x \in wire' : x.kind = "commit" => At({"commit", "terminate"})
    BY <1>2, <2>1 DEF Carried
  <2>4. \A x \in wire' : /\ x.kind = "prepare" /\ x.stage = "clean" => Known \subseteq published
                         /\ x.kind = "prepare" /\ x.stage \in {"half", "ok"} => Known \subseteq archives[x.arg]
    BY <1>2, <2>1 DEF Carried, Reached
  <2>5. \A x \in wire' : /\ x.kind = "restore" /\ x.stage = "ok" => published \subseteq overlay'
                         /\ x.kind \in {"commit_write", "remove"} /\ x.stage = "ok" => x.arg \in overlay' /\ dirty'
    BY <1>2, <2>1 DEF Carried
  <2> QED  BY <1>1, <1>3, <2>2, <2>3, <2>4, <2>5 DEF Carried, Known
<1> QED  BY <1>4, <1>5, <1>6

LEMMA FilesSafe ==
    ASSUME Before, NEW r \in wire, Files(r)
    PROVE  Made' /\ Thawed' /\ Safe'
<1> USE DEF Outcomes
<1>1. CASE HandleError(r)
  <2>1. r.stage = "sent" /\ Handle(r, "error") /\ UNCHANGED <<dirty, frozen, overlay, archives>>
    BY <1>1 DEF HandleError, Arrived, controller
  <2> QED  BY <2>1, HandledSafe
<1>2. CASE Health(r) \/ BeginWrite(r) \/ WriteChunk(r) \/ AbortWrite(r)
  <2>1. /\ r.kind \in {"health", "begin", "chunk", "abort"} /\ r.stage = "sent"
        /\ UNCHANGED <<dirty, frozen, overlay, archives>>
        /\ \E stage \in {"ok", "error"} : Handle(r, stage)
    BY <1>2 DEF Health, BeginWrite, WriteChunk, AbortWrite, Arrived, controller
  <2> QED  BY <2>1, HandledSafe
<1>3. CASE CommitWrite(r) \/ RemovePath(r)
  <2>1. PICK stage \in {"ok", "error"} :
          /\ r.kind \in {"commit_write", "remove"} /\ r.stage = "sent" /\ UNCHANGED <<frozen, archives>>
          /\ Handle(r, stage) /\ overlay \subseteq overlay' /\ (dirty => dirty')
          /\ stage = "ok" => r.arg \in overlay' /\ dirty'
    BY <1>3 DEF CommitWrite, RemovePath, Arrived
  <2> QED  BY <2>1, HandledSafe
<1>4. CASE RestoreCheckpoint(r)
  <2>1. r.kind = "restore" /\ r.stage = "sent" /\ UNCHANGED <<frozen, archives>>
    BY <1>4 DEF RestoreCheckpoint, Arrived
  <2>2. CASE Handle(r, "error") /\ UNCHANGED <<overlay, dirty>>
    BY <2>1, <2>2, HandledSafe
  <2>3. CASE Handle(r, "ok") /\ overlay' = published /\ dirty' = FALSE
    <3> USE DEF Before
    <3>1. call # Idle /\ call.kind = "restore"
      BY <2>1, Awaited DEF Stray, Late
    <3>2. UNCHANGED <<call, published, acked, stranded, life>>
      BY <2>3 DEF Handle, session
    <3>3. PICK a : /\ a.kind = r.kind /\ a.arg = r.arg /\ a.stage = "ok"
                   /\ \A x \in wire' : (x \in wire /\ x # r) \/ x = a
      BY <2>3, HandlerWire
    <3>4. \A x \in wire' : x.kind \notin {"prepare", "commit_write", "remove", "release"}
      BY <2>1, <3>1, <3>3, Awaited DEF Stray, Late
    <3>5. \A kinds : At(kinds)' <=> At(kinds)
      BY <3>2 DEF At
    <3>6. Made'
      BY <2>1, <3>1, <3>2, <3>4, <3>5 DEF Made, At
    <3>7. Thawed'
      BY <2>1, <3>1, <3>2 DEF Thawed, Tame, At, Capturing
    <3>8. Safe'
      <4> SUFFICES ASSUME Firm  PROVE Reached' /\ Carried'
        BY <3>2 DEF Safe, Firm
      <4>1. Reached /\ Carried
        BY DEF Safe
      <4>2. Known \subseteq published /\ \A x \in wire' : x.kind # "commit"
        BY <2>1, <3>1, <3>3, <4>1 DEF Reached, Carried, At, Launching
      <4> QED  BY <2>3, <3>1, <3>2, <3>4, <4>2 DEF Reached, Carried, Known, At, Launching
    <3> QED  BY <3>6, <3>7, <3>8
  <2> QED  BY <1>4, <2>2, <2>3 DEF RestoreCheckpoint
<1> QED  BY <1>1, <1>2, <1>3, <1>4 DEF Files

LEMMA WorkloadSafe ==
    ASSUME Before, NEW r \in wire, Workload(r)
    PROVE  Made' /\ Thawed' /\ Safe'
<1>1. /\ Handle(r, "ok") /\ r.stage = "sent" /\ r.kind \in {"spawn", "kill", "release"}
      /\ UNCHANGED <<overlay, archives>> /\ (dirty => dirty') /\ (frozen' => frozen)
      /\ r.kind = "release" => ~frozen'
  BY DEF Workload, StartProcess, KillProcess, Release, ReleaseWorkload, Arrived
<1> QED  BY <1>1, HandledSafe DEF Outcomes

LEMMA CheckpointsSafe ==
    ASSUME Before, NEW r \in wire, Checkpoints(r)
    PROVE  Made' /\ Thawed' /\ Safe'
<1>1. CASE PrepareCheckpoint(r)
  <2>1. r.kind = "prepare" /\ r.stage = "sent" /\ UNCHANGED <<dirty, overlay, archives>>
    BY <1>1 DEF PrepareCheckpoint, Arrived
  <2>2. CASE dirty
    BY <1>1, <2>1, <2>2, HandledSafe DEF PrepareCheckpoint, Outcomes
  <2>3. CASE ~dirty
    BY <1>1, <2>1, <2>3, HandledSafe DEF PrepareCheckpoint, Outcomes
  <2> QED  BY <2>2, <2>3
<1>2. CASE UploadCheckpoint(r)
  <2>1. /\ r.kind = "upload" /\ r.stage = "sent" /\ UNCHANGED <<dirty, frozen, overlay, archives>>
        /\ \E stage \in {"ok", "error"} : Handle(r, stage)
    BY <1>2 DEF UploadCheckpoint, Arrived, controller
  <2> QED  BY <2>1, HandledSafe DEF Outcomes
<1> USE DEF Before
<1>a. r.kind \in {"prepare", "upload", "commit"} /\ r.arg \in 1..MaxCaptures
  <2>1. r.kind \in {"prepare", "upload", "commit"}
    BY DEF Checkpoints, PrepareCheckpoint, ArchiveFirst, ArchiveSecond, UploadCheckpoint,
           CommitCheckpoint, Arrived
  <2>2. r.arg \in 1..captures /\ captures \in 0..MaxCaptures
    BY <2>1 DEF Protocol, TypeOK, Shapes, Fits, Capturing
  <2> QED  BY <2>1, <2>2, ControllerConstants
<1>b. archives \in [1..MaxCaptures -> {Nothing} \cup SUBSET Changes] /\ overlay \subseteq Changes
  BY DEF Protocol, TypeOK
<1>3. ASSUME ArchiveFirst(r) \/ ArchiveSecond(r)
      PROVE  Made' /\ Thawed' /\ Safe'
  <2>1. PICK stage \in {"half", "ok"} :
          /\ Handle(r, stage) /\ r.kind = "prepare"
          /\ r.stage = (IF stage = "half" THEN "frozen" ELSE "half")
          /\ archives' = [archives EXCEPT ![r.arg] =
               IF stage = "half" THEN overlay \ (Processes \X {2})
               ELSE archives[r.arg] \cup (overlay \cap (Processes \X {2}))]
          /\ UNCHANGED <<dirty, frozen, overlay>>
    BY <1>3 DEF ArchiveFirst, ArchiveSecond, Arrived
  <2>2. call # Idle /\ call.kind = "prepare" /\ call.arg = r.arg
    BY <2>1, Awaited DEF Stray, Late
  <2>3. UNCHANGED <<call, published, acked, stranded, life>>
    BY <2>1 DEF Handle, session
  <2>4. PICK a : /\ a.kind = r.kind /\ a.arg = r.arg /\ a.stage = stage
                 /\ \A x \in wire' : (x \in wire /\ x # r) \/ x = a
    BY <2>1, HandlerWire DEF Outcomes
  <2>5. /\ \A x \in wire' : x.kind \notin {"restore", "commit_write", "remove", "release"}
        /\ \A x \in wire' : x.kind = "prepare" => x = a
    <3>1. \A x \in wire : x.kind = "prepare" => x = r
      BY <2>1, <2>2, Awaited DEF Stray, Late, Protocol, Prepares
    <3>2. \A x \in wire : x.kind \notin {"restore", "commit_write", "remove", "release"}
      BY <2>2, Awaited DEF Stray, Late
    <3> QED  BY <2>1, <2>4, <3>1, <3>2
  <2>6. archives[r.arg] # Nothing <=> stage = "ok"
    BY <2>1 DEF Made
  <2>7. stage = "ok" => archives[r.arg] \in SUBSET Changes
    BY <1>a, <1>b, <2>6
  <2>8. /\ archives'[r.arg] = IF stage = "half" THEN overlay \ (Processes \X {2})
                              ELSE archives[r.arg] \cup (overlay \cap (Processes \X {2}))
        /\ archives'[r.arg] \in SUBSET Changes
    BY <1>a, <1>b, <2>1, <2>7
  <2>9. archives'[r.arg] # Nothing
    BY <2>8, ControllerConstants
  <2>10. \A kinds : At(kinds)' <=> At(kinds)
    BY <2>3 DEF At
  <2>11. ~At({"upload", "publish"}) /\ ~At({"upload"}) /\ ~At({"publish"})
    BY <2>2 DEF At
  <2>12. Made'
    BY <2>1, <2>4, <2>5, <2>9, <2>10, <2>11 DEF Made
  <2>13. Thawed'
    BY <2>1, <2>2, <2>3, <2>4, <2>5, <2>10, <2>11 DEF Thawed, Tame, At, Capturing
  <2>14. Safe'
    <3> SUFFICES ASSUME Firm  PROVE Reached' /\ Carried'
      BY <2>3 DEF Safe, Firm
    <3>1. Reached /\ Carried
      BY DEF Safe
    <3>2. \A x \in wire' : x.kind # "commit"
      BY <2>1, <2>2, <2>4, <3>1 DEF Carried, At
    <3>3. Known \subseteq archives'[r.arg]
      <4>1. Known \subseteq overlay
        BY <2>2, <3>1 DEF Reached, At, Launching
      <4>2. Known \cap (Processes \X {2}) = {}
        BY FilesAreNotProcesses DEF Known, Stages
      <4>3. stage = "ok" => Known \subseteq archives[r.arg]
        BY <2>1, <3>1 DEF Carried
      <4> QED  BY <2>1, <2>8, <4>1, <4>2, <4>3
    <3>4. Reached'
      BY <2>1, <2>2, <2>3, <2>10, <2>11, <3>1 DEF Reached, Known, At
    <3> QED  BY <2>1, <2>3, <2>4, <2>5, <3>2, <3>3, <3>4 DEF Carried, Known
  <2> QED  BY <2>12, <2>13, <2>14
<1>4. CASE CommitCheckpoint(r)
  <2>1. /\ r.kind = "commit" /\ r.stage = "sent" /\ Handle(r, "ok")
        /\ archives' = [archives EXCEPT ![r.arg] = Nothing] /\ dirty' = FALSE
        /\ UNCHANGED <<frozen, overlay>>
    BY <1>4 DEF CommitCheckpoint, Arrived
  <2>2. UNCHANGED <<call, published, acked, stranded, life>>
    BY <2>1 DEF Handle, session
  <2>3. PICK a : /\ a.kind = "commit" /\ a.arg = r.arg /\ a.stage = "ok"
                 /\ \A x \in wire' : \/ x \in wire /\ x # r
                                     \/ x = a /\ call # Idle /\ call.kind = "commit"
    BY <2>1, HandlerWire DEF Outcomes
  <2>4. \A kinds : At(kinds)' <=> At(kinds)
    BY <2>2 DEF At
  <2>5. /\ \A x \in wire' : x.kind = "prepare" => x \in wire /\ archives'[x.arg] = archives[x.arg]
        /\ At({"upload", "publish"}) => archives'[call.arg] = archives[call.arg]
    <3>1. \A x \in wire : x.kind = "prepare" => x.arg # r.arg /\ x.arg \in 1..MaxCaptures
      <4>1. \A x \in wire : x.kind = "prepare" => x.arg \in 1..captures /\ captures \in 0..MaxCaptures
        BY DEF Protocol, TypeOK, Shapes, Fits, Capturing
      <4> QED  BY <2>1, <4>1, ControllerConstants DEF Protocol, Prepares
    <3>2. At({"upload", "publish"}) => r.arg # call.arg /\ call.arg \in 1..MaxCaptures
      <4>1. At({"upload", "publish"}) => call.arg \in 1..captures /\ captures \in 0..MaxCaptures
        BY DEF Protocol, TypeOK, Shapes, Fits, Capturing, At
      <4> QED  BY <2>1, <4>1, ControllerConstants DEF Made
    <3> QED  BY <1>b, <2>1, <2>3, <3>1, <3>2
  <2>6. Made'
    <3>1. \A x \in wire' : x.kind = "commit" /\ At({"upload", "publish"}) => x.arg # call.arg
      BY <2>3 DEF Made, At
    <3>2. At({"upload"}) => archives'[call.arg] # Nothing
      BY <2>5 DEF Made, At
    <3> QED  BY <2>2, <2>4, <2>5, <3>1, <3>2 DEF Made
  <2>7. Thawed'
    <3>1. At({"publish"}) => (Pending' <=> Pending)
      BY <2>2, <2>5 DEF Pending, At
    <3>2. \A x \in wire' : x.kind \in {"prepare", "release"} => x \in wire
      BY <2>3
    <3> QED  BY <2>1, <2>2, <2>4, <3>1, <3>2 DEF Thawed, Tame
  <2>8. Safe'
    <3> SUFFICES ASSUME Firm  PROVE Reached' /\ Carried'
      BY <2>2 DEF Safe, Firm
    <3>1. Reached /\ Carried
      BY DEF Safe
    <3>2. At({"commit", "terminate"}) /\ call.kind \in {"commit", "terminate"}
      BY <2>1, <3>1 DEF Carried, At
    <3>3. Known \subseteq published /\ Known \subseteq overlay
      BY <3>1, <3>2 DEF Reached, At, Launching
    <3>4. \A x \in wire' : x.kind \notin {"prepare", "restore", "commit_write", "remove"}
      BY <2>3, <3>2, Awaited DEF Stray, Late
    <3>5. Reached'
      BY <2>1, <2>2, <2>4, <3>2, <3>3 DEF Reached, Known, At
    <3> QED  BY <2>4, <3>2, <3>4, <3>5 DEF Carried
  <2> QED  BY <2>6, <2>7, <2>8
<1> QED  BY <1>1, <1>2, <1>3, <1>4 DEF Checkpoints

LEMMA OthersSafe ==
    ASSUME Before, RunHook \/ Resume \/ \E p \in Processes : Work(p) \/ Poll(p)
    PROVE  Made' /\ Thawed' /\ Safe'
<1> USE DEF Before
<1>1. CASE RunHook
  <2>1. /\ ~activated /\ dirty' = FALSE /\ frozen' = FALSE
        /\ UNCHANGED <<overlay, wire, call, published, acked, stranded, life>>
    BY <1>1 DEF RunHook, session
  <2>2. call # Idle /\ call.kind = "health" /\ \A r \in wire : r.kind = "health"
    BY <2>1 DEF Protocol, Quiet
  <2>3. Made' /\ Thawed'
    BY <2>1, <2>2 DEF Made, Thawed, At
  <2>4. Safe'
    BY <2>1, <2>2 DEF Safe, Firm, Reached, Carried, Known, At, Launching
  <2> QED  BY <2>3, <2>4
<1>2. ASSUME Resume \/ \E p \in Processes : Work(p) \/ Poll(p)
      PROVE  Made' /\ Thawed' /\ Safe'
  <2>1. /\ UNCHANGED <<dirty, archives, wire, call, published, stranded, life>> /\ (frozen' => frozen)
        /\ overlay \subseteq overlay'
        /\ acked' = acked \/ \E q \in Processes : acked' = acked \cup (overlay \cap ({q} \X Stages))
    <3>1. CASE Resume
      BY <3>1 DEF Resume, ReleaseWorkload, session
    <3>2. ASSUME NEW p \in Processes, Work(p)
          PROVE  /\ UNCHANGED <<dirty, archives, wire, call, published, stranded, life, frozen, acked>>
                 /\ overlay \subseteq overlay'
      BY <3>2 DEF Work, session
    <3>3. ASSUME NEW p \in Processes, Poll(p)
          PROVE  /\ UNCHANGED <<dirty, archives, wire, call, published, stranded, life, frozen, overlay>>
                 /\ acked' = acked \cup (overlay \cap ({p} \X Stages))
      BY <3>3 DEF Poll, controller
    <3> QED  BY <1>2, <3>1, <3>2, <3>3
  <2>2. Known' = Known
    BY <2>1, FilesAreNotProcesses DEF Known
  <2>3. \A kinds : At(kinds)' <=> At(kinds)
    BY <2>1 DEF At
  <2>4. Made' /\ Thawed'
    BY <2>1, <2>3 DEF Made, Thawed, Tame, Pending
  <2>5. Safe'
    <3> SUFFICES ASSUME Firm  PROVE Reached' /\ Carried'
      BY <2>1 DEF Safe, Firm
    <3>1. Reached /\ Carried
      BY DEF Safe
    <3>2. Reached'
      BY <2>1, <2>2, <2>3, <3>1 DEF Reached, Pending
    <3>3. Carried'
      BY <2>1, <2>2, <2>3, <3>1 DEF Carried
    <3> QED  BY <3>2, <3>3
  <2> QED  BY <2>4, <2>5
<1> QED  BY <1>1, <1>2

-----------------------------------------------------------------------------
(* The theorems *)

LEMMA SavedInit == Init => Saved
<1> SUFFICES ASSUME Init  PROVE Saved
  OBVIOUS
<1>1. Protocol
  BY ProtocolInit
<1>2. /\ call # Idle /\ call.kind = "health" /\ call.arg = Nothing /\ call.offset = 0 /\ call.try = 1
      /\ wire = {Current("sent")} /\ Current("sent").kind = "health" /\ Current("sent").stage = "sent"
  BY CallsAreNotIdle DEF Init, Idle, Sent, Current
<1>3. \A s \in Outcomes : Current(s).stage = s
  BY DEF Current
<1>4. Wired
  BY <1>2, <1>3 DEF Wired
<1>5. Harmless /\ Frozen /\ Archive /\ Told
  BY <1>2 DEF Init, Harmless, Frozen, Archive, Told
<1>6. Progress /\ Clean /\ Held
  BY <1>2 DEF Init, Progress, Clean, Held, Unused, At, Launching
<1>7. Whole(overlay) /\ Whole(published)
  <2>1. \A p \in Processes : <<p, 2>> # Old
    <3>1. \A p \in Processes : <<p, 2>> \in Processes \X Stages
      BY DEF Stages
    <3> QED  BY <3>1, ControllerConstants
  <2> QED  BY <2>1 DEF Init, Whole
<1>8. Made /\ Thawed
  BY <1>2 DEF Init, Made, Thawed, At
<1>9. Safe
  BY <1>2 DEF Init, Safe, Reached, Carried, Known, At, Launching
<1> QED  BY <1>1, <1>4, <1>5, <1>6, <1>7, <1>8, <1>9 DEF Init, Saved, Kept, CheckpointComplete

LEMMA SavedNext == LateIsRecognised /\ Saved /\ [Next]_vars => Saved'
<1> SUFFICES ASSUME LateIsRecognised, Saved, [Next]_vars  PROVE Saved'
  OBVIOUS
<1> USE DEF Saved
<1>1. Protocol'
  BY ProtocolNext
<1>2. CASE UNCHANGED vars
  <2>1. Wired' /\ CheckpointComplete'
    BY <1>2 DEF vars, Wired, Current, CheckpointComplete
  <2>2. \A kinds : At(kinds)' <=> At(kinds)
    BY <1>2 DEF vars, At
  <2>3. Kept => Kept'
    BY <1>2, <2>2 DEF vars, Kept, Harmless, Frozen, Archive, Progress, Clean, Held, Told, Whole, Unused, Pending
  <2>4. Made' /\ Thawed' /\ Safe'
    BY <1>2, <2>2 DEF vars, Made, Thawed, Tame, Safe, Firm, Reached, Carried, Known, Pending
  <2> QED  BY <1>1, <1>2, <2>1, <2>3, <2>4 DEF vars
<1>3. CASE Next
  <2>1. life = "up" /\ stranded \subseteq stranded' /\ (Terminate \/ life' \in {"up", "failed", "deleted"})
    BY <1>3, NextUp
  <2>2. Wired'
    <3>1. CASE Client
      BY <3>1, LaunchesGo, WorksGo, CapturesGo, ClientWired DEF Client
    <3>2. CASE \E r \in wire : Handler(r)
      BY <3>2, HandlerWired
    <3>3. CASE RunHook \/ Resume \/ \E p \in Processes : Work(p) \/ Poll(p)
      <4>1. UNCHANGED <<wire, call>>
        BY <3>3 DEF RunHook, Resume, Work, Poll, session
      <4> QED  BY <4>1 DEF Wired, Current
    <3> QED  BY <1>3, <3>1, <3>2, <3>3, NextCases
  <2>3. ASSUME stranded' = {}, life' = "up"  PROVE Kept'
    <3>1. Kept
      BY <2>1, <2>3
    <3>2. CASE Client
      BY <2>3, <3>1, <3>2, LaunchesKept, WorksKept, CapturesKept DEF Client
    <3>3. CASE \E r \in wire : Handler(r)
      BY <3>1, <3>3, FilesKept, WorkloadKept, CheckpointsKept DEF Handler
    <3>4. CASE RunHook \/ Resume \/ \E p \in Processes : Work(p) \/ Poll(p)
      BY <3>1, <3>4, OthersKept
    <3> QED  BY <1>3, <3>2, <3>3, <3>4, NextCases
  <2>4. Made' /\ Thawed' /\ Safe'
    <3>1. Before
      BY <2>1 DEF Before
    <3>2. CASE Client
      BY <3>1, <3>2, ClientKeepsSafe
    <3>3. CASE \E r \in wire : Handler(r)
      BY <3>1, <3>3, FilesSafe, WorkloadSafe, CheckpointsSafe DEF Handler
    <3>4. CASE RunHook \/ Resume \/ \E p \in Processes : Work(p) \/ Poll(p)
      BY <3>1, <3>4, OthersSafe
    <3> QED  BY <1>3, <3>2, <3>3, <3>4, NextCases
  <2>5. CheckpointComplete'
    <3> SUFFICES ASSUME life' = "captured"
                 PROVE  /\ "commit" \notin stranded' => acked' \cap FileChanges \subseteq published'
                        /\ stranded' = {} => acked' \subseteq published' /\ Whole(published')
      BY DEF CheckpointComplete, Whole
    <3>1. Terminate
      BY <2>1
    <3>2. call # Idle /\ call.kind = "terminate" /\ UNCHANGED <<acked, published, stranded>>
      BY <3>1 DEF Terminate
    <3>3. "commit" \notin stranded => Known \subseteq published
      BY <2>1, <3>2 DEF Safe, Firm, Reached, At
    <3>4. ASSUME stranded = {}  PROVE acked \subseteq published /\ Whole(published)
      <4>1. Kept
        BY <2>1, <3>4
      <4>2. IF frozen THEN published = overlay ELSE ~dirty
        BY <3>2, <4>1 DEF Kept, Progress, At
      <4>3. acked \subseteq overlay
        BY <3>2, <4>1 DEF Kept, Held, At, Launching
      <4> QED  BY <4>1, <4>2, <4>3 DEF Kept, Clean
    <3> QED  BY <3>2, <3>3, <3>4 DEF Known, Whole
  <2> QED  BY <1>1, <2>1, <2>2, <2>3, <2>4, <2>5
<1> QED  BY <1>2, <1>3

\* The checkpoint of a captured session holds every change its caller was told of and
\* is the overlay of one instant, for any number of processes, files, retries and
\* failures (dirty, freeze_workload and the order of the steps of capture()); it holds
\* at least the files when the client gave up on a request about the workload, unless on a
\* commit, or when a capture failed between its prepare and its upload (stranded).  The
\* proviso is that no request lingers but those a later copy of which is recognised.
THEOREM CheckpointsAreComplete ==
    ASSUME LateIsRecognised
    PROVE  Spec => []CheckpointComplete
<1>1. Saved => CheckpointComplete
  BY DEF Saved
<1>2. Saved /\ [Next]_vars => Saved'
  BY SavedNext
<1> QED  BY <1>1, <1>2, SavedInit, PTL DEF Spec

\* An operation that is over leaves no workload frozen, unless the client gave up on the
\* request that froze or should have released it or a capture failed between its prepare
\* and its upload, when the code releases nothing; and however often the start of a
\* process is requested it is started once (release_workload, start_process).  Under the
\* same proviso.
THEOREM OperationsLeaveNothing ==
    ASSUME LateIsRecognised
    PROVE  Spec => []NothingLeftBehind
<1>1. Saved => NothingLeftBehind
  <2>1. Saved /\ call = Idle => ~(Tame /\ frozen)
    BY DEF Saved, Thawed, At
  <2>2. Saved => \A p \in Processes : starts[p] <= 1
    BY DEF Saved, Protocol, Starts
  <2> QED  BY <2>1, <2>2 DEF NothingLeftBehind, Tame
<1>2. Saved /\ [Next]_vars => Saved'
  BY SavedNext
<1> QED  BY <1>1, <1>2, SavedInit, PTL DEF Spec
=============================================================================
