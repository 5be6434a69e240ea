---------------------------- MODULE SandboxCell ----------------------------
(***************************************************************************)
(* The just-bash cells of packages/eve-celld-sandbox: one durable object   *)
(* per session, build or template, with its workspace, its journal of      *)
(* commands and its queue of mutations, and the clients that open, use,    *)
(* stop and delete them (worker/just-bash.ts, just-bash.ts, client.ts).    *)
(*                                                                         *)
(* mem is what a cell's storage reads as, disk what has been flushed; a    *)
(* crash goes back to disk.  A storage.transaction() is one step, since    *)
(* the platform delivers no event to a cell inside it.  Answers leave a    *)
(* cell only when its writes are on disk (the output gate); an operation   *)
(* of the queue keeps its place until then.  The journal is a table: the   *)
(* state of each command that has a row, and when the row was inserted.    *)
(*                                                                         *)
(* A workspace is the set of the calls whose changes it holds: writes and  *)
(* removals, and commands, which are known by the call that executes them. *)
(* Reads (peek, status, read) change nothing and are left out, as are byte *)
(* limits, paths and input validation: they only refuse a call.            *)
(***************************************************************************)
EXTENDS Naturals, Sequences, FiniteSets, SequencesExt

CONSTANTS
    Cells,         \* durable objects
    KindOf,        \* "session", "build" or "template"
    TemplateOf,    \* the template a session starts from, or Nothing
    Nothing,
    Calls,         \* requests that clients make
    Workloads,     \* what each call asks of which cell: [op, cell, target]
    Pending,       \* LIMITS.pending
    JournalCount,  \* LIMITS.journalCount
    MaxAttempts,   \* attempts of an execute or a cancel (3 in the code)
    MaxCrashes,    \* bound: crashes of cells
    MaxDrops       \* bound: connections lost

Ops == {"open", "publish", "write", "execute", "cancel", "stop", "delete"}

\* A publish names a build, a cancel a command of its own session.
WellFormed(w) ==
    \A k \in Calls : w[k] # Nothing =>
        /\ w[k].op \in Ops /\ w[k].cell \in Cells
        /\ CASE w[k].op = "publish" -> w[k].target \in Cells
             [] w[k].op = "cancel" -> /\ w[k].target \in Calls /\ w[w[k].target] # Nothing
                                      /\ w[w[k].target].op = "execute"
                                      /\ w[w[k].target].cell = w[k].cell
             [] OTHER -> w[k].target = Nothing

ASSUME CellConstants ==
    /\ KindOf \in [Cells -> {"session", "build", "template"}]
    /\ TemplateOf \in [Cells -> {t \in Cells : KindOf[t] = "template"} \cup {Nothing}]
    /\ Nothing \notin Cells \cup Calls /\ Cells \cap Calls = {}
    /\ \A w \in Workloads : WellFormed(w)
    /\ Pending \in Nat \ {0} /\ JournalCount \in Nat \ {0} /\ MaxAttempts \in Nat \ {0}
    /\ MaxCrashes \in Nat /\ MaxDrops \in Nat

VARIABLES
    load,      \* the workload
    mem,       \* storage of each cell, as its code reads it
    disk,      \* the part of it that has been flushed
    queue,     \* the tail of promises: its head is being worked on
    work,      \* where the work on the head stands
    held,      \* what the work on the head has so far: files, result
    stopping,  \* the in-memory flag of each cell
    aborted,   \* active commands whose AbortController has fired
    calls,     \* the requests, as their clients see them
    lastGen,   \* random generations given out by each cell so far
    crashes, drops,
    ran,       \* history: commits of each command
    forgotten  \* history: commands whose finished journal row was pruned

vars == <<load, mem, disk, queue, work, held, stopping, aborted, calls, lastGen,
          crashes, drops, ran, forgotten>>

Results == {"completed", "cancelled", "timeout", "failed", "interrupted"}
Answers == {"none", "ok", "reused", "error", "lost"} \cup Results
Empty == [ok |-> FALSE, fs |-> {}, result |-> "none"]
Storages ==
    [gen : Nat, deleted : BOOLEAN, stopped : BOOLEAN, fs : SUBSET Calls,
     journal : [Calls -> {"none", "queued", "running"} \cup Results],
     created : [Calls -> Nat], inserts : Nat]
Fresh == [gen |-> 0, deleted |-> FALSE, stopped |-> FALSE, fs |-> {},
          journal |-> [k \in Calls |-> "none"], created |-> [k \in Calls |-> 0], inserts |-> 0]

\* A fetch names the cell that waits for it; Nothing when that cell has crashed.
Entries == ({"call", "command"} \X Calls) \cup ({"fetch"} \X (Cells \cup {Nothing}))

\* idle: not made; sent: on its way; queued: its operation is in the queue;
\* joined: waiting for a command; gated: answered, the answer held back.
Requests ==
    [st : {"idle", "sent", "queued", "joined", "gated", "done"},
     via : Calls \cup {Nothing}, attempt : 0..MaxAttempts, gen : Nat,
     answer : Answers,
     before : SUBSET Calls]
Unmade == [st |-> "idle", via |-> Nothing, attempt |-> 0, gen |-> 0,
           answer |-> "none", before |-> {}]

TypeOK ==
    /\ load \in Workloads
    /\ mem \in [Cells -> Storages] /\ disk \in [Cells -> Storages]
    /\ queue \in [Cells -> Seq(Entries)]
    /\ work \in [Cells -> {"idle", "running", "fetching", "fetched", "settling"}]
    /\ held \in [Cells -> [ok : BOOLEAN, fs : SUBSET Calls, result : Answers]]
    /\ stopping \in [Cells -> BOOLEAN]
    /\ aborted \in [Cells -> SUBSET Calls]
    /\ calls \in [Calls -> Requests]
    /\ lastGen \in [Cells -> Nat] /\ ran \in [Calls -> Nat] /\ forgotten \subseteq Calls
    /\ crashes \in 0..MaxCrashes /\ drops \in 0..MaxDrops

Init ==
    /\ load \in Workloads
    /\ mem = [c \in Cells |-> Fresh] /\ disk = mem
    /\ queue = [c \in Cells |-> <<>>]
    /\ work = [c \in Cells |-> "idle"]
    /\ held = [c \in Cells |-> Empty]
    /\ stopping = [c \in Cells |-> FALSE]
    /\ aborted = [c \in Cells |-> {}]
    /\ calls = [k \in Calls |-> Unmade]
    /\ lastGen = [c \in Cells |-> 0] /\ crashes = 0 /\ drops = 0
    /\ ran = [k \in Calls |-> 0] /\ forgotten = {}

bounds == <<crashes, drops>>
history == <<ran, forgotten>>

-----------------------------------------------------------------------------
(* Clients *)

Op(k) == load[k].op
Cell(k) == load[k].cell

\* The handles of a cell: its opens that were answered, each with the
\* generation it was given.  A handle that stopped or deleted is closed.
Handles(c) == {h \in Calls : load[h] # Nothing /\ Op(h) = "open" /\ Cell(h) = c
                             /\ calls[h].st = "done" /\ calls[h].answer = "ok"}
Closed(h) == \E k \in Calls : calls[k].via = h /\ Op(k) \in {"stop", "delete"}

\* prewarm() works on its build in order and publishes only what has succeeded;
\* it deletes the build whatever happened.
PrewarmOrder(k) ==
    LET mine == {j \in Calls \ {k} : load[j] # Nothing /\ Op(j) \in {"write", "execute"}
                                     /\ Cell(j) = Cell(k)}
        publishes == {j \in Calls : load[j] # Nothing /\ Op(j) = "publish"
                                    /\ load[j].target = Cell(k)}
        Ended(j) == calls[j].st = "done"
    IN  CASE Op(k) = "publish" ->
               \A j \in Calls : load[j] # Nothing /\ Op(j) = "write" /\ Cell(j) = load[k].target
                                => Ended(j) /\ calls[j].answer = "ok"
          [] Op(k) = "delete" /\ KindOf[Cell(k)] = "build" ->
               \/ \A j \in publishes : Ended(j)
               \/ \E j \in mine : Ended(j) /\ calls[j].answer # "ok"
          [] OTHER -> TRUE

\* create(): a new session, or one that metadata of an earlier handle names.
Opens(k, h) == Op(k) = "open" /\ (h = Nothing \/ h \in Handles(Cell(k)))

\* publish names the build and the generation its handle was given.
Publishes(k, h) == Op(k) = "publish" /\ h \in Handles(load[k].target)

\* spawn(): a command, and a cancel of one that was sent, though perhaps not received.
Spawns(k, h) ==
    /\ Op(k) \in {"execute", "cancel"}
    /\ Op(k) = "cancel" => calls[load[k].target].via = h

\* The other operations of a session.
Uses(k) == Op(k) \in {"write", "stop", "delete"}

\* A client makes call k, through handle h unless it opens a new one.
Send(k, h) ==
    /\ calls[k].st = "idle" /\ load[k] # Nothing /\ PrewarmOrder(k)
    /\ \/ Opens(k, h) \/ Publishes(k, h)
       \/ (Spawns(k, h) \/ Uses(k)) /\ h \in Handles(Cell(k)) /\ ~Closed(h)
    /\ calls' = [calls EXCEPT ![k].st = "sent", ![k].via = h, ![k].attempt = 1,
                              ![k].gen = IF h = Nothing THEN 0 ELSE calls[h].gen]
    /\ UNCHANGED <<load, mem, disk, queue, work, held, stopping, aborted, lastGen, bounds, history>>

\* What request() makes of a transport error: an execute or a cancel is sent
\* again, anything else fails without an answer.
FailedMutant(r, op) ==
    IF op \in {"execute", "cancel"}
    THEN [r EXCEPT !.st = "sent", !.attempt = r.attempt + 1, !.answer = "none"]
    ELSE [r EXCEPT !.st = "done", !.answer = "lost"]

Failed(r, op) ==
    IF op \in {"execute", "cancel"} /\ r.attempt < MaxAttempts
    THEN [r EXCEPT !.st = "sent", !.attempt = r.attempt + 1, !.answer = "none"]
    ELSE [r EXCEPT !.st = "done", !.answer = "lost"]

\* The connection of a request is lost; the cell goes on.
Drop(k) ==
    /\ calls[k].st \in {"queued", "joined", "gated"} /\ drops < MaxDrops
    /\ calls' = [calls EXCEPT ![k] = Failed(calls[k], Op(k))]
    /\ drops' = drops + 1
    /\ UNCHANGED <<load, mem, disk, queue, work, held, stopping, aborted, lastGen, crashes, history>>

-----------------------------------------------------------------------------
(* Storage and the journal *)

Flushed(c) == disk[c] = mem[c]

\* The platform writes back what the cell has stored.
Flush(c) ==
    /\ ~Flushed(c)
    /\ disk' = [disk EXCEPT ![c] = mem[c]]
    /\ UNCHANGED <<load, mem, queue, work, held, stopping, aborted, calls, lastGen, bounds, history>>

\* The files of a cell: loaded, replaced by others, removed.
Load(c) == mem[c].fs
SaveFiles(s, fs) == [s EXCEPT !.fs = fs]
Clear(s) == [s EXCEPT !.fs = {}]

\* A copy of the files on which k has worked.
Changed(fs, k) == fs \cup {k}

Journaled(s, id) == s.journal[id] # "none"
StateOf(s, id) == s.journal[id]
Unfinished(s) == {id \in Calls : s.journal[id] \in {"queued", "running"}}
Finished(s) == {id \in Calls : s.journal[id] \in Results}

\* finish() and UPDATE commands SET state: nothing when the row is gone.
SetState(s, id, state) ==
    [s EXCEPT !.journal[id] = IF Journaled(s, id) THEN state ELSE "none"]

\* INSERT INTO commands, after the oldest n finished rows are deleted.
Oldest(s, n) ==
    {id \in Finished(s) : Cardinality({j \in Finished(s) : s.created[j] < s.created[id]}) < n}
Inserted(s, n, id) ==
    [s EXCEPT !.journal = [j \in Calls |-> IF j = id THEN "queued"
                                           ELSE IF j \in Oldest(s, n) THEN "none" ELSE s.journal[j]],
              !.created = [j \in Calls |-> IF j = id THEN s.inserts + 1
                                           ELSE IF j \in Oldest(s, n) THEN 0 ELSE s.created[j]],
              !.inserts = s.inserts + 1]

\* How many finished rows may be deleted: those beyond the journal's size and
\* perhaps more, which are too old.
Prunable(s) ==
    LET finished == Cardinality(Finished(s))
        excess == IF finished >= JournalCount THEN finished - (JournalCount - 1) ELSE 0
    IN  excess..finished

-----------------------------------------------------------------------------
(* Requests arriving at a cell *)

\* check()
Current(c, gen) == mem[c].gen = gen /\ gen # 0 /\ ~mem[c].deleted

\* mutable()
Mutable(c, gen) ==
    Current(c, gen) /\ KindOf[c] # "template" /\ ~stopping[c] /\ ~mem[c].stopped

Full(c) == Len(queue[c]) >= Pending
Active(c) == {m \in Calls : \E i \in 1..Len(queue[c]) : queue[c][i] = <<"command", m>>}

Reply(k, answer) == calls' = [calls EXCEPT ![k].st = "done", ![k].answer = answer]

\* An answer that waits for the output gate.
Hold(k, answer) == calls' = [calls EXCEPT ![k].st = "gated", ![k].answer = answer]

\* An operation that is refused where it stands.
Refuse(k) ==
    /\ Reply(k, "error")
    /\ UNCHANGED <<load, mem, disk, queue, work, held, stopping, aborted, lastGen, bounds, history>>

\* open, publish, write and remove go to the end of the queue.
ReceiveQueued(k) ==
    LET c == Cell(k) IN
    /\ calls[k].st = "sent" /\ Op(k) \in {"open", "publish", "write"}
    /\ \/ Full(c) /\ Refuse(k)
       \/ /\ ~Full(c)
          /\ queue' = [queue EXCEPT ![c] = Append(queue[c], <<"call", k>>)]
          /\ calls' = [calls EXCEPT ![k].st = "queued"]
          /\ UNCHANGED <<load, mem, disk, work, held, stopping, aborted, lastGen, bounds, history>>

\* The command of an execute or a cancel is in the journal already.
JoinMutant(k, m) == FALSE

Join(k, m) == Journaled(mem[Cell(k)], m)

\* execute(): join or replay what the journal knows, else accept the command.
\* A cancel that finds nothing records the command as cancelled.
ReceiveCommand(k) ==
    LET c == Cell(k)
        m == IF Op(k) = "cancel" THEN load[k].target ELSE k
        cancel == Op(k) = "cancel"
    IN
    /\ calls[k].st = "sent" /\ Op(k) \in {"execute", "cancel"}
    /\ \/ /\ \/ ~Current(c, calls[k].gen) \/ KindOf[c] = "template"
             \/ ~Join(k, m) /\ (~Mutable(c, calls[k].gen) \/ Full(c))
          /\ Refuse(k)
       \/ /\ Current(c, calls[k].gen) /\ KindOf[c] # "template" /\ Join(k, m)
          /\ \/ /\ StateOf(mem[c], m) \in Results
                /\ Hold(k, StateOf(mem[c], m)) /\ aborted' = aborted
             \/ /\ StateOf(mem[c], m) \notin Results /\ m \in Active(c)
                /\ calls' = [calls EXCEPT ![k].st = "joined"]
                /\ aborted' = [aborted EXCEPT ![c] = IF cancel THEN aborted[c] \cup {m} ELSE aborted[c]]
             \/ /\ StateOf(mem[c], m) \notin Results /\ m \notin Active(c)
                /\ Reply(k, "error") /\ aborted' = aborted
          /\ UNCHANGED <<load, mem, disk, queue, work, held, stopping, lastGen, bounds, history>>
       \/ /\ ~Join(k, m) /\ Mutable(c, calls[k].gen) /\ ~Full(c)
          /\ \E n \in Prunable(mem[c]) :
               /\ mem' = [mem EXCEPT ![c] =
                            IF cancel THEN SetState(Inserted(mem[c], n, m), m, "cancelled")
                                      ELSE Inserted(mem[c], n, m)]
               /\ forgotten' = forgotten \cup Oldest(mem[c], n)
          /\ IF cancel
             THEN Hold(k, "cancelled") /\ queue' = queue
             ELSE /\ calls' = [calls EXCEPT ![k].st = "joined"]
                  /\ queue' = [queue EXCEPT ![c] = Append(queue[c], <<"command", m>>)]
          /\ UNCHANGED <<load, disk, work, held, stopping, aborted, lastGen, bounds, ran>>

\* stop and delete: new work is refused and all active commands are aborted at
\* once; the rest waits behind every accepted mutation, whatever the limit.
ReceiveStopMutant(k) ==
    LET c == Cell(k) IN
    /\ calls[k].st = "sent" /\ Op(k) \in {"stop", "delete"} /\ Current(c, calls[k].gen)
    /\ stopping' = [stopping EXCEPT ![c] = TRUE]
    /\ mem' = [mem EXCEPT ![c].stopped = TRUE]
    /\ aborted' = [aborted EXCEPT ![c] = @ \cup Active(c)]
    /\ queue' = [queue EXCEPT ![c] = IF @ = <<>> THEN <<<<"call", k>>>>
                                     ELSE <<Head(@), <<"call", k>>>> \o Tail(@)]
    /\ calls' = [calls EXCEPT ![k].st = "queued", ![k].before = Active(c)]
    /\ UNCHANGED <<load, disk, work, held, lastGen, bounds, history>>

ReceiveStop(k) ==
    LET c == Cell(k) IN
    /\ calls[k].st = "sent" /\ Op(k) \in {"stop", "delete"}
    /\ \/ (~Current(c, calls[k].gen) \/ KindOf[c] = "template") /\ Refuse(k)
       \/ /\ Current(c, calls[k].gen) /\ KindOf[c] # "template"
          /\ stopping' = [stopping EXCEPT ![c] = TRUE]
          /\ mem' = [mem EXCEPT ![c].stopped = TRUE]
          /\ aborted' = [aborted EXCEPT ![c] = aborted[c] \cup Active(c)]
          /\ queue' = [queue EXCEPT ![c] = Append(queue[c], <<"call", k>>)]
          /\ calls' = [calls EXCEPT ![k].st = "queued", ![k].before = Active(c)]
          /\ UNCHANGED <<load, disk, work, held, lastGen, bounds, history>>

\* The output gate lets an answer go.
Deliver(k) ==
    /\ calls[k].st = "gated" /\ Flushed(Cell(k))
    /\ calls' = [calls EXCEPT ![k].st = "done"]
    /\ UNCHANGED <<load, mem, disk, queue, work, held, stopping, aborted, lastGen, bounds, history>>

-----------------------------------------------------------------------------
(* The head of a queue *)

Working(c, kind) == queue[c] # <<>> /\ Head(queue[c])[1] = kind
HeadOf(c) == Head(queue[c])[2]
HeadCall(c, op) == Working(c, "call") /\ Op(HeadOf(c)) = op

\* The work on the head is done but for the flush its answer waits for.
Finish(c, result) ==
    /\ work' = [work EXCEPT ![c] = "settling"]
    /\ held' = [held EXCEPT ![c].result = result]

\* The requests the work on the head answers: whoever waits for a command.
WaitingMutant(c) == {k \in {HeadOf(c)} : calls[k].st \in {"queued", "joined"}}

Waiting(c) ==
    IF Working(c, "command")
    THEN {k \in Calls : calls[k].st = "joined" /\ Cell(k) = c /\ HeadOf(c) \in {k, load[k].target}}
    ELSE {k \in {HeadOf(c)} : calls[k].st = "queued"}

Settle(c) ==
    /\ work[c] = "settling" /\ Flushed(c)
    /\ calls' = [k \in Calls |->
                   IF k \in Waiting(c)
                   THEN [calls[k] EXCEPT !.st = "done", !.answer = held[c].result,
                                         !.gen = IF Op(k) = "open" THEN mem[c].gen ELSE calls[k].gen]
                   ELSE calls[k]]
    /\ queue' = [queue EXCEPT ![c] = Tail(queue[c])]
    /\ work' = [work EXCEPT ![c] = "idle"]
    /\ held' = [held EXCEPT ![c] = Empty]
    /\ aborted' = [aborted EXCEPT ![c] = aborted[c] \ {HeadOf(c)}]
    /\ UNCHANGED <<load, mem, disk, stopping, lastGen, bounds, history>>

\* A call from cell c to another, which is a request to that cell's queue.
Fetch(c, from) ==
    IF Full(from)
    THEN Finish(c, "error") /\ queue' = queue
    ELSE /\ queue' = [queue EXCEPT ![from] = Append(queue[from], <<"fetch", c>>)]
         /\ work' = [work EXCEPT ![c] = "fetching"]
         /\ held' = held

\* snapshot: a template that exists, or a build of the generation asked for.
Serve(c) ==
    LET asker == HeadOf(c)
        ok == IF KindOf[c] = "template" THEN mem[c].gen # 0
              ELSE Current(c, calls[HeadOf(asker)].gen)
    IN
    /\ Working(c, "fetch") /\ Flushed(c)
    /\ IF asker = Nothing THEN UNCHANGED <<held, work>>
       ELSE /\ held' = [held EXCEPT ![asker].ok = ok, ![asker].fs = Load(c)]
            /\ work' = [work EXCEPT ![asker] = "fetched"]
    /\ queue' = [queue EXCEPT ![c] = Tail(queue[c])]
    /\ UNCHANGED <<load, mem, disk, stopping, aborted, calls, lastGen, bounds, history>>

NeedsFiles(c) == mem[c].gen = 0 \/ mem[c].deleted

\* The transaction that gives a cell its files and a new generation.
Create(c, fs) ==
    /\ lastGen' = [lastGen EXCEPT ![c] = lastGen[c] + 1]
    /\ mem' = [mem EXCEPT ![c] = [SaveFiles(mem[c], fs) EXCEPT !.gen = lastGen[c] + 1, !.deleted = FALSE,
                                                      !.stopped = FALSE]]

\* open: a cell that has no files, or was deleted, starts a new generation; any
\* other is taken out of its stop.
RunOpen(c) ==
    LET k == HeadOf(c) IN
    /\ HeadCall(c, "open") /\ work[c] = "idle"
    /\ \/ /\ KindOf[c] = "template" \/ (calls[k].gen # 0 /\ ~Current(c, calls[k].gen))
          /\ Finish(c, "error")
          /\ UNCHANGED <<mem, lastGen, stopping, queue>>
       \/ /\ KindOf[c] # "template" /\ (calls[k].gen = 0 \/ Current(c, calls[k].gen))
          /\ NeedsFiles(c) /\ KindOf[c] = "session" /\ TemplateOf[c] # Nothing
          /\ Fetch(c, TemplateOf[c])
          /\ UNCHANGED <<mem, lastGen, stopping>>
       \/ /\ KindOf[c] # "template" /\ (calls[k].gen = 0 \/ Current(c, calls[k].gen))
          /\ NeedsFiles(c) => KindOf[c] = "build" \/ TemplateOf[c] = Nothing
          /\ IF NeedsFiles(c) THEN Create(c, {})
             ELSE mem' = [mem EXCEPT ![c].stopped = FALSE] /\ lastGen' = lastGen
          /\ stopping' = [stopping EXCEPT ![c] = FALSE]
          /\ Finish(c, "ok") /\ queue' = queue
    /\ UNCHANGED <<load, disk, aborted, calls, bounds, history>>

OpenFetched(c) ==
    /\ HeadCall(c, "open") /\ work[c] = "fetched"
    /\ IF held[c].ok
       THEN /\ Create(c, held[c].fs)
            /\ stopping' = [stopping EXCEPT ![c] = FALSE]
            /\ Finish(c, "ok")
       ELSE Finish(c, "error") /\ UNCHANGED <<mem, lastGen, stopping>>
    /\ UNCHANGED <<load, disk, queue, aborted, calls, bounds, history>>

\* publish: the first one copies a build into the template.
RunPublishMutant(c) ==
    /\ HeadCall(c, "publish") /\ work[c] = "idle"
    /\ Fetch(c, load[HeadOf(c)].target)
    /\ UNCHANGED <<load, mem, disk, stopping, aborted, calls, lastGen, bounds, history>>

RunPublish(c) ==
    LET k == HeadOf(c) IN
    /\ HeadCall(c, "publish") /\ work[c] = "idle"
    /\ IF KindOf[c] # "template" \/ KindOf[load[k].target] # "build"
       THEN Finish(c, "error") /\ queue' = queue
       ELSE IF mem[c].gen # 0 THEN Finish(c, "reused") /\ queue' = queue
                              ELSE Fetch(c, load[k].target)
    /\ UNCHANGED <<load, mem, disk, stopping, aborted, calls, lastGen, bounds, history>>

PublishFetched(c) ==
    /\ HeadCall(c, "publish") /\ work[c] = "fetched"
    /\ IF held[c].ok THEN Create(c, held[c].fs) /\ Finish(c, "ok")
                     ELSE Finish(c, "error") /\ UNCHANGED <<mem, lastGen>>
    /\ UNCHANGED <<load, disk, queue, stopping, aborted, calls, bounds, history>>

\* write and remove
RunWrite(c) ==
    LET k == HeadOf(c) IN
    /\ HeadCall(c, "write") /\ work[c] = "idle"
    /\ IF Mutable(c, calls[k].gen)
       THEN mem' = [mem EXCEPT ![c] = SaveFiles(mem[c], Changed(Load(c), k))] /\ Finish(c, "ok")
       ELSE mem' = mem /\ Finish(c, "error")
    /\ UNCHANGED <<load, disk, queue, stopping, aborted, calls, lastGen, bounds, history>>

\* The barrier of a stop or a delete.
RunStop(c) ==
    LET k == HeadOf(c) IN
    /\ HeadCall(c, "stop") \/ HeadCall(c, "delete")
    /\ work[c] = "idle"
    /\ IF Current(c, calls[k].gen)
       THEN /\ mem' = [mem EXCEPT ![c] = IF Op(k) = "delete"
                                         THEN [Clear(mem[c]) EXCEPT !.journal = Fresh.journal,
                                                 !.created = Fresh.created, !.deleted = TRUE]
                                         ELSE mem[c]]
            /\ Finish(c, "ok")
       ELSE mem' = mem /\ Finish(c, "error")
    /\ UNCHANGED <<load, disk, queue, stopping, aborted, calls, lastGen, bounds, history>>

-----------------------------------------------------------------------------
(* Commands *)

\* Once the journal is on disk the command starts on a copy of the files.  The
\* files of a deleted cell cannot be loaded.
StartCommand(c) ==
    LET m == HeadOf(c) IN
    /\ Working(c, "command") /\ work[c] = "idle" /\ Flushed(c)
    /\ CASE m \in aborted[c] ->
              mem' = [mem EXCEPT ![c] = SetState(mem[c], m, "cancelled")] /\ Finish(c, "cancelled")
         [] m \notin aborted[c] /\ mem[c].deleted ->
              mem' = [mem EXCEPT ![c] = SetState(mem[c], m, "failed")] /\ Finish(c, "failed")
         [] OTHER ->
              /\ mem' = [mem EXCEPT ![c] = SetState(mem[c], m, "running")]
              /\ work' = [work EXCEPT ![c] = "running"]
              /\ held' = [held EXCEPT ![c].fs = Load(c)]
    /\ UNCHANGED <<load, disk, queue, stopping, aborted, calls, lastGen, bounds, history>>

\* Files and result are stored together, unless the command was aborted or its
\* time was up before that.
CommitCommandMutant(c) ==
    LET m == HeadOf(c) IN
    /\ Working(c, "command") /\ work[c] = "running"
    /\ mem' = [mem EXCEPT ![c] = IF m \in aborted[c]
                                 THEN SetState(SaveFiles(mem[c], Changed(held[c].fs, m)), m, "cancelled")
                                 ELSE SetState(SaveFiles(mem[c], Changed(held[c].fs, m)), m, "completed")]
    /\ ran' = [ran EXCEPT ![m] = ran[m] + 1]
    /\ Finish(c, IF m \in aborted[c] THEN "cancelled" ELSE "completed")
    /\ UNCHANGED <<load, disk, queue, stopping, aborted, calls, lastGen, bounds, forgotten>>

CommitCommand(c) ==
    LET m == HeadOf(c) IN
    /\ Working(c, "command") /\ work[c] = "running" /\ m \notin aborted[c]
    /\ mem' = [mem EXCEPT ![c] = SetState(SaveFiles(mem[c], Changed(held[c].fs, m)), m, "completed")]
    /\ ran' = [ran EXCEPT ![m] = ran[m] + 1]
    /\ Finish(c, "completed")
    /\ UNCHANGED <<load, disk, queue, stopping, aborted, calls, lastGen, bounds, forgotten>>

\* Anything else discards the copy.
FailCommand(c, result) ==
    LET m == HeadOf(c) IN
    /\ Working(c, "command") /\ work[c] = "running"
    /\ result \in IF m \in aborted[c] THEN {"cancelled", "timeout"} ELSE {"failed", "timeout"}
    /\ mem' = [mem EXCEPT ![c] = SetState(mem[c], m, result)]
    /\ Finish(c, result)
    /\ UNCHANGED <<load, disk, queue, stopping, aborted, calls, lastGen, bounds, history>>

-----------------------------------------------------------------------------
(* Crashes *)

\* The constructor: unfinished commands are recorded as interrupted.
Restarted(s) ==
    [s EXCEPT !.journal = [id \in Calls |-> IF id \in Unfinished(s) THEN "interrupted" ELSE s.journal[id]]]

\* The queue of another cell keeps what a crashed one asked for; nobody waits for it.
Orphaned(q, c) == [i \in DOMAIN q |-> IF q[i] = <<"fetch", c>> THEN <<"fetch", Nothing>> ELSE q[i]]

Crash(c) ==
    LET askers == {a \in Cells : work[a] = "fetching" /\ <<"fetch", a>> \in ToSet(queue[c])}
    IN
    /\ crashes < MaxCrashes /\ mem[c] # Fresh
    /\ crashes' = crashes + 1
    /\ mem' = [mem EXCEPT ![c] = Restarted(disk[c])]
    /\ queue' = [d \in Cells |-> IF d = c THEN <<>>
                                 ELSE Orphaned(queue[d], c)]
    /\ work' = [d \in Cells |-> IF d = c THEN "idle" ELSE IF d \in askers THEN "fetched" ELSE work[d]]
    /\ held' = [d \in Cells |-> IF d = c \/ d \in askers THEN Empty ELSE held[d]]
    /\ stopping' = [stopping EXCEPT ![c] = FALSE]
    /\ aborted' = [aborted EXCEPT ![c] = {}]
    /\ calls' = [k \in Calls |->
                   IF load[k] # Nothing /\ Cell(k) = c /\ calls[k].st \in {"queued", "joined", "gated"}
                   THEN Failed(calls[k], Op(k)) ELSE calls[k]]
    /\ UNCHANGED <<load, disk, lastGen, drops, history>>

-----------------------------------------------------------------------------
CellStep(c) ==
    \/ Flush(c) \/ Settle(c) \/ Serve(c)
    \/ RunOpen(c) \/ OpenFetched(c) \/ RunPublish(c) \/ PublishFetched(c)
    \/ RunWrite(c) \/ RunStop(c)
    \/ StartCommand(c) \/ CommitCommand(c)
    \/ \E result \in {"cancelled", "failed", "timeout"} : FailCommand(c, result)

Receive(k) == ReceiveQueued(k) \/ ReceiveCommand(k) \/ ReceiveStop(k)

Next ==
    \/ \E k \in Calls :
         \/ \E h \in Calls \cup {Nothing} : Send(k, h)
         \/ Receive(k) \/ Deliver(k) \/ Drop(k)
    \/ \E c \in Cells : CellStep(c) \/ Crash(c)

Spec == Init /\ [][Next]_vars

\* Cells make progress and requests arrive; nobody has to make a call.  Calls
\* are finitely many, so no cell can be passed over for ever.
FairSpec ==
    /\ Spec
    /\ WF_vars(\E c \in Cells : CellStep(c))
    /\ WF_vars(\E k \in Calls : Receive(k) \/ Deliver(k))

-----------------------------------------------------------------------------
(* Properties *)

Made(k) == load[k] # Nothing
Executes(k) == Made(k) /\ Op(k) = "execute"

\* The answer to a command is the truth about its changes, and stays it through
\* crashes, retries and cancellation: none of them are in the workspace unless
\* it was answered "completed", and then they are on disk (the commit
\* transaction of execute() and the final sync).  A command whose journal row
\* was pruned is excepted: a late retry runs it again.
AnswersTrue ==
    \A k \in Calls : Executes(k) /\ calls[k].st = "done" /\ k \notin forgotten =>
        /\ calls[k].answer \in {"cancelled", "timeout", "failed", "interrupted"} =>
             k \notin mem[Cell(k)].fs \cup disk[Cell(k)].fs
        /\ calls[k].answer = "completed" /\ Current(Cell(k), calls[k].gen) =>
             k \in disk[Cell(k)].fs

\* A command that was sent again, because its answer was lost or its cell
\* restarted, commits once; so does one that a cancel overtook: it never does
\* when the cancel was answered first.
CommittedOnce ==
    \A k \in Calls : Executes(k) /\ k \notin forgotten =>
        /\ ran[k] <= 1
        /\ \A j \in Calls : Made(j) /\ Op(j) = "cancel" /\ load[j].target = k
             /\ calls[j].answer = "cancelled" /\ calls[j].st = "done" => k \notin disk[Cell(k)].fs

\* When a stop or a delete is answered, no command that was accepted before it
\* is still queued or running: the barrier is behind all of them.
StopBarrier ==
    \A k \in Calls : Made(k) /\ Op(k) \in {"stop", "delete"}
        /\ calls[k].st = "done" /\ calls[k].answer = "ok"
        => calls[k].before \cap Active(Cell(k)) \subseteq forgotten

\* A session that started from a template holds exactly what the template holds
\* for good: a template is never published twice, and a session never starts
\* from a publication that a crash could still undo.
SessionsKeepTemplate ==
    \A s \in Cells : KindOf[s] = "session" /\ TemplateOf[s] # Nothing /\ ~NeedsFiles(s) =>
        LET t == TemplateOf[s] IN
        /\ disk[t].gen # 0
        /\ {k \in mem[s].fs : Cell(k) # s} = disk[t].fs

\* Every request that is made comes to an end: no cell waits for ever on its
\* queue, on another cell or on a command.
EveryCallEnds == <>[](\A k \in Calls : calls[k].st \in {"idle", "done"})

\* A command changes only the generation its handle opened: deleting a session
\* fences its old handles.
Fenced ==
    \A c \in Cells : \A k \in mem[c].fs :
        Executes(k) /\ Cell(k) = c => calls[k].gen = mem[c].gen
=============================================================================
