------------------------ MODULE SandboxCellProofs ------------------------
(***************************************************************************)
(* Proofs about SandboxCell: the safety properties of the cells hold for   *)
(* every number of cells, calls, crashes and lost connections, every queue *)
(* and journal limit.                                                      *)
(***************************************************************************)
EXTENDS SandboxCell, TLAPS

Command(k) == IF Op(k) = "cancel" THEN load[k].target ELSE k

\* Where an entry is in the queue of a cell.
At(c, e) == {i \in 1..Len(queue[c]) : queue[c][i] = e}

-----------------------------------------------------------------------------
(* Layer 1: what is in the queues, and which work belongs to which head. *)

Asked == \A k \in Calls : calls[k].st # "idle" => Made(k)

\* An entry of the queue of cell c.
EntryOK(c, e) ==
    /\ e[1] = "call" =>
         /\ Made(e[2]) /\ Cell(e[2]) = c
         /\ Op(e[2]) \in {"open", "publish", "write", "stop", "delete"}
         /\ Op(e[2]) \in {"stop", "delete"} => KindOf[c] # "template"
    /\ e[1] = "command" => Executes(e[2]) /\ Cell(e[2]) = c /\ KindOf[c] # "template"

Queued == \A c \in Cells : \A e \in Entries : At(c, e) # {} => EntryOK(c, e)

\* The head asks another cell for its files: an open that needs a template, or
\* the first publication of a build.
Opening(c) == HeadCall(c, "open") /\ KindOf[c] = "session" /\ TemplateOf[c] # Nothing
              /\ NeedsFiles(c)
Publishing(c) == HeadCall(c, "publish") /\ KindOf[c] = "template" /\ mem[c].gen = 0
                 /\ KindOf[load[HeadOf(c)].target] = "build"
Source(c) == IF KindOf[c] = "session" THEN TemplateOf[c] ELSE load[HeadOf(c)].target

StageOK(c) ==
    /\ work[c] # "idle" => queue[c] # <<>> /\ ~Working(c, "fetch")
    /\ work[c] = "running" => Working(c, "command")
    /\ work[c] \in {"fetching", "fetched"} => Opening(c) \/ Publishing(c)

Stages == \A c \in Cells : StageOK(c)

\* A cell waits for at most one other.
FetchOK(a, c) ==
    /\ At(c, <<"fetch", a>>) # {} => work[a] = "fetching" /\ c = Source(a)
    /\ \A i, j \in At(c, <<"fetch", a>>) : i = j

Fetches == \A a, c \in Cells : FetchOK(a, c)

-----------------------------------------------------------------------------
(* Layer 2: generations, and whose changes a workspace holds. *)

Generations ==
    /\ \A c \in Cells :
         /\ disk[c].gen <= mem[c].gen /\ mem[c].gen <= lastGen[c]
         /\ disk[c].gen = mem[c].gen /\ disk[c].deleted => mem[c].deleted
    /\ \A k \in Calls : Made(k) /\ Op(k) # "publish" => calls[k].gen <= disk[Cell(k)].gen

\* A command and its cancel go through one handle and so have its generation.
Vias ==
    \A k \in Calls :
        /\ calls[k].st = "idle" => calls[k] = Unmade
        /\ Made(k) /\ Op(k) \in {"execute", "cancel"} /\ calls[k].st # "idle" =>
             /\ calls[k].via \in Calls /\ calls[calls[k].via].st = "done"
             /\ calls[k].gen = calls[calls[k].via].gen
             /\ calls[Command(k)].st # "idle" /\ calls[Command(k)].via = calls[k].via

\* The changes of a workspace are the cell's own or come from builds.
Owned(c, fs) ==
    \A k \in fs : Made(k) /\ \/ Cell(k) = c /\ KindOf[c] # "template"
                             \/ KindOf[Cell(k)] = "build" /\ KindOf[c] # "build"

Files ==
    \A c \in Cells :
        /\ Owned(c, mem[c].fs) /\ Owned(c, disk[c].fs)
        /\ work[c] = "fetched" => \A k \in held[c].fs : Made(k) /\ KindOf[Cell(k)] = "build"
        /\ work[c] = "running" => held[c].fs = mem[c].fs

\* A template that is on disk stays what it is.
Published ==
    \A t \in Cells : KindOf[t] = "template" /\ disk[t].gen # 0 =>
        mem[t].gen # 0 /\ mem[t].fs = disk[t].fs

\* What storage x of session c holds besides its own changes.
Foreign(c, x) == {k \in x.fs : Cell(k) # c}

Started ==
    \A c \in Cells : KindOf[c] = "session" /\ TemplateOf[c] # Nothing =>
        /\ work[c] = "fetched" /\ held[c].ok =>
             disk[TemplateOf[c]].gen # 0 /\ held[c].fs = disk[TemplateOf[c]].fs
        /\ \A x \in {mem[c], disk[c]} : x.gen # 0 /\ ~x.deleted =>
             disk[TemplateOf[c]].gen # 0 /\ Foreign(c, x) = disk[TemplateOf[c]].fs

-----------------------------------------------------------------------------
(* Layer 3: what becomes of a command. *)

\* The generation of command m is over in storage s.
Gone(s, m) == s.gen # calls[m].gen \/ s.deleted

\* Storage s keeps command m from being accepted again.
Remembers(s, m) == Journaled(s, m) \/ Gone(s, m)

Journals ==
    \A c \in Cells : \A s \in {mem[c], disk[c]} : \A m \in Calls : Journaled(s, m) =>
        Executes(m) /\ Cell(m) = c /\ s.gen # 0 /\ ~Gone(s, m)

Places(m) == At(Cell(m), <<"command", m>>)

\* No work on m is to be done: at most its answer is still to be sent.
AtRest(m) == \A i \in Places(m) : i = 1 /\ work[Cell(m)] = "settling"

Agrees(s, m) == Journaled(s, m) => (s.journal[m] = "completed" <=> m \in s.fs)

CommandOK(m) ==
    LET c == Cell(m) IN
    /\ calls[m].st = "idle" => Places(m) = {} /\ ran[m] = 0
    /\ \A i, j \in Places(m) : i = j
    /\ Places(m) # {} => Remembers(mem[c], m)
    /\ ~AtRest(m) => ran[m] = 0 /\ mem[c].journal[m] \notin Results
    /\ 1 \in Places(m) /\ work[c] = "running" => Remembers(disk[c], m)
    /\ 1 \in Places(m) /\ work[c] = "settling" =>
         /\ held[c].result \in Results
         /\ held[c].result = "completed" <=> m \in mem[c].fs
    /\ ran[m] # 0 => ran[m] = 1 /\ Remembers(mem[c], m) /\ Remembers(disk[c], m)
    /\ ran[m] = 0 => m \notin mem[c].fs \cup disk[c].fs
    /\ Agrees(mem[c], m) /\ Agrees(disk[c], m)

Executions == \A m \in Calls \ forgotten : Executes(m) => CommandOK(m)

\* The changes of m are in storage s, or went with its generation.
Present(s, m) == m \in s.fs \/ Gone(s, m)

\* They are not, and never will be.
Absent(s, m) == m \notin s.fs /\ Remembers(s, m)

AnswerOK(k) ==
    LET c == Cell(k) m == Command(k) r == calls[k] IN
    /\ r.answer \in Results \ {"completed"} =>
         AtRest(m) /\ Absent(mem[c], m) /\ (r.st = "done" => Absent(disk[c], m))
    /\ r.answer = "completed" => Present(mem[c], m) /\ (r.st = "done" => Present(disk[c], m))

Answered ==
    \A k \in Calls : Made(k) /\ Op(k) \in {"execute", "cancel"} /\ Command(k) \notin forgotten
                     /\ calls[k].st \in {"gated", "done"} => AnswerOK(k)

-----------------------------------------------------------------------------
(* Layer 4: the barrier of a stop or a delete. *)

BarrierOK(k, m) ==
    LET c == Cell(k) IN
    /\ Executes(m) /\ Cell(m) = c /\ calls[m].st # "idle" /\ Remembers(mem[c], m)
    /\ calls[k].st = "queued" => \A i \in At(c, <<"call", k>>) : \A j \in Places(m) : j < i
    /\ calls[k].st = "done" => Remembers(disk[c], m) /\ Places(m) = {}

\* A call is in the queue of its cell only after it was received; commands and
\* their cancels alone are answered from the journal.
Placed ==
    \A k \in Calls : Made(k) =>
        /\ calls[k].st \in {"idle", "sent"} => At(Cell(k), <<"call", k>>) = {}
        /\ calls[k].st = "gated" => Op(k) \in {"execute", "cancel"}

Barriers ==
    \A k \in Calls : Made(k) /\ Op(k) \in {"stop", "delete"}
        /\ (calls[k].st = "queued" \/ (calls[k].st = "done" /\ calls[k].answer = "ok"))
        => \A m \in calls[k].before \ forgotten : BarrierOK(k, m)
-----------------------------------------------------------------------------
(* Workloads, queues and storage *)

\* What a call that is made asks for.
LEMMA Asks ==
    ASSUME load \in Workloads, NEW k \in Calls, Made(k)
    PROVE  /\ Op(k) \in Ops /\ Cell(k) \in Cells
           /\ Op(k) = "publish" => load[k].target \in Cells
           /\ Op(k) = "cancel" => /\ load[k].target \in Calls /\ Executes(load[k].target)
                                  /\ Cell(load[k].target) = Cell(k)
           /\ Op(k) \notin {"publish", "cancel"} => load[k].target = Nothing
  <1>1. WellFormed(load)
    BY CellConstants
  <1>2. load[k].op \in Ops /\ load[k].cell \in Cells
    BY <1>1 DEF WellFormed, Made
  <1>3. CASE load[k].op = "publish"
    BY <1>1, <1>2, <1>3 DEF WellFormed, Made, Op, Cell
  <1>4. CASE load[k].op = "cancel"
    BY <1>1, <1>2, <1>4 DEF WellFormed, Made, Op, Cell, Executes
  <1>5. CASE load[k].op \notin {"publish", "cancel"}
    <2>1. load[k].target = Nothing
      BY <1>1, <1>5 DEF WellFormed, Made
    <2> QED
      BY <2>1, <1>2, <1>5 DEF Op, Cell
  <1> QED
    BY <1>3, <1>4, <1>5

LEMMA Pushed ==
    ASSUME NEW q \in Seq(Entries), NEW e \in Entries
    PROVE  /\ Append(q, e) \in Seq(Entries) /\ Len(Append(q, e)) = Len(q) + 1 /\ Len(q) \in Nat
           /\ Append(q, e)[Len(q) + 1] = e /\ \A i \in 1..Len(q) : Append(q, e)[i] = q[i]
           /\ Append(q, e) # <<>>
           /\ q # <<>> => Head(Append(q, e)) = Head(q)
  <1> DEFINE E == Entries
  <1>1. q \in Seq(E) /\ e \in E
    OBVIOUS
  <1> HIDE DEF E
  <1>2. /\ Append(q, e) \in Seq(E) /\ Len(Append(q, e)) = Len(q) + 1 /\ Len(q) \in Nat
        /\ Append(q, e)[Len(q) + 1] = e /\ \A i \in 1..Len(q) : Append(q, e)[i] = q[i]
    BY <1>1
  <1>3. Append(q, e) # <<>>
    BY <1>1, <1>2
  <1>4. ASSUME q # <<>> PROVE Head(Append(q, e)) = Head(q)
    <2>1. Len(q) > 0
      BY <1>1, <1>4
    <2>2. Append(q, e)[1] = q[1]
      BY <1>2, <2>1
    <2> QED
      BY <1>1, <1>2, <1>3, <1>4, <2>2
  <1> QED
    BY <1>2, <1>3, <1>4 DEF E

LEMMA Popped ==
    ASSUME NEW q \in Seq(Entries), q # <<>>
    PROVE  /\ Tail(q) \in Seq(Entries) /\ Len(Tail(q)) = Len(q) - 1 /\ Len(q) \in Nat \ {0}
           /\ \A i \in 1..(Len(q) - 1) : Tail(q)[i] = q[i + 1]
           /\ Head(q) = q[1] /\ Head(q) \in Entries
  <1> DEFINE E == Entries
  <1>1. q \in Seq(E)
    OBVIOUS
  <1> HIDE DEF E
  <1>2. /\ Tail(q) \in Seq(E) /\ Len(Tail(q)) = Len(q) - 1 /\ Len(q) \in Nat \ {0}
        /\ \A i \in 1..(Len(q) - 1) : Tail(q)[i] = q[i + 1]
        /\ Head(q) = q[1] /\ Head(q) \in E
    BY <1>1
  <1> QED
    BY <1>2 DEF E

LEMMA Orphans ==
    ASSUME NEW q \in Seq(Entries), NEW c \in Cells
    PROVE  /\ Orphaned(q, c) \in Seq(Entries) /\ Len(Orphaned(q, c)) = Len(q) /\ Len(q) \in Nat
           /\ \A i \in 1..Len(q) :
                Orphaned(q, c)[i] = IF q[i] = <<"fetch", c>> THEN <<"fetch", Nothing>> ELSE q[i]
           /\ Orphaned(q, c) = <<>> <=> q = <<>>
  <1> DEFINE E == Entries
  <1>1. q \in Seq(E) /\ <<"fetch", Nothing>> \in E
    BY DEF Entries
  <1> HIDE DEF E
  <1>2. DOMAIN q = 1..Len(q) /\ Len(q) \in Nat /\ \A i \in 1..Len(q) : q[i] \in E
    BY <1>1
  <1>3. Orphaned(q, c) \in [1..Len(q) -> E]
    BY <1>1, <1>2 DEF Orphaned
  <1>4. Orphaned(q, c) \in Seq(E) /\ Len(Orphaned(q, c)) = Len(q)
    BY <1>2, <1>3
  <1>5. Orphaned(q, c) = <<>> <=> q = <<>>
    BY <1>1, <1>4
  <1> QED
    BY <1>2, <1>4, <1>5 DEF Orphaned, E

\* Where entries are after a push, a pop and a crash.
LEMMA AtPushed ==
    ASSUME queue \in [Cells -> Seq(Entries)], NEW c \in Cells, NEW e \in Entries,
           queue' = [queue EXCEPT ![c] = Append(queue[c], e)]
    PROVE  /\ queue' \in [Cells -> Seq(Entries)]
           /\ \A d \in Cells, x \in Entries : ~(d = c /\ x = e) => At(d, x)' = At(d, x)
           /\ At(c, e)' = At(c, e) \cup {Len(queue[c]) + 1} /\ Len(queue[c]) + 1 \in Nat
           /\ \A d \in Cells, x \in Entries : \A i \in At(d, x) : i \in Nat /\ i <= Len(queue[d])
           /\ \A d \in Cells : queue[d] # <<>> => queue'[d] # <<>> /\ Head(queue'[d]) = Head(queue[d])
           /\ \A d \in Cells : d # c => queue'[d] = queue[d]
  <1>1. queue[c] \in Seq(Entries)
    OBVIOUS
  <1>2. /\ Append(queue[c], e) \in Seq(Entries) /\ Len(Append(queue[c], e)) = Len(queue[c]) + 1
        /\ Append(queue[c], e)[Len(queue[c]) + 1] = e /\ Len(queue[c]) \in Nat
        /\ \A i \in 1..Len(queue[c]) : Append(queue[c], e)[i] = queue[c][i]
        /\ Append(queue[c], e) # <<>>
        /\ queue[c] # <<>> => Head(Append(queue[c], e)) = Head(queue[c])
    BY <1>1, Pushed
  <1>3. queue'[c] = Append(queue[c], e) /\ \A d \in Cells : d # c => queue'[d] = queue[d]
    OBVIOUS
  <1>4. queue' \in [Cells -> Seq(Entries)]
    BY <1>2
  <1>5. \A d \in Cells : d # c => \A x : At(d, x)' = At(d, x)
    BY <1>3 DEF At
  <1>6. ASSUME NEW x \in Entries, x # e PROVE At(c, x)' = At(c, x)
    BY <1>2, <1>3, <1>6 DEF At
  <1>7. At(c, e)' = At(c, e) \cup {Len(queue[c]) + 1}
    BY <1>2, <1>3 DEF At
  <1>8. \A d \in Cells, x \in Entries : \A i \in At(d, x) : i \in Nat /\ i <= Len(queue[d])
    BY DEF At
  <1>9. \A d \in Cells : queue[d] # <<>> => queue'[d] # <<>> /\ Head(queue'[d]) = Head(queue[d])
    BY <1>2, <1>3
  <1> QED
    BY <1>2, <1>3, <1>4, <1>5, <1>6, <1>7, <1>8, <1>9

LEMMA AtPopped ==
    ASSUME queue \in [Cells -> Seq(Entries)], NEW c \in Cells, queue[c] # <<>>,
           queue' = [queue EXCEPT ![c] = Tail(queue[c])]
    PROVE  /\ queue' \in [Cells -> Seq(Entries)]
           /\ \A d \in Cells : d # c => queue'[d] = queue[d] /\ \A x \in Entries : At(d, x)' = At(d, x)
           /\ \A x \in Entries : /\ \A i \in At(c, x) : i \in Nat /\ i >= 1
                                 /\ \A i \in At(c, x)' : i \in Nat /\ i >= 1 /\ i + 1 \in At(c, x)
                                 /\ \A i \in At(c, x) : i # 1 => i - 1 \in At(c, x)'
           /\ 1 \in At(c, Head(queue[c])) /\ Head(queue[c]) \in Entries
           /\ \A x \in Entries : 1 \in At(c, x) => x = Head(queue[c])
  <1>1. queue[c] \in Seq(Entries)
    OBVIOUS
  <1>2. /\ Tail(queue[c]) \in Seq(Entries) /\ Len(Tail(queue[c])) = Len(queue[c]) - 1
        /\ Len(queue[c]) \in Nat \ {0}
        /\ \A i \in 1..(Len(queue[c]) - 1) : Tail(queue[c])[i] = queue[c][i + 1]
        /\ Head(queue[c]) = queue[c][1] /\ Head(queue[c]) \in Entries
    BY <1>1, Popped
  <1>3. queue'[c] = Tail(queue[c]) /\ \A d \in Cells : d # c => queue'[d] = queue[d]
    OBVIOUS
  <1>4. queue' \in [Cells -> Seq(Entries)]
    BY <1>2
  <1>5. \A d \in Cells : d # c => \A x : At(d, x)' = At(d, x)
    BY <1>3 DEF At
  <1>6. ASSUME NEW x \in Entries
        PROVE  /\ \A i \in At(c, x) : i \in Nat /\ i >= 1
               /\ \A i \in At(c, x)' : i \in Nat /\ i >= 1 /\ i + 1 \in At(c, x)
               /\ \A i \in At(c, x) : i # 1 => i - 1 \in At(c, x)'
    BY <1>2, <1>3 DEF At
  <1>7. 1 \in At(c, Head(queue[c])) /\ \A x \in Entries : 1 \in At(c, x) => x = Head(queue[c])
    BY <1>2 DEF At
  <1> QED
    BY <1>2, <1>3, <1>4, <1>5, <1>6, <1>7

LEMMA AtHead ==
    ASSUME queue \in [Cells -> Seq(Entries)], NEW c \in Cells, queue[c] # <<>>
    PROVE  /\ 1 \in At(c, Head(queue[c])) /\ Head(queue[c]) \in Entries
           /\ \A x \in Entries : 1 \in At(c, x) => x = Head(queue[c])
  <1>1. /\ Len(queue[c]) \in Nat \ {0}
        /\ Head(queue[c]) = queue[c][1] /\ Head(queue[c]) \in Entries
    BY Popped
  <1> QED
    BY <1>1 DEF At

LEMMA AtCrashed ==
    ASSUME queue \in [Cells -> Seq(Entries)], NEW c \in Cells,
           queue' = [d \in Cells |-> IF d = c THEN <<>> ELSE Orphaned(queue[d], c)]
    PROVE  /\ queue' \in [Cells -> Seq(Entries)]
           /\ queue'[c] = <<>> /\ \A x : At(c, x)' = {}
           /\ \A d \in Cells : d # c =>
                /\ \A x \in Entries : x[1] # "fetch" => At(d, x)' = At(d, x)
                /\ \A a \in Cells : a # c => At(d, <<"fetch", a>>)' = At(d, <<"fetch", a>>)
                /\ At(d, <<"fetch", c>>)' = {}
                /\ queue[d] # <<>> =>
                     /\ queue'[d] # <<>>
                     /\ Head(queue'[d]) = IF Head(queue[d]) = <<"fetch", c>> THEN <<"fetch", Nothing>>
                                          ELSE Head(queue[d])
  <1>1. queue'[c] = <<>> /\ \A x : At(c, x)' = {}
    BY DEF At
  <1>2. ASSUME NEW d \in Cells, d # c
        PROVE  /\ queue'[d] \in Seq(Entries)
               /\ \A x \in Entries : x[1] # "fetch" => At(d, x)' = At(d, x)
               /\ \A a \in Cells : a # c => At(d, <<"fetch", a>>)' = At(d, <<"fetch", a>>)
               /\ At(d, <<"fetch", c>>)' = {}
               /\ queue[d] # <<>> =>
                    /\ queue'[d] # <<>>
                    /\ Head(queue'[d]) = IF Head(queue[d]) = <<"fetch", c>> THEN <<"fetch", Nothing>>
                                         ELSE Head(queue[d])
    <2>1. queue'[d] = Orphaned(queue[d], c) /\ queue[d] \in Seq(Entries)
      BY <1>2
    <2>2. /\ queue'[d] \in Seq(Entries) /\ Len(queue'[d]) = Len(queue[d]) /\ Len(queue[d]) \in Nat
          /\ \A i \in 1..Len(queue[d]) : queue'[d][i] =
               IF queue[d][i] = <<"fetch", c>> THEN <<"fetch", Nothing>> ELSE queue[d][i]
          /\ queue'[d] = <<>> <=> queue[d] = <<>>
      BY <2>1, Orphans
    <2>3. c # Nothing
      BY CellConstants
    <2>4. \A x \in Entries : x[1] # "fetch" => At(d, x)' = At(d, x)
      BY <2>2 DEF At
    <2>5. \A a \in Cells : a # c => At(d, <<"fetch", a>>)' = At(d, <<"fetch", a>>)
      <3>1. \A a \in Cells : a # Nothing
        BY CellConstants
      <3> QED
        BY <2>2, <3>1 DEF At
    <2>6. At(d, <<"fetch", c>>)' = {}
      <3>1. <<"fetch", Nothing>> # <<"fetch", c>>
        BY <2>3
      <3>2. ASSUME NEW i \in 1..Len(queue'[d]), queue'[d][i] = <<"fetch", c>> PROVE FALSE
        BY <2>2, <3>1, <3>2
      <3> QED
        BY <3>2 DEF At
    <2>7. ASSUME queue[d] # <<>>
          PROVE  /\ queue'[d] # <<>>
                 /\ Head(queue'[d]) = IF Head(queue[d]) = <<"fetch", c>> THEN <<"fetch", Nothing>>
                                      ELSE Head(queue[d])
      <3>1. Len(queue[d]) \in Nat \ {0} /\ Head(queue[d]) = queue[d][1]
        BY <2>1, <2>7, Popped
      <3>2. queue'[d] # <<>> /\ Head(queue'[d]) = queue'[d][1]
        BY <2>2, <2>7, Popped
      <3>3. 1 \in 1..Len(queue[d])
        BY <3>1
      <3>4. queue'[d][1] = IF queue[d][1] = <<"fetch", c>> THEN <<"fetch", Nothing>> ELSE queue[d][1]
        BY <2>2, <3>3
      <3> QED
        BY <3>1, <3>2, <3>4
    <2> QED
      BY <2>2, <2>4, <2>5, <2>6, <2>7
  <1>3. queue' \in [Cells -> Seq(Entries)]
    BY <1>2, <1>1
  <1> QED
    BY <1>1, <1>2, <1>3

\* What the operations on storage leave alone and what they change.
States == {"queued", "running"} \cup Results

LEMMA StorageFields ==
    ASSUME NEW s \in Storages
    PROVE  /\ s.gen \in Nat /\ s.deleted \in BOOLEAN /\ s.stopped \in BOOLEAN /\ s.fs \subseteq Calls
           /\ s.journal \in [Calls -> {"none"} \cup States]
           /\ s.created \in [Calls -> Nat] /\ s.inserts \in Nat
  BY DEF Storages, States

LEMMA SetStates ==
    ASSUME NEW s \in Storages, NEW id \in Calls, NEW state \in States
    PROVE  /\ SetState(s, id, state) \in Storages
           /\ SetState(s, id, state).gen = s.gen /\ SetState(s, id, state).deleted = s.deleted
           /\ SetState(s, id, state).stopped = s.stopped /\ SetState(s, id, state).fs = s.fs
           /\ \A j \in Calls : j # id => SetState(s, id, state).journal[j] = s.journal[j]
           /\ SetState(s, id, state).journal[id] = IF Journaled(s, id) THEN state ELSE "none"
           /\ \A j \in Calls : Journaled(SetState(s, id, state), j) <=> Journaled(s, j)
  BY DEF SetState, Storages, States, Journaled, Results

LEMMA SavedFiles ==
    ASSUME NEW s \in Storages, NEW fs \in SUBSET Calls
    PROVE  /\ SaveFiles(s, fs) \in Storages /\ SaveFiles(s, fs).fs = fs
           /\ SaveFiles(s, fs).gen = s.gen /\ SaveFiles(s, fs).deleted = s.deleted
           /\ SaveFiles(s, fs).stopped = s.stopped /\ SaveFiles(s, fs).journal = s.journal
  BY DEF SaveFiles, Storages

LEMMA Insertions ==
    ASSUME NEW s \in Storages, NEW n, NEW id \in Calls
    PROVE  /\ Inserted(s, n, id) \in Storages
           /\ Inserted(s, n, id).gen = s.gen /\ Inserted(s, n, id).deleted = s.deleted
           /\ Inserted(s, n, id).stopped = s.stopped /\ Inserted(s, n, id).fs = s.fs
           /\ Inserted(s, n, id).journal[id] = "queued"
           /\ \A j \in Calls : j # id =>
                Inserted(s, n, id).journal[j] = IF j \in Oldest(s, n) THEN "none" ELSE s.journal[j]
           /\ Oldest(s, n) \subseteq Calls /\ \A j \in Oldest(s, n) : Journaled(s, j)
  <1>1. Oldest(s, n) \subseteq Calls /\ \A j \in Oldest(s, n) : Journaled(s, j)
    BY DEF Oldest, Finished, Journaled, Results
  <1> HIDE DEF Oldest
  <1> DEFINE J == [j \in Calls |-> IF j = id THEN "queued"
                                  ELSE IF j \in Oldest(s, n) THEN "none" ELSE s.journal[j]]
             C == [j \in Calls |-> IF j = id THEN s.inserts + 1
                                  ELSE IF j \in Oldest(s, n) THEN 0 ELSE s.created[j]]
  <1>2. J \in [Calls -> {"none", "queued", "running"} \cup Results]
    BY StorageFields DEF States
  <1>3. C \in [Calls -> Nat] /\ s.inserts + 1 \in Nat
    BY StorageFields
  <1>4. Inserted(s, n, id) = [s EXCEPT !.journal = J, !.created = C, !.inserts = s.inserts + 1]
    BY DEF Inserted
  <1>5. J[id] = "queued" /\ \A j \in Calls : j # id =>
                J[j] = IF j \in Oldest(s, n) THEN "none" ELSE s.journal[j]
    OBVIOUS
  <1> HIDE DEF J, C
  <1>6. /\ Inserted(s, n, id) \in Storages /\ Inserted(s, n, id).journal = J
        /\ Inserted(s, n, id).gen = s.gen /\ Inserted(s, n, id).deleted = s.deleted
        /\ Inserted(s, n, id).stopped = s.stopped /\ Inserted(s, n, id).fs = s.fs
    BY <1>2, <1>3, <1>4 DEF Storages
  <1> QED
    BY <1>1, <1>5, <1>6

LEMMA Restarts ==
    ASSUME NEW s \in Storages
    PROVE  /\ Restarted(s) \in Storages
           /\ Restarted(s).gen = s.gen /\ Restarted(s).deleted = s.deleted
           /\ Restarted(s).stopped = s.stopped /\ Restarted(s).fs = s.fs
           /\ \A j \in Calls : Restarted(s).journal[j] =
                IF s.journal[j] \in {"queued", "running"} THEN "interrupted" ELSE s.journal[j]
           /\ \A j \in Calls : Journaled(Restarted(s), j) <=> Journaled(s, j)
  <1> DEFINE J == [id \in Calls |-> IF id \in Unfinished(s) THEN "interrupted" ELSE s.journal[id]]
  <1>1. J \in [Calls -> {"none", "queued", "running"} \cup Results]
    BY StorageFields DEF States, Results
  <1>2. \A j \in Calls : J[j] = IF s.journal[j] \in {"queued", "running"} THEN "interrupted" ELSE s.journal[j]
    BY DEF Unfinished
  <1>3. Restarted(s) = [s EXCEPT !.journal = J]
    BY DEF Restarted
  <1> HIDE DEF J
  <1>4. /\ Restarted(s) \in Storages /\ Restarted(s).journal = J
        /\ Restarted(s).gen = s.gen /\ Restarted(s).deleted = s.deleted
        /\ Restarted(s).stopped = s.stopped /\ Restarted(s).fs = s.fs
    BY <1>1, <1>3 DEF Storages
  <1> QED
    BY <1>2, <1>4 DEF Journaled

LEMMA FreshStorage ==
    Fresh \in Storages /\ Fresh.gen = 0 /\ ~Fresh.deleted /\ Fresh.fs = {}
      /\ \A j \in Calls : ~Journaled(Fresh, j)
  BY DEF Fresh, Storages, Journaled

\* The storage of a cell that was created or deleted.
Recreated(s, fs, gen) == [SaveFiles(s, fs) EXCEPT !.gen = gen, !.deleted = FALSE, !.stopped = FALSE]
Wiped(s) == [Clear(s) EXCEPT !.journal = Fresh.journal, !.created = Fresh.created, !.deleted = TRUE]

LEMMA Recreations ==
    ASSUME NEW s \in Storages, NEW fs \in SUBSET Calls, NEW gen \in Nat
    PROVE  /\ Recreated(s, fs, gen) \in Storages
           /\ Recreated(s, fs, gen).gen = gen /\ ~Recreated(s, fs, gen).deleted
           /\ Recreated(s, fs, gen).fs = fs /\ Recreated(s, fs, gen).journal = s.journal
  BY DEF Recreated, SaveFiles, Storages

LEMMA Wipes ==
    ASSUME NEW s \in Storages
    PROVE  /\ Wiped(s) \in Storages /\ Wiped(s).gen = s.gen /\ Wiped(s).deleted
           /\ Wiped(s).fs = {} /\ \A j \in Calls : ~Journaled(Wiped(s), j)
  <1> DEFINE J == Fresh.journal
             C == Fresh.created
  <1>1. /\ J \in [Calls -> {"none", "queued", "running"} \cup Results] /\ C \in [Calls -> Nat]
        /\ \A j \in Calls : J[j] = "none"
    BY DEF Fresh
  <1>2. Wiped(s) = [[s EXCEPT !.fs = {}] EXCEPT !.journal = J, !.created = C, !.deleted = TRUE]
    BY DEF Wiped, Clear
  <1> HIDE DEF J, C
  <1>3. /\ Wiped(s) \in Storages /\ Wiped(s).gen = s.gen /\ Wiped(s).deleted
        /\ Wiped(s).fs = {} /\ Wiped(s).journal = J
    BY <1>1, <1>2 DEF Storages
  <1> QED
    BY <1>1, <1>3 DEF Journaled

-----------------------------------------------------------------------------
(* Types *)

Types == TypeOK /\ Asked

LEMMA Heads ==
    ASSUME TypeOK, NEW c \in Cells, queue[c] # <<>>
    PROVE  /\ Head(queue[c]) \in Entries
           /\ Head(queue[c]) = <<Head(queue[c])[1], HeadOf(c)>>
           /\ Head(queue[c])[1] \in {"call", "command", "fetch"}
           /\ Working(c, "call") \/ Working(c, "command") => HeadOf(c) \in Calls
           /\ Working(c, "fetch") => HeadOf(c) \in Cells \cup {Nothing}
  <1>1. Head(queue[c]) \in Entries
    BY Popped DEF TypeOK
  <1> DEFINE e == Head(queue[c])
  <1>2. e \in Entries /\ HeadOf(c) = e[2]
    BY <1>1 DEF HeadOf
  <1>3. \A kind : Working(c, kind) => e[1] = kind
    BY DEF Working
  <1> HIDE DEF e
  <1>4. /\ e = <<e[1], e[2]>> /\ e[1] \in {"call", "command", "fetch"}
        /\ e[1] \in {"call", "command"} => e[2] \in Calls
        /\ e[1] = "fetch" => e[2] \in Cells \cup {Nothing}
    BY <1>2 DEF Entries
  <1> QED
    BY <1>1, <1>2, <1>3, <1>4 DEF e

LEMMA CallFields ==
    ASSUME TypeOK, NEW k \in Calls
    PROVE  /\ calls[k] \in Requests
           /\ calls[k].st \in {"idle", "sent", "queued", "joined", "gated", "done"}
           /\ calls[k].via \in Calls \cup {Nothing} /\ calls[k].attempt \in 0..MaxAttempts
           /\ calls[k].gen \in Nat /\ calls[k].answer \in Answers /\ calls[k].before \subseteq Calls
  BY DEF TypeOK, Requests

LEMMA Failures ==
    ASSUME NEW r \in Requests, NEW op
    PROVE  /\ Failed(r, op) \in Requests
           /\ Failed(r, op).via = r.via /\ Failed(r, op).gen = r.gen /\ Failed(r, op).before = r.before
           /\ \/ Failed(r, op).st = "sent" /\ Failed(r, op).answer = "none"
                   /\ op \in {"execute", "cancel"}
              \/ Failed(r, op).st = "done" /\ Failed(r, op).answer = "lost"
  <1>1. CASE op \in {"execute", "cancel"} /\ r.attempt < MaxAttempts
    <2>1. Failed(r, op) = [r EXCEPT !.st = "sent", !.attempt = r.attempt + 1, !.answer = "none"]
      BY <1>1 DEF Failed
    <2>2. r.attempt + 1 \in 0..MaxAttempts
      BY <1>1, CellConstants DEF Requests
    <2> QED
      BY <1>1, <2>1, <2>2 DEF Requests, Answers
  <1>2. CASE ~(op \in {"execute", "cancel"} /\ r.attempt < MaxAttempts)
    <2>1. Failed(r, op) = [r EXCEPT !.st = "done", !.answer = "lost"]
      BY <1>2 DEF Failed
    <2> QED
      BY <2>1 DEF Requests, Answers
  <1> QED
    BY <1>1, <1>2

LEMMA TypesInit == Init => Types
  <1> SUFFICES ASSUME Init PROVE Types
    OBVIOUS
  <1>1. Unmade \in Requests /\ Unmade.st = "idle"
    BY CellConstants DEF Unmade, Requests, Answers
  <1>2. mem \in [Cells -> Storages] /\ disk \in [Cells -> Storages]
    BY FreshStorage DEF Init
  <1>3. queue \in [Cells -> Seq(Entries)]
    BY DEF Init
  <1>4. held \in [Cells -> [ok : BOOLEAN, fs : SUBSET Calls, result : Answers]]
    BY DEF Init, Empty, Answers
  <1>5. calls \in [Calls -> Requests] /\ Asked
    BY <1>1 DEF Init, Asked
  <1>6. crashes \in 0..MaxCrashes /\ drops \in 0..MaxDrops
    BY CellConstants DEF Init
  <1> QED
    BY <1>2, <1>3, <1>4, <1>5, <1>6 DEF Init, Types, TypeOK

\* Answers are typed, and only a call that was made changes.
LEMMA Replies ==
    ASSUME Types, NEW k \in Calls, calls[k].st # "idle", load' = load,
           NEW st \in {"sent", "queued", "joined", "gated", "done"}, NEW answer \in Answers,
           calls' = [calls EXCEPT ![k].st = st, ![k].answer = answer]
    PROVE  calls' \in [Calls -> Requests] /\ Asked'
  <1> DEFINE r == [calls[k] EXCEPT !.st = st, !.answer = answer]
             q == calls[k]
  <1>0. q \in Requests
    BY DEF Types, TypeOK
  <1>1. r \in Requests
    <2>1. r = [q EXCEPT !.st = st, !.answer = answer]
      OBVIOUS
    <2> HIDE DEF q, r
    <2> QED
      BY <1>0, <2>1 DEF Requests
  <1>2. calls' = [calls EXCEPT ![k] = r]
    BY DEF Types, TypeOK, Requests
  <1> HIDE DEF r
  <1>3. calls' \in [Calls -> Requests]
    BY <1>1, <1>2 DEF Types, TypeOK
  <1>4. \A j \in Calls : calls'[j].st # "idle" => calls[j].st # "idle"
    BY <1>2 DEF Types, TypeOK
  <1> QED
    BY <1>3, <1>4 DEF Types, Asked, Made

LEMMA TypesMoves ==
    ASSUME Types, NEW k \in Calls, calls[k].st # "idle", load' = load,
           NEW st \in {"sent", "queued", "joined", "gated", "done"},
           calls' = [calls EXCEPT ![k].st = st]
    PROVE  calls' \in [Calls -> Requests] /\ Asked'
  <1>1. calls' \in [Calls -> Requests]
    BY DEF Types, TypeOK, Requests
  <1>2. \A j \in Calls : calls'[j].st # "idle" => calls[j].st # "idle"
    BY DEF Types, TypeOK
  <1> QED
    BY <1>1, <1>2 DEF Types, Asked, Made

LEMMA TypesRefuse ==
    ASSUME Types, NEW k \in Calls, calls[k].st = "sent", Refuse(k)
    PROVE  Types'
  <1>1. load' = load /\ calls' = [calls EXCEPT ![k].st = "done", ![k].answer = "error"]
    BY DEF Refuse, Reply
  <1>2. calls' \in [Calls -> Requests] /\ Asked'
    BY <1>1, Replies DEF Answers
  <1> QED
    BY <1>2 DEF Types, TypeOK, Refuse, bounds, history

LEMMA TypesSend ==
    ASSUME Types, NEW k \in Calls, NEW h \in Calls \cup {Nothing}, Send(k, h)
    PROVE  Types'
  <1> DEFINE g == IF h = Nothing THEN 0 ELSE calls[h].gen
             q == calls[k]
             r == [q EXCEPT !.st = "sent", !.via = h, !.attempt = 1, !.gen = g]
  <1>1. g \in Nat /\ q \in Requests
    <2>1. h # Nothing => calls[h].gen \in Nat
      BY CallFields DEF Types
    <2> QED
      BY <2>1, CallFields DEF Types
  <1>2. calls' = [calls EXCEPT ![k] = r] /\ load' = load /\ load[k] # Nothing
    BY DEF Send, Types, TypeOK
  <1>3. r \in Requests
    <2>1. 1 \in 0..MaxAttempts
      BY CellConstants
    <2> HIDE DEF g, q
    <2> QED
      BY <1>1, <2>1 DEF Requests
  <1> HIDE DEF r
  <1>4. calls' \in [Calls -> Requests] /\ Asked'
    BY <1>2, <1>3 DEF Types, TypeOK, Asked, Made
  <1> QED
    BY <1>4 DEF Types, TypeOK, Send, bounds, history

LEMMA TypesDrop ==
    ASSUME Types, NEW k \in Calls, Drop(k)
    PROVE  Types'
  <1>1. calls[k] \in Requests /\ calls[k].st # "idle"
    BY CallFields DEF Types, Drop
  <1>2. Failed(calls[k], Op(k)) \in Requests
    BY <1>1, Failures
  <1>3. calls' = [calls EXCEPT ![k] = Failed(calls[k], Op(k))] /\ load' = load
    BY DEF Drop
  <1>4. calls' \in [Calls -> Requests] /\ Asked'
    BY <1>1, <1>2, <1>3 DEF Types, TypeOK, Asked, Made
  <1>5. drops' \in 0..MaxDrops
    BY CellConstants DEF Drop, Types, TypeOK
  <1> QED
    BY <1>4, <1>5 DEF Types, TypeOK, Drop, history

\* The three ways a command or a cancel is received.
Replays(k) ==
    LET c == Cell(k) m == Command(k) IN
    /\ calls[k].st = "sent" /\ Op(k) \in {"execute", "cancel"}
    /\ Current(c, calls[k].gen) /\ KindOf[c] # "template" /\ Journaled(mem[c], m)
    /\ \/ /\ mem[c].journal[m] \in Results
          /\ calls' = [calls EXCEPT ![k].st = "gated", ![k].answer = mem[c].journal[m]]
       \/ calls' = [calls EXCEPT ![k].st = "joined"]
       \/ calls' = [calls EXCEPT ![k].st = "done", ![k].answer = "error"]
    /\ \E A \in {aborted[c], aborted[c] \cup {m}} :
         aborted' = aborted \/ aborted' = [aborted EXCEPT ![c] = A]
    /\ UNCHANGED <<load, mem, disk, queue, work, held, stopping, lastGen, bounds, history>>

Accepts(k, n) ==
    LET c == Cell(k) m == k IN
    /\ calls[k].st = "sent" /\ Op(k) = "execute"
    /\ ~Journaled(mem[c], m) /\ Current(c, calls[k].gen) /\ KindOf[c] # "template"
    /\ mem' = [mem EXCEPT ![c] = Inserted(mem[c], n, m)]
    /\ forgotten' = forgotten \cup Oldest(mem[c], n)
    /\ calls' = [calls EXCEPT ![k].st = "joined"]
    /\ queue' = [queue EXCEPT ![c] = Append(queue[c], <<"command", m>>)]
    /\ UNCHANGED <<load, disk, work, held, stopping, aborted, lastGen, bounds, ran>>

CancelsEarly(k, n) ==
    LET c == Cell(k) m == load[k].target IN
    /\ calls[k].st = "sent" /\ Op(k) = "cancel"
    /\ ~Journaled(mem[c], m) /\ Current(c, calls[k].gen) /\ KindOf[c] # "template"
    /\ mem' = [mem EXCEPT ![c] = SetState(Inserted(mem[c], n, m), m, "cancelled")]
    /\ forgotten' = forgotten \cup Oldest(mem[c], n)
    /\ calls' = [calls EXCEPT ![k].st = "gated", ![k].answer = "cancelled"]
    /\ UNCHANGED <<load, disk, queue, work, held, stopping, aborted, lastGen, bounds, ran>>

LEMMA CommandCases ==
    ASSUME NEW k \in Calls, ReceiveCommand(k)
    PROVE  \/ calls[k].st = "sent" /\ Refuse(k)
           \/ Replays(k)
           \/ \E n : Accepts(k, n)
           \/ \E n : CancelsEarly(k, n)
  <1> DEFINE c == Cell(k)
             m == IF Op(k) = "cancel" THEN load[k].target ELSE k
             replay == /\ Current(c, calls[k].gen) /\ KindOf[c] # "template" /\ Join(k, m)
                       /\ \/ /\ StateOf(mem[c], m) \in Results
                             /\ Hold(k, StateOf(mem[c], m)) /\ aborted' = aborted
                          \/ /\ StateOf(mem[c], m) \notin Results /\ m \in Active(c)
                             /\ calls' = [calls EXCEPT ![k].st = "joined"]
                             /\ aborted' = [aborted EXCEPT ![c] = IF Op(k) = "cancel"
                                              THEN aborted[c] \cup {m} ELSE aborted[c]]
                          \/ /\ StateOf(mem[c], m) \notin Results /\ m \notin Active(c)
                             /\ Reply(k, "error") /\ aborted' = aborted
                       /\ UNCHANGED <<load, mem, disk, queue, work, held, stopping, lastGen, bounds, history>>
             accept == /\ ~Join(k, m) /\ Mutable(c, calls[k].gen) /\ ~Full(c)
                       /\ \E n \in Prunable(mem[c]) :
                            /\ mem' = [mem EXCEPT ![c] =
                                 IF Op(k) = "cancel" THEN SetState(Inserted(mem[c], n, m), m, "cancelled")
                                      ELSE Inserted(mem[c], n, m)]
                            /\ forgotten' = forgotten \cup Oldest(mem[c], n)
                       /\ IF Op(k) = "cancel"
                          THEN Hold(k, "cancelled") /\ queue' = queue
                          ELSE /\ calls' = [calls EXCEPT ![k].st = "joined"]
                               /\ queue' = [queue EXCEPT ![c] = Append(queue[c], <<"command", m>>)]
                       /\ UNCHANGED <<load, disk, work, held, stopping, aborted, lastGen, bounds, ran>>
  <1>1. calls[k].st = "sent" /\ Op(k) \in {"execute", "cancel"} /\ (Refuse(k) \/ replay \/ accept)
    BY DEF ReceiveCommand
  <1>2. m = Command(k) /\ (Op(k) = "cancel" => m = load[k].target) /\ (Op(k) # "cancel" => m = k)
    BY DEF Command
  <1> HIDE DEF m
  <1>3. ASSUME replay PROVE Replays(k)
    <2>1. Journaled(mem[c], m)
      BY <1>3 DEF Join
    <2>2. /\ \/ /\ mem[c].journal[m] \in Results
                /\ calls' = [calls EXCEPT ![k].st = "gated", ![k].answer = mem[c].journal[m]]
             \/ calls' = [calls EXCEPT ![k].st = "joined"]
             \/ calls' = [calls EXCEPT ![k].st = "done", ![k].answer = "error"]
          /\ \E A \in {aborted[c], aborted[c] \cup {m}} :
               aborted' = aborted \/ aborted' = [aborted EXCEPT ![c] = A]
      <3>1. CASE StateOf(mem[c], m) \in Results
        BY <1>3, <3>1 DEF Hold, StateOf
      <3>2. CASE StateOf(mem[c], m) \notin Results /\ m \in Active(c)
        <4>1. /\ calls' = [calls EXCEPT ![k].st = "joined"]
              /\ aborted' = [aborted EXCEPT ![c] = IF Op(k) = "cancel"
                               THEN aborted[c] \cup {m} ELSE aborted[c]]
          BY <1>3, <3>2
        <4> QED
          BY <4>1
      <3>3. CASE StateOf(mem[c], m) \notin Results /\ m \notin Active(c)
        BY <1>3, <3>3 DEF Reply
      <3> QED
        BY <3>1, <3>2, <3>3
    <2> QED
      BY <1>1, <1>2, <1>3, <2>1, <2>2 DEF Replays
  <1>4. ASSUME accept PROVE (\E n : Accepts(k, n)) \/ (\E n : CancelsEarly(k, n))
    <2>1. ~Journaled(mem[c], m) /\ Current(c, calls[k].gen) /\ KindOf[c] # "template"
      BY <1>4 DEF Join, Mutable
    <2>2. PICK n \in Prunable(mem[c]) :
            /\ mem' = [mem EXCEPT ![c] =
                         IF Op(k) = "cancel" THEN SetState(Inserted(mem[c], n, m), m, "cancelled")
                         ELSE Inserted(mem[c], n, m)]
            /\ forgotten' = forgotten \cup Oldest(mem[c], n)
      BY <1>4
    <2>3. CASE Op(k) = "cancel"
      <3>1. CancelsEarly(k, n)
        BY <1>1, <1>2, <1>4, <2>1, <2>2, <2>3 DEF CancelsEarly, Hold
      <3> QED
        BY <3>1
    <2>4. CASE Op(k) # "cancel"
      <3>1. Accepts(k, n)
        BY <1>1, <1>2, <1>4, <2>1, <2>2, <2>4 DEF Accepts
      <3> QED
        BY <3>1
    <2> QED
      BY <2>3, <2>4
  <1> QED
    BY <1>1, <1>3, <1>4

\* The work on a call at the head of a queue ends, with new storage for its cell.
Done(c, s, r) ==
    /\ Working(c, "call") /\ work[c] \in {"idle", "fetched"} /\ r \in {"ok", "error", "reused"}
    /\ mem' = [mem EXCEPT ![c] = s]
    /\ work' = [work EXCEPT ![c] = "settling"] /\ held' = [held EXCEPT ![c].result = r]
    /\ stopping' \in [Cells -> BOOLEAN]
    /\ UNCHANGED <<load, disk, queue, aborted, calls, bounds, history>>

Keeps(c, s) == s \in {mem[c], [mem[c] EXCEPT !.stopped = FALSE]} /\ lastGen' = lastGen
Creates(c, s) ==
    \E fs \in SUBSET Calls :
        /\ s = Recreated(mem[c], fs, lastGen[c] + 1)
        /\ lastGen' = [lastGen EXCEPT ![c] = lastGen[c] + 1]
        /\ \/ /\ work[c] = "idle" /\ NeedsFiles(c) /\ fs = {} /\ KindOf[c] # "template"
              /\ KindOf[c] = "build" \/ TemplateOf[c] = Nothing
           \/ work[c] = "fetched" /\ held[c].ok /\ fs = held[c].fs
Writes(c, s) ==
    /\ s = SaveFiles(mem[c], mem[c].fs \cup {HeadOf(c)}) /\ lastGen' = lastGen
    /\ Op(HeadOf(c)) = "write" /\ KindOf[c] # "template"
Deletes(c, s) == s = Wiped(mem[c]) /\ Op(HeadOf(c)) = "delete" /\ lastGen' = lastGen
Stores(c, s) == Keeps(c, s) \/ Creates(c, s) \/ Writes(c, s) \/ Deletes(c, s)

\* It asks another cell first.
Asking(c) ==
    /\ Working(c, "call") /\ work[c] = "idle" /\ (Opening(c) \/ Publishing(c))
    /\ queue' = [queue EXCEPT ![Source(c)] = Append(queue[Source(c)], <<"fetch", c>>)]
    /\ work' = [work EXCEPT ![c] = "fetching"]
    /\ UNCHANGED <<load, mem, disk, held, stopping, aborted, calls, lastGen, bounds, history>>

Runs(c) == Asking(c) \/ \E s, r : Done(c, s, r) /\ Stores(c, s)

LEMMA FinishSame ==
    ASSUME TypeOK, NEW c \in Cells, Working(c, "call"), work[c] \in {"idle", "fetched"},
           NEW r \in {"ok", "error", "reused"}, Finish(c, r),
           UNCHANGED <<load, mem, disk, queue, stopping, aborted, calls, lastGen, bounds, history>>
    PROVE  Runs(c)
  <1>1. mem' = [mem EXCEPT ![c] = mem[c]] /\ stopping' \in [Cells -> BOOLEAN]
    BY DEF TypeOK
  <1>2. Done(c, mem[c], r)
    BY <1>1 DEF Done, Finish
  <1>3. Stores(c, mem[c])
    BY DEF Stores, Keeps
  <1> QED
    BY <1>2, <1>3 DEF Runs

LEMMA CreateRuns ==
    ASSUME TypeOK, NEW c \in Cells, Working(c, "call"), NEW fs \in SUBSET Calls,
           Create(c, fs), Finish(c, "ok"), stopping' \in [Cells -> BOOLEAN],
           \/ /\ work[c] = "idle" /\ NeedsFiles(c) /\ fs = {} /\ KindOf[c] # "template"
              /\ KindOf[c] = "build" \/ TemplateOf[c] = Nothing
           \/ work[c] = "fetched" /\ held[c].ok /\ fs = held[c].fs,
           UNCHANGED <<load, disk, queue, aborted, calls, bounds, history>>
    PROVE  Runs(c)
  <1> DEFINE s == Recreated(mem[c], fs, lastGen[c] + 1)
  <1>1. mem' = [mem EXCEPT ![c] = s] /\ lastGen' = [lastGen EXCEPT ![c] = lastGen[c] + 1]
    BY DEF Create, Recreated
  <1>2. Creates(c, s)
    BY <1>1 DEF Creates
  <1>3. Done(c, s, "ok")
    BY <1>1 DEF Done, Finish
  <1> QED
    BY <1>2, <1>3 DEF Runs, Stores

LEMMA OpenRuns ==
    ASSUME TypeOK, NEW c \in Cells, RunOpen(c)
    PROVE  Runs(c)
  <1>1. Working(c, "call") /\ HeadCall(c, "open") /\ work[c] = "idle"
    BY DEF RunOpen, HeadCall
  <1>2. CASE Finish(c, "error") /\ UNCHANGED <<mem, lastGen, stopping, queue>>
    BY <1>1, <1>2, FinishSame DEF RunOpen
  <1>3. CASE /\ KindOf[c] # "template" /\ NeedsFiles(c) /\ KindOf[c] = "session" /\ TemplateOf[c] # Nothing
             /\ Fetch(c, TemplateOf[c]) /\ UNCHANGED <<mem, lastGen, stopping>>
    <2>1. CASE Full(TemplateOf[c])
      <3>1. Finish(c, "error") /\ queue' = queue
        BY <1>3, <2>1 DEF Fetch
      <3> QED
        BY <1>1, <1>3, <3>1, FinishSame DEF RunOpen
    <2>2. CASE ~Full(TemplateOf[c])
      <3>1. Opening(c) /\ Source(c) = TemplateOf[c]
        BY <1>1, <1>3 DEF Opening, Source
      <3> QED
        BY <1>1, <1>3, <2>2, <3>1 DEF Runs, Asking, Fetch, RunOpen
    <2> QED
      BY <2>1, <2>2
  <1>4. CASE /\ KindOf[c] # "template"
             /\ NeedsFiles(c) => KindOf[c] = "build" \/ TemplateOf[c] = Nothing
             /\ IF NeedsFiles(c) THEN Create(c, {})
                ELSE mem' = [mem EXCEPT ![c].stopped = FALSE] /\ lastGen' = lastGen
             /\ stopping' = [stopping EXCEPT ![c] = FALSE]
             /\ Finish(c, "ok") /\ queue' = queue
    <2>1. stopping' \in [Cells -> BOOLEAN] /\ UNCHANGED <<load, disk, queue, aborted, calls, bounds, history>>
      BY <1>4 DEF TypeOK, RunOpen
    <2>2. CASE NeedsFiles(c)
      <3>1. Create(c, {}) /\ Finish(c, "ok") /\ {} \in SUBSET Calls
        BY <1>4, <2>2
      <3>2. work[c] = "idle" /\ NeedsFiles(c) /\ {} = {} /\ KindOf[c] # "template"
              /\ (KindOf[c] = "build" \/ TemplateOf[c] = Nothing)
        BY <1>1, <1>4, <2>2
      <3> QED
        BY <1>1, <2>1, <3>1, <3>2, CreateRuns
    <2>3. CASE ~NeedsFiles(c)
      <3> DEFINE s == [mem[c] EXCEPT !.stopped = FALSE]
      <3>1. mem' = [mem EXCEPT ![c] = s] /\ lastGen' = lastGen
        BY <1>4, <2>3 DEF TypeOK, Storages
      <3>2. Stores(c, s)
        BY <3>1 DEF Stores, Keeps
      <3>3. Done(c, s, "ok")
        BY <1>1, <1>4, <2>1, <3>1 DEF Done, Finish
      <3> QED
        BY <3>2, <3>3 DEF Runs
    <2> QED
      BY <2>2, <2>3
  <1> QED
    BY <1>2, <1>3, <1>4 DEF RunOpen

LEMMA OpenFetchedRuns ==
    ASSUME TypeOK, NEW c \in Cells, OpenFetched(c)
    PROVE  Runs(c)
  <1>1. Working(c, "call") /\ work[c] = "fetched" /\ held[c].fs \in SUBSET Calls
    BY DEF OpenFetched, HeadCall, TypeOK
  <1>2. CASE held[c].ok
    <2>1. /\ Create(c, held[c].fs) /\ Finish(c, "ok") /\ stopping' \in [Cells -> BOOLEAN]
          /\ UNCHANGED <<load, disk, queue, aborted, calls, bounds, history>>
      BY <1>2 DEF OpenFetched, TypeOK
    <2> QED
      BY <1>1, <1>2, <2>1, CreateRuns
  <1>3. CASE ~held[c].ok
    BY <1>1, <1>3, FinishSame DEF OpenFetched
  <1> QED
    BY <1>2, <1>3

LEMMA PublishRuns ==
    ASSUME TypeOK, NEW c \in Cells, RunPublish(c)
    PROVE  Runs(c)
  <1>1. Working(c, "call") /\ HeadCall(c, "publish") /\ work[c] = "idle"
    BY DEF RunPublish, HeadCall
  <1>2. CASE \E r \in {"error", "reused"} : Finish(c, r) /\ queue' = queue
    BY <1>1, <1>2, FinishSame DEF RunPublish
  <1>3. CASE /\ KindOf[c] = "template" /\ KindOf[load[HeadOf(c)].target] = "build" /\ mem[c].gen = 0
             /\ ~Full(load[HeadOf(c)].target) /\ Fetch(c, load[HeadOf(c)].target)
    <2>1. Publishing(c) /\ Source(c) = load[HeadOf(c)].target
      BY <1>1, <1>3 DEF Publishing, Source
    <2> QED
      BY <1>1, <1>3, <2>1 DEF Runs, Asking, Fetch, RunPublish
  <1>4. \/ \E r \in {"error", "reused"} : Finish(c, r) /\ queue' = queue
        \/ /\ KindOf[c] = "template" /\ KindOf[load[HeadOf(c)].target] = "build" /\ mem[c].gen = 0
           /\ ~Full(load[HeadOf(c)].target) /\ Fetch(c, load[HeadOf(c)].target)
    BY DEF RunPublish, Fetch
  <1> QED
    BY <1>2, <1>3, <1>4

LEMMA PublishFetchedRuns ==
    ASSUME TypeOK, NEW c \in Cells, PublishFetched(c)
    PROVE  Runs(c)
  <1>1. Working(c, "call") /\ work[c] = "fetched" /\ held[c].fs \in SUBSET Calls
    BY DEF PublishFetched, HeadCall, TypeOK
  <1>2. CASE held[c].ok
    <2>1. /\ Create(c, held[c].fs) /\ Finish(c, "ok") /\ stopping' \in [Cells -> BOOLEAN]
          /\ UNCHANGED <<load, disk, queue, aborted, calls, bounds, history>>
      BY <1>2 DEF PublishFetched, TypeOK
    <2> QED
      BY <1>1, <1>2, <2>1, CreateRuns
  <1>3. CASE ~held[c].ok
    BY <1>1, <1>3, FinishSame DEF PublishFetched
  <1> QED
    BY <1>2, <1>3

LEMMA WriteRuns ==
    ASSUME TypeOK, NEW c \in Cells, RunWrite(c)
    PROVE  Runs(c)
  <1>1. Working(c, "call") /\ Op(HeadOf(c)) = "write" /\ work[c] = "idle"
    BY DEF RunWrite, HeadCall
  <1>2. CASE Mutable(c, calls[HeadOf(c)].gen)
    <2> DEFINE s == SaveFiles(mem[c], mem[c].fs \cup {HeadOf(c)})
    <2>1. mem' = [mem EXCEPT ![c] = s] /\ Finish(c, "ok") /\ lastGen' = lastGen
      BY <1>2 DEF RunWrite, Load, Changed
    <2>2. Stores(c, s)
      BY <1>1, <1>2, <2>1 DEF Stores, Writes, Mutable
    <2>3. Done(c, s, "ok")
      BY <1>1, <2>1 DEF Done, Finish, RunWrite, TypeOK
    <2> QED
      BY <2>2, <2>3 DEF Runs
  <1>3. CASE ~Mutable(c, calls[HeadOf(c)].gen)
    BY <1>1, <1>3, FinishSame DEF RunWrite
  <1> QED
    BY <1>2, <1>3

LEMMA StopRuns ==
    ASSUME TypeOK, NEW c \in Cells, RunStop(c)
    PROVE  Runs(c)
  <1>1. Working(c, "call") /\ work[c] = "idle"
    BY DEF RunStop, HeadCall
  <1>2. CASE Current(c, calls[HeadOf(c)].gen) /\ Op(HeadOf(c)) = "delete"
    <2>1. mem' = [mem EXCEPT ![c] = Wiped(mem[c])] /\ Finish(c, "ok") /\ lastGen' = lastGen
      BY <1>2 DEF RunStop, Wiped
    <2>2. Stores(c, Wiped(mem[c]))
      BY <1>2, <2>1 DEF Stores, Deletes
    <2>3. Done(c, Wiped(mem[c]), "ok")
      BY <1>1, <2>1 DEF Done, Finish, RunStop, TypeOK
    <2> QED
      BY <2>2, <2>3 DEF Runs
  <1>3. CASE Current(c, calls[HeadOf(c)].gen) /\ Op(HeadOf(c)) # "delete"
    <2>1. mem' = [mem EXCEPT ![c] = mem[c]] /\ Finish(c, "ok")
      BY <1>3 DEF RunStop
    <2>2. mem' = mem
      BY <2>1 DEF TypeOK
    <2> QED
      BY <1>1, <2>1, <2>2, FinishSame DEF RunStop
  <1>4. CASE ~Current(c, calls[HeadOf(c)].gen)
    BY <1>1, <1>4, FinishSame DEF RunStop
  <1> QED
    BY <1>2, <1>3, <1>4

\* A command ends without a commit, starts, or commits.
Halts(c, r) ==
    /\ Working(c, "command") /\ work[c] \in {"idle", "running"}
    /\ r \in {"cancelled", "failed", "timeout"}
    /\ mem' = [mem EXCEPT ![c] = SetState(mem[c], HeadOf(c), r)]
    /\ work' = [work EXCEPT ![c] = "settling"] /\ held' = [held EXCEPT ![c].result = r]
    /\ UNCHANGED <<load, disk, queue, stopping, aborted, calls, lastGen, bounds, history>>

Starts(c) ==
    /\ Working(c, "command") /\ work[c] = "idle" /\ Flushed(c)
    /\ mem' = [mem EXCEPT ![c] = SetState(mem[c], HeadOf(c), "running")]
    /\ work' = [work EXCEPT ![c] = "running"] /\ held' = [held EXCEPT ![c].fs = mem[c].fs]
    /\ UNCHANGED <<load, disk, queue, stopping, aborted, calls, lastGen, bounds, history>>

Commits(c) ==
    /\ Working(c, "command") /\ work[c] = "running"
    /\ mem' = [mem EXCEPT ![c] =
                 SetState(SaveFiles(mem[c], held[c].fs \cup {HeadOf(c)}), HeadOf(c), "completed")]
    /\ ran' = [ran EXCEPT ![HeadOf(c)] = ran[HeadOf(c)] + 1]
    /\ work' = [work EXCEPT ![c] = "settling"] /\ held' = [held EXCEPT ![c].result = "completed"]
    /\ UNCHANGED <<load, disk, queue, stopping, aborted, calls, lastGen, bounds, forgotten>>

LEMMA StartCases ==
    ASSUME NEW c \in Cells, StartCommand(c)
    PROVE  Starts(c) \/ \E r : Halts(c, r)
  <1>1. CASE HeadOf(c) \in aborted[c]
    <2>1. Halts(c, "cancelled")
      BY <1>1 DEF StartCommand, Halts, Finish
    <2> QED
      BY <2>1
  <1>2. CASE HeadOf(c) \notin aborted[c] /\ mem[c].deleted
    <2>1. Halts(c, "failed")
      BY <1>2 DEF StartCommand, Halts, Finish
    <2> QED
      BY <2>1
  <1>3. CASE HeadOf(c) \notin aborted[c] /\ ~mem[c].deleted
    BY <1>3 DEF StartCommand, Starts, Load
  <1> QED
    BY <1>1, <1>2, <1>3

LEMMA FailCases ==
    ASSUME NEW c \in Cells, NEW r, FailCommand(c, r)
    PROVE  Halts(c, r)
  BY DEF FailCommand, Halts, Finish

LEMMA CommitCases ==
    ASSUME NEW c \in Cells, CommitCommand(c)
    PROVE  Commits(c)
  BY DEF CommitCommand, Commits, Finish, Changed

\* A stop or a delete is accepted.
Stopping(k) ==
    LET c == Cell(k) IN
    /\ calls[k].st = "sent" /\ Op(k) \in {"stop", "delete"} /\ KindOf[c] # "template"
    /\ mem' = [mem EXCEPT ![c].stopped = TRUE]
    /\ queue' = [queue EXCEPT ![c] = Append(queue[c], <<"call", k>>)]
    /\ calls' = [calls EXCEPT ![k].st = "queued", ![k].before = Active(c)]
    /\ stopping' = [stopping EXCEPT ![c] = TRUE]
    /\ aborted' = [aborted EXCEPT ![c] = aborted[c] \cup Active(c)]
    /\ UNCHANGED <<load, disk, work, held, lastGen, bounds, history>>

LEMMA StopCases ==
    ASSUME NEW k \in Calls, ReceiveStop(k)
    PROVE  (calls[k].st = "sent" /\ Refuse(k)) \/ Stopping(k)
  BY DEF ReceiveStop, Stopping

-----------------------------------------------------------------------------
LEMMA TypesReplays ==
    ASSUME Types, NEW k \in Calls, Replays(k)
    PROVE  Types'
  <1>1. calls[k].st = "sent" /\ Made(k) /\ load' = load /\ Cell(k) \in Cells /\ Command(k) \in Calls
    BY Asks DEF Replays, Types, TypeOK, Asked, Command
  <1>2. calls' \in [Calls -> Requests] /\ Asked'
    <2>1. CASE \E a \in Results : calls' = [calls EXCEPT ![k].st = "gated", ![k].answer = a]
      BY <1>1, <2>1, Replies DEF Answers
    <2>2. CASE calls' = [calls EXCEPT ![k].st = "joined"]
      BY <1>1, <2>2, TypesMoves
    <2>3. CASE calls' = [calls EXCEPT ![k].st = "done", ![k].answer = "error"]
      BY <1>1, <2>3, Replies DEF Answers
    <2> QED
      BY <2>1, <2>2, <2>3 DEF Replays
  <1>3. aborted' \in [Cells -> SUBSET Calls]
    <2>1. PICK A \in {aborted[Cell(k)], aborted[Cell(k)] \cup {Command(k)}} :
                 aborted' = aborted \/ aborted' = [aborted EXCEPT ![Cell(k)] = A]
      BY DEF Replays
    <2>2. A \in SUBSET Calls /\ aborted \in [Cells -> SUBSET Calls]
      BY <1>1, <2>1 DEF Types, TypeOK
    <2> QED
      BY <2>1, <2>2
  <1> QED
    BY <1>2, <1>3 DEF Types, TypeOK, Replays, bounds, history

LEMMA TypesAccepts ==
    ASSUME Types, NEW k \in Calls, NEW n, Accepts(k, n)
    PROVE  Types'
  <1>1. calls[k].st = "sent" /\ Made(k) /\ load' = load /\ Cell(k) \in Cells
    BY Asks DEF Accepts, Types, TypeOK, Asked
  <1>2. mem[Cell(k)] \in Storages
    BY <1>1 DEF Types, TypeOK
  <1>3. Inserted(mem[Cell(k)], n, k) \in Storages /\ Oldest(mem[Cell(k)], n) \subseteq Calls
    BY <1>2, Insertions
  <1>4. mem' \in [Cells -> Storages] /\ forgotten' \subseteq Calls
    BY <1>1, <1>3 DEF Accepts, Types, TypeOK
  <1>5. calls' \in [Calls -> Requests] /\ Asked'
    BY <1>1, TypesMoves DEF Accepts
  <1>6. <<"command", k>> \in Entries
    BY DEF Entries
  <1>7. queue' \in [Cells -> Seq(Entries)]
    BY <1>1, <1>6, AtPushed DEF Accepts, Types, TypeOK
  <1> QED
    BY <1>4, <1>5, <1>7 DEF Types, TypeOK, Accepts, bounds

LEMMA TypesCancelsEarly ==
    ASSUME Types, NEW k \in Calls, NEW n, CancelsEarly(k, n)
    PROVE  Types'
  <1>1. calls[k].st = "sent" /\ Made(k) /\ load' = load /\ Cell(k) \in Cells /\ load[k].target \in Calls
    BY Asks DEF CancelsEarly, Types, TypeOK, Asked
  <1>2. mem[Cell(k)] \in Storages
    BY <1>1 DEF Types, TypeOK
  <1>3. Inserted(mem[Cell(k)], n, load[k].target) \in Storages /\ Oldest(mem[Cell(k)], n) \subseteq Calls
    BY <1>1, <1>2, Insertions
  <1>4. SetState(Inserted(mem[Cell(k)], n, load[k].target), load[k].target, "cancelled") \in Storages
    BY <1>1, <1>3, SetStates DEF States, Results
  <1>5. mem' \in [Cells -> Storages] /\ forgotten' \subseteq Calls
    BY <1>1, <1>3, <1>4 DEF CancelsEarly, Types, TypeOK
  <1>6. calls' \in [Calls -> Requests] /\ Asked'
    BY <1>1, Replies DEF CancelsEarly, Answers, Results
  <1> QED
    BY <1>5, <1>6 DEF Types, TypeOK, CancelsEarly, bounds

LEMMA TypesStopping ==
    ASSUME Types, NEW k \in Calls, Stopping(k)
    PROVE  Types'
  <1>1. calls[k].st = "sent" /\ Made(k) /\ load' = load /\ Cell(k) \in Cells /\ Active(Cell(k)) \subseteq Calls
    BY Asks DEF Stopping, Types, TypeOK, Asked, Active
  <1> HIDE DEF Active
  <1> DEFINE s == mem[Cell(k)]
             q == calls[k]
             r == [q EXCEPT !.st = "queued", !.before = Active(Cell(k))]
             z == [s EXCEPT !.stopped = TRUE]
  <1>2. s \in Storages /\ q \in Requests
    BY <1>1 DEF Types, TypeOK
  <1>3. mem' = [mem EXCEPT ![Cell(k)] = z] /\ calls' = [calls EXCEPT ![k] = r]
    BY <1>1 DEF Stopping, Types, TypeOK
  <1>4. z \in Storages /\ r \in Requests
    <2> HIDE DEF s, q
    <2> QED
      BY <1>1, <1>2 DEF Storages, Requests
  <1> HIDE DEF r, z
  <1>5. mem' \in [Cells -> Storages]
    BY <1>1, <1>3, <1>4 DEF Types, TypeOK
  <1>6. calls' \in [Calls -> Requests] /\ Asked'
    BY <1>1, <1>3, <1>4 DEF Types, TypeOK, Asked, Made
  <1>7. <<"call", k>> \in Entries
    BY DEF Entries
  <1>8. queue' \in [Cells -> Seq(Entries)]
    BY <1>1, <1>7, AtPushed DEF Stopping, Types, TypeOK
  <1>9. stopping' \in [Cells -> BOOLEAN] /\ aborted' \in [Cells -> SUBSET Calls]
    BY <1>1 DEF Stopping, Types, TypeOK
  <1> QED
    BY <1>5, <1>6, <1>8, <1>9 DEF Types, TypeOK, Stopping, bounds, history

LEMMA TypesDeliver ==
    ASSUME Types, NEW k \in Calls, Deliver(k)
    PROVE  Types'
  <1>1. calls[k].st = "gated" /\ load' = load /\ calls' = [calls EXCEPT ![k].st = "done"]
    BY DEF Deliver
  <1>2. calls' \in [Calls -> Requests] /\ Asked'
    BY <1>1, TypesMoves
  <1> QED
    BY <1>2 DEF Types, TypeOK, Deliver, bounds, history

LEMMA TypesFlush ==
    ASSUME Types, NEW c \in Cells, Flush(c)
    PROVE  Types'
  <1>1. disk' \in [Cells -> Storages]
    BY DEF Types, TypeOK, Flush
  <1> QED
    BY <1>1 DEF Types, TypeOK, Flush, bounds, history, Asked, Made

\* The answer of a call that the work on the head of c was for.
Settled(c, k) == [calls[k] EXCEPT !.st = "done", !.answer = held[c].result,
                                  !.gen = IF Op(k) = "open" THEN mem[c].gen ELSE calls[k].gen]

LEMMA Settlements ==
    ASSUME TypeOK, NEW c \in Cells, NEW k \in Calls
    PROVE  /\ Settled(c, k) \in Requests
           /\ Settled(c, k).st = "done" /\ Settled(c, k).answer = held[c].result
           /\ Settled(c, k).gen = IF Op(k) = "open" THEN mem[c].gen ELSE calls[k].gen
           /\ Settled(c, k).via = calls[k].via /\ Settled(c, k).before = calls[k].before
  <1> DEFINE q == calls[k]
             g == IF Op(k) = "open" THEN mem[c].gen ELSE calls[k].gen
             a == held[c].result
  <1>1. q \in Requests /\ g \in Nat /\ a \in Answers
    BY StorageFields, CallFields DEF TypeOK
  <1>2. Settled(c, k) = [q EXCEPT !.st = "done", !.answer = a, !.gen = g]
    BY DEF Settled
  <1>3. calls[k].via = q.via /\ calls[k].before = q.before
    OBVIOUS
  <1> HIDE DEF q, g, a
  <1>4. /\ Settled(c, k) \in Requests
        /\ Settled(c, k).st = "done" /\ Settled(c, k).answer = a /\ Settled(c, k).gen = g
        /\ Settled(c, k).via = q.via /\ Settled(c, k).before = q.before
    BY <1>1, <1>2 DEF Requests
  <1> QED
    BY <1>3, <1>4 DEF a, g

LEMMA SettleCalls ==
    ASSUME Types, NEW c \in Cells, Settle(c)
    PROVE  /\ calls' = [k \in Calls |-> IF k \in Waiting(c) THEN Settled(c, k) ELSE calls[k]]
           /\ \A k \in Waiting(c) : calls[k].st \in {"joined", "queued"}
  BY DEF Settle, Settled, Waiting

LEMMA TypesSettle ==
    ASSUME Types, Stages, NEW c \in Cells, Settle(c)
    PROVE  Types'
  <1>1. queue[c] # <<>> /\ load' = load
    BY DEF Settle, Stages, StageOK
  <1>2. queue' \in [Cells -> Seq(Entries)]
    BY <1>1, AtPopped DEF Settle, Types, TypeOK
  <1>3. calls' \in [Calls -> Requests]
    BY SettleCalls, Settlements DEF Types, TypeOK
  <1>4. \A k \in Calls : calls'[k].st # "idle" => calls[k].st # "idle"
    BY SettleCalls
  <1>5. Asked'
    BY <1>1, <1>4 DEF Types, Asked, Made
  <1>6. /\ work' \in [Cells -> {"idle", "running", "fetching", "fetched", "settling"}]
        /\ held' \in [Cells -> [ok : BOOLEAN, fs : SUBSET Calls, result : Answers]]
        /\ aborted' \in [Cells -> SUBSET Calls]
    BY DEF Settle, Types, TypeOK, Empty, Answers
  <1> QED
    BY <1>2, <1>3, <1>5, <1>6 DEF Types, TypeOK, Settle, bounds, history

LEMMA TypesServe ==
    ASSUME Types, NEW c \in Cells, Serve(c)
    PROVE  Types'
  <1>1. queue[c] # <<>> /\ load' = load /\ HeadOf(c) \in Cells \cup {Nothing}
    BY Heads DEF Serve, Working, Types
  <1>2. queue' \in [Cells -> Seq(Entries)]
    BY <1>1, AtPopped DEF Serve, Types, TypeOK
  <1>3. CASE HeadOf(c) = Nothing
    BY <1>2, <1>3 DEF Types, TypeOK, Serve, bounds, history, Asked, Made
  <1>4. CASE HeadOf(c) # Nothing
    <2>1. HeadOf(c) \in Cells /\ Load(c) \in SUBSET Calls
      BY <1>1, <1>4, StorageFields DEF Load, Types, TypeOK
    <2>2. PICK ok \in BOOLEAN :
             held' = [held EXCEPT ![HeadOf(c)].ok = ok, ![HeadOf(c)].fs = Load(c)]
      <3>1. (mem[c].gen # 0) \in BOOLEAN /\ Current(c, calls[HeadOf(HeadOf(c))].gen) \in BOOLEAN
        BY DEF Current
      <3> QED
        BY <1>4, <3>1 DEF Serve
    <2>3. held' \in [Cells -> [ok : BOOLEAN, fs : SUBSET Calls, result : Answers]]
      BY <2>1, <2>2 DEF Types, TypeOK
    <2>4. work' \in [Cells -> {"idle", "running", "fetching", "fetched", "settling"}]
      BY <1>4, <2>1 DEF Serve, Types, TypeOK
    <2> QED
      BY <1>2, <2>3, <2>4 DEF Types, TypeOK, Serve, bounds, history, Asked, Made
  <1> QED
    BY <1>3, <1>4

LEMMA StoresTypes ==
    ASSUME Types, NEW c \in Cells, NEW s, NEW r, Done(c, s, r), Stores(c, s)
    PROVE  s \in Storages /\ lastGen' \in [Cells -> Nat]
  <1>1. mem[c] \in Storages /\ lastGen[c] + 1 \in Nat /\ mem[c].fs \subseteq Calls
    BY StorageFields DEF Types, TypeOK
  <1>2. CASE Keeps(c, s)
    <2> DEFINE z == mem[c]
    <2>1. z \in Storages /\ s \in {z, [z EXCEPT !.stopped = FALSE]}
      BY <1>1, <1>2 DEF Keeps
    <2> HIDE DEF z
    <2>2. s \in Storages
      BY <2>1 DEF Storages
    <2> QED
      BY <1>2, <2>2 DEF Keeps, Types, TypeOK
  <1>3. CASE Creates(c, s)
    BY <1>1, <1>3, Recreations DEF Creates, Types, TypeOK
  <1>4. CASE Writes(c, s)
    <2>1. queue[c] # <<>>
      BY DEF Done, Working
    <2>2. HeadOf(c) \in Calls
      BY <2>1, Heads DEF Done, Types
    <2> QED
      BY <1>1, <1>4, <2>2, SavedFiles DEF Writes, Types, TypeOK
  <1>5. CASE Deletes(c, s)
    BY <1>1, <1>5, Wipes DEF Deletes, Types, TypeOK
  <1> QED
    BY <1>2, <1>3, <1>4, <1>5 DEF Stores

LEMMA HeadMade ==
    ASSUME Types, Queued, NEW c \in Cells
    PROVE  /\ Working(c, "call") => /\ HeadOf(c) \in Calls /\ Made(HeadOf(c)) /\ Cell(HeadOf(c)) = c
                                    /\ Head(queue[c]) = <<"call", HeadOf(c)>>
                                    /\ Op(HeadOf(c)) \in {"open", "publish", "write", "stop", "delete"}
           /\ Working(c, "command") => /\ HeadOf(c) \in Calls /\ Executes(HeadOf(c)) /\ Cell(HeadOf(c)) = c
                                       /\ Head(queue[c]) = <<"command", HeadOf(c)>>
                                       /\ KindOf[c] # "template"
  <1> SUFFICES ASSUME queue[c] # <<>> PROVE
           /\ Working(c, "call") => /\ HeadOf(c) \in Calls /\ Made(HeadOf(c)) /\ Cell(HeadOf(c)) = c
                                    /\ Head(queue[c]) = <<"call", HeadOf(c)>>
                                    /\ Op(HeadOf(c)) \in {"open", "publish", "write", "stop", "delete"}
           /\ Working(c, "command") => /\ HeadOf(c) \in Calls /\ Executes(HeadOf(c)) /\ Cell(HeadOf(c)) = c
                                       /\ Head(queue[c]) = <<"command", HeadOf(c)>>
                                       /\ KindOf[c] # "template"
    BY DEF Working
  <1> DEFINE e == Head(queue[c])
  <1>1. e \in Entries /\ At(c, e) # {}
    BY AtHead DEF Types, TypeOK
  <1>2. EntryOK(c, e)
    BY <1>1 DEF Queued
  <1>3. e = <<e[1], HeadOf(c)>> /\ HeadOf(c) = e[2]
    BY Heads DEF Types, HeadOf
  <1>4. /\ Working(c, "call") => e[1] = "call" /\ HeadOf(c) \in Calls
        /\ Working(c, "command") => e[1] = "command" /\ HeadOf(c) \in Calls
    BY Heads DEF Types, Working
  <1> HIDE DEF e
  <1>5. /\ Working(c, "call") => e = <<"call", HeadOf(c)>> /\ HeadOf(c) \in Calls
        /\ Working(c, "command") => e = <<"command", HeadOf(c)>> /\ HeadOf(c) \in Calls
    BY <1>3, <1>4
  <1>6. /\ e[1] = "call" => Made(e[2]) /\ Cell(e[2]) = c
                            /\ Op(e[2]) \in {"open", "publish", "write", "stop", "delete"}
        /\ e[1] = "command" => Executes(e[2]) /\ Cell(e[2]) = c /\ KindOf[c] # "template"
    BY <1>2 DEF EntryOK
  <1> QED
    BY <1>3, <1>4, <1>5, <1>6 DEF e

LEMMA Sources ==
    ASSUME Types, Queued, NEW c \in Cells, Opening(c) \/ Publishing(c)
    PROVE  Source(c) \in Cells /\ Source(c) # c
           /\ KindOf[Source(c)] = IF KindOf[c] = "session" THEN "template" ELSE "build"
  <1>1. CASE Opening(c)
    BY <1>1, CellConstants DEF Opening, Source
  <1>2. CASE Publishing(c)
    <2>1. HeadOf(c) \in Calls /\ Made(HeadOf(c)) /\ Op(HeadOf(c)) = "publish"
      BY <1>2, HeadMade DEF Publishing, HeadCall
    <2>2. load[HeadOf(c)].target \in Cells
      BY <2>1, Asks DEF Types, TypeOK
    <2> QED
      BY <1>2, <2>2 DEF Publishing, Source
  <1> QED
    BY <1>1, <1>2

LEMMA TypesRuns ==
    ASSUME Types, Queued, NEW c \in Cells, Runs(c)
    PROVE  Types'
  <1>1. CASE Asking(c)
    <2>1. Source(c) \in Cells /\ <<"fetch", c>> \in Entries
      BY <1>1, Sources DEF Asking, Entries
    <2>2. queue' \in [Cells -> Seq(Entries)]
      BY <1>1, <2>1, AtPushed DEF Asking, Types, TypeOK
    <2>3. work' \in [Cells -> {"idle", "running", "fetching", "fetched", "settling"}]
      BY <1>1 DEF Asking, Types, TypeOK
    <2> QED
      BY <1>1, <2>2, <2>3 DEF Types, TypeOK, Asking, bounds, history, Asked, Made
  <1>2. ASSUME NEW s, NEW r, Done(c, s, r), Stores(c, s) PROVE Types'
    <2>1. s \in Storages /\ lastGen' \in [Cells -> Nat]
      BY <1>2, StoresTypes
    <2>2. mem' \in [Cells -> Storages]
      BY <1>2, <2>1 DEF Done, Types, TypeOK
    <2>3. /\ work' \in [Cells -> {"idle", "running", "fetching", "fetched", "settling"}]
          /\ held' \in [Cells -> [ok : BOOLEAN, fs : SUBSET Calls, result : Answers]]
      BY <1>2 DEF Done, Types, TypeOK, Answers
    <2> QED
      BY <1>2, <2>1, <2>2, <2>3 DEF Types, TypeOK, Done, bounds, history, Asked, Made
  <1> QED
    BY <1>1, <1>2 DEF Runs

LEMMA TypesHalts ==
    ASSUME Types, Queued, NEW c \in Cells, NEW r, Halts(c, r)
    PROVE  Types'
  <1>1. HeadOf(c) \in Calls /\ mem[c] \in Storages /\ r \in States /\ r \in Answers
    BY HeadMade DEF Halts, Types, TypeOK, States, Results, Answers
  <1>2. SetState(mem[c], HeadOf(c), r) \in Storages
    BY <1>1, SetStates
  <1>3. mem' \in [Cells -> Storages]
    BY <1>2 DEF Halts, Types, TypeOK
  <1>4. /\ work' \in [Cells -> {"idle", "running", "fetching", "fetched", "settling"}]
        /\ held' \in [Cells -> [ok : BOOLEAN, fs : SUBSET Calls, result : Answers]]
    BY <1>1 DEF Halts, Types, TypeOK
  <1> QED
    BY <1>3, <1>4 DEF Types, TypeOK, Halts, bounds, history, Asked, Made

LEMMA TypesStarts ==
    ASSUME Types, Queued, NEW c \in Cells, Starts(c)
    PROVE  Types'
  <1>1. HeadOf(c) \in Calls /\ mem[c] \in Storages /\ mem[c].fs \subseteq Calls
    BY HeadMade, StorageFields DEF Starts, Types, TypeOK
  <1>2. SetState(mem[c], HeadOf(c), "running") \in Storages
    BY <1>1, SetStates DEF States
  <1>3. mem' \in [Cells -> Storages]
    BY <1>2 DEF Starts, Types, TypeOK
  <1>4. /\ work' \in [Cells -> {"idle", "running", "fetching", "fetched", "settling"}]
        /\ held' \in [Cells -> [ok : BOOLEAN, fs : SUBSET Calls, result : Answers]]
    BY <1>1 DEF Starts, Types, TypeOK
  <1> QED
    BY <1>3, <1>4 DEF Types, TypeOK, Starts, bounds, history, Asked, Made

\* The storage of a cell after a commit.
Committed(c) == SetState(SaveFiles(mem[c], held[c].fs \cup {HeadOf(c)}), HeadOf(c), "completed")

LEMMA CommitStorage ==
    ASSUME Types, Queued, NEW c \in Cells, Commits(c)
    PROVE  /\ HeadOf(c) \in Calls /\ Committed(c) \in Storages
           /\ Committed(c).gen = mem[c].gen /\ Committed(c).deleted = mem[c].deleted
           /\ Committed(c).fs = held[c].fs \cup {HeadOf(c)}
           /\ \A j \in Calls : j # HeadOf(c) => Committed(c).journal[j] = mem[c].journal[j]
           /\ Committed(c).journal[HeadOf(c)] = IF Journaled(mem[c], HeadOf(c)) THEN "completed" ELSE "none"
           /\ \A j \in Calls : Journaled(Committed(c), j) <=> Journaled(mem[c], j)
           /\ mem' = [mem EXCEPT ![c] = Committed(c)]
  <1> DEFINE m == HeadOf(c)
             fs == held[c].fs \cup {m}
             z == SaveFiles(mem[c], fs)
  <1>1. m \in Calls /\ mem[c] \in Storages /\ fs \in SUBSET Calls
    BY HeadMade DEF Commits, Types, TypeOK
  <1>2. z \in Storages /\ z.fs = fs /\ z.gen = mem[c].gen /\ z.deleted = mem[c].deleted
          /\ z.journal = mem[c].journal
    BY <1>1, SavedFiles
  <1>3. Committed(c) = SetState(z, m, "completed") /\ mem' = [mem EXCEPT ![c] = Committed(c)]
    BY DEF Committed, Commits
  <1> HIDE DEF z, m, fs
  <1>4. "completed" \in States
    BY DEF States, Results
  <1>5. /\ SetState(z, m, "completed") \in Storages
        /\ SetState(z, m, "completed").gen = z.gen /\ SetState(z, m, "completed").deleted = z.deleted
        /\ SetState(z, m, "completed").fs = z.fs
        /\ \A j \in Calls : j # m => SetState(z, m, "completed").journal[j] = z.journal[j]
        /\ SetState(z, m, "completed").journal[m] = IF Journaled(z, m) THEN "completed" ELSE "none"
        /\ \A j \in Calls : Journaled(SetState(z, m, "completed"), j) <=> Journaled(z, j)
    BY <1>1, <1>2, <1>4, SetStates
  <1>6. \A j \in Calls : Journaled(z, j) <=> Journaled(mem[c], j)
    BY <1>2 DEF Journaled
  <1> HIDE DEF Committed
  <1> QED
    BY <1>1, <1>2, <1>3, <1>5, <1>6 DEF m, fs

LEMMA TypesCommits ==
    ASSUME Types, Queued, NEW c \in Cells, Commits(c)
    PROVE  Types'
  <1>1. mem' \in [Cells -> Storages] /\ HeadOf(c) \in Calls
    BY CommitStorage DEF Types, TypeOK
  <1>2. /\ work' \in [Cells -> {"idle", "running", "fetching", "fetched", "settling"}]
        /\ held' \in [Cells -> [ok : BOOLEAN, fs : SUBSET Calls, result : Answers]]
    BY DEF Commits, Types, TypeOK, Answers, Results
  <1>3. ran' \in [Calls -> Nat]
    BY <1>1 DEF Commits, Types, TypeOK
  <1> QED
    BY <1>1, <1>2, <1>3 DEF Types, TypeOK, Commits, bounds, Asked, Made

LEMMA TypesCrash ==
    ASSUME Types, NEW c \in Cells, Crash(c)
    PROVE  Types'
  <1>1. queue' \in [Cells -> Seq(Entries)]
    BY AtCrashed DEF Crash, Types, TypeOK
  <1>2. mem' \in [Cells -> Storages]
    <2>1. Restarted(disk[c]) \in Storages
      BY Restarts DEF Types, TypeOK
    <2> QED
      BY <2>1 DEF Crash, Types, TypeOK
  <1>3. \A k \in Calls : calls'[k] \in {calls[k], Failed(calls[k], Op(k))}
                         /\ (calls[k].st = "idle" => calls'[k] = calls[k])
    BY DEF Crash
  <1>4. calls' \in [Calls -> Requests]
    <2>1. \A k \in Calls : calls[k] \in Requests /\ Failed(calls[k], Op(k)) \in Requests
      BY Failures DEF Types, TypeOK
    <2>2. calls' = [k \in Calls |-> calls'[k]]
      BY DEF Crash
    <2>3. \A k \in Calls : calls'[k] \in Requests
      BY <1>3, <2>1
    <2> QED
      BY <2>2, <2>3
  <1>5. Asked'
    BY <1>3 DEF Types, Asked, Made, Crash
  <1>6. work' \in [Cells -> {"idle", "running", "fetching", "fetched", "settling"}]
    BY DEF Crash, Types, TypeOK
  <1>7. held' \in [Cells -> [ok : BOOLEAN, fs : SUBSET Calls, result : Answers]]
    <2>1. Empty \in [ok : BOOLEAN, fs : SUBSET Calls, result : Answers]
      BY DEF Empty, Answers
    <2> HIDE DEF Empty
    <2> QED
      BY <2>1 DEF Crash, Types, TypeOK
  <1>8. stopping' \in [Cells -> BOOLEAN] /\ aborted' \in [Cells -> SUBSET Calls]
    BY DEF Crash, Types, TypeOK
  <1>9. crashes' \in 0..MaxCrashes
    BY CellConstants DEF Crash, Types, TypeOK
  <1> QED
    BY <1>1, <1>2, <1>4, <1>5, <1>6, <1>7, <1>8, <1>9 DEF Types, TypeOK, Crash, history

-----------------------------------------------------------------------------
(* Queues and the work on their heads *)

Names == Types /\ Queued /\ Stages /\ Fetches

\* Storage s and storage z are of one generation.
SameLife(s, z) == z.gen = s.gen /\ z.deleted = s.deleted

LEMMA SameStage ==
    ASSUME NEW c \in Cells, StageOK(c), load' = load, work'[c] = work[c],
           queue[c] # <<>> => queue'[c] # <<>> /\ Head(queue'[c]) = Head(queue[c]),
           SameLife(mem[c], mem'[c])
    PROVE  StageOK(c)' /\ (work[c] \in {"fetching", "fetched"} => Source(c)' = Source(c))
  <1>1. CASE work[c] = "idle"
    BY <1>1 DEF StageOK
  <1>2. CASE work[c] # "idle"
    <2>1. queue[c] # <<>> /\ queue'[c] # <<>> /\ Head(queue'[c]) = Head(queue[c])
      BY <1>2 DEF StageOK
    <2>2. HeadOf(c)' = HeadOf(c) /\ \A kind : Working(c, kind)' <=> Working(c, kind)
      BY <2>1 DEF HeadOf, Working
    <2>3. \A op : HeadCall(c, op)' <=> HeadCall(c, op)
      BY <2>2 DEF HeadCall, Op
    <2>4. NeedsFiles(c)' <=> NeedsFiles(c)
      BY DEF NeedsFiles, SameLife
    <2>5. (Opening(c)' <=> Opening(c)) /\ (Publishing(c)' <=> Publishing(c)) /\ Source(c)' = Source(c)
      BY <2>2, <2>3, <2>4 DEF Opening, Publishing, Source, SameLife
    <2> QED
      BY <1>2, <2>1, <2>2, <2>5 DEF StageOK
  <1> QED
    BY <1>1, <1>2

LEMMA SameEntries ==
    ASSUME Queued, load' = load, NEW c \in Cells, NEW e \in Entries, At(c, e)' # {} => At(c, e) # {}
    PROVE  At(c, e)' # {} => EntryOK(c, e)'
  <1>1. EntryOK(c, e)' <=> EntryOK(c, e)
    BY DEF EntryOK, Made, Cell, Op, Executes
  <1> QED
    BY <1>1 DEF Queued

LEMMA QueuesSame ==
    ASSUME Names, load' = load, queue' = queue, work' = work,
           \A c \in Cells : SameLife(mem[c], mem'[c])
    PROVE  Queued' /\ Stages' /\ Fetches'
  <1>1. \A c \in Cells : \A e : At(c, e)' = At(c, e)
    BY DEF At
  <1>2. Queued'
    BY <1>1, SameEntries DEF Names, Queued
  <1>3. \A c \in Cells : StageOK(c)' /\ (work[c] \in {"fetching", "fetched"} => Source(c)' = Source(c))
    BY SameStage DEF Names, Stages
  <1>4. Fetches'
    BY <1>1, <1>3 DEF Names, Fetches, FetchOK
  <1> QED
    BY <1>2, <1>3, <1>4 DEF Stages

LEMMA QueuesPush ==
    ASSUME Names, load' = load, work' = work, NEW c \in Cells, NEW e \in Entries, e[1] # "fetch",
           EntryOK(c, e), queue' = [queue EXCEPT ![c] = Append(queue[c], e)],
           \A d \in Cells : SameLife(mem[d], mem'[d])
    PROVE  Queued' /\ Stages' /\ Fetches'
  <1>1. queue \in [Cells -> Seq(Entries)]
    BY DEF Names, Types, TypeOK
  <1>2. /\ \A d \in Cells, x \in Entries : ~(d = c /\ x = e) => At(d, x)' = At(d, x)
        /\ \A d \in Cells : queue[d] # <<>> => queue'[d] # <<>> /\ Head(queue'[d]) = Head(queue[d])
    BY <1>1, AtPushed
  <1>3. Queued'
    <2>1. EntryOK(c, e)'
      BY DEF EntryOK, Made, Cell, Op, Executes
    <2> QED
      BY <1>2, <2>1, SameEntries DEF Names, Queued
  <1>4. \A d \in Cells : StageOK(d)' /\ (work[d] \in {"fetching", "fetched"} => Source(d)' = Source(d))
    BY <1>2, SameStage DEF Names, Stages
  <1>5. \A a, d \in Cells : At(d, <<"fetch", a>>)' = At(d, <<"fetch", a>>)
    <2>1. \A a \in Cells : <<"fetch", a>> \in Entries /\ <<"fetch", a>> # e
      BY DEF Entries
    <2> QED
      BY <1>2, <2>1
  <1>6. ASSUME NEW a \in Cells, NEW d \in Cells PROVE FetchOK(a, d)'
    <2>1. FetchOK(a, d) /\ At(d, <<"fetch", a>>)' = At(d, <<"fetch", a>>)
      BY <1>5 DEF Names, Fetches
    <2> QED
      BY <1>4, <2>1 DEF FetchOK
  <1> QED
    BY <1>3, <1>4, <1>6 DEF Stages, Fetches

LEMMA QueuesWork ==
    ASSUME Names, load' = load, queue' = queue, NEW c \in Cells, NEW w \in {"settling", "running"},
           work' = [work EXCEPT ![c] = w], work[c] # "fetching",
           w = "settling" => Working(c, "call") \/ Working(c, "command"),
           w = "running" => Working(c, "command"),
           \A d \in Cells : d # c => SameLife(mem[d], mem'[d])
    PROVE  Queued' /\ Stages' /\ Fetches'
  <1>1. \A d \in Cells : \A e : At(d, e)' = At(d, e)
    BY DEF At
  <1>2. Queued'
    BY <1>1, SameEntries DEF Names, Queued
  <1>3. \A d \in Cells : d # c => work'[d] = work[d]
    BY DEF Names, Types, TypeOK
  <1>4. work'[c] = w
    BY DEF Names, Types, TypeOK
  <1>5. \A d \in Cells : d # c =>
           StageOK(d)' /\ (work[d] \in {"fetching", "fetched"} => Source(d)' = Source(d))
    BY <1>3, SameStage DEF Names, Stages
  <1>6. StageOK(c)'
    <2>1. \A kind : Working(c, kind)' <=> Working(c, kind)
      BY DEF Working
    <2>2. queue[c] # <<>> /\ ~Working(c, "fetch")
      BY DEF Working
    <2> QED
      BY <1>4, <2>1, <2>2 DEF StageOK
  <1>7. \A d \in Cells : At(d, <<"fetch", c>>) = {}
    BY DEF Names, Fetches, FetchOK
  <1>8. Fetches'
    BY <1>1, <1>3, <1>5, <1>7 DEF Names, Fetches, FetchOK
  <1> QED
    BY <1>2, <1>5, <1>6, <1>8 DEF Stages

LEMMA QueuesSettle ==
    ASSUME Names, NEW c \in Cells, Settle(c)
    PROVE  Queued' /\ Stages' /\ Fetches'
  <1>1. queue \in [Cells -> Seq(Entries)] /\ queue[c] # <<>> /\ load' = load
        /\ queue' = [queue EXCEPT ![c] = Tail(queue[c])] /\ mem' = mem /\ work[c] = "settling"
        /\ work'[c] = "idle" /\ \A d \in Cells : d # c => work'[d] = work[d]
    BY DEF Names, Types, TypeOK, Settle, Stages, StageOK
  <1>2. /\ \A d \in Cells : d # c => queue'[d] = queue[d] /\ \A x \in Entries : At(d, x)' = At(d, x)
        /\ \A x \in Entries : \A i \in At(c, x)' : i \in Nat /\ i >= 1 /\ i + 1 \in At(c, x)
    BY <1>1, AtPopped
  <1>3. Queued'
    <2>1. \A d \in Cells, x \in Entries : At(d, x)' # {} => At(d, x) # {}
      BY <1>2
    <2>2. Queued /\ load' = load
      BY <1>1 DEF Names
    <2>3. \A d \in Cells, x \in Entries : At(d, x)' # {} => EntryOK(d, x)'
      BY <2>1, <2>2, SameEntries
    <2> QED
      BY <2>3 DEF Queued
  <1>4. \A d \in Cells : d # c =>
           StageOK(d)' /\ (work[d] \in {"fetching", "fetched"} => Source(d)' = Source(d))
    BY <1>1, <1>2, SameStage DEF Names, Stages, SameLife
  <1>5. StageOK(c)'
    BY <1>1 DEF StageOK
  <1>6. \A a \in Cells : <<"fetch", a>> \in Entries
    BY DEF Entries
  <1>7. \A d \in Cells : At(d, <<"fetch", c>>) = {} /\ At(d, <<"fetch", c>>)' = {}
    <2>1. \A d \in Cells : At(d, <<"fetch", c>>) = {}
      BY <1>1 DEF Names, Fetches, FetchOK
    <2> QED
      BY <1>2, <1>6, <2>1
  <1>8. ASSUME NEW a \in Cells, NEW d \in Cells PROVE FetchOK(a, d)'
    <2>1. FetchOK(a, d)
      BY DEF Names, Fetches
    <2>2. CASE a = c
      BY <1>7, <2>2 DEF FetchOK
    <2>3. CASE a # c /\ d # c
      BY <1>1, <1>2, <1>4, <1>6, <2>1, <2>3 DEF FetchOK
    <2>4. CASE a # c /\ d = c
      <3>1. At(c, <<"fetch", a>>)' # {} => At(c, <<"fetch", a>>) # {}
        BY <1>2, <1>6
      <3>2. ASSUME NEW i \in At(c, <<"fetch", a>>)', NEW j \in At(c, <<"fetch", a>>)' PROVE i = j
        <4>1. i \in Nat /\ j \in Nat /\ i + 1 \in At(c, <<"fetch", a>>) /\ j + 1 \in At(c, <<"fetch", a>>)
          BY <1>2, <1>6, <3>2
        <4>2. i + 1 = j + 1
          BY <2>1, <2>4, <4>1 DEF FetchOK
        <4> QED
          BY <4>1, <4>2
      <3> QED
        BY <1>1, <1>4, <2>1, <2>4, <3>1, <3>2 DEF FetchOK
    <2> QED
      BY <2>2, <2>3, <2>4
  <1> QED
    BY <1>3, <1>4, <1>5, <1>8 DEF Stages, Fetches

LEMMA QueuesServe ==
    ASSUME Names, NEW c \in Cells, Serve(c)
    PROVE  Queued' /\ Stages' /\ Fetches'
  <1>0. PICK b : b = HeadOf(c)
    OBVIOUS
  <1>1. queue \in [Cells -> Seq(Entries)] /\ queue[c] # <<>> /\ load' = load
        /\ queue' = [queue EXCEPT ![c] = Tail(queue[c])] /\ mem' = mem
    BY DEF Names, Types, TypeOK, Serve, Working
  <1>2. /\ \A d \in Cells : d # c => queue'[d] = queue[d] /\ \A x \in Entries : At(d, x)' = At(d, x)
        /\ \A x \in Entries : \A i \in At(c, x)' : i \in Nat /\ i >= 1 /\ i + 1 \in At(c, x)
        /\ 1 \in At(c, Head(queue[c])) /\ Head(queue[c]) \in Entries
    BY <1>1, AtPopped
  <1>3. Queued'
    <2>1. \A d \in Cells, x \in Entries : At(d, x)' # {} => At(d, x) # {}
      BY <1>2
    <2>2. Queued /\ load' = load
      BY <1>1 DEF Names
    <2>3. \A d \in Cells, x \in Entries : At(d, x)' # {} => EntryOK(d, x)'
      BY <2>1, <2>2, SameEntries
    <2> QED
      BY <2>3 DEF Queued
  <1>4. Head(queue[c]) = <<"fetch", b>> /\ b \in Cells \cup {Nothing} /\ work[c] = "idle"
    BY <1>0, <1>1, Heads DEF Names, Types, Serve, Working, Stages, StageOK
  <1>5. \A a \in Cells : <<"fetch", a>> \in Entries /\ a # Nothing
    BY CellConstants DEF Entries
  <1>6. b \in Cells => /\ work[b] = "fetching" /\ c = Source(b) /\ b # c
                       /\ work'[b] = "fetched" /\ \A d \in Cells : At(d, <<"fetch", b>>)' = {}
    <2> SUFFICES ASSUME b \in Cells
                 PROVE  /\ work[b] = "fetching" /\ c = Source(b) /\ b # c
                        /\ work'[b] = "fetched" /\ \A d \in Cells : At(d, <<"fetch", b>>)' = {}
      OBVIOUS
    <2>1. 1 \in At(c, <<"fetch", b>>)
      BY <1>2, <1>4
    <2>2. work[b] = "fetching" /\ c = Source(b) /\ \A i, j \in At(c, <<"fetch", b>>) : i = j
      BY <2>1 DEF Names, Fetches, FetchOK
    <2>3. b # c
      BY <1>4, <2>2
    <2>4. work'[b] = "fetched"
      BY <1>0, <1>5 DEF Serve, Names, Types, TypeOK
    <2>5. \A d \in Cells : d # c => At(d, <<"fetch", b>>) = {}
      BY <2>2 DEF Names, Fetches, FetchOK
    <2>6. At(c, <<"fetch", b>>)' = {}
      <3>1. ASSUME NEW i \in At(c, <<"fetch", b>>)' PROVE FALSE
        <4>1. i \in Nat /\ i >= 1 /\ i + 1 \in At(c, <<"fetch", b>>)
          BY <1>2, <1>5, <3>1
        <4>2. i + 1 = 1
          BY <2>1, <2>2, <4>1
        <4> QED
          BY <4>1, <4>2
      <3> QED
        BY <3>1
    <2> QED
      BY <1>2, <1>5, <2>2, <2>3, <2>4, <2>5, <2>6
  <1>7. \A d \in Cells : d # b => work'[d] = work[d]
    BY <1>0, <1>4 DEF Serve, Names, Types, TypeOK
  <1>8. \A d \in Cells : d \notin {b, c} =>
           StageOK(d)' /\ (work[d] \in {"fetching", "fetched"} => Source(d)' = Source(d))
    BY <1>1, <1>2, <1>7, SameStage DEF Names, Stages, SameLife
  <1>9. StageOK(c)'
    BY <1>4, <1>6, <1>7 DEF StageOK
  <1>10. b \in Cells => StageOK(b)'
    <2> SUFFICES ASSUME b \in Cells PROVE StageOK(b)'
      OBVIOUS
    <2>1. StageOK(b) /\ queue'[b] = queue[b]
      BY <1>2, <1>6 DEF Names, Stages
    <2>2. HeadOf(b)' = HeadOf(b) /\ \A kind : Working(b, kind)' <=> Working(b, kind)
      BY <2>1 DEF HeadOf, Working
    <2>3. (Opening(b)' <=> Opening(b)) /\ (Publishing(b)' <=> Publishing(b))
      BY <1>1, <2>2 DEF Opening, Publishing, HeadCall, Op, NeedsFiles
    <2> QED
      BY <1>6, <2>1, <2>2, <2>3 DEF StageOK
  <1>11. ASSUME NEW a \in Cells, NEW d \in Cells PROVE FetchOK(a, d)'
    <2>1. FetchOK(a, d)
      BY DEF Names, Fetches
    <2>2. CASE a = b
      BY <1>6, <2>2 DEF FetchOK
    <2>3. CASE a # b
      <3>1. At(d, <<"fetch", a>>)' # {} => At(d, <<"fetch", a>>) # {}
        BY <1>2, <1>5
      <3>2. ASSUME NEW i \in At(d, <<"fetch", a>>)', NEW j \in At(d, <<"fetch", a>>)' PROVE i = j
        <4>1. CASE d # c
          BY <1>2, <1>5, <2>1, <3>2, <4>1 DEF FetchOK
        <4>2. CASE d = c
          <5>1. i \in Nat /\ j \in Nat /\ i + 1 \in At(c, <<"fetch", a>>) /\ j + 1 \in At(c, <<"fetch", a>>)
            BY <1>2, <1>5, <3>2, <4>2
          <5>2. i + 1 = j + 1
            BY <2>1, <4>2, <5>1 DEF FetchOK
          <5> QED
            BY <5>1, <5>2
        <4> QED
          BY <4>1, <4>2
      <3>3. ASSUME At(d, <<"fetch", a>>)' # {} PROVE work'[a] = "fetching" /\ d = Source(a)'
        <4>1. work[a] = "fetching" /\ d = Source(a)
          BY <2>1, <3>1, <3>3 DEF FetchOK
        <4>2. a # c
          BY <1>4, <4>1
        <4> QED
          BY <1>7, <1>8, <2>3, <4>1, <4>2
      <3> QED
        BY <3>2, <3>3 DEF FetchOK
    <2> QED
      BY <2>2, <2>3
  <1> QED
    BY <1>3, <1>8, <1>9, <1>10, <1>11 DEF Stages, Fetches

LEMMA QueuesAsking ==
    ASSUME Names, NEW c \in Cells, Asking(c)
    PROVE  Queued' /\ Stages' /\ Fetches'
  <1>0. PICK from : from = Source(c)
    OBVIOUS
  <1>1. /\ queue \in [Cells -> Seq(Entries)] /\ load' = load /\ mem' = mem /\ work[c] = "idle"
        /\ queue[c] # <<>> /\ ~Working(c, "fetch") /\ Working(c, "call")
        /\ work'[c] = "fetching" /\ \A d \in Cells : d # c => work'[d] = work[d]
        /\ from \in Cells /\ from # c /\ <<"fetch", c>> \in Entries
        /\ queue' = [queue EXCEPT ![from] = Append(queue[from], <<"fetch", c>>)]
    <2>1. from \in Cells /\ from # c
      BY <1>0, Sources DEF Names, Asking
    <2>2. queue[c] # <<>> /\ ~Working(c, "fetch") /\ Working(c, "call")
      BY DEF Asking, Working
    <2>3. work'[c] = "fetching" /\ \A d \in Cells : d # c => work'[d] = work[d]
      BY DEF Asking, Names, Types, TypeOK
    <2> QED
      BY <1>0, <2>1, <2>2, <2>3 DEF Asking, Names, Types, TypeOK, Entries
  <1>2. /\ \A d \in Cells, x \in Entries : ~(d = from /\ x = <<"fetch", c>>) => At(d, x)' = At(d, x)
        /\ At(from, <<"fetch", c>>)' = At(from, <<"fetch", c>>) \cup {Len(queue[from]) + 1}
        /\ \A d \in Cells : queue[d] # <<>> => queue'[d] # <<>> /\ Head(queue'[d]) = Head(queue[d])
        /\ \A d \in Cells : d # from => queue'[d] = queue[d]
    BY <1>1, AtPushed
  <1>3. Queued'
    <2>1. Queued /\ load' = load
      BY <1>1 DEF Names
    <2>2. EntryOK(from, <<"fetch", c>>)'
      BY DEF EntryOK
    <2>3. \A d \in Cells, x \in Entries : At(d, x)' # {} => EntryOK(d, x)'
      BY <1>2, <2>1, <2>2, SameEntries
    <2> QED
      BY <2>3 DEF Queued
  <1>4. \A d \in Cells : d # c =>
           StageOK(d)' /\ (work[d] \in {"fetching", "fetched"} => Source(d)' = Source(d))
    BY <1>1, <1>2, SameStage DEF Names, Stages, SameLife
  <1>5. StageOK(c)' /\ Source(c)' = from
    <2>1. queue'[c] = queue[c]
      BY <1>1, <1>2
    <2>2. HeadOf(c)' = HeadOf(c) /\ \A kind : Working(c, kind)' <=> Working(c, kind)
      BY <2>1 DEF HeadOf, Working
    <2>3. (Opening(c)' <=> Opening(c)) /\ (Publishing(c)' <=> Publishing(c)) /\ Source(c)' = Source(c)
      BY <1>1, <2>2 DEF Opening, Publishing, HeadCall, Op, NeedsFiles, Source
    <2> QED
      BY <1>0, <1>1, <2>1, <2>2, <2>3 DEF StageOK, Asking
  <1>6. \A a \in Cells : <<"fetch", a>> \in Entries
    BY DEF Entries
  <1>7. \A d \in Cells : At(d, <<"fetch", c>>) = {}
    BY <1>1 DEF Names, Fetches, FetchOK
  <1>8. ASSUME NEW a \in Cells, NEW d \in Cells PROVE FetchOK(a, d)'
    <2>1. FetchOK(a, d)
      BY DEF Names, Fetches
    <2>2. CASE a = c
      <3>1. CASE d = from
        <4>1. At(d, <<"fetch", a>>)' = {Len(queue[from]) + 1}
          BY <1>2, <1>7, <2>2, <3>1
        <4> QED
          BY <1>1, <1>5, <2>2, <3>1, <4>1 DEF FetchOK
      <3>2. CASE d # from
        <4>1. At(d, <<"fetch", a>>)' = {}
          BY <1>2, <1>6, <1>7, <2>2, <3>2
        <4> QED
          BY <4>1 DEF FetchOK
      <3> QED
        BY <3>1, <3>2
    <2>3. CASE a # c
      <3>1. At(d, <<"fetch", a>>)' = At(d, <<"fetch", a>>)
        <4>1. <<"fetch", a>> # <<"fetch", c>>
          BY <2>3
        <4> QED
          BY <1>2, <1>6, <4>1
      <3> QED
        BY <1>1, <1>4, <2>1, <2>3, <3>1 DEF FetchOK
    <2> QED
      BY <2>2, <2>3
  <1> QED
    BY <1>3, <1>4, <1>5, <1>8 DEF Stages, Fetches

LEMMA QueuesCrash ==
    ASSUME Names, NEW c \in Cells, Crash(c)
    PROVE  /\ Queued' /\ Stages' /\ Fetches'
           /\ work'[c] = "idle"
           /\ \A d \in Cells : d # c =>
                \/ work'[d] = work[d] /\ held'[d] = held[d]
                \/ work[d] = "fetching" /\ work'[d] = "fetched" /\ held'[d] = Empty
  <1>1. /\ queue \in [Cells -> Seq(Entries)] /\ load' = load /\ \A d \in Cells : d # c => mem'[d] = mem[d]
        /\ work'[c] = "idle"
        /\ queue' = [d \in Cells |-> IF d = c THEN <<>> ELSE Orphaned(queue[d], c)]
    BY DEF Names, Types, TypeOK, Crash
  <1>2. /\ queue'[c] = <<>> /\ \A x : At(c, x)' = {}
        /\ \A d \in Cells : d # c =>
             /\ \A x \in Entries : x[1] # "fetch" => At(d, x)' = At(d, x)
             /\ \A a \in Cells : a # c => At(d, <<"fetch", a>>)' = At(d, <<"fetch", a>>)
             /\ At(d, <<"fetch", c>>)' = {}
             /\ queue[d] # <<>> =>
                  /\ queue'[d] # <<>>
                  /\ Head(queue'[d]) = IF Head(queue[d]) = <<"fetch", c>> THEN <<"fetch", Nothing>>
                                       ELSE Head(queue[d])
    BY <1>1, AtCrashed
  <1>3. Queued'
    <2>1. Queued /\ load' = load
      BY <1>1 DEF Names
    <2>2. ASSUME NEW d \in Cells, NEW x \in Entries, At(d, x)' # {} PROVE EntryOK(d, x)'
      <3>1. CASE x[1] = "fetch"
        BY <3>1 DEF EntryOK
      <3>2. CASE x[1] # "fetch"
        <4>1. At(d, x) # {}
          BY <1>2, <2>2, <3>2
        <4> QED
          BY <2>1, <2>2, <4>1, SameEntries
      <3> QED
        BY <3>1, <3>2
    <2> QED
      BY <2>2 DEF Queued
  <1>4. \A d \in Cells : d # c =>
                \/ work'[d] = work[d] /\ held'[d] = held[d] /\ At(c, <<"fetch", d>>) = {}
                \/ work[d] = "fetching" /\ work'[d] = "fetched" /\ held'[d] = Empty
    <2> SUFFICES ASSUME NEW d \in Cells, d # c
                 PROVE  \/ work'[d] = work[d] /\ held'[d] = held[d] /\ At(c, <<"fetch", d>>) = {}
                        \/ work[d] = "fetching" /\ work'[d] = "fetched" /\ held'[d] = Empty
      OBVIOUS
    <2> DEFINE asks == work[d] = "fetching" /\ <<"fetch", d>> \in ToSet(queue[c])
    <2>1. /\ work'[d] = IF asks THEN "fetched" ELSE work[d]
          /\ held'[d] = IF asks THEN Empty ELSE held[d]
      BY DEF Crash
    <2>2. ~asks => At(c, <<"fetch", d>>) = {}
      <3>1. At(c, <<"fetch", d>>) # {} => work[d] = "fetching"
        BY DEF Names, Fetches, FetchOK
      <3>2. At(c, <<"fetch", d>>) # {} => <<"fetch", d>> \in ToSet(queue[c])
        BY <1>1 DEF At, ToSet
      <3> QED
        BY <3>1, <3>2
    <2> HIDE DEF asks
    <2>3. asks => work[d] = "fetching"
      BY DEF asks
    <2> QED
      BY <2>1, <2>2, <2>3
  <1>5. ASSUME NEW d \in Cells, d # c
        PROVE  StageOK(d)' /\ (work[d] \in {"fetching", "fetched"} => Source(d)' = Source(d))
    <2>1. StageOK(d)
      BY DEF Names, Stages
    <2>2. CASE work[d] = "idle"
      <3>1. work'[d] = "idle"
        BY <1>4, <1>5, <2>2
      <3> QED
        BY <2>2, <3>1 DEF StageOK
    <2>3. CASE work[d] # "idle"
      <3>1. queue[d] # <<>> /\ ~Working(d, "fetch")
        BY <2>1, <2>3 DEF StageOK
      <3>2. Head(queue[d]) # <<"fetch", c>>
        BY <3>1 DEF Working
      <3>3. queue'[d] # <<>> /\ Head(queue'[d]) = Head(queue[d])
        BY <1>2, <1>5, <3>1, <3>2
      <3>4. HeadOf(d)' = HeadOf(d) /\ \A kind : Working(d, kind)' <=> Working(d, kind)
        BY <3>1, <3>3 DEF HeadOf, Working
      <3>5. \A op : HeadCall(d, op)' <=> HeadCall(d, op)
        BY <1>1, <3>4 DEF HeadCall, Op
      <3>6. mem'[d] = mem[d]
        BY <1>1, <1>5
      <3>7. (Opening(d)' <=> Opening(d)) /\ (Publishing(d)' <=> Publishing(d)) /\ Source(d)' = Source(d)
        BY <1>1, <3>4, <3>5, <3>6 DEF Opening, Publishing, Source, NeedsFiles
      <3> QED
        BY <1>4, <1>5, <2>1, <2>3, <3>1, <3>3, <3>4, <3>7 DEF StageOK
    <2> QED
      BY <2>2, <2>3
  <1>6. StageOK(c)'
    BY <1>1 DEF StageOK
  <1>7. ASSUME NEW a \in Cells, NEW d \in Cells PROVE FetchOK(a, d)'
    <2>1. FetchOK(a, d)
      BY DEF Names, Fetches
    <2>2. CASE d = c \/ a = c
      <3>1. At(d, <<"fetch", a>>)' = {}
        BY <1>2, <2>2
      <3> QED
        BY <3>1 DEF FetchOK
    <2>3. CASE d # c /\ a # c
      <3>1. At(d, <<"fetch", a>>)' = At(d, <<"fetch", a>>)
        BY <1>2, <2>3
      <3>2. ASSUME At(d, <<"fetch", a>>) # {} PROVE work'[a] = "fetching" /\ d = Source(a)'
        <4>1. work[a] = "fetching" /\ d = Source(a)
          BY <2>1, <3>2 DEF FetchOK
        <4>2. At(c, <<"fetch", a>>) = {}
          BY <2>3, <4>1 DEF Names, Fetches, FetchOK
        <4>3. <<"fetch", a>> \notin ToSet(queue[c])
          <5>1. queue[c] \in Seq(Entries)
            BY <1>1
          <5>2. DOMAIN queue[c] = 1..Len(queue[c])
            BY <5>1
          <5>3. ASSUME NEW i \in DOMAIN queue[c], queue[c][i] = <<"fetch", a>> PROVE FALSE
            BY <4>2, <5>2, <5>3 DEF At
          <5> QED
            BY <5>3 DEF ToSet
        <4>4. work'[a] = work[a]
          BY <2>3, <4>3 DEF Crash
        <4> QED
          BY <1>5, <2>3, <4>1, <4>4
      <3> QED
        BY <2>1, <3>1, <3>2 DEF FetchOK
    <2> QED
      BY <2>2, <2>3
  <1> QED
    BY <1>1, <1>3, <1>4, <1>5, <1>6, <1>7 DEF Stages, Fetches

\* open, publish and write are accepted.
Enqueues(k) ==
    LET c == Cell(k) IN
    /\ calls[k].st = "sent" /\ Op(k) \in {"open", "publish", "write"}
    /\ queue' = [queue EXCEPT ![c] = Append(queue[c], <<"call", k>>)]
    /\ calls' = [calls EXCEPT ![k].st = "queued"]
    /\ UNCHANGED <<load, mem, disk, work, held, stopping, aborted, lastGen, bounds, history>>

\* The kinds of steps.
ClientStep(k) ==
    \/ \E h \in Calls \cup {Nothing} : Send(k, h)
    \/ Drop(k) \/ Deliver(k) \/ (calls[k].st = "sent" /\ Refuse(k)) \/ Replays(k)

AcceptStep(k) == Enqueues(k) \/ Stopping(k) \/ \E n : Accepts(k, n) \/ CancelsEarly(k, n)

WorkStep(c) ==
    \/ Flush(c) \/ Settle(c) \/ Serve(c) \/ Asking(c) \/ Starts(c) \/ Commits(c) \/ Crash(c)
    \/ \E s, r : Done(c, s, r) /\ Stores(c, s)
    \/ \E r : Halts(c, r)

LEMMA Kinds ==
    ASSUME TypeOK, [Next]_vars
    PROVE  \/ \E k \in Calls : ClientStep(k) \/ AcceptStep(k)
           \/ \E c \in Cells : WorkStep(c)
           \/ UNCHANGED vars
  <1>1. ASSUME NEW k \in Calls, NEW h \in Calls \cup {Nothing}, Send(k, h) PROVE ClientStep(k)
    BY <1>1 DEF ClientStep
  <1>2. ASSUME NEW k \in Calls, Drop(k) \/ Deliver(k) PROVE ClientStep(k)
    BY <1>2 DEF ClientStep
  <1>3. ASSUME NEW k \in Calls, Receive(k) PROVE ClientStep(k) \/ AcceptStep(k)
    <2>1. CASE ReceiveQueued(k)
      <3>1. (calls[k].st = "sent" /\ Refuse(k)) \/ Enqueues(k)
        BY <2>1 DEF ReceiveQueued, Enqueues
      <3> QED
        BY <3>1 DEF ClientStep, AcceptStep
    <2>2. CASE ReceiveCommand(k)
      <3>1. \/ (calls[k].st = "sent" /\ Refuse(k)) \/ Replays(k)
            \/ \E n : Accepts(k, n) \/ CancelsEarly(k, n)
        BY <2>2, CommandCases
      <3> QED
        BY <3>1 DEF ClientStep, AcceptStep
    <2>3. CASE ReceiveStop(k)
      <3>1. (calls[k].st = "sent" /\ Refuse(k)) \/ Stopping(k)
        BY <2>3, StopCases
      <3> QED
        BY <3>1 DEF ClientStep, AcceptStep
    <2> QED
      BY <1>3, <2>1, <2>2, <2>3 DEF Receive
  <1>4. ASSUME NEW c \in Cells, Runs(c) PROVE WorkStep(c)
    BY <1>4 DEF Runs, WorkStep
  <1>5. ASSUME NEW c \in Cells, CellStep(c) PROVE WorkStep(c)
    <2>1. CASE RunOpen(c)
      BY <1>4, <2>1, OpenRuns
    <2>2. CASE OpenFetched(c)
      BY <1>4, <2>2, OpenFetchedRuns
    <2>3. CASE RunPublish(c)
      BY <1>4, <2>3, PublishRuns
    <2>4. CASE PublishFetched(c)
      BY <1>4, <2>4, PublishFetchedRuns
    <2>5. CASE RunWrite(c)
      BY <1>4, <2>5, WriteRuns
    <2>6. CASE RunStop(c)
      BY <1>4, <2>6, StopRuns
    <2>7. CASE StartCommand(c)
      <3>1. Starts(c) \/ \E r : Halts(c, r)
        BY <2>7, StartCases
      <3> QED
        BY <3>1 DEF WorkStep
    <2>8. CASE CommitCommand(c)
      <3>1. Commits(c)
        BY <2>8, CommitCases
      <3> QED
        BY <3>1 DEF WorkStep
    <2>9. ASSUME NEW r, FailCommand(c, r) PROVE WorkStep(c)
      <3>1. Halts(c, r)
        BY <2>9, FailCases
      <3> QED
        BY <3>1 DEF WorkStep
    <2>10. CASE Flush(c) \/ Settle(c) \/ Serve(c)
      BY <2>10 DEF WorkStep
    <2> QED
      BY <1>5, <2>1, <2>2, <2>3, <2>4, <2>5, <2>6, <2>7, <2>8, <2>9, <2>10 DEF CellStep
  <1>6. ASSUME NEW c \in Cells, Crash(c) PROVE WorkStep(c)
    BY <1>6 DEF WorkStep
  <1> QED
    BY <1>1, <1>2, <1>3, <1>5, <1>6 DEF Next

LEMMA TypesEnqueues ==
    ASSUME Types, NEW k \in Calls, Enqueues(k)
    PROVE  Types' /\ Cell(k) \in Cells /\ Made(k) /\ <<"call", k>> \in Entries
  <1>1. calls[k].st = "sent" /\ Cell(k) \in Cells /\ Made(k) /\ load' = load
    BY Asks DEF Enqueues, Types, TypeOK, Asked
  <1>2. <<"call", k>> \in Entries
    BY DEF Entries
  <1>3. queue' \in [Cells -> Seq(Entries)]
    BY <1>1, <1>2, AtPushed DEF Enqueues, Types, TypeOK
  <1>4. calls' \in [Calls -> Requests] /\ Asked'
    BY <1>1, TypesMoves DEF Enqueues
  <1> QED
    BY <1>1, <1>2, <1>3, <1>4 DEF Types, TypeOK, Enqueues, bounds, history

LEMMA AcceptFacts ==
    ASSUME Types, NEW k \in Calls, AcceptStep(k)
    PROVE  /\ calls[k].st = "sent" /\ Made(k) /\ Cell(k) \in Cells /\ Op(k) \in Ops
           /\ Command(k) \in Calls
           /\ Op(k) \in {"execute", "cancel"} => Executes(Command(k)) /\ Cell(Command(k)) = Cell(k)
           /\ <<"call", k>> \in Entries /\ <<"command", k>> \in Entries /\ load' = load
           /\ mem[Cell(k)] \in Storages
  <1>1. calls[k].st = "sent" /\ load' = load
    BY DEF AcceptStep, Enqueues, Stopping, Accepts, CancelsEarly
  <1>2. Made(k) /\ load \in Workloads
    BY <1>1 DEF Types, TypeOK, Asked
  <1>3. Cell(k) \in Cells /\ Op(k) \in Ops /\ Command(k) \in Calls
    BY <1>2, Asks DEF Command
  <1>4. Op(k) \in {"execute", "cancel"} => Executes(Command(k)) /\ Cell(Command(k)) = Cell(k)
    BY <1>2, Asks DEF Command, Executes
  <1> QED
    BY <1>1, <1>2, <1>3, <1>4 DEF Types, TypeOK, Entries

\* The storage of a cell after a step that accepts a request.
LEMMA AcceptStorage ==
    ASSUME Types, NEW k \in Calls, AcceptStep(k)
    PROVE  /\ \A d \in Cells : SameLife(mem[d], mem'[d]) /\ mem'[d].fs = mem[d].fs
           /\ \A d \in Cells : d # Cell(k) => mem'[d] = mem[d]
           /\ work' = work /\ held' = held /\ disk' = disk /\ lastGen' = lastGen /\ ran' = ran
           /\ forgotten \subseteq forgotten'
  <1> DEFINE c == Cell(k)
             m == Command(k)
             z == mem[c]
  <1>1. c \in Cells /\ m \in Calls /\ z \in Storages
    BY AcceptFacts
  <1>2. PICK s : mem' = [mem EXCEPT ![c] = s] /\ SameLife(z, s) /\ s.fs = z.fs
    <2>1. CASE Enqueues(k)
      <3>1. mem' = [mem EXCEPT ![c] = z]
        BY <2>1 DEF Enqueues, Types, TypeOK
      <3> QED
        BY <3>1 DEF SameLife
    <2>2. CASE Stopping(k)
      <3> DEFINE s == [z EXCEPT !.stopped = TRUE]
      <3>1. mem' = [mem EXCEPT ![c] = s]
        BY <1>1, <2>2 DEF Stopping, Types, TypeOK
      <3>2. SameLife(z, s) /\ s.fs = z.fs
        <4> HIDE DEF z
        <4> QED
          BY <1>1 DEF SameLife, Storages
      <3> QED
        BY <3>1, <3>2
    <2>3. ASSUME NEW n, Accepts(k, n) PROVE \E s : mem' = [mem EXCEPT ![c] = s] /\ SameLife(z, s) /\ s.fs = z.fs
      <3>1. mem' = [mem EXCEPT ![c] = Inserted(z, n, k)]
        BY <2>3 DEF Accepts
      <3>2. SameLife(z, Inserted(z, n, k)) /\ Inserted(z, n, k).fs = z.fs
        BY <1>1, Insertions DEF SameLife
      <3> QED
        BY <3>1, <3>2
    <2>4. ASSUME NEW n, CancelsEarly(k, n)
          PROVE  \E s : mem' = [mem EXCEPT ![c] = s] /\ SameLife(z, s) /\ s.fs = z.fs
      <3>1. m = load[k].target
        BY <2>4 DEF Command, CancelsEarly
      <3>2. mem' = [mem EXCEPT ![c] = SetState(Inserted(z, n, m), m, "cancelled")]
        BY <2>4, <3>1 DEF CancelsEarly
      <3>3. Inserted(z, n, m) \in Storages /\ SameLife(z, Inserted(z, n, m)) /\ Inserted(z, n, m).fs = z.fs
        BY <1>1, Insertions DEF SameLife
      <3>4. "cancelled" \in States
        BY DEF States, Results
      <3> DEFINE i == Inserted(z, n, m)
      <3>5. SetState(i, m, "cancelled").gen = i.gen /\ SetState(i, m, "cancelled").deleted = i.deleted
             /\ SetState(i, m, "cancelled").fs = i.fs
        BY <1>1, <3>3, <3>4, SetStates
      <3> QED
        BY <3>2, <3>3, <3>5 DEF SameLife
    <2> QED
      BY <2>1, <2>2, <2>3, <2>4 DEF AcceptStep
  <1>3. \A d \in Cells : mem'[d] = IF d = c THEN s ELSE mem[d]
    BY <1>2 DEF Types, TypeOK
  <1>4. work' = work /\ held' = held /\ disk' = disk /\ lastGen' = lastGen /\ ran' = ran
        /\ forgotten \subseteq forgotten'
    BY DEF AcceptStep, Enqueues, Stopping, Accepts, CancelsEarly, history
  <1> QED
    BY <1>2, <1>3, <1>4 DEF SameLife

LEMMA NamesAccept ==
    ASSUME Names, NEW k \in Calls, AcceptStep(k)
    PROVE  Names'
  <1>1. Types /\ load' = load /\ work' = work /\ \A d \in Cells : SameLife(mem[d], mem'[d])
    BY AcceptStorage, AcceptFacts DEF Names
  <1>2. CASE Enqueues(k)
    <2>1. Types'
      BY <1>1, <1>2, TypesEnqueues
    <2>2. EntryOK(Cell(k), <<"call", k>>)
      BY <1>1, <1>2, TypesEnqueues DEF EntryOK, Enqueues
    <2> QED
      BY <1>1, <1>2, <2>1, <2>2, QueuesPush, AcceptFacts DEF Names, Enqueues
  <1>3. CASE Stopping(k)
    <2>1. Types'
      BY <1>1, <1>3, TypesStopping
    <2>2. EntryOK(Cell(k), <<"call", k>>)
      BY <1>1, <1>3, AcceptFacts DEF EntryOK, Stopping
    <2> QED
      BY <1>1, <1>3, <2>1, <2>2, QueuesPush, AcceptFacts DEF Names, Stopping
  <1>4. ASSUME NEW n, Accepts(k, n) PROVE Names'
    <2>1. Types'
      BY <1>1, <1>4, TypesAccepts
    <2>2. EntryOK(Cell(k), <<"command", k>>)
      BY <1>1, <1>4, AcceptFacts DEF EntryOK, Accepts, Command
    <2> QED
      BY <1>1, <1>4, <2>1, <2>2, QueuesPush, AcceptFacts DEF Names, Accepts
  <1>5. ASSUME NEW n, CancelsEarly(k, n) PROVE Names'
    <2>1. Types'
      BY <1>1, <1>5, TypesCancelsEarly
    <2> QED
      BY <1>1, <1>5, <2>1, QueuesSame DEF Names, CancelsEarly
  <1> QED
    BY <1>2, <1>3, <1>4, <1>5 DEF AcceptStep

LEMMA NamesClient ==
    ASSUME Names, NEW k \in Calls, ClientStep(k)
    PROVE  Names'
  <1>1. UNCHANGED <<load, mem, disk, queue, work, held, lastGen, ran, forgotten>>
    BY DEF ClientStep, Send, Drop, Deliver, Refuse, Replays, history
  <1>2. Types'
    BY TypesSend, TypesDrop, TypesDeliver, TypesRefuse, TypesReplays DEF ClientStep, Names
  <1>3. Queued' /\ Stages' /\ Fetches'
    BY <1>1, QueuesSame DEF SameLife
  <1> QED
    BY <1>2, <1>3 DEF Names

LEMMA NamesWork ==
    ASSUME Names, NEW c \in Cells, WorkStep(c)
    PROVE  Names'
  <1>0. Types /\ Queued /\ Stages
    BY DEF Names
  <1>1. CASE Flush(c)
    BY <1>0, <1>1, TypesFlush, QueuesSame DEF Names, Flush, SameLife
  <1>2. CASE Settle(c)
    BY <1>0, <1>2, TypesSettle, QueuesSettle DEF Names
  <1>3. CASE Serve(c)
    BY <1>0, <1>3, TypesServe, QueuesServe DEF Names
  <1>4. CASE Asking(c)
    BY <1>0, <1>4, TypesRuns, QueuesAsking DEF Names, Runs
  <1>5. CASE Starts(c)
    <2>1. \A d \in Cells : d # c => mem'[d] = mem[d]
      BY <1>0, <1>5 DEF Starts, Types, TypeOK
    <2> QED
      BY <1>0, <1>5, <2>1, TypesStarts, QueuesWork DEF Names, Starts, SameLife
  <1>6. CASE Commits(c)
    <2>1. \A d \in Cells : d # c => mem'[d] = mem[d]
      BY <1>0, <1>6 DEF Commits, Types, TypeOK
    <2> QED
      BY <1>0, <1>6, <2>1, TypesCommits, QueuesWork DEF Names, Commits, SameLife
  <1>7. CASE Crash(c)
    BY <1>0, <1>7, TypesCrash, QueuesCrash DEF Names
  <1>8. ASSUME NEW s, NEW r, Done(c, s, r), Stores(c, s) PROVE Names'
    <2>1. \A d \in Cells : d # c => mem'[d] = mem[d]
      BY <1>0, <1>8 DEF Done, Types, TypeOK
    <2>2. Types'
      BY <1>0, <1>8, TypesRuns DEF Runs
    <2> QED
      BY <1>0, <1>8, <2>1, <2>2, QueuesWork DEF Names, Done, SameLife
  <1>9. ASSUME NEW r, Halts(c, r) PROVE Names'
    <2>1. \A d \in Cells : d # c => mem'[d] = mem[d]
      BY <1>0, <1>9 DEF Halts, Types, TypeOK
    <2> QED
      BY <1>0, <1>9, <2>1, TypesHalts, QueuesWork DEF Names, Halts, SameLife
  <1> QED
    BY <1>1, <1>2, <1>3, <1>4, <1>5, <1>6, <1>7, <1>8, <1>9 DEF WorkStep

LEMMA NamesInit == Init => Names
  <1> SUFFICES ASSUME Init PROVE Names
    OBVIOUS
  <1>1. \A c \in Cells : \A e : At(c, e) = {}
    BY DEF Init, At
  <1>2. \A c \in Cells : work[c] = "idle"
    BY DEF Init
  <1> QED
    BY <1>1, <1>2, TypesInit DEF Names, Queued, Stages, StageOK, Fetches, FetchOK

LEMMA NamesStep == Names /\ [Next]_vars => Names'
  <1> SUFFICES ASSUME Names, [Next]_vars PROVE Names'
    OBVIOUS
  <1>1. CASE UNCHANGED vars
    <2>1. UNCHANGED <<load, queue, work, mem>> /\ Types'
      BY <1>1 DEF vars, Names, Types, TypeOK, Asked, Made
    <2> QED
      BY <2>1, QueuesSame DEF Names, SameLife
  <1> QED
    BY <1>1, Kinds, NamesClient, NamesAccept, NamesWork DEF Names, Types
\* The state always has its type: every queue, request, storage and journal row
\* stays well-formed through crashes, lost connections and retries.
THEOREM CellTypes == Spec => []TypeOK
  <1>1. Names => TypeOK
    BY DEF Names, Types
  <1> QED
    BY <1>1, NamesInit, NamesStep, PTL DEF Spec

-----------------------------------------------------------------------------
(* What a step does to the storage of a cell *)

\* Nothing but marks and the journal, and perhaps a flush.
Rests(d) ==
    /\ SameLife(mem[d], mem'[d]) /\ mem'[d].fs = mem[d].fs /\ lastGen'[d] = lastGen[d]
    /\ disk'[d] = disk[d] \/ (disk'[d] = mem[d] /\ mem'[d] = mem[d])

\* It goes back to disk.
Reverts(d) ==
    SameLife(disk[d], mem'[d]) /\ mem'[d].fs = disk[d].fs /\ disk'[d] = disk[d] /\ lastGen'[d] = lastGen[d]

\* It takes the changes of the head.
Grows(d) ==
    /\ SameLife(mem[d], mem'[d]) /\ mem'[d].fs = mem[d].fs \cup {HeadOf(d)}
    /\ Made(HeadOf(d)) /\ Cell(HeadOf(d)) = d /\ KindOf[d] # "template"
    /\ disk'[d] = disk[d] /\ lastGen'[d] = lastGen[d]

\* It starts a new generation.
Begins(d) ==
    /\ mem'[d].gen = lastGen[d] + 1 /\ lastGen'[d] = lastGen[d] + 1 /\ ~mem'[d].deleted
    /\ \/ /\ mem'[d].fs = {} /\ KindOf[d] # "template"
          /\ KindOf[d] = "build" \/ TemplateOf[d] = Nothing
       \/ work[d] = "fetched" /\ held[d].ok /\ mem'[d].fs = held[d].fs
    /\ disk'[d] = disk[d]

\* It is deleted.
Ends(d) ==
    /\ mem'[d].gen = mem[d].gen /\ mem'[d].deleted /\ mem'[d].fs = {} /\ KindOf[d] # "template"
    /\ disk'[d] = disk[d] /\ lastGen'[d] = lastGen[d]

LEMMA StoreMoves ==
    ASSUME Names, Files, [Next]_vars, NEW d \in Cells
    PROVE  Rests(d) \/ Reverts(d) \/ Grows(d) \/ Begins(d) \/ Ends(d)
  <1>0. Types /\ Queued /\ TypeOK /\ mem[d] \in Storages /\ disk[d] \in Storages
    BY DEF Names, Types, TypeOK
  <1>1. CASE mem' = mem /\ disk' = disk /\ lastGen' = lastGen
    BY <1>1 DEF Rests, SameLife
  <1>2. ASSUME NEW k \in Calls, ClientStep(k) PROVE Rests(d)
    BY <1>2 DEF ClientStep, Send, Drop, Deliver, Refuse, Replays, Rests, SameLife
  <1>3. ASSUME NEW k \in Calls, AcceptStep(k) PROVE Rests(d)
    BY <1>0, <1>3, AcceptStorage DEF Rests
  <1>4. ASSUME NEW c \in Cells, WorkStep(c), c # d PROVE Rests(d)
    <2>1. mem'[d] = mem[d] /\ disk'[d] = disk[d] /\ lastGen'[d] = lastGen[d]
      <3>1. CASE Flush(c) \/ Settle(c) \/ Serve(c) \/ Asking(c) \/ Crash(c)
        BY <1>0, <1>4, <3>1 DEF Flush, Settle, Serve, Asking, Crash, TypeOK
      <3>2. CASE Starts(c) \/ Commits(c) \/ \E r : Halts(c, r)
        BY <1>0, <1>4, <3>2 DEF Starts, Commits, Halts, TypeOK
      <3>3. ASSUME NEW s, NEW r, Done(c, s, r), Stores(c, s)
            PROVE  mem'[d] = mem[d] /\ disk'[d] = disk[d] /\ lastGen'[d] = lastGen[d]
        <4>1. lastGen' = lastGen \/ lastGen' = [lastGen EXCEPT ![c] = lastGen[c] + 1]
          BY <3>3 DEF Stores, Keeps, Creates, Writes, Deletes
        <4> QED
          BY <1>0, <1>4, <3>3, <4>1 DEF Done, TypeOK
      <3> QED
        BY <1>4, <3>1, <3>2, <3>3 DEF WorkStep
    <2> QED
      BY <2>1 DEF Rests, SameLife
  <1>5. ASSUME WorkStep(d) PROVE Rests(d) \/ Reverts(d) \/ Grows(d) \/ Begins(d) \/ Ends(d)
    <2>1. CASE Flush(d)
      BY <1>0, <2>1 DEF Flush, Rests, SameLife, TypeOK
    <2>2. CASE Settle(d) \/ Serve(d) \/ Asking(d)
      BY <1>1, <2>2 DEF Settle, Serve, Asking
    <2>3. CASE Starts(d) \/ \E r : Halts(d, r)
      <3>1. PICK r \in States : mem' = [mem EXCEPT ![d] = SetState(mem[d], HeadOf(d), r)]
        BY <2>3 DEF Starts, Halts, States, Results
      <3>2. HeadOf(d) \in Calls /\ disk' = disk /\ lastGen' = lastGen
        BY <1>0, <2>3, HeadMade DEF Starts, Halts
      <3>3. mem'[d] = SetState(mem[d], HeadOf(d), r)
        BY <1>0, <3>1 DEF TypeOK
      <3> QED
        BY <1>0, <3>2, <3>3, SetStates DEF Rests, SameLife
    <2>4. CASE Commits(d)
      <3>1. mem'[d] = Committed(d)
        BY <1>0, <2>4, CommitStorage DEF TypeOK
      <3>2. held[d].fs = mem[d].fs /\ disk' = disk /\ lastGen' = lastGen
        BY <2>4 DEF Commits, Files
      <3>3. /\ Executes(HeadOf(d)) /\ Cell(HeadOf(d)) = d /\ KindOf[d] # "template"
        BY <1>0, <2>4, HeadMade DEF Commits
      <3> QED
        BY <1>0, <2>4, <3>1, <3>2, <3>3, CommitStorage DEF Grows, SameLife, Executes
    <2>5. CASE Crash(d)
      <3>1. mem'[d] = Restarted(disk[d]) /\ disk' = disk /\ lastGen' = lastGen
        BY <1>0, <2>5 DEF Crash, TypeOK
      <3> QED
        BY <1>0, <3>1, Restarts DEF Reverts, SameLife
    <2>6. ASSUME NEW s, NEW r, Done(d, s, r), Stores(d, s)
          PROVE  Rests(d) \/ Grows(d) \/ Begins(d) \/ Ends(d)
      <3>1. mem'[d] = s /\ disk' = disk /\ lastGen[d] + 1 \in Nat /\ mem[d].fs \subseteq Calls
        BY <1>0, <2>6, StorageFields DEF Done, TypeOK
      <3>2. /\ HeadOf(d) \in Calls /\ Made(HeadOf(d)) /\ Cell(HeadOf(d)) = d
        BY <1>0, <2>6, HeadMade DEF Done
      <3>3. CASE Keeps(d, s)
        <4> DEFINE z == mem[d]
        <4>1. z \in Storages /\ s \in {z, [z EXCEPT !.stopped = FALSE]} /\ lastGen' = lastGen
          BY <1>0, <3>3 DEF Keeps
        <4>2. SameLife(z, s) /\ s.fs = z.fs
          <5> HIDE DEF z
          <5> QED
            BY <4>1 DEF SameLife, Storages
        <4> QED
          BY <3>1, <4>1, <4>2 DEF Rests
      <3>4. CASE Creates(d, s)
        <4>1. PICK fs \in SUBSET Calls :
                /\ s = Recreated(mem[d], fs, lastGen[d] + 1)
                /\ lastGen' = [lastGen EXCEPT ![d] = lastGen[d] + 1]
                /\ \/ /\ work[d] = "idle" /\ NeedsFiles(d) /\ fs = {} /\ KindOf[d] # "template"
                      /\ KindOf[d] = "build" \/ TemplateOf[d] = Nothing
                   \/ work[d] = "fetched" /\ held[d].ok /\ fs = held[d].fs
          BY <3>4 DEF Creates
        <4>2. s.gen = lastGen[d] + 1 /\ ~s.deleted /\ s.fs = fs
          BY <1>0, <3>1, <4>1, Recreations
        <4>3. lastGen'[d] = lastGen[d] + 1
          BY <1>0, <4>1 DEF TypeOK
        <4> QED
          BY <3>1, <4>1, <4>2, <4>3 DEF Begins
      <3>5. CASE Writes(d, s)
        <4>1. s.fs = mem[d].fs \cup {HeadOf(d)} /\ s.gen = mem[d].gen /\ s.deleted = mem[d].deleted
          BY <1>0, <3>1, <3>2, <3>5, SavedFiles DEF Writes
        <4> QED
          BY <3>1, <3>2, <3>5, <4>1 DEF Grows, SameLife, Writes
      <3>6. CASE Deletes(d, s)
        <4>1. KindOf[d] # "template"
          <5>1. Head(queue[d]) = <<"call", HeadOf(d)>> /\ queue[d] # <<>>
            BY <1>0, <2>6, HeadMade DEF Done, Working
          <5>2. EntryOK(d, <<"call", HeadOf(d)>>)
            BY <1>0, <5>1, AtHead DEF Queued, TypeOK
          <5> QED
            BY <3>6, <5>2 DEF EntryOK, Deletes
        <4>2. s.gen = mem[d].gen /\ s.deleted /\ s.fs = {}
          BY <1>0, <3>6, Wipes DEF Deletes
        <4> QED
          BY <3>1, <3>6, <4>1, <4>2 DEF Ends, Deletes
      <3> QED
        BY <2>6, <3>3, <3>4, <3>5, <3>6 DEF Stores
    <2> QED
      BY <1>5, <2>1, <2>2, <2>3, <2>4, <2>5, <2>6 DEF WorkStep
  <1>6. CASE UNCHANGED vars
    BY <1>1, <1>6 DEF vars
  <1> QED
    BY <1>0, <1>2, <1>3, <1>4, <1>5, <1>6, Kinds
(* What a step does to a request: it is sent; or it goes on, or an open ends. *)
Sends(j) == \E h \in Calls \cup {Nothing} : Send(j, h)

Continues(j) ==
    /\ calls'[j].via = calls[j].via
    /\ calls'[j].st = "idle" <=> calls[j].st = "idle"
    /\ calls[j].st \in {"idle", "done"} => calls'[j] = calls[j]
    /\ \/ calls'[j].gen = calls[j].gen
       \/ Made(j) /\ Op(j) = "open" /\ Cell(j) \in Cells /\ calls'[j].gen = disk[Cell(j)].gen
                  /\ calls'[j].gen = mem[Cell(j)].gen

\* The requests that the work on the head of a queue answers.
LEMMA Waiters ==
    ASSUME Names, NEW c \in Cells, work[c] = "settling", NEW k \in Waiting(c)
    PROVE  /\ k \in Calls /\ Made(k) /\ Cell(k) = c
           /\ Working(c, "command") => /\ calls[k].st = "joined" /\ Op(k) \in {"execute", "cancel"}
                                       /\ Command(k) = HeadOf(c) /\ HeadOf(c) \in Calls
                                       /\ Executes(HeadOf(c)) /\ Cell(HeadOf(c)) = c
           /\ ~Working(c, "command") => /\ calls[k].st = "queued" /\ HeadCall(c, Op(k))
                                        /\ HeadOf(c) = k /\ Head(queue[c]) = <<"call", k>>
                                        /\ Op(k) \in {"open", "publish", "write", "stop", "delete"}
  <1>1. Types /\ Queued /\ load \in Workloads /\ Asked
    BY DEF Names, Types, TypeOK
  <1>2. CASE Working(c, "command")
    <2>1. HeadOf(c) \in Calls /\ Executes(HeadOf(c)) /\ Cell(HeadOf(c)) = c
      BY <1>1, <1>2, HeadMade
    <2>2. k \in Calls /\ calls[k].st = "joined" /\ Cell(k) = c /\ HeadOf(c) \in {k, load[k].target}
      BY <1>2 DEF Waiting
    <2>3. Made(k)
      BY <1>1, <2>2 DEF Asked
    <2>4. CASE HeadOf(c) = k
      BY <1>2, <2>1, <2>2, <2>3, <2>4 DEF Executes, Command
    <2>5. CASE HeadOf(c) # k
      <3>1. load[k].target = HeadOf(c)
        BY <2>2, <2>5
      <3>2. Op(k) = "publish" => load[k].target \in Cells
        BY <1>1, <2>2, <2>3, Asks
      <3>3. Op(k) \notin {"publish", "cancel"} => load[k].target = Nothing
        BY <1>1, <2>2, <2>3, Asks
      <3>4. Op(k) = "cancel"
        BY <2>1, <3>1, <3>2, <3>3, CellConstants
      <3> QED
        BY <1>2, <2>1, <2>2, <2>3, <3>1, <3>4 DEF Command
    <2> QED
      BY <2>4, <2>5
  <1>3. CASE ~Working(c, "command")
    <2>1. queue[c] # <<>> /\ ~Working(c, "fetch")
      BY DEF Names, Stages, StageOK
    <2>2. Working(c, "call")
      BY <1>1, <1>3, <2>1, Heads DEF Types, Working
    <2>3. k = HeadOf(c) /\ calls[k].st = "queued"
      BY <1>3 DEF Waiting
    <2> QED
      BY <1>1, <1>3, <2>2, <2>3, HeadMade DEF HeadCall
  <1> QED
    BY <1>2, <1>3

\* The fields of a request that moves, with an answer or with its barrier.
LEMMA Moved ==
    ASSUME Names, NEW j \in Calls, NEW st,
           calls' = [calls EXCEPT ![j].st = st]
    PROVE  /\ calls'[j].st = st /\ calls'[j].via = calls[j].via /\ calls'[j].gen = calls[j].gen
           /\ calls'[j].answer = calls[j].answer /\ calls'[j].before = calls[j].before
           /\ \A i \in Calls : i # j => calls'[i] = calls[i]
  <1> DEFINE q == calls[j]
             r == [q EXCEPT !.st = st]
  <1>1. calls \in [Calls -> Requests] /\ q \in Requests
    BY DEF Names, Types, TypeOK
  <1>2. /\ r.st = st /\ r.via = q.via /\ r.gen = q.gen /\ r.answer = q.answer /\ r.before = q.before
    <2> HIDE DEF q
    <2> QED
      BY <1>1 DEF Requests
  <1>3. calls'[j] = r /\ \A i \in Calls : i # j => calls'[i] = calls[i]
    BY <1>1
  <1> QED
    BY <1>2, <1>3

LEMMA Replied ==
    ASSUME Names, NEW j \in Calls, NEW st, NEW a,
           calls' = [calls EXCEPT ![j].st = st, ![j].answer = a]
    PROVE  /\ calls'[j].st = st /\ calls'[j].via = calls[j].via /\ calls'[j].gen = calls[j].gen
           /\ calls'[j].answer = a /\ calls'[j].before = calls[j].before
           /\ \A i \in Calls : i # j => calls'[i] = calls[i]
  <1> DEFINE q == calls[j]
             r == [q EXCEPT !.st = st, !.answer = a]
  <1>1. calls \in [Calls -> Requests] /\ q \in Requests
    BY DEF Names, Types, TypeOK
  <1>2. /\ r.st = st /\ r.via = q.via /\ r.gen = q.gen /\ r.answer = a /\ r.before = q.before
    <2> HIDE DEF q
    <2> QED
      BY <1>1 DEF Requests
  <1>3. calls'[j] = r /\ \A i \in Calls : i # j => calls'[i] = calls[i]
    BY <1>1
  <1> QED
    BY <1>2, <1>3

LEMMA Barred ==
    ASSUME Names, NEW j \in Calls, NEW st, NEW b,
           calls' = [calls EXCEPT ![j].st = st, ![j].before = b]
    PROVE  /\ calls'[j].st = st /\ calls'[j].via = calls[j].via /\ calls'[j].gen = calls[j].gen
           /\ calls'[j].answer = calls[j].answer /\ calls'[j].before = b
           /\ \A i \in Calls : i # j => calls'[i] = calls[i]
  <1> DEFINE q == calls[j]
             r == [q EXCEPT !.st = st, !.before = b]
  <1>1. calls \in [Calls -> Requests] /\ q \in Requests
    BY DEF Names, Types, TypeOK
  <1>2. /\ r.st = st /\ r.via = q.via /\ r.gen = q.gen /\ r.answer = q.answer /\ r.before = b
    <2> HIDE DEF q
    <2> QED
      BY <1>1 DEF Requests
  <1>3. calls'[j] = r /\ \A i \in Calls : i # j => calls'[i] = calls[i]
    BY <1>1
  <1> QED
    BY <1>2, <1>3

LEMMA CallMoves ==
    ASSUME Names, [Next]_vars, NEW j \in Calls
    PROVE  Sends(j) \/ Continues(j)
  <1>0. Types /\ TypeOK /\ calls[j] \in Requests /\ calls \in [Calls -> Requests]
    BY DEF Names, Types, TypeOK
  <1>1. ASSUME calls'[j] = calls[j] PROVE Continues(j)
    BY <1>1 DEF Continues
  <1>2. ASSUME calls[j].st \in {"sent", "queued", "joined", "gated"}, calls'[j].st # "idle",
               calls'[j].via = calls[j].via, calls'[j].gen = calls[j].gen
        PROVE Continues(j)
    BY <1>2 DEF Continues
  <1>3. ASSUME calls[j].st \in {"queued", "joined", "gated"}, calls'[j] = Failed(calls[j], Op(j))
        PROVE Continues(j)
    <2>1. /\ Failed(calls[j], Op(j)).via = calls[j].via /\ Failed(calls[j], Op(j)).gen = calls[j].gen
          /\ Failed(calls[j], Op(j)).st \in {"sent", "done"}
      BY <1>0, Failures
    <2> QED
      BY <1>3, <2>1 DEF Continues
  <1>4. ASSUME NEW k \in Calls, ClientStep(k) \/ AcceptStep(k), k # j PROVE calls'[j] = calls[j]
    BY <1>0, <1>4 DEF ClientStep, AcceptStep, Send, Drop, Deliver, Refuse, Reply, Replays, Enqueues,
                      Stopping, Accepts, CancelsEarly
  <1>5. ASSUME ClientStep(j) PROVE Sends(j) \/ Continues(j)
    <2>1. CASE Drop(j)
      BY <1>0, <1>3, <2>1 DEF Drop
    <2>2. CASE Deliver(j)
      <3>1. calls[j].st = "gated" /\ calls' = [calls EXCEPT ![j].st = "done"]
        BY <2>2 DEF Deliver
      <3> QED
        BY <1>2, <3>1, Moved
    <2>3. CASE calls[j].st = "sent" /\ Refuse(j)
      <3>1. calls' = [calls EXCEPT ![j].st = "done", ![j].answer = "error"]
        BY <2>3 DEF Refuse, Reply
      <3>2. calls'[j].st = "done" /\ calls'[j].via = calls[j].via /\ calls'[j].gen = calls[j].gen
        BY <3>1, Replied
      <3> QED
        BY <1>2, <2>3, <3>2
    <2>4. CASE Replays(j)
      <3>0. PICK x : x = mem[Cell(j)].journal[Command(j)]
        OBVIOUS
      <3>1. /\ calls[j].st = "sent"
            /\ \/ calls' = [calls EXCEPT ![j].st = "gated", ![j].answer = x]
               \/ calls' = [calls EXCEPT ![j].st = "joined"]
               \/ calls' = [calls EXCEPT ![j].st = "done", ![j].answer = "error"]
        BY <2>4, <3>0 DEF Replays
      <3> QED
        BY <1>2, <3>1, Moved, Replied
    <2> QED
      BY <1>5, <2>1, <2>2, <2>3, <2>4 DEF ClientStep, Sends
  <1>6. ASSUME AcceptStep(j) PROVE Continues(j)
    <2>0. PICK A : A = Active(Cell(j))
      OBVIOUS
    <2>1. \/ calls' = [calls EXCEPT ![j].st = "gated", ![j].answer = "cancelled"]
          \/ calls' = [calls EXCEPT ![j].st = "joined"]
          \/ calls' = [calls EXCEPT ![j].st = "queued"]
          \/ calls' = [calls EXCEPT ![j].st = "queued", ![j].before = A]
      BY <1>6, <2>0 DEF AcceptStep, Enqueues, Stopping, Accepts, CancelsEarly
    <2>2. calls[j].st = "sent"
      BY <1>0, <1>6, AcceptFacts
    <2> QED
      BY <1>2, <2>1, <2>2, Moved, Replied, Barred
  <1>7. ASSUME NEW c \in Cells, WorkStep(c) PROVE Continues(j)
    <2>1. CASE Flush(c) \/ Serve(c) \/ Asking(c) \/ Starts(c) \/ Commits(c)
               \/ (\E s, r : Done(c, s, r)) \/ \E r : Halts(c, r)
      BY <1>1, <2>1 DEF Flush, Serve, Asking, Starts, Commits, Done, Halts
    <2>2. CASE Settle(c)
      <3>1. calls'[j] = IF j \in Waiting(c) THEN Settled(c, j) ELSE calls[j]
        BY <1>0, <2>2, SettleCalls
      <3>2. CASE j \in Waiting(c)
        <4>1. Made(j) /\ Cell(j) = c /\ calls[j].st \in {"joined", "queued"}
          BY <2>2, <3>2, Waiters DEF Settle
        <4>2. mem[c] = disk[c]
          BY <2>2 DEF Settle, Flushed
        <4>3. /\ Settled(c, j).st = "done" /\ Settled(c, j).via = calls[j].via
              /\ Settled(c, j).gen = IF Op(j) = "open" THEN mem[c].gen ELSE calls[j].gen
          BY <1>0, Settlements
        <4> QED
          BY <3>1, <3>2, <4>1, <4>2, <4>3 DEF Continues
      <3> QED
        BY <1>1, <3>1, <3>2
    <2>3. CASE Crash(c)
      BY <1>1, <1>3, <2>3 DEF Crash
    <2> QED
      BY <1>7, <2>1, <2>2, <2>3 DEF WorkStep
  <1>8. CASE UNCHANGED vars
    BY <1>1, <1>8 DEF vars
  <1> QED
    BY <1>0, <1>1, <1>4, <1>5, <1>6, <1>7, <1>8, Kinds

\* A handle is an open that was answered; what is sent through it has its generation.
LEMMA Sendings ==
    ASSUME Names, NEW j \in Calls, NEW h \in Calls \cup {Nothing}, Send(j, h)
    PROVE  /\ calls[j].st = "idle" /\ Made(j) /\ load' = load
           /\ calls'[j].st = "sent" /\ calls'[j].via = h /\ calls'[j].gen = IF h = Nothing THEN 0 ELSE calls[h].gen
           /\ calls'[j].answer = calls[j].answer
           /\ \A i \in Calls : i # j => calls'[i] = calls[i]
           /\ UNCHANGED <<mem, disk, queue, work, held, ran, forgotten>>
           /\ h # Nothing => /\ h \in Calls /\ h # j /\ calls[h].st = "done" /\ Made(h) /\ Op(h) = "open"
                             /\ Op(j) # "publish" => Cell(h) = Cell(j)
           /\ Op(j) \in {"execute", "cancel"} => h # Nothing
           /\ Op(j) = "cancel" => calls[load[j].target].via = h
  <1>1. calls[j] \in Requests /\ calls \in [Calls -> Requests]
    BY DEF Names, Types, TypeOK
  <1>2. calls[j].st = "idle" /\ Made(j) /\ load' = load /\ UNCHANGED <<mem, disk, queue, work, held, ran, forgotten>>
    BY DEF Send, Made, history
  <1>3. \A i \in Calls : i # j => calls'[i] = calls[i]
    BY <1>1 DEF Send
  <1>4. /\ calls'[j].st = "sent" /\ calls'[j].via = h /\ calls'[j].gen = IF h = Nothing THEN 0 ELSE calls[h].gen
        /\ calls'[j].answer = calls[j].answer
    <2> DEFINE q == calls[j]
               g == IF h = Nothing THEN 0 ELSE calls[h].gen
               r == [q EXCEPT !.st = "sent", !.via = h, !.attempt = 1, !.gen = g]
    <2>1. calls'[j] = r /\ q \in Requests
      BY <1>1 DEF Send
    <2>2. r.st = "sent" /\ r.via = h /\ r.gen = g /\ r.answer = q.answer
      <3> HIDE DEF q, g
      <3> QED
        BY <2>1 DEF Requests
    <2> QED
      BY <2>1, <2>2
  <1>5. \/ Opens(j, h) \/ Publishes(j, h)
        \/ (Spawns(j, h) \/ Uses(j)) /\ h \in Handles(Cell(j))
    BY DEF Send
  <1>6. \A x \in Calls \cup {Nothing} : \A d : x \in Handles(d) =>
           x # Nothing /\ x \in Calls /\ calls[x].st = "done" /\ Made(x) /\ Op(x) = "open" /\ Cell(x) = d
    BY CellConstants DEF Handles, Made
  <1>7. h # Nothing => /\ h \in Calls /\ h # j /\ calls[h].st = "done" /\ Made(h) /\ Op(h) = "open"
                       /\ Op(j) # "publish" => Cell(h) = Cell(j)
    <2>1. h # Nothing => h \in Handles(Cell(j)) \/ (Op(j) = "publish" /\ h \in Handles(load[j].target))
      BY <1>5 DEF Opens, Publishes
    <2> QED
      BY <1>2, <1>6, <2>1
  <1>8. Op(j) \in {"execute", "cancel"} => Spawns(j, h) /\ h \in Handles(Cell(j))
    BY <1>5 DEF Opens, Publishes, Uses
  <1>9. Op(j) \in {"execute", "cancel"} => h # Nothing
    BY <1>6, <1>8
  <1>10. Op(j) = "cancel" => calls[load[j].target].via = h
    BY <1>8 DEF Spawns
  <1> QED
    BY <1>2, <1>3, <1>4, <1>7, <1>9, <1>10
-----------------------------------------------------------------------------
(* Generations and handles *)

LEMMA SameLoad == ASSUME [Next]_vars PROVE load' = load
  BY DEF Next, vars, Send, Receive, ReceiveQueued, ReceiveCommand, ReceiveStop, Refuse, Deliver, Drop,
         CellStep, Flush, Settle, Serve, RunOpen, OpenFetched, RunPublish, PublishFetched,
         RunWrite, RunStop, StartCommand, CommitCommand, FailCommand, Crash

LEMMA GenerationsInit == Init => Generations /\ Vias
  <1> SUFFICES ASSUME Init PROVE Generations /\ Vias
    OBVIOUS
  <1>1. Types
    BY TypesInit
  <1>2. \A k \in Calls : calls[k].gen = 0 /\ calls[k] = Unmade /\ calls[k].st = "idle"
    BY DEF Init, Unmade
  <1>3. \A c \in Cells : mem[c] = Fresh /\ disk[c] = Fresh /\ lastGen[c] = 0
    BY DEF Init
  <1>4. \A k \in Calls : Made(k) => Cell(k) \in Cells
    BY <1>1, Asks DEF Types, TypeOK
  <1>5. Generations
    BY <1>2, <1>3, <1>4, FreshStorage DEF Generations
  <1>6. Vias
    BY <1>2 DEF Vias
  <1> QED
    BY <1>5, <1>6

LEMMA GenerationsStep ==
    ASSUME Names, Files, Generations, [Next]_vars
    PROVE  Generations'
  <1>0. Types /\ load' = load /\ load \in Workloads
    BY SameLoad DEF Names, Types, TypeOK
  <1>1. ASSUME NEW c \in Cells
        PROVE  /\ disk'[c].gen <= mem'[c].gen /\ mem'[c].gen <= lastGen'[c]
               /\ disk'[c].gen = mem'[c].gen /\ disk'[c].deleted => mem'[c].deleted
               /\ disk[c].gen <= disk'[c].gen
    <2>1. mem[c].gen \in Nat /\ disk[c].gen \in Nat /\ lastGen[c] \in Nat
      BY <1>0, StorageFields DEF Types, TypeOK
    <2>2. /\ disk[c].gen <= mem[c].gen /\ mem[c].gen <= lastGen[c]
          /\ disk[c].gen = mem[c].gen /\ disk[c].deleted => mem[c].deleted
      BY DEF Generations
    <2>3. CASE Rests(c)
      BY <2>1, <2>2, <2>3 DEF Rests, SameLife
    <2>4. CASE Reverts(c)
      BY <2>1, <2>2, <2>4 DEF Reverts, SameLife
    <2>5. CASE Grows(c)
      BY <2>1, <2>2, <2>5 DEF Grows, SameLife
    <2>6. CASE Begins(c)
      BY <2>1, <2>2, <2>6 DEF Begins
    <2>7. CASE Ends(c)
      BY <2>1, <2>2, <2>7 DEF Ends
    <2> QED
      BY <2>3, <2>4, <2>5, <2>6, <2>7, StoreMoves
  <1>2. ASSUME NEW k \in Calls, Made(k), Op(k) # "publish" PROVE calls'[k].gen <= disk'[Cell(k)].gen
    <2>1. Cell(k) \in Cells
      BY <1>0, <1>2, Asks
    <2>2. calls[k].gen <= disk[Cell(k)].gen /\ disk[Cell(k)].gen <= disk'[Cell(k)].gen
      BY <1>1, <1>2, <2>1 DEF Generations
    <2>3. calls[k].gen \in Nat /\ disk[Cell(k)].gen \in Nat /\ disk'[Cell(k)].gen \in Nat
      <3>1. Names'
        BY NamesStep
      <3>2. disk'[Cell(k)] \in Storages
        BY <2>1, <3>1 DEF Names, Types, TypeOK
      <3> QED
        BY <1>0, <2>1, <3>2, StorageFields, CallFields DEF Types, TypeOK
    <2>4. ASSUME NEW h \in Calls \cup {Nothing}, Send(k, h) PROVE calls'[k].gen <= disk'[Cell(k)].gen
      <3>1. CASE h = Nothing
        BY <2>3, <2>4, <3>1, Sendings
      <3>2. CASE h # Nothing
        <4>1. calls'[k].gen = calls[h].gen /\ h \in Calls /\ Made(h) /\ Op(h) = "open" /\ Cell(h) = Cell(k)
          BY <1>2, <2>4, <3>2, Sendings
        <4>2. calls[h].gen <= disk[Cell(k)].gen /\ calls[h].gen \in Nat
          BY <1>0, <4>1, CallFields DEF Generations, Types
        <4> QED
          BY <2>2, <2>3, <4>1, <4>2
      <3> QED
        BY <3>1, <3>2
    <2>5. CASE Continues(k)
      BY <2>2, <2>3, <2>5 DEF Continues
    <2> QED
      BY <2>4, <2>5, CallMoves DEF Sends
  <1>3. \A k \in Calls : (Made(k)' <=> Made(k)) /\ Op(k)' = Op(k) /\ Cell(k)' = Cell(k)
    BY <1>0 DEF Made, Op, Cell
  <1> QED
    BY <1>1, <1>2, <1>3 DEF Generations

LEMMA ViasStep ==
    ASSUME Names, Vias, load' = load, [Next]_vars
    PROVE  Vias'
  <1>0. load \in Workloads /\ Types
    BY DEF Names, Types, TypeOK
  <1>1. \A k \in Calls : (Made(k)' <=> Made(k)) /\ Op(k)' = Op(k) /\ Command(k)' = Command(k)
    BY DEF Made, Op, Command
  <1>2. \A k \in Calls : Made(k) => Command(k) \in Calls
    BY <1>0, Asks DEF Command
  <1>3. \A k \in Calls : calls[k].st # "idle" => calls'[k].st # "idle" /\ calls'[k].via = calls[k].via
    BY CallMoves, Sendings DEF Sends, Continues
  <1>4. \A k \in Calls : calls[k].st = "done" => calls'[k] = calls[k]
    BY CallMoves, Sendings DEF Sends, Continues
  <1>5. ASSUME NEW k \in Calls, calls'[k].st = "idle" PROVE calls'[k] = Unmade
    BY <1>5, CallMoves, Sendings DEF Sends, Continues, Vias
  <1>6. ASSUME NEW k \in Calls, Made(k), Op(k) \in {"execute", "cancel"}, calls'[k].st # "idle"
        PROVE  /\ calls'[k].via \in Calls /\ calls'[calls'[k].via].st = "done"
               /\ calls'[k].gen = calls'[calls'[k].via].gen
               /\ calls'[Command(k)].st # "idle" /\ calls'[Command(k)].via = calls'[k].via
    <2>1. CASE calls[k].st # "idle"
      <3>1. PICK v \in Calls : v = calls[k].via
        BY <1>6, <2>1 DEF Vias
      <3>2. calls[v].st = "done" /\ calls[k].gen = calls[v].gen
            /\ calls[Command(k)].st # "idle" /\ calls[Command(k)].via = v
        BY <1>6, <2>1, <3>1 DEF Vias
      <3>3. calls'[k].via = v /\ calls'[v] = calls[v]
            /\ calls'[Command(k)].st # "idle" /\ calls'[Command(k)].via = v
        BY <1>2, <1>3, <1>4, <1>6, <2>1, <3>1, <3>2
      <3>4. calls'[k].gen = calls[k].gen
        BY <1>6, <2>1, CallMoves, Sendings DEF Sends, Continues
      <3> QED
        BY <3>2, <3>3, <3>4
    <2>2. CASE calls[k].st = "idle"
      <3>1. PICK h \in Calls \cup {Nothing} : Send(k, h)
        BY <1>6, <2>2, CallMoves DEF Sends, Continues
      <3>2. /\ calls'[k].via = h /\ h \in Calls /\ h # k /\ calls[h].st = "done"
            /\ calls'[k].gen = calls[h].gen /\ calls'[h] = calls[h]
        BY <1>6, <3>1, Sendings
      <3>3. calls'[Command(k)].st # "idle" /\ calls'[Command(k)].via = h
        <4>1. CASE Op(k) = "execute"
          BY <1>6, <3>2, <4>1 DEF Command
        <4>2. CASE Op(k) = "cancel"
          <5>1. Command(k) \in Calls /\ calls[Command(k)].via = h
            BY <1>2, <1>6, <3>1, <4>2, Sendings DEF Command
          <5>2. calls[Command(k)].st # "idle"
            BY <3>2, <5>1, CellConstants DEF Vias, Unmade
          <5> QED
            BY <1>3, <5>1, <5>2
        <4> QED
          BY <1>6, <4>1, <4>2
      <3> QED
        BY <3>2, <3>3
    <2> QED
      BY <2>1, <2>2
  <1> QED
    BY <1>1, <1>5, <1>6 DEF Vias

\* A cancel has the generation of its command.
LEMMA OneGeneration ==
    ASSUME Names, Vias, NEW k \in Calls, Made(k), Op(k) \in {"execute", "cancel"}, calls[k].st # "idle"
    PROVE  /\ Command(k) \in Calls /\ Executes(Command(k)) /\ Cell(Command(k)) = Cell(k) /\ Cell(k) \in Cells
           /\ calls[Command(k)].st # "idle" /\ calls[Command(k)].gen = calls[k].gen
  <1>1. load \in Workloads
    BY DEF Names, Types, TypeOK
  <1>2. Command(k) \in Calls /\ Executes(Command(k)) /\ Cell(Command(k)) = Cell(k) /\ Cell(k) \in Cells
    BY <1>1, Asks DEF Command, Executes
  <1>3. calls[Command(k)].st # "idle" /\ calls[Command(k)].via = calls[k].via
        /\ calls[k].gen = calls[calls[k].via].gen
    BY DEF Vias
  <1>4. calls[Command(k)].gen = calls[calls[Command(k)].via].gen
    BY <1>2, <1>3 DEF Vias, Executes
  <1> QED
    BY <1>2, <1>3, <1>4
-----------------------------------------------------------------------------
(* Workspaces *)

\* What the files a cell has fetched are.
LEMMA Fetched ==
    ASSUME Names, Files, [Next]_vars, NEW d \in Cells, work'[d] = "fetched"
    PROVE  \/ work[d] = "fetched" /\ held'[d] = held[d]
           \/ held'[d] = Empty
           \/ /\ work[d] = "fetching" /\ (Opening(d) \/ Publishing(d))
              /\ Source(d) \in Cells /\ Flushed(Source(d)) /\ held'[d].fs = mem[Source(d)].fs
              /\ UNCHANGED <<load, mem, disk>>
              /\ KindOf[Source(d)] = "template" => (held'[d].ok <=> mem[Source(d)].gen # 0)
  <1>0. Types /\ Queued /\ TypeOK
    BY DEF Names, Types
  <1>1. CASE work' = work /\ held' = held
    BY <1>1
  <1>2. ASSUME NEW k \in Calls, ClientStep(k) \/ AcceptStep(k) PROVE work' = work /\ held' = held
    <2>1. CASE ClientStep(k)
      BY <2>1 DEF ClientStep, Send, Drop, Deliver, Refuse, Replays
    <2>2. CASE AcceptStep(k)
      BY <1>0, <2>2, AcceptStorage
    <2> QED
      BY <1>2, <2>1, <2>2
  <1>3. ASSUME NEW c \in Cells, WorkStep(c), ~Serve(c)
        PROVE  (work[d] = "fetched" /\ held'[d] = held[d]) \/ held'[d] = Empty
    <2>1. CASE Flush(c)
      BY <2>1 DEF Flush
    <2>2. CASE Settle(c) \/ Asking(c) \/ Starts(c) \/ Commits(c) \/ (\E s, r : Done(c, s, r)) \/ \E r : Halts(c, r)
      <3>1. work'[c] # "fetched" /\ (c # d => work'[d] = work[d] /\ held'[d] = held[d])
        BY <1>0, <2>2 DEF Settle, Asking, Starts, Commits, Done, Halts, TypeOK
      <3> QED
        BY <3>1
    <2>3. CASE Crash(c)
      BY <2>3, QueuesCrash
    <2> QED
      BY <1>3, <2>1, <2>2, <2>3 DEF WorkStep
  <1>4. ASSUME NEW c \in Cells, Serve(c), ~(work'[d] = work[d] /\ held'[d] = held[d])
        PROVE  /\ work[d] = "fetching" /\ (Opening(d) \/ Publishing(d))
               /\ Source(d) \in Cells /\ Flushed(Source(d)) /\ held'[d].fs = mem[Source(d)].fs
               /\ UNCHANGED <<load, mem, disk>>
               /\ KindOf[Source(d)] = "template" => (held'[d].ok <=> mem[Source(d)].gen # 0)
    <2> DEFINE good == IF KindOf[c] = "template" THEN mem[c].gen # 0
                       ELSE Current(c, calls[HeadOf(HeadOf(c))].gen)
    <2>1. PICK b : b = HeadOf(c)
      OBVIOUS
    <2>2. /\ Working(c, "fetch") /\ Flushed(c) /\ UNCHANGED <<load, mem, disk>>
          /\ IF b = Nothing THEN UNCHANGED <<held, work>>
             ELSE /\ held' = [held EXCEPT ![b].ok = good, ![b].fs = mem[c].fs]
                  /\ work' = [work EXCEPT ![b] = "fetched"]
      BY <1>4, <2>1 DEF Serve, Load
    <2>3. queue[c] # <<>> /\ Head(queue[c]) = <<"fetch", b>>
      BY <1>0, <2>1, <2>2, Heads DEF Working
    <2>4. b = d
      <3> HIDE DEF good
      <3> QED
        BY <1>0, <1>4, <2>2 DEF TypeOK
    <2>5. 1 \in At(c, <<"fetch", d>>)
      BY <1>0, <2>3, <2>4, AtHead DEF TypeOK
    <2>6. work[d] = "fetching" /\ c = Source(d)
      BY <2>5 DEF Names, Fetches, FetchOK
    <2>7. Opening(d) \/ Publishing(d)
      BY <2>6 DEF Names, Stages, StageOK
    <2>8. held'[d].fs = mem[c].fs /\ held'[d].ok = good
      <3>1. d # Nothing /\ held \in [Cells -> [ok : BOOLEAN, fs : SUBSET Calls, result : Answers]]
        BY <1>0, CellConstants DEF TypeOK
      <3>2. held' = [held EXCEPT ![d].ok = good, ![d].fs = mem[c].fs]
        BY <2>2, <2>4, <3>1
      <3> HIDE DEF good
      <3> QED
        BY <3>1, <3>2
    <2> QED
      BY <2>2, <2>6, <2>7, <2>8
  <1>5. CASE UNCHANGED vars
    BY <1>1, <1>5 DEF vars
  <1>6. ASSUME NEW c \in Cells, Serve(c), work'[d] = work[d], held'[d] = held[d]
        PROVE  work[d] = "fetched" /\ held'[d] = held[d]
    BY <1>6
  <1> QED
    BY <1>0, <1>1, <1>2, <1>3, <1>4, <1>5, <1>6, Kinds
LEMMA Running ==
    ASSUME Names, Files, [Next]_vars, NEW d \in Cells, work'[d] = "running"
    PROVE  held'[d].fs = mem'[d].fs
  <1>0. Types /\ Queued /\ TypeOK /\ mem[d] \in Storages
    BY DEF Names, Types, TypeOK
  <1>1. ASSUME work'[d] = work[d], held'[d] = held[d], mem'[d].fs = mem[d].fs
        PROVE  held'[d].fs = mem'[d].fs
    BY <1>1 DEF Files
  <1>2. ASSUME NEW k \in Calls, ClientStep(k) \/ AcceptStep(k)
        PROVE  work' = work /\ held' = held /\ mem'[d].fs = mem[d].fs
    <2>1. CASE ClientStep(k)
      BY <2>1 DEF ClientStep, Send, Drop, Deliver, Refuse, Replays
    <2>2. CASE AcceptStep(k)
      BY <1>0, <2>2, AcceptStorage
    <2> QED
      BY <1>2, <2>1, <2>2
  <1>3. ASSUME NEW c \in Cells, WorkStep(c) PROVE held'[d].fs = mem'[d].fs
    <2>1. CASE Flush(c)
      BY <1>1, <2>1 DEF Flush
    <2>2. CASE Serve(c)
      <3>1. work'[d] = work[d] /\ held'[d] = held[d]
        BY <1>0, <2>2 DEF Serve, TypeOK
      <3> QED
        BY <1>1, <2>2, <3>1 DEF Serve
    <2>3. CASE Settle(c) \/ Asking(c) \/ Commits(c) \/ (\E s, r : Done(c, s, r)) \/ \E r : Halts(c, r)
      <3>1. work'[c] # "running" /\ (c # d => work'[d] = work[d] /\ held'[d] = held[d] /\ mem'[d] = mem[d])
        BY <1>0, <2>3 DEF Settle, Asking, Commits, Done, Halts, TypeOK
      <3> QED
        BY <1>1, <3>1
    <2>4. CASE Crash(c)
      <3>1. d # c
        BY <2>4, QueuesCrash
      <3>2. mem'[d] = mem[d]
        BY <1>0, <2>4, <3>1 DEF Crash, TypeOK
      <3> QED
        BY <1>1, <2>4, <3>1, <3>2, QueuesCrash
    <2>5. CASE Starts(c)
      <3>1. CASE c = d
        <4>1. mem'[d] = SetState(mem[d], HeadOf(d), "running") /\ held'[d].fs = mem[d].fs
          BY <1>0, <2>5, <3>1 DEF Starts, TypeOK
        <4>2. HeadOf(d) \in Calls
          BY <1>0, <2>5, <3>1, HeadMade DEF Starts
        <4> QED
          BY <1>0, <4>1, <4>2, SetStates DEF States
      <3>2. CASE c # d
        BY <1>0, <1>1, <2>5, <3>2 DEF Starts, TypeOK
      <3> QED
        BY <3>1, <3>2
    <2> QED
      BY <1>3, <2>1, <2>2, <2>3, <2>4, <2>5 DEF WorkStep
  <1>4. CASE UNCHANGED vars
    BY <1>1, <1>4 DEF vars
  <1> QED
    BY <1>0, <1>1, <1>2, <1>3, <1>4, Kinds

LEMMA FilesStep ==
    ASSUME Names, Files, [Next]_vars
    PROVE  Files'
  <1>0. load' = load /\ Types /\ Queued /\ Names'
    BY SameLoad, NamesStep DEF Names
  <1>1. \A k \in Calls : (Made(k)' <=> Made(k)) /\ Cell(k)' = Cell(k)
    BY <1>0 DEF Made, Cell
  <1>2. ASSUME NEW c \in Cells, work'[c] = "fetched", NEW k \in held'[c].fs
        PROVE  Made(k) /\ KindOf[Cell(k)] = "build"
    <2>1. CASE work[c] = "fetched" /\ held'[c] = held[c]
      BY <1>2, <2>1 DEF Files
    <2>2. CASE held'[c] = Empty
      BY <1>2, <2>2 DEF Empty
    <2>3. CASE /\ Opening(c) \/ Publishing(c)
               /\ Source(c) \in Cells /\ held'[c].fs = mem[Source(c)].fs
      <3>1. KindOf[Source(c)] \in {"template", "build"}
        BY <1>0, <2>3, Sources
      <3>2. Owned(Source(c), mem[Source(c)].fs) /\ k \in mem[Source(c)].fs
        BY <1>2, <2>3 DEF Files
      <3> QED
        BY <3>1, <3>2 DEF Owned
    <2> QED
      BY <1>2, <2>1, <2>2, <2>3, Fetched
  <1>3. ASSUME NEW c \in Cells PROVE Owned(c, mem'[c].fs) /\ Owned(c, disk'[c].fs)
    <2>1. Owned(c, mem[c].fs) /\ Owned(c, disk[c].fs)
      BY DEF Files
    <2>2. CASE Rests(c)
      BY <2>1, <2>2 DEF Rests
    <2>3. CASE Reverts(c)
      BY <2>1, <2>3 DEF Reverts
    <2>4. CASE Grows(c)
      BY <2>1, <2>4 DEF Grows, Owned
    <2>5. CASE Begins(c)
      <3>1. CASE mem'[c].fs = {}
        BY <2>1, <2>5, <3>1 DEF Begins, Owned
      <3>2. CASE work[c] = "fetched" /\ mem'[c].fs = held[c].fs
        <4>1. \A k \in held[c].fs : Made(k) /\ KindOf[Cell(k)] = "build"
          BY <3>2 DEF Files
        <4>2. KindOf[c] # "build"
          BY <3>2 DEF Names, Stages, StageOK, Opening, Publishing
        <4> QED
          BY <2>1, <2>5, <3>2, <4>1, <4>2 DEF Begins, Owned
      <3> QED
        BY <2>5, <3>1, <3>2 DEF Begins
    <2>6. CASE Ends(c)
      BY <2>1, <2>6 DEF Ends, Owned
    <2> QED
      BY <2>2, <2>3, <2>4, <2>5, <2>6, StoreMoves
  <1>4. ASSUME NEW c \in Cells PROVE Owned(c, mem[c].fs)' /\ Owned(c, disk[c].fs)'
    <2>1. mem'[c].fs \subseteq Calls /\ disk'[c].fs \subseteq Calls
      BY <1>0, StorageFields DEF Names, Types, TypeOK
    <2> QED
      BY <1>1, <1>3, <2>1 DEF Owned
  <1>5. ASSUME NEW c \in Cells, work'[c] = "fetched" PROVE held'[c].fs \subseteq Calls
    BY <1>0 DEF Names, Types, TypeOK
  <1> QED
    BY <1>1, <1>2, <1>4, <1>5, Running DEF Files

\* The template of a session is fixed once it is on disk.
LEMMA TemplatesFixed ==
    ASSUME Names, Files, Generations, Published, [Next]_vars, NEW t \in Cells, KindOf[t] = "template"
    PROVE  /\ disk'[t].gen # 0 => mem'[t].gen # 0 /\ mem'[t].fs = disk'[t].fs
           /\ disk[t].gen # 0 => disk'[t].gen # 0 /\ disk'[t].fs = disk[t].fs
  <1>1. disk[t].gen # 0 => mem[t].gen # 0 /\ mem[t].fs = disk[t].fs
    BY DEF Published
  <1>2. CASE Rests(t)
    BY <1>1, <1>2 DEF Rests, SameLife
  <1>3. CASE Reverts(t)
    BY <1>1, <1>3 DEF Reverts, SameLife
  <1>4. CASE Begins(t)
    <2>1. Publishing(t)
      BY <1>4 DEF Begins, Names, Stages, StageOK, Opening
    <2>2. disk[t].gen <= mem[t].gen /\ mem[t].gen = 0 /\ disk[t].gen \in Nat
      BY <2>1, StorageFields DEF Generations, Publishing, Names, Types, TypeOK
    <2>3. disk[t].gen = 0
      BY <2>2
    <2> QED
      BY <1>4, <2>3 DEF Begins
  <1> QED
    BY <1>2, <1>3, <1>4, StoreMoves DEF Grows, Ends

LEMMA StartedStep ==
    ASSUME Names, Files, Generations, Published, Started, [Next]_vars
    PROVE  Started'
  <1>0. load' = load
    BY SameLoad
  <1> SUFFICES ASSUME NEW c \in Cells, KindOf[c] = "session", TemplateOf[c] # Nothing
               PROVE  /\ work'[c] = "fetched" /\ held'[c].ok =>
                           disk'[TemplateOf[c]].gen # 0 /\ held'[c].fs = disk'[TemplateOf[c]].fs
                      /\ \A x \in {mem'[c], disk'[c]} : x.gen # 0 /\ ~x.deleted =>
                           disk'[TemplateOf[c]].gen # 0 /\ Foreign(c, x) = disk'[TemplateOf[c]].fs
    BY <1>0 DEF Started, Foreign, Cell
  <1>1. PICK t \in Cells : t = TemplateOf[c] /\ KindOf[t] = "template"
    BY CellConstants
  <1>2. disk[t].gen # 0 => disk'[t].gen # 0 /\ disk'[t].fs = disk[t].fs
    BY <1>1, TemplatesFixed
  <1>3. ASSUME work'[c] = "fetched", held'[c].ok PROVE disk'[t].gen # 0 /\ held'[c].fs = disk'[t].fs
    <2>1. CASE work[c] = "fetched" /\ held'[c] = held[c]
      BY <1>1, <1>2, <1>3, <2>1 DEF Started
    <2>2. CASE held'[c] = Empty
      BY <1>3, <2>2 DEF Empty
    <2>3. CASE /\ Source(c) \in Cells /\ Flushed(Source(c)) /\ held'[c].fs = mem[Source(c)].fs
               /\ UNCHANGED <<load, mem, disk>>
               /\ KindOf[Source(c)] = "template" => (held'[c].ok <=> mem[Source(c)].gen # 0)
      <3>1. Source(c) = t
        BY <1>1 DEF Source
      <3> QED
        BY <1>1, <1>3, <2>3, <3>1 DEF Flushed
    <2> QED
      BY <1>3, <2>1, <2>2, <2>3, Fetched
  <1>4. \A x \in {mem[c], disk[c]} : x.gen # 0 /\ ~x.deleted => disk[t].gen # 0 /\ Foreign(c, x) = disk[t].fs
    BY <1>1 DEF Started
  <1>5. ASSUME NEW x \in {mem'[c], disk'[c]}, x.gen # 0, ~x.deleted
        PROVE  disk[t].gen # 0 /\ Foreign(c, x) = disk[t].fs
    <2>1. CASE Rests(c)
      BY <1>4, <1>5, <2>1 DEF Rests, SameLife, Foreign
    <2>2. CASE Reverts(c)
      BY <1>4, <1>5, <2>2 DEF Reverts, SameLife, Foreign
    <2>3. CASE Grows(c)
      <3>1. CASE x = disk'[c]
        BY <1>4, <1>5, <2>3, <3>1 DEF Grows
      <3>2. CASE x = mem'[c]
        <4>1. mem[c].gen # 0 /\ ~mem[c].deleted /\ x.fs = mem[c].fs \cup {HeadOf(c)} /\ Cell(HeadOf(c)) = c
          BY <1>5, <2>3, <3>2 DEF Grows, SameLife
        <4>2. Foreign(c, x) = Foreign(c, mem[c])
          BY <4>1 DEF Foreign
        <4> QED
          BY <1>4, <4>1, <4>2
      <3> QED
        BY <1>5, <3>1, <3>2
    <2>4. CASE Begins(c)
      <3>1. CASE x = disk'[c]
        BY <1>4, <1>5, <2>4, <3>1 DEF Begins
      <3>2. CASE x = mem'[c]
        <4>1. work[c] = "fetched" /\ held[c].ok /\ x.fs = held[c].fs
          BY <2>4, <3>2 DEF Begins
        <4>2. \A k \in held[c].fs : KindOf[Cell(k)] = "build"
          BY <4>1 DEF Files
        <4>3. disk[t].gen # 0 /\ held[c].fs = disk[t].fs
          BY <1>1, <4>1 DEF Started
        <4>4. Foreign(c, x) = x.fs
          BY <4>1, <4>2 DEF Foreign
        <4> QED
          BY <4>1, <4>3, <4>4
      <3> QED
        BY <1>5, <3>1, <3>2
    <2>5. CASE Ends(c)
      BY <1>4, <1>5, <2>5 DEF Ends
    <2> QED
      BY <2>1, <2>2, <2>3, <2>4, <2>5, StoreMoves
  <1> QED
    BY <1>1, <1>2, <1>3, <1>5
Spaces == Names /\ Generations /\ Vias /\ Files /\ Published /\ Started

LEMMA SpacesInit == Init => Spaces
  <1> SUFFICES ASSUME Init PROVE Spaces
    OBVIOUS
  <1>1. \A c \in Cells : mem[c] = Fresh /\ disk[c] = Fresh /\ work[c] = "idle"
    BY DEF Init
  <1>2. Files
    BY <1>1, FreshStorage DEF Files, Owned
  <1>3. Published
    BY <1>1, FreshStorage DEF Published
  <1>4. Started
    BY <1>1, FreshStorage DEF Started
  <1> QED
    BY <1>2, <1>3, <1>4, NamesInit, GenerationsInit DEF Spaces

LEMMA SpacesStep == Spaces /\ [Next]_vars => Spaces'
  <1> SUFFICES ASSUME Spaces, [Next]_vars PROVE Spaces'
    OBVIOUS
  <1>1. Published'
    BY TemplatesFixed DEF Spaces, Published
  <1> QED
    BY <1>1, NamesStep, GenerationsStep, ViasStep, SameLoad, FilesStep, StartedStep DEF Spaces

\* A session that started from a template holds what the template holds for
\* good: publish copies a build into a template once, and snapshot answers only
\* when the template is on disk.
THEOREM TemplatesAreKept == Spec => []SessionsKeepTemplate
  <1>1. Spaces => SessionsKeepTemplate
    <2> SUFFICES ASSUME Started, NEW s \in Cells, KindOf[s] = "session", TemplateOf[s] # Nothing, ~NeedsFiles(s)
                 PROVE  LET t == TemplateOf[s] IN
                        disk[t].gen # 0 /\ {k \in mem[s].fs : Cell(k) # s} = disk[t].fs
      BY DEF Spaces, SessionsKeepTemplate
    <2>1. mem[s].gen # 0 /\ ~mem[s].deleted
      BY DEF NeedsFiles
    <2> QED
      BY <2>1 DEF Started, Foreign
  <1> QED
    BY <1>1, SpacesInit, SpacesStep, PTL DEF Spec
-----------------------------------------------------------------------------
(* What a step does to a command m: its places in the queue, the work on it   *)
(* and what storage knows of it.                                              *)

\* Storage s and storage z say the same of m.
SameFor(s, z, m) ==
    /\ SameLife(s, z) /\ z.journal[m] = s.journal[m] /\ (m \in z.fs <=> m \in s.fs)

\* Nothing happens to m.
Unmoved(m) ==
    LET c == Cell(m) IN
    /\ Places(m)' = Places(m) /\ ran'[m] = ran[m]
    /\ 1 \in Places(m) => work'[c] = work[c] /\ held'[c].result = held[c].result
    /\ SameFor(mem[c], mem'[c], m) /\ disk'[c] = disk[c]

\* The cell of m is flushed.
Saved(m) ==
    LET c == Cell(m) IN
    /\ Places(m)' = Places(m) /\ ran'[m] = ran[m] /\ work' = work /\ held' = held
    /\ mem'[c] = mem[c] /\ disk'[c] = mem[c]

\* m is accepted; or it is recorded as cancelled, which nothing but a cancel does.
Accepted(m) ==
    LET c == Cell(m) IN
    /\ ~Remembers(mem[c], m) /\ calls[m].st = "sent" /\ calls'[m].st = "joined"
    /\ \E i \in Nat : Places(m)' = Places(m) \cup {i} /\ (i = 1 => work[c] = "idle")
    /\ ran'[m] = ran[m] /\ work' = work /\ disk'[c] = disk[c]
    /\ SameLife(mem[c], mem'[c]) /\ mem'[c].journal[m] = "queued" /\ mem'[c].fs = mem[c].fs

CancelledEarly(m) ==
    LET c == Cell(m) IN
    /\ ~Remembers(mem[c], m) /\ calls[m].st # "idle"
    /\ Places(m)' = Places(m) /\ ran'[m] = ran[m] /\ work' = work /\ held' = held /\ disk'[c] = disk[c]
    /\ SameLife(mem[c], mem'[c]) /\ mem'[c].journal[m] = "cancelled" /\ mem'[c].fs = mem[c].fs

\* The head of the queue leaves it.
Advances(m) ==
    LET c == Cell(m) IN
    /\ \A i \in Places(m)' : i \in Nat /\ i >= 1 /\ i + 1 \in Places(m)
    /\ 1 \in Places(m) => work[c] = "settling"
    /\ work'[c] = "idle" /\ ran'[m] = ran[m] /\ mem' = mem /\ disk' = disk

\* m is at the head, and the work on it begins, ends without or with a commit.
Worked(m, state) ==
    LET c == Cell(m) IN
    /\ 1 \in Places(m) /\ Places(m)' = Places(m) /\ work[c] \in {"idle", "running"} /\ disk' = disk
    /\ SameLife(mem[c], mem'[c])
    /\ mem'[c].journal[m] = IF Journaled(mem[c], m) THEN state ELSE "none"

Begun(m) ==
    LET c == Cell(m) IN
    Worked(m, "running") /\ work'[c] = "running" /\ disk[c] = mem[c] /\ mem'[c].fs = mem[c].fs /\ ran'[m] = ran[m]

Ended(m, r) ==
    LET c == Cell(m) IN
    /\ Worked(m, r) /\ work'[c] = "settling" /\ held'[c].result = r /\ r \in Results \ {"completed"}
    /\ mem'[c].fs = mem[c].fs /\ ran'[m] = ran[m]

Stored(m) ==
    LET c == Cell(m) IN
    /\ Worked(m, "completed") /\ work[c] = "running" /\ work'[c] = "settling" /\ held'[c].result = "completed"
    /\ m \in mem'[c].fs /\ ran'[m] = ran[m] + 1

\* The generation of m is over.
Outlived(m) ==
    LET c == Cell(m) IN
    /\ 1 \notin Places(m) /\ Places(m)' = Places(m) /\ disk' = disk /\ ran'[m] = ran[m]
    /\ mem'[c].gen # calls[m].gen \/ mem'[c].deleted
    /\ m \notin mem'[c].fs /\ ~Journaled(mem'[c], m)

\* The cell of m crashes.
Interrupted(m) ==
    LET c == Cell(m) IN
    /\ Crash(c) /\ Places(m)' = {} /\ disk' = disk /\ ran'[m] = ran[m]
    /\ SameLife(disk[c], mem'[c]) /\ mem'[c].fs = disk[c].fs
    /\ mem'[c].journal[m] = IF disk[c].journal[m] \in {"queued", "running"} THEN "interrupted"
                            ELSE disk[c].journal[m]

\* What can become of m in a step.
Fate(m) ==
    \/ Unmoved(m) \/ Saved(m) \/ Accepted(m) \/ CancelledEarly(m) \/ Advances(m) \/ Begun(m)
    \/ (\E r : Ended(m, r)) \/ Stored(m) \/ Outlived(m) \/ Interrupted(m)

LEMMA PlaceFacts ==
    ASSUME Names, load' = load, NEW m \in Calls, Executes(m), NEW c, c = Cell(m)
    PROVE  /\ c \in Cells /\ <<"command", m>> \in Entries
           /\ Places(m) = At(c, <<"command", m>>) /\ Places(m)' = At(c, <<"command", m>>)'
           /\ \A i \in Places(m) : i \in Nat /\ i >= 1
           /\ 1 \in Places(m) => /\ queue[c] # <<>> /\ Head(queue[c]) = <<"command", m>>
                                 /\ Working(c, "command") /\ HeadOf(c) = m
                                 /\ work[c] \in {"idle", "running", "settling"}
           /\ Working(c, "command") /\ HeadOf(c) = m => 1 \in Places(m)
           /\ mem[c] \in Storages /\ disk[c] \in Storages
  <1>1. load \in Workloads /\ queue \in [Cells -> Seq(Entries)] /\ Types
    BY DEF Names, Types, TypeOK
  <1>2. c \in Cells /\ <<"command", m>> \in Entries
    BY <1>1, Asks DEF Executes, Entries
  <1>3. Places(m) = At(c, <<"command", m>>) /\ Places(m)' = At(c, <<"command", m>>)'
    BY DEF Places, Cell
  <1>4. \A i \in Places(m) : i \in Nat /\ i >= 1
    BY <1>1, <1>2, <1>3 DEF At
  <1>5. ASSUME 1 \in Places(m)
        PROVE  /\ queue[c] # <<>> /\ Head(queue[c]) = <<"command", m>>
               /\ Working(c, "command") /\ HeadOf(c) = m
               /\ work[c] \in {"idle", "running", "settling"}
    <2>1. queue[c] # <<>>
      <3>1. 1 \in 1..Len(queue[c]) /\ queue[c] \in Seq(Entries)
        BY <1>1, <1>2, <1>3, <1>5 DEF At
      <3> QED
        BY <3>1
    <2>2. Head(queue[c]) = <<"command", m>>
      BY <1>1, <1>2, <1>3, <1>5, <2>1, AtHead
    <2>3. Working(c, "command") /\ HeadOf(c) = m
      BY <2>1, <2>2 DEF Working, HeadOf
    <2>4. work[c] \in {"idle", "running", "settling"}
      BY <1>1, <1>2, <2>3 DEF Names, Types, TypeOK, Stages, StageOK, Opening, Publishing, HeadCall, Working
    <2> QED
      BY <2>1, <2>2, <2>3, <2>4
  <1>6. ASSUME Working(c, "command"), HeadOf(c) = m PROVE 1 \in Places(m)
    <2>1. queue[c] # <<>> /\ Head(queue[c]) = <<"command", m>>
      BY <1>1, <1>2, <1>6, HeadMade DEF Names, Working
    <2> QED
      BY <1>1, <1>2, <1>3, <2>1, AtHead
  <1>7. mem[c] \in Storages /\ disk[c] \in Storages
    BY <1>2 DEF Names, Types, TypeOK
  <1> QED
    BY <1>2, <1>3, <1>4, <1>5, <1>6, <1>7

LEMMA FateAccept ==
    ASSUME Spaces, NEW m \in Calls, Executes(m), m \notin forgotten', NEW k \in Calls, AcceptStep(k)
    PROVE  Unmoved(m) \/ Accepted(m) \/ CancelledEarly(m)
  <1>0. PICK c : c = Cell(m)
    OBVIOUS
  <1>1. Names /\ Types /\ queue \in [Cells -> Seq(Entries)] /\ mem \in [Cells -> Storages] /\ Vias
    BY DEF Spaces, Names, Types, TypeOK
  <1>2. /\ calls[k].st = "sent" /\ Made(k) /\ Cell(k) \in Cells /\ load' = load
        /\ <<"call", k>> \in Entries /\ <<"command", k>> \in Entries
    BY <1>1, AcceptFacts
  <1>3. /\ SameLife(mem[c], mem'[c]) /\ mem'[c].fs = mem[c].fs /\ c \in Cells
        /\ Cell(k) # c => mem'[c] = mem[c]
        /\ work' = work /\ held' = held /\ disk' = disk /\ ran' = ran
    BY <1>0, <1>1, <1>2, AcceptStorage, PlaceFacts
  <1>4. /\ Places(m) = At(c, <<"command", m>>) /\ Places(m)' = At(c, <<"command", m>>)'
        /\ <<"command", m>> \in Entries /\ mem[c] \in Storages
    BY <1>0, <1>1, <1>2, PlaceFacts
  <1>5. ASSUME At(c, <<"command", m>>)' = At(c, <<"command", m>>), mem'[c].journal[m] = mem[c].journal[m]
        PROVE  Unmoved(m)
    BY <1>0, <1>3, <1>4, <1>5 DEF Unmoved, SameFor
  <1>6. ASSUME NEW e \in Entries, e # <<"command", m>>, queue' = [queue EXCEPT ![Cell(k)] = Append(queue[Cell(k)], e)]
        PROVE  At(c, <<"command", m>>)' = At(c, <<"command", m>>)
    <2>1. \A d \in Cells, x \in Entries : ~(d = Cell(k) /\ x = e) => At(d, x)' = At(d, x)
      BY <1>1, <1>2, <1>6, AtPushed
    <2> QED
      BY <1>3, <1>4, <1>6, <2>1
  <1>7. ASSUME queue' = queue PROVE At(c, <<"command", m>>)' = At(c, <<"command", m>>)
    BY <1>7 DEF At
  <1>8. CASE Enqueues(k)
    <2>1. At(c, <<"command", m>>)' = At(c, <<"command", m>>)
      BY <1>2, <1>6, <1>8 DEF Enqueues
    <2> QED
      BY <1>5, <1>8, <2>1 DEF Enqueues
  <1>9. CASE Stopping(k)
    <2>1. At(c, <<"command", m>>)' = At(c, <<"command", m>>)
      BY <1>2, <1>6, <1>9 DEF Stopping
    <2>2. mem'[c].journal[m] = mem[c].journal[m]
      BY <1>1, <1>2, <1>3, <1>9 DEF Stopping, Storages
    <2> QED
      BY <1>5, <2>1, <2>2
  <1>10. ASSUME NEW n, Accepts(k, n) PROVE Unmoved(m) \/ Accepted(m)
    <2>1. /\ queue' = [queue EXCEPT ![Cell(k)] = Append(queue[Cell(k)], <<"command", k>>)]
          /\ mem'[Cell(k)] = Inserted(mem[Cell(k)], n, k) /\ forgotten' = forgotten \cup Oldest(mem[Cell(k)], n)
          /\ ~Journaled(mem[Cell(k)], k) /\ Current(Cell(k), calls[k].gen)
          /\ calls' = [calls EXCEPT ![k].st = "joined"]
      BY <1>1, <1>2, <1>10 DEF Accepts
    <2>2. CASE k = m
      <3>1. ~Remembers(mem[c], m)
        BY <1>0, <2>1, <2>2 DEF Remembers, Gone, Current
      <3>2. calls[m].st = "sent" /\ calls'[m].st = "joined"
        BY <1>1, <1>2, <2>1, <2>2, Moved
      <3>3. /\ Places(m)' = Places(m) \cup {Len(queue[c]) + 1} /\ Len(queue[c]) + 1 \in Nat
        <4>1. queue' = [queue EXCEPT ![c] = Append(queue[c], <<"command", m>>)]
          BY <1>0, <2>1, <2>2
        <4>2. /\ At(c, <<"command", m>>)' = At(c, <<"command", m>>) \cup {Len(queue[c]) + 1}
              /\ Len(queue[c]) + 1 \in Nat
          BY <1>1, <1>3, <1>4, <4>1, AtPushed
        <4> QED
          BY <1>4, <4>2
      <3>4. Len(queue[c]) + 1 = 1 => work[c] = "idle"
        <4>1. queue[c] \in Seq(Entries)
          BY <1>1, <1>3
        <4>2. Len(queue[c]) + 1 = 1 => queue[c] = <<>>
          BY <4>1
        <4> QED
          BY <1>1, <1>3, <4>2 DEF Names, Stages, StageOK
      <3>5. mem'[c].journal[m] = "queued"
        BY <1>0, <1>4, <2>1, <2>2, Insertions
      <3> QED
        BY <1>0, <1>3, <3>1, <3>2, <3>3, <3>4, <3>5 DEF Accepted
    <2>3. CASE k # m
      <3>1. At(c, <<"command", m>>)' = At(c, <<"command", m>>)
        BY <1>2, <1>6, <2>1, <2>3
      <3>2. mem'[c].journal[m] = mem[c].journal[m]
        <4>1. CASE Cell(k) = c
          BY <1>4, <2>1, <2>3, <4>1, Insertions
        <4> QED
          BY <1>3, <4>1
      <3> QED
        BY <1>5, <3>1, <3>2
    <2> QED
      BY <2>2, <2>3
  <1>11. ASSUME NEW n, CancelsEarly(k, n) PROVE Unmoved(m) \/ CancelledEarly(m)
    <2>0. PICK x : x = load[k].target
      OBVIOUS
    <2>1. /\ queue' = queue /\ x = Command(k) /\ Op(k) = "cancel"
          /\ mem'[Cell(k)] = SetState(Inserted(mem[Cell(k)], n, x), x, "cancelled")
          /\ forgotten' = forgotten \cup Oldest(mem[Cell(k)], n)
          /\ ~Journaled(mem[Cell(k)], x) /\ Current(Cell(k), calls[k].gen)
      BY <1>1, <1>2, <1>11, <2>0 DEF CancelsEarly, Command
    <2>2. x \in Calls /\ Cell(x) = Cell(k) /\ calls[x].gen = calls[k].gen /\ calls[x].st # "idle"
      BY <1>1, <1>2, <2>1, OneGeneration
    <2>3. mem[Cell(k)] \in Storages /\ Inserted(mem[Cell(k)], n, x) \in Storages
          /\ Inserted(mem[Cell(k)], n, x).journal[x] = "queued"
          /\ \A j \in Calls : j # x => Inserted(mem[Cell(k)], n, x).journal[j] =
               IF j \in Oldest(mem[Cell(k)], n) THEN "none" ELSE mem[Cell(k)].journal[j]
      BY <1>1, <1>2, <2>2, Insertions
    <2>4. At(c, <<"command", m>>)' = At(c, <<"command", m>>)
      BY <1>7, <2>1
    <2>5. PICK z : z = Inserted(mem[Cell(k)], n, x)
      OBVIOUS
    <2>6. /\ SetState(z, x, "cancelled").journal[x] = "cancelled"
          /\ \A j \in Calls : j # x => SetState(z, x, "cancelled").journal[j] = z.journal[j]
      <3>1. z \in Storages /\ x \in Calls /\ z.journal[x] = "queued" /\ "cancelled" \in States
        BY <2>2, <2>3, <2>5 DEF States, Results
      <3>2. /\ SetState(z, x, "cancelled").journal[x] = IF Journaled(z, x) THEN "cancelled" ELSE "none"
            /\ \A j \in Calls : j # x => SetState(z, x, "cancelled").journal[j] = z.journal[j]
        BY <3>1, SetStates
      <3> QED
        BY <3>1, <3>2 DEF Journaled
    <2>7. CASE x = m
      <3>1. ~Remembers(mem[c], m) /\ calls[m].st # "idle"
        BY <1>0, <2>1, <2>2, <2>7 DEF Remembers, Gone, Current
      <3>2. mem'[c].journal[m] = "cancelled"
        BY <1>0, <2>1, <2>2, <2>5, <2>6, <2>7
      <3> QED
        BY <1>0, <1>3, <1>4, <2>4, <3>1, <3>2 DEF CancelledEarly
    <2>8. CASE x # m
      <3>1. mem'[c].journal[m] = mem[c].journal[m]
        <4>1. CASE Cell(k) = c
          BY <2>1, <2>3, <2>5, <2>6, <2>8, <4>1
        <4> QED
          BY <1>3, <4>1
      <3> QED
        BY <1>5, <2>4, <3>1
    <2> QED
      BY <2>7, <2>8
  <1> QED
    BY <1>8, <1>9, <1>10, <1>11 DEF AcceptStep
LEMMA FateWork ==
    ASSUME Spaces, Journals, NEW m \in Calls, Executes(m), NEW d \in Cells, WorkStep(d), [Next]_vars
    PROVE  Fate(m)
  <1>0. PICK c : c = Cell(m)
    OBVIOUS
  <1>1. /\ Names /\ Types /\ TypeOK /\ Queued /\ Files /\ load' = load
        /\ queue \in [Cells -> Seq(Entries)] /\ mem \in [Cells -> Storages]
    BY SameLoad DEF Spaces, Names, Types, TypeOK
  <1>2. /\ c \in Cells /\ <<"command", m>> \in Entries
        /\ Places(m) = At(c, <<"command", m>>) /\ Places(m)' = At(c, <<"command", m>>)'
        /\ 1 \in Places(m) => /\ queue[c] # <<>> /\ Head(queue[c]) = <<"command", m>>
                              /\ Working(c, "command") /\ HeadOf(c) = m
                              /\ work[c] \in {"idle", "running", "settling"}
        /\ Working(c, "command") /\ HeadOf(c) = m => 1 \in Places(m)
        /\ mem[c] \in Storages /\ disk[c] \in Storages
    BY <1>0, <1>1, PlaceFacts
  <1>3. ASSUME Places(m)' = Places(m), ran'[m] = ran[m], SameFor(mem[c], mem'[c], m), disk'[c] = disk[c],
               1 \in Places(m) => work'[c] = work[c] /\ held'[c] = held[c]
        PROVE  Fate(m)
    BY <1>0, <1>3 DEF Unmoved, Fate
  <1>4. ASSUME queue' = queue PROVE Places(m)' = Places(m)
    BY <1>2, <1>4 DEF At
  <1>5. ASSUME mem'[c] = mem[c] PROVE SameFor(mem[c], mem'[c], m)
    BY <1>5 DEF SameFor, SameLife
  <1>6. CASE Flush(d)
    <2>1. UNCHANGED <<mem, queue, work, held, ran>> /\ disk'[d] = mem[d] /\ (d # c => disk'[c] = disk[c])
      BY <1>1, <1>2, <1>6 DEF Flush, history, TypeOK
    <2>2. CASE d = c
      BY <1>0, <1>4, <2>1, <2>2 DEF Saved, Fate
    <2> QED
      BY <1>3, <1>4, <1>5, <2>1, <2>2
  <1>7. CASE Settle(d)
    <2>1. /\ queue[d] # <<>> /\ queue' = [queue EXCEPT ![d] = Tail(queue[d])] /\ mem' = mem /\ disk' = disk
          /\ ran' = ran /\ work[d] = "settling" /\ work'[d] = "idle"
          /\ d # c => work'[c] = work[c] /\ held'[c] = held[c]
      BY <1>1, <1>2, <1>7 DEF Settle, history, TypeOK, Names, Stages, StageOK
    <2>2. CASE d = c
      <3>1. \A i \in Places(m)' : i \in Nat /\ i >= 1 /\ i + 1 \in Places(m)
        <4>1. \A x \in Entries : \A i \in At(d, x)' : i \in Nat /\ i >= 1 /\ i + 1 \in At(d, x)
          BY <1>1, <2>1, AtPopped
        <4> QED
          BY <1>2, <2>2, <4>1
      <3> QED
        BY <1>0, <2>1, <2>2, <3>1 DEF Advances, Fate
    <2>3. CASE d # c
      <3>1. Places(m)' = Places(m)
        BY <1>1, <1>2, <2>1, <2>3, AtPopped
      <3> QED
        BY <1>3, <1>5, <2>1, <2>3, <3>1
    <2> QED
      BY <2>2, <2>3
  <1>8. CASE Serve(d)
    <2>1. /\ queue[d] # <<>> /\ queue' = [queue EXCEPT ![d] = Tail(queue[d])] /\ mem' = mem /\ disk' = disk
          /\ ran' = ran /\ Working(d, "fetch") /\ Head(queue[d])[1] = "fetch"
      BY <1>8 DEF Serve, Working, history
    <2>2. 1 \in At(d, Head(queue[d])) /\ Head(queue[d]) = <<"fetch", HeadOf(d)>> /\ HeadOf(d) \in Cells \cup {Nothing}
      BY <1>1, <2>1, AtHead, Heads
    <2>3. PICK b : b = HeadOf(d)
      OBVIOUS
    <2>4. b \in Cells => work[b] = "fetching" /\ b # d
      <3>1. b \in Cells => work[b] = "fetching"
        BY <2>2, <2>3 DEF Spaces, Names, Fetches, FetchOK
      <3> QED
        BY <1>1, <2>1, <3>1 DEF Names, Stages, StageOK
    <2>5. \A a \in Cells : a # b => work'[a] = work[a] /\ held'[a] = held[a]
      BY <1>1, <1>8, <2>2, <2>3 DEF Serve, TypeOK
    <2>6. work[d] = "idle"
      BY <1>1, <2>1 DEF Names, Stages, StageOK
    <2>7. CASE d = c
      <3>1. \A i \in Places(m)' : i \in Nat /\ i >= 1 /\ i + 1 \in Places(m)
        <4>1. \A x \in Entries : \A i \in At(d, x)' : i \in Nat /\ i >= 1 /\ i + 1 \in At(d, x)
          BY <1>1, <2>1, AtPopped
        <4> QED
          BY <1>2, <2>7, <4>1
      <3>2. 1 \notin Places(m)
        BY <1>2, <2>1, <2>7
      <3> QED
        BY <1>0, <2>1, <2>4, <2>5, <2>6, <2>7, <3>1, <3>2 DEF Advances, Fate
    <2>8. CASE d # c
      <3>1. Places(m)' = Places(m)
        BY <1>1, <1>2, <2>1, <2>8, AtPopped
      <3>2. 1 \in Places(m) => work'[c] = work[c] /\ held'[c] = held[c]
        BY <1>2, <2>4, <2>5
      <3> QED
        BY <1>3, <1>5, <2>1, <3>1, <3>2
    <2> QED
      BY <2>7, <2>8
  <1>9. CASE Asking(d)
    <2>1. Source(d) \in Cells /\ <<"fetch", d>> \in Entries
      BY <1>1, <1>9, Sources DEF Asking, Entries
    <2>2. /\ queue' = [queue EXCEPT ![Source(d)] = Append(queue[Source(d)], <<"fetch", d>>)]
          /\ mem' = mem /\ disk' = disk /\ ran' = ran /\ held' = held /\ Working(d, "call")
          /\ d # c => work'[c] = work[c]
      BY <1>1, <1>2, <1>9 DEF Asking, history, TypeOK
    <2>3. Places(m)' = Places(m)
      <3>1. \A a \in Cells, x \in Entries : ~(a = Source(d) /\ x = <<"fetch", d>>) => At(a, x)' = At(a, x)
        BY <1>1, <2>1, <2>2, AtPushed
      <3>2. <<"command", m>> # <<"fetch", d>>
        OBVIOUS
      <3> QED
        BY <1>2, <3>1, <3>2
    <2>4. 1 \in Places(m) => d # c
      BY <1>2, <2>2 DEF Working
    <2> QED
      BY <1>3, <1>5, <2>2, <2>3, <2>4
  <1>10. ASSUME d # c, queue' = queue, mem'[c] = mem[c], disk' = disk, ran'[m] = ran[m],
                work'[c] = work[c], held'[c] = held[c]
         PROVE  Fate(m)
    BY <1>3, <1>4, <1>5, <1>10
  <1>11. CASE Starts(d)
    <2>1. /\ Working(d, "command") /\ work[d] = "idle" /\ disk[d] = mem[d] /\ queue' = queue /\ disk' = disk /\ ran' = ran
          /\ mem'[d] = SetState(mem[d], HeadOf(d), "running") /\ work'[d] = "running"
          /\ d # c => mem'[c] = mem[c] /\ work'[c] = work[c] /\ held'[c] = held[c]
      BY <1>1, <1>2, <1>11 DEF Starts, Flushed, history, TypeOK
    <2>2. HeadOf(d) \in Calls /\ "running" \in States
      BY <1>1, <2>1, HeadMade DEF States
    <2>3. PICK s : s = SetState(mem[d], HeadOf(d), "running")
      OBVIOUS
    <2>4. /\ SameLife(mem[d], s) /\ s.fs = mem[d].fs
          /\ \A j \in Calls : j # HeadOf(d) => s.journal[j] = mem[d].journal[j]
          /\ s.journal[HeadOf(d)] = IF Journaled(mem[d], HeadOf(d)) THEN "running" ELSE "none"
      BY <1>1, <2>2, <2>3, SetStates DEF SameLife
    <2>5. CASE d = c /\ HeadOf(d) = m
      BY <1>0, <1>2, <1>4, <2>1, <2>3, <2>4, <2>5 DEF Begun, Worked, Fate
    <2>6. CASE d = c /\ HeadOf(d) # m
      <3>1. SameFor(mem[c], mem'[c], m) /\ 1 \notin Places(m)
        BY <1>2, <2>1, <2>3, <2>4, <2>6 DEF SameFor
      <3> QED
        BY <1>3, <1>4, <2>1, <3>1
    <2> QED
      BY <1>10, <2>1, <2>5, <2>6
  <1>12. ASSUME NEW r, Halts(d, r) PROVE Fate(m)
    <2>1. /\ Working(d, "command") /\ work[d] \in {"idle", "running"} /\ queue' = queue /\ disk' = disk /\ ran' = ran
          /\ mem'[d] = SetState(mem[d], HeadOf(d), r) /\ work'[d] = "settling" /\ held'[d].result = r
          /\ r \in Results \ {"completed"}
          /\ d # c => mem'[c] = mem[c] /\ work'[c] = work[c] /\ held'[c] = held[c]
      BY <1>1, <1>2, <1>12 DEF Halts, history, TypeOK, Results
    <2>2. HeadOf(d) \in Calls /\ r \in States
      BY <1>1, <2>1, HeadMade DEF States
    <2>3. PICK s : s = SetState(mem[d], HeadOf(d), r)
      OBVIOUS
    <2>4. /\ SameLife(mem[d], s) /\ s.fs = mem[d].fs
          /\ \A j \in Calls : j # HeadOf(d) => s.journal[j] = mem[d].journal[j]
          /\ s.journal[HeadOf(d)] = IF Journaled(mem[d], HeadOf(d)) THEN r ELSE "none"
      BY <1>1, <2>2, <2>3, SetStates DEF SameLife
    <2>5. CASE d = c /\ HeadOf(d) = m
      <3>1. Ended(m, r)
        BY <1>0, <1>2, <1>4, <2>1, <2>3, <2>4, <2>5 DEF Ended, Worked
      <3> QED
        BY <3>1 DEF Fate
    <2>6. CASE d = c /\ HeadOf(d) # m
      <3>1. SameFor(mem[c], mem'[c], m) /\ 1 \notin Places(m)
        BY <1>2, <2>1, <2>3, <2>4, <2>6 DEF SameFor
      <3> QED
        BY <1>3, <1>4, <2>1, <3>1
    <2> QED
      BY <1>10, <2>1, <2>5, <2>6
  <1>13. CASE Commits(d)
    <2>1. /\ Working(d, "command") /\ work[d] = "running" /\ queue' = queue /\ disk' = disk
          /\ work'[d] = "settling" /\ held'[d].result = "completed"
          /\ d # c => mem'[c] = mem[c] /\ work'[c] = work[c] /\ held'[c] = held[c]
      BY <1>1, <1>2, <1>13 DEF Commits, TypeOK
    <2>2. HeadOf(d) \in Calls /\ Cell(HeadOf(d)) = d
      BY <1>1, <2>1, HeadMade
    <2>3. ran'[HeadOf(d)] = ran[HeadOf(d)] + 1 /\ \A j \in Calls : j # HeadOf(d) => ran'[j] = ran[j]
      BY <1>1, <1>13, <2>2 DEF Commits, TypeOK
    <2>4. PICK s : s = Committed(d)
      OBVIOUS
    <2>5. /\ SameLife(mem[d], s) /\ s.fs = mem[d].fs \cup {HeadOf(d)} /\ mem'[d] = s
          /\ \A j \in Calls : j # HeadOf(d) => s.journal[j] = mem[d].journal[j]
          /\ s.journal[HeadOf(d)] = IF Journaled(mem[d], HeadOf(d)) THEN "completed" ELSE "none"
      <3>1. held[d].fs = mem[d].fs
        BY <1>1, <2>1 DEF Files
      <3> QED
        BY <1>1, <1>13, <2>4, <3>1, CommitStorage DEF SameLife
    <2>6. CASE HeadOf(d) = m
      BY <1>0, <1>2, <1>4, <2>1, <2>2, <2>3, <2>5, <2>6 DEF Stored, Worked, Fate
    <2>7. CASE d = c /\ HeadOf(d) # m
      <3>1. SameFor(mem[c], mem'[c], m) /\ 1 \notin Places(m)
        BY <1>2, <2>1, <2>5, <2>7 DEF SameFor
      <3> QED
        BY <1>3, <1>4, <2>1, <2>3, <2>7, <3>1
    <2>8. CASE d # c /\ HeadOf(d) # m
      BY <1>10, <2>1, <2>3, <2>8
    <2> QED
      BY <1>0, <2>6, <2>7, <2>8
  <1>14. CASE Crash(d)
    <2>1. /\ disk' = disk /\ ran' = ran /\ mem'[d] = Restarted(disk[d]) /\ (d # c => mem'[c] = mem[c])
          /\ queue' = [a \in Cells |-> IF a = d THEN <<>> ELSE Orphaned(queue[a], d)]
      BY <1>1, <1>2, <1>14 DEF Crash, history, TypeOK
    <2>2. CASE d = c
      <3>1. Places(m)' = {}
        BY <1>1, <1>2, <2>1, <2>2, AtCrashed
      <3> QED
        <4>1. /\ SameLife(disk[c], mem'[c]) /\ mem'[c].fs = disk[c].fs
              /\ mem'[c].journal[m] = IF disk[c].journal[m] \in {"queued", "running"} THEN "interrupted"
                                      ELSE disk[c].journal[m]
          BY <1>2, <2>1, <2>2, Restarts DEF SameLife
        <4> QED
          BY <1>0, <1>14, <2>1, <2>2, <3>1, <4>1 DEF Interrupted, Fate
    <2>3. CASE d # c
      <3>1. Places(m)' = Places(m)
        <4>1. \A x \in Entries : x[1] # "fetch" => At(c, x)' = At(c, x)
          BY <1>1, <1>2, <2>1, <2>3, AtCrashed
        <4> QED
          BY <1>2, <4>1
      <3>2. 1 \in Places(m) => work'[c] = work[c] /\ held'[c] = held[c]
        <4>1. \/ work'[c] = work[c] /\ held'[c] = held[c]
              \/ work[c] = "fetching"
          BY <1>1, <1>2, <1>14, <2>3, QueuesCrash
        <4> QED
          BY <1>2, <4>1
      <3> QED
        BY <1>3, <1>5, <2>1, <2>3, <3>1, <3>2
    <2> QED
      BY <2>2, <2>3
  <1>15. ASSUME NEW s, NEW r, Done(d, s, r), Stores(d, s) PROVE Fate(m)
    <2>1. /\ Working(d, "call") /\ queue' = queue /\ disk' = disk /\ ran' = ran /\ mem'[d] = s
          /\ d # c => mem'[c] = mem[c] /\ work'[c] = work[c] /\ held'[c] = held[c]
      BY <1>1, <1>2, <1>15 DEF Done, history, TypeOK
    <2>2. CASE d # c
      BY <1>10, <2>1, <2>2
    <2>3. CASE d = c
      <3>1. 1 \notin Places(m) /\ Places(m)' = Places(m)
        BY <1>2, <1>4, <2>1, <2>3 DEF Working
      <3>2. ASSUME SameFor(mem[c], s, m) PROVE Fate(m)
        BY <1>3, <2>1, <2>3, <3>1, <3>2
      <3>3. CASE Keeps(d, s)
        <4> DEFINE z == mem[c]
        <4>1. z \in Storages /\ s \in {z, [z EXCEPT !.stopped = FALSE]}
          BY <1>2, <2>3, <3>3 DEF Keeps
        <4>2. SameFor(z, s, m)
          <5> HIDE DEF z
          <5> QED
            BY <4>1 DEF SameFor, SameLife, Storages
        <4> QED
          BY <3>2, <4>2
      <3>4. CASE Writes(d, s)
        <4>1. HeadOf(d) \in Calls /\ HeadOf(d) # m
          BY <1>1, <2>1, <3>4, HeadMade DEF Writes, Executes
        <4>2. mem[c].fs \cup {HeadOf(d)} \in SUBSET Calls
          BY <1>2, <4>1, StorageFields
        <4>3. s.fs = mem[c].fs \cup {HeadOf(d)} /\ SameLife(mem[c], s) /\ s.journal = mem[c].journal
          BY <1>2, <2>3, <3>4, <4>2, SavedFiles DEF Writes, SameLife
        <4> QED
          BY <3>2, <4>1, <4>3 DEF SameFor
      <3>5. CASE Deletes(d, s)
        <4>1. s.deleted /\ s.fs = {} /\ ~Journaled(s, m)
          BY <1>2, <2>3, <3>5, Wipes DEF Deletes
        <4> QED
          BY <1>0, <2>1, <2>3, <3>1, <4>1 DEF Outlived, Fate
      <3>6. CASE Creates(d, s)
        <4>1. PICK fs \in SUBSET Calls :
                /\ s = Recreated(mem[c], fs, lastGen[c] + 1)
                /\ \/ NeedsFiles(c) /\ fs = {}
                   \/ work[c] = "fetched" /\ fs = held[c].fs
          BY <2>3, <3>6 DEF Creates
        <4>2. lastGen[c] + 1 \in Nat /\ calls[m].gen <= lastGen[c] /\ calls[m].gen \in Nat /\ lastGen[c] \in Nat
          <5>1. /\ disk[c].gen \in Nat /\ mem[c].gen \in Nat /\ lastGen[c] \in Nat /\ calls[m].gen \in Nat
            BY <1>1, <1>2, StorageFields, CallFields DEF TypeOK
          <5>2. calls[m].gen <= disk[c].gen /\ disk[c].gen <= mem[c].gen /\ mem[c].gen <= lastGen[c]
            BY <1>0, <1>2 DEF Spaces, Generations, Executes
          <5> QED
            BY <5>1, <5>2
        <4>3. s.gen = lastGen[c] + 1 /\ s.fs = fs /\ s.journal = mem[c].journal
          BY <1>2, <4>1, <4>2, Recreations
        <4>4. s.gen # calls[m].gen
          BY <4>2, <4>3
        <4>5. work[c] = "fetched" => Opening(c) \/ Publishing(c)
          BY <1>1, <1>2 DEF Names, Stages, StageOK
        <4>6. ~Journaled(s, m)
          <5>1. mem[c].gen = 0 \/ mem[c].deleted
            BY <4>1, <4>5 DEF Opening, Publishing, NeedsFiles
          <5>2. ~Journaled(mem[c], m)
            BY <1>2, <5>1 DEF Journals, Gone
          <5> QED
            BY <4>3, <5>2 DEF Journaled
        <4>7. m \notin fs
          <5>1. CASE work[c] = "fetched" /\ fs = held[c].fs
            <6>1. \A k \in fs : KindOf[Cell(k)] = "build"
              BY <1>1, <1>2, <5>1 DEF Files
            <6>2. KindOf[c] # "build"
              BY <4>5, <5>1 DEF Opening, Publishing
            <6> QED
              BY <1>0, <6>1, <6>2
          <5> QED
            BY <4>1, <5>1
        <4> QED
          BY <1>0, <2>1, <2>3, <3>1, <4>3, <4>4, <4>6, <4>7 DEF Outlived, Fate
      <3> QED
        BY <1>15, <3>3, <3>4, <3>5, <3>6 DEF Stores
    <2> QED
      BY <2>2, <2>3
  <1> QED
    BY <1>6, <1>7, <1>8, <1>9, <1>11, <1>12, <1>13, <1>14, <1>15 DEF WorkStep

LEMMA Fates ==
    ASSUME Spaces, Journals, [Next]_vars, NEW m \in Calls, Executes(m), m \notin forgotten'
    PROVE  Fate(m)
  <1>1. TypeOK /\ Names /\ load' = load
    BY SameLoad DEF Spaces, Names, Types
  <1>2. ASSUME UNCHANGED <<mem, disk, queue, work, held, ran>> PROVE Fate(m)
    <2>1. Places(m)' = Places(m)
      BY <1>1, <1>2 DEF Places, At, Cell
    <2> QED
      BY <1>2, <2>1 DEF Unmoved, SameFor, SameLife, Fate
  <1>3. ASSUME NEW k \in Calls, ClientStep(k) PROVE Fate(m)
    BY <1>2, <1>3 DEF ClientStep, Send, Drop, Deliver, Refuse, Replays, history
  <1>4. ASSUME NEW k \in Calls, AcceptStep(k) PROVE Fate(m)
    BY <1>4, FateAccept DEF Fate
  <1>5. ASSUME UNCHANGED vars PROVE Fate(m)
    BY <1>2, <1>5 DEF vars
  <1> QED
    BY <1>1, <1>3, <1>4, <1>5, FateWork, Kinds
-----------------------------------------------------------------------------
(* The journal *)

\* A command that was sent keeps its generation.
LEMMA GenKept ==
    ASSUME Names, [Next]_vars, NEW m \in Calls, Executes(m), calls[m].st # "idle"
    PROVE  calls'[m].gen = calls[m].gen /\ calls'[m].st # "idle"
  BY CallMoves, Sendings DEF Sends, Continues, Executes

LEMMA JournalMoves ==
    ASSUME Spaces, [Next]_vars, NEW c \in Cells, NEW m \in Calls, Journaled(mem'[c], m)
    PROVE  \/ Journaled(mem[c], m) /\ (SameLife(mem[c], mem'[c]) \/ NeedsFiles(c))
           \/ Journaled(disk[c], m) /\ SameLife(disk[c], mem'[c])
           \/ /\ Executes(m) /\ Cell(m) = c /\ Current(c, calls[m].gen) /\ calls[m].st # "idle"
              /\ SameLife(mem[c], mem'[c])
  <1>1. Names /\ Types /\ TypeOK /\ Queued /\ Vias /\ mem[c] \in Storages /\ disk[c] \in Storages
    BY DEF Spaces, Names, Types, TypeOK
  <1>2. ASSUME mem'[c] = mem[c] PROVE Journaled(mem[c], m) /\ SameLife(mem[c], mem'[c])
    BY <1>2 DEF SameLife
  <1>3. ASSUME NEW k \in Calls, ClientStep(k) PROVE mem'[c] = mem[c]
    BY <1>3 DEF ClientStep, Send, Drop, Deliver, Refuse, Replays
  <1>4. ASSUME NEW k \in Calls, AcceptStep(k)
        PROVE  \/ Journaled(mem[c], m) /\ SameLife(mem[c], mem'[c])
               \/ /\ Executes(m) /\ Cell(m) = c /\ Current(c, calls[m].gen) /\ calls[m].st # "idle"
                  /\ SameLife(mem[c], mem'[c])
    <2>1. SameLife(mem[c], mem'[c]) /\ (c # Cell(k) => mem'[c] = mem[c])
      BY <1>1, <1>4, AcceptStorage
    <2>2. calls[k].st = "sent" /\ Made(k) /\ Cell(k) \in Cells
      BY <1>1, <1>4, AcceptFacts
    <2> SUFFICES ASSUME c = Cell(k), ~Journaled(mem[c], m)
                 PROVE  Executes(m) /\ Cell(m) = c /\ Current(c, calls[m].gen) /\ calls[m].st # "idle"
      BY <1>2, <2>1
    <2>3. CASE Enqueues(k)
      BY <2>3 DEF Enqueues
    <2>4. CASE Stopping(k)
      <3>1. mem'[c].journal = mem[c].journal
        BY <1>1, <2>4 DEF Stopping, TypeOK, Storages
      <3> QED
        BY <3>1 DEF Journaled
    <2>5. ASSUME NEW n, Accepts(k, n)
          PROVE Executes(m) /\ Cell(m) = c /\ Current(c, calls[m].gen) /\ calls[m].st # "idle"
      <3>1. mem'[c] = Inserted(mem[c], n, k) /\ Op(k) = "execute" /\ Current(c, calls[k].gen)
        BY <1>1, <2>5 DEF Accepts, TypeOK
      <3>2. m = k
        BY <1>1, <3>1, Insertions DEF Journaled
      <3> QED
        BY <2>2, <3>1, <3>2 DEF Executes
    <2>6. ASSUME NEW n, CancelsEarly(k, n)
          PROVE Executes(m) /\ Cell(m) = c /\ Current(c, calls[m].gen) /\ calls[m].st # "idle"
      <3>0. PICK x : x = load[k].target
        OBVIOUS
      <3>1. mem'[c] = SetState(Inserted(mem[c], n, x), x, "cancelled") /\ Op(k) = "cancel" /\ Current(c, calls[k].gen)
        BY <1>1, <2>6, <3>0 DEF CancelsEarly, TypeOK
      <3>2. x \in Calls /\ Executes(x) /\ Cell(x) = c /\ calls[x].gen = calls[k].gen /\ calls[x].st # "idle"
        BY <1>1, <2>2, <3>0, <3>1, OneGeneration DEF Command
      <3>3. PICK z : z = Inserted(mem[c], n, x)
        OBVIOUS
      <3>4. z \in Storages /\ \A j \in Calls : j # x => z.journal[j] \in {"none", mem[c].journal[j]}
        BY <1>1, <3>2, <3>3, Insertions
      <3>5. Journaled(z, m)
        <4>1. "cancelled" \in States
          BY DEF States, Results
        <4>2. \A j \in Calls : Journaled(SetState(z, x, "cancelled"), j) <=> Journaled(z, j)
          BY <3>2, <3>4, <4>1, SetStates
        <4> QED
          BY <3>1, <3>3, <4>2
      <3>6. m = x
        BY <3>4, <3>5 DEF Journaled
      <3> QED
        BY <3>1, <3>2, <3>6
    <2> QED
      BY <1>4, <2>3, <2>4, <2>5, <2>6 DEF AcceptStep
  <1>5. ASSUME NEW d \in Cells, WorkStep(d)
        PROVE  \/ Journaled(mem[c], m) /\ (SameLife(mem[c], mem'[c]) \/ NeedsFiles(c))
               \/ Journaled(disk[c], m) /\ SameLife(disk[c], mem'[c])
    <2>1. CASE Flush(d) \/ Settle(d) \/ Serve(d) \/ Asking(d)
      BY <1>2, <2>1 DEF Flush, Settle, Serve, Asking
    <2>2. CASE d # c
      <3>1. mem'[c] = mem[c]
        <4>1. \/ Flush(d) \/ Settle(d) \/ Serve(d) \/ Asking(d)
              \/ \E z : mem' = [mem EXCEPT ![d] = z]
          BY <1>5 DEF WorkStep, Starts, Halts, Commits, Done, Crash
        <4> QED
          BY <1>1, <2>2, <4>1 DEF TypeOK, Flush, Settle, Serve, Asking
      <3> QED
        BY <1>2, <3>1
    <2>3. CASE d = c /\ (Starts(c) \/ \E r : Halts(c, r))
      <3>1. PICK r \in States : mem' = [mem EXCEPT ![c] = SetState(mem[c], HeadOf(c), r)]
        BY <2>3 DEF Starts, Halts, States, Results
      <3>2. HeadOf(c) \in Calls /\ mem'[c] = SetState(mem[c], HeadOf(c), r)
        BY <1>1, <2>3, <3>1, HeadMade DEF Starts, Halts, TypeOK
      <3> QED
        BY <1>1, <3>2, SetStates DEF SameLife
    <2>4. CASE d = c /\ Commits(c)
      <3>1. mem'[c] = Committed(c)
        BY <1>1, <2>4, CommitStorage DEF TypeOK
      <3> QED
        BY <1>1, <2>4, <3>1, CommitStorage DEF SameLife
    <2>5. CASE d = c /\ Crash(c)
      <3>1. mem'[c] = Restarted(disk[c])
        BY <1>1, <2>5 DEF Crash, TypeOK
      <3> QED
        BY <1>1, <3>1, Restarts DEF SameLife
    <2>6. ASSUME d = c, NEW s, NEW r, Done(c, s, r), Stores(c, s)
          PROVE  Journaled(mem[c], m) /\ (SameLife(mem[c], mem'[c]) \/ NeedsFiles(c))
      <3>1. mem'[c] = s
        BY <1>1, <2>6 DEF Done, TypeOK
      <3>2. CASE Keeps(c, s)
        <4> DEFINE z == mem[c]
        <4>1. z \in Storages /\ s \in {z, [z EXCEPT !.stopped = FALSE]}
          BY <1>1, <3>2 DEF Keeps
        <4>2. SameLife(z, s) /\ s.journal = z.journal
          <5> HIDE DEF z
          <5> QED
            BY <4>1 DEF SameLife, Storages
        <4> QED
          BY <3>1, <4>2 DEF Journaled
      <3>3. CASE Writes(c, s)
        <4>1. mem[c].fs \cup {HeadOf(c)} \in SUBSET Calls
          BY <1>1, <2>6, StorageFields, HeadMade DEF Done
        <4> QED
          BY <1>1, <3>1, <3>3, <4>1, SavedFiles DEF Writes, SameLife, Journaled
      <3>4. CASE Deletes(c, s)
        BY <1>1, <3>1, <3>4, Wipes DEF Deletes
      <3>5. CASE Creates(c, s)
        <4>1. PICK fs \in SUBSET Calls :
                /\ s = Recreated(mem[c], fs, lastGen[c] + 1)
                /\ NeedsFiles(c) \/ work[c] = "fetched"
          BY <3>5 DEF Creates
        <4>2. NeedsFiles(c)
          BY <1>1, <4>1 DEF Names, Stages, StageOK, Opening, Publishing, NeedsFiles
        <4>3. s.journal = mem[c].journal
          <5>1. lastGen[c] + 1 \in Nat
            BY <1>1 DEF TypeOK
          <5> QED
            BY <1>1, <4>1, <5>1, Recreations
        <4> QED
          BY <3>1, <4>2, <4>3 DEF Journaled
      <3> QED
        BY <2>6, <3>2, <3>3, <3>4, <3>5 DEF Stores
    <2> QED
      BY <1>5, <2>1, <2>2, <2>3, <2>4, <2>5, <2>6 DEF WorkStep
  <1> QED
    BY <1>1, <1>2, <1>3, <1>4, <1>5, Kinds DEF vars

LEMMA JournalsStep ==
    ASSUME Spaces, Journals, [Next]_vars
    PROVE  Journals'
  <1>0. Names /\ Files /\ load' = load /\ Vias
    BY SameLoad DEF Spaces
  <1>1. ASSUME NEW c \in Cells, NEW s \in {mem[c], disk[c]}, NEW m \in Calls, Journaled(s, m)
        PROVE  /\ Executes(m) /\ Cell(m) = c /\ s.gen # 0 /\ ~s.deleted
               /\ s.gen = calls[m].gen /\ calls'[m].gen = calls[m].gen
    <2>1. Executes(m) /\ Cell(m) = c /\ s.gen # 0 /\ ~s.deleted /\ s.gen = calls[m].gen
      BY <1>1 DEF Journals, Gone
    <2>2. calls[m].st # "idle"
      BY <1>0, <2>1 DEF Vias, Unmade
    <2> QED
      BY <1>0, <2>1, <2>2, GenKept
  <1>2. ASSUME NEW c \in Cells, NEW m \in Calls, Journaled(mem'[c], m)
        PROVE  Executes(m) /\ Cell(m) = c /\ mem'[c].gen # 0 /\ ~mem'[c].deleted /\ mem'[c].gen = calls'[m].gen
    <2>1. CASE Journaled(mem[c], m) /\ SameLife(mem[c], mem'[c])
      BY <1>1, <2>1 DEF SameLife
    <2>2. CASE Journaled(mem[c], m) /\ NeedsFiles(c)
      BY <1>1, <2>2 DEF NeedsFiles
    <2>3. CASE Journaled(disk[c], m) /\ SameLife(disk[c], mem'[c])
      BY <1>1, <2>3 DEF SameLife
    <2>4. CASE /\ Executes(m) /\ Cell(m) = c /\ Current(c, calls[m].gen) /\ calls[m].st # "idle"
               /\ SameLife(mem[c], mem'[c])
      BY <1>0, <2>4, GenKept DEF Current, SameLife
    <2> QED
      BY <1>2, <2>1, <2>2, <2>3, <2>4, JournalMoves
  <1>3. ASSUME NEW c \in Cells, NEW m \in Calls, Journaled(disk'[c], m)
        PROVE  Executes(m) /\ Cell(m) = c /\ disk'[c].gen # 0 /\ ~disk'[c].deleted /\ disk'[c].gen = calls'[m].gen
    <2>1. disk'[c] \in {mem[c], disk[c]}
      BY <1>0, StoreMoves DEF Rests, Reverts, Grows, Begins, Ends
    <2> QED
      BY <1>1, <1>3, <2>1
  <1>4. \A m \in Calls : (Executes(m)' <=> Executes(m)) /\ Cell(m)' = Cell(m)
    BY <1>0 DEF Executes, Made, Op, Cell
  <1> QED
    BY <1>2, <1>3, <1>4 DEF Journals, Gone, Journaled
-----------------------------------------------------------------------------
(* Commands *)

\* Storage s keeps command m, of generation gen, from being accepted again.
Knows(s, m, gen) == Journaled(s, m) \/ s.gen # gen \/ s.deleted

LEMMA CommandStep ==
    ASSUME Spaces, Journals, [Next]_vars, NEW m \in Calls, Executes(m), m \notin forgotten', CommandOK(m)
    PROVE  CommandOK(m)'
  <1>0. PICK c : c = Cell(m)
    OBVIOUS
  <1>1. Names /\ load' = load /\ Cell(m)' = c /\ Vias
    BY <1>0, SameLoad DEF Spaces, Cell
  <1>2. PICK P : P = Places(m)
    OBVIOUS
  <1>3. PICK Q : Q = Places(m)'
    OBVIOUS
  <1>4. PICK g : g = calls[m].gen
    OBVIOUS
  <1>5. PICK h : h = calls'[m].gen
    OBVIOUS
  <1>6. /\ mem[c] \in Storages /\ disk[c] \in Storages /\ ran[m] \in Nat
        /\ \A i \in P : i \in Nat /\ i >= 1
    BY <1>0, <1>1, <1>2, PlaceFacts DEF Names, Types, TypeOK
  <1>7. /\ calls[m].st = "idle" => P = {} /\ ran[m] = 0
        /\ \A i, j \in P : i = j
        /\ P # {} => Knows(mem[c], m, g)
        /\ (\E i \in P : ~(i = 1 /\ work[c] = "settling")) => ran[m] = 0 /\ mem[c].journal[m] \notin Results
        /\ 1 \in P /\ work[c] = "running" => Knows(disk[c], m, g)
        /\ 1 \in P /\ work[c] = "settling" =>
             held[c].result \in Results /\ (held[c].result = "completed" <=> m \in mem[c].fs)
        /\ ran[m] # 0 => ran[m] = 1 /\ Knows(mem[c], m, g) /\ Knows(disk[c], m, g)
        /\ ran[m] = 0 => m \notin mem[c].fs /\ m \notin disk[c].fs
        /\ Agrees(mem[c], m) /\ Agrees(disk[c], m)
    BY <1>0, <1>2, <1>4 DEF CommandOK, AtRest, Remembers, Gone, Knows
  <1> SUFFICES
        /\ calls'[m].st = "idle" => Q = {} /\ ran'[m] = 0
        /\ \A i, j \in Q : i = j
        /\ Q # {} => Knows(mem'[c], m, h)
        /\ (\E i \in Q : ~(i = 1 /\ work'[c] = "settling")) => ran'[m] = 0 /\ mem'[c].journal[m] \notin Results
        /\ 1 \in Q /\ work'[c] = "running" => Knows(disk'[c], m, h)
        /\ 1 \in Q /\ work'[c] = "settling" =>
             held'[c].result \in Results /\ (held'[c].result = "completed" <=> m \in mem'[c].fs)
        /\ ran'[m] # 0 => ran'[m] = 1 /\ Knows(mem'[c], m, h) /\ Knows(disk'[c], m, h)
        /\ ran'[m] = 0 => m \notin mem'[c].fs /\ m \notin disk'[c].fs
        /\ Agrees(mem'[c], m) /\ Agrees(disk'[c], m)
    BY <1>1, <1>3, <1>5 DEF CommandOK, AtRest, Remembers, Gone, Knows, Agrees, Journaled
  <1>8. (calls[m].st # "idle" => h = g) /\ (calls'[m].st = "idle" => calls[m].st = "idle")
    <2>1. calls[m].st # "idle" => calls'[m].gen = calls[m].gen /\ calls'[m].st # "idle"
      BY <1>1, GenKept
    <2> QED
      BY <1>4, <1>5, <2>1
  <1>9. ASSUME P # {} \/ ran[m] # 0 PROVE h = g
    BY <1>7, <1>8, <1>9
  <1>10. CASE Unmoved(m)
    <2>1. /\ Q = P /\ ran'[m] = ran[m]
          /\ 1 \in P => work'[c] = work[c] /\ held'[c].result = held[c].result
          /\ SameLife(mem[c], mem'[c]) /\ mem'[c].journal[m] = mem[c].journal[m]
          /\ (m \in mem'[c].fs <=> m \in mem[c].fs) /\ disk'[c] = disk[c]
      BY <1>0, <1>2, <1>3, <1>10 DEF Unmoved, SameFor
    <2>2. Knows(mem[c], m, g) /\ h = g => Knows(mem'[c], m, h)
      BY <2>1 DEF Knows, Journaled, SameLife
    <2>3. Knows(disk[c], m, g) /\ h = g => Knows(disk'[c], m, h)
      BY <2>1
    <2>4. Agrees(mem'[c], m) /\ Agrees(disk'[c], m)
      BY <1>7, <2>1 DEF Agrees, Journaled
    <2>5. /\ Q # {} => Knows(mem'[c], m, h)
          /\ 1 \in Q /\ work'[c] = "running" => Knows(disk'[c], m, h)
          /\ ran'[m] # 0 => ran'[m] = 1 /\ Knows(mem'[c], m, h) /\ Knows(disk'[c], m, h)
      BY <1>7, <1>9, <2>1, <2>2, <2>3
    <2>6. (\E i \in Q : ~(i = 1 /\ work'[c] = "settling")) => ran'[m] = 0 /\ mem'[c].journal[m] \notin Results
      BY <1>7, <2>1
    <2>7. 1 \in Q /\ work'[c] = "settling" =>
             held'[c].result \in Results /\ (held'[c].result = "completed" <=> m \in mem'[c].fs)
      BY <1>7, <2>1
    <2> QED
      BY <1>7, <1>8, <2>1, <2>4, <2>5, <2>6, <2>7
  <1>11. CASE Saved(m)
    BY <1>0, <1>2, <1>3, <1>7, <1>8, <1>9, <1>11 DEF Saved, Knows, Journaled, Agrees
  <1>12. CASE Accepted(m)
    <2>1. ~Knows(mem[c], m, g) /\ calls'[m].st # "idle" /\ calls[m].st # "idle"
      BY <1>0, <1>4, <1>12 DEF Accepted, Remembers, Gone, Knows
    <2>2. P = {} /\ ran[m] = 0
      BY <1>7, <2>1
    <2>3. PICK i \in Nat : Q = {i} /\ (i = 1 => work[c] = "idle")
      BY <1>0, <1>2, <1>3, <1>12, <2>2 DEF Accepted
    <2>4. /\ ran'[m] = 0 /\ work'[c] = work[c] /\ disk'[c] = disk[c] /\ SameLife(mem[c], mem'[c])
          /\ mem'[c].journal[m] = "queued" /\ mem'[c].fs = mem[c].fs
      BY <1>0, <1>12, <2>2 DEF Accepted
    <2>5. Knows(mem'[c], m, h) /\ mem'[c].journal[m] \notin Results /\ Agrees(mem'[c], m)
      BY <1>7, <2>2, <2>4 DEF Knows, Journaled, Results, Agrees
    <2> QED
      BY <1>7, <2>1, <2>2, <2>3, <2>4, <2>5
  <1>13. CASE CancelledEarly(m)
    <2>1. ~Knows(mem[c], m, g) /\ calls[m].st # "idle"
      BY <1>0, <1>4, <1>13 DEF CancelledEarly, Remembers, Gone, Knows
    <2>2. P = {} /\ ran[m] = 0
      BY <1>7, <2>1
    <2>3. /\ Q = {} /\ ran'[m] = 0 /\ disk'[c] = disk[c] /\ mem'[c].journal[m] = "cancelled" /\ mem'[c].fs = mem[c].fs
      BY <1>0, <1>2, <1>3, <1>13, <2>2 DEF CancelledEarly
    <2>4. Agrees(mem'[c], m)
      BY <1>7, <2>2, <2>3 DEF Agrees
    <2> QED
      BY <1>7, <2>2, <2>3, <2>4
  <1>14. CASE Advances(m)
    <2>1. /\ \A i \in Q : i \in Nat /\ i >= 1 /\ i + 1 \in P
          /\ work'[c] = "idle" /\ ran'[m] = ran[m] /\ mem' = mem /\ disk' = disk
      BY <1>0, <1>2, <1>3, <1>14 DEF Advances
    <2>2. \A i, j \in Q : i = j
      <3> SUFFICES ASSUME NEW i \in Q, NEW j \in Q PROVE i = j
        OBVIOUS
      <3>1. i \in Nat /\ j \in Nat /\ i + 1 = j + 1
        BY <1>7, <2>1
      <3> QED
        BY <3>1
    <2>3. Q # {} => P # {} /\ (\E i \in P : ~(i = 1 /\ work[c] = "settling"))
      <3> SUFFICES ASSUME NEW i \in Q PROVE i + 1 \in P /\ i + 1 # 1
        OBVIOUS
      <3> QED
        BY <2>1
    <2>4. calls'[m].st = "idle" => Q = {} /\ ran'[m] = 0
      BY <1>7, <1>8, <2>1, <2>3
    <2> QED
      BY <1>7, <1>9, <2>1, <2>2, <2>3, <2>4
  <1>15. CASE Begun(m)
    <2>1. /\ 1 \in P /\ Q = P /\ work[c] \in {"idle", "running"} /\ disk' = disk /\ SameLife(mem[c], mem'[c])
          /\ mem'[c].journal[m] = IF Journaled(mem[c], m) THEN "running" ELSE "none"
          /\ work'[c] = "running" /\ disk[c] = mem[c] /\ mem'[c].fs = mem[c].fs /\ ran'[m] = ran[m]
      BY <1>0, <1>2, <1>3, <1>15 DEF Begun, Worked
    <2>2. ran[m] = 0 /\ h = g /\ Knows(mem[c], m, g)
      BY <1>7, <1>9, <2>1
    <2>3. Knows(mem'[c], m, h) /\ Knows(disk'[c], m, h)
      BY <2>1, <2>2 DEF Knows, SameLife, Journaled
    <2>4. mem'[c].journal[m] \notin Results /\ Agrees(mem'[c], m)
      BY <1>7, <2>1, <2>2 DEF Results, Agrees
    <2> QED
      BY <1>7, <1>8, <2>1, <2>2, <2>3, <2>4
  <1>16. ASSUME NEW r, Ended(m, r) PROVE
        /\ calls'[m].st = "idle" => Q = {} /\ ran'[m] = 0
        /\ \A i, j \in Q : i = j
        /\ Q # {} => Knows(mem'[c], m, h)
        /\ (\E i \in Q : ~(i = 1 /\ work'[c] = "settling")) => ran'[m] = 0 /\ mem'[c].journal[m] \notin Results
        /\ 1 \in Q /\ work'[c] = "running" => Knows(disk'[c], m, h)
        /\ 1 \in Q /\ work'[c] = "settling" =>
             held'[c].result \in Results /\ (held'[c].result = "completed" <=> m \in mem'[c].fs)
        /\ ran'[m] # 0 => ran'[m] = 1 /\ Knows(mem'[c], m, h) /\ Knows(disk'[c], m, h)
        /\ ran'[m] = 0 => m \notin mem'[c].fs /\ m \notin disk'[c].fs
        /\ Agrees(mem'[c], m) /\ Agrees(disk'[c], m)
    <2>1. /\ 1 \in P /\ Q = P /\ work[c] \in {"idle", "running"} /\ disk' = disk /\ SameLife(mem[c], mem'[c])
          /\ mem'[c].journal[m] = IF Journaled(mem[c], m) THEN r ELSE "none"
          /\ work'[c] = "settling" /\ held'[c].result = r /\ r \in Results \ {"completed"}
          /\ mem'[c].fs = mem[c].fs /\ ran'[m] = ran[m]
      BY <1>0, <1>2, <1>3, <1>16 DEF Ended, Worked
    <2>2. ran[m] = 0 /\ h = g /\ Knows(mem[c], m, g) /\ Q = {1}
      BY <1>7, <1>9, <2>1
    <2>3. Knows(mem'[c], m, h)
      BY <2>1, <2>2 DEF Knows, SameLife, Journaled, Results
    <2>4. Agrees(mem'[c], m)
      BY <1>7, <2>1, <2>2 DEF Results, Agrees
    <2> QED
      BY <1>7, <1>8, <2>1, <2>2, <2>3, <2>4
  <1>17. CASE Stored(m)
    <2>1. /\ 1 \in P /\ Q = P /\ work[c] = "running" /\ disk' = disk /\ SameLife(mem[c], mem'[c])
          /\ mem'[c].journal[m] = IF Journaled(mem[c], m) THEN "completed" ELSE "none"
          /\ work'[c] = "settling" /\ held'[c].result = "completed"
          /\ m \in mem'[c].fs /\ ran'[m] = ran[m] + 1
      BY <1>0, <1>2, <1>3, <1>17 DEF Stored, Worked
    <2>2. ran[m] = 0 /\ h = g /\ Knows(mem[c], m, g) /\ Q = {1} /\ Knows(disk[c], m, g)
      BY <1>7, <1>9, <2>1
    <2>3. Knows(mem'[c], m, h) /\ Knows(disk'[c], m, h)
      BY <2>1, <2>2 DEF Knows, SameLife, Journaled
    <2>4. Agrees(mem'[c], m) /\ ran'[m] = 1
      BY <2>1, <2>2 DEF Agrees, Journaled
    <2>5. calls[m].st # "idle"
      BY <1>7, <2>1
    <2> QED
      BY <1>7, <1>8, <2>1, <2>2, <2>3, <2>4, <2>5 DEF Results
  <1>18. CASE Outlived(m)
    <2>1. /\ 1 \notin P /\ Q = P /\ disk' = disk /\ ran'[m] = ran[m]
          /\ mem'[c].gen # g \/ mem'[c].deleted
          /\ m \notin mem'[c].fs /\ ~Journaled(mem'[c], m)
      BY <1>0, <1>2, <1>3, <1>4, <1>18 DEF Outlived
    <2>2. mem'[c].journal[m] \notin Results /\ Agrees(mem'[c], m)
      BY <2>1 DEF Journaled, Results, Agrees
    <2>3. P # {} \/ ran[m] # 0 => Knows(mem'[c], m, h)
      BY <1>9, <2>1 DEF Knows
    <2> QED
      BY <1>7, <1>8, <1>9, <2>1, <2>2, <2>3
  <1>19. CASE Interrupted(m)
    <2>1. /\ Q = {} /\ disk' = disk /\ ran'[m] = ran[m]
          /\ SameLife(disk[c], mem'[c]) /\ mem'[c].fs = disk[c].fs
          /\ mem'[c].journal[m] = IF disk[c].journal[m] \in {"queued", "running"} THEN "interrupted"
                                  ELSE disk[c].journal[m]
      BY <1>0, <1>3, <1>19 DEF Interrupted
    <2>2. Agrees(mem'[c], m) /\ (Knows(disk[c], m, h) => Knows(mem'[c], m, h))
      BY <1>7, <2>1 DEF Agrees, Journaled, Knows, SameLife
    <2> QED
      BY <1>7, <1>8, <1>9, <2>1, <2>2
  <1> QED
    BY <1>10, <1>11, <1>12, <1>13, <1>14, <1>15, <1>16, <1>17, <1>18, <1>19, Fates DEF Fate
LEMMA ForgottenGrows ==
    ASSUME Types, [Next]_vars
    PROVE  forgotten \subseteq forgotten'
  <1>1. ASSUME NEW k \in Calls, ClientStep(k) PROVE forgotten' = forgotten
    BY <1>1 DEF ClientStep, Send, Drop, Deliver, Refuse, Replays, history
  <1>2. ASSUME NEW k \in Calls, AcceptStep(k) PROVE forgotten \subseteq forgotten'
    BY <1>2, AcceptStorage
  <1>3. ASSUME NEW c \in Cells, WorkStep(c) PROVE forgotten' = forgotten
    BY <1>3 DEF WorkStep, Flush, Settle, Serve, Asking, Starts, Commits, Crash, Done, Halts, history
  <1>4. CASE UNCHANGED vars
    BY <1>4 DEF vars
  <1> QED
    BY <1>1, <1>2, <1>3, <1>4, Kinds DEF Types

LEMMA ExecutionsInit == Init => Journals /\ Executions
  <1> SUFFICES ASSUME Init PROVE Journals /\ Executions
    OBVIOUS
  <1>1. \A c \in Cells : mem[c] = Fresh /\ disk[c] = Fresh /\ queue[c] = <<>>
    BY DEF Init
  <1>2. \A m \in Calls : ran[m] = 0 /\ ~Journaled(Fresh, m) /\ m \notin Fresh.fs /\ Fresh.journal[m] \notin Results
    BY DEF Init, Fresh, Journaled, Results
  <1>3. \A m \in Calls : Made(m) => Cell(m) \in Cells
    BY TypesInit, Asks DEF Types, TypeOK
  <1>4. Journals
    BY <1>1, <1>2 DEF Journals
  <1>5. ASSUME NEW m \in Calls, Executes(m) PROVE CommandOK(m)
    <2>1. Cell(m) \in Cells
      BY <1>3, <1>5 DEF Executes
    <2>2. Places(m) = {}
      BY <1>1, <2>1 DEF Places, At
    <2> QED
      BY <1>1, <1>2, <2>1, <2>2 DEF CommandOK, AtRest, Agrees
  <1> QED
    BY <1>4, <1>5 DEF Executions

LEMMA ExecutionsStep ==
    ASSUME Spaces, Journals, Executions, [Next]_vars
    PROVE  Executions'
  <1>1. load' = load /\ forgotten \subseteq forgotten'
    BY SameLoad, ForgottenGrows DEF Spaces, Names
  <1> SUFFICES ASSUME NEW m \in Calls, m \notin forgotten', Executes(m)' PROVE CommandOK(m)'
    BY DEF Executions
  <1>2. Executes(m) /\ m \notin forgotten
    BY <1>1 DEF Executes, Made, Op
  <1>3. CommandOK(m)
    BY <1>2 DEF Executions
  <1> QED
    BY <1>2, <1>3, CommandStep-----------------------------------------------------------------------------
(* Answers *)

\* How a request for a command comes to have a result as its answer.
Delivered(k) ==
    LET c == Cell(k) IN
    /\ calls[k].st = "gated" /\ calls'[k].st = "done" /\ calls'[k].answer = calls[k].answer
    /\ disk[c] = mem[c] /\ UNCHANGED <<mem, disk, queue, work>>

Replayed(k) ==
    LET c == Cell(k) m == Command(k) IN
    /\ calls[k].st = "sent" /\ calls'[k].st = "gated"
    /\ calls'[k].answer = mem[c].journal[m] /\ mem[c].journal[m] \in Results
    /\ UNCHANGED <<mem, disk, queue, work>>

Overtaken(k) ==
    LET c == Cell(k) m == Command(k) IN
    /\ calls[k].st = "sent" /\ calls'[k].st = "gated" /\ calls'[k].answer = "cancelled"
    /\ ~Journaled(mem[c], m) /\ Current(c, calls[k].gen) /\ Journaled(mem'[c], m)
    /\ SameLife(mem[c], mem'[c]) /\ mem'[c].fs = mem[c].fs
    /\ UNCHANGED <<disk, queue, work>>

Concluded(k) ==
    LET c == Cell(k) m == Command(k) IN
    /\ calls[k].st = "joined" /\ calls'[k].st = "done" /\ calls'[k].answer = held[c].result
    /\ Working(c, "command") /\ HeadOf(c) = m /\ work[c] = "settling" /\ disk[c] = mem[c] /\ Settle(c)

LEMMA AnswerMoves ==
    ASSUME Spaces, [Next]_vars, NEW k \in Calls, Made(k), Op(k) \in {"execute", "cancel"}
    PROVE  calls'[k].st \in {"gated", "done"} /\ calls'[k].answer \in Results =>
             calls'[k] = calls[k] \/ Delivered(k) \/ Replayed(k) \/ Overtaken(k) \/ Concluded(k)
  <1>0. Names /\ Types /\ TypeOK /\ calls[k] \in Requests /\ calls \in [Calls -> Requests]
    BY DEF Spaces, Names, Types, TypeOK
  <1>10. \A st, a : calls' = [calls EXCEPT ![k].st = st, ![k].answer = a] =>
                    calls'[k].st = st /\ calls'[k].answer = a
    <2> SUFFICES ASSUME NEW st, NEW a, calls' = [calls EXCEPT ![k].st = st, ![k].answer = a]
                 PROVE  calls'[k].st = st /\ calls'[k].answer = a
      OBVIOUS
    <2> DEFINE q == calls[k]
               r == [q EXCEPT !.st = st, !.answer = a]
    <2>1. calls'[k] = r /\ q \in Requests
      BY <1>0
    <2>2. r.st = st /\ r.answer = a
      <3> HIDE DEF q
      <3> QED
        BY <2>1 DEF Requests
    <2> QED
      BY <2>1, <2>2
  <1>11. \A st : calls' = [calls EXCEPT ![k].st = st] => calls'[k].st = st /\ calls'[k].answer = calls[k].answer
    BY <1>0, Moved
  <1> SUFFICES ASSUME calls'[k].st \in {"gated", "done"}, calls'[k].answer \in Results
               PROVE  calls'[k] = calls[k] \/ Delivered(k) \/ Replayed(k) \/ Overtaken(k) \/ Concluded(k)
    OBVIOUS
  <1>1. PICK c : c = Cell(k)
    OBVIOUS
  <1>2. PICK m : m = Command(k)
    OBVIOUS
  <1>3. c \in Cells /\ m \in Calls /\ Executes(m) /\ Cell(m) = c /\ mem[c] \in Storages
    BY <1>0, <1>1, <1>2, Asks DEF Command, TypeOK, Executes
  <1>4. ASSUME calls[k].st # "idle", calls'[k] = Failed(calls[k], Op(k)) PROVE FALSE
    <2>1. Failed(calls[k], Op(k)).answer \in {"none", "lost"}
      BY <1>0, Failures
    <2> QED
      BY <1>4, <2>1 DEF Results
  <1>5. ASSUME NEW j \in Calls, ClientStep(j) \/ AcceptStep(j), j # k PROVE calls'[k] = calls[k]
    BY <1>0, <1>5 DEF ClientStep, AcceptStep, Send, Drop, Deliver, Refuse, Reply, Replays, Enqueues,
                      Stopping, Accepts, CancelsEarly
  <1>6. ASSUME ClientStep(k) PROVE Delivered(k) \/ Replayed(k)
    <2>1. CASE Drop(k)
      BY <1>0, <1>4, <2>1 DEF Drop
    <2>2. CASE Deliver(k)
      <3>1. /\ calls[k].st = "gated" /\ calls' = [calls EXCEPT ![k].st = "done"]
            /\ disk[c] = mem[c] /\ UNCHANGED <<mem, disk, queue, work>>
        BY <1>1, <2>2 DEF Deliver, Flushed
      <3>2. calls'[k].st = "done" /\ calls'[k].answer = calls[k].answer
        BY <1>11, <3>1
      <3> QED
        BY <1>1, <3>1, <3>2 DEF Delivered
    <2>3. CASE calls[k].st = "sent" /\ Refuse(k)
      <3>1. calls' = [calls EXCEPT ![k].st = "done", ![k].answer = "error"]
        BY <2>3 DEF Refuse, Reply
      <3>2. calls'[k].answer = "error"
        BY <1>10, <3>1
      <3> QED
        BY <3>2 DEF Results
    <2>4. CASE Replays(k)
      <3>0. PICK x : x = mem[c].journal[m]
        OBVIOUS
      <3>1. /\ calls[k].st = "sent" /\ UNCHANGED <<mem, disk, queue, work>>
            /\ \/ x \in Results /\ calls' = [calls EXCEPT ![k].st = "gated", ![k].answer = x]
               \/ calls' = [calls EXCEPT ![k].st = "joined"]
               \/ calls' = [calls EXCEPT ![k].st = "done", ![k].answer = "error"]
        BY <1>1, <1>2, <2>4, <3>0 DEF Replays
      <3>2. CASE x \in Results /\ calls' = [calls EXCEPT ![k].st = "gated", ![k].answer = x]
        <4>1. calls'[k].st = "gated" /\ calls'[k].answer = x
          BY <1>10, <3>2
        <4> QED
          BY <1>1, <1>2, <3>0, <3>1, <3>2, <4>1 DEF Replayed
      <3>3. CASE calls' = [calls EXCEPT ![k].st = "joined"]
        BY <1>11, <3>3
      <3>4. CASE calls' = [calls EXCEPT ![k].st = "done", ![k].answer = "error"]
        <4>1. calls'[k].answer = "error"
          BY <1>10, <3>4
        <4> QED
          BY <4>1 DEF Results
      <3> QED
        BY <3>1, <3>2, <3>3, <3>4
    <2>5. ASSUME NEW h \in Calls \cup {Nothing}, Send(k, h) PROVE FALSE
      BY <1>0, <2>5, Sendings
    <2> QED
      BY <1>6, <2>1, <2>2, <2>3, <2>4, <2>5 DEF ClientStep
  <1>7. ASSUME AcceptStep(k) PROVE Overtaken(k)
    <2>1. calls[k].st = "sent" /\ SameLife(mem[c], mem'[c]) /\ mem'[c].fs = mem[c].fs /\ disk' = disk /\ work' = work
      BY <1>0, <1>1, <1>3, <1>7, AcceptFacts, AcceptStorage
    <2>2. ASSUME NEW n, CancelsEarly(k, n) PROVE Overtaken(k)
      <3>1. /\ calls' = [calls EXCEPT ![k].st = "gated", ![k].answer = "cancelled"]
            /\ ~Journaled(mem[c], m) /\ Current(c, calls[k].gen) /\ queue' = queue
            /\ mem'[c] = SetState(Inserted(mem[c], n, m), m, "cancelled")
        BY <1>0, <1>1, <1>2, <1>3, <2>2 DEF CancelsEarly, Command, TypeOK
      <3>2. calls'[k].st = "gated" /\ calls'[k].answer = "cancelled"
        BY <1>10, <3>1
      <3>3. Inserted(mem[c], n, m) \in Storages /\ Journaled(Inserted(mem[c], n, m), m)
        BY <1>3, Insertions DEF Journaled
      <3>4. Journaled(mem'[c], m)
        <4>1. "cancelled" \in States
          BY DEF States, Results
        <4>2. Journaled(SetState(Inserted(mem[c], n, m), m, "cancelled"), m)
          BY <1>3, <3>3, <4>1, SetStates
        <4> QED
          BY <3>1, <4>2
      <3> QED
        BY <1>1, <1>2, <2>1, <3>1, <3>2, <3>4 DEF Overtaken
    <2>3. CASE calls' = [calls EXCEPT ![k].st = "joined"]
      BY <1>11, <2>3
    <2>4. Op(k) \notin {"open", "publish", "write", "stop", "delete"}
      OBVIOUS
    <2> QED
      BY <1>7, <2>2, <2>3, <2>4 DEF AcceptStep, Enqueues, Stopping, Accepts
  <1>8. ASSUME NEW d \in Cells, WorkStep(d) PROVE calls'[k] = calls[k] \/ Concluded(k)
    <2>1. CASE Flush(d) \/ Serve(d) \/ Asking(d) \/ Starts(d) \/ Commits(d)
               \/ (\E s, r : Done(d, s, r)) \/ \E r : Halts(d, r)
      BY <2>1 DEF Flush, Serve, Asking, Starts, Commits, Done, Halts
    <2>2. CASE Settle(d)
      <3>1. calls'[k] = IF k \in Waiting(d) THEN Settled(d, k) ELSE calls[k]
        BY <1>0, <2>2, SettleCalls
      <3>2. CASE k \in Waiting(d)
        <4>1. work[d] = "settling" /\ disk[d] = mem[d]
          BY <2>2 DEF Settle, Flushed
        <4>2. /\ d = c /\ Working(c, "command") /\ HeadOf(c) = m /\ calls[k].st = "joined"
          BY <1>0, <1>1, <1>2, <3>2, <4>1, Waiters
        <4>3. /\ Settled(d, k).st = "done" /\ Settled(d, k).answer = held[d].result
          BY <1>0, Settlements
        <4> QED
          BY <1>1, <1>2, <2>2, <3>1, <3>2, <4>1, <4>2, <4>3 DEF Concluded
      <3> QED
        BY <3>1, <3>2
    <2>3. CASE Crash(d)
      <3>1. calls'[k] = calls[k] \/ (calls[k].st # "idle" /\ calls'[k] = Failed(calls[k], Op(k)))
        BY <2>3 DEF Crash
      <3> QED
        BY <1>4, <3>1
    <2> QED
      BY <1>8, <2>1, <2>2, <2>3 DEF WorkStep
  <1>9. CASE UNCHANGED vars
    BY <1>9 DEF vars
  <1> QED
    BY <1>0, <1>5, <1>6, <1>7, <1>8, <1>9, Kinds
\* Storage s holds the changes of command m, or its generation is over there.
Shows(s, m, gen) == m \in s.fs \/ s.gen # gen \/ s.deleted

\* Once a command is settled, with a result or without, nothing but a crash can
\* change that, and only where the disk does not say the same.
LEMMA RejectionStays ==
    ASSUME Names, load' = load, NEW m \in Calls, Executes(m), Fate(m),
           NEW c, c = Cell(m), NEW g, g = calls[m].gen,
           AtRest(m), m \notin mem[c].fs, Knows(mem[c], m, g),
           Interrupted(m) => m \notin disk[c].fs /\ Knows(disk[c], m, g)
    PROVE  /\ \A i \in Places(m)' : i = 1 /\ work'[c] = "settling"
           /\ m \notin mem'[c].fs /\ Knows(mem'[c], m, g)
           /\ disk'[c] \in {mem[c], disk[c]}
  <1>1. PICK P : P = Places(m)
    OBVIOUS
  <1>2. PICK Q : Q = Places(m)'
    OBVIOUS
  <1>3. /\ \A i \in P : i = 1 /\ work[c] = "settling"
        /\ ~(~Remembers(mem[c], m)) /\ ~(1 \in P /\ work[c] \in {"idle", "running"})
    BY <1>1 DEF AtRest, Knows, Remembers, Gone
  <1> SUFFICES /\ \A i \in Q : i = 1 /\ work'[c] = "settling"
               /\ m \notin mem'[c].fs /\ Knows(mem'[c], m, g)
               /\ disk'[c] \in {mem[c], disk[c]}
    BY <1>2
  <1>4. CASE Unmoved(m)
    <2>1. /\ Q = P /\ (1 \in P => work'[c] = work[c]) /\ disk'[c] = disk[c]
          /\ SameLife(mem[c], mem'[c]) /\ mem'[c].journal[m] = mem[c].journal[m]
          /\ (m \in mem'[c].fs <=> m \in mem[c].fs)
      BY <1>1, <1>2, <1>4 DEF Unmoved, SameFor
    <2>2. Knows(mem'[c], m, g)
      BY <2>1 DEF Knows, Journaled, SameLife
    <2> QED
      BY <1>3, <2>1, <2>2
  <1>5. CASE Saved(m)
    BY <1>1, <1>2, <1>3, <1>5 DEF Saved
  <1>6. CASE Advances(m)
    <2>1. /\ \A i \in Q : i \in Nat /\ i >= 1 /\ i + 1 \in P
          /\ mem' = mem /\ disk' = disk
      BY <1>1, <1>2, <1>6 DEF Advances
    <2>2. Q = {}
      BY <1>3, <2>1
    <2> QED
      BY <2>1, <2>2
  <1>7. CASE Outlived(m)
    <2>1. /\ 1 \notin P /\ Q = P /\ disk' = disk /\ m \notin mem'[c].fs
          /\ mem'[c].gen # g \/ mem'[c].deleted
      BY <1>1, <1>2, <1>7 DEF Outlived
    <2> QED
      BY <1>3, <2>1 DEF Knows
  <1>8. CASE Interrupted(m)
    <2>1. /\ Q = {} /\ disk' = disk /\ SameLife(disk[c], mem'[c]) /\ mem'[c].fs = disk[c].fs
          /\ mem'[c].journal[m] = IF disk[c].journal[m] \in {"queued", "running"} THEN "interrupted"
                                  ELSE disk[c].journal[m]
      BY <1>2, <1>8 DEF Interrupted
    <2>2. Knows(mem'[c], m, g)
      BY <1>8, <2>1 DEF Knows, Journaled, SameLife
    <2> QED
      BY <1>8, <2>1, <2>2
  <1>9. ~Accepted(m) /\ ~CancelledEarly(m)
    BY <1>3 DEF Accepted, CancelledEarly
  <1>10. ~Begun(m) /\ ~Stored(m) /\ \A r : ~Ended(m, r)
    BY <1>1, <1>3 DEF Begun, Stored, Ended, Worked
  <1> QED
    BY <1>4, <1>5, <1>6, <1>7, <1>8, <1>9, <1>10 DEF Fate

LEMMA CompletionStays ==
    ASSUME Names, load' = load, NEW m \in Calls, Executes(m), Fate(m),
           NEW c, c = Cell(m), NEW g, g = calls[m].gen,
           Shows(mem[c], m, g), Interrupted(m) => Shows(disk[c], m, g)
    PROVE  Shows(mem'[c], m, g) /\ disk'[c] \in {mem[c], disk[c]}
  <1>1. CASE Unmoved(m)
    BY <1>1 DEF Unmoved, SameFor, SameLife, Shows
  <1>2. CASE Saved(m)
    BY <1>2 DEF Saved
  <1>3. CASE Advances(m)
    BY <1>3 DEF Advances
  <1>4. CASE Accepted(m)
    BY <1>4 DEF Accepted, SameLife, Shows
  <1>5. CASE CancelledEarly(m)
    BY <1>5 DEF CancelledEarly, SameLife, Shows
  <1>6. CASE Outlived(m)
    BY <1>6 DEF Outlived, Shows
  <1>7. CASE Interrupted(m)
    BY <1>7 DEF Interrupted, SameLife, Shows
  <1>8. CASE Begun(m)
    BY <1>8 DEF Begun, Worked, SameLife, Shows
  <1>9. CASE Stored(m)
    BY <1>9 DEF Stored, Worked, Shows
  <1>10. ASSUME NEW r, Ended(m, r) PROVE Shows(mem'[c], m, g) /\ disk'[c] \in {mem[c], disk[c]}
    BY <1>10 DEF Ended, Worked, SameLife, Shows
  <1> QED
    BY <1>1, <1>2, <1>3, <1>4, <1>5, <1>6, <1>7, <1>8, <1>9, <1>10 DEF Fate
LEMMA AnswersStep ==
    ASSUME Spaces, Journals, Executions, Answered, [Next]_vars
    PROVE  Answered'
  <1>1. Names /\ Vias /\ TypeOK /\ load' = load /\ forgotten \subseteq forgotten'
    BY SameLoad, ForgottenGrows DEF Spaces, Names, Types
  <1> SUFFICES ASSUME NEW k \in Calls, Made(k)', (Op(k) \in {"execute", "cancel"})',
                      (Command(k) \notin forgotten)', calls'[k].st \in {"gated", "done"}
               PROVE  AnswerOK(k)'
    BY DEF Answered
  <1>2. PICK c : c = Cell(k)
    OBVIOUS
  <1>3. PICK m : m = Command(k)
    OBVIOUS
  <1>4. /\ Made(k) /\ Op(k) \in {"execute", "cancel"} /\ Cell(k)' = c /\ Command(k)' = m
        /\ m \notin forgotten' /\ m \notin forgotten
    BY <1>1, <1>2, <1>3 DEF Made, Op, Cell, Command
  <1>5. calls[k].st # "idle"
    <2>1. ~Sends(k)
      BY <1>1, Sendings DEF Sends
    <2> QED
      BY <1>1, <2>1, CallMoves DEF Continues
  <1>6. m \in Calls /\ Executes(m) /\ Cell(m) = c /\ c \in Cells /\ calls[m].st # "idle"
        /\ calls[m].gen = calls[k].gen
    BY <1>1, <1>2, <1>3, <1>4, <1>5, OneGeneration
  <1>7. PICK g : g = calls[m].gen
    OBVIOUS
  <1>8. calls'[m].gen = g /\ Fate(m) /\ CommandOK(m)
    <2>1. calls'[m].gen = calls[m].gen
      BY <1>1, <1>6, GenKept
    <2> QED
      BY <1>4, <1>6, <1>7, <2>1, Fates DEF Executions
  <1>9. PICK Q : Q = Places(m)'
    OBVIOUS
  <1>10. Cell(m)' = c
    BY <1>1, <1>6 DEF Cell
  <1>11. PICK a : a = calls'[k].answer
    OBVIOUS
  <1>12. calls[k].st \in {"gated", "done"} =>
           /\ calls[k].answer \in Results \ {"completed"} =>
                /\ AtRest(m) /\ m \notin mem[c].fs /\ Knows(mem[c], m, g)
                /\ calls[k].st = "done" => m \notin disk[c].fs /\ Knows(disk[c], m, g)
           /\ calls[k].answer = "completed" =>
                Shows(mem[c], m, g) /\ (calls[k].st = "done" => Shows(disk[c], m, g))
    <2> SUFFICES ASSUME calls[k].st \in {"gated", "done"}
                 PROVE  /\ calls[k].answer \in Results \ {"completed"} =>
                             /\ AtRest(m) /\ m \notin mem[c].fs /\ Knows(mem[c], m, g)
                             /\ calls[k].st = "done" => m \notin disk[c].fs /\ Knows(disk[c], m, g)
                        /\ calls[k].answer = "completed" =>
                             Shows(mem[c], m, g) /\ (calls[k].st = "done" => Shows(disk[c], m, g))
      OBVIOUS
    <2>1. AnswerOK(k)
      BY <1>3, <1>4 DEF Answered
    <2> QED
      BY <1>2, <1>3, <1>7, <2>1 DEF AnswerOK, Absent, Present, Remembers, Gone, Knows, Shows
  <1> SUFFICES /\ a \in Results \ {"completed"} =>
                    /\ \A i \in Q : i = 1 /\ work'[c] = "settling"
                    /\ m \notin mem'[c].fs /\ Knows(mem'[c], m, g)
                    /\ calls'[k].st = "done" => m \notin disk'[c].fs /\ Knows(disk'[c], m, g)
               /\ a = "completed" =>
                    Shows(mem'[c], m, g) /\ (calls'[k].st = "done" => Shows(disk'[c], m, g))
    BY <1>4, <1>8, <1>9, <1>10, <1>11
       DEF AnswerOK, AtRest, Absent, Present, Remembers, Gone, Knows, Shows, Journaled
  <1>13. CASE a \notin Results
    BY <1>13 DEF Results
  <1>14. CASE a \in Results /\ calls'[k] = calls[k]
    <2>1. calls[k].st = "gated" => ~Interrupted(m)
      <3> SUFFICES ASSUME calls[k].st = "gated", Crash(c) PROVE FALSE
        BY <1>6 DEF Interrupted
      <3>1. calls'[k] = Failed(calls[k], Op(k)) /\ calls[k] \in Requests
        BY <1>1, <1>2, <1>4 DEF Crash, Made, TypeOK
      <3>2. Failed(calls[k], Op(k)).answer \in {"none", "lost"}
        BY <3>1, Failures
      <3> QED
        BY <1>11, <1>14, <3>1, <3>2 DEF Results
    <2>2. calls[k].st \in {"gated", "done"} /\ calls[k].answer = a
      BY <1>11, <1>14
    <2>3. ASSUME a # "completed"
          PROVE  /\ \A i \in Q : i = 1 /\ work'[c] = "settling"
                 /\ m \notin mem'[c].fs /\ Knows(mem'[c], m, g) /\ disk'[c] \in {mem[c], disk[c]}
      <3>1. /\ AtRest(m) /\ m \notin mem[c].fs /\ Knows(mem[c], m, g)
            /\ Interrupted(m) => m \notin disk[c].fs /\ Knows(disk[c], m, g)
        BY <1>12, <1>14, <2>1, <2>2, <2>3
      <3>2. /\ \A i \in Places(m)' : i = 1 /\ work'[c] = "settling"
            /\ m \notin mem'[c].fs /\ Knows(mem'[c], m, g) /\ disk'[c] \in {mem[c], disk[c]}
        BY <1>1, <1>6, <1>7, <1>8, <3>1, RejectionStays
      <3> QED
        BY <1>9, <3>2
    <2>4. ASSUME a = "completed" PROVE Shows(mem'[c], m, g) /\ disk'[c] \in {mem[c], disk[c]}
      <3>1. Shows(mem[c], m, g) /\ (Interrupted(m) => Shows(disk[c], m, g))
        BY <1>12, <2>1, <2>2, <2>4
      <3> QED
        BY <1>1, <1>6, <1>7, <1>8, <3>1, CompletionStays
    <2> QED
      BY <1>12, <1>14, <2>2, <2>3, <2>4
  <1>15. CASE a \in Results /\ Delivered(k)
    <2>1. /\ calls[k].st = "gated" /\ calls[k].answer = a /\ disk[c] = mem[c]
          /\ UNCHANGED <<mem, disk, queue, work>>
      BY <1>2, <1>11, <1>15 DEF Delivered
    <2>2. Q = Places(m)
      BY <1>1, <1>9, <2>1 DEF Places, At, Cell
    <2>3. AtRest(m) => \A i \in Q : i = 1 /\ work'[c] = "settling"
      BY <1>6, <2>1, <2>2 DEF AtRest
    <2> QED
      BY <1>12, <2>1, <2>3
  <1>16. CASE a \in Results /\ Replayed(k)
    <2>1. /\ calls'[k].st = "gated" /\ mem[c].journal[m] = a /\ UNCHANGED <<mem, disk, queue, work>>
      BY <1>2, <1>3, <1>11, <1>16 DEF Replayed
    <2>2. Q = Places(m)
      BY <1>1, <1>9, <2>1 DEF Places, At, Cell
    <2>3. AtRest(m) /\ Agrees(mem[c], m)
      BY <1>6, <1>8, <1>16, <2>1 DEF CommandOK
    <2>4. Journaled(mem[c], m)
      BY <1>16, <2>1 DEF Journaled, Results
    <2>5. \A i \in Q : i = 1 /\ work'[c] = "settling"
      BY <1>6, <2>1, <2>2, <2>3 DEF AtRest
    <2>6. Knows(mem'[c], m, g) /\ (a = "completed" <=> m \in mem'[c].fs)
      BY <2>1, <2>3, <2>4 DEF Agrees, Knows
    <2> QED
      BY <2>1, <2>5, <2>6 DEF Shows
  <1>17. CASE a \in Results /\ Overtaken(k)
    <2>1. /\ calls'[k].st = "gated" /\ a = "cancelled" /\ ~Journaled(mem[c], m) /\ Current(c, calls[k].gen)
          /\ Journaled(mem'[c], m) /\ mem'[c].fs = mem[c].fs /\ queue' = queue
      BY <1>2, <1>3, <1>11, <1>17 DEF Overtaken
    <2>2. ~Remembers(mem[c], m)
      BY <1>6, <2>1 DEF Remembers, Gone, Current
    <2>3. Places(m) = {} /\ m \notin mem[c].fs
      BY <1>6, <1>8, <2>2 DEF CommandOK
    <2>4. Q = {}
      BY <1>1, <1>9, <2>1, <2>3 DEF Places, At, Cell
    <2> QED
      BY <2>1, <2>3, <2>4 DEF Knows
  <1>18. CASE a \in Results /\ Concluded(k)
    <2>1. /\ a = held[c].result /\ Working(c, "command") /\ HeadOf(c) = m /\ work[c] = "settling"
          /\ disk[c] = mem[c] /\ Settle(c)
      BY <1>2, <1>3, <1>11, <1>18 DEF Concluded
    <2>2. mem' = mem /\ disk' = disk
      BY <2>1 DEF Settle
    <2>3. 1 \in Places(m)
      BY <1>1, <1>6, <2>1, PlaceFacts
    <2>4. /\ a = "completed" <=> m \in mem[c].fs
          /\ Remembers(mem[c], m) /\ \A i \in Places(m) : i = 1
      BY <1>6, <1>8, <2>1, <2>3 DEF CommandOK
    <2>5. Knows(mem[c], m, g)
      BY <1>7, <2>4 DEF Knows, Remembers, Gone
    <2>6. Q = {}
      <3>1. queue \in [Cells -> Seq(Entries)] /\ queue[c] # <<>> /\ <<"command", m>> \in Entries
        BY <1>1, <1>6, <2>1 DEF TypeOK, Working, Entries
      <3>2. queue' = [queue EXCEPT ![c] = Tail(queue[c])]
        BY <2>1 DEF Settle
      <3>3. \A i \in At(c, <<"command", m>>)' : i \in Nat /\ i >= 1 /\ i + 1 \in At(c, <<"command", m>>)
        BY <1>6, <3>1, <3>2, AtPopped
      <3>4. At(c, <<"command", m>>)' = Q /\ At(c, <<"command", m>>) = Places(m)
        BY <1>6, <1>9, <1>10 DEF Places, At
      <3>5. \A i \in Q : i \in Nat /\ i >= 1 /\ i + 1 = 1
        BY <2>4, <3>3, <3>4
      <3> QED
        BY <3>5
    <2> QED
      BY <2>1, <2>2, <2>4, <2>5, <2>6 DEF Shows
  <1>19. a \in Results =>
           calls'[k] = calls[k] \/ Delivered(k) \/ Replayed(k) \/ Overtaken(k) \/ Concluded(k)
    BY <1>4, <1>11, AnswerMoves
  <1> QED
    BY <1>13, <1>14, <1>15, <1>16, <1>17, <1>18, <1>19
\* The invariant of commands and answers.
Settlement == Spaces /\ Journals /\ Executions /\ Answered

LEMMA SettlementInit == Init => Settlement
  <1> SUFFICES ASSUME Init PROVE Settlement
    OBVIOUS
  <1>1. \A k \in Calls : calls[k].st = "idle"
    BY DEF Init, Unmade
  <1>2. Answered
    BY <1>1 DEF Answered
  <1> QED
    BY <1>2, SpacesInit, ExecutionsInit DEF Settlement

LEMMA SettlementStep == Settlement /\ [Next]_vars => Settlement'
  BY SpacesStep, JournalsStep, ExecutionsStep, AnswersStep DEF Settlement

LEMMA SettlementImplies == Settlement => AnswersTrue /\ CommittedOnce
  <1> SUFFICES ASSUME Settlement PROVE AnswersTrue /\ CommittedOnce
    OBVIOUS
  <1>1. Names /\ TypeOK /\ Generations /\ Vias /\ Executions /\ Answered /\ load \in Workloads
    BY DEF Settlement, Spaces, Names, Types, TypeOK
  <1>2. ASSUME NEW k \in Calls, Executes(k), calls[k].st = "done", k \notin forgotten
        PROVE  /\ calls[k].answer \in {"cancelled", "timeout", "failed", "interrupted"} =>
                    k \notin mem[Cell(k)].fs \cup disk[Cell(k)].fs
               /\ calls[k].answer = "completed" /\ Current(Cell(k), calls[k].gen) => k \in disk[Cell(k)].fs
    <2>0. PICK c : c = Cell(k)
      OBVIOUS
    <2>1. Made(k) /\ Op(k) = "execute" /\ Command(k) = k /\ c \in Cells
      BY <1>1, <1>2, <2>0, Asks DEF Executes, Command
    <2>2. AnswerOK(k)
      BY <1>1, <1>2, <2>1 DEF Answered
    <2>3. calls[k].answer \in {"cancelled", "timeout", "failed", "interrupted"} =>
            k \notin mem[c].fs \cup disk[c].fs
      BY <1>2, <2>0, <2>1, <2>2 DEF AnswerOK, Absent, Results
    <2>4. ASSUME calls[k].answer = "completed", Current(c, calls[k].gen) PROVE k \in disk[c].fs
      <3>1. k \in disk[c].fs \/ disk[c].gen # calls[k].gen \/ disk[c].deleted
        BY <1>2, <2>0, <2>1, <2>2, <2>4 DEF AnswerOK, Present, Gone
      <3>2. mem[c].gen = calls[k].gen /\ ~mem[c].deleted
        BY <2>4 DEF Current
      <3>3. /\ calls[k].gen <= disk[c].gen /\ disk[c].gen <= mem[c].gen
            /\ disk[c].gen = mem[c].gen /\ disk[c].deleted => mem[c].deleted
        BY <1>1, <2>0, <2>1 DEF Generations
      <3>4. disk[c].gen \in Nat /\ mem[c].gen \in Nat
        BY <1>1, <2>1, StorageFields DEF TypeOK
      <3> QED
        BY <3>1, <3>2, <3>3, <3>4
    <2> QED
      BY <2>0, <2>3, <2>4
  <1>3. ASSUME NEW k \in Calls, Executes(k), k \notin forgotten
        PROVE  /\ ran[k] <= 1
               /\ \A j \in Calls : Made(j) /\ Op(j) = "cancel" /\ load[j].target = k
                    /\ calls[j].answer = "cancelled" /\ calls[j].st = "done" => k \notin disk[Cell(k)].fs
    <2>1. ran[k] <= 1
      <3>1. ran[k] \in Nat /\ CommandOK(k)
        BY <1>1, <1>3 DEF TypeOK, Executions
      <3> QED
        BY <3>1 DEF CommandOK
    <2>2. ASSUME NEW j \in Calls, Made(j), Op(j) = "cancel", load[j].target = k,
                 calls[j].answer = "cancelled", calls[j].st = "done"
          PROVE  k \notin disk[Cell(k)].fs
      <3>1. Command(j) = k /\ Cell(j) = Cell(k)
        BY <1>1, <2>2, Asks DEF Command
      <3>2. AnswerOK(j)
        BY <1>1, <1>3, <2>2, <3>1 DEF Answered
      <3> QED
        BY <2>2, <3>1, <3>2 DEF AnswerOK, Absent, Results
    <2> QED
      BY <2>1, <2>2
  <1> QED
    BY <1>2, <1>3 DEF AnswersTrue, CommittedOnce

\* The answer to a command is the truth about its changes, through crashes,
\* retries and cancellation (execute() of worker/just-bash.ts).
THEOREM AnswersAreTrue == Spec => []AnswersTrue
  BY SettlementInit, SettlementStep, SettlementImplies, PTL DEF Spec

\* A command commits at most once, however often it is sent, and never after a
\* cancel of it was answered "cancelled".
THEOREM CommandsCommitOnce == Spec => []CommittedOnce
  BY SettlementInit, SettlementStep, SettlementImplies, PTL DEF Spec-----------------------------------------------------------------------------
(* The barrier of a stop or a delete *)

\* What a step does to the calls and commands in the queue of cell c: nothing;
\* e joins them at the end; the head leaves; all are lost in a crash.
Stands(c) == \A x \in Entries : x[1] # "fetch" => At(c, x)' = At(c, x)
Joins(c, e) ==
    /\ \A x \in Entries : x[1] # "fetch" /\ x # e => At(c, x)' = At(c, x)
    /\ At(c, e)' = At(c, e) \cup {Len(queue[c]) + 1} /\ Len(queue[c]) \in Nat
    /\ \A x \in Entries : \A i \in At(c, x) : i \in Nat /\ i <= Len(queue[c])
Leaves(c) == \A x \in Entries : \A i \in At(c, x)' : i \in Nat /\ i >= 1 /\ i + 1 \in At(c, x)
Empties(c) == \A x \in Entries : At(c, x)' = {}

LEMMA QueueMoves ==
    ASSUME Names, [Next]_vars, NEW c \in Cells
    PROVE  \/ Stands(c) \/ Leaves(c) \/ Empties(c)
           \/ \E j \in Calls : calls[j].st = "sent" /\ calls'[j].st = "queued" /\ Joins(c, <<"call", j>>)
           \/ \E j \in Calls : Cell(j) = c /\ ~Remembers(mem[c], j) /\ Joins(c, <<"command", j>>)
  <1>0. Types /\ TypeOK /\ Queued /\ Stages /\ queue \in [Cells -> Seq(Entries)]
    BY DEF Names, Types, TypeOK
  <1>1. ASSUME queue' = queue PROVE Stands(c)
    BY <1>1 DEF Stands, At
  <1>2. ASSUME NEW d \in Cells, NEW e \in Entries, queue' = [queue EXCEPT ![d] = Append(queue[d], e)]
        PROVE  (d = c => Joins(c, e)) /\ (d # c \/ e[1] = "fetch" => Stands(c))
    <2>1. /\ \A b \in Cells, x \in Entries : ~(b = d /\ x = e) => At(b, x)' = At(b, x)
          /\ At(d, e)' = At(d, e) \cup {Len(queue[d]) + 1}
          /\ \A b \in Cells, x \in Entries : \A i \in At(b, x) : i \in Nat /\ i <= Len(queue[b])
      BY <1>0, <1>2, AtPushed
    <2>2. queue[d] \in Seq(Entries)
      BY <1>0, <1>2
    <2>3. Len(queue[d]) \in Nat
      BY <2>2
    <2> QED
      BY <1>2, <2>1, <2>3 DEF Joins, Stands
  <1>3. ASSUME NEW d \in Cells, queue[d] # <<>>, queue' = [queue EXCEPT ![d] = Tail(queue[d])]
        PROVE  Stands(c) \/ Leaves(c)
    <2>1. /\ \A b \in Cells : b # d => \A x \in Entries : At(b, x)' = At(b, x)
          /\ \A x \in Entries : \A i \in At(d, x)' : i \in Nat /\ i >= 1 /\ i + 1 \in At(d, x)
      BY <1>0, <1>3, AtPopped
    <2> QED
      BY <1>3, <2>1 DEF Stands, Leaves
  <1>4. ASSUME NEW j \in Calls, ClientStep(j) PROVE Stands(c)
    BY <1>1, <1>4 DEF ClientStep, Send, Drop, Deliver, Refuse, Replays
  <1>5. ASSUME NEW j \in Calls, AcceptStep(j)
        PROVE  \/ Stands(c)
               \/ calls[j].st = "sent" /\ calls'[j].st = "queued" /\ Joins(c, <<"call", j>>)
               \/ Cell(j) = c /\ ~Remembers(mem[c], j) /\ Joins(c, <<"command", j>>)
    <2>1. calls[j].st = "sent" /\ Cell(j) \in Cells /\ <<"call", j>> \in Entries /\ <<"command", j>> \in Entries
      BY <1>0, <1>5, AcceptFacts
    <2>2. CASE Enqueues(j)
      <3>1. calls'[j].st = "queued"
        BY <2>2, Moved DEF Enqueues
      <3> QED
        BY <1>2, <2>1, <2>2, <3>1 DEF Enqueues
    <2>3. CASE Stopping(j)
      <3>0. PICK A : A = Active(Cell(j))
        OBVIOUS
      <3>1. calls' = [calls EXCEPT ![j].st = "queued", ![j].before = A]
        BY <2>3, <3>0 DEF Stopping
      <3>2. calls'[j].st = "queued"
        BY <3>1, Barred
      <3> QED
        BY <1>2, <2>1, <2>3, <3>2 DEF Stopping
    <2>4. ASSUME NEW n, Accepts(j, n)
          PROVE  Stands(c) \/ (Cell(j) = c /\ ~Remembers(mem[c], j) /\ Joins(c, <<"command", j>>))
      <3>1. ~Remembers(mem[Cell(j)], j)
        BY <2>4 DEF Accepts, Current, Remembers, Gone
      <3>2. queue' = [queue EXCEPT ![Cell(j)] = Append(queue[Cell(j)], <<"command", j>>)]
        BY <2>4 DEF Accepts
      <3> QED
        BY <1>2, <2>1, <3>1, <3>2
    <2>5. ASSUME NEW n, CancelsEarly(j, n) PROVE Stands(c)
      BY <1>1, <2>5 DEF CancelsEarly
    <2> QED
      BY <1>5, <2>1, <2>2, <2>3, <2>4, <2>5 DEF AcceptStep
  <1>6. ASSUME NEW d \in Cells, WorkStep(d) PROVE Stands(c) \/ Leaves(c) \/ Empties(c)
    <2>1. CASE Flush(d) \/ Starts(d) \/ Commits(d) \/ (\E s, r : Done(d, s, r)) \/ \E r : Halts(d, r)
      BY <1>1, <2>1 DEF Flush, Starts, Commits, Done, Halts
    <2>2. CASE Settle(d)
      <3>1. queue[d] # <<>>
        BY <1>0, <2>2 DEF Settle, Stages, StageOK
      <3> QED
        BY <1>3, <2>2, <3>1 DEF Settle
    <2>3. CASE Serve(d)
      <3>1. queue[d] # <<>> /\ queue' = [queue EXCEPT ![d] = Tail(queue[d])]
        BY <2>3 DEF Serve, Working
      <3> QED
        BY <1>3, <3>1
    <2>4. CASE Asking(d)
      <3>0. PICK b : b = Source(d)
        OBVIOUS
      <3>1. b \in Cells /\ <<"fetch", d>> \in Entries /\ <<"fetch", d>>[1] = "fetch"
        BY <1>0, <2>4, <3>0, Sources DEF Asking, Entries
      <3>2. queue' = [queue EXCEPT ![b] = Append(queue[b], <<"fetch", d>>)]
        BY <2>4, <3>0 DEF Asking
      <3> QED
        BY <1>2, <3>1, <3>2
    <2>5. CASE Crash(d)
      <3>1. queue' = [b \in Cells |-> IF b = d THEN <<>> ELSE Orphaned(queue[b], d)]
        BY <2>5 DEF Crash
      <3>2. /\ \A x : At(d, x)' = {}
            /\ \A b \in Cells : b # d => \A x \in Entries : x[1] # "fetch" => At(b, x)' = At(b, x)
        BY <1>0, <3>1, AtCrashed
      <3> QED
        BY <3>2 DEF Stands, Empties
    <2> QED
      BY <1>6, <2>1, <2>2, <2>3, <2>4, <2>5 DEF WorkStep
  <1>7. CASE UNCHANGED vars
    BY <1>1, <1>7 DEF vars
  <1> QED
    BY <1>0, <1>4, <1>5, <1>6, <1>7, Kinds
\* What a step does to a request that goes through the queue.
LEMMA RequestMoves ==
    ASSUME Names, [Next]_vars, NEW k \in Calls, Made(k), Op(k) \notin {"execute", "cancel"},
           NEW c, c = Cell(k)
    PROVE  \/ calls'[k] = calls[k]
           \/ calls[k].st = "idle" /\ calls'[k].st = "sent"
           \/ calls'[k].st = "done" /\ calls'[k].answer \in {"error", "lost"}
           \/ calls[k].st = "gated" /\ calls'[k].st = "done"
           \/ Enqueues(k) /\ calls'[k].st = "queued"
           \/ Stopping(k) /\ calls'[k].st = "queued" /\ calls'[k].before = Active(c)
           \/ /\ Settle(c) /\ calls[k].st = "queued" /\ calls'[k].st = "done" /\ calls'[k].before = calls[k].before
              /\ queue[c] # <<>> /\ Head(queue[c]) = <<"call", k>> /\ disk[c] = mem[c] /\ work[c] = "settling"
  <1>0. Types /\ TypeOK /\ calls[k] \in Requests /\ calls \in [Calls -> Requests]
    BY DEF Names, Types, TypeOK
  <1>1. ASSUME calls'[k] = Failed(calls[k], Op(k))
        PROVE  calls'[k].st = "done" /\ calls'[k].answer \in {"error", "lost"}
    <2>1. Failed(calls[k], Op(k)).st = "done" /\ Failed(calls[k], Op(k)).answer = "lost"
      BY <1>0, Failures
    <2> QED
      BY <1>1, <2>1
  <1>2. ASSUME NEW j \in Calls, ClientStep(j) \/ AcceptStep(j), j # k PROVE calls'[k] = calls[k]
    BY <1>0, <1>2 DEF ClientStep, AcceptStep, Send, Drop, Deliver, Refuse, Reply, Replays, Enqueues,
                      Stopping, Accepts, CancelsEarly
  <1>3. ASSUME ClientStep(k)
        PROVE  \/ calls[k].st = "idle" /\ calls'[k].st = "sent"
               \/ calls'[k].st = "done" /\ calls'[k].answer \in {"error", "lost"}
               \/ calls[k].st = "gated" /\ calls'[k].st = "done"
    <2>1. CASE Drop(k)
      BY <1>0, <1>1, <2>1 DEF Drop
    <2>2. CASE Deliver(k)
      <3>1. calls[k].st = "gated" /\ calls' = [calls EXCEPT ![k].st = "done"]
        BY <2>2 DEF Deliver
      <3> QED
        BY <3>1, Moved
    <2>3. CASE Refuse(k)
      <3>1. calls' = [calls EXCEPT ![k].st = "done", ![k].answer = "error"]
        BY <2>3 DEF Refuse, Reply
      <3>2. calls'[k].st = "done" /\ calls'[k].answer = "error"
        <4> DEFINE q == calls[k]
                   r == [q EXCEPT !.st = "done", !.answer = "error"]
        <4>1. calls'[k] = r /\ q \in Requests
          BY <1>0, <3>1
        <4>2. r.st = "done" /\ r.answer = "error"
          <5> HIDE DEF q
          <5> QED
            BY <4>1 DEF Requests
        <4> QED
          BY <4>1, <4>2
      <3> QED
        BY <3>2
    <2>4. ~Replays(k)
      BY DEF Replays
    <2>5. ASSUME NEW h \in Calls \cup {Nothing}, Send(k, h) PROVE calls[k].st = "idle" /\ calls'[k].st = "sent"
      BY <2>5, Sendings
    <2> QED
      BY <1>3, <2>1, <2>2, <2>3, <2>4, <2>5 DEF ClientStep
  <1>4. ASSUME AcceptStep(k)
        PROVE  \/ Enqueues(k) /\ calls'[k].st = "queued"
               \/ Stopping(k) /\ calls'[k].st = "queued" /\ calls'[k].before = Active(c)
    <2>1. CASE Enqueues(k)
      <3>1. calls' = [calls EXCEPT ![k].st = "queued"]
        BY <2>1 DEF Enqueues
      <3> QED
        BY <2>1, <3>1, Moved
    <2>2. CASE Stopping(k)
      <3>0. PICK A : A = Active(c)
        OBVIOUS
      <3>1. calls' = [calls EXCEPT ![k].st = "queued", ![k].before = A]
        BY <2>2, <3>0 DEF Stopping
      <3>2. calls'[k].st = "queued" /\ calls'[k].before = A
        <4> DEFINE q == calls[k]
                   r == [q EXCEPT !.st = "queued", !.before = A]
        <4>1. calls'[k] = r /\ q \in Requests
          BY <1>0, <3>1
        <4>2. r.st = "queued" /\ r.before = A
          <5> HIDE DEF q
          <5> QED
            BY <4>1 DEF Requests
        <4> QED
          BY <4>1, <4>2
      <3> QED
        BY <2>2, <3>0, <3>2
    <2>3. \A n : ~Accepts(k, n) /\ ~CancelsEarly(k, n)
      BY DEF Accepts, CancelsEarly
    <2> QED
      BY <1>4, <2>1, <2>2, <2>3 DEF AcceptStep
  <1>5. ASSUME NEW d \in Cells, WorkStep(d)
        PROVE  \/ calls'[k] = calls[k]
               \/ calls'[k].st = "done" /\ calls'[k].answer \in {"error", "lost"}
               \/ /\ Settle(c) /\ calls[k].st = "queued" /\ calls'[k].st = "done" /\ calls'[k].before = calls[k].before
                  /\ queue[c] # <<>> /\ Head(queue[c]) = <<"call", k>> /\ disk[c] = mem[c] /\ work[c] = "settling"
    <2>1. CASE Flush(d) \/ Serve(d) \/ Asking(d) \/ Starts(d) \/ Commits(d)
               \/ (\E s, r : Done(d, s, r)) \/ \E r : Halts(d, r)
      BY <2>1 DEF Flush, Serve, Asking, Starts, Commits, Done, Halts
    <2>2. CASE Settle(d)
      <3>1. calls'[k] = IF k \in Waiting(d) THEN Settled(d, k) ELSE calls[k]
        BY <1>0, <2>2, SettleCalls
      <3>2. CASE k \in Waiting(d)
        <4>1. work[d] = "settling" /\ disk[d] = mem[d]
          BY <2>2 DEF Settle, Flushed
        <4>2. queue[d] # <<>>
          BY <4>1 DEF Names, Stages, StageOK
        <4>3. /\ d = c /\ calls[k].st = "queued" /\ Head(queue[d]) = <<"call", k>>
          BY <3>2, <4>1, Waiters
        <4>4. /\ Settled(d, k).st = "done" /\ Settled(d, k).before = calls[k].before
          BY <1>0, Settlements
        <4> QED
          BY <2>2, <3>1, <3>2, <4>1, <4>2, <4>3, <4>4
      <3> QED
        BY <3>1, <3>2
    <2>3. CASE Crash(d)
      <3>1. calls'[k] = calls[k] \/ calls'[k] = Failed(calls[k], Op(k))
        BY <2>3 DEF Crash
      <3> QED
        BY <1>1, <3>1
    <2> QED
      BY <1>5, <2>1, <2>2, <2>3 DEF WorkStep
  <1>6. CASE UNCHANGED vars
    BY <1>6 DEF vars
  <1> QED
    BY <1>0, <1>2, <1>3, <1>4, <1>5, <1>6, Kinds

LEMMA PlacedStep ==
    ASSUME Names, Placed, [Next]_vars
    PROVE  Placed'
  <1>1. load' = load /\ Names' /\ load \in Workloads /\ calls' \in [Calls -> Requests]
    BY SameLoad, NamesStep DEF Names, Types, TypeOK
  <1> SUFFICES ASSUME NEW k \in Calls, Made(k)'
               PROVE  /\ calls'[k].st \in {"idle", "sent"} => At(Cell(k), <<"call", k>>)' = {}
                      /\ calls'[k].st = "gated" => (Op(k) \in {"execute", "cancel"})'
    BY DEF Placed
  <1>2. PICK c : c = Cell(k)
    OBVIOUS
  <1>3. Made(k) /\ Cell(k)' = c /\ Op(k)' = Op(k) /\ c \in Cells /\ <<"call", k>> \in Entries
        /\ At(Cell(k), <<"call", k>>)' = At(c, <<"call", k>>)'
    BY <1>1, <1>2, Asks DEF Made, Cell, Op, Entries, At
  <1>4. CASE Op(k) \in {"execute", "cancel"}
    <2>1. ~EntryOK(c, <<"call", k>>)'
      BY <1>3, <1>4 DEF EntryOK
    <2>2. At(c, <<"call", k>>)' = {}
      BY <1>1, <1>3, <2>1 DEF Names, Queued
    <2> QED
      BY <1>3, <1>4, <2>2
  <1>5. CASE Op(k) \notin {"execute", "cancel"}
    <2>1. calls'[k].st # "gated"
      BY <1>2, <1>3, <1>5, RequestMoves DEF Placed
    <2>2. ASSUME calls'[k].st \in {"idle", "sent"} PROVE At(c, <<"call", k>>)' = {}
      <3>1. calls[k].st \in {"idle", "sent"}
        BY <1>2, <1>3, <1>5, <2>2, RequestMoves
      <3>2. At(c, <<"call", k>>) = {}
        BY <1>2, <1>3, <3>1 DEF Placed
      <3>3. <<"call", k>>[1] # "fetch" /\ \A j \in Calls : <<"call", k>> # <<"command", j>>
        OBVIOUS
      <3>4. CASE Stands(c)
        BY <1>3, <3>2, <3>3, <3>4 DEF Stands
      <3>5. CASE Leaves(c)
        BY <1>3, <3>2, <3>5 DEF Leaves
      <3>6. CASE Empties(c)
        BY <1>3, <3>6 DEF Empties
      <3>7. ASSUME NEW j \in Calls, calls'[j].st = "queued", Joins(c, <<"call", j>>)
            PROVE  At(c, <<"call", k>>)' = {}
        <4>1. <<"call", k>> # <<"call", j>>
          BY <2>2, <3>7
        <4> QED
          BY <1>3, <3>2, <3>3, <3>7, <4>1 DEF Joins
      <3>8. ASSUME NEW j \in Calls, Joins(c, <<"command", j>>) PROVE At(c, <<"call", k>>)' = {}
        BY <1>3, <3>2, <3>3, <3>8 DEF Joins
      <3> QED
        BY <1>3, <3>4, <3>5, <3>6, <3>7, <3>8, QueueMoves
    <2> QED
      BY <1>3, <2>1, <2>2
  <1> QED
    BY <1>4, <1>5

\* What storage knows of a command it goes on knowing.
LEMMA KnowsStays ==
    ASSUME NEW m \in Calls, Fate(m), NEW c, c = Cell(m), NEW g, g = calls[m].gen,
           Knows(mem[c], m, g), Interrupted(m) => Knows(disk[c], m, g)
    PROVE  Knows(mem'[c], m, g) /\ disk'[c] \in {mem[c], disk[c]}
  <1>1. CASE Unmoved(m)
    BY <1>1 DEF Unmoved, SameFor, SameLife, Knows, Journaled
  <1>2. CASE Saved(m) \/ Advances(m)
    BY <1>2 DEF Saved, Advances
  <1>3. ~Accepted(m) /\ ~CancelledEarly(m)
    BY DEF Accepted, CancelledEarly, Knows, Remembers, Gone
  <1>4. CASE Outlived(m)
    BY <1>4 DEF Outlived, Knows
  <1>5. CASE Interrupted(m)
    BY <1>5 DEF Interrupted, SameLife, Knows, Journaled
  <1>6. CASE Begun(m)
    BY <1>6 DEF Begun, Worked, SameLife, Knows, Journaled
  <1>7. CASE Stored(m)
    BY <1>7 DEF Stored, Worked, SameLife, Knows, Journaled
  <1>8. ASSUME NEW r, Ended(m, r) PROVE Knows(mem'[c], m, g) /\ disk'[c] \in {mem[c], disk[c]}
    BY <1>8 DEF Ended, Worked, SameLife, Knows, Journaled, Results
  <1> QED
    BY <1>1, <1>2, <1>3, <1>4, <1>5, <1>6, <1>7, <1>8 DEF Fate
LEMMA BarriersStep ==
    ASSUME Settlement, Placed, Barriers, [Next]_vars
    PROVE  Barriers'
  <1>1. Spaces /\ Journals /\ Executions /\ Names /\ Queued /\ TypeOK /\ load' = load /\ forgotten \subseteq forgotten'
    BY SameLoad, ForgottenGrows DEF Settlement, Spaces, Names, Types
  <1> SUFFICES ASSUME NEW k \in Calls, Made(k)', (Op(k) \in {"stop", "delete"})',
                      calls'[k].st = "queued" \/ (calls'[k].st = "done" /\ calls'[k].answer = "ok"),
                      NEW m \in calls'[k].before, m \notin forgotten'
               PROVE  BarrierOK(k, m)'
    BY DEF Barriers
  <1>2. PICK c : c = Cell(k)
    OBVIOUS
  <1>3. /\ Made(k) /\ Op(k) \in {"stop", "delete"} /\ Cell(k)' = c /\ c \in Cells
        /\ <<"call", k>> \in Entries /\ m \notin forgotten /\ queue \in [Cells -> Seq(Entries)]
    BY <1>1, <1>2, Asks DEF Made, Op, Cell, Entries, TypeOK
  \* It is enough that m is known and out of the way.
  <1>4. ASSUME m \in Calls, Executes(m), Cell(m) = c, calls[m].st # "idle",
               Knows(mem'[c], m, calls[m].gen),
               calls'[k].st = "queued" => \A i \in At(c, <<"call", k>>)', j \in At(c, <<"command", m>>)' : j < i,
               calls'[k].st = "done" =>
                 Knows(disk'[c], m, calls[m].gen) /\ At(c, <<"command", m>>)' = {}
        PROVE  BarrierOK(k, m)'
    <2>1. calls'[m].gen = calls[m].gen /\ calls'[m].st # "idle" /\ Executes(m)' /\ Cell(m)' = c
      <3>1. Executes(m)' /\ Cell(m)' = c
        BY <1>1, <1>4 DEF Executes, Made, Op, Cell
      <3> QED
        BY <1>1, <1>4, <3>1, GenKept
    <2>2. Places(m)' = At(c, <<"command", m>>)'
      BY <2>1 DEF Places, At
    <2> QED
      BY <1>3, <1>4, <2>1, <2>2 DEF BarrierOK, Remembers, Gone, Knows, At, Journaled
  <1>5. ASSUME calls'[k].before = calls[k].before, calls[k].st = "queued" \/ (calls[k].st = "done" /\ calls[k].answer = "ok")
        PROVE  /\ m \in Calls /\ Executes(m) /\ Cell(m) = c /\ calls[m].st # "idle" /\ Fate(m)
               /\ Knows(mem[c], m, calls[m].gen) /\ Places(m) = At(c, <<"command", m>>)
               /\ <<"command", m>> \in Entries /\ \A j \in Places(m) : j \in Nat /\ j >= 1
               /\ calls[k].st = "queued" => \A i \in At(c, <<"call", k>>), j \in Places(m) : j < i
               /\ calls[k].st = "done" => Knows(disk[c], m, calls[m].gen) /\ Places(m) = {}
    <2>1. m \in Calls
      <3>1. calls[k] \in Requests
        BY <1>1 DEF TypeOK
      <3>2. calls[k].before \subseteq Calls
        BY <3>1 DEF Requests
      <3> QED
        BY <1>5, <3>2
    <2>2. BarrierOK(k, m)
      BY <1>3, <1>5 DEF Barriers
    <2>3. /\ Executes(m) /\ Cell(m) = c /\ calls[m].st # "idle" /\ Knows(mem[c], m, calls[m].gen)
          /\ calls[k].st = "queued" => \A i \in At(c, <<"call", k>>), j \in Places(m) : j < i
          /\ calls[k].st = "done" => Knows(disk[c], m, calls[m].gen) /\ Places(m) = {}
      BY <1>2, <2>2 DEF BarrierOK, Remembers, Gone, Knows
    <2>4. Fate(m)
      BY <1>1, <2>1, <2>3, Fates
    <2>5. /\ Places(m) = At(c, <<"command", m>>) /\ <<"command", m>> \in Entries
          /\ \A j \in Places(m) : j \in Nat /\ j >= 1
      BY <1>1, <2>1, <2>3, PlaceFacts
    <2> QED
      BY <2>1, <2>3, <2>4, <2>5
  <1>6. CASE calls'[k] = calls[k]
    <2>1. /\ m \in Calls /\ Executes(m) /\ Cell(m) = c /\ calls[m].st # "idle" /\ Fate(m)
          /\ Knows(mem[c], m, calls[m].gen) /\ Places(m) = At(c, <<"command", m>>)
          /\ <<"command", m>> \in Entries
          /\ calls[k].st = "queued" => \A i \in At(c, <<"call", k>>), j \in Places(m) : j < i
          /\ calls[k].st = "done" => Knows(disk[c], m, calls[m].gen) /\ Places(m) = {}
      BY <1>5, <1>6
    <2>2. Interrupted(m) => calls[k].st = "done"
      <3> SUFFICES ASSUME Crash(c), calls[k].st = "queued" PROVE FALSE
        BY <1>6, <2>1 DEF Interrupted
      <3>1. calls'[k] = Failed(calls[k], Op(k)) /\ calls[k] \in Requests
        BY <1>1, <1>2, <1>3 DEF Crash, Made, TypeOK
      <3>2. Failed(calls[k], Op(k)).st \in {"sent", "done"}
        BY <3>1, Failures
      <3> QED
        BY <1>6, <3>1, <3>2
    <2>3. Knows(mem'[c], m, calls[m].gen) /\ disk'[c] \in {mem[c], disk[c]}
      <3>1. PICK g : g = calls[m].gen
        OBVIOUS
      <3>2. Knows(mem'[c], m, g) /\ disk'[c] \in {mem[c], disk[c]}
        BY <2>1, <2>2, <3>1, KnowsStays
      <3> QED
        BY <3>1, <3>2
    <2>4. PICK A : A = At(c, <<"call", k>>)
      OBVIOUS
    <2>5. PICK B : B = At(c, <<"call", k>>)'
      OBVIOUS
    <2>6. PICK P : P = At(c, <<"command", m>>)
      OBVIOUS
    <2>7. PICK Q : Q = At(c, <<"command", m>>)'
      OBVIOUS
    <2>8. <<"call", k>> # <<"command", m>> /\ <<"call", k>>[1] # "fetch" /\ <<"command", m>>[1] # "fetch"
      OBVIOUS
    <2>9. \/ B = A /\ Q = P
          \/ /\ \A i \in B : i \in Nat /\ i >= 1 /\ i + 1 \in A
             /\ \A i \in Q : i \in Nat /\ i >= 1 /\ i + 1 \in P
          \/ B = {} /\ Q = {}
      <3>1. CASE Stands(c)
        BY <1>3, <2>1, <2>4, <2>5, <2>6, <2>7, <2>8, <3>1 DEF Stands
      <3>2. CASE Leaves(c)
        BY <1>3, <2>1, <2>4, <2>5, <2>6, <2>7, <3>2 DEF Leaves
      <3>3. CASE Empties(c)
        BY <1>3, <2>1, <2>5, <2>7, <3>3 DEF Empties
      <3>4. ASSUME NEW j \in Calls, calls[j].st = "sent", Joins(c, <<"call", j>>) PROVE B = A /\ Q = P
        <4>1. j # k
          BY <1>6, <3>4
        <4>2. <<"call", k>> # <<"call", j>> /\ <<"command", m>> # <<"call", j>>
          BY <4>1
        <4> QED
          BY <1>3, <2>1, <2>4, <2>5, <2>6, <2>7, <2>8, <3>4, <4>2 DEF Joins
      <3>5. ASSUME NEW j \in Calls, ~Remembers(mem[c], j), Joins(c, <<"command", j>>) PROVE B = A /\ Q = P
        <4>1. j # m
          BY <2>1, <3>5 DEF Knows, Remembers, Gone
        <4>2. <<"command", m>> # <<"command", j>> /\ <<"call", k>> # <<"command", j>>
          BY <4>1
        <4> QED
          BY <1>3, <2>1, <2>4, <2>5, <2>6, <2>7, <2>8, <3>5, <4>2 DEF Joins
      <3> QED
        BY <1>1, <1>3, <3>1, <3>2, <3>3, <3>4, <3>5, QueueMoves
    <2>10. (\A i \in A, j \in P : j < i) => \A i \in B, j \in Q : j < i
      <3> SUFFICES ASSUME \A i \in A, j \in P : j < i, NEW i \in B, NEW j \in Q PROVE j < i
        OBVIOUS
      <3>1. CASE B = A /\ Q = P
        BY <3>1
      <3>2. CASE i \in Nat /\ j \in Nat /\ i + 1 \in A /\ j + 1 \in P
        <4>1. j + 1 < i + 1
          BY <3>2
        <4> QED
          BY <3>2, <4>1
      <3> QED
        BY <2>9, <3>1, <3>2
    <2>11. P = {} => Q = {}
      BY <2>9
    <2> QED
      BY <1>4, <1>6, <2>1, <2>3, <2>4, <2>5, <2>6, <2>7, <2>10, <2>11
  <1>7. CASE Stopping(k) /\ calls'[k].st = "queued" /\ calls'[k].before = Active(c)
    <2>1. m \in Calls /\ <<"command", m>> \in Entries /\ At(c, <<"command", m>>) # {}
      BY <1>7 DEF Active, Entries, At
    <2>2. EntryOK(c, <<"command", m>>)
      BY <1>1, <1>3, <2>1 DEF Queued
    <2>3. Executes(m) /\ Cell(m) = c
      BY <2>2 DEF EntryOK
    <2>4. Places(m) = At(c, <<"command", m>>) /\ CommandOK(m)
      BY <1>1, <1>3, <2>1, <2>3 DEF Places, Executions
    <2>5. calls[m].st # "idle" /\ Knows(mem[c], m, calls[m].gen)
      BY <2>1, <2>3, <2>4 DEF CommandOK, Remembers, Gone, Knows
    <2>6. calls[k].st = "sent" /\ queue' = [queue EXCEPT ![c] = Append(queue[c], <<"call", k>>)]
      BY <1>2, <1>7 DEF Stopping
    <2>7. At(c, <<"call", k>>) = {}
      BY <1>2, <1>3, <2>6 DEF Placed
    <2>8. /\ \A x \in Entries : x # <<"call", k>> => At(c, x)' = At(c, x)
          /\ At(c, <<"call", k>>)' = At(c, <<"call", k>>) \cup {Len(queue[c]) + 1}
          /\ \A x \in Entries : \A i \in At(c, x) : i \in Nat /\ i <= Len(queue[c])
      <3>1. /\ \A d \in Cells, x \in Entries : ~(d = c /\ x = <<"call", k>>) => At(d, x)' = At(d, x)
            /\ At(c, <<"call", k>>)' = At(c, <<"call", k>>) \cup {Len(queue[c]) + 1}
            /\ \A d \in Cells, x \in Entries : \A i \in At(d, x) : i \in Nat /\ i <= Len(queue[d])
        BY <1>3, <2>6, AtPushed
      <3> QED
        BY <1>3, <3>1
    <2>9. At(c, <<"command", m>>)' = At(c, <<"command", m>>)
      BY <2>1, <2>8
    <2>10. queue[c] \in Seq(Entries)
      BY <1>3
    <2>11. Len(queue[c]) \in Nat
      BY <2>10
    <2>12. \A i \in At(c, <<"call", k>>)', j \in At(c, <<"command", m>>)' : j < i
      <3> SUFFICES ASSUME NEW j \in At(c, <<"command", m>>) PROVE j < Len(queue[c]) + 1
        BY <2>7, <2>8, <2>9
      <3> QED
        BY <2>1, <2>8, <2>11
    <2>13. Knows(mem'[c], m, calls[m].gen)
      <3>1. mem[c] \in Storages /\ mem'[c] = [mem[c] EXCEPT !.stopped = TRUE]
        BY <1>1, <1>2, <1>3, <1>7 DEF Stopping, TypeOK
      <3>2. PICK s : s = mem[c]
        OBVIOUS
      <3>3. mem'[c].journal = s.journal /\ mem'[c].gen = s.gen /\ mem'[c].deleted = s.deleted
        BY <3>1, <3>2 DEF Storages
      <3> QED
        BY <2>5, <3>2, <3>3 DEF Knows, Journaled
    <2> QED
      BY <1>4, <1>7, <2>1, <2>3, <2>5, <2>12, <2>13
  <1>8. CASE /\ Settle(c) /\ calls[k].st = "queued" /\ calls'[k].st = "done" /\ calls'[k].before = calls[k].before
             /\ queue[c] # <<>> /\ Head(queue[c]) = <<"call", k>> /\ disk[c] = mem[c] /\ work[c] = "settling"
    <2>1. /\ m \in Calls /\ Executes(m) /\ Cell(m) = c /\ calls[m].st # "idle"
          /\ Knows(mem[c], m, calls[m].gen) /\ Places(m) = At(c, <<"command", m>>)
          /\ <<"command", m>> \in Entries /\ \A j \in Places(m) : j \in Nat /\ j >= 1
          /\ \A i \in At(c, <<"call", k>>), j \in Places(m) : j < i
      BY <1>5, <1>8
    <2>2. mem' = mem /\ disk' = disk /\ queue' = [queue EXCEPT ![c] = Tail(queue[c])]
      BY <1>8 DEF Settle
    <2>3. 1 \in At(c, <<"call", k>>)
      BY <1>3, <1>8, AtHead
    <2>4. \A j \in Places(m) : j \in Nat /\ j >= 1 /\ j < 1
      BY <2>1, <2>3
    <2>5. At(c, <<"command", m>>) = {}
      BY <2>1, <2>4
    <2>6. \A i \in At(c, <<"command", m>>)' : i + 1 \in At(c, <<"command", m>>)
      BY <1>3, <1>8, <2>1, <2>2, AtPopped
    <2> QED
      BY <1>4, <1>8, <2>1, <2>2, <2>5, <2>6
  <1>9. \/ calls'[k] = calls[k]
        \/ Stopping(k) /\ calls'[k].st = "queued" /\ calls'[k].before = Active(c)
        \/ /\ Settle(c) /\ calls[k].st = "queued" /\ calls'[k].st = "done" /\ calls'[k].before = calls[k].before
           /\ queue[c] # <<>> /\ Head(queue[c]) = <<"call", k>> /\ disk[c] = mem[c] /\ work[c] = "settling"
    <2>1. calls[k].st # "gated"
      BY <1>3 DEF Placed
    <2>2. ~Enqueues(k)
      BY <1>3 DEF Enqueues
    <2> QED
      BY <1>1, <1>2, <1>3, <2>1, <2>2, RequestMoves
  <1> QED
    BY <1>6, <1>7, <1>8, <1>9

\* When a stop or a delete is answered, no command that was accepted before it
\* is still queued or running: its operation is behind all of them in the queue.
THEOREM StopsAreBarriers == Spec => []StopBarrier
  <1> DEFINE Inv == Settlement /\ Placed /\ Barriers
  <1>1. Init => Inv
    <2> SUFFICES ASSUME Init PROVE Placed /\ Barriers
      BY SettlementInit
    <2>1. \A k \in Calls : calls[k].st = "idle"
      BY DEF Init, Unmade
    <2>2. \A k \in Calls : Made(k) => Cell(k) \in Cells
      BY TypesInit, Asks DEF Types, TypeOK
    <2>3. \A c \in Cells : \A e : At(c, e) = {}
      BY DEF Init, At
    <2> QED
      BY <2>1, <2>2, <2>3 DEF Placed, Barriers
  <1>2. Inv /\ [Next]_vars => Inv'
    BY SettlementStep, PlacedStep, BarriersStep DEF Settlement, Spaces
  <1>3. Inv => StopBarrier
    <2> SUFFICES ASSUME Inv, NEW k \in Calls, Made(k), Op(k) \in {"stop", "delete"},
                        calls[k].st = "done", calls[k].answer = "ok",
                        NEW m \in calls[k].before \cap Active(Cell(k)), m \notin forgotten
                 PROVE  FALSE
      BY DEF StopBarrier
    <2>1. BarrierOK(k, m)
      BY DEF Barriers
    <2>2. Places(m) = {} /\ Cell(m) = Cell(k)
      BY <2>1 DEF BarrierOK
    <2> QED
      BY <2>2 DEF Active, Places, At
  <1> QED
    BY <1>1, <1>2, <1>3, PTL DEF Spec
=============================================================================
