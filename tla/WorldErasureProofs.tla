------------------------- MODULE WorldErasureProofs -------------------------
(* Proofs about WorldErasure for any rows, links, stores, workers and       *)
(* bounds.  What makes an erasure complete is spread over its stages: once  *)
(* the work has drained no row is at work again, once it is collected every *)
(* row and copy has its journal item, once it is purged no row is left that *)
(* could write a copy, and an item that is done has its store fenced.  Each *)
(* of these parts has a lemma that looks at the actions that touch it.      *)
EXTENDS WorldErasure, FiniteSetTheorems, WellFoundedInduction, TLAPS

Closed == [open |-> FALSE, held |-> FALSE]

(* Work never begins again once it has drained; received results are closed *)
(* before the first stage is passed.                                        *)
RequestPart ==
  /\ request.state = "none" => /\ request.stage = 1 /\ request.holder = None
                               /\ \A w \in Workers : workers[w].pc = "idle"
  /\ request.state = "at_work" => request.failures < MaxFailures
  /\ request.state = "completed" <=> request.stage = 6
  /\ request.stage # 1 \/ (\E w \in Workers : workers[w].closed) => results = Closed

(* The rows, stage by stage. *)
RowPart ==
  /\ request.stage # 1 => \A r \in Rows : rows[r] # "active"
  /\ request.stage >= 3 => Present \subseteq collected
  /\ request.stage >= 4 => Present = {}
  /\ request.stage # 6 => \A r \in Rows : rows[r] = "purged" => r \in collected

(* Copies and late writes are of rows that were there. *)
CopyPart ==
  /\ \A r \in copies \cup late : rows[r] # "absent"
  /\ \A r \in copies : Store[r] # "none"
  /\ \A r \in late : Store[r] \in {"graph", "checkpoint"}

FilePart ==
  \A f \in FileRows :
    /\ files[f] = "own" => rows[f] # "absent"
    /\ files[f] = "other" => rows[f] = "purged"
    /\ f \in shared => files[f] # "nothing"
    /\ identity[f] # "other"
    /\ f \in collected /\ files[f] = "own" => identity[f] = "own"

(* An item that is done: gone, and its store fenced. *)
Gone(i) == Erased(i) /\ (i.kind \in {"graph", "checkpoint"} => i \in fenced)

(* A file item that is left alone. *)
Spared(i) == i.kind = "file" /\ (files[i.of] = "own" => i.of \in shared)

JournalPart ==
  /\ collected # {} => request.stage # 1
  /\ request.stage \in 3..5 => items[Graph] # "none"
  /\ \A r \in collected : \A i \in CopyItems(r) \cup FileItems(r) : items[i] # "none"
  /\ \A i \in Items : /\ items[i] = "done" => request.stage >= 4 /\ Gone(i)
                      /\ items[i] = "retained" => request.stage >= 4 /\ Spared(i)

(* Workers beyond their claim are cleaning. *)
GoodTick(tick) ==
  /\ tick.pc \notin {"idle", "claimed"} => request.stage >= 4
  /\ tick.pc = "unlink" => tick.item \in Items /\ tick.item.kind = "file"
  /\ tick.pc \in {"check", "effect", "ack"} => tick.item \in Items /\ tick.item.kind # "file"
  /\ tick.pc = "ack" => Gone(tick.item)
TickPart == \A w \in Workers : GoodTick(workers[w])

(* Nothing is left behind a completed erasure, or on its way. *)
EndPart ==
  request.stage = 6 =>
    /\ copies = {} /\ \A r \in late : Refused(r)
    /\ \A f \in FileRows : files[f] = "own" => f \in shared

IInv == /\ TypeOK /\ RequestPart /\ RowPart /\ CopyPart /\ FilePart
        /\ JournalPart /\ TickPart /\ EndPart

-----------------------------------------------------------------------------
(* Facts about the operators the model is built from. *)
LEMMA StageNames ==
  ASSUME request.stage \in 1..6
  PROVE  /\ StageName = "draining" <=> request.stage = 1
         /\ StageName = "collecting" <=> request.stage = 2
         /\ StageName = "purging" <=> request.stage = 3
         /\ StageName = "cleaning" <=> request.stage = 4
         /\ StageName = "verifying" <=> request.stage = 5
<1>1. /\ Stages[1] = "draining" /\ Stages[2] = "collecting" /\ Stages[3] = "purging"
      /\ Stages[4] = "cleaning" /\ Stages[5] = "verifying" /\ Stages[6] = "completed"
  BY DEF Stages
<1>2. request.stage \in {1, 2, 3, 4, 5, 6}
  OBVIOUS
<1> QED
  BY <1>1, <1>2 DEF StageName

(* The request passes to the next stage, and completes with the last one. *)
LEMMA PassedStage ==
  ASSUME request \in Requests, request.stage \in 1..5
  PROVE  /\ Passed \in Requests
         /\ Passed.stage = request.stage + 1
         /\ Passed.state = "completed" <=> request.stage = 5
         /\ Passed.state \in {"at_work", "completed"}
         /\ Passed.failures = request.failures
<1>1. Stages[NextStage(request.stage)] = "completed" <=> request.stage = 5
  <2>1. request.stage \in {1, 2, 3, 4, 5}
    OBVIOUS
  <2> QED
    BY <2>1 DEF Stages, NextStage
<1> DEFINE state == IF Stages[NextStage(request.stage)] = "completed" THEN "completed" ELSE "at_work"
<1>2. Passed = [Released EXCEPT !.stage = request.stage + 1, !.cursor = 0, !.state = state]
  BY DEF Passed, NextStage
<1>3. /\ state \in {"at_work", "completed"}
      /\ state = "completed" <=> request.stage = 5
  BY <1>1
<1>4. Released \in Requests /\ Released.failures = request.failures
  BY DEF Released, Requests, Codes
<1>5. request.stage + 1 \in 1..6
  OBVIOUS
<1> HIDE DEF state
<1>6. Passed \in Requests
  BY <1>2, <1>3, <1>4, <1>5 DEF Requests
<1>7. Passed.stage = request.stage + 1 /\ Passed.state = state /\ Passed.failures = Released.failures
  BY <1>2, <1>4 DEF Requests
<1> QED
  BY <1>3, <1>4, <1>6, <1>7

LEMMA ChargedStage ==
  ASSUME request \in Requests, request.failures < MaxFailures, NEW code \in Codes
  PROVE  /\ Charged(code) \in Requests
         /\ Charged(code).stage = request.stage
         /\ Charged(code).state \in {"failed", "at_work"}
         /\ Charged(code).state = "at_work" => Charged(code).failures < MaxFailures
<1> DEFINE state == IF Final(code, request.failures + 1) THEN "failed" ELSE "at_work"
<1>1. Charged(code) = [request EXCEPT !.holder = None, !.code = code, !.due = FALSE,
                         !.failures = request.failures + 1, !.state = state]
  BY DEF Charged
<1>2. state \in {"failed", "at_work"}
  OBVIOUS
<1>3. request.failures + 1 \in 0..MaxFailures
  BY BoundsAssumption DEF Requests
<1>4. state = "at_work" => request.failures + 1 < MaxFailures
  BY <1>3, BoundsAssumption DEF Final
<1> HIDE DEF state
<1> QED
  BY <1>1, <1>2, <1>3, <1>4 DEF Requests

(* The items of the journal, by kind. *)
LEMMA ItemKinds ==
  /\ Graph \in Items
  /\ \A r \in Rows : CopyItems(r) \cup FileItems(r) \subseteq Items
  /\ \A f \in FileRows : FileItem(f) \in Items
  /\ \A i \in Items :
       \/ i = Graph
       \/ i.kind \in {"index", "checkpoint"} /\ i.of \in Rows /\ i = CopyItem(i.of)
       \/ i.kind = "file" /\ i.of \in FileRows /\ i = FileItem(i.of)
<1>1. \A r \in Rows : CopyItems(r) \cup FileItems(r) \subseteq Items
  BY DEF Items
<1>2. \A f \in FileRows : FileItem(f) \in Items
  BY <1>1, RowsAssumption DEF FileItems
<1>3. ASSUME NEW i \in Items, i # Graph
      PROVE  \/ i.kind \in {"index", "checkpoint"} /\ i.of \in Rows /\ i = CopyItem(i.of)
             \/ i.kind = "file" /\ i.of \in FileRows /\ i = FileItem(i.of)
  <2>1. PICK r \in Rows : i \in CopyItems(r) \cup FileItems(r)
    BY <1>3 DEF Items
  <2>2. CASE i \in CopyItems(r)
    BY <2>2 DEF CopyItems, CopyItem
  <2>3. CASE i \in FileItems(r)
    BY <2>3 DEF FileItems, FileItem
  <2> QED
    BY <2>1, <2>2, <2>3
<1> QED
  BY <1>1, <1>2, <1>3 DEF Items

(* The library's order on the natural numbers, as a set of pairs. *)
Before == {ss \in Nat \X Nat : ss[1] < ss[2]}

LEMMA BeforeWellFounded == IsWellFoundedOn(Before, Nat)
  BY NatLessThanWellFounded, SMT DEF OpToRel, Before

LEMMA FirstRow ==
  ASSUME NEW S \in SUBSET Rows, S # {}
  PROVE  FirstOf(S) \in S /\ \A q \in S : FirstOf(S) <= q
<1>1. S \subseteq Nat
  BY RowsAssumption
<1>2. PICK x \in S : \A y \in S : <<y, x>> \notin Before
  BY <1>1, BeforeWellFounded, WFMin, Zenon
<1>3. ASSUME NEW y \in S
      PROVE  x <= y
  <2>1. x \in Nat /\ y \in Nat
    BY <1>1
  <2>2. ~(y < x)
    BY <1>2, <2>1 DEF Before
  <2> QED
    BY <2>1, <2>2
<1> QED
  BY <1>2, <1>3 DEF FirstOf

LEMMA FirstItem ==
  ASSUME PendingItems # {}
  PROVE  NextItem \in PendingItems
<1> DEFINE keys == {Key(i) : i \in PendingItems}
<1>1. \A i \in PendingItems : Key(i) \in Nat
  <2> SUFFICES ASSUME NEW i \in Items
               PROVE  Key(i) \in Nat
    BY DEF PendingItems
  <2>1. Graph.of = 0 /\ Rows \subseteq Nat /\ FileRows \subseteq Rows
    BY RowsAssumption DEF Graph
  <2>2. i.of = 0 \/ i.of \in Rows \/ i.of \in FileRows
    BY <2>1, ItemKinds
  <2>3. i.of \in Nat
    <3>1. CASE i.of = 0
      BY <3>1
    <3>2. CASE i.of \in Rows
      BY <2>1, <3>2, Zenon
    <3>3. CASE i.of \in FileRows
      BY <2>1, <3>3, Zenon
    <3> QED
      BY <2>2, <3>1, <3>2, <3>3, Zenon
  <2> QED
    BY <2>3 DEF Key
<1>2. PICK k \in keys : \A l \in keys : <<l, k>> \notin Before
  <2>1. keys \subseteq Nat /\ keys # {}
    BY <1>1
  <2> HIDE DEF keys
  <2> QED
    BY <2>1, BeforeWellFounded, WFMin, Zenon
<1>3. PICK i \in PendingItems : Key(i) = k
  BY <1>2
<1>4. ASSUME NEW j \in PendingItems
      PROVE  Key(i) <= Key(j)
  <2>1. Key(i) \in Nat /\ Key(j) \in Nat
    BY <1>1
  <2>2. ~(Key(j) < Key(i))
    BY <1>2, <1>3, <2>1 DEF Before
  <2> QED
    BY <2>1, <2>2
<1> QED
  BY <1>3, <1>4 DEF NextItem

-----------------------------------------------------------------------------
(* The invariant holds at first. *)
LEMMA InitInv == Init => IInv
<1> SUFFICES ASSUME Init
             PROVE  IInv
  OBVIOUS
<1>1. /\ NoRequest \in Requests /\ NoRequest.stage = 1 /\ NoRequest.state = "none"
      /\ NoRequest.holder = None
  BY BoundsAssumption DEF NoRequest, Requests, Codes
<1>2. Idle \in Ticks /\ Idle.pc = "idle" /\ ~Idle.closed
  BY DEF Idle, Ticks
<1>3. TypeOK
  BY <1>1, <1>2, BoundsAssumption DEF Init, TypeOK, RowStates, Occupants
<1>4. RequestPart
  BY <1>1, <1>2 DEF Init, RequestPart
<1>5. RowPart /\ CopyPart /\ FilePart /\ EndPart
  BY <1>1, RowsAssumption DEF Init, RowPart, CopyPart, FilePart, EndPart, Present
<1>6. JournalPart
  BY <1>1 DEF Init, JournalPart
<1>7. TickPart
  BY <1>2 DEF Init, TickPart, GoodTick
<1> QED
  BY <1>3, <1>4, <1>5, <1>6, <1>7 DEF IInv

(* A step that leaves the world alone, but for copies it removes, and keeps *)
(* the stage and the journal, keeps the parts about them.                   *)
LEMMA WorldKept ==
  ASSUME IInv, UNCHANGED <<rows, late, files, shared, journal>>,
         copies' \subseteq copies, fenced \subseteq fenced', request'.stage = request.stage
  PROVE  /\ RowPart' /\ CopyPart' /\ FilePart' /\ JournalPart' /\ EndPart'
         /\ \A tick : GoodTick(tick) => GoodTick(tick)'
<1> USE DEF journal
<1>1. RowPart'
  BY DEF IInv, RowPart, Present
<1>2. CopyPart'
  BY DEF IInv, CopyPart
<1>3. FilePart'
  BY DEF IInv, FilePart
<1>4. \A i : Gone(i) => Gone(i)'
  BY DEF Gone, Erased
<1>5. \A i : Spared(i) => Spared(i)'
  BY DEF Spared
<1>6. JournalPart'
  BY <1>4, <1>5 DEF IInv, JournalPart
<1>7. EndPart'
  BY DEF IInv, EndPart, Refused
<1>8. \A tick : GoodTick(tick) => GoodTick(tick)'
  BY <1>4 DEF GoodTick
<1> QED
  BY <1>1, <1>2, <1>3, <1>6, <1>7, <1>8

-----------------------------------------------------------------------------
(* The world at work. *)
LEMMA RowWorkKept ==
  ASSUME IInv, Live, NEW r \in Rows,
         \/ Insert(r) \/ Activate(r) \/ Settle(r) \/ Index(r) \/ Take(r) \/ Write(r)
         \/ r \in FileRows /\ (Produce(r) \/ Share(r) \/ Occupy(r))
  PROVE  IInv'
<1> USE DEF IInv
<1>0. UNCHANGED <<fenced, request, collected, items, identity, workers, events>>
  BY DEF Live, journal
<1>1. \/ Insert(r) \/ Activate(r) \/ Settle(r) \/ Index(r) \/ Take(r) \/ Write(r)
      \/ r \in FileRows /\ (Produce(r) \/ Share(r) \/ Occupy(r))
  OBVIOUS
<1>2. request.stage >= 4 => ~Insert(r) /\ ~Activate(r) /\ ~Settle(r) /\ ~Index(r) /\ ~Produce(r) /\ ~Share(r)
  <2> SUFFICES ASSUME request.stage >= 4
               PROVE  ~Insert(r) /\ ~Activate(r) /\ ~Settle(r) /\ ~Index(r) /\ ~Produce(r) /\ ~Share(r)
    OBVIOUS
  <2>1. r \notin Present /\ request.stage # 1
    BY DEF RowPart
  <2>2. rows[r] \notin {"idle", "active"} /\ request.state # "none"
    BY <2>1 DEF Present, RequestPart
  <2> QED
    BY <2>1, <2>2 DEF Insert, Activate, Settle, Index, Produce, Share, Fenceless
<1>3. ASSUME NEW i \in Items, request.stage >= 4, Gone(i)
      PROVE  Gone(i)'
  <2>1. CASE Write(r)
    <3>1. copies' = copies \/ (copies' = copies \cup {r} /\ ~Refused(r) /\ Store[r] \in {"graph", "checkpoint"})
      BY <2>1 DEF Write, CopyPart
    <3>2. files' = files
      BY <2>1 DEF Write
    <3>3. CASE copies' = copies
      BY <1>0, <1>3, <3>2, <3>3 DEF Gone, Erased
    <3>4. CASE copies' = copies \cup {r} /\ ~Refused(r) /\ Store[r] \in {"graph", "checkpoint"}
      <4>1. CASE i = Graph
        BY <1>0, <1>3, <3>4, <4>1 DEF Gone, Erased, Graph, Refused
      <4>2. CASE i.kind = "file"
        BY <1>0, <1>3, <3>2, <4>2 DEF Gone, Erased
      <4>3. CASE i = CopyItem(i.of) /\ i.kind \in {"index", "checkpoint"}
        <5>1. i.of # r
          BY <1>3, <3>4, <4>3 DEF Gone, Refused, CopyItem
        <5> QED
          BY <1>0, <1>3, <3>4, <4>3, <5>1 DEF Gone, Erased
      <4> QED
        BY <4>1, <4>2, <4>3, ItemKinds
    <3> QED
      BY <3>1, <3>3, <3>4
  <2>2. CASE Take(r) \/ Share(r)
    BY <1>0, <1>3, <2>2 DEF Take, Share, Gone, Erased
  <2>3. CASE r \in FileRows /\ Occupy(r)
    BY <1>0, <1>3, <2>3 DEF Occupy, Gone, Erased, TypeOK
  <2> QED
    BY <1>1, <1>2, <1>3, <2>1, <2>2, <2>3
<1>4. ASSUME NEW i \in Items, request.stage >= 4, Spared(i)
      PROVE  Spared(i)'
  <2>1. i.kind = "file" /\ i.of \in FileRows
    BY <1>4, ItemKinds DEF Spared, Graph
  <2>2. CASE UNCHANGED <<files, shared>>
    BY <1>4, <2>2 DEF Spared
  <2>3. CASE r \in FileRows /\ Occupy(r)
    BY <1>4, <2>1, <2>3 DEF Occupy, Spared, TypeOK
  <2> QED
    BY <1>1, <1>2, <1>4, <2>2, <2>3 DEF Write, Take
<1>5. TypeOK'
  <2>1. rows' \in [Rows -> RowStates]
    BY <1>1 DEF TypeOK, RowStates, Insert, Activate, Settle, Index, Take, Write, Produce, Share, Occupy
  <2>2. copies' \subseteq Rows /\ late' \subseteq Rows
    BY <1>1 DEF TypeOK, Insert, Activate, Settle, Index, Take, Write, Produce, Share, Occupy
  <2>3. files' \in [FileRows -> Occupants] /\ shared' \subseteq FileRows
    BY <1>1 DEF TypeOK, Occupants, Insert, Activate, Settle, Index, Take, Write, Produce, Share, Occupy
  <2>4. results' = results
    BY <1>1 DEF TypeOK, Insert, Activate, Settle, Index, Take, Write, Produce, Share, Occupy
  <2> QED
    BY <1>0, <2>1, <2>2, <2>3, <2>4 DEF TypeOK
<1>6. RequestPart'
  <2>1. results' = results
    BY <1>1 DEF Insert, Activate, Settle, Index, Take, Write, Produce, Share, Occupy
  <2> QED
    BY <1>0, <2>1 DEF RequestPart
<1>7. RowPart'
  <2>1. CASE rows' = rows
    BY <1>0, <2>1 DEF RowPart, Present
  <2>2. CASE Insert(r) \/ Activate(r)
    <3>1. request.stage = 1 /\ rows'[r] # "purged"
      BY <2>2 DEF Insert, Activate, Fenceless, RequestPart, TypeOK
    <3>2. \A q \in Rows : rows'[q] = "purged" => rows[q] = "purged"
      BY <2>2, <3>1 DEF Insert, Activate, TypeOK
    <3> QED
      BY <1>0, <3>1, <3>2 DEF RowPart
  <2>3. CASE Settle(r)
    <3>1. request.stage = 1 /\ \A q \in Rows : rows'[q] = "purged" => rows[q] = "purged"
      BY <2>3 DEF Settle, RowPart, TypeOK
    <3> QED
      BY <1>0, <3>1 DEF RowPart
  <2> QED
    BY <1>1, <2>1, <2>2, <2>3 DEF Index, Take, Write, Produce, Share, Occupy
<1>8. CopyPart'
  <2>1. \A q \in Rows : rows[q] # "absent" => rows'[q] # "absent"
    BY <1>1 DEF TypeOK, Insert, Activate, Settle, Index, Take, Write, Produce, Share, Occupy
  <2>2. copies' \cup late' \subseteq copies \cup late \cup {r}
    BY <1>1 DEF Insert, Activate, Settle, Index, Take, Write, Produce, Share, Occupy
  <2>3. r \in copies' \cup late' => r \in copies \cup late \/ rows[r] # "absent"
    BY <1>1 DEF Insert, Activate, Settle, Index, Take, Write, Produce, Share, Occupy, Present
  <2>4. /\ r \in copies' => r \in copies \/ Store[r] # "none"
        /\ r \in late' => r \in late \/ Store[r] \in {"graph", "checkpoint"}
    BY <1>1 DEF Insert, Activate, Settle, Index, Take, Write, Produce, Share, Occupy, CopyPart
  <2>5. \A q \in Rows \ {r} : (q \in copies' => q \in copies) /\ (q \in late' => q \in late)
    BY <1>1 DEF Insert, Activate, Settle, Index, Take, Write, Produce, Share, Occupy
  <2>6. copies' \subseteq Rows /\ late' \subseteq Rows
    BY <1>5 DEF TypeOK
  <2> QED
    BY <2>1, <2>2, <2>3, <2>4, <2>5, <2>6 DEF CopyPart, TypeOK
<1>9. FilePart'
  <2> SUFFICES ASSUME NEW f \in FileRows
               PROVE  /\ files'[f] = "own" => rows'[f] # "absent"
                      /\ files'[f] = "other" => rows'[f] = "purged"
                      /\ f \in shared' => files'[f] # "nothing"
                      /\ identity[f] # "other"
                      /\ f \in collected /\ files'[f] = "own" => identity[f] = "own"
    BY <1>0 DEF FilePart
  <2>1. f \in Rows
    BY RowsAssumption
  <2>2. CASE UNCHANGED <<files, shared>>
    <3>1. /\ rows[f] # "absent" => rows'[f] # "absent"
          /\ rows[f] = "purged" => rows'[f] = "purged"
      BY <1>1, <2>1 DEF TypeOK, Insert, Activate, Settle, Index, Take, Write, Produce, Share, Occupy
    <3> QED
      BY <2>2, <3>1 DEF FilePart
  <2>3. CASE r \in FileRows /\ Produce(r)
    <3>1. request.stage = 1
      BY <2>3 DEF Produce, RowPart
    <3>2. f \notin collected
      BY <3>1 DEF JournalPart
    <3> QED
      BY <2>3, <3>2 DEF Produce, FilePart, TypeOK
  <2>4. CASE r \in FileRows /\ Share(r)
    BY <2>4 DEF Share, FilePart
  <2>5. CASE r \in FileRows /\ Occupy(r)
    BY <2>5 DEF Occupy, FilePart, TypeOK
  <2> QED
    BY <1>1, <2>2, <2>3, <2>4, <2>5 DEF Insert, Activate, Settle, Index, Take, Write
<1>10. JournalPart'
  BY <1>0, <1>3, <1>4 DEF JournalPart
<1>11. TickPart'
  <2> SUFFICES ASSUME NEW w \in Workers
               PROVE  GoodTick(workers[w])'
    BY DEF TickPart
  <2>1. GoodTick(workers[w])
    BY DEF TickPart
  <2>2. workers[w].pc = "ack" => workers[w].item \in Items /\ request.stage >= 4 /\ Gone(workers[w].item)
    BY <2>1 DEF GoodTick
  <2>3. workers[w].pc = "ack" => Gone(workers[w].item)'
    BY <1>0, <1>3, <2>2
  <2> QED
    BY <1>0, <2>1, <2>3 DEF GoodTick
<1>12. EndPart'
  <2> SUFFICES ASSUME request.stage = 6
               PROVE  /\ copies' = {} /\ \A q \in late' : Refused(q)'
                      /\ \A f \in FileRows : files'[f] = "own" => f \in shared'
    BY <1>0 DEF EndPart
  <2>1. \/ Take(r) \/ Write(r)
        \/ r \in FileRows /\ Occupy(r)
    BY <1>1, <1>2
  <2>2. ~Take(r) \/ (Store[r] = "graph" /\ r \in Present) \/ rows[r] = "active"
    BY DEF Take
  <2>3. ~Take(r)
    BY <2>2 DEF RowPart
  <2>4. \A q : Refused(q)' = Refused(q)
    BY <1>0 DEF Refused
  <2>5. CASE Write(r)
    BY <2>4, <2>5 DEF Write, EndPart
  <2>6. CASE r \in FileRows /\ Occupy(r)
    BY <2>4, <2>6 DEF Occupy, EndPart, TypeOK
  <2> QED
    BY <2>1, <2>3, <2>5, <2>6
<1> QED
  BY <1>5, <1>6, <1>7, <1>8, <1>9, <1>10, <1>11, <1>12

LEMMA LiveKept ==
  ASSUME IInv, Live
  PROVE  IInv'
<1>1. CASE Receive
  <2>1. /\ UNCHANGED <<rows, copies, late, files, shared, fenced, request, journal, workers, events>>
        /\ results' = [results EXCEPT !.held = TRUE] /\ results.open
    BY <1>1 DEF Receive, Live
  <2>2. TypeOK'
    BY <2>1 DEF IInv, TypeOK, journal
  <2>3. RequestPart'
    BY <2>1 DEF IInv, RequestPart, Closed
  <2>4. /\ RowPart' /\ CopyPart' /\ FilePart' /\ JournalPart' /\ EndPart'
        /\ \A tick : GoodTick(tick) => GoodTick(tick)'
    BY <2>1, WorldKept
  <2> QED
    BY <2>1, <2>2, <2>3, <2>4 DEF IInv, TickPart
<1>2. ASSUME NEW r \in Rows,
             \/ Insert(r) \/ Activate(r) \/ Settle(r) \/ Index(r) \/ Take(r) \/ Write(r)
             \/ r \in FileRows /\ (Produce(r) \/ Share(r) \/ Occupy(r))
      PROVE  IInv'
  BY <1>2, RowWorkKept
<1> QED
  BY <1>1, <1>2, RowsAssumption DEF Live

-----------------------------------------------------------------------------
(* The request between two ticks. *)
LEMMA RequestKept ==
  ASSUME IInv, Accept \/ Retry \/ Expire \/ Due \/ Overdue
  PROVE  IInv'
<1> USE DEF IInv
<1>1. UNCHANGED <<world, fenced, journal, workers>>
  BY DEF Accept, Retry, Expire, Due, Overdue
<1>2. events' \in 0..MaxEvents
  BY BoundsAssumption DEF Accept, Retry, Expire, Due, Overdue, Happens, TypeOK
<1>3. /\ request' \in Requests
      /\ request'.stage = request.stage
      /\ request'.state # "none"
      /\ request'.state = "at_work" => request'.failures < MaxFailures
      /\ request'.state = "completed" <=> request.state = "completed"
  <2>0. request \in Requests /\ 0 < MaxFailures /\ MaxFailures \in Nat
    BY BoundsAssumption DEF TypeOK
  <2>1. CASE Accept
    <3>1. NoRequest \in Requests
      BY <2>0 DEF NoRequest, Requests, Codes
    <3>2. request' \in Requests
      BY <2>1, <3>1 DEF Accept, Requests
    <3>3. request'.stage = 1 /\ request'.state = "at_work" /\ request'.failures = 0
      BY <2>1 DEF Accept, NoRequest
    <3> QED
      BY <2>0, <2>1, <3>2, <3>3 DEF Accept, RequestPart
  <2>2. CASE Retry
    <3>1. /\ request.state = "failed"
          /\ request' = [request EXCEPT !.state = "at_work", !.failures = 0, !.code = "none",
                                        !.due = TRUE, !.holder = None]
      BY <2>2 DEF Retry
    <3>2. request' \in Requests
      <4>1. 0 \in 0..MaxFailures /\ None \in Workers \cup {None} /\ "none" \in Codes
        BY <2>0 DEF Codes
      <4> QED
        BY <2>0, <3>1, <4>1 DEF Requests
    <3>3. request'.stage = request.stage /\ request'.state = "at_work" /\ request'.failures = 0
      BY <2>0, <3>1 DEF Requests
    <3> QED
      BY <2>0, <3>1, <3>2, <3>3
  <2>3. CASE Expire
    <3>1. request.state # "none"
      BY <2>3 DEF Expire, RequestPart
    <3> QED
      BY <2>0, <2>3, <3>1 DEF Expire, Requests, RequestPart
  <2>4. CASE Due \/ Overdue
    BY <2>0, <2>4 DEF Due, Overdue, Requests, RequestPart
  <2> QED
    BY <2>1, <2>2, <2>3, <2>4
<1>4. TypeOK'
  BY <1>1, <1>2, <1>3 DEF TypeOK, world, journal
<1>5. RequestPart'
  BY <1>1, <1>3 DEF RequestPart, world
<1>6. /\ RowPart' /\ CopyPart' /\ FilePart' /\ JournalPart' /\ EndPart'
      /\ \A tick : GoodTick(tick) => GoodTick(tick)'
  BY <1>1, <1>3, WorldKept DEF world
<1> QED
  BY <1>1, <1>4, <1>5, <1>6 DEF TickPart

-----------------------------------------------------------------------------
(* A tick outside its transactions, and what goes wrong in it: the world    *)
(* stays, but for copies that are removed, and so do the stage and the      *)
(* journal.                                                                 *)
LEMMA TickKept ==
  ASSUME IInv, NEW w \in Workers, NEW tick,
         UNCHANGED <<rows, late, files, shared, journal>>,
         copies' \subseteq copies, fenced \subseteq fenced', fenced' \subseteq Items,
         results' = results \/ results' = Closed, tick.closed => results' = Closed,
         workers' = [workers EXCEPT ![w] = tick], tick \in Ticks, GoodTick(tick)',
         tick.pc = "idle" \/ request'.state # "none",
         request' \in Requests, request'.stage = request.stage,
         request'.state = "none" <=> request.state = "none",
         request'.state = "none" => request'.holder = None,
         request'.state = "completed" <=> request.state = "completed",
         request'.state = "at_work" => request'.failures < MaxFailures,
         events' \in 0..MaxEvents
  PROVE  IInv'
<1> USE DEF IInv
<1>1. TypeOK'
  <2>1. results' \in [open : BOOLEAN, held : BOOLEAN]
    <3>1. Closed \in [open : BOOLEAN, held : BOOLEAN]
      BY DEF Closed
    <3> QED
      BY <3>1 DEF TypeOK
  <2> QED
    BY <2>1 DEF TypeOK, journal
<1>2. \A v \in Workers : workers'[v] = IF v = w THEN tick ELSE workers[v]
  BY DEF TypeOK
<1>3. RequestPart'
  BY <1>2 DEF RequestPart
<1>4. /\ RowPart' /\ CopyPart' /\ FilePart' /\ JournalPart' /\ EndPart'
      /\ \A t : GoodTick(t) => GoodTick(t)'
  BY WorldKept
<1>5. TickPart'
  BY <1>2, <1>4 DEF TickPart
<1> QED
  BY <1>1, <1>3, <1>4, <1>5

LEMMA TickRecords ==
  ASSUME TypeOK, NEW w \in Workers
  PROVE  /\ Idle \in Ticks /\ Idle.pc = "idle" /\ ~Idle.closed
         /\ Rest(w) \in Ticks /\ Rest(w).pc = "idle" /\ Rest(w).closed = workers[w].closed
         /\ Handled(w) \in Ticks /\ Handled(w).pc = "advance" /\ Handled(w).closed = workers[w].closed
         /\ \A pc \in {"claimed", "effect", "ack"} :
              /\ At(w, pc) \in Ticks /\ At(w, pc).pc = pc
              /\ At(w, pc).item = workers[w].item /\ At(w, pc).closed = workers[w].closed
<1>1. workers[w] \in Ticks
  BY DEF TypeOK
<1>2. Idle \in Ticks /\ Idle.pc = "idle" /\ ~Idle.closed
  BY DEF Idle, Ticks
<1>3. Rest(w) \in Ticks /\ Rest(w).pc = "idle" /\ Rest(w).closed = workers[w].closed
  BY <1>1, <1>2 DEF Rest, Ticks
<1> QED
  BY <1>1, <1>2, <1>3 DEF Handled, At, Ticks

(* What a lease tells: the request is at work, in a stage before the last. *)
LEMMA LeaseHolds ==
  ASSUME TypeOK, RequestPart, NEW w \in Workers, HasLease(w)
  PROVE  /\ request \in Requests /\ request.stage \in 1..5
         /\ request.state = "at_work" /\ request.failures < MaxFailures
  BY DEF TypeOK, RequestPart, HasLease, Requests

LEMMA CallKept ==
  ASSUME IInv, NEW w \in Workers,
         Claim(w) \/ Lost(w) \/ CloseResults(w) \/ Choose(w) \/ CheckLease(w) \/ Crash(w)
  PROVE  IInv'
<1> USE DEF IInv
<1>0. workers[w] \in Ticks /\ request \in Requests
  BY DEF TypeOK
<1>1. /\ UNCHANGED <<rows, copies, late, files, shared, fenced, journal>>
      /\ events' \in 0..MaxEvents
  BY BoundsAssumption DEF Claim, Lost, CloseResults, Choose, CheckLease, Crash, Step, world, Happens, TypeOK
<1>2. fenced \subseteq Items
  BY DEF TypeOK
<1>3. CASE Claim(w)
  <2>1. PICK tick : tick = At(w, "claimed")
    OBVIOUS
  <2>2. /\ request' = [request EXCEPT !.holder = w] /\ request.state = "at_work"
        /\ workers' = [workers EXCEPT ![w] = tick] /\ results' = results
    BY <1>3, <2>1 DEF Claim, Claimable, Step, world
  <2>3. tick \in Ticks /\ tick.pc = "claimed" /\ tick.closed = workers[w].closed
    BY <2>1, TickRecords
  <2>4. GoodTick(tick)' /\ (tick.closed => results = Closed)
    BY <2>3 DEF GoodTick, RequestPart
  <2>5. /\ request' \in Requests /\ request'.stage = request.stage
        /\ request'.state = "at_work" /\ request'.failures < MaxFailures
    BY <1>0, <2>2 DEF Requests, RequestPart
  <2> QED
    BY <1>1, <1>2, <2>2, <2>3, <2>4, <2>5, TickKept
<1>4. CASE Crash(w) \/ Lost(w)
  <2>1. PICK tick \in {Idle, Rest(w)} : workers' = [workers EXCEPT ![w] = tick]
    BY <1>4 DEF Crash, Lost, Step
  <2>2. request' = request /\ results' = results
    BY <1>4 DEF Crash, Lost, world
  <2>3. tick \in Ticks /\ tick.pc = "idle" /\ (tick.closed => workers[w].closed)
    BY <2>1, TickRecords
  <2>4. GoodTick(tick)' /\ (tick.closed => results = Closed)
    BY <2>3 DEF GoodTick, RequestPart
  <2>5. /\ request'.state = "none" => request'.holder = None
        /\ request'.state = "at_work" => request'.failures < MaxFailures
    BY <2>2 DEF RequestPart
  <2> QED
    BY <1>0, <1>1, <1>2, <2>1, <2>2, <2>3, <2>4, <2>5, TickKept
<1>5. ASSUME NEW tick, HasLease(w), tick \in Ticks, GoodTick(tick)',
             workers' = [workers EXCEPT ![w] = tick], request' = request,
             results' = results \/ results' = Closed, tick.closed => results' = Closed
      PROVE  IInv'
  <2>1. request'.state = "at_work" /\ request'.failures < MaxFailures
    BY <1>5, LeaseHolds
  <2> QED
    BY <1>0, <1>1, <1>2, <1>5, <2>1, TickKept
<1>6. CASE CloseResults(w)
  <2>1. PICK tick : tick = [workers[w] EXCEPT !.closed = TRUE]
    OBVIOUS
  <2>2. tick \in Ticks /\ tick.pc = "claimed"
    BY <1>0, <1>6, <2>1 DEF CloseResults, Ticks
  <2>3. GoodTick(tick)'
    BY <2>2 DEF GoodTick
  <2>4. workers' = [workers EXCEPT ![w] = tick] /\ request' = request /\ results' = Closed /\ HasLease(w)
    BY <1>6, <2>1 DEF CloseResults, Step, Closed
  <2> QED
    BY <1>5, <2>2, <2>3, <2>4
<1>7. CASE Choose(w)
  <2>1. request.stage = 4 /\ request' = request /\ results' = results /\ HasLease(w)
    BY <1>0, <1>7, StageNames DEF Choose, world, Requests
  <2>2. results' = Closed
    BY <2>1 DEF RequestPart
  <2>3. CASE PendingItems = {}
    <3>1. PICK tick : tick = [Handled(w) EXCEPT !.cleaned = TRUE]
      OBVIOUS
    <3>2. tick \in Ticks /\ tick.pc = "advance"
      BY <3>1, TickRecords DEF Ticks
    <3>3. GoodTick(tick)'
      BY <2>1, <3>2 DEF GoodTick
    <3>4. workers' = [workers EXCEPT ![w] = tick]
      BY <1>7, <2>3, <3>1 DEF Choose, Step
    <3> QED
      BY <1>5, <2>1, <2>2, <3>2, <3>3, <3>4
  <2>4. CASE PendingItems # {}
    <3>1. PICK item : item = NextItem
      OBVIOUS
    <3>2. item \in Items
      BY <2>4, <3>1, FirstItem DEF PendingItems
    <3>3. PICK pc \in {"unlink", "check"} : pc = "unlink" <=> item.kind = "file"
      OBVIOUS
    <3>4. PICK tick : tick = [At(w, pc) EXCEPT !.item = item]
      OBVIOUS
    <3>5. tick \in Ticks /\ tick.pc = pc /\ tick.item = item
      BY <1>0, <3>2, <3>4 DEF At, Ticks
    <3>6. GoodTick(tick)'
      BY <2>1, <3>2, <3>3, <3>5 DEF GoodTick
    <3>7. pc = IF NextItem.kind = "file" THEN "unlink" ELSE "check"
      BY <3>1, <3>3
    <3>8. workers' = [workers EXCEPT ![w] = tick]
      BY <1>7, <2>4, <3>1, <3>4, <3>7 DEF Choose, Step
    <3> QED
      BY <1>5, <2>1, <2>2, <3>5, <3>6, <3>8
  <2> QED
    BY <2>3, <2>4
<1>8. CASE CheckLease(w)
  <2>1. PICK tick : tick = At(w, "effect")
    OBVIOUS
  <2>2. GoodTick(workers[w]) /\ workers[w].pc = "check"
    BY <1>8 DEF TickPart, CheckLease
  <2>3. request' = request /\ results' = results /\ HasLease(w)
    BY <1>8 DEF CheckLease, world
  <2>4. /\ tick \in Ticks /\ tick.pc = "effect"
        /\ tick.item = workers[w].item /\ tick.closed = workers[w].closed
    BY <2>1, TickRecords
  <2>5. GoodTick(tick)' /\ (tick.closed => results = Closed)
    BY <2>2, <2>3, <2>4 DEF GoodTick, RequestPart
  <2>6. workers' = [workers EXCEPT ![w] = tick]
    BY <1>8, <2>1 DEF CheckLease, Step
  <2> QED
    BY <1>5, <2>3, <2>4, <2>5, <2>6
<1> QED
  BY <1>3, <1>4, <1>6, <1>7, <1>8

(* An effect fences its store and removes what it finds there. *)
LEMMA PageGone ==
  ASSUME TypeOK, NEW i \in Items, i.kind # "file", NEW page \in Page(i),
         fenced' = fenced \cup Fencing(i), copies' = copies \ page, i = Graph => page = {}
  PROVE  Gone(i)'
<1>1. CASE i = Graph
  <2>1. \A r \in copies : Store[r] # "graph"
    BY <1>1 DEF Page
  <2> QED
    BY <1>1, <2>1 DEF Gone, Erased, Graph, Fencing
<1>2. CASE i.kind \in {"index", "checkpoint"} /\ i # Graph
  <2>1. page = copies \cap {i.of}
    BY <1>2 DEF Page
  <2> QED
    BY <1>2, <2>1 DEF Gone, Erased, Fencing
<1> QED
  BY <1>1, <1>2, ItemKinds

LEMMA EffectKept ==
  ASSUME IInv, NEW w \in Workers, Effect(w)
  PROVE  IInv'
<1> USE DEF IInv
<1>1. PICK i : i = workers[w].item
  OBVIOUS
<1>2. /\ workers[w].pc = "effect" /\ GoodTick(workers[w])
  BY DEF Effect, TickPart
<1>3. i \in Items /\ i.kind # "file" /\ request.stage >= 4
  BY <1>1, <1>2 DEF GoodTick
<1>4. PICK page \in Page(i) :
        /\ copies' = copies \ page
        /\ Step(w, IF i = Graph /\ page # {} THEN Handled(w) ELSE At(w, "ack"))
  BY <1>1 DEF Effect
<1>5. /\ fenced' = fenced \cup Fencing(i)
      /\ UNCHANGED <<rows, late, results, files, shared, request, journal, events>>
  BY <1>1 DEF Effect
<1>6. fenced' \subseteq Items
  BY <1>3, <1>5 DEF TypeOK, Fencing
<1>7. PICK tick : tick = IF i = Graph /\ page # {} THEN Handled(w) ELSE At(w, "ack")
  OBVIOUS
<1>8. tick \in Ticks /\ tick.closed = workers[w].closed /\ tick.pc \in {"advance", "ack"}
  BY <1>7, TickRecords
<1>9. tick.pc = "ack" => tick.item = i /\ (i = Graph => page = {})
  BY <1>1, <1>7, TickRecords
<1>10. tick.pc = "ack" => Gone(tick.item)'
  BY <1>3, <1>4, <1>5, <1>9, PageGone
<1>11. GoodTick(tick)'
  BY <1>3, <1>5, <1>8, <1>9, <1>10 DEF GoodTick
<1>12. workers' = [workers EXCEPT ![w] = tick]
  BY <1>4, <1>7 DEF Step
<1>13. tick.closed => results' = Closed
  BY <1>5, <1>8 DEF RequestPart
<1>14. /\ request'.state # "none"
       /\ request'.state = "at_work" => request'.failures < MaxFailures
       /\ request' \in Requests
  BY <1>2, <1>5 DEF RequestPart, TypeOK
<1>15. events' \in 0..MaxEvents
  BY <1>5 DEF TypeOK
<1> QED
  BY <1>4, <1>5, <1>6, <1>8, <1>11, <1>12, <1>13, <1>14, <1>15, TickKept

(* A transaction that is given up, an effect that fails. *)
LEMMA FailureKept ==
  ASSUME IInv, NEW w \in Workers, Busy(w) \/ EffectFails(w)
  PROVE  IInv'
<1> USE DEF IInv
<1>1. PICK tick : tick = Rest(w)
  OBVIOUS
<1>2. tick \in Ticks /\ tick.pc = "idle" /\ tick.closed = workers[w].closed
  BY <1>1, TickRecords
<1>3. GoodTick(tick)' /\ (tick.closed => results = Closed)
  BY <1>2 DEF GoodTick, RequestPart
<1>4. /\ workers' = [workers EXCEPT ![w] = tick]
      /\ UNCHANGED <<rows, late, results, files, shared, journal>>
      /\ events' \in 0..MaxEvents
  BY <1>1, BoundsAssumption DEF Busy, EffectFails, Step, world, Happens, TypeOK
<1>5. copies' \subseteq copies /\ fenced \subseteq fenced' /\ fenced' \subseteq Items
  <2>1. CASE UNCHANGED <<copies, fenced>>
    BY <2>1 DEF TypeOK
  <2>2. CASE /\ EffectFails(w) /\ workers[w].pc = "effect"
             /\ fenced' = fenced \cup Fencing(workers[w].item)
             /\ \E page \in Page(workers[w].item) \cup {{}} : copies' = copies \ page
    <3>1. workers[w].item \in Items
      BY <2>2 DEF TickPart, GoodTick
    <3> QED
      BY <2>2, <3>1 DEF Fencing, TypeOK
  <2> QED
    BY <2>1, <2>2 DEF Busy, EffectFails, world
<1>6. request \in Requests
  BY DEF TypeOK
<1>7. \/ request' = request
      \/ request' = [request EXCEPT !.holder = None, !.code = "busy", !.due = FALSE] /\ HasLease(w)
      \/ \E code \in {"effect", "material"} : request' = Charged(code) /\ HasLease(w)
  BY DEF Busy, EffectFails
<1>8. /\ request' \in Requests /\ request'.stage = request.stage
      /\ request'.state = "none" <=> request.state = "none"
      /\ request'.state = "none" => request'.holder = None
      /\ request'.state = "completed" <=> request.state = "completed"
      /\ request'.state = "at_work" => request'.failures < MaxFailures
  <2>1. CASE request' = request
    BY <1>6, <2>1 DEF RequestPart
  <2>2. CASE /\ request' = [request EXCEPT !.holder = None, !.code = "busy", !.due = FALSE]
             /\ HasLease(w)
    <3>1. None \in Workers \cup {None} /\ "busy" \in Codes
      BY DEF Codes
    <3> QED
      BY <1>6, <2>2, <3>1, LeaseHolds DEF Requests
  <2>3. ASSUME NEW code \in {"effect", "material"}, request' = Charged(code), HasLease(w)
        PROVE  /\ request' \in Requests /\ request'.stage = request.stage
               /\ request'.state \in {"failed", "at_work"} /\ request.state = "at_work"
               /\ request'.state = "at_work" => request'.failures < MaxFailures
    <3>1. code \in Codes
      BY DEF Codes
    <3> QED
      BY <2>3, <3>1, LeaseHolds, ChargedStage
  <2> QED
    BY <1>7, <2>1, <2>2, <2>3
<1> QED
  BY <1>2, <1>3, <1>4, <1>5, <1>8, TickKept

-----------------------------------------------------------------------------
(* An item is acknowledged, or left alone, and its file perhaps removed. *)
LEMMA ItemKept ==
  ASSUME IInv, NEW w \in Workers, NEW i \in Items, HasLease(w), request.stage >= 4,
         workers' = [workers EXCEPT ![w] = Handled(w)],
         UNCHANGED <<rows, copies, late, results, shared, fenced, request, collected, identity, events>>,
         files' \in [FileRows -> Occupants],
         \A f \in FileRows : files'[f] = files[f] \/ (files'[f] = "nothing" /\ f \notin shared),
         \/ items' = items
         \/ items' = [items EXCEPT ![i] = "done"] /\ Gone(i)'
         \/ items' = [items EXCEPT ![i] = "retained"] /\ Spared(i)'
  PROVE  IInv'
<1> USE DEF IInv
<1>1. PICK tick : tick = Handled(w)
  OBVIOUS
<1>2. tick \in Ticks /\ tick.pc = "advance" /\ tick.closed = workers[w].closed
  BY <1>1, TickRecords
<1>3. \A v \in Workers : workers'[v] = IF v = w THEN tick ELSE workers[v]
  BY <1>1 DEF TypeOK
<1>4. request.stage \in 4..5 /\ request.state = "at_work"
  BY LeaseHolds
<1>5. TypeOK'
  <2>1. items' \in [Items -> {"none", "pending", "done", "retained"}]
    BY DEF TypeOK
  <2>2. workers' \in [Workers -> Ticks]
    BY <1>1, <1>2 DEF TypeOK
  <2> QED
    BY <2>1, <2>2 DEF TypeOK
<1>6. RequestPart'
  BY <1>2, <1>3, <1>4 DEF RequestPart
<1>7. RowPart' /\ CopyPart' /\ EndPart'
  BY <1>4 DEF RowPart, CopyPart, EndPart, Present
<1>8. FilePart'
  BY DEF FilePart
<1>9. \A j \in Items : (Gone(j) => Gone(j)') /\ (Spared(j) => Spared(j)')
  <2> SUFFICES ASSUME NEW j \in Items
               PROVE  (Gone(j) => Gone(j)') /\ (Spared(j) => Spared(j)')
    OBVIOUS
  <2>1. j.kind = "file" => j.of \in FileRows
    BY ItemKinds DEF Graph
  <2>2. j.kind = "file" => files'[j.of] = files[j.of] \/ files'[j.of] = "nothing"
    BY <2>1
  <2> QED
    BY <2>2 DEF Gone, Erased, Spared
<1>10. JournalPart'
  <2>1. \A j \in Items : items[j] # "none" => items'[j] # "none"
    BY DEF TypeOK
  <2>2. \A j \in Items : items'[j] = "done" => Gone(j)'
    BY <1>9 DEF TypeOK, JournalPart
  <2>3. \A j \in Items : items'[j] = "retained" => Spared(j)'
    BY <1>9 DEF TypeOK, JournalPart
  <2>4. \A r \in collected : CopyItems(r) \cup FileItems(r) \subseteq Items
    BY ItemKinds DEF TypeOK
  <2> QED
    BY <2>1, <2>2, <2>3, <2>4, ItemKinds DEF JournalPart
<1>11. TickPart'
  <2> SUFFICES ASSUME NEW v \in Workers
               PROVE  GoodTick(workers[v])'
    BY DEF TickPart
  <2>1. CASE v = w
    BY <1>2, <1>3, <2>1 DEF GoodTick
  <2>2. CASE v # w
    <3>1. workers'[v] = workers[v] /\ GoodTick(workers[v])
      BY <1>3, <2>2 DEF TickPart
    <3> QED
      BY <1>9, <3>1 DEF GoodTick
  <2> QED
    BY <2>1, <2>2
<1> QED
  BY <1>5, <1>6, <1>7, <1>8, <1>10, <1>11

LEMMA UnlinkKept ==
  ASSUME IInv, NEW w \in Workers, Unlink(w)
  PROVE  IInv'
<1> USE DEF IInv
<1>1. PICK i : i = workers[w].item
  OBVIOUS
<1>2. PICK f : f = i.of
  OBVIOUS
<1>3. HasLease(w) /\ workers[w].pc = "unlink" /\ GoodTick(workers[w])
  BY DEF Unlink, TickPart
<1>4. i \in Items /\ i.kind = "file" /\ request.stage >= 4
  BY <1>1, <1>3 DEF GoodTick
<1>5. i = FileItem(f) /\ f \in FileRows /\ f \in Rows
  <2>1. Graph.kind # "file"
    BY DEF Graph
  <2>2. i = FileItem(f) /\ f \in FileRows
    BY <1>2, <1>4, <2>1, ItemKinds
  <2> QED
    BY <2>2, RowsAssumption
<1>6. /\ workers' = [workers EXCEPT ![w] = Handled(w)]
      /\ UNCHANGED <<rows, copies, late, results, shared, fenced, request, collected, identity, events>>
  BY DEF Unlink, Step
<1>7. \/ items' = items /\ files' = files
      \/ /\ MayUnlink(f)
         /\ items' = [items EXCEPT ![i] = "done"] /\ files' = [files EXCEPT ![f] = "nothing"]
      \/ ~MayUnlink(f) /\ items' = [items EXCEPT ![i] = "retained"] /\ files' = files
  BY <1>1, <1>2, <1>5 DEF Unlink
<1>8. CASE items' = items /\ files' = files
  BY <1>3, <1>4, <1>6, <1>8, ItemKept DEF TypeOK
<1>9. CASE /\ MayUnlink(f)
           /\ items' = [items EXCEPT ![i] = "done"] /\ files' = [files EXCEPT ![f] = "nothing"]
  <2>1. files' \in [FileRows -> Occupants]
    BY <1>9 DEF TypeOK, Occupants
  <2>2. \A g \in FileRows : files'[g] = files[g] \/ (files'[g] = "nothing" /\ g \notin shared)
    BY <1>9 DEF MayUnlink, TypeOK
  <2>3. Gone(i)'
    BY <1>2, <1>4, <1>5, <1>9 DEF Gone, Erased, TypeOK
  <2> QED
    BY <1>3, <1>4, <1>6, <1>9, <2>1, <2>2, <2>3, ItemKept
<1>10. CASE ~MayUnlink(f) /\ items' = [items EXCEPT ![i] = "retained"] /\ files' = files
  <2>1. files[f] = "own" => f \in shared
    <3> SUFFICES ASSUME files[f] = "own", f \notin shared
                 PROVE  FALSE
      OBVIOUS
    <3>1. rows[f] = "purged"
      <4>1. rows[f] # "absent" /\ rows[f] \in RowStates
        BY <1>5 DEF FilePart, TypeOK
      <4>2. f \notin Present
        BY <1>4 DEF RowPart
      <4> QED
        BY <1>5, <4>1, <4>2 DEF Present, RowStates
    <3>2. f \in collected
      BY <1>3, <1>5, <3>1, LeaseHolds DEF RowPart
    <3>3. identity[f] = "own"
      BY <1>5, <3>2 DEF FilePart
    <3> QED
      BY <1>10, <3>3 DEF MayUnlink
  <2>2. Spared(i)'
    BY <1>2, <1>4, <1>6, <1>10, <2>1 DEF Spared
  <2> QED
    BY <1>3, <1>4, <1>6, <1>10, <2>2, ItemKept DEF TypeOK
<1> QED
  BY <1>7, <1>8, <1>9, <1>10

LEMMA AckKept ==
  ASSUME IInv, NEW w \in Workers, Ack(w)
  PROVE  IInv'
<1> USE DEF IInv
<1>1. PICK i : i = workers[w].item
  OBVIOUS
<1>2. HasLease(w) /\ workers[w].pc = "ack" /\ GoodTick(workers[w])
  BY DEF Ack, TickPart
<1>3. i \in Items /\ request.stage >= 4 /\ Gone(i)
  BY <1>1, <1>2 DEF GoodTick
<1>4. /\ workers' = [workers EXCEPT ![w] = Handled(w)]
      /\ UNCHANGED <<rows, copies, late, results, shared, files, fenced, request, collected, identity, events>>
      /\ items' = IF items[i] = "pending" THEN [items EXCEPT ![i] = "done"] ELSE items
  BY <1>1 DEF Ack, Step, world
<1>5. Gone(i)'
  BY <1>3, <1>4 DEF Gone, Erased
<1> QED
  BY <1>2, <1>3, <1>4, <1>5, ItemKept DEF TypeOK

-----------------------------------------------------------------------------
(* The transaction that ends a tick. *)
LEMMA ReleasedStage ==
  ASSUME request \in Requests, NEW result,
         \/ result = Released \/ result = [Released EXCEPT !.due = FALSE]
         \/ \E cursor \in Nat : result = [Released EXCEPT !.cursor = cursor]
  PROVE  /\ result \in Requests /\ result.stage = request.stage
         /\ result.state = request.state /\ result.failures = request.failures
<1>1. /\ Released \in Requests /\ Released.stage = request.stage
      /\ Released.state = request.state /\ Released.failures = request.failures
  BY DEF Released, Requests, Codes
<1> QED
  BY <1>1 DEF Requests

(* What the new request is, whichever stage the tick was in. *)
LEMMA AdvancedRequest ==
  ASSUME TypeOK, RequestPart, TickPart, NEW w \in Workers, Advance(w)
  PROVE  /\ request.stage \in 1..5 /\ request.stage # 6 /\ results = Closed
         /\ request' \in Requests /\ request'.state # "none"
         /\ request'.stage \in {request.stage, request.stage + 1}
         /\ request'.state = "completed" <=> request'.stage = 6
         /\ request'.state = "at_work" => request'.failures < MaxFailures
<1>1. HasLease(w)
  BY DEF Advance
<1>2. /\ request \in Requests /\ request.stage \in 1..5
      /\ request.state = "at_work" /\ request.failures < MaxFailures
  BY <1>1, LeaseHolds
<1>3. \/ request' = Passed
      \/ request' = Released
      \/ request' = [Released EXCEPT !.due = FALSE]
      \/ \E cursor \in Nat : request' = [Released EXCEPT !.cursor = cursor]
      \/ \E code \in Codes : request' = Charged(code)
  <2>1. CASE Drain
    BY <2>1 DEF Drain, Codes
  <2>2. CASE Collect \/ Clean(w)
    BY <2>2 DEF Collect, Clean
  <2>3. CASE Purge
    <3>1. \A gone : CursorAfter(gone, request.cursor + 1) \in Nat
      BY <1>2 DEF CursorAfter, Requests
    <3> QED
      BY <2>3, <3>1 DEF Purge, Codes
  <2>4. CASE Verify
    BY <2>4 DEF Verify, Codes
  <2> QED
    BY <2>1, <2>2, <2>3, <2>4 DEF Advance
<1>4. PICK result : result = request'
  OBVIOUS
<1>5. /\ result \in Requests /\ result.state # "none"
      /\ result.stage \in {request.stage, request.stage + 1}
      /\ result.state = "completed" <=> result.stage = 6
      /\ result.state = "at_work" => result.failures < MaxFailures
  <2>1. CASE result = Passed
    BY <1>2, <2>1, PassedStage
  <2>2. CASE \/ result = Released \/ result = [Released EXCEPT !.due = FALSE]
             \/ \E cursor \in Nat : result = [Released EXCEPT !.cursor = cursor]
    BY <1>2, <2>2, ReleasedStage
  <2>3. CASE \E code \in Codes : result = Charged(code)
    BY <1>2, <2>3, ChargedStage
  <2> QED
    BY <1>3, <1>4, <2>1, <2>2, <2>3
<1>6. results = Closed
  <2>1. workers[w].closed \/ request.stage # 1
    BY <1>2 DEF Advance, TickPart, GoodTick
  <2> QED
    BY <2>1 DEF RequestPart
<1> QED
  BY <1>2, <1>4, <1>5, <1>6

(* Such a transaction leaves alone what the workers rely on. *)
LEMMA AdvanceKept ==
  ASSUME IInv, NEW w \in Workers, Advance(w),
         rows' \in [Rows -> RowStates], collected' \subseteq Rows,
         items' \in [Items -> {"none", "pending", "done", "retained"}],
         identity' \in [FileRows -> Occupants],
         RowPart', CopyPart', FilePart', JournalPart', EndPart'
  PROVE  IInv'
<1> USE DEF IInv
<1>1. PICK tick : tick = Rest(w)
  OBVIOUS
<1>2. tick \in Ticks /\ tick.pc = "idle" /\ tick.closed = workers[w].closed
  BY <1>1, TickRecords
<1>3. /\ workers' = [workers EXCEPT ![w] = tick]
      /\ UNCHANGED <<copies, late, results, files, shared, fenced, events>>
  BY <1>1 DEF Advance, Step
<1>4. \A v \in Workers : workers'[v] = IF v = w THEN tick ELSE workers[v]
  BY <1>3 DEF TypeOK
<1>5. /\ request.stage \in 1..5 /\ results = Closed
      /\ request' \in Requests /\ request'.state # "none"
      /\ request'.stage \in {request.stage, request.stage + 1}
      /\ request'.state = "completed" <=> request'.stage = 6
      /\ request'.state = "at_work" => request'.failures < MaxFailures
  BY AdvancedRequest
<1>6. TypeOK'
  BY <1>2, <1>3, <1>5 DEF TypeOK
<1>7. RequestPart'
  BY <1>3, <1>5 DEF RequestPart
<1>8. TickPart'
  <2> SUFFICES ASSUME NEW v \in Workers
               PROVE  GoodTick(workers[v])'
    BY DEF TickPart
  <2>1. CASE v = w
    BY <1>2, <1>4, <2>1 DEF GoodTick
  <2>2. CASE v # w
    <3>1. workers'[v] = workers[v] /\ GoodTick(workers[v])
      BY <1>4, <2>2 DEF TickPart
    <3>2. \A i : Gone(i) => Gone(i)'
      BY <1>3 DEF Gone, Erased
    <3>3. request.stage >= 4 => request'.stage >= 4
      BY <1>5
    <3> QED
      BY <3>1, <3>2, <3>3 DEF GoodTick
  <2> QED
    BY <2>1, <2>2
<1> QED
  BY <1>6, <1>7, <1>8

LEMMA DrainKept ==
  ASSUME IInv, NEW w \in Workers, Advance(w), Drain \/ Clean(w)
  PROVE  IInv'
<1> USE DEF IInv
<1>1. UNCHANGED <<rows, journal, copies, late, results, files, shared, fenced>>
  BY DEF Drain, Clean, Advance
<1>2. /\ request \in Requests /\ request.stage \in 1..5 /\ request.stage \in {1, 4}
      /\ request'.stage \in {request.stage, request.stage + 1}
  BY AdvancedRequest, StageNames DEF Drain, Clean, TypeOK
<1>3. request.stage = 1 /\ request'.stage = 2 => \A r \in Rows : rows[r] # "active"
  <2> SUFFICES ASSUME request.stage = 1, request'.stage = 2, ~Drained
               PROVE  FALSE
    BY DEF Drained
  <2>1. Drain
    BY <1>2, StageNames DEF Clean
  <2>2. request' = Charged("effect") \/ request' = [Released EXCEPT !.due = FALSE]
    BY <2>1 DEF Drain
  <2>3. request'.stage = request.stage
    BY <1>2, <2>2 DEF Charged, Released, Requests
  <2> QED
    BY <2>3
<1>4. RowPart'
  BY <1>1, <1>2, <1>3 DEF RowPart, Present, journal
<1>5. CopyPart' /\ FilePart'
  BY <1>1 DEF CopyPart, FilePart, journal
<1>6. JournalPart'
  BY <1>1, <1>2 DEF JournalPart, journal, Gone, Erased, Spared
<1>7. EndPart'
  BY <1>2 DEF EndPart
<1> QED
  BY <1>1, <1>4, <1>5, <1>6, <1>7, AdvanceKept DEF TypeOK, journal

LEMMA CollectKept ==
  ASSUME IInv, NEW w \in Workers, Advance(w), Collect
  PROVE  IInv'
<1> USE DEF IInv
<1> DEFINE left == Present \ collected
           page == IF left = {} THEN {} ELSE {FirstOf(left)}
           found == {Graph} \cup UNION {CopyItems(r) \cup FileItems(r) : r \in page}
<1>1. /\ UNCHANGED <<rows, copies, late, results, files, shared, fenced>>
      /\ collected' = collected \cup page
      /\ items' = [i \in Items |-> IF i \in found /\ items[i] = "none" THEN "pending" ELSE items[i]]
      /\ identity' = [f \in FileRows |-> IF f \in page THEN files[f] ELSE identity[f]]
      /\ request' = IF left = {} THEN Passed ELSE Released
  BY DEF Collect, Advance
<1>2. request \in Requests /\ request.stage = 2
  BY AdvancedRequest, StageNames DEF Collect, TypeOK
<1>3. request'.stage = IF left = {} THEN 3 ELSE 2
  BY <1>1, <1>2, PassedStage, ReleasedStage
<1>4. page \subseteq left /\ left \subseteq Rows
  <2>1. left \subseteq Rows
    BY DEF Present
  <2>2. left # {} => FirstOf(left) \in left
    BY <2>1, FirstRow
  <2> QED
    BY <2>1, <2>2
<1> HIDE DEF page, left
<1>5. \A r \in page : rows[r] \in {"idle", "active"}
  BY <1>4 DEF left, Present
<1>6. /\ collected' \subseteq Rows /\ identity' \in [FileRows -> Occupants]
      /\ items' \in [Items -> {"none", "pending", "done", "retained"}]
  BY <1>1, <1>4 DEF TypeOK
<1>7. RowPart'
  <2>1. left = {} => Present \subseteq collected
    BY DEF left
  <2> QED
    BY <1>1, <1>2, <1>3, <2>1 DEF RowPart, Present
<1>8. CopyPart'
  BY <1>1 DEF CopyPart
<1>9. FilePart'
  <2> SUFFICES ASSUME NEW f \in FileRows
               PROVE  /\ identity'[f] # "other"
                      /\ f \in collected' /\ files[f] = "own" => identity'[f] = "own"
    BY <1>1 DEF FilePart
  <2>1. f \in page => files[f] # "other"
    BY <1>5 DEF FilePart
  <2> QED
    BY <1>1, <2>1 DEF FilePart
<1>10. JournalPart'
  <2>1. Graph \in Items /\ Graph \in found
    BY ItemKinds
  <2>2. items'[Graph] # "none"
    BY <1>1, <2>1
  <2>3. ASSUME NEW r \in collected', NEW i \in CopyItems(r) \cup FileItems(r)
        PROVE  items'[i] # "none"
    <3>1. i \in Items
      BY <1>6, <2>3, ItemKinds
    <3>2. CASE r \in page
      BY <1>1, <2>3, <3>1, <3>2
    <3>3. CASE r \in collected
      <4>1. items[i] # "none"
        BY <2>3, <3>3 DEF JournalPart
      <4> QED
        BY <1>1, <3>1, <4>1
    <3> QED
      BY <1>1, <2>3, <3>2, <3>3
  <2>4. \A i \in Items : items'[i] \notin {"done", "retained"}
    BY <1>1, <1>2 DEF JournalPart
  <2> QED
    BY <1>3, <2>2, <2>3, <2>4 DEF JournalPart
<1>11. EndPart'
  BY <1>3 DEF EndPart
<1> QED
  BY <1>1, <1>6, <1>7, <1>8, <1>9, <1>10, <1>11, AdvanceKept DEF TypeOK

LEMMA PurgeKept ==
  ASSUME IInv, NEW w \in Workers, Advance(w), Purge
  PROVE  IInv'
<1> USE DEF IInv
<1> DEFINE left == Present \cap collected
<1>1. /\ UNCHANGED <<journal, copies, late, results, files, shared, fenced>>
      /\ \E gone \in SUBSET left : rows' = [r \in Rows |-> IF r \in gone THEN "purged" ELSE rows[r]]
  <2>1. UNCHANGED <<journal, copies, late, results, files, shared, fenced>>
    BY DEF Purge, Advance
  <2> DEFINE next == request.cursor + 1
             tried == {r \in left : Rank(r, left) = 0 /\ CanPurge(r)}
             later == {r \in left : Rank(r, left) = next}
             gone == IF tried # {} THEN tried ELSE {r \in later : CanPurge(r)}
  <2>2. gone \in SUBSET left
    OBVIOUS
  <2>3. rows' = [r \in Rows |-> IF r \in gone THEN "purged" ELSE rows[r]]
    BY DEF Purge
  <2> HIDE DEF gone
  <2> QED
    BY <2>1, <2>2, <2>3
<1>2. /\ request \in Requests /\ request.stage = 3
      /\ request'.stage \in {3, 4}
  <2>1. /\ request.stage \in 1..5 /\ request \in Requests
        /\ request'.stage \in {request.stage, request.stage + 1}
    BY AdvancedRequest DEF TypeOK
  <2>2. StageName = "purging"
    BY DEF Purge
  <2>3. request.stage = 3
    BY <2>1, <2>2, StageNames
  <2> QED
    BY <2>1, <2>3
<1>3. request'.stage = 4 => left = {}
  <2> SUFFICES ASSUME left # {}
               PROVE  request'.stage = 3
    BY <1>2
  <2>1. \/ request' = Charged("links")
        \/ \E cursor : request' = [Released EXCEPT !.cursor = cursor]
    BY DEF Purge
  <2> QED
    BY <1>2, <2>1 DEF Charged, Released, Requests
<1>4. PICK gone \in SUBSET left : rows' = [r \in Rows |-> IF r \in gone THEN "purged" ELSE rows[r]]
  BY <1>1
<1>5. /\ rows' \in [Rows -> RowStates]
      /\ Present' \subseteq Present
      /\ \A r \in Rows : rows'[r] # rows[r] => r \in collected /\ rows'[r] = "purged"
  BY <1>4 DEF TypeOK, RowStates, Present
<1>6. RowPart'
  <2>1. Present \subseteq collected
    BY <1>2 DEF RowPart
  <2>2. request'.stage = 4 => Present' = {}
    BY <1>3, <1>5, <2>1
  <2>3. \A r \in Rows : rows'[r] # "active"
    BY <1>2, <1>5 DEF RowPart
  <2>4. \A r \in Rows : rows'[r] = "purged" => r \in collected
    BY <1>2, <1>5 DEF RowPart
  <2> QED
    BY <1>1, <1>2, <1>5, <2>1, <2>2, <2>3, <2>4 DEF RowPart, journal
<1>7. CopyPart'
  BY <1>1, <1>5 DEF CopyPart, TypeOK
<1>8. FilePart'
  <2>1. \A f \in FileRows : /\ rows[f] # "absent" => rows'[f] # "absent"
                            /\ rows[f] = "purged" => rows'[f] = "purged"
    BY <1>5, RowsAssumption
  <2> QED
    BY <1>1, <2>1 DEF FilePart, journal
<1>9. JournalPart'
  BY <1>1, <1>2 DEF JournalPart, journal, Gone, Erased, Spared
<1>10. EndPart'
  BY <1>2 DEF EndPart
<1> QED
  BY <1>1, <1>5, <1>6, <1>7, <1>8, <1>9, <1>10, AdvanceKept DEF TypeOK, journal

(* With no row left and every item handled, nothing of the world is left.   *)
LEMMA NothingLeft ==
  ASSUME IInv, request.stage = 5, Present = {}, PendingItems = {}
  PROVE  /\ copies = {} /\ \A r \in late : Refused(r)
         /\ \A f \in FileRows : files[f] = "own" => f \in shared
<1> USE DEF IInv
<1>1. ASSUME NEW i \in Items, items[i] # "none"
      PROVE  Gone(i) \/ Spared(i)
  BY <1>1 DEF PendingItems, JournalPart, TypeOK
<1>2. ASSUME NEW r \in Rows, rows[r] # "absent"
      PROVE  r \in collected
  <2>1. rows[r] = "purged"
    BY <1>2 DEF Present, TypeOK, RowStates
  <2> QED
    BY <2>1 DEF RowPart
<1>3. Gone(Graph)
  BY <1>1, ItemKinds DEF JournalPart, Spared, Graph
<1>4. ASSUME NEW r \in Rows, rows[r] # "absent", Store[r] \in {"index", "checkpoint"}
      PROVE  Gone(CopyItem(r))
  <2>1. CopyItem(r) \in CopyItems(r)
    BY <1>4 DEF CopyItems
  <2>2. CopyItem(r) \in Items /\ items[CopyItem(r)] # "none"
    BY <1>2, <1>4, <2>1, ItemKinds DEF JournalPart
  <2>3. ~Spared(CopyItem(r))
    BY <1>4 DEF Spared, CopyItem
  <2> QED
    BY <1>1, <2>2, <2>3
<1>5. copies = {}
  <2> SUFFICES ASSUME NEW r \in copies
               PROVE  FALSE
    OBVIOUS
  <2>1. r \in Rows /\ rows[r] # "absent" /\ Store[r] \in {"graph", "index", "checkpoint"}
    BY RowsAssumption DEF CopyPart, TypeOK
  <2>2. Store[r] # "graph"
    BY <1>3 DEF Gone, Erased, Graph
  <2> QED
    BY <1>4, <2>1, <2>2 DEF Gone, Erased, CopyItem
<1>6. ASSUME NEW r \in late
      PROVE  Refused(r)
  <2>1. r \in Rows /\ rows[r] # "absent" /\ Store[r] \in {"graph", "checkpoint"}
    BY DEF CopyPart, TypeOK
  <2> QED
    BY <1>3, <1>4, <2>1 DEF Refused, Gone, Graph, CopyItem
<1>7. ASSUME NEW f \in FileRows, files[f] = "own"
      PROVE  f \in shared
  <2>1. f \in Rows /\ f \in collected
    BY <1>2, <1>7, RowsAssumption DEF FilePart
  <2>2. FileItem(f) \in Items /\ items[FileItem(f)] # "none"
    BY <2>1, ItemKinds DEF JournalPart, FileItems
  <2> QED
    BY <1>1, <1>7, <2>2 DEF Gone, Erased, Spared, FileItem
<1> QED
  BY <1>5, <1>6, <1>7

LEMMA VerifyKept ==
  ASSUME IInv, NEW w \in Workers, Advance(w), Verify
  PROVE  IInv'
<1> USE DEF IInv
<1>1. UNCHANGED <<rows, copies, late, results, files, shared, fenced>>
  BY DEF Verify, Advance
<1>2. request \in Requests /\ request.stage = 5
  BY AdvancedRequest, StageNames DEF Verify, TypeOK
<1>3. CASE UNCHANGED journal /\ (request' = Released \/ request' = Charged("scope"))
  <2>1. request'.stage = 5
    BY <1>2, <1>3 DEF Released, Charged, Requests
  <2>2. RowPart' /\ CopyPart' /\ FilePart'
    BY <1>1, <1>2, <1>3, <2>1 DEF RowPart, CopyPart, FilePart, Present, journal
  <2>3. JournalPart'
    BY <1>1, <1>2, <1>3, <2>1 DEF JournalPart, journal, Gone, Erased, Spared
  <2>4. EndPart'
    BY <2>1 DEF EndPart
  <2> QED
    BY <1>1, <1>3, <2>2, <2>3, <2>4, AdvanceKept DEF TypeOK, journal
<1>4. CASE /\ Present = {} /\ PendingItems = {} /\ request' = Passed /\ collected' = {}
           /\ items' = [i \in Items |-> "none"]
           /\ identity' = [f \in FileRows |-> "nothing"]
  <2>1. request'.stage = 6
    BY <1>2, <1>4, PassedStage
  <2>2. RowPart'
    BY <1>1, <1>2, <1>4, <2>1 DEF RowPart, Present
  <2>3. CopyPart' /\ FilePart'
    BY <1>1, <1>4 DEF CopyPart, FilePart
  <2>4. JournalPart'
    BY <1>4, <2>1 DEF JournalPart
  <2>5. EndPart'
    BY <1>1, <1>2, <1>4, NothingLeft DEF EndPart, Refused
  <2>6. /\ items' \in [Items -> {"none", "pending", "done", "retained"}]
        /\ identity' \in [FileRows -> Occupants] /\ collected' \subseteq Rows
    BY <1>4 DEF Occupants
  <2> QED
    BY <1>1, <2>2, <2>3, <2>4, <2>5, <2>6, AdvanceKept DEF TypeOK
<1> QED
  BY <1>3, <1>4 DEF Verify

-----------------------------------------------------------------------------
LEMMA InvKept == IInv /\ [Next]_vars => IInv'
<1> SUFFICES ASSUME IInv, [Next]_vars
             PROVE  IInv'
  OBVIOUS
<1>1. CASE UNCHANGED vars
  BY <1>1 DEF vars, world, journal, IInv, TypeOK, RequestPart, RowPart, CopyPart, FilePart,
              JournalPart, TickPart, EndPart, GoodTick, Gone, Spared, Erased, Present, Refused
<1>2. CASE Live
  BY <1>2, LiveKept
<1>3. CASE Accept \/ Retry \/ Expire \/ Due \/ Overdue
  BY <1>3, RequestKept
<1>4. ASSUME NEW w \in Workers, Tick(w) \/ Busy(w) \/ EffectFails(w) \/ Crash(w)
      PROVE  IInv'
  <2>1. CASE Claim(w) \/ Lost(w) \/ CloseResults(w) \/ Choose(w) \/ CheckLease(w) \/ Crash(w)
    BY <2>1, CallKept
  <2>2. CASE Unlink(w)
    BY <2>2, UnlinkKept
  <2>3. CASE Effect(w)
    BY <2>3, EffectKept
  <2>4. CASE Ack(w)
    BY <2>4, AckKept
  <2>5. CASE Busy(w) \/ EffectFails(w)
    BY <2>5, FailureKept
  <2>6. CASE Advance(w)
    <3>1. Drain \/ Collect \/ Purge \/ Clean(w) \/ Verify
      BY <2>6 DEF Advance
    <3> QED
      BY <2>6, <3>1, DrainKept, CollectKept, PurgeKept, VerifyKept
  <2> QED
    BY <1>4, <2>1, <2>2, <2>3, <2>4, <2>5, <2>6 DEF Tick
<1> QED
  BY <1>1, <1>2, <1>3, <1>4 DEF Next

(* The inductive invariant holds whatever the world's rows, links and       *)
(* stores, and however many workers, failures and crashes there are.        *)
THEOREM Invariance == Spec => []IInv
  BY InitInv, InvKept, PTL DEF Spec

(* Every variable of the erasure keeps its type. *)
THEOREM TypeCorrect == Spec => []TypeOK
<1>1. IInv => TypeOK
  BY DEF IInv
<1> QED
  BY <1>1, Invariance, PTL

(* A receipt that says completed is the truth and stays it: late graph      *)
(* commands and checkpoint writers are refused, and no row is left that     *)
(* could write a copy or a file again.                                      *)
THEOREM CompletedErased == Spec => []CompletedMeansErased
<1>1. IInv => CompletedMeansErased
  <2> SUFFICES ASSUME IInv, request.state = "completed"
               PROVE  /\ Present = {} /\ copies = {} /\ results = Closed
                      /\ \A f \in FileRows : files[f] = "own" => f \in shared
    BY DEF CompletedMeansErased, Closed
  <2>1. request.stage = 6
    BY DEF IInv, RequestPart
  <2> QED
    BY <2>1 DEF IInv, RequestPart, RowPart, EndPart
<1> QED
  BY <1>1, Invariance, PTL

(* What the journal says is done stays done, late writers and workers that  *)
(* lost their claim included.                                               *)
THEOREM AckedErased == Spec => []AckedStaysErased
<1>1. IInv => AckedStaysErased
  BY DEF IInv, JournalPart, Gone, AckedStaysErased
<1> QED
  BY <1>1, Invariance, PTL

(* No worker, early or late, takes a file that another world shows or that  *)
(* came to lie on a journalled path after the journal was written.          *)
THEOREM OthersKept == Spec => OthersFilesKept
<1> DEFINE Kept == \A f \in FileRows : (f \in shared \/ files[f] = "other") => files'[f] # "nothing"
<1>1. IInv /\ [Next]_vars => [Kept]_vars
  <2> SUFFICES ASSUME IInv, Next, NEW f \in FileRows, f \in shared \/ files[f] = "other"
               PROVE  files'[f] # "nothing"
    OBVIOUS
  <2>1. files[f] # "nothing" /\ identity[f] # "other"
    BY DEF IInv, FilePart
  <2>2. CASE files' = files
    BY <2>1, <2>2
  <2>3. ASSUME NEW g \in FileRows, files' = [files EXCEPT ![g] = "own"] \/ files' = [files EXCEPT ![g] = "other"]
        PROVE  files'[f] # "nothing"
    BY <2>1, <2>3 DEF IInv, TypeOK
  <2>4. ASSUME NEW w \in Workers, Unlink(w)
        PROVE  files'[f] # "nothing"
    <3>1. PICK g : g = workers[w].item.of
      OBVIOUS
    <3>2. files' = files \/ (MayUnlink(g) /\ files' = [files EXCEPT ![g] = "nothing"])
      BY <2>4, <3>1 DEF Unlink
    <3>3. MayUnlink(g) => g # f
      BY <2>1 DEF MayUnlink
    <3> QED
      BY <2>1, <3>2, <3>3 DEF IInv, TypeOK
  <2>5. CASE Live
    <3>1. \/ files' = files
          \/ \E g \in FileRows : \/ files' = [files EXCEPT ![g] = "own"]
                                 \/ files' = [files EXCEPT ![g] = "other"]
      BY <2>5 DEF Live, Insert, Activate, Settle, Index, Take, Write, Receive, Produce, Share, Occupy
    <3> QED
      BY <2>2, <2>3, <3>1
  <2>6. CASE Accept \/ Retry \/ Expire \/ Due \/ Overdue
    BY <2>2, <2>6 DEF Accept, Retry, Expire, Due, Overdue, world
  <2>7. ASSUME NEW w \in Workers, Tick(w) \/ Busy(w) \/ EffectFails(w) \/ Crash(w), ~Unlink(w)
        PROVE  files'[f] # "nothing"
    <3>1. files' = files
      BY <2>7 DEF Tick, Claim, Lost, CloseResults, Choose, CheckLease, Effect, Ack, Advance,
                  Busy, EffectFails, Crash, world
    <3> QED
      BY <2>2, <3>1
  <2> QED
    BY <2>4, <2>5, <2>6, <2>7 DEF Next
<1> QED
  BY <1>1, Invariance, PTL DEF Spec, OthersFilesKept

-----------------------------------------------------------------------------
(* Why an erasure does not stop for the links of its rows.  Rows without a   *)
(* circle have an order in which each comes before the rows that point to it. *)
Ordered(rank) ==
  /\ rank \in [Rows -> Nat]
  /\ \A l \in Links : l[1] # l[2] => rank[l[2]] < rank[l[1]]

(* Of finitely many things with a height, one is the highest. *)
LEMMA Highest ==
  ASSUME NEW S, IsFiniteSet(S), S # {}, NEW height \in [S -> Nat]
  PROVE  \E x \in S : \A y \in S : height[y] <= height[x]
<1> DEFINE Above(x) == {y \in S : height[y] > height[x]}
           sizes == {Cardinality(Above(x)) : x \in S}
<1>1. \A x \in S : Above(x) \in SUBSET S /\ IsFiniteSet(Above(x)) /\ Cardinality(Above(x)) \in Nat
  BY FS_Subset, FS_CardinalityType
<1>2. sizes \subseteq Nat /\ sizes # {}
  BY <1>1
<1>3. PICK n \in sizes : \A m \in sizes : <<m, n>> \notin Before
  <2> HIDE DEF sizes
  <2> QED
    BY <1>2, BeforeWellFounded, WFMin, Zenon
<1>4. PICK x \in S : Cardinality(Above(x)) = n
  BY <1>3
<1>5. ASSUME NEW y \in S, height[y] > height[x]
      PROVE  FALSE
  <2>1. Above(y) \in SUBSET Above(x) /\ y \in Above(x) /\ y \notin Above(y)
    BY <1>5
  <2>2. Cardinality(Above(y)) <= Cardinality(Above(x)) /\ Cardinality(Above(y)) # Cardinality(Above(x))
    <3>1. IsFiniteSet(Above(x)) /\ Above(y) # Above(x)
      BY <1>1, <2>1
    <3> HIDE DEF Above
    <3> QED
      BY <2>1, <3>1, FS_Subset
  <2>3. Cardinality(Above(y)) \in Nat /\ Cardinality(Above(x)) \in Nat /\ Cardinality(Above(y)) \in sizes
    BY <1>1
  <2> HIDE DEF Above, sizes
  <2>4. ~(Cardinality(Above(y)) < Cardinality(Above(x)))
    BY <1>3, <1>4, <2>3 DEF Before
  <2> QED
    BY <2>2, <2>3, <2>4
<1>6. \A y \in S : height[y] <= height[x]
  BY <1>5
<1> QED
  BY <1>6

(* Pages are numbered without gaps. *)
LEMMA PageReached ==
  ASSUME NEW S \in SUBSET Rows, NEW r \in S, NEW n \in Nat, Rank(r, S) >= n
  PROVE  \E q \in S : Rank(q, S) = n
<1> DEFINE Below(q) == {p \in S : p < q}
           high == {q \in S : Rank(q, S) >= n}
<1>1. IsFiniteSet(S) /\ S \subseteq Nat
  BY RowsAssumption, FS_Subset
<1>2. \A q \in S : /\ Rank(q, S) = Cardinality(Below(q))
                   /\ IsFiniteSet(Below(q)) /\ Below(q) \in SUBSET S /\ Rank(q, S) \in Nat
  BY <1>1, FS_Subset, FS_CardinalityType DEF Rank
<1>3. PICK q \in high : \A p \in high : q <= p
  <2>1. high \in SUBSET Rows /\ high # {}
    OBVIOUS
  <2> HIDE DEF high
  <2> QED
    BY <2>1, FirstRow
<1>4. CASE Below(q) = {}
  <2>1. Rank(q, S) = 0
    BY <1>2, <1>4, FS_EmptySet
  <2> QED
    BY <1>3, <2>1
<1>5. CASE Below(q) # {}
  <2>1. PICK m \in Below(q) : \A p \in Below(q) : p <= m
    <3> DEFINE height == [p \in Below(q) |-> p]
    <3>1. height \in [Below(q) -> Nat]
      BY <1>1
    <3>2. \A p \in Below(q) : height[p] = p
      OBVIOUS
    <3>3. IsFiniteSet(Below(q))
      BY <1>2
    <3> HIDE DEF height, Below
    <3>4. \E m \in Below(q) : \A p \in Below(q) : height[p] <= height[m]
      BY <1>5, <3>1, <3>3, Highest
    <3> QED
      BY <3>2, <3>4
  <2>2. m \in S /\ m < q /\ q \in S
    BY <2>1
  <2>3. Below(m) = Below(q) \ {m}
    <3>1. \A p \in Below(q) : p # m => p < m
      BY <1>1, <2>1
    <3>2. \A p \in S : p < m => p < q /\ p # m
      BY <1>1, <2>2
    <3> QED
      BY <3>1, <3>2
  <2>4. Rank(m, S) = Rank(q, S) - 1
    <3>1. PICK B : B = Below(q)
      OBVIOUS
    <3>2. Rank(q, S) = Cardinality(B) /\ Rank(m, S) = Cardinality(B \ {m}) /\ IsFiniteSet(B) /\ m \in B
      <4> HIDE DEF Below
      <4> QED
        BY <1>2, <2>1, <2>2, <2>3, <3>1
    <3>3. Cardinality(B \ {m}) = Cardinality(B) - 1
      BY <3>2, FS_RemoveElement
    <3> QED
      BY <3>2, <3>3
  <2>5. m \notin high
    BY <1>1, <1>3, <2>2
  <2>6. ~(Rank(m, S) >= n) /\ Rank(q, S) >= n
    BY <1>3, <2>2, <2>5
  <2>7. Rank(m, S) \in Nat /\ Rank(q, S) \in Nat
    <3> HIDE DEF Below, high
    <3> QED
      BY <1>2, <2>2
  <2>8. Rank(q, S) = n
    <3> HIDE DEF Below, high
    <3> QED
      BY <2>4, <2>6, <2>7
  <2> QED
    BY <2>2, <2>8
<1> QED
  BY <1>4, <1>5

(* As long as a row is left, the one that comes last in the order can go. *)
LEMMA LastRowGoes ==
  ASSUME NEW rank, Ordered(rank), Present # {}
  PROVE  \E r \in Present : CanPurge(r)
<1> DEFINE height == [r \in Present |-> rank[r]]
<1>1. Present \in SUBSET Rows /\ IsFiniteSet(Present)
  BY RowsAssumption, FS_Subset DEF Present
<1>2. height \in [Present -> Nat] /\ \A r \in Present : height[r] = rank[r]
  BY <1>1 DEF Ordered
<1>3. PICK r \in Present : \A q \in Present : height[q] <= height[r]
  <2> HIDE DEF height
  <2> QED
    BY <1>1, <1>2, Highest
<1>4. ASSUME NEW c \in Present \ {r}, <<c, r>> \in Links
      PROVE  FALSE
  <2>1. rank[r] < rank[c]
    BY <1>4 DEF Ordered
  <2>2. rank[c] <= rank[r] /\ rank[c] \in Nat /\ rank[r] \in Nat
    BY <1>1, <1>2, <1>3 DEF Ordered
  <2> QED
    BY <2>1, <2>2
<1> QED
  BY <1>4 DEF CanPurge, Obstructed

(* Pages the cursor has left behind since the last row went hold rows that   *)
(* cannot go.                                                                *)
LinkPart ==
  request.stage = 3 =>
    \A r \in Present : Rank(r, Present) \in 1..request.cursor => ~CanPurge(r)

(* Only the transaction that ends a tick gives a request up for its links or *)
(* for what it finds left, moves the stage or the cursor, or purges.         *)
LEMMA OtherSteps ==
  ASSUME IInv, [Next]_vars, \A w \in Workers : ~Advance(w)
  PROVE  /\ request'.code = request.code \/ request'.code \notin {"links", "scope"}
         /\ request'.stage = request.stage
         /\ request.stage = 3 => rows' = rows /\ request'.cursor = request.cursor
<1>1. request \in Requests /\ (request.state = "none" => request.stage = 1)
  BY DEF IInv, TypeOK, RequestPart
<1>2. CASE UNCHANGED vars
  BY <1>2 DEF vars, world
<1>3. CASE Live
  <2>1. request' = request
    BY <1>3 DEF Live
  <2>2. request.stage = 3 => ~Fenceless /\ \A r \in Rows : rows[r] # "active"
    BY <1>1 DEF IInv, RowPart, Fenceless
  <2>3. request.stage = 3 => rows' = rows
    BY <1>3, <2>2 DEF Live, Insert, Activate, Settle, Index, Take, Write, Receive, Produce, Share, Occupy
  <2> QED
    BY <2>1, <2>3
<1>4. CASE Accept
  <2>1. request' = [NoRequest EXCEPT !.state = "at_work"] /\ request.stage = 1
    BY <1>1, <1>4 DEF Accept
  <2> QED
    BY <2>1 DEF NoRequest
<1>5. CASE Retry \/ Expire \/ Due \/ Overdue
  <2>1. CASE Retry
    <3>1. request' = [request EXCEPT !.state = "at_work", !.failures = 0, !.code = "none",
                                     !.due = TRUE, !.holder = None]
      BY <2>1 DEF Retry
    <3> QED
      BY <1>1, <2>1, <3>1 DEF Retry, world, Requests
  <2>2. CASE Expire
    BY <1>1, <2>2 DEF Expire, world, Requests
  <2>3. CASE Due \/ Overdue
    BY <1>1, <2>3 DEF Due, Overdue, world, Requests
  <2> QED
    BY <1>5, <2>1, <2>2, <2>3
<1>6. ASSUME NEW w \in Workers,
             Claim(w) \/ Lost(w) \/ CloseResults(w) \/ Choose(w) \/ CheckLease(w) \/ Crash(w)
      PROVE  /\ rows' = rows
             /\ request' = request \/ request' = [request EXCEPT !.holder = w]
  BY <1>6 DEF Claim, Lost, CloseResults, Choose, CheckLease, Crash, world
<1>7. ASSUME NEW w \in Workers, Unlink(w) \/ Effect(w) \/ Ack(w)
      PROVE  rows' = rows /\ request' = request
  BY <1>7 DEF Unlink, Effect, Ack, world
<1>8. ASSUME NEW w \in Workers, Busy(w) \/ EffectFails(w)
      PROVE  /\ rows' = rows
             /\ \/ request' = request
                \/ request' = [request EXCEPT !.holder = None, !.code = "busy", !.due = FALSE]
                \/ \E code \in {"effect", "material"} : request' = Charged(code)
  BY <1>8 DEF Busy, EffectFails, world
<1>9. ASSUME NEW w \in Workers, Tick(w) \/ Busy(w) \/ EffectFails(w) \/ Crash(w)
      PROVE  /\ request'.code = request.code \/ request'.code \notin {"links", "scope"}
             /\ request'.stage = request.stage /\ request'.cursor = request.cursor
             /\ rows' = rows
  <2>1. CASE Claim(w) \/ Lost(w) \/ CloseResults(w) \/ Choose(w) \/ CheckLease(w) \/ Crash(w)
    BY <1>1, <1>6, <2>1 DEF Requests
  <2>2. CASE Unlink(w) \/ Effect(w) \/ Ack(w)
    BY <1>7, <2>2
  <2>3. CASE Busy(w) \/ EffectFails(w)
    BY <1>1, <1>8, <2>3 DEF Charged, Requests
  <2> QED
    BY <1>9, <2>1, <2>2, <2>3 DEF Tick
<1>10. CASE \E w \in Workers : Tick(w) \/ Busy(w) \/ EffectFails(w) \/ Crash(w)
  BY <1>9, <1>10, Zenon
<1>11. Next => Live \/ Accept \/ (Retry \/ Expire \/ Due \/ Overdue)
               \/ \E w \in Workers : Tick(w) \/ Busy(w) \/ EffectFails(w) \/ Crash(w)
  BY DEF Next
<1> QED
  BY <1>2, <1>3, <1>4, <1>5, <1>10, <1>11

(* A purge of rows without a circle finds a row that can go before its       *)
(* cursor runs past the last page.                                           *)
LEMMA PurgeGoesOn ==
  ASSUME IInv, LinkPart, NEW rank, Ordered(rank), NEW w \in Workers, Advance(w), Purge
  PROVE  request'.code = "none" /\ LinkPart'
<1>1. request \in Requests /\ request.stage = 3
  <2>1. request \in Requests /\ request.stage \in 1..5 /\ StageName = "purging"
    BY AdvancedRequest DEF IInv, TypeOK, Purge
  <2> QED
    BY <2>1, StageNames
<1>2. PICK left : left = Present
  OBVIOUS
<1>3. PICK next : next = request.cursor + 1
  OBVIOUS
<1>4. left \in SUBSET Rows /\ left = Present \cap collected /\ next \in Nat \ {0}
  BY <1>1, <1>2, <1>3 DEF IInv, RowPart, Present, Requests
<1>5. \A r \in left : Rank(r, left) \in Nat
  <2>1. ASSUME NEW r \in left
        PROVE  IsFiniteSet({q \in left : q < r})
    BY <1>4, RowsAssumption, FS_Subset
  <2> QED
    BY <2>1, FS_CardinalityType DEF Rank
<1>6. \A r \in left : Rank(r, left) \in 1..(next - 1) => ~CanPurge(r)
  <2>1. next - 1 = request.cursor
    BY <1>1, <1>3 DEF Requests
  <2> QED
    BY <1>1, <1>2, <2>1 DEF LinkPart
<1> DEFINE tried == {r \in left : Rank(r, left) = 0 /\ CanPurge(r)}
           later == {r \in left : Rank(r, left) = next}
           gone == IF tried # {} THEN tried ELSE {r \in later : CanPurge(r)}
<1>7. /\ rows' = [r \in Rows |-> IF r \in gone THEN "purged" ELSE rows[r]]
      /\ request' = IF left = {} THEN Passed
                    ELSE IF tried = {} /\ later = {} THEN Charged("links")
                    ELSE [Released EXCEPT !.cursor = CursorAfter(gone, next)]
  BY <1>3, <1>4 DEF Purge
<1>8. left # {} => tried # {} \/ later # {}
  <2> SUFFICES ASSUME left # {}, tried = {}
               PROVE  later # {}
    OBVIOUS
  <2>1. PICK r \in left : CanPurge(r)
    BY <1>2, LastRowGoes
  <2>2. Rank(r, left) # 0
    BY <2>1
  <2>3. Rank(r, left) \notin 1..(next - 1)
    BY <1>6, <2>1
  <2>4. Rank(r, left) >= next
    <3> HIDE DEF tried, later, gone
    <3> QED
      BY <1>4, <1>5, <2>2, <2>3
  <2>5. \E q \in left : Rank(q, left) = next
    <3> HIDE DEF tried, later, gone
    <3> QED
      BY <1>4, <2>4, PageReached
  <2> QED
    BY <2>5
<1>9. CASE left = {}
  <2>1. request' = Passed
    BY <1>7, <1>9
  <2>2. Passed.stage = 4 /\ Passed.code = "none"
    BY <1>1, PassedStage DEF Passed, Released, Requests
  <2> QED
    BY <2>1, <2>2 DEF LinkPart
<1>10. CASE left # {}
  <2>1. request' = [Released EXCEPT !.cursor = CursorAfter(gone, next)]
    BY <1>7, <1>8, <1>10
  <2>2. request'.code = "none" /\ request'.cursor = CursorAfter(gone, next)
    <3> HIDE DEF gone
    <3> QED
      BY <1>1, <2>1 DEF Released, Requests
  <2>3. CASE gone # {}
    <3>1. request'.cursor = 0
      BY <2>2, <2>3 DEF CursorAfter
    <3> QED
      BY <2>2, <3>1 DEF LinkPart
  <2>4. CASE gone = {}
    <3>1. request'.cursor = next
      BY <2>2, <2>4 DEF CursorAfter
    <3>2. rows' = rows
      <4>1. rows \in [Rows -> RowStates]
        BY DEF IInv, TypeOK
      <4> HIDE DEF gone
      <4> QED
        BY <1>7, <2>4, <4>1
    <3>3. Present' = left /\ \A r : CanPurge(r)' <=> CanPurge(r)
      BY <1>2, <3>2 DEF Present, CanPurge, Obstructed
    <3>4. \A r \in left : Rank(r, left) = next => ~CanPurge(r)
      BY <2>4
    <3>5. ASSUME NEW r \in left, Rank(r, left) \in 1..next
          PROVE  ~CanPurge(r)
      <4>1. CASE Rank(r, left) = next
        BY <3>4, <4>1
      <4>2. CASE Rank(r, left) # next
        <5>1. Rank(r, left) \in 1..(next - 1)
          <6> HIDE DEF tried, later, gone
          <6> QED
            BY <1>4, <3>5, <4>2
        <5> QED
          BY <1>6, <5>1
      <4> QED
        BY <4>1, <4>2
    <3> QED
      BY <2>2, <3>1, <3>3, <3>5 DEF LinkPart
  <2> QED
    BY <2>3, <2>4
<1> QED
  BY <1>9, <1>10

(* Outside the purge the last transaction of a tick gives nothing up for the *)
(* links, and it comes to the purge with the cursor at its start.            *)
LEMMA OtherStages ==
  ASSUME IInv, NEW w \in Workers, Advance(w), ~Purge
  PROVE  request'.code \notin {"links", "scope"} /\ (request'.stage = 3 => request'.cursor = 0)
<1>1. request \in Requests /\ request.stage \in 1..5
  BY AdvancedRequest DEF IInv, TypeOK
<1>2. /\ Passed.stage = request.stage + 1 /\ Passed.code = "none" /\ Passed.cursor = 0
      /\ Released.stage = request.stage /\ Released.code = "none"
      /\ Charged("effect").stage = request.stage /\ Charged("effect").code = "effect"
  <2>1. Released \in Requests /\ Released.stage = request.stage /\ Released.code = "none"
    BY <1>1 DEF Released, Requests, Codes
  <2>2. Passed.code = "none" /\ Passed.cursor = 0
    BY <2>1 DEF Passed, Requests
  <2>3. Charged("effect").stage = request.stage /\ Charged("effect").code = "effect"
    BY <1>1 DEF Charged, Requests
  <2> QED
    BY <1>1, <2>1, <2>2, <2>3, PassedStage
<1>3. CASE Drain
  <2>1. request.stage = 1
    BY <1>1, <1>3, StageNames DEF Drain
  <2>2. \/ request' \in {Passed, Charged("effect")}
        \/ request' = [Released EXCEPT !.due = FALSE]
    BY <1>3 DEF Drain
  <2>3. [Released EXCEPT !.due = FALSE].stage = 1 /\ [Released EXCEPT !.due = FALSE].code = "none"
    BY <1>1, <1>2, <2>1 DEF Released, Requests
  <2>4. CASE request' = Passed
    BY <1>2, <2>4
  <2>5. CASE request' = Charged("effect")
    BY <1>2, <2>1, <2>5
  <2>6. CASE request' = [Released EXCEPT !.due = FALSE]
    BY <2>3, <2>6
  <2> QED
    BY <2>2, <2>4, <2>5, <2>6
<1>4. CASE Collect
  <2>1. request.stage = 2 /\ request' \in {Passed, Released}
    BY <1>1, <1>4, StageNames DEF Collect
  <2> QED
    BY <1>2, <2>1
<1>5. CASE Clean(w)
  <2>1. request.stage = 4 /\ request' \in {Passed, Released}
    BY <1>1, <1>5, StageNames DEF Clean
  <2> QED
    BY <1>2, <2>1
<1>6. CASE Verify
  <2>1. request.stage = 5
    BY <1>1, <1>6, StageNames DEF Verify
  <2>2. Present = {}
    BY <2>1 DEF IInv, RowPart
  <2>3. request' \in {Passed, Released}
    BY <1>6, <2>2 DEF Verify
  <2> QED
    BY <1>2, <2>1, <2>3
<1> QED
  BY <1>3, <1>4, <1>5, <1>6 DEF Advance

(* A world whose rows do not point to one another in a circle is never given *)
(* up for the links of its rows, in whatever order its pages hold them and   *)
(* whatever fails, crashes or is retried meanwhile: for such rows the        *)
(* property that a circle breaks holds.                                      *)
THEOREM NoCircleNoStop ==
  ASSUME NEW rank, Ordered(rank)
  PROVE  Spec => []CyclesBroken
<1>1. Init => LinkPart /\ CyclesBroken
  BY DEF Init, LinkPart, CyclesBroken, NoRequest
<1>2. ASSUME IInv, LinkPart, CyclesBroken, [Next]_vars
      PROVE  LinkPart' /\ CyclesBroken'
  <2>1. CASE \E w \in Workers : Advance(w) /\ Purge
    BY <1>2, <2>1, PurgeGoesOn DEF CyclesBroken
  <2>2. CASE \E w \in Workers : Advance(w) /\ ~Purge
    <3>1. request'.code \notin {"links", "scope"} /\ (request'.stage = 3 => request'.cursor = 0)
      BY <1>2, <2>2, OtherStages
    <3> QED
      BY <3>1 DEF LinkPart, CyclesBroken
  <2>3. CASE \A w \in Workers : ~Advance(w)
    <3>1. /\ request'.code = request.code \/ request'.code \notin {"links", "scope"}
          /\ request'.stage = request.stage
          /\ request.stage = 3 => rows' = rows /\ request'.cursor = request.cursor
      BY <1>2, <2>3, OtherSteps
    <3>2. request.stage = 3 => Present' = Present /\ \A r : CanPurge(r)' <=> CanPurge(r)
      BY <3>1 DEF Present, CanPurge, Obstructed
    <3>3. LinkPart'
      BY <1>2, <3>1, <3>2 DEF LinkPart
    <3> QED
      BY <1>2, <3>1, <3>3 DEF CyclesBroken
  <2> QED
    BY <2>1, <2>2, <2>3
<1> QED
  BY <1>1, <1>2, Invariance, PTL DEF Spec

(* The verification never finds a row the earlier stages left behind.        *)
NothingFound == request.code # "scope"

(* Whatever the links of its rows, a world is never given up because its     *)
(* verification finds a row: late writers and jobs bring none back.          *)
THEOREM VerificationFindsNothing == Spec => []NothingFound
<1>1. Init => NothingFound
  BY DEF Init, NothingFound, NoRequest
<1>2. ASSUME IInv, NothingFound, [Next]_vars
      PROVE  NothingFound'
  <2>1. ASSUME NEW w \in Workers, Advance(w), Purge
        PROVE  NothingFound'
    <3>1. request \in Requests
      BY <1>2 DEF IInv, TypeOK
    <3>2. \/ request' = Passed \/ request' = Charged("links")
          \/ \E cursor : request' = [Released EXCEPT !.cursor = cursor]
      BY <2>1 DEF Purge
    <3> QED
      BY <3>1, <3>2 DEF NothingFound, Passed, Released, Charged, Requests
  <2>2. CASE \E w \in Workers : Advance(w) /\ ~Purge
    BY <1>2, <2>2, OtherStages DEF NothingFound
  <2>3. CASE \A w \in Workers : ~Advance(w)
    BY <1>2, <2>3, OtherSteps DEF NothingFound
  <2> QED
    BY <2>1, <2>2, <2>3
<1> QED
  BY <1>1, <1>2, Invariance, PTL DEF Spec

-----------------------------------------------------------------------------
(* An erasure never goes back: not to an earlier stage, not on a purged row, *)
(* a fence, or what its journal holds until the last step empties it; and no *)
(* row joins the world once the request is there.                            *)
Onward ==
  /\ request'.stage >= request.stage
  /\ \A r \in Rows : /\ rows[r] = "purged" => rows'[r] = "purged"
                     /\ request.state # "none" /\ rows[r] = "absent" => rows'[r] = "absent"
  /\ fenced \subseteq fenced'
  /\ request'.state # "completed" =>
       /\ collected \subseteq collected'
       /\ \A i \in Items : items[i] \in {"done", "retained"} => items'[i] = items[i]

(* A completed request is final: nothing changes it, its journal or the      *)
(* copies, which are gone.                                                   *)
ReceiptKept == request.state = "completed" => UNCHANGED <<request, journal, copies>>

(* A row is purged by the last transaction of a tick, once it is collected.  *)
LEMMA AdvancedRows ==
  ASSUME IInv, NEW w \in Workers, Advance(w)
  PROVE  \A r \in Rows : rows'[r] = rows[r] \/ (rows[r] \in {"idle", "active"} /\ rows'[r] = "purged")
<1>1. CASE Purge
  <2> DEFINE left == Present \cap collected
             next == request.cursor + 1
             tried == {r \in left : Rank(r, left) = 0 /\ CanPurge(r)}
             later == {r \in left : Rank(r, left) = next}
             gone == IF tried # {} THEN tried ELSE {r \in later : CanPurge(r)}
  <2>1. rows' = [r \in Rows |-> IF r \in gone THEN "purged" ELSE rows[r]]
    BY <1>1 DEF Purge
  <2>2. \A r \in gone : rows[r] \in {"idle", "active"}
    BY DEF Present
  <2> HIDE DEF gone
  <2> QED
    BY <2>1, <2>2
<1>2. CASE Drain \/ Collect \/ Clean(w) \/ Verify
  BY <1>2 DEF Drain, Collect, Clean, Verify
<1> QED
  BY <1>1, <1>2 DEF Advance

(* The journal is added to, and emptied only by the step that completes.     *)
LEMMA AdvancedJournal ==
  ASSUME IInv, NEW w \in Workers, Advance(w), request'.state # "completed"
  PROVE  /\ collected \subseteq collected'
         /\ \A i \in Items : items[i] \in {"done", "retained"} => items'[i] = items[i]
<1>1. request \in Requests /\ request.stage \in 1..5
  BY AdvancedRequest DEF IInv, TypeOK
<1>2. CASE Drain \/ Purge \/ Clean(w)
  BY <1>2 DEF Drain, Purge, Clean, journal
<1>3. CASE Collect
  <2>1. \E found : items' = [i \in Items |-> IF i \in found /\ items[i] = "none" THEN "pending" ELSE items[i]]
    BY <1>3 DEF Collect
  <2>2. collected \subseteq collected'
    BY <1>3 DEF Collect
  <2> QED
    BY <2>1, <2>2
<1>4. CASE Verify
  <2>1. request.stage = 5
    BY <1>1, <1>4, StageNames DEF Verify
  <2>2. Passed.state = "completed"
    BY <1>1, <2>1, PassedStage
  <2>3. UNCHANGED journal
    BY <1>4, <2>2 DEF Verify
  <2> QED
    BY <2>3 DEF journal
<1> QED
  BY <1>2, <1>3, <1>4 DEF Advance

(* An erasure goes onward in every step, those of late workers, crashes and  *)
(* retries included: nothing done has to be done, or could be undone, again. *)
THEOREM ErasureOnward == Spec => [][Onward]_vars
<1>1. ASSUME IInv, Next
      PROVE  Onward
  <2>1. ASSUME NEW w \in Workers, Advance(w)
        PROVE  Onward
    <3>1. request'.stage >= request.stage
      BY <1>1, <2>1, AdvancedRequest DEF IInv
    <3>2. fenced' = fenced
      BY <2>1 DEF Advance
    <3>3. \A r \in Rows : rows'[r] = rows[r] \/ (rows[r] \in {"idle", "active"} /\ rows'[r] = "purged")
      BY <1>1, <2>1, AdvancedRows
    <3>4. request'.state # "completed" =>
            /\ collected \subseteq collected'
            /\ \A i \in Items : items[i] \in {"done", "retained"} => items'[i] = items[i]
      BY <1>1, <2>1, AdvancedJournal
    <3> QED
      BY <3>1, <3>2, <3>3, <3>4 DEF Onward
  <2>2. CASE \A w \in Workers : ~Advance(w)
    <3>1. request'.stage >= request.stage
      <4>1. request'.stage = request.stage /\ request.stage \in 1..6
        BY <1>1, <2>2, OtherSteps DEF IInv, TypeOK, Requests
      <4> QED
        BY <4>1
    <3>2. rows \in [Rows -> RowStates] /\ items \in [Items -> {"none", "pending", "done", "retained"}]
      BY <1>1 DEF IInv, TypeOK
    <3>3. CASE Live
      <4>1. UNCHANGED <<fenced, journal>>
        BY <3>3 DEF Live
      <4>2. \/ rows' = rows
            \/ \E r \in Rows, state \in {"idle", "active"} :
                 /\ rows' = [rows EXCEPT ![r] = state]
                 /\ rows[r] # "purged" /\ (rows[r] = "absent" => request.state = "none")
        BY <3>3 DEF Live, Insert, Activate, Settle, Index, Take, Write, Receive, Produce, Share,
                    Occupy, Fenceless
      <4>3. \A r \in Rows : /\ rows[r] = "purged" => rows'[r] = "purged"
                            /\ request.state # "none" /\ rows[r] = "absent" => rows'[r] = "absent"
        BY <3>2, <4>2
      <4> QED
        BY <3>1, <4>1, <4>3 DEF Onward, journal
    <3>4. CASE Accept \/ Retry \/ Expire \/ Due \/ Overdue
      <4>1. UNCHANGED <<rows, fenced, journal>>
        BY <3>4 DEF Accept, Retry, Expire, Due, Overdue, world
      <4> QED
        BY <3>1, <4>1 DEF Onward, journal
    <3>5. ASSUME NEW w \in Workers, Tick(w) \/ Busy(w) \/ EffectFails(w) \/ Crash(w)
          PROVE  Onward
      <4>1. /\ rows' = rows /\ collected' = collected /\ fenced \subseteq fenced'
            /\ \/ items' = items
               \/ \E i \in Items : \E result : items[i] = "pending" /\ items' = [items EXCEPT ![i] = result]
        <5>1. CASE Claim(w) \/ Lost(w) \/ CloseResults(w) \/ Choose(w) \/ CheckLease(w) \/ Crash(w) \/ Busy(w)
          BY <5>1 DEF Claim, Lost, CloseResults, Choose, CheckLease, Crash, Busy, world, journal
        <5>2. CASE Effect(w) \/ EffectFails(w)
          BY <5>2 DEF Effect, EffectFails, journal
        <5>3. CASE Ack(w)
          <6>1. PICK i : i = workers[w].item
            OBVIOUS
          <6>2. i \in Items
            BY <1>1, <5>3, <6>1 DEF IInv, TickPart, GoodTick, Ack
          <6> QED
            BY <5>3, <6>1, <6>2 DEF Ack, world
        <5>4. CASE Unlink(w)
          <6>1. PICK i : i = workers[w].item
            OBVIOUS
          <6>2. i \in Items /\ i.kind = "file"
            BY <1>1, <5>4, <6>1 DEF IInv, TickPart, GoodTick, Unlink
          <6>3. i = FileItem(i.of)
            BY <6>2, ItemKinds DEF Graph
          <6> QED
            BY <5>4, <6>1, <6>2, <6>3 DEF Unlink
        <5> QED
          BY <2>2, <3>5, <5>1, <5>2, <5>3, <5>4 DEF Tick
      <4> QED
        BY <3>1, <3>2, <4>1 DEF Onward
    <3> QED
      BY <1>1, <3>3, <3>4, <3>5 DEF Next
  <2> QED
    BY <2>1, <2>2
<1>2. UNCHANGED vars => [Onward]_vars
  OBVIOUS
<1> QED
  BY <1>1, Invariance, PTL DEF Spec

(* A completed request has no holder, so that no lease of it can run out.    *)
HolderPart == request.state = "completed" => request.holder = None

LEMMA CompletedSteps ==
  ASSUME IInv, IInv', HolderPart, Next, request.state = "completed"
  PROVE  UNCHANGED <<request, journal, copies>>
<1>1. request.stage = 6 /\ request.holder = None /\ \A w \in Workers : ~HasLease(w)
  BY NamesAssumption DEF IInv, RequestPart, HolderPart, HasLease
<1>2. \A w \in Workers : ~Advance(w)
  BY <1>1 DEF Advance
<1>3. copies = {}
  BY <1>1 DEF IInv, EndPart
<1>4. copies' = {}
  <2>1. request'.stage = request.stage
    BY <1>2, OtherSteps
  <2> QED
    BY <1>1, <2>1 DEF IInv, EndPart
<1>5. CASE Live
  BY <1>3, <1>4, <1>5 DEF Live, journal
<1>6. CASE Accept \/ Retry \/ Due \/ Overdue \/ Expire
  BY <1>1, <1>6 DEF Accept, Retry, Due, Overdue, Expire
<1>7. ASSUME NEW w \in Workers, Tick(w) \/ Busy(w) \/ EffectFails(w) \/ Crash(w)
      PROVE  UNCHANGED <<request, journal>>
  BY <1>1, <1>2, <1>7 DEF Tick, Claim, Claimable, Lost, CloseResults, Choose, Unlink, CheckLease,
     Effect, Ack, Busy, EffectFails, Crash, journal
<1> QED
  BY <1>3, <1>4, <1>5, <1>6, <1>7 DEF Next

LEMMA HolderKept ==
  ASSUME IInv, IInv', HolderPart, [Next]_vars
  PROVE  HolderPart'
<1>1. CASE request.state = "completed"
  <2>1. request' = request
    BY <1>1, CompletedSteps DEF vars
  <2> QED
    BY <2>1 DEF HolderPart
<1>2. ASSUME NEW w \in Workers, Advance(w), request'.state = "completed"
      PROVE  request'.holder = None
  <2>1. request \in Requests /\ request.stage \in 1..5 /\ request'.stage = 6
    BY <1>2, AdvancedRequest DEF IInv, TypeOK
  <2>2. \/ request' = Passed \/ request' = Released
        \/ request' = [Released EXCEPT !.due = FALSE]
        \/ \E cursor : request' = [Released EXCEPT !.cursor = cursor]
        \/ \E code : request' = Charged(code)
    BY <1>2 DEF Advance, Drain, Collect, Purge, Clean, Verify
  <2> QED
    BY <2>1, <2>2 DEF Passed, Released, Charged, Requests
<1>3. CASE request.state # "completed" /\ \A w \in Workers : ~Advance(w)
  <2>1. request'.stage = request.stage
    BY <1>3, OtherSteps
  <2>2. request'.state # "completed"
    BY <1>3, <2>1 DEF IInv, RequestPart
  <2> QED
    BY <2>2 DEF HolderPart
<1> QED
  BY <1>1, <1>2, <1>3 DEF HolderPart

(* What a completed receipt says is never taken back: no late writer, no     *)
(* worker that lost its claim and no retry changes it or what it stands for. *)
THEOREM ReceiptFinal == Spec => [][ReceiptKept]_vars
<1>1. Init => HolderPart
  BY DEF Init, HolderPart, NoRequest
<1>2. IInv /\ IInv' /\ HolderPart /\ Next => ReceiptKept
  BY CompletedSteps DEF ReceiptKept
<1>3. IInv /\ IInv' /\ HolderPart /\ [Next]_vars => HolderPart'
  BY HolderKept
<1> QED
  BY <1>1, <1>2, <1>3, Invariance, PTL DEF Spec
=============================================================================
