---------------------------- MODULE WorldErasure ----------------------------
(***************************************************************************)
(* Deleting a world for good.  Accepting the request fences the canonical  *)
(* rows of the world; a durable worker then drains the work in progress,   *)
(* journals every row, file and external copy of the world, purges the     *)
(* rows child before parent, cleans the files and the copies one item at   *)
(* a time and verifies that nothing is left.  Each tick claims the         *)
(* request under a new epoch and a lease, and checks both again in every   *)
(* transaction; the slow effects (graph, vector index, checkpoints) run    *)
(* between transactions and are acknowledged afterwards.                   *)
(*                                                                         *)
(* One world is modelled, and of the others what this one meets: a row of  *)
(* theirs that shows its file, a file of theirs on a path of its journal.  *)
(* An epoch is written as the worker that claimed it: a worker runs one    *)
(* tick at a time, so its older epochs are spent when it claims again.     *)
(* Pages (of 100 in the code) hold one row.                                *)
(***************************************************************************)
EXTENDS Integers, FiniteSets

CONSTANTS
  Rows,         \* identities of the world's rows: positive numbers, in page order
  Links,        \* <<child, parent>>: a foreign key of a row on another
  Nullable,     \* the links that may be set to null
  Jobs,         \* rows of work with a lease: they may be in progress
  FileRows,     \* rows that name a managed file
  Store,        \* where the row has a copy: "graph", "index", "checkpoint", "none"
  Workers,      \* lives of the deletion worker
  MaxFailures,  \* recorded failures of a request before it waits for its owner: 3
  MaxEvents,    \* bound on retries, failures, slow effects and crashes, together
  None          \* no worker, no item

ASSUME RowsAssumption ==
  /\ Rows \subseteq Nat \ {0} /\ IsFiniteSet(Rows)
  /\ Jobs \subseteq Rows /\ FileRows \subseteq Rows
  /\ Nullable \subseteq Links /\ Links \subseteq Rows \X Rows
  /\ Store \in [Rows -> {"graph", "index", "checkpoint", "none"}]
ASSUME NamesAssumption == None \notin Workers
ASSUME BoundsAssumption == MaxFailures \in Nat \ {0} /\ MaxEvents \in Nat

VARIABLES
  rows,        \* the canonical rows of the world
  copies,      \* rows whose external copy exists
  late,        \* writes of copies that are on their way
  fenced,      \* items whose store refuses the world's late writes
  results,     \* received provider results: whether they are admitted and held
  files,       \* what lies on the path of a row's file
  shared,      \* files a row of another world shows
  request,     \* the deletion request
  collected,   \* rows in the journal
  items,       \* the other items of the journal
  identity,    \* the file each file item stands for
  workers,     \* the workers and where their tick stands
  events

world == <<rows, copies, late, results, files, shared>>
journal == <<collected, items, identity>>
vars == <<world, fenced, request, journal, workers, events>>

Graph == [kind |-> "graph", of |-> 0]
CopyItem(r) == [kind |-> Store[r], of |-> r]
FileItem(r) == [kind |-> "file", of |-> r]
CopyItems(r) == IF Store[r] \in {"index", "checkpoint"} THEN {CopyItem(r)} ELSE {}
FileItems(r) == IF r \in FileRows THEN {FileItem(r)} ELSE {}
Items == {Graph} \cup UNION {CopyItems(r) \cup FileItems(r) : r \in Rows}

Stages == <<"draining", "collecting", "purging", "cleaning", "verifying", "completed">>
RowStates == {"absent", "idle", "active", "purged"}
Occupants == {"nothing", "own", "other"}

Codes == {"none", "busy", "effect", "material", "links", "scope"}

Requests ==
  [state : {"none", "at_work", "failed", "completed"}, stage : 1..6, cursor : Nat,
   holder : Workers \cup {None}, due : BOOLEAN, late : BOOLEAN, failures : 0..MaxFailures, code : Codes]
Ticks ==
  [pc : {"idle", "claimed", "unlink", "check", "effect", "ack", "advance"},
   item : Items \cup {None}, closed : BOOLEAN, cleaned : BOOLEAN]

NoRequest == [state |-> "none", stage |-> 1, cursor |-> 0, holder |-> None, due |-> TRUE,
              late |-> FALSE, failures |-> 0, code |-> "none"]
Idle == [pc |-> "idle", item |-> None, closed |-> FALSE, cleaned |-> FALSE]

Init ==
  /\ rows = [r \in Rows |-> "absent"]
  /\ copies = {} /\ late = {} /\ fenced = {} /\ shared = {}
  /\ results = [open |-> TRUE, held |-> FALSE]
  /\ files = [f \in FileRows |-> "nothing"]
  /\ request = NoRequest
  /\ collected = {}
  /\ items = [i \in Items |-> "none"]
  /\ identity = [f \in FileRows |-> "nothing"]
  /\ workers = [w \in Workers |-> Idle]
  /\ events = 0

Happens == events < MaxEvents /\ events' = events + 1

Present == {r \in Rows : rows[r] \in {"idle", "active"}}
StageName == Stages[request.stage]

-----------------------------------------------------------------------------
(* The world at work.  The triggers refuse new rows and new work once the  *)
(* request is there; work that was admitted may settle.                    *)

Fenceless == request.state = "none"

Insert(r) ==
  /\ rows[r] = "absent" /\ Fenceless
  /\ \E state \in {"idle"} \cup (IF r \in Jobs THEN {"active"} ELSE {}) :
       rows' = [rows EXCEPT ![r] = state]
  /\ UNCHANGED <<copies, late, results, files, shared>>

Activate(r) ==
  /\ r \in Jobs /\ rows[r] = "idle" /\ Fenceless
  /\ rows' = [rows EXCEPT ![r] = "active"]
  /\ UNCHANGED <<copies, late, results, files, shared>>

Settle(r) ==
  /\ rows[r] = "active"
  /\ rows' = [rows EXCEPT ![r] = "idle"]
  /\ UNCHANGED <<copies, late, results, files, shared>>

(* Work in progress leaves its file. *)
Produce(f) ==
  /\ rows[f] = "active" /\ files[f] = "nothing"
  /\ files' = [files EXCEPT ![f] = "own"]
  /\ UNCHANGED <<rows, copies, late, results, shared>>

(* A vector is written in the transaction that finds its row valid. *)
Index(r) ==
  /\ Store[r] = "index" /\ r \in Present
  /\ copies' = copies \cup {r}
  /\ UNCHANGED <<rows, late, results, files, shared>>

(* A graph command is loaded, a checkpoint is taken, and written later. *)
Take(r) ==
  /\ \/ Store[r] = "graph" /\ r \in Present
     \/ Store[r] = "checkpoint" /\ rows[r] = "active"
  /\ late' = late \cup {r}
  /\ UNCHANGED <<rows, copies, results, files, shared>>

Refused(r) == (IF Store[r] = "graph" THEN Graph ELSE CopyItem(r)) \in fenced

Write(r) ==
  /\ r \in late
  /\ late' = late \ {r}
  /\ copies' = IF Refused(r) THEN copies ELSE copies \cup {r}
  /\ UNCHANGED <<rows, results, files, shared>>

Receive ==
  /\ results.open
  /\ results' = [results EXCEPT !.held = TRUE]
  /\ UNCHANGED <<rows, copies, late, files, shared>>

(* Another world shows the file; a later job, its number used again after  *)
(* the purge, writes its own file to the same path.                        *)
Share(f) ==
  /\ f \in Present /\ files[f] = "own"
  /\ shared' = shared \cup {f}
  /\ UNCHANGED <<rows, copies, late, results, files>>

Occupy(f) ==
  /\ rows[f] = "purged" /\ f \notin shared
  /\ files' = [files EXCEPT ![f] = "other"]
  /\ UNCHANGED <<rows, copies, late, results, shared>>

Live ==
  /\ \/ \E r \in Rows : Insert(r) \/ Activate(r) \/ Settle(r) \/ Index(r) \/ Take(r) \/ Write(r)
     \/ \E f \in FileRows : Produce(f) \/ Share(f) \/ Occupy(f)
     \/ Receive
  /\ UNCHANGED <<fenced, request, journal, workers, events>>

-----------------------------------------------------------------------------
(* The request and its lease. *)

Accept ==
  /\ request.state = "none"
  /\ request' = [NoRequest EXCEPT !.state = "at_work"]
  /\ UNCHANGED <<world, fenced, journal, workers, events>>

Retry ==
  /\ request.state = "failed" /\ Happens
  /\ request' = [request EXCEPT !.state = "at_work", !.failures = 0, !.code = "none",
                                !.due = TRUE, !.holder = None]
  /\ UNCHANGED <<world, fenced, journal, workers>>

(* The holder of the lease, None once it is given up or has run out. *)
Claimable == request.state = "at_work" /\ request.holder = None /\ request.due
HasLease(w) == request.state = "at_work" /\ request.holder = w

Step(w, next) == workers' = [workers EXCEPT ![w] = next]
At(w, pc) == [workers[w] EXCEPT !.pc = pc]
Rest(w) == [Idle EXCEPT !.closed = workers[w].closed]
Handled(w) == [Rest(w) EXCEPT !.pc = "advance"]

Claim(w) ==
  /\ workers[w].pc = "idle" /\ Claimable
  /\ request' = [request EXCEPT !.holder = w]
  /\ Step(w, At(w, "claimed"))
  /\ UNCHANGED <<world, fenced, journal, events>>

(* Every transaction of a tick starts with require_lease. *)
Lost(w) ==
  /\ workers[w].pc \notin {"idle", "effect"} /\ ~HasLease(w)
  /\ Step(w, Rest(w))
  /\ UNCHANGED <<world, fenced, request, journal, events>>

(* Once in the life of a worker, before anything else: received results of *)
(* the world are removed and never admitted again.                         *)
CloseResults(w) ==
  /\ workers[w].pc = "claimed" /\ ~workers[w].closed /\ HasLease(w)
  /\ results' = [open |-> FALSE, held |-> FALSE]
  /\ Step(w, [workers[w] EXCEPT !.closed = TRUE])
  /\ UNCHANGED <<rows, copies, late, files, shared, fenced, request, journal, events>>

-----------------------------------------------------------------------------
(* Cleaning: one journal item a tick. *)

PendingItems == {i \in Items : items[i] = "pending"}

(* In the order they were journalled. *)
Key(i) == 2 * i.of + (IF i.kind = "file" THEN 1 ELSE 0)
NextItem == CHOOSE i \in PendingItems : \A j \in PendingItems : Key(i) <= Key(j)

Choose(w) ==
  /\ workers[w].pc = "claimed" /\ workers[w].closed /\ HasLease(w) /\ StageName = "cleaning"
  /\ IF PendingItems = {}
     THEN Step(w, [Handled(w) EXCEPT !.cleaned = TRUE])
     ELSE Step(w, [At(w, IF NextItem.kind = "file" THEN "unlink" ELSE "check")
                     EXCEPT !.item = NextItem])
  /\ UNCHANGED <<world, fenced, request, journal, events>>

(* Variant: whatever lies on the path is taken. *)
MayUnlinkPath(f) == f \notin shared

(* Only the very file that was journalled, and only if nobody shows it. *)
MayUnlink(f) == f \notin shared /\ files[f] \in {"nothing", identity[f]}

Unlink(w) ==
  /\ workers[w].pc = "unlink" /\ HasLease(w)
  /\ LET f == workers[w].item.of IN
       IF items[FileItem(f)] # "pending" THEN UNCHANGED <<items, files>>
       ELSE IF MayUnlink(f)
       THEN /\ items' = [items EXCEPT ![FileItem(f)] = "done"]
            /\ files' = [files EXCEPT ![f] = "nothing"]
       ELSE items' = [items EXCEPT ![FileItem(f)] = "retained"] /\ UNCHANGED files
  /\ Step(w, Handled(w))
  /\ UNCHANGED <<rows, copies, late, results, shared, fenced, request, collected, identity, events>>

CheckLease(w) ==
  /\ workers[w].pc = "check" /\ HasLease(w)
  /\ Step(w, At(w, "effect"))
  /\ UNCHANGED <<world, fenced, request, journal, events>>

(* The store fences the world, then removes a page of its copies.  A full  *)
(* page of the graph leaves the item to the next tick.                     *)
Fencing(i) == IF i.kind = "index" THEN {} ELSE {i}
Page(i) ==
  IF i # Graph THEN {copies \cap {i.of}}
  ELSE LET nodes == {r \in copies : Store[r] = "graph"}
       IN  IF nodes = {} THEN {{}} ELSE {{r} : r \in nodes}

Effect(w) ==
  /\ workers[w].pc = "effect"
  /\ LET i == workers[w].item IN
       /\ fenced' = fenced \cup Fencing(i)
       /\ \E page \in Page(i) :
            /\ copies' = copies \ page
            /\ Step(w, IF i = Graph /\ page # {} THEN Handled(w) ELSE At(w, "ack"))
  /\ UNCHANGED <<rows, late, results, files, shared, request, journal, events>>

Ack(w) ==
  /\ workers[w].pc = "ack" /\ HasLease(w)
  /\ LET i == workers[w].item IN
       items' = IF items[i] = "pending" THEN [items EXCEPT ![i] = "done"] ELSE items
  /\ Step(w, Handled(w))
  /\ UNCHANGED <<world, fenced, request, collected, identity, events>>

-----------------------------------------------------------------------------
(* The transaction that ends a tick, by stage. *)

Released == [request EXCEPT !.holder = None, !.code = "none", !.due = TRUE]
(* Variant: the stores are cleaned before the rows are purged. *)
NextStageCleanFirst(stage) == CASE stage = 2 -> 4 [] stage = 4 -> 3 [] stage = 3 -> 5 [] OTHER -> stage + 1
NextStage(stage) == stage + 1
Passed == [Released EXCEPT
  !.stage = NextStage(request.stage), !.cursor = 0,
  !.state = IF Stages[NextStage(request.stage)] = "completed" THEN "completed" ELSE "at_work"]

(* Variant: failures are not counted. *)
FinalMaterial(code, failures) == code \in {"material", "links", "scope"}

(* A failure is counted; an error in the material itself, and the third    *)
(* failure, wait for the owner.                                            *)
Final(code, failures) == code \in {"material", "links", "scope"} \/ failures >= MaxFailures
Charged(code) == [request EXCEPT
  !.holder = None, !.code = code, !.due = FALSE, !.failures = request.failures + 1,
  !.state = IF Final(code, request.failures + 1) THEN "failed" ELSE "at_work"]

(* Variant: work in progress is waited for no longer than five minutes. *)
DrainedByTimeout == request.late \/ \A r \in Rows : rows[r] # "active"
Drained == \A r \in Rows : rows[r] # "active"

Drain ==
  /\ StageName = "draining"
  /\ request' = IF Drained THEN Passed
                ELSE IF request.late THEN Charged("effect")
                ELSE [Released EXCEPT !.due = FALSE]
  /\ UNCHANGED <<rows, journal>>

FirstOf(S) == CHOOSE r \in S : \A q \in S : r <= q
Rank(r, S) == Cardinality({q \in S : q < r})

(* Rows the journal does not know yet, one with all that hangs on it. *)
Collect ==
  /\ StageName = "collecting"
  /\ LET left == Present \ collected
         page == IF left = {} THEN {} ELSE {FirstOf(left)}
         found == {Graph} \cup UNION {CopyItems(r) \cup FileItems(r) : r \in page}
     IN  /\ collected' = collected \cup page
         /\ items' = [i \in Items |-> IF i \in found /\ items[i] = "none"
                                      THEN "pending" ELSE items[i]]
         /\ identity' = [f \in FileRows |-> IF f \in page THEN files[f] ELSE identity[f]]
         /\ request' = IF left = {} THEN Passed ELSE Released
  /\ UNCHANGED rows

(* A row goes when no row points to it, or when none does after its own    *)
(* nullable links were cut; a failed attempt is rolled back with its cuts. *)
Obstructed(r, links) == \E c \in Present \ {r} : <<c, r>> \in links
OwnLinks(r) == {l \in Nullable : l[1] = r}
CanPurge(r) == ~Obstructed(r, Links) \/ ~Obstructed(r, Links \ OwnLinks(r))

(* Variant: the cursor does not go back when a row is gone. *)
CursorKept(gone, next) == next

(* The first page is tried, then the one at the cursor; when the cursor    *)
(* runs past the last page without a row gone, the request fails.          *)
CursorAfter(gone, next) == IF gone # {} THEN 0 ELSE next

Purge ==
  /\ StageName = "purging"
  /\ LET left == Present \cap collected
         next == request.cursor + 1
         tried == {r \in left : Rank(r, left) = 0 /\ CanPurge(r)}
         later == {r \in left : Rank(r, left) = next}
         gone == IF tried # {} THEN tried ELSE {r \in later : CanPurge(r)}
     IN  /\ rows' = [r \in Rows |-> IF r \in gone THEN "purged" ELSE rows[r]]
         /\ request' = IF left = {} THEN Passed
                       ELSE IF tried = {} /\ later = {} THEN Charged("links")
                       ELSE [Released EXCEPT !.cursor = CursorAfter(gone, next)]
  /\ UNCHANGED journal

Clean(w) ==
  /\ StageName = "cleaning"
  /\ request' = IF workers[w].cleaned THEN Passed ELSE Released
  /\ UNCHANGED <<rows, journal>>

(* The journal goes with the last step of the request. *)
Verify ==
  /\ StageName = "verifying"
  /\ IF PendingItems # {} THEN request' = Released /\ UNCHANGED journal
     ELSE IF Present # {} THEN request' = Charged("scope") /\ UNCHANGED journal
     ELSE /\ request' = Passed
          /\ collected' = {}
          /\ items' = [i \in Items |-> "none"]
          /\ identity' = [f \in FileRows |-> "nothing"]
  /\ UNCHANGED rows

Advance(w) ==
  /\ HasLease(w)
  /\ \/ workers[w].pc = "advance"
     \/ workers[w].pc = "claimed" /\ workers[w].closed /\ StageName # "cleaning"
  /\ Drain \/ Collect \/ Purge \/ Clean(w) \/ Verify
  /\ Step(w, Rest(w))
  /\ UNCHANGED <<copies, late, results, files, shared, fenced, events>>

-----------------------------------------------------------------------------
(* What goes wrong. *)

(* A transaction runs out of contention retries: no failure is counted,    *)
(* and when even that cannot be recorded the lease has to run out.         *)
Busy(w) ==
  /\ workers[w].pc \notin {"idle", "effect"} /\ HasLease(w) /\ Happens
  /\ \/ request' = [request EXCEPT !.holder = None, !.code = "busy", !.due = FALSE]
     \/ UNCHANGED request
  /\ Step(w, Rest(w))
  /\ UNCHANGED <<world, fenced, journal>>

(* The journal of results, a file or a store fails, a store perhaps after  *)
(* it fenced the world or removed copies; the failure is recorded if the   *)
(* lease still holds.                                                      *)
EffectFails(w) ==
  /\ \/ workers[w].pc \in {"unlink", "effect"}
     \/ workers[w].pc = "claimed" /\ ~workers[w].closed
  /\ Happens
  /\ LET i == workers[w].item IN
       \/ UNCHANGED <<fenced, copies>>
       \/ /\ workers[w].pc = "effect"
          /\ fenced' = fenced \cup Fencing(i)
          /\ \E page \in Page(i) \cup {{}} : copies' = copies \ page
  /\ request' \in IF HasLease(w) THEN {Charged("effect"), Charged("material")} ELSE {request}
  /\ Step(w, Rest(w))
  /\ UNCHANGED <<rows, late, results, files, shared, journal>>

Crash(w) ==
  /\ workers[w] # Idle /\ Happens
  /\ Step(w, Idle)
  /\ UNCHANGED <<world, fenced, request, journal>>

(* The lease runs out: of a worker that is gone, or of a slow one. *)
Abandoned == request.holder # None /\ workers[request.holder].pc = "idle"

Expire ==
  /\ request.holder # None
  /\ IF Abandoned THEN UNCHANGED events ELSE Happens
  /\ request' = [request EXCEPT !.holder = None]
  /\ UNCHANGED <<world, fenced, journal, workers>>

(* The time of the next attempt; five minutes since the request, which     *)
(* only a drain asks for.                                                  *)
Due ==
  /\ request.state = "at_work" /\ ~request.due
  /\ request' = [request EXCEPT !.due = TRUE]
  /\ UNCHANGED <<world, fenced, journal, workers, events>>

Overdue ==
  /\ request.state = "at_work" /\ StageName = "draining" /\ ~request.late
  /\ request' = [request EXCEPT !.late = TRUE]
  /\ UNCHANGED <<world, fenced, journal, workers, events>>

-----------------------------------------------------------------------------
Tick(w) ==
  \/ Claim(w) \/ Lost(w) \/ CloseResults(w) \/ Choose(w) \/ Unlink(w)
  \/ CheckLease(w) \/ Effect(w) \/ Ack(w) \/ Advance(w)

Next ==
  \/ Live \/ Accept \/ Retry
  \/ \E w \in Workers : Tick(w) \/ Busy(w) \/ EffectFails(w) \/ Crash(w)
  \/ Expire \/ Due \/ Overdue

Spec == Init /\ [][Next]_vars

(* Ticks follow one another while a worker runs; time passes.  Nothing is  *)
(* asked of the work in progress, nor of the owner.                        *)
FairSpec ==
  /\ Spec
  /\ \A w \in Workers : WF_vars(Tick(w))
  /\ WF_vars(Abandoned /\ Expire) /\ WF_vars(Due) /\ WF_vars(Overdue)

-----------------------------------------------------------------------------
TypeOK ==
  /\ rows \in [Rows -> RowStates]
  /\ copies \subseteq Rows /\ late \subseteq Rows /\ fenced \subseteq Items
  /\ results \in [open : BOOLEAN, held : BOOLEAN]
  /\ files \in [FileRows -> Occupants] /\ shared \subseteq FileRows
  /\ request \in Requests
  /\ collected \subseteq Rows
  /\ items \in [Items -> {"none", "pending", "done", "retained"}]
  /\ identity \in [FileRows -> Occupants]
  /\ workers \in [Workers -> Ticks]
  /\ events \in 0..MaxEvents

(* A receipt that says completed tells the truth, then and ever after: no  *)
(* row of the world, no copy of one in the graph, the index or the         *)
(* checkpoints, no received result and no file is left, but for files      *)
(* another world shows.  Late graph commands and checkpoint writers, jobs  *)
(* that settle while the world closes and workers that lost their claim    *)
(* would each leave something behind.                                      *)
CompletedMeansErased ==
  request.state = "completed" =>
    /\ Present = {} /\ copies = {} /\ results = [open |-> FALSE, held |-> FALSE]
    /\ \A f \in FileRows : files[f] = "own" => f \in shared

Erased(i) ==
  IF i.kind = "file" THEN files[i.of] # "own"
  ELSE IF i.kind = "graph" THEN \A r \in copies : Store[r] # "graph"
  ELSE i.of \notin copies

(* An item acknowledged in the journal is gone and stays gone: nobody goes *)
(* back to it, so a copy written again after its cleaning is never found.  *)
AckedStaysErased == \A i \in Items : items[i] = "done" => Erased(i)

(* Cleaning takes no file another world shows and no file that came to lie *)
(* on a journalled path later, whichever worker unlinks it and when.       *)
OthersFilesKept ==
  [][\A f \in FileRows :
       (f \in shared \/ files[f] = "other") => files'[f] # "nothing"]_vars

(* An erasure at work completes, or waits for the owner after failures of  *)
(* its stores or of work that does not settle.  Rows that point to one     *)
(* another (without a circle) never stop it, nor does a crash or a lease   *)
(* that runs out.                                                          *)
ErasureEnds ==
  request.state = "at_work" ~>
    (request.state = "completed" \/
       (request.state = "failed" /\ request.code \in {"effect", "material"}))

(* "Break nullable target-owned FK cycles without disabling FK checks": an *)
(* erasure whose rows point to one another by nullable links is not given  *)
(* up for the links (_unlink_owned_references).                            *)
CyclesBroken == request.code # "links"
=============================================================================
