-------------------------- MODULE MemoryRunsProofs --------------------------
(* Proofs about MemoryRuns for any processes, receipts, runs and bounds.    *)
(* No invariant of the runs is inductive as it stands: that a turn has one  *)
(* process rests on the slot naming it, that a receipt gets one memory on   *)
(* what a page may decide, and both on rows that agree with their state.    *)
(* Each part of the inductive invariant has a lemma of its own, which looks *)
(* at the actions that change its variables.                                *)
EXTENDS MemoryRuns, WellFoundedInduction, TLAPS

ScopePart ==
  /\ scope \in [on : BOOLEAN, version : Nat \ {0}]
  /\ events \in 0..MaxEvents
  /\ scope.version <= events + 1

ReceiptPart ==
  /\ receipts \in [Receipts -> ReceiptRows]
  /\ memories \in [Receipts -> Nat]
  /\ OneMemoryEach

(* A run that was never asked for has no range, only a recheck has one      *)
(* target, a claim is a running run, and only a run that is over has used   *)
(* up its rounds.                                                           *)
GoodRun(row) ==
  /\ row \in RunRows
  /\ row.state = "none" => row.cursor = 0 /\ row.cutoff = 0
  /\ row.kind = "pending_apply" => row.target = 0
  /\ row.token # None <=> row.state = "running"
  /\ row.state \in {"pending", "running", "deferred"} => row.rounds < MaxRounds

RunPart == runs \in [RunIds -> RunRows] /\ \A r \in RunIds : GoodRun(runs[r])

(* A loop that left the idle phase has chosen its run, and only a running   *)
(* process has such a loop.                                                 *)
GoodProc(row) ==
  /\ row \in ProcRows
  /\ row.phase # "idle" => row.run \in RunIds /\ row.life \in {"up", "closing", "fenced"}

ProcPart == procs \in [Processes -> ProcRows] /\ \A p \in Processes : GoodProc(procs[p])

(* A process in its turn is the one the slot names. *)
SlotPart ==
  /\ slot \in Processes \cup {None}
  /\ \A p \in Processes : InTurn(p) => slot = p

IInv == ScopePart /\ ReceiptPart /\ RunPart /\ ProcPart /\ SlotPart

-----------------------------------------------------------------------------
(* The library's order on the natural numbers, as a set of pairs. *)
Before == {ss \in Nat \X Nat : ss[1] < ss[2]}

LEMMA BeforeWellFounded == IsWellFoundedOn(Before, Nat)
  BY NatLessThanWellFounded, SMT DEF OpToRel, Before

(* The first receipt of a set is in it and no other comes before it. *)
LEMMA FirstReceipt ==
  ASSUME NEW S \in SUBSET Receipts, S # {}
  PROVE  NextOf(S) \in S /\ \A s \in S : NextOf(S) <= s
<1>1. S \subseteq Nat
  BY BoundsAssumption DEF Receipts
<1>2. PICK x \in S : \A y \in S : <<y, x>> \notin Before
  BY <1>1, BeforeWellFounded, WFMin
<1>3. \A y \in S : x <= y
  <2> SUFFICES ASSUME NEW y \in S, ~(x <= y) PROVE FALSE
    OBVIOUS
  <2>1. x \in Nat /\ y \in Nat /\ y < x
    BY <1>1
  <2>2. <<y, x>> \in Before
    BY <2>1 DEF Before
  <2> QED
    BY <1>2, <2>2
<1> QED
  BY <1>3 DEF NextOf, Min

LEMMA FirstOfRun ==
  ASSUME NEW r \in RunIds
  PROVE  \/ Pending(r) = {} /\ NextOf(Pending(r)) = 0
         \/ /\ NextOf(Pending(r)) \in Pending(r) /\ NextOf(Pending(r)) \in Receipts \ {0}
            /\ \A s \in Pending(r) : NextOf(Pending(r)) <= s
<1>1. Pending(r) \in SUBSET Receipts /\ 0 \notin Receipts
  BY BoundsAssumption DEF Pending, Ahead, Receipts
<1> QED
  BY <1>1, FirstReceipt DEF NextOf

-----------------------------------------------------------------------------
LEMMA InitInv == Init => IInv
<1> SUFFICES ASSUME Init PROVE IInv
  OBVIOUS
<1> USE BoundsAssumption DEF Init, Receipts, RunIds
<1>1. ScopePart
  BY DEF ScopePart
<1>2. ReceiptPart
  BY DEF ReceiptPart, OneMemoryEach, NoReceipt, ReceiptRows, ReceiptStates
<1>3. RunPart
  BY DEF RunPart, GoodRun, NoRun, RunRows, RunStates, Kinds, Errors
<1>4. ProcPart
  BY DEF ProcPart, GoodProc, Asleep, NoReceipt, ReceiptRows, ReceiptStates, ProcRows, Lives, Phases
<1>5. SlotPart
  BY DEF SlotPart, InTurn, Asleep
<1> QED
  BY <1>1, <1>2, <1>3, <1>4, <1>5 DEF IInv

(* A request writes a run and nothing else. *)
LEMMA RequestsQueue ==
  ASSUME Request
  PROVE  UNCHANGED <<scope, receipts, memories, slot, procs, events>>
BY DEF Request, RequestRun

(* The setting changes by a command of its owner, which is counted. *)
LEMMA ScopeKept ==
  ASSUME IInv, [Next]_vars
  PROVE  ScopePart'
<1> USE BoundsAssumption DEF IInv, ScopePart
<1>1. CASE Switch
  BY <1>1 DEF Switch, Happens
<1>2. CASE scope' = scope /\ (events' = events \/ Happens)
  BY <1>2 DEF Happens
<1>3. Switch \/ (scope' = scope /\ (events' = events \/ Happens))
  <2>1. CASE \E s \in Receipts : Admit(s)
    BY <2>1 DEF Admit
  <2>2. CASE Request
    BY <2>2, RequestsQueue
  <2>3. CASE Owner
    BY <2>3 DEF Owner, CancelRun, CloseRun, ResumeRun, Order, Discard
  <2>4. CASE \E p \in Processes : Turn(p)
    BY <2>4 DEF Turn, Select, Acquire, Claim, Release, GiveBack, Prepare, Apply, Stale, Defer, LoseClaim
  <2>5. CASE \E p \in Processes : Fault(p)
    BY <2>5 DEF Fault, Fail, Busy, Defer, BusyUnrecorded, ReleaseFails, Yield, Crash, GiveBack
  <2>6. CASE \E p \in Processes : Start(p) \/ Quit(p) \/ Fence(p) \/ Exit(p)
    BY <2>6 DEF Start, Quit, Fence, Exit
  <2>7. CASE \E r \in RunIds : Expire(r)
    BY <2>7 DEF Expire
  <2>8. CASE UNCHANGED vars
    BY <2>8 DEF vars
  <2> QED
    BY <2>1, <2>2, <2>3, <2>4, <2>5, <2>6, <2>7, <2>8 DEF Next
<1> QED
  BY <1>1, <1>2, <1>3

(* A receipt is admitted once, given up by its owner while it is blocked,   *)
(* and decided by a page while it is pending or blocked: in each case       *)
(* before it has a memory.                                                  *)
LEMMA ReceiptsKept ==
  ASSUME IInv, [Next]_vars
  PROVE  ReceiptPart'
<1> USE DEF IInv, ReceiptPart, OneMemoryEach
<1>1. ASSUME NEW s \in Receipts, Admit(s)
      PROVE  ReceiptPart'
  <2>1. PICK version \in 1..scope.version,
             state \in {"pending", "blocked", "skipped"} :
          receipts' = [receipts EXCEPT ![s] = [state |-> state, version |-> 1, scope |-> version]]
    BY <1>1 DEF Admit
  <2>2. version \in Nat
    BY DEF ScopePart
  <2> QED
    BY <1>1, <2>1, <2>2 DEF Admit, ReceiptRows, ReceiptStates
<1>2. ASSUME NEW s \in Receipts, Discard(s)
      PROVE  ReceiptPart'
  BY <1>2 DEF Discard, ReceiptRows, ReceiptStates
<1>3. ASSUME NEW p \in Processes, Apply(p)
      PROVE  ReceiptPart'
  <2> DEFINE r == procs[p].run
             s == NextOf(Pending(r))
  <2>1. r \in RunIds
    BY <1>3 DEF Apply, ProcPart, GoodProc
  <2>2. CASE s = 0
    BY <1>3, <2>2 DEF Apply
  <2>3. CASE s # 0
    <3>1. s \in Receipts /\ receipts[s].state \in {"pending", "blocked"}
      BY <2>1, <2>3, FirstOfRun DEF Pending, Wanted
    <3>2. memories[s] = 0
      BY <3>1
    <3>3. PICK state \in Decisions(runs[r].kind, s) :
            /\ receipts' = [receipts EXCEPT ![s].state = state, ![s].version = @ + 1]
            /\ memories' = [memories EXCEPT ![s] = IF state = "applied" THEN @ + 1 ELSE @]
      BY <1>3, <2>3 DEF Apply
    <3>4. state \in ReceiptStates
      BY DEF Decisions, ReceiptStates
    <3> QED
      BY <3>1, <3>2, <3>3, <3>4 DEF ReceiptRows
  <2> QED
    BY <2>2, <2>3
<1>4. CASE UNCHANGED <<receipts, memories>>
  BY <1>4
<1>5. \/ \E s \in Receipts : Admit(s) \/ Discard(s)
      \/ \E p \in Processes : Apply(p)
      \/ UNCHANGED <<receipts, memories>>
  <2>1. CASE \E s \in Receipts : Admit(s)
    BY <2>1
  <2>2. CASE Request
    BY <2>2, RequestsQueue
  <2>3. CASE Owner
    BY <2>3 DEF Owner, Switch, CancelRun, CloseRun, ResumeRun, Order
  <2>4. CASE \E p \in Processes : Turn(p)
    BY <2>4 DEF Turn, Select, Acquire, Claim, Release, GiveBack, Prepare, Stale, Defer, LoseClaim
  <2>5. CASE \E p \in Processes : Fault(p)
    BY <2>5 DEF Fault, Fail, Busy, Defer, BusyUnrecorded, ReleaseFails, Yield, Crash, GiveBack
  <2>6. CASE \E p \in Processes : Start(p) \/ Quit(p) \/ Fence(p) \/ Exit(p)
    BY <2>6 DEF Start, Quit, Fence, Exit
  <2>7. CASE \E r \in RunIds : Expire(r)
    BY <2>7 DEF Expire
  <2>8. CASE UNCHANGED vars
    BY <2>8 DEF vars
  <2> QED
    BY <2>1, <2>2, <2>3, <2>4, <2>5, <2>6, <2>7, <2>8 DEF Next
<1> QED
  BY <1>1, <1>2, <1>3, <1>4, <1>5

(* Only a process at work takes or keeps a run, and a run that stops gives  *)
(* its claim back.                                                          *)
LEMMA RunsKept ==
  ASSUME IInv, [Next]_vars
  PROVE  RunPart'
<1> USE DEF RunPart
<1>0. MaxRounds \in Nat /\ 0 < MaxRounds
  BY BoundsAssumption
<1>1. ASSUME NEW r \in RunIds, NEW row, GoodRun(row), runs' = [runs EXCEPT ![r] = row]
      PROVE  RunPart'
  BY <1>1 DEF IInv, GoodRun
<1>2. ASSUME NEW r \in RunIds,
             CancelRun(r) \/ CloseRun(r) \/ ResumeRun(r)
      PROVE  RunPart'
  <2>1. ASSUME NEW error \in {"cancelled", "closed"}
        PROVE  GoodRun(Stopped(runs[r], error))
    <3> DEFINE row == Stopped(runs[r], error)
    <3>1. runs[r] \in RunRows /\ GoodRun(runs[r])
      BY DEF IInv
    <3>2. row \in RunRows
      BY <3>1 DEF Stopped, RunRows, RunStates, Errors
    <3>3. /\ row.state = "error" /\ row.token = None
          /\ row.kind = runs[r].kind /\ row.target = runs[r].target
      BY <3>1 DEF Stopped, RunRows
    <3> HIDE DEF row
    <3>4. GoodRun(row)
      BY <3>1, <3>2, <3>3 DEF GoodRun
    <3> QED
      BY <3>4 DEF row
  <2>2. GoodRun([runs[r] EXCEPT !.state = "deferred", !.error = "none", !.rounds = 0,
                                !.token = None, !.lease = "none"])
    <3> DEFINE row == [runs[r] EXCEPT !.state = "deferred", !.error = "none", !.rounds = 0,
                                      !.token = None, !.lease = "none"]
    <3>1. runs[r] \in RunRows
      BY DEF IInv
    <3>2. row \in RunRows
      <4>1. ASSUME NEW n \in 0..MaxRounds
            PROVE  [runs[r] EXCEPT !.state = "deferred", !.error = "none", !.rounds = n,
                                   !.token = None, !.lease = "none"] \in RunRows
        BY <3>1 DEF RunRows, RunStates, Errors
      <4>2. 0 \in 0..MaxRounds
        BY <1>0
      <4> QED
        BY <4>1, <4>2, Zenon
    <3>3. /\ row.state = "deferred" /\ row.token = None /\ row.rounds = 0
          /\ row.kind = runs[r].kind /\ row.target = runs[r].target
      BY <3>1 DEF RunRows
    <3> HIDE DEF row
    <3>4. GoodRun(row)
      BY <1>0, <3>2, <3>3 DEF IInv, GoodRun
    <3> QED
      BY <3>4 DEF row
  <2> QED
    BY <1>1, <1>2, <2>1, <2>2 DEF CancelRun, CloseRun, ResumeRun, Order
<1>3. ASSUME NEW r \in RunIds, NEW kind \in Kinds, NEW target \in Receipts \cup {0},
             NEW cutoff \in Receipts, NEW late \in SUBSET Receipts,
             RequestRun(r, kind, target, cutoff, late)
      PROVE  RunPart'
  <2>1. GoodRun([NoRun EXCEPT !.state = "pending", !.kind = kind, !.target = target,
                              !.cutoff = cutoff, !.late = late])
    <3> DEFINE row == [NoRun EXCEPT !.state = "pending", !.kind = kind, !.target = target,
                                    !.cutoff = cutoff, !.late = late]
    <3>1. NoRun \in RunRows
      BY <1>0 DEF NoRun, RunRows, RunStates, Errors, Kinds
    <3>2. row \in RunRows
      BY <3>1 DEF RunRows, RunStates
    <3>3. /\ row.state = "pending" /\ row.token = None /\ row.rounds = 0
          /\ row.kind = kind /\ row.target = target
      BY DEF NoRun
    <3> HIDE DEF row
    <3>4. GoodRun(row)
      BY <1>0, <1>3, <3>2, <3>3 DEF RequestRun, GoodRun
    <3> QED
      BY <3>4 DEF row
  <2> QED
    BY <1>1, <1>3, <2>1 DEF RequestRun
<1>4. ASSUME NEW r \in RunIds, Expire(r)
      PROVE  RunPart'
  <2>1. GoodRun([runs[r] EXCEPT !.lease = "over"])
    BY DEF IInv, GoodRun, RunRows
  <2> QED
    BY <1>1, <1>4, <2>1 DEF Expire, IInv
<1>5. ASSUME NEW p \in Processes, Fence(p)
      PROVE  RunPart'
  <2>1. ASSUME NEW r \in RunIds
        PROVE  GoodRun([runs[r] EXCEPT !.state = "deferred", !.token = None, !.lease = "none"])
                 \/ runs[r].state # "running"
    <3> DEFINE row == [runs[r] EXCEPT !.state = "deferred", !.token = None, !.lease = "none"]
    <3>1. runs[r] \in RunRows /\ GoodRun(runs[r])
      BY DEF IInv
    <3>2. row \in RunRows
      BY <3>1 DEF RunRows, RunStates
    <3>3. /\ row.state = "deferred" /\ row.token = None /\ row.rounds = runs[r].rounds
          /\ row.kind = runs[r].kind /\ row.target = runs[r].target
      BY <3>1 DEF RunRows
    <3> HIDE DEF row
    <3>4. runs[r].state = "running" => GoodRun(row)
      BY <3>1, <3>2, <3>3 DEF GoodRun
    <3> QED
      BY <3>4 DEF row
  <2>2. ASSUME NEW r \in RunIds
        PROVE  GoodRun(runs'[r])
    BY <1>5, <2>1, <2>2 DEF Fence, IInv
  <2>3. /\ DOMAIN runs' = RunIds
        /\ runs' = [r \in RunIds |-> runs'[r]]
    <3>1. CASE runs' = runs
      BY <3>1 DEF IInv
    <3>2. CASE runs' # runs
      BY <1>5, <3>2 DEF Fence
    <3> QED
      BY <3>1, <3>2
  <2>4. \A r \in RunIds : runs'[r] \in RunRows
    BY <2>2 DEF GoodRun
  <2> QED
    BY <2>2, <2>3, <2>4
<1>6. ASSUME NEW p \in Processes,
             Claim(p) \/ Apply(p) \/ LoseClaim(p) \/ Fail(p) \/ Busy(p) \/ Stale(p)
      PROVE  RunPart'
  <2> DEFINE r == procs[p].run
  <2>1. r \in RunIds /\ GoodRun(runs[r])
    BY <1>6 DEF Claim, Apply, LoseClaim, Fail, Busy, Stale, AtWork, IInv, ProcPart, GoodProc
  <2>2. CASE Claim(p)
    <3>1. GoodRun([runs[r] EXCEPT !.state = "running", !.token = p, !.lease = "live"])
      BY <2>1, <2>2, NoneAssumption DEF Claim, Claimable, Active, GoodRun, RunRows, RunStates
    <3> QED
      BY <1>1, <2>1, <2>2, <3>1 DEF Claim, IInv
  <2>3. CASE Apply(p)
    <3>1. GoodRun(AfterPage(r, NextOf(Pending(r))))
      BY <2>1, <2>3, FirstOfRun DEF AfterPage, Apply, Holds, GoodRun, RunRows, RunStates
    <3> QED
      BY <1>1, <2>1, <2>3, <3>1 DEF Apply
  <2>4. CASE LoseClaim(p) \/ Fail(p)
    <3> DEFINE y == [runs[r] EXCEPT !.state = "error", !.error = "failed", !.token = None,
                                    !.lease = "none"]
    <3>1. y \in RunRows
      BY <2>1 DEF GoodRun, RunRows, RunStates, Errors
    <3>2. /\ y.state = "error" /\ y.token = None /\ y.kind = runs[r].kind /\ y.target = runs[r].target
      BY <2>1 DEF GoodRun, RunRows
    <3> HIDE DEF y
    <3>3. GoodRun(y)
      BY <2>1, <3>1, <3>2 DEF GoodRun
    <3> QED
      BY <1>1, <2>1, <2>4, <3>3 DEF LoseClaim, Fail, Mark, IInv, y
  <2>5. CASE Defer(p)
    <3> DEFINE rounds == runs[r].rounds + 1
    <3>1. CASE runs[r].token # p
      BY <2>5, <3>1 DEF Defer, IInv
    <3>2. CASE runs[r].token = p
      <4>1. runs[r].state = "running" /\ rounds \in 0..MaxRounds
        BY <1>0, <2>1, <3>2, NoneAssumption DEF GoodRun, RunRows
      <4>2. GoodRun([Stopped(runs[r], "failed") EXCEPT !.rounds = rounds])
        BY <2>1, <4>1 DEF Stopped, GoodRun, RunRows, RunStates, Errors
      <4>3. ASSUME rounds < MaxRounds
            PROVE  GoodRun([runs[r] EXCEPT !.state = "deferred", !.token = None,
                                           !.lease = "live", !.rounds = rounds])
        BY <2>1, <4>1, <4>3 DEF GoodRun, RunRows, RunStates
      <4>4. rounds < MaxRounds \/ rounds >= MaxRounds
        BY <1>0, <4>1
      <4> QED
        BY <1>1, <2>1, <2>5, <3>2, <4>2, <4>3, <4>4 DEF Defer
    <3> QED
      BY <3>1, <3>2
  <2>6. CASE runs' = runs
    BY <2>6 DEF IInv
  <2> QED
    BY <1>6, <2>2, <2>3, <2>4, <2>5, <2>6 DEF Busy, Stale
<1>7. CASE runs' = runs
  BY <1>7 DEF IInv
<1>8. \/ \E r \in RunIds : CancelRun(r) \/ CloseRun(r) \/ ResumeRun(r) \/ Expire(r)
      \/ Request
      \/ \E p \in Processes :
           Fence(p) \/ Claim(p) \/ Apply(p) \/ LoseClaim(p) \/ Fail(p) \/ Busy(p) \/ Stale(p)
      \/ runs' = runs
  BY DEF Next, vars, Admit, Owner, Switch, Discard, Start, Turn, Select, Acquire, Release, GiveBack,
    Prepare, Fault, BusyUnrecorded, ReleaseFails, Yield, Crash, Quit, Exit
<1> QED
  BY <1>2, <1>3, <1>4, <1>5, <1>6, <1>7, <1>8 DEF Request

(* A loop enters its turn with a run it chose, and leaves it for good. *)
LEMMA ProcsKept ==
  ASSUME IInv, [Next]_vars
  PROVE  ProcPart'
<1> USE DEF IInv, ProcPart
<1>1. ASSUME NEW p \in Processes, NEW row, GoodProc(row), procs' = [procs EXCEPT ![p] = row]
      PROVE  ProcPart'
  BY <1>1 DEF GoodProc
<1>2. 0 \in 0..MaxStale /\ NoReceipt \in ReceiptRows
  BY BoundsAssumption DEF NoReceipt, ReceiptRows, ReceiptStates
<1>3. ASSUME NEW p \in Processes
      PROVE  /\ GoodProc(Leave(p)) /\ Leave(p).phase = "idle"
             /\ GoodProc([Leave(p) EXCEPT !.life = "gone"])
             /\ procs[p].phase # "idle" => GoodProc(EndCall(p))
  <2>1. ASSUME NEW none \in 0..MaxStale, NEW blank \in ReceiptRows
        PROVE  /\ [procs[p] EXCEPT !.phase = "idle", !.run = 0, !.page = 0, !.seen = blank,
                                    !.stale = none, !.cancelled = FALSE] \in ProcRows
               /\ [procs[p] EXCEPT !.phase = "turn", !.page = 0, !.seen = blank, !.stale = none] \in ProcRows
    BY DEF ProcRows, Phases
  <2>2. Leave(p) \in ProcRows /\ EndCall(p) \in ProcRows
    BY <1>2, <2>1, Zenon DEF Leave, EndCall
  <2>3. Leave(p).phase = "idle" /\ [Leave(p) EXCEPT !.life = "gone"] \in ProcRows
    BY <2>2 DEF Leave, ProcRows, Lives
  <2>4. EndCall(p).run = procs[p].run /\ EndCall(p).life = procs[p].life
    BY DEF EndCall, ProcRows
  <2> QED
    BY <2>2, <2>3, <2>4 DEF GoodProc
<1>4. ASSUME NEW p \in Processes, Start(p) \/ Select(p) \/ Acquire(p) \/ Claim(p) \/ Fence(p)
      PROVE  ProcPart'
  <2>1. CASE Start(p)
    <3>1. GoodProc([procs[p] EXCEPT !.life = "up"])
      BY <2>1 DEF Start, GoodProc, ProcRows, Lives
    <3> QED
      BY <1>1, <2>1, <3>1 DEF Start
  <2>2. CASE Select(p)
    <3>1. PICK r \in RunIds : procs' = [procs EXCEPT ![p].phase = "selected", ![p].run = r]
      BY <2>2 DEF Select
    <3>2. GoodProc([procs[p] EXCEPT !.phase = "selected", !.run = r])
      BY <2>2 DEF Select, Working, GoodProc, ProcRows, Phases
    <3> QED
      BY <1>1, <3>1, <3>2
  <2>3. CASE Acquire(p) \/ Claim(p)
    <3>1. /\ GoodProc([procs[p] EXCEPT !.phase = "turn"])
          /\ GoodProc([procs[p] EXCEPT !.phase = "claimed"])
      BY <2>3 DEF Acquire, Claim, GoodProc, ProcRows, Phases
    <3> QED
      BY <1>1, <1>3, <2>3, <3>1 DEF Acquire, Claim
  <2>4. CASE Fence(p)
    <3>1. GoodProc([procs[p] EXCEPT !.life = "fenced", !.cancelled = (@ \/ InTurn(p))])
      BY <2>4 DEF GoodProc, ProcRows, Lives, InTurn
    <3>2. procs' = [procs EXCEPT ![p] = [procs[p] EXCEPT !.life = "fenced", !.cancelled = (@ \/ InTurn(p))]]
      BY <2>4 DEF Fence
    <3> QED
      BY <1>1, <3>1, <3>2
  <2> QED
    BY <1>4, <2>1, <2>2, <2>3, <2>4
<1>5. ASSUME NEW p \in Processes,
             \/ Release(p) \/ Yield(p) \/ ReleaseFails(p) \/ Exit(p) \/ Crash(p)
             \/ Apply(p) \/ LoseClaim(p) \/ Fail(p) \/ Busy(p) \/ BusyUnrecorded(p)
      PROVE  ProcPart'
  BY <1>1, <1>3, <1>5 DEF Release, Yield, GiveBack, ReleaseFails, Exit, Crash, End, Apply, LoseClaim,
    Fail, Busy, Defer, BusyUnrecorded, AtWork
<1>6. ASSUME NEW p \in Processes, Prepare(p)
      PROVE  ProcPart'
  <2> DEFINE s == NextOf(Pending(procs[p].run))
             seen == IF s = 0 THEN NoReceipt ELSE receipts[s]
  <2>1. procs[p].run \in RunIds
    BY <1>6 DEF Prepare, GoodProc
  <2>2. s \in Receipts \cup {0} /\ seen \in ReceiptRows
    BY <1>2, <2>1, FirstOfRun DEF ReceiptPart
  <2>3. ASSUME NEW page \in Receipts \cup {0}, NEW row \in ReceiptRows
        PROVE  GoodProc([procs[p] EXCEPT !.phase = "prepared", !.page = page, !.seen = row])
    BY <1>6 DEF Prepare, GoodProc, ProcRows, Phases
  <2>4. procs' = [procs EXCEPT ![p] = [@ EXCEPT !.phase = "prepared", !.page = s, !.seen = seen]]
    BY <1>6 DEF Prepare
  <2> QED
    BY <1>1, <2>2, <2>3, <2>4
<1>7. ASSUME NEW p \in Processes, Stale(p)
      PROVE  ProcPart'
  <2> DEFINE row == [procs[p] EXCEPT !.phase = "claimed", !.page = 0, !.seen = NoReceipt,
                                   !.stale = procs[p].stale + 1]
  <2>1. CASE Defer(p)
    BY <1>1, <1>3, <1>7, <2>1 DEF Defer, Stale
  <2>2. CASE procs[p].stale + 1 < MaxStale /\ procs' = [procs EXCEPT ![p] = row]
    <3>1. procs[p].stale + 1 \in 0..MaxStale
      BY <2>2, BoundsAssumption DEF ProcRows
    <3>2. ASSUME NEW n \in 0..MaxStale, NEW blank \in ReceiptRows
          PROVE  GoodProc([procs[p] EXCEPT !.phase = "claimed", !.page = 0, !.seen = blank, !.stale = n])
      BY <1>7 DEF Stale, GoodProc, ProcRows, Phases
    <3> QED
      BY <1>1, <1>2, <2>2, <3>1, <3>2
  <2>3. procs[p].stale \in Nat /\ MaxStale \in Nat
    BY BoundsAssumption DEF ProcRows
  <2>4. CASE procs[p].stale + 1 >= MaxStale
    BY <1>7, <2>1, <2>4 DEF Stale
  <2>5. CASE ~(procs[p].stale + 1 >= MaxStale)
    <3>1. procs' = [procs EXCEPT ![p] = row]
      BY <1>7, <2>5 DEF Stale
    <3> QED
      BY <2>2, <2>3, <2>5, <3>1
  <2> QED
    BY <2>4, <2>5
<1>8. ASSUME NEW p \in Processes, Quit(p)
      PROVE  ProcPart'
  <2> DEFINE from == IF InTurn(p) THEN procs[p] ELSE Leave(p)
  <2>1. from \in ProcRows /\ GoodProc(from)
    BY <1>3 DEF GoodProc
  <2>2. ASSUME NEW row \in ProcRows, NEW cancelled \in BOOLEAN, GoodProc(row)
        PROVE  GoodProc([row EXCEPT !.life = "closing", !.cancelled = cancelled])
    BY <2>2 DEF GoodProc, ProcRows, Lives
  <2>3. InTurn(p) \in BOOLEAN
    BY DEF InTurn
  <2>4. GoodProc([from EXCEPT !.life = "closing", !.cancelled = InTurn(p)])
    BY <2>1, <2>2, <2>3
  <2> QED
    BY <1>1, <1>8, <2>4 DEF Quit
<1>9. CASE procs' = procs
  BY <1>9
<1>10. \/ \E p \in Processes :
            \/ Start(p) \/ Select(p) \/ Acquire(p) \/ Claim(p) \/ Fence(p)
            \/ Release(p) \/ Yield(p) \/ ReleaseFails(p) \/ Exit(p) \/ Crash(p)
            \/ Apply(p) \/ LoseClaim(p) \/ Fail(p) \/ Busy(p) \/ BusyUnrecorded(p)
            \/ Prepare(p) \/ Stale(p) \/ Quit(p)
       \/ procs' = procs
  BY RequestsQueue DEF Next, vars, Admit, Owner, Switch, CancelRun, CloseRun, ResumeRun, Order,
    Discard, Turn, Fault, Expire
<1> QED
  BY <1>4, <1>5, <1>6, <1>7, <1>8, <1>9, <1>10

(* The slot is taken only when nobody known to run has it, and given back   *)
(* only by the process it names.                                            *)
LEMMA SlotKept ==
  ASSUME IInv, [Next]_vars
  PROVE  SlotPart'
<1> USE DEF IInv, ProcPart, SlotPart
<1>1. ASSUME NEW p \in Processes, Acquire(p)
      PROVE  SlotPart'
  <2>1. CASE SlotFree
    <3>1. ASSUME NEW q \in Processes, InTurn(q)
          PROVE  q = p
      BY <1>1, <2>1, <3>1, NoneAssumption
      DEF Acquire, SlotFree, ProvenInactive, Running, InTurn, GoodProc
    <3>2. slot' = p /\ procs' = [procs EXCEPT ![p].phase = "turn"]
      BY <1>1, <2>1 DEF Acquire
    <3> QED
      BY <3>1, <3>2 DEF InTurn
  <2>2. CASE ~SlotFree
    <3>1. slot' = slot /\ procs' = [procs EXCEPT ![p] = Leave(p)]
      BY <1>1, <2>2 DEF Acquire
    <3>2. Leave(p).phase = "idle"
      BY DEF Leave, ProcRows
    <3>3. ~InTurn(p)' /\ \A q \in Processes \ {p} : InTurn(q)' <=> InTurn(q)
      BY <3>1, <3>2 DEF InTurn
    <3> QED
      BY <3>1, <3>3
  <2> QED
    BY <2>1, <2>2
<1>2. ASSUME NEW p \in Processes, GiveBack(p)
      PROVE  SlotPart'
  BY <1>2 DEF GiveBack, Leave, InTurn, ProcRows
<1>3. ASSUME NEW p \in Processes, Quit(p)
      PROVE  SlotPart'
  <2> DEFINE from == IF InTurn(p) THEN procs[p] ELSE Leave(p)
  <2>1. procs' = [procs EXCEPT ![p] = [from EXCEPT !.life = "closing", !.cancelled = InTurn(p)]]
    BY <1>3 DEF Quit
  <2>2. \A q \in Processes : InTurn(q)' => InTurn(q)
    BY <2>1 DEF Leave, InTurn, ProcRows
  <2>3. CASE slot' = slot
    BY <2>2, <2>3
  <2>4. CASE slot' = p /\ procs[p].phase = "selected" /\ SlotFree
    <3>1. \A q \in Processes : ~InTurn(q)
      BY <1>3, <2>4, NoneAssumption DEF Quit, SlotFree, ProvenInactive, Running, InTurn, GoodProc
    <3> QED
      BY <2>2, <2>4, <3>1
  <2> QED
    BY <1>3, <2>3, <2>4 DEF Quit
<1>4. ASSUME NEW p \in Processes, slot' = slot,
             \/ Start(p) \/ Select(p) \/ Claim(p) \/ Fence(p) \/ ReleaseFails(p) \/ Exit(p)
             \/ Crash(p) \/ Apply(p) \/ LoseClaim(p) \/ Fail(p) \/ Busy(p) \/ BusyUnrecorded(p)
             \/ Prepare(p) \/ Stale(p)
      PROVE  SlotPart'
  <2>1. \A q \in Processes : InTurn(q)' => InTurn(q)
    <3>1. CASE Start(p) \/ Select(p) \/ Fence(p)
      <4>1. CASE Start(p)
        BY <4>1 DEF Start, ProcRows, InTurn
      <4>2. CASE Select(p)
        BY <4>2 DEF Select, ProcRows, InTurn
      <4>3. CASE Fence(p)
        <5>1. procs' = [procs EXCEPT ![p] = [procs[p] EXCEPT !.life = "fenced", !.cancelled = (@ \/ InTurn(p))]]
          BY <4>3 DEF Fence
        <5>2. [procs[p] EXCEPT !.life = "fenced", !.cancelled = (@ \/ InTurn(p))].phase = procs[p].phase
          BY DEF ProcRows
        <5> QED
          BY <5>1, <5>2 DEF InTurn
      <4> QED
        BY <3>1, <4>1, <4>2, <4>3
    <3>2. CASE ReleaseFails(p) \/ Exit(p) \/ Crash(p)
      <4>1. Leave(p).phase = "idle" /\ [Leave(p) EXCEPT !.life = "gone"].phase = "idle"
        BY DEF Leave, ProcRows
      <4> QED
        BY <3>2, <4>1 DEF ReleaseFails, Exit, Crash, End, InTurn
    <3>3. CASE \/ Claim(p) \/ Prepare(p) \/ Apply(p) \/ LoseClaim(p)
                \/ Fail(p) \/ Busy(p) \/ BusyUnrecorded(p) \/ Stale(p)
      <4>1. InTurn(p)
        BY <3>3 DEF Claim, Prepare, Apply, LoseClaim, Fail, Busy, BusyUnrecorded, Stale, AtWork, InTurn
      <4>2. \E row : procs' = [procs EXCEPT ![p] = row]
        BY <3>3 DEF Claim, Prepare, Apply, LoseClaim, Fail, Busy, BusyUnrecorded, Stale, Defer
      <4> QED
        BY <4>1, <4>2 DEF InTurn
    <3> QED
      BY <1>4, <3>1, <3>2, <3>3
  <2> QED
    BY <1>4, <2>1
<1>5. CASE slot' = slot /\ procs' = procs
  BY <1>5 DEF InTurn
<1>6. ASSUME NEW p \in Processes,
             \/ Start(p) \/ Select(p) \/ Claim(p) \/ Fence(p) \/ ReleaseFails(p) \/ Exit(p)
             \/ Crash(p) \/ Apply(p) \/ LoseClaim(p) \/ Fail(p) \/ Busy(p) \/ BusyUnrecorded(p)
             \/ Prepare(p) \/ Stale(p)
      PROVE  slot' = slot
  BY <1>6 DEF Start, Select, Claim, Fence, ReleaseFails, Exit, Crash, Apply, LoseClaim, Fail, Busy,
    Defer, BusyUnrecorded, Prepare, Stale
<1>7. \/ \E p \in Processes :
           \/ Acquire(p) \/ GiveBack(p) \/ Quit(p)
           \/ Start(p) \/ Select(p) \/ Claim(p) \/ Fence(p) \/ ReleaseFails(p) \/ Exit(p)
           \/ Crash(p) \/ Apply(p) \/ LoseClaim(p) \/ Fail(p) \/ Busy(p) \/ BusyUnrecorded(p)
           \/ Prepare(p) \/ Stale(p)
      \/ slot' = slot /\ procs' = procs
  BY RequestsQueue DEF Next, vars, Admit, Owner, Switch, CancelRun, CloseRun, ResumeRun, Order,
    Discard, Turn, Fault, Expire, Release, Yield
<1> QED
  BY <1>1, <1>2, <1>3, <1>4, <1>5, <1>6, <1>7

-----------------------------------------------------------------------------
LEMMA InvKept == IInv /\ [Next]_vars => IInv'
  BY ScopeKept, ReceiptsKept, RunsKept, ProcsKept, SlotKept DEF IInv

THEOREM Invariance == Spec => []IInv
<1>1. Init => IInv
  BY InitInv
<1>2. IInv /\ [Next]_vars => IInv'
  BY InvKept
<1> QED
  BY <1>1, <1>2, PTL DEF Spec

(* Every variable keeps its shape. *)
THEOREM TypeCorrect == Spec => []TypeOK
<1>1. IInv => TypeOK
  BY BoundsAssumption DEF IInv, TypeOK, ScopePart, ReceiptPart, RunPart, ProcPart, SlotPart
<1> QED
  BY <1>1, Invariance, PTL

(* A receipt has one memory once it is applied, and none otherwise. *)
THEOREM MemoriesOnce == Spec => []OneMemoryEach
<1>1. IInv => OneMemoryEach
  BY DEF IInv, ReceiptPart
<1> QED
  BY <1>1, Invariance, PTL

(* Two processes are never in a maintenance turn together. *)
THEOREM TurnsExclude == Spec => []OneTurn
<1>1. IInv => OneTurn
  BY DEF IInv, SlotPart, OneTurn
<1> QED
  BY <1>1, Invariance, PTL

-----------------------------------------------------------------------------
(* What one step does, used by the action properties: only a page moves a   *)
(* cursor or completes a run, and only a page or the owner moves a receipt  *)
(* that was admitted.                                                       *)
LEMMA OnlyPagesMove ==
  ASSUME IInv, [Next]_vars, NEW r \in RunIds,
         runs'[r].cursor # runs[r].cursor \/ (runs[r].state # "completed" /\ runs'[r].state = "completed")
  PROVE  \E p \in Processes : Apply(p) /\ procs[p].run = r
<1> USE DEF IInv, RunPart
<1>1. \/ \E q \in RunIds : CancelRun(q) \/ CloseRun(q) \/ ResumeRun(q) \/ Expire(q)
      \/ Request
      \/ \E p \in Processes :
           Fence(p) \/ Claim(p) \/ Apply(p) \/ LoseClaim(p) \/ Fail(p) \/ Busy(p) \/ Stale(p)
      \/ runs' = runs
  BY DEF Next, vars, Admit, Owner, Switch, Discard, Start, Turn, Select, Acquire, Release, GiveBack,
    Prepare, Fault, BusyUnrecorded, ReleaseFails, Yield, Crash, Quit, Exit
<1>2. ASSUME NEW q \in RunIds, NEW row, runs' = [runs EXCEPT ![q] = row],
             row.cursor = runs[q].cursor, row.state # "completed" \/ row.state = runs[q].state
      PROVE  FALSE
  BY <1>2
<1>3. ASSUME NEW q \in RunIds, CancelRun(q) \/ CloseRun(q) \/ ResumeRun(q) \/ Expire(q)
      PROVE  FALSE
  <2>1. CASE CancelRun(q)
    BY <1>2, <2>1 DEF CancelRun, Order, Stopped, RunRows
  <2>2. CASE CloseRun(q)
    BY <1>2, <2>2 DEF CloseRun, Order, Stopped, RunRows
  <2>3. CASE ResumeRun(q)
    BY <1>2, <2>3 DEF ResumeRun, Order, RunRows
  <2>4. CASE Expire(q)
    BY <1>2, <2>4 DEF Expire, RunRows
  <2> QED
    BY <1>3, <2>1, <2>2, <2>3, <2>4
<1>4. ASSUME NEW q \in RunIds, NEW kind \in Kinds, NEW target \in Receipts \cup {0},
             NEW cutoff \in Receipts, NEW late \in SUBSET Receipts,
             RequestRun(q, kind, target, cutoff, late)
      PROVE  FALSE
  BY <1>2, <1>4 DEF RequestRun, NoRun, GoodRun
<1>5. ASSUME NEW p \in Processes, Fence(p)
      PROVE  FALSE
  <2>1. runs' # runs
    OBVIOUS
  <2>2. /\ runs'[r].cursor = runs[r].cursor
        /\ runs'[r].state = runs[r].state \/ runs'[r].state = "deferred"
    <3>1. runs'[r] = IF runs[r].state # "running" THEN runs[r]
                     ELSE [runs[r] EXCEPT !.state = "deferred", !.token = None, !.lease = "none"]
      BY <1>5, <2>1 DEF Fence
    <3> QED
      BY <3>1 DEF RunRows
  <2> QED
    BY <2>2
<1>6. ASSUME NEW p \in Processes, Claim(p) \/ LoseClaim(p) \/ Fail(p) \/ Busy(p) \/ Stale(p)
      PROVE  FALSE
  <2> DEFINE q == procs[p].run
  <2>1. q \in RunIds /\ runs[q] \in RunRows
    BY <1>6 DEF Claim, LoseClaim, Fail, Busy, Stale, AtWork, ProcPart, GoodProc
  <2>2. CASE Claim(p)
    BY <1>2, <2>1, <2>2 DEF Claim, RunRows
  <2>3. CASE LoseClaim(p) \/ Fail(p)
    <3> DEFINE row == [runs[q] EXCEPT !.state = "error", !.error = "failed",
                                      !.token = None, !.lease = "none"]
    <3>1. runs' = runs \/ runs' = [runs EXCEPT ![q] = row]
      BY <2>3 DEF LoseClaim, Fail, Mark
    <3>2. row.cursor = runs[q].cursor /\ row.state = "error"
      BY <2>1 DEF RunRows
    <3> HIDE DEF row
    <3> QED
      BY <1>2, <2>1, <3>1, <3>2
  <2>4. CASE Defer(p)
    <3> DEFINE rounds == runs[q].rounds + 1
               held == [Stopped(runs[q], "failed") EXCEPT !.rounds = rounds]
               deferred == [runs[q] EXCEPT !.state = "deferred", !.token = None,
                                           !.lease = "live", !.rounds = rounds]
    <3>1. \/ runs' = runs
          \/ runs' = [runs EXCEPT ![q] = held]
          \/ runs' = [runs EXCEPT ![q] = deferred]
      BY <2>4 DEF Defer
    <3>2. /\ held.cursor = runs[q].cursor /\ held.state = "error"
          /\ deferred.cursor = runs[q].cursor /\ deferred.state = "deferred"
      BY <2>1 DEF Stopped, RunRows
    <3> HIDE DEF held, deferred
    <3>3. CASE runs' = runs
      BY <3>3
    <3>4. CASE runs' = [runs EXCEPT ![q] = held]
      BY <1>2, <2>1, <3>2, <3>4
    <3>5. CASE runs' = [runs EXCEPT ![q] = deferred]
      BY <1>2, <2>1, <3>2, <3>5
    <3> QED
      BY <3>1, <3>3, <3>4, <3>5
  <2>5. CASE runs' = runs
    BY <2>5
  <2> QED
    BY <1>6, <2>2, <2>3, <2>4, <2>5 DEF Busy, Stale
<1>7. ASSUME NEW p \in Processes, Apply(p)
      PROVE  procs[p].run = r
  <2>1. procs[p].run \in RunIds
    BY <1>7 DEF Apply, ProcPart, GoodProc
  <2> QED
    BY <1>7, <2>1 DEF Apply
<1> QED
  BY <1>1, <1>3, <1>4, <1>5, <1>6, <1>7 DEF Request

(* A cursor moves only on a standing claim, by the process that holds it. *)
THEOREM OnlyClaimantsMove == Spec => LateResultsRefused
<1>1. IInv /\ [Next]_vars =>
        \A r \in RunIds :
          runs'[r].cursor # runs[r].cursor =>
            /\ runs[r].state = "running" /\ runs[r].lease = "live"
            /\ procs[runs[r].token].run = r /\ procs[runs[r].token].phase = "prepared"
  BY OnlyPagesMove DEF Apply, Holds
<1> QED
  BY <1>1, Invariance, PTL DEF Spec, LateResultsRefused

(* What a page decides: the first receipt its run still has to apply. *)
LEMMA PageDecides ==
  ASSUME IInv, NEW p \in Processes, Apply(p)
  PROVE  LET r == procs[p].run
             s == NextOf(Pending(r))
         IN  /\ r \in RunIds /\ runs[r].state = "running"
             /\ runs' = [runs EXCEPT ![r] = AfterPage(r, s)]
             /\ \A other \in Receipts \ {s} : receipts'[other] = receipts[other]
             /\ s # 0 => /\ s \in Receipts /\ receipts'[s].state # "pending"
                         /\ receipts[s].state = Wanted(runs[r].kind)
<1> DEFINE r == procs[p].run
           s == NextOf(Pending(r))
<1>1. r \in RunIds /\ runs[r].state = "running" /\ runs' = [runs EXCEPT ![r] = AfterPage(r, s)]
  BY DEF Apply, Holds, IInv, ProcPart, GoodProc
<1>2. CASE s = 0
  BY <1>1, <1>2 DEF Apply
<1>3. CASE s # 0
  <2>1. s \in Receipts /\ receipts[s].state = Wanted(runs[r].kind)
    BY <1>1, <1>3, FirstOfRun DEF Pending
  <2>2. PICK state \in Decisions(runs[r].kind, s) :
          receipts' = [receipts EXCEPT ![s].state = state, ![s].version = @ + 1]
    BY <1>3 DEF Apply
  <2>3. state # "pending"
    BY DEF Decisions
  <2> QED
    BY <1>1, <2>1, <2>2, <2>3 DEF IInv, ReceiptPart, ReceiptRows
<1> QED
  BY <1>2, <1>3

(* A page passes over no receipt but those a failed run holds and those that  *)
(* came too late for the run's schedule.                                      *)
THEOREM NothingPassedOver == Spec => NothingLeftBehind
<1>1. ASSUME IInv, [Next]_vars, NEW r \in RunIds, runs[r].kind = "pending_apply",
             NEW s \in Ahead(r) \ runs[r].late, PassedOver(r, s), receipts[s].state = "pending",
             receipts'[s].state = "pending"
      PROVE  \E f \in RunIds \ {r} : Failed(f) /\ s \in Ahead(f)
  <2> DEFINE first == NextOf(Pending(r))
  <2>1. s \in Receipts /\ runs[r].cursor < s /\ s <= runs[r].cutoff /\ runs[r] \in RunRows
    BY <1>1 DEF Ahead, IInv, RunPart
  <2>2. runs'[r].cursor # runs[r].cursor \/ (runs[r].state # "completed" /\ runs'[r].state = "completed")
    BY <1>1, <2>1, BoundsAssumption DEF PassedOver, RunRows, Receipts
  <2>3. PICK p \in Processes : Apply(p) /\ procs[p].run = r
    BY <1>1, <2>2, OnlyPagesMove
  <2>4. /\ runs' = [runs EXCEPT ![r] = AfterPage(r, first)]
        /\ first # 0 => receipts'[first].state # "pending"
    BY <1>1, <2>3, PageDecides
  <2>5. s \notin Pending(r)
    <3> SUFFICES ASSUME s \in Pending(r) PROVE FALSE
      OBVIOUS
    <3>1. first \in Pending(r) /\ first \in Receipts \ {0} /\ first < s
      <4>1. first \in Pending(r) /\ first \in Receipts \ {0} /\ first <= s
        BY FirstOfRun
      <4>2. first # s
        BY <1>1, <2>4, <4>1
      <4> QED
        BY <2>1, <4>1, <4>2, BoundsAssumption DEF Receipts
    <3>2. s \in {next \in Pending(r) : next > first}
      BY <2>1, <3>1, BoundsAssumption DEF Receipts
    <3>3. runs'[r].cursor = first /\ runs'[r].state = "deferred"
      BY <1>1, <2>1, <2>4, <3>1, <3>2 DEF AfterPage, RunRows, IInv, RunPart
    <3> QED
      BY <1>1, <2>1, <3>1, <3>3, BoundsAssumption DEF PassedOver, Receipts
  <2>6. runs[r].target = 0
    BY <1>1 DEF IInv, RunPart, GoodRun
  <2> QED
    BY <1>1, <2>1, <2>5, <2>6 DEF Pending, Wanted, FailureFree
<1>2. IInv /\ [Next]_vars =>
        \A r \in RunIds : runs[r].kind = "pending_apply" =>
          \A s \in Ahead(r) \ runs[r].late :
            PassedOver(r, s) /\ receipts[s].state = "pending" /\ receipts'[s].state = "pending" =>
              \E f \in RunIds \ {r} : Failed(f) /\ s \in Ahead(f)
  BY <1>1
<1> QED
  BY <1>2, Invariance, PTL DEF Spec, NothingLeftBehind

(* The cursor of a run only goes on, and never past the cutoff it froze: no   *)
(* page is applied a second time by the run that applied it, also where one   *)
(* claim ends and another process goes on, and what is admitted after the     *)
(* cutoff waits for another run.                                              *)
CursorOnward ==
  \A r \in RunIds :
    runs'[r].cursor # runs[r].cursor =>
      runs[r].cursor < runs'[r].cursor /\ runs'[r].cursor <= runs[r].cutoff

THEOREM CursorGoesOn == Spec => [][CursorOnward]_vars
<1>1. ASSUME IInv, [Next]_vars, NEW r \in RunIds, runs'[r].cursor # runs[r].cursor
      PROVE  runs[r].cursor < runs'[r].cursor /\ runs'[r].cursor <= runs[r].cutoff
  <2> DEFINE first == NextOf(Pending(r))
  <2>1. PICK p \in Processes : Apply(p) /\ procs[p].run = r
    BY <1>1, OnlyPagesMove
  <2>2. runs' = [runs EXCEPT ![r] = AfterPage(r, first)]
    BY <1>1, <2>1, PageDecides
  <2>3. runs \in [RunIds -> RunRows]
    BY <1>1 DEF IInv, RunPart
  <2>4. runs'[r] = AfterPage(r, first)
    BY <2>2, <2>3
  <2> HIDE DEF first
  <2>5. first # 0 /\ runs'[r].cursor = first
    BY <1>1, <2>3, <2>4 DEF AfterPage, RunRows
  <2>6. first \in Pending(r)
    BY <2>5, FirstOfRun DEF first
  <2> QED
    BY <2>5, <2>6 DEF Pending, Ahead
<1>2. IInv /\ [Next]_vars => CursorOnward
  BY <1>1 DEF CursorOnward
<1> QED
  BY <1>2, Invariance, PTL DEF Spec

-----------------------------------------------------------------------------
(* How the rows of receipts change in one step. *)
LEMMA OneReceiptMoves ==
  ASSUME IInv, [Next]_vars
  PROVE  \/ receipts' = receipts
         \/ \E s \in Receipts :
              /\ \A other \in Receipts \ {s} : receipts'[other] = receipts[other]
              /\ \/ /\ receipts[s].state = "none"
                    /\ receipts'[s].state \in {"pending", "blocked", "skipped"}
                 \/ receipts[s].state = "blocked" /\ receipts'[s].state = "discarded"
                 \/ /\ receipts[s].state \in {"pending", "blocked"}
                    /\ receipts'[s].state \in {"applied", "blocked", "skipped"}
                    /\ \E r \in RunIds : runs[r].state = "running" /\ s \in Pending(r)
<1> USE DEF IInv, ReceiptPart
<1>1. ASSUME NEW s \in Receipts, Admit(s)
      PROVE  /\ \A other \in Receipts \ {s} : receipts'[other] = receipts[other]
             /\ receipts[s].state = "none"
             /\ receipts'[s].state \in {"pending", "blocked", "skipped"}
  BY <1>1 DEF Admit
<1>2. ASSUME NEW s \in Receipts, Discard(s)
      PROVE  /\ \A other \in Receipts \ {s} : receipts'[other] = receipts[other]
             /\ receipts[s].state = "blocked" /\ receipts'[s].state = "discarded"
  BY <1>2 DEF Discard, ReceiptRows
<1>3. ASSUME NEW p \in Processes, Apply(p), receipts' # receipts
      PROVE  \E s \in Receipts :
               /\ \A other \in Receipts \ {s} : receipts'[other] = receipts[other]
               /\ receipts[s].state \in {"pending", "blocked"}
               /\ receipts'[s].state \in {"applied", "blocked", "skipped"}
               /\ \E r \in RunIds : runs[r].state = "running" /\ s \in Pending(r)
  <2> DEFINE r == procs[p].run
             s == NextOf(Pending(r))
  <2>1. r \in RunIds /\ runs[r].state = "running" /\ s # 0
    BY <1>3 DEF Apply, Holds, ProcPart, GoodProc
  <2>2. s \in Receipts /\ s \in Pending(r) /\ receipts[s].state \in {"pending", "blocked"}
    BY <2>1, FirstOfRun DEF Pending, Wanted
  <2>3. PICK state \in Decisions(runs[r].kind, s) :
          receipts' = [receipts EXCEPT ![s].state = state, ![s].version = @ + 1]
    BY <1>3, <2>1 DEF Apply
  <2>4. state \in {"applied", "blocked", "skipped"}
    BY DEF Decisions
  <2>5. receipts'[s].state = state /\ \A other \in Receipts \ {s} : receipts'[other] = receipts[other]
    BY <2>2, <2>3 DEF ReceiptRows
  <2> QED
    BY <2>1, <2>2, <2>4, <2>5
<1>4. \/ \E s \in Receipts : Admit(s) \/ Discard(s)
      \/ \E p \in Processes : Apply(p)
      \/ receipts' = receipts
  <2>1. CASE \E s \in Receipts : Admit(s)
    BY <2>1
  <2>2. CASE Request
    BY <2>2, RequestsQueue
  <2>3. CASE Owner
    BY <2>3 DEF Owner, Switch, CancelRun, CloseRun, ResumeRun, Order
  <2>4. CASE \E p \in Processes : Turn(p)
    BY <2>4 DEF Turn, Select, Acquire, Claim, Release, GiveBack, Prepare, Stale, Defer, LoseClaim
  <2>5. CASE \E p \in Processes : Fault(p)
    BY <2>5 DEF Fault, Fail, Busy, Defer, BusyUnrecorded, ReleaseFails, Yield, Crash, GiveBack
  <2>6. CASE \E p \in Processes : Start(p) \/ Quit(p) \/ Fence(p) \/ Exit(p)
    BY <2>6 DEF Start, Quit, Fence, Exit
  <2>7. CASE \E r \in RunIds : Expire(r)
    BY <2>7 DEF Expire
  <2>8. CASE UNCHANGED vars
    BY <2>8 DEF vars
  <2> QED
    BY <2>1, <2>2, <2>3, <2>4, <2>5, <2>6, <2>7, <2>8 DEF Next
<1> QED
  BY <1>1, <1>2, <1>3, <1>4

(* A pending receipt that a failed run holds is not touched. *)
THEOREM FailedRangesKept == Spec => FailedRangeHeld
<1>1. ASSUME IInv, [Next]_vars, NEW f \in RunIds, Failed(f), NEW s \in Ahead(f),
             receipts[s].state = "pending"
      PROVE  receipts'[s] = receipts[s]
  <2> SUFFICES ASSUME receipts'[s] # receipts[s]
               PROVE  FALSE
    OBVIOUS
  <2>1. s \in Receipts
    BY DEF Ahead
  <2>2. PICK r \in RunIds : runs[r].state = "running" /\ s \in Pending(r)
    BY <1>1, <2>1, OneReceiptMoves
  <2>3. runs[r].kind = "pending_apply" /\ r # f
    BY <1>1, <2>2 DEF Pending, Wanted, Failed, IInv, RunPart, RunRows, Kinds
  <2> QED
    BY <1>1, <2>2, <2>3 DEF Pending, FailureFree
<1>2. IInv /\ [Next]_vars =>
        \A f \in RunIds : Failed(f) =>
          \A s \in Ahead(f) : receipts[s].state = "pending" => receipts'[s] = receipts[s]
  BY <1>1
<1> QED
  BY <1>2, Invariance, PTL DEF Spec, FailedRangeHeld

(* The receipts implement the ledger: every step of the runs decides one    *)
(* receipt the way the ledger allows, or none.                              *)
THEOREM LedgerImplemented == Spec => ImplementsLedger
<1> DEFINE book == [s \in Receipts |-> Standing(s)]
<1>1. Init => Account!LedgerInit
  BY DEF Init, Account!LedgerInit, Standing, NoReceipt
<1>2. ASSUME IInv, [Next]_vars
      PROVE  [Account!LedgerNext]_book
  <2>1. CASE receipts' = receipts
    BY <2>1 DEF Standing
  <2>2. ASSUME NEW s \in Receipts,
               \A other \in Receipts \ {s} : receipts'[other] = receipts[other],
               NEW standing, Standing(s)' = standing
        PROVE  book' = [book EXCEPT ![s] = standing]
    BY <2>2 DEF Standing
  <2>3. ASSUME NEW s \in Receipts,
               \A other \in Receipts \ {s} : receipts'[other] = receipts[other],
               receipts[s].state = "none",
               receipts'[s].state \in {"pending", "blocked", "skipped"}
        PROVE  Account!Enter(s)
    <3>1. Standing(s) = "none" /\ Standing(s)' \in {"waiting", "refused", "dropped"}
      BY <2>3 DEF Standing
    <3> QED
      BY <2>2, <2>3, <3>1 DEF Account!Enter, Account!Move
  <2>4. ASSUME NEW s \in Receipts,
               \A other \in Receipts \ {s} : receipts'[other] = receipts[other],
               receipts[s].state = "blocked", receipts'[s].state = "discarded"
        PROVE  Account!Drop(s)
    BY <2>2, <2>4 DEF Standing, Account!Drop, Account!Move
  <2>5. ASSUME NEW s \in Receipts,
               \A other \in Receipts \ {s} : receipts'[other] = receipts[other],
               receipts[s].state \in {"pending", "blocked"},
               receipts'[s].state \in {"applied", "blocked", "skipped"}
        PROVE  Account!Keep(s) \/ Account!Refuse(s) \/ Account!Drop(s) \/ book' = book
    <3>1. CASE receipts'[s].state = "applied"
      BY <2>2, <2>5, <3>1 DEF Standing, Account!Keep, Account!Move
    <3>2. CASE receipts'[s].state = "skipped"
      BY <2>2, <2>5, <3>2 DEF Standing, Account!Drop, Account!Move
    <3>3. CASE receipts'[s].state = "blocked" /\ receipts[s].state = "pending"
      BY <2>2, <2>5, <3>3 DEF Standing, Account!Refuse, Account!Move
    <3>4. CASE receipts'[s].state = "blocked" /\ receipts[s].state = "blocked"
      BY <2>5, <3>4 DEF Standing
    <3> QED
      BY <2>5, <3>1, <3>2, <3>3, <3>4
  <2> QED
    BY <1>2, <2>1, <2>3, <2>4, <2>5, OneReceiptMoves DEF Account!LedgerNext
<1> QED
  BY <1>1, <1>2, Invariance, PTL DEF Spec, ImplementsLedger, Account!Ledger
=============================================================================
