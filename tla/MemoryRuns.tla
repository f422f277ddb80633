----------------------------- MODULE MemoryRuns -----------------------------
(***************************************************************************)
(* Saving the experiences of one memory scope.  An activity commits a      *)
(* receipt with its effect; a run applies the receipts up to the cutoff it *)
(* froze, one per transaction.  The maintenance loop of a backend process  *)
(* takes the installation's one maintenance slot, then claims a run,       *)
(* prepares its next receipt outside any transaction and applies it in one *)
(* that checks the claim and what was prepared again, page after page.     *)
(* The owner cancels, resumes and closes runs and discards receipts; a     *)
(* shutdown fences every run; a process may die anywhere.                  *)
(*                                                                         *)
(* A lease token is written as the process that claimed: a process holds   *)
(* at most one claim and forgets it when its call ends, so comparing the   *)
(* uuid4 of the claim and comparing the process tell the same.  A process  *)
(* name stands for one life of a backend (host, boot, pid, start time).    *)
(***************************************************************************)
EXTENDS Integers, FiniteSets, FiniteSetsExt

CONSTANTS
  Processes,     \* lives of backend processes
  MaxReceipts,   \* receipts the scope may get
  MaxRuns,       \* runs that may be requested
  MaxStale,      \* preparations that may go stale in one claim: 3
  MaxRounds,     \* storage rounds of one run before it is held: 3
  MaxEvents,     \* bound on commands, failures and crashes, together
  None           \* no process

ASSUME NoneAssumption == None \notin Processes
ASSUME BoundsAssumption ==
  /\ {MaxReceipts, MaxRuns, MaxStale, MaxRounds} \subseteq Nat \ {0}
  /\ MaxEvents \in Nat

VARIABLES
  scope,      \* the memory setting: whether it is on, and its version
  receipts,   \* receipt rows by sequence
  memories,   \* memory items made of each receipt
  runs,       \* run rows, numbered in the order they were created
  slot,       \* the process recorded in the maintenance slot, or None
  procs,      \* the processes: their life and where their loop stands
  events      \* commands, failures and crashes so far

vars == <<scope, receipts, memories, runs, slot, procs, events>>

Receipts == 1..MaxReceipts
RunIds == 1..MaxRuns

ReceiptStates == {"none", "pending", "blocked", "skipped", "applied", "discarded"}
RunStates == {"none", "pending", "running", "deferred", "completed", "error"}
Kinds == {"pending_apply", "blocked_recheck"}
Errors == {"none", "cancelled", "failed", "closed"}
Lives == {"new", "up", "closing", "fenced", "gone"}
Phases == {"idle", "selected", "turn", "claimed", "prepared"}

ReceiptRows == [state : ReceiptStates, version : Nat, scope : Nat]
RunRows == [state : RunStates, kind : Kinds, target : Receipts \cup {0},
            cutoff : Receipts \cup {0}, late : SUBSET Receipts, cursor : Receipts \cup {0},
            token : Processes \cup {None}, lease : {"none", "live", "over"},
            error : Errors, rounds : 0..MaxRounds]
ProcRows == [life : Lives, phase : Phases, run : RunIds \cup {0},
             page : Receipts \cup {0}, seen : ReceiptRows, stale : 0..MaxStale,
             cancelled : BOOLEAN]

NoReceipt == [state |-> "none", version |-> 0, scope |-> 0]
NoRun == [state |-> "none", kind |-> "pending_apply", target |-> 0, cutoff |-> 0, late |-> {},
          cursor |-> 0, token |-> None, lease |-> "none", error |-> "none", rounds |-> 0]
Asleep == [life |-> "new", phase |-> "idle", run |-> 0, page |-> 0,
           seen |-> NoReceipt, stale |-> 0, cancelled |-> FALSE]

Init ==
  /\ scope = [on |-> TRUE, version |-> 1]
  /\ receipts = [s \in Receipts |-> NoReceipt]
  /\ memories = [s \in Receipts |-> 0]
  /\ runs = [r \in RunIds |-> NoRun]
  /\ slot = None
  /\ procs = [p \in Processes |-> Asleep]
  /\ events = 0

Happens ==
  /\ events < MaxEvents
  /\ events' = events + 1

-----------------------------------------------------------------------------
(* Receipts and the runs that answer for them. *)

Active(r) == runs[r].state \in {"pending", "running", "deferred"}

(* The part of its frozen range a run has not reached. *)
Ahead(r) == {s \in Receipts : runs[r].cursor < s /\ s <= runs[r].cutoff}

(* A failed run keeps its part: nobody else applies it.  A cancelled one   *)
(* gives it back.                                                          *)
Failed(r) == runs[r].state = "error" /\ runs[r].error # "cancelled"
FailureFree(s, own) == \A f \in RunIds \ {own} : Failed(f) => s \notin Ahead(f)

Wanted(kind) == IF kind = "blocked_recheck" THEN "blocked" ELSE "pending"

(* Variants: the part of a failed run is taken too, a decided receipt is    *)
(* taken again.                                                            *)
PendingOverlaps(r) ==
  {s \in Ahead(r) \ runs[r].late :
     receipts[s].state = Wanted(runs[r].kind) /\ runs[r].target \in {0, s}}
PendingAgain(r) == {s \in Ahead(r) : runs[r].target \in {0, s} /\ receipts[s].state # "none"}

(* What a run may still apply: of the frozen range, not what was captured   *)
(* after its schedule was due (cutoff_at).                                 *)
Pending(r) ==
  {s \in Ahead(r) \ runs[r].late :
     /\ receipts[s].state = Wanted(runs[r].kind)
     /\ runs[r].target \in {0, s}
     /\ runs[r].kind = "pending_apply" => FailureFree(s, r)}

(* The next receipt, 0 when there is none. *)
NextOf(S) == IF S = {} THEN 0 ELSE Min(S)

(* An activity commits its effect and its receipt together.  The snapshot  *)
(* it took of the scope may be older than the scope is now; its            *)
(* description may be unusable, or tell of no action.                      *)
Admit(s) ==
  /\ receipts[s].state = "none"
  /\ \A earlier \in 1..(s - 1) : receipts[earlier].state # "none"
  /\ \E version \in 1..scope.version :
       \E state \in {"skipped"} \cup (IF scope.on /\ version = scope.version
                                       THEN {"pending", "blocked"} ELSE {}) :
         receipts' = [receipts EXCEPT ![s] = [state |-> state, version |-> 1, scope |-> version]]
  /\ UNCHANGED <<scope, memories, runs, slot, procs, events>>

(* Every change of the setting opens a new version of the scope. *)
Switch ==
  /\ Happens
  /\ \E on \in BOOLEAN : scope' = [on |-> on, version |-> scope.version + 1]
  /\ UNCHANGED <<receipts, memories, runs, slot, procs>>

(* Saving now, a due schedule, a shutdown: freeze a range and queue a run, *)
(* unless a run of the scope is active, which then answers the request.    *)
(* A schedule stops at the last receipt captured when it was due, and      *)
(* leaves out the late ones before it: the wall clock gives captured_at,   *)
(* the table the sequence, and admissions of several transactions or a     *)
(* clock set back let them disagree, here in any way.  (Only pending ones  *)
(* need telling apart: the others never are again.)  A recheck takes the   *)
(* blocked receipts, or one of them.                                       *)
Candidates(kind, target) ==
  {s \in Receipts : /\ receipts[s].state = Wanted(kind)
                    /\ target \in {0, s}
                    /\ kind = "pending_apply" => FailureFree(s, 0)}

RequestRun(r, kind, target, cutoff, late) ==
  /\ runs[r].state = "none"
  /\ \A earlier \in 1..(r - 1) : runs[earlier].state # "none"
  /\ scope.on
  /\ ~ \E a \in RunIds : Active(a)
  /\ target # 0 => kind = "blocked_recheck"
  /\ cutoff \in Candidates(kind, target)
  /\ \A s \in late : s < cutoff /\ receipts[s].state = "pending"
  /\ kind = "blocked_recheck" => late = {} /\ cutoff = Max(Candidates(kind, target))
  /\ runs' = [runs EXCEPT ![r] = [NoRun EXCEPT !.state = "pending", !.kind = kind,
                                               !.target = target, !.cutoff = cutoff,
                                               !.late = late]]
  /\ UNCHANGED <<scope, receipts, memories, slot, procs, events>>

-----------------------------------------------------------------------------
(* The owner's commands. *)

Order(r, change) ==
  /\ runs' = [runs EXCEPT ![r] = change]
  /\ UNCHANGED <<scope, receipts, memories, slot, procs>>

Stopped(row, error) ==
  [row EXCEPT !.state = "error", !.error = error, !.token = None, !.lease = "none"]

CancelRun(r) == Active(r) /\ Happens /\ Order(r, Stopped(runs[r], "cancelled"))

CloseRun(r) ==
  /\ runs[r].state = "error" /\ runs[r].error = "failed"
  /\ Order(r, Stopped(runs[r], "closed"))
  /\ UNCHANGED events

(* Resuming does not look whether another run became active meanwhile. *)
ResumeRun(r) ==
  /\ runs[r].state = "error" /\ runs[r].error \in {"failed", "cancelled"}
  /\ Order(r, [runs[r] EXCEPT !.state = "deferred", !.error = "none", !.rounds = 0,
                              !.token = None, !.lease = "none"])
  /\ UNCHANGED events

(* Variant: any receipt may be given up, at any time. *)
DiscardAny(s) ==
  /\ Happens
  /\ receipts[s].state # "none"
  /\ receipts' = [receipts EXCEPT ![s].state = "discarded", ![s].version = @ + 1]
  /\ UNCHANGED <<scope, memories, runs, slot, procs>>

(* A blocked receipt may be given up while no run of the scope is at work. *)
Discard(s) ==
  /\ Happens
  /\ receipts[s].state = "blocked" /\ memories[s] = 0
  /\ ~ \E r \in RunIds : runs[r].state = "running" /\ runs[r].lease = "live"
  /\ receipts' = [receipts EXCEPT ![s].state = "discarded", ![s].version = @ + 1]
  /\ UNCHANGED <<scope, memories, runs, slot, procs>>

-----------------------------------------------------------------------------
(* The maintenance slot and the loop around it. *)

Running(p) == procs[p].life \in {"up", "closing", "fenced"}
Working(p) == procs[p].life \in {"up", "closing"}
InTurn(p) == procs[p].phase \in {"turn", "claimed", "prepared"}

(* Variant: an owner that is closing counts as gone. *)
InactiveWhenClosing(owner) == procs[owner].life # "up"

(* Variant: a lease that ran out is not taken over. *)
ClaimableOnce(r) == Active(r) /\ runs[r].lease = "none"

(* The owner of the slot is known to have stopped. *)
ProvenInactive(owner) == ~Running(owner)
SlotFree == slot # None => ProvenInactive(slot)

Claimable(r) == Active(r) /\ runs[r].lease # "live"

(* A backend starts.  There is one per installation; a second one beside   *)
(* it counts as an event.                                                  *)
Start(p) ==
  /\ procs[p].life = "new"
  /\ IF \E q \in Processes : Running(q) THEN Happens ELSE UNCHANGED events
  /\ procs' = [procs EXCEPT ![p].life = "up"]
  /\ UNCHANGED <<scope, receipts, memories, runs, slot>>

(* candidate: the oldest run that is not leased. *)
Select(p) ==
  /\ Working(p) /\ procs[p].phase = "idle"
  /\ \E r \in RunIds :
       /\ Claimable(r)
       /\ \A older \in 1..(r - 1) : ~Claimable(older)
       /\ procs' = [procs EXCEPT ![p].phase = "selected", ![p].run = r]
  /\ UNCHANGED <<scope, receipts, memories, runs, slot, events>>

Leave(p) == [procs[p] EXCEPT !.phase = "idle", !.run = 0, !.page = 0,
                             !.seen = NoReceipt, !.stale = 0, !.cancelled = FALSE]

Acquire(p) ==
  /\ Working(p) /\ procs[p].phase = "selected"
  /\ IF SlotFree
       THEN slot' = p /\ procs' = [procs EXCEPT ![p].phase = "turn"]
       ELSE slot' = slot /\ procs' = [procs EXCEPT ![p] = Leave(p)]
  /\ UNCHANGED <<scope, receipts, memories, runs, events>>

(* One call of the turn: claim, then prepare and apply one page. *)
Claim(p) ==
  /\ Working(p) /\ procs[p].phase = "turn"
  /\ ~procs[p].cancelled
  /\ Claimable(procs[p].run)
  /\ runs' = [runs EXCEPT ![procs[p].run] =
                [@ EXCEPT !.state = "running", !.token = p, !.lease = "live"]]
  /\ procs' = [procs EXCEPT ![p].phase = "claimed"]
  /\ UNCHANGED <<scope, receipts, memories, slot, events>>

(* The turn ends: the run is done or taken, or the loop is being stopped.  *)
(* The slot is given back if it is still ours.                             *)
TurnOver(p) == procs[p].cancelled \/ ~Claimable(procs[p].run)

GiveBack(p) ==
  /\ Running(p) /\ procs[p].phase = "turn"
  /\ slot' = IF slot = p THEN None ELSE slot
  /\ procs' = [procs EXCEPT ![p] = Leave(p)]
  /\ UNCHANGED <<scope, receipts, memories, runs>>

Release(p) == GiveBack(p) /\ TurnOver(p) /\ UNCHANGED events

(* A chat response in progress takes precedence over the next page, unless *)
(* the process is closing.                                                 *)
Yield(p) == procs[p].life # "closing" /\ Happens /\ GiveBack(p)

(* The transaction that gives the slot back runs out of retries: the turn  *)
(* is over and the row still names this process.                           *)
ReleaseFails(p) ==
  /\ Running(p) /\ procs[p].phase = "turn"
  /\ TurnOver(p)
  /\ Happens
  /\ procs' = [procs EXCEPT ![p] = Leave(p)]
  /\ UNCHANGED <<scope, receipts, memories, runs, slot>>

-----------------------------------------------------------------------------
(* Applying a page. *)

(* Variant: a claim stands although its lease ran out. *)
HoldsForEver(p, r) == runs[r].state = "running" /\ runs[r].token = p

(* The claim still stands. *)
Holds(p, r) == runs[r].state = "running" /\ runs[r].token = p /\ runs[r].lease = "live"

(* The worker marks the run only while the row has its token: not after a  *)
(* cancellation, a fence or another claim.                                 *)
Mark(p, state, error, lease) ==
  LET r == procs[p].run
  IN  runs' = IF runs[r].token # p THEN runs
              ELSE [runs EXCEPT ![r] = [@ EXCEPT !.state = state, !.error = error,
                                                 !.token = None, !.lease = lease]]

EndCall(p) == [procs[p] EXCEPT !.phase = "turn", !.page = 0, !.seen = NoReceipt, !.stale = 0]

AtWork(p) == Running(p) /\ procs[p].phase \in {"claimed", "prepared"}

(* A lost claim is reported as a conflict: if only the clock ended the     *)
(* lease, the run fails and waits for its owner.                           *)
LoseClaim(p) ==
  /\ AtWork(p)
  /\ ~Holds(p, procs[p].run)
  /\ Mark(p, "error", "failed", "none")
  /\ procs' = [procs EXCEPT ![p] = EndCall(p)]
  /\ UNCHANGED <<scope, receipts, memories, slot, events>>

(* A full store, or a failure nobody expected: the page is rolled back. *)
Fail(p) ==
  /\ AtWork(p)
  /\ Happens
  /\ Mark(p, "error", "failed", "none")
  /\ procs' = [procs EXCEPT ![p] = EndCall(p)]
  /\ UNCHANGED <<scope, receipts, memories, slot>>

(* Contention, or the third stale page: wait and come back, for at most    *)
(* MaxRounds rounds or two minutes.                                        *)
Defer(p) ==
  LET r == procs[p].run
      rounds == runs[r].rounds + 1
  IN  /\ \E late \in BOOLEAN :
           runs' = IF runs[r].token # p THEN runs
                   ELSE [runs EXCEPT ![r] =
                          IF late \/ rounds >= MaxRounds
                            THEN [Stopped(@, "failed") EXCEPT !.rounds = rounds]
                            ELSE [@ EXCEPT !.state = "deferred", !.token = None,
                                           !.lease = "live", !.rounds = rounds]]
      /\ procs' = [procs EXCEPT ![p] = EndCall(p)]
      /\ UNCHANGED <<scope, receipts, memories, slot>>

Busy(p) ==
  /\ AtWork(p)
  /\ Happens
  /\ Defer(p)

(* The contention also keeps the round from being recorded: the lease ends *)
(* by itself.                                                              *)
BusyUnrecorded(p) ==
  /\ AtWork(p)
  /\ Happens
  /\ procs' = [procs EXCEPT ![p] = EndCall(p)]
  /\ UNCHANGED <<scope, receipts, memories, runs, slot>>

(* Read the next receipt, with everything it refers to, without a lock. *)
Prepare(p) ==
  LET r == procs[p].run
      s == NextOf(Pending(r))
  IN  /\ Running(p) /\ procs[p].phase = "claimed"
      /\ Holds(p, r)
      /\ procs' = [procs EXCEPT ![p] = [@ EXCEPT !.phase = "prepared", !.page = s,
                     !.seen = IF s = 0 THEN NoReceipt ELSE receipts[s]]]
      /\ UNCHANGED <<scope, receipts, memories, runs, slot, events>>

(* What was prepared is still what the rows say, and the next receipt, if  *)
(* there is one, is the prepared one.                                      *)
Fresh(p) ==
  LET s == procs[p].page
  IN  /\ s # 0 => receipts[s] = procs[p].seen
      /\ NextOf(Pending(procs[p].run)) \in {0, s}

(* How a receipt may be decided: a second memory is never made, nor one of *)
(* a closed activation.  What a recheck does not apply stays blocked; a    *)
(* receipt whose activation or scope is gone is dropped the first time.    *)
Decisions(kind, s) ==
  LET free == memories[s] = 0
      open == scope.on /\ scope.version = receipts[s].scope
  IN  {"blocked"} \cup {d \in {"applied"} : free /\ open}
                  \cup {d \in {"skipped"} : free /\ kind = "pending_apply"}

(* Variants: a run ends with its first page, the cursor passes one receipt  *)
(* more than the page had.                                                 *)
AfterOnlyPage(r, s) ==
  [runs[r] EXCEPT !.cursor = IF s = 0 THEN @ ELSE s, !.token = None, !.lease = "none",
                  !.state = "completed"]
AfterNextPage(r, s) ==
  [runs[r] EXCEPT !.cursor = IF s = 0 THEN @ ELSE s + 1, !.token = None, !.lease = "none",
                  !.state = IF {n \in Pending(r) : n > s} = {} THEN "completed" ELSE "deferred"]

(* The run after its page: the cursor moves, the claim is given up, and    *)
(* the run is done when nothing is left of its range.                      *)
AfterPage(r, s) ==
  LET rest == {next \in Pending(r) : next > s}
  IN  [runs[r] EXCEPT !.cursor = IF s = 0 THEN @ ELSE s,
                      !.token = None, !.lease = "none",
                      !.state = IF rest = {} THEN "completed" ELSE "deferred"]

Apply(p) ==
  LET r == procs[p].run
      s == NextOf(Pending(r))
  IN  /\ Running(p) /\ procs[p].phase = "prepared"
      /\ Holds(p, r)
      /\ Fresh(p)
      /\ IF s = 0 THEN UNCHANGED <<receipts, memories>>
         ELSE \E state \in Decisions(runs[r].kind, s) :
                /\ receipts' = [receipts EXCEPT ![s].state = state, ![s].version = @ + 1]
                /\ memories' = [memories EXCEPT ![s] = IF state = "applied" THEN @ + 1 ELSE @]
      /\ runs' = [runs EXCEPT ![r] = AfterPage(r, s)]
      /\ procs' = [procs EXCEPT ![p] = EndCall(p)]
      /\ UNCHANGED <<scope, slot, events>>

(* A stale page is prepared again, MaxStale times. *)
Stale(p) ==
  /\ Running(p) /\ procs[p].phase = "prepared"
  /\ Holds(p, procs[p].run)
  /\ ~Fresh(p)
  /\ IF procs[p].stale + 1 >= MaxStale
       THEN Defer(p)
       ELSE /\ procs' = [procs EXCEPT ![p] = [@ EXCEPT !.phase = "claimed", !.page = 0,
                                              !.seen = NoReceipt, !.stale = procs[p].stale + 1]]
            /\ UNCHANGED <<scope, receipts, memories, runs, slot>>
  /\ UNCHANGED events

-----------------------------------------------------------------------------
(* Shutdown, crashes, time. *)

(* The loop's task is cancelled.  A call in progress is finished first; an *)
(* acquisition in progress takes the slot and nobody hears of it.          *)
Quit(p) ==
  /\ procs[p].life = "up"
  /\ Happens
  /\ \/ /\ procs[p].phase = "selected" /\ SlotFree
        /\ slot' = p
     \/ slot' = slot
  /\ procs' = [procs EXCEPT ![p] =
       [(IF InTurn(p) THEN procs[p] ELSE Leave(p))
          EXCEPT !.life = "closing", !.cancelled = InTurn(p)]]
  /\ UNCHANGED <<scope, receipts, memories, runs>>

(* Every run that is being applied, by any process, loses its claim.  A    *)
(* fence that fails does not stop the shutdown: the leases run out.        *)
Fence(p) ==
  /\ procs[p].life = "closing"
  /\ procs[p].phase \in {"idle", "turn"}
  /\ \/ /\ runs' = [r \in RunIds |->
             IF runs[r].state # "running" THEN runs[r]
             ELSE [runs[r] EXCEPT !.state = "deferred", !.token = None, !.lease = "none"]]
        /\ UNCHANGED events
     \/ Happens /\ UNCHANGED runs
  /\ procs' = [procs EXCEPT ![p].life = "fenced", ![p].cancelled = (@ \/ InTurn(p))]
  /\ UNCHANGED <<scope, receipts, memories, slot>>

End(p) == procs' = [procs EXCEPT ![p] = [Leave(p) EXCEPT !.life = "gone"]]

Exit(p) ==
  /\ procs[p].life = "fenced"
  /\ End(p)
  /\ UNCHANGED <<scope, receipts, memories, runs, slot, events>>

Crash(p) ==
  /\ Running(p)
  /\ Happens
  /\ End(p)
  /\ UNCHANGED <<scope, receipts, memories, runs, slot>>

(* Thirty seconds after a claim, or the delay after a storage round.  A    *)
(* worker that is still at its page then was slow.                         *)
Expire(r) ==
  /\ runs[r].lease = "live"
  /\ IF \E p \in Processes : AtWork(p) /\ procs[p].run = r /\ Holds(p, r)
       THEN Happens ELSE UNCHANGED events
  /\ runs' = [runs EXCEPT ![r].lease = "over"]
  /\ UNCHANGED <<scope, receipts, memories, slot, procs>>

-----------------------------------------------------------------------------
Request == \E r \in RunIds, kind \in Kinds, target \in Receipts \cup {0},
              cutoff \in Receipts, late \in SUBSET Receipts :
             RequestRun(r, kind, target, cutoff, late)
Owner == \/ Switch
         \/ \E r \in RunIds : CancelRun(r) \/ CloseRun(r) \/ ResumeRun(r)
         \/ \E s \in Receipts : Discard(s)
Turn(p) == \/ Select(p) \/ Acquire(p) \/ Claim(p) \/ Release(p)
           \/ Prepare(p) \/ Apply(p) \/ Stale(p) \/ LoseClaim(p)
Fault(p) == Fail(p) \/ Busy(p) \/ BusyUnrecorded(p) \/ ReleaseFails(p) \/ Yield(p) \/ Crash(p)

Next ==
  \/ \E s \in Receipts : Admit(s)
  \/ Request
  \/ Owner
  \/ \E p \in Processes : Start(p) \/ Turn(p) \/ Fault(p) \/ Quit(p) \/ Fence(p) \/ Exit(p)
  \/ \E r \in RunIds : Expire(r)

Spec == Init /\ [][Next]_vars

(* The loop of a running process goes on, a shutdown fences and ends, a    *)
(* backend is started again and time passes.                               *)
Fairness ==
  /\ \A p \in Processes : /\ WF_vars(Start(p)) /\ WF_vars(Turn(p))
                          /\ WF_vars(Fence(p)) /\ WF_vars(Exit(p))
  /\ \A r \in RunIds : WF_vars(Expire(r))

FairSpec == Spec /\ Fairness

(* A shutdown makes eight turns at most before it fences: it gets there    *)
(* also when its turns come to nothing.                                    *)
ShutdownSpec == FairSpec /\ \A p \in Processes : SF_vars(Fence(p))
-----------------------------------------------------------------------------
(* Every variable keeps its shape. *)
TypeOK ==
  /\ scope \in [on : BOOLEAN, version : 1..(MaxEvents + 1)]
  /\ receipts \in [Receipts -> ReceiptRows]
  /\ memories \in [Receipts -> Nat]
  /\ runs \in [RunIds -> RunRows]
  /\ slot \in Processes \cup {None}
  /\ procs \in [Processes -> ProcRows]
  /\ events \in 0..MaxEvents

(* A receipt has one memory once it is applied, and none otherwise,        *)
(* whatever runs overlap on it and however their claims end.               *)
OneMemoryEach ==
  \A s \in Receipts : memories[s] = IF receipts[s].state = "applied" THEN 1 ELSE 0

(* Two processes are never in a maintenance turn together, though owners   *)
(* die with the slot and lose it.                                          *)
OneTurn ==
  \A p, q \in Processes :
    Running(p) /\ InTurn(p) /\ Running(q) /\ InTurn(q) => p = q

(* A run that was cancelled, failed, fenced or claimed by another moves no *)
(* further on what an earlier claim prepared: only a standing claim moves  *)
(* the cursor, and only the claimant's process can use it.                 *)
LateResultsRefused ==
  [][\A r \in RunIds :
       runs'[r].cursor # runs[r].cursor =>
         /\ runs[r].state = "running" /\ runs[r].lease = "live"
         /\ procs[runs[r].token].run = r /\ procs[runs[r].token].phase = "prepared"]_vars

(* A run passes over a pending receipt of its range, or completes short of *)
(* it, only where a failed run holds the receipt at that moment or it came *)
(* too late for the run's schedule: a page decides the first receipt left, *)
(* and the last page leaves none.                                          *)
PassedOver(r, s) ==
  runs[r].state # "completed" /\ (runs'[r].cursor >= s \/ runs'[r].state = "completed")
NothingLeftBehind ==
  [][\A r \in RunIds : runs[r].kind = "pending_apply" =>
       \A s \in Ahead(r) \ runs[r].late :
         PassedOver(r, s) /\ receipts[s].state = "pending" /\ receipts'[s].state = "pending" =>
           \E f \in RunIds \ {r} : Failed(f) /\ s \in Ahead(f)]_vars

(* A receipt that a failed run still has ahead is applied by no other run  *)
(* until its owner resumes that run.                                       *)
FailedRangeHeld ==
  [][\A f \in RunIds : Failed(f) =>
       \A s \in Ahead(f) : receipts[s].state = "pending" => receipts'[s] = receipts[s]]_vars

(* Every run is completed or stopped in the end, unless its owner's        *)
(* process holds the slot outside any turn, or no backend is left.         *)
Wedged == slot # None /\ Running(slot) /\ ~InTurn(slot)
NobodyLeft == \A p \in Processes : procs[p].life = "gone"
RunsSettle == \A r \in RunIds : Active(r) ~> (~Active(r) \/ Wedged \/ NobodyLeft)

(* The turn is given back when the work is done, fails or is put off.      *)
TurnReturned ==
  \A p \in Processes : (slot = p /\ Running(p)) ~> (slot # p \/ ~Running(p))

(* The receipts live as the ledger says. *)
Standing(s) ==
  [none |-> "none", pending |-> "waiting", blocked |-> "refused", applied |-> "kept",
   skipped |-> "dropped", discarded |-> "dropped"][receipts[s].state]

Account == INSTANCE MemoryLedger WITH ledger <- [s \in Receipts |-> Standing(s)]
ImplementsLedger == Account!Ledger
=============================================================================
