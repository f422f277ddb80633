------------------------------ MODULE Scheduler ------------------------------
(* The resident tick scheduler: run_resident_tick_scheduler                  *)
(* (runtime/resident/scheduler.py), one run of it per runner, and the row of *)
(* runtime_scheduler_leases they share, written by SchedulerLeaseService     *)
(* (PostgreSQL) or SqliteSchedulerLeaseService.  The two services differ in  *)
(* nothing a reachable row can show: only release leaves a state that is not *)
(* active, and it clears the owner with it.                                  *)
(*                                                                           *)
(* A lease call is one transaction, so one step; its answer may be lost, and *)
(* when the executor could not drain, it may land after its runner is gone.  *)
(* The tick a runner starts is a task of its own (tick): cancelled, it may   *)
(* go on, and all it commits passes the before_commit hook of                *)
(* runtime/persistence/scheduler_fence.py.  Backoff is abstracted: a runner  *)
(* that recovers may try again at once or later.                             *)
EXTENDS Integers, Sequences

CONSTANTS
    Runners,     \* runs of the scheduler; the owner id of a run is its own (uuid4)
    NoOwner,     \* NULL lease_owner_id
    SharedLock,  \* TRUE: one RESIDENT_TICK_PROCESS_LOCK_PATH; FALSE: a path each
    Ttl,         \* RESIDENT_TICK_LEASE_TTL_SECONDS
    Margin,      \* resident_tick_shutdown_drain_seconds + 1
    Interval,    \* resident_tick_interval_seconds
    MaxNow,      \* bound on the clock
    MaxCommits,  \* bound on the units ticks commit
    MaxFaults    \* bounds on the calls that fail or lose their answer, on the
                 \* task.cancel() that reach a run, on the crashes, and on how
                 \* often the clock of the host is set back

ASSUME SchedulerAssumption ==
    /\ NoOwner \notin Runners
    /\ SharedLock \in BOOLEAN
    /\ {Ttl, Interval} \subseteq Nat \ {0}
    /\ Margin \in 0 .. Ttl - 1
    /\ {MaxNow, MaxCommits} \subseteq Nat
    /\ MaxFaults \in [calls : Nat, cancels : Nat, crashes : Nat, backs : Nat]

VARIABLES
    lease,    \* the row; no row is epoch 0 without an owner
    runner,   \* the runs
    tick,     \* the tick task each run started last
    flight,   \* the lease call of a run that ended before it was answered
    starts,   \* history: the windows begun
    commits,  \* history: the units committed under a fence
    grants,   \* history: the epochs acquire granted, with their owner
    faults,   \* how many faults of each kind there were
    now

vars == <<lease, runner, tick, flight, starts, commits, grants, faults, now>>

NoWindow == -1
NoCall == "none"

Fresh == [pc |-> "idle", stop |-> FALSE, epoch |-> 0, proof |-> 0, ready |-> FALSE,
          window |-> NoWindow, then |-> "none", kids |-> FALSE]

NoTick == [alive |-> FALSE, epoch |-> 0, checked |-> FALSE]

Init ==
    /\ lease = [owner |-> NoOwner, epoch |-> 0, active |-> FALSE, expiry |-> 0,
                window |-> NoWindow, finished |-> FALSE]
    /\ runner = [w \in Runners |-> Fresh]
    /\ tick = [w \in Runners |-> NoTick]
    /\ flight = [w \in Runners |-> NoCall]
    /\ starts = <<>>
    /\ commits = <<>>
    /\ grants = {}
    /\ faults = [calls |-> 0, cancels |-> 0, crashes |-> 0, backs |-> 0]
    /\ now = 0

----------------------------------------------------------------------------
(* The row.  Operators marked Variant are forms a change of the code could   *)
(* give the definition that follows them; each breaks a property of some run.*)

(* Variant: a lease is taken over in its last second. *)
FreeForEarly(w) == lease.owner \in {NoOwner, w} \/ lease.expiry <= now + 1

(* acquire does not raise SchedulerLeaseHeldError *)
FreeFor(w) == lease.owner \in {NoOwner, w} \/ lease.expiry <= now

(* Variant: a released row keeps its epoch for the next owner. *)
NextEpochOfOthers(w) ==
    IF lease.epoch = 0 \/ lease.owner \notin {NoOwner, w} THEN lease.epoch + 1
    ELSE lease.epoch

(* fencing_epoch after acquire: kept only by the owner of a lease in force *)
NextEpoch(w) ==
    IF lease.owner = w /\ lease.active /\ lease.expiry > now THEN lease.epoch
    ELSE lease.epoch + 1

Acquired(w) ==
    [lease EXCEPT !.owner = w, !.epoch = NextEpoch(w), !.active = TRUE, !.expiry = now + Ttl]

(* Variant: the fence compares the expiry and not whose lease it is. *)
AnyCurrent(w, epoch) == lease.active /\ lease.expiry > now

(* _lease_matches *)
Current(w, epoch) ==
    /\ lease.owner = w
    /\ lease.epoch = epoch
    /\ lease.active
    /\ lease.expiry > now

Refreshed == [lease EXCEPT !.expiry = now + Ttl]

(* logical_tick_window *)
Window == now - (now % Interval)

(* Variant: the window of the last tick is due again. *)
DueAgain == Window >= lease.window

(* decide_tick_window *)
Due == Window > lease.window

Begun ==
    IF Due THEN [Refreshed EXCEPT !.window = Window, !.finished = FALSE] ELSE Refreshed

(* Variant: the owner stays in the row. *)
ReleasedKeepingOwner == [lease EXCEPT !.active = FALSE, !.expiry = now]

Released == [lease EXCEPT !.owner = NoOwner, !.active = FALSE, !.expiry = now]

(* One call of the coordinator for a run: whether its transaction goes through, *)
(* and what it leaves.                                                          *)
Allowed(w, call) ==
    CASE call = "acquire"              -> FreeFor(w)
      [] call \in {"heartbeat", "begin"} -> Current(w, runner[w].epoch)
      [] call = "finish"               -> /\ Current(w, runner[w].epoch)
                                          /\ lease.window = runner[w].window

Written(w, call) ==
    CASE call = "acquire"   -> Acquired(w)
      [] call = "heartbeat" -> Refreshed
      [] call = "begin"     -> Begun
      [] call = "finish"    -> [lease EXCEPT !.finished = TRUE]

Write(w, call) ==
    /\ Allowed(w, call)
    /\ lease' = Written(w, call)
    /\ starts' = IF call = "begin" /\ Due
                 THEN Append(starts, Window) ELSE starts
    /\ grants' = IF call = "acquire"
                 THEN grants \cup {[owner |-> w, epoch |-> NextEpoch(w)]} ELSE grants

NoWrite == UNCHANGED <<lease, starts, grants>>

Fault(kind) ==
    /\ faults[kind] < MaxFaults[kind]
    /\ faults' = [faults EXCEPT ![kind] = @ + 1]

----------------------------------------------------------------------------
(* A run.                                                                    *)

(* The lease call a run is at, and what may be made of it without an answer. *)
CallOf(pc) ==
    CASE pc = "acquire" -> "acquire"
      [] pc \in {"verify", "ticking", "sleep"} -> "heartbeat"
      [] pc = "begin" -> "begin"
      [] pc = "finish" -> "finish"
      [] OTHER -> NoCall

Calling == {"acquire", "verify", "begin", "ticking", "finish", "sleep"}

(* _lease_write_deadline: heartbeat and finish_tick are sent only while the  *)
(* proof leaves the margin.                                                  *)
Budgeted(call) == call \in {"heartbeat", "finish"}
Sent(w, call) == Budgeted(call) => runner[w].proof - now > Margin

(* The next step of a run, unless it was asked to stop meanwhile. *)
Go(x, pc) == [x EXCEPT !.pc = IF x.stop THEN "leaving" ELSE pc]

(* SchedulerLeaseLostError, SchedulerLeaseHeldError, a lost connection: the   *)
(* lease is forgotten.  A busy or late write: it is kept, and verified again. *)
Dropped(x) == [Fresh EXCEPT !.stop = x.stop]

Degraded(x) == [Dropped(x) EXCEPT !.epoch = x.epoch, !.proof = x.proof]

Recover(x, how) ==
    IF how = "drop" THEN Go(Dropped(x), "acquire")
    ELSE Go(Degraded(x), IF x.epoch = 0 THEN "acquire" ELSE "verify")

(* A tick is cancelled before its run recovers. *)
Recovering(x, how) ==
    IF x.pc = "ticking" THEN [x EXCEPT !.pc = "cancelling", !.then = how] ELSE Recover(x, how)

Holding == Calling \cup {"cancelling", "leaving"}  \* inside "with lock"

Start(w) ==
    /\ runner[w].pc = "idle"
    /\ SharedLock => \A v \in Runners : runner[v].pc \notin Holding
    /\ runner' = [runner EXCEPT ![w].pc = "acquire"]
    /\ NoWrite /\ UNCHANGED <<tick, flight, commits, faults, now>>

Acquire(w) ==
    /\ runner[w].pc = "acquire"
    /\ Write(w, "acquire")
    /\ runner' = [runner EXCEPT ![w] =
                    Go([@ EXCEPT !.epoch = lease'.epoch, !.proof = lease'.expiry], "verify")]
    /\ UNCHANGED <<tick, flight, commits, faults, now>>

(* The heartbeat before a run is ready, and those of its sleep and its tick; *)
(* the result is of no use when it comes too late.                           *)
Heartbeat(w) ==
    LET pc == runner[w].pc
    IN  /\ pc \in {"verify", "ticking", "sleep"}
        /\ Sent(w, "heartbeat")
        /\ Write(w, "heartbeat")
        /\ runner' = [runner EXCEPT ![w] =
                        IF pc = "ticking" THEN [@ EXCEPT !.proof = lease'.expiry]
                        ELSE Go([@ EXCEPT !.proof = lease'.expiry, !.ready = runner[w].ready \/ ~runner[w].stop],
                                IF pc = "verify" THEN "begin" ELSE "sleep")]
        /\ UNCHANGED <<tick, flight, commits, faults, now>>

Begin(w) ==
    /\ runner[w].pc = "begin"
    /\ Write(w, "begin")
    /\ IF Due /\ ~runner[w].stop
       THEN /\ runner' = [runner EXCEPT ![w].pc = "ticking", ![w].window = Window]
            /\ tick' = [tick EXCEPT ![w] = [NoTick EXCEPT !.alive = TRUE, !.epoch = runner[w].epoch]]
       ELSE runner' = [runner EXCEPT ![w] = Go(@, "sleep")] /\ UNCHANGED tick
    /\ UNCHANGED <<flight, commits, faults, now>>

(* A heartbeat that is cut off with its tick: written or not, and not recorded. *)
LastHeartbeat(w) == NoWrite \/ (Sent(w, "heartbeat") /\ Write(w, "heartbeat"))

(* The tick is over, with a result or an exception that is recorded as one. *)
TickDone(w) ==
    /\ runner[w].pc = "ticking" /\ ~tick[w].alive
    /\ runner' = [runner EXCEPT ![w].pc = "finish"]
    /\ LastHeartbeat(w)
    /\ UNCHANGED <<tick, flight, commits, faults, now>>

Finish(w) ==
    /\ runner[w].pc = "finish"
    /\ Sent(w, "finish")
    /\ Write(w, "finish")
    /\ runner' = [runner EXCEPT ![w] = Go([@ EXCEPT !.window = NoWindow], "sleep")]
    /\ UNCHANGED <<tick, flight, commits, faults, now>>

WakeUp(w) ==
    /\ runner[w].pc = "sleep"
    /\ runner' = [runner EXCEPT ![w] = Go(@, "begin")]
    /\ NoWrite /\ UNCHANGED <<tick, flight, commits, faults, now>>

(* A call that is refused, or not sent. *)
CallRefused(w) ==
    LET call == CallOf(runner[w].pc)
    IN  /\ runner[w].pc \in Calling
        /\ ~Sent(w, call) \/ ~Allowed(w, call)
        /\ runner' = [runner EXCEPT ![w] =
                        Recovering(@, IF ~Sent(w, call) /\ @.proof > now THEN "degrade" ELSE "drop")]
        /\ NoWrite /\ UNCHANGED <<tick, flight, commits, faults, now>>

(* A call that fails: the storage is busy, its queue full, or the connection *)
(* lost; a tick may raise the same errors.                                   *)
CallFails(w, how) ==
    /\ runner[w].pc \in Calling
    /\ Sent(w, CallOf(runner[w].pc))
    /\ Fault("calls")
    /\ runner' = [runner EXCEPT ![w] = Recovering(@, how)]
    /\ NoWrite /\ UNCHANGED <<tick, flight, commits, now>>

(* A call whose transaction commits and whose answer is lost; the executor is *)
(* drained before the run goes on.  Only heartbeat and finish_tick have a     *)
(* deadline of their own, the others lose an answer with the connection.      *)
CallLost(w, how) ==
    LET call == CallOf(runner[w].pc)
    IN  /\ runner[w].pc \in Calling
        /\ Sent(w, call)
        /\ ~Budgeted(call) => how = "drop"
        /\ Fault("calls")
        /\ Write(w, call)
        /\ runner' = [runner EXCEPT ![w] = Recovering(@, how)]
        /\ UNCHANGED <<tick, flight, commits, now>>

(* The executor cannot drain: the run ends, and its call may still land, or *)
(* fail, later.  A tick has been waited for by then.                        *)
CallStuck(w) ==
    LET call == CallOf(runner[w].pc)
    IN  /\ runner[w].pc \in Calling
        /\ Sent(w, call)
        /\ ~tick[w].alive
        /\ Fault("calls")
        /\ runner' = [runner EXCEPT ![w].pc = "leaving", ![w].ready = FALSE]
        /\ flight' = [flight EXCEPT ![w] = call]
        /\ NoWrite /\ UNCHANGED <<tick, commits, now>>

Land(w) ==
    /\ flight[w] # NoCall
    /\ Write(w, flight[w]) \/ NoWrite
    /\ flight' = [flight EXCEPT ![w] = NoCall]
    /\ UNCHANGED <<runner, tick, commits, faults, now>>

(* stop_event; a tick gets the drain time and is then cancelled, and recorded *)
(* as failed if that ends it.                                                 *)
Stop(w) ==
    /\ ~runner[w].stop
    /\ runner[w].pc \in Calling \cup {"cancelling"}
    /\ runner' = [runner EXCEPT ![w].stop = TRUE]
    /\ NoWrite /\ UNCHANGED <<tick, flight, commits, faults, now>>

Leave(w) ==
    /\ runner[w].stop
    /\ runner[w].pc \in Calling \ {"ticking", "finish"}
    /\ runner' = [runner EXCEPT ![w].pc = "leaving"]
    /\ NoWrite /\ UNCHANGED <<tick, flight, commits, faults, now>>

DrainTimeout(w) ==
    /\ runner[w].pc = "ticking" /\ runner[w].stop
    /\ runner' = [runner EXCEPT ![w].pc = "cancelling", ![w].then = "finish"]
    /\ LastHeartbeat(w)
    /\ UNCHANGED <<tick, flight, commits, faults, now>>

(* Variant: the cancelled tick is not waited for. *)
SettledAnyway(w) == TRUE

Settled(w) == ~tick[w].alive

(* The cancelled tick has ended: the run goes on as it meant to. *)
Settle(w) ==
    /\ runner[w].pc = "cancelling"
    /\ Settled(w)
    /\ runner' = [runner EXCEPT ![w] =
                    CASE @.then = "finish" -> [@ EXCEPT !.pc = "finish", !.then = "none"]
                      [] @.then = "exit"   -> [@ EXCEPT !.pc = "leaving", !.then = "none"]
                      [] OTHER -> Recover(@, @.then)]
    /\ NoWrite /\ UNCHANGED <<tick, flight, commits, faults, now>>

(* The cancelled tick goes on: the run ends and remembers it (pending_tasks). *)
LeaveTick(w) ==
    /\ runner[w].pc = "cancelling" /\ tick[w].alive
    /\ runner' = [runner EXCEPT ![w].pc = "leaving", ![w].kids = TRUE]
    /\ NoWrite /\ UNCHANGED <<tick, flight, commits, faults, now>>

(* CancelledError at any await, or an error the run does not handle; a call   *)
(* it cuts off goes through or not.  In the wait for a cancelled tick it takes *)
(* the place of the error that remembers the tick; in the last wait it skips  *)
(* the release.                                                               *)
Cancel(w) ==
    LET pc == runner[w].pc
    IN  /\ pc \in Calling \cup {"cancelling", "closing"}
        /\ Fault("cancels")
        /\ runner' = [runner EXCEPT ![w] =
                        CASE pc = "ticking" -> [@ EXCEPT !.pc = "cancelling", !.then = "exit"]
                          [] pc = "closing" -> [Fresh EXCEPT !.pc = "stopped"]
                          [] OTHER          -> [@ EXCEPT !.pc = "leaving", !.then = "none"]]
        /\ \/ NoWrite
           \/ pc \in Calling /\ Sent(w, CallOf(pc)) /\ Write(w, CallOf(pc))
        /\ UNCHANGED <<tick, flight, commits, now>>

(* The end of "with lock"; readiness is withdrawn. *)
Unlock(w) ==
    /\ runner[w].pc = "leaving"
    /\ runner' = [runner EXCEPT ![w] =
                    [Fresh EXCEPT !.pc = "closing", !.epoch = runner[w].epoch,
                                  !.kids = runner[w].kids]]
    /\ NoWrite /\ UNCHANGED <<tick, flight, commits, faults, now>>

(* The finally clause: release, unless a remembered tick is still there. *)
Close(w) ==
    /\ runner[w].pc = "closing"
    /\ runner' = [runner EXCEPT ![w] = [Fresh EXCEPT !.pc = "stopped"]]
    /\ \/ /\ ~runner[w].kids \/ ~tick[w].alive
          /\ flight[w] = NoCall
          /\ runner[w].epoch # 0
          /\ lease.owner = w /\ lease.epoch = runner[w].epoch
          /\ lease' = Released
       \/ UNCHANGED lease  \* not settled, nothing to release, or the call fails
    /\ UNCHANGED <<starts, grants, tick, flight, commits, faults, now>>

(* The process dies, and with it the tick and what the executor had to do. *)
Crash(w) ==
    /\ runner[w].pc \notin {"idle", "dead"}
    /\ Fault("crashes")
    /\ runner' = [runner EXCEPT ![w] = [Fresh EXCEPT !.pc = "dead"]]
    /\ tick' = [tick EXCEPT ![w] = NoTick]
    /\ flight' = [flight EXCEPT ![w] = NoCall]
    /\ NoWrite /\ UNCHANGED <<commits, now>>

----------------------------------------------------------------------------
(* A tick.                                                                   *)

Commit(w, reserved) ==
    /\ Len(commits) < MaxCommits
    /\ commits' = Append(commits, [epoch |-> tick[w].epoch, reserved |-> reserved])

(* A unit that holds the SQLite writer (BEGIN IMMEDIATE, or a flush) when the *)
(* hook reads the lease: check and commit are one step.                       *)
CommitReserved(w) ==
    /\ tick[w].alive /\ ~tick[w].checked
    /\ Current(w, tick[w].epoch)
    /\ Commit(w, TRUE)
    /\ NoWrite /\ UNCHANGED <<runner, tick, flight, faults, now>>

(* Session.commit with nothing flushed (set_resident_slot_run_id): the hook    *)
(* reads the lease, and only then the flush asks for the writer.  On PostgreSQL *)
(* this is every unit: the hook reads a snapshot and locks nothing.             *)
CheckFence(w) ==
    /\ tick[w].alive /\ ~tick[w].checked
    /\ Len(commits) < MaxCommits
    /\ Current(w, tick[w].epoch)
    /\ tick' = [tick EXCEPT ![w].checked = TRUE]
    /\ NoWrite /\ UNCHANGED <<runner, flight, commits, faults, now>>

FlushAndCommit(w) ==
    /\ tick[w].alive /\ tick[w].checked
    /\ tick' = [tick EXCEPT ![w].checked = FALSE]
    /\ Commit(w, FALSE)
    /\ NoWrite /\ UNCHANGED <<runner, flight, faults, now>>

(* The tick returns, raises, or gives in to its cancellation. *)
EndTick(w) ==
    /\ tick[w].alive
    /\ tick' = [tick EXCEPT ![w] = NoTick]
    /\ NoWrite /\ UNCHANGED <<runner, flight, commits, faults, now>>

----------------------------------------------------------------------------
Time ==
    /\ \/ now < MaxNow /\ now' = now + 1 /\ UNCHANGED faults
       \/ now' \in 0 .. now - 1 /\ Fault("backs")
    /\ NoWrite /\ UNCHANGED <<runner, tick, flight, commits>>

Run(w) ==
    \/ Start(w) \/ Acquire(w) \/ Heartbeat(w) \/ Begin(w) \/ TickDone(w) \/ Finish(w)
    \/ WakeUp(w)
    \/ CallRefused(w)
    \/ \E how \in {"drop", "degrade"} : CallFails(w, how) \/ CallLost(w, how)
    \/ CallStuck(w) \/ Land(w)
    \/ Stop(w) \/ Leave(w) \/ DrainTimeout(w) \/ Settle(w) \/ LeaveTick(w)
    \/ Cancel(w) \/ Unlock(w) \/ Close(w) \/ Crash(w)
    \/ CommitReserved(w) \/ CheckFence(w) \/ FlushAndCommit(w) \/ EndTick(w)

Next == (\E w \in Runners : Run(w)) \/ Time

Spec == Init /\ [][Next]_vars

----------------------------------------------------------------------------
TypeOK ==
    /\ lease \in [owner : Runners \cup {NoOwner}, epoch : Nat, active : BOOLEAN,
                  expiry : Nat, window : Nat \cup {NoWindow}, finished : BOOLEAN]
    /\ lease.active <=> lease.owner # NoOwner
    /\ \A w \in Runners :
          /\ runner[w].pc \in Calling \cup {"idle", "cancelling", "leaving", "closing", "stopped", "dead"}
          /\ runner[w].ready => runner[w].epoch # 0
    /\ tick \in [Runners -> [alive : BOOLEAN, epoch : Nat, checked : BOOLEAN]]
    /\ flight \in [Runners -> {NoCall, "acquire", "heartbeat", "begin", "finish"}]
    /\ starts \in Seq(Nat)
    /\ \A i \in DOMAIN commits : commits[i] \in [epoch : Nat, reserved : BOOLEAN]
    /\ grants \subseteq [owner : Runners, epoch : Nat]
    /\ now \in 0 .. MaxNow

(* No logical window is begun twice: not after a crash, a takeover or a lost   *)
(* answer, and not when the clock of the host is set back.                     *)
WindowOnce ==
    \A i, j \in DOMAIN starts : starts[i] = starts[j] => i = j

(* A fencing epoch belongs to one owner, so that epoch and owner tell a tick   *)
(* of today's lease from one of an earlier lease.                              *)
EpochHasOneOwner ==
    \A g, h \in grants : g.epoch = h.epoch => g.owner = h.owner

(* Units that hold the writer when they check the fence are committed in the   *)
(* order of the epochs: none of an old runner after one of its successor, not  *)
(* even when the old tick outlived its cancellation.                           *)
CommitsFollowEpochs ==
    \A i, j \in DOMAIN commits :
        (i < j /\ commits[i].reserved /\ commits[j].reserved)
        => commits[i].epoch <= commits[j].epoch

(* scheduler_is_ready is never wrong about the row: the proof a run shows to   *)
(* the health checks runs out before anyone else can take the lease.           *)
ReadyMeansHeld ==
    \A w \in Runners :
        (runner[w].ready /\ runner[w].proof > now) => Current(w, runner[w].epoch)

(* "Do not finish the window or start another tick while it is alive": a run   *)
(* with a live tick waits for it or ends.                                      *)
OneTickAtATime ==
    \A w \in Runners : tick[w].alive =>
        runner[w].pc \in {"ticking", "cancelling", "leaving", "closing", "stopped"}

(* "preventing a replacement runner until its real child work has settled": a  *)
(* lease that is given back has no live tick left.                             *)
ReleasedWhenSettled ==
    lease.owner = NoOwner => \A w \in Runners : tick[w].alive => tick[w].epoch # lease.epoch
=============================================================================
