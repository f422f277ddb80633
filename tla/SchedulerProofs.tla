---------------------------- MODULE SchedulerProofs ----------------------------
(* Proofs about Scheduler for any runs, lease terms, windows and faults.     *)
(* What happens to the lease row is one of three things (LeaseSteps): a call *)
(* goes through, a run releases its lease, or nothing.  The histories follow *)
(* from the row alone: windows begun are behind the window of the row,       *)
(* epochs granted and committed are not beyond its epoch.                    *)
EXTENDS Scheduler, SequenceTheorems, TLAPS

Calls == {"acquire", "heartbeat", "begin", "finish"}

Places == Calling \cup {"idle", "cancelling", "leaving", "closing", "stopped", "dead"}

Runs ==
    {x \in [pc : Places, stop : BOOLEAN, epoch : Nat, proof : Nat, ready : BOOLEAN,
            window : Nat \cup {NoWindow},
            then : {"none", "finish", "exit", "drop", "degrade"}, kids : BOOLEAN] :
        x.ready => x.epoch # 0}

Ticks == [alive : BOOLEAN, epoch : Nat, checked : BOOLEAN]

RunPart ==
    /\ runner \in [Runners -> Runs]
    /\ tick \in [Runners -> Ticks]
    /\ flight \in [Runners -> Calls \cup {NoCall}]

Rows ==
    [owner : Runners \cup {NoOwner}, epoch : Nat, active : BOOLEAN,
     expiry : Nat, window : Nat \cup {NoWindow}, finished : BOOLEAN]

RowPart ==
    /\ lease \in Rows
    /\ lease.active <=> lease.owner # NoOwner
    /\ lease.active => lease.epoch # 0
    /\ now \in 0 .. MaxNow

(* The windows begun are numbered upwards, up to the window of the row. *)
WindowPart ==
    /\ starts \in Seq(Nat)
    /\ \A i \in DOMAIN starts : starts[i] <= lease.window
    /\ \A i, j \in DOMAIN starts : i < j => starts[i] < starts[j]

(* No epoch beyond that of the row was granted; that of an active row to its *)
(* owner.                                                                    *)
GrantPart ==
    /\ grants \subseteq [owner : Runners, epoch : Nat]
    /\ \A g \in grants : g.epoch <= lease.epoch
    /\ lease.active => \A g \in grants : g.epoch = lease.epoch => g.owner = lease.owner
    /\ EpochHasOneOwner

Units == [epoch : Nat, reserved : BOOLEAN]

CommitPart ==
    /\ commits \in Seq(Units)
    /\ \A i \in DOMAIN commits : commits[i].reserved => commits[i].epoch <= lease.epoch
    /\ CommitsFollowEpochs

IInv == RunPart /\ RowPart /\ WindowPart /\ GrantPart /\ CommitPart

----------------------------------------------------------------------------
(* A call that is sent by a run is one of the four. *)
LEMMA CallTypes ==
    /\ \A pc \in Calling : CallOf(pc) \in Calls
    /\ "ticking" \in Calling /\ CallOf("ticking") = "heartbeat"
BY DEF Calling, CallOf, Calls

LEMMA WindowIsNat ==
    ASSUME RowPart
    PROVE  Window \in Nat
<1>1. Interval \in Nat \ {0} /\ now \in Nat
  BY SchedulerAssumption DEF RowPart
<1>2. now % Interval \in 0 .. Interval - 1 /\ now - (now % Interval) \in Nat
  BY <1>1
<1> QED
  BY <1>2 DEF Window

(* What a run may do to the row. *)
Releases(w) ==
    /\ lease.owner = w /\ lease' = Released
    /\ UNCHANGED <<starts, grants>>

LEMMA LeaseSteps ==
    ASSUME RunPart, NEW w \in Runners, Run(w)
    PROVE  NoWrite \/ Releases(w) \/ \E call \in Calls : Write(w, call)
<1>1. CASE Start(w) \/ TickDone(w) \/ WakeUp(w) \/ CallRefused(w) \/ CallStuck(w) \/ Stop(w)
           \/ Leave(w) \/ DrainTimeout(w) \/ Settle(w) \/ LeaveTick(w) \/ Unlock(w) \/ Crash(w)
           \/ CommitReserved(w) \/ CheckFence(w) \/ FlushAndCommit(w) \/ EndTick(w)
  BY <1>1 DEF Start, TickDone, LastHeartbeat, WakeUp, CallRefused, CallStuck, Stop, Leave,
              DrainTimeout, Settle, LeaveTick, Unlock, Crash, CommitReserved, CheckFence,
              FlushAndCommit, EndTick, Calls
<1>2. CASE Acquire(w) \/ Heartbeat(w) \/ Begin(w) \/ Finish(w)
  BY <1>2 DEF Acquire, Heartbeat, Begin, Finish, Calls
<1>3. CASE \E how \in {"drop", "degrade"} : CallFails(w, how) \/ CallLost(w, how)
  BY <1>3, CallTypes DEF CallFails, CallLost
<1>4. CASE Land(w)
  BY <1>4 DEF Land, RunPart
<1>5. CASE Cancel(w)
  BY <1>5, CallTypes DEF Cancel
<1>6. CASE Close(w)
  BY <1>6 DEF Close, Releases, NoWrite
<1> QED
  BY <1>1, <1>2, <1>3, <1>4, <1>5, <1>6 DEF Run

(* What each form of the row leaves of another. *)
LEMMA RowForms ==
    ASSUME NEW r \in Rows, NEW w \in Runners, NEW e \in Nat, NEW t \in Nat, NEW v \in Nat
    PROVE  /\ [r EXCEPT !.owner = w, !.epoch = e, !.active = TRUE, !.expiry = t] \in Rows
           /\ [r EXCEPT !.expiry = t] \in Rows
           /\ [[r EXCEPT !.expiry = t] EXCEPT !.window = v, !.finished = FALSE] \in Rows
           /\ [r EXCEPT !.finished = TRUE] \in Rows
           /\ [r EXCEPT !.owner = NoOwner, !.active = FALSE, !.expiry = t] \in Rows
BY DEF Rows

(* The row after a call: its epoch and its window never go back. *)
LEMMA WriteRow ==
    ASSUME RowPart, NEW w \in Runners, NEW call \in Calls, Write(w, call)
    PROVE  /\ lease' \in Rows
           /\ lease'.active /\ lease'.owner = w /\ lease'.epoch # 0
           /\ lease'.epoch >= lease.epoch
           /\ call # "acquire" => lease.active /\ lease.owner = w /\ lease'.epoch = lease.epoch
           /\ call = "acquire" => lease'.epoch = NextEpoch(w)
           /\ lease'.window = IF call = "begin" /\ Due THEN Window ELSE lease.window
<1>1. now + Ttl \in Nat /\ now \in Nat
  BY SchedulerAssumption DEF RowPart
<1>2. lease \in Rows /\ lease.epoch \in Nat
  BY DEF RowPart, Rows
<1>3. lease.active => lease.epoch # 0
  BY DEF RowPart
<1>4. CASE call = "acquire"
  <2>1. lease' = [lease EXCEPT !.owner = w, !.epoch = NextEpoch(w), !.active = TRUE, !.expiry = now + Ttl]
    BY <1>4 DEF Write, Written, Acquired
  <2>2. NextEpoch(w) \in Nat /\ NextEpoch(w) >= lease.epoch /\ NextEpoch(w) # 0
    BY <1>2, <1>3 DEF NextEpoch
  <2>3. lease' \in Rows
    BY <1>1, <1>2, <2>1, <2>2, RowForms
  <2>4. lease'.active /\ lease'.owner = w /\ lease'.epoch = NextEpoch(w) /\ lease'.window = lease.window
    BY <1>2, <2>1 DEF Rows
  <2> QED
    BY <1>4, <2>2, <2>3, <2>4
<1>5. CASE call # "acquire"
  <2>1. call \in {"heartbeat", "begin", "finish"}
    BY <1>5 DEF Calls
  <2>2. lease.active /\ lease.owner = w
    BY <2>1 DEF Write, Allowed, Current
  <2>3. /\ lease' \in Rows
        /\ lease'.owner = lease.owner /\ lease'.active = lease.active /\ lease'.epoch = lease.epoch
        /\ lease'.window = IF call = "begin" /\ Due THEN Window ELSE lease.window
    <3>1. CASE call = "heartbeat"
      <4>1. lease' = [lease EXCEPT !.expiry = now + Ttl]
        BY <3>1 DEF Write, Written, Refreshed
      <4>2. lease' \in Rows
        BY <1>1, <1>2, <4>1, RowForms
      <4>3. /\ lease'.owner = lease.owner /\ lease'.active = lease.active
            /\ lease'.epoch = lease.epoch /\ lease'.window = lease.window
        BY <1>2, <4>1 DEF Rows
      <4> QED
        BY <3>1, <4>2, <4>3
    <3>2. CASE call = "begin" /\ ~Due
      <4>1. lease' = [lease EXCEPT !.expiry = now + Ttl]
        BY <3>2 DEF Write, Written, Begun, Refreshed
      <4>2. lease' \in Rows
        BY <1>1, <1>2, <4>1, RowForms
      <4>3. /\ lease'.owner = lease.owner /\ lease'.active = lease.active
            /\ lease'.epoch = lease.epoch /\ lease'.window = lease.window
        BY <1>2, <4>1 DEF Rows
      <4> QED
        BY <3>2, <4>2, <4>3
    <3>3. CASE call = "begin" /\ Due
      <4>1. lease' = [[lease EXCEPT !.expiry = now + Ttl] EXCEPT !.window = Window, !.finished = FALSE]
        BY <3>3 DEF Write, Written, Begun, Refreshed
      <4> QED
        <5>1. Window \in Nat /\ (call = "begin" /\ Due)
          BY <3>3, WindowIsNat
        <5>2. lease' \in Rows
          BY <1>1, <1>2, <4>1, <5>1, RowForms
        <5>3. /\ lease'.owner = lease.owner /\ lease'.active = lease.active
              /\ lease'.epoch = lease.epoch /\ lease'.window = Window
          BY <1>2, <4>1 DEF Rows
        <5> QED
          BY <5>1, <5>2, <5>3
    <3>4. CASE call = "finish"
      <4>1. lease' = [lease EXCEPT !.finished = TRUE]
        BY <3>4 DEF Write, Written
      <4>2. lease' \in Rows
        BY <1>1, <1>2, <4>1, RowForms
      <4>3. /\ lease'.owner = lease.owner /\ lease'.active = lease.active
            /\ lease'.epoch = lease.epoch /\ lease'.window = lease.window
        BY <1>2, <4>1 DEF Rows
      <4> QED
        BY <3>4, <4>2, <4>3
    <3> QED
      BY <2>1, <3>1, <3>2, <3>3, <3>4
  <2> QED
    BY <1>2, <1>3, <1>5, <2>2, <2>3
<1> QED
  BY <1>4, <1>5

LEMMA ReleasedRow ==
    ASSUME RowPart, NEW w \in Runners, Releases(w)
    PROVE  /\ lease' \in Rows
           /\ ~lease'.active /\ lease'.owner = NoOwner
           /\ lease'.epoch = lease.epoch /\ lease'.window = lease.window
<1>1. lease \in Rows /\ now \in Nat
  BY DEF RowPart
<1>2. lease' = [lease EXCEPT !.owner = NoOwner, !.active = FALSE, !.expiry = now]
  BY DEF Releases, Released
<1>3. lease' \in Rows
  BY <1>1, <1>2, RowForms
<1> QED
  BY <1>1, <1>2, <1>3 DEF Rows

(* The row and its histories, for whatever happens to them. *)
LEMMA HistoryKept ==
    ASSUME IInv, NEW w \in Runners, now' \in 0 .. MaxNow,
           NoWrite \/ Releases(w) \/ \E call \in Calls : Write(w, call)
    PROVE  RowPart' /\ WindowPart' /\ GrantPart' /\ lease'.epoch >= lease.epoch
<1> USE DEF IInv
<1>1. CASE NoWrite
  <2>1. UNCHANGED <<lease, starts, grants>>
    BY <1>1 DEF NoWrite
  <2>2. lease.epoch \in Nat
    BY DEF RowPart, Rows
  <2> QED
    BY <2>1, <2>2 DEF RowPart, WindowPart, GrantPart, EpochHasOneOwner
<1>2. CASE Releases(w)
  <2>1. UNCHANGED <<starts, grants>>
    BY <1>2 DEF Releases
  <2>2. RowPart' /\ lease'.epoch = lease.epoch /\ lease'.window = lease.window /\ ~lease'.active
    BY <1>2, ReleasedRow DEF RowPart
  <2>3. lease.epoch \in Nat
    BY DEF RowPart, Rows
  <2> QED
    BY <2>1, <2>2, <2>3 DEF WindowPart, GrantPart, EpochHasOneOwner
<1>3. ASSUME NEW call \in Calls, Write(w, call)
      PROVE  RowPart' /\ WindowPart' /\ GrantPart' /\ lease'.epoch >= lease.epoch
  <2>1. RowPart' /\ lease'.epoch >= lease.epoch
    BY <1>3, WriteRow, SchedulerAssumption DEF RowPart
  <2>2. WindowPart'
    <3>1. CASE call = "begin" /\ Due
      <4>1. starts' = Append(starts, Window) /\ lease'.window = Window
        BY <1>3, <3>1, WriteRow DEF Write
      <4>2. Window \in Nat /\ lease.window < Window /\ lease.window \in Int
        BY <3>1, WindowIsNat DEF Due, RowPart, Rows, NoWindow
      <4>3. starts' \in Seq(Nat) /\ Len(starts') = Len(starts) + 1
        BY <4>1, <4>2 DEF WindowPart
      <4>4. \A i \in DOMAIN starts : starts'[i] = starts[i] /\ starts[i] \in Nat
        BY <4>1, <4>2 DEF WindowPart
      <4>5. starts'[Len(starts) + 1] = Window
        BY <4>1, <4>2 DEF WindowPart
      <4>6. \A i \in DOMAIN starts' : i \in DOMAIN starts \/ i = Len(starts) + 1
        BY <4>3 DEF WindowPart
      <4>7. \A i \in DOMAIN starts : i < Len(starts) + 1
        BY DEF WindowPart
      <4>8. \A i \in DOMAIN starts' : starts'[i] <= lease'.window
        BY <4>1, <4>2, <4>4, <4>5, <4>6 DEF WindowPart
      <4>9. ASSUME NEW i \in DOMAIN starts', NEW j \in DOMAIN starts', i < j
            PROVE  starts'[i] < starts'[j]
        <5>1. CASE i \in DOMAIN starts /\ j \in DOMAIN starts
          BY <4>4, <4>9, <5>1 DEF WindowPart
        <5>2. CASE i \in DOMAIN starts /\ j = Len(starts) + 1
          <6>1. starts[i] <= lease.window /\ starts[i] \in Nat
            BY <4>4, <5>2 DEF WindowPart
          <6> QED
            BY <4>2, <4>4, <4>5, <5>2, <6>1
        <5>3. CASE i = Len(starts) + 1
          <6>1. Len(starts) \in Nat /\ DOMAIN starts' = 1 .. Len(starts) + 1
            BY <4>3, LenProperties DEF WindowPart
          <6> QED
            BY <4>9, <5>3, <6>1
        <5> QED
          BY <4>6, <5>1, <5>2, <5>3
      <4> QED
        BY <4>3, <4>8, <4>9 DEF WindowPart
    <3>2. CASE ~(call = "begin" /\ Due)
      BY <1>3, <3>2, WriteRow DEF Write, WindowPart
    <3> QED
      BY <3>1, <3>2
  <2>3. GrantPart'
    <3>1. CASE call = "acquire"
      <4> DEFINE grant == [owner |-> w, epoch |-> NextEpoch(w)]
      <4>1. grants' = grants \cup {grant} /\ lease'.epoch = NextEpoch(w) /\ lease'.owner = w
        BY <1>3, <3>1, WriteRow DEF Write
      <4>2. NextEpoch(w) \in Nat /\ lease.epoch \in Nat
        BY DEF NextEpoch, RowPart, Rows
      <4>3. CASE NextEpoch(w) = lease.epoch
        <5>1. lease.owner = w /\ lease.active
          BY <4>2, <4>3 DEF NextEpoch
        <5> QED
          BY <4>1, <4>2, <4>3, <5>1 DEF GrantPart, EpochHasOneOwner
      <4>4. CASE NextEpoch(w) = lease.epoch + 1
        <5>1. \A g \in grants : g.epoch \in Nat /\ g.epoch < NextEpoch(w)
          BY <4>2, <4>4 DEF GrantPart
        <5> QED
          BY <4>1, <4>2, <4>4, <5>1 DEF GrantPart, EpochHasOneOwner
      <4> QED
        BY <4>3, <4>4 DEF NextEpoch
    <3>2. CASE call # "acquire"
      <4>1. grants' = grants /\ lease.active /\ lease'.owner = lease.owner /\ lease'.epoch = lease.epoch
        BY <1>3, <3>2, WriteRow DEF Write
      <4> QED
        BY <4>1 DEF GrantPart, EpochHasOneOwner
    <3> QED
      BY <3>1, <3>2
  <2> QED
    BY <2>1, <2>2, <2>3
<1> QED
  BY <1>1, <1>2, <1>3

----------------------------------------------------------------------------
(* What the steps of a run may leave of its record. *)
LEMMA RunForms ==
    ASSUME NEW x \in Runs
    PROVE  /\ \A pc \in Places : Go(x, pc) \in Runs /\ [x EXCEPT !.pc = pc] \in Runs
           /\ \A pc \in Places : [Fresh EXCEPT !.pc = pc] \in Runs
           /\ Dropped(x) \in Runs
           /\ Degraded(x) \in Runs
<1>1. {"idle", "leaving"} \subseteq Places
  BY DEF Places
<1>2. \A pc \in Places : [x EXCEPT !.pc = pc] \in Runs
  BY DEF Runs
<1>3. Fresh \in Runs
  BY <1>1 DEF Fresh, Runs
<1>4. \A pc \in Places : [Fresh EXCEPT !.pc = pc] \in Runs
  BY <1>3 DEF Runs
<1>5. [Fresh EXCEPT !.stop = x.stop] \in Runs /\ ~Fresh.ready
  BY <1>3 DEF Runs, Fresh
<1>6. Dropped(x) \in Runs /\ ~Dropped(x).ready
  BY <1>5 DEF Dropped, Fresh
<1>7. Degraded(x) \in Runs
  BY <1>6 DEF Degraded, Runs
<1>8. \A pc \in Places : Go(x, pc) \in Runs
  <2> TAKE pc \in Places
  <2>1. CASE x.stop
    BY <1>1, <1>2, <2>1 DEF Go
  <2>2. CASE ~x.stop
    BY <1>2, <2>2 DEF Go
  <2> QED
    BY <2>1, <2>2
<1> QED
  BY <1>2, <1>4, <1>6, <1>7, <1>8

LEMMA RecoverForms ==
    ASSUME NEW x \in Runs, NEW how \in {"drop", "degrade"}
    PROVE  Recover(x, how) \in Runs /\ Recovering(x, how) \in Runs
<1>1. {"acquire", "verify", "cancelling"} \subseteq Places
  BY DEF Places, Calling
<1>2. Dropped(x) \in Runs /\ Degraded(x) \in Runs
  BY RunForms
<1>3. Recover(x, how) \in Runs
  BY <1>1, <1>2, RunForms DEF Recover
<1>4. [x EXCEPT !.pc = "cancelling", !.then = how] \in Runs
  BY <1>1 DEF Runs
<1> QED
  BY <1>3, <1>4 DEF Recovering

(* Each step of a run writes its own record, tick and call. *)
Writes(w) ==
    /\ \E y \in Runs : runner' = [runner EXCEPT ![w] = y]
    /\ \E t \in Ticks : tick' = [tick EXCEPT ![w] = t]
    /\ \E f \in Calls \cup {NoCall} : flight' = [flight EXCEPT ![w] = f]

LEMMA RunWrites ==
    ASSUME RunPart, RowPart, RowPart', NEW w \in Runners, Run(w)
    PROVE  Writes(w)
<1> DEFINE x == runner[w]
<1>1. x \in Runs /\ tick[w] \in Ticks /\ flight[w] \in Calls \cup {NoCall}
  BY DEF RunPart
<1>2. runner = [runner EXCEPT ![w] = x] /\ tick = [tick EXCEPT ![w] = tick[w]]
      /\ flight = [flight EXCEPT ![w] = flight[w]]
  BY DEF RunPart
<1>3. Calling \subseteq Places /\ {"cancelling", "leaving", "closing", "stopped", "dead"} \subseteq Places
  BY DEF Places
<1>4. {"acquire", "verify", "begin", "ticking", "finish", "sleep"} \subseteq Places
  BY DEF Places, Calling
<1>5. lease.epoch \in Nat /\ lease'.epoch \in Nat /\ lease'.expiry \in Nat
  BY DEF RowPart, Rows
<1>6. NoTick \in Ticks
  BY DEF NoTick, Ticks
<1>7. ASSUME NEW y \in Runs, runner' = [runner EXCEPT ![w] = y],
             UNCHANGED tick, UNCHANGED flight
      PROVE  Writes(w)
  BY <1>1, <1>2, <1>7 DEF Writes
<1>8. ASSUME NEW t \in Ticks, tick' = [tick EXCEPT ![w] = t], UNCHANGED runner, UNCHANGED flight
      PROVE  Writes(w)
  BY <1>1, <1>2, <1>8 DEF Writes
<1> HIDE DEF x
<1>9. CASE Start(w)
  BY <1>1, <1>4, <1>7, <1>9, RunForms DEF Start, x
<1>10. CASE Acquire(w)
  <2> DEFINE y == [x EXCEPT !.epoch = lease'.epoch, !.proof = lease'.expiry]
  <2>1. lease'.epoch # 0
    BY <1>10, WriteRow DEF Acquire, Calls
  <2>2. y \in Runs
    BY <1>1, <1>5, <2>1 DEF Runs
  <2>3. Go(y, "verify") \in Runs
    BY <1>4, <2>2, RunForms
  <2> QED
    BY <1>7, <1>10, <2>3 DEF Acquire, x
<1>11. CASE Heartbeat(w)
  <2> DEFINE y == [x EXCEPT !.proof = lease'.expiry]
             z == [x EXCEPT !.proof = lease'.expiry, !.ready = @ \/ ~x.stop]
  <2>1. x.epoch # 0
    BY <1>11 DEF Heartbeat, Write, Allowed, Current, RowPart, x
  <2>2. y \in Runs /\ z \in Runs
    BY <1>1, <1>5, <2>1 DEF Runs
  <2>3. Go(z, "begin") \in Runs /\ Go(z, "sleep") \in Runs
    BY <1>4, <2>2, RunForms
  <2>4. CASE x.pc = "ticking"
    BY <1>7, <1>11, <2>2, <2>4 DEF Heartbeat, x
  <2>5. CASE x.pc = "verify"
    <3>1. runner' = [runner EXCEPT ![w] = Go(z, "begin")] /\ UNCHANGED <<tick, flight>>
      BY <1>11, <2>5 DEF Heartbeat, x
    <3> QED
      BY <1>7, <2>3, <3>1
  <2>6. CASE x.pc = "sleep"
    <3>1. runner' = [runner EXCEPT ![w] = Go(z, "sleep")] /\ UNCHANGED <<tick, flight>>
      BY <1>11, <2>6 DEF Heartbeat, x
    <3> QED
      BY <1>7, <2>3, <3>1
  <2> QED
    BY <1>11, <2>4, <2>5, <2>6 DEF Heartbeat, x
<1>12. CASE Begin(w)
  <2> DEFINE y == [x EXCEPT !.pc = "ticking", !.window = Window]
             t == [NoTick EXCEPT !.alive = TRUE, !.epoch = x.epoch]
  <2>1. y \in Runs /\ t \in Ticks
    BY <1>1, <1>4, WindowIsNat DEF Runs, Ticks, NoTick
  <2>2. Go(x, "sleep") \in Runs
    BY <1>1, <1>4, RunForms
  <2>3. CASE Due /\ ~x.stop
    <3>1. runner' = [runner EXCEPT ![w] = y] /\ tick' = [tick EXCEPT ![w] = t] /\ UNCHANGED flight
      BY <1>1, <1>2, <1>12, <2>3 DEF Begin, RunPart, x
    <3> QED
      BY <1>1, <1>2, <2>1, <3>1 DEF Writes
  <2>4. CASE ~(Due /\ ~x.stop)
    BY <1>7, <1>12, <2>2, <2>4 DEF Begin, x
  <2> QED
    BY <2>3, <2>4
<1>13. CASE TickDone(w)
  BY <1>1, <1>4, <1>7, <1>13, RunForms DEF TickDone, x
<1>14. CASE Finish(w)
  <2> DEFINE y == [x EXCEPT !.window = NoWindow]
  <2>1. y \in Runs
    BY <1>1 DEF Runs
  <2>2. Go(y, "sleep") \in Runs
    BY <1>4, <2>1, RunForms
  <2> QED
    BY <1>7, <1>14, <2>2 DEF Finish, x
<1>15. CASE WakeUp(w)
  <2>1. Go(x, "begin") \in Runs
    BY <1>1, <1>4, RunForms
  <2> QED
    BY <1>7, <1>15, <2>1 DEF WakeUp, x
<1>16. CASE CallRefused(w)
  <2>1. Recovering(x, "degrade") \in Runs /\ Recovering(x, "drop") \in Runs
    BY <1>1, RecoverForms
  <2> QED
    BY <1>7, <1>16, <2>1 DEF CallRefused, x
<1>17. CASE \E how \in {"drop", "degrade"} : CallFails(w, how) \/ CallLost(w, how)
  <2>1. PICK how \in {"drop", "degrade"} : CallFails(w, how) \/ CallLost(w, how)
    BY <1>17
  <2>2. Recovering(x, how) \in Runs
    BY <1>1, RecoverForms
  <2> QED
    BY <1>7, <2>1, <2>2 DEF CallFails, CallLost, x
<1>18. CASE CallStuck(w)
  <2> DEFINE y == [x EXCEPT !.pc = "leaving", !.ready = FALSE]
  <2>1. y \in Runs
    BY <1>1, <1>3 DEF Runs
  <2>2. CallOf(x.pc) \in Calls
    BY <1>18, CallTypes DEF CallStuck, x
  <2>3. runner' = [runner EXCEPT ![w] = y]
    BY <1>1, <1>18 DEF CallStuck, RunPart, x
  <2>4. flight' = [flight EXCEPT ![w] = CallOf(x.pc)] /\ UNCHANGED tick
    BY <1>18 DEF CallStuck, x
  <2> QED
    BY <1>1, <1>2, <2>1, <2>2, <2>3, <2>4 DEF Writes
<1>19. CASE Land(w)
  BY <1>1, <1>2, <1>19 DEF Land, Writes
<1>20. CASE Stop(w)
  <2> DEFINE y == [x EXCEPT !.stop = TRUE]
  <2>1. y \in Runs
    BY <1>1 DEF Runs
  <2> QED
    BY <1>7, <1>20, <2>1 DEF Stop, x
<1>21. CASE Leave(w)
  BY <1>1, <1>3, <1>7, <1>21, RunForms DEF Leave, x
<1>22. CASE DrainTimeout(w)
  <2> DEFINE y == [x EXCEPT !.pc = "cancelling", !.then = "finish"]
  <2>1. y \in Runs
    BY <1>1, <1>3 DEF Runs
  <2>2. runner' = [runner EXCEPT ![w] = y]
    BY <1>1, <1>22 DEF DrainTimeout, RunPart, x
  <2> QED
    BY <1>7, <1>22, <2>1, <2>2 DEF DrainTimeout
<1>23. CASE Settle(w)
  <2> DEFINE y == [x EXCEPT !.pc = "finish", !.then = "none"]
             z == [x EXCEPT !.pc = "leaving", !.then = "none"]
  <2>1. y \in Runs /\ z \in Runs
    BY <1>1, <1>3, <1>4 DEF Runs
  <2>2. x.then \in {"none", "finish", "exit", "drop", "degrade"}
    BY <1>1 DEF Runs
  <2>3. CASE x.then = "finish"
    BY <1>7, <1>23, <2>1, <2>3 DEF Settle, x
  <2>4. CASE x.then = "exit"
    BY <1>7, <1>23, <2>1, <2>4 DEF Settle, x
  <2>5. CASE x.then \in {"none", "drop", "degrade"}
    <3>1. Recover(x, x.then) \in Runs
      BY <1>1, <1>4, <2>5, RunForms DEF Recover
    <3> QED
      BY <1>7, <1>23, <2>5, <3>1 DEF Settle, x
  <2> QED
    BY <2>2, <2>3, <2>4, <2>5
<1>24. CASE LeaveTick(w)
  <2> DEFINE y == [x EXCEPT !.pc = "leaving", !.kids = TRUE]
  <2>1. y \in Runs
    BY <1>1, <1>3 DEF Runs
  <2>2. runner' = [runner EXCEPT ![w] = y]
    BY <1>1, <1>24 DEF LeaveTick, RunPart, x
  <2> QED
    BY <1>7, <1>24, <2>1, <2>2 DEF LeaveTick
<1>25. CASE Cancel(w)
  <2> DEFINE y == [x EXCEPT !.pc = "cancelling", !.then = "exit"]
             z == [x EXCEPT !.pc = "leaving", !.then = "none"]
             s == [Fresh EXCEPT !.pc = "stopped"]
  <2>1. y \in Runs /\ z \in Runs
    BY <1>1, <1>3 DEF Runs
  <2>2. s \in Runs
    BY <1>1, <1>3, RunForms
  <2>3. CASE x.pc = "ticking"
    BY <1>7, <1>25, <2>1, <2>3 DEF Cancel, x
  <2>4. CASE x.pc = "closing"
    BY <1>7, <1>25, <2>2, <2>4 DEF Cancel, x
  <2>5. CASE x.pc # "ticking" /\ x.pc # "closing"
    BY <1>7, <1>25, <2>1, <2>5 DEF Cancel, x
  <2> QED
    BY <2>3, <2>4, <2>5
<1>26. CASE Unlock(w)
  <2> DEFINE y == [Fresh EXCEPT !.pc = "closing", !.epoch = x.epoch, !.kids = x.kids]
  <2>1. y \in Runs
    BY <1>1, <1>3 DEF Runs, Fresh
  <2> QED
    BY <1>7, <1>26, <2>1 DEF Unlock, x
<1>27. CASE Close(w)
  BY <1>1, <1>3, <1>7, <1>27, RunForms DEF Close
<1>28. CASE Crash(w)
  BY <1>1, <1>3, <1>6, <1>28, RunForms DEF Crash, Writes
<1>29. CASE CommitReserved(w) \/ CheckFence(w) \/ FlushAndCommit(w) \/ EndTick(w)
  <2>1. [tick[w] EXCEPT !.checked = TRUE] \in Ticks /\ [tick[w] EXCEPT !.checked = FALSE] \in Ticks
    BY <1>1 DEF Ticks
  <2>2. CASE CommitReserved(w)
    BY <1>1, <1>2, <1>8, <2>2 DEF CommitReserved
  <2>3. CASE CheckFence(w)
    BY <1>8, <2>1, <2>3 DEF CheckFence
  <2>4. CASE FlushAndCommit(w)
    BY <1>8, <2>1, <2>4 DEF FlushAndCommit
  <2>5. CASE EndTick(w)
    BY <1>6, <1>8, <2>5 DEF EndTick
  <2> QED
    BY <1>29, <2>2, <2>3, <2>4, <2>5
<1> QED
  BY <1>9, <1>10, <1>11, <1>12, <1>13, <1>14, <1>15, <1>16, <1>17, <1>18, <1>19, <1>20, <1>21,
     <1>22, <1>23, <1>24, <1>25, <1>26, <1>27, <1>28, <1>29 DEF Run

----------------------------------------------------------------------------
(* Units are committed under a fence only by CommitReserved, whose tick has  *)
(* the epoch of the row.                                                     *)
LEMMA CommitSteps ==
    ASSUME NEW w \in Runners, Run(w)
    PROVE  \/ UNCHANGED commits
           \/ Commit(w, FALSE)
           \/ Commit(w, TRUE) /\ tick[w].epoch = lease.epoch /\ NoWrite
<1>1. CASE Start(w) \/ Acquire(w) \/ Heartbeat(w) \/ Begin(w) \/ TickDone(w) \/ Finish(w)
           \/ WakeUp(w) \/ CallRefused(w) \/ CallStuck(w) \/ Land(w) \/ Stop(w) \/ Leave(w)
           \/ DrainTimeout(w) \/ Settle(w) \/ LeaveTick(w) \/ Cancel(w) \/ Unlock(w) \/ Close(w)
           \/ Crash(w) \/ CheckFence(w) \/ EndTick(w)
  BY <1>1 DEF Start, Acquire, Heartbeat, Begin, TickDone, Finish, WakeUp, CallRefused, CallStuck,
              Land, Stop, Leave, DrainTimeout, Settle, LeaveTick, Cancel, Unlock, Close, Crash,
              CheckFence, EndTick
<1>2. CASE \E how \in {"drop", "degrade"} : CallFails(w, how) \/ CallLost(w, how)
  BY <1>2 DEF CallFails, CallLost
<1>3. CASE CommitReserved(w)
  BY <1>3 DEF CommitReserved, Current
<1>4. CASE FlushAndCommit(w)
  BY <1>4 DEF FlushAndCommit
<1> QED
  BY <1>1, <1>2, <1>3, <1>4 DEF Run

LEMMA UnitTypes ==
    ASSUME CommitPart
    PROVE  \A i \in DOMAIN commits : commits[i] \in Units /\ commits[i].epoch \in Nat
<1>1. \A i \in DOMAIN commits : commits[i] \in Units
  BY DEF CommitPart
<1> QED
  BY <1>1 DEF Units

LEMMA CommitsKept ==
    ASSUME IInv, NEW w \in Runners, Run(w), lease'.epoch >= lease.epoch, lease'.epoch \in Nat
    PROVE  CommitPart'
<1> USE DEF IInv
<1>1. lease.epoch \in Nat
  BY DEF RowPart, Rows
<1>2. CASE UNCHANGED commits
  <2>1. \A i \in DOMAIN commits : commits[i].epoch \in Nat
    BY UnitTypes
  <2> QED
    BY <1>1, <1>2, <2>1 DEF CommitPart, CommitsFollowEpochs
<1>3. ASSUME NEW reserved \in BOOLEAN, Commit(w, reserved),
             reserved => tick[w].epoch = lease.epoch
      PROVE  CommitPart'
  <2> DEFINE unit == [epoch |-> tick[w].epoch, reserved |-> reserved]
             n == Len(commits)
  <2>1. tick[w].epoch \in Nat
    BY DEF RunPart, Ticks
  <2>2. unit \in Units /\ unit.epoch = tick[w].epoch
        /\ (unit.reserved <=> reserved)
    BY <2>1 DEF Units
  <2>3. commits' = Append(commits, unit)
    BY <1>3 DEF Commit
  <2> HIDE DEF unit
  <2>4. n \in Nat /\ DOMAIN commits = 1 .. n
    BY DEF CommitPart
  <2>5. /\ commits' \in Seq(Units)
        /\ DOMAIN commits' = 1 .. n + 1
        /\ \A i \in 1 .. n : commits'[i] = commits[i]
        /\ commits'[n + 1] = unit
    BY <2>2, <2>3 DEF CommitPart
  <2>6. \A i \in 1 .. n : commits[i].epoch \in Nat
                          /\ (commits[i].reserved => commits[i].epoch <= lease.epoch)
    BY <2>4, UnitTypes DEF CommitPart
  <2>7. \A i \in 1 .. n + 1 : commits'[i].reserved => commits'[i].epoch <= lease'.epoch
    <3> TAKE i \in 1 .. n + 1
    <3>1. CASE i \in 1 .. n
      BY <1>1, <2>5, <2>6, <3>1
    <3>2. CASE i = n + 1
      BY <1>1, <1>3, <2>1, <2>2, <2>5, <3>2
    <3> QED
      BY <2>4, <3>1, <3>2
  <2>8. \A i, j \in 1 .. n + 1 :
            (i < j /\ commits'[i].reserved /\ commits'[j].reserved)
            => commits'[i].epoch <= commits'[j].epoch
    <3> TAKE i, j \in 1 .. n + 1
    <3> HAVE i < j /\ commits'[i].reserved /\ commits'[j].reserved
    <3>1. i \in 1 .. n
      BY <2>4
    <3>2. CASE j \in 1 .. n
      BY <2>4, <2>5, <3>1, <3>2 DEF CommitPart, CommitsFollowEpochs
    <3>3. CASE j = n + 1
      BY <1>3, <2>2, <2>5, <2>6, <3>1, <3>3
    <3> QED
      BY <2>4, <3>2, <3>3
  <2> QED
    BY <2>5, <2>7, <2>8 DEF CommitPart, CommitsFollowEpochs
<1> QED
  BY <1>2, <1>3, CommitSteps

----------------------------------------------------------------------------
THEOREM InitInv == Init => IInv
<1> SUFFICES ASSUME Init PROVE IInv
  OBVIOUS
<1>1. RunPart
  <2>1. Fresh \in Runs /\ NoTick \in Ticks
    BY DEF Fresh, Runs, Places, Calling, NoTick, Ticks, NoWindow
  <2> QED
    BY <2>1 DEF Init, RunPart
<1>2. RowPart
  BY SchedulerAssumption DEF Init, RowPart, Rows
<1>3. WindowPart
  BY DEF Init, WindowPart
<1>4. GrantPart
  BY DEF Init, GrantPart, EpochHasOneOwner
<1>5. CommitPart
  BY DEF Init, CommitPart, CommitsFollowEpochs
<1> QED
  BY <1>1, <1>2, <1>3, <1>4, <1>5 DEF IInv

LEMMA ClockMoves ==
    ASSUME RowPart, Time
    PROVE  now' \in 0 .. MaxNow
BY SchedulerAssumption DEF Time, RowPart

(* The clock stands still in the steps of a run. *)
LEMMA ClockStands ==
    ASSUME NEW w \in Runners, Run(w)
    PROVE  now' = now
BY DEF Run, Start, Acquire, Heartbeat, Begin, TickDone, Finish, WakeUp, CallRefused, CallFails,
       CallLost, CallStuck, Land, Stop, Leave, DrainTimeout, Settle, LeaveTick, Cancel, Unlock,
       Close, Crash, CommitReserved, CheckFence, FlushAndCommit, EndTick

THEOREM InvKept == IInv /\ [Next]_vars => IInv'
<1> SUFFICES ASSUME IInv, [Next]_vars PROVE IInv'
  OBVIOUS
<1> USE DEF IInv
<1>1. ASSUME NEW w \in Runners, Run(w) PROVE IInv'
  <2>1. now' \in 0 .. MaxNow
    BY <1>1, ClockStands DEF RowPart
  <2>2. RowPart' /\ WindowPart' /\ GrantPart' /\ lease'.epoch >= lease.epoch
    BY <1>1, <2>1, LeaseSteps, HistoryKept
  <2>3. RunPart'
    <3>1. Writes(w)
      BY <1>1, <2>2, RunWrites
    <3> QED
      BY <3>1 DEF Writes, RunPart
  <2>4. CommitPart'
    BY <1>1, <2>2, CommitsKept DEF RowPart, Rows
  <2> QED
    BY <2>2, <2>3, <2>4
<1>2. CASE Time
  <2>1. now' \in 0 .. MaxNow
    BY <1>2, ClockMoves
  <2>2. UNCHANGED <<runner, tick, flight, commits, lease, starts, grants>>
    BY <1>2 DEF Time, NoWrite
  <2> QED
    BY <2>1, <2>2 DEF RunPart, RowPart, WindowPart, GrantPart, EpochHasOneOwner, CommitPart,
                      CommitsFollowEpochs
<1>3. CASE UNCHANGED vars
  BY <1>3 DEF vars, RunPart, RowPart, WindowPart, GrantPart, EpochHasOneOwner, CommitPart,
              CommitsFollowEpochs
<1> QED
  BY <1>1, <1>2, <1>3 DEF Next

THEOREM Invariance == Spec => []IInv
<1>1. Init => IInv
  BY InitInv
<1>2. IInv /\ [Next]_vars => IInv'
  BY InvKept
<1> QED
  BY <1>1, <1>2, PTL DEF Spec

(* Row, runs and histories keep their types, and no active row is without owner. *)
THEOREM TypeCorrect == Spec => []TypeOK
<1>1. IInv => TypeOK
  <2> SUFFICES ASSUME IInv PROVE TypeOK
    OBVIOUS
  <2>1. \A w \in Runners : runner[w].pc \in Places /\ (runner[w].ready => runner[w].epoch # 0)
    BY DEF IInv, RunPart, Runs
  <2>2. flight \in [Runners -> {NoCall, "acquire", "heartbeat", "begin", "finish"}]
    BY DEF IInv, RunPart, Calls
  <2>3. \A i \in DOMAIN commits : commits[i] \in [epoch : Nat, reserved : BOOLEAN]
    BY UnitTypes DEF IInv, Units
  <2> QED
    BY <2>1, <2>2, <2>3 DEF IInv, RunPart, RowPart, Rows, Ticks, Places, WindowPart, GrantPart, TypeOK
<1> QED
  BY <1>1, Invariance, PTL

(* No logical window is begun twice, whatever calls are lost, runs die and    *)
(* clocks are set back.                                                       *)
THEOREM EachWindowOnce == Spec => []WindowOnce
<1>1. IInv => WindowOnce
  <2> SUFFICES ASSUME IInv, NEW i \in DOMAIN starts, NEW j \in DOMAIN starts, i # j
               PROVE  starts[i] # starts[j]
    BY DEF WindowOnce
  <2>1. starts[i] \in Nat /\ starts[j] \in Nat /\ (i < j \/ j < i)
    BY DEF IInv, WindowPart
  <2> QED
    BY <2>1 DEF IInv, WindowPart
<1> QED
  BY <1>1, Invariance, PTL

(* A fencing epoch is never granted to a second owner. *)
THEOREM OneOwnerPerEpoch == Spec => []EpochHasOneOwner
<1>1. IInv => EpochHasOneOwner
  BY DEF IInv, GrantPart
<1> QED
  BY <1>1, Invariance, PTL

(* Of the units that hold the writer when they check the fence, none of an    *)
(* old lease follows one of its successor.                                    *)
THEOREM NoCommitOfAnOldEpoch == Spec => []CommitsFollowEpochs
<1>1. IInv => CommitsFollowEpochs
  BY DEF IInv, CommitPart
<1> QED
  BY <1>1, Invariance, PTL

----------------------------------------------------------------------------
(* A run with a live tick waits for it or is over. *)
WithTick == {"ticking", "cancelling", "leaving", "closing", "stopped"}

LEMMA TickSteps ==
    ASSUME RunPart, NEW w \in Runners, Run(w), tick[w].alive => runner[w].pc \in WithTick
    PROVE  tick'[w].alive => runner'[w].pc \in WithTick
<1> DEFINE x == runner[w]
<1>1. x \in Runs /\ tick[w] \in Ticks
  BY DEF RunPart
<1>2. \A y, t : /\ (runner' = [runner EXCEPT ![w] = y]) => runner'[w] = y
                /\ (tick' = [tick EXCEPT ![w] = t]) => tick'[w] = t
  BY DEF RunPart
<1>3. ~NoTick.alive
  BY DEF NoTick
<1>4. \A pc : [x EXCEPT !.pc = pc].pc = pc /\ [Fresh EXCEPT !.pc = pc].pc = pc
  BY <1>1 DEF Runs, Fresh
<1> HIDE DEF x
<1>5. CASE Start(w) \/ Acquire(w) \/ WakeUp(w) \/ Finish(w) \/ TickDone(w) \/ CallStuck(w)
           \/ Settle(w) \/ EndTick(w) \/ Crash(w)
  <2>1. ~tick'[w].alive
    BY <1>2, <1>3, <1>5 DEF Start, Acquire, WakeUp, Finish, TickDone, CallStuck, Settle, Settled,
                           EndTick, Crash, WithTick
  <2> QED
    BY <2>1
<1>6. CASE Heartbeat(w)
  <2>1. CASE x.pc = "ticking"
    <3>1. runner'[w] = [x EXCEPT !.proof = lease'.expiry]
      BY <1>2, <1>6, <2>1 DEF Heartbeat, x
    <3> QED
      BY <1>1, <2>1, <3>1 DEF Runs, WithTick
  <2>2. CASE x.pc # "ticking"
    BY <1>6, <2>2 DEF Heartbeat, WithTick, x
  <2> QED
    BY <2>1, <2>2
<1>7. CASE Begin(w)
  <2>1. CASE Due /\ ~x.stop
    <3>1. runner'[w].pc = "ticking"
      BY <1>1, <1>7, <2>1 DEF Begin, RunPart, Runs, x
    <3> QED
      BY <3>1 DEF WithTick
  <2>2. CASE ~(Due /\ ~x.stop)
    BY <1>7, <2>2 DEF Begin, WithTick, x
  <2> QED
    BY <2>1, <2>2
<1>8. ASSUME NEW how \in {"drop", "degrade"}, UNCHANGED tick,
             runner' = [runner EXCEPT ![w] = Recovering(x, how)], x.pc \in Calling
      PROVE  tick'[w].alive => runner'[w].pc \in WithTick
  <2>1. CASE x.pc = "ticking"
    <3>1. runner'[w] = [x EXCEPT !.pc = "cancelling", !.then = how]
      BY <1>2, <1>8, <2>1 DEF Recovering
    <3> QED
      BY <1>1, <3>1 DEF Runs, WithTick
  <2>2. CASE x.pc # "ticking"
    BY <1>8, <2>2 DEF Calling, WithTick, x
  <2> QED
    BY <2>1, <2>2
<1>9. CASE CallRefused(w)
  BY <1>8, <1>9 DEF CallRefused, x
<1>10. CASE \E how \in {"drop", "degrade"} : CallFails(w, how) \/ CallLost(w, how)
  BY <1>8, <1>10 DEF CallFails, CallLost, x
<1>11. CASE Land(w) \/ CommitReserved(w) \/ CheckFence(w) \/ FlushAndCommit(w)
  <2>1. runner' = runner
    BY <1>11 DEF Land, CommitReserved, CheckFence, FlushAndCommit
  <2>2. tick'[w].alive => tick[w].alive
    BY <1>1, <1>2, <1>11 DEF Land, CommitReserved, CheckFence, FlushAndCommit
  <2> QED
    BY <2>1, <2>2
<1>12. CASE Stop(w)
  <2>1. runner'[w].pc = x.pc /\ UNCHANGED tick
    BY <1>1, <1>12 DEF Stop, RunPart, Runs, x
  <2> QED
    BY <2>1 DEF x
<1>13. CASE Leave(w)
  BY <1>13 DEF Leave, WithTick, Calling
<1>14. CASE DrainTimeout(w) \/ LeaveTick(w)
  <2>1. runner'[w].pc \in {"cancelling", "leaving"}
    BY <1>1, <1>14 DEF DrainTimeout, LeaveTick, RunPart, Runs, x
  <2> QED
    BY <2>1 DEF WithTick
<1>15. CASE Cancel(w)
  <2>1. [x EXCEPT !.pc = "cancelling", !.then = "exit"].pc = "cancelling"
        /\ [x EXCEPT !.pc = "leaving", !.then = "none"].pc = "leaving"
    BY <1>1 DEF Runs
  <2>2. runner'[w].pc \in {"cancelling", "stopped", "leaving"}
    <3>1. CASE x.pc = "ticking"
      BY <1>2, <1>15, <2>1, <3>1 DEF Cancel, x
    <3>2. CASE x.pc = "closing"
      BY <1>2, <1>4, <1>15, <3>2 DEF Cancel, x
    <3>3. CASE x.pc # "ticking" /\ x.pc # "closing"
      BY <1>2, <1>15, <2>1, <3>3 DEF Cancel, x
    <3> QED
      BY <3>1, <3>2, <3>3
  <2> QED
    BY <2>2 DEF WithTick
<1>16. CASE Unlock(w)
  <2>1. PICK y : y = [Fresh EXCEPT !.pc = "closing", !.epoch = runner[w].epoch,
                                   !.kids = runner[w].kids]
    OBVIOUS
  <2>2. y.pc = "closing"
    BY <2>1 DEF Fresh
  <2>3. runner'[w] = y
    BY <1>2, <1>16, <2>1 DEF Unlock
  <2> QED
    BY <2>2, <2>3 DEF WithTick
<1>17. CASE Close(w)
  BY <1>2, <1>4, <1>17 DEF Close, WithTick
<1> QED
  BY <1>5, <1>6, <1>7, <1>9, <1>10, <1>11, <1>12, <1>13, <1>14, <1>15, <1>16, <1>17 DEF Run

(* While its tick is alive a run finishes no window and starts no other tick, *)
(* also when the tick outlives its cancellation.                              *)
THEOREM NoSecondTick == Spec => []OneTickAtATime
<1>1. Init => OneTickAtATime
  BY DEF Init, OneTickAtATime, NoTick
<1>2. IInv /\ OneTickAtATime /\ [Next]_vars => OneTickAtATime'
  <2> SUFFICES ASSUME IInv, OneTickAtATime, [Next]_vars, NEW v \in Runners
               PROVE  tick'[v].alive => runner'[v].pc \in WithTick
    BY DEF OneTickAtATime, WithTick
  <2>1. RunPart /\ (tick[v].alive => runner[v].pc \in WithTick)
    BY DEF IInv, OneTickAtATime, WithTick
  <2>2. ASSUME NEW w \in Runners, Run(w)
        PROVE  tick'[v].alive => runner'[v].pc \in WithTick
    <3>1. CASE v = w
      BY <2>1, <2>2, <3>1, TickSteps
    <3>2. CASE v # w
      <4>1. IInv'
        BY <2>2, InvKept DEF Next
      <4>2. Writes(w)
        BY <2>1, <2>2, <4>1, RunWrites DEF IInv
      <4>3. tick'[v] = tick[v] /\ runner'[v] = runner[v]
        BY <2>1, <3>2, <4>2 DEF Writes, RunPart
      <4> QED
        BY <2>1, <4>3
    <3> QED
      BY <3>1, <3>2
  <2>3. CASE Time
    BY <2>1, <2>3 DEF Time
  <2>4. CASE UNCHANGED vars
    BY <2>1, <2>4 DEF vars
  <2> QED
    BY <2>2, <2>3, <2>4 DEF Next
<1> QED
  BY <1>1, <1>2, Invariance, PTL DEF Spec

----------------------------------------------------------------------------
(* Readiness.  A ready run owns the row under its epoch, and the row runs out *)
(* no earlier than the proof, or the proof has run out.                       *)
Shown == {"begin", "ticking", "finish", "sleep", "cancelling", "leaving"}

Proved(v, x) ==
    \/ lease.owner = v /\ lease.epoch = x.epoch /\ lease.active /\ lease.expiry >= x.proof
    \/ x.proof <= now

FaultPart == faults \in [calls : Nat, cancels : Nat, crashes : Nat, backs : Nat]
LeasePart == lease.active => lease.expiry <= now + Ttl
FlightPart ==
    \A v \in Runners : flight[v] # NoCall =>
        runner[v].pc \in {"leaving", "closing", "stopped"} /\ ~runner[v].ready
ShownPart == \A v \in Runners : runner[v].ready => runner[v].pc \in Shown
ProofPart == \A v \in Runners : runner[v].ready => Proved(v, runner[v])

ReadyInv == FaultPart /\ LeasePart /\ FlightPart /\ ShownPart /\ ProofPart

LEMMA WriteExpiry ==
    ASSUME RowPart, NEW w \in Runners, NEW call \in Calls, Write(w, call)
    PROVE  /\ lease'.expiry = IF call = "finish" THEN lease.expiry ELSE now + Ttl
           /\ call = "acquire" => FreeFor(w)
           /\ call # "acquire" => lease.active /\ lease.owner = w
<1>1. lease \in Rows
  BY DEF RowPart
<1>2. CASE call = "acquire"
  BY <1>1, <1>2 DEF Write, Written, Acquired, Allowed, Rows
<1>3. CASE call = "heartbeat"
  BY <1>1, <1>3 DEF Write, Written, Refreshed, Allowed, Current, Rows
<1>4. CASE call = "begin"
  <2>1. lease' = [lease EXCEPT !.expiry = now + Ttl]
        \/ lease' = [[lease EXCEPT !.expiry = now + Ttl] EXCEPT !.window = Window, !.finished = FALSE]
    BY <1>4 DEF Write, Written, Begun, Refreshed
  <2>2. lease'.expiry = now + Ttl
    BY <1>1, <2>1 DEF Rows
  <2> QED
    BY <1>4, <2>2 DEF Write, Allowed, Current
<1>5. CASE call = "finish"
  BY <1>1, <1>5 DEF Write, Written, Allowed, Current, Rows
<1> QED
  BY <1>2, <1>3, <1>4, <1>5 DEF Calls

(* A proof outlives every step that is not the run's own acquire or release:  *)
(* nobody takes the row before it runs out, and a call moves the expiry on.   *)
LEMMA ProofStands ==
    ASSUME RowPart, LeasePart, NEW v \in Runners, NEW x \in Runs, Proved(v, x), now' = now,
           NEW w \in Runners,
           \/ NoWrite
           \/ Releases(w) /\ v # w
           \/ \E call \in Calls : Write(w, call) /\ (v = w => call # "acquire")
    PROVE  \/ lease'.owner = v /\ lease'.epoch = x.epoch /\ lease'.active /\ lease'.expiry >= x.proof
           \/ x.proof <= now'
<1>1. /\ now \in Nat /\ lease.expiry \in Nat /\ x.proof \in Nat /\ now + Ttl \in Nat
      /\ NoOwner \notin Runners
  BY SchedulerAssumption DEF RowPart, Rows, Runs
<1>2. CASE x.proof <= now
  BY <1>2
<1>3. CASE ~(x.proof <= now)
  <2>1. lease.owner = v /\ lease.epoch = x.epoch /\ lease.active /\ lease.expiry >= x.proof
    BY <1>3 DEF Proved
  <2>2. CASE NoWrite
    BY <2>1, <2>2 DEF NoWrite
  <2>3. CASE Releases(w) /\ v # w
    BY <2>1, <2>3 DEF Releases
  <2>4. ASSUME NEW call \in Calls, Write(w, call), v = w => call # "acquire"
        PROVE  lease'.owner = v /\ lease'.epoch = x.epoch /\ lease'.active /\ lease'.expiry >= x.proof
    <3>1. call # "acquire"
      <4>1. call = "acquire" => lease.owner \in {NoOwner, w} \/ lease.expiry <= now
        BY <2>4, WriteExpiry DEF FreeFor
      <4> QED
        BY <1>1, <1>3, <2>1, <2>4, <4>1
    <3>2. lease'.owner = w /\ lease.owner = w /\ lease'.active /\ lease'.epoch = lease.epoch
      BY <2>4, <3>1, WriteRow
    <3>3. lease'.expiry >= x.proof
      <4>1. lease.expiry <= now + Ttl
        BY <2>1 DEF LeasePart
      <4>2. lease'.expiry = lease.expiry \/ lease'.expiry = now + Ttl
        BY <2>4, WriteExpiry
      <4> QED
        BY <1>1, <2>1, <4>1, <4>2
    <3> QED
      BY <2>1, <3>2, <3>3
  <2> QED
    BY <2>2, <2>3, <2>4
<1> QED
  BY <1>2, <1>3

LEMMA LeaseKept ==
    ASSUME RowPart, LeasePart, NEW w \in Runners, now' = now,
           NoWrite \/ Releases(w) \/ \E call \in Calls : Write(w, call)
    PROVE  LeasePart'
<1>1. now \in Nat /\ lease.expiry \in Nat /\ now + Ttl \in Nat
  BY SchedulerAssumption DEF RowPart, Rows
<1>2. CASE NoWrite
  BY <1>2 DEF NoWrite, LeasePart
<1>3. CASE Releases(w)
  BY <1>3, ReleasedRow DEF LeasePart
<1>4. ASSUME NEW call \in Calls, Write(w, call) PROVE LeasePart'
  <2>1. \/ lease'.expiry = lease.expiry /\ lease.active
       \/ lease'.expiry = now + Ttl
    BY <1>4, WriteExpiry
  <2> QED
    BY <1>1, <2>1 DEF LeasePart
<1> QED
  BY <1>2, <1>3, <1>4

LEMMA FaultKept ==
    ASSUME FaultPart, NEW kind \in {"calls", "cancels", "crashes", "backs"}, Fault(kind)
    PROVE  FaultPart' /\ faults[kind] < MaxFaults[kind]
<1>1. CASE kind = "calls"
  BY <1>1 DEF FaultPart, Fault
<1>2. CASE kind = "cancels"
  BY <1>2 DEF FaultPart, Fault
<1>3. CASE kind = "crashes"
  BY <1>3 DEF FaultPart, Fault
<1>4. CASE kind = "backs"
  BY <1>4 DEF FaultPart, Fault
<1> QED
  BY <1>1, <1>2, <1>3, <1>4

(* A ready run sends no acquire and releases nothing. *)
LEMMA ReadyCalls ==
    ASSUME RunPart, FlightPart, ShownPart, NEW w \in Runners, Run(w), runner[w].ready
    PROVE  NoWrite \/ \E call \in Calls : Write(w, call) /\ call # "acquire"
<1> DEFINE pc == runner[w].pc
<1>1. pc \in Shown /\ flight[w] = NoCall
  BY DEF FlightPart, ShownPart
<1>2. pc \notin {"acquire", "idle", "closing"}
  BY <1>1 DEF Shown
<1>3. "heartbeat" \in Calls /\ "begin" \in Calls /\ "finish" \in Calls
  BY DEF Calls
<1>4. pc \in Calling => CallOf(pc) \in Calls /\ CallOf(pc) # "acquire"
  BY <1>2 DEF Calling, CallOf, Calls
<1>5. "ticking" \in Calling /\ CallOf("ticking") = "heartbeat"
  BY CallTypes
<1>6. CASE Start(w) \/ TickDone(w) \/ WakeUp(w) \/ CallRefused(w) \/ CallStuck(w) \/ Stop(w)
           \/ Leave(w) \/ DrainTimeout(w) \/ Settle(w) \/ LeaveTick(w) \/ Unlock(w) \/ Crash(w)
           \/ CommitReserved(w) \/ CheckFence(w) \/ FlushAndCommit(w) \/ EndTick(w)
  BY <1>3, <1>6 DEF Start, TickDone, LastHeartbeat, WakeUp, CallRefused, CallStuck, Stop, Leave,
              DrainTimeout, Settle, LeaveTick, Unlock, Crash, CommitReserved, CheckFence,
              FlushAndCommit, EndTick
<1>7. CASE Acquire(w) \/ Close(w)
  BY <1>2, <1>7 DEF Acquire, Close
<1>8. CASE Heartbeat(w) \/ Begin(w) \/ Finish(w)
  BY <1>3, <1>8 DEF Heartbeat, Begin, Finish
<1>9. CASE \E how \in {"drop", "degrade"} : CallFails(w, how) \/ CallLost(w, how)
  BY <1>4, <1>9 DEF CallFails, CallLost
<1>10. CASE Land(w)
  BY <1>1, <1>10 DEF Land
<1>11. CASE Cancel(w)
  BY <1>4, <1>11 DEF Cancel
<1> QED
  BY <1>6, <1>7, <1>8, <1>9, <1>10, <1>11 DEF Run

(* A run becomes ready, or its proof changes, only with a heartbeat. *)
ReadyStep(w) ==
    runner'[w].ready =>
        /\ runner'[w].pc \in Shown
        /\ runner'[w].epoch = runner[w].epoch
        /\ \/ runner[w].ready /\ runner'[w].proof = runner[w].proof
           \/ Write(w, "heartbeat") /\ runner'[w].proof = lease'.expiry

LEMMA RecoveringReady ==
    ASSUME NEW x \in Runs, NEW how \in {"drop", "degrade"}, Recovering(x, how).ready
    PROVE  /\ Recovering(x, how).pc = "cancelling"
           /\ x.ready /\ Recovering(x, how).epoch = x.epoch /\ Recovering(x, how).proof = x.proof
<1>1. Dropped(x) \in Runs /\ ~Dropped(x).ready
  BY RunForms DEF Dropped, Fresh
<1>2. Degraded(x) \in Runs /\ ~Degraded(x).ready
  BY <1>1, RunForms DEF Degraded, Runs
<1>3. \A y \in Runs, pc \in Places : Go(y, pc).ready = y.ready
  BY DEF Go, Runs
<1>4. {"acquire", "verify"} \subseteq Places
  BY DEF Places, Calling
<1>5. ~Recover(x, how).ready
  BY <1>1, <1>2, <1>3, <1>4 DEF Recover
<1>6. x.pc = "ticking" /\ Recovering(x, how) = [x EXCEPT !.pc = "cancelling", !.then = how]
  BY <1>5 DEF Recovering
<1> QED
  BY <1>6 DEF Runs

LEMMA ReadySteps ==
    ASSUME RunPart, ShownPart, NEW w \in Runners, Run(w)
    PROVE  ReadyStep(w)
<1> DEFINE x == runner[w]
<1>1. x \in Runs /\ (x.ready => x.pc \in Shown)
  BY DEF RunPart, ShownPart
<1>2. \A y : (runner' = [runner EXCEPT ![w] = y]) => runner'[w] = y
  BY DEF RunPart
<1>3. \A pc : ~[Fresh EXCEPT !.pc = pc].ready
  BY DEF Fresh
<1> HIDE DEF x
<1>4. ASSUME NEW pc \in Places, runner'[w] = [x EXCEPT !.pc = pc] \/ runner'[w] = Go(x, pc),
             x.ready => pc \in Shown
      PROVE  ReadyStep(w)
  <2>1. runner'[w].pc \in {pc, "leaving"} /\ runner'[w].ready = x.ready
        /\ runner'[w].epoch = x.epoch /\ runner'[w].proof = x.proof
    BY <1>1, <1>4 DEF Go, Runs
  <2> QED
    BY <1>4, <2>1 DEF ReadyStep, Shown, x
<1>5. ASSUME ~runner'[w].ready PROVE ReadyStep(w)
  BY <1>5 DEF ReadyStep
<1>6. ASSUME UNCHANGED runner PROVE ReadyStep(w)
  BY <1>1, <1>6 DEF ReadyStep, x
<1>7. ASSUME NEW how \in {"drop", "degrade"}, runner'[w] = Recovering(x, how) PROVE ReadyStep(w)
  BY <1>1, <1>7, RecoveringReady DEF ReadyStep, Shown, x
<1>8. Calling \subseteq Places
      /\ {"acquire", "verify", "begin", "finish", "sleep", "leaving"} \subseteq Places
      /\ {"finish", "sleep", "begin", "leaving", "cancelling"} \subseteq Shown
  BY DEF Places, Calling, Shown
<1>9. CASE Start(w)
  BY <1>1, <1>2, <1>4, <1>8, <1>9 DEF Start, Shown, x
<1>10. CASE Acquire(w)
  <2> DEFINE y == [x EXCEPT !.epoch = lease'.epoch, !.proof = lease'.expiry]
  <2>1. runner'[w] = Go(y, "verify")
    BY <1>2, <1>10 DEF Acquire, x
  <2>2. ~Go(y, "verify").ready
    BY <1>1, <1>10 DEF Acquire, Go, Runs, Shown, x
  <2> QED
    BY <1>5, <2>1, <2>2
<1>11. CASE Heartbeat(w)
  <2>1. Write(w, "heartbeat")
    BY <1>11 DEF Heartbeat
  <2>2. CASE x.pc = "ticking"
    <3>1. runner'[w] = [x EXCEPT !.proof = lease'.expiry]
      BY <1>2, <1>11, <2>2 DEF Heartbeat, x
    <3>2. runner'[w].pc = "ticking" /\ runner'[w].epoch = x.epoch /\ runner'[w].proof = lease'.expiry
      BY <1>1, <2>2, <3>1 DEF Runs
    <3> QED
      BY <2>1, <3>2 DEF ReadyStep, Shown, x
  <2>3. CASE x.pc # "ticking"
    <3> DEFINE z == [x EXCEPT !.proof = lease'.expiry, !.ready = x.ready \/ ~x.stop]
    <3>1. runner'[w] = Go(z, "begin") \/ runner'[w] = Go(z, "sleep")
      BY <1>2, <1>11, <2>3 DEF Heartbeat, x
    <3>2. \A pc : Go(z, pc).pc \in {pc, "leaving"} /\ Go(z, pc).epoch = x.epoch
                /\ Go(z, pc).proof = lease'.expiry
      BY <1>1 DEF Go, Runs
    <3> QED
      BY <1>8, <2>1, <3>1, <3>2 DEF ReadyStep, x
  <2> QED
    BY <2>2, <2>3
<1>12. CASE Begin(w)
  <2>1. CASE Due /\ ~x.stop
    <3>1. runner'[w] = [x EXCEPT !.pc = "ticking", !.window = Window]
      BY <1>1, <1>12, <2>1 DEF Begin, RunPart, x
    <3>2. runner'[w].pc = "ticking" /\ runner'[w].epoch = x.epoch /\ runner'[w].proof = x.proof
          /\ runner'[w].ready = x.ready
      BY <1>1, <3>1 DEF Runs
    <3> QED
      BY <3>2 DEF ReadyStep, Shown, x
  <2>2. CASE ~(Due /\ ~x.stop)
    BY <1>2, <1>4, <1>8, <1>12, <2>2 DEF Begin, x
  <2> QED
    BY <2>1, <2>2
<1>13. CASE TickDone(w) \/ WakeUp(w) \/ Leave(w)
  BY <1>2, <1>4, <1>8, <1>13 DEF TickDone, WakeUp, Leave, x
<1>14. CASE Finish(w)
  <2> DEFINE y == [x EXCEPT !.window = NoWindow]
  <2>1. runner'[w] = Go(y, "sleep")
    BY <1>2, <1>14 DEF Finish, x
  <2>2. runner'[w].pc \in {"sleep", "leaving"} /\ runner'[w].epoch = x.epoch
        /\ runner'[w].proof = x.proof /\ runner'[w].ready = x.ready
    BY <1>1, <2>1 DEF Go, Runs
  <2> QED
    BY <1>8, <2>2 DEF ReadyStep, x
<1>15. CASE CallRefused(w)
  BY <1>2, <1>7, <1>15 DEF CallRefused, x
<1>16. CASE \E how \in {"drop", "degrade"} : CallFails(w, how) \/ CallLost(w, how)
  BY <1>2, <1>7, <1>16 DEF CallFails, CallLost, x
<1>17. CASE CallStuck(w)
  <2>1. ~runner'[w].ready
    BY <1>1, <1>17 DEF CallStuck, RunPart, Runs, x
  <2> QED
    BY <1>5, <2>1
<1>18. CASE Stop(w)
  <2>1. runner'[w] = [x EXCEPT !.stop = TRUE]
    BY <1>2, <1>18 DEF Stop, x
  <2>2. runner'[w].pc = x.pc /\ runner'[w].epoch = x.epoch
        /\ runner'[w].proof = x.proof /\ runner'[w].ready = x.ready
    BY <1>1, <2>1 DEF Runs
  <2> QED
    BY <1>1, <2>2 DEF ReadyStep, x
<1>19. ASSUME NEW pc \in {"cancelling", "leaving", "finish"}, NEW then, NEW kids,
              runner'[w] = [x EXCEPT !.pc = pc, !.then = then]
              \/ runner'[w] = [x EXCEPT !.pc = pc, !.kids = kids]
       PROVE  ReadyStep(w)
  <2>1. runner'[w].pc = pc /\ runner'[w].epoch = x.epoch
        /\ runner'[w].proof = x.proof /\ runner'[w].ready = x.ready
    BY <1>1, <1>19 DEF Runs
  <2> QED
    BY <1>8, <2>1 DEF ReadyStep, x
<1>20. CASE DrainTimeout(w)
  <2>1. runner'[w] = [x EXCEPT !.pc = "cancelling", !.then = "finish"]
    BY <1>1, <1>20 DEF DrainTimeout, RunPart, x
  <2> QED
    BY <1>19, <2>1
<1>21. CASE Settle(w)
  <2>1. CASE x.then = "finish" \/ x.then = "exit"
    BY <1>2, <1>19, <1>21, <2>1 DEF Settle, x
  <2>2. CASE x.then # "finish" /\ x.then # "exit"
    <3>1. runner'[w] = Recover(x, x.then)
      BY <1>2, <1>21, <2>2 DEF Settle, x
    <3>2. \A y \in Runs, pc \in Places : Go(y, pc).ready = y.ready
      BY DEF Go, Runs
    <3>3. Dropped(x) \in Runs /\ ~Dropped(x).ready
      BY <1>1, RunForms DEF Dropped, Fresh
    <3>4. Degraded(x) \in Runs /\ ~Degraded(x).ready
      BY <1>1, <3>3, RunForms DEF Degraded, Runs
    <3>5. ~Recover(x, x.then).ready
      BY <1>8, <3>2, <3>3, <3>4 DEF Recover
    <3> QED
      BY <1>5, <3>1, <3>5
  <2> QED
    BY <2>1, <2>2
<1>22. CASE LeaveTick(w)
  <2>1. runner'[w] = [x EXCEPT !.pc = "leaving", !.kids = TRUE]
    BY <1>1, <1>22 DEF LeaveTick, RunPart, x
  <2> QED
    BY <1>19, <2>1
<1>23. CASE Cancel(w)
  <2>1. CASE x.pc = "closing"
    BY <1>2, <1>3, <1>5, <1>23, <2>1 DEF Cancel, x
  <2>2. CASE x.pc # "closing"
    BY <1>2, <1>19, <1>23, <2>2 DEF Cancel, x
  <2> QED
    BY <2>1, <2>2
<1>24. CASE Unlock(w)
  <2>1. ~runner'[w].ready
    BY <1>2, <1>24 DEF Unlock, Fresh
  <2> QED
    BY <1>5, <2>1
<1>25. CASE Close(w) \/ Crash(w)
  <2>1. ~[Fresh EXCEPT !.pc = "stopped"].ready /\ ~[Fresh EXCEPT !.pc = "dead"].ready
    BY <1>3
  <2>2. runner'[w] = [Fresh EXCEPT !.pc = "stopped"] \/ runner'[w] = [Fresh EXCEPT !.pc = "dead"]
    BY <1>2, <1>25 DEF Close, Crash
  <2> QED
    BY <1>5, <2>1, <2>2
<1>26. CASE Land(w) \/ CommitReserved(w) \/ CheckFence(w) \/ FlushAndCommit(w) \/ EndTick(w)
  BY <1>6, <1>26 DEF Land, CommitReserved, CheckFence, FlushAndCommit, EndTick
<1> QED
  BY <1>9, <1>10, <1>11, <1>12, <1>13, <1>14, <1>15, <1>16, <1>17, <1>18, <1>20, <1>21, <1>22,
     <1>23, <1>24, <1>25, <1>26 DEF Run

(* A call that outlives its run belongs to one that is not ready again. *)
Gone == {"leaving", "closing", "stopped"}

LEMMA FlightSteps ==
    ASSUME RunPart, NEW w \in Runners, Run(w),
           flight[w] # NoCall => runner[w].pc \in Gone /\ ~runner[w].ready
    PROVE  flight'[w] # NoCall => runner'[w].pc \in Gone /\ ~runner'[w].ready
<1> DEFINE x == runner[w]
<1>1. x \in Runs
  BY DEF RunPart
<1>2. \A y, f : /\ (runner' = [runner EXCEPT ![w] = y]) => runner'[w] = y
                /\ (flight' = [flight EXCEPT ![w] = f]) => flight'[w] = f
  BY DEF RunPart
<1> HIDE DEF x
<1>3. ASSUME UNCHANGED flight, x.pc \notin Gone
      PROVE  flight'[w] # NoCall => runner'[w].pc \in Gone /\ ~runner'[w].ready
  BY <1>3 DEF x
<1>4. \A pc : [Fresh EXCEPT !.pc = pc].pc = pc /\ ~[Fresh EXCEPT !.pc = pc].ready
  BY DEF Fresh
<1>5. Calling \cap Gone = {} /\ "idle" \notin Gone /\ "cancelling" \notin Gone
  BY DEF Calling, Gone
<1>6. {"acquire", "verify", "begin", "ticking", "finish", "sleep"} \subseteq Calling
  BY DEF Calling
<1>7. CASE Start(w) \/ Acquire(w) \/ Heartbeat(w) \/ Begin(w) \/ TickDone(w) \/ Finish(w) \/ WakeUp(w)
           \/ CallRefused(w) \/ Stop(w) \/ Leave(w) \/ DrainTimeout(w) \/ Settle(w) \/ LeaveTick(w)
  <2>1. UNCHANGED flight /\ x.pc \in Calling \cup {"idle", "cancelling"}
    BY <1>6, <1>7 DEF Start, Acquire, Heartbeat, Begin, TickDone, Finish, WakeUp, CallRefused, Stop,
                      Leave, DrainTimeout, Settle, LeaveTick, x
  <2> QED
    BY <1>3, <1>5, <2>1
<1>8. CASE \E how \in {"drop", "degrade"} : CallFails(w, how) \/ CallLost(w, how)
  BY <1>3, <1>5, <1>8 DEF CallFails, CallLost, x
<1>9. CASE CallStuck(w)
  <2>1. runner'[w].pc = "leaving" /\ ~runner'[w].ready
    BY <1>1, <1>9 DEF CallStuck, RunPart, Runs, x
  <2> QED
    BY <2>1 DEF Gone
<1>10. CASE Land(w) \/ Crash(w)
  BY <1>2, <1>10 DEF Land, Crash
<1>11. CASE Cancel(w)
  <2>1. CASE x.pc = "closing"
    <3>1. runner'[w] = [Fresh EXCEPT !.pc = "stopped"]
      BY <1>2, <1>11, <2>1 DEF Cancel, x
    <3> QED
      BY <1>4, <3>1 DEF Gone
  <2>2. CASE x.pc # "closing"
    BY <1>3, <1>5, <1>11, <2>2 DEF Cancel, x
  <2> QED
    BY <2>1, <2>2
<1>12. CASE Unlock(w)
  <2> DEFINE y == [Fresh EXCEPT !.pc = "closing", !.epoch = x.epoch, !.kids = x.kids]
  <2>1. runner'[w] = y
    BY <1>2, <1>12 DEF Unlock, x
  <2>2. y.pc = "closing" /\ ~y.ready
    BY DEF Fresh
  <2> QED
    BY <2>1, <2>2 DEF Gone
<1>13. CASE Close(w)
  <2>1. runner'[w] = [Fresh EXCEPT !.pc = "stopped"]
    BY <1>2, <1>13 DEF Close
  <2> QED
    BY <1>4, <2>1 DEF Gone
<1>14. CASE CommitReserved(w) \/ CheckFence(w) \/ FlushAndCommit(w) \/ EndTick(w)
  BY <1>14 DEF CommitReserved, CheckFence, FlushAndCommit, EndTick
<1> QED
  BY <1>7, <1>8, <1>9, <1>10, <1>11, <1>12, <1>13, <1>14 DEF Run

LEMMA FaultSteps ==
    ASSUME FaultPart, NEW w \in Runners, Run(w)
    PROVE  FaultPart'
<1>1. CASE Start(w) \/ Acquire(w) \/ Heartbeat(w) \/ Begin(w) \/ TickDone(w) \/ Finish(w)
           \/ WakeUp(w) \/ CallRefused(w) \/ Land(w) \/ Stop(w) \/ Leave(w)
           \/ DrainTimeout(w) \/ Settle(w) \/ LeaveTick(w) \/ Unlock(w) \/ Close(w)
           \/ CommitReserved(w) \/ CheckFence(w) \/ FlushAndCommit(w) \/ EndTick(w)
  <2>1. UNCHANGED faults
    BY <1>1 DEF Start, Acquire, Heartbeat, Begin, TickDone, Finish, WakeUp, CallRefused, Land,
                Stop, Leave, DrainTimeout, Settle, LeaveTick, Unlock, Close, CommitReserved,
                CheckFence, FlushAndCommit, EndTick
  <2> QED
    BY <2>1 DEF FaultPart
<1>2. CASE (\E how \in {"drop", "degrade"} : CallFails(w, how) \/ CallLost(w, how)) \/ CallStuck(w)
           \/ Cancel(w) \/ Crash(w)
  <2>1. Fault("calls") \/ Fault("cancels") \/ Fault("crashes")
    BY <1>2 DEF CallFails, CallLost, CallStuck, Cancel, Crash
  <2> QED
    BY <2>1, FaultKept
<1> QED
  BY <1>1, <1>2 DEF Run

LEMMA ReadyKept ==
    ASSUME MaxFaults.backs = 0, IInv, IInv', ReadyInv, [Next]_vars
    PROVE  ReadyInv'
<1> USE DEF IInv, ReadyInv
<1>1. ASSUME NEW w \in Runners, Run(w) PROVE ReadyInv'
  <2>1. now' = now
    BY <1>1, ClockStands
  <2>2. NoWrite \/ Releases(w) \/ \E call \in Calls : Write(w, call)
    BY <1>1, LeaseSteps
  <2>3. LeasePart'
    BY <2>1, <2>2, LeaseKept
  <2>4. FaultPart'
    BY <1>1, FaultSteps
  <2>5. ReadyStep(w)
    BY <1>1, ReadySteps
  <2>6. \A v \in Runners \ {w} : runner'[v] = runner[v] /\ flight'[v] = flight[v]
    BY <1>1, RunWrites DEF Writes, RunPart
  <2>7. FlightPart'
    <3>1. flight'[w] # NoCall => runner'[w].pc \in Gone /\ ~runner'[w].ready
      BY <1>1, FlightSteps DEF FlightPart, Gone
    <3> QED
      BY <2>6, <3>1 DEF FlightPart, Gone
  <2>8. ShownPart'
    BY <2>5, <2>6 DEF ShownPart, ReadyStep
  <2>9. ASSUME NEW v \in Runners, runner'[v].ready
        PROVE  \/ /\ lease'.owner = v /\ lease'.epoch = runner'[v].epoch
                  /\ lease'.active /\ lease'.expiry >= runner'[v].proof
               \/ runner'[v].proof <= now'
    <3>1. PICK x \in Runs : x = runner[v]
      BY DEF RunPart
    <3>2. x.ready => Proved(v, x)
      BY <3>1 DEF ProofPart
    <3>3. CASE v # w
      <4>1. runner'[v] = x /\ x.ready
        BY <2>6, <2>9, <3>1, <3>3
      <4> QED
        BY <2>1, <2>2, <3>2, <3>3, <4>1, ProofStands
    <3>4. CASE v = w
      <4>1. CASE x.ready /\ runner'[v].proof = x.proof
        <5>1. NoWrite \/ \E call \in Calls : Write(w, call) /\ call # "acquire"
          BY <1>1, <3>1, <3>4, <4>1, ReadyCalls
        <5>2. runner'[v].epoch = x.epoch
          BY <2>5, <2>9, <3>1, <3>4 DEF ReadyStep
        <5> QED
          BY <2>1, <3>2, <4>1, <5>1, <5>2, ProofStands
      <4>2. CASE Write(w, "heartbeat") /\ runner'[v].proof = lease'.expiry
        <5>1. lease.epoch = x.epoch
          BY <3>1, <3>4, <4>2 DEF Write, Allowed, Current
        <5>2. lease'.active /\ lease'.owner = w /\ lease'.epoch = lease.epoch /\ lease' \in Rows
          BY <4>2, WriteRow DEF Calls
        <5>3. runner'[v].epoch = x.epoch
          BY <2>5, <2>9, <3>1, <3>4 DEF ReadyStep
        <5>4. lease'.expiry \in Nat
          BY <5>2 DEF Rows
        <5> QED
          BY <3>4, <4>2, <5>1, <5>2, <5>3, <5>4
      <4> QED
        BY <2>5, <2>9, <3>1, <3>4, <4>1, <4>2 DEF ReadyStep
    <3> QED
      BY <3>3, <3>4
  <2>10. ProofPart'
    BY <2>9 DEF ProofPart, Proved
  <2> QED
    BY <2>3, <2>4, <2>7, <2>8, <2>10
<1>2. CASE Time
  <2>1. UNCHANGED <<runner, flight, lease>>
    BY <1>2 DEF Time, NoWrite
  <2>2. ~Fault("backs")
    BY DEF FaultPart, Fault
  <2>3. now' = now + 1 /\ UNCHANGED faults
    BY <1>2, <2>2 DEF Time
  <2>4. now \in Nat /\ Ttl \in Nat /\ lease.expiry \in Nat
    BY SchedulerAssumption DEF RowPart, Rows
  <2>5. LeasePart'
    BY <2>1, <2>3, <2>4 DEF LeasePart
  <2>6. ProofPart'
    <3>1. \A v \in Runners : runner[v].proof \in Nat
      BY DEF RunPart, Runs
    <3> QED
      BY <2>1, <2>3, <2>4, <3>1 DEF ProofPart, Proved
  <2> QED
    BY <2>1, <2>3, <2>5, <2>6 DEF FaultPart, FlightPart, ShownPart
<1>3. CASE UNCHANGED vars
  BY <1>3 DEF vars, FaultPart, LeasePart, FlightPart, ShownPart, ProofPart, Proved
<1> QED
  BY <1>1, <1>2, <1>3 DEF Next

(* While the clock of the host is not set back, a run that is ready and whose *)
(* proof has not run out holds the row: nobody else can have taken it.        *)
THEOREM ReadyIsNeverWrong ==
    ASSUME MaxFaults.backs = 0
    PROVE  Spec => []ReadyMeansHeld
<1>1. Init => ReadyInv
  BY DEF Init, ReadyInv, FaultPart, LeasePart, FlightPart, ShownPart, ProofPart, Fresh
<1>2. IInv /\ IInv' /\ ReadyInv /\ [Next]_vars => ReadyInv'
  BY ReadyKept
<1>3. IInv /\ ReadyInv => ReadyMeansHeld
  <2> SUFFICES ASSUME IInv, ReadyInv, NEW w \in Runners, runner[w].ready, runner[w].proof > now
               PROVE  Current(w, runner[w].epoch)
    BY DEF ReadyMeansHeld
  <2>1. runner[w].proof \in Nat /\ now \in Nat /\ lease.expiry \in Nat
    BY DEF IInv, RunPart, Runs, RowPart, Rows
  <2>2. Proved(w, runner[w])
    BY DEF ReadyInv, ProofPart
  <2> QED
    BY <2>1, <2>2 DEF Proved, Current
<1> QED
  BY <1>1, <1>2, <1>3, Invariance, PTL DEF Spec

----------------------------------------------------------------------------
(* The lease that is given back.  Without a task.cancel() a run that is over *)
(* remembers the tick it left alive; and a live tick, like an active row,    *)
(* bears an epoch that was granted to its owner.                             *)
Remembered(w) ==
    \/ runner[w].pc \in {"ticking", "cancelling", "stopped"}
    \/ runner[w].pc \in {"leaving", "closing"} /\ runner[w].kids

KidsPart == \A w \in Runners : tick[w].alive => Remembered(w)

Grant(w, epoch) == [owner |-> w, epoch |-> epoch]

TickGrant == \A w \in Runners : tick[w].alive => Grant(w, tick[w].epoch) \in grants
LeaseGrant == lease.active => Grant(lease.owner, lease.epoch) \in grants
CancelPart == FaultPart /\ faults.cancels = 0

ReleaseInv ==
    CancelPart /\ KidsPart /\ TickGrant /\ LeaseGrant /\ ReleasedWhenSettled

(* A tick goes on under the epoch it was started with.                       *)
LEMMA TickEpochs ==
    ASSUME RunPart, NEW w \in Runners, Run(w), tick'[w].alive
    PROVE  \/ tick[w].alive /\ tick'[w].epoch = tick[w].epoch
           \/ Write(w, "begin") /\ tick'[w].epoch = runner[w].epoch
<1>1. tick[w] \in Ticks /\ (\A t : tick' = [tick EXCEPT ![w] = t] => tick'[w] = t)
  BY DEF RunPart
<1>2. CASE UNCHANGED tick
  BY <1>2
<1>3. CASE Begin(w)
  <2>1. PICK t : t = [NoTick EXCEPT !.alive = TRUE, !.epoch = runner[w].epoch]
    OBVIOUS
  <2>2. t.epoch = runner[w].epoch
    BY <2>1 DEF NoTick
  <2>3. tick' = [tick EXCEPT ![w] = t] \/ UNCHANGED tick
    BY <1>3, <2>1 DEF Begin
  <2>4. Write(w, "begin")
    BY <1>3 DEF Begin
  <2> QED
    BY <1>1, <1>2, <2>2, <2>3, <2>4
<1>4. CASE Crash(w) \/ EndTick(w)
  <2>1. tick'[w] = NoTick
    BY <1>1, <1>4 DEF Crash, EndTick
  <2> QED
    BY <2>1 DEF NoTick
<1>5. CASE CheckFence(w) \/ FlushAndCommit(w)
  <2>1. /\ \E checked : tick' = [tick EXCEPT ![w] = [tick[w] EXCEPT !.checked = checked]]
        /\ tick[w].alive
    BY <1>5 DEF CheckFence, FlushAndCommit
  <2> QED
    BY <1>1, <2>1 DEF Ticks
<1>6. CASE Start(w) \/ Acquire(w) \/ Heartbeat(w) \/ TickDone(w) \/ Finish(w) \/ WakeUp(w)
           \/ CallRefused(w) \/ Stop(w) \/ Leave(w) \/ DrainTimeout(w) \/ Settle(w)
  BY <1>2, <1>6 DEF Start, Acquire, Heartbeat, TickDone, Finish, WakeUp, CallRefused, Stop, Leave,
                    DrainTimeout, Settle
<1>7. CASE (\E how \in {"drop", "degrade"} : CallFails(w, how) \/ CallLost(w, how))
           \/ CallStuck(w) \/ Land(w) \/ LeaveTick(w) \/ Cancel(w) \/ Unlock(w) \/ Close(w)
           \/ CommitReserved(w)
  BY <1>2, <1>7 DEF CallFails, CallLost, CallStuck, Land, LeaveTick, Cancel, Unlock, Close, CommitReserved
<1> QED
  BY <1>3, <1>4, <1>5, <1>6, <1>7 DEF Run

(* A run that is over has no live tick it does not remember.                 *)
LEMMA KidsSteps ==
    ASSUME RunPart, NEW w \in Runners, Run(w), ~Cancel(w),
           tick[w].alive => Remembered(w)
    PROVE  tick'[w].alive => Remembered(w)'
<1> DEFINE x == runner[w]
<1>1. x \in Runs /\ tick[w] \in Ticks
  BY DEF RunPart
<1>2. \A y, t : /\ (runner' = [runner EXCEPT ![w] = y]) => runner'[w] = y
                /\ (tick' = [tick EXCEPT ![w] = t]) => tick'[w] = t
  BY DEF RunPart
<1>3. ~NoTick.alive
  BY DEF NoTick
<1> HIDE DEF x
<1>4. CASE Start(w) \/ Acquire(w) \/ WakeUp(w) \/ Finish(w) \/ TickDone(w) \/ CallStuck(w)
           \/ Settle(w) \/ EndTick(w) \/ Crash(w) \/ Leave(w)
  <2>1. ~tick'[w].alive
    BY <1>2, <1>3, <1>4 DEF Start, Acquire, WakeUp, Finish, TickDone, CallStuck, Settle, Settled,
                           EndTick, Crash, Leave, Calling, Remembered
  <2> QED
    BY <2>1
<1>5. CASE Heartbeat(w)
  <2>1. CASE x.pc = "ticking"
    <3>1. runner'[w] = [x EXCEPT !.proof = lease'.expiry]
      BY <1>2, <1>5, <2>1 DEF Heartbeat, x
    <3> QED
      BY <1>1, <2>1, <3>1 DEF Runs, Remembered
  <2>2. CASE x.pc # "ticking"
    BY <1>5, <2>2 DEF Heartbeat, Remembered, x
  <2> QED
    BY <2>1, <2>2
<1>6. CASE Begin(w)
  <2>1. CASE Due /\ ~x.stop
    <3>1. runner'[w].pc = "ticking"
      BY <1>1, <1>6, <2>1 DEF Begin, RunPart, Runs, x
    <3> QED
      BY <3>1 DEF Remembered
  <2>2. CASE ~(Due /\ ~x.stop)
    BY <1>6, <2>2 DEF Begin, Remembered, x
  <2> QED
    BY <2>1, <2>2
<1>7. ASSUME NEW how \in {"drop", "degrade"}, UNCHANGED tick,
             runner' = [runner EXCEPT ![w] = Recovering(x, how)], x.pc \in Calling
      PROVE  tick'[w].alive => Remembered(w)'
  <2>1. CASE x.pc = "ticking"
    <3>1. runner'[w] = [x EXCEPT !.pc = "cancelling", !.then = how]
      BY <1>2, <1>7, <2>1 DEF Recovering
    <3> QED
      BY <1>1, <3>1 DEF Runs, Remembered
  <2>2. CASE x.pc # "ticking"
    BY <1>7, <2>2 DEF Calling, Remembered, x
  <2> QED
    BY <2>1, <2>2
<1>8. CASE CallRefused(w)
  BY <1>7, <1>8 DEF CallRefused, x
<1>9. CASE \E how \in {"drop", "degrade"} : CallFails(w, how) \/ CallLost(w, how)
  BY <1>7, <1>9 DEF CallFails, CallLost, x
<1>10. CASE Land(w) \/ CommitReserved(w) \/ CheckFence(w) \/ FlushAndCommit(w)
  <2>1. runner' = runner
    BY <1>10 DEF Land, CommitReserved, CheckFence, FlushAndCommit
  <2>2. tick'[w].alive => tick[w].alive
    BY <1>1, <1>2, <1>10 DEF Land, CommitReserved, CheckFence, FlushAndCommit
  <2> QED
    BY <2>1, <2>2 DEF Remembered
<1>11. CASE Stop(w)
  <2>1. runner'[w] = [x EXCEPT !.stop = TRUE] /\ UNCHANGED tick
    BY <1>2, <1>11 DEF Stop, x
  <2>2. runner'[w].pc = x.pc /\ runner'[w].kids = x.kids
    BY <1>1, <2>1 DEF Runs
  <2> QED
    BY <2>1, <2>2 DEF x, Remembered
<1>12. CASE DrainTimeout(w)
  <2>1. runner'[w].pc = "cancelling"
    BY <1>1, <1>12 DEF DrainTimeout, RunPart, Runs, x
  <2> QED
    BY <2>1 DEF Remembered
<1>13. CASE LeaveTick(w)
  <2>1. runner'[w] = [x EXCEPT !.pc = "leaving", !.kids = TRUE]
    BY <1>2, <1>13 DEF LeaveTick, RunPart, x
  <2>2. runner'[w].pc = "leaving" /\ runner'[w].kids
    BY <1>1, <2>1 DEF Runs
  <2> QED
    BY <2>2 DEF Remembered
<1>14. CASE Unlock(w)
  <2>1. PICK y : y = [Fresh EXCEPT !.pc = "closing", !.epoch = runner[w].epoch,
                                   !.kids = runner[w].kids]
    OBVIOUS
  <2>2. y.pc = "closing" /\ y.kids = x.kids
    BY <2>1 DEF Fresh, x
  <2>3. runner'[w] = y /\ UNCHANGED tick /\ x.pc = "leaving"
    BY <1>2, <1>14, <2>1 DEF Unlock, x
  <2> QED
    BY <2>2, <2>3 DEF Remembered, x
<1>15. CASE Close(w)
  <2>1. PICK y : y = [Fresh EXCEPT !.pc = "stopped"]
    OBVIOUS
  <2>2. y.pc = "stopped"
    BY <2>1 DEF Fresh
  <2>3. runner'[w] = y
    BY <1>2, <1>15, <2>1 DEF Close
  <2> QED
    BY <2>2, <2>3 DEF Remembered
<1> QED
  BY <1>4, <1>5, <1>6, <1>8, <1>9, <1>10, <1>11, <1>12, <1>13, <1>14, <1>15 DEF Run

(* An active row and a live tick bear granted epochs. *)
LEMMA GrantsKept ==
    ASSUME IInv, TickGrant, LeaseGrant, NEW w \in Runners, Run(w)
    PROVE  TickGrant' /\ LeaseGrant' /\ grants \subseteq grants'
<1>1. RunPart /\ RowPart
  BY DEF IInv
<1>2. IInv'
  BY InvKept DEF Next
<1>3. NoWrite \/ Releases(w) \/ \E call \in Calls : Write(w, call)
  BY <1>1, LeaseSteps
<1>4. grants \subseteq grants' /\ LeaseGrant'
  <2>1. CASE NoWrite
    BY <2>1 DEF NoWrite, LeaseGrant
  <2>2. CASE Releases(w)
    BY <1>1, <2>2, ReleasedRow DEF Releases, LeaseGrant
  <2>3. ASSUME NEW call \in Calls, Write(w, call)
        PROVE  grants \subseteq grants' /\ LeaseGrant'
    <3>1. lease'.active /\ lease'.owner = w
      BY <1>1, <2>3, WriteRow
    <3>2. CASE call = "acquire"
      <4>1. grants' = grants \cup {Grant(w, NextEpoch(w))} /\ lease'.epoch = NextEpoch(w)
        BY <1>1, <2>3, <3>2, WriteRow DEF Write, Grant
      <4> QED
        BY <3>1, <4>1 DEF LeaseGrant
    <3>3. CASE call # "acquire"
      <4>1. grants' = grants /\ lease.active /\ lease.owner = w /\ lease'.epoch = lease.epoch
        BY <1>1, <2>3, <3>3, WriteRow DEF Write
      <4> QED
        BY <3>1, <4>1 DEF LeaseGrant
    <3> QED
      BY <3>2, <3>3
  <2> QED
    BY <1>3, <2>1, <2>2, <2>3
<1>5. ASSUME NEW v \in Runners, tick'[v].alive
      PROVE  Grant(v, tick'[v].epoch) \in grants'
  <2>1. CASE v # w
    <3>1. tick'[v] = tick[v]
      BY <1>1, <1>2, <2>1, RunWrites DEF IInv, Writes, RunPart
    <3> QED
      BY <1>4, <1>5, <3>1 DEF TickGrant
  <2>2. CASE v = w /\ tick[w].alive /\ tick'[w].epoch = tick[w].epoch
    BY <1>4, <2>2 DEF TickGrant
  <2>3. CASE v = w /\ Write(w, "begin") /\ tick'[w].epoch = runner[w].epoch
    <3>1. lease.active /\ lease.owner = w /\ lease.epoch = runner[w].epoch
      BY <2>3 DEF Write, Allowed, Current
    <3> QED
      BY <1>4, <2>3, <3>1 DEF LeaseGrant
  <2> QED
    BY <1>1, <1>5, <2>1, <2>2, <2>3, TickEpochs
<1> QED
  BY <1>4, <1>5 DEF TickGrant

(* Who releases has closed, and has no live tick under the epoch of the row; *)
(* nor has another run, for the epoch was granted to the one that releases.  *)
LEMMA ReleaseKept ==
    ASSUME IInv, KidsPart, TickGrant, LeaseGrant, ReleasedWhenSettled, NEW w \in Runners, Run(w)
    PROVE  ReleasedWhenSettled'
<1> SUFFICES ASSUME lease'.owner = NoOwner, NEW v \in Runners, tick'[v].alive
             PROVE  tick'[v].epoch # lease'.epoch
  BY DEF ReleasedWhenSettled
<1>1. RunPart /\ RowPart /\ IInv'
  BY InvKept DEF IInv, Next
<1>2. ASSUME NEW call \in Calls, Write(w, call)
      PROVE  FALSE
  <2>1. lease'.owner = w
    BY <1>1, <1>2, WriteRow
  <2> QED
    BY <2>1, SchedulerAssumption
<1>3. tick[v].alive /\ tick'[v].epoch = tick[v].epoch
  <2>1. CASE v = w
    BY <1>1, <1>2, <2>1, TickEpochs DEF Calls
  <2>2. CASE v # w
    BY <1>1, <2>2, RunWrites DEF Writes, RunPart, IInv
  <2> QED
    BY <2>1, <2>2
<1>4. CASE NoWrite
  BY <1>3, <1>4 DEF NoWrite, ReleasedWhenSettled
<1>5. CASE ~NoWrite
  <2>1. Releases(w) /\ lease.active /\ lease'.epoch = lease.epoch
    <3>1. Releases(w)
      BY <1>1, <1>2, <1>5, LeaseSteps
    <3>2. lease.owner = w /\ w # NoOwner
      BY <3>1, SchedulerAssumption DEF Releases
    <3> QED
      BY <1>1, <3>1, <3>2, ReleasedRow DEF RowPart
  <2>2. Close(w)
    <3>1. CASE Start(w) \/ TickDone(w) \/ WakeUp(w) \/ CallRefused(w) \/ CallStuck(w) \/ Stop(w)
               \/ Leave(w) \/ DrainTimeout(w) \/ Settle(w) \/ LeaveTick(w) \/ Unlock(w) \/ Crash(w)
               \/ CommitReserved(w) \/ CheckFence(w) \/ FlushAndCommit(w) \/ EndTick(w)
      <4>1. NoWrite \/ Write(w, "heartbeat")
        BY <3>1 DEF Start, TickDone, LastHeartbeat, WakeUp, CallRefused, CallStuck, Stop, Leave,
                    DrainTimeout, Settle, LeaveTick, Unlock, Crash, CommitReserved, CheckFence,
                    FlushAndCommit, EndTick
      <4> QED
        BY <1>2, <1>5, <4>1 DEF Calls
    <3>2. CASE Acquire(w) \/ Heartbeat(w) \/ Begin(w) \/ Finish(w)
      BY <1>2, <3>2 DEF Acquire, Heartbeat, Begin, Finish, Calls
    <3>3. CASE \E how \in {"drop", "degrade"} : CallFails(w, how) \/ CallLost(w, how)
      BY <1>2, <1>5, <3>3, CallTypes DEF CallFails, CallLost
    <3>4. CASE Land(w)
      BY <1>1, <1>2, <1>5, <3>4 DEF Land, RunPart
    <3>5. CASE Cancel(w)
      BY <1>2, <1>5, <3>5, CallTypes DEF Cancel
    <3> QED
      BY <3>1, <3>2, <3>3, <3>4, <3>5 DEF Run
  <2>3. v # w
    <3>1. runner[w].pc = "closing" /\ (~runner[w].kids \/ ~tick[w].alive)
      BY <1>5, <2>2 DEF Close, NoWrite
    <3>2. ~tick[w].alive
      BY <3>1 DEF KidsPart, Remembered
    <3> QED
      BY <1>3, <3>2
  <2>4. Grant(v, tick[v].epoch) \in grants /\ Grant(w, lease.epoch) \in grants
    BY <1>3, <2>1 DEF TickGrant, LeaseGrant, Releases
  <2>5. tick[v].epoch # lease.epoch
    BY <2>3, <2>4 DEF IInv, GrantPart, EpochHasOneOwner, Grant
  <2> QED
    BY <1>3, <2>1, <2>5
<1> QED
  BY <1>4, <1>5

(* While no task.cancel() reaches a run, a lease is given back only when its *)
(* tick has settled: with crashes, takeovers, calls that outlive their run   *)
(* and clocks set back.  The last wait of a cancelled run is the only gap.   *)
THEOREM ReleaseWaitsForTheTick ==
    ASSUME MaxFaults.cancels = 0
    PROVE  Spec => []ReleasedWhenSettled
<1>1. Init => ReleaseInv
  BY SchedulerAssumption DEF Init, ReleaseInv, CancelPart, FaultPart, KidsPart, TickGrant,
     LeaseGrant, ReleasedWhenSettled, NoTick
<1>2. ASSUME IInv, ReleaseInv, [Next]_vars
      PROVE  ReleaseInv'
  <2>1. ASSUME NEW w \in Runners, Run(w)
        PROVE  ReleaseInv'
    <3>1. ~Cancel(w)
      BY <1>2 DEF ReleaseInv, CancelPart, Cancel, Fault
    <3>2. CancelPart'
      <4>1. FaultPart'
        BY <1>2, <2>1, FaultSteps DEF ReleaseInv, CancelPart
      <4>2. faults'.cancels = faults.cancels
        <5>1. CASE (\E how \in {"drop", "degrade"} : CallFails(w, how) \/ CallLost(w, how)) \/ CallStuck(w)
                   \/ Crash(w)
          <6>1. Fault("calls") \/ Fault("crashes")
            BY <5>1 DEF CallFails, CallLost, CallStuck, Crash
          <6> QED
            BY <1>2, <6>1 DEF ReleaseInv, CancelPart, FaultPart, Fault
        <5>2. CASE Start(w) \/ Acquire(w) \/ Heartbeat(w) \/ Begin(w) \/ TickDone(w) \/ Finish(w)
               \/ WakeUp(w) \/ CallRefused(w) \/ Land(w) \/ Stop(w) \/ Leave(w)
               \/ DrainTimeout(w) \/ Settle(w) \/ LeaveTick(w) \/ Unlock(w) \/ Close(w)
               \/ CommitReserved(w) \/ CheckFence(w) \/ FlushAndCommit(w) \/ EndTick(w)
          BY <5>2 DEF Start, Acquire, Heartbeat, Begin, TickDone, Finish, WakeUp, CallRefused, Land,
                Stop, Leave, DrainTimeout, Settle, LeaveTick, Unlock, Close, CommitReserved,
                CheckFence, FlushAndCommit, EndTick
        <5> QED
          BY <2>1, <3>1, <5>1, <5>2 DEF Run
      <4> QED
        BY <1>2, <4>1, <4>2 DEF ReleaseInv, CancelPart
    <3>3. KidsPart'
      <4>1. tick'[w].alive => Remembered(w)'
        BY <1>2, <2>1, <3>1, KidsSteps DEF ReleaseInv, KidsPart, IInv
      <4>2. \A v \in Runners \ {w} : tick'[v] = tick[v] /\ runner'[v] = runner[v]
        <5>1. IInv'
          BY <1>2, InvKept
        <5> QED
          BY <1>2, <2>1, <5>1, RunWrites DEF Writes, RunPart, IInv
      <4> QED
        BY <1>2, <4>1, <4>2 DEF ReleaseInv, KidsPart, Remembered
    <3>4. TickGrant' /\ LeaseGrant' /\ ReleasedWhenSettled'
      BY <1>2, <2>1, GrantsKept, ReleaseKept DEF ReleaseInv
    <3> QED
      BY <3>2, <3>3, <3>4 DEF ReleaseInv
  <2>2. CASE Time
    <3>1. UNCHANGED <<lease, grants, runner, tick>>
      BY <2>2 DEF Time, NoWrite
    <3>2. FaultPart' /\ faults'.cancels = 0
      BY <1>2, <2>2 DEF ReleaseInv, CancelPart, FaultPart, Time, Fault
    <3> QED
      BY <1>2, <3>1, <3>2 DEF ReleaseInv, CancelPart, KidsPart, Remembered, TickGrant, LeaseGrant, ReleasedWhenSettled
  <2>3. CASE UNCHANGED vars
    BY <1>2, <2>3 DEF vars, ReleaseInv, CancelPart, FaultPart, KidsPart, Remembered, TickGrant, LeaseGrant, ReleasedWhenSettled
  <2> QED
    BY <1>2, <2>1, <2>2, <2>3 DEF Next
<1>3. ReleaseInv => ReleasedWhenSettled
  BY DEF ReleaseInv
<1> QED
  BY <1>1, <1>2, <1>3, Invariance, PTL DEF Spec
=============================================================================
