------------------------- MODULE ChatGenerationProofs -------------------------
(* Proofs about ChatGeneration for any threads, requests, streams, keys and   *)
(* terms.  A request is waiting, worked on by the one stream that leased it,  *)
(* or over (RowView, with its log); what a stream knows of its request        *)
(* (RunView) survives the steps of the others, since those never touch a row  *)
(* it has leased but to end it (Change).                                      *)
EXTENDS ChatGeneration, SequenceTheorems, FiniteSetTheorems, TLAPS

Entries == [type : EventTypes, by : Tokens]

(* A request no stream has taken. *)
Waits(x, l) ==
    /\ x \in Row /\ x.state = "accepted" /\ ~x.cancelled
    /\ x.gen = 0 /\ x.token = NoToken /\ x.seq = -1
    /\ l = <<>>

(* A request with a lease: its log is that of the holder, and still open. *)
Worked(x, l) ==
    /\ x \in Row /\ x.state \in Working /\ ~x.cancelled
    /\ x.gen = 1 /\ x.token \in Tokens
    /\ l \in Seq(Entries) /\ x.seq = Len(l) - 1
    /\ \A i \in 1 .. Len(l) : /\ l[i].by = x.token /\ l[i].type \in {"accepted", "delta"}
                              /\ l[i].type = "accepted" <=> i = 1

(* What the log of a request that is over says of its ending. *)
Closes(x, l, i) ==
    /\ l[i].type = "accepted" => i = 1
    /\ l[i].type \in {"delta", "completed"} => l[1].type = "accepted"
    /\ l[i].type \in {"completed", "failed", "cancelled"} => i = Len(l)
    /\ l[i].type = "completed" => x.state = "committed"
    /\ l[i].type = "failed" => x.state \in {"failed", "timed_out"}
    /\ l[i].type = "cancelled" => x.state = "cancelled"

Over(x, l) ==
    /\ x \in Row /\ x.state \in Terminal /\ x.token = NoToken
    /\ x.state = "committed" => ~x.retryable
    /\ l \in Seq(Entries) /\ x.seq = Len(l) - 1
    /\ \A i, j \in 1 .. Len(l) : l[i].by = l[j].by
    /\ \A i \in 1 .. Len(l) : Closes(x, l, i)
    /\ x.state = "committed" => \E i \in 1 .. Len(l) : l[i].type = "completed"

RowView(x, l) ==
    \/ x = AbsentRow /\ l = <<>>
    \/ Waits(x, l)
    \/ Worked(x, l)
    \/ Over(x, l)

RowPart ==
    /\ row \in [Requests -> Row \cup {AbsentRow}]
    /\ log \in [Requests -> Seq(Entries)]
    /\ \A r \in Requests : RowView(row[r], log[r])

----------------------------------------------------------------------------
(* Rows and their logs. *)
LEMMA StateFacts ==
    /\ Active \cap Terminal = {} /\ Working \subseteq Active /\ Active \subseteq States
    /\ Terminal \subseteq States
    /\ "accepted" \in Active /\ "accepted" \notin Working
    /\ "lease_acquired" \in Working
    /\ {"committed", "failed", "timed_out", "cancelled", "orphaned"} \subseteq Terminal
    /\ "absent" \notin States
    /\ Active = Working \cup {"accepted"}
BY DEF Active, Working, RouteReady, Terminal, States

(* The endings a worked-on request may have; committing cannot be cancelled. *)
LEMMA WorkingEnds ==
    ASSUME NEW s \in Working
    PROVE  {"failed", "timed_out"} \subseteq Transitions[s]
BY DEF Working, RouteReady, Stopped, Transitions

LEMMA RowTypes ==
    ASSUME NEW x \in Row
    PROVE  /\ x.state \in States /\ x.slot \in Slots /\ x.deadline \in Nat
           /\ x.token \in Tokens \cup {NoToken} /\ x.gen \in Nat /\ x.seq \in Nat \cup {-1}
           /\ x.retryable \in BOOLEAN /\ x.cancelled \in BOOLEAN /\ x.answer \in Nat
           /\ Exists(x) /\ x # AbsentRow
BY StateFacts DEF Row, Exists, AbsentRow

LEMMA NewWaits ==
    ASSUME NEW slot \in Slots, NEW attempt \in Nat, NEW parent \in Requests \cup {NoRequest},
           NEW deadline \in Nat
    PROVE  LET x == NewRow(slot, attempt, parent, deadline)
           IN  Waits(x, <<>>) /\ x.slot = slot
<1>1. NewRow(slot, attempt, parent, deadline) \in Row
  BY StateFacts DEF NewRow, Row, NoReason, NullTime, NoAnswer
<1> QED
  BY <1>1 DEF NewRow, Waits

LEMMA AcquiredRow ==
    ASSUME NEW x, NEW l, Waits(x, l), NEW w \in Tokens, NEW expiry \in Nat
    PROVE  LET y == AcquireRow(x, w, expiry)
           IN  /\ Worked(y, l) /\ y.token = w /\ y.state = "lease_acquired" /\ y.seq = -1
               /\ y.slot = x.slot
<1>1. x \in Row /\ x.gen + 1 = 1 /\ l = <<>> /\ x.seq = -1 /\ ~x.cancelled
  BY DEF Waits
<1>2. AcquireRow(x, w, expiry) \in Row
  <2>1. x.gen + 1 \in Nat /\ "lease_acquired" \in States
    BY <1>1, StateFacts
  <2> QED
    BY <1>1, <2>1 DEF AcquireRow, Row
<1>3. LET y == AcquireRow(x, w, expiry)
      IN  /\ y.token = w /\ y.state = "lease_acquired" /\ y.seq = -1 /\ y.slot = x.slot
          /\ y.gen = 1 /\ ~y.cancelled
  BY <1>1 DEF AcquireRow, Row
<1>4. l \in Seq(Entries) /\ Len(l) = 0
  BY <1>1
<1> QED
  BY <1>2, <1>3, <1>4, StateFacts DEF Worked

LEMMA AppendedLog ==
    ASSUME NEW l \in Seq(Entries), NEW e \in Entries
    PROVE  /\ Append(l, e) \in Seq(Entries) /\ Len(Append(l, e)) = Len(l) + 1 /\ Len(l) \in Nat
           /\ \A i \in 1 .. Len(l) : Append(l, e)[i] = l[i]
           /\ Append(l, e)[Len(l) + 1] = e
           /\ \A i \in 1 .. Len(l) + 1 : i \in 1 .. Len(l) \/ i = Len(l) + 1
BY AppendProperties, LenProperties

LEMMA SeqRow ==
    ASSUME NEW x \in Row, NEW s \in Nat
    PROVE  LET y == AcceptEventRow(x, s)
           IN  /\ y \in Row /\ y.seq = s /\ y.state = x.state /\ y.token = x.token
               /\ y.gen = x.gen /\ y.slot = x.slot /\ y.cancelled = x.cancelled
               /\ y.deadline = x.deadline /\ y.expiry = x.expiry
BY DEF AcceptEventRow, Row

LEMMA EmittedRow ==
    ASSUME NEW x, NEW l, Worked(x, l), NEW type \in {"accepted", "delta"},
           type = "accepted" <=> x.seq = -1
    PROVE  LET y == AcceptEventRow(x, x.seq + 1)
           IN  /\ Worked(y, Append(l, [type |-> type, by |-> x.token]))
               /\ y.token = x.token /\ y.state = x.state /\ y.seq = x.seq + 1 /\ y.slot = x.slot
<1> DEFINE y == AcceptEventRow(x, x.seq + 1)
           e == [type |-> type, by |-> x.token]
           k == Append(l, e)
<1>1. x \in Row /\ l \in Seq(Entries) /\ x.seq = Len(l) - 1 /\ Len(l) \in Nat
  BY DEF Worked
<1>2. x.seq + 1 \in Nat /\ x.seq + 1 = Len(l)
  BY <1>1
<1>3. /\ y \in Row /\ y.seq = x.seq + 1 /\ y.state = x.state /\ y.token = x.token
      /\ y.gen = x.gen /\ y.slot = x.slot /\ y.cancelled = x.cancelled
  BY <1>1, <1>2, SeqRow
<1>4. e \in Entries /\ e.type = type /\ e.by = x.token
  BY DEF Worked, Entries, EventTypes
<1>5. /\ k \in Seq(Entries) /\ Len(k) = Len(l) + 1
      /\ \A i \in 1 .. Len(l) : k[i] = l[i]
      /\ k[Len(l) + 1] = e
  BY <1>1, <1>4, AppendedLog
<1>6. type = "accepted" <=> Len(l) + 1 = 1
  BY <1>1
<1> HIDE DEF y, e, k
<1>7. ASSUME NEW i \in 1 .. Len(k)
      PROVE  /\ k[i].by = y.token /\ k[i].type \in {"accepted", "delta"}
             /\ k[i].type = "accepted" <=> i = 1
  <2>1. i \in 1 .. Len(l) \/ i = Len(l) + 1
    BY <1>1, <1>5
  <2>2. CASE i \in 1 .. Len(l)
    BY <1>3, <1>5, <2>2 DEF Worked
  <2>3. CASE i = Len(l) + 1
    BY <1>3, <1>4, <1>5, <1>6, <2>3
  <2> QED
    BY <2>1, <2>2, <2>3
<1>8. y.seq = Len(k) - 1
  BY <1>1, <1>2, <1>3, <1>5
<1>9. Worked(y, k)
  BY <1>3, <1>5, <1>7, <1>8 DEF Worked
<1> QED
  BY <1>3, <1>9 DEF y, e, k

LEMMA AdvancedRow ==
    ASSUME NEW x, NEW l, Worked(x, l), NEW target \in Working
    PROVE  LET y == TransitionRow(x, target)
           IN  /\ Worked(y, l) /\ y.token = x.token /\ y.state = target /\ y.seq = x.seq
               /\ y.slot = x.slot
<1> DEFINE y == TransitionRow(x, target)
<1>1. x \in Row
  BY DEF Worked
<1>2. /\ y \in Row /\ y.seq = x.seq /\ y.state = target /\ y.token = x.token
      /\ y.gen = x.gen /\ y.slot = x.slot /\ y.cancelled = x.cancelled
  BY <1>1, StateFacts DEF TransitionRow, Row
<1> HIDE DEF y
<1>3. Worked(y, l)
  BY <1>2 DEF Worked
<1> QED
  BY <1>2, <1>3 DEF y

(* EndRow, with its reason as a parameter. *)
Closing(x, state, retryable, reason) ==
    [x EXCEPT !.state = state, !.retryable = retryable, !.reason = reason,
              !.token = NoToken, !.expiry = NullTime]

LEMMA ClosingRow ==
    ASSUME NEW x \in Row, NEW state \in States, NEW retryable \in BOOLEAN, NEW reason \in Reasons
    PROVE  LET y == Closing(x, state, retryable, reason)
           IN  /\ y \in Row /\ y.state = state /\ y.token = NoToken /\ y.seq = x.seq
               /\ y.slot = x.slot /\ y.retryable = retryable
BY DEF Row, Closing

LEMMA EndedRow ==
    ASSUME NEW x \in Row, NEW target \in Terminal, NEW retryable \in BOOLEAN
    PROVE  LET y == EndRow(x, target, retryable)
           IN  /\ y \in Row /\ y.state = target /\ y.token = NoToken /\ y.seq = x.seq
               /\ y.slot = x.slot /\ y.retryable = retryable
<1> PICK reason : reason = IF target = "committed" THEN "committed" ELSE "other"
  OBVIOUS
<1>1. reason \in Reasons /\ target \in States
  BY StateFacts DEF Reasons
<1>2. EndRow(x, target, retryable) = Closing(x, target, retryable, reason)
  BY DEF EndRow, Closing
<1> QED
  BY <1>1, <1>2, ClosingRow

LEMMA OpenLog ==
    ASSUME NEW x, NEW l, Waits(x, l) \/ Worked(x, l)
    PROVE  /\ l \in Seq(Entries) /\ x.seq = Len(l) - 1 /\ Len(l) \in Nat
           /\ \A i, j \in 1 .. Len(l) : l[i].by = l[j].by
           /\ \A i \in 1 .. Len(l) : /\ l[i].type \in {"accepted", "delta"}
                                     /\ l[i].type = "accepted" <=> i = 1
                                     /\ Worked(x, l) /\ l[i].by = x.token
<1>1. CASE Waits(x, l)
  <2>1. l = <<>> /\ x.seq = -1
    BY <1>1 DEF Waits
  <2>2. l \in Seq(Entries) /\ Len(l) = 0
    BY <2>1
  <2> QED
    BY <2>1, <2>2
<1>2. CASE Worked(x, l)
  BY <1>2, LenProperties DEF Worked
<1> QED
  BY <1>1, <1>2

LEMMA RecoveredRow ==
    ASSUME NEW x, NEW l, Waits(x, l) \/ Worked(x, l), NEW time
    PROVE  LET y == RecoverRow(x, time)
           IN  /\ Over(y, l) /\ y.state # "committed" /\ y.slot = x.slot
<1>1. x \in Row /\ ~x.cancelled
  BY DEF Waits, Worked
<1>2. PICK target \in {"timed_out", "orphaned"} : RecoverRow(x, time) = EndRow(x, target, TRUE)
  BY <1>1 DEF RecoverRow
<1> DEFINE y == EndRow(x, target, TRUE)
<1>3. y \in Row /\ y.state = target /\ y.token = NoToken /\ y.seq = x.seq /\ y.slot = x.slot
  <2>1. target \in Terminal /\ TRUE \in BOOLEAN
    BY StateFacts
  <2> QED
    BY <1>1, <2>1, EndedRow
<1> HIDE DEF y
<1>4. l \in Seq(Entries) /\ x.seq = Len(l) - 1
  BY OpenLog
<1>5. \A i, j \in 1 .. Len(l) : l[i].by = l[j].by
  BY OpenLog
<1>6. \A i \in 1 .. Len(l) : l[i].type \in {"accepted", "delta"} /\ (l[i].type = "accepted" <=> i = 1)
  BY OpenLog
<1>7. \A i \in 1 .. Len(l) : Closes(y, l, i)
  <2> SUFFICES ASSUME NEW i \in 1 .. Len(l) PROVE Closes(y, l, i)
    OBVIOUS
  <2>1. 1 \in 1 .. Len(l)
    BY <1>4
  <2> QED
    BY <1>6, <2>1 DEF Closes
<1>8. y.state \in Terminal /\ y.state # "committed"
  BY <1>3, StateFacts
<1>9. Over(y, l)
  BY <1>3, <1>4, <1>5, <1>7, <1>8 DEF Over
<1> QED
  BY <1>2, <1>3, <1>8, <1>9 DEF y
(* The last event of a request and its ending, in one unit. *)
LEMMA ClosedLog ==
    ASSUME NEW x, NEW l, NEW w \in Tokens, Waits(x, l) \/ (Worked(x, l) /\ x.token = w),
           NEW type \in {"completed", "failed", "cancelled"},
           type = "completed" => Worked(x, l) /\ x.seq >= 0,
           NEW y, y \in Row, y.state \in Terminal, y.token = NoToken, y.seq = x.seq + 1,
           y.state = "committed" <=> type = "completed",
           type = "failed" => y.state \in {"failed", "timed_out"},
           type = "cancelled" => y.state = "cancelled",
           y.state = "committed" => ~y.retryable
    PROVE  Over(y, Append(l, [type |-> type, by |-> w]))
<1> DEFINE e == [type |-> type, by |-> w]
           k == Append(l, e)
<1>1. l \in Seq(Entries) /\ x.seq = Len(l) - 1 /\ Len(l) \in Nat
  BY OpenLog
<1>2. e \in Entries /\ e.type = type /\ e.by = w
  BY DEF Entries, EventTypes
<1>3. /\ k \in Seq(Entries) /\ Len(k) = Len(l) + 1
      /\ \A i \in 1 .. Len(l) : k[i] = l[i]
      /\ k[Len(l) + 1] = e
  BY <1>1, <1>2, AppendedLog
<1> HIDE DEF e, k
<1>4. \A i \in 1 .. Len(l) : /\ l[i].by = w /\ l[i].type \in {"accepted", "delta"}
                             /\ l[i].type = "accepted" <=> i = 1
  <2>1. Worked(x, l) => x.token = w
    BY StateFacts DEF Waits, Worked
  <2>2. \A i \in 1 .. Len(l) : /\ l[i].type \in {"accepted", "delta"}
                               /\ l[i].type = "accepted" <=> i = 1
                               /\ Worked(x, l) /\ l[i].by = x.token
    BY OpenLog
  <2> QED
    BY <2>1, <2>2
<1>5. \A i \in 1 .. Len(k) : i \in 1 .. Len(l) \/ i = Len(k)
  BY <1>1, <1>3
<1>6. \A i \in 1 .. Len(k) : k[i].by = w
  BY <1>2, <1>3, <1>4, <1>5
<1>7. ASSUME NEW i \in 1 .. Len(k) PROVE Closes(y, k, i)
  <2>1. CASE i \in 1 .. Len(l)
    <3>1. 1 \in 1 .. Len(l)
      BY <1>1, <2>1
    <3>2. k[1].type = "accepted"
      BY <1>3, <1>4, <3>1
    <3>3. k[i].type \in {"accepted", "delta"} /\ (k[i].type = "accepted" <=> i = 1)
      BY <1>3, <1>4, <2>1
    <3> QED
      BY <3>2, <3>3 DEF Closes
  <2>2. CASE i = Len(k)
    <3>1. k[i].type = type
      BY <1>2, <1>3, <2>2
    <3>2. type = "completed" => k[1].type = "accepted"
      <4> SUFFICES ASSUME type = "completed" PROVE k[1].type = "accepted"
        OBVIOUS
      <4>1. 1 \in 1 .. Len(l)
        BY <1>1
      <4> QED
        BY <1>3, <1>4, <4>1
    <3> QED
      BY <2>2, <3>1, <3>2 DEF Closes
  <2> QED
    BY <1>5, <2>1, <2>2
<1>8. y.state = "committed" => \E i \in 1 .. Len(k) : k[i].type = "completed"
  <2>1. Len(k) \in 1 .. Len(k)
    BY <1>1, <1>3
  <2> QED
    BY <1>2, <1>3, <2>1
<1>9. y.seq = Len(k) - 1
  BY <1>1, <1>3
<1>10. Over(y, k)
  BY <1>3, <1>6, <1>7, <1>8, <1>9 DEF Over
<1> QED
  BY <1>10 DEF k, e

LEMMA StoppedRow ==
    ASSUME NEW x, NEW l, NEW w \in Tokens, Waits(x, l) \/ (Worked(x, l) /\ x.token = w),
           NEW target \in {"failed", "timed_out", "cancelled"}, NEW retryable \in BOOLEAN,
           NEW type, type = IF target = "cancelled" THEN "cancelled" ELSE "failed"
    PROVE  LET y == EndRow(AcceptEventRow(x, x.seq + 1), target, retryable)
           IN  /\ Over(y, Append(l, [type |-> type, by |-> w]))
               /\ y.state = target /\ y.slot = x.slot
<1>1. x \in Row /\ x.seq + 1 \in Nat
  BY RowTypes DEF Waits, Worked
<1> DEFINE x1 == AcceptEventRow(x, x.seq + 1)
           y == EndRow(x1, target, retryable)
<1>2. x1 \in Row /\ x1.seq = x.seq + 1 /\ x1.slot = x.slot
  BY <1>1, SeqRow
<1> HIDE DEF x1
<1>3. /\ y \in Row /\ y.state = target /\ y.token = NoToken /\ y.seq = x.seq + 1
      /\ y.slot = x.slot
  <2>1. target \in Terminal
    BY StateFacts
  <2>2. /\ y \in Row /\ y.state = target /\ y.token = NoToken /\ y.seq = x1.seq
        /\ y.slot = x1.slot
    BY <1>2, <2>1, EndedRow
  <2> HIDE DEF y
  <2> QED
    BY <1>2, <2>2
<1> HIDE DEF y
<1>4. Over(y, Append(l, [type |-> type, by |-> w]))
  BY <1>3, ClosedLog, StateFacts
<1> QED
  BY <1>3, <1>4 DEF y, x1

LEMMA CommittedRow ==
    ASSUME NEW x, NEW l, NEW w \in Tokens, Worked(x, l), x.token = w, x.seq >= 0, NEW n \in Nat
    PROVE  LET y == FinalizeRow(AcceptEventRow(x, x.seq + 1), n)
           IN  /\ Over(y, Append(l, [type |-> "completed", by |-> w]))
               /\ y.state = "committed" /\ y.slot = x.slot
<1>1. x \in Row /\ x.seq + 1 \in Nat
  BY RowTypes DEF Worked
<1> DEFINE x1 == AcceptEventRow(x, x.seq + 1)
           x2 == EndRow(x1, "committed", FALSE)
           y == [x2 EXCEPT !.answer = n]
<1>2. x1 \in Row /\ x1.seq = x.seq + 1 /\ x1.slot = x.slot
  BY <1>1, SeqRow
<1> HIDE DEF x1
<1>3. /\ x2 \in Row /\ x2.state = "committed" /\ x2.token = NoToken /\ x2.seq = x.seq + 1
      /\ x2.slot = x.slot /\ x2.retryable = FALSE
  <2>1. "committed" \in Terminal /\ FALSE \in BOOLEAN
    BY StateFacts
  <2>2. /\ x2 \in Row /\ x2.state = "committed" /\ x2.token = NoToken /\ x2.seq = x1.seq
        /\ x2.slot = x1.slot /\ x2.retryable = FALSE
    BY <1>2, <2>1, EndedRow
  <2> HIDE DEF x2
  <2> QED
    BY <1>2, <2>2
<1> HIDE DEF x2
<1>4. /\ y \in Row /\ y.state = "committed" /\ y.token = NoToken /\ y.seq = x.seq + 1
      /\ y.slot = x.slot /\ y.retryable = FALSE
  BY <1>3 DEF Row
<1> HIDE DEF y
<1>5. Over(y, Append(l, [type |-> "completed", by |-> w]))
  BY <1>4, ClosedLog, StateFacts
<1>6. FinalizeRow(x1, n) = y
  BY DEF FinalizeRow, y, x2
<1> QED
  BY <1>4, <1>5, <1>6 DEF x1

----------------------------------------------------------------------------
(* The streams. *)
Notes == [type : EventTypes, seq : Int]

Records == [state : States \cup {"absent"}, gen : Nat, seq : Nat \cup {-1},
            token : Tokens \cup {NoToken}]

RunRows == [pc : RunStates, req : Requests \cup {NoRequest}, rec : Records,
            target : {"none", "cancelled", "timed_out", "failed"}, pending : Seq(Notes)]

Holding == {"preleased", "preaccepted", "leased", "working", "broken"}

(* What a client is told of a request stands. *)
Durable(r, type) ==
    /\ type = "completed" => row[r].state = "committed"
    /\ type = "failed" => IsTerminal(row[r]) /\ row[r].state # "committed"

(* The record of a stream that has read its request before any lease. *)
SeenWaiting == [state |-> "accepted", gen |-> 0, seq |-> -1, token |-> NoToken]

(* The events of a stream its record does not know of. *)
Unknown(pc) == IF pc \in {"preaccepted", "broken"} THEN 1 ELSE 0

(* A stream with a lease has it still, and its record is that of the row, or  *)
(* the request is over.                                                       *)
Holds(w, x) ==
    /\ x.rec.gen = 1 /\ x.rec.token = w
    /\ \/ IsTerminal(row[x.req])
       \/ /\ row[x.req].token = w
          /\ row[x.req].state = x.rec.state
          /\ row[x.req].seq = x.rec.seq + Unknown(x.pc)

RunView(w, x) ==
    /\ x.pc \in {"idle", "done"} => x.pending = <<>>
    /\ x.pc \notin {"idle", "done"} => x.req \in Requests /\ Exists(row[x.req])
    /\ Len(x.pending) <= 2
    /\ \A i \in 1 .. Len(x.pending) : Durable(x.req, x.pending[i].type)
    /\ x.pc = "start" => x.rec = SeenWaiting
    /\ x.pc \in Holding => Holds(w, x)
    /\ x.pc \in {"preleased", "preaccepted"} => x.rec.state = "lease_acquired"
    /\ x.pc \in {"preleased", "preaccepted", "leased"} => x.rec.seq = -1
    /\ x.pc = "working" => x.rec.seq # -1
    /\ x.pc = "stopping" => /\ x.target \in {"cancelled", "timed_out", "failed"}
                            /\ Holds(w, x) \/ x.rec = SeenWaiting

(* A lease belongs to the stream it names, which has it or is gone. *)
Owns(y, r) ==
    \/ y.pc \in {"done", "ended"}
    \/ y.pc \in Holding \cup {"stopping"} /\ y.req = r /\ y.rec.gen = 1

RunPart ==
    /\ run \in [Tokens -> RunRows]
    /\ \A w \in Tokens, x \in RunRows : x = run[w] => RunView(w, x)
    /\ \A r \in Requests, w \in Tokens :
          Exists(row[r]) /\ row[r].token = w => Owns(run[w], r)

TellPart ==
    /\ told \in [Requests -> SUBSET {"completed", "failed"}]
    /\ \A r \in Requests : \A type \in told[r] : Durable(r, type)

Listed == [id : Requests, key : Keys]
UserMessages == [role : {"user"}, slot : Slots, key : Keys]
AnswerMessages == [role : {"assistant"}, slot : Slots, by : Tokens]

ThreadPart ==
    /\ requests \in [Threads -> Seq(Listed)]
    /\ messages \in [Threads -> Seq(UserMessages \cup AnswerMessages)]
    /\ \A r \in Requests : Exists(row[r]) => \E t \in Threads : r \in RequestsOf(t)
    /\ \A t \in Threads : \A i \in DOMAIN messages[t] :
          messages[t][i].role = "user" => messages[t][i].key \in KeysOf(t)
    /\ SentOnce

IInv == RowPart /\ RunPart /\ TellPart /\ ThreadPart /\ now \in 0 .. MaxNow

----------------------------------------------------------------------------
(* What a step of stream w may do to a row, as far as others notice; a row is *)
(* inserted by no stream.                                                     *)
Change(w, x, y) ==
    \/ y = x
    \/ w = NoToken /\ ~Exists(x) /\ y \in Row /\ y.state = "accepted" /\ y.token = NoToken
    \/ /\ IsActive(x) /\ y \in Row /\ y.slot = x.slot
       /\ \/ IsTerminal(y) /\ y.token = NoToken
          \/ x.token \in {w, NoToken} /\ y.token = w

Moves(w) == \A r \in Requests : Change(w, row[r], row'[r])

LEMMA MovedRow ==
    ASSUME RowPart, NEW w, Moves(w), NEW r \in Requests
    PROVE  /\ Exists(row[r]) => Exists(row'[r])
           /\ IsTerminal(row[r]) => row'[r] = row[r]
           /\ \A v \in Tokens \ {w} :
                 /\ row[r].token = v /\ Exists(row[r]) => row'[r] = row[r] \/ IsTerminal(row'[r])
                 /\ row'[r].token = v /\ Exists(row'[r]) => row'[r] = row[r]
           /\ w # NoToken /\ Exists(row'[r]) => Exists(row[r])
<1>1. Change(w, row[r], row'[r])
  BY DEF Moves
<1>2. \A x \in Row : Exists(x)
  BY RowTypes
<1>3. IsTerminal(row[r]) => ~IsActive(row[r]) /\ Exists(row[r])
  BY StateFacts DEF IsTerminal, IsActive, Exists, States
<1>4. NoToken \notin Tokens
  BY NullAssumption
<1>5. CASE row'[r] = row[r]
  BY <1>5
<1>6. CASE w = NoToken /\ ~Exists(row[r]) /\ row'[r] \in Row /\ row'[r].token = NoToken
  <2>1. Exists(row'[r])
    BY <1>2, <1>6
  <2> QED
    BY <1>3, <1>4, <1>6, <2>1
<1>7. CASE /\ IsActive(row[r]) /\ row'[r] \in Row
           /\ \/ IsTerminal(row'[r]) /\ row'[r].token = NoToken
              \/ row[r].token \in {w, NoToken} /\ row'[r].token = w
  <2>1. Exists(row[r]) /\ Exists(row'[r])
    BY <1>2, <1>7, StateFacts DEF IsActive, Exists
  <2> QED
    BY <1>3, <1>4, <1>7, <2>1
<1> QED
  BY <1>1, <1>5, <1>6, <1>7 DEF Change

LEMMA DurableKept ==
    ASSUME RowPart, NEW w, Moves(w), NEW r \in Requests, NEW type, Durable(r, type)
    PROVE  Durable(r, type)'
<1>1. "committed" \in Terminal
  BY StateFacts
<1> QED
  BY <1>1, MovedRow DEF Durable, IsTerminal

(* What a stream knows survives the steps of others. *)
LEMMA ViewKept ==
    ASSUME RowPart, NEW w, Moves(w), NEW v \in Tokens \ {w}, NEW x \in RunRows, RunView(v, x)
    PROVE  RunView(v, x)'
<1>1. ASSUME x.pc \notin {"idle", "done"}
      PROVE  x.req \in Requests /\ Exists(row'[x.req])
  BY <1>1, MovedRow DEF RunView
<1>2. ASSUME NEW i \in 1 .. Len(x.pending) PROVE Durable(x.req, x.pending[i].type)'
  <2>1. x.pc \notin {"idle", "done"}
    BY DEF RunView
  <2> QED
    BY <2>1, DurableKept DEF RunView
<1>3. ASSUME x.pc \in Holding \cup {"stopping"}, Holds(v, x)
      PROVE  Holds(v, x)'
  <2>1. x.req \in Requests /\ Exists(row[x.req])
    BY <1>3 DEF RunView, Holding
  <2>2. row'[x.req] = row[x.req] \/ IsTerminal(row'[x.req])
    BY <1>3, <2>1, MovedRow DEF Holds
  <2> QED
    BY <1>3, <2>2 DEF Holds
<1> QED
  BY <1>1, <1>2, <1>3 DEF RunView

(* Stream w takes a step and has record y after it. *)
LEMMA RunsKept ==
    ASSUME RowPart, RunPart, NEW w \in Tokens, Moves(w), NEW y \in RunRows,
           run' = [run EXCEPT ![w] = y], RunView(w, y)',
           \A r \in Requests : Exists(row'[r]) /\ row'[r].token = w => Owns(y, r)
    PROVE  RunPart'
<1>1. /\ run' \in [Tokens -> RunRows] /\ run'[w] = y
      /\ \A v \in Tokens \ {w} : run'[v] = run[v]
  BY DEF RunPart
<1>2. ASSUME NEW v \in Tokens, NEW x \in RunRows, x = run'[v]
      PROVE  RunView(v, x)'
  <2>1. CASE v = w
    <3>1. x = y
      BY <1>1, <1>2, <2>1
    <3> QED
      BY <2>1, <3>1
  <2>2. CASE v # w
    <3>1. x = run[v]
      BY <1>1, <1>2, <2>2
    <3>2. RunView(v, x)
      BY <3>1 DEF RunPart
    <3> QED
      BY <2>2, <3>2, ViewKept
  <2> QED
    BY <2>1, <2>2
<1>3. ASSUME NEW r \in Requests, NEW v \in Tokens, Exists(row'[r]), row'[r].token = v
      PROVE  Owns(run'[v], r)
  <2>1. CASE v = w
    BY <1>1, <1>3, <2>1
  <2>2. CASE v # w
    <3>1. row'[r] = row[r]
      BY <1>3, <2>2, MovedRow
    <3>2. Owns(run[v], r)
      BY <1>3, <3>1 DEF RunPart
    <3> QED
      BY <1>1, <2>2, <3>2
  <2> QED
    BY <2>1, <2>2
<1> QED
  BY <1>1, <1>2, <1>3 DEF RunPart, Exists

(* A step of nobody, or of a client, leaves the streams alone. *)
LEMMA RunsStay ==
    ASSUME RowPart, RunPart, Moves(NoToken), run' = run
    PROVE  RunPart'
<1>1. \A v \in Tokens : v \in Tokens \ {NoToken}
  BY NullAssumption
<1>2. ASSUME NEW v \in Tokens, NEW x \in RunRows, x = run'[v]
      PROVE  RunView(v, x)'
  BY <1>1, <1>2, ViewKept DEF RunPart
<1>3. ASSUME NEW r \in Requests, NEW v \in Tokens, Exists(row'[r]), row'[r].token = v
      PROVE  Owns(run'[v], r)
  BY <1>1, <1>3, MovedRow DEF RunPart
<1> QED
  BY <1>2, <1>3 DEF RunPart, Exists

LEMMA ToldKept ==
    ASSUME RowPart, TellPart, NEW w, Moves(w), told' = told
    PROVE  TellPart'
<1>1. ASSUME NEW r \in Requests, NEW type \in told[r] PROVE Durable(r, type)'
  BY DurableKept DEF TellPart
<1> QED
  BY <1>1 DEF TellPart

LEMMA ThreadsStay ==
    ASSUME ThreadPart, UNCHANGED <<requests, messages>>,
           \A r \in Requests : Exists(row'[r]) => Exists(row[r])
    PROVE  ThreadPart'
BY DEF ThreadPart, RequestsOf, KeysOf, SentOnce, Exists

LEMMA ThreadsKept ==
    ASSUME RowPart, ThreadPart, NEW w \in Tokens, Moves(w), UNCHANGED <<requests, messages>>
    PROVE  ThreadPart'
<1>1. w # NoToken
  BY NullAssumption
<1>2. \A r \in Requests : Exists(row'[r]) => Exists(row[r])
  BY <1>1, MovedRow
<1> QED
  BY <1>2, ThreadsStay

LEMMA StepKept ==
    ASSUME IInv, RowPart', NEW w \in Tokens, Moves(w), RunPart',
           UNCHANGED <<requests, messages, told, now>>
    PROVE  IInv' /\ Moves(w)
BY ToldKept, ThreadsKept DEF IInv

----------------------------------------------------------------------------
(* Rows in the table. *)
LEMMA ViewTypes ==
    ASSUME NEW x, NEW l, RowView(x, l)
    PROVE  x \in Row \cup {AbsentRow} /\ l \in Seq(Entries)
<1>1. <<>> \in Seq(Entries)
  OBVIOUS
<1> QED
  BY <1>1 DEF RowView, Waits, Worked, Over

Writes(w, r, y, l) ==
    /\ row' = [row EXCEPT ![r] = y] /\ log' = [log EXCEPT ![r] = l]
    /\ RowView(y, l) /\ Change(w, row[r], y)

LEMMA OneRowMoves ==
    ASSUME RowPart, NEW w, NEW r \in Requests, NEW y, NEW l, Writes(w, r, y, l)
    PROVE  /\ RowPart' /\ Moves(w) /\ row'[r] = y
           /\ \A q \in Requests \ {r} : row'[q] = row[q]
<1>1. /\ row'[r] = y /\ log'[r] = l
      /\ \A q \in Requests \ {r} : row'[q] = row[q] /\ log'[q] = log[q]
  BY DEF RowPart, Writes
<1>2. y \in Row \cup {AbsentRow} /\ l \in Seq(Entries)
  BY ViewTypes DEF Writes
<1>3. row' \in [Requests -> Row \cup {AbsentRow}] /\ log' \in [Requests -> Seq(Entries)]
  BY <1>2 DEF RowPart, Writes
<1>4. \A q \in Requests : RowView(row'[q], log'[q])
  BY <1>1 DEF RowPart, Writes
<1>5. Moves(w)
  <2> SUFFICES ASSUME NEW q \in Requests PROVE Change(w, row[q], row'[q])
    BY DEF Moves
  <2>1. CASE q = r
    BY <1>1, <2>1 DEF Writes
  <2>2. CASE q # r
    BY <1>1, <2>2 DEF Change
  <2> QED
    BY <2>1, <2>2
<1> QED
  BY <1>1, <1>3, <1>4, <1>5 DEF RowPart

LEMMA RowsStay ==
    ASSUME RowPart, NEW w, UNCHANGED <<row, log>>
    PROVE  RowPart' /\ Moves(w)
BY DEF RowPart, Moves, Change

(* A row without a log entry is as it was read. *)
LEMMA RowKinds ==
    ASSUME RowPart, NEW r \in Requests
    PROVE  /\ row[r].state = "accepted" => Waits(row[r], log[r])
           /\ Exists(row[r]) /\ row[r].token \in Tokens => Worked(row[r], log[r])
           /\ IsActive(row[r]) => Waits(row[r], log[r]) \/ Worked(row[r], log[r])
           /\ Exists(row[r]) <=> row[r] \in Row
           /\ Exists(row[r]) /\ ~IsActive(row[r]) => IsTerminal(row[r]) /\ Over(row[r], log[r])
           /\ IsTerminal(row[r]) => Exists(row[r]) /\ Over(row[r], log[r])
<1>1. RowView(row[r], log[r])
  BY DEF RowPart
<1>2. CASE row[r] = AbsentRow
  <2>1. row[r].state = "absent" /\ row[r] \notin Row
    BY <1>2, RowTypes DEF AbsentRow
  <2> QED
    BY <2>1, StateFacts DEF Exists, IsActive, IsTerminal, States
<1>3. CASE Waits(row[r], log[r])
  BY <1>3, StateFacts, NullAssumption, RowTypes DEF Waits, IsActive, IsTerminal, Exists
<1>4. CASE Worked(row[r], log[r])
  BY <1>4, StateFacts, RowTypes DEF Worked, IsActive, IsTerminal, Exists
<1>5. CASE Over(row[r], log[r])
  BY <1>5, StateFacts, NullAssumption, RowTypes DEF Over, IsActive, IsTerminal, Exists
<1> QED
  BY <1>1, <1>2, <1>3, <1>4, <1>5 DEF RowView

(* A recovery ends rows of the backlog and leaves the others. *)
LEMMA RecoveryRows ==
    ASSUME RowPart, NEW r, Recovers(r)
    PROVE  /\ row' = [q \in Requests |-> row'[q]]
           /\ \A q \in Requests :
                 row'[q] = row[q] \/ (IsActive(row[q]) /\ row'[q] = RecoverRow(row[q], now))
<1>1. CASE row' = row
  BY <1>1 DEF RowPart
<1>2. CASE row' # row
  <2>1. PICK batch \in SUBSET Backlog : RecoverBatch(batch)
    BY <1>2 DEF Recovers, Batches
  <2> QED
    BY <2>1 DEF RecoverBatch, Backlog, Expired
<1> QED
  BY <1>1, <1>2

LEMMA RecoveredRows ==
    ASSUME RowPart, NEW w, NEW r, Recovers(r), log' = log
    PROVE  /\ RowPart' /\ Moves(w)
           /\ \A q \in Requests : row'[q] = row[q]
                                  \/ (IsTerminal(row'[q]) /\ row'[q].state # "committed")
           /\ \A q \in Requests : Exists(row'[q]) => Exists(row[q])
<1>1. \A q \in Requests : row'[q] = row[q] \/ (IsActive(row[q]) /\ row'[q] = RecoverRow(row[q], now))
  BY RecoveryRows
<1>2. row' = [q \in Requests |-> row'[q]]
  BY RecoveryRows
<1>3. ASSUME NEW q \in Requests, IsActive(row[q]), row'[q] = RecoverRow(row[q], now)
      PROVE  Over(row'[q], log[q]) /\ row'[q].state # "committed" /\ row'[q].slot = row[q].slot
  BY <1>3, RowKinds, RecoveredRow
<1>4. \A q \in Requests : RowView(row'[q], log'[q])
  BY <1>1, <1>3 DEF RowPart, RowView
<1>5. \A q \in Requests : Change(w, row[q], row'[q])
  BY <1>1, <1>3 DEF Change, Over, IsTerminal
<1>6. row' \in [Requests -> Row \cup {AbsentRow}]
  BY <1>2, <1>4, ViewTypes
<1>7. \A q \in Requests : IsActive(row[q]) => Exists(row[q])
  BY StateFacts DEF IsActive, Exists
<1> QED
  BY <1>1, <1>3, <1>4, <1>5, <1>6, <1>7 DEF RowPart, Moves, Over, IsTerminal

----------------------------------------------------------------------------
(* A stream goes on, or ends. *)
LEMMA RunTypes ==
    ASSUME NEW x \in RunRows
    PROVE  /\ x.pc \in RunStates /\ x.req \in Requests \cup {NoRequest} /\ x.rec \in Records
           /\ x.target \in {"none", "cancelled", "timed_out", "failed"}
           /\ x.pending \in Seq(Notes)
BY DEF RunRows

LEMMA RecordTypes ==
    ASSUME NEW x \in Row
    PROVE  /\ RecordOf(x) \in Records
           /\ RecordOf(x).state = x.state /\ RecordOf(x).gen = x.gen
           /\ RecordOf(x).seq = x.seq /\ RecordOf(x).token = x.token
BY RowTypes DEF RecordOf, Records

LEMMA EndedRun ==
    /\ Ended \in RunRows /\ Ended.pc = "done" /\ Ended.pending = <<>>
    /\ Fresh \in RunRows /\ Fresh.pc = "idle" /\ Fresh.pending = <<>>
<1>1. NoRecord \in Records
  BY DEF NoRecord, Records
<1>2. <<>> \in Seq(Notes)
  OBVIOUS
<1>3. Fresh \in RunRows /\ Fresh.pc = "idle" /\ Fresh.pending = <<>>
  BY <1>1, <1>2 DEF Fresh, RunRows, RunStates
<1>4. Ended \in RunRows /\ Ended.pc = "done" /\ Ended.pending = <<>>
  BY <1>3 DEF Ended, RunRows, RunStates
<1> QED
  BY <1>3, <1>4

LEMMA GoneKept ==
    ASSUME RowPart, RunPart, NEW w \in Tokens, Moves(w), run' = [run EXCEPT ![w] = Ended]
    PROVE  RunPart'
<1>1. Ended.pc = "done" /\ Ended.pending = <<>>
  BY EndedRun
<1>2. Len(Ended.pending) <= 2 /\ 1 .. Len(Ended.pending) = {}
  BY <1>1
<1>3. RunView(w, Ended)'
  BY <1>1, <1>2 DEF RunView, Holding
<1> QED
  BY <1>1, <1>3, EndedRun, RunsKept DEF Owns

(* The stream has nothing more to do than to tell these events. *)
LEMMA FinishKept ==
    ASSUME RowPart, RunPart, RowPart', NEW w \in Tokens, Moves(w),
           NEW x \in RunRows, x = run[w], x.pc \notin {"idle", "done"},
           NEW events \in Seq(Notes), Len(events) <= 2, Finish(w, events),
           \A i \in 1 .. Len(events) : Durable(x.req, events[i].type)'
    PROVE  RunPart'
<1>1. CASE events = <<>>
  <2>1. run' = [run EXCEPT ![w] = Ended]
    BY <1>1 DEF Finish
  <2> QED
    BY <2>1, GoneKept
<1>2. CASE events # <<>>
  <2> DEFINE y == [x EXCEPT !.pc = "ended", !.pending = events]
  <2>1. y \in RunRows /\ y.pc = "ended" /\ y.pending = events /\ y.req = x.req
    BY DEF RunRows, RunStates
  <2>2. run' = [run EXCEPT ![w] = y]
    BY <1>2 DEF Finish
  <2> HIDE DEF y
  <2>3. x.req \in Requests /\ Exists(row'[x.req])
    BY MovedRow DEF RunPart, RunView
  <2>4. RunView(w, y)'
    BY <2>1, <2>3 DEF RunView, Holding
  <2> QED
    BY <2>1, <2>2, <2>4, RunsKept DEF Owns
<1> QED
  BY <1>1, <1>2

(* The stream goes on with the lease; z is the row of its request after it. *)
Goes(w, x, pc, rec, events, z) ==
    /\ x = run[w] /\ x.pc \in Holding \cup {"start"}
    /\ pc \in Holding /\ rec \in Records
    /\ events \in Seq(Notes) /\ Len(events) <= 1
    /\ \A i \in 1 .. Len(events) : events[i].type \in {"accepted", "delta"}
    /\ Continue(w, pc, rec, events)
    /\ z \in Row /\ row'[x.req] = z /\ \A q \in Requests \ {x.req} : row'[q] = row[q]
    /\ rec.gen = 1 /\ rec.token = w /\ z.token = w
    /\ z.state = rec.state /\ z.seq = rec.seq + Unknown(pc)
    /\ pc \in {"preleased", "preaccepted"} => rec.state = "lease_acquired"
    /\ pc \in {"preleased", "preaccepted", "leased"} => rec.seq = -1
    /\ pc = "working" => rec.seq # -1

LEMMA ContinueKept ==
    ASSUME RowPart, RunPart, NEW w \in Tokens, Moves(w), NEW x \in RunRows, NEW pc, NEW rec,
           NEW events, NEW z, Goes(w, x, pc, rec, events, z)
    PROVE  RunPart'
<1> USE DEF Goes
<1> DEFINE y == [x EXCEPT !.pc = pc, !.rec = rec, !.pending = events]
<1>1. y \in RunRows /\ y.pc = pc /\ y.rec = rec /\ y.pending = events /\ y.req = x.req
  BY DEF RunRows, RunStates, Holding
<1>2. run' = [run EXCEPT ![w] = y]
  BY DEF Continue
<1> HIDE DEF y
<1>3. x.pc \notin {"idle", "done", "ended"} /\ pc \notin {"idle", "done", "start", "stopping"}
  BY DEF Holding
<1>4. x.req \in Requests /\ Exists(z)
  BY <1>3, RowTypes DEF RunPart, RunView
<1>5. Holds(w, y)'
  BY <1>1 DEF Holds
<1>6. Len(events) \in Nat
  BY LenProperties
<1>7. \A i \in 1 .. Len(events) : Durable(y.req, events[i].type)'
  BY DEF Durable
<1>8. RunView(w, y)'
  BY <1>1, <1>3, <1>4, <1>5, <1>6, <1>7 DEF RunView
<1>9. ASSUME NEW r \in Requests, Exists(row'[r]), row'[r].token = w PROVE Owns(y, r)
  <2>1. CASE r = x.req
    BY <1>1, <2>1 DEF Owns
  <2>2. CASE r # x.req
    <3>1. Owns(x, r)
      BY <1>9, <2>2 DEF RunPart
    <3> QED
      BY <1>3, <2>2, <3>1 DEF Owns
  <2> QED
    BY <2>1, <2>2
<1> QED
  BY <1>1, <1>2, <1>8, <1>9, RunsKept

----------------------------------------------------------------------------
(* The steps of a stream. *)
LEMMA RunFacts ==
    ASSUME IInv, NEW w \in Tokens, NEW x, x = run[w]
    PROVE  /\ x \in RunRows /\ RunView(w, x)
           /\ x.pc \notin {"idle", "done"} =>
                 x.req \in Requests /\ Exists(row[x.req]) /\ row[x.req] \in Row
           /\ x.pc \in Holding /\ ~IsTerminal(row[x.req]) =>
                 /\ Worked(row[x.req], log[x.req]) /\ row[x.req].token = w
                 /\ row[x.req].gen = x.rec.gen /\ x.rec.token = w
                 /\ row[x.req].state = x.rec.state
                 /\ row[x.req].seq = x.rec.seq + Unknown(x.pc)
<1>1. x \in RunRows /\ RunView(w, x)
  BY DEF IInv, RunPart
<1>2. x.pc \notin {"idle", "done"} =>
         x.req \in Requests /\ Exists(row[x.req]) /\ row[x.req] \in Row
  BY <1>1, RowKinds DEF RunView, IInv
<1>3. ASSUME x.pc \in Holding, ~IsTerminal(row[x.req])
      PROVE  /\ Worked(row[x.req], log[x.req]) /\ row[x.req].token = w
             /\ row[x.req].gen = x.rec.gen /\ x.rec.token = w
             /\ row[x.req].state = x.rec.state
             /\ row[x.req].seq = x.rec.seq + Unknown(x.pc)
  <2>1. x.pc \notin {"idle", "done"}
    BY <1>3 DEF Holding
  <2>2. /\ row[x.req].token = w /\ x.rec.gen = 1 /\ x.rec.token = w
        /\ row[x.req].state = x.rec.state
        /\ row[x.req].seq = x.rec.seq + Unknown(x.pc)
    BY <1>1, <1>3 DEF RunView, Holds
  <2>3. Worked(row[x.req], log[x.req])
    BY <1>2, <2>1, <2>2, RowKinds DEF IInv
  <2> QED
    BY <2>2, <2>3 DEF Worked
<1> QED
  BY <1>1, <1>2, <1>3

LEMMA TerminalNote ==
    ASSUME NEW x \in Row, IsTerminal(x)
    PROVE  /\ TerminalEvent(x) \in Notes
           /\ TerminalEvent(x).type = IF x.state = "committed" THEN "completed" ELSE "failed"
<1>1. x.seq \in Int
  BY RowTypes
<1> QED
  BY <1>1 DEF TerminalEvent, Event, Notes, EventTypes

LEMMA OneNote ==
    ASSUME NEW e \in Notes
    PROVE  /\ <<e>> \in Seq(Notes) /\ Len(<<e>>) <= 1 /\ Len(<<e>>) <= 2
           /\ \A i \in 1 .. Len(<<e>>) : <<e>>[i] = e
OBVIOUS

LEMMA NoNotes ==
    /\ <<>> \in Seq(Notes) /\ Len(<<>>) <= 1 /\ Len(<<>>) <= 2
    /\ \A i \in 1 .. Len(<<>>) : FALSE
OBVIOUS

(* A request that is over is answered with its ending. *)
LEMMA ReplayKept ==
    ASSUME IInv, NEW w \in Tokens, NEW x \in RunRows, x = run[w],
           x.pc \notin {"idle", "done"}, IsTerminal(row[x.req]),
           Finish(w, <<TerminalEvent(row[x.req])>>),
           UNCHANGED <<row, requests, messages, log, told, now>>
    PROVE  IInv' /\ Moves(w)
<1>1. x.req \in Requests /\ row[x.req] \in Row
  BY RunFacts
<1> DEFINE e == TerminalEvent(row[x.req])
<1>2. e \in Notes /\ e.type = IF row[x.req].state = "committed" THEN "completed" ELSE "failed"
  BY <1>1, TerminalNote
<1>3. Durable(x.req, e.type)'
  <2> PICK type : type = e.type
    OBVIOUS
  <2>1. Durable(x.req, type)
    BY <1>2 DEF Durable
  <2>2. row' = row
    OBVIOUS
  <2>3. Durable(x.req, type)'
    BY <2>1, <2>2 DEF Durable, IsTerminal
  <2> QED
    BY <1>2, <2>3 DEF Durable
<1> HIDE DEF e
<1>4. PICK c \in Notes : c = e
  BY <1>2
<1>5. Durable(x.req, c.type)'
  BY <1>2, <1>3, <1>4 DEF Durable
<1>6. RowPart' /\ Moves(w)
  BY RowsStay DEF IInv
<1>7. <<c>> \in Seq(Notes) /\ Len(<<c>>) <= 2 /\ \A i \in 1 .. Len(<<c>>) : <<c>>[i] = c
  BY OneNote
<1>8. Finish(w, <<c>>)
  BY <1>4 DEF e
<1>9. RunPart'
  <2>1. \A i \in 1 .. Len(<<c>>) : Durable(x.req, <<c>>[i].type)'
    BY <1>5, <1>7 DEF Durable
  <2> QED
    BY <1>6, <1>7, <1>8, <2>1, FinishKept, Zenon DEF IInv
<1> QED
  BY <1>6, <1>9, StepKept

(* A stream that only ends. *)
LEMMA LeaveKept ==
    ASSUME IInv, NEW w \in Tokens, run[w].pc \notin {"idle", "done"}, Finish(w, <<>>),
           UNCHANGED <<row, requests, messages, log, told, now>>
    PROVE  IInv' /\ Moves(w)
<1> PICK x \in RunRows : x = run[w]
  BY DEF IInv, RunPart
<1>1. RowPart' /\ Moves(w)
  BY RowsStay DEF IInv
<1>2. RunPart'
  BY <1>1, NoNotes, FinishKept, Zenon DEF IInv
<1> QED
  BY <1>1, <1>2, StepKept

(* A stream takes the request; the two callers differ in the term. *)
LEMMA TakeKept ==
    ASSUME IInv, NEW w \in Tokens, NEW x \in RunRows, x = run[w], x.pc = "start",
           NEW expiry \in Nat, CanAcquire(row[x.req], now, expiry), row' = Took(w, expiry),
           NEW pc \in {"preleased", "leased"},
           Continue(w, pc, RecordOf(row'[x.req]), <<>>) \/ Finish(w, <<>>),
           UNCHANGED <<requests, messages, log, told, now>>
    PROVE  IInv' /\ Moves(w)
<1>1. x.req \in Requests /\ row[x.req] \in Row
  BY RunFacts
<1>2. Waits(row[x.req], log[x.req])
  BY <1>1, RowKinds DEF CanAcquire, IInv
<1> PICK z : z = AcquireRow(row[x.req], w, expiry)
  OBVIOUS
<1>3. PICK l : l = log[x.req]
  OBVIOUS
<1>4. /\ Worked(z, l) /\ z.token = w /\ z.state = "lease_acquired" /\ z.seq = -1
      /\ z.slot = row[x.req].slot
  BY <1>2, <1>3, AcquiredRow
<1>5. z \in Row /\ z.gen = 1
  BY <1>4 DEF Worked
<1>6. row' = [row EXCEPT ![x.req] = z]
  BY <1>1 DEF Took, IInv, RowPart
<1>7. Change(w, row[x.req], z)
  BY <1>2, <1>4, <1>5, StateFacts DEF Change, Waits, IsActive
<1>8. log' = [log EXCEPT ![x.req] = l]
  BY <1>1, <1>3 DEF IInv, RowPart
<1>9. RowPart' /\ Moves(w) /\ row'[x.req] = z /\ \A q \in Requests \ {x.req} : row'[q] = row[q]
  <2>1. Writes(w, x.req, z, l)
    BY <1>4, <1>6, <1>7, <1>8 DEF Writes, RowView
  <2>2. RowPart
    BY DEF IInv
  <2>3. PICK r \in Requests : r = x.req
    BY <1>1
  <2>4. Writes(w, r, z, l)
    BY <2>1, <2>3
  <2>5. RowPart' /\ Moves(w) /\ row'[r] = z /\ \A q \in Requests \ {r} : row'[q] = row[q]
    BY <2>2, <2>4, OneRowMoves
  <2> QED
    BY <2>3, <2>5
<1>10. RunPart'
  <2>1. CASE Continue(w, pc, RecordOf(row'[x.req]), <<>>)
    <3> PICK rec : rec = RecordOf(z)
      OBVIOUS
    <3>1. /\ rec \in Records /\ rec.state = z.state /\ rec.gen = z.gen
          /\ rec.seq = z.seq /\ rec.token = z.token
      BY <1>5, RecordTypes
    <3>2. Continue(w, pc, rec, <<>>)
      BY <1>9, <2>1
    <3>3. pc \in Holding /\ pc # "working" /\ Unknown(pc) = 0 /\ rec.seq = -1 /\ rec.seq = rec.seq + Unknown(pc)
      BY <1>4, <3>1 DEF Holding, Unknown
    <3> QED
      <4>1. Goes(w, x, pc, rec, <<>>, z)
        BY <1>4, <1>5, <1>9, <3>1, <3>2, <3>3, NoNotes DEF Goes
      <4> QED
        BY <1>9, <4>1, ContinueKept DEF IInv
  <2>2. CASE Finish(w, <<>>)
    <3>1. x.pc \notin {"idle", "done"}
      OBVIOUS
    <3> QED
      BY <1>9, <2>2, <3>1, NoNotes, FinishKept, Zenon DEF IInv
  <2> QED
    BY <2>1, <2>2
<1> QED
  BY <1>9, <1>10, StepKept

LEMMA ExpiryTypes ==
    ASSUME IInv, NEW r \in Requests, Exists(row[r]), NEW term \in Nat
    PROVE  Lesser(row[r].deadline, now + term) \in Nat
BY RowKinds, RowTypes, TermsAssumption DEF Lesser, IInv

LEMMA PreAcquireKept ==
    ASSUME IInv, NEW w \in Tokens, PreAcquire(w)
    PROVE  IInv' /\ Moves(w)
<1> PICK x \in RunRows : x = run[w]
  BY DEF IInv, RunPart
<1> PICK expiry : expiry = Lesser(row[x.req].deadline, now + PreLeaseTerm)
  OBVIOUS
<1>1. /\ x.pc = "start" /\ UNCHANGED <<requests, messages, log, told, now>>
      /\ \/ /\ IsTerminal(row[x.req])
            /\ Finish(w, <<TerminalEvent(row[x.req])>>)
            /\ UNCHANGED row
         \/ /\ CanAcquire(row[x.req], now, expiry)
            /\ row' = Took(w, expiry)
            /\ Continue(w, "preleased", RecordOf(row'[x.req]), <<>>)
         \/ Finish(w, <<>>) /\ UNCHANGED row
  BY DEF PreAcquire
<1>2. expiry \in Nat
  BY <1>1, RunFacts, ExpiryTypes, TermsAssumption
<1>3. CASE IsTerminal(row[x.req]) /\ Finish(w, <<TerminalEvent(row[x.req])>>) /\ UNCHANGED row
  BY <1>1, <1>3, ReplayKept
<1>4. CASE /\ CanAcquire(row[x.req], now, expiry)
           /\ row' = Took(w, expiry)
           /\ Continue(w, "preleased", RecordOf(row'[x.req]), <<>>)
  BY <1>1, <1>2, <1>4, TakeKept
<1>5. CASE Finish(w, <<>>) /\ UNCHANGED row
  BY <1>1, <1>5, LeaveKept
<1> QED
  BY <1>1, <1>3, <1>4, <1>5

LEMMA AcquireKept ==
    ASSUME IInv, NEW w \in Tokens, Acquire(w)
    PROVE  IInv' /\ Moves(w)
<1> PICK x \in RunRows : x = run[w]
  BY DEF IInv, RunPart
<1> PICK expiry : expiry = WorkflowExpiry(w)
  OBVIOUS
<1>1. /\ x.pc = "start" /\ UNCHANGED <<requests, messages, log, told, now>>
      /\ CanAcquire(row[x.req], now, expiry)
      /\ row' = Took(w, expiry)
      /\ Continue(w, "leased", RecordOf(row'[x.req]), <<>>) \/ Finish(w, <<>>)
  BY DEF Acquire
<1>2. expiry \in Nat
  BY <1>1, RunFacts, ExpiryTypes, TermsAssumption DEF WorkflowExpiry
<1> QED
  BY <1>1, <1>2, TakeKept

(* The row of a request becomes z, and the others stay. *)
Becomes(w, r, z) ==
    /\ RowPart' /\ Moves(w) /\ z \in Row /\ row'[r] = z
    /\ \A q \in Requests \ {r} : row'[q] = row[q]

LEMMA WorkWrites ==
    ASSUME RowPart, NEW w \in Tokens, NEW r \in Requests,
           Worked(row[r], log[r]), row[r].token = w,
           NEW y, NEW l, Worked(y, l), y.token = w, y.slot = row[r].slot,
           row' = [row EXCEPT ![r] = y], log' = [log EXCEPT ![r] = l]
    PROVE  Becomes(w, r, y)
<1>1. IsActive(row[r])
  BY StateFacts DEF Worked, IsActive
<1>2. y \in Row
  BY DEF Worked
<1>3. Writes(w, r, y, l)
  BY <1>1, <1>2 DEF Writes, RowView, Change
<1> QED
  BY <1>2, <1>3, OneRowMoves DEF Becomes

LEMMA EndWrites ==
    ASSUME RowPart, NEW w \in Tokens, NEW r \in Requests,
           Waits(row[r], log[r]) \/ Worked(row[r], log[r]),
           NEW y, NEW l, Over(y, l), y.slot = row[r].slot,
           row' = [row EXCEPT ![r] = y], log' = [log EXCEPT ![r] = l]
    PROVE  Becomes(w, r, y)
<1>1. IsActive(row[r])
  BY StateFacts DEF Waits, Worked, IsActive
<1>2. y \in Row /\ IsTerminal(y) /\ y.token = NoToken
  BY DEF Over, IsTerminal
<1>3. Writes(w, r, y, l)
  BY <1>1, <1>2 DEF Writes, RowView, Change
<1> QED
  BY <1>2, <1>3, OneRowMoves DEF Becomes

(* The lease holder accepts an event, the first one being "accepted". *)
Emits(w, x, type) ==
    /\ x = run[w] /\ x.pc \in Holding /\ ~IsTerminal(row[x.req])
    /\ type \in {"accepted", "delta"}
    /\ type = "accepted" <=> row[x.req].seq = -1
    /\ row' = [row EXCEPT ![x.req] = AcceptEventRow(@, row[x.req].seq + 1)]
    /\ log' = Logged(w, x.req, type)

LEMMA EmitWrites ==
    ASSUME IInv, NEW w \in Tokens, NEW x \in RunRows, NEW type, Emits(w, x, type)
    PROVE  \E z : /\ Becomes(w, x.req, z) /\ z.token = w /\ z.state = x.rec.state
                  /\ z.seq = x.rec.seq + Unknown(x.pc) + 1 /\ z.gen = 1
<1> USE DEF Emits
<1>1. x.req \in Requests /\ row[x.req] \in Row
  BY RunFacts DEF Holding
<1>2. /\ Worked(row[x.req], log[x.req]) /\ row[x.req].token = w
      /\ row[x.req].state = x.rec.state
      /\ row[x.req].seq = x.rec.seq + Unknown(x.pc)
  BY RunFacts
<1>3. PICK y : y = AcceptEventRow(row[x.req], row[x.req].seq + 1)
  OBVIOUS
<1>4. PICK l : l = Append(log[x.req], [type |-> type, by |-> w])
  OBVIOUS
<1>5. /\ Worked(y, l) /\ y.token = row[x.req].token /\ y.state = row[x.req].state
      /\ y.seq = row[x.req].seq + 1 /\ y.slot = row[x.req].slot
  BY <1>2, <1>3, <1>4, EmittedRow
<1>6. y.token = w /\ y.state = x.rec.state /\ y.seq = x.rec.seq + Unknown(x.pc) + 1
  BY <1>2, <1>5
<1>7. row' = [row EXCEPT ![x.req] = y] /\ log' = [log EXCEPT ![x.req] = l]
  BY <1>1, <1>3, <1>4 DEF Logged, IInv, RowPart
<1>8. RowPart
  BY DEF IInv
<1>9. Becomes(w, x.req, y)
  BY <1>1, <1>2, <1>5, <1>7, <1>8, WorkWrites
<1> QED
  BY <1>5, <1>6, <1>9 DEF Worked

LEMMA PreAcceptKept ==
    ASSUME IInv, NEW w \in Tokens, PreAccept(w)
    PROVE  IInv' /\ Moves(w)
<1> PICK x \in RunRows : x = run[w]
  BY DEF IInv, RunPart
<1>1. /\ x.pc = "preleased" /\ UNCHANGED <<requests, messages, told, now>>
      /\ \/ /\ CanAcceptEvent(row[x.req], FenceOf(x.rec), 0, FALSE, now)
            /\ row' = [row EXCEPT ![x.req] = AcceptEventRow(@, 0)]
            /\ log' = Logged(w, x.req, "accepted")
            /\ Continue(w, "preaccepted", x.rec, <<>>)
         \/ Finish(w, <<>>) /\ UNCHANGED <<row, log>>
  BY DEF PreAccept
<1>2. CASE Finish(w, <<>>) /\ UNCHANGED <<row, log>>
  BY <1>1, <1>2, LeaveKept
<1>3. CASE /\ CanAcceptEvent(row[x.req], FenceOf(x.rec), 0, FALSE, now)
           /\ row' = [row EXCEPT ![x.req] = AcceptEventRow(@, 0)]
           /\ log' = Logged(w, x.req, "accepted")
           /\ Continue(w, "preaccepted", x.rec, <<>>)
  <2>1. x.pc \in Holding /\ ~IsTerminal(row[x.req])
    BY <1>1, <1>3 DEF Holding, CanAcceptEvent
  <2>2. /\ x.rec \in Records /\ x.rec.gen = 1 /\ x.rec.token = w
        /\ x.rec.state = "lease_acquired" /\ x.rec.seq = -1
    BY <1>1, <2>1, RunFacts, RunTypes DEF RunView, Holds
  <2>3. row[x.req].seq = -1
    BY <1>1, <2>1, <2>2, RunFacts DEF Unknown
  <2>4. row' = [row EXCEPT ![x.req] = AcceptEventRow(@, row[x.req].seq + 1)]
    BY <1>3, <2>3
  <2>5. PICK z : /\ Becomes(w, x.req, z) /\ z.token = w /\ z.state = x.rec.state
                 /\ z.seq = x.rec.seq + Unknown(x.pc) + 1
    <3>1. Emits(w, x, "accepted")
      BY <1>3, <2>1, <2>3, <2>4 DEF Emits
    <3> QED
      BY <3>1, EmitWrites
  <2>6. z.seq = x.rec.seq + Unknown("preaccepted") /\ "preaccepted" \in Holding
    BY <1>1, <2>2, <2>5 DEF Unknown, Holding
  <2>7. Goes(w, x, "preaccepted", x.rec, <<>>, z)
    BY <1>3, <2>1, <2>2, <2>5, <2>6, NoNotes DEF Goes, Becomes
  <2>8. RunPart'
    BY <2>5, <2>7, ContinueKept DEF IInv, Becomes
  <2> QED
    BY <1>1, <2>5, <2>8, StepKept DEF Becomes
<1> QED
  BY <1>1, <1>2, <1>3

(* The lease holder of a request ends it, or anybody one that waits. *)
Stops(w, r, target, retryable, type) ==
    /\ \/ Waits(row[r], log[r])
       \/ Worked(row[r], log[r]) /\ row[r].token = w
    /\ target \in {"failed", "timed_out", "cancelled"} /\ retryable \in BOOLEAN
    /\ type = IF target = "cancelled" THEN "cancelled" ELSE "failed"
    /\ row' = [row EXCEPT ![r] = EndRow(AcceptEventRow(@, row[r].seq + 1), target, retryable)]
    /\ log' = Logged(w, r, type)

LEMMA StopWrites ==
    ASSUME RowPart, NEW w \in Tokens, NEW r \in Requests, NEW target, NEW retryable, NEW type,
           Stops(w, r, target, retryable, type)
    PROVE  \E z : Becomes(w, r, z) /\ z.state = target
<1> USE DEF Stops
<1>1. PICK x : x = row[r]
  OBVIOUS
<1>2. PICK k : k = log[r]
  OBVIOUS
<1>3. PICK y : y = EndRow(AcceptEventRow(x, x.seq + 1), target, retryable)
  OBVIOUS
<1>4. PICK l : l = Append(k, [type |-> type, by |-> w])
  OBVIOUS
<1>5. Waits(x, k) \/ (Worked(x, k) /\ x.token = w)
  BY <1>1, <1>2
<1>6. Over(y, l) /\ y.state = target /\ y.slot = x.slot
  BY <1>3, <1>4, <1>5, StoppedRow
<1>7. row' = [row EXCEPT ![r] = y] /\ log' = [log EXCEPT ![r] = l]
  BY <1>1, <1>2, <1>3, <1>4 DEF Logged, RowPart
<1>8. Becomes(w, r, y)
  BY <1>1, <1>6, <1>7, EndWrites
<1> QED
  BY <1>6, <1>8

LEMMA PreFailKept ==
    ASSUME IInv, NEW w \in Tokens, NEW retryable \in BOOLEAN, PreFail(w, retryable)
    PROVE  IInv' /\ Moves(w)
<1> PICK x \in RunRows : x = run[w]
  BY DEF IInv, RunPart
<1> PICK s : s = row[x.req].seq + 1
  OBVIOUS
<1>1. /\ x.pc = "preaccepted" /\ UNCHANGED <<requests, messages, told, now>>
      /\ \/ /\ IsTerminal(row[x.req])
            /\ Finish(w, <<TerminalEvent(row[x.req])>>)
            /\ UNCHANGED <<row, log>>
         \/ /\ ~IsTerminal(row[x.req])
            /\ row' = [row EXCEPT ![x.req] = EndRow(AcceptEventRow(@, s), "failed", retryable)]
            /\ log' = Logged(w, x.req, "failed")
            /\ Finish(w, <<Event("accepted", 0), Event("failed", s)>>)
  BY DEF PreFail
<1>2. CASE IsTerminal(row[x.req]) /\ Finish(w, <<TerminalEvent(row[x.req])>>)
           /\ UNCHANGED <<row, log>>
  BY <1>1, <1>2, ReplayKept
<1>3. CASE /\ ~IsTerminal(row[x.req])
           /\ row' = [row EXCEPT ![x.req] = EndRow(AcceptEventRow(@, s), "failed", retryable)]
           /\ log' = Logged(w, x.req, "failed")
           /\ Finish(w, <<Event("accepted", 0), Event("failed", s)>>)
  <2>1. x.pc \in Holding /\ x.pc \notin {"idle", "done"}
    BY <1>1 DEF Holding
  <2>2. /\ x.req \in Requests /\ row[x.req] \in Row
        /\ Worked(row[x.req], log[x.req]) /\ row[x.req].token = w
    BY <1>3, <2>1, RunFacts
  <2>3. PICK z : Becomes(w, x.req, z) /\ z.state = "failed"
    <3>1. Stops(w, x.req, "failed", retryable, "failed")
      BY <1>3, <2>2 DEF Stops
    <3> QED
      BY <2>2, <3>1, StopWrites DEF IInv
  <2>4. s \in Int
    BY <2>2, RowTypes
  <2> DEFINE events == <<Event("accepted", 0), Event("failed", s)>>
  <2>5. events \in Seq(Notes) /\ Len(events) <= 2 /\ 1 .. Len(events) = {1, 2}
    BY <2>4 DEF Event, Notes, EventTypes
  <2>6. events[1].type = "accepted" /\ events[2].type = "failed" /\ Finish(w, events)
    BY <1>3 DEF Event
  <2> HIDE DEF events
  <2>7. \A i \in 1 .. Len(events) : Durable(x.req, events[i].type)'
    BY <2>3, <2>5, <2>6, StateFacts DEF Durable, Becomes, IsTerminal
  <2>8. RunPart'
    BY <2>1, <2>3, <2>5, <2>6, <2>7, FinishKept, Zenon DEF IInv, Becomes
  <2> QED
    BY <1>1, <2>3, <2>8, StepKept DEF Becomes
<1> QED
  BY <1>1, <1>2, <1>3

LEMMA StartStreamKept ==
    ASSUME IInv, NEW w \in Tokens, NEW r \in Requests, StartStream(w, r)
    PROVE  IInv' /\ Moves(w)
<1>1. /\ run[w] = Fresh /\ Exists(row[r]) /\ Recovers(r)
      /\ UNCHANGED <<requests, messages, log, told, now>>
  BY DEF StartStream
<1>2. /\ RowPart' /\ Moves(w) /\ Moves(NoToken)
      /\ \A q \in Requests : row'[q] = row[q]
                             \/ (IsTerminal(row'[q]) /\ row'[q].state # "committed")
  BY <1>1, RecoveredRows DEF IInv
<1>3. ASSUME NEW q \in Requests, Exists(row'[q]), row'[q].token = w
      PROVE  FALSE
  <2>1. row'[q] = row[q]
    <3>1. w \in Tokens \ {NoToken}
      BY NullAssumption
    <3> QED
      BY <1>2, <1>3, <3>1, MovedRow DEF IInv
  <2>2. Owns(run[w], q)
    BY <1>3, <2>1 DEF IInv, RunPart
  <2> QED
    BY <1>1, <2>2, EndedRun DEF Owns, Holding
<1>4. PICK z : z = row'[r]
  OBVIOUS
<1>5. Exists(z) /\ z \in Row
  BY <1>1, <1>2, <1>4, MovedRow DEF IInv, RowPart, Exists, AbsentRow
<1>6. ASSUME NEW y \in RunRows, run' = [run EXCEPT ![w] = y], RunView(w, y)'
      PROVE  IInv' /\ Moves(w)
  <2>1. RunPart'
    BY <1>2, <1>3, <1>6, RunsKept DEF IInv
  <2> QED
    BY <1>1, <1>2, <2>1, StepKept
<1>7. CASE /\ IsTerminal(z)
           /\ run' = [run EXCEPT ![w] = [@ EXCEPT !.pc = "ended", !.req = r,
                                                  !.pending = <<TerminalEvent(z)>>]]
  <2>1. PICK e : e = TerminalEvent(z)
    OBVIOUS
  <2>2. e \in Notes /\ e.type = IF z.state = "committed" THEN "completed" ELSE "failed"
    BY <1>5, <1>7, <2>1, TerminalNote
  <2>3. <<e>> \in Seq(Notes) /\ Len(<<e>>) <= 2 /\ \A i \in 1 .. Len(<<e>>) : <<e>>[i] = e
    BY <2>2, OneNote
  <2> DEFINE y == [Fresh EXCEPT !.pc = "ended", !.req = r, !.pending = <<e>>]
  <2>4. y \in RunRows /\ y.pc = "ended" /\ y.req = r /\ y.pending = <<e>>
    BY <2>3, EndedRun DEF RunRows, RunStates
  <2>5. run' = [run EXCEPT ![w] = y]
    BY <1>1, <1>7, <2>1
  <2> HIDE DEF y
  <2>6. Durable(r, e.type)'
    BY <1>4, <1>7, <2>2 DEF Durable
  <2>7. \A i \in 1 .. Len(y.pending) : Durable(y.req, y.pending[i].type)'
    BY <2>3, <2>4, <2>6 DEF Durable
  <2>8. RunView(w, y)'
    BY <1>4, <1>5, <2>3, <2>4, <2>7 DEF RunView, Holding
  <2> QED
    BY <1>6, <2>4, <2>5, <2>8
<1>8. CASE /\ z.state = "accepted"
           /\ run' = [run EXCEPT ![w] = [@ EXCEPT !.pc = "start", !.req = r, !.rec = RecordOf(z)]]
  <2>1. z = row[r] /\ ~IsTerminal(z)
    BY <1>2, <1>4, <1>8, StateFacts DEF IsTerminal
  <2>2. Waits(z, log[r])
    BY <1>8, <2>1, RowKinds DEF IInv
  <2>3. RecordOf(z) = SeenWaiting /\ SeenWaiting \in Records
    BY <1>5, <2>2, RecordTypes DEF Waits, RecordOf, SeenWaiting
  <2> DEFINE y == [Fresh EXCEPT !.pc = "start", !.req = r, !.rec = SeenWaiting]
  <2>4. y \in RunRows /\ y.pc = "start" /\ y.req = r /\ y.rec = SeenWaiting /\ y.pending = <<>>
    BY <2>3, EndedRun DEF RunRows, RunStates
  <2>5. run' = [run EXCEPT ![w] = y]
    BY <1>1, <1>8, <2>3
  <2> HIDE DEF y
  <2>6. Len(y.pending) <= 2 /\ 1 .. Len(y.pending) = {}
    BY <2>4
  <2>7. RunView(w, y)'
    BY <1>4, <1>5, <2>4, <2>6 DEF RunView, Holding
  <2> QED
    BY <1>6, <2>4, <2>5, <2>7
<1> QED
  BY <1>4, <1>7, <1>8 DEF StartStream

(* An exception or a cancellation: the stream reads its request again. *)
LEMMA StopRunKept ==
    ASSUME IInv, NEW w \in Tokens, CanStop(w),
           NEW target \in {"cancelled", "timed_out", "failed"}, StopRun(w, target)
    PROVE  IInv' /\ Moves(w)
<1> PICK x \in RunRows : x = run[w]
  BY DEF IInv, RunPart
<1>1. /\ x.pc \in {"leased", "working", "broken", "start"} /\ x.pending = <<>>
      /\ UNCHANGED <<row, requests, messages, log, told, now>>
  BY DEF CanStop, StopRun, data
<1>2. x.req \in Requests /\ Exists(row[x.req]) /\ row[x.req] \in Row /\ RunView(w, x)
  BY <1>1, RunFacts
<1>3. PICK z \in Row : z = row[x.req]
  BY <1>2
<1>4. PICK a : a = Adopted(w)
  OBVIOUS
<1>5. a = IF z.gen = x.rec.gen /\ z.token = x.rec.token THEN RecordOf(z) ELSE x.rec
  BY <1>3, <1>4 DEF Adopted
<1>6. a \in Records
  BY <1>5, RecordTypes, RunTypes
<1>7. CASE IsTerminal(a)
  <2>1. Finish(w, <<>>)
    BY <1>4, <1>7 DEF StopRun, Finish
  <2> QED
    BY <1>1, <2>1, LeaveKept
<1>8. CASE ~IsTerminal(a)
  <2> DEFINE y == [x EXCEPT !.pc = "stopping", !.rec = a, !.target = target]
  <2>1. /\ y \in RunRows /\ y.pc = "stopping" /\ y.req = x.req /\ y.rec = a
        /\ y.target = target /\ y.pending = <<>>
    BY <1>1, <1>6 DEF RunRows, RunStates
  <2>2. run' = [run EXCEPT ![w] = y]
    BY <1>4, <1>8 DEF StopRun
  <2> HIDE DEF y
  <2>3. /\ RowPart' /\ Moves(w)
    BY <1>1, RowsStay DEF IInv
  <2>4. CASE x.pc = "start"
    <3>1. x.rec = SeenWaiting
      BY <1>2, <2>4 DEF RunView
    <3>2. a = SeenWaiting
      <4>1. CASE z.gen = x.rec.gen /\ z.token = x.rec.token
        <5>1. a = RecordOf(z) /\ ~IsTerminal(z)
          BY <1>5, <1>8, <4>1, RecordTypes DEF IsTerminal
        <5>2. z.token \notin Tokens
          BY <3>1, <4>1, NullAssumption DEF SeenWaiting
        <5>3. Waits(z, log[x.req])
          BY <1>2, <1>3, <5>1, <5>2, RowKinds DEF Worked, IInv
        <5> QED
          BY <5>1, <5>3 DEF Waits, RecordOf, SeenWaiting
      <4> QED
        BY <1>5, <3>1, <4>1
    <3>3. ASSUME NEW q \in Requests, Exists(row'[q]), row'[q].token = w PROVE FALSE
      <4>1. Owns(x, q)
        BY <1>1, <3>3 DEF IInv, RunPart
      <4> QED
        BY <2>4, <4>1 DEF Owns, Holding
    <3>4. RunView(w, y)'
      <4>1. Len(y.pending) <= 2 /\ 1 .. Len(y.pending) = {}
        BY <2>1
      <4> QED
        BY <1>1, <1>2, <2>1, <3>2, <4>1 DEF RunView, Holding
    <3>5. RunPart'
      BY <2>1, <2>2, <2>3, <3>3, <3>4, RunsKept DEF IInv
    <3> QED
      BY <1>1, <2>3, <3>5, StepKept
  <2>5. CASE x.pc # "start"
    <3>1. x.pc \in Holding
      BY <1>1, <2>5 DEF Holding
    <3>2. x.rec.gen = 1 /\ x.rec.token = w
      BY <1>2, <3>1 DEF RunView, Holds
    <3>3. a.gen = 1 /\ a.token = w
      BY <1>5, <3>2, RecordTypes
    <3>4. IsTerminal(z) \/ (z.token = w /\ z.state = a.state /\ z.seq = a.seq)
      <4>1. CASE ~IsTerminal(z)
        <5>1. z.token = w /\ z.gen = x.rec.gen
          BY <1>3, <3>1, <4>1, RunFacts
        <5> QED
          BY <1>5, <3>2, <5>1, RecordTypes
      <4> QED
        BY <4>1
    <3>5. Holds(w, y)'
      <4>1. a.seq = a.seq + Unknown("stopping")
        BY <1>6 DEF Unknown, Records
      <4> QED
        BY <1>1, <1>3, <2>1, <3>3, <3>4, <4>1 DEF Holds
    <3>6. RunView(w, y)'
      <4>1. Len(y.pending) <= 2 /\ 1 .. Len(y.pending) = {}
        BY <2>1
      <4> QED
        BY <1>1, <1>2, <2>1, <3>5, <4>1 DEF RunView, Holding
    <3>7. ASSUME NEW q \in Requests, Exists(row'[q]), row'[q].token = w PROVE Owns(y, q)
      <4>1. Owns(x, q)
        BY <1>1, <3>7 DEF IInv, RunPart
      <4> QED
        BY <1>1, <2>1, <3>3, <4>1 DEF Owns
    <3>8. RunPart'
      BY <2>1, <2>2, <2>3, <3>6, <3>7, RunsKept DEF IInv
    <3> QED
      BY <1>1, <2>3, <3>8, StepKept
  <2> QED
    BY <2>4, <2>5
<1> QED
  BY <1>7, <1>8

LEMMA PersistStopKept ==
    ASSUME IInv, NEW w \in Tokens, NEW retryable \in BOOLEAN, PersistStop(w, retryable)
    PROVE  IInv' /\ Moves(w)
<1> PICK x \in RunRows : x = run[w]
  BY DEF IInv, RunPart
<1> DEFINE type == IF x.target = "cancelled" THEN "cancelled" ELSE "failed"
           s == x.rec.seq + 1
           events == IF type = "failed" THEN <<Event("failed", s)>> ELSE <<>>
<1>1. /\ x.pc = "stopping" /\ UNCHANGED <<requests, messages, told, now>>
      /\ \/ /\ CanPersistStop(w)
            /\ row' = [row EXCEPT ![x.req] = EndRow(AcceptEventRow(@, s), x.target, retryable)]
            /\ log' = Logged(w, x.req, type)
            /\ Finish(w, events)
         \/ Finish(w, <<>>) /\ UNCHANGED <<row, log>>
  BY DEF PersistStop
<1>2. CASE Finish(w, <<>>) /\ UNCHANGED <<row, log>>
  BY <1>1, <1>2, LeaveKept
<1>3. CASE /\ CanPersistStop(w)
           /\ row' = [row EXCEPT ![x.req] = EndRow(AcceptEventRow(@, s), x.target, retryable)]
           /\ log' = Logged(w, x.req, type)
           /\ Finish(w, events)
  <2>1. /\ x.req \in Requests /\ row[x.req] \in Row /\ Exists(row[x.req])
        /\ RunView(w, x) /\ x.rec \in Records
    BY <1>1, RunFacts, RunTypes
  <2>2. /\ row[x.req].state = x.rec.state /\ ~IsTerminal(row[x.req])
        /\ s = row[x.req].seq + 1
    BY <1>3 DEF CanPersistStop, CanAcceptEvent, Fenced, FenceOf
  <2>3. x.target \in {"failed", "timed_out", "cancelled"}
    BY <1>1, <2>1 DEF RunView
  <2>4. \/ Waits(row[x.req], log[x.req])
        \/ Worked(row[x.req], log[x.req]) /\ row[x.req].token = w
    <3>1. CASE x.rec = SeenWaiting
      BY <2>1, <2>2, <3>1, RowKinds DEF SeenWaiting, IInv
    <3>2. CASE Holds(w, x)
      BY <2>1, <2>2, <3>2, RowKinds DEF Holds, IInv
    <3> QED
      BY <1>1, <2>1, <3>1, <3>2 DEF RunView
  <2>5. PICK kind : kind = type
    OBVIOUS
  <2>6. PICK z : Becomes(w, x.req, z) /\ z.state = x.target
    <3>1. row' = [row EXCEPT ![x.req] = EndRow(AcceptEventRow(@, row[x.req].seq + 1),
                                               x.target, retryable)]
      BY <1>3, <2>2
    <3>2. log' = Logged(w, x.req, kind)
      BY <1>3, <2>5
    <3>3. kind = IF x.target = "cancelled" THEN "cancelled" ELSE "failed"
      BY <2>5
    <3>4. Stops(w, x.req, x.target, retryable, kind)
      BY <2>3, <2>4, <3>1, <3>2, <3>3 DEF Stops
    <3> HIDE DEF type, s, events
    <3> QED
      BY <2>1, <3>4, StopWrites DEF IInv
  <2>7. s \in Int
    BY <2>1 DEF Records
  <2>8. PICK given : given = events
    OBVIOUS
  <2>9. /\ given \in Seq(Notes) /\ Len(given) <= 2
        /\ \A i \in 1 .. Len(given) : given[i].type = "failed" /\ x.target # "cancelled"
    <3>1. CASE x.target = "cancelled"
      BY <2>8, <3>1, NoNotes
    <3>2. CASE x.target # "cancelled"
      <4>1. PICK e : e = Event("failed", s)
        OBVIOUS
      <4>2. e \in Notes /\ e.type = "failed"
        BY <2>7, <4>1 DEF Event, Notes, EventTypes
      <4>3. given = <<e>>
        BY <2>8, <3>2, <4>1
      <4> QED
        BY <3>2, <4>2, <4>3, OneNote
    <3> QED
      BY <3>1, <3>2
  <2>10. \A i \in 1 .. Len(given) : Durable(x.req, given[i].type)'
    BY <2>3, <2>6, <2>9, StateFacts DEF Durable, Becomes, IsTerminal
  <2>11. RunPart'
    <3>1. Finish(w, given) /\ x.pc \notin {"idle", "done"}
      BY <1>1, <1>3, <2>8
    <3> HIDE DEF events
    <3> QED
      BY <2>6, <2>9, <2>10, <3>1, FinishKept, Zenon DEF IInv, Becomes
  <2> QED
    BY <1>1, <2>6, <2>11, StepKept DEF Becomes
<1> QED
  BY <1>1, <1>2, <1>3

(* One event of a run: either the run knows that it is in, or it breaks. *)
LEMMA EmitKept ==
    ASSUME IInv, NEW w \in Tokens, NEW type \in {"accepted", "delta"},
           \/ run[w].pc = "leased" /\ type = "accepted"
           \/ run[w].pc = "working" /\ type = "delta",
           Emit(w, "working", type)
    PROVE  IInv' /\ Moves(w)
<1> PICK x \in RunRows : x = run[w]
  BY DEF IInv, RunPart
<1> PICK s : s = x.rec.seq + 1
  OBVIOUS
<1> PICK rec : rec = [x.rec EXCEPT !.seq = s]
  OBVIOUS
<1> PICK e : e = Event(type, s)
  OBVIOUS
<1>1. /\ UNCHANGED <<requests, messages, told, now>>
      /\ CanAcceptEvent(row[x.req], FenceOf(x.rec), s, FALSE, now)
      /\ row' = [row EXCEPT ![x.req] = AcceptEventRow(@, s)]
      /\ log' = Logged(w, x.req, type)
      /\ Continue(w, "working", rec, <<e>>) \/ Continue(w, "broken", x.rec, <<>>)
  BY DEF Emit
<1>2. x.pc \in Holding /\ ~IsTerminal(row[x.req]) /\ Unknown(x.pc) = 0
  BY <1>1 DEF Holding, CanAcceptEvent, Unknown
<1>3. /\ x.rec \in Records /\ x.rec.gen = 1 /\ x.rec.token = w
      /\ x.rec.seq \in Nat \cup {-1}
      /\ type = "accepted" <=> x.rec.seq = -1
  BY <1>2, RunFacts, RunTypes DEF RunView, Holds, Records
<1>4. row[x.req].seq = x.rec.seq
  BY <1>2, <1>3, RunFacts
<1>5. PICK z : /\ Becomes(w, x.req, z) /\ z.token = w /\ z.state = x.rec.state
               /\ z.seq = x.rec.seq + Unknown(x.pc) + 1
  <2>1. row' = [row EXCEPT ![x.req] = AcceptEventRow(@, row[x.req].seq + 1)]
    BY <1>1, <1>4
  <2>2. Emits(w, x, type)
    BY <1>1, <1>2, <1>3, <1>4, <2>1 DEF Emits
  <2> QED
    BY <2>2, EmitWrites
<1>6. z.seq = s /\ s \in Nat
  BY <1>2, <1>3, <1>5
<1>7. \E pc, given, events : Goes(w, x, pc, given, events, z)
  <2>1. CASE Continue(w, "working", rec, <<e>>)
    <3>1. /\ rec \in Records /\ rec.gen = 1 /\ rec.token = w /\ rec.state = x.rec.state
          /\ rec.seq = s
      BY <1>3, <1>6 DEF Records
    <3>2. e \in Notes /\ e.type = type
      BY <1>6 DEF Event, Notes, EventTypes
    <3>3. /\ <<e>> \in Seq(Notes) /\ Len(<<e>>) <= 1
          /\ \A i \in 1 .. Len(<<e>>) : <<e>>[i].type \in {"accepted", "delta"}
      BY <3>2, OneNote
    <3>4. z.seq = rec.seq + Unknown("working") /\ rec.seq # -1 /\ "working" \in Holding
      BY <1>6, <3>1 DEF Unknown, Holding
    <3>5. Goes(w, x, "working", rec, <<e>>, z)
      BY <1>2, <1>5, <2>1, <3>1, <3>3, <3>4 DEF Goes, Becomes
    <3> QED
      BY <3>5
  <2>2. CASE Continue(w, "broken", x.rec, <<>>)
    <3>1. z.seq = x.rec.seq + Unknown("broken") /\ "broken" \in Holding
      BY <1>6 DEF Unknown, Holding
    <3>2. Goes(w, x, "broken", x.rec, <<>>, z)
      BY <1>2, <1>3, <1>5, <2>2, <3>1, NoNotes DEF Goes, Becomes
    <3> QED
      BY <3>2
  <2> QED
    BY <1>1, <2>1, <2>2
<1>8. RunPart'
  BY <1>5, <1>7, ContinueKept DEF IInv, Becomes
<1> QED
  BY <1>1, <1>5, <1>8, StepKept DEF Becomes

LEMMA AdvanceKept ==
    ASSUME IInv, NEW w \in Tokens, NEW target \in Working, Advance(w, target)
    PROVE  IInv' /\ Moves(w)
<1> PICK x \in RunRows : x = run[w]
  BY DEF IInv, RunPart
<1>1. /\ x.pc = "working" /\ UNCHANGED <<requests, messages, log, told, now>>
      /\ CanTransition(row[x.req], FenceOf(x.rec), target, now)
      /\ row' = [row EXCEPT ![x.req] = TransitionRow(@, target)]
      /\ Continue(w, "working", RecordOf(row'[x.req]), <<>>)
  BY DEF Advance
<1>2. x.pc \in Holding /\ ~IsTerminal(row[x.req])
  BY <1>1 DEF Holding, CanTransition, ValidTransition, ActiveFenced, Fenced, FenceOf, IsTerminal
<1>3. /\ x.req \in Requests /\ row[x.req] \in Row
      /\ Worked(row[x.req], log[x.req]) /\ row[x.req].token = w
      /\ row[x.req].seq = x.rec.seq + Unknown(x.pc) /\ x.rec.seq # -1
      /\ x.rec \in Records
  BY <1>1, <1>2, RunFacts, RunTypes DEF RunView, Holding
<1>4. PICK y : y = TransitionRow(row[x.req], target)
  OBVIOUS
<1>5. PICK l : l = log[x.req]
  OBVIOUS
<1>6. /\ Worked(y, l) /\ y.token = w /\ y.state = target /\ y.seq = row[x.req].seq
      /\ y.slot = row[x.req].slot
  BY <1>3, <1>4, <1>5, AdvancedRow
<1>7. row' = [row EXCEPT ![x.req] = y] /\ log' = [log EXCEPT ![x.req] = l]
  BY <1>1, <1>3, <1>4, <1>5 DEF IInv, RowPart
<1>8. RowPart
  BY DEF IInv
<1>9. Becomes(w, x.req, y)
  BY <1>3, <1>6, <1>7, <1>8, WorkWrites
<1>10. PICK rec : rec = RecordOf(y)
  OBVIOUS
<1>11. /\ rec \in Records /\ rec.state = y.state /\ rec.gen = 1
       /\ rec.seq = y.seq /\ rec.token = w
  BY <1>6, <1>9, <1>10, RecordTypes DEF Becomes, Worked
<1>12. Continue(w, "working", rec, <<>>)
  BY <1>1, <1>9, <1>10 DEF Becomes
<1>13. /\ y.seq = rec.seq + Unknown("working") /\ "working" \in Holding
       /\ rec.seq # -1
  BY <1>1, <1>3, <1>6, <1>11 DEF Unknown, Holding, Records
<1>14. Goes(w, x, "working", rec, <<>>, y)
  BY <1>2, <1>6, <1>9, <1>11, <1>12, <1>13, NoNotes DEF Goes, Becomes
<1>15. RunPart'
  BY <1>9, <1>14, ContinueKept DEF IInv, Becomes
<1> QED
  BY <1>1, <1>9, <1>15, StepKept DEF Becomes

(* A message that is not a question with a key the thread has used. *)
LEMMA MessageAppended ==
    ASSUME ThreadPart, NEW t \in Threads, NEW m \in UserMessages \cup AnswerMessages,
           messages' = [messages EXCEPT ![t] = Append(@, m)],
           \A u \in Threads : KeysOf(u) \subseteq KeysOf(u)',
           m.role = "user" => m.key \notin KeysOf(t) /\ m.key \in KeysOf(t)'
    PROVE  /\ messages' \in [Threads -> Seq(UserMessages \cup AnswerMessages)]
           /\ \A u \in Threads : \A i \in DOMAIN messages'[u] :
                 messages'[u][i].role = "user" => messages'[u][i].key \in KeysOf(u)'
           /\ SentOnce'
<1>1. PICK k \in Seq(UserMessages \cup AnswerMessages) : k = messages[t]
  BY DEF ThreadPart
<1>2. PICK l : l = Append(k, m)
  OBVIOUS
<1>3. /\ l \in Seq(UserMessages \cup AnswerMessages) /\ DOMAIN k = 1 .. Len(k)
      /\ DOMAIN l = 1 .. (Len(k) + 1) /\ Len(k) \in Nat
      /\ \A i \in 1 .. Len(k) : l[i] = k[i]
      /\ l[Len(k) + 1] = m
  BY <1>2, AppendProperties, LenProperties
<1>4. \A i \in DOMAIN l : i \in DOMAIN k \/ i = Len(k) + 1
  BY <1>3
<1>5. messages'[t] = l /\ \A u \in Threads \ {t} : messages'[u] = messages[u]
  BY <1>1, <1>2 DEF ThreadPart
<1>6. messages' \in [Threads -> Seq(UserMessages \cup AnswerMessages)]
  BY <1>1, <1>2, <1>3 DEF ThreadPart
<1>7. \A i \in DOMAIN k : k[i].role = "user" => k[i].key \in KeysOf(t)
  BY <1>1 DEF ThreadPart
<1>8. ASSUME NEW i \in DOMAIN l, l[i].role = "user" PROVE l[i].key \in KeysOf(t)'
  BY <1>3, <1>4, <1>7, <1>8
<1>9. ASSUME NEW u \in Threads, NEW i \in DOMAIN messages'[u], messages'[u][i].role = "user"
      PROVE  messages'[u][i].key \in KeysOf(u)'
  <2>1. CASE u = t
    BY <1>5, <1>8, <1>9, <2>1
  <2>2. CASE u # t
    BY <1>5, <1>9, <2>2 DEF ThreadPart
  <2> QED
    BY <2>1, <2>2
<1>10. ASSUME NEW i \in DOMAIN l, NEW j \in DOMAIN l, l[i].role = "user", l[j].role = "user",
              l[i].key = l[j].key
       PROVE  i = j
  <2>1. CASE i \in DOMAIN k /\ j \in DOMAIN k
    <3>1. /\ l[i] = k[i] /\ l[j] = k[j]
      BY <1>3, <2>1
    <3>2. SentOnce
      BY DEF ThreadPart
    <3> QED
      BY <1>1, <1>10, <2>1, <3>1, <3>2 DEF SentOnce
  <2>2. CASE i \in DOMAIN k /\ j = Len(k) + 1
    BY <1>3, <1>7, <1>10, <2>2
  <2>3. CASE i = Len(k) + 1 /\ j \in DOMAIN k
    BY <1>3, <1>7, <1>10, <2>3
  <2>4. CASE i = Len(k) + 1 /\ j = Len(k) + 1
    BY <2>4
  <2> QED
    BY <1>4, <2>1, <2>2, <2>3, <2>4
<1>11. SentOnce'
  <2> SUFFICES ASSUME NEW u \in Threads, NEW i \in DOMAIN messages'[u],
                      NEW j \in DOMAIN messages'[u],
                      messages'[u][i].role = "user", messages'[u][j].role = "user",
                      messages'[u][i].key = messages'[u][j].key
               PROVE  i = j
    BY DEF SentOnce
  <2>1. CASE u = t
    BY <1>5, <1>10, <2>1
  <2>2. CASE u # t
    BY <1>5, <2>2 DEF ThreadPart, SentOnce
  <2> QED
    BY <2>1, <2>2
<1> QED
  BY <1>6, <1>9, <1>11

LEMMA CommitKept ==
    ASSUME IInv, NEW w \in Tokens, Commit(w)
    PROVE  IInv' /\ Moves(w)
<1> PICK x \in RunRows : x = run[w]
  BY DEF IInv, RunPart
<1> PICK s : s = x.rec.seq + 1
  OBVIOUS
<1> PICK t : t = ThreadOf(x.req)
  OBVIOUS
<1> PICK n : n = Len(messages[t]) + 1
  OBVIOUS
<1> PICK e : e = Event("completed", s)
  OBVIOUS
<1>1. /\ x.pc = "working" /\ UNCHANGED <<requests, told, now>>
      /\ CanAcceptEvent(row[x.req], FenceOf(x.rec), s, FALSE, now)
      /\ row' = [row EXCEPT ![x.req] = FinalizeRow(AcceptEventRow(@, s), n)]
      /\ messages' = [messages EXCEPT ![t] =
                        Append(@, [role |-> "assistant", slot |-> row[x.req].slot, by |-> w])]
      /\ log' = Logged(w, x.req, "completed")
      /\ Finish(w, <<e>>)
  BY DEF Commit, IInv, RowPart
<1>2. x.pc \in Holding /\ ~IsTerminal(row[x.req])
  BY <1>1 DEF Holding, CanAcceptEvent
<1>3. /\ x.req \in Requests /\ Exists(row[x.req]) /\ row[x.req] \in Row
      /\ Worked(row[x.req], log[x.req]) /\ row[x.req].token = w
      /\ row[x.req].seq = x.rec.seq + Unknown(x.pc) /\ x.rec.seq # -1
      /\ x.rec.seq \in Nat \cup {-1}
  BY <1>1, <1>2, RunFacts, RunTypes DEF RunView, Holding, Records
<1>4. row[x.req].seq >= 0 /\ s = row[x.req].seq + 1 /\ s \in Nat
  <2>1. PICK k \in Nat \cup {-1} : k = x.rec.seq
    BY <1>3
  <2>2. Unknown(x.pc) = 0
    BY <1>1 DEF Unknown
  <2>3. row[x.req].seq = k /\ k \in Nat /\ s = k + 1
    BY <1>3, <2>1, <2>2
  <2> QED
    BY <2>3
<1>5. t \in Threads
  <2>1. \E u \in Threads : x.req \in RequestsOf(u)
    BY <1>3 DEF IInv, ThreadPart
  <2> QED
    BY <2>1 DEF ThreadOf
<1>6. n \in Nat
  BY <1>5, LenProperties DEF IInv, ThreadPart
<1>7. PICK x0 : x0 = row[x.req]
  OBVIOUS
<1>8. PICK k : k = log[x.req]
  OBVIOUS
<1>9. PICK y : y = FinalizeRow(AcceptEventRow(x0, x0.seq + 1), n)
  OBVIOUS
<1>10. PICK l : l = Append(k, [type |-> "completed", by |-> w])
  OBVIOUS
<1>11. Worked(x0, k) /\ x0.token = w /\ x0.seq >= 0
  BY <1>3, <1>4, <1>7, <1>8
<1>12. Over(y, l) /\ y.state = "committed" /\ y.slot = x0.slot
  BY <1>6, <1>9, <1>10, <1>11, CommittedRow
<1>13. row' = [row EXCEPT ![x.req] = y] /\ log' = [log EXCEPT ![x.req] = l]
  BY <1>1, <1>3, <1>4, <1>7, <1>8, <1>9, <1>10 DEF Logged, IInv, RowPart
<1>14. RowPart
  BY DEF IInv
<1>15. Becomes(w, x.req, y)
  BY <1>3, <1>7, <1>12, <1>13, <1>14, EndWrites
<1>16. e \in Notes /\ e.type = "completed"
  BY <1>4 DEF Event, Notes, EventTypes
<1>17. Durable(x.req, e.type)'
  BY <1>12, <1>15, <1>16 DEF Durable, Becomes
<1>18. RunPart'
  <2>1. <<e>> \in Seq(Notes) /\ Len(<<e>>) <= 2 /\ \A i \in 1 .. Len(<<e>>) : <<e>>[i] = e
    BY <1>16, OneNote
  <2>2. \A i \in 1 .. Len(<<e>>) : Durable(x.req, <<e>>[i].type)'
    BY <1>17, <2>1 DEF Durable
  <2>3. x.pc \notin {"idle", "done"} /\ RunPart
    BY <1>1 DEF IInv
  <2> QED
    BY <1>1, <1>14, <1>15, <2>1, <2>2, <2>3, FinishKept, Zenon DEF Becomes
<1>19. TellPart'
  BY <1>1, <1>14, <1>15, ToldKept DEF IInv, Becomes
<1>20. ThreadPart'
  <2>1. PICK m : m = [role |-> "assistant", slot |-> row[x.req].slot, by |-> w]
    OBVIOUS
  <2>2. m \in AnswerMessages /\ m.role # "user"
    BY <1>3, <2>1, RowTypes DEF AnswerMessages
  <2>3. \A u \in Threads : KeysOf(u)' = KeysOf(u)
    BY <1>1 DEF KeysOf
  <2>4. messages' = [messages EXCEPT ![t] = Append(@, m)]
    BY <1>1, <2>1
  <2>5. /\ messages' \in [Threads -> Seq(UserMessages \cup AnswerMessages)]
        /\ \A u \in Threads : \A i \in DOMAIN messages'[u] :
              messages'[u][i].role = "user" => messages'[u][i].key \in KeysOf(u)'
        /\ SentOnce'
    BY <1>5, <2>2, <2>3, <2>4, MessageAppended DEF IInv
  <2>6. \A q \in Requests : Exists(row'[q]) => Exists(row[q])
    BY <1>3, <1>15 DEF Becomes
  <2>7. /\ requests' \in [Threads -> Seq(Listed)]
        /\ \A q \in Requests : Exists(row'[q]) => \E u \in Threads : q \in RequestsOf(u)'
    <3>1. requests' = requests /\ \A u \in Threads : RequestsOf(u)' = RequestsOf(u)
      BY <1>1 DEF RequestsOf
    <3> QED
      BY <2>6, <3>1 DEF IInv, ThreadPart
  <2> QED
    BY <2>5, <2>7 DEF ThreadPart, Exists
<1> QED
  BY <1>1, <1>15, <1>18, <1>19, <1>20 DEF IInv, Becomes

LEMMA YieldKept ==
    ASSUME IInv, NEW w \in Tokens, Yield(w)
    PROVE  IInv' /\ Moves(w)
<1> PICK x \in RunRows : x = run[w]
  BY DEF IInv, RunPart
<1> PICK event : event = Head(x.pending)
  OBVIOUS
<1> PICK rest : rest = Tail(x.pending)
  OBVIOUS
<1>1. /\ x.pending # <<>> /\ UNCHANGED <<row, log, requests, messages, now>>
      /\ told' = IF event.type \in {"completed", "failed"}
                 THEN [told EXCEPT ![x.req] = @ \cup {event.type}] ELSE told
      /\ run' = [run EXCEPT ![w] = IF x.pc = "ended" /\ rest = <<>> THEN Ended
                                   ELSE [@ EXCEPT !.pending = rest]]
  BY DEF Yield, data
<1>2. x.pending \in Seq(Notes) /\ RunView(w, x) /\ x.pc \notin {"idle", "done"}
  BY <1>1, RunFacts, RunTypes DEF RunView
<1>3. x.req \in Requests
  BY <1>2 DEF RunView
<1>4. /\ rest \in Seq(Notes) /\ Len(rest) = Len(x.pending) - 1 /\ Len(x.pending) \in Nat
      /\ Len(x.pending) >= 1
      /\ \A i \in 1 .. Len(rest) : i + 1 \in 1 .. Len(x.pending) /\ rest[i] = x.pending[i + 1]
      /\ event = x.pending[1] /\ 1 \in 1 .. Len(x.pending)
  BY <1>1, <1>2, HeadTailProperties, LenProperties, EmptySeq
<1>5. Durable(x.req, event.type) /\ \A i \in 1 .. Len(rest) : Durable(x.req, rest[i].type)
  BY <1>2, <1>4 DEF RunView
<1>6. RowPart' /\ Moves(w) /\ Moves(NoToken)
  BY <1>1, RowsStay DEF IInv
<1>7. RunPart'
  <2>1. CASE run' = [run EXCEPT ![w] = Ended]
    BY <1>6, <2>1, GoneKept DEF IInv
  <2>2. CASE run' = [run EXCEPT ![w] = [@ EXCEPT !.pending = rest]]
    <3> DEFINE y == [x EXCEPT !.pending = rest]
    <3>1. /\ y \in RunRows /\ y.pc = x.pc /\ y.req = x.req /\ y.rec = x.rec
          /\ y.target = x.target /\ y.pending = rest
      BY <1>4 DEF RunRows
    <3>2. run' = [run EXCEPT ![w] = y]
      BY <2>2
    <3> HIDE DEF y
    <3>3. RunView(w, y)
      BY <1>2, <1>4, <1>5, <3>1 DEF RunView, Holds
    <3>4. RunView(w, y)'
      BY <1>1, <3>3 DEF RunView, Holds, Durable
    <3>5. ASSUME NEW q \in Requests, Exists(row'[q]), row'[q].token = w PROVE Owns(y, q)
      BY <1>1, <3>1, <3>5 DEF Owns, IInv, RunPart
    <3> QED
      BY <1>6, <3>1, <3>2, <3>4, <3>5, RunsKept DEF IInv
  <2> QED
    BY <1>1, <2>1, <2>2
<1>8. TellPart'
  <2>1. told' \in [Requests -> SUBSET {"completed", "failed"}]
    BY <1>1, <1>3 DEF IInv, TellPart
  <2>2. ASSUME NEW q \in Requests, NEW type \in told'[q] PROVE Durable(q, type)
    <3>1. type \in told[q] \/ (q = x.req /\ type = event.type)
      BY <1>1, <1>3, <2>2 DEF IInv, TellPart
    <3> QED
      BY <1>5, <3>1 DEF IInv, TellPart
  <2> QED
    BY <1>1, <2>1, <2>2 DEF TellPart, Durable
<1>9. ThreadPart'
  BY <1>1, ThreadsStay DEF IInv
<1> QED
  BY <1>1, <1>6, <1>7, <1>8, <1>9 DEF IInv

LEMMA AbandonKept ==
    ASSUME IInv, NEW w \in Tokens, Abandon(w)
    PROVE  IInv' /\ Moves(w)
<1>1. run' = [run EXCEPT ![w] = Ended] /\ UNCHANGED <<row, log, requests, messages, told, now>>
  BY DEF Abandon, data
<1>2. RowPart' /\ Moves(w)
  BY <1>1, RowsStay DEF IInv
<1>3. RunPart'
  BY <1>1, <1>2, GoneKept DEF IInv
<1> QED
  BY <1>1, <1>2, <1>3, StepKept

----------------------------------------------------------------------------
(* The clients. *)

(* A question or a retry is admitted: nobody has seen the request before. *)
LEMMA AdmitKept ==
    ASSUME IInv, NEW t \in Threads, NEW k \in Keys, NEW r \in Requests, NEW slot \in Slots,
           NEW attempt \in Nat, NEW parent \in Requests \cup {NoRequest},
           Admit(t, k, r, slot, attempt, parent)
    PROVE  /\ RowPart' /\ RunPart' /\ TellPart' /\ now' \in 0 .. MaxNow
           /\ requests' \in [Threads -> Seq(Listed)]
           /\ \A q \in Requests : Exists(row'[q]) => \E u \in Threads : q \in RequestsOf(u)'
           /\ \A u \in Threads : KeysOf(u) \subseteq KeysOf(u)'
           /\ k \in KeysOf(t)'
<1> PICK x : x = NewRow(slot, attempt, parent, now + DeadlineTerm)
  OBVIOUS
<1> PICK e : e = [id |-> r, key |-> k]
  OBVIOUS
<1>1. /\ ~Exists(row[r]) /\ row' = [row EXCEPT ![r] = x]
      /\ requests' = [requests EXCEPT ![t] = Append(@, e)]
      /\ UNCHANGED <<run, log, told, now>>
  BY DEF Admit
<1>2. RowPart /\ RunPart /\ TellPart /\ ThreadPart /\ now \in 0 .. MaxNow
  BY DEF IInv
<1>3. now + DeadlineTerm \in Nat
  BY <1>2, TermsAssumption
<1>4. Waits(x, <<>>)
  BY <1>3, NewWaits
<1>5. log[r] = <<>>
  <2>1. RowView(row[r], log[r])
    BY <1>2 DEF RowPart
  <2> QED
    BY <1>1, <2>1, RowTypes DEF RowView, Waits, Worked, Over
<1>6. log' = [log EXCEPT ![r] = <<>>]
  BY <1>1, <1>2, <1>5 DEF RowPart
<1>7. Writes(NoToken, r, x, <<>>)
  BY <1>1, <1>4, <1>6 DEF Writes, RowView, Change, Waits
<1>8. /\ RowPart' /\ Moves(NoToken) /\ row'[r] = x
      /\ \A q \in Requests \ {r} : row'[q] = row[q]
  BY <1>2, <1>7, OneRowMoves
<1>9. RunPart'
  BY <1>1, <1>2, <1>8, RunsStay
<1>10. TellPart'
  BY <1>1, <1>2, <1>8, ToldKept
<1>11. PICK l \in Seq(Listed) : l = requests[t]
  BY <1>2 DEF ThreadPart
<1>12. PICK y : y = Append(l, e)
  OBVIOUS
<1>13. e \in Listed /\ e.id = r /\ e.key = k
  BY DEF Listed
<1>14. /\ y \in Seq(Listed) /\ DOMAIN l = 1 .. Len(l) /\ DOMAIN y = 1 .. (Len(l) + 1)
       /\ Len(l) \in Nat
       /\ \A i \in 1 .. Len(l) : y[i] = l[i]
       /\ y[Len(l) + 1] = e
  BY <1>12, <1>13, AppendProperties, LenProperties
<1>15. requests'[t] = y /\ \A u \in Threads \ {t} : requests'[u] = requests[u]
  BY <1>1, <1>2, <1>11, <1>12 DEF ThreadPart
<1>16. requests' \in [Threads -> Seq(Listed)]
  BY <1>1, <1>2, <1>11, <1>12, <1>14 DEF ThreadPart
<1>17. \A i \in DOMAIN l : i \in DOMAIN y /\ y[i] = l[i]
  BY <1>14
<1>18. Len(l) + 1 \in DOMAIN y
  BY <1>14
<1>19. ASSUME NEW u \in Threads
       PROVE  RequestsOf(u) \subseteq RequestsOf(u)' /\ KeysOf(u) \subseteq KeysOf(u)'
  <2>1. CASE u = t
    BY <1>11, <1>15, <1>17, <2>1 DEF RequestsOf, KeysOf
  <2>2. CASE u # t
    BY <1>15, <2>2 DEF RequestsOf, KeysOf
  <2> QED
    BY <2>1, <2>2
<1>20. r \in RequestsOf(t)' /\ k \in KeysOf(t)'
  BY <1>13, <1>14, <1>15, <1>18 DEF RequestsOf, KeysOf
<1>21. ASSUME NEW q \in Requests, Exists(row'[q])
       PROVE  \E u \in Threads : q \in RequestsOf(u)'
  <2>1. CASE q = r
    BY <1>20, <2>1
  <2>2. CASE q # r
    BY <1>2, <1>8, <1>19, <1>21, <2>2 DEF ThreadPart
  <2> QED
    BY <2>1, <2>2
<1>22. now' \in 0 .. MaxNow
  BY <1>1, <1>2
<1> QED
  BY <1>8, <1>9, <1>10, <1>16, <1>19, <1>20, <1>21, <1>22

LEMMA AcceptMessageKept ==
    ASSUME IInv, NEW t \in Threads, NEW k \in Keys, NEW r \in Requests, NEW slot \in Slots,
           AcceptMessage(t, k, r, slot)
    PROVE  IInv'
<1>1. /\ RowPart' /\ RunPart' /\ TellPart' /\ now' \in 0 .. MaxNow
      /\ requests' \in [Threads -> Seq(Listed)]
      /\ \A q \in Requests : Exists(row'[q]) => \E u \in Threads : q \in RequestsOf(u)'
      /\ \A u \in Threads : KeysOf(u) \subseteq KeysOf(u)'
      /\ k \in KeysOf(t)'
  <2>1. Admit(t, k, r, slot, 1, NoRequest) /\ 1 \in Nat
    BY DEF AcceptMessage
  <2> QED
    BY <2>1, AdmitKept
<1>2. PICK m : m = [role |-> "user", slot |-> slot, key |-> k]
  OBVIOUS
<1>3. m \in UserMessages /\ m.key = k
  BY <1>2 DEF UserMessages
<1>4. messages' = [messages EXCEPT ![t] = Append(@, m)] /\ k \notin KeysOf(t)
  BY <1>2 DEF AcceptMessage
<1>5. /\ messages' \in [Threads -> Seq(UserMessages \cup AnswerMessages)]
      /\ \A u \in Threads : \A i \in DOMAIN messages'[u] :
            messages'[u][i].role = "user" => messages'[u][i].key \in KeysOf(u)'
      /\ SentOnce'
  BY <1>1, <1>3, <1>4, MessageAppended DEF IInv
<1>6. ThreadPart'
  BY <1>1, <1>5 DEF ThreadPart, Exists
<1> QED
  BY <1>1, <1>6 DEF IInv

LEMMA RetryResponseKept ==
    ASSUME IInv, NEW t \in Threads, NEW k \in Keys, NEW prior \in Requests, NEW r \in Requests,
           RetryResponse(t, k, prior, r)
    PROVE  IInv'
<1>1. Exists(row[prior]) /\ row[prior] \in Row
  BY RowKinds DEF RetryResponse, MayRetry, IInv
<1>2. PICK slot \in Slots : slot = row[prior].slot
  BY <1>1, RowTypes
<1>3. PICK attempt \in Nat : attempt = row[prior].attempt + 1
  BY <1>1 DEF Row
<1>4. /\ RowPart' /\ RunPart' /\ TellPart' /\ now' \in 0 .. MaxNow
      /\ requests' \in [Threads -> Seq(Listed)]
      /\ \A q \in Requests : Exists(row'[q]) => \E u \in Threads : q \in RequestsOf(u)'
      /\ \A u \in Threads : KeysOf(u) \subseteq KeysOf(u)'
  <2>1. Admit(t, k, r, slot, attempt, prior)
    BY <1>2, <1>3 DEF RetryResponse
  <2> QED
    BY <2>1, AdmitKept
<1>5. messages' = messages
  BY DEF RetryResponse
<1>6. ThreadPart'
  <2>1. /\ messages' \in [Threads -> Seq(UserMessages \cup AnswerMessages)]
        /\ \A u \in Threads : \A i \in DOMAIN messages'[u] :
              messages'[u][i].role = "user" => messages'[u][i].key \in KeysOf(u)'
        /\ SentOnce'
    BY <1>4, <1>5 DEF IInv, ThreadPart, SentOnce
  <2> QED
    BY <1>4, <2>1 DEF ThreadPart, Exists
<1> QED
  BY <1>4, <1>6 DEF IInv

(* Steps that leave the streams alone and insert nothing. *)
LEMMA QuietKept ==
    ASSUME IInv, RowPart', Moves(NoToken), UNCHANGED <<requests, messages, run, told>>,
           \A r \in Requests : Exists(row'[r]) => Exists(row[r]), now' \in 0 .. MaxNow
    PROVE  IInv'
BY RunsStay, ToldKept, ThreadsStay DEF IInv

LEMMA StatusReadKept ==
    ASSUME IInv, NEW r \in Requests, StatusRead(r)
    PROVE  IInv'
<1>1. Recovers(r) /\ UNCHANGED <<requests, messages, run, log, told, now>>
  BY DEF StatusRead
<1>2. RowPart' /\ Moves(NoToken) /\ \A q \in Requests : Exists(row'[q]) => Exists(row[q])
  BY <1>1, RecoveredRows DEF IInv
<1> QED
  BY <1>1, <1>2, QuietKept DEF IInv

LEMMA TickKept ==
    ASSUME IInv, Tick
    PROVE  IInv'
<1>1. now' = now + 1 /\ now < MaxNow /\ UNCHANGED <<row, log, requests, messages, run, told>>
  BY DEF Tick, data
<1>2. RowPart' /\ Moves(NoToken)
  BY <1>1, RowsStay DEF IInv
<1>3. now' \in 0 .. MaxNow
  BY <1>1, TermsAssumption DEF IInv
<1> QED
  BY <1>1, <1>2, <1>3, QuietKept

----------------------------------------------------------------------------
LEMMA InitInv == Init => IInv
<1> SUFFICES ASSUME Init PROVE IInv
  OBVIOUS
<1> USE DEF Init
<1>1. <<>> \in Seq(Entries) /\ <<>> \in Seq(Listed)
      /\ <<>> \in Seq(UserMessages \cup AnswerMessages)
  OBVIOUS
<1>2. RowPart
  BY <1>1 DEF RowPart, RowView
<1>3. \A r \in Requests : ~Exists(row[r])
  BY DEF Exists, AbsentRow
<1>4. RunPart
  <2>1. ASSUME NEW w \in Tokens, NEW x \in RunRows, x = run[w] PROVE RunView(w, x)
    <3>1. x.pc = "idle" /\ x.pending = <<>>
      BY <2>1, EndedRun
    <3>2. Len(x.pending) <= 2 /\ 1 .. Len(x.pending) = {}
      BY <3>1
    <3> QED
      BY <3>1, <3>2 DEF RunView, Holding
  <2> QED
    BY <1>3, <2>1, EndedRun DEF RunPart
<1>5. TellPart
  BY DEF TellPart
<1>6. ThreadPart
  BY <1>1, <1>3 DEF ThreadPart, SentOnce
<1> QED
  BY <1>2, <1>4, <1>5, <1>6, TermsAssumption DEF IInv

LEMMA StepInv ==
    ASSUME IInv, NEW w \in Tokens, Step(w)
    PROVE  IInv' /\ Moves(w)
<1>1. ASSUME NEW r \in Requests, StartStream(w, r) PROVE IInv' /\ Moves(w)
  BY <1>1, StartStreamKept
<1>2. CASE PreAcquire(w)
  BY <1>2, PreAcquireKept
<1>3. CASE PreAccept(w)
  BY <1>3, PreAcceptKept
<1>4. ASSUME NEW retryable \in BOOLEAN, PreFail(w, retryable) PROVE IInv' /\ Moves(w)
  BY <1>4, PreFailKept
<1>5. CASE Acquire(w)
  BY <1>5, AcquireKept
<1>6. CASE Raise(w)
  <2>1. PICK target \in {"timed_out", "failed"} : CanStop(w) /\ StopRun(w, target)
    BY <1>6 DEF Raise
  <2> QED
    BY <2>1, StopRunKept
<1>7. CASE Cancel(w)
  BY <1>7, StopRunKept DEF Cancel
<1>8. ASSUME NEW retryable \in BOOLEAN, PersistStop(w, retryable) PROVE IInv' /\ Moves(w)
  BY <1>8, PersistStopKept
<1>9. CASE EmitAccepted(w)
  BY <1>9, EmitKept DEF EmitAccepted
<1>10. CASE EmitDelta(w)
  BY <1>10, EmitKept DEF EmitDelta
<1>11. ASSUME NEW target \in Working, Advance(w, target) PROVE IInv' /\ Moves(w)
  BY <1>11, AdvanceKept
<1>12. CASE Commit(w)
  BY <1>12, CommitKept
<1>13. CASE Yield(w)
  BY <1>13, YieldKept
<1>14. CASE Abandon(w)
  BY <1>14, AbandonKept
<1> QED
  BY <1>1, <1>2, <1>3, <1>4, <1>5, <1>6, <1>7, <1>8, <1>9, <1>10, <1>11, <1>12, <1>13, <1>14
  DEF Step

LEMMA NextInv ==
    ASSUME IInv, [Next]_vars
    PROVE  IInv'
<1>1. ASSUME NEW t \in Threads, NEW k \in Keys, NEW r \in Requests, NEW slot \in Slots,
             AcceptMessage(t, k, r, slot)
      PROVE  IInv'
  BY <1>1, AcceptMessageKept
<1>2. ASSUME NEW t \in Threads, NEW k \in Keys, NEW r \in Requests, NEW prior \in Requests,
             RetryResponse(t, k, prior, r)
      PROVE  IInv'
  BY <1>2, RetryResponseKept
<1>3. ASSUME NEW r \in Requests, StatusRead(r) PROVE IInv'
  BY <1>3, StatusReadKept
<1>4. ASSUME NEW w \in Tokens, Step(w) PROVE IInv'
  BY <1>4, StepInv
<1>5. CASE Tick
  BY <1>5, TickKept
<1>6. CASE UNCHANGED vars
  <2>1. UNCHANGED <<row, requests, messages, run, log, told, now>>
    BY <1>6 DEF vars
  <2>2. RowPart' /\ Moves(NoToken)
    BY <2>1, RowsStay DEF IInv
  <2> QED
    BY <2>1, <2>2, QuietKept DEF IInv
<1> QED
  BY <1>1, <1>2, <1>3, <1>4, <1>5, <1>6 DEF Next, Client

(* In every reachable state a request waits, is worked on by the one stream   *)
(* that leased it, or is over, and its log, the streams, what clients were    *)
(* told and the threads agree with that.                                      *)
THEOREM Invariance == Spec => []IInv
<1>1. IInv /\ [Next]_vars => IInv'
  BY NextInv
<1> QED
  BY <1>1, InitInv, PTL DEF Spec

(* The tables, the streams and the histories keep their types. *)
THEOREM TypeCorrect == Spec => []TypeOK
<1>1. IInv => TypeOK
  <2> SUFFICES ASSUME IInv PROVE TypeOK
    OBVIOUS
  <2>1. ASSUME NEW t \in Threads, NEW i \in DOMAIN requests[t]
        PROVE  requests[t][i] \in Listed
    BY DEF IInv, ThreadPart
  <2>2. ASSUME NEW t \in Threads, NEW i \in DOMAIN messages[t]
        PROVE  messages[t][i] \in UserMessages \cup AnswerMessages
    BY DEF IInv, ThreadPart
  <2>3. \A w \in Tokens : run[w].pc \in RunStates /\ Len(run[w].pending) <= 2
    <3> SUFFICES ASSUME NEW w \in Tokens
                 PROVE  run[w].pc \in RunStates /\ Len(run[w].pending) <= 2
      OBVIOUS
    <3> PICK x \in RunRows : x = run[w]
      BY DEF IInv, RunPart
    <3> QED
      BY RunFacts, RunTypes DEF RunView
  <2>4. ASSUME NEW r \in Requests, NEW i \in DOMAIN log[r]
        PROVE  log[r][i] \in Entries
    BY DEF IInv, RowPart
  <2>5. /\ row \in [Requests -> Row \cup {AbsentRow}]
        /\ told \in [Requests -> SUBSET {"completed", "failed"}]
        /\ now \in 0 .. MaxNow
    BY DEF IInv, RowPart, TellPart
  <2> QED
    BY <2>1, <2>2, <2>3, <2>4, <2>5 DEF TypeOK, Listed, UserMessages, AnswerMessages, Entries
<1> QED
  BY <1>1, Invariance, PTL

(* A key is in the conversation of its thread once, whatever is sent again.  *)
THEOREM NothingSentTwice == Spec => []SentOnce
<1>1. IInv => SentOnce
  BY DEF IInv, ThreadPart
<1> QED
  BY <1>1, Invariance, PTL

(* All events of a request come from one stream, for any number of streams.  *)
THEOREM SingleWriter == Spec => []OneWriter
<1>1. IInv => OneWriter
  <2> SUFFICES ASSUME IInv, NEW r \in Requests, NEW i \in DOMAIN log[r], NEW j \in DOMAIN log[r]
               PROVE  log[r][i].by = log[r][j].by
    BY DEF OneWriter
  <2> PICK l \in Seq(Entries) : l = log[r]
    BY DEF IInv, RowPart
  <2>1. RowView(row[r], l) /\ i \in 1 .. Len(l) /\ j \in 1 .. Len(l)
    BY LenProperties DEF IInv, RowPart
  <2> QED
    BY <2>1, LenProperties DEF RowView, Waits, Worked, Over
<1> QED
  BY <1>1, Invariance, PTL

(* The accepted events of a request and its row tell the same story. *)
THEOREM LogsAgree == Spec => []LogAgreesWithRow
<1>1. ASSUME NEW x, NEW l, x # AbsentRow, RowView(x, l)
      PROVE  /\ x.seq = Len(l) - 1 /\ l \in Seq(Entries)
             /\ \A i \in 1 .. Len(l) : Closes(x, l, i)
             /\ x.state = "committed" => \E i \in 1 .. Len(l) : l[i].type = "completed"
  <2>1. CASE Waits(x, l) \/ Worked(x, l)
    <3>1. /\ l \in Seq(Entries) /\ x.seq = Len(l) - 1 /\ Len(l) \in Nat
          /\ \A i \in 1 .. Len(l) : /\ l[i].type \in {"accepted", "delta"}
                                    /\ l[i].type = "accepted" <=> i = 1
      BY <2>1, OpenLog
    <3>2. x.state # "committed"
      BY <2>1, StateFacts DEF Waits, Worked
    <3>3. ASSUME NEW i \in 1 .. Len(l) PROVE Closes(x, l, i)
      <4>1. 1 \in 1 .. Len(l)
        BY <3>1
      <4> QED
        BY <3>1, <4>1 DEF Closes
    <3> QED
      BY <3>1, <3>2, <3>3
  <2>2. CASE Over(x, l)
    BY <2>2 DEF Over
  <2> QED
    BY <1>1, <2>1, <2>2 DEF RowView
<1>2. IInv => LogAgreesWithRow
  <2> SUFFICES ASSUME IInv, NEW r \in Requests, Exists(row[r])
               PROVE  /\ row[r].seq = Len(log[r]) - 1
                      /\ \A i \in DOMAIN log[r] :
                            /\ log[r][i].type = "accepted" => i = 1
                            /\ log[r][i].type \in {"delta", "completed"}
                                  => log[r][1].type = "accepted"
                            /\ log[r][i].type \in {"completed", "failed", "cancelled"}
                                  => i = Len(log[r])
                      /\ "completed" \in EventsOf(r) <=> row[r].state = "committed"
                      /\ "failed" \in EventsOf(r) => row[r].state \in {"failed", "timed_out"}
                      /\ "cancelled" \in EventsOf(r) => row[r].state = "cancelled"
    BY DEF LogAgreesWithRow
  <2>1. PICK x : x = row[r]
    OBVIOUS
  <2>2. PICK l : l = log[r]
    OBVIOUS
  <2>3. x # AbsentRow /\ RowView(x, l)
    BY <2>1, <2>2 DEF IInv, RowPart, Exists, AbsentRow
  <2>4. /\ x.seq = Len(l) - 1 /\ l \in Seq(Entries)
        /\ \A i \in 1 .. Len(l) : Closes(x, l, i)
        /\ x.state = "committed" => \E i \in 1 .. Len(l) : l[i].type = "completed"
    BY <1>1, <2>3
  <2>5. DOMAIN l = 1 .. Len(l) /\ EventsOf(r) = {l[i].type : i \in 1 .. Len(l)}
    BY <2>2, <2>4, LenProperties DEF EventsOf
  <2> QED
    BY <2>1, <2>2, <2>4, <2>5 DEF Closes
<1> QED
  BY <1>2, Invariance, PTL

(* "completed" and "failed" are told of requests that are so, for good. *)
THEOREM TellsTheTruth == Spec => []ToldTruth
<1>1. IInv => ToldTruth
  BY DEF IInv, TellPart, Durable, ToldTruth
<1> QED
  BY <1>1, Invariance, PTL

(* A stream that fails can end its request while it holds the lease, whatever *)
(* the answer of its last commit was.                                         *)
THEOREM HolderEnds == Spec => []HolderCanFail
<1>1. IInv => HolderCanFail
  <2> SUFFICES ASSUME IInv, NEW w \in Tokens, run[w].pc = "stopping",
                      run[w].target # "cancelled", row[run[w].req].token = w
               PROVE  CanPersistStop(w)
    BY DEF HolderCanFail
  <2>1. PICK x \in RunRows : x = run[w]
    BY DEF IInv, RunPart
  <2>2. /\ x.pc = "stopping" /\ x.req \in Requests /\ RunView(w, x)
        /\ Exists(row[x.req]) /\ row[x.req].token = w
    BY <2>1, RunFacts
  <2>3. x.target \in {"timed_out", "failed"}
    BY <2>1, <2>2 DEF RunView
  <2>4. Worked(row[x.req], log[x.req])
    BY <2>2, RowKinds DEF IInv
  <2>5. Owns(x, x.req)
    BY <2>1, <2>2 DEF IInv, RunPart
  <2>6. Holds(w, x)
    BY <2>2, <2>5 DEF Owns, RunView, SeenWaiting
  <2>7. row[x.req].state \in Working /\ row[x.req].gen = 1 /\ row[x.req].seq \in Int
    BY <2>4, RowTypes DEF Worked
  <2>8. ~IsTerminal(row[x.req])
    BY <2>7, StateFacts DEF IsTerminal
  <2>9. /\ row[x.req].state = x.rec.state /\ row[x.req].gen = x.rec.gen
        /\ row[x.req].seq = x.rec.seq + Unknown(x.pc) /\ x.rec \in Records
    BY <2>6, <2>7, <2>8, RunTypes DEF Holds
  <2>10. row[x.req].seq = x.rec.seq
    BY <2>2, <2>9 DEF Unknown, Records
  <2>11. x.rec.state \in Working /\ x.target \in Transitions[x.rec.state]
    BY <2>3, <2>7, <2>9, WorkingEnds
  <2>12. x.target \in Terminal \ {"committed"} /\ x.rec.state \notin Terminal
    BY <2>3, <2>11, StateFacts
  <2>13. Fenced(row[x.req], FenceOf(x.rec))
    BY <2>9 DEF Fenced, FenceOf
  <2> QED
    BY <2>1, <2>8, <2>10, <2>11, <2>12, <2>13
    DEF CanPersistStop, CanAcceptEvent, CanMarkTerminal, ValidTransition, FenceOf
<1> QED
  BY <1>1, Invariance, PTL

----------------------------------------------------------------------------
(* The deadline of a request.  It is set when the request is admitted and     *)
(* never moved; a request gets on only before it, and times out only after.   *)
(* Whatever gets on keeps or gets a lease in force.                           *)
Moved(x, y) ==
    \/ y = x
    \/ /\ ~Exists(x) /\ y \in Row /\ y.state = "accepted" /\ y.token = NoToken
       /\ y.deadline = now + DeadlineTerm /\ y.deadline <= MaxNow
    \/ /\ IsActive(x) /\ x \in Row /\ y \in Row /\ y.deadline = x.deadline
       /\ \/ IsTerminal(y) /\ y.state # "committed" /\ (y.state = "timed_out" => x.deadline <= now)
          \/ /\ Live(x, now) /\ y.state \in Working \cup {"committed"}
             /\ y.state # "committed" => y.expiry > now
          \/ /\ x.state = "accepted" /\ x.deadline > now
             /\ y.state = "lease_acquired" /\ y.expiry > now

RowsMove == \A r \in Requests : Moved(row[r], row'[r])

LatePart ==
    \A w \in Tokens : run[w].pc = "stopping" /\ run[w].target = "timed_out"
                      => row[run[w].req].deadline <= now

LEMMA EndingDeadline ==
    ASSUME NEW x \in Row, NEW target \in Terminal, NEW retryable \in BOOLEAN
    PROVE  EndRow(x, target, retryable).deadline = x.deadline
<1>1. PICK reason : reason = IF target = "committed" THEN "committed" ELSE "other"
  OBVIOUS
<1>2. EndRow(x, target, retryable) = Closing(x, target, retryable, reason)
  BY <1>1 DEF EndRow, Closing
<1>3. Closing(x, target, retryable, reason).deadline = x.deadline
  BY DEF Closing, Row
<1> QED
  BY <1>2, <1>3

(* A row that ends, with a last event or without. *)
LEMMA EndMoves ==
    ASSUME NEW x \in Row, IsActive(x), NEW target \in Terminal \ {"committed"},
           NEW retryable \in BOOLEAN, NEW z, z = x \/ \E s \in Nat : z = AcceptEventRow(x, s),
           target = "timed_out" => x.deadline <= now
    PROVE  Moved(x, EndRow(z, target, retryable))
<1>1. z \in Row /\ z.deadline = x.deadline
  BY SeqRow
<1>2. PICK y : y = EndRow(z, target, retryable)
  OBVIOUS
<1>3. y \in Row /\ y.state = target /\ y.deadline = x.deadline
  BY <1>1, <1>2, EndedRow, EndingDeadline
<1>4. Moved(x, y)
  BY <1>3 DEF Moved, IsTerminal
<1> QED
  BY <1>2, <1>4

LEMMA OneMoves ==
    ASSUME RowPart, NEW r \in Requests, NEW y, row' = [row EXCEPT ![r] = y], Moved(row[r], y)
    PROVE  RowsMove
<1>1. \A q \in Requests : row'[q] = IF q = r THEN y ELSE row[q]
  BY DEF RowPart
<1> QED
  BY <1>1 DEF RowsMove, Moved

LEMMA NoneMoves ==
    ASSUME row' = row
    PROVE  RowsMove
BY DEF RowsMove, Moved

LEMMA RecoveredMove ==
    ASSUME RowPart, NEW r, Recovers(r)
    PROVE  RowsMove
<1> SUFFICES ASSUME NEW q \in Requests PROVE Moved(row[q], row'[q])
  BY DEF RowsMove
<1>1. row'[q] = row[q] \/ (IsActive(row[q]) /\ row'[q] = RecoverRow(row[q], now))
  BY RecoveryRows
<1>2. CASE row'[q] = row[q]
  BY <1>2 DEF Moved
<1>3. CASE IsActive(row[q]) /\ row'[q] = RecoverRow(row[q], now)
  <2>1. PICK x : x = row[q]
    OBVIOUS
  <2>2. x \in Row /\ IsActive(x)
    BY <1>3, <2>1, RowKinds, StateFacts DEF IsActive, Exists
  <2>3. PICK target \in {"cancelled", "timed_out", "orphaned"}, retryable \in BOOLEAN :
          /\ RecoverRow(x, now) = EndRow(x, target, retryable)
          /\ target = "timed_out" => x.deadline <= now
    BY DEF RecoverRow
  <2>4. target \in Terminal \ {"committed"}
    BY StateFacts
  <2>5. Moved(x, EndRow(x, target, retryable))
    BY <2>2, <2>3, <2>4, EndMoves
  <2> QED
    BY <1>3, <2>1, <2>3, <2>5
<1> QED
  BY <1>1, <1>2, <1>3

(* What a row does under a lease in force: an event, a transition, the answer. *)
LEMMA LiveMoves ==
    ASSUME RowPart, NEW r \in Requests, Exists(row[r]), ~IsTerminal(row[r]), Live(row[r], now),
           NEW y \in Row, y.deadline = row[r].deadline,
           y.state = row[r].state \/ y.state \in Working \cup {"committed"},
           y.state # "committed" => y.expiry = row[r].expiry
    PROVE  Moved(row[r], y)
<1>1. IsActive(row[r]) /\ row[r] \in Row
  BY RowKinds
<1>2. row[r].token \in Tokens
  BY <1>1, RowTypes DEF Live
<1>3. row[r].state \in Working
  BY <1>2, RowKinds DEF Worked
<1>4. y.state # "committed" => y.expiry > now
  BY DEF Live
<1> QED
  BY <1>1, <1>3, <1>4 DEF Moved

----------------------------------------------------------------------------
(* Every step moves the rows so. *)
LEMMA TakenMoves ==
    ASSUME IInv, NEW w \in Tokens, PreAcquire(w) \/ Acquire(w)
    PROVE  RowsMove
<1>1. PICK x : x = run[w]
  OBVIOUS
<1>2. x.pc = "start" /\ x.req \in Requests /\ row[x.req] \in Row
  <2>1. x.pc = "start"
    BY <1>1 DEF PreAcquire, Acquire
  <2> QED
    BY <1>1, <2>1, RunFacts
<1>3. PICK expiry : row' = row \/ (CanAcquire(row[x.req], now, expiry)
                                   /\ row' = [row EXCEPT ![x.req] = AcquireRow(row[x.req], w, expiry)])
  BY <1>1 DEF PreAcquire, Acquire, Took
<1>4. CASE row' = row
  BY <1>4, NoneMoves
<1>5. CASE /\ CanAcquire(row[x.req], now, expiry)
           /\ row' = [row EXCEPT ![x.req] = AcquireRow(row[x.req], w, expiry)]
  <2>1. IInv'
    BY PreAcquireKept, AcquireKept
  <2>2. PICK y : y = AcquireRow(row[x.req], w, expiry)
    OBVIOUS
  <2>3. /\ row'[x.req] = y /\ y.state = "lease_acquired" /\ y.deadline = row[x.req].deadline
        /\ y.expiry = expiry
    BY <1>2, <1>5, <2>2 DEF AcquireRow, Row, IInv, RowPart
  <2>4. y \in Row
    <3>1. row'[x.req] \in Row \cup {AbsentRow}
      BY <1>2, <2>1 DEF IInv, RowPart
    <3> QED
      BY <2>3, <3>1 DEF AbsentRow
  <2>5. /\ IsActive(row[x.req]) /\ row[x.req].state = "accepted"
        /\ row[x.req].deadline > now /\ expiry > now
    BY <1>5, StateFacts DEF CanAcquire, IsActive
  <2>6. Moved(row[x.req], y)
    BY <1>2, <2>3, <2>4, <2>5 DEF Moved
  <2> QED
    BY <1>2, <1>5, <2>2, <2>6, OneMoves DEF IInv
<1> QED
  BY <1>3, <1>4, <1>5

LEMMA EventMoves ==
    ASSUME IInv, NEW w \in Tokens, NEW s \in Nat, run[w].pc \notin {"idle", "done"},
           CanAcceptEvent(row[run[w].req], FenceOf(run[w].rec), s, FALSE, now),
           row' = [row EXCEPT ![run[w].req] = AcceptEventRow(row[run[w].req], s)]
    PROVE  RowsMove
<1>1. PICK r : r = run[w].req
  OBVIOUS
<1>2. r \in Requests /\ Exists(row[r]) /\ row[r] \in Row
  BY <1>1, RunFacts
<1>3. ~IsTerminal(row[r]) /\ Live(row[r], now)
  BY <1>1 DEF CanAcceptEvent, ActiveFenced
<1>4. PICK y : y = AcceptEventRow(row[r], s)
  OBVIOUS
<1>5. /\ y \in Row /\ y.deadline = row[r].deadline /\ y.state = row[r].state
      /\ y.expiry = row[r].expiry
  BY <1>2, <1>4, SeqRow
<1>6. Moved(row[r], y)
  BY <1>2, <1>3, <1>5, LiveMoves DEF IInv
<1> QED
  BY <1>1, <1>2, <1>4, <1>6, OneMoves DEF IInv

LEMMA WorkMoves ==
    ASSUME IInv, NEW w \in Tokens,
           PreAccept(w) \/ EmitAccepted(w) \/ EmitDelta(w) \/ \E target \in Working : Advance(w, target)
    PROVE  RowsMove
<1>1. run[w] \in RunRows
  BY DEF IInv, RunPart
<1>2. run[w].rec.seq + 1 \in Nat
  BY <1>1 DEF RunRows, Records
<1>3. CASE PreAccept(w)
  <2>1. CASE row' = row
    BY <2>1, NoneMoves
  <2>2. CASE row' # row
    <3>1. /\ run[w].pc = "preleased"
          /\ CanAcceptEvent(row[run[w].req], FenceOf(run[w].rec), 0, FALSE, now)
          /\ row' = [row EXCEPT ![run[w].req] = AcceptEventRow(row[run[w].req], 0)]
      BY <1>3, <2>2 DEF PreAccept
    <3> QED
      BY <3>1, EventMoves
  <2> QED
    BY <2>1, <2>2
<1>4. CASE EmitAccepted(w) \/ EmitDelta(w)
  <2>1. run[w].pc \in {"leased", "working"}
    BY <1>4 DEF EmitAccepted, EmitDelta
  <2>2. /\ CanAcceptEvent(row[run[w].req], FenceOf(run[w].rec), run[w].rec.seq + 1, FALSE, now)
        /\ row' = [row EXCEPT ![run[w].req] = AcceptEventRow(row[run[w].req], run[w].rec.seq + 1)]
    BY <1>4 DEF EmitAccepted, EmitDelta, Emit
  <2> QED
    BY <1>2, <2>1, <2>2, EventMoves
<1>5. ASSUME NEW target \in Working, Advance(w, target)
      PROVE  RowsMove
  <2>1. PICK r : r = run[w].req
    OBVIOUS
  <2>2. r \in Requests /\ Exists(row[r]) /\ row[r] \in Row
    BY <1>5, <2>1, RunFacts DEF Advance
  <2>3. /\ row' = [row EXCEPT ![r] = TransitionRow(row[r], target)]
        /\ CanTransition(row[r], FenceOf(run[w].rec), target, now)
    BY <1>5, <2>1 DEF Advance
  <2>4. Live(row[r], now) /\ ~IsTerminal(row[r])
    BY <2>3 DEF CanTransition, ActiveFenced, Fenced, ValidTransition, FenceOf, IsTerminal
  <2>5. PICK y : y = TransitionRow(row[r], target)
    OBVIOUS
  <2>6. target \in States
    BY StateFacts
  <2>7. /\ y \in Row /\ y.deadline = row[r].deadline /\ y.state = target
        /\ y.expiry = row[r].expiry
    BY <2>2, <2>5, <2>6 DEF TransitionRow, Row
  <2>8. Moved(row[r], y)
    BY <2>2, <2>4, <2>7, LiveMoves DEF IInv
  <2> QED
    BY <2>2, <2>3, <2>5, <2>8, OneMoves DEF IInv
<1> QED
  BY <1>3, <1>4, <1>5

LEMMA CommitMoves ==
    ASSUME IInv, NEW w \in Tokens, Commit(w)
    PROVE  RowsMove
<1>1. PICK r : r = run[w].req
  OBVIOUS
<1>2. PICK s : s = run[w].rec.seq + 1
  OBVIOUS
<1>3. s \in Nat
  BY <1>2 DEF IInv, RunPart, RunRows, Records
<1>4. r \in Requests /\ Exists(row[r]) /\ row[r] \in Row
  BY <1>1, RunFacts DEF Commit
<1>5. ~IsTerminal(row[r]) /\ Live(row[r], now)
  BY <1>1 DEF Commit, CanAcceptEvent, ActiveFenced
<1>6. PICK z : z = EndRow(AcceptEventRow(row[r], s), "committed", FALSE)
  OBVIOUS
<1>7. z \in Row /\ z.deadline = row[r].deadline /\ z.state = "committed"
  <2>1. "committed" \in Terminal /\ FALSE \in BOOLEAN
    BY StateFacts
  <2>2. AcceptEventRow(row[r], s) \in Row /\ AcceptEventRow(row[r], s).deadline = row[r].deadline
    BY <1>3, <1>4, SeqRow
  <2> QED
    BY <1>6, <2>1, <2>2, EndedRow, EndingDeadline
<1>8. PICK n : row' = [row EXCEPT ![r] = [z EXCEPT !.answer = n]]
  BY <1>1, <1>2, <1>6 DEF Commit, FinalizeRow
<1>9. PICK y : y = [z EXCEPT !.answer = n]
  OBVIOUS
<1>10. row'[r] = y /\ y.deadline = row[r].deadline /\ y.state = "committed"
  BY <1>4, <1>7, <1>8, <1>9 DEF Row, IInv, RowPart
<1>11. y \in Row
  <2>1. IInv'
    BY CommitKept
  <2>2. row'[r] \in Row \cup {AbsentRow}
    BY <1>4, <2>1 DEF IInv, RowPart
  <2> QED
    BY <1>10, <2>2 DEF AbsentRow
<1>12. Moved(row[r], y)
  BY <1>4, <1>5, <1>10, <1>11, LiveMoves DEF IInv
<1> QED
  BY <1>4, <1>8, <1>9, <1>12, OneMoves DEF IInv

LEMMA StopMoves ==
    ASSUME IInv, LatePart, NEW w \in Tokens, NEW retryable \in BOOLEAN,
           PreFail(w, retryable) \/ PersistStop(w, retryable)
    PROVE  RowsMove
<1>1. CASE row' = row
  BY <1>1, NoneMoves
<1>2. PICK r : r = run[w].req
  OBVIOUS
<1>3. r \in Requests /\ Exists(row[r]) /\ row[r] \in Row
  BY <1>2, RunFacts DEF PreFail, PersistStop
<1>4. run[w].rec.seq + 1 \in Nat /\ row[r].seq + 1 \in Nat
  <2>1. run[w].rec.seq \in Nat \cup {-1}
    BY DEF IInv, RunPart, RunRows, Records
  <2>2. row[r].seq \in Nat \cup {-1}
    BY <1>3, RowTypes
  <2> QED
    BY <2>1, <2>2
<1>5. CASE PreFail(w, retryable) /\ row' # row
  <2>1. PICK z : z = AcceptEventRow(row[r], row[r].seq + 1)
    OBVIOUS
  <2>2. ~IsTerminal(row[r]) /\ row' = [row EXCEPT ![r] = EndRow(z, "failed", retryable)]
    BY <1>2, <1>5, <2>1 DEF PreFail
  <2>3. IsActive(row[r]) /\ "failed" \in Terminal \ {"committed"}
    BY <1>3, <2>2, RowKinds, StateFacts DEF IInv
  <2>4. Moved(row[r], EndRow(z, "failed", retryable))
    BY <1>3, <1>4, <2>1, <2>3, EndMoves
  <2> QED
    BY <1>3, <2>2, <2>4, OneMoves DEF IInv
<1>6. CASE PersistStop(w, retryable) /\ row' # row
  <2>1. PICK z : z = AcceptEventRow(row[r], run[w].rec.seq + 1)
    OBVIOUS
  <2>2. PICK target : target = run[w].target
    OBVIOUS
  <2>3. CanPersistStop(w) /\ row' = [row EXCEPT ![r] = EndRow(z, target, retryable)]
        /\ run[w].pc = "stopping"
    BY <1>2, <1>6, <2>1, <2>2 DEF PersistStop
  <2>4. ~IsTerminal(row[r]) /\ target \in Terminal \ {"committed"}
    BY <1>2, <2>2, <2>3 DEF CanPersistStop, CanAcceptEvent, CanMarkTerminal
  <2>5. IsActive(row[r]) /\ (target = "timed_out" => row[r].deadline <= now)
    BY <1>2, <1>3, <2>2, <2>3, <2>4, RowKinds DEF IInv, LatePart
  <2>6. Moved(row[r], EndRow(z, target, retryable))
    BY <1>3, <1>4, <2>1, <2>4, <2>5, EndMoves
  <2> QED
    BY <1>3, <2>3, <2>6, OneMoves DEF IInv
<1> QED
  BY <1>1, <1>5, <1>6

LEMMA AdmitMoves ==
    ASSUME IInv, NEW t, NEW k, NEW r \in Requests, NEW slot \in Slots, NEW attempt \in Nat,
           NEW parent \in Requests \cup {NoRequest}, Admit(t, k, r, slot, attempt, parent)
    PROVE  RowsMove
<1>1. PICK y : y = NewRow(slot, attempt, parent, now + DeadlineTerm)
  OBVIOUS
<1>2. now + DeadlineTerm \in Nat /\ now + DeadlineTerm <= MaxNow
  BY TermsAssumption DEF Admit, IInv
<1>3. y \in Row /\ y.state = "accepted"
  <2>1. Waits(y, <<>>)
    BY <1>1, <1>2, NewWaits
  <2> QED
    BY <2>1 DEF Waits
<1>4. y.deadline = now + DeadlineTerm /\ y.token = NoToken
  BY <1>1 DEF NewRow
<1>5. ~Exists(row[r]) /\ row' = [row EXCEPT ![r] = y]
  BY <1>1 DEF Admit
<1>6. Moved(row[r], y)
  BY <1>2, <1>3, <1>4, <1>5 DEF Moved
<1> QED
  BY <1>5, <1>6, OneMoves DEF IInv

LEMMA StepMoves ==
    ASSUME IInv, LatePart, NEW w \in Tokens, Step(w)
    PROVE  RowsMove
<1>1. ASSUME NEW r \in Requests, StartStream(w, r) PROVE RowsMove
  BY <1>1, RecoveredMove DEF StartStream, IInv
<1>2. CASE PreAcquire(w) \/ Acquire(w)
  BY <1>2, TakenMoves
<1>3. CASE PreAccept(w) \/ EmitAccepted(w) \/ EmitDelta(w) \/ \E target \in Working : Advance(w, target)
  BY <1>3, WorkMoves
<1>4. CASE \E retryable \in BOOLEAN : PreFail(w, retryable) \/ PersistStop(w, retryable)
  BY <1>4, StopMoves
<1>5. CASE Commit(w)
  BY <1>5, CommitMoves
<1>6. CASE Raise(w) \/ Cancel(w) \/ Yield(w) \/ Abandon(w)
  <2>1. row' = row
    BY <1>6 DEF Raise, Cancel, StopRun, Yield, Abandon, data
  <2> QED
    BY <2>1, NoneMoves
<1> QED
  BY <1>1, <1>2, <1>3, <1>4, <1>5, <1>6 DEF Step

LEMMA NextMoves ==
    ASSUME IInv, LatePart, [Next]_vars
    PROVE  RowsMove
<1>1. ASSUME NEW t \in Threads, NEW k \in Keys, NEW r \in Requests, NEW slot \in Slots,
             AcceptMessage(t, k, r, slot)
      PROVE  RowsMove
  <2>1. Admit(t, k, r, slot, 1, NoRequest)
    BY <1>1 DEF AcceptMessage
  <2> QED
    BY <2>1, AdmitMoves
<1>2. ASSUME NEW t \in Threads, NEW k \in Keys, NEW r \in Requests, NEW prior \in Requests,
             RetryResponse(t, k, prior, r)
      PROVE  RowsMove
  <2>1. IsTerminal(row[prior])
    BY <1>2 DEF RetryResponse, MayRetry
  <2>2. row[prior] \in Row
    BY <2>1, RowKinds DEF IInv
  <2>3. row[prior].slot \in Slots /\ row[prior].attempt + 1 \in Nat
    BY <2>2 DEF Row
  <2>4. Admit(t, k, r, row[prior].slot, row[prior].attempt + 1, prior)
    BY <1>2 DEF RetryResponse
  <2> QED
    BY <2>3, <2>4, AdmitMoves
<1>3. ASSUME NEW r \in Requests, StatusRead(r) PROVE RowsMove
  BY <1>3, RecoveredMove DEF StatusRead, IInv
<1>4. ASSUME NEW w \in Tokens, Step(w) PROVE RowsMove
  BY <1>4, StepMoves
<1>5. CASE Tick \/ UNCHANGED vars
  <2>1. row' = row
    BY <1>5 DEF Tick, data, vars
  <2> QED
    BY <2>1, NoneMoves
<1> QED
  BY <1>1, <1>2, <1>3, <1>4, <1>5 DEF Next, Client

----------------------------------------------------------------------------
(* A run sets out to end its request as timed out only once it is late. *)
TimesOut(x) == x.pc = "stopping" /\ x.target = "timed_out"

LEMMA GoneOn ==
    ASSUME RunPart, NEW w \in Tokens,
           \/ \E events : Finish(w, events)
           \/ \E pc \in {"preleased", "preaccepted", "leased", "working", "broken"} : \E rec, events :
                Continue(w, pc, rec, events)
    PROVE  ~TimesOut(run'[w])
<1>1. run[w] \in RunRows /\ (\A y : run' = [run EXCEPT ![w] = y] => run'[w] = y)
  BY DEF RunPart
<1>2. ASSUME NEW events, Finish(w, events)
      PROVE  run'[w].pc \in {"done", "ended"}
  <2>1. CASE events = <<>>
    BY <1>1, <1>2, <2>1, EndedRun DEF Finish
  <2>2. CASE events # <<>>
    <3>1. PICK y : y = [run[w] EXCEPT !.pc = "ended", !.pending = events]
      OBVIOUS
    <3>2. run'[w] = y
      BY <1>1, <1>2, <2>2, <3>1 DEF Finish
    <3>3. y.pc = "ended"
      BY <1>1, <3>1 DEF RunRows
    <3> QED
      BY <3>2, <3>3
  <2> QED
    BY <2>1, <2>2
<1>3. ASSUME NEW pc \in {"preleased", "preaccepted", "leased", "working", "broken"}, NEW rec, NEW events,
             Continue(w, pc, rec, events)
      PROVE  run'[w].pc = pc
  BY <1>1, <1>3 DEF Continue, RunPart, RunRows
<1> QED
  BY <1>2, <1>3 DEF TimesOut

LEMMA LateStep ==
    ASSUME IInv, LatePart, NEW w \in Tokens, Step(w), TimesOut(run'[w])
    PROVE  run'[w].req = run[w].req /\ row[run[w].req].deadline <= now
           /\ run[w].pc \notin {"idle", "done"}
<1>1. RunPart /\ run[w] \in RunRows /\ (\A y : run' = [run EXCEPT ![w] = y] => run'[w] = y)
  BY DEF IInv, RunPart
<1>2. ASSUME NEW r \in Requests, StartStream(w, r) PROVE FALSE
  <2>1. run'[w].pc \in {"ended", "start"}
    BY <1>1, <1>2 DEF StartStream, RunPart, RunRows
  <2> QED
    BY <2>1 DEF TimesOut
<1>3. CASE PreAcquire(w) \/ PreAccept(w) \/ Acquire(w) \/ Commit(w)
  BY <1>1, <1>3, GoneOn DEF PreAcquire, PreAccept, Acquire, Commit
<1>4. CASE \E retryable \in BOOLEAN : PreFail(w, retryable) \/ PersistStop(w, retryable)
  BY <1>1, <1>4, GoneOn DEF PreFail, PersistStop
<1>5. CASE EmitAccepted(w) \/ EmitDelta(w) \/ \E target \in Working : Advance(w, target)
  BY <1>1, <1>5, GoneOn DEF EmitAccepted, EmitDelta, Emit, Advance
<1>6. CASE Raise(w) \/ Cancel(w)
  <2>1. PICK target : /\ CanStop(w) /\ StopRun(w, target)
                      /\ target = "timed_out" => now >= row[run[w].req].deadline
    BY <1>6 DEF Raise, Cancel
  <2>2. PICK x : x = run[w]
    OBVIOUS
  <2>3. x.pc \in {"leased", "working", "broken", "start"}
    BY <2>1, <2>2 DEF CanStop
  <2>4. x.req \in Requests /\ row[x.req] \in Row
    BY <2>2, <2>3, RunFacts
  <2>5. row[x.req].deadline \in Nat /\ now \in Nat
    BY <2>4, RowTypes DEF IInv
  <2>6. PICK y : y = [x EXCEPT !.pc = "stopping", !.rec = Adopted(w), !.target = target]
    OBVIOUS
  <2>7. run'[w] = y
    <3>1. run'[w] = Ended \/ run'[w] = y
      BY <1>1, <2>1, <2>2, <2>6 DEF StopRun
    <3>2. ~TimesOut(Ended)
      BY EndedRun DEF TimesOut
    <3> QED
      BY <3>1, <3>2
  <2>8. y.target = target /\ y.req = x.req
    BY <1>1, <2>2, <2>6 DEF RunRows
  <2>9. target = "timed_out"
    BY <2>7, <2>8 DEF TimesOut
  <2> QED
    BY <2>1, <2>2, <2>3, <2>5, <2>7, <2>8, <2>9
<1>7. CASE Yield(w) \/ Abandon(w)
  <2>1. \/ run'[w] = Ended
        \/ \E rest : run'[w] = [run[w] EXCEPT !.pending = rest]
    BY <1>1, <1>7 DEF Yield, Abandon
  <2>2. PICK rest : run'[w] = [run[w] EXCEPT !.pending = rest]
    BY <2>1, EndedRun DEF TimesOut
  <2>3. run'[w].pc = run[w].pc /\ run'[w].target = run[w].target /\ run'[w].req = run[w].req
    BY <1>1, <2>2 DEF RunRows
  <2>4. run[w].pc = "stopping" /\ run[w].target = "timed_out"
    BY <2>3 DEF TimesOut
  <2> QED
    BY <2>3, <2>4 DEF LatePart
<1> QED
  BY <1>2, <1>3, <1>4, <1>5, <1>6, <1>7 DEF Step

(* A step of a stream leaves the others and the clock alone. *)
LEMMA OthersStay ==
    ASSUME RunPart, NEW w \in Tokens, Step(w)
    PROVE  now' = now /\ \A v \in Tokens \ {w} : run'[v] = run[v]
<1>1. \A y : run' = [run EXCEPT ![w] = y] => \A v \in Tokens \ {w} : run'[v] = run[v]
  BY DEF RunPart
<1>2. ASSUME NEW events, Finish(w, events)
      PROVE  \A v \in Tokens \ {w} : run'[v] = run[v]
  BY <1>1, <1>2 DEF Finish
<1>3. ASSUME NEW pc, NEW rec, NEW events, Continue(w, pc, rec, events)
      PROVE  \A v \in Tokens \ {w} : run'[v] = run[v]
  BY <1>3 DEF Continue, RunPart
<1>4. CASE \E r \in Requests : StartStream(w, r)
  BY <1>1, <1>4 DEF StartStream
<1>5. CASE PreAcquire(w)
  BY <1>2, <1>3, <1>5 DEF PreAcquire
<1>6. CASE PreAccept(w)
  BY <1>2, <1>3, <1>6 DEF PreAccept
<1>7. CASE \E retryable \in BOOLEAN : PreFail(w, retryable)
  BY <1>2, <1>7 DEF PreFail
<1>8. CASE Acquire(w)
  BY <1>2, <1>3, <1>8 DEF Acquire
<1>9. CASE Raise(w) \/ Cancel(w)
  BY <1>1, <1>9 DEF Raise, Cancel, StopRun
<1>10. CASE \E retryable \in BOOLEAN : PersistStop(w, retryable)
  BY <1>2, <1>10 DEF PersistStop
<1>11. CASE EmitAccepted(w) \/ EmitDelta(w)
  BY <1>3, <1>11 DEF EmitAccepted, EmitDelta, Emit
<1>12. CASE \E target \in Working : Advance(w, target)
  BY <1>3, <1>12 DEF Advance
<1>13. CASE Commit(w)
  BY <1>2, <1>13 DEF Commit
<1>14. CASE Yield(w) \/ Abandon(w)
  BY <1>1, <1>14 DEF Yield, Abandon
<1> QED
  BY <1>4, <1>5, <1>6, <1>7, <1>8, <1>9, <1>10, <1>11, <1>12, <1>13, <1>14 DEF Step

LEMMA QuietStep ==
    ASSUME Client \/ (\E r \in Requests : StatusRead(r)) \/ Tick \/ UNCHANGED vars
    PROVE  run' = run /\ (now' = now \/ now' = now + 1)
<1>1. ASSUME NEW t, NEW k, NEW r, NEW slot, AcceptMessage(t, k, r, slot)
      PROVE  run' = run /\ now' = now
  BY <1>1 DEF AcceptMessage, Admit
<1>2. ASSUME NEW t, NEW k, NEW prior, NEW r, RetryResponse(t, k, prior, r)
      PROVE  run' = run /\ now' = now
  BY <1>2 DEF RetryResponse, Admit
<1>3. CASE Client
  BY <1>1, <1>2, <1>3 DEF Client
<1>4. CASE \E r \in Requests : StatusRead(r)
  BY <1>4 DEF StatusRead
<1>5. CASE Tick \/ UNCHANGED vars
  BY <1>5 DEF Tick, vars
<1> QED
  BY <1>3, <1>4, <1>5

LEMMA LateStays ==
    ASSUME IInv, LatePart, NEW v \in Tokens, run'[v] = run[v], TimesOut(run[v]), now' \in Nat,
           now <= now', \A r \in Requests : Exists(row[r]) => row'[r].deadline = row[r].deadline
    PROVE  row'[run'[v].req].deadline <= now'
<1>1. PICK r : r = run[v].req
  OBVIOUS
<1>2. r \in Requests /\ Exists(row[r]) /\ row[r] \in Row
  BY <1>1, RunFacts DEF TimesOut
<1>3. row[r].deadline \in Nat /\ now \in Nat
  BY <1>2, RowTypes DEF IInv
<1>4. row[r].deadline <= now
  BY <1>1 DEF LatePart, TimesOut
<1>5. row'[r].deadline <= now'
  BY <1>2, <1>3, <1>4
<1> QED
  BY <1>1, <1>5

LEMMA LateKept ==
    ASSUME IInv, LatePart, [Next]_vars
    PROVE  LatePart'
<1>1. ASSUME NEW r \in Requests, Exists(row[r])
      PROVE  row'[r].deadline = row[r].deadline
  BY <1>1, NextMoves DEF RowsMove, Moved
<1>2. now \in Nat /\ RunPart
  BY DEF IInv
<1>3. CASE \E w \in Tokens : Step(w)
  <2>1. PICK w \in Tokens : Step(w)
    BY <1>3
  <2>2. now' = now /\ \A v \in Tokens \ {w} : run'[v] = run[v]
    BY <1>2, <2>1, OthersStay
  <2>3. ASSUME NEW v \in Tokens, TimesOut(run'[v])
        PROVE  row'[run'[v].req].deadline <= now'
    <3>1. CASE v = w
      <4>1. run'[w].req = run[w].req /\ row[run[w].req].deadline <= now
        BY <2>1, <2>3, <3>1, LateStep
      <4>2. run[w].req \in Requests /\ Exists(row[run[w].req])
        BY <2>1, <2>3, <3>1, LateStep, RunFacts
      <4> QED
        BY <1>1, <2>2, <3>1, <4>1, <4>2
    <3>2. CASE v # w
      BY <1>1, <1>2, <2>2, <2>3, <3>2, LateStays
    <3> QED
      BY <3>1, <3>2
  <2> QED
    BY <2>3 DEF LatePart, TimesOut
<1>4. CASE Client \/ (\E r \in Requests : StatusRead(r)) \/ Tick \/ UNCHANGED vars
  <2>1. run' = run /\ (now' = now \/ now' = now + 1)
    BY <1>4, QuietStep
  <2>2. now' \in Nat /\ now <= now'
    BY <1>2, <2>1
  <2>3. ASSUME NEW v \in Tokens, TimesOut(run'[v])
        PROVE  row'[run'[v].req].deadline <= now'
    BY <1>1, <2>1, <2>2, <2>3, LateStays
  <2> QED
    BY <2>3 DEF LatePart, TimesOut
<1> QED
  BY <1>3, <1>4 DEF Next

LEMMA ClockGoesOn ==
    ASSUME RunPart, [Next]_vars
    PROVE  now' = now \/ now' = now + 1
<1>1. CASE \E w \in Tokens : Step(w)
  BY <1>1, OthersStay
<1>2. CASE Client \/ (\E r \in Requests : StatusRead(r)) \/ Tick \/ UNCHANGED vars
  BY <1>2, QuietStep
<1> QED
  BY <1>1, <1>2 DEF Next

LEMMA Late == Spec => [](IInv /\ LatePart)
<1>1. Init => LatePart
  <2> SUFFICES ASSUME Init, NEW w \in Tokens PROVE run[w].pc = "idle"
    BY DEF LatePart
  <2> QED
    BY EndedRun DEF Init
<1>2. IInv /\ LatePart /\ [Next]_vars => LatePart'
  BY LateKept
<1> QED
  BY <1>1, <1>2, Invariance, PTL DEF Spec

----------------------------------------------------------------------------
(* No step of any stream, client or recovery takes a request away, moves its  *)
(* deadline, or writes a request that has ended: not its state, its answer,   *)
(* its sequence nor its retryable flag.                                       *)
Settled ==
    \A r \in Requests :
        /\ Exists(row[r]) => Exists(row'[r]) /\ row'[r].deadline = row[r].deadline
        /\ IsTerminal(row[r]) => row'[r] = row[r]

THEOREM EndingsStand == Spec => [][Settled]_vars
<1>1. IInv /\ LatePart /\ [Next]_vars => [Settled]_vars
  <2> SUFFICES ASSUME IInv, LatePart, [Next]_vars, NEW r \in Requests
               PROVE  /\ Exists(row[r]) => Exists(row'[r]) /\ row'[r].deadline = row[r].deadline
                      /\ IsTerminal(row[r]) => row'[r] = row[r]
    BY DEF Settled
  <2>1. Moved(row[r], row'[r])
    BY NextMoves DEF RowsMove
  <2>2. \A x \in Row : Exists(x)
    BY RowTypes
  <2>3. IsTerminal(row[r]) => Exists(row[r]) /\ ~IsActive(row[r])
    BY StateFacts DEF IsTerminal, IsActive, Exists, States
  <2> QED
    BY <2>1, <2>2, <2>3 DEF Moved
<1> QED
  BY <1>1, Late, PTL DEF Spec

(* "Every state mutation and final commit [...] also requires a live lease, an *)
(* active deadline and no cancellation request" (ResponseRow.Live): what is    *)
(* true of it.  A request a run works on gets on, to another working state or  *)
(* to its answer, only under a lease in force.  (Its failure alone does not    *)
(* need one: FailureNeedsLiveLease.)                                           *)
Progress ==
    \A r \in Requests :
        ( /\ row[r].state \in Working
          /\ row'[r].state \in Working \cup {"committed"} /\ row'[r].state # row[r].state )
        => Live(row[r], now)

THEOREM ProgressNeedsLiveLease == Spec => [][Progress]_vars
<1>1. IInv /\ LatePart /\ [Next]_vars => [Progress]_vars
  <2> SUFFICES ASSUME IInv, LatePart, [Next]_vars, NEW r \in Requests,
                      row[r].state \in Working, row'[r].state # row[r].state,
                      row'[r].state \in Working \cup {"committed"}
               PROVE  Live(row[r], now)
    BY DEF Progress
  <2>1. Moved(row[r], row'[r])
    BY NextMoves DEF RowsMove
  <2>2. row[r].state # "accepted" /\ Exists(row[r])
    BY StateFacts DEF Exists
  <2>3. ~(IsTerminal(row'[r]) /\ row'[r].state # "committed")
    BY StateFacts DEF IsTerminal
  <2> QED
    BY <2>1, <2>2, <2>3 DEF Moved
<1> QED
  BY <1>1, Late, PTL DEF Spec

(* A request is stored as timed out only once its deadline has passed, also   *)
(* where the run that stores it decided so several steps earlier.             *)
TimedOutIsLate == \A r \in Requests : row[r].state = "timed_out" => row[r].deadline <= now

THEOREM TimeoutsAreTrue == Spec => []TimedOutIsLate
<1>1. Init => TimedOutIsLate
  BY DEF Init, AbsentRow, TimedOutIsLate
<1>2. IInv /\ LatePart /\ TimedOutIsLate /\ [Next]_vars => TimedOutIsLate'
  <2> SUFFICES ASSUME IInv, LatePart, TimedOutIsLate, [Next]_vars, NEW r \in Requests,
                      row'[r].state = "timed_out"
               PROVE  row'[r].deadline <= now'
    BY DEF TimedOutIsLate
  <2>1. Moved(row[r], row'[r])
    BY NextMoves DEF RowsMove
  <2>2. now \in Nat
    BY DEF IInv
  <2>3. now' = now \/ now' = now + 1
    BY ClockGoesOn DEF IInv
  <2>4. "timed_out" \in Terminal /\ "timed_out" \notin Working
    BY StateFacts
  <2>5. row'[r].deadline <= now /\ row'[r].deadline \in Int
    <3>1. CASE row'[r] = row[r]
      <4>1. row[r] \in Row
        BY <2>4, <3>1, RowKinds DEF IInv, IsTerminal
      <4> QED
        BY <3>1, <4>1, RowTypes DEF TimedOutIsLate
    <3>2. CASE row'[r] # row[r]
      BY <2>1, <2>4, <3>2, StateFacts, RowTypes DEF Moved
    <3> QED
      BY <3>1, <3>2
  <2> QED
    BY <2>2, <2>3, <2>5
<1> QED
  BY <1>1, <1>2, Late, PTL DEF Spec

(* An overdue request is out of everybody's reach but recovery's: no stream,  *)
(* retry or read of another thread answers it, works on it or moves its       *)
(* deadline; it stays due until it ends without an answer.                    *)
DueUntilEnded ==
    \A r \in Requests :
        Due(r) => Due(r)' \/ (IsTerminal(row'[r]) /\ row'[r].state # "committed")

THEOREM OverdueIsFinal == Spec => [][DueUntilEnded]_vars
<1>1. IInv /\ LatePart /\ [Next]_vars => [DueUntilEnded]_vars
  <2> SUFFICES ASSUME IInv, LatePart, [Next]_vars, NEW r \in Requests, Due(r)
               PROVE  Due(r)' \/ (IsTerminal(row'[r]) /\ row'[r].state # "committed")
    BY DEF DueUntilEnded
  <2>1. Moved(row[r], row'[r])
    BY NextMoves DEF RowsMove
  <2>2. row[r] \in Row /\ IsActive(row[r]) /\ row[r].deadline <= now
    BY RowKinds, StateFacts DEF IInv, Due, IsActive, Exists
  <2>3. now \in Nat /\ row[r].deadline \in Nat /\ Exists(row[r])
    BY <2>2, RowTypes DEF IInv
  <2>4. row'[r] = row[r] \/ (IsTerminal(row'[r]) /\ row'[r].state # "committed")
    BY <2>1, <2>2, <2>3 DEF Moved, Live
  <2>5. now' = now \/ now' = now + 1
    BY ClockGoesOn DEF IInv
  <2>6. row'[r] = row[r] => Due(r)'
    BY <2>2, <2>3, <2>5 DEF Due
  <2> QED
    BY <2>4, <2>6
<1> QED
  BY <1>1, Late, PTL DEF Spec

(* What a recovery leaves of the backlog: less its batch, at one instant. *)
LEMMA BacklogLess ==
    ASSUME RowPart, NEW batch \in SUBSET Backlog, RecoverBatch(batch), now' = now
    PROVE  Backlog' = Backlog \ batch
<1>1. ASSUME NEW q \in batch
      PROVE  ~Expired(row'[q], now)
  <2>1. q \in Requests /\ IsActive(row[q]) /\ row'[q] = RecoverRow(row[q], now)
    BY <1>1 DEF RecoverBatch, Backlog, Expired
  <2>2. Over(row'[q], log[q])
    BY <2>1, RowKinds, RecoveredRow
  <2> QED
    BY <2>2, StateFacts DEF Over, Expired, IsActive
<1>2. \A q \in Requests \ batch : row'[q] = row[q]
  BY DEF RecoverBatch
<1> QED
  BY <1>1, <1>2 DEF Backlog

(* The backlog drains, though a read takes no more than RecoveryLimit of it:  *)
(* a status read that does not end its own request has taken a full batch off *)
(* the backlog, and at one instant nothing adds to the backlog, no admission, *)
(* no lease and no other recovery.                                            *)
Drains ==
    /\ \A r \in Requests :
          StatusRead(r) => \/ IsTerminal(row'[r])
                           \/ Cardinality(Backlog') + RecoveryLimit = Cardinality(Backlog)
    /\ now' = now => Backlog' \subseteq Backlog

THEOREM BacklogDrains == Spec => [][Drains]_vars
<1>1. ASSUME IInv, NEW r \in Requests, StatusRead(r), ~IsTerminal(row'[r])
      PROVE  Cardinality(Backlog') + RecoveryLimit = Cardinality(Backlog)
  <2>1. PICK batch \in Batches : RecoverBatch(batch)
    BY <1>1 DEF StatusRead, Recovers
  <2>2. /\ batch \subseteq Backlog /\ Cardinality(batch) = Lesser(RecoveryLimit, Cardinality(Backlog))
        /\ now' = now
    BY <1>1, <2>1 DEF Batches, StatusRead
  <2>3. Backlog' = Backlog \ batch
    BY <1>1, <2>1, <2>2, BacklogLess DEF IInv
  <2>4. IsFiniteSet(Backlog) /\ IsFiniteSet(batch) /\ IsFiniteSet(Backlog')
    <3>1. IsFiniteSet(Backlog)
      BY TermsAssumption, FS_Subset DEF Backlog
    <3> QED
      BY <2>2, <2>3, <3>1, FS_Subset
  <2>5. Cardinality(Backlog) \in Nat /\ Cardinality(batch) \in Nat /\ Cardinality(Backlog') \in Nat
    BY <2>4, FS_CardinalityType
  <2>6. Cardinality(Backlog) = Cardinality(Backlog') + Cardinality(batch)
    <3>1. Backlog = Backlog' \cup batch /\ Backlog' \cap batch = {}
      BY <2>2, <2>3
    <3>2. Cardinality(Backlog) = Cardinality(Backlog') + Cardinality(batch) - Cardinality({})
      BY <2>4, <3>1, FS_Union
    <3> QED
      BY <2>5, <3>2, FS_EmptySet
  <2>7. batch # Backlog
    <3>1. r \in Backlog
      BY <1>1 DEF StatusRead, Due, Backlog, Expired
    <3>2. ASSUME r \in batch PROVE FALSE
      <4>1. row'[r] = RecoverRow(row[r], now) /\ IsActive(row[r])
        BY <1>1, <2>1, <3>2 DEF RecoverBatch, StatusRead, Due, IsActive
      <4>2. Over(row'[r], log[r])
        BY <1>1, <4>1, RowKinds, RecoveredRow DEF IInv
      <4> QED
        BY <1>1, <4>2 DEF Over, IsTerminal
    <3> QED
      BY <3>1, <3>2
  <2>8. Cardinality(batch) # Cardinality(Backlog)
    BY <2>2, <2>4, <2>7, FS_Subset
  <2> QED
    BY <2>2, <2>5, <2>6, <2>8 DEF Lesser
<1>2. ASSUME IInv, LatePart, [Next]_vars, now' = now, NEW q \in Backlog'
      PROVE  q \in Backlog
  <2>1. q \in Requests /\ Expired(row'[q], now)
    BY <1>2 DEF Backlog
  <2>2. Moved(row[q], row'[q])
    BY <1>2, <2>1, NextMoves DEF RowsMove
  <2>3. now \in Nat /\ DeadlineTerm \in Nat \ {0}
    BY <1>2, TermsAssumption DEF IInv
  <2>4. CASE row'[q] = row[q]
    BY <2>1, <2>4 DEF Backlog
  <2>5. CASE row'[q].deadline = now + DeadlineTerm /\ row'[q].token = NoToken
    BY <2>1, <2>3, <2>5 DEF Expired
  <2>6. CASE IsTerminal(row'[q])
    BY <2>1, <2>6, StateFacts DEF Expired, IsActive, IsTerminal
  <2>7. CASE /\ row'[q] \in Row /\ row'[q].deadline > now /\ row'[q].expiry > now
    <3>1. row'[q].deadline \in Nat /\ row'[q].expiry \in Int
      BY <2>7, NullAssumption DEF Row, NullTime
    <3> QED
      BY <2>1, <2>3, <2>7, <3>1 DEF Expired
  <2>8. row'[q].state = "committed" => IsTerminal(row'[q])
    BY StateFacts DEF IsTerminal
  <2> QED
    BY <2>2, <2>4, <2>5, <2>6, <2>7, <2>8 DEF Moved, Live
<1>3. IInv /\ LatePart /\ [Next]_vars => [Drains]_vars
  BY <1>1, <1>2 DEF Drains
<1> QED
  BY <1>3, Late, PTL DEF Spec

(* No request outlives the horizon of the model: its deadline is within it.   *)
DeadlineInReach == \A r \in Requests : IsActive(row[r]) => row[r].deadline <= MaxNow

THEOREM DeadlinesComeRound == Spec => []DeadlineInReach
<1>1. Init => DeadlineInReach
  BY StateFacts DEF Init, AbsentRow, DeadlineInReach, IsActive
<1>2. IInv /\ LatePart /\ DeadlineInReach /\ [Next]_vars => DeadlineInReach'
  <2> SUFFICES ASSUME IInv, LatePart, DeadlineInReach, [Next]_vars, NEW r \in Requests,
                      IsActive(row'[r])
               PROVE  row'[r].deadline <= MaxNow
    BY DEF DeadlineInReach, IsActive
  <2>1. Moved(row[r], row'[r])
    BY NextMoves DEF RowsMove
  <2> QED
    BY <2>1 DEF Moved, DeadlineInReach, IsActive
<1> QED
  BY <1>1, <1>2, Late, PTL DEF Spec
=============================================================================
