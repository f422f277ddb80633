---------------------- MODULE ResponseLifecycleProofs ----------------------
(* Proofs about ResponseLifecycle for any requests, slots, tokens, bounds   *)
(* and stale fences.  The invariants are not inductive: that a slot is      *)
(* answered once rests on the numbering of its attempts (Lineage) and on    *)
(* the agreement of messages and rows (Answers).  Every call but            *)
(* create_request and finalize_response only lets some rows evolve, so most *)
(* of the argument is made once, in LEMMA EvolvePreserves.                  *)
EXTENDS ResponseLifecycle, TLAPS

(* The attempts of a slot are numbered 1, 2, ... without gap or repetition. *)
UniqueAttempt ==
    \A r, q \in Inserted :
        row[r].slot = row[q].slot /\ row[r].attempt = row[q].attempt => r = q

NoGap ==
    \A r \in Inserted :
        /\ row[r].attempt >= 1
        /\ \A k \in 1 .. row[r].attempt :
             \E p \in Inserted : row[p].slot = row[r].slot /\ row[p].attempt = k

Lineage == UniqueAttempt /\ NoGap /\ NewestAttemptOnly

(* Every message belongs to the committed row that names it, and back. *)
MessageOfRow(i) ==
    LET m == messages[i]
    IN  /\ m.request \in Inserted
        /\ row[m.request].answer = i
        /\ row[m.request].slot = m.slot
        /\ row[m.request].gen = m.gen

RowOfMessage(r) ==
    row[r].state = "committed" =>
        row[r].answer \in DOMAIN messages /\ messages[row[r].answer].request = r

Answers ==
    /\ \A i \in DOMAIN messages : MessageOfRow(i)
    /\ \A r \in Inserted : RowOfMessage(r)

IInv == TypeOK /\ Shape /\ Lineage /\ Answers

(* How the row of an attempt moves under every call but finalize_response:   *)
(* it was active, keeps its identity and stays a well-formed row.            *)
Evolves(x, y) ==
    /\ IsActive(x)
    /\ y \in Row
    /\ RowShape(y)
    /\ y.state # "committed"
    /\ y.slot = x.slot
    /\ y.attempt = x.attempt

EvolveStep ==
    /\ row' \in [Requests -> Row \cup {AbsentRow}]
    /\ \A r \in Requests : row'[r] = row[r] \/ Evolves(row[r], row'[r])
    /\ messages' = messages
    /\ now' \in Nat

----------------------------------------------------------------------------
(* The table of transitions leads from an active state to a working or a     *)
(* terminal one: nothing returns to accepted.                                *)
LEMMA TransitionTargets ==
    ASSUME NEW s \in Active
    PROVE  Transitions[s] \subseteq Working \cup Terminal
BY DEF Active, Working, RouteReady, Terminal, Stopped, Transitions

LEMMA StateFacts ==
    /\ Active \cap Terminal = {}
    /\ Working \subseteq Active
    /\ "accepted" \in Active
    /\ "accepted" \notin Working
    /\ "committed" \in Terminal
    /\ "absent" \notin States
BY DEF Active, Working, RouteReady, Terminal, States

LEMMA InsertedRow ==
    ASSUME TypeOK, NEW r \in Inserted
    PROVE  r \in Requests /\ row[r] \in Row
BY DEF TypeOK, Inserted, Exists, AbsentRow

LEMMA EvolvePreserves ==
    ASSUME IInv, EvolveStep
    PROVE  IInv'
<1> USE DEF IInv
<1>1. Inserted' = Inserted
  <2>1. \A r \in Requests : Exists(row[r]) <=> Exists(row'[r])
    BY StateFacts DEF EvolveStep, Evolves, Exists, IsActive, Row, States
  <2> QED BY <2>1 DEF Inserted
<1>2. \A r \in Inserted : row[r] \in Row /\ row'[r] \in Row
  BY <1>1, InsertedRow DEF EvolveStep, Evolves
<1>3. TypeOK'
  BY DEF TypeOK, EvolveStep
<1>4. Shape'
  BY <1>1, InsertedRow DEF Shape, EvolveStep, Evolves
<1>5. \A r \in Inserted : row'[r].slot = row[r].slot /\ row'[r].attempt = row[r].attempt
  BY InsertedRow DEF EvolveStep, Evolves
<1>6. UniqueAttempt' /\ NoGap'
  BY <1>1, <1>5 DEF Lineage, UniqueAttempt, NoGap
<1>7. NewestAttemptOnly'
  <2>1. \A r \in Inserted : IsTerminal(row[r]) => row'[r] = row[r]
    BY StateFacts, InsertedRow DEF EvolveStep, Evolves, IsActive, IsTerminal
  <2> QED BY <1>1, <1>5, <2>1 DEF Lineage, NewestAttemptOnly
<1>8. Answers'
  <2>1. \A r \in Inserted : row'[r] = row[r] \/ row[r].answer = NoAnswer
    BY StateFacts, InsertedRow DEF EvolveStep, Evolves, IsActive, Shape, RowShape
  <2>2. ASSUME NEW i \in DOMAIN messages
        PROVE  MessageOfRow(i)'
    <3>1. i # NoAnswer
      BY DEF TypeOK, NoAnswer
    <3> QED BY <1>1, <2>1, <3>1 DEF EvolveStep, Answers, MessageOfRow
  <2>3. ASSUME NEW r \in Inserted
        PROVE  RowOfMessage(r)'
    BY InsertedRow DEF EvolveStep, Evolves, Answers, RowOfMessage
  <2> QED BY <1>1, <2>2, <2>3 DEF Answers, EvolveStep
<1> QED BY <1>3, <1>4, <1>6, <1>7, <1>8 DEF Lineage

(* One row evolves, the others do not move. *)
LEMMA OneEvolves ==
    ASSUME IInv, NEW r \in Inserted, NEW y,
           Evolves(row[r], y),
           row' = [row EXCEPT ![r] = y],
           UNCHANGED <<messages, now>>
    PROVE  EvolveStep
<1>1. r \in Requests
  BY DEF Inserted
<1>2. y \in Row
  BY DEF Evolves
<1> QED BY <1>1, <1>2 DEF EvolveStep, IInv, TypeOK

(* Any ending but a commit is an evolution. *)
LEMMA EndEvolves ==
    ASSUME NEW x \in Row, IsActive(x), RowShape(x),
           NEW target \in Terminal \ {"committed"}, NEW retryable \in BOOLEAN
    PROVE  Evolves(x, EndRow(x, target, retryable))
<1>1. x.state # "committed" /\ x.answer = NoAnswer
  BY StateFacts DEF IsActive, RowShape
<1>2. target \notin Active /\ target \in States /\ target \notin Working
  BY DEF Active, Working, RouteReady, Terminal, States
<1>3. EndRow(x, target, retryable) \in Row
  BY <1>2 DEF EndRow, Row, Reasons
<1>4. RowShape(EndRow(x, target, retryable))
  BY <1>1, <1>2 DEF EndRow, RowShape, Row, IsActive, IsTerminal, NoReason
<1> QED BY <1>3, <1>4 DEF Evolves, EndRow, Row

(* request_cancel and recover_expired_requests end a row. *)
LEMMA CancelEvolves ==
    ASSUME NEW x \in Row, RowShape(x), CanCancel(x)
    PROVE  Evolves(x, CancelRow(x))
<1> DEFINE y == EndRow(x, "cancelled", FALSE)
<1>1. "cancelled" \in Terminal \ {"committed"}
  BY DEF Terminal
<1>2. Evolves(x, y)
  BY <1>1, EndEvolves DEF CanCancel
<1>3. y.state = "cancelled" /\ "cancelled" \notin Active
  BY DEF EndRow, Row, Active, Working, RouteReady
<1> HIDE DEF y
<1>4. CancelRow(x) = [y EXCEPT !.cancelled = TRUE]
  BY DEF CancelRow, y
<1> DEFINE z == [y EXCEPT !.cancelled = TRUE]
<1>5. y \in Row
  BY <1>2 DEF Evolves
<1>6. z \in Row
  BY <1>5 DEF Row
<1>7. /\ z.state = y.state /\ z.slot = y.slot /\ z.attempt = y.attempt /\ z.reason = y.reason
      /\ z.token = y.token /\ z.expiry = y.expiry /\ z.answer = y.answer
      /\ z.retryable = y.retryable
  BY <1>5 DEF Row
<1> HIDE DEF z
<1>8. RowShape(z)
  BY <1>2, <1>3, <1>7 DEF Evolves, RowShape, IsActive, IsTerminal
<1>9. Evolves(x, z)
  BY <1>2, <1>6, <1>7, <1>8 DEF Evolves
<1> QED
  BY <1>4, <1>9 DEF z

LEMMA RecoverEvolves ==
    ASSUME NEW x \in Row, RowShape(x), NEW t, Expired(x, t)
    PROVE  Evolves(x, RecoverRow(x, t))
<1>1. {"cancelled", "timed_out", "orphaned"} \subseteq Terminal \ {"committed"}
  BY DEF Terminal
<1> QED BY <1>1, EndEvolves DEF RecoverRow, Expired

(* A fence is a lease generation and a state of the table. *)
LEMMA FenceFacts ==
    ASSUME IInv, NEW r \in Inserted, NEW fence \in Fences(r)
    PROVE  fence.state \in States /\ fence.gen \in Nat
BY InsertedRow, BoundsAssumption DEF IInv, Fences, Row, States

LEMMA AcquireStep ==
    ASSUME IInv, NEW r \in Inserted, NEW token \in Tokens, NEW term \in LeaseTerms,
           AcquireLease(r, token, now + term)
    PROVE  EvolveStep
<1> DEFINE y == AcquireRow(row[r], token, now + term)
<1>1. row[r] \in Row /\ RowShape(row[r])
  BY InsertedRow DEF IInv, Shape
<1>2. now + term \in Nat
  BY BoundsAssumption DEF IInv, TypeOK
<1>3. "lease_acquired" \in Working /\ Working \subseteq States /\ Working \cap Terminal = {}
  BY DEF Active, Working, RouteReady, Terminal, States
<1>4. row[r].state = "accepted" /\ IsActive(row[r])
  BY StateFacts DEF AcquireLease, CanAcquire, IsActive
<1>5. row[r].answer = NoAnswer /\ row[r].reason = NoReason /\ ~row[r].cancelled
  BY <1>1, <1>4 DEF RowShape
<1>6. y \in Row
  <2>1. row[r].gen + 1 \in Nat
    BY <1>1 DEF Row
  <2> QED BY <1>1, <1>2, <1>3, <2>1 DEF AcquireRow, Row
<1>7. RowShape(y)
  BY <1>1, <1>2, <1>3, <1>5, NullAssumption
     DEF AcquireRow, Row, RowShape, IsTerminal, NullTime
<1>8. Evolves(row[r], y)
  BY <1>1, <1>4, <1>6, <1>7 DEF Evolves, AcquireRow, Row
<1> QED BY <1>8, OneEvolves DEF AcquireLease

LEMMA RenewStep ==
    ASSUME IInv, NEW r \in Inserted, NEW fence \in Fences(r), NEW token \in Tokens,
           NEW term \in LeaseTerms, RenewLease(r, fence, token, now + term)
    PROVE  EvolveStep
<1> DEFINE y == RenewRow(row[r], now + term)
<1>1. row[r] \in Row /\ RowShape(row[r])
  BY InsertedRow DEF IInv, Shape
<1>2. now + term \in Nat
  BY BoundsAssumption DEF IInv, TypeOK
<1>3. row[r].state \in Working
  BY <1>1, NullAssumption DEF RenewLease, CanRenew, RowShape
<1>4. IsActive(row[r]) /\ ~IsTerminal(row[r]) /\ row[r].state # "committed"
  BY <1>3, StateFacts DEF IsActive, IsTerminal
<1>5. y \in Row
  <2>1. row[r].gen + 1 \in Nat
    BY <1>1 DEF Row
  <2> QED BY <1>1, <1>2, <2>1 DEF RenewRow, Row
<1>6. RowShape(y)
  BY <1>1, <1>2, <1>3, <1>4 DEF RenewRow, Row, RowShape, IsActive, IsTerminal, NullTime
<1>7. Evolves(row[r], y)
  BY <1>1, <1>4, <1>5, <1>6 DEF Evolves, RenewRow, Row
<1> QED BY <1>7, OneEvolves DEF RenewLease

LEMMA TransitionStep ==
    ASSUME IInv, NEW r \in Inserted, NEW fence \in Fences(r), NEW target \in States,
           Transition(r, fence, target)
    PROVE  EvolveStep
<1> DEFINE y == TransitionRow(row[r], target)
<1>1. row[r] \in Row /\ RowShape(row[r])
  BY InsertedRow DEF IInv, Shape
<1>2. row[r].state = fence.state /\ fence.state \in Active
  BY FenceFacts DEF Transition, CanTransition, ActiveFenced, Fenced, ValidTransition, States
<1>3. row[r].state \in Working
  BY <1>1 DEF Transition, CanTransition, ActiveFenced, Live, RowShape
<1>4. target \in Working
  BY <1>2, TransitionTargets DEF Transition, CanTransition, ValidTransition
<1>5. Evolves(row[r], y)
  BY <1>1, <1>3, <1>4, StateFacts
     DEF Evolves, TransitionRow, Row, RowShape, IsActive, IsTerminal, States
<1> QED BY <1>5, OneEvolves DEF Transition

LEMMA EventStep ==
    ASSUME IInv, NEW r \in Inserted, NEW fence \in Fences(r), NEW sequence \in 0 .. MaxSeq,
           NEW cleanup \in BOOLEAN, AcceptEvent(r, fence, sequence, cleanup)
    PROVE  EvolveStep
<1> DEFINE y == AcceptEventRow(row[r], sequence)
<1>1. row[r] \in Row /\ RowShape(row[r])
  BY InsertedRow DEF IInv, Shape
<1>2. sequence \in Nat
  BY BoundsAssumption
<1>3. IsActive(row[r])
  BY <1>1 DEF AcceptEvent, CanAcceptEvent, IsActive, IsTerminal, Row, States
<1>4. Evolves(row[r], y)
  BY <1>1, <1>2, <1>3, StateFacts
     DEF Evolves, AcceptEventRow, Row, RowShape, IsActive, IsTerminal
<1> QED BY <1>4, OneEvolves DEF AcceptEvent

LEMMA MarkTerminalStep ==
    ASSUME IInv, NEW r \in Inserted, NEW fence \in Fences(r), NEW target \in Terminal,
           NEW retryable \in BOOLEAN, MarkTerminal(r, fence, target, retryable)
    PROVE  EvolveStep
<1>1. row[r] \in Row /\ RowShape(row[r])
  BY InsertedRow DEF IInv, Shape
<1>2. IsActive(row[r])
  BY FenceFacts DEF MarkTerminal, CanMarkTerminal, ValidTransition, Fenced, IsActive, States
<1>3. Evolves(row[r], EndRow(row[r], target, retryable))
  BY <1>1, <1>2, EndEvolves DEF MarkTerminal, CanMarkTerminal
<1> QED BY <1>3, OneEvolves DEF MarkTerminal

LEMMA CancelStep ==
    ASSUME IInv, NEW r \in Inserted, RequestCancel(r)
    PROVE  EvolveStep
<1>1. row[r] \in Row /\ RowShape(row[r])
  BY InsertedRow DEF IInv, Shape
<1>2. Evolves(row[r], CancelRow(row[r]))
  BY <1>1, CancelEvolves DEF RequestCancel
<1> QED BY <1>2, OneEvolves DEF RequestCancel

LEMMA RecoverStep ==
    ASSUME IInv, RecoverExpired
    PROVE  EvolveStep
<1>1. PICK chosen \in SUBSET {r \in Requests : Expired(row[r], now)} :
        /\ row' = [r \in Requests |->
                     IF r \in chosen THEN RecoverRow(row[r], now) ELSE row[r]]
        /\ UNCHANGED <<messages, now>>
  BY DEF RecoverExpired
<1>2. ASSUME NEW r \in chosen
      PROVE  Evolves(row[r], RecoverRow(row[r], now))
  <2>1. Expired(row[r], now) /\ r \in Requests
    BY <1>1
  <2>2. r \in Inserted
    BY <2>1, StateFacts DEF Expired, IsActive, Inserted, Exists, States
  <2> QED BY <2>1, <2>2, InsertedRow, RecoverEvolves DEF IInv, Shape
<1> QED BY <1>1, <1>2 DEF EvolveStep, Evolves, IInv, TypeOK

(* An attempt that has ended without an answer and may be followed by another. *)
Spent(x) == IsTerminal(x) /\ x.state # "committed" /\ x.retryable

(* A new attempt is the first of its slot, or follows one that ended and may  *)
(* be retried; either way every other attempt of the slot has ended before.   *)
LEMMA EarlierSpent ==
    ASSUME IInv, NEW r \in Requests, NEW slot \in Slots,
           NEW parent \in Requests \cup {NoRequest}, NEW attempt \in Nat, NEW deadline,
           attempt >= 1,
           parent # NoRequest => parent \in Inserted,
           CreateRequest(r, slot, parent, attempt, deadline),
           NEW q \in Inserted, row[q].slot = slot
    PROVE  row[q].attempt < attempt /\ Spent(row[q])
<1> USE DEF IInv
<1>0. q \in Requests /\ row[q] \in Row
  BY InsertedRow
<1>1. row[q].attempt # attempt
  BY DEF CreateRequest, SlotRows
<1>2. row[q].attempt < attempt
  (* otherwise an attempt numbered like the new one exists already *)
  <2> SUFFICES ASSUME row[q].attempt > attempt PROVE FALSE
    BY <1>0, <1>1 DEF Row
  <2>1. attempt \in 1 .. row[q].attempt
    BY <1>0 DEF Row
  <2>2. PICK p \in Inserted : row[p].slot = slot /\ row[p].attempt = attempt
    BY <2>1 DEF Lineage, NoGap
  <2> QED BY <2>2 DEF CreateRequest, SlotRows
<1>3. CASE parent = NoRequest
  BY <1>0, <1>2, <1>3 DEF CreateRequest, Lineage, NoGap, Row, Spent
<1>4. CASE parent # NoRequest
  <2>1. /\ parent \in Inserted /\ MayRetry(row[parent])
        /\ row[parent].slot = slot /\ attempt = row[parent].attempt + 1
    BY <1>4 DEF CreateRequest
  <2>2. row[parent].state # "committed"
    BY <2>1 DEF MayRetry, Shape, RowShape
  <2>3. row[q].attempt <= row[parent].attempt
    BY <1>0, <1>2, <2>1, InsertedRow DEF Row
  <2>4. CASE row[q].attempt = row[parent].attempt
    <3>1. q = parent
      BY <2>1, <2>4 DEF Lineage, UniqueAttempt
    <3> QED BY <1>1, <1>2, <2>1, <2>2, <3>1 DEF MayRetry, Spent
  <2>5. CASE row[q].attempt < row[parent].attempt
    BY <1>1, <1>2, <2>1, <2>5 DEF Lineage, NewestAttemptOnly, Spent
  <2> QED BY <1>0, InsertedRow, <2>1, <2>3, <2>4, <2>5 DEF Row
<1> QED BY <1>3, <1>4

LEMMA CreatePreserves ==
    ASSUME IInv, NEW r \in Requests, NEW slot \in Slots, NEW term \in DeadlineTerms,
           NEW parent \in Requests \cup {NoRequest}, NEW attempt \in Nat,
           attempt >= 1,
           parent # NoRequest => parent \in Inserted,
           CreateRequest(r, slot, parent, attempt, now + term)
    PROVE  IInv'
<1> USE DEF IInv
<1> DEFINE y == NewRow(slot, attempt, parent, now + term)
<1>1. now + term \in Nat
  BY BoundsAssumption DEF TypeOK
<1>2. y \in Row /\ RowShape(y) /\ y.state = "accepted" /\ y.slot = slot
        /\ y.attempt = attempt /\ y.answer = NoAnswer
  <2>1. "accepted" \in States /\ "accepted" \notin Working /\ "accepted" \notin Terminal
    BY DEF States, Active, Working, RouteReady, Terminal
  <2>2. y \in Row
    BY <1>1, <2>1 DEF NewRow, Row, NoReason, NullTime, NoAnswer
  <2>3. RowShape(y)
    BY <2>1 DEF NewRow, RowShape, IsActive, IsTerminal
  <2> QED BY <2>2, <2>3 DEF NewRow
<1>3. r \notin Inserted /\ row' = [row EXCEPT ![r] = y] /\ messages' = messages /\ now' = now
  BY DEF CreateRequest, Inserted
<1>4. row'[r] = y /\ \A q \in Requests \ {r} : row'[q] = row[q]
  BY <1>3 DEF TypeOK
<1>5. Inserted' = Inserted \cup {r}
  BY <1>2, <1>4, <1>3 DEF Inserted, Exists
<1>6. \A q \in Inserted : q \in Requests /\ q # r /\ row'[q] = row[q] /\ row[q] \in Row
  BY <1>3, <1>4, InsertedRow
<1>7. TypeOK'
  BY <1>2, <1>3 DEF TypeOK
<1>8. Shape'
  BY <1>2, <1>4, <1>5, <1>6 DEF Shape
<1>9. \A q \in Inserted : row[q].slot = slot => row[q].attempt < attempt /\ Spent(row[q])
  BY EarlierSpent
<1>10. UniqueAttempt'
  BY <1>2, <1>4, <1>5, <1>6, <1>9 DEF Lineage, UniqueAttempt, Row
<1>11. NoGap'
  <2>1. ASSUME NEW q \in Inserted
        PROVE  /\ row'[q].attempt >= 1
               /\ \A k \in 1 .. row'[q].attempt :
                    \E p \in Inserted' : row'[p].slot = row'[q].slot /\ row'[p].attempt = k
    BY <1>5, <1>6 DEF Lineage, NoGap
  <2>2. ASSUME NEW k \in 1 .. attempt
        PROVE  \E p \in Inserted' : row'[p].slot = slot /\ row'[p].attempt = k
    <3>1. CASE k = attempt
      BY <1>2, <1>4, <1>5, <3>1
    <3>2. CASE k # attempt
      <4>1. /\ parent \in Inserted /\ row[parent].slot = slot
            /\ attempt = row[parent].attempt + 1
        BY <3>2 DEF CreateRequest
      <4>2. k \in 1 .. row[parent].attempt
        BY <1>6, <3>2, <4>1 DEF Row
      <4>3. PICK p \in Inserted : row[p].slot = slot /\ row[p].attempt = k
        BY <4>1, <4>2 DEF Lineage, NoGap
      <4> QED BY <1>5, <1>6, <4>3
    <3> QED BY <3>1, <3>2
  <2> QED BY <1>2, <1>4, <1>5, <2>1, <2>2 DEF NoGap
<1>12. NewestAttemptOnly'
  <2> SUFFICES ASSUME NEW p \in Inserted', NEW q \in Inserted',
                      row'[p].slot = row'[q].slot, row'[p].attempt < row'[q].attempt
               PROVE  IsTerminal(row'[p]) /\ row'[p].state # "committed" /\ row'[p].retryable
    BY DEF NewestAttemptOnly
  <2>1. CASE p \in Inserted /\ q \in Inserted
    BY <1>6, <2>1 DEF Lineage, NewestAttemptOnly
  <2>2. CASE p \in Inserted /\ q = r
    BY <1>2, <1>4, <1>6, <1>9, <2>2 DEF Spent
  <2>3. CASE p = r
    <3>1. p # q
      BY <1>2, <1>4, <2>3
    <3>2. q \in Inserted
      BY <1>5, <2>3, <3>1
    <3>3. row[q].slot = slot /\ row[q].attempt > attempt /\ row[q].attempt < attempt
      BY <1>2, <1>4, <1>6, <1>9, <2>3, <3>2
    <3> QED BY <1>6, <3>2, <3>3 DEF Row
  <2> QED BY <1>5, <2>1, <2>2, <2>3
<1>13. Answers'
  <2>1. ASSUME NEW i \in DOMAIN messages PROVE MessageOfRow(i)'
    BY <1>3, <1>5, <1>6 DEF Answers, MessageOfRow
  <2>2. ASSUME NEW q \in Inserted' PROVE RowOfMessage(q)'
    BY <1>2, <1>3, <1>4, <1>5, <1>6 DEF Answers, RowOfMessage
  <2> QED BY <1>3, <2>1, <2>2 DEF Answers
<1> QED BY <1>7, <1>8, <1>10, <1>11, <1>12, <1>13 DEF Lineage

(* finalize_response is the one call that lets a row become committed, and it *)
(* appends the message that the row names.                                    *)
LEMMA FinalizePreserves ==
    ASSUME IInv, NEW r \in Inserted, NEW fence \in Fences(r), NEW sequence \in 0 .. MaxSeq,
           Finalize(r, fence, sequence)
    PROVE  IInv'
<1> USE DEF IInv
<1> DEFINE n == Len(messages) + 1
           m == [request |-> r, slot |-> row[r].slot, gen |-> fence.gen]
           y == FinalizeRow(row[r], n)
<1>1. r \in Requests /\ row[r] \in Row /\ RowShape(row[r])
  BY InsertedRow DEF Shape
<1>2. row[r].state = "committing" /\ row[r].gen = fence.gen
  BY DEF Finalize, CanFinalize, ActiveFenced, Fenced
<1>3. "committing" \in Working /\ "committing" \notin Terminal /\ "committing" \in Active
        /\ "committed" \in Terminal /\ "committed" \in States /\ "committed" \notin Active
        /\ "committed" \notin Working
  BY DEF Active, Working, RouteReady, Terminal, States
<1>4. n \in Nat \ {0}
  BY DEF TypeOK
<1>5. y \in Row /\ y.state = "committed" /\ y.answer = n /\ y.slot = row[r].slot
        /\ y.attempt = row[r].attempt /\ y.gen = row[r].gen
  BY <1>1, <1>3, <1>4 DEF FinalizeRow, EndRow, Row, Reasons
<1>6. RowShape(y)
  BY <1>1, <1>2, <1>3, <1>4
     DEF FinalizeRow, EndRow, Row, RowShape, IsActive, IsTerminal, NoReason, NoAnswer
<1>7. m \in [request : Requests, slot : Slots, gen : Nat]
  BY <1>1, <1>2 DEF Row
<1>8. messages' = Append(messages, m) /\ now' = now
  BY DEF Finalize
<1>9. Len(messages') = n /\ DOMAIN messages' = DOMAIN messages \cup {n}
        /\ messages'[n] = m /\ \A i \in DOMAIN messages : messages'[i] = messages[i] /\ i # n
  BY <1>7, <1>8 DEF TypeOK
<1>10. row' = [row EXCEPT ![r] = y]
  BY <1>9 DEF Finalize
<1>11. row'[r] = y /\ \A q \in Requests \ {r} : row'[q] = row[q]
  BY <1>1, <1>10 DEF TypeOK
<1>12. Inserted' = Inserted
  BY <1>1, <1>5, <1>11 DEF Inserted, Exists
<1>13. \A q \in Inserted :
         /\ q \in Requests /\ row[q] \in Row
         /\ row'[q].slot = row[q].slot
         /\ row'[q].attempt = row[q].attempt
         /\ q # r => row'[q] = row[q]
  BY <1>5, <1>11, InsertedRow
<1> HIDE DEF n, m, y
<1>14. TypeOK'
  <2>1. messages' \in Seq([request : Requests, slot : Slots, gen : Nat])
    BY <1>7, <1>8 DEF TypeOK
  <2> QED BY <1>5, <1>8, <1>10, <2>1 DEF TypeOK
<1>19. m.request = r /\ m.slot = row[r].slot /\ m.gen = fence.gen
  BY DEF m
<1>15. Shape'
  BY <1>6, <1>11, <1>12, <1>13 DEF Shape
<1>16. UniqueAttempt' /\ NoGap'
  BY <1>12, <1>13 DEF Lineage, UniqueAttempt, NoGap
<1>17. NewestAttemptOnly'
  <2> SUFFICES ASSUME NEW p \in Inserted, NEW q \in Inserted,
                      row[p].slot = row[q].slot, row[p].attempt < row[q].attempt
               PROVE  IsTerminal(row'[p]) /\ row'[p].state # "committed" /\ row'[p].retryable
    BY <1>12, <1>13 DEF NewestAttemptOnly
  <2>1. IsTerminal(row[p]) /\ row[p].state # "committed" /\ row[p].retryable
    BY DEF Lineage, NewestAttemptOnly
  <2>2. p # r
    BY <1>2, <1>3, <2>1 DEF IsTerminal
  <2> QED BY <1>13, <2>1, <2>2
<1>18. Answers'
  <2>1. ASSUME NEW i \in DOMAIN messages PROVE MessageOfRow(i)'
    <3>1. MessageOfRow(i) /\ i # NoAnswer
      BY DEF Answers, TypeOK, NoAnswer
    <3>2. messages[i].request # r
      BY <1>1, <1>2, <3>1 DEF MessageOfRow, RowShape
    <3> QED BY <1>9, <1>12, <1>13, <3>1, <3>2 DEF MessageOfRow
  <2>2. ASSUME NEW i, i = n PROVE MessageOfRow(i)'
    BY <1>2, <1>5, <1>9, <1>11, <1>12, <1>19, <2>2 DEF MessageOfRow
  <2>3. ASSUME NEW q \in Inserted PROVE RowOfMessage(q)'
    BY <1>4, <1>5, <1>9, <1>11, <1>13, <1>19 DEF Answers, RowOfMessage
  <2> QED BY <1>9, <1>12, <2>1, <2>2, <2>3 DEF Answers
<1> QED BY <1>14, <1>15, <1>16, <1>17, <1>18 DEF Lineage

----------------------------------------------------------------------------
LEMMA InitIInv ==
    ASSUME Init
    PROVE  IInv
<1>1. Inserted = {}
  BY DEF Init, Inserted, Exists, AbsentRow
<1>2. TypeOK
  BY DEF Init, TypeOK
<1>3. DOMAIN messages = {}
  BY DEF Init
<1> QED BY <1>1, <1>2, <1>3
        DEF IInv, Shape, Lineage, UniqueAttempt, NoGap, NewestAttemptOnly, Answers

(* What a step may be: a new attempt, an answer, or an evolution. *)
Creates(r, slot, parent, attempt) ==
    /\ attempt \in Nat /\ attempt >= 1
    /\ parent # NoRequest => parent \in Inserted
    /\ parent \in Requests \cup {NoRequest}
    /\ \E term \in DeadlineTerms : CreateRequest(r, slot, parent, attempt, now + term)

Finalizes(r) == \E fence \in Fences(r), sequence \in 0 .. MaxSeq : Finalize(r, fence, sequence)

LEMMA NextSteps ==
    ASSUME IInv, [Next]_vars
    PROVE  \/ \E r \in Requests, slot \in Slots : \E parent, attempt :
                Creates(r, slot, parent, attempt)
           \/ \E r \in Inserted : Finalizes(r)
           \/ EvolveStep
<1>1. CASE \E r \in Requests, slot \in Slots, term \in DeadlineTerms :
             \/ CreateRequest(r, slot, NoRequest, 1, now + term)
             \/ \E parent \in Inserted :
                  CreateRequest(r, slot, parent, row[parent].attempt + 1, now + term)
  <2>1. PICK r \in Requests, slot \in Slots, term \in DeadlineTerms :
             \/ CreateRequest(r, slot, NoRequest, 1, now + term)
             \/ \E parent \in Inserted :
                  CreateRequest(r, slot, parent, row[parent].attempt + 1, now + term)
    BY <1>1
  <2>2. CASE CreateRequest(r, slot, NoRequest, 1, now + term)
    <3>1. Creates(r, slot, NoRequest, 1)
      BY <2>2 DEF Creates
    <3> QED BY <3>1
  <2>3. ASSUME NEW parent \in Inserted,
               CreateRequest(r, slot, parent, row[parent].attempt + 1, now + term)
        PROVE  Creates(r, slot, parent, row[parent].attempt + 1)
    <3>1. row[parent].attempt + 1 \in Nat /\ row[parent].attempt + 1 >= 1
      BY InsertedRow DEF IInv, Row
    <3>2. parent \in Requests
      BY DEF Inserted
    <3> QED BY <2>3, <3>1, <3>2 DEF Creates
  <2> QED BY <2>1, <2>2, <2>3
<1>2. CASE \E r \in Inserted, term \in LeaseTerms, token \in Tokens :
             \/ AcquireLease(r, token, now + term)
             \/ \E fence \in Fences(r) : RenewLease(r, fence, token, now + term)
  BY <1>2, AcquireStep, RenewStep
<1>3. CASE \E r \in Inserted : RequestCancel(r)
  BY <1>3, CancelStep
<1>4. CASE RecoverExpired
  BY <1>4, RecoverStep
<1>5. ASSUME NEW r \in Inserted, NEW fence \in Fences(r)
      PROVE  /\ \A target \in States : Transition(r, fence, target) => EvolveStep
             /\ \A sequence \in 0 .. MaxSeq :
                  /\ \A cleanup \in BOOLEAN :
                       AcceptEvent(r, fence, sequence, cleanup) => EvolveStep
                  /\ Finalize(r, fence, sequence) => Finalizes(r)
             /\ \A target \in Terminal, retryable \in BOOLEAN :
                  MarkTerminal(r, fence, target, retryable) => EvolveStep
  BY TransitionStep, EventStep, MarkTerminalStep DEF Finalizes
<1>6. CASE Tick \/ UNCHANGED vars
  BY <1>6 DEF Tick, vars, EvolveStep, IInv, TypeOK
<1> QED BY <1>1, <1>2, <1>3, <1>4, <1>5, <1>6 DEF Next

LEMMA NextIInv ==
    ASSUME IInv, [Next]_vars
    PROVE  IInv'
<1>1. ASSUME NEW r \in Requests, NEW slot \in Slots, NEW parent, NEW attempt,
             Creates(r, slot, parent, attempt)
      PROVE  IInv'
  BY <1>1, CreatePreserves DEF Creates
<1>2. ASSUME NEW r \in Inserted, Finalizes(r) PROVE IInv'
  BY <1>2, FinalizePreserves DEF Finalizes
<1> QED BY <1>1, <1>2, NextSteps, EvolvePreserves

(* The inductive invariant holds of every behaviour of the repository. *)
THEOREM Invariance == Spec => []IInv
<1>1. Init => IInv
  BY InitIInv
<1>2. IInv /\ [Next]_vars => IInv'
  BY NextIInv
<1> QED BY <1>1, <1>2, PTL DEF Spec

(* Rows, messages and clock keep their types. *)
THEOREM TypeCorrect == Spec => []TypeOK
<1>1. IInv => TypeOK
  BY DEF IInv
<1> QED BY <1>1, Invariance, PTL

(* No UPDATE of the repository meets the CHECK constraints of its table, and  *)
(* no row being worked on is ever without an owner.                           *)
THEOREM ShapeCorrect == Spec => []Shape
<1>1. IInv => Shape
  BY DEF IInv
<1> QED BY <1>1, Invariance, PTL

(* Of the attempts at a slot only the newest is ever alive or committed.      *)
THEOREM NewestAttemptCorrect == Spec => []NewestAttemptOnly
<1>1. IInv => NewestAttemptOnly
  BY DEF IInv, Lineage
<1> QED BY <1>1, Invariance, PTL

(* A response slot is answered at most once, for any number of attempts,      *)
(* lease holders and stale calls.                                             *)
THEOREM AnsweredOnceCorrect == Spec => []AnsweredOnce
<1>1. ASSUME IInv PROVE AnsweredOnce
  <2> SUFFICES ASSUME NEW i \in DOMAIN messages, NEW j \in DOMAIN messages,
                      messages[i].slot = messages[j].slot
               PROVE  i = j
    BY DEF AnsweredOnce
  <2> DEFINE r == messages[i].request
             q == messages[j].request
  <2>1. MessageOfRow(i) /\ MessageOfRow(j) /\ i # NoAnswer /\ j # NoAnswer
    BY <1>1 DEF IInv, Answers, TypeOK, NoAnswer
  <2>2. /\ r \in Inserted /\ q \in Inserted /\ row[r].slot = row[q].slot
        /\ row[r].answer = i /\ row[q].answer = j
    BY <2>1 DEF MessageOfRow
  <2> HIDE DEF r, q
  <2>3. row[r].state = "committed" /\ row[q].state = "committed"
    BY <1>1, <2>1, <2>2 DEF IInv, Shape, RowShape
  <2>4. ~(row[r].attempt < row[q].attempt) /\ ~(row[q].attempt < row[r].attempt)
    BY <1>1, <2>2, <2>3 DEF IInv, Lineage, NewestAttemptOnly
  <2>5. row[r].attempt = row[q].attempt
    BY <1>1, <2>2, <2>4, InsertedRow DEF IInv, Row
  <2>6. r = q
    BY <1>1, <2>2, <2>5 DEF IInv, Lineage, UniqueAttempt
  <2> QED BY <2>2, <2>6
<1> QED BY <1>1, Invariance, PTL

(* An assistant message and its committed row always appear together. *)
THEOREM AnswerIffCommittedCorrect == Spec => []AnswerIffCommitted
<1>1. ASSUME IInv PROVE AnswerIffCommitted
  <2>1. ASSUME NEW i \in DOMAIN messages
        PROVE  row[messages[i].request].answer = i /\ row[messages[i].request].state = "committed"
    <3>1. MessageOfRow(i) /\ i # NoAnswer
      BY <1>1 DEF IInv, Answers, TypeOK, NoAnswer
    <3> QED BY <1>1, <3>1 DEF IInv, MessageOfRow, Shape, RowShape
  <2> QED BY <1>1, <2>1 DEF IInv, Answers, RowOfMessage, AnswerIffCommitted
<1> QED BY <1>1, Invariance, PTL

(* A worker whose lease was renewed or taken over by another cannot finalize. *)
THEOREM AnswerByNewestLeaseCorrect == Spec => []AnswerByNewestLease
<1>1. IInv => AnswerByNewestLease
  BY DEF IInv, Answers, MessageOfRow, AnswerByNewestLease
<1> QED BY <1>1, Invariance, PTL

----------------------------------------------------------------------------
(* What a call may do to a row it writes: the row was new or active, a        *)
(* cancelled one is not left open to retry, and without a live lease it keeps *)
(* its state or ends without an answer.                                       *)
Moves(x, y) ==
    /\ ~Exists(x) \/ IsActive(x)
    /\ y.cancelled => ~y.retryable
    /\ (x.state \in Working /\ ~Live(x, now))
       => y.state = x.state \/ y.state \in Terminal \ {"committed"}

RowsMove == \A r \in Requests : row'[r] = row[r] \/ Moves(row[r], row'[r])

LEMMA OneMoves ==
    ASSUME IInv, NEW r \in Requests, NEW y,
           Moves(row[r], y),
           row' = [row EXCEPT ![r] = y]
    PROVE  RowsMove
BY DEF RowsMove, IInv, TypeOK

LEMMA CreateMoves ==
    ASSUME IInv, NEW r \in Requests, NEW slot, NEW parent, NEW attempt, NEW deadline,
           CreateRequest(r, slot, parent, attempt, deadline)
    PROVE  RowsMove
<1>1. row[r] = AbsentRow
  BY StateFacts DEF CreateRequest, IInv, TypeOK, Row, Exists
<1>2. "absent" \notin Working
  BY DEF Working, RouteReady
<1>3. Moves(row[r], NewRow(slot, attempt, parent, deadline))
  BY <1>1, <1>2 DEF Moves, NewRow, AbsentRow, Exists
<1> QED BY <1>3, OneMoves DEF CreateRequest

(* The calls that leave the state, or move it on under a live lease. *)
LEMMA WorkMoves ==
    ASSUME IInv, NEW r \in Inserted, NEW y, row' = [row EXCEPT ![r] = y],
           IsActive(row[r]),
           y.cancelled = row[r].cancelled,
           \/ y.state = row[r].state
           \/ row[r].state = "accepted"
           \/ Live(row[r], now)
    PROVE  RowsMove
<1>1. ~row[r].cancelled
  BY DEF IInv, Shape, RowShape
<1>2. Moves(row[r], y)
  BY <1>1, StateFacts DEF Moves
<1> QED BY <1>2, OneMoves DEF Inserted

LEMMA EndMoves ==
    ASSUME IInv, NEW r \in Inserted, IsActive(row[r]),
           NEW target \in Terminal \ {"committed"}, NEW retryable \in BOOLEAN
    PROVE  Moves(row[r], EndRow(row[r], target, retryable))
BY InsertedRow DEF IInv, Shape, RowShape, Moves, EndRow, Row

LEMMA CancelMoves ==
    ASSUME IInv, NEW r \in Inserted, RequestCancel(r)
    PROVE  RowsMove
<1> DEFINE y == EndRow(row[r], "cancelled", FALSE)
<1>1. row[r] \in Row /\ IsActive(row[r]) /\ "cancelled" \in Terminal \ {"committed"}
  BY InsertedRow DEF IInv, RequestCancel, CanCancel, Terminal
<1>2. y.state = "cancelled" /\ y.retryable = FALSE /\ y \in Row
  <2>1. y \in Row
    BY <1>1, EndEvolves DEF Evolves, IInv, Shape
  <2> QED BY <1>1, <2>1 DEF EndRow, Row
<1> HIDE DEF y
<1>3. CancelRow(row[r]) = [y EXCEPT !.cancelled = TRUE]
  BY DEF CancelRow, y
<1>4. Moves(row[r], CancelRow(row[r]))
  BY <1>1, <1>2, <1>3 DEF Moves, Row
<1> QED BY <1>4, OneMoves DEF RequestCancel, Inserted

LEMMA RecoverMoves ==
    ASSUME IInv, RecoverExpired
    PROVE  RowsMove
<1>1. PICK chosen \in SUBSET {r \in Requests : Expired(row[r], now)} :
        row' = [r \in Requests |->
                  IF r \in chosen THEN RecoverRow(row[r], now) ELSE row[r]]
  BY DEF RecoverExpired
<1>2. ASSUME NEW r \in chosen
      PROVE  Moves(row[r], RecoverRow(row[r], now))
  <2>1. IsActive(row[r]) /\ r \in Requests
    BY <1>1 DEF Expired
  <2>2. r \in Inserted
    BY <2>1, StateFacts DEF IsActive, Inserted, Exists, States
  <2>3. {"cancelled", "timed_out", "orphaned"} \subseteq Terminal \ {"committed"}
    BY DEF Terminal
  <2> QED BY <2>1, <2>2, <2>3, EndMoves DEF RecoverRow
<1> QED BY <1>1, <1>2 DEF RowsMove

(* The calls of one who holds a fence. *)
LEMMA FencedMoves ==
    ASSUME IInv, NEW r \in Inserted, NEW fence \in Fences(r)
    PROVE  /\ \A target \in States : Transition(r, fence, target) => RowsMove
           /\ \A sequence \in 0 .. MaxSeq :
                /\ \A cleanup \in BOOLEAN : AcceptEvent(r, fence, sequence, cleanup) => RowsMove
                /\ Finalize(r, fence, sequence) => RowsMove
           /\ \A target \in Terminal, retryable \in BOOLEAN :
                MarkTerminal(r, fence, target, retryable) => RowsMove
<1>1. row[r] \in Row /\ r \in Requests
  BY InsertedRow DEF IInv
<1>2. row[r].state \notin Terminal => IsActive(row[r])
  BY <1>1 DEF Row, States, IsActive
<1>3. ASSUME NEW target \in States, Transition(r, fence, target)
      PROVE  RowsMove
  <2>1. row[r].state \notin Terminal /\ Live(row[r], now)
    BY <1>3 DEF Transition, CanTransition, ValidTransition, ActiveFenced, Fenced
  <2>2. TransitionRow(row[r], target).cancelled = row[r].cancelled
    BY <1>1 DEF TransitionRow, Row
  <2> QED BY <1>2, <1>3, <2>1, <2>2, WorkMoves DEF Transition
<1>4. ASSUME NEW sequence \in 0 .. MaxSeq, NEW cleanup \in BOOLEAN,
             AcceptEvent(r, fence, sequence, cleanup)
      PROVE  RowsMove
  <2>1. row[r].state \notin Terminal
    BY <1>4 DEF AcceptEvent, CanAcceptEvent, IsTerminal
  <2>2. /\ AcceptEventRow(row[r], sequence).cancelled = row[r].cancelled
        /\ AcceptEventRow(row[r], sequence).state = row[r].state
    BY <1>1 DEF AcceptEventRow, Row
  <2> QED BY <1>2, <1>4, <2>1, <2>2, WorkMoves DEF AcceptEvent
<1>5. ASSUME NEW sequence \in 0 .. MaxSeq, Finalize(r, fence, sequence)
      PROVE  RowsMove
  <2> DEFINE y == FinalizeRow(row[r], Len(messages'))
  <2>1. row[r].state = "committing" /\ "committing" \in Active /\ Live(row[r], now)
    BY <1>5 DEF Finalize, CanFinalize, ActiveFenced, Fenced, Active, Working
  <2>2. y.cancelled = row[r].cancelled
    BY <1>1 DEF FinalizeRow, EndRow, Row
  <2>3. row' = [row EXCEPT ![r] = y]
    BY <1>5 DEF Finalize
  <2> HIDE DEF y
  <2> QED BY <2>1, <2>2, <2>3, WorkMoves DEF IsActive
<1>6. ASSUME NEW target \in Terminal, NEW retryable \in BOOLEAN,
             MarkTerminal(r, fence, target, retryable)
      PROVE  RowsMove
  <2>1. row[r].state \notin Terminal /\ target \in Terminal \ {"committed"}
    BY <1>6 DEF MarkTerminal, CanMarkTerminal, ValidTransition, Fenced
  <2>2. Moves(row[r], EndRow(row[r], target, retryable))
    BY <1>2, <2>1, EndMoves
  <2> QED BY <1>1, <1>6, <2>2, OneMoves DEF MarkTerminal
<1> QED BY <1>3, <1>4, <1>5, <1>6

(* The calls that take or keep a lease. *)
LEMMA LeaseMoves ==
    ASSUME IInv, NEW r \in Inserted, NEW token \in Tokens, NEW term \in LeaseTerms
    PROVE  /\ AcquireLease(r, token, now + term) => RowsMove
           /\ \A fence \in Fences(r) : RenewLease(r, fence, token, now + term) => RowsMove
<1>1. row[r] \in Row /\ RowShape(row[r])
  BY InsertedRow DEF IInv, Shape
<1>2. ASSUME AcquireLease(r, token, now + term) PROVE RowsMove
  <2>1. row[r].state = "accepted" /\ IsActive(row[r])
    BY <1>2, StateFacts DEF AcquireLease, CanAcquire, IsActive
  <2>2. AcquireRow(row[r], token, now + term).cancelled = row[r].cancelled
    BY <1>1 DEF AcquireRow, Row
  <2> QED BY <1>2, <2>1, <2>2, WorkMoves DEF AcquireLease
<1>3. ASSUME NEW fence \in Fences(r), RenewLease(r, fence, token, now + term)
      PROVE  RowsMove
  <2>1. IsActive(row[r])
    BY <1>1, <1>3, NullAssumption, StateFacts DEF RenewLease, CanRenew, RowShape, IsActive
  <2>2. /\ RenewRow(row[r], now + term).cancelled = row[r].cancelled
        /\ RenewRow(row[r], now + term).state = row[r].state
    BY <1>1 DEF RenewRow, Row
  <2> QED BY <1>3, <2>1, <2>2, WorkMoves DEF RenewLease
<1> QED BY <1>2, <1>3

LEMMA NextMoves ==
    ASSUME IInv, [Next]_vars
    PROVE  RowsMove
<1>1. CASE Next
  BY <1>1, CreateMoves, LeaseMoves, CancelMoves, RecoverMoves, FencedMoves
     DEF Next, Tick, RowsMove
<1>2. CASE UNCHANGED vars
  BY <1>2 DEF vars, RowsMove
<1> QED BY <1>1, <1>2

(* A request that has ended is never written again, whoever calls late. *)
THEOREM TerminalImmutableCorrect == Spec => TerminalImmutable
<1>1. IInv /\ [Next]_vars => [\A r \in Requests : IsTerminal(row[r]) => row'[r] = row[r]]_vars
  <2>1. \A r \in Requests : IsTerminal(row[r]) => Exists(row[r]) /\ ~IsActive(row[r])
    BY StateFacts DEF IsTerminal, IsActive, Exists, States
  <2> QED BY <2>1, NextMoves DEF RowsMove, Moves
<1> QED BY <1>1, Invariance, PTL DEF Spec, TerminalImmutable

(* A worker without a live lease moves no request forward. *)
THEOREM OnlyLiveProgressCorrect == Spec => OnlyLiveProgress
<1>1. IInv /\ [Next]_vars =>
        [\A r \in Requests :
           (row[r].state \in Working /\ ~Live(row[r], now)
              /\ row'[r].state # row[r].state)
           => row'[r].state \in Terminal \ {"committed"}]_vars
  BY NextMoves DEF RowsMove, Moves
<1> QED BY <1>1, Invariance, PTL DEF Spec, OnlyLiveProgress

(* A cancelled request is closed to retries. *)
CancelledClosed == \A r \in Inserted : row[r].cancelled => ~row[r].retryable

(* An explicit cancellation ends its slot: no attempt comes after it. *)
THEOREM CancelIsFinalCorrect == Spec => []CancelIsFinal
<1>1. Init => CancelledClosed
  BY DEF Init, CancelledClosed, Inserted, Exists, AbsentRow
<1>2. IInv /\ CancelledClosed /\ [Next]_vars => CancelledClosed'
  BY NextMoves DEF RowsMove, Moves, CancelledClosed, Inserted
<1>3. IInv /\ CancelledClosed => CancelIsFinal
  <2> SUFFICES ASSUME IInv, CancelledClosed, NEW r \in Inserted, row[r].cancelled,
                      NEW q \in Inserted, row[q].slot = row[r].slot
               PROVE  row[q].attempt <= row[r].attempt
    BY DEF CancelIsFinal, SlotRows
  <2>1. ~(row[r].attempt < row[q].attempt)
    BY DEF CancelledClosed, IInv, Lineage, NewestAttemptOnly
  <2> QED BY <2>1, InsertedRow DEF IInv, Row
<1> QED BY <1>1, <1>2, <1>3, Invariance, PTL DEF Spec
=============================================================================
