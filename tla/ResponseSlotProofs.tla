--------------------------- MODULE ResponseSlotProofs ---------------------------
(* ResponseLifecycle implements ResponseSlot.  By the numbering of attempts  *)
(* all rows of a slot but one are spent (ended without an answer, open to    *)
(* another attempt), and that one says what has become of the slot.          *)
EXTENDS ResponseLifecycleProofs

RowStatus(x) ==
    CASE x.state = "committed" -> "answered"
      [] IsActive(x) -> "answering"
      [] OTHER -> IF x.retryable THEN "retryable" ELSE "closed"

(* Next to a row that is not spent, the rows of its slot are. *)
LEMMA OthersSpent ==
    ASSUME IInv, NEW r \in Inserted, ~Spent(row[r]),
           NEW q \in Inserted, row[q].slot = row[r].slot, q # r
    PROVE  Spent(row[q])
<1>1. row[r].attempt \in Nat /\ row[q].attempt \in Nat
  BY InsertedRow DEF IInv, Row
<1>2. row[r].attempt # row[q].attempt
  BY DEF IInv, Lineage, UniqueAttempt
<1>3. ~(row[r].attempt < row[q].attempt)
  BY DEF IInv, Lineage, NewestAttemptOnly, Spent
<1> QED
  BY <1>1, <1>2, <1>3 DEF IInv, Lineage, NewestAttemptOnly, Spent

LEMMA SpentFacts ==
    ASSUME NEW x, Spent(x)
    PROVE  ~IsActive(x) /\ x.state # "committed" /\ x.retryable /\ RowStatus(x) = "retryable"
BY StateFacts DEF Spent, IsTerminal, IsActive, RowStatus

LEMMA UnusedStatus ==
    ASSUME NEW s \in Slots, SlotRows(s) = {}
    PROVE  SlotStatus(s) = "unused"
<1>1. {row[r] : r \in SlotRows(s)} = {}
  OBVIOUS
<1> QED
  BY <1>1 DEF SlotStatus

(* The row whose fellows are all spent is the one that tells. *)
LEMMA OneTells ==
    ASSUME NEW s \in Slots, NEW r \in SlotRows(s),
           \A q \in SlotRows(s) \ {r} : Spent(row[q])
    PROVE  SlotStatus(s) = RowStatus(row[r])
<1> DEFINE rows == {row[q] : q \in SlotRows(s)}
<1>1. row[r] \in rows /\ rows # {}
  OBVIOUS
<1>2. \A x \in rows : x = row[r] \/ Spent(x)
  OBVIOUS
<1>3. \A x \in rows : x = row[r] \/ (~IsActive(x) /\ x.state # "committed" /\ x.retryable)
  BY <1>2, SpentFacts
<1> HIDE DEF rows
<1>4. CASE row[r].state = "committed"
  <2>1. ~IsActive(row[r])
    BY <1>4, StateFacts DEF IsActive
  <2>2. (\E x \in rows : x.state = "committed") /\ ~(\E x \in rows : IsActive(x))
    BY <1>1, <1>3, <1>4, <2>1
  <2>3. SlotStatus(s) = "answered"
    BY <1>1, <2>2 DEF SlotStatus, rows
  <2>4. RowStatus(row[r]) = "answered"
    BY <1>4, <2>1 DEF RowStatus
  <2> QED
    BY <2>3, <2>4
<1>5. CASE row[r].state # "committed" /\ IsActive(row[r])
  <2>1. (\E x \in rows : IsActive(x)) /\ ~(\E x \in rows : x.state = "committed")
    BY <1>1, <1>3, <1>5
  <2> QED
    BY <1>1, <1>5, <2>1 DEF SlotStatus, RowStatus, rows
<1>6. CASE row[r].state # "committed" /\ ~IsActive(row[r])
  <2>1. ~(\E x \in rows : IsActive(x)) /\ ~(\E x \in rows : x.state = "committed")
    BY <1>1, <1>3, <1>6
  <2>2. (\A x \in rows : x.retryable) <=> row[r].retryable
    BY <1>1, <1>3
  <2> QED
    BY <1>1, <1>6, <2>1, <2>2 DEF SlotStatus, RowStatus, rows
<1> QED
  BY <1>4, <1>5, <1>6

LEMMA SpentStatus ==
    ASSUME NEW s \in Slots, SlotRows(s) # {}, \A q \in SlotRows(s) : Spent(row[q])
    PROVE  SlotStatus(s) = "retryable"
<1>1. PICK r \in SlotRows(s) : TRUE
  OBVIOUS
<1>2. SlotStatus(s) = RowStatus(row[r])
  BY OneTells
<1> QED
  BY <1>1, <1>2, SpentFacts

LEMMA UnspentStatus ==
    ASSUME IInv, NEW s \in Slots, NEW r \in SlotRows(s), ~Spent(row[r])
    PROVE  SlotStatus(s) = RowStatus(row[r])
<1>1. \A q \in SlotRows(s) \ {r} : Spent(row[q])
  BY OthersSpent DEF SlotRows
<1> QED
  BY <1>1, OneTells

UnspentTells ==
    \A s \in Slots : \A r \in SlotRows(s) : ~Spent(row[r]) => SlotStatus(s) = RowStatus(row[r])

LEMMA NextUnspentTells == IInv' => UnspentTells'
<1>1. IInv => UnspentTells
  BY UnspentStatus DEF UnspentTells
<1> QED
  BY <1>1, PTL

OneRowTells ==
    \A s \in Slots : \A r \in SlotRows(s) :
        (\A q \in SlotRows(s) \ {r} : Spent(row[q])) => SlotStatus(s) = RowStatus(row[r])

LEMMA NextOneTells == OneRowTells'
<1>1. OneRowTells
  BY OneTells DEF OneRowTells
<1> QED
  BY <1>1, PTL

----------------------------------------------------------------------------
status == [s \in Slots |-> SlotStatus(s)]

(* What a slot is depends on its rows alone. *)
LEMMA SameRows ==
    ASSUME NEW s \in Slots, SlotRows(s)' = SlotRows(s),
           \A q \in SlotRows(s) : row'[q] = row[q]
    PROVE  SlotStatus(s)' = SlotStatus(s)
<1>1. {row'[q] : q \in SlotRows(s)'} = {row[q] : q \in SlotRows(s)}
  OBVIOUS
<1> QED
  BY <1>1 DEF SlotStatus

LEMMA CreateBegins ==
    ASSUME IInv, IInv', NEW r \in Requests, NEW slot \in Slots, NEW parent, NEW attempt,
           Creates(r, slot, parent, attempt)
    PROVE  Slot!Begin(slot)
<1>1. PICK deadline : CreateRequest(r, slot, parent, attempt, deadline)
  BY DEF Creates
<1>2. /\ r \notin Inserted /\ Inserted' = Inserted \cup {r}
      /\ row'[r].slot = slot /\ row'[r].state = "accepted"
      /\ \A q \in Inserted : row'[q] = row[q]
  <2>1. r \notin Inserted /\ row' = [row EXCEPT ![r] = NewRow(slot, attempt, parent, deadline)]
    BY <1>1 DEF CreateRequest, Inserted
  <2>2. row'[r] = NewRow(slot, attempt, parent, deadline) /\ \A q \in Requests \ {r} : row'[q] = row[q]
    BY <2>1 DEF IInv, TypeOK
  <2>3. row'[r].slot = slot /\ row'[r].state = "accepted"
    BY <2>2 DEF NewRow
  <2>4. Inserted' = Inserted \cup {r}
    BY <2>2, <2>3 DEF Inserted, Exists
  <2> QED
    BY <2>1, <2>2, <2>3, <2>4 DEF Inserted
<1>3. \A q \in SlotRows(slot) : Spent(row[q])
  BY <1>1, EarlierSpent DEF Creates, SlotRows
<1>4. SlotStatus(slot) \in {"unused", "retryable"}
  BY <1>3, UnusedStatus, SpentStatus
<1>5. SlotStatus(slot)' = "answering"
  <2>1. r \in SlotRows(slot)'
    BY <1>2 DEF SlotRows
  <2>2. IsActive(row'[r]) /\ row'[r].state # "committed"
    BY <1>2, StateFacts DEF IsActive
  <2>3. ~Spent(row'[r])
    BY <2>2, StateFacts DEF Spent, IsTerminal, IsActive
  <2>4. SlotStatus(slot)' = RowStatus(row'[r])
    BY <2>1, <2>3, NextUnspentTells DEF UnspentTells
  <2> QED
    BY <2>2, <2>4 DEF RowStatus
<1>6. \A s \in Slots \ {slot} : SlotStatus(s)' = SlotStatus(s)
  <2> TAKE s \in Slots \ {slot}
  <2>1. SlotRows(s)' = SlotRows(s)
    BY <1>2 DEF SlotRows
  <2>2. \A q \in SlotRows(s) : row'[q] = row[q]
    BY <1>2 DEF SlotRows
  <2> QED
    BY <2>1, <2>2, SameRows
<1> QED
  BY <1>4, <1>5, <1>6 DEF Slot!Begin

LEMMA FinalizeAnswers ==
    ASSUME IInv, IInv', NEW r \in Inserted, Finalizes(r), NEW slot \in Slots, slot = row[r].slot
    PROVE  Slot!Answer(slot)
<1>1. PICK fence \in Fences(r), sequence \in 0 .. MaxSeq : Finalize(r, fence, sequence)
  BY DEF Finalizes
<1>2. r \in Requests /\ row[r] \in Row
  BY InsertedRow DEF IInv
<1>3. row[r].state = "committing" /\ "committing" \in Active
  BY <1>1 DEF Finalize, CanFinalize, ActiveFenced, Fenced, Active, Working
<1>4. /\ row'[r].state = "committed" /\ row'[r].slot = slot
      /\ \A q \in Requests \ {r} : row'[q] = row[q]
  <2>1. PICK answer : row' = [row EXCEPT ![r] = FinalizeRow(@, answer)]
    BY <1>1 DEF Finalize
  <2>2. row'[r] = FinalizeRow(row[r], answer) /\ \A q \in Requests \ {r} : row'[q] = row[q]
    BY <1>2, <2>1 DEF IInv, TypeOK
  <2> QED
    BY <1>2, <2>2 DEF FinalizeRow, EndRow, Row
<1>5. Inserted' = Inserted
  BY <1>2, <1>3, <1>4 DEF Inserted, Exists
<1>6. r \in SlotRows(slot) /\ r \in SlotRows(slot)'
  BY <1>4, <1>5 DEF SlotRows
<1>7. SlotStatus(slot) = "answering"
  <2>1. IsActive(row[r]) /\ row[r].state # "committed"
    BY <1>3 DEF IsActive
  <2>2. ~Spent(row[r])
    BY <2>1, SpentFacts
  <2> QED
    BY <1>2, <1>6, <2>1, <2>2, UnspentStatus DEF RowStatus
<1>8. SlotStatus(slot)' = "answered"
  <2>1. ~Spent(row'[r]) /\ ~IsActive(row'[r])
    BY <1>4, StateFacts DEF Spent, IsActive
  <2>2. SlotStatus(slot)' = RowStatus(row'[r])
    BY <1>2, <1>6, <2>1, NextUnspentTells DEF UnspentTells
  <2> QED
    BY <1>4, <2>1, <2>2 DEF RowStatus
<1>9. \A s \in Slots \ {slot} : SlotStatus(s)' = SlotStatus(s)
  <2> TAKE s \in Slots \ {slot}
  <2>1. SlotRows(s)' = SlotRows(s) /\ \A q \in SlotRows(s) : row'[q] = row[q]
    BY <1>4, <1>5 DEF SlotRows, Inserted
  <2> QED
    BY <2>1, SameRows
<1> QED
  BY <1>2, <1>7, <1>8, <1>9 DEF Slot!Answer

(* In an evolution a slot stays as it is, or its attempt stops. *)
LEMMA EvolveStops ==
    ASSUME IInv, IInv', EvolveStep, NEW s \in Slots, SlotStatus(s)' # SlotStatus(s)
    PROVE  SlotStatus(s) = "answering" /\ SlotStatus(s)' \in {"retryable", "closed"}
<1>1. \A q \in Inserted : q \in Requests /\ (row'[q] = row[q] \/ Evolves(row[q], row'[q]))
  BY DEF EvolveStep, Inserted
<1>2. Inserted' = Inserted
  <2>1. \A q \in Requests : Exists(row[q]) <=> Exists(row'[q])
    BY StateFacts DEF EvolveStep, Evolves, Exists, IsActive, Row, States
  <2> QED
    BY <2>1 DEF Inserted
<1>3. SlotRows(s)' = SlotRows(s)
  BY <1>1, <1>2 DEF SlotRows, Evolves
<1>4. PICK r \in SlotRows(s) : row'[r] # row[r]
  BY <1>3, SameRows
<1>5. Evolves(row[r], row'[r])
  BY <1>1, <1>4 DEF SlotRows
<1>6. IsActive(row[r]) /\ ~Spent(row[r])
  BY <1>5, SpentFacts DEF Evolves
<1>7. SlotStatus(s) = "answering"
  <2>1. row[r].state # "committed"
    BY <1>6, StateFacts DEF IsActive
  <2> QED
    BY <1>6, <2>1, UnspentStatus DEF RowStatus
<1>8. \A q \in SlotRows(s) \ {r} : row'[q] = row[q] /\ Spent(row'[q])
  <2> TAKE q \in SlotRows(s) \ {r}
  <2>1. Spent(row[q])
    BY <1>6, OthersSpent DEF SlotRows
  <2>2. row'[q] = row[q]
    BY <1>1, <2>1, SpentFacts DEF Evolves, SlotRows
  <2> QED
    BY <2>1, <2>2
<1>9. SlotStatus(s)' = RowStatus(row'[r])
  BY <1>3, <1>4, <1>8, NextOneTells DEF OneRowTells
<1>10. row'[r].state # "committed"
  BY <1>5 DEF Evolves
<1> QED
  BY <1>7, <1>9, <1>10 DEF RowStatus

THEOREM SlotImplemented == Spec => ImplementsSlot
<1>1. Init => Slot!SlotInit
  <2> SUFFICES ASSUME Init, NEW s \in Slots PROVE SlotStatus(s) = "unused"
    BY DEF Slot!SlotInit
  <2>1. SlotRows(s) = {}
    BY DEF Init, SlotRows, Inserted, Exists, AbsentRow
  <2> QED
    BY <2>1, UnusedStatus
<1>2. IInv /\ IInv' /\ [Next]_vars => [Slot!SlotNext]_status
  <2> SUFFICES ASSUME IInv, IInv', [Next]_vars PROVE Slot!SlotNext \/ status' = status
    OBVIOUS
  <2>1. ASSUME NEW r \in Requests, NEW slot \in Slots, NEW parent, NEW attempt,
               Creates(r, slot, parent, attempt)
        PROVE  Slot!SlotNext
    BY <2>1, CreateBegins DEF Slot!SlotNext
  <2>2. ASSUME NEW r \in Inserted, Finalizes(r) PROVE Slot!SlotNext
    <3>1. PICK slot \in Slots : slot = row[r].slot
      BY InsertedRow DEF IInv, Row
    <3> QED
      BY <2>2, <3>1, FinalizeAnswers DEF Slot!SlotNext
  <2>3. CASE EvolveStep
    <3> DEFINE stopped == {s \in Slots : SlotStatus(s)' # SlotStatus(s)}
               next == [s \in stopped |-> SlotStatus(s)']
    <3>1. \A s \in stopped : SlotStatus(s) = "answering" /\ next[s] \in {"retryable", "closed"}
      BY <2>3, EvolveStops
    <3>2. next \in [stopped -> Slot!Statuses]
      BY <3>1 DEF Slot!Statuses
    <3>3. status' = [s \in Slots |-> IF s \in stopped THEN next[s] ELSE status[s]]
      BY DEF status
    <3>4. Slot!Stop(stopped, next)
      BY <3>1, <3>3 DEF Slot!Stop, status
    <3> QED
      BY <3>2, <3>4 DEF Slot!SlotNext
  <2> QED
    BY <2>1, <2>2, <2>3, NextSteps
<1> QED
  BY <1>1, <1>2, Invariance, PTL DEF Spec, ImplementsSlot, Slot!SlotSpec, status
=============================================================================
