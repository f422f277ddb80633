------------------------- MODULE ResponseLifecycle -------------------------
(* SqlAlchemyResponseLifecycleRepository under any callers: every call of   *)
(* its public API, in any order, by anyone, with any fence and any clock    *)
(* reading not earlier than the last one.  A call runs in one serializable  *)
(* transaction, so it is one step; a call that raises changes nothing and   *)
(* is no step.  A stale caller is one whose fence is not FenceOf(row).      *)
(*                                                                          *)
(* A create_request whose idempotency key the thread has used returns the   *)
(* existing row and is no step either: ChatGeneration, where clients choose *)
(* the keys, models them.                                                   *)
EXTENDS ResponseRow, Sequences, FiniteSets

CONSTANTS
    MaxNow,         \* bound on the clock
    MaxGen,         \* bound on lease_generation
    MaxSeq,         \* bound on last_emitted_sequence
    DeadlineTerms,  \* possible distances of deadline_at from now
    LeaseTerms,     \* possible distances of lease_expires_at from now
    RecoveryLimit,  \* limit of recover_expired_requests
    StaleStates     \* the states a stale fence may expect

ASSUME BoundsAssumption ==
    /\ MaxNow \in Nat /\ MaxGen \in Nat /\ MaxSeq \in Nat
    /\ DeadlineTerms \subseteq Nat
    /\ LeaseTerms \subseteq Nat
    /\ RecoveryLimit \in Nat \ {0}
    /\ StaleStates \subseteq Active

VARIABLES
    row,       \* [Requests -> Row], the table chat_response_requests
    messages,  \* the assistant rows of message_messages, in id order
    now        \* the clock of the callers

vars == <<row, messages, now>>

(* The fences callers may present for r: of a record read just now, or of one *)
(* read when the lease generation was lower or the state another.             *)
Fences(r) == [gen : 0 .. row[r].gen, state : StaleStates \cup {row[r].state}]

Inserted == {r \in Requests : Exists(row[r])}

SlotRows(slot) == {r \in Inserted : row[r].slot = slot}

Init ==
    /\ row = [r \in Requests |-> AbsentRow]
    /\ messages = <<>>
    /\ now = 0

----------------------------------------------------------------------------
(* create_request with a fresh idempotency key.  The UNIQUE constraint on    *)
(* (response_slot_id, attempt_number) refuses a second row of one attempt.   *)
CreateRequest(r, slot, parent, attempt, deadline) ==
    /\ ~Exists(row[r])
    /\ IF parent = NoRequest
       THEN attempt = 1
       ELSE /\ MayRetry(row[parent])
            /\ slot = row[parent].slot
            /\ attempt = row[parent].attempt + 1
    /\ \A q \in SlotRows(slot) : row[q].attempt # attempt
    /\ row' = [row EXCEPT ![r] = NewRow(slot, attempt, parent, deadline)]
    /\ UNCHANGED <<messages, now>>

AcquireLease(r, token, expiry) ==
    /\ CanAcquire(row[r], now, expiry)
    /\ row' = [row EXCEPT ![r] = AcquireRow(@, token, expiry)]
    /\ UNCHANGED <<messages, now>>

RenewLease(r, fence, token, expiry) ==
    /\ row[r].gen < MaxGen
    /\ CanRenew(row[r], fence, token, now, expiry)
    /\ row' = [row EXCEPT ![r] = RenewRow(@, expiry)]
    /\ UNCHANGED <<messages, now>>

RequestCancel(r) ==
    /\ CanCancel(row[r])
    /\ row' = [row EXCEPT ![r] = CancelRow(@)]
    /\ UNCHANGED <<messages, now>>

(* recover_expired_requests takes the oldest RecoveryLimit candidates; which *)
(* ones are older (updated_at) is abstracted to any choice.                  *)
RecoverExpired ==
    LET candidates == {r \in Requests : Expired(row[r], now)}
    IN  \E chosen \in SUBSET candidates :
          /\ chosen # {}
          /\ chosen = candidates \/ Cardinality(chosen) = RecoveryLimit
          /\ Cardinality(chosen) <= RecoveryLimit
          /\ row' = [r \in Requests |->
                       IF r \in chosen THEN RecoverRow(row[r], now) ELSE row[r]]
          /\ UNCHANGED <<messages, now>>

Transition(r, fence, target) ==
    /\ CanTransition(row[r], fence, target, now)
    /\ row' = [row EXCEPT ![r] = TransitionRow(@, target)]
    /\ UNCHANGED <<messages, now>>

AcceptEvent(r, fence, sequence, cleanup) ==
    /\ CanAcceptEvent(row[r], fence, sequence, cleanup, now)
    /\ row' = [row EXCEPT ![r] = AcceptEventRow(@, sequence)]
    /\ UNCHANGED <<messages, now>>

MarkTerminal(r, fence, target, retryable) ==
    /\ CanMarkTerminal(row[r], fence, target)
    /\ row' = [row EXCEPT ![r] = EndRow(@, target, retryable)]
    /\ UNCHANGED <<messages, now>>

(* finalize_response inserts the assistant message and updates the request in *)
(* one savepoint.  gen, kept for the invariants, is the caller's fence.       *)
Finalize(r, fence, sequence) ==
    /\ CanFinalize(row[r], fence, sequence, now)
    /\ messages' = Append(messages, [request |-> r, slot |-> row[r].slot,
                                     gen |-> fence.gen])
    /\ row' = [row EXCEPT ![r] = FinalizeRow(@, Len(messages'))]
    /\ UNCHANGED now

Tick ==
    /\ now < MaxNow
    /\ now' = now + 1
    /\ UNCHANGED <<row, messages>>

Next ==
    \/ \E r \in Requests, slot \in Slots, term \in DeadlineTerms :
         \/ CreateRequest(r, slot, NoRequest, 1, now + term)
         \/ \E parent \in Inserted :
              CreateRequest(r, slot, parent, row[parent].attempt + 1, now + term)
    \/ \E r \in Inserted, term \in LeaseTerms, token \in Tokens :
         \/ AcquireLease(r, token, now + term)
         \/ \E fence \in Fences(r) : RenewLease(r, fence, token, now + term)
    \/ \E r \in Inserted : RequestCancel(r)
    \/ RecoverExpired
    \/ \E r \in Inserted : \E fence \in Fences(r) :
         \/ \E target \in States : Transition(r, fence, target)
         \/ \E sequence \in 0 .. MaxSeq :
              \/ \E cleanup \in BOOLEAN : AcceptEvent(r, fence, sequence, cleanup)
              \/ Finalize(r, fence, sequence)
         \/ \E target \in Terminal, retryable \in BOOLEAN :
              MarkTerminal(r, fence, target, retryable)
    \/ Tick

Spec == Init /\ [][Next]_vars

----------------------------------------------------------------------------
TypeOK ==
    /\ row \in [Requests -> Row \cup {AbsentRow}]
    /\ messages \in Seq([request : Requests, slot : Slots, gen : Nat])
    /\ now \in Nat

(* The CHECK constraints terminal_shape and lease_pair, which no UPDATE of the *)
(* repository may run into, and more: only a row nobody took has no lease.     *)
RowShape(x) ==
    /\ IsActive(x) => x.reason = NoReason /\ ~x.cancelled
    /\ IsTerminal(x) => x.reason # NoReason
    /\ x.state \in Working <=> x.token # NoToken
    /\ x.token = NoToken <=> x.expiry = NullTime
    /\ x.state = "committed" <=> x.answer # NoAnswer

(* No call leaves a row the database would refuse: an ending clears the lease  *)
(* and names its reason, and a row being worked on always has an owner, so     *)
(* that recover_expired_requests can find it.                                  *)
Shape == \A r \in Inserted : RowShape(row[r])

(* A response slot gets at most one assistant message, whatever cancellations, *)
(* recoveries, retries and late finalizations happen to its attempts.          *)
AnsweredOnce ==
    \A i, j \in DOMAIN messages : messages[i].slot = messages[j].slot => i = j

(* The assistant message and the committed row appear together: no message of  *)
(* an attempt that was cancelled or recovered, no committed row without one.   *)
AnswerIffCommitted ==
    /\ \A i \in DOMAIN messages : LET x == row[messages[i].request]
                                  IN  x.answer = i /\ x.state = "committed"
    /\ \A r \in Inserted : row[r].state = "committed" =>
          row[r].answer \in DOMAIN messages /\ messages[row[r].answer].request = r

(* "A stale worker cannot finalize after another worker renews or takes over": *)
(* the fence that wrote an answer carries the last lease generation granted.   *)
AnswerByNewestLease ==
    \A i \in DOMAIN messages : messages[i].gen = row[messages[i].request].gen

(* Only the newest attempt of a slot may still be worked on or hold the answer. *)
NewestAttemptOnly ==
    \A r, q \in Inserted :
        (row[r].slot = row[q].slot /\ row[r].attempt < row[q].attempt)
        => IsTerminal(row[r]) /\ row[r].state # "committed" /\ row[r].retryable

(* An explicit cancellation (request_cancel) ends its slot: no later attempt. *)
CancelIsFinal ==
    \A r \in Inserted : row[r].cancelled =>
        \A q \in SlotRows(row[r].slot) : row[q].attempt <= row[r].attempt

(* A row that has ended is never written again, by any late call. *)
TerminalImmutable ==
    [][\A r \in Requests : IsTerminal(row[r]) => row'[r] = row[r]]_vars

(* A worker that lost its lease or its deadline moves nothing forward: the only *)
(* thing left to it is an ending that is not a commit, or the cleanup event.    *)
OnlyLiveProgress ==
    [][\A r \in Requests :
         (row[r].state \in Working /\ ~Live(row[r], now)
            /\ row'[r].state # row[r].state)
         => row'[r].state \in Terminal \ {"committed"}]_vars

----------------------------------------------------------------------------
(* What has become of a slot.  Every attempt but the newest was retryable, so *)
(* a slot may be tried again when all of its attempts are.                    *)
SlotStatus(slot) ==
    LET rows == {row[r] : r \in SlotRows(slot)}
    IN  CASE rows = {} -> "unused"
          [] \E x \in rows : x.state = "committed" -> "answered"
          [] \E x \in rows : IsActive(x) -> "answering"
          [] OTHER -> IF \A x \in rows : x.retryable THEN "retryable" ELSE "closed"

Slot == INSTANCE ResponseSlot WITH status <- [s \in Slots |-> SlotStatus(s)]

(* The repository keeps the promise of ResponseSlot: whatever calls come late  *)
(* or twice, a slot has one attempt at a time and is answered once for all.    *)
ImplementsSlot == Slot!SlotSpec
=============================================================================
