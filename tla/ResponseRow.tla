---------------------------- MODULE ResponseRow ----------------------------
(* The row of chat_response_requests (domains/chat/models.py) and what one  *)
(* call of SqlAlchemyResponseLifecycleRepository does to it: for every call *)
(* X the predicate CanX(row, ...) is the WHERE clause and the checks before *)
(* it, and XRow(row, ...) the columns it writes.  Machines that own rows    *)
(* (ResponseLifecycle, ChatGeneration) are built from these operators.      *)
(*                                                                          *)
(* Abstracted: request_id, thread_id, scope hash, generation_id and         *)
(* attempt_number of a fence never change after INSERT and are functions of *)
(* the request, so a fence is the request plus the two columns that move:   *)
(* lease_generation and the expected prior state.  Diagnostics, call        *)
(* tracker, route and recipe columns are left out.                          *)
EXTENDS Integers

CONSTANTS
    Requests,   \* request ids
    Slots,      \* response slots; a slot is one user message to be answered
    Tokens,     \* lease tokens, one per worker run (uuid4)
    NoRequest,  \* NULL retry_of_request_id
    NoToken     \* NULL lease_token

ASSUME NullAssumption == NoRequest \notin Requests /\ NoToken \notin Tokens

NullTime == -1      \* NULL lease_expires_at
NoAnswer == 0       \* NULL committed_assistant_message_id
NoReason == "none"  \* NULL terminal_reason

RouteReady == {"current_context_ready", "canonical_planning", "graph_planning",
               "both_coordinating", "clarification_prepared"}

Terminal == {"committed", "rejected", "cancelled", "timed_out", "failed", "orphaned"}

(* Stopped(s): the three endings almost every working state shares. *)
Stopped == {"cancelled", "timed_out", "failed"}

(* _TRANSITIONS with the loop that adds the endings of the route states. *)
Transitions ==
    [accepted               |-> {"lease_acquired", "rejected", "cancelled", "timed_out"},
     lease_acquired         |-> {"preflighted", "orphaned"} \cup Stopped,
     preflighted            |-> {"routing", "rejected"} \cup Stopped,
     routing                |-> {"resolving"} \cup Stopped,
     resolving              |-> RouteReady \cup {"rejected"} \cup Stopped,
     current_context_ready  |-> {"evidence_frozen"} \cup Stopped,
     canonical_planning     |-> {"optional_retrieving", "evidence_frozen"} \cup Stopped,
     graph_planning         |-> {"optional_retrieving", "evidence_frozen"} \cup Stopped,
     both_coordinating      |-> {"optional_retrieving", "evidence_frozen"} \cup Stopped,
     clarification_prepared |-> {"evidence_frozen"} \cup Stopped,
     optional_retrieving    |-> {"evidence_frozen"} \cup Stopped,
     evidence_frozen        |-> {"response_generating"} \cup Stopped,
     response_generating    |-> {"response_streaming", "committing"} \cup Stopped,
     response_streaming     |-> {"committing"} \cup Stopped,
     committing             |-> {"committed", "failed", "timed_out"}]

(* Every state that is not terminal; accepted is the only one with no lease. *)
Working == {"lease_acquired", "preflighted", "routing", "resolving",
            "optional_retrieving", "evidence_frozen", "response_generating",
            "response_streaming", "committing"} \cup RouteReady
Active == {"accepted"} \cup Working
States == Active \cup Terminal

Reasons == {"committed", "other"}  \* "other": every other ResponseTerminalReason

Row == [state     : States,
        slot      : Slots,
        attempt   : Nat,
        parent    : Requests \cup {NoRequest},
        deadline  : Nat,
        token     : Tokens \cup {NoToken},
        expiry    : Nat \cup {NullTime},
        gen       : Nat,                     \* lease_generation
        seq       : Nat \cup {-1},           \* last_emitted_sequence
        reason    : Reasons \cup {NoReason},
        retryable : BOOLEAN,
        cancelled : BOOLEAN,                 \* cancel_requested_at IS NOT NULL
        answer    : Nat]                     \* committed_assistant_message_id

AbsentRow == [state |-> "absent"]  \* a request id that is not inserted yet

Fence == [gen : Nat, state : States]

Exists(row) == row.state # "absent"
IsTerminal(row) == row.state \in Terminal
IsActive(row) == row.state \in Active

----------------------------------------------------------------------------
(* validate_transition *)
ValidTransition(from, to) ==
    /\ from \notin Terminal
    /\ to \in Transitions[from]

(* The operators marked Variant are forms a change of the code could give the  *)
(* definition that follows them; each breaks a property of some run.           *)

(* Variant: the expected prior state is not compared. *)
FencedByGeneration(row, fence) == row.gen = fence.gen

(* Variant: the lease generation is not compared. *)
FencedByState(row, fence) == row.state = fence.state

(* _fenced_conditions *)
Fenced(row, fence) ==
    /\ row.gen = fence.gen
    /\ row.state = fence.state

(* lease_token IS NOT NULL AND lease_expires_at > now AND deadline_at > now *)
(* AND cancel_requested_at IS NULL                                          *)
Live(row, now) ==
    /\ row.token # NoToken
    /\ row.expiry > now
    /\ row.deadline > now
    /\ ~row.cancelled

(* Variant: lease, deadline and cancellation are not looked at. *)
ActiveFencedUnleased(row, fence, now) == Fenced(row, fence)

(* _active_fenced_conditions *)
ActiveFenced(row, fence, now) == Fenced(row, fence) /\ Live(row, now)

(* GenerationFence of the row as it is now: what _fence(record) builds. *)
FenceOf(row) == [gen |-> row.gen, state |-> row.state]

(* Variants: a parent that has an answer, that has not ended, that is not     *)
(* retryable.                                                                 *)
MayRetryAnswered(parent) == IsTerminal(parent)
MayRetryActive(parent) == parent.answer = NoAnswer
MayRetryClosed(parent) == IsTerminal(parent) /\ parent.answer = NoAnswer

(* _validate_retry_lineage, parent given *)
MayRetry(parent) ==
    /\ IsTerminal(parent)
    /\ parent.retryable
    /\ parent.answer = NoAnswer

(* Variant: the response slot is stored as retry_of_request_id. *)
NewRowSwapped(slot, attempt, parent, deadline) ==
    [state |-> "accepted", slot |-> slot, attempt |-> attempt,
     parent |-> IF parent = NoRequest THEN parent ELSE slot,
     deadline |-> deadline, token |-> NoToken, expiry |-> NullTime, gen |-> 0,
     seq |-> -1, reason |-> NoReason, retryable |-> FALSE, cancelled |-> FALSE,
     answer |-> NoAnswer]

NewRow(slot, attempt, parent, deadline) ==
    [state |-> "accepted", slot |-> slot, attempt |-> attempt, parent |-> parent,
     deadline |-> deadline, token |-> NoToken, expiry |-> NullTime, gen |-> 0,
     seq |-> -1, reason |-> NoReason, retryable |-> FALSE, cancelled |-> FALSE,
     answer |-> NoAnswer]

(* Variant: any active request can be taken, whoever holds its lease. *)
CanAcquireHeld(row, now, expiry) ==
    /\ expiry > now
    /\ IsActive(row)
    /\ row.deadline > now

CanAcquire(row, now, expiry) ==
    /\ expiry > now
    /\ row.state = "accepted"
    /\ row.token = NoToken \/ row.expiry <= now
    /\ row.deadline > now

AcquireRow(row, token, expiry) ==
    [row EXCEPT !.state = "lease_acquired", !.token = token, !.expiry = expiry,
                !.gen = @ + 1]

CanRenew(row, fence, token, now, expiry) ==
    /\ expiry > now
    /\ Fenced(row, fence)
    /\ row.token = token
    /\ row.expiry > now
    /\ row.deadline > now

RenewRow(row, expiry) == [row EXCEPT !.expiry = expiry, !.gen = @ + 1]

(* Every ending clears the lease with the state: the columns are written by *)
(* one UPDATE.                                                              *)
EndRow(row, target, retryable) ==
    [row EXCEPT !.state = target, !.retryable = retryable,
                !.reason = IF target = "committed" THEN "committed" ELSE "other",
                !.token = NoToken, !.expiry = NullTime]

(* Variant: a request that has ended is cancelled as well. *)
CanCancelEnded(row) == Exists(row) /\ ~row.cancelled

CanCancel(row) == IsActive(row) /\ ~row.cancelled

CancelRow(row) ==
    [EndRow(row, "cancelled", FALSE) EXCEPT !.cancelled = TRUE]

(* Variants: rows without a lease are overlooked, rows that ended are not. *)
ExpiredLease(row, now) ==
    IsActive(row) /\ row.token # NoToken /\ row.expiry <= now

ExpiredAnyState(row, now) == Exists(row) /\ row.deadline <= now

(* recover_expired_requests: candidate filter and target of one row *)
Expired(row, now) ==
    /\ IsActive(row)
    /\ \/ row.deadline <= now
       \/ row.token # NoToken /\ row.expiry <= now

RecoverRow(row, now) ==
    IF row.cancelled THEN EndRow(row, "cancelled", FALSE)
    ELSE IF row.deadline <= now THEN EndRow(row, "timed_out", TRUE)
    ELSE EndRow(row, "orphaned", TRUE)

(* The table lets transition() name a terminal target, but the terminal_shape *)
(* CHECK refuses that UPDATE: transition() writes no terminal_reason.         *)
CanTransition(row, fence, target, now) ==
    /\ ValidTransition(fence.state, target)
    /\ target \notin Terminal
    /\ ActiveFenced(row, fence, now)

TransitionRow(row, target) == [row EXCEPT !.state = target]

(* accept_event of an event that is not the last one again (DUPLICATE writes *)
(* nothing); cleanup is FAILED or CANCELLED.                                 *)
CanAcceptEvent(row, fence, sequence, cleanup, now) ==
    /\ Fenced(row, fence)
    /\ ~IsTerminal(row)
    /\ sequence = row.seq + 1
    /\ ~cleanup => ActiveFenced(row, fence, now)

(* Variant: last_emitted_sequence is not advanced. *)
AcceptEventRowStuck(row, sequence) == row

AcceptEventRow(row, sequence) == [row EXCEPT !.seq = sequence]

CanMarkTerminal(row, fence, target) ==
    /\ target \in Terminal \ {"committed"}
    /\ ValidTransition(fence.state, target)
    /\ Fenced(row, fence)

(* finalize_response; sequence is metadata.last_accepted_sequence.  A row that *)
(* is already committed is returned unchanged (no step).                       *)
CanFinalize(row, fence, sequence, now) ==
    /\ fence.state = "committing"
    /\ sequence = row.seq
    /\ ActiveFenced(row, fence, now)

FinalizeRow(row, answer) ==
    [EndRow(row, "committed", FALSE) EXCEPT !.answer = answer]

=============================================================================
