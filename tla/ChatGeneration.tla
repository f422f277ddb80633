--------------------------- MODULE ChatGeneration ---------------------------
(* A world chat as its processes run it: POST /messages and /retry admit     *)
(* requests (service/generation.py), every GET /events is a run of           *)
(* stream_world_response and ResponseWorkflow.run, and status reads recover  *)
(* what has expired.  All of them meet in the tables only, through the       *)
(* operators of ResponseRow; one database unit is one step, and between two  *)
(* units of a run anything may happen.                                       *)
(*                                                                           *)
(* A run keeps the record it read last.  What a run did between two units    *)
(* (provider calls, retrieval) is abstracted to whether it went on, raised   *)
(* or was cancelled.  A crash of the process, the close of a stream at a     *)
(* yield and the fence of a world under deletion are one thing to the        *)
(* tables: Abandon, no unit ever follows.                                    *)
EXTENDS ResponseRow, Sequences, FiniteSets

CONSTANTS
    Threads,
    Keys,          \* idempotency keys the clients choose
    MaxNow,        \* bound on the clock
    MaxSeq,        \* bound on the sequence of the last delta
    DeadlineTerm,  \* RESPONSE_REQUEST_DEADLINE_SECONDS
    LeaseTerm,     \* lease_seconds of a workflow
    PreLeaseTerm,  \* the 30 seconds of _persist_pre_workflow_failure
    RecoveryLimit, \* limit=100 of _recover_if_expired
    Routes         \* the route states the runs take

ASSUME TermsAssumption ==
    /\ MaxNow \in Nat /\ MaxSeq \in Nat
    /\ {DeadlineTerm, LeaseTerm, PreLeaseTerm, RecoveryLimit} \subseteq Nat \ {0}
    /\ IsFiniteSet(Requests)
    /\ Routes \subseteq RouteReady

VARIABLES
    row,       \* [Requests -> Row], chat_response_requests
    requests,  \* per thread its requests in created_at order, with their keys
    messages,  \* per thread message_messages in id order
    run,       \* the streams: one per worker, its lease token is its name
    log,       \* history: the accepted events of each request and their run
    told,      \* history: the outcomes clients were sent for each request
    now

vars == <<row, requests, messages, run, log, told, now>>
data == <<row, requests, messages, log>>

NoRecord == [state |-> "absent", gen |-> 0, seq |-> -1, token |-> NoToken]
RecordOf(x) == [state |-> x.state, gen |-> x.gen, seq |-> x.seq, token |-> x.token]

(* pending: events whose unit is committed and whose yield is not done;      *)
(* target: the ending _fail or _cancel_if_active has chosen.                 *)
Fresh == [pc |-> "idle", req |-> NoRequest, rec |-> NoRecord, target |-> "none",
          pending |-> <<>>]
Ended == [Fresh EXCEPT !.pc = "done"]

Event(type, sequence) == [type |-> type, seq |-> sequence]

(* _terminal_event *)
TerminalEvent(x) ==
    Event(IF x.state = "committed" THEN "completed" ELSE "failed",
          IF x.seq > 0 THEN x.seq ELSE 0)

Lesser(a, b) == IF a < b THEN a ELSE b

RequestsOf(t) == {requests[t][i].id : i \in DOMAIN requests[t]}

(* Variant: only the keys of requests still running are remembered. *)
KeysOfActive(t) ==
    {requests[t][i].key : i \in {j \in DOMAIN requests[t] : IsActive(row[requests[t][j].id])}}

KeysOf(t) == {requests[t][i].key : i \in DOMAIN requests[t]}

(* Variant: requests no stream has taken are not counted. *)
HasRunning(t) == \E r \in RequestsOf(t) : row[r].state \in Working

(* _active_request *)
HasActive(t) == \E r \in RequestsOf(t) : IsActive(row[r])

(* _latest_request_row *)
LatestRequest(t) == requests[t][Len(requests[t])].id

SlotsUsed == {row[r].slot : r \in {q \in Requests : Exists(row[q])}}

Init ==
    /\ row = [r \in Requests |-> AbsentRow]
    /\ requests = [t \in Threads |-> <<>>]
    /\ messages = [t \in Threads |-> <<>>]
    /\ run = [w \in Tokens |-> Fresh]
    /\ log = [r \in Requests |-> <<>>]
    /\ told = [r \in Requests |-> {}]
    /\ now = 0

----------------------------------------------------------------------------
(* Admission.  A key the thread has used is replayed or refused: no step.    *)

Admit(t, k, r, slot, attempt, parent) ==
    /\ ~Exists(row[r])
    /\ now + DeadlineTerm <= MaxNow
    /\ row' = [row EXCEPT ![r] = NewRow(slot, attempt, parent, now + DeadlineTerm)]
    /\ requests' = [requests EXCEPT ![t] = Append(@, [id |-> r, key |-> k])]
    /\ UNCHANGED <<run, log, told, now>>

(* _accept_world_message *)
AcceptMessage(t, k, r, slot) ==
    /\ k \notin KeysOf(t)
    /\ ~HasActive(t)
    /\ slot \notin SlotsUsed
    /\ Admit(t, k, r, slot, 1, NoRequest)
    /\ messages' = [messages EXCEPT ![t] =
                      Append(@, [role |-> "user", slot |-> slot, key |-> k])]

(* No user message follows the one of this slot. *)
IsLastQuestion(t, slot) ==
    \A i, j \in DOMAIN messages[t] :
        (messages[t][i].slot = slot /\ i < j) => messages[t][j].role # "user"

(* _retry_world_response *)
RetryResponse(t, k, prior, r) ==
    /\ k \notin KeysOf(t)
    /\ prior \in RequestsOf(t)
    /\ LatestRequest(t) = prior
    /\ MayRetry(row[prior])
    /\ ~HasActive(t)
    /\ IsLastQuestion(t, row[prior].slot)
    /\ Admit(t, k, r, row[prior].slot, row[prior].attempt + 1, prior)
    /\ UNCHANGED messages

Due(r) == IsActive(row[r]) /\ row[r].deadline <= now

Backlog == {q \in Requests : Expired(row[q], now)}

(* recover_expired_requests takes the oldest RecoveryLimit candidates, of any *)
(* thread; which ones are older (updated_at) is abstracted to any choice.     *)
Batches == {batch \in SUBSET Backlog :
               Cardinality(batch) = Lesser(RecoveryLimit, Cardinality(Backlog))}

RecoverBatch(batch) ==
    row' = [q \in Requests |-> IF q \in batch THEN RecoverRow(row[q], now) ELSE row[q]]

(* _recover_if_expired for a record of r: the batch need not hold r itself.   *)
Recovers(r) ==
    \/ Due(r) /\ \E batch \in Batches : RecoverBatch(batch)
    \/ ~Due(r) /\ row' = row

(* get_world_response_request, get_latest_world_response_request: a read writes *)
(* only when it recovers.                                                       *)
StatusRead(r) ==
    /\ Due(r)
    /\ Recovers(r)
    /\ UNCHANGED <<requests, messages, run, log, told, now>>

----------------------------------------------------------------------------
(* A stream, up to the workflow.                                             *)

Finish(w, events) ==
    run' = [run EXCEPT ![w] = IF events = <<>> THEN Ended
                              ELSE [@ EXCEPT !.pc = "ended", !.pending = events]]

Continue(w, pc, rec, events) ==
    run' = [run EXCEPT ![w].pc = pc, ![w].rec = rec, ![w].pending = events]

(* stream_world_response_events and stream_world_response: recover, replay a  *)
(* terminal request, go on with an accepted one, also when it is late and not *)
(* in the batch (it is not leased then).  One that is worked on is refused    *)
(* (409), which leaves at most a recovery behind: a StatusRead.               *)
StartStream(w, r) ==
    /\ run[w] = Fresh
    /\ Exists(row[r])
    /\ Recovers(r)
    /\ \/ /\ IsTerminal(row'[r])
          /\ run' = [run EXCEPT ![w] = [@ EXCEPT !.pc = "ended", !.req = r,
                                                 !.pending = <<TerminalEvent(row'[r])>>]]
       \/ /\ row'[r].state = "accepted"
          /\ run' = [run EXCEPT ![w] = [@ EXCEPT !.pc = "start", !.req = r,
                                                 !.rec = RecordOf(row'[r])]]
    /\ UNCHANGED <<requests, messages, log, told, now>>

Took(w, expiry) == [row EXCEPT ![run[w].req] = AcquireRow(@, w, expiry)]

Logged(w, r, type) == [log EXCEPT ![r] = Append(@, [type |-> type, by |-> w])]

(* _persist_pre_workflow_failure, the first commit of three (SQLite; PostgreSQL *)
(* makes all three one unit).  It reads the request again: another stream may   *)
(* have ended it, or hold it, and then acquire_lease raises.                    *)
PreAcquire(w) ==
    LET r == run[w].req
        expiry == Lesser(row[r].deadline, now + PreLeaseTerm)
    IN  /\ run[w].pc = "start"
        /\ \/ /\ IsTerminal(row[r])
              /\ Finish(w, <<TerminalEvent(row[r])>>)
              /\ UNCHANGED row
           \/ /\ CanAcquire(row[r], now, expiry)
              /\ row' = Took(w, expiry)
              /\ Continue(w, "preleased", RecordOf(row'[r]), <<>>)
           \/ /\ ~IsTerminal(row[r]) /\ ~CanAcquire(row[r], now, expiry)
              /\ Finish(w, <<>>)
              /\ UNCHANGED row
        /\ UNCHANGED <<requests, messages, log, told, now>>

PreAccept(w) ==
    LET r == run[w].req
        rec == run[w].rec
        ok == CanAcceptEvent(row[r], FenceOf(rec), 0, FALSE, now)
    IN  /\ run[w].pc = "preleased"
        /\ \/ /\ ok
              /\ row' = [row EXCEPT ![r] = AcceptEventRow(@, 0)]
              /\ log' = Logged(w, r, "accepted")
              /\ Continue(w, "preaccepted", rec, <<>>)
           \/ ~ok /\ Finish(w, <<>>) /\ UNCHANGED <<row, log>>
        /\ UNCHANGED <<requests, messages, told, now>>

(* The third commit uses the record as it is read then, whoever leased it. *)
PreFail(w, retryable) ==
    LET r == run[w].req
        s == row[r].seq + 1
        ok == CanMarkTerminal(row[r], FenceOf(row[r]), "failed")
    IN  /\ run[w].pc = "preaccepted"
        /\ \/ /\ IsTerminal(row[r])
              /\ Finish(w, <<TerminalEvent(row[r])>>)
              /\ UNCHANGED <<row, log>>
           \/ /\ ~IsTerminal(row[r]) /\ ok
              /\ row' = [row EXCEPT ![r] = EndRow(AcceptEventRow(@, s), "failed", retryable)]
              /\ log' = Logged(w, r, "failed")
              /\ Finish(w, <<Event("accepted", 0), Event("failed", s)>>)
        /\ UNCHANGED <<requests, messages, told, now>>

----------------------------------------------------------------------------
(* ResponseWorkflow.run                                                      *)

(* Variant: the run goes on with the record it had. *)
NotAdopted(w) == run[w].rec

(* _after_rollback: the row as it is, if the lease is still the one we hold. *)
Adopted(w) ==
    LET x == row[run[w].req]
    IN  IF x.gen = run[w].rec.gen /\ x.token = run[w].rec.token THEN RecordOf(x)
        ELSE run[w].rec

WorkflowExpiry(w) == Lesser(row[run[w].req].deadline, now + LeaseTerm)

Acquire(w) ==
    LET r == run[w].req
    IN  /\ run[w].pc = "start"
        /\ CanAcquire(row[r], now, WorkflowExpiry(w))
        /\ row' = Took(w, WorkflowExpiry(w))
        /\ \/ Continue(w, "leased", RecordOf(row'[r]), <<>>)
           \/ Finish(w, <<>>)  \* cancelled while the unit drains: the record is not ours yet
        /\ UNCHANGED <<requests, messages, log, told, now>>

(* The except clauses of run: roll back, read the request again, and choose   *)
(* the ending.  An exception may leave any await between two units, and       *)
(* acquire_lease when it is refused; a cancellation any await.                *)
StopRun(w, target) ==
    /\ run' = [run EXCEPT ![w] =
                 IF IsTerminal(Adopted(w)) THEN Ended
                 ELSE [@ EXCEPT !.pc = "stopping", !.rec = Adopted(w), !.target = target]]
    /\ UNCHANGED <<data, told, now>>

CanStop(w) ==
    /\ run[w].pending = <<>>
    /\ \/ run[w].pc \in {"leased", "working", "broken"}
       \/ /\ run[w].pc = "start"
          /\ ~CanAcquire(row[run[w].req], now, WorkflowExpiry(w))

Raise(w) ==
    /\ CanStop(w)
    /\ StopRun(w, IF now >= row[run[w].req].deadline THEN "timed_out" ELSE "failed")

Cancel(w) == CanStop(w) /\ StopRun(w, "cancelled")

CanPersistStop(w) ==
    LET x == row[run[w].req]
        fence == FenceOf(run[w].rec)
    IN  /\ CanAcceptEvent(x, fence, run[w].rec.seq + 1, TRUE, now)
        /\ CanMarkTerminal(x, fence, run[w].target)

(* persist_failure, persist_cancel: the event and the ending in one unit; if   *)
(* either is refused the unit is rolled back and the request left as it is.    *)
PersistStop(w, retryable) ==
    LET r == run[w].req
        rec == run[w].rec
        target == run[w].target
        type == IF target = "cancelled" THEN "cancelled" ELSE "failed"
    IN  /\ run[w].pc = "stopping"
        /\ target # "failed" => retryable
        /\ \/ /\ CanPersistStop(w)
              /\ row' = [row EXCEPT ![r] = EndRow(AcceptEventRow(@, rec.seq + 1), target, retryable)]
              /\ log' = Logged(w, r, type)
              /\ Finish(w, IF type = "failed" THEN <<Event("failed", rec.seq + 1)>> ELSE <<>>)
           \/ ~CanPersistStop(w) /\ Finish(w, <<>>) /\ UNCHANGED <<row, log>>
        /\ UNCHANGED <<requests, messages, told, now>>

(* One event of the run, committed before it is yielded.  A commit whose       *)
(* answer is lost is never replayed (postgres_db_unit): the event is in, the   *)
(* run does not know it, and the exception ends it.                            *)
Emit(w, pc, type) ==
    LET r == run[w].req
        rec == run[w].rec
        s == rec.seq + 1
    IN  /\ run[w].pending = <<>>
        /\ CanAcceptEvent(row[r], FenceOf(rec), s, FALSE, now)
        /\ row' = [row EXCEPT ![r] = AcceptEventRow(@, s)]
        /\ log' = Logged(w, r, type)
        /\ \/ Continue(w, pc, [rec EXCEPT !.seq = s], <<Event(type, s)>>)
           \/ Continue(w, "broken", rec, <<>>)
        /\ UNCHANGED <<requests, messages, told, now>>

EmitAccepted(w) == run[w].pc = "leased" /\ Emit(w, "working", "accepted")

EmitDelta(w) ==
    /\ run[w].pc = "working"
    /\ run[w].rec.state = "response_streaming"
    /\ run[w].rec.seq < MaxSeq
    /\ Emit(w, "working", "delta")

(* The transitions run and ResponseWorkflowSteps ask for: of the table, all   *)
(* that go on, through optional_retrieving where a branch retrieves, and none *)
(* from response_generating straight to committing.                           *)
WorkflowTargets(state) ==
    CASE state = "resolving" -> Routes
      [] state \in {"canonical_planning", "graph_planning", "both_coordinating"}
            -> {"optional_retrieving"}
      [] state = "response_generating" -> {"response_streaming"}
      [] OTHER -> Transitions[state] \ Terminal

Advance(w, target) ==
    LET r == run[w].req
    IN  /\ run[w].pc = "working" /\ run[w].pending = <<>>
        /\ target \in WorkflowTargets(run[w].rec.state)
        /\ CanTransition(row[r], FenceOf(run[w].rec), target, now)
        /\ row' = [row EXCEPT ![r] = TransitionRow(@, target)]
        /\ Continue(w, "working", RecordOf(row'[r]), <<>>)
        /\ UNCHANGED <<requests, messages, log, told, now>>

ThreadOf(r) == CHOOSE t \in Threads : r \in RequestsOf(t)

(* persist_response: the COMPLETED event and finalize_response in one unit. *)
Commit(w) ==
    LET r == run[w].req
        rec == run[w].rec
        s == rec.seq + 1
        t == ThreadOf(r)
        x == AcceptEventRow(row[r], s)
    IN  /\ run[w].pc = "working" /\ run[w].pending = <<>>
        /\ CanAcceptEvent(row[r], FenceOf(rec), s, FALSE, now)
        /\ CanFinalize(x, FenceOf(rec), s, now)
        /\ row' = [row EXCEPT ![r] = FinalizeRow(x, Len(messages[t]) + 1)]
        /\ messages' = [messages EXCEPT ![t] =
                          Append(@, [role |-> "assistant", slot |-> row[r].slot, by |-> w])]
        /\ log' = Logged(w, r, "completed")
        /\ Finish(w, <<Event("completed", s)>>)
        /\ UNCHANGED <<requests, told, now>>

(* The client takes the next event. *)
Yield(w) ==
    /\ run[w].pending # <<>>
    /\ LET event == Head(run[w].pending)
           rest == Tail(run[w].pending)
       IN  /\ told' = IF event.type \in {"completed", "failed"}
                      THEN [told EXCEPT ![run[w].req] = @ \cup {event.type}]
                      ELSE told
           /\ run' = [run EXCEPT ![w] =
                        IF run[w].pc = "ended" /\ rest = <<>> THEN Ended
                        ELSE [@ EXCEPT !.pending = rest]]
    /\ UNCHANGED <<data, now>>

Abandon(w) ==
    /\ run[w] \notin {Fresh, Ended}
    /\ run' = [run EXCEPT ![w] = Ended]
    /\ UNCHANGED <<data, told, now>>

Tick ==
    /\ now < MaxNow
    /\ now' = now + 1
    /\ UNCHANGED <<data, run, told>>

Client ==
    \E t \in Threads, k \in Keys, r \in Requests :
        \/ \E slot \in Slots : AcceptMessage(t, k, r, slot)
        \/ \E prior \in Requests : RetryResponse(t, k, prior, r)

Step(w) ==
    \/ \E r \in Requests : StartStream(w, r)
    \/ PreAcquire(w)
    \/ PreAccept(w)
    \/ \E retryable \in BOOLEAN : PreFail(w, retryable)
    \/ Acquire(w)
    \/ Raise(w)
    \/ Cancel(w)
    \/ \E retryable \in BOOLEAN : PersistStop(w, retryable)
    \/ EmitAccepted(w)
    \/ EmitDelta(w)
    \/ \E target \in Working : Advance(w, target)
    \/ Commit(w)
    \/ Yield(w)
    \/ Abandon(w)

Next ==
    \/ Client
    \/ \E r \in Requests : StatusRead(r)
    \/ \E w \in Tokens : Step(w)
    \/ Tick

Spec == Init /\ [][Next]_vars

(* Time passes, and an open thread view reads the status of its request again *)
(* and again (world-chat.tsx polls every 750 ms).  Nothing is assumed of the  *)
(* runs: they may all be abandoned.                                           *)
FairSpec == Spec /\ WF_vars(Tick) /\ \A r \in Requests : WF_vars(StatusRead(r))

----------------------------------------------------------------------------
EventTypes == {"accepted", "delta", "completed", "failed", "cancelled"}

RunStates == {"idle", "start", "preleased", "preaccepted", "leased", "working",
              "broken", "stopping", "ended", "done"}

TypeOK ==
    /\ row \in [Requests -> Row \cup {AbsentRow}]
    /\ \A t \in Threads : \A i \in DOMAIN requests[t] :
          requests[t][i] \in [id : Requests, key : Keys]
    /\ \A t \in Threads : \A i \in DOMAIN messages[t] :
          \/ messages[t][i] \in [role : {"user"}, slot : Slots, key : Keys]
          \/ messages[t][i] \in [role : {"assistant"}, slot : Slots, by : Tokens]
    /\ \A w \in Tokens : run[w].pc \in RunStates /\ Len(run[w].pending) <= 2
    /\ \A r \in Requests : \A i \in DOMAIN log[r] :
          log[r][i] \in [type : EventTypes, by : Tokens]
    /\ told \in [Requests -> SUBSET {"completed", "failed"}]
    /\ now \in 0 .. MaxNow

(* A message POSTed twice with one key is in the conversation once, also when *)
(* the copy arrives after the answer or after a retry used the key.           *)
SentOnce ==
    \A t \in Threads : \A i, j \in DOMAIN messages[t] :
        ( /\ messages[t][i].role = "user" /\ messages[t][j].role = "user"
          /\ messages[t][i].key = messages[t][j].key ) => i = j

(* Only one stream ever writes events of a request, whatever number of tabs   *)
(* and reconnects start one.                                                  *)
OneWriter ==
    \A r \in Requests : \A i, j \in DOMAIN log[r] : log[r][i].by = log[r][j].by

EventsOf(r) == {log[r][i].type : i \in DOMAIN log[r]}

(* The accepted events tell the same story as the row: as many as its last    *)
(* sequence says, the closing one last, and of the kind of its ending.  A row *)
(* may end without a closing event (recovery), never the other way round.     *)
LogAgreesWithRow ==
    \A r \in Requests : Exists(row[r]) =>
        /\ row[r].seq = Len(log[r]) - 1
        /\ \A i \in DOMAIN log[r] :
              /\ log[r][i].type = "accepted" => i = 1
              /\ log[r][i].type \in {"delta", "completed"} => log[r][1].type = "accepted"
              /\ log[r][i].type \in {"completed", "failed", "cancelled"} => i = Len(log[r])
        /\ "completed" \in EventsOf(r) <=> row[r].state = "committed"
        /\ "failed" \in EventsOf(r) => row[r].state \in {"failed", "timed_out"}
        /\ "cancelled" \in EventsOf(r) => row[r].state = "cancelled"

(* What a client is told of a request is durable: "completed" means that the  *)
(* answer is stored, "failed" that none ever will be.                         *)
ToldTruth ==
    \A r \in Requests :
        /\ "completed" \in told[r] => row[r].state = "committed"
        /\ "failed" \in told[r] => IsTerminal(row[r]) /\ row[r].state # "committed"

(* "Refresh our own durable sequence; never adopt another lease": a run that  *)
(* fails can end its request as long as it holds the lease, also after a      *)
(* commit whose answer was lost.                                              *)
HolderCanFail ==
    \A w \in Tokens :
        (run[w].pc = "stopping" /\ run[w].target # "cancelled" /\ row[run[w].req].token = w)
        => CanPersistStop(w)

(* "Every state mutation and final commit [...] also requires a live lease, an *)
(* active deadline and no cancellation request": a run that ends its request   *)
(* as failed still has all three.  (Recovery never says failed.)               *)
FailureNeedsLiveLease ==
    [][\A r \in Requests :
         (row[r].state \in Working /\ row'[r].state = "failed")
         => Live(row[r], now)]_vars

(* The thread admits the next message or a retry in the end, whatever became  *)
(* of the run: a request that is accepted settles.                            *)
EveryRequestSettles ==
    \A r \in Requests : IsActive(row[r]) ~> IsTerminal(row[r])

----------------------------------------------------------------------------
(* The thread as Conversation sees it: its messages, the questions with what  *)
(* has become of them.                                                        *)
Answered(t, slot) ==
    \E i \in DOMAIN messages[t] : messages[t][i].role = "assistant" /\ messages[t][i].slot = slot

Waiting(slot) == \E r \in Requests : Exists(row[r]) /\ row[r].slot = slot /\ IsActive(row[r])

StandingOf(t, slot) ==
    IF Waiting(slot) THEN "waiting" ELSE IF Answered(t, slot) THEN "answered" ELSE "stopped"

Talk(t) ==
    [i \in DOMAIN messages[t] |->
        IF messages[t][i].role = "assistant" THEN "answer"
        ELSE StandingOf(t, messages[t][i].slot)]

Conv == INSTANCE Conversation WITH talk <- [t \in Threads |-> Talk(t)]

(* Admission, streams and recovery together keep the promise of Conversation: *)
(* one open question at a time, an answer only to the last message, once.     *)
ImplementsConversation == Conv!TalkSpec
=============================================================================
