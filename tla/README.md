# Formal models of Angmoo

TLA+ models of the parts of Angmoo in which several actors meet in a database
row: worlds whose characters answer chat messages and act by themselves on a
schedule. Each module translates the code named in its comments and, definition
by definition with lines, in `PROJECT.json` under `map`. TLC checks the models
on small instances; TLAPS proves what matters most for every instance.

## 1. The system

The backend (`src/backend/app`) is one Python process per installation (FastAPI
and background components under `runtime/`), on SQLite in WAL mode (desktop,
default) or PostgreSQL. The frontend polls and streams. Everything that must
survive a crash, or that two requests share, is a row; a component protects a
row by a *lease* (owner, expiry), a *fence* (a counter that grows with each
owner and is compared by every write) or a *claim* (a conditional UPDATE). What
is hard is the same everywhere: minutes of provider calls lie between the read
and the write of a worker, and in between its lease expires, its request is
cancelled or retried, its process dies, or its commit goes through and nobody
tells it.

| Component | State | Operations | Meets | Correct when |
|---|---|---|---|---|
| Response lifecycle repository (`domains/chat/repository/response_lifecycle.py`) | `chat_response_requests`, assistant rows of `message_messages` | create, acquire, renew, transition, accept event, finalize, mark terminal, cancel, recover | workers, clients and recovery, all through conditional UPDATEs | a message is answered once, by the newest attempt and lease; what ended stays ended |
| Chat generation (`domains/chat/service/generation.py`, `response_workflow.py`, `response_steps.py`, router) | the above, and the record each stream holds | post, retry, status read, stream; a workflow of some twelve commits | streams of several tabs; any status read recovers any request | one writer per request; clients are told the truth; a thread never stays blocked |
| Scheduler lease (`domains/runtime/service/scheduler_lease.py`, `sqlite_lease.py`) | `runtime_scheduler_leases` | acquire, heartbeat, begin and finish tick, release | the scheduler runs; the commit fence | an epoch has one owner, a window one tick |
| Resident tick scheduler (`runtime/resident/scheduler.py`, `lease_executor.py`, `runtime/persistence/scheduler_fence.py`) | epoch, proof of the lease, tick task, process lock | run loop, heartbeats with a deadline, cancel and drain, recovery | the lease row, the ticks, shutdown | at most one live tick; ready only while holding; no commit of a replaced runner |
| Routine activity (`domains/routines/service/execution`, `runtime/routine_posts/sqlalchemy_runtime.py`, `runtime/autonomous_activity`) | beats, episodes, event consumptions, checkpoints, day plans | claim, freeze, resume, publish, fail, close | runs of several ticks, a resumed run beside the first, the scheduler's closing of dayparts | a beat is published once, by its last claimant, on the state it was planned for; every beat ends |
| Resident slots (`domains/routines/service/slot_*.py`, `runtime/resident/execution.py`) | agent slots and runs | claim, extend, complete, recover | ticks, manual runs | one run per slot |
| Joint activities (`domains/routines/service/joint_*`) | reservations of several participants | reserve, advance, settle | beats of every participant | all take part or none |
| Memory maintenance (`domains/memory/repository/situation_*.py`, `runtime/memory/batch_runtime.py`, `situation_runtime.py`, `maintenance_slot.py`, `shutdown.py`) | receipts, runs leased for a page, one maintenance slot | admit, request, claim, prepare, apply, defer, cancel, resume, close, discard, fence | the owner's commands, chat in the foreground, a shutdown, another life of the backend | a receipt is decided once; nothing is passed over; one turn at a time; runs settle |
| Memory vectors and recall (`runtime/memory`) | index generations and their work items | project, rebuild, search | memory writes | the index follows the memories |
| Graph projection (`runtime/graph_projection`) | outbox events, projection, replay lease | claim, apply, mark, rebuild | relationship writes | events are applied in order; a rebuild loses none |
| Relationships (`domains/relationships`) | points, daily reviews | apply, review | chat, beats, projection | totals follow from the ledger |
| World deletion (`runtime/world_deletion`, `runtime/persistence/world_erasure_fences.py`) | a request with stage, epoch and lease; a journal of rows, files and copies | accept, claim, drain, collect, purge, clean, verify, retry | every writer of the world, through triggers and the fences of the stores | completed means erased for good; others keep their files; an erasure ends |
| World packages (`runtime/world_packages`) | staged import | validate, commit | one writer | all or nothing |
| Media (`domains/media`) | interpretations, quota | admit, interpret, supersede | chat attachments | quota is not exceeded |
| Database concurrency (`core/sqlite_concurrency.py`, `postgresql_concurrency.py`) | connection, writer queue | run a unit, retry on busy, give up at a deadline | everything above | a unit is applied once or not at all, or reported as unknown |
| Identity (`domains/identity`) | sessions, throttle counters | login, logout, throttle | requests | a blocked account stays blocked for its time |
| Social feed, characters, lore, worlds | records | create, edit, delete | users, ticks | mostly single transactions |
| Runtime composition and shutdown (`runtime/shutdown.py`, `desktop_sidecar.py`) | components and their order | start, stop, cancel | all components | everything stops in bounded time |
| Frontend (`src/frontend`) | view state | poll, stream, retry | the HTTP API | shows what is stored |
| Migrations (`runtime/postgresql_migration.py`) | - | convert | - | keeps the data |

The hazards these components are exposed to, each at its line and with the
properties that cover it, are listed in `PROJECT.json` under `hazards`.

## 2. Modules

    ResponseRow             the row of a request, and each repository call on it
      ResponseLifecycle     that table under any callers  ---implements---> ResponseSlot
        ResponseLifecycleProofs     (TLAPS)
          ResponseSlotProofs        (TLAPS)
        MCResponseLifecycle         (TLC)
      ChatGeneration        clients, streams, recovery    ---implements---> Conversation
        ChatGenerationProofs        (TLAPS)
          ConversationProofs        (TLAPS)
        MCChatGeneration            (TLC)
    Scheduler               the runs, the lease row, the ticks
      SchedulerProofs               (TLAPS)
      MCScheduler                   (TLC)
    BeatClaims              beats, claims, resumed runs   ---implements---> Narrative
      BeatClaimsProofs              (TLAPS)
      MCBeatClaims                  (TLC)
    MemoryRuns              receipts, runs, the slot      ---implements---> MemoryLedger
      MemoryRunsProofs              (TLAPS)
      MCMemoryRuns                  (TLC)
    WorldErasure            a world, its writers and its deletion
      WorldErasureProofs            (TLAPS)
      MCWorldErasure                (TLC)

The modules share no variables: what one takes from another is named where it is
used (the commit fence of `Scheduler`, the atomic unit of the database).

### ResponseRow

One row of `chat_response_requests` as a record, and for every call X of
`SqlAlchemyResponseLifecycleRepository` the predicate `CanX` (the WHERE clause
and the checks before it) and the function `XRow` (the columns the UPDATE
writes). Both machines below are built from these, so a change of the code is
made in one place. `Transitions` is the whole table of
`contracts/generation_lifecycle.py`, all 15 active states.

| Code | Model |
|---|---|
| fence: request, thread, scope hash, generation id, attempt | a function of the request, never changes; left out |
| fence: `lease_generation`, `expected_prior_state` | `Fence` |
| `lease_token IS NOT NULL AND lease_expires_at > now AND deadline_at > now AND cancel_requested_at IS NULL` | `Live` |
| `terminal_reason` | `reason`: committed, other or none |
| `committed_assistant_message_id` | `answer`: position in the messages, 0 for NULL |
| diagnostics, provenance, route, recipe, call tracker | left out: no condition of a call reads them |

Two facts of the code the table alone does not show are part of the guards:
`transition` cannot end a request though the table lists endings, since it
writes no `terminal_reason` and the CHECK `terminal_shape` refuses the UPDATE;
`mark_terminal` asks for the fence but not for a live lease.

### ResponseLifecycle and ResponseSlot

`ResponseLifecycle` lets anyone call anything: any fence that was ever current
(`Fences`), any sequence number, any target, any clock that does not go back.
A call is one serializable transaction, hence one step; a call that raises
changes nothing. `recover_expired_requests` takes a limited batch
(`RecoveryLimit`) of any candidates: the order by `updated_at` is abstracted.
`messages` is the table of assistant messages.

`ResponseSlot` is what is promised of one question: unused, answering, then
answered, closed or retryable, and never anything after an answer.
`ImplementsSlot` maps a slot to the states of all its attempts.

### ChatGeneration and Conversation

What the processes really do with the repository. A step is one database unit.

| Code | Model |
|---|---|
| POST `/messages` (`_accept_world_message`) | `AcceptMessage` |
| POST `/retry` (`_retry_world_response`) | `RetryResponse` |
| GET of a request or of the latest one | `StatusRead`: a step only when it recovers |
| `_recover_if_expired` | `Recovers`: if the request is past its deadline (`Due`), one batch of at most `RecoveryLimit` of all expired requests (`Backlog`) ends; the request that was read need not be among them |
| GET `/events`, up to the workflow | `StartStream` (recovers, replays an ended request, refuses a busy one with 409) |
| `_persist_pre_workflow_failure` | `PreAcquire`, `PreAccept`, `PreFail`: three commits on SQLite; on PostgreSQL one unit, which is the same three with nothing between |
| `ResponseGenerationWorkflowService.run`: `acquire_lease` | `Acquire` |
| its events and transitions | `EmitAccepted`, `Advance`, `EmitDelta`, `Commit` (COMPLETED event, answer and ending in one unit) |
| its `except` clauses: roll back, read again (`_after_rollback`), write the ending | `Raise`, `Cancel`, then `PersistStop` |
| an event goes to the client after its commit | `Yield` |
| process crash, client gone at a `yield`, world being deleted, cleanup that fails | `Abandon` |
| commit with unknown outcome, never replayed (`core/database_transactions.py`) | second disjunct of `Emit` |

A stream holds `rec`, the record it read last: everything it presents to the
repository is taken from there and not from the row. `log` and `told` are
history: who wrote which event, and what clients were told. Which expired
requests are older (`updated_at`) is abstracted: a batch is any choice of the right
size, a superset of what the code may take. Providers,
retrieval, evidence and memory proposals are only "the run went on, raised, or
was cancelled" between two units. `renew_lease` and `request_cancel` have no
caller in the program and appear in `ResponseLifecycle` only.

`Conversation` is a thread as its user sees it, the whole transcript: questions
and answers in order. Only the last message may be a waiting question; an answer
follows its question at once and is given once; only the last question can be
tried again. `Talk` reads this off the messages, and off the requests of each
question: waiting while one of them is active, else answered or stopped.

### Scheduler

One run of `run_resident_tick_scheduler` per runner, its state a record in
`runner`: `pc` is the await it is at, `proof` the expiry of the lease as it last
learned it, `kids` whether the exception that ends it carries `pending_tasks`.
The tick is a task of its own (`tick`), since a cancelled task may go on.

| Code | Model |
|---|---|
| `SchedulerProcessLock` | guard of `Start` with `SharedLock`, until `Unlock`; a run that finds it held fails and is no run |
| `coordinator.acquire / heartbeat / begin_tick / finish_tick` | `Allowed` and `Written`, made by `Acquire`, `Heartbeat`, `Begin`, `Finish`, or by a call without an answer |
| `_lease_write_deadline` | `Sent` |
| busy, full queue, late, connection lost, refused | `CallFails`, `CallLost`, `CallRefused` with the two recoveries `drop` (forget the lease) and `degrade` (verify it again) |
| the executor that cannot drain | `CallStuck`; its call lands later (`Land`) |
| stop, drain time, cancel and wait for the tick | `Stop`, `DrainTimeout`, `Settle`, `LeaveTick` |
| `task.cancel()` at any await | `Cancel` |
| end of `with lock`, the `finally` clause | `Unlock`, `Close` |
| `before_commit` hook, when the unit holds the SQLite writer | `CommitReserved`, one step |
| the same hook in a unit with nothing flushed yet, and on PostgreSQL | `CheckFence`, then `FlushAndCommit` |
| a process that dies | `Crash` |

Time is in units of the instance; backoff is "at once or later". The lease
services of the two databases behave alike on reachable rows and are one model.

### BeatClaims and Narrative

A worker executes an activity; the id of the activity is the `claim_run_id` of
its claims. After a crash or a lost lease another worker resumes the activity
from its checkpoint, under the same id and possibly beside the first. The calls
of one activity get the time it started as `now` (`run_started_at`); renewals of
a claim use the clock. An action is one transaction.

| Code | Model |
|---|---|
| `prepare_routine_activity`: close what elapsed, choose a tick or the open beat, claim beat and events | `Begin`, `Assemble`, `ClaimBeat`, `ClaimEvent`, or `GiveUp` |
| the lane freezes what it prepared (`_load_sync`) | `Freeze` |
| `restore_prepared` of a checkpoint | `Resume` |
| guard of each stage, with `reclaim_frozen_beat` and the renewal | `Guard` |
| `publish_routine_activity`: post, execution and `complete_activity_beat` in one transaction, whose answer may be lost; or the post is there already | `Publish`, `Reuse` |
| a refused publication, a provider that failed | `Fails`, then `FinishFailed` (`_finish_failed_beat`: back to pending, or failed) |
| `close_elapsed_dayparts`, at the start of a run and by the scheduler | `CloseElapsed` in `Begin` and `Reconcile` |

Preparations are synchronous and drained when cancelled, so an activity has at
most one (`Free`); generation is not, and two workers may be at it under one id.
`posts` is the published story; `claimant` is history. `Narrative` promises of
the posts that a tick is told once and an event taken up once.

### MemoryRuns and MemoryLedger

One memory scope, and the maintenance loop of every life of the backend. A lease
token (a uuid4 of the claim) is written as the process that holds it, which is
the same because a process holds one claim at most.

| Code | Model |
|---|---|
| receipt admitted with the effect of its activity | `Admit` |
| `record_activation` | `Switch` |
| `request_run` (manual, scheduled, quit, recheck) | `RequestRun` |
| `command`: cancel, resume, close; `discard` | `CancelRun`, `ResumeRun`, `CloseRun`, `Discard` |
| `candidate`; `MaintenanceSlot.acquire`, `release`, `proven_inactive` | `Select`; `Acquire`, `Release`, `ReleaseFails`, `ProvenInactive` |
| `claim_run`, `prepare_page`, `apply_page` | `Claim`, `Prepare`, `Apply` |
| a prepared page that is stale; a lost claim; an exception; contention, recorded or not | `Stale`, `LoseClaim`, `Fail`, `Busy`, `BusyUnrecorded` |
| chat takes precedence (`chat_is_active`) | `Yield` |
| `pause`, the fence of a shutdown (which may fail), the end of the process | `Quit`, `Fence`, `Exit`, `Crash` |
| thirty seconds pass | `Expire` |

A scheduled run stops at the last receipt captured when it was due and leaves out
those before it that were captured later (`late`, the condition on `cutoff_at`).
`captured_at` is the clock of the process that admits, the sequence is the table's:
where admissions run side by side or the clock is set back they may disagree, so
the model allows any disagreement.

What a page decides for its receipt (`Decisions`) depends on the manifest, the
activation and the memories there are; all that the model keeps of these is
which decisions remain possible. `MemoryLedger` promises that a receipt ends as
a memory, is refused or dropped, and that what is kept or dropped stays so.

### WorldErasure

One world with the writers it has at the time, the deletion request, its journal
and its workers. An epoch is written as the worker that claimed it.

| Code | Model |
|---|---|
| triggers of `install_fences` | guards of `Insert` and `Activate`; `Settle` is still allowed |
| writers that load early and write late (graph commands, checkpoints) | `Take`, `Write`; `Index` writes in the transaction that checks its row |
| received provider results; files | `Receive`; `Produce`, `Share`, `Occupy` |
| `accept`, `retry` | `Accept`, `Retry` |
| `_claim`, `require_lease` at the start of every transaction | `Claim`, `HasLease`, `Lost` |
| `close_world` of the result journal | `CloseResults` |
| `clean_step`: choose an item; unlink a file, or check the lease, carry out the effect, acknowledge | `Choose`, `Unlink`, `CheckLease`, `Effect`, `Ack` |
| `_advance` by stage: `drain`, `collect`, `purge`, `verify` | `Advance` with `Drain`, `Collect`, `Purge`, `Clean`, `Verify` |
| `_record_failure`, contention, a failed effect | `Charged`, `Busy`, `EffectFails` |
| the lease, the next attempt and the drain deadline on the clock | `Expire`, `Due`, `Overdue` |

A page of the code has 100 rows, one of the model one row.

## 3. Runs

Deadlock is not checked in any run: every one of these systems may stop, a chat when
nobody writes, a scheduler when all its runs have ended, an erasure when it is
complete; and the bounds stop the clock.

| Run (module, `.cfg`) | Instance | Shows |
|---|---|---|
| response_lifecycle (`MCResponseLifecycle`, `Calls`) | 2 requests of 1 slot, 2 tokens, lease generations to 2, clock to 2, any stale fence | `AnsweredOnce`, `NewestAttemptOnly`, `AnswerIffCommitted`, `AnswerByNewestLease`, `TerminalImmutable`, `OnlyLiveProgress`, `ImplementsSlot`: an attempt and its retry, whoever calls with whatever fence |
| chat_conversation (`MCChatGeneration`, `Conversation`) | 3 requests, 2 streams, 1 thread, 3 keys | `OneWriter`, `LogAgreesWithRow`, `ToldTruth`, `HolderCanFail`, `SentOnce`, `ImplementsConversation`: a question, its retry and the next question, two streams in competition (several threads in the proofs) |
| chat_settles (`Settles`) | 2 threads, 2 requests, 1 stream, a batch of 1, fair | `EveryRequestSettles`: also when a read of one thread recovers the other, and only that |
| scheduler_leases (`MCScheduler`, `Leases`) | 2 hosts, clock to 2, TTL and interval 2, 2 commits, a cancellation, a clock set back | `WindowOnce`, `EpochHasOneOwner`, `CommitsFollowEpochs` |
| scheduler_handover (`Handover`) | 3 runs, one lock, TTL 3, margin 1, clock to 5, a lost call, a crash | `ReadyMeansHeld`, `OneTickAtATime` |
| beat_story (`MCBeatClaims`, `Story`) | 2 workers, 2 activities, 1 item with 2 ticks, 1 event, lease 1, clock to 2, fair | `OpenBeatIsCurrent`, `LatestClaimPublishes`, `SourcesApplied`, `ImplementsNarrative`, `BeatsEnd` |
| memory_runs (`MCMemoryRuns`, `Apply`) | 2 lives of a backend, 2 receipts, 2 runs, 2 events, fair | `OneMemoryEach`, `OneTurn`, `LateResultsRefused`, `NothingLeftBehind`, `FailedRangeHeld`, `ImplementsLedger`, `RunsSettle` |
| world_erasure (`MCWorldErasure`, `Erase`) | 2 workers, a chain of 3 rows with a graph, a checkpoint, a vector and a file copy, 1 event, fair | `CompletedMeansErased`, `AckedStaysErased`, `OthersFilesKept`, `ErasureEnds` |
| chat_failure, scheduler_release, memory_turn, world_circle | the smallest that show it | disagreements, section 6 |

Every property of a passing run has a mutant in `PROJECT.json`: a plausible
error in the code (a guard dropped, the wrong column, a state overlooked) with
which TLC finds that property violated in the same run. The operators marked
as variants in the modules are those errors; nothing else uses them.
In `response_lifecycle` the types, the row shape (`Shape`) and `CancelIsFinal`
are not checked again: they are theorems.

*Why the bounds are enough.*

- Requests meet as attempts of one slot (parent and child), as requests of one
  thread (an answered or stopped one, and its successor), and in a recovery: a
  batch of one (100 in the code) with two requests expired is a backlog that one
  read does not clear. A retry of a retry is in chat_conversation, and any number of
  attempts in the proofs. The clock needs one value before, one at and one after
  an expiry. Lease generation 2 is a lease and one renewal: a fence may be
  behind, and the newest. One route state stands for the five, which differ in
  nothing but the branch through `optional_retrieving`; `canonical_planning` has
  that branch. One delta shows an event between the first and the last.
- A second runner shows takeover; a third shows a hand-over to a run that has
  itself to hand over. `ReadyMeansHeld` is checked with a clock that only goes
  on: readiness compares a proof with a clock, and a clock set back makes any
  such proof wrong.
- Two ticks of one item make a beat and its successor; two workers make a claim
  and its takeover, or a run and its resumed copy; clock 2 is past the item. One
  event is claimed by both activities. A second item would add only that its
  beats are independent of the first's, except that closing may close both.
- Two receipts make a range with a part before and a part after the cursor, and
  two runs a failed run and one that overlaps it. Two lives make an owner of the
  slot and its successor, or a second backend beside the first.
  `MaxEvents` of 2 lets any two of the commands, faults and failures combine;
  `MaxStale` and `MaxRounds` are 2 for 3, so each limit is reached. `MemoryRunsProofs`
  shows the safety properties for all bounds.
- Three rows in a chain make a row that must wait for two others, so the cursor
  of the purge moves and comes back; the middle one has a checkpoint, a file
  and work in progress, the others a copy in each other store. Two workers make
  a worker that lost its lease in an effect beside its successor. One event is
  any one of: a failure, contention, a crash, an effect longer than its lease, a
  retry. `MaxFailures` is 2 for 3.

## 4. Fairness

Each fair specification states what the program does by itself, never that a
caller, a provider or an owner acts.

- `chat_settles`: `WF_vars(Tick)`: time passes. `WF_vars(StatusRead(r))`: while a
  thread is open `world-chat.tsx` reads the status of its request every 750 ms,
  so a read that could recover it is made in the end. Nothing is assumed of the
  streams: `Abandon` is always allowed and no stream need go on. Without an open
  thread nothing recovers a request (no background task does); it is then also
  nobody who waits.
- `beat_story`: time passes, and `Reconcile` happens when a daypart has elapsed:
  each tick of the scheduler calls it before any run. Workers owe nothing;
  a beat ends even if every run dies.
- `memory_runs`: a running process goes on with its loop (`Turn`), a shutdown
  fences and exits, a backend is started while none runs, and leases run out.
  Commands and faults are not fair. `RunsSettle` excludes two states: `Wedged`
  (section 6) and that no backend is left.
- `memory_turn` adds `SF_vars(Fence(p))`: the shutdown makes at most eight rounds
  of maintenance and then fences, whatever becomes of the rounds. Without it the
  run could blame the shutdown for not ending.
- `world_erasure`: ticks of a living worker follow one another, a lease without a
  worker runs out, the next attempt becomes due and the five minutes of a drain
  pass. The work in progress of the world need not settle: the request then
  fails, after its deadline and the counted failures, and waits for its owner.

## 5. Proofs

### ResponseLifecycleProofs

Of `ResponseLifecycle`, for any sets of
requests, slots and tokens, any bounds and any stale fences:

| Theorem | Says |
|---|---|
| `Invariance` | `Spec => []IInv` |
| `TypeCorrect`, `ShapeCorrect` | types; no call leaves a row the CHECK constraints refuse, nor a working row without owner |
| `NewestAttemptCorrect` | only the newest attempt of a slot is alive or has the answer |
| `AnsweredOnceCorrect` | a slot is answered at most once |
| `AnswerIffCommittedCorrect` | answers and committed rows correspond |
| `AnswerByNewestLeaseCorrect` | an answer is written under the last lease generation granted |
| `TerminalImmutableCorrect` | no step changes a request that has ended |
| `OnlyLiveProgressCorrect` | without a live lease a request keeps its state or ends without an answer |
| `CancelIsFinalCorrect` | no attempt follows an explicit cancellation |

They rest on the assumptions of the modules only: NULL is not a request or a
token (`NullAssumption`), the bounds are numbers, `RecoveryLimit` positive and
stale fences expect active states (`BoundsAssumption`).

`AnsweredOnce` is not inductive. A second answer needs two rows of one slot that
are not both ended, and what rules that out is how attempts are numbered. The
invariant is

    IInv == TypeOK /\ Shape /\ Lineage /\ Answers

- `Lineage`: the attempts of a slot are numbered 1, 2, ... without repetition
  (`UniqueAttempt`, from the UNIQUE constraint) and without gap (`NoGap`), and
  every attempt but the newest has ended, without an answer, retryable
  (`NewestAttemptOnly`). A new attempt n+1 is admitted only if its parent n is
  ended and open to retry; were there an attempt beyond n, the absence of gaps
  gives an attempt n+1, which the UNIQUE constraint refuses.
- `Answers`: message i belongs to the committed row that names it, with its slot
  and lease generation, and every committed row names its message.

Two messages of one slot then belong to two committed rows of one slot, which by
`NewestAttemptOnly` have one attempt number, so are one row, which names one
message.

Every call but `create_request` and `finalize_response` only lets active rows
*evolve* into well-formed rows that are not committed and keep slot and attempt.
`LEMMA EvolvePreserves` shows once that this keeps `IInv`; each of those calls
has a lemma that it evolves a row (`AcquireStep` to `RecoverStep`, put together
in `NextSteps`). `CreatePreserves` and `FinalizePreserves` treat the other two,
`NextIInv` puts the calls together.

The action properties rest on what a call may do to the row it writes (`Moves`,
shown call by call in the lemmas up to `NextMoves`): the row was new or active,
is not left both cancelled and open to retry, and without a live lease keeps its
state or ends unanswered. `CancelIsFinal` needs one more invariant
(`CancelledClosed`) and `NewestAttemptOnly`: an attempt that has a successor was
open to retry.

### ResponseSlotProofs

`SlotImplemented`: `ResponseLifecycle` implements `ResponseSlot`, for any number
of attempts. It needs no more invariant than `IInv`: by `NewestAttemptOnly` all
attempts of a slot but one are spent (`OthersSpent`), so what a slot tells is
what one row tells (`OneTells`). A new attempt begins on a spent slot
(`CreateBegins`), finalizing answers (`FinalizeAnswers`), and a row that evolves
stops or tells nothing new (`EvolveStops`).

### ChatGenerationProofs

Of `ChatGeneration`, for any threads, slots, requests, keys and streams, any terms
of leases and deadlines:

| Theorem | Says |
|---|---|
| `Invariance`, `TypeCorrect` | `Spec => []IInv`; types |
| `SingleWriter` | all events of a request come from one stream |
| `LogsAgree` | the events of a request and its row tell the same story |
| `TellsTheTruth` | what a client was told of an ending is durable |
| `HolderEnds` | a stream that fails can still end the request it leased |
| `NothingSentTwice` | a key is in the conversation once, whatever is sent again |
| `EndingsStand` | no request goes away, no deadline moves, no ended request is written |
| `ProgressNeedsLiveLease` | a request a stream works on gets on, or is answered, only under a lease in force |
| `TimeoutsAreTrue` | a request is stored as timed out only after its deadline |
| `OverdueIsFinal` | a request past its deadline stays due for recovery, whatever streams, clients and other readers do, until it ends without an answer |
| `BacklogDrains` | a status read that does not end its own request has taken a full batch off the backlog of expired requests, and a step that takes no time adds nothing to it |
| `DeadlinesComeRound` | each request falls due within the bound of the clock |

They rest on `NullAssumption` (NoToken and NoRequest are none of the tokens and
requests) and `TermsAssumption` (the terms and the batch are positive numbers, the
requests finitely many). The invariant is

    IInv == RowPart /\ RunPart /\ TellPart /\ ThreadPart /\ now \in 0 .. MaxNow

- `RowPart`: a request waits (no lease, no event), is worked on (leased once, its
  log that of the holder, with the accepted event first and no ending), or is over
  (no lease, at most one ending, last in the log and the one of its state).
- `RunPart` says what a stream knows of its request. It has leased it, and its
  record is that of the row, *or* the request is over (`Holds`): this is what makes
  the record it presents to the repository good for minutes. Two states do not
  know the last event of the row (`Unknown`): the one of a commit whose
  answer was lost, and the one before a failure is written without a workflow.
  In them the sequence of the row is one ahead of the record, which is why the
  failure is numbered from the row, read again, and not from the record
  (`HolderCanFail`). `Owns` is the converse: a lease belongs to the stream
  it names, or that stream is gone.
- `TellPart`: what was told, and what is about to be (`pending`), stands.
- `ThreadPart`: requests and messages of a thread have their keys once.

Interference is treated once. `Change` is all that a step of one stream may do to
a row as others notice: insert it, end it, or take or write it under its own
lease; `MovedRow` says that a row leased by another stream then stays or ends,
`ViewKept` and `RunsKept` that the knowledge of the others survives. There is a
lemma for each action (`PreAcquireKept` to `TickKept`).

What the clock has to do with it is a second induction on top of `IInv`. `Moved`
is all a step may do to a row as regards its deadline: insert it, end it (as timed
out only when it is late), or let it get on under a live lease, which it keeps or
gets; a lemma for each action shows that it does no more (`RowsMove`). So a request
that is overdue can do nothing but end, and no step but the clock's makes a request
expired; with `BacklogLess` (a recovery leaves the backlog less its batch) and the
library's facts about the cardinality of finite sets that gives `BacklogDrains`:
of n expired requests, no more than n divided by `RecoveryLimit` reads in a row can
leave their own request active. The invariant it needs is
`LatePart`: a stream that has set out to end its request as timed out is still
late when it does so, several steps after it compared the clock. It is so since no
step moves a deadline and the clock goes on.

### ConversationProofs

`ConversationImplemented`: `ChatGeneration` implements `Conversation`, for any
threads and any number of retries. It needs how the requests and the messages of
a thread hang together:

    TalkPart == Owned /\ OnlyLatest /\ Asked /\ Ends

a slot belongs to one thread (`Owned`) and is asked there once (`Asked`); only the
latest request of a thread may be active (`OnlyLatest`); its question, or the
answer to it, is the last message (`Ends`). The last is what an answer out of
place would break, and holds since admission looks for an active request in the
transaction that inserts one (`HasActive`).

Every step but an admission and a commit is `Quiet`: it inserts no request and no
message. A quiet step shows nothing or gives up the last questions of some
threads (`QuietGivesUp`), several at once in a recovery. Admission asks or tries
again (`AskStep`, `TryAgainStep`), a commit answers (`AnswerStep`): the request it
commits is active, so it is the latest, and its question is the last message,
unanswered (`ActiveEnds`).

### SchedulerProofs

Of `Scheduler`, for any runs, with or without a shared lock, any TTL, margin and
interval, any number of faults of each kind:

| Theorem | Says |
|---|---|
| `Invariance`, `TypeCorrect` | `Spec => []IInv`; types |
| `EachWindowOnce` | no window is begun twice |
| `OneOwnerPerEpoch` | an epoch is granted to one run |
| `NoCommitOfAnOldEpoch` | of the units that hold the writer when they check the fence, none of an old lease follows one of its successor |
| `NoSecondTick` | a run has one tick at a time, also when the tick outlives its cancellation |
| `ReadyIsNeverWrong` | a ready run whose proof has not run out holds the row, if the clock of the host is not set back |
| `ReleaseWaitsForTheTick` | a lease is given back only once its tick has settled, if no run is cancelled |

They rest on `SchedulerAssumption` (numbers; the margin is shorter than the TTL).
The invariant is

    IInv == RunPart /\ RowPart /\ WindowPart /\ GrantPart /\ CommitPart

A run writes the row in one of three ways (`LeaseSteps`): a call goes through,
whether its answer arrives or not, it releases its own lease, or it leaves the row
alone. So the histories are proved from the row, without what runs believe:
windows begun are increasing and not beyond the window of the row; grants are not
beyond its epoch, and that of an active row belongs to its owner; reserved
commits are not beyond its epoch, which never goes down.

`NoSecondTick` is inductive given `IInv`. `ReadyIsNeverWrong` needs what a run
knows: `ReadyInv` says that a ready run owns the row under its epoch and the row
expires no earlier than its proof, *or* the proof has run out (`Proved`). Time
falsifies the first only by way of the second: another run takes a row only when
it is expired, hence when the proof is. A call in flight after its run gave up
(`Land`) belongs to a run that is not ready (`FlightPart`); a lease never reaches
further than a TTL ahead (`LeasePart`), so that a renewal never shortens it.
The theorem has the hypothesis `MaxFaults.backs = 0`: with a clock set back, a
row taken over as expired meets a proof that is valid again, and the property
is false. `EachWindowOnce`, `OneOwnerPerEpoch` and `NoCommitOfAnOldEpoch` do not
need the hypothesis.

`ReleaseWaitsForTheTick` has the hypothesis `MaxFaults.cancels = 0`, and the run
scheduler_release shows that it needs it. `ReleaseInv` adds to the property that a
run with a live tick remembers it (`KidsPart`), which only a cancellation in the
last wait ends, and that the epochs of live ticks and of the row are granted ones
(`TickGrant`, `LeaseGrant`): a new tick is then under another epoch than
those given back before. Crashes, takeovers, lost calls and clocks set back are all
allowed.

### BeatClaimsProofs

Of `BeatClaims`, for any workers, activities, events and any plan of dayparts:

| Theorem | Says |
|---|---|
| `Invariance`, `TypeCorrect` | `Spec => []IInv`; types |
| `OpenBeatCurrent` | an open beat is alone and continues the state of its daypart |
| `LatestClaimPublished` | who publishes a beat was the last to claim it |
| `SourcesAgree` | beats, posts and events agree on what was taken up |
| `NarrativeImplemented` | `BeatClaims` implements `Narrative` |
| `EndedBeatsStay` | no step changes an ended beat or reactivates a closed daypart |
| `ReconcileIsSure` | an overdue open beat is always one the reconciliation selects, and it leaves none open |

They rest on `BeatAssumption`: dayparts are numbered in order and do not overlap,
the interval and the lease are positive. The invariant is

    IInv   == Tables /\ OtherTypes /\ ViewPart /\ AlonePart /\ FrozenPart
    Tables == TableTypes /\ BeatPart /\ OnePart /\ EventPart /\ PostPart

- `Tables` is what the tables say of each other: at most one beat is open; it is
  the next of its daypart, which is live; dayparts before one with a beat
  are closed; a claimed event is a source of the beat it is claimed for.
- That last sentence has an exception, and `IInv` has to carry it (`EventPart`,
  `Sourced`): an activity that takes a beat over with its last attempt claims
  the events it found itself, not those of the beat. `SourcesApplied` holds all
  the same: nobody can claim the beat from that activity any more, and it
  publishes only if the events claimed for the beat are the sources of the beat.
- `ViewPart` says of each worker what it still knows when it uses what it read
  (`View`): from assembling to claiming, that the elapsed dayparts are closed;
  generating, that its checkpoint is the beat it has in hand.
- `AlonePart`: two workers share an activity only from its checkpoint on.

Interference is treated once. `Moves(a)` is all that a step of activity `a` does
to the tables as another may notice: dayparts only close, beats keep their
sources, claims of others are not extended, and an activity that held a beat and
still holds it has kept its events. `ViewKept` shows that a view survives the
moves of others, `ActsKept` and `OthersKept` that the invariant does. What is left
is a lemma per action that it makes such a move (`BeginKept` to
`FinishFailedKept`); those that write a claim or a post share the lemmas
`RowKept`, `NewKept`, `ClosesKept`, `TakesKept` and `PublishesKept`. The refinement
is then one step: only a publication adds a post (`PublishTells`), of a tick that
had none and of events that nobody has taken up.

`EndedBeatsStay` goes through the actions again (`CloseStays` to `NextStays`): every
write to a beat is to an open one or a new one, and an open beat is in a live
daypart (`OpenAlive`). The last is also why the reconciliation, which selects by the
status of the daypart and not of the beat, overlooks no open beat.

### MemoryRunsProofs

Of `MemoryRuns`, for any processes, receipts, runs and bounds:

| Theorem | Says |
|---|---|
| `Invariance`, `TypeCorrect` | `Spec => []IInv`; types |
| `MemoriesOnce` | a receipt has one memory once it is applied, and none otherwise |
| `TurnsExclude` | two running processes are never in a turn together |
| `OnlyClaimantsMove` | only a standing claim with a prepared page moves a cursor |
| `NothingPassedOver` | a pending receipt of its range is passed over only where a failed run holds it or it came too late for the run's schedule |
| `FailedRangesKept` | no step decides a pending receipt a failed run has ahead |
| `LedgerImplemented` | `MemoryRuns` implements `MemoryLedger` |
| `CursorGoesOn` | the cursor of a run only goes on, and never past its cutoff |

They rest on `NoneAssumption` and `BoundsAssumption` (None is no process; the
limits are positive numbers). The invariant is

    IInv == ScopePart /\ ReceiptPart /\ RunPart /\ ProcPart /\ SlotPart

- `ReceiptPart`: types, and `OneMemoryEach` itself, which is inductive because
  `Decisions` looks for a memory before it applies and `Discard` before it drops.
- `RunPart`: a run that was not requested has no range, only a recheck has a
  target, a run has a token exactly while it is running, and an active run has
  rounds left. That a token means running is what makes a late result harmless:
  cancelling, fencing, failing and another claim all take the token away.
- `ProcPart`: a loop that is not idle has chosen a run and belongs to a running
  process.
- `SlotPart`: a running process in a turn is the one in the slot. This is
  `OneTurn` made inductive: an owner loses the slot only when it has stopped
  (`ProvenInactive`), or gives it back at the end of its turn.

Each part has a lemma that one step keeps it (`ScopeKept` to `SlotKept`),
with one step per group of actions. `OnlyPagesMove` shows that a cursor moves, or a
run completes, only in `Apply`; `PageDecides` what `Apply` does to the receipts,
from `BeforeWellFounded` and `FirstReceipt` (the page is the first receipt that is left);
`OneReceiptMoves` that a step moves one receipt, within the ledger. `CursorGoesOn`
follows from the first two: the page is a pending receipt beyond the cursor and not
beyond the cutoff.

### WorldErasureProofs

Of `WorldErasure`, for any rows and links, any assignment of stores, any number
of workers, failures, crashes and slow effects:

| Theorem | Says |
|---|---|
| `Invariance`, `TypeCorrect` | `Spec => []IInv`; types |
| `CompletedErased` | when the request says completed, nothing of the world is left, and nothing comes back |
| `AckedErased` | what the journal calls done is gone, and stays gone |
| `OthersKept` | no step removes a file another world shows, or one that came later |
| `ErasureOnward` | no step takes back a stage, a purged row, a fence, a collected row or a finished item |
| `ReceiptFinal` | nothing changes a completed request, its journal or its copies |
| `VerificationFindsNothing` | no erasure stops because its verification finds a row |
| `NoCircleNoStop` | rows without a circle of links are never given up for their links |

They rest on `RowsAssumption` (rows are positive numbers, finitely many; files
and jobs are rows), `NamesAssumption` and `BoundsAssumption`. The invariant is

    IInv == /\ TypeOK /\ RequestPart /\ RowPart /\ CopyPart /\ FilePart
            /\ JournalPart /\ TickPart /\ EndPart

`CompletedMeansErased` is not inductive: what it says of the end is prepared
stage by stage, and the parts say what each stage leaves behind.

- `RowPart`: after draining no row is at work, after collecting every row that is
  left is in the journal, after purging none is left; a purged row is in the
  journal until the request completes.
- `CopyPart`, `FilePart`: copies, late writes and files belong to rows that were
  there; the identity in the journal is never that of a stranger's file.
- `JournalPart`: every collected row has its items; an item that is done is gone
  *and* its store is fenced (`Gone`), one that is retained is a shared file
  (`Spared`). The fence is what a late writer runs into: without it a graph command
  loaded before the deletion breaks the invariant in one step.
- `TickPart`: a worker that is about to acknowledge an item knows it gone, whether it
  still has its lease or not. This holds since no row is left at that stage that
  could write a copy again, and the late ones are refused.
- `EndPart`: the same of everything, once completed.

The world at work is treated in `RowWorkKept`. Claims, checks, effects, failures
and crashes leave rows and journal alone (`TickKept`, from `WorldKept`); an item
that is acknowledged is in `ItemKept`; the transaction that ends a tick has a lemma
per stage over `AdvanceKept`. `NothingLeft` is the argument of the last stage:
every row was collected, so every copy and file has an item, and no item is
pending. The circle of links that stops an erasure (section 6) does not disturb
this: a stopped erasure is not a completed one.

`NoCircleNoStop` is the other side of that circle. Its hypothesis is that the rows
have an order in which each comes before those that point to it (`Ordered(rank)`;
without a circle finitely many rows have one). The row highest in it has no row
pointing to it and can always go (`Highest`, `LastRowGoes`). The purge gives up
only when its cursor has passed all pages since a row went last, and what it has
passed cannot go (`LinkPart`), so it never passes them all while a row is left.
Work in progress, failures, crashes and retries are all allowed in between.

### Left to TLC

Liveness (`EveryRequestSettles`, `BeatsEnd`, `RunsSettle`, `ErasureEnds`), which
the prover cannot do under fairness. Every other property that a passing run
checks is a theorem: the types, the safety invariants, the action
properties, and the refinements of `ResponseSlot`, `Conversation`, `Narrative` and
`MemoryLedger`.

Of three of the four, what is not a matter of fairness is proved all the same,
for any instance: that the step which is fair does the work, and that nothing
undoes it.

| Liveness | The fair step does it | It is not undone | Left |
|---|---|---|---|
| `EveryRequestSettles` | `BacklogDrains`, `DeadlinesComeRound` | `OverdueIsFinal`, `EndingsStand` | that time passes and the reads are made |
| `BeatsEnd` | `ReconcileIsSure` | `EndedBeatsStay` | that time passes and the tick reconciles |
| `ErasureEnds` | `NoCircleNoStop`, `VerificationFindsNothing`: of the ways to stop, links and leftovers are excluded | `ErasureOnward`, `ReceiptFinal` | that each stage comes to an end, a count of ticks, failures and leases |

`memory_turn` is a property of liveness too; no theorem bears on it.

## 6. Where the code and its words differ

- **chat_failure.** `docs/architecture/p8-l-j-response-generation-lifecycle.md`
  says every state mutation requires a live lease, an active deadline and no
  cancellation. `mark_terminal` requires the fence only, so a stream ends its
  request as failed after its lease ran out. What matters holds without:
  such a stream can end a request but not answer it or advance it
  (`OnlyLiveProgress` of the repository; `ProgressNeedsLiveLease`, proved of the
  streams), and only if nobody has taken the request since.
- **scheduler_release.** In `_run_fenced_tick_with_heartbeat` a comment says that
  a replacement runner is kept out until the real child work has settled. A
  second cancellation, arriving in the wait for the cancelled tick, replaces the
  exception that carries `pending_tasks`; the `finally` clause then releases the
  lease with the tick alive. Shutdown cancels twice when it is slow
  (`single_backend_components.py`). Without a cancellation the promise holds
  (`ReleaseWaitsForTheTick`, proved). What the surviving tick commits is fenced.
- **memory_turn.** `docs/architecture/maintenance-recovery-postgresql-experiment.md`
  says the maintenance turn is returned on completion, cancellation, failure or a
  wait for a later retry. It is returned by one transaction in a `finally`; when
  that runs out of contention retries, the row goes on naming a process that
  lives, which is never proven inactive, and no process gets a turn again until
  this one ends.
- **world_circle.** The docstring of `_unlink_owned_references` says it breaks
  nullable foreign key cycles. It cuts the links of the row about to be deleted,
  inside the savepoint of that deletion; the row of the other link still points
  at it, the deletion fails and the cut is rolled back. A published beat and its
  post are such a cycle (`activity_beats.source_post_id`,
  `posts.activity_beat_id`): the request fails for its links, as often as it is
  retried. Rows without such a cycle are never given up for their links
  (`NoCircleNoStop`, proved).

Other behaviours met while modelling, which no text contradicts or which lie
outside what a run shows:

- *Chat.* A client that disconnects in `committing`, or while `acquire_lease`
  drains, leaves the request to its deadline, during which the thread admits
  nothing; a failure after the commit (memory proposal, diagnostics) ends the
  stream without a terminal event though the answer is stored, and the next
  stream replays it.
- *Scheduler.* The `before_commit` hook reads the lease before the flush takes the
  writer (and on PostgreSQL in the snapshot of the unit), so a takeover between
  the read and the commit is not seen by a unit that had flushed nothing
  (`FlushAndCommit`). `CommitsFollowEpochs` is therefore stated of commits that
  hold the writer (`CommitReserved`).
- *Beats.* A beat whose two attempts went to runs that crashed stays open until its
  daypart closes, and with it the episode. `reclaim_frozen_beat` does not claim
  the released events of the beat again, so such a publication is refused by
  `source_event_claim_mismatch`. The posts of an episode are in no promised
  order: on PostgreSQL a run that assembled its context before another published
  can publish an older tick after it, so `Narrative` promises none.
- *Memory.* Resuming a run does not look whether another is active, so two may
  be; their claims still exclude each other page by page. A failed recheck also
  holds the pending receipts of its range; receipts that were passed over because a
  failed run held them wait, once that run is closed or completes without them, for a
  later request, and so does a receipt that has a sequence before the cutoff of a
  scheduled run but was captured after the run was due. `pause()` that cancels an `acquire` in flight loses the token, so the
  slot stays with the process until it ends. An owner on another host is never
  proven inactive.
- *Erasure.* An effect that always takes longer than its lease of 30 s is repeated
  without a counted failure; a failure counter is not reset by progress, nor the
  drain deadline by a retry. `cleanup_effects.py` line 1 speaks of no automatic
  effect replay: an effect whose acknowledgement was lost is carried out
  again, which is harmless as each is idempotent.

## 7. Not modelled, and why

- In the chat: what lies between two units (retrieval, providers, evidence,
  memory proposals), as no row of the lifecycle depends on more than whether it
  went on; authorisation and scope checks; image attachments; the order by
  `updated_at` in a recovery. The clock of the chat does not go back.
- In the scheduler: length of backoff and drain; the state listener; other
  components in the shutdown. A run that finds the process lock held fails at
  once. The fraction of a second that SQLite's clock drops is below the unit of
  time.
- In routine activity: day plans are given; the manual inbox, joint activities and
  the upgrade of episode states are left out; `recover_expired_claims`,
  `interrupt_inactive_world_character`, `release_event_consumption` and
  `reject_event_consumption` have no caller in the program.
- In memory maintenance: relationship rounds, which take the same slot; when a
  schedule is due (a run may be requested at any time); idempotency keys of requests; unsupported validation revisions
  and the rows of recheck attempts; the older consolidation queue
  (`queue.py`, `batch.py`), which no production caller selects.
- In world deletion: the `origin` items, slots and the scrubbing of the world's
  root row; the status of public action executions; the fences on the
  PostgreSQL side of checkpoints, which are not compared with those of SQLite;
  image jobs count as one kind of work in progress.
- In the graph projection: outbox claims and the rebuild, which has no production
  caller.
- The components with status `not_modelled` in `PROJECT.json`, for the reasons
  given there. Most of the code outside the components of section 1 is prompt
  building, parsing, record keeping in single transactions, user interface and
  build tooling: sequential code with no state shared between actors.

## 8. Plan

Done: the chat core and the chat processes, the scheduler, the beats, the memory
runs and the erasure of a world, each with its proofs. Next:

1. `GraphProjection` (outbox claims, worker): ordered application under claims;
   abstractly, the projection is the fold of a prefix of the events.
2. `DatabaseUnit` (`sqlite_concurrency.py`, `postgresql_concurrency.py`): retry
   loop, deadline, unknown outcome; abstractly, the atomic unit all other modules
   assume.
3. `ResidentSlots`, then `JointActivities` on top of `BeatClaims`; media quota and
   login throttle, if they earn it.
4. Liveness: a scheduler whose calls succeed again becomes ready again, which
   needs a clock without a bound.
