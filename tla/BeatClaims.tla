----------------------------- MODULE BeatClaims -----------------------------
(* The beats of a character's routine: rows of activity_beats and            *)
(* activity_event_consumptions, claimed, published, released and closed by   *)
(* domains/routines/service/execution, and the runs that call it             *)
(* (runtime/routine_posts/sqlalchemy_runtime.py and                          *)
(* runtime/autonomous_activity/routine.py, routine_resume.py).               *)
(*                                                                           *)
(* A worker executes an activity, whose id is the claim_run_id; after a      *)
(* crash or a lost lease another worker resumes the activity from its        *)
(* checkpoint, under the same id and possibly beside the first.  Every call  *)
(* gets the time its worker started (run_started_at) as now, renewals get    *)
(* the clock.  Each action is one transaction.  A plan of one character is   *)
(* given; the text of a post, the manual inbox and joint activities are left *)
(* out, and the events a context selects are any that are not blocked.       *)
EXTENDS Integers, Sequences, FiniteSets

CONSTANTS
    Workers,
    Activities,  \* the ids of activities (ActivityGraphRun)
    NoRun,       \* NULL claim_run_id
    Events,      \* events of other characters
    Episodes,    \* 1 .. n, one per item of the plan, in the order of the day
    ItemStart,   \* scheduled_start_at and scheduled_end_at of the items
    ItemEnd,
    Interval,    \* activity_interval_minutes
    Lease,       \* CLAIM_LEASE
    MaxNow       \* bound on the clock

ASSUME BeatAssumption ==
    /\ NoRun \notin Activities
    /\ IsFiniteSet(Episodes) /\ Episodes = 1 .. Cardinality(Episodes)
    /\ {ItemStart, ItemEnd} \subseteq [Episodes -> Nat]
    /\ \A p \in Episodes : ItemStart[p] < ItemEnd[p]
    /\ \A p, q \in Episodes : p < q => ItemEnd[p] <= ItemStart[q]
    /\ {Interval, Lease} \subseteq Nat \ {0}
    /\ MaxNow \in Nat

VARIABLES
    episode,      \* the episodes; their items have the same status
    beat,         \* activity_beats, by scheduled_for
    consumption,  \* activity_event_consumptions, by source event
    worker,
    frozen,       \* the beat of an activity's checkpoint
    ended,        \* activities that are not resumed any more
    posts,        \* the posts published, each with its execution signature
    claimant,     \* history: who claimed a beat last
    now

vars == <<episode, beat, consumption, worker, frozen, ended, posts, claimant, now>>

NoTick == -1
MaxAttempts == 2

TicksOf(p) == {t \in ItemStart[p] .. ItemEnd[p] - 1 : (t - ItemStart[p]) % Interval = 0}
Ticks == UNION {TicksOf(p) : p \in Episodes}
EpisodeOf(t) == CHOOSE p \in Episodes : t \in TicksOf(p)

NoBeat == [status |-> "none", run |-> NoRun, expiry |-> 0, attempts |-> 0, seq |-> 0,
           previous |-> NoTick, sources |-> {}]
Unclaimed == [status |-> "none", run |-> NoRun, expiry |-> 0, beat |-> NoTick]
Idle == [pc |-> "idle", run |-> NoRun, started |-> 0, tick |-> NoTick, sources |-> {},
         todo |-> {}, retryable |-> FALSE]

OpenStatus == {"pending", "claimed"}
Live == {"planned", "active"}
Open(t) == beat[t].status \in OpenStatus

Init ==
    /\ episode = [p \in Episodes |-> [status |-> "planned", last |-> NoTick, next |-> 1]]
    /\ beat = [t \in Ticks |-> NoBeat]
    /\ consumption = [e \in Events |-> Unclaimed]
    /\ worker = [w \in Workers |-> Idle]
    /\ frozen = [r \in Activities |-> NoTick]
    /\ ended = {}
    /\ posts = <<>>
    /\ claimant = [t \in Ticks |-> NoRun]
    /\ now = 0

----------------------------------------------------------------------------
(* The rows.  Operators marked Variant are forms a change of the code could  *)
(* give the definition that follows them; each breaks a property of some run.*)

BeatsOf(p) == {t \in TicksOf(p) : beat[t].status # "none"}

(* order_by scheduled_for desc, limit 1 *)
LatestBeat(p) == IF BeatsOf(p) = {} THEN NoTick
                 ELSE CHOOSE t \in BeatsOf(p) : \A u \in BeatsOf(p) : u <= t

(* current_item *)
CurrentEpisode(time) ==
    {p \in Episodes : /\ ItemStart[p] <= time /\ time < ItemEnd[p]
                      /\ episode[p].status \in Live}

(* latest_due_tick *)
DueTicks(p, time) ==
    LET latest == time - ((time - ItemStart[p]) % Interval)
    IN  IF LatestBeat(p) = NoTick \/ LatestBeat(p) < latest THEN {latest} ELSE {}

Expired(row, time) == row.expiry <= time

(* A row that a run holds a claim on. *)
HeldBy(row, r) == row.status = "claimed" /\ row.run = r

(* Variant: the sequence number of an open beat is given once more. *)
SeqReused(p) == TRUE

(* UNIQUE (episode_id, sequence_no) *)
SeqFree(p) == \A t \in BeatsOf(p) : beat[t].seq # episode[p].next

(* Events blocked by their consumption: blocked_event_ids *)
Blocked(e, time) ==
    \/ consumption[e].status = "applied"
    \/ consumption[e].status = "claimed" /\ ~Expired(consumption[e], time)

(* The rows when the claims on these events are undone, with their target. *)
Released(undone) ==
    [e \in Events |-> IF e \in undone THEN [Unclaimed EXCEPT !.status = "released"]
                      ELSE consumption[e]]

(* Variant: only the items that became active are closed. *)
ElapsedActive(time) == {p \in Episodes : ItemEnd[p] <= time /\ episode[p].status = "active"}

(* The items close_elapsed_dayparts selects. *)
Elapsed(time) == {p \in Episodes : ItemEnd[p] <= time /\ episode[p].status \in Live}

(* close_elapsed_dayparts and _close_open_beat_claims *)
CloseElapsed(time) ==
    LET closing == {t \in Ticks : EpisodeOf(t) \in Elapsed(time) /\ Open(t)}
    IN  /\ episode' = [p \in Episodes |->
                         IF p \notin Elapsed(time) THEN episode[p]
                         ELSE [episode[p] EXCEPT !.status =
                                  IF @ = "active" THEN "completed" ELSE "cancelled"]]
        /\ beat' = [t \in Ticks |->
                      IF t \notin closing THEN beat[t]
                      ELSE [beat[t] EXCEPT !.status = "cancelled", !.run = NoRun, !.expiry = 0]]
        /\ consumption' = Released({e \in Events : /\ consumption[e].status = "claimed"
                                                 /\ consumption[e].beat \in closing})

----------------------------------------------------------------------------
(* A run: prepare_routine_activity.                                          *)

Step(w, pc) == worker' = [worker EXCEPT ![w].pc = pc]

(* The activity of a worker ends with it. *)
Finish(w) ==
    /\ worker' = [worker EXCEPT ![w] = Idle]
    /\ ended' = ended \cup {worker[w].run}

(* A preparation is one synchronous stretch, drained when it is cancelled: no *)
(* one else takes up the activity before it is over.                          *)
Free(r) == \A v \in Workers : worker[v].run = r => worker[v].pc = "generate"

(* An activity without a checkpoint starts from the beginning. *)
Begin(w, r) ==
    /\ worker[w].pc = "idle"
    /\ r \notin ended /\ frozen[r] = NoTick
    /\ Free(r)
    /\ worker' = [worker EXCEPT ![w] = [Idle EXCEPT !.pc = "assemble", !.run = r, !.started = now]]
    /\ CloseElapsed(now)
    /\ UNCHANGED <<frozen, ended, posts, claimant, now>>

(* assemble_routine_post_context: an open beat is retried with the sources it *)
(* has, unless someone has a claim on it; else the newest due tick is taken.  *)
Assemble(w) ==
    LET time == worker[w].started
        fresh(p) == /\ LatestBeat(p) # NoTick => ~Open(LatestBeat(p))
                    /\ \E t \in DueTicks(p, time),
                          sources \in SUBSET {e \in Events : ~Blocked(e, time)} :
                          worker' = [worker EXCEPT ![w].pc = "claim", ![w].tick = t,
                                                   ![w].sources = sources]
        retry(p) == LET t == LatestBeat(p)
                    IN  /\ t # NoTick /\ Open(t)
                        /\ beat[t].status = "claimed" => Expired(beat[t], time)
                        /\ worker' = [worker EXCEPT ![w].pc = "claim", ![w].tick = t,
                                                    ![w].sources = beat[t].sources]
    IN  /\ worker[w].pc = "assemble"
        /\ \E p \in CurrentEpisode(time) : fresh(p) \/ retry(p)
        /\ UNCHANGED <<episode, beat, consumption, frozen, ended, posts, claimant, now>>

(* RoutineContextUnavailable, and whatever else ends a run before its claim; *)
(* a claim that is refused.  What claim_activity_beat did to a beat whose     *)
(* attempts are used up stays in the session, and may be flushed with it.     *)
GiveUp(w) ==
    LET t == worker[w].tick
    IN  /\ worker[w].pc \in {"assemble", "claim"}
        /\ Finish(w)
        /\ \/ UNCHANGED beat
           \/ /\ worker[w].pc = "claim" /\ episode[EpisodeOf(t)].status \in Live
              /\ beat[t].status = "claimed" /\ Expired(beat[t], worker[w].started)
              /\ beat[t].attempts >= MaxAttempts
              /\ beat' = [beat EXCEPT ![t].status = "pending", ![t].run = NoRun, ![t].expiry = 0]
        /\ UNCHANGED <<episode, consumption, frozen, posts, claimant, now>>

(* Variant: the attempts of a beat are not counted. *)
ReclaimableAlways(t, time) ==
    /\ episode[EpisodeOf(t)].status \in Live
    /\ \/ beat[t].status = "pending"
       \/ beat[t].status = "claimed" /\ Expired(beat[t], time)

(* claim_activity_beat on an existing row, at the time given *)
Reclaimable(t, time) ==
    /\ episode[EpisodeOf(t)].status \in Live
    /\ beat[t].attempts < MaxAttempts
    /\ \/ beat[t].status = "pending"
       \/ beat[t].status = "claimed" /\ Expired(beat[t], time)

Claim(row, r, expiry) ==
    [row EXCEPT !.status = "claimed", !.run = r, !.expiry = expiry, !.attempts = @ + 1]

NewBeat(w) ==
    LET p == EpisodeOf(worker[w].tick)
    IN  [NoBeat EXCEPT !.seq = episode[p].next, !.previous = episode[p].last,
                       !.sources = worker[w].sources]

ClaimBeat(w) ==
    LET t == worker[w].tick
        r == worker[w].run
        time == worker[w].started
    IN  /\ worker[w].pc = "claim"
        /\ episode[EpisodeOf(t)].status \in Live
        /\ \/ /\ beat[t].status = "none" /\ SeqFree(EpisodeOf(t))
              /\ beat' = [beat EXCEPT ![t] = Claim(NewBeat(w), r, time + Lease)]
           \/ /\ Reclaimable(t, time)
              /\ beat' = [beat EXCEPT ![t] = Claim(@, r, time + Lease)]
           \/ HeldBy(beat[t], r) /\ ~Expired(beat[t], time) /\ UNCHANGED beat
        /\ claimant' = [claimant EXCEPT ![t] = r]
        /\ worker' = [worker EXCEPT ![w].pc = "events", ![w].todo = worker[w].sources]
        /\ UNCHANGED <<episode, consumption, frozen, ended, posts, now>>

(* Variant: an event that was applied to a beat may be claimed for another. *)
MayClaimApplied(e, t, r, time) ==
    /\ HeldBy(beat[t], r)
    /\ consumption[e].status = "claimed" /\ ~Expired(consumption[e], time)
       => consumption[e].run = r /\ consumption[e].beat = t

(* claim_event_consumption does not raise *)
MayClaimEvent(e, t, r, time) ==
    /\ consumption[e].status # "applied"
    /\ HeldBy(beat[t], r)
    /\ consumption[e].status = "claimed" /\ ~Expired(consumption[e], time)
       => consumption[e].run = r /\ consumption[e].beat = t

ClaimEvent(w, e) ==
    LET t == worker[w].tick
        r == worker[w].run
        time == worker[w].started
    IN  /\ worker[w].pc = "events" /\ e \in worker[w].todo
        /\ worker' = [worker EXCEPT ![w].todo = @ \ {e},
                                    ![w].pc = IF MayClaimEvent(e, t, r, time) THEN @ ELSE "fail"]
        /\ IF MayClaimEvent(e, t, r, time) /\ ~(HeldBy(consumption[e], r) /\ ~Expired(consumption[e], time))
           THEN consumption' = [consumption EXCEPT ![e] =
                    [status |-> "claimed", run |-> r, expiry |-> time + Lease, beat |-> t]]
           ELSE UNCHANGED consumption
        /\ UNCHANGED <<episode, beat, frozen, ended, posts, claimant, now>>

(* The claims are durable: the lane freezes what it prepared, and generates. *)
Freeze(w) ==
    /\ worker[w].pc = "events" /\ worker[w].todo = {}
    /\ Step(w, "generate")
    /\ frozen' = [frozen EXCEPT ![worker[w].run] = worker[w].tick]
    /\ UNCHANGED <<episode, beat, consumption, ended, posts, claimant, now>>

----------------------------------------------------------------------------
(* A run from its checkpoint on: resumption, guard, publication, failure.    *)

(* reclaim_frozen_beat: for its own activity, at the time of the clock *)
Refreezable(t) ==
    /\ beat[t].status = "pending"
    /\ Reclaimable(t, now)
    /\ episode[EpisodeOf(t)].last = beat[t].previous
    /\ episode[EpisodeOf(t)].next = beat[t].seq
    /\ now < ItemEnd[EpisodeOf(t)]

Reclaim(t, r) ==
    /\ Refreezable(t)
    /\ beat' = [beat EXCEPT ![t] = Claim(@, r, now + Lease)]
    /\ claimant' = [claimant EXCEPT ![t] = r]

(* restore_prepared; an activity whose beat is gone is not resumed *)
Resume(w, r) ==
    LET t == frozen[r]
    IN  /\ worker[w].pc = "idle"
        /\ r \notin ended /\ t # NoTick
        /\ Free(r)
        /\ \/ /\ Reclaim(t, r)
              /\ UNCHANGED ended
           \/ /\ beat[t].status = "succeeded" \/ HeldBy(beat[t], r)
              /\ UNCHANGED <<beat, claimant, ended>>
           \/ /\ ~Refreezable(t) /\ beat[t].status # "succeeded" /\ ~HeldBy(beat[t], r)
              /\ ended' = ended \cup {r}
              /\ UNCHANGED <<beat, claimant>>
        /\ worker' = IF r \in ended' THEN worker
                     ELSE [worker EXCEPT ![w] = [Idle EXCEPT !.pc = "generate", !.run = r,
                              !.started = now, !.tick = t, !.sources = beat[t].sources]]
        /\ UNCHANGED <<episode, consumption, frozen, posts, now>>

(* The guard of a stage: a pending beat is claimed again, a claim renewed,   *)
(* and a run that lost it ends (routine_claim_lost).                         *)
Guard(w) ==
    LET t == worker[w].tick
        r == worker[w].run
    IN  /\ worker[w].pc = "generate"
        /\ \/ Reclaim(t, r) /\ UNCHANGED <<worker, ended>>
           \/ /\ HeldBy(beat[t], r)
              /\ beat[t].expiry < now + Lease
              /\ beat' = [beat EXCEPT ![t].expiry = now + Lease]
              /\ UNCHANGED <<worker, ended, claimant>>
           \/ /\ ~Refreezable(t) /\ ~HeldBy(beat[t], r) /\ beat[t].status # "succeeded"
              /\ Finish(w)
              /\ UNCHANGED <<beat, claimant>>
        /\ UNCHANGED <<episode, consumption, frozen, posts, now>>

Published(t) == \E i \in DOMAIN posts : posts[i].tick = t

(* Variant: a beat is completed by whoever generated for it. *)
HeldByAny(t, w) == beat[t].status = "claimed"

(* complete_activity_beat: the claim is that of this run *)
ClaimIsMine(t, w) ==
    HeldBy(beat[t], worker[w].run) /\ ~Expired(beat[t], worker[w].started)

(* Variant: the claims on the sources are not looked at again. *)
AnySources(t, w) == TRUE

(* source_event_claim_mismatch is not raised *)
SourcesClaimed(t, w) ==
    beat[t].sources = {e \in Events : consumption[e].beat = t
                                      /\ HeldBy(consumption[e], worker[w].run)}

CanComplete(t, w) ==
    /\ ClaimIsMine(t, w)
    /\ beat[t].previous = episode[EpisodeOf(t)].last
    /\ SourcesClaimed(t, w)

(* publish_routine_activity: a post, its execution and the completion of the *)
(* beat in one transaction, whose answer may be lost; or the post is there.  *)
Publish(w) ==
    LET t == worker[w].tick
        p == EpisodeOf(t)
    IN  /\ worker[w].pc = "generate"
        /\ ~Published(t) /\ CanComplete(t, w)
        /\ posts' = Append(posts, [tick |-> t, sources |-> worker[w].sources, run |-> worker[w].run])
        /\ beat' = [beat EXCEPT ![t].status = "succeeded", ![t].run = NoRun, ![t].expiry = 0]
        /\ episode' = [episode EXCEPT ![p] =
                          [status |-> "active", last |-> t, next |-> beat[t].seq + 1]]
        /\ consumption' = [e \in Events |->
                             IF consumption[e].beat = t
                             THEN [status |-> "applied", run |-> NoRun, expiry |-> 0, beat |-> t]
                             ELSE consumption[e]]
        /\ Finish(w) \/ (Step(w, "fail") /\ UNCHANGED ended)
        /\ UNCHANGED <<frozen, claimant, now>>

Reuse(w) ==
    /\ worker[w].pc = "generate" /\ Published(worker[w].tick)
    /\ Finish(w)
    /\ UNCHANGED <<episode, beat, consumption, frozen, posts, claimant, now>>

(* The transaction is refused or fails, or the provider failed before it. *)
Fails(w, retryable) ==
    /\ worker[w].pc = "generate" /\ ~Published(worker[w].tick)
    /\ worker' = [worker EXCEPT ![w].pc = "fail", ![w].retryable = retryable]
    /\ UNCHANGED <<episode, beat, consumption, frozen, ended, posts, claimant, now>>

(* The claims release_activity_beat_for_retry and fail_activity_beat release *)
Mine(row, w) == HeldBy(row, worker[w].run) /\ row.beat = worker[w].tick

(* fail_activity_beat: the ordinal advances past the failure *)
NextAfterFailure(t) ==
    LET next == episode[EpisodeOf(t)].next IN IF next > beat[t].seq THEN next ELSE beat[t].seq + 1

(* _finish_failed_beat; without the claim it does nothing *)
FinishFailed(w) ==
    LET t == worker[w].tick
    IN  /\ worker[w].pc = "fail"
        /\ IF ~HeldBy(beat[t], worker[w].run) THEN UNCHANGED <<episode, beat, consumption>>
           ELSE /\ consumption' = Released({e \in Events : Mine(consumption[e], w)})
                /\ IF worker[w].retryable /\ beat[t].attempts < MaxAttempts
                   THEN /\ beat' = [beat EXCEPT ![t].status = "pending", ![t].run = NoRun,
                                                ![t].expiry = 0]
                        /\ UNCHANGED episode
                   ELSE /\ beat' = [beat EXCEPT ![t].status = "failed", ![t].run = NoRun,
                                                ![t].expiry = 0]
                        /\ episode' = [episode EXCEPT ![EpisodeOf(t)].next = NextAfterFailure(t)]
        /\ Finish(w)
        /\ UNCHANGED <<frozen, posts, claimant, now>>

----------------------------------------------------------------------------
(* The process of a worker dies, or its task is cancelled. *)
Crash(w) ==
    /\ worker[w].pc # "idle"
    /\ worker' = [worker EXCEPT ![w] = Idle]
    /\ UNCHANGED <<episode, beat, consumption, frozen, ended, posts, claimant, now>>

(* reconcile_all_elapsed_routines, by each tick of the scheduler *)
Reconcile ==
    /\ Elapsed(now) # {}
    /\ CloseElapsed(now)
    /\ UNCHANGED <<worker, frozen, ended, posts, claimant, now>>

Time ==
    /\ now < MaxNow
    /\ now' = now + 1
    /\ UNCHANGED <<episode, beat, consumption, worker, frozen, ended, posts, claimant>>

Work(w) ==
    \/ \E r \in Activities : Begin(w, r) \/ Resume(w, r)
    \/ Assemble(w) \/ GiveUp(w) \/ ClaimBeat(w)
    \/ \E e \in Events : ClaimEvent(w, e)
    \/ Freeze(w) \/ Guard(w) \/ Publish(w) \/ Reuse(w)
    \/ \E retryable \in BOOLEAN : Fails(w, retryable)
    \/ FinishFailed(w) \/ Crash(w)

Next == (\E w \in Workers : Work(w)) \/ Reconcile \/ Time

Spec == Init /\ [][Next]_vars

(* The clock goes on and the scheduler ticks; workers owe nothing. *)
FairSpec == Spec /\ WF_vars(Time) /\ WF_vars(Reconcile)

----------------------------------------------------------------------------
TypeOK ==
    /\ episode \in [Episodes -> [status : Live \cup {"completed", "cancelled"},
                                last : Ticks \cup {NoTick}, next : Nat \ {0}]]
    /\ beat \in [Ticks -> [status : OpenStatus \cup {"none", "succeeded", "failed", "cancelled"},
                           run : Activities \cup {NoRun}, expiry : Nat, attempts : 0 .. MaxAttempts,
                           seq : Nat, previous : Ticks \cup {NoTick}, sources : SUBSET Events]]
    /\ \A t \in Ticks : beat[t].status = "claimed" <=> beat[t].run # NoRun
    /\ consumption \in [Events -> [status : {"none", "claimed", "released", "applied"},
                                   run : Activities \cup {NoRun}, expiry : Nat,
                                   beat : Ticks \cup {NoTick}]]
    /\ worker \in [Workers -> [pc : {"idle", "assemble", "claim", "events", "generate", "fail"},
                               run : Activities \cup {NoRun}, started : Nat,
                               tick : Ticks \cup {NoTick}, sources : SUBSET Events,
                               todo : SUBSET Events, retryable : BOOLEAN]]
    /\ frozen \in [Activities -> Ticks \cup {NoTick}]
    /\ claimant \in [Ticks -> Activities \cup {NoRun}]
    /\ ended \subseteq Activities
    /\ now \in 0 .. MaxNow

(* An open beat is the only one of its episode and builds on the state the     *)
(* episode still has: what is written for it will not contradict a beat that   *)
(* was published meanwhile (previous_successful_beat_stale is never raised).   *)
OpenBeatIsCurrent ==
    \A t \in Ticks : Open(t) =>
        /\ beat[t].previous = episode[EpisodeOf(t)].last
        /\ \A u \in TicksOf(EpisodeOf(t)) : Open(u) => u = t

(* A post is published by the activity that claimed its beat last: one whose   *)
(* claim expired and was taken over comes to nothing, however late it ends.    *)
LatestClaimPublishes ==
    \A i \in DOMAIN posts : claimant[posts[i].tick] = posts[i].run

(* The beat, the post and the events agree: a beat succeeded if it has a post, *)
(* and the events it took up are those applied to it, none of them free for or *)
(* claimed by another beat.                                                    *)
SourcesApplied ==
    \A t \in Ticks :
        /\ beat[t].status = "succeeded" <=> Published(t)
        /\ beat[t].status = "succeeded" =>
              beat[t].sources = {e \in Events : consumption[e].beat = t}
        /\ \A e \in Events : consumption[e].status = "applied" /\ consumption[e].beat = t
              => beat[t].status = "succeeded"

Story == INSTANCE Narrative WITH story <- [i \in DOMAIN posts |->
                                             [tick |-> posts[i].tick, sources |-> posts[i].sources]]

(* The posts are one story: each tick told once, no event taken up twice.      *)
ImplementsNarrative == Story!Spec

(* A beat comes to an end, whatever becomes of the runs that claimed it: at    *)
(* the latest its daypart elapses, and the scheduler closes it.                *)
BeatsEnd == \A t \in Ticks : Open(t) ~> ~Open(t)
=============================================================================
