---------------------------- MODULE BeatClaimsProofs ----------------------------
(* Proofs about BeatClaims for any workers, activities, events and plan.     *)
(* The tables have an invariant of their own (Tables): one beat is open at a *)
(* time, and a claimed event belongs to the sources of its beat, or to its   *)
(* last claimant.  What a worker knows of the tables (View) survives the     *)
(* steps of the others, since those move the tables in few ways (Moves).     *)
EXTENDS BeatClaims, FiniteSetTheorems, SequenceTheorems, WellFoundedInduction, TLAPS

----------------------------------------------------------------------------
(* The plan. *)
LEMMA PlanTypes ==
    /\ Episodes \subseteq Nat
    /\ \A p \in Episodes : ItemStart[p] \in Nat /\ ItemEnd[p] \in Nat
    /\ Interval \in Nat \ {0} /\ Lease \in Nat \ {0}
<1>1. Cardinality(Episodes) \in Nat
  BY FS_CardinalityType, BeatAssumption
<1> QED
  BY <1>1, BeatAssumption

(* Every tick belongs to one episode. *)
LEMMA TickFacts ==
    /\ Ticks \subseteq Nat /\ NoTick \notin Ticks
    /\ \A p \in Episodes : TicksOf(p) \subseteq Ticks /\ TicksOf(p) \subseteq ItemStart[p] .. ItemEnd[p] - 1
    /\ \A t \in Ticks : EpisodeOf(t) \in Episodes /\ t \in TicksOf(EpisodeOf(t))
    /\ \A p \in Episodes : \A t \in TicksOf(p) : EpisodeOf(t) = p
<1>1. \A p \in Episodes : TicksOf(p) \subseteq Ticks
  BY DEF Ticks
<1>2. \A p \in Episodes : TicksOf(p) \subseteq ItemStart[p] .. ItemEnd[p] - 1
  BY DEF TicksOf
<1>3. \A p \in Episodes : TicksOf(p) \subseteq Nat
  BY <1>2, PlanTypes
<1>4. \A t \in Ticks : \E p \in Episodes : t \in TicksOf(p)
  BY DEF Ticks
<1>5. Ticks \subseteq Nat /\ NoTick \notin Ticks
  BY <1>3, <1>4 DEF NoTick
<1>6. \A t \in Ticks : EpisodeOf(t) \in Episodes /\ t \in TicksOf(EpisodeOf(t))
  BY <1>4 DEF EpisodeOf
<1>7. ASSUME NEW p \in Episodes, NEW q \in Episodes, NEW t \in TicksOf(p), t \in TicksOf(q), p < q
      PROVE  FALSE
  <2>1. ItemEnd[p] <= ItemStart[q]
    BY <1>7, BeatAssumption
  <2>2. t <= ItemEnd[p] - 1 /\ ItemStart[q] <= t /\ t \in Nat
    BY <1>2, <1>3, <1>7
  <2> QED
    BY <2>1, <2>2, PlanTypes
<1>8. ASSUME NEW p \in Episodes, NEW t \in TicksOf(p) PROVE EpisodeOf(t) = p
  <2>1. EpisodeOf(t) \in Episodes /\ t \in TicksOf(EpisodeOf(t))
    BY <1>1, <1>6
  <2>2. EpisodeOf(t) \in Nat /\ p \in Nat
    BY <2>1, PlanTypes
  <2>3. ~(EpisodeOf(t) < p) /\ ~(p < EpisodeOf(t))
    BY <1>7, <2>1
  <2> QED
    BY <2>2, <2>3
<1> QED
  BY <1>1, <1>2, <1>5, <1>6, <1>8

(* A product of naturals is not below its factors. *)
LEMMA MulAtLeast ==
    ASSUME NEW n \in Nat, NEW d \in Nat, d >= 1
    PROVE  n * d >= n
OBVIOUS

(* What is left after the remainder is a multiple. *)
LEMMA WithoutRemainder ==
    ASSUME NEW x \in Nat, NEW n \in Nat \ {0}
    PROVE  /\ x % n \in 0 .. n - 1 /\ x - (x % n) \in Nat
           /\ (x - (x % n)) % n = 0
<1>1. x % n \in 0 .. n - 1 /\ x - (x % n) \in Nat
  OBVIOUS
<1> DEFINE y == x - (x % n)
           q == x \div n
           d == y \div n
           s == y % n
<1>2. q \in Nat /\ y = n * q
  OBVIOUS
<1>3. d \in Nat /\ s \in 0 .. n - 1 /\ y = n * d + s
  BY <1>1
<1>4. n * q = n * d + s
  BY <1>2, <1>3
<1> HIDE DEF y, q, d, s
<1>5. CASE q > d
  <2>1. q - d \in Nat /\ q - d >= 1
    BY <1>2, <1>3, <1>5
  <2>2. n * (q - d) >= n
    BY <2>1, MulAtLeast
  <2>3. n * (q - d) = n * q - n * d
    BY <1>2, <1>3
  <2> QED
    BY <1>2, <1>3, <1>4, <2>2, <2>3
<1>6. CASE q < d
  <2>1. d - q \in Nat /\ d - q >= 1
    BY <1>2, <1>3, <1>6
  <2>2. n * (d - q) >= n
    BY <2>1, MulAtLeast
  <2>3. n * (d - q) = n * d - n * q
    BY <1>2, <1>3
  <2> QED
    BY <1>2, <1>3, <1>4, <2>2, <2>3
<1>7. CASE q = d
  <2>1. s = 0
    BY <1>2, <1>3, <1>4, <1>7
  <2> QED
    BY <1>1, <2>1 DEF s, y
<1> QED
  BY <1>2, <1>3, <1>5, <1>6, <1>7

(* latest_due_tick is a tick of its item. *)
LEMMA DueIsTick ==
    ASSUME NEW p \in Episodes, NEW time \in Nat, ItemStart[p] <= time, time < ItemEnd[p]
    PROVE  time - ((time - ItemStart[p]) % Interval) \in TicksOf(p)
<1> DEFINE x == time - ItemStart[p]
           t == time - (x % Interval)
<1>1. x \in Nat /\ ItemStart[p] \in Nat /\ ItemEnd[p] \in Nat /\ Interval \in Nat \ {0}
  BY PlanTypes
<1>2. x % Interval \in 0 .. Interval - 1 /\ x - (x % Interval) \in Nat /\ (x - (x % Interval)) % Interval = 0
  BY <1>1, WithoutRemainder
<1>3. t - ItemStart[p] = x - (x % Interval)
  BY <1>1, <1>2
<1>4. t \in ItemStart[p] .. ItemEnd[p] - 1
  BY <1>1, <1>2, <1>3
<1>5. (t - ItemStart[p]) % Interval = 0
  BY <1>2, <1>3
<1> QED
  BY <1>4, <1>5 DEF TicksOf

(* The library's order on the natural numbers, as a set of pairs. *)
Below == {ss \in Nat \X Nat : ss[1] < ss[2]}

LEMMA BelowWellFounded == IsWellFoundedOn(Below, Nat)
  BY NatLessThanWellFounded, SMT DEF OpToRel, Below

(* An episode that has beats has a latest one. *)
LEMMA LatestFacts ==
    ASSUME NEW p \in Episodes, BeatsOf(p) # {}
    PROVE  LatestBeat(p) \in BeatsOf(p) /\ \A u \in BeatsOf(p) : u <= LatestBeat(p)
<1> DEFINE end == ItemEnd[p]
           gaps == {end - t : t \in BeatsOf(p)}
<1>1. end \in Nat /\ \A t \in BeatsOf(p) : t \in Nat /\ t < end
  BY PlanTypes, TickFacts DEF BeatsOf
<1>2. gaps \subseteq Nat /\ gaps # {}
  BY <1>1
<1> HIDE DEF gaps
<1>3. PICK g \in gaps : \A h \in gaps : <<h, g>> \notin Below
  BY <1>2, BelowWellFounded, WFMin, Zenon
<1> USE DEF gaps
<1>4. PICK t \in BeatsOf(p) : g = end - t
  BY <1>3
<1>5. ASSUME NEW u \in BeatsOf(p) PROVE u <= t
  <2>1. t \in Nat /\ u \in Nat /\ t < end /\ u < end /\ end \in Nat
    BY <1>1
  <2> DEFINE h == end - u
  <2>2. h \in gaps /\ h \in Nat /\ g \in Nat
    BY <1>2, <2>1
  <2>3. ~(h < g)
    BY <1>3, <2>2 DEF Below
  <2> QED
    BY <1>4, <2>1, <2>3
<1> QED
  BY <1>5 DEF LatestBeat

----------------------------------------------------------------------------
(* The tables. *)
EpisodeRows == [status : Live \cup {"completed", "cancelled"},
                last : Ticks \cup {NoTick}, next : Nat \ {0}]

BeatStates == OpenStatus \cup {"none", "succeeded", "failed", "cancelled"}

BeatRows ==
    {x \in [status : BeatStates, run : Activities \cup {NoRun}, expiry : Nat,
            attempts : 0 .. MaxAttempts, seq : Nat, previous : Ticks \cup {NoTick},
            sources : SUBSET Events] : x.status = "claimed" <=> x.run # NoRun}

EventRows == [status : {"none", "claimed", "released", "applied"},
              run : Activities \cup {NoRun}, expiry : Nat, beat : Ticks \cup {NoTick}]

PostRows == [tick : Ticks, sources : SUBSET Events, run : Activities]

IsLive(p) == episode[p].status \in Live
Exists(t) == beat[t].status # "none"

TableTypes ==
    /\ episode \in [Episodes -> EpisodeRows]
    /\ beat \in [Ticks -> BeatRows]
    /\ consumption \in [Events -> EventRows]
    /\ claimant \in [Ticks -> Activities \cup {NoRun}]
    /\ posts \in Seq(PostRows)

(* An open beat is the current one of a live episode, and an episode before   *)
(* one that has beats has been closed.                                        *)
BeatPart ==
    \A t \in Ticks :
        /\ Open(t) => /\ beat[t].previous = episode[EpisodeOf(t)].last
                      /\ beat[t].seq = episode[EpisodeOf(t)].next
                      /\ IsLive(EpisodeOf(t))
        /\ Exists(t) => /\ beat[t].attempts >= 1
                        /\ \A p \in Episodes : p < EpisodeOf(t) => ~IsLive(p)
        /\ beat[t].status = "claimed" => claimant[t] = beat[t].run

OnePart == \A t, u \in Ticks : Open(t) /\ Open(u) => t = u

(* A claimed event is a source of its beat, unless an activity claimed it     *)
(* that took the beat over with the last attempt.                             *)
EventPart ==
    \A e \in Events :
        /\ consumption[e].status \in {"none", "released"} => consumption[e].beat = NoTick
        /\ consumption[e].status = "claimed" =>
              \E t \in Ticks : /\ consumption[e].beat = t /\ Exists(t)
                               /\ \/ e \in beat[t].sources
                                  \/ /\ beat[t].attempts = MaxAttempts
                                     /\ consumption[e].run = claimant[t]
        /\ consumption[e].status = "applied" =>
              \E t \in Ticks : consumption[e].beat = t /\ beat[t].status = "succeeded"

PostPart ==
    /\ \A t \in Ticks : beat[t].status = "succeeded" <=> Published(t)
    /\ \A i \in DOMAIN posts :
          /\ claimant[posts[i].tick] = posts[i].run
          /\ \A e \in posts[i].sources : consumption[e].beat = posts[i].tick
    /\ \A t \in Ticks : beat[t].status = "succeeded" =>
          \A e \in Events : /\ e \in beat[t].sources <=> consumption[e].beat = t
                            /\ consumption[e].beat = t => consumption[e].status = "applied"

Tables == TableTypes /\ BeatPart /\ OnePart /\ EventPart /\ PostPart

(* What the steps of activity a do to the tables, as far as others notice. *)
Moves(a) ==
    /\ \A p \in Episodes : IsLive(p)' => IsLive(p)
    /\ \A t \in Ticks : Exists(t) => /\ Exists(t)' /\ beat'[t].sources = beat[t].sources
                                     /\ beat'[t].attempts >= beat[t].attempts
    /\ \A t \in Ticks, r \in Activities : HeldBy(beat'[t], r) =>
          \/ HeldBy(beat[t], r) /\ (r = a \/ beat'[t].expiry = beat[t].expiry)
          \/ r = a /\ (Exists(t) => beat[t].attempts < MaxAttempts)
    /\ \A e \in Events, t \in Ticks, r \in Activities :
          /\ HeldBy(consumption[e], r) /\ consumption[e].beat = t
          /\ HeldBy(beat[t], r) /\ HeldBy(beat'[t], r)
          => HeldBy(consumption'[e], r) /\ consumption'[e].beat = t

LEMMA PostTypes ==
    ASSUME TableTypes
    PROVE  \A i \in DOMAIN posts : /\ posts[i].tick \in Ticks /\ posts[i].run \in Activities
                                   /\ posts[i].sources \subseteq Events
<1>1. \A i \in DOMAIN posts : posts[i] \in PostRows
  BY DEF TableTypes
<1> QED
  BY <1>1 DEF PostRows

TableVars == <<episode, beat, consumption, claimant, posts>>

LEMMA TablesStay ==
    ASSUME Tables, UNCHANGED TableVars, NEW a
    PROVE  Tables' /\ Moves(a)
<1>1. Tables'
  BY DEF TableVars, Tables, TableTypes, BeatPart, OnePart, EventPart, PostPart, IsLive, Exists,
         Open, Published
<1>2. \A t \in Ticks : beat[t].attempts \in Nat
  BY DEF Tables, TableTypes, BeatRows, MaxAttempts
<1>3. Moves(a)
  BY <1>2 DEF TableVars, Moves, IsLive, Exists
<1> QED
  BY <1>1, <1>3

----------------------------------------------------------------------------
(* The forms of a row. *)
Shut(x, status) == [x EXCEPT !.status = status, !.run = NoRun, !.expiry = 0]

Keeps(x, y) == y.seq = x.seq /\ y.previous = x.previous /\ y.sources = x.sources

LEMMA BeatTypes ==
    ASSUME NEW x \in BeatRows
    PROVE  /\ x.status \in BeatStates /\ x.run \in Activities \cup {NoRun} /\ x.expiry \in Nat
           /\ x.attempts \in 0 .. 2 /\ x.attempts \in Nat /\ x.seq \in Nat
           /\ x.previous \in Ticks \cup {NoTick} /\ x.sources \subseteq Events
           /\ x.status = "claimed" <=> x.run # NoRun
  BY DEF BeatRows, MaxAttempts

LEMMA ShutRow ==
    ASSUME NEW x \in BeatRows, NEW status \in BeatStates \ {"claimed"}
    PROVE  /\ Shut(x, status) \in BeatRows /\ Keeps(x, Shut(x, status))
           /\ Shut(x, status).status = status /\ Shut(x, status).run = NoRun
           /\ Shut(x, status).attempts = x.attempts
  BY DEF BeatRows, Shut, Keeps

LEMMA ClaimRow ==
    ASSUME NEW x \in BeatRows, NEW r \in Activities, NEW expiry \in Nat, x.attempts < MaxAttempts
    PROVE  LET y == Claim(x, r, expiry)
           IN  /\ y \in BeatRows /\ Keeps(x, y)
               /\ y.status = "claimed" /\ y.run = r /\ y.attempts = x.attempts + 1
<1> DEFINE y == Claim(x, r, expiry)
<1>1. r # NoRun
  BY BeatAssumption
<1>2. x.attempts + 1 \in 0 .. MaxAttempts
  BY BeatTypes DEF MaxAttempts
<1>3. y = [x EXCEPT !.status = "claimed", !.run = r, !.expiry = expiry, !.attempts = x.attempts + 1]
  BY DEF Claim
<1>4. "claimed" \in BeatStates
  BY DEF BeatStates, OpenStatus
<1> HIDE DEF y
<1>5. y.status = "claimed" /\ y.run = r /\ y.attempts = x.attempts + 1 /\ Keeps(x, y)
  BY <1>3 DEF BeatRows, Keeps
<1>6. y \in BeatRows
  BY <1>1, <1>2, <1>3, <1>4 DEF BeatRows
<1> QED
  BY <1>5, <1>6 DEF y

LEMMA RenewRow ==
    ASSUME NEW x \in BeatRows, NEW expiry \in Nat
    PROVE  LET y == [x EXCEPT !.expiry = expiry]
           IN  /\ y \in BeatRows /\ Keeps(x, y)
               /\ y.status = x.status /\ y.run = x.run /\ y.attempts = x.attempts
  BY DEF BeatRows, Keeps

----------------------------------------------------------------------------
(* An open row is claimed, renewed or given back by activity a. *)
RowMoves(t, y, a) ==
    /\ Open(t) /\ y.status \in OpenStatus
    /\ Keeps(beat[t], y) /\ y.attempts >= beat[t].attempts
    /\ y.status = "claimed" =>
          y.run = a /\ (beat[t].attempts < MaxAttempts \/ HeldBy(beat[t], a))
    /\ beat' = [beat EXCEPT ![t] = y]
    /\ claimant' = IF y.status = "claimed" THEN [claimant EXCEPT ![t] = a] ELSE claimant
    /\ UNCHANGED <<episode, consumption, posts>>

LEMMA RowKept ==
    ASSUME Tables, NEW t \in Ticks, NEW y \in BeatRows, NEW a \in Activities \cup {NoRun},
           RowMoves(t, y, a)
    PROVE  Tables' /\ Moves(a)
<1> USE DEF Tables
<1> PICK x \in BeatRows : x = beat[t]
  BY DEF TableTypes
<1>1. /\ beat \in [Ticks -> BeatRows] /\ claimant \in [Ticks -> Activities \cup {NoRun}]
      /\ x.status \in OpenStatus /\ y.status \in OpenStatus
      /\ Keeps(x, y) /\ y.attempts >= x.attempts
      /\ y.status = "claimed" =>
            y.run = a /\ (x.attempts < MaxAttempts \/ (x.status = "claimed" /\ x.run = a))
      /\ beat' = [beat EXCEPT ![t] = y] /\ beat'[t] = y
      /\ \A u \in Ticks \ {t} : beat'[u] = beat[u]
      /\ claimant' = IF y.status = "claimed" THEN [claimant EXCEPT ![t] = a] ELSE claimant
      /\ UNCHANGED <<episode, consumption, posts>>
  <2>1. beat \in [Ticks -> BeatRows] /\ claimant \in [Ticks -> Activities \cup {NoRun}]
    BY DEF TableTypes
  <2>2. /\ beat' = [beat EXCEPT ![t] = y] /\ beat'[t] = y
        /\ \A u \in Ticks \ {t} : beat'[u] = beat[u]
    BY <2>1 DEF RowMoves
  <2> QED
    BY <2>1, <2>2 DEF RowMoves, Open, HeldBy
<1>2. /\ \A u \in Ticks \ {t} : claimant'[u] = claimant[u]
      /\ y.status = "claimed" => claimant'[t] = a
      /\ y.status # "claimed" => claimant'[t] = claimant[t]
  BY <1>1
<1>3. x.attempts \in 0 .. 2 /\ y.attempts \in 0 .. 2 /\ "none" \notin OpenStatus
  BY BeatTypes DEF OpenStatus
<1>4. TableTypes'
  BY <1>1 DEF TableTypes
<1>5. \A u \in Ticks : Open(u)' <=> Open(u)
  BY <1>1 DEF Open
<1>6. \A u \in Ticks : Exists(u)' <=> Exists(u)
  BY <1>1, <1>3 DEF Exists
<1>7. \A u \in Ticks : /\ beat'[u].sources = beat[u].sources
                       /\ beat'[u].previous = beat[u].previous /\ beat'[u].seq = beat[u].seq
  BY <1>1 DEF Keeps
<1>8. \A u \in Ticks : /\ beat'[u].attempts >= beat[u].attempts
                       /\ beat[u].attempts \in Nat /\ beat'[u].attempts \in Nat
  <2>1. \A u \in Ticks : beat[u] \in BeatRows
    BY <1>1
  <2>2. \A u \in Ticks : beat[u].attempts \in Nat
    BY <2>1, BeatTypes
  <2> QED
    BY <1>1, <1>3, <2>2
<1>9. BeatPart'
  <2>1. ASSUME NEW u \in Ticks, beat'[u].status = "claimed" PROVE claimant'[u] = beat'[u].run
    BY <1>1, <1>2, <2>1 DEF BeatPart
  <2>2. ASSUME NEW u \in Ticks, Exists(u)' PROVE beat'[u].attempts >= 1
    <3>1. beat[u].attempts >= 1
      BY <1>6, <2>2 DEF BeatPart
    <3> QED
      BY <1>8, <3>1
  <2> QED
    BY <1>1, <1>5, <1>6, <1>7, <2>1, <2>2 DEF BeatPart, IsLive
<1>10. OnePart'
  BY <1>5 DEF OnePart
<1>11. \A u \in Ticks : beat'[u].status = "succeeded" <=> beat[u].status = "succeeded"
  BY <1>1 DEF OpenStatus
<1>12. \A u \in Ticks : claimant'[u] # claimant[u] => u = t /\ x.attempts < MaxAttempts
  BY <1>1, <1>2 DEF BeatPart
<1>13. EventPart'
  <2> SUFFICES ASSUME NEW e \in Events, consumption[e].status = "claimed"
               PROVE  \E u \in Ticks : /\ consumption[e].beat = u /\ Exists(u)'
                                       /\ \/ e \in beat'[u].sources
                                          \/ /\ beat'[u].attempts = MaxAttempts
                                             /\ consumption[e].run = claimant'[u]
    BY <1>1, <1>11 DEF EventPart
  <2>1. PICK u \in Ticks : /\ consumption[e].beat = u /\ Exists(u)
                           /\ \/ e \in beat[u].sources
                              \/ beat[u].attempts = MaxAttempts /\ consumption[e].run = claimant[u]
    BY DEF EventPart
  <2>2. CASE e \in beat[u].sources
    BY <1>6, <1>7, <2>1, <2>2
  <2>3. CASE beat[u].attempts = MaxAttempts /\ consumption[e].run = claimant[u]
    <3>1. claimant'[u] = claimant[u]
      BY <1>12, <2>3 DEF MaxAttempts
    <3>2. beat'[u].attempts = MaxAttempts
      <4>1. beat'[u] \in BeatRows
        BY <1>4 DEF TableTypes
      <4>2. beat'[u].attempts \in 0 .. 2
        BY <4>1, BeatTypes
      <4> QED
        BY <1>8, <2>3, <4>2 DEF MaxAttempts
    <3> QED
      BY <1>6, <2>1, <2>3, <3>1, <3>2
  <2> QED
    BY <2>1, <2>2, <2>3
<1>14. PostPart'
  <2>1. \A u \in Ticks : Published(u)' <=> Published(u)
    BY <1>1 DEF Published
  <2>2. \A i \in DOMAIN posts : posts[i].tick \in Ticks /\ Published(posts[i].tick)
    BY PostTypes DEF Published
  <2>3. \A i \in DOMAIN posts : claimant'[posts[i].tick] = claimant[posts[i].tick]
    <3> SUFFICES ASSUME NEW i \in DOMAIN posts PROVE posts[i].tick # t /\ posts[i].tick \in Ticks
      BY <1>2
    <3>1. beat[posts[i].tick].status = "succeeded"
      BY <2>2 DEF PostPart
    <3> QED
      BY <1>1, <2>2, <3>1 DEF OpenStatus
  <2> QED
    BY <1>1, <1>7, <1>11, <2>1, <2>3 DEF PostPart
<1>15. Moves(a)
  <2>1. \A u \in Ticks, r \in Activities : HeldBy(beat'[u], r) =>
          \/ HeldBy(beat[u], r) /\ (r = a \/ beat'[u].expiry = beat[u].expiry)
          \/ r = a /\ (Exists(u) => beat[u].attempts < MaxAttempts)
    BY <1>1 DEF HeldBy
  <2> QED
    BY <1>1, <1>6, <1>7, <1>8, <2>1 DEF Moves, IsLive
<1> QED
  BY <1>4, <1>9, <1>10, <1>13, <1>14, <1>15

(* A beat is created for a tick of a live episode, its first claim with it. *)
NewMoves(t, y, a) ==
    /\ beat[t].status = "none" /\ SeqFree(EpisodeOf(t)) /\ IsLive(EpisodeOf(t))
    /\ \A p \in Episodes : p < EpisodeOf(t) => ~IsLive(p)
    /\ y.status = "claimed" /\ y.run = a /\ y.attempts = 1
    /\ y.seq = episode[EpisodeOf(t)].next /\ y.previous = episode[EpisodeOf(t)].last
    /\ beat' = [beat EXCEPT ![t] = y]
    /\ claimant' = [claimant EXCEPT ![t] = a]
    /\ UNCHANGED <<episode, consumption, posts>>

LEMMA NoneOpen ==
    ASSUME Tables, NEW t \in Ticks, SeqFree(EpisodeOf(t)), IsLive(EpisodeOf(t)),
           \A p \in Episodes : p < EpisodeOf(t) => ~IsLive(p)
    PROVE  \A u \in Ticks : ~Open(u)
<1> SUFFICES ASSUME NEW u \in Ticks, Open(u) PROVE FALSE
  OBVIOUS
<1>1. Exists(u) /\ IsLive(EpisodeOf(u)) /\ \A p \in Episodes : p < EpisodeOf(u) => ~IsLive(p)
  BY DEF Tables, BeatPart, Open, OpenStatus, Exists
<1>2. EpisodeOf(t) \in Episodes /\ EpisodeOf(u) \in Episodes /\ u \in TicksOf(EpisodeOf(u))
  BY TickFacts
<1>3. EpisodeOf(t) \in Nat /\ EpisodeOf(u) \in Nat
  BY <1>2, PlanTypes
<1>4. ~(EpisodeOf(t) < EpisodeOf(u)) /\ ~(EpisodeOf(u) < EpisodeOf(t))
  BY <1>1, <1>2
<1>5. EpisodeOf(u) = EpisodeOf(t)
  BY <1>3, <1>4
<1>6. u \in BeatsOf(EpisodeOf(t))
  BY <1>1, <1>2, <1>5 DEF BeatsOf, Exists
<1>7. beat[u].seq = episode[EpisodeOf(t)].next
  BY <1>5 DEF Tables, BeatPart
<1> QED
  BY <1>6, <1>7 DEF SeqFree

LEMMA NewKept ==
    ASSUME Tables, NEW t \in Ticks, NEW y \in BeatRows, NEW a \in Activities, NewMoves(t, y, a)
    PROVE  Tables' /\ Moves(a)
<1> USE DEF Tables
<1>1. /\ beat \in [Ticks -> BeatRows] /\ claimant \in [Ticks -> Activities \cup {NoRun}]
      /\ beat[t].status = "none" /\ IsLive(EpisodeOf(t))
      /\ \A p \in Episodes : p < EpisodeOf(t) => ~IsLive(p)
      /\ y.status = "claimed" /\ y.run = a /\ y.attempts = 1
      /\ y.seq = episode[EpisodeOf(t)].next /\ y.previous = episode[EpisodeOf(t)].last
      /\ beat' = [beat EXCEPT ![t] = y] /\ beat'[t] = y
      /\ \A u \in Ticks \ {t} : beat'[u] = beat[u]
      /\ claimant' = [claimant EXCEPT ![t] = a] /\ claimant'[t] = a
      /\ \A u \in Ticks \ {t} : claimant'[u] = claimant[u]
      /\ UNCHANGED <<episode, consumption, posts>>
  BY DEF TableTypes, NewMoves
<1>2. \A u \in Ticks : ~Open(u)
  BY NoneOpen DEF NewMoves
<1>3. \A u \in Ticks : beat[u].attempts \in Nat
  <2>1. \A u \in Ticks : beat[u] \in BeatRows
    BY <1>1
  <2> QED
    BY <2>1, BeatTypes
<1>4. TableTypes'
  BY <1>1 DEF TableTypes
<1>5. \A u \in Ticks : Open(u)' <=> u = t
  BY <1>1, <1>2 DEF Open, OpenStatus
<1>6. BeatPart'
  BY <1>1, <1>5 DEF BeatPart, IsLive, Exists
<1>7. OnePart'
  BY <1>5 DEF OnePart
<1>8. EventPart'
  <2> SUFFICES ASSUME NEW e \in Events
               PROVE  \A u \in Ticks : consumption[e].status \in {"claimed", "applied"}
                                          /\ consumption[e].beat = u => u # t
    BY <1>1 DEF EventPart, Exists
  <2> QED
    BY <1>1 DEF EventPart, Exists
<1>9. PostPart'
  <2>1. \A u \in Ticks : Published(u)' <=> Published(u)
    BY <1>1 DEF Published
  <2>2. \A i \in DOMAIN posts : posts[i].tick \in Ticks /\ Published(posts[i].tick)
    BY PostTypes DEF Published
  <2>3. \A i \in DOMAIN posts : posts[i].tick # t
    BY <1>1, <2>2 DEF PostPart
  <2> QED
    BY <1>1, <2>1, <2>2, <2>3 DEF PostPart
<1>10. Moves(a)
  <2>1. \A u \in Ticks, r \in Activities : HeldBy(beat'[u], r) =>
          \/ HeldBy(beat[u], r) /\ (r = a \/ beat'[u].expiry = beat[u].expiry)
          \/ r = a /\ (Exists(u) => beat[u].attempts < MaxAttempts)
    <3> SUFFICES ASSUME NEW u \in Ticks, NEW r \in Activities, HeldBy(beat'[u], r)
                 PROVE  r = a /\ ~Exists(u)
      OBVIOUS
    <3>1. u = t /\ r = a
      BY <1>1, <1>2 DEF HeldBy, Open, OpenStatus
    <3> QED
      BY <3>1, <1>1 DEF Exists
  <2>2. \A u \in Ticks : Exists(u) => u # t
    BY <1>1 DEF Exists
  <2>3. \A u \in Ticks, r \in Activities : ~HeldBy(beat[u], r)
    BY <1>2 DEF HeldBy, Open, OpenStatus
  <2> QED
    BY <1>1, <1>3, <2>1, <2>2, <2>3 DEF Moves, IsLive, Exists
<1> QED
  BY <1>4, <1>6, <1>7, <1>8, <1>9, <1>10

----------------------------------------------------------------------------
(* Open beats are closed or given back, and claims on events with them. *)
Closes(S, undone) ==
    /\ \A u \in S : Open(u)
    /\ beat' \in [Ticks -> BeatRows]
    /\ \A u \in Ticks \ S : beat'[u] = beat[u]
    /\ \A u \in S : /\ Keeps(beat[u], beat'[u]) /\ beat'[u].attempts = beat[u].attempts
                    /\ beat'[u].status \in {"pending", "failed", "cancelled"}
    /\ \A e \in undone : consumption[e].status = "claimed" /\ consumption[e].beat \in S
    /\ consumption' = Released(undone)
    /\ episode' \in [Episodes -> EpisodeRows]
    /\ \A p \in Episodes : IsLive(p)' => IsLive(p)
    /\ \A u \in Ticks : Open(u)' => episode'[EpisodeOf(u)] = episode[EpisodeOf(u)]
    /\ UNCHANGED <<claimant, posts>>

LEMMA ClosesKept ==
    ASSUME Tables, NEW S \in SUBSET Ticks, NEW undone \in SUBSET Events, NEW a, Closes(S, undone)
    PROVE  Tables' /\ Moves(a)
<1> USE DEF Tables
<1>1. /\ \A u \in S : Open(u)
      /\ \A u \in Ticks \ S : beat'[u] = beat[u]
      /\ \A u \in S : /\ Keeps(beat[u], beat'[u]) /\ beat'[u].attempts = beat[u].attempts
                      /\ beat'[u].status \in {"pending", "failed", "cancelled"}
      /\ \A e \in undone : consumption[e].status = "claimed" /\ consumption[e].beat \in S
      /\ \A p \in Episodes : IsLive(p)' => IsLive(p)
      /\ \A u \in Ticks : Open(u)' => episode'[EpisodeOf(u)] = episode[EpisodeOf(u)]
      /\ claimant' = claimant /\ posts' = posts
  BY DEF Closes
<1>2. /\ \A e \in Events \ undone : consumption'[e] = consumption[e]
      /\ \A e \in undone : consumption'[e].status = "released" /\ consumption'[e].beat = NoTick
      /\ consumption' \in [Events -> EventRows]
  <2>1. [Unclaimed EXCEPT !.status = "released"] \in EventRows
    BY DEF Unclaimed, EventRows
  <2>2. /\ [Unclaimed EXCEPT !.status = "released"].status = "released"
        /\ [Unclaimed EXCEPT !.status = "released"].beat = NoTick
    BY DEF Unclaimed
  <2>3. consumption' = Released(undone) /\ consumption \in [Events -> EventRows]
    BY DEF Closes, TableTypes
  <2> HIDE DEF Tables
  <2> QED
    BY <2>1, <2>2, <2>3 DEF Released
<1>3. TableTypes'
  BY <1>1, <1>2 DEF Closes, TableTypes
<1>4. \A u \in Ticks : Open(u)' => Open(u)
  BY <1>1 DEF Open
<1>5. \A u \in Ticks : Exists(u)' <=> Exists(u)
  BY <1>1 DEF Exists, Open, OpenStatus
<1>6. \A u \in Ticks : /\ beat'[u].sources = beat[u].sources /\ beat'[u].attempts = beat[u].attempts
                       /\ beat'[u].previous = beat[u].previous /\ beat'[u].seq = beat[u].seq
  BY <1>1 DEF Keeps
<1>7. \A u \in Ticks : beat'[u].status = "claimed" => u \notin S /\ beat'[u] = beat[u]
  BY <1>1
<1>8. \A u \in Ticks : beat'[u].status = "succeeded" <=> beat[u].status = "succeeded"
  BY <1>1 DEF Open, OpenStatus
<1>10. BeatPart'
  <2>2. ASSUME NEW u \in Ticks, Open(u)'
        PROVE  /\ beat'[u].previous = episode'[EpisodeOf(u)].last
               /\ beat'[u].seq = episode'[EpisodeOf(u)].next
               /\ IsLive(EpisodeOf(u))'
    <3>1. episode'[EpisodeOf(u)] = episode[EpisodeOf(u)] /\ Open(u)
      BY <1>1, <1>4, <2>2
    <3> QED
      BY <1>6, <3>1 DEF BeatPart, IsLive
  <2>3. ASSUME NEW u \in Ticks, Exists(u)'
        PROVE  /\ beat'[u].attempts >= 1
               /\ \A p \in Episodes : p < EpisodeOf(u) => ~IsLive(p)'
    BY <1>1, <1>5, <1>6, <2>3 DEF BeatPart
  <2>4. ASSUME NEW u \in Ticks, beat'[u].status = "claimed" PROVE claimant'[u] = beat'[u].run
    BY <1>1, <1>7, <2>4 DEF BeatPart
  <2> QED
    BY <2>2, <2>3, <2>4 DEF BeatPart
<1>11. OnePart'
  BY <1>4 DEF OnePart
<1>12. EventPart'
  BY <1>1, <1>2, <1>5, <1>6, <1>8 DEF EventPart
<1>13. PostPart'
  <2>1. \A u \in Ticks : Published(u)' <=> Published(u)
    BY <1>1 DEF Published
  <2>2. \A u \in Ticks : beat[u].status = "succeeded" => u \notin S
    BY <1>1 DEF Open, OpenStatus
  <2>3. \A u \in Ticks, e \in Events : beat[u].status = "succeeded" =>
          /\ consumption'[e].beat = u <=> consumption[e].beat = u
          /\ consumption'[e].beat = u => consumption'[e] = consumption[e]
    BY <1>1, <1>2, <2>2, TickFacts
  <2>4. \A i \in DOMAIN posts : /\ posts[i].tick \in Ticks /\ posts[i].sources \subseteq Events
                                /\ beat[posts[i].tick].status = "succeeded"
    BY PostTypes DEF Published, PostPart
  <2>5. \A i \in DOMAIN posts : \A e \in posts[i].sources : consumption'[e].beat = posts[i].tick
    BY <2>3, <2>4 DEF PostPart
  <2> QED
    BY <1>1, <1>6, <1>8, <2>1, <2>3, <2>5 DEF PostPart
<1>14. Moves(a)
  <2>1. \A u \in Ticks : beat[u].attempts \in Nat
    <3>1. \A u \in Ticks : beat[u] \in BeatRows
      BY DEF TableTypes
    <3> QED
      BY <3>1, BeatTypes
  <2>2. \A e \in Events, t \in Ticks, r \in Activities :
          consumption[e].beat = t /\ HeldBy(beat'[t], r) => consumption'[e] = consumption[e]
    BY <1>1, <1>2, <1>7 DEF HeldBy
  <2>3. \A u \in Ticks, r \in Activities : HeldBy(beat'[u], r) => beat'[u] = beat[u]
    BY <1>7 DEF HeldBy
  <2> QED
    BY <1>1, <1>5, <1>6, <2>1, <2>2, <2>3 DEF Moves
<1> QED
  BY <1>3, <1>10, <1>11, <1>12, <1>13, <1>14

(* An activity claims an event for the beat it holds. *)
Takes(e, t, a, expiry) ==
    /\ HeldBy(beat[t], a)
    /\ consumption[e].status # "applied"
    /\ e \in beat[t].sources \/ beat[t].attempts = MaxAttempts
    /\ consumption' = [consumption EXCEPT ![e] =
           [status |-> "claimed", run |-> a, expiry |-> expiry, beat |-> t]]
    /\ UNCHANGED <<episode, beat, posts, claimant>>

LEMMA TakesKept ==
    ASSUME Tables, NEW e \in Events, NEW t \in Ticks, NEW a \in Activities, NEW expiry \in Nat,
           Takes(e, t, a, expiry)
    PROVE  Tables' /\ Moves(a)
<1> USE DEF Tables
<1> DEFINE c == [status |-> "claimed", run |-> a, expiry |-> expiry, beat |-> t]
<1>1. /\ HeldBy(beat[t], a) /\ consumption[e].status # "applied"
      /\ e \in beat[t].sources \/ beat[t].attempts = MaxAttempts
      /\ episode' = episode /\ beat' = beat /\ posts' = posts /\ claimant' = claimant
  BY DEF Takes
<1>2. c \in EventRows
  BY DEF EventRows
<1>3. /\ consumption' \in [Events -> EventRows] /\ consumption'[e] = c
      /\ \A f \in Events \ {e} : consumption'[f] = consumption[f]
  <2> HIDE DEF c
  <2>1. consumption' = [consumption EXCEPT ![e] = c] /\ consumption \in [Events -> EventRows]
    BY DEF Takes, TableTypes, c
  <2> QED
    BY <1>2, <2>1
<1>4. TableTypes'
  BY <1>1, <1>3 DEF TableTypes
<1>5. BeatPart' /\ OnePart'
  BY <1>1 DEF BeatPart, OnePart, Open, Exists, IsLive
<1>6. Open(t) /\ Exists(t) /\ beat[t].status # "succeeded" /\ claimant[t] = a
  BY <1>1 DEF HeldBy, Open, OpenStatus, Exists, BeatPart
<1>7. EventPart'
  BY <1>1, <1>3, <1>6 DEF EventPart, Exists
<1>8. consumption[e].beat = NoTick \/ \E u \in Ticks : consumption[e].beat = u /\ beat[u].status # "succeeded"
  <2>1. consumption[e] \in EventRows
    BY DEF TableTypes
  <2>2. consumption[e].status \in {"none", "claimed", "released"} /\ consumption[e].beat \in Ticks \cup {NoTick}
    BY <1>1, <2>1 DEF EventRows
  <2> QED
    BY <1>1, <2>2 DEF PostPart
<1>9. \A f \in Events, u \in Ticks : beat[u].status = "succeeded" =>
        /\ consumption'[f].beat = u <=> consumption[f].beat = u
        /\ consumption'[f].beat = u => consumption'[f] = consumption[f]
  BY <1>3, <1>6, <1>8, TickFacts
<1>10. PostPart'
  <2>1. \A u \in Ticks : Published(u)' <=> Published(u)
    BY <1>1 DEF Published
  <2>2. \A i \in DOMAIN posts : /\ posts[i].tick \in Ticks /\ posts[i].sources \subseteq Events
                                /\ beat[posts[i].tick].status = "succeeded"
    BY PostTypes DEF Published, PostPart
  <2>3. \A i \in DOMAIN posts : \A f \in posts[i].sources : consumption'[f].beat = posts[i].tick
    BY <1>9, <2>2 DEF PostPart
  <2> QED
    BY <1>1, <1>9, <2>1, <2>3 DEF PostPart
<1>11. Moves(a)
  <2>1. \A u \in Ticks : beat[u].attempts \in Nat
    <3>1. \A u \in Ticks : beat[u] \in BeatRows
      BY DEF TableTypes
    <3> QED
      BY <3>1, BeatTypes
  <2>2. ASSUME NEW f \in Events, NEW u \in Ticks, NEW r \in Activities,
               HeldBy(consumption[f], r), consumption[f].beat = u, HeldBy(beat[u], r)
        PROVE  HeldBy(consumption'[f], r) /\ consumption'[f].beat = u
    <3>1. u = t /\ r = a
      BY <1>1, <1>6, <2>2 DEF HeldBy, OnePart, Open, OpenStatus
    <3> QED
      BY <1>3, <2>2, <3>1 DEF HeldBy
  <2> QED
    BY <1>1, <2>1, <2>2 DEF Moves, IsLive, Exists
<1> QED
  BY <1>4, <1>5, <1>7, <1>10, <1>11

----------------------------------------------------------------------------
(* A post is published: its beat succeeds, and the events claimed for the    *)
(* beat are applied to it.                                                   *)
Publishes(t, y, q) ==
    /\ HeldBy(beat[t], q.run) /\ ~Published(t)
    /\ beat[t].sources = {e \in Events : /\ consumption[e].beat = t
                                         /\ HeldBy(consumption[e], q.run)}
    /\ q.tick = t /\ \A e \in q.sources : consumption[e].beat = t
    /\ y.status = "succeeded" /\ Keeps(beat[t], y) /\ y.attempts = beat[t].attempts
    /\ posts' = Append(posts, q)
    /\ beat' = [beat EXCEPT ![t] = y]
    /\ episode' \in [Episodes -> EpisodeRows]
    /\ \A p \in Episodes : p # EpisodeOf(t) => episode'[p] = episode[p]
    /\ consumption' = [e \in Events |->
                          IF consumption[e].beat = t
                          THEN [status |-> "applied", run |-> NoRun, expiry |-> 0, beat |-> t]
                          ELSE consumption[e]]
    /\ UNCHANGED claimant

LEMMA PublishesKept ==
    ASSUME Tables, NEW t \in Ticks, NEW y \in BeatRows, NEW q \in PostRows, NEW a,
           Publishes(t, y, q)
    PROVE  Tables' /\ Moves(a)
<1> USE DEF Tables
<1>1. /\ beat \in [Ticks -> BeatRows] /\ consumption \in [Events -> EventRows]
      /\ beat[t].status = "claimed" /\ beat[t].run = q.run /\ ~Published(t)
      /\ q.tick = t /\ q.run \in Activities /\ q.sources \subseteq Events
      /\ \A e \in q.sources : consumption[e].beat = t
      /\ y.status = "succeeded" /\ Keeps(beat[t], y) /\ y.attempts = beat[t].attempts
      /\ beat' = [beat EXCEPT ![t] = y] /\ beat'[t] = y
      /\ \A u \in Ticks \ {t} : beat'[u] = beat[u]
      /\ \A p \in Episodes : p # EpisodeOf(t) => episode'[p] = episode[p]
      /\ claimant' = claimant
  BY DEF TableTypes, Publishes, HeldBy, PostRows
<1>2. /\ consumption' \in [Events -> EventRows]
      /\ \A e \in Events : consumption[e].beat # t => consumption'[e] = consumption[e]
      /\ \A e \in Events : consumption[e].beat = t =>
            consumption'[e].status = "applied" /\ consumption'[e].beat = t
  <2> DEFINE c == [status |-> "applied", run |-> NoRun, expiry |-> 0, beat |-> t]
  <2>1. c \in EventRows /\ c.status = "applied" /\ c.beat = t
    BY DEF EventRows
  <2>2. consumption' = [e \in Events |-> IF consumption[e].beat = t THEN c ELSE consumption[e]]
    BY DEF Publishes
  <2> HIDE DEF c, Tables
  <2> QED
    BY <1>1, <2>1, <2>2
<1>3. /\ posts \in Seq(PostRows) /\ posts' = Append(posts, q) /\ posts' \in Seq(PostRows)
      /\ DOMAIN posts = 1 .. Len(posts) /\ Len(posts) \in Nat
      /\ DOMAIN posts' = 1 .. Len(posts) + 1
      /\ \A i \in DOMAIN posts : posts'[i] = posts[i]
      /\ posts'[Len(posts) + 1] = q
  BY DEF TableTypes, Publishes
<1>4. TableTypes'
  BY <1>1, <1>2, <1>3 DEF TableTypes, Publishes
<1>5. /\ Open(t) /\ Exists(t) /\ IsLive(EpisodeOf(t)) /\ claimant[t] = q.run
      /\ \A u \in Ticks : Open(u) => u = t
  BY <1>1 DEF BeatPart, OnePart, Open, OpenStatus, Exists
<1>6. \A u \in Ticks : ~Open(u)'
  BY <1>1, <1>5 DEF Open, OpenStatus
<1>7. \A p \in Episodes : IsLive(p)' => IsLive(p)
  BY <1>1, <1>5 DEF IsLive
<1>8. \A u \in Ticks : /\ Exists(u)' <=> Exists(u)
                       /\ beat'[u].sources = beat[u].sources /\ beat'[u].attempts = beat[u].attempts
                       /\ beat'[u].status = "succeeded" <=> beat[u].status = "succeeded" \/ u = t
                       /\ beat'[u].status # "claimed"
  BY <1>1, <1>5, <1>6 DEF Exists, Keeps, Open, OpenStatus
<1>9. BeatPart' /\ OnePart'
  BY <1>6, <1>7, <1>8 DEF BeatPart, OnePart
<1>10. EventPart'
  BY <1>1, <1>2, <1>8 DEF EventPart
<1>11. \A e \in Events : e \in beat[t].sources <=> consumption[e].beat = t
  <2> SUFFICES ASSUME NEW e \in Events, consumption[e].beat = t PROVE e \in beat[t].sources
    BY DEF Publishes
  <2>1. consumption[e].status # "applied"
    BY <1>1 DEF EventPart
  <2>2. consumption[e] \in EventRows
    BY <1>1
  <2>3. consumption[e].status = "claimed"
    BY <2>1, <2>2, TickFacts DEF EventRows, EventPart
  <2>4. e \in beat[t].sources \/ consumption[e].run = q.run
    BY <1>5, <2>3 DEF EventPart
  <2> QED
    BY <2>3, <2>4 DEF HeldBy, Publishes
<1>12. PostPart'
  <2>1. \A u \in Ticks : Published(u)' <=> Published(u) \/ u = t
    <3> SUFFICES ASSUME NEW u \in Ticks
                 PROVE  (\E i \in DOMAIN posts' : posts'[i].tick = u)
                        <=> (\E i \in DOMAIN posts : posts[i].tick = u) \/ u = t
      BY DEF Published
    <3>1. \A i \in DOMAIN posts' : i \in DOMAIN posts \/ i = Len(posts) + 1
      BY <1>3
    <3>2. \A i \in DOMAIN posts : i \in DOMAIN posts'
      BY <1>3
    <3>3. Len(posts) + 1 \in DOMAIN posts'
      BY <1>3
    <3> QED
      BY <1>1, <1>3, <3>1, <3>2, <3>3
  <2>2. \A i \in DOMAIN posts : /\ posts[i].tick \in Ticks /\ posts[i].sources \subseteq Events
                                /\ posts[i].tick # t
    BY <1>1, PostTypes DEF Published
  <2>3. \A e \in Events, u \in Ticks \ {t} :
           /\ consumption'[e].beat = u <=> consumption[e].beat = u
           /\ consumption'[e].beat = u => consumption'[e] = consumption[e]
    BY <1>2
  <2>4. ASSUME NEW i \in DOMAIN posts'
        PROVE  /\ claimant'[posts'[i].tick] = posts'[i].run
               /\ \A e \in posts'[i].sources : consumption'[e].beat = posts'[i].tick
    <3>1. CASE i \in DOMAIN posts
      <4>1. PICK p : p = posts[i]
        OBVIOUS
      <4>2. posts'[i] = p
        BY <1>3, <3>1, <4>1
      <4>3. p.tick \in Ticks \ {t} /\ p.sources \subseteq Events
        BY <2>2, <3>1, <4>1
      <4>4. claimant[p.tick] = p.run /\ \A e \in p.sources : consumption[e].beat = p.tick
        BY <3>1, <4>1 DEF PostPart
      <4> QED
        BY <1>1, <2>3, <4>2, <4>3, <4>4
    <3>2. CASE i = Len(posts) + 1
      <4>1. posts'[i] = q
        BY <1>3, <3>2
      <4> QED
        BY <1>1, <1>2, <1>5, <4>1
    <3> QED
      BY <1>3, <3>1, <3>2
  <2>5. ASSUME NEW u \in Ticks, beat'[u].status = "succeeded", NEW e \in Events
        PROVE  /\ e \in beat'[u].sources <=> consumption'[e].beat = u
               /\ consumption'[e].beat = u => consumption'[e].status = "applied"
    <3>1. CASE u = t
      BY <1>2, <1>8, <1>11, <3>1
    <3>2. CASE u # t
      BY <1>8, <2>3, <2>5, <3>2 DEF PostPart
    <3> QED
      BY <3>1, <3>2
  <2>6. \A u \in Ticks : beat'[u].status = "succeeded" <=> Published(u)'
    BY <1>8, <2>1 DEF PostPart
  <2> QED
    BY <2>4, <2>5, <2>6 DEF PostPart
<1>13. Moves(a)
  <2>1. \A u \in Ticks : beat[u].attempts \in Nat
    <3>1. \A u \in Ticks : beat[u] \in BeatRows
      BY <1>1
    <3> QED
      BY <3>1, BeatTypes
  <2> QED
    BY <1>7, <1>8, <2>1 DEF Moves, HeldBy
<1> QED
  BY <1>4, <1>9, <1>10, <1>12, <1>13

----------------------------------------------------------------------------
(* The workers. *)
Busy == {"assemble", "claim", "events"}

WorkerRows == [pc : {"idle", "assemble", "claim", "events", "generate", "fail"},
               run : Activities \cup {NoRun}, started : Nat, tick : Ticks \cup {NoTick},
               sources : SUBSET Events, todo : SUBSET Events, retryable : BOOLEAN]

(* A run has the sources of its beat, or took the beat over with its last     *)
(* attempt and has claimed what it has itself, while it holds the beat.       *)
Sourced(x) ==
    \/ x.sources = beat[x.tick].sources
    \/ /\ beat[x.tick].attempts = MaxAttempts
       /\ HeldBy(beat[x.tick], x.run) =>
             \A e \in x.sources \ x.todo :
                HeldBy(consumption[e], x.run) /\ consumption[e].beat = x.tick

(* What a worker whose record is x knows of the tables. *)
View(x) ==
    /\ x.pc = "idle" => x.run = NoRun
    /\ x.pc # "idle" => x.run \in Activities
    /\ x.pc \in {"claim", "events", "generate", "fail"} => x.tick \in Ticks
    /\ x.pc \in {"events", "generate", "fail"} => Exists(x.tick)
    /\ x.pc \in Busy => frozen[x.run] = NoTick
    /\ x.pc = "generate" => frozen[x.run] = x.tick /\ x.todo = {}
    /\ x.pc \in {"assemble", "claim"} =>
          \A p \in Episodes : ItemEnd[p] <= x.started => ~IsLive(p)
    /\ x.pc = "claim" =>
          /\ ItemStart[EpisodeOf(x.tick)] <= x.started
          /\ ~(HeldBy(beat[x.tick], x.run) /\ x.started < beat[x.tick].expiry)
    /\ x.pc = "events" => x.todo \subseteq x.sources
    /\ x.pc \in {"events", "generate"} => Sourced(x)

ViewPart == \A w \in Workers, x \in WorkerRows : x = worker[w] => View(x)

(* Two workers share an activity only from its checkpoint on. *)
AlonePart ==
    \A w, v \in Workers : w # v /\ worker[w].run = worker[v].run /\ worker[w].run # NoRun
        => worker[w].pc \in {"generate", "fail"}

FrozenPart == \A r \in Activities : frozen[r] # NoTick => Exists(frozen[r])

OtherTypes ==
    /\ worker \in [Workers -> WorkerRows]
    /\ frozen \in [Activities -> Ticks \cup {NoTick}]
    /\ ended \subseteq Activities
    /\ now \in 0 .. MaxNow

IInv == Tables /\ OtherTypes /\ ViewPart /\ AlonePart /\ FrozenPart

(* What a worker knows survives the steps of others. *)
LEMMA ViewKept ==
    ASSUME Tables, Tables', NEW x \in WorkerRows, View(x), NEW a, Moves(a),
           x.pc = "claim" => x.run # a,
           x.pc \in Busy \cup {"generate"} => frozen'[x.run] = frozen[x.run]
    PROVE  View(x)'
<1>1. \A p \in Episodes : IsLive(p)' => IsLive(p)
  BY DEF Moves
<1>2. ASSUME x.pc = "claim"
      PROVE  ~(HeldBy(beat'[x.tick], x.run) /\ x.started < beat'[x.tick].expiry)
  <2>1. x.tick \in Ticks /\ x.run \in Activities /\ x.run # a
    BY <1>2 DEF View
  <2>2. HeldBy(beat'[x.tick], x.run) =>
          HeldBy(beat[x.tick], x.run) /\ beat'[x.tick].expiry = beat[x.tick].expiry
    BY <2>1 DEF Moves
  <2> QED
    BY <1>2, <2>2 DEF View
<1>3. ASSUME x.pc \in {"events", "generate", "fail"} PROVE Exists(x.tick)'
  BY <1>3 DEF View, Moves
<1>4. ASSUME x.pc \in {"events", "generate"} PROVE Sourced(x)'
  <2>1. /\ x.tick \in Ticks /\ x.run \in Activities /\ Exists(x.tick) /\ Sourced(x)
        /\ x.sources \subseteq Events
    BY <1>4 DEF View, WorkerRows
  <2>2. CASE x.sources = beat[x.tick].sources
    BY <2>1, <2>2 DEF Moves, Sourced
  <2>3. CASE x.sources # beat[x.tick].sources
    <3>1. /\ beat[x.tick].attempts = MaxAttempts
          /\ HeldBy(beat[x.tick], x.run) =>
                \A e \in x.sources \ x.todo :
                   HeldBy(consumption[e], x.run) /\ consumption[e].beat = x.tick
      BY <2>1, <2>3 DEF Sourced
    <3>2. beat'[x.tick].attempts = MaxAttempts
      <4>1. beat'[x.tick] \in BeatRows
        BY <2>1 DEF Tables, TableTypes
      <4>2. beat'[x.tick].attempts \in 0 .. 2
        BY <4>1, BeatTypes
      <4>3. beat'[x.tick].attempts >= beat[x.tick].attempts
        BY <2>1 DEF Moves
      <4> QED
        BY <3>1, <4>2, <4>3 DEF MaxAttempts
    <3>3. ASSUME HeldBy(beat'[x.tick], x.run) PROVE HeldBy(beat[x.tick], x.run)
      <4>1. \/ HeldBy(beat[x.tick], x.run)
            \/ beat[x.tick].attempts < MaxAttempts
        BY <2>1, <3>3 DEF Moves
      <4> QED
        BY <3>1, <4>1 DEF MaxAttempts
    <3>4. ASSUME HeldBy(beat'[x.tick], x.run), NEW e \in x.sources \ x.todo
          PROVE  HeldBy(consumption'[e], x.run) /\ consumption'[e].beat = x.tick
      BY <2>1, <3>1, <3>3, <3>4 DEF Moves
    <3> QED
      BY <3>2, <3>4 DEF Sourced
  <2> QED
    BY <2>2, <2>3
<1>5. /\ x.pc \in Busy => frozen'[x.run] = NoTick
      /\ x.pc = "generate" => frozen'[x.run] = x.tick
  BY DEF View
<1> QED
  BY <1>1, <1>2, <1>3, <1>4, <1>5 DEF View

(* Worker w takes a step of activity a, and has record y after it. *)
Acts(w, a, y) ==
    /\ Moves(a)
    /\ worker' = [worker EXCEPT ![w] = y] /\ View(y)'
    /\ a = worker[w].run \/ Free(a)
    /\ \/ y.run = NoRun
       \/ y.run = worker[w].run /\ (worker[w].pc \in {"generate", "fail"} => y.pc \in {"generate", "fail"})
       \/ y.run = a /\ y.pc = "generate" /\ Free(a)
       \/ \A v \in Workers \ {w} : worker[v].run # y.run
    /\ \/ frozen' = frozen
       \/ /\ a = worker[w].run /\ worker[w].pc = "events" /\ y.pc = "generate"
          /\ frozen' = [frozen EXCEPT ![a] = y.tick]
    /\ ended' \subseteq Activities
    /\ now' = now

LEMMA ActsKept ==
    ASSUME IInv, Tables', NEW w \in Workers, NEW a, NEW y \in WorkerRows, Acts(w, a, y)
    PROVE  IInv'
<1> USE DEF IInv
<1>1. /\ worker' = [worker EXCEPT ![w] = y] /\ worker \in [Workers -> WorkerRows]
      /\ worker'[w] = y /\ \A v \in Workers \ {w} : worker'[v] = worker[v]
      /\ worker' \in [Workers -> WorkerRows]
  BY DEF Acts, OtherTypes
<1>2. /\ Moves(a) /\ View(y)'
      /\ a = worker[w].run \/ Free(a)
      /\ \/ frozen' = frozen
         \/ /\ a = worker[w].run /\ worker[w].pc = "events" /\ y.pc = "generate"
            /\ frozen' = [frozen EXCEPT ![a] = y.tick]
  BY DEF Acts
<1>3. View(worker[w])
  BY <1>1 DEF ViewPart
<1>4. \A v \in Workers : View(worker[v])
  <2> SUFFICES ASSUME NEW v \in Workers PROVE View(worker[v])
    OBVIOUS
  <2> QED
    BY <1>1 DEF ViewPart
<1>5. ASSUME NEW v \in Workers \ {w}, worker[v].run = a, worker[v].pc \in Busy PROVE FALSE
  <2>1. worker[v].pc \notin {"idle", "generate", "fail"} /\ worker[v].run \in Activities
    BY <1>4, <1>5 DEF Busy, View
  <2>2. CASE a = worker[w].run
    BY <1>5, <2>1, <2>2, BeatAssumption DEF AlonePart
  <2>3. CASE Free(a)
    BY <1>5, <2>1, <2>3 DEF Free
  <2> QED
    BY <1>2, <2>2, <2>3
<1>6. ASSUME NEW v \in Workers \ {w}, worker[v].pc \in Busy \cup {"generate"}
      PROVE  frozen'[worker[v].run] = frozen[worker[v].run]
  <2>1. CASE frozen' = frozen
    BY <2>1
  <2>2. CASE /\ a = worker[w].run /\ worker[w].pc = "events" /\ y.pc = "generate"
             /\ frozen' = [frozen EXCEPT ![a] = y.tick]
    <3>1. worker[w].run \in Activities /\ worker[w].run # NoRun /\ worker[v].run \in Activities
      BY <1>3, <1>4, <1>6, <2>2, BeatAssumption DEF View, Busy
    <3>2. worker[v].run # a
      BY <2>2, <3>1 DEF AlonePart
    <3> QED
      BY <2>2, <3>1, <3>2 DEF OtherTypes
  <2> QED
    BY <1>2, <2>1, <2>2
<1>7. ViewPart'
  <2> SUFFICES ASSUME NEW v \in Workers, NEW x \in WorkerRows, x = worker'[v] PROVE View(x)'
    BY DEF ViewPart
  <2>1. CASE v = w
    BY <1>1, <1>2, <2>1
  <2>2. CASE v # w
    <3>1. x = worker[v] /\ View(x)
      BY <1>1, <2>2 DEF ViewPart
    <3>2. x.pc = "claim" => x.run # a
      BY <1>5, <2>2, <3>1 DEF Busy
    <3>3. x.pc \in Busy \cup {"generate"} => frozen'[x.run] = frozen[x.run]
      BY <1>6, <2>2, <3>1
    <3> QED
      BY <1>2, <3>1, <3>2, <3>3, ViewKept
  <2> QED
    BY <2>1, <2>2
<1>8. AlonePart'
  <2> SUFFICES ASSUME NEW u \in Workers, NEW v \in Workers, u # v,
                      worker'[u].run = worker'[v].run, worker'[u].run # NoRun
               PROVE  worker'[u].pc \in {"generate", "fail"}
    BY DEF AlonePart
  <2>1. CASE u # w /\ v # w
    BY <1>1, <2>1 DEF AlonePart
  <2>2. CASE u = w
    <3>1. worker[v].run = y.run /\ worker'[v] = worker[v] /\ y.run # NoRun
      BY <1>1, <2>2
    <3> QED
      BY <1>1, <2>2, <3>1 DEF Acts, AlonePart
  <2>3. CASE v = w
    <3>1. worker'[u] = worker[u] /\ worker[u].run = y.run /\ y.run # NoRun /\ u # w
      BY <1>1, <2>3
    <3>2. CASE y.run = worker[w].run
      BY <3>1, <3>2 DEF AlonePart
    <3>3. CASE Free(a) /\ y.run = a
      BY <3>1, <3>3 DEF Free
    <3> QED
      BY <3>1, <3>2, <3>3 DEF Acts
  <2> QED
    BY <2>1, <2>2, <2>3
<1>9. OtherTypes' /\ FrozenPart'
  <2>1. \A t \in Ticks : Exists(t) => Exists(t)'
    BY <1>2 DEF Moves
  <2>2. CASE frozen' = frozen
    <3>1. FrozenPart'
      <4> SUFFICES ASSUME NEW r \in Activities, frozen[r] # NoTick PROVE Exists(frozen[r])'
        BY <2>2 DEF FrozenPart, Exists
      <4>1. frozen[r] \in Ticks /\ Exists(frozen[r])
        BY DEF FrozenPart, OtherTypes
      <4> QED
        BY <2>1, <2>2, <4>1 DEF Exists
    <3> QED
      BY <1>1, <2>2, <3>1 DEF OtherTypes, Acts
  <2>3. CASE /\ a = worker[w].run /\ worker[w].pc = "events" /\ y.pc = "generate"
             /\ frozen' = [frozen EXCEPT ![a] = y.tick]
    <3>1. a \in Activities
      BY <1>3, <2>3 DEF View
    <3>2. y.tick \in Ticks /\ beat'[y.tick].status # "none"
      BY <1>2, <2>3 DEF View, Exists
    <3>3. \A r \in Activities : frozen[r] # NoTick => frozen[r] \in Ticks /\ beat'[frozen[r]].status # "none"
      BY <2>1 DEF FrozenPart, OtherTypes, Exists
    <3>4. \A r \in Activities : frozen'[r] = IF r = a THEN y.tick ELSE frozen[r]
      BY <2>3 DEF OtherTypes
    <3>5. FrozenPart'
      BY <3>2, <3>3, <3>4 DEF FrozenPart, Exists
    <3>6. frozen' \in [Activities -> Ticks \cup {NoTick}]
      BY <2>3, <3>2 DEF OtherTypes
    <3> QED
      BY <1>1, <3>5, <3>6 DEF OtherTypes, Acts
  <2> QED
    BY <1>2, <2>2, <2>3
<1> QED
  BY <1>7, <1>8, <1>9

(* A step of no worker. *)
LEMMA OthersKept ==
    ASSUME IInv, Tables', Moves(NoRun), worker' = worker, frozen' = frozen, ended' = ended,
           now' \in 0 .. MaxNow
    PROVE  IInv'
<1> USE DEF IInv
<1>1. ViewPart'
  <2> SUFFICES ASSUME NEW v \in Workers, NEW x \in WorkerRows, x = worker[v] PROVE View(x)'
    BY DEF ViewPart
  <2>1. View(x)
    BY DEF ViewPart
  <2>2. x.pc = "claim" => x.run # NoRun
    BY <2>1, BeatAssumption DEF View
  <2> QED
    BY <2>1, <2>2, ViewKept
<1>2. FrozenPart'
  <2>1. \A t \in Ticks : Exists(t) => beat'[t].status # "none"
    BY DEF Moves, Exists
  <2>2. \A r \in Activities : frozen[r] # NoTick => frozen[r] \in Ticks /\ Exists(frozen[r])
    BY DEF FrozenPart, OtherTypes
  <2> QED
    BY <2>1, <2>2 DEF FrozenPart, Exists
<1> QED
  BY <1>1, <1>2 DEF AlonePart, OtherTypes

----------------------------------------------------------------------------
(* The actions. *)
LEMMA WorkerFacts ==
    ASSUME IInv, NEW w \in Workers
    PROVE  worker[w] \in WorkerRows /\ View(worker[w])
<1>1. worker[w] \in WorkerRows
  BY DEF IInv, OtherTypes
<1> PICK x \in WorkerRows : x = worker[w]
  BY <1>1
<1>2. View(x)
  BY DEF IInv, ViewPart
<1> QED
  BY <1>1, <1>2

LEMMA WorkerTypes ==
    ASSUME NEW x \in WorkerRows
    PROVE  /\ x.pc \in {"idle", "assemble", "claim", "events", "generate", "fail"}
           /\ x.run \in Activities \cup {NoRun} /\ x.started \in Nat
           /\ x.tick \in Ticks \cup {NoTick} /\ x.sources \subseteq Events
           /\ x.todo \subseteq Events
  BY DEF WorkerRows

LEMMA IdleFacts == Idle \in WorkerRows /\ Idle.run = NoRun /\ View(Idle)'
  BY DEF Idle, WorkerRows, View, Busy

LEMMA SameView ==
    ASSUME UNCHANGED <<episode, beat, consumption, frozen>>, NEW y, View(y)
    PROVE  View(y)'
  BY DEF View, Sourced, IsLive, Exists

LEMMA EpisodeForms ==
    ASSUME NEW x \in EpisodeRows, NEW status \in Live \cup {"completed", "cancelled"}
    PROVE  LET y == [x EXCEPT !.status = status]
           IN  y \in EpisodeRows /\ y.status = status
  BY DEF EpisodeRows

LEMMA CloseSteps ==
    ASSUME Tables, NEW time \in Nat, CloseElapsed(time), UNCHANGED <<posts, claimant>>
    PROVE  /\ \E S \in SUBSET Ticks, undone \in SUBSET Events : Closes(S, undone)
           /\ \A p \in Episodes : ItemEnd[p] <= time => ~IsLive(p)'
<1> USE DEF Tables
<1> DEFINE S == {t \in Ticks : EpisodeOf(t) \in Elapsed(time) /\ Open(t)}
           undone == {e \in Events : consumption[e].status = "claimed" /\ consumption[e].beat \in S}
           over(p) == IF episode[p].status = "active" THEN "completed" ELSE "cancelled"
<1>1. \A t \in Ticks : beat[t] \in BeatRows
  BY DEF TableTypes
<1>2. beat' = [t \in Ticks |-> IF t \notin S THEN beat[t] ELSE Shut(beat[t], "cancelled")]
  BY DEF CloseElapsed, Shut
<1>3. \A t \in Ticks : /\ Shut(beat[t], "cancelled") \in BeatRows
                       /\ Keeps(beat[t], Shut(beat[t], "cancelled"))
                       /\ Shut(beat[t], "cancelled").status = "cancelled"
                       /\ Shut(beat[t], "cancelled").attempts = beat[t].attempts
  BY <1>1, ShutRow DEF BeatStates
<1>4. /\ consumption' = Released(undone)
      /\ \A e \in undone : consumption[e].status = "claimed" /\ consumption[e].beat \in S
  BY DEF CloseElapsed
<1>5. episode' = [p \in Episodes |-> IF p \notin Elapsed(time) THEN episode[p]
                                     ELSE [episode[p] EXCEPT !.status = over(p)]]
  BY DEF CloseElapsed
<1>6. \A p \in Episodes : /\ [episode[p] EXCEPT !.status = over(p)] \in EpisodeRows
                          /\ [episode[p] EXCEPT !.status = over(p)].status = over(p)
  <2>1. \A p \in Episodes : episode[p] \in EpisodeRows
    BY DEF TableTypes
  <2> QED
    BY <2>1, EpisodeForms
<1>7. /\ episode' \in [Episodes -> EpisodeRows]
      /\ \A p \in Episodes : p \notin Elapsed(time) => episode'[p] = episode[p]
      /\ \A p \in Episodes : p \in Elapsed(time) => episode'[p].status = over(p)
  <2>1. episode \in [Episodes -> EpisodeRows]
    BY DEF TableTypes
  <2> HIDE DEF over
  <2> QED
    BY <1>5, <1>6, <2>1
<1>8. \A p \in Episodes : over(p) \notin Live
  BY DEF Live
<1>9. \A p \in Episodes : ItemEnd[p] <= time /\ IsLive(p) => p \in Elapsed(time)
  BY DEF Elapsed, IsLive
<1>10. \A t \in Ticks : EpisodeOf(t) \in Episodes
  BY TickFacts
<1>11. \A u \in Ticks : Open(u)' => u \notin S /\ Open(u)
  BY <1>2, <1>3 DEF Open, OpenStatus
<1> HIDE DEF over
<1>12. Closes(S, undone)
  <2>1. \A u \in S : Open(u)
    OBVIOUS
  <2>2. beat' \in [Ticks -> BeatRows] /\ \A u \in Ticks \ S : beat'[u] = beat[u]
    BY <1>1, <1>2, <1>3
  <2>3. \A u \in S : /\ Keeps(beat[u], beat'[u]) /\ beat'[u].attempts = beat[u].attempts
                     /\ beat'[u].status \in {"pending", "failed", "cancelled"}
    BY <1>2, <1>3
  <2>4. \A u \in Ticks : Open(u)' => episode'[EpisodeOf(u)] = episode[EpisodeOf(u)]
    BY <1>7, <1>10, <1>11
  <2>5. \A p \in Episodes : IsLive(p)' => IsLive(p)
    BY <1>7, <1>8 DEF IsLive
  <2> QED
    BY <1>4, <1>7, <2>1, <2>2, <2>3, <2>4, <2>5 DEF Closes
<1>13. \A p \in Episodes : ItemEnd[p] <= time => ~IsLive(p)'
  BY <1>7, <1>8, <1>9 DEF IsLive
<1> QED
  BY <1>12, <1>13

LEMMA BeginKept ==
    ASSUME IInv, NEW w \in Workers, NEW r \in Activities, Begin(w, r)
    PROVE  IInv'
<1> PICK y : y = [Idle EXCEPT !.pc = "assemble", !.run = r, !.started = now]
  OBVIOUS
<1>1. /\ Tables /\ OtherTypes /\ frozen[r] = NoTick /\ Free(r) /\ CloseElapsed(now)
      /\ worker' = [worker EXCEPT ![w] = y]
      /\ UNCHANGED <<frozen, ended, posts, claimant, now>>
  BY DEF IInv, Begin
<1>2. now \in Nat
  BY <1>1, BeatAssumption DEF OtherTypes
<1>3. /\ \E S \in SUBSET Ticks, undone \in SUBSET Events : Closes(S, undone)
      /\ \A p \in Episodes : ItemEnd[p] <= now => ~IsLive(p)'
  BY <1>1, <1>2, CloseSteps
<1>4. Tables' /\ Moves(r)
  BY <1>1, <1>3, ClosesKept
<1>5. /\ y \in WorkerRows /\ y.pc = "assemble" /\ y.run = r /\ y.started = now
  BY <1>2 DEF Idle, WorkerRows
<1>6. View(y)'
  BY <1>1, <1>3, <1>5 DEF View, Busy
<1>7. ASSUME NEW v \in Workers \ {w}, worker[v].run = r PROVE FALSE
  <2>1. worker[v].pc = "generate"
    BY <1>1, <1>7 DEF Free
  <2>2. frozen[r] \in Ticks
    BY <1>7, <2>1, WorkerFacts DEF View
  <2> QED
    BY <1>1, <2>2, TickFacts
<1>8. Acts(w, r, y)
  BY <1>1, <1>4, <1>5, <1>6, <1>7 DEF Acts, OtherTypes
<1> QED
  BY <1>4, <1>5, <1>8, ActsKept

LEMMA CloseElsewhere ==
    ASSUME IInv, Reconcile
    PROVE  IInv'
<1>1. Tables /\ CloseElapsed(now) /\ UNCHANGED <<worker, frozen, ended, posts, claimant, now>>
  BY DEF IInv, Reconcile
<1>2. now \in Nat /\ now' \in 0 .. MaxNow
  BY <1>1, BeatAssumption DEF IInv, OtherTypes
<1>3. Tables' /\ Moves(NoRun)
  BY <1>1, <1>2, CloseSteps, ClosesKept
<1> QED
  BY <1>1, <1>2, <1>3, OthersKept

LEMMA TimeKept ==
    ASSUME IInv, Time
    PROVE  IInv'
<1>1. Tables' /\ Moves(NoRun)
  BY TablesStay DEF IInv, Time, TableVars
<1>2. now' \in 0 .. MaxNow
  BY BeatAssumption DEF IInv, OtherTypes, Time
<1> QED
  BY <1>1, <1>2, OthersKept DEF Time

(* The worker record after the changes that steps make of it. *)
LEMMA RecordForms ==
    ASSUME NEW x \in WorkerRows, NEW pc \in {"claim", "events", "generate", "fail"},
           NEW tick \in Ticks, NEW sources \in SUBSET Events, NEW flag \in BOOLEAN
    PROVE  /\ [x EXCEPT !.pc = pc] \in WorkerRows
           /\ [x EXCEPT !.pc = pc, !.retryable = flag] \in WorkerRows
           /\ [x EXCEPT !.pc = pc, !.todo = sources] \in WorkerRows
           /\ [x EXCEPT !.todo = sources, !.pc = pc] \in WorkerRows
           /\ [x EXCEPT !.pc = pc, !.tick = tick, !.sources = sources] \in WorkerRows
  BY DEF WorkerRows

LEMMA AssembleKept ==
    ASSUME IInv, NEW w \in Workers, Assemble(w)
    PROVE  IInv'
<1> PICK x \in WorkerRows : x = worker[w]
  BY WorkerFacts
<1>1. /\ Tables /\ worker \in [Workers -> WorkerRows] /\ x.pc = "assemble" /\ View(x)
      /\ UNCHANGED <<episode, beat, consumption, frozen, ended, posts, claimant, now>>
  BY WorkerFacts DEF IInv, OtherTypes, Assemble
<1>2. x.started \in Nat
  BY WorkerTypes
<1>3. \E p \in Episodes, t \in Ticks, s \in SUBSET Events :
          /\ p \in CurrentEpisode(x.started) /\ t \in TicksOf(p)
          /\ ~(HeldBy(beat[t], x.run) /\ x.started < beat[t].expiry)
          /\ worker' = [worker EXCEPT ![w].pc = "claim", ![w].tick = t, ![w].sources = s]
  <2>1. PICK p \in CurrentEpisode(x.started) :
          \/ /\ LatestBeat(p) # NoTick => ~Open(LatestBeat(p))
             /\ \E t \in DueTicks(p, x.started),
                   s \in SUBSET {e \in Events : ~Blocked(e, x.started)} :
                     worker' = [worker EXCEPT ![w].pc = "claim", ![w].tick = t, ![w].sources = s]
          \/ /\ LatestBeat(p) # NoTick /\ Open(LatestBeat(p))
             /\ beat[LatestBeat(p)].status = "claimed" => Expired(beat[LatestBeat(p)], x.started)
             /\ worker' = [worker EXCEPT ![w].pc = "claim", ![w].tick = LatestBeat(p),
                                         ![w].sources = beat[LatestBeat(p)].sources]
    BY DEF Assemble
  <2>2. /\ p \in Episodes /\ ItemStart[p] <= x.started /\ x.started < ItemEnd[p]
        /\ BeatsOf(p) \subseteq TicksOf(p) /\ TicksOf(p) \subseteq Ticks
    BY TickFacts DEF CurrentEpisode, BeatsOf
  <2>3. BeatsOf(p) # {} => LatestBeat(p) \in BeatsOf(p) /\ \A u \in BeatsOf(p) : u <= LatestBeat(p)
    BY <2>2, LatestFacts
  <2>4. BeatsOf(p) = {} => LatestBeat(p) = NoTick
    BY DEF LatestBeat
  <2>5. ASSUME NEW t \in DueTicks(p, x.started),
               NEW s \in SUBSET {e \in Events : ~Blocked(e, x.started)},
               worker' = [worker EXCEPT ![w].pc = "claim", ![w].tick = t, ![w].sources = s]
        PROVE  t \in TicksOf(p) /\ s \in SUBSET Events /\ beat[t].status # "claimed"
    <3>1. t = x.started - ((x.started - ItemStart[p]) % Interval)
      BY DEF DueTicks
    <3>2. t \in TicksOf(p)
      BY <1>2, <2>2, <3>1, DueIsTick
    <3>3. LatestBeat(p) = NoTick \/ LatestBeat(p) < t
      BY <3>1 DEF DueTicks
    <3>4. t \notin BeatsOf(p)
      <4> SUFFICES ASSUME t \in BeatsOf(p) PROVE FALSE
        OBVIOUS
      <4>1. LatestBeat(p) \in Nat /\ t \in Nat /\ LatestBeat(p) # NoTick /\ t <= LatestBeat(p)
        BY <2>2, <2>3, TickFacts
      <4> QED
        BY <3>3, <4>1
    <3> QED
      BY <3>2, <3>4 DEF BeatsOf
  <2>6. CASE LatestBeat(p) # NoTick
    <3>1. LatestBeat(p) \in TicksOf(p) /\ LatestBeat(p) \in Ticks
      BY <2>2, <2>3, <2>4, <2>6
    <3>2. /\ beat[LatestBeat(p)].sources \in SUBSET Events
          /\ beat[LatestBeat(p)].expiry \in Nat
      <4>1. beat[LatestBeat(p)] \in BeatRows
        BY <1>1, <3>1 DEF Tables, TableTypes
      <4> QED
        BY <4>1, BeatTypes
    <3>3. ASSUME beat[LatestBeat(p)].status = "claimed" => Expired(beat[LatestBeat(p)], x.started)
          PROVE  ~(HeldBy(beat[LatestBeat(p)], x.run) /\ x.started < beat[LatestBeat(p)].expiry)
      BY <1>2, <3>2, <3>3 DEF HeldBy, Expired
    <3> QED
      BY <2>1, <2>2, <2>5, <3>1, <3>2, <3>3 DEF HeldBy
  <2>7. CASE LatestBeat(p) = NoTick
    BY <2>1, <2>2, <2>5, <2>7 DEF HeldBy
  <2> QED
    BY <2>6, <2>7
<1>4. PICK p \in Episodes, t \in Ticks, s \in SUBSET Events :
          /\ p \in CurrentEpisode(x.started) /\ t \in TicksOf(p)
          /\ ~(HeldBy(beat[t], x.run) /\ x.started < beat[t].expiry)
          /\ worker' = [worker EXCEPT ![w].pc = "claim", ![w].tick = t, ![w].sources = s]
  BY <1>3
<1>5. EpisodeOf(t) = p /\ ItemStart[p] <= x.started
  BY <1>4, TickFacts DEF CurrentEpisode
<1> PICK y : y = [x EXCEPT !.pc = "claim", !.tick = t, !.sources = s]
  OBVIOUS
<1>6. worker' = [worker EXCEPT ![w] = y]
  BY <1>1, <1>4
<1>7. y \in WorkerRows
  BY RecordForms
<1>8. y.pc = "claim" /\ y.run = x.run /\ y.started = x.started /\ y.tick = t
  BY DEF WorkerRows
<1>9. View(y)'
  <2>1. View(y)
    BY <1>1, <1>4, <1>5, <1>8 DEF View, Busy
  <2> QED
    BY <1>1, <2>1, SameView
<1>10. Tables' /\ Moves(x.run)
  BY <1>1, TablesStay DEF TableVars
<1>11. Acts(w, x.run, y)
  BY <1>1, <1>6, <1>8, <1>9, <1>10 DEF Acts, IInv, OtherTypes
<1> QED
  BY <1>7, <1>10, <1>11, ActsKept

(* The record of a worker that ends. *)
LEMMA FinishForm ==
    ASSUME IInv, NEW w \in Workers, worker[w].pc # "idle", Finish(w)
    PROVE  /\ worker' = [worker EXCEPT ![w] = Idle]
           /\ ended' \subseteq Activities
  BY WorkerFacts DEF Finish, View, IInv, OtherTypes

LEMMA GoesIdle ==
    ASSUME IInv, NEW w \in Workers, Tables', Moves(worker[w].run),
           worker' = [worker EXCEPT ![w] = Idle], ended' \subseteq Activities,
           UNCHANGED <<frozen, now>>
    PROVE  IInv'
<1> PICK a : a = worker[w].run
  OBVIOUS
<1>1. Acts(w, a, Idle)
  BY IdleFacts DEF Acts
<1> QED
  BY <1>1, IdleFacts, ActsKept

(* A claim is a claim of the row or its renewal. *)
LEMMA ClaimMoves ==
    ASSUME Tables, NEW t \in Ticks, NEW r \in Activities, NEW time \in Nat, Reclaimable(t, time),
           NEW expiry \in Nat,
           beat' = [beat EXCEPT ![t] = Claim(@, r, expiry)],
           claimant' = [claimant EXCEPT ![t] = r], UNCHANGED <<episode, consumption, posts>>
    PROVE  /\ Tables' /\ Moves(r)
           /\ beat'[t].sources = beat[t].sources /\ Exists(t) /\ Exists(t)'
           /\ beat[t].attempts = 1 /\ beat'[t].attempts = 2
<1> PICK x \in BeatRows : x = beat[t]
  BY DEF Tables, TableTypes
<1> PICK y : y = Claim(x, r, expiry)
  OBVIOUS
<1>1. /\ x.status \in OpenStatus /\ x.attempts < MaxAttempts
  BY DEF Reclaimable, OpenStatus
<1>2. /\ y \in BeatRows /\ Keeps(x, y)
      /\ y.status = "claimed" /\ y.run = r /\ y.attempts = x.attempts + 1
  BY <1>1, ClaimRow
<1>3. beat' = [beat EXCEPT ![t] = y] /\ beat'[t] = y
  BY DEF Tables, TableTypes
<1>4. x.attempts \in Nat /\ x.attempts >= 1 /\ Exists(t)
  BY <1>1, BeatTypes DEF Tables, BeatPart, Exists, OpenStatus
<1>5. RowMoves(t, y, r)
  BY <1>1, <1>2, <1>3, <1>4 DEF RowMoves, Open, OpenStatus
<1>6. Tables' /\ Moves(r)
  BY <1>2, <1>5, RowKept
<1>7. x.attempts = 1 /\ y.attempts = 2
  BY <1>1, <1>2, <1>4 DEF MaxAttempts
<1> QED
  BY <1>2, <1>3, <1>4, <1>6, <1>7 DEF Keeps, Exists

LEMMA GiveUpKept ==
    ASSUME IInv, NEW w \in Workers, GiveUp(w)
    PROVE  IInv'
<1> PICK x \in WorkerRows : x = worker[w]
  BY WorkerFacts
<1>1. /\ x.pc \in {"assemble", "claim"} /\ Finish(w) /\ View(x) /\ Tables
      /\ UNCHANGED <<episode, consumption, frozen, posts, claimant, now>>
  BY WorkerFacts DEF GiveUp, IInv
<1>2. worker' = [worker EXCEPT ![w] = Idle] /\ ended' \subseteq Activities
  BY <1>1, FinishForm
<1>3. Tables' /\ Moves(x.run)
  <2>1. CASE UNCHANGED beat
    BY <1>1, <2>1, TablesStay DEF TableVars
  <2>2. CASE /\ x.pc = "claim" /\ beat[x.tick].status = "claimed"
             /\ beat' = [beat EXCEPT ![x.tick].status = "pending", ![x.tick].run = NoRun,
                                     ![x.tick].expiry = 0]
    <3>1. x.tick \in Ticks /\ x.run \in Activities \cup {NoRun}
      BY <1>1, <2>2, WorkerTypes DEF View
    <3> PICK b \in BeatRows : b = beat[x.tick]
      BY <1>1, <3>1 DEF Tables, TableTypes
    <3> PICK y : y = Shut(b, "pending")
      OBVIOUS
    <3>2. /\ y \in BeatRows /\ Keeps(b, y) /\ y.status = "pending" /\ y.attempts = b.attempts
      BY ShutRow DEF BeatStates, OpenStatus
    <3>3. beat' = [beat EXCEPT ![x.tick] = y]
      BY <1>1, <2>2, <3>1 DEF Tables, TableTypes, Shut
    <3>4. b.attempts \in Nat
      BY BeatTypes
    <3>5. Open(x.tick) /\ y.status \in OpenStatus /\ Keeps(beat[x.tick], y)
      BY <2>2, <3>2 DEF Open, OpenStatus
    <3>6. y.attempts >= beat[x.tick].attempts /\ y.status # "claimed"
      BY <3>2, <3>4
    <3>7. RowMoves(x.tick, y, x.run)
      BY <1>1, <3>3, <3>5, <3>6 DEF RowMoves
    <3> QED
      BY <1>1, <3>1, <3>2, <3>7, RowKept
  <2> QED
    BY <2>1, <2>2 DEF GiveUp
<1> QED
  BY <1>1, <1>2, <1>3, GoesIdle

LEMMA NewRow ==
    ASSUME Tables, NEW w \in Workers, NEW x \in WorkerRows, x = worker[w], x.tick \in Ticks,
           NEW r \in Activities, NEW expiry \in Nat, NEW y, y = Claim(NewBeat(w), r, expiry)
    PROVE  /\ y \in BeatRows /\ y.status = "claimed" /\ y.run = r /\ y.attempts = 1
           /\ y.seq = episode[EpisodeOf(x.tick)].next
           /\ y.previous = episode[EpisodeOf(x.tick)].last
           /\ y.sources = x.sources
<1>1. episode[EpisodeOf(x.tick)] \in EpisodeRows
  BY TickFacts DEF Tables, TableTypes
<1> PICK seq \in Nat : seq = episode[EpisodeOf(x.tick)].next
  BY <1>1 DEF EpisodeRows
<1> PICK previous \in Ticks \cup {NoTick} : previous = episode[EpisodeOf(x.tick)].last
  BY <1>1 DEF EpisodeRows
<1> PICK sources \in SUBSET Events : sources = x.sources
  BY WorkerTypes
<1> PICK b : b = NewBeat(w)
  OBVIOUS
<1>2. /\ b.status = "none" /\ b.run = NoRun /\ b.attempts = 0
      /\ b.seq = seq /\ b.previous = previous /\ b.sources = sources
  BY DEF NewBeat, NoBeat
<1>3. "none" \in BeatStates /\ 0 \in 0 .. MaxAttempts /\ 0 \in Nat
  BY DEF BeatStates, MaxAttempts
<1>4. b \in [status : BeatStates, run : Activities \cup {NoRun}, expiry : Nat,
             attempts : 0 .. MaxAttempts, seq : Nat, previous : Ticks \cup {NoTick},
             sources : SUBSET Events]
  BY <1>3 DEF NewBeat, NoBeat
<1>5. b \in BeatRows /\ b.attempts < MaxAttempts
  BY <1>2, <1>4 DEF BeatRows, MaxAttempts
<1>6. y = Claim(b, r, expiry)
  OBVIOUS
<1>7. /\ y \in BeatRows /\ Keeps(b, y)
      /\ y.status = "claimed" /\ y.run = r /\ y.attempts = b.attempts + 1
  BY <1>5, <1>6, ClaimRow
<1> QED
  BY <1>2, <1>7 DEF Keeps

LEMMA ClaimBeatKept ==
    ASSUME IInv, NEW w \in Workers, ClaimBeat(w)
    PROVE  IInv'
<1> PICK x \in WorkerRows : x = worker[w]
  BY WorkerFacts
<1>1. /\ Tables /\ worker \in [Workers -> WorkerRows] /\ x.pc = "claim" /\ View(x)
      /\ IsLive(EpisodeOf(x.tick))
      /\ claimant' = [claimant EXCEPT ![x.tick] = x.run]
      /\ worker' = [worker EXCEPT ![w].pc = "events", ![w].todo = x.sources]
      /\ UNCHANGED <<episode, consumption, frozen, ended, posts, now>>
      /\ \/ /\ beat[x.tick].status = "none" /\ SeqFree(EpisodeOf(x.tick))
            /\ beat' = [beat EXCEPT ![x.tick] = Claim(NewBeat(w), x.run, x.started + Lease)]
         \/ /\ Reclaimable(x.tick, x.started)
            /\ beat' = [beat EXCEPT ![x.tick] = Claim(@, x.run, x.started + Lease)]
         \/ HeldBy(beat[x.tick], x.run) /\ ~Expired(beat[x.tick], x.started)
  BY WorkerFacts DEF IInv, OtherTypes, ClaimBeat, IsLive
<1>2. /\ x.tick \in Ticks /\ x.run \in Activities /\ x.started \in Nat
      /\ x.started + Lease \in Nat /\ x.sources \in SUBSET Events
      /\ frozen[x.run] = NoTick
      /\ ~(HeldBy(beat[x.tick], x.run) /\ x.started < beat[x.tick].expiry)
  BY <1>1, WorkerTypes, PlanTypes DEF View, Busy
<1>3. /\ Tables' /\ Moves(x.run) /\ Exists(x.tick)'
      /\ beat'[x.tick].sources = x.sources \/ beat'[x.tick].attempts = MaxAttempts
  <2>1. CASE /\ beat[x.tick].status = "none" /\ SeqFree(EpisodeOf(x.tick))
             /\ beat' = [beat EXCEPT ![x.tick] = Claim(NewBeat(w), x.run, x.started + Lease)]
    <3> PICK y : y = Claim(NewBeat(w), x.run, x.started + Lease)
      OBVIOUS
    <3>1. EpisodeOf(x.tick) \in Episodes
      BY <1>2, TickFacts
    <3>2. /\ y \in BeatRows /\ y.status = "claimed" /\ y.run = x.run /\ y.attempts = 1
          /\ y.seq = episode[EpisodeOf(x.tick)].next /\ y.previous = episode[EpisodeOf(x.tick)].last
          /\ y.sources = x.sources
      BY <1>1, <1>2, NewRow
    <3>3. \A p \in Episodes : p < EpisodeOf(x.tick) => ~IsLive(p)
      <4> SUFFICES ASSUME NEW p \in Episodes, p < EpisodeOf(x.tick) PROVE ItemEnd[p] <= x.started
        BY <1>1 DEF View
      <4>1. ItemEnd[p] <= ItemStart[EpisodeOf(x.tick)] /\ ItemStart[EpisodeOf(x.tick)] <= x.started
        BY <1>1, <3>1, BeatAssumption DEF View
      <4>2. ItemEnd[p] \in Nat /\ ItemStart[EpisodeOf(x.tick)] \in Nat /\ x.started \in Nat
        BY <1>2, <3>1, PlanTypes
      <4>3. \A a, b, c \in Nat : a <= b /\ b <= c => a <= c
        OBVIOUS
      <4> QED
        BY <4>1, <4>2, <4>3
    <3>4. beat' = [beat EXCEPT ![x.tick] = y] /\ beat'[x.tick] = y
      BY <1>1, <1>2, <2>1 DEF Tables, TableTypes
    <3>5. NewMoves(x.tick, y, x.run)
      BY <1>1, <2>1, <3>2, <3>3, <3>4 DEF NewMoves
    <3>6. Tables' /\ Moves(x.run)
      BY <1>1, <1>2, <3>2, <3>5, NewKept
    <3> QED
      BY <3>2, <3>4, <3>6 DEF Exists
  <2>2. CASE /\ Reclaimable(x.tick, x.started)
             /\ beat' = [beat EXCEPT ![x.tick] = Claim(@, x.run, x.started + Lease)]
    BY <1>1, <1>2, <2>2, ClaimMoves DEF MaxAttempts
  <2>3. ~(HeldBy(beat[x.tick], x.run) /\ ~Expired(beat[x.tick], x.started))
    <3>1. beat[x.tick] \in BeatRows
      BY <1>1, <1>2 DEF Tables, TableTypes
    <3>2. beat[x.tick].expiry \in Nat
      BY <3>1, BeatTypes
    <3> QED
      BY <1>2, <3>2 DEF Expired
  <2> QED
    BY <1>1, <2>1, <2>2, <2>3
<1> PICK y : y = [x EXCEPT !.pc = "events", !.todo = x.sources]
  OBVIOUS
<1>4. worker' = [worker EXCEPT ![w] = y]
  BY <1>1
<1>5. y \in WorkerRows
  BY <1>2, RecordForms
<1>6. /\ y.pc = "events" /\ y.run = x.run /\ y.tick = x.tick
      /\ y.sources = x.sources /\ y.todo = x.sources
  BY DEF WorkerRows
<1>7. View(y)'
  <2>1. beat'[y.tick].sources = y.sources \/ beat'[y.tick].attempts = MaxAttempts
    BY <1>3, <1>6
  <2>2. y.sources \ y.todo = {}
    BY <1>6
  <2>3. Sourced(y)'
    BY <2>1, <2>2 DEF Sourced
  <2> QED
    BY <1>1, <1>2, <1>3, <1>6, <2>3 DEF View, Busy, Exists
<1>8. Acts(w, x.run, y)
  BY <1>1, <1>3, <1>4, <1>6, <1>7 DEF Acts, IInv, OtherTypes
<1> QED
  BY <1>3, <1>5, <1>8, ActsKept

LEMMA ClaimEventKept ==
    ASSUME IInv, NEW w \in Workers, NEW e \in Events, ClaimEvent(w, e)
    PROVE  IInv'
<1> PICK x \in WorkerRows : x = worker[w]
  BY WorkerFacts
<1> PICK may \in BOOLEAN : may <=> MayClaimEvent(e, x.tick, x.run, x.started)
  OBVIOUS
<1>1. /\ Tables /\ worker \in [Workers -> WorkerRows] /\ x.pc = "events" /\ View(x)
      /\ e \in x.todo
      /\ worker' = [worker EXCEPT ![w].todo = @ \ {e}, ![w].pc = IF may THEN @ ELSE "fail"]
      /\ IF may /\ ~(HeldBy(consumption[e], x.run) /\ ~Expired(consumption[e], x.started))
         THEN consumption' = [consumption EXCEPT ![e] =
                  [status |-> "claimed", run |-> x.run, expiry |-> x.started + Lease,
                   beat |-> x.tick]]
         ELSE UNCHANGED consumption
      /\ UNCHANGED <<episode, beat, frozen, ended, posts, claimant, now>>
  BY WorkerFacts DEF IInv, OtherTypes, ClaimEvent
<1>2. /\ x.tick \in Ticks /\ x.run \in Activities /\ x.started \in Nat
      /\ x.started + Lease \in Nat /\ x.sources \subseteq Events /\ x.todo \subseteq Events
      /\ frozen[x.run] = NoTick /\ Exists(x.tick) /\ x.todo \subseteq x.sources /\ Sourced(x)
  BY <1>1, WorkerTypes, PlanTypes DEF View, Busy
<1>3. may => HeldBy(beat[x.tick], x.run) /\ consumption[e].status # "applied"
  BY DEF MayClaimEvent
<1>4. /\ Tables' /\ Moves(x.run)
      /\ may => HeldBy(consumption'[e], x.run) /\ consumption'[e].beat = x.tick
      /\ \A f \in Events \ {e} : consumption'[f] = consumption[f]
  <2>1. CASE may /\ ~(HeldBy(consumption[e], x.run) /\ ~Expired(consumption[e], x.started))
    <3>1. e \in beat[x.tick].sources \/ beat[x.tick].attempts = MaxAttempts
      BY <1>1, <1>2 DEF Sourced
    <3>2. Takes(e, x.tick, x.run, x.started + Lease)
      BY <1>1, <1>3, <2>1, <3>1 DEF Takes
    <3>3. Tables' /\ Moves(x.run)
      BY <1>1, <1>2, <3>2, TakesKept
    <3>4. /\ consumption'[e] = [status |-> "claimed", run |-> x.run,
                                expiry |-> x.started + Lease, beat |-> x.tick]
          /\ \A f \in Events \ {e} : consumption'[f] = consumption[f]
      BY <1>1, <2>1 DEF Tables, TableTypes
    <3> QED
      BY <3>3, <3>4 DEF HeldBy
  <2>2. CASE may /\ HeldBy(consumption[e], x.run) /\ ~Expired(consumption[e], x.started)
    <3>1. consumption[e].beat = x.tick
      BY <2>2 DEF MayClaimEvent, HeldBy
    <3>2. UNCHANGED <<episode, beat, consumption, claimant, posts>>
      BY <1>1, <2>2
    <3> QED
      BY <1>1, <2>2, <3>1, <3>2, TablesStay DEF TableVars
  <2>3. CASE ~may
    <3>1. UNCHANGED <<episode, beat, consumption, claimant, posts>>
      BY <1>1, <2>3
    <3> QED
      BY <1>1, <2>3, <3>1, TablesStay DEF TableVars
  <2> QED
    BY <2>1, <2>2, <2>3
<1> PICK y : y = [x EXCEPT !.todo = x.todo \ {e}, !.pc = IF may THEN "events" ELSE "fail"]
  OBVIOUS
<1>5. worker' = [worker EXCEPT ![w] = y]
  BY <1>1
<1>6. y \in WorkerRows
  BY <1>2, RecordForms
<1>7. /\ y.pc = IF may THEN "events" ELSE "fail"
      /\ y.run = x.run /\ y.tick = x.tick /\ y.sources = x.sources /\ y.todo = x.todo \ {e}
  BY DEF WorkerRows
<1>8. Exists(x.tick)' /\ beat' = beat /\ frozen' = frozen
  BY <1>1, <1>2 DEF Exists
<1>9. ASSUME may PROVE Sourced(y)'
  <2>1. CASE x.sources = beat[x.tick].sources
    BY <1>7, <1>8, <2>1 DEF Sourced
  <2>2. CASE x.sources # beat[x.tick].sources
    <3>1. /\ beat[x.tick].attempts = MaxAttempts
          /\ HeldBy(beat[x.tick], x.run) =>
                \A f \in x.sources \ x.todo :
                   HeldBy(consumption[f], x.run) /\ consumption[f].beat = x.tick
      BY <1>2, <2>2 DEF Sourced
    <3>2. ASSUME HeldBy(beat[x.tick], x.run), NEW f \in x.sources \ (x.todo \ {e})
          PROVE  HeldBy(consumption'[f], x.run) /\ consumption'[f].beat = x.tick
      <4>1. CASE f = e
        BY <1>4, <1>9, <4>1
      <4>2. CASE f # e
        BY <1>2, <1>4, <3>1, <3>2, <4>2
      <4> QED
        BY <4>1, <4>2
    <3> QED
      BY <1>7, <1>8, <3>1, <3>2 DEF Sourced
  <2> QED
    BY <2>1, <2>2
<1>10. View(y)'
  <2>1. y.todo \subseteq y.sources
    BY <1>2, <1>7
  <2>2. Exists(y.tick)' /\ frozen'[y.run] = NoTick /\ y.tick \in Ticks /\ y.run \in Activities
    BY <1>2, <1>7, <1>8
  <2>3. y.pc = "events" => Sourced(y)'
    BY <1>7, <1>9
  <2>4. y.pc \in {"events", "fail"}
    BY <1>7
  <2> QED
    BY <2>1, <2>2, <2>3, <2>4 DEF View, Busy
<1>11. Acts(w, x.run, y)
  BY <1>1, <1>4, <1>5, <1>7, <1>10 DEF Acts, IInv, OtherTypes
<1> QED
  BY <1>4, <1>6, <1>11, ActsKept

LEMMA FreezeKept ==
    ASSUME IInv, NEW w \in Workers, Freeze(w)
    PROVE  IInv'
<1> PICK x \in WorkerRows : x = worker[w]
  BY WorkerFacts
<1>1. /\ Tables /\ worker \in [Workers -> WorkerRows] /\ x.pc = "events" /\ View(x)
      /\ x.todo = {}
      /\ worker' = [worker EXCEPT ![w].pc = "generate"]
      /\ frozen \in [Activities -> Ticks \cup {NoTick}]
      /\ frozen' = [frozen EXCEPT ![x.run] = x.tick]
      /\ UNCHANGED <<episode, beat, consumption, ended, posts, claimant, now>>
  BY WorkerFacts DEF IInv, OtherTypes, Freeze, Step
<1>2. x.tick \in Ticks /\ x.run \in Activities /\ Exists(x.tick) /\ Sourced(x)
  BY <1>1 DEF View
<1> PICK y : y = [x EXCEPT !.pc = "generate"]
  OBVIOUS
<1>3. worker' = [worker EXCEPT ![w] = y]
  BY <1>1
<1>4. y \in WorkerRows
  BY <1>2, RecordForms
<1>5. /\ y.pc = "generate" /\ y.run = x.run /\ y.tick = x.tick
      /\ y.sources = x.sources /\ y.todo = x.todo
  BY DEF WorkerRows
<1>6. Tables' /\ Moves(x.run)
  BY <1>1, TablesStay DEF TableVars
<1>7. View(y)'
  <2>1. frozen'[y.run] = y.tick
    BY <1>1, <1>2, <1>5
  <2>2. Sourced(y)'
    BY <1>1, <1>2, <1>5 DEF Sourced
  <2> QED
    BY <1>1, <1>2, <1>5, <2>1, <2>2 DEF View, Exists, Busy
<1>8. Acts(w, x.run, y)
  BY <1>1, <1>3, <1>5, <1>6, <1>7 DEF Acts, IInv, OtherTypes
<1> QED
  BY <1>4, <1>6, <1>8, ActsKept

LEMMA ReclaimMoves ==
    ASSUME Tables, now \in Nat, NEW t \in Ticks, NEW r \in Activities, Reclaim(t, r),
           UNCHANGED <<episode, consumption, posts>>
    PROVE  Tables' /\ Moves(r) /\ beat'[t].sources = beat[t].sources /\ Exists(t)'
<1>1. /\ Reclaimable(t, now) /\ now + Lease \in Nat
      /\ beat' = [beat EXCEPT ![t] = Claim(@, r, now + Lease)]
      /\ claimant' = [claimant EXCEPT ![t] = r]
  BY PlanTypes DEF Reclaim, Refreezable
<1> QED
  BY <1>1, ClaimMoves

LEMMA ResumeKept ==
    ASSUME IInv, NEW w \in Workers, NEW r \in Activities, Resume(w, r)
    PROVE  IInv'
<1> PICK t : t = frozen[r]
  OBVIOUS
<1>1. /\ Tables /\ worker \in [Workers -> WorkerRows] /\ ended \subseteq Activities
      /\ worker[w].pc = "idle" /\ t # NoTick /\ Free(r)
      /\ \/ Reclaim(t, r) /\ ended' = ended
         \/ UNCHANGED <<beat, claimant>> /\ ended' = ended
         \/ UNCHANGED <<beat, claimant>> /\ ended' = ended \cup {r}
      /\ worker' = IF r \in ended' THEN worker
                   ELSE [worker EXCEPT ![w] = [Idle EXCEPT !.pc = "generate", !.run = r,
                            !.started = now, !.tick = t, !.sources = beat[t].sources]]
      /\ UNCHANGED <<episode, consumption, frozen, posts, now>>
  BY DEF IInv, OtherTypes, Resume
<1>2. t \in Ticks /\ Exists(t) /\ now \in Nat
  BY <1>1, BeatAssumption DEF IInv, OtherTypes, FrozenPart
<1>3. Tables' /\ Moves(r) /\ beat'[t].sources = beat[t].sources /\ Exists(t)'
  <2>1. CASE Reclaim(t, r)
    BY <1>1, <1>2, <2>1, ReclaimMoves
  <2>2. CASE UNCHANGED <<beat, claimant>>
    BY <1>1, <1>2, <2>2, TablesStay DEF TableVars, Exists
  <2> QED
    BY <1>1, <2>1, <2>2
<1>4. ended' \subseteq Activities
  BY <1>1
<1>5. CASE r \in ended'
  <2> PICK x \in WorkerRows : x = worker[w]
    BY WorkerFacts
  <2>1. View(x) /\ x.pc = "idle" /\ x.run = NoRun
    BY <1>1, WorkerFacts DEF View
  <2>2. View(x)'
    BY <2>1 DEF View, Busy
  <2>3. worker' = [worker EXCEPT ![w] = x]
    BY <1>1, <1>5
  <2>4. Acts(w, r, x)
    BY <1>1, <1>3, <1>4, <2>1, <2>2, <2>3 DEF Acts
  <2> QED
    BY <1>3, <2>4, ActsKept
<1>6. CASE r \notin ended'
  <2> PICK y : y = [Idle EXCEPT !.pc = "generate", !.run = r, !.started = now, !.tick = t,
                                !.sources = beat[t].sources]
    OBVIOUS
  <2>1. worker' = [worker EXCEPT ![w] = y]
    BY <1>1, <1>6
  <2>2. beat[t].sources \in SUBSET Events
    <3>1. beat[t] \in BeatRows
      BY <1>1, <1>2 DEF Tables, TableTypes
    <3> QED
      BY <3>1, BeatTypes
  <2>3. /\ y \in WorkerRows /\ y.pc = "generate" /\ y.run = r /\ y.tick = t
        /\ y.sources = beat[t].sources /\ y.todo = {}
    BY <1>2, <2>2 DEF Idle, WorkerRows
  <2>4. View(y)'
    <3>1. frozen'[r] = t
      BY <1>1
    <3>2. Sourced(y)'
      BY <1>3, <2>3 DEF Sourced
    <3> QED
      BY <1>2, <1>3, <2>3, <3>1, <3>2 DEF View, Busy, Exists
  <2>5. Acts(w, r, y)
    BY <1>1, <1>3, <1>4, <2>1, <2>3, <2>4 DEF Acts
  <2> QED
    BY <1>3, <2>3, <2>5, ActsKept
<1> QED
  BY <1>5, <1>6

(* A worker that leaves its record as it is, and is at its guard. *)
LEMMA StaysKept ==
    ASSUME IInv, NEW w \in Workers, worker[w].pc = "generate", Tables', Moves(worker[w].run),
           UNCHANGED <<worker, frozen, ended, now>>
    PROVE  IInv'
<1> PICK x \in WorkerRows : x = worker[w]
  BY WorkerFacts
<1>1. View(x) /\ worker' = [worker EXCEPT ![w] = x]
  BY WorkerFacts DEF IInv, OtherTypes
<1>2. View(x)'
  BY <1>1, ViewKept DEF IInv
<1>3. Acts(w, x.run, x)
  BY <1>1, <1>2 DEF Acts, IInv, OtherTypes
<1> QED
  BY <1>3, ActsKept

LEMMA GuardKept ==
    ASSUME IInv, NEW w \in Workers, Guard(w)
    PROVE  IInv'
<1> PICK x \in WorkerRows : x = worker[w]
  BY WorkerFacts
<1>1. /\ Tables /\ x.pc = "generate" /\ View(x)
      /\ UNCHANGED <<episode, consumption, frozen, posts, now>>
  BY WorkerFacts DEF IInv, Guard
<1>2. x.tick \in Ticks /\ x.run \in Activities /\ now \in Nat
  BY <1>1, BeatAssumption DEF View, IInv, OtherTypes
<1>3. CASE Reclaim(x.tick, x.run) /\ UNCHANGED <<worker, ended>>
  <2>1. Tables' /\ Moves(x.run)
    BY <1>1, <1>2, <1>3, ReclaimMoves
  <2> QED
    BY <1>1, <1>3, <2>1, StaysKept
<1>4. CASE /\ HeldBy(beat[x.tick], x.run)
           /\ beat' = [beat EXCEPT ![x.tick].expiry = now + Lease]
           /\ UNCHANGED <<worker, ended, claimant>>
  <2> PICK b \in BeatRows : b = beat[x.tick]
    BY <1>1, <1>2 DEF Tables, TableTypes
  <2> PICK y : y = [b EXCEPT !.expiry = now + Lease]
    OBVIOUS
  <2>1. /\ y \in BeatRows /\ Keeps(b, y)
        /\ y.status = b.status /\ y.run = b.run /\ y.attempts = b.attempts
    <3>1. now + Lease \in Nat
      BY <1>2, PlanTypes
    <3> QED
      BY <3>1, RenewRow
  <2>2. beat' = [beat EXCEPT ![x.tick] = y]
    BY <1>1, <1>2, <1>4 DEF Tables, TableTypes
  <2>3. claimant' = [claimant EXCEPT ![x.tick] = x.run]
    BY <1>1, <1>2, <1>4 DEF Tables, TableTypes, BeatPart, HeldBy
  <2>4. b.attempts \in Nat /\ b.status = "claimed" /\ b.run = x.run
    BY <1>4, BeatTypes DEF HeldBy
  <2>5. Open(x.tick) /\ y.status = "claimed" /\ y.status \in OpenStatus
    BY <2>1, <2>4 DEF Open, OpenStatus
  <2>6. Keeps(beat[x.tick], y) /\ y.attempts >= beat[x.tick].attempts /\ y.run = x.run
    BY <2>1, <2>4
  <2>7. RowMoves(x.tick, y, x.run)
    BY <1>1, <1>4, <2>2, <2>3, <2>5, <2>6 DEF RowMoves
  <2>8. Tables' /\ Moves(x.run)
    BY <1>1, <1>2, <2>1, <2>7, RowKept
  <2> QED
    BY <1>1, <1>4, <2>8, StaysKept
<1>5. CASE Finish(w) /\ UNCHANGED <<beat, claimant>>
  <2>1. Tables' /\ Moves(x.run)
    BY <1>1, <1>5, TablesStay DEF TableVars
  <2> QED
    BY <1>1, <1>5, <2>1, FinishForm, GoesIdle
<1> QED
  BY <1>3, <1>4, <1>5 DEF Guard

(* A worker whose publication failed. *)
LEMMA FailsKept ==
    ASSUME IInv, NEW w \in Workers, worker[w].pc = "generate", Tables', Moves(worker[w].run),
           NEW y \in WorkerRows, worker' = [worker EXCEPT ![w] = y],
           y.pc = "fail", y.run = worker[w].run, y.tick = worker[w].tick,
           UNCHANGED <<frozen, ended, now>>
    PROVE  IInv'
<1> PICK x \in WorkerRows : x = worker[w]
  BY WorkerFacts
<1>1. View(x)
  BY WorkerFacts
<1>2. y.tick \in Ticks /\ y.run \in Activities /\ Exists(y.tick)
  BY <1>1 DEF View
<1>3. Exists(y.tick)'
  BY <1>2 DEF Moves
<1>4. View(y)'
  BY <1>2, <1>3 DEF View, Busy
<1>5. Acts(w, x.run, y)
  BY <1>4 DEF Acts, IInv, OtherTypes
<1> QED
  BY <1>5, ActsKept

LEMMA FailureKept ==
    ASSUME IInv, NEW w \in Workers, NEW retryable \in BOOLEAN, Fails(w, retryable)
    PROVE  IInv'
<1> PICK x \in WorkerRows : x = worker[w]
  BY WorkerFacts
<1> PICK y : y = [x EXCEPT !.pc = "fail", !.retryable = retryable]
  OBVIOUS
<1>1. /\ Tables /\ worker \in [Workers -> WorkerRows] /\ x.pc = "generate"
      /\ worker' = [worker EXCEPT ![w].pc = "fail", ![w].retryable = retryable]
      /\ UNCHANGED <<episode, beat, consumption, frozen, ended, posts, claimant, now>>
  BY DEF IInv, OtherTypes, Fails
<1>2. worker' = [worker EXCEPT ![w] = y]
  BY <1>1
<1>3. y \in WorkerRows /\ y.pc = "fail" /\ y.run = x.run /\ y.tick = x.tick
  BY DEF WorkerRows
<1>4. Tables' /\ Moves(x.run)
  BY <1>1, TablesStay DEF TableVars
<1>5. /\ worker[w].pc = "generate" /\ Moves(worker[w].run)
      /\ y.run = worker[w].run /\ y.tick = worker[w].tick
  BY <1>1, <1>3, <1>4
<1> QED
  BY <1>1, <1>2, <1>3, <1>4, <1>5, FailsKept, Zenon

LEMMA PublishKept ==
    ASSUME IInv, NEW w \in Workers, Publish(w)
    PROVE  IInv'
<1> PICK x \in WorkerRows : x = worker[w]
  BY WorkerFacts
<1> PICK t : t = x.tick
  OBVIOUS
<1>1. /\ Tables /\ worker \in [Workers -> WorkerRows] /\ x.pc = "generate" /\ View(x)
      /\ ~Published(t) /\ HeldBy(beat[t], x.run) /\ SourcesClaimed(t, w)
      /\ posts' = Append(posts, [tick |-> t, sources |-> x.sources, run |-> x.run])
      /\ beat' = [beat EXCEPT ![t].status = "succeeded", ![t].run = NoRun, ![t].expiry = 0]
      /\ episode' = [episode EXCEPT ![EpisodeOf(t)] =
                        [status |-> "active", last |-> t, next |-> beat[t].seq + 1]]
      /\ consumption' = [e \in Events |->
                           IF consumption[e].beat = t
                           THEN [status |-> "applied", run |-> NoRun, expiry |-> 0, beat |-> t]
                           ELSE consumption[e]]
      /\ Finish(w) \/ (Step(w, "fail") /\ UNCHANGED ended)
      /\ UNCHANGED <<frozen, claimant, now>>
  BY WorkerFacts DEF IInv, OtherTypes, Publish, CanComplete, ClaimIsMine
<1>2. t \in Ticks /\ x.run \in Activities /\ x.sources \subseteq Events
  BY <1>1, WorkerTypes DEF View
<1> PICK b \in BeatRows : b = beat[t]
  BY <1>1, <1>2 DEF Tables, TableTypes
<1> PICK y : y = Shut(b, "succeeded")
  OBVIOUS
<1> PICK q : q = [tick |-> t, sources |-> x.sources, run |-> x.run]
  OBVIOUS
<1>3. q \in PostRows /\ q.tick = t /\ q.sources = x.sources /\ q.run = x.run
  BY <1>2 DEF PostRows
<1>4. /\ y \in BeatRows /\ Keeps(b, y) /\ y.status = "succeeded" /\ y.attempts = b.attempts
  BY ShutRow DEF BeatStates, OpenStatus
<1>5. beat' = [beat EXCEPT ![t] = y]
  BY <1>1, <1>2 DEF Tables, TableTypes, Shut
<1>6. beat[t].sources = {e \in Events : consumption[e].beat = t /\ HeldBy(consumption[e], x.run)}
  BY <1>1 DEF SourcesClaimed
<1>7. \A e \in x.sources : consumption[e].beat = t
  <2>1. Sourced(x) /\ x.todo = {}
    BY <1>1 DEF View
  <2>2. CASE x.sources = beat[t].sources
    BY <1>6, <2>2
  <2>3. CASE x.sources # beat[t].sources
    BY <1>1, <2>1, <2>3 DEF Sourced
  <2> QED
    BY <2>2, <2>3
<1>8. /\ episode' \in [Episodes -> EpisodeRows]
      /\ \A p \in Episodes : p # EpisodeOf(t) => episode'[p] = episode[p]
  <2> PICK z : z = [status |-> "active", last |-> t, next |-> b.seq + 1]
    OBVIOUS
  <2>1. b.seq \in Nat
    BY BeatTypes
  <2>2. z \in EpisodeRows
    BY <1>2, <2>1 DEF EpisodeRows, Live
  <2>3. episode' = [episode EXCEPT ![EpisodeOf(t)] = z] /\ episode \in [Episodes -> EpisodeRows]
    BY <1>1 DEF Tables, TableTypes
  <2> QED
    BY <2>2, <2>3
<1>9. Publishes(t, y, q)
  BY <1>1, <1>3, <1>4, <1>5, <1>6, <1>7, <1>8 DEF Publishes
<1>10. Tables' /\ Moves(x.run)
  BY <1>1, <1>2, <1>3, <1>4, <1>9, PublishesKept
<1>11. CASE Finish(w)
  BY <1>1, <1>10, <1>11, FinishForm, GoesIdle
<1>12. CASE Step(w, "fail") /\ UNCHANGED ended
  <2> PICK z : z = [x EXCEPT !.pc = "fail"]
    OBVIOUS
  <2>1. worker' = [worker EXCEPT ![w] = z]
    BY <1>1, <1>12 DEF Step
  <2>2. z \in WorkerRows /\ z.pc = "fail" /\ z.run = x.run /\ z.tick = x.tick
    BY DEF WorkerRows
  <2> QED
    BY <1>1, <1>10, <1>12, <2>1, <2>2, FailsKept
<1> QED
  BY <1>1, <1>11, <1>12

LEMMA ReuseKept ==
    ASSUME IInv, NEW w \in Workers, Reuse(w)
    PROVE  IInv'
<1>1. Tables' /\ Moves(worker[w].run)
  BY TablesStay DEF IInv, Reuse, TableVars
<1> QED
  BY <1>1, FinishForm, GoesIdle DEF Reuse

LEMMA CrashKept ==
    ASSUME IInv, NEW w \in Workers, Crash(w)
    PROVE  IInv'
<1>1. Tables' /\ Moves(worker[w].run)
  BY TablesStay DEF IInv, Crash, TableVars
<1> QED
  BY <1>1, GoesIdle DEF Crash, IInv, OtherTypes

LEMMA FinishFailedKept ==
    ASSUME IInv, NEW w \in Workers, FinishFailed(w)
    PROVE  IInv'
<1> PICK x \in WorkerRows : x = worker[w]
  BY WorkerFacts
<1> PICK t : t = x.tick
  OBVIOUS
<1>1. /\ Tables /\ x.pc = "fail" /\ View(x) /\ Finish(w)
      /\ UNCHANGED <<frozen, posts, claimant, now>>
  BY WorkerFacts DEF IInv, FinishFailed
<1>2. t \in Ticks /\ x.run \in Activities
  BY <1>1 DEF View
<1>3. Tables' /\ Moves(x.run)
  <2>1. CASE UNCHANGED <<episode, beat, consumption>>
    BY <1>1, <2>1, TablesStay DEF TableVars
  <2>2. CASE /\ HeldBy(beat[t], x.run)
             /\ consumption' = Released({e \in Events : Mine(consumption[e], w)})
             /\ \/ /\ beat' = [beat EXCEPT ![t].status = "pending", ![t].run = NoRun,
                                           ![t].expiry = 0]
                   /\ UNCHANGED episode
                \/ /\ beat' = [beat EXCEPT ![t].status = "failed", ![t].run = NoRun,
                                           ![t].expiry = 0]
                   /\ episode' = [episode EXCEPT ![EpisodeOf(t)].next = NextAfterFailure(t)]
    <3> PICK b \in BeatRows : b = beat[t]
      BY <1>1, <1>2 DEF Tables, TableTypes
    <3> PICK undone \in SUBSET Events : undone = {e \in Events : Mine(consumption[e], w)}
      OBVIOUS
    <3>1. \A e \in undone : consumption[e].status = "claimed" /\ consumption[e].beat \in {t}
      BY DEF Mine, HeldBy
    <3>2. Open(t)
      BY <2>2 DEF HeldBy, Open, OpenStatus
    <3>3. ASSUME NEW status \in {"pending", "failed"},
                 beat' = [beat EXCEPT ![t].status = status, ![t].run = NoRun, ![t].expiry = 0]
          PROVE  /\ beat' \in [Ticks -> BeatRows]
                 /\ \A u \in Ticks \ {t} : beat'[u] = beat[u]
                 /\ Keeps(b, beat'[t]) /\ beat'[t].attempts = b.attempts
                 /\ beat'[t].status = status
      <4> PICK y : y = Shut(b, status)
        OBVIOUS
      <4>1. /\ y \in BeatRows /\ Keeps(b, y) /\ y.status = status /\ y.attempts = b.attempts
        BY ShutRow DEF BeatStates, OpenStatus
      <4>2. beat' = [beat EXCEPT ![t] = y] /\ beat \in [Ticks -> BeatRows]
        BY <1>1, <1>2, <3>3 DEF Tables, TableTypes, Shut
      <4>3. beat'[t] = y
        BY <1>2, <4>2
      <4> QED
        BY <4>1, <4>2, <4>3
    <3>4. CASE /\ beat' = [beat EXCEPT ![t].status = "pending", ![t].run = NoRun, ![t].expiry = 0]
               /\ UNCHANGED episode
      <4>1. Closes({t}, undone)
        BY <1>1, <2>2, <3>1, <3>2, <3>3, <3>4 DEF Closes, Tables, TableTypes, IsLive
      <4> QED
        BY <1>1, <1>2, <4>1, ClosesKept
    <3>5. CASE /\ beat' = [beat EXCEPT ![t].status = "failed", ![t].run = NoRun, ![t].expiry = 0]
               /\ episode' = [episode EXCEPT ![EpisodeOf(t)].next = NextAfterFailure(t)]
      <4>1. \A u \in Ticks : ~Open(u)'
        <5>1. beat'[t].status = "failed" /\ \A u \in Ticks \ {t} : beat'[u] = beat[u]
          BY <3>3, <3>5
        <5>2. \A u \in Ticks : Open(u) => u = t
          BY <1>1, <1>2, <3>2 DEF Tables, OnePart
        <5> QED
          BY <5>1, <5>2 DEF Open, OpenStatus
      <4>2. EpisodeOf(t) \in Episodes
        BY <1>2, TickFacts
      <4> PICK c \in EpisodeRows : c = episode[EpisodeOf(t)]
        BY <1>1, <4>2 DEF Tables, TableTypes
      <4> PICK n : n = NextAfterFailure(t)
        OBVIOUS
      <4>3. n \in Nat \ {0}
        <5>1. c.next \in Nat \ {0} /\ b.seq \in Nat
          BY BeatTypes DEF EpisodeRows
        <5>2. n = IF c.next > b.seq THEN c.next ELSE b.seq + 1
          BY DEF NextAfterFailure
        <5> QED
          BY <5>1, <5>2
      <4> PICK z : z = [c EXCEPT !.next = n]
        OBVIOUS
      <4>4. z \in EpisodeRows /\ z.status = c.status
        BY <4>3 DEF EpisodeRows
      <4>5. episode' = [episode EXCEPT ![EpisodeOf(t)] = z] /\ episode \in [Episodes -> EpisodeRows]
        BY <1>1, <3>5, <4>2 DEF Tables, TableTypes
      <4>6. /\ episode' \in [Episodes -> EpisodeRows]
            /\ \A p \in Episodes : episode'[p].status = episode[p].status
        BY <4>2, <4>4, <4>5
      <4>7. Closes({t}, undone)
        BY <1>1, <2>2, <3>1, <3>2, <3>3, <3>5, <4>1, <4>6 DEF Closes, IsLive
      <4> QED
        BY <1>1, <1>2, <4>7, ClosesKept
    <3> QED
      BY <2>2, <3>4, <3>5
  <2> QED
    BY <2>1, <2>2 DEF FinishFailed
<1> QED
  BY <1>1, <1>3, FinishForm, GoesIdle

----------------------------------------------------------------------------
(* The theorems. *)
LEMMA InitInv == Init => IInv
<1> SUFFICES ASSUME Init PROVE IInv
  OBVIOUS
<1> USE DEF Init
<1>1. NoBeat \in BeatRows
  BY DEF NoBeat, BeatRows, BeatStates, MaxAttempts
<1>2. TableTypes
  <2>1. Unclaimed \in EventRows
    BY DEF Unclaimed, EventRows
  <2>2. [status |-> "planned", last |-> NoTick, next |-> 1] \in EpisodeRows
    BY DEF EpisodeRows, Live
  <2> QED
    BY <1>1, <2>1, <2>2 DEF TableTypes
<1>3. \A t \in Ticks : beat[t].status = "none"
  BY DEF NoBeat
<1>4. BeatPart /\ OnePart
  BY <1>3 DEF BeatPart, OnePart, Open, OpenStatus, Exists
<1>5. EventPart /\ PostPart
  BY <1>3 DEF EventPart, PostPart, Unclaimed, Published
<1>6. Idle \in WorkerRows /\ Idle.run = NoRun /\ View(Idle)
  BY DEF Idle, WorkerRows, View, Busy
<1>7. OtherTypes /\ ViewPart /\ AlonePart
  BY <1>6, BeatAssumption DEF OtherTypes, ViewPart, AlonePart
<1>8. FrozenPart
  BY DEF FrozenPart
<1> QED
  BY <1>2, <1>4, <1>5, <1>7, <1>8 DEF IInv, Tables

LEMMA NextInv == IInv /\ [Next]_vars => IInv'
<1> SUFFICES ASSUME IInv, [Next]_vars PROVE IInv'
  OBVIOUS
<1>1. ASSUME NEW w \in Workers, Work(w) PROVE IInv'
  <2>1. ASSUME NEW r \in Activities, Begin(w, r) \/ Resume(w, r) PROVE IInv'
    BY <2>1, BeginKept, ResumeKept
  <2>2. CASE Assemble(w) \/ GiveUp(w) \/ ClaimBeat(w)
    BY <2>2, AssembleKept, GiveUpKept, ClaimBeatKept
  <2>3. CASE \E e \in Events : ClaimEvent(w, e)
    BY <2>3, ClaimEventKept
  <2>4. CASE Freeze(w) \/ Guard(w) \/ Publish(w) \/ Reuse(w)
    BY <2>4, FreezeKept, GuardKept, PublishKept, ReuseKept
  <2>5. CASE \E retryable \in BOOLEAN : Fails(w, retryable)
    BY <2>5, FailureKept
  <2>6. CASE FinishFailed(w) \/ Crash(w)
    BY <2>6, FinishFailedKept, CrashKept
  <2> QED
    BY <1>1, <2>1, <2>2, <2>3, <2>4, <2>5, <2>6 DEF Work
<1>2. CASE UNCHANGED vars
  <2>1. Tables' /\ Moves(NoRun)
    BY <1>2, TablesStay DEF IInv, vars, TableVars
  <2> QED
    BY <1>2, <2>1, OthersKept DEF IInv, OtherTypes, vars
<1> QED
  BY <1>1, <1>2, CloseElsewhere, TimeKept DEF Next

(* The tables keep their invariant, and what the workers know of them is true. *)
THEOREM Invariance == Spec => []IInv
<1> QED
  BY InitInv, NextInv, PTL DEF Spec

(* Every table and every worker keeps its type. *)
THEOREM TypeCorrect == Spec => []TypeOK
<1>1. IInv => TypeOK
  <2> SUFFICES ASSUME IInv PROVE TypeOK
    OBVIOUS
  <2>1. /\ beat \in [Ticks -> [status : BeatStates, run : Activities \cup {NoRun}, expiry : Nat,
                               attempts : 0 .. MaxAttempts, seq : Nat,
                               previous : Ticks \cup {NoTick}, sources : SUBSET Events]]
        /\ \A t \in Ticks : beat[t].status = "claimed" <=> beat[t].run # NoRun
    <3>1. beat \in [Ticks -> BeatRows]
      BY DEF IInv, Tables, TableTypes
    <3>2. \A t \in Ticks : beat[t] \in BeatRows
      BY <3>1
    <3> QED
      BY <3>1, <3>2 DEF BeatRows
  <2>2. /\ episode \in [Episodes -> EpisodeRows] /\ consumption \in [Events -> EventRows]
        /\ worker \in [Workers -> WorkerRows] /\ claimant \in [Ticks -> Activities \cup {NoRun}]
        /\ frozen \in [Activities -> Ticks \cup {NoTick}]
        /\ ended \subseteq Activities /\ now \in 0 .. MaxNow
    BY DEF IInv, Tables, TableTypes, OtherTypes
  <2> QED
    BY <2>1, <2>2 DEF TypeOK, BeatStates, EpisodeRows, EventRows, WorkerRows
<1> QED
  BY <1>1, Invariance, PTL

(* An open beat is the only one of its episode and builds on the state the    *)
(* episode still has.                                                         *)
THEOREM OpenBeatCurrent == Spec => []OpenBeatIsCurrent
<1>1. IInv => OpenBeatIsCurrent
  <2> SUFFICES ASSUME IInv, NEW t \in Ticks, Open(t)
               PROVE  /\ beat[t].previous = episode[EpisodeOf(t)].last
                      /\ \A u \in TicksOf(EpisodeOf(t)) : Open(u) => u = t
    BY DEF OpenBeatIsCurrent
  <2>1. TicksOf(EpisodeOf(t)) \subseteq Ticks
    BY TickFacts
  <2> QED
    BY <2>1 DEF IInv, Tables, BeatPart, OnePart
<1> QED
  BY <1>1, Invariance, PTL

(* A post is published by the activity that claimed its beat last, however    *)
(* many others generate for it.                                               *)
THEOREM LatestClaimPublished == Spec => []LatestClaimPublishes
<1>1. IInv => LatestClaimPublishes
  BY DEF IInv, Tables, PostPart, LatestClaimPublishes
<1> QED
  BY <1>1, Invariance, PTL

(* The beat, the post and the events agree: none is published without the     *)
(* others, and no event is applied to two beats.                              *)
THEOREM SourcesAgree == Spec => []SourcesApplied
<1>1. IInv => SourcesApplied
  <2> SUFFICES ASSUME IInv, NEW t \in Ticks
               PROVE  /\ beat[t].status = "succeeded" <=> Published(t)
                      /\ beat[t].status = "succeeded" =>
                            beat[t].sources = {e \in Events : consumption[e].beat = t}
                      /\ \A e \in Events : consumption[e].status = "applied" /\ consumption[e].beat = t
                            => beat[t].status = "succeeded"
    BY DEF SourcesApplied
  <2>1. beat[t].sources \subseteq Events
    <3>1. beat[t] \in BeatRows
      BY DEF IInv, Tables, TableTypes
    <3> QED
      BY <3>1, BeatTypes
  <2>2. beat[t].status = "succeeded" =>
           beat[t].sources = {e \in Events : consumption[e].beat = t}
    BY <2>1 DEF IInv, Tables, PostPart
  <2> QED
    BY <2>2 DEF IInv, Tables, PostPart, EventPart
<1> QED
  BY <1>1, Invariance, PTL

(* The story the posts tell.  A step that publishes tells a tick that is not  *)
(* told yet, of events no other post took up.                                 *)
Telling == [i \in DOMAIN posts |-> [tick |-> posts[i].tick, sources |-> posts[i].sources]]

LEMMA PublishTells ==
    ASSUME IInv, NEW w \in Workers, Publish(w)
    PROVE  Story!Next
<1> PICK x \in WorkerRows : x = worker[w]
  BY WorkerFacts
<1> PICK t : t = x.tick
  OBVIOUS
<1> PICK q : q = [tick |-> t, sources |-> x.sources, run |-> x.run]
  OBVIOUS
<1>1. /\ Tables /\ x.pc = "generate" /\ View(x)
      /\ ~Published(t) /\ HeldBy(beat[t], x.run) /\ SourcesClaimed(t, w)
      /\ posts' = Append(posts, q)
  BY WorkerFacts DEF IInv, Publish, CanComplete, ClaimIsMine
<1>2. /\ t \in Ticks /\ x.run \in Activities /\ x.sources \in SUBSET Events
      /\ Sourced(x) /\ x.todo = {}
  BY <1>1, WorkerTypes DEF View
<1>3. \A e \in x.sources : consumption[e].beat = t
  BY <1>1, <1>2 DEF Sourced, SourcesClaimed
<1>4. \A i \in DOMAIN posts : posts[i].tick # t /\ posts[i].sources \cap x.sources = {}
  BY <1>1, <1>3 DEF Published, Tables, PostPart
<1>5. \A i \in DOMAIN Telling : Telling[i].tick # t /\ Telling[i].sources \cap x.sources = {}
  BY <1>4 DEF Telling
<1>6. Telling' = Append(Telling, [tick |-> t, sources |-> x.sources])
  <2>1. posts \in Seq(PostRows) /\ q \in PostRows /\ q.tick = t /\ q.sources = x.sources
    BY <1>1, <1>2 DEF Tables, TableTypes, PostRows
  <2>2. /\ DOMAIN posts = 1 .. Len(posts) /\ Len(posts) \in Nat
        /\ DOMAIN posts' = 1 .. Len(posts) + 1
        /\ \A i \in 1 .. Len(posts) : posts'[i] = posts[i]
        /\ posts'[Len(posts) + 1] = q
    BY <1>1, <2>1
  <2>3. Telling' = [i \in 1 .. Len(posts) + 1 |-> [tick |-> posts'[i].tick, sources |-> posts'[i].sources]]
    BY <2>2 DEF Telling
  <2> PICK n \in Nat : n = Len(posts)
    BY <2>2
  <2> PICK told : told = Telling
    OBVIOUS
  <2>4. told = [i \in 1 .. n |-> [tick |-> posts[i].tick, sources |-> posts[i].sources]]
    BY <2>2 DEF Telling
  <2> PICK T : T = [tick : Ticks, sources : SUBSET Events]
    OBVIOUS
  <2>5. told \in Seq(T) /\ Len(told) = n
    <3>1. \A i \in 1 .. n : posts[i] \in PostRows
      BY <2>1, <2>2
    <3>2. \A i \in 1 .. n : [tick |-> posts[i].tick, sources |-> posts[i].sources]
                                \in [tick : Ticks, sources : SUBSET Events]
      BY <3>1 DEF PostRows
    <3>3. told \in [1 .. n -> T]
      BY <2>4, <3>2
    <3>4. DOMAIN told = 1 .. n
      BY <2>4
    <3>5. told \in Seq(T)
      <4>1. [i \in 1 .. n |-> [tick |-> posts[i].tick, sources |-> posts[i].sources]] \in Seq(T)
        BY <3>2
      <4> QED
        BY <2>4, <4>1
    <3>6. Len(told) \in Nat /\ 1 .. Len(told) = 1 .. n
      BY <3>4, <3>5, LenProperties
    <3>7. /\ Len(told) >= 1 => Len(told) \in 1 .. n
          /\ n >= 1 => n \in 1 .. Len(told)
      BY <3>6
    <3> QED
      BY <3>5, <3>6, <3>7
  <2> QED
    BY <2>1, <2>2, <2>3, <2>4, <2>5
<1> QED
  BY <1>2, <1>5, <1>6 DEF Story!Next, Story!Tell, Telling

LEMMA OthersTellNothing ==
    ASSUME [Next]_vars
    PROVE  (\E w \in Workers : Publish(w)) \/ posts' = posts
<1>1. ASSUME NEW w \in Workers, Work(w) PROVE Publish(w) \/ posts' = posts
  BY <1>1 DEF Work, Begin, Resume, Assemble, GiveUp, ClaimBeat, ClaimEvent, Freeze, Guard,
              Reuse, Fails, FinishFailed, Crash
<1>2. CASE Reconcile \/ Time \/ UNCHANGED vars
  BY <1>2 DEF Reconcile, Time, vars
<1> QED
  BY <1>1, <1>2 DEF Next

(* Every step of every run tells one new tick of events that are not taken up *)
(* yet, or tells nothing: BeatClaims implements Narrative.                    *)
THEOREM NarrativeImplemented == Spec => ImplementsNarrative
<1>1. Init => Story!Init
  <2> SUFFICES ASSUME posts = <<>> PROVE Telling = <<>>
    BY DEF Init, Story!Init, Telling
  <2> QED
    BY DEF Telling
<1>2. IInv /\ [Next]_vars => [Story!Next]_Telling
  <2> SUFFICES ASSUME IInv, [Next]_vars PROVE Story!Next \/ Telling' = Telling
    OBVIOUS
  <2>1. CASE \E w \in Workers : Publish(w)
    BY <2>1, PublishTells
  <2>2. CASE posts' = posts
    BY <2>2 DEF Telling
  <2> QED
    BY <2>1, <2>2, OthersTellNothing
<1>3. Story!Spec <=> Story!Init /\ [][Story!Next]_Telling
  BY DEF Story!Spec, Telling
<1> QED
  BY <1>1, <1>2, <1>3, Invariance, PTL DEF Spec, ImplementsNarrative

----------------------------------------------------------------------------
(* What is over stays over. *)
Over == {"succeeded", "failed", "cancelled"}

Stays ==
    /\ \A t \in Ticks : beat[t].status \in Over => beat'[t] = beat[t]
    /\ \A p \in Episodes : ~IsLive(p) => episode'[p] = episode[p]

LEMMA OpenAlive ==
    ASSUME Tables, NEW t \in Ticks, Open(t)
    PROVE  beat[t].status \notin Over /\ EpisodeOf(t) \in Episodes /\ IsLive(EpisodeOf(t))
BY TickFacts DEF Tables, BeatPart, Open, OpenStatus, Over

(* One beat changes, with its episode. *)
LEMMA OneStays ==
    ASSUME Tables, NEW t \in Ticks, Open(t) \/ (beat[t].status = "none" /\ episode' = episode),
           \A u \in Ticks \ {t} : beat'[u] = beat[u],
           \A p \in Episodes \ {EpisodeOf(t)} : episode'[p] = episode[p]
    PROVE  Stays
<1>1. beat[t].status \notin Over
  BY OpenAlive DEF Over
<1>2. \A p \in Episodes : ~IsLive(p) => episode'[p] = episode[p]
  BY OpenAlive
<1> QED
  BY <1>1, <1>2 DEF Stays

LEMMA CloseStays ==
    ASSUME Tables, NEW time, CloseElapsed(time)
    PROVE  /\ Stays
           /\ \A t \in Ticks : Open(t)' => Open(t) /\ EpisodeOf(t) \notin Elapsed(time)
<1> DEFINE closing == {t \in Ticks : EpisodeOf(t) \in Elapsed(time) /\ Open(t)}
<1>1. beat' = [t \in Ticks |-> IF t \notin closing THEN beat[t] ELSE Shut(beat[t], "cancelled")]
  BY DEF CloseElapsed, Shut
<1>2. \A t \in closing : beat[t].status \notin Over
  BY OpenAlive
<1>3. \A p \in Episodes : p \notin Elapsed(time) => episode'[p] = episode[p]
  BY DEF CloseElapsed
<1>4. \A p \in Elapsed(time) : IsLive(p)
  BY DEF Elapsed, IsLive
<1>5. ASSUME NEW t \in Ticks, Open(t)' PROVE Open(t) /\ EpisodeOf(t) \notin Elapsed(time)
  <2>1. beat[t] \in BeatRows
    BY DEF Tables, TableTypes
  <2>2. Shut(beat[t], "cancelled").status = "cancelled"
    BY <2>1, ShutRow DEF BeatStates
  <2>3. t \notin closing /\ beat'[t] = beat[t]
    BY <1>1, <1>5, <2>2 DEF Open, OpenStatus
  <2> QED
    BY <1>5, <2>3 DEF Open
<1>6. \A t \in Ticks : beat[t].status \in Over => beat'[t] = beat[t]
  BY <1>1, <1>2
<1> QED
  BY <1>3, <1>4, <1>5, <1>6 DEF Stays

LEMMA ClaimStays ==
    ASSUME IInv, NEW w \in Workers, ClaimBeat(w) \/ GiveUp(w)
    PROVE  Stays
<1> PICK x \in WorkerRows : x = worker[w]
  BY WorkerFacts
<1>1. Tables /\ View(x) /\ episode' = episode
  BY WorkerFacts DEF IInv, ClaimBeat, GiveUp
<1>2. CASE beat' = beat
  BY <1>1, <1>2 DEF Stays
<1>3. CASE beat' # beat
  <2>1. x.pc = "claim"
    BY <1>3 DEF ClaimBeat, GiveUp
  <2>2. x.tick \in Ticks
    BY <1>1, <2>1 DEF View
  <2>3. Open(x.tick) \/ beat[x.tick].status = "none"
    BY <1>3 DEF ClaimBeat, GiveUp, Reclaimable, Open, OpenStatus
  <2>4. \A u \in Ticks \ {x.tick} : beat'[u] = beat[u]
    <3>1. beat \in [Ticks -> BeatRows]
      BY <1>1 DEF Tables, TableTypes
    <3>2. CASE ClaimBeat(w)
      BY <1>3, <3>1, <3>2 DEF ClaimBeat
    <3>3. CASE GiveUp(w)
      BY <1>3, <3>1, <3>3 DEF GiveUp
    <3> QED
      BY <3>2, <3>3
  <2> QED
    BY <1>1, <2>2, <2>3, <2>4, OneStays
<1> QED
  BY <1>2, <1>3

LEMMA ReclaimStays ==
    ASSUME Tables, NEW t \in Ticks, NEW r, Reclaim(t, r), episode' = episode
    PROVE  Stays
<1>1. beat \in [Ticks -> BeatRows] /\ beat' = [beat EXCEPT ![t] = Claim(@, r, now + Lease)]
  BY DEF Tables, TableTypes, Reclaim
<1>2. \A u \in Ticks \ {t} : beat'[u] = beat[u]
  BY <1>1
<1>3. Open(t)
  BY DEF Reclaim, Refreezable, Open, OpenStatus
<1> QED
  BY <1>2, <1>3, OneStays

LEMMA ResumeStays ==
    ASSUME IInv, NEW w \in Workers, NEW r \in Activities, Resume(w, r)
    PROVE  Stays
<1>1. Tables /\ episode' = episode /\ frozen[r] \in Ticks
  BY DEF IInv, OtherTypes, Resume
<1>2. Reclaim(frozen[r], r) \/ beat' = beat
  BY DEF Resume
<1> QED
  BY <1>1, <1>2, ReclaimStays DEF Stays

LEMMA WorkStays ==
    ASSUME IInv, NEW w \in Workers, Guard(w) \/ Publish(w) \/ FinishFailed(w)
    PROVE  Stays
<1> PICK x \in WorkerRows : x = worker[w]
  BY WorkerFacts
<1> PICK t : t = x.tick
  OBVIOUS
<1>1. Tables /\ View(x) /\ beat \in [Ticks -> BeatRows] /\ episode \in [Episodes -> EpisodeRows]
  BY WorkerFacts DEF IInv, Tables, TableTypes
<1>2. t \in Ticks
  BY <1>1 DEF View, Guard, Publish, FinishFailed
<1>3. HeldBy(beat[t], x.run) => Open(t)
  BY DEF HeldBy, Open, OpenStatus
<1>4. CASE Guard(w)
  <2>1. episode' = episode
    BY <1>4 DEF Guard
  <2>2. CASE Reclaim(t, x.run)
    BY <1>1, <1>2, <2>1, <2>2, ReclaimStays
  <2>3. CASE ~Reclaim(t, x.run) /\ beat' # beat
    <3>1. Open(t) /\ beat' = [beat EXCEPT ![t].expiry = now + Lease]
      BY <1>3, <1>4, <2>3 DEF Guard
    <3>2. \A u \in Ticks \ {t} : beat'[u] = beat[u]
      BY <1>1, <3>1
    <3> QED
      BY <1>1, <1>2, <2>1, <3>1, <3>2, OneStays
  <2> QED
    BY <2>1, <2>2, <2>3 DEF Stays
<1>5. CASE Publish(w)
  <2>1. Open(t)
    BY <1>3, <1>5 DEF Publish, CanComplete, ClaimIsMine
  <2>2. \A u \in Ticks \ {t} : beat'[u] = beat[u]
    BY <1>1, <1>5 DEF Publish
  <2>3. \A p \in Episodes \ {EpisodeOf(t)} : episode'[p] = episode[p]
    BY <1>1, <1>5 DEF Publish
  <2> QED
    BY <1>1, <1>2, <2>1, <2>2, <2>3, OneStays
<1>6. CASE FinishFailed(w)
  <2>1. CASE ~HeldBy(beat[t], x.run)
    BY <1>6, <2>1 DEF FinishFailed, Stays
  <2>2. CASE HeldBy(beat[t], x.run)
    <3>1. \A u \in Ticks \ {t} : beat'[u] = beat[u]
      BY <1>1, <1>6, <2>2 DEF FinishFailed
    <3>2. \A p \in Episodes \ {EpisodeOf(t)} : episode'[p] = episode[p]
      BY <1>1, <1>6, <2>2 DEF FinishFailed
    <3> QED
      BY <1>1, <1>2, <1>3, <2>2, <3>1, <3>2, OneStays
  <2> QED
    BY <2>1, <2>2
<1> QED
  BY <1>4, <1>5, <1>6

LEMMA NextStays ==
    ASSUME IInv, [Next]_vars
    PROVE  Stays
<1>1. Tables
  BY DEF IInv
<1>2. ASSUME NEW w \in Workers, NEW r \in Activities, Begin(w, r) PROVE Stays
  BY <1>1, <1>2, CloseStays DEF Begin
<1>3. ASSUME NEW w \in Workers, NEW r \in Activities, Resume(w, r) PROVE Stays
  BY <1>3, ResumeStays
<1>4. ASSUME NEW w \in Workers,
             Assemble(w) \/ (\E e \in Events : ClaimEvent(w, e)) \/ Freeze(w) \/ Reuse(w)
      PROVE  Stays
  BY <1>4 DEF Assemble, ClaimEvent, Freeze, Reuse, Stays
<1>5. ASSUME NEW w \in Workers, Crash(w) \/ \E retryable \in BOOLEAN : Fails(w, retryable)
      PROVE  Stays
  BY <1>5 DEF Crash, Fails, Stays
<1>6. ASSUME NEW w \in Workers, ClaimBeat(w) \/ GiveUp(w) PROVE Stays
  BY <1>6, ClaimStays
<1>7. ASSUME NEW w \in Workers, Guard(w) \/ Publish(w) \/ FinishFailed(w) PROVE Stays
  BY <1>7, WorkStays
<1>8. ASSUME NEW w \in Workers, Work(w) PROVE Stays
  BY <1>2, <1>3, <1>4, <1>5, <1>6, <1>7, <1>8 DEF Work
<1>9. CASE Reconcile
  BY <1>1, <1>9, CloseStays DEF Reconcile
<1>10. CASE Time \/ UNCHANGED vars
  BY <1>10 DEF Time, vars, Stays
<1> QED
  BY <1>8, <1>9, <1>10 DEF Next

(* A beat that has succeeded, failed or been cancelled is never opened again  *)
(* or changed, and an elapsed daypart that was closed is not reactivated:     *)
(* neither by a run that publishes late (complete_activity_beat sets the      *)
(* episode active) nor by one that resumes, renews or fails late.             *)
THEOREM EndedBeatsStay == Spec => [][Stays]_vars
<1>1. IInv /\ [Next]_vars => [Stays]_vars
  BY NextStays
<1> QED
  BY <1>1, Invariance, PTL DEF Spec

(* A beat that is open past the end of its daypart is among those the next    *)
(* reconcile_all_elapsed_routines selects, and that call leaves none open:    *)
(* its guard, by the status of the item, misses no open beat.                 *)
OverdueIsSelected ==
    \A t \in Ticks : Open(t) /\ ItemEnd[EpisodeOf(t)] <= now => EpisodeOf(t) \in Elapsed(now)

NoneOverdue == \A t \in Ticks : Open(t) => ~(ItemEnd[EpisodeOf(t)] <= now)

THEOREM ReconcileIsSure == Spec => []OverdueIsSelected /\ [][Reconcile => NoneOverdue']_vars
<1>1. IInv => OverdueIsSelected
  BY OpenAlive DEF IInv, OverdueIsSelected, Elapsed, IsLive
<1>2. IInv /\ [Next]_vars => [Reconcile => NoneOverdue']_vars
  <2> SUFFICES ASSUME IInv, Reconcile, NEW t \in Ticks, Open(t)'
               PROVE  ~(ItemEnd[EpisodeOf(t)] <= now')
    BY DEF NoneOverdue, Open
  <2>1. CloseElapsed(now) /\ now' = now /\ Tables
    BY DEF Reconcile, IInv
  <2>2. Open(t) /\ EpisodeOf(t) \notin Elapsed(now)
    BY <2>1, CloseStays
  <2> QED
    BY <1>1, <2>1, <2>2 DEF OverdueIsSelected
<1> QED
  BY <1>1, <1>2, Invariance, PTL DEF Spec
=============================================================================
