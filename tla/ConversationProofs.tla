-------------------------- MODULE ConversationProofs --------------------------
(* ChatGeneration implements Conversation, for any threads, slots, requests   *)
(* and streams.  What is needed beside IInv of ChatGenerationProofs is how    *)
(* requests and messages of a thread hang together (TalkPart): a slot belongs *)
(* to one thread and is asked there once, only the latest request may be      *)
(* active, and its question, or the answer to it, is the last message.        *)
EXTENDS ChatGenerationProofs

(* The requests of a thread are in the table, and their slots are its own. *)
Owned ==
    /\ \A t \in Threads : \A r \in RequestsOf(t) : r \in Requests /\ Exists(row[r])
    /\ \A t, u \in Threads : \A r \in RequestsOf(t), q \in RequestsOf(u) :
          row[r].slot = row[q].slot => t = u

OnlyLatest ==
    \A t \in Threads : \A r \in RequestsOf(t) : IsActive(row[r]) => r = LatestRequest(t)

(* The messages of a thread belong to its requests, one question to a slot. *)
Asked ==
    /\ \A t \in Threads : \A i \in DOMAIN messages[t] :
          \E r \in RequestsOf(t) : row[r].slot = messages[t][i].slot
    /\ \A t \in Threads : \A i, j \in DOMAIN messages[t] :
          messages[t][i].role = "user" /\ messages[t][j].role = "user"
            /\ messages[t][i].slot = messages[t][j].slot => i = j

(* m is the question of the latest request, x its row, or the answer to it. *)
EndsWith(t, x, m) ==
    /\ m.slot = x.slot
    /\ \/ m.role = "user" /\ ~Answered(t, m.slot)
       \/ m.role = "assistant" /\ IsTerminal(x) /\ ~x.retryable

Ends ==
    \A t \in Threads :
        \/ requests[t] = <<>> /\ messages[t] = <<>>
        \/ /\ requests[t] # <<>> /\ messages[t] # <<>>
           /\ EndsWith(t, row[LatestRequest(t)], messages[t][Len(messages[t])])

TalkPart == Owned /\ OnlyLatest /\ Asked /\ Ends

talk == [t \in Threads |-> Talk(t)]

Messages == UserMessages \cup AnswerMessages

Line(t, m) == IF m.role = "assistant" THEN "answer" ELSE StandingOf(t, m.slot)

----------------------------------------------------------------------------
(* The transcript. *)
LEMMA Listing ==
    ASSUME NEW S, NEW n \in Nat, NEW f \in [1 .. n -> S]
    PROVE  f \in Seq(S) /\ Len(f) = n
<1>1. f \in Seq(S)
  OBVIOUS
<1> QED
  BY <1>1, LenProperties

Shown(t) ==
    /\ messages[t] \in Seq(Messages) /\ Len(messages[t]) \in Nat
    /\ DOMAIN messages[t] = 1 .. Len(messages[t])
    /\ Talk(t) \in Seq(Conv!Standing) /\ Len(Talk(t)) = Len(messages[t])
    /\ \A i \in 1 .. Len(messages[t]), m \in Messages :
          m = messages[t][i] => Talk(t)[i] = Line(t, m)

LEMMA AllShown == IInv => \A t \in Threads : Shown(t)
<1> SUFFICES ASSUME IInv, NEW t \in Threads PROVE Shown(t)
  OBVIOUS
<1>1. PICK l \in Seq(Messages) : l = messages[t]
  BY DEF IInv, ThreadPart, Messages
<1>2. PICK n \in Nat : n = Len(l) /\ DOMAIN l = 1 .. n
  BY LenProperties
<1>3. PICK f : f = Talk(t)
  OBVIOUS
<1>4. f = [i \in 1 .. n |-> Line(t, l[i])]
  BY <1>1, <1>2, <1>3 DEF Talk, Line
<1>5. \A i \in 1 .. n : Line(t, l[i]) \in Conv!Standing
  BY DEF Line, StandingOf, Conv!Standing
<1>6. f \in [1 .. n -> Conv!Standing]
  BY <1>4, <1>5
<1>7. f \in Seq(Conv!Standing) /\ Len(f) = n
  BY <1>6, Listing
<1> QED
  BY <1>1, <1>2, <1>3, <1>4, <1>7 DEF Shown

LEMMA NextShown == IInv' => (\A t \in Threads : Shown(t))'
BY AllShown, PTL

LEMMA LineKept ==
    ASSUME NEW t, NEW m, Waiting(m.slot)' <=> Waiting(m.slot),
           Answered(t, m.slot)' <=> Answered(t, m.slot)
    PROVE  Line(t, m)' = Line(t, m)
BY DEF Line, StandingOf

(* A thread whose messages read the same reads the same. *)
LEMMA TalkKept ==
    ASSUME IInv, IInv', NEW t \in Threads, messages'[t] = messages[t],
           \A i \in 1 .. Len(messages[t]), m \in Messages :
              m = messages[t][i] => Line(t, m)' = Line(t, m)
    PROVE  Talk(t)' = Talk(t)
<1>1. PICK f \in Seq(Conv!Standing) : f = Talk(t)
  BY AllShown DEF Shown
<1>2. PICK g \in Seq(Conv!Standing) : g = Talk(t)'
  <2>1. (Conv!Standing)' = Conv!Standing
    BY DEF Conv!Standing
  <2> QED
    BY <2>1, NextShown DEF Shown
<1>3. Len(f) = Len(messages[t]) /\ Len(g) = Len(messages[t])
  BY <1>1, <1>2, AllShown, NextShown DEF Shown
<1>4. ASSUME NEW i \in 1 .. Len(f) PROVE f[i] = g[i]
  <2>1. PICK m \in Messages : m = messages[t][i]
    BY <1>3, AllShown, ElementOfSeq DEF Shown
  <2>2. f[i] = Line(t, m)
    BY <1>1, <1>3, <2>1, AllShown DEF Shown
  <2>3. g[i] = Line(t, m)'
    BY <1>2, <1>3, <2>1, NextShown DEF Shown
  <2> QED
    BY <1>3, <2>1, <2>2, <2>3
<1>5. f = g
  BY <1>3, <1>4, SeqEqual
<1> QED
  BY <1>1, <1>2, <1>5

(* Of a thread whose messages stay, what is said of the last one changes. *)
LEMMA LastChanges ==
    ASSUME IInv, IInv', NEW t \in Threads, messages'[t] = messages[t], messages[t] # <<>>,
           NEW m \in Messages, m = messages[t][Len(messages[t])],
           NEW v \in Conv!Standing, Line(t, m)' = v,
           \A j \in 1 .. Len(messages[t]), k \in Messages :
              j # Len(messages[t]) /\ k = messages[t][j] => Line(t, k)' = Line(t, k)
    PROVE  Talk(t)' = [Talk(t) EXCEPT ![Len(Talk(t))] = v]
<1>1. PICK f \in Seq(Conv!Standing) : f = Talk(t)
  BY AllShown DEF Shown
<1>2. PICK g \in Seq(Conv!Standing) : g = Talk(t)'
  <2>1. (Conv!Standing)' = Conv!Standing
    BY DEF Conv!Standing
  <2> QED
    BY <2>1, NextShown DEF Shown
<1>3. PICK n \in Nat : n = Len(messages[t])
  BY AllShown DEF Shown
<1>4. Len(f) = n /\ Len(g) = n /\ n \in 1 .. n
  <2>1. Len(f) = n /\ Len(g) = n
    BY <1>1, <1>2, <1>3, AllShown, NextShown DEF Shown
  <2> QED
    BY <1>3, <2>1, AllShown, EmptySeq DEF Shown
<1>5. PICK h : h = [f EXCEPT ![n] = v]
  OBVIOUS
<1>6. /\ h \in Seq(Conv!Standing) /\ Len(h) = n
      /\ \A j \in 1 .. n : h[j] = IF j = n THEN v ELSE f[j]
  BY <1>4, <1>5, ExceptSeq
<1>7. ASSUME NEW j \in 1 .. Len(g) PROVE g[j] = h[j]
  <2>1. PICK k \in Messages : k = messages[t][j]
    BY <1>3, <1>4, AllShown, ElementOfSeq DEF Shown
  <2>2. f[j] = Line(t, k)
    BY <1>1, <1>3, <1>4, <2>1, AllShown DEF Shown
  <2>3. g[j] = Line(t, k)'
    BY <1>2, <1>3, <1>4, <2>1, NextShown DEF Shown
  <2>4. CASE j = n
    <3>1. k = m
      BY <1>3, <2>1, <2>4
    <3> QED
      BY <1>4, <1>6, <2>3, <2>4, <3>1
  <2>5. CASE j # n
    BY <1>3, <1>4, <1>6, <2>1, <2>2, <2>3, <2>5
  <2> QED
    BY <2>4, <2>5
<1>8. g = h
  BY <1>4, <1>6, <1>7, SeqEqual
<1> QED
  BY <1>1, <1>2, <1>4, <1>5, <1>8

LEMMA LastLine ==
    ASSUME IInv, NEW t \in Threads
    PROVE  /\ messages[t] = <<>> => Conv!Last(t) = "none"
           /\ \A m \in Messages :
                 messages[t] # <<>> /\ m = messages[t][Len(messages[t])]
                   => Conv!Last(t) = Line(t, m)
<1>1. PICK f : f = Talk(t)
  OBVIOUS
<1>2. PICK n \in Nat : n = Len(messages[t])
  BY AllShown DEF Shown
<1>3. f \in Seq(Conv!Standing) /\ Len(f) = n /\ messages[t] \in Seq(Messages)
  BY <1>1, <1>2, AllShown DEF Shown
<1>4. Conv!Last(t) = IF f = <<>> THEN "none" ELSE f[Len(f)]
  BY <1>1 DEF Conv!Last
<1>5. (messages[t] = <<>> <=> n = 0) /\ (f = <<>> <=> n = 0)
  BY <1>2, <1>3, EmptySeq
<1>6. ASSUME NEW m \in Messages, n # 0, m = messages[t][n]
      PROVE  f[n] = Line(t, m)
  BY <1>1, <1>2, <1>6, AllShown DEF Shown
<1> QED
  BY <1>2, <1>3, <1>4, <1>5, <1>6

----------------------------------------------------------------------------
(* Who waits. *)
LEMMA LatestIsOne ==
    ASSUME IInv, NEW t \in Threads, requests[t] # <<>>
    PROVE  LatestRequest(t) \in RequestsOf(t)
<1>1. PICK l \in Seq(Listed) : l = requests[t]
  BY DEF IInv, ThreadPart
<1>2. Len(l) \in DOMAIN l
  BY <1>1, EmptySeq, LenProperties
<1> QED
  BY <1>1, <1>2 DEF LatestRequest, RequestsOf

(* A slot with a message in a thread waits for a request of that thread. *)
LEMMA WaitsHere ==
    ASSUME IInv, TalkPart, NEW t \in Threads, NEW i \in DOMAIN messages[t],
           NEW slot, slot = messages[t][i].slot, Waiting(slot)
    PROVE  \E r \in RequestsOf(t) : r \in Requests /\ IsActive(row[r]) /\ row[r].slot = slot
<1>1. PICK r \in Requests : Exists(row[r]) /\ row[r].slot = slot /\ IsActive(row[r])
  BY DEF Waiting
<1>2. PICK u \in Threads : r \in RequestsOf(u)
  BY <1>1 DEF IInv, ThreadPart
<1>3. PICK q \in RequestsOf(t) : row[q].slot = slot
  BY DEF TalkPart, Asked
<1>4. u = t
  BY <1>1, <1>2, <1>3 DEF TalkPart, Owned
<1> QED
  BY <1>1, <1>2, <1>4

(* An active request has its question at the end of its thread, unanswered. *)
LEMMA ActiveEnds ==
    ASSUME IInv, TalkPart, NEW t \in Threads, NEW r \in RequestsOf(t), IsActive(row[r])
    PROVE  /\ messages[t] # <<>>
           /\ \A m \in Messages : m = messages[t][Len(messages[t])] =>
                 m.role = "user" /\ m.slot = row[r].slot /\ ~Answered(t, m.slot)
<1>1. r = LatestRequest(t)
  BY DEF TalkPart, OnlyLatest
<1>2. requests[t] # <<>>
  BY DEF RequestsOf
<1>3. ~IsTerminal(row[r])
  BY StateFacts DEF IsActive, IsTerminal
<1>4. messages[t] # <<>> /\ EndsWith(t, row[r], messages[t][Len(messages[t])])
  BY <1>1, <1>2 DEF TalkPart, Ends
<1> QED
  BY <1>3, <1>4 DEF EndsWith

LEMMA EndExists ==
    ASSUME IInv, NEW t \in Threads, messages[t] # <<>>
    PROVE  /\ Len(messages[t]) \in DOMAIN messages[t] /\ Len(messages[t]) \in 1 .. Len(messages[t])
           /\ messages[t][Len(messages[t])] \in Messages
<1>1. PICK l \in Seq(Messages) : l = messages[t]
  BY AllShown DEF Shown
<1>2. Len(l) \in 1 .. Len(l) /\ DOMAIN l = 1 .. Len(l)
  BY <1>1, EmptySeq, LenProperties
<1> QED
  BY <1>1, <1>2, ElementOfSeq

(* Only the last message may be a waiting question. *)
LEMMA OnlyLastWaits ==
    ASSUME IInv, TalkPart, NEW t \in Threads, NEW i \in DOMAIN messages[t],
           NEW m \in Messages, m = messages[t][i], m.role = "user", Waiting(m.slot)
    PROVE  i = Len(messages[t]) /\ ~Answered(t, m.slot)
<1>1. PICK r \in RequestsOf(t) : IsActive(row[r]) /\ row[r].slot = m.slot
  BY WaitsHere
<1>2. messages[t] # <<>>
  BY <1>1, ActiveEnds
<1>3. PICK e \in Messages : e = messages[t][Len(messages[t])]
  BY <1>2, EndExists
<1>4. e.role = "user" /\ e.slot = m.slot /\ ~Answered(t, m.slot)
  BY <1>1, <1>3, ActiveEnds
<1> QED
  BY <1>2, <1>3, <1>4, EndExists DEF TalkPart, Asked

----------------------------------------------------------------------------
(* Steps that insert nothing and write no message: requests end or go on. *)
Quiet(w) ==
    /\ Moves(w) /\ UNCHANGED <<requests, messages>>
    /\ \A r \in Requests : Exists(row'[r]) => Exists(row[r])

LEMMA QuietRow ==
    ASSUME RowPart, NEW w, Quiet(w), NEW r \in Requests
    PROVE  /\ IsActive(row'[r]) => IsActive(row[r])
           /\ Exists(row[r]) => Exists(row'[r]) /\ row'[r].slot = row[r].slot
           /\ IsTerminal(row[r]) => row'[r] = row[r]
<1>1. Change(w, row[r], row'[r])
  BY DEF Quiet, Moves
<1>2. \A x \in Row : Exists(x)
  BY RowTypes
<1>3. IsActive(row[r]) => ~IsTerminal(row[r])
  BY StateFacts DEF IsActive, IsTerminal
<1> QED
  BY <1>1, <1>2, <1>3 DEF Change, Quiet

LEMMA QuietWaits ==
    ASSUME RowPart, NEW w, Quiet(w), NEW slot, Waiting(slot)'
    PROVE  Waiting(slot)
<1>1. PICK r \in Requests : Exists(row'[r]) /\ row'[r].slot = slot /\ IsActive(row'[r])
  BY DEF Waiting
<1>2. Exists(row[r]) /\ IsActive(row[r]) /\ row[r].slot = slot
  BY <1>1, QuietRow DEF Quiet
<1> QED
  BY <1>2 DEF Waiting

LEMMA QuietTalk ==
    ASSUME IInv, TalkPart, NEW w, Quiet(w)
    PROVE  TalkPart'
<1>1. /\ requests' = requests /\ messages' = messages
      /\ \A t \in Threads : RequestsOf(t)' = RequestsOf(t) /\ LatestRequest(t)' = LatestRequest(t)
      /\ \A t \in Threads, slot \in Slots : Answered(t, slot)' <=> Answered(t, slot)
  BY DEF Quiet, RequestsOf, LatestRequest, Answered
<1>2. \A t \in Threads : \A r \in RequestsOf(t) :
         /\ r \in Requests /\ Exists(row[r]) /\ Exists(row'[r])
         /\ row'[r].slot = row[r].slot
         /\ IsActive(row'[r]) => IsActive(row[r])
         /\ IsTerminal(row[r]) => row'[r] = row[r]
  BY QuietRow DEF TalkPart, Owned, IInv
<1>3. Owned'
  BY <1>1, <1>2 DEF TalkPart, Owned, Exists
<1>4. OnlyLatest'
  BY <1>1, <1>2 DEF TalkPart, OnlyLatest, IsActive
<1>5. Asked'
  BY <1>1, <1>2 DEF TalkPart, Asked
<1>6. Ends'
  <2> SUFFICES ASSUME NEW t \in Threads, requests[t] # <<>>, messages[t] # <<>>,
                      EndsWith(t, row[LatestRequest(t)], messages[t][Len(messages[t])])
               PROVE  EndsWith(t, row[LatestRequest(t)], messages[t][Len(messages[t])])'
    BY <1>1 DEF TalkPart, Ends
  <2>1. LatestRequest(t) \in RequestsOf(t)
    BY LatestIsOne
  <2> QED
    BY <1>1, <1>2, <2>1 DEF EndsWith, IsTerminal, Answered
<1> QED
  BY <1>3, <1>4, <1>5, <1>6 DEF TalkPart

(* A thread stays as it is, or its last question stops. *)
LEMMA QuietThread ==
    ASSUME IInv, IInv', TalkPart, NEW w, Quiet(w), NEW t \in Threads, Talk(t)' # Talk(t)
    PROVE  /\ Conv!Last(t) = "waiting"
           /\ Talk(t)' = [Talk(t) EXCEPT ![Len(Talk(t))] = "stopped"]
<1>1. messages' = messages /\ \A slot : Answered(t, slot)' <=> Answered(t, slot)
  BY DEF Quiet, Answered
<1>2. PICK i \in 1 .. Len(messages[t]), m \in Messages :
         m = messages[t][i] /\ Line(t, m)' # Line(t, m)
  BY <1>1, TalkKept
<1>3. ~(Waiting(m.slot)' <=> Waiting(m.slot)) /\ m.role # "assistant"
  BY <1>1, <1>2, LineKept DEF Line
<1>4. Waiting(m.slot) /\ ~Waiting(m.slot)' /\ m.role = "user"
  <2>1. Waiting(m.slot)' => Waiting(m.slot)
    BY QuietWaits DEF IInv
  <2>2. m.role \in {"user", "assistant"}
    BY DEF Messages, UserMessages, AnswerMessages
  <2> QED
    BY <1>3, <2>1, <2>2
<1>5. i \in DOMAIN messages[t] /\ messages[t] # <<>>
  BY AllShown, EmptySeq DEF Shown
<1>6. i = Len(messages[t]) /\ ~Answered(t, m.slot)
  BY <1>2, <1>4, <1>5, OnlyLastWaits
<1>7. Line(t, m) = "waiting" /\ Line(t, m)' = "stopped"
  BY <1>1, <1>4, <1>6 DEF Line, StandingOf
<1>8. Conv!Last(t) = "waiting"
  BY <1>2, <1>5, <1>6, <1>7, LastLine
<1>9. ASSUME NEW j \in 1 .. Len(messages[t]), j # i, NEW k \in Messages, k = messages[t][j]
      PROVE  Line(t, k)' = Line(t, k)
  <2>1. Waiting(k.slot)' => Waiting(k.slot)
    BY QuietWaits DEF IInv
  <2>2. CASE k.role = "user" /\ Waiting(k.slot)
    <3>1. j \in DOMAIN messages[t]
      BY AllShown DEF Shown
    <3> QED
      BY <1>6, <1>9, <2>2, <3>1, OnlyLastWaits
  <2>3. CASE ~Waiting(k.slot)
    BY <1>1, <2>1, <2>3, LineKept
  <2>4. CASE k.role # "user"
    <3>1. k.role = "assistant"
      BY <2>4 DEF Messages, UserMessages, AnswerMessages
    <3> QED
      BY <3>1 DEF Line
  <2> QED
    BY <2>2, <2>3, <2>4
<1>10. "stopped" \in Conv!Standing
  BY DEF Conv!Standing
<1>11. Talk(t)' = [Talk(t) EXCEPT ![Len(Talk(t))] = "stopped"]
  BY <1>1, <1>2, <1>5, <1>6, <1>7, <1>9, <1>10, LastChanges
<1> QED
  BY <1>8, <1>11

LEMMA QuietGivesUp ==
    ASSUME IInv, IInv', TalkPart, NEW w, Quiet(w)
    PROVE  TalkPart' /\ Conv!TalkNext
<1> DEFINE ts == {t \in Threads : Talk(t)' # Talk(t)}
<1>1. \A t \in ts : /\ Conv!Last(t) = "waiting"
                    /\ Talk(t)' = [Talk(t) EXCEPT ![Len(Talk(t))] = "stopped"]
  BY QuietThread
<1>2. talk' = [t \in Threads |-> IF t \in ts THEN [talk[t] EXCEPT ![Len(talk[t])] = "stopped"]
                                 ELSE talk[t]]
  BY <1>1 DEF talk
<1>3. Conv!GiveUp(ts)
  BY <1>1, <1>2 DEF Conv!GiveUp, talk
<1>4. TalkPart'
  BY QuietTalk
<1> QED
  BY <1>3, <1>4 DEF Conv!TalkNext

----------------------------------------------------------------------------
(* A request is admitted to a thread without an active one. *)
Admitted(t, r, slot) ==
    /\ ~Exists(row[r]) /\ row'[r].slot = slot /\ row'[r].state = "accepted"
    /\ \A q \in Requests \ {r} : row'[q] = row[q]
    /\ \A u \in Threads : \A q \in RequestsOf(u) : q \in Requests \ {r}
    /\ RequestsOf(t)' = RequestsOf(t) \cup {r}
    /\ requests'[t] # <<>> /\ LatestRequest(t)' = r
    /\ \A u \in Threads \ {t} : requests'[u] = requests[u]
    /\ \A u \in Threads \ {t} : RequestsOf(u)' = RequestsOf(u) /\ LatestRequest(u)' = LatestRequest(u)

LEMMA AdmitFacts ==
    ASSUME IInv, TalkPart, NEW t \in Threads, NEW k \in Keys, NEW r \in Requests, NEW slot \in Slots,
           NEW attempt, NEW parent, Admit(t, k, r, slot, attempt, parent)
    PROVE  Admitted(t, r, slot)
<1>0. PICK e : e = [id |-> r, key |-> k]
  OBVIOUS
<1>1. e \in Listed /\ e.id = r
  BY <1>0 DEF Listed
<1>2. PICK x : x = NewRow(slot, attempt, parent, now + DeadlineTerm)
  OBVIOUS
<1>3. /\ ~Exists(row[r]) /\ row' = [row EXCEPT ![r] = x]
      /\ requests' = [requests EXCEPT ![t] = Append(@, e)]
  BY <1>0, <1>2 DEF Admit
<1>4. /\ row'[r].slot = slot /\ row'[r].state = "accepted"
      /\ \A q \in Requests \ {r} : row'[q] = row[q]
  BY <1>2, <1>3 DEF IInv, RowPart, NewRow
<1>5. \A u \in Threads : \A q \in RequestsOf(u) : q \in Requests \ {r}
  BY <1>3 DEF TalkPart, Owned
<1>6. PICK l \in Seq(Listed) : l = requests[t]
  BY DEF IInv, ThreadPart
<1>7. PICK y : y = Append(l, e)
  OBVIOUS
<1>8. /\ y \in Seq(Listed) /\ Len(y) = Len(l) + 1 /\ Len(l) \in Nat
      /\ DOMAIN l = 1 .. Len(l) /\ DOMAIN y = 1 .. (Len(l) + 1)
      /\ \A i \in 1 .. Len(l) : y[i] = l[i]
      /\ y[Len(l) + 1] = e
  BY <1>1, <1>7, AppendProperties, LenProperties
<1>9. /\ requests'[t] = y
      /\ \A u \in Threads \ {t} : requests'[u] = requests[u]
  BY <1>3, <1>6, <1>7 DEF IInv, ThreadPart
<1>10. RequestsOf(t)' = RequestsOf(t) \cup {r}
  <2>1. \A i \in DOMAIN y : i \in DOMAIN l \/ i = Len(l) + 1
    BY <1>8
  <2>2. \A i \in DOMAIN l : i \in DOMAIN y /\ y[i] = l[i]
    BY <1>8
  <2>3. Len(l) + 1 \in DOMAIN y
    BY <1>8
  <2>4. {y[i].id : i \in DOMAIN y} = {l[i].id : i \in DOMAIN l} \cup {r}
    BY <1>1, <1>8, <2>1, <2>2, <2>3
  <2> QED
    BY <1>6, <1>9, <2>4 DEF RequestsOf
<1>11. requests'[t] # <<>> /\ LatestRequest(t)' = r
  BY <1>1, <1>8, <1>9 DEF LatestRequest
<1>12. \A u \in Threads \ {t} : RequestsOf(u)' = RequestsOf(u) /\ LatestRequest(u)' = LatestRequest(u)
  BY <1>9 DEF RequestsOf, LatestRequest
<1> QED
  BY <1>3, <1>4, <1>5, <1>9, <1>10, <1>11, <1>12 DEF Admitted

LEMMA AdmitRequests ==
    ASSUME TalkPart, NEW t \in Threads, NEW r \in Requests, NEW slot \in Slots,
           Admitted(t, r, slot), ~HasActive(t),
           \A u \in Threads : \A q \in RequestsOf(u) : row[q].slot = slot => u = t
    PROVE  Owned' /\ OnlyLatest'
<1> USE DEF Admitted
<1>1. \A u \in Threads : \A q \in RequestsOf(u)' : (q = r /\ u = t) \/ q \in RequestsOf(u)
  OBVIOUS
<1>2. \A u \in Threads : \A q \in RequestsOf(u) :
         q \in Requests /\ Exists(row[q]) /\ row'[q] = row[q]
  BY DEF TalkPart, Owned
<1>3. Exists(row'[r])
  BY DEF Exists
<1>4. \A u \in Threads : \A q \in RequestsOf(u)' : q \in Requests /\ Exists(row'[q])
  BY <1>1, <1>2, <1>3
<1>5. ASSUME NEW u \in Threads, NEW v \in Threads, NEW p \in RequestsOf(u)', NEW q \in RequestsOf(v)',
             row'[p].slot = row'[q].slot
      PROVE  u = v
  <2>1. CASE p \in RequestsOf(u) /\ q \in RequestsOf(v)
    BY <1>2, <1>5, <2>1 DEF TalkPart, Owned
  <2>2. CASE p = r /\ u = t /\ q \in RequestsOf(v)
    BY <1>2, <1>5, <2>2
  <2>3. CASE p \in RequestsOf(u) /\ q = r /\ v = t
    BY <1>2, <1>5, <2>3
  <2>4. CASE u = t /\ v = t
    BY <2>4
  <2> QED
    BY <1>1, <2>1, <2>2, <2>3, <2>4
<1>6. Owned'
  BY <1>4, <1>5 DEF Owned, Exists
<1>7. ASSUME NEW u \in Threads, NEW q \in RequestsOf(u)', IsActive(row'[q])
      PROVE  q = LatestRequest(u)'
  <2>1. CASE u = t
    BY <1>1, <1>2, <1>7, <2>1 DEF HasActive
  <2>2. CASE u # t
    BY <1>1, <1>2, <1>7, <2>2 DEF TalkPart, OnlyLatest
  <2> QED
    BY <2>1, <2>2
<1>8. OnlyLatest'
  BY <1>7 DEF OnlyLatest, IsActive
<1> QED
  BY <1>6, <1>8

(* Without an active request in its thread no question waits. *)
LEMMA NobodyWaits ==
    ASSUME IInv, TalkPart, NEW t \in Threads, ~HasActive(t)
    PROVE  /\ Conv!Last(t) # "waiting"
           /\ \A i \in DOMAIN messages[t], slot \in Slots :
                 slot = messages[t][i].slot => ~Waiting(slot)
<1>1. \A i \in DOMAIN messages[t], slot \in Slots :
         slot = messages[t][i].slot => ~Waiting(slot)
  BY WaitsHere DEF HasActive
<1>2. Conv!Last(t) # "waiting"
  <2>1. CASE messages[t] = <<>>
    BY <2>1, LastLine
  <2>2. CASE messages[t] # <<>>
    <3>1. PICK m \in Messages : m = messages[t][Len(messages[t])]
      BY <2>2, EndExists
    <3>2. m.slot \in Slots
      BY DEF Messages, UserMessages, AnswerMessages
    <3>3. ~Waiting(m.slot)
      BY <1>1, <2>2, <3>1, <3>2, EndExists
    <3>4. Conv!Last(t) = Line(t, m)
      BY <2>2, <3>1, LastLine
    <3> QED
      BY <3>3, <3>4 DEF Line, StandingOf
  <2> QED
    BY <2>1, <2>2
<1> QED
  BY <1>1, <1>2

(* Lines are kept if only slot has new requests or answers. *)
LEMMA OtherSlots ==
    ASSUME NEW r \in Requests, NEW s, \A q \in Requests \ {r} : row'[q] = row[q],
           Exists(row[r]) => row[r].slot # s, row'[r].slot # s
    PROVE  Waiting(s)' <=> Waiting(s)
<1>1. Waiting(s) => Waiting(s)'
  BY DEF Waiting, Exists, IsActive
<1>2. Waiting(s)' => Waiting(s)
  BY DEF Waiting, Exists, IsActive
<1> QED
  BY <1>1, <1>2

LEMMA AskStep ==
    ASSUME IInv, IInv', TalkPart, NEW t \in Threads, NEW k \in Keys, NEW r \in Requests,
           NEW slot \in Slots, AcceptMessage(t, k, r, slot)
    PROVE  TalkPart' /\ Conv!Ask(t)
<1>1. Admitted(t, r, slot)
  BY AdmitFacts DEF AcceptMessage
<1>2. ~HasActive(t) /\ slot \notin SlotsUsed
  BY DEF AcceptMessage
<1>3. \A u \in Threads : \A q \in RequestsOf(u) : row[q].slot # slot /\ row'[q] = row[q]
  BY <1>1, <1>2 DEF SlotsUsed, TalkPart, Owned, Admitted
<1>4. Owned' /\ OnlyLatest'
  BY <1>1, <1>2, <1>3, AdmitRequests
<1>5. PICK m \in Messages : m = [role |-> "user", slot |-> slot, key |-> k]
  BY DEF Messages, UserMessages
<1>6. PICK l \in Seq(Messages) : l = messages[t]
  BY AllShown DEF Shown
<1>7. PICK n \in Nat : n = Len(l)
  BY LenProperties
<1>8. PICK y : y = Append(l, m)
  OBVIOUS
<1>9. /\ y \in Seq(Messages) /\ Len(y) = n + 1 /\ n \in Nat
      /\ DOMAIN l = 1 .. n /\ DOMAIN y = 1 .. (n + 1)
      /\ \A i \in 1 .. n : y[i] = l[i]
      /\ y[n + 1] = m
  BY <1>7, <1>8, AppendProperties, LenProperties
<1>10. messages'[t] = y /\ \A u \in Threads \ {t} : messages'[u] = messages[u]
  BY <1>5, <1>6, <1>8 DEF AcceptMessage, IInv, ThreadPart
<1>11. \A u \in Threads : \A i \in DOMAIN messages[u] : messages[u][i].slot # slot
  BY <1>3 DEF TalkPart, Asked
<1>12. \A i \in DOMAIN y : i \in DOMAIN l \/ i = n + 1
  BY <1>9
<1>13. \A u \in Threads \ {t}, s \in Slots : Answered(u, s)' <=> Answered(u, s)
  BY <1>10 DEF Answered
<1>14. \A s \in Slots : Answered(t, s)' <=> Answered(t, s)
  <2> SUFFICES ASSUME NEW s \in Slots PROVE Answered(t, s)' <=> Answered(t, s)
    OBVIOUS
  <2>1. ASSUME Answered(t, s) PROVE Answered(t, s)'
    <3>1. PICK i \in DOMAIN l : l[i].role = "assistant" /\ l[i].slot = s
      BY <1>6, <2>1 DEF Answered
    <3>2. i \in DOMAIN y /\ y[i] = l[i]
      BY <1>9, <3>1
    <3> QED
      BY <1>10, <3>1, <3>2 DEF Answered
  <2>2. ASSUME Answered(t, s)' PROVE Answered(t, s)
    <3>1. PICK i \in DOMAIN y : y[i].role = "assistant" /\ y[i].slot = s
      BY <1>10, <2>2 DEF Answered
    <3>2. i # n + 1
      BY <1>5, <1>9, <3>1
    <3>3. i \in DOMAIN l /\ l[i] = y[i]
      BY <1>9, <1>12, <3>1, <3>2
    <3> QED
      BY <1>6, <3>1, <3>3 DEF Answered
  <2> QED
    BY <2>1, <2>2
<1>15. \A u \in Threads : ~Answered(u, slot)
  BY <1>11 DEF Answered
<1>16. Asked'
  <2>1. ASSUME NEW u \in Threads, NEW i \in DOMAIN messages'[u]
        PROVE  \E q \in RequestsOf(u)' : row'[q].slot = messages'[u][i].slot
    <3>1. CASE u # t
      BY <1>1, <1>3, <1>10, <3>1 DEF TalkPart, Asked, Admitted
    <3>2. CASE u = t /\ i \in DOMAIN l
      <4>1. messages'[u][i] = l[i]
        BY <1>9, <1>10, <3>2
      <4>2. PICK q \in RequestsOf(t) : row[q].slot = l[i].slot
        BY <1>6, <3>2 DEF TalkPart, Asked
      <4> QED
        BY <1>1, <1>3, <3>2, <4>1, <4>2 DEF Admitted
    <3>3. CASE u = t /\ i = n + 1
      BY <1>1, <1>5, <1>9, <1>10, <3>3 DEF Admitted
    <3> QED
      BY <1>10, <1>12, <3>1, <3>2, <3>3
  <2>2. ASSUME NEW u \in Threads, NEW i \in DOMAIN messages'[u], NEW j \in DOMAIN messages'[u],
               messages'[u][i].role = "user", messages'[u][j].role = "user",
               messages'[u][i].slot = messages'[u][j].slot
        PROVE  i = j
    <3>1. CASE u # t
      BY <1>10, <2>2, <3>1 DEF TalkPart, Asked
    <3>2. CASE u = t /\ i \in DOMAIN l /\ j \in DOMAIN l
      <4>1. messages'[u][i] = l[i] /\ messages'[u][j] = l[j]
        BY <1>9, <1>10, <3>2
      <4> QED
        BY <1>6, <2>2, <3>2, <4>1 DEF TalkPart, Asked
    <3>3. CASE u = t /\ i = n + 1 /\ j \in DOMAIN l
      <4>1. messages'[u][i].slot = slot /\ messages'[u][j] = l[j]
        BY <1>5, <1>9, <1>10, <3>3
      <4> QED
        BY <1>6, <1>11, <2>2, <3>3, <4>1
    <3>4. CASE u = t /\ i \in DOMAIN l /\ j = n + 1
      <4>1. messages'[u][j].slot = slot /\ messages'[u][i] = l[i]
        BY <1>5, <1>9, <1>10, <3>4
      <4> QED
        BY <1>6, <1>11, <2>2, <3>4, <4>1
    <3>5. CASE i = n + 1 /\ j = n + 1
      BY <3>5
    <3> QED
      BY <1>10, <1>12, <3>1, <3>2, <3>3, <3>4, <3>5
  <2> QED
    BY <2>1, <2>2 DEF Asked
<1>17. Ends'
  <2>1. messages'[t] # <<>> /\ messages'[t][Len(messages'[t])] = m
    BY <1>9, <1>10
  <2>2. EndsWith(t, row[LatestRequest(t)], messages[t][Len(messages[t])])'
    BY <1>1, <1>5, <1>14, <1>15, <2>1 DEF EndsWith, Admitted
  <2>3. ASSUME NEW u \in Threads \ {t}, requests[u] # <<>>, messages[u] # <<>>,
               EndsWith(u, row[LatestRequest(u)], messages[u][Len(messages[u])])
        PROVE  EndsWith(u, row[LatestRequest(u)], messages[u][Len(messages[u])])'
    <3>1. LatestRequest(u) \in RequestsOf(u)
      BY <2>3, LatestIsOne
    <3>2. row'[LatestRequest(u)'] = row[LatestRequest(u)] /\ messages'[u] = messages[u]
      BY <1>1, <1>3, <1>10, <3>1 DEF Admitted
    <3> QED
      BY <2>3, <3>2 DEF EndsWith, Answered
  <2>4. ASSUME NEW u \in Threads
        PROVE  \/ requests'[u] = <<>> /\ messages'[u] = <<>>
               \/ /\ requests'[u] # <<>> /\ messages'[u] # <<>>
                  /\ EndsWith(u, row[LatestRequest(u)], messages[u][Len(messages[u])])'
    BY <1>1, <1>10, <2>1, <2>2, <2>3 DEF TalkPart, Ends, Admitted
  <2> QED
    BY <2>4 DEF Ends
<1>18. ASSUME NEW u \in Threads, NEW i \in DOMAIN messages[u], NEW c \in Messages, c = messages[u][i]
       PROVE  Line(u, c)' = Line(u, c)
  <2>1. c.slot # slot /\ c.slot \in Slots
    BY <1>11, <1>18 DEF Messages, UserMessages, AnswerMessages
  <2>2. Waiting(c.slot)' <=> Waiting(c.slot)
    BY <1>1, <2>1, OtherSlots DEF Admitted
  <2>3. Answered(u, c.slot)' <=> Answered(u, c.slot)
    BY <1>13, <1>14, <2>1
  <2> QED
    BY <2>2, <2>3, LineKept
<1>19. \A u \in Threads \ {t} : Talk(u)' = Talk(u)
  BY <1>10, <1>18, AllShown, TalkKept DEF Shown
<1>20. Talk(t)' = Append(Talk(t), "waiting")
  <2>1. PICK f \in Seq(Conv!Standing) : f = Talk(t)
    BY AllShown DEF Shown
  <2>2. PICK g \in Seq(Conv!Standing) : g = Talk(t)'
    <3>1. (Conv!Standing)' = Conv!Standing
      BY DEF Conv!Standing
    <3> QED
      BY <3>1, NextShown DEF Shown
  <2>3. Len(f) = n /\ Len(g) = n + 1
    BY <1>6, <1>7, <1>9, <1>10, <2>1, <2>2, AllShown, NextShown DEF Shown
  <2>4. "waiting" \in Conv!Standing
    BY DEF Conv!Standing
  <2>5. PICK h : h = Append(f, "waiting")
    OBVIOUS
  <2>6. /\ h \in Seq(Conv!Standing) /\ Len(h) = n + 1
        /\ \A i \in 1 .. n : h[i] = f[i]
        /\ h[n + 1] = "waiting"
    BY <2>3, <2>4, <2>5, AppendProperties
  <2>7. ASSUME NEW i \in 1 .. Len(g) PROVE g[i] = h[i]
    <3>1. PICK c \in Messages : c = y[i]
      BY <1>9, <2>3, ElementOfSeq
    <3>2. g[i] = Line(t, c)'
      BY <1>9, <1>10, <2>2, <2>3, <3>1, NextShown DEF Shown
    <3>3. CASE i \in 1 .. n
      <4>1. c = messages[t][i] /\ i \in DOMAIN messages[t] /\ i \in 1 .. Len(messages[t])
        BY <1>6, <1>7, <1>9, <3>1, <3>3
      <4>2. f[i] = Line(t, c)
        BY <2>1, <4>1, AllShown DEF Shown
      <4> QED
        BY <1>18, <2>6, <3>2, <3>3, <4>1, <4>2
    <3>4. CASE i = n + 1
      <4>1. c = m
        BY <1>9, <3>1, <3>4
      <4>2. Waiting(slot)'
        BY <1>1, StateFacts DEF Waiting, Admitted, Exists, IsActive
      <4>3. Line(t, c)' = "waiting"
        BY <1>5, <4>1, <4>2 DEF Line, StandingOf
      <4> QED
        BY <2>6, <3>2, <3>4, <4>3
    <3>5. i \in 1 .. n \/ i = n + 1
      BY <2>3
    <3> QED
      BY <3>3, <3>4, <3>5
  <2>8. g = h
    BY <2>3, <2>6, <2>7, SeqEqual
  <2> QED
    BY <2>1, <2>2, <2>5, <2>8
<1>21. Conv!Last(t) # "waiting"
  BY <1>2, NobodyWaits
<1>22. Conv!Ask(t)
  BY <1>19, <1>20, <1>21 DEF Conv!Ask
<1> QED
  BY <1>4, <1>16, <1>17, <1>22 DEF TalkPart

LEMMA TryAgainStep ==
    ASSUME IInv, IInv', TalkPart, NEW t \in Threads, NEW k \in Keys, NEW prior \in Requests,
           NEW r \in Requests, RetryResponse(t, k, prior, r)
    PROVE  TalkPart' /\ Conv!TryAgain(t)
<1>1. /\ prior \in RequestsOf(t) /\ LatestRequest(t) = prior /\ ~HasActive(t)
      /\ IsTerminal(row[prior]) /\ row[prior].retryable /\ messages' = messages
  BY DEF RetryResponse, MayRetry
<1>2. row[prior] \in Row
  BY <1>1, RowKinds DEF IInv
<1>3. PICK slot \in Slots : slot = row[prior].slot
  BY <1>2, RowTypes
<1>4. Admitted(t, r, slot)
  <2>1. PICK attempt : Admit(t, k, r, slot, attempt, prior)
    BY <1>3 DEF RetryResponse
  <2> QED
    BY <2>1, AdmitFacts
<1>5. \A u \in Threads : \A q \in RequestsOf(u) : row[q].slot = slot => u = t
  BY <1>1, <1>3 DEF TalkPart, Owned
<1>6. Owned' /\ OnlyLatest'
  BY <1>1, <1>4, <1>5, AdmitRequests
<1>7. \A u \in Threads : \A q \in RequestsOf(u) : q \in RequestsOf(u)' /\ row'[q] = row[q]
  BY <1>4 DEF Admitted
<1>8. Asked'
  BY <1>1, <1>7 DEF TalkPart, Asked
<1>9. requests[t] # <<>>
  BY <1>1 DEF RequestsOf
<1>10. messages[t] # <<>> /\ EndsWith(t, row[prior], messages[t][Len(messages[t])])
  BY <1>1, <1>9 DEF TalkPart, Ends
<1>11. PICK m \in Messages : m = messages[t][Len(messages[t])]
  BY <1>10, EndExists
<1>12. m.role = "user" /\ m.slot = slot /\ ~Answered(t, slot)
  BY <1>1, <1>3, <1>10, <1>11 DEF EndsWith
<1>13. Ends'
  <2>1. EndsWith(t, row[LatestRequest(t)], messages[t][Len(messages[t])])'
    BY <1>1, <1>4, <1>11, <1>12 DEF EndsWith, Admitted, Answered
  <2>2. ASSUME NEW u \in Threads \ {t}, requests[u] # <<>>, messages[u] # <<>>,
               EndsWith(u, row[LatestRequest(u)], messages[u][Len(messages[u])])
        PROVE  EndsWith(u, row[LatestRequest(u)], messages[u][Len(messages[u])])'
    <3>1. LatestRequest(u) \in RequestsOf(u)
      BY <2>2, LatestIsOne
    <3>2. row'[LatestRequest(u)'] = row[LatestRequest(u)] /\ messages'[u] = messages[u]
      BY <1>1, <1>4, <1>7, <3>1 DEF Admitted
    <3> QED
      BY <2>2, <3>2 DEF EndsWith, Answered
  <2>3. ASSUME NEW u \in Threads
        PROVE  \/ requests'[u] = <<>> /\ messages'[u] = <<>>
               \/ /\ requests'[u] # <<>> /\ messages'[u] # <<>>
                  /\ EndsWith(u, row[LatestRequest(u)], messages[u][Len(messages[u])])'
    BY <1>1, <1>4, <1>10, <2>1, <2>2 DEF TalkPart, Ends, Admitted
  <2> QED
    BY <2>3 DEF Ends
<1>14. ASSUME NEW u \in Threads, NEW i \in 1 .. Len(messages[u]), NEW c \in Messages,
              c = messages[u][i], u # t \/ i # Len(messages[t])
       PROVE  Line(u, c)' = Line(u, c)
  <2>1. c.slot \in Slots /\ c.role \in {"user", "assistant"} /\ i \in DOMAIN messages[u]
    BY <1>14, AllShown DEF Messages, UserMessages, AnswerMessages, Shown
  <2>2. Answered(u, c.slot)' <=> Answered(u, c.slot)
    BY <1>1 DEF Answered
  <2>3. CASE c.slot # slot
    <3>1. Waiting(c.slot)' <=> Waiting(c.slot)
      BY <1>4, <2>3, OtherSlots DEF Admitted
    <3> QED
      BY <2>2, <3>1, LineKept
  <2>4. CASE c.slot = slot /\ c.role = "user"
    <3>1. u = t
      BY <1>5, <1>14, <2>1, <2>4 DEF TalkPart, Asked
    <3>2. i = Len(messages[t])
      BY <1>10, <1>11, <1>12, <1>14, <2>1, <2>4, <3>1, EndExists DEF TalkPart, Asked
    <3> QED
      BY <1>14, <3>1, <3>2
  <2>5. CASE c.role = "assistant"
    BY <2>5 DEF Line
  <2> QED
    BY <2>1, <2>3, <2>4, <2>5
<1>15. \A u \in Threads \ {t} : Talk(u)' = Talk(u)
  BY <1>1, <1>14, TalkKept
<1>16. Line(t, m) = "stopped"
  <2>1. ~Waiting(slot)
    BY <1>1, <1>10, <1>11, <1>12, NobodyWaits, EndExists
  <2> QED
    BY <1>12, <2>1 DEF Line, StandingOf
<1>17. Line(t, m)' = "waiting"
  <2>1. Waiting(slot)'
    BY <1>4, StateFacts DEF Waiting, Admitted, Exists, IsActive
  <2> QED
    BY <1>12, <2>1 DEF Line, StandingOf
<1>18. Talk(t)' = [Talk(t) EXCEPT ![Len(Talk(t))] = "waiting"]
  <2>1. "waiting" \in Conv!Standing
    BY DEF Conv!Standing
  <2>2. \A i \in 1 .. Len(messages[t]), c \in Messages :
           i # Len(messages[t]) /\ c = messages[t][i] => Line(t, c)' = Line(t, c)
    BY <1>14
  <2> QED
    BY <1>1, <1>10, <1>11, <1>17, <2>1, <2>2, LastChanges
<1>19. Conv!Last(t) = "stopped"
  BY <1>10, <1>11, <1>16, LastLine
<1>20. Conv!TryAgain(t)
  BY <1>15, <1>18, <1>19 DEF Conv!TryAgain
<1> QED
  BY <1>6, <1>8, <1>13, <1>20 DEF TalkPart

(* A commit answers the last message of its thread. *)
LEMMA AnswerStep ==
    ASSUME IInv, IInv', TalkPart, NEW w \in Tokens, Commit(w)
    PROVE  TalkPart' /\ \E t \in Threads : Conv!Answer(t)
<1>1. PICK r : r = run[w].req
  OBVIOUS
<1>2. r \in Requests /\ Exists(row[r]) /\ row[r] \in Row /\ ~IsTerminal(row[r])
  <2>1. run[w].pc = "working" /\ ~IsTerminal(row[r])
    BY <1>1 DEF Commit, CanAcceptEvent
  <2> QED
    BY <1>1, <2>1, RunFacts
<1>3. IsActive(row[r])
  BY <1>2, RowKinds DEF IInv
<1>4. PICK t : t = ThreadOf(r)
  OBVIOUS
<1>5. t \in Threads /\ r \in RequestsOf(t)
  <2>1. \E u \in Threads : r \in RequestsOf(u)
    BY <1>2 DEF IInv, ThreadPart
  <2> QED
    BY <1>4, <2>1 DEF ThreadOf
<1>6. PICK slot \in Slots : slot = row[r].slot
  BY <1>2, RowTypes
<1>7. PICK a \in Messages : a = [role |-> "assistant", slot |-> slot, by |-> w]
  BY DEF Messages, AnswerMessages
<1>8. PICK n \in Nat : n = Len(messages[t])
  BY <1>5, AllShown DEF Shown
<1>9. /\ requests' = requests
      /\ row'[r].state = "committed" /\ row'[r].slot = slot /\ ~row'[r].retryable
      /\ \A q \in Requests \ {r} : row'[q] = row[q]
      /\ messages' = [messages EXCEPT ![t] = Append(@, a)]
  <2>1. PICK s : /\ row' = [row EXCEPT ![r] = FinalizeRow(AcceptEventRow(row[r], s), n + 1)]
                 /\ messages' = [messages EXCEPT ![t] = Append(@, a)]
    BY <1>1, <1>4, <1>6, <1>7, <1>8 DEF Commit
  <2>2. /\ row'[r] = FinalizeRow(AcceptEventRow(row[r], s), n + 1)
        /\ \A q \in Requests \ {r} : row'[q] = row[q]
    BY <1>2, <2>1 DEF IInv, RowPart
  <2>3. PICK x : x = AcceptEventRow(row[r], s)
    OBVIOUS
  <2>4. /\ DOMAIN x = DOMAIN row[r] /\ x.slot = slot
        /\ {"state", "slot", "retryable"} \subseteq DOMAIN x
    BY <1>2, <1>6, <2>3 DEF AcceptEventRow, Row
  <2>5. LET y == FinalizeRow(x, n + 1)
        IN  y.state = "committed" /\ y.slot = slot /\ ~y.retryable
    BY <1>2, <1>6, <2>3 DEF AcceptEventRow, FinalizeRow, EndRow, Row
  <2> QED
    BY <2>1, <2>2, <2>3, <2>5 DEF Commit
<1>10. IsTerminal(row'[r]) /\ Exists(row'[r]) /\ ~IsActive(row'[r])
  BY <1>9, StateFacts DEF IsTerminal, Exists, IsActive
<1>11. \A u \in Threads : RequestsOf(u)' = RequestsOf(u) /\ LatestRequest(u)' = LatestRequest(u)
  BY <1>9 DEF RequestsOf, LatestRequest
<1>12. \A u \in Threads : \A q \in RequestsOf(u) :
          /\ q \in Requests /\ Exists(row[q]) /\ Exists(row'[q])
          /\ row'[q].slot = row[q].slot
          /\ IsActive(row'[q]) => IsActive(row[q])
  BY <1>6, <1>9, <1>10 DEF TalkPart, Owned
<1>13. Owned'
  BY <1>11, <1>12 DEF TalkPart, Owned, Exists
<1>14. OnlyLatest'
  BY <1>11, <1>12 DEF TalkPart, OnlyLatest, IsActive
<1>15. LatestRequest(t) = r /\ requests[t] # <<>> /\ messages[t] # <<>>
  BY <1>3, <1>5, ActiveEnds DEF TalkPart, OnlyLatest, RequestsOf
<1>16. PICK m \in Messages : m = messages[t][n]
  BY <1>5, <1>8, <1>15, EndExists
<1>17. m.role = "user" /\ m.slot = slot /\ ~Answered(t, slot)
  BY <1>3, <1>5, <1>6, <1>8, <1>16, ActiveEnds
<1>18. PICK l \in Seq(Messages) : l = messages[t]
  BY <1>5, AllShown DEF Shown
<1>19. PICK y : y = Append(l, a)
  OBVIOUS
<1>20. /\ y \in Seq(Messages) /\ Len(y) = n + 1 /\ n \in 1 .. n
       /\ DOMAIN l = 1 .. n /\ DOMAIN y = 1 .. (n + 1)
       /\ \A i \in 1 .. n : y[i] = l[i]
       /\ y[n + 1] = a
  BY <1>5, <1>8, <1>15, <1>18, <1>19, AppendProperties, LenProperties, EmptySeq
<1>21. messages'[t] = y /\ \A u \in Threads \ {t} : messages'[u] = messages[u]
  BY <1>5, <1>9, <1>18, <1>19 DEF IInv, ThreadPart
<1>22. \A i \in DOMAIN y : i \in DOMAIN l \/ i = n + 1
  BY <1>20
<1>23. Asked'
  <2>1. ASSUME NEW u \in Threads, NEW i \in DOMAIN messages'[u]
        PROVE  \E q \in RequestsOf(u)' : row'[q].slot = messages'[u][i].slot
    <3>1. CASE u # t
      BY <1>11, <1>12, <1>21, <3>1 DEF TalkPart, Asked
    <3>2. CASE u = t /\ i \in DOMAIN l
      <4>1. messages'[u][i] = l[i]
        BY <1>20, <1>21, <3>2
      <4>2. PICK q \in RequestsOf(t) : row[q].slot = l[i].slot
        BY <1>5, <1>18, <3>2 DEF TalkPart, Asked
      <4> QED
        BY <1>5, <1>11, <1>12, <3>2, <4>1, <4>2
    <3>3. CASE u = t /\ i = n + 1
      <4>1. messages'[u][i].slot = slot
        BY <1>7, <1>20, <1>21, <3>3
      <4> QED
        BY <1>5, <1>9, <1>11, <3>3, <4>1
    <3> QED
      BY <1>21, <1>22, <3>1, <3>2, <3>3
  <2>2. ASSUME NEW u \in Threads, NEW i \in DOMAIN messages'[u], NEW j \in DOMAIN messages'[u],
               messages'[u][i].role = "user", messages'[u][j].role = "user",
               messages'[u][i].slot = messages'[u][j].slot
        PROVE  i = j
    <3>1. CASE u # t
      BY <1>21, <2>2, <3>1 DEF TalkPart, Asked
    <3>2. CASE u = t
      <4>1. i # n + 1 /\ j # n + 1
        BY <1>7, <1>20, <1>21, <2>2, <3>2
      <4>2. i \in DOMAIN l /\ j \in DOMAIN l
        BY <1>21, <1>22, <3>2, <4>1
      <4>3. messages'[u][i] = l[i] /\ messages'[u][j] = l[j]
        BY <1>20, <1>21, <3>2, <4>2
      <4> QED
        BY <1>5, <1>18, <2>2, <3>2, <4>2, <4>3 DEF TalkPart, Asked
    <3> QED
      BY <3>1, <3>2
  <2> QED
    BY <2>1, <2>2 DEF Asked
<1>24. Ends'
  <2>1. messages'[t] # <<>> /\ messages'[t][Len(messages'[t])] = a
    BY <1>20, <1>21
  <2>2. EndsWith(t, row[LatestRequest(t)], messages[t][Len(messages[t])])'
    BY <1>5, <1>7, <1>9, <1>10, <1>11, <1>15, <2>1 DEF EndsWith, IsTerminal
  <2>3. ASSUME NEW u \in Threads \ {t}, requests[u] # <<>>, messages[u] # <<>>,
               EndsWith(u, row[LatestRequest(u)], messages[u][Len(messages[u])])
        PROVE  EndsWith(u, row[LatestRequest(u)], messages[u][Len(messages[u])])'
    <3>1. LatestRequest(u) \in RequestsOf(u)
      BY <2>3, LatestIsOne
    <3>2. LatestRequest(u) # r
      BY <1>5, <3>1 DEF TalkPart, Owned
    <3>3. row'[LatestRequest(u)'] = row[LatestRequest(u)] /\ messages'[u] = messages[u]
      BY <1>9, <1>11, <1>12, <1>21, <3>1, <3>2
    <3> QED
      BY <2>3, <3>3 DEF EndsWith, Answered
  <2>4. ASSUME NEW u \in Threads
        PROVE  \/ requests'[u] = <<>> /\ messages'[u] = <<>>
               \/ /\ requests'[u] # <<>> /\ messages'[u] # <<>>
                  /\ EndsWith(u, row[LatestRequest(u)], messages[u][Len(messages[u])])'
    BY <1>9, <1>15, <1>21, <2>1, <2>2, <2>3 DEF TalkPart, Ends
  <2> QED
    BY <2>4 DEF Ends
<1>25. \A s \in Slots \ {slot} : Waiting(s)' <=> Waiting(s)
  BY <1>2, <1>6, <1>9, OtherSlots
<1>26. \A u \in Threads, s \in Slots : u # t \/ s # slot => (Answered(u, s)' <=> Answered(u, s))
  <2> SUFFICES ASSUME NEW u \in Threads, NEW s \in Slots, u # t \/ s # slot
               PROVE  Answered(u, s)' <=> Answered(u, s)
    OBVIOUS
  <2>1. CASE u # t
    BY <1>21, <2>1 DEF Answered
  <2>2. CASE u = t /\ s # slot
    <3>1. ASSUME Answered(t, s) PROVE Answered(t, s)'
      <4>1. PICK i \in DOMAIN l : l[i].role = "assistant" /\ l[i].slot = s
        BY <1>18, <3>1 DEF Answered
      <4>2. i \in DOMAIN y /\ y[i] = l[i]
        BY <1>20, <4>1
      <4> QED
        BY <1>21, <4>1, <4>2 DEF Answered
    <3>2. ASSUME Answered(t, s)' PROVE Answered(t, s)
      <4>1. PICK i \in DOMAIN y : y[i].role = "assistant" /\ y[i].slot = s
        BY <1>21, <3>2 DEF Answered
      <4>2. i # n + 1
        BY <1>7, <1>20, <2>2, <4>1
      <4>3. i \in DOMAIN l /\ l[i] = y[i]
        BY <1>20, <1>22, <4>1, <4>2
      <4> QED
        BY <1>18, <4>1, <4>3 DEF Answered
    <3> QED
      BY <2>2, <3>1, <3>2
  <2> QED
    BY <2>1, <2>2
<1>27. ASSUME NEW u \in Threads, NEW i \in 1 .. Len(messages[u]), NEW c \in Messages,
              c = messages[u][i], u # t \/ i # n
       PROVE  Line(u, c)' = Line(u, c)
  <2>1. c.slot \in Slots /\ c.role \in {"user", "assistant"} /\ i \in DOMAIN messages[u]
    BY <1>27, AllShown DEF Messages, UserMessages, AnswerMessages, Shown
  <2>2. CASE c.role = "assistant"
    BY <2>2 DEF Line
  <2>3. CASE c.slot # slot
    BY <1>25, <1>26, <2>1, <2>3, LineKept
  <2>4. CASE c.slot = slot /\ c.role = "user"
    <3>1. PICK q \in RequestsOf(u) : row[q].slot = slot
      BY <1>27, <2>1, <2>4 DEF TalkPart, Asked
    <3>2. u = t
      BY <1>5, <1>6, <3>1 DEF TalkPart, Owned
    <3>3. n \in DOMAIN messages[t]
      BY <1>18, <1>20
    <3>4. i = n
      BY <1>5, <1>16, <1>17, <1>27, <2>1, <2>4, <3>2, <3>3 DEF TalkPart, Asked
    <3> QED
      BY <1>27, <3>2, <3>4
  <2> QED
    BY <2>1, <2>2, <2>3, <2>4
<1>28. \A u \in Threads \ {t} : Talk(u)' = Talk(u)
  BY <1>21, <1>27, TalkKept
<1>29. Line(t, m)' = "answered"
  <2>1. ~Waiting(slot)'
    <3> SUFFICES ASSUME NEW q \in Requests, Exists(row'[q]), row'[q].slot = slot, IsActive(row'[q])
                 PROVE  FALSE
      BY DEF Waiting, Exists, IsActive
    <3>1. q # r /\ row'[q] = row[q]
      BY <1>9, <1>10
    <3>2. PICK u \in Threads : q \in RequestsOf(u)
      BY <3>1 DEF IInv, ThreadPart
    <3>3. u = t
      BY <1>5, <1>6, <3>1, <3>2 DEF TalkPart, Owned
    <3> QED
      BY <1>15, <3>1, <3>2, <3>3 DEF TalkPart, OnlyLatest
  <2>2. Answered(t, slot)'
    <3>1. n + 1 \in DOMAIN y
      BY <1>20
    <3> QED
      BY <1>7, <1>20, <1>21, <3>1 DEF Answered
  <2> QED
    BY <1>17, <2>1, <2>2 DEF Line, StandingOf
<1>30. Talk(t)' = Append([Talk(t) EXCEPT ![Len(Talk(t))] = "answered"], "answer")
  <2>1. PICK f \in Seq(Conv!Standing) : f = Talk(t)
    BY <1>5, AllShown DEF Shown
  <2>2. PICK g \in Seq(Conv!Standing) : g = Talk(t)'
    <3>1. (Conv!Standing)' = Conv!Standing
      BY DEF Conv!Standing
    <3> QED
      BY <1>5, <3>1, NextShown DEF Shown
  <2>3. Len(f) = n /\ Len(g) = n + 1
    BY <1>5, <1>8, <1>20, <1>21, <2>1, <2>2, AllShown, NextShown DEF Shown
  <2>4. "answered" \in Conv!Standing /\ "answer" \in Conv!Standing
    BY DEF Conv!Standing
  <2>5. PICK h : h = [f EXCEPT ![n] = "answered"]
    OBVIOUS
  <2>6. /\ h \in Seq(Conv!Standing) /\ Len(h) = n
        /\ \A i \in 1 .. n : h[i] = IF i = n THEN "answered" ELSE f[i]
    BY <1>20, <2>3, <2>4, <2>5, ExceptSeq
  <2>7. PICK k : k = Append(h, "answer")
    OBVIOUS
  <2>8. /\ k \in Seq(Conv!Standing) /\ Len(k) = n + 1
        /\ \A i \in 1 .. n : k[i] = h[i]
        /\ k[n + 1] = "answer"
    BY <2>4, <2>6, <2>7, AppendProperties
  <2>9. ASSUME NEW i \in 1 .. Len(g) PROVE g[i] = k[i]
    <3>1. PICK c \in Messages : c = y[i]
      BY <1>20, <2>3, ElementOfSeq
    <3>2. g[i] = Line(t, c)'
      BY <1>5, <1>20, <1>21, <2>2, <2>3, <3>1, NextShown DEF Shown
    <3>3. CASE i \in 1 .. n /\ i # n
      <4>1. c = messages[t][i] /\ i \in 1 .. Len(messages[t])
        BY <1>8, <1>18, <1>20, <3>1, <3>3
      <4>2. f[i] = Line(t, c)
        BY <1>5, <2>1, <4>1, AllShown DEF Shown
      <4> QED
        BY <1>5, <1>27, <2>6, <2>8, <3>2, <3>3, <4>1, <4>2
    <3>4. CASE i = n
      <4>1. c = m
        BY <1>16, <1>18, <1>20, <3>1, <3>4
      <4> QED
        BY <1>20, <1>29, <2>6, <2>8, <3>2, <3>4, <4>1
    <3>5. CASE i = n + 1
      <4>1. c.role = "assistant"
        BY <1>7, <1>20, <3>1, <3>5
      <4>2. Line(t, c)' = "answer"
        BY <4>1 DEF Line
      <4> QED
        BY <2>8, <3>2, <3>5, <4>2
    <3>6. (i \in 1 .. n /\ i # n) \/ i = n \/ i = n + 1
      BY <2>3
    <3> QED
      BY <3>3, <3>4, <3>5, <3>6
  <2>10. g = k
    BY <2>3, <2>8, <2>9, SeqEqual
  <2> QED
    BY <2>1, <2>2, <2>3, <2>5, <2>7, <2>10
<1>31. Conv!Last(t) = "waiting"
  <2>1. Waiting(slot)
    BY <1>2, <1>3, <1>6 DEF Waiting
  <2>2. Line(t, m) = "waiting"
    BY <1>17, <2>1 DEF Line, StandingOf
  <2> QED
    BY <1>5, <1>8, <1>15, <1>16, <2>2, LastLine
<1>32. Conv!Answer(t)
  BY <1>28, <1>30, <1>31 DEF Conv!Answer
<1> QED
  BY <1>5, <1>13, <1>14, <1>23, <1>24, <1>32 DEF TalkPart

----------------------------------------------------------------------------
LEMMA InitTalk == Init => TalkPart /\ Conv!TalkInit
<1> SUFFICES ASSUME Init PROVE TalkPart /\ Conv!TalkInit
  OBVIOUS
<1>1. \A t \in Threads : requests[t] = <<>> /\ messages[t] = <<>> /\ RequestsOf(t) = {}
  BY DEF Init, RequestsOf
<1>2. TalkPart
  BY <1>1 DEF TalkPart, Owned, OnlyLatest, Asked, Ends
<1>3. \A t \in Threads : Talk(t) = <<>>
  BY <1>1, InitInv, AllShown, EmptySeq DEF Shown
<1>4. Conv!TalkInit
  BY <1>3 DEF Conv!TalkInit
<1> QED
  BY <1>2, <1>4

(* All steps of a stream but its commit are quiet. *)
LEMMA StepQuiet ==
    ASSUME IInv, NEW w \in Tokens, Step(w), ~Commit(w)
    PROVE  Quiet(w)
<1>1. Moves(w)
  BY StepInv
<1>2. UNCHANGED <<requests, messages>>
  BY DEF Step, StartStream, PreAcquire, PreAccept, PreFail, Acquire, Raise, Cancel, StopRun,
         PersistStop, EmitAccepted, EmitDelta, Emit, Advance, Yield, Abandon, data
<1>3. \A r \in Requests : Exists(row'[r]) => Exists(row[r])
  BY <1>1, MovedRow, NullAssumption DEF IInv
<1> QED
  BY <1>1, <1>2, <1>3 DEF Quiet

LEMMA NextTalk ==
    ASSUME IInv, IInv', TalkPart, [Next]_vars
    PROVE  TalkPart' /\ [Conv!TalkNext]_talk
<1>1. ASSUME NEW t \in Threads, NEW k \in Keys, NEW r \in Requests, NEW slot \in Slots,
             AcceptMessage(t, k, r, slot)
      PROVE  TalkPart' /\ Conv!TalkNext
  BY <1>1, AskStep DEF Conv!TalkNext
<1>2. ASSUME NEW t \in Threads, NEW k \in Keys, NEW r \in Requests, NEW prior \in Requests,
             RetryResponse(t, k, prior, r)
      PROVE  TalkPart' /\ Conv!TalkNext
  BY <1>2, TryAgainStep DEF Conv!TalkNext
<1>3. ASSUME NEW r \in Requests, StatusRead(r) PROVE TalkPart' /\ Conv!TalkNext
  <2>1. Recovers(r) /\ UNCHANGED <<requests, messages, log>>
    BY <1>3 DEF StatusRead
  <2>2. Quiet(NoToken)
    BY <2>1, RecoveredRows DEF Quiet, IInv
  <2> QED
    BY <2>2, QuietGivesUp
<1>4. ASSUME NEW w \in Tokens, Step(w) PROVE TalkPart' /\ Conv!TalkNext
  <2>1. CASE Commit(w)
    BY <2>1, AnswerStep DEF Conv!TalkNext
  <2>2. CASE ~Commit(w)
    BY <1>4, <2>2, StepQuiet, QuietGivesUp
  <2> QED
    BY <2>1, <2>2
<1>5. CASE Tick \/ UNCHANGED vars
  <2>1. UNCHANGED <<row, requests, messages, log>>
    BY <1>5 DEF Tick, data, vars
  <2>2. Quiet(NoToken)
    BY <2>1, RowsStay DEF Quiet, IInv
  <2> QED
    BY <2>2, QuietGivesUp
<1> QED
  BY <1>1, <1>2, <1>3, <1>4, <1>5 DEF Next, Client

(* Admission, streams and recovery implement Conversation: a step asks a      *)
(* question, tries the last one again, answers it or gives it up, or shows    *)
(* nothing.                                                                   *)
THEOREM ConversationImplemented == Spec => ImplementsConversation
<1>1. IInv /\ IInv' /\ TalkPart /\ [Next]_vars => TalkPart' /\ [Conv!TalkNext]_talk
  BY NextTalk
<1> QED
  BY <1>1, InitTalk, Invariance, PTL DEF Spec, ImplementsConversation, Conv!TalkSpec, talk
=============================================================================
