---------------------------- MODULE Conversation ----------------------------
(* What a chat thread looks like from outside: a list of messages, where    *)
(* only the last may be a question waiting for its answer.  A question that *)
(* stopped without an answer may be tried again while it is the last        *)
(* message; an answer follows its question at once, and stands.             *)
EXTENDS Naturals, Sequences

CONSTANT Threads

VARIABLE talk  \* [Threads -> Seq(Standing)]

(* "answer" is an answer, the others are what has become of a question. *)
Standing == {"waiting", "answered", "stopped", "answer"}

Last(t) == IF talk[t] = <<>> THEN "none" ELSE talk[t][Len(talk[t])]

TalkInit == talk = [t \in Threads |-> <<>>]

Ask(t) ==
    /\ Last(t) # "waiting"
    /\ talk' = [talk EXCEPT ![t] = Append(@, "waiting")]

TryAgain(t) ==
    /\ Last(t) = "stopped"
    /\ talk' = [talk EXCEPT ![t][Len(talk[t])] = "waiting"]

Answer(t) ==
    /\ Last(t) = "waiting"
    /\ talk' = [talk EXCEPT ![t] =
                  Append([talk[t] EXCEPT ![Len(talk[t])] = "answered"], "answer")]

(* One recovery may give up the last question of several threads. *)
GiveUp(ts) ==
    /\ \A t \in ts : Last(t) = "waiting"
    /\ talk' = [t \in Threads |->
                  IF t \in ts THEN [talk[t] EXCEPT ![Len(talk[t])] = "stopped"]
                  ELSE talk[t]]

TalkNext ==
    \/ \E t \in Threads : Ask(t) \/ TryAgain(t) \/ Answer(t)
    \/ \E ts \in SUBSET Threads : GiveUp(ts)

TalkSpec == TalkInit /\ [][TalkNext]_talk
=============================================================================
