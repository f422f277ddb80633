---------------------------- MODULE ResponseSlot ----------------------------
(* What the chat promises of a response slot (the answer to one user       *)
(* message): attempts at it follow each other, never two at a time; an      *)
(* attempt answers it, or stops and says whether another may be tried; and  *)
(* once it is answered, or closed, nothing happens to it any more.          *)
CONSTANT Slots

VARIABLE status  \* [Slots -> Statuses]

Statuses == {"unused", "answering", "retryable", "closed", "answered"}

SlotInit == status = [s \in Slots |-> "unused"]

Begin(s) ==
    /\ status[s] \in {"unused", "retryable"}
    /\ status' = [status EXCEPT ![s] = "answering"]

Answer(s) ==
    /\ status[s] = "answering"
    /\ status' = [status EXCEPT ![s] = "answered"]

(* A recovery may stop the attempts of several slots at once. *)
Stop(stopped, next) ==
    /\ \A s \in stopped : status[s] = "answering"
    /\ \A s \in stopped : next[s] \in {"retryable", "closed"}
    /\ status' = [s \in Slots |-> IF s \in stopped THEN next[s] ELSE status[s]]

SlotNext ==
    \/ \E s \in Slots : Begin(s) \/ Answer(s)
    \/ \E stopped \in SUBSET Slots : \E next \in [stopped -> Statuses] : Stop(stopped, next)

SlotSpec == SlotInit /\ [][SlotNext]_status
=============================================================================
