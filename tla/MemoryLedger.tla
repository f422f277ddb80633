---------------------------- MODULE MemoryLedger ----------------------------
(***************************************************************************)
(* What saving experiences promises: an activity leaves one receipt, and a *)
(* receipt ends as a memory, or is refused, or is dropped.  A refused one  *)
(* may still be kept or dropped by its owner; a kept or dropped one never  *)
(* changes again, and one step decides one receipt.                        *)
(***************************************************************************)
CONSTANT Receipts       \* the sequence numbers of the receipts of one scope

VARIABLE ledger         \* how each receipt stands

Standings == {"none", "waiting", "refused", "kept", "dropped"}

LedgerInit == ledger = [s \in Receipts |-> "none"]

(* A receipt moves from one of the standings in from to another in to. *)
Move(s, from, to) ==
  /\ ledger[s] \in from
  /\ \E standing \in to : ledger' = [ledger EXCEPT ![s] = standing]

Enter(s)  == Move(s, {"none"}, {"waiting", "refused", "dropped"})
Keep(s)   == Move(s, {"waiting", "refused"}, {"kept"})
Refuse(s) == Move(s, {"waiting"}, {"refused"})
Drop(s)   == Move(s, {"waiting", "refused"}, {"dropped"})

LedgerNext == \E s \in Receipts : Enter(s) \/ Keep(s) \/ Refuse(s) \/ Drop(s)

Ledger == LedgerInit /\ [][LedgerNext]_ledger
=============================================================================
