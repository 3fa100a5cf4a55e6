-------------------------- MODULE CheckpointLedger --------------------------
(***************************************************************************)
(* What the checkpoint service promises to auditors, with no store, anchor *)
(* or failure in sight: a ledger of coordinated root snapshots, one per    *)
(* sequence number, that grows by one checkpoint at a time and never       *)
(* changes an entry that was published.                                    *)
(***************************************************************************)
EXTENDS Naturals

CONSTANTS Snapshots,     \* root pairs (R_L, R_G) a checkpoint may bind
          MaxSequence,   \* largest sequence number
          NoSnapshot     \* the sequence number has no published checkpoint

VARIABLES current,       \* sequence of the current finalized checkpoint, 0 if none
          ledger         \* sequence number -> published snapshot

Init == /\ current = 0
        /\ ledger = [n \in 1..MaxSequence |-> NoSnapshot]

\* Publish the next checkpoint.
Publish(s) == /\ current < MaxSequence
              /\ current' = current + 1
              /\ ledger' = [ledger EXCEPT ![current + 1] = s]

Next == \E s \in Snapshots : Publish(s)

Spec == Init /\ [][Next]_<<current, ledger>>
=============================================================================
