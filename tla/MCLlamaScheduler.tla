-------------------------- MODULE MCLlamaScheduler --------------------------
(* Small instances of LlamaScheduler for TLC: pair1 and pair2 are groups   *)
(* of two choices, single is a group of one, direct a call without a       *)
(* group, image a call with images and tally a token count.                *)
EXTENDS LlamaScheduler, TLC

CONSTANTS pair1, pair2, single, direct, image, tally

Two == [x \in Calls |-> IF x \in {pair1, pair2} THEN 2 ELSE 1]
One == [x \in Calls |-> 1]
Content == [x \in Calls |-> "content"]
Mixed == [x \in Calls |-> IF x \in Direct THEN "semantic" ELSE "content"]

(* A slot is given back clean and before its request is acknowledged         *)
(* (LlamaScheduler: finalize_draining_slots, admit_generation_command).      *)
CleanSlots == TypeOK /\ SlotHygiene

(* Nobody is forgotten: nothing runs on for a call that has ended, a request *)
(* that got a slot is told how it ended, and an engine that fails a commit   *)
(* is known to be broken by then (LlamaScheduler: Drop for Reservation and   *)
(* Generation, finalize_draining_slots, fail_all_slots).                     *)
NobodyForgotten == NoOrphan /\ AckNeverLost /\ HealthBeforeCommitError
=============================================================================
