------------------------------ MODULE UndoLog ------------------------------
(***************************************************************************)
(* What undo and redo promise: a log of states with a cursor.  A new edit  *)
(* drops what lies after the cursor, undo and redo only move it, and the   *)
(* log remembers a bounded number of steps.                                *)
(***************************************************************************)
EXTENDS Naturals, Sequences

CONSTANT MaxHistory

VARIABLES log, at
vars == <<log, at>>

(* The log of an image as it was loaded. *)
Fresh == Len(log) = 1 /\ at = 1

Edit ==
    /\ at > 0
    /\ \E kept \in {SubSeq(log, 1, at), SubSeq(log, 2, at)} :
          /\ Len(log') = Len(kept) + 1
          /\ SubSeq(log', 1, Len(kept)) = kept
          /\ Len(log') <= MaxHistory + 1
    /\ at' = Len(log')
    /\ at' = IF at = MaxHistory + 1 THEN at ELSE at + 1

Undo == at > 1 /\ at' = at - 1 /\ UNCHANGED log
Redo == at < Len(log) /\ at > 0 /\ at' = at + 1 /\ UNCHANGED log

(* Another image is loaded. *)
Load == Len(log') = 1 /\ at' = 1

(* The promise ends: a gesture was overlapped by another edit or a load. *)
Overlap == log' = <<>> /\ at' = 0

Next == Edit \/ Undo \/ Redo \/ Load \/ Overlap

Spec == Fresh /\ [][Next]_vars
=============================================================================
