----------------------------- MODULE FrameFifo -----------------------------
(***************************************************************************)
(* What the DMX path promises the web task: the frames it hands over are   *)
(* shown one after the other, in the order they were accepted, each whole  *)
(* and exactly once, and at most Capacity of them wait.                    *)
(***************************************************************************)
EXTENDS Naturals, Sequences

CONSTANTS
  Frames,    (* The frames.                                                *)
  Capacity,  (* Number of frames that may wait.                            *)
  First      (* The frame shown before any is accepted.                    *)

VARIABLES
  pending,   (* Frames accepted and not yet shown, oldest first.           *)
  shown      (* The frame shown.                                           *)

fifoVars == <<pending, shown>>

Init == pending = <<>> /\ shown = First

Accept == \E f \in Frames :
            /\ Len(pending) < Capacity
            /\ pending' = Append(pending, f)
            /\ UNCHANGED shown

Show == /\ pending # <<>>
        /\ shown' = Head(pending)
        /\ pending' = Tail(pending)

Next == Accept \/ Show

Spec == Init /\ [][Next]_fifoVars

(* No accepted frame waits for ever.                                       *)
Live == WF_fifoVars(Show)
=============================================================================
