------------------------------ MODULE TurnPromise ------------------------------
(***************************************************************************)
(* What the inbound worker promises of a voice note, whatever interleaves, *)
(* fails or is tried again on the way: its turn is told to the parent or   *)
(* undone, at most one of the two and for good.  While it is open, what it *)
(* writes into the lesson may come and go; a turn that was told is never   *)
(* touched again, and one that was undone leaves nothing, then or later.   *)
(***************************************************************************)
CONSTANTS Msgs

VARIABLES phase,   \* of each voice note
          written  \* the voice notes that the lesson holds rows of

promise == <<phase, written>>

Init == phase = [m \in Msgs |-> "open"] /\ written = {}

Becomes(m, p) == phase[m] = "open" /\ phase' = [phase EXCEPT ![m] = p]

Write(m)   == phase[m] = "open" /\ written' = written \cup {m} /\ UNCHANGED phase
Retract(m) == phase[m] = "open" /\ written' = written \ {m} /\ UNCHANGED phase
Tell(m)    == Becomes(m, "told") /\ UNCHANGED written
Undo(m)    == Becomes(m, "undone") /\ written' = written \ {m}

Next == \E m \in Msgs : Write(m) \/ Retract(m) \/ Tell(m) \/ Undo(m)

Spec == Init /\ [][Next]_promise
=============================================================================
