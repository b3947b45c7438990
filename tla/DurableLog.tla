----------------------------- MODULE DurableLog -----------------------------
(***************************************************************************)
(* What a rollout recorder promises to the session that writes through it: *)
(* items are numbered in the order in which they were handed over, reach   *)
(* the file in that order, and once the recorder has said that they are    *)
(* written they stay readable whatever fails afterwards.  RolloutRecorder  *)
(* is shown to implement this specification.                               *)
(***************************************************************************)
EXTENDS Naturals

VARIABLES
    volatile,   \* items handed over that cannot be read back yet
    durable,    \* items that can be read back from the file
    promised    \* items the recorder has acknowledged as written

logVars == <<volatile, durable, promised>>

Init ==
    /\ volatile = {}
    /\ durable = {}
    /\ promised = {}

\* New items are handed over; they come after everything known so far.
Accept ==
    /\ volatile \subseteq volatile'
    /\ \A i \in volatile' \ volatile, j \in volatile \cup durable : j < i
    /\ UNCHANGED <<durable, promised>>

\* The oldest waiting item becomes readable.
Write ==
    /\ \E i \in volatile :
           /\ \A j \in volatile : i <= j
           /\ durable' = durable \cup {i}
           /\ volatile' = volatile \ {i}
    /\ UNCHANGED promised

\* An item is written by somebody who hands it over and waits for the file.
WriteThrough ==
    /\ volatile = {}
    /\ \E i \in durable' :
           /\ \A j \in durable : j < i
           /\ durable' = durable \cup {i}
    /\ UNCHANGED <<volatile, promised>>

\* A caller is told that items are written; only readable ones may be named.
Acknowledge ==
    /\ promised \subseteq promised'
    /\ promised' \ promised \subseteq durable
    /\ UNCHANGED durable

Promise == Acknowledge /\ UNCHANGED volatile

\* The log is closed with a last acknowledgement, or its process dies, with items
\* still in memory.
Close == Acknowledge /\ volatile' = {}

Next == Accept \/ Write \/ WriteThrough \/ Promise \/ Close

Spec == Init /\ [][Next]_logVars
=============================================================================
