------------------------------ MODULE WriteOnce ------------------------------
(***************************************************************************)
(* What the write path promises the senders of at-least-once transports: a *)
(* document is applied once, and again only after a lapse, an event after  *)
(* which the registry cannot know that it applied the document.            *)
(***************************************************************************)
EXTENDS Naturals

CONSTANT Keys      \* the documents

VARIABLES
    applied,   \* how often each document was applied
    lapses     \* how many of those applications the registry lost track of

Init ==
    /\ applied = [k \in Keys |-> 0]
    /\ lapses = [k \in Keys |-> 0]

\* Track of the documents L is lost.
Lapse(L) == lapses' = [k \in Keys |-> IF k \in L THEN lapses[k] + 1 ELSE lapses[k]]

\* An application that is lost track of at once needs no earlier lapse.
Apply(k) ==
    /\ applied[k] <= lapses'[k]
    /\ applied' = [applied EXCEPT ![k] = @ + 1]

Next ==
    \E L \in SUBSET Keys :
        /\ Lapse(L)
        /\ UNCHANGED applied \/ \E k \in Keys : Apply(k)

Spec == Init /\ [][Next]_<<applied, lapses>>

=============================================================================
