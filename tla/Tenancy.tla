------------------------------- MODULE Tenancy -------------------------------
(****************************************************************************)
(* What a machine that runs one controller after another promises: the list *)
(* of memory segments of a best-effort application passes through one life, *)
(* one controller at most holds one at a time, and the level of the         *)
(* hardware is touched only for the application that is managed, or reset.  *)
(* The command line, the handshake and the kinds of death are left out.     *)
(****************************************************************************)
EXTENDS Integers

CONSTANTS
    Apps,       \* the best-effort applications
    Throttles   \* the levels below 100

VARIABLES
    life,      \* of the list of each application
    level,     \* the level of the hardware
    stranded,  \* did a controller give up a managed application without a reset,
               \* with none since?
    faulty     \* may a level not be set on this machine?

vars == <<life, level, stranded, faulty>>

Lives == {"unpublished", "published", "claimed", "managed", "spent"}

Init == /\ life = [a \in Apps |-> "unpublished"]
        /\ level = 100
        /\ stranded = FALSE
        /\ faulty \in BOOLEAN

Becomes(a, from, to) == /\ life[a] = from
                        /\ life' = [life EXCEPT ![a] = to]

\* No list is in the hands of a controller.
Vacant == \A a \in Apps : life[a] \notin {"claimed", "managed"}

Publish(a) == Becomes(a, "unpublished", "published") /\ UNCHANGED <<level, stranded, faulty>>

\* A controller takes a list out of the segment; an empty one is of no use.
Claim(a) == Vacant /\ Becomes(a, "published", "claimed") /\ UNCHANGED <<level, stranded, faulty>>

Discard(a) == Vacant /\ Becomes(a, "published", "spent") /\ UNCHANGED <<level, stranded, faulty>>

Manage(a) == Becomes(a, "claimed", "managed") /\ UNCHANGED <<level, stranded, faulty>>

\* The loop of the controller.
Throttle(a) == /\ life[a] = "managed"
               /\ level' \in Throttles \cup {100}
               /\ UNCHANGED <<life, stranded, faulty>>

\* A clean end puts the level back, if the hardware takes it.
PutBack == /\ level' \in {100} \cup (IF faulty THEN {level} ELSE {})
           /\ stranded' = FALSE
           /\ UNCHANGED faulty

Reset == Vacant /\ PutBack /\ UNCHANGED life

Leave(a) == PutBack /\ (Becomes(a, "claimed", "spent") \/ Becomes(a, "managed", "spent"))

\* An end without one leaves the level as it is.
Abandon(a) == Becomes(a, "claimed", "spent") /\ UNCHANGED <<level, stranded, faulty>>

Strand(a) == /\ Becomes(a, "managed", "spent")
             /\ stranded' = TRUE
             /\ UNCHANGED <<level, faulty>>

Next == \/ Reset
        \/ \E a \in Apps : \/ Publish(a) \/ Claim(a) \/ Discard(a) \/ Manage(a)
                           \/ Throttle(a) \/ Leave(a) \/ Abandon(a) \/ Strand(a)

Spec == Init /\ [][Next]_vars
=============================================================================
