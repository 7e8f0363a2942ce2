--------------------------- MODULE InterruptLatch ---------------------------
(***************************************************************************)
(* What an interrupt controller promises for each of its direct lines: a   *)
(* request is remembered until it is delivered or explicitly retired, it   *)
(* is delivered at most once before it is retired, only an unmasked line   *)
(* is delivered, and of the deliverable lines the lowest goes first.       *)
(* A request that arrives during service is merged into that service: the  *)
(* code's class PIC keeps one request bit and retires it with the service. *)
(***************************************************************************)
EXTENDS Integers

CONSTANT Sources  \* the lines, integers ordered by priority

VARIABLES requested, inService, masked
latch == <<requested, inService, masked>>

Init == requested = {} /\ inService = {} /\ masked = {}

Request(l) ==
  /\ requested' = requested \cup ({l} \ inService)
  /\ UNCHANGED <<inService, masked>>

Deliver(l) ==
  /\ l \in requested \ masked
  /\ \A m \in requested \ masked : l <= m
  /\ requested' = requested \ {l}
  /\ inService' = inService \cup {l}
  /\ UNCHANGED masked

\* End of interrupt for one line, in service or still requested.
Retire(l) ==
  /\ requested' = requested \ {l}
  /\ inService' = inService \ {l}
  /\ UNCHANGED masked

SetMask(m) == masked' = m /\ UNCHANGED <<requested, inService>>

\* Initialisation forgets every request and unmasks every line.
Reset == requested' = {} /\ inService' = {} /\ masked' = {}

\* POST does the same and puts the mask back.
PostReset == requested' = {} /\ inService' = {} /\ UNCHANGED masked

Next == \/ \E l \in Sources : Request(l) \/ Deliver(l) \/ Retire(l)
        \/ \E m \in SUBSET Sources : SetMask(m)
        \/ Reset
        \/ PostReset

Spec == Init /\ [][Next]_latch
=============================================================================
