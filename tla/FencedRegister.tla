--------------------------- MODULE FencedRegister ---------------------------
(***************************************************************************)
(* What durable session authority promises: a register whose value only    *)
(* its current owner replaces, and whose ownership moves by advancing a    *)
(* fencing generation without touching the value.  Nobody is ever able to  *)
(* publish for a generation that has been superseded, and neither          *)
(* generation nor value is lost when an owner leaves.                      *)
(***************************************************************************)
EXTENDS Naturals

CONSTANTS Owners, NoOwner, Values, NoValue

VARIABLES generation, owner, value

rvars == <<generation, owner, value>>

Init ==
    /\ generation = 0
    /\ owner = NoOwner
    /\ value = NoValue

\* The next owner takes over with a fresh generation and inherits the value.
Takeover ==
    /\ generation' = generation + 1
    /\ owner' \in Owners
    /\ UNCHANGED value

\* The owner publishes.
Publish ==
    /\ owner # NoOwner
    /\ value' \in Values
    /\ UNCHANGED <<generation, owner>>

Next == Takeover \/ Publish

Spec == Init /\ [][Next]_rvars
=============================================================================
