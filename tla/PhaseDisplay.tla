----------------------------- MODULE PhaseDisplay -----------------------------
(***************************************************************************)
(* What the animation promises of the phases of an operation: all of them  *)
(* are displayed, in the order they came, each for MinDisplay at least,    *)
(* until the operation ends.                                               *)
(***************************************************************************)
EXTENDS Naturals, Sequences

CONSTANTS Phase, MinDisplay, None

VARIABLES
  shown,     \* the phase on display
  age,       \* since when, up to MinDisplay
  waiting    \* the phases that came and have not been displayed

vars == <<shown, age, waiting>>

Init == shown = None /\ age = 0 /\ waiting = <<>>

Come(p) ==
  \/ /\ shown = None
     /\ shown' = p /\ age' = 0
     /\ UNCHANGED waiting
  \/ /\ shown # None
     /\ waiting' = Append(waiting, p)
     /\ UNCHANGED <<shown, age>>

Advance ==
  /\ waiting # <<>> /\ age = MinDisplay
  /\ shown' = Head(waiting) /\ age' = 0
  /\ waiting' = Tail(waiting)

Age ==
  /\ age < MinDisplay
  /\ age' = age + 1
  /\ UNCHANGED <<shown, waiting>>

End == shown' = None /\ age' = 0 /\ waiting' = <<>>

Step == (\E p \in Phase : Come(p)) \/ Advance \/ Age \/ End

Safety == Init /\ [][Step]_vars

\* Phases that wait get their turn, unless the operation ends before.
Spec == Safety /\ WF_vars(Advance)
=============================================================================
