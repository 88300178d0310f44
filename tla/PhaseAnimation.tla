---------------------------- MODULE PhaseAnimation ----------------------------
(***************************************************************************)
(* The animation of an operation (packages/playground/src/                 *)
(* ascii-animation.ts): PhaseQueue, which paces the phases with a timer,   *)
(* and AsciiController, which draws the current one.  Time passes in steps *)
(* of MIN_DISPLAY_MS / MinDisplay; a timer may fire late, never early.     *)
(***************************************************************************)
EXTENDS Naturals, Sequences

CONSTANTS
  Phase,
  Framed,       \* the phases getFrameFn has frames for: all but "proved"
  Timer,        \* what setTimeout returns
  MinDisplay,   \* MIN_DISPLAY_MS
  MaxWaiting,   \* bound: phases in the queue
  None

ASSUME PhaseAssumption ==
  /\ None \notin Phase /\ None \notin Timer /\ Framed \subseteq Phase
  /\ MinDisplay \in Nat \ {0}

VARIABLES
  queue, current, timer,    \* #queue, #current, #timer
  due,       \* due[t]: time until timeout t may fire; None: it is not armed
  age,       \* history: since when current is displayed, up to MinDisplay
  frame,     \* #frameFn: whose frames
  interval,  \* is #animTimer set?
  hidden,    \* of the element
  text       \* whose frame the element shows

phases == <<queue, current, timer, due, age>>
phasesVars == <<phases, frame, interval, hidden, text>>

Unarmed == MinDisplay + 1

TypeOK ==
  /\ queue \in Seq(Phase)
  /\ current \in Phase \cup {None}
  /\ timer \in Timer \cup {None}
  /\ due \in [Timer -> 0..Unarmed]
  /\ age \in 0..MinDisplay
  /\ frame \in Framed \cup {None} /\ text \in Framed \cup {None}
  /\ interval \in BOOLEAN /\ hidden \in BOOLEAN

PhasesInit ==
  /\ queue = <<>> /\ current = None /\ timer = None
  /\ due = [t \in Timer |-> Unarmed] /\ age = 0
  /\ frame = None /\ interval = FALSE /\ hidden = TRUE /\ text = None

-----------------------------------------------------------------------------
(* PhaseQueue *)

ScheduleNext_Always(held, left) ==   \* mutant: no look at #timer
  \E t \in Timer :
    /\ left[t] = Unarmed
    /\ timer' = t /\ due' = [left EXCEPT ![t] = MinDisplay]

ScheduleNext(held, left) ==
  \/ held # None /\ timer' = held /\ due' = left
  \/ /\ held = None
     /\ \E t \in Timer :
          /\ left[t] = Unarmed
          /\ timer' = t /\ due' = [left EXCEPT ![t] = MinDisplay]

\* onChange; a phase without frames leaves the last text standing.
Display(p) ==
  /\ current' = p /\ age' = 0
  /\ frame' = IF p \in Framed THEN p ELSE None

Push_NoSchedule(p) ==   \* mutant: a push does not arm the timer again
  /\ Len(queue) < MaxWaiting
  /\ \/ current = None /\ Display(p) /\ ScheduleNext(timer, due) /\ UNCHANGED queue
     \/ /\ current # None
        /\ queue' = Append(queue, p)
        /\ UNCHANGED <<current, age, frame, timer, due>>
  /\ UNCHANGED <<interval, hidden, text>>

Push(p) ==
  /\ Len(queue) < MaxWaiting
  /\ \/ current = None /\ Display(p) /\ UNCHANGED queue
     \/ current # None /\ queue' = Append(queue, p) /\ UNCHANGED <<current, age, frame>>
  /\ ScheduleNext(timer, due)
  /\ UNCHANGED <<interval, hidden, text>>

Fire(t) ==
  /\ due[t] = 0
  /\ LET left == [due EXCEPT ![t] = Unarmed] IN
       \/ /\ queue = <<>>
          /\ timer' = None /\ due' = left
          /\ UNCHANGED <<queue, current, age, frame>>
       \/ /\ queue # <<>>
          /\ Display(Head(queue)) /\ queue' = Tail(queue)
          /\ ScheduleNext(None, left)
  /\ UNCHANGED <<interval, hidden, text>>

Clear ==
  /\ due' = [t \in Timer |-> IF t = timer THEN Unarmed ELSE due[t]]
  /\ timer' = None /\ queue' = <<>> /\ current' = None /\ age' = 0

Pass ==
  /\ due' = [t \in Timer |-> IF due[t] \in 1..MinDisplay THEN due[t] - 1 ELSE due[t]]
  /\ age' = IF age < MinDisplay THEN age + 1 ELSE age
  /\ UNCHANGED <<queue, current, timer, frame, interval, hidden, text>>

-----------------------------------------------------------------------------
(* AsciiController: one for each operation *)

Start ==
  /\ hidden /\ ~interval /\ current = None
  /\ hidden' = FALSE /\ interval' = TRUE
  /\ UNCHANGED <<phases, frame, text>>

Draw ==
  /\ interval /\ frame # None
  /\ text' = frame
  /\ UNCHANGED <<phases, frame, interval, hidden>>

Stop_KeepsInterval ==   \* mutant: clearInterval is forgotten
  /\ ~hidden
  /\ Clear
  /\ frame' = None /\ hidden' = TRUE /\ text' = None
  /\ UNCHANGED interval

Stop ==
  /\ ~hidden
  /\ Clear
  /\ interval' = FALSE /\ frame' = None /\ hidden' = TRUE /\ text' = None

PhasesNext ==
  \/ \E p \in Phase : Push(p)
  \/ \E t \in Timer : Fire(t)
  \/ Pass \/ Start \/ Draw \/ Stop

Safety == PhasesInit /\ [][PhasesNext]_phasesVars

\* Time passes, and the browser gets to a timeout that is due.
PhasesSpec == Safety /\ WF_phasesVars(Pass) /\ \A t \in Timer : WF_phasesVars(Fire(t))

-----------------------------------------------------------------------------
(* Properties *)

\* At most one timeout is armed, the one clear would cancel, and it is not due
\* before the phase on display has had its time: none survives an operation
\* to cut a phase of it short or to show one after it.
TimerIsOwn ==
  \A t \in Timer : due[t] # Unarmed =>
    timer = t /\ current # None /\ due[t] + age >= MinDisplay

\* Phases that come late, from a prover still at work after its operation has
\* given up, draw nothing on the page.
StoppedIsBlank == hidden => text = None

\* The queue and its timer do what the animation promises.
Promise == INSTANCE PhaseDisplay WITH shown <- current, waiting <- queue
Implements == Promise!Spec
ImplementsSafety == Promise!Safety
=============================================================================
