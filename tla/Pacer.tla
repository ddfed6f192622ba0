------------------------------- MODULE Pacer -------------------------------
(***************************************************************************)
(* The tick pacer of the authority's loop (pacer.rs): a deadline that      *)
(* advances by one tick duration per iteration. An iteration that ends     *)
(* early sleeps up to the deadline, a late one goes straight on, and one   *)
(* that is grossly late starts a new schedule. Time is counted in the      *)
(* clock's units, and a sleep may last longer than asked.                  *)
(***************************************************************************)
EXTENDS Integers, TLAPS

CONSTANTS
  Duration,  \* tick_duration
  MaxWork,   \* bound: time one iteration's work may take
  MaxSleep,  \* bound: time a sleep may last beyond what was asked
  MaxTime    \* bound: the clock

ASSUME DurationAssumption == Duration \in Nat \ {0}
ASSUME PacerBoundsAssumption == MaxWork \in Nat /\ MaxSleep \in Nat /\ MaxTime \in Nat

VARIABLES
  now,       \* Instant::now()
  deadline,  \* next_deadline
  caughtUp,  \* scheduled time of the ticks run since the loop last waited (history)
  spent      \* time those ticks' work has taken (history)

vars == <<now, deadline, caughtUp, spent>>

\* TickPacer::new
Init == now = 0 /\ deadline = now + Duration /\ caughtUp = 0 /\ spent = 0

\* What the loop does between two calls of the pacer, a suspended process included.
Work(d) ==
  /\ now + d <= MaxTime
  /\ now' = now + d
  /\ spent' = IF caughtUp = 0 THEN 0 ELSE spent + d
  /\ UNCHANGED <<deadline, caughtUp>>

\* sleep_until_next before the deadline.
Sleep(late) ==
  /\ deadline > now /\ deadline + late <= MaxTime
  /\ now' = deadline + late
  /\ deadline' = deadline + Duration
  /\ caughtUp' = 0 /\ spent' = 0

\* Mutant: every missed tick is run, however many there are.
NeverTooLate(lag) == FALSE

\* More than ten ticks behind.
TooLate(lag) == lag > Duration * 10

\* sleep_until_next at or after the deadline: run the next tick at once.
CatchUp ==
  /\ deadline <= now /\ ~TooLate(now - deadline)
  /\ deadline' = deadline + Duration
  /\ caughtUp' = caughtUp + Duration
  /\ UNCHANGED <<now, spent>>

\* Grossly behind: the schedule restarts from now.
Restart ==
  /\ deadline <= now /\ TooLate(now - deadline)
  /\ deadline' = now + Duration
  /\ caughtUp' = 0 /\ spent' = 0
  /\ UNCHANGED now

Next ==
  \/ \E d \in 0..MaxWork : Work(d)
  \/ \E late \in 0..MaxSleep : Sleep(late)
  \/ CatchUp
  \/ Restart

Spec == Init /\ [][Next]_vars

-----------------------------------------------------------------------------
\* No tick starts before its place in the schedule: whenever the loop runs, the
\* deadline before the one it will wait for has passed.
NeverEarly == now >= deadline - Duration

\* The ticks run back to back to make up for lost time never cover more than
\* eleven durations beyond the time they took themselves, however long the process
\* was suspended (pacer.rs, the reset to now).
CatchUpBounded == caughtUp <= spent + 11 * Duration

\* The pacing the loop relies on: never ahead of the clock, and never far behind
\* it at full speed (run_server.rs, tick_loop).
Paced == NeverEarly /\ CatchUpBounded

\* What makes CatchUpBounded inductive: while catching up, the lateness and the
\* ticks made up for add up to the lateness the loop started with.
LatenessShared == caughtUp > 0 => caughtUp + (now - deadline) <= spent + 10 * Duration

PacerTypeOK ==
  /\ now \in Nat /\ deadline \in Nat /\ caughtUp \in Nat /\ spent \in Nat
  /\ caughtUp = 0 => spent = 0

PacerInv == PacerTypeOK /\ NeverEarly /\ LatenessShared /\ CatchUpBounded
-----------------------------------------------------------------------------
\* The pacer keeps its pace for every tick duration, every amount of work and every
\* oversleep. CatchUpBounded alone is not inductive: it says nothing of how late the
\* loop still is. LatenessShared does.

\* The invariant holds of a new pacer.
LEMMA PacerInit == Init => PacerInv
BY DurationAssumption
   DEF Init, PacerInv, PacerTypeOK, NeverEarly, LatenessShared, CatchUpBounded

\* It outlasts every step.
LEMMA PacerStep == PacerInv /\ [Next]_vars => PacerInv'
<1> SUFFICES ASSUME PacerInv, [Next]_vars PROVE PacerInv'
  OBVIOUS
<1> USE DurationAssumption
    DEF PacerInv, PacerTypeOK, NeverEarly, LatenessShared, CatchUpBounded
<1>1. ASSUME NEW d \in 0..MaxWork, Work(d) PROVE PacerInv'
  BY <1>1, PacerBoundsAssumption DEF Work
<1>2. ASSUME NEW late \in 0..MaxSleep, Sleep(late) PROVE PacerInv'
  BY <1>2, PacerBoundsAssumption DEF Sleep
<1>3. CASE CatchUp
  BY <1>3 DEF CatchUp, TooLate
<1>4. CASE Restart
  BY <1>4 DEF Restart
<1>5. CASE UNCHANGED vars
  BY <1>5 DEF vars
<1> QED
  BY <1>1, <1>2, <1>3, <1>4, <1>5 DEF Next

\* The authority's loop never starts a tick before its place in the schedule, and
\* after any delay it runs at most eleven ticks' worth without waiting.
THEOREM PacedAlways == Spec => []Paced
<1>1. PacerInv => Paced
  BY DEF PacerInv, Paced
<1> QED
  BY <1>1, PacerInit, PacerStep, PTL DEF Spec
=============================================================================
