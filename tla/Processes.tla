------------------------------- MODULE Processes -------------------------------
(***************************************************************************)
(* What the commands of the x-context command line share: the processes    *)
(* that run them, the wall clock they read, and what may go wrong.         *)
(***************************************************************************)
EXTENDS Naturals, FiniteSets

CONSTANTS
  Procs,      \* processes that run a command, one after the other
  MaxTime,    \* bound on the clock
  Faults,     \* what may go wrong around them
  MaxCalls    \* bound on the commands started

ASSUME ProcessesAssumption ==
  /\ IsFiniteSet(Procs) /\ MaxTime \in Nat /\ MaxCalls \in Nat
  /\ Faults \subseteq {"refuse", "lost", "disk", "crash", "silent", "rotate", "withdraw"}

VARIABLES
  clock,      \* time.time() and datetime.now(), which do not step back here
  calls       \* commands started so far

Starting == clock = 0 /\ calls = 0

Tick == clock < MaxTime /\ clock' = clock + 1 /\ UNCHANGED calls

Starts == calls < MaxCalls /\ calls' = calls + 1 /\ UNCHANGED clock
================================================================================
