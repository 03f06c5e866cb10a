--------------------------- MODULE InitCountdown ---------------------------
(* What an init manager promises: it is initialised exactly when every     *)
(* registration is settled, and never when one was abandoned.              *)
EXTENDS Integers, FiniteSetsExt

CONSTANTS Managers, Targets

VARIABLES
  phase,      \* "Uninitialized", "Initializing", "Initialized" or "Gone"
  waiting,    \* registrations of a target with a manager that are not settled
  abandoned   \* registrations of a manager that can never be settled

vars == <<phase, waiting, abandoned>>

NoneWaiting == [t \in Targets |-> 0]

Init ==
  /\ phase = [m \in Managers |-> "Uninitialized"]
  /\ waiting \in [Managers -> [Targets -> Nat]]
  /\ abandoned = [m \in Managers |-> 0]

Finished(m) == waiting'[m] = NoneWaiting /\ abandoned[m] = 0

Register(m, t) ==
  /\ phase[m] \in {"Uninitialized", "Initializing"}
  /\ waiting' = [waiting EXCEPT ![m][t] = @ + 1]
  /\ UNCHANGED <<phase, abandoned>>

Start(m) ==
  /\ phase[m] = "Uninitialized"
  /\ UNCHANGED <<waiting, abandoned>>
  /\ phase' = [phase EXCEPT ![m] = IF Finished(m) THEN "Initialized" ELSE "Initializing"]

Settle(m, t) ==
  /\ phase[m] = "Initializing"
  /\ waiting[m][t] > 0
  /\ waiting' = [waiting EXCEPT ![m][t] = @ - 1]
  /\ phase' = [phase EXCEPT ![m] = IF Finished(m) THEN "Initialized" ELSE @]
  /\ UNCHANGED abandoned

\* Targets and managers are destroyed together.
Destroy(gone) ==
  /\ phase' = [m \in Managers |-> IF m \in gone THEN "Gone" ELSE phase[m]]
  /\ \A m \in Managers \ gone :
        /\ \A t \in Targets : waiting'[m][t] <= waiting[m][t]
        /\ abandoned'[m] = abandoned[m]
             + MapThenSumSet(LAMBDA t : waiting[m][t] - waiting'[m][t], Targets)
  /\ \A m \in gone : waiting'[m] = NoneWaiting

Next ==
  \/ \E m \in Managers, t \in Targets : Register(m, t) \/ Settle(m, t)
  \/ \E m \in Managers : Start(m)
  \/ \E gone \in SUBSET Managers : Destroy(gone)

Spec == Init /\ [][Next]_vars
=============================================================================
