------------------------------ MODULE GameTimer ------------------------------
(***************************************************************************)
(* The time base of the game: time_init and elapsed of software/app/time.c *)
(* on the timer of the SoC, which runs down from Reload to 0 and starts    *)
(* again.  The main loop polls one `elapsed` for each of its events (the   *)
(* sensors, the update of the game); what it does in between takes time.   *)
(*                                                                         *)
(* The timer is not in the repository: it counts Reload, ..., 1, 0, Reload *)
(* and so has a cycle of Reload + 1 clocks, while elapsed adds Reload when *)
(* it sees a wrap-around: it then counts one clock too few.                *)
(***************************************************************************)
EXTENDS Integers

CONSTANTS
  Event,      \* the variables that hold the time of the last event
  Reload,     \* 2 * CONFIG_CLOCK_FREQUENCY
  Period,     \* the argument `period` of elapsed, in clocks, per event
  Stated,     \* the time between two events that the program states
  MaxGap      \* bound: clocks from one poll of an event to its next poll

ASSUME TimerAssumption ==
  /\ Reload \in Nat /\ MaxGap \in Nat
  /\ Period \in [Event -> Nat] /\ Stated \in [Event -> Nat]
  /\ \A e \in Event : Period[e] + 1 + MaxGap <= Reload

VARIABLES
  value,      \* the counter of the timer
  last,       \* last_event, for every event
  age,        \* history: clocks since the event has been reported
  gap         \* history: clocks since elapsed has been called

timerVars == <<value, last, age, gap>>

t == Reload - value

time_init ==
  /\ value = Reload
  /\ last = [e \in Event |-> 0]
  /\ age = [e \in Event |-> 0]
  /\ gap = [e \in Event |-> 0]

Tick ==
  /\ \A e \in Event : gap[e] < MaxGap
  /\ value' = IF value = 0 THEN Reload ELSE value - 1
  /\ age' = [e \in Event |-> age[e] + 1]
  /\ gap' = [e \in Event |-> gap[e] + 1]
  /\ UNCHANGED last

(* The time since the last event, as elapsed computes it.                  *)
dt_unwrapped(e) == t - last[e]
dt(e) == IF t < last[e] THEN t - last[e] + Reload ELSE t - last[e]

elapsed_moved(e) ==
  /\ last' = [last EXCEPT ![e] = t]
  /\ \/ dt(e) > Period[e] /\ age' = [age EXCEPT ![e] = 0]
     \/ ~ dt(e) > Period[e] /\ UNCHANGED age
  /\ gap' = [gap EXCEPT ![e] = 0]
  /\ UNCHANGED value

(* elapsed returns 1 and takes the time, or returns 0 and keeps it.        *)
elapsed(e) ==
  /\ \/ /\ dt(e) > Period[e] \/ dt(e) < 0
        /\ last' = [last EXCEPT ![e] = t]
        /\ age' = [age EXCEPT ![e] = 0]
     \/ /\ ~ (dt(e) > Period[e] \/ dt(e) < 0)
        /\ UNCHANGED <<last, age>>
  /\ gap' = [gap EXCEPT ![e] = 0]
  /\ UNCHANGED value

TimerNext == Tick \/ \E e \in Event : elapsed(e)

TimerSpec == time_init /\ [][TimerNext]_timerVars

-----------------------------------------------------------------------------
(* What elapsed computes is the time since the event, and never negative;  *)
(* once the counter has wrapped around it is one clock short.              *)
DtIsTheAge ==
  \A e \in Event :
    /\ dt(e) >= 0
    /\ age[e] = IF t < last[e] THEN dt(e) + 1 ELSE dt(e)

(* An event is never reported before its period is over, wherever the      *)
(* counter of the timer wraps around.                                      *)
NeverEarly ==
  [][ \A e \in Event : age[e] # 0 /\ age'[e] = 0 => age[e] > Period[e] ]_timerVars

(* A poll that finds nothing comes at most one clock (the one that the     *)
(* wrap-around loses) after the stated time: no event is missed or waits   *)
(* for another turn of the counter.                                        *)
NeverLate ==
  \A e \in Event : gap[e] = 0 => age[e] <= Stated[e] + 1
=============================================================================
