------------------------------ MODULE TimerQueue -----------------------------
(***************************************************************************)
(* What a TimerManager promises its users (spec.md, Timer), stated without *)
(* clocks, deadlines, locks or the ordered set: a timer is armed once, by  *)
(* addTimer; while armed it may fire any number of times, each firing      *)
(* hands one call of its callback to the scheduler; a one-shot timer is    *)
(* disarmed by its first firing, a recurring one stays armed; cancel       *)
(* disarms an armed timer for good; a callback handed out runs later, and  *)
(* only timers that are armed ever fire.  When a timer fires is the        *)
(* detailed module's business: refresh and reset are invisible here.       *)
(***************************************************************************)
EXTENDS Naturals

CONSTANTS
    TimerIds     \* the timers

VARIABLES
    state,       \* per timer: "unused", "armed", "fired", "cancelled"
    rec,         \* per timer: whether it re-arms itself on firing
    owed         \* per timer: calls of its callback handed out, not yet run

vars == <<state, rec, owed>>

TypeOK ==
    /\ state \in [TimerIds -> {"unused", "armed", "fired", "cancelled"}]
    /\ rec \in [TimerIds -> BOOLEAN]
    /\ owed \in [TimerIds -> Nat]

Init ==
    /\ state = [id \in TimerIds |-> "unused"]
    /\ rec = [id \in TimerIds |-> FALSE]
    /\ owed = [id \in TimerIds |-> 0]

\* addTimer
Arm(id, r) ==
    /\ state[id] = "unused"
    /\ state' = [state EXCEPT ![id] = "armed"]
    /\ rec' = [rec EXCEPT ![id] = r]
    /\ UNCHANGED owed

\* cancel of an armed timer
Disarm(id) ==
    /\ state[id] = "armed"
    /\ state' = [state EXCEPT ![id] = "cancelled"]
    /\ UNCHANGED <<rec, owed>>

\* one scan fires a set of armed timers at once
Fire(S) ==
    /\ S # {}
    /\ \A id \in S : state[id] = "armed"
    /\ owed' = [id \in TimerIds |-> IF id \in S THEN owed[id] + 1 ELSE owed[id]]
    /\ state' = [id \in TimerIds |->
                   IF id \in S /\ ~rec[id] THEN "fired" ELSE state[id]]
    /\ UNCHANGED rec

\* a handed-out callback runs
RunOwed(id) ==
    /\ owed[id] > 0
    /\ owed' = [owed EXCEPT ![id] = @ - 1]
    /\ UNCHANGED <<state, rec>>

Next ==
    \/ \E id \in TimerIds : \/ \E r \in BOOLEAN : Arm(id, r)
                            \/ Disarm(id) \/ RunOwed(id)
    \/ \E S \in SUBSET TimerIds : Fire(S)

Spec == Init /\ [][Next]_vars

=============================================================================
