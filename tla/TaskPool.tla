------------------------------ MODULE TaskPool -------------------------------
(***************************************************************************)
(* What the fiber scheduler promises its users, stated without fibers,    *)
(* contexts or queues (spec.md, Scheduler): work handed to schedule() is   *)
(* queued, a worker thread takes it and runs it, a body may give the       *)
(* thread up and be queued again, and it finishes exactly once.  A thread  *)
(* runs one body at a time.  stop() closes the pool to new work, and the   *)
(* pool is joined only once all work handed to it has finished.            *)
(***************************************************************************)
CONSTANTS
    Threads,   \* worker threads
    Work,      \* units of work
    NoThread   \* a unit not running anywhere

VARIABLES
    status,    \* per unit: "new", "queued", "running", "done"
    on,        \* per unit: the thread running it, or NoThread
    phase      \* "open", "closed" (stop() called), "joined"

vars == <<status, on, phase>>

TypeOK ==
    /\ status \in [Work -> {"new", "queued", "running", "done"}]
    /\ on \in [Work -> Threads \cup {NoThread}]
    /\ phase \in {"open", "closed", "joined"}

Init ==
    /\ status = [w \in Work |-> "new"]
    /\ on = [w \in Work |-> NoThread]
    /\ phase = "open"

\* schedule(): only while the pool is open
Submit(w) ==
    /\ phase = "open" /\ status[w] = "new"
    /\ status' = [status EXCEPT ![w] = "queued"]
    /\ UNCHANGED <<on, phase>>

\* a free thread takes a queued unit
Begin(t, w) ==
    /\ status[w] = "queued"
    /\ \A v \in Work : on[v] # t
    /\ status' = [status EXCEPT ![w] = "running"]
    /\ on' = [on EXCEPT ![w] = t]
    /\ UNCHANGED phase

\* the body gives its thread up and waits to be taken again
Suspend(w) ==
    /\ status[w] = "running"
    /\ status' = [status EXCEPT ![w] = "queued"]
    /\ on' = [on EXCEPT ![w] = NoThread]
    /\ UNCHANGED phase

\* the body returns or throws
Complete(w) ==
    /\ status[w] = "running"
    /\ status' = [status EXCEPT ![w] = "done"]
    /\ on' = [on EXCEPT ![w] = NoThread]
    /\ UNCHANGED phase

Close ==
    /\ phase = "open"
    /\ phase' = "closed"
    /\ UNCHANGED <<status, on>>

\* join: everything that was handed over has finished
Join ==
    /\ phase = "closed"
    /\ \A w \in Work : status[w] \in {"new", "done"}
    /\ phase' = "joined"
    /\ UNCHANGED <<status, on>>

Next ==
    \/ \E w \in Work : Submit(w) \/ Suspend(w) \/ Complete(w)
    \/ \E t \in Threads, w \in Work : Begin(t, w)
    \/ Close \/ Join

Spec == Init /\ [][Next]_vars

=============================================================================
