------------------------------ MODULE Scheduler ------------------------------
(***************************************************************************)
(* The N:M fiber scheduler of src/cxk/scheduler.{h,cpp} together with the  *)
(* Fiber state machine it drives (src/cxk/fiber.cpp).  A scheduler owns a  *)
(* pool of worker threads (use_caller = false) and one ready queue         *)
(* m_fibers of FiberAndThread items guarded by m_mutex.  Each worker runs  *)
(* Scheduler::run: scan the queue under the lock, swap the chosen fiber    *)
(* in (or a per-thread callback fiber for a plain callback), and when it   *)
(* swaps back out act on its state.  The main thread starts the pool,      *)
(* schedules work, stops and joins.                                        *)
(*                                                                         *)
(* With use_caller the thread that builds the scheduler is one of its     *)
(* threads (Root): start() spawns only the others, and the caller joins in *)
(* inside stop(), where it calls the root fiber, which runs Scheduler::run *)
(* until that thread's idle fiber sees stopping().                         *)
(*                                                                         *)
(* A work unit is a callback body; it may return, throw, yield to READY    *)
(* or switch itself to another worker (Scheduler::switchTo).  Yielding is  *)
(* two steps as in Fiber::YieldToReady/YieldToHold: the state is written,  *)
(* then swapcontext saves the fiber's context and resumes the thread's     *)
(* scheduling fiber.                                                       *)
(***************************************************************************)
EXTENDS Naturals, Sequences, FiniteSets, SequencesExt

CONSTANTS
    Threads,     \* worker threads of the pool
    Fibers,      \* Fiber objects that can be allocated (a bounded heap)
    Work,        \* callback bodies the main thread schedules, once each
    Affinities,  \* thread arguments the main thread passes to schedule()
    Ops,         \* what a body may do besides return: "ready", "throw", "switch"
    MaxYields,   \* bound on the yields of one body
    AnyThread,   \* thread = -1: no affinity
    Root,        \* m_rootThread: the caller thread with use_caller, else -1
    NoFiber,     \* a null Fiber::ptr
    NoWork       \* an empty std::function

ASSUME /\ Affinities \subseteq Threads \cup {AnyThread}
       /\ Root \in Threads \cup {AnyThread}
       /\ Ops \subseteq {"ready", "throw", "switch"}
       /\ MaxYields \in Nat
       \* every unit and every thread's callback fiber can get a Fiber object
       /\ Cardinality(Fibers) >= Cardinality(Work) + Cardinality(Threads)

FiberStates == {"NONE", "INIT", "READY", "HOLD", "EXEC", "TERM", "EXCEPT"}

\* Scheduler::FiberAndThread: a fiber XOR a callback, and a thread affinity
Item == [fiber: Fibers \cup {NoFiber}, cb: Work \cup {NoWork},
         thread: Threads \cup {AnyThread}]
NoItem == [fiber |-> NoFiber, cb |-> NoWork, thread |-> AnyThread]

VARIABLES
    queue,     \* m_fibers, the ready queue
    active,    \* m_activeThreadCount
    stopping,  \* m_stopping
    autoStop,  \* m_autoStop
    mpc,       \* where the main thread is: "init" "running" "calling"
               \* (in stop(), before the root fiber) "inroot" "stopping"
               \* (joining) "joined"
    sub,       \* affinity each unit was scheduled with, or NoWork if not yet
    pc,        \* per worker: where it is in Scheduler::run
    ft,        \* per worker: the local FiberAndThread taken from the queue
    cur,       \* per worker: the fiber whose context runs on it (t_fiber)
    cbFiber,   \* per worker: cb_fiber of Scheduler::run
    idleTerm,  \* per worker: idle_fiber reached TERM
    fstate,    \* Fiber::m_state of every fiber ("NONE" = not allocated)
    fcb,       \* the unit a fiber runs
    budget,    \* yields left to the body a fiber runs
    done       \* how many times each unit's body has finished

vars == <<queue, active, stopping, autoStop, mpc, sub, pc, ft, cur, cbFiber,
          idleTerm, fstate, fcb, budget, done>>
fiberVars == <<fstate, fcb, budget>>

TypeOK ==
    /\ queue \in Seq(Item)
    /\ active \in Nat
    /\ stopping \in BOOLEAN /\ autoStop \in BOOLEAN
    /\ mpc \in {"init", "running", "calling", "inroot", "stopping", "joined"}
    /\ sub \in [Work -> Affinities \cup {NoWork}]
    /\ pc \in [Threads -> {"off", "sched", "got", "exec", "swapout",
                           "after", "post", "idle", "exit"}]
    /\ ft \in [Threads -> Item]
    /\ cur \in [Threads -> Fibers \cup {NoFiber}]
    /\ cbFiber \in [Threads -> Fibers \cup {NoFiber}]
    /\ idleTerm \in [Threads -> BOOLEAN]
    /\ fstate \in [Fibers -> FiberStates]
    /\ fcb \in [Fibers -> Work \cup {NoWork}]
    /\ budget \in [Fibers -> 0..MaxYields]
    /\ done \in [Work -> Nat]

-----------------------------------------------------------------------------
(* Helpers *)

\* scheduleNoLock: append the item (both the fiber and the cb forms)
Enqueue(it) == queue' = Append(queue, it)

FreeFibers == {f \in Fibers : fstate[f] = "NONE"}

\* new Fiber(cb): a fresh stack, state INIT
NewFiber(f, w) ==
    /\ fstate' = [fstate EXCEPT ![f] = "INIT"]
    /\ fcb' = [fcb EXCEPT ![f] = w]
    /\ budget' = [budget EXCEPT ![f] = MaxYields]

\* Scheduler::stopping(), read under m_mutex
Stopping == stopping /\ autoStop /\ queue = <<>> /\ active = 0

\* mutant: the scan forgets the thread affinity of an item
RunnableAnyThread(t, it) ==
    ~(it.fiber # NoFiber /\ fstate[it.fiber] = "EXEC")

\* the scan condition of Scheduler::run for one item
Runnable(t, it) ==
    /\ it.thread \in {AnyThread, t}
    /\ ~(it.fiber # NoFiber /\ fstate[it.fiber] = "EXEC")

\* Fiber::swapIn: m_state = EXEC, then swapcontext into the fiber
SwapIn(t, f) ==
    /\ fstate' = [fstate EXCEPT ![f] = "EXEC"]
    /\ cur' = [cur EXCEPT ![t] = f]
    /\ pc' = [pc EXCEPT ![t] = "exec"]

-----------------------------------------------------------------------------
(* The main thread *)

\* the threads start() creates: m_threadCount of them, all but the caller
Spawned == Threads \ {Root}

\* Scheduler::start
Start ==
    /\ mpc = "init"
    /\ stopping' = FALSE
    /\ pc' = [t \in Threads |-> IF t \in Spawned THEN "sched" ELSE "off"]
    /\ mpc' = "running"
    /\ UNCHANGED <<queue, active, autoStop, sub, ft, cur, cbFiber, idleTerm,
                   fiberVars, done>>

\* Scheduler::schedule(fc, thread) from outside the pool, with a callback
\* or with a Fiber built around it
Submit(w, a) ==
    /\ mpc \in {"init", "running"}
    /\ sub[w] = NoWork
    /\ sub' = [sub EXCEPT ![w] = a]
    /\ \/ /\ Enqueue([fiber |-> NoFiber, cb |-> w, thread |-> a])
          /\ UNCHANGED fiberVars
       \/ \E f \in FreeFibers :
             /\ NewFiber(f, w)
             /\ Enqueue([fiber |-> f, cb |-> NoWork, thread |-> a])
    /\ UNCHANGED <<active, stopping, autoStop, mpc, pc, ft, cur, cbFiber,
                   idleTerm, done>>

\* mutant: stop() forgets m_autoStop = true
StopNoAutoStop ==
    /\ mpc = "running"
    /\ stopping' = TRUE
    /\ mpc' = IF Root = AnyThread THEN "stopping" ELSE "calling"
    /\ UNCHANGED <<queue, active, autoStop, sub, pc, ft, cur, cbFiber,
                   idleTerm, fiberVars, done>>

\* Scheduler::stop up to the tickles: set the flags (the early return of
\* the m_threadCount == 0 branch is the same check as the one before the
\* root fiber is called, below)
Stop ==
    /\ mpc = "running"
    /\ autoStop' = TRUE
    /\ stopping' = TRUE
    /\ mpc' = IF Root = AnyThread THEN "stopping" ELSE "calling"
    /\ UNCHANGED <<queue, active, sub, pc, ft, cur, cbFiber, idleTerm,
                   fiberVars, done>>

\* mutant: stop() goes on to join without calling the root fiber
CallRootSkip ==
    /\ mpc = "calling"
    /\ mpc' = "stopping"
    /\ UNCHANGED <<queue, active, stopping, autoStop, sub, pc, ft, cur,
                   cbFiber, idleTerm, fiberVars, done>>

\* with a root fiber: if !stopping(), m_rootFiber->call() runs
\* Scheduler::run on the caller thread
CallRoot ==
    /\ mpc = "calling"
    /\ IF Stopping
       THEN /\ mpc' = "stopping"
            /\ UNCHANGED pc
       ELSE /\ mpc' = "inroot"
            /\ pc' = [pc EXCEPT ![Root] = "sched"]
    /\ UNCHANGED <<queue, active, stopping, autoStop, sub, ft, cur, cbFiber,
                   idleTerm, fiberVars, done>>

\* Fiber::CallerMainFunc: run() has returned on the caller thread; the root
\* fiber is TERM and back() resumes stop()
RootBack ==
    /\ mpc = "inroot"
    /\ pc[Root] = "exit"
    /\ mpc' = "stopping"
    /\ UNCHANGED <<queue, active, stopping, autoStop, sub, pc, ft, cur,
                   cbFiber, idleTerm, fiberVars, done>>

\* mutant: stop() returns without joining its workers
JoinEarly ==
    /\ mpc = "stopping"
    /\ mpc' = "joined"
    /\ UNCHANGED <<queue, active, stopping, autoStop, sub, pc, ft, cur,
                   cbFiber, idleTerm, fiberVars, done>>

\* the join loop at the end of Scheduler::stop
Join ==
    /\ mpc = "stopping"
    /\ \A t \in Spawned : pc[t] = "exit"
    /\ mpc' = "joined"
    /\ UNCHANGED <<queue, active, stopping, autoStop, sub, pc, ft, cur,
                   cbFiber, idleTerm, fiberVars, done>>

-----------------------------------------------------------------------------
(* A worker thread in Scheduler::run *)

\* mutant: the scan takes an item without ++m_activeThreadCount
ScanNoCount(t) ==
    /\ pc[t] = "sched"
    /\ LET i == SelectInSeq(queue, LAMBDA it : Runnable(t, it)) IN
       IF i # 0
       THEN /\ ft' = [ft EXCEPT ![t] = queue[i]]
            /\ queue' = RemoveAt(queue, i)
            /\ pc' = [pc EXCEPT ![t] = "got"]
            /\ UNCHANGED active
       ELSE /\ pc' = [pc EXCEPT ![t] = IF idleTerm[t] THEN "exit" ELSE "idle"]
            /\ UNCHANGED <<ft, queue, active>>
    /\ UNCHANGED <<stopping, autoStop, mpc, sub, cur, cbFiber, idleTerm,
                   fiberVars, done>>

\* the locked scan of m_fibers; with nothing taken, the idle branch
Scan(t) ==
    /\ pc[t] = "sched"
    /\ LET i == SelectInSeq(queue, LAMBDA it : Runnable(t, it)) IN
       IF i # 0
       THEN /\ ft' = [ft EXCEPT ![t] = queue[i]]
            /\ queue' = RemoveAt(queue, i)
            /\ active' = active + 1
            /\ pc' = [pc EXCEPT ![t] = "got"]
       ELSE /\ pc' = [pc EXCEPT ![t] = IF idleTerm[t] THEN "exit" ELSE "idle"]
            /\ UNCHANGED <<ft, queue, active>>
    /\ UNCHANGED <<stopping, autoStop, mpc, sub, cur, cbFiber, idleTerm,
                   fiberVars, done>>

\* a fiber item that has not terminated: swap it in
RunFiber(t) ==
    /\ pc[t] = "got"
    /\ ft[t].fiber # NoFiber
    /\ fstate[ft[t].fiber] \notin {"TERM", "EXCEPT"}
    /\ SwapIn(t, ft[t].fiber)
    /\ UNCHANGED <<queue, active, stopping, autoStop, mpc, sub, ft, cbFiber,
                   idleTerm, fcb, budget, done>>

\* mutant: a reused cb_fiber keeps the callback it ran before
RunCallbackStale(t) ==
    /\ pc[t] = "got"
    /\ ft[t].fiber = NoFiber
    /\ \E f \in IF cbFiber[t] # NoFiber THEN {cbFiber[t]} ELSE FreeFibers :
          /\ cbFiber' = [cbFiber EXCEPT ![t] = f]
          /\ fcb' = [fcb EXCEPT ![f] = IF cbFiber[t] # NoFiber THEN @
                                       ELSE ft[t].cb]
          /\ budget' = [budget EXCEPT ![f] = MaxYields]
          /\ SwapIn(t, f)
    /\ UNCHANGED <<queue, active, stopping, autoStop, mpc, sub, ft, idleTerm,
                   done>>

\* a callback item: reset the thread's cb_fiber to it, or make one
RunCallback(t) ==
    /\ pc[t] = "got"
    /\ ft[t].fiber = NoFiber
    /\ \E f \in IF cbFiber[t] # NoFiber THEN {cbFiber[t]} ELSE FreeFibers :
          /\ cbFiber' = [cbFiber EXCEPT ![t] = f]
          /\ fcb' = [fcb EXCEPT ![f] = ft[t].cb]
          /\ budget' = [budget EXCEPT ![f] = MaxYields]
          /\ SwapIn(t, f)
    /\ UNCHANGED <<queue, active, stopping, autoStop, mpc, sub, ft, idleTerm,
                   done>>

\* a fiber item already TERM or EXCEPT: drop it, is_active so --active
DropDead(t) ==
    /\ pc[t] = "got"
    /\ ft[t].fiber # NoFiber
    /\ fstate[ft[t].fiber] \in {"TERM", "EXCEPT"}
    /\ active' = active - 1
    /\ ft' = [ft EXCEPT ![t] = NoItem]
    /\ pc' = [pc EXCEPT ![t] = "sched"]
    /\ UNCHANGED <<queue, stopping, autoStop, mpc, sub, cur, cbFiber,
                   idleTerm, fiberVars, done>>

(* The body of the fiber running on t.  Each step writes m_state and      *)
(* leaves the thread to complete the swapcontext back to the scheduler.   *)

\* Fiber::MainFunc: the callback returns (TERM) or throws (EXCEPT)
Finish(t) ==
    /\ pc[t] = "exec"
    /\ \E s \in {"TERM"} \cup (IF "throw" \in Ops THEN {"EXCEPT"} ELSE {}) :
          fstate' = [fstate EXCEPT ![cur[t]] = s]
    /\ done' = [done EXCEPT ![fcb[cur[t]]] = @ + 1]
    /\ pc' = [pc EXCEPT ![t] = "swapout"]
    /\ UNCHANGED <<queue, active, stopping, autoStop, mpc, sub, ft, cur,
                   cbFiber, idleTerm, fcb, budget>>

\* mutant: the fiber schedules itself before its context is swapped out
YieldToReadyEarly(t) ==
    /\ pc[t] = "exec"
    /\ "ready" \in Ops
    /\ budget[cur[t]] > 0
    /\ fstate' = [fstate EXCEPT ![cur[t]] = "READY"]
    /\ budget' = [budget EXCEPT ![cur[t]] = @ - 1]
    /\ Enqueue([fiber |-> cur[t], cb |-> NoWork, thread |-> AnyThread])
    /\ pc' = [pc EXCEPT ![t] = "swapout"]
    /\ UNCHANGED <<active, stopping, autoStop, mpc, sub, ft, cur,
                   cbFiber, idleTerm, fcb, done>>

\* Fiber::YieldToReady
YieldToReady(t) ==
    /\ pc[t] = "exec"
    /\ "ready" \in Ops
    /\ budget[cur[t]] > 0
    /\ fstate' = [fstate EXCEPT ![cur[t]] = "READY"]
    /\ budget' = [budget EXCEPT ![cur[t]] = @ - 1]
    /\ pc' = [pc EXCEPT ![t] = "swapout"]
    /\ UNCHANGED <<queue, active, stopping, autoStop, mpc, sub, ft, cur,
                   cbFiber, idleTerm, fcb, done>>

\* mutant: switchTo yields to HOLD without scheduling the fiber
SwitchToLost(t) ==
    /\ pc[t] = "exec"
    /\ "switch" \in Ops
    /\ budget[cur[t]] > 0
    /\ fstate' = [fstate EXCEPT ![cur[t]] = "HOLD"]
    /\ budget' = [budget EXCEPT ![cur[t]] = @ - 1]
    /\ pc' = [pc EXCEPT ![t] = "swapout"]
    /\ UNCHANGED <<queue, active, stopping, autoStop, mpc, sub, ft, cur,
                   cbFiber, idleTerm, fcb, done>>

\* Scheduler::switchTo(s) for another worker s: schedule(Fiber::GetThis(), s)
\* then Fiber::YieldToHold
SwitchTo(t) ==
    /\ pc[t] = "exec"
    /\ "switch" \in Ops
    /\ budget[cur[t]] > 0
    /\ \E s \in Threads \ {t} :
          Enqueue([fiber |-> cur[t], cb |-> NoWork, thread |-> s])
    /\ fstate' = [fstate EXCEPT ![cur[t]] = "HOLD"]
    /\ budget' = [budget EXCEPT ![cur[t]] = @ - 1]
    /\ pc' = [pc EXCEPT ![t] = "swapout"]
    /\ UNCHANGED <<active, stopping, autoStop, mpc, sub, ft, cur, cbFiber,
                   idleTerm, fcb, done>>

\* Fiber::swapOut: swapcontext saves the fiber and resumes run()
SwapOut(t) ==
    /\ pc[t] = "swapout"
    /\ cur' = [cur EXCEPT ![t] = NoFiber]
    /\ pc' = [pc EXCEPT ![t] = "after"]
    /\ UNCHANGED <<queue, active, stopping, autoStop, mpc, sub, ft, cbFiber,
                   idleTerm, fiberVars, done>>

\* --m_activeThreadCount right after swapIn returns
AfterRun(t) ==
    /\ pc[t] = "after"
    /\ active' = active - 1
    /\ pc' = [pc EXCEPT ![t] = "post"]
    /\ UNCHANGED <<queue, stopping, autoStop, mpc, sub, ft, cur, cbFiber,
                   idleTerm, fiberVars, done>>

\* mutant: a READY fiber is left out of the queue like a HOLD one
PostFiberNoRequeue(t) ==
    /\ pc[t] = "post"
    /\ ft[t].fiber # NoFiber
    /\ LET f == ft[t].fiber IN
       IF fstate[f] \in {"TERM", "EXCEPT"}
       THEN UNCHANGED fstate
       ELSE fstate' = [fstate EXCEPT ![f] = "HOLD"]
    /\ ft' = [ft EXCEPT ![t] = NoItem]
    /\ pc' = [pc EXCEPT ![t] = "sched"]
    /\ UNCHANGED <<queue, active, stopping, autoStop, mpc, sub, cur, cbFiber,
                   idleTerm, fcb, budget, done>>

\* a fiber item that swapped out: READY is rescheduled, a live one is HOLD
PostFiber(t) ==
    /\ pc[t] = "post"
    /\ ft[t].fiber # NoFiber
    /\ LET f == ft[t].fiber IN
       CASE fstate[f] = "READY" ->
              /\ Enqueue([fiber |-> f, cb |-> NoWork, thread |-> AnyThread])
              /\ UNCHANGED fstate
         [] fstate[f] \in {"TERM", "EXCEPT"} ->
              UNCHANGED <<queue, fstate>>
         [] OTHER ->
              /\ fstate' = [fstate EXCEPT ![f] = "HOLD"]
              /\ UNCHANGED queue
    /\ ft' = [ft EXCEPT ![t] = NoItem]
    /\ pc' = [pc EXCEPT ![t] = "sched"]
    /\ UNCHANGED <<active, stopping, autoStop, mpc, sub, cur, cbFiber,
                   idleTerm, fcb, budget, done>>

\* mutant: a READY cb_fiber is rescheduled but kept as the thread's cb_fiber
PostCallbackKeep(t) ==
    /\ pc[t] = "post"
    /\ ft[t].fiber = NoFiber
    /\ LET f == cbFiber[t] IN
       CASE fstate[f] = "READY" ->
              /\ Enqueue([fiber |-> f, cb |-> NoWork, thread |-> AnyThread])
              /\ UNCHANGED <<fstate, cbFiber>>
         [] fstate[f] \in {"TERM", "EXCEPT"} ->
              /\ fstate' = [fstate EXCEPT ![f] = "INIT"]
              /\ UNCHANGED <<queue, cbFiber>>
         [] OTHER ->
              /\ fstate' = [fstate EXCEPT ![f] = "HOLD"]
              /\ cbFiber' = [cbFiber EXCEPT ![t] = NoFiber]
              /\ UNCHANGED queue
    /\ ft' = [ft EXCEPT ![t] = NoItem]
    /\ pc' = [pc EXCEPT ![t] = "sched"]
    /\ UNCHANGED <<active, stopping, autoStop, mpc, sub, cur, idleTerm, fcb,
                   budget, done>>

\* the thread's cb_fiber swapped out: READY is rescheduled and given up,
\* a finished one is reset(nullptr) for reuse, a live one is given up HOLD
PostCallback(t) ==
    /\ pc[t] = "post"
    /\ ft[t].fiber = NoFiber
    /\ LET f == cbFiber[t] IN
       CASE fstate[f] = "READY" ->
              /\ Enqueue([fiber |-> f, cb |-> NoWork, thread |-> AnyThread])
              /\ cbFiber' = [cbFiber EXCEPT ![t] = NoFiber]
              /\ UNCHANGED fstate
         [] fstate[f] \in {"TERM", "EXCEPT"} ->
              /\ fstate' = [fstate EXCEPT ![f] = "INIT"]
              /\ UNCHANGED <<queue, cbFiber>>
         [] OTHER ->
              /\ fstate' = [fstate EXCEPT ![f] = "HOLD"]
              /\ cbFiber' = [cbFiber EXCEPT ![t] = NoFiber]
              /\ UNCHANGED queue
    /\ ft' = [ft EXCEPT ![t] = NoItem]
    /\ pc' = [pc EXCEPT ![t] = "sched"]
    /\ UNCHANGED <<active, stopping, autoStop, mpc, sub, cur, idleTerm, fcb,
                   budget, done>>

\* one turn of the idle fiber, Scheduler::idel: it returns (TERM) once
\* stopping() holds, and otherwise yields to HOLD
Idle(t) ==
    /\ pc[t] = "idle"
    /\ idleTerm' = [idleTerm EXCEPT ![t] = Stopping]
    /\ pc' = [pc EXCEPT ![t] = "sched"]
    /\ UNCHANGED <<queue, active, stopping, autoStop, mpc, sub, ft, cur,
                   cbFiber, fiberVars, done>>

-----------------------------------------------------------------------------

Init ==
    /\ queue = <<>>
    /\ active = 0
    /\ stopping = TRUE
    /\ autoStop = FALSE
    /\ mpc = "init"
    /\ sub = [w \in Work |-> NoWork]
    /\ pc = [t \in Threads |-> "off"]
    /\ ft = [t \in Threads |-> NoItem]
    /\ cur = [t \in Threads |-> NoFiber]
    /\ cbFiber = [t \in Threads |-> NoFiber]
    /\ idleTerm = [t \in Threads |-> FALSE]
    /\ fstate = [f \in Fibers |-> "NONE"]
    /\ fcb = [f \in Fibers |-> NoWork]
    /\ budget = [f \in Fibers |-> 0]
    /\ done = [w \in Work |-> 0]

Worker(t) ==
    \/ Scan(t) \/ RunFiber(t) \/ RunCallback(t) \/ DropDead(t)
    \/ Finish(t) \/ YieldToReady(t) \/ SwitchTo(t) \/ SwapOut(t)
    \/ AfterRun(t) \/ PostFiber(t) \/ PostCallback(t) \/ Idle(t)

Main == Start \/ Stop \/ CallRoot \/ RootBack \/ Join \/ \E w \in Work, a \in Affinities : Submit(w, a)

Next == Main \/ \E t \in Threads : Worker(t)

\* Workers are OS threads and each runs until it exits; the main thread
\* (the caller thread, with use_caller) goes on through stop(): it calls the
\* root fiber, is resumed by back() and joins.  Scheduling more work is
\* never forced.
Fairness ==
    /\ \A t \in Threads : WF_vars(Worker(t))
    /\ WF_vars(Start) /\ WF_vars(Stop) /\ WF_vars(Join)
    /\ WF_vars(CallRoot) /\ WF_vars(RootBack)

Spec == Init /\ [][Next]_vars /\ Fairness

-----------------------------------------------------------------------------
(* Properties *)

\* The refinement mapping to TaskPool.  A unit runs while a worker executes
\* a fiber whose body it is and that fiber is EXEC; it is done once its
\* body has finished; it is queued in between (in m_fibers, in a worker's
\* ft, or yielded and not yet re-queued).  stop() closes the pool.
RunningOn(w) ==
    {t \in Threads : cur[t] # NoFiber /\ fcb[cur[t]] = w
                     /\ fstate[cur[t]] = "EXEC"}
absStatus ==
    [w \in Work |-> CASE sub[w] = NoWork -> "new"
                      [] RunningOn(w) # {} -> "running"
                      [] done[w] >= 1 -> "done"
                      [] OTHER -> "queued"]
absOn ==
    [w \in Work |-> IF RunningOn(w) = {} THEN AnyThread
                    ELSE CHOOSE t \in RunningOn(w) : TRUE]
absPhase ==
    CASE mpc \in {"init", "running"} -> "open"
      [] mpc \in {"calling", "inroot", "stopping"} -> "closed"
      [] OTHER -> "joined"

Pool == INSTANCE TaskPool
            WITH status <- absStatus, on <- absOn, phase <- absPhase,
                 NoThread <- AnyThread

\* Scheduler implements TaskPool: every step of the workers and the main
\* thread is a step of the abstract pool or leaves it unchanged, so a unit
\* is never run after it finished, never runs on two threads, a thread
\* runs one unit at a time, and join waits for all submitted work.
PoolRefined == Pool!Spec

\* A fiber owns its stack: no two workers ever execute the same fiber's
\* context.  Fiber::YieldToHold publishes HOLD before swapcontext has saved
\* the context, and run() only skips queued fibers that are EXEC.
StackExclusive ==
    \A t1, t2 \in Threads :
        t1 # t2 /\ cur[t1] # NoFiber => cur[t1] # cur[t2]

\* Every scheduled body runs to its end at most once: the queue, the
\* per-thread cb_fiber reuse and the READY re-queue never hand one body to
\* two executions.
ExactlyOnce == \A w \in Work : done[w] <= 1

\* When stop() has joined every worker, nothing is left in the ready queue
\* and every unit scheduled has finished: no queue slot leaks at shutdown.
DrainedAtJoin ==
    mpc = "joined" =>
        /\ queue = <<>>
        /\ \A w \in Work : sub[w] # NoWork => done[w] = 1

\* A unit scheduled with a thread affinity only ever runs on that thread.
AffinityRespected ==
    \A t \in Threads :
        cur[t] # NoFiber => sub[fcb[cur[t]]] \in {AnyThread, t}

\* Every scheduled unit eventually finishes.
AllRun == \A w \in Work : sub[w] # NoWork ~> done[w] >= 1

\* stop() eventually returns: every worker exits and is joined.
Termination == <>(mpc = "joined")

=============================================================================
