------------------------------ MODULE IOManager ------------------------------
(***************************************************************************)
(* IOManager of src/cxk/iomanager.cpp driving the hooked blocking calls of *)
(* src/cxk/hook.cpp.  Worker threads run Scheduler::run over one queue:    *)
(* they resume waiting fibers and run timer callbacks, and when the queue  *)
(* has nothing for them they run IOManager::idel: stopping(), epoll_wait,  *)
(* listExpiredCb, then one pass over the reported fds.                     *)
(*                                                                         *)
(* Each Waiter is a fiber inside do_io on one fd and one direction: read,  *)
(* on EAGAIN arm a condition timer (if the fd has a timeout), addEvent,    *)
(* YieldToHold, and on resumption cancel the timer and either return       *)
(* ETIMEDOUT or retry.  A Closer runs the close() hook on an fd:           *)
(* cancelAll, then the real close, which drops the fd from epoll.          *)
(*                                                                         *)
(* The kernel side is modelled as far as the code depends on it: the      *)
(* epoll interest mask per fd (EPOLL_CTL_ADD fails on a registered fd,     *)
(* MOD and DEL on an unregistered one), edge-triggered notification, and   *)
(* readiness supplied by the peer.  Time is abstract: an armed timer       *)
(* becomes due at some later point (Elapse), and epoll_wait may return on  *)
(* its timeout at any point, since it never waits longer than 3000 ms.     *)
(***************************************************************************)
EXTENDS Naturals, Sequences, FiniteSets, SequencesExt

CONSTANTS
    Threads,      \* worker threads of the IOManager
    Waiters,      \* fibers blocked in do_io
    Fds,          \* socket fds
    WFd,          \* the fd each waiter does I/O on
    WDir,         \* the direction each waiter waits for: READ or WRITE
    WithTimeout,  \* waiters whose fd has SO_RCVTIMEO/SO_SNDTIMEO set
    Closable,     \* fds some fiber closes while others may wait on them
    Supply,       \* readiness edges the peer produces per fd and direction
    Kind,         \* per waiter: "read" (do_io), "connect"
                  \* (connect_with_timeout), "sleep" (sleep/usleep) or
                  \* "accept" (the accept loop of TcpServer::startAccept)
    ListenFd,     \* the TcpServer's listening socket, if it is in Fds
    FlagFds,      \* fds a user fiber calls fcntl(F_SETFL) or ioctl(FIONBIO) on
    IoctlArgs,    \* the values passed to ioctl(FIONBIO): TRUE is non-zero
    NoWaiter

Dirs == {"READ", "WRITE"}

ASSUME /\ WFd \in [Waiters -> Fds] /\ WDir \in [Waiters -> Dirs]
       /\ WithTimeout \subseteq Waiters /\ Closable \subseteq Fds
       /\ Supply \in Nat
       /\ Kind \in [Waiters -> {"read", "connect", "sleep", "accept"}]
       /\ \A w \in Waiters : Kind[w] = "connect" => WDir[w] = "WRITE"
       /\ \A w \in Waiters :
            Kind[w] = "accept" => WFd[w] = ListenFd /\ WDir[w] = "READ"
       /\ ListenFd \notin Closable
       /\ FlagFds \subseteq Fds /\ IoctlArgs \subseteq BOOLEAN

VARIABLES
    \* scheduler
    queue,      \* m_fibers: <<[kind |-> "fiber" | "timer", w |-> waiter]>>
    tpc,        \* per thread: "sched", "run", "check", "wait", "expire",
                \* "process", "exit"
    cur,        \* per thread: the item it runs
    active,     \* m_activeThreadCount
    stopFlag,   \* m_stopping /\ m_autoStop, set by stop()
    mpc,        \* main thread: "running", "joined"
    \* IOManager
    ev,         \* FdContext::events
    waiter,     \* FdContext::read/write .fiber
    appending,  \* m_appendingEventCount
    batch,      \* per thread: fd |-> directions reported by epoll_wait
    \* kernel and peer
    kern,       \* epoll interest mask per fd; {} = not registered
    ready,      \* directions the fd is ready for
    edge,       \* an edge-triggered notification is pending for the fd
    supply,     \* readiness edges the peer still produces
    closed,     \* per fd: "open", "cancelled" (cancelAll done), "deleted"
                \* (FdMgr::del done: no FdCtx), "closed" (close_f done)
    \* do_io
    wpc,        \* per waiter: "start", "arm", "add", "hold", "done"
    tstate,     \* the waiter's current timer: "none", "armed", "due"
    cancelled,  \* timer_info::cancelled is ETIMEDOUT
    result,     \* "none", "ok", "timeout", "error",
                \* "again" (EAGAIN returned to the caller)
    addFailed,  \* some addEvent failed in epoll_ctl
    \* FdCtx flags and the kernel file status flag
    userNb,     \* per fd: FdCtx::m_userNoblock
    kernNb,     \* per fd: O_NONBLOCK is set on the open file
    \* TcpServer
    srv         \* "running" (m_isStop false), "stopped" (stop(): m_isStop
                \* set, the close callback queued), "cancelled" (the
                \* callback's Socket::cancelAll done), "cleared" (m_socks
                \* closed and cleared)

schedVars == <<queue, tpc, cur, active, stopFlag, mpc>>
ioVars == <<ev, waiter, appending, batch>>
kernVars == <<kern, ready, edge, supply, closed>>
ioWVars == <<wpc, tstate, cancelled, result, addFailed, srv>>
fdVars == <<userNb, kernNb>>
vars == <<schedVars, ioVars, kernVars, ioWVars, fdVars>>

\* a waiting fiber, a timer callback, or TcpServer::stop's close callback
Item == [kind : {"fiber", "timer"}, w : Waiters]
            \cup [kind : {"stopcb"}, w : {NoWaiter}]
NoItem == [kind |-> "none", w |-> NoWaiter]

TypeOK ==
    /\ queue \in Seq(Item)
    /\ tpc \in [Threads -> {"sched", "run", "check", "wait", "expire",
                            "process", "exit"}]
    /\ cur \in [Threads -> Item \cup {NoItem}]
    /\ active \in 0..Cardinality(Threads)
    /\ stopFlag \in BOOLEAN /\ mpc \in {"running", "joined"}
    /\ ev \in [Fds -> SUBSET Dirs]
    /\ waiter \in [Fds -> [Dirs -> Waiters \cup {NoWaiter}]]
    /\ appending \in Nat
    /\ batch \in [Threads -> [Fds -> SUBSET Dirs]]
    /\ kern \in [Fds -> SUBSET Dirs] /\ ready \in [Fds -> SUBSET Dirs]
    /\ edge \in [Fds -> BOOLEAN]
    /\ supply \in [Fds -> [Dirs -> 0..Supply]]
    /\ closed \in [Fds -> {"open", "cancelled", "deleted", "closed"}]
    /\ wpc \in [Waiters -> {"loop", "start", "arm", "add", "hold", "done"}]
    /\ tstate \in [Waiters -> {"none", "armed", "due"}]
    /\ cancelled \in [Waiters -> BOOLEAN]
    /\ result \in [Waiters -> {"none", "ok", "timeout", "error", "again"}]
    /\ addFailed \in BOOLEAN
    /\ srv \in {"running", "stopped", "cancelled", "cleared"}
    /\ userNb \in [Fds -> BOOLEAN] /\ kernNb \in [Fds -> BOOLEAN]

-----------------------------------------------------------------------------
(* Helpers *)

NoBatch == [fd \in Fds |-> {}]

\* Scheduler::schedule of each item in turn (the queue is FIFO)
ScheduleAll(items) == queue' = queue \o items

\* FdContext::triggerEvent(d) for each d in ds: clear the bits and schedule
\* the registered fibers; the caller decrements m_appendingEventCount once
\* per direction
Triggered(fd, ds) ==
    SetToSeq({[kind |-> "fiber", w |-> waiter[fd][d]] : d \in ds})

ClearWaiters(fd, ds) ==
    [waiter EXCEPT ![fd] = [d \in Dirs |-> IF d \in ds THEN NoWaiter
                                                       ELSE waiter[fd][d]]]

\* a notification is queued when the new interest mask meets readiness
EdgeOn(fd, mask) == edge[fd] \/ (mask \cap ready[fd] # {})

\* the timer set of the TimerManager is empty
NoTimers == \A w \in Waiters : tstate[w] = "none"

\* IOManager::stopping(timeout)
Stopping ==
    /\ NoTimers /\ appending = 0
    /\ stopFlag /\ queue = <<>> /\ active = 0

-----------------------------------------------------------------------------
(* A waiter fiber in do_io, connect_with_timeout or sleep, on thread t *)

FiberOn(t) == cur[t].kind = "fiber"

\* mutant: run() does not decrement m_activeThreadCount after the fiber
FinishKeepActive(t, w, r) ==
    /\ wpc' = [wpc EXCEPT ![w] = "done"]
    /\ result' = [result EXCEPT ![w] = r]
    /\ cur' = [cur EXCEPT ![t] = NoItem]
    /\ active' = active
    /\ tpc' = [tpc EXCEPT ![t] = "sched"]

\* the fiber returns from do_io with r; the thread's run loop sees it TERM
Finish(t, w, r) ==
    /\ wpc' = [wpc EXCEPT ![w] = "done"]
    /\ result' = [result EXCEPT ![w] = r]
    /\ cur' = [cur EXCEPT ![t] = NoItem]
    /\ active' = active - 1
    /\ tpc' = [tpc EXCEPT ![t] = "sched"]

\* the hooked call returns r: the fiber's function then ends (TERM), but
\* TcpServer::startAccept goes back to the top of its loop on the same
\* thread, whatever accept returned (a client is handed to m_worker)
Return(t, w, r) ==
    IF Kind[w] = "accept"
    THEN /\ wpc' = [wpc EXCEPT ![w] = "loop"]
         /\ result' = [result EXCEPT ![w] = r]
         /\ UNCHANGED <<cur, active, tpc>>
    ELSE Finish(t, w, r)

\* after YieldToHold: the timeout callback has set tinfo->cancelled
TimedOut(w) == wpc[w] = "hold" /\ cancelled[w]

\* FdMgr::get(fd): the FdCtx is there until the close hook's FdMgr::del.
\* FdCtx::isClose() is never true: m_isClosed is only ever set false.
HasCtx(fd) == closed[fd] \in {"open", "cancelled"}

\* do_io: at entry FdMgr::get(fd); without an FdCtx, or when the user set
\* O_NONBLOCK (getUserNoblock), the real function is called once and its
\* result returned, EAGAIN included.  Then from the retry
\* label (after a wait: timer->cancel(), and return ETIMEDOUT if the timer
\* fired, still holding the FdCtx looked up at entry): call the real
\* function; data is consumed, a closed fd gives EBADF, otherwise EAGAIN
\* if the file is non-blocking, and a blocking file blocks the worker thread
DoRead(t) ==
    /\ tpc[t] = "run" /\ FiberOn(t)
    /\ LET w == cur[t].w
           fd == WFd[w]
           d == WDir[w]
       IN /\ Kind[w] \in {"read", "accept"} /\ wpc[w] \in {"start", "hold"}
          /\ tstate' = [tstate EXCEPT ![w] = "none"]
          /\ IF TimedOut(w)
             THEN /\ Return(t, w, "timeout")
                  /\ UNCHANGED ready
             ELSE IF closed[fd] = "closed"
             THEN /\ Return(t, w, "error")
                  /\ UNCHANGED ready
             ELSE IF d \in ready[fd]
             THEN /\ ready' = [ready EXCEPT ![fd] = @ \ {d}]
                  /\ Return(t, w, "ok")
             ELSE IF ~kernNb[fd]
             THEN FALSE  \* the real call blocks the thread until data comes
             ELSE IF wpc[w] = "start" /\ (~HasCtx(fd) \/ userNb[fd])
             THEN /\ Return(t, w, "again")
                  /\ UNCHANGED ready
             ELSE /\ wpc' = [wpc EXCEPT ![w] =
                                IF w \in WithTimeout THEN "arm" ELSE "add"]
                  /\ UNCHANGED <<ready, result, cur, active, tpc>>
    /\ UNCHANGED <<queue, stopFlag, mpc, ioVars, kern, edge, supply, closed,
                   cancelled, addFailed, srv>>

\* hook.cpp 127-136: addConditionTimer(to, ...) guarded by winfo
Arm(t) ==
    /\ tpc[t] = "run" /\ FiberOn(t)
    /\ LET w == cur[t].w
       IN /\ wpc[w] = "arm"
          /\ tstate' = [tstate EXCEPT ![w] = "armed"]
          /\ wpc' = [wpc EXCEPT ![w] = "add"]
    /\ UNCHANGED <<schedVars, ioVars, kernVars, cancelled, result, addFailed, srv>>

\* connect_with_timeout after the wait, or after a failed addEvent:
\* getsockopt(SO_ERROR) fails on a closed fd and otherwise reports no error,
\* whether or not the connection has completed
SockError(fd) == IF closed[fd] = "closed" THEN "error" ELSE "ok"

\* connect_with_timeout: EBADF without an FdCtx; otherwise connect_f on the
\* non-blocking socket: connected at once, or EINPROGRESS, which is returned
\* to a user who set O_NONBLOCK and otherwise waited for; on a file made
\* blocking (ioctl FIONBIO 0) connect_f itself waits, and returns connected
Connect(t) ==
    /\ tpc[t] = "run" /\ FiberOn(t)
    /\ LET w == cur[t].w
       IN /\ Kind[w] = "connect" /\ wpc[w] = "start"
          /\ \/ /\ ~HasCtx(WFd[w])
                /\ Finish(t, w, "error")
                /\ UNCHANGED tstate
             \/ /\ HasCtx(WFd[w])
                /\ Finish(t, w, "ok")
                /\ UNCHANGED tstate
             \/ /\ HasCtx(WFd[w]) /\ userNb[WFd[w]]
                /\ Finish(t, w, "again")
                /\ UNCHANGED tstate
             \/ /\ HasCtx(WFd[w]) /\ ~userNb[WFd[w]] /\ kernNb[WFd[w]]
                /\ wpc' = [wpc EXCEPT ![w] =
                                IF w \in WithTimeout THEN "arm" ELSE "add"]
                /\ UNCHANGED <<tstate, result, cur, active, tpc>>
    /\ UNCHANGED <<queue, stopFlag, mpc, ioVars, kernVars, cancelled,
                   addFailed, srv>>

\* connect_with_timeout after YieldToHold: timer->cancel(), ETIMEDOUT if the
\* timer fired, otherwise the SO_ERROR check
ConnectResume(t) ==
    /\ tpc[t] = "run" /\ FiberOn(t)
    /\ LET w == cur[t].w
       IN /\ Kind[w] = "connect" /\ wpc[w] = "hold"
          /\ tstate' = [tstate EXCEPT ![w] = "none"]
          /\ Finish(t, w, IF TimedOut(w) THEN "timeout"
                          ELSE SockError(WFd[w]))
    /\ UNCHANGED <<queue, stopFlag, mpc, ioVars, kernVars, cancelled,
                   addFailed, srv>>

\* sleep/usleep: addTimer(ms, schedule(fiber)), then YieldToHold
Sleep(t) ==
    /\ tpc[t] = "run" /\ FiberOn(t)
    /\ LET w == cur[t].w
       IN /\ Kind[w] = "sleep" /\ wpc[w] = "start"
          /\ tstate' = [tstate EXCEPT ![w] = "armed"]
          /\ wpc' = [wpc EXCEPT ![w] = "hold"]
    /\ cur' = [cur EXCEPT ![t] = NoItem]
    /\ active' = active - 1
    /\ tpc' = [tpc EXCEPT ![t] = "sched"]
    /\ UNCHANGED <<queue, stopFlag, mpc, ioVars, kernVars, cancelled, result,
                   addFailed, srv>>

\* the sleeping fiber resumes and returns 0
SleepResume(t) ==
    /\ tpc[t] = "run" /\ FiberOn(t)
    /\ LET w == cur[t].w
       IN /\ Kind[w] = "sleep" /\ wpc[w] = "hold"
          /\ Finish(t, w, "ok")
    /\ UNCHANGED <<queue, stopFlag, mpc, ioVars, kernVars, tstate, cancelled,
                   addFailed, srv>>

\* IOManager::addEvent, then in do_io YieldToHold or, on failure, cancel
\* the timer and return -1 (connect_with_timeout goes on to SO_ERROR).  A direction already registered is not
\* rejected: the check is an assertion, compiled out in release builds.
AddEvent(t) ==
    /\ tpc[t] = "run" /\ FiberOn(t)
    /\ LET w == cur[t].w
           fd == WFd[w]
           d == WDir[w]
           mask == ev[fd] \cup {d}
           ok == /\ closed[fd] # "closed"
                 /\ IF ev[fd] = {} THEN kern[fd] = {} ELSE kern[fd] # {}
       IN /\ wpc[w] = "add"
          /\ IF ok
             THEN /\ kern' = [kern EXCEPT ![fd] = mask]
                  /\ edge' = [edge EXCEPT ![fd] = EdgeOn(fd, mask)]
                  /\ appending' = appending + 1
                  /\ ev' = [ev EXCEPT ![fd] = mask]
                  /\ waiter' = [waiter EXCEPT ![fd][d] = w]
                  /\ wpc' = [wpc EXCEPT ![w] = "hold"]
                  /\ cur' = [cur EXCEPT ![t] = NoItem]
                  /\ active' = active - 1
                  /\ tpc' = [tpc EXCEPT ![t] = "sched"]
                  /\ UNCHANGED <<tstate, result, addFailed>>
             ELSE /\ addFailed' = TRUE
                  /\ tstate' = [tstate EXCEPT ![w] = "none"]
                  /\ Return(t, w, IF Kind[w] = "connect"
                                  THEN SockError(fd) ELSE "error")
                  /\ UNCHANGED <<kern, edge, appending, ev, waiter>>
    /\ UNCHANGED <<queue, stopFlag, mpc, batch, ready, supply, closed,
                   cancelled, srv>>

\* mutant: the callback decrements m_appendingEventCount even when
\* cancelEvent found nothing registered
RunTimerAlwaysDec(t) ==
    /\ tpc[t] = "run" /\ cur[t].kind = "timer"
    /\ Kind[cur[t].w] # "sleep"
    /\ LET w == cur[t].w
           fd == WFd[w]
           d == WDir[w]
           fire == wpc[w] # "done" /\ ~cancelled[w]
           hit == /\ fire /\ d \in ev[fd]
                  /\ closed[fd] # "closed" /\ kern[fd] # {}
       IN /\ cancelled' = [cancelled EXCEPT ![w] = @ \/ fire]
          /\ appending' = IF fire THEN appending - 1 ELSE appending
          /\ IF hit
             THEN /\ kern' = [kern EXCEPT ![fd] = ev[fd] \ {d}]
                  /\ edge' = [edge EXCEPT ![fd] = EdgeOn(fd, ev[fd] \ {d})]
                  /\ ev' = [ev EXCEPT ![fd] = @ \ {d}]
                  /\ waiter' = ClearWaiters(fd, {d})
                  /\ ScheduleAll(Triggered(fd, {d}))
             ELSE UNCHANGED <<kern, edge, ev, waiter, queue>>
    /\ cur' = [cur EXCEPT ![t] = NoItem]
    /\ active' = active - 1
    /\ tpc' = [tpc EXCEPT ![t] = "sched"]
    /\ UNCHANGED <<stopFlag, mpc, batch, ready, supply, closed, wpc, tstate,
                   result, addFailed, srv>>

\* the timeout callback of do_io (hook.cpp 128-135) behind onTimer: if
\* timer_info is alive and not cancelled, mark ETIMEDOUT and
\* cancelEvent(fd, event), which wakes the waiter if it is registered
RunTimer(t) ==
    /\ tpc[t] = "run" /\ cur[t].kind = "timer"
    /\ Kind[cur[t].w] # "sleep"
    /\ LET w == cur[t].w
           fd == WFd[w]
           d == WDir[w]
           fire == wpc[w] # "done" /\ ~cancelled[w]
           hit == /\ fire /\ d \in ev[fd]
                  /\ closed[fd] # "closed" /\ kern[fd] # {}
       IN /\ cancelled' = [cancelled EXCEPT ![w] = @ \/ fire]
          /\ IF hit
             THEN /\ kern' = [kern EXCEPT ![fd] = ev[fd] \ {d}]
                  /\ edge' = [edge EXCEPT ![fd] = EdgeOn(fd, ev[fd] \ {d})]
                  /\ ev' = [ev EXCEPT ![fd] = @ \ {d}]
                  /\ waiter' = ClearWaiters(fd, {d})
                  /\ appending' = appending - 1
                  /\ ScheduleAll(Triggered(fd, {d}))
             ELSE UNCHANGED <<kern, edge, ev, waiter, appending, queue>>
    /\ cur' = [cur EXCEPT ![t] = NoItem]
    /\ active' = active - 1
    /\ tpc' = [tpc EXCEPT ![t] = "sched"]
    /\ UNCHANGED <<stopFlag, mpc, batch, ready, supply, closed, wpc, tstate,
                   result, addFailed, srv>>

\* the callback sleep() registers: IOManager::schedule(fiber, -1)
RunSleepTimer(t) ==
    /\ tpc[t] = "run" /\ cur[t].kind = "timer"
    /\ Kind[cur[t].w] = "sleep"
    /\ ScheduleAll(<<[kind |-> "fiber", w |-> cur[t].w]>>)
    /\ cur' = [cur EXCEPT ![t] = NoItem]
    /\ active' = active - 1
    /\ tpc' = [tpc EXCEPT ![t] = "sched"]
    /\ UNCHANGED <<stopFlag, mpc, ioVars, kernVars, ioWVars>>

-----------------------------------------------------------------------------
(* A worker thread: Scheduler::run and IOManager::idel *)

\* Scheduler::run: take the queue head and run it; with nothing to run,
\* swap in the idle fiber
Scan(t) ==
    /\ tpc[t] = "sched"
    /\ IF queue # <<>>
       THEN /\ cur' = [cur EXCEPT ![t] = Head(queue)]
            /\ queue' = Tail(queue)
            /\ active' = active + 1
            /\ tpc' = [tpc EXCEPT ![t] = "run"]
       ELSE /\ tpc' = [tpc EXCEPT ![t] = "check"]
            /\ UNCHANGED <<cur, queue, active>>
    /\ UNCHANGED <<stopFlag, mpc, ioVars, kernVars, ioWVars>>

\* the top of the idle loop: stopping(next_timeout) ends the idle fiber, and
\* run() leaves its loop when the idle fiber is TERM
Check(t) ==
    /\ tpc[t] = "check"
    /\ tpc' = [tpc EXCEPT ![t] = IF Stopping THEN "exit" ELSE "wait"]
    /\ UNCHANGED <<queue, cur, active, stopFlag, mpc, ioVars, kernVars,
                   ioWVars>>

\* epoll_wait: collect the pending notifications with the current
\* readiness within the interest mask, or return on the timeout
Wait(t) ==
    /\ tpc[t] = "wait"
    /\ batch' = [batch EXCEPT ![t] =
                   [fd \in Fds |-> IF edge[fd] THEN ready[fd] \cap kern[fd]
                                               ELSE {}]]
    /\ edge' = [fd \in Fds |-> FALSE]
    /\ tpc' = [tpc EXCEPT ![t] = "expire"]
    /\ UNCHANGED <<queue, cur, active, stopFlag, mpc, ev, waiter, appending,
                   kern, ready, supply, closed, ioWVars>>

\* listExpiredCb, then schedule(cbs.begin(), cbs.end())
Expire(t) ==
    /\ tpc[t] = "expire"
    /\ LET due == {w \in Waiters : tstate[w] = "due"}
       IN /\ tstate' = [w \in Waiters |-> IF w \in due THEN "none"
                                                      ELSE tstate[w]]
          /\ ScheduleAll(SetToSeq({[kind |-> "timer", w |-> w] : w \in due}))
    /\ tpc' = [tpc EXCEPT ![t] = "process"]
    /\ UNCHANGED <<cur, active, stopFlag, mpc, ioVars, kernVars, wpc,
                   cancelled, result, addFailed, srv>>

\* mutant: idel triggers without decrementing the count
ProcessNoDec(t, fd) ==
    /\ tpc[t] = "process"
    /\ batch[t][fd] # {}
    /\ LET real == batch[t][fd]
           left == ev[fd] \ real
           go == ev[fd] \cap real # {} /\ kern[fd] # {}
       IN IF go
          THEN /\ kern' = [kern EXCEPT ![fd] = left]
               /\ edge' = [edge EXCEPT ![fd] = EdgeOn(fd, left)]
               /\ ScheduleAll(Triggered(fd, ev[fd]))
               /\ waiter' = ClearWaiters(fd, ev[fd])
               /\ appending' = appending
               /\ ev' = [ev EXCEPT ![fd] = {}]
          ELSE UNCHANGED <<kern, edge, queue, waiter, appending, ev>>
    /\ batch' = [batch EXCEPT ![t][fd] = {}]
    /\ UNCHANGED <<tpc, cur, active, stopFlag, mpc, ready, supply, closed,
                   ioWVars>>

\* mutant: triggerEvent schedules the fiber but leaves ctx.fiber set
ProcessKeepSlot(t, fd) ==
    /\ tpc[t] = "process"
    /\ batch[t][fd] # {}
    /\ LET real == batch[t][fd]
           left == ev[fd] \ real
           go == ev[fd] \cap real # {} /\ kern[fd] # {}
       IN IF go
          THEN /\ kern' = [kern EXCEPT ![fd] = left]
               /\ edge' = [edge EXCEPT ![fd] = EdgeOn(fd, left)]
               /\ ScheduleAll(Triggered(fd, ev[fd]))
               /\ waiter' = waiter
               /\ appending' = appending - Cardinality(ev[fd])
               /\ ev' = [ev EXCEPT ![fd] = {}]
          ELSE UNCHANGED <<kern, edge, queue, waiter, appending, ev>>
    /\ batch' = [batch EXCEPT ![t][fd] = {}]
    /\ UNCHANGED <<tpc, cur, active, stopFlag, mpc, ready, supply, closed,
                   ioWVars>>

\* mutant: triggerEvent clears the event but never schedules the fiber
ProcessNoSchedule(t, fd) ==
    /\ tpc[t] = "process"
    /\ batch[t][fd] # {}
    /\ LET real == batch[t][fd]
           left == ev[fd] \ real
           go == ev[fd] \cap real # {} /\ kern[fd] # {}
       IN IF go
          THEN /\ kern' = [kern EXCEPT ![fd] = left]
               /\ edge' = [edge EXCEPT ![fd] = EdgeOn(fd, left)]
               /\ UNCHANGED queue
               /\ waiter' = ClearWaiters(fd, ev[fd])
               /\ appending' = appending - Cardinality(ev[fd])
               /\ ev' = [ev EXCEPT ![fd] = {}]
          ELSE UNCHANGED <<kern, edge, queue, waiter, appending, ev>>
    /\ batch' = [batch EXCEPT ![t][fd] = {}]
    /\ UNCHANGED <<tpc, cur, active, stopFlag, mpc, ready, supply, closed,
                   ioWVars>>

\* one reported fd under its FdContext mutex (iomanager.cpp 354-391): skip
\* it if none of the reported directions is registered; otherwise re-arm
\* epoll with the directions left, then trigger every registered direction
\* (the code tests fd_ctx->events, not real_events)
Process(t, fd) ==
    /\ tpc[t] = "process"
    /\ batch[t][fd] # {}
    /\ LET real == batch[t][fd]
           left == ev[fd] \ real
           go == ev[fd] \cap real # {} /\ kern[fd] # {}
       IN IF go
          THEN /\ kern' = [kern EXCEPT ![fd] = left]
               /\ edge' = [edge EXCEPT ![fd] = EdgeOn(fd, left)]
               /\ ScheduleAll(Triggered(fd, ev[fd]))
               /\ waiter' = ClearWaiters(fd, ev[fd])
               /\ appending' = appending - Cardinality(ev[fd])
               /\ ev' = [ev EXCEPT ![fd] = {}]
          ELSE UNCHANGED <<kern, edge, queue, waiter, appending, ev>>
    /\ batch' = [batch EXCEPT ![t][fd] = {}]
    /\ UNCHANGED <<tpc, cur, active, stopFlag, mpc, ready, supply, closed,
                   ioWVars>>

\* the end of the pass: the idle fiber swaps out to run()
IdleOut(t) ==
    /\ tpc[t] = "process"
    /\ batch[t] = NoBatch
    /\ tpc' = [tpc EXCEPT ![t] = "sched"]
    /\ UNCHANGED <<queue, cur, active, stopFlag, mpc, ioVars, kernVars,
                   ioWVars>>

-----------------------------------------------------------------------------
(* close(fd) from another fiber, the main thread, the peer and the clock *)

\* mutant: cancelAll triggers without decrementing the count
CloseCancelNoDec(fd) ==
    /\ fd \in Closable /\ closed[fd] = "open"
    /\ closed' = [closed EXCEPT ![fd] = "cancelled"]
    /\ IF ev[fd] # {} /\ kern[fd] # {}
       THEN /\ kern' = [kern EXCEPT ![fd] = {}]
            /\ ScheduleAll(Triggered(fd, ev[fd]))
            /\ waiter' = ClearWaiters(fd, ev[fd])
            /\ appending' = appending
            /\ ev' = [ev EXCEPT ![fd] = {}]
       ELSE UNCHANGED <<kern, queue, waiter, appending, ev>>
    /\ UNCHANGED <<tpc, cur, active, stopFlag, mpc, batch, ready, edge,
                   supply, ioWVars>>

\* mutant: cancelAll decrements for both directions whatever is registered
CloseCancelBothDec(fd) ==
    /\ fd \in Closable /\ closed[fd] = "open"
    /\ closed' = [closed EXCEPT ![fd] = "cancelled"]
    /\ IF ev[fd] # {} /\ kern[fd] # {}
       THEN /\ kern' = [kern EXCEPT ![fd] = {}]
            /\ ScheduleAll(Triggered(fd, ev[fd]))
            /\ waiter' = ClearWaiters(fd, ev[fd])
            /\ appending' = appending - 2
            /\ ev' = [ev EXCEPT ![fd] = {}]
       ELSE UNCHANGED <<kern, queue, waiter, appending, ev>>
    /\ UNCHANGED <<tpc, cur, active, stopFlag, mpc, batch, ready, edge,
                   supply, ioWVars>>

\* mutant: cancelAll schedules the fibers but leaves ctx.fiber set
CloseCancelKeepSlot(fd) ==
    /\ fd \in Closable /\ closed[fd] = "open"
    /\ closed' = [closed EXCEPT ![fd] = "cancelled"]
    /\ IF ev[fd] # {} /\ kern[fd] # {}
       THEN /\ kern' = [kern EXCEPT ![fd] = {}]
            /\ ScheduleAll(Triggered(fd, ev[fd]))
            /\ waiter' = waiter
            /\ appending' = appending - Cardinality(ev[fd])
            /\ ev' = [ev EXCEPT ![fd] = {}]
       ELSE UNCHANGED <<kern, queue, waiter, appending, ev>>
    /\ UNCHANGED <<tpc, cur, active, stopFlag, mpc, batch, ready, edge,
                   supply, ioWVars>>

\* IOManager::cancelAll(fd): if events are registered, EPOLL_CTL_DEL and
\* trigger every registered direction, one decrement each
CancelAll(fd) ==
    IF ev[fd] # {} /\ kern[fd] # {}
    THEN /\ kern' = [kern EXCEPT ![fd] = {}]
         /\ ScheduleAll(Triggered(fd, ev[fd]))
         /\ waiter' = ClearWaiters(fd, ev[fd])
         /\ appending' = appending - Cardinality(ev[fd])
         /\ ev' = [ev EXCEPT ![fd] = {}]
    ELSE UNCHANGED <<kern, queue, waiter, appending, ev>>

\* the close hook: FdMgr::get(fd) finds the FdCtx, so
\* IOManager::cancelAll(fd) wakes every registered waiter ...
CloseCancel(fd) ==
    /\ fd \in Closable /\ closed[fd] = "open"
    /\ closed' = [closed EXCEPT ![fd] = "cancelled"]
    /\ CancelAll(fd)
    /\ UNCHANGED <<tpc, cur, active, stopFlag, mpc, batch, ready, edge,
                   supply, ioWVars>>

\* ... then FdMgr::del(fd) resets the fd's FdCtx slot ...
FdDel(fd) ==
    /\ closed[fd] = "cancelled"
    /\ closed' = [closed EXCEPT ![fd] = "deleted"]

\* ... and close_f, which removes the fd from epoll
CloseF(fd) ==
    /\ closed[fd] = "deleted"
    /\ closed' = [closed EXCEPT ![fd] = "closed"]
    /\ kern' = [kern EXCEPT ![fd] = {}]
    /\ ready' = [ready EXCEPT ![fd] = {}]
    /\ edge' = [edge EXCEPT ![fd] = FALSE]

CloseDel(fd) ==
    /\ fd \in Closable /\ FdDel(fd)
    /\ UNCHANGED <<schedVars, ioVars, kern, ready, edge, supply, ioWVars,
                   fdVars>>

CloseReal(fd) ==
    /\ fd \in Closable /\ CloseF(fd)
    /\ UNCHANGED <<schedVars, ioVars, supply, ioWVars, fdVars>>

-----------------------------------------------------------------------------
(* fcntl(F_SETFL) and ioctl(FIONBIO) from a user fiber on another thread.   *)
(* Sockets made by the socket and accept hooks get an FdCtx whose init()    *)
(* sets O_NONBLOCK on the file and m_sysNoblock; m_userNoblock starts false.*)

\* fcntl F_SETFL: with an FdCtx, record the user's O_NONBLOCK and pass the
\* flags on with O_NONBLOCK forced to m_sysNoblock (true for a socket);
\* without one, pass the flags on as given (EBADF once close_f has run)
SetFl(fd, nb) ==
    /\ fd \in FlagFds
    /\ IF HasCtx(fd)
       THEN /\ userNb' = [userNb EXCEPT ![fd] = nb]
            /\ kernNb' = [kernNb EXCEPT ![fd] = TRUE]
       ELSE /\ kernNb' = [kernNb EXCEPT ![fd] =
                            IF closed[fd] = "closed" THEN @ ELSE nb]
            /\ UNCHANGED userNb

\* ioctl FIONBIO: with an FdCtx, record the user's choice; in every case
\* pass the request on to ioctl_f unchanged
Ioctl(fd, nb) ==
    /\ fd \in FlagFds
    /\ userNb' = [userNb EXCEPT ![fd] = IF HasCtx(fd) THEN nb ELSE @]
    /\ kernNb' = [kernNb EXCEPT ![fd] = IF closed[fd] = "closed" THEN @ ELSE nb]

FlagCall ==
    /\ \E fd \in Fds, nb \in BOOLEAN :
          \/ SetFl(fd, nb)
          \/ nb \in IoctlArgs /\ Ioctl(fd, nb)
    /\ UNCHANGED <<schedVars, ioVars, kernVars, ioWVars>>

-----------------------------------------------------------------------------
(* TcpServer: startAccept's loop is an "accept" waiter; stop() and its    *)
(* callback close the listening socket                                    *)

\* the top of startAccept's loop: while(!m_isStop) accept, else return
AcceptLoop(t) ==
    /\ tpc[t] = "run" /\ FiberOn(t)
    /\ LET w == cur[t].w
       IN /\ Kind[w] = "accept" /\ wpc[w] = "loop"
          /\ IF srv = "running"
             THEN /\ wpc' = [wpc EXCEPT ![w] = "start"]
                  /\ UNCHANGED <<result, cur, active, tpc>>
             ELSE Finish(t, w, "ok")
    /\ UNCHANGED <<queue, stopFlag, mpc, ioVars, kernVars, tstate, cancelled,
                   addFailed, srv>>

StopCb == [kind |-> "stopcb", w |-> NoWaiter]

\* TcpServer::stop: m_isStop = true, then schedule the close callback on
\* m_acceptWorker (this IOManager)
ServerStop ==
    /\ ListenFd \in Fds /\ srv = "running"
    /\ srv' = "stopped"
    /\ ScheduleAll(<<StopCb>>)
    /\ UNCHANGED <<tpc, cur, active, stopFlag, mpc, ioVars, kernVars,
                   wpc, tstate, cancelled, result, addFailed>>

\* the callback on thread t, one step per call: Socket::cancelAll, then
\* Socket::close, i.e. the close hook (cancelAll, FdMgr::del, close_f),
\* then m_socks.clear() and the callback returns
StopCallback(t) ==
    /\ tpc[t] = "run" /\ cur[t] = StopCb
    /\ \/ /\ srv = "stopped"
          /\ srv' = "cancelled"
          /\ CancelAll(ListenFd)
          /\ UNCHANGED <<closed, ready, edge, tpc, cur, active>>
       \/ /\ srv = "cancelled" /\ closed[ListenFd] = "open"
          /\ closed' = [closed EXCEPT ![ListenFd] = "cancelled"]
          /\ CancelAll(ListenFd)
          /\ UNCHANGED <<srv, ready, edge, tpc, cur, active>>
       \/ /\ srv = "cancelled" /\ FdDel(ListenFd)
          /\ UNCHANGED <<srv, queue, ioVars, kern, ready, edge, tpc, cur,
                         active>>
       \/ /\ srv = "cancelled" /\ CloseF(ListenFd)
          /\ srv' = "cleared"
          /\ cur' = [cur EXCEPT ![t] = NoItem]
          /\ active' = active - 1
          /\ tpc' = [tpc EXCEPT ![t] = "sched"]
          /\ UNCHANGED <<queue, ioVars>>
    /\ UNCHANGED <<stopFlag, mpc, batch, supply, wpc, tstate, cancelled,
                   result, addFailed>>

\* Scheduler::stop: m_autoStop and m_stopping
Stop ==
    /\ ~stopFlag
    /\ stopFlag' = TRUE
    /\ UNCHANGED <<queue, tpc, cur, active, mpc, ioVars, kernVars, ioWVars,
                   fdVars>>

\* the join loop of Scheduler::stop
Join ==
    /\ mpc = "running"
    /\ \A t \in Threads : tpc[t] = "exit"
    /\ mpc' = "joined"
    /\ UNCHANGED <<queue, tpc, cur, active, stopFlag, ioVars, kernVars,
                   ioWVars, fdVars>>

\* some waiter does I/O on fd in direction d; readiness of a direction no
\* one waits for never reaches epoll's interest mask, so it is left out
Watched(fd, d) == \E w \in Waiters : WFd[w] = fd /\ WDir[w] = d

\* the peer makes the fd readable or writable
MakeReady(fd, d) ==
    /\ Watched(fd, d) /\ closed[fd] # "closed"
    /\ supply[fd][d] > 0 /\ d \notin ready[fd]
    /\ supply' = [supply EXCEPT ![fd][d] = @ - 1]
    /\ ready' = [ready EXCEPT ![fd] = @ \cup {d}]
    /\ edge' = [edge EXCEPT ![fd] = @ \/ d \in kern[fd]]
    /\ UNCHANGED <<schedVars, ioVars, kern, closed, ioWVars, fdVars>>

\* an armed timer's deadline passes
Elapse(w) ==
    /\ tstate[w] = "armed"
    /\ tstate' = [tstate EXCEPT ![w] = "due"]
    /\ UNCHANGED <<schedVars, ioVars, kernVars, wpc, cancelled, result,
                   addFailed, srv, fdVars>>

-----------------------------------------------------------------------------

\* FdCtx::init of a socket made by the socket or accept hook: O_NONBLOCK
\* is set on the file (m_sysNoblock), m_userNoblock is false
SocketCtxInit ==
    /\ userNb = [fd \in Fds |-> FALSE]
    /\ kernNb = [fd \in Fds |-> TRUE]

\* every waiter's fiber is scheduled, as a client does before blocking
Init ==
    /\ queue = SetToSeq({[kind |-> "fiber", w |-> w] : w \in Waiters})
    /\ tpc = [t \in Threads |-> "sched"]
    /\ cur = [t \in Threads |-> NoItem]
    /\ active = 0 /\ stopFlag = FALSE /\ mpc = "running"
    /\ ev = [fd \in Fds |-> {}]
    /\ waiter = [fd \in Fds |-> [d \in Dirs |-> NoWaiter]]
    /\ appending = 0
    /\ batch = [t \in Threads |-> NoBatch]
    /\ kern = [fd \in Fds |-> {}] /\ ready = [fd \in Fds |-> {}]
    /\ edge = [fd \in Fds |-> FALSE]
    /\ supply = [fd \in Fds |-> [d \in Dirs |-> Supply]]
    /\ closed = [fd \in Fds |-> "open"]
    /\ wpc = [w \in Waiters |-> IF Kind[w] = "accept" THEN "loop" ELSE "start"]
    /\ tstate = [w \in Waiters |-> "none"]
    /\ cancelled = [w \in Waiters |-> FALSE]
    /\ result = [w \in Waiters |-> "none"]
    /\ addFailed = FALSE
    /\ srv = "running"
    /\ SocketCtxInit

\* the flags are left alone by every step but FlagCall
Worker(t) ==
    /\ UNCHANGED fdVars
    /\ \/ Scan(t) \/ DoRead(t) \/ Arm(t) \/ AddEvent(t) \/ RunTimer(t)
       \/ Connect(t) \/ ConnectResume(t) \/ Sleep(t) \/ SleepResume(t)
       \/ RunSleepTimer(t) \/ AcceptLoop(t) \/ StopCallback(t)
       \/ Check(t) \/ Wait(t) \/ Expire(t) \/ IdleOut(t)
       \/ \E fd \in Fds : Process(t, fd)

Env ==
    \/ /\ UNCHANGED fdVars
       /\ \/ \E fd \in Fds : CloseCancel(fd) \/ CloseDel(fd) \/ CloseReal(fd)
          \/ ServerStop
          \/ \E fd \in Fds, d \in Dirs : MakeReady(fd, d)
          \/ \E w \in Waiters : Elapse(w)
    \/ FlagCall

Next == (\E t \in Threads : Worker(t)) \/ Stop \/ Join \/ Env

\* threads are scheduled by the kernel, time passes, a started close
\* finishes, and the main thread calls stop() and joins
BaseFairness ==
    /\ \A t \in Threads : WF_vars(Worker(t))
    /\ \A w \in Waiters : WF_vars(Elapse(w))
    /\ \A fd \in Fds : WF_vars(CloseDel(fd)) /\ WF_vars(CloseReal(fd))
    /\ WF_vars(Stop) /\ WF_vars(Join)

\* the peer, too, eventually sends or drains what it still has
SpecPeer ==
    Init /\ [][Next]_vars /\ BaseFairness
    /\ \A fd \in Fds, d \in Dirs : WF_vars(MakeReady(fd, d))

\* the peer may stay silent: only the timeouts end the waits
SpecSilent == Init /\ [][Next]_vars /\ BaseFairness

-----------------------------------------------------------------------------
(* Properties *)

\* m_appendingEventCount counts exactly the registered directions: every
\* path that clears an event bit (idel, cancelEvent, cancelAll) decrements
\* it once per bit, and only those paths.  stopping() relies on it.
CountMatches ==
    appending = Cardinality({p \in Fds \X Dirs : p[2] \in ev[p[1]]})

\* a fiber that has not returned from do_io, connect or sleep is in exactly
\* one place: on a thread, in the run queue, registered in an FdContext, or
\* (a sleeper) held by its timer, queued or running callback; a fiber that
\* returned is in none.  Breaking it means a fiber resumed twice or lost.
InQueue(w) == Cardinality({i \in DOMAIN queue :
                               queue[i] = [kind |-> "fiber", w |-> w]})
OnThread(w) == Cardinality({t \in Threads :
                               cur[t] = [kind |-> "fiber", w |-> w]})
InSlot(w) == Cardinality({p \in Fds \X Dirs : waiter[p[1]][p[2]] = w})
InSleepTimer(w) ==
    IF Kind[w] # "sleep" THEN 0
    ELSE (IF tstate[w] # "none" THEN 1 ELSE 0)
         + Cardinality({i \in DOMAIN queue :
                            queue[i] = [kind |-> "timer", w |-> w]})
         + Cardinality({t \in Threads : cur[t] = [kind |-> "timer", w |-> w]})
FiberAccounted ==
    \A w \in Waiters :
        InQueue(w) + OnThread(w) + InSlot(w) + InSleepTimer(w) =
            IF wpc[w] = "done" THEN 0 ELSE 1

\* every blocked do_io eventually returns, once the peer makes the fd ready
\* or its timeout passes
AllReturn == <>(\A w \in Waiters : wpc[w] = "done")

\* stop() returns: every worker leaves its run loop and is joined
Termination == <>(mpc = "joined")

\* addEvent never fails: do_io's "add event failed" path is for errors, yet
\* a reader and a writer on one fd reach it when idel wakes both
AddEventOK == ~addFailed

\* after close() no waiter stays registered on the closed fd, as spec.md
\* says of the close hook (it cancels every wait on the fd)
NoDanglingWaiter == \A fd \in Fds : closed[fd] = "closed" => ev[fd] = {}

\* a read with a timeout returns (with ETIMEDOUT at the latest) even if the
\* peer never sends
TimedWaitReturns == \A w \in WithTimeout : <>(wpc[w] = "done")

=============================================================================
