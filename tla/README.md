# TLA+ models of the cxk fiber runtime

This directory holds TLA+ models of the concurrent core of the cxk framework
(`src/cxk`): the fiber scheduler, the timer manager, and the IOManager with
the blocking-call hooks that run on it. It also holds the TLC
configurations that check them. The rest of this README covers four things:
- the inventory of the system;
- the plan;
- what each run shows;
- what is left out.

`PROJECT.json` records the same facts in machine-readable form. It maps every
definition to the source lines it models, and it lists the runs, the mutants,
the findings and the hazards.

## 1. Inventory

### Components and how they interact

| Component | Source | State | Operations |
|---|---|---|---|
| Fiber | `fiber.{h,cpp}` | ucontext, state INIT/READY/HOLD/EXEC/TERM/EXCEPT, callback | ctor, `reset`, `swapIn`/`swapOut`, `call`/`back` (root fiber), `YieldToReady`, `YieldToHold`, `MainFunc` |
| Scheduler | `scheduler.{h,cpp}` | queue `m_fibers` of FiberAndThread under `m_mutex`, `m_activeThreadCount`, `m_idelThreadCount`, `m_stopping`, `m_autoStop`, thread list | `start`, `schedule` (single, batch), `stop`, `switchTo`, `run` (per worker), `idel`, `stopping`, `tickle` |
| TimerManager | `timer.{h,cpp}` | ordered set `m_timers` under an RW lock, `m_tickled`, `m_previousTime`; per Timer `m_next`, `m_ms`, `m_recurring`, `m_cb` | `addTimer`, `addConditionTimer`, `cancel`, `refresh`, `reset`, `getNextTimer`, `listExpiredCb`, `detectClockRollover` |
| IOManager | `iomanager.{h,cpp}` | epoll fd, tickle pipe, `m_fdContexts` (per fd: events, READ/WRITE waiters), `m_appendingEventCount` | `addEvent`, `delEvent`, `cancelEvent`, `cancelAll`, `tickle`, `idel`, `stopping`, `onTimerInsertedAtFront` |
| Hook layer | `hook.cpp` | thread-local hook flag, `timer_info.cancelled` | `do_io` (read/write family), `connect_with_timeout`, `sleep`/`usleep`/`nanosleep`, `close`, `fcntl`, `ioctl`, `setsockopt` |
| FdManager | `fd_manager.{h,cpp}` | vector of FdCtx under an RW lock | `get(fd, auto_create)`, `del`, `FdCtx::init` |
| TcpServer | `tcp_server.{h,cpp}` | `m_isStop`, listening sockets `m_socks` | `start`, `stop`, `startAccept` (the accept loop) |
| Utilities | `util.cpp` | none | `GetCurrentMS` (gettimeofday: a wall clock) |

The components fit together as follows:
- IOManager is a Scheduler and a TimerManager at once.
- Its idle fiber is where both meet. It waits in `epoll_wait` with a timeout taken from `getNextTimer`.
- When it wakes, it schedules the callbacks that `listExpiredCb` returns, and resumes the waiters of ready fds.
- The hook layer turns a blocking call into a sequence of steps:
  1. `addEvent`, plus an optional condition timer;
  2. `YieldToHold`;
  3. when the timer expires, it calls `cancelEvent`, which reschedules the waiter.
- `Timer::cancel` and `Scheduler::schedule` are called from many threads at once, as are the scans of the idle loops.

The other parts (logger, config, HTTP and WebSocket, rock, streams, sockets,
database wrappers, daemon and application start-up) sit on top of this core.
They are listed in `PROJECT.json` as not modelled, each with the reason.
TcpServer is the exception: its accept loop and `stop()` are built directly
on the hooks and the IOManager, so the IOManager model includes them.

### What is hard

The core interleaves worker threads over shared queues and counters. A fiber
also leaves one thread and resumes on another: it publishes its new state
before it has actually yielded. Timers race against cancellation. Wakeups are
best-effort. These orderings are what a unit test almost never produces, and
they are what the runs explore. `PROJECT.json` lists each hazard at its line,
with the properties that cover it or a note saying why none does yet.

### Correctness properties per component

**Scheduler:**
- No fiber is on two threads' stacks at once.
- Every scheduled unit runs, and runs once.
- Affinity is honoured.
- `stop()` returns, and only after the queue is drained.

**TimerManager:**
- A timer holds a callback exactly when it is in the set.
- A cancelled timer never fires again.
- The expiry scan never reads an empty set.
- A timer that is due is eventually taken out, whatever the clock does.

**IOManager:**
- A waiting fiber is in exactly one place: on a thread, in the queue, or registered in an FdContext. It is never lost and never woken twice.
- `m_appendingEventCount` equals the number of registered events.
- Every blocked call returns once its fd becomes ready, and `stop()` returns.

**Hook:**
- `addEvent` does not fail for a fiber that waits correctly.
- After `close(fd)`, no fiber is left waiting on `fd`.
- A blocking call with a timeout returns even if the peer stays silent.

## 2. Plan

The modules are built in this order; the most important behaviour comes first.

1. **Scheduler** (done): the worker run loop, with Fiber's state machine inlined.
2. **Timer** (done): TimerManager with concurrent expiry scans and a wall clock.
3. **IOManager with do_io and close** (done): worker threads running the scheduler loop and the idle loop, FdContext waiters, an edge-triggered epoll, condition timers, and the close hook.
4. **Hook, rest** (done): `connect_with_timeout` and `sleep` on top of IOManager.
5. **TaskPool** (done): the abstract pool the scheduler promises. Scheduler refines it (`PoolRefined`).
6. **use_caller** (done): the caller thread as a worker that joins in only inside `stop()`, through the root fiber.
7. **FdCtx presence and TcpServer** (done): the close hook's three steps (`cancelAll`, `FdMgr::del`, `close_f`), the FdCtx lookup at the entry of `do_io` and `connect_with_timeout`, and TcpServer's accept loop and `stop()`, all inside the IOManager model.
8. **TimerQueue** (done): the abstract timer service. Timer refines it (`TimerRefined`).
9. **FdCtx non-blocking flags** (done): `FdCtx::init` for sockets, the `fcntl(F_SETFL)` and `ioctl(FIONBIO)` hooks, and the user-non-blocking shortcut of `do_io` and `connect_with_timeout`, inside the IOManager model.
10. Next, if the number of runs allowed grows: a violation run for `ioctl(FIONBIO, 0)` (see Findings), and TcpServer restarted before its stop callback ran.

   The LRU cache stays out (see "Not modelled").

## 3. Modules

### Scheduler.tla

It models `Scheduler::start`, `schedule`, `stop` and `switchTo`, and the whole
of `Scheduler::run` for each worker thread. Fiber's `swapIn`, `swapOut`,
`YieldToReady`, `YieldToHold` and `MainFunc` are inlined where `run` calls them.

**State:**
- `queue` is `m_fibers`.
- `active` is `m_activeThreadCount`.
- `stopping` and `autoStop` are the two flags.
- `pc[t]` is the position of worker `t` in `run`.
- `ft[t]` is the item a worker has taken.
- `cur[t]` is the fiber running on `t`'s stack.
- `cbFiber[t]` is the per-thread `cb_fiber`.
- `fstate`, `fcb` and `budget` are each fiber's state, the callback it runs, and the yields it has left.
- `done` counts how often each unit of work finished. It is a ghost variable.

**Actions:**
- `Scan` is the locked scan, including the affinity and EXEC skips.
- `RunFiber` and `RunCallback` are the two swap-in paths. `RunCallback` reuses `cb_fiber` or creates a fiber.
- `DropDead` drops an item whose fiber is already TERM or EXCEPT.
- `Finish`, `YieldToReady` and `SwitchTo` are what a running fiber may do.
- `SwapOut`, then `AfterRun`, which decrements `active`.
- `PostFiber` and `PostCallback` are the two post-run state handlers.
- `Idle` is the idle fiber, which checks `stopping()`.

A fiber publishes its state and is swapped out in two separate steps. That gap
is exactly where the switchTo race lives.

**use_caller:** the constant `Root` is `m_rootThread`: the caller thread when
the scheduler is built with use_caller, otherwise `AnyThread` (-1).
- `Start` spawns only `Spawned`, the threads other than `Root`. `Root` stays `off`.
- `Stop` sets the flags. With use_caller the main thread then moves to `calling`.
- `CallRoot` is `m_rootFiber->call()`: unless `stopping()` already holds, `Root` starts running `Scheduler::run`.
- `RootBack` is `CallerMainFunc` returning through `back()` once `Root`'s idle fiber has seen `stopping()`. `stop()` then goes on to join.
- `Join` waits only for the spawned threads.

`sched_switch` runs with `Root = t1`, and work may be pinned to `t1`. Such
work can run only once the caller has joined in inside `stop()`, so
`AllRun` and `Termination` there say that the root fiber does drain it. The
other Scheduler runs use `Root = AnyThread`.

**Bounds:**
- 2 workers, 2 units of work, 4 fibers (enough for one fiber per unit plus one cb_fiber per worker).
- `MaxYields = 1` per unit.
- In `sched_any`, work is free or pinned to `t1`. Pinning to `t2` is the same case with the threads renamed.

Two threads and two units are enough for every pair-wise interleaving the
properties talk about: two workers taking the same item, a re-queue racing a
scan, an idle thread deciding to stop while another works.

**Fairness:**
- Weak fairness per worker thread: a runnable OS thread is eventually scheduled by the kernel.
- Weak fairness on the main thread's `Start`, `Stop` and `Join`.

Nothing stronger is assumed. Deadlock checking is off because the program
legitimately ends: all workers exit and `stop()` returns. A hang is caught
instead by the liveness property `Termination`.

### TaskPool.tla, and Scheduler's refinement of it

`TaskPool` states what the scheduler promises, with no fibers or queues in
it. Each unit goes `new`, `queued`, `running` on one thread, possibly back to
`queued` (a yield), and `done`. A thread runs one unit at a time. `Close` is
`stop()`. `Join` happens only when every submitted unit is done.

`Scheduler.tla` maps its state onto the pool:
- a unit is `running` on `t` while `t` executes an EXEC fiber whose body is the unit;
- it is `done` once its body has finished;
- it is `queued` in between: in `m_fibers`, in a worker's `ft`, or yielded and not yet re-queued;
- the main thread's `init`/`running` is `open`, `stopping` is `closed`.

`PoolRefined == Pool!Spec` is checked as a PROPERTY in `sched_any`. It is
stronger than `ExactlyOnce`: a finished unit may never be seen running again,
even for one step, and join may come only after all work. The mapping gives
`running` priority over `done`, so a second run of a finished body shows up as
a step the pool does not allow. The mutant `RunCallbackStale`, where a reused
`cb_fiber` keeps its old callback, is caught that way.

The refinement is not checked with `switchTo`. There the stack race lets two
threads execute one fiber, which `sched_switch_race` already shows.

### Timer.tla

It models TimerManager and Timer.

**Modelling choices:**
- Every operation under the write lock is one step.
- `listExpiredCb` takes two steps. `ReadClock` reads the clock and makes the read-locked emptiness check (lines 137-145). `ListExpired` is the write-locked part (148-178).
- Callbacks taken out are counted in `pending` until `RunCallback`, which is the scheduled callback running.
- `Before` is the comparator on (deadline, address); timer ids are numbers, used as addresses.
- The clock ticks up to `MaxTime`. It may also jump back once (`JumpBack`), by a jump below or above the rollover threshold (`Rollover`, scaled down from 1 h).

**Bounds:**
- `timer_main`: 1 timer and 2 scanners. The timer may be one-shot or recurring, with a period of 0 or 2.
- Periods `{0, 2}`: 0 is what `usleep(<1000)` produces.
- Clock up to 3; up to two backward jumps, of 1 (not a rollover) and 2 (a rollover).
- At most one copy of a callback pending.
- The violation runs use 2 timers and a clock up to 2.

A second timer in `timer_main` only adds orderings of the set. The races the
properties are about are between the two scanners and the operations on one
timer (cancel, refresh, reset against a scan that has read the clock). A
second timer puts the liveness check past 1.4 million states and ten minutes.

**Fairness (`FairSpec`):**
- Weak fairness on `Tick`: the wall clock keeps moving.
- Weak fairness per scanner on `ReadClock` and `ListExpired`: an IOManager's idle fiber keeps calling `listExpiredCb`, at least every 3000 ms.
- Weak fairness on `RunCallback`: a callback handed out is scheduled and runs.

`JumpBack`, `Cancel`, `Refresh` and `Reset` get no fairness; they are the
environment. `TimerEventuallyFires` says that a timer that is in the set with
a deadline is eventually taken out, cancelled or re-deadlined. A backward jump
below the threshold delays it. A jump above fires every timer at once. Neither
keeps it forever, because the jumps are bounded and the clock keeps moving.

### TimerQueue.tla, and Timer's refinement of it

`TimerQueue` states what a TimerManager promises, with no clock, deadlines,
locks or ordered set. Each timer is `unused`, then `armed` by `addTimer`
(`Arm`). While armed it may fire, and one scan fires a set of timers at once
(`Fire`). Each firing hands out one call of the callback (`owed`), which runs
later (`RunOwed`). A one-shot timer becomes `fired` at its first firing; a
recurring one stays `armed`. `cancel()` of an armed timer makes it `cancelled`
for good (`Disarm`). When a timer fires is left to the detailed module, so
`refresh` and `reset` are stuttering steps.

`Timer.tla` maps its state onto it (`absState`):
- a timer not yet made is `unused`;
- one for which `cancel()` returned true is `cancelled`;
- one in `m_timers` is `armed`;
- any other is `fired`: `listExpiredCb` took its one-shot callback out.

`rec` is `Timer::m_recurring` and `owed` is `pending`.

`TimerRefined == Queue!Spec` is checked as a PROPERTY in `timer_main`. It
says that a scan hands out callbacks only of timers that are in `m_timers`
and not cancelled, that a one-shot timer fires once, that a recurring timer
stays in `m_timers` when it fires, and that a cancelled timer never returns
to the set. The mutant `CancelNoErase` (cancel clears `m_cb` but leaves the
timer in the set, so a later scan fires a cancelled timer) breaks it. It does
not say that a recurring callback already handed out is not run after
`cancel()`: the abstract queue allows that, and `timer_cancel_recurring`
shows that the code does it, against the spec.

### IOManager.tla and MCIOManager.tla

`IOManager.tla` composes three parts of the code:
- worker threads running `Scheduler::run` over one queue (`Scan`, `Finish`);
- the IOManager's idle loop (`Check`, `Wait`, `Expire`, `Process`, `IdleOut`) with `addEvent`, `cancelEvent` and `cancelAll`;
- fibers blocked in the hooks: `do_io` (`DoRead`, `Arm`, `AddEvent`), `connect_with_timeout` (`Connect`, `Arm`, `AddEvent`, `ConnectResume`) and `sleep`/`usleep` (`Sleep`, `RunSleepTimer`, `SleepResume`);
- the close hook in its three steps: `CloseCancel` (`cancelAll`), `CloseDel` (`FdMgr::del`) and `CloseReal` (`close_f`);
- TcpServer: `startAccept`'s loop is an `accept` waiter (`AcceptLoop`, then `do_io` as for a read, and back to the loop through `Return`). `ServerStop` is `stop()`. `StopCallback` is the callback it schedules: `Socket::cancelAll`, then `Socket::close` through the close hook.

`MCIOManager.tla` names the waiters and fds as model values. It gives each
waiter its call (`Kind`: read, connect, sleep or accept), its fd and its
direction. `ListenFd` is the server's listening socket, or a model value
outside `Fds` when there is no server.

**State:**
- `queue`, `active`, `stopFlag` and `tpc`/`cur` play the same roles as in Scheduler. An item is a waiter's fiber or its timeout callback.
- `ev` and `waiter` are each FdContext's `events` and the read/write fibers. `appending` is `m_appendingEventCount`.
- `batch[t]` is what `epoll_wait` returned to thread `t` and that its pass has not handled yet.
- `kern` is the kernel's interest mask per fd; `{}` means not registered.
- `ready` is the readiness the peer produced, and `edge` marks a pending edge-triggered notification.
- `closed` tracks the close hook: `open`, then `cancelled` (after `cancelAll`), `deleted` (after `FdMgr::del`; the fd has no FdCtx any more), then `closed` (after `close_f`).
- `srv` is the TcpServer: `running`, `stopped` (`m_isStop` set, callback queued), `cancelled` (the callback's `Socket::cancelAll` done), `cleared`.
- `userNb` is each FdCtx's `m_userNoblock`; `kernNb` is whether the open file has `O_NONBLOCK`. `FdCtx::init` sets `O_NONBLOCK` on a socket and starts `m_userNoblock` false (`SocketCtxInit`).
- `wpc`, `tstate`, `cancelled` and `result` track each waiter in `do_io`: its position, its condition timer, `timer_info::cancelled`, and what the call returned.

**Modelling choices:**
- Each FdContext critical section is one step.
- `addEvent` chooses `EPOLL_CTL_ADD` or `MOD` from `FdContext::events`, as the code does. The kernel refuses an ADD on a registered fd, and a MOD or DEL on an unregistered or closed one. Such a failure is a step of its own.
- `addEvent`'s duplicate check is an assertion, so it is left out: release builds compile it away.
- `Process` triggers every direction in `FdContext::events`, as the code does (`iomanager.cpp:382-390`).
- Time is abstract. An armed timer becomes due at some later step (`Elapse`), and the next idle pass hands out its callback.
- The tickle pipe is not modelled. `epoll_wait` may return at any step, which is sound because the code caps its wait at 3000 ms.
- `AddEvent` and the yield are one step. The gap between publishing a wait and saving the context is the Scheduler's stack race, which `sched_switch_race` shows.
- `do_io` and `connect_with_timeout` look up the FdCtx once, at entry (`HasCtx`). Without one, `do_io` makes the real call once and returns what it gets, EAGAIN included (`result = "again"`), and `connect` returns EBADF. A retry after a wait keeps the context it already holds.
- A fiber on another thread may call `fcntl(F_SETFL)` (`SetFl`) or `ioctl(FIONBIO)` (`Ioctl`) on an fd of `FlagFds` at any time. With an FdCtx, `fcntl` records the user's `O_NONBLOCK` and passes the flags on with `O_NONBLOCK` forced on (`m_sysNoblock` is true for a socket). `ioctl` records the user's choice and passes the request on unchanged. Without an FdCtx, both pass the flags on as given.
- With `m_userNoblock` set at entry, `do_io` makes the real call once and returns its result, EAGAIN included. `connect_with_timeout` then returns `connect_f`'s result, EINPROGRESS included (`result = "again"`). A call already waiting does not look at the flag again.
- The real call returns EAGAIN only on a non-blocking file. On a file left blocking by `ioctl(FIONBIO, 0)`, `do_io`'s real call blocks the worker thread: its step is disabled until data arrives. `connect_f` waits itself and returns connected.
- `F_GETFL` only reports the flags, and `setsockopt` only stores timeouts, which the runs take as given (`WithTimeout`). Neither is an action.
- `FdCtx::isClose()` is never true, since `m_isClosed` is only ever set false, so `do_io`'s EBADF branch is dead code and is left out.
- Readiness is produced only for a direction some waiter waits on (`Watched`). Readiness nobody waits for never meets epoll's interest mask.
- The accept loop goes back to its `while (!m_isStop)` test after every accept, whatever it returned. An accepted client goes to `m_worker`, which only logs, so it is not modelled.

**Bounds:**
- 2 worker threads and 2 fds.
- `io_main` has 3 waiters: a reader on `f1`, a `connect` with a timeout on `f2`, and a sleeper. A user fiber switches `O_NONBLOCK` on `f2` through `fcntl`, and through `ioctl` with either argument (`IoctlArgs = {TRUE, FALSE}`), so the file can be left blocking. Flags on `f1` as well take `io_main` past 4 minutes. The one fd covers both sides of the flag for `connect`, and the flag's effect on `do_io` is the same code path.
- `io_close` has 2 waiters. One is the accept loop of a TcpServer listening on `f1`. The other is a `connect` with a timeout on `f2`, which another fiber closes.
- `io_duplex` and `io_lost_timeout` have 2 waiters: a reader with a timeout on `f1` and a `connect` on `f2`. Only `io_lost_timeout` gives both a timeout.
- `io_close_dangling` has the accept loop alone, with the server stopped.
- In `io_duplex`, both waiters are in `do_io` on one fd, one reading and one writing.
- A third timed waiter makes `io_main` take over 5 minutes. With one timed waiter, the states where a timer fires before, during and after a wait are all reached.
- The peer makes each fd ready in each direction at most `Supply` times (1, or 0 for a silent peer).

**Fairness:**
- Weak fairness per worker thread, on `Elapse` (time passes), on `CloseDel` and `CloseReal` (a started `close` finishes), and on `Stop` and `Join`.
- `ServerStop` has no fairness: whether the server is stopped is up to its user.
- `SpecPeer` also has weak fairness on `MakeReady`: the peer eventually sends what it has. This is an assumption about the environment, and `AllReturn` depends on it.
- `SpecSilent` omits it. Only the timeouts then end the waits.

## 4. Runs

| Run | Cfg | Expect | What it shows |
|---|---|---|---|
| sched_any | Scheduler_any.cfg | pass | With callbacks and fibers, free or pinned, that finish, throw or yield READY: `StackExclusive`, `ExactlyOnce`, `DrainedAtJoin`, `AllRun`, `Termination`, and `PoolRefined` (the scheduler implements TaskPool). |
| sched_switch | Scheduler_switch.cfg | pass | With use_caller (work pinned to the caller thread, which joins in only inside `stop()`), `switchTo` and READY yields, every unit still runs and `stop()` returns (`AllRun`, `Termination`). These are claims about the queue and state bookkeeping. The stack race itself is the next run. |
| sched_switch_race | Scheduler_switch_race.cfg | violation | `StackExclusive` fails: after `switchTo`, another worker swaps the fiber in while it is still on the first thread's stack (`fiber.cpp:173`). |
| sched_affinity | Scheduler_affinity.cfg | violation | `AffinityRespected` fails: a pinned callback that yields READY is re-queued with thread -1 (`scheduler.cpp:139`). |
| timer_main | Timer_main.cfg | pass | A one-shot or recurring timer under two concurrent scans, cancel, refresh, reset and two clock jumps. It checks `ArmedIffQueued`, `NoOneShotFireAfterCancel` (a cancelled one-shot timer never fires), `TimerEventuallyFires` (a due timer is taken out whatever the clock does), and `TimerRefined` (the TimerManager implements TimerQueue). |
| timer_cancel_recurring | Timer_cancel_recurring.cfg | violation | `NoFireAfterCancel` fails: a scan copies a recurring callback, `cancel()` returns true, and the copy runs anyway (spec §8, "no further firings"). |
| timer_empty | Timer_empty.cfg | violation | `NoEmptyBegin` fails: the last timer is cancelled between the read-locked emptiness check and the write lock, and `*m_timers.begin()` reads an empty set (`timer.cpp:151`). |
| io_main | io_main.cfg | pass | A reader, a `connect` with a timeout, and a sleeper, while the user switches `O_NONBLOCK` on the connecting socket: `CountMatches`, `FiberAccounted`, `AllReturn` (every call returns) and `Termination` (`stop()` returns). |
| io_close | io_close.cfg | pass | A TcpServer's accept loop until `stop()` closes its socket, and a `connect` with a timeout on a socket another fiber closes. Through every order of `cancelAll`, `FdMgr::del` and `close_f`, `CountMatches` and `FiberAccounted` hold. |
| io_duplex | io_duplex.cfg | violation | `AddEventOK` fails: a WRITE edge wakes the reader too, and its retry issues `EPOLL_CTL_ADD` on an fd still registered for READ (`iomanager.cpp:382`). |
| io_close_dangling | io_close_dangling.cfg | violation | `NoDanglingWaiter` fails: `TcpServer::stop`'s callback closes the listening socket while the accept loop, between EAGAIN and `addEvent`, runs on the other worker. The accept registers after both `cancelAll`s and stays on the closed fd (`hook.cpp:404`, `tcp_server.cpp:99`). |
| io_lost_timeout | io_lost_timeout.cfg | violation | `TimedWaitReturns` fails with a silent peer: the timeout fires between `addConditionTimer` and `addEvent` (`hook.cpp:127`; `connect_with_timeout` has the same window at `hook.cpp:286`). |

Every property of a passing run has a mutant in `PROJECT.json`: a
plausible bug in a mapped definition that TLC finds. Examples:
- `ScanNoCount`: the scan forgets `++m_activeThreadCount`.
- `PostCallbackKeep`: a READY `cb_fiber` is kept as the thread's `cb_fiber`.
- `StopNoAutoStop`: `stop()` forgets to set `m_autoStop`.
- `CancelNoErase`: `cancel()` clears the callback but leaves the timer in the set.
- `ListExpiredKeepCb`: an expired one-shot timer keeps its callback.
- `ResetFromDeadline`: `reset` takes `m_next` as the start without subtracting `m_ms`.
- `ProcessKeepSlot`: `triggerEvent` schedules the fiber but leaves it in the FdContext.
- `RunTimerAlwaysDec`: the timeout path decrements `m_appendingEventCount` even when `cancelEvent` found nothing.
- `FinishKeepActive`: `run()` forgets `--m_activeThreadCount` after a fiber.
- `CallRootSkip`: `stop()` never calls the root fiber, so work pinned to the caller is never run.
- `ExpiredStrict`: the scan takes out only timers whose deadline is already past, not those due now.

## 5. Findings

1. **Stack race on HOLD** (`fiber.cpp:173`, `scheduler.cpp:41-50`): a fiber is runnable again before its context is saved. The same publish-then-yield order is used by every IOManager wait.
2. **Affinity lost on READY** (`scheduler.cpp:123`, `139`): contradicts the spec's "items with thread affinity run only on that thread".
3. **Recurring timer fires after cancel** (`timer.cpp:171`): contradicts spec §8.
4. **`*begin()` of an empty set** (`timer.cpp:151`): a check-then-act across two locks.
5. **Idle loop wakes every direction** (`iomanager.cpp:382-390`): it tests `fd_ctx->events` instead of `real_events`. A full-duplex socket's reader, woken by WRITE readiness, retries, and its `addEvent` fails with EEXIST. The `read` then returns -1.
6. **close() leaves a waiter behind** (`hook.cpp:402-408`): `cancelAll`, `FdMgr::del` and `close_f` are separate steps, and nothing stops a waiter from registering between them. A fiber that got EAGAIN, or was woken by `cancelAll` and retried, registers again before `close_f`, and it is never woken. `m_appendingEventCount` stays above 0, so `stop()` never returns. `TcpServer::stop` meets this with two workers, as `test_tcp_server.cpp` runs it: its accept loop stays registered on the closed listening socket and never returns.
7. **Lost timeout** (`hook.cpp:127-139`): a timer that fires before `addEvent` cancels nothing. The call then waits without a timeout.

## 6. Not modelled

These parts are left out, each for the reason given:
- **The FdCtx timeouts** (`setsockopt` with `SO_RCVTIMEO`/`SO_SNDTIMEO`): each run fixes which waiters have a timeout (`WithTimeout`). A timeout changed while a call is in `do_io` is not seen by that call, which read it at entry.
- **fd-number reuse:** each fd is created once. A `close()` on a thread outside a scheduler (the hook is off there) skips `FdMgr::del`, and a socket that later gets the same number inherits the stale FdCtx (`hook.cpp:396`, listed as a hazard).
- **TcpServer's bind, handleClient, a start() after stop(), and a second stop():** setup I/O, a callback that only logs, and call sequences the runs do not make. A restart before the stop callback has run leaves an accept loop spinning on a closed socket. It would need a run of its own.
- **IOManager's `delEvent`:** no hook calls it.
- **The tickle pipe and `m_idelThreadCount`:** abstracted, because `epoll_wait` returns within 3000 ms anyway.
- **The EPOLLERR/EPOLLHUP branch** (`iomanager.cpp:357`): for sockets the kernel reports IN or OUT together with HUP or ERR, so the faulty OR into `events[0]` matters only for fds do_io does not manage.
- **The LRU cache** (`ds/lru_cache.h`): a sequential container whose operations each run under one mutex. A model checker finds nothing there that a direct test would miss.
- **Locks, threads and semaphores:** every critical section is one atomic step.
- **The batch `schedule(begin, end)`:** for the scheduler it is a loop of single schedules under one lock. In the model it appears only as the Timer's `RunCallback`.
- **Formatting, logging, sockets, HTTP/WebSocket, rock, streams, databases, config and start-up:** sequential or pure I/O, with nothing a model checker adds over a test. `rock_stream.cpp` also includes a header that is not in the repository.

These faults are noted without a model, because a direct test reaches them:
- `nanosleep` reads `rem->tv_nsec` instead of `req->tv_nsec` (`hook.cpp:213`).
- `Timer::reset` returns true early without a lock (`timer.cpp:55`).
- `LruCache::get(k, v)` returns `v` converted to bool, so a hit on the value 0 reports a miss (`ds/lru_cache.h:72`).
- `ioctl(fd, FIONBIO, &0)` records "user blocking" and passes 0 to the kernel (`hook.cpp:505-516`). The socket becomes blocking while `do_io` still treats it as runtime non-blocking, so the real `read` blocks the worker thread. `fcntl(F_SETFL)` keeps `O_NONBLOCK` in that case. `Ioctl` models this and `io_main` reaches it, but no property states the harm: the blocked thread serves no other fiber until data arrives, a delay the models' properties cannot tell apart from the fiber's wait in epoll.
- `HttpConnectionPool` tests a connection's age the wrong way round: `getConnection` discards idle connections younger than `m_maxAliveTime` (`m_createTime + m_maxAliveTime > now_ms`, `http/http_connection.cpp:320`), and `ReleasePtr` deletes a returned connection while it is still young (`>=`, line 487). Only connections past their age are kept. Each operation is one critical section under the pool's mutex, with an atomic `m_total`.
- `setsockopt(SO_RCVTIMEO, {0, 0})` stores a 0 ms timeout (`hook.cpp:535`), so every wait times out at once. For the kernel, 0 means no timeout.
