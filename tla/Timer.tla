-------------------------------- MODULE Timer --------------------------------
(***************************************************************************)
(* Timer and TimerManager of src/cxk/timer.{h,cpp}.  The manager keeps the *)
(* armed timers in one ordered set m_timers under a reader/writer lock.    *)
(* Any thread may add, cancel, refresh or reset a timer; idle threads of   *)
(* the IOManager call listExpiredCb, which reads the wall clock *before*   *)
(* taking the lock, takes every due timer's callback out (all of them      *)
(* after a backward clock jump larger than the rollover threshold) and     *)
(* re-arms recurring timers at now + period.  The callbacks it returns are *)
(* scheduled and run later, outside the lock.                              *)
(*                                                                         *)
(* Time is GetCurrentMS (gettimeofday), so it can also jump backwards.     *)
(***************************************************************************)
EXTENDS Naturals, FiniteSets

CONSTANTS
    TimerIds,    \* Timer objects, by address (a set of numbers)
    Scanners,    \* threads that run listExpiredCb (IOManager::idel)
    Periods,     \* intervals in ms passed to addTimer and reset
    Recurring,   \* the recurring flags addTimer is called with
    MaxTime,     \* bound on the clock
    Jumps,       \* sizes of backward wall-clock jumps
    MaxJumps,    \* bound on the number of backward jumps
    Rollover,    \* the 60*60*1000 ms threshold of detectClockRollover
    MaxPending,  \* bound on the copies of one callback waiting to run
    NoSnap       \* a scanner that has not read the clock

ASSUME /\ TimerIds \subseteq Nat /\ Periods \subseteq Nat /\ Recurring \subseteq BOOLEAN
       /\ MaxTime \in Nat /\ Jumps \subseteq Nat \ {0} /\ MaxJumps \in Nat
       /\ Rollover \in Nat /\ MaxPending \in Nat \ {0}

VARIABLES
    now,        \* GetCurrentMS()
    jumps,      \* backward jumps so far
    prev,       \* m_previousTime
    tickled,    \* m_tickled
    made,       \* timers created so far
    tset,       \* m_timers
    next,       \* Timer::m_next
    period,     \* Timer::m_ms
    recurring,  \* Timer::m_recurring
    hasCb,      \* Timer::m_cb is not null
    snap,       \* per scanner: now_ms read at the top of listExpiredCb
    pending,    \* callbacks taken out by listExpiredCb that have not run yet
    dead,       \* cancel() has returned true for the timer
    derefEmpty  \* listExpiredCb dereferenced begin() of an empty m_timers

vars == <<now, jumps, prev, tickled, made, tset, next, period, recurring,
          hasCb, snap, pending, dead, derefEmpty>>
timerVars == <<made, tset, next, period, recurring, hasCb>>

MaxPeriod == CHOOSE p \in Periods : \A q \in Periods : q <= p

\* every variable has its type; a deadline is never later than the latest
\* clock reading plus the longest interval
TypeOK ==
    /\ now \in 0..MaxTime /\ prev \in 0..MaxTime
    /\ jumps \in 0..MaxJumps
    /\ tickled \in BOOLEAN
    /\ made \subseteq TimerIds /\ tset \subseteq made
    /\ next \in [TimerIds -> 0..(MaxTime + MaxPeriod)]
    /\ period \in [TimerIds -> Periods]
    /\ recurring \in [TimerIds -> BOOLEAN]
    /\ hasCb \in [TimerIds -> BOOLEAN]
    /\ snap \in [Scanners -> 0..MaxTime \cup {NoSnap}]
    /\ pending \in [TimerIds -> 0..MaxPending]
    /\ dead \in [TimerIds -> BOOLEAN]
    /\ derefEmpty \in BOOLEAN

-----------------------------------------------------------------------------
(* Helpers *)

\* Timer::Comparetor: by m_next, then by address
Before(a, da, b, db) == da < db \/ (da = db /\ a < b)

\* TimerManager::addTimer(val, lock): insert; when the timer went to the
\* front and no tickle is outstanding, set m_tickled (the IOManager is then
\* told through onTimerInsertedAtFront)
Insert(id, deadline) ==
    LET atFront == /\ \A o \in tset \ {id} : Before(id, deadline, o, next[o])
                   /\ ~tickled
    IN /\ tset' = tset \cup {id}
       /\ next' = [next EXCEPT ![id] = deadline]
       /\ tickled' = (tickled \/ atFront)

\* detectClockRollover: the clock went back by more than the threshold
IsRollover(n) == n < prev /\ n + Rollover < prev

\* mutant: a timer is taken out only once the clock is past its deadline
ExpiredStrict(n) ==
    IF IsRollover(n) THEN tset ELSE {id \in tset : next[id] < n}
\* the timers listExpiredCb takes out with clock reading n
Expired(n) ==
    IF IsRollover(n) THEN tset ELSE {id \in tset : next[id] <= n}

-----------------------------------------------------------------------------
(* The clock *)

Tick ==
    /\ now < MaxTime
    /\ now' = now + 1
    /\ UNCHANGED <<jumps, prev, tickled, timerVars, snap, pending,
                   dead, derefEmpty>>

\* gettimeofday jumps back (NTP step, manual clock change)
JumpBack ==
    /\ jumps < MaxJumps
    /\ \E j \in Jumps : j <= now /\ now' = now - j
    /\ jumps' = jumps + 1
    /\ UNCHANGED <<prev, tickled, timerVars, snap, pending, dead, derefEmpty>>

-----------------------------------------------------------------------------
(* Timer operations, each under the write lock *)

\* TimerManager::addTimer(ms, cb, recurring): new Timer reads the clock
AddTimer(id, ms, rec) ==
    /\ id \notin made
    /\ made' = made \cup {id}
    /\ period' = [period EXCEPT ![id] = ms]
    /\ recurring' = [recurring EXCEPT ![id] = rec]
    /\ hasCb' = [hasCb EXCEPT ![id] = TRUE]
    /\ Insert(id, now + ms)
    /\ UNCHANGED <<now, jumps, prev, snap, pending, dead, derefEmpty>>

\* mutant: cancel clears m_cb but leaves the timer in m_timers
CancelNoErase(id) ==
    /\ id \in made
    /\ IF hasCb[id]
       THEN /\ hasCb' = [hasCb EXCEPT ![id] = FALSE]
            /\ dead' = [dead EXCEPT ![id] = TRUE]
       ELSE UNCHANGED <<hasCb, dead>>
    /\ UNCHANGED <<now, jumps, prev, tickled, made, tset, next, period,
                   recurring, snap, pending, derefEmpty>>

\* Timer::cancel: clear the callback and erase from the set if it has one
Cancel(id) ==
    /\ id \in made
    /\ IF hasCb[id]
       THEN /\ hasCb' = [hasCb EXCEPT ![id] = FALSE]
            /\ tset' = tset \ {id}
            /\ dead' = [dead EXCEPT ![id] = TRUE]
       ELSE UNCHANGED <<hasCb, tset, dead>>
    /\ UNCHANGED <<now, jumps, prev, tickled, made, next, period, recurring,
                   snap, pending, derefEmpty>>

\* Timer::refresh: re-deadline to now + m_ms; the erase/insert pair does not
\* go through addTimer, so it never tickles
Refresh(id) ==
    /\ id \in made
    /\ hasCb[id] /\ id \in tset
    /\ next' = [next EXCEPT ![id] = now + period[id]]
    /\ UNCHANGED <<now, jumps, prev, tickled, made, tset, period, recurring,
                   hasCb, snap, pending, dead, derefEmpty>>

\* mutant: the old start is taken as m_next, without subtracting m_ms
ResetFromDeadline(id, ms, fromNow) ==
    /\ id \in made
    /\ ~(ms = period[id] /\ ~fromNow)
    /\ hasCb[id] /\ id \in tset
    /\ LET start == IF fromNow THEN now ELSE next[id]
       IN /\ period' = [period EXCEPT ![id] = ms]
          /\ Insert(id, start + ms)
    /\ UNCHANGED <<now, jumps, prev, made, recurring, hasCb, snap, pending,
                   dead, derefEmpty>>

\* Timer::reset(ms, from_now): the same period from the old start is a
\* no-op; otherwise erase, recompute from now or from the old start, and
\* re-add through addTimer
Reset(id, ms, fromNow) ==
    /\ id \in made
    /\ ~(ms = period[id] /\ ~fromNow)
    /\ hasCb[id] /\ id \in tset
    /\ LET start == IF fromNow THEN now ELSE next[id] - period[id]
       IN /\ period' = [period EXCEPT ![id] = ms]
          /\ Insert(id, start + ms)
    /\ UNCHANGED <<now, jumps, prev, made, recurring, hasCb, snap, pending,
                   dead, derefEmpty>>

-----------------------------------------------------------------------------
(* listExpiredCb, by a scanner thread (an IOManager idle loop)         *)

\* lines 137-145: read now_ms, then return under the read lock if the set
\* is empty; the read lock is dropped before the write lock is taken
ReadClock(s) ==
    /\ snap[s] = NoSnap
    /\ tset # {}
    /\ snap' = [snap EXCEPT ![s] = now]
    /\ UNCHANGED <<now, jumps, prev, tickled, timerVars, pending, dead,
                   derefEmpty>>

\* mutant: a one-shot timer keeps m_cb after its callback is taken
ListExpiredKeepCb(s) ==
    /\ snap[s] # NoSnap
    /\ LET n == snap[s]
           ex == Expired(n)
       IN /\ prev' = n
          /\ derefEmpty' = (derefEmpty \/ (tset = {} /\ ~IsRollover(n)))
          /\ \A id \in ex : pending[id] < MaxPending
          /\ pending' = [id \in TimerIds |->
                           IF id \in ex THEN pending[id] + 1 ELSE pending[id]]
          /\ tset' = tset \ {id \in ex : ~recurring[id]}
          /\ next' = [id \in TimerIds |->
                        IF id \in ex /\ recurring[id]
                        THEN n + period[id] ELSE next[id]]
    /\ snap' = [snap EXCEPT ![s] = NoSnap]
    /\ UNCHANGED <<now, jumps, tickled, made, period, recurring, hasCb, dead>>

\* mutant: recurring timers are erased with the others and never re-inserted
ListExpiredNoRearm(s) ==
    /\ snap[s] # NoSnap
    /\ LET n == snap[s]
           ex == Expired(n)
       IN /\ prev' = n
          /\ derefEmpty' = (derefEmpty \/ (tset = {} /\ ~IsRollover(n)))
          /\ \A id \in ex : pending[id] < MaxPending
          /\ pending' = [id \in TimerIds |->
                           IF id \in ex THEN pending[id] + 1 ELSE pending[id]]
          /\ tset' = tset \ ex
          /\ next' = [id \in TimerIds |->
                        IF id \in ex /\ recurring[id]
                        THEN n + period[id] ELSE next[id]]
          /\ hasCb' = [id \in TimerIds |->
                         IF id \in ex /\ ~recurring[id]
                         THEN FALSE ELSE hasCb[id]]
    /\ snap' = [snap EXCEPT ![s] = NoSnap]
    /\ UNCHANGED <<now, jumps, tickled, made, period, recurring, dead>>

\* lines 148-178, under the write lock: detectClockRollover, return if the
\* first timer is not due, otherwise take every expired callback, re-arm the
\* recurring ones at now_ms + m_ms and clear the others.  The first timer is
\* read as *m_timers.begin() without re-checking that the set is non-empty;
\* on an empty set that read is undefined, modelled as one of its outcomes
\* (the garbage deadline is taken as not due) and recorded in derefEmpty.
\* After a rollover the read is skipped (the && short-circuits).
ListExpired(s) ==
    /\ snap[s] # NoSnap
    /\ LET n == snap[s]
           ex == Expired(n)
       IN /\ prev' = n
          /\ derefEmpty' = (derefEmpty \/ (tset = {} /\ ~IsRollover(n)))
          /\ \A id \in ex : pending[id] < MaxPending
          /\ pending' = [id \in TimerIds |->
                           IF id \in ex THEN pending[id] + 1 ELSE pending[id]]
          /\ tset' = tset \ {id \in ex : ~recurring[id]}
          /\ next' = [id \in TimerIds |->
                        IF id \in ex /\ recurring[id]
                        THEN n + period[id] ELSE next[id]]
          /\ hasCb' = [id \in TimerIds |->
                         IF id \in ex /\ ~recurring[id]
                         THEN FALSE ELSE hasCb[id]]
    /\ snap' = [snap EXCEPT ![s] = NoSnap]
    /\ UNCHANGED <<now, jumps, tickled, made, period, recurring, dead>>

\* TimerManager::getNextTimer clears m_tickled (under the read lock)
GetNextTimer ==
    /\ tickled' = FALSE
    /\ UNCHANGED <<now, jumps, prev, timerVars, snap, pending, dead, derefEmpty>>

\* a scheduled callback runs (the copy of m_cb listExpiredCb took)
RunCallback(id) ==
    /\ pending[id] > 0
    /\ pending' = [pending EXCEPT ![id] = @ - 1]
    /\ UNCHANGED <<now, jumps, prev, tickled, timerVars, snap, dead, derefEmpty>>

-----------------------------------------------------------------------------

Init ==
    /\ now = 0 /\ jumps = 0 /\ prev = 0
    /\ tickled = FALSE
    /\ made = {} /\ tset = {}
    /\ next = [id \in TimerIds |-> 0]
    /\ period = [id \in TimerIds |-> CHOOSE p \in Periods : TRUE]
    /\ recurring = [id \in TimerIds |-> FALSE]
    /\ hasCb = [id \in TimerIds |-> FALSE]
    /\ snap = [s \in Scanners |-> NoSnap]
    /\ pending = [id \in TimerIds |-> 0]
    /\ derefEmpty = FALSE
    /\ dead = [id \in TimerIds |-> FALSE]

Next ==
    \/ Tick \/ JumpBack \/ GetNextTimer
    \/ \E id \in TimerIds :
          \/ Cancel(id) \/ Refresh(id) \/ RunCallback(id)
          \/ \E ms \in Periods :
                \/ \E rec \in Recurring : AddTimer(id, ms, rec)
                \/ \E fromNow \in BOOLEAN : Reset(id, ms, fromNow)
    \/ \E s \in Scanners : ReadClock(s) \/ ListExpired(s)

Spec == Init /\ [][Next]_vars

\* The clock advances, the IOManager's idle threads call listExpiredCb on
\* every turn of their loop (epoll_wait returns within 3000 ms), and the
\* callbacks they schedule are run.  Users are never forced to act.
FairSpec ==
    /\ Spec
    /\ WF_vars(Tick)
    /\ \A s \in Scanners : WF_vars(ReadClock(s)) /\ WF_vars(ListExpired(s))
    /\ \A id \in TimerIds : WF_vars(RunCallback(id))

-----------------------------------------------------------------------------
(* Properties *)

\* A timer holds a callback exactly when it is in m_timers.  Timer::cancel
\* erases m_timers.find(this) without checking for end(), and refresh and
\* reset look it up by (m_next, address): both rely on this.
ArmedIffQueued == \A id \in made : hasCb[id] <=> id \in tset

\* Once cancel() has returned true, no callback of that timer is still on
\* its way to run (spec: a cancelled recurring timer fires no more; a timer
\* cancelled before its deadline never fires).
NoFireAfterCancel == \A id \in TimerIds : dead[id] => pending[id] = 0

\* The same for one-shot timers, which listExpiredCb erases from the set
\* before it hands out their callbacks: once cancel() has returned true for
\* a one-shot timer, its callback is not on its way to run.
NoOneShotFireAfterCancel ==
    \A id \in TimerIds : dead[id] /\ ~recurring[id] => pending[id] = 0

\* An armed timer whose deadline the clock can reach is eventually taken out
\* by listExpiredCb, unless a user cancels or moves it first.  The clock is
\* gettimeofday: a backward jump below the rollover threshold only delays
\* the timer, one above it fires every timer at once, and a scan may judge
\* the set against a clock reading older than the last add or refresh;
\* none of these may leave a due timer in m_timers for good.
TimerEventuallyFires ==
    \A id \in TimerIds, d \in 0..MaxTime :
        (id \in tset /\ next[id] = d /\ pending[id] = 0)
            ~> (id \notin tset \/ next[id] # d \/ pending[id] > 0)

\* The refinement mapping to TimerQueue.  A timer is unused until addTimer
\* made it, cancelled once cancel() returned true, armed while it is in
\* m_timers and fired when listExpiredCb took its one-shot callback out.
absState ==
    [id \in TimerIds |-> CASE id \notin made -> "unused"
                           [] dead[id] -> "cancelled"
                           [] id \in tset -> "armed"
                           [] OTHER -> "fired"]

Queue == INSTANCE TimerQueue
             WITH state <- absState, rec <- recurring, owed <- pending

\* TimerManager implements TimerQueue: every add, cancel, refresh, reset,
\* scan and callback run is a step of the abstract queue or leaves it
\* unchanged.  So listExpiredCb hands out callbacks only of timers that are
\* in m_timers and not cancelled, a one-shot timer fires once, a recurring
\* timer stays in m_timers when it fires, and cancel takes a timer out of
\* the set for good.
TimerRefined == Queue!Spec

\* listExpiredCb never reads the first timer of an empty m_timers: between
\* its read-locked emptiness check and its write lock, another scanner may
\* expire the last timer or a user may cancel it.
NoEmptyBegin == ~derefEmpty

=============================================================================
