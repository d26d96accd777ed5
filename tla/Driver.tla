------------------------------- MODULE Driver --------------------------------
(***************************************************************************)
(* The fused reactor+timer driver glue, ylong_runtime/src/executor/        *)
(* driver.rs, with the cross-thread waker of ylong_io/src/waker.rs.        *)
(*                                                                         *)
(* The Driver sits in an Arc<Mutex<Driver>>: a worker that holds the mutex *)
(* calls Driver::run (the last worker to park: ask the timer wheel for the *)
(* next deadline, then block in IoDriver::drive until it) or               *)
(* Driver::run_once (drive with a zero timeout).  Other threads register   *)
(* and cancel timers through Handle; timer_register wakes the driver so    *)
(* the sleep deadline is recomputed.  The I/O sources are UnixListeners    *)
(* (ylong_io uds/listener.rs) registered through Handle::io_register, each *)
(* with a task that accepts from it; drive dispatches the kernel's         *)
(* edge-triggered events into the listener's ScheduleIO, waking the task. *)
(*                                                                         *)
(* TimeDriver::run, IoDriver::drive, ScheduleIO, the task's poll loop, the *)
(* kernel and the worker loop that takes the mutex are not in this source  *)
(* tree; they are modelled from spec.md 4.2, 4.3 and 4.6.  Time is a      *)
(* discrete clock `now`.  One abstraction is made: the clock does not tick *)
(* between time.run() and the start of the blocking drive (`pc` =         *)
(* "enter"), so a relative timeout is measured from the instant it was     *)
(* computed.                                                               *)
(***************************************************************************)
EXTENDS Naturals, FiniteSets, FiniteSetsExt

CONSTANTS
  Workers,    \* threads that may hold the driver mutex
  Entries,    \* timer entries (Clock) that tasks register
  Deadline,   \* Deadline[e]: the absolute instant of entry e
  Sources,    \* I/O sources that tasks register
  MaxTime,    \* the clock stops here
  MaxConn,    \* connections a peer makes to each listener
  MaxRereg,   \* reregister calls per listener
  TickMod,    \* ScheduleIO's tick wraps at this value
  NoThread,   \* model value: nobody holds the driver mutex
  None        \* model value: Option::None timeout (block until woken)

ASSUME Deadline \in [Entries -> 1 .. MaxTime]

VARIABLES
  now,        \* the clock
  timers,     \* entries in the timer wheel (registered, not fired or cancelled)
  entry,      \* per entry: where its task is in timer_register / timer_cancel
  eventfd,    \* the waker's eventfd is readable (wakes coalesce)
  registered, \* I/O sources registered with the reactor
  ioReady,    \* registered sources with an epoll event not yet returned by drive
  lock,       \* holder of the driver mutex, or NoThread
  pc,         \* per worker: "idle", "time", "enter", "blocked"
  mode,       \* per worker: "run" or "run_once"
  timeout,    \* per worker: the timeout passed to io.drive (relative), or None
  until,      \* per worker: the instant its last blocking drive times out, or None
  \* Each source is a UnixListener (uds/listener.rs) with one task accepting from it.
  backlog,    \* per source: connections the kernel queued and accept4 has not taken
  conns,      \* per source: connections made so far (bounded by MaxConn)
  readiness,  \* per source: ScheduleIO's readable bit
  tick,       \* per source: ScheduleIO's driver tick, bumped by every dispatch
  waker,      \* per source: ScheduleIO's read waker slot holds the task's waker
  task,       \* per source: where the accepting task is
  snap,       \* per source: the tick the task read with the readiness
  rereg       \* per source: reregister calls made so far (bounded by MaxRereg)

timerVars == <<now, timers, entry>>
workerVars == <<lock, pc, mode, timeout, until>>
ioVars == <<eventfd, registered, ioReady>>
srcVars == <<backlog, conns, readiness, tick, waker, task, snap, rereg>>
vars == <<timerVars, workerVars, ioVars, srcVars>>

(***************************************************************************)
(* Timer wheel and reactor (spec.md 4.3, 4.2).                             *)
(***************************************************************************)
\* TimeDriver::run's result: the duration until the next pending deadline,
\* or None if the wheel is empty.
NextTimeout(wheel) == IF wheel = {} THEN None
                      ELSE Min({Deadline[e] : e \in wheel}) - now

Expired == {e \in timers : Deadline[e] <= now}

\* IoDriver::drive returns at once or wakes from epoll_wait: the waker's
\* event or a readiness event is pending.
HasEvent == eventfd \/ ioReady # {}

(***************************************************************************)
(* driver.rs                                                               *)
(***************************************************************************)
\* Mutant: run blocks without a timeout, as if time.run()'s result were dropped.
DriverTimeoutForever(m, next) == IF m = "run" THEN None ELSE 0

\* Driver::run passes time.run()'s duration to drive; run_once passes
\* Some(0) whatever the wheel holds.
DriverTimeout(m, next) == IF m = "run" THEN next ELSE 0

\* Waker::wake: write the selector's eventfd, which makes it readable;
\* wakes not yet consumed by a drive coalesce.
WakerWake == eventfd' = TRUE

\* Handle::wake: the io driver's waker, whose failure is a panic (never
\* taken: an eventfd write fails only on counter overflow).
HandleWake == WakerWake

\* The worker loop (executor/worker.rs): a worker takes the driver mutex;
\* the last parker calls run, any other worker run_once.
Lock(w) ==
  /\ pc[w] = "idle" /\ lock = NoThread
  /\ lock' = w
  /\ pc' = [pc EXCEPT ![w] = "time"]
  /\ \E m \in {"run", "run_once"} : mode' = [mode EXCEPT ![w] = m]
  /\ UNCHANGED <<timerVars, ioVars, timeout, until, srcVars>>

\* Mutant: the next timeout is computed from the wheel before expired entries fire.
TimeRunBeforeFire(w) ==
  /\ pc[w] = "time"
  /\ timers' = timers \ Expired
  /\ timeout' = [timeout EXCEPT ![w] = DriverTimeout(mode[w], NextTimeout(timers))]
  /\ pc' = [pc EXCEPT ![w] = "enter"]
  /\ UNCHANGED <<now, entry, ioVars, lock, mode, until, srcVars>>

\* run / run_once, first call: self.time.run() fires every expired entry
\* and yields the next timeout.
TimeRun(w) ==
  /\ pc[w] = "time"
  /\ timers' = timers \ Expired
  /\ timeout' = [timeout EXCEPT ![w] = DriverTimeout(mode[w], NextTimeout(timers \ Expired))]
  /\ pc' = [pc EXCEPT ![w] = "enter"]
  /\ UNCHANGED <<now, entry, ioVars, lock, mode, until, srcVars>>

\* IoDriver::drive dispatches each returned event (spec.md 4.2): OR the
\* readable bit into the source's ScheduleIO, bump its tick, and take and
\* wake the read waker, which makes a waiting task runnable.
Dispatch(ev) ==
  /\ readiness' = [s \in Sources |-> readiness[s] \/ s \in ev]
  /\ tick' = [s \in Sources |-> IF s \in ev THEN (tick[s] + 1) % TickMod ELSE tick[s]]
  /\ waker' = [s \in Sources |-> waker[s] /\ s \notin ev]
  /\ task' = [s \in Sources |-> IF s \in ev /\ waker[s] /\ task[s] = "waiting"
                                THEN "poll" ELSE task[s]]
  /\ UNCHANGED <<backlog, conns, snap, rereg>>

\* The driver releases the mutex when drive has returned and dispatched its
\* events; the locals of run / run_once go out of scope.
Release(w) == /\ eventfd' = FALSE
              /\ ioReady' = {}
              /\ Dispatch(ioReady)
              /\ lock' = NoThread
              /\ pc' = [pc EXCEPT ![w] = "idle"]
              /\ mode' = [mode EXCEPT ![w] = "run"]
              /\ timeout' = [timeout EXCEPT ![w] = 0]

\* run / run_once, second call: self.io.drive(timeout).  With an event
\* pending or a zero timeout it returns at once; otherwise it blocks.
DriveEnter(w) ==
  /\ pc[w] = "enter"
  /\ IF HasEvent \/ timeout[w] = 0
     THEN Release(w) /\ until' = [until EXCEPT ![w] = None]
     ELSE /\ pc' = [pc EXCEPT ![w] = "blocked"]
          /\ until' = [until EXCEPT ![w] = IF timeout[w] = None THEN None
                                            ELSE now + timeout[w]]
          /\ UNCHANGED <<eventfd, ioReady, lock, mode, timeout, srcVars>>
  /\ UNCHANGED <<now, timers, entry, registered>>

\* A blocked drive returns on the waker's event, a readiness event, or its timeout.
DriveReturn(w) ==
  /\ pc[w] = "blocked"
  /\ HasEvent \/ (until[w] # None /\ now >= until[w])
  /\ Release(w)
  /\ UNCHANGED <<now, timers, entry, registered, until>>

\* Handle::wake called on its own by a thread that hands work to a runtime
\* whose last parker is driving (the scheduler, not in this tree).
Wake ==
  /\ HandleWake
  /\ UNCHANGED <<timerVars, registered, ioReady, workerVars, srcVars>>

\* Handle::timer_register, first step: self.time.timer_register(clock_entry).
TimerRegisterInsert(e) ==
  /\ entry[e] = "new"
  /\ timers' = timers \cup {e}
  /\ entry' = [entry EXCEPT ![e] = "inserted"]
  /\ UNCHANGED <<now, ioVars, workerVars, srcVars>>

\* Mutant: timer_register returns without waking the driver.
TimerRegisterNoWake(e) ==
  /\ entry[e] = "inserted"
  /\ entry' = [entry EXCEPT ![e] = "registered"]
  /\ UNCHANGED <<now, timers, ioVars, workerVars, srcVars>>

\* Handle::timer_register, second step: self.wake(), then return.
TimerRegisterWake(e) ==
  /\ entry[e] = "inserted"
  /\ HandleWake
  /\ entry' = [entry EXCEPT ![e] = "registered"]
  /\ UNCHANGED <<now, timers, registered, ioReady, workerVars, srcVars>>

\* Handle::timer_cancel: remove the entry; the driver is not woken.
TimerCancel(e) ==
  /\ entry[e] = "registered"
  /\ timers' = timers \ {e}
  /\ entry' = [entry EXCEPT ![e] = "cancelled"]
  /\ UNCHANGED <<now, ioVars, workerVars, srcVars>>

(***************************************************************************)
(* A UnixListener (uds/listener.rs) registered through Handle::io_register *)
(* and the task accepting from it.  The task's poll loop and ScheduleIO    *)
(* are not in the tree; they follow spec.md 4.2 "Ordering guarantees".     *)
(***************************************************************************)
\* UnixListener::bind: the socket is bound and listening; peers may connect.
Bind(s) ==
  /\ task[s] = "unbound"
  /\ task' = [task EXCEPT ![s] = "bound"]
  /\ UNCHANGED <<timerVars, workerVars, ioVars, backlog, conns, readiness, tick, waker, snap, rereg>>

\* A peer connects: the kernel queues the connection and, for a registered
\* listener, queues an edge-triggered readable event.
Connect(s) ==
  /\ task[s] \notin {"unbound", "closed"} /\ conns[s] < MaxConn
  /\ backlog' = [backlog EXCEPT ![s] = @ + 1]
  /\ conns' = [conns EXCEPT ![s] = @ + 1]
  /\ ioReady' = IF s \in registered THEN ioReady \cup {s} ELSE ioReady
  /\ UNCHANGED <<timerVars, workerVars, eventfd, registered, readiness, tick, waker, task, snap, rereg>>

\* <UnixListener as Source>::register: epoll_ctl(ADD); a listener that
\* already has queued connections is reported readable by the next wait.
SelectorRegister(s) ==
  /\ registered' = registered \cup {s}
  /\ ioReady' = IF backlog[s] > 0 THEN ioReady \cup {s} ELSE ioReady

\* <UnixListener as Source>::reregister: epoll_ctl(MOD) re-arms the edge
\* trigger, so a listener with queued connections is reported readable again.
SelectorReregister(s) ==
  /\ s \in registered /\ rereg[s] < MaxRereg
  /\ ioReady' = IF backlog[s] > 0 THEN ioReady \cup {s} ELSE ioReady
  /\ rereg' = [rereg EXCEPT ![s] = @ + 1]
  /\ UNCHANGED <<timerVars, workerVars, eventfd, registered, backlog, conns, readiness,
                 tick, waker, task, snap>>

\* Handle::io_register: register the source; its task starts accepting.
IoRegister(s) ==
  /\ task[s] = "bound"
  /\ SelectorRegister(s)
  /\ task' = [task EXCEPT ![s] = "poll"]
  /\ UNCHANGED <<timerVars, workerVars, eventfd, backlog, conns, readiness, tick, waker, snap, rereg>>

\* <UnixListener as Source>::deregister: epoll_ctl(DEL); an event not yet
\* returned by a wait is gone with it.
SelectorDeregister(s) ==
  /\ registered' = registered \ {s}
  /\ ioReady' = ioReady \ {s}

\* Handle::io_deregister, when the task drops the listener between two
\* polls (or its pending accept future is dropped); the waker goes too.
IoDeregister(s) ==
  /\ s \in registered /\ task[s] \in {"poll", "waiting"}
  /\ SelectorDeregister(s)
  /\ task' = [task EXCEPT ![s] = "closed"]
  /\ waker' = [waker EXCEPT ![s] = FALSE]
  /\ UNCHANGED <<timerVars, workerVars, eventfd, backlog, conns, readiness, tick, snap, rereg>>

\* poll_ready: read readiness and tick together; ready -> try the accept,
\* not ready -> go on to install the waker.
PollReady(s) ==
  /\ task[s] = "poll"
  /\ snap' = [snap EXCEPT ![s] = tick[s]]
  /\ task' = [task EXCEPT ![s] = IF readiness[s] THEN "accept" ELSE "install"]
  /\ UNCHANGED <<timerVars, workerVars, ioVars, backlog, conns, readiness, tick, waker, rereg>>

\* Store the waker, then compare the tick: a dispatch in between means
\* "reactor ran, re-check"; otherwise the task waits to be woken.
Install(s) ==
  /\ task[s] = "install"
  /\ waker' = [waker EXCEPT ![s] = TRUE]
  /\ task' = [task EXCEPT ![s] = IF tick[s] # snap[s] THEN "poll" ELSE "waiting"]
  /\ UNCHANGED <<timerVars, workerVars, ioVars, backlog, conns, readiness, tick, snap, rereg>>

\* UnixListener::accept: accept4(SOCK_NONBLOCK | SOCK_CLOEXEC) takes a queued
\* connection (the task then accepts again) or fails with EAGAIN.
Accept(s) ==
  /\ task[s] = "accept"
  /\ IF backlog[s] > 0
     THEN /\ backlog' = [backlog EXCEPT ![s] = @ - 1]
          /\ task' = [task EXCEPT ![s] = "poll"]
     ELSE /\ task' = [task EXCEPT ![s] = "clear"]
          /\ UNCHANGED backlog
  /\ UNCHANGED <<timerVars, workerVars, ioVars, conns, readiness, tick, waker, snap, rereg>>

\* Mutant: clear the readable bit whatever happened since it was read.
ClearReadinessIgnoresTick(s) ==
  /\ task[s] = "clear"
  /\ readiness' = [readiness EXCEPT ![s] = FALSE]
  /\ task' = [task EXCEPT ![s] = "poll"]
  /\ UNCHANGED <<timerVars, workerVars, ioVars, backlog, conns, tick, waker, snap, rereg>>

\* After EAGAIN: clear the readable bit only if the tick is still the one
\* read with it (a compare-and-swap), then poll again.
ClearReadiness(s) ==
  /\ task[s] = "clear"
  /\ readiness' = [readiness EXCEPT ![s] = IF tick[s] = snap[s] THEN FALSE ELSE @]
  /\ task' = [task EXCEPT ![s] = "poll"]
  /\ UNCHANGED <<timerVars, workerVars, ioVars, backlog, conns, tick, waker, snap, rereg>>

\* Time passes (not inside the instant between time.run and epoll_wait).
Tick ==
  /\ now < MaxTime
  /\ \A w \in Workers : pc[w] # "enter"
  /\ now' = now + 1
  /\ UNCHANGED <<timers, entry, ioVars, workerVars, srcVars>>

(***************************************************************************)
(* Specification.                                                          *)
(***************************************************************************)
\* Driver::initialize: an empty wheel, no source registered, no wake pending.
Init ==
  /\ now = 0 /\ timers = {} /\ entry = [e \in Entries |-> "new"]
  /\ eventfd = FALSE /\ registered = {} /\ ioReady = {}
  /\ lock = NoThread
  /\ pc = [w \in Workers |-> "idle"] /\ mode = [w \in Workers |-> "run"]
  /\ timeout = [w \in Workers |-> 0] /\ until = [w \in Workers |-> None]
  /\ backlog = [s \in Sources |-> 0] /\ conns = [s \in Sources |-> 0]
  /\ readiness = [s \in Sources |-> FALSE] /\ tick = [s \in Sources |-> 0]
  /\ waker = [s \in Sources |-> FALSE] /\ task = [s \in Sources |-> "unbound"]
  /\ snap = [s \in Sources |-> 0] /\ rereg = [s \in Sources |-> 0]

DriverStep(w) == Lock(w) \/ TimeRun(w) \/ DriveEnter(w) \/ DriveReturn(w)

TaskStep(s) == PollReady(s) \/ Install(s) \/ Accept(s) \/ ClearReadiness(s)

Next ==
  \/ \E w \in Workers : DriverStep(w)
  \/ \E e \in Entries : TimerRegisterInsert(e) \/ TimerRegisterWake(e) \/ TimerCancel(e)
  \/ \E s \in Sources : Bind(s) \/ Connect(s) \/ IoRegister(s) \/ SelectorReregister(s)
                         \/ IoDeregister(s) \/ TaskStep(s)
  \/ Wake
  \/ Tick

\* Some worker keeps driving (spec.md 4.4: the last parker runs the driver
\* loop), a thread inside timer_register finishes the call, and time passes.
\* Tick is strongly fair: it is disabled for the instant a worker spends
\* between time.run() and epoll_wait, but the clock is never stopped for good.
\* A runnable task is polled again (the executor runs every woken task).
\* Binding, (re)registering, cancelling, connecting and waking are the
\* environment's choice.
Fairness ==
  /\ \A w \in Workers : WF_vars(DriverStep(w))
  /\ \A s \in Sources : WF_vars(TaskStep(s))
  /\ \A e \in Entries : WF_vars(TimerRegisterWake(e))
  /\ SF_vars(Tick)

Spec == Init /\ [][Next]_vars /\ Fairness

(***************************************************************************)
(* Properties.                                                             *)
(***************************************************************************)
TypeOK ==
  /\ now \in 0 .. MaxTime
  /\ timers \subseteq Entries
  /\ entry \in [Entries -> {"new", "inserted", "registered", "cancelled"}]
  /\ eventfd \in BOOLEAN
  /\ ioReady \subseteq registered /\ registered \subseteq Sources
  /\ lock \in Workers \cup {NoThread}
  /\ pc \in [Workers -> {"idle", "time", "enter", "blocked"}]
  /\ mode \in [Workers -> {"run", "run_once"}]
  /\ timeout \in [Workers -> Nat \cup {None}]
  /\ until \in [Workers -> Nat \cup {None}]
  /\ backlog \in [Sources -> 0 .. MaxConn] /\ conns \in [Sources -> 0 .. MaxConn]
  /\ readiness \in [Sources -> BOOLEAN] /\ waker \in [Sources -> BOOLEAN]
  /\ rereg \in [Sources -> 0 .. MaxRereg]
  /\ tick \in [Sources -> 0 .. TickMod - 1] /\ snap \in [Sources -> 0 .. TickMod - 1]
  /\ task \in [Sources -> {"unbound", "bound", "poll", "install", "accept", "clear",
                           "waiting", "closed"}]

\* Once timer_register has returned, a driver blocked in drive with no
\* event pending wakes no later than that entry's deadline: the wake() after
\* the insert covers a registration that races with time.run() (spec.md
\* 4.3 "wakes the driver so the sleep deadline is recomputed").
NoSleepPastDeadline ==
  \A w \in Workers :
    (pc[w] = "blocked" /\ ~HasEvent) =>
      \A e \in timers : entry[e] = "registered" =>
        until[w] # None /\ until[w] <= Deadline[e]

\* Every entry put in the wheel leaves it: it fires (or is cancelled).
TimersFire == \A e \in Entries : (e \in timers) ~> (e \notin timers)

\* spec.md S6 and 4.2: a connection queued on a registered listener is
\* eventually accepted.  A readable edge that lands between accept4's EAGAIN
\* and the clear of the readable bit, or between the readiness check and the
\* waker's installation, must not leave the task waiting with the
\* connection still queued.
AcceptEventually ==
  \A s \in Sources : (backlog[s] > 0 /\ s \in registered)
                      ~> (backlog[s] = 0 \/ s \notin registered)

=============================================================================
