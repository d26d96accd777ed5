# TLA+ models of ylong_runtime

This directory holds TLA+ models of the concurrent parts of the ylong_runtime
source tree under `src/`, together with the TLC configurations that check
them. `PROJECT.json` lists the components, runs, mutants, the source lines
each definition models (`map`), the findings and the hazards.

## 1. Inventory

| Component | Source | State | Operations | Interacts with |
|---|---|---|---|---|
| Sleeper | `executor/sleeper.rs` | packed `Record` word (`active << 16 \| searching`), `idle_list: Mutex<Vec<usize>>`, `num_workers` | `pop_worker`, `push_worker`, `try_inc_searching_num`, `dec_searching_num`, `is_parked` | the worker loop and the scheduler (`executor/worker.rs`, not in the tree) |
| Async file | `fs/async_file.rs` | `Arc<SyncFile>`, `FileInner { state: Idle(Option<FileBuf>) \| Reading \| Writing \| Seeking, write_err, idx }`, `buf_size_limit` | `poll_read`, `poll_write`, `poll_seek`, `poll_flush`, `FileInner::flush`, `set_len`, `sync_all`/`sync_data`, `metadata`, `set_permissions`, `try_clone`, `into_std`, `try_into_std` | the blocking pool (`spawn_blocking`), the task that polls it, `FileBuf` (`fs/file_buf.rs`, not in the tree) |
| Driver glue | `executor/driver.rs` | `IoDriver`, `Arc<TimeDriver>` | `run` (timer, then `drive` with the next deadline), `run_once` (`drive(0)`), `wake`, `timer_register` (+ `wake`), `io_register` | reactor and timer wheel (not in the tree), the Sleeper's last parker |
| Waker | `ylong_io/src/waker.rs` | the selector waker | `new`, `wake` | the reactor's `drive` |
| TCP socket | `ylong_io/.../tcp/socket.rs` | an fd | `new_socket`, `bind`, `listen`, `connect`, `get/set_sock_linger` | the kernel |
| UDS listener | `ylong_io/.../uds/listener.rs` | a `net::UnixListener` | `bind`, `accept`, `from_std`, `Source::register`/`reregister`/`deregister` | the kernel's backlog and epoll, the reactor that dispatches its events, the task that accepts |
| Reactor / ScheduleIO | not in the tree (spec.md 4.2–4.3) | per-source readiness bits, a tick, the read waker | `drive`'s dispatch, `poll_readiness`, `clear_readiness` | the driver glue, the listener, the tasks |
| Core affinity | `util/core_affinity/mod.rs` | none | a re-export | none |

The hard behaviours are these:
- **Sleeper.** Lock-free loads of the packed word race with the updates other threads make under the mutex. `try_inc_searching_num` is a load followed by a separate `fetch_add`. The last-parker flag decides which worker drives the reactor.
- **Driver.** The worker holding the driver mutex computes a relative timeout from the timer wheel, then blocks in `drive`. Other threads insert timers meanwhile; only `timer_register`'s wake, written after the insert, makes the blocked driver recompute its deadline.
- **Listener and ScheduleIO.** epoll is edge-triggered: a connection queued while the listener is registered yields one event, and nothing more until the next connection. The accept task reads readiness, installs its waker and re-checks the tick; after `accept` fails with WouldBlock it clears readiness only if no event was dispatched since it read it. Each of these steps races the driver's dispatch.
- **Async file.** A single-task state machine whose blocking jobs run on other threads.
  - The job is collected by whichever operation polls next.
  - Futures may be dropped at any `Pending` (select!, timeouts).
  - Read-ahead must be reconciled with relative seeks, writes and `set_len`.
  - Write errors are saved in `write_err` to be re-surfaced.
  - `into_std`/`try_into_std` depend on the `Arc` count.

## 2. Modules

### Sleeper.tla, SleeperRecord.tla, MCSleeper.tla

`Sleeper` has the following variables:
- `record` is the packed word. `ActiveNum` and `SearchingNum` are `load_state`'s masks.
- `idle_list` is the vector.
- `lock` is the holder of the mutex.
- `pc` is the step each thread is in.
- `mode` is the caller contract: running, searching or parked.
- `driver` says that `push_worker` returned true.

Every atomic instruction and every critical section is one action:
- `PopWorkerLoad` is the lock-free `load_state` and early return.
- `PopWorkerLock` takes the mutex and pops; it returns None when the list is empty.
- `PopWorkerInc` is `inc_active_num` under the mutex.
- `PushWorkerLock` is the push.
- `PushWorkerDec` is `dec_active_num` under the mutex.
- `TryIncSearchingLoad` is the load and cap test; `TryIncSearchingAdd` is the `fetch_add`.
- `DecSearching`.
- `Resume` models the worker loop's `is_parked` test.

External wakers (`Wakers`) only call `pop_worker`.

`SleeperRecord` is the abstract specification: two counters with `searching <= active <= NumWorkers`. `Sleeper` instantiates it with `active <- ActiveNum(record), searching <- SearchingNum(record)` and checks `Abstract!Spec` as a property. This is spec.md 8.5, the reference counter model.

### AsyncFile.tla, MCAsyncFile.tla

One task owns one `File`. `call` is the task's pending future. Each `Poll*` action is one call of a `poll_*` function, running its whole `loop` until Ready or Pending:
- `PollReadIdle`, `PollReadDone` and `PollReadOther` are poll_read's match arms.
- `PollWriteErr`, `PollWriteIdle` and `PollWriteDone` are poll_write's.
- `PollSeekIdle` and `PollSeekDone` are poll_seek's.
- `PollFlush*` are `FileInner::poll_flush`.
- `SetLenStart`/`SetLenAwait` and `SyncStart`/`SyncAllAwait` are the async functions split at their one await; `SyncStart` is shared by `sync_all` (`SyncAllStart`) and `sync_data` (`SyncDataStart`).
- `SetBufferSizeLimit` is `set_buffer_size_limit`; `limit` is `buf_size_limit`, read by every read and write job. `FileInner::flush` (`FlushReady`, `AfterFlush`) is folded into the start step.
- `IntoStd` and `TryIntoStd`.

Blocking closures run as `RunJob` (`RunRead`, `RunWrite`, `RunSeek`), `RunAux` (set_len's and sync_all's closures) and `RunDetached` (closures of dropped futures). `disk` and `pos` are the OS file and its cursor. `Cancel` drops a pending future of an operation in `Cancellable`. `DropFile` drops the `File`. The `Arc` count is `ArcCount`: one for the File plus one per closure not yet returned.

The data is abstracted:
- A byte is a small integer, and 0 is the fill byte of `set_len`.
- `FileBuf` is the sequence of bytes it holds.
- An `io::Error` is one kind.

Ghost variables give the std::fs::File semantics the task must observe:
- `view`, `upos` and `known` are the expected file contents and cursor, and whether the expectation is defined.
- `out` is the last result.
- `lost` marks an unreported failed write.

### Driver.tla, MCDriver.tla

`Driver` models `executor/driver.rs` and `ylong_io/src/waker.rs`, with the parts that are not in the tree modelled from spec.md 4.2–4.4: the timer wheel, the reactor, and the worker loop that locks the `Arc<Mutex<Driver>>`.

Variables:
- `now` is the clock. `timers` is the set of entries in the wheel.
- `entry` is each timer's progress through `timer_register` and `timer_cancel`.
- `eventfd` is the waker's pending event.
- `registered` and `ioReady` are the registered sources and their pending readiness events.
- `lock`, `pc`, `mode`, `timeout` and `until` are the mutex holder and each worker's place in `run`/`run_once`.
- Per listener: `backlog` (connections queued in the kernel), `conns` (connections made, bounded by `MaxConn`), and the ScheduleIO state `readiness`, `tick` and `waker`; `task` and `snap` are the accept task's place and the tick it read; `rereg` counts reregister calls (bounded by `MaxRereg`).

Actions:
- `Lock` is the worker loop choosing `run` or `run_once`.
- `TimeRun` is `self.time.run()`: it fires expired entries, and `DriverTimeout` turns the next deadline into drive's timeout (`Some(0)` for `run_once`).
- `DriveEnter` and `DriveReturn` are `self.io.drive(timeout)`. Drive returns at once on a pending event or a zero timeout. Otherwise it blocks until a wake, an I/O event or `until`.
- `TimerRegisterInsert` and `TimerRegisterWake` are the two statements of `Handle::timer_register`. `TimerCancel`, `IoRegister` and `IoDeregister` are the other Handle methods; `IoRegister` calls the listener's `SelectorRegister` and starts the accept task, `IoDeregister` calls `SelectorDeregister` and closes it. `SelectorReregister` is the listener's `reregister` (epoll MOD), which reports a still-readable listener again. `Wake` is `Handle::wake` called by any thread. `Tick` is time.
- `Dispatch` is the part of drive that hands the events it consumed to ScheduleIO: it sets readiness, bumps the tick and wakes the stored waker. It is part of `Release`, the drive that returns.
- `Bind` and `Accept` are `UnixListener::bind` and `accept` (accept4 takes one queued connection or fails with WouldBlock). `Connect` is a peer: the kernel queues the connection and, for a registered listener, an event. `SelectorRegister` reports an existing backlog as one event (epoll ADD on a readable fd).
- `PollReady`, `Install` and `ClearReadiness` are the accept task's steps through ScheduleIO; `TaskStep` is their disjunction with `Accept`.

One abstraction is made: the clock does not tick between `time.run()` and the start of the blocking drive. The lateness this hides is listed as a hazard.

## 3. Runs

| Run | Checks | Result |
|---|---|---|
| `sleeper` | TypeOK, IdleListSound, SingleDriver, RecordRefinesCounters | pass |
| `sleeper_search_cap` | SearchingCapRespected | **violation**: the cap is checked by a load separate from the add |
| `file` | TypeOK, IdleHoldsBuffer, ReadSeesFile, SeekLandsOnTarget, Progress | pass, with read/write/flush/sync_all futures dropped (detached jobs) |
| `file_errors` | NoPanic, FlushReportsLostWrite | pass, with failing blocking reads/writes |
| `file_seek_back_error` | ReadSeesFile | **violation**: a failed relative seek after read-ahead skips the unread bytes |
| `file_set_len_shrink` | ReadSeesFile | **violation**: set_len keeps stale read-ahead (its test is inverted) |
| `file_seek_cancel` | SeekLandsOnTarget | **violation**: a dropped seek's job answers the next seek |
| `file_set_len_cancel` | IdleHoldsBuffer | **violation**: a dropped set_len leaves Idle(None) |
| `file_sticky_error` | WriteErrorSurfacedOnce | **violation**: write_err is never cleared |
| `file_sync_lost_write` | SyncAllReportsLostWrite | **violation**: sync_all returns Ok after a lost write |
| `file_cancel_after_error` | NoPanic | **violation**: unreachable!() in set_len |
| `driver` | TypeOK, NoSleepPastDeadline, TimersFire, AcceptEventually | pass: a blocked driver never sleeps past a registered timer, every timer fires, and every connection queued at a registered listener is eventually accepted |

`try_into_std` succeeding while the state is still Writing (after the write closure has returned) is listed as a hazard and not judged by any run. Whether such a write is still "in flight" is a matter of reading spec.md S3.

A further panic is listed as a hazard: `into_std` after a dropped `sync_all` future. Its doc promises to complete in-flight operations, but the closure still holds an `Arc` clone, so the `expect` fails. A dropped `metadata` or `set_permissions` future does the same. This is why the `file` run, which drops `sync_all` futures, does not check NoPanic; the `file_errors` run, which does, drops no futures, so no run checks this panic.

The findings in PROJECT.json give the trace behind each violation and the source line. Every property of a passing run has a mutant in PROJECT.json, a plausible bug in the mapped code, and TLC finds it violated.

### Bounds

- **Sleeper.** Three workers and one external waker. Three workers is the smallest number where two can search at once while a third parks, and where every worker parks so that the last-parker flag is exercised. Workers are symmetric, and TLC uses that symmetry.
- **Async file.** The file starts with two bytes. Reads use capacities 1 and 2, with `buf_size_limit` 1, so a write of two bytes is cut short; the main run can raise it to 2 with `set_buffer_size_limit`. Read-ahead arises from a dropped read whose job is collected by another operation. The seeks are Start 0, Current +1 and End 0. `set_len` extends to 4 bytes. The main run allows five operations.
  - These bounds reach every arm of every poll function, and both the Reading and Writing hand-back in each operation.
  - The violation runs use their own smallest bounds: a Current -1 seek, a shrinking set_len of 1, or a buffer limit of 2.

- **Driver.** Two workers, so that one can hold the mutex while the other waits. One timer entry due at 2 and a clock of 3 ticks, so that the registration can land before, during and after time.run() computes a deadline, including while the other worker is blocked with no deadline. One listener with two connections (`MaxConn = 2`): the second connection's edge is what can arrive between a WouldBlock and the clear, and between the readiness check and the waker install. One reregister (`MaxRereg = 1`), so that an extra edge can land while the task is between its steps. At most three dispatches reach the listener, so `TickMod = 4` never wraps; with `MaxRereg = 2` the tick does wrap, and TLC finds AcceptEventually violated (not a kept run: the tick and its width are in ScheduleIO, which is not in the tree, so the wrap is a property of the spec-modelled part only). The run has about 512,000 distinct states and takes two minutes. A second timer entry multiplies the states past what fits beside the listener (1.4 million states unfinished in five minutes); its ordering cases are the ones one entry meets against a worker already blocked. No symmetry, because the run checks liveness.

### Fairness

The AsyncFile specification assumes weak fairness of the following:
- `TaskPoll`: a task whose JoinHandle became ready is woken and polled again.
- `RunJob`, `RunAux` and `RunDetached`: the blocking pool runs every spawned closure to completion.

The Driver specification assumes the following:
- Weak fairness of each worker's driver steps: spec.md 4.4 has the last parker drive the reactor.
- Weak fairness of `TimerRegisterWake`: a thread inside `timer_register` finishes the call.
- Weak fairness of each listener's `TaskStep`: the runtime polls a woken task, and a task that is polling runs on.
- Strong fairness of `Tick`. Real time never stops, but the model disables `Tick` for the instant between `time.run()` and `epoll_wait`, so weak fairness would let a loop of `run_once` calls freeze the clock.

Registering, reregistering, cancelling, connecting, deregistering and `Wake` carry no fairness. The Driver run sets `CHECK_DEADLOCK FALSE`: once the timer has fired, the clock is at its bound and the listener is done, a worker blocked in `drive(None)` stays blocked, as the real driver would with nothing to wait for.

Starting, dropping and cancelling operations are the task's choice and carry no fairness. AsyncFile runs set `CHECK_DEADLOCK FALSE` because the task really stops after `MaxOps` operations. A task stuck with a pending operation is caught by `Progress` instead. The Sleeper runs check deadlock, and check no liveness.

## 4. What is not modelled, and why

- `metadata` and `set_permissions` are modelled as `CloneOpStart`/`CloneOpAwait`: no lock, no flush, and a closure holding an Arc clone. `try_clone` is not modelled: it creates a second File over a dup'ed descriptor, and the model has one File.
- Set_len and sync errors are not modelled. A failed seek-back inside the write closure (`async_file.rs` 616) is not given an outcome either. It can fail for a descriptor whose offset another handle of the same open file moved, or for a non-seekable file (ESPIPE); the model has one File over a regular file, and what the next read returns after it depends on `FileBuf`, which is not in the tree. It is listed as a hazard.
- Socket and core-affinity code is single syscalls with no state. `into_linger`/`from_linger` in `tcp/socket.rs` is a straight-line conversion; its one edge, the cast of `as_secs()` (u64) to `c_int`, is listed as a hazard with the values at which it wraps (2^31 s turns negative, 2^32 s becomes 0). It would be checked by a run of its own (plan item 5).
- The lost wakeup at `sleeper.rs:40` (`pop_worker` returns None because a worker is searching, and that worker then parks) depends on whether the worker loop re-checks the queues between `dec_searching_num` and `push_worker`. That loop is in `executor/worker.rs`, which is not in the tree, and spec.md 4.4 does not say; a model of it would decide the answer rather than check it. Of the listener, `try_clone`, `local_addr`, `take_error` and the raw-fd conversions are not modelled: they only read or duplicate the descriptor.
- `set_buffer_size_limit(0)` makes every later read return `Ok(0)` as if at end of file; `BufLimits = {0}` makes ReadSeesFile fail at once. It is a hazard in PROJECT.json, not a run.
- The reactor, registry, ScheduleIO, timer wheel, worker loop and FileBuf are not in `src/`. The Driver module models only what the driver glue and the listener rely on from them: no registry slab generations, no write interest, no error or hang-up bits.
- `Handle::get_register_count`, `get_ready_count` and `start_time` only read.

## 5. Plan

1. **Done:** Sleeper with its refinement of SleeperRecord, and AsyncFile with read, write, seek, flush, set_len, sync_all, sync_data, set_buffer_size_limit, metadata, set_permissions, into_std and try_into_std.
2. **WorkerPool.** Compose Sleeper with a spec_modelled worker loop (spec.md 4.4: search, park, wake), a task queue and external wakers. Check no lost wakeup as liveness (`pop_worker`'s early return on `searching > 0`) under weak fairness of worker steps. Check that at most one parked worker drives the reactor.
3. **Done: Driver.** `run`/`run_once` with `timer_register`, `Handle::wake` and the listener's register/reregister/deregister, checked by the `driver` run.
4. **Done: registration race** (spec.md S6), in Driver with the Unix listener, checked by AcceptEventually.
5. **Linger.** `into_linger`/`from_linger` as pure operators with the `c_int` width as a constant, checked against the reference round trip `from_linger(into_linger(d)) = d` for bounded durations.
6. Later in AsyncFile: an `IoErrors` outcome for set_len and sync_all. The `metadata` and `set_permissions` futures are done.
7. WorkerPool and Linger each need a TLC run of their own beside the twelve above.
