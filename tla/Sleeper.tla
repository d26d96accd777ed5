------------------------------- MODULE Sleeper -------------------------------
(***************************************************************************)
(* The worker-sleep coordinator, ylong_runtime/src/executor/sleeper.rs.    *)
(*                                                                         *)
(* State (struct Sleeper): the packed atomic word `record` (active worker  *)
(* count above bit 16, searching count in the low 16 bits), the            *)
(* mutex-protected `idle_list` of parked worker indices, and the mutex     *)
(* itself (`lock`).                                                        *)
(*                                                                         *)
(* Every atomic instruction and every critical section of the code is one  *)
(* step, so the lock-free loads of `record` interleave with the updates    *)
(* of other threads exactly as they can at run time.  A thread that is in  *)
(* the middle of an operation records where it is in `pc`; what a load    *)
(* returned is used at once, in the step that loads it.                    *)
(*                                                                         *)
(* The callers of Sleeper (the worker loop in executor/worker.rs and the   *)
(* task scheduler) are not in this source tree; their use of the API is    *)
(* the contract of spec.md 4.4, modelled by `mode`: a running worker may   *)
(* try to become searching or park itself, a searching worker leaves the   *)
(* searching state with dec_searching_num, a parked worker resumes once    *)
(* it no longer finds itself in the idle list, and any running thread      *)
(* (worker or external waker) may call pop_worker to unpark a worker.      *)
(***************************************************************************)
EXTENDS Naturals, Sequences, FiniteSets, SequencesExt

CONSTANTS
  Workers,   \* worker indices; Sleeper::new(num_workers)
  Wakers,    \* threads that are not workers and only schedule tasks
  NoThread   \* model value: nobody holds the idle_list mutex

ASSUME Workers # {} /\ Workers \cap Wakers = {} /\ NoThread \notin Workers \cup Wakers

Threads == Workers \cup Wakers

VARIABLES
  record,     \* Record(AtomicUsize): the packed word
  idle_list,  \* Mutex<Vec<usize>>: parked worker indices, pushed/popped at the end
  lock,       \* holder of the idle_list mutex, or NoThread
  pc,         \* per thread: the step of the Sleeper operation it is in
  mode,       \* per worker: "running", "searching" or "parked" (caller contract)
  driver      \* per worker: push_worker returned true (last to park) and it has not resumed

vars == <<record, idle_list, lock, pc, mode, driver>>

(***************************************************************************)
(* The packed word.                                                        *)
(***************************************************************************)
ACTIVE_WORKER_SHIFT == 16

\* 1 << ACTIVE_WORKER_SHIFT: one active worker in the packed word
ActiveUnit == 2^ACTIVE_WORKER_SHIFT

\* load_state: (union_num & ACTIVE_MASK) >> ACTIVE_WORKER_SHIFT
ActiveNum(word) == word \div ActiveUnit

\* load_state: union_num & SEARCHING_MASK
SearchingNum(word) == word % ActiveUnit

NumWorkers == Cardinality(Workers)

\* Record::new(num_workers - 1): one worker too few counted active.
RecordNewOffByOne(n) == (n - 1) * ActiveUnit

\* Record::new(active_num)
RecordNew(n) == n * ActiveUnit

\* Record::inc_searching_num: fetch_add(1)
IncSearchingNum(word) == word + 1

\* Record::dec_searching_num: fetch_sub(1)
DecSearchingNum(word) == word - 1

\* Record::dec_searching_num's result, from the value fetch_sub returned
IsLastSearcher(ret) == SearchingNum(ret) = 1

\* A lost increment: the word is left as it was.
IncActiveNumLost(word) == word

\* Record::inc_active_num: fetch_add(1 << ACTIVE_WORKER_SHIFT)
IncActiveNum(word) == word + ActiveUnit

\* dec_active_num done with fetch_sub(1), the searching field's decrement.
DecActiveNumWrongField(word) == word - 1

\* Record::dec_active_num: fetch_sub(1 << ACTIVE_WORKER_SHIFT)
DecActiveNum(word) == word - ActiveUnit

\* The last-parker test off by one.
IsLastParkerOffByOne(ret) == ActiveNum(ret) - 1 <= 1

\* Record::dec_active_num's result, from the value fetch_sub returned
IsLastParker(ret) == ActiveNum(ret) - 1 = 0

(***************************************************************************)
(* Operations.  `Call(t, from, to)` moves thread t between steps.          *)
(***************************************************************************)
Call(t, from, to) == /\ pc[t] = from
                     /\ pc' = [pc EXCEPT ![t] = to]

InIdleList(w) == \E i \in DOMAIN idle_list : idle_list[i] = w

\* pop_worker, first step: the lock-free load_state and its early return.
\* Callers: an external waker, or a worker that is not parked.
PopWorkerLoad(t) ==
  /\ IF t \in Workers THEN mode[t] # "parked" ELSE TRUE
  /\ LET a == ActiveNum(record)
         s == SearchingNum(record)
     IN  IF a >= NumWorkers \/ s > 0
         THEN UNCHANGED pc                      \* return None
         ELSE pc' = [pc EXCEPT ![t] = "pop_lock"]
  /\ pc[t] = "idle"
  /\ UNCHANGED <<record, idle_list, lock, mode, driver>>

\* pop_worker: take the mutex and pop the last index; None if the list is empty.
PopWorkerLock(t) ==
  /\ lock = NoThread
  /\ IF idle_list = <<>>
     THEN Call(t, "pop_lock", "idle") /\ UNCHANGED <<lock, idle_list>>
     ELSE /\ Call(t, "pop_lock", "pop_inc")
          /\ lock' = t
          /\ idle_list' = Front(idle_list)
  /\ UNCHANGED <<record, mode, driver>>

\* pop_worker: inc_active_num while still holding the mutex, then release it.
\* The popped worker is unparked; it resumes in `Resume`.
PopWorkerInc(t) ==
  /\ Call(t, "pop_inc", "idle")
  /\ record' = IncActiveNum(record)
  /\ lock' = NoThread
  /\ UNCHANGED <<idle_list, mode, driver>>

\* push_worker: take the mutex and push the caller's own index.
PushWorkerLock(w) ==
  /\ mode[w] = "running"
  /\ lock = NoThread
  /\ Call(w, "idle", "push_dec")
  /\ lock' = w
  /\ idle_list' = Append(idle_list, w)
  /\ UNCHANGED <<record, mode, driver>>

\* push_worker: dec_active_num under the mutex; the result says whether the
\* caller is the last worker going to sleep, which makes it the driver.
PushWorkerDec(w) ==
  /\ Call(w, "push_dec", "idle")
  /\ record' = DecActiveNum(record)
  /\ lock' = NoThread
  /\ mode' = [mode EXCEPT ![w] = "parked"]
  /\ driver' = [driver EXCEPT ![w] = IsLastParker(record)]
  /\ UNCHANGED <<idle_list>>

\* A parked worker that was unparked checks is_parked (under the mutex) and
\* resumes once its index is no longer in the idle list.
Resume(w) ==
  /\ mode[w] = "parked"
  /\ pc[w] = "idle"
  /\ lock = NoThread
  /\ ~InIdleList(w)
  /\ mode' = [mode EXCEPT ![w] = "running"]
  /\ driver' = [driver EXCEPT ![w] = FALSE]
  /\ UNCHANGED <<record, idle_list, lock, pc>>

\* try_inc_searching_num, first step: the lock-free load_state and the cap test.
TryIncSearchingLoad(w) ==
  /\ mode[w] = "running"
  /\ pc[w] = "idle"
  /\ LET a == ActiveNum(record)
         s == SearchingNum(record)
     IN  IF s * 2 < a
         THEN pc' = [pc EXCEPT ![w] = "inc_add"]
         ELSE UNCHANGED pc                      \* return false
  /\ UNCHANGED <<record, idle_list, lock, mode, driver>>

\* try_inc_searching_num: inc_searching_num on the word as it is now, and
\* return true.
TryIncSearchingAdd(w) ==
  /\ Call(w, "inc_add", "idle")
  /\ record' = IncSearchingNum(record)
  /\ mode' = [mode EXCEPT ![w] = "searching"]
  /\ UNCHANGED <<idle_list, lock, driver>>

\* dec_searching_num: one fetch_sub.
DecSearching(w) ==
  /\ mode[w] = "searching"
  /\ pc[w] = "idle"
  /\ record' = DecSearchingNum(record)
  /\ mode' = [mode EXCEPT ![w] = "running"]
  /\ UNCHANGED <<idle_list, lock, pc, driver>>

(***************************************************************************)
(* Specification.                                                          *)
(***************************************************************************)
\* Sleeper::new(num_workers): every worker active, none searching, none idle.
Init ==
  /\ record = RecordNew(NumWorkers)
  /\ idle_list = <<>>
  /\ lock = NoThread
  /\ pc = [t \in Threads |-> "idle"]
  /\ mode = [w \in Workers |-> "running"]
  /\ driver = [w \in Workers |-> FALSE]

Next ==
  \/ \E t \in Threads : PopWorkerLoad(t) \/ PopWorkerLock(t) \/ PopWorkerInc(t)
  \/ \E w \in Workers :
       \/ PushWorkerLock(w) \/ PushWorkerDec(w) \/ Resume(w)
       \/ TryIncSearchingLoad(w) \/ TryIncSearchingAdd(w) \/ DecSearching(w)

Spec == Init /\ [][Next]_vars

(***************************************************************************)
(* Properties.                                                             *)
(***************************************************************************)
TypeOK ==
  /\ record \in Nat
  /\ idle_list \in Seq(Workers)
  /\ lock \in Threads \cup {NoThread}
  /\ pc \in [Threads -> {"idle", "pop_lock", "pop_inc", "push_dec", "inc_add"}]
  /\ mode \in [Workers -> {"running", "searching", "parked"}]
  /\ driver \in [Workers -> BOOLEAN]

\* Whenever nobody is inside push_worker/pop_worker, the active count of the
\* packed word and the idle list account for every worker exactly once: the
\* list has no duplicates, holds only parked workers, and its length is
\* num_workers minus the active count.  A lost or doubled inc_active_num or
\* dec_active_num, or one done outside the mutex, breaks it.
IdleListSound ==
  lock = NoThread =>
    /\ ActiveNum(record) + Len(idle_list) = NumWorkers
    /\ Cardinality(ToSet(idle_list)) = Len(idle_list)
    /\ \A i \in DOMAIN idle_list : mode[idle_list[i]] = "parked"

\* At most one worker is "the driver": push_worker returns true (the runtime
\* is fully parked) to at most one worker until that worker resumes
\* (spec.md 4.4, 9 "At-most-one driver").
SingleDriver ==
  \A v, w \in Workers : driver[v] /\ driver[w] => v = w

\* The packed word, read through load_state's masks, behaves as the two
\* counters of SleeperRecord: every fetch_add/fetch_sub is one legal counter
\* step, so searching <= active <= num_workers always and a decrement never
\* borrows from the neighbouring field.
Abstract == INSTANCE SleeperRecord
              WITH active <- ActiveNum(record), searching <- SearchingNum(record)

RecordRefinesCounters == Abstract!Spec

\* spec.md 4.4: try_mark_searching increments searching only "if
\* searching * 2 < active", atomically.  Every increment done by
\* try_inc_searching_num must therefore start from a word that passes the cap.
SearchingCapRespected ==
  [][\A w \in Workers :
       TryIncSearchingAdd(w) => SearchingNum(record) * 2 < ActiveNum(record)]_vars

=============================================================================
