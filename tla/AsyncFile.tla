------------------------------ MODULE AsyncFile ------------------------------
(***************************************************************************)
(* The asynchronous file, ylong_runtime/src/fs/async_file.rs.              *)
(*                                                                         *)
(* One task uses one `File`.  Its operations are polled: each `Poll...`    *)
(* action is one call of poll_read / poll_write / poll_seek / poll_flush,  *)
(* running the whole `loop` of that function until it returns Ready or     *)
(* Pending.  A blocking job spawned with spawn_blocking runs on another    *)
(* thread (`RunJob`, `RunAux`) and is the only thing that touches the OS   *)
(* file (`disk`, `pos`).  The task may drop a pending future at any        *)
(* Pending point (`Cancel`), as select!/timeout do.                        *)
(*                                                                         *)
(* Data is abstracted to short sequences of byte values; an io::Error is   *)
(* one ErrorKind.  FileBuf (fs/file_buf.rs, not in this source tree) is    *)
(* modelled as the sequence of bytes it holds: the unread read-ahead of a  *)
(* read, or the bytes a write job is to write.                             *)
(*                                                                         *)
(* Ghost state, not in the code: `view` and `upos` are the file contents   *)
(* and the cursor the task must observe if the File behaved as a          *)
(* std::fs::File (spec.md 5 "operations are linearized"), `known` says     *)
(* whether that expectation is defined, `out` is the result of the last    *)
(* completed operation, and `lost` says a write job failed and no error   *)
(* has been returned to the task since.                                   *)
(***************************************************************************)
EXTENDS Naturals, Integers, Sequences, FiniteSets

CONSTANTS
  Bytes,        \* byte values the task writes (0 is the fill byte of set_len)
  ReadSizes,    \* ReadBuf capacities the task reads with
  WriteData,    \* byte sequences the task writes
  Seeks,        \* SeekFrom values: [whence |-> "Start"|"Current"|"End", off |-> Int]
  SetLenSizes,  \* sizes passed to set_len
  BufLimit,     \* File.buf_size_limit when the File is created (DEFAULT_BUF_LIMIT)
  BufLimits,    \* limits the task passes to set_buffer_size_limit
  InitialDisk,  \* contents of the file when it is opened
  Cancellable,  \* operations whose pending future the task may drop
  IoErrors,     \* whether a blocking read or write may fail
  MaxOps,       \* number of operations the task starts
  None          \* model value: Option::None

ASSUME 0 \notin Bytes

Ops == {"read", "write", "seek", "flush", "set_len", "sync_all", "sync_data", "metadata",
        "set_permissions", "into_std", "try_into_std"}

VARIABLES
  disk, pos,            \* the std::fs::File: contents and cursor
  state,                \* FileInner.state: "Idle", "Reading", "Writing", "Seeking"
  fbuf,                 \* the Option<FileBuf> of FileState::Idle
  job,                  \* the job of Reading/Writing/Seeking (its JoinHandle and closure)
  aux,                  \* the job set_len (spawn_blocking) or sync_all (async_op) is awaiting
  detached,             \* jobs of dropped set_len/sync_all futures, still running
  write_err,            \* FileInner.write_err: None or "Err"
  idx,                  \* FileInner.idx
  call,                 \* the task's pending future: [op, arg, phase], or None
  owned,                \* the task still owns the File
  panicked,             \* an unwrap / unreachable! / expect failed
  opsLeft,
  limit,                \* File.buf_size_limit
  view, upos, known, out, lost   \* ghost

vars == <<disk, pos, state, fbuf, job, aux, detached, write_err, idx, call, owned,
          panicked, opsLeft, limit, view, upos, known, out, lost>>

(***************************************************************************)
(* The OS file.                                                            *)
(***************************************************************************)
MinOf(a, b) == IF a < b THEN a ELSE b
MaxOf(a, b) == IF a < b THEN b ELSE a

\* Bytes [p+1 .. p+n] of s, clipped to the end of s.
Slice(s, p, n) == IF p >= Len(s) THEN <<>> ELSE SubSeq(s, p + 1, MinOf(p + n, Len(s)))

\* write(2) of d at offset p: overwrites, extends, and fills a gap with 0.
WriteAt(s, p, d) ==
  [i \in 1 .. MaxOf(Len(s), p + Len(d)) |->
     IF p < i /\ i <= p + Len(d) THEN d[i - p]
     ELSE IF i <= Len(s) THEN s[i] ELSE 0]

\* ftruncate(2): File::set_len.
Resize(s, n) == [i \in 1 .. n |-> IF i <= Len(s) THEN s[i] ELSE 0]

\* lseek(2): the new cursor for a SeekFrom, or -1 for a negative result (EINVAL).
SeekTarget(sk, cur, len) ==
  LET t == CASE sk.whence = "Start"   -> sk.off
             [] sk.whence = "Current" -> cur + sk.off
             [] sk.whence = "End"     -> len + sk.off
  IN  IF t < 0 THEN -1 ELSE t

(***************************************************************************)
(* Blocking jobs.  A job record holds the closure's inputs, whether it has *)
(* run (`done`), and the (FileBuf, io::Result) it returns.                 *)
(***************************************************************************)
NoJob == [kind |-> "none", done |-> TRUE, ok |-> TRUE, buf |-> <<>>, val |-> 0,
          n |-> 0, unread |-> 0, data |-> <<>>, seek |-> [whence |-> "Start", off |-> 0], size |-> 0]

NewJob(kind) == [NoJob EXCEPT !.kind = kind, !.done = FALSE]

\* poll_read's closure: r_buf.read(&mut &*file) into the capacity reserved
\* by r_buf.reserve(buf.remaining(), buf_size_limit).
ReadJob(n) == [NewJob("read") EXCEPT !.n = MinOf(n, limit)]

\* A write job that seeks back one byte too few.
WriteJobOffByOne(unread, data) ==
  [NewJob("write") EXCEPT !.unread = unread - 1, !.data = data]

\* A write job that does not seek back over the dropped read-ahead.
WriteJobIgnoresUnread(unread, data) == [NewJob("write") EXCEPT !.unread = 0, !.data = data]

\* poll_write's closure, given the unread count and the appended bytes.
WriteJob(unread, data) == [NewJob("write") EXCEPT !.unread = unread, !.data = data]

\* poll_seek's closure: (&*file).seek(pos).
SeekJob(sk) == [NewJob("seek") EXCEPT !.seek = sk]

\* The Arc<SyncFile> count: the File's own plus one per closure not yet returned.
ArcCount == 1 + (IF job.done THEN 0 ELSE 1) + (IF aux.done THEN 0 ELSE 1) + Len(detached)

(***************************************************************************)
(* The completion half of the state machine: a finished job handed back    *)
(* through FileState::poll, `state` restored to Idle(Some(buf)).           *)
(***************************************************************************)
JobFinished == state # "Idle" /\ job.done

\* A hand-back that leaves Idle(None) instead of Idle(Some(file_buf)).
RestoreIdleDropsBuf == /\ state' = "Idle"
                       /\ fbuf' = None
                       /\ job' = NoJob

\* FileState::poll: Idle(Some(file_buf)) with the buffer the job returned.
RestoreIdle == /\ state' = "Idle"
               /\ fbuf' = job.buf
               /\ job' = NoJob

(***************************************************************************)
(* Task-side bookkeeping.                                                  *)
(***************************************************************************)
Finish(res) == /\ call' = None
               /\ out' = res

Pending == UNCHANGED <<limit, call, out>>

Ret(op, ok, val, data) == [op |-> op, ok |-> ok, val |-> val, data |-> data]

NoGhost == UNCHANGED <<limit, view, upos, known, lost>>

\* A failed unwrap, unreachable! or expect: the task unwinds and drops the File.
Panic == /\ panicked' = TRUE
         /\ owned' = FALSE
         /\ call' = None
         /\ UNCHANGED <<limit, disk, pos, state, fbuf, job, aux, detached, write_err, idx,
                        opsLeft, out, view, upos, known, lost>>

\* The task's future is still pending: it will be polled again.
Await(phase) == /\ call' = [call EXCEPT !.phase = phase]
                /\ UNCHANGED out

Polling(op) == call # None /\ call.op = op /\ call.phase = "run"

(***************************************************************************)
(* poll_read.                                                              *)
(***************************************************************************)
\* The Idle arm with buffer b: hand out unread bytes, or reserve and spawn a
\* read job and return Pending.
ReadFromIdle(b, n) ==
  IF Len(b) # 0
  THEN LET k == MinOf(n, Len(b))
       IN  /\ state' = "Idle"
           /\ fbuf' = SubSeq(b, k + 1, Len(b))
           /\ job' = NoJob
           /\ Finish(Ret("read", TRUE, k, SubSeq(b, 1, k)))
           /\ upos' = upos + k
  ELSE /\ state' = "Reading"
       /\ fbuf' = None
       /\ job' = ReadJob(n)
       /\ Await("run")
       /\ UNCHANGED upos

PollReadIdle ==
  /\ Polling("read")
  /\ state = "Idle"
  /\ IF fbuf = None
     THEN Panic
     ELSE /\ ReadFromIdle(fbuf, call.arg)
          /\ UNCHANGED <<limit, disk, pos, aux, detached, write_err, idx, owned, panicked,
                         opsLeft, view, known, lost>>

\* The Reading arm: append what the job read to the ReadBuf, keep the rest.
PollReadDone ==
  /\ Polling("read")
  /\ state = "Reading" /\ job.done
  /\ IF job.ok
     THEN LET k == MinOf(call.arg, Len(job.buf))
          IN  /\ fbuf' = SubSeq(job.buf, k + 1, Len(job.buf))
              /\ Finish(Ret("read", TRUE, k, SubSeq(job.buf, 1, k)))
              /\ upos' = upos + k
     ELSE /\ fbuf' = job.buf
          /\ Finish(Ret("read", FALSE, 0, <<>>))
          /\ UNCHANGED upos
  /\ state' = "Idle"
  /\ job' = NoJob
  /\ UNCHANGED <<limit, disk, pos, aux, detached, write_err, idx, owned, panicked,
                 opsLeft, view, known, lost>>

\* The Writing and Seeking arms: finish the job (saving a write error for
\* the next write, taking a seek's new position), then go round the loop.
PollReadOther ==
  /\ Polling("read")
  /\ state \in {"Writing", "Seeking"} /\ job.done
  /\ write_err' = IF state = "Writing" /\ ~job.ok THEN "Err" ELSE write_err
  /\ idx' = IF state = "Seeking" /\ job.ok THEN job.val ELSE idx
  /\ ReadFromIdle(job.buf, call.arg)
  /\ UNCHANGED <<limit, disk, pos, aux, detached, owned, panicked, opsLeft, view, known, lost>>

(***************************************************************************)
(* poll_write.                                                             *)
(***************************************************************************)
\* The Idle arm with buffer b: drop the unread bytes, append at most
\* buf_size_limit bytes, spawn the job that seeks back over the unread
\* bytes and writes, and return Ready(Ok(n)) at once.
WriteFromIdle(b, d) ==
  LET n == MinOf(Len(d), limit)
      w == SubSeq(d, 1, n)
  IN  /\ state' = "Writing"
      /\ fbuf' = None
      /\ job' = WriteJob(Len(b), w)
      /\ Finish(Ret("write", TRUE, n, <<>>))
      /\ view' = WriteAt(view, upos, w)
      /\ upos' = upos + n

\* A saved write error is returned before anything else.
PollWriteErr ==
  /\ Polling("write")
  /\ write_err # None
  /\ Finish(Ret("write", FALSE, 0, <<>>))
  /\ lost' = FALSE
  /\ UNCHANGED <<limit, disk, pos, state, fbuf, job, aux, detached, write_err, idx, owned,
                 panicked, opsLeft, view, upos, known>>

PollWriteIdle ==
  /\ Polling("write")
  /\ write_err = None
  /\ state = "Idle"
  /\ IF fbuf = None
     THEN Panic
     ELSE /\ WriteFromIdle(fbuf, call.arg)
          /\ UNCHANGED <<limit, disk, pos, aux, detached, write_err, idx, owned, panicked,
                         opsLeft, known, lost>>

\* Any other arm: FileState::poll restores Idle; a failed write job is
\* returned as this write's error, anything else goes round the loop.
PollWriteDone ==
  /\ Polling("write")
  /\ write_err = None
  /\ JobFinished
  /\ IF state = "Writing" /\ ~job.ok
     THEN /\ RestoreIdle
          /\ Finish(Ret("write", FALSE, 0, <<>>))
          /\ lost' = FALSE
          /\ UNCHANGED <<limit, view, upos>>
     ELSE /\ WriteFromIdle(job.buf, call.arg)
          /\ UNCHANGED lost
  /\ UNCHANGED <<limit, disk, pos, aux, detached, write_err, idx, owned, panicked, opsLeft, known>>

(***************************************************************************)
(* poll_seek.                                                              *)
(***************************************************************************)
\* A seek that drops the read-ahead without moving a relative seek back.
SeekFromIdleNoAdjust(b, sk) == /\ state' = "Seeking"
                               /\ fbuf' = None
                               /\ job' = SeekJob(sk)
                               /\ Await("run")

\* The Idle arm with buffer b: drop the unread bytes, move a relative seek
\* back by their number, spawn the seek job and return Pending.
SeekFromIdle(b, sk) ==
  LET unread == Len(b)
      target == IF unread # 0 /\ sk.whence = "Current"
                THEN [sk EXCEPT !.off = @ - unread] ELSE sk
  IN  /\ state' = "Seeking"
      /\ fbuf' = None
      /\ job' = SeekJob(target)
      /\ Await("run")

PollSeekIdle ==
  /\ Polling("seek")
  /\ state = "Idle"
  /\ IF fbuf = None
     THEN Panic
     ELSE /\ SeekFromIdle(fbuf, call.arg)
          /\ UNCHANGED <<limit, disk, pos, aux, detached, write_err, idx, owned, panicked,
                         opsLeft, view, upos, known, lost>>

\* Any other arm: a finished Seeking job is this seek's result; a finished
\* read leaves its bytes as unread, a failed write saves its error, and the
\* loop goes round to the Idle arm.
PollSeekDone ==
  /\ Polling("seek")
  /\ JobFinished
  /\ IF state = "Seeking"
     THEN /\ RestoreIdle
          /\ idx' = IF job.ok THEN job.val ELSE idx
          /\ Finish(Ret("seek", job.ok, job.val, <<>>))
          /\ upos' = IF job.ok THEN job.val ELSE upos
          /\ known' = (known \/ job.ok)
          /\ UNCHANGED write_err
     ELSE /\ write_err' = IF state = "Writing" /\ ~job.ok THEN "Err" ELSE write_err
          /\ SeekFromIdle(job.buf, call.arg)
          /\ UNCHANGED <<limit, idx, upos, known>>
  /\ UNCHANGED <<limit, disk, pos, aux, detached, owned, panicked, opsLeft, view, lost>>

(***************************************************************************)
(* poll_flush (FileInner::poll_flush).                                     *)
(***************************************************************************)
PollFlushErr ==
  /\ Polling("flush")
  /\ write_err # None
  /\ Finish(Ret("flush", FALSE, 0, <<>>))
  /\ lost' = FALSE
  /\ UNCHANGED <<limit, disk, pos, state, fbuf, job, aux, detached, write_err, idx, owned,
                 panicked, opsLeft, view, upos, known>>

PollFlushIdle ==
  /\ Polling("flush")
  /\ write_err = None
  /\ state = "Idle"
  /\ Finish(Ret("flush", TRUE, 0, <<>>))
  /\ UNCHANGED <<limit, disk, pos, state, fbuf, job, aux, detached, write_err, idx, owned,
                 panicked, opsLeft, view, upos, known, lost>>

\* A finished job is handed back; only a write job's error is reported.
PollFlushDone ==
  /\ Polling("flush")
  /\ write_err = None
  /\ JobFinished
  /\ RestoreIdle
  /\ IF state = "Writing" /\ ~job.ok
     THEN Finish(Ret("flush", FALSE, 0, <<>>)) /\ lost' = FALSE
     ELSE Finish(Ret("flush", TRUE, 0, <<>>)) /\ UNCHANGED lost
  /\ UNCHANGED <<limit, disk, pos, aux, detached, write_err, idx, owned, panicked,
                 opsLeft, view, upos, known>>

(***************************************************************************)
(* FileInner::flush, the async flush set_len, sync_all and into_std start   *)
(* with: poll_flush until Ready, and save an error in write_err.  It is    *)
(* Ready at once when write_err is set, with the job still in `state`.     *)
(***************************************************************************)
\* A flush that waits for Idle instead of handing a finished job back.
FlushReadyIdleOnly == write_err # None \/ state = "Idle"

FlushReady == write_err # None \/ state = "Idle" \/ job.done

FlushHandsBack == write_err = None /\ state # "Idle"

\* FileInner::flush without saving the error poll_flush returned.
AfterFlushDropsErr ==
  IF FlushHandsBack
  THEN [state |-> "Idle", fbuf |-> job.buf, job |-> NoJob, write_err |-> write_err]
  ELSE [state |-> state, fbuf |-> fbuf, job |-> job, write_err |-> write_err]

\* [state, fbuf, job, write_err] once the flush is Ready.
AfterFlush ==
  IF FlushHandsBack
  THEN [state |-> "Idle", fbuf |-> job.buf, job |-> NoJob,
        write_err |-> IF state = "Writing" /\ ~job.ok THEN "Err" ELSE write_err]
  ELSE [state |-> state, fbuf |-> fbuf, job |-> job, write_err |-> write_err]

\* set_len's closure: with no unread bytes, seek by drop_unread() (zero)
\* and set_len; otherwise only set_len.  The buffer comes back as it went.
SetLenJob(b, size) == [NewJob("set_len") EXCEPT !.buf = b, !.size = size]

SyncJob == NewJob("sync")

\* set_len: lock, flush, take the Idle buffer (unreachable! unless Idle,
\* unwrap on Some), spawn the blocking set_len and await it.
SetLenStart ==
  /\ Polling("set_len")
  /\ FlushReady
  /\ LET f == AfterFlush
     IN  IF f.state # "Idle" \/ f.fbuf = None
         THEN Panic
         ELSE /\ state' = "Idle"
              /\ fbuf' = None
              /\ job' = f.job
              /\ write_err' = f.write_err
              /\ aux' = SetLenJob(f.fbuf, call.arg)
              /\ Await("await")
              /\ UNCHANGED <<limit, disk, pos, detached, idx, owned, panicked, opsLeft,
                             view, upos, known, lost>>

\* set_len, after the job: Idle(Some(buf)) and idx set to the job's 0.
SetLenAwait ==
  /\ call # None /\ call.op = "set_len" /\ call.phase = "await"
  /\ aux.done
  /\ state' = "Idle"
  /\ fbuf' = aux.buf
  /\ aux' = NoJob
  /\ idx' = 0
  /\ Finish(Ret("set_len", TRUE, 0, <<>>))
  /\ view' = Resize(view, call.arg)
  /\ UNCHANGED <<limit, disk, pos, job, detached, write_err, owned, panicked, opsLeft,
                 upos, known, lost>>

\* sync_all / sync_data: lock, flush, then await the blocking sync.
SyncStart(op) ==
  /\ Polling(op)
  /\ FlushReady
  /\ LET f == AfterFlush
     IN  /\ state' = f.state
         /\ fbuf' = f.fbuf
         /\ job' = f.job
         /\ write_err' = f.write_err
  /\ aux' = SyncJob
  /\ Await("await")
  /\ UNCHANGED <<limit, disk, pos, detached, idx, owned, panicked, opsLeft, view, upos, known, lost>>

SyncAllStart == SyncStart("sync_all")

SyncDataStart == SyncStart("sync_data")

SyncAllAwait ==
  /\ call # None /\ call.op \in {"sync_all", "sync_data"} /\ call.phase = "await"
  /\ aux.done
  /\ aux' = NoJob
  /\ Finish(Ret(call.op, TRUE, 0, <<>>))
  /\ UNCHANGED <<limit, disk, pos, state, fbuf, job, detached, write_err, idx, owned, panicked,
                 opsLeft, view, upos, known, lost>>

\* metadata / set_permissions: no lock and no flush; clone the Arc into an
\* async_op closure and await it.
CloneOpStart(op) ==
  /\ Polling(op)
  /\ aux' = NewJob("stat")
  /\ Await("await")
  /\ UNCHANGED <<limit, disk, pos, state, fbuf, job, detached, write_err, idx, owned, panicked,
                 opsLeft, view, upos, known, lost>>

MetadataStart == CloneOpStart("metadata")

SetPermissionsStart == CloneOpStart("set_permissions")

CloneOpAwait ==
  /\ call # None /\ call.op \in {"metadata", "set_permissions"} /\ call.phase = "await"
  /\ aux.done
  /\ aux' = NoJob
  /\ Finish(Ret(call.op, TRUE, 0, <<>>))
  /\ UNCHANGED <<limit, disk, pos, state, fbuf, job, detached, write_err, idx, owned, panicked,
                 opsLeft, view, upos, known, lost>>

(***************************************************************************)
(* into_std / try_into_std.                                                *)
(***************************************************************************)
\* into_std: flush, then Arc::try_unwrap(..).expect(..): it panics if a
\* blocking closure still holds a clone.
IntoStd ==
  /\ Polling("into_std")
  /\ FlushReady
  /\ LET f == AfterFlush
         count == 1 + (IF f.job.done THEN 0 ELSE 1) + (IF aux.done THEN 0 ELSE 1)
                    + Len(detached)
     IN  IF count > 1
         THEN Panic
         ELSE /\ state' = f.state
              /\ fbuf' = f.fbuf
              /\ job' = f.job
              /\ write_err' = f.write_err
              /\ owned' = FALSE
              /\ Finish(Ret("into_std", TRUE, 0, <<>>))
              /\ UNCHANGED <<limit, disk, pos, aux, detached, idx, panicked, opsLeft,
                             view, upos, known, lost>>

\* try_into_std: Arc::try_unwrap without waiting; on Err the File is returned.
TryIntoStd ==
  /\ Polling("try_into_std")
  /\ IF ArcCount = 1
     THEN owned' = FALSE /\ Finish(Ret("try_into_std", TRUE, 0, <<>>))
     ELSE UNCHANGED owned /\ Finish(Ret("try_into_std", FALSE, 0, <<>>))
  /\ UNCHANGED <<limit, disk, pos, state, fbuf, job, aux, detached, write_err, idx, panicked,
                 opsLeft, view, upos, known, lost>>

(***************************************************************************)
(* The blocking pool: a spawned closure runs to completion on its thread.  *)
(***************************************************************************)
\* poll_read's closure: read up to n bytes at the cursor; on error the
\* buffer comes back empty and the cursor stays.
RunRead ==
  \/ LET data == Slice(disk, pos, job.n)
     IN  /\ pos' = pos + Len(data)
         /\ job' = [job EXCEPT !.done = TRUE, !.buf = data]
         /\ UNCHANGED lost
  \/ /\ IoErrors
     /\ job' = [job EXCEPT !.done = TRUE, !.ok = FALSE]
     /\ UNCHANGED <<limit, pos, lost>>

\* poll_write's closure: seek back over the unread bytes, then write_all;
\* the buffer comes back cleared either way.
RunWrite ==
  LET back == pos - job.unread
  IN  \/ /\ disk' = WriteAt(disk, back, job.data)
         /\ pos' = back + Len(job.data)
         /\ job' = [job EXCEPT !.done = TRUE]
         /\ UNCHANGED lost
      \/ /\ IoErrors
         /\ pos' = back
         /\ job' = [job EXCEPT !.done = TRUE, !.ok = FALSE]
         /\ lost' = TRUE
         /\ UNCHANGED disk

\* poll_seek's closure: lseek; a negative target is EINVAL.
RunSeek ==
  LET t == SeekTarget(job.seek, pos, Len(disk))
  IN  /\ pos' = IF t < 0 THEN pos ELSE t
      /\ job' = [job EXCEPT !.done = TRUE, !.ok = (t >= 0), !.val = MaxOf(t, 0)]
      /\ UNCHANGED lost

RunJob ==
  /\ ~job.done
  /\ CASE job.kind = "read"  -> RunRead /\ UNCHANGED disk
       [] job.kind = "write" -> RunWrite
       [] job.kind = "seek"  -> RunSeek /\ UNCHANGED disk
  /\ UNCHANGED <<limit, state, fbuf, aux, detached, write_err, idx, call, owned, panicked,
                 opsLeft, view, upos, known, out>>

\* The closure of set_len (File::set_len, the cursor untouched) or sync_all.
RunAuxJob(a) == [a EXCEPT !.done = TRUE]

ResizeBy(a) == IF a.kind = "set_len" THEN Resize(disk, a.size) ELSE disk

RunAux ==
  /\ ~aux.done
  /\ aux' = RunAuxJob(aux)
  /\ disk' = ResizeBy(aux)
  /\ UNCHANGED <<limit, pos, state, fbuf, job, detached, write_err, idx, call, owned, panicked,
                 opsLeft, view, upos, known, out, lost>>

RunDetached ==
  /\ detached # <<>>
  /\ disk' = ResizeBy(Head(detached))
  /\ detached' = Tail(detached)
  /\ UNCHANGED <<limit, pos, state, fbuf, job, aux, write_err, idx, call, owned, panicked,
                 opsLeft, view, upos, known, out, lost>>

(***************************************************************************)
(* The task.                                                               *)
(***************************************************************************)
Args(op) == CASE op = "read"    -> ReadSizes
              [] op = "write"   -> WriteData
              [] op = "seek"    -> Seeks
              [] op = "set_len" -> SetLenSizes
              [] OTHER          -> {0}

\* The task starts an operation on the File it owns.
Begin ==
  /\ call = None /\ owned /\ opsLeft > 0
  /\ \E o \in Ops : \E a \in Args(o) : call' = [op |-> o, arg |-> a, phase |-> "run"]
  /\ opsLeft' = opsLeft - 1
  /\ UNCHANGED <<limit, disk, pos, state, fbuf, job, aux, detached, write_err, idx, owned,
                 panicked, out, view, upos, known, lost>>

\* File::set_buffer_size_limit(&mut self): only between operations (no
\* future borrows the File); it applies to the next job spawned.
SetBufferSizeLimit ==
  /\ call = None /\ owned /\ opsLeft > 0
  /\ \E n \in BufLimits : limit' = n
  /\ opsLeft' = opsLeft - 1
  /\ UNCHANGED <<disk, pos, state, fbuf, job, aux, detached, write_err, idx, call, owned,
                 panicked, out, view, upos, known, lost>>

\* The task drops a pending future.  A spawned job goes on running; set_len's
\* buffer stays taken; a dropped seek's job will move the cursor later.
Cancel ==
  /\ call # None /\ call.op \in Cancellable
  /\ call' = None
  /\ IF call.phase = "await"
     THEN detached' = Append(detached, aux) /\ aux' = NoJob
     ELSE UNCHANGED <<limit, detached, aux>>
  /\ known' = (known /\ ~(call.op = "seek" /\ state = "Seeking") /\ ~(call.op = "set_len" /\ call.phase = "await"))
  /\ UNCHANGED <<limit, disk, pos, state, fbuf, job, write_err, idx, owned, panicked,
                 opsLeft, out, view, upos, lost>>

\* The task drops the File; in-flight jobs are detached.
DropFile ==
  /\ call = None /\ owned
  /\ owned' = FALSE
  /\ UNCHANGED <<limit, disk, pos, state, fbuf, job, aux, detached, write_err, idx, call,
                 panicked, opsLeft, out, view, upos, known, lost>>

(***************************************************************************)
(* Specification.                                                          *)
(***************************************************************************)
\* File::new on a file opened with contents InitialDisk.
Init ==
  /\ disk = InitialDisk /\ pos = 0
  /\ state = "Idle" /\ fbuf = <<>> /\ job = NoJob /\ aux = NoJob /\ detached = <<>>
  /\ write_err = None /\ idx = 0
  /\ call = None /\ owned = TRUE /\ panicked = FALSE /\ opsLeft = MaxOps
  /\ limit = BufLimit
  /\ view = InitialDisk /\ upos = 0 /\ known = TRUE
  /\ out = Ret("none", TRUE, 0, <<>>) /\ lost = FALSE

TaskPoll ==
  \/ PollReadIdle \/ PollReadDone \/ PollReadOther
  \/ PollWriteErr \/ PollWriteIdle \/ PollWriteDone
  \/ PollSeekIdle \/ PollSeekDone
  \/ PollFlushErr \/ PollFlushIdle \/ PollFlushDone
  \/ SetLenStart \/ SetLenAwait \/ SyncAllStart \/ SyncDataStart \/ SyncAllAwait
  \/ MetadataStart \/ SetPermissionsStart \/ CloneOpAwait
  \/ IntoStd \/ TryIntoStd

Next ==
  \/ TaskPoll
  \/ RunJob \/ RunAux \/ RunDetached
  \/ Begin \/ SetBufferSizeLimit \/ Cancel \/ DropFile

\* The blocking pool runs every spawned closure, and a task whose JoinHandle
\* became ready is woken and polled again; starting, dropping and cancelling
\* are the task's choice.
Fairness == WF_vars(TaskPoll) /\ WF_vars(RunJob) /\ WF_vars(RunAux) /\ WF_vars(RunDetached)

Spec == Init /\ [][Next]_vars /\ Fairness

(***************************************************************************)
(* Properties.                                                             *)
(***************************************************************************)
Content == Seq(Bytes \cup {0})

JobType == [kind : {"none", "read", "write", "seek", "set_len", "sync", "stat"}, done : BOOLEAN,
            ok : BOOLEAN, buf : Content, val : Nat, n : Nat, unread : Nat, data : Content,
            seek : [whence : {"Start", "Current", "End"}, off : Int], size : Nat]

TypeOK ==
  /\ disk \in Content /\ pos \in Nat
  /\ state \in {"Idle", "Reading", "Writing", "Seeking"}
  /\ fbuf \in Content \cup {None}
  /\ job \in JobType /\ aux \in JobType /\ detached \in Seq(JobType)
  /\ write_err \in {None, "Err"} /\ idx \in Nat
  /\ call = None \/ (call.op \in Ops /\ call.phase \in {"run", "await"})
  /\ owned \in BOOLEAN /\ panicked \in BOOLEAN /\ opsLeft \in 0 .. MaxOps
  /\ limit \in {BufLimit} \cup BufLimits

\* A step of the task that completes operation `op` (Ready, not a panic).
Done(op) == TaskPoll /\ call # None /\ call.op = op /\ call' = None /\ ~panicked'

\* No operation of the File panics: no buf.take().unwrap() on Idle(None), no
\* unreachable!() in set_len, no failed expect in into_std.
NoPanic == ~panicked

\* spec.md 3: "in any Idle(buf) state the buf is Some" -- except inside
\* set_len, which holds the mutex while its blocking job owns the buffer.
IdleHoldsBuffer ==
  (owned /\ state = "Idle" /\ fbuf = None) =>
    (call # None /\ call.op = "set_len" /\ call.phase = "await")

\* Read-ahead, relative seeks adjusted by the unread count, writes that seek
\* back over it, and jobs finished by whichever operation polls next
\* together behave as one std::fs::File: a successful read returns the bytes
\* at the cursor the task has reached, and nothing only at end of file.
ReadSeesFile ==
  [][Done("read") /\ out'.ok /\ known =>
       LET d == out'.data
       IN  /\ d = Slice(view, upos, Len(d))
           /\ (d = <<>> => upos >= Len(view))]_vars

\* A seek returns the position its own SeekFrom names: SeekFrom::Start(k)
\* always returns k, and any seek returns the std::fs::File result when the
\* task's cursor is known.
SeekLandsOnTarget ==
  [][Done("seek") =>
       LET sk == call.arg
           t  == SeekTarget(sk, upos, Len(view))
       IN  /\ (out'.ok /\ sk.whence = "Start") => out'.val = sk.off
           /\ known => IF out'.ok THEN out'.val = t ELSE t = -1]_vars

\* spec.md 7: a failed write is re-surfaced by the next write or flush: a
\* flush does not return Ok while a write job's failure is unreported.
FlushReportsLostWrite ==
  [][Done("flush") /\ out'.ok => ~lost]_vars

\* sync_all "ensure[s] that all in-memory data reaches the filesystem": it
\* does not return Ok while a write job's failure is unreported.
SyncAllReportsLostWrite ==
  [][Done("sync_all") => ~lost]_vars

\* spec.md 7: the saved write error is "re-surfaced on the next write/flush
\* exactly once, then cleared": a write or flush fails only while a failed
\* write job is still unreported.
WriteErrorSurfacedOnce ==
  [][(Done("write") \/ Done("flush")) /\ ~out'.ok => lost]_vars

\* Every started operation finishes (or is dropped by the task): a blocking
\* job always completes and the task is always woken to collect it.
Progress == [](call # None => <>(call = None))

=============================================================================
