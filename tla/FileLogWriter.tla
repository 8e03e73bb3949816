---------------------------- MODULE FileLogWriter ----------------------------
(***************************************************************************)
(* FileLogWriter (src/base/io/log/FileLogWriter.cpp): any thread appends a *)
(* copy of a log line to m_buffers under m_buffersLock and signals the     *)
(* m_flushAsync handle; on the libuv loop, flush() takes the lock, issues  *)
(* one positional uv_fs_write per buffer at m_pos, advancing m_pos, and    *)
(* clears the buffers.  The file writes run on the libuv thread pool and   *)
(* complete in any order.                                                  *)
(*                                                                         *)
(* A line's bytes are abstracted to the line's number and its length.      *)
(* write() and writeLine() are one action: writeLine adds EndlLen bytes.  *)
(* A write() runs its critical section in one step; flush() spans several  *)
(* steps under the lock, which is what a writer must wait for.            *)
(***************************************************************************)
EXTENDS Integers, Sequences, SequencesExt

CONSTANTS
  MaxWrites,  \* bound on the number of write()/writeLine() calls
  Sizes,      \* sizes a caller passes
  EndlLen,    \* sizeof(m_endl) - 1: 1 on Linux, 2 on Windows
  InitSize    \* st_size of the file when open() stats it

ASSUME MaxWrites \in Nat /\ Sizes \subseteq Nat \ {0}
ASSUME EndlLen \in {1, 2} /\ InitSize \in Nat

VARIABLES
  file,      \* m_file: "closed" (-1, never opened), "open" or "failed" (-1)
  pos,       \* m_pos
  buffers,   \* m_buffers: <<[id, len]>> in the order they were pushed
  flushing,  \* the loop holds m_buffersLock inside flush()
  batch,     \* m_buffers.size() when flush()'s range-for began
  cursor,    \* buffers flush() has already issued in this call
  pending,   \* m_flushAsync has been sent and its callback not yet run
  log,       \* every line ever pushed, in push order (history)
  inflight,  \* uv_fs_write requests not yet completed: [id, off, len]
  done,      \* completed uv_fs_write requests
  alive      \* the FileLogWriter has not been destroyed

vars == <<file, pos, buffers, flushing, batch, cursor, pending, log, inflight, done,
          alive>>

Line == [id : 1 .. MaxWrites, len : Nat]

Init ==
  /\ file = "closed"
  /\ pos = 0
  /\ buffers = << >>
  /\ flushing = FALSE
  /\ batch = 0
  /\ cursor = 0
  /\ pending = FALSE
  /\ log = << >>
  /\ inflight = {}
  /\ done = {}
  /\ alive = TRUE

\* custom_uv_fs_open (synchronous uv_fs_open, O_CREAT | O_WRONLY): a
\* descriptor, or a negative result that open() turns into m_file = -1.
FsOpen(ok) == IF ok THEN "open" ELSE "failed"

\* custom_uv_fs_stat (synchronous uv_fs_stat): the file's st_size.
FsStat == InitSize

\* open(): uv_fs_open; on success m_pos is the size reported by uv_fs_stat.
\* A failed open() leaves m_file at -1, and the caller may try again.
Open(ok) ==
  /\ alive /\ file # "open"
  /\ file' = FsOpen(ok)
  /\ pos' = IF file' = "open" THEN FsStat ELSE pos
  /\ UNCHANGED <<buffers, flushing, batch, cursor, pending, log, inflight, done, alive>>

\* write()/writeLine() when !isOpen(): return false.
WriteRejected ==
  /\ alive /\ file # "open"
  /\ UNCHANGED vars

\* Mutant: the buffer is pushed without taking m_buffersLock.
WriteNoLock(size, line) ==
  LET l == [id |-> Len(log) + 1, len |-> IF line THEN size + EndlLen ELSE size]
  IN /\ alive /\ file = "open"
     /\ Len(log) < MaxWrites
     /\ buffers' = Append(buffers, l)
     /\ log' = Append(log, l)
     /\ pending' = TRUE
     /\ UNCHANGED <<file, pos, flushing, batch, cursor, inflight, done, alive>>

\* Mutant: the line is pushed but m_flushAsync is not signalled.
WriteNoSend(size, line) ==
  LET l == [id |-> Len(log) + 1, len |-> IF line THEN size + EndlLen ELSE size]
  IN /\ alive /\ file = "open"
     /\ ~flushing
     /\ Len(log) < MaxWrites
     /\ buffers' = Append(buffers, l)
     /\ log' = Append(log, l)
     /\ UNCHANGED <<file, pos, flushing, batch, cursor, pending, inflight, done, alive>>

\* custom_uv_async_send (uv_async_send): mark the handle pending; sends
\* before the loop runs the callback coalesce into one call.
AsyncSend == pending' = TRUE

\* custom_uv_mutex_lock (uv_mutex_lock on m_buffersLock): a writer thread
\* waits while the loop holds the lock inside flush().
MutexLock == ~flushing

\* write()/writeLine(): copy the line (plus m_endl), then under the lock
\* push it and uv_async_send(&m_flushAsync).
Write(size, line) ==
  LET l == [id |-> Len(log) + 1, len |-> IF line THEN size + EndlLen ELSE size]
  IN /\ alive /\ file = "open"
     /\ MutexLock
     /\ Len(log) < MaxWrites
     /\ buffers' = Append(buffers, l)
     /\ log' = Append(log, l)
     /\ AsyncSend
     /\ UNCHANGED <<file, pos, flushing, batch, cursor, inflight, done, alive>>

\* The loop runs on_flush: libuv clears the pending flag before calling
\* the callback, then flush() takes m_buffersLock.
OnFlush ==
  /\ alive /\ pending /\ ~flushing
  /\ pending' = FALSE
  /\ flushing' = TRUE
  /\ batch' = Len(buffers)
  /\ cursor' = 0
  /\ UNCHANGED <<file, pos, buffers, log, inflight, done, alive>>

\* Mutant: m_pos is not advanced after a write is issued.
FlushIssueNoAdvance ==
  /\ flushing /\ cursor < batch
  /\ LET b == buffers[cursor + 1]
     IN inflight' = inflight \cup {[id |-> b.id, off |-> pos, len |-> b.len]}
  /\ cursor' = cursor + 1
  /\ UNCHANGED <<file, pos, buffers, flushing, batch, pending, log, done, alive>>

\* custom_uv_fs_write (uv_fs_write with a callback): queue a positional
\* write of buffer b at offset off on the thread pool.
FsWrite(b, off) == inflight' = inflight \cup {[id |-> b.id, off |-> off, len |-> b.len]}

\* One iteration of flush()'s loop: uv_fs_write(buf) at m_pos; m_pos += len.
FlushIssue ==
  /\ flushing /\ cursor < batch
  /\ LET b == buffers[cursor + 1]
     IN /\ FsWrite(b, pos)
        /\ pos' = pos + b.len
  /\ cursor' = cursor + 1
  /\ UNCHANGED <<file, buffers, flushing, batch, pending, log, done, alive>>

\* custom_uv_mutex_unlock (uv_mutex_unlock): the loop releases
\* m_buffersLock and a waiting writer may take it.
MutexUnlock == flushing' = FALSE

\* m_buffers.clear() and unlock.
FlushEnd ==
  /\ flushing /\ cursor = batch
  /\ buffers' = << >>
  /\ MutexUnlock
  /\ UNCHANGED <<file, pos, batch, cursor, pending, log, inflight, done, alive>>

\* A write request completes; fsWriteCallback frees the copy and the request.
FsWriteDone(r) ==
  /\ r \in inflight
  /\ inflight' = inflight \ {r}
  /\ done' = done \cup {r}
  /\ UNCHANGED <<file, pos, buffers, flushing, batch, cursor, pending, log, alive>>

\* custom_uv_close (uv_close) on m_flushAsync: a send not yet served is
\* dropped, and on_flush never runs again.
UvClose == pending' = FALSE

\* ~FileLogWriter(), on the loop thread between callbacks: close the async
\* handle and destroy the mutex.  m_buffers is not flushed; writes already
\* queued on the thread pool still complete.
Destroy ==
  /\ alive /\ ~flushing
  /\ alive' = FALSE
  /\ UvClose
  /\ UNCHANGED <<file, pos, buffers, flushing, batch, cursor, log, inflight, done>>

Next ==
  \/ \E ok \in BOOLEAN : Open(ok)
  \/ WriteRejected
  \/ \E s \in Sizes, line \in BOOLEAN : Write(s, line)
  \/ OnFlush \/ FlushIssue \/ FlushEnd
  \/ \E r \in inflight : FsWriteDone(r)
  \/ Destroy

\* The libuv loop serves a sent async handle and runs the callback to its
\* end; the thread pool completes every queued file write.
Fairness ==
  /\ WF_vars(OnFlush) /\ WF_vars(FlushIssue) /\ WF_vars(FlushEnd)
  /\ WF_vars(\E r \in inflight : FsWriteDone(r))

Spec == Init /\ [][Next]_vars /\ Fairness

-----------------------------------------------------------------------------
\* Where line k must land: just after the file's old contents and every
\* line pushed before it.
Offset(k) == InitSize + FoldLeft(LAMBDA a, l : a + l.len, 0, SubSeq(log, 1, k - 1))

\* Every uv_fs_write flush() issues, from whichever thread the line came,
\* writes one pushed line, once, at the offset that follows all lines
\* pushed before it: lines appear in the file in write() order, without
\* gaps, overlaps or duplicates, however the writers and the loop
\* interleave and in whatever order the writes complete.
LinesAtTheirOffsets ==
  /\ \A r \in inflight \cup done :
       r.id \in 1 .. Len(log) /\ r.off = Offset(r.id) /\ r.len = log[r.id].len
  /\ \A r, q \in inflight \cup done : r.id = q.id => r = q

\* The file as the threads see it: the lines flush() has issued, in the
\* order of their offsets, and the lines whose write has completed.
IssuedInFileOrder ==
  LET W == SetToSortSeq(inflight \cup done,
                        LAMBDA a, b : a.off < b.off \/ (a.off = b.off /\ a.id < b.id))
  IN [i \in 1 .. Len(W) |-> W[i].id]

Log == INSTANCE AppendLog WITH
  MaxLines <- MaxWrites,
  Lengths <- Sizes \cup {s + EndlLen : s \in Sizes},
  lines <- [k \in 1 .. Len(log) |-> log[k].len],
  placed <- IssuedInFileOrder,
  stored <- {r.id : r \in done},
  open <- alive

\* FileLogWriter implements an append-only log (AppendLog): write() and
\* writeLine() accept a line, each uv_fs_write flush() issues places the
\* oldest line not yet placed at the end of the file, and every accepted
\* line is eventually placed and stored, however the writers, the
\* coalescing uv_async_send and the loop's flush() interleave.
ImplementsAppendLog == Log!Spec
=============================================================================
