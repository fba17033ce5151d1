------------------------------ MODULE LogFlush ------------------------------
(***************************************************************************)
(* Project3's group commit: log_write_up_to of the InnoDB redo log         *)
(* (xtradb/log/log0log.cc), changed so that a commit need not wait.  A     *)
(* caller that finds a flush running which covers its lsn leaves a         *)
(* callback and returns 1; whoever has flushed calls up to MAX_CALLBACKS   *)
(* of the callbacks it finds in the queue.                                 *)
(*                                                                         *)
(* Sections under the log mutex or under lsn_callbacks_mutex are single    *)
(* steps, every unlocked read is a step of its own.  There is one log      *)
(* group, so no_flush_event and one_flushed_event are set and reset        *)
(* together and are one variable here.                                     *)
(***************************************************************************)
EXTENDS Integers, Sequences, FiniteSets, SequencesExt

CONSTANTS Connections,   \* they commit
          Background,    \* page cleaners and the master thread: they force the log
          MAX_CALLBACKS, \* callbacks called after one flush (32 in the code)
          MaxLsn         \* bound: commits in one behaviour

ASSUME LogAssumption == MAX_CALLBACKS \in Nat /\ MaxLsn \in Nat

Callers == Connections \cup Background

VARIABLES
  lsn,                 \* log_sys->lsn, the end of the log in memory
  write_lsn,           \* end of the running or last write
  written_to_all_lsn,  \* end of the last completed write
  current_flush_lsn,   \* end of the running or last flush
  flushed_to_disk_lsn, \* what log_sys says is on disk ...
  disk,                \* ... and what would survive a crash
  n_pending_writes,
  event,               \* no_flush_event and one_flushed_event are set
  lsn_callbacks,       \* callers whose callback is queued
  method,              \* srv_unix_file_flush_method
  pc, call,            \* where each caller is, and its arguments
  callbacks_buf,       \* callbacks a flusher has taken and not called yet
  returned,            \* history: greatest lsn a returning call vouched for ...
  called,              \* ... and greatest lsn whose callback has run
  left_behind          \* history: a flusher left callbacks in the queue

log_sys == <<lsn, write_lsn, written_to_all_lsn, current_flush_lsn, flushed_to_disk_lsn,
             disk, n_pending_writes, event>>
vars == <<lsn, write_lsn, written_to_all_lsn, current_flush_lsn, flushed_to_disk_lsn, disk,
          n_pending_writes, event, lsn_callbacks, method, pc, call, callbacks_buf,
          returned, called, left_behind>>

Lsns == 0..MaxLsn
Waits == {"LOG_NO_WAIT", "LOG_WAIT_ONE_GROUP", "LOG_WAIT_ALL_GROUPS"}
NoCall == [lsn |-> 0, wait |-> "LOG_NO_WAIT", flush |-> FALSE, callback |-> FALSE]
Locations == {"out", "loop", "pending?", "covered?", "callback", "mutex", "await", "waiting",
              "woken", "retry", "asleep", "sync", "claim", "finish", "collect", "call",
              "pended"}

TypeOK ==
  /\ {lsn, write_lsn, written_to_all_lsn, current_flush_lsn, flushed_to_disk_lsn, disk}
       \subseteq Lsns
  /\ n_pending_writes \in 0..1
  /\ event \in BOOLEAN /\ left_behind \in BOOLEAN
  /\ lsn_callbacks \in Seq(Callers)
  /\ method \in {"fsync", "O_DSYNC", "nosync"}
  /\ pc \in [Callers -> Locations]
  /\ call \in [Callers -> [lsn : Lsns, wait : Waits, flush : BOOLEAN, callback : BOOLEAN]]
  /\ callbacks_buf \in [Callers -> Seq(Callers)]
  /\ returned \in [file : Lsns, disk : Lsns] /\ called \in Lsns

Init ==
  /\ lsn = 0 /\ write_lsn = 0 /\ written_to_all_lsn = 0
  /\ current_flush_lsn = 0 /\ flushed_to_disk_lsn = 0 /\ disk = 0
  /\ n_pending_writes = 0 /\ event = TRUE
  /\ lsn_callbacks = <<>>
  /\ method \in {"fsync", "O_DSYNC", "nosync"}
  /\ pc = [t \in Callers |-> "out"]
  /\ call = [t \in Callers |-> NoCall]
  /\ callbacks_buf = [t \in Callers |-> <<>>]
  /\ returned = [file |-> 0, disk |-> 0] /\ called = 0
  /\ left_behind = FALSE

Goto(t, from, to) ==
  /\ pc[t] = from
  /\ pc' = [pc EXCEPT ![t] = to]

Greater(a, b) == IF a > b THEN a ELSE b

(* The call returns: its lsn is written, or flushed if it asked for that.  *)
(* The call of a background thread that does not wait vouches for nothing. *)
Return(t, from) ==
  /\ Goto(t, from, "out")
  /\ call' = [call EXCEPT ![t] = NoCall]
  /\ returned' =
       IF call[t].wait = "LOG_NO_WAIT" THEN returned
       ELSE IF call[t].flush
         THEN [returned EXCEPT !.disk = Greater(@, call[t].lsn)]
         ELSE [returned EXCEPT !.file = Greater(@, call[t].lsn)]

Stays == UNCHANGED <<call, returned>>

-----------------------------------------------------------------------------
(* The callers *)

Enter(t, c) ==
  /\ Goto(t, "out", "loop")
  /\ call' = [call EXCEPT ![t] = c]
  /\ UNCHANGED <<write_lsn, written_to_all_lsn, current_flush_lsn, flushed_to_disk_lsn, disk>>
  /\ UNCHANGED <<n_pending_writes, event, lsn_callbacks, method, callbacks_buf>>
  /\ UNCHANGED <<returned, called, left_behind>>

(* trx_flush_log_if_needed_low: a transaction has put its last record into *)
(* the log and commits, with flush_log_at_trx_commit 1 or 3, or with 2.    *)
Commit(t) ==
  /\ lsn < MaxLsn
  /\ lsn' = lsn + 1
  /\ \/ Enter(t, [lsn |-> lsn', wait |-> "LOG_WAIT_ONE_GROUP",
                  flush |-> method # "nosync", callback |-> TRUE])
     \/ Enter(t, [lsn |-> lsn', wait |-> "LOG_WAIT_ONE_GROUP",
                  flush |-> FALSE, callback |-> FALSE])

(* A page or the whole log must be on disk before somebody goes on, or the *)
(* master thread writes the log in the background.                         *)
ForceLog(t) ==
  /\ UNCHANGED lsn
  /\ \/ \E upto \in 1..lsn :
          Enter(t, [lsn |-> upto, wait |-> "LOG_WAIT_ALL_GROUPS",
                    flush |-> TRUE, callback |-> FALSE])
     \/ \E flush \in BOOLEAN :
          Enter(t, [lsn |-> lsn, wait |-> "LOG_NO_WAIT",
                    flush |-> flush, callback |-> FALSE])

-----------------------------------------------------------------------------
(* log_write_up_to *)

Flushed(t) == call[t].flush /\ flushed_to_disk_lsn >= call[t].lsn

(* The unlocked test at the top of the loop. *)
Loop(t) ==
  /\ \/ Flushed(t) /\ Return(t, "loop")
     \/ ~Flushed(t) /\ Goto(t, "loop", "pending?") /\ Stays
  /\ UNCHANGED <<log_sys, lsn_callbacks, method, callbacks_buf, called, left_behind>>

(* The unlocked reads of n_pending_writes ... *)
LookPending(t) ==
  /\ Goto(t, "pending?", IF n_pending_writes > 0 /\ call[t].flush /\ call[t].callback
                           THEN "covered?" ELSE "mutex")
  /\ Stays
  /\ UNCHANGED <<log_sys, lsn_callbacks, method, callbacks_buf, called, left_behind>>

(* ... and of current_flush_lsn. *)
LookCovered(t) ==
  /\ Goto(t, "covered?", IF current_flush_lsn >= call[t].lsn THEN "callback" ELSE "mutex")
  /\ Stays
  /\ UNCHANGED <<log_sys, lsn_callbacks, method, callbacks_buf, called, left_behind>>

(* Mutated FlushedMeanwhile: the queue is entered without a second look. *)
NotAgain(t) == FALSE

FlushedMeanwhile(t) == flushed_to_disk_lsn >= call[t].lsn

(* Under lsn_callbacks_mutex: look again, then queue the callback. *)
LeaveCallback(t) ==
  /\ \/ FlushedMeanwhile(t) /\ Return(t, "callback") /\ UNCHANGED lsn_callbacks
     \/ /\ ~FlushedMeanwhile(t)
        /\ Goto(t, "callback", "pended") /\ Stays
        /\ lsn_callbacks' = Append(lsn_callbacks, t)
  /\ UNCHANGED <<log_sys, method, callbacks_buf, called, left_behind>>

(* Mutated WriteRunning: n_pending_writes is not looked at again. *)
NothingRunning == FALSE

WriteRunning == n_pending_writes > 0

(* Mutated EnoughFor: the running write is taken for a flush. *)
WriteIsEnough(t) == write_lsn >= call[t].lsn

(* The running write, or flush, will do. *)
EnoughFor(t) ==
  IF call[t].flush THEN current_flush_lsn >= call[t].lsn ELSE write_lsn >= call[t].lsn

(* The log file has what a finished write put there; with O_DSYNC so has   *)
(* the disk.                                                               *)
StartWrite(t) ==
  /\ Goto(t, "mutex", "sync") /\ Stays
  /\ n_pending_writes' = n_pending_writes + 1
  /\ event' = FALSE
  /\ write_lsn' = lsn
  /\ current_flush_lsn' = IF call[t].flush THEN lsn ELSE current_flush_lsn
  /\ disk' = IF method = "O_DSYNC" THEN lsn ELSE disk
  /\ UNCHANGED <<lsn, written_to_all_lsn, flushed_to_disk_lsn>>

(* The section under the log mutex: return, leave a callback, wait for the *)
(* running write, wait and try again, or become the flusher.               *)
Mutex(t) ==
  /\ LET written == ~call[t].flush /\ written_to_all_lsn >= call[t].lsn
         empty   == ~call[t].flush /\ written_to_all_lsn = lsn
     IN  \/ /\ Flushed(t) \/ written \/ (~WriteRunning /\ empty)
            /\ Return(t, "mutex") /\ UNCHANGED log_sys
         \/ /\ ~Flushed(t) /\ ~written /\ WriteRunning
            /\ Goto(t, "mutex", IF ~EnoughFor(t) THEN "retry"
                                ELSE IF call[t].flush /\ call[t].callback
                                  THEN "callback" ELSE "await")
            /\ Stays /\ UNCHANGED log_sys
         \/ ~Flushed(t) /\ ~written /\ ~WriteRunning /\ ~empty /\ StartWrite(t)
  /\ UNCHANGED <<lsn_callbacks, method, callbacks_buf, called, left_behind>>

(* os_event_wait is entered: in do_waits, which LOG_NO_WAIT leaves at      *)
(* once, or before another round of the loop.                              *)
Await(t) ==
  /\ \/ call[t].wait = "LOG_NO_WAIT" /\ Return(t, "await")
     \/ /\ call[t].wait # "LOG_NO_WAIT"
        /\ Goto(t, "await", IF event THEN "woken" ELSE "waiting") /\ Stays
     \/ Goto(t, "retry", IF event THEN "loop" ELSE "asleep") /\ Stays
     \/ Return(t, "woken")
  /\ UNCHANGED <<log_sys, lsn_callbacks, method, callbacks_buf, called, left_behind>>

(* fil_flush, which makes everything written so far durable ... *)
Sync(t) ==
  /\ \/ method = "O_DSYNC" /\ Goto(t, "sync", "claim") /\ UNCHANGED disk
     \/ method # "O_DSYNC" /\ call[t].flush /\ Goto(t, "sync", "claim") /\ disk' = write_lsn
     \/ method # "O_DSYNC" /\ ~call[t].flush /\ Goto(t, "sync", "finish") /\ UNCHANGED disk
  /\ Stays
  /\ UNCHANGED <<lsn, write_lsn, written_to_all_lsn, current_flush_lsn, flushed_to_disk_lsn>>
  /\ UNCHANGED <<n_pending_writes, event, lsn_callbacks, method, callbacks_buf, called, left_behind>>

(* Mutated Claim: the end of the log is taken for what was written. *)
ClaimLsn(t) ==
  /\ Goto(t, "claim", "finish") /\ Stays
  /\ flushed_to_disk_lsn' = lsn
  /\ UNCHANGED <<lsn, write_lsn, written_to_all_lsn, current_flush_lsn, disk>>
  /\ UNCHANGED <<n_pending_writes, event, lsn_callbacks, method, callbacks_buf, called, left_behind>>

(* ... and the unlocked store that says so. *)
Claim(t) ==
  /\ Goto(t, "claim", "finish") /\ Stays
  /\ flushed_to_disk_lsn' = write_lsn
  /\ UNCHANGED <<lsn, write_lsn, written_to_all_lsn, current_flush_lsn, disk>>
  /\ UNCHANGED <<n_pending_writes, event, lsn_callbacks, method, callbacks_buf, called, left_behind>>

(* os_event_set: everybody in os_event_wait goes on, also when the event   *)
(* is reset before they run.                                               *)
Woken == [t \in Callers |-> CASE pc[t] = "waiting" -> "woken"
                             [] pc[t] = "asleep" -> "loop"
                             [] OTHER -> pc[t]]

(* Under the log mutex again: the write is complete. *)
Finish(t) ==
  /\ pc[t] = "finish" /\ Stays
  /\ pc' = [Woken EXCEPT ![t] = "collect"]
  /\ n_pending_writes' = n_pending_writes - 1
  /\ written_to_all_lsn' = write_lsn
  /\ event' = TRUE
  /\ UNCHANGED <<lsn, write_lsn, current_flush_lsn, flushed_to_disk_lsn, disk>>
  /\ UNCHANGED <<lsn_callbacks, method, callbacks_buf, called, left_behind>>

(* How many callbacks a flusher takes. *)
Taken == IF Len(lsn_callbacks) < MAX_CALLBACKS THEN Len(lsn_callbacks) ELSE MAX_CALLBACKS

(* Under lsn_callbacks_mutex, after the log mutex has been left: take      *)
(* callbacks from the back of the queue.                                   *)
Collect(t) ==
  LET rest == Len(lsn_callbacks) - Taken
  IN  /\ Goto(t, "collect", "call") /\ Stays
      /\ callbacks_buf' = [callbacks_buf EXCEPT ![t] =
                             Reverse(SubSeq(lsn_callbacks, rest + 1, Len(lsn_callbacks)))]
      /\ lsn_callbacks' = SubSeq(lsn_callbacks, 1, rest)
      /\ left_behind' = (left_behind \/ rest > 0)
      /\ UNCHANGED <<log_sys, method, called>>

(* Call the callbacks one after the other, and return. *)
CallBack(t) ==
  /\ \/ /\ callbacks_buf[t] = <<>>
        /\ Return(t, "call")
        /\ UNCHANGED <<callbacks_buf, called>>
     \/ /\ callbacks_buf[t] # <<>>
        /\ LET c == Head(callbacks_buf[t])
           IN  /\ pc[t] = "call"
               /\ pc' = [pc EXCEPT ![c] = "out"]
               /\ called' = Greater(called, call[c].lsn)
               /\ call' = [call EXCEPT ![c] = NoCall]
               /\ callbacks_buf' = [callbacks_buf EXCEPT ![t] = Tail(@)]
        /\ UNCHANGED returned
  /\ UNCHANGED <<log_sys, lsn_callbacks, method, left_behind>>

log_write_up_to(t) ==
  \/ Loop(t) \/ LookPending(t) \/ LookCovered(t) \/ LeaveCallback(t) \/ Mutex(t)
  \/ Await(t) \/ Sync(t) \/ Claim(t) \/ Finish(t) \/ Collect(t) \/ CallBack(t)

Next ==
  \/ \E t \in Connections : Commit(t)
  \/ \E t \in Background : ForceLog(t)
  \/ \E t \in Callers : log_write_up_to(t)

(* A thread inside log_write_up_to keeps running; nothing makes a client   *)
(* commit or a background thread write the log.                            *)
Fairness == \A t \in Callers : WF_vars(log_write_up_to(t))

Spec == Init /\ [][Next]_vars /\ Fairness

-----------------------------------------------------------------------------
(* Properties *)

(* "ut_a(log_sys->n_pending_writes == 1)": when a write completes it is    *)
(* the only one, and what log_sys says is on disk is on disk, although the *)
(* flusher stores it without the mutex.                                    *)
OneWriter ==
  /\ flushed_to_disk_lsn <= disk
  /\ n_pending_writes =
       Cardinality({t \in Callers : pc[t] \in {"sync", "claim", "finish"}})

(* A call that has returned 0 kept its word, whichever way it returned: on *)
(* an unlocked look, after waiting for somebody else's flush, or after its *)
(* own.  With flush_to_disk the lsn would survive a crash.                 *)
ReturnedIsDurable ==
  /\ returned.disk <= disk
  /\ returned.file <= Greater(disk, write_lsn)

(* A callback may run before its lsn is on disk, but only while a flush    *)
(* that covers it is running.                                              *)
EarlyOnlyWhileFlushing ==
  called <= disk \/ (WriteRunning /\ current_flush_lsn >= called)

(* "at that moment the log flush they were waiting for must have ended"    *)
(* (log_flush_do_unlocks): what a callback announces is on disk.           *)
CalledIsDurable == called <= disk

(* A callback that was queued is called: neither the unlocked reads before *)
(* it is queued nor a flusher on its way out make it miss the flush.  Only *)
(* when more than MAX_CALLBACKS are waiting does one stay behind.          *)
EveryCallbackRuns ==
  [](~left_behind) => \A t \in Callers : (pc[t] = "pended") ~> (pc[t] # "pended")
=============================================================================
