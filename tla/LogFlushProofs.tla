--------------------------- MODULE LogFlushProofs ---------------------------
(***************************************************************************)
(* For any number of connections and background threads, any number of     *)
(* commits and any MAX_CALLBACKS: one write is under way at a time, a call *)
(* that returns 0 kept its word, and a callback is early only while a      *)
(* flush that covers it is running.                                        *)
(***************************************************************************)
EXTENDS LogFlush, FiniteSetTheorems, TLAPS

Writing(t) == pc[t] \in {"sync", "claim", "finish"}

(* The write that is under way has one thread, and the events are reset    *)
(* exactly while it is.                                                    *)
WriterInv ==
  /\ \A s, t \in Callers : Writing(s) /\ Writing(t) => s = t
  /\ n_pending_writes = 1 <=> \E t \in Callers : Writing(t)
  /\ event = (n_pending_writes = 0)

(* How far each stage of the log has got, and who vouches for it: with     *)
(* nothing under way every flush that was begun has been claimed.          *)
StageInv ==
  /\ flushed_to_disk_lsn <= disk /\ disk <= write_lsn /\ write_lsn <= lsn
  /\ current_flush_lsn <= write_lsn /\ written_to_all_lsn <= write_lsn
  /\ n_pending_writes = 0 => current_flush_lsn <= flushed_to_disk_lsn
  /\ method = "O_DSYNC" => disk = write_lsn
  /\ \A t \in Callers : Writing(t) =>
       /\ call[t].flush \/ method = "O_DSYNC" =>
            /\ pc[t] = "claim" => disk = write_lsn
            /\ pc[t] = "finish" => flushed_to_disk_lsn = write_lsn
       /\ ~call[t].flush => current_flush_lsn <= flushed_to_disk_lsn
       /\ pc[t] = "claim" => call[t].flush \/ method = "O_DSYNC"

(* What each caller may count on where it stands. *)
CallOK(t) ==
  /\ call[t].lsn <= lsn
  /\ pc[t] \in {"covered?", "callback", "pended"} => call[t].flush
  /\ pc[t] \in {"callback", "pended"} => call[t].lsn <= current_flush_lsn
  /\ pc[t] \in {"await", "waiting"} => EnoughFor(t)
  /\ Writing(t) => call[t].lsn <= write_lsn
  /\ pc[t] \in {"woken", "collect", "call"} =>
       call[t].lsn <= IF call[t].flush THEN disk ELSE write_lsn

CallInv == \A t \in Callers : CallOK(t)

(* Who is in the queue, or in the hands of a flusher, is pended and is     *)
(* there once.                                                             *)
QueueInv ==
  /\ \A i \in 1..Len(lsn_callbacks) : pc[lsn_callbacks[i]] = "pended"
  /\ \A i, j \in 1..Len(lsn_callbacks) : lsn_callbacks[i] = lsn_callbacks[j] => i = j
  /\ \A t \in Callers : \A i \in 1..Len(callbacks_buf[t]) :
       /\ pc[t] = "call"
       /\ pc[callbacks_buf[t][i]] = "pended"
       /\ \A j \in 1..Len(lsn_callbacks) : callbacks_buf[t][i] # lsn_callbacks[j]
       /\ \A s \in Callers : \A j \in 1..Len(callbacks_buf[s]) :
            callbacks_buf[t][i] = callbacks_buf[s][j] => s = t /\ i = j

IInv ==
  /\ TypeOK /\ WriterInv /\ StageInv /\ CallInv /\ QueueInv
  /\ ReturnedIsDurable /\ EarlyOnlyWhileFlushing

-----------------------------------------------------------------------------
(* What every step does to the calls: the types it keeps. *)
CallTypes ==
  /\ pc \in [Callers -> Locations]
  /\ call \in [Callers -> [lsn : Lsns, wait : Waits, flush : BOOLEAN, callback : BOOLEAN]]
  /\ returned \in [file : Lsns, disk : Lsns]

(* A return: the caller is out, and what it vouched for is remembered.     *)
LEMMA ReturnDoes ==
  ASSUME CallTypes, NEW t \in Callers, NEW from, Return(t, from)
  PROVE  /\ CallTypes'
         /\ pc[t] = from /\ pc' = [pc EXCEPT ![t] = "out"]
         /\ call' = [call EXCEPT ![t] = NoCall]
         /\ returned'.disk = returned.disk \/ (call[t].flush /\ returned'.disk = call[t].lsn)
         /\ returned'.file = returned.file \/ (~call[t].flush /\ returned'.file = call[t].lsn)
         /\ call[t].wait = "LOG_NO_WAIT" => returned' = returned
<1>1. call[t].lsn \in Lsns /\ returned.disk \in Lsns /\ returned.file \in Lsns
  BY DEF CallTypes
<1>2. call[t].lsn \in Int /\ returned.disk \in Int /\ returned.file \in Int
  BY <1>1, LogAssumption DEF Lsns
<1>3. NoCall \in [lsn : Lsns, wait : Waits, flush : BOOLEAN, callback : BOOLEAN]
  BY LogAssumption DEF NoCall, Lsns, Waits
<1>4. pc' \in [Callers -> Locations]
  BY DEF Return, Goto, CallTypes, Locations
<1>5. call' \in [Callers -> [lsn : Lsns, wait : Waits, flush : BOOLEAN, callback : BOOLEAN]]
  BY <1>3 DEF Return, CallTypes
<1>6. returned' \in [file : Lsns, disk : Lsns]
  BY <1>1, <1>2 DEF Return, CallTypes, Greater
<1>7. QED
  BY <1>1, <1>2, <1>4, <1>5, <1>6 DEF Return, Goto, CallTypes, Greater

(* The queue is left alone, and so is everybody who is pended or calls.    *)
LEMMA QueueFrame ==
  ASSUME TypeOK, QueueInv, UNCHANGED <<lsn_callbacks, callbacks_buf>>,
         \A s \in Callers : pc[s] \in {"pended", "call"} => pc'[s] = pc[s]
  PROVE  QueueInv'
  BY DEF TypeOK, QueueInv

(* A caller that stays where it is loses nothing while the log goes on.    *)
LEMMA CallFrame ==
  ASSUME TypeOK, TypeOK', CallInv, NEW s \in Callers,
         pc'[s] = pc[s], call'[s] = call[s],
         lsn <= lsn', write_lsn <= write_lsn', disk <= disk',
         current_flush_lsn <= current_flush_lsn'
  PROVE  CallOK(s)'
<1>1. call[s].lsn \in Int
  BY LogAssumption DEF TypeOK, Lsns
<1>2. /\ lsn \in Int /\ write_lsn \in Int /\ disk \in Int /\ current_flush_lsn \in Int
      /\ lsn' \in Int /\ write_lsn' \in Int /\ disk' \in Int /\ current_flush_lsn' \in Int
  BY LogAssumption DEF TypeOK, Lsns
<1>3. CallOK(s)
  BY DEF CallInv
<1>4. EnoughFor(s) => EnoughFor(s)'
  BY <1>1, <1>2 DEF EnoughFor
<1>5. call'[s].lsn <= lsn' /\ (Writing(s)' => call'[s].lsn <= write_lsn')
  BY <1>1, <1>2, <1>3 DEF CallOK, Writing
<1>6. pc'[s] \in {"woken", "collect", "call"} =>
        call'[s].lsn <= IF call'[s].flush THEN disk' ELSE write_lsn'
  BY <1>1, <1>2, <1>3 DEF CallOK
<1>7. /\ pc'[s] \in {"covered?", "callback", "pended"} => call'[s].flush
      /\ pc'[s] \in {"callback", "pended"} => call'[s].lsn <= current_flush_lsn'
  BY <1>1, <1>2, <1>3 DEF CallOK
<1>8. pc'[s] \in {"await", "waiting"} => EnoughFor(s)'
  BY <1>3, <1>4 DEF CallOK
<1> QED
  BY <1>5, <1>6, <1>7, <1>8 DEF CallOK

(* The log is left alone, and so are those who write. *)
LEMMA LogFrame ==
  ASSUME TypeOK, TypeOK', WriterInv, StageInv, EarlyOnlyWhileFlushing,
         UNCHANGED <<log_sys, method, called>>,
         \A s \in Callers : Writing(s) \/ Writing(s)' => pc'[s] = pc[s] /\ call'[s] = call[s]
  PROVE  WriterInv' /\ StageInv' /\ EarlyOnlyWhileFlushing'
<1>1. WriterInv'
  BY DEF WriterInv, Writing, TypeOK, log_sys
<1>2. StageInv'
  BY DEF StageInv, Writing, TypeOK, log_sys
<1>3. EarlyOnlyWhileFlushing'
  BY DEF EarlyOnlyWhileFlushing, WriteRunning, log_sys
<1> QED BY <1>1, <1>2, <1>3

(* What a return vouches for. *)
LEMMA ReturnVouches ==
  ASSUME TypeOK, ReturnedIsDurable, NEW t \in Callers, NEW from, Return(t, from),
         UNCHANGED log_sys,
         \/ call[t].wait = "LOG_NO_WAIT"
         \/ call[t].flush /\ call[t].lsn <= disk
         \/ ~call[t].flush /\ call[t].lsn <= write_lsn
  PROVE  ReturnedIsDurable'
<1>1. CallTypes
  BY DEF TypeOK, CallTypes
<1>2. /\ returned'.disk \in Lsns /\ returned'.file \in Lsns /\ call[t].lsn \in Lsns
      /\ returned'.disk = returned.disk \/ (call[t].flush /\ returned'.disk = call[t].lsn)
      /\ returned'.file = returned.file \/ (~call[t].flush /\ returned'.file = call[t].lsn)
      /\ call[t].wait = "LOG_NO_WAIT" => returned' = returned
  BY <1>1, ReturnDoes DEF CallTypes
<1>3. disk \in Int /\ write_lsn \in Int
  BY LogAssumption DEF TypeOK, Lsns
<1> QED
  BY <1>2, <1>3, LogAssumption DEF ReturnedIsDurable, Greater, Lsns, log_sys

-----------------------------------------------------------------------------
(* The steps *)

(* A step that only moves its caller along, and does not return. *)
Moves(t) ==
  /\ \E to \in Locations \ {"sync", "claim", "finish"} : pc' = [pc EXCEPT ![t] = to]
  /\ Stays /\ UNCHANGED <<log_sys, method, callbacks_buf, called, left_behind>>

LEMMA MoveKeeps ==
  ASSUME IInv, NEW t \in Callers, ~Writing(t), pc[t] \notin {"pended", "call"},
         Moves(t), UNCHANGED lsn_callbacks, CallOK(t)'
  PROVE  IInv'
<1>1. TypeOK'
  BY DEF IInv, TypeOK, Moves, Stays, log_sys, Locations
<1>2. \A s \in Callers \ {t} : pc'[s] = pc[s] /\ call'[s] = call[s]
  BY DEF IInv, TypeOK, Moves, Stays
<1>3. pc'[t] \notin {"sync", "claim", "finish"}
  BY DEF IInv, TypeOK, Moves
<1>4. WriterInv' /\ StageInv' /\ EarlyOnlyWhileFlushing'
  BY <1>1, <1>2, <1>3, LogFrame DEF IInv, Moves, Writing
<1>5. ASSUME NEW s \in Callers \ {t} PROVE CallOK(s)'
  <2>1. /\ lsn <= lsn' /\ write_lsn <= write_lsn' /\ disk <= disk'
        /\ current_flush_lsn <= current_flush_lsn'
    BY LogAssumption DEF IInv, TypeOK, Lsns, Moves, log_sys
  <2> QED BY <1>1, <1>2, <2>1, CallFrame DEF IInv
<1>6. CallInv'
  BY <1>5 DEF CallInv
<1>7. QueueInv'
  BY <1>2, QueueFrame DEF IInv, Moves
<1>8. ReturnedIsDurable'
  BY DEF IInv, ReturnedIsDurable, Moves, Stays, log_sys, Greater
<1> QED BY <1>1, <1>4, <1>6, <1>7, <1>8 DEF IInv

LEMMA ReturnKeeps ==
  ASSUME IInv, NEW t \in Callers, NEW from, ~Writing(t), pc[t] # "pended", callbacks_buf[t] = <<>>,
         Return(t, from), UNCHANGED <<log_sys, lsn_callbacks, method, callbacks_buf, called, left_behind>>,
         \/ call[t].wait = "LOG_NO_WAIT"
         \/ call[t].flush /\ call[t].lsn <= disk
         \/ ~call[t].flush /\ call[t].lsn <= write_lsn
  PROVE  IInv'
<1>1. CallTypes
  BY DEF IInv, TypeOK, CallTypes
<1>2. /\ CallTypes' /\ pc' = [pc EXCEPT ![t] = "out"]
      /\ call' = [call EXCEPT ![t] = NoCall]
  BY <1>1, ReturnDoes
<1>3. TypeOK'
  BY <1>2 DEF IInv, TypeOK, CallTypes, log_sys
<1>4. /\ \A s \in Callers \ {t} : pc'[s] = pc[s] /\ call'[s] = call[s]
      /\ pc'[t] = "out" /\ call'[t] = NoCall
  BY <1>1, <1>2 DEF CallTypes
<1>5. WriterInv' /\ StageInv' /\ EarlyOnlyWhileFlushing'
  BY <1>3, <1>4, LogFrame DEF IInv, Writing
<1>6. ASSUME NEW s \in Callers \ {t} PROVE CallOK(s)'
  <2>1. /\ lsn <= lsn' /\ write_lsn <= write_lsn' /\ disk <= disk'
        /\ current_flush_lsn <= current_flush_lsn'
    BY LogAssumption DEF IInv, TypeOK, Lsns, log_sys
  <2> QED BY <1>3, <1>4, <2>1, CallFrame DEF IInv
<1>7. CallOK(t)'
  BY <1>3, <1>4, LogAssumption DEF CallOK, NoCall, Writing, TypeOK, Lsns
<1>8. CallInv'
  BY <1>6, <1>7 DEF CallInv
<1>9. QueueInv'
  BY <1>4 DEF IInv, TypeOK, QueueInv
<1>10. ReturnedIsDurable'
  BY ReturnVouches DEF IInv
<1> QED BY <1>3, <1>5, <1>8, <1>9, <1>10 DEF IInv

(* The stages of the log are numbers, and so is what a caller asks for.    *)
LEMMA Numbers ==
  ASSUME TypeOK
  PROVE  /\ lsn \in Int /\ write_lsn \in Int /\ disk \in Int /\ written_to_all_lsn \in Int
         /\ current_flush_lsn \in Int /\ flushed_to_disk_lsn \in Int /\ called \in Int
         /\ returned.disk \in Int /\ returned.file \in Int
         /\ \A t \in Callers : call[t].lsn \in Int
  BY LogAssumption DEF TypeOK, Lsns

(* Only somebody who calls callbacks has any left. *)
LEMMA NothingInHand ==
  ASSUME TypeOK, QueueInv, NEW t \in Callers, pc[t] # "call"
  PROVE  callbacks_buf[t] = <<>>
<1>1. callbacks_buf[t] \in Seq(Callers)
  BY DEF TypeOK
<1>2. Len(callbacks_buf[t]) \in Nat /\ \A i \in 1..Len(callbacks_buf[t]) : FALSE
  BY <1>1 DEF QueueInv
<1>3. Len(callbacks_buf[t]) = 0
  <2> SUFFICES ASSUME Len(callbacks_buf[t]) > 0 PROVE FALSE
    BY <1>2
  <2>1. 1 \in 1..Len(callbacks_buf[t])
    BY <1>2
  <2> QED BY <1>2, <2>1
<1> QED BY <1>1, <1>3

LEMMA LoopKeeps ==
  ASSUME IInv, NEW t \in Callers, Loop(t)
  PROVE  IInv'
<1> USE DEF IInv
<1>1. CASE Flushed(t) /\ Return(t, "loop")
  <2>1. pc[t] = "loop"
    BY <1>1 DEF Return, Goto
  <2>2. call[t].flush /\ call[t].lsn <= disk
    BY <1>1, Numbers DEF Flushed, StageInv
  <2> QED
    BY <1>1, <2>1, <2>2, NothingInHand, ReturnKeeps DEF Loop, Writing
<1>2. CASE ~Flushed(t) /\ Goto(t, "loop", "pending?") /\ Stays
  <2>1. pc[t] = "loop" /\ Moves(t)
    BY <1>2 DEF Goto, Moves, Locations, Loop
  <2>2. CallOK(t)'
    BY <1>2 DEF TypeOK, CallInv, CallOK, Goto, Stays, Loop, log_sys, Writing
  <2> QED
    BY <2>1, <2>2, MoveKeeps DEF Writing, Loop
<1> QED BY <1>1, <1>2 DEF Loop

LEMMA LookKeeps ==
  ASSUME IInv, NEW t \in Callers, LookPending(t) \/ LookCovered(t)
  PROVE  IInv'
<1> USE DEF IInv
<1>1. pc[t] \in {"pending?", "covered?"}
  BY DEF LookPending, LookCovered, Goto
<1>2. Moves(t) /\ UNCHANGED lsn_callbacks
  BY DEF LookPending, LookCovered, Goto, Moves, Locations
<1>3. CallOK(t) /\ UNCHANGED <<log_sys, call>>
  BY DEF CallInv, LookPending, LookCovered, Stays
<1>4. LookPending(t) =>
        /\ pc'[t] \in {"covered?", "mutex"}
        /\ pc'[t] = "covered?" => call[t].flush
  BY DEF LookPending, Goto, TypeOK
<1>5. LookCovered(t) =>
        /\ pc'[t] \in {"callback", "mutex"} /\ pc[t] = "covered?"
        /\ pc'[t] = "callback" => current_flush_lsn >= call[t].lsn
  BY DEF LookCovered, Goto, TypeOK
<1>6. CallOK(t)'
  BY <1>3, <1>4, <1>5, Numbers DEF CallOK, Writing, log_sys
<1> QED
  BY <1>1, <1>2, <1>6, MoveKeeps DEF Writing

(* A callback that is queued was not there before: its caller was not yet  *)
(* pended.                                                                 *)
LEMMA AppendKeeps ==
  ASSUME TypeOK, QueueInv, NEW t \in Callers, pc[t] = "callback",
         pc' = [pc EXCEPT ![t] = "pended"], UNCHANGED callbacks_buf,
         lsn_callbacks' = Append(lsn_callbacks, t)
  PROVE  QueueInv'
<1>1. /\ lsn_callbacks \in Seq(Callers) /\ Len(lsn_callbacks) \in Nat
      /\ Len(lsn_callbacks') = Len(lsn_callbacks) + 1
      /\ \A i \in 1..Len(lsn_callbacks) : lsn_callbacks'[i] = lsn_callbacks[i]
      /\ lsn_callbacks'[Len(lsn_callbacks) + 1] = t
  BY DEF TypeOK
<1>2. pc'[t] = "pended" /\ \A s \in Callers \ {t} : pc'[s] = pc[s]
  BY DEF TypeOK
<1>3. \A i \in 1..Len(lsn_callbacks) : lsn_callbacks[i] \in Callers \ {t}
  BY <1>1 DEF QueueInv
<1>4. \A i \in 1..Len(lsn_callbacks') :
        \/ i \in 1..Len(lsn_callbacks) /\ lsn_callbacks'[i] = lsn_callbacks[i]
        \/ i = Len(lsn_callbacks) + 1 /\ lsn_callbacks'[i] = t
  BY <1>1
<1>5. \A i \in 1..Len(lsn_callbacks') : pc'[lsn_callbacks'[i]] = "pended"
  BY <1>2, <1>3, <1>4 DEF QueueInv
<1>6. \A i, j \in 1..Len(lsn_callbacks') : lsn_callbacks'[i] = lsn_callbacks'[j] => i = j
  BY <1>3, <1>4 DEF QueueInv
<1>7. ASSUME NEW s \in Callers, NEW i \in 1..Len(callbacks_buf[s])
      PROVE  callbacks_buf[s][i] \in Callers \ {t} /\ s # t
  <2>1. callbacks_buf[s] \in Seq(Callers)
    BY DEF TypeOK
  <2>2. callbacks_buf[s][i] \in Callers
    BY <2>1
  <2> QED BY <2>2 DEF QueueInv
<1>8. ASSUME NEW s \in Callers, NEW i \in 1..Len(callbacks_buf'[s])
      PROVE  /\ pc'[s] = "call"
             /\ pc'[callbacks_buf'[s][i]] = "pended"
             /\ \A j \in 1..Len(lsn_callbacks') : callbacks_buf'[s][i] # lsn_callbacks'[j]
  BY <1>2, <1>4, <1>7 DEF QueueInv
<1> QED BY <1>5, <1>6, <1>8 DEF QueueInv

LEMMA LeaveCallbackKeeps ==
  ASSUME IInv, NEW t \in Callers, LeaveCallback(t)
  PROVE  IInv'
<1> USE DEF IInv
<1>1. CASE FlushedMeanwhile(t) /\ Return(t, "callback") /\ UNCHANGED lsn_callbacks
  <2>1. pc[t] = "callback"
    BY <1>1 DEF Return, Goto
  <2>2. call[t].flush /\ call[t].lsn <= disk
    BY <1>1, <2>1, Numbers DEF FlushedMeanwhile, StageInv, CallInv, CallOK
  <2> QED
    BY <1>1, <2>1, <2>2, NothingInHand, ReturnKeeps DEF LeaveCallback, Writing
<1>2. CASE /\ ~FlushedMeanwhile(t)
           /\ Goto(t, "callback", "pended") /\ Stays
           /\ lsn_callbacks' = Append(lsn_callbacks, t)
  <2>1. /\ pc[t] = "callback" /\ pc' = [pc EXCEPT ![t] = "pended"]
        /\ UNCHANGED <<log_sys, method, callbacks_buf, called, left_behind, call, returned>>
    BY <1>2 DEF Goto, Stays, LeaveCallback
  <2>2. QueueInv'
    BY <1>2, <2>1, AppendKeeps
  <2>3. TypeOK'
    BY <1>2, <2>1 DEF TypeOK, log_sys, Locations
  <2>4. pc'[t] = "pended" /\ \A s \in Callers \ {t} : pc'[s] = pc[s]
    BY <2>1 DEF TypeOK
  <2>5. WriterInv' /\ StageInv' /\ EarlyOnlyWhileFlushing'
    BY <2>1, <2>3, <2>4, LogFrame DEF Writing
  <2>6. ASSUME NEW s \in Callers \ {t} PROVE CallOK(s)'
    <3>1. /\ lsn <= lsn' /\ write_lsn <= write_lsn' /\ disk <= disk'
          /\ current_flush_lsn <= current_flush_lsn'
      BY <2>1, Numbers DEF log_sys
    <3> QED BY <2>1, <2>3, <2>4, <3>1, CallFrame
  <2>7. CallOK(t)'
    BY <2>1, <2>4 DEF CallInv, CallOK, log_sys, Writing
  <2>8. CallInv'
    BY <2>6, <2>7 DEF CallInv
  <2>9. ReturnedIsDurable'
    BY <2>1 DEF ReturnedIsDurable, log_sys, Greater
  <2> QED BY <2>2, <2>3, <2>5, <2>8, <2>9
<1> QED BY <1>1, <1>2 DEF LeaveCallback

(* When nothing is under way a caller becomes the one that writes.         *)
LEMMA StartWriteKeeps ==
  ASSUME IInv, NEW t \in Callers, StartWrite(t), ~WriteRunning,
         UNCHANGED <<lsn_callbacks, method, callbacks_buf, called, left_behind>>
  PROVE  IInv'
<1> USE DEF IInv
<1>1. n_pending_writes = 0 /\ n_pending_writes' = 1 /\ \A s \in Callers : ~Writing(s)
  BY DEF WriteRunning, TypeOK, WriterInv, StartWrite
<1>2. /\ pc[t] = "mutex" /\ pc'[t] = "sync"
      /\ \A s \in Callers \ {t} : pc'[s] = pc[s]
      /\ UNCHANGED <<call, returned, lsn, written_to_all_lsn, flushed_to_disk_lsn>>
      /\ write_lsn' = lsn /\ event' = FALSE
      /\ disk' = IF method = "O_DSYNC" THEN lsn ELSE disk
      /\ current_flush_lsn' = IF call[t].flush THEN lsn ELSE current_flush_lsn
  BY DEF StartWrite, Goto, Stays, TypeOK
<1>3. TypeOK'
  <2>1. pc' \in [Callers -> Locations]
    BY DEF StartWrite, Goto, TypeOK, Locations
  <2>2. /\ {lsn', write_lsn', written_to_all_lsn', current_flush_lsn'} \subseteq Lsns
        /\ {flushed_to_disk_lsn', disk'} \subseteq Lsns
    BY <1>2 DEF TypeOK
  <2>3. {lsn, write_lsn, written_to_all_lsn, current_flush_lsn, flushed_to_disk_lsn, disk}'
          \subseteq Lsns
    BY <2>2
  <2>4. n_pending_writes' \in 0..1
    BY <1>1
  <2>5. event' \in BOOLEAN
    BY <1>2
  <2> QED BY <1>2, <2>1, <2>3, <2>4, <2>5 DEF TypeOK
<1>4. /\ lsn <= lsn' /\ write_lsn <= write_lsn' /\ disk <= disk' /\ disk' <= write_lsn'
      /\ current_flush_lsn <= current_flush_lsn' /\ current_flush_lsn' <= write_lsn'
  BY <1>2, Numbers DEF StageInv
<1>5. WriterInv'
  BY <1>1, <1>2 DEF WriterInv, Writing
<1>6. StageInv'
  <2>1. /\ flushed_to_disk_lsn' <= disk' /\ written_to_all_lsn' <= write_lsn'
        /\ write_lsn' <= lsn' /\ (~call[t].flush => current_flush_lsn' <= flushed_to_disk_lsn')
    BY <1>1, <1>2, <1>4, <1>3, Numbers DEF StageInv
  <2>2. \A s \in Callers : Writing(s)' => s = t
    BY <1>1, <1>2 DEF Writing
  <2> QED BY <1>1, <1>2, <1>4, <2>1, <2>2 DEF StageInv
<1>7. CallInv'
  <2>1. \A s \in Callers \ {t} : CallOK(s)'
    BY <1>2, <1>3, <1>4, CallFrame
  <2>2. CallOK(t)'
    BY <1>2 DEF CallInv, CallOK, Writing
  <2> QED BY <2>1, <2>2 DEF CallInv
<1>8. QueueInv'
  BY <1>2, QueueFrame
<1>9. ReturnedIsDurable'
  BY <1>2, <1>3, <1>4, Numbers DEF ReturnedIsDurable, Greater
<1>10. EarlyOnlyWhileFlushing'
  <2>1. called <= disk
    BY DEF EarlyOnlyWhileFlushing
  <2>2. disk' \in Int
    BY <1>3, LogAssumption DEF TypeOK, Lsns
  <2> QED BY <1>4, <2>1, <2>2, Numbers DEF EarlyOnlyWhileFlushing
<1> QED BY <1>3, <1>5, <1>6, <1>7, <1>8, <1>9, <1>10

LEMMA MutexKeeps ==
  ASSUME IInv, NEW t \in Callers, Mutex(t)
  PROVE  IInv'
<1> USE DEF IInv
<1> DEFINE written == ~call[t].flush /\ written_to_all_lsn >= call[t].lsn
           empty   == ~call[t].flush /\ written_to_all_lsn = lsn
<1>1. CASE /\ Flushed(t) \/ written \/ (~WriteRunning /\ empty)
           /\ Return(t, "mutex") /\ UNCHANGED log_sys
  <2>1. pc[t] = "mutex"
    BY <1>1 DEF Return, Goto
  <2>2. \/ call[t].flush /\ call[t].lsn <= disk
        \/ ~call[t].flush /\ call[t].lsn <= write_lsn
    BY <1>1, Numbers DEF Flushed, StageInv, CallInv, CallOK
  <2> QED
    BY <1>1, <2>1, <2>2, NothingInHand, ReturnKeeps DEF Mutex, Writing
<1>2. CASE /\ Goto(t, "mutex", IF ~EnoughFor(t) THEN "retry"
                               ELSE IF call[t].flush /\ call[t].callback
                                 THEN "callback" ELSE "await")
           /\ Stays /\ UNCHANGED log_sys
  <2>1. pc[t] = "mutex" /\ Moves(t)
    BY <1>2 DEF Goto, Moves, Locations, Mutex
  <2>2. /\ pc'[t] \in {"retry", "callback", "await"} /\ UNCHANGED <<log_sys, call>>
        /\ pc'[t] \in {"callback", "await"} => EnoughFor(t)
        /\ pc'[t] = "callback" => call[t].flush
    BY <1>2 DEF Goto, Stays, TypeOK
  <2>3. CallOK(t)'
    BY <2>2, Numbers DEF CallInv, CallOK, EnoughFor, Writing, log_sys
  <2> QED
    BY <2>1, <2>3, MoveKeeps DEF Writing, Mutex
<1>3. CASE ~WriteRunning /\ StartWrite(t)
  BY <1>3, StartWriteKeeps DEF Mutex
<1> QED BY <1>1, <1>2, <1>3 DEF Mutex

LEMMA AwaitKeeps ==
  ASSUME IInv, NEW t \in Callers, Await(t)
  PROVE  IInv'
<1> USE DEF IInv
<1>1. CASE call[t].wait = "LOG_NO_WAIT" /\ Return(t, "await")
  <2>1. pc[t] = "await"
    BY <1>1 DEF Return, Goto
  <2> QED
    BY <1>1, <2>1, NothingInHand, ReturnKeeps DEF Await, Writing
<1>2. CASE Return(t, "woken")
  <2>1. pc[t] = "woken"
    BY <1>2 DEF Return, Goto
  <2>2. \/ call[t].flush /\ call[t].lsn <= disk
        \/ ~call[t].flush /\ call[t].lsn <= write_lsn
    BY <2>1, Numbers DEF CallInv, CallOK
  <2> QED
    BY <1>2, <2>1, <2>2, NothingInHand, ReturnKeeps DEF Await, Writing
<1>3. CASE Goto(t, "retry", IF event THEN "loop" ELSE "asleep") /\ Stays
  <2>1. pc[t] = "retry" /\ Moves(t)
    BY <1>3 DEF Goto, Moves, Locations, Await
  <2>2. pc'[t] \in {"loop", "asleep"} /\ UNCHANGED <<log_sys, call>>
    BY <1>3 DEF Goto, Stays, TypeOK, Await
  <2>3. CallOK(t)'
    BY <2>2 DEF CallInv, CallOK, Writing, log_sys
  <2> QED
    BY <2>1, <2>3, MoveKeeps DEF Writing, Await
<1>4. CASE /\ call[t].wait # "LOG_NO_WAIT"
           /\ Goto(t, "await", IF event THEN "woken" ELSE "waiting") /\ Stays
  <2>1. pc[t] = "await" /\ Moves(t)
    BY <1>4 DEF Goto, Moves, Locations, Await
  <2>2. /\ pc'[t] \in {"woken", "waiting"} /\ UNCHANGED <<log_sys, call>>
        /\ pc'[t] = "woken" => event
    BY <1>4 DEF Goto, Stays, TypeOK, Await
  <2>3. EnoughFor(t) /\ call[t].lsn <= lsn
    BY <2>1 DEF CallInv, CallOK
  <2>4. event => current_flush_lsn <= disk
    <3>1. event => n_pending_writes = 0
      BY Zenon DEF WriterInv
    <3> QED BY <3>1, Numbers DEF StageInv
  <2>5. event => call[t].lsn <= IF call[t].flush THEN disk ELSE write_lsn
    BY <2>3, <2>4, Numbers DEF EnoughFor
  <2>6. EnoughFor(t)' /\ call'[t].lsn <= lsn'
    BY <2>2, <2>3 DEF EnoughFor, log_sys
  <2>7. CallOK(t)'
    BY <2>2, <2>5, <2>6 DEF CallOK, Writing, log_sys
  <2> QED
    BY <2>1, <2>7, MoveKeeps DEF Writing, Await
<1> QED BY <1>1, <1>2, <1>3, <1>4 DEF Await

(* The one who writes goes on: what it has synced is durable, and so it    *)
(* may be claimed.                                                         *)
LEMMA SyncKeeps ==
  ASSUME IInv, NEW t \in Callers, Sync(t)
  PROVE  IInv'
<1> USE DEF IInv
<1>1. /\ pc[t] = "sync" /\ pc'[t] \in {"claim", "finish"}
      /\ \A s \in Callers \ {t} : pc'[s] = pc[s]
      /\ pc' \in [Callers -> Locations]
      /\ UNCHANGED <<call, returned, lsn, write_lsn, written_to_all_lsn, current_flush_lsn,
                     flushed_to_disk_lsn, n_pending_writes, event, lsn_callbacks, method,
                     callbacks_buf, called, left_behind>>
      /\ pc'[t] = "claim" <=> (call[t].flush \/ method = "O_DSYNC")
      /\ disk' = IF method # "O_DSYNC" /\ call[t].flush THEN write_lsn ELSE disk
  BY DEF Sync, Goto, Stays, TypeOK, Locations
<1>2. TypeOK'
  <2>1. {lsn, write_lsn, written_to_all_lsn, current_flush_lsn, flushed_to_disk_lsn, disk}'
          \subseteq Lsns
    BY <1>1 DEF TypeOK
  <2> QED BY <1>1, <2>1 DEF TypeOK
<1>3. disk <= disk' /\ disk' <= write_lsn /\ (method = "O_DSYNC" => disk' = write_lsn)
  BY <1>1, Numbers DEF StageInv
<1>4. \A s \in Callers : Writing(s) <=> Writing(s)'
  BY <1>1 DEF Writing
<1>5. \A s \in Callers : Writing(s) => s = t
  BY <1>1 DEF Writing, WriterInv
<1>6. WriterInv'
  BY <1>1, <1>4 DEF WriterInv
<1>7. StageInv'
  <2>1. flushed_to_disk_lsn' <= disk'
    BY <1>1, <1>2, <1>3, Numbers DEF StageInv
  <2>2. pc'[t] = "claim" => disk' = write_lsn
    BY <1>1, <1>3
  <2>3. ~call[t].flush => current_flush_lsn <= flushed_to_disk_lsn
    BY <1>1 DEF StageInv, Writing
  <2> QED BY <1>1, <1>3, <1>4, <1>5, <2>1, <2>2, <2>3 DEF StageInv
<1>8. CallInv'
  <2>1. /\ lsn <= lsn' /\ write_lsn <= write_lsn' /\ current_flush_lsn <= current_flush_lsn'
    BY <1>1, Numbers
  <2>2. \A s \in Callers \ {t} : CallOK(s)'
    BY <1>1, <1>2, <1>3, <2>1, CallFrame
  <2>3. CallOK(t)'
    BY <1>1 DEF CallInv, CallOK, Writing
  <2> QED BY <2>2, <2>3 DEF CallInv
<1>9. QueueInv'
  BY <1>1, QueueFrame
<1>10. ReturnedIsDurable'
  BY <1>1, <1>2, <1>3, Numbers DEF ReturnedIsDurable, Greater
<1>11. EarlyOnlyWhileFlushing'
  BY <1>1, <1>2, <1>3, Numbers DEF EarlyOnlyWhileFlushing, WriteRunning
<1> QED BY <1>2, <1>6, <1>7, <1>8, <1>9, <1>10, <1>11

LEMMA ClaimKeeps ==
  ASSUME IInv, NEW t \in Callers, Claim(t)
  PROVE  IInv'
<1> USE DEF IInv
<1>1. /\ pc[t] = "claim" /\ pc'[t] = "finish"
      /\ \A s \in Callers \ {t} : pc'[s] = pc[s]
      /\ pc' \in [Callers -> Locations]
      /\ UNCHANGED <<call, returned, lsn, write_lsn, written_to_all_lsn, current_flush_lsn,
                     disk, n_pending_writes, event, lsn_callbacks, method,
                     callbacks_buf, called, left_behind>>
      /\ flushed_to_disk_lsn' = write_lsn
  BY DEF Claim, Goto, Stays, TypeOK, Locations
<1>2. TypeOK'
  <2>1. {lsn, write_lsn, written_to_all_lsn, current_flush_lsn, flushed_to_disk_lsn, disk}'
          \subseteq Lsns
    BY <1>1 DEF TypeOK
  <2> QED BY <1>1, <2>1 DEF TypeOK
<1>3. disk = write_lsn /\ Writing(t)
  BY <1>1 DEF StageInv, Writing
<1>4. \A s \in Callers : Writing(s) <=> Writing(s)'
  BY <1>1 DEF Writing
<1>5. \A s \in Callers : Writing(s) => s = t
  BY <1>3 DEF WriterInv
<1>6. WriterInv'
  BY <1>1, <1>4 DEF WriterInv
<1>7. StageInv'
  <2>1. flushed_to_disk_lsn' = disk' /\ current_flush_lsn' <= flushed_to_disk_lsn'
    BY <1>1, <1>3 DEF StageInv
  <2>2. write_lsn <= write_lsn
    BY Numbers
  <2> QED BY <1>1, <1>3, <1>4, <1>5, <2>1, <2>2 DEF StageInv
<1>8. CallInv'
  <2>1. /\ lsn <= lsn' /\ write_lsn <= write_lsn' /\ disk <= disk'
        /\ current_flush_lsn <= current_flush_lsn'
    BY <1>1, Numbers
  <2>2. \A s \in Callers \ {t} : CallOK(s)'
    BY <1>1, <1>2, <2>1, CallFrame
  <2>3. CallOK(t)'
    BY <1>1 DEF CallInv, CallOK, Writing
  <2> QED BY <2>2, <2>3 DEF CallInv
<1>9. QueueInv'
  BY <1>1, QueueFrame
<1>10. ReturnedIsDurable'
  BY <1>1 DEF ReturnedIsDurable, Greater
<1>11. EarlyOnlyWhileFlushing'
  BY <1>1 DEF EarlyOnlyWhileFlushing, WriteRunning
<1> QED BY <1>2, <1>6, <1>7, <1>8, <1>9, <1>10, <1>11

(* The write is complete: every flush that was begun is on disk, so those  *)
(* who waited for it may go on.                                            *)
LEMMA FinishKeeps ==
  ASSUME IInv, NEW t \in Callers, Finish(t)
  PROVE  IInv'
<1> USE DEF IInv
<1>1. /\ pc[t] = "finish" /\ pc' = [Woken EXCEPT ![t] = "collect"]
      /\ UNCHANGED <<call, returned, lsn, write_lsn, current_flush_lsn, flushed_to_disk_lsn,
                     disk, lsn_callbacks, method, callbacks_buf, called, left_behind>>
      /\ written_to_all_lsn' = write_lsn /\ event' = TRUE
      /\ n_pending_writes' = n_pending_writes - 1
  BY DEF Finish, Stays
<1>2. /\ pc' \in [Callers -> Locations]
      /\ pc'[t] = "collect"
      /\ \A s \in Callers \ {t} :
           /\ pc[s] = "waiting" => pc'[s] = "woken"
           /\ pc[s] = "asleep" => pc'[s] = "loop"
           /\ pc[s] \notin {"waiting", "asleep"} => pc'[s] = pc[s]
  <2>1. Woken \in [Callers -> Locations]
    BY DEF Woken, TypeOK, Locations
  <2>2. \A s \in Callers :
           /\ pc[s] = "waiting" => Woken[s] = "woken"
           /\ pc[s] = "asleep" => Woken[s] = "loop"
           /\ pc[s] \notin {"waiting", "asleep"} => Woken[s] = pc[s]
    BY DEF Woken
  <2>3. pc' \in [Callers -> Locations]
    BY <1>1, <2>1 DEF Locations
  <2> QED BY <1>1, <2>1, <2>2, <2>3
<1>3. Writing(t) /\ \A s \in Callers : Writing(s) => s = t
  BY <1>1 DEF Writing, WriterInv
<1>4. n_pending_writes = 1 /\ n_pending_writes' = 0
  BY <1>1, <1>3 DEF WriterInv
<1>5. TypeOK'
  <2>1. {lsn, write_lsn, written_to_all_lsn, current_flush_lsn, flushed_to_disk_lsn, disk}'
          \subseteq Lsns
    BY <1>1 DEF TypeOK
  <2>2. n_pending_writes' \in 0..1
    BY <1>4
  <2>3. event' \in BOOLEAN
    BY <1>1
  <2> QED BY <1>1, <1>2, <2>1, <2>2, <2>3 DEF TypeOK
<1>6. \A s \in Callers : ~Writing(s)'
  BY <1>2, <1>3 DEF Writing
<1>7. WriterInv'
  <2>1. event' = (n_pending_writes' = 0)
    BY <1>1, <1>4
  <2>2. ~(n_pending_writes' = 1)
    BY <1>4
  <2> QED BY <1>6, <2>1, <2>2 DEF WriterInv
<1>8. current_flush_lsn <= flushed_to_disk_lsn /\ (call[t].flush => write_lsn = disk)
  <2>1. call[t].flush \/ method = "O_DSYNC" => flushed_to_disk_lsn = write_lsn
    BY <1>1, <1>3 DEF StageInv
  <2>2. ~call[t].flush => current_flush_lsn <= flushed_to_disk_lsn
    BY <1>3 DEF StageInv
  <2> QED BY <2>1, <2>2, Numbers DEF StageInv
<1>9. current_flush_lsn <= disk
  BY <1>8, Numbers DEF StageInv
<1>10. StageInv'
  <2>1. write_lsn <= write_lsn
    BY Numbers
  <2> QED BY <1>1, <1>6, <1>8, <2>1 DEF StageInv
<1>11. CallInv'
  <2>1. /\ lsn <= lsn' /\ write_lsn <= write_lsn' /\ disk <= disk'
        /\ current_flush_lsn <= current_flush_lsn'
    BY <1>1, Numbers
  <2>2. \A s \in Callers : pc'[s] = pc[s] => CallOK(s)'
    BY <1>1, <1>5, <2>1, CallFrame
  <2>3. CallOK(t)'
    BY <1>1, <1>2, <1>3, <1>8 DEF CallInv, CallOK, Writing
  <2>4. ASSUME NEW s \in Callers \ {t}, pc[s] = "waiting" PROVE CallOK(s)'
    <3>1. EnoughFor(s) /\ call[s].lsn <= lsn
      BY <2>4 DEF CallInv, CallOK
    <3>2. call[s].lsn <= IF call[s].flush THEN disk ELSE write_lsn
      BY <3>1, <1>9, Numbers DEF EnoughFor
    <3> QED BY <1>1, <1>2, <2>4, <3>1, <3>2 DEF CallOK, Writing
  <2>5. ASSUME NEW s \in Callers \ {t}, pc[s] = "asleep" PROVE CallOK(s)'
    BY <1>1, <1>2, <2>5 DEF CallInv, CallOK, Writing
  <2> QED BY <1>2, <2>2, <2>3, <2>4, <2>5 DEF CallInv
<1>12. QueueInv'
  BY <1>1, <1>2, QueueFrame
<1>13. ReturnedIsDurable'
  BY <1>1 DEF ReturnedIsDurable, Greater
<1>14. EarlyOnlyWhileFlushing'
  BY <1>1, <1>9, Numbers DEF EarlyOnlyWhileFlushing
<1> QED BY <1>5, <1>7, <1>10, <1>11, <1>12, <1>13, <1>14

(* A new call asks for no more than the log in memory has. *)
LEMMA EnterKeeps ==
  ASSUME IInv, NEW t \in Callers, NEW c, Enter(t, c), lsn' \in Lsns, lsn <= lsn',
         c \in [lsn : Lsns, wait : Waits, flush : BOOLEAN, callback : BOOLEAN], c.lsn <= lsn'
  PROVE  IInv'
<1> USE DEF IInv
<1>1. /\ pc[t] = "out" /\ pc'[t] = "loop" /\ call'[t] = c
      /\ \A s \in Callers \ {t} : pc'[s] = pc[s] /\ call'[s] = call[s]
      /\ pc' \in [Callers -> Locations]
      /\ call' \in [Callers -> [lsn : Lsns, wait : Waits, flush : BOOLEAN, callback : BOOLEAN]]
      /\ UNCHANGED <<returned, write_lsn, written_to_all_lsn, current_flush_lsn,
                     flushed_to_disk_lsn, disk, n_pending_writes, event, lsn_callbacks,
                     method, callbacks_buf, called, left_behind>>
  BY DEF Enter, Goto, TypeOK, Locations
<1>2. TypeOK'
  <2>1. {lsn, write_lsn, written_to_all_lsn, current_flush_lsn, flushed_to_disk_lsn, disk}'
          \subseteq Lsns
    BY <1>1 DEF TypeOK
  <2> QED BY <1>1, <2>1 DEF TypeOK
<1>3. \A s \in Callers : /\ Writing(s) <=> Writing(s)'
                         /\ Writing(s) => s # t
  BY <1>1 DEF Writing
<1>4. WriterInv'
  BY <1>1, <1>3 DEF WriterInv
<1>5. StageInv'
  <2>1. write_lsn' <= lsn'
    BY <1>1, <1>2, Numbers, LogAssumption DEF StageInv, Lsns
  <2> QED BY <1>1, <1>3, <2>1 DEF StageInv
<1>6. CallInv'
  <2>1. write_lsn <= write_lsn' /\ disk <= disk' /\ current_flush_lsn <= current_flush_lsn'
    BY <1>1, Numbers
  <2>2. \A s \in Callers \ {t} : CallOK(s)'
    BY <1>1, <1>2, <2>1, CallFrame
  <2>3. CallOK(t)'
    BY <1>1 DEF CallOK, Writing
  <2> QED BY <2>2, <2>3 DEF CallInv
<1>7. QueueInv'
  BY <1>1, QueueFrame
<1>8. ReturnedIsDurable' /\ EarlyOnlyWhileFlushing'
  BY <1>1 DEF ReturnedIsDurable, Greater, EarlyOnlyWhileFlushing, WriteRunning
<1> QED BY <1>2, <1>4, <1>5, <1>6, <1>7, <1>8

LEMMA CommitKeeps ==
  ASSUME IInv, NEW t \in Callers, Commit(t) \/ ForceLog(t)
  PROVE  IInv'
<1> USE LogAssumption DEF Lsns
<1>1. lsn \in Lsns /\ lsn \in Int
  BY DEF IInv, TypeOK
<1>2. CASE Commit(t)
  <2>1. lsn' = lsn + 1 /\ lsn' \in Lsns /\ lsn <= lsn' /\ lsn' <= lsn'
    BY <1>1, <1>2 DEF Commit
  <2>2. ASSUME NEW f \in BOOLEAN, NEW b \in BOOLEAN,
               Enter(t, [lsn |-> lsn', wait |-> "LOG_WAIT_ONE_GROUP", flush |-> f, callback |-> b])
        PROVE  IInv'
    <3> DEFINE c == [lsn |-> lsn', wait |-> "LOG_WAIT_ONE_GROUP", flush |-> f, callback |-> b]
    <3>1. /\ c \in [lsn : Lsns, wait : Waits, flush : BOOLEAN, callback : BOOLEAN]
          /\ c.lsn <= lsn'
      BY <2>1 DEF Waits
    <3>2. Enter(t, c)
      BY <2>2
    <3> HIDE DEF c
    <3> QED BY <2>1, <3>1, <3>2, EnterKeeps
  <2>3. (method # "nosync") \in BOOLEAN
    OBVIOUS
  <2> QED BY <1>2, <2>2, <2>3 DEF Commit
<1>3. CASE ForceLog(t)
  <2>1. lsn' = lsn /\ lsn' \in Lsns /\ lsn <= lsn'
    BY <1>1, <1>3 DEF ForceLog
  <2>2. ASSUME NEW upto \in Lsns, upto <= lsn, NEW w \in Waits, NEW f \in BOOLEAN,
               Enter(t, [lsn |-> upto, wait |-> w, flush |-> f, callback |-> FALSE])
        PROVE  IInv'
    <3> DEFINE c == [lsn |-> upto, wait |-> w, flush |-> f, callback |-> FALSE]
    <3>1. /\ c \in [lsn : Lsns, wait : Waits, flush : BOOLEAN, callback : BOOLEAN]
          /\ c.lsn <= lsn'
      BY <2>1, <2>2
    <3>2. Enter(t, c)
      BY <2>2
    <3> HIDE DEF c
    <3> QED BY <2>1, <3>1, <3>2, EnterKeeps
  <2>3. \A upto \in 1..lsn : upto \in Lsns /\ upto <= lsn
    BY <1>1
  <2>4. lsn <= lsn /\ "LOG_NO_WAIT" \in Waits /\ "LOG_WAIT_ALL_GROUPS" \in Waits
    BY <1>1 DEF Waits
  <2> QED BY <1>1, <1>3, <2>2, <2>3, <2>4 DEF ForceLog
<1> QED BY <1>2, <1>3

(* What a flusher takes from the back of the queue, and what it leaves.    *)
LEMMA CollectSplits ==
  ASSUME NEW q \in Seq(Callers), NEW k \in 0..Len(q)
  PROVE  LET rest == Len(q) - k
             mine == Reverse(SubSeq(q, rest + 1, Len(q)))
             left == SubSeq(q, 1, rest)
         IN  /\ mine \in Seq(Callers) /\ Len(mine) = k
             /\ \A i \in 1..k : mine[i] = q[Len(q) - i + 1]
             /\ left \in Seq(Callers) /\ Len(left) = rest
             /\ \A i \in 1..rest : left[i] = q[i]
<1> DEFINE rest == Len(q) - k
           back == SubSeq(q, rest + 1, Len(q))
           left == SubSeq(q, 1, rest)
<1>1. Len(q) \in Nat /\ k \in Nat /\ k <= Len(q) /\ rest \in Nat /\ rest <= Len(q)
  OBVIOUS
<1>2. /\ left \in Seq(Callers) /\ Len(left) = rest
      /\ \A i \in 1..rest : left[i] = q[i]
  BY <1>1
<1>3. back \in Seq(Callers) /\ Len(back) = k /\ \A i \in 1..k : back[i] = q[rest + i]
  BY <1>1
<1> HIDE DEF back
<1>4. Reverse(back) = [i \in 1..k |-> back[k - i + 1]]
  BY <1>3 DEF Reverse
<1>5. \A i \in 1..k : k - i + 1 \in 1..k
  BY <1>1
<1>6. \A i \in 1..k : back[k - i + 1] \in Callers
  BY <1>3, <1>5
<1>7. Reverse(back) \in Seq(Callers) /\ Len(Reverse(back)) = k
  BY <1>1, <1>4, <1>6
<1>8. \A i \in 1..k : Reverse(back)[i] = q[Len(q) - i + 1]
  <2> TAKE i \in 1..k
  <2>1. Reverse(back)[i] = back[k - i + 1]
    BY <1>4
  <2>2. back[k - i + 1] = q[rest + (k - i + 1)]
    BY <1>3, <1>5
  <2>3. rest + (k - i + 1) = Len(q) - i + 1
    BY <1>1
  <2> QED BY <2>1, <2>2, <2>3
<1> QED BY <1>2, <1>7, <1>8 DEF back

LEMMA CollectKeeps ==
  ASSUME IInv, NEW t \in Callers, Collect(t)
  PROVE  IInv'
<1> USE DEF IInv
<1> DEFINE q == lsn_callbacks
           k == Taken
           rest == Len(q) - k
<1>1. /\ pc[t] = "collect" /\ pc'[t] = "call" /\ \A s \in Callers \ {t} : pc'[s] = pc[s]
      /\ pc' \in [Callers -> Locations]
      /\ UNCHANGED <<log_sys, call, returned, method, called>>
      /\ left_behind' \in BOOLEAN
  BY DEF Collect, Goto, Stays, TypeOK, Locations
<1>2. q \in Seq(Callers) /\ callbacks_buf \in [Callers -> Seq(Callers)] /\ Len(q) \in Nat
  BY DEF TypeOK
<1>3. k \in 0..Len(q) /\ rest \in 0..Len(q)
  BY <1>2, LogAssumption DEF Taken
<1>4. /\ lsn_callbacks' = SubSeq(q, 1, rest)
      /\ callbacks_buf' = [callbacks_buf EXCEPT ![t] = Reverse(SubSeq(q, rest + 1, Len(q)))]
  BY DEF Collect
<1> HIDE DEF k
<1>5. /\ lsn_callbacks' \in Seq(Callers) /\ Len(lsn_callbacks') = rest
      /\ \A i \in 1..rest : lsn_callbacks'[i] = q[i]
  BY <1>2, <1>3, <1>4, CollectSplits
<1>6. /\ callbacks_buf'[t] \in Seq(Callers) /\ Len(callbacks_buf'[t]) = k
      /\ \A i \in 1..k : callbacks_buf'[t][i] = q[Len(q) - i + 1]
  BY <1>2, <1>3, <1>4, CollectSplits
<1>7. \A s \in Callers \ {t} : callbacks_buf'[s] = callbacks_buf[s]
  BY <1>2, <1>4
<1>8. TypeOK'
  <2>1. callbacks_buf' \in [Callers -> Seq(Callers)]
    BY <1>2, <1>4, <1>6
  <2> QED BY <1>1, <1>5, <2>1 DEF TypeOK, log_sys
<1>9. WriterInv' /\ StageInv' /\ EarlyOnlyWhileFlushing'
  BY <1>1, <1>8, LogFrame DEF Writing
<1>10. CallInv'
  <2>1. /\ lsn <= lsn' /\ write_lsn <= write_lsn' /\ disk <= disk'
        /\ current_flush_lsn <= current_flush_lsn'
    BY <1>1, Numbers DEF log_sys
  <2>2. \A s \in Callers \ {t} : CallOK(s)'
    BY <1>1, <1>8, <2>1, CallFrame
  <2>3. CallOK(t)'
    BY <1>1 DEF CallInv, CallOK, Writing, log_sys
  <2> QED BY <2>2, <2>3 DEF CallInv
<1>11. ReturnedIsDurable'
  BY <1>1 DEF ReturnedIsDurable, log_sys, Greater
<1>12. QueueInv'
  <2>1. \A i \in 1..Len(q) : q[i] \in Callers \ {t} /\ pc[q[i]] = "pended"
    BY <1>1, <1>2 DEF QueueInv
  <2>2. \A i \in 1..rest : i \in 1..Len(q)
    BY <1>3
  <2>3. \A i \in 1..k : Len(q) - i + 1 \in 1..Len(q) /\ ~(Len(q) - i + 1 \in 1..rest)
    BY <1>2, <1>3
  <2>4. \A i \in 1..Len(lsn_callbacks') : pc'[lsn_callbacks'[i]] = "pended"
    BY <1>1, <1>5, <2>1, <2>2
  <2>5. \A i, j \in 1..Len(lsn_callbacks') : lsn_callbacks'[i] = lsn_callbacks'[j] => i = j
    BY <1>5, <2>2 DEF QueueInv
  <2>6. ASSUME NEW s \in Callers, NEW i \in 1..Len(callbacks_buf'[s])
        PROVE  \/ s = t /\ i \in 1..k /\ callbacks_buf'[s][i] = q[Len(q) - i + 1]
               \/ /\ s # t /\ i \in 1..Len(callbacks_buf[s])
                  /\ callbacks_buf'[s][i] = callbacks_buf[s][i]
    BY <1>6, <1>7
  <2>7. ASSUME NEW s \in Callers, NEW i \in 1..Len(callbacks_buf[s])
        PROVE  /\ callbacks_buf[s][i] \in Callers \ {t} /\ pc[callbacks_buf[s][i]] = "pended"
               /\ pc[s] = "call" /\ s # t
               /\ \A j \in 1..Len(q) : callbacks_buf[s][i] # q[j]
    <3>1. callbacks_buf[s][i] \in Callers
      BY <1>2
    <3> QED BY <1>1, <3>1 DEF QueueInv
  <2>8. ASSUME NEW s \in Callers, NEW i \in 1..Len(callbacks_buf'[s])
        PROVE  /\ pc'[s] = "call" /\ pc'[callbacks_buf'[s][i]] = "pended"
    BY <1>1, <2>1, <2>3, <2>6, <2>7
  <2>9. ASSUME NEW s \in Callers, NEW i \in 1..Len(callbacks_buf'[s]),
               NEW j \in 1..Len(lsn_callbacks')
        PROVE  callbacks_buf'[s][i] # lsn_callbacks'[j]
    <3>1. lsn_callbacks'[j] = q[j] /\ j \in 1..Len(q) /\ j \in 1..rest
      BY <1>5, <2>2
    <3>2. CASE s = t
      <4>1. callbacks_buf'[s][i] = q[Len(q) - i + 1] /\ i \in 1..k
        BY <2>6, <3>2
      <4>2. Len(q) - i + 1 # j
        BY <2>3, <3>1, <4>1
      <4> QED BY <2>3, <3>1, <4>1, <4>2 DEF QueueInv
    <3>3. CASE s # t
      BY <2>6, <2>7, <3>1, <3>3
    <3> QED BY <3>2, <3>3
  <2>10. ASSUME NEW s \in Callers, NEW i \in 1..Len(callbacks_buf'[s]),
                NEW u \in Callers, NEW j \in 1..Len(callbacks_buf'[u]),
                callbacks_buf'[s][i] = callbacks_buf'[u][j]
         PROVE  u = s /\ i = j
    <3>1. CASE s = t /\ u = t
      <4>1. /\ i \in 1..k /\ j \in 1..k
            /\ q[Len(q) - i + 1] = q[Len(q) - j + 1]
        BY <2>6, <2>10, <3>1
      <4>2. Len(q) - i + 1 \in 1..Len(q) /\ Len(q) - j + 1 \in 1..Len(q)
        BY <2>3, <4>1
      <4>3. \A a, b \in 1..Len(q) : q[a] = q[b] => a = b
        BY DEF QueueInv
      <4>4. Len(q) - i + 1 = Len(q) - j + 1
        BY <4>1, <4>2, <4>3
      <4> QED BY <1>2, <1>3, <3>1, <4>1, <4>4
    <3>2. CASE s # t /\ u # t
      BY <2>6, <2>10, <3>2 DEF QueueInv
    <3>3. CASE s = t /\ u # t
      <4>1. callbacks_buf'[s][i] = q[Len(q) - i + 1] /\ Len(q) - i + 1 \in 1..Len(q)
        BY <2>3, <2>6, <3>3
      <4>2. /\ callbacks_buf'[u][j] = callbacks_buf[u][j] /\ j \in 1..Len(callbacks_buf[u])
        BY <2>6, <3>3
      <4>3. \A m \in 1..Len(q) : callbacks_buf[u][j] # q[m]
        BY <2>7, <4>2
      <4> QED BY <2>10, <4>1, <4>2, <4>3
    <3>4. CASE s # t /\ u = t
      <4>1. callbacks_buf'[u][j] = q[Len(q) - j + 1] /\ Len(q) - j + 1 \in 1..Len(q)
        BY <2>3, <2>6, <3>4
      <4>2. /\ callbacks_buf'[s][i] = callbacks_buf[s][i] /\ i \in 1..Len(callbacks_buf[s])
        BY <2>6, <3>4
      <4>3. \A m \in 1..Len(q) : callbacks_buf[s][i] # q[m]
        BY <2>7, <4>2
      <4> QED BY <2>10, <4>1, <4>2, <4>3
    <3> QED BY <3>1, <3>2, <3>3, <3>4
  <2> QED BY <2>4, <2>5, <2>8, <2>9, <2>10 DEF QueueInv
<1> QED BY <1>8, <1>9, <1>10, <1>11, <1>12

(* The first of the callbacks in hand is called: it is nobody else's, and  *)
(* a flush that covers it is on disk or under way.                         *)
LEMMA CallFirstKeeps ==
  ASSUME IInv, NEW t \in Callers, callbacks_buf[t] # <<>>, pc[t] = "call",
         NEW c, c = Head(callbacks_buf[t]),
         pc' = [pc EXCEPT ![c] = "out"],
         called' = Greater(called, call[c].lsn),
         call' = [call EXCEPT ![c] = NoCall],
         callbacks_buf' = [callbacks_buf EXCEPT ![t] = Tail(@)],
         UNCHANGED <<log_sys, lsn_callbacks, method, left_behind, returned>>
  PROVE  IInv'
<1> USE DEF IInv
<1> DEFINE b == callbacks_buf[t]
<1>1. /\ b \in Seq(Callers) /\ Len(b) \in Nat /\ Len(b) > 0 /\ 1 \in 1..Len(b) /\ c = b[1]
      /\ c \in Callers /\ Tail(b) \in Seq(Callers) /\ Len(Tail(b)) = Len(b) - 1
      /\ \A i \in 1..Len(Tail(b)) : Tail(b)[i] = b[i + 1]
  BY DEF TypeOK
<1>2. pc[c] = "pended" /\ c # t
  BY <1>1 DEF QueueInv
<1>3. /\ pc'[c] = "out" /\ call'[c] = NoCall
      /\ \A s \in Callers \ {c} : pc'[s] = pc[s] /\ call'[s] = call[s]
      /\ pc' \in [Callers -> Locations]
      /\ callbacks_buf'[t] = Tail(b) /\ \A s \in Callers \ {t} : callbacks_buf'[s] = callbacks_buf[s]
      /\ callbacks_buf' \in [Callers -> Seq(Callers)]
  BY <1>1 DEF TypeOK, Locations
<1>4. called' \in Lsns /\ (called' = called \/ called' = call[c].lsn)
  BY <1>1 DEF TypeOK, Greater
<1>5. TypeOK'
  <2>1. NoCall \in [lsn : Lsns, wait : Waits, flush : BOOLEAN, callback : BOOLEAN]
    BY LogAssumption DEF NoCall, Lsns, Waits
  <2>2. call' \in [Callers -> [lsn : Lsns, wait : Waits, flush : BOOLEAN, callback : BOOLEAN]]
    BY <2>1 DEF TypeOK
  <2> QED BY <1>3, <1>4, <2>2 DEF TypeOK, log_sys
<1>6. WriterInv'
  BY <1>2, <1>3 DEF WriterInv, Writing, log_sys
<1>7. StageInv'
  BY <1>2, <1>3 DEF StageInv, Writing, log_sys
<1>8. CallInv'
  <2>1. /\ lsn <= lsn' /\ write_lsn <= write_lsn' /\ disk <= disk'
        /\ current_flush_lsn <= current_flush_lsn'
    BY Numbers DEF log_sys
  <2>2. \A s \in Callers \ {c} : CallOK(s)'
    BY <1>3, <1>5, <2>1, CallFrame
  <2>3. CallOK(c)'
    BY <1>1, <1>3, <1>5, LogAssumption DEF CallOK, NoCall, Writing, TypeOK, Lsns
  <2> QED BY <2>2, <2>3 DEF CallInv
<1>9. ReturnedIsDurable'
  BY DEF ReturnedIsDurable, log_sys, Greater
<1>10. EarlyOnlyWhileFlushing'
  <2>1. call[c].lsn <= current_flush_lsn
    BY <1>1, <1>2 DEF CallInv, CallOK
  <2>2. n_pending_writes = 0 \/ WriteRunning
    BY DEF WriteRunning, TypeOK
  <2>3. call[c].lsn <= disk \/ (WriteRunning /\ current_flush_lsn >= call[c].lsn)
    BY <1>1, <2>1, <2>2, Numbers DEF StageInv
  <2> QED BY <1>4, <2>3 DEF EarlyOnlyWhileFlushing, WriteRunning, log_sys
<1>11. QueueInv'
  <2> DEFINE StillPended(e) == /\ e \in Callers \ {c} /\ pc[e] = "pended"
                               /\ \A j \in 1..Len(lsn_callbacks) : e # lsn_callbacks[j]
  <2>1. ASSUME NEW s \in Callers, NEW i \in 1..Len(callbacks_buf'[s])
        PROVE  \/ /\ s # t /\ i \in 1..Len(callbacks_buf[s])
                  /\ callbacks_buf'[s][i] = callbacks_buf[s][i]
               \/ /\ s = t /\ i + 1 \in 1..Len(b) /\ i + 1 # 1
                  /\ callbacks_buf'[s][i] = b[i + 1]
    BY <1>1, <1>3
  <2>2. ASSUME NEW s \in Callers, NEW i \in 1..Len(callbacks_buf'[s])
        PROVE  pc[s] = "call" /\ StillPended(callbacks_buf'[s][i])
    <3>1. callbacks_buf[s] \in Seq(Callers)
      BY DEF TypeOK
    <3>2. CASE s = t
      <4>1. i + 1 \in 1..Len(b) /\ i + 1 # 1 /\ callbacks_buf'[s][i] = b[i + 1]
        BY <2>1, <3>2
      <4>2. \A m, n \in 1..Len(b) : b[m] = b[n] => m = n
        BY DEF QueueInv
      <4>3. b[i + 1] # b[1]
        BY <1>1, <4>1, <4>2
      <4>4. b[i + 1] \in Callers
        BY <1>1, <4>1
      <4> QED BY <1>1, <3>2, <4>1, <4>3, <4>4 DEF QueueInv
    <3>3. CASE s # t
      <4>1. i \in 1..Len(callbacks_buf[s]) /\ callbacks_buf'[s][i] = callbacks_buf[s][i]
        BY <2>1, <3>3
      <4>2. callbacks_buf[s][i] \in Callers /\ callbacks_buf[s][i] # b[1]
        BY <1>1, <3>1, <3>3, <4>1 DEF QueueInv
      <4> QED BY <1>1, <4>1, <4>2 DEF QueueInv
    <3> QED BY <3>2, <3>3
  <2>3. \A i \in 1..Len(lsn_callbacks) : lsn_callbacks[i] \in Callers \ {c}
    <3>1. \A i \in 1..Len(lsn_callbacks) : lsn_callbacks[i] \in Callers
      BY DEF TypeOK
    <3>2. \A i \in 1..Len(lsn_callbacks) : b[1] # lsn_callbacks[i]
      BY <1>1 DEF QueueInv
    <3> QED BY <1>1, <3>1, <3>2
  <2>4. \A i \in 1..Len(lsn_callbacks') : pc'[lsn_callbacks'[i]] = "pended"
    BY <1>3, <2>3 DEF QueueInv
  <2>5. ASSUME NEW s \in Callers, NEW i \in 1..Len(callbacks_buf'[s]),
               NEW u \in Callers, NEW j \in 1..Len(callbacks_buf'[u]),
               callbacks_buf'[s][i] = callbacks_buf'[u][j]
        PROVE  u = s /\ i = j
    <3>1. CASE s = t /\ u = t
      <4>1. i + 1 \in 1..Len(b) /\ j + 1 \in 1..Len(b) /\ b[i + 1] = b[j + 1]
        BY <2>1, <2>5, <3>1
      <4>2. i + 1 = j + 1
        BY <4>1 DEF QueueInv
      <4> QED BY <3>1, <4>2
    <3>2. CASE s # t /\ u # t
      <4>1. /\ i \in 1..Len(callbacks_buf[s]) /\ j \in 1..Len(callbacks_buf[u])
            /\ callbacks_buf[s][i] = callbacks_buf[u][j]
        BY <2>1, <2>5, <3>2
      <4> QED BY <4>1 DEF QueueInv
    <3>3. CASE s = t /\ u # t
      <4>1. /\ i + 1 \in 1..Len(b) /\ j \in 1..Len(callbacks_buf[u])
            /\ b[i + 1] = callbacks_buf[u][j]
        BY <2>1, <2>5, <3>3
      <4> QED BY <3>3, <4>1 DEF QueueInv
    <3>4. CASE s # t /\ u = t
      <4>1. /\ j + 1 \in 1..Len(b) /\ i \in 1..Len(callbacks_buf[s])
            /\ b[j + 1] = callbacks_buf[s][i]
        BY <2>1, <2>5, <3>4
      <4> QED BY <3>4, <4>1 DEF QueueInv
    <3> QED BY <3>1, <3>2, <3>3, <3>4
  <2>6. ASSUME NEW s \in Callers, NEW i \in 1..Len(callbacks_buf'[s])
        PROVE  /\ pc'[s] = "call" /\ pc'[callbacks_buf'[s][i]] = "pended"
               /\ \A j \in 1..Len(lsn_callbacks') : callbacks_buf'[s][i] # lsn_callbacks'[j]
    <3> HIDE DEF StillPended
    <3>1. pc[s] = "call" /\ StillPended(callbacks_buf'[s][i])
      BY <2>2
    <3>2. PICK e : e = callbacks_buf'[s][i]
      OBVIOUS
    <3>3. /\ e \in Callers \ {c} /\ pc[e] = "pended"
          /\ \A j \in 1..Len(lsn_callbacks) : e # lsn_callbacks[j]
      BY <3>1, <3>2 DEF StillPended
    <3>4. pc'[s] = "call" /\ pc'[e] = "pended"
      BY <1>2, <1>3, <3>1, <3>3
    <3>5. \A j \in 1..Len(lsn_callbacks') : e # lsn_callbacks'[j]
      BY <3>3
    <3> QED BY <3>2, <3>4, <3>5
  <2>7. \A i, j \in 1..Len(lsn_callbacks') : lsn_callbacks'[i] = lsn_callbacks'[j] => i = j
    BY DEF QueueInv
  <2> QED BY <2>4, <2>5, <2>6, <2>7 DEF QueueInv
<1> QED BY <1>5, <1>6, <1>7, <1>8, <1>9, <1>10, <1>11

LEMMA CallBackKeeps ==
  ASSUME IInv, NEW t \in Callers, CallBack(t)
  PROVE  IInv'
<1> USE DEF IInv
<1>1. CASE callbacks_buf[t] = <<>> /\ Return(t, "call") /\ UNCHANGED <<callbacks_buf, called>>
  <2>1. pc[t] = "call"
    BY <1>1 DEF Return, Goto
  <2>2. \/ call[t].flush /\ call[t].lsn <= disk
        \/ ~call[t].flush /\ call[t].lsn <= write_lsn
    BY <2>1, Numbers DEF CallInv, CallOK
  <2> QED
    BY <1>1, <2>1, <2>2, ReturnKeeps DEF CallBack, Writing
<1>2. CASE callbacks_buf[t] # <<>>
  BY <1>2, CallFirstKeeps DEF CallBack
<1> QED BY <1>1, <1>2 DEF CallBack

-----------------------------------------------------------------------------
(* The results *)

(* The inductive invariant holds of every behaviour of log_write_up_to and *)
(* its callers.                                                            *)
THEOREM LogInvariant == Spec => []IInv
<1>1. Init => IInv
  <2> SUFFICES ASSUME Init PROVE IInv
    OBVIOUS
  <2> USE LogAssumption DEF Init, Lsns
  <2>1. NoCall \in [lsn : Lsns, wait : Waits, flush : BOOLEAN, callback : BOOLEAN]
    BY DEF NoCall, Waits
  <2>2. lsn_callbacks \in Seq(Callers) /\ callbacks_buf \in [Callers -> Seq(Callers)]
    OBVIOUS
  <2>3. TypeOK
    <3>1. /\ {lsn, write_lsn, written_to_all_lsn, current_flush_lsn, flushed_to_disk_lsn, disk}
               \subseteq Lsns
          /\ n_pending_writes \in 0..1 /\ called \in Lsns
          /\ returned \in [file : Lsns, disk : Lsns]
      OBVIOUS
    <3>2. pc \in [Callers -> Locations]
      BY DEF Locations
    <3>3. call \in [Callers -> [lsn : Lsns, wait : Waits, flush : BOOLEAN, callback : BOOLEAN]]
      BY <2>1
    <3>4. event \in BOOLEAN /\ left_behind \in BOOLEAN
      OBVIOUS
    <3> QED BY <2>2, <3>1, <3>2, <3>3, <3>4 DEF TypeOK
  <2>4. \A t \in Callers : pc[t] = "out" /\ call[t] = NoCall /\ callbacks_buf[t] = <<>>
    OBVIOUS
  <2>5. WriterInv
    <3>1. event = (n_pending_writes = 0)
      OBVIOUS
    <3> QED BY <2>4, <3>1 DEF WriterInv, Writing
  <2>6. StageInv
    BY <2>4 DEF StageInv, Writing
  <2>7. CallInv
    BY <2>4 DEF CallInv, CallOK, NoCall, Writing
  <2>8. QueueInv
    BY <2>4 DEF QueueInv
  <2>9. ReturnedIsDurable /\ EarlyOnlyWhileFlushing
    BY DEF ReturnedIsDurable, EarlyOnlyWhileFlushing, Greater
  <2> QED BY <2>3, <2>5, <2>6, <2>7, <2>8, <2>9 DEF IInv
<1>2. IInv /\ [Next]_vars => IInv'
  <2> SUFFICES ASSUME IInv, [Next]_vars PROVE IInv'
    OBVIOUS
  <2>1. ASSUME NEW t \in Connections, Commit(t) PROVE IInv'
    BY <2>1, CommitKeeps DEF Callers
  <2>2. ASSUME NEW t \in Background, ForceLog(t) PROVE IInv'
    BY <2>2, CommitKeeps DEF Callers
  <2>3. ASSUME NEW t \in Callers, log_write_up_to(t) PROVE IInv'
    BY <2>3, LoopKeeps, LookKeeps, LeaveCallbackKeeps, MutexKeeps, AwaitKeeps, SyncKeeps,
       ClaimKeeps, FinishKeeps, CollectKeeps, CallBackKeeps DEF log_write_up_to
  <2>4. CASE UNCHANGED vars
    <3>1. TypeOK' /\ QueueInv' /\ ReturnedIsDurable' /\ EarlyOnlyWhileFlushing'
      BY <2>4 DEF vars, IInv, TypeOK, QueueInv, ReturnedIsDurable, EarlyOnlyWhileFlushing,
                  WriteRunning, Greater
    <3>2. WriterInv' /\ StageInv'
      BY <2>4 DEF vars, IInv, WriterInv, StageInv, Writing
    <3>3. CallInv'
      BY <2>4 DEF vars, IInv, CallInv, CallOK, Writing, EnoughFor
    <3> QED BY <3>1, <3>2, <3>3 DEF IInv
  <2> QED BY <2>1, <2>2, <2>3, <2>4 DEF Next
<1> QED BY <1>1, <1>2, PTL DEF Spec

(* The counters of the log stay within the lsns handed out, and every      *)
(* caller is somewhere in log_write_up_to with a call of the right shape.  *)
THEOREM LogTypeCorrect == Spec => []TypeOK
<1>1. IInv => TypeOK
  BY DEF IInv
<1> QED BY <1>1, LogInvariant, PTL

(* "ut_a(log_sys->n_pending_writes == 1)": the counter of pending writes   *)
(* is the number of threads between the start of a write and its end, and  *)
(* log_sys never claims more than the disk has.                            *)
THEOREM LogOneWriter == Spec => []OneWriter
<1>1. IInv => OneWriter
  <2> SUFFICES ASSUME IInv PROVE OneWriter
    OBVIOUS
  <2> DEFINE W == {t \in Callers : pc[t] \in {"sync", "claim", "finish"}}
  <2>1. CASE n_pending_writes = 1
    <3>1. PICK t \in Callers : Writing(t)
      BY <2>1 DEF IInv, WriterInv
    <3>2. W = {t}
      BY <3>1 DEF IInv, WriterInv, Writing
    <3>3. Cardinality(W) = 1
      BY <3>2, FS_Singleton
    <3> QED BY <2>1, <3>3 DEF OneWriter, IInv, StageInv
  <2>2. CASE n_pending_writes = 0
    <3>1. W = {}
      BY <2>2 DEF IInv, WriterInv, Writing
    <3>2. Cardinality(W) = 0
      BY <3>1, FS_EmptySet
    <3> QED BY <2>2, <3>2 DEF OneWriter, IInv, StageInv
  <2> QED BY <2>1, <2>2 DEF IInv, TypeOK
<1> QED BY <1>1, LogInvariant, PTL

(* A call of log_write_up_to that returned 0 kept its word: what it was    *)
(* asked to flush is on disk, what it was asked to write is written.       *)
THEOREM LogReturnedIsDurable == Spec => []ReturnedIsDurable
<1>1. IInv => ReturnedIsDurable
  BY DEF IInv
<1> QED BY <1>1, LogInvariant, PTL

(* A callback runs before its lsn is on disk only while a flush that       *)
(* covers the lsn is under way.                                            *)
THEOREM LogEarlyOnlyWhileFlushing == Spec => []EarlyOnlyWhileFlushing
<1>1. IInv => EarlyOnlyWhileFlushing
  BY DEF IInv
<1> QED BY <1>1, LogInvariant, PTL
=============================================================================
