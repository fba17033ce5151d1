---------------------------- MODULE ThreadPool ----------------------------
(***************************************************************************)
(* One thread group of the server's thread pool (sql/threadpool_unix.cc),  *)
(* which Project3 runs its pended commands on: a queue of connections with *)
(* work, one listener on the epoll descriptor, the workers, and the timer  *)
(* that looks for stalls.  What a worker does with a connection it has     *)
(* taken is in the module PendedCommit.                                    *)
(*                                                                         *)
(* A section under the group's mutex is one step.  Shutdown and a change   *)
(* of thread_pool_size are left out.                                       *)
(***************************************************************************)
EXTENDS Integers, Sequences, FiniteSets, SequencesExt

CONSTANTS Connections,
          max_threads,    \* threadpool_max_threads; below 4 nothing is throttled
          oversubscribe,  \* threadpool_oversubscribe, at least 1
          NULL

Workers == 1..max_threads

ASSUME PoolAssumption ==
  /\ max_threads \in 2..3 /\ oversubscribe \in Nat \ {0}
  /\ IsFiniteSet(Connections) /\ NULL \notin Connections \cup Workers

VARIABLES
  queue,               \* connections with work nobody has taken
  waiting_threads,     \* idle workers, the one that slept last first
  listener,            \* the worker that polls, or NULL
  active_thread_count,
  io_event_count,      \* some, since the timer looked last ...
  queue_event_count,   \* ... and here too
  stalled,
  connections,         \* those connection_count counts
  armed,               \* epoll watches them, until it has reported once
  readable,            \* there are bytes, or a hangup, on the socket
  events,              \* what the listener got from epoll and has not handed out
  pc, conn             \* where each worker is, and the connection it works on

groupVars == <<queue, waiting_threads, listener, active_thread_count, io_event_count,
               queue_event_count, stalled, connections, armed, readable, events, pc, conn>>
counters == <<io_event_count, queue_event_count, stalled>>
sockets == <<connections, armed, readable, events>>

Idle == {"start", "poll", "deliver", "back", "asleep", "woken", "exit"}
Handling == {"handle", "phase1", "execute", "waiting", "commit", "mark", "reset", "test",
             "phase2", "rearm", "abort"}

GroupTypeOK ==
  /\ queue \in Seq(Connections) /\ events \in Seq(Connections)
  /\ waiting_threads \in Seq(Workers)
  /\ listener \in Workers \cup {NULL}
  /\ active_thread_count \in 0..max_threads
  /\ io_event_count \in BOOLEAN /\ queue_event_count \in BOOLEAN /\ stalled \in BOOLEAN
  /\ connections \subseteq Connections /\ armed \subseteq Connections /\ readable \subseteq Connections
  /\ pc \in [Workers -> Idle \cup Handling \cup {"none"}]
  /\ conn \in [Workers -> Connections \cup {NULL}]

GroupInit ==
  /\ queue = <<>> /\ waiting_threads = <<>> /\ listener = NULL
  /\ active_thread_count = 0
  /\ io_event_count = FALSE /\ queue_event_count = FALSE /\ stalled = FALSE
  /\ connections = {} /\ armed = {} /\ readable = {} /\ events = <<>>
  /\ pc = [w \in Workers |-> "none"]
  /\ conn = [w \in Workers |-> NULL]

(* thread_count, when the workers are where p says. *)
thread_count(p) == Cardinality({w \in Workers : p[w] # "none"})

-----------------------------------------------------------------------------
(* Waking and creating workers: p and a are pc and active_thread_count as  *)
(* the caller leaves them.                                                 *)

Nothing(p, a) ==
  pc' = p /\ active_thread_count' = a /\ UNCHANGED waiting_threads

wake_thread(p, a) ==
  /\ waiting_threads # <<>>
  /\ pc' = [p EXCEPT ![Head(waiting_threads)] = "woken"]
  /\ waiting_threads' = Tail(waiting_threads)
  /\ active_thread_count' = a

(* create_worker and add_thread_count: no more than max_threads, which is  *)
(* at least two.                                                           *)
create_worker(p, a) ==
  IF thread_count(p) >= max_threads THEN Nothing(p, a)
  ELSE /\ pc' = [p EXCEPT ![CHOOSE w \in Workers : p[w] = "none"] = "start"]
       /\ active_thread_count' = a + 1
       /\ UNCHANGED waiting_threads

(* Mutated wake_or_create_thread: nobody is created while somebody exists. *)
WakeOnly(p, a) ==
  \/ wake_thread(p, a)
  \/ waiting_threads = <<>> /\ thread_count(p) > 0 /\ Nothing(p, a)
  \/ waiting_threads = <<>> /\ thread_count(p) = 0 /\ create_worker(p, a)

wake_or_create_thread(p, a) ==
  \/ wake_thread(p, a)
  \/ waiting_threads = <<>> /\ thread_count(p) > Cardinality(connections) /\ Nothing(p, a)
  \/ waiting_threads = <<>> /\ thread_count(p) <= Cardinality(connections) /\ create_worker(p, a)

(* Somebody else than a worker puts a connection into the queue. *)
queue_put(c) ==
  /\ queue' = Append(queue, c)
  /\ \/ active_thread_count = 0 /\ wake_or_create_thread(pc, 0)
     \/ active_thread_count > 0 /\ Nothing(pc, active_thread_count)
  /\ UNCHANGED <<listener, counters, armed, readable, events, conn>>

-----------------------------------------------------------------------------
(* get_event *)

too_many_threads(a) == a >= 1 + oversubscribe /\ ~stalled

ready == armed \cap readable

(* One round of the loop, by a worker that a counts as active; sleepers    *)
(* are the waiting threads without it.                                     *)
Round(w, a, sleepers) ==
  LET over == too_many_threads(a)
      dry == over \/ queue = <<>>
      Take(c) == /\ pc' = [pc EXCEPT ![w] = "handle"]
                 /\ conn' = [conn EXCEPT ![w] = c]
                 /\ active_thread_count' = a
                 /\ stalled' = FALSE
                 /\ waiting_threads' = sleepers /\ UNCHANGED listener
      Rest(p) == /\ pc' = [pc EXCEPT ![w] = p]
                 /\ active_thread_count' = a - 1
                 /\ UNCHANGED <<queue, io_event_count, stalled, armed, conn>>
  IN  /\ queue_event_count' = (queue_event_count \/ ~over)
      /\ UNCHANGED <<connections, readable, events>>
      /\ \/ /\ ~dry
            /\ Take(Head(queue))
            /\ queue' = Tail(queue) /\ UNCHANGED <<io_event_count, armed>>
         \/ /\ dry /\ listener = NULL
            /\ Rest("poll")
            /\ listener' = w /\ waiting_threads' = sleepers
         \/ /\ dry /\ listener # NULL /\ ~over
            /\ \E c \in ready : Take(c) /\ armed' = armed \ {c}
            /\ io_event_count' = TRUE /\ UNCHANGED queue
         \/ /\ dry /\ listener # NULL /\ (over \/ ready = {})
            /\ Rest("asleep")
            /\ waiting_threads' = <<w>> \o sleepers /\ UNCHANGED listener

(* get_event is called, ... *)
GetEvent(w) == pc[w] = "start" /\ Round(w, active_thread_count, waiting_threads)

(* Mutated Woken: a woken worker does not count itself again. *)
WokenUncounted(w) == pc[w] = "woken" /\ Round(w, active_thread_count, waiting_threads)

(* ... or goes on after somebody has woken the worker, ... *)
Woken(w) == pc[w] = "woken" /\ Round(w, active_thread_count + 1, waiting_threads)

(* A worker that nobody has woken takes itself off the list. *)
Sleepers(w) ==
  {RemoveAt(waiting_threads, i) : i \in {k \in 1..Len(waiting_threads) : waiting_threads[k] = w}}

(* ... or the wait ends for no reason at all, ... *)
Spurious(w) ==
  pc[w] = "asleep" /\ \E sleepers \in Sleepers(w) : Round(w, active_thread_count + 1, sleepers)

(* ... or it times out, which happens to a woken worker too, and the       *)
(* worker leaves.                                                          *)
Timeout(w) ==
  /\ \/ pc[w] = "asleep" /\ waiting_threads' \in Sleepers(w)
     \/ pc[w] = "woken" /\ UNCHANGED waiting_threads
  /\ pc' = [pc EXCEPT ![w] = "exit"]
  /\ active_thread_count' = active_thread_count + 1
  /\ stalled' = FALSE
  /\ UNCHANGED <<queue, listener, io_event_count, queue_event_count, sockets, conn>>

(* The end of worker_main. *)
Exit(w) ==
  /\ pc[w] = "exit"
  /\ pc' = [pc EXCEPT ![w] = "none"]
  /\ active_thread_count' = active_thread_count - 1
  /\ UNCHANGED <<queue, waiting_threads, listener, counters, sockets, conn>>

(* The listener's io_poll_wait returns everything that is ready. *)
Poll(w) ==
  /\ pc[w] = "poll" /\ ready # {}
  /\ pc' = [pc EXCEPT ![w] = "deliver"]
  /\ events' \in SetToSeqs(ready)
  /\ armed' = armed \ ready
  /\ UNCHANGED <<queue, waiting_threads, listener, active_thread_count, counters,
                 connections, readable, conn>>

(* It keeps the first event if the queue is empty, or queues them all and  *)
(* sees to it that somebody takes them.                                    *)
Deliver(w) ==
  /\ pc[w] = "deliver"
  /\ io_event_count' = TRUE
  /\ events' = <<>>
  /\ \/ /\ queue = <<>>
        /\ queue' = Tail(events)
        /\ conn' = [conn EXCEPT ![w] = Head(events)]
        /\ Nothing([pc EXCEPT ![w] = "back"], active_thread_count)
     \/ /\ queue # <<>>
        /\ queue' = queue \o events
        /\ UNCHANGED conn
        /\ LET p == [pc EXCEPT ![w] = "poll"]
               a == active_thread_count
           IN  \/ a = 0 /\ wake_thread(p, a)
               \/ a = 0 /\ waiting_threads = <<>> /\ thread_count(p) = 1 /\ create_worker(p, a)
               \/ /\ a > 0 \/ (waiting_threads = <<>> /\ thread_count(p) > 1)
                  /\ Nothing(p, a)
  /\ UNCHANGED <<listener, queue_event_count, stalled, connections, armed, readable>>

(* Back in get_event, the listener is a worker again. *)
Back(w) ==
  /\ pc[w] = "back"
  /\ pc' = [pc EXCEPT ![w] = "handle"]
  /\ active_thread_count' = active_thread_count + 1
  /\ listener' = NULL
  /\ stalled' = FALSE
  /\ UNCHANGED <<queue, waiting_threads, io_event_count, queue_event_count, sockets, conn>>

-----------------------------------------------------------------------------
(* A worker that waits for a lock or for IO, and the timer *)

wait_begin(w) ==
  /\ pc[w] = "execute"
  /\ LET p == [pc EXCEPT ![w] = "waiting"]
         a == active_thread_count - 1
         stuck == a = 0 /\ (queue = <<>> \/ listener = NULL)
     IN  \/ stuck /\ wake_or_create_thread(p, a)
         \/ ~stuck /\ Nothing(p, a)
  /\ UNCHANGED <<queue, listener, counters, sockets, conn>>

wait_end(w) ==
  /\ pc[w] = "waiting"
  /\ pc' = [pc EXCEPT ![w] = "commit"]
  /\ active_thread_count' = active_thread_count + 1
  /\ UNCHANGED <<queue, waiting_threads, listener, counters, sockets, conn>>

check_stall ==
  LET a == active_thread_count
      starved == queue # <<>> /\ ~queue_event_count
  IN  /\ \/ /\ listener = NULL /\ ~io_event_count
            /\ wake_or_create_thread(pc, a)
            /\ UNCHANGED counters
         \/ /\ listener # NULL \/ io_event_count
            /\ io_event_count' = FALSE /\ queue_event_count' = FALSE
            /\ \/ starved /\ stalled' = TRUE /\ wake_or_create_thread(pc, a)
               \/ ~starved /\ UNCHANGED stalled /\ Nothing(pc, a)
      /\ UNCHANGED <<queue, listener, sockets, conn>>

(* What a worker does between two connections. *)
get_event(w) ==
  GetEvent(w) \/ Woken(w) \/ Exit(w) \/ Poll(w) \/ Deliver(w) \/ Back(w)
=============================================================================
