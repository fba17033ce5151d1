--------------------------- MODULE PendedCommit ---------------------------
(***************************************************************************)
(* Project3's pended commands: a command is run in two phases.  When the   *)
(* commit of phase 1 has left a callback with the log (LogFlush) the       *)
(* worker drops the connection before phase 2, which answers the client;   *)
(* the callback puts the connection back into the queue of its thread      *)
(* group (ThreadPool).  pend_ready_state decides who of the two came       *)
(* first: 0 not ready, 1 the worker has dropped the connection, 2 the      *)
(* command failed, 3 the callback has run.                                 *)
(***************************************************************************)
EXTENDS ThreadPool

CONSTANT MaxRequests   \* bound: requests the clients send in one behaviour

ASSUME RequestsAssumption == MaxRequests \in Nat

VARIABLES
  state,             \* of each connection: "new", "counted", "live" or "gone"
  logged_in,         \* connections
  is_pended,         \* connections
  pend_ready_state,
  killed,            \* connections somebody has killed
  callback,          \* where finalize_phase is, for each connection
  requests,          \* how many requests the clients have sent
  unanswered,        \* the clients that wait for an answer
  early              \* history: connections whose callback ran before line 4917

thdVars == <<state, logged_in, is_pended, pend_ready_state, killed, callback, requests,
             unanswered, early>>
vars == <<groupVars, thdVars>>

Callbacks == {"none", "queued", "spin", "check", "put", "undefined"}

TypeOK ==
  /\ GroupTypeOK
  /\ state \in [Connections -> {"new", "counted", "live", "gone"}]
  /\ logged_in \subseteq Connections /\ is_pended \subseteq Connections
  /\ killed \subseteq Connections /\ unanswered \subseteq Connections
  /\ early \subseteq Connections
  /\ pend_ready_state \in [Connections -> 0..3]
  /\ callback \in [Connections -> Callbacks]
  /\ requests \in 0..MaxRequests

Init ==
  /\ GroupInit
  /\ state = [c \in Connections |-> "new"]
  /\ logged_in = {} /\ is_pended = {} /\ killed = {} /\ unanswered = {} /\ early = {}
  /\ pend_ready_state = [c \in Connections |-> 0]
  /\ callback = [c \in Connections |-> "none"]
  /\ requests = 0

-----------------------------------------------------------------------------
(* Clients *)

(* tp_add_connection: the connection is counted, ... *)
Connect(c) ==
  /\ state[c] = "new"
  /\ state' = [state EXCEPT ![c] = "counted"]
  /\ connections' = connections \cup {c}
  /\ UNCHANGED <<queue, waiting_threads, listener, active_thread_count, counters, armed,
                 readable, events, pc, conn>>
  /\ UNCHANGED <<logged_in, is_pended, pend_ready_state, killed, callback, requests,
                 unanswered, early>>

(* ... and a worker shall do the login. *)
QueueLogin(c) ==
  /\ state[c] = "counted"
  /\ state' = [state EXCEPT ![c] = "live"]
  /\ queue_put(c)
  /\ UNCHANGED connections
  /\ UNCHANGED <<logged_in, is_pended, pend_ready_state, killed, callback, requests,
                 unanswered, early>>

(* A client sends one request at a time. *)
Send(c) ==
  /\ c \in logged_in \ unanswered /\ state[c] = "live"
  /\ requests < MaxRequests
  /\ requests' = requests + 1
  /\ unanswered' = unanswered \cup {c}
  /\ readable' = readable \cup {c}
  /\ UNCHANGED <<queue, waiting_threads, listener, active_thread_count, counters, connections,
                 armed, events, pc, conn>>
  /\ UNCHANGED <<state, logged_in, is_pended, pend_ready_state, killed, callback, early>>

(* KILL CONNECTION, or wait_timeout: the flag is set and the socket shut   *)
(* down, which epoll reports.                                              *)
Kill(c) ==
  /\ c \in logged_in \ killed /\ state[c] = "live"
  /\ killed' = killed \cup {c}
  /\ readable' = readable \cup {c}
  /\ UNCHANGED <<queue, waiting_threads, listener, active_thread_count, counters, connections,
                 armed, events, pc, conn>>
  /\ UNCHANGED <<state, logged_in, is_pended, pend_ready_state, callback, requests, unanswered,
                 early>>

-----------------------------------------------------------------------------
(* A worker with a connection *)

Goto(w, from, to) ==
  /\ pc[w] = from
  /\ pc' = [pc EXCEPT ![w] = to]
  /\ UNCHANGED <<queue, waiting_threads, listener, active_thread_count, counters, connections,
                 events>>

Holds(w) == UNCHANGED <<armed, readable, conn>>

(* The worker has nothing more to do with the connection. *)
Drop(w) == conn' = [conn EXCEPT ![w] = NULL]

(* handle_event: the login, or threadpool_process_request, which gives up  *)
(* a killed connection and goes on in the middle of a pended command.      *)
Handle(w) ==
  LET c == conn[w]
  IN  /\ \/ /\ c \notin logged_in
            /\ logged_in' = logged_in \cup {c}
            /\ Goto(w, "handle", "rearm") \/ Goto(w, "handle", "abort")
            /\ UNCHANGED is_pended
         \/ /\ c \in logged_in
            /\ Goto(w, "handle", IF c \in killed THEN "abort"
                                 ELSE IF c \in is_pended THEN "phase2" ELSE "phase1")
            /\ is_pended' = IF c \in killed THEN is_pended ELSE is_pended \ {c}
            /\ UNCHANGED logged_in
      /\ Holds(w)
      /\ UNCHANGED <<state, pend_ready_state, killed, callback, requests, unanswered, early>>

(* do_command_phase_1 reads the request; the connection is lost or the     *)
(* client quits, or the command is executed.                               *)
Phase1(w) ==
  LET c == conn[w]
  IN  /\ \/ /\ Goto(w, "phase1", "abort")
            /\ pend_ready_state' = [pend_ready_state EXCEPT ![c] = 2]
         \/ /\ c \notin killed
            /\ Goto(w, "phase1", "execute")
            /\ UNCHANGED pend_ready_state
      /\ readable' = readable \ {c}
      /\ UNCHANGED <<armed, conn, state, logged_in, is_pended, killed, callback, requests,
                     unanswered, early>>

(* The command does not commit or need not wait for the log, or the commit *)
(* leaves a callback.                                                      *)
Execute(w) ==
  LET c == conn[w]
  IN  /\ \E from \in {"execute", "commit"} :
           \/ Goto(w, from, "phase2") /\ UNCHANGED callback
           \/ /\ Goto(w, from, "mark")
              /\ callback' = [callback EXCEPT ![c] = "queued"]
      /\ Holds(w)
      /\ UNCHANGED <<state, logged_in, is_pended, pend_ready_state, killed, requests,
                     unanswered, early>>

(* innobase_commit: is_pended is set, ... *)
Mark(w) ==
  /\ Goto(w, "mark", "reset")
  /\ is_pended' = is_pended \cup {conn[w]}
  /\ Holds(w)
  /\ UNCHANGED <<state, logged_in, pend_ready_state, killed, callback, requests, unanswered, early>>

(* ... and then pend_ready_state is cleared. *)
Reset(w) ==
  /\ Goto(w, "reset", "test")
  /\ pend_ready_state' = [pend_ready_state EXCEPT ![conn[w]] = 0]
  /\ Holds(w)
  /\ UNCHANGED <<state, logged_in, is_pended, killed, callback, requests, unanswered, early>>

(* Mutated Test: the worker does not look whether the callback has run. *)
TestBlindly(w) ==
  LET c == conn[w]
  IN  /\ Goto(w, "test", "start")
      /\ pend_ready_state' = [pend_ready_state EXCEPT ![c] = 1]
      /\ UNCHANGED is_pended
      /\ Drop(w)
      /\ UNCHANGED <<armed, readable>>
      /\ UNCHANGED <<state, logged_in, killed, callback, requests, unanswered, early>>

(* Mutated Test: the outcome of the compare-and-swap is read the wrong way. *)
TestInverted(w) ==
  LET c == conn[w]
  IN  /\ \/ /\ Goto(w, "test", "start")
            /\ pend_ready_state[c] # 0
            /\ UNCHANGED <<pend_ready_state, is_pended>>
            /\ Drop(w)
         \/ /\ Goto(w, "test", "phase2")
            /\ pend_ready_state[c] = 0
            /\ pend_ready_state' = [pend_ready_state EXCEPT ![c] = 1]
            /\ is_pended' = is_pended \ {c}
            /\ UNCHANGED conn
      /\ UNCHANGED <<armed, readable>>
      /\ UNCHANGED <<state, logged_in, killed, callback, requests, unanswered, early>>

(* Back in threadpool_process_request: drop the connection, or go on with  *)
(* it when the callback came first.                                        *)
Test(w) ==
  LET c == conn[w]
  IN  /\ \/ /\ Goto(w, "test", "start")
            /\ pend_ready_state[c] = 0
            /\ pend_ready_state' = [pend_ready_state EXCEPT ![c] = 1]
            /\ UNCHANGED is_pended
            /\ Drop(w)
         \/ /\ Goto(w, "test", "phase2")
            /\ pend_ready_state[c] # 0
            /\ is_pended' = is_pended \ {c}
            /\ UNCHANGED <<pend_ready_state, conn>>
      /\ UNCHANGED <<armed, readable>>
      /\ UNCHANGED <<state, logged_in, killed, callback, requests, unanswered, early>>

(* do_command_phase_2 answers the client; after that the connection is     *)
(* closed, there is more to read, or it goes back to epoll.                *)
Phase2(w) ==
  LET c == conn[w]
  IN  /\ \/ c \in killed /\ Goto(w, "phase2", "abort")
         \/ c \notin killed /\ Goto(w, "phase2", "rearm")
         \/ c \notin killed /\ c \in readable /\ Goto(w, "phase2", "phase1")
      /\ unanswered' = unanswered \ {c}
      /\ Holds(w)
      /\ UNCHANGED <<state, logged_in, is_pended, pend_ready_state, killed, callback, requests, early>>

(* start_io *)
Rearm(w) ==
  /\ Goto(w, "rearm", "start")
  /\ armed' = armed \cup {conn[w]}
  /\ Drop(w)
  /\ UNCHANGED readable /\ UNCHANGED thdVars

connection_abort(w) ==
  LET c == conn[w]
  IN  /\ pc[w] = "abort"
      /\ pc' = [pc EXCEPT ![w] = "start"]
      /\ state' = [state EXCEPT ![c] = "gone"]
      /\ connections' = connections \ {c}
      /\ readable' = readable \ {c}
      /\ unanswered' = unanswered \ {c}
      /\ Drop(w)
      /\ UNCHANGED <<queue, waiting_threads, listener, active_thread_count, counters, armed, events>>
      /\ UNCHANGED <<logged_in, is_pended, pend_ready_state, killed, callback, requests, early>>

handle_event(w) ==
  \/ Handle(w) \/ Phase1(w) \/ Execute(w) \/ Mark(w) \/ Reset(w) \/ Test(w) \/ Phase2(w)
  \/ Rearm(w) \/ connection_abort(w)

-----------------------------------------------------------------------------
(* The callback, called by whoever has flushed the log *)

(* The worker has not yet cleared pend_ready_state. *)
BeforeReset(c) == \E w \in Workers : conn[w] = c /\ pc[w] \in {"mark", "reset"}

finalize_phase(c) ==
  /\ callback[c] = "queued"
  /\ \/ /\ pend_ready_state[c] = 0
        /\ pend_ready_state' = [pend_ready_state EXCEPT ![c] = 3]
        /\ callback' = [callback EXCEPT ![c] = "none"]
     \/ /\ pend_ready_state[c] # 0
        /\ callback' = [callback EXCEPT ![c] = "spin"]
        /\ UNCHANGED pend_ready_state
  /\ early' = IF BeforeReset(c) THEN early \cup {c} ELSE early
  /\ UNCHANGED groupVars
  /\ UNCHANGED <<state, logged_in, is_pended, killed, requests, unanswered>>

(* tp_rerun_pended_thd waits while the state is 0, looks for 2, and queues *)
(* the connection.  What follows when a worker still works on it is not    *)
(* defined, and not modelled.                                              *)
tp_rerun_pended_thd(c) ==
  /\ \/ /\ callback[c] = "spin" /\ pend_ready_state[c] # 0
        /\ callback' = [callback EXCEPT ![c] = "check"]
        /\ UNCHANGED groupVars
     \/ /\ callback[c] = "check"
        /\ callback' = [callback EXCEPT ![c] = IF pend_ready_state[c] = 2 THEN "none" ELSE "put"]
        /\ UNCHANGED groupVars
     \/ /\ callback[c] = "put"
        /\ LET taken == state[c] = "gone" \/ \E w \in Workers : conn[w] = c
           IN  \/ /\ taken /\ UNCHANGED groupVars
                  /\ callback' = [callback EXCEPT ![c] = "undefined"]
               \/ /\ ~taken /\ queue_put(c) /\ UNCHANGED connections
                  /\ callback' = [callback EXCEPT ![c] = "none"]
  /\ UNCHANGED <<state, logged_in, is_pended, pend_ready_state, killed, requests, unanswered, early>>

-----------------------------------------------------------------------------
Step(w) == handle_event(w) \/ ((get_event(w) \/ wait_end(w)) /\ UNCHANGED thdVars)
Callback(c) == finalize_phase(c) \/ tp_rerun_pended_thd(c)
Tick == check_stall /\ UNCHANGED thdVars

Next ==
  \/ \E c \in Connections : Connect(c) \/ QueueLogin(c) \/ Send(c) \/ Kill(c) \/ Callback(c)
  \/ \E w \in Workers :
       Step(w) \/ ((Timeout(w) \/ Spurious(w) \/ wait_begin(w)) /\ UNCHANGED thdVars)
  \/ Tick

(* Threads inside the server keep running, every flush ends and calls its  *)
(* callbacks (EveryCallbackRuns of LogFlush), waits for locks and IO end,  *)
(* the timer ticks.  Clients need not do anything.                         *)
Fairness ==
  /\ \A w \in Workers : WF_vars(Step(w))
  /\ \A c \in Connections : WF_vars(QueueLogin(c)) /\ WF_vars(Callback(c))
  /\ WF_vars(Tick)

Spec == Init /\ [][Next]_vars /\ Fairness

-----------------------------------------------------------------------------
(* Properties *)

(* active_thread_count, which every decision to wake or create a thread    *)
(* looks at, is the number of workers that are neither asleep, nor         *)
(* listening, nor waiting; listener and waiting_threads name those that    *)
(* listen and sleep.                                                       *)
CountsRight ==
  /\ active_thread_count =
       Cardinality({w \in Workers : pc[w] \notin {"none", "poll", "deliver", "back", "asleep",
                                                  "woken", "waiting"}})
  /\ \A w \in Workers : listener = w <=> pc[w] \in {"poll", "deliver", "back"}
  /\ \A w \in Workers : (\E i \in 1..Len(waiting_threads) : waiting_threads[i] = w)
                          <=> pc[w] = "asleep"

(* A connection is in one place only: with one worker, in the queue, in    *)
(* the listener's hands, under epoll, or dropped with a callback to come.  *)
Places(c) ==
  Cardinality({w \in Workers : conn[w] = c})
  + Cardinality({i \in 1..Len(queue) : queue[i] = c})
  + Cardinality({i \in 1..Len(events) : events[i] = c})
  + (IF c \in armed THEN 1 ELSE 0)

Pending(c) == callback[c] # "none"

(* Unless a callback overtook its worker (early), two workers never work   *)
(* on one connection, a dropped one has a callback that will bring it      *)
(* back, and no callback outlives its connection.                          *)
OneOwner ==
  \A c \in Connections :
    /\ callback[c] = "undefined" => c \in early
    /\ state[c] = "live" /\ c \notin early =>
         Places(c) = 1 \/ (Places(c) = 0 /\ c \in is_pended /\ Pending(c))
    /\ state[c] = "gone" /\ c \notin early => ~Pending(c)

(* The client is answered only when its commit is on disk: phase 2 of a    *)
(* command starts after its callback has been called.                      *)
AnsweredWhenFlushed ==
  \A w \in Workers : pc[w] = "phase2" /\ conn[w] \notin early => ~Pending(conn[w])

(* "the handle_loop will not pend the thd": no connection waits for a      *)
(* callback that has already run.                                          *)
PendedHasCallback ==
  \A c \in Connections : state[c] = "live" /\ Places(c) = 0 => Pending(c)

(* Every client that has sent a request is answered, or cut off: neither   *)
(* the one active thread, nor workers that time out just when they are     *)
(* woken, nor the drop of a connection make it wait for ever, as long as   *)
(* no callback overtakes its worker.                                       *)
EveryRequestAnswered ==
  [](early = {}) => \A c \in Connections : (c \in unanswered) ~> (c \notin unanswered)
=============================================================================
