------------------------------ MODULE Peterson ------------------------------
(***************************************************************************)
(* Lab3's Peterson lock (lock.cpp), with the fence after the store to      *)
(* g_victim commented out, on a processor with a store buffer per thread   *)
(* (x86; the Makefile compiles without optimisation): a store waits in the *)
(* buffer, where only its own thread sees it, and reaches memory later.    *)
(***************************************************************************)
EXTENDS Naturals, Sequences

VARIABLES g_flag, g_victim,  \* in memory
          buffer,            \* each thread's stores on their way to memory
          pc,
          hasty              \* history: who entered with the store to g_victim in the buffer

vars == <<g_flag, g_victim, buffer, pc, hasty>>

Both == {0, 1}
Stores == {<<"flag", TRUE>>, <<"flag", FALSE>>, <<"victim">>}

TypeOK ==
  /\ g_flag \in [Both -> BOOLEAN] /\ g_victim \in Both
  /\ buffer \in [Both -> Seq(Stores)] /\ \A t \in Both : Len(buffer[t]) <= 3
  /\ pc \in [Both -> {"out", "fence", "victim", "flag?", "victim?", "in"}]
  /\ hasty \subseteq Both

Init ==
  /\ g_flag = [t \in Both |-> FALSE] /\ g_victim = 0
  /\ buffer = [t \in Both |-> <<>>]
  /\ pc = [t \in Both |-> "out"]
  /\ hasty = {}

Store(t, s) == buffer' = [buffer EXCEPT ![t] = Append(@, s)]

Goto(t, from, to) == pc[t] = from /\ pc' = [pc EXCEPT ![t] = to]

Buffered(t) == \E i \in 1..Len(buffer[t]) : buffer[t][i] = <<"victim">>

(* The oldest store of a thread reaches memory. *)
Drain(t) ==
  /\ buffer[t] # <<>>
  /\ buffer' = [buffer EXCEPT ![t] = Tail(@)]
  /\ LET s == Head(buffer[t])
     IN  \/ s = <<"victim">> /\ g_victim' = t /\ UNCHANGED g_flag
         \/ s # <<"victim">> /\ g_flag' = [g_flag EXCEPT ![t] = s[2]] /\ UNCHANGED g_victim
  /\ UNCHANGED <<pc, hasty>>

(* Lock: g_flag is set, ... *)
SetFlag(t) ==
  /\ Goto(t, "out", "fence") /\ Store(t, <<"flag", TRUE>>)
  /\ UNCHANGED <<g_flag, g_victim, hasty>>

(* ... __sync_synchronize waits until the buffer is empty, ... *)
Fence(t) ==
  /\ buffer[t] = <<>> /\ Goto(t, "fence", "victim")
  /\ UNCHANGED <<g_flag, g_victim, buffer, hasty>>

(* ... the thread yields, ... *)
SetVictim(t) ==
  /\ Goto(t, "victim", "flag?") /\ Store(t, <<"victim">>)
  /\ UNCHANGED <<g_flag, g_victim, hasty>>

Enter(t, from) ==
  /\ Goto(t, from, "in")
  /\ hasty' = IF Buffered(t) THEN hasty \cup {t} ELSE hasty \ {t}

(* ... and waits while the other's flag is up ... *)
TestFlag(t) ==
  /\ \/ ~g_flag[1 - t] /\ Enter(t, "flag?")
     \/ g_flag[1 - t] /\ Goto(t, "flag?", "victim?") /\ UNCHANGED hasty
  /\ UNCHANGED <<g_flag, g_victim, buffer>>

(* Mutated TestVictim: the one who yielded last goes first. *)
TestWrong(t) ==
  /\ \/ (Buffered(t) \/ g_victim = t) /\ Enter(t, "victim?")
     \/ ~Buffered(t) /\ g_victim # t /\ Goto(t, "victim?", "flag?") /\ UNCHANGED hasty
  /\ UNCHANGED <<g_flag, g_victim, buffer>>

(* ... and the victim is this thread, as its own buffer may tell it. *)
TestVictim(t) ==
  /\ \/ ~Buffered(t) /\ g_victim # t /\ Enter(t, "victim?")
     \/ (Buffered(t) \/ g_victim = t) /\ Goto(t, "victim?", "flag?") /\ UNCHANGED hasty
  /\ UNCHANGED <<g_flag, g_victim, buffer>>

Unlock(t) ==
  /\ Goto(t, "in", "out") /\ Store(t, <<"flag", FALSE>>)
  /\ UNCHANGED <<g_flag, g_victim, hasty>>

Step(t) ==
  Drain(t) \/ Fence(t) \/ SetVictim(t) \/ TestFlag(t) \/ TestVictim(t) \/ Unlock(t)

Next == \E t \in Both : SetFlag(t) \/ Step(t)

(* A thread in Lock keeps running, the critical section ends, and every    *)
(* store reaches memory.                                                   *)
Fairness ==
  \A t \in Both : WF_vars(Drain(t)) /\ WF_vars(Step(t))

Spec == Init /\ [][Next]_vars /\ Fairness

-----------------------------------------------------------------------------
(* Both threads are inside only if one of them entered while its store to  *)
(* g_victim was still in the buffer: the missing fence is the only fault,  *)
(* and the buffered stores of g_flag, Unlock's too, do no harm.            *)
OnlyTheMissingFence == (\A t \in Both : pc[t] = "in") => hasty # {}

(* Neither the buffers nor the two tests keep both threads out: every      *)
(* thread in Lock gets in.                                                 *)
EverybodyEnters == \A t \in Both : (pc[t] = "fence") ~> (pc[t] = "in")
=============================================================================
