----------------------------- MODULE SetObject -----------------------------
(***************************************************************************)
(* What Lab11's lists promise: a set of keys with add, remove and contains *)
(* that take effect at one moment between call and return.                 *)
(***************************************************************************)
CONSTANTS Threads, Operations   \* operations are records with a type and a key

VARIABLES contents,   \* the keys in the set
          call        \* each thread: the operation it is in, and its result

vars == <<contents, call>>

Idle == [phase |-> "idle"]

Init == contents = {} /\ call = [t \in Threads |-> Idle]

Call(t) ==
  /\ call[t] = Idle
  /\ \E op \in Operations : call' = [call EXCEPT ![t] = [phase |-> "called", op |-> op]]
  /\ UNCHANGED contents

(* The operation takes effect, and its result is settled. *)
Apply(t) ==
  /\ call[t].phase = "called"
  /\ LET op == call[t].op
         present == op.key \in contents
     IN  /\ call' = [call EXCEPT ![t] =
                       [phase |-> "applied",
                        result |-> IF op.type = "A" THEN ~present ELSE present]]
         /\ contents' = CASE op.type = "A" -> contents \cup {op.key}
                          [] op.type = "R" -> contents \ {op.key}
                          [] op.type = "C" -> contents

Return(t) ==
  /\ call[t].phase = "applied"
  /\ call' = [call EXCEPT ![t] = Idle]
  /\ UNCHANGED contents

Next == \E t \in Threads : Call(t) \/ Apply(t) \/ Return(t)

Spec == Init /\ [][Next]_vars
=============================================================================
