--------------------------- MODULE SnapshotStore ---------------------------
(***************************************************************************)
(* What Project2's MVCC promises (src/Project2/README.md, "Correctness"):  *)
(* every update reads from a snapshot taken when it starts.  Each thread   *)
(* owns one record; an update of thread t takes a ticket and a snapshot of *)
(* the committed version of every record, reads one record of its          *)
(* snapshot, and commits a new version of its own record under its ticket. *)
(***************************************************************************)
EXTENDS Integers

CONSTANTS Threads,   \* threads, and the records they own
          FirstOrder,\* ticket of the first update
          NoSnapshot,\* value of snap for a thread that has none
          NoRead     \* value of read for a thread that has read nothing

VARIABLES order,     \* the next ticket
          committed, \* committed version of each record
          ticket,    \* ticket of the running update of each thread, or NoRead
          snap,      \* the snapshot an update reads from, or NoSnapshot
          read       \* <<record, version>> an update has read, or NoRead

vars == <<order, committed, ticket, snap, read>>

Init ==
  /\ order = FirstOrder
  /\ committed = [i \in Threads |-> i]
  /\ ticket = [t \in Threads |-> NoRead]
  /\ snap = [t \in Threads |-> NoSnapshot]
  /\ read = [t \in Threads |-> NoRead]

Begin(t) ==
  /\ ticket[t] = NoRead
  /\ ticket' = [ticket EXCEPT ![t] = order]
  /\ order' = order + 1
  /\ snap' = [snap EXCEPT ![t] = committed]
  /\ UNCHANGED <<committed, read>>

Read(t, i) ==
  /\ snap[t] # NoSnapshot
  /\ read' = [read EXCEPT ![t] = <<i, snap[t][i]>>]
  /\ snap' = [snap EXCEPT ![t] = NoSnapshot]
  /\ UNCHANGED <<order, committed, ticket>>

Commit(t) ==
  /\ read[t] # NoRead
  /\ committed' = [committed EXCEPT ![t] = ticket[t]]
  /\ ticket' = [ticket EXCEPT ![t] = NoRead]
  /\ read' = [read EXCEPT ![t] = NoRead]
  /\ UNCHANGED <<order, snap>>

Next == \E t \in Threads : Begin(t) \/ Commit(t) \/ \E i \in Threads : Read(t, i)

Spec == Init /\ [][Next]_vars
=============================================================================
