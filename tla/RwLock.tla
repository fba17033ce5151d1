------------------------------- MODULE RwLock -------------------------------
(***************************************************************************)
(* Lab7's reader-writer lock (rwlock.cc): one writer, which raises a flag  *)
(* and waits until as many readers have left as have come, and readers     *)
(* that test the flag and then count themselves, again and again.  Every   *)
(* access to a shared variable is a step.  The counters have the width of  *)
(* an int and wrap; the comparison only needs them to hold more values     *)
(* than there are readers.                                                 *)
(***************************************************************************)
EXTENDS Naturals

CONSTANTS Readers,
          CounterEnd   \* where a counter wraps: 2^32

VARIABLES writing, readAcquires, readReleases,
          seen,      \* the readAcquires the writer has loaded
          writer,    \* where the writer is
          reader,    \* where each reader is
          overtaken  \* history: a reader was past its test when writing was raised

vars == <<writing, readAcquires, readReleases, seen, writer, reader, overtaken>>

TypeOK ==
  /\ writing \in BOOLEAN /\ overtaken \in BOOLEAN
  /\ {readAcquires, readReleases, seen} \subseteq 0..CounterEnd - 1
  /\ writer \in {"out", "acquires", "releases", "in"}
  /\ reader \in [Readers -> {"out", "test", "count", "in"}]

Init ==
  /\ writing = FALSE /\ readAcquires = 0 /\ readReleases = 0 /\ seen = 0
  /\ writer = "out" /\ reader = [r \in Readers |-> "out"]
  /\ overtaken = FALSE

(* __sync_fetch_and_add(..., 1) *)
Add(counter) == (counter + 1) % CounterEnd

Reader(r, from, to) == reader[r] = from /\ reader' = [reader EXCEPT ![r] = to]

(* writelock: the flag, with a fence, ... *)
Raise ==
  /\ writer = "out" /\ writer' = "acquires"
  /\ writing' = TRUE
  /\ overtaken' = \E r \in Readers : reader[r] = "count"
  /\ UNCHANGED <<readAcquires, readReleases, seen, reader>>

(* ... and the loop, which loads one counter after the other. *)
LoadAcquires ==
  /\ writer = "acquires" /\ writer' = "releases"
  /\ seen' = readAcquires
  /\ UNCHANGED <<writing, readAcquires, readReleases, reader, overtaken>>

Compare ==
  /\ writer = "releases"
  /\ writer' = IF seen = readReleases THEN "in" ELSE "acquires"
  /\ UNCHANGED <<writing, readAcquires, readReleases, seen, reader, overtaken>>

writeunlock ==
  /\ writer = "in" /\ writer' = "out"
  /\ writing' = FALSE
  /\ UNCHANGED <<readAcquires, readReleases, seen, reader, overtaken>>

Read(r) ==
  /\ Reader(r, "out", "test")
  /\ UNCHANGED <<writing, readAcquires, readReleases, seen, writer, overtaken>>

(* Mutated Test: the reader does not wait for the writer. *)
TestNothing(r) ==
  /\ Reader(r, "test", "count")
  /\ UNCHANGED <<writing, readAcquires, readReleases, seen, writer, overtaken>>

(* readlock: the test, ... *)
Test(r) ==
  /\ ~writing /\ Reader(r, "test", "count")
  /\ UNCHANGED <<writing, readAcquires, readReleases, seen, writer, overtaken>>

(* ... and the count. *)
Count(r) ==
  /\ Reader(r, "count", "in")
  /\ readAcquires' = Add(readAcquires)
  /\ UNCHANGED <<writing, readReleases, seen, writer, overtaken>>

readunlock(r) ==
  /\ Reader(r, "in", "out")
  /\ readReleases' = Add(readReleases)
  /\ UNCHANGED <<writing, readAcquires, seen, writer, overtaken>>

writelock == LoadAcquires \/ Compare

Next ==
  \/ Raise \/ writelock \/ writeunlock
  \/ \E r \in Readers : Read(r) \/ Test(r) \/ Count(r) \/ readunlock(r)

(* Both critical sections end, and who is in writelock keeps running.      *)
Fairness == WF_vars(writelock) /\ WF_vars(writeunlock) /\ \A r \in Readers : WF_vars(readunlock(r))

Spec == Init /\ [][Next]_vars /\ Fairness

-----------------------------------------------------------------------------
(* The writer is alone, unless a reader had tested the flag and not yet    *)
(* counted itself when the flag was raised: the two loads of the loop, in  *)
(* between which readers leave, let nobody else slip in.                   *)
WriterAlone == writer = "in" /\ ~overtaken => \A r \in Readers : reader[r] # "in"

(* The writer gets in although the readers never stop coming: those that   *)
(* wait for the flag let the others run out.                               *)
WriterEnters == (writer = "acquires") ~> (writer = "in")
=============================================================================
