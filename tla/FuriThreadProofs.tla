-------------------------- MODULE FuriThreadProofs --------------------------
(***************************************************************************)
(* Proofs about FuriThread, for every set of blocks and every length of    *)
(* the scrub queue.                                                        *)
(***************************************************************************)
EXTENDS FuriThread, SequenceLemmas

ThreadInv == ThreadTypeOK /\ TaskMatchesState

LEMMA ThreadInvInit == ThreadInit => ThreadInv
<1> SUFFICES ASSUME ThreadInit PROVE ThreadInv
  OBVIOUS
<1> USE DEF ThreadInit, Gone
<1>1. ThreadTypeOK
  BY DEF ThreadTypeOK, States, Tasks
<1>2. TaskMatchesState
  BY DEF TaskMatchesState, Contains, IsInjective
<1> QED BY <1>1, <1>2 DEF ThreadInv

(* Every operation of the owner, of the thread and of the init task keeps  *)
(* the state of a block, its task and the scrub queue in agreement.        *)
LEMMA ThreadInvStep == ThreadInv /\ [ThreadNext]_threadVars => ThreadInv'
<1> SUFFICES ASSUME ThreadInv, [ThreadNext]_threadVars PROVE ThreadInv'
  OBVIOUS
<1> USE DEF ThreadInv
<1>1. ASSUME NEW t \in Threads, NEW c \in BOOLEAN, Launch(t, c) PROVE ThreadInv'
  <2>1. ThreadTypeOK'
    BY <1>1 DEF Launch, ThreadTypeOK, States, Tasks
  <2>2. task[t] = "none" /\ ~Contains(scrubq, t)
    BY <1>1 DEF Launch, TaskMatchesState
  <2>3. TaskMatchesState'
    BY <1>1, <2>2 DEF Launch, ThreadTypeOK, TaskMatchesState
  <2> QED BY <2>1, <2>3
<1>2. ASSUME NEW t \in Threads, Restart(t) PROVE ThreadInv'
  <2>1. ThreadTypeOK'
    BY <1>2 DEF Restart, ThreadTypeOK, States, Tasks
  <2>2. task[t] = "none" /\ ~Contains(scrubq, t) /\ thread[t].alive
    BY <1>2 DEF Restart, IsStopped, TaskMatchesState
  <2>3. TaskMatchesState'
    BY <1>2, <2>2 DEF Restart, ThreadTypeOK, TaskMatchesState
  <2> QED BY <2>1, <2>3
<1>3. ASSUME NEW t \in Threads, JoinFree(t) PROVE ThreadInv'
  <2>1. ThreadTypeOK'
    BY <1>3 DEF JoinFree, ThreadTypeOK, Gone, States
  <2>2. TaskMatchesState'
    BY <1>3 DEF JoinFree, IsStopped, Gone, ThreadTypeOK, TaskMatchesState
  <2> QED BY <2>1, <2>2
<1>4. ASSUME NEW t \in Threads, BodyStart(t) \/ BodyReturn(t) PROVE ThreadInv'
  <2>1. ThreadTypeOK'
    <3>1. CASE BodyStart(t)
      BY <3>1 DEF BodyStart, ThreadTypeOK, States, Tasks
    <3>2. CASE BodyReturn(t)
      BY <3>2 DEF BodyReturn, ThreadTypeOK, States, Tasks
    <3> QED BY <1>4, <3>1, <3>2
  <2>2. TaskMatchesState'
    BY <1>4 DEF BodyStart, BodyReturn, ThreadTypeOK, TaskMatchesState
  <2> QED BY <2>1, <2>2
<1>5. ASSUME NEW t \in Threads, BodySuspend(t) PROVE ThreadInv'
  <2>1. /\ scrubq \in Seq(Threads) /\ Distinct(scrubq)
        /\ task[t] = "exiting" /\ ~Contains(scrubq, t)
    BY <1>5, DistinctIsInjective DEF BodySuspend, ThreadTypeOK, TaskMatchesState
  <2>2. /\ scrubq' \in Seq(Threads) /\ Distinct(scrubq')
        /\ \A u : Contains(scrubq', u) <=> Contains(scrubq, u) \/ u = t
    BY <1>5, <2>1, AppendContains DEF BodySuspend
  <2>3. ThreadTypeOK'
    BY <1>5, <2>2 DEF BodySuspend, ThreadTypeOK, Tasks
  <2>4. TaskMatchesState'
    BY <1>5, <2>2, DistinctIsInjective DEF BodySuspend, ThreadTypeOK, TaskMatchesState
  <2> QED BY <2>3, <2>4
<1>6. CASE Scrub
  <2> DEFINE h == Head(scrubq)
  <2>1. scrubq \in Seq(Threads) /\ scrubq # <<>> /\ Distinct(scrubq)
    BY <1>6, DistinctIsInjective DEF Scrub, ThreadTypeOK, TaskMatchesState
  <2>2. /\ h \in Threads /\ Contains(scrubq, h)
        /\ scrubq' \in Seq(Threads) /\ Distinct(scrubq')
        /\ \A u : Contains(scrubq', u) <=> Contains(scrubq, u) /\ u # h
    BY <1>6, <2>1, TailContains DEF Scrub
  <2>3. /\ scrub' = h
        /\ task' = [task EXCEPT ![h] = "none"]
        /\ thread' = [thread EXCEPT ![h].state = "Stopped"]
    BY <1>6 DEF Scrub
  <2> HIDE DEF h
  <2>4. ThreadTypeOK'
    BY <2>2, <2>3 DEF ThreadTypeOK, States, Tasks
  <2>5. TaskMatchesState'
    BY <2>2, <2>3, DistinctIsInjective DEF ThreadTypeOK, TaskMatchesState
  <2> QED BY <2>4, <2>5
<1>7. CASE ScrubNotify
  BY <1>7 DEF ScrubNotify, ThreadTypeOK, TaskMatchesState
<1>8. CASE UNCHANGED threadVars
  BY <1>8 DEF threadVars, ThreadTypeOK, TaskMatchesState
<1> QED BY <1>1, <1>2, <1>3, <1>4, <1>5, <1>6, <1>7, <1>8 DEF ThreadNext

(* The variables of the threads keep their types. *)
THEOREM ThreadTypeCorrect == ThreadSpec => []ThreadTypeOK
<1>1. ThreadInv => ThreadTypeOK
  BY DEF ThreadInv
<1> QED BY <1>1, ThreadInvInit, ThreadInvStep, PTL DEF ThreadSpec

(* A block that the owner may release or start again is not known to the   *)
(* scheduler, and an ending thread waits for the init task exactly once.   *)
THEOREM ThreadTaskMatchesState == ThreadSpec => []TaskMatchesState
<1>1. ThreadInv => TaskMatchesState
  BY DEF ThreadInv
<1> QED BY <1>1, ThreadInvInit, ThreadInvStep, PTL DEF ThreadSpec

=============================================================================
