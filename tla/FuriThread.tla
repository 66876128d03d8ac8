------------------------------ MODULE FuriThread ------------------------------
(***************************************************************************)
(* The life cycle of a FuriThread (src/lib/furi/core/thread.c).  The block *)
(* of memory that an owner allocates holds the thread's record and its     *)
(* FreeRTOS task.  A thread that returns cannot delete itself: it puts     *)
(* itself on the scrub queue and suspends, and the init task, of a lower   *)
(* priority than every other, deletes the task, sets the state to Stopped  *)
(* and only then looks at the state callback.                              *)
(*                                                                         *)
(* The owner of a block is any other thread.  Here it does what the checks *)
(* of thread.c allow: it frees a thread as soon as its state is Stopped,   *)
(* as furi_thread_join followed by furi_thread_free does.                  *)
(***************************************************************************)
EXTENDS Naturals, Sequences, SequencesExt, FiniteSets

CONSTANTS
  Threads,        \* heap blocks that hold a FuriThread
  ScrubCapacity,  \* length of the scrub queue
  Nil             \* a NULL pointer

ASSUME ThreadAssumption == ScrubCapacity \in Nat \ {0} /\ Nil \notin Threads

VARIABLES
  thread,  \* block -> whether it is allocated, its state, and whether a
           \* state callback is set
  task,    \* block -> how far the FreeRTOS task in it is
  scrubq,  \* furi_thread_scrub_message_queue, oldest first
  scrub    \* the stopped thread whose callback the init task looks at, or Nil

threadVars == <<thread, task, scrubq, scrub>>

States == {"Stopped", "Starting", "Running", "Stopping"}

Tasks == {"none", "created", "running", "exiting", "suspended"}

Gone == [alive |-> FALSE, state |-> "Stopped", callback |-> FALSE]

ThreadInit ==
  /\ thread = [t \in Threads |-> Gone]
  /\ task = [t \in Threads |-> "none"]
  /\ scrubq = <<>>
  /\ scrub = Nil

(***************************************************************************)
(* The owner.                                                              *)
(***************************************************************************)
IsStopped(t) == thread[t].alive /\ thread[t].state = "Stopped"

(* furi_thread_alloc_ex, a state callback if the owner wants one, and      *)
(* furi_thread_start: state Starting, then the task is created.            *)
Launch(t, callback) ==
  /\ ~thread[t].alive
  /\ thread' = [thread EXCEPT ![t] = [alive |-> TRUE, state |-> "Starting",
                                      callback |-> callback]]
  /\ task' = [task EXCEPT ![t] = "created"]
  /\ UNCHANGED <<scrubq, scrub>>

(* furi_thread_start of a thread that ended. *)
Restart(t) ==
  /\ IsStopped(t)
  /\ thread' = [thread EXCEPT ![t].state = "Starting"]
  /\ task' = [task EXCEPT ![t] = "created"]
  /\ UNCHANGED <<scrubq, scrub>>

(* furi_thread_join returns when the state is Stopped; furi_thread_free    *)
(* checks for it.                                                          *)
JoinFree(t) ==
  /\ IsStopped(t)
  /\ thread' = [thread EXCEPT ![t] = Gone]
  /\ UNCHANGED <<task, scrubq, scrub>>

(***************************************************************************)
(* The thread itself, furi_thread_body.                                    *)
(***************************************************************************)
BodyStart(t) ==
  /\ task[t] = "created"
  /\ task' = [task EXCEPT ![t] = "running"]
  /\ thread' = [thread EXCEPT ![t].state = "Running"]
  /\ UNCHANGED <<scrubq, scrub>>

(* Mutant: the state becomes Stopped before the task is out of the way. *)
BodyReturnStopped(t) ==
  /\ task[t] = "running"
  /\ task' = [task EXCEPT ![t] = "exiting"]
  /\ thread' = [thread EXCEPT ![t].state = "Stopped"]
  /\ UNCHANGED <<scrubq, scrub>>

(* The thread's function returns. *)
BodyReturn(t) ==
  /\ task[t] = "running"
  /\ task' = [task EXCEPT ![t] = "exiting"]
  /\ thread' = [thread EXCEPT ![t].state = "Stopping"]
  /\ UNCHANGED <<scrubq, scrub>>

(* The thread waits for room on the scrub queue, then suspends itself. *)
BodySuspend(t) ==
  /\ task[t] = "exiting"
  /\ Len(scrubq) < ScrubCapacity
  /\ scrubq' = Append(scrubq, t)
  /\ task' = [task EXCEPT ![t] = "suspended"]
  /\ UNCHANGED <<thread, scrub>>

(***************************************************************************)
(* The init task, furi_thread_scrub.                                       *)
(***************************************************************************)
(* The task is deleted and the state set: from here on the owner may act. *)
Scrub ==
  /\ scrub = Nil /\ scrubq # <<>>
  /\ scrubq' = Tail(scrubq)
  /\ scrub' = Head(scrubq)
  /\ task' = [task EXCEPT ![Head(scrubq)] = "none"]
  /\ thread' = [thread EXCEPT ![Head(scrubq)].state = "Stopped"]

(* furi_thread_set_state reads the state callback of the same block; what  *)
(* the callback does is the owner's business.                              *)
ScrubNotify ==
  /\ scrub # Nil
  /\ scrub' = Nil
  /\ UNCHANGED <<thread, task, scrubq>>

ThreadNext ==
  \/ \E t \in Threads :
       \/ \E c \in BOOLEAN : Launch(t, c)
       \/ Restart(t) \/ JoinFree(t)
       \/ BodyStart(t) \/ BodyReturn(t) \/ BodySuspend(t)
  \/ Scrub \/ ScrubNotify

ThreadSpec == ThreadInit /\ [][ThreadNext]_threadVars

(***************************************************************************)
(* Properties.                                                             *)
(***************************************************************************)
ThreadTypeOK ==
  /\ thread \in [Threads -> [alive : BOOLEAN, state : States, callback : BOOLEAN]]
  /\ task \in [Threads -> Tasks]
  /\ scrubq \in Seq(Threads)
  /\ scrub \in Threads \union {Nil}

(* The scheduler never holds a task in memory that its owner may release   *)
(* or start again, a thread waits for its scrubbing at most once, and its  *)
(* state tells the owner the truth about its task.                         *)
TaskMatchesState ==
  /\ \A t \in Threads :
       /\ ~thread[t].alive => thread[t].state = "Stopped"
       /\ task[t] = "none" <=> thread[t].state = "Stopped"
       /\ task[t] = "suspended" <=> Contains(scrubq, t)
  /\ IsInjective(scrubq)

(* What thread.h says of the state Stopped, "It is safe to release thread  *)
(* instance": the init task does not look at a block that was released.    *)
StoppedIsSafeToRelease == scrub # Nil => thread[scrub].alive

=============================================================================
