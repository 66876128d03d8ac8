------------------------- MODULE FuriEventLoopTimer -------------------------
(***************************************************************************)
(* Timers and ticks of the event loop (src/lib/furi/core/event_loop_timer.c *)
(* and event_loop_tick.c) in the passes of furi_event_loop_run.            *)
(*                                                                         *)
(* Every operation here is called by the loop's own thread, from one of    *)
(* its callbacks or while the loop does not run.  What the other threads   *)
(* contribute is a flag (Event, Custom, Stop) and the passage of time,     *)
(* both at any point of a pass.  A command (start, restart, stop, free) is *)
(* only queued; the pass that finds the Timer flag executes it.            *)
(***************************************************************************)
EXTENDS Naturals, Sequences, SequencesExt, IntrusiveList

CONSTANTS
  Timers,      \* heap blocks of timers
  Intervals,   \* the intervals that callers pass, in system ticks
  TickPeriods, \* the intervals of the tick callback, 0 stands for no callback
  Wrap,        \* the tick counter counts modulo Wrap (2^32)
  MaxLate,     \* bound on how late, in ticks, the loop looks at a deadline
  MaxPending,  \* bound on the queue of deferred functions
  Signals,     \* the flags that other threads raise
  UserOps      \* the calls that the callbacks make

Requests == {"None", "Start", "Stop", "Free"}

AllOps == {"alloc", "start", "restart", "stop", "free", "pend", "tick_set"}

(* No interval plus lateness reaches the wrap-around of the tick counter. *)
ASSUME ConstantsAssumption ==
  /\ Intervals \subseteq Nat /\ TickPeriods \subseteq Nat
  /\ Wrap \in Nat \ {0} /\ MaxLate \in Nat /\ MaxPending \in Nat
  /\ \A i \in Intervals \union TickPeriods \union {0} : i + MaxLate < Wrap
  /\ Signals \subseteq {"Event", "Custom", "Stop"}
  /\ UserOps \subseteq AllOps

VARIABLES
  timer,    \* contents of every block
  list,     \* timer_list: the active timers, next to expire first
  queue,    \* timer_queue: timers with a command, oldest first
  bits,     \* task notification value
  flags,    \* the snapshot of bits of the current pass
  pending,  \* deferred functions: the timer commands that precede each one
  tick,     \* interval of the tick callback and its elapsed time
  pc        \* where the loop's thread is

vars == <<timer, list, queue, bits, flags, pending, tick, pc>>

Flags == {"Event", "Stop", "Timer", "Pending", "Custom"}

(* elapsed is xTaskGetTickCount() - start_time, in the width of the counter. *)
TimerRecords ==
  [alive : BOOLEAN, periodic : BOOLEAN, active : BOOLEAN,
   interval : Intervals \union {0}, next : Intervals \union {0},
   elapsed : 0..Wrap - 1, request : Requests]

Blank(p) == [alive |-> TRUE, periodic |-> p, active |-> FALSE, interval |-> 0,
             next |-> 0, elapsed |-> 0, request |-> "None"]

Gone == [Blank(FALSE) EXCEPT !.alive = FALSE]

(* The places where user code runs. *)
UserPcs == {"idle", "event_cb", "pending_cb", "custom_cb", "timer_cb", "tick_cb", "stopped"}

Running == pc \notin {"idle", "stopped", "draining", "freed", "fault"}

Init ==
  /\ timer = [t \in Timers |-> Gone]
  /\ list = <<>> /\ queue = <<>>
  /\ bits = {} /\ flags = {}
  /\ pending = <<>>
  /\ tick = [interval |-> 0, elapsed |-> 0]
  /\ pc = "idle"

(***************************************************************************)
(* Deadlines and the sorted list.                                          *)
(***************************************************************************)
(* interval - elapsed in unsigned arithmetic, 0 when the deadline passed. *)
Remaining(r) == IF r.elapsed < r.interval THEN r.interval - r.elapsed ELSE 0

Expired(r) == r.elapsed >= r.interval

(* Mutant: always in front. *)
ScheduleFirst(s, t, r) == <<t>> \o s

(* furi_event_loop_schedule_timer: behind the last timer that expires no   *)
(* later, at the front when there is none.                                 *)
Schedule(s, t, r) ==
  LET earlier == {k \in 1..Len(s) : Remaining(timer[s[k]]) <= Remaining(r)}
      p == IF earlier = {} THEN 0 ELSE CHOOSE k \in earlier : \A j \in earlier : j <= k
  IN  SubSeq(s, 1, p) \o <<t>> \o SubSeq(s, p + 1, Len(s))

(***************************************************************************)
(* The interface: commands are queued.                                     *)
(***************************************************************************)
MayCall(op) == pc \in UserPcs /\ op \in UserOps

(* Mutant: a second command is queued beside the first one. *)
CommandTwice(t, op, r) ==
  /\ MayCall(op)
  /\ timer[t].alive /\ timer[t].request # "Free"
  /\ timer' = [timer EXCEPT ![t] = r]
  /\ queue' = Append(queue, t)
  /\ bits' = bits \union {"Timer"}
  /\ UNCHANGED <<list, flags, pending, tick, pc>>

(* Mutant: a command from a timer or tick callback does not raise the flag. *)
CommandUnannounced(t, op, r) ==
  /\ MayCall(op)
  /\ timer[t].alive /\ timer[t].request # "Free"
  /\ timer' = [timer EXCEPT ![t] = r]
  /\ queue' = Append(Unlink(queue, t), t)
  /\ bits' = IF pc \in {"timer_cb", "tick_cb"} THEN bits ELSE bits \union {"Timer"}
  /\ UNCHANGED <<list, flags, pending, tick, pc>>

(* furi_event_loop_timer_enqueue_request: a new command replaces one that  *)
(* was not executed yet.  No caller uses a timer that it has freed.        *)
Command(t, op, r) ==
  /\ MayCall(op)
  /\ timer[t].alive /\ timer[t].request # "Free"
  /\ timer' = [timer EXCEPT ![t] = r]
  /\ queue' = Append(Unlink(queue, t), t)
  /\ bits' = bits \union {"Timer"}
  /\ UNCHANGED <<list, flags, pending, tick, pc>>

TimerStart(t, i) ==
  Command(t, "start", [timer[t] EXCEPT !.next = i, !.request = "Start"])

TimerRestart(t) ==
  Command(t, "restart", [timer[t] EXCEPT !.next = timer[t].interval, !.request = "Start"])

TimerStop(t) == Command(t, "stop", [timer[t] EXCEPT !.request = "Stop"])

TimerFree(t) == Command(t, "free", [timer[t] EXCEPT !.request = "Free"])

TimerAlloc(t, p) ==
  /\ MayCall("alloc")
  /\ ~timer[t].alive
  /\ timer' = [timer EXCEPT ![t] = Blank(p)]
  /\ UNCHANGED <<list, queue, bits, flags, pending, tick, pc>>

TickSet(i) ==
  /\ MayCall("tick_set")
  /\ tick' = [interval |-> i, elapsed |-> 0]
  /\ UNCHANGED <<timer, list, queue, bits, flags, pending, pc>>

(* The deferred function is tagged with the commands queued before it, and *)
(* with whether the loop was started later.                                *)
PendCallback ==
  /\ MayCall("pend")
  /\ Len(pending) < MaxPending
  /\ pending' = Append(pending, [before  |-> {t \in Timers : timer[t].request # "None"},
                                 startup |-> pc = "idle"])
  /\ bits' = bits \union {"Pending"}
  /\ UNCHANGED <<timer, list, queue, flags, tick, pc>>

(***************************************************************************)
(* The environment: other threads and the clock.                           *)
(***************************************************************************)
Signal(f) ==
  /\ pc # "freed"
  /\ bits' = bits \union {f}
  /\ UNCHANGED <<timer, list, queue, flags, pending, tick, pc>>

(* An inactive timer has no deadline: its elapsed time is followed until    *)
(* nothing remains.                                                        *)
Older(r) ==
  IF r.active \/ r.elapsed < r.interval THEN [r EXCEPT !.elapsed = (@ + 1) % Wrap] ELSE r

(* One system tick.  A deadline that the loop watches is at most MaxLate   *)
(* ticks old when the loop looks at it.                                    *)
Advance ==
  /\ \A t \in Timers : timer[t].active /\ timer[t].interval # 0 =>
       timer[t].elapsed < timer[t].interval + MaxLate
  /\ tick.interval # 0 => tick.elapsed < tick.interval + MaxLate
  /\ timer' = [t \in Timers |-> Older(timer[t])]
  /\ tick' = [tick EXCEPT !.elapsed = IF tick.interval = 0 THEN 0 ELSE @ + 1]
  /\ UNCHANGED <<list, queue, bits, flags, pending, pc>>

(***************************************************************************)
(* The passes of furi_event_loop_run.                                      *)
(***************************************************************************)
Goto(p) == pc' = p /\ UNCHANGED <<timer, list, queue, bits, flags, pending, tick>>

(* furi_event_loop_init_tick, then the first wait. *)
Run ==
  /\ pc = "idle"
  /\ pc' = "wait"
  /\ tick' = [tick EXCEPT !.elapsed = 0]
  /\ UNCHANGED <<timer, list, queue, bits, flags, pending>>

Wake ==
  /\ pc = "wait" /\ bits # {}
  /\ bits' = {}
  /\ IF "Stop" \in bits
       THEN pc' = "stopped" /\ flags' = {}
       ELSE pc' = "event" /\ flags' = bits
  /\ UNCHANGED <<timer, list, queue, pending, tick>>

(* The wait ends without a flag when the first deadline is reached. *)
Timeout ==
  /\ pc = "wait" /\ bits = {}
  /\ \/ list # <<>> /\ Remaining(timer[Head(list)]) = 0
     \/ tick.interval # 0 /\ Remaining(tick) = 0
  /\ Goto("expired")

(* The Event flag may be set although no item waits any more. *)
ProcessEvent ==
  /\ pc = "event"
  /\ \/ "Event" \in flags /\ Goto("event_cb")
     \/ Goto("commands")

(* furi_event_loop_process_timer_queue, one command. *)
ProcessCommand ==
  /\ \/ pc = "commands" /\ "Timer" \in flags
     \/ pc = "draining"
  /\ queue # <<>>
  /\ LET t    == Head(queue)
         rest == IF timer[t].active THEN Unlink(list, t) ELSE list
         started == [timer[t] EXCEPT !.active = TRUE, !.interval = timer[t].next,
                                     !.elapsed = 0, !.request = "None"]
     IN  /\ queue' = Tail(queue)
         /\ pending' = [k \in 1..Len(pending) |-> [pending[k] EXCEPT !.before = @ \ {t}]]
         /\ \/ /\ timer[t].request = "Start"
               /\ timer' = [timer EXCEPT ![t] = started]
               /\ list' = Schedule(rest, t, started)
            \/ /\ timer[t].request = "Stop"
               /\ timer' = [timer EXCEPT ![t] = [@ EXCEPT !.active = FALSE, !.request = "None"]]
               /\ list' = rest
            \/ /\ timer[t].request = "Free"
               /\ timer' = [timer EXCEPT ![t] = Gone]
               /\ list' = rest
  /\ UNCHANGED <<bits, flags, tick, pc>>

(* Mutant: deferred functions run before the timer commands. *)
CommandsSkipped ==
  /\ pc = "commands"
  /\ "Timer" \notin flags \/ queue = <<>> \/ "Pending" \in flags
  /\ Goto("pending")

CommandsDone ==
  /\ pc = "commands"
  /\ "Timer" \notin flags \/ queue = <<>>
  /\ Goto("pending")

ProcessPending ==
  /\ pc = "pending"
  /\ IF "Pending" \in flags /\ pending # <<>> THEN Goto("pending_cb") ELSE Goto("custom")

PendingReturn ==
  /\ pc = "pending_cb"
  /\ pending' = Tail(pending)
  /\ pc' = "pending"
  /\ UNCHANGED <<timer, list, queue, bits, flags, tick>>

ProcessCustom ==
  /\ pc = "custom"
  /\ pc' = IF "Custom" \in flags THEN "custom_cb" ELSE "expired"
  /\ flags' = {}
  /\ UNCHANGED <<timer, list, queue, bits, pending, tick>>

(* Mutant: a timer that is to be freed fires. *)
CanFireFreed == list # <<>> /\ Expired(timer[Head(list)])

(* The first timer fires unless it is to be freed: one timer per pass.     *)
CanFire ==
  list # <<>> /\ LET r == timer[Head(list)] IN Expired(r) /\ r.request # "Free"

(* Mutant: one period is counted, however many have passed. *)
CaughtUpOnce(r) == [r EXCEPT !.elapsed = @ - r.interval]

(* A periodic timer skips the periods it missed; the division by an        *)
(* interval of zero yields zero on this processor.                         *)
CaughtUp(r) ==
  LET n == IF r.interval = 0 THEN 0 ELSE r.elapsed \div r.interval
  IN  [r EXCEPT !.elapsed = @ - r.interval * n]

Fire ==
  /\ pc = "expired"
  /\ CanFire
  /\ LET t == Head(list)
         r == timer[t]
     IN  IF r.periodic
           THEN /\ timer' = [timer EXCEPT ![t] = CaughtUp(r)]
                /\ list' = Schedule(Tail(list), t, CaughtUp(r))
           ELSE /\ timer' = [timer EXCEPT ![t].active = FALSE]
                /\ list' = Tail(list)
  /\ pc' = "timer_cb"
  /\ UNCHANGED <<queue, bits, flags, pending, tick>>

(* furi_event_loop_process_tick, only when no timer fires. *)
ProcessTick ==
  /\ pc = "expired"
  /\ ~CanFire
  /\ IF tick.interval # 0 /\ Expired(tick)
       THEN pc' = "tick_cb" /\ tick' = [tick EXCEPT !.elapsed = @ - tick.interval]
       ELSE pc' = "wait" /\ UNCHANGED tick
  /\ UNCHANGED <<timer, list, queue, bits, flags, pending>>

CallbackReturn ==
  \/ pc = "event_cb" /\ Goto("commands")
  \/ pc = "custom_cb" /\ Goto("expired")
  \/ pc \in {"timer_cb", "tick_cb"} /\ Goto("wait")

(* furi_event_loop_free executes the commands left, and checks that no     *)
(* timer is active; its user has called timer_free for every timer.        *)
Free ==
  /\ pc \in {"idle", "stopped"}
  /\ \A t \in Timers : timer[t].alive => timer[t].request = "Free"
  /\ Goto("draining")

Drained ==
  /\ pc = "draining" /\ queue = <<>>
  /\ pc' = IF list = <<>> THEN "freed" ELSE "fault"
  /\ pending' = <<>> /\ bits' = {}
  /\ UNCHANGED <<timer, list, queue, flags, tick>>

(***************************************************************************)
(* The specification.                                                      *)
(***************************************************************************)
UserCall ==
  \/ \E t \in Timers, i \in Intervals : TimerStart(t, i)
  \/ \E t \in Timers : TimerRestart(t) \/ TimerStop(t) \/ TimerFree(t)
  \/ \E t \in Timers, p \in BOOLEAN : TimerAlloc(t, p)
  \/ \E i \in TickPeriods : TickSet(i)
  \/ PendCallback

LoopStep ==
  \/ Wake \/ Timeout \/ ProcessEvent \/ ProcessCommand \/ CommandsDone
  \/ ProcessPending \/ ProcessCustom \/ Fire \/ ProcessTick \/ Drained

UserReturn == CallbackReturn \/ PendingReturn

Environment == (\E f \in Signals : Signal(f)) \/ Advance

Next == Run \/ Free \/ UserCall \/ LoopStep \/ UserReturn \/ Environment

Spec == Init /\ [][Next]_vars

(* The loop's thread gets the processor, its callbacks return. *)
FairSpec == Spec /\ WF_vars(LoopStep) /\ WF_vars(UserReturn)

(***************************************************************************)
(* Properties.                                                             *)
(***************************************************************************)
TypeOK ==
  /\ timer \in [Timers -> TimerRecords]
  /\ list \in Seq(Timers)
  /\ queue \in Seq(Timers)
  /\ bits \subseteq Flags /\ flags \subseteq Flags
  /\ pending \in Seq([before : SUBSET Timers, startup : BOOLEAN])
  /\ tick \in [interval : TickPeriods \union {0}, elapsed : Nat]
  /\ pc \in UserPcs \union {"wait", "event", "commands", "pending", "custom",
                            "expired", "draining", "freed", "fault"}

(* The two lists hold exactly the timers that are active and the timers    *)
(* that have a command, each once: neither ever points to a freed block,   *)
(* and a loop that is freed finds no timer left on its list.               *)
ListsSound ==
  /\ TypeOK
  /\ Distinct(list) /\ Distinct(queue)
  /\ \A t \in Timers :
       /\ Contains(list, t) <=> timer[t].active
       /\ Contains(queue, t) <=> timer[t].request # "None"
       /\ ~timer[t].alive => timer[t] = Gone
  /\ pc # "fault"

Fires == pc = "expired" /\ pc' = "timer_cb"

(* The timer that fires is one whose deadline passed first, and it is not  *)
(* one that its owner has freed.  (A timer that was restarted before its   *)
(* first start has the interval zero, and no deadline.)                    *)
EarliestDeadlineFires ==
  [][Fires =>
       LET r == timer[Head(list)]
       IN  /\ r.alive /\ r.active /\ r.request # "Free" /\ Expired(r)
           /\ \A u \in Timers :
                timer[u].active /\ timer[u].interval # 0 /\ r.interval # 0 =>
                  timer[u].elapsed + r.interval <= r.elapsed + timer[u].interval]_vars

(* However late the loop is, a periodic timer fires once for all the       *)
(* periods it missed, and keeps its phase.                                 *)
PeriodicCatchesUp ==
  [][Fires => LET t == Head(list)
              IN  timer[t].periodic /\ timer[t].interval # 0 =>
                    /\ timer'[t].elapsed < timer[t].interval
                    /\ timer'[t].elapsed % timer[t].interval
                         = timer[t].elapsed % timer[t].interval]_vars

(* Every command is executed unless the loop stops. *)
CommandsServed ==
  \A t \in Timers : (Running /\ timer[t].request # "None") ~>
                      (timer[t].request = "None" \/ ~Running)

Due(t) == timer[t].active /\ Expired(timer[t]) /\ timer[t].request = "None"

(* A function deferred before the loop was started runs after the timer    *)
(* commands that precede it.                                               *)
StartupOrder == pc = "pending_cb" /\ Head(pending).startup => Head(pending).before = {}

TickDue == tick.interval # 0 /\ Expired(tick)

(* A timer whose deadline has passed fires, however busy the others are,   *)
(* unless it gets a command first or the loop stops; the tick callback     *)
(* runs once its period is over, unless timers are active, which have      *)
(* precedence (furi_event_loop_process_expired_timers,                     *)
(* furi_event_loop_process_tick).                                          *)
DueTimesServed ==
  /\ \A t \in Timers : (Running /\ Due(t)) ~> (~Due(t) \/ ~Running)
  /\ (Running /\ TickDue) ~> (pc = "tick_cb" \/ ~TickDue \/ list # <<>> \/ ~Running)

(* event_loop_timer.h says that furi_event_loop_timer_stop stops a timer    *)
(* without firing its callback: no timer fires after it was stopped.       *)
StoppedStaysSilent == [][Fires => timer[Head(list)].request # "Stop"]_vars
=============================================================================
