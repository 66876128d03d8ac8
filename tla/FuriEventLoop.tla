---------------------------- MODULE FuriEventLoop ----------------------------
(***************************************************************************)
(* The event loop of the furi core (src/lib/furi/core/event_loop.c): one   *)
(* thread multiplexes level or edge triggered events of message queues,    *)
(* deferred ("pending") callbacks and custom event bits, while other tasks *)
(* and interrupt handlers put to and get from those queues and signal the  *)
(* loop at any point between two of its critical sections.                 *)
(*                                                                         *)
(* The firmware runs on one core (configNUMBER_OF_CORES is not set), so a  *)
(* FURI_CRITICAL section is one atomic step.  Everything between two       *)
(* critical sections may be interleaved with the steps of other threads:   *)
(* a put to a queue and the notification of the loop are two steps.        *)
(* Timers and ticks, owned by the loop's thread alone, are the subject of  *)
(* FuriEventLoopTimer.                                                     *)
(***************************************************************************)
EXTENDS Naturals, Sequences, SequencesExt, IntrusiveList

CONSTANTS
  Objects,       \* the message queues the loop may subscribe to
  Items,         \* heap blocks that malloc hands out for subscription items
  Kinds,         \* the event arguments in use: direction, edge flag, once flag
  Capacity,      \* length of every message queue
  Actors,        \* the other tasks and the interrupt handlers
  Loop,          \* the thread that owns the event loop
  CustomEvents,  \* bits of a custom event
  Callbacks,     \* functions deferred with furi_event_loop_pend_callback
  MaxPending,    \* bound on the queue of deferred functions
  UserOps,       \* the calls that the loop's own callbacks make
  Nil            \* a NULL pointer

Dirs == {"In", "Out"}

Flags == {"Event", "Stop", "Pending", "Custom"}

AllOps == {"put", "get", "reset", "subscribe", "unsubscribe",
           "pend", "repend", "custom", "set_callback", "stop"}

ASSUME ConstantsAssumption ==
  /\ Kinds \subseteq [dir : Dirs, edge : BOOLEAN, once : BOOLEAN]
  /\ Capacity \in Nat \ {0}
  /\ MaxPending \in Nat
  /\ Loop \notin Actors
  /\ Nil \notin Items \union Objects \union Kinds
  /\ UserOps \subseteq AllOps

VARIABLES
  count,     \* messages in each queue
  item,      \* contents of every heap block: a subscription or Freed
  tree,      \* object -> its item, the loop's FuriEventLoopTree
  link,      \* item_in and item_out of every object
  waiting,   \* the waiting list, oldest first
  bits,      \* task notification value, the flags not yet taken by the loop
  custom,    \* custom.events, and whether custom.callback is set
  pending,   \* pending queue, oldest first
  pc,        \* where the loop's thread is
  flags,     \* the snapshot of bits that the current pass works on
  cur,       \* the item that the current pass processes
  current,   \* current_item of the loop
  again,     \* the event is Incomplete: the level was not zero afterwards
  inflight   \* thread -> the notification it still has to make

vars == <<count, item, tree, link, waiting, bits, custom, pending,
          pc, flags, cur, current, again, inflight>>

(* Groups of variables, for UNCHANGED. *)
registry == <<item, tree, link>>
pass     == <<flags, cur, current, again>>

Freed == [owner |-> FALSE, object |-> Nil, kind |-> Nil]

Subscriptions == [owner : BOOLEAN, object : Objects, kind : Kinds]

Threads == Actors \union {Loop}

None == [what |-> "none"]

QueueNotices == [what : {"queue"}, object : Objects, dir : Dirs]

Notices == QueueNotices \union {None, [what |-> "custom"]}

UserPcs == {"idle", "callback", "pending_cb", "custom_cb", "stopped"}

Pcs == UserPcs \union {"wait", "events", "process", "dispatch", "recheck",
                       "finish", "sync", "pending", "custom", "freed", "fault"}

(***************************************************************************)
(* Initial state: the loop is allocated, nothing is subscribed.            *)
(***************************************************************************)
Init ==
  /\ count = [o \in Objects |-> 0]
  /\ item = [i \in Items |-> Freed]
  /\ tree = [o \in Objects |-> Nil]
  /\ link = [o \in Objects |-> [d \in Dirs |-> Nil]]
  /\ waiting = <<>>
  /\ bits = {}
  /\ custom = [events |-> {}, callback |-> FALSE]
  /\ pending = <<>>
  /\ pc = "idle"
  /\ flags = {}
  /\ cur = Nil
  /\ current = Nil
  /\ again = FALSE
  /\ inflight = [t \in Threads |-> None]

(***************************************************************************)
(* Contract of a message queue, waiting list and registry helpers.         *)
(***************************************************************************)
GetLevel(o, d) ==
  \/ d = "In" /\ count[o] > 0
  \/ d = "Out" /\ count[o] < Capacity

IsWaiting(i) == Contains(waiting, i)

(* Mutant: the list is a stack, the latest item is served first. *)
PushFront(i) == IF IsWaiting(i) THEN waiting ELSE <<i>> \o waiting

(* Mutant: an item is queued although it waits already. *)
PushTwice(i) == Append(waiting, i)

(* furi_event_loop_item_notify: queue the item unless it already waits. *)
PushWaiting(i) == IF IsWaiting(i) THEN waiting ELSE Append(waiting, i)

ItemNotify(i) ==
  /\ waiting' = PushWaiting(i)
  /\ bits' = bits \union {"Event"}

(* A thread that may call the API now: it has made its last notification  *)
(* and, if it is the loop's own thread, it runs user code.                 *)
MayCall(t, op) ==
  /\ inflight[t] = None
  /\ t = Loop => pc \in UserPcs /\ op \in UserOps

(***************************************************************************)
(* Message queue operations: the FreeRTOS queue changes first, the loop is *)
(* told in a second step.                                                  *)
(***************************************************************************)
Owes(t, o, d) ==
  inflight' = [inflight EXCEPT ![t] = [what |-> "queue", object |-> o, dir |-> d]]

(* Mutant: a put to a full queue succeeds. *)
PutWithoutSpace(t, o) ==
  /\ MayCall(t, "put")
  /\ count' = [count EXCEPT ![o] = @ + 1]
  /\ Owes(t, o, "In")
  /\ UNCHANGED <<registry, waiting, bits, custom, pending, pc, pass>>

MessageQueuePut(t, o) ==
  /\ MayCall(t, "put")
  /\ count[o] < Capacity
  /\ count' = [count EXCEPT ![o] = @ + 1]
  /\ Owes(t, o, "In")
  /\ UNCHANGED <<registry, waiting, bits, custom, pending, pc, pass>>

MessageQueueGet(t, o) ==
  /\ MayCall(t, "get")
  /\ count[o] > 0
  /\ count' = [count EXCEPT ![o] = @ - 1]
  /\ Owes(t, o, "Out")
  /\ UNCHANGED <<registry, waiting, bits, custom, pending, pc, pass>>

MessageQueueReset(t, o) ==
  /\ MayCall(t, "reset")
  /\ count' = [count EXCEPT ![o] = 0]
  /\ Owes(t, o, "Out")
  /\ UNCHANGED <<registry, waiting, bits, custom, pending, pc, pass>>

(* furi_event_loop_link_notify: push and flag in one critical section. *)
LinkNotify(t) ==
  /\ inflight[t] \in QueueNotices
  /\ LET i == link[inflight[t].object][inflight[t].dir]
     IN  IF i # Nil THEN ItemNotify(i) ELSE UNCHANGED <<waiting, bits>>
  /\ inflight' = [inflight EXCEPT ![t] = None]
  /\ UNCHANGED <<count, registry, custom, pending, pc, pass>>

(***************************************************************************)
(* Custom events and stop, from any thread.                                *)
(***************************************************************************)
SetCustomEvent(t, e) ==
  /\ MayCall(t, "custom")
  /\ pc # "freed"
  /\ custom' = [custom EXCEPT !.events = @ \union {e}]
  /\ inflight' = [inflight EXCEPT ![t] = [what |-> "custom"]]
  /\ UNCHANGED <<count, registry, waiting, bits, pending, pc, pass>>

CustomNotify(t) ==
  /\ inflight[t] = [what |-> "custom"]
  /\ bits' = bits \union {"Custom"}
  /\ inflight' = [inflight EXCEPT ![t] = None]
  /\ UNCHANGED <<count, registry, waiting, custom, pending, pc, pass>>

Stop(t) ==
  /\ MayCall(t, "stop")
  /\ pc # "freed"
  /\ bits' = bits \union {"Stop"}
  /\ UNCHANGED <<count, registry, waiting, custom, pending, pc, pass, inflight>>

(***************************************************************************)
(* Calls reserved to the loop's thread.                                    *)
(***************************************************************************)
(* Mutant: a level that is there already is not looked at. *)
SubscribeBlind(o, k) ==
  /\ MayCall(Loop, "subscribe")
  /\ tree[o] = Nil
  /\ \E i \in Items :
       /\ item[i] = Freed
       /\ item' = [item EXCEPT ![i] = [owner |-> TRUE, object |-> o, kind |-> k]]
       /\ tree' = [tree EXCEPT ![o] = i]
       /\ link' = [link EXCEPT ![o][k.dir] = i]
  /\ UNCHANGED <<count, waiting, bits, custom, pending, pc, pass, inflight>>

Subscribe(o, k) ==
  /\ MayCall(Loop, "subscribe")
  /\ tree[o] = Nil
  /\ \E i \in Items :
       /\ item[i] = Freed
       /\ item' = [item EXCEPT ![i] = [owner |-> TRUE, object |-> o, kind |-> k]]
       /\ tree' = [tree EXCEPT ![o] = i]
       /\ link' = [link EXCEPT ![o][k.dir] = i]
       /\ IF ~k.edge /\ GetLevel(o, k.dir)
            THEN ItemNotify(i)
            ELSE UNCHANGED <<waiting, bits>>
  /\ UNCHANGED <<count, custom, pending, pc, pass, inflight>>

(* Mutant: the object keeps the link to its item. *)
UnsubscribeKeepsLink(o) ==
  LET i == tree[o]
  IN  /\ tree' = [tree EXCEPT ![o] = Nil]
      /\ waiting' = Unlink(waiting, i)
      /\ item' = [item EXCEPT ![i] = IF current = i THEN [@ EXCEPT !.owner = FALSE]
                                                    ELSE Freed]
      /\ UNCHANGED link

(* Mutant: the item is freed even while its callback runs. *)
UnsubscribeFreesNow(o) ==
  LET i == tree[o]
  IN  /\ tree' = [tree EXCEPT ![o] = Nil]
      /\ link' = [link EXCEPT ![o][item[i].kind.dir] = Nil]
      /\ waiting' = Unlink(waiting, i)
      /\ item' = [item EXCEPT ![i] = Freed]

(* What furi_event_loop_unsubscribe does to the registry: the item that is *)
(* being processed is only orphaned, and freed after its callback.         *)
UnsubscribeItem(o) ==
  LET i == tree[o]
  IN  /\ tree' = [tree EXCEPT ![o] = Nil]
      /\ link' = [link EXCEPT ![o][item[i].kind.dir] = Nil]
      /\ waiting' = Unlink(waiting, i)
      /\ item' = [item EXCEPT ![i] = IF current = i THEN [@ EXCEPT !.owner = FALSE]
                                                    ELSE Freed]

Unsubscribe(o) ==
  /\ MayCall(Loop, "unsubscribe")
  /\ tree[o] # Nil
  /\ UnsubscribeItem(o)
  /\ UNCHANGED <<count, bits, custom, pending, pc, pass, inflight>>

(* Mutant: a callback of the loop does not raise the flag, since the pass  *)
(* comes to the deferred functions anyway.                                 *)
PendUnannounced(f) ==
  /\ MayCall(Loop, IF pc = "pending_cb" THEN "repend" ELSE "pend")
  /\ Len(pending) < MaxPending
  /\ pending' = Append(pending, f)
  /\ bits' = IF pc = "idle" THEN bits \union {"Pending"} ELSE bits
  /\ UNCHANGED <<count, registry, waiting, custom, pc, pass, inflight>>

(* A deferred function that defers another one ("repend") keeps the drain  *)
(* going: the pass does not end before the queue is empty.                 *)
PendCallback(f) ==
  /\ MayCall(Loop, IF pc = "pending_cb" THEN "repend" ELSE "pend")
  /\ Len(pending) < MaxPending
  /\ pending' = Append(pending, f)
  /\ bits' = bits \union {"Pending"}
  /\ UNCHANGED <<count, registry, waiting, custom, pc, pass, inflight>>

(* Mutant: bits that were set before the callback are not announced. *)
SetCallbackSilently ==
  /\ MayCall(Loop, "set_callback")
  /\ custom' = [custom EXCEPT !.callback = TRUE]
  /\ UNCHANGED <<count, registry, waiting, bits, pending, pc, pass, inflight>>

SetCustomEventCallback ==
  /\ MayCall(Loop, "set_callback")
  /\ custom' = [custom EXCEPT !.callback = TRUE]
  /\ bits' = IF custom.events # {} THEN bits \union {"Custom"} ELSE bits
  /\ UNCHANGED <<count, registry, waiting, pending, pc, pass, inflight>>

(* No caller runs a loop a second time after it was stopped. *)
Run ==
  /\ pc = "idle" /\ inflight[Loop] = None
  /\ pc' = "wait"
  /\ UNCHANGED <<count, registry, waiting, bits, custom, pending, pass, inflight>>

(* furi_event_loop_free takes a loop that does not run and checks that the *)
(* waiting list is empty.  Its user has unsubscribed every object and no   *)
(* thread signals the loop any more.                                       *)
Free ==
  /\ pc \in {"idle", "stopped"}
  /\ \A o \in Objects : tree[o] = Nil
  /\ inflight[Loop] = None
  /\ \A t \in Actors : inflight[t].what # "custom"
  /\ IF waiting = <<>>
       THEN pc' = "freed" /\ pending' = <<>> /\ bits' = {}
       ELSE pc' = "fault" /\ UNCHANGED <<pending, bits>>
  /\ UNCHANGED <<count, registry, waiting, custom, pass, inflight>>

(***************************************************************************)
(* One pass of furi_event_loop_run.                                        *)
(***************************************************************************)
(* xTaskNotifyWait returns the flags and clears them in one step.  A stop  *)
(* leaves the loop at once, whatever the other flags say.                  *)
Wake ==
  /\ pc = "wait" /\ bits # {}
  /\ bits' = {}
  /\ IF "Stop" \in bits
       THEN pc' = "stopped" /\ flags' = {}
       ELSE pc' = "events" /\ flags' = bits
  /\ UNCHANGED <<count, registry, waiting, custom, pending, cur, current, again, inflight>>

(* furi_event_loop_get_waiting_item takes one item per pass. *)
PopWaiting ==
  /\ pc = "events"
  /\ IF "Event" \in flags /\ waiting # <<>>
       THEN pc' = "process" /\ cur' = Head(waiting) /\ waiting' = Tail(waiting)
       ELSE pc' = "pending" /\ UNCHANGED <<cur, waiting>>
  /\ UNCHANGED <<count, registry, bits, custom, pending, flags, current, again, inflight>>

(* furi_event_loop_process_event unsubscribes a Once item before it makes  *)
(* it the current item.                                                    *)
BeginEvent ==
  /\ pc = "process"
  /\ IF item[cur].kind.once
       THEN UnsubscribeItem(item[cur].object)
       ELSE UNCHANGED <<registry, waiting>>
  /\ current' = cur
  /\ again' = FALSE
  /\ pc' = "dispatch"
  /\ UNCHANGED <<count, bits, custom, pending, flags, cur, inflight>>

(* Mutant: the level is not read again before the callback. *)
DispatchStale ==
  /\ pc = "dispatch"
  /\ pc' = IF item[cur] = Freed THEN "fault" ELSE "callback"
  /\ UNCHANGED <<count, registry, waiting, bits, custom, pending, pass, inflight>>

(* An edge event calls back at once, a level event only if the level still *)
(* is not zero.  A freed block reads as zeroes: its contract is NULL.      *)
Dispatch ==
  /\ pc = "dispatch"
  /\ pc' = IF item[cur] = Freed THEN "fault"
           ELSE IF item[cur].kind.edge \/ GetLevel(item[cur].object, item[cur].kind.dir)
           THEN "callback"
           ELSE "finish"
  /\ UNCHANGED <<count, registry, waiting, bits, custom, pending, pass, inflight>>

CallbackReturn ==
  /\ pc = "callback" /\ inflight[Loop] = None
  /\ pc' = IF item[cur].kind.edge THEN "finish" ELSE "recheck"
  /\ UNCHANGED <<count, registry, waiting, bits, custom, pending, pass, inflight>>

Recheck ==
  /\ pc = "recheck"
  /\ again' = GetLevel(item[cur].object, item[cur].kind.dir)
  /\ pc' = "finish"
  /\ UNCHANGED <<count, registry, waiting, bits, custom, pending, flags, cur, current, inflight>>

(* Complete: nothing.  Incomplete: back to the end of the waiting list.    *)
(* Unsubscribed by its callback: the item is freed now.                    *)
FinishEvent ==
  /\ pc = "finish"
  /\ \/ /\ ~item[cur].owner
        /\ item' = [item EXCEPT ![cur] = Freed]
        /\ UNCHANGED <<waiting, bits>>
     \/ /\ item[cur].owner /\ again
        /\ ItemNotify(cur)
        /\ UNCHANGED item
     \/ /\ item[cur].owner /\ ~again
        /\ UNCHANGED <<item, waiting, bits>>
  /\ cur' = Nil /\ current' = Nil /\ again' = FALSE
  /\ pc' = "sync"
  /\ UNCHANGED <<count, tree, link, custom, pending, flags, inflight>>

(* Mutant: the items that were not taken in this pass are forgotten. *)
SyncNothing ==
  /\ pc = "sync"
  /\ pc' = "pending"
  /\ UNCHANGED <<count, registry, waiting, bits, custom, pending, pass, inflight>>

SyncFlags ==
  /\ pc = "sync"
  /\ bits' = IF waiting # <<>> THEN bits \union {"Event"} ELSE bits
  /\ pc' = "pending"
  /\ UNCHANGED <<count, registry, waiting, custom, pending, pass, inflight>>

(* Deferred functions run oldest first, and leave the queue afterwards. *)
ProcessPending ==
  /\ pc = "pending"
  /\ pc' = IF "Pending" \in flags /\ pending # <<>> THEN "pending_cb" ELSE "custom"
  /\ UNCHANGED <<count, registry, waiting, bits, custom, pending, pass, inflight>>

PendingReturn ==
  /\ pc = "pending_cb" /\ inflight[Loop] = None
  /\ pending' = Tail(pending)
  /\ pc' = "pending"
  /\ UNCHANGED <<count, registry, waiting, bits, custom, pass, inflight>>

ProcessCustom ==
  /\ pc = "custom"
  /\ IF "Custom" \in flags /\ custom.callback
       THEN pc' = "custom_cb" /\ custom' = [custom EXCEPT !.events = {}]
       ELSE pc' = "wait" /\ UNCHANGED custom
  /\ flags' = {}
  /\ UNCHANGED <<count, registry, waiting, bits, pending, cur, current, again, inflight>>

CustomReturn ==
  /\ pc = "custom_cb" /\ inflight[Loop] = None
  /\ pc' = "wait"
  /\ UNCHANGED <<count, registry, waiting, bits, custom, pending, pass, inflight>>

(***************************************************************************)
(* The specification.                                                      *)
(***************************************************************************)
LoopStep ==
  \/ Wake \/ PopWaiting \/ BeginEvent \/ Dispatch \/ Recheck \/ FinishEvent
  \/ SyncFlags \/ ProcessPending \/ ProcessCustom

UserReturn == CallbackReturn \/ PendingReturn \/ CustomReturn

OwnerCall ==
  \/ \E o \in Objects, k \in Kinds : Subscribe(o, k)
  \/ \E o \in Objects : Unsubscribe(o)
  \/ \E f \in Callbacks : PendCallback(f)
  \/ SetCustomEventCallback
  \/ Run
  \/ Free

ThreadCall(t) ==
  \/ \E o \in Objects : MessageQueuePut(t, o)
                     \/ MessageQueueGet(t, o)
                     \/ MessageQueueReset(t, o)
  \/ \E e \in CustomEvents : SetCustomEvent(t, e)
  \/ Stop(t)

Notify(t) == LinkNotify(t) \/ CustomNotify(t)

Next ==
  \/ LoopStep \/ UserReturn \/ OwnerCall
  \/ \E t \in Threads : ThreadCall(t) \/ Notify(t)

Spec == Init /\ [][Next]_vars

(***************************************************************************)
(* Properties.                                                             *)
(***************************************************************************)
TypeOK ==
  /\ count \in [Objects -> 0..Capacity]
  /\ item \in [Items -> Subscriptions \union {Freed}]
  /\ tree \in [Objects -> Items \union {Nil}]
  /\ link \in [Objects -> [Dirs -> Items \union {Nil}]]
  /\ waiting \in Seq(Items)
  /\ bits \subseteq Flags
  /\ custom \in [events : SUBSET CustomEvents, callback : BOOLEAN]
  /\ pending \in Seq(Callbacks)
  /\ pc \in Pcs
  /\ flags \subseteq Flags
  /\ cur \in Items \union {Nil}
  /\ current \in Items \union {Nil}
  /\ again \in BOOLEAN
  /\ inflight \in [Threads -> Notices]

(* The places where the pass holds an item that it popped. *)
Processing == {"process", "dispatch", "callback", "recheck", "finish"}

(* The tree, the links of the objects and the heap agree: a link or a tree *)
(* entry never dangles, and the only block that is neither free nor        *)
(* registered is the one whose callback unsubscribed it.                   *)
RegistrySound ==
  /\ \A o \in Objects : tree[o] # Nil =>
       /\ item[tree[o]] # Freed
       /\ item[tree[o]].owner /\ item[tree[o]].object = o
       /\ link[o][item[tree[o]].kind.dir] = tree[o]
  /\ \A o \in Objects, d \in Dirs : link[o][d] # Nil =>
       tree[o] = link[o][d] /\ item[tree[o]].kind.dir = d
  /\ \A i \in Items : item[i] # Freed =>
       IF item[i].owner THEN tree[item[i].object] = i
                        ELSE i = current /\ ~IsWaiting(i)

(* Every item on the waiting list is a live subscription, and waits once:  *)
(* the intrusive list is never corrupted by a second push and never holds  *)
(* a freed block.                                                          *)
WaitingSound ==
  /\ Distinct(waiting)
  /\ \A i \in Items : IsWaiting(i) => item[i].owner

(* The item a pass works on stays allocated until the pass is done with    *)
(* it, even if its own callback unsubscribes it and subscribes again.      *)
ItemAliveWhileProcessed == pc \in Processing => item[cur] # Freed

(* current_item and the popped item agree with the step of the pass; a     *)
(* freed loop has no subscription left that could reach it.                *)
PassSound ==
  /\ pc \notin Processing \union {"fault"} => cur = Nil /\ current = Nil
  /\ pc \in Processing => cur \in Items
  /\ pc = "process" => current = Nil /\ item[cur].owner
  /\ pc \in Processing \ {"process"} => current = cur
  /\ pc = "dispatch" => item[cur] = Freed \/ item[cur].owner
  /\ pc \in {"callback", "recheck", "finish"} => item[cur] # Freed
  /\ pc = "pending_cb" => pending # <<>>
  /\ pc \in {"idle", "wait", "custom_cb", "stopped", "freed"} => flags = {}
  /\ pc = "freed" => waiting = <<>> /\ \A o \in Objects : tree[o] = Nil

(* No lost wakeup: while something waits, the Event flag is set or the     *)
(* current pass is still going to look at the list and set it again.       *)
NoLostWakeup ==
  waiting # <<>> =>
    \/ "Event" \in bits
    \/ pc = "events" /\ "Event" \in flags
    \/ pc \in Processing \union {"sync"}
    \/ pc \in {"stopped", "fault"}

(* No lost event: a level subscription whose queue has the level it asks   *)
(* for is waiting, or being processed with the outcome still open, or the  *)
(* thread that changed the level is about to notify.                       *)
LevelNotLost ==
  \A o \in Objects :
    (/\ tree[o] # Nil
     /\ ~item[tree[o]].kind.edge
     /\ GetLevel(o, item[tree[o]].kind.dir)) =>
       \/ IsWaiting(tree[o])
       \/ cur = tree[o] /\ pc \in Processing \ {"finish"}
       \/ cur = tree[o] /\ pc = "finish" /\ again
       \/ \E t \in Threads : inflight[t] =
            [what |-> "queue", object |-> o, dir |-> item[tree[o]].kind.dir]

(* Custom event bits that nobody has been given yet are announced to the   *)
(* loop, or about to be, whatever the order of setting the bits, setting   *)
(* the callback and taking the flags.                                      *)
CustomNotLost ==
  custom.events # {} /\ custom.callback =>
    \/ "Custom" \in bits \union flags
    \/ \E t \in Threads : inflight[t] = [what |-> "custom"]
    \/ pc \in {"stopped", "freed", "fault"}

(* Deferred functions are announced until the pass that runs them ends. *)
PendingNotLost ==
  pending # <<>> =>
    \/ "Pending" \in bits
    \/ "Pending" \in flags /\ pc \in Processing \union
         {"events", "sync", "pending", "pending_cb"}
    \/ pc \in {"stopped", "fault"}

(* Nothing that was handed to the loop from outside its objects is left    *)
(* behind unannounced: neither a custom event (furi_event_loop_set_custom_ *)
(* event) nor a deferred function (furi_event_loop_pend_callback), in      *)
(* whatever order they meet the pass that takes the flags.                 *)
AnnouncementsNotLost == CustomNotLost /\ PendingNotLost

(***************************************************************************)
(* The abstract specification, and fairness.                               *)
(***************************************************************************)
Delivery == INSTANCE EventDelivery WITH
  sub     <- [o \in Objects |-> IF tree[o] = Nil THEN Nil ELSE item[tree[o]].kind],
  serving <- IF pc = "callback" THEN item[cur].object ELSE Nil,
  phase   <- IF pc = "idle" THEN "idle"
             ELSE IF pc \in {"stopped", "freed"} THEN "stopped" ELSE "running"

(* The loop calls back subscribed objects only, a level subscription only  *)
(* when its level was not zero, one callback at a time, and stops between  *)
(* two callbacks (furi_event_loop_process_event, furi_event_loop_run).     *)
DeliverySafety == Delivery!ESafety

(* The scheduler runs the loop's thread whenever it is ready, a callback   *)
(* returns, and a thread that changed a queue reaches its notification.    *)
Fairness ==
  /\ WF_vars(LoopStep)
  /\ SF_vars(UserReturn)
  /\ \A t \in Threads : WF_vars(Notify(t))

FairSpec == Spec /\ Fairness

(* Every event is served: a subscribed object whose level stays non-zero   *)
(* gets its callback, however busy the other objects are, unless the loop  *)
(* stops.                                                                  *)
DeliveryPromise == Delivery!Promise

Running == pc \notin {"idle", "stopped", "freed"}

(* Custom bits reach the custom callback, a deferred function runs and the *)
(* queue of them advances, unless the loop is stopped; and a stop ends the *)
(* run of the loop, whatever comes with it (furi_event_loop_run).          *)
AnnouncementsServed ==
  /\ (Running /\ custom.events # {} /\ custom.callback) ~> (custom.events = {} \/ ~Running)
  /\ \A n \in 1..MaxPending :
       (Running /\ Len(pending) = n) ~> (Len(pending) # n \/ ~Running)
  /\ (Running /\ "Stop" \in bits) ~> ~Running

(* What event_loop.h says of FuriEventLoopEventFlagOnce: the subscription   *)
(* is cancelled upon its first event, which still occurs: its callback     *)
(* runs.                                                                   *)
OnceEventOccurs ==
  (pc = "process" /\ item[cur].kind.once /\ item[cur].kind.edge) ~> (pc = "callback")
=============================================================================
