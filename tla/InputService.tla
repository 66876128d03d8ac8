---------------------------- MODULE InputService ----------------------------
(***************************************************************************)
(* The way of a key from its pin to the views: the port expander and its   *)
(* interrupt line (lib/drivers/tca6416a), the input service that debounces *)
(* the keys (applications/services/input/input.c), the press timer of each *)
(* key, run by the timer task (lib/furi/core/timer.c), the publisher's     *)
(* lock (lib/furi/core/pubsub.c), the queue of the gui and the two views   *)
(* an event visits, the power menu and below it an application.            *)
(*                                                                         *)
(* The timer task has the lowest priority of the three tasks: it runs only *)
(* while the input thread waits for something.  A running press timer may  *)
(* expire at any moment, and the gui may take any time over an event.      *)
(***************************************************************************)
EXTENDS Naturals, Sequences

CONSTANTS
  Keys,          \* the keys of the model
  MenuKey,       \* InputKey3: shows and hides the power menu
  DebounceTicks, \* INPUT_DEBOUNCE_TICKS
  QueueSize,     \* GUI_INPUT_EVENT_QUEUE_SIZE
  TimerQueue,    \* configTIMER_QUEUE_LENGTH
  MaxReadErrors  \* how often the expander fails to answer

ASSUME InputAssumption ==
  /\ MenuKey \in Keys
  /\ DebounceTicks \in Nat /\ DebounceTicks > 1
  /\ QueueSize \in Nat \ {0} /\ TimerQueue \in Nat \ {0}
  /\ MaxReadErrors \in Nat

LongPressCounts == 2  \* INPUT_LONG_PRESS_COUNTS

VARIABLES
  pin,       \* is the key down
  chip,      \* the pins as the expander saw them when last read
  isr,       \* INPUT_THREAD_FLAG_ISR of the input thread
  errors,    \* reads that failed so far
  key,       \* InputPinState of each key: state, debounce, press_counter
  pc,        \* what the input thread does, and for which key
  todo,      \* keys of this round whose state changes
  timer,     \* the timer task: the press timers that are active, its commands
  daemon,    \* what the timer task does
  lock,      \* who holds the lock of the publisher
  queue,     \* input_queue of the gui
  last,      \* the last event published for each key
  menu,      \* the power menu is visible
  down       \* the keys the application saw pressed and not released

pinVars == <<pin, chip, isr, errors>>
inputVars == <<key, pc, todo>>
timerVars == <<timer, daemon>>
pubVars == <<lock, queue, last>>
viewVars == <<menu, down>>

vars == <<pinVars, inputVars, timerVars, pubVars, viewVars>>

At(place, k, events) == [at |-> place, key |-> k, events |-> events]

(* A place where a task has no key to work on. *)
Place(p) == At(p, MenuKey, <<>>)

(* The interrupt line of the expander is low: the pins are not what was    *)
(* read last.                                                              *)
IntLow == pin # chip

(* The start of input_srv: the buttons are read once to learn which keys   *)
(* are down.  A read that fails (MaxReadErrors) makes every key look       *)
(* pressed or every key released.                                          *)
ReadErrors == {[k \in Keys |-> b] : b \in BOOLEAN}

Init ==
  /\ pin \in [Keys -> BOOLEAN]
  /\ \E read \in [Keys -> BOOLEAN] :
       /\ \/ read = pin /\ chip = pin /\ errors = 0
          \/ read \in ReadErrors /\ chip \in [Keys -> BOOLEAN] /\ errors = 1 /\ MaxReadErrors > 0
       /\ key = [k \in Keys |-> [state |-> read[k], debounce |-> DebounceTicks \div 2, count |-> 0]]
       /\ last = [k \in Keys |-> IF read[k] THEN "Press" ELSE "Release"]
  /\ isr = FALSE
  /\ pc = Place("read")
  /\ todo = {}
  /\ timer = [active |-> {}, commands |-> <<>>]
  /\ daemon = Place("idle")
  /\ lock = "free" /\ queue = <<>>
  /\ menu = FALSE
  /\ down = {}

(***************************************************************************)
(* The pins.  The falling edge of the interrupt line sets the thread flag. *)
(***************************************************************************)
PinChange(k) ==
  /\ pin' = [pin EXCEPT ![k] = ~@]
  /\ isr' = (isr \/ (~IntLow /\ pin' # chip))
  /\ UNCHANGED <<chip, errors, inputVars, timerVars, pubVars, viewVars>>

(***************************************************************************)
(* furi_pubsub_publish by a task, of the first of its events.  The lock is *)
(* kept for as long as the queue of the gui has no room.                   *)
(***************************************************************************)
Put(task) ==
  /\ Len(queue) < QueueSize
  /\ queue' = Append(queue, [key |-> task.key, type |-> Head(task.events)])
  /\ last' = [last EXCEPT ![task.key] = Head(task.events)]
  /\ lock' = "free"

Acquire(name, task) ==
  /\ task.events # <<>> /\ lock = "free"
  /\ Len(queue) = QueueSize /\ lock' = name
  /\ UNCHANGED <<queue, last>>

Publish(name, task) == task.events # <<>> /\ lock \in {"free", name} /\ Put(task)

(***************************************************************************)
(* The input thread.                                                       *)
(***************************************************************************)
Debounced(k, s) ==
  LET d == key[k].debounce IN
  IF s THEN (IF d < DebounceTicks THEN d + 1 ELSE d)
       ELSE (IF d > 0 THEN d - 1 ELSE d)

(* What furi_bsp_expander_control_read_buttons returns. *)
ReadButtons(read) ==
  \/ read = pin /\ chip' = pin /\ UNCHANGED errors
  \/ read \in ReadErrors /\ errors < MaxReadErrors /\ errors' = errors + 1 /\ UNCHANGED chip

(* The buttons are read and every key is debounced. *)
Read ==
  /\ pc.at = "read"
  /\ \E read \in [Keys -> BOOLEAN] :
       LET debounce == [k \in Keys |-> Debounced(k, read[k])]
           settled  == {k \in Keys : debounce[k] \in {0, DebounceTicks}} IN
       /\ ReadButtons(read)
       /\ key' = [k \in Keys |-> [key[k] EXCEPT !.debounce = debounce[k]]]
       /\ todo' = {k \in settled : key[k].state # read[k]}
  /\ pc' = Place("keys")
  /\ UNCHANGED <<pin, isr, timerVars, pubVars, viewVars>>

(* Without a time limit: the thread waits for room. *)
Command(c, k) ==
  /\ Len(timer.commands) < TimerQueue
  /\ timer' = [timer EXCEPT !.commands = Append(@, [type |-> c, key |-> k])]

(* A key is down: the timer is started, then Press published. *)
Pressed(k) ==
  /\ pc.at = "keys" /\ k \in todo /\ ~key[k].state
  /\ key' = [key EXCEPT ![k].state = TRUE]
  /\ todo' = todo \ {k}
  /\ Command("start", k)
  /\ pc' = At("publish", k, <<"Press">>)
  /\ UNCHANGED <<pinVars, daemon, pubVars, viewVars>>

(* A key is up: the timer is stopped. *)
Released(k) ==
  /\ pc.at = "keys" /\ k \in todo /\ key[k].state
  /\ key' = [key EXCEPT ![k].state = FALSE]
  /\ todo' = todo \ {k}
  /\ Command("stop", k)
  /\ pc' = At("stopping", k, <<>>)
  /\ UNCHANGED <<pinVars, daemon, pubVars, viewVars>>

(* Mutant: Short or not is decided before the timer has stopped. *)
StoppedAtOnce ==
  /\ pc.at = "stopping"
  /\ pc' = At("publish", pc.key, IF key[pc.key].count < LongPressCounts
                                 THEN <<"Short", "Release">> ELSE <<"Release">>)
  /\ key' = [key EXCEPT ![pc.key].count = 0]
  /\ UNCHANGED <<pinVars, todo, timerVars, pubVars, viewVars>>

(* The loop over furi_timer_is_running is left. *)
Stopped ==
  /\ pc.at = "stopping" /\ pc.key \notin timer.active
  /\ pc' = At("publish", pc.key, IF key[pc.key].count < LongPressCounts
                                 THEN <<"Short", "Release">> ELSE <<"Release">>)
  /\ key' = [key EXCEPT ![pc.key].count = 0]
  /\ UNCHANGED <<pinVars, todo, timerVars, pubVars, viewVars>>

InputAcquire ==
  /\ pc.at = "publish" /\ Acquire("input", pc)
  /\ UNCHANGED <<pinVars, inputVars, timerVars, viewVars>>

InputPublish ==
  /\ pc.at = "publish" /\ Publish("input", pc)
  /\ pc' = IF Len(pc.events) > 1 THEN At("publish", pc.key, Tail(pc.events))
                                 ELSE Place("keys")
  /\ UNCHANGED <<pinVars, key, todo, timerVars, viewVars>>

(* is_changing *)
Changing == \E k \in Keys : key[k].debounce \notin {0, DebounceTicks}

(* Mutant: the thread waits for the line although a key is still bouncing. *)
RoundEndWaits ==
  /\ pc.at = "keys" /\ todo = {}
  /\ isr' = (isr \/ IntLow)
  /\ pc' = Place("wait")
  /\ UNCHANGED <<pin, chip, errors, key, todo, timerVars, pubVars, viewVars>>

(* The end of a round: a line that is still low has no edge to come. *)
RoundEnd ==
  /\ pc.at = "keys" /\ todo = {}
  /\ isr' = (isr \/ IntLow)
  /\ pc' = Place(IF Changing THEN "delay" ELSE "wait")
  /\ UNCHANGED <<pin, chip, errors, key, todo, timerVars, pubVars, viewVars>>

(* furi_delay_tick is over, or furi_thread_flags_wait takes the flag. *)
Wake ==
  /\ \/ pc.at = "delay" /\ UNCHANGED isr
     \/ pc.at = "wait" /\ isr /\ isr' = FALSE
  /\ pc' = Place("read")
  /\ UNCHANGED <<pin, chip, errors, key, todo, timerVars, pubVars, viewVars>>

InputNext ==
  \/ Read \/ RoundEnd \/ Wake \/ Stopped \/ InputAcquire \/ InputPublish
  \/ \E k \in Keys : Pressed(k) \/ Released(k)

(* The input thread waits: only then the timer task gets the processor. *)
InputWaits ==
  \/ pc.at \in {"delay", "wait"}
  \/ pc.at = "keys" /\ todo # {} /\ Len(timer.commands) = TimerQueue
  \/ pc.at = "stopping" /\ pc.key \in timer.active
  \/ pc.at = "publish" /\ lock = "daemon"
  \/ pc.at = "publish" /\ lock = "input" /\ Len(queue) = QueueSize

(***************************************************************************)
(* The timer task.  It runs one expired timer, then all its commands.      *)
(***************************************************************************)
NextPlace == Place(IF timer.commands = <<>> THEN "idle" ELSE "commands")

(* input_press_timer_callback: the counter, and what is to be published. *)
Expire(k) ==
  LET n == key[k].count + 1 IN
  /\ daemon.at = "idle" /\ InputWaits
  /\ k \in timer.active
  /\ key' = [key EXCEPT ![k].count = IF n > LongPressCounts THEN LongPressCounts ELSE n]
  /\ daemon' = IF n < LongPressCounts THEN NextPlace
               ELSE At("publish", k, IF n = LongPressCounts THEN <<"Long">> ELSE <<"Repeat">>)
  /\ UNCHANGED <<pinVars, pc, todo, timer, pubVars, viewVars>>

DaemonAcquire ==
  /\ InputWaits /\ Acquire("daemon", daemon)
  /\ UNCHANGED <<pinVars, inputVars, timerVars, viewVars>>

DaemonPublish ==
  /\ InputWaits /\ Publish("daemon", daemon)
  /\ daemon' = NextPlace
  /\ UNCHANGED <<pinVars, inputVars, timer, viewVars>>

DaemonCommand ==
  LET c == Head(timer.commands) IN
  /\ daemon.at \in {"idle", "commands"} /\ InputWaits /\ timer.commands # <<>>
  /\ timer' = [active   |-> IF c.type = "start" THEN timer.active \union {c.key}
                                                ELSE timer.active \ {c.key},
               commands |-> Tail(timer.commands)]
  /\ daemon' = Place(IF Len(timer.commands) = 1 THEN "idle" ELSE "commands")
  /\ UNCHANGED <<pinVars, inputVars, pubVars, viewVars>>

DaemonNext ==
  \/ DaemonAcquire \/ DaemonPublish \/ DaemonCommand
  \/ \E k \in Keys : Expire(k)

(***************************************************************************)
(* The gui: an event visits the views from the top until one consumes it.  *)
(* The power menu is transparent, the application below it is not.         *)
(***************************************************************************)
(* power_menu_input: whether the menu is shown after event e.  Ok hides it *)
(* only on the item Cancel, the menu key always; Back does as the menu key.*)
MenuShown(e) ==
  IF menu
  THEN IF e.type = "Press" THEN (IF e.key = MenuKey THEN {FALSE} ELSE BOOLEAN) ELSE {TRUE}
  ELSE {e.key = MenuKey /\ e.type = "Long"}

(* Mutant: every event is consumed while the menu is visible. *)
MenuConsumesAll(e) == menu \/ (e.key = MenuKey /\ e.type = "Long")

MenuConsumes(e) ==
  IF menu THEN e.type # "Release" ELSE e.key = MenuKey /\ e.type = "Long"

(* What the application makes of an event. *)
Seen(e) ==
  CASE e.type = "Press"   -> down \union {e.key}
    [] e.type = "Release" -> down \ {e.key}
    [] OTHER              -> down

GuiInput ==
  LET e == Head(queue) IN
  /\ queue # <<>>
  /\ queue' = Tail(queue)
  /\ menu' \in MenuShown(e)
  /\ down' = IF MenuConsumes(e) THEN down ELSE Seen(e)
  /\ UNCHANGED <<pinVars, inputVars, timerVars, lock, last>>

Next ==
  \/ InputNext \/ DaemonNext \/ GuiInput
  \/ \E k \in Keys : PinChange(k)

Spec == Init /\ [][Next]_vars

(* The tasks go on; nobody presses or releases a key because he must. *)
FairSpec == Spec /\ WF_vars(InputNext) /\ WF_vars(DaemonNext) /\ WF_vars(GuiInput)

(***************************************************************************)
(* Correctness.                                                            *)
(***************************************************************************)
Tasks == [at : {"idle", "read", "keys", "publish", "stopping", "delay", "wait", "commands"},
          key : Keys, events : Seq({"Press", "Short", "Long", "Repeat", "Release"})]

(* The type invariant; no queue holds more than its size. *)
InputTypeOK ==
  /\ pin \in [Keys -> BOOLEAN] /\ chip \in [Keys -> BOOLEAN] /\ isr \in BOOLEAN
  /\ errors \in 0 .. MaxReadErrors
  /\ key \in [Keys -> [state : BOOLEAN, debounce : 0 .. DebounceTicks, count : 0 .. LongPressCounts]]
  /\ pc \in Tasks /\ daemon \in Tasks
  /\ todo \subseteq Keys
  /\ timer.active \subseteq Keys
  /\ timer.commands \in Seq([type : {"start", "stop"}, key : Keys])
  /\ Len(timer.commands) =< TimerQueue
  /\ lock \in {"free", "input", "daemon"}
  /\ queue \in Seq([key : Keys, type : {"Press", "Short", "Long", "Repeat", "Release"}])
  /\ Len(queue) =< QueueSize
  /\ last \in [Keys -> {"Press", "Short", "Long", "Repeat", "Release"}]
  /\ menu \in BOOLEAN /\ down \subseteq Keys

AlwaysRead == errors = 0

SettlesAs(k) ==
  /\ <>[]pin[k] => <>[](last[k] # "Release")
  /\ <>[]~pin[k] => <>[](last[k] = "Release")

Protocol == INSTANCE KeyProtocol

(* The input service implements KeyProtocol: Long and Repeat come from the *)
(* timer task, Press, Short and Release from the input thread, and still   *)
(* every key gives one Press, Short or Long but not both, and Release last *)
(* (input_srv, input_press_timer_callback).  That is the order of input.c: *)
(* input.h, line 19, has Short after Release.                              *)
KeysFollowProtocol == Protocol!Spec

(* The application holds a key for pressed only while it is: once Release  *)
(* has been published and is no longer in the queue, the application that  *)
(* saw the Press has seen it, also when the power menu came up in between. *)
NoStuckKeys ==
  \A k \in down :
    \/ last[k] # "Release"
    \/ \E i \in DOMAIN queue : queue[i] = [key |-> k, type |-> "Release"]

(* No queue or counter leaves its bounds, and no application is left with  *)
(* a key that is up (input_srv, gui_input, power_menu_input).              *)
InputSound == InputTypeOK /\ NoStuckKeys

(* A key that stays down, or up, is in the end reported as such, provided  *)
(* the expander always answered: no edge of the interrupt line is lost,    *)
(* and no task waits for ever on the publisher's lock, on the queue of the *)
(* gui or for the press timer to stop.                                     *)
SettledKeyReported ==
  []AlwaysRead => \A k \in Keys : SettlesAs(k)
=============================================================================
