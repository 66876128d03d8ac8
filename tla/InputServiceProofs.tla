------------------------- MODULE InputServiceProofs -------------------------
(***************************************************************************)
(* Proofs about InputService, for every set of keys, length of the queues, *)
(* debounce time and number of failed reads.                               *)
(***************************************************************************)
EXTENDS InputService, SequenceLemmas

(***************************************************************************)
(* The inductive invariant, part by part.                                  *)
(***************************************************************************)
Publishing(k) == pc.at = "publish" /\ pc.key = k
Stopping(k)   == pc.at = "stopping" /\ pc.key = k
Reporting(k)  == daemon.at = "publish" /\ daemon.key = k

(* What each task has to publish goes with the place where it is, and the  *)
(* lock is held only by a task that publishes.                             *)
TasksSound ==
  /\ pc.at = "publish" => pc.events \in {<<"Press">>, <<"Short", "Release">>, <<"Release">>}
  /\ daemon.at \in {"idle", "commands", "publish"}
  /\ daemon.at = "publish" => daemon.events \in {<<"Long">>, <<"Repeat">>}
  /\ daemon.at # "publish" => daemon.events = <<>>
  /\ lock = "input" => pc.at = "publish"
  /\ lock = "daemon" => daemon.at = "publish"

Commands == [type : {"start", "stop"}, key : Keys]

(* Timer k, one of the active timers or not, does not run any more when    *)
(* the commands have been carried out.                                     *)
EndsStopped(active, commands, k) ==
  \/ k \notin active /\ \A i \in DOMAIN commands : commands[i].key # k
  \/ \E i \in DOMAIN commands :
       /\ commands[i] = [type |-> "stop", key |-> k]
       /\ \A j \in DOMAIN commands : j > i => commands[j].key # k

(* A timer that can expire belongs to a key that is down, or to the one    *)
(* whose timer the input thread waits for.                                 *)
TimersSound ==
  \A k \in Keys :
    /\ ~key[k].state => EndsStopped(timer.active, timer.commands, k)
    /\ daemon.at = "idle" /\ k \in timer.active => key[k].state \/ Stopping(k)
    /\ Reporting(k) => k \in timer.active /\ (key[k].state \/ Stopping(k))

(* The last event of a key that is held, and the timer's count of it.      *)
HeldSound(k) ==
  /\ key[k].count < LongPressCounts => last[k] = "Press" /\ ~Reporting(k)
  /\ key[k].count = LongPressCounts =>
       IF Reporting(k) /\ daemon.events = <<"Long">> THEN last[k] = "Press"
                                                     ELSE last[k] \in {"Long", "Repeat"}

(* The last event of a key fits what is to be published of it next. *)
KeySound(k) ==
  /\ Publishing(k) /\ pc.events = <<"Press">> =>
       /\ key[k].state /\ last[k] = "Release"
       /\ Reporting(k) => lock = "input" /\ daemon.events = <<"Long">>
       /\ Reporting(k) <=> key[k].count = LongPressCounts
  /\ Publishing(k) /\ pc.events # <<"Press">> =>
       /\ ~key[k].state /\ key[k].count = 0
       /\ pc.events = <<"Short", "Release">> => last[k] = "Press"
       /\ pc.events = <<"Release">> => last[k] \in {"Short", "Long", "Repeat"}
  /\ Stopping(k) => ~key[k].state /\ HeldSound(k)
  /\ ~Publishing(k) /\ key[k].state => HeldSound(k)
  /\ ~Publishing(k) /\ ~Stopping(k) /\ ~key[k].state =>
       last[k] = "Release" /\ key[k].count = 0

EventsSound == \A k \in Keys : KeySound(k)

KeysInv == InputTypeOK /\ TasksSound /\ TimersSound /\ EventsSound

Events == [key : Keys, type : {"Press", "Short", "Long", "Repeat", "Release"}]

(* A Release of key k is still to come, after place i of queue q. *)
ReleaseFollows(q, l, k, i) ==
  \/ l[k] # "Release"
  \/ \E j \in DOMAIN q : j > i /\ q[j] = [key |-> k, type |-> "Release"]

(* Whoever saw a Press, or is going to see one, will see the Release. *)
Balanced(d, q, l) ==
  /\ \A k \in d : ReleaseFollows(q, l, k, 0)
  /\ \A i \in DOMAIN q : q[i].type = "Press" => ReleaseFollows(q, l, q[i].key, i)

ReleaseSound == Balanced(down, queue, last)

(***************************************************************************)
(* Types.                                                                  *)
(***************************************************************************)
EventNames == {"Press", "Short", "Long", "Repeat", "Release"}

Pin == [state : BOOLEAN, debounce : 0 .. DebounceTicks, count : 0 .. LongPressCounts]

LEMMA EventSequences ==
  /\ <<>> \in Seq(EventNames)
  /\ \A e \in EventNames : <<e>> \in Seq(EventNames)
  /\ <<"Short", "Release">> \in Seq(EventNames)
BY DEF EventNames

PlaceNames == {"idle", "read", "keys", "publish", "stopping", "delay", "wait", "commands"}

LEMMA TasksTyped ==
  ASSUME NEW p \in PlaceNames, NEW k \in Keys, NEW e \in Seq(EventNames)
  PROVE  At(p, k, e) \in Tasks
BY DEF At, Tasks, EventNames, PlaceNames

LEMMA PlacesTyped ==
  ASSUME NEW p \in PlaceNames
  PROVE  Place(p) \in Tasks
BY TasksTyped, EventSequences, InputAssumption DEF Place

(* Debouncing keeps a counter within its bounds. *)
LEMMA DebouncedTyped ==
  ASSUME InputTypeOK, NEW k \in Keys, NEW s \in BOOLEAN
  PROVE  Debounced(k, s) \in 0 .. DebounceTicks
<1>1. key[k].debounce \in 0 .. DebounceTicks /\ DebounceTicks \in Nat
  BY InputAssumption DEF InputTypeOK
<1> DEFINE d == key[k].debounce
<1>2. d \in Nat /\ d =< DebounceTicks
  BY <1>1
<1>3. Debounced(k, s) = IF s THEN (IF d < DebounceTicks THEN d + 1 ELSE d)
                             ELSE (IF d > 0 THEN d - 1 ELSE d)
  BY DEF Debounced
<1> HIDE DEF d
<1> QED BY <1>1, <1>2, <1>3

LEMMA InputTypesInit == Init => InputTypeOK
<1> SUFFICES ASSUME Init PROVE InputTypeOK
  OBVIOUS
<1>1. PICK read \in [Keys -> BOOLEAN] :
        /\ chip \in [Keys -> BOOLEAN] /\ errors \in 0 .. MaxReadErrors
        /\ key = [k \in Keys |-> [state |-> read[k], debounce |-> DebounceTicks \div 2, count |-> 0]]
        /\ last = [k \in Keys |-> IF read[k] THEN "Press" ELSE "Release"]
  <2>1. PICK read \in [Keys -> BOOLEAN] :
          /\ \/ read = pin /\ chip = pin /\ errors = 0
             \/ read \in ReadErrors /\ chip \in [Keys -> BOOLEAN] /\ errors = 1 /\ MaxReadErrors > 0
          /\ key = [k \in Keys |-> [state |-> read[k], debounce |-> DebounceTicks \div 2, count |-> 0]]
          /\ last = [k \in Keys |-> IF read[k] THEN "Press" ELSE "Release"]
    BY DEF Init
  <2>2. chip \in [Keys -> BOOLEAN] /\ errors \in 0 .. MaxReadErrors
    BY <2>1, InputAssumption DEF Init
  <2> QED BY <2>1, <2>2
<1>2. DebounceTicks \div 2 \in 0 .. DebounceTicks
  BY InputAssumption
<1>3. key \in [Keys -> Pin]
  BY <1>1, <1>2 DEF Pin, LongPressCounts
<1>4. last \in [Keys -> EventNames]
  BY <1>1 DEF EventNames
<1>5. pc \in Tasks /\ daemon \in Tasks
  <2>1. Place("read") \in Tasks /\ Place("idle") \in Tasks
    BY PlacesTyped DEF PlaceNames
  <2> QED BY <2>1 DEF Init
<1>6. /\ timer.active \subseteq Keys /\ timer.commands = <<>> /\ queue = <<>>
      /\ Len(timer.commands) =< TimerQueue /\ Len(queue) =< QueueSize
  BY InputAssumption DEF Init
<1>7. /\ timer.commands \in Seq([type : {"start", "stop"}, key : Keys])
      /\ queue \in Seq([key : Keys, type : EventNames])
  BY <1>6
<1>8. /\ pin \in [Keys -> BOOLEAN] /\ isr \in BOOLEAN /\ todo \subseteq Keys
      /\ lock \in {"free", "input", "daemon"} /\ menu \in BOOLEAN /\ down \subseteq Keys
  BY DEF Init
<1> QED
  BY <1>1, <1>3, <1>4, <1>5, <1>6, <1>7, <1>8 DEF InputTypeOK, Pin, EventNames

(* What the updates of a key leave of it. *)
LEMMA SetState ==
  ASSUME InputTypeOK, NEW k \in Keys, NEW b \in BOOLEAN, key' = [key EXCEPT ![k].state = b]
  PROVE  /\ key' \in [Keys -> Pin]
         /\ key'[k].state = b /\ key'[k].count = key[k].count
         /\ \A j \in Keys : j # k => key'[j] = key[j]
<1>1. key \in [Keys -> Pin] /\ key[k] \in Pin
  BY DEF InputTypeOK, Pin
<1>2. PICK d \in 0 .. DebounceTicks, n \in 0 .. LongPressCounts :
        key[k].debounce = d /\ key[k].count = n
  BY <1>1 DEF Pin
<1>3. [key[k] EXCEPT !.state = b] = [state |-> b, debounce |-> d, count |-> n]
  BY <1>1, <1>2 DEF Pin
<1>4. [state |-> b, debounce |-> d, count |-> n] \in Pin
  BY DEF Pin
<1>5. key' = [key EXCEPT ![k] = [state |-> b, debounce |-> d, count |-> n]]
  BY <1>3
<1> QED BY <1>1, <1>2, <1>4, <1>5

LEMMA SetCount ==
  ASSUME InputTypeOK, NEW k \in Keys, NEW n \in 0 .. LongPressCounts,
         key' = [key EXCEPT ![k].count = n]
  PROVE  /\ key' \in [Keys -> Pin]
         /\ key'[k].count = n /\ key'[k].state = key[k].state
         /\ \A j \in Keys : j # k => key'[j] = key[j]
<1>1. key \in [Keys -> Pin] /\ key[k] \in Pin
  BY DEF InputTypeOK, Pin
<1>2. PICK b \in BOOLEAN, d \in 0 .. DebounceTicks :
        key[k].state = b /\ key[k].debounce = d
  BY <1>1 DEF Pin
<1>3. [key[k] EXCEPT !.count = n] = [state |-> b, debounce |-> d, count |-> n]
  BY <1>1, <1>2 DEF Pin
<1>4. [state |-> b, debounce |-> d, count |-> n] \in Pin
  BY DEF Pin
<1>5. key' = [key EXCEPT ![k] = [state |-> b, debounce |-> d, count |-> n]]
  BY <1>3
<1> QED BY <1>1, <1>2, <1>4, <1>5

(* A round of debouncing changes no more than the debounce counters. *)
LEMMA ReadEffect ==
  ASSUME InputTypeOK, Read
  PROVE  /\ key' \in [Keys -> Pin]
         /\ \A k \in Keys : key'[k].state = key[k].state /\ key'[k].count = key[k].count
         /\ todo' \subseteq Keys
         /\ chip' \in [Keys -> BOOLEAN] /\ errors' \in 0 .. MaxReadErrors
<1>1. PICK read \in [Keys -> BOOLEAN] :
        /\ ReadButtons(read)
        /\ key' = [k \in Keys |-> [key[k] EXCEPT !.debounce = Debounced(k, read[k])]]
        /\ todo' \subseteq Keys
  <2>1. PICK read \in [Keys -> BOOLEAN] :
          LET debounce == [k \in Keys |-> Debounced(k, read[k])]
              settled  == {k \in Keys : debounce[k] \in {0, DebounceTicks}} IN
          /\ ReadButtons(read)
          /\ key' = [k \in Keys |-> [key[k] EXCEPT !.debounce = debounce[k]]]
          /\ todo' = {k \in settled : key[k].state # read[k]}
    BY DEF Read
  <2> QED BY <2>1
<1>2. chip' \in [Keys -> BOOLEAN] /\ errors' \in 0 .. MaxReadErrors
  BY <1>1, InputAssumption DEF ReadButtons, InputTypeOK
<1>3. ASSUME NEW k \in Keys
      PROVE  /\ [key[k] EXCEPT !.debounce = Debounced(k, read[k])] \in Pin
             /\ [key[k] EXCEPT !.debounce = Debounced(k, read[k])].state = key[k].state
             /\ [key[k] EXCEPT !.debounce = Debounced(k, read[k])].count = key[k].count
  <2>1. key[k] \in Pin /\ Debounced(k, read[k]) \in 0 .. DebounceTicks
    BY DebouncedTyped DEF InputTypeOK, Pin
  <2> QED BY <2>1 DEF Pin
<1> QED BY <1>1, <1>2, <1>3

(* What a task does when it publishes the first of its events. *)
LEMMA PublishEffect ==
  ASSUME InputTypeOK, NEW name, NEW task \in Tasks, Publish(name, task)
  PROVE  /\ queue' \in Seq([key : Keys, type : EventNames]) /\ Len(queue') =< QueueSize
         /\ queue' = Append(queue, [key |-> task.key, type |-> Head(task.events)])
         /\ last' = [last EXCEPT ![task.key] = Head(task.events)]
         /\ last' \in [Keys -> EventNames] /\ lock' = "free"
         /\ lock \in {"free", name}
         /\ task.key \in Keys /\ Head(task.events) \in EventNames
<1>1. task.events # <<>> /\ task.events \in Seq(EventNames) /\ task.key \in Keys
  BY DEF Publish, Tasks, EventNames
<1>2. Head(task.events) \in EventNames
  BY <1>1
<1> DEFINE e == [key |-> task.key, type |-> Head(task.events)]
<1>3. e \in [key : Keys, type : EventNames]
  BY <1>1, <1>2
<1>4. /\ queue \in Seq([key : Keys, type : EventNames]) /\ Len(queue) < QueueSize
      /\ queue' = Append(queue, e) /\ QueueSize \in Nat
      /\ last' = [last EXCEPT ![task.key] = Head(task.events)]
      /\ lock' = "free" /\ lock \in {"free", name}
  BY InputAssumption DEF Publish, Put, InputTypeOK, EventNames
<1>5. last' \in [Keys -> EventNames]
  BY <1>1, <1>2, <1>4 DEF InputTypeOK, EventNames
<1> HIDE DEF e
<1>6. Append(queue, e) \in Seq([key : Keys, type : EventNames]) /\ Len(Append(queue, e)) = Len(queue) + 1
  BY <1>3, <1>4, AppendProperties
<1>7. Len(queue') =< QueueSize
  BY <1>4, <1>6
<1> QED BY <1>1, <1>2, <1>4, <1>5, <1>6, <1>7 DEF e

(* A command that a task puts in the queue of the timer task. *)
LEMMA CommandEffect ==
  ASSUME InputTypeOK, NEW c \in {"start", "stop"}, NEW k \in Keys, Command(c, k)
  PROVE  /\ timer'.active = timer.active /\ timer'.active \subseteq Keys
         /\ timer'.commands = Append(timer.commands, [type |-> c, key |-> k])
         /\ timer'.commands \in Seq([type : {"start", "stop"}, key : Keys])
         /\ Len(timer'.commands) =< TimerQueue
<1> DEFINE e == [type |-> c, key |-> k]
<1>1. PICK cs : cs = timer.commands /\ cs \in Seq([type : {"start", "stop"}, key : Keys])
  BY DEF InputTypeOK
<1>2. e \in [type : {"start", "stop"}, key : Keys]
  OBVIOUS
<1>3. /\ Append(cs, e) \in Seq([type : {"start", "stop"}, key : Keys])
      /\ Len(Append(cs, e)) = Len(cs) + 1
  <2> HIDE DEF e
  <2> QED BY <1>1, <1>2, AppendProperties
<1>4. Len(Append(cs, e)) =< TimerQueue
  BY <1>1, <1>3, InputAssumption DEF Command
<1>5. timer'.active = timer.active /\ timer'.commands = Append(cs, e)
  BY <1>1 DEF Command, InputTypeOK
<1> QED BY <1>1, <1>3, <1>4, <1>5 DEF InputTypeOK

LEMMA InputTypesStep ==
  ASSUME InputTypeOK, [Next]_vars
  PROVE  InputTypeOK'
<1>1. ASSUME (pin \in [Keys -> BOOLEAN])', (isr \in BOOLEAN)', (chip \in [Keys -> BOOLEAN])',
             (errors \in 0 .. MaxReadErrors)', (key \in [Keys -> Pin])', (pc \in Tasks)',
             (todo \subseteq Keys)', UNCHANGED <<timer, daemon, lock, queue, last, menu, down>>
      PROVE  InputTypeOK'
  BY <1>1 DEF InputTypeOK, Pin
<1>2. ASSUME NEW k \in Keys, PinChange(k) PROVE InputTypeOK'
  <2>1. (pin \in [Keys -> BOOLEAN])' /\ (isr \in BOOLEAN)'
    BY <1>2 DEF PinChange, InputTypeOK
  <2> QED BY <1>2, <2>1 DEF PinChange, InputTypeOK, pinVars, inputVars, timerVars, pubVars, viewVars
<1> DEFINE Rest == UNCHANGED <<timer, daemon, lock, queue, last, menu, down>>
<1>3. CASE Read
  <2>1. pc' = Place("keys") /\ UNCHANGED <<pin, isr>> /\ Rest
    BY <1>3 DEF Read, timerVars, pubVars, viewVars
  <2>2. pc' \in Tasks
    BY <2>1, PlacesTyped DEF PlaceNames
  <2>3. pin \in [Keys -> BOOLEAN] /\ isr \in BOOLEAN
    BY DEF InputTypeOK
  <2> QED BY <1>1, <1>3, <2>1, <2>2, <2>3, ReadEffect
<1>4. CASE RoundEnd \/ Wake
  <2>1. isr' \in BOOLEAN
    BY <1>4 DEF RoundEnd, Wake, InputTypeOK, IntLow
  <2>2. PICK p \in PlaceNames : pc' = Place(p)
    BY <1>4 DEF RoundEnd, Wake, PlaceNames
  <2>4. pc' \in Tasks
    BY <2>2, PlacesTyped
  <2>5. UNCHANGED <<pin, chip, errors, key, todo>> /\ Rest
    BY <1>4 DEF RoundEnd, Wake, timerVars, pubVars, viewVars
  <2> QED BY <1>1, <2>1, <2>4, <2>5 DEF InputTypeOK, Pin
<1>5. ASSUME NEW k \in Keys, Pressed(k) \/ Released(k) PROVE InputTypeOK'
  <2>1. PICK b \in BOOLEAN, c \in {"start", "stop"} :
          key' = [key EXCEPT ![k].state = b] /\ Command(c, k)
    BY <1>5 DEF Pressed, Released
  <2>2. pc' \in Tasks
    BY <1>5, TasksTyped, EventSequences DEF Pressed, Released, EventNames, PlaceNames
  <2>3. key' \in [Keys -> Pin]
    BY <2>1, SetState
  <2>4. /\ timer'.active \subseteq Keys
        /\ timer'.commands \in Seq([type : {"start", "stop"}, key : Keys])
        /\ Len(timer'.commands) =< TimerQueue
    BY <2>1, CommandEffect
  <2>5. UNCHANGED <<pin, chip, isr, errors, daemon, lock, queue, last, menu, down>>
        /\ todo' \subseteq todo
    BY <1>5 DEF Pressed, Released, pinVars, pubVars, viewVars
  <2> QED BY <2>2, <2>3, <2>4, <2>5 DEF InputTypeOK, Pin
<1>6. CASE Stopped
  <2>1. pc \in Tasks /\ pc.key \in Keys
    BY DEF InputTypeOK, Tasks
  <2>2. PICK e \in Seq(EventNames) : pc' = At("publish", pc.key, e)
    <3>1. <<"Short", "Release">> \in Seq(EventNames) /\ <<"Release">> \in Seq(EventNames)
      BY EventSequences DEF EventNames
    <3> QED BY <1>6, <3>1 DEF Stopped
  <2>3. pc' \in Tasks
    BY <2>1, <2>2, TasksTyped DEF PlaceNames
  <2>4. key' \in [Keys -> Pin]
    <3>1. key' = [key EXCEPT ![pc.key].count = 0] /\ 0 \in 0 .. LongPressCounts
      BY <1>6 DEF Stopped, LongPressCounts
    <3> QED BY <2>1, <3>1, SetCount
  <2>5. UNCHANGED <<pin, isr, chip, errors, todo>> /\ Rest
    BY <1>6 DEF Stopped, pinVars, timerVars, pubVars, viewVars
  <2> QED BY <1>1, <2>3, <2>4, <2>5 DEF InputTypeOK
<1>7. CASE InputAcquire \/ DaemonAcquire
  <2>1. lock' \in {"input", "daemon"}
        /\ UNCHANGED <<pin, chip, isr, errors, key, pc, todo, timer, daemon, queue, last, menu, down>>
    BY <1>7 DEF InputAcquire, DaemonAcquire, Acquire, pinVars, inputVars, timerVars, viewVars
  <2> QED BY <2>1 DEF InputTypeOK
<1>8. CASE InputPublish
  <2>1. pc \in Tasks /\ pc.key \in Keys /\ pc.events \in Seq(EventNames) /\ Publish("input", pc)
    BY <1>8 DEF InputPublish, InputTypeOK, Tasks, EventNames
  <2>2. pc' \in Tasks
    <3>1. CASE pc' = Place("keys")
      BY <3>1, PlacesTyped DEF PlaceNames
    <3>2. CASE pc' = At("publish", pc.key, Tail(pc.events))
      <4>1. Tail(pc.events) \in Seq(EventNames)
        BY <2>1 DEF Publish
      <4> QED BY <2>1, <3>2, <4>1, TasksTyped DEF PlaceNames
    <3> QED BY <1>8, <3>1, <3>2 DEF InputPublish
  <2>3. /\ queue' \in Seq([key : Keys, type : EventNames]) /\ Len(queue') =< QueueSize
        /\ last' \in [Keys -> EventNames] /\ lock' = "free"
    BY <2>1, PublishEffect
  <2>4. UNCHANGED <<pin, chip, isr, errors, key, todo, timer, daemon, menu, down>>
    BY <1>8 DEF InputPublish, pinVars, timerVars, viewVars
  <2> QED BY <2>2, <2>3, <2>4 DEF InputTypeOK, EventNames
<1>9. NextPlace \in Tasks
  <2>1. PICK p \in PlaceNames : NextPlace = Place(p)
    BY DEF NextPlace, PlaceNames
  <2> QED BY <2>1, PlacesTyped
<1>10. CASE DaemonPublish
  <2>1. /\ queue' \in Seq([key : Keys, type : EventNames]) /\ Len(queue') =< QueueSize
        /\ last' \in [Keys -> EventNames] /\ lock' = "free"
    BY <1>10, PublishEffect DEF DaemonPublish, InputTypeOK
  <2>2. daemon' = NextPlace
        /\ UNCHANGED <<pin, chip, isr, errors, key, pc, todo, timer, menu, down>>
    BY <1>10 DEF DaemonPublish, pinVars, inputVars, viewVars
  <2> QED BY <1>9, <2>1, <2>2 DEF InputTypeOK, EventNames
<1>11. ASSUME NEW k \in Keys, Expire(k) PROVE InputTypeOK'
  <2> DEFINE n == key[k].count + 1
             m == IF n > LongPressCounts THEN LongPressCounts ELSE n
  <2>1. key[k].count \in 0 .. LongPressCounts
    BY DEF InputTypeOK
  <2>2. m \in 0 .. LongPressCounts /\ n \in Nat
    BY <2>1 DEF LongPressCounts
  <2>3. key' = [key EXCEPT ![k].count = m]
        /\ daemon' \in {NextPlace, At("publish", k, <<"Long">>), At("publish", k, <<"Repeat">>)}
        /\ UNCHANGED <<pin, chip, isr, errors, pc, todo, timer, lock, queue, last, menu, down>>
    BY <1>11 DEF Expire, pinVars, pubVars, viewVars
  <2> HIDE DEF n, m
  <2>4. key' \in [Keys -> Pin]
    BY <2>2, <2>3, SetCount
  <2>5. <<"Long">> \in Seq(EventNames) /\ <<"Repeat">> \in Seq(EventNames)
    BY EventSequences DEF EventNames
  <2>6. daemon' \in Tasks
    BY <1>9, <2>3, <2>5, TasksTyped DEF PlaceNames
  <2>7. UNCHANGED <<pin, chip, isr, errors, pc, todo, timer, lock, queue, last, menu, down>>
    BY <2>3
  <2> QED BY <2>4, <2>6, <2>7 DEF InputTypeOK, Pin
<1>12. CASE DaemonCommand
  <2>1. PICK cs : cs = timer.commands /\ cs \in Seq([type : {"start", "stop"}, key : Keys])
    BY DEF InputTypeOK
  <2>0. cs # <<>>
    BY <1>12, <2>1 DEF DaemonCommand
  <2>2. /\ Head(cs) \in [type : {"start", "stop"}, key : Keys]
        /\ Tail(cs) \in Seq([type : {"start", "stop"}, key : Keys])
        /\ Len(Tail(cs)) = Len(cs) - 1
    BY <2>0, <2>1, HeadTailProperties
  <2>3. timer'.commands = Tail(cs) /\ timer'.active \subseteq Keys
    BY <1>12, <2>1, <2>2 DEF DaemonCommand, InputTypeOK
  <2>4. Len(timer'.commands) =< TimerQueue
    BY <2>1, <2>2, <2>3, InputAssumption DEF InputTypeOK
  <2>5. PICK p \in PlaceNames : daemon' = Place(p)
    BY <1>12 DEF DaemonCommand, PlaceNames
  <2>6. daemon' \in Tasks
    BY <2>5, PlacesTyped
  <2>7. UNCHANGED <<pin, chip, isr, errors, key, pc, todo, lock, queue, last, menu, down>>
    BY <1>12 DEF DaemonCommand, pinVars, inputVars, pubVars, viewVars
  <2> QED BY <2>2, <2>3, <2>4, <2>6, <2>7 DEF InputTypeOK
<1>13. CASE GuiInput
  <2>1. PICK q : q = queue /\ q \in Seq([key : Keys, type : EventNames]) /\ Len(q) =< QueueSize
    BY DEF InputTypeOK, EventNames
  <2>0. q # <<>>
    BY <1>13, <2>1 DEF GuiInput
  <2>2. /\ Head(q) \in [key : Keys, type : EventNames]
        /\ Tail(q) \in Seq([key : Keys, type : EventNames])
        /\ Len(Tail(q)) = Len(q) - 1
    BY <2>0, <2>1, HeadTailProperties
  <2>3. queue' = Tail(q) /\ Len(queue') =< QueueSize
    BY <1>13, <2>1, <2>2, InputAssumption DEF GuiInput
  <2>4. menu' \in BOOLEAN
    <3>1. \A e : MenuShown(e) \subseteq BOOLEAN
      BY DEF MenuShown
    <3> QED BY <1>13, <3>1 DEF GuiInput
  <2>5. down' \subseteq Keys
    BY <1>13, <2>1, <2>2 DEF GuiInput, Seen, InputTypeOK
  <2>6. UNCHANGED <<pin, chip, isr, errors, key, pc, todo, timer, daemon, lock, last>>
    BY <1>13 DEF GuiInput, pinVars, inputVars, timerVars
  <2> QED BY <2>2, <2>3, <2>4, <2>5, <2>6 DEF InputTypeOK, EventNames
<1>14. CASE UNCHANGED vars
  BY <1>14 DEF vars, pinVars, inputVars, timerVars, pubVars, viewVars, InputTypeOK
<1> QED BY <1>2, <1>3, <1>4, <1>5, <1>6, <1>7, <1>8, <1>10, <1>11, <1>12, <1>13, <1>14
        DEF Next, InputNext, DaemonNext

(***************************************************************************)
(* No stuck keys.                                                          *)
(***************************************************************************)
(* An event that is published is the last of its key, and the last in the  *)
(* queue: if it is not a Release itself, none is owed before the next one. *)
LEMMA BalancedPut ==
  ASSUME NEW d \in SUBSET Keys, NEW q \in Seq(Events), NEW l \in [Keys -> EventNames],
         NEW k \in Keys, NEW t \in EventNames, Balanced(d, q, l)
  PROVE  Balanced(d, Append(q, [key |-> k, type |-> t]), [l EXCEPT ![k] = t])
<1> DEFINE e == [key |-> k, type |-> t]
           p == Append(q, e)
           m == [l EXCEPT ![k] = t]
<1>1. e \in Events
  BY DEF Events, EventNames
<1>2. /\ DOMAIN p = 1 .. Len(q) + 1 /\ DOMAIN q = 1 .. Len(q) /\ Len(q) \in Nat
      /\ \A i \in 1 .. Len(q) : p[i] = q[i] /\ q[i].key \in Keys
      /\ p[Len(q) + 1] = e
  <2>1. \A i \in 1 .. Len(q) : q[i].key \in Keys
    <3>1. \A i \in 1 .. Len(q) : q[i] \in Events
      BY ElementOfSeq
    <3> QED BY <3>1 DEF Events
  <2> HIDE DEF e
  <2> QED BY <1>1, <2>1, AppendProperties, LenProperties
<1>3. e.key = k /\ e.type = t
  OBVIOUS
<1>4. \A j \in Keys : m[j] = IF j = k THEN t ELSE l[j]
  OBVIOUS
<1> HIDE DEF p, m
<1>5. ASSUME NEW j \in Keys, NEW i \in 0 .. Len(q), ReleaseFollows(q, l, j, i)
      PROVE  ReleaseFollows(p, m, j, i)
  <2>1. CASE j = k /\ t = "Release"
    <3>1. p[Len(q) + 1] = [key |-> j, type |-> "Release"]
      BY <1>2, <2>1
    <3>2. Len(q) + 1 \in DOMAIN p /\ Len(q) + 1 > i
      BY <1>2
    <3> QED BY <3>1, <3>2 DEF ReleaseFollows
  <2>2. CASE j = k /\ t # "Release"
    BY <2>2, <1>4 DEF ReleaseFollows
  <2>3. CASE j # k
    BY <2>3, <1>2, <1>4, <1>5 DEF ReleaseFollows
  <2> QED BY <2>1, <2>2, <2>3
<1>6. ASSUME NEW j \in d PROVE ReleaseFollows(p, m, j, 0)
  <2>1. j \in Keys /\ 0 \in 0 .. Len(q) /\ ReleaseFollows(q, l, j, 0)
    BY <1>2 DEF Balanced
  <2> QED BY <2>1, <1>5
<1>7. ASSUME NEW i \in DOMAIN p, p[i].type = "Press"
      PROVE  ReleaseFollows(p, m, p[i].key, i)
  <2>1. CASE i \in 1 .. Len(q)
    BY <2>1, <1>2, <1>5, <1>7 DEF Balanced
  <2>2. CASE i = Len(q) + 1
    BY <2>2, <1>2, <1>3, <1>4, <1>7 DEF ReleaseFollows
  <2> QED BY <1>2, <2>1, <2>2
<1>8. Balanced(d, p, m)
  BY <1>6, <1>7 DEF Balanced
<1> QED BY <1>8 DEF p, m

(* The oldest event is taken: whoever sees the Press counts from now on,   *)
(* whoever sees the Release does not.                                      *)
LEMMA BalancedTake ==
  ASSUME NEW d \in SUBSET Keys, NEW q \in Seq(Events), q # <<>>, NEW l, Balanced(d, q, l),
         NEW c \in SUBSET Keys,
         \A k \in c : /\ k \in d \/ (Head(q).type = "Press" /\ Head(q).key = k)
                      /\ Head(q) # [key |-> k, type |-> "Release"]
  PROVE  Balanced(c, Tail(q), l)
<1> DEFINE p == Tail(q)
<1>1. /\ DOMAIN p = 1 .. Len(q) - 1 /\ DOMAIN q = 1 .. Len(q) /\ Len(q) \in Nat \ {0}
      /\ \A i \in 1 .. Len(q) - 1 : p[i] = q[i + 1]
      /\ Head(q) = q[1]
  <2>1. p \in Seq(Events) /\ Len(p) = Len(q) - 1 /\ \A i \in 1 .. Len(p) : p[i] = q[i + 1]
    BY HeadTailProperties
  <2>2. Len(q) \in Nat \ {0}
    BY EmptySeq
  <2> HIDE DEF p
  <2>3. DOMAIN p = 1 .. Len(p) /\ DOMAIN q = 1 .. Len(q)
    BY <2>1, LenProperties
  <2> QED BY <2>1, <2>2, <2>3
<1> HIDE DEF p
<1>2. ASSUME NEW k, NEW i \in Nat, ReleaseFollows(q, l, k, i + 1)
      PROVE  ReleaseFollows(p, l, k, i)
  <2>1. CASE l[k] # "Release"
    BY <2>1 DEF ReleaseFollows
  <2>2. CASE l[k] = "Release"
    <3>1. PICK j \in 1 .. Len(q) : j > i + 1 /\ q[j] = [key |-> k, type |-> "Release"]
      BY <2>2, <1>1, <1>2 DEF ReleaseFollows
    <3>2. j - 1 \in 1 .. Len(q) - 1 /\ p[j - 1] = q[j] /\ j - 1 > i
      BY <3>1, <1>1
    <3> QED BY <3>1, <3>2, <1>1 DEF ReleaseFollows
  <2> QED BY <2>1, <2>2
<1>3. ASSUME NEW k, ReleaseFollows(q, l, k, 0), q[1] # [key |-> k, type |-> "Release"]
      PROVE  ReleaseFollows(q, l, k, 1)
  BY <1>1, <1>3 DEF ReleaseFollows
<1>4. ASSUME NEW k \in c PROVE ReleaseFollows(p, l, k, 0)
  <2>1. ReleaseFollows(q, l, k, 1)
    <3>1. CASE k \in d
      <4>1. ReleaseFollows(q, l, k, 0)
        BY <3>1 DEF Balanced
      <4> QED BY <4>1, <1>1, <1>3
    <3>2. CASE Head(q).type = "Press" /\ Head(q).key = k
      <4>1. 1 \in DOMAIN q /\ q[1].type = "Press" /\ q[1].key = k
        BY <3>2, <1>1
      <4> QED BY <4>1 DEF Balanced
    <3> QED BY <3>1, <3>2
  <2> QED BY <2>1, <1>2
<1>5. ASSUME NEW i \in DOMAIN p, p[i].type = "Press"
      PROVE  ReleaseFollows(p, l, p[i].key, i)
  <2>1. i + 1 \in DOMAIN q /\ p[i] = q[i + 1] /\ i \in Nat
    BY <1>1
  <2>2. ReleaseFollows(q, l, p[i].key, i + 1)
    BY <2>1, <1>5 DEF Balanced
  <2> QED BY <2>1, <2>2, <1>2
<1>6. Balanced(c, p, l)
  BY <1>4, <1>5 DEF Balanced
<1> QED BY <1>6 DEF p

LEMMA ReleasePublish ==
  ASSUME InputTypeOK, ReleaseSound, NEW name, NEW task \in Tasks, Publish(name, task),
         UNCHANGED down
  PROVE  ReleaseSound'
<1>1. /\ task.key \in Keys /\ Head(task.events) \in EventNames
      /\ queue' = Append(queue, [key |-> task.key, type |-> Head(task.events)])
      /\ last' = [last EXCEPT ![task.key] = Head(task.events)]
  BY PublishEffect
<1>2. down \in SUBSET Keys /\ queue \in Seq(Events) /\ last \in [Keys -> EventNames]
  BY DEF InputTypeOK, Events, EventNames
<1> QED BY <1>1, <1>2, BalancedPut DEF ReleaseSound

(* The power menu never keeps a Release for itself, whether it is visible  *)
(* or not.                                                                 *)
LEMMA ReleaseGui ==
  ASSUME InputTypeOK, ReleaseSound, GuiInput
  PROVE  ReleaseSound'
<1> DEFINE e == Head(queue)
<1>1. down \in SUBSET Keys /\ queue \in Seq(Events) /\ queue # <<>>
  BY DEF InputTypeOK, Events, GuiInput
<1>2. /\ queue' = Tail(queue) /\ last' = last
      /\ down' = IF MenuConsumes(e) THEN down ELSE Seen(e)
  BY DEF GuiInput
<1>3. e \in Events
  BY <1>1, HeadTailProperties
<1>4. e.key \in Keys
  BY <1>3 DEF Events
<1> HIDE DEF e
<1>5. e.type = "Release" => ~MenuConsumes(e)
  BY DEF MenuConsumes
<1>6. ASSUME NEW k \in down'
      PROVE  /\ k \in down \/ (e.type = "Press" /\ e.key = k)
             /\ e # [key |-> k, type |-> "Release"]
  <2>1. k \in down \/ (e.type = "Press" /\ e.key = k)
    BY <1>2, <1>6 DEF Seen
  <2>2. ~(e.type = "Release" /\ e.key = k)
    BY <1>2, <1>5, <1>6 DEF Seen
  <2> QED BY <2>1, <2>2
<1>7. down' \in SUBSET Keys
  BY <1>1, <1>4, <1>6
<1> QED BY <1>1, <1>2, <1>6, <1>7, BalancedTake DEF ReleaseSound, e

LEMMA ReleaseStep ==
  ASSUME InputTypeOK, ReleaseSound, [Next]_vars
  PROVE  ReleaseSound'
<1>1. ASSUME UNCHANGED <<queue, last, down>> PROVE ReleaseSound'
  BY <1>1 DEF ReleaseSound
<1>2. CASE InputPublish
  BY <1>2, ReleasePublish DEF InputPublish, InputTypeOK, viewVars
<1>3. CASE DaemonPublish
  BY <1>3, ReleasePublish DEF DaemonPublish, InputTypeOK, viewVars
<1>4. CASE Read \/ RoundEnd \/ Wake \/ Stopped
  BY <1>1, <1>4 DEF Read, RoundEnd, Wake, Stopped, pubVars, viewVars
<1>5. CASE InputAcquire \/ DaemonAcquire \/ DaemonCommand
  BY <1>1, <1>5 DEF InputAcquire, DaemonAcquire, DaemonCommand, Acquire, pubVars, viewVars
<1>6. ASSUME NEW k \in Keys, Pressed(k) \/ Released(k) \/ Expire(k) \/ PinChange(k)
      PROVE  ReleaseSound'
  BY <1>1, <1>6 DEF Pressed, Released, Expire, PinChange, pubVars, viewVars
<1>7. CASE UNCHANGED vars
  BY <1>1, <1>7 DEF vars, pubVars, viewVars
<1> QED BY <1>2, <1>3, <1>4, <1>5, <1>6, <1>7, ReleaseGui DEF Next, InputNext, DaemonNext

(* The types hold, the queues and counters keep their bounds, and whoever  *)
(* has seen a key pressed sees it released, whatever the power menu does   *)
(* in between (input_srv, gui_input, power_menu_input).                    *)
THEOREM InputIsSound == Spec => []InputSound
<1>1. Init => InputTypeOK /\ ReleaseSound
  <2>1. Init => ReleaseSound
    BY DEF Init, ReleaseSound, Balanced
  <2> QED BY <2>1, InputTypesInit
<1>2. InputTypeOK /\ ReleaseSound /\ [Next]_vars => InputTypeOK' /\ ReleaseSound'
  BY InputTypesStep, ReleaseStep
<1>3. InputTypeOK /\ ReleaseSound => InputSound
  <2> SUFFICES ASSUME InputTypeOK, ReleaseSound PROVE NoStuckKeys
    BY DEF InputSound
  <2>1. \A i \in DOMAIN queue : i > 0 <=> TRUE
    BY LenProperties DEF InputTypeOK
  <2> QED BY <2>1 DEF ReleaseSound, Balanced, ReleaseFollows, NoStuckKeys
<1> QED BY <1>1, <1>2, <1>3, PTL DEF Spec

(***************************************************************************)
(* Events come in the order of KeyProtocol.                                *)
(***************************************************************************)
LEMMA EndsStoppedAppend ==
  ASSUME NEW active, NEW cs \in Seq(Commands), NEW k \in Keys, NEW c \in Commands,
         c = [type |-> "stop", key |-> k] \/ (c.key # k /\ EndsStopped(active, cs, k))
  PROVE  EndsStopped(active, Append(cs, c), k)
<1> DEFINE ds == Append(cs, c)
<1>1. /\ DOMAIN ds = 1 .. Len(cs) + 1 /\ DOMAIN cs = 1 .. Len(cs) /\ Len(cs) \in Nat
      /\ \A i \in 1 .. Len(cs) : ds[i] = cs[i]
      /\ ds[Len(cs) + 1] = c
  BY AppendProperties, LenProperties
<1> HIDE DEF ds
<1>2. CASE c = [type |-> "stop", key |-> k]
  BY <1>1, <1>2 DEF EndsStopped
<1>3. CASE c.key # k /\ EndsStopped(active, cs, k)
  <2>1. CASE k \notin active /\ \A i \in DOMAIN cs : cs[i].key # k
    BY <1>1, <1>3, <2>1 DEF EndsStopped
  <2>2. ASSUME NEW i \in DOMAIN cs, cs[i] = [type |-> "stop", key |-> k],
               \A j \in DOMAIN cs : j > i => cs[j].key # k
        PROVE  EndsStopped(active, ds, k)
    BY <1>1, <1>3, <2>2 DEF EndsStopped
  <2> QED BY <1>3, <2>1, <2>2 DEF EndsStopped
<1> QED BY <1>2, <1>3

LEMMA EndsStoppedTail ==
  ASSUME NEW active, NEW cs \in Seq(Commands), NEW k \in Keys, cs # <<>>,
         EndsStopped(active, cs, k)
  PROVE  EndsStopped(IF Head(cs).type = "start" THEN active \union {Head(cs).key}
                                                ELSE active \ {Head(cs).key}, Tail(cs), k)
<1> DEFINE ds == Tail(cs)
           after == IF Head(cs).type = "start" THEN active \union {Head(cs).key}
                                               ELSE active \ {Head(cs).key}
<1>1. /\ DOMAIN ds = 1 .. Len(cs) - 1 /\ DOMAIN cs = 1 .. Len(cs) /\ Len(cs) \in Nat \ {0}
      /\ \A i \in 1 .. Len(cs) - 1 : ds[i] = cs[i + 1]
      /\ Head(cs) = cs[1]
  <2>1. /\ ds \in Seq(Commands) /\ Len(ds) = Len(cs) - 1
        /\ \A i \in 1 .. Len(ds) : ds[i] = cs[i + 1]
    BY HeadTailProperties
  <2>2. Len(cs) \in Nat \ {0}
    BY EmptySeq
  <2> HIDE DEF ds
  <2> QED BY <2>1, <2>2, LenProperties
<1> HIDE DEF ds
<1>2. CASE k \notin active /\ \A i \in DOMAIN cs : cs[i].key # k
  <2>1. k \notin after
    BY <1>1, <1>2
  <2>2. \A i \in DOMAIN ds : ds[i].key # k
    BY <1>1, <1>2
  <2> QED BY <2>1, <2>2 DEF EndsStopped, ds
<1>3. ASSUME NEW i \in DOMAIN cs, cs[i] = [type |-> "stop", key |-> k],
             \A j \in DOMAIN cs : j > i => cs[j].key # k
      PROVE  EndsStopped(after, ds, k)
  <2>1. CASE i = 1
    <3>1. k \notin after
      BY <1>1, <1>3, <2>1
    <3>2. \A j \in DOMAIN ds : ds[j].key # k
      BY <1>1, <1>3, <2>1
    <3> QED BY <3>1, <3>2 DEF EndsStopped
  <2>2. CASE i # 1
    <3>1. i - 1 \in DOMAIN ds /\ ds[i - 1] = [type |-> "stop", key |-> k]
      BY <1>1, <1>3, <2>2
    <3>2. ASSUME NEW j \in DOMAIN ds, j > i - 1 PROVE ds[j].key # k
      <4>1. j + 1 \in DOMAIN cs /\ j + 1 > i /\ ds[j] = cs[j + 1]
        BY <1>1, <3>2
      <4> QED BY <4>1, <1>3
    <3> QED BY <3>1, <3>2 DEF EndsStopped
  <2> QED BY <2>1, <2>2
<1> QED BY <1>2, <1>3 DEF EndsStopped, ds

(* The lists of events that the input thread publishes. *)
LEMMA EventLists ==
  ASSUME NEW s \in {<<"Press">>, <<"Short", "Release">>, <<"Release">>}
  PROVE  /\ s # <<>>
         /\ Len(s) > 1 => s = <<"Short", "Release">> /\ Tail(s) = <<"Release">>
         /\ ~(Len(s) > 1) => s # <<"Short", "Release">>
         /\ s = <<"Press">> => Head(s) = "Press"
         /\ s = <<"Release">> => Head(s) = "Release"
         /\ s = <<"Short", "Release">> => Head(s) = "Short"
<1>1. CASE s = <<"Press">>
  BY <1>1
<1>2. CASE s = <<"Release">>
  BY <1>2
<1>3. CASE s = <<"Short", "Release">>
  BY <1>3
<1> QED BY <1>1, <1>2, <1>3

LEMMA TasksStep ==
  ASSUME InputTypeOK, TasksSound, [Next]_vars
  PROVE  TasksSound'
<1> USE DEF TasksSound
<1>1. CASE UNCHANGED <<pc, daemon, lock>>
  BY <1>1
<1>2. ASSUME NEW k \in Keys, PinChange(k) PROVE TasksSound'
  BY <1>1, <1>2 DEF PinChange, inputVars, timerVars, pubVars
<1>3. ASSUME pc.at # "publish", pc'.at # "publish", UNCHANGED <<daemon, lock>>
      PROVE  TasksSound'
  BY <1>3
<1>4. CASE Read \/ RoundEnd \/ Wake
  BY <1>3, <1>4 DEF Read, RoundEnd, Wake, Place, At, timerVars, pubVars
<1>5. ASSUME NEW k \in Keys, Released(k) PROVE TasksSound'
  BY <1>3, <1>5 DEF Released, At, pubVars
<1>6. ASSUME NEW k \in Keys, Pressed(k) PROVE TasksSound'
  BY <1>6 DEF Pressed, At, pubVars
<1>7. CASE Stopped
  BY <1>7 DEF Stopped, At, timerVars, pubVars
<1>8. CASE InputAcquire
  BY <1>8 DEF InputAcquire, Acquire, inputVars, timerVars
<1>9. CASE InputPublish
  <2>1. lock' = "free" /\ daemon' = daemon
    BY <1>9 DEF InputPublish, Publish, Put, timerVars
  <2>2. pc'.at = "publish" => pc.events = <<"Short", "Release">> /\ pc'.events = <<"Release">>
    <3>0. pc.events \in {<<"Press">>, <<"Short", "Release">>, <<"Release">>}
      BY <1>9 DEF InputPublish
    <3>1. CASE Len(pc.events) > 1
      <4>1. pc.events = <<"Short", "Release">> /\ Tail(pc.events) = <<"Release">>
        BY <3>0, <3>1, EventLists
      <4> QED BY <1>9, <3>1, <4>1 DEF InputPublish, At
    <3>2. CASE ~(Len(pc.events) > 1)
      BY <1>9, <3>2 DEF InputPublish, Place, At
    <3> QED BY <3>1, <3>2
  <2> QED BY <2>1, <2>2
<1>10. CASE DaemonAcquire
  <2>1. daemon.at = "publish" /\ lock' = "daemon" /\ UNCHANGED <<pc, daemon>> /\ lock = "free"
    BY <1>10 DEF DaemonAcquire, Acquire, inputVars, timerVars
  <2> QED BY <2>1
<1>11. NextPlace.at \in {"idle", "commands"} /\ NextPlace.events = <<>>
  BY DEF NextPlace, Place, At
<1>12. CASE DaemonPublish
  BY <1>11, <1>12 DEF DaemonPublish, Publish, Put, inputVars
<1>13. ASSUME NEW k \in Keys, Expire(k) PROVE TasksSound'
  <2>1. daemon' = NextPlace \/ daemon' \in {At("publish", k, <<"Long">>), At("publish", k, <<"Repeat">>)}
    BY <1>13 DEF Expire
  <2>2. UNCHANGED <<pc, lock>> /\ lock # "daemon"
    BY <1>13 DEF Expire, pubVars
  <2> QED BY <1>11, <2>1, <2>2 DEF At
<1>14. CASE DaemonCommand
  <2>1. /\ daemon'.at \in {"idle", "commands"} /\ daemon'.events = <<>>
        /\ UNCHANGED <<pc, lock>> /\ lock # "daemon"
    BY <1>14 DEF DaemonCommand, Place, At, inputVars, pubVars
  <2> QED BY <2>1
<1>15. CASE GuiInput
  BY <1>1, <1>15 DEF GuiInput, inputVars, timerVars
<1>16. CASE UNCHANGED vars
  BY <1>1, <1>16 DEF vars, inputVars, timerVars, pubVars
<1> QED BY <1>2, <1>4, <1>5, <1>6, <1>7, <1>8, <1>9, <1>10, <1>12, <1>13, <1>14, <1>15, <1>16
        DEF Next, InputNext, DaemonNext

LEMMA Drained ==
  ASSUME NEW active, NEW k, EndsStopped(active, <<>>, k)
  PROVE  k \notin active
BY DEF EndsStopped

LEMMA TimersStep ==
  ASSUME InputTypeOK, TasksSound, TimersSound, [Next]_vars
  PROVE  TimersSound'
<1>0. /\ timer.commands \in Seq(Commands) /\ timer.active \subseteq Keys
      /\ \A k \in Keys : key[k].state \in BOOLEAN
  BY DEF InputTypeOK, Commands
<1>1. ASSUME UNCHANGED <<timer, daemon>>, \A k \in Keys : key'[k].state = key[k].state,
             \A k \in Keys : Stopping(k) => Stopping(k)' \/ k \notin timer.active
      PROVE  TimersSound'
  BY <1>1 DEF TimersSound, Reporting
<1>2. ASSUME UNCHANGED <<timer, daemon, key, pc>> PROVE TimersSound'
  BY <1>1, <1>2 DEF Stopping
<1>3. ASSUME NEW k \in Keys, PinChange(k) PROVE TimersSound'
  BY <1>2, <1>3 DEF PinChange, inputVars, timerVars
<1>4. CASE Read
  BY <1>1, <1>4, ReadEffect DEF Read, Stopping, timerVars
<1>5. CASE RoundEnd \/ Wake
  BY <1>1, <1>5 DEF RoundEnd, Wake, Stopping, timerVars
<1>6. CASE InputPublish
  BY <1>1, <1>6 DEF InputPublish, Stopping, timerVars
<1>7. CASE InputAcquire \/ DaemonAcquire \/ GuiInput
  BY <1>2, <1>7 DEF InputAcquire, DaemonAcquire, GuiInput, inputVars, timerVars
<1>8. CASE Stopped
  <2>1. pc.key \in Keys /\ key' = [key EXCEPT ![pc.key].count = 0]
    BY <1>8 DEF Stopped, InputTypeOK, Tasks
  <2>2. \A k \in Keys : key'[k].state = key[k].state
    BY <2>1, SetCount DEF LongPressCounts
  <2> QED BY <1>1, <1>8, <2>2 DEF Stopped, Stopping, timerVars
<1>9. ASSUME NEW k \in Keys, Pressed(k) \/ Released(k) PROVE TimersSound'
  <2>1. /\ pc.at = "keys" /\ daemon' = daemon
        /\ Pressed(k) => pc'.at = "publish"
        /\ Released(k) => pc'.at = "stopping" /\ pc'.key = k
    BY <1>9 DEF Pressed, Released, At
  <2>2. PICK b \in BOOLEAN, c \in {"start", "stop"} :
          /\ key' = [key EXCEPT ![k].state = b] /\ Command(c, k)
          /\ \/ b /\ Pressed(k)
             \/ ~b /\ c = "stop" /\ Released(k)
    <3>1. Pressed(k) => key' = [key EXCEPT ![k].state = TRUE] /\ Command("start", k)
      BY DEF Pressed
    <3>2. Released(k) => key' = [key EXCEPT ![k].state = FALSE] /\ Command("stop", k)
      BY DEF Released
    <3> QED BY <1>9, <3>1, <3>2, Zenon
  <2>3. /\ key'[k].state = b
        /\ \A j \in Keys : j # k => key'[j] = key[j]
    BY <2>2, SetState
  <2>4. /\ timer'.active = timer.active
        /\ timer'.commands = Append(timer.commands, [type |-> c, key |-> k])
    BY <2>2, CommandEffect
  <2>5. ASSUME NEW j \in Keys, ~key'[j].state
        PROVE  EndsStopped(timer'.active, timer'.commands, j)
    <3>1. j # k => EndsStopped(timer.active, timer.commands, j)
      BY <2>3, <2>5 DEF TimersSound
    <3>2. j = k => c = "stop"
      BY <2>2, <2>3, <2>5
    <3>3. /\ [type |-> c, key |-> k] \in Commands
          /\ [type |-> c, key |-> k].key = k
          /\ c = "stop" /\ j = k => [type |-> c, key |-> k] = [type |-> "stop", key |-> j]
      BY DEF Commands
    <3> QED BY <1>0, <2>4, <3>1, <3>2, <3>3, EndsStoppedAppend
  <2>6. ASSUME NEW j \in Keys, j \in timer.active, key[j].state
        PROVE  key'[j].state \/ Stopping(j)'
    BY <2>1, <2>2, <2>3, <2>6 DEF Stopping
  <2>7. \A j \in Keys : ~Stopping(j)
    BY <2>1 DEF Stopping
  <2> QED BY <2>1, <2>4, <2>5, <2>6, <2>7 DEF TimersSound, Reporting
<1>10. ASSUME NEW k \in Keys, Expire(k) PROVE TimersSound'
  <2>1. /\ daemon.at = "idle" /\ k \in timer.active /\ UNCHANGED <<timer, pc>>
        /\ daemon' = NextPlace \/ daemon' \in {At("publish", k, <<"Long">>), At("publish", k, <<"Repeat">>)}
    BY <1>10 DEF Expire
  <2>2. \A j \in Keys : key'[j].state = key[j].state
    <3> DEFINE n == key[k].count + 1
               m == IF n > LongPressCounts THEN LongPressCounts ELSE n
    <3>1. m \in 0 .. LongPressCounts
      <4>1. key[k].count \in 0 .. LongPressCounts
        BY DEF InputTypeOK
      <4> QED BY <4>1 DEF LongPressCounts
    <3>2. key' = [key EXCEPT ![k].count = m]
      BY <1>10 DEF Expire
    <3> HIDE DEF n, m
    <3> QED BY <3>1, <3>2, SetCount
  <2>3. \A j \in Keys : Reporting(j)' => j = k
    BY <2>1 DEF Reporting, NextPlace, Place, At
  <2> QED BY <2>1, <2>2, <2>3 DEF TimersSound, Stopping
<1>11. CASE DaemonPublish
  <2>1. daemon' = NextPlace /\ UNCHANGED <<key, pc, timer>>
    BY <1>11 DEF DaemonPublish, inputVars
  <2>2. daemon'.at # "publish" /\ (daemon'.at = "idle" => timer.commands = <<>>)
    BY <2>1 DEF NextPlace, Place, At
  <2>3. ASSUME NEW k \in Keys, daemon'.at = "idle", k \in timer.active PROVE key[k].state
    BY <2>2, <2>3, Drained DEF TimersSound
  <2> QED BY <2>1, <2>2, <2>3 DEF TimersSound, Reporting
<1>12. CASE DaemonCommand
  <2> DEFINE cs == timer.commands
             c == Head(cs)
             after == IF c.type = "start" THEN timer.active \union {c.key}
                                          ELSE timer.active \ {c.key}
  <2>1. /\ cs # <<>> /\ UNCHANGED <<key, pc>>
        /\ timer' = [active |-> after, commands |-> Tail(cs)]
        /\ daemon' = Place(IF Len(cs) = 1 THEN "idle" ELSE "commands")
    BY <1>12 DEF DaemonCommand, inputVars
  <2>2. timer'.active = after /\ timer'.commands = Tail(cs)
    <3> HIDE DEF after, cs
    <3> QED BY <2>1
  <2>3. daemon'.at # "publish" /\ (daemon'.at = "idle" => Len(cs) = 1)
    BY <2>1 DEF Place, At
  <2>4. ASSUME NEW k \in Keys, ~key[k].state PROVE EndsStopped(after, Tail(cs), k)
    BY <1>0, <2>1, <2>4, EndsStoppedTail DEF TimersSound
  <2>5. ASSUME NEW k \in Keys, daemon'.at = "idle", k \in after PROVE key[k].state
    <3>1. Tail(cs) = <<>>
      <4>1. Tail(cs) \in Seq(Commands) /\ Len(Tail(cs)) = 0
        BY <1>0, <2>1, <2>3, <2>5, HeadTailProperties
      <4> QED BY <4>1, EmptySeq
    <3> QED BY <2>4, <2>5, <3>1, Drained
  <2> HIDE DEF after, cs
  <2> QED BY <2>1, <2>2, <2>3, <2>4, <2>5 DEF TimersSound, Reporting
<1>13. CASE UNCHANGED vars
  BY <1>2, <1>13 DEF vars, inputVars, timerVars
<1> QED BY <1>3, <1>4, <1>5, <1>6, <1>7, <1>8, <1>9, <1>10, <1>11, <1>12, <1>13
        DEF Next, InputNext, DaemonNext

(* A step that leaves key k alone, and what the tasks do about it. *)
LEMMA KeyFrame ==
  ASSUME NEW k \in Keys, KeySound(k),
         key'[k].state = key[k].state, key'[k].count = key[k].count, last'[k] = last[k],
         Publishing(k)' <=> Publishing(k), Publishing(k) => pc'.events = pc.events,
         Stopping(k)' <=> Stopping(k),
         Reporting(k)' <=> Reporting(k), Reporting(k) => daemon'.events = daemon.events,
         Publishing(k) /\ Reporting(k) /\ lock = "input" => lock' = "input"
  PROVE  KeySound(k)'
<1>1. HeldSound(k)' <=> HeldSound(k)
  BY DEF HeldSound
<1> QED BY <1>1 DEF KeySound

LEMMA KeyEvent ==
  ASSUME NEW k \in Keys, NEW e \in Protocol!After[last[k]], last' = [last EXCEPT ![k] = e]
  PROVE  [Protocol!Next]_last
BY DEF Protocol!Next, Protocol!Event

(* The events that the input thread publishes. *)
LEMMA InputEvents ==
  ASSUME KeysInv, InputPublish
  PROVE  EventsSound' /\ [Protocol!Next]_last
<1>0. PICK k \in Keys : k = pc.key
  BY DEF KeysInv, InputTypeOK, Tasks
<1>1. /\ pc \in Tasks /\ k = pc.key /\ pc.at = "publish" /\ Publish("input", pc)
      /\ pc.events \in {<<"Press">>, <<"Short", "Release">>, <<"Release">>}
      /\ UNCHANGED <<key, daemon>>
  BY <1>0 DEF InputPublish, KeysInv, InputTypeOK, TasksSound, timerVars
<1>2. /\ last' = [last EXCEPT ![k] = Head(pc.events)] /\ lock' = "free"
  BY <1>1, PublishEffect DEF KeysInv
<1>3. last \in [Keys -> EventNames] /\ \A j \in Keys : key[j].count \in 0 .. LongPressCounts
  BY DEF KeysInv, InputTypeOK, EventNames
<1>4. Publishing(k) /\ KeySound(k) /\ ~Stopping(k)
  BY <1>1 DEF Publishing, Stopping, KeysInv, EventsSound
<1>5. \/ pc'.at = "publish" /\ pc'.key = k
      \/ pc'.at = "keys"
  BY <1>0 DEF InputPublish, Place, At
<1>6. ASSUME NEW j \in Keys, j # k PROVE KeySound(j)'
  <2>1. KeySound(j) /\ last'[j] = last[j]
    BY <1>2, <1>3, <1>6 DEF KeysInv, EventsSound
  <2>2. ~Publishing(j) /\ ~Publishing(j)' /\ ~Stopping(j) /\ ~Stopping(j)'
    BY <1>1, <1>5, <1>6 DEF Publishing, Stopping
  <2>3. (Reporting(j)' <=> Reporting(j)) /\ daemon' = daemon /\ key' = key
    BY <1>1 DEF Reporting
  <2> QED BY <2>1, <2>2, <2>3, KeyFrame
<1>7. (Reporting(k)' <=> Reporting(k)) /\ last'[k] = Head(pc.events) /\ ~Stopping(k)'
  BY <1>1, <1>2, <1>3, <1>5 DEF Reporting, Stopping
<1>8. CASE pc.events = <<"Press">>
  <2>1. Head(pc.events) = "Press" /\ ~Publishing(k)'
    <3>1. ~(Len(pc.events) > 1)
      BY <1>8
    <3> QED BY <1>8, <3>1 DEF InputPublish, Publishing, Place, At
  <2>2. /\ key[k].state /\ last[k] = "Release"
        /\ Reporting(k) => daemon.events = <<"Long">>
        /\ Reporting(k) <=> key[k].count = LongPressCounts
    BY <1>4, <1>8 DEF KeySound
  <2>3. HeldSound(k)'
    BY <1>1, <1>3, <1>7, <2>1, <2>2 DEF HeldSound, LongPressCounts
  <2>4. KeySound(k)'
    BY <1>1, <1>7, <2>1, <2>2, <2>3 DEF KeySound
  <2>5. Head(pc.events) \in Protocol!After[last[k]]
    BY <2>1, <2>2 DEF Protocol!After
  <2> QED BY <1>2, <1>6, <2>4, <2>5, KeyEvent DEF EventsSound
<1>9. CASE pc.events = <<"Short", "Release">>
  <2>1. /\ Head(pc.events) = "Short" /\ Publishing(k)' /\ pc'.events = <<"Release">>
    <3>1. Len(pc.events) > 1 /\ Tail(pc.events) = <<"Release">> /\ Head(pc.events) = "Short"
      BY <1>9
    <3> QED BY <1>0, <3>1 DEF InputPublish, Publishing, At
  <2>2. ~key[k].state /\ last[k] = "Press" /\ key[k].count = 0
    BY <1>4, <1>9 DEF KeySound
  <2>3. KeySound(k)'
    BY <1>1, <1>7, <2>1, <2>2 DEF KeySound
  <2>4. Head(pc.events) \in Protocol!After[last[k]]
    BY <2>1, <2>2 DEF Protocol!After
  <2> QED BY <1>2, <1>6, <2>3, <2>4, KeyEvent DEF EventsSound
<1>10. CASE pc.events = <<"Release">>
  <2>1. Head(pc.events) = "Release" /\ ~Publishing(k)'
    <3>1. ~(Len(pc.events) > 1)
      BY <1>10
    <3> QED BY <1>10, <3>1 DEF InputPublish, Publishing, Place, At
  <2>2. ~key[k].state /\ last[k] \in {"Short", "Long", "Repeat"} /\ key[k].count = 0
    BY <1>4, <1>10 DEF KeySound
  <2>3. KeySound(k)'
    BY <1>1, <1>7, <2>1, <2>2 DEF KeySound
  <2>4. Head(pc.events) \in Protocol!After[last[k]]
    BY <2>1, <2>2 DEF Protocol!After
  <2> QED BY <1>2, <1>6, <2>3, <2>4, KeyEvent DEF EventsSound
<1> QED BY <1>1, <1>8, <1>9, <1>10

(* The events that the timer task publishes: never of a key whose Press is *)
(* still to be published, nor of one whose timer has stopped.              *)
LEMMA DaemonEvents ==
  ASSUME KeysInv, DaemonPublish
  PROVE  EventsSound' /\ [Protocol!Next]_last
<1>0. PICK k \in Keys : k = daemon.key
  BY DEF KeysInv, InputTypeOK, Tasks
<1>1. /\ daemon \in Tasks /\ k = daemon.key /\ daemon.at = "publish" /\ Publish("daemon", daemon)
      /\ daemon.events \in {<<"Long">>, <<"Repeat">>}
      /\ daemon' = NextPlace /\ UNCHANGED <<key, pc>>
  BY <1>0 DEF DaemonPublish, Publish, KeysInv, InputTypeOK, TasksSound, inputVars
<1>2. /\ last' = [last EXCEPT ![k] = Head(daemon.events)] /\ lock' = "free"
      /\ lock \in {"free", "daemon"}
  BY <1>1, PublishEffect DEF KeysInv
<1>3. last \in [Keys -> EventNames] /\ \A j \in Keys : key[j].count \in 0 .. LongPressCounts
  BY DEF KeysInv, InputTypeOK, EventNames
<1>4. \A j \in Keys : ~Reporting(j)'
  BY <1>1 DEF Reporting, NextPlace, Place, At
<1>5. /\ Reporting(k) /\ KeySound(k) /\ (key[k].state \/ Stopping(k))
      /\ \A j \in Keys : Reporting(j) => j = k
  BY <1>1 DEF Reporting, KeysInv, EventsSound, TimersSound
<1>6. ~Publishing(k) /\ HeldSound(k)
  BY <1>2, <1>5 DEF KeySound, Publishing, Stopping
<1>7. /\ \A j \in Keys : (Publishing(j)' <=> Publishing(j)) /\ (Stopping(j)' <=> Stopping(j))
      /\ pc' = pc /\ key' = key
  BY <1>1 DEF Publishing, Stopping
<1>8. ASSUME NEW j \in Keys, j # k PROVE KeySound(j)'
  <2>1. KeySound(j) /\ last'[j] = last[j] /\ ~Reporting(j) /\ ~Reporting(j)'
    BY <1>2, <1>3, <1>4, <1>5, <1>8 DEF KeysInv, EventsSound
  <2> QED BY <1>7, <2>1, KeyFrame
<1>9. key[k].count = LongPressCounts
  BY <1>1, <1>3, <1>5, <1>6 DEF HeldSound, LongPressCounts
<1>10. /\ Head(daemon.events) \in {"Long", "Repeat"}
       /\ Head(daemon.events) \in Protocol!After[last[k]]
  <2>1. CASE daemon.events = <<"Long">>
    <3>1. last[k] = "Press" /\ Head(daemon.events) = "Long"
      BY <1>5, <1>6, <1>9, <2>1 DEF HeldSound
    <3> QED BY <3>1 DEF Protocol!After
  <2>2. CASE daemon.events = <<"Repeat">>
    <3>1. last[k] \in {"Long", "Repeat"} /\ Head(daemon.events) = "Repeat"
      BY <1>5, <1>6, <1>9, <2>2 DEF HeldSound
    <3> QED BY <3>1 DEF Protocol!After
  <2> QED BY <1>1, <2>1, <2>2
<1>11. HeldSound(k)'
  <2>1. last'[k] \in {"Long", "Repeat"}
    BY <1>1, <1>2, <1>3, <1>10
  <2> QED BY <1>1, <1>4, <1>7, <1>9, <2>1 DEF HeldSound, LongPressCounts
<1>12. KeySound(k)'
  BY <1>1, <1>5, <1>6, <1>7, <1>11 DEF KeySound
<1> QED BY <1>2, <1>8, <1>10, <1>12, KeyEvent DEF EventsSound

(* The steps that publish nothing. *)
LEMMA QuietEvents ==
  ASSUME KeysInv, [Next]_vars, ~InputPublish, ~DaemonPublish
  PROVE  EventsSound' /\ last' = last
<1>1. \A k \in Keys : KeySound(k)
  BY DEF KeysInv, EventsSound
<1>2. ASSUME last' = last, lock = "input" => lock' = "input",
             \A k \in Keys : key'[k].state = key[k].state /\ key'[k].count = key[k].count,
             \/ pc' = pc
             \/ pc.at \notin {"publish", "stopping"} /\ pc'.at \notin {"publish", "stopping"},
             \/ daemon' = daemon
             \/ daemon.at # "publish" /\ daemon'.at # "publish"
      PROVE  EventsSound' /\ last' = last
  <2>1. ASSUME NEW k \in Keys PROVE KeySound(k)'
    <3>1. /\ Publishing(k)' <=> Publishing(k)
          /\ Publishing(k) => pc'.events = pc.events
          /\ Stopping(k)' <=> Stopping(k)
      BY <1>2 DEF Publishing, Stopping
    <3>2. /\ Reporting(k)' <=> Reporting(k)
          /\ Reporting(k) => daemon'.events = daemon.events
      BY <1>2 DEF Reporting
    <3> QED BY <1>1, <1>2, <3>1, <3>2, KeyFrame
  <2> QED BY <1>2, <2>1 DEF EventsSound
<1>3. ASSUME NEW k \in Keys, PinChange(k) PROVE EventsSound' /\ last' = last
  BY <1>2, <1>3 DEF PinChange, inputVars, timerVars, pubVars
<1>4. CASE Read
  <2>1. \A k \in Keys : key'[k].state = key[k].state /\ key'[k].count = key[k].count
    BY <1>4, ReadEffect DEF KeysInv
  <2> QED BY <1>2, <1>4, <2>1 DEF Read, Place, At, timerVars, pubVars
<1>5. CASE RoundEnd \/ Wake
  BY <1>2, <1>5 DEF RoundEnd, Wake, Place, At, timerVars, pubVars
<1>6. CASE InputAcquire \/ DaemonAcquire
  BY <1>2, <1>6 DEF InputAcquire, DaemonAcquire, Acquire, inputVars, timerVars
<1>7. CASE GuiInput
  BY <1>2, <1>7 DEF GuiInput, inputVars, timerVars
<1>8. CASE DaemonCommand
  BY <1>2, <1>8 DEF DaemonCommand, Place, At, inputVars, pubVars
<1>9. CASE UNCHANGED vars
  BY <1>2, <1>9 DEF vars, inputVars, timerVars, pubVars
<1>10. ASSUME NEW k \in Keys, Pressed(k) PROVE EventsSound' /\ last' = last
  <2>1. /\ pc.at = "keys" /\ ~key[k].state
        /\ pc'.at = "publish" /\ pc'.key = k /\ pc'.events = <<"Press">>
        /\ UNCHANGED <<daemon, lock, last>>
    BY <1>10 DEF Pressed, At, pubVars
  <2>2. /\ key'[k].state /\ key'[k].count = key[k].count
        /\ \A j \in Keys : j # k => key'[j] = key[j]
    BY <1>10, SetState DEF Pressed, KeysInv
  <2>3. /\ last[k] = "Release" /\ key[k].count = 0 /\ ~Reporting(k)
    BY <1>1, <2>1 DEF KeySound, KeysInv, TimersSound, Publishing, Stopping
  <2>4. KeySound(k)'
    <3>1. Publishing(k)' /\ ~Stopping(k)' /\ ~Reporting(k)'
      BY <2>1, <2>3 DEF Publishing, Stopping, Reporting
    <3> QED BY <2>1, <2>2, <2>3, <3>1 DEF KeySound, LongPressCounts
  <2>5. ASSUME NEW j \in Keys, j # k PROVE KeySound(j)'
    <3>1. /\ ~Publishing(j) /\ ~Publishing(j)' /\ ~Stopping(j) /\ ~Stopping(j)'
          /\ Reporting(j)' <=> Reporting(j)
      BY <2>1, <2>5 DEF Publishing, Stopping, Reporting
    <3> QED BY <1>1, <2>1, <2>2, <2>5, <3>1, KeyFrame
  <2> QED BY <2>1, <2>4, <2>5 DEF EventsSound
<1>11. ASSUME NEW k \in Keys, Released(k) PROVE EventsSound' /\ last' = last
  <2>1. /\ pc.at = "keys" /\ key[k].state
        /\ pc'.at = "stopping" /\ pc'.key = k
        /\ UNCHANGED <<daemon, lock, last>>
    BY <1>11 DEF Released, At, pubVars
  <2>2. /\ ~key'[k].state /\ key'[k].count = key[k].count
        /\ \A j \in Keys : j # k => key'[j] = key[j]
    BY <1>11, SetState DEF Released, KeysInv
  <2>3. HeldSound(k)
    BY <1>1, <2>1 DEF KeySound, Publishing
  <2>4. KeySound(k)'
    <3>1. ~Publishing(k)' /\ Stopping(k)'
      BY <2>1 DEF Publishing, Stopping
    <3>2. HeldSound(k)'
      BY <2>1, <2>2, <2>3 DEF HeldSound, Reporting
    <3> QED BY <2>2, <3>1, <3>2 DEF KeySound
  <2>5. ASSUME NEW j \in Keys, j # k PROVE KeySound(j)'
    <3>1. /\ ~Publishing(j) /\ ~Publishing(j)' /\ ~Stopping(j) /\ ~Stopping(j)'
          /\ Reporting(j)' <=> Reporting(j)
      BY <2>1, <2>5 DEF Publishing, Stopping, Reporting
    <3> QED BY <1>1, <2>1, <2>2, <2>5, <3>1, KeyFrame
  <2> QED BY <2>1, <2>4, <2>5 DEF EventsSound
<1>12. CASE Stopped
  <2>1. PICK k \in Keys : k = pc.key
    BY DEF KeysInv, InputTypeOK, Tasks
  <2>2. /\ pc.at = "stopping" /\ k \notin timer.active
        /\ pc'.at = "publish" /\ pc'.key = k
        /\ pc'.events = IF key[k].count < LongPressCounts THEN <<"Short", "Release">> ELSE <<"Release">>
        /\ key' = [key EXCEPT ![k].count = 0]
        /\ UNCHANGED <<daemon, lock, last>>
    BY <1>12, <2>1 DEF Stopped, At, timerVars, pubVars
  <2>3. /\ key'[k].count = 0 /\ key'[k].state = key[k].state
        /\ \A j \in Keys : j # k => key'[j] = key[j]
    <3>1. 0 \in 0 .. LongPressCounts
      BY DEF LongPressCounts
    <3> QED BY <2>2, <3>1, SetCount DEF KeysInv
  <2>4. /\ Stopping(k) /\ ~key[k].state /\ HeldSound(k) /\ ~Reporting(k)
    BY <1>1, <2>1, <2>2 DEF Stopping, KeySound, KeysInv, TimersSound
  <2>5. KeySound(k)'
    <3>1. Publishing(k)' /\ ~Stopping(k)' /\ pc'.events # <<"Press">>
      BY <2>2 DEF Publishing, Stopping
    <3>2. key[k].count \in 0 .. LongPressCounts
      BY DEF KeysInv, InputTypeOK
    <3>3. pc'.events = <<"Short", "Release">> => last'[k] = "Press"
      BY <2>2, <2>4 DEF HeldSound
    <3>4. pc'.events = <<"Release">> => last'[k] \in {"Short", "Long", "Repeat"}
      <4>1. pc'.events = <<"Release">> => key[k].count = LongPressCounts
        BY <2>2, <3>2 DEF LongPressCounts
      <4> QED BY <2>2, <2>4, <4>1 DEF HeldSound
    <3> QED BY <2>3, <2>4, <3>1, <3>3, <3>4 DEF KeySound
  <2>6. ASSUME NEW j \in Keys, j # k PROVE KeySound(j)'
    <3>1. /\ ~Publishing(j) /\ ~Publishing(j)' /\ ~Stopping(j) /\ ~Stopping(j)'
          /\ Reporting(j)' <=> Reporting(j)
      BY <2>1, <2>2, <2>6 DEF Publishing, Stopping, Reporting
    <3> QED BY <1>1, <2>2, <2>3, <2>6, <3>1, KeyFrame
  <2> QED BY <2>2, <2>5, <2>6 DEF EventsSound
<1>13. ASSUME NEW k \in Keys, Expire(k) PROVE EventsSound' /\ last' = last
  <2> DEFINE n == key[k].count + 1
             m == IF n > LongPressCounts THEN LongPressCounts ELSE n
  <2>1. /\ daemon.at = "idle" /\ InputWaits /\ k \in timer.active
        /\ key' = [key EXCEPT ![k].count = m]
        /\ daemon' = IF n < LongPressCounts THEN NextPlace
                     ELSE At("publish", k, IF n = LongPressCounts THEN <<"Long">> ELSE <<"Repeat">>)
        /\ UNCHANGED <<pc, lock, last>>
    BY <1>13 DEF Expire, pubVars
  <2>2. key[k].count \in 0 .. LongPressCounts /\ m \in 0 .. LongPressCounts
    <3>1. key[k].count \in 0 .. LongPressCounts
      BY DEF KeysInv, InputTypeOK
    <3> QED BY <3>1 DEF LongPressCounts
  <2>3. /\ key'[k].count = m /\ key'[k].state = key[k].state
        /\ \A j \in Keys : j # k => key'[j] = key[j]
    <3> HIDE DEF m
    <3> QED BY <2>1, <2>2, SetCount DEF KeysInv
  <2>4. \A j \in Keys : ~Reporting(j) /\ (j # k => ~Reporting(j)')
    BY <2>1 DEF Reporting, NextPlace, Place, At
  <2>5. /\ \A j \in Keys : (Publishing(j)' <=> Publishing(j)) /\ (Stopping(j)' <=> Stopping(j))
        /\ pc' = pc
    BY <2>1 DEF Publishing, Stopping
  <2>6. key[k].state \/ Stopping(k)
    BY <2>1 DEF KeysInv, TimersSound
  <2>7. \/ /\ key[k].count = 0 /\ key'[k].count = 1 /\ ~Reporting(k)'
        \/ /\ key[k].count = 1 /\ key'[k].count = 2
           /\ Reporting(k)' /\ daemon'.events = <<"Long">>
        \/ /\ key[k].count = 2 /\ key'[k].count = 2
           /\ Reporting(k)' /\ daemon'.events = <<"Repeat">>
    <3>1. key[k].count \in {0, 1, 2}
      BY <2>2 DEF LongPressCounts
    <3>2. CASE key[k].count = 0
      BY <2>1, <2>3, <3>2 DEF LongPressCounts, Reporting, NextPlace, Place, At
    <3>3. CASE key[k].count = 1
      BY <2>1, <2>3, <3>3 DEF LongPressCounts, Reporting, At
    <3>4. CASE key[k].count = 2
      BY <2>1, <2>3, <3>4 DEF LongPressCounts, Reporting, At
    <3> QED BY <3>1, <3>2, <3>3, <3>4
  <2> HIDE DEF m, n
  <2>8. ASSUME NEW j \in Keys, j # k PROVE KeySound(j)'
    BY <1>1, <2>1, <2>3, <2>4, <2>5, <2>8, KeyFrame
  <2>9. CASE Publishing(k)
    <3>1. pc.at = "publish" /\ pc.key = k /\ ~Stopping(k)
      BY <2>9 DEF Publishing, Stopping
    <3>2. pc.events = <<"Press">> /\ lock = "input"
      <4>1. lock # "daemon"
        BY <2>1 DEF KeysInv, TasksSound
      <4>2. lock = "input"
        BY <2>1, <3>1, <4>1 DEF InputWaits
      <4>3. pc.events = <<"Press">>
        BY <1>1, <2>6, <2>9, <3>1 DEF KeySound
      <4> QED BY <4>2, <4>3
    <3>3. key[k].state /\ last[k] = "Release" /\ key[k].count # LongPressCounts
      BY <1>1, <2>4, <2>9, <3>2 DEF KeySound
    <3> QED BY <2>1, <2>3, <2>5, <2>7, <2>8, <2>9, <3>1, <3>2, <3>3
            DEF KeySound, EventsSound, LongPressCounts
  <2>10. CASE ~Publishing(k)
    <3>1. HeldSound(k)
      BY <1>1, <2>6, <2>10 DEF KeySound
    <3>2. HeldSound(k)'
      BY <2>1, <2>4, <2>7, <3>1 DEF HeldSound, LongPressCounts
    <3>3. KeySound(k)'
      BY <1>1, <2>3, <2>5, <2>6, <2>10, <3>2 DEF KeySound
    <3> QED BY <2>1, <2>8, <3>3 DEF EventsSound
  <2> QED BY <2>9, <2>10
<1> QED BY <1>3, <1>4, <1>5, <1>6, <1>7, <1>8, <1>9, <1>10, <1>11, <1>12, <1>13
        DEF Next, InputNext, DaemonNext

LEMMA KeyInit ==
  ASSUME Init, NEW k \in Keys
  PROVE  KeySound(k) /\ last[k] \in {"Press", "Release"}
<1>1. PICK read \in [Keys -> BOOLEAN] :
        /\ key = [j \in Keys |-> [state |-> read[j], debounce |-> DebounceTicks \div 2, count |-> 0]]
        /\ last = [j \in Keys |-> IF read[j] THEN "Press" ELSE "Release"]
  BY DEF Init
<1>2. key[k].state = read[k] /\ key[k].count = 0
  BY <1>1
<1>3. last[k] = IF read[k] THEN "Press" ELSE "Release"
  BY <1>1
<1>4. read[k] \in BOOLEAN
  BY <1>1
<1>5. pc.at = "read" /\ daemon.at = "idle"
  BY DEF Init, Place, At
<1>6. ~Publishing(k) /\ ~Stopping(k) /\ ~Reporting(k)
  BY <1>5 DEF Publishing, Stopping, Reporting
<1>7. read[k] => HeldSound(k)
  BY <1>2, <1>3, <1>6 DEF HeldSound, LongPressCounts
<1>8. KeySound(k)
  BY <1>2, <1>3, <1>4, <1>6, <1>7 DEF KeySound
<1> QED BY <1>3, <1>4, <1>8

LEMMA KeysInit == Init => KeysInv /\ Protocol!Init
<1> SUFFICES ASSUME Init PROVE KeysInv /\ Protocol!Init
  OBVIOUS
<1>1. InputTypeOK
  BY InputTypesInit
<1>2. /\ pc.at = "read" /\ daemon.at = "idle" /\ daemon.events = <<>> /\ lock = "free"
      /\ timer.active = {} /\ timer.commands = <<>>
  BY DEF Init, Place, At
<1>3. TasksSound
  BY <1>2 DEF TasksSound
<1>4. TimersSound
  BY <1>2 DEF TimersSound, Reporting, EndsStopped
<1>5. EventsSound
  BY KeyInit, Zenon DEF EventsSound
<1>6. last \in [Keys -> {"Press", "Release"}]
  BY <1>1, KeyInit DEF InputTypeOK
<1>7. Protocol!Init
  BY <1>6 DEF Protocol!Init
<1> QED BY <1>1, <1>3, <1>4, <1>5, <1>7 DEF KeysInv

(* The input service implements KeyProtocol (input_srv,                    *)
(* input_press_timer_callback): however the input thread, the timer task   *)
(* and the queue of timer commands interleave, a key gives one Press, then *)
(* Short or Long with its Repeats, then Release: the order of input.c, not *)
(* that of input.h, line 19, where Short comes after Release.              *)
THEOREM ImplementsKeyProtocol == Spec => KeysFollowProtocol
<1>1. KeysInv /\ [Next]_vars => KeysInv' /\ [Protocol!Next]_last
  <2> SUFFICES ASSUME KeysInv, [Next]_vars PROVE KeysInv' /\ [Protocol!Next]_last
    OBVIOUS
  <2>1. InputTypeOK' /\ TasksSound' /\ TimersSound'
    BY InputTypesStep, TasksStep, TimersStep DEF KeysInv
  <2>2. EventsSound' /\ [Protocol!Next]_last
    BY InputEvents, DaemonEvents, QuietEvents
  <2> QED BY <2>1, <2>2 DEF KeysInv
<1> QED BY <1>1, KeysInit, PTL DEF Spec, KeysFollowProtocol, Protocol!Spec
=============================================================================
