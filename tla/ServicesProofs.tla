--------------------------- MODULE ServicesProofs ---------------------------
(***************************************************************************)
(* Theorems about the parts that MCServices checks together and that share *)
(* no state: who may use a serial port (SerialControl), the pictures of    *)
(* the CPU (FrameReceiver), the heap (MemmgrHeap), LEDs (LedService),      *)
(* views (GuiViews), the calls of a service (ServiceCalls), the motor      *)
(* (HapticService), the interrupt of the FUSB302 (ExpanderMain) and the    *)
(* touch pad (TouchPad).  Each has an inductive invariant of its own.  The *)
(* calls of a service are moreover shown to implement CallProtocol, and    *)
(* the last theorem puts the types of all parts together.                  *)
(***************************************************************************)
EXTENDS MCServices, CliEditorProofs, SequenceLemmas

(***************************************************************************)
(* Serial ports.  The steps that are left of a request come in an order,   *)
(* each kind at most once: what may come, now or later, after each kind.   *)
(***************************************************************************)
Later == [config |-> {"remove", "close", "open", "add", "answer"},
          remove |-> {"close", "grant", "open", "add", "answer"},
          close  |-> {"free", "grant", "open", "add", "answer"},
          free   |-> {"open", "add", "answer"},
          grant  |-> {"answer"},
          open   |-> {"add", "answer"},
          add    |-> {"answer"},
          answer |-> {}]

InOrder(steps) == \A i, j \in DOMAIN steps : i < j => steps[j].what \in Later[steps[i].what]

Left(steps) == {steps[i] : i \in DOMAIN steps}

(* Is the step still to be taken? *)
Due(what, p) == Step(what, p) \in Left(control.todo)

(* Who will use port p, to which port the log is configured and to which   *)
(* it will write, once the request is done.                                *)
InUseThen(p)   == (p \in inUse \/ Due("grant", p)) /\ ~Due("free", p)
ConfigThen(p)  == Due("config", p) \/ (p = log.config /\ \A q \in Ports \union {NoPort} : ~Due("config", q))
SerialThen(p)  == Due("open", p) \/ (p = log.serial /\ ~Due("close", p))
HandlerThen(p) == Due("add", p) \/ (p = log.handler /\ ~Due("remove", p))

(* Then the log writes to its port exactly if nobody has acquired it. *)
LogRight ==
  \A p \in Ports :
    /\ SerialThen(p) <=> ConfigThen(p) /\ ~InUseThen(p)
    /\ HandlerThen(p) <=> SerialThen(p)

(* Who waits, and for what. *)
UsersSound ==
  /\ Distinct(asked)
  /\ \A u \in Users : Contains(asked, u) =>
       /\ user[u].at = "wait" /\ user[u].request \in MayAsk(u)
       /\ control.todo # <<>> => u # control.from
  /\ control.todo # <<>> => user[control.from].at = "wait"

(* A port in use is the port of one user. *)
UseSound ==
  /\ \A p \in Ports : p \in inUse <=> \E u \in Users : user[u].port = p
  /\ \A u, w \in Users : u # w /\ user[u].port # NoPort => user[u].port # user[w].port

(* A step fits the state, whatever else happens before it is taken. *)
StepSound(p) ==
  /\ Due("remove", p) => p = log.handler
  /\ Due("close", p) => \/ p = log.serial /\ (log.handler = NoPort \/ Due("remove", p))
                        \/ Due("free", p)
  /\ Due("free", p) => user[control.from].port = p /\ (p \in live => Due("close", p))
  /\ Due("grant", p) => p \notin inUse /\ user[control.from].port = NoPort
  /\ Due("open", p) => \A q \in Ports : q = log.serial => Due("close", q)

StepsSound ==
  /\ InOrder(control.todo)
  /\ \A x \in Left(control.todo) : x.what \notin {"config", "answer"} => x.port \in Ports
  /\ \A p \in Ports : StepSound(p)

(* The port of the log is initialised and nobody's; no port is initialised *)
(* without reason.                                                         *)
LogSound ==
  /\ log.serial # NoPort => log.serial \in live /\ log.serial \notin inUse
  /\ log.handler \in {NoPort, log.serial}
  /\ writer \in {NoPort, log.handler}
  /\ live \subseteq inUse \union {log.serial}

SerialInv == SerialTypeOK /\ UsersSound /\ UseSound /\ StepsSound /\ LogSound /\ LogRight

(***************************************************************************)
(* Lists of steps.                                                         *)
(***************************************************************************)
LEMMA TailLeft ==
  ASSUME NEW s \in Seq(Steps), s # <<>>, InOrder(s)
  PROVE  /\ Head(s) \in Left(s) /\ InOrder(Tail(s))
         /\ \A x \in Left(Tail(s)) : x.what \in Later[Head(s).what]
         /\ \A x : x \in Left(s) <=> x = Head(s) \/ x \in Left(Tail(s))
<1> DEFINE t == Tail(s)
<1>1. /\ DOMAIN t = 1 .. Len(s) - 1 /\ DOMAIN s = 1 .. Len(s) /\ Len(s) \in Nat \ {0}
      /\ \A i \in 1 .. Len(s) - 1 : t[i] = s[i + 1]
      /\ Head(s) = s[1]
  <2>1. /\ t \in Seq(Steps) /\ Len(t) = Len(s) - 1
        /\ \A i \in 1 .. Len(t) : t[i] = s[i + 1]
    BY HeadTailProperties
  <2>2. Len(s) \in Nat \ {0}
    BY EmptySeq
  <2> HIDE DEF t
  <2> QED BY <2>1, <2>2, LenProperties
<1> HIDE DEF t
<1>2. Head(s) \in Left(s)
  BY <1>1 DEF Left
<1>3. InOrder(t)
  <2> SUFFICES ASSUME NEW i \in DOMAIN t, NEW j \in DOMAIN t, i < j
               PROVE  t[j].what \in Later[t[i].what]
    BY DEF InOrder
  <2>1. i + 1 \in DOMAIN s /\ j + 1 \in DOMAIN s /\ i + 1 < j + 1
    BY <1>1
  <2>2. t[i] = s[i + 1] /\ t[j] = s[j + 1]
    BY <1>1
  <2> QED BY <2>1, <2>2 DEF InOrder
<1>4. \A x \in Left(t) : x.what \in Later[Head(s).what]
  <2> TAKE x \in Left(t)
  <2>1. PICK i \in DOMAIN t : x = t[i]
    BY DEF Left
  <2>2. i + 1 \in DOMAIN s /\ 1 \in DOMAIN s /\ 1 < i + 1 /\ x = s[i + 1]
    BY <1>1, <2>1
  <2> QED BY <1>1, <2>2 DEF InOrder
<1>5. ASSUME NEW x PROVE x \in Left(s) <=> x = Head(s) \/ x \in Left(t)
  <2>1. ASSUME x \in Left(s) PROVE x = Head(s) \/ x \in Left(t)
    <3>1. PICK i \in DOMAIN s : x = s[i]
      BY <2>1 DEF Left
    <3>2. CASE i = 1
      BY <1>1, <3>1, <3>2
    <3>3. CASE i # 1
      <4>1. i - 1 \in DOMAIN t /\ t[i - 1] = x
        BY <1>1, <3>1, <3>3
      <4> QED BY <4>1 DEF Left
    <3> QED BY <3>2, <3>3
  <2>2. ASSUME x \in Left(t) PROVE x \in Left(s)
    <3>1. PICK i \in DOMAIN t : x = t[i]
      BY <2>2 DEF Left
    <3>2. i + 1 \in DOMAIN s /\ x = s[i + 1]
      BY <1>1, <3>1
    <3> QED BY <3>2 DEF Left
  <2> QED BY <1>2, <2>1, <2>2
<1> QED BY <1>2, <1>3, <1>4, <1>5 DEF t

LEMMA JoinLeft ==
  ASSUME NEW s \in Seq(Steps), NEW t \in Seq(Steps), InOrder(s), InOrder(t),
         \A x \in Left(s), y \in Left(t) : y.what \in Later[x.what]
  PROVE  /\ s \o t \in Seq(Steps) /\ InOrder(s \o t)
         /\ \A x : x \in Left(s \o t) <=> x \in Left(s) \/ x \in Left(t)
<1> DEFINE r == s \o t
<1>1. /\ r \in Seq(Steps)
      /\ DOMAIN s = 1 .. Len(s) /\ DOMAIN t = 1 .. Len(t) /\ DOMAIN r = 1 .. Len(s) + Len(t)
      /\ Len(s) \in Nat /\ Len(t) \in Nat
      /\ \A i \in 1 .. Len(s) + Len(t) : r[i] = IF i =< Len(s) THEN s[i] ELSE t[i - Len(s)]
  BY ConcatProperties, LenProperties
<1> HIDE DEF r
<1>2. ASSUME NEW i \in DOMAIN s PROVE s[i] \in Left(s) /\ i \in DOMAIN r /\ r[i] = s[i]
  BY <1>1 DEF Left
<1>3. ASSUME NEW i \in DOMAIN t PROVE t[i] \in Left(t) /\ Len(s) + i \in DOMAIN r /\ r[Len(s) + i] = t[i]
  BY <1>1 DEF Left
<1>4. ASSUME NEW i \in DOMAIN r, NEW j \in DOMAIN r, i < j
      PROVE  r[j].what \in Later[r[i].what]
  <2>1. CASE j =< Len(s)
    <3>1. i \in DOMAIN s /\ j \in DOMAIN s
      BY <1>1, <1>4, <2>1
    <3> QED BY <1>2, <1>4, <3>1 DEF InOrder
  <2>2. CASE i =< Len(s) /\ ~(j =< Len(s))
    <3>1. i \in DOMAIN s /\ j - Len(s) \in DOMAIN t /\ r[j] = t[j - Len(s)]
      BY <1>1, <2>2
    <3> QED BY <1>2, <1>3, <3>1
  <2>3. CASE ~(i =< Len(s))
    <3>1. /\ i - Len(s) \in DOMAIN t /\ r[i] = t[i - Len(s)]
          /\ j - Len(s) \in DOMAIN t /\ r[j] = t[j - Len(s)]
          /\ i - Len(s) < j - Len(s)
      BY <1>1, <1>4, <2>3
    <3> QED BY <3>1 DEF InOrder
  <2> QED BY <2>1, <2>2, <2>3
<1>5. ASSUME NEW x PROVE x \in Left(r) <=> x \in Left(s) \/ x \in Left(t)
  <2>1. ASSUME x \in Left(r) PROVE x \in Left(s) \/ x \in Left(t)
    <3>1. PICK i \in DOMAIN r : x = r[i]
      BY <2>1 DEF Left
    <3>2. CASE i =< Len(s)
      <4>1. i \in DOMAIN s /\ x = s[i]
        BY <1>1, <3>1, <3>2
      <4> QED BY <4>1 DEF Left
    <3>3. CASE ~(i =< Len(s))
      <4>1. i - Len(s) \in DOMAIN t /\ x = t[i - Len(s)]
        BY <1>1, <3>1, <3>3
      <4> QED BY <4>1 DEF Left
    <3> QED BY <3>2, <3>3
  <2>2. ASSUME x \in Left(s) PROVE x \in Left(r)
    <3>1. PICK i \in DOMAIN s : x = s[i]
      BY <2>2 DEF Left
    <3> QED BY <1>2, <3>1 DEF Left
  <2>3. ASSUME x \in Left(t) PROVE x \in Left(r)
    <3>1. PICK i \in DOMAIN t : x = t[i]
      BY <2>3 DEF Left
    <3> QED BY <1>3, <3>1 DEF Left
  <2> QED BY <2>1, <2>2, <2>3
<1> QED BY <1>1, <1>4, <1>5 DEF InOrder, r

(* What a handler has to do, by the request. *)
LEMMA OneStep ==
  ASSUME NEW x \in Steps
  PROVE  <<x>> \in Seq(Steps) /\ InOrder(<<x>>) /\ Left(<<x>>) = {x}
BY DEF InOrder, Left

LEMMA TwoSteps ==
  ASSUME NEW x \in Steps, NEW y \in Steps, y.what \in Later[x.what]
  PROVE  /\ <<x, y>> \in Seq(Steps) /\ InOrder(<<x, y>>)
         /\ \A z : z \in Left(<<x, y>>) <=> z = x \/ z = y
<1>1. DOMAIN <<x, y>> = 1 .. 2 /\ <<x, y>>[1] = x /\ <<x, y>>[2] = y
  OBVIOUS
<1>2. <<x, y>> \in Seq(Steps)
  OBVIOUS
<1>3. InOrder(<<x, y>>)
  BY <1>1 DEF InOrder
<1>4. ASSUME NEW z PROVE z \in Left(<<x, y>>) <=> z = x \/ z = y
  BY <1>1 DEF Left
<1> QED BY <1>2, <1>3, <1>4

LEMMA NoStep == <<>> \in Seq(Steps) /\ InOrder(<<>>) /\ Left(<<>>) = {}
BY DEF InOrder, Left

LEMMA AddStep ==
  ASSUME NEW s \in Seq(Steps), NEW x \in Steps, InOrder(s),
         \A y \in Left(s) : x.what \in Later[y.what]
  PROVE  /\ Append(s, x) \in Seq(Steps) /\ InOrder(Append(s, x))
         /\ \A y : y \in Left(Append(s, x)) <=> y \in Left(s) \/ y = x
<1>1. Append(s, x) = s \o <<x>>
  BY AppendIsConcat
<1>2. <<x>> \in Seq(Steps) /\ InOrder(<<x>>) /\ Left(<<x>>) = {x}
  BY OneStep
<1>3. /\ s \o <<x>> \in Seq(Steps) /\ InOrder(s \o <<x>>)
      /\ \A y : y \in Left(s \o <<x>>) <=> y \in Left(s) \/ y \in Left(<<x>>)
  BY <1>2, JoinLeft
<1> QED BY <1>1, <1>2, <1>3

LEMMA OffSteps ==
  ASSUME SerialTypeOK
  PROVE  /\ LogOff \in Seq(Steps) /\ InOrder(LogOff)
         /\ \A x : x \in Left(LogOff) <=>
              /\ log.serial # NoPort
              /\ x = Step("remove", log.serial) \/ x = Step("close", log.serial)
<1>1. log.serial \in Ports \union {NoPort}
  BY DEF SerialTypeOK
<1>2. CASE log.serial = NoPort
  BY <1>2, NoStep DEF LogOff
<1>3. CASE log.serial # NoPort
  <2>1. /\ Step("remove", log.serial) \in Steps /\ Step("close", log.serial) \in Steps
        /\ Step("close", log.serial).what \in Later[Step("remove", log.serial).what]
    BY <1>1 DEF Step, Steps, Later
  <2> QED BY <1>3, <2>1, TwoSteps DEF LogOff
<1> QED BY <1>2, <1>3

LEMMA OnSteps ==
  ASSUME NEW p \in Ports
  PROVE  /\ LogOn(p) \in Seq(Steps) /\ InOrder(LogOn(p))
         /\ \A x : x \in Left(LogOn(p)) <=> x = Step("open", p) \/ x = Step("add", p)
<1>1. /\ Step("open", p) \in Steps /\ Step("add", p) \in Steps
      /\ Step("add", p).what \in Later[Step("open", p).what]
  BY DEF Step, Steps, Later
<1> QED BY <1>1, TwoSteps DEF LogOn

(* The same with the answer that ends every request. *)
Answer == Step("answer", NoPort)

LEMMA AnswerLast ==
  ASSUME NEW s \in Seq(Steps), InOrder(s), \A x \in Left(s) : x.what # "answer"
  PROVE  /\ Append(s, Answer) \in Seq(Steps) /\ InOrder(Append(s, Answer))
         /\ \A x : x \in Left(Append(s, Answer)) <=> x \in Left(s) \/ x = Answer
<1>1. Answer \in Steps /\ Answer.what = "answer"
  BY DEF Answer, Step, Steps
<1>2. ASSUME NEW x \in Left(s) PROVE x \in Steps
  BY ElementOfSeq, LenProperties DEF Left
<1>3. ASSUME NEW x \in Left(s) PROVE "answer" \in Later[x.what]
  <2>1. x.what \in {"open", "close", "remove", "add", "grant", "free", "config"}
    BY <1>2, <1>3 DEF Steps
  <2> QED BY <2>1 DEF Later
<1> QED BY <1>1, <1>3, AddStep

LEMMA AcquireSteps ==
  ASSUME SerialTypeOK, NEW p \in Ports, NEW r, r = [type |-> "Acquire", port |-> p], NEW steps,
         steps = Append(Handler(r), Answer)
  PROVE  /\ steps \in Seq(Steps) /\ InOrder(steps)
         /\ \A x : x \in Left(steps) <=>
              \/ x = Answer
              \/ p \notin inUse /\ x = Step("grant", p)
              \/ p \notin inUse /\ log.config = p /\ x \in Left(LogOff)
<1> DEFINE G == <<Step("grant", p)>>
           Ends == IF log.config = p THEN LogOff ELSE <<>>
<1>1. Handler(r) = IF p \in inUse THEN <<>> ELSE Ends \o G
  BY DEF Handler
<1>2. /\ LogOff \in Seq(Steps) /\ InOrder(LogOff)
      /\ \A x \in Left(LogOff) : x.what \in {"remove", "close"}
  BY OffSteps DEF Step
<1>3. Ends \in Seq(Steps) /\ InOrder(Ends) /\ Left(Ends) = IF log.config = p THEN Left(LogOff) ELSE {}
  BY <1>2, NoStep
<1>4. Step("grant", p) \in Steps /\ Step("grant", p).what = "grant"
  BY DEF Step, Steps
<1>5. G \in Seq(Steps) /\ InOrder(G) /\ Left(G) = {Step("grant", p)}
  BY <1>4, OneStep
<1> HIDE DEF G, Ends
<1>6. \A x \in Left(Ends), y \in Left(G) : y.what \in Later[x.what]
  BY <1>2, <1>3, <1>4, <1>5 DEF Later
<1>7. /\ Ends \o G \in Seq(Steps) /\ InOrder(Ends \o G)
      /\ \A x : x \in Left(Ends \o G) <=> x \in Left(Ends) \/ x \in Left(G)
  BY <1>3, <1>5, <1>6, JoinLeft
<1>8. /\ Handler(r) \in Seq(Steps) /\ InOrder(Handler(r))
      /\ \A x : x \in Left(Handler(r)) <=> p \notin inUse /\ (x \in Left(Ends) \/ x \in Left(G))
  BY <1>1, <1>7, NoStep
<1>9. \A x \in Left(Handler(r)) : x.what # "answer"
  BY <1>2, <1>3, <1>4, <1>5, <1>8
<1> HIDE DEF Handler
<1>10. /\ steps \in Seq(Steps) /\ InOrder(steps)
       /\ \A x : x \in Left(steps) <=> x \in Left(Handler(r)) \/ x = Answer
  BY <1>8, <1>9, AnswerLast
<1> QED BY <1>3, <1>5, <1>8, <1>10

LEMMA ReleaseSteps ==
  ASSUME SerialTypeOK, NEW p \in Ports, NEW r, r = [type |-> "Release", port |-> p], NEW steps,
         steps = Append(Handler(r), Answer), log.config = p => log.serial = NoPort
  PROVE  /\ steps \in Seq(Steps) /\ InOrder(steps)
         /\ \A x : x \in Left(steps) <=>
              \/ x = Answer
              \/ x = Step("close", p) \/ x = Step("free", p)
              \/ log.config = p /\ (x = Step("open", p) \/ x = Step("add", p))
<1> DEFINE C == <<Step("close", p), Step("free", p)>>
           On == IF log.config = p THEN LogOn(p) ELSE <<>>
<1>1. Handler(r) = C \o On
  <2>1. Handler(r) = C \o (IF log.config = p THEN LogOff \o LogOn(p) ELSE <<>>)
    BY DEF Handler
  <2>2. LogOn(p) \in Seq(Steps)
    BY OnSteps
  <2>3. log.config = p => LogOff \o LogOn(p) = LogOn(p)
    BY <2>2, ConcatEmptySeq DEF LogOff
  <2> HIDE DEF C
  <2> QED BY <2>1, <2>3
<1>2. /\ LogOn(p) \in Seq(Steps) /\ InOrder(LogOn(p))
      /\ \A x : x \in Left(LogOn(p)) <=> x = Step("open", p) \/ x = Step("add", p)
  BY OnSteps
<1>3. /\ On \in Seq(Steps) /\ InOrder(On)
      /\ \A x : x \in Left(On) <=> log.config = p /\ (x = Step("open", p) \/ x = Step("add", p))
  BY <1>2, NoStep
<1>4. /\ Step("close", p) \in Steps /\ Step("free", p) \in Steps
      /\ Step("close", p).what = "close" /\ Step("free", p).what = "free"
      /\ Step("open", p).what = "open" /\ Step("add", p).what = "add"
  BY DEF Step, Steps
<1>5. /\ C \in Seq(Steps) /\ InOrder(C)
      /\ \A x : x \in Left(C) <=> x = Step("close", p) \/ x = Step("free", p)
  <2>1. Step("free", p).what \in Later[Step("close", p).what]
    BY <1>4 DEF Later
  <2> QED BY <1>4, <2>1, TwoSteps
<1> HIDE DEF C, On
<1>6. \A x \in Left(C), y \in Left(On) : y.what \in Later[x.what]
  BY <1>3, <1>4, <1>5 DEF Later
<1>7. /\ C \o On \in Seq(Steps) /\ InOrder(C \o On)
      /\ \A x : x \in Left(C \o On) <=> x \in Left(C) \/ x \in Left(On)
  BY <1>3, <1>5, <1>6, JoinLeft
<1>8. \A x \in Left(C \o On) : x.what # "answer"
  BY <1>3, <1>4, <1>5, <1>7
<1>9. /\ steps \in Seq(Steps) /\ InOrder(steps)
      /\ \A x : x \in Left(steps) <=> x \in Left(C \o On) \/ x = Answer
  BY <1>1, <1>7, <1>8, AnswerLast
<1> QED BY <1>3, <1>5, <1>7, <1>9

LEMMA LoggingSteps ==
  ASSUME SerialTypeOK, NEW c \in Ports \union {NoPort}, NEW r, r = [type |-> "Logging", port |-> c],
         NEW steps, steps = Append(Handler(r), Answer)
  PROVE  /\ steps \in Seq(Steps) /\ InOrder(steps)
         /\ \A x : x \in Left(steps) <=>
              \/ x = Answer
              \/ x = Step("config", c)
              \/ x \in Left(LogOff)
              \/ c \in Ports \ inUse /\ (x = Step("open", c) \/ x = Step("add", c))
<1> DEFINE C == <<Step("config", c)>>
           On == IF c \in Ports \ inUse THEN LogOn(c) ELSE <<>>
<1>1. Handler(r) = (C \o LogOff) \o On
  <2>1. Handler(r) = C \o LogOff \o On
    BY DEF Handler
  <2> HIDE DEF C, On
  <2> QED BY <2>1
<1>2. /\ LogOff \in Seq(Steps) /\ InOrder(LogOff)
      /\ \A x \in Left(LogOff) : x.what \in {"remove", "close"}
  BY OffSteps DEF Step
<1>3. /\ On \in Seq(Steps) /\ InOrder(On)
      /\ \A x : x \in Left(On) <=> c \in Ports \ inUse /\ (x = Step("open", c) \/ x = Step("add", c))
  <2>1. CASE c \in Ports \ inUse
    BY <2>1, OnSteps
  <2>2. CASE c \notin Ports \ inUse
    BY <2>2, NoStep
  <2> QED BY <2>1, <2>2
<1>4. /\ Step("config", c) \in Steps /\ Step("config", c).what = "config"
      /\ Step("open", c).what = "open" /\ Step("add", c).what = "add"
  BY DEF Step, Steps
<1>5. C \in Seq(Steps) /\ InOrder(C) /\ Left(C) = {Step("config", c)}
  BY <1>4, OneStep
<1> HIDE DEF C, On
<1>6. \A x \in Left(C), y \in Left(LogOff) : y.what \in Later[x.what]
  BY <1>2, <1>4, <1>5 DEF Later
<1>7. /\ C \o LogOff \in Seq(Steps) /\ InOrder(C \o LogOff)
      /\ \A x : x \in Left(C \o LogOff) <=> x \in Left(C) \/ x \in Left(LogOff)
  BY <1>2, <1>5, <1>6, JoinLeft
<1>8. \A x \in Left(C \o LogOff), y \in Left(On) : y.what \in Later[x.what]
  BY <1>2, <1>3, <1>4, <1>5, <1>7 DEF Later
<1>9. /\ (C \o LogOff) \o On \in Seq(Steps) /\ InOrder((C \o LogOff) \o On)
      /\ \A x : x \in Left((C \o LogOff) \o On) <=> x \in Left(C \o LogOff) \/ x \in Left(On)
  BY <1>3, <1>7, <1>8, JoinLeft
<1>10. \A x \in Left((C \o LogOff) \o On) : x.what # "answer"
  BY <1>2, <1>3, <1>4, <1>5, <1>7, <1>9
<1>11. /\ steps \in Seq(Steps) /\ InOrder(steps)
       /\ \A x : x \in Left(steps) <=> x \in Left((C \o LogOff) \o On) \/ x = Answer
  BY <1>1, <1>9, <1>10, AnswerLast
<1> QED BY <1>3, <1>5, <1>7, <1>9, <1>11

(***************************************************************************)
(* A request is taken.                                                     *)
(***************************************************************************)
LEMMA SameStep ==
  \A v, w, p, q : Step(v, p) = Step(w, q) <=> v = w /\ p = q
BY DEF Step

(* What is taken to be true while no request is served. *)
LEMMA NothingLeft ==
  ASSUME SerialInv, control.todo = <<>>
  PROVE  /\ \A w, p : ~Due(w, p)
         /\ \A p \in Ports : /\ p = log.serial <=> p = log.config /\ p \notin inUse
                             /\ p = log.handler <=> p = log.serial
<1>1. \A w, p : ~Due(w, p)
  BY NoStep DEF Due
<1>2. \A p \in Ports : /\ SerialThen(p) <=> p = log.serial
                       /\ HandlerThen(p) <=> p = log.handler
                       /\ ConfigThen(p) <=> p = log.config
                       /\ InUseThen(p) <=> p \in inUse
  BY <1>1 DEF SerialThen, HandlerThen, ConfigThen, InUseThen
<1> QED BY <1>1, <1>2 DEF SerialInv, LogRight

LEMMA TakeSteps ==
  ASSUME SerialInv, TakeRequest
  PROVE  /\ control'.todo \in Seq(Steps) /\ control'.from \in Users
         /\ StepsSound' /\ LogRight'
<1>1. PICK f \in Users : f = Head(asked) /\ Contains(asked, f)
  <2>1. asked \in Seq(Users) /\ asked # <<>> /\ Distinct(asked)
    BY DEF SerialInv, SerialTypeOK, UsersSound, TakeRequest
  <2> QED BY <2>1, TailContains
<1>2. user[f].request \in MayAsk(f)
  BY <1>1 DEF SerialInv, UsersSound
<1>3. PICK r : r = user[f].request
  OBVIOUS
<1>4. PICK steps : steps = Append(Handler(r), Answer)
  OBVIOUS
<1>5. /\ control.todo = <<>>
      /\ control' = [from |-> f, todo |-> steps]
      /\ UNCHANGED <<inUse, live, log, user, writer>>
  BY <1>1, <1>3, <1>4 DEF TakeRequest, Answer
<1>6. control'.from = f /\ control'.todo = steps /\ \A w, p : Due(w, p)' <=> Step(w, p) \in Left(steps)
  BY <1>5 DEF Due
<1>7. SerialTypeOK
  BY DEF SerialInv
<1>8. /\ \A p \in Ports : /\ p = log.serial <=> p = log.config /\ p \notin inUse
                          /\ p = log.handler <=> p = log.serial
      /\ log.serial \in Ports \union {NoPort} /\ log.handler \in Ports \union {NoPort}
      /\ log.config \in Ports \union {NoPort} /\ NoPort \notin Ports
  BY <1>5, NothingLeft, SerialAssumption DEF SerialInv, SerialTypeOK
<1>9. \A w, p : Step(w, p) # Answer \/ w = "answer"
  BY SameStep DEF Answer
<1>10. \A w, p : Step(w, p) \in Left(LogOff) <=>
                   log.serial # NoPort /\ p = log.serial /\ w \in {"remove", "close"}
  BY <1>7, OffSteps, SameStep
<1>11. user[f].port \in Ports \union {NoPort}
  BY DEF SerialInv, SerialTypeOK
<1> DEFINE Goal(t) == /\ t \in Seq(Steps) /\ InOrder(t)
                      /\ \A x \in Left(t) : x.what \notin {"config", "answer"} => x.port \in Ports
<1>12. ASSUME Goal(steps), \A p \in Ports : StepSound(p)', LogRight'
       PROVE  /\ control'.todo \in Seq(Steps) /\ control'.from \in Users
              /\ StepsSound' /\ LogRight'
  <2>1. InOrder(control.todo)' /\ control'.todo \in Seq(Steps)
    BY <1>6, <1>12
  <2>2. \A x \in Left(control.todo)' : x.what \notin {"config", "answer"} => x.port \in Ports
    BY <1>6, <1>12
  <2> QED BY <1>6, <1>12, <2>1, <2>2 DEF StepsSound
<1>13. CASE r.type = "IsBusy"
  <2>1. steps \in Seq(Steps) /\ InOrder(steps) /\ \A x : x \in Left(steps) <=> x = Answer
    <3>1. Handler(r) = <<>>
      BY <1>13 DEF Handler
    <3> QED BY <1>4, <3>1, NoStep, AnswerLast
  <2>2. Goal(steps)
    BY <2>1 DEF Answer, Step
  <2>3. \A w, p : Due(w, p)' => w = "answer"
    BY <2>1, <1>6, <1>9
  <2>4. \A p \in Ports : StepSound(p)'
    BY <2>3 DEF StepSound
  <2>5. LogRight'
    BY <2>3, <1>5, <1>8 DEF LogRight, SerialThen, HandlerThen, ConfigThen, InUseThen
  <2> QED BY <2>2, <2>4, <2>5, <1>12
<1>14. ASSUME NEW p \in Ports, r = [type |-> "Acquire", port |-> p], user[f].port = NoPort
       PROVE  /\ control'.todo \in Seq(Steps) /\ control'.from \in Users
              /\ StepsSound' /\ LogRight'
  <2>1. /\ steps \in Seq(Steps) /\ InOrder(steps)
        /\ \A x : x \in Left(steps) <=>
             \/ x = Answer
             \/ p \notin inUse /\ x = Step("grant", p)
             \/ p \notin inUse /\ log.config = p /\ x \in Left(LogOff)
    BY <1>4, <1>7, <1>14, AcquireSteps
  <2>2. Goal(steps)
    BY <2>1, <1>7, <1>8, OffSteps DEF Answer, Step
  <2>3. \A w, q : Due(w, q)' <=>
          \/ Step(w, q) = Answer
          \/ p \notin inUse /\ w = "grant" /\ q = p
          \/ p \notin inUse /\ log.config = p /\ log.serial # NoPort /\ q = log.serial
             /\ w \in {"remove", "close"}
    BY <2>1, <1>6, <1>10, SameStep
  <2>4. \A q : /\ Due("grant", q)' <=> p \notin inUse /\ q = p
               /\ Due("remove", q)' <=> p \notin inUse /\ log.config = p /\ log.serial # NoPort /\ q = log.serial
               /\ Due("close", q)' <=> p \notin inUse /\ log.config = p /\ log.serial # NoPort /\ q = log.serial
               /\ ~Due("free", q)' /\ ~Due("open", q)' /\ ~Due("add", q)' /\ ~Due("config", q)'
    BY <2>3, <1>9
  <2>5. \A q \in Ports : StepSound(q)'
    BY <2>4, <1>5, <1>6, <1>8, <1>14 DEF StepSound
  <2>6. LogRight'
    BY <2>4, <1>5, <1>8 DEF LogRight, SerialThen, HandlerThen, ConfigThen, InUseThen
  <2> QED BY <2>2, <2>5, <2>6, <1>12
<1>15. ASSUME NEW p \in Ports, r = [type |-> "Release", port |-> p], user[f].port = p
       PROVE  /\ control'.todo \in Seq(Steps) /\ control'.from \in Users
              /\ StepsSound' /\ LogRight'
  <2>1. p \in inUse
    BY <1>15 DEF SerialInv, UseSound
  <2>2. /\ steps \in Seq(Steps) /\ InOrder(steps)
        /\ \A x : x \in Left(steps) <=>
             \/ x = Answer
             \/ x = Step("close", p) \/ x = Step("free", p)
             \/ log.config = p /\ (x = Step("open", p) \/ x = Step("add", p))
    <3>1. log.config = p => log.serial = NoPort
      BY <1>8, <2>1
    <3>2. r = [type |-> "Release", port |-> p]
      BY <1>15
    <3> HIDE DEF Goal
    <3> QED BY <1>4, <1>7, <3>1, <3>2, ReleaseSteps, Zenon
  <2>3. Goal(steps)
    BY <2>2 DEF Answer, Step
  <2>4. \A w, q : Due(w, q)' <=>
          \/ Step(w, q) = Answer
          \/ w \in {"close", "free"} /\ q = p
          \/ log.config = p /\ w \in {"open", "add"} /\ q = p
    BY <2>2, <1>6, SameStep
  <2>5. \A q : /\ Due("close", q)' <=> q = p
               /\ Due("free", q)' <=> q = p
               /\ Due("open", q)' <=> log.config = p /\ q = p
               /\ Due("add", q)' <=> log.config = p /\ q = p
               /\ ~Due("grant", q)' /\ ~Due("remove", q)' /\ ~Due("config", q)'
    BY <2>4, <1>9
  <2>6. \A q \in Ports : StepSound(q)'
    BY <2>1, <2>5, <1>5, <1>6, <1>8, <1>15 DEF StepSound
  <2>7. LogRight'
    BY <2>1, <2>5, <1>5, <1>8 DEF LogRight, SerialThen, HandlerThen, ConfigThen, InUseThen
  <2> QED BY <2>3, <2>6, <2>7, <1>12
<1>16. ASSUME NEW c \in Ports \union {NoPort}, r = [type |-> "Logging", port |-> c]
       PROVE  /\ control'.todo \in Seq(Steps) /\ control'.from \in Users
              /\ StepsSound' /\ LogRight'
  <2>1. /\ steps \in Seq(Steps) /\ InOrder(steps)
        /\ \A x : x \in Left(steps) <=>
             \/ x = Answer
             \/ x = Step("config", c)
             \/ x \in Left(LogOff)
             \/ c \in Ports \ inUse /\ (x = Step("open", c) \/ x = Step("add", c))
    BY <1>4, <1>7, <1>16, LoggingSteps
  <2>2. Goal(steps)
    BY <2>1, <1>7, <1>8, OffSteps DEF Answer, Step
  <2>3. \A w, q : Due(w, q)' <=>
          \/ Step(w, q) = Answer
          \/ w = "config" /\ q = c
          \/ log.serial # NoPort /\ q = log.serial /\ w \in {"remove", "close"}
          \/ c \in Ports \ inUse /\ q = c /\ w \in {"open", "add"}
    BY <2>1, <1>6, <1>10, SameStep
  <2>4. \A q : /\ Due("config", q)' <=> q = c
               /\ Due("remove", q)' <=> log.serial # NoPort /\ q = log.serial
               /\ Due("close", q)' <=> log.serial # NoPort /\ q = log.serial
               /\ Due("open", q)' <=> c \in Ports \ inUse /\ q = c
               /\ Due("add", q)' <=> c \in Ports \ inUse /\ q = c
               /\ ~Due("free", q)' /\ ~Due("grant", q)'
    BY <2>3, <1>9
  <2>5. \A q \in Ports : StepSound(q)'
    BY <2>4, <1>5, <1>6, <1>8 DEF StepSound
  <2>6. LogRight'
    BY <2>4, <1>5, <1>8 DEF LogRight, SerialThen, HandlerThen, ConfigThen, InUseThen
  <2> QED BY <2>2, <2>5, <2>6, <1>12
<1> QED
  <2>1. CASE user[f].port # NoPort
    <3>1. user[f].port \in Ports /\ r = [type |-> "Release", port |-> user[f].port]
      BY <2>1, <1>2, <1>3, <1>11 DEF MayAsk
    <3> QED BY <3>1, <1>15
  <2>2. CASE user[f].port = NoPort
    <3>1. \/ r.type = "IsBusy"
          \/ \E p \in Ports : r = [type |-> "Acquire", port |-> p]
          \/ \E c \in Ports \union {NoPort} : r = [type |-> "Logging", port |-> c]
      BY <2>2, <1>2, <1>3 DEF MayAsk
    <3> QED BY <3>1, <2>2, <1>13, <1>14, <1>16
  <2> QED BY <2>1, <2>2

LEMMA TakeStep ==
  ASSUME SerialInv, TakeRequest
  PROVE  SerialInv'
<1>1. /\ control'.todo \in Seq(Steps) /\ control'.from \in Users
      /\ StepsSound' /\ LogRight'
  BY TakeSteps
<1>2. /\ UNCHANGED <<inUse, live, log, user, writer>>
      /\ asked # <<>> /\ asked' = Tail(asked) /\ control.todo = <<>>
      /\ control' = [from |-> control'.from, todo |-> control'.todo] /\ control'.from = Head(asked)
  BY DEF TakeRequest
<1>3. asked \in Seq(Users) /\ Distinct(asked) /\ Len(asked) =< SerialQueue /\ Len(asked) \in Nat
  BY LenProperties DEF SerialInv, SerialTypeOK, UsersSound
<1>4. /\ Contains(asked, Head(asked))
      /\ asked' \in Seq(Users) /\ Distinct(asked')
      /\ \A u : Contains(asked', u) <=> Contains(asked, u) /\ u # Head(asked)
  BY <1>2, <1>3, TailContains
<1>5. Len(asked') =< SerialQueue
  BY <1>2, <1>3, HeadTailProperties, SerialAssumption
<1>6. SerialTypeOK'
  <2>1. control' \in [from : Users, todo : Seq(Steps)]
    BY <1>1, <1>2
  <2> QED BY <1>2, <1>4, <1>5, <2>1 DEF SerialInv, SerialTypeOK
<1>7. UsersSound'
  BY <1>1, <1>2, <1>4 DEF SerialInv, UsersSound, MayAsk
<1>8. UseSound' /\ LogSound'
  BY <1>2 DEF SerialInv, UseSound, LogSound
<1> QED BY <1>1, <1>6, <1>7, <1>8 DEF SerialInv

(***************************************************************************)
(* A step of a request is taken.                                           *)
(***************************************************************************)
Kinds == {"open", "close", "remove", "add", "grant", "free", "config", "answer"}

LEMMA StepTaken ==
  ASSUME SerialInv, ControlStep
  PROVE  \E k \in Kinds, p \in Ports \union {NoPort} :
           /\ Head(control.todo) = Step(k, p)
           /\ k \notin {"config", "answer"} => p \in Ports
           /\ control'.from = control.from /\ control'.todo \in Seq(Steps)
           /\ InOrder(control.todo)'
           /\ \A x \in Left(control.todo)' : x \in Left(control.todo)
           /\ Due(k, p) /\ \A q : ~Due(k, q)'
           /\ \A w, q : Due(w, q) => w \in Later[k] \/ (w = k /\ q = p)
           /\ \A w, q : w # k => (Due(w, q)' <=> Due(w, q))
           /\ control'.todo # <<>> => k # "answer"
<1> DEFINE s == control.todo
           h == Head(s)
<1>1. s \in Seq(Steps) /\ s # <<>> /\ InOrder(s) /\ control'.todo = Tail(s) /\ control'.from = control.from
  BY DEF ControlStep, SerialInv, SerialTypeOK, StepsSound
<1>2. /\ h \in Left(s) /\ InOrder(Tail(s))
      /\ \A x \in Left(Tail(s)) : x.what \in Later[h.what]
      /\ \A x : x \in Left(s) <=> x = h \/ x \in Left(Tail(s))
  BY <1>1, TailLeft
<1>3. h \in Steps /\ Tail(s) \in Seq(Steps)
  BY <1>1, HeadTailProperties
<1>4. PICK k \in Kinds, p \in Ports \union {NoPort} : h = Step(k, p)
  BY <1>3 DEF Steps, Step, Kinds
<1>5. h.what = k /\ h.port = p
  BY <1>4 DEF Step
<1>6. \A w, q : Due(w, q) <=> Step(w, q) \in Left(s)
  BY DEF Due
<1>7. \A w, q : Due(w, q)' <=> Step(w, q) \in Left(Tail(s))
  BY <1>1 DEF Due
<1>8. \A w, q : Step(w, q).what = w
  BY DEF Step
<1>9. k \notin Later[k]
  BY DEF Kinds, Later
<1>10. k \notin {"config", "answer"} => p \in Ports
  BY <1>2, <1>5 DEF SerialInv, StepsSound
<1>11. control'.todo # <<>> => k # "answer"
  <2> SUFFICES ASSUME Tail(s) # <<>>, k = "answer" PROVE FALSE
    BY <1>1
  <2>1. Head(Tail(s)) \in Left(Tail(s))
    BY <1>2, <1>3, TailLeft
  <2> QED BY <2>1, <1>2, <1>5 DEF Later
<1> HIDE DEF s, h
<1>12. Due(k, p) /\ \A q : ~Due(k, q)'
  BY <1>2, <1>4, <1>5, <1>6, <1>7, <1>8, <1>9
<1>13. \A w, q : Due(w, q) => w \in Later[k] \/ (w = k /\ q = p)
  BY <1>2, <1>4, <1>5, <1>6, <1>8, SameStep
<1>14. \A w, q : w # k => (Due(w, q)' <=> Due(w, q))
  BY <1>2, <1>4, <1>5, <1>6, <1>7, <1>8
<1>15. \A x \in Left(control.todo)' : x \in Left(control.todo)
  BY <1>1, <1>2 DEF s
<1>16. InOrder(control.todo)' /\ control'.todo \in Seq(Steps)
  BY <1>1, <1>2, <1>3 DEF s
<1> QED BY <1>1, <1>4, <1>10, <1>11, <1>12, <1>13, <1>14, <1>15, <1>16 DEF h, s

LEMMA StepEffect ==
  ASSUME SerialInv, ControlStep, NEW k \in Kinds, NEW p \in Ports \union {NoPort},
         Head(control.todo) = Step(k, p), k \notin {"config", "answer"} => p \in Ports
  PROVE  /\ UNCHANGED <<asked, writer>>
         /\ k \in {"remove", "add"} => writer = NoPort
         /\ live' = IF k = "open" THEN live \union {p} ELSE IF k = "close" THEN live \ {p} ELSE live
         /\ inUse' = IF k = "grant" THEN inUse \union {p} ELSE IF k = "free" THEN inUse \ {p} ELSE inUse
         /\ log' \in [config : Ports \union {NoPort}, serial : Ports \union {NoPort},
                      handler : Ports \union {NoPort}]
         /\ log'.config = IF k = "config" THEN p ELSE log.config
         /\ log'.serial = IF k = "open" THEN p
                          ELSE IF k = "close" /\ p = log.serial THEN NoPort ELSE log.serial
         /\ log'.handler = IF k = "remove" THEN NoPort ELSE IF k = "add" THEN p ELSE log.handler
         /\ user' = [u \in Users |->
              [at |-> IF u = control.from /\ k = "answer" THEN "free" ELSE user[u].at,
               request |-> user[u].request,
               port |-> IF u = control.from /\ k = "grant" THEN p
                        ELSE IF u = control.from /\ k = "free" THEN NoPort ELSE user[u].port]]
<1>1. Head(control.todo).what = k /\ Head(control.todo).port = p
  BY DEF Step
<1>2. /\ live' = IF k = "open" THEN live \union {p} ELSE IF k = "close" THEN live \ {p} ELSE live
      /\ inUse' = IF k = "grant" THEN inUse \union {p} ELSE IF k = "free" THEN inUse \ {p} ELSE inUse
      /\ UNCHANGED <<asked, writer>> /\ (k \in {"remove", "add"} => writer = NoPort)
  BY <1>1 DEF ControlStep, Kinds
<1>3. log \in [config : Ports \union {NoPort}, serial : Ports \union {NoPort},
               handler : Ports \union {NoPort}]
  BY DEF SerialInv, SerialTypeOK
<1>4. /\ k = "remove" => log' = [log EXCEPT !.handler = NoPort]
      /\ k = "close" /\ p = log.serial => log' = [log EXCEPT !.serial = NoPort]
      /\ k = "open" => log' = [log EXCEPT !.serial = p]
      /\ k = "add" => log' = [log EXCEPT !.handler = p]
      /\ k = "config" => log' = [log EXCEPT !.config = p]
      /\ k \in {"grant", "free", "answer"} \/ (k = "close" /\ p # log.serial) => log' = log
  BY <1>1 DEF ControlStep, Kinds
<1>5. /\ log' \in [config : Ports \union {NoPort}, serial : Ports \union {NoPort},
                   handler : Ports \union {NoPort}]
      /\ log'.config = IF k = "config" THEN p ELSE log.config
      /\ log'.serial = IF k = "open" THEN p
                       ELSE IF k = "close" /\ p = log.serial THEN NoPort ELSE log.serial
      /\ log'.handler = IF k = "remove" THEN NoPort ELSE IF k = "add" THEN p ELSE log.handler
  BY <1>3, <1>4 DEF Kinds
<1>6. /\ k = "grant" => user' = [user EXCEPT ![control.from].port = p]
      /\ k = "free" => user' = [user EXCEPT ![control.from].port = NoPort]
      /\ k = "answer" => user' = [user EXCEPT ![control.from].at = "free"]
      /\ k \notin {"grant", "free", "answer"} => user' = user
  BY <1>1 DEF ControlStep, Kinds
<1> DEFINE Records == [at : {"free", "wait"}, port : Ports \union {NoPort},
                       request : [type : {"Acquire", "Release", "IsBusy", "Logging"},
                                  port : Ports \union {NoPort}]]
<1>7. user \in [Users -> Records] /\ control.from \in Users
  BY DEF SerialInv, SerialTypeOK
<1>8. \A u \in Users : user[u] = [at |-> user[u].at, request |-> user[u].request, port |-> user[u].port]
  BY <1>7
<1>9. PICK f \in Users : f = control.from
  BY <1>7
<1> HIDE DEF Records
<1>10. user' = [u \in Users |->
              [at |-> IF u = f /\ k = "answer" THEN "free" ELSE user[u].at,
               request |-> user[u].request,
               port |-> IF u = f /\ k = "grant" THEN p
                        ELSE IF u = f /\ k = "free" THEN NoPort ELSE user[u].port]]
  <2>1. CASE k = "grant"
    <3>1. user' = [user EXCEPT ![f] = [at |-> user[f].at, request |-> user[f].request, port |-> p]]
      BY <2>1, <1>6, <1>8, <1>9
    <3> QED BY <2>1, <3>1, <1>7, <1>8
  <2>2. CASE k = "free"
    <3>1. user' = [user EXCEPT ![f] = [at |-> user[f].at, request |-> user[f].request, port |-> NoPort]]
      BY <2>2, <1>6, <1>8, <1>9
    <3> QED BY <2>2, <3>1, <1>7, <1>8
  <2>3. CASE k = "answer"
    <3>1. user' = [user EXCEPT ![f] = [at |-> "free", request |-> user[f].request, port |-> user[f].port]]
      BY <2>3, <1>6, <1>8, <1>9
    <3> QED BY <2>3, <3>1, <1>7, <1>8
  <2>4. CASE k \notin {"grant", "free", "answer"}
    BY <2>4, <1>6, <1>7, <1>8
  <2> QED BY <2>1, <2>2, <2>3, <2>4
<1> QED BY <1>2, <1>5, <1>9, <1>10

LEMMA ControlKeeps ==
  ASSUME SerialInv, ControlStep
  PROVE  SerialInv'
<1>1. PICK k \in Kinds, p \in Ports \union {NoPort} :
           /\ Head(control.todo) = Step(k, p)
           /\ k \notin {"config", "answer"} => p \in Ports
           /\ control'.from = control.from /\ control'.todo \in Seq(Steps)
           /\ InOrder(control.todo)'
           /\ \A x \in Left(control.todo)' : x \in Left(control.todo)
           /\ Due(k, p) /\ \A q : ~Due(k, q)'
           /\ \A w, q : Due(w, q) => w \in Later[k] \/ (w = k /\ q = p)
           /\ \A w, q : w # k => (Due(w, q)' <=> Due(w, q))
           /\ control'.todo # <<>> => k # "answer"
  BY StepTaken
<1>2. /\ UNCHANGED <<asked, writer>>
      /\ k \in {"remove", "add"} => writer = NoPort
      /\ live' = IF k = "open" THEN live \union {p} ELSE IF k = "close" THEN live \ {p} ELSE live
      /\ inUse' = IF k = "grant" THEN inUse \union {p} ELSE IF k = "free" THEN inUse \ {p} ELSE inUse
      /\ log' \in [config : Ports \union {NoPort}, serial : Ports \union {NoPort},
                   handler : Ports \union {NoPort}]
      /\ log'.config = IF k = "config" THEN p ELSE log.config
      /\ log'.serial = IF k = "open" THEN p
                       ELSE IF k = "close" /\ p = log.serial THEN NoPort ELSE log.serial
      /\ log'.handler = IF k = "remove" THEN NoPort ELSE IF k = "add" THEN p ELSE log.handler
  BY <1>1, StepEffect
<1> DEFINE Records == [at : {"free", "wait"}, port : Ports \union {NoPort},
                       request : [type : {"Acquire", "Release", "IsBusy", "Logging"},
                                  port : Ports \union {NoPort}]]
<1>3. PICK f \in Users : f = control.from
  BY DEF SerialInv, SerialTypeOK
<1>4. user' = [u \in Users |->
                [at |-> IF u = f /\ k = "answer" THEN "free" ELSE user[u].at,
                 request |-> user[u].request,
                 port |-> IF u = f /\ k = "grant" THEN p
                          ELSE IF u = f /\ k = "free" THEN NoPort ELSE user[u].port]]
  BY <1>1, <1>3, StepEffect
<1>5. /\ user \in [Users -> Records] /\ user' \in [Users -> Records]
      /\ \A u \in Users : /\ user'[u].at = IF u = f /\ k = "answer" THEN "free" ELSE user[u].at
                          /\ user'[u].request = user[u].request
                          /\ user'[u].port = IF u = f /\ k = "grant" THEN p
                               ELSE IF u = f /\ k = "free" THEN NoPort ELSE user[u].port
  <2>1. user \in [Users -> Records]
    BY DEF SerialInv, SerialTypeOK
  <2>2. \A u \in Users : /\ user[u].at \in {"free", "wait"} /\ user[u].port \in Ports \union {NoPort}
                         /\ user[u].request \in [type : {"Acquire", "Release", "IsBusy", "Logging"},
                                                 port : Ports \union {NoPort}]
    BY <2>1
  <2> QED BY <2>1, <2>2, <1>4
<1>6. SerialTypeOK'
  <2>1. live' \subseteq Ports /\ inUse' \subseteq Ports
    BY <1>1, <1>2 DEF SerialInv, SerialTypeOK
  <2>2. control' \in [from : Users, todo : Seq(Steps)]
    <3>1. control \in [from : Users, todo : Seq(Steps)] /\ control' = [control EXCEPT !.todo = control'.todo]
      BY DEF SerialInv, SerialTypeOK, ControlStep
    <3> QED BY <3>1, <1>1
  <2> QED BY <2>1, <2>2, <1>2, <1>5 DEF SerialInv, SerialTypeOK
<1>7. control.todo # <<>> /\ control'.from = f
  BY <1>1, <1>3 DEF ControlStep
<1>8. UsersSound'
  <2>1. \A u \in Users : Contains(asked, u) =>
          user[u].at = "wait" /\ user[u].request \in MayAsk(u) /\ u # f
    BY <1>3, <1>7 DEF SerialInv, UsersSound
  <2>2. \A u \in Users : u # f => user'[u].at = user[u].at /\ user'[u].request = user[u].request
                                  /\ user'[u].port = user[u].port
    BY <1>5
  <2>3. \A u \in Users : Contains(asked, u) => user'[u].request \in MayAsk(u)'
    BY <2>1, <2>2 DEF MayAsk
  <2>4. control'.todo # <<>> => user'[f].at = "wait"
    BY <1>1, <1>3, <1>5, <1>7 DEF SerialInv, UsersSound
  <2> QED BY <2>1, <2>2, <2>3, <2>4, <1>2, <1>3, <1>7 DEF SerialInv, UsersSound
<1>9. /\ InOrder(control.todo)'
      /\ \A x \in Left(control.todo)' : x.what \notin {"config", "answer"} => x.port \in Ports
  BY <1>1 DEF SerialInv, StepsSound
<1>10. /\ \A q \in Ports : StepSound(q)
       /\ \A q \in Ports : /\ q \in inUse <=> \E u \in Users : user[u].port = q
                           /\ SerialThen(q) <=> ConfigThen(q) /\ ~InUseThen(q)
                           /\ HandlerThen(q) <=> SerialThen(q)
       /\ \A u, w \in Users : u # w /\ user[u].port # NoPort => user[u].port # user[w].port
       /\ log.serial # NoPort => log.serial \in live /\ log.serial \notin inUse
       /\ log.handler \in {NoPort, log.serial}
       /\ writer \in {NoPort, log.handler}
       /\ live \subseteq inUse \union {log.serial}
       /\ log.serial \in Ports \union {NoPort} /\ inUse \subseteq Ports
  BY DEF SerialInv, SerialTypeOK, UseSound, StepsSound, LogSound, LogRight
<1>11. NoPort \notin Ports
  BY SerialAssumption
<1>12. ASSUME UseSound', \A q \in Ports : StepSound(q)', LogSound', LogRight' PROVE SerialInv'
  BY <1>6, <1>8, <1>9, <1>12 DEF SerialInv, StepsSound
<1>13. CASE k = "config"
  <2>1. /\ \A q : ~Due("free", q) /\ ~Due("grant", q)
        /\ \A q : ~Due("free", q)' /\ ~Due("grant", q)'
        /\ \A q : Due("config", q) <=> q = p
        /\ \A q : ~Due("config", q)'
        /\ \A q : Due("remove", q)' <=> Due("remove", q)
        /\ \A q : Due("close", q)' <=> Due("close", q)
        /\ \A q : Due("open", q)' <=> Due("open", q)
        /\ \A q : Due("add", q)' <=> Due("add", q)
    BY <1>1, <1>13 DEF Later
  <2>2. /\ live' = live
        /\ inUse' = inUse
        /\ log'.config = p
        /\ log'.serial = log.serial
        /\ log'.handler = log.handler
        /\ writer' = writer
        /\ \A u \in Users : user'[u].port = user[u].port
    BY <1>2, <1>5, <1>13
  <2>3. UseSound'
    BY <2>1, <2>2, <1>3, <1>10, <1>11 DEF UseSound, StepSound
  <2>4. \A q \in Ports : StepSound(q)'
    BY <2>1, <2>2, <1>3, <1>7, <1>10, <1>11 DEF StepSound
  <2>5. LogSound'
    BY <2>1, <2>2, <1>3, <1>10, <1>11 DEF LogSound, StepSound, SerialThen, HandlerThen, ConfigThen, InUseThen
  <2>6. LogRight'
    BY <2>1, <2>2, <1>3, <1>10, <1>11 DEF LogRight, StepSound, SerialThen, HandlerThen, ConfigThen, InUseThen
  <2> QED BY <2>3, <2>4, <2>5, <2>6, <1>12
<1>14. CASE k = "remove"
  <2>1. /\ p \in Ports
        /\ \A q : ~Due("config", q) /\ ~Due("free", q)
        /\ \A q : ~Due("config", q)' /\ ~Due("free", q)'
        /\ \A q : Due("remove", q) <=> q = p
        /\ \A q : ~Due("remove", q)'
        /\ \A q : Due("close", q)' <=> Due("close", q)
        /\ \A q : Due("grant", q)' <=> Due("grant", q)
        /\ \A q : Due("open", q)' <=> Due("open", q)
        /\ \A q : Due("add", q)' <=> Due("add", q)
    BY <1>1, <1>14 DEF Later
  <2>2. /\ live' = live
        /\ inUse' = inUse
        /\ log'.config = log.config
        /\ log'.serial = log.serial
        /\ log'.handler = NoPort
        /\ writer' = writer
        /\ writer = NoPort
        /\ \A u \in Users : user'[u].port = user[u].port
    BY <1>2, <1>5, <1>14
  <2>3. UseSound'
    BY <2>1, <2>2, <1>3, <1>10, <1>11 DEF UseSound, StepSound
  <2>4. \A q \in Ports : StepSound(q)'
    BY <2>1, <2>2, <1>3, <1>7, <1>10, <1>11 DEF StepSound
  <2>5. LogSound'
    BY <2>1, <2>2, <1>3, <1>10, <1>11 DEF LogSound, StepSound, SerialThen, HandlerThen, ConfigThen, InUseThen
  <2>6. LogRight'
    BY <2>1, <2>2, <1>3, <1>10, <1>11 DEF LogRight, StepSound, SerialThen, HandlerThen, ConfigThen, InUseThen
  <2> QED BY <2>3, <2>4, <2>5, <2>6, <1>12
<1>15. CASE k = "close"
  <2>1. /\ p \in Ports
        /\ \A q : ~Due("config", q) /\ ~Due("remove", q)
        /\ \A q : ~Due("config", q)' /\ ~Due("remove", q)'
        /\ \A q : Due("close", q) <=> q = p
        /\ \A q : ~Due("close", q)'
        /\ \A q : Due("free", q)' <=> Due("free", q)
        /\ \A q : Due("grant", q)' <=> Due("grant", q)
        /\ \A q : Due("open", q)' <=> Due("open", q)
        /\ \A q : Due("add", q)' <=> Due("add", q)
    BY <1>1, <1>15 DEF Later
  <2>2. /\ live' = live \ {p}
        /\ inUse' = inUse
        /\ log'.config = log.config
        /\ log'.serial = IF p = log.serial THEN NoPort ELSE log.serial
        /\ log'.handler = log.handler
        /\ writer' = writer
        /\ \A u \in Users : user'[u].port = user[u].port
    BY <1>2, <1>5, <1>15
  <2>3. UseSound'
    BY <2>1, <2>2, <1>3, <1>10, <1>11 DEF UseSound, StepSound
  <2>4. \A q \in Ports : StepSound(q)'
    BY <2>1, <2>2, <1>3, <1>7, <1>10, <1>11 DEF StepSound
  <2>5. LogSound'
    BY <2>1, <2>2, <1>3, <1>10, <1>11 DEF LogSound, StepSound, SerialThen, HandlerThen, ConfigThen, InUseThen
  <2>6. LogRight'
    BY <2>1, <2>2, <1>3, <1>10, <1>11 DEF LogRight, StepSound, SerialThen, HandlerThen, ConfigThen, InUseThen
  <2> QED BY <2>3, <2>4, <2>5, <2>6, <1>12
<1>16. CASE k = "free"
  <2>1. /\ p \in Ports
        /\ \A q : ~Due("config", q) /\ ~Due("remove", q) /\ ~Due("close", q) /\ ~Due("grant", q)
        /\ \A q : ~Due("config", q)' /\ ~Due("remove", q)' /\ ~Due("close", q)' /\ ~Due("grant", q)'
        /\ \A q : Due("free", q) <=> q = p
        /\ \A q : ~Due("free", q)'
        /\ \A q : Due("open", q)' <=> Due("open", q)
        /\ \A q : Due("add", q)' <=> Due("add", q)
    BY <1>1, <1>16 DEF Later
  <2>2. /\ live' = live
        /\ inUse' = inUse \ {p}
        /\ log'.config = log.config
        /\ log'.serial = log.serial
        /\ log'.handler = log.handler
        /\ writer' = writer
        /\ \A u \in Users : user'[u].port = IF u = f THEN NoPort ELSE user[u].port
    BY <1>2, <1>5, <1>16
  <2>3. UseSound'
    BY <2>1, <2>2, <1>3, <1>10, <1>11 DEF UseSound, StepSound
  <2>4. \A q \in Ports : StepSound(q)'
    BY <2>1, <2>2, <1>3, <1>7, <1>10, <1>11 DEF StepSound
  <2>5. LogSound'
    BY <2>1, <2>2, <1>3, <1>10, <1>11 DEF LogSound, StepSound, SerialThen, HandlerThen, ConfigThen, InUseThen
  <2>6. LogRight'
    BY <2>1, <2>2, <1>3, <1>10, <1>11 DEF LogRight, StepSound, SerialThen, HandlerThen, ConfigThen, InUseThen
  <2> QED BY <2>3, <2>4, <2>5, <2>6, <1>12
<1>17. CASE k = "grant"
  <2>1. /\ p \in Ports
        /\ \A q : ~Due("config", q) /\ ~Due("remove", q) /\ ~Due("close", q) /\ ~Due("free", q) /\ ~Due("open", q) /\ ~Due("add", q)
        /\ \A q : ~Due("config", q)' /\ ~Due("remove", q)' /\ ~Due("close", q)' /\ ~Due("free", q)' /\ ~Due("open", q)' /\ ~Due("add", q)'
        /\ \A q : Due("grant", q) <=> q = p
        /\ \A q : ~Due("grant", q)'
    BY <1>1, <1>17 DEF Later
  <2>2. /\ live' = live
        /\ inUse' = inUse \union {p}
        /\ log'.config = log.config
        /\ log'.serial = log.serial
        /\ log'.handler = log.handler
        /\ writer' = writer
        /\ \A u \in Users : user'[u].port = IF u = f THEN p ELSE user[u].port
    BY <1>2, <1>5, <1>17
  <2>3. UseSound'
    BY <2>1, <2>2, <1>3, <1>10, <1>11 DEF UseSound, StepSound
  <2>4. \A q \in Ports : StepSound(q)'
    BY <2>1, <2>2, <1>3, <1>7, <1>10, <1>11 DEF StepSound
  <2>5. LogSound'
    BY <2>1, <2>2, <1>3, <1>10, <1>11 DEF LogSound, StepSound, SerialThen, HandlerThen, ConfigThen, InUseThen
  <2>6. LogRight'
    BY <2>1, <2>2, <1>3, <1>10, <1>11 DEF LogRight, StepSound, SerialThen, HandlerThen, ConfigThen, InUseThen
  <2> QED BY <2>3, <2>4, <2>5, <2>6, <1>12
<1>18. CASE k = "open"
  <2>1. /\ p \in Ports
        /\ \A q : ~Due("config", q) /\ ~Due("remove", q) /\ ~Due("close", q) /\ ~Due("free", q) /\ ~Due("grant", q)
        /\ \A q : ~Due("config", q)' /\ ~Due("remove", q)' /\ ~Due("close", q)' /\ ~Due("free", q)' /\ ~Due("grant", q)'
        /\ \A q : Due("open", q) <=> q = p
        /\ \A q : ~Due("open", q)'
        /\ \A q : Due("add", q)' <=> Due("add", q)
    BY <1>1, <1>18 DEF Later
  <2>2. /\ live' = live \union {p}
        /\ inUse' = inUse
        /\ log'.config = log.config
        /\ log'.serial = p
        /\ log'.handler = log.handler
        /\ writer' = writer
        /\ \A u \in Users : user'[u].port = user[u].port
    BY <1>2, <1>5, <1>18
  <2>3. UseSound'
    BY <2>1, <2>2, <1>3, <1>10, <1>11 DEF UseSound, StepSound
  <2>4. \A q \in Ports : StepSound(q)'
    BY <2>1, <2>2, <1>3, <1>7, <1>10, <1>11 DEF StepSound
  <2>7. log.serial = NoPort
    BY <2>1, <1>10 DEF StepSound
  <2>8. p \notin inUse
    BY <2>1, <1>10 DEF SerialThen, InUseThen
  <2>5. LogSound'
    <3>1. log.handler = NoPort /\ writer = NoPort /\ live \subseteq inUse \union {NoPort}
      BY <2>7, <1>10
    <3>2. live' \subseteq inUse' \union {p}
      BY <3>1, <2>2, <1>6, <1>11 DEF SerialTypeOK
    <3>3. p \in live' /\ p \notin inUse'
      BY <2>2, <2>8
    <3> QED BY <3>1, <3>2, <3>3, <2>2 DEF LogSound
  <2>6. LogRight'
    BY <2>1, <2>2, <1>3, <1>10, <1>11 DEF LogRight, StepSound, SerialThen, HandlerThen, ConfigThen, InUseThen
  <2> QED BY <2>3, <2>4, <2>5, <2>6, <1>12
<1>19. CASE k = "add"
  <2>1. /\ p \in Ports
        /\ \A q : ~Due("config", q) /\ ~Due("remove", q) /\ ~Due("close", q) /\ ~Due("free", q) /\ ~Due("grant", q) /\ ~Due("open", q)
        /\ \A q : ~Due("config", q)' /\ ~Due("remove", q)' /\ ~Due("close", q)' /\ ~Due("free", q)' /\ ~Due("grant", q)' /\ ~Due("open", q)'
        /\ \A q : Due("add", q) <=> q = p
        /\ \A q : ~Due("add", q)'
    BY <1>1, <1>19 DEF Later
  <2>2. /\ live' = live
        /\ inUse' = inUse
        /\ log'.config = log.config
        /\ log'.serial = log.serial
        /\ log'.handler = p
        /\ writer' = writer
        /\ writer = NoPort
        /\ \A u \in Users : user'[u].port = user[u].port
    BY <1>2, <1>5, <1>19
  <2>3. UseSound'
    BY <2>1, <2>2, <1>3, <1>10, <1>11 DEF UseSound, StepSound
  <2>4. \A q \in Ports : StepSound(q)'
    BY <2>1, <2>2, <1>3, <1>7, <1>10, <1>11 DEF StepSound
  <2>5. LogSound'
    BY <2>1, <2>2, <1>3, <1>10, <1>11 DEF LogSound, StepSound, SerialThen, HandlerThen, ConfigThen, InUseThen
  <2>6. LogRight'
    BY <2>1, <2>2, <1>3, <1>10, <1>11 DEF LogRight, StepSound, SerialThen, HandlerThen, ConfigThen, InUseThen
  <2> QED BY <2>3, <2>4, <2>5, <2>6, <1>12
<1>20. CASE k = "answer"
  <2>1. /\ \A q : ~Due("config", q) /\ ~Due("remove", q) /\ ~Due("close", q) /\ ~Due("free", q) /\ ~Due("grant", q) /\ ~Due("open", q) /\ ~Due("add", q)
        /\ \A q : ~Due("config", q)' /\ ~Due("remove", q)' /\ ~Due("close", q)' /\ ~Due("free", q)' /\ ~Due("grant", q)' /\ ~Due("open", q)' /\ ~Due("add", q)'
    BY <1>1, <1>20 DEF Later
  <2>2. /\ live' = live
        /\ inUse' = inUse
        /\ log'.config = log.config
        /\ log'.serial = log.serial
        /\ log'.handler = log.handler
        /\ writer' = writer
        /\ \A u \in Users : user'[u].port = user[u].port
    BY <1>2, <1>5, <1>20
  <2>3. UseSound'
    BY <2>1, <2>2, <1>3, <1>10, <1>11 DEF UseSound, StepSound
  <2>4. \A q \in Ports : StepSound(q)'
    BY <2>1, <2>2, <1>3, <1>7, <1>10, <1>11 DEF StepSound
  <2>5. LogSound'
    BY <2>1, <2>2, <1>3, <1>10, <1>11 DEF LogSound, StepSound, SerialThen, HandlerThen, ConfigThen, InUseThen
  <2>6. LogRight'
    BY <2>1, <2>2, <1>3, <1>10, <1>11 DEF LogRight, StepSound, SerialThen, HandlerThen, ConfigThen, InUseThen
  <2> QED BY <2>3, <2>4, <2>5, <2>6, <1>12
<1> QED BY <1>13, <1>14, <1>15, <1>16, <1>17, <1>18, <1>19, <1>20 DEF Kinds

(***************************************************************************)
(* The users, the log, and the theorem.                                    *)
(***************************************************************************)
(* What the other steps of the system leave alone. *)
LEMMA OthersKeep ==
  ASSUME SerialInv, UNCHANGED <<inUse, log, control>>, SerialTypeOK', UsersSound',
         \A u \in Users : user'[u].port = user[u].port,
         \A p \in Ports : Due("free", p) /\ p \in live' => p \in live,
         LogSound'
  PROVE  SerialInv'
<1>1. \A w, p : Due(w, p)' <=> Due(w, p)
  BY DEF Due
<1>2. control.from \in Users
  BY DEF SerialInv, SerialTypeOK
<1>3. StepsSound'
  <2>1. \A p \in Ports : StepSound(p)'
    <3> TAKE p \in Ports
    <3>1. StepSound(p)
      BY DEF SerialInv, StepsSound
    <3> QED BY <1>1, <1>2, <3>1 DEF StepSound
  <2> QED BY <2>1 DEF SerialInv, StepsSound
<1>4. UseSound'
  BY DEF SerialInv, UseSound
<1>5. LogRight'
  BY <1>1 DEF SerialInv, LogRight, SerialThen, HandlerThen, ConfigThen, InUseThen
<1> QED BY <1>3, <1>4, <1>5 DEF SerialInv

LEMMA AskKeeps ==
  ASSUME SerialInv, NEW u \in Users, Ask(u)
  PROVE  SerialInv'
<1> DEFINE Asks == [type : {"Acquire", "Release", "IsBusy", "Logging"}, port : Ports \union {NoPort}]
           Records == [at : {"free", "wait"}, port : Ports \union {NoPort}, request : Asks]
<1>1. PICK r \in MayAsk(u) :
        user' = [user EXCEPT ![u] = [at |-> "wait", request |-> r, port |-> user[u].port]]
  BY DEF Ask
<1>2. /\ UNCHANGED <<inUse, live, log, control, writer>> /\ asked' = Append(asked, u)
      /\ user[u].at = "free" /\ Len(asked) < SerialQueue
  BY DEF Ask
<1>3. user \in [Users -> Records]
  BY DEF SerialInv, SerialTypeOK
<1>4. r \in Asks
  <2>1. user[u].port \in Ports \union {NoPort}
    BY <1>3
  <2> QED BY <1>1, <2>1 DEF MayAsk
<1>5. [at |-> "wait", request |-> r, port |-> user[u].port] \in Records
  BY <1>3, <1>4
<1> HIDE DEF Records, Asks
<1>6. user' = [user EXCEPT ![u] = [at |-> "wait", request |-> r, port |-> user[u].port]]
  BY <1>1
<1>7. /\ user' \in [Users -> Records]
      /\ \A w \in Users : /\ user'[w].port = user[w].port
                          /\ user'[w].at = IF w = u THEN "wait" ELSE user[w].at
                          /\ user'[w].request = IF w = u THEN r ELSE user[w].request
  BY <1>3, <1>5, <1>6
<1>8. /\ asked \in Seq(Users) /\ Distinct(asked) /\ Len(asked) \in Nat
      /\ \A w \in Users : Contains(asked, w) =>
           /\ user[w].at = "wait" /\ user[w].request \in MayAsk(w)
           /\ control.todo # <<>> => w # control.from
      /\ control.todo # <<>> => user[control.from].at = "wait"
      /\ control.from \in Users
  BY LenProperties DEF SerialInv, SerialTypeOK, UsersSound
<1>9. ~Contains(asked, u)
  BY <1>2, <1>8
<1>10. /\ asked' \in Seq(Users) /\ Distinct(asked') /\ Len(asked') = Len(asked) + 1
       /\ \A w : Contains(asked', w) <=> Contains(asked, w) \/ w = u
  BY <1>2, <1>8, <1>9, AppendContains, AppendProperties
<1>11. SerialTypeOK'
  BY <1>2, <1>7, <1>8, <1>10, SerialAssumption DEF SerialInv, SerialTypeOK, Records, Asks
<1>12. UsersSound'
  <2>1. \A w \in Users : MayAsk(w)' = MayAsk(w)
    BY <1>7 DEF MayAsk
  <2> QED BY <2>1, <1>1, <1>2, <1>7, <1>8, <1>10 DEF UsersSound
<1>13. LogSound'
  BY <1>2 DEF SerialInv, LogSound
<1> QED BY <1>2, <1>7, <1>11, <1>12, <1>13, OthersKeep

LEMMA UseKeeps ==
  ASSUME SerialInv, NEW u \in Users, UsePort(u)
  PROVE  SerialInv'
<1>1. /\ UNCHANGED <<inUse, log, user, asked, control, writer>>
      /\ user[u].at = "free" /\ user[u].port # NoPort
      /\ live' \subseteq live \union {user[u].port} /\ live \subseteq live' \union {user[u].port}
  BY DEF UsePort
<1>2. user[u].port \in Ports
  BY <1>1 DEF SerialInv, SerialTypeOK
<1>3. user[u].port \in inUse
  BY <1>2 DEF SerialInv, UseSound
<1>4. \A p \in Ports : Due("free", p) => p # user[u].port
  <2> TAKE p \in Ports
  <2>1. Due("free", p) => control.todo # <<>> /\ user[control.from].port = p
    BY NoStep DEF SerialInv, StepsSound, StepSound, Due
  <2>2. control.todo # <<>> => user[control.from].at = "wait" /\ control.from \in Users
    BY DEF SerialInv, UsersSound, SerialTypeOK
  <2>3. control.todo # <<>> => control.from # u
    BY <2>2, <1>1
  <2> QED BY <1>1, <2>1, <2>2, <2>3 DEF SerialInv, UseSound
<1>5. SerialTypeOK'
  BY <1>1, <1>2 DEF SerialInv, SerialTypeOK
<1>6. UsersSound'
  BY <1>1 DEF SerialInv, UsersSound, MayAsk
<1>7. LogSound'
  BY <1>1, <1>3 DEF SerialInv, LogSound
<1> QED BY <1>1, <1>4, <1>5, <1>6, <1>7, OthersKeep

LEMMA LogKeeps ==
  ASSUME SerialInv, LogWrite \/ LogWritten
  PROVE  SerialInv'
<1>1. UNCHANGED <<inUse, live, log, user, asked, control>> /\ writer' \in {NoPort, log.handler}
  BY DEF LogWrite, LogWritten
<1>2. SerialTypeOK'
  BY <1>1 DEF SerialInv, SerialTypeOK
<1>3. UsersSound'
  BY <1>1 DEF SerialInv, UsersSound, MayAsk
<1>4. LogSound'
  BY <1>1 DEF SerialInv, LogSound
<1> QED BY <1>1, <1>2, <1>3, <1>4, OthersKeep

LEMMA SerialStarts == SerialInit => SerialInv
<1> SUFFICES ASSUME SerialInit PROVE SerialInv
  OBVIOUS
<1>1. (CHOOSE u \in Users : TRUE) \in Users
  BY SerialAssumption
<1>2. /\ control.todo = <<>> /\ asked = <<>> /\ inUse = {} /\ live = {} /\ writer = NoPort
      /\ log = [config |-> NoPort, serial |-> NoPort, handler |-> NoPort]
      /\ \A u \in Users : user[u].port = NoPort
  BY DEF SerialInit
<1>3. SerialTypeOK
  BY <1>1, SerialAssumption DEF SerialInit, SerialTypeOK, NoRequest
<1>4. \A w, p : ~Due(w, p)
  BY <1>2, NoStep DEF Due
<1>5. UsersSound
  BY <1>2 DEF UsersSound, Distinct, Contains
<1>6. UseSound
  BY <1>2, SerialAssumption DEF UseSound
<1>7. StepsSound
  BY <1>2, <1>4, NoStep DEF StepsSound, StepSound
<1>8. LogSound
  BY <1>2 DEF LogSound
<1>9. LogRight
  BY <1>2, <1>4, SerialAssumption DEF LogRight, SerialThen, HandlerThen, ConfigThen, InUseThen
<1> QED BY <1>3, <1>5, <1>6, <1>7, <1>8, <1>9 DEF SerialInv

(* The head of the list is due, and nothing that comes before it. *)
LEMMA SerialIsExclusive == SerialInv => PortsExclusive
<1> SUFFICES ASSUME SerialInv PROVE PortsExclusive
  OBVIOUS
<1>1. NoPort \notin Ports /\ log.serial \in Ports \union {NoPort} /\ writer \in Ports \union {NoPort}
  BY SerialAssumption DEF SerialInv, SerialTypeOK
<1>2. writer # NoPort => writer \in live /\ \A u \in Users : user[u].port # writer
  BY <1>1 DEF SerialInv, LogSound, UseSound
<1>3. ASSUME NEW k \in {"open", "grant"}, About(k) PROVE Head(control.todo).port \notin live
  <2>1. control.todo \in Seq(Steps) /\ control.todo # <<>> /\ InOrder(control.todo)
    BY <1>3 DEF SerialInv, SerialTypeOK, StepsSound, About
  <2>2. PICK p \in Ports : Head(control.todo) = Step(k, p)
    <3>1. Head(control.todo) \in Steps /\ Head(control.todo) \in Left(control.todo)
      BY <2>1, HeadTailProperties, TailLeft
    <3>2. Head(control.todo).what = k
      BY <1>3 DEF About
    <3>3. Head(control.todo).port \in Ports
      BY <3>1, <3>2 DEF SerialInv, StepsSound
    <3> QED BY <3>1, <3>2, <3>3 DEF Steps, Step
  <2>3. Due(k, p)
    BY <2>1, <2>2, TailLeft DEF Due
  <2>4. \A q : ~Due("close", q) /\ ~Due("free", q)
    <3>1. \A x \in Left(control.todo) : x = Step(k, p) \/ x.what \in Later[k]
      BY <2>1, <2>2, TailLeft DEF Step
    <3> QED BY <3>1 DEF Due, Step, Later
  <2>5. p \notin inUse /\ p # log.serial
    BY <1>1, <2>3, <2>4
    DEF SerialInv, StepsSound, StepSound, LogRight, SerialThen, InUseThen
  <2>6. Head(control.todo).port = p
    BY <2>2 DEF Step
  <2> QED BY <2>5, <2>6 DEF SerialInv, LogSound
<1>4. \A u, w \in Users : u # w /\ user[u].port # NoPort => user[u].port # user[w].port
  BY DEF SerialInv, UseSound
<1> QED BY <1>2, <1>3, <1>4 DEF PortsExclusive

(* For any ports, users and length of the queue: a port has one user or    *)
(* none, and the log writes only to a port that is initialised and that    *)
(* nobody has acquired, whatever is asked for while it is written          *)
(* (furi_hal_serial_control_thread, furi_hal_serial_control_log_set_handle,*)
(* furi_log_tx).                                                           *)
THEOREM SerialPortsExclusive == SerialSpec => [](SerialTypeOK /\ PortsExclusive)
<1>1. SerialInv /\ [SerialNext]_serialVars => SerialInv'
  <2> SUFFICES ASSUME SerialInv, [SerialNext]_serialVars PROVE SerialInv'
    OBVIOUS
  <2>1. CASE TakeRequest
    BY <2>1, TakeStep
  <2>2. CASE ControlStep
    BY <2>2, ControlKeeps
  <2>3. CASE LogWrite \/ LogWritten
    BY <2>3, LogKeeps
  <2>4. ASSUME NEW u \in Users, Ask(u) PROVE SerialInv'
    BY <2>4, AskKeeps
  <2>5. ASSUME NEW u \in Users, UsePort(u) PROVE SerialInv'
    BY <2>5, UseKeeps
  <2>6. CASE UNCHANGED serialVars
    <3>1. UNCHANGED <<inUse, live, log, user, asked, control, writer>>
      BY <2>6 DEF serialVars
    <3>2. SerialTypeOK' /\ UsersSound' /\ LogSound'
      BY <3>1 DEF SerialInv, SerialTypeOK, UsersSound, LogSound, MayAsk
    <3> QED BY <3>1, <3>2, OthersKeep
  <2> QED BY <2>1, <2>2, <2>3, <2>4, <2>5, <2>6 DEF SerialNext
<1>2. SerialInv => SerialTypeOK
  BY DEF SerialInv
<1> QED BY <1>1, <1>2, SerialStarts, SerialIsExclusive, PTL DEF SerialSpec

(***************************************************************************)
(* The pictures of the CPU.                                                *)
(***************************************************************************)
(* The newest picture lies in the buffer that the DMA does not fill; only  *)
(* until the DMA has moved on, in the one that it filled last.             *)
FrameInv ==
  /\ FrameTypeOK
  /\ channel = "full" => buffers[current] = "whole"
  /\ sync # "high" => channel # "armed"
  /\ ~short => \A b \in 0..1 : Newest(b) =>
       buffers[b] = "whole" /\ (overrun \/ (b = current <=> channel = "idle"))

(* How a new message, and one that is taken, change what is the newest. *)
LEMMA NewestAppend ==
  ASSUME FrameTypeOK, NEW m \in CpuAppMessages, messages' = Append(messages, m), UNCHANGED shownFrame,
         NEW b \in 0..1, Newest(b)'
  PROVE  IF m.type = "NewFrame" THEN b = m.data ELSE Newest(b)
<1>1. /\ messages \in Seq(CpuAppMessages) /\ Len(messages) \in Nat
      /\ DOMAIN messages = 1..Len(messages)
      /\ DOMAIN messages' = 1..Len(messages) + 1
      /\ \A i \in 1..Len(messages) : messages'[i] = messages[i]
      /\ messages'[Len(messages) + 1] = m
  BY AppendProperties, LenProperties DEF FrameTypeOK
<1>2. CASE m.type = "NewFrame"
  <2>1. Len(messages) + 1 \in Frames'
    BY <1>1, <1>2 DEF Frames
  <2>2. PICK i \in Frames' : messages'[i].data = b /\ \A j \in Frames' : j <= i
    BY <2>1 DEF Newest
  <2>3. i \in DOMAIN messages' /\ Len(messages) + 1 <= i
    BY <2>1, <2>2 DEF Frames
  <2>4. i = Len(messages) + 1
    BY <1>1, <2>3
  <2> QED BY <1>1, <1>2, <2>2, <2>4
<1>3. CASE m.type # "NewFrame"
  <2>1. Frames' = Frames
    BY <1>1, <1>3 DEF Frames
  <2>2. \A i \in Frames : messages'[i] = messages[i]
    BY <1>1 DEF Frames
  <2> QED BY <1>3, <2>1, <2>2 DEF Newest
<1> QED BY <1>2, <1>3

LEMMA NewestTail ==
  ASSUME FrameTypeOK, FrameTaken, NEW b \in 0..1, Newest(b)'
  PROVE  Newest(b)
<1>1. /\ messages \in Seq(CpuAppMessages) /\ Len(messages) \in Nat \ {0}
      /\ DOMAIN messages = 1..Len(messages)
      /\ DOMAIN messages' = 1..Len(messages) - 1
      /\ \A i \in 1..Len(messages) - 1 : messages'[i] = messages[i + 1]
      /\ Head(messages) = messages[1]
  <2>1. messages \in Seq(CpuAppMessages) /\ messages # <<>> /\ messages' = Tail(messages)
    BY DEF FrameTypeOK, FrameTaken
  <2> QED BY <2>1, HeadTailProperties, LenProperties, EmptySeq
<1>2. \A i \in 1..Len(messages) - 1 : i \in Frames' <=> i + 1 \in Frames
  BY <1>1 DEF Frames
<1>3. ASSUME NEW i \in Frames', messages'[i].data = b, \A j \in Frames' : j <= i PROVE Newest(b)
  <2>1. i \in 1..Len(messages) - 1 /\ i + 1 \in Frames /\ messages[i + 1].data = b
    BY <1>1, <1>2, <1>3 DEF Frames
  <2>2. ASSUME NEW j \in Frames PROVE j <= i + 1
    <3>1. j \in 1..Len(messages)
      BY <1>1 DEF Frames
    <3>2. CASE j = 1
      BY <2>1, <3>2
    <3>3. CASE j # 1
      <4>1. j - 1 \in 1..Len(messages) - 1 /\ j - 1 + 1 = j
        BY <1>1, <3>1, <3>3
      <4>2. j - 1 \in Frames'
        BY <1>2, <4>1
      <4> QED BY <1>3, <2>1, <3>1, <4>2
    <3> QED BY <3>2, <3>3
  <2> QED BY <2>1, <2>2 DEF Newest
<1>4. ASSUME Frames' = {}, shownFrame' = b PROVE Newest(b)
  <2>1. \A i \in Frames : i = 1
    <3> TAKE i \in Frames
    <3>1. i \in 1..Len(messages)
      BY <1>1 DEF Frames
    <3>2. i # 1 => i - 1 \in 1..Len(messages) - 1 /\ i - 1 + 1 = i
      BY <1>1, <3>1
    <3> QED BY <1>2, <1>4, <3>2
  <2>2. CASE messages[1].type = "NewFrame"
    <3>1. 1 \in Frames /\ messages[1].data = b
      BY <1>1, <1>4, <2>2 DEF Frames, FrameTaken
    <3> QED BY <2>1, <3>1 DEF Newest
  <2>3. CASE messages[1].type # "NewFrame"
    <3>1. Frames = {} /\ shownFrame = b
      BY <1>1, <1>4, <2>1, <2>3 DEF Frames, FrameTaken
    <3> QED BY <3>1 DEF Newest
  <2> QED BY <2>2, <2>3
<1> QED BY <1>3, <1>4 DEF Newest

LEMMA FrameStarts ==
  ASSUME buffers = [b \in 0..1 |-> "new"], current = 0, channel = "armed", sync = "high",
         messages = <<>>, shownFrame = NoFrame, short = FALSE, overrun = FALSE
  PROVE  FrameInv
<1>1. FrameTypeOK
  BY FrameAssumption DEF FrameTypeOK
<1>2. \A b \in 0..1 : ~Newest(b)
  BY FrameAssumption DEF Newest, Frames
<1> QED BY <1>1, <1>2 DEF FrameInv

LEMMA FrameStep == FrameInv /\ [FrameNext]_frameVars => FrameInv'
<1> SUFFICES ASSUME FrameInv, [FrameNext]_frameVars PROVE FrameInv'
  OBVIOUS
<1>1. /\ buffers \in [0..1 -> {"new", "part", "whole"}] /\ current \in 0..1
      /\ channel \in {"armed", "filling", "full", "idle"} /\ sync \in {"low", "rising", "high"}
      /\ messages \in Seq(CpuAppMessages) /\ Len(messages) <= FrameQueue /\ Len(messages) \in Nat
      /\ shownFrame \in {0, 1, NoFrame} /\ short \in BOOLEAN /\ overrun \in BOOLEAN
      /\ FrameQueue \in Nat
      /\ channel = "full" => buffers[current] = "whole"
      /\ sync # "high" => channel # "armed"
      /\ ~short => \A b \in 0..1 : Newest(b) =>
           buffers[b] = "whole" /\ (overrun \/ (b = current <=> channel = "idle"))
  BY LenProperties, FrameAssumption DEF FrameInv, FrameTypeOK
<1>2. UNCHANGED <<messages, shownFrame>> => \A b \in 0..1 : Newest(b)' <=> Newest(b)
  BY DEF Newest, Frames
<1>3. CASE FrameBegins
  BY <1>1, <1>2, <1>3 DEF FrameBegins, FrameInv, FrameTypeOK
<1>4. CASE FrameFilled
  BY <1>1, <1>2, <1>4 DEF FrameFilled, FrameInv, FrameTypeOK
<1>5. CASE FrameEnds
  BY <1>1, <1>2, <1>5 DEF FrameEnds, FrameInv, FrameTypeOK
<1>6. CASE NextBuffer
  <2>1. current' \in 0..1 /\ current' # current
    <3>1. current' = (current + 1) % 2 /\ current \in {0, 1}
      BY <1>1, <1>6 DEF NextBuffer
    <3>2. CASE current = 0
      BY <3>1, <3>2
    <3>3. CASE current = 1
      BY <3>1, <3>3
    <3> QED BY <3>1, <3>2, <3>3
  <2>2. /\ channel' = "armed" /\ sync = "rising" /\ channel # "full" /\ sync' = "high"
        /\ short' = (short \/ channel = "filling")
        /\ UNCHANGED <<buffers, messages, shownFrame, overrun>>
    BY <1>6 DEF NextBuffer
  <2>3. FrameTypeOK'
    BY <1>1, <2>1, <2>2 DEF FrameTypeOK
  <2>4. ASSUME ~short', NEW b \in 0..1, Newest(b)' PROVE buffers[b] = "whole" /\ b # current'
    <3>1. Newest(b) /\ ~short /\ channel \in {"armed", "idle"} /\ ~overrun
      BY <1>1, <1>2, <1>6, <2>2, <2>4 DEF NextBuffer
    <3>2. channel = "idle"
      BY <1>1, <2>2, <3>1
    <3> QED BY <1>1, <2>1, <3>1, <3>2
  <2> QED BY <2>2, <2>3, <2>4 DEF FrameInv
<1>7. CASE FrameReceived /\ Len(messages) < FrameQueue
  <2> DEFINE m == [type |-> "NewFrame", data |-> current]
  <2>1. m \in CpuAppMessages
    BY <1>1 DEF CpuAppMessages
  <2>2. /\ messages' = Append(messages, m) /\ short' = FALSE /\ channel' = "idle" /\ channel = "full"
        /\ UNCHANGED <<buffers, current, sync, shownFrame, overrun>>
    BY <1>7 DEF FrameReceived
  <2>3. m.type = "NewFrame" /\ m.data = current
    OBVIOUS
  <2> HIDE DEF m
  <2>4. messages' \in Seq(CpuAppMessages) /\ Len(messages') <= FrameQueue
    BY <1>1, <1>7, <2>1, <2>2, AppendProperties
  <2>5. \A b \in 0..1 : Newest(b)' => b = current
    BY <2>1, <2>2, <2>3, NewestAppend DEF FrameInv
  <2> QED BY <1>1, <2>2, <2>4, <2>5 DEF FrameInv, FrameTypeOK
<1>8. CASE FrameReceived /\ ~(Len(messages) < FrameQueue)
  BY <1>1, <1>2, <1>8 DEF FrameReceived, FrameInv, FrameTypeOK
<1>9. CASE FrameRequest /\ Len(messages) < FrameQueue
  <2> DEFINE m == [type |-> "Request", data |-> NoFrame]
  <2>1. m \in CpuAppMessages
    BY DEF CpuAppMessages
  <2>2. /\ messages' = Append(messages, m)
        /\ UNCHANGED <<buffers, current, channel, sync, shownFrame, short, overrun>>
    BY <1>9 DEF FrameRequest
  <2>3. m.type # "NewFrame"
    OBVIOUS
  <2> HIDE DEF m
  <2>4. messages' \in Seq(CpuAppMessages) /\ Len(messages') <= FrameQueue
    BY <1>1, <1>9, <2>1, <2>2, AppendProperties
  <2>5. \A b \in 0..1 : Newest(b)' => Newest(b)
    BY <2>1, <2>2, <2>3, NewestAppend DEF FrameInv
  <2> QED BY <1>1, <2>2, <2>4, <2>5 DEF FrameInv, FrameTypeOK
<1>10. CASE FrameRequest /\ ~(Len(messages) < FrameQueue)
  BY <1>1, <1>2, <1>10 DEF FrameRequest, FrameInv, FrameTypeOK
<1>11. CASE FrameTaken
  <2>1. /\ messages # <<>> /\ messages' = Tail(messages)
        /\ shownFrame' = IF Head(messages).type = "NewFrame" THEN Head(messages).data ELSE shownFrame
        /\ UNCHANGED <<buffers, current, channel, sync, short, overrun>>
    BY <1>11 DEF FrameTaken
  <2>2. messages' \in Seq(CpuAppMessages) /\ Len(messages') = Len(messages) - 1
        /\ Head(messages) \in CpuAppMessages
    BY <1>1, <2>1, HeadTailProperties
  <2>3. shownFrame' \in {0, 1, NoFrame}
    BY <1>1, <2>1, <2>2 DEF CpuAppMessages
  <2>4. \A b \in 0..1 : Newest(b)' => Newest(b)
    BY <1>11, NewestTail DEF FrameInv
  <2> QED BY <1>1, <2>1, <2>2, <2>3, <2>4 DEF FrameInv, FrameTypeOK
<1>12. CASE FrameRestart
  <2>1. FrameTypeOK'
    <3>1. messages' = <<>> /\ Len(messages') = 0 /\ messages' \in Seq(CpuAppMessages)
      BY <1>12 DEF FrameRestart
    <3>2. /\ buffers' \in [0..1 -> {"new", "part", "whole"}] /\ current' = 0
          /\ channel' = "armed" /\ sync' = "high" /\ shownFrame' = NoFrame
          /\ short' = FALSE /\ overrun' = FALSE
      BY <1>12 DEF FrameRestart
    <3>3. FrameQueue \in Nat /\ 0 <= FrameQueue
      BY <1>1
    <3>4. Len(messages') <= FrameQueue
      BY <3>1, <3>3
    <3>5. shownFrame' \in {0, 1, NoFrame} /\ current' \in 0..1
      BY <3>2
    <3> QED BY <3>1, <3>2, <3>4, <3>5 DEF FrameTypeOK
  <2>2. \A b \in 0..1 : ~Newest(b)'
    BY <1>12, FrameAssumption DEF FrameRestart, Newest, Frames
  <2> QED BY <2>1, <2>2, <1>12 DEF FrameRestart, FrameInv
<1>13. CASE UNCHANGED frameVars
  BY <1>1, <1>2, <1>13 DEF frameVars, FrameInv, FrameTypeOK
<1> QED BY <1>3, <1>4, <1>5, <1>6, <1>7, <1>8, <1>9, <1>10, <1>11, <1>12, <1>13 DEF FrameNext

(* For any length of the queue: the newest picture that was reported is    *)
(* whole, and stays so, although nothing is copied and nobody waits for    *)
(* the screen; after a frame that was broken off, from the next one on     *)
(* (spi_get_frame_rx_callback, spi_get_frame_callback, cpu_app).           *)
THEOREM NewestIsWhole == FrameSpec => [](FrameTypeOK /\ NewestFrameWhole)
<1>1. FrameInit => FrameInv
  BY FrameStarts DEF FrameInit
<1>2. FrameInv => FrameTypeOK /\ NewestFrameWhole
  BY DEF FrameInv, NewestFrameWhole
<1> QED BY <1>1, <1>2, FrameStep, PTL DEF FrameSpec

(***************************************************************************)
(* The heap.  Rounding.                                                    *)
(***************************************************************************)
LEMMA MultipleSum ==
  ASSUME NEW w \in Nat \ {0}, NEW x \in Nat, NEW y \in Nat, x % w = 0, y % w = 0
  PROVE  (x + y) % w = 0 /\ (x >= y => (x - y) % w = 0)
<1>1. PICK j \in Nat, k \in Nat : x = w * j /\ y = w * k
  <2>1. x = w * (x \div w) /\ x \div w \in Nat
    OBVIOUS
  <2>2. y = w * (y \div w) /\ y \div w \in Nat
    OBVIOUS
  <2> QED BY <2>1, <2>2
<1>2. \A m \in Int : (w * m) % w = 0
  OBVIOUS
<1>3. x + y = w * (j + k) /\ x - y = w * (j - k)
  BY <1>1
<1>4. (w * (j + k)) % w = 0 /\ (w * (j - k)) % w = 0
  <2>1. j + k \in Int /\ j - k \in Int
    OBVIOUS
  <2> QED BY <1>2, <2>1
<1> QED BY <1>3, <1>4

LEMMA UpDown ==
  ASSUME NEW w \in Nat \ {0}, NEW n \in Int
  PROVE  /\ (n + ((w - (n % w)) % w)) % w = 0
         /\ n + ((w - (n % w)) % w) \in Int /\ n + ((w - (n % w)) % w) >= n
         /\ (n - (n % w)) % w = 0 /\ n - (n % w) \in Int /\ n - (n % w) <= n
<1>1. n % w \in 0 .. w - 1 /\ n = (w * (n \div w)) + (n % w) /\ n \div w \in Int
  OBVIOUS
<1>2. \A m \in Int : (w * m) % w = 0
  OBVIOUS
<1>3. n - (n % w) = w * (n \div w)
  BY <1>1
<1>4. CASE n % w = 0
  <2>1. (w - (n % w)) % w = 0
    BY <1>2, <1>4
  <2> QED BY <1>1, <1>2, <1>3, <1>4, <2>1
<1>5. CASE n % w # 0
  <2>1. w - (n % w) \in 0 .. w - 1
    BY <1>1, <1>5
  <2>2. (w - (n % w)) % w = w - (n % w)
    BY <2>1
  <2>3. n + (w - (n % w)) = w * (n \div w + 1)
    BY <1>1
  <2>4. (w * ((n \div w) + 1)) % w = 0 /\ (w * (n \div w)) % w = 0
    <3>1. (n \div w) + 1 \in Int
      BY <1>1
    <3> QED BY <1>1, <1>2, <3>1
  <2>5. n + (w - (n % w)) \in Int /\ n + (w - (n % w)) >= n
        /\ n - (n % w) \in Int /\ n - (n % w) <= n
    BY <1>1
  <2>6. (n + (w - (n % w))) % w = 0 /\ (n - (n % w)) % w = 0
    BY <1>3, <2>3, <2>4
  <2> QED BY <2>2, <2>5, <2>6
<1> QED BY <1>4, <1>5

LEMMA HeapConstants ==
  /\ Alignment \in Nat \ {0} /\ WantedSizes \subseteq Nat \ {0}
  /\ HeaderSize \in Nat \ {0} /\ HeaderSize % Alignment = 0
  /\ HeapStart \in Nat /\ HeapStart % Alignment = 0
  /\ HeapEnd \in Nat /\ HeapEnd % Alignment = 0
  /\ HeapStart + HeaderSize <= HeapEnd
  /\ MinimumBlock = 2 * HeaderSize
  /\ \A n \in WantedSizes :
       Wanted(n) \in Nat /\ Wanted(n) % Alignment = 0 /\ Wanted(n) >= HeaderSize
<1>1. /\ RegionStart \in Nat /\ RegionSize \in Nat /\ Alignment \in Nat \ {0}
      /\ LinkSize \in Nat \ {0} /\ WantedSizes \subseteq Nat \ {0}
  BY HeapAssumption DEF HeapAssumption
<1>2. \A n \in Int : /\ Up(n) % Alignment = 0 /\ Up(n) \in Int /\ Up(n) >= n
                     /\ Down(n) % Alignment = 0 /\ Down(n) \in Int
  BY <1>1, UpDown DEF Up, Down
<1>3. HeaderSize \in Nat \ {0} /\ HeaderSize % Alignment = 0
  BY <1>1, <1>2 DEF HeaderSize
<1>4. HeapStart \in Nat /\ HeapStart % Alignment = 0
  BY <1>1, <1>2 DEF HeapStart
<1>5. HeapEnd \in Int /\ HeapEnd % Alignment = 0
  BY <1>1, <1>2, <1>3 DEF HeapEnd
<1>6. HeapStart + HeaderSize <= HeapEnd
  BY RegionAssumption DEF RegionAssumption
<1>7. HeapEnd \in Nat
  BY <1>3, <1>4, <1>5, <1>6
<1>8. ASSUME NEW n \in WantedSizes
      PROVE  Wanted(n) \in Nat /\ Wanted(n) % Alignment = 0 /\ Wanted(n) >= HeaderSize
  <2>1. n + HeaderSize \in Int /\ n + HeaderSize >= HeaderSize
    BY <1>1, <1>3
  <2> QED BY <1>2, <1>3, <2>1 DEF Wanted
<1> QED BY <1>1, <1>3, <1>4, <1>5, <1>6, <1>7, <1>8 DEF MinimumBlock

(***************************************************************************)
(* Lists of free blocks.                                                   *)
(***************************************************************************)
BlockRecords == [at : Nat, size : Nat]

(* The addresses of the bytes of a block, and of all blocks of a list. *)
Bytes(b) == b.at .. End(b) - 1
Covered(list) == UNION {Bytes(list[i]) : i \in DOMAIN list}

(* Blocks are large enough for their header and keep the alignment.        *)
Piece(b) ==
  /\ b \in BlockRecords /\ b.size >= HeaderSize
  /\ b.at % Alignment = 0 /\ b.size % Alignment = 0

(* In order of address, and no two of them touch. *)
Apart(list) == \A i, j \in DOMAIN list : i < j => End(list[i]) < list[j].at

Pieces(list) == list \in Seq(BlockRecords) /\ \A i \in DOMAIN list : Piece(list[i])

LEMMA PieceTypes ==
  ASSUME NEW b, Piece(b)
  PROVE  /\ b.at \in Nat /\ b.size \in Nat \ {0} /\ End(b) \in Nat /\ b.at < End(b)
         /\ End(b) = b.at + b.size
         /\ b.at \in Bytes(b) /\ \A x : x \in Bytes(b) <=> x \in Nat /\ b.at <= x /\ x < End(b)
BY HeapConstants DEF Piece, BlockRecords, End, Bytes

LEMMA CoveredBytes ==
  ASSUME NEW list, NEW x
  PROVE  x \in Covered(list) <=> \E i \in DOMAIN list : x \in Bytes(list[i])
BY DEF Covered

LEMMA ApartBytes ==
  ASSUME NEW b, NEW c, Piece(b), Piece(c), End(b) < c.at
  PROVE  \A x : ~(x \in Bytes(b) /\ x \in Bytes(c))
<1>1. SUFFICES ASSUME NEW x, x \in Bytes(b), x \in Bytes(c) PROVE FALSE
  OBVIOUS
<1>2. x \in Nat /\ x < End(b) /\ End(b) \in Nat
  BY <1>1, PieceTypes
<1>3. c.at <= x /\ c.at \in Nat
  BY <1>1, PieceTypes
<1> QED BY <1>2, <1>3

(* What is at each place of a list from which a piece was replaced.        *)
LEMMA SplicedElements ==
  ASSUME NEW S, NEW s \in Seq(S), NEW new \in Seq(S),
         NEW i \in 1..(Len(s) + 1), NEW j \in (i - 1)..Len(s)
  PROVE  /\ Spliced(s, i, new, j) \in Seq(S)
         /\ Len(Spliced(s, i, new, j)) = (i - 1) + Len(new) + (Len(s) - j)
         /\ \A n \in 1..(i - 1) : Spliced(s, i, new, j)[n] = s[n]
         /\ \A n \in 1..Len(new) : Spliced(s, i, new, j)[(i - 1) + n] = new[n]
         /\ \A n \in 1..(Len(s) - j) : Spliced(s, i, new, j)[(i - 1) + Len(new) + n] = s[j + n]
<1> DEFINE u == SubSeq(s, 1, i - 1)
           v == SubSeq(s, j + 1, Len(s))
           w == u \o new
           r == w \o v
<1>1. Len(s) \in Nat /\ Len(new) \in Nat /\ i \in Nat /\ j \in Nat
      /\ i - 1 \in Nat /\ i - 1 <= j /\ j <= Len(s) /\ \A n \in 1..Len(s) : s[n] \in S
  BY ElementOfSeq, LenProperties
<1>2. /\ u \in Seq(S) /\ Len(u) = i - 1
      /\ \A n \in 1..(i - 1) : u[n] = s[n]
  <2>1. 1 <= (i - 1) + 1 /\ \A n \in 1..(i - 1) : s[n] \in S
    BY <1>1
  <2> QED BY <1>1, <2>1, SubSeqProperties
<1>3. /\ v \in Seq(S) /\ Len(v) = Len(s) - j
      /\ \A n \in 1..(Len(s) - j) : v[n] = s[j + n]
  BY <1>1, SubSeqProperties
<1> HIDE DEF u, v
<1>4. /\ w \in Seq(S) /\ Len(w) = (i - 1) + Len(new)
      /\ \A n \in 1..(i - 1) : w[n] = s[n]
      /\ \A n \in 1..Len(new) : w[(i - 1) + n] = new[n]
  <2>1. /\ w \in Seq(S) /\ Len(w) = Len(u) + Len(new)
        /\ \A n \in 1..(Len(u) + Len(new)) :
             w[n] = IF n <= Len(u) THEN u[n] ELSE new[n - Len(u)]
    BY <1>2, ConcatProperties
  <2>2. ASSUME NEW n \in 1..(i - 1) PROVE w[n] = s[n]
    <3>1. n \in 1..(Len(u) + Len(new)) /\ n <= Len(u)
      BY <1>1, <1>2
    <3> QED BY <1>2, <2>1, <3>1
  <2>3. ASSUME NEW n \in 1..Len(new) PROVE w[(i - 1) + n] = new[n]
    <3>1. (i - 1) + n \in 1..(Len(u) + Len(new)) /\ ~((i - 1) + n <= Len(u))
          /\ ((i - 1) + n) - Len(u) = n
      BY <1>1, <1>2
    <3> QED BY <2>1, <3>1
  <2> QED BY <1>2, <2>1, <2>2, <2>3
<1> HIDE DEF w
<1>5. /\ r \in Seq(S) /\ Len(r) = (i - 1) + Len(new) + (Len(s) - j)
      /\ \A n \in 1..((i - 1) + Len(new)) : r[n] = w[n]
      /\ \A n \in 1..(Len(s) - j) : r[(i - 1) + Len(new) + n] = v[n]
  <2>1. /\ r \in Seq(S) /\ Len(r) = Len(w) + Len(v)
        /\ \A n \in 1..(Len(w) + Len(v)) :
             r[n] = IF n <= Len(w) THEN w[n] ELSE v[n - Len(w)]
    <3>1. w \in Seq(S) /\ v \in Seq(S)
      BY <1>3, <1>4
    <3> QED BY <3>1, ConcatProperties, Zenon
  <2>2. ASSUME NEW n \in 1..((i - 1) + Len(new)) PROVE r[n] = w[n]
    <3>1. n \in 1..(Len(w) + Len(v)) /\ n <= Len(w)
      BY <1>1, <1>3, <1>4
    <3> QED BY <2>1, <3>1
  <2>3. ASSUME NEW n \in 1..(Len(s) - j) PROVE r[(i - 1) + Len(new) + n] = v[n]
    <3>1. (i - 1) + Len(new) + n \in 1..(Len(w) + Len(v))
          /\ ~((i - 1) + Len(new) + n <= Len(w))
          /\ ((i - 1) + Len(new) + n) - Len(w) = n
      BY <1>1, <1>3, <1>4
    <3> QED BY <2>1, <3>1
  <2> QED BY <1>3, <1>4, <2>1, <2>2, <2>3
<1> HIDE DEF r
<1>6. Spliced(s, i, new, j) = r
  BY DEF Spliced, r, w, u, v
<1>7. /\ \A n \in 1..(i - 1) : r[n] = s[n]
      /\ \A n \in 1..Len(new) : r[(i - 1) + n] = new[n]
  <2>1. ASSUME NEW n \in 1..(i - 1) PROVE r[n] = s[n]
    <3>1. n \in 1..((i - 1) + Len(new))
      BY <1>1
    <3> QED BY <1>4, <1>5, <3>1
  <2>2. ASSUME NEW n \in 1..Len(new) PROVE r[(i - 1) + n] = new[n]
    <3>1. (i - 1) + n \in 1..((i - 1) + Len(new))
      BY <1>1
    <3> QED BY <1>4, <1>5, <3>1
  <2> QED BY <2>1, <2>2
<1>8. \A n \in 1..(Len(s) - j) : r[(i - 1) + Len(new) + n] = s[j + n]
  BY <1>3, <1>5
<1> QED BY <1>5, <1>6, <1>7, <1>8, Zenon

(* A set of places has a smallest one. *)
LEMMA MinOfPlaces ==
  ASSUME NEW S, S \subseteq Nat, S # {}
  PROVE  Min(S) \in S /\ \A i \in S : Min(S) <= i
<1>1. \E k \in S : \A i \in S : k <= i
  <2>1. CASE 0 \in S
    <3>1. \A i \in S : 0 <= i
      OBVIOUS
    <3> QED BY <2>1, <3>1
  <2>2. CASE 0 \notin S
    <3>1. S \subseteq Nat \ {0}
      BY <2>2
    <3> QED BY <3>1, FirstPlace
  <2> QED BY <2>1, <2>2
<1> QED BY <1>1 DEF Min

(* Blocks that are apart and follow each other are in order of address.    *)
LEMMA ListOrder ==
  ASSUME NEW list, Pieces(list), Apart(list)
  PROVE  /\ Len(list) \in Nat /\ DOMAIN list = 1..Len(list)
         /\ list \in Seq(BlockRecords)
         /\ \A i \in 1..Len(list) : Piece(list[i])
         /\ \A i, j \in 1..Len(list) :
              i < j => End(list[i]) < list[j].at /\ list[i].at < list[j].at
<1>1. Len(list) \in Nat /\ DOMAIN list = 1..Len(list) /\ list \in Seq(BlockRecords)
      /\ \A i \in 1..Len(list) : Piece(list[i])
  BY LenProperties DEF Pieces
<1>2. ASSUME NEW i \in 1..Len(list), NEW j \in 1..Len(list), i < j
      PROVE  End(list[i]) < list[j].at /\ list[i].at < list[j].at
  <2>1. Piece(list[i]) /\ Piece(list[j]) /\ End(list[i]) < list[j].at
    BY <1>1, <1>2 DEF Apart
  <2>2. list[i].at \in Nat /\ End(list[i]) \in Nat /\ list[i].at < End(list[i])
        /\ list[j].at \in Nat
    BY <2>1, PieceTypes
  <2> QED BY <2>1, <2>2
<1> QED BY <1>1, <1>2

(* Leaving out some blocks leaves the others as they are.                  *)
LEMMA WithoutBlocks ==
  ASSUME NEW list, Pieces(list), Apart(list), NEW i \in 1..Len(list)
  PROVE  /\ Pieces(Spliced(list, i, <<>>, i)) /\ Apart(Spliced(list, i, <<>>, i))
         /\ Covered(Spliced(list, i, <<>>, i)) = Covered(list) \ Bytes(list[i])
<1>00. PICK e \in Seq(BlockRecords) : e = <<>> /\ Len(e) = 0
  <2>1. <<>> \in Seq(BlockRecords)
    OBVIOUS
  <2>2. Len(<<>>) = 0
    OBVIOUS
  <2> QED BY <2>1, <2>2, Zenon
<1> DEFINE r == Spliced(list, i, e, i)
           n == Len(list)
<1>0. n \in Nat /\ DOMAIN list = 1..n /\ list \in Seq(BlockRecords)
      /\ (\A k \in 1..n : Piece(list[k]))
      /\ (\A k, l \in 1..n : k < l => End(list[k]) < list[l].at /\ list[k].at < list[l].at)
  BY ListOrder
<1>1. /\ r \in Seq(BlockRecords)
      /\ Len(r) = (i - 1) + Len(e) + (n - i)
      /\ \A k \in 1..(i - 1) : r[k] = list[k]
      /\ \A k \in 1..Len(e) : r[(i - 1) + k] = e[k]
      /\ \A k \in 1..(n - i) : r[(i - 1) + Len(e) + k] = list[i + k]
  <2>1. i \in 1..(Len(list) + 1) /\ i \in (i - 1)..Len(list)
    BY <1>0
  <2>2. list \in Seq(BlockRecords)
    BY <1>0
  <2> QED BY <2>1, <2>2, SplicedElements, ZenonT(60)
<1>2. Len(e) = 0
  BY <1>00
<1> HIDE DEF r, n
<1>3. Len(r) = n - 1 /\ DOMAIN r = 1..(n - 1) /\ i \in 1..n
  <2>1. i \in 1..n
    BY DEF n
  <2> QED BY <1>0, <1>1, <1>2, <2>1, LenProperties
<1>4. \A k \in 1..(n - 1) : r[k] = IF k < i THEN list[k] ELSE list[k + 1]
  <2>1. ASSUME NEW k \in 1..(n - 1), k < i PROVE r[k] = list[k]
    <3>1. k \in 1..(i - 1)
      BY <2>1, <1>3
    <3> QED BY <1>1, <3>1
  <2>2. ASSUME NEW k \in 1..(n - 1), ~(k < i) PROVE r[k] = list[k + 1]
    <3>1. k - (i - 1) \in 1..(n - i) /\ (i - 1) + Len(e) + (k - (i - 1)) = k
          /\ i + (k - (i - 1)) = k + 1
      BY <2>2, <1>0, <1>2, <1>3
    <3> QED BY <1>1, <3>1
  <2> QED BY <2>1, <2>2
<1>5. \A k \in 1..(n - 1) : \E l \in 1..n \ {i} :
        r[k] = list[l] /\ l = IF k < i THEN k ELSE k + 1
  BY <1>0, <1>3, <1>4
<1>6. Pieces(r)
  <2>1. \A k \in 1..(n - 1) : Piece(r[k])
    BY <1>0, <1>5
  <2> QED BY <1>1, <1>3, <2>1 DEF Pieces
<1>7. Apart(r)
  <2>1. ASSUME NEW k \in 1..(n - 1), NEW l \in 1..(n - 1), k < l
        PROVE  End(r[k]) < r[l].at
    <3>1. PICK k2 \in 1..n \ {i} : r[k] = list[k2] /\ k2 = IF k < i THEN k ELSE k + 1
      BY <1>5
    <3>2. PICK l2 \in 1..n \ {i} : r[l] = list[l2] /\ l2 = IF l < i THEN l ELSE l + 1
      BY <1>5
    <3>3. k2 < l2
      BY <2>1, <3>1, <3>2, <1>0, <1>3
    <3> QED BY <1>0, <3>1, <3>2, <3>3
  <2> QED BY <1>3, <2>1 DEF Apart
<1>8. ASSUME NEW x PROVE x \in Covered(r) <=> x \in Covered(list) \ Bytes(list[i])
  <2>1. ASSUME x \in Covered(r) PROVE x \in Covered(list) \ Bytes(list[i])
    <3>1. PICK k \in 1..(n - 1) : x \in Bytes(r[k])
      BY <1>3, <2>1, CoveredBytes
    <3>2. PICK l \in 1..n \ {i} : r[k] = list[l]
      BY <1>5
    <3>3. x \in Bytes(list[l]) /\ x \in Covered(list)
      BY <1>0, <3>1, <3>2, CoveredBytes
    <3>4. x \notin Bytes(list[i])
      <4>1. Piece(list[l]) /\ Piece(list[i])
        BY <1>0, <1>3
      <4>2. CASE i < l
        <5>1. End(list[i]) < list[l].at
          BY <1>0, <1>3, <4>2
        <5> QED BY <3>3, <4>1, <5>1, ApartBytes, Zenon
      <4>3. CASE l < i
        <5>1. End(list[l]) < list[i].at
          BY <1>0, <1>3, <4>3
        <5> QED BY <3>3, <4>1, <5>1, ApartBytes, Zenon
      <4> QED BY <1>3, <4>2, <4>3
    <3> QED BY <3>3, <3>4
  <2>2. ASSUME x \in Covered(list), x \notin Bytes(list[i]) PROVE x \in Covered(r)
    <3>1. PICK l \in 1..n : x \in Bytes(list[l])
      BY <1>0, <2>2, CoveredBytes
    <3>2. l # i
      BY <2>2, <3>1
    <3>3. \E k \in 1..(n - 1) : r[k] = list[l]
      <4>1. CASE l < i
        BY <4>1, <1>3, <1>4, <1>0
      <4>2. CASE l > i
        <5>1. l - 1 \in 1..(n - 1) /\ ~(l - 1 < i) /\ (l - 1) + 1 = l
          BY <4>2, <1>0, <1>3
        <5> QED BY <5>1, <1>4
      <4> QED BY <3>2, <4>1, <4>2, <1>3
    <3> QED BY <1>3, <3>1, <3>3, CoveredBytes
  <2> QED BY <2>1, <2>2
<1>9. Spliced(list, i, <<>>, i) = r
  BY <1>00 DEF r
<1> QED BY <1>6, <1>7, <1>8, <1>9

(* A block that takes the place of those from i to j, and that is apart    *)
(* from the others.                                                        *)
LEMMA ReplacedBlocks ==
  ASSUME NEW list, Pieces(list), Apart(list),
         NEW i \in 1..(Len(list) + 1), NEW j \in (i - 1)..Len(list),
         NEW m, Piece(m),
         \A k \in 1..(i - 1) : End(list[k]) < m.at,
         \A k \in (j + 1)..Len(list) : End(m) < list[k].at
  PROVE  /\ Pieces(Spliced(list, i, <<m>>, j)) /\ Apart(Spliced(list, i, <<m>>, j))
         /\ \A x : x \in Covered(Spliced(list, i, <<m>>, j)) <=>
              x \in Bytes(m) \/ \E k \in 1..Len(list) : x \in Bytes(list[k]) /\ (k < i \/ j < k)
<1>1. PICK e \in Seq(BlockRecords) : e = <<m>> /\ Len(e) = 1 /\ e[1] = m
  <2>1. <<m>> \in Seq(BlockRecords)
    BY DEF Piece
  <2>2. Len(<<m>>) = 1 /\ <<m>>[1] = m
    OBVIOUS
  <2> QED BY <2>1, <2>2, Zenon
<1> DEFINE r == Spliced(list, i, e, j)
           n == Len(list)
<1>2. n \in Nat /\ DOMAIN list = 1..n /\ list \in Seq(BlockRecords)
      /\ (\A k \in 1..n : Piece(list[k]))
      /\ (\A k, l \in 1..n : k < l => End(list[k]) < list[l].at /\ list[k].at < list[l].at)
  BY ListOrder
<1>3. /\ r \in Seq(BlockRecords)
      /\ Len(r) = (i - 1) + Len(e) + (n - j)
      /\ \A k \in 1..(i - 1) : r[k] = list[k]
      /\ \A k \in 1..Len(e) : r[(i - 1) + k] = e[k]
      /\ \A k \in 1..(n - j) : r[(i - 1) + Len(e) + k] = list[j + k]
  <2>1. list \in Seq(BlockRecords)
    BY <1>2
  <2> QED BY <2>1, SplicedElements, ZenonT(60)
<1>4. /\ \A k \in 1..(i - 1) : End(list[k]) < m.at
      /\ \A k \in (j + 1)..n : End(m) < list[k].at
      /\ i \in 1..(n + 1) /\ j \in (i - 1)..n
  OBVIOUS
<1> HIDE DEF r, n
<1>5. Len(r) = i + (n - j) /\ DOMAIN r = 1..(i + (n - j)) /\ i + (n - j) \in Nat
      /\ i \in Nat /\ j \in Int
  BY <1>1, <1>2, <1>3, <1>4, LenProperties
<1>6. /\ \A k \in 1..(i - 1) : r[k] = list[k]
      /\ r[i] = m
      /\ \A k \in (i + 1)..(i + (n - j)) : r[k] = list[(j - i) + k]
  <2>1. r[i] = m
    <3>1. 1 \in 1..Len(e) /\ (i - 1) + 1 = i
      BY <1>1, <1>5
    <3>2. r[(i - 1) + 1] = e[1]
      BY <1>3, <3>1
    <3> QED BY <1>1, <3>1, <3>2
  <2>2. ASSUME NEW k \in (i + 1)..(i + (n - j)) PROVE r[k] = list[(j - i) + k]
    <3>1. k - i \in 1..(n - j) /\ (i - 1) + Len(e) + (k - i) = k /\ j + (k - i) = (j - i) + k
      BY <1>1, <1>2, <1>5
    <3> QED BY <1>3, <3>1
  <2> QED BY <1>3, <2>1, <2>2
<1>7. \A k \in 1..(i - 1) : k \in 1..n /\ k \in 1..(i + (n - j))
  BY <1>2, <1>4, <1>5
<1>8. \A k \in (i + 1)..(i + (n - j)) :
        (j - i) + k \in 1..n /\ (j - i) + k \in (j + 1)..n
  BY <1>2, <1>4, <1>5
<1>9. Pieces(r)
  <2>1. ASSUME NEW k \in 1..(i + (n - j)) PROVE Piece(r[k])
    <3>1. CASE k \in 1..(i - 1)
      BY <1>2, <1>6, <1>7, <3>1
    <3>2. CASE k = i
      BY <1>6, <3>2
    <3>3. CASE k \in (i + 1)..(i + (n - j))
      BY <1>2, <1>6, <1>8, <3>3
    <3>4. k \in 1..(i - 1) \/ k = i \/ k \in (i + 1)..(i + (n - j))
      BY <1>5
    <3> QED BY <3>1, <3>2, <3>3, <3>4
  <2> QED BY <1>3, <1>5, <2>1 DEF Pieces
<1>10. Apart(r)
  <2>1. ASSUME NEW k \in 1..(i + (n - j)), NEW l \in 1..(i + (n - j)), k < l
        PROVE  End(r[k]) < r[l].at
    <3>1. CASE k \in 1..(i - 1) /\ l \in 1..(i - 1)
      <4>1. k \in 1..n /\ l \in 1..n /\ r[k] = list[k] /\ r[l] = list[l]
        BY <1>6, <1>7, <3>1
      <4> QED BY <1>2, <2>1, <4>1
    <3>2. CASE k \in 1..(i - 1) /\ l = i
      BY <1>4, <1>6, <3>2
    <3>3. CASE k \in 1..(i - 1) /\ l \in (i + 1)..(i + (n - j))
      <4>1. k \in 1..n /\ r[k] = list[k] /\ (j - i) + l \in 1..n /\ r[l] = list[(j - i) + l]
        BY <1>6, <1>7, <1>8, <3>3
      <4>2. k < (j - i) + l
        BY <1>4, <1>5, <1>2, <3>3
      <4> QED BY <1>2, <4>1, <4>2
    <3>4. CASE k = i /\ l \in (i + 1)..(i + (n - j))
      <4>1. r[l] = list[(j - i) + l] /\ (j - i) + l \in (j + 1)..n
        BY <1>6, <1>8, <3>4
      <4> QED BY <1>4, <1>6, <3>4, <4>1
    <3>5. CASE k \in (i + 1)..(i + (n - j)) /\ l \in (i + 1)..(i + (n - j))
      <4>1. (j - i) + k \in 1..n /\ r[k] = list[(j - i) + k]
        BY <1>6, <1>8, <3>5
      <4>2. (j - i) + l \in 1..n /\ r[l] = list[(j - i) + l]
        BY <1>6, <1>8, <3>5
      <4>3. (j - i) + k < (j - i) + l
        BY <2>1, <1>5, <3>5
      <4> QED BY <1>2, <4>1, <4>2, <4>3
    <3>6. \/ k \in 1..(i - 1) /\ l \in 1..(i - 1)
          \/ k \in 1..(i - 1) /\ l = i
          \/ k \in 1..(i - 1) /\ l \in (i + 1)..(i + (n - j))
          \/ k = i /\ l \in (i + 1)..(i + (n - j))
          \/ k \in (i + 1)..(i + (n - j)) /\ l \in (i + 1)..(i + (n - j))
      BY <1>5, <2>1
    <3> QED BY <3>1, <3>2, <3>3, <3>4, <3>5, <3>6
  <2> QED BY <1>5, <2>1 DEF Apart
<1>11. ASSUME NEW x
       PROVE  x \in Covered(r) <=>
                (x \in Bytes(m) \/ \E k \in 1..n : x \in Bytes(list[k]) /\ (k < i \/ j < k))
  <2>1. ASSUME x \in Covered(r)
        PROVE  x \in Bytes(m) \/ \E k \in 1..n : x \in Bytes(list[k]) /\ (k < i \/ j < k)
    <3>1. PICK k \in 1..(i + (n - j)) : x \in Bytes(r[k])
      BY <1>5, <2>1, CoveredBytes
    <3>2. CASE k \in 1..(i - 1)
      <4>1. k \in 1..n /\ k < i /\ r[k] = list[k]
        BY <1>5, <1>6, <1>7, <3>2
      <4> QED BY <3>1, <4>1
    <3>3. CASE k = i
      BY <1>6, <3>1, <3>3
    <3>4. CASE k \in (i + 1)..(i + (n - j))
      <4>1. (j - i) + k \in 1..n /\ j < (j - i) + k /\ r[k] = list[(j - i) + k]
        BY <1>5, <1>6, <1>8, <3>4
      <4> QED BY <3>1, <4>1
    <3>5. k \in 1..(i - 1) \/ k = i \/ k \in (i + 1)..(i + (n - j))
      BY <1>5
    <3> QED BY <3>2, <3>3, <3>4, <3>5
  <2>2. ASSUME x \in Bytes(m) PROVE x \in Covered(r)
    <3>1. i \in 1..(i + (n - j))
      BY <1>2, <1>4, <1>5
    <3> QED BY <1>5, <1>6, <2>2, <3>1, CoveredBytes
  <2>3. ASSUME NEW k \in 1..n, x \in Bytes(list[k]), k < i \/ j < k PROVE x \in Covered(r)
    <3>1. CASE k < i
      <4>1. k \in 1..(i - 1) /\ k \in DOMAIN r /\ r[k] = list[k]
        BY <1>5, <1>6, <1>7, <3>1
      <4> QED BY <2>3, <4>1, CoveredBytes
    <3>2. CASE j < k
      <4>1. k - (j - i) \in (i + 1)..(i + (n - j)) /\ (j - i) + (k - (j - i)) = k
        BY <1>2, <1>5, <3>2
      <4>2. k - (j - i) \in DOMAIN r
        BY <1>5, <4>1
      <4>3. r[k - (j - i)] = list[k]
        BY <1>6, <4>1
      <4> QED BY <2>3, <4>2, <4>3, CoveredBytes
    <3> QED BY <2>3, <3>1, <3>2
  <2> QED BY <2>1, <2>2, <2>3
<1>12. Spliced(list, i, <<m>>, j) = r
  BY <1>1 DEF r
<1> QED BY <1>9, <1>10, <1>11, <1>12 DEF n

(* Where a block goes that shares no byte with the list: behind the blocks *)
(* that end before it or at its start, before those that start behind it.  *)
LEMMA BlockPlace ==
  ASSUME NEW list, Pieces(list), Apart(list),
         NEW b, Piece(b), \A x \in Bytes(b) : x \notin Covered(list)
  PROVE  /\ Before(list, b) \in 0..Len(list)
         /\ \A n \in 1..Before(list, b) : End(list[n]) <= b.at
         /\ \A n \in (Before(list, b) + 1)..Len(list) : End(b) <= list[n].at
<1> DEFINE n == Len(list)
           P == {i \in 0..n : i = n \/ list[i + 1].at >= b.at}
           k == Before(list, b)
<1>1. n \in Nat /\ DOMAIN list = 1..n /\ list \in Seq(BlockRecords)
      /\ (\A i \in 1..n : Piece(list[i]))
      /\ (\A i, j \in 1..n : i < j => End(list[i]) < list[j].at /\ list[i].at < list[j].at)
  BY ListOrder
<1>2. k \in P /\ \A i \in P : k <= i
  <2>1. P \subseteq Nat /\ n \in P
    BY <1>1
  <2>2. k = Min(P)
    BY DEF Before
  <2> HIDE DEF P
  <2> QED BY <2>1, <2>2, MinOfPlaces
<1> HIDE DEF k, n
<1>3. k \in 0..n /\ (k = n \/ list[k + 1].at >= b.at)
      /\ \A i \in 0..n : i < k => ~(list[i + 1].at >= b.at)
  BY <1>1, <1>2
<1>4. b.at \in Nat /\ End(b) \in Nat /\ b.at < End(b) /\ b.at \in Bytes(b)
      /\ \A x : x \in Bytes(b) <=> x \in Nat /\ b.at <= x /\ x < End(b)
  BY PieceTypes
<1>5. ASSUME NEW i \in 1..n
      PROVE  /\ list[i].at \in Nat /\ End(list[i]) \in Nat /\ list[i].at < End(list[i])
             /\ \A x \in Nat : list[i].at <= x /\ x < End(list[i]) => x \notin Bytes(b)
             /\ list[i].at \notin Bytes(b)
  <2>1. Piece(list[i])
    BY <1>1
  <2>2. /\ list[i].at \in Nat /\ End(list[i]) \in Nat /\ list[i].at < End(list[i])
        /\ list[i].at \in Bytes(list[i])
        /\ \A x : x \in Bytes(list[i]) <=> x \in Nat /\ list[i].at <= x /\ x < End(list[i])
    BY <2>1, PieceTypes
  <2>3. \A x : x \in Bytes(list[i]) => x \notin Bytes(b)
    BY <1>1, CoveredBytes
  <2> QED BY <2>2, <2>3
<1>6. ASSUME NEW i \in 1..k PROVE End(list[i]) <= b.at
  <2>1. i \in 1..n /\ i - 1 \in 0..n /\ i - 1 < k /\ (i - 1) + 1 = i
    BY <1>1, <1>3
  <2>2. ~(list[i].at >= b.at)
    BY <1>3, <2>1
  <2>3. list[i].at \in Nat /\ End(list[i]) \in Nat
        /\ (list[i].at <= b.at /\ b.at < End(list[i]) => b.at \notin Bytes(b))
    BY <1>4, <1>5, <2>1
  <2> QED BY <1>4, <2>2, <2>3
<1>7. ASSUME NEW i \in (k + 1)..n PROVE End(b) <= list[i].at
  <2>1. k + 1 \in 1..n /\ i \in 1..n /\ k # n
    BY <1>1, <1>3
  <2>2. list[k + 1].at >= b.at /\ list[k + 1].at \in Nat
    BY <1>3, <1>5, <2>1
  <2>3. list[i].at >= b.at /\ list[i].at \in Nat
    <3>1. CASE i = k + 1
      BY <2>2, <3>1
    <3>2. CASE i # k + 1
      <4>1. k + 1 < i
        BY <2>1, <1>3, <1>1, <3>2
      <4>2. list[k + 1].at < list[i].at /\ list[i].at \in Nat
        BY <1>1, <1>5, <2>1, <4>1
      <4> QED BY <1>4, <2>2, <4>2
    <3> QED BY <3>1, <3>2
  <2>4. list[i].at \notin Bytes(b)
    BY <1>5, <2>1
  <2> QED BY <1>4, <2>3, <2>4
<1> QED BY <1>3, <1>6, <1>7 DEF k, n

(* Inserting a block adds its bytes to the list and nothing else, and      *)
(* leaves the list in order and without neighbours that touch              *)
(* (prvInsertBlockIntoFreeList).                                           *)
LEMMA InsertBlockSound ==
  ASSUME NEW list, Pieces(list), Apart(list),
         NEW b, Piece(b), \A x \in Bytes(b) : x \notin Covered(list)
  PROVE  /\ Pieces(InsertBlock(list, b)) /\ Apart(InsertBlock(list, b))
         /\ Covered(InsertBlock(list, b)) = Covered(list) \cup Bytes(b)
<1> DEFINE n == Len(list)
           k == Before(list, b)
           low == k > 0 /\ End(list[k]) = b.at
           high == k < n /\ End(b) = list[k + 1].at
           first == IF low THEN list[k].at ELSE b.at
           last == IF high THEN End(list[k + 1]) ELSE End(b)
           m == [at |-> first, size |-> last - first]
           i == IF low THEN k ELSE k + 1
           j == IF high THEN k + 1 ELSE k
<1>1. n \in Nat /\ DOMAIN list = 1..n /\ list \in Seq(BlockRecords)
      /\ (\A l \in 1..n : Piece(list[l]))
      /\ (\A l, o \in 1..n : l < o => End(list[l]) < list[o].at /\ list[l].at < list[o].at)
  BY ListOrder
<1>2. k \in 0..n
      /\ (\A l \in 1..k : End(list[l]) <= b.at)
      /\ (\A l \in (k + 1)..n : End(b) <= list[l].at)
  BY BlockPlace
<1>3. InsertBlock(list, b) = Spliced(list, i, <<m>>, j)
  BY DEF InsertBlock
<1> HIDE DEF k, n
<1>4. b.at \in Nat /\ End(b) \in Nat /\ b.at < End(b) /\ End(b) = b.at + b.size
      /\ b.size \in Nat /\ b.at % Alignment = 0 /\ b.size % Alignment = 0
      /\ b.size >= HeaderSize
      /\ \A x : x \in Bytes(b) <=> x \in Nat /\ b.at <= x /\ x < End(b)
  BY PieceTypes DEF Piece
<1>5. \A l \in 1..n :
        /\ list[l].at \in Nat /\ End(list[l]) \in Nat /\ list[l].at < End(list[l])
        /\ End(list[l]) = list[l].at + list[l].size /\ list[l].size \in Nat
        /\ list[l].at % Alignment = 0 /\ list[l].size % Alignment = 0
        /\ \A x : x \in Bytes(list[l]) <=> x \in Nat /\ list[l].at <= x /\ x < End(list[l])
  BY <1>1, PieceTypes DEF Piece
<1>6. low => k \in 1..n /\ End(list[k]) = b.at
  BY <1>1, <1>2
<1>7. high => k + 1 \in 1..n /\ End(b) = list[k + 1].at
  BY <1>1, <1>2
<1> HIDE DEF low, high
<1>8. first \in Nat /\ first <= b.at /\ first % Alignment = 0
  BY <1>4, <1>5, <1>6
<1>9. last \in Nat /\ End(b) <= last /\ last % Alignment = 0
  <2>1. HeapStart \in Nat /\ Alignment \in Nat \ {0}
    BY HeapConstants
  <2>2. End(b) % Alignment = 0
    BY <1>4, <2>1, MultipleSum
  <2>3. CASE high
    <3>1. k + 1 \in 1..n /\ End(b) = list[k + 1].at
      BY <1>7, <2>3
    <3>2. list[k + 1].at \in Nat /\ list[k + 1].size \in Nat
          /\ End(list[k + 1]) \in Nat /\ list[k + 1].at < End(list[k + 1])
          /\ End(list[k + 1]) = list[k + 1].at + list[k + 1].size
          /\ list[k + 1].at % Alignment = 0 /\ list[k + 1].size % Alignment = 0
      BY <1>5, <3>1
    <3>3. End(list[k + 1]) % Alignment = 0
      BY <3>2, <2>1, MultipleSum
    <3> QED BY <2>3, <3>1, <3>2, <3>3
  <2>4. CASE ~high
    BY <1>4, <2>2, <2>4
  <2> QED BY <2>3, <2>4
<1>10. Piece(m) /\ m.at = first /\ End(m) = last
  <2> HIDE DEF first, last
  <2>1. last - first \in Nat /\ last - first >= HeaderSize
    BY <1>4, <1>8, <1>9, HeapConstants
  <2>2. last >= first /\ (last - first) % Alignment = 0
    <3>1. last >= first
      BY <1>4, <1>8, <1>9
    <3> QED BY <3>1, <1>8, <1>9, HeapConstants, MultipleSum
  <2>3. first + (last - first) = last
    BY <1>8, <1>9
  <2> QED BY <1>8, <1>9, <2>1, <2>2, <2>3 DEF Piece, BlockRecords, End
<1> HIDE DEF m
<1>11. i \in 1..(n + 1) /\ j \in (i - 1)..n
  BY <1>1, <1>2, <1>6, <1>7
<1>12. ASSUME NEW l \in 1..(i - 1) PROVE End(list[l]) < m.at
  <2>1. CASE low
    <3>1. l \in 1..n /\ l < k /\ k \in 1..n /\ first = list[k].at
      BY <1>1, <1>2, <1>6, <2>1
    <3> QED BY <1>1, <1>10, <3>1
  <2>2. CASE ~low
    <3>1. l \in 1..k /\ l \in 1..n /\ first = b.at
      BY <1>1, <1>2, <2>2
    <3>2. End(list[l]) <= b.at /\ End(list[l]) \in Nat
      BY <1>2, <1>5, <3>1
    <3>3. End(list[l]) # b.at
      <4>1. CASE l = k
        BY <1>1, <1>2, <2>2, <3>1, <4>1 DEF low
      <4>2. CASE l < k
        <5>1. k \in 1..n /\ k \in 1..k
          BY <1>1, <1>2, <3>1
        <5>2. End(list[l]) < list[k].at /\ list[k].at < End(list[k])
              /\ End(list[k]) <= b.at /\ list[k].at \in Nat /\ End(list[k]) \in Nat
          BY <1>1, <1>2, <1>5, <3>1, <4>2, <5>1
        <5> QED BY <1>4, <3>2, <5>2
      <4> QED BY <1>2, <3>1, <4>1, <4>2
    <3> QED BY <1>4, <1>10, <3>1, <3>2, <3>3
  <2> QED BY <2>1, <2>2
<1>13. ASSUME NEW l \in (j + 1)..n PROVE End(m) < list[l].at
  <2>1. CASE high
    <3>1. l \in 1..n /\ k + 1 < l /\ k + 1 \in 1..n /\ last = End(list[k + 1])
      BY <1>1, <1>2, <1>7, <2>1
    <3> QED BY <1>1, <1>10, <3>1
  <2>2. CASE ~high
    <3>1. l \in (k + 1)..n /\ l \in 1..n /\ last = End(b)
      BY <1>1, <1>2, <2>2
    <3>2. End(b) <= list[l].at /\ list[l].at \in Nat
      BY <1>2, <1>5, <3>1
    <3>3. End(b) # list[l].at
      <4>1. CASE l = k + 1
        BY <1>1, <1>2, <2>2, <3>1, <4>1 DEF high
      <4>2. CASE k + 1 < l
        <5>1. k + 1 \in 1..n /\ k + 1 \in (k + 1)..n
          BY <1>1, <1>2, <3>1
        <5>2. End(b) <= list[k + 1].at /\ list[k + 1].at < list[l].at
              /\ list[k + 1].at \in Nat
          BY <1>1, <1>2, <1>5, <3>1, <4>2, <5>1
        <5> QED BY <1>4, <3>2, <5>2
      <4> QED BY <1>2, <3>1, <4>1, <4>2
    <3> QED BY <1>4, <1>10, <3>1, <3>2, <3>3
  <2> QED BY <2>1, <2>2
<1> DEFINE r == Spliced(list, i, <<m>>, j)
<1>14. /\ Pieces(r) /\ Apart(r)
       /\ \A x : x \in Covered(r) <=>
            x \in Bytes(m) \/ \E l \in 1..n : x \in Bytes(list[l]) /\ (l < i \/ j < l)
  <2> HIDE DEF i, j
  <2>1. i \in 1..(Len(list) + 1) /\ j \in (i - 1)..Len(list)
    BY <1>11 DEF n
  <2>2. \A l \in (j + 1)..Len(list) : End(m) < list[l].at
    BY <1>13 DEF n
  <2>3. Piece(m)
    BY <1>10
  <2> HIDE DEF n
  <2> QED BY <1>12, <2>1, <2>2, <2>3, ReplacedBlocks DEF n

<1>15. \A x : x \in Bytes(m) <=> x \in Nat /\ first <= x /\ x < last
  BY <1>10, PieceTypes
<1>16. ASSUME NEW x PROVE x \in Covered(r) <=> x \in Covered(list) \cup Bytes(b)
  <2>1. \A l \in 1..n : x \in Bytes(list[l]) => x \in Covered(list)
    BY <1>1, CoveredBytes
  <2>2. ASSUME x \in Bytes(m) PROVE x \in Covered(list) \cup Bytes(b)
    <3>1. x \in Nat /\ first <= x /\ x < last
      BY <1>15, <2>2
    <3>2. CASE x < b.at
      <4>1. low
        BY <1>4, <3>1, <3>2
      <4>2. k \in 1..n /\ x \in Bytes(list[k])
        <5>1. k \in 1..n /\ End(list[k]) = b.at /\ first = list[k].at
          BY <1>6, <4>1
        <5> QED BY <1>5, <3>1, <3>2, <5>1
      <4> QED BY <2>1, <4>2
    <3>3. CASE x >= End(b)
      <4>1. high
        BY <1>4, <3>1, <3>3
      <4>2. k + 1 \in 1..n /\ x \in Bytes(list[k + 1])
        <5>1. k + 1 \in 1..n /\ End(b) = list[k + 1].at /\ last = End(list[k + 1])
          BY <1>7, <4>1
        <5>2. list[k + 1].at <= x /\ x < End(list[k + 1])
          BY <3>1, <3>3, <5>1
        <5> QED BY <1>5, <3>1, <5>1, <5>2
      <4> QED BY <2>1, <4>2
    <3>4. CASE b.at <= x /\ x < End(b)
      BY <1>4, <3>1, <3>4
    <3> QED BY <1>4, <3>1, <3>2, <3>3, <3>4
  <2>3. ASSUME x \in Covered(r) PROVE x \in Covered(list) \cup Bytes(b)
    BY <1>14, <2>1, <2>2, <2>3
  <2>4. ASSUME x \in Bytes(b) PROVE x \in Covered(r)
    <3>1. x \in Nat /\ b.at <= x /\ x < End(b)
      BY <1>4, <2>4
    <3>2. first <= x /\ x < last
      BY <1>4, <1>8, <1>9, <3>1
    <3> QED BY <1>14, <1>15, <3>1, <3>2
  <2>5. ASSUME x \in Covered(list) PROVE x \in Covered(r)
    <3>1. PICK l \in 1..n : x \in Bytes(list[l])
      BY <1>1, <2>5, CoveredBytes
    <3>2. CASE l < i \/ j < l
      BY <1>14, <3>1, <3>2
    <3>3. CASE ~(l < i \/ j < l)
      <4>1. \/ low /\ l = k
            \/ high /\ l = k + 1
        BY <1>2, <1>11, <3>3
      <4>2. x \in Nat /\ list[l].at <= x /\ x < End(list[l]) /\ list[l].at \in Nat
            /\ End(list[l]) \in Nat
        BY <1>5, <3>1
      <4>3. first <= x /\ x < last
        <5>1. CASE low /\ l = k
          <6>1. first = list[l].at /\ End(list[l]) = b.at
            BY <1>6, <5>1
          <6> QED BY <1>4, <1>9, <4>2, <6>1
        <5>2. CASE high /\ l = k + 1
          <6>1. last = End(list[l]) /\ End(b) = list[l].at
            BY <1>7, <5>2
          <6> QED BY <1>4, <1>8, <4>2, <6>1
        <5> QED BY <4>1, <5>1, <5>2
      <4> QED BY <1>14, <1>15, <4>2, <4>3
    <3> QED BY <3>2, <3>3
  <2> QED BY <2>3, <2>4, <2>5
<1> QED BY <1>3, <1>14, <1>16

(* Bytes of the list that follow each other are bytes of one block: blocks *)
(* that are apart leave a byte between them.                               *)
LEMMA StretchInOneBlock ==
  ASSUME NEW list, Pieces(list), Apart(list),
         NEW a \in Nat, NEW e \in Nat, a < e, \A x \in a .. (e - 1) : x \in Covered(list)
  PROVE  \E i \in DOMAIN list : list[i].at <= a /\ e <= End(list[i])
<1>1. /\ Len(list) \in Nat /\ DOMAIN list = 1..Len(list)
      /\ \A i \in 1..Len(list) : Piece(list[i])
      /\ \A i, j \in 1..Len(list) :
           i < j => End(list[i]) < list[j].at /\ list[i].at < list[j].at
  BY ListOrder
<1>2. a \in a .. (e - 1)
  OBVIOUS
<1>3. PICK i \in 1..Len(list) : a \in Bytes(list[i])
  BY <1>1, <1>2, CoveredBytes
<1>4. list[i].at \in Nat /\ End(list[i]) \in Nat /\ list[i].at <= a /\ a < End(list[i])
  <2>1. Piece(list[i])
    BY <1>1
  <2> QED BY <1>3, <2>1, PieceTypes
<1>5. ASSUME End(list[i]) < e PROVE FALSE
  <2>1. End(list[i]) \in a .. (e - 1)
    BY <1>4, <1>5
  <2>2. PICK l \in 1..Len(list) : End(list[i]) \in Bytes(list[l])
    BY <1>1, <2>1, CoveredBytes
  <2>3. list[l].at \in Nat /\ End(list[l]) \in Nat /\ list[l].at <= End(list[i])
        /\ End(list[i]) < End(list[l])
    <3>1. Piece(list[l])
      BY <1>1
    <3> QED BY <2>2, <3>1, PieceTypes
  <2>4. l # i
    BY <1>4, <2>3
  <2>5. CASE i < l
    <3>1. End(list[i]) < list[l].at
      BY <1>1, <2>5
    <3> QED BY <1>4, <2>3, <3>1
  <2>6. CASE l < i
    <3>1. End(list[l]) < list[i].at
      BY <1>1, <2>6
    <3>2. list[i].at < End(list[i])
      BY <1>4
    <3> QED BY <1>4, <2>3, <3>1, <3>2
  <2> QED BY <2>4, <2>5, <2>6
<1> QED BY <1>1, <1>4, <1>5

(***************************************************************************)
(* The invariant, for a list f and blocks u of the callers.  The list      *)
(* covers exactly the bytes that no caller owns.                           *)
(***************************************************************************)
Block(u, a) == [at |-> a, size |-> u[a]]
Owned(u)    == UNION {Bytes(Block(u, a)) : a \in DOMAIN u}
NotOwned(u) == (HeapStart .. (HeapEnd - 1)) \ Owned(u)

BlocksOK(u) ==
  /\ DOMAIN u \subseteq Nat
  /\ \A a \in DOMAIN u :
       Piece(Block(u, a)) /\ a >= HeapStart /\ a + u[a] <= HeapEnd
  /\ \A a, c \in DOMAIN u : a < c => a + u[a] <= c

ListOK(f, u) == Pieces(f) /\ Apart(f) /\ Covered(f) = NotOwned(u)

CountsOK(u, n, least) ==
  n \in Nat /\ n = Cardinality(NotOwned(u)) /\ least \in Nat /\ least <= n

Room(u, n) ==
  \E a \in HeapStart .. HeapEnd :
    a % Alignment = 0 /\ a .. (a + Wanted(n) - 1) \subseteq NotOwned(u)

RefusalOK(u, n) == n \in WantedSizes \cup {0} /\ (n # 0 => ~Room(u, n))

HeapInv ==
  /\ BlocksOK(used)
  /\ ListOK(free, used)
  /\ CountsOK(used, freeBytes, minEver)
  /\ RefusalOK(used, refused)

LEMMA OwnedBytes ==
  ASSUME NEW u, NEW x
  PROVE  x \in Owned(u) <=> \E a \in DOMAIN u : x \in Bytes(Block(u, a))
BY DEF Owned

LEMMA BlockTypes ==
  ASSUME NEW u, BlocksOK(u), NEW a \in DOMAIN u
  PROVE  /\ a \in Nat /\ u[a] \in Nat \ {0} /\ a >= HeapStart /\ a + u[a] <= HeapEnd
         /\ Piece(Block(u, a)) /\ Block(u, a).at = a /\ Block(u, a).size = u[a]
         /\ End(Block(u, a)) = a + u[a]
         /\ a \in Bytes(Block(u, a))
         /\ \A x : x \in Bytes(Block(u, a)) <=> x \in Nat /\ a <= x /\ x < a + u[a]
<1>1. a \in Nat /\ Piece(Block(u, a)) /\ a >= HeapStart /\ a + u[a] <= HeapEnd
  BY DEF BlocksOK
<1>2. Block(u, a).at = a /\ Block(u, a).size = u[a]
  BY DEF Block
<1> QED BY <1>1, <1>2, PieceTypes

LEMMA NotOwnedFinite ==
  ASSUME NEW u
  PROVE  /\ IsFiniteSet(NotOwned(u)) /\ Cardinality(NotOwned(u)) \in Nat
         /\ NotOwned(u) \subseteq Nat
<1>1. HeapStart \in Int /\ HeapEnd - 1 \in Int /\ HeapStart \in Nat
  BY HeapConstants
<1>2. IsFiniteSet(HeapStart .. (HeapEnd - 1))
  BY <1>1, FS_Interval
<1>3. NotOwned(u) \subseteq HeapStart .. (HeapEnd - 1)
  BY DEF NotOwned
<1>4. IsFiniteSet(NotOwned(u))
  BY <1>2, <1>3, FS_Subset
<1> QED BY <1>1, <1>3, <1>4, FS_CardinalityType

(* The bytes of a block are as many as its size says. *)
LEMMA BytesCounted ==
  ASSUME NEW b, Piece(b)
  PROVE  IsFiniteSet(Bytes(b)) /\ Cardinality(Bytes(b)) = b.size
<1>1. b.at \in Nat /\ b.size \in Nat \ {0} /\ End(b) = b.at + b.size
  BY PieceTypes
<1>2. b.at \in Int /\ End(b) - 1 \in Int /\ ~(b.at > End(b) - 1)
      /\ (End(b) - 1) - b.at + 1 = b.size
  BY <1>1
<1> QED BY <1>2, FS_Interval DEF Bytes

(* A block that a caller gets out of bytes that nobody owns. *)
LEMMA AllocatedBlock ==
  ASSUME NEW u, BlocksOK(u), NEW b, Piece(b), Bytes(b) \subseteq NotOwned(u),
         NEW v, v = [a \in DOMAIN u \cup {b.at} |-> IF a = b.at THEN b.size ELSE u[a]]
  PROVE  /\ BlocksOK(v)
         /\ NotOwned(v) = NotOwned(u) \ Bytes(b)
         /\ Cardinality(NotOwned(v)) = Cardinality(NotOwned(u)) - b.size
         /\ b.size <= Cardinality(NotOwned(u))
<1>1. /\ b.at \in Nat /\ b.size \in Nat \ {0} /\ End(b) \in Nat /\ b.at < End(b)
      /\ End(b) = b.at + b.size /\ b.at \in Bytes(b)
      /\ \A x : x \in Bytes(b) <=> x \in Nat /\ b.at <= x /\ x < End(b)
  BY PieceTypes
<1>2. HeapStart \in Nat /\ HeapEnd \in Nat
  BY HeapConstants
<1>3. \A x \in Bytes(b) : HeapStart <= x /\ x < HeapEnd /\ x \notin Owned(u)
  BY <1>1, <1>2 DEF NotOwned
<1>4. b.at >= HeapStart /\ End(b) <= HeapEnd
  <2>1. End(b) - 1 \in Bytes(b)
    BY <1>1
  <2> QED BY <1>1, <1>2, <1>3, <2>1
<1>5. \A a \in DOMAIN u : \A x \in Bytes(Block(u, a)) : x \notin Bytes(b)
  BY <1>3, OwnedBytes
<1>6. b.at \notin DOMAIN u
  BY <1>1, <1>5, BlockTypes
<1>7. b = [at |-> b.at, size |-> b.size]
  BY DEF Piece, BlockRecords
<1>8. DOMAIN v = DOMAIN u \cup {b.at} /\ v[b.at] = b.size /\ \A a \in DOMAIN u : v[a] = u[a]
  BY <1>6
<1>9. Block(v, b.at) = b /\ \A a \in DOMAIN u : Block(v, a) = Block(u, a)
  BY <1>7, <1>8 DEF Block
<1>10. BlocksOK(v)
  <2>1. DOMAIN v \subseteq Nat
    BY <1>1, <1>8 DEF BlocksOK
  <2>2. ASSUME NEW a \in DOMAIN v
        PROVE  Piece(Block(v, a)) /\ a >= HeapStart /\ a + v[a] <= HeapEnd
    <3>1. CASE a = b.at
      BY <1>1, <1>4, <1>8, <1>9, <3>1
    <3>2. CASE a \in DOMAIN u
      BY <1>8, <1>9, <3>2, BlockTypes
    <3> QED BY <1>8, <3>1, <3>2
  <2>3. ASSUME NEW a \in DOMAIN v, NEW c \in DOMAIN v, a < c PROVE a + v[a] <= c
    <3>1. CASE a \in DOMAIN u /\ c \in DOMAIN u
      BY <1>8, <2>3, <3>1 DEF BlocksOK
    <3>2. CASE a = b.at /\ c \in DOMAIN u
      <4>1. c \in Nat /\ c \in Bytes(Block(u, c))
        BY <3>2, BlockTypes
      <4>2. c \notin Bytes(b)
        BY <1>5, <3>2, <4>1
      <4> QED BY <1>1, <1>8, <2>3, <3>2, <4>1, <4>2
    <3>3. CASE a \in DOMAIN u /\ c = b.at
      <4>1. b.at \notin Bytes(Block(u, a))
        BY <1>1, <1>5, <3>3
      <4>2. a \in Nat /\ u[a] \in Nat
            /\ \A x : x \in Bytes(Block(u, a)) <=> x \in Nat /\ a <= x /\ x < a + u[a]
        BY <3>3, BlockTypes
      <4> QED BY <1>1, <1>8, <2>3, <3>3, <4>1, <4>2
    <3>4. ~(a = b.at /\ c = b.at)
      BY <1>1, <2>3
    <3> QED BY <1>8, <3>1, <3>2, <3>3, <3>4
  <2> QED BY <2>1, <2>2, <2>3 DEF BlocksOK
<1>11. NotOwned(v) = NotOwned(u) \ Bytes(b)
  <2>1. ASSUME NEW x PROVE x \in Owned(v) <=> x \in Owned(u) \/ x \in Bytes(b)
    <3>1. ASSUME x \in Owned(v) PROVE x \in Owned(u) \/ x \in Bytes(b)
      <4>1. PICK a \in DOMAIN v : x \in Bytes(Block(v, a))
        BY <3>1, OwnedBytes
      <4> QED BY <1>8, <1>9, <4>1, OwnedBytes
    <3>2. ASSUME x \in Owned(u) PROVE x \in Owned(v)
      <4>1. PICK a \in DOMAIN u : x \in Bytes(Block(u, a))
        BY <3>2, OwnedBytes
      <4>2. a \in DOMAIN v /\ Block(v, a) = Block(u, a)
        BY <1>8, <1>9
      <4> QED BY <4>1, <4>2, OwnedBytes
    <3>3. ASSUME x \in Bytes(b) PROVE x \in Owned(v)
      <4>1. b.at \in DOMAIN v /\ Block(v, b.at) = b
        BY <1>8, <1>9
      <4> QED BY <3>3, <4>1, OwnedBytes
    <3> QED BY <3>1, <3>2, <3>3
  <2> QED BY <2>1 DEF NotOwned
<1>12. NotOwned(u) \cap Bytes(b) = Bytes(b)
  OBVIOUS
<1>13. IsFiniteSet(NotOwned(u)) /\ IsFiniteSet(Bytes(b)) /\ Cardinality(Bytes(b)) = b.size
  BY NotOwnedFinite, BytesCounted
<1>14. Cardinality(NotOwned(u) \ Bytes(b)) = Cardinality(NotOwned(u)) - b.size
  <2>1. Cardinality(NotOwned(u) \ Bytes(b))
          = Cardinality(NotOwned(u)) - Cardinality(NotOwned(u) \cap Bytes(b))
    BY <1>13, FS_Difference
  <2>2. Cardinality(NotOwned(u) \cap Bytes(b)) = b.size
    BY <1>12, <1>13
  <2> QED BY <2>1, <2>2
<1>15. b.size <= Cardinality(NotOwned(u))
  BY <1>13, FS_Subset
<1> QED BY <1>10, <1>11, <1>14, <1>15

(* A block that a caller gives back. *)
LEMMA FreedBlock ==
  ASSUME NEW u, BlocksOK(u), NEW a \in DOMAIN u,
         NEW v, v = [x \in DOMAIN u \ {a} |-> u[x]]
  PROVE  /\ BlocksOK(v)
         /\ NotOwned(v) = NotOwned(u) \cup Bytes(Block(u, a))
         /\ \A x \in Bytes(Block(u, a)) : x \notin NotOwned(u)
         /\ Cardinality(NotOwned(v)) = Cardinality(NotOwned(u)) + u[a]
<1> DEFINE b == Block(u, a)
<1>1. /\ a \in Nat /\ u[a] \in Nat \ {0} /\ a >= HeapStart /\ a + u[a] <= HeapEnd
      /\ Piece(b) /\ b.size = u[a]
      /\ \A x : x \in Bytes(b) <=> x \in Nat /\ a <= x /\ x < a + u[a]
  BY BlockTypes
<1>2. HeapStart \in Nat /\ HeapEnd \in Nat
  BY HeapConstants
<1>3. DOMAIN v = DOMAIN u \ {a} /\ \A c \in DOMAIN v : v[c] = u[c] /\ Block(v, c) = Block(u, c)
  BY DEF Block
<1>4. BlocksOK(v)
  BY <1>3 DEF BlocksOK
<1>5. ASSUME NEW c \in DOMAIN u, c # a, NEW x, x \in Bytes(b) PROVE x \notin Bytes(Block(u, c))
  <2>1. c \in Nat /\ u[c] \in Nat
        /\ \A y : y \in Bytes(Block(u, c)) <=> y \in Nat /\ c <= y /\ y < c + u[c]
    BY BlockTypes
  <2>2. a + u[a] <= c \/ c + u[c] <= a
    <3>1. a < c \/ c < a
      BY <1>1, <1>5, <2>1
    <3> QED BY <3>1 DEF BlocksOK
  <2>3. x \in Nat /\ a <= x /\ x < a + u[a]
    BY <1>1, <1>5
  <2> QED BY <1>1, <2>1, <2>2, <2>3
<1>6. \A x \in Bytes(b) : x \in Owned(u)
  BY OwnedBytes
<1>7. \A x \in Bytes(b) : x \in HeapStart .. (HeapEnd - 1)
  BY <1>1, <1>2
<1>8. ASSUME NEW x PROVE x \in Owned(v) <=> x \in Owned(u) /\ x \notin Bytes(b)
  <2>1. ASSUME x \in Owned(v) PROVE x \in Owned(u) /\ x \notin Bytes(b)
    <3>1. PICK c \in DOMAIN v : x \in Bytes(Block(v, c))
      BY <2>1, OwnedBytes
    <3>2. c \in DOMAIN u /\ c # a /\ x \in Bytes(Block(u, c))
      BY <1>3, <3>1
    <3>3. x \in Owned(u)
      BY <3>2, OwnedBytes
    <3> QED BY <1>5, <3>2, <3>3
  <2>2. ASSUME x \in Owned(u), x \notin Bytes(b) PROVE x \in Owned(v)
    <3>1. PICK c \in DOMAIN u : x \in Bytes(Block(u, c))
      BY <2>2, OwnedBytes
    <3>2. c \in DOMAIN v /\ Block(v, c) = Block(u, c)
      BY <1>3, <2>2, <3>1
    <3> QED BY <3>1, <3>2, OwnedBytes
  <2> QED BY <2>1, <2>2
<1>9. NotOwned(v) = NotOwned(u) \cup Bytes(b)
  BY <1>7, <1>8 DEF NotOwned
<1>10. \A x \in Bytes(b) : x \notin NotOwned(u)
  BY <1>6 DEF NotOwned
<1>11. NotOwned(u) \cap Bytes(b) = {}
  BY <1>10
<1>12. IsFiniteSet(NotOwned(u)) /\ IsFiniteSet(Bytes(b)) /\ Cardinality(Bytes(b)) = u[a]
       /\ Cardinality(NotOwned(u)) \in Nat
  BY <1>1, NotOwnedFinite, BytesCounted
<1>13. Cardinality({}) = 0
  BY FS_EmptySet
<1>14. Cardinality(NotOwned(u) \cup Bytes(b)) = Cardinality(NotOwned(u)) + u[a]
  <2>1. Cardinality(NotOwned(u) \cup Bytes(b))
          = Cardinality(NotOwned(u)) + Cardinality(Bytes(b)) - Cardinality(NotOwned(u) \cap Bytes(b))
    BY <1>12, FS_Union
  <2> QED BY <1>1, <1>11, <1>12, <1>13, <2>1
<1> QED BY <1>4, <1>9, <1>10, <1>14

(***************************************************************************)
(* The steps of the heap.                                                  *)
(***************************************************************************)

(* The heap as it starts: one free block. *)
LEMMA EmptyHeap ==
  ASSUME NEW f, f = <<[at |-> HeapStart, size |-> HeapEnd - HeapStart]>>,
         NEW u, u = NoBlock
  PROVE  BlocksOK(u) /\ ListOK(f, u) /\ CountsOK(u, HeapEnd - HeapStart, HeapEnd - HeapStart)
<1> DEFINE b == [at |-> HeapStart, size |-> HeapEnd - HeapStart]
<1>1. /\ HeapStart \in Nat /\ HeapEnd \in Nat /\ HeaderSize \in Nat \ {0}
      /\ Alignment \in Nat \ {0}
      /\ HeapStart % Alignment = 0 /\ HeapEnd % Alignment = 0
      /\ HeapStart + HeaderSize <= HeapEnd
  BY HeapConstants
<1>2. /\ HeapEnd - HeapStart \in Nat /\ HeapEnd - HeapStart >= HeaderSize
      /\ HeapEnd >= HeapStart
  BY <1>1
<1>3. (HeapEnd - HeapStart) % Alignment = 0
  BY <1>1, <1>2, MultipleSum
<1>4. Piece(b) /\ b.at = HeapStart
  BY <1>1, <1>2, <1>3 DEF Piece, BlockRecords
<1>5. End(b) = HeapEnd
  BY <1>1, <1>2 DEF End
<1> HIDE DEF b
<1>6. f \in Seq(BlockRecords) /\ DOMAIN f = {1} /\ f[1] = b
  <2>1. b \in BlockRecords
    BY <1>4 DEF Piece
  <2>2. f = <<b>>
    BY DEF b
  <2> QED BY <2>1, <2>2
<1>7. Pieces(f) /\ Apart(f)
  BY <1>4, <1>6 DEF Pieces, Apart
<1>8. Covered(f) = HeapStart .. (HeapEnd - 1)
  BY <1>4, <1>5, <1>6 DEF Covered, Bytes
<1>9. DOMAIN u = {}
  BY DEF NoBlock
<1>10. NotOwned(u) = HeapStart .. (HeapEnd - 1)
  BY <1>9 DEF NotOwned, Owned
<1>11. BlocksOK(u)
  BY <1>9 DEF BlocksOK
<1>12. Cardinality(HeapStart .. (HeapEnd - 1)) = HeapEnd - HeapStart
  <2>1. HeapStart \in Int /\ HeapEnd - 1 \in Int /\ ~(HeapStart > HeapEnd - 1)
        /\ (HeapEnd - 1) - HeapStart + 1 = HeapEnd - HeapStart
    BY <1>1
  <2> QED BY <2>1, FS_Interval
<1>13. CountsOK(u, HeapEnd - HeapStart, HeapEnd - HeapStart)
  BY <1>2, <1>10, <1>12 DEF CountsOK
<1> QED BY <1>7, <1>8, <1>10, <1>11, <1>13 DEF ListOK

LEMMA HeapStarts == HeapInit => HeapInv
<1> SUFFICES ASSUME HeapInit PROVE HeapInv
  OBVIOUS
<1>1. /\ free = <<[at |-> HeapStart, size |-> HeapEnd - HeapStart]>> /\ used = NoBlock
      /\ freeBytes = HeapEnd - HeapStart /\ minEver = HeapEnd - HeapStart /\ refused = 0
  BY DEF HeapInit
<1>2. BlocksOK(used) /\ ListOK(free, used) /\ CountsOK(used, freeBytes, minEver)
  BY <1>1, EmptyHeap
<1> QED BY <1>1, <1>2 DEF HeapInv, RefusalOK

LEMMA RestartKeeps == HeapInv /\ Restart => HeapInv'
<1> SUFFICES ASSUME Restart PROVE HeapInv'
  OBVIOUS
<1>1. /\ free' = <<[at |-> HeapStart, size |-> HeapEnd - HeapStart]>> /\ used' = NoBlock
      /\ freeBytes' = HeapEnd - HeapStart /\ minEver' = HeapEnd - HeapStart /\ refused' = 0
  BY DEF Restart
<1>2. BlocksOK(used') /\ ListOK(free', used') /\ CountsOK(used', freeBytes', minEver')
  BY <1>1, EmptyHeap
<1> QED BY <1>1, <1>2 DEF HeapInv, RefusalOK

(* A block given back joins the bytes that nobody owns, in the list as in  *)
(* the count (vPortFree).                                                  *)
LEMMA FreeKeeps ==
  ASSUME HeapInv, NEW a \in DOMAIN used, Free(a)
  PROVE  HeapInv'
<1> DEFINE b == [at |-> a, size |-> used[a]]
<1>1. BlocksOK(used) /\ Pieces(free) /\ Apart(free) /\ Covered(free) = NotOwned(used)
      /\ freeBytes \in Nat /\ freeBytes = Cardinality(NotOwned(used))
      /\ minEver \in Nat /\ minEver <= freeBytes
  BY DEF HeapInv, ListOK, CountsOK
<1>2. /\ free' = InsertBlock(free, b)
      /\ used' = [x \in DOMAIN used \ {a} |-> used[x]]
      /\ freeBytes' = freeBytes + used[a]
      /\ minEver' = minEver /\ refused' = 0
  BY DEF Free
<1>3. b = Block(used, a)
  BY DEF Block
<1> HIDE DEF b
<1>4. Piece(b) /\ used[a] \in Nat
  BY <1>1, <1>3, BlockTypes
<1>5. /\ BlocksOK(used')
      /\ NotOwned(used') = NotOwned(used) \cup Bytes(b)
      /\ \A x \in Bytes(b) : x \notin NotOwned(used)
      /\ Cardinality(NotOwned(used')) = Cardinality(NotOwned(used)) + used[a]
  BY <1>1, <1>2, <1>3, FreedBlock
<1>6. /\ Pieces(InsertBlock(free, b)) /\ Apart(InsertBlock(free, b))
      /\ Covered(InsertBlock(free, b)) = Covered(free) \cup Bytes(b)
  BY <1>1, <1>4, <1>5, InsertBlockSound
<1>7. ListOK(free', used')
  BY <1>1, <1>2, <1>5, <1>6 DEF ListOK
<1>8. CountsOK(used', freeBytes', minEver')
  BY <1>1, <1>2, <1>4, <1>5 DEF CountsOK
<1> QED BY <1>2, <1>5, <1>7, <1>8 DEF HeapInv, RefusalOK

(* The program gives up only when the list has no room: the bytes of the   *)
(* list that follow each other are in one block, which would have fitted.  *)
LEMMA OutOfMemoryKeeps ==
  ASSUME HeapInv, NEW n \in WantedSizes, OutOfMemory(n)
  PROVE  HeapInv'
<1>1. Pieces(free) /\ Apart(free) /\ Covered(free) = NotOwned(used)
      /\ freeBytes = Cardinality(NotOwned(used))
  BY DEF HeapInv, ListOK, CountsOK
<1>2. /\ free' = free /\ used' = used /\ freeBytes' = freeBytes /\ minEver' = minEver
      /\ refused' = n
      /\ Wanted(n) > freeBytes \/ Fits(n) = {}
  BY DEF OutOfMemory
<1>3. Wanted(n) \in Nat \ {0} /\ HeapStart \in Nat /\ HeapEnd \in Nat
  BY HeapConstants
<1>4. ASSUME Room(used, n) PROVE FALSE
  <2>1. PICK a \in HeapStart .. HeapEnd : a .. (a + Wanted(n) - 1) \subseteq NotOwned(used)
    BY <1>4 DEF Room
  <2>2. a \in Nat /\ a + Wanted(n) \in Nat /\ a < a + Wanted(n)
    BY <1>3
  <2>3. Wanted(n) <= freeBytes
    <3>1. IsFiniteSet(a .. (a + Wanted(n) - 1))
          /\ Cardinality(a .. (a + Wanted(n) - 1)) = Wanted(n)
      <4>1. a \in Int /\ a + Wanted(n) - 1 \in Int /\ ~(a > a + Wanted(n) - 1)
            /\ (a + Wanted(n) - 1) - a + 1 = Wanted(n)
        BY <1>3, <2>2
      <4> QED BY <4>1, FS_Interval
    <3>2. IsFiniteSet(NotOwned(used))
      BY NotOwnedFinite
    <3>3. Cardinality(a .. (a + Wanted(n) - 1)) <= Cardinality(NotOwned(used))
      BY <2>1, <3>2, FS_Subset
    <3> QED BY <1>1, <3>1, <3>3
  <2>4. PICK i \in DOMAIN free : free[i].at <= a /\ a + Wanted(n) <= End(free[i])
    <3>1. ASSUME NEW x \in a .. ((a + Wanted(n)) - 1) PROVE x \in Covered(free)
      <4>1. x \in a .. (a + Wanted(n) - 1)
        BY <1>3, <2>2
      <4>2. x \in NotOwned(used)
        BY <2>1, <4>1
      <4> QED BY <1>1, <4>2
    <3> QED BY <1>1, <2>2, <3>1, StretchInOneBlock
  <2>5. free[i].size >= Wanted(n)
    <3>1. Piece(free[i])
      BY <1>1 DEF Pieces
    <3>2. free[i].at \in Nat /\ free[i].size \in Nat /\ End(free[i]) = free[i].at + free[i].size
      BY <3>1, PieceTypes
    <3> QED BY <1>3, <2>2, <2>4, <3>2
  <2>6. i \in Fits(n)
    BY <2>5 DEF Fits
  <2>7. freeBytes \in Nat
    BY DEF HeapInv, CountsOK
  <2> QED BY <1>2, <1>3, <2>3, <2>6, <2>7
<1>5. RefusalOK(used', refused')
  BY <1>2, <1>4 DEF RefusalOK
<1>6. BlocksOK(used') /\ ListOK(free', used') /\ CountsOK(used', freeBytes', minEver')
  BY <1>2 DEF HeapInv
<1> QED BY <1>5, <1>6 DEF HeapInv

(* A block allocated takes its bytes from one free block; what is left of  *)
(* that one stays in the list or goes to the caller (pvPortMalloc).        *)
LEMMA MallocKeeps ==
  ASSUME HeapInv, NEW n \in WantedSizes, Malloc(n)
  PROVE  HeapInv'
<1> DEFINE i == Min(Fits(n))
           b == free[i]
           rest == Spliced(free, i, << >>, i)
           taken == IF b.size - Wanted(n) > MinimumBlock THEN Wanted(n) ELSE b.size
           cut == [at |-> b.at, size |-> taken]
           left == [at |-> b.at + taken, size |-> b.size - taken]
<1>1. BlocksOK(used) /\ Pieces(free) /\ Apart(free) /\ Covered(free) = NotOwned(used)
      /\ freeBytes \in Nat /\ freeBytes = Cardinality(NotOwned(used))
      /\ minEver \in Nat /\ minEver <= freeBytes
  BY DEF HeapInv, ListOK, CountsOK
<1>2. /\ Fits(n) # {} /\ refused = 0 /\ refused' = refused
      /\ free' = (IF taken = b.size THEN rest ELSE InsertBlock(rest, left))
      /\ used' = [a \in DOMAIN used \cup {b.at} |-> IF a = b.at THEN taken ELSE used[a]]
      /\ freeBytes' = freeBytes - taken
      /\ minEver' = Min({minEver, freeBytes - taken})
  BY DEF Malloc
<1>3. Wanted(n) \in Nat /\ Wanted(n) % Alignment = 0 /\ Wanted(n) >= HeaderSize
      /\ HeaderSize \in Nat \ {0} /\ MinimumBlock = 2 * HeaderSize /\ Alignment \in Nat \ {0}
  BY HeapConstants
<1>4. i \in 1..Len(free) /\ b.size >= Wanted(n) /\ Piece(b)
  <2>1. DOMAIN free = 1..Len(free) /\ Fits(n) \subseteq DOMAIN free
    BY <1>1, ListOrder DEF Fits
  <2>2. Fits(n) \subseteq Nat
    BY <2>1
  <2>3. i \in Fits(n)
    BY <1>2, <2>2, MinOfPlaces
  <2> HIDE DEF i
  <2> QED BY <1>1, <2>1, <2>3 DEF Fits, Pieces
<1> HIDE DEF i
<1>5. /\ Pieces(rest) /\ Apart(rest)
      /\ Covered(rest) = Covered(free) \ Bytes(b)
  BY <1>1, <1>4, WithoutBlocks
<1>6. Bytes(b) \subseteq NotOwned(used)
  <2>1. DOMAIN free = 1..Len(free)
    BY <1>1, ListOrder
  <2> QED BY <1>1, <1>4, <2>1, CoveredBytes
<1> HIDE DEF b, rest
<1>7. /\ b.at \in Nat /\ b.size \in Nat \ {0} /\ End(b) = b.at + b.size
      /\ b.at % Alignment = 0 /\ b.size % Alignment = 0 /\ b.size >= HeaderSize
      /\ \A x : x \in Bytes(b) <=> x \in Nat /\ b.at <= x /\ x < End(b)
  BY <1>4, PieceTypes DEF Piece
<1>8. /\ taken \in Nat /\ taken >= HeaderSize /\ taken <= b.size /\ taken % Alignment = 0
      /\ taken # b.size => b.size - taken > MinimumBlock
  BY <1>3, <1>4, <1>7
<1> HIDE DEF taken
<1>9. Piece(cut) /\ cut.at = b.at /\ cut.size = taken
  BY <1>7, <1>8 DEF Piece, BlockRecords
<1> HIDE DEF cut
<1>10. \A x : x \in Bytes(cut) <=> x \in Nat /\ b.at <= x /\ x < b.at + taken
  <2>1. \A x : x \in Bytes(cut) <=> x \in Nat /\ cut.at <= x /\ x < End(cut)
    BY <1>9, PieceTypes
  <2>2. End(cut) = cut.at + cut.size
    BY DEF End
  <2> QED BY <1>9, <2>1, <2>2
<1>11. \A x \in Bytes(cut) : x \in Bytes(b)
  BY <1>7, <1>8, <1>10
<1>12. /\ BlocksOK(used')
       /\ NotOwned(used') = NotOwned(used) \ Bytes(cut)
       /\ Cardinality(NotOwned(used')) = freeBytes - taken
       /\ taken <= freeBytes
  <2>1. Bytes(cut) \subseteq NotOwned(used)
    BY <1>6, <1>11
  <2>2. used' = [a \in DOMAIN used \cup {cut.at} |-> IF a = cut.at THEN cut.size ELSE used[a]]
    BY <1>2, <1>9
  <2>3. /\ BlocksOK(used')
        /\ NotOwned(used') = NotOwned(used) \ Bytes(cut)
        /\ Cardinality(NotOwned(used')) = Cardinality(NotOwned(used)) - cut.size
        /\ cut.size <= Cardinality(NotOwned(used))
    BY <1>1, <1>9, <2>1, <2>2, AllocatedBlock, Zenon
  <2> QED BY <1>1, <1>9, <2>3
<1>13. ListOK(free', used')
  <2>1. CASE taken = b.size
    <3>1. Bytes(cut) = Bytes(b)
      BY <1>7, <1>10, <2>1
    <3> QED BY <1>1, <1>2, <1>5, <1>12, <2>1, <3>1 DEF ListOK
  <2>2. CASE taken # b.size
    <3>1. b.size - taken \in Nat /\ b.size - taken >= HeaderSize /\ b.size >= taken
          /\ b.at + taken \in Nat
      BY <1>3, <1>7, <1>8, <2>2
    <3>2. (b.at + taken) % Alignment = 0 /\ (b.size - taken) % Alignment = 0
      <4>1. (b.at + taken) % Alignment = 0
        BY <1>3, <1>7, <1>8, MultipleSum
      <4>2. (b.size - taken) % Alignment = 0
        BY <1>3, <1>7, <1>8, <3>1, MultipleSum
      <4> QED BY <4>1, <4>2
    <3>3. Piece(left) /\ left.at = b.at + taken /\ left.size = b.size - taken
      BY <3>1, <3>2 DEF Piece, BlockRecords
    <3> HIDE DEF left
    <3>4. \A x : x \in Bytes(left) <=> x \in Nat /\ b.at + taken <= x /\ x < End(b)
      <4>1. \A x : x \in Bytes(left) <=> x \in Nat /\ left.at <= x /\ x < End(left)
        BY <3>3, PieceTypes
      <4>2. End(left) = End(b)
        BY <1>7, <1>8, <3>3 DEF End
      <4> QED BY <3>3, <4>1, <4>2
    <3>5. \A x : x \in Bytes(b) <=> x \in Bytes(cut) \/ x \in Bytes(left)
      BY <1>7, <1>8, <1>10, <3>4
    <3>6. \A x : ~(x \in Bytes(cut) /\ x \in Bytes(left))
      BY <1>7, <1>8, <1>10, <3>4
    <3>7. \A x \in Bytes(left) : x \notin Covered(rest)
      BY <1>5, <3>5
    <3>8. /\ Pieces(InsertBlock(rest, left)) /\ Apart(InsertBlock(rest, left))
          /\ Covered(InsertBlock(rest, left)) = Covered(rest) \cup Bytes(left)
      BY <1>5, <3>3, <3>7, InsertBlockSound
    <3>9. Covered(rest) \cup Bytes(left) = NotOwned(used) \ Bytes(cut)
      BY <1>1, <1>5, <1>6, <3>5, <3>6
    <3> QED BY <1>2, <1>12, <2>2, <3>8, <3>9 DEF ListOK
  <2> QED BY <2>1, <2>2
<1>14. CountsOK(used', freeBytes', minEver')
  <2>1. freeBytes - taken \in Nat
    BY <1>1, <1>8, <1>12
  <2>2. minEver' \in {minEver, freeBytes - taken} /\ \A k \in {minEver, freeBytes - taken} : minEver' <= k
    <3>1. {minEver, freeBytes - taken} \subseteq Nat
      BY <1>1, <2>1
    <3> QED BY <1>2, <3>1, MinOfPlaces
  <2>3. minEver' \in Nat /\ minEver' <= freeBytes - taken
    BY <1>1, <2>1, <2>2
  <2> QED BY <1>2, <1>12, <2>1, <2>3 DEF CountsOK
<1> QED BY <1>2, <1>12, <1>13, <1>14 DEF HeapInv, RefusalOK

LEMMA HeapNextKeeps == HeapInv /\ [HeapNext]_heapVars => HeapInv'
<1> SUFFICES ASSUME HeapInv, [HeapNext]_heapVars PROVE HeapInv'
  OBVIOUS
<1>1. ASSUME NEW n \in WantedSizes, Malloc(n) \/ OutOfMemory(n) PROVE HeapInv'
  BY <1>1, MallocKeeps, OutOfMemoryKeeps
<1>2. ASSUME NEW a \in DOMAIN used, Free(a) PROVE HeapInv'
  BY <1>2, FreeKeeps
<1>3. CASE Restart
  BY <1>3, RestartKeeps
<1>4. CASE UNCHANGED heapVars
  BY <1>4 DEF heapVars, HeapInv
<1> QED BY <1>1, <1>2, <1>3, <1>4 DEF HeapNext

LEMMA HeapInvImplies == HeapInv => HeapSound
<1> SUFFICES ASSUME HeapInv PROVE HeapSound
  OBVIOUS
<1>1. BlocksOK(used) /\ Pieces(free) /\ Apart(free) /\ Covered(free) = NotOwned(used)
      /\ freeBytes = Cardinality(NotOwned(used)) /\ minEver <= freeBytes
      /\ (refused # 0 => ~Room(used, refused))
  BY DEF HeapInv, ListOK, CountsOK, RefusalOK
<1>2. ASSUME NEW a \in DOMAIN used PROVE Bytes(Block(used, a)) = a .. (a + used[a] - 1)
  <2>1. Block(used, a).at = a /\ Block(used, a).size = used[a]
    BY DEF Block
  <2>2. End(Block(used, a)) = a + used[a]
    BY <2>1 DEF End
  <2>3. a \in Nat /\ used[a] \in Nat
    BY <1>1, BlockTypes
  <2>4. End(Block(used, a)) - 1 = a + used[a] - 1
    BY <2>2, <2>3
  <2> QED BY <2>1, <2>4 DEF Bytes
<1>3. Unowned = NotOwned(used)
  BY <1>2 DEF Unowned, NotOwned, Owned
<1>4. BlocksDisjoint
  <2>1. HeaderSize \in Nat /\ HeaderSize % Alignment = 0 /\ Alignment \in Nat \ {0}
    BY HeapConstants
  <2>2. ASSUME NEW a \in DOMAIN used
        PROVE  /\ a >= HeapStart /\ a + used[a] <= HeapEnd /\ (a + HeaderSize) % Alignment = 0
               /\ \A c \in DOMAIN used : a < c => a + used[a] <= c
    <3>1. a \in Nat /\ a >= HeapStart /\ a + used[a] <= HeapEnd
          /\ Piece(Block(used, a)) /\ Block(used, a).at = a
      BY <1>1, BlockTypes
    <3>2. a % Alignment = 0
      BY <3>1 DEF Piece
    <3>3. (a + HeaderSize) % Alignment = 0
      BY <2>1, <3>1, <3>2, MultipleSum
    <3>4. \A c \in DOMAIN used : a < c => a + used[a] <= c
      BY <1>1 DEF BlocksOK
    <3> QED BY <3>1, <3>3, <3>4
  <2> QED BY <2>2 DEF BlocksDisjoint
<1>5. ListComplete
  <2>1. Len(free) \in Nat /\ DOMAIN free = 1..Len(free)
        /\ \A i, j \in 1..Len(free) : i < j => End(free[i]) < free[j].at
    BY <1>1, ListOrder
  <2>2. ASSUME NEW i \in 1..(Len(free) - 1) PROVE End(free[i]) < free[i + 1].at
    <3>1. i \in 1..Len(free) /\ i + 1 \in 1..Len(free) /\ i < i + 1
      BY <2>1
    <3> QED BY <2>1, <3>1
  <2>3. \A i \in DOMAIN free : free[i].size >= HeaderSize
    BY <1>1 DEF Pieces, Piece
  <2>4. Covered(free) = UNION {free[i].at .. (End(free[i]) - 1) : i \in DOMAIN free}
    BY DEF Covered, Bytes
  <2> QED BY <1>1, <1>3, <2>2, <2>3, <2>4 DEF ListComplete
<1>6. RefusedRightly
  BY <1>1, <1>3 DEF RefusedRightly, Room
<1> QED BY <1>1, <1>3, <1>4, <1>5, <1>6 DEF HeapSound

LEMMA HeapInvTypes == HeapInv => HeapTypeOK
<1> SUFFICES ASSUME HeapInv PROVE HeapTypeOK
  OBVIOUS
<1>1. /\ BlocksOK(used) /\ ListOK(free, used) /\ CountsOK(used, freeBytes, minEver)
      /\ RefusalOK(used, refused)
  BY DEF HeapInv
<1>2. ASSUME NEW a \in DOMAIN used PROVE used[a] \in Nat
  <2>1. Block(used, a) \in BlockRecords
    BY <1>1 DEF BlocksOK, Piece
  <2> QED BY <2>1 DEF Block, BlockRecords
<1>3. free \in Seq([at : Nat, size : Nat])
  BY <1>1 DEF ListOK, Pieces, BlockRecords
<1> QED BY <1>1, <1>2, <1>3 DEF HeapTypeOK, BlocksOK, CountsOK, RefusalOK

(* Whatever callers allocate and free, in whatever order and of whatever   *)
(* sizes, in a heap of any size and alignment: their blocks are aligned,   *)
(* inside the heap and share no byte, the free list holds every byte that  *)
(* is left, in order and with no two blocks that touch, the count agrees,  *)
(* and a request ends the program only when no stretch of free bytes would *)
(* have held it (pvPortMalloc, vPortFree, prvInsertBlockIntoFreeList).     *)
THEOREM HeapIsSound == HeapSpec => [](HeapTypeOK /\ HeapSound)
<1>1. HeapInit => HeapInv
  BY HeapStarts
<1>2. HeapInv /\ [HeapNext]_heapVars => HeapInv'
  BY HeapNextKeeps
<1>3. HeapInv => HeapSound
  BY HeapInvImplies
<1>4. HeapInv => HeapTypeOK
  BY HeapInvTypes
<1> QED BY <1>1, <1>2, <1>3, <1>4, PTL DEF HeapSpec

(***************************************************************************)
(* LEDs.  A line that waits for nothing shows its buffer, or what the      *)
(* transfer has sent of it so far.                                         *)
(***************************************************************************)
Colours == {Off} \cup {m.color : m \in LedMessages}
Colouring == [1..Lines -> [Leds -> Colours]]

LedTypes ==
  /\ ledQueue \in Seq(LedMessages) /\ Len(ledQueue) <= LedQueue
  /\ line \in Colouring /\ shown \in Colouring /\ wanted \in Colouring
  /\ powered \subseteq 1..Lines /\ update \subseteq 1..Lines
  /\ ledPc \in {"wait", "update", "write"}
  /\ busy \in {"free", "sending", "complete", "reset"}
  /\ dma \in [line : 1..Lines, next : 1..(LedsPerLine + 1)]
  /\ place \in [1..Lines -> 1..(LedsPerLine + 1)]

(* Line l shows its buffer; while the DMA sends it, as far as that is.     *)
LineShown(l) ==
  IF busy = "sending" /\ dma.line = l /\ l \in powered
  THEN /\ place[l] = dma.next
       /\ \A k \in Leds : k < dma.next => shown[l][k] = line[l][k]
  ELSE shown[l] = line[l]

LinesSound ==
  /\ busy = "sending" => dma.next \in Leds
  /\ ledPc = "wait" => update = {}
  /\ ledPc = "write" => update # {} /\ Min(update) \in powered
  /\ \A l \in 1..Lines : (busy = "free" \/ l # dma.line) => place[l] = 1
  /\ \A l \in 1..Lines : l \notin update => LineShown(l)

(* The last colour asked for is that of the last message on the queue that *)
(* is about the LED, or else the one in the buffer.                        *)
Awaits(q, l, k, c) ==
  \E i \in DOMAIN q :
    /\ <<l, k>> \in q[i].leds /\ c = q[i].color
    /\ \A j \in DOMAIN q : i < j => <<l, k>> \notin q[j].leds

Untouched(q, l, k) == \A i \in DOMAIN q : <<l, k>> \notin q[i].leds

WantedKnown ==
  \A l \in 1..Lines, k \in Leds :
    \/ Awaits(ledQueue, l, k, wanted[l][k])
    \/ Untouched(ledQueue, l, k) /\ wanted[l][k] = line[l][k]

LedInv == LedTypes /\ LinesSound /\ WantedKnown

LEMMA LedConstants ==
  /\ Lines \in Nat \ {0} /\ LedsPerLine \in Nat \ {0} /\ LedQueue \in Nat \ {0}
  /\ Leds = 1..LedsPerLine /\ Off \in Colours /\ Dark \in [Leds -> Colours]
  /\ AllDark \in Colouring
  /\ \A m \in LedMessages :
       m.color \in Colours /\ m.leds \subseteq (1..Lines) \X Leds
BY LedAssumption DEF LedAssumption, Leds, Colours, Dark, AllDark, Colouring

LEMMA ColouredTypes ==
  ASSUME NEW state \in Colouring, NEW m \in LedMessages
  PROVE  /\ Coloured(state, m) \in Colouring
         /\ \A l \in 1..Lines, k \in Leds :
              Coloured(state, m)[l][k] = IF <<l, k>> \in m.leds THEN m.color ELSE state[l][k]
BY LedConstants DEF Coloured, Colouring

(* Two lines that agree at each LED are the same. *)
LEMMA SameLine ==
  ASSUME NEW x \in [Leds -> Colours], NEW y \in [Leds -> Colours],
         \A k \in Leds : x[k] = y[k]
  PROVE  x = y
OBVIOUS

LEMMA SameColouring ==
  ASSUME NEW x \in Colouring, NEW y \in Colouring, \A l \in 1..Lines : x[l] = y[l]
  PROVE  x = y
<1>1. x = [l \in 1..Lines |-> x[l]] /\ y = [l \in 1..Lines |-> y[l]]
  BY DEF Colouring
<1>2. [l \in 1..Lines |-> x[l]] = [l \in 1..Lines |-> y[l]]
  OBVIOUS
<1> QED BY <1>1, <1>2

LEMMA LedStarts == LedInit => LedInv
<1> SUFFICES ASSUME LedInit PROVE LedInv
  OBVIOUS
<1> USE DEF LedInit
<1>1. LedTypes
  <2>1. <<>> \in Seq(LedMessages) /\ Len(<<>>) = 0
    OBVIOUS
  <2> QED BY <2>1, LedConstants DEF LedTypes
<1>2. LinesSound
  BY LedConstants DEF LinesSound, LineShown, AllDark
<1>3. WantedKnown
  BY DEF WantedKnown, Untouched
<1> QED BY <1>1, <1>2, <1>3 DEF LedInv

(* The next line to send. *)
LEMMA NextLine ==
  ASSUME LedTypes, update # {}
  PROVE  Min(update) \in update /\ Min(update) \in 1..Lines
<1>1. update \subseteq 1..Lines /\ update \subseteq Nat
  BY LedConstants DEF LedTypes
<1> QED BY <1>1, MinOfPlaces

LEMMA LedSendKeeps ==
  ASSUME LedInv, NEW m \in LedMessages, LedSend(m)
  PROVE  LedInv'
<1> USE DEF LedSend
<1>1. LedTypes /\ LinesSound /\ WantedKnown
  BY DEF LedInv
<1>2. /\ Append(ledQueue, m) \in Seq(LedMessages)
      /\ Len(Append(ledQueue, m)) = Len(ledQueue) + 1
      /\ \A i \in 1..Len(ledQueue) : Append(ledQueue, m)[i] = ledQueue[i]
      /\ Append(ledQueue, m)[Len(ledQueue) + 1] = m
      /\ Len(ledQueue) \in Nat /\ ledQueue \in Seq(LedMessages)
  BY <1>1, AppendProperties, LenProperties DEF LedTypes
<1>3. PICK q \in Seq(LedMessages) : q = Append(ledQueue, m)
  BY <1>2
<1>4. /\ ledQueue' = q /\ DOMAIN q = 1..(Len(ledQueue) + 1) /\ DOMAIN ledQueue = 1..Len(ledQueue)
      /\ \A i \in 1..Len(ledQueue) : q[i] = ledQueue[i]
      /\ q[Len(ledQueue) + 1] = m
  BY <1>2, <1>3, LenProperties
<1>5. /\ wanted' \in Colouring
      /\ \A l \in 1..Lines, k \in Leds :
           wanted'[l][k] = IF <<l, k>> \in m.leds THEN m.color ELSE wanted[l][k]
  BY <1>1, ColouredTypes DEF LedTypes
<1>6. LedTypes'
  <2>1. Len(ledQueue') <= LedQueue
    BY <1>2, LedConstants
  <2> QED BY <1>1, <1>2, <1>5, <2>1 DEF LedTypes
<1>7. LinesSound'
  BY <1>1 DEF LinesSound, LineShown
<1>8. WantedKnown'
  <2>1. ASSUME NEW l \in 1..Lines, NEW k \in Leds
        PROVE  \/ Awaits(q, l, k, wanted'[l][k])
               \/ Untouched(q, l, k) /\ wanted'[l][k] = line[l][k]
    <3>1. CASE <<l, k>> \in m.leds
      <4>1. Awaits(q, l, k, m.color)
        <5>1. Len(ledQueue) + 1 \in DOMAIN q
              /\ \A j \in DOMAIN q : ~(Len(ledQueue) + 1 < j)
          BY <1>2, <1>4
        <5> QED BY <1>4, <3>1, <5>1 DEF Awaits
      <4> QED BY <1>5, <3>1, <4>1
    <3>2. CASE <<l, k>> \notin m.leds
      <4>1. \A i \in DOMAIN q :
              \/ (i \in DOMAIN ledQueue /\ q[i] = ledQueue[i])
              \/ (i = Len(ledQueue) + 1 /\ q[i] = m)
        BY <1>2, <1>4
      <4>2. \A i \in DOMAIN ledQueue : i \in DOMAIN q /\ q[i] = ledQueue[i]
        BY <1>2, <1>4
      <4>3. CASE Awaits(ledQueue, l, k, wanted[l][k])
        <5>1. Awaits(q, l, k, wanted[l][k])
          BY <3>2, <4>1, <4>2, <4>3 DEF Awaits
        <5> QED BY <1>5, <3>2, <5>1
      <4>4. CASE Untouched(ledQueue, l, k) /\ wanted[l][k] = line[l][k]
        <5>1. Untouched(q, l, k)
          BY <3>2, <4>1, <4>4 DEF Untouched
        <5> QED BY <1>5, <3>2, <4>4, <5>1
      <4> QED BY <1>1, <4>3, <4>4 DEF WantedKnown
    <3> QED BY <3>1, <3>2
  <2>2. ledQueue' = q /\ line' = line
    BY <1>4
  <2> QED BY <2>1, <2>2 DEF WantedKnown
<1> QED BY <1>6, <1>7, <1>8 DEF LedInv

LEMMA LedTakeKeeps ==
  ASSUME LedInv, LedTake
  PROVE  LedInv'
<1> USE DEF LedTake
<1>1. LedTypes /\ LinesSound /\ WantedKnown
  BY DEF LedInv
<1>2. /\ ledQueue \in Seq(LedMessages) /\ ledQueue # <<>>
      /\ Head(ledQueue) \in LedMessages /\ Tail(ledQueue) \in Seq(LedMessages)
      /\ Len(Tail(ledQueue)) = Len(ledQueue) - 1 /\ Len(ledQueue) \in Nat \ {0}
      /\ \A i \in 1..Len(Tail(ledQueue)) : Tail(ledQueue)[i] = ledQueue[i + 1]
      /\ Head(ledQueue) = ledQueue[1]
  BY <1>1, HeadTailProperties, EmptySeq, LenProperties DEF LedTypes
<1>3. PICK q \in Seq(LedMessages), m \in LedMessages : q = Tail(ledQueue) /\ m = Head(ledQueue)
  BY <1>2
<1>4. /\ ledQueue' = q /\ DOMAIN q = 1..(Len(ledQueue) - 1) /\ DOMAIN ledQueue = 1..Len(ledQueue)
      /\ \A i \in DOMAIN q : q[i] = ledQueue[i + 1]
      /\ ledQueue[1] = m /\ Len(q) = Len(ledQueue) - 1
  BY <1>2, <1>3, LenProperties
<1>5. /\ line' \in Colouring
      /\ \A l \in 1..Lines, k \in Leds :
           line'[l][k] = IF <<l, k>> \in m.leds THEN m.color ELSE line[l][k]
  BY <1>1, <1>3, ColouredTypes DEF LedTypes
<1>6. update' = {c[1] : c \in m.leds} /\ m.leds \subseteq (1..Lines) \X Leds
  BY <1>3, LedConstants
<1>7. LedTypes'
  <2>1. Len(ledQueue') <= LedQueue
    BY <1>1, <1>2, <1>4, LedConstants DEF LedTypes
  <2>2. update' \subseteq 1..Lines
    BY <1>6
  <2> QED BY <1>1, <1>2, <1>5, <2>1, <2>2 DEF LedTypes
<1>8. LinesSound'
  <2>1. ASSUME NEW l \in 1..Lines, l \notin update' PROVE LineShown(l)'
    <3>1. \A k \in Leds : <<l, k>> \notin m.leds
      <4>1. ASSUME NEW k \in Leds, <<l, k>> \in m.leds PROVE FALSE
        <5>1. <<l, k>>[1] \in update'
          BY <1>6, <4>1
        <5> QED BY <2>1, <5>1
      <4> QED BY <4>1
    <3>2. line'[l] \in [Leds -> Colours] /\ line[l] \in [Leds -> Colours]
      BY <1>1, <1>5 DEF LedTypes, Colouring
    <3>3. line'[l] = line[l]
      BY <1>5, <3>1, <3>2, SameLine
    <3>4. LineShown(l)
      BY <1>1 DEF LinesSound
    <3> QED BY <3>3, <3>4 DEF LineShown
  <2> QED BY <1>1, <2>1 DEF LinesSound
<1>9. WantedKnown'
  <2>1. ASSUME NEW l \in 1..Lines, NEW k \in Leds
        PROVE  \/ Awaits(q, l, k, wanted[l][k])
               \/ Untouched(q, l, k) /\ wanted[l][k] = line'[l][k]
    <3>1. \A i \in DOMAIN q : i + 1 \in DOMAIN ledQueue /\ q[i] = ledQueue[i + 1]
      BY <1>2, <1>4
    <3>2. ASSUME Awaits(ledQueue, l, k, wanted[l][k])
          PROVE  \/ Awaits(q, l, k, wanted[l][k])
                 \/ Untouched(q, l, k) /\ wanted[l][k] = line'[l][k]
      <4>1. PICK i \in DOMAIN ledQueue :
              /\ <<l, k>> \in ledQueue[i].leds /\ wanted[l][k] = ledQueue[i].color
              /\ \A j \in DOMAIN ledQueue : i < j => <<l, k>> \notin ledQueue[j].leds
        BY <3>2 DEF Awaits
      <4>2. CASE i = 1
        <5>1. <<l, k>> \in m.leds /\ wanted[l][k] = m.color
          BY <1>4, <4>1, <4>2
        <5>2. Untouched(q, l, k)
          <6>1. \A j \in DOMAIN q : 1 < j + 1
            BY <1>2, <1>4
          <6> QED BY <3>1, <4>1, <4>2, <6>1 DEF Untouched
        <5> QED BY <1>5, <5>1, <5>2
      <4>3. CASE i # 1
        <5>1. i - 1 \in DOMAIN q /\ q[i - 1] = ledQueue[i]
          BY <1>2, <1>4, <4>3
        <5>2. \A j \in DOMAIN q : i - 1 < j => <<l, k>> \notin q[j].leds
          <6>1. \A j \in DOMAIN q : i - 1 < j => i < j + 1
            BY <1>2, <1>4
          <6> QED BY <3>1, <4>1, <6>1
        <5> QED BY <4>1, <5>1, <5>2 DEF Awaits
      <4> QED BY <4>2, <4>3
    <3>3. ASSUME Untouched(ledQueue, l, k), wanted[l][k] = line[l][k]
          PROVE  Untouched(q, l, k) /\ wanted[l][k] = line'[l][k]
      <4>1. 1 \in DOMAIN ledQueue
        BY <1>2, <1>4
      <4>2. <<l, k>> \notin m.leds
        BY <1>4, <3>3, <4>1 DEF Untouched
      <4> QED BY <1>5, <3>1, <3>3, <4>2 DEF Untouched
    <3> QED BY <1>1, <3>2, <3>3 DEF WantedKnown
  <2>2. ledQueue' = q /\ wanted' = wanted
    BY <1>4
  <2> QED BY <2>1, <2>2 DEF WantedKnown
<1> QED BY <1>7, <1>8, <1>9 DEF LedInv

LEMMA LedPowerKeeps ==
  ASSUME LedInv, LedPower
  PROVE  LedInv'
<1> DEFINE l == Min(update)
<1>1. LedTypes /\ LinesSound /\ WantedKnown
  BY DEF LedInv
<1>2. ledPc = "update" /\ update # {} /\ l \in update /\ l \in 1..Lines
  BY <1>1, NextLine DEF LedPower
<1>3. /\ UNCHANGED <<ledQueue, line, busy, dma, wanted>>
      /\ line[l] = Dark => /\ powered' = powered \ {l}
                           /\ update' = update \ {l}
                           /\ shown' = [shown EXCEPT ![l] = Dark]
                           /\ place' = [place EXCEPT ![l] = 1]
                           /\ ledPc' = ledPc
      /\ line[l] # Dark => /\ powered' = powered \cup {l}
                           /\ ledPc' = "write"
                           /\ update' = update /\ shown' = shown /\ place' = place
  BY DEF LedPower
<1>4. WantedKnown'
  BY <1>1, <1>3 DEF WantedKnown
<1> HIDE DEF l
<1>5. CASE line[l] = Dark
  <2>1. /\ powered' = powered \ {l} /\ update' = update \ {l} /\ ledPc' = "update"
        /\ shown' = [shown EXCEPT ![l] = Dark] /\ place' = [place EXCEPT ![l] = 1]
    BY <1>2, <1>3, <1>5
  <2>2. /\ shown' \in Colouring /\ place' \in [1..Lines -> 1..(LedsPerLine + 1)]
        /\ shown'[l] = line[l] /\ place'[l] = 1
        /\ \A k \in 1..Lines : k # l => shown'[k] = shown[k] /\ place'[k] = place[k]
    BY <1>1, <1>2, <1>5, <2>1, LedConstants DEF LedTypes, Colouring
  <2>3. LedTypes'
    BY <1>1, <1>3, <2>1, <2>2 DEF LedTypes
  <2>4. ASSUME NEW k \in 1..Lines, k \notin update' PROVE LineShown(k)'
    <3>1. CASE k = l
      BY <1>3, <2>1, <2>2, <3>1 DEF LineShown
    <3>2. CASE k # l
      <4>1. LineShown(k)
        BY <1>1, <2>1, <2>4, <3>2 DEF LinesSound
      <4>2. (k \in powered') <=> (k \in powered)
        BY <2>1, <3>2
      <4> QED BY <1>3, <2>2, <3>2, <4>1, <4>2 DEF LineShown
    <3> QED BY <3>1, <3>2
  <2>5. \A k \in 1..Lines : (busy' = "free" \/ k # dma'.line) => place'[k] = 1
    BY <1>1, <1>3, <2>2 DEF LinesSound
  <2>6. LinesSound'
    BY <1>1, <1>3, <2>1, <2>4, <2>5 DEF LinesSound
  <2> QED BY <1>4, <2>3, <2>6 DEF LedInv
<1>6. CASE line[l] # Dark
  <2>1. /\ powered' = powered \cup {l} /\ ledPc' = "write"
        /\ update' = update /\ shown' = shown /\ place' = place
    BY <1>3, <1>6
  <2>2. LedTypes'
    BY <1>1, <1>2, <1>3, <2>1 DEF LedTypes
  <2>3. ASSUME NEW k \in 1..Lines, k \notin update' PROVE LineShown(k)'
    <3>1. LineShown(k) /\ k # l
      BY <1>1, <1>2, <2>1, <2>3 DEF LinesSound
    <3>2. (k \in powered') <=> (k \in powered)
      BY <2>1, <3>1
    <3> QED BY <1>3, <2>1, <3>1, <3>2 DEF LineShown
  <2>4. update' # {} /\ Min(update') \in powered'
    BY <1>2, <2>1 DEF l
  <2>5. LinesSound'
    BY <1>1, <1>3, <2>1, <2>3, <2>4 DEF LinesSound
  <2> QED BY <1>4, <2>2, <2>5 DEF LedInv
<1> QED BY <1>5, <1>6

LEMMA LedWriteKeeps ==
  ASSUME LedInv, LedWrite
  PROVE  LedInv'
<1> DEFINE l == Min(update)
<1>1. LedTypes /\ LinesSound /\ WantedKnown
  BY DEF LedInv
<1>2. /\ ledPc = "write" /\ busy = "free"
      /\ busy' = "sending" /\ dma' = [line |-> l, next |-> 1]
      /\ update' = update \ {l} /\ ledPc' = "update"
      /\ UNCHANGED <<ledQueue, line, powered, shown, place, wanted>>
  BY DEF LedWrite
<1>3. update # {} /\ l \in powered
  BY <1>1, <1>2 DEF LinesSound
<1>4. l \in update /\ l \in 1..Lines
  BY <1>1, <1>3, NextLine
<1> HIDE DEF l
<1>5. dma' \in [line : 1..Lines, next : 1..(LedsPerLine + 1)]
      /\ dma'.line = l /\ dma'.next = 1 /\ 1 \in Leds
  BY <1>2, <1>4, LedConstants
<1>6. LedTypes'
  BY <1>1, <1>2, <1>5 DEF LedTypes
<1>7. ASSUME NEW k \in 1..Lines, k \notin update' PROVE LineShown(k)'
  <2>1. CASE k = l
    <3>1. place[l] = 1
      BY <1>1, <1>2, <1>4 DEF LinesSound
    <3>2. \A i \in Leds : ~(i < 1)
      BY LedConstants
    <3> QED BY <1>2, <1>3, <1>5, <2>1, <3>1, <3>2 DEF LineShown
  <2>2. CASE k # l
    <3>1. LineShown(k)
      BY <1>1, <1>2, <1>7, <2>2 DEF LinesSound
    <3> QED BY <1>2, <1>5, <2>2, <3>1 DEF LineShown
  <2> QED BY <2>1, <2>2
<1>8. LinesSound'
  BY <1>1, <1>2, <1>5, <1>7 DEF LinesSound
<1>9. WantedKnown'
  BY <1>1, <1>2 DEF WantedKnown
<1> QED BY <1>6, <1>8, <1>9 DEF LedInv

(* A word is taken by the LED that it is meant for: a line with power that *)
(* waits for nothing has taken all words since the transfer began.         *)
LEMMA DmaWordKeeps ==
  ASSUME LedInv, DmaWord
  PROVE  LedInv'
<1> DEFINE l == dma.line
           p == place[l]
<1>1. LedTypes /\ LinesSound /\ WantedKnown
  BY DEF LedInv
<1>2. /\ busy = "sending"
      /\ UNCHANGED <<ledQueue, line, powered, ledPc, update, wanted>>
      /\ dma' = [dma EXCEPT !.next = @ + 1]
      /\ busy' = IF dma.next = LedsPerLine THEN "complete" ELSE "sending"
      /\ (l \in powered /\ p \in Leds) =>
           /\ shown' = [shown EXCEPT ![l][p] = line[l][dma.next]]
           /\ place' = [place EXCEPT ![l] = p + 1]
      /\ ~(l \in powered /\ p \in Leds) => shown' = shown /\ place' = place
  BY DEF DmaWord
<1>3. l \in 1..Lines /\ p \in 1..(LedsPerLine + 1) /\ dma.next \in Leds /\ LedsPerLine \in Nat \ {0}
      /\ Leds = 1..LedsPerLine
  BY <1>1, <1>2, LedConstants DEF LedTypes, LinesSound
<1>4. dma' \in [line : 1..Lines, next : 1..(LedsPerLine + 1)]
      /\ dma'.line = l /\ dma'.next = dma.next + 1
  BY <1>1, <1>2, <1>3 DEF LedTypes
<1> HIDE DEF l, p
<1>5. /\ shown' \in Colouring /\ place' \in [1..Lines -> 1..(LedsPerLine + 1)]
      /\ \A k \in 1..Lines : k # l => shown'[k] = shown[k] /\ place'[k] = place[k]
  <2>1. CASE l \in powered /\ p \in Leds
    <3>1. line[l][dma.next] \in Colours /\ shown \in [1..Lines -> [Leds -> Colours]]
      BY <1>1, <1>3 DEF LedTypes, Colouring
    <3>2. p + 1 \in 1..(LedsPerLine + 1)
      BY <1>3, <2>1
    <3>3. shown' \in Colouring
      <4>1. [shown[l] EXCEPT ![p] = line[l][dma.next]] \in [Leds -> Colours]
        BY <1>3, <3>1
      <4> QED BY <1>2, <1>3, <2>1, <3>1, <4>1 DEF Colouring
    <3>4. place' \in [1..Lines -> 1..(LedsPerLine + 1)]
      BY <1>1, <1>2, <2>1, <3>2 DEF LedTypes
    <3>5. \A k \in 1..Lines : k # l => shown'[k] = shown[k] /\ place'[k] = place[k]
      BY <1>1, <1>2, <2>1, <3>1 DEF LedTypes
    <3> QED BY <3>3, <3>4, <3>5
  <2>2. CASE ~(l \in powered /\ p \in Leds)
    BY <1>1, <1>2, <2>2 DEF LedTypes
  <2> QED BY <2>1, <2>2
<1>6. LedTypes'
  BY <1>1, <1>2, <1>4, <1>5 DEF LedTypes
<1>7. (busy' = "sending" => dma'.next \in Leds) /\ busy' # "free" /\ busy' \in {"sending", "complete"}
  BY <1>2, <1>3, <1>4
<1>8. ASSUME NEW k \in 1..Lines, k \notin update' PROVE LineShown(k)'
  <2>1. LineShown(k)
    BY <1>1, <1>2, <1>8 DEF LinesSound
  <2>2. CASE k # l
    <3>1. shown[k] = line[k]
      BY <2>1, <2>2 DEF LineShown, l
    <3> QED BY <1>2, <1>4, <1>5, <2>2, <3>1 DEF LineShown
  <2>3. CASE k = l /\ l \notin powered
    <3>1. shown[k] = line[k] /\ shown' = shown
      BY <1>2, <2>1, <2>3 DEF LineShown
    <3> QED BY <1>2, <2>3, <3>1 DEF LineShown
  <2>4. CASE k = l /\ l \in powered
    <3>1. p = dma.next /\ p \in Leds /\ \A i \in Leds : i < p => shown[l][i] = line[l][i]
      BY <1>2, <1>3, <2>1, <2>4 DEF LineShown, l, p
    <3>2. shown' = [shown EXCEPT ![l][p] = line[l][p]] /\ place' = [place EXCEPT ![l] = p + 1]
      BY <1>2, <2>4, <3>1
    <3>3. place'[l] = p + 1 /\ shown'[l] = [shown[l] EXCEPT ![p] = line[l][p]]
      BY <1>1, <1>3, <3>2 DEF LedTypes, Colouring
    <3>4. shown[l] \in [Leds -> Colours] /\ line[l] \in [Leds -> Colours]
      BY <1>1, <1>3 DEF LedTypes, Colouring
    <3>5. \A i \in Leds : i < p + 1 => shown'[l][i] = line[l][i]
      <4>1. ASSUME NEW i \in Leds, i < p + 1 PROVE shown'[l][i] = line[l][i]
        <5>1. i = p \/ i < p
          BY <1>3, <4>1
        <5>2. shown'[l][i] = IF i = p THEN line[l][p] ELSE shown[l][i]
          BY <3>3, <3>4
        <5> QED BY <3>1, <5>1, <5>2
      <4> QED BY <4>1
    <3>6. CASE dma.next # LedsPerLine
      BY <1>2, <1>4, <2>4, <3>1, <3>3, <3>5, <3>6 DEF LineShown
    <3>7. CASE dma.next = LedsPerLine
      <4>1. \A i \in Leds : shown'[l][i] = line[l][i]
        BY <1>3, <3>1, <3>5, <3>7
      <4>2. shown'[l] = line[l]
        BY <3>3, <3>4, <4>1
      <4> QED BY <1>2, <2>4, <3>7, <4>2 DEF LineShown
    <3> QED BY <3>6, <3>7
  <2> QED BY <2>2, <2>3, <2>4
<1>9. \A k \in 1..Lines : (busy' = "free" \/ k # dma'.line) => place'[k] = 1
  BY <1>1, <1>4, <1>5, <1>7 DEF LinesSound, l
<1>10. LinesSound'
  BY <1>1, <1>2, <1>7, <1>8, <1>9 DEF LinesSound
<1>11. WantedKnown'
  BY <1>1, <1>2 DEF WantedKnown
<1> QED BY <1>6, <1>10, <1>11 DEF LedInv

LEMMA LedNextKeeps == LedInv /\ [LedNext]_ledVars => LedInv'
<1> SUFFICES ASSUME LedInv, [LedNext]_ledVars PROVE LedInv'
  OBVIOUS
<1>1. LedTypes /\ LinesSound /\ WantedKnown
  BY DEF LedInv
<1>2. CASE LedDone
  <2> USE DEF LedDone
  <2>1. LedTypes'
    BY <1>1, <1>2 DEF LedTypes
  <2>2. LinesSound'
    BY <1>1, <1>2 DEF LinesSound, LineShown
  <2>3. WantedKnown'
    BY <1>1, <1>2 DEF WantedKnown
  <2> QED BY <2>1, <2>2, <2>3 DEF LedInv
<1>3. CASE DmaComplete
  <2> USE DEF DmaComplete
  <2>1. LedTypes'
    BY <1>1, <1>3 DEF LedTypes
  <2>2. LinesSound'
    BY <1>1, <1>3 DEF LinesSound, LineShown
  <2>3. WantedKnown'
    BY <1>1, <1>3 DEF WantedKnown
  <2> QED BY <2>1, <2>2, <2>3 DEF LedInv
<1>4. CASE ResetDelay
  <2>1. /\ busy = "reset" /\ busy' = "free" /\ place' = [place EXCEPT ![dma.line] = 1]
        /\ UNCHANGED <<ledQueue, line, powered, ledPc, update, dma, shown, wanted>>
    BY <1>4 DEF ResetDelay
  <2>2. /\ place' \in [1..Lines -> 1..(LedsPerLine + 1)]
        /\ place'[dma.line] = 1
        /\ \A k \in 1..Lines : k # dma.line => place'[k] = place[k]
    BY <1>1, <2>1, LedConstants DEF LedTypes
  <2>3. LedTypes'
    BY <1>1, <2>1, <2>2 DEF LedTypes
  <2>4. \A k \in 1..Lines : place'[k] = 1
    BY <1>1, <2>2 DEF LinesSound
  <2>5. LinesSound'
    BY <1>1, <2>1, <2>4 DEF LinesSound, LineShown
  <2>6. WantedKnown'
    BY <1>1, <2>1 DEF WantedKnown
  <2> QED BY <2>3, <2>5, <2>6 DEF LedInv
<1>5. CASE UNCHANGED ledVars
  <2> USE DEF ledVars
  <2>1. LedTypes'
    BY <1>1, <1>5 DEF LedTypes
  <2>2. LinesSound'
    BY <1>1, <1>5 DEF LinesSound, LineShown
  <2>3. WantedKnown'
    BY <1>1, <1>5 DEF WantedKnown
  <2> QED BY <2>1, <2>2, <2>3 DEF LedInv
<1> QED BY <1>2, <1>3, <1>4, <1>5, LedSendKeeps, LedTakeKeeps, LedPowerKeeps, LedWriteKeeps,
           DmaWordKeeps DEF LedNext

LEMMA LedInvImplies == LedInv => LedTypeOK /\ LedsShowAsked
<1> SUFFICES ASSUME LedInv PROVE LedTypeOK /\ LedsShowAsked
  OBVIOUS
<1>1. LedTypes /\ LinesSound /\ WantedKnown
  BY DEF LedInv
<1>2. LedTypeOK
  BY <1>1 DEF LedTypes, LedTypeOK
<1>3. ASSUME ledPc = "wait", ledQueue = <<>>, busy = "free" PROVE shown = wanted
  <2>1. ASSUME NEW l \in 1..Lines PROVE shown[l] = wanted[l]
    <3>1. shown[l] = line[l]
      BY <1>1, <1>3 DEF LinesSound, LineShown
    <3>2. \A k \in Leds : ~Awaits(ledQueue, l, k, wanted[l][k])
      BY <1>3 DEF Awaits
    <3>3. \A k \in Leds : wanted[l][k] = line[l][k]
      BY <1>1, <3>2 DEF WantedKnown
    <3>4. wanted[l] \in [Leds -> Colours] /\ line[l] \in [Leds -> Colours]
      BY <1>1 DEF LedTypes, Colouring
    <3>5. wanted[l] = line[l]
      BY <3>3, <3>4, SameLine
    <3> QED BY <3>1, <3>5
  <2>2. shown \in Colouring /\ wanted \in Colouring
    BY <1>1 DEF LedTypes
  <2> QED BY <2>1, <2>2, SameColouring
<1> QED BY <1>2, <1>3 DEF LedsShowAsked

(* For any number of lines and LEDs, any messages and any length of the    *)
(* queue: whenever the service has served every message and the last       *)
(* transfer is over, each LED shows the colour that was asked for last,    *)
(* although colours are changed in the buffer that the DMA is reading and  *)
(* lines are switched off and on under a transfer                          *)
(* (led_process_set_color_batch, led_start_off_timer,                      *)
(* ws2812_write_buffer_dma).                                               *)
THEOREM LedsShowTheLast == LedSpec => [](LedTypeOK /\ LedsShowAsked)
<1>1. LedInit => LedInv
  BY LedStarts
<1>2. LedInv /\ [LedNext]_ledVars => LedInv'
  BY LedNextKeeps
<1>3. LedInv => LedTypeOK /\ LedsShowAsked
  BY LedInvImplies
<1> QED BY <1>1, <1>2, <1>3, PTL DEF LedSpec

-----------------------------------------------------------------------------
(***************************************************************************)
(* Views.  The list holds the attached views by priority; an owner that    *)
(* has changed it has still to announce that.                              *)
(***************************************************************************)
ListRight ==
  /\ ByPriority(views)
  /\ attached = {views[i] : i \in DOMAIN views}
  /\ Ground \in attached

ListDebt == \E v \in Views : debt[v] = "list"

(* The views of frame f are those of the list from place t on. *)
FromPlace(f, list, t) == \A i \in DOMAIN f : f[i].view = list[t - 1 + i]

(* What is laid out and what is still to lay out are the views from the    *)
(* topmost opaque one; so is the screen, if no change of the list is still *)
(* to be announced.                                                        *)
DrawRight ==
  /\ guiPc \in {"wait", "lock"} => frame = <<>>
  /\ guiPc = "post" => todo = <<>>
  /\ guiPc \in {"layout", "post"} =>
       \E t \in TopOpaque :
         /\ FromPlace(frame, views, t)
         /\ Len(frame) + Len(todo) = Len(views) - t + 1
         /\ \A i \in DOMAIN todo : todo[i] = views[Len(frame) + (t - 1) + i]
  /\ guiPc = "wait" /\ ~redraw /\ ~ListDebt =>
       \E t \in TopOpaque : FromPlace(screen, views, t) /\ Len(screen) = Len(views) - t + 1

(* A model that has changed since its view was laid out will be announced. *)
Announced(v) == redraw \/ ListDebt \/ (debt[v] = "model" /\ v \in attached)

HasStale(f, v) == \E i \in DOMAIN f : f[i].view = v /\ f[i].stale

StaleAnnounced ==
  \A v \in Views :
    /\ guiPc = "wait" /\ HasStale(screen, v) => Announced(v)
    /\ guiPc \in {"layout", "post"} /\ HasStale(frame, v) => Announced(v)

GuiInv == GuiTypeOK /\ ListRight /\ DrawRight /\ StaleAnnounced
Shown == [view : Views, stale : BOOLEAN]

LEMMA ViewAdded ==
  ASSUME GuiTypeOK, ListRight, NEW v \in Views, v \notin attached, AddView(v)
  PROVE  /\ views' \in Seq(Views) /\ attached' \subseteq Views /\ ListRight'
<1>1. PICK i \in 1..Len(views) + 1 : views' = InsertAt(views, i, v)
  BY DEF AddView
<1>2. views \in Seq(Views) /\ Len(views) \in Nat /\ DOMAIN views = 1..Len(views)
  BY LenProperties DEF GuiTypeOK
<1>3. PICK p \in 0..Len(views) : i = p + 1
  <2>1. i - 1 \in 0..Len(views) /\ i = (i - 1) + 1
    BY <1>2
  <2> QED BY <2>1
<1>4. InsertAt(views, i, v) = Inserted(views, p, v)
  <2>1. i - 1 = p
    BY <1>2, <1>3
  <2> QED BY <1>3, <2>1 DEF InsertAt, Inserted
<1>5. /\ views' \in Seq(Views) /\ Len(views') = Len(views) + 1
      /\ \A n \in 1 .. p : views'[n] = views[n]
      /\ views'[p + 1] = v
      /\ \A n \in (p + 2) .. (Len(views) + 1) : views'[n] = views[n - 1]
  <2>1. /\ Inserted(views, p, v) \in Seq(Views) /\ Len(Inserted(views, p, v)) = Len(views) + 1
        /\ \A n \in 1 .. p : Inserted(views, p, v)[n] = views[n]
        /\ Inserted(views, p, v)[p + 1] = v
        /\ \A n \in (p + 2) .. (Len(views) + 1) : Inserted(views, p, v)[n] = views[n - 1]
    <3>1. PICK list \in Seq(Views) : list = views
      BY <1>2
    <3>2. p \in 0..Len(list)
      BY <3>1
    <3>3. Inserted(list, p, v) \in Seq(Views) /\ Len(Inserted(list, p, v)) = Len(list) + 1
      BY <3>2, InsertElements
    <3>4. \A n \in 1 .. p : Inserted(list, p, v)[n] = list[n]
      BY <3>2, InsertElements
    <3>5. Inserted(list, p, v)[p + 1] = v
      BY <3>2, InsertElements
    <3>6. \A n \in (p + 2) .. (Len(list) + 1) : Inserted(list, p, v)[n] = list[n - 1]
      BY <3>2, InsertElements
    <3> QED BY <3>1, <3>3, <3>4, <3>5, <3>6, Zenon
  <2>2. views' = Inserted(views, p, v)
    BY <1>1, <1>4
  <2> QED BY <2>1, <2>2
<1>6. DOMAIN views' = 1 .. Len(views) + 1
  BY <1>5, LenProperties
<1>7. attached' = {views'[n] : n \in DOMAIN views'}
  <2>1. ASSUME NEW w \in attached' PROVE \E n \in DOMAIN views' : w = views'[n]
    <3>1. CASE w = v
      BY <1>2, <1>3, <1>5, <1>6, <3>1
    <3>2. CASE w \in attached
      <4>1. PICK n \in 1..Len(views) : w = views[n]
        BY <1>2, <3>2 DEF ListRight
      <4>2. CASE n =< p
        BY <1>2, <1>3, <1>5, <1>6, <4>1, <4>2
      <4>3. CASE n > p
        <5>1. n + 1 \in (p + 2) .. (Len(views) + 1) /\ n + 1 \in DOMAIN views' /\ (n + 1) - 1 = n
          BY <1>2, <1>6, <4>3
        <5> QED BY <1>5, <4>1, <5>1
      <4> QED BY <1>2, <4>2, <4>3
    <3> QED BY <3>1, <3>2 DEF AddView
  <2>2. ASSUME NEW n \in DOMAIN views' PROVE views'[n] \in attached'
    <3>1. CASE n = p + 1
      BY <1>5, <3>1 DEF AddView
    <3>2. CASE n =< p
      <4>1. n \in 1..p /\ n \in DOMAIN views
        BY <1>2, <1>3, <1>6, <3>2
      <4> QED BY <1>5, <4>1 DEF AddView, ListRight
    <3>3. CASE n > p + 1
      <4>1. n \in (p + 2) .. (Len(views) + 1) /\ n - 1 \in DOMAIN views
        BY <1>2, <1>3, <1>6, <3>3
      <4> QED BY <1>5, <4>1 DEF AddView, ListRight
    <3> QED BY <1>2, <1>3, <1>6, <3>1, <3>2, <3>3
  <2> QED BY <2>1, <2>2
<1> QED BY <1>5, <1>7 DEF AddView, ListRight, GuiTypeOK

LEMMA RemoveElements ==
  ASSUME NEW S, NEW s \in Seq(S), NEW k \in 1..Len(s)
  PROVE  /\ RemoveAt(s, k) \in Seq(S)
         /\ Len(RemoveAt(s, k)) = Len(s) - 1
         /\ \A n \in 1..(Len(s) - 1) : RemoveAt(s, k)[n] = IF n < k THEN s[n] ELSE s[n + 1]
<1> DEFINE u == SubSeq(s, 1, k - 1)
           v == SubSeq(s, k + 1, Len(s))
<1>1. Len(s) \in Nat /\ \A n \in 1..Len(s) : s[n] \in S
  BY ElementOfSeq, LenProperties
<1>2. /\ u \in Seq(S) /\ Len(u) = k - 1
      /\ \A n \in 1..(k - 1) : u[n] = s[n]
  <2>1. \A n \in 1..(k - 1) : s[n] \in S
    BY <1>1
  <2> QED BY <1>1, <2>1, SubSeqProperties
<1>3. /\ v \in Seq(S) /\ Len(v) = Len(s) - k
      /\ \A n \in 1..(Len(s) - k) : v[n] = s[k + n]
  <2>1. \A n \in (k + 1)..Len(s) : s[n] \in S
    BY <1>1
  <2> QED BY <1>1, <2>1, SubSeqProperties
<1>4. RemoveAt(s, k) = u \o v
  BY DEF RemoveAt
<1> HIDE DEF u, v
<1>5. /\ u \o v \in Seq(S) /\ Len(u \o v) = Len(u) + Len(v)
      /\ \A n \in 1..(Len(u) + Len(v)) : (u \o v)[n] = IF n <= Len(u) THEN u[n] ELSE v[n - Len(u)]
  BY <1>2, <1>3, ConcatProperties
<1>6. Len(u) + Len(v) = Len(s) - 1
  BY <1>1, <1>2, <1>3
<1>7. ASSUME NEW n \in 1..(Len(s) - 1)
      PROVE  (u \o v)[n] = IF n < k THEN s[n] ELSE s[n + 1]
  <2>1. CASE n < k
    BY <1>1, <1>2, <1>5, <1>6, <2>1
  <2>2. CASE ~(n < k)
    <3>1. (u \o v)[n] = v[n - (k - 1)]
      BY <1>1, <1>2, <1>5, <1>6, <2>2
    <3>2. n - (k - 1) \in 1..(Len(s) - k) /\ k + (n - (k - 1)) = n + 1
      BY <1>1, <2>2
    <3> QED BY <1>1, <1>3, <2>2, <3>1, <3>2
  <2> QED BY <2>1, <2>2
<1> QED BY <1>4, <1>5, <1>6, <1>7

LEMMA ViewRemoved ==
  ASSUME GuiTypeOK, ListRight, NEW v \in Views, RemoveView(v)
  PROVE  /\ views' \in Seq(Views) /\ attached' \subseteq Views /\ ListRight'
<1>1. PICK k \in DOMAIN views : views[k] = v /\ views' = RemoveAt(views, k)
  BY DEF RemoveView
<1>2. views \in Seq(Views) /\ Len(views) \in Nat /\ DOMAIN views = 1..Len(views)
  BY LenProperties DEF GuiTypeOK
<1>3. /\ views' \in Seq(Views) /\ Len(views') = Len(views) - 1
      /\ \A n \in 1..(Len(views) - 1) : views'[n] = IF n < k THEN views[n] ELSE views[n + 1]
  <2>1. /\ RemoveAt(views, k) \in Seq(Views) /\ Len(RemoveAt(views, k)) = Len(views) - 1
        /\ \A n \in 1..(Len(views) - 1) :
             RemoveAt(views, k)[n] = IF n < k THEN views[n] ELSE views[n + 1]
    <3>1. k \in 1..Len(views)
      BY <1>2
    <3> QED BY <1>2, <3>1, RemoveElements, Zenon
  <2> QED BY <1>1, <2>1
<1>4. DOMAIN views' = 1..(Len(views) - 1)
  BY <1>3, LenProperties
<1>5. \A i \in 1..Len(views) : Priority[views[i]] \in Int
  BY <1>2, ElementOfSeq, GuiAssumption
<1>6. \A i \in DOMAIN views : i # k => views[i] # v
  <2> SUFFICES ASSUME NEW i \in DOMAIN views, i # k, views[i] = v PROVE FALSE
    OBVIOUS
  <2>1. i < k \/ k < i
    BY <1>2
  <2>2. Priority[views[i]] < Priority[views[k]] \/ Priority[views[k]] < Priority[views[i]]
    BY <2>1 DEF ListRight, ByPriority
  <2> QED BY <1>1, <1>2, <1>5, <2>2
<1>7. attached' = {views'[n] : n \in DOMAIN views'}
  <2>1. ASSUME NEW w \in attached' PROVE \E n \in DOMAIN views' : w = views'[n]
    <3>1. PICK n \in 1..Len(views) : w = views[n]
      BY <1>2 DEF ListRight, RemoveView
    <3>2. n # k
      BY <1>1, <3>1 DEF RemoveView
    <3>3. CASE n < k
      BY <1>2, <1>3, <1>4, <3>1, <3>3
    <3>4. CASE n > k
      <4>1. n - 1 \in 1..(Len(views) - 1) /\ ~(n - 1 < k) /\ (n - 1) + 1 = n
        BY <1>2, <3>4
      <4> QED BY <1>3, <1>4, <3>1, <4>1
    <3> QED BY <1>2, <3>2, <3>3, <3>4
  <2>2. ASSUME NEW n \in DOMAIN views' PROVE views'[n] \in attached'
    <3>1. PICK m \in DOMAIN views : m # k /\ views'[n] = views[m]
      <4>1. CASE n < k
        <5>1. n \in DOMAIN views /\ n # k
          BY <1>2, <1>4, <4>1
        <5> QED BY <1>3, <1>4, <4>1, <5>1
      <4>2. CASE ~(n < k)
        <5>1. n + 1 \in DOMAIN views /\ n + 1 # k
          BY <1>2, <1>4, <4>2
        <5> QED BY <1>3, <1>4, <4>2, <5>1
      <4> QED BY <4>1, <4>2
    <3>2. views[m] \in attached /\ views[m] # v
      BY <1>6, <3>1 DEF ListRight
    <3> QED BY <3>1, <3>2 DEF RemoveView
  <2> QED BY <2>1, <2>2
<1>8. ByPriority(views')
  <2> SUFFICES ASSUME NEW i \in DOMAIN views', NEW j \in DOMAIN views', i < j
               PROVE  Priority[views'[i]] < Priority[views'[j]]
    BY DEF ByPriority
  <2>1. PICK a \in DOMAIN views : views'[i] = views[a] /\ a = IF i < k THEN i ELSE i + 1
    BY <1>2, <1>3, <1>4
  <2>2. PICK b \in DOMAIN views : views'[j] = views[b] /\ b = IF j < k THEN j ELSE j + 1
    BY <1>2, <1>3, <1>4
  <2>3. a < b
    BY <1>2, <1>4, <2>1, <2>2
  <2> QED BY <2>1, <2>2, <2>3 DEF ListRight, ByPriority
<1> QED BY <1>3, <1>7, <1>8 DEF RemoveView, ListRight, GuiTypeOK

(* There is always a topmost opaque view: that of the desktop at the least.*)
LEMMA SomeTop ==
  ASSUME GuiTypeOK, ListRight
  PROVE  TopOpaque # {} /\ TopOpaque \subseteq 1..Len(views)
<1> DEFINE O == {i \in DOMAIN views : views[i] \notin Transparent}
<1>1. views \in Seq(Views) /\ Len(views) \in Nat /\ DOMAIN views = 1..Len(views)
  BY LenProperties DEF GuiTypeOK
<1>2. O # {} /\ O \subseteq Nat /\ \A i \in O : i =< Len(views)
  <2>1. PICK i \in DOMAIN views : views[i] = Ground
    BY DEF ListRight
  <2>2. i \in O
    BY <2>1, GuiAssumption
  <2> QED BY <1>1, <2>2
<1>3. PICK k \in O : \A i \in O : i =< k
  <2> HIDE DEF O
  <2> QED BY <1>1, <1>2, LastPlace
<1>4. \A i \in k + 1..Len(views) : views[i] \in Transparent
  <2> SUFFICES ASSUME NEW i \in k + 1..Len(views), views[i] \notin Transparent PROVE FALSE
    OBVIOUS
  <2>1. i \in O /\ ~(i =< k)
    BY <1>1, <1>2
  <2> QED BY <1>3, <2>1
<1>5. k \in TopOpaque
  BY <1>1, <1>4 DEF TopOpaque
<1> QED BY <1>1, <1>5 DEF TopOpaque

(* A change of a model marks the entries of its view and nothing else. *)
LEMMA OutdatedEntries ==
  ASSUME NEW f \in Seq(Shown), NEW v \in Views
  PROVE  /\ Outdated(f, v) \in Seq(Shown) /\ Len(Outdated(f, v)) = Len(f)
         /\ DOMAIN Outdated(f, v) = DOMAIN f
         /\ \A i \in DOMAIN f :
              /\ Outdated(f, v)[i].view = f[i].view
              /\ Outdated(f, v)[i].stale => f[i].stale \/ f[i].view = v
<1> DEFINE g == Outdated(f, v)
<1>1. Len(f) \in Nat /\ DOMAIN f = 1..Len(f) /\ \A i \in DOMAIN f : f[i] \in Shown
  BY ElementOfSeq, LenProperties
<1>2. DOMAIN g = DOMAIN f
  BY DEF Outdated
<1>3. ASSUME NEW i \in DOMAIN f
      PROVE  g[i] \in Shown /\ g[i].view = f[i].view /\ (g[i].stale => f[i].stale \/ f[i].view = v)
  <2>1. g[i] = IF f[i].view = v THEN [f[i] EXCEPT !.stale = TRUE] ELSE f[i]
    BY DEF Outdated
  <2>2. PICK e \in Shown : e = f[i]
    BY <1>1
  <2>3. /\ [e EXCEPT !.stale = TRUE] \in Shown
        /\ [e EXCEPT !.stale = TRUE].view = e.view
    BY DEF Shown
  <2> QED BY <2>1, <2>2, <2>3
<1>4. g \in [1..Len(f) -> Shown]
  <2>1. g = [i \in 1..Len(f) |-> g[i]]
    BY <1>1 DEF Outdated
  <2> HIDE DEF g
  <2> QED BY <1>1, <1>3, <2>1
<1> HIDE DEF g
<1>5. g \in Seq(Shown)
  BY <1>1, <1>4, SeqDef
<1>6. Len(g) = Len(f)
  BY <1>1, <1>2, <1>5, LenProperties
<1> QED BY <1>2, <1>3, <1>5, <1>6 DEF g

(* The gui starts with the view of the desktop alone. *)
LEMMA GuiStarts == GuiInit => GuiInv
<1> SUFFICES ASSUME GuiInit PROVE GuiInv
  OBVIOUS
<1>0. Ground \in Views
  BY GuiAssumption
<1>1. /\ views \in Seq(Views) /\ Len(views) = 1 /\ views[1] = Ground /\ DOMAIN views = {1}
  <2>1. views = <<Ground>>
    BY DEF GuiInit
  <2>2. views \in Seq(Views) /\ Len(views) = 1 /\ views[1] = Ground
    BY <1>0, <2>1
  <2> QED BY <2>2, LenProperties
<1>3. PICK e \in Seq(Shown) : e = <<>>
  BY EmptySeq
<1>4. PICK d \in Seq(Views) : d = <<>>
  BY EmptySeq
<1>5. GuiTypeOK
  BY <1>0, <1>1, <1>3, <1>4 DEF GuiInit, GuiTypeOK, Shown
<1>6. ListRight
  BY <1>1 DEF GuiInit, ListRight, ByPriority
<1>7. ListDebt
  BY <1>0 DEF GuiInit, ListDebt
<1>8. DrawRight
  BY <1>7 DEF GuiInit, DrawRight
<1>9. StaleAnnounced
  BY <1>7 DEF GuiInit, StaleAnnounced, Announced
<1> QED BY <1>5, <1>6, <1>8, <1>9 DEF GuiInv

(* A change of the list by an owner. *)
LEMMA ListKeeps ==
  ASSUME GuiInv, NEW v \in Views, AddView(v) \/ RemoveView(v)
  PROVE  GuiInv'
<1>1. GuiTypeOK /\ ListRight /\ DrawRight /\ StaleAnnounced
  BY DEF GuiInv
<1>2. /\ debt' = [debt EXCEPT ![v] = "list"] /\ ~GuiLocked
      /\ UNCHANGED <<redraw, guiPc, todo, frame, screen>>
  BY DEF AddView, RemoveView
<1>3. /\ views' \in Seq(Views) /\ attached' \subseteq Views /\ ListRight'
  <2>1. CASE AddView(v)
    BY <1>1, <2>1, ViewAdded DEF AddView
  <2>2. CASE RemoveView(v)
    BY <1>1, <2>2, ViewRemoved
  <2> QED BY <2>1, <2>2
<1>4. debt' \in [Views -> {"list", "model", "none"}] /\ debt'[v] = "list"
  BY <1>1, <1>2 DEF GuiTypeOK
<1>5. ListDebt'
  BY <1>4 DEF ListDebt
<1>6. GuiTypeOK'
  BY <1>1, <1>2, <1>3, <1>4 DEF GuiTypeOK
<1>7. guiPc \notin {"layout", "post"}
  BY <1>2 DEF GuiLocked
<1>8. DrawRight'
  BY <1>1, <1>2, <1>5, <1>7 DEF DrawRight
<1>9. StaleAnnounced'
  BY <1>2, <1>5, <1>7 DEF StaleAnnounced, Announced
<1> QED BY <1>3, <1>6, <1>8, <1>9 DEF GuiInv

(* The entries after a change of a model. *)
LEMMA ModelChanged ==
  ASSUME GuiTypeOK, NEW v \in Views, ModelChanges(v)
  PROVE  /\ frame' \in Seq(Shown) /\ Len(frame') = Len(frame) /\ DOMAIN frame' = DOMAIN frame
         /\ \A i \in DOMAIN frame :
              /\ frame'[i].view = frame[i].view
              /\ frame'[i].stale => frame[i].stale \/ frame[i].view = v
         /\ screen' \in Seq(Shown) /\ Len(screen') = Len(screen) /\ DOMAIN screen' = DOMAIN screen
         /\ \A i \in DOMAIN screen :
              /\ screen'[i].view = screen[i].view
              /\ screen'[i].stale => screen[i].stale \/ screen[i].view = v
<1>1. PICK f \in Seq(Shown), g \in Seq(Shown) : f = frame /\ g = screen
  BY DEF GuiTypeOK, Shown
<1>2. frame' = Outdated(f, v) /\ screen' = Outdated(g, v)
  BY <1>1 DEF ModelChanges
<1>3. PICK f2 : f2 = Outdated(f, v)
  OBVIOUS
<1>4. PICK g2 : g2 = Outdated(g, v)
  OBVIOUS
<1>5. /\ f2 \in Seq(Shown) /\ Len(f2) = Len(f) /\ DOMAIN f2 = DOMAIN f
      /\ \A i \in DOMAIN f : f2[i].view = f[i].view /\ (f2[i].stale => f[i].stale \/ f[i].view = v)
  BY <1>3, OutdatedEntries
<1>6. /\ g2 \in Seq(Shown) /\ Len(g2) = Len(g) /\ DOMAIN g2 = DOMAIN g
      /\ \A i \in DOMAIN g : g2[i].view = g[i].view /\ (g2[i].stale => g[i].stale \/ g[i].view = v)
  BY <1>4, OutdatedEntries
<1>7. frame' = f2 /\ screen' = g2
  BY <1>2, <1>3, <1>4
<1> QED BY <1>1, <1>5, <1>6, <1>7

(* It leaves what is laid out, and in which order. *)
LEMMA DrawStays ==
  ASSUME GuiTypeOK, DrawRight, NEW v \in Views, ModelChanges(v),
         UNCHANGED <<views, attached, guiPc, todo>>, redraw => redraw', ListDebt' <=> ListDebt
  PROVE  DrawRight'
<1>1. /\ Len(frame') = Len(frame) /\ DOMAIN frame' = DOMAIN frame
      /\ \A i \in DOMAIN frame : frame'[i].view = frame[i].view
      /\ Len(screen') = Len(screen) /\ DOMAIN screen' = DOMAIN screen
      /\ \A i \in DOMAIN screen : screen'[i].view = screen[i].view
      /\ frame' \in Seq(Shown)
  BY ModelChanged
<1>2. TopOpaque' = TopOpaque
  BY DEF TopOpaque
<1>3. guiPc \in {"wait", "lock"} => frame' = <<>>
  <2> SUFFICES ASSUME guiPc \in {"wait", "lock"} PROVE frame' = <<>>
    OBVIOUS
  <2>1. frame = <<>>
    BY DEF DrawRight
  <2>2. Len(frame) = 0
    BY <2>1
  <2>3. Len(frame') = 0
    BY <1>1, <2>2
  <2> QED BY <1>1, <2>3, EmptySeq
<1>4. guiPc' \in {"layout", "post"} =>
        \E t \in TopOpaque' :
          /\ FromPlace(frame', views', t)
          /\ Len(frame') + Len(todo') = Len(views') - t + 1
          /\ \A i \in DOMAIN todo' : todo'[i] = views'[Len(frame') + (t - 1) + i]
  <2> SUFFICES ASSUME guiPc \in {"layout", "post"}
               PROVE  \E t \in TopOpaque :
                        /\ FromPlace(frame', views, t)
                        /\ Len(frame) + Len(todo) = Len(views) - t + 1
                        /\ \A i \in DOMAIN todo : todo[i] = views[Len(frame) + (t - 1) + i]
    BY <1>1, <1>2
  <2>1. PICK t \in TopOpaque :
          /\ FromPlace(frame, views, t)
          /\ Len(frame) + Len(todo) = Len(views) - t + 1
          /\ \A i \in DOMAIN todo : todo[i] = views[Len(frame) + (t - 1) + i]
    BY DEF DrawRight
  <2>2. FromPlace(frame', views, t)
    BY <1>1, <2>1 DEF FromPlace
  <2> QED BY <2>1, <2>2
<1>5. guiPc' = "wait" /\ ~redraw' /\ ~ListDebt' =>
        \E t \in TopOpaque' : FromPlace(screen', views', t) /\ Len(screen') = Len(views') - t + 1
  <2> SUFFICES ASSUME guiPc = "wait", ~redraw, ~ListDebt
               PROVE  \E t \in TopOpaque : FromPlace(screen', views, t) /\ Len(screen) = Len(views) - t + 1
    BY <1>1, <1>2
  <2>1. PICK t \in TopOpaque : FromPlace(screen, views, t) /\ Len(screen) = Len(views) - t + 1
    BY DEF DrawRight
  <2>2. FromPlace(screen', views, t)
    BY <1>1, <2>1 DEF FromPlace
  <2> QED BY <2>1, <2>2
<1> QED BY <1>3, <1>4, <1>5 DEF DrawRight

(* A change of a model by the owner of the view. *)
LEMMA ChangeModelKeeps ==
  ASSUME GuiInv, NEW v \in Views, ChangeModel(v)
  PROVE  GuiInv'
<1>1. GuiTypeOK /\ ListRight /\ DrawRight /\ StaleAnnounced
  BY DEF GuiInv
<1>2. /\ ModelChanges(v) /\ debt[v] = "none" /\ debt' = [debt EXCEPT ![v] = "model"]
      /\ UNCHANGED <<views, attached, redraw, guiPc, todo>>
  BY DEF ChangeModel
<1>3. /\ debt' \in [Views -> {"list", "model", "none"}] /\ debt'[v] = "model"
      /\ \A w \in Views \ {v} : debt'[w] = debt[w]
  BY <1>1, <1>2 DEF GuiTypeOK
<1>4. ListDebt' <=> ListDebt
  BY <1>2, <1>3 DEF ListDebt
<1>5. DrawRight'
  BY <1>1, <1>2, <1>4, DrawStays
<1>6. /\ frame' \in Seq(Shown) /\ DOMAIN frame' = DOMAIN frame
      /\ \A i \in DOMAIN frame : /\ frame'[i].view = frame[i].view
                                 /\ frame'[i].stale => frame[i].stale \/ frame[i].view = v
      /\ screen' \in Seq(Shown) /\ DOMAIN screen' = DOMAIN screen
      /\ \A i \in DOMAIN screen : /\ screen'[i].view = screen[i].view
                                  /\ screen'[i].stale => screen[i].stale \/ screen[i].view = v
  BY <1>1, <1>2, ModelChanged
<1>7. GuiTypeOK' /\ ListRight'
  BY <1>1, <1>2, <1>3, <1>6 DEF GuiTypeOK, ListRight, ByPriority, Shown
<1>8. \A w \in Views : Announced(w) => Announced(w)'
  <2> SUFFICES ASSUME NEW w \in Views, Announced(w) PROVE Announced(w)'
    OBVIOUS
  <2>1. debt[w] = "model" => debt'[w] = "model"
    BY <1>2, <1>3
  <2> QED BY <1>2, <1>4, <2>1 DEF Announced
<1>9. v \in attached => Announced(v)'
  BY <1>2, <1>3 DEF Announced
<1>10. ASSUME NEW w \in Views, guiPc = "wait", HasStale(screen', w) PROVE Announced(w)'
  <2>1. PICK i \in DOMAIN screen : screen[i].view = w /\ (screen[i].stale \/ w = v)
    BY <1>6, <1>10 DEF HasStale
  <2>2. CASE screen[i].stale
    BY <1>1, <1>8, <1>10, <2>1, <2>2 DEF StaleAnnounced, HasStale
  <2>3. CASE w = v
    <3>1. CASE redraw \/ ListDebt
      BY <1>2, <1>4, <3>1 DEF Announced
    <3>2. CASE ~redraw /\ ~ListDebt
      <4>1. PICK t \in TopOpaque : FromPlace(screen, views, t) /\ Len(screen) = Len(views) - t + 1
        BY <1>1, <1>10, <3>2 DEF DrawRight
      <4>2. t \in 1..Len(views) /\ Len(views) \in Nat /\ DOMAIN screen = 1..Len(screen)
        BY <1>1, SomeTop, LenProperties DEF GuiTypeOK
      <4>3. t - 1 + i \in 1..Len(views) /\ DOMAIN views = 1..Len(views)
        BY <1>1, <4>1, <4>2, LenProperties DEF GuiTypeOK
      <4>4. v = views[t - 1 + i]
        BY <2>1, <2>3, <4>1 DEF FromPlace
      <4>5. v \in attached
        BY <1>1, <4>3, <4>4 DEF ListRight
      <4> QED BY <1>9, <2>3, <4>5
    <3> QED BY <3>1, <3>2
  <2> QED BY <2>1, <2>2, <2>3
<1>11. ASSUME NEW w \in Views, guiPc \in {"layout", "post"}, HasStale(frame', w) PROVE Announced(w)'
  <2>1. PICK i \in DOMAIN frame : frame[i].view = w /\ (frame[i].stale \/ w = v)
    BY <1>6, <1>11 DEF HasStale
  <2>2. CASE frame[i].stale
    BY <1>1, <1>8, <1>11, <2>1, <2>2 DEF StaleAnnounced, HasStale
  <2>3. CASE w = v
    <3>1. PICK t \in TopOpaque : FromPlace(frame, views, t) /\ Len(frame) + Len(todo) = Len(views) - t + 1
      BY <1>1, <1>11 DEF DrawRight
    <3>2. /\ t \in 1..Len(views) /\ Len(views) \in Nat /\ DOMAIN frame = 1..Len(frame)
          /\ Len(todo) \in Nat /\ Len(frame) \in Nat
      BY <1>1, SomeTop, LenProperties DEF GuiTypeOK
    <3>3. t - 1 + i \in 1..Len(views) /\ DOMAIN views = 1..Len(views)
      BY <1>1, <3>1, <3>2, LenProperties DEF GuiTypeOK
    <3>4. v = views[t - 1 + i]
      BY <2>1, <2>3, <3>1 DEF FromPlace
    <3>5. v \in attached
      BY <1>1, <3>3, <3>4 DEF ListRight
    <3> QED BY <1>9, <2>3, <3>5
  <2> QED BY <2>1, <2>2, <2>3
<1>12. StaleAnnounced'
  <2>1. \A w \in Views : guiPc' = "wait" /\ HasStale(screen', w) => Announced(w)'
    BY <1>2, <1>10
  <2>2. \A w \in Views : guiPc' \in {"layout", "post"} /\ HasStale(frame', w) => Announced(w)'
    BY <1>2, <1>11
  <2> QED BY <2>1, <2>2 DEF StaleAnnounced
<1> QED BY <1>5, <1>7, <1>12 DEF GuiInv

(* The announcement of a change. *)
LEMMA UpdateKeeps ==
  ASSUME GuiInv, NEW v \in Views, Update(v)
  PROVE  GuiInv'
<1>1. GuiTypeOK /\ ListRight /\ DrawRight /\ StaleAnnounced
  BY DEF GuiInv
<1>2. /\ debt' = [debt EXCEPT ![v] = "none"]
      /\ redraw' = (redraw \/ debt[v] = "list" \/ v \in attached)
      /\ UNCHANGED <<views, attached, guiPc, todo, frame, screen>>
  BY DEF Update
<1>3. /\ debt' \in [Views -> {"list", "model", "none"}] /\ debt'[v] = "none"
      /\ \A w \in Views \ {v} : debt'[w] = debt[w]
  BY <1>1, <1>2 DEF GuiTypeOK
<1>4. redraw' \in BOOLEAN
  BY <1>2, Zenon
<1>5. ListDebt \/ redraw => ListDebt' \/ redraw'
  <2>1. CASE redraw
    BY <1>2, <2>1
  <2>2. CASE ListDebt
    <3>1. PICK w \in Views : debt[w] = "list"
      BY <2>2 DEF ListDebt
    <3>2. CASE w = v
      BY <1>2, <3>1, <3>2
    <3>3. CASE w # v
      BY <1>3, <3>1, <3>3 DEF ListDebt
    <3> QED BY <3>2, <3>3
  <2> QED BY <2>1, <2>2
<1>6. \A w \in Views : Announced(w) => Announced(w)'
  <2> SUFFICES ASSUME NEW w \in Views, Announced(w) PROVE Announced(w)'
    OBVIOUS
  <2>1. CASE redraw \/ ListDebt
    BY <1>5, <2>1 DEF Announced
  <2>2. CASE debt[w] = "model" /\ w \in attached
    <3>1. CASE w = v
      BY <1>2, <2>2, <3>1 DEF Announced
    <3>2. CASE w # v
      BY <1>2, <1>3, <2>2, <3>2 DEF Announced
    <3> QED BY <3>1, <3>2
  <2> QED BY <2>1, <2>2 DEF Announced
<1>7. GuiTypeOK' /\ ListRight'
  BY <1>1, <1>2, <1>3, <1>4 DEF GuiTypeOK, ListRight, ByPriority
<1>8. DrawRight'
  <2>1. ~redraw' /\ ~ListDebt' => ~redraw /\ ~ListDebt
    BY <1>5
  <2>2. TopOpaque' = TopOpaque /\ \A t : /\ FromPlace(frame', views', t) <=> FromPlace(frame, views, t)
                                         /\ FromPlace(screen', views', t) <=> FromPlace(screen, views, t)
    BY <1>2 DEF TopOpaque
  <2> QED BY <1>1, <1>2, <2>1, <2>2 DEF DrawRight
<1>9. StaleAnnounced'
  BY <1>1, <1>2, <1>6 DEF StaleAnnounced, HasStale
<1> QED BY <1>7, <1>8, <1>9 DEF GuiInv

(* A key that a view takes in the gui task. *)
LEMMA InputKeeps == GuiInv /\ GuiInput => GuiInv'
<1> SUFFICES ASSUME GuiInv, GuiInput PROVE GuiInv'
  OBVIOUS
<1>1. GuiTypeOK /\ ListRight /\ DrawRight /\ StaleAnnounced
  BY DEF GuiInv
<1>2. /\ guiPc = "wait" /\ redraw' = TRUE
      /\ UNCHANGED <<views, attached, debt, guiPc, todo>>
  BY DEF GuiInput
<1>3. PICK v \in Views : ModelChanges(v)
  <2>1. PICK w \in Offered : ModelChanges(w)
    BY DEF GuiInput
  <2>2. w \in Views
    <3>1. PICK i \in 1..Len(views) : w = views[i]
      BY <1>1, LenProperties DEF Offered, GuiTypeOK
    <3> QED BY <1>1, <3>1, ElementOfSeq DEF GuiTypeOK
  <2> QED BY <2>1, <2>2
<1>4. frame' \in Seq(Shown) /\ screen' \in Seq(Shown)
  BY <1>1, <1>3, ModelChanged
<1>5. GuiTypeOK' /\ ListRight'
  BY <1>1, <1>2, <1>4 DEF GuiTypeOK, ListRight, ByPriority, Shown
<1>6. DrawRight'
  <2>1. ListDebt' <=> ListDebt
    BY <1>2 DEF ListDebt
  <2> QED BY <1>1, <1>2, <1>3, <2>1, DrawStays
<1>7. StaleAnnounced'
  BY <1>2 DEF StaleAnnounced, Announced
<1> QED BY <1>5, <1>6, <1>7 DEF GuiInv

(* The gui clears its flag, and takes the list when it has its mutex. *)
LEMMA RedrawKeeps == GuiInv /\ (RedrawBegin \/ RedrawLock) => GuiInv'
<1> SUFFICES ASSUME GuiInv, RedrawBegin \/ RedrawLock PROVE GuiInv'
  OBVIOUS
<1>1. GuiTypeOK /\ ListRight /\ DrawRight /\ StaleAnnounced
  BY DEF GuiInv
<1>2. CASE RedrawBegin
  <2>1. /\ guiPc = "wait" /\ guiPc' = "lock" /\ redraw' = FALSE
        /\ UNCHANGED <<views, attached, debt, todo, frame, screen>>
    BY <1>2 DEF RedrawBegin
  <2>2. GuiTypeOK' /\ ListRight'
    BY <1>1, <2>1 DEF GuiTypeOK, ListRight, ByPriority
  <2>3. DrawRight'
    BY <1>1, <2>1 DEF DrawRight
  <2>4. StaleAnnounced'
    BY <2>1 DEF StaleAnnounced
  <2> QED BY <2>2, <2>3, <2>4 DEF GuiInv
<1>3. CASE RedrawLock
  <2>1. /\ guiPc = "lock" /\ guiPc' = "layout"
        /\ UNCHANGED <<views, attached, debt, redraw, frame, screen>>
    BY <1>3 DEF RedrawLock
  <2>2. PICK t \in TopOpaque : todo' = SubSeq(views, t, Len(views))
    BY <1>1, <1>3, SomeTop DEF RedrawLock
  <2>3. t \in 1..Len(views) /\ Len(views) \in Nat /\ views \in Seq(Views)
    BY <1>1, SomeTop, LenProperties DEF GuiTypeOK
  <2>4. /\ todo' \in Seq(Views) /\ Len(todo') = Len(views) - t + 1
        /\ \A i \in 1..(Len(views) - t + 1) : todo'[i] = views[t + i - 1]
    <3>1. \A i \in t..Len(views) : views[i] \in Views
      BY <2>3, ElementOfSeq
    <3>2. t \in Int /\ Len(views) \in Int /\ t <= Len(views) + 1
      BY <2>3
    <3>3. /\ SubSeq(views, t, Len(views)) \in Seq(Views)
          /\ Len(SubSeq(views, t, Len(views))) = Len(views) - t + 1
          /\ \A i \in 1..(Len(views) - t + 1) : SubSeq(views, t, Len(views))[i] = views[t + i - 1]
      BY <2>3, <3>1, <3>2, SubSeqProperties
    <3> QED BY <2>2, <3>3
  <2>5. DOMAIN todo' = 1..(Len(views) - t + 1)
    BY <2>4, LenProperties
  <2>6. frame = <<>> /\ Len(frame) = 0 /\ DOMAIN frame = {}
    <3>1. frame = <<>> /\ Len(frame) = 0 /\ frame \in Seq(Shown)
      BY <1>1, <2>1 DEF DrawRight, GuiTypeOK, Shown
    <3>2. DOMAIN frame = 1..0
      BY <3>1, LenProperties
    <3> QED BY <3>1, <3>2
  <2>7. GuiTypeOK' /\ ListRight'
    BY <1>1, <2>1, <2>4 DEF GuiTypeOK, ListRight, ByPriority
  <2>8. /\ FromPlace(frame', views', t)
        /\ Len(frame') + Len(todo') = Len(views') - t + 1
        /\ \A i \in DOMAIN todo' : todo'[i] = views'[Len(frame') + (t - 1) + i]
    <3>1. \A i \in DOMAIN todo' : t + i - 1 = Len(frame) + (t - 1) + i
      BY <2>3, <2>5, <2>6
    <3>2. FromPlace(frame, views, t)
      BY <2>6 DEF FromPlace
    <3>3. Len(frame) + Len(todo') = Len(views) - t + 1
      BY <2>3, <2>4, <2>6
    <3> QED BY <2>1, <2>4, <2>5, <3>1, <3>2, <3>3
  <2>9. t \in TopOpaque'
    BY <2>1 DEF TopOpaque
  <2>10. DrawRight'
    BY <2>1, <2>8, <2>9 DEF DrawRight
  <2>11. StaleAnnounced'
    BY <2>1, <2>6 DEF StaleAnnounced, HasStale
  <2> QED BY <2>7, <2>10, <2>11 DEF GuiInv
<1> QED BY <1>2, <1>3

(* The next view is laid out; its model is read. *)
LEMMA LayoutKeeps == GuiInv /\ Layout => GuiInv'
<1> SUFFICES ASSUME GuiInv, Layout PROVE GuiInv'
  OBVIOUS
<1>1. GuiTypeOK /\ ListRight /\ DrawRight /\ StaleAnnounced
  BY DEF GuiInv
<1>2. /\ guiPc = "layout" /\ todo # <<>> /\ todo' = Tail(todo)
      /\ frame' = Append(frame, [view |-> Head(todo), stale |-> FALSE])
      /\ UNCHANGED <<views, attached, debt, redraw, guiPc, screen>>
  BY DEF Layout
<1>3. PICK t \in TopOpaque :
        /\ FromPlace(frame, views, t)
        /\ Len(frame) + Len(todo) = Len(views) - t + 1
        /\ \A i \in DOMAIN todo : todo[i] = views[Len(frame) + (t - 1) + i]
  BY <1>1, <1>2 DEF DrawRight
<1>4. /\ frame \in Seq(Shown) /\ Len(frame) \in Nat /\ DOMAIN frame = 1..Len(frame)
      /\ t \in Nat /\ Len(views) \in Nat
  BY <1>1, SomeTop, LenProperties DEF GuiTypeOK, Shown
<1>5. /\ todo' \in Seq(Views) /\ Len(todo') = Len(todo) - 1 /\ Head(todo) = todo[1]
      /\ Head(todo) \in Views /\ Len(todo) \in Nat \ {0}
      /\ DOMAIN todo' = 1..(Len(todo) - 1) /\ DOMAIN todo = 1..Len(todo)
      /\ \A i \in 1..(Len(todo) - 1) : todo'[i] = todo[i + 1]
  <2>1. todo \in Seq(Views) /\ todo # <<>>
    BY <1>1, <1>2 DEF GuiTypeOK
  <2>2. /\ Head(todo) \in Views /\ Tail(todo) \in Seq(Views)
        /\ Len(Tail(todo)) = Len(todo) - 1 /\ Head(todo) = todo[1]
        /\ \A i \in 1..Len(Tail(todo)) : Tail(todo)[i] = todo[i + 1]
    BY <2>1, HeadTailProperties, ElementOfSeq, EmptySeq
  <2>3. Len(todo) \in Nat \ {0} /\ DOMAIN todo = 1..Len(todo)
    BY <2>1, EmptySeq, LenProperties
  <2>4. DOMAIN Tail(todo) = 1..(Len(todo) - 1)
    BY <2>2, LenProperties
  <2> QED BY <1>2, <2>2, <2>3, <2>4
<1>6. PICK x \in Shown : x = [view |-> Head(todo), stale |-> FALSE] /\ x.view = todo[1] /\ ~x.stale
  <2>1. PICK w \in Views : w = Head(todo) /\ w = todo[1]
    BY <1>5
  <2>2. [view |-> w, stale |-> FALSE] \in Shown
    BY DEF Shown
  <2>3. [view |-> w, stale |-> FALSE].view = w /\ ~[view |-> w, stale |-> FALSE].stale
    OBVIOUS
  <2> QED BY <2>1, <2>2, <2>3
<1>7. /\ frame' \in Seq(Shown) /\ Len(frame') = Len(frame) + 1
      /\ \A i \in 1..Len(frame) : frame'[i] = frame[i]
      /\ frame'[Len(frame) + 1] = x
  BY <1>2, <1>4, <1>6, AppendProperties
<1>8. DOMAIN frame' = 1..(Len(frame) + 1)
  BY <1>7, LenProperties
<1>9. GuiTypeOK' /\ ListRight'
  BY <1>1, <1>2, <1>5, <1>7 DEF GuiTypeOK, ListRight, ByPriority, Shown
<1>10. FromPlace(frame', views, t)
  <2> SUFFICES ASSUME NEW i \in 1..(Len(frame) + 1) PROVE frame'[i].view = views[t - 1 + i]
    BY <1>8 DEF FromPlace
  <2>1. CASE i \in 1..Len(frame)
    BY <1>3, <1>4, <1>7, <2>1 DEF FromPlace
  <2>2. CASE i = Len(frame) + 1
    <3>1. todo[1] = views[Len(frame) + (t - 1) + 1] /\ Len(frame) + (t - 1) + 1 = t - 1 + i
      BY <1>3, <1>4, <1>5, <2>2
    <3> QED BY <1>6, <1>7, <2>2, <3>1
  <2> QED BY <1>4, <2>1, <2>2
<1>11. Len(frame') + Len(todo') = Len(views) - t + 1
  <2>1. Len(frame') + Len(todo') = (Len(frame) + 1) + (Len(todo) - 1)
    BY <1>5, <1>7
  <2>2. (Len(frame) + 1) + (Len(todo) - 1) = Len(frame) + Len(todo)
    BY <1>4, <1>5
  <2> QED BY <1>3, <2>1, <2>2
<1>12. \A i \in DOMAIN todo' : todo'[i] = views[Len(frame') + (t - 1) + i]
  <2> SUFFICES ASSUME NEW i \in 1..(Len(todo) - 1)
               PROVE  todo'[i] = views[Len(frame') + (t - 1) + i]
    BY <1>5
  <2>1. todo[i + 1] = views[Len(frame) + (t - 1) + (i + 1)]
    BY <1>3, <1>5
  <2>2. Len(frame) + (t - 1) + (i + 1) = Len(frame') + (t - 1) + i
    BY <1>4, <1>7
  <2> QED BY <1>5, <2>1, <2>2
<1>13. DrawRight'
  <2>1. t \in TopOpaque' /\ guiPc' = "layout" /\ views' = views
    BY <1>2 DEF TopOpaque
  <2> QED BY <1>10, <1>11, <1>12, <2>1 DEF DrawRight
<1>14. StaleAnnounced'
  <2>1. ASSUME NEW w \in Views, HasStale(frame', w) PROVE HasStale(frame, w)
    <3>1. PICK i \in 1..(Len(frame) + 1) : frame'[i].view = w /\ frame'[i].stale
      BY <1>8, <2>1 DEF HasStale
    <3>2. i \in 1..Len(frame)
      BY <1>4, <1>6, <1>7, <3>1
    <3> QED BY <1>4, <1>7, <3>1, <3>2 DEF HasStale
  <2>2. \A w \in Views : Announced(w)' <=> Announced(w)
    BY <1>2 DEF Announced, ListDebt
  <2> QED BY <1>1, <1>2, <2>1, <2>2 DEF StaleAnnounced
<1> QED BY <1>9, <1>13, <1>14 DEF GuiInv

(* The frame is drawn and shown. *)
LEMMA ShowKeeps == GuiInv /\ (Render \/ PostLayout) => GuiInv'
<1> SUFFICES ASSUME GuiInv, Render \/ PostLayout PROVE GuiInv'
  OBVIOUS
<1>1. GuiTypeOK /\ ListRight /\ DrawRight /\ StaleAnnounced
  BY DEF GuiInv
<1>2. CASE Render
  <2>1. /\ guiPc = "layout" /\ todo = <<>> /\ guiPc' = "post"
        /\ UNCHANGED <<views, attached, debt, redraw, todo, frame, screen>>
    BY <1>2 DEF Render
  <2>2. GuiTypeOK' /\ ListRight'
    BY <1>1, <2>1 DEF GuiTypeOK, ListRight, ByPriority
  <2>3. TopOpaque' = TopOpaque
    BY <2>1 DEF TopOpaque
  <2>4. DrawRight'
    BY <1>1, <2>1, <2>3 DEF DrawRight
  <2>5. StaleAnnounced'
    BY <1>1, <2>1 DEF StaleAnnounced, Announced, ListDebt
  <2> QED BY <2>2, <2>4, <2>5 DEF GuiInv
<1>3. CASE PostLayout
  <2>1. /\ guiPc = "post" /\ guiPc' = "wait" /\ redraw' \in {redraw, TRUE}
        /\ screen' = frame /\ frame' = <<>>
        /\ UNCHANGED <<views, attached, debt, todo>>
    BY <1>3 DEF PostLayout
  <2>2. GuiTypeOK' /\ ListRight'
    <3>1. PICK e \in Seq(Shown) : e = <<>>
      BY EmptySeq
    <3>2. redraw' \in BOOLEAN
      BY <1>1, <2>1 DEF GuiTypeOK
    <3> QED BY <1>1, <2>1, <3>1, <3>2 DEF GuiTypeOK, ListRight, ByPriority, Shown
  <2>3. PICK t \in TopOpaque : FromPlace(frame, views, t) /\ Len(frame) + Len(todo) = Len(views) - t + 1
    BY <1>1, <2>1 DEF DrawRight
  <2>4. Len(todo) = 0 /\ Len(frame) \in Nat
    <3>1. todo = <<>>
      BY <1>1, <2>1 DEF DrawRight
    <3> QED BY <1>1, <3>1, LenProperties DEF GuiTypeOK
  <2>5. Len(frame) = Len(views) - t + 1
    BY <2>3, <2>4
  <2>6. DrawRight'
    <3>1. t \in TopOpaque'
      BY <2>1 DEF TopOpaque
    <3> QED BY <2>1, <2>3, <2>5, <3>1 DEF DrawRight
  <2>7. StaleAnnounced'
    <3>1. redraw => redraw'
      BY <2>1
    <3>2. \A w \in Views : Announced(w) => Announced(w)'
      BY <2>1, <3>1 DEF Announced, ListDebt
    <3> QED BY <1>1, <2>1, <3>2 DEF StaleAnnounced
  <2> QED BY <2>2, <2>6, <2>7 DEF GuiInv
<1> QED BY <1>2, <1>3

LEMMA GuiNextKeeps == GuiInv /\ [GuiNext]_guiVars => GuiInv'
<1> SUFFICES ASSUME GuiInv, [GuiNext]_guiVars PROVE GuiInv'
  OBVIOUS
<1>1. CASE UNCHANGED guiVars
  <2>1. UNCHANGED <<views, attached, debt, redraw, guiPc, todo, frame, screen>>
    BY <1>1 DEF guiVars
  <2>2. GuiTypeOK' /\ ListRight'
    BY <2>1 DEF GuiInv, GuiTypeOK, ListRight, ByPriority
  <2>3. TopOpaque' = TopOpaque /\ (ListDebt' <=> ListDebt) /\ \A w : Announced(w)' <=> Announced(w)
    BY <2>1 DEF TopOpaque, ListDebt, Announced
  <2>4. DrawRight'
    BY <2>1, <2>3 DEF GuiInv, DrawRight
  <2>5. StaleAnnounced'
    BY <2>1, <2>3 DEF GuiInv, StaleAnnounced
  <2> QED BY <2>2, <2>4, <2>5 DEF GuiInv
<1> QED BY <1>1, ListKeeps, ChangeModelKeeps, UpdateKeeps, InputKeeps, RedrawKeeps, LayoutKeeps,
           ShowKeeps DEF GuiNext

LEMMA GuiInvImplies == GuiInv => GuiTypeOK /\ ScreenCurrent
<1> SUFFICES ASSUME GuiInv, guiPc = "wait", ~redraw, \A v \in Views : debt[v] = "none"
             PROVE  /\ {screen[i].view : i \in DOMAIN screen} = Visible
                    /\ \A i \in DOMAIN screen : ~screen[i].stale
                    /\ \A i, j \in DOMAIN screen : i < j =>
                         Priority[screen[i].view] < Priority[screen[j].view]
  BY DEF GuiInv, ScreenCurrent
<1>1. GuiTypeOK /\ ListRight /\ DrawRight /\ StaleAnnounced
  BY DEF GuiInv
<1>2. ~ListDebt /\ \A v \in Views : ~Announced(v)
  BY DEF ListDebt, Announced
<1>3. PICK t \in TopOpaque : FromPlace(screen, views, t) /\ Len(screen) = Len(views) - t + 1
  BY <1>1, <1>2 DEF DrawRight
<1>4. /\ t \in 1..Len(views) /\ Len(views) \in Nat /\ DOMAIN screen = 1..(Len(views) - t + 1)
      /\ DOMAIN views = 1..Len(views) /\ screen \in Seq(Shown) /\ views \in Seq(Views)
  BY <1>1, <1>3, SomeTop, LenProperties DEF GuiTypeOK, Shown
<1>5. \A i \in DOMAIN screen : t - 1 + i \in DOMAIN views /\ screen[i].view = views[t - 1 + i]
  BY <1>3, <1>4 DEF FromPlace
<1>6. \A i \in DOMAIN views : views[i] \in Views /\ Priority[views[i]] \in Int
  BY <1>4, ElementOfSeq, GuiAssumption
<1>7. \A i \in DOMAIN screen : ~screen[i].stale
  <2> SUFFICES ASSUME NEW i \in DOMAIN screen, screen[i].stale PROVE FALSE
    OBVIOUS
  <2>1. PICK w \in Views : screen[i].view = w
    BY <1>5, <1>6
  <2> QED BY <1>1, <1>2, <2>1 DEF StaleAnnounced, HasStale
<1>8. \A i, j \in DOMAIN screen : i < j => Priority[screen[i].view] < Priority[screen[j].view]
  <2> SUFFICES ASSUME NEW i \in DOMAIN screen, NEW j \in DOMAIN screen, i < j
               PROVE  Priority[views[t - 1 + i]] < Priority[views[t - 1 + j]]
    BY <1>5
  <2>1. t - 1 + i < t - 1 + j
    BY <1>4
  <2> QED BY <1>1, <1>5, <2>1 DEF ListRight, ByPriority
<1>9. ASSUME NEW i \in DOMAIN screen PROVE screen[i].view \in Visible
  <2>1. PICK m \in DOMAIN views : m = t - 1 + i /\ screen[i].view = views[m] /\ m >= t
    BY <1>4, <1>5
  <2>2. views[m] \in attached
    BY <1>1 DEF ListRight
  <2>3. ASSUME NEW w \in attached \ Transparent PROVE Priority[w] <= Priority[views[m]]
    <3>1. PICK k \in DOMAIN views : w = views[k]
      BY <1>1 DEF ListRight
    <3>2. k <= t
      <4> SUFFICES ASSUME k > t PROVE FALSE
        BY <1>4
      <4>1. k \in t + 1..Len(views)
        BY <1>4
      <4> QED BY <2>3, <3>1, <4>1 DEF TopOpaque
    <3>3. k < m \/ k = m
      BY <1>4, <2>1, <3>2
    <3>4. Priority[views[k]] < Priority[views[m]] \/ k = m
      BY <1>1, <3>3 DEF ListRight, ByPriority
    <3> QED BY <1>6, <3>1, <3>4
  <2> QED BY <2>1, <2>2, <2>3 DEF Visible
<1>10. ASSUME NEW v \in Visible PROVE \E i \in DOMAIN screen : v = screen[i].view
  <2>1. PICK m \in DOMAIN views : v = views[m]
    BY <1>1 DEF Visible, ListRight
  <2>2. t \in DOMAIN views /\ views[t] \in attached \ Transparent
    BY <1>1, <1>4 DEF TopOpaque, ListRight
  <2>3. Priority[views[t]] <= Priority[views[m]]
    BY <2>1, <2>2 DEF Visible
  <2>4. m >= t
    <3> SUFFICES ASSUME m < t PROVE FALSE
      BY <1>4
    <3>1. Priority[views[m]] < Priority[views[t]]
      BY <1>1, <2>2 DEF ListRight, ByPriority
    <3> QED BY <1>6, <2>2, <2>3, <3>1
  <2>5. m - t + 1 \in DOMAIN screen /\ t - 1 + (m - t + 1) = m
    <3>1. m \in 1..Len(views) /\ t \in 1..Len(views) /\ Len(views) \in Nat
      BY <1>4
    <3>2. m - t + 1 \in 1..(Len(views) - t + 1)
      BY <2>4, <3>1
    <3>3. t - 1 + (m - t + 1) = m
      BY <3>1
    <3> QED BY <1>4, <3>2, <3>3
  <2> QED BY <1>5, <2>1, <2>5
<1>11. {screen[i].view : i \in DOMAIN screen} = Visible
  BY <1>9, <1>10
<1> QED BY <1>7, <1>8, <1>11

(* For any views, any priorities and any of them transparent: when the gui *)
(* is idle, its flag is clear and no owner has yet to announce a change,   *)
(* the screen shows the topmost opaque view and those above it, in order   *)
(* of priority, with the last content of their models, whatever was added, *)
(* removed or changed while a frame was drawn (gui_redraw_logic,           *)
(* gui_update, view_update).                                               *)
THEOREM ScreenIsCurrent == GuiSpec => [](GuiTypeOK /\ ScreenCurrent)
<1>1. GuiInit => GuiInv
  BY GuiStarts
<1>2. GuiInv /\ [GuiNext]_guiVars => GuiInv'
  BY GuiNextKeeps
<1>3. GuiInv => GuiTypeOK /\ ScreenCurrent
  BY GuiInvImplies
<1> QED BY <1>1, <1>2, <1>3, PTL DEF GuiSpec

-----------------------------------------------------------------------------
(***************************************************************************)
(* Calls of a service.  A call that is waited for is in the queue once or  *)
(* at the service, or it has been answered.                                *)
(***************************************************************************)
CallOf(m, c) == m.from = c /\ Locked(m.msg)

AtService(c) == server.at \in {"handle", "unlock"} /\ CallOf(server, c)

(* The lock and the stack of client c are there for its call of msg. *)
Held(c, msg) == client[c].at = "wait" /\ client[c].lock = "locked" /\ client[c].msg = msg

(* Whatever has a lock finds it locked and its caller waiting, and nobody  *)
(* waits for an answer that will not come.                                 *)
LocksKept ==
  /\ \A c \in Clients, m \in Messages : AtService(c) /\ server.msg = m => Held(c, m)
  /\ \A i \in DOMAIN box : \A c \in Clients, m \in Messages :
       CallOf(box[i], c) /\ box[i].msg = m => Held(c, m) /\ ~AtService(c)
  /\ \A i, j \in DOMAIN box : \A c \in Clients : CallOf(box[i], c) /\ CallOf(box[j], c) => i = j
  /\ \A c \in Clients : client[c].at = "wait" =>
       \/ client[c].lock = "unlocked"
       \/ AtService(c)
       \/ \E i \in DOMAIN box : CallOf(box[i], c)

CallsInv ==
  /\ CallsTypeOK /\ LocksKept
  /\ server.at = "unlock" => Locked(server.msg)
  /\ \A c \in Clients : client[c].at = "put" /\ Locked(client[c].msg) => client[c].lock = "locked"
ClientRecords == [at : {"out", "opening", "in", "put", "wait"}, msg : Messages,
                  lock : {"none", "locked", "unlocked"}, result : Values \union {Failed}]

LEMMA MessageArgs ==
  ASSUME NEW m \in Messages
  PROVE  m.op \in {"get", "post", "write"} /\ (m.op # "get" => m.arg \in Values)
BY DEF Messages

Entries == [from : Clients, msg : Messages]

LEMMA CallsAreTyped ==
  ASSUME CallsInv
  PROVE  /\ server.msg \in Messages
         /\ \A i \in DOMAIN box : box[i] \in Entries /\ box[i].msg \in Messages
<1>1. box \in Seq(Entries) /\ server.msg \in Messages
  BY DEF CallsInv, CallsTypeOK, Entries
<1>2. \A i \in 1..Len(box) : box[i] \in Entries
  BY <1>1, ElementOfSeq
<1>3. DOMAIN box = 1..Len(box)
  BY <1>1, LenProperties
<1> QED BY <1>1, <1>2, <1>3 DEF Entries

LEMMA CallsStart == CallsInit => CallsInv
<1> SUFFICES ASSUME CallsInit PROVE CallsInv
  OBVIOUS
<1>1. PICK d \in Clients : d = CHOOSE c \in Clients : TRUE
  BY CallsAssumption
<1>2. value \in Values
  BY CallsAssumption DEF CallsInit
<1>3. NoMessage \in Messages
  BY DEF NoMessage, Messages
<1>4. client \in [Clients -> ClientRecords] /\ \A c \in Clients : client[c].at = "out"
  BY <1>3 DEF CallsInit, Idle, ClientRecords
<1>5. Cardinality({c \in Clients : client[c].at # "out"}) = 0
  <2>1. {c \in Clients : client[c].at # "out"} = {}
    BY <1>4
  <2> QED BY <2>1, FS_EmptySet
<1>6. PICK e \in Seq([from : Clients, msg : Messages]) : e = <<>> /\ Len(e) = 0
  BY EmptySeq
<1>11. DOMAIN e = {}
  <2>1. DOMAIN e = 1..0
    BY <1>6, LenProperties
  <2> QED BY <2>1
<1>7. box = e /\ server \in [at : {"start", "loop", "handle", "unlock"}, from : Clients, msg : Messages]
      /\ server.at = "start"
  BY <1>1, <1>3, <1>6 DEF CallsInit
<1>8. record \in [ready : BOOLEAN, holders : Nat] /\ record.holders = 0
  BY DEF CallsInit
<1>9. CallsTypeOK
  BY <1>2, <1>4, <1>5, <1>6, <1>7, <1>8, CallsAssumption DEF CallsTypeOK, ClientRecords
<1>10. LocksKept
  BY <1>4, <1>11, <1>7 DEF LocksKept, AtService
<1> QED BY <1>4, <1>7, <1>9, <1>10 DEF CallsInv

(* A client that comes or goes is counted. *)
LEMMA HoldersCounted ==
  ASSUME NEW f \in [Clients -> ClientRecords], NEW g \in [Clients -> ClientRecords], NEW c \in Clients,
         \A d \in Clients \ {c} : g[d] = f[d]
  PROVE  LET before == Cardinality({d \in Clients : f[d].at # "out"})
             after  == Cardinality({d \in Clients : g[d].at # "out"}) IN
         /\ before \in Nat /\ after \in Nat
         /\ f[c].at # "out" /\ g[c].at # "out" => after = before
         /\ f[c].at = "out" /\ g[c].at # "out" => after = before + 1
         /\ f[c].at # "out" /\ g[c].at = "out" => after = before - 1
<1> DEFINE B == {d \in Clients : f[d].at # "out"}
           A == {d \in Clients : g[d].at # "out"}
<1>1. IsFiniteSet(A) /\ IsFiniteSet(B)
  BY CallsAssumption, FS_Subset
<1>2. ASSUME f[c].at # "out", g[c].at # "out" PROVE A = B
  BY <1>2
<1>3. ASSUME f[c].at = "out", g[c].at # "out" PROVE A = B \union {c} /\ c \notin B
  BY <1>3
<1>4. ASSUME f[c].at # "out", g[c].at = "out" PROVE A = B \ {c} /\ c \in B
  BY <1>4
<1> HIDE DEF A, B
<1>5. Cardinality(A) \in Nat /\ Cardinality(B) \in Nat
  BY <1>1, FS_CardinalityType
<1>6. ASSUME f[c].at = "out", g[c].at # "out" PROVE Cardinality(A) = Cardinality(B) + 1
  <2>1. Cardinality(B \union {c}) = IF c \in B THEN Cardinality(B) ELSE Cardinality(B) + 1
    BY <1>1, FS_AddElement
  <2> QED BY <1>3, <1>6, <2>1
<1>7. ASSUME f[c].at # "out", g[c].at = "out" PROVE Cardinality(A) = Cardinality(B) - 1
  <2>1. Cardinality(B \ {c}) = IF c \in B THEN Cardinality(B) - 1 ELSE Cardinality(B)
    BY <1>1, FS_RemoveElement
  <2> QED BY <1>4, <1>7, <2>1
<1> QED BY <1>2, <1>5, <1>6, <1>7 DEF A, B

(* A client that holds no lock in the queue moves, and does not wait.      *)
LEMMA ClientMoves ==
  ASSUME CallsInv, NEW c \in Clients, NEW r \in ClientRecords,
         client' = [client EXCEPT ![c] = r], UNCHANGED <<box, server, value>>,
         record' \in [ready : BOOLEAN, holders : Nat],
         record'.holders = Cardinality({d \in Clients : client'[d].at # "out"}),
         client[c].at = "wait" => client[c].lock = "unlocked",
         r.at # "wait", r.at = "put" /\ Locked(r.msg) => r.lock = "locked"
  PROVE  CallsInv'
<1>1. /\ client \in [Clients -> ClientRecords] /\ client' \in [Clients -> ClientRecords]
      /\ client'[c] = r /\ \A d \in Clients \ {c} : client'[d] = client[d]
  BY DEF CallsInv, CallsTypeOK, ClientRecords
<1>2. CallsTypeOK'
  BY <1>1 DEF CallsInv, CallsTypeOK, ClientRecords
<1>3. \A m : ~Held(c, m)
  BY DEF Held
<1>4. /\ \A d \in Clients : AtService(d)' <=> AtService(d)
      /\ \A d \in Clients \ {c} : \A m : Held(d, m)' <=> Held(d, m)
  BY <1>1 DEF AtService, Held
<1>5. /\ ~AtService(c) /\ \A i \in DOMAIN box : ~CallOf(box[i], c)
  BY <1>3, CallsAreTyped DEF CallsInv, LocksKept
<1>6. LocksKept'
  <2>1. \A d \in Clients, m \in Messages : AtService(d) /\ server.msg = m => Held(d, m)'
    BY <1>4, <1>5 DEF CallsInv, LocksKept
  <2>2. \A i \in DOMAIN box : \A d \in Clients, m \in Messages :
          CallOf(box[i], d) /\ box[i].msg = m => Held(d, m)' /\ ~AtService(d)
    BY <1>4, <1>5 DEF CallsInv, LocksKept
  <2>3. \A d \in Clients : client'[d].at = "wait" =>
          client'[d].lock = "unlocked" \/ AtService(d) \/ \E i \in DOMAIN box : CallOf(box[i], d)
    BY <1>1 DEF CallsInv, LocksKept
  <2> QED BY <1>4, <2>1, <2>2, <2>3 DEF CallsInv, LocksKept
<1>7. \A d \in Clients : client'[d].at = "put" /\ Locked(client'[d].msg) => client'[d].lock = "locked"
  BY <1>1 DEF CallsInv
<1> QED BY <1>2, <1>6, <1>7 DEF CallsInv

LEMMA ClientKeeps ==
  ASSUME CallsInv, NEW c \in Clients,
         RecordOpen(c) \/ RecordReady(c) \/ RecordClose(c) \/ Call(c) \/ WaitUnlock(c)
  PROVE  CallsInv'
<1>1. /\ client \in [Clients -> ClientRecords] /\ client[c] \in ClientRecords
      /\ record \in [ready : BOOLEAN, holders : Nat]
      /\ record.holders = Cardinality({d \in Clients : client[d].at # "out"})
  BY DEF CallsInv, CallsTypeOK, ClientRecords
<1>2. ASSUME NEW r \in ClientRecords, client' = [client EXCEPT ![c] = r],
             \/ client[c].at # "out" /\ r.at # "out" /\ record' = record
             \/ client[c].at = "out" /\ r.at # "out" /\ record' = [record EXCEPT !.holders = @ + 1]
             \/ client[c].at # "out" /\ r.at = "out" /\ record' = [record EXCEPT !.holders = @ - 1]
      PROVE  /\ record' \in [ready : BOOLEAN, holders : Nat]
             /\ record'.holders = Cardinality({d \in Clients : client'[d].at # "out"})
  <2>1. PICK g \in [Clients -> ClientRecords] : g = client' /\ g[c] = r /\ \A d \in Clients \ {c} : g[d] = client[d]
    BY <1>1, <1>2
  <2>2. PICK f \in [Clients -> ClientRecords] : f = client
    BY <1>1
  <2>3. LET before == Cardinality({d \in Clients : f[d].at # "out"})
            after  == Cardinality({d \in Clients : g[d].at # "out"}) IN
        /\ before \in Nat /\ after \in Nat
        /\ f[c].at # "out" /\ g[c].at # "out" => after = before
        /\ f[c].at = "out" /\ g[c].at # "out" => after = before + 1
        /\ f[c].at # "out" /\ g[c].at = "out" => after = before - 1
    <3>1. \A d \in Clients \ {c} : g[d] = f[d]
      BY <2>1, <2>2
    <3> QED BY <3>1, HoldersCounted
  <2>4. PICK n \in Nat : n = Cardinality({d \in Clients : f[d].at # "out"}) /\ record.holders = n
    BY <1>1, <2>2, <2>3
  <2>5. PICK m \in Nat : m = Cardinality({d \in Clients : g[d].at # "out"})
    BY <2>3
  <2>6. /\ f[c].at # "out" /\ g[c].at # "out" => m = n
        /\ f[c].at = "out" /\ g[c].at # "out" => m = n + 1
        /\ f[c].at # "out" /\ g[c].at = "out" => m = n - 1
    BY <2>3, <2>4, <2>5
  <2>7. record' \in [ready : BOOLEAN, holders : Nat] /\ record'.holders = m
    BY <1>1, <1>2, <2>1, <2>2, <2>4, <2>6
  <2> QED BY <2>1, <2>5, <2>7
<1>3. \A w \in {"out", "in"} : Idle(w) \in ClientRecords /\ Idle(w).at = w
  BY DEF Idle, NoMessage, Messages, ClientRecords
<1>9. \A w \in {"opening", "in", "out"} :
        [client[c] EXCEPT !.at = w] \in ClientRecords /\ [client[c] EXCEPT !.at = w].at = w
  BY <1>1 DEF ClientRecords
<1>4. CASE RecordOpen(c)
  <2>1. PICK r \in ClientRecords : r = [client[c] EXCEPT !.at = "opening"] /\ r.at = "opening"
    BY <1>9
  <2>2. /\ client' = [client EXCEPT ![c] = r] /\ UNCHANGED <<box, server, value>>
        /\ client[c].at = "out" /\ record' = [record EXCEPT !.holders = @ + 1]
    BY <1>1, <1>4, <2>1 DEF RecordOpen
  <2>3. /\ record' \in [ready : BOOLEAN, holders : Nat]
        /\ record'.holders = Cardinality({d \in Clients : client'[d].at # "out"})
    BY <1>2, <2>1, <2>2
  <2> QED BY <2>1, <2>2, <2>3, ClientMoves
<1>5. CASE RecordReady(c)
  <2>1. PICK r \in ClientRecords : r = [client[c] EXCEPT !.at = "in"] /\ r.at = "in"
    BY <1>9
  <2>2. /\ client' = [client EXCEPT ![c] = r] /\ UNCHANGED <<box, server, value>>
        /\ client[c].at = "opening" /\ record' = record
    BY <1>1, <1>5, <2>1 DEF RecordReady
  <2>3. /\ record' \in [ready : BOOLEAN, holders : Nat]
        /\ record'.holders = Cardinality({d \in Clients : client'[d].at # "out"})
    BY <1>2, <2>1, <2>2
  <2> QED BY <2>1, <2>2, <2>3, ClientMoves
<1>6. CASE RecordClose(c)
  <2>1. PICK r \in ClientRecords : r = [client[c] EXCEPT !.at = "out"] /\ r.at = "out"
    BY <1>9
  <2>2. /\ client' = [client EXCEPT ![c] = r] /\ UNCHANGED <<box, server, value>>
        /\ client[c].at = "in" /\ record' = [record EXCEPT !.holders = @ - 1]
    BY <1>1, <1>6, <2>1 DEF RecordClose
  <2>3. /\ record' \in [ready : BOOLEAN, holders : Nat]
        /\ record'.holders = Cardinality({d \in Clients : client'[d].at # "out"})
    BY <1>2, <2>1, <2>2
  <2> QED BY <2>1, <2>2, <2>3, ClientMoves
<1>7. CASE Call(c)
  <2>1. PICK msg \in Messages :
          client' = [client EXCEPT ![c] = [at |-> "put", msg |-> msg, result |-> Failed,
                                           lock |-> IF Locked(msg) THEN "locked" ELSE "none"]]
    BY <1>7 DEF Call
  <2>2. PICK k \in {"none", "locked"} : k = IF Locked(msg) THEN "locked" ELSE "none"
    OBVIOUS
  <2>3. PICK r \in ClientRecords :
          /\ r = [at |-> "put", msg |-> msg, result |-> Failed, lock |-> k]
          /\ r.at = "put" /\ r.msg = msg /\ r.lock = k
    <3>1. [at |-> "put", msg |-> msg, result |-> Failed, lock |-> k] \in ClientRecords
      BY DEF ClientRecords
    <3> QED BY <3>1
  <2>4. /\ client' = [client EXCEPT ![c] = r] /\ UNCHANGED <<box, server, value>>
        /\ client[c].at = "in" /\ record' = record
    BY <1>7, <2>1, <2>2, <2>3 DEF Call
  <2>5. /\ record' \in [ready : BOOLEAN, holders : Nat]
        /\ record'.holders = Cardinality({d \in Clients : client'[d].at # "out"})
    BY <1>2, <2>3, <2>4
  <2> QED BY <2>2, <2>3, <2>4, <2>5, ClientMoves
<1>8. CASE WaitUnlock(c)
  <2>1. PICK r \in ClientRecords : r = Idle("in") /\ r.at = "in"
    BY <1>3
  <2>2. /\ client' = [client EXCEPT ![c] = r] /\ UNCHANGED <<box, server, value>>
        /\ client[c].at = "wait" /\ client[c].lock = "unlocked" /\ record' = record
    BY <1>1, <1>8, <2>1 DEF WaitUnlock
  <2>3. /\ record' \in [ready : BOOLEAN, holders : Nat]
        /\ record'.holders = Cardinality({d \in Clients : client'[d].at # "out"})
    BY <1>2, <2>1, <2>2
  <2> QED BY <2>1, <2>2, <2>3, ClientMoves
<1> QED BY <1>4, <1>5, <1>6, <1>7, <1>8

LEMMA PutKeeps ==
  ASSUME CallsInv, NEW c \in Clients, Put(c)
  PROVE  CallsInv'
<1>1. /\ client \in [Clients -> ClientRecords] /\ client[c] \in ClientRecords
      /\ box \in Seq(Entries) /\ Len(box) \in Nat /\ DOMAIN box = 1..Len(box)
      /\ CallsTypeOK /\ LocksKept
  BY LenProperties DEF CallsInv, CallsTypeOK, ClientRecords, Entries
<1>2. /\ client[c].at = "put" /\ Len(box) < MaxMessages
      /\ box' = Append(box, [from |-> c, msg |-> client[c].msg])
      /\ UNCHANGED <<record, server, value>>
  BY DEF Put
<1>15. PICK n \in Messages : n = client[c].msg
  BY <1>1 DEF ClientRecords
<1>3. PICK x \in Entries : x = [from |-> c, msg |-> client[c].msg] /\ x.from = c /\ x.msg = n
  <2>1. [from |-> c, msg |-> n] \in Entries
    BY DEF Entries
  <2> QED BY <1>15, <2>1
<1>4. /\ box' \in Seq(Entries) /\ Len(box') = Len(box) + 1 /\ DOMAIN box' = 1..(Len(box) + 1)
      /\ \A i \in 1..Len(box) : box'[i] = box[i]
      /\ box'[Len(box) + 1] = x
  <2>1. /\ box' \in Seq(Entries) /\ Len(box') = Len(box) + 1
        /\ \A i \in 1..Len(box) : box'[i] = box[i]
        /\ box'[Len(box) + 1] = x
    BY <1>1, <1>2, <1>3, AppendProperties
  <2>2. DOMAIN box' = 1..Len(box')
    BY <2>1, LenProperties
  <2> QED BY <2>1, <2>2
<1>5. PICK r \in ClientRecords :
        /\ client' = [client EXCEPT ![c] = r]
        /\ IF Locked(n) THEN r.at = "wait" /\ r.msg = n /\ r.lock = client[c].lock
                            ELSE r.at = "in"
  <2>1. Idle("in") \in ClientRecords /\ Idle("in").at = "in"
    BY DEF Idle, NoMessage, Messages, ClientRecords
  <2>2. LET w == [client[c] EXCEPT !.at = "wait"] IN
        w \in ClientRecords /\ w.at = "wait" /\ w.msg = client[c].msg /\ w.lock = client[c].lock
    BY <1>1 DEF ClientRecords
  <2>5. \E r \in ClientRecords : r = [client[c] EXCEPT !.at = "wait"]
    BY <2>2
  <2>6. \E r \in ClientRecords : r = Idle("in")
    BY <2>1
  <2>3. CASE Locked(n)
    <3>1. client' = [client EXCEPT ![c] = [client[c] EXCEPT !.at = "wait"]]
      BY <1>1, <1>3, <2>3 DEF Put
    <3> QED BY <1>3, <2>2, <2>3, <3>1
  <2>4. CASE ~Locked(n)
    <3>1. client' = [client EXCEPT ![c] = Idle("in")]
      BY <1>1, <1>3, <2>4 DEF Put
    <3> QED BY <2>1, <2>4, <3>1
  <2> QED BY <2>3, <2>4
<1>6. /\ client' \in [Clients -> ClientRecords] /\ client'[c] = r
      /\ \A d \in Clients \ {c} : client'[d] = client[d]
  BY <1>1, <1>5
<1>7. {d \in Clients : client'[d].at # "out"} = {d \in Clients : client[d].at # "out"}
  BY <1>2, <1>5, <1>6
<1>8. CallsTypeOK'
  <2>1. Len(box') =< MaxMessages
    BY <1>1, <1>2, <1>4, CallsAssumption
  <2> QED BY <1>1, <1>2, <1>4, <1>6, <1>7, <2>1 DEF CallsTypeOK, ClientRecords, Entries
<1>9. /\ \A m : ~Held(c, m)
      /\ \A d \in Clients : AtService(d)' <=> AtService(d)
      /\ \A d \in Clients \ {c} : \A m : Held(d, m)' <=> Held(d, m)
  BY <1>2, <1>6 DEF Held, AtService
<1>10. ~AtService(c) /\ \A i \in DOMAIN box : ~CallOf(box[i], c)
  BY <1>1, <1>9, CallsAreTyped DEF LocksKept
<1>11. Locked(n) => Held(c, n)'
  BY <1>2, <1>15, <1>5, <1>6 DEF CallsInv, Held
<1>12. \A d \in Clients : CallOf(x, d) => d = c /\ Locked(n)
  BY <1>3 DEF CallOf
<1>13. LocksKept'
  <2>1. \A d \in Clients, m \in Messages : AtService(d)' /\ server'.msg = m => Held(d, m)'
    BY <1>1, <1>2, <1>9, <1>10 DEF LocksKept
  <2>2. ASSUME NEW i \in DOMAIN box', NEW d \in Clients, NEW m \in Messages,
               CallOf(box'[i], d), box'[i].msg = m
        PROVE  Held(d, m)' /\ ~AtService(d)'
    <3>1. CASE i = Len(box) + 1
      <4>1. d = c /\ Locked(n) /\ m = n
        BY <1>3, <1>4, <1>12, <2>2, <3>1
      <4> QED BY <1>9, <1>10, <1>11, <4>1
    <3>2. CASE i \in 1..Len(box)
      <4>1. CallOf(box[i], d) /\ box'[i] = box[i] /\ d # c
        BY <1>1, <1>4, <1>10, <2>2, <3>2
      <4>2. Held(d, m) /\ ~AtService(d)
        BY <1>1, <2>2, <3>2, <4>1 DEF LocksKept
      <4> QED BY <1>9, <4>1, <4>2
    <3> QED BY <1>1, <1>4, <3>1, <3>2
  <2>3. ASSUME NEW i \in DOMAIN box', NEW j \in DOMAIN box', NEW d \in Clients,
               CallOf(box'[i], d), CallOf(box'[j], d)
        PROVE  i = j
    <3>1. CASE i = Len(box) + 1
      <4>1. d = c
        BY <1>4, <1>12, <2>3, <3>1
      <4>2. j \notin 1..Len(box)
        BY <1>1, <1>4, <1>10, <2>3, <4>1
      <4> QED BY <1>1, <1>4, <3>1, <4>2
    <3>2. CASE i \in 1..Len(box)
      <4>1. d # c
        BY <1>1, <1>4, <1>10, <2>3, <3>2
      <4>2. j \in 1..Len(box)
        BY <1>1, <1>4, <1>12, <2>3, <4>1
      <4> QED BY <1>1, <1>4, <2>3, <3>2, <4>2 DEF LocksKept
    <3> QED BY <1>1, <1>4, <3>1, <3>2
  <2>4. ASSUME NEW d \in Clients, client'[d].at = "wait"
        PROVE  \/ client'[d].lock = "unlocked"
               \/ AtService(d)'
               \/ \E i \in DOMAIN box' : CallOf(box'[i], d)
    <3>1. CASE d = c
      <4>1. CallOf(x, c)
        BY <1>3, <1>5, <1>6, <2>4, <3>1 DEF CallOf
      <4> QED BY <1>1, <1>4, <3>1, <4>1
    <3>2. CASE d # c
      <4>1. \/ client[d].lock = "unlocked"
            \/ AtService(d)
            \/ \E i \in DOMAIN box : CallOf(box[i], d)
        BY <1>1, <1>6, <2>4, <3>2 DEF LocksKept
      <4>2. \A i \in DOMAIN box : i \in DOMAIN box' /\ box'[i] = box[i]
        BY <1>1, <1>4
      <4> QED BY <1>6, <1>9, <3>2, <4>1, <4>2
    <3> QED BY <3>1, <3>2
  <2> QED BY <2>1, <2>2, <2>3, <2>4 DEF LocksKept
<1>14. /\ server'.at = "unlock" => Locked(server'.msg)
       /\ \A d \in Clients : client'[d].at = "put" /\ Locked(client'[d].msg) => client'[d].lock = "locked"
  BY <1>2, <1>5, <1>6 DEF CallsInv
<1> QED BY <1>8, <1>13, <1>14 DEF CallsInv

LEMMA TakeKeeps == CallsInv /\ Take => CallsInv'
<1> SUFFICES ASSUME CallsInv, Take PROVE CallsInv'
  OBVIOUS
<1>1. /\ box \in Seq(Entries) /\ Len(box) \in Nat /\ DOMAIN box = 1..Len(box)
      /\ CallsTypeOK /\ LocksKept
  BY LenProperties DEF CallsInv, CallsTypeOK, Entries
<1>2. /\ server.at = "loop" /\ box # <<>> /\ box' = Tail(box)
      /\ server' = [at |-> "handle", from |-> Head(box).from, msg |-> Head(box).msg]
      /\ UNCHANGED <<record, client, value>>
  BY DEF Take
<1>3. /\ Head(box) = box[1] /\ Head(box) \in Entries /\ 1 \in DOMAIN box
      /\ box' \in Seq(Entries) /\ Len(box') = Len(box) - 1 /\ DOMAIN box' = 1..(Len(box) - 1)
      /\ \A i \in 1..(Len(box) - 1) : box'[i] = box[i + 1]
  <2>1. /\ Head(box) \in Entries /\ Tail(box) \in Seq(Entries)
        /\ Len(Tail(box)) = Len(box) - 1 /\ Head(box) = box[1]
        /\ \A i \in 1..Len(Tail(box)) : Tail(box)[i] = box[i + 1]
    BY <1>1, <1>2, HeadTailProperties, ElementOfSeq, EmptySeq
  <2>2. Len(box) \in Nat \ {0}
    BY <1>1, <1>2, EmptySeq
  <2>3. DOMAIN Tail(box) = 1..(Len(box) - 1)
    BY <2>1, LenProperties
  <2> QED BY <1>1, <1>2, <2>1, <2>2, <2>3
<1>4. PICK x \in Entries : x = box[1] /\ server' = [at |-> "handle", from |-> x.from, msg |-> x.msg]
  <2>1. PICK x \in Entries : x = Head(box)
    BY <1>3
  <2> QED BY <1>2, <1>3, <2>1
<1>5. /\ server' \in [at : {"start", "loop", "handle", "unlock"}, from : Clients, msg : Messages]
      /\ server'.at = "handle" /\ server'.from = x.from /\ server'.msg = x.msg
  BY <1>4 DEF Entries
<1>6. CallsTypeOK'
  <2>1. Len(box') =< MaxMessages
    BY <1>1, <1>3, CallsAssumption DEF CallsTypeOK
  <2>2. box' \in Seq(Entries)
    BY <1>3
  <2> QED BY <1>1, <1>2, <1>5, <2>1, <2>2 DEF CallsTypeOK, Entries
<1>7. /\ \A d \in Clients : ~AtService(d) /\ (AtService(d)' <=> CallOf(x, d))
      /\ \A d \in Clients : \A m : Held(d, m)' <=> Held(d, m)
  BY <1>2, <1>5 DEF AtService, Held, CallOf
<1>8. \A i \in DOMAIN box' : i + 1 \in DOMAIN box /\ box'[i] = box[i + 1] /\ i + 1 # 1
  BY <1>1, <1>3
<1>9. LocksKept'
  <2>1. \A d \in Clients, m \in Messages : AtService(d)' /\ server'.msg = m => Held(d, m)'
    BY <1>1, <1>3, <1>4, <1>5, <1>7 DEF LocksKept
  <2>2. ASSUME NEW i \in DOMAIN box', NEW d \in Clients, NEW m \in Messages,
               CallOf(box'[i], d), box'[i].msg = m
        PROVE  Held(d, m)' /\ ~AtService(d)'
    <3>1. CallOf(box[i + 1], d) /\ box[i + 1].msg = m /\ i + 1 \in DOMAIN box /\ i + 1 # 1
      BY <1>8, <2>2
    <3>2. ~CallOf(x, d)
      BY <1>1, <1>3, <1>4, <3>1 DEF LocksKept
    <3>3. Held(d, m)
      BY <1>1, <3>1 DEF LocksKept
    <3> QED BY <1>7, <1>8, <3>2, <3>3
  <2>3. ASSUME NEW i \in DOMAIN box', NEW j \in DOMAIN box', NEW d \in Clients,
               CallOf(box'[i], d), CallOf(box'[j], d)
        PROVE  i = j
    <3>1. i + 1 = j + 1
      BY <1>1, <1>8, <2>3 DEF LocksKept
    <3> QED BY <1>1, <1>3, <3>1
  <2>4. ASSUME NEW d \in Clients, client'[d].at = "wait", client'[d].lock # "unlocked", ~AtService(d)'
        PROVE  \E i \in DOMAIN box' : CallOf(box'[i], d)
    <3>1. PICK i \in DOMAIN box : CallOf(box[i], d)
      BY <1>1, <1>2, <1>7, <2>4 DEF LocksKept
    <3>2. i # 1
      BY <1>4, <1>7, <2>4, <3>1
    <3>3. i - 1 \in DOMAIN box' /\ (i - 1) + 1 = i
      BY <1>1, <1>3, <3>2
    <3>4. box'[i - 1] = box[i]
      BY <1>8, <3>3
    <3> QED BY <3>1, <3>3, <3>4
  <2> QED BY <2>1, <2>2, <2>3, <2>4 DEF LocksKept
<1> QED BY <1>2, <1>5, <1>6, <1>9 DEF CallsInv

(* The lock of a client at the service opens, or its result is written,    *)
(* and nothing else of a client changes.                                   *)
LEMMA HandleKeeps == CallsInv /\ Handle => CallsInv'
<1> SUFFICES ASSUME CallsInv, Handle PROVE CallsInv'
  OBVIOUS
<1>1. /\ client \in [Clients -> ClientRecords] /\ value \in Values
      /\ server \in [at : {"start", "loop", "handle", "unlock"}, from : Clients, msg : Messages]
      /\ CallsTypeOK /\ LocksKept
  BY DEF CallsInv, CallsTypeOK, ClientRecords
<1>2. PICK e \in Clients, n \in Messages : e = server.from /\ n = server.msg
  BY <1>1
<1>3. PICK ok \in BOOLEAN :
        /\ value' = IF ok /\ server.msg.op # "get" THEN server.msg.arg ELSE value
        /\ client' = IF Locked(server.msg)
                     THEN [client EXCEPT ![server.from].result = IF ok THEN value' ELSE Failed]
                     ELSE client
  BY DEF Handle
<1>4. /\ server.at = "handle" /\ UNCHANGED <<record, box>>
      /\ server' = [server EXCEPT !.at = IF Locked(server.msg) THEN "unlock" ELSE "loop"]
  BY DEF Handle
<1>5. value' \in Values
  BY <1>1, <1>2, <1>3, MessageArgs
<1>6. PICK a \in {"unlock", "loop"} : a = IF Locked(n) THEN "unlock" ELSE "loop"
  OBVIOUS
<1>7. /\ server' \in [at : {"start", "loop", "handle", "unlock"}, from : Clients, msg : Messages]
      /\ server'.at = a /\ server'.from = e /\ server'.msg = n
  BY <1>1, <1>2, <1>4, <1>6
<1>8. PICK v \in Values \union {Failed} : v = IF ok THEN value' ELSE Failed
  BY <1>5
<1>9. client' = IF Locked(n) THEN [client EXCEPT ![e].result = v] ELSE client
  BY <1>2, <1>3, <1>8
<1>10. /\ client' \in [Clients -> ClientRecords]
       /\ \A d \in Clients : /\ client'[d].at = client[d].at /\ client'[d].msg = client[d].msg
                             /\ client'[d].lock = client[d].lock
  <2>1. CASE Locked(n)
    <3>1. PICK r \in ClientRecords : r = [client[e] EXCEPT !.result = v]
      BY <1>1 DEF ClientRecords
    <3>2. client' = [client EXCEPT ![e] = r]
      BY <1>1, <1>9, <2>1, <3>1
    <3>3. r.at = client[e].at /\ r.msg = client[e].msg /\ r.lock = client[e].lock
      BY <1>1, <3>1 DEF ClientRecords
    <3> QED BY <1>1, <3>2, <3>3
  <2>2. CASE ~Locked(n)
    BY <1>1, <1>9, <2>2
  <2> QED BY <2>1, <2>2
<1>11. {d \in Clients : client'[d].at # "out"} = {d \in Clients : client[d].at # "out"}
  BY <1>10
<1>12. CallsTypeOK'
  BY <1>1, <1>4, <1>5, <1>7, <1>10, <1>11 DEF CallsTypeOK, ClientRecords
<1>13. /\ \A d \in Clients : AtService(d)' <=> AtService(d)
       /\ \A d \in Clients : \A m : Held(d, m)' <=> Held(d, m)
  BY <1>2, <1>4, <1>6, <1>7, <1>10 DEF AtService, CallOf, Held
<1>14. server'.msg = server.msg /\ box' = box
  BY <1>2, <1>4, <1>7
<1>15. LocksKept'
  BY <1>1, <1>10, <1>13, <1>14 DEF LocksKept
<1>16. /\ server'.at = "unlock" => Locked(server'.msg)
       /\ \A d \in Clients : client'[d].at = "put" /\ Locked(client'[d].msg) => client'[d].lock = "locked"
  BY <1>6, <1>7, <1>10 DEF CallsInv
<1> QED BY <1>12, <1>15, <1>16 DEF CallsInv

LEMMA UnlockKeeps == CallsInv /\ Unlock => CallsInv'
<1> SUFFICES ASSUME CallsInv, Unlock PROVE CallsInv'
  OBVIOUS
<1>1. /\ client \in [Clients -> ClientRecords]
      /\ server \in [at : {"start", "loop", "handle", "unlock"}, from : Clients, msg : Messages]
      /\ CallsTypeOK /\ LocksKept
  BY DEF CallsInv, CallsTypeOK, ClientRecords
<1>2. PICK e \in Clients, n \in Messages : e = server.from /\ n = server.msg
  BY <1>1
<1>3. /\ server.at = "unlock" /\ UNCHANGED <<record, box, value>>
      /\ client' = [client EXCEPT ![e].lock = "unlocked"]
      /\ server' = [server EXCEPT !.at = "loop"]
  BY <1>2 DEF Unlock
<1>4. /\ server' \in [at : {"start", "loop", "handle", "unlock"}, from : Clients, msg : Messages]
      /\ server'.at = "loop"
  BY <1>1, <1>3
<1>5. PICK r \in ClientRecords : /\ r = [client[e] EXCEPT !.lock = "unlocked"]
                                 /\ r.at = client[e].at /\ r.msg = client[e].msg /\ r.lock = "unlocked"
  <2>1. LET w == [client[e] EXCEPT !.lock = "unlocked"] IN
        w \in ClientRecords /\ w.at = client[e].at /\ w.msg = client[e].msg /\ w.lock = "unlocked"
    BY <1>1 DEF ClientRecords
  <2> QED BY <2>1
<1>6. /\ client' \in [Clients -> ClientRecords] /\ client'[e] = r
      /\ \A d \in Clients \ {e} : client'[d] = client[d]
  <2>1. client' = [client EXCEPT ![e] = r]
    BY <1>1, <1>3, <1>5
  <2> QED BY <1>1, <2>1
<1>7. {d \in Clients : client'[d].at # "out"} = {d \in Clients : client[d].at # "out"}
  BY <1>5, <1>6
<1>8. CallsTypeOK'
  BY <1>1, <1>3, <1>4, <1>6, <1>7 DEF CallsTypeOK, ClientRecords
<1>9. AtService(e) /\ Held(e, n) /\ \A d \in Clients : ~AtService(d)' /\ (AtService(d) => d = e)
  BY <1>1, <1>2, <1>3, <1>4 DEF CallsInv, AtService, CallOf, LocksKept
<1>10. \A i \in DOMAIN box : ~CallOf(box[i], e)
  BY <1>1, <1>9, CallsAreTyped DEF LocksKept
<1>11. \A d \in Clients \ {e} : \A m : Held(d, m)' <=> Held(d, m)
  BY <1>6 DEF Held
<1>12. LocksKept'
  <2>1. \A i \in DOMAIN box' : \A d \in Clients, m \in Messages :
          CallOf(box'[i], d) /\ box'[i].msg = m => Held(d, m)' /\ ~AtService(d)'
    BY <1>1, <1>3, <1>9, <1>10, <1>11 DEF LocksKept
  <2>2. \A i, j \in DOMAIN box' : \A d \in Clients : CallOf(box'[i], d) /\ CallOf(box'[j], d) => i = j
    BY <1>1, <1>3 DEF LocksKept
  <2>3. \A d \in Clients : client'[d].at = "wait" =>
          client'[d].lock = "unlocked" \/ \E i \in DOMAIN box' : CallOf(box'[i], d)
    BY <1>1, <1>3, <1>5, <1>6, <1>9 DEF LocksKept
  <2> QED BY <1>9, <2>1, <2>2, <2>3 DEF LocksKept
<1>13. \A d \in Clients : client'[d].at = "put" /\ Locked(client'[d].msg) => client'[d].lock = "locked"
  <2>1. client'[e].at # "put"
    BY <1>5, <1>6, <1>9 DEF Held
  <2> QED BY <1>6, <2>1 DEF CallsInv
<1> QED BY <1>4, <1>8, <1>12, <1>13 DEF CallsInv

LEMMA RecordCreateKeeps == CallsInv /\ RecordCreate => CallsInv'
<1> SUFFICES ASSUME CallsInv, RecordCreate PROVE CallsInv'
  OBVIOUS
<1>1. /\ record \in [ready : BOOLEAN, holders : Nat]
      /\ server \in [at : {"start", "loop", "handle", "unlock"}, from : Clients, msg : Messages]
      /\ CallsTypeOK /\ LocksKept
  BY DEF CallsInv, CallsTypeOK
<1>2. /\ server.at = "start" /\ UNCHANGED <<client, box, value>>
      /\ record' = [record EXCEPT !.ready = TRUE] /\ server' = [server EXCEPT !.at = "loop"]
  BY DEF RecordCreate
<1>3. /\ server' \in [at : {"start", "loop", "handle", "unlock"}, from : Clients, msg : Messages]
      /\ server'.at = "loop"
      /\ record' \in [ready : BOOLEAN, holders : Nat] /\ record'.holders = record.holders
  BY <1>1, <1>2
<1>4. CallsTypeOK'
  BY <1>1, <1>2, <1>3 DEF CallsTypeOK
<1>5. /\ \A d \in Clients : ~AtService(d)' /\ ~AtService(d)
      /\ \A d \in Clients : \A m : Held(d, m)' <=> Held(d, m)
  BY <1>2, <1>3 DEF AtService, Held
<1>6. LocksKept'
  BY <1>1, <1>2, <1>5 DEF LocksKept
<1> QED BY <1>2, <1>3, <1>4, <1>6 DEF CallsInv

LEMMA CallsNextKeeps == CallsInv /\ [CallsNext]_callVars => CallsInv'
<1> SUFFICES ASSUME CallsInv, [CallsNext]_callVars PROVE CallsInv'
  OBVIOUS
<1>1. CASE Serve
  BY <1>1, TakeKeeps, HandleKeeps, UnlockKeeps, RecordCreateKeeps DEF Serve
<1>2. ASSUME NEW c \in Clients,
             \/ RecordOpen(c) \/ RecordReady(c) \/ RecordClose(c)
             \/ Call(c) \/ Put(c) \/ WaitUnlock(c)
      PROVE  CallsInv'
  BY <1>2, ClientKeeps, PutKeeps
<1>3. CASE UNCHANGED callVars
  <2>1. UNCHANGED <<record, client, box, server, value>>
    BY <1>3 DEF callVars
  <2>2. /\ \A d \in Clients : AtService(d)' <=> AtService(d)
        /\ \A d \in Clients : \A m : Held(d, m)' <=> Held(d, m)
    BY <2>1 DEF AtService, Held
  <2>3. LocksKept'
    BY <2>1, <2>2 DEF CallsInv, LocksKept
  <2>4. CallsTypeOK'
    BY <2>1 DEF CallsInv, CallsTypeOK
  <2> QED BY <2>1, <2>3, <2>4 DEF CallsInv
<1> QED BY <1>1, <1>2, <1>3 DEF CallsNext

(* No lock is lost and none outlives its caller: the messages with a lock  *)
(* that are in message_queue or at the service are of clients that wait,   *)
(* at most one of each, so that api_lock_unlock and the answer never       *)
(* reach a stack that was left (api_lock.h, power.c, fusb302.c); and who   *)
(* waits is answered, being served or in the queue, so that no wait is     *)
(* without its answer.  The record counts who opened it.                   *)
THEOREM LocksAreKept == CallsInit /\ [][CallsNext]_callVars => [](CallsTypeOK /\ LocksKept)
<1>1. CallsInit => CallsInv
  BY CallsStart
<1>2. CallsInv /\ [CallsNext]_callVars => CallsInv'
  BY CallsNextKeeps
<1>3. CallsInv => CallsTypeOK /\ LocksKept
  BY DEF CallsInv
<1> QED BY <1>1, <1>2, <1>3, PTL

(* No service is called, and nothing is put into its queue, before its     *)
(* record is ready, however early it is opened: furi_record_open counts    *)
(* the holder and then waits for furi_record_create (record.c).            *)
THEOREM ServicesAreReady == CallsInit /\ [][CallsNext]_callVars => []RecordUsedReady
<1>1. CallsInit => RecordUsedReady
  BY DEF CallsInit, Idle, RecordUsedReady
<1>2. CallsTypeOK /\ RecordUsedReady /\ [CallsNext]_callVars => RecordUsedReady'
  <2> SUFFICES ASSUME CallsTypeOK, RecordUsedReady, [CallsNext]_callVars PROVE RecordUsedReady'
    OBVIOUS
  <2>1. /\ client \in [Clients -> ClientRecords]
        /\ record \in [ready : BOOLEAN, holders : Nat]
        /\ box \in Seq(Entries)
    BY DEF CallsTypeOK, ClientRecords, Entries
  <2>2. ASSUME NEW c \in Clients, NEW w \in {"out", "opening", "in", "put", "wait"},
               \A d \in Clients \ {c} : client'[d].at = client[d].at,
               client'[c].at = w,
               w \in {"in", "put", "wait"} => client[c].at \in {"in", "put", "wait"} \/ record.ready,
               box' = box \/ client[c].at = "put",
               record'.ready = record.ready
        PROVE  RecordUsedReady'
    BY <2>2 DEF RecordUsedReady
  <2>3. CASE UNCHANGED callVars \/ RecordCreate \/ Take
    BY <2>1, <2>3 DEF callVars, RecordCreate, Take, RecordUsedReady
  <2>4. CASE Handle \/ Unlock
    <3>1. ASSUME NEW from, NEW x
          PROVE  /\ \A d \in Clients : [client EXCEPT ![from].result = x][d].at = client[d].at
                 /\ \A d \in Clients : [client EXCEPT ![from].lock = x][d].at = client[d].at
      BY <2>1 DEF ClientRecords
    <3>2. \/ client' = client
          \/ \E from, x : \/ client' = [client EXCEPT ![from].result = x]
                         \/ client' = [client EXCEPT ![from].lock = x]
      <4>1. CASE Handle
        <5>1. PICK ok \in BOOLEAN :
                client' = IF Locked(server.msg)
                          THEN [client EXCEPT ![server.from].result = IF ok THEN value' ELSE Failed]
                          ELSE client
          BY <4>1 DEF Handle
        <5> QED BY <5>1
      <4>2. CASE Unlock
        BY <4>2 DEF Unlock
      <4> QED BY <2>4, <4>1, <4>2
    <3>3. \A d \in Clients : client'[d].at = client[d].at
      <4>1. CASE client' = client
        BY <4>1
      <4>2. ASSUME NEW from, NEW x, client' = [client EXCEPT ![from].result = x]
            PROVE  \A d \in Clients : client'[d].at = client[d].at
        BY <3>1, <4>2
      <4>3. ASSUME NEW from, NEW x, client' = [client EXCEPT ![from].lock = x]
            PROVE  \A d \in Clients : client'[d].at = client[d].at
        BY <3>1, <4>3
      <4> QED BY <3>2, <4>1, <4>2, <4>3
    <3>4. UNCHANGED <<record, box>>
      BY <2>4 DEF Handle, Unlock
    <3> QED BY <3>3, <3>4 DEF RecordUsedReady
  <2>5. ASSUME NEW c \in Clients,
               \/ RecordOpen(c) \/ RecordReady(c) \/ RecordClose(c)
               \/ Call(c) \/ Put(c) \/ WaitUnlock(c)
        PROVE  RecordUsedReady'
    <3>1. client[c] \in ClientRecords
      BY <2>1
    <3>2. /\ \A d \in Clients \ {c} : client'[d].at = client[d].at
          /\ record'.ready = record.ready
          /\ box' = box \/ client[c].at = "put"
      BY <2>1, <2>5 DEF RecordOpen, RecordReady, RecordClose, Call, Put, WaitUnlock
    <3>3. CASE RecordOpen(c)
      <4>1. client'[c].at = "opening"
        BY <2>1, <3>1, <3>3 DEF RecordOpen, ClientRecords
      <4> QED BY <2>2, <3>2, <4>1
    <3>4. CASE RecordReady(c)
      <4>1. client'[c].at = "in" /\ record.ready
        BY <2>1, <3>1, <3>4 DEF RecordReady, ClientRecords
      <4> QED BY <2>2, <3>2, <4>1
    <3>5. CASE RecordClose(c)
      <4>1. client'[c].at = "out"
        BY <2>1, <3>1, <3>5 DEF RecordClose, ClientRecords
      <4> QED BY <2>2, <3>2, <4>1
    <3>6. CASE Call(c)
      <4>1. client'[c].at = "put" /\ client[c].at = "in"
        BY <2>1, <3>1, <3>6 DEF Call
      <4> QED BY <2>2, <3>2, <4>1
    <3>7. CASE Put(c)
      <4>1. (client'[c].at = "wait" \/ client'[c].at = "in") /\ client[c].at = "put"
        BY <2>1, <3>1, <3>7 DEF Put, Idle, ClientRecords
      <4> QED BY <2>2, <3>2, <4>1
    <3>8. CASE WaitUnlock(c)
      <4>1. client'[c].at = "in" /\ client[c].at = "wait"
        BY <2>1, <3>1, <3>8 DEF WaitUnlock, Idle
      <4> QED BY <2>2, <3>2, <4>1
    <3> QED BY <2>5, <3>3, <3>4, <3>5, <3>6, <3>7, <3>8
  <2> QED BY <2>3, <2>4, <2>5 DEF CallsNext, Serve
<1>3. CallsInit /\ [][CallsNext]_callVars => []CallsTypeOK
  BY LocksAreKept, PTL
<1> QED BY <1>1, <1>2, <1>3, PTL

-----------------------------------------------------------------------------
(***************************************************************************)
(* ServiceCalls implements CallProtocol: the calls that nobody waits for,  *)
(* selected from the queue, as it grows at its end and shrinks at its head.*)
(***************************************************************************)
UpTo(places, i) == {j \in places : j =< i}
NthOf(s, places, n) == {s[i] : i \in {i \in places : Cardinality(UpTo(places, i)) = n}}

LEMMA SelectedByRank ==
  ASSUME NEW s, NEW places
  PROVE  Selected(s, places) = [n \in 1 .. Cardinality(places) |-> CHOOSE x \in NthOf(s, places, n) : TRUE]
BY DEF Selected, NthOf, UpTo

LEMMA RanksAreSmall ==
  ASSUME NEW k \in Nat, NEW places \in SUBSET (1 .. k)
  PROVE  /\ IsFiniteSet(places) /\ Cardinality(places) \in Nat
         /\ \A i \in Nat : /\ IsFiniteSet(UpTo(places, i))
                           /\ Cardinality(UpTo(places, i)) \in Nat
                           /\ Cardinality(UpTo(places, i)) =< Cardinality(places)
<1>1. IsFiniteSet(1 .. k)
  BY FS_Interval
<1>2. IsFiniteSet(places)
  BY <1>1, FS_Subset
<1>3. ASSUME NEW i \in Nat
      PROVE  /\ IsFiniteSet(UpTo(places, i))
             /\ Cardinality(UpTo(places, i)) =< Cardinality(places)
  <2>1. UpTo(places, i) \subseteq places
    BY DEF UpTo
  <2> QED BY <1>2, <2>1, FS_Subset
<1> QED BY <1>2, <1>3, FS_CardinalityType

LEMMA SelectedIsSeq ==
  ASSUME NEW s, NEW k \in Nat, NEW places \in SUBSET (1 .. k)
  PROVE  /\ \E S : Selected(s, places) \in Seq(S)
         /\ Len(Selected(s, places)) = Cardinality(places)
         /\ DOMAIN Selected(s, places) = 1 .. Cardinality(places)
<1> DEFINE r == Selected(s, places)
           S == {r[n] : n \in DOMAIN r}
<1>1. Cardinality(places) \in Nat
  BY RanksAreSmall
<1>2. DOMAIN r = 1 .. Cardinality(places) /\ r = [n \in 1 .. Cardinality(places) |-> r[n]]
  <2>1. r = [n \in 1 .. Cardinality(places) |-> CHOOSE x \in NthOf(s, places, n) : TRUE]
    BY SelectedByRank
  <2> HIDE DEF r
  <2> QED BY <2>1
<1> HIDE DEF r
<1>3. r \in [1 .. Cardinality(places) -> S]
  BY <1>2
<1> HIDE DEF S
<1>4. r \in Seq(S)
  BY <1>1, <1>3
<1>5. Len(r) = Cardinality(places)
  BY <1>1, <1>2, <1>4, LenProperties
<1> QED BY <1>2, <1>4, <1>5 DEF r

LEMMA SelectedNone ==
  ASSUME NEW s
  PROVE  Selected(s, {}) = <<>>
<1>1. Cardinality({}) = 0
  BY FS_EmptySet
<1>2. {} \in SUBSET (1 .. 0) /\ 0 \in Nat
  OBVIOUS
<1>3. PICK S : Selected(s, {}) \in Seq(S)
  BY <1>2, SelectedIsSeq
<1>4. Len(Selected(s, {})) = 0
  BY <1>1, <1>2, SelectedIsSeq
<1> QED BY <1>3, <1>4, EmptySeq

(* What is appended is the last that is selected, or is not selected. *)
LEMMA SelectedAppend ==
  ASSUME NEW S, NEW s \in Seq(S), NEW x \in S, NEW places \in SUBSET (1 .. Len(s))
  PROVE  /\ Selected(Append(s, x), places) = Selected(s, places)
         /\ Selected(Append(s, x), places \union {Len(s) + 1}) = Append(Selected(s, places), x)
<1> DEFINE a == Append(s, x)
           k == Len(s)
           more == places \union {k + 1}
           c == Cardinality(places)
           r == Selected(s, places)
           ra == Append(r, x)
<1>1. k \in Nat /\ a[k + 1] = x /\ \A i \in 1 .. k : a[i] = s[i]
  BY AppendProperties, LenProperties
<1>2. IsFiniteSet(places) /\ c \in Nat
  BY <1>1, RanksAreSmall
<1>3. ASSUME NEW i \in 1 .. k
      PROVE  Cardinality(UpTo(places, i)) \in Nat /\ Cardinality(UpTo(places, i)) =< c
  <2>1. i \in Nat
    BY <1>1
  <2> QED BY <1>1, <2>1, RanksAreSmall
<1>4. Cardinality(more) = c + 1
  <2>1. k + 1 \notin places
    BY <1>1
  <2>2. Cardinality(more) = IF k + 1 \in places THEN c ELSE c + 1
    BY <1>2, FS_AddElement
  <2> QED BY <2>1, <2>2
<1>5. \A i \in 1 .. k : UpTo(more, i) = UpTo(places, i)
  BY <1>1 DEF UpTo
<1>6. UpTo(more, k + 1) = more
  <2>1. \A j \in more : j =< k + 1
    BY <1>1
  <2> HIDE DEF more
  <2> QED BY <2>1 DEF UpTo
<1> HIDE DEF a, k, more, c
<1>7. places \in SUBSET (1 .. k)
  BY DEF k
<1>8. ASSUME NEW n \in 1 .. c PROVE NthOf(a, places, n) = NthOf(s, places, n)
  BY <1>1, <1>7 DEF NthOf
<1>9. Selected(a, places) = Selected(s, places)
  <2>1. Selected(a, places) = [n \in 1 .. c |-> CHOOSE y \in NthOf(a, places, n) : TRUE]
    BY SelectedByRank DEF c
  <2>2. Selected(s, places) = [n \in 1 .. c |-> CHOOSE y \in NthOf(s, places, n) : TRUE]
    BY SelectedByRank DEF c
  <2>3. \A n \in 1 .. c : (CHOOSE y \in NthOf(a, places, n) : TRUE) = (CHOOSE y \in NthOf(s, places, n) : TRUE)
    BY <1>8
  <2> QED BY <2>1, <2>2, <2>3
<1>10. ASSUME NEW n \in 1 .. c PROVE NthOf(a, more, n) = NthOf(s, places, n)
  <2>1. \A i : i \in more <=> i \in places \/ i = k + 1
    BY DEF more
  <2>2. Cardinality(UpTo(more, k + 1)) # n
    BY <1>2, <1>4, <1>6
  <2>3. \A i : (i \in more /\ Cardinality(UpTo(more, i)) = n) <=> (i \in places /\ Cardinality(UpTo(places, i)) = n)
    BY <1>5, <1>7, <2>1, <2>2
  <2>4. {i \in more : Cardinality(UpTo(more, i)) = n} = {i \in places : Cardinality(UpTo(places, i)) = n}
    BY <2>3
  <2>5. \A i \in {i \in places : Cardinality(UpTo(places, i)) = n} : a[i] = s[i]
    BY <1>1, <1>7
  <2> QED BY <2>4, <2>5 DEF NthOf
<1>11. NthOf(a, more, c + 1) = {x}
  <2>1. ASSUME NEW i \in more PROVE Cardinality(UpTo(more, i)) = c + 1 <=> i = k + 1
    <3>1. CASE i = k + 1
      BY <1>4, <1>6, <3>1
    <3>2. CASE i \in places
      <4>1. i \in 1 .. k /\ i # k + 1
        BY <1>1, <1>7, <3>2
      <4>2. Cardinality(UpTo(more, i)) = Cardinality(UpTo(places, i))
        BY <1>5, <4>1
      <4> QED BY <1>2, <1>3, <4>1, <4>2
    <3> QED BY <3>1, <3>2 DEF more
  <2>2. {i \in more : Cardinality(UpTo(more, i)) = c + 1} = {k + 1}
    BY <2>1 DEF more
  <2> QED BY <1>1, <2>2 DEF NthOf
<1>12. PICK R : r \in Seq(R)
  BY <1>1, <1>7, SelectedIsSeq
<1>13. Len(r) = c /\ DOMAIN r = 1 .. c /\ \A n \in 1 .. c : r[n] = CHOOSE y \in NthOf(s, places, n) : TRUE
  <2>1. Len(r) = c /\ DOMAIN r = 1 .. c
    BY <1>1, <1>7, SelectedIsSeq DEF c
  <2>2. r = [n \in 1 .. c |-> CHOOSE y \in NthOf(s, places, n) : TRUE]
    BY SelectedByRank DEF c
  <2> HIDE DEF r
  <2> QED BY <2>1, <2>2
<1> HIDE DEF r
<1>14. r \in Seq(R \union {x})
  <2>1. r \in [1 .. Len(r) -> R]
    BY <1>12, LenProperties
  <2>2. r \in [1 .. Len(r) -> R \union {x}]
    BY <2>1
  <2> QED BY <1>2, <1>13, <2>2
<1>15. /\ ra \in Seq(R \union {x}) /\ Len(ra) = c + 1
       /\ \A n \in 1 .. c : ra[n] = r[n]
       /\ ra[c + 1] = x
  BY <1>13, <1>14, AppendProperties
<1>16. DOMAIN ra = 1 .. c + 1
  BY <1>15, LenProperties
<1> HIDE DEF ra
<1>17. ra = [n \in 1 .. c + 1 |-> ra[n]]
  <2>1. ra \in [1 .. Len(ra) -> R \union {x}]
    BY <1>15, LenProperties
  <2> QED BY <1>15, <2>1
<1>18. Selected(a, more) = [n \in 1 .. c + 1 |-> CHOOSE y \in NthOf(a, more, n) : TRUE]
  BY <1>4, SelectedByRank
<1>19. ASSUME NEW n \in 1 .. c + 1 PROVE (CHOOSE y \in NthOf(a, more, n) : TRUE) = ra[n]
  <2>1. CASE n \in 1 .. c
    BY <1>10, <1>13, <1>15, <2>1
  <2>2. CASE n = c + 1
    <3>1. (CHOOSE y \in {x} : TRUE) = x
      OBVIOUS
    <3> QED BY <1>11, <1>15, <2>2, <3>1
  <2> QED BY <1>2, <2>1, <2>2
<1>20. Selected(a, more) = ra
  BY <1>17, <1>18, <1>19
<1> QED BY <1>9, <1>20 DEF a, more, k, r, ra

LEMMA ShiftedCount ==
  ASSUME NEW k \in Nat, NEW A \in SUBSET (1 .. k), NEW B, B = {i \in Nat : i + 1 \in A}, 1 \notin A
  PROVE  Cardinality(B) = Cardinality(A)
<1> DEFINE f == [i \in A |-> i - 1]
<1>1. IsFiniteSet(A)
  BY RanksAreSmall
<1>2. \A i \in A : i - 1 \in B /\ i - 1 + 1 = i
  <2>1. ASSUME NEW i \in A PROVE i - 1 \in Nat /\ i - 1 + 1 = i
    <3>1. i \in 1 .. k /\ i # 1
      OBVIOUS
    <3> QED BY <3>1
  <2> QED BY <2>1
<1>3. \A j \in B : j + 1 \in A /\ f[j + 1] = j
  <2>1. ASSUME NEW j \in B PROVE j + 1 \in A /\ j + 1 - 1 = j
    <3>1. j \in Nat /\ j + 1 \in A
      OBVIOUS
    <3> QED BY <3>1
  <2> QED BY <2>1
<1>4. f \in [A -> B]
  BY <1>2
<1>5. \A i, j \in A : f[i] = f[j] => i = j
  <2> SUFFICES ASSUME NEW i \in A, NEW j \in A, i - 1 = j - 1 PROVE i = j
    OBVIOUS
  <2> QED BY <1>2
<1> HIDE DEF f
<1>6. f \in Bijection(A, B)
  BY <1>3, <1>4, <1>5 DEF Bijection, Injection, Surjection, IsInjective
<1>7. ExistsBijection(A, B)
  BY <1>6 DEF ExistsBijection
<1> QED BY <1>1, <1>7, FS_Bijection

(* When the head is taken, the others keep their order; the head was the   *)
(* first, if it was selected.                                              *)
LEMMA SelectedTail ==
  ASSUME NEW S, NEW s \in Seq(S), s # <<>>, NEW places \in SUBSET (1 .. Len(s)), 1 \notin places
  PROVE  /\ Selected(Tail(s), {i \in Nat : i + 1 \in places}) = Selected(s, places)
         /\ Selected(s, places \union {1}) = <<s[1]>> \o Selected(s, places)
<1> DEFINE t == Tail(s)
           k == Len(s)
           c == Cardinality(places)
           rest == {i \in Nat : i + 1 \in places}
           more == places \union {1}
           r == Selected(s, places)
           rm == <<s[1]>> \o r
<1>1. k \in Nat \ {0} /\ \A i \in 1 .. k - 1 : t[i] = s[i + 1]
  <2>1. t \in Seq(S) /\ Len(t) = Len(s) - 1 /\ \A i \in 1 .. Len(t) : t[i] = s[i + 1]
    BY HeadTailProperties
  <2>2. Len(s) \in Nat \ {0}
    BY EmptySeq, LenProperties
  <2> QED BY <2>1, <2>2
<1>2. IsFiniteSet(places) /\ c \in Nat /\ Cardinality(rest) = c
  BY <1>1, RanksAreSmall, ShiftedCount
<1> HIDE DEF t, k, c, rest, more
<1>3. places \in SUBSET (1 .. k)
  BY DEF k
<1>4. ASSUME NEW j \in rest
      PROVE  /\ j + 1 \in places /\ t[j] = s[j + 1]
             /\ Cardinality(UpTo(rest, j)) = Cardinality(UpTo(places, j + 1))
  <2>1. j \in Nat /\ j + 1 \in places
    BY DEF rest
  <2>2. j \in 1 .. k - 1
    <3>1. j + 1 \in 1 .. k /\ j + 1 # 1
      BY <1>3, <2>1
    <3> QED BY <1>1, <2>1, <3>1
  <2>3. UpTo(places, j + 1) \in SUBSET (1 .. k) /\ 1 \notin UpTo(places, j + 1)
    BY <1>3 DEF UpTo
  <2>4. UpTo(rest, j) = {i \in Nat : i + 1 \in UpTo(places, j + 1)}
    BY <1>3, <2>1 DEF UpTo, rest
  <2>5. Cardinality(UpTo(rest, j)) = Cardinality(UpTo(places, j + 1))
    BY <1>1, <2>3, <2>4, ShiftedCount
  <2> QED BY <1>1, <2>1, <2>2, <2>5
<1>5. ASSUME NEW i \in places PROVE i - 1 \in rest /\ i - 1 + 1 = i
  <2>1. i \in 1 .. k /\ i # 1
    BY <1>3
  <2> QED BY <1>1, <2>1 DEF rest
<1>6. ASSUME NEW n \in 1 .. c PROVE NthOf(t, rest, n) = NthOf(s, places, n)
  <2>1. ASSUME NEW x \in NthOf(t, rest, n) PROVE x \in NthOf(s, places, n)
    <3>1. PICK j \in rest : Cardinality(UpTo(rest, j)) = n /\ x = t[j]
      BY DEF NthOf
    <3>2. j + 1 \in places /\ Cardinality(UpTo(places, j + 1)) = n /\ x = s[j + 1]
      BY <1>4, <3>1
    <3> QED BY <3>2 DEF NthOf
  <2>2. ASSUME NEW x \in NthOf(s, places, n) PROVE x \in NthOf(t, rest, n)
    <3>1. PICK i \in places : Cardinality(UpTo(places, i)) = n /\ x = s[i]
      BY DEF NthOf
    <3>2. PICK j \in rest : j + 1 = i
      BY <1>5
    <3>3. Cardinality(UpTo(rest, j)) = n /\ x = t[j]
      BY <1>4, <3>1, <3>2
    <3> QED BY <3>3 DEF NthOf
  <2> QED BY <2>1, <2>2
<1>7. Selected(t, rest) = Selected(s, places)
  <2>1. Selected(t, rest) = [n \in 1 .. c |-> CHOOSE y \in NthOf(t, rest, n) : TRUE]
    BY <1>2, SelectedByRank
  <2>2. Selected(s, places) = [n \in 1 .. c |-> CHOOSE y \in NthOf(s, places, n) : TRUE]
    BY SelectedByRank DEF c
  <2>3. \A n \in 1 .. c : (CHOOSE y \in NthOf(t, rest, n) : TRUE) = (CHOOSE y \in NthOf(s, places, n) : TRUE)
    BY <1>6
  <2> QED BY <2>1, <2>2, <2>3
<1>8. Cardinality(more) = c + 1
  <2>1. Cardinality(more) = IF 1 \in places THEN c ELSE c + 1
    BY <1>2, FS_AddElement DEF c, more
  <2> QED BY <2>1
<1>9. ASSUME NEW i \in places
      PROVE  /\ Cardinality(UpTo(more, i)) = Cardinality(UpTo(places, i)) + 1
             /\ Cardinality(UpTo(places, i)) \in Nat \ {0}
  <2>1. i \in 1 .. k /\ i \in Nat
    BY <1>3
  <2>2. IsFiniteSet(UpTo(places, i)) /\ Cardinality(UpTo(places, i)) \in Nat
    BY <1>1, <1>3, <2>1, RanksAreSmall
  <2>3. UpTo(more, i) = UpTo(places, i) \union {1} /\ 1 \notin UpTo(places, i)
    BY <2>1 DEF UpTo, more
  <2>4. i \in UpTo(places, i)
    BY <2>1 DEF UpTo
  <2>5. Cardinality(UpTo(places, i)) # 0
    BY <2>2, <2>4, FS_EmptySet
  <2>6. Cardinality(UpTo(places, i) \union {1}) =
          IF 1 \in UpTo(places, i) THEN Cardinality(UpTo(places, i)) ELSE Cardinality(UpTo(places, i)) + 1
    BY <2>2, FS_AddElement
  <2> QED BY <2>2, <2>3, <2>5, <2>6
<1>10. Cardinality(UpTo(more, 1)) = 1
  <2>1. \A j \in places : ~(j =< 1)
    <3>1. \A j \in places : j \in 1 .. k /\ j # 1
      BY <1>3
    <3> QED BY <1>1, <3>1
  <2>2. UpTo(more, 1) = {1}
    <3>1. \A j : j \in more <=> j \in places \/ j = 1
      BY DEF more
    <3>2. 1 =< 1
      OBVIOUS
    <3>3. \A j : j \in UpTo(more, 1) <=> j = 1
      BY <2>1, <3>1, <3>2 DEF UpTo
    <3> QED BY <3>3
  <2> QED BY <2>2, FS_Singleton
<1>11. NthOf(s, more, 1) = {s[1]}
  <2>1. ASSUME NEW i \in more PROVE Cardinality(UpTo(more, i)) = 1 <=> i = 1
    <3>1. CASE i = 1
      BY <1>10, <3>1
    <3>2. CASE i \in places
      <4>1. i # 1
        BY <3>2
      <4>2. Cardinality(UpTo(more, i)) # 1
        BY <1>9, <3>2
      <4> QED BY <4>1, <4>2
    <3> QED BY <3>1, <3>2 DEF more
  <2>2. {i \in more : Cardinality(UpTo(more, i)) = 1} = {1}
    BY <2>1 DEF more
  <2> QED BY <2>2 DEF NthOf
<1>12. ASSUME NEW n \in 1 .. c PROVE NthOf(s, more, n + 1) = NthOf(s, places, n)
  <2>1. n \in Nat \ {0}
    BY <1>2
  <2>2. ASSUME NEW i \in more
        PROVE  Cardinality(UpTo(more, i)) = n + 1 <=> i \in places /\ Cardinality(UpTo(places, i)) = n
    <3>1. CASE i = 1
      BY <1>10, <2>1, <3>1
    <3>2. CASE i \in places
      BY <1>9, <2>1, <3>2
    <3> QED BY <3>1, <3>2 DEF more
  <2>3. {i \in more : Cardinality(UpTo(more, i)) = n + 1} = {i \in places : Cardinality(UpTo(places, i)) = n}
    BY <2>2 DEF more
  <2> QED BY <2>3 DEF NthOf
<1>13. Len(r) = c /\ \A n \in 1 .. c : r[n] = CHOOSE y \in NthOf(s, places, n) : TRUE
  <2>1. Len(r) = c
    BY <1>1, <1>3, SelectedIsSeq DEF c
  <2>2. r = [n \in 1 .. c |-> CHOOSE y \in NthOf(s, places, n) : TRUE]
    BY SelectedByRank DEF c
  <2> HIDE DEF r
  <2> QED BY <2>1, <2>2
<1>14. PICK R : r \in Seq(R)
  BY <1>1, <1>3, SelectedIsSeq
<1> HIDE DEF r
<1>15. r \in Seq(R \union {s[1]}) /\ <<s[1]>> \in Seq(R \union {s[1]}) /\ Len(<<s[1]>>) = 1 /\ <<s[1]>>[1] = s[1]
  <2>1. r \in [1 .. Len(r) -> R]
    BY <1>14, LenProperties
  <2>2. r \in [1 .. Len(r) -> R \union {s[1]}]
    BY <2>1
  <2>3. r \in Seq(R \union {s[1]})
    BY <1>2, <1>13, <2>2
  <2> QED BY <2>3
<1>16. /\ rm \in Seq(R \union {s[1]}) /\ Len(rm) = 1 + c
       /\ \A i \in 1 .. 1 + c : rm[i] = IF i =< 1 THEN <<s[1]>>[i] ELSE r[i - 1]
  BY <1>13, <1>15, ConcatProperties
<1> HIDE DEF rm
<1>17. rm = [n \in 1 .. c + 1 |-> rm[n]]
  <2>1. rm \in [1 .. Len(rm) -> R \union {s[1]}]
    BY <1>16, LenProperties
  <2>2. Len(rm) = c + 1
    BY <1>2, <1>16
  <2> QED BY <2>1, <2>2
<1>18. Selected(s, more) = [n \in 1 .. c + 1 |-> CHOOSE y \in NthOf(s, more, n) : TRUE]
  BY <1>8, SelectedByRank
<1>19. ASSUME NEW n \in 1 .. c + 1 PROVE (CHOOSE y \in NthOf(s, more, n) : TRUE) = rm[n]
  <2>1. CASE n = 1
    <3>1. (CHOOSE y \in {s[1]} : TRUE) = s[1]
      OBVIOUS
    <3>2. rm[1] = s[1]
      <4>1. 1 \in 1 .. 1 + c
        BY <1>2
      <4> QED BY <1>15, <1>16, <4>1
    <3> QED BY <1>11, <2>1, <3>1, <3>2
  <2>2. CASE n # 1
    <3>1. PICK m \in 1 .. c : n = m + 1
      <4>1. n - 1 \in 1 .. c /\ n = (n - 1) + 1
        BY <1>2, <2>2
      <4> QED BY <4>1
    <3>2. m + 1 \in 1 .. 1 + c /\ ~(m + 1 =< 1) /\ (m + 1) - 1 = m
      BY <1>2
    <3>3. rm[m + 1] = r[m]
      BY <1>16, <3>2
    <3> QED BY <1>12, <1>13, <3>1, <3>3
  <2> QED BY <2>1, <2>2
<1>20. Selected(s, more) = rm
  BY <1>17, <1>18, <1>19
<1> QED BY <1>7, <1>20 DEF t, rest, more, r, rm

(***************************************************************************)
(* What client c posted: the message that is handled, those in the queue   *)
(* and the one to be put into it.                                          *)
(***************************************************************************)
PostOf(m, c) == m.from = c /\ ~Locked(m.msg)

Args(q) == [i \in DOMAIN q |-> q[i].msg.arg]
InBox(q, c) == Selected(Args(q), {i \in DOMAIN q : PostOf(q[i], c)})
Line(h, q, p, c) == h \o InBox(q, c) \o p

IfPost(m, c) == IF PostOf(m, c) THEN <<m.msg.arg>> ELSE <<>>

Arguments == Values \union {Failed}

LEMMA QueueTypes ==
  ASSUME NEW q \in Seq(Entries)
  PROVE  /\ Len(q) \in Nat /\ DOMAIN q = 1 .. Len(q)
         /\ \A i \in 1 .. Len(q) : q[i] \in Entries
         /\ Args(q) \in Seq(Arguments) /\ Len(Args(q)) = Len(q)
         /\ \A i \in 1 .. Len(q) : Args(q)[i] = q[i].msg.arg
<1>1. Len(q) \in Nat /\ DOMAIN q = 1 .. Len(q) /\ \A i \in 1 .. Len(q) : q[i] \in Entries
  BY LenProperties, ElementOfSeq
<1>2. \A m \in Entries : m.msg.arg \in Arguments
  BY DEF Entries, Messages, Arguments
<1>3. Args(q) \in [1 .. Len(q) -> Arguments]
  BY <1>1, <1>2 DEF Args
<1>4. Args(q) \in Seq(Arguments)
  BY <1>1, <1>3
<1>5. Len(Args(q)) = Len(q)
  BY <1>1, <1>3, <1>4, LenProperties
<1>6. \A i \in 1 .. Len(q) : Args(q)[i] = q[i].msg.arg
  BY <1>1 DEF Args
<1> QED BY <1>1, <1>4, <1>5, <1>6

LEMMA EntryArgs ==
  ASSUME NEW m \in Entries
  PROVE  m.msg.arg \in Arguments /\ \A c : IfPost(m, c) \in Seq(Arguments)
<1>1. m.msg.arg \in Arguments
  BY DEF Entries, Messages, Arguments
<1>2. <<m.msg.arg>> \in Seq(Arguments) /\ <<>> \in Seq(Arguments)
  BY <1>1
<1> QED BY <1>1, <1>2 DEF IfPost

LEMMA InBoxIsSeq ==
  ASSUME NEW q \in Seq(Entries), NEW c
  PROVE  \E S : Arguments \subseteq S /\ InBox(q, c) \in Seq(S)
<1> DEFINE r == InBox(q, c)
<1>1. PICK R : r \in Seq(R)
  <2>1. Len(q) \in Nat /\ {i \in DOMAIN q : PostOf(q[i], c)} \in SUBSET (1 .. Len(q))
    BY QueueTypes
  <2> QED BY <2>1, SelectedIsSeq DEF InBox
<1> HIDE DEF r
<1>2. Len(r) \in Nat /\ r \in [1 .. Len(r) -> R]
  BY <1>1, LenProperties
<1>3. r \in [1 .. Len(r) -> R \union Arguments]
  BY <1>2
<1>4. r \in Seq(R \union Arguments)
  BY <1>2, <1>3
<1> QED BY <1>4 DEF r

LEMMA InBoxAppend ==
  ASSUME NEW q \in Seq(Entries), NEW m \in Entries, NEW c
  PROVE  InBox(Append(q, m), c) = IF PostOf(m, c) THEN Append(InBox(q, c), m.msg.arg) ELSE InBox(q, c)
<1> DEFINE a == Append(q, m)
           k == Len(q)
           x == m.msg.arg
           places == {i \in DOMAIN q : PostOf(q[i], c)}
           more == {i \in DOMAIN a : PostOf(a[i], c)}
<1>1. /\ a \in Seq(Entries) /\ Len(a) = k + 1 /\ a[k + 1] = m /\ \A i \in 1 .. k : a[i] = q[i]
      /\ k \in Nat /\ DOMAIN q = 1 .. k
  BY AppendProperties, QueueTypes
<1>2. x \in Arguments
  BY EntryArgs
<1>3. Args(q) \in Seq(Arguments) /\ Len(Args(q)) = k /\ \A i \in 1 .. k : Args(q)[i] = q[i].msg.arg
  BY QueueTypes
<1> HIDE DEF a, k, x
<1>4. DOMAIN a = 1 .. k + 1
  BY <1>1, QueueTypes
<1>5. Args(a) = Append(Args(q), x)
  <2> DEFINE b == Append(Args(q), x)
  <2>1. b \in Seq(Arguments) /\ Len(b) = k + 1 /\ b[k + 1] = x /\ \A i \in 1 .. k : b[i] = Args(q)[i]
    BY <1>2, <1>3, AppendProperties
  <2> HIDE DEF b
  <2>2. DOMAIN b = 1 .. k + 1 /\ b \in [1 .. k + 1 -> Arguments]
    BY <2>1, LenProperties
  <2>3. b = [i \in 1 .. k + 1 |-> b[i]]
    BY <2>2
  <2>4. ASSUME NEW i \in 1 .. k + 1 PROVE a[i].msg.arg = b[i]
    <3>1. CASE i \in 1 .. k
      BY <1>1, <1>3, <2>1, <3>1
    <3>2. CASE i = k + 1
      BY <1>1, <2>1, <3>2 DEF x
    <3> QED BY <1>1, <3>1, <3>2
  <2>5. Args(a) = [i \in 1 .. k + 1 |-> a[i].msg.arg]
    BY <1>4 DEF Args
  <2>6. Args(a) = b
    BY <2>3, <2>4, <2>5
  <2> QED BY <2>6 DEF b
<1>6. places \in SUBSET (1 .. Len(Args(q)))
  BY <1>1, <1>3
<1>7. more = IF PostOf(m, c) THEN places \union {k + 1} ELSE places
  <2>1. \A i \in 1 .. k + 1 : i \in 1 .. k \/ i = k + 1
    BY <1>1
  <2>2. \A i \in 1 .. k : i \in 1 .. k + 1 /\ i # k + 1
    BY <1>1
  <2>3. k + 1 \in 1 .. k + 1
    BY <1>1
  <2>4. \A i : i \in more <=> (i \in 1 .. k /\ PostOf(q[i], c)) \/ (i = k + 1 /\ PostOf(m, c))
    BY <1>1, <1>4, <2>1, <2>2, <2>3
  <2>5. \A i : i \in places <=> i \in 1 .. k /\ PostOf(q[i], c)
    BY <1>1
  <2> HIDE DEF more, places
  <2>6. CASE PostOf(m, c)
    BY <2>4, <2>5, <2>6
  <2>7. CASE ~PostOf(m, c)
    BY <2>4, <2>5, <2>7
  <2> QED BY <2>6, <2>7
<1> HIDE DEF places, more
<1>8. /\ Selected(Append(Args(q), x), places) = Selected(Args(q), places)
      /\ Selected(Append(Args(q), x), places \union {Len(Args(q)) + 1}) = Append(Selected(Args(q), places), x)
  BY <1>2, <1>3, <1>6, SelectedAppend
<1>9. InBox(a, c) = Selected(Append(Args(q), x), more)
  BY <1>5 DEF InBox, more
<1>10. InBox(q, c) = Selected(Args(q), places)
  BY DEF InBox, places
<1>11. InBox(a, c) = IF PostOf(m, c) THEN Append(InBox(q, c), x) ELSE InBox(q, c)
  <2>1. CASE PostOf(m, c)
    BY <1>3, <1>7, <1>8, <1>9, <1>10, <2>1
  <2>2. CASE ~PostOf(m, c)
    BY <1>7, <1>8, <1>9, <1>10, <2>2
  <2> QED BY <2>1, <2>2
<1> QED BY <1>11 DEF a, x

LEMMA InBoxTail ==
  ASSUME NEW q \in Seq(Entries), q # <<>>, NEW c
  PROVE  InBox(q, c) = IfPost(Head(q), c) \o InBox(Tail(q), c)
<1> DEFINE t == Tail(q)
           h == Head(q)
           k == Len(q)
           all == {i \in DOMAIN q : PostOf(q[i], c)}
           places == all \ {1}
           rest == {i \in DOMAIN t : PostOf(t[i], c)}
<1>1. /\ t \in Seq(Entries) /\ Len(t) = k - 1 /\ \A i \in 1 .. k - 1 : t[i] = q[i + 1]
      /\ h = q[1] /\ h \in Entries /\ k \in Nat \ {0} /\ DOMAIN q = 1 .. k
  <2>1. t \in Seq(Entries) /\ Len(t) = Len(q) - 1 /\ \A i \in 1 .. Len(t) : t[i] = q[i + 1]
    BY HeadTailProperties
  <2>2. Len(q) \in Nat /\ Len(q) # 0 /\ DOMAIN q = 1 .. Len(q)
    BY EmptySeq, LenProperties
  <2>3. h = q[1] /\ h \in Entries
    BY HeadTailProperties
  <2> QED BY <2>1, <2>2, <2>3
<1>2. /\ Args(q) \in Seq(Arguments) /\ Len(Args(q)) = k /\ \A i \in 1 .. k : Args(q)[i] = q[i].msg.arg
  BY QueueTypes
<1> HIDE DEF t, h, k
<1>3. /\ Args(t) \in Seq(Arguments) /\ Len(Args(t)) = k - 1 /\ DOMAIN t = 1 .. k - 1
      /\ \A i \in 1 .. k - 1 : Args(t)[i] = t[i].msg.arg
  BY <1>1, QueueTypes
<1>4. Args(q) # <<>>
  BY <1>1, <1>2, EmptySeq
<1>5. Args(t) = Tail(Args(q))
  <2> DEFINE b == Tail(Args(q))
  <2>1. b \in Seq(Arguments) /\ Len(b) = k - 1 /\ \A i \in 1 .. k - 1 : b[i] = Args(q)[i + 1]
    BY <1>2, <1>4, HeadTailProperties
  <2> HIDE DEF b
  <2>2. b \in [1 .. k - 1 -> Arguments] /\ Args(t) \in [1 .. k - 1 -> Arguments]
    BY <1>3, <2>1, LenProperties
  <2>3. ASSUME NEW i \in 1 .. k - 1 PROVE b[i] = Args(t)[i]
    <3>1. i + 1 \in 1 .. k
      BY <1>1
    <3> QED BY <1>1, <1>2, <1>3, <2>1, <3>1
  <2>4. b = Args(t)
    <3>1. b = [i \in 1 .. k - 1 |-> b[i]] /\ Args(t) = [i \in 1 .. k - 1 |-> Args(t)[i]]
      BY <2>2
    <3> QED BY <2>3, <3>1
  <2> QED BY <2>4 DEF b
<1>6. \A i : i \in all <=> i \in 1 .. k /\ PostOf(q[i], c)
  BY <1>1
<1>7. \A i : i \in rest <=> i \in 1 .. k - 1 /\ PostOf(t[i], c)
  BY <1>3
<1> HIDE DEF all, rest
<1>8. rest = {i \in Nat : i + 1 \in places}
  <2>1. ASSUME NEW i \in rest PROVE i \in Nat /\ i + 1 \in all /\ i + 1 # 1
    <3>1. i \in 1 .. k - 1 /\ PostOf(q[i + 1], c)
      BY <1>1, <1>7
    <3>2. i + 1 \in 1 .. k /\ i + 1 # 1 /\ i \in Nat
      BY <1>1, <3>1
    <3> QED BY <1>6, <3>1, <3>2
  <2>2. ASSUME NEW i \in Nat, i + 1 \in all, i + 1 # 1 PROVE i \in rest
    <3>1. i + 1 \in 1 .. k /\ PostOf(q[i + 1], c)
      BY <1>6, <2>2
    <3>2. i \in 1 .. k - 1
      BY <1>1, <2>2, <3>1
    <3> QED BY <1>1, <1>7, <3>1, <3>2
  <2> QED BY <2>1, <2>2
<1>9. places \in SUBSET (1 .. Len(Args(q))) /\ 1 \notin places
  BY <1>2, <1>6
<1>10. all = IF PostOf(h, c) THEN places \union {1} ELSE places
  <2>1. 1 \in 1 .. k
    BY <1>1
  <2>2. 1 \in all <=> PostOf(h, c)
    BY <1>1, <1>6, <2>1
  <2> QED BY <2>2
<1> HIDE DEF places
<1>11. /\ Selected(Tail(Args(q)), {i \in Nat : i + 1 \in places}) = Selected(Args(q), places)
       /\ Selected(Args(q), places \union {1}) = <<Args(q)[1]>> \o Selected(Args(q), places)
  BY <1>2, <1>4, <1>9, SelectedTail
<1>12. InBox(t, c) = Selected(Args(q), places)
  BY <1>5, <1>8, <1>11 DEF InBox, rest
<1>13. InBox(q, c) = Selected(Args(q), all)
  BY DEF InBox, all
<1>14. Args(q)[1] = h.msg.arg
  <2>1. 1 \in 1 .. k
    BY <1>1
  <2> QED BY <1>1, <1>2, <2>1
<1>15. InBox(q, c) = IfPost(h, c) \o InBox(t, c)
  <2>1. CASE PostOf(h, c)
    BY <1>10, <1>11, <1>12, <1>13, <1>14, <2>1 DEF IfPost
  <2>2. CASE ~PostOf(h, c)
    <3>1. InBox(q, c) = InBox(t, c)
      BY <1>10, <1>12, <1>13, <2>2
    <3>2. PICK R : InBox(t, c) \in Seq(R)
      BY <1>1, InBoxIsSeq
    <3>3. <<>> \o InBox(t, c) = InBox(t, c)
      BY <3>2, ConcatEmptySeq
    <3> QED BY <2>2, <3>1, <3>3 DEF IfPost
  <2> QED BY <2>1, <2>2
<1> QED BY <1>15 DEF t, h

(* A line, at its head, in the middle and at its end. *)
LEMMA LineTaken ==
  ASSUME NEW q \in Seq(Entries), q # <<>>, NEW p \in Seq(Arguments), NEW c
  PROVE  Line(<<>>, q, p, c) = Line(IfPost(Head(q), c), Tail(q), p, c)
<1>1. PICK S : Arguments \subseteq S /\ InBox(q, c) \in Seq(S)
  BY InBoxIsSeq
<1>2. <<>> \o InBox(q, c) = InBox(q, c)
  BY <1>1, ConcatEmptySeq
<1>3. InBox(q, c) = IfPost(Head(q), c) \o InBox(Tail(q), c)
  BY InBoxTail
<1> QED BY <1>2, <1>3 DEF Line

LEMMA LineServed ==
  ASSUME NEW q \in Seq(Entries), NEW p \in Seq(Arguments), NEW v \in Arguments, NEW c
  PROVE  /\ Line(<<v>>, q, p, c) # <<>>
         /\ Head(Line(<<v>>, q, p, c)) = v
         /\ Tail(Line(<<v>>, q, p, c)) = Line(<<>>, q, p, c)
<1> DEFINE x == InBox(q, c)
<1>1. PICK S : Arguments \subseteq S /\ x \in Seq(S)
  BY InBoxIsSeq
<1>2. \A a \in Seq(Arguments) : a \in Seq(S)
  BY <1>1
<1> HIDE DEF x
<1>3. <<v>> \in Seq(S) /\ p \in Seq(S) /\ <<>> \in Seq(S) /\ v \in S
  BY <1>1, <1>2
<1> DEFINE y == x \o p
<1>4. y \in Seq(S)
  BY <1>1, <1>3, ConcatProperties
<1>5. (<<v>> \o x) \o p = <<v>> \o y
  BY <1>1, <1>3, ConcatAssociative
<1>6. (<<>> \o x) \o p = y
  BY <1>1, ConcatEmptySeq
<1> HIDE DEF y
<1> DEFINE z == <<v>> \o y
<1>7. Len(<<v>>) = 1 /\ <<v>>[1] = v /\ Len(y) \in Nat
  BY <1>4, LenProperties
<1>8. z \in Seq(S) /\ Len(z) = 1 + Len(y)
      /\ \A i \in 1 .. 1 + Len(y) : z[i] = IF i =< 1 THEN <<v>>[i] ELSE y[i - 1]
  BY <1>3, <1>4, <1>7, ConcatProperties
<1> HIDE DEF z
<1>9. z # <<>> /\ Head(z) = z[1]
  BY <1>7, <1>8, EmptySeq, HeadTailProperties
<1>10. z[1] = v
  <2>1. 1 \in 1 .. 1 + Len(y)
    BY <1>7
  <2> QED BY <1>7, <1>8, <2>1
<1> DEFINE t == Tail(z)
<1>11. t \in Seq(S) /\ Len(t) = Len(y) /\ \A i \in 1 .. Len(y) : t[i] = z[i + 1]
  <2>1. t \in Seq(S) /\ Len(t) = Len(z) - 1 /\ \A i \in 1 .. Len(t) : t[i] = z[i + 1]
    BY <1>8, <1>9, HeadTailProperties
  <2>2. Len(z) - 1 = Len(y)
    BY <1>7, <1>8
  <2> QED BY <2>1, <2>2
<1> HIDE DEF t
<1>12. \A i \in 1 .. Len(y) : t[i] = y[i]
  <2> SUFFICES ASSUME NEW i \in 1 .. Len(y) PROVE t[i] = y[i]
    OBVIOUS
  <2>1. i + 1 \in 1 .. 1 + Len(y) /\ ~(i + 1 =< 1) /\ (i + 1) - 1 = i
    BY <1>7
  <2> QED BY <1>8, <1>11, <2>1
<1>13. t = y
  <2>1. t \in [1 .. Len(y) -> S] /\ y \in [1 .. Len(y) -> S]
    BY <1>4, <1>11, LenProperties
  <2>2. t = [i \in 1 .. Len(y) |-> t[i]] /\ y = [i \in 1 .. Len(y) |-> y[i]]
    BY <2>1
  <2> QED BY <1>12, <2>2
<1>14. Line(<<v>>, q, p, c) = z /\ Line(<<>>, q, p, c) = y
  BY <1>5, <1>6 DEF Line, x, z
<1> QED BY <1>9, <1>10, <1>13, <1>14 DEF t

LEMMA LineAsked ==
  ASSUME NEW q \in Seq(Entries), NEW h \in Seq(Arguments), NEW v \in Arguments, NEW c
  PROVE  Line(h, q, <<v>>, c) = Append(Line(h, q, <<>>, c), v)
<1> DEFINE x == InBox(q, c)
<1>1. PICK S : Arguments \subseteq S /\ x \in Seq(S)
  BY InBoxIsSeq
<1>2. \A a \in Seq(Arguments) : a \in Seq(S)
  BY <1>1
<1> HIDE DEF x
<1>3. h \in Seq(S) /\ v \in S
  BY <1>1, <1>2
<1> DEFINE y == h \o x
<1>4. y \in Seq(S)
  BY <1>1, <1>3, ConcatProperties
<1> HIDE DEF y
<1>5. y \o <<>> = y
  BY <1>4, ConcatEmptySeq
<1>6. Append(y, v) = y \o <<v>>
  BY <1>3, <1>4, AppendIsConcat
<1> QED BY <1>5, <1>6 DEF Line, x, y

LEMMA LinePut ==
  ASSUME NEW q \in Seq(Entries), NEW h \in Seq(Arguments), NEW m \in Entries, NEW c
  PROVE  /\ Line(h, Append(q, m), <<>>, c) = Line(h, q, IfPost(m, c), c)
         /\ m.from # c => \A p : Line(h, Append(q, m), p, c) = Line(h, q, p, c)
<1> DEFINE x == InBox(q, c)
           v == m.msg.arg
<1>1. PICK S : Arguments \subseteq S /\ x \in Seq(S)
  BY InBoxIsSeq
<1>2. \A a \in Seq(Arguments) : a \in Seq(S)
  BY <1>1
<1>3. v \in Arguments /\ <<v>> \in Seq(Arguments) /\ <<>> \in Seq(Arguments)
  BY EntryArgs
<1>4. InBox(Append(q, m), c) = IF PostOf(m, c) THEN Append(x, v) ELSE x
  BY InBoxAppend
<1> HIDE DEF x, v
<1>5. h \in Seq(S) /\ v \in S /\ <<v>> \in Seq(S) /\ <<>> \in Seq(S)
  BY <1>1, <1>2, <1>3
<1>6. Append(x, v) = x \o <<v>>
  BY <1>1, <1>5, AppendIsConcat
<1>7. x \o <<v>> \in Seq(S) /\ h \o x \in Seq(S)
  BY <1>1, <1>5, ConcatProperties
<1>8. h \o (x \o <<v>>) \in Seq(S)
  BY <1>5, <1>7, ConcatProperties
<1>9. (h \o (x \o <<v>>)) \o <<>> = h \o (x \o <<v>>)
  BY <1>8, ConcatEmptySeq
<1>10. (h \o x) \o <<v>> = h \o (x \o <<v>>)
  BY <1>1, <1>5, ConcatAssociative
<1>11. CASE PostOf(m, c)
  <2>1. m.from = c
    BY <1>11 DEF PostOf
  <2> QED BY <1>4, <1>6, <1>9, <1>10, <1>11, <2>1 DEF Line, IfPost, x, v
<1>12. CASE ~PostOf(m, c)
  BY <1>4, <1>12 DEF Line, IfPost, x
<1> QED BY <1>11, <1>12

LEMMA LineEmpty ==
  ASSUME NEW q \in Seq(Entries), NEW c, \A i \in DOMAIN q : ~PostOf(q[i], c)
  PROVE  Line(<<>>, q, <<>>, c) = <<>>
<1>1. {i \in DOMAIN q : PostOf(q[i], c)} = {}
  OBVIOUS
<1>2. InBox(q, c) = <<>>
  BY <1>1, SelectedNone DEF InBox
<1>3. <<>> \in Seq(Arguments)
  OBVIOUS
<1>4. <<>> \o <<>> = <<>>
  BY <1>3, ConcatEmptySeq
<1> QED BY <1>2, <1>4 DEF Line

(***************************************************************************)
(* The abstract state, by the records of client and service.               *)
(***************************************************************************)
Asked(r) == IF r.at = "put" /\ ~Locked(r.msg) THEN <<r.msg.arg>> ELSE <<>>
Hand(s, c) == IF s.at = "handle" THEN IfPost(s, c) ELSE <<>>
Opened(s, c) == s.at = "unlock" /\ s.from = c

None == [state |-> "none", op |-> "get", arg |-> Failed, answer |-> Failed]
Pending(r) == [state |-> "pending", op |-> r.msg.op, arg |-> r.msg.arg, answer |-> r.result]
Done(r) == [state |-> "done", op |-> r.msg.op, arg |-> r.msg.arg, answer |-> r.result]

WaitedOf(r, opened) ==
  IF r.at \in {"put", "wait"} /\ Locked(r.msg)
  THEN IF r.lock = "unlocked" \/ opened THEN Done(r) ELSE Pending(r)
  ELSE None

PostedAll == [c \in Clients |-> Posted(c)]
WaitedAll == [c \in Clients |-> Waited(c)]

LEMMA CallView ==
  ASSUME NEW c
  PROVE  /\ Posted(c) = Line(Hand(server, c), box, Asked(client[c]), c)
         /\ Posted(c)' = Line(Hand(server', c), box', Asked(client'[c]), c)
         /\ Waited(c) = WaitedOf(client[c], Opened(server, c))
         /\ Waited(c)' = WaitedOf(client'[c], Opened(server', c))
<1>1. Posted(c) = Line(Hand(server, c), box, Asked(client[c]), c)
  BY DEF Posted, Line, Hand, Asked, InBox, Args, PostOf, IfPost
<1>2. Posted(c)' = Line(Hand(server', c), box', Asked(client'[c]), c)
  BY DEF Posted, Line, Hand, Asked, InBox, Args, PostOf, IfPost
<1>3. Waited(c) = WaitedOf(client[c], Opened(server, c))
  BY DEF Waited, WaitedOf, Waits, Answered, Opened, Done, Pending, None
<1>4. Waited(c)' = WaitedOf(client'[c], Opened(server', c))
  BY DEF Waited, WaitedOf, Waits, Answered, Opened, Done, Pending, None
<1> QED BY <1>1, <1>2, <1>3, <1>4

CallsStep == [Calls!CNext]_(Calls!cvars)

LEMMA CallsStutter ==
  ASSUME value' = value, \A d \in Clients : Posted(d)' = Posted(d) /\ Waited(d)' = Waited(d)
  PROVE  CallsStep
<1>1. PostedAll' = PostedAll /\ WaitedAll' = WaitedAll
  BY DEF PostedAll, WaitedAll
<1> QED BY <1>1 DEF CallsStep, Calls!cvars, PostedAll, WaitedAll

(* One client is elsewhere, with another message, and nothing else.        *)
LEMMA OneClient ==
  ASSUME NEW c \in Clients, NEW r \in ClientRecords, client \in [Clients -> ClientRecords],
         client' = [client EXCEPT ![c] = r], UNCHANGED <<box, server, value>>
  PROVE  /\ client'[c] = r
         /\ \A d \in Clients \ {c} :
              client'[d] = client[d] /\ Posted(d)' = Posted(d) /\ Waited(d)' = Waited(d)
<1>1. client'[c] = r /\ \A d \in Clients \ {c} : client'[d] = client[d]
  OBVIOUS
<1>2. ASSUME NEW d \in Clients \ {c} PROVE Posted(d)' = Posted(d) /\ Waited(d)' = Waited(d)
  <2>1. client'[d] = client[d] /\ server' = server /\ box' = box
    BY <1>1
  <2> QED BY <2>1, CallView
<1> QED BY <1>1, <1>2

(* A call is the last message of its client in the queue, and nothing of   *)
(* the client is behind the call that is handled.                          *)
CallsOrder ==
  /\ \A i, j \in DOMAIN box : \A c \in Clients : i < j /\ CallOf(box[i], c) => box[j].from # c
  /\ \A c \in Clients : AtService(c) => \A i \in DOMAIN box : box[i].from # c
  /\ \A c \in Clients : client[c].at = "wait" => Locked(client[c].msg)

LEMMA CallsView ==
  ASSUME CallsInv
  PROVE  /\ client \in [Clients -> ClientRecords] /\ \A c \in Clients : client[c] \in ClientRecords
         /\ box \in Seq(Entries) /\ Len(box) \in Nat /\ DOMAIN box = 1..Len(box)
         /\ server \in [at : {"start", "loop", "handle", "unlock"}, from : Clients, msg : Messages]
         /\ value \in Values
BY LenProperties DEF CallsInv, CallsTypeOK, ClientRecords, Entries

LEMMA AskedTypes ==
  ASSUME NEW r \in ClientRecords
  PROVE  Asked(r) \in Seq(Arguments)
<1>1. r.msg.arg \in Arguments
  BY DEF ClientRecords, Messages, Arguments
<1>2. <<r.msg.arg>> \in Seq(Arguments) /\ <<>> \in Seq(Arguments)
  BY <1>1
<1> QED BY <1>2 DEF Asked

LEMMA HandTypes ==
  ASSUME NEW s \in [at : {"start", "loop", "handle", "unlock"}, from : Clients, msg : Messages], NEW c
  PROVE  Hand(s, c) \in Seq(Arguments)
<1>1. s.msg.arg \in Arguments
  BY DEF Messages, Arguments
<1>2. <<s.msg.arg>> \in Seq(Arguments) /\ <<>> \in Seq(Arguments)
  BY <1>1
<1> QED BY <1>2 DEF Hand, IfPost

(* RecordOpen, RecordReady and RecordClose: no call is made or answered. *)
LEMMA RecordSimulates ==
  ASSUME CallsInv, CallsOrder, NEW c \in Clients, RecordOpen(c) \/ RecordReady(c) \/ RecordClose(c)
  PROVE  CallsOrder' /\ CallsStep
<1>1. client \in [Clients -> ClientRecords] /\ client[c] \in ClientRecords
  BY CallsView
<1>2. /\ client[c].at \in {"out", "opening", "in"} /\ UNCHANGED <<box, server, value>>
      /\ \E where \in {"out", "opening", "in"} : client' = [client EXCEPT ![c].at = where]
  BY DEF RecordOpen, RecordReady, RecordClose
<1>3. PICK where \in {"out", "opening", "in"} : client' = [client EXCEPT ![c].at = where]
  BY <1>2
<1>4. PICK r \in ClientRecords : r = [client[c] EXCEPT !.at = where] /\ r.at = where
  <2>1. LET w == [client[c] EXCEPT !.at = where] IN w \in ClientRecords /\ w.at = where
    BY <1>1 DEF ClientRecords
  <2> QED BY <2>1
<1>5. client' = [client EXCEPT ![c] = r]
  BY <1>1, <1>3, <1>4
<1>6. /\ client'[c] = r
      /\ \A d \in Clients \ {c} : client'[d] = client[d] /\ Posted(d)' = Posted(d) /\ Waited(d)' = Waited(d)
  BY <1>1, <1>2, <1>5, OneClient
<1>7. Asked(r) = <<>> /\ Asked(client[c]) = <<>>
  BY <1>2, <1>4 DEF Asked
<1>8. \A o : WaitedOf(r, o) = None /\ WaitedOf(client[c], o) = None
  BY <1>2, <1>4 DEF WaitedOf
<1>9. Posted(c)' = Posted(c) /\ Waited(c)' = Waited(c)
  BY <1>2, <1>6, <1>7, <1>8, CallView
<1>10. CallsOrder'
  BY <1>2, <1>4, <1>6 DEF CallsOrder, AtService, CallOf
<1> QED BY <1>2, <1>6, <1>9, <1>10, CallsStutter

(* A call of the service is invoked, or a message posted. *)
LEMMA CallSimulates ==
  ASSUME CallsInv, CallsOrder, NEW c \in Clients, Call(c)
  PROVE  CallsOrder' /\ CallsStep
<1>1. client \in [Clients -> ClientRecords] /\ client[c] \in ClientRecords /\ box \in Seq(Entries)
      /\ server \in [at : {"start", "loop", "handle", "unlock"}, from : Clients, msg : Messages]
  BY CallsView
<1>2. PICK m \in Messages :
        client' = [client EXCEPT ![c] = [at |-> "put", msg |-> m, result |-> Failed,
                                         lock |-> IF Locked(m) THEN "locked" ELSE "none"]]
  BY DEF Call
<1>3. client[c].at = "in" /\ UNCHANGED <<box, server, value>>
  BY DEF Call
<1>4. PICK r \in ClientRecords :
        /\ r = [at |-> "put", msg |-> m, result |-> Failed, lock |-> IF Locked(m) THEN "locked" ELSE "none"]
        /\ r.at = "put" /\ r.msg = m /\ r.result = Failed /\ r.lock # "unlocked"
  <2>1. LET w == [at |-> "put", msg |-> m, result |-> Failed, lock |-> IF Locked(m) THEN "locked" ELSE "none"] IN
        w \in ClientRecords /\ w.at = "put" /\ w.msg = m /\ w.result = Failed /\ w.lock # "unlocked"
    BY DEF ClientRecords
  <2> QED BY <2>1
<1>5. client' = [client EXCEPT ![c] = r]
  BY <1>2, <1>4
<1>6. /\ client'[c] = r
      /\ \A d \in Clients \ {c} : client'[d] = client[d] /\ Posted(d)' = Posted(d) /\ Waited(d)' = Waited(d)
  BY <1>1, <1>3, <1>5, OneClient
<1>7. CallsOrder'
  BY <1>3, <1>4, <1>6 DEF CallsOrder, AtService, CallOf
<1>8. Waited(c) = None /\ Posted(c) = Line(Hand(server, c), box, <<>>, c)
  <2>1. Asked(client[c]) = <<>> /\ \A o : WaitedOf(client[c], o) = None
    BY <1>3 DEF Asked, WaitedOf
  <2> QED BY <2>1, CallView
<1>9. ~Opened(server, c)
  <2>1. \A n : ~Held(c, n)
    BY <1>3 DEF Held
  <2>2. ~AtService(c)
    BY <2>1, CallsAreTyped DEF CallsInv, LocksKept
  <2>3. server.at = "unlock" => Locked(server.msg)
    BY DEF CallsInv
  <2> QED BY <2>2, <2>3 DEF AtService, CallOf, Opened
<1>10. WaitedAll[c] = None
  BY <1>8 DEF WaitedAll
<1>11. CASE Locked(m)
  <2>1. Posted(c)' = Posted(c)
    <3>1. Asked(r) = <<>>
      BY <1>4, <1>11 DEF Asked
    <3> QED BY <1>3, <1>6, <1>8, <3>1, CallView
  <2>2. Waited(c)' = [state |-> "pending", op |-> m.op, arg |-> m.arg, answer |-> Failed]
    <3>1. WaitedOf(r, Opened(server, c)) = Pending(r)
      BY <1>4, <1>9, <1>11 DEF WaitedOf
    <3> QED BY <1>3, <1>4, <1>6, <3>1, CallView DEF Pending
  <2>3. PostedAll' = PostedAll
    BY <1>6, <2>1 DEF PostedAll
  <2>4. WaitedAll' = [WaitedAll EXCEPT ![c] = [state |-> "pending", op |-> m.op, arg |-> m.arg, answer |-> Failed]]
    BY <1>6, <2>2 DEF WaitedAll
  <2>5. PICK v \in Values : (m.op = "get" /\ m.arg = Failed) \/ (m.op = "write" /\ m.arg = v)
    BY <1>11, CallsAssumption DEF Messages, Locked
  <2>6. Calls!Invoke(c, m.op, m.arg)
    BY <1>3, <1>10, <2>3, <2>4 DEF Calls!Invoke, Calls!NoCall, None, PostedAll, WaitedAll
  <2>7. Calls!Invoke(c, "get", Failed) \/ Calls!Invoke(c, "write", v)
    BY <2>5, <2>6
  <2> QED BY <1>7, <2>7 DEF CallsStep, Calls!CNext
<1>12. CASE ~Locked(m)
  <2>1. m.op = "post" /\ m.arg \in Values
    BY <1>12 DEF Messages, Locked
  <2>2. Posted(c)' = Append(Posted(c), m.arg)
    <3>1. Asked(r) = <<m.arg>>
      BY <1>4, <1>12 DEF Asked
    <3>2. Hand(server, c) \in Seq(Arguments) /\ m.arg \in Arguments
      BY <1>1, <2>1, HandTypes DEF Arguments
    <3>3. Line(Hand(server, c), box, <<m.arg>>, c) = Append(Line(Hand(server, c), box, <<>>, c), m.arg)
      BY <1>1, <3>2, LineAsked
    <3> QED BY <1>3, <1>6, <1>8, <3>1, <3>3, CallView
  <2>3. Waited(c)' = None
    <3>1. \A o : WaitedOf(r, o) = None
      BY <1>4, <1>12 DEF WaitedOf
    <3> QED BY <1>6, <3>1, CallView
  <2>4. PostedAll' = [PostedAll EXCEPT ![c] = Append(@, m.arg)]
    BY <1>6, <2>2 DEF PostedAll
  <2>5. WaitedAll' = WaitedAll
    BY <1>6, <1>8, <2>3 DEF WaitedAll
  <2>6. Calls!Post(c, m.arg)
    BY <1>3, <1>10, <2>4, <2>5 DEF Calls!Post, Calls!NoCall, None, PostedAll, WaitedAll
  <2> QED BY <1>7, <2>1, <2>6 DEF CallsStep, Calls!CNext
<1> QED BY <1>11, <1>12

(* Putting a message into the queue moves it within the line of its client.*)
LEMMA PutSimulates ==
  ASSUME CallsInv, CallsOrder, NEW c \in Clients, Put(c)
  PROVE  CallsOrder' /\ CallsStep
<1>1. /\ client \in [Clients -> ClientRecords] /\ client[c] \in ClientRecords
      /\ box \in Seq(Entries) /\ Len(box) \in Nat /\ DOMAIN box = 1..Len(box)
      /\ server \in [at : {"start", "loop", "handle", "unlock"}, from : Clients, msg : Messages]
  BY CallsView
<1>2. client[c].at = "put" /\ UNCHANGED <<server, value>>
  BY DEF Put
<1>3. PICK n \in Messages : n = client[c].msg
  BY <1>1 DEF ClientRecords
<1>4. PICK x \in Entries : x = [from |-> c, msg |-> n] /\ x.from = c /\ x.msg = n
  <2>1. LET w == [from |-> c, msg |-> n] IN w \in Entries /\ w.from = c /\ w.msg = n
    BY DEF Entries
  <2> QED BY <2>1
<1>5. PICK b \in Seq(Entries) :
        /\ b = Append(box, x) /\ DOMAIN b = 1..(Len(box) + 1)
        /\ \A i \in 1..Len(box) : b[i] = box[i]
        /\ b[Len(box) + 1] = x
  <2>1. LET w == Append(box, x) IN
        /\ w \in Seq(Entries) /\ Len(w) = Len(box) + 1
        /\ \A i \in 1..Len(box) : w[i] = box[i]
        /\ w[Len(box) + 1] = x
    BY <1>1, AppendProperties
  <2>2. Append(box, x) \in Seq(Entries) => DOMAIN Append(box, x) = 1..Len(Append(box, x))
    BY LenProperties
  <2> QED BY <2>1, <2>2
<1>6. box' = b
  BY <1>3, <1>4, <1>5 DEF Put
<1>7. PICK r \in ClientRecords :
        /\ client' = [client EXCEPT ![c] = r]
        /\ Locked(n) => r.at = "wait" /\ r.msg = n /\ r.lock = client[c].lock /\ r.result = client[c].result
        /\ ~Locked(n) => r.at = "in"
  <2>1. Idle("in") \in ClientRecords /\ Idle("in").at = "in"
    BY DEF Idle, NoMessage, Messages, ClientRecords
  <2>2. LET w == [client[c] EXCEPT !.at = "wait"] IN
        /\ w \in ClientRecords /\ w.at = "wait" /\ w.msg = n
        /\ w.lock = client[c].lock /\ w.result = client[c].result
    BY <1>1, <1>3 DEF ClientRecords
  <2>3. CASE Locked(n)
    <3>1. client' = [client EXCEPT ![c] = [client[c] EXCEPT !.at = "wait"]]
      BY <1>1, <1>3, <2>3 DEF Put
    <3> QED BY <2>2, <2>3, <3>1
  <2>4. CASE ~Locked(n)
    <3>1. client' = [client EXCEPT ![c] = Idle("in")]
      BY <1>1, <1>3, <2>4 DEF Put
    <3> QED BY <2>1, <2>4, <3>1
  <2> QED BY <2>3, <2>4
<1>8. client'[c] = r /\ \A d \in Clients \ {c} : client'[d] = client[d]
  BY <1>1, <1>7
<1>9. ~AtService(c) /\ \A i \in DOMAIN box : ~CallOf(box[i], c)
  <2>1. \A m : ~Held(c, m)
    BY <1>2 DEF Held
  <2> QED BY <2>1, CallsAreTyped DEF CallsInv, LocksKept
<1>10. CallsOrder'
  <2>1. ASSUME NEW i \in DOMAIN b, NEW j \in DOMAIN b, NEW d \in Clients, i < j, CallOf(b[i], d)
        PROVE  b[j].from # d
    <3>1. i \in 1..Len(box)
      BY <1>1, <1>5, <2>1
    <3>2. CallOf(box[i], d) /\ d # c
      BY <1>1, <1>5, <1>9, <2>1, <3>1
    <3>3. CASE j \in 1..Len(box)
      BY <1>1, <1>5, <2>1, <3>1, <3>2, <3>3 DEF CallsOrder
    <3>4. CASE j = Len(box) + 1
      BY <1>4, <1>5, <3>2, <3>4
    <3> QED BY <1>1, <1>5, <3>3, <3>4
  <2>2. ASSUME NEW d \in Clients, AtService(d), NEW i \in DOMAIN b
        PROVE  b[i].from # d
    <3>1. CASE i \in 1..Len(box)
      BY <1>1, <1>5, <2>2, <3>1 DEF CallsOrder
    <3>2. CASE i = Len(box) + 1
      BY <1>4, <1>5, <1>9, <2>2, <3>2
    <3> QED BY <1>1, <1>5, <3>1, <3>2
  <2>3. \A d \in Clients : AtService(d)' <=> AtService(d)
    BY <1>2 DEF AtService, CallOf
  <2>4. ASSUME NEW d \in Clients, client'[d].at = "wait" PROVE Locked(client'[d].msg)
    BY <1>7, <1>8, <2>4 DEF CallsOrder
  <2> QED BY <1>6, <2>1, <2>2, <2>3, <2>4 DEF CallsOrder
<1>11. ASSUME NEW d \in Clients \ {c} PROVE Posted(d)' = Posted(d) /\ Waited(d)' = Waited(d)
  <2>1. Hand(server, d) \in Seq(Arguments)
    BY <1>1, HandTypes
  <2>2. x.from # d
    BY <1>4
  <2>3. Line(Hand(server, d), b, Asked(client[d]), d) = Line(Hand(server, d), box, Asked(client[d]), d)
    <3>1. PICK h, q, p : /\ h \in Seq(Arguments) /\ q \in Seq(Entries)
                         /\ h = Hand(server, d) /\ q = box /\ p = Asked(client[d])
      BY <1>1, <2>1
    <3>2. Line(h, Append(q, x), p, d) = Line(h, q, p, d)
      BY <2>2, <3>1, LinePut
    <3> QED BY <1>5, <3>1, <3>2
  <2> QED BY <1>2, <1>6, <1>8, <2>3, CallView
<1>12. Posted(c)' = Posted(c)
  <2>1. Hand(server, c) \in Seq(Arguments)
    BY <1>1, HandTypes
  <2>2. Asked(r) = <<>> /\ Asked(client[c]) = IfPost(x, c)
    BY <1>2, <1>3, <1>4, <1>7 DEF Asked, IfPost, PostOf
  <2>3. Line(Hand(server, c), b, <<>>, c) = Line(Hand(server, c), box, IfPost(x, c), c)
    BY <1>1, <1>5, <2>1, LinePut
  <2> QED BY <1>2, <1>6, <1>8, <2>2, <2>3, CallView
<1>13. Waited(c)' = Waited(c)
  <2>1. WaitedOf(r, Opened(server, c)) = WaitedOf(client[c], Opened(server, c))
    BY <1>2, <1>3, <1>7 DEF WaitedOf, Done, Pending
  <2> QED BY <1>2, <1>8, <2>1, CallView
<1> QED BY <1>2, <1>10, <1>11, <1>12, <1>13, CallsStutter

(* Taking a message moves it to the head of the line of its client. *)
LEMMA TakeSimulates ==
  ASSUME CallsInv, CallsOrder, Take
  PROVE  CallsOrder' /\ CallsStep
<1>1. /\ client \in [Clients -> ClientRecords] /\ \A d \in Clients : client[d] \in ClientRecords
      /\ box \in Seq(Entries) /\ Len(box) \in Nat /\ DOMAIN box = 1..Len(box)
  BY CallsView
<1>2. /\ server.at = "loop" /\ box # <<>> /\ box' = Tail(box)
      /\ server' = [at |-> "handle", from |-> Head(box).from, msg |-> Head(box).msg]
      /\ UNCHANGED <<client, value>>
  BY DEF Take
<1>3. PICK b \in Seq(Entries), x \in Entries :
        /\ b = Tail(box) /\ x = Head(box) /\ x = box[1] /\ DOMAIN b = 1..(Len(box) - 1)
        /\ \A i \in 1..(Len(box) - 1) : b[i] = box[i + 1]
  <2>1. /\ Head(box) \in Entries /\ Tail(box) \in Seq(Entries)
        /\ Len(Tail(box)) = Len(box) - 1 /\ Head(box) = box[1]
        /\ \A i \in 1..Len(Tail(box)) : Tail(box)[i] = box[i + 1]
    BY <1>1, <1>2, HeadTailProperties
  <2>2. DOMAIN Tail(box) = 1..(Len(box) - 1)
    BY <2>1, LenProperties
  <2> QED BY <2>1, <2>2
<1>4. Len(box) \in Nat \ {0} /\ 1 \in DOMAIN box
  <2>1. Len(box) # 0
    BY <1>1, <1>2, EmptySeq
  <2> QED BY <1>1, <2>1
<1>5. server'.at = "handle" /\ server'.from = x.from /\ server'.msg = x.msg
  BY <1>2, <1>3
<1>6. CallsOrder'
  <2>1. ASSUME NEW i \in DOMAIN b, NEW j \in DOMAIN b, NEW d \in Clients, i < j, CallOf(b[i], d)
        PROVE  b[j].from # d
    <3>1. i + 1 \in DOMAIN box /\ j + 1 \in DOMAIN box /\ i + 1 < j + 1
      BY <1>1, <1>3, <2>1
    <3>2. b[i] = box[i + 1] /\ b[j] = box[j + 1]
      BY <1>3
    <3> QED BY <2>1, <3>1, <3>2 DEF CallsOrder
  <2>2. ASSUME NEW d \in Clients, CallOf(x, d), NEW i \in DOMAIN b
        PROVE  b[i].from # d
    <3>1. i + 1 \in DOMAIN box /\ 1 < i + 1 /\ b[i] = box[i + 1]
      BY <1>1, <1>3
    <3> QED BY <1>3, <1>4, <2>2, <3>1 DEF CallsOrder
  <2>3. \A d \in Clients : AtService(d)' => CallOf(x, d)
    BY <1>5 DEF AtService, CallOf
  <2>4. \A d \in Clients : client'[d].at = "wait" => Locked(client'[d].msg)
    BY <1>2 DEF CallsOrder
  <2>5. box' = b
    BY <1>2, <1>3
  <2> QED BY <2>1, <2>2, <2>3, <2>4, <2>5 DEF CallsOrder
<1>7. ASSUME NEW d \in Clients PROVE Posted(d)' = Posted(d) /\ Waited(d)' = Waited(d)
  <2>1. Hand(server, d) = <<>> /\ ~Opened(server, d)
    BY <1>2 DEF Hand, Opened
  <2>2. Hand(server', d) = IfPost(x, d) /\ ~Opened(server', d)
    BY <1>5 DEF Hand, Opened, IfPost, PostOf
  <2>3. Asked(client[d]) \in Seq(Arguments)
    BY <1>1, AskedTypes
  <2>4. Line(<<>>, box, Asked(client[d]), d) = Line(IfPost(x, d), b, Asked(client[d]), d)
    BY <1>1, <1>2, <1>3, <2>3, LineTaken
  <2>5. Posted(d)' = Posted(d)
    <3>1. Posted(d) = Line(<<>>, box, Asked(client[d]), d)
      BY <2>1, CallView
    <3>2. Posted(d)' = Line(IfPost(x, d), b, Asked(client[d]), d)
      BY <1>2, <1>3, <2>2, CallView
    <3> QED BY <2>4, <3>1, <3>2
  <2>6. Waited(d)' = Waited(d)
    BY <1>2, <2>1, <2>2, CallView DEF WaitedOf
  <2> QED BY <2>5, <2>6
<1> QED BY <1>2, <1>6, <1>7, CallsStutter

(* A message is carried out: the next of those its client posted, or the   *)
(* call the client waits for, when nothing else of the client is left.     *)
LEMMA HandleSimulates ==
  ASSUME CallsInv, CallsOrder, Handle
  PROVE  CallsOrder' /\ CallsStep
<1>1. /\ client \in [Clients -> ClientRecords] /\ \A d \in Clients : client[d] \in ClientRecords
      /\ box \in Seq(Entries) /\ Len(box) \in Nat /\ DOMAIN box = 1..Len(box)
      /\ server \in [at : {"start", "loop", "handle", "unlock"}, from : Clients, msg : Messages]
      /\ value \in Values
  BY CallsView
<1>2. PICK c \in Clients, m \in Messages : c = server.from /\ m = server.msg
  BY <1>1
<1>3. PICK ok \in (IF m.op = "post" THEN {TRUE} ELSE BOOLEAN) :
        /\ value' = IF ok /\ m.op # "get" THEN m.arg ELSE value
        /\ client' = IF Locked(m)
                     THEN [client EXCEPT ![c].result = IF ok THEN value' ELSE Failed]
                     ELSE client
  BY <1>2 DEF Handle
<1>4. server.at = "handle" /\ box' = box
  BY DEF Handle
<1>5. /\ server'.at = IF Locked(m) THEN "unlock" ELSE "loop"
      /\ server'.from = c /\ server'.msg = m
  BY <1>1, <1>2 DEF Handle
<1>6. m.op \in {"get", "post", "write"} /\ (m.op # "get" => m.arg \in Values) /\ value' \in Values
  BY <1>1, <1>3, MessageArgs
<1>7. CASE Locked(m)
  <2>1. Held(c, m) /\ AtService(c)
    BY <1>2, <1>4, <1>7 DEF CallsInv, LocksKept, AtService, CallOf
  <2>2. client[c].at = "wait" /\ client[c].lock = "locked" /\ client[c].msg = m
    BY <2>1 DEF Held
  <2>3. PICK a \in Values \union {Failed} : a = IF ok THEN value' ELSE Failed
    BY <1>6
  <2>4. PICK r \in ClientRecords :
          /\ r = [client[c] EXCEPT !.result = a]
          /\ r.at = "wait" /\ r.lock = "locked" /\ r.msg = m /\ r.result = a
    <3>1. LET w == [client[c] EXCEPT !.result = a] IN
          w \in ClientRecords /\ w.at = client[c].at /\ w.lock = client[c].lock /\ w.msg = client[c].msg /\ w.result = a
      BY <1>1 DEF ClientRecords
    <3> QED BY <2>2, <3>1
  <2>5. client' = [client EXCEPT ![c] = r]
    BY <1>1, <1>3, <1>7, <2>3, <2>4
  <2>6. client'[c] = r /\ \A d \in Clients \ {c} : client'[d] = client[d]
    BY <1>1, <2>5
  <2>7. CallsOrder'
    <3>1. \A d \in Clients : AtService(d)' <=> AtService(d)
      BY <1>2, <1>4, <1>5, <1>7 DEF AtService, CallOf
    <3>2. \A d \in Clients : client'[d].at = "wait" => Locked(client'[d].msg)
      BY <1>7, <2>4, <2>6 DEF CallsOrder
    <3> QED BY <1>4, <3>1, <3>2 DEF CallsOrder
  <2>8. \A d : Hand(server, d) = <<>> /\ Hand(server', d) = <<>>
    BY <1>2, <1>4, <1>5, <1>7 DEF Hand, IfPost, PostOf
  <2>9. \A d \in Clients : Asked(client'[d]) = Asked(client[d])
    BY <2>2, <2>4, <2>6 DEF Asked
  <2>10. \A d \in Clients : Posted(d)' = Posted(d)
    BY <1>4, <2>8, <2>9, CallView
  <2>11. Posted(c) = <<>>
    <3>1. \A i \in DOMAIN box : ~PostOf(box[i], c)
      BY <2>1 DEF CallsOrder, PostOf
    <3>2. Asked(client[c]) = <<>>
      BY <2>2 DEF Asked
    <3>3. Line(<<>>, box, <<>>, c) = <<>>
      BY <1>1, <3>1, LineEmpty
    <3> QED BY <2>8, <3>2, <3>3, CallView
  <2>12. Waited(c) = Pending(client[c])
    <3>1. ~Opened(server, c)
      BY <1>4 DEF Opened
    <3>2. WaitedOf(client[c], Opened(server, c)) = Pending(client[c])
      BY <1>7, <2>2, <3>1 DEF WaitedOf
    <3> QED BY <3>2, CallView
  <2>13. Waited(c)' = Done(r)
    <3>1. Opened(server', c)
      BY <1>5, <1>7 DEF Opened
    <3>2. WaitedOf(r, Opened(server', c)) = Done(r)
      BY <1>7, <2>4, <3>1 DEF WaitedOf
    <3> QED BY <2>6, <3>2, CallView
  <2>14. ASSUME NEW d \in Clients \ {c} PROVE Waited(d)' = Waited(d)
    <3>1. ~Opened(server, d) /\ ~Opened(server', d)
      BY <1>4, <1>5 DEF Opened
    <3> QED BY <2>6, <3>1, CallView DEF WaitedOf
  <2>15. /\ Pending(client[c]) = [state |-> "pending", op |-> m.op, arg |-> m.arg, answer |-> client[c].result]
         /\ Done(r) = [state |-> "done", op |-> m.op, arg |-> m.arg, answer |-> a]
    BY <2>2, <2>4 DEF Pending, Done
  <2>16. PostedAll' = PostedAll /\ PostedAll[c] = <<>>
    BY <2>10, <2>11 DEF PostedAll
  <2>17. WaitedAll[c] = [state |-> "pending", op |-> m.op, arg |-> m.arg, answer |-> client[c].result]
    BY <2>12, <2>15 DEF WaitedAll
  <2>18. WaitedAll' = [WaitedAll EXCEPT ![c] = [state |-> "done", op |-> m.op, arg |-> m.arg, answer |-> a]]
    BY <2>13, <2>14, <2>15 DEF WaitedAll
  <2>19. WaitedAll' = [WaitedAll EXCEPT ![c] = [@ EXCEPT !.state = "done", !.answer = IF ok THEN value' ELSE Failed]]
    <3>1. [WaitedAll[c] EXCEPT !.state = "done", !.answer = IF ok THEN value' ELSE Failed] =
            [state |-> "done", op |-> m.op, arg |-> m.arg, answer |-> a]
      <4>1. PICK o, g, e : o = m.op /\ g = m.arg /\ e = client[c].result
        OBVIOUS
      <4>2. [[state |-> "pending", op |-> o, arg |-> g, answer |-> e] EXCEPT !.state = "done", !.answer = a] =
              [state |-> "done", op |-> o, arg |-> g, answer |-> a]
        <5>1. [[state |-> "pending", op |-> o, arg |-> g, answer |-> e] EXCEPT !.state = "done"] =
                [state |-> "done", op |-> o, arg |-> g, answer |-> e]
          OBVIOUS
        <5>2. [[state |-> "done", op |-> o, arg |-> g, answer |-> e] EXCEPT !.answer = a] =
                [state |-> "done", op |-> o, arg |-> g, answer |-> a]
          OBVIOUS
        <5> QED BY <5>1, <5>2
      <4>3. WaitedAll[c] = [state |-> "pending", op |-> o, arg |-> g, answer |-> e]
        BY <2>17, <4>1
      <4>4. [WaitedAll[c] EXCEPT !.state = "done", !.answer = a] = [state |-> "done", op |-> o, arg |-> g, answer |-> a]
        BY <4>2, <4>3
      <4> QED BY <2>3, <4>1, <4>4
    <3>2. c \in DOMAIN WaitedAll
      BY DEF WaitedAll
    <3> QED BY <2>18, <3>1, <3>2
  <2>20. /\ value' = IF ok /\ WaitedAll[c].op = "write" THEN WaitedAll[c].arg ELSE value
         /\ WaitedAll[c].state = "pending"
    BY <1>3, <1>6, <1>7, <2>17 DEF Locked
  <2>21. ok \in BOOLEAN
    BY <1>3
  <2>22. Calls!Effect(c)
    BY <2>16, <2>19, <2>20, <2>21 DEF Calls!Effect, PostedAll, WaitedAll
  <2> QED BY <2>7, <2>22 DEF CallsStep, Calls!CNext
<1>8. CASE ~Locked(m)
  <2>1. m.op = "post" /\ m.arg \in Values /\ value' = m.arg /\ client' = client
    BY <1>3, <1>6, <1>8 DEF Locked
  <2>2. CallsOrder'
    <3>1. \A d \in Clients : ~AtService(d)'
      BY <1>5, <1>8 DEF AtService
    <3> QED BY <1>4, <2>1, <3>1 DEF CallsOrder
  <2>3. ASSUME NEW d \in Clients PROVE Waited(d)' = Waited(d)
    <3>1. ~Opened(server, d) /\ ~Opened(server', d)
      BY <1>4, <1>5, <1>8 DEF Opened
    <3> QED BY <2>1, <3>1, CallView DEF WaitedOf
  <2>4. ASSUME NEW d \in Clients PROVE Posted(d)' = Line(<<>>, box, Asked(client[d]), d)
    <3>1. Hand(server', d) = <<>>
      BY <1>5, <1>8 DEF Hand
    <3> QED BY <1>4, <2>1, <3>1, CallView
  <2>5. ASSUME NEW d \in Clients \ {c} PROVE Posted(d)' = Posted(d)
    <3>1. Hand(server, d) = <<>>
      BY <1>2 DEF Hand, IfPost, PostOf
    <3> QED BY <2>4, <3>1, CallView
  <2>6. Posted(c) # <<>> /\ Head(Posted(c)) = m.arg /\ Posted(c)' = Tail(Posted(c))
    <3>1. Hand(server, c) = <<m.arg>>
      BY <1>2, <1>4, <1>8 DEF Hand, IfPost, PostOf
    <3>2. Posted(c) = Line(<<m.arg>>, box, Asked(client[c]), c)
      BY <3>1, CallView
    <3>3. PICK p \in Seq(Arguments) : p = Asked(client[c])
      BY <1>1, AskedTypes
    <3>4. m.arg \in Arguments
      BY <2>1 DEF Arguments
    <3>5. /\ Line(<<m.arg>>, box, p, c) # <<>> /\ Head(Line(<<m.arg>>, box, p, c)) = m.arg
          /\ Tail(Line(<<m.arg>>, box, p, c)) = Line(<<>>, box, p, c)
      BY <1>1, <3>4, LineServed
    <3> QED BY <2>4, <3>2, <3>3, <3>5
  <2>7. WaitedAll' = WaitedAll
    BY <2>3 DEF WaitedAll
  <2>8. PostedAll[c] # <<>> /\ Head(PostedAll[c]) = m.arg /\ PostedAll' = [PostedAll EXCEPT ![c] = Tail(@)]
    BY <2>5, <2>6 DEF PostedAll
  <2>9. Calls!Apply(c)
    BY <2>1, <2>7, <2>8 DEF Calls!Apply, PostedAll, WaitedAll
  <2> QED BY <2>2, <2>9 DEF CallsStep, Calls!CNext
<1> QED BY <1>7, <1>8

(* Opening the lock changes nothing that the client could see: its answer  *)
(* is there.                                                               *)
LEMMA UnlockSimulates ==
  ASSUME CallsInv, CallsOrder, Unlock
  PROVE  CallsOrder' /\ CallsStep
<1>1. /\ client \in [Clients -> ClientRecords] /\ \A d \in Clients : client[d] \in ClientRecords
      /\ server \in [at : {"start", "loop", "handle", "unlock"}, from : Clients, msg : Messages]
  BY CallsView
<1>2. PICK c \in Clients, m \in Messages : c = server.from /\ m = server.msg
  BY <1>1
<1>3. /\ server.at = "unlock" /\ server'.at = "loop" /\ UNCHANGED <<box, value>>
      /\ client' = [client EXCEPT ![c].lock = "unlocked"]
  BY <1>1, <1>2 DEF Unlock
<1>4. PICK r \in ClientRecords :
        /\ r = [client[c] EXCEPT !.lock = "unlocked"] /\ r.lock = "unlocked"
        /\ r.at = client[c].at /\ r.msg = client[c].msg /\ r.result = client[c].result
  <2>1. LET w == [client[c] EXCEPT !.lock = "unlocked"] IN
        /\ w \in ClientRecords /\ w.lock = "unlocked"
        /\ w.at = client[c].at /\ w.msg = client[c].msg /\ w.result = client[c].result
    BY <1>1 DEF ClientRecords
  <2> QED BY <2>1
<1>5. client'[c] = r /\ \A d \in Clients \ {c} : client'[d] = client[d]
  BY <1>1, <1>3, <1>4
<1>6. CallsOrder'
  <2>1. \A d \in Clients : ~AtService(d)'
    BY <1>3 DEF AtService
  <2>2. \A d \in Clients : client'[d].at = "wait" => Locked(client'[d].msg)
    BY <1>4, <1>5 DEF CallsOrder
  <2> QED BY <1>3, <2>1, <2>2 DEF CallsOrder
<1>7. ASSUME NEW d \in Clients PROVE Posted(d)' = Posted(d)
  <2>1. Hand(server, d) = <<>> /\ Hand(server', d) = <<>>
    BY <1>3 DEF Hand
  <2>2. Asked(client'[d]) = Asked(client[d])
    BY <1>4, <1>5 DEF Asked
  <2> QED BY <1>3, <2>1, <2>2, CallView
<1>8. ASSUME NEW d \in Clients PROVE Waited(d)' = Waited(d)
  <2>1. ~Opened(server', d) /\ (Opened(server, d) <=> d = c)
    BY <1>2, <1>3 DEF Opened
  <2>2. CASE d = c
    <3>1. WaitedOf(r, Opened(server', d)) = WaitedOf(client[c], Opened(server, d))
      BY <1>4, <2>1, <2>2 DEF WaitedOf, Done
    <3> QED BY <1>5, <2>2, <3>1, CallView
  <2>3. CASE d # c
    <3>1. WaitedOf(client[d], Opened(server', d)) = WaitedOf(client[d], Opened(server, d))
      BY <2>1, <2>3 DEF WaitedOf
    <3> QED BY <1>5, <2>3, <3>1, CallView
  <2> QED BY <2>2, <2>3
<1> QED BY <1>3, <1>6, <1>7, <1>8, CallsStutter

(* The client returns from its call. *)
LEMMA WaitUnlockSimulates ==
  ASSUME CallsInv, CallsOrder, NEW c \in Clients, WaitUnlock(c)
  PROVE  CallsOrder' /\ CallsStep
<1>1. client \in [Clients -> ClientRecords] /\ client[c] \in ClientRecords
  BY CallsView
<1>2. /\ client[c].at = "wait" /\ client[c].lock = "unlocked" /\ UNCHANGED <<box, server, value>>
      /\ client' = [client EXCEPT ![c] = Idle("in")]
  BY DEF WaitUnlock
<1>3. PICK r \in ClientRecords : r = Idle("in") /\ r.at = "in"
  <2>1. Idle("in") \in ClientRecords /\ Idle("in").at = "in"
    BY DEF Idle, NoMessage, Messages, ClientRecords
  <2> QED BY <2>1
<1>4. /\ client'[c] = r
      /\ \A d \in Clients \ {c} : client'[d] = client[d] /\ Posted(d)' = Posted(d) /\ Waited(d)' = Waited(d)
  BY <1>1, <1>2, <1>3, OneClient
<1>5. CallsOrder'
  BY <1>2, <1>3, <1>4 DEF CallsOrder, AtService, CallOf
<1>6. Posted(c)' = Posted(c)
  <2>1. Asked(r) = <<>> /\ Asked(client[c]) = <<>>
    BY <1>2, <1>3 DEF Asked
  <2> QED BY <1>2, <1>4, <2>1, CallView
<1>7. Waited(c) = Done(client[c]) /\ Waited(c)' = None
  <2>1. WaitedOf(client[c], Opened(server, c)) = Done(client[c])
    BY <1>2 DEF WaitedOf, CallsOrder
  <2>2. \A o : WaitedOf(r, o) = None
    BY <1>3 DEF WaitedOf
  <2> QED BY <1>4, <2>1, <2>2, CallView
<1>8. PostedAll' = PostedAll
  BY <1>4, <1>6 DEF PostedAll
<1>9. WaitedAll[c].state = "done" /\ WaitedAll' = [WaitedAll EXCEPT ![c] = None]
  <2>1. WaitedAll[c] = Done(client[c])
    BY <1>7 DEF WaitedAll
  <2>2. Done(client[c]).state = "done"
    BY DEF Done
  <2>3. WaitedAll' = [WaitedAll EXCEPT ![c] = None]
    BY <1>4, <1>7 DEF WaitedAll
  <2> QED BY <2>1, <2>2, <2>3
<1>10. Calls!Return(c)
  BY <1>2, <1>8, <1>9 DEF Calls!Return, Calls!NoCall, None, PostedAll, WaitedAll
<1> QED BY <1>5, <1>10 DEF CallsStep, Calls!CNext

LEMMA RecordCreateSimulates ==
  ASSUME CallsInv, CallsOrder, RecordCreate
  PROVE  CallsOrder' /\ CallsStep
<1>1. /\ server.at = "start" /\ server'.at = "loop" /\ UNCHANGED <<client, box, value>>
  BY CallsView DEF RecordCreate
<1>2. CallsOrder'
  BY <1>1 DEF CallsOrder, AtService
<1>3. ASSUME NEW d \in Clients PROVE Posted(d)' = Posted(d) /\ Waited(d)' = Waited(d)
  <2>1. /\ Hand(server, d) = <<>> /\ Hand(server', d) = <<>>
        /\ ~Opened(server, d) /\ ~Opened(server', d)
    BY <1>1 DEF Hand, Opened
  <2> QED BY <1>1, <2>1, CallView DEF WaitedOf
<1> QED BY <1>1, <1>2, <1>3, CallsStutter

LEMMA CallsSimulate == CallsInv /\ CallsOrder /\ [CallsNext]_callVars => CallsOrder' /\ CallsStep
<1> SUFFICES ASSUME CallsInv, CallsOrder, [CallsNext]_callVars PROVE CallsOrder' /\ CallsStep
  OBVIOUS
<1>1. CASE Serve
  BY <1>1, TakeSimulates, HandleSimulates, UnlockSimulates, RecordCreateSimulates DEF Serve
<1>2. ASSUME NEW c \in Clients,
             RecordOpen(c) \/ RecordReady(c) \/ RecordClose(c) \/ Call(c) \/ Put(c) \/ WaitUnlock(c)
      PROVE  CallsOrder' /\ CallsStep
  BY <1>2, RecordSimulates, CallSimulates, PutSimulates, WaitUnlockSimulates
<1>3. CASE UNCHANGED callVars
  <2>1. UNCHANGED <<client, box, server, value>>
    BY <1>3 DEF callVars
  <2>2. \A d \in Clients : Posted(d)' = Posted(d) /\ Waited(d)' = Waited(d)
    BY <2>1, CallView
  <2>3. CallsOrder'
    BY <2>1 DEF CallsOrder, AtService, CallOf
  <2> QED BY <2>1, <2>2, <2>3, CallsStutter
<1> QED BY <1>1, <1>2, <1>3 DEF CallsNext

LEMMA CallsBegin == CallsInit => CallsOrder /\ Calls!CInit
<1> SUFFICES ASSUME CallsInit PROVE CallsOrder /\ Calls!CInit
  OBVIOUS
<1>1. PICK e \in Seq(Entries) : e = <<>> /\ Len(e) = 0 /\ box = e
  BY EmptySeq DEF CallsInit
<1>2. DOMAIN e = {}
  <2>1. DOMAIN e = 1..0
    BY <1>1, LenProperties
  <2> QED BY <2>1
<1>3. server.at = "start" /\ \A d \in Clients : client[d].at = "out"
  BY DEF CallsInit, Idle
<1>4. CallsOrder
  BY <1>1, <1>2, <1>3 DEF CallsOrder, AtService
<1>5. ASSUME NEW d \in Clients PROVE Posted(d) = <<>> /\ Waited(d) = None
  <2>1. Asked(client[d]) = <<>> /\ Hand(server, d) = <<>> /\ \A o : WaitedOf(client[d], o) = None
    BY <1>3 DEF Asked, Hand, WaitedOf
  <2>2. Line(<<>>, e, <<>>, d) = <<>>
    BY <1>2, LineEmpty
  <2> QED BY <1>1, <2>1, <2>2, CallView
<1>6. value \in Values
  BY CallsAssumption DEF CallsInit
<1>7. PostedAll = [d \in Clients |-> <<>>] /\ WaitedAll = [d \in Clients |-> None]
  BY <1>5 DEF PostedAll, WaitedAll
<1>8. Calls!CInit
  BY <1>6, <1>7 DEF Calls!CInit, Calls!NoCall, None, PostedAll, WaitedAll
<1> QED BY <1>4, <1>8

(* power, display and fusb302 with their queues, locks and threads do what *)
(* CallProtocol promises (the safety part of CallsAnswered): every call    *)
(* takes effect once, between its start and its return and after all its   *)
(* client posted before, and returns what the service had then.            *)
THEOREM ServiceImplementsCalls == CallsInit /\ [][CallsNext]_callVars => Calls!CSafety
<1>1. CallsInit => CallsInv /\ CallsOrder /\ Calls!CInit
  BY CallsStart, CallsBegin
<1>2. CallsInv /\ CallsOrder /\ [CallsNext]_callVars
        => CallsInv' /\ CallsOrder' /\ [Calls!CNext]_(Calls!cvars)
  BY CallsNextKeeps, CallsSimulate DEF CallsStep
<1> QED BY <1>1, <1>2, PTL DEF Calls!CSafety

-----------------------------------------------------------------------------
(***************************************************************************)
(* The motor.  While it runs, its timer will stop it.                      *)
(***************************************************************************)
(* The start of the off timer is queued, or the timer is active. *)
MotorHasTimer ==
  /\ motor => off.command # NoCommand \/ off.left # Inactive
  /\ pass.timer => off.command # NoCommand
  /\ pass.at = "message" => effects # <<>>

HapticInv == HapticTypeOK /\ MotorHasTimer

LEMMA HapticStarts == HapticInit => HapticInv
<1> SUFFICES ASSUME HapticInit PROVE HapticInv
  OBVIOUS
<1>1. PICK e \in Seq(Requests) : e = <<>> /\ Len(e) = 0
  BY EmptySeq
<1>2. effects = e /\ Len(effects) = 0
  BY <1>1 DEF HapticInit
<1>3. /\ off \in [left : 0 .. Inactive, command : 0 .. OffTicks] /\ motor = FALSE
      /\ pass \in [at : {"sleep", "message", "timers"}, timer : BOOLEAN]
      /\ pass.at = "sleep" /\ ~pass.timer
  BY HapticAssumption DEF HapticInit, Inactive, NoCommand
<1>4. effects \in Seq(Requests) /\ Len(effects) =< MaxEffects
  BY <1>1, <1>2, HapticAssumption
<1> QED BY <1>3, <1>4 DEF HapticInv, HapticTypeOK, MotorHasTimer

LEMMA HapticSendKeeps == HapticInv /\ HapticSend => HapticInv'
<1> SUFFICES ASSUME HapticInv, HapticSend PROVE HapticInv'
  OBVIOUS
<1>1. PICK r \in Requests : effects' = Append(effects, r)
  BY DEF HapticSend
<1>2. /\ effects \in Seq(Requests) /\ Len(effects) \in Nat /\ Len(effects) < MaxEffects
      /\ UNCHANGED <<motor, off, pass>>
  BY LenProperties DEF HapticInv, HapticTypeOK, HapticSend
<1>3. effects' \in Seq(Requests) /\ Len(effects') = Len(effects) + 1
  BY <1>1, <1>2, AppendProperties
<1>4. Len(effects') =< MaxEffects /\ effects' # <<>>
  BY <1>2, <1>3, HapticAssumption, EmptySeq
<1> QED BY <1>2, <1>3, <1>4 DEF HapticInv, HapticTypeOK, MotorHasTimer

LEMMA HapticMessageKeeps == HapticInv /\ HapticMessage => HapticInv'
<1> SUFFICES ASSUME HapticInv, HapticMessage PROVE HapticInv'
  OBVIOUS
<1>1. /\ effects \in Seq(Requests) /\ Len(effects) \in Nat /\ effects # <<>> /\ Len(effects) =< MaxEffects
      /\ off \in [left : 0 .. Inactive, command : 0 .. OffTicks]
      /\ pass \in [at : {"sleep", "message", "timers"}, timer : BOOLEAN]
  BY LenProperties DEF HapticInv, HapticTypeOK, MotorHasTimer, HapticMessage
<1>2. /\ Head(effects) \in Requests /\ Tail(effects) \in Seq(Requests)
      /\ Len(Tail(effects)) = Len(effects) - 1
  BY <1>1, HeadTailProperties
<1>3. PICK r \in Requests : r = Head(effects)
  BY <1>2
<1>4. r.time \in 1 .. OffTicks
  BY HapticAssumption DEF Requests
<1>5. /\ effects' \in Seq(Requests) /\ Len(effects') =< MaxEffects
      /\ motor' = TRUE /\ off' = [off EXCEPT !.command = r.time] /\ pass' = [pass EXCEPT !.at = "timers"]
  BY <1>1, <1>2, <1>3, HapticAssumption DEF HapticMessage, OffTimer
<1>6. /\ off' \in [left : 0 .. Inactive, command : 0 .. OffTicks] /\ off'.command # NoCommand
      /\ pass' \in [at : {"sleep", "message", "timers"}, timer : BOOLEAN] /\ pass'.at = "timers"
  BY <1>1, <1>4, <1>5, HapticAssumption DEF Inactive, NoCommand
<1> QED BY <1>5, <1>6 DEF HapticInv, HapticTypeOK, MotorHasTimer

(* The steps that leave the queue alone. *)
LEMMA HapticPassKeeps == HapticInv /\ (Tick \/ HapticWake \/ HapticCommand \/ HapticExpire) => HapticInv'
<1> SUFFICES ASSUME HapticInv, Tick \/ HapticWake \/ HapticCommand \/ HapticExpire PROVE HapticInv'
  OBVIOUS
<1>1. /\ OffTicks \in Nat \ {0} /\ Inactive = OffTicks + 1 /\ NoCommand = 0
      /\ off \in [left : 0 .. Inactive, command : 0 .. OffTicks] /\ motor \in BOOLEAN
      /\ pass \in [at : {"sleep", "message", "timers"}, timer : BOOLEAN] /\ MotorHasTimer
  BY HapticAssumption DEF HapticInv, HapticTypeOK, Inactive, NoCommand
<1>2. effects' = effects
  BY DEF Tick, HapticWake, HapticCommand, HapticExpire
<1>3. CASE Tick
  BY <1>1, <1>2, <1>3 DEF HapticInv, HapticTypeOK, MotorHasTimer, Tick
<1>4. CASE HapticWake
  BY <1>1, <1>2, <1>4 DEF HapticInv, HapticTypeOK, MotorHasTimer, HapticWake
<1>5. CASE HapticCommand
  BY <1>1, <1>2, <1>5 DEF HapticInv, HapticTypeOK, MotorHasTimer, HapticCommand
<1>6. CASE HapticExpire
  <2>1. CASE off.left = 0
    <3>1. /\ off' = [off EXCEPT !.left = Inactive] /\ motor' = FALSE
          /\ pass' = [pass EXCEPT !.at = "sleep"] /\ ~pass.timer
      BY <1>6, <2>1 DEF HapticExpire
    <3>2. /\ pass' \in [at : {"sleep", "message", "timers"}, timer : BOOLEAN]
          /\ pass'.at = "sleep" /\ ~pass'.timer
      BY <1>1, <3>1
    <3>3. off' \in [left : 0 .. Inactive, command : 0 .. OffTicks]
      BY <1>1, <3>1
    <3> QED BY <1>1, <1>2, <3>1, <3>2, <3>3 DEF HapticInv, HapticTypeOK, MotorHasTimer
  <2>2. CASE off.left # 0
    <3>1. off' = off /\ motor' = motor /\ pass' = [pass EXCEPT !.at = "sleep"] /\ ~pass.timer
      BY <1>6, <2>2 DEF HapticExpire
    <3>2. /\ pass' \in [at : {"sleep", "message", "timers"}, timer : BOOLEAN]
          /\ pass'.at = "sleep" /\ ~pass'.timer
      BY <1>1, <3>1
    <3> QED BY <1>1, <1>2, <3>1, <3>2 DEF HapticInv, HapticTypeOK, MotorHasTimer
  <2> QED BY <2>1, <2>2
<1> QED BY <1>3, <1>4, <1>5, <1>6

(* The motor is never left running without the timer that stops it: its    *)
(* start is queued or it is active, also when a message comes in the pass  *)
(* in which it expires (haptic_message_queue_callback,                     *)
(* haptic_timer_callback in haptic.c).                                     *)
THEOREM MotorIsTimed == HapticInit /\ [][HapticNext]_hapticVars => [](HapticTypeOK /\ MotorHasTimer)
<1>1. HapticInit => HapticInv
  BY HapticStarts
<1>2. HapticInv /\ [HapticNext]_hapticVars => HapticInv'
  <2>1. HapticInv /\ UNCHANGED hapticVars => HapticInv'
    BY DEF HapticInv, HapticTypeOK, MotorHasTimer, hapticVars
  <2> QED BY <2>1, HapticSendKeeps, HapticMessageKeeps, HapticPassKeeps DEF HapticNext, HapticLoop
<1>3. HapticInv => HapticTypeOK /\ MotorHasTimer
  BY DEF HapticInv
<1> QED BY <1>1, <1>2, <1>3, PTL

-----------------------------------------------------------------------------
(***************************************************************************)
(* The interrupt of the FUSB302.                                           *)
(***************************************************************************)
(* Until one of the known faults, an interrupt that nobody is serving is   *)
(* one the worker will still see fall.  While somebody listens, a change   *)
(* of the inputs that nobody has read yet is on its way to the worker.     *)
InterruptSeen ==
  /\ ~bsp.started => ~chip.on /\ fusb.at = "reset" /\ bsp.at = "wait" /\ "fusb302" \notin bsp.old
  /\ bsp.read = bsp.old
  /\ fusb.at \in {"idle", "readA", "readI"} => fusb.attached
  /\ fusb.at \in {"clear", "enable"} => ~chip.on
  /\ xfaults = {} =>
       /\ Heard /\ Inputs(chip, other) # bsp.seen => ReadAhead
       /\ Low(chip) /\ "fusb302" \notin bsp.old => ReadAhead
       /\ Low(chip) /\ "fusb302" \in bsp.old /\ fusb.at = "idle" => fusb.event

ExpanderInv == ExpanderTypeOK /\ InterruptSeen

(* An interrupt that is not being served is ahead of the worker. *)
InterruptAhead == Served \/ xfaults # {} \/ (ReadAhead /\ "fusb302" \notin bsp.old)

ChipStates == [a : BOOLEAN, i : {"none", "role", "level"}, on : BOOLEAN]
InputSets == SUBSET (OtherInputs \union {"fusb302"})
BspStates == [started : BOOLEAN, flag : BOOLEAN, at : {"wait", "read"}, old : InputSets, read : InputSets,
              seen : InputSets, ear : {"Mcu", "Start", "Cpu", "reset", "deaf", "gone"}]
FusbStates == [at : {"reset", "clear", "enable", "attach", "idle", "readA", "readI"},
               attached : BOOLEAN, event : BOOLEAN, tog : BOOLEAN]

LEMMA InputsOf ==
  ASSUME NEW c \in ChipStates, NEW o \in SUBSET OtherInputs
  PROVE  Inputs(c, o) \in InputSets /\ ("fusb302" \in Inputs(c, o) <=> Low(c))
BY ExpanderAssumption DEF Inputs, InputSets, Low, ChipStates

LEMMA BlameTypes ==
  ASSUME NEW what \in FaultKinds, NEW lost \in BOOLEAN,
         ExpanderTypeOK, Blame(what, lost)
  PROVE  /\ xfaults' \in SUBSET FaultKinds
         /\ xfaults' = {} => xfaults = {} /\ ~lost
BY DEF Blame, ExpanderTypeOK

(* A step of the chip, of another input or of the service that goes to s:  *)
(* what it has to show about the fault it leaves.                          *)
LEMMA ChangeKeeps ==
  ASSUME ExpanderInv, NEW c \in ChipStates, NEW o \in SUBSET OtherInputs, NEW s \in FusbStates,
         Change(c, o), fusb' = s,
         xfaults' \in SUBSET FaultKinds,
         xfaults' = {} => xfaults = {} /\ ~FallUnseen(c, o) /\ ~FallUnheard(c, o),
         ~bsp.started => ~c.on /\ s.at = "reset",
         s.at \in {"idle", "readA", "readI"} => s.attached,
         s.at \in {"clear", "enable"} => ~c.on,
         xfaults' = {} /\ Low(c) /\ "fusb302" \in bsp.old /\ s.at = "idle" => s.event
  PROVE  ExpanderInv'
<1>1. /\ chip \in ChipStates /\ other \in SUBSET OtherInputs /\ bsp \in BspStates
      /\ InterruptSeen
      /\ "fusb302" \in bsp.old => bsp.started
      /\ Low(c) => bsp.started
  BY DEF Low, ExpanderInv, ExpanderTypeOK, InterruptSeen, ChipStates, BspStates, InputSets
<1>2. PICK k \in BOOLEAN :
        k = (bsp.flag \/ (Heard /\ Inputs(chip, other) = bsp.seen /\ Inputs(c, o) # bsp.seen))
  OBVIOUS
<1>3. /\ chip' = c /\ other' = o /\ bsp' \in BspStates
      /\ bsp'.flag = k /\ bsp'.started = bsp.started /\ bsp'.at = bsp.at
      /\ bsp'.old = bsp.old /\ bsp'.read = bsp.read /\ bsp'.seen = bsp.seen /\ bsp'.ear = bsp.ear
  <2>1. chip' = c /\ other' = o /\ bsp' = [bsp EXCEPT !.flag = k]
    BY <1>1, <1>2 DEF Change, BspStates
  <2> QED BY <1>1, <2>1 DEF BspStates
<1>4. ExpanderTypeOK'
  BY <1>3 DEF ExpanderTypeOK, ChipStates, FusbStates, BspStates, InputSets
<1>5. PICK b \in InputSets, a \in InputSets :
        /\ b = Inputs(chip, other) /\ a = Inputs(c, o)
        /\ "fusb302" \in b <=> Low(chip)
        /\ "fusb302" \in a <=> Low(c)
  BY <1>1, InputsOf
<1>6. ASSUME xfaults' = {}, ~bsp'.flag, bsp.at # "read"
      PROVE  /\ Heard => a = bsp.seen
             /\ ~(Low(c) /\ "fusb302" \notin bsp.old)
  <2>1. /\ ~ReadAhead /\ xfaults = {} /\ ~FallUnseen(c, o) /\ ~FallUnheard(c, o)
        /\ Heard => b = bsp.seen /\ a = bsp.seen
    BY <1>1, <1>2, <1>3, <1>5, <1>6 DEF InterruptSeen, ReadAhead
  <2>2. Low(chip) => "fusb302" \in bsp.old
    BY <1>1, <2>1 DEF InterruptSeen
  <2>3. Low(c) => Low(chip)
    BY <1>5, <2>1 DEF FallUnheard, Falls
  <2> QED BY <2>1, <2>2, <2>3
<1>7. InterruptSeen'
  <2>1. ReadAhead' <=> bsp'.flag \/ bsp.at = "read"
    BY <1>3 DEF ReadAhead
  <2>2. Inputs(chip', other') = a /\ (Heard' <=> Heard)
    BY <1>3, <1>5 DEF Heard
  <2> QED BY <1>1, <1>3, <1>6, <2>1, <2>2 DEF InterruptSeen
<1> QED BY <1>4, <1>7 DEF ExpanderInv

LEMMA FaultyTypes ==
  ASSUME NEW what \in FaultKinds, NEW lost \in BOOLEAN,
         NEW c \in ChipStates, NEW o \in SUBSET OtherInputs,
         ExpanderTypeOK, Faulty(what, c, o, lost)
  PROVE  /\ xfaults' \in SUBSET FaultKinds
         /\ xfaults' = {} => xfaults = {} /\ ~lost /\ ~FallUnseen(c, o) /\ ~FallUnheard(c, o)
<1>1. PICK gone \in BOOLEAN : gone = (FallUnseen(c, o) \/ FallUnheard(c, o))
  OBVIOUS
<1>2. PICK w \in FaultKinds, l \in BOOLEAN :
        /\ w = IF gone THEN IF FallUnseen(c, o) THEN "unseen" ELSE "unheard" ELSE what
        /\ l = (lost \/ gone)
  BY DEF FaultKinds
<1>3. Blame(w, l)
  BY <1>1, <1>2 DEF Faulty
<1> QED BY <1>1, <1>2, <1>3, BlameTypes

LEMMA NothingFalls ==
  ASSUME ExpanderInv, NEW c \in ChipStates, NEW o \in SUBSET OtherInputs, Low(c) => Low(chip)
  PROVE  ~FallUnseen(c, o) /\ ~FallUnheard(c, o)
<1>1. chip \in ChipStates /\ other \in SUBSET OtherInputs
  BY DEF ExpanderInv, ExpanderTypeOK, ChipStates
<1>2. ("fusb302" \in Inputs(chip, other) <=> Low(chip)) /\ ("fusb302" \in Inputs(c, o) <=> Low(c))
  BY <1>1, InputsOf
<1> QED BY <1>2 DEF FallUnseen, FallUnheard, Falls

LEMMA ExpanderStarts == ExpanderInit => ExpanderInv
<1> SUFFICES ASSUME ExpanderInit PROVE ExpanderInv
  OBVIOUS
<1>1. ExpanderTypeOK
  BY DEF ExpanderInit, ExpanderTypeOK
<1>2. ~Low(chip)
  BY DEF ExpanderInit, Low
<1> QED BY <1>1, <1>2 DEF ExpanderInit, ExpanderInv, InterruptSeen, Heard

LEMMA ExpanderParts ==
  ASSUME ExpanderInv
  PROVE  /\ chip \in ChipStates /\ other \in SUBSET OtherInputs
         /\ bsp \in BspStates /\ fusb \in FusbStates
         /\ xfaults \in SUBSET FaultKinds
         /\ ExpanderTypeOK /\ InterruptSeen
BY DEF ExpanderInv, ExpanderTypeOK, ChipStates, BspStates, FusbStates, InputSets

LEMMA ChipReportsKeeps == ExpanderInv /\ ChipReports => ExpanderInv'
<1> SUFFICES ASSUME ExpanderInv, ChipReports PROVE ExpanderInv'
  OBVIOUS
<1>1. PICK c \in {[chip EXCEPT !.a = TRUE], [chip EXCEPT !.i = "role"],
                  [chip EXCEPT !.i = IF @ = "role" THEN "role" ELSE "level"]} :
        Change(c, other) /\ Faulty("unseen", c, other, FALSE) /\ UNCHANGED fusb
  BY DEF ChipReports
<1>2. c \in ChipStates /\ c.on = chip.on
  BY <1>1, ExpanderParts DEF ChipStates
<1>3. /\ xfaults' \in SUBSET FaultKinds
      /\ xfaults' = {} => xfaults = {} /\ ~FallUnseen(c, other) /\ ~FallUnheard(c, other)
  BY <1>1, <1>2, ExpanderParts, FaultyTypes DEF FaultKinds
<1>4. PICK s \in FusbStates : s = fusb
  BY ExpanderParts
<1>5. c.a = chip.a \/ c.i = chip.i
  BY <1>1, ExpanderParts DEF ChipStates
<1>6. "fusb302" \in bsp.old /\ s.at = "idle" /\ Low(c) /\ xfaults' = {} => s.event
  <2>1. SUFFICES ASSUME "fusb302" \in bsp.old, s.at = "idle", Low(c), xfaults' = {}, ~s.event PROVE FALSE
    OBVIOUS
  <2>2. ~Low(chip)
    BY <1>3, <1>4, <2>1, ExpanderParts DEF InterruptSeen
  <2>3. FallUnseen(c, other)
    BY <1>2, <2>1, <2>2, InputsOf, ExpanderParts DEF InterruptSeen, Known, FallUnseen, Falls
  <2> QED BY <1>3, <2>1, <2>3
<1> QED BY <1>1, <1>2, <1>3, <1>4, <1>6, ExpanderParts, ChangeKeeps DEF InterruptSeen

LEMMA OtherChangesKeeps == ExpanderInv /\ OtherChanges => ExpanderInv'
<1> SUFFICES ASSUME ExpanderInv, OtherChanges PROVE ExpanderInv'
  OBVIOUS
<1>1. PICK o \in SUBSET OtherInputs :
        Change(chip, o) /\ Faulty("unseen", chip, o, FALSE) /\ UNCHANGED fusb
  <2>1. PICK x \in OtherInputs :
          LET o == IF x \in other THEN other \ {x} ELSE other \union {x} IN
          Change(chip, o) /\ Faulty("unseen", chip, o, FALSE) /\ UNCHANGED fusb
    BY DEF OtherChanges
  <2>2. (IF x \in other THEN other \ {x} ELSE other \union {x}) \in SUBSET OtherInputs
    BY ExpanderParts
  <2> QED BY <2>1, <2>2
<1>2. PICK c \in ChipStates, s \in FusbStates : c = chip /\ s = fusb
  BY ExpanderParts
<1>3. Change(c, o) /\ Faulty("unseen", c, o, FALSE)
  BY <1>1, <1>2
<1>4. /\ xfaults' \in SUBSET FaultKinds
      /\ xfaults' = {} => xfaults = {} /\ ~FallUnseen(c, o) /\ ~FallUnheard(c, o)
  BY <1>3, ExpanderParts, FaultyTypes DEF FaultKinds
<1> QED BY <1>1, <1>2, <1>3, <1>4, ExpanderParts, ChangeKeeps DEF InterruptSeen

(* The service goes to s, and the lines stay as they are. *)
LEMMA ServiceKeeps ==
  ASSUME ExpanderInv, NEW s \in FusbStates, UNCHANGED <<chip, other, bsp>>, fusb' = s,
         xfaults' \in SUBSET FaultKinds,
         xfaults' = {} => xfaults = {},
         bsp.started,
         s.at \in {"idle", "readA", "readI"} => s.attached,
         s.at \notin {"clear", "enable"},
         xfaults' = {} /\ Low(chip) /\ "fusb302" \in bsp.old /\ s.at = "idle" => s.event
  PROVE  ExpanderInv'
<1>1. ExpanderTypeOK'
  BY ExpanderParts DEF ExpanderTypeOK, FusbStates
<1>2. ReadAhead' <=> ReadAhead
  BY DEF ReadAhead
<1>3. /\ Low(chip)' <=> Low(chip)
      /\ Heard' <=> Heard
      /\ Inputs(chip', other') = Inputs(chip, other)
  BY DEF Low, Heard
<1>4. InterruptSeen'
  BY <1>2, <1>3, ExpanderParts DEF InterruptSeen
<1> QED BY <1>1, <1>4 DEF ExpanderInv

LEMMA DrpFailsKeeps == ExpanderInv /\ DrpFails => ExpanderInv'
<1> SUFFICES ASSUME ExpanderInv, DrpFails PROVE ExpanderInv'
  OBVIOUS
<1>1. PICK s \in FusbStates : /\ s = fusb' /\ s.attached = fusb.attached /\ s.event = fusb.event
                              /\ s.at = IF fusb.attached THEN "idle" ELSE "attach"
  BY ExpanderParts DEF DrpFails, FusbStates
<1>2. PICK c \in ChipStates, o \in SUBSET OtherInputs, lost \in BOOLEAN :
        c = chip /\ o = other /\ lost = (Low(chip) /\ Known /\ ~fusb.event)
  BY ExpanderParts
<1>3. Faulty("kept", c, o, lost) /\ UNCHANGED <<chip, other, bsp>> /\ bsp.started
  BY <1>2 DEF DrpFails
<1>4. /\ xfaults' \in SUBSET FaultKinds
      /\ xfaults' = {} => xfaults = {} /\ ~lost
  BY <1>3, ExpanderParts, FaultyTypes DEF FaultKinds
<1> QED BY <1>1, <1>2, <1>3, <1>4, ExpanderParts, ServiceKeeps DEF InterruptSeen, Known

LEMMA AttachKeeps == ExpanderInv /\ Attach => ExpanderInv'
<1> SUFFICES ASSUME ExpanderInv, Attach PROVE ExpanderInv'
  OBVIOUS
<1>1. PICK s \in FusbStates : s = fusb' /\ s.attached /\ s.at = "idle"
  <2>1. LET w == [fusb EXCEPT !.attached = TRUE, !.at = "idle"] IN
        w \in FusbStates /\ w.attached /\ w.at = "idle"
    BY ExpanderParts DEF FusbStates
  <2> QED BY <2>1 DEF Attach
<1>2. PICK lost \in BOOLEAN : lost = (Low(chip) /\ Known)
  OBVIOUS
<1>3. Blame("early", lost) /\ UNCHANGED <<chip, other, bsp>> /\ bsp.started
  BY <1>2, ExpanderParts DEF Attach, InterruptSeen, BspStates
<1>4. /\ xfaults' \in SUBSET FaultKinds
      /\ xfaults' = {} => xfaults = {} /\ ~lost
  BY <1>3, ExpanderParts, BlameTypes DEF FaultKinds
<1> QED BY <1>1, <1>2, <1>3, <1>4, ExpanderParts, ServiceKeeps DEF InterruptSeen, Known

LEMMA FusbEventKeeps == ExpanderInv /\ FusbEvent => ExpanderInv'
<1> SUFFICES ASSUME ExpanderInv, FusbEvent PROVE ExpanderInv'
  OBVIOUS
<1>1. PICK s \in FusbStates : s = fusb' /\ s.attached = fusb.attached /\ s.at = "readA"
  <2>1. LET w == [fusb EXCEPT !.event = FALSE, !.at = "readA"] IN
        w \in FusbStates /\ w.attached = fusb.attached /\ w.at = "readA"
    BY ExpanderParts DEF FusbStates
  <2> QED BY <2>1 DEF FusbEvent
<1>2. UNCHANGED <<chip, other, bsp, xfaults>> /\ bsp.started /\ fusb.attached
  BY ExpanderParts DEF FusbEvent, InterruptSeen, BspStates
<1> QED BY <1>1, <1>2, ExpanderParts, ServiceKeeps

(* The steps of the service that clear the chip. *)
LEMMA DrpKeeps == ExpanderInv /\ (DrpReset \/ DrpClear) => ExpanderInv'
<1> SUFFICES ASSUME ExpanderInv, DrpReset \/ DrpClear PROVE ExpanderInv'
  OBVIOUS
<1>1. PICK s \in FusbStates : s = fusb' /\ s.at \in {"clear", "enable"}
  BY ExpanderParts DEF DrpReset, DrpClear, FusbStates
<1>2. PICK c \in ChipStates : Change(c, other) /\ ~Low(c) /\ ~c.on
  <2>1. LET w == [a |-> FALSE, i |-> "none", on |-> FALSE] IN w \in ChipStates /\ ~Low(w) /\ ~w.on
    BY DEF ChipStates, Low
  <2>2. LET w == [chip EXCEPT !.a = FALSE, !.i = "none"] IN
        w \in ChipStates /\ ~Low(w) /\ (fusb.at = "clear" => ~w.on)
    BY ExpanderParts DEF ChipStates, Low, InterruptSeen
  <2> QED BY <2>1, <2>2 DEF DrpReset, DrpClear
<1>3. xfaults' = xfaults /\ bsp.started
  BY ExpanderParts DEF DrpReset, DrpClear, InterruptSeen, BspStates
<1>4. PICK o \in SUBSET OtherInputs : o = other
  BY ExpanderParts
<1>5. Change(c, o) /\ ~FallUnseen(c, o) /\ ~FallUnheard(c, o)
  BY <1>2, <1>4, NothingFalls
<1> QED BY <1>1, <1>2, <1>3, <1>5, ExpanderParts, ChangeKeeps

LEMMA DrpEnableKeeps == ExpanderInv /\ DrpEnable => ExpanderInv'
<1> SUFFICES ASSUME ExpanderInv, DrpEnable PROVE ExpanderInv'
  OBVIOUS
<1>1. PICK s \in FusbStates : /\ s = fusb' /\ s.attached = fusb.attached /\ s.event = fusb.event
                              /\ s.at = IF fusb.attached THEN "idle" ELSE "attach"
  BY ExpanderParts DEF DrpEnable, FusbStates
<1>2. PICK c \in ChipStates : c = [chip EXCEPT !.on = TRUE]
  BY ExpanderParts DEF ChipStates
<1>3. PICK o \in SUBSET OtherInputs : o = other
  BY ExpanderParts
<1>4. Change(c, o) /\ Faulty("unseen", c, o, FALSE) /\ bsp.started /\ fusb.at = "enable"
  BY <1>2, <1>3, ExpanderParts DEF DrpEnable, InterruptSeen, BspStates
<1>5. /\ xfaults' \in SUBSET FaultKinds
      /\ xfaults' = {} => xfaults = {} /\ ~FallUnseen(c, o) /\ ~FallUnheard(c, o)
  BY <1>4, ExpanderParts, FaultyTypes DEF FaultKinds
<1>6. ASSUME Low(c), "fusb302" \in bsp.old, xfaults' = {} PROVE FALSE
  <2>1. ~Low(chip)
    BY <1>4, ExpanderParts DEF InterruptSeen, Low
  <2>2. "fusb302" \in Inputs(c, o) \ Inputs(chip, other)
    BY <1>6, <2>1, ExpanderParts, InputsOf
  <2> QED BY <1>5, <1>6, <2>2, ExpanderParts DEF InterruptSeen, Known, FallUnseen, Falls
<1> QED BY <1>1, <1>4, <1>5, <1>6, ChangeKeeps

LEMMA ReadInterruptAKeeps == ExpanderInv /\ ReadInterruptA => ExpanderInv'
<1> SUFFICES ASSUME ExpanderInv, ReadInterruptA PROVE ExpanderInv'
  OBVIOUS
<1>1. PICK ok \in BOOLEAN :
        /\ fusb.at = "readA" /\ UNCHANGED xfaults
        /\ Change([chip EXCEPT !.a = @ /\ ~ok], other)
        /\ fusb' = [fusb EXCEPT !.tog = ok /\ chip.a, !.at = "readI"]
  BY DEF ReadInterruptA
<1>2. PICK s \in FusbStates : s = fusb' /\ s.attached = fusb.attached /\ s.at = "readI"
  <2>1. LET w == [fusb EXCEPT !.tog = ok /\ chip.a, !.at = "readI"] IN
        w \in FusbStates /\ w.attached = fusb.attached /\ w.at = "readI"
    BY ExpanderParts DEF FusbStates, ChipStates
  <2> QED BY <1>1, <2>1
<1>3. PICK c \in ChipStates : Change(c, other) /\ (Low(c) => Low(chip)) /\ c.on = chip.on
  <2>1. LET w == [chip EXCEPT !.a = @ /\ ~ok] IN
        w \in ChipStates /\ (Low(w) => Low(chip)) /\ w.on = chip.on
    BY ExpanderParts DEF ChipStates, Low
  <2> QED BY <1>1, <2>1
<1>4. PICK o \in SUBSET OtherInputs : o = other
  BY ExpanderParts
<1>5. Change(c, o) /\ ~FallUnseen(c, o) /\ ~FallUnheard(c, o)
  BY <1>3, <1>4, NothingFalls
<1>6. bsp.started /\ fusb.attached
  BY <1>1, ExpanderParts DEF InterruptSeen, BspStates
<1> QED BY <1>1, <1>2, <1>5, <1>6, ExpanderParts, ChangeKeeps

LEMMA ReadInterruptKeeps == ExpanderInv /\ ReadInterrupt => ExpanderInv'
<1> SUFFICES ASSUME ExpanderInv, ReadInterrupt PROVE ExpanderInv'
  OBVIOUS
<1>1. PICK ok \in BOOLEAN :
        LET c     == IF ok THEN [chip EXCEPT !.i = "none"] ELSE chip
            again == ok /\ ~fusb.tog /\ chip.i = "role" IN
        /\ fusb.at = "readI"
        /\ Change(c, other)
        /\ fusb' = [fusb EXCEPT !.tog = FALSE, !.at = IF again THEN "reset" ELSE "idle"]
        /\ Faulty("kept", c, other, ~again /\ Low(c) /\ Known /\ ~fusb.event)
  BY DEF ReadInterrupt
<1>2. PICK again \in BOOLEAN : again = (ok /\ ~fusb.tog /\ chip.i = "role")
  OBVIOUS
<1>3. PICK c \in ChipStates : c = IF ok THEN [chip EXCEPT !.i = "none"] ELSE chip
  BY ExpanderParts DEF ChipStates
<1>4. PICK s \in FusbStates : /\ s = fusb' /\ s.attached = fusb.attached /\ s.event = fusb.event
                              /\ s.at = IF again THEN "reset" ELSE "idle"
  <2>1. PICK a \in {"reset", "idle"} : a = IF again THEN "reset" ELSE "idle"
    OBVIOUS
  <2>2. LET w == [fusb EXCEPT !.tog = FALSE, !.at = a] IN
        w \in FusbStates /\ w.attached = fusb.attached /\ w.event = fusb.event /\ w.at = a
    BY ExpanderParts DEF FusbStates
  <2> QED BY <1>1, <1>2, <2>1, <2>2
<1>5. PICK o \in SUBSET OtherInputs, lost \in BOOLEAN :
        o = other /\ lost = (~again /\ Low(c) /\ Known /\ ~fusb.event)
  BY ExpanderParts
<1>6. Change(c, o) /\ Faulty("kept", c, o, lost) /\ fusb.at = "readI"
  BY <1>1, <1>2, <1>3, <1>5
<1>7. /\ xfaults' \in SUBSET FaultKinds
      /\ xfaults' = {} => xfaults = {} /\ ~lost /\ ~FallUnseen(c, o) /\ ~FallUnheard(c, o)
  BY <1>6, ExpanderParts, FaultyTypes DEF FaultKinds
<1>8. bsp.started /\ fusb.attached
  BY <1>6, ExpanderParts DEF InterruptSeen, BspStates
<1> QED BY <1>4, <1>5, <1>6, <1>7, <1>8, ExpanderParts, ChangeKeeps DEF InterruptSeen, Known

(* The worker, whoever else reads the expander, and the application of the *)
(* CPU: the chip and the other inputs stay as they are.                    *)
LEMMA WorkerKeeps ==
  ASSUME ExpanderInv, NEW b \in BspStates, NEW s \in FusbStates,
         UNCHANGED <<chip, other>>, bsp' = b, fusb' = s,
         xfaults' \in SUBSET FaultKinds,
         xfaults' = {} => xfaults = {},
         b.read = b.old,
         ~b.started => b.old = bsp.old /\ b.at = bsp.at /\ ~bsp.started,
         s.at = fusb.at, s.attached = fusb.attached,
         xfaults' = {} =>
           /\ b.started /\ b.ear \in {"Mcu", "Start"} /\ Inputs(chip, other) # b.seen
                => b.flag \/ b.at = "read"
           /\ Low(chip) /\ "fusb302" \notin b.old => b.flag \/ b.at = "read"
           /\ Low(chip) /\ "fusb302" \in b.old /\ s.at = "idle" => s.event
  PROVE  ExpanderInv'
<1>1. ExpanderTypeOK'
  BY ExpanderParts DEF ExpanderTypeOK, FusbStates, ChipStates, BspStates, InputSets
<1>2. /\ ReadAhead' <=> b.flag \/ b.at = "read"
      /\ Heard' <=> b.started /\ b.ear \in {"Mcu", "Start"}
  BY DEF ReadAhead, Heard
<1>3. /\ Low(chip)' <=> Low(chip)
      /\ Inputs(chip', other') = Inputs(chip, other)
  BY DEF Low
<1>4. InterruptSeen'
  BY <1>2, <1>3, ExpanderParts DEF InterruptSeen
<1> QED BY <1>1, <1>4 DEF ExpanderInv

LEMMA OthersReadKeeps == ExpanderInv /\ OthersRead => ExpanderInv'
<1> SUFFICES ASSUME ExpanderInv, OthersRead PROVE ExpanderInv'
  OBVIOUS
<1>1. PICK x \in InputSets, s \in FusbStates : x = Inputs(chip, other) /\ s = fusb
  BY ExpanderParts, InputsOf
<1>2. PICK b \in BspStates : /\ b = bsp' /\ b.started /\ b.seen = x
                             /\ b.flag = bsp.flag /\ b.at = bsp.at /\ b.old = bsp.old /\ b.read = bsp.read /\ b.ear = bsp.ear
  <2>1. LET w == [bsp EXCEPT !.seen = x] IN
        /\ w \in BspStates /\ w.started = bsp.started /\ w.seen = x
        /\ w.flag = bsp.flag /\ w.at = bsp.at /\ w.old = bsp.old /\ w.read = bsp.read /\ w.ear = bsp.ear
    BY ExpanderParts DEF BspStates
  <2> QED BY <1>1, <2>1 DEF OthersRead
<1>3. UNCHANGED <<chip, other, fusb, xfaults>>
  BY DEF OthersRead
<1> QED BY <1>1, <1>2, <1>3, ExpanderParts, WorkerKeeps DEF InterruptSeen, ReadAhead, Heard

LEMMA WorkerStartKeeps == ExpanderInv /\ WorkerStart => ExpanderInv'
<1> SUFFICES ASSUME ExpanderInv, WorkerStart PROVE ExpanderInv'
  OBVIOUS
<1>1. PICK s \in FusbStates, lost \in BOOLEAN : s = fusb /\ lost = (Inputs(chip, other) # bsp.seen)
  BY ExpanderParts
<1>2. PICK b \in BspStates : /\ b = bsp' /\ b.started /\ b.seen = bsp.seen
                             /\ b.flag = bsp.flag /\ b.at = bsp.at /\ b.old = bsp.old /\ b.read = bsp.read
  <2>1. LET w == [bsp EXCEPT !.started = TRUE] IN
        /\ w \in BspStates /\ w.started /\ w.seen = bsp.seen
        /\ w.flag = bsp.flag /\ w.at = bsp.at /\ w.old = bsp.old /\ w.read = bsp.read
    BY ExpanderParts DEF BspStates
  <2> QED BY <2>1 DEF WorkerStart
<1>3. UNCHANGED <<chip, other, fusb>> /\ Blame("early", lost) /\ ~bsp.started
  BY <1>1 DEF WorkerStart
<1>4. /\ xfaults' \in SUBSET FaultKinds
      /\ xfaults' = {} => xfaults = {} /\ ~lost
  BY <1>3, ExpanderParts, BlameTypes DEF FaultKinds
<1>5. ~Low(chip) /\ "fusb302" \notin bsp.old
  BY <1>3, ExpanderParts DEF InterruptSeen, Low
<1> QED BY <1>1, <1>2, <1>3, <1>4, <1>5, ExpanderParts, WorkerKeeps DEF InterruptSeen

LEMMA WorkerWaitKeeps == ExpanderInv /\ WorkerWait => ExpanderInv'
<1> SUFFICES ASSUME ExpanderInv, WorkerWait PROVE ExpanderInv'
  OBVIOUS
<1>1. PICK s \in FusbStates : s = fusb
  BY ExpanderParts
<1>2. PICK b \in BspStates : /\ b = bsp' /\ b.started = bsp.started /\ b.seen = bsp.seen
                             /\ b.at = "read" /\ b.old = bsp.old /\ b.read = bsp.read
  <2>1. LET w == [bsp EXCEPT !.flag = FALSE, !.at = "read"] IN
        /\ w \in BspStates /\ w.started = bsp.started /\ w.seen = bsp.seen
        /\ w.at = "read" /\ w.old = bsp.old /\ w.read = bsp.read
    BY ExpanderParts DEF BspStates
  <2> QED BY <2>1 DEF WorkerWait
<1>3. UNCHANGED <<chip, other, fusb, xfaults>> /\ bsp.started
  BY DEF WorkerWait
<1> QED BY <1>1, <1>2, <1>3, ExpanderParts, WorkerKeeps DEF InterruptSeen, Heard

LEMMA WorkerReadKeeps == ExpanderInv /\ WorkerRead => ExpanderInv'
<1> SUFFICES ASSUME ExpanderInv, WorkerRead PROVE ExpanderInv'
  OBVIOUS
<1>1. PICK ok \in BOOLEAN :
        LET input == IF ok THEN Inputs(chip, other) ELSE {} IN
        /\ bsp.at = "read"
        /\ bsp' = [bsp EXCEPT !.at = "wait", !.old = Remember(input), !.read = input,
                              !.seen = IF ok THEN input ELSE @]
        /\ fusb' = IF "fusb302" \in input \ bsp.old /\ fusb.attached
                   THEN [fusb EXCEPT !.event = TRUE] ELSE fusb
        /\ Blame("unread", ~ok /\ (Low(chip) \/ Inputs(chip, other) # bsp.seen))
        /\ UNCHANGED <<chip, other>>
  BY DEF WorkerRead
<1>2. PICK x \in InputSets : x = Inputs(chip, other) /\ ("fusb302" \in x <=> Low(chip))
  BY ExpanderParts, InputsOf
<1>3. PICK input \in InputSets : input = IF ok THEN x ELSE {}
  BY DEF InputSets
<1>4. PICK seen \in InputSets : seen = IF ok THEN x ELSE bsp.seen
  BY ExpanderParts DEF BspStates
<1>5. PICK lost \in BOOLEAN : lost = (~ok /\ (Low(chip) \/ x # bsp.seen))
  OBVIOUS
<1>6. PICK b \in BspStates : /\ b = bsp' /\ b.started = bsp.started /\ b.seen = seen
                             /\ b.at = "wait" /\ b.old = input /\ b.read = input /\ b.flag = bsp.flag
  <2>1. LET w == [bsp EXCEPT !.at = "wait", !.old = input, !.read = input, !.seen = seen] IN
        /\ w \in BspStates /\ w.started = bsp.started /\ w.seen = seen
        /\ w.at = "wait" /\ w.old = input /\ w.read = input /\ w.flag = bsp.flag
    BY ExpanderParts DEF BspStates
  <2>2. bsp' = [bsp EXCEPT !.at = "wait", !.old = input, !.read = input, !.seen = seen]
    BY <1>1, <1>2, <1>3, <1>4, ExpanderParts DEF Remember, BspStates
  <2> QED BY <2>1, <2>2
<1>7. PICK s \in FusbStates :
        /\ s = fusb' /\ s.at = fusb.at /\ s.attached = fusb.attached
        /\ s.event = (fusb.event \/ ("fusb302" \in input \ bsp.old /\ fusb.attached))
  <2>1. LET w == [fusb EXCEPT !.event = TRUE] IN
        w \in FusbStates /\ w.at = fusb.at /\ w.attached = fusb.attached /\ w.event = TRUE
    BY ExpanderParts DEF FusbStates
  <2>2. CASE "fusb302" \in input \ bsp.old /\ fusb.attached
    <3>1. fusb' = [fusb EXCEPT !.event = TRUE]
      BY <1>1, <1>2, <1>3, <2>2
    <3> QED BY <2>1, <2>2, <3>1
  <2>3. CASE ~("fusb302" \in input \ bsp.old /\ fusb.attached)
    <3>1. fusb' = fusb
      BY <1>1, <1>2, <1>3, <2>3
    <3> QED BY <2>3, <3>1, ExpanderParts DEF FusbStates
  <2> QED BY <2>2, <2>3
<1>8. Blame("unread", lost) /\ UNCHANGED <<chip, other>> /\ bsp.at = "read"
  BY <1>1, <1>2, <1>5
<1>9. /\ xfaults' \in SUBSET FaultKinds
      /\ xfaults' = {} => xfaults = {} /\ ~lost
  BY <1>8, ExpanderParts, BlameTypes DEF FaultKinds
<1>10. ASSUME ~bsp.started PROVE FALSE
  BY <1>8, <1>10, ExpanderParts DEF InterruptSeen
<1>11. ASSUME xfaults' = {}
       PROVE  /\ b.started /\ b.ear \in {"Mcu", "Start"} /\ x # b.seen => b.flag \/ b.at = "read"
              /\ Low(chip) /\ "fusb302" \notin b.old => b.flag \/ b.at = "read"
              /\ Low(chip) /\ "fusb302" \in b.old /\ s.at = "idle" => s.event
  <2>1. CASE ok
    <3>1. b.seen = x /\ b.old = x
      BY <1>3, <1>4, <1>6, <2>1
    <3>2. ASSUME Low(chip), s.at = "idle" PROVE s.event
      <4>1. "fusb302" \in input /\ fusb.attached /\ fusb.at = "idle" /\ xfaults = {}
        BY <1>2, <1>3, <1>7, <1>9, <1>11, <2>1, <3>2, ExpanderParts DEF InterruptSeen
      <4>2. "fusb302" \in bsp.old => fusb.event
        BY <3>2, <4>1, ExpanderParts DEF InterruptSeen
      <4> QED BY <1>7, <4>1, <4>2
    <3> QED BY <1>2, <3>1, <3>2
  <2>2. CASE ~ok
    BY <1>3, <1>4, <1>5, <1>6, <1>9, <1>11, <2>2
  <2> QED BY <2>1, <2>2
<1> QED BY <1>2, <1>6, <1>7, <1>8, <1>9, <1>10, <1>11, WorkerKeeps

(* The application of the CPU resets the main board and hands it over. *)
LEMMA CpuAppKeeps == ExpanderInv /\ CpuApp => ExpanderInv'
<1> SUFFICES ASSUME ExpanderInv, CpuApp PROVE ExpanderInv'
  OBVIOUS
<1>1. PICK s \in FusbStates, x \in InputSets : s = fusb /\ x = Inputs(chip, other)
  BY ExpanderParts, InputsOf
<1>2. UNCHANGED <<chip, other, fusb>>
  BY DEF CpuApp, MainReset, MainAwakes, MainAttach, SetControl
<1>3. CASE MainReset \/ SetControl
  <2>1. PICK e \in {"reset", "Cpu"} : bsp' = [bsp EXCEPT !.ear = e]
    BY <1>3 DEF MainReset, SetControl
  <2>2. PICK b \in BspStates : /\ b = bsp' /\ b.started = bsp.started /\ b.ear = e
                               /\ b.flag = bsp.flag /\ b.at = bsp.at /\ b.old = bsp.old /\ b.read = bsp.read
    <3>1. LET w == [bsp EXCEPT !.ear = e] IN
          /\ w \in BspStates /\ w.started = bsp.started /\ w.ear = e
          /\ w.flag = bsp.flag /\ w.at = bsp.at /\ w.old = bsp.old /\ w.read = bsp.read
      BY ExpanderParts DEF BspStates
    <3> QED BY <2>1, <3>1
  <2>3. xfaults' = xfaults
    BY <1>3 DEF MainReset, SetControl
  <2> QED BY <1>1, <1>2, <2>2, <2>3, ExpanderParts, WorkerKeeps DEF InterruptSeen, ReadAhead
<1>4. CASE MainAwakes
  <2>1. PICK b \in BspStates : /\ b = bsp' /\ b.started = bsp.started /\ b.seen = x
                               /\ b.flag = bsp.flag /\ b.at = bsp.at /\ b.old = bsp.old /\ b.read = bsp.read
    <3>1. LET w == [bsp EXCEPT !.ear = "deaf", !.seen = x] IN
          /\ w \in BspStates /\ w.started = bsp.started /\ w.seen = x
          /\ w.flag = bsp.flag /\ w.at = bsp.at /\ w.old = bsp.old /\ w.read = bsp.read
      BY ExpanderParts DEF BspStates
    <3> QED BY <1>1, <1>4, <3>1 DEF MainAwakes
  <2>2. xfaults' = xfaults
    BY <1>4 DEF MainAwakes
  <2> QED BY <1>1, <1>2, <2>1, <2>2, ExpanderParts, WorkerKeeps DEF InterruptSeen, ReadAhead
<1>5. CASE MainAttach
  <2>1. PICK same \in BOOLEAN, start \in BOOLEAN :
          /\ bsp' = [bsp EXCEPT !.ear = IF ~same THEN "gone" ELSE IF start THEN "Start" ELSE "Mcu"]
          /\ IF same THEN Blame("unheard", Inputs(chip, other) # bsp.seen /\ ~ReadAhead)
                     ELSE Blame("handle", TRUE)
    BY <1>5 DEF MainAttach
  <2>2. PICK e \in {"gone", "Start", "Mcu"} : e = IF ~same THEN "gone" ELSE IF start THEN "Start" ELSE "Mcu"
    OBVIOUS
  <2>3. PICK b \in BspStates : /\ b = bsp' /\ b.started = bsp.started /\ b.seen = bsp.seen
                               /\ b.flag = bsp.flag /\ b.at = bsp.at /\ b.old = bsp.old /\ b.read = bsp.read
    <3>1. LET w == [bsp EXCEPT !.ear = e] IN
          /\ w \in BspStates /\ w.started = bsp.started /\ w.seen = bsp.seen
          /\ w.flag = bsp.flag /\ w.at = bsp.at /\ w.old = bsp.old /\ w.read = bsp.read
      BY ExpanderParts DEF BspStates
    <3> QED BY <2>1, <2>2, <3>1
  <2>4. PICK lost \in BOOLEAN : lost = (x # bsp.seen /\ ~ReadAhead)
    OBVIOUS
  <2>5. PICK what \in FaultKinds, l \in BOOLEAN : Blame(what, l) /\ (lost => l)
    BY <1>1, <2>1, <2>4 DEF FaultKinds
  <2>6. /\ xfaults' \in SUBSET FaultKinds
        /\ xfaults' = {} => xfaults = {} /\ ~l
    BY <2>5, ExpanderParts, BlameTypes DEF FaultKinds
  <2>7. xfaults' = {} /\ x # b.seen => b.flag \/ b.at = "read"
    BY <2>3, <2>4, <2>5, <2>6 DEF ReadAhead
  <2> QED BY <1>1, <1>2, <2>3, <2>6, <2>7, ExpanderParts, WorkerKeeps DEF InterruptSeen, ReadAhead
<1> QED BY <1>3, <1>4, <1>5 DEF CpuApp

(* Until one of the six faults of ExpanderMain has happened, an interrupt  *)
(* of the FUSB302 that its service is not serving is ahead of the worker,  *)
(* which is about to read the inputs and has not seen the line low yet: it *)
(* is not lost, whatever the other inputs do, whoever else reads the       *)
(* expander, and when the main board is reset or handed over to the CPU    *)
(* (furi_bsp_expander_callback_thread, furi_bsp_main_reset,                *)
(* furi_bsp_expander_main_set_control, fusb302_custom_event_callback).     *)
THEOREM InterruptIsAhead ==
  ExpanderInit /\ [][ExpanderNext]_expanderVars => [](ExpanderTypeOK /\ InterruptAhead)
<1>1. ExpanderInit => ExpanderInv
  BY ExpanderStarts
<1>2. ExpanderInv /\ [ExpanderNext]_expanderVars => ExpanderInv'
  <2> SUFFICES ASSUME ExpanderInv, [ExpanderNext]_expanderVars PROVE ExpanderInv'
    OBVIOUS
  <2>1. CASE ExpanderWorker
    BY <2>1, WorkerStartKeeps, WorkerWaitKeeps, WorkerReadKeeps DEF ExpanderWorker
  <2>2. CASE FusbService
    BY <2>2, DrpKeeps, DrpEnableKeeps, DrpFailsKeeps, AttachKeeps, FusbEventKeeps, ReadInterruptAKeeps,
       ReadInterruptKeeps DEF FusbService
  <2>3. CASE UNCHANGED expanderVars
    BY <2>3 DEF expanderVars, ExpanderInv, ExpanderTypeOK, InterruptSeen, ReadAhead, Heard, Low, Inputs
  <2> QED BY <2>1, <2>2, <2>3, ChipReportsKeeps, OtherChangesKeeps, OthersReadKeeps, CpuAppKeeps
          DEF ExpanderNext, Surroundings
<1>3. ExpanderInv => ExpanderTypeOK /\ InterruptAhead
  BY ExpanderParts DEF InterruptSeen, InterruptAhead, Served
<1> QED BY <1>1, <1>2, <1>3, PTL

-----------------------------------------------------------------------------
(***************************************************************************)
(* The touch pad.                                                          *)
(***************************************************************************)
(* The bus is kept from ReadReset to the transfer after it, in the same    *)
(* run of the thread.                                                      *)
BusHeld ==
  session => /\ tpc = "run" /\ drv.ready /\ drv.state = "Init"
             /\ drv.init \in {"ChipReset", "UpdateSettings"}

TouchInv == TouchTypeOK /\ BusHeld

PadStates == [finger : BOOLEAN, reset : BOOLEAN, event : BOOLEAN, open : BOOLEAN,
              news : BOOLEAN, ati : BOOLEAN]
DataStates == [finger : BOOLEAN, reset : BOOLEAN]
DrvStates == [ready : BOOLEAN, flag : BOOLEAN, state : {"Start", "Init", "CheckReset", "Run"},
              init : {"VerifyProduct", "ReadReset", "ChipReset", "UpdateSettings", "AckReset", "Ati",
                      "WaitForAti", "ReadData", "ActivateEventMode", "Done"},
              data : DataStates]
ThreadPlaces ==
  {"probe", "absent", "attach", "wait", "run", "clear", "clearData", "callback", "clearAgain"}

LEMMA TouchParts ==
  ASSUME TouchInv
  PROVE  /\ pad \in PadStates /\ drv \in DrvStates /\ tpc \in ThreadPlaces
         /\ touch \in BOOLEAN /\ session \in BOOLEAN /\ garbage \in BOOLEAN /\ missed \in BOOLEAN
         /\ tfaults \in 0..MaxTouchFaults /\ BusHeld
BY DEF TouchInv, TouchTypeOK, PadStates, DrvStates, DataStates, ThreadPlaces

LEMMA TouchWhole ==
  /\ pad \in PadStates /\ drv \in DrvStates /\ tpc \in ThreadPlaces
  /\ touch \in BOOLEAN /\ session \in BOOLEAN /\ garbage \in BOOLEAN /\ missed \in BOOLEAN
  /\ tfaults \in 0..MaxTouchFaults /\ BusHeld
  => TouchInv
BY DEF TouchInv, TouchTypeOK, PadStates, DrvStates, DataStates, ThreadPlaces

LEMMA PadAfter ==
  ASSUME NEW p \in PadStates
  PROVE  /\ AfterReset(p.finger) \in PadStates
         /\ [p EXCEPT !.open = FALSE] \in PadStates
         /\ [p EXCEPT !.open = TRUE] \in PadStates
         /\ [finger |-> p.finger, reset |-> p.reset] \in DataStates
BY DEF PadStates, DataStates, AfterReset

LEMMA FreshTyped == Fresh \in DrvStates
BY DEF Fresh, NoData, DrvStates, DataStates

(* At most the bound of faults is counted. *)
LEMMA OutcomeCounted ==
  ASSUME TouchInv, NEW failures, NEW outcome \in Outcomes(failures), "ok" \notin failures, Counted(outcome)
  PROVE  tfaults' \in 0..MaxTouchFaults
<1>1. tfaults \in 0..MaxTouchFaults /\ MaxTouchFaults \in Nat
  BY TouchParts, TouchAssumption
<1>2. CASE pad.open /\ outcome # "ok"
  <2>1. tfaults < MaxTouchFaults
    BY <1>2 DEF Outcomes
  <2> QED BY <1>1, <1>2, <2>1 DEF Counted
<1>3. CASE ~(pad.open /\ outcome # "ok")
  BY <1>1, <1>3 DEF Counted
<1> QED BY <1>2, <1>3

(* The chip and its windows. *)
LEMMA PadKeeps ==
  TouchInv /\ (FingerChange \/ PadReset \/ WindowOpen \/ WindowTimeout) => TouchInv'
<1> SUFFICES ASSUME TouchInv, FingerChange \/ PadReset \/ WindowOpen \/ WindowTimeout PROVE TouchInv'
  OBVIOUS
<1>1. /\ pad \in PadStates /\ drv \in DrvStates /\ tfaults \in 0..MaxTouchFaults /\ BusHeld
      /\ MaxTouchFaults \in Nat
  BY TouchParts, TouchAssumption
<1>2. /\ UNCHANGED <<tpc, touch, session, garbage, missed>>
      /\ tpc' \in ThreadPlaces /\ touch' \in BOOLEAN /\ session' \in BOOLEAN
      /\ garbage' \in BOOLEAN /\ missed' \in BOOLEAN
  BY TouchParts DEF FingerChange, PadReset, WindowOpen, WindowTimeout
<1>3. pad' \in PadStates
  <2>1. [pad EXCEPT !.finger = ~@, !.news = TRUE] \in PadStates
    BY <1>1 DEF PadStates
  <2> QED BY <1>1, <2>1, PadAfter DEF FingerChange, PadReset, WindowOpen, WindowTimeout
<1>4. tfaults' \in 0..MaxTouchFaults
  BY <1>1 DEF FingerChange, PadReset, WindowOpen, WindowTimeout
<1>5. /\ drv' \in DrvStates /\ drv'.state = drv.state /\ drv'.init = drv.init
      /\ drv.ready => drv'.ready
  <2>1. LET w == [drv EXCEPT !.ready = TRUE, !.flag = @ \/ tpc \notin {"probe", "attach"}] IN
        w \in DrvStates /\ w.state = drv.state /\ w.init = drv.init /\ w.ready
    BY <1>1 DEF DrvStates
  <2> QED BY <1>1, <2>1 DEF FingerChange, PadReset, WindowOpen, WindowTimeout
<1>6. BusHeld'
  BY <1>1, <1>2, <1>5 DEF BusHeld
<1> QED BY <1>2, <1>3, <1>4, <1>5, <1>6 DEF TouchInv, TouchTypeOK, PadStates, DrvStates, DataStates, ThreadPlaces

(* A step of the thread that lets go of the bus, or is outside of the      *)
(* initialisation that may hold it.                                        *)
LEMMA ThreadKeeps ==
  ASSUME TouchInv, pad' \in PadStates, drv' \in DrvStates, tpc' \in ThreadPlaces,
         touch' \in BOOLEAN, garbage' \in BOOLEAN, missed' \in BOOLEAN, tfaults' \in 0..MaxTouchFaults,
         \/ session' = FALSE
         \/ session' = session /\ ~session
  PROVE  TouchInv'
<1>1. BusHeld'
  BY DEF BusHeld
<1>2. session' \in BOOLEAN
  BY TouchParts
<1> QED BY <1>1, <1>2 DEF TouchInv, TouchTypeOK, PadStates, DrvStates, DataStates, ThreadPlaces

LEMMA ThreadMovesKeep ==
  TouchInv /\ (\/ Probe \/ SetInputCallback \/ TouchWait \/ Begin
               \/ ClearReady \/ EventCallback \/ ClearAgain \/ CheckReset) => TouchInv'
<1> SUFFICES ASSUME TouchInv,
                    \/ Probe \/ SetInputCallback \/ TouchWait \/ Begin
                    \/ ClearReady \/ EventCallback \/ ClearAgain \/ CheckReset
             PROVE  TouchInv'
  OBVIOUS
<1>1. /\ pad \in PadStates /\ drv \in DrvStates /\ tpc \in ThreadPlaces /\ BusHeld
      /\ touch \in BOOLEAN /\ session \in BOOLEAN /\ garbage \in BOOLEAN /\ missed \in BOOLEAN
      /\ tfaults \in 0..MaxTouchFaults /\ MaxTouchFaults \in Nat
  BY TouchParts, TouchAssumption
<1>2. ~session
  BY <1>1 DEF BusHeld, Probe, SetInputCallback, TouchWait, Begin, ClearReady, EventCallback, ClearAgain,
              CheckReset, Running, Initialising
<1>3. /\ pad' = pad /\ session' = session /\ garbage' = garbage
      /\ tpc' \in ThreadPlaces
  BY <1>1 DEF Probe, SetInputCallback, TouchWait, Begin, ClearReady, EventCallback, ClearAgain,
              CheckReset, ThreadPlaces
<1>4. touch' \in BOOLEAN /\ missed' \in BOOLEAN /\ tfaults' \in 0..MaxTouchFaults
  <2>1. drv.data.finger \in BOOLEAN
    BY <1>1 DEF DrvStates, DataStates
  <2>2. touch' \in {touch, drv.data.finger} /\ missed' \in {missed, FALSE}
    BY DEF Probe, SetInputCallback, TouchWait, Begin, ClearReady, EventCallback, ClearAgain, CheckReset
  <2>3. tfaults' = tfaults \/ (tfaults < MaxTouchFaults /\ tfaults' = tfaults + 1)
    BY DEF Probe, SetInputCallback, TouchWait, Begin, ClearReady, EventCallback, ClearAgain, CheckReset
  <2>4. tfaults' \in 0..MaxTouchFaults
    BY <1>1, <2>3
  <2> QED BY <1>1, <2>1, <2>2, <2>4
<1>5. drv' \in DrvStates
  <2>1. /\ [drv EXCEPT !.flag = FALSE] \in DrvStates
        /\ [drv EXCEPT !.ready = FALSE] \in DrvStates
        /\ [drv EXCEPT !.state = "Init"] \in DrvStates
        /\ [drv EXCEPT !.state = "Run"] \in DrvStates
        /\ [drv EXCEPT !.ready = FALSE, !.state = "CheckReset"] \in DrvStates
        /\ [drv EXCEPT !.state = "Start", !.init = "VerifyProduct"] \in DrvStates
    BY <1>1 DEF DrvStates
  <2>2. Probe \/ SetInputCallback \/ EventCallback => drv' \in {Fresh, drv}
    BY DEF Probe, SetInputCallback, EventCallback
  <2>3. TouchWait => drv' \in {[drv EXCEPT !.flag = FALSE], drv}
    BY DEF TouchWait
  <2>4. Begin => drv' \in {[drv EXCEPT !.state = "Init"], [drv EXCEPT !.state = "Run"]}
    BY DEF Begin
  <2>5. ClearReady => drv' = [drv EXCEPT !.ready = FALSE]
    BY DEF ClearReady
  <2>6. ClearAgain => drv' = [drv EXCEPT !.ready = FALSE, !.state = "CheckReset"]
    BY DEF ClearAgain
  <2>7. CheckReset => drv' \in {[drv EXCEPT !.state = "Start", !.init = "VerifyProduct"],
                                [drv EXCEPT !.state = "Run"]}
    BY DEF CheckReset
  <2> QED BY <1>1, <2>1, <2>2, <2>3, <2>4, <2>5, <2>6, <2>7, FreshTyped
<1> QED BY <1>1, <1>2, <1>3, <1>4, <1>5, ThreadKeeps

LEMMA VerifyProductKeeps == TouchInv /\ VerifyProduct => TouchInv'
<1> SUFFICES ASSUME TouchInv, VerifyProduct PROVE TouchInv'
  OBVIOUS
<1>1. PICK outcome \in Outcomes({"product", "address", "data"}) :
        /\ Initialising("VerifyProduct") /\ Counted(outcome)
        /\ IF outcome = "product" \/ ~pad.open
           THEN /\ pad' = AfterReset(pad.finger) /\ drv' = Fresh /\ tpc' = "probe"
                /\ touch' = FALSE /\ session' = FALSE /\ missed' = FALSE
           ELSE /\ pad' = IF outcome = "ok" THEN Closed ELSE pad
                /\ drv' = [drv EXCEPT !.init = "ReadReset"]
                /\ tpc' = IF outcome = "address" THEN "run" ELSE "clear"
                /\ UNCHANGED <<touch, session, missed>>
        /\ UNCHANGED garbage
  BY DEF VerifyProduct
<1>2. tfaults' \in 0..MaxTouchFaults
  BY <1>1, OutcomeCounted
<1>3. ~session
  BY <1>1, TouchParts DEF BusHeld, Initialising
<1>4. /\ pad' \in PadStates /\ tpc' \in ThreadPlaces
      /\ touch' \in BOOLEAN /\ garbage' \in BOOLEAN /\ missed' \in BOOLEAN
  BY <1>1, TouchParts, PadAfter DEF Closed, ThreadPlaces
<1>5. drv' \in DrvStates
  <2>1. [drv EXCEPT !.init = "ReadReset"] \in DrvStates
    BY TouchParts DEF DrvStates
  <2> QED BY <1>1, <2>1, FreshTyped
<1>6. session' = FALSE \/ (session' = session /\ ~session)
  BY <1>1, <1>3
<1> QED BY <1>2, <1>4, <1>5, <1>6, ThreadKeeps

(* The one step that keeps the bus. *)
LEMMA ReadResetKeeps == TouchInv /\ ReadReset => TouchInv'
<1> SUFFICES ASSUME TouchInv, ReadReset PROVE TouchInv'
  OBVIOUS
<1>1. PICK outcome \in Outcomes({"address", "data"}), told \in BOOLEAN :
        /\ Initialising("ReadReset") /\ Counted(outcome)
        /\ drv' = [drv EXCEPT !.init = IF told THEN "UpdateSettings" ELSE "ChipReset"]
        /\ session' = (outcome = "ok")
        /\ UNCHANGED <<pad, tpc, touch, garbage, missed>>
  BY DEF ReadReset
<1>2. tfaults' \in 0..MaxTouchFaults
  BY <1>1, OutcomeCounted
<1>3. PICK i \in {"UpdateSettings", "ChipReset"} : i = IF told THEN "UpdateSettings" ELSE "ChipReset"
  OBVIOUS
<1>4. /\ drv' \in DrvStates /\ drv'.init = i /\ drv'.ready /\ drv'.state = "Init" /\ tpc' = "run"
  <2>1. LET w == [drv EXCEPT !.init = i] IN
        w \in DrvStates /\ w.init = i /\ w.ready = drv.ready /\ w.state = drv.state
    BY TouchParts DEF DrvStates
  <2> QED BY <1>1, <1>3, <2>1 DEF Initialising, Running
<1>5. BusHeld'
  BY <1>4 DEF BusHeld
<1>6. /\ pad' \in PadStates /\ tpc' \in ThreadPlaces /\ session' \in BOOLEAN
      /\ touch' \in BOOLEAN /\ garbage' \in BOOLEAN /\ missed' \in BOOLEAN
  BY <1>1, TouchParts
<1> QED BY <1>2, <1>4, <1>5, <1>6 DEF TouchInv, TouchTypeOK, PadStates, DrvStates, DataStates, ThreadPlaces

LEMMA ModifyKeeps ==
  ASSUME TouchInv, NEW init,
         NEW then \in {"ReadReset", "Ati", "WaitForAti", "Done"}, NEW p \in PadStates,
         Modify(init, then, p)
  PROVE  TouchInv'
<1>1. PICK outcome \in Outcomes({"read", "write", "both"}) :
        /\ Initialising(init) /\ Counted(outcome)
        /\ pad' = IF pad.open /\ outcome \in {"ok", "read"} THEN p ELSE pad
        /\ garbage' = (garbage \/ (pad.open /\ outcome = "read"))
        /\ drv' = [drv EXCEPT !.init = then]
        /\ tpc' = "clear" /\ session' = FALSE
        /\ UNCHANGED <<touch, missed>>
  BY DEF Modify
<1>2. tfaults' \in 0..MaxTouchFaults
  BY <1>1, OutcomeCounted
<1>3. drv' \in DrvStates
  BY <1>1, TouchParts DEF DrvStates
<1>4. /\ pad' \in PadStates /\ tpc' \in ThreadPlaces
      /\ touch' \in BOOLEAN /\ garbage' \in BOOLEAN /\ missed' \in BOOLEAN
  BY <1>1, TouchParts DEF ThreadPlaces
<1> QED BY <1>1, <1>2, <1>3, <1>4, ThreadKeeps

LEMMA ModifiesKeep == TouchInv /\ (ChipReset \/ AckReset \/ Ati \/ ActivateEventMode) => TouchInv'
<1> SUFFICES ASSUME TouchInv, ChipReset \/ AckReset \/ Ati \/ ActivateEventMode PROVE TouchInv'
  OBVIOUS
<1>1. /\ AfterReset(pad.finger) \in PadStates
      /\ [Closed EXCEPT !.reset = FALSE] \in PadStates
      /\ [Closed EXCEPT !.ati = TRUE] \in PadStates
      /\ [Closed EXCEPT !.event = TRUE] \in PadStates
  BY TouchParts, PadAfter DEF Closed, PadStates
<1>2. PICK p1 \in PadStates, p2 \in PadStates, p3 \in PadStates, p4 \in PadStates :
        /\ p1 = AfterReset(pad.finger) /\ p2 = [Closed EXCEPT !.reset = FALSE]
        /\ p3 = [Closed EXCEPT !.ati = TRUE] /\ p4 = [Closed EXCEPT !.event = TRUE]
  BY <1>1
<1>3. CASE ChipReset
  BY <1>2, <1>3, ModifyKeeps DEF ChipReset
<1>4. CASE AckReset
  BY <1>2, <1>4, ModifyKeeps DEF AckReset
<1>5. CASE Ati
  BY <1>2, <1>5, ModifyKeeps DEF Ati
<1>6. CASE ActivateEventMode
  BY <1>2, <1>6, ModifyKeeps DEF ActivateEventMode
<1> QED BY <1>3, <1>4, <1>5, <1>6

LEMMA UpdateSettingsKeeps == TouchInv /\ UpdateSettings => TouchInv'
<1> SUFFICES ASSUME TouchInv, UpdateSettings PROVE TouchInv'
  OBVIOUS
<1>1. PICK outcome \in Outcomes({"write"}) :
        /\ Counted(outcome)
        /\ pad' = IF outcome = "ok" THEN Closed ELSE pad
        /\ drv' = [drv EXCEPT !.init = "AckReset"]
        /\ tpc' = "clear" /\ session' = FALSE
        /\ UNCHANGED <<touch, garbage, missed>>
  BY DEF UpdateSettings
<1>2. tfaults' \in 0..MaxTouchFaults
  BY <1>1, OutcomeCounted
<1>3. drv' \in DrvStates
  BY <1>1, TouchParts DEF DrvStates
<1>4. /\ pad' \in PadStates /\ tpc' \in ThreadPlaces
      /\ touch' \in BOOLEAN /\ garbage' \in BOOLEAN /\ missed' \in BOOLEAN
  BY <1>1, TouchParts, PadAfter DEF Closed, ThreadPlaces
<1> QED BY <1>1, <1>2, <1>3, <1>4, ThreadKeeps

LEMMA WaitForAtiKeeps == TouchInv /\ WaitForAti => TouchInv'
<1> SUFFICES ASSUME TouchInv, WaitForAti PROVE TouchInv'
  OBVIOUS
<1>1. PICK outcome \in Outcomes({"address", "data"}), busyAti \in BOOLEAN :
        /\ Initialising("WaitForAti") /\ Counted(outcome)
        /\ pad' = IF outcome = "ok" THEN [Closed EXCEPT !.ati = FALSE] ELSE pad
        /\ drv' = [drv EXCEPT !.init = IF busyAti THEN @ ELSE "ReadData"]
        /\ tpc' = IF outcome = "address" THEN "run" ELSE "clear"
        /\ UNCHANGED <<touch, session, garbage, missed>>
  BY DEF WaitForAti
<1>2. tfaults' \in 0..MaxTouchFaults
  BY <1>1, OutcomeCounted
<1>3. drv' \in DrvStates
  BY <1>1, TouchParts DEF DrvStates
<1>4. /\ pad' \in PadStates /\ tpc' \in ThreadPlaces
      /\ touch' \in BOOLEAN /\ garbage' \in BOOLEAN /\ missed' \in BOOLEAN
  <2>1. [Closed EXCEPT !.ati = FALSE] \in PadStates
    BY TouchParts, PadAfter DEF Closed, PadStates
  <2> QED BY <1>1, <2>1, TouchParts DEF ThreadPlaces
<1>5. session' = session /\ ~session
  BY <1>1, TouchParts DEF BusHeld, Initialising
<1> QED BY <1>2, <1>3, <1>4, <1>5, ThreadKeeps

LEMMA ReportTyped == TouchInv =>
  /\ ReportRead \in PadStates
  /\ [drv EXCEPT !.init = "ActivateEventMode", !.data = Report] \in DrvStates
  /\ [drv EXCEPT !.init = "ActivateEventMode"] \in DrvStates
  /\ [drv EXCEPT !.data = Report] \in DrvStates
<1> SUFFICES ASSUME TouchInv
             PROVE  /\ ReportRead \in PadStates
                    /\ [drv EXCEPT !.init = "ActivateEventMode", !.data = Report] \in DrvStates
                    /\ [drv EXCEPT !.init = "ActivateEventMode"] \in DrvStates
                    /\ [drv EXCEPT !.data = Report] \in DrvStates
  OBVIOUS
<1>1. Closed \in PadStates /\ Report \in DataStates
  BY TouchParts, PadAfter DEF Closed, Report
<1>2. ReportRead \in PadStates
  BY <1>1 DEF ReportRead, PadStates
<1>3. PICK d \in DataStates : d = Report
  BY <1>1
<1>4. /\ [drv EXCEPT !.init = "ActivateEventMode", !.data = d] \in DrvStates
      /\ [drv EXCEPT !.init = "ActivateEventMode"] \in DrvStates
      /\ [drv EXCEPT !.data = d] \in DrvStates
  BY TouchParts DEF DrvStates
<1> QED BY <1>2, <1>3, <1>4

LEMMA ReadDataKeeps == TouchInv /\ ReadData => TouchInv'
<1> SUFFICES ASSUME TouchInv, ReadData PROVE TouchInv'
  OBVIOUS
<1>1. PICK outcome \in Outcomes({"address", "data"}) :
        /\ Initialising("ReadData") /\ Counted(outcome)
        /\ IF outcome = "ok"
           THEN /\ pad' = ReportRead /\ missed' = (pad.finger # touch)
                /\ drv' = [drv EXCEPT !.init = "ActivateEventMode", !.data = Report]
           ELSE /\ drv' = [drv EXCEPT !.init = "ActivateEventMode"]
                /\ UNCHANGED <<pad, missed>>
        /\ tpc' = IF outcome = "address" THEN "run" ELSE "clear"
        /\ UNCHANGED <<touch, session, garbage>>
  BY DEF ReadData
<1>2. tfaults' \in 0..MaxTouchFaults
  BY <1>1, OutcomeCounted
<1>3. drv' \in DrvStates /\ pad' \in PadStates
  BY <1>1, TouchParts, ReportTyped
<1>4. tpc' \in ThreadPlaces /\ touch' \in BOOLEAN /\ garbage' \in BOOLEAN /\ missed' \in BOOLEAN
  BY <1>1, TouchParts DEF ThreadPlaces
<1>5. session' = session /\ ~session
  BY <1>1, TouchParts DEF BusHeld, Initialising
<1> QED BY <1>2, <1>3, <1>4, <1>5, ThreadKeeps

LEMMA RunReadKeeps == TouchInv /\ RunRead => TouchInv'
<1> SUFFICES ASSUME TouchInv, RunRead PROVE TouchInv'
  OBVIOUS
<1>1. PICK outcome \in Outcomes({"address", "data"}) :
        /\ Running("Run") /\ Counted(outcome)
        /\ IF outcome = "ok"
           THEN pad' = ReportRead /\ drv' = [drv EXCEPT !.data = Report]
           ELSE UNCHANGED <<pad, drv>>
        /\ tpc' \in {"clearData", "clear", "run"}
        /\ UNCHANGED <<touch, session, garbage, missed>>
  BY DEF RunRead
<1>2. tfaults' \in 0..MaxTouchFaults
  BY <1>1, OutcomeCounted
<1>3. drv' \in DrvStates /\ pad' \in PadStates
  BY <1>1, TouchParts, ReportTyped
<1>4. tpc' \in ThreadPlaces /\ touch' \in BOOLEAN /\ garbage' \in BOOLEAN /\ missed' \in BOOLEAN
  BY <1>1, TouchParts DEF ThreadPlaces
<1>5. session' = session /\ ~session
  BY <1>1, TouchParts DEF BusHeld, Running
<1> QED BY <1>2, <1>3, <1>4, <1>5, ThreadKeeps

LEMMA TouchStarts == TouchInit => TouchInv
<1> SUFFICES ASSUME TouchInit PROVE TouchInv
  OBVIOUS
<1>1. AfterReset(FALSE) \in PadStates
  BY DEF AfterReset, PadStates
<1>2. tfaults \in 0..MaxTouchFaults
  BY TouchAssumption DEF TouchInit
<1>3. pad \in PadStates /\ drv \in DrvStates
  BY <1>1, FreshTyped DEF TouchInit
<1>4. /\ tpc \in ThreadPlaces /\ BusHeld
      /\ touch \in BOOLEAN /\ session \in BOOLEAN /\ garbage \in BOOLEAN /\ missed \in BOOLEAN
  BY DEF TouchInit, ThreadPlaces, BusHeld
<1> QED BY <1>2, <1>3, <1>4, TouchWhole

LEMMA TouchNextKeeps == TouchInv /\ [TouchNext]_touchVars => TouchInv'
<1> SUFFICES ASSUME TouchInv, [TouchNext]_touchVars PROVE TouchInv'
  OBVIOUS
<1>1. CASE UNCHANGED touchVars
  BY <1>1 DEF touchVars, TouchInv, TouchTypeOK, BusHeld
<1>2. CASE TouchLoop
  BY <1>2, ThreadMovesKeep, VerifyProductKeeps, ReadResetKeeps, ModifiesKeep, UpdateSettingsKeeps,
     WaitForAtiKeeps, ReadDataKeeps, RunReadKeeps DEF TouchLoop
<1> QED BY <1>1, <1>2, PadKeeps DEF TouchNext

(* Whatever transfers fail, whenever the chip resets and windows close:    *)
(* the bus is kept only from the read of the reset flag to the transfer    *)
(* that comes next in the same run, so that the thread never sleeps with   *)
(* it (iqs7211e_initialization, iqs7211e_run, input_touch_srv).            *)
THEOREM BusIsGivenBack ==
  TouchInit /\ [][TouchNext]_touchVars => [](TouchTypeOK /\ (tpc = "wait" => ~session))
<1>1. TouchInit => TouchInv
  BY TouchStarts
<1>2. TouchInv /\ [TouchNext]_touchVars => TouchInv'
  BY TouchNextKeeps
<1>3. TouchInv => TouchTypeOK /\ (tpc = "wait" => ~session)
  BY DEF TouchInv, BusHeld
<1> QED BY <1>1, <1>2, <1>3, PTL

-----------------------------------------------------------------------------
(***************************************************************************)
(* All of the parts, as one run checks them.                               *)
(***************************************************************************)
LEMMA PartsStep ==
  [MCNext]_partVars =>
    /\ [CallsNext]_callVars /\ [HapticNext]_hapticVars /\ [SerialNext]_serialVars
    /\ [ExpanderNext]_expanderVars /\ [HeapNext]_heapVars /\ [LedNext]_ledVars
    /\ [GuiNext]_guiVars /\ [TouchNext]_touchVars /\ [FrameNext]_frameVars
    /\ [EditorNext]_editorVars
<1>1. CASE UNCHANGED partVars
  BY <1>1 DEF partVars
<1>2. CASE MCNext
  BY <1>2 DEF MCNext, Others
<1> QED BY <1>1, <1>2

(* The parts share no state, so that what each promises alone it promises  *)
(* in a run with the others: their state always has its types, among them  *)
(* that the queues keep their length and the record counts its holders,    *)
(* and no service is called before its record is ready.                    *)
THEOREM PartsAreTyped == MCSpec => []PartsTypeOK
<1>1. MCSpec => CallsInit /\ [][CallsNext]_callVars
  BY PartsStep, PTL DEF MCSpec, MCInit
<1>2. MCSpec => HapticInit /\ [][HapticNext]_hapticVars
  BY PartsStep, PTL DEF MCSpec, MCInit
<1>3. MCSpec => SerialSpec
  BY PartsStep, PTL DEF MCSpec, MCInit, SerialSpec
<1>4. MCSpec => ExpanderInit /\ [][ExpanderNext]_expanderVars
  BY PartsStep, PTL DEF MCSpec, MCInit
<1>5. MCSpec => HeapSpec
  BY PartsStep, PTL DEF MCSpec, MCInit, HeapSpec
<1>6. MCSpec => LedSpec
  BY PartsStep, PTL DEF MCSpec, MCInit, LedSpec
<1>7. MCSpec => GuiSpec
  BY PartsStep, PTL DEF MCSpec, MCInit, GuiSpec
<1>8. MCSpec => TouchInit /\ [][TouchNext]_touchVars
  BY PartsStep, PTL DEF MCSpec, MCInit
<1>9. MCSpec => FrameSpec
  BY PartsStep, PTL DEF MCSpec, MCInit, FrameSpec
<1>10. MCSpec => EditorSpec
  BY PartsStep, PTL DEF MCSpec, MCInit, EditorSpec
<1>11. PartsTypeOK <=>
         /\ RecordUsedReady
         /\ CallsTypeOK /\ HapticTypeOK /\ SerialTypeOK /\ ExpanderTypeOK
         /\ HeapTypeOK /\ LedTypeOK /\ GuiTypeOK /\ TouchTypeOK /\ FrameTypeOK
         /\ EditorTypeOK
  BY DEF PartsTypeOK
<1> QED BY <1>1, <1>2, <1>3, <1>4, <1>5, <1>6, <1>7, <1>8, <1>9, <1>10, <1>11,
           LocksAreKept, ServicesAreReady, MotorIsTimed, SerialPortsExclusive, InterruptIsAhead, HeapIsSound,
           LedsShowTheLast, ScreenIsCurrent, BusIsGivenBack, NewestIsWhole, EditorTypes, PTL
=============================================================================
