---------------------------- MODULE SerialControl ----------------------------
(***************************************************************************)
(* Who may use a serial port: a thread that owns the handles, gives one to *)
(* who acquires it and, while nobody has it, to the log                    *)
(* (targets/f100/furi_hal/furi_hal_serial_control.c).  Any thread writes   *)
(* to the log, under the lock of the log (lib/furi/core/log.c).            *)
(*                                                                         *)
(* A request is a message with a lock: its caller waits for the answer     *)
(* (ServiceCalls).  Not modelled: deinit, which nobody calls.              *)
(***************************************************************************)
EXTENDS Naturals, Sequences

CONSTANTS
  Ports,     \* FuriHalSerialIdMax ids
  NoPort,
  Users,     \* threads that ask for ports
  SerialQueue  \* messages that fit into the queue

ASSUME SerialAssumption ==
  NoPort \notin Ports /\ Users # {} /\ SerialQueue \in Nat \ {0}

VARIABLES
  inUse,    \* ports whose handle is in use
  live,     \* ports that are initialised
  log,      \* the log: its configured port, log_serial, its handler on the list
  user,     \* each user: where it is, its request, the port it got
  asked,    \* the queue of the thread
  control,  \* the thread: what is left of the request it serves
  writer    \* the port to which somebody writes the log, under its lock

serialVars == <<inUse, live, log, user, asked, control, writer>>

NoRequest == [type |-> "IsBusy", port |-> NoPort]

SerialInit ==
  /\ inUse = {} /\ live = {}
  /\ log = [config |-> NoPort, serial |-> NoPort, handler |-> NoPort]
  /\ user = [u \in Users |-> [at |-> "free", request |-> NoRequest, port |-> NoPort]]
  /\ asked = <<>>
  /\ control = [from |-> CHOOSE u \in Users : TRUE, todo |-> <<>>]
  /\ writer = NoPort

(***************************************************************************)
(* The users.                                                              *)
(***************************************************************************)
(* What a user may ask for: a port when it has none, its port back. *)
MayAsk(u) ==
  IF user[u].port = NoPort
  THEN [type : {"Acquire", "IsBusy"}, port : Ports] \union [type : {"Logging"}, port : Ports \union {NoPort}]
  ELSE {[type |-> "Release", port |-> user[u].port]}

Ask(u) ==
  /\ user[u].at = "free" /\ Len(asked) < SerialQueue
  /\ \E r \in MayAsk(u) :
       /\ user' = [user EXCEPT ![u] = [at |-> "wait", request |-> r, port |-> @.port]]
       /\ asked' = Append(asked, u)
  /\ UNCHANGED <<inUse, live, log, control, writer>>

(* A user initialises the port it got, and may shut it down before it      *)
(* gives it back, which does so once more.                                 *)
UsePort(u) ==
  /\ user[u].at = "free" /\ user[u].port # NoPort
  /\ live' = IF user[u].port \in live THEN live \ {user[u].port} ELSE live \union {user[u].port}
  /\ UNCHANGED <<inUse, log, user, asked, control, writer>>

(***************************************************************************)
(* The thread.  A request becomes the list of the steps its handler takes. *)
(***************************************************************************)
Step(what, port) == [what |-> what, port |-> port]

(* furi_hal_serial_control_log_set_handle: the log gives up its port. *)
LogOff ==
  IF log.serial = NoPort THEN <<>>
  ELSE <<Step("remove", log.serial), Step("close", log.serial)>>

(* It gets a port. *)
LogOn(port) == <<Step("open", port), Step("add", port)>>

(* Mutant: the log keeps its port when somebody acquires it. *)
HandlerGreedy(r) ==
  CASE r.type = "Acquire" -> IF r.port \in inUse THEN <<>> ELSE <<Step("grant", r.port)>>
    [] r.type = "Release" -> <<Step("close", r.port), Step("free", r.port)>>
                             \o (IF log.config = r.port THEN LogOff \o LogOn(r.port) ELSE <<>>)
    [] r.type = "Logging" -> <<Step("config", r.port)>> \o LogOff
                             \o (IF r.port \in Ports \ inUse THEN LogOn(r.port) ELSE <<>>)
    [] r.type = "IsBusy"  -> <<>>

(* The steps of the handlers. *)
Handler(r) ==
  CASE r.type = "Acquire" -> IF r.port \in inUse THEN <<>>
                             ELSE (IF log.config = r.port THEN LogOff ELSE <<>>) \o <<Step("grant", r.port)>>
    [] r.type = "Release" -> <<Step("close", r.port), Step("free", r.port)>>
                             \o (IF log.config = r.port THEN LogOff \o LogOn(r.port) ELSE <<>>)
    [] r.type = "Logging" -> <<Step("config", r.port)>> \o LogOff
                             \o (IF r.port \in Ports \ inUse THEN LogOn(r.port) ELSE <<>>)
    [] r.type = "IsBusy"  -> <<>>

TakeRequest ==
  /\ control.todo = <<>> /\ asked # <<>>
  /\ control' = [from |-> Head(asked),
                 todo |-> Append(Handler(user[Head(asked)].request), Step("answer", NoPort))]
  /\ asked' = Tail(asked)
  /\ UNCHANGED <<inUse, live, log, user, writer>>

(* The next step of a handler.  The list of log handlers changes under the *)
(* lock of the log; at the end the lock of the request is opened.          *)
ControlStep ==
  LET s == Head(control.todo) IN
  /\ control.todo # <<>>
  /\ s.what \in {"remove", "add"} => writer = NoPort
  /\ control' = [control EXCEPT !.todo = Tail(@)]
  /\ live' = CASE s.what = "open"  -> live \union {s.port}
               [] s.what = "close" -> live \ {s.port}
               [] OTHER -> live
  /\ inUse' = CASE s.what = "grant" -> inUse \union {s.port}
                [] s.what = "free"  -> inUse \ {s.port}
                [] OTHER -> inUse
  /\ log' = CASE s.what = "remove" -> [log EXCEPT !.handler = NoPort]
              [] s.what = "close" /\ s.port = log.serial -> [log EXCEPT !.serial = NoPort]
              [] s.what = "open"   -> [log EXCEPT !.serial = s.port]
              [] s.what = "add"    -> [log EXCEPT !.handler = s.port]
              [] s.what = "config" -> [log EXCEPT !.config = s.port]
              [] OTHER -> log
  /\ user' = CASE s.what = "grant"  -> [user EXCEPT ![control.from].port = s.port]
               [] s.what = "free"   -> [user EXCEPT ![control.from].port = NoPort]
               [] s.what = "answer" -> [user EXCEPT ![control.from].at = "free"]
               [] OTHER -> user
  /\ UNCHANGED <<asked, writer>>

(***************************************************************************)
(* The log.                                                                *)
(***************************************************************************)
(* furi_log_tx calls the handler under the lock, for as long as it takes.  *)
LogWrite ==
  /\ writer = NoPort /\ log.handler # NoPort
  /\ writer' = log.handler
  /\ UNCHANGED <<inUse, live, log, user, asked, control>>

LogWritten ==
  /\ writer # NoPort
  /\ writer' = NoPort
  /\ UNCHANGED <<inUse, live, log, user, asked, control>>

SerialNext ==
  \/ TakeRequest \/ ControlStep \/ LogWrite \/ LogWritten
  \/ \E u \in Users : Ask(u) \/ UsePort(u)

SerialSpec == SerialInit /\ [][SerialNext]_serialVars

(***************************************************************************)
(* Correctness.                                                            *)
(***************************************************************************)
Steps == [what : {"open", "close", "remove", "add", "grant", "free", "config", "answer"},
          port : Ports \union {NoPort}]

SerialTypeOK ==
  /\ inUse \subseteq Ports /\ live \subseteq Ports
  /\ log \in [config : Ports \union {NoPort}, serial : Ports \union {NoPort}, handler : Ports \union {NoPort}]
  /\ user \in [Users -> [at : {"free", "wait"}, port : Ports \union {NoPort},
                         request : [type : {"Acquire", "Release", "IsBusy", "Logging"}, port : Ports \union {NoPort}]]]
  /\ asked \in Seq(Users) /\ Len(asked) =< SerialQueue
  /\ control \in [from : Users, todo : Seq(Steps)]
  /\ writer \in Ports \union {NoPort}

About(what) == control.todo # <<>> /\ Head(control.todo).what = what

(* A port has one user or none, and the log writes only to a port that is  *)
(* initialised for it and that no user has, whoever asks for what while    *)
(* the log is written.  A port is initialised only when it is not, which   *)
(* furi_hal_serial_init checks.                                            *)
PortsExclusive ==
  /\ \A u, w \in Users : u # w /\ user[u].port # NoPort => user[u].port # user[w].port
  /\ writer # NoPort => writer \in live /\ \A u \in Users : user[u].port # writer
  /\ About("open") => Head(control.todo).port \notin live
  /\ About("grant") => Head(control.todo).port \notin live
=============================================================================
