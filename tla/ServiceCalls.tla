---------------------------- MODULE ServiceCalls ----------------------------
(***************************************************************************)
(* A service and its clients, as power, display and fusb302 do it          *)
(* (applications/services): the client finds the service by a record       *)
(* (lib/furi/core/record.c) and puts messages into its queue.  A message   *)
(* that asks for an answer carries a lock (lib/toolbox/api_lock.h, an      *)
(* event flag) and pointers into the stack of the caller, where the        *)
(* service writes before it opens the lock; the caller frees the lock.     *)
(*                                                                         *)
(* A message without a lock is a mode or a brightness to be set; one with  *)
(* a lock reads, or writes a register of a chip, which may fail.           *)
(***************************************************************************)
EXTENDS Naturals, Sequences, FiniteSets

CONSTANTS
  Clients,
  Values,       \* modes, or contents of a register
  Failed,       \* the result false
  MaxMessages   \* POWER_MAX_MESSAGES, DISPLAY_MAX_MESSAGES, FUSB302_MAX_MESSAGES

ASSUME CallsAssumption ==
  /\ Clients # {} /\ IsFiniteSet(Clients)
  /\ Values # {} /\ Failed \notin Values
  /\ MaxMessages \in Nat \ {0}

VARIABLES
  record,   \* the record of the service: READY, and how many hold it
  client,   \* each client: where it is, its message, its lock, its result
  box,      \* message_queue
  server,   \* the service thread: where it is, the message it handles
  value     \* what the service or its chip keeps

callVars == <<record, client, box, server, value>>

NoMessage == [op |-> "get", arg |-> Failed]

Idle(where) == [at |-> where, msg |-> NoMessage, lock |-> "none", result |-> Failed]

CallsInit ==
  /\ record = [ready |-> FALSE, holders |-> 0]
  /\ client = [c \in Clients |-> Idle("out")]
  /\ box = <<>>
  /\ server = [at |-> "start", from |-> CHOOSE c \in Clients : TRUE, msg |-> NoMessage]
  /\ value = CHOOSE v \in Values : TRUE

(* Does the message carry a lock? *)
Locked(msg) == msg.op # "post"

(***************************************************************************)
(* The record.                                                             *)
(***************************************************************************)
(* furi_record_create, the last thing before the loop of the service runs. *)
RecordCreate ==
  /\ server.at = "start"
  /\ record' = [record EXCEPT !.ready = TRUE]
  /\ server' = [server EXCEPT !.at = "loop"]
  /\ UNCHANGED <<client, box, value>>

(* furi_record_open counts the holder under the mutex of the records, then *)
(* waits outside of it.                                                    *)
RecordOpen(c) ==
  /\ client[c].at = "out"
  /\ record' = [record EXCEPT !.holders = @ + 1]
  /\ client' = [client EXCEPT ![c].at = "opening"]
  /\ UNCHANGED <<box, server, value>>

(* Mutant: whoever opens the record gets what is there. *)
RecordReadyAtOnce(c) ==
  /\ client[c].at = "opening"
  /\ client' = [client EXCEPT ![c].at = "in"]
  /\ UNCHANGED <<record, box, server, value>>

RecordReady(c) ==
  /\ client[c].at = "opening" /\ record.ready
  /\ client' = [client EXCEPT ![c].at = "in"]
  /\ UNCHANGED <<record, box, server, value>>

RecordClose(c) ==
  /\ client[c].at = "in"
  /\ record' = [record EXCEPT !.holders = @ - 1]
  /\ client' = [client EXCEPT ![c].at = "out"]
  /\ UNCHANGED <<box, server, value>>

(***************************************************************************)
(* The client.                                                             *)
(***************************************************************************)
Messages ==
  {[op |-> "get", arg |-> Failed]} \union [op : {"post", "write"}, arg : Values]

(* A function of the service is called: message, lock and result are on    *)
(* the stack.                                                              *)
Call(c) ==
  /\ client[c].at = "in"
  /\ \E msg \in Messages :
       client' = [client EXCEPT ![c] = [at |-> "put", msg |-> msg, result |-> Failed,
                                        lock |-> IF Locked(msg) THEN "locked" ELSE "none"]]
  /\ UNCHANGED <<record, box, server, value>>

(* furi_message_queue_put waits for room.  Without a lock the call is over.*)
Put(c) ==
  /\ client[c].at = "put" /\ Len(box) < MaxMessages
  /\ box' = Append(box, [from |-> c, msg |-> client[c].msg])
  /\ client' = [client EXCEPT ![c] = IF Locked(@.msg) THEN [@ EXCEPT !.at = "wait"] ELSE Idle("in")]
  /\ UNCHANGED <<record, server, value>>

(* Mutant: the lock is freed and the stack left without waiting. *)
WaitUnlockNot(c) ==
  /\ client[c].at = "wait"
  /\ client' = [client EXCEPT ![c] = Idle("in")]
  /\ UNCHANGED <<record, box, server, value>>

(* api_lock_wait_unlock_and_free, and the result is returned. *)
WaitUnlock(c) ==
  /\ client[c].at = "wait" /\ client[c].lock = "unlocked"
  /\ client' = [client EXCEPT ![c] = Idle("in")]
  /\ UNCHANGED <<record, box, server, value>>

(***************************************************************************)
(* The service: the callback of its queue.                                 *)
(***************************************************************************)
Take ==
  /\ server.at = "loop" /\ box # <<>>
  /\ server' = [at |-> "handle", from |-> Head(box).from, msg |-> Head(box).msg]
  /\ box' = Tail(box)
  /\ UNCHANGED <<record, client, value>>

(* The message is carried out; the answer goes to the stack of the caller. *)
Handle ==
  /\ server.at = "handle"
  /\ \E ok \in (IF server.msg.op = "post" THEN {TRUE} ELSE BOOLEAN) :
       /\ value' = IF ok /\ server.msg.op # "get" THEN server.msg.arg ELSE value
       /\ client' = IF Locked(server.msg)
                    THEN [client EXCEPT ![server.from].result = IF ok THEN value' ELSE Failed]
                    ELSE client
  /\ server' = [server EXCEPT !.at = IF Locked(server.msg) THEN "unlock" ELSE "loop"]
  /\ UNCHANGED <<record, box>>

(* api_lock_unlock: the event flag is set, and its loop told, inside of    *)
(* one critical section, as the caller frees it at once.                   *)
Unlock ==
  /\ server.at = "unlock"
  /\ client' = [client EXCEPT ![server.from].lock = "unlocked"]
  /\ server' = [server EXCEPT !.at = "loop"]
  /\ UNCHANGED <<record, box, value>>

Serve == Take \/ Handle \/ Unlock \/ RecordCreate

CallsNext ==
  \/ Serve
  \/ \E c \in Clients :
       \/ RecordOpen(c) \/ RecordReady(c) \/ RecordClose(c)
       \/ Call(c) \/ Put(c) \/ WaitUnlock(c)

(***************************************************************************)
(* Correctness.                                                            *)
(***************************************************************************)
(* The type invariant; the record counts those who opened it.              *)
CallsTypeOK ==
  /\ record \in [ready : BOOLEAN, holders : Nat]
  /\ record.holders = Cardinality({c \in Clients : client[c].at # "out"})
  /\ client \in [Clients -> [at : {"out", "opening", "in", "put", "wait"}, msg : Messages,
                             lock : {"none", "locked", "unlocked"}, result : Values \union {Failed}]]
  /\ box \in Seq([from : Clients, msg : Messages]) /\ Len(box) =< MaxMessages
  /\ server \in [at : {"start", "loop", "handle", "unlock"}, from : Clients, msg : Messages]
  /\ value \in Values

(* Nobody calls a service before its record is ready: whoever has opened   *)
(* it first has waited for furi_record_create (furi_record_open), also     *)
(* when the record was added to the dictionary by the wait itself.         *)
RecordUsedReady ==
  (\E c \in Clients : client[c].at \in {"in", "put", "wait"}) \/ box # <<>> => record.ready

(* The elements of s at the given places, in their order. *)
Selected(s, places) ==
  LET Nth(n) == {s[i] : i \in {i \in places : Cardinality({j \in places : j =< i}) = n}} IN
  [n \in 1 .. Cardinality(places) |-> CHOOSE x \in Nth(n) : TRUE]

(* The calls of a client as CallProtocol sees them: those it did not wait  *)
(* for and that were not carried out yet, and the one it waits for.        *)
Posted(c) ==
  LET Of(m)   == m.from = c /\ ~Locked(m.msg)
      args    == [i \in DOMAIN box |-> box[i].msg.arg]
      handled == IF server.at = "handle" /\ Of(server) THEN <<server.msg.arg>> ELSE <<>>
      put     == IF client[c].at = "put" /\ ~Locked(client[c].msg) THEN <<client[c].msg.arg>> ELSE <<>> IN
  handled \o Selected(args, {i \in DOMAIN box : Of(box[i])}) \o put

Waits(c) == client[c].at \in {"put", "wait"} /\ Locked(client[c].msg)

Answered(c) == client[c].lock = "unlocked" \/ (server.at = "unlock" /\ server.from = c)

Waited(c) ==
  IF Waits(c)
  THEN [state  |-> IF Answered(c) THEN "done" ELSE "pending",
        op     |-> client[c].msg.op,
        arg    |-> client[c].msg.arg,
        answer |-> client[c].result]
  ELSE [state |-> "none", op |-> "get", arg |-> Failed, answer |-> Failed]

Calls == INSTANCE CallProtocol WITH
  posted <- [c \in Clients |-> Posted(c)],
  call   <- [c \in Clients |-> Waited(c)]

(* Every call is answered, once and with what the service had when it      *)
(* carried it out, the calls of a client take effect in their order, and   *)
(* no caller leaves its lock and its stack before the service is done with *)
(* them.                                                                   *)
CallsAnswered == Calls!CSpec
=============================================================================
