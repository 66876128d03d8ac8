---------------------------- MODULE CallProtocol ----------------------------
(***************************************************************************)
(* What a service promises to its clients, without queue, locks or thread: *)
(* a value that is written and read as if there were nobody else, one      *)
(* answer for every call, and the calls of one client in their order, also *)
(* those that nobody waits for.  ServiceCalls implements it.               *)
(***************************************************************************)
EXTENDS Sequences

CONSTANTS Clients, Values, Failed

VARIABLES
  value,   \* what the service keeps: a mode, or a register of its chip
  posted,  \* writes of each client that it did not wait for
  call     \* the call each client waits for

cvars == <<value, posted, call>>

NoCall == [state |-> "none", op |-> "get", arg |-> Failed, answer |-> Failed]

CInit ==
  /\ value \in Values
  /\ posted = [c \in Clients |-> <<>>]
  /\ call = [c \in Clients |-> NoCall]

Post(c, v) ==
  /\ call[c] = NoCall
  /\ posted' = [posted EXCEPT ![c] = Append(@, v)]
  /\ UNCHANGED <<value, call>>

Apply(c) ==
  /\ posted[c] # <<>>
  /\ value' = Head(posted[c])
  /\ posted' = [posted EXCEPT ![c] = Tail(@)]
  /\ UNCHANGED call

Invoke(c, op, v) ==
  /\ call[c] = NoCall
  /\ call' = [call EXCEPT ![c] = [state |-> "pending", op |-> op, arg |-> v, answer |-> Failed]]
  /\ UNCHANGED <<value, posted>>

(* The effect comes after that of all the client posted before.  The chip  *)
(* may fail; then nothing is written, or nothing is read.                  *)
Effect(c) ==
  /\ call[c].state = "pending" /\ posted[c] = <<>>
  /\ \E ok \in BOOLEAN :
       /\ value' = IF ok /\ call[c].op = "write" THEN call[c].arg ELSE value
       /\ call' = [call EXCEPT ![c] = [@ EXCEPT !.state = "done",
                                                !.answer = IF ok THEN value' ELSE Failed]]
  /\ UNCHANGED posted

Return(c) ==
  /\ call[c].state = "done"
  /\ call' = [call EXCEPT ![c] = NoCall]
  /\ UNCHANGED <<value, posted>>

CNext ==
  \E c \in Clients :
    \/ Apply(c) \/ Effect(c) \/ Return(c)
    \/ \E v \in Values : Post(c, v) \/ Invoke(c, "get", Failed) \/ Invoke(c, "write", v)

CSafety == CInit /\ [][CNext]_cvars

CSpec ==
  /\ CSafety
  /\ \A c \in Clients : WF_cvars(Apply(c)) /\ WF_cvars(Effect(c)) /\ WF_cvars(Return(c))
=============================================================================
