--------------------------- MODULE HapticService ---------------------------
(***************************************************************************)
(* The haptic service (applications/services/haptic/haptic.c): messages    *)
(* enable the driver of the motor and start the off timer, whose callback  *)
(* disables it.  Nothing waits for an answer.                              *)
(*                                                                         *)
(* Of the event loop (FuriEventLoop, FuriEventLoopTimer) the model keeps   *)
(* the order of a pass: flags are taken, one message, then the timer       *)
(* commands if the flag was among those taken, then one expired timer.     *)
(***************************************************************************)
EXTENDS Naturals, Sequences

CONSTANTS
  MaxEffects,  \* HAPTIC_MAX_MESSAGES
  OffTicks     \* the longest time an effect may last

ASSUME HapticAssumption == MaxEffects \in Nat \ {0} /\ OffTicks \in Nat \ {0}

VARIABLES
  motor,    \* the enable pin of the driver
  effects,  \* message_queue
  off,      \* the timer: ticks left when active, the start command queued
  pass      \* where the loop is, and whether it took the timer flag

hapticVars == <<motor, effects, off, pass>>

Inactive == OffTicks + 1
NoCommand == 0

Requests == [type : {"PlayEffect"}, time : 1 .. OffTicks]
            \union [type : {"Start", "Stop"}, time : {OffTicks}]

HapticInit ==
  /\ motor = FALSE
  /\ effects = <<>>
  /\ off = [left |-> Inactive, command |-> NoCommand]
  /\ pass = [at |-> "sleep", timer |-> FALSE]

(* haptic_play_effect, haptic_start, haptic_stop. *)
HapticSend ==
  /\ Len(effects) < MaxEffects
  /\ \E r \in Requests : effects' = Append(effects, r)
  /\ UNCHANGED <<motor, off, pass>>

Tick ==
  /\ off.left \in 1 .. OffTicks
  /\ off' = [off EXCEPT !.left = @ - 1]
  /\ UNCHANGED <<motor, effects, pass>>

(* The loop wakes up for a message, a timer command or an expired timer.   *)
HapticWake ==
  /\ pass.at = "sleep"
  /\ effects # <<>> \/ off.command # NoCommand \/ off.left = 0
  /\ pass' = [at    |-> IF effects # <<>> THEN "message" ELSE "timers",
              timer |-> off.command # NoCommand]
  /\ UNCHANGED <<motor, effects, off>>

(* Mutant: a stop does not start the off timer. *)
OffTimerKept(r) == IF r.type = "Stop" THEN off ELSE [off EXCEPT !.command = r.time]

(* haptic_start_off_timer: a command, that replaces one not yet served. *)
OffTimer(r) == [off EXCEPT !.command = r.time]

(* haptic_message_queue_callback.  Each message enables the driver, also   *)
(* one to stop it.                                                         *)
HapticMessage ==
  LET r == Head(effects) IN
  /\ pass.at = "message"
  /\ effects' = Tail(effects)
  /\ motor' = TRUE
  /\ off' = OffTimer(r)
  /\ pass' = [pass EXCEPT !.at = "timers"]

(* The command of the timer; the new time runs from here. *)
HapticCommand ==
  /\ pass.at = "timers" /\ pass.timer
  /\ off' = [left |-> off.command, command |-> NoCommand]
  /\ pass' = [at |-> "timers", timer |-> FALSE]
  /\ UNCHANGED <<motor, effects>>

(* haptic_timer_callback, when the timer has expired. *)
HapticExpire ==
  /\ pass.at = "timers" /\ ~pass.timer
  /\ IF off.left = 0
     THEN /\ off' = [off EXCEPT !.left = Inactive]
          /\ motor' = FALSE
     ELSE UNCHANGED <<off, motor>>
  /\ pass' = [pass EXCEPT !.at = "sleep"]
  /\ UNCHANGED effects

HapticLoop == HapticWake \/ HapticMessage \/ HapticCommand \/ HapticExpire

HapticNext == HapticLoop \/ HapticSend \/ Tick

(***************************************************************************)
(* Correctness.                                                            *)
(***************************************************************************)
HapticTypeOK ==
  /\ motor \in BOOLEAN
  /\ effects \in Seq(Requests) /\ Len(effects) =< MaxEffects
  /\ off \in [left : 0 .. Inactive, command : 0 .. OffTicks]
  /\ pass \in [at : {"sleep", "message", "timers"}, timer : BOOLEAN]

(* The driver is not left enabled: unless messages keep coming, it is in   *)
(* the end disabled, though the start of the timer is only a command and   *)
(* a timer that expires in the same pass belongs to the effect before.     *)
MotorStops == []<>(~motor \/ effects # <<>>)
=============================================================================
