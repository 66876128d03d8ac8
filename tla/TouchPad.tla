------------------------------ MODULE TouchPad ------------------------------
(***************************************************************************)
(* The touch service, src/applications/services/input_touch/input_touch.c, *)
(* and its driver, src/lib/drivers/iqs7211e/iqs7211e.c.  The chip pulls    *)
(* RDY to open a window for one transfer; the interrupt sets ready and     *)
(* wakes the thread, which runs the state machine of the driver until      *)
(* ready is clear.                                                         *)
(*                                                                         *)
(* The chip is external: a window closes with the transfer or when it has  *)
(* been open for I2C_TIMEOUT, a transfer without a window fails, in event  *)
(* mode a window opens only for news, and news stays until it is read.     *)
(***************************************************************************)
EXTENDS Naturals

CONSTANT MaxTouchFaults   \* bound: failed transfers, resets of the chip, threads that come too late

ASSUME TouchAssumption == MaxTouchFaults \in Nat

VARIABLES
  pad,      \* the chip: finger, show_reset, event mode, window, news, re_ati_occurred
  drv,      \* Iqs7211e: ready, state, init_state, data; and the thread flag
  tpc,      \* where the thread is
  touch,    \* InputTouch.touch
  session,  \* i2c_session_active
  tfaults,  \* how many faults there were
  garbage,  \* a register was written back that had not been read
  missed    \* the initialisation has read a change of the finger, that nobody is told

touchVars == <<pad, drv, tpc, touch, session, tfaults, garbage, missed>>

AfterReset(finger) ==
  [finger |-> finger, reset |-> TRUE, event |-> FALSE, open |-> FALSE, news |-> TRUE, ati |-> FALSE]

NoData == [finger |-> FALSE, reset |-> FALSE]

(* iqs7211e_init has reset the chip and is to probe its address. *)
Fresh == [ready |-> FALSE, flag |-> FALSE, state |-> "Start", init |-> "VerifyProduct", data |-> NoData]

TouchInit ==
  /\ pad = AfterReset(FALSE)
  /\ drv = Fresh /\ tpc = "probe" /\ touch = FALSE /\ session = FALSE
  /\ tfaults = 0 /\ garbage = FALSE /\ missed = FALSE

(***************************************************************************)
(* The chip.                                                               *)
(***************************************************************************)
FingerChange ==
  /\ pad' = [pad EXCEPT !.finger = ~@, !.news = TRUE]
  /\ UNCHANGED <<drv, tpc, touch, session, tfaults, garbage, missed>>

(* It has lost its settings. *)
PadReset ==
  /\ tfaults < MaxTouchFaults
  /\ pad' = AfterReset(pad.finger)
  /\ tfaults' = tfaults + 1
  /\ UNCHANGED <<drv, tpc, touch, session, garbage, missed>>

(* iqs7211e_interrupt_handler, and input_touch_isr once it is attached. *)
WindowOpen ==
  /\ ~pad.open /\ (pad.event => pad.news)
  /\ pad' = [pad EXCEPT !.open = TRUE]
  /\ drv' = [drv EXCEPT !.ready = TRUE, !.flag = @ \/ tpc \notin {"probe", "attach"}]
  /\ UNCHANGED <<tpc, touch, session, tfaults, garbage, missed>>

(* Nobody has answered: because the edge was lost, or too late. *)
Expected == drv.ready /\ (drv.flag \/ tpc # "wait")

WindowTimeout ==
  /\ pad.open
  /\ Expected => tfaults < MaxTouchFaults
  /\ tfaults' = IF Expected THEN tfaults + 1 ELSE tfaults
  /\ pad' = [pad EXCEPT !.open = FALSE]
  /\ UNCHANGED <<drv, tpc, touch, session, garbage, missed>>

(***************************************************************************)
(* The thread.                                                             *)
(***************************************************************************)
(* The end of iqs7211e_init: what came before is forgotten.  Without an    *)
(* answer from the chip the service gives up for good.                     *)
Probe ==
  /\ tpc = "probe"
  /\ \/ /\ tpc' = "attach" /\ drv' = Fresh
        /\ UNCHANGED tfaults
     \/ /\ tfaults < MaxTouchFaults /\ tfaults' = tfaults + 1
        /\ tpc' = "absent"
        /\ UNCHANGED drv
  /\ UNCHANGED <<pad, touch, session, garbage, missed>>

SetInputCallback ==
  /\ tpc = "attach"
  /\ tpc' = "wait"
  /\ UNCHANGED <<pad, drv, touch, session, tfaults, garbage, missed>>

TouchWait ==
  \/ /\ tpc = "wait" /\ drv.flag
     /\ drv' = [drv EXCEPT !.flag = FALSE] /\ tpc' = "run"
     /\ UNCHANGED <<pad, touch, session, tfaults, garbage, missed>>
  \/ /\ tpc = "run" /\ ~drv.ready
     /\ tpc' = "wait"
     /\ UNCHANGED <<pad, drv, touch, session, tfaults, garbage, missed>>

Running(state) == tpc = "run" /\ drv.ready /\ drv.state = state
Initialising(state) == Running("Init") /\ drv.init = state

(* iqs7211e_run, Start and the end of Init: no transfer. *)
Begin ==
  /\ \/ Running("Start") /\ drv' = [drv EXCEPT !.state = "Init"]
     \/ Initialising("Done") /\ drv' = [drv EXCEPT !.state = "Run"]
  /\ UNCHANGED <<pad, tpc, touch, session, tfaults, garbage, missed>>

(* What may become of a transfer.  One that fails leaves the window open.  *)
(* A read fails with the address, before ready would be cleared, or with   *)
(* the data, after it.                                                     *)
Outcomes(failures) ==
  IF ~pad.open THEN failures \ {"data"}
  ELSE {"ok"} \union (IF tfaults < MaxTouchFaults THEN failures ELSE {})

Counted(outcome) == tfaults' = IF pad.open /\ outcome # "ok" THEN tfaults + 1 ELSE tfaults

Closed == [pad EXCEPT !.open = FALSE]

(* A number that is not that of the product, 0 after a failed read: the    *)
(* program ends in furi_crash and starts again.                            *)
VerifyProduct ==
  \E outcome \in Outcomes({"product", "address", "data"}) :
    /\ Initialising("VerifyProduct") /\ Counted(outcome)
    /\ IF outcome = "product" \/ ~pad.open
       THEN /\ pad' = AfterReset(pad.finger) /\ drv' = Fresh /\ tpc' = "probe"
            /\ touch' = FALSE /\ session' = FALSE /\ missed' = FALSE
       ELSE /\ pad' = IF outcome = "ok" THEN Closed ELSE pad
            /\ drv' = [drv EXCEPT !.init = "ReadReset"]
            /\ tpc' = IF outcome = "address" THEN "run" ELSE "clear"
            /\ UNCHANGED <<touch, session, missed>>
    /\ UNCHANGED garbage

(* The window stays open and the bus is kept.  After a failed read the     *)
(* flags are whatever was on the stack.                                    *)
ReadReset ==
  \E outcome \in Outcomes({"address", "data"}), shown \in BOOLEAN :
    /\ Initialising("ReadReset") /\ Counted(outcome)
    /\ outcome = "ok" => shown = pad.reset
    /\ drv' = [drv EXCEPT !.init = IF shown THEN "UpdateSettings" ELSE "ChipReset"]
    /\ session' = (outcome = "ok")
    /\ UNCHANGED <<pad, tpc, touch, garbage, missed>>

(* A register is read, a bit of it set, and it is written back, whether it *)
(* could be read or not: how the chip is then, and the next state.         *)
Modify(init, then, chip) ==
  \E outcome \in Outcomes({"read", "write", "both"}) :
    /\ Initialising(init) /\ Counted(outcome)
    /\ pad' = IF pad.open /\ outcome \in {"ok", "read"} THEN chip ELSE pad
    /\ garbage' = (garbage \/ (pad.open /\ outcome = "read"))
    /\ drv' = [drv EXCEPT !.init = then]
    /\ tpc' = "clear" /\ session' = FALSE
    /\ UNCHANGED <<touch, missed>>

ChipReset == Modify("ChipReset", "ReadReset", AfterReset(pad.finger))
AckReset == Modify("AckReset", "Ati", [Closed EXCEPT !.reset = FALSE])
Ati == Modify("Ati", "WaitForAti", [Closed EXCEPT !.ati = TRUE])
ActivateEventMode == Modify("ActivateEventMode", "Done", [Closed EXCEPT !.event = TRUE])

(* iqs7211e_load_config: fifteen writes, whose results nobody looks at. *)
UpdateSettings ==
  \E outcome \in Outcomes({"write"}) :
    /\ Initialising("UpdateSettings") /\ Counted(outcome)
    /\ pad' = IF outcome = "ok" THEN Closed ELSE pad
    /\ drv' = [drv EXCEPT !.init = "AckReset"]
    /\ tpc' = "clear" /\ session' = FALSE
    /\ UNCHANGED <<touch, garbage, missed>>

WaitForAti ==
  \E outcome \in Outcomes({"address", "data"}), busyAti \in BOOLEAN :
    /\ Initialising("WaitForAti") /\ Counted(outcome)
    /\ outcome = "ok" => busyAti = pad.ati
    /\ pad' = IF outcome = "ok" THEN [Closed EXCEPT !.ati = FALSE] ELSE pad
    /\ drv' = [drv EXCEPT !.init = IF busyAti THEN @ ELSE "ReadData"]
    /\ tpc' = IF outcome = "address" THEN "run" ELSE "clear"
    /\ UNCHANGED <<touch, session, garbage, missed>>

(* iqs7211e_read_data. *)
Report == [finger |-> pad.finger, reset |-> pad.reset]
ReportRead == [Closed EXCEPT !.news = FALSE]

(* In the initialisation nobody is told of the data. *)
ReadData ==
  \E outcome \in Outcomes({"address", "data"}) :
    /\ Initialising("ReadData") /\ Counted(outcome)
    /\ IF outcome = "ok"
       THEN /\ pad' = ReportRead /\ missed' = (pad.finger # touch)
            /\ drv' = [drv EXCEPT !.init = "ActivateEventMode", !.data = Report]
       ELSE /\ drv' = [drv EXCEPT !.init = "ActivateEventMode"]
            /\ UNCHANGED <<pad, missed>>
    /\ tpc' = IF outcome = "address" THEN "run" ELSE "clear"
    /\ UNCHANGED <<touch, session, garbage>>

(* iqs7211e_run, Run: data that could not be read is read again. *)
RunRead ==
  \E outcome \in Outcomes({"address", "data"}) :
    /\ Running("Run") /\ Counted(outcome)
    /\ IF outcome = "ok"
       THEN pad' = ReportRead /\ drv' = [drv EXCEPT !.data = Report]
       ELSE UNCHANGED <<pad, drv>>
    /\ tpc' = CASE outcome = "ok" -> "clearData" [] outcome = "data" -> "clear" [] OTHER -> "run"
    /\ UNCHANGED <<touch, session, garbage, missed>>

(* ready = false after the transfer: a window that has opened since then   *)
(* is not noticed.                                                         *)
ClearReady ==
  /\ tpc \in {"clear", "clearData"}
  /\ drv' = [drv EXCEPT !.ready = FALSE]
  /\ tpc' = IF tpc = "clear" THEN "run" ELSE "callback"
  /\ UNCHANGED <<pad, touch, session, tfaults, garbage, missed>>

(* input_touch_event_isr, in the thread. *)
EventCallback ==
  /\ tpc = "callback"
  /\ touch' = drv.data.finger
  /\ missed' = FALSE
  /\ tpc' = "clearAgain"
  /\ UNCHANGED <<pad, drv, session, tfaults, garbage>>

(* ready = false once more, after the callback. *)
ClearAgain ==
  /\ tpc = "clearAgain"
  /\ drv' = [drv EXCEPT !.ready = FALSE, !.state = "CheckReset"]
  /\ tpc' = "run"
  /\ UNCHANGED <<pad, touch, session, tfaults, garbage, missed>>

(* Mutant: the initialisation stays done. *)
CheckResetDone ==
  /\ Running("CheckReset")
  /\ drv' = IF drv.data.reset THEN [drv EXCEPT !.state = "Start"] ELSE [drv EXCEPT !.state = "Run"]
  /\ UNCHANGED <<pad, tpc, touch, session, tfaults, garbage, missed>>

(* A chip that reports a reset is initialised again. *)
CheckReset ==
  /\ Running("CheckReset")
  /\ drv' = IF drv.data.reset THEN [drv EXCEPT !.state = "Start", !.init = "VerifyProduct"]
            ELSE [drv EXCEPT !.state = "Run"]
  /\ UNCHANGED <<pad, tpc, touch, session, tfaults, garbage, missed>>

TouchLoop ==
  \/ Probe \/ SetInputCallback \/ TouchWait \/ Begin
  \/ VerifyProduct \/ ReadReset \/ ChipReset \/ UpdateSettings \/ AckReset
  \/ Ati \/ WaitForAti \/ ReadData \/ ActivateEventMode
  \/ RunRead \/ ClearReady \/ EventCallback \/ ClearAgain \/ CheckReset

TouchNext == TouchLoop \/ FingerChange \/ PadReset \/ WindowOpen \/ WindowTimeout

-----------------------------------------------------------------------------
TouchTypeOK ==
  /\ pad \in [finger : BOOLEAN, reset : BOOLEAN, event : BOOLEAN, open : BOOLEAN,
              news : BOOLEAN, ati : BOOLEAN]
  /\ drv \in [ready : BOOLEAN, flag : BOOLEAN, state : {"Start", "Init", "CheckReset", "Run"},
              init : {"VerifyProduct", "ReadReset", "ChipReset", "UpdateSettings", "AckReset", "Ati",
                      "WaitForAti", "ReadData", "ActivateEventMode", "Done"},
              data : [finger : BOOLEAN, reset : BOOLEAN]]
  /\ tpc \in {"probe", "absent", "attach", "wait", "run", "clear", "clearData", "callback", "clearAgain"}
  /\ touch \in BOOLEAN /\ session \in BOOLEAN /\ garbage \in BOOLEAN /\ missed \in BOOLEAN
  /\ tfaults \in 0..MaxTouchFaults

Settled == \/ <>[](pad.finger = TRUE)
           \/ <>[](pad.finger = FALSE)

(* What the applications were told agrees with the finger, or will with    *)
(* its next move; and the chip has its settings, or has yet to report.     *)
Recovered ==
  /\ touch = pad.finger \/ missed
  /\ pad.reset => pad.event

(* After failed transfers, resets of the chip, a restart and windows that  *)
(* opened between a transfer and ready = false, a finger that keeps still  *)
(* has been reported and the chip was initialised again, unless the chip   *)
(* did not answer at start-up or got a register that had not been read;    *)
(* and the thread never sleeps with the bus (iqs7211e_run,                 *)
(* iqs7211e_initialization, input_touch_srv).                              *)
TouchRecovers ==
  /\ [](tpc = "wait" => ~session)
  /\ Settled => <>[](Recovered \/ tpc \in {"probe", "absent"} \/ garbage)
=============================================================================
