---------------------------- MODULE ExpanderMain ----------------------------
(***************************************************************************)
(* How an interrupt of the FUSB302 reaches its service.  The line of the   *)
(* chip, active low, is an input of the main expander; the expander pulls  *)
(* its own line while its inputs differ from what was read last; the       *)
(* falling edge wakes a worker (targets/f100/furi_bsp/furi_bsp_expander.c) *)
(* that reads the inputs and calls back for each that went low; the        *)
(* callback leaves an event for the service (applications/services/        *)
(* fusb302/fusb302.c), which reads the chip (lib/drivers/fusb302).         *)
(* The application of the CPU (applications/main/cpu/cpu_app.c) resets the *)
(* main board and hands the expander over to the CPU, and then nobody      *)
(* listens to it.                                                          *)
(*                                                                         *)
(* The chips are external: a register of the FUSB302 is cleared when it is *)
(* read, its line is low while one is set and interrupts are enabled.  The *)
(* reset of the main board makes the expander forget what it has reported, *)
(* and leaves the FUSB302 alone.                                           *)
(***************************************************************************)
EXTENDS Naturals

CONSTANT OtherInputs   \* inputs of the expander without a callback

ASSUME ExpanderAssumption == "fusb302" \notin OtherInputs

VARIABLES
  chip,     \* the FUSB302: InterruptA, Interrupt, interrupts enabled
  other,    \* the other inputs that are low
  bsp,      \* the worker: started, its flag, where it is, input_mask_old, the
            \* inputs that were low when it last read them, and when anybody
            \* did, and who is called when the expander pulls its line
  fusb,     \* the service: where it is, callback attached, event, TOGDONE
  xfaults   \* what has happened first that nobody recovers from

expanderVars == <<chip, other, bsp, fusb, xfaults>>

Low(c) == c.on /\ (c.a \/ c.i # "none")

Inputs(c, o) == (IF Low(c) THEN {"fusb302"} ELSE {}) \union o

(* furi_bsp_expander_main_init has read the inputs; the service is not up. *)
ExpanderInit ==
  /\ chip = [a |-> FALSE, i |-> "none", on |-> FALSE]
  /\ other = {}
  /\ bsp = [started |-> FALSE, flag |-> FALSE, at |-> "wait", old |-> {}, read |-> {},
            seen |-> {}, ear |-> "Mcu"]
  /\ fusb = [at |-> "reset", attached |-> FALSE, event |-> FALSE, tog |-> FALSE]
  /\ xfaults = {}

(***************************************************************************)
(* A change of the inputs: furi_bsp_expander_main_interrupt_handler, when  *)
(* the expander pulls its line.  Before the thread runs nobody hears it,   *)
(* nor from a reset until the callback is attached again, nor when the CPU *)
(* has control.                                                            *)
(***************************************************************************)
(* "Start": attached, but the CPU is given control next. *)
Heard == bsp.started /\ bsp.ear \in {"Mcu", "Start"}

(* The worker has yet to read the inputs. *)
ReadAhead == bsp.flag \/ bsp.at = "read"

Change(c, o) ==
  LET before == Inputs(chip, other)
      after  == Inputs(c, o) IN
  /\ chip' = c
  /\ other' = o
  /\ bsp' = [bsp EXCEPT !.flag = @ \/ (Heard /\ before = bsp.seen /\ after # bsp.seen)]

Falls(c, o) == "fusb302" \in Inputs(c, o) \ Inputs(chip, other)

(* The worker has read the line low. *)
Known == "fusb302" \in bsp.read

(* A line that rises and falls again before the worker has read the inputs *)
(* looks to it as if nothing had happened.                                 *)
FallUnseen(c, o) == Falls(c, o) /\ Known

FallUnheard(c, o) == Falls(c, o) /\ ~Heard /\ ~ReadAhead

(* Only the first fault is remembered. *)
Blame(what, lost) == xfaults' = IF xfaults = {} /\ lost THEN {what} ELSE xfaults

Faulty(what, c, o, lost) ==
  LET fall == IF FallUnseen(c, o) THEN "unseen" ELSE "unheard"
      gone == FallUnseen(c, o) \/ FallUnheard(c, o) IN
  Blame(IF gone THEN fall ELSE what, lost \/ gone)

(* The chip has something to report: a toggle is done, a comparator or     *)
(* VBUS changed ("role"), or only the level of CC did ("level").           *)
ChipReports ==
  \E c \in {[chip EXCEPT !.a = TRUE], [chip EXCEPT !.i = "role"],
            [chip EXCEPT !.i = IF @ = "role" THEN "role" ELSE "level"]} :
    /\ c # chip
    /\ Change(c, other) /\ Faulty("unseen", c, other, FALSE)
    /\ UNCHANGED fusb

OtherChanges ==
  \E x \in OtherInputs :
    LET o == IF x \in other THEN other \ {x} ELSE other \union {x} IN
    /\ Change(chip, o) /\ Faulty("unseen", chip, o, FALSE)
    /\ UNCHANGED fusb

(* furi_bsp_expander_main_read_output by some other thread: the inputs are *)
(* read as well.                                                           *)
OthersRead ==
  /\ bsp.started
  /\ bsp' = [bsp EXCEPT !.seen = Inputs(chip, other)]
  /\ UNCHANGED <<chip, other, fusb, xfaults>>

(***************************************************************************)
(* The application of the CPU: Start and Reset reset the main board and    *)
(* give the CPU control, Stop and Close only reset it.                     *)
(***************************************************************************)
(* furi_bsp_main_reset frees the handle of the expander.  Until it is back *)
(* the worker goes on with the freed one, taken to keep its contents.      *)
MainReset ==
  /\ bsp.started /\ bsp.ear \in {"Mcu", "Cpu"}
  /\ bsp' = [bsp EXCEPT !.ear = "reset"]
  /\ UNCHANGED <<chip, other, fusb, xfaults>>

(* tca6416a_init ends the reset and allocates a handle without a callback, *)
(* which nobody keeps.                                                     *)
MainAwakes ==
  /\ bsp.ear = "reset"
  /\ bsp' = [bsp EXCEPT !.ear = "deaf", !.seen = Inputs(chip, other)]
  /\ UNCHANGED <<chip, other, fusb, xfaults>>

(* The callback is attached to the old handle.  The new one is called, and *)
(* the two are one only if malloc gave the same block again; otherwise     *)
(* nobody is called any more.  An input that changed meanwhile has pulled  *)
(* the line already.                                                       *)
MainAttach ==
  \E same, start \in BOOLEAN :
    /\ bsp.ear = "deaf"
    /\ bsp' = [bsp EXCEPT !.ear = IF ~same THEN "gone" ELSE IF start THEN "Start" ELSE "Mcu"]
    /\ IF same THEN Blame("unheard", Inputs(chip, other) # bsp.seen /\ ~ReadAhead)
               ELSE Blame("handle", TRUE)
    /\ UNCHANGED <<chip, other, fusb>>

(* furi_bsp_expander_main_set_control(Cpu) takes the callback away. *)
SetControl ==
  /\ bsp.ear = "Start"
  /\ bsp' = [bsp EXCEPT !.ear = "Cpu"]
  /\ UNCHANGED <<chip, other, fusb, xfaults>>

CpuApp == MainReset \/ MainAwakes \/ MainAttach \/ SetControl

(***************************************************************************)
(* The worker.                                                             *)
(***************************************************************************)
WorkerStart ==
  /\ ~bsp.started
  /\ bsp' = [bsp EXCEPT !.started = TRUE]
  /\ Blame("early", Inputs(chip, other) # bsp.seen)
  /\ UNCHANGED <<chip, other, fusb>>

WorkerWait ==
  /\ bsp.started /\ bsp.at = "wait" /\ bsp.flag
  /\ bsp' = [bsp EXCEPT !.flag = FALSE, !.at = "read"]
  /\ UNCHANGED <<chip, other, fusb, xfaults>>


(* input_mask_old = input. *)
Remember(input) == input

(* Trigger on interrupts that changed and transitioned from high to low.   *)
(* A read that failed shows all inputs high, and leaves the expander       *)
(* pulling its line.                                                       *)
WorkerRead ==
  \E ok \in BOOLEAN :
    LET input == IF ok THEN Inputs(chip, other) ELSE {} IN
    /\ bsp.at = "read"
    /\ bsp' = [bsp EXCEPT !.at = "wait", !.old = Remember(input), !.read = input,
                          !.seen = IF ok THEN input ELSE @]
    /\ fusb' = IF "fusb302" \in input \ bsp.old /\ fusb.attached
               THEN [fusb EXCEPT !.event = TRUE] ELSE fusb
    /\ Blame("unread", ~ok /\ (Low(chip) \/ Inputs(chip, other) # bsp.seen))
    /\ UNCHANGED <<chip, other>>

ExpanderWorker == WorkerStart \/ WorkerWait \/ WorkerRead

(***************************************************************************)
(* The service.                                                            *)
(***************************************************************************)
(* fusb302_start_drp_logic, from fusb302_init and again when the role may  *)
(* have changed: the chip is reset, which masks interrupts, set up, what   *)
(* is pending is cleared, and interrupts are enabled.                      *)
DrpReset ==
  /\ bsp.started /\ fusb.at = "reset"
  /\ LET c == [a |-> FALSE, i |-> "none", on |-> FALSE] IN Change(c, other)
  /\ fusb' = [fusb EXCEPT !.at = "clear"]
  /\ UNCHANGED xfaults

DrpClear ==
  /\ fusb.at = "clear"
  /\ LET c == [chip EXCEPT !.a = FALSE, !.i = "none"] IN Change(c, other)
  /\ fusb' = [fusb EXCEPT !.at = "enable"]
  /\ UNCHANGED xfaults

DrpEnable ==
  /\ fusb.at = "enable"
  /\ LET c == [chip EXCEPT !.on = TRUE] IN Change(c, other) /\ Faulty("unseen", c, other, FALSE)
  /\ fusb' = [fusb EXCEPT !.at = IF fusb.attached THEN "idle" ELSE "attach"]

(* One of the transfers failed: the rest is left out. *)
DrpFails ==
  /\ bsp.started /\ fusb.at \in {"reset", "clear", "enable"}
  /\ fusb' = [fusb EXCEPT !.at = IF fusb.attached THEN "idle" ELSE "attach"]
  /\ UNCHANGED <<chip, other, bsp>>
  /\ Faulty("kept", chip, other, Low(chip) /\ Known /\ ~fusb.event)

(* fusb302_alloc attaches the callback when the chip is already at work.   *)
Attach ==
  /\ fusb.at = "attach"
  /\ fusb' = [fusb EXCEPT !.attached = TRUE, !.at = "idle"]
  /\ Blame("early", Low(chip) /\ Known)
  /\ UNCHANGED <<chip, other, bsp>>

(* fusb302_custom_event_callback and fusb302_read_role. *)
FusbEvent ==
  /\ fusb.at = "idle" /\ fusb.event
  /\ fusb' = [fusb EXCEPT !.event = FALSE, !.at = "readA"]
  /\ UNCHANGED <<chip, other, bsp, xfaults>>

ReadInterruptA ==
  \E ok \in BOOLEAN :
    /\ fusb.at = "readA"
    /\ LET c == [chip EXCEPT !.a = @ /\ ~ok] IN Change(c, other)
    /\ fusb' = [fusb EXCEPT !.tog = ok /\ chip.a, !.at = "readI"]
    /\ UNCHANGED xfaults

(* With TOGDONE only the role is read; otherwise a change of the role      *)
(* starts the logic again.  What is set by now in a register already read, *)
(* or was not read, keeps the line low, and no fall will tell of it.       *)
ReadInterrupt ==
  \E ok \in BOOLEAN :
    LET c     == IF ok THEN [chip EXCEPT !.i = "none"] ELSE chip
        again == ok /\ ~fusb.tog /\ chip.i = "role" IN
    /\ fusb.at = "readI"
    /\ Change(c, other)
    /\ fusb' = [fusb EXCEPT !.tog = FALSE, !.at = IF again THEN "reset" ELSE "idle"]
    /\ Faulty("kept", c, other, ~again /\ Low(c) /\ Known /\ ~fusb.event)

FusbService ==
  \/ DrpReset \/ DrpClear \/ DrpEnable \/ DrpFails \/ Attach
  \/ FusbEvent \/ ReadInterruptA \/ ReadInterrupt

(* Bound: what goes on around the worker and the service is followed up to *)
(* the first fault; nothing is said of what comes after it.                *)
Surroundings == xfaults = {} /\ (ChipReports \/ OtherChanges \/ CpuApp)

ExpanderNext == Surroundings \/ OthersRead \/ ExpanderWorker \/ FusbService

(***************************************************************************)
(* Correctness.                                                            *)
(***************************************************************************)
FaultKinds == {"early", "unseen", "unheard", "unread", "kept", "handle"}

ExpanderTypeOK ==
  /\ chip \in [a : BOOLEAN, i : {"none", "role", "level"}, on : BOOLEAN]
  /\ other \subseteq OtherInputs
  /\ bsp \in [started : BOOLEAN, flag : BOOLEAN, at : {"wait", "read"},
              old : SUBSET (OtherInputs \union {"fusb302"}), read : SUBSET (OtherInputs \union {"fusb302"}),
              seen : SUBSET (OtherInputs \union {"fusb302"}),
              ear : {"Mcu", "Start", "Cpu", "reset", "deaf", "gone"}]
  /\ fusb \in [at : {"reset", "clear", "enable", "attach", "idle", "readA", "readI"},
               attached : BOOLEAN, event : BOOLEAN, tog : BOOLEAN]
  /\ xfaults \in SUBSET FaultKinds

Served == ~Low(chip) \/ fusb.event \/ fusb.at # "idle"

=============================================================================
