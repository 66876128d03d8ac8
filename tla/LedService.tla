----------------------------- MODULE LedService -----------------------------
(***************************************************************************)
(* The LED service, src/applications/services/led/led_backend.c, and its   *)
(* driver, src/lib/drivers/ws2812/ws2812.c.  The service changes the       *)
(* colours of its lines and sends a line by DMA out of the very buffer     *)
(* that the next message may change; dma_busy is given back by an alarm,   *)
(* 400 us after the end of a transfer, when the LEDs have latched.  A line *)
(* that is dark is switched off.                                           *)
(***************************************************************************)
EXTENDS Integers, Sequences, FiniteSetsExt

CONSTANTS
  Lines,        \* number of lines
  LedsPerLine,  \* LEDs of a line
  LedMessages,  \* bound: the messages, each a set of LEDs and their colour
  LedQueue      \* bound of LED_MAX_MESSAGES

ASSUME LedAssumption ==
  /\ Lines \in Nat \ {0} /\ LedsPerLine \in Nat \ {0} /\ LedQueue \in Nat \ {0}
  /\ \A m \in LedMessages : m.leds \subseteq (1..Lines) \X (1..LedsPerLine)

VARIABLES
  ledQueue,  \* messages that wait
  line,      \* LedState: the buffers of the lines
  powered,   \* mask_power
  ledPc,     \* wait: in the event loop, update: at the next line, write: at the semaphore
  update,    \* update_line: the lines to send
  busy,      \* dma_busy: free, sending, complete (interrupt due), reset (alarm set)
  dma,       \* line of the transfer and its next word
  shown,     \* what the LEDs show
  place,     \* next LED of the line to take a word
  wanted      \* the last colour asked for, by LED

ledVars == <<ledQueue, line, powered, ledPc, update, busy, dma, shown, place, wanted>>

Leds == 1..LedsPerLine
Off == 0          \* LED_COLOR_BLACK
Dark == [k \in Leds |-> Off]
AllDark == [l \in 1..Lines |-> Dark]

Coloured(state, m) ==
  [l \in 1..Lines |-> [k \in Leds |-> IF <<l, k>> \in m.leds THEN m.color ELSE state[l][k]]]

LedInit ==
  /\ ledQueue = << >> /\ wanted = AllDark
  /\ line = AllDark /\ powered = {} /\ shown = AllDark
  /\ ledPc = "wait" /\ update = {}
  /\ busy = "free" /\ dma = [line |-> 1, next |-> 1]
  /\ place = [l \in 1..Lines |-> 1]

(* led_send_message of any task, without a lock. *)
LedSend(m) ==
  /\ Len(ledQueue) < LedQueue
  /\ ledQueue' = Append(ledQueue, m)
  /\ wanted' = Coloured(wanted, m)
  /\ UNCHANGED <<line, powered, ledPc, update, busy, dma, shown, place>>

(* led_message_queue_callback: the colours are set, whether a transfer     *)
(* reads the buffer or not.                                                *)
LedTake ==
  /\ ledPc = "wait" /\ ledQueue # << >>
  /\ line' = Coloured(line, Head(ledQueue))
  /\ update' = {c[1] : c \in Head(ledQueue).leds}
  /\ ledQueue' = Tail(ledQueue)
  /\ ledPc' = "update"
  /\ UNCHANGED <<powered, busy, dma, shown, place, wanted>>

(* Mutant: a line that is on already is not sent again. *)
LedPowerOnce ==
  /\ ledPc = "update" /\ update # {}
  /\ LET l == Min(update)
     IN  IF line[l] = Dark \/ l \in powered
         THEN /\ powered' = IF line[l] = Dark THEN powered \ {l} ELSE powered
              /\ update' = update \ {l}
              /\ shown' = IF line[l] = Dark THEN [shown EXCEPT ![l] = Dark] ELSE shown
              /\ place' = [place EXCEPT ![l] = 1]
              /\ UNCHANGED ledPc
         ELSE /\ powered' = powered \cup {l}
              /\ ledPc' = "write"
              /\ UNCHANGED <<update, shown, place>>
  /\ UNCHANGED <<ledQueue, line, busy, dma, wanted>>

(* led_start_off_timer for the next line.  A dark line is switched off and *)
(* not sent; another is switched on, and sent after a delay.               *)
LedPower ==
  /\ ledPc = "update" /\ update # {}
  /\ LET l == Min(update)
     IN  IF line[l] = Dark
         THEN /\ powered' = powered \ {l}
              /\ update' = update \ {l}
              /\ shown' = [shown EXCEPT ![l] = Dark]
              /\ place' = [place EXCEPT ![l] = 1]
              /\ UNCHANGED ledPc
         ELSE /\ powered' = powered \cup {l}
              /\ ledPc' = "write"
              /\ UNCHANGED <<update, shown, place>>
  /\ UNCHANGED <<ledQueue, line, busy, dma, wanted>>

(* ws2812_write_buffer_dma: waits for the transfer before. *)
LedWrite ==
  /\ ledPc = "write" /\ busy = "free"
  /\ busy' = "sending"
  /\ dma' = [line |-> Min(update), next |-> 1]
  /\ update' = update \ {Min(update)}
  /\ ledPc' = "update"
  /\ UNCHANGED <<ledQueue, line, powered, shown, place, wanted>>

LedDone ==
  /\ ledPc = "update" /\ update = {}
  /\ ledPc' = "wait"
  /\ UNCHANGED <<ledQueue, line, powered, update, busy, dma, shown, place, wanted>>

(* The DMA sends a word of the buffer as it is now.  The LED that has had  *)
(* none yet takes it; without power nobody does.                           *)
DmaWord ==
  /\ busy = "sending"
  /\ LET l == dma.line
     IN  IF l \in powered /\ place[l] \in Leds
         THEN /\ shown' = [shown EXCEPT ![l][place[l]] = line[l][dma.next]]
              /\ place' = [place EXCEPT ![l] = @ + 1]
         ELSE UNCHANGED <<shown, place>>
  /\ dma' = [dma EXCEPT !.next = @ + 1]
  /\ busy' = IF dma.next = LedsPerLine THEN "complete" ELSE "sending"
  /\ UNCHANGED <<ledQueue, line, powered, ledPc, update, wanted>>

(* dma_complete_handler sets the alarm. *)
DmaComplete ==
  /\ busy = "complete"
  /\ busy' = "reset"
  /\ UNCHANGED <<ledQueue, line, powered, ledPc, update, dma, shown, place, wanted>>

(* reset_delay_complete: the LEDs of the line have latched and start over. *)
ResetDelay ==
  /\ busy = "reset"
  /\ busy' = "free"
  /\ place' = [place EXCEPT ![dma.line] = 1]
  /\ UNCHANGED <<ledQueue, line, powered, ledPc, update, dma, shown, wanted>>

LedNext ==
  \/ \E m \in LedMessages : LedSend(m)
  \/ LedTake \/ LedPower \/ LedWrite \/ LedDone
  \/ DmaWord \/ DmaComplete \/ ResetDelay

LedSpec == LedInit /\ [][LedNext]_ledVars

-----------------------------------------------------------------------------
LedTypeOK ==
  /\ ledQueue \in Seq(LedMessages) /\ Len(ledQueue) <= LedQueue
  /\ powered \subseteq 1..Lines /\ update \subseteq 1..Lines
  /\ ledPc \in {"wait", "update", "write"}
  /\ busy \in {"free", "sending", "complete", "reset"}
  /\ dma \in [line : 1..Lines, next : 1..LedsPerLine + 1]
  /\ place \in [1..Lines -> 1..LedsPerLine + 1]

(* When all messages are served and the last transfer is over, every LED   *)
(* shows the colour it was asked for last, although buffers change under   *)
(* transfers and lines are switched on and off in between                  *)
(* (led_process_set_color_batch, ws2812_write_buffer_dma).                 *)
LedsShowAsked ==
  ledPc = "wait" /\ ledQueue = << >> /\ busy = "free" => shown = wanted
=============================================================================
