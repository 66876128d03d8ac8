--------------------------- MODULE FrameReceiver ---------------------------
(***************************************************************************)
(* How a picture of the CPU reaches the screen.  DMA fills one of the two  *)
(* buffers of lib/drivers/spi_get_frame/spi_get_frame.c; its interrupt     *)
(* tells the application (applications/main/cpu/cpu_app.c) which one is    *)
(* full, and the interrupt of the line that the CPU raises after a frame   *)
(* (gpio_cpu_spi_miso) moves the DMA to the other one.  The pixels are not *)
(* copied: the model of the view keeps the address, and the gui draws from *)
(* it.  The CPU leaves time for the interrupts between two frames.         *)
(***************************************************************************)
EXTENDS Naturals, Sequences

CONSTANTS
  FrameQueue,  \* cpu_app_MESSAGE_QUEUE_SIZE
  NoFrame      \* frame.data of a new model

ASSUME FrameAssumption == FrameQueue \in Nat \ {0} /\ NoFrame \notin Nat

VARIABLES
  buffers,     \* frame_buffers: what is in each, new, part or whole
  current,     \* current_frame
  channel,     \* the DMA: armed, filling, full (its interrupt is due), idle
  sync,        \* the line of the CPU: low, rising (its interrupt is due), high
  messages,    \* app_queue: buffers reported, or a key's request
  shownFrame,  \* frame.data of the view's model
  short,       \* the CPU broke off a frame since the last one reported
  overrun      \* furi_check found the queue full: the program ends

frameVars == <<buffers, current, channel, sync, messages, shownFrame, short, overrun>>

CpuAppMessages == [type : {"NewFrame"}, data : 0..1] \union [type : {"Request"}, data : {NoFrame}]

FrameInit ==
  /\ buffers = [b \in 0..1 |-> "new"] /\ current = 0
  /\ channel = "armed" /\ sync = "high"
  /\ messages = << >> /\ shownFrame = NoFrame
  /\ short = FALSE /\ overrun = FALSE

(***************************************************************************)
(* The CPU sends a frame, or a part of it.                                 *)
(***************************************************************************)
FrameBegins ==
  /\ ~overrun /\ sync = "high" /\ channel = "armed"
  /\ sync' = "low"
  /\ channel' = "filling"
  /\ buffers' = [buffers EXCEPT ![current] = "part"]
  /\ UNCHANGED <<current, messages, shownFrame, short, overrun>>

(* The last word: the transfer is complete. *)
FrameFilled ==
  /\ ~overrun /\ channel = "filling" /\ sync = "low"
  /\ buffers' = [buffers EXCEPT ![current] = "whole"]
  /\ channel' = "full"
  /\ UNCHANGED <<current, sync, messages, shownFrame, short, overrun>>

FrameEnds ==
  /\ ~overrun /\ sync = "low"
  /\ sync' = "rising"
  /\ UNCHANGED <<buffers, current, channel, messages, shownFrame, short, overrun>>

(***************************************************************************)
(* The interrupts.  Both have the priority the SDK gives them: when both   *)
(* are due, that of the DMA, of the lower number, runs first.              *)
(***************************************************************************)
(* spi_get_frame_rx_callback and cpu_app_spi_get_frame_isr. *)
FrameReceived ==
  /\ ~overrun /\ channel = "full"
  /\ IF Len(messages) < FrameQueue
     THEN /\ messages' = Append(messages, [type |-> "NewFrame", data |-> current])
          /\ short' = FALSE
          /\ UNCHANGED overrun
     ELSE overrun' = TRUE /\ UNCHANGED <<messages, short>>
  /\ channel' = "idle"
  /\ UNCHANGED <<buffers, current, sync, shownFrame>>

(* Mutant: the interrupt of the line is served first. *)
NextBufferFirst ==
  /\ ~overrun /\ sync = "rising"
  /\ current' = (current + 1) % 2
  /\ channel' = IF channel = "full" THEN "full" ELSE "armed"
  /\ sync' = "high"
  /\ short' = (short \/ channel = "filling")
  /\ UNCHANGED <<buffers, messages, shownFrame, overrun>>

(* spi_get_frame_callback: the other buffer, whatever became of this one.  *)
NextBuffer ==
  /\ ~overrun /\ sync = "rising" /\ channel # "full"
  /\ current' = (current + 1) % 2
  /\ channel' = "armed"
  /\ sync' = "high"
  /\ short' = (short \/ channel = "filling")
  /\ UNCHANGED <<buffers, messages, shownFrame, overrun>>

(***************************************************************************)
(* The application.                                                        *)
(***************************************************************************)
(* cpu_app_send_message (Start, Stop, Reset) in the gui task, which waits  *)
(* two ticks for room.                                                     *)
FrameRequest ==
  /\ ~overrun
  /\ IF Len(messages) < FrameQueue
     THEN messages' = Append(messages, [type |-> "Request", data |-> NoFrame]) /\ UNCHANGED overrun
     ELSE overrun' = TRUE /\ UNCHANGED messages
  /\ UNCHANGED <<buffers, current, channel, sync, shownFrame, short>>

(* cpu_app_message_logic; a request keeps the thread away for 60 ms. *)
FrameTaken ==
  /\ ~overrun /\ messages # << >>
  /\ messages' = Tail(messages)
  /\ shownFrame' = IF Head(messages).type = "NewFrame" THEN Head(messages).data ELSE shownFrame
  /\ UNCHANGED <<buffers, current, channel, sync, short, overrun>>

(* The program starts again (furi_crash). *)
FrameRestart ==
  /\ overrun
  /\ buffers' = [b \in 0..1 |-> "new"] /\ current' = 0
  /\ channel' = "armed" /\ sync' = "high"
  /\ messages' = << >> /\ shownFrame' = NoFrame
  /\ short' = FALSE /\ overrun' = FALSE

FrameNext ==
  \/ FrameBegins \/ FrameFilled \/ FrameEnds
  \/ FrameReceived \/ NextBuffer
  \/ FrameRequest \/ FrameTaken \/ FrameRestart

FrameSpec == FrameInit /\ [][FrameNext]_frameVars

-----------------------------------------------------------------------------
FrameTypeOK ==
  /\ buffers \in [0..1 -> {"new", "part", "whole"}] /\ current \in 0..1
  /\ channel \in {"armed", "filling", "full", "idle"}
  /\ sync \in {"low", "rising", "high"}
  /\ messages \in Seq(CpuAppMessages) /\ Len(messages) <= FrameQueue
  /\ shownFrame \in {0, 1, NoFrame} /\ short \in BOOLEAN /\ overrun \in BOOLEAN

(* Buffer b is the one that was reported last: it is on the screen when    *)
(* the application has caught up.                                          *)
Frames == {i \in DOMAIN messages : messages[i].type = "NewFrame"}

Newest(b) ==
  \/ \E i \in Frames : messages[i].data = b /\ \A j \in Frames : j <= i
  \/ Frames = {} /\ shownFrame = b

(* The newest picture is whole for as long as it is the newest: neither    *)
(* the DMA nor an interrupt that comes late puts a part of the next one    *)
(* into it, although nothing is copied and nobody waits for the screen     *)
(* (spi_get_frame_callback, cpu_app_model_new_frame).  A frame that the    *)
(* CPU breaks off is the exception, until the next one is reported: it     *)
(* leaves the DMA in the buffer on the screen.                             *)
NewestFrameWhole ==
  ~short => \A b \in 0..1 : Newest(b) => buffers[b] = "whole"
=============================================================================
