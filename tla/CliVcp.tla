------------------------------- MODULE CliVcp -------------------------------
(***************************************************************************)
(* The command line over USB (applications/services/cli/cli_vcp.c): a      *)
(* worker thread between the USB device and two stream buffers, and the    *)
(* shell (cli.c) at the other end of the buffers.  The worker learns of    *)
(* everything by thread flags, which do not count and keep no order.       *)
(*                                                                         *)
(* The host and the USB stack are external: a fifo of one packet each way, *)
(* and a transfer to the host that, when it filled a packet and nothing    *)
(* follows, is completed by a transfer of length zero of its own.          *)
(*                                                                         *)
(* What goes through is counted in pieces of one packet at most; SOH and   *)
(* EOT, which the worker puts among the typed bytes, are pieces as well.   *)
(***************************************************************************)
EXTENDS Naturals

CONSTANTS
  Stream,     \* pieces that VCP_RX_BUF_SIZE and VCP_TX_BUF_SIZE hold
  MaxMissed   \* nobody types while missed_rx is at this bound

ASSUME CliAssumption == Stream \in Nat /\ MaxMissed \in Nat

VARIABLES
  flags,   \* thread flags of the worker
  vcp,     \* the worker: where it is, the flags it took, its variables
  rx, tx,  \* pieces in rx_stream and in tx_stream
  shell,   \* where the shell is
  usb,     \* the device: terminal open, fifos, transfer to the host
  faults   \* what has happened that the worker does not recover from

cliVars == <<flags, vcp, rx, tx, shell, usb, faults>>

WorkerEvt == {"Connect", "Disconnect", "StreamRx", "Rx", "StreamTx", "Tx"}

(* Mutant: the Disconnect of a round is served before its Connect. *)
SectionSwapped == <<[at |-> "disconnect", looks |-> {"Disconnect"}],
                    [at |-> "connect",    looks |-> {"Connect"}],
                    [at |-> "data",       looks |-> {"StreamRx", "Rx", "StreamTx", "Tx"}]>>

(* The parts of the worker's round in their order, and the flags each of   *)
(* them looks at.                                                          *)
Section == <<[at |-> "connect",    looks |-> {"Connect"}],
             [at |-> "disconnect", looks |-> {"Disconnect"}],
             [at |-> "data",       looks |-> {"StreamRx", "Rx", "StreamTx", "Tx"}]>>

(* The worker goes on to the next part that has a flag to look at. *)
GoOn(w, got) ==
  LET due == {i \in 1 .. 3 : Section[i].looks \intersect got # {}} IN
  [w EXCEPT !.got = got,
            !.at  = IF due = {} THEN "wait"
                    ELSE Section[CHOOSE i \in due : \A j \in due : i =< j].at]

CliInit ==
  /\ flags = {}
  /\ vcp = [at |-> "wait", got |-> {}, connected |-> FALSE, idle |-> TRUE,
            missed |-> 0, last |-> "short"]
  /\ rx = 0 /\ tx = 0
  /\ shell = "read"
  /\ usb = [dtr |-> FALSE, in |-> 0, fifo |-> "none", ep |-> "none"]
  /\ faults = {}

(***************************************************************************)
(* The host.  A packet on its way to it is full, short or empty.           *)
(***************************************************************************)
(* A terminal is opened or closed: vcp_on_cdc_control_line. *)
HostLine ==
  /\ usb' = [usb EXCEPT !.dtr = ~@]
  /\ flags' = flags \union {IF usb.dtr THEN "Disconnect" ELSE "Connect"}
  /\ UNCHANGED <<vcp, rx, tx, shell, faults>>

(* Something is typed; the device takes no more before it was read. *)
HostTypes ==
  /\ usb.dtr /\ usb.in = 0
  /\ "Rx" \notin flags \union vcp.got /\ vcp.missed < MaxMissed
  /\ usb' = [usb EXCEPT !.in = 1]
  /\ flags' = flags \union {"Rx"}
  /\ UNCHANGED <<vcp, rx, tx, shell, faults>>

(* A transfer is complete: vcp_on_cdc_tx_complete.  The end of an empty    *)
(* one is lost on the worker when it has not looked at the one before.     *)
HostTakes ==
  /\ usb.dtr /\ usb.ep # "none"
  /\ flags' = flags \union {"Tx"}
  /\ usb' = [usb EXCEPT !.fifo = "none",
                        !.ep = IF usb.fifo = "none" /\ usb.ep = "full" THEN "empty" ELSE usb.fifo]
  /\ faults' = IF usb.ep = "empty" /\ "Tx" \in flags THEN faults \union {"merged"} ELSE faults
  /\ UNCHANGED <<vcp, rx, tx, shell>>

(* tud_suspend_cb: no host, and for the worker no terminal.  A transfer    *)
(* that was on its way never completes.                                    *)
Unplug ==
  /\ usb' = [dtr |-> FALSE, in |-> 0, fifo |-> "none", ep |-> "none"]
  /\ flags' = flags \union {"Disconnect"}
  /\ faults' = IF usb.ep # "none" THEN faults \union {"unplugged"} ELSE faults
  /\ UNCHANGED <<vcp, rx, tx, shell>>

(***************************************************************************)
(* The worker.                                                             *)
(***************************************************************************)
(* The flags are taken, those the round will not look at left out: room in *)
(* the receive stream matters when something was missed, new data to send  *)
(* when nothing is on its way.                                             *)
VcpWait ==
  /\ vcp.at = "wait" /\ flags # {}
  /\ flags' = {}
  /\ vcp' = GoOn(vcp, flags \ ((IF vcp.missed = 0 THEN {"StreamRx"} ELSE {})
                             \union (IF vcp.idle THEN {} ELSE {"StreamTx"})))
  /\ UNCHANGED <<rx, tx, shell, usb, faults>>

(* VCP session opened: SOH for the shell, however long it takes. *)
VcpConnect ==
  /\ vcp.at = "connect"
  /\ vcp' = IF vcp.connected THEN GoOn(vcp, vcp.got \ {"Connect"})
            ELSE [vcp EXCEPT !.connected = TRUE, !.at = "soh"]
  /\ faults' = IF ~vcp.connected /\ rx = Stream THEN faults \union {"full"} ELSE faults
  /\ UNCHANGED <<flags, rx, tx, shell, usb>>

(* VCP session closed: room for a shell that waits in the middle of its    *)
(* output, and EOT for it.                                                 *)
VcpDisconnect ==
  /\ vcp.at = "disconnect"
  /\ vcp' = IF vcp.connected THEN [vcp EXCEPT !.connected = FALSE, !.at = "eot"]
            ELSE GoOn(vcp, vcp.got \ {"Disconnect"})
  /\ tx' = IF vcp.connected /\ tx > 0 THEN tx - 1 ELSE tx
  /\ UNCHANGED <<flags, rx, shell, usb, faults>>

VcpMark ==
  /\ vcp.at \in {"soh", "eot"} /\ rx < Stream
  /\ rx' = rx + 1
  /\ vcp' = GoOn(vcp, vcp.got \ {IF vcp.at = "soh" THEN "Connect" ELSE "Disconnect"})
  /\ UNCHANGED <<flags, tx, shell, usb, faults>>

(* Mutant: a packet is taken without asking for room. *)
RxUnlimited == [take |-> IF "Rx" \in vcp.got THEN usb.in ELSE 0, missed |-> vcp.missed]

(* Mutant: what was missed is not looked for when the shell has read. *)
RxForgets ==
  LET room == rx < Stream
      look == "Rx" \in vcp.got IN
  [take |-> IF look /\ room THEN usb.in ELSE 0, missed |-> vcp.missed]

(* New data received, or room for what had to stay in the device: what is  *)
(* taken now, and missed_rx.  Only the worker puts into the stream: there  *)
(* is room for the packet.                                                 *)
Rx ==
  LET room  == rx < Stream
      retry == "StreamRx" \in vcp.got /\ vcp.missed > 0 /\ room
      look  == "Rx" \in vcp.got \/ retry IN
  [take   |-> IF look /\ room THEN usb.in ELSE 0,
   missed |-> (vcp.missed - (IF retry THEN 1 ELSE 0)) + (IF look /\ ~room THEN 1 ELSE 0)]

(* The data of both directions.  To be sent is new data or, at the end of  *)
(* a transfer, more of it.  The packet of length zero that shall follow a  *)
(* full one is not sent: furi_hal_cdc_send does nothing with a length of   *)
(* zero.                                                                   *)
VcpData ==
  LET w    == [vcp EXCEPT !.missed = Rx.missed]
      send == "Tx" \in vcp.got \/ ("StreamTx" \in vcp.got /\ vcp.idle) IN
  /\ vcp.at = "data"
  /\ rx' = rx + Rx.take
  /\ usb' = [usb EXCEPT !.in = @ - Rx.take]
  /\ tx' = IF send /\ tx > 0 THEN tx - 1 ELSE tx
  /\ \/ send /\ tx > 0 /\ \E size \in {"full", "short"} :
           vcp' = [w EXCEPT !.idle = FALSE, !.last = size, !.at = "send", !.got = {}]
     \/ send /\ tx = 0 /\ vcp' = GoOn([w EXCEPT !.idle = (@ \/ vcp.last = "short"), !.last = "short"], {})
     \/ ~send /\ vcp' = GoOn(w, {})
  /\ UNCHANGED <<flags, shell, faults>>

(* furi_hal_cdc_send fills the fifo, from where a free endpoint takes it   *)
(* at once.  Without a host (which means without a terminal) the data is   *)
(* dropped, and no end of a transfer will be reported.                     *)
VcpSend ==
  /\ vcp.at = "send"
  /\ \/ /\ usb.fifo = "none"
        /\ usb' = IF usb.ep = "none" THEN [usb EXCEPT !.ep = vcp.last]
                                     ELSE [usb EXCEPT !.fifo = vcp.last]
        /\ UNCHANGED faults
     \/ /\ ~usb.dtr
        /\ faults' = faults \union {"unplugged"}
        /\ UNCHANGED usb
  /\ vcp' = GoOn(vcp, {})
  /\ UNCHANGED <<flags, rx, tx, shell>>

(* FURI_HAL_USB_CDC_TIMEOUT_US without room in the fifo: the data is       *)
(* dropped, and the worker takes it for sent.                              *)
VcpSendTimeout ==
  /\ vcp.at = "send" /\ usb.fifo # "none"
  /\ faults' = faults \union {"dropped"}
  /\ vcp' = GoOn(vcp, {})
  /\ UNCHANGED <<flags, rx, tx, shell, usb>>

VcpNext ==
  \/ VcpWait \/ VcpConnect \/ VcpDisconnect \/ VcpMark
  \/ VcpData \/ VcpSend \/ VcpSendTimeout

(***************************************************************************)
(* The shell reads and writes what it has to say about it.                 *)
(***************************************************************************)
ShellRead ==
  /\ shell = "read" /\ rx > 0
  /\ rx' = rx - 1
  /\ flags' = flags \union {"StreamRx"}
  /\ shell' \in {"read", "write"}
  /\ UNCHANGED <<vcp, tx, usb, faults>>

(* cli_vcp_tx goes on only while there is a session. *)
ShellCheck ==
  /\ shell = "write"
  /\ shell' \in (IF vcp.connected THEN {"read", "put"} ELSE {"read"})
  /\ UNCHANGED <<flags, vcp, rx, tx, usb, faults>>

ShellPut ==
  /\ shell = "put" /\ tx < Stream
  /\ tx' = tx + 1
  /\ flags' = flags \union {"StreamTx"}
  /\ shell' = "write"
  /\ UNCHANGED <<vcp, rx, usb, faults>>

ShellNext == ShellRead \/ ShellCheck \/ ShellPut

(* The model follows the code up to the first fault. *)
CliNext ==
  /\ faults = {}
  /\ \/ VcpNext \/ ShellNext
     \/ HostLine \/ HostTypes \/ HostTakes \/ Unplug

(* The threads go on, and an open terminal takes what is sent to it. *)
CliSpec ==
  /\ CliInit /\ [][CliNext]_cliVars
  /\ WF_cliVars(faults = {} /\ VcpNext)
  /\ WF_cliVars(faults = {} /\ ShellNext)
  /\ WF_cliVars(faults = {} /\ HostTakes)

(***************************************************************************)
(* Correctness.                                                            *)
(***************************************************************************)
CliTypeOK ==
  /\ flags \subseteq WorkerEvt
  /\ vcp \in [at : {"wait", "connect", "soh", "disconnect", "eot", "data", "send"},
              got : SUBSET WorkerEvt, connected : BOOLEAN, idle : BOOLEAN,
              missed : 0 .. MaxMissed, last : {"full", "short"}]
  /\ rx \in 0 .. Stream /\ tx \in 0 .. Stream
  /\ shell \in {"read", "write", "put"}
  /\ usb \in [dtr : BOOLEAN, in : {0, 1}, fifo : {"none", "full", "short"},
              ep : {"none", "full", "short", "empty"}]
  /\ faults \subseteq {"merged", "unplugged", "dropped", "full"}

Stuck == faults # {}

(* Four things can leave the worker waiting for ever: a session opened     *)
(* while the receive stream is full, a transfer the unplugged cable        *)
(* swallowed, data dropped for want of room, and the end of an empty       *)
(* transfer that fell together with the end of the one before.  Without    *)
(* them the shell always gets rid of what it writes, whether the terminal  *)
(* takes it, is closed or is opened again; nor does it wait to read while  *)
(* what was typed stays in the device, where it was left because the       *)
(* receive stream was full.                                                *)
StreamsGoOn ==
  /\ []<>(shell # "put" \/ Stuck)
  /\ []<>(shell # "read" \/ usb.in = 0 \/ ~usb.dtr \/ Stuck)

(* A closed terminal ends the session, though a Connect may be served in   *)
(* the same round as the Disconnect that came before or after it.          *)
CloseNoticed == []<>(~vcp.connected \/ usb.dtr \/ Stuck)
=============================================================================
