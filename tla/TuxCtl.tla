------------------------------- MODULE TuxCtl -------------------------------
(***************************************************************************)
(* The mp2 Tux controller driver (tuxctl-ioctl.c) and the controller at    *)
(* the other end of its serial line.                                       *)
(*                                                                         *)
(* tuxctl_ioctl runs in the calling process with interrupts enabled;       *)
(* tuxctl_handle_packet runs when the line discipline receives a packet    *)
(* and may interrupt it between any two statements.  The flag spam keeps   *)
(* TUX_SET_LED from sending while an earlier LED packet is unanswered; an  *)
(* MTCP_ACK clears it, and an MTCP_RESET makes the driver resend the last  *)
(* LED packet from the static buffer.                                      *)
(*                                                                         *)
(* The line is FIFO and reliable in each direction.  The controller        *)
(* (firmware, not in the repository) answers the commands in AckedOps     *)
(* with MTCP_ACK, reports button changes once MTCP_BIOC_ON was received,   *)
(* and on a reset loses what it had not yet read and sends MTCP_RESET.     *)
(* An LED value is a model value; the four LED bytes buffer[2..5] are      *)
(* Cells, each holding the value it was computed from (ledmap and the      *)
(* decimal points are left out).                                          *)
(***************************************************************************)
EXTENDS Integers, Sequences, SequencesExt

CONSTANTS
    Values,     \* LED values passed to TUX_SET_LED
    Cells,      \* the LED bytes of the packet, buffer[2..5]
    Buttons,    \* button states the controller reports
    AckedOps,   \* commands the controller answers with MTCP_ACK
    MAX_CALLS,  \* ioctls in a behaviour
    MAX_RESETS, \* controller resets in a behaviour
    MAX_EVENTS  \* button changes in a behaviour

None == "none"
Blank == [c \in Cells |-> None]

\* A command packet: its opcode and, for MTCP_LED_SET, the LED bytes.
\* "NUL" is what the zeroed static buffer holds before any TUX_SET_LED.
Cmd(op) == [op |-> op, led |-> Blank]
Ops == {"BIOC_ON", "LED_USR", "LED_SET", "NUL"}

VARIABLES
    spam,     \* the driver's spam flag
    buffer,   \* the static LED packet buffer: [op, led]
    buttons,  \* b_static and c_static: the last reported button state
    call,     \* the TUX_SET_LED in progress in the calling process, if any
    tx,       \* bytes handed to the line discipline, not yet read by the controller
    rx,       \* packets sent by the controller, not yet handled by the driver
    dev,      \* the controller: button reporting on, LED display, buttons held
    sent,     \* ghost: the value of the last LED packet TUX_SET_LED sent
    calls, resets, events

vars == << spam, buffer, buttons, call, tx, rx, dev, sent, calls, resets, events >>

Idle == [state |-> "idle", v |-> None, next |-> 0]
CellOrder == SetToSeq(Cells)

-----------------------------------------------------------------------------
(* The driver: tuxctl_ioctl.                                               *)

\* TUX_INIT: MTCP_BIOC_ON then MTCP_LED_USR.
TuxInit ==
    /\ call = Idle /\ calls < MAX_CALLS
    /\ calls' = calls + 1
    /\ tx' = tx \o << Cmd("BIOC_ON"), Cmd("LED_USR") >>
    /\ UNCHANGED << spam, buffer, buttons, call, rx, dev, sent, resets, events >>

SetLedStartLateSpamCheck(v) ==
    /\ call = Idle /\ calls < MAX_CALLS
    /\ calls' = calls + 1
    /\ IF spam = 1
       THEN /\ buffer' = [op |-> "LED_SET", led |-> [c \in Cells |-> v]]
            /\ UNCHANGED call
       ELSE /\ buffer' = [buffer EXCEPT !.op = "LED_SET"]
            /\ call' = [state |-> "compose", v |-> v, next |-> 1]
    /\ UNCHANGED << spam, buttons, tx, rx, dev, sent, resets, events >>

\* TUX_SET_LED's entry: return at once while spam is set, otherwise write
\* the opcode and LED mask bytes, buffer[0] and buffer[1].
SetLedStart(v) ==
    /\ call = Idle /\ calls < MAX_CALLS
    /\ calls' = calls + 1
    /\ IF spam = 1
       THEN UNCHANGED << buffer, call >>
       ELSE /\ buffer' = [buffer EXCEPT !.op = "LED_SET"]
            /\ call' = [state |-> "compose", v |-> v, next |-> 1]
    /\ UNCHANGED << spam, buttons, tx, rx, dev, sent, resets, events >>

\* One of the stores buffer[2] .. buffer[5].
SetLedCompose ==
    LET i == call.next
    IN  /\ call.state = "compose"
        /\ buffer' = [buffer EXCEPT !.led[CellOrder[i]] = call.v]
        /\ call' = IF i = Len(CellOrder)
                   THEN [call EXCEPT !.state = "put", !.next = 0]
                   ELSE [call EXCEPT !.next = i + 1]
        /\ UNCHANGED << spam, buttons, tx, rx, dev, sent, calls, resets, events >>

\* tuxctl_ldisc_put(tty, buffer, LED_BUFF_SIZE).
SetLedPut ==
    /\ call.state = "put"
    /\ tx' = Append(tx, buffer)
    /\ sent' = call.v
    /\ call' = [call EXCEPT !.state = "lock"]
    /\ UNCHANGED << spam, buffer, buttons, rx, dev, calls, resets, events >>

\* spam = 1 under packlock, then return 0.
SetLedLock ==
    /\ call.state = "lock"
    /\ spam' = 1
    /\ call' = Idle
    /\ UNCHANGED << buffer, buttons, tx, rx, dev, sent, calls, resets, events >>

-----------------------------------------------------------------------------
(* The driver: tuxctl_handle_packet.                                       *)

ResetPacketsNoLed == << Cmd("BIOC_ON"), Cmd("LED_USR") >>

\* MTCP_RESET resends BIOC_ON, LED_USR and the buffer as it is now.
ResetPackets == << Cmd("BIOC_ON"), Cmd("LED_USR"), buffer >>

HandlePacketAckDecrements ==
    LET m == Head(rx)
    IN  /\ rx # << >>
        /\ rx' = Tail(rx)
        /\ buttons' = IF m.kind = "BIOC" THEN m.arg ELSE buttons
        /\ spam' = IF m.kind = "ACK" THEN spam - 1 ELSE spam
        /\ tx' = IF m.kind = "RESET" THEN tx \o ResetPackets ELSE tx
        /\ UNCHANGED << buffer, call, dev, sent, calls, resets, events >>

HandlePacket ==
    LET m == Head(rx)
    IN  /\ rx # << >>
        /\ rx' = Tail(rx)
        /\ buttons' = IF m.kind = "BIOC" THEN m.arg ELSE buttons
        /\ spam' = IF m.kind = "ACK" THEN 0 ELSE spam
        /\ tx' = IF m.kind = "RESET" THEN tx \o ResetPackets ELSE tx
        /\ UNCHANGED << buffer, call, dev, sent, calls, resets, events >>

-----------------------------------------------------------------------------
(* The controller (environment).                                           *)

DeviceRecv ==
    LET p == Head(tx)
    IN  /\ tx # << >>
        /\ tx' = Tail(tx)
        /\ dev' = [dev EXCEPT !.display = IF p.op = "LED_SET" THEN p.led ELSE @,
                              !.bioc = @ \/ p.op = "BIOC_ON"]
        /\ rx' = IF p.op \in AckedOps
                 THEN Append(rx, [kind |-> "ACK", arg |-> p.op])
                 ELSE rx
        /\ UNCHANGED << spam, buffer, buttons, call, sent, calls, resets, events >>

DevicePress(b) ==
    /\ events < MAX_EVENTS /\ b # dev.pressed
    /\ events' = events + 1
    /\ dev' = [dev EXCEPT !.pressed = b]
    /\ rx' = IF dev.bioc THEN Append(rx, [kind |-> "BIOC", arg |-> b]) ELSE rx
    /\ UNCHANGED << spam, buffer, buttons, call, tx, sent, calls, resets >>

\* A reset (reconnection): unread bytes are lost, the display goes blank,
\* and the controller announces MTCP_RESET.
DeviceReset ==
    /\ resets < MAX_RESETS
    /\ resets' = resets + 1
    /\ tx' = << >>
    /\ dev' = [dev EXCEPT !.display = Blank, !.bioc = FALSE]
    /\ rx' = Append(rx, [kind |-> "RESET", arg |-> None])
    /\ UNCHANGED << spam, buffer, buttons, call, sent, calls, events >>

-----------------------------------------------------------------------------
Init ==
    /\ spam = 0
    /\ buffer = Cmd("NUL")
    /\ buttons = None
    /\ call = Idle
    /\ tx = << >>
    /\ rx = << >>
    /\ dev = [bioc |-> FALSE, display |-> Blank, pressed |-> None]
    /\ sent = None
    /\ calls = 0 /\ resets = 0 /\ events = 0

Next ==
    \/ TuxInit
    \/ \E v \in Values : SetLedStart(v)
    \/ SetLedCompose
    \/ SetLedPut
    \/ SetLedLock
    \/ HandlePacket
    \/ DeviceRecv
    \/ \E b \in Buttons : DevicePress(b)
    \/ DeviceReset

\* The ioctl runs to completion, the line discipline hands every packet to
\* the driver, and the controller reads every byte sent to it.  Users,
\* buttons and resets are under no obligation to happen.
Fairness ==
    /\ WF_vars(SetLedCompose) /\ WF_vars(SetLedPut) /\ WF_vars(SetLedLock)
    /\ WF_vars(HandlePacket) /\ WF_vars(DeviceRecv)

Spec == Init /\ [][Next]_vars /\ Fairness

-----------------------------------------------------------------------------
(* Properties.                                                             *)

Packets == [op : Ops, led : [Cells -> Values \cup {None}]]

TypeOK ==
    /\ spam \in {0, 1}
    /\ buffer \in Packets
    /\ call.state \in {"idle", "compose", "put", "lock"}
    /\ tx \in Seq(Packets)
    /\ dev.display \in [Cells -> Values \cup {None}]

Shows(v) == dev.display = [c \in Cells |-> v]

\* Whatever the interleaving of ACKs, resets and dropped SET_LED calls, the
\* display comes to show the last LED value TUX_SET_LED sent, the
\* MTCP_RESET handler's resend from buffer restoring it after a reset.
DisplayConverges ==
    \A v \in Values : (sent = v) ~> (Shows(v) \/ sent # v)

\* No ioctl is in progress and nothing is on the line in either direction.
Quiet == call = Idle /\ tx = << >> /\ rx = << >>

(* The LED buffer is stored a byte at a time without the lock, and the   *)
(* MTCP_RESET handler may resend it half written (line 239 against 81).  *)
(* Whenever the driver and the line are quiet, the display shows exactly *)
(* the LED bytes of buffer: a torn resend is always overtaken by the     *)
(* ioctl's own packet, and a dropped TUX_SET_LED leaves buffer alone.     *)
QuietDisplayMatchesBuffer == Quiet => dev.display = buffer.led

IsLed(p) == p.op = "LED_SET"
IsLedAck(m) == m.kind = "ACK" /\ m.arg = "LED_SET"
LedsInFlight == Len(SelectSeq(tx, IsLed)) + Len(SelectSeq(rx, IsLedAck))

\* The spam flag's purpose (tuxctl-ioctl.c:40, :194): TUX_SET_LED sends a
\* packet only when no earlier LED packet is still unanswered.
NoLedSpam == call.state = "put" => LedsInFlight = 0

\* Once TUX_SET_LED has set spam, an ACK eventually clears it, so the LEDs
\* are not frozen for good.
SpamEventuallyCleared == (spam = 1) ~> (spam = 0)
=============================================================================
