------------------------------ MODULE UsbRing ------------------------------
(***************************************************************************)
(* custom_fdl/usbio.c: the FDL polls the USB controller.  A packet of the  *)
(* host waits in the FIFO of endpoint 2 until usb_check_int moves it to a  *)
(* ring, from which usb_channel_getchar takes single bytes; answers leave  *)
(* through usb_channel_write.  The controller runs beside the program, so  *)
(* a packet may arrive between any two of its accesses.                    *)
(*                                                                         *)
(* The host has one request under way at a time and reads the answer       *)
(* before it sends the next one (send_and_check); its operating system may *)
(* use the control endpoint at any time.                                   *)
(***************************************************************************)
EXTENDS Integers, Sequences

CONSTANTS
  BufSize,    \* USB_BUFSIZE
  MaxRead,    \* USB_MAXREAD
  Exchanges,  \* the sessions considered: the number of bytes of each request
              \* and of its answer
  MaxSetups   \* how many control requests are considered

RingAssumption ==
  /\ MaxRead \in Nat \ {0, 1}
  /\ BufSize \in Nat /\ BufSize > MaxRead
  /\ Exchanges \subseteq Seq([size : Nat \ {0}, answer : Nat \ {0}])
  /\ <<>> \notin Exchanges
  /\ MaxSetups \in Nat

VARIABLES
  latched,  \* whether INT_STS_ENDPx remembers events until it is cleared, or
            \* shows the state of the endpoint
  session,  \* the exchanges of this session
  req,      \* the one under way
  left,     \* bytes of it that the host has not sent
  fifo,     \* the packet in the FIFO of endpoint 2
  ready,    \* ENDP2_CTRL bit 28, the endpoint accepts a packet
  sts2,     \* INT_STS_ENDP2 bit 0 as a remembered event
  setup,    \* the control request waiting at endpoint 0
  sts0,     \* INT_STS_ENDP0 bit 8 as a remembered event
  setups,   \* number of control requests so far
  pc,       \* the step of usb_check_int, or outside of it
  wait,     \* argument of getchar
  mask,     \* INT_STS as it was read
  tmp,      \* buf of usb_int_endp2
  ring, rpos, wpos,  \* usb_buf
  out,      \* the bytes getchar has returned
  need,     \* bytes of the request that the FDL has not seen
  txq,      \* sizes of the packets usb_channel_write still has to send
  sent      \* a packet is in the FIFO of endpoint 3; its end was seen

hostVars == <<latched, session, req, left>>
ctlVars == <<setup, sts0, setups>>
epVars == <<fifo, ready, sts2>>
ringVars == <<ring, rpos, wpos>>
txVars == <<txq, sent>>
vars == <<hostVars, ctlVars, epVars, pc, wait, mask, tmp, ringVars, out, need, txVars>>

Least(a, b) == IF a < b THEN a ELSE b

\* usb_init_endp0, usb_init_endp2, usb_init_endp3: no event is remembered, endpoint
\* 2 accepts a packet, endpoint 3 has nothing to send.
InitEndp0 == setup = "none" /\ sts0 = FALSE
InitEndp2 == fifo = <<>> /\ ready = TRUE /\ sts2 = FALSE
InitEndp3 == sent = "no"

\* usb_channel_open: an empty ring and the endpoints.
Init ==
  /\ latched \in BOOLEAN
  /\ session \in Exchanges
  /\ req = 1
  /\ left = session[1].size
  /\ InitEndp0 /\ InitEndp2 /\ InitEndp3
  /\ setups = 0
  /\ pc = "app" /\ wait = TRUE /\ mask = {} /\ tmp = <<>>
  /\ ring = [i \in 0 .. BufSize - 1 |-> 0] /\ rpos = 0 /\ wpos = 0
  /\ out = <<>>
  /\ need = session[1].size
  /\ txq = <<>>

-----------------------------------------------------------------------------
(* The host and the controller.                                            *)

\* The number of bytes in the requests before the i-th.
Offset[i \in Nat \ {0}] == IF i = 1 THEN 0 ELSE Offset[i - 1] + session[i - 1].size

\* The next packet of the request; the bytes are numbered. The controller takes one into
\* an empty FIFO: the FDL may write the ready bit a second time, when a packet that came
\* while it handled an event is there already, and that is taken to do no harm.
HostSend ==
  /\ left > 0
  /\ ready
  /\ fifo = <<>>
  /\ LET n == Least(left, MaxRead)
     IN /\ fifo' = [i \in 1 .. n |-> Offset[req] + session[req].size - left + i]
        /\ left' = left - n
  /\ ready' = FALSE
  /\ sts2' = latched
  /\ UNCHANGED <<latched, session, req, ctlVars, pc, wait, mask, tmp, ringVars, out, need, txVars>>

\* A control request: for a descriptor, or one the FDL does not answer.
HostSetup ==
  /\ setup = "none"
  /\ setups < MaxSetups
  /\ setup' \in {"descriptor", "other"}
  /\ setups' = setups + 1
  /\ sts0' = latched
  /\ UNCHANGED <<hostVars, epVars, pc, wait, mask, tmp, ringVars, out, need, txVars>>

\* The host takes a packet of the answer.  A short one ends the transfer; with the
\* whole message received and the transfer ended, the next request begins.
HostTake ==
  /\ sent = "full"
  /\ left = 0
  /\ sent' = "taken"
  /\ IF Len(txq) = 1 /\ Head(txq) < MaxRead /\ req < Len(session)
     THEN req' = req + 1 /\ left' = session[req + 1].size
     ELSE UNCHANGED <<req, left>>
  /\ UNCHANGED <<latched, session, ctlVars, epVars, pc, wait, mask, tmp, ringVars, out, need, txq>>

-----------------------------------------------------------------------------
(* usb_check_int.                                                          *)

Endp2Pending == IF latched THEN sts2 ELSE fifo # <<>>
Endp0Pending == IF latched THEN sts0 ELSE setup # "none"

ReadMask_NoSetup == (IF Endp2Pending THEN {2} ELSE {}) \cup (IF sent = "taken" THEN {3} ELSE {})

\* INT_STS: the endpoints with an event.
ReadMask ==
  (IF Endp2Pending THEN {2} ELSE {}) \cup (IF Endp0Pending THEN {0} ELSE {})
  \cup (IF sent = "taken" THEN {3} ELSE {})

CheckInt ==
  /\ pc = "check"
  /\ mask' = ReadMask
  /\ pc' = IF 2 \in mask' THEN "recv" ELSE "endp0"
  /\ UNCHANGED <<hostVars, ctlVars, epVars, wait, tmp, ringVars, out, need, txVars>>

\* usb_int_endp2: usb_recv empties the FIFO and lets the next packet in.
Recv ==
  /\ pc = "recv"
  /\ IF Endp2Pending
     THEN tmp' = fifo /\ fifo' = <<>> /\ ready' = TRUE
     ELSE UNCHANGED <<tmp, fifo, ready>>
  /\ pc' = "store"
  /\ UNCHANGED <<hostVars, ctlVars, sts2, wait, mask, ringVars, out, need, txVars>>

\* The bytes go to the ring and the buffer is marked ready again.
Store ==
  /\ pc = "store"
  /\ ring' = [i \in DOMAIN ring |->
                LET k == (i - wpos) % BufSize IN IF k < Len(tmp) THEN tmp[k + 1] ELSE ring[i]]
  /\ wpos' = (wpos + Len(tmp)) % BufSize
  /\ tmp' = <<>>
  /\ ready' = TRUE
  /\ pc' = "clear"
  /\ UNCHANGED <<hostVars, ctlVars, fifo, sts2, wait, mask, rpos, out, need, txVars>>

\* INT_CLR_ENDP2 = 0x3fff, and usb_int_endp3.
ClearEndp2 ==
  /\ pc = "clear"
  /\ sts2' = FALSE
  /\ pc' = "endp0"
  /\ UNCHANGED <<hostVars, ctlVars, fifo, ready, wait, mask, tmp, ringVars, out, need, txVars>>

\* usb_int_endp0: usb_send_desc if a descriptor is asked for.
ServeEndp0 ==
  /\ pc = "endp0"
  /\ setup' = IF 0 \in mask /\ Endp0Pending THEN "none" ELSE setup
  /\ pc' = "clear0"
  /\ UNCHANGED <<hostVars, sts0, setups, epVars, wait, mask, tmp, ringVars, out, need, txVars>>

\* INT_CLR_ENDP0 = 0x3fff; usb_check_int returns.
ClearEndp0 ==
  /\ pc = "clear0"
  /\ sts0' = (sts0 /\ 0 \notin mask)
  /\ pc' = "checked"
  /\ UNCHANGED <<hostVars, setup, setups, epVars, wait, mask, tmp, ringVars, out, need, txVars>>

-----------------------------------------------------------------------------
(* usb_channel_getchar and usb_channel_write.                              *)

Room_Full == (rpos - wpos) % BufSize >= MaxRead \/ rpos = wpos

\* ((rpos - wpos - 1) & (USB_BUFSIZE - 1)) >= USB_MAXREAD
Room == (rpos - wpos - 1) % BufSize >= MaxRead

\* getchar(1) with an empty ring, or getchar(0) with room for a packet.
Getchar ==
  /\ pc = "app"
  /\ txq = <<>>
  /\ \/ rpos = wpos /\ wait' = TRUE
     \/ Room /\ wait' = FALSE
  /\ pc' = "check"
  /\ UNCHANGED <<hostVars, ctlVars, epVars, mask, tmp, ringVars, out, need, txVars>>

PacketSizes_Whole(n) ==
  [j \in 1 .. (n + MaxRead - 1) \div MaxRead |->
     IF j = (n + MaxRead - 1) \div MaxRead THEN n - (j - 1) * MaxRead ELSE MaxRead]

\* usb_channel_write: packets of USB_MAXREAD bytes and the rest; if that would be
\* a whole packet, it is sent in two halves.
PacketSizes(n) ==
  LET full == (n - 1) \div MaxRead
      rest == n - full * MaxRead
      tail == IF rest = MaxRead THEN <<rest \div 2, rest \div 2>> ELSE <<rest>>
  IN [j \in 1 .. full |-> MaxRead] \o tail

Advance_NoWrap(p) == p + 1

\* (p + 1) & (USB_BUFSIZE - 1)
Advance(p) == (p + 1) % BufSize

\* A byte of the ring is returned.  With the last one of a request the FDL writes
\* its answer.
TakeByte ==
  /\ \/ pc = "app" /\ txq = <<>>
     \/ pc = "checked"
  /\ rpos # wpos
  /\ out' = Append(out, ring[rpos])
  /\ rpos' = Advance(rpos)
  /\ pc' = "app"
  /\ IF need = 1
     THEN /\ txq' = PacketSizes(session[req].answer)
          /\ need' = IF req < Len(session) THEN session[req + 1].size ELSE 0
     ELSE need' = need - 1 /\ UNCHANGED txq
  /\ UNCHANGED <<hostVars, ctlVars, epVars, wait, mask, tmp, ring, wpos, sent>>

\* Still nothing: the loop of getchar(1) goes on, getchar(0) returns -1.
NoByte ==
  /\ pc = "checked"
  /\ rpos = wpos
  /\ pc' = IF wait THEN "check" ELSE "app"
  /\ UNCHANGED <<hostVars, ctlVars, epVars, wait, mask, tmp, ringVars, out, need, txVars>>

\* usb_send(4, ...): a packet is handed to endpoint 3.
UsbSend ==
  /\ pc = "app"
  /\ txq # <<>>
  /\ sent = "no"
  /\ sent' = "full"
  /\ UNCHANGED <<hostVars, ctlVars, epVars, pc, wait, mask, tmp, ringVars, out, need, txq>>

\* The end of usb_send: TRANSFER_END was seen and is cleared.
UsbSent ==
  /\ sent = "taken"
  /\ sent' = "no"
  /\ txq' = Tail(txq)
  /\ UNCHANGED <<hostVars, ctlVars, epVars, pc, wait, mask, tmp, ringVars, out, need>>

Device ==
  \/ CheckInt \/ Recv \/ Store \/ ClearEndp2 \/ ServeEndp0 \/ ClearEndp0
  \/ Getchar \/ TakeByte \/ NoByte \/ UsbSend \/ UsbSent

Next == HostSend \/ HostSetup \/ HostTake \/ Device

\* The FDL runs, and a host that waits for its controller gets its turn; control
\* requests need not come.
Spec == Init /\ [][Next]_vars /\ WF_vars(Device) /\ WF_vars(HostSend) /\ WF_vars(HostTake)
-----------------------------------------------------------------------------
(* Properties.                                                             *)

\* The packets fit into the FIFO and into buf, and the positions stay in the ring.
TypeOK ==
  /\ latched \in BOOLEAN
  /\ req \in 1 .. Len(session)
  /\ left \in Nat
  /\ Len(fifo) <= MaxRead /\ Len(tmp) <= MaxRead
  /\ ready \in BOOLEAN /\ sts2 \in BOOLEAN
  /\ setup \in {"none", "descriptor", "other"} /\ sts0 \in BOOLEAN
  /\ setups \in 0 .. MaxSetups
  /\ pc \in {"app", "check", "recv", "store", "clear", "endp0", "clear0", "checked"}
  /\ wait \in BOOLEAN
  /\ mask \subseteq {0, 2, 3}
  /\ rpos \in DOMAIN ring /\ wpos \in DOMAIN ring
  /\ need \in Nat
  /\ sent \in {"no", "full", "taken"}

\* The bytes in the ring, oldest first.
Unread == [i \in 1 .. (wpos - rpos) % BufSize |-> ring[(rpos + i - 1) % BufSize]]

\* The bytes the host has sent and getchar has not returned.
Queue == Unread \o tmp \o fifo

Answered == req = Len(session) /\ left = 0 /\ need = 0 /\ txq = <<>>

\* The controller shows the state of the endpoint, or requests have one packet. If the
\* status is an event that is remembered until it is cleared, INT_CLR_ENDP2 behind
\* usb_recv also clears the event of a packet that came in between.
NoEventLost == ~latched \/ \A i \in DOMAIN session : session[i].size <= MaxRead

\* A control request waits for an answer that is certain.
SetupWaits == ~latched /\ setup # "none"
=============================================================================
