----------------------------- MODULE UARTFrame -----------------------------
(***************************************************************************)
(* The clock cycles and bits of the serial line, the process ff0 that all  *)
(* four controllers share: the controller waits for a zero on RX, samples  *)
(* the data bits once per UART cycle of UART_WRAP + 1 clock cycles, acts   *)
(* on the byte, and sends the reply bit by bit on TX.  What is done with a *)
(* byte is left to UARTController and its extensions: here a byte may ask  *)
(* for a reply or not.  The host at the other end of the line sends frames *)
(* whose bits all last pace clock cycles, and listens to TX.               *)
(*                                                                         *)
(* A step is one clock edge.  The code has 8 data bits in a frame.         *)
(***************************************************************************)
EXTENDS Integers, Sequences

CONSTANTS
  UART_WRAP,   \* last value of clk_cycle (499 in the code)
  DataBits,    \* data bits of a frame (8 in the code)
  Hosts,       \* the hosts that may be at the other end of the line, with
               \*   pace: clock cycles their bits last (500 without skew)
               \*   stop: stop bits of their frames, 1 in 8N1, 0 in 8N0
               \*   gap: least number of idle bit times between two frames
               \*   bytes: what they send, functions 0 .. DataBits-1 -> {0, 1}
  Reply,       \* the bytes of a reply, a sequence of such functions
  None

ASSUME FrameAssumption ==
  /\ UART_WRAP \in Nat \ {0}
  /\ DataBits \in Nat /\ DataBits >= 2
  /\ \A h \in Hosts : h.pace \in Nat \ {0} /\ h.stop \in Nat /\ h.gap \in Nat
  /\ Len(Reply) > 0

\* The values of bit_num beyond the data bits: 8, 9 and 10 in the code.
STOP  == DataBits
START == DataBits + 1
BURN  == DataBits + 2

\* Everything a host may send.
Bytes == UNION {h.bytes : h \in Hosts}

\* What RX reads on a quiet line.  No command and no hex digit, so ignored.
Noise == [i \in 0 .. DataBits - 1 |-> 1]

ASSUME BytesAssumption ==
  /\ Reply \in Seq([0 .. DataBits - 1 -> {0, 1}])
  /\ Bytes \subseteq [0 .. DataBits - 1 -> {0, 1}] \ {Noise}
  /\ None \notin Bytes

VARIABLES
  peer,      \* the host at the other end
  state, clk_cycle, bit_num, frame_data, local_TX,
  data_ofs,  \* index of the reply byte being sent, from 0
  slot,      \* the bit the host is sending: 0 start, then data and stop; -1 idle
  timer,     \* clock cycles the host has been in this slot, up to what matters
  out,       \* the byte the host is sending or sent last
  wire,      \* the host's byte that the controller has not got yet, or None
  arrived,   \* the last byte the controller got, and a bit that flips with each
  ear,       \* clock cycles since the start bit of the byte the host hears; -1 idle
  heard,     \* the data bits of it
  replies,   \* bytes of the reply heard so far
  waiting,   \* the host waits for a reply
  garbled    \* the host heard something that is not the reply

chip == <<state, clk_cycle, bit_num, frame_data, local_TX, data_ofs>>
host == <<peer, slot, timer, out, wire, arrived, ear, heard, replies, waiting, garbled>>
vars == <<chip, host>>

pace == peer.pace

Rest == peer.gap * pace   \* clock cycles the host leaves idle

Init ==
  /\ peer \in Hosts
  /\ state = "IDLE" /\ clk_cycle = 0 /\ bit_num = 0
  /\ frame_data = [i \in 0 .. DataBits - 1 |-> 0]
  /\ local_TX = 1 /\ data_ofs = 0
  /\ slot = -1 /\ timer = Rest /\ out \in peer.bytes
  /\ wire = None /\ arrived = <<None, 0>>
  /\ ear = -1 /\ heard = << >> /\ replies = 0
  /\ waiting = FALSE /\ garbled = FALSE

\* The line into the controller: a start bit, the data bits, stop bits.
RX == IF slot \in {-1} \cup (DataBits + 1 .. DataBits + peer.stop) THEN 1
      ELSE IF slot = 0 THEN 0 ELSE out[slot - 1]

-----------------------------------------------------------------------------
(* The controller.  Each action is one branch of ff0. *)

UARTCycle == clk_cycle = UART_WRAP /\ clk_cycle' = 0

\* Mutants of Idle: no half cycle into the start bit; no cycle burnt on it.
IdleWhole ==
  /\ state = "IDLE"
  /\ IF RX = 0
       THEN state' = "READING" /\ bit_num' = BURN /\ clk_cycle' = 0
       ELSE /\ clk_cycle' = IF clk_cycle = UART_WRAP THEN 0 ELSE clk_cycle + 1
            /\ UNCHANGED <<state, bit_num>>
  /\ UNCHANGED <<frame_data, local_TX, data_ofs>>

IdleNoBurn ==
  /\ state = "IDLE"
  /\ IF RX = 0
       THEN state' = "READING" /\ bit_num' = 0 /\ clk_cycle' = UART_WRAP \div 2
       ELSE /\ clk_cycle' = IF clk_cycle = UART_WRAP THEN 0 ELSE clk_cycle + 1
            /\ UNCHANGED <<state, bit_num>>
  /\ UNCHANGED <<frame_data, local_TX, data_ofs>>

Idle ==
  /\ state = "IDLE"
  /\ IF RX = 0
       THEN state' = "READING" /\ bit_num' = BURN /\ clk_cycle' = UART_WRAP \div 2
       ELSE /\ clk_cycle' = IF clk_cycle = UART_WRAP THEN 0 ELSE clk_cycle + 1
            /\ UNCHANGED <<state, bit_num>>
  /\ UNCHANGED <<frame_data, local_TX, data_ofs>>

Count ==
  /\ state # "IDLE" /\ clk_cycle # UART_WRAP
  /\ clk_cycle' = clk_cycle + 1
  /\ UNCHANGED <<state, bit_num, frame_data, local_TX, data_ofs>>

BurnCycle ==
  /\ state = "READING" /\ bit_num = BURN /\ UARTCycle
  /\ bit_num' = 0
  /\ UNCHANGED <<state, frame_data, local_TX, data_ofs>>

SampleBit ==
  /\ state = "READING" /\ bit_num < DataBits - 1 /\ UARTCycle
  /\ frame_data' = [frame_data EXCEPT ![bit_num] = RX]
  /\ bit_num' = bit_num + 1
  /\ UNCHANGED <<state, local_TX, data_ofs>>

\* The byte with the bit that is sampled now.
Byte == [frame_data EXCEPT ![DataBits - 1] = RX]

LastBit == state = "READING" /\ bit_num = DataBits - 1 /\ UARTCycle

\* A byte without a reply (bit_num has no meaning until it is set again).
TakeByte ==
  /\ LastBit
  /\ state' = "IDLE"
  /\ frame_data' = Byte
  /\ bit_num' = 0
  /\ UNCHANGED <<local_TX, data_ofs>>

\* A byte that starts a reply.
TakeRequest ==
  /\ LastBit /\ Byte # Noise
  /\ state' = "WRITING"
  /\ local_TX' = 0
  /\ bit_num' = 0
  /\ data_ofs' = 0
  /\ frame_data' = Reply[1]

SendStart ==
  /\ state = "WRITING" /\ bit_num = START /\ UARTCycle
  /\ local_TX' = 0
  /\ bit_num' = 0
  /\ UNCHANGED <<state, frame_data, data_ofs>>

SendBit ==
  /\ state = "WRITING" /\ bit_num < STOP /\ UARTCycle
  /\ local_TX' = frame_data[bit_num]
  /\ bit_num' = bit_num + 1
  /\ UNCHANGED <<state, frame_data, data_ofs>>

\* Mutants of SendStop: the next byte is not fetched; the reply ends too soon.
SendStopStale ==
  /\ state = "WRITING" /\ bit_num = STOP /\ UARTCycle
  /\ local_TX' = 1
  /\ bit_num' = START
  /\ UNCHANGED frame_data
  /\ IF data_ofs = Len(Reply) - 1
       THEN state' = "IDLE" /\ data_ofs' = 0
       ELSE data_ofs' = data_ofs + 1 /\ UNCHANGED state

SendStopFirst ==
  /\ state = "WRITING" /\ bit_num = STOP /\ UARTCycle
  /\ local_TX' = 1
  /\ bit_num' = START
  /\ state' = "IDLE" /\ data_ofs' = 0 /\ UNCHANGED frame_data

SendStop ==
  /\ state = "WRITING" /\ bit_num = STOP /\ UARTCycle
  /\ local_TX' = 1
  /\ bit_num' = START
  /\ IF data_ofs = Len(Reply) - 1
       THEN state' = "IDLE" /\ data_ofs' = 0 /\ UNCHANGED frame_data
       ELSE /\ frame_data' = Reply[data_ofs + 2]
            /\ data_ofs' = data_ofs + 1
            /\ UNCHANGED state

Edge ==
  \/ Idle \/ Count \/ BurnCycle \/ SampleBit \/ TakeByte \/ TakeRequest
  \/ SendStart \/ SendBit \/ SendStop

-----------------------------------------------------------------------------
(* The host. *)

\* The host does not send while it waits for a reply, and leaves its gap.
StartFrame ==
  /\ slot = -1 /\ timer = Rest /\ ~waiting
  /\ slot' = 0 /\ timer' = 0
  /\ out' \in peer.bytes

StayIdle ==
  /\ slot = -1
  /\ timer' = IF timer = Rest THEN timer ELSE timer + 1
  /\ UNCHANGED <<slot, out>>

HoldBit ==
  /\ slot # -1
  /\ IF timer < pace - 1
       THEN timer' = timer + 1 /\ UNCHANGED slot
       ELSE timer' = 0 /\ slot' = IF slot = DataBits + peer.stop THEN -1 ELSE slot + 1
  /\ UNCHANGED out

\* With no gap to leave the next start bit follows the last bit at once.
NextFrame ==
  /\ slot = DataBits + peer.stop /\ timer = pace - 1 /\ peer.gap = 0 /\ ~waiting
  /\ slot' = 0 /\ timer' = 0
  /\ out' \in peer.bytes

HostSends == (StartFrame \/ StayIdle \/ HoldBit \/ NextFrame) /\ UNCHANGED peer

\* Bookkeeping: a frame begins, or the controller takes a byte.
Begins == slot' = 0 /\ slot # 0

TrackWire ==
  IF LastBit /\ Byte # Noise
    THEN arrived' = <<Byte, 1 - arrived[2]>> /\ wire' = IF Begins THEN out' ELSE None
    ELSE wire' = (IF Begins THEN out' ELSE wire) /\ UNCHANGED arrived

\* The host samples TX in the middle of each bit after a start bit.
Middle == ear >= pace /\ (ear - pace \div 2) % pace = 0

HostHears ==
  IF ear = -1
    THEN /\ ear' = IF local_TX = 0 THEN 0 ELSE -1
         /\ heard' = << >>
         /\ UNCHANGED <<replies, garbled>>
         /\ waiting' = (waiting \/ TakeRequest)
  ELSE IF Middle /\ Len(heard) = DataBits
    THEN LET ok == local_TX = 1 /\ replies < Len(Reply)
                     /\ heard = [i \in 1 .. DataBits |-> Reply[replies + 1][i - 1]]
         IN  /\ ear' = -1 /\ heard' = << >>
             /\ garbled' = (garbled \/ ~ok)
             /\ replies' = (replies + 1) % Len(Reply)
             /\ waiting' = (waiting /\ replies + 1 # Len(Reply))
  ELSE /\ ear' = ear + 1
       /\ heard' = IF Middle THEN Append(heard, local_TX) ELSE heard
       /\ UNCHANGED <<replies, waiting, garbled>>

Next == Edge /\ HostSends /\ TrackWire /\ HostHears

\* The clock never stops.
Spec == Init /\ [][Next]_vars /\ WF_vars(Next)

-----------------------------------------------------------------------------
TypeOK ==
  /\ peer \in Hosts
  /\ state \in {"IDLE", "READING", "WRITING"}
  /\ clk_cycle \in 0 .. UART_WRAP
  /\ bit_num \in 0 .. BURN
  /\ frame_data \in [0 .. DataBits - 1 -> {0, 1}]
  /\ local_TX \in {0, 1}
  /\ data_ofs \in 0 .. Len(Reply) - 1
  /\ slot \in -1 .. DataBits + peer.stop
  /\ ear \in -1 .. pace * (DataBits + 2)

\* Clock cycles from the begin of a frame to the sample of its bit q; bit 0 starts it.
SampleAt(q) == (q + 1) * (UART_WRAP + 1) - UART_WRAP \div 2

\* A host whose clock is close enough for both to sample in the right bit.  A byte
\* with a last bit of zero keeps RX low when the controller is idle again, and costs
\* as much time as a frame, so the host leaves more time before the next.
InTime(h) ==
  /\ h.pace > 10
  /\ \A q \in 0 .. DataBits : 10 * (SampleAt(q) - q * h.pace) \in h.pace .. 9 * h.pace
  /\ \A q \in 1 .. DataBits + 1 :
       q * h.pace + h.pace \div 2 + 1 \in q * (UART_WRAP + 1) .. (q + 1) * (UART_WRAP + 1) - 1
  /\ \/ \A b \in h.bytes : b[DataBits - 1] = 1
     \/ 2 * SampleAt(DataBits) + 2 <= (DataBits + 1 + h.stop + h.gap) * h.pace

Link == INSTANCE CharLink WITH Chars <- Bytes

\* Every character the host sends is taken by the controller once, unchanged,
\* and before the next one: the promise of README.md ("They can properly
\* interpret data send with 8N0 as well") and of the note on the end-frame bit
\* at the head of the controllers.
BytesArrive == Link!Spec

\* The part of BytesArrive that is about steps: none is lost, changed or repeated.
BytesInOrder == Link!Init /\ [][Link!Next]_<<wire, arrived>>

\* The controller samples every bit of a frame of the host while the host is
\* sending that bit, a tenth of the bit or more from its ends, and burns a
\* cycle in the start bit.
SamplesInPlace ==
  wire # None /\ state = "READING" /\ clk_cycle = UART_WRAP
    => /\ slot = IF bit_num = BURN THEN 0 ELSE bit_num + 1
       /\ 10 * timer \in pace .. 9 * pace

\* The host hears the bytes of the reply, framed by start and stop bits.
HostHearsReply == ~garbled

\* A reply, once begun, comes to its end.
RepliesEnd == waiting ~> ~waiting
=============================================================================
