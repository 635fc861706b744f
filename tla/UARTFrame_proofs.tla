-------------------------- MODULE UARTFrame_proofs --------------------------
(***************************************************************************)
(* The framing, for any UART_WRAP, any number of data bits, any replies    *)
(* and any hosts that are in time: how late a clock may be, and when a     *)
(* host without stop bits is understood.                                   *)
(***************************************************************************)
EXTENDS UARTFrame, TLAPS

Cycle == UART_WRAP + 1
Half  == UART_WRAP \div 2

\* Clock cycles since the host began its last frame, as long as it matters.
Now == (IF slot = -1 THEN DataBits + 1 + peer.stop ELSE slot) * pace + timer

\* The bit that the controller waits for, and its clock cycles since it saw a zero.
Place   == IF bit_num = BURN THEN 0 ELSE bit_num + 1
Elapsed == Place * Cycle + clk_cycle - Half + 1

\* Clock cycles since the controller put a start bit on TX.
Sending == bit_num * Cycle + clk_cycle

FrameTypes ==
  /\ peer \in Hosts
  /\ clk_cycle \in 0 .. UART_WRAP /\ bit_num \in 0 .. BURN
  /\ frame_data \in [0 .. DataBits - 1 -> {0, 1}]
  /\ slot \in -1 .. DataBits + peer.stop
  /\ timer \in 0 .. (IF slot = -1 THEN Rest ELSE pace - 1)
  /\ out \in peer.bytes
  /\ data_ofs \in 0 .. Len(Reply) - 1

(* What the controller and the line are doing. *)

QuietLine == state = "IDLE" /\ wire = None /\ RX = 1 /\ slot \notin 0 .. DataBits - 1

\* A byte was taken, and its last bit is still on the line.
AfterByte == state = "IDLE" /\ ~waiting /\ wire = None /\ Now = SampleAt(DataBits) + 1

FrameBegun == state = "IDLE" /\ ~waiting /\ wire = out /\ slot = 0 /\ timer = 0

InFrame ==
  /\ state = "READING" /\ bit_num \in 0 .. DataBits - 1 \union {BURN}
  /\ wire = out /\ Now = Elapsed
  /\ \A i \in 0 .. DataBits - 1 : i + 1 < Place => frame_data[i] = out[i]

\* The controller took the last bit of a byte for a start bit.
InNoise ==
  /\ state = "READING" /\ bit_num \in 0 .. DataBits - 1 \union {BURN}
  /\ wire = None /\ out[DataBits - 1] = 0 /\ Now = SampleAt(DataBits) + 1 + Elapsed
  /\ \A i \in 0 .. DataBits - 1 : i + 1 < Place => frame_data[i] = 1

InReply ==
  /\ state = "WRITING" /\ bit_num \in 0 .. START
  /\ wire = None /\ slot \notin 0 .. DataBits - 1
  /\ slot = DataBits => data_ofs = 0 /\ Now = SampleAt(DataBits) + 1 + Sending

Line == QuietLine \/ AfterByte \/ FrameBegun \/ InFrame \/ InNoise \/ InReply

(* How far the host is with the reply. *)

Silent ==
  /\ state \in {"IDLE", "READING"} /\ local_TX = 1
  /\ ear = -1 /\ heard = << >> /\ replies = 0 /\ ~waiting

\* A reply byte that nothing was heard of.
Starting ==
  /\ state = "WRITING" /\ bit_num = 0 /\ clk_cycle = 0 /\ local_TX = 0
  /\ ear = -1 /\ heard = << >> /\ replies = data_ofs /\ waiting
  /\ frame_data = Reply[data_ofs + 1]

\* The samples the host has taken, and when it takes the next one.
Heard ==
  /\ heard \in Seq({0, 1}) /\ Len(heard) <= DataBits
  /\ Len(heard) # 0 => Len(heard) * pace + pace \div 2 < ear
  /\ ear <= (Len(heard) + 1) * pace + pace \div 2
  /\ \A i \in 1 .. Len(heard) : heard[i] = Reply[replies + 1][i - 1]

Hearing ==
  /\ waiting /\ replies \in 0 .. Len(Reply) - 1
  /\ ear \in Nat /\ ear + 1 = Sending /\ bit_num \in 0 .. START /\ Heard
  /\ \/ /\ state = "WRITING" /\ bit_num # START
        /\ replies = data_ofs /\ frame_data = Reply[data_ofs + 1]
        /\ local_TX = IF bit_num = 0 THEN 0 ELSE frame_data[bit_num - 1]
     \/ /\ state = "WRITING" /\ bit_num = START /\ local_TX = 1
        /\ data_ofs = replies + 1 /\ frame_data = Reply[data_ofs + 1]
     \/ /\ state = "IDLE" /\ bit_num = START /\ local_TX = 1
        /\ replies + 1 = Len(Reply)

\* The rest of a stop bit that the host has heard.
Resting ==
  /\ state = "WRITING" /\ bit_num = START /\ local_TX = 1
  /\ ear = -1 /\ heard = << >> /\ replies = data_ofs /\ waiting
  /\ frame_data = Reply[data_ofs + 1]

Talk == Silent \/ Starting \/ Hearing \/ Resting

(* A step of the line between the host and the interpreter, or none. *)
Passes == Link!Next \/ UNCHANGED <<wire, arrived>>

IInv == FrameTypes /\ Line /\ Talk /\ ~garbled
-----------------------------------------------------------------------------
(* Arithmetic. *)

LEMMA Distributes == ASSUME NEW a \in Int, NEW p \in Int PROVE (a + 1) * p = a * p + p
OBVIOUS

LEMMA TimesKeeps == ASSUME NEW a \in Int, NEW b \in Int, NEW p \in Nat, a <= b PROVE a * p <= b * p
OBVIOUS

LEMMA TimesLess == ASSUME NEW a \in Int, NEW b \in Int, NEW p \in Nat, a < b PROVE a * p + p <= b * p
<1>1. a + 1 <= b /\ a + 1 \in Int
  OBVIOUS
<1> QED BY <1>1, TimesKeeps, Distributes

LEMMA SamePlace ==
  ASSUME NEW a \in Int, NEW b \in Int, NEW p \in Nat, NEW s \in 0 .. p - 1, NEW t \in 0 .. p - 1,
         a * p + s = b * p + t
  PROVE  a = b /\ s = t
<1>0. a * p \in Int /\ b * p \in Int
  OBVIOUS
<1>1. CASE a < b
  BY <1>0, <1>1, TimesLess
<1>2. CASE b < a
  BY <1>0, <1>2, TimesLess
<1> QED BY <1>1, <1>2

LEMMA Multiple ==
  ASSUME NEW p \in Int, p > 0, NEW n \in Nat, NEW x \in Int, n * p < x, x <= (n + 1) * p
  PROVE  x % p = 0 <=> x = (n + 1) * p
<1>0. x \div p \in Int /\ x % p \in 0 .. p - 1
  OBVIOUS
<1>1. x = p * (x \div p) + (x % p)
  BY SMTT(30)
<1>2. x = (x \div p) * p + (x % p)
  BY <1>0, <1>1
<1>3. CASE x % p = 0
  <2> DEFINE d == x \div p
  <2>1. d \in Int /\ x = d * p
    BY <1>0, <1>2, <1>3
  <2> HIDE DEF d
  <2>2. ~(d <= n) /\ ~(d > n + 1)
    BY <2>1, TimesKeeps, TimesLess
  <2> QED BY <1>3, <2>1, <2>2
<1>4. CASE x = (n + 1) * p
  <2>1. (n + 1) * p + 0 = (x \div p) * p + (x % p)
    BY <1>2, <1>4
  <2> QED BY <1>0, <1>4, <2>1, SamePlace
<1> QED BY <1>3, <1>4

-----------------------------------------------------------------------------
(* The times of the controller and of the host. *)

Timely == \A h \in Hosts : InTime(h)

LEMMA Numbers ==
  /\ UART_WRAP \in Nat /\ UART_WRAP >= 1 /\ Cycle = UART_WRAP + 1
  /\ Half \in Nat /\ 2 * Half <= UART_WRAP /\ UART_WRAP <= 2 * Half + 1
  /\ DataBits \in Nat /\ DataBits >= 2
  /\ STOP = DataBits /\ START = DataBits + 1 /\ BURN = DataBits + 2
BY FrameAssumption DEF Cycle, Half, STOP, START, BURN

LEMMA HostNumbers ==
  ASSUME Timely, FrameTypes
  PROVE  /\ pace \in Nat /\ pace > 10 /\ peer.stop \in Nat /\ peer.gap \in Nat
         /\ Rest = peer.gap * pace /\ Rest \in Nat /\ slot \in Int /\ timer \in Nat
         /\ slot # -1 => slot \in Nat /\ timer \in 0 .. pace - 1 /\ Now = slot * pace + timer
         /\ slot = -1 => Now = (DataBits + 1 + peer.stop) * pace + timer
         /\ Now \in Nat
<1>1. pace \in Nat /\ pace > 10 /\ peer.stop \in Nat /\ peer.gap \in Nat
  BY FrameAssumption DEF FrameTypes, pace, Timely, InTime
<1>2. Rest = peer.gap * pace /\ Rest \in Nat
  BY <1>1 DEF Rest
<1>3. slot \in Int /\ timer \in Nat /\ (slot # -1 => slot \in Nat /\ timer \in 0 .. pace - 1)
  BY <1>1, <1>2, Numbers DEF FrameTypes
<1>4. slot # -1 => Now = slot * pace + timer /\ Now \in Nat
  BY <1>1, <1>3 DEF Now
<1>5. slot = -1 => Now = (DataBits + 1 + peer.stop) * pace + timer /\ Now \in Nat
  BY <1>1, <1>3, Numbers DEF Now
<1> QED BY <1>1, <1>2, <1>3, <1>4, <1>5

\* The sample of a bit is well inside the bit.
LEMMA Samples ==
  ASSUME Timely, FrameTypes, NEW q \in 0 .. DataBits
  PROVE  /\ SampleAt(q) = q * Cycle + UART_WRAP - Half + 1 /\ SampleAt(q) \in Int
         /\ q * pace + 1 < SampleAt(q) /\ SampleAt(q) + 1 < (q + 1) * pace
         /\ q * pace \in Nat /\ (q + 1) * pace = q * pace + pace
         /\ 10 * (SampleAt(q) - q * pace) \in pace .. 9 * pace
<1>1. pace \in Nat /\ pace > 10 /\ q \in Nat
  BY HostNumbers, Numbers
<1>2. 10 * (SampleAt(q) - q * pace) \in pace .. 9 * pace
  BY DEF FrameTypes, Timely, InTime, pace
<1>3. SampleAt(q) = q * Cycle + UART_WRAP - Half + 1 /\ SampleAt(q) \in Int
  <2>1. (q + 1) * Cycle = q * Cycle + Cycle /\ q * Cycle \in Int
    BY <1>1, Numbers, Distributes
  <2> QED BY <2>1, Numbers DEF SampleAt, Cycle, Half
<1>4. q * pace \in Nat /\ (q + 1) * pace = q * pace + pace
  BY <1>1, Distributes
<1>5. q * pace + 1 < SampleAt(q) /\ SampleAt(q) + 1 < q * pace + pace
  BY <1>1, <1>2, <1>3, <1>4
<1> QED BY <1>2, <1>3, <1>4, <1>5

\* What the host sends at a time of a frame.
LEMMA SlotAt ==
  ASSUME Timely, FrameTypes, NEW q \in 0 .. DataBits, q * pace <= Now, Now < (q + 1) * pace
  PROVE  slot = q /\ timer = Now - q * pace
<1>1. pace \in Nat /\ q \in Nat /\ Now \in Nat /\ (q + 1) * pace = q * pace + pace /\ q * pace \in Nat
  BY HostNumbers, Numbers, Distributes
<1>2. slot # -1
  <2>1. SUFFICES ASSUME slot = -1 PROVE FALSE
    OBVIOUS
  <2>2. Now = (DataBits + 1 + peer.stop) * pace + timer /\ timer \in Nat /\ peer.stop \in Nat
    BY <2>1, HostNumbers
  <2>3. q + 1 <= DataBits + 1 + peer.stop /\ q + 1 \in Int /\ DataBits + 1 + peer.stop \in Int
    BY <2>2, Numbers
  <2>4. (q + 1) * pace <= (DataBits + 1 + peer.stop) * pace
    BY <1>1, <2>3, TimesKeeps
  <2>5. (DataBits + 1 + peer.stop) * pace \in Int
    BY <1>1, <2>3
  <2> QED BY <1>1, <2>2, <2>4, <2>5
<1>3. slot \in Int /\ timer \in 0 .. pace - 1 /\ Now = slot * pace + timer
  BY <1>2, HostNumbers
<1>4. Now - q * pace \in 0 .. pace - 1 /\ q * pace + (Now - q * pace) = slot * pace + timer
  BY <1>1, <1>3
<1> QED BY <1>1, <1>3, <1>4, SamePlace

LEMMA SlotAfter ==
  ASSUME Timely, FrameTypes, (DataBits + 1) * pace <= Now
  PROVE  slot \notin 0 .. DataBits /\ RX = 1
<1>1. slot \notin 0 .. DataBits
  <2>1. SUFFICES ASSUME slot \in 0 .. DataBits PROVE FALSE
    OBVIOUS
  <2>2. Now = slot * pace + timer /\ timer \in 0 .. pace - 1 /\ pace \in Nat /\ slot \in Int
    BY <2>1, HostNumbers, Numbers
  <2>3. slot < DataBits + 1 /\ DataBits + 1 \in Int
    BY <2>1, Numbers
  <2>4. slot * pace + pace <= (DataBits + 1) * pace
    BY <2>2, <2>3, TimesLess
  <2>5. slot * pace \in Int /\ (DataBits + 1) * pace \in Int
    BY <2>2, <2>3
  <2> QED BY <2>2, <2>4, <2>5
<1> QED BY <1>1, Numbers, HostNumbers DEF FrameTypes, RX

LEMMA LineLevel == ASSUME FrameTypes PROVE RX \in {0, 1}
<1>1. out \in [0 .. DataBits - 1 -> {0, 1}]
  BY BytesAssumption DEF FrameTypes, Bytes
<1>2. slot \in {-1} \union (DataBits + 1 .. DataBits + peer.stop) \/ slot = 0 \/ slot - 1 \in 0 .. DataBits - 1
  BY FrameAssumption DEF FrameTypes
<1> QED BY <1>1, <1>2 DEF RX

-----------------------------------------------------------------------------
(* A clock cycle of the host. *)

LEMMA HostSteps ==
  ASSUME Timely, FrameTypes, HostSends
  PROVE  /\ peer' = peer /\ pace' = pace /\ Rest' = Rest
         /\ slot' \in -1 .. DataBits + peer.stop
         /\ timer' \in 0 .. (IF slot' = -1 THEN Rest ELSE pace - 1)
         /\ out' \in peer.bytes
         /\ \/ /\ Begins /\ ~waiting /\ slot' = 0 /\ timer' = 0
               /\ slot \notin 0 .. DataBits - 1
               /\ (DataBits + 1 + peer.stop + peer.gap) * pace <= Now + 1
            \/ /\ ~Begins /\ out' = out /\ slot = -1 /\ slot' = -1
               /\ Now < (DataBits + 1 + peer.stop + peer.gap) * pace => Now' = Now + 1
            \/ /\ ~Begins /\ out' = out /\ slot # -1 /\ slot' \in {slot, slot + 1, -1}
               /\ slot' = -1 => slot = DataBits + peer.stop
               /\ Now' = Now + 1
<1>1. pace \in Nat /\ pace > 10 /\ peer.stop \in Nat /\ peer.gap \in Nat /\ Rest = peer.gap * pace
      /\ Rest \in Nat /\ DataBits \in Nat /\ DataBits >= 2
  BY HostNumbers, Numbers
<1>2. peer' = peer /\ pace' = pace /\ Rest' = Rest
  BY DEF HostSends, pace, Rest
<1>3. (DataBits + 1 + peer.stop + peer.gap) * pace = (DataBits + 1 + peer.stop) * pace + Rest
      /\ (DataBits + 1 + peer.stop) * pace \in Nat
      /\ (DataBits + 1 + peer.stop) * pace = (DataBits + peer.stop) * pace + pace
      /\ (DataBits + peer.stop) * pace \in Nat
  BY <1>1
<1>4. CASE StartFrame
  BY <1>1, <1>2, <1>3, <1>4, HostNumbers DEF StartFrame, Begins
<1>5. CASE NextFrame
  <2>1. slot = DataBits + peer.stop /\ timer = pace - 1 /\ peer.gap = 0 /\ slot # -1
    BY <1>1, <1>5 DEF NextFrame
  <2>2. Now = (DataBits + peer.stop) * pace + (pace - 1) /\ Rest = 0
    BY <1>1, <2>1, HostNumbers
  <2>3. slot' = 0 /\ timer' = 0 /\ out' \in peer.bytes /\ ~waiting
    BY <1>5 DEF NextFrame
  <2>4. Begins /\ slot \notin 0 .. DataBits - 1
    BY <1>1, <2>1, <2>3 DEF Begins
  <2>5. (DataBits + 1 + peer.stop + peer.gap) * pace = Now + 1
    <3> DEFINE last == (DataBits + peer.stop) * pace
    <3>1. last \in Nat /\ (DataBits + 1 + peer.stop + peer.gap) * pace = last + pace + Rest
          /\ Now = last + (pace - 1) /\ Rest = 0
      BY <1>3, <2>2
    <3> HIDE DEF last
    <3> QED BY <1>1, <3>1
  <2>6. slot' \in -1 .. DataBits + peer.stop /\ timer' \in 0 .. pace - 1 /\ slot' # -1
    BY <1>1, <2>3
  <2> QED BY <1>2, <1>3, <2>2, <2>3, <2>4, <2>5, <2>6
<1>6. CASE StayIdle
  <2>1. slot = -1 /\ slot' = -1 /\ out' = out /\ timer' = IF timer = Rest THEN timer ELSE timer + 1
    BY <1>6 DEF StayIdle
  <2>2. timer \in 0 .. Rest
    BY <2>1 DEF FrameTypes
  <2>3. Now = (DataBits + 1 + peer.stop) * pace + timer
    BY <2>1, HostNumbers
  <2>4. Now' = (DataBits + 1 + peer.stop) * pace + timer'
    BY <1>2, <2>1 DEF Now
  <2>5. ~Begins /\ slot' \in -1 .. DataBits + peer.stop /\ out' \in peer.bytes
    BY <1>1, <2>1 DEF Begins, FrameTypes
  <2>6. timer' \in 0 .. (IF slot' = -1 THEN Rest ELSE pace - 1)
    BY <1>1, <2>1, <2>2
  <2>7. Now < (DataBits + 1 + peer.stop + peer.gap) * pace => Now' = Now + 1
    <3> DEFINE base == (DataBits + 1 + peer.stop) * pace
    <3>1. base \in Nat /\ (DataBits + 1 + peer.stop + peer.gap) * pace = base + Rest
          /\ Now = base + timer /\ Now' = base + timer'
      BY <1>3, <2>3, <2>4
    <3> HIDE DEF base
    <3> QED BY <1>1, <2>1, <2>2, <3>1
  <2> QED BY <1>2, <2>1, <2>5, <2>6, <2>7
<1>7. CASE HoldBit
  <2>1. slot # -1 /\ out' = out /\ slot \in 0 .. DataBits + peer.stop /\ timer \in 0 .. pace - 1
        /\ Now = slot * pace + timer
    BY <1>1, <1>7, HostNumbers DEF HoldBit, FrameTypes
  <2>2. CASE timer < pace - 1
    <3>1. timer' = timer + 1 /\ slot' = slot
      BY <1>7, <2>2 DEF HoldBit
    <3>2. Now' = slot * pace + (timer + 1)
      BY <1>2, <2>1, <3>1 DEF Now
    <3>3. Now' = Now + 1
      BY <1>1, <2>1, <3>2
    <3>4. ~Begins /\ slot' \in -1 .. DataBits + peer.stop /\ out' \in peer.bytes
      BY <2>1, <3>1 DEF Begins, FrameTypes
    <3>5. timer' \in 0 .. (IF slot' = -1 THEN Rest ELSE pace - 1) /\ slot' # -1
      BY <1>1, <2>1, <2>2, <3>1
    <3> QED BY <1>2, <2>1, <3>1, <3>3, <3>4, <3>5
  <2>3. CASE ~(timer < pace - 1)
    <3>1. timer' = 0 /\ timer = pace - 1 /\ slot' = IF slot = DataBits + peer.stop THEN -1 ELSE slot + 1
      BY <1>1, <1>7, <2>1, <2>3 DEF HoldBit
    <3>2. Now' = (slot + 1) * pace
      <4>1. CASE slot = DataBits + peer.stop
        BY <1>1, <1>2, <3>1, <4>1 DEF Now
      <4>2. CASE slot # DataBits + peer.stop
        BY <1>1, <1>2, <2>1, <3>1, <4>2 DEF Now
      <4> QED BY <4>1, <4>2
    <3>3. Now' = Now + 1
      BY <1>1, <2>1, <3>1, <3>2, Distributes
    <3>4. ~Begins
      BY <1>1, <2>1, <3>1 DEF Begins
    <3>5. slot' \in -1 .. DataBits + peer.stop
      BY <1>1, <2>1, <3>1
    <3>8. out' \in peer.bytes
      BY <2>1 DEF FrameTypes
    <3>6. timer' \in 0 .. (IF slot' = -1 THEN Rest ELSE pace - 1)
      BY <1>1, <2>1, <3>1
    <3>7. slot' \in {slot, slot + 1, -1} /\ (slot' = -1 => slot = DataBits + peer.stop)
      BY <1>1, <2>1, <3>1
    <3> QED BY <1>2, <2>1, <3>1, <3>3, <3>4, <3>5, <3>6, <3>7, <3>8
  <2> QED BY <2>2, <2>3
<1> QED BY <1>4, <1>5, <1>6, <1>7 DEF HostSends

\* A frame does not begin where another one still is, and the time goes on.
LEMMA InsideFrame ==
  ASSUME Timely, FrameTypes, HostSends, Now <= SampleAt(DataBits)
  PROVE  ~Begins /\ out' = out /\ slot \in 0 .. DataBits /\ Now' = Now + 1
<1>1. SampleAt(DataBits) + 1 < (DataBits + 1) * pace /\ SampleAt(DataBits) \in Int
  BY Samples, Numbers
<1>2. pace \in Nat /\ peer.stop \in Nat /\ peer.gap \in Nat /\ Now \in Nat /\ DataBits \in Nat
      /\ DataBits + 1 \in Int /\ DataBits + 1 + peer.stop \in Int
      /\ DataBits + 1 + peer.stop + peer.gap \in Int
  BY HostNumbers, Numbers
<1>3. (DataBits + 1) * pace \in Int /\ (DataBits + 1 + peer.stop) * pace \in Int
      /\ (DataBits + 1 + peer.stop + peer.gap) * pace \in Int
  BY <1>2
<1>4. (DataBits + 1) * pace <= (DataBits + 1 + peer.stop) * pace
  BY <1>2, TimesKeeps
<1>5. (DataBits + 1) * pace <= (DataBits + 1 + peer.stop + peer.gap) * pace
  BY <1>2, TimesKeeps
<1>6. slot # -1
  <2>1. SUFFICES ASSUME slot = -1 PROVE FALSE
    OBVIOUS
  <2>2. Now = (DataBits + 1 + peer.stop) * pace + timer /\ timer \in Nat
    BY <2>1, HostNumbers
  <2> QED BY <1>1, <1>2, <1>3, <1>4, <2>2
<1>7. slot \in 0 .. DataBits
  <2>1. SUFFICES ASSUME slot \notin 0 .. DataBits PROVE FALSE
    OBVIOUS
  <2>2. slot \in Int /\ DataBits + 1 <= slot /\ Now = slot * pace + timer /\ timer \in Nat
    BY <1>2, <1>6, <2>1, HostNumbers DEF FrameTypes
  <2>3. (DataBits + 1) * pace <= slot * pace /\ slot * pace \in Int
    BY <1>2, <2>2, TimesKeeps
  <2> QED BY <1>1, <1>2, <1>3, <2>2, <2>3
<1>8. ~((DataBits + 1 + peer.stop + peer.gap) * pace <= Now + 1)
  BY <1>1, <1>2, <1>3, <1>5
<1> QED BY <1>6, <1>7, <1>8, HostSteps

\* A quiet line stays quiet, unless a frame begins.
LEMMA StaysQuiet ==
  ASSUME Timely, FrameTypes, HostSends, ~Begins, slot \notin 0 .. DataBits - 1
  PROVE  /\ slot' \notin 0 .. DataBits - 1
         /\ RX = 1 => RX' = 1
         /\ slot' = DataBits => slot = DataBits /\ Now' = Now + 1
<1>1. DataBits \in Nat /\ DataBits >= 2 /\ peer.stop \in Nat /\ peer' = peer
      /\ slot \in -1 .. DataBits + peer.stop /\ slot' \in -1 .. DataBits + peer.stop /\ out' = out
  BY HostNumbers, Numbers, HostSteps DEF FrameTypes
<1>2. \/ slot = -1 /\ slot' = -1
      \/ slot # -1 /\ slot' \in {slot, slot + 1, -1} /\ Now' = Now + 1
  BY HostSteps
<1>3. slot' \notin 0 .. DataBits - 1 /\ (slot' = DataBits => slot = DataBits /\ Now' = Now + 1)
  BY <1>1, <1>2
<1>4. slot' = slot \/ slot' = -1 \/ slot' \in DataBits + 1 .. DataBits + peer.stop
  BY <1>1, <1>2
<1>5. ASSUME RX = 1 PROVE RX' = 1
  <2>1. CASE slot' = slot
    BY <1>1, <1>5, <2>1 DEF RX
  <2>2. CASE slot' = -1 \/ slot' \in DataBits + 1 .. DataBits + peer.stop
    BY <1>1, <2>2 DEF RX
  <2> QED BY <1>4, <2>1, <2>2
<1> QED BY <1>3, <1>5

LEMMA EdgesOf ==
  ASSUME Edge
  PROVE  /\ state = "IDLE" => Idle
         /\ state = "READING" => Count \/ BurnCycle \/ SampleBit \/ TakeByte \/ TakeRequest
         /\ state = "WRITING" => Count \/ SendStart \/ SendBit \/ SendStop
BY DEF Edge, Idle, Count, BurnCycle, SampleBit, LastBit, TakeByte, TakeRequest, SendStart, SendBit,
       SendStop

LEMMA WhoWaits ==
  ASSUME Talk
  PROVE  (state = "READING" => ~waiting) /\ (state = "WRITING" => waiting)
<1>1. CASE Silent
  BY <1>1 DEF Silent
<1>2. CASE Starting
  BY <1>2 DEF Starting
<1>3. CASE Hearing
  BY <1>3 DEF Hearing
<1>4. CASE Resting
  BY <1>4 DEF Resting
<1> QED BY <1>1, <1>2, <1>3, <1>4 DEF Talk

LEMMA NobodyWaits ==
  ASSUME HostHears, ~waiting, ~TakeRequest
  PROVE  ~waiting'
BY DEF HostHears

\* Nothing is taken.
LEMMA NothingTaken ==
  ASSUME TrackWire, ~LastBit \/ Byte = Noise
  PROVE  wire' = (IF Begins THEN out' ELSE wire) /\ arrived' = arrived
BY DEF TrackWire

-----------------------------------------------------------------------------
(* What the controller and the line do next, in each of the phases. *)

LEMMA FromQuietLine ==
  ASSUME Timely, FrameTypes, Talk, QuietLine, Next
  PROVE  Line' /\ Passes
<1>1. HostSends /\ TrackWire /\ HostHears /\ Idle
  BY EdgesOf DEF Next, QuietLine
<1>2. state' = "IDLE" /\ ~LastBit /\ ~TakeRequest
  BY <1>1 DEF Idle, QuietLine, LastBit, TakeRequest
<1>3. wire = None /\ wire' = (IF Begins THEN out' ELSE wire) /\ arrived' = arrived
  BY <1>1, <1>2, NothingTaken DEF QuietLine
<1>4. CASE Begins
  <2>1. ~waiting /\ slot' = 0 /\ timer' = 0 /\ out' \in peer.bytes
    BY <1>1, <1>4, HostSteps
  <2>2. ~waiting'
    BY <1>1, <1>2, <2>1, NobodyWaits
  <2>3. FrameBegun'
    BY <1>2, <1>3, <1>4, <2>1, <2>2 DEF FrameBegun
  <2>4. out' \in Bytes
    BY <2>1 DEF Bytes, FrameTypes
  <2>5. Link!Send
    BY <1>3, <1>4, <2>4 DEF Link!Send
  <2> QED BY <2>3, <2>5 DEF Line, Passes, Link!Next
<1>5. CASE ~Begins
  <2>1. QuietLine'
    BY <1>1, <1>2, <1>3, <1>5, StaysQuiet DEF QuietLine
  <2> QED BY <1>3, <1>5, <2>1 DEF Line, Passes
<1> QED BY <1>4, <1>5

LEMMA FromFrameBegun ==
  ASSUME Timely, FrameTypes, Talk, FrameBegun, Next
  PROVE  Line' /\ Passes
<1>1. HostSends /\ TrackWire /\ HostHears /\ Idle
  BY EdgesOf DEF Next, FrameBegun
<1>2. RX = 0 /\ ~LastBit /\ ~Begins
  BY FrameAssumption DEF FrameBegun, RX, LastBit, Begins
<1>3. state' = "READING" /\ bit_num' = BURN /\ clk_cycle' = Half
  BY <1>1, <1>2 DEF Idle, Half
<1>4. wire' = wire /\ arrived' = arrived /\ wire = out
  BY <1>1, <1>2, NothingTaken DEF FrameBegun
<1>5. Now = 0
  BY HostNumbers DEF FrameBegun, Now
<1>6. out' = out /\ Now' = 1
  BY <1>1, <1>2, <1>5, HostSteps DEF FrameBegun
<1>7. Place' = 0 /\ Elapsed' = 1
  BY <1>3, Numbers DEF Place, Elapsed
<1>8. InFrame'
  BY <1>3, <1>4, <1>6, <1>7, Numbers DEF InFrame
<1> QED BY <1>4, <1>8 DEF Line, Passes

\* The last bit of a byte reads like a start bit only if the host leaves time.
LEMMA NoiseHasTime ==
  ASSUME Timely, FrameTypes, out[DataBits - 1] = 0
  PROVE  2 * SampleAt(DataBits) + 2 <= (DataBits + 1 + peer.stop + peer.gap) * pace
BY DEF Timely, FrameTypes, InTime, pace

LEMMA FromAfterByte ==
  ASSUME Timely, FrameTypes, Talk, AfterByte, Next
  PROVE  Line' /\ Passes
<1>1. HostSends /\ TrackWire /\ HostHears /\ Idle
  BY EdgesOf DEF Next, AfterByte
<1>2. DataBits \in 0 .. DataBits /\ DataBits \in Nat /\ DataBits >= 2
  BY Numbers
<1>3. slot = DataBits
  <2>1. DataBits * pace <= Now /\ Now < (DataBits + 1) * pace
    BY <1>2, Samples DEF AfterByte
  <2> QED BY <1>2, <2>1, SlotAt
<1>4. CASE RX = 1
  <2>1. QuietLine
    BY <1>2, <1>3, <1>4 DEF QuietLine, AfterByte
  <2> QED BY <2>1, FromQuietLine
<1>5. CASE RX = 0
  <2>1. out[DataBits - 1] = 0
    <3>1. RX = out[slot - 1]
      BY <1>2, <1>3, HostNumbers DEF RX
    <3> QED BY <1>3, <1>5, <3>1
  <2>2. state' = "READING" /\ bit_num' = BURN /\ clk_cycle' = Half /\ ~LastBit
    BY <1>1, <1>5 DEF Idle, Half, LastBit
  <2>3. ~Begins
    <3>1. SampleAt(DataBits) \in Int /\ SampleAt(DataBits) > 0
      BY <1>2, Samples
    <3>2. Now + 1 < 2 * SampleAt(DataBits) + 2
      BY <3>1 DEF AfterByte
    <3>3. (DataBits + 1 + peer.stop + peer.gap) * pace \in Int
      BY <1>2, HostNumbers
    <3> QED BY <1>1, <2>1, <3>1, <3>2, <3>3, NoiseHasTime, HostSteps, HostNumbers
  <2>4. out' = out /\ Now' = Now + 1
    BY <1>1, <1>2, <1>3, <2>3, HostSteps
  <2>5. wire' = None /\ wire = None /\ arrived' = arrived
    BY <1>1, <2>2, <2>3, NothingTaken DEF AfterByte
  <2>6. Place' = 0 /\ Elapsed' = 1
    BY <2>2, Numbers DEF Place, Elapsed
  <2>7. InNoise'
    BY <2>1, <2>2, <2>4, <2>5, <2>6, <1>2 DEF InNoise, AfterByte, SampleAt
  <2> QED BY <2>5, <2>7 DEF Line, Passes
<1> QED BY <1>4, <1>5, LineLevel

\* How the controller's own time passes while it reads.
LEMMA Reading ==
  ASSUME Timely, FrameTypes, bit_num \in 0 .. DataBits - 1 \union {BURN}
  PROVE  /\ Place \in 0 .. DataBits /\ Elapsed \in Int /\ Elapsed <= SampleAt(Place)
         /\ SampleAt(Place) <= SampleAt(DataBits)
         /\ clk_cycle = UART_WRAP => Elapsed = SampleAt(Place)
         /\ clk_cycle # UART_WRAP => Elapsed + 1 <= SampleAt(Place)
<1>1. Place \in 0 .. DataBits /\ Cycle \in Nat /\ DataBits \in Nat /\ Half \in Nat /\ UART_WRAP \in Nat
      /\ clk_cycle \in 0 .. UART_WRAP
  BY Numbers DEF Place, FrameTypes
<1>2. Place * Cycle \in Int /\ DataBits * Cycle \in Int /\ Place * Cycle <= DataBits * Cycle
  BY <1>1, TimesKeeps
<1>3. SampleAt(Place) = Place * Cycle + UART_WRAP - Half + 1
  BY <1>1, Samples
<1>4. SampleAt(DataBits) = DataBits * Cycle + UART_WRAP - Half + 1
  BY <1>1, Samples
<1>5. Elapsed = Place * Cycle + clk_cycle - Half + 1
  BY DEF Elapsed
<1> QED BY <1>1, <1>2, <1>3, <1>4, <1>5

\* A step that only counts, or goes on to the next bit.
LEMMA ReadsOn ==
  ASSUME Timely, FrameTypes, state = "READING", bit_num \in 0 .. DataBits - 1 \union {BURN},
         Count \/ BurnCycle \/ SampleBit
  PROVE  /\ state' = "READING" /\ bit_num' \in 0 .. DataBits - 1 \union {BURN}
         /\ ~LastBit /\ ~TakeRequest /\ Elapsed' = Elapsed + 1
         /\ Elapsed + 1 <= SampleAt(DataBits)
         /\ \/ Place' = Place /\ frame_data' = frame_data
            \/ Place' = 1 /\ frame_data' = frame_data
            \/ /\ Place \in 1 .. DataBits - 1 /\ Place' = Place + 1 /\ Elapsed = SampleAt(Place)
               /\ frame_data' = [frame_data EXCEPT ![Place - 1] = RX]
<1>1. Place \in 0 .. DataBits /\ Cycle = UART_WRAP + 1 /\ DataBits \in Nat /\ DataBits >= 2
      /\ Half \in Nat /\ UART_WRAP \in Nat /\ clk_cycle \in 0 .. UART_WRAP
      /\ STOP = DataBits /\ START = DataBits + 1 /\ BURN = DataBits + 2
  BY Numbers, Reading DEF FrameTypes
<1>2. Elapsed = Place * Cycle + clk_cycle - Half + 1 /\ Elapsed' = Place' * Cycle + clk_cycle' - Half + 1
  BY DEF Elapsed, Cycle, Half
<1>3. Elapsed \in Int /\ Elapsed <= SampleAt(Place) /\ SampleAt(Place) <= SampleAt(DataBits)
      /\ SampleAt(Place) \in Int /\ SampleAt(DataBits) \in Int
      /\ (clk_cycle # UART_WRAP => Elapsed + 1 <= SampleAt(Place))
      /\ (clk_cycle = UART_WRAP => Elapsed = SampleAt(Place))
  BY <1>1, Reading, Samples
<1>4. ASSUME Place < DataBits PROVE Elapsed + 1 <= SampleAt(DataBits)
  <2>1. Place * Cycle + Cycle <= DataBits * Cycle /\ Place * Cycle \in Int /\ DataBits * Cycle \in Int
    BY <1>1, <1>4, TimesLess
  <2>2. SampleAt(DataBits) = DataBits * Cycle + UART_WRAP - Half + 1
    BY <1>1, Samples
  <2> QED BY <1>1, <1>2, <2>1, <2>2
<1>5. CASE Count
  <2>1. clk_cycle # UART_WRAP /\ clk_cycle' = clk_cycle + 1 /\ state' = state /\ bit_num' = bit_num
        /\ frame_data' = frame_data /\ Place' = Place
    BY <1>5 DEF Count, Place
  <2>2. ~LastBit /\ ~TakeRequest
    BY <2>1 DEF LastBit, UARTCycle, TakeRequest
  <2>3. Elapsed' = Elapsed + 1
    <3> DEFINE base == Place * Cycle
    <3>1. base \in Int /\ Elapsed = base + clk_cycle - Half + 1 /\ Elapsed' = base + clk_cycle' - Half + 1
      BY <1>1, <1>2, <2>1
    <3> HIDE DEF base
    <3> QED BY <1>1, <2>1, <3>1
  <2> QED BY <1>3, <2>1, <2>2, <2>3
<1>6. CASE BurnCycle
  <2>1. bit_num = BURN /\ bit_num' = 0 /\ clk_cycle = UART_WRAP /\ clk_cycle' = 0
        /\ frame_data' = frame_data /\ state' = state
    BY <1>6 DEF BurnCycle, UARTCycle
  <2>2. Place = 0 /\ Place' = 1 /\ ~LastBit /\ ~TakeRequest
    BY <1>1, <2>1 DEF Place, LastBit, TakeRequest
  <2>3. Elapsed' = Elapsed + 1
    BY <1>1, <1>2, <2>1, <2>2
  <2> QED BY <1>1, <1>4, <2>1, <2>2, <2>3
<1>7. CASE SampleBit
  <2>1. bit_num \in 0 .. DataBits - 2 /\ bit_num' = bit_num + 1 /\ clk_cycle = UART_WRAP /\ clk_cycle' = 0
        /\ frame_data' = [frame_data EXCEPT ![bit_num] = RX] /\ state' = state
    BY <1>1, <1>7 DEF SampleBit, UARTCycle
  <2>2. Place = bit_num + 1 /\ Place' = Place + 1 /\ ~LastBit /\ ~TakeRequest
    BY <1>1, <2>1 DEF Place, LastBit, TakeRequest
  <2>3. Elapsed' = Elapsed + 1
    <3>1. (Place + 1) * Cycle = Place * Cycle + Cycle /\ Place * Cycle \in Int
      BY <1>1, Distributes
    <3> QED BY <1>1, <1>2, <2>1, <2>2, <3>1
  <2>4. bit_num = Place - 1 /\ Place \in 1 .. DataBits - 1 /\ bit_num' \in 0 .. DataBits - 1
    BY <1>1, <2>1, <2>2
  <2>5. Elapsed + 1 <= SampleAt(DataBits)
    BY <1>1, <1>4, <2>4
  <2>6. Elapsed = SampleAt(Place)
    BY <1>3, <2>1
  <2>7. frame_data' = [frame_data EXCEPT ![Place - 1] = RX]
    BY <2>1, <2>4
  <2> QED BY <2>1, <2>2, <2>3, <2>4, <2>5, <2>6, <2>7
<1> QED BY <1>5, <1>6, <1>7

\* The last bit.
LEMMA ReadsLast ==
  ASSUME Timely, FrameTypes, state = "READING", TakeByte \/ TakeRequest
  PROVE  /\ LastBit /\ Place = DataBits /\ Elapsed = SampleAt(DataBits) /\ clk_cycle' = 0
         /\ TakeByte => ~TakeRequest /\ state' = "IDLE"
         /\ TakeRequest => Byte # Noise /\ state' = "WRITING" /\ bit_num' = 0 /\ data_ofs' = 0
<1>1. LastBit
  BY DEF TakeByte, TakeRequest
<1>2. bit_num = DataBits - 1 /\ clk_cycle = UART_WRAP /\ clk_cycle' = 0
  BY <1>1 DEF LastBit, UARTCycle
<1>3. Place = DataBits /\ bit_num \in 0 .. DataBits - 1 \union {BURN}
  BY <1>2, Numbers DEF Place
<1>4. Elapsed = SampleAt(DataBits)
  BY <1>2, <1>3, Reading
<1> QED BY <1>1, <1>2, <1>3, <1>4 DEF TakeByte, TakeRequest

\* RX at the sample of a data bit is that bit.
LEMMA SampledBit ==
  ASSUME Timely, FrameTypes, NEW q \in 1 .. DataBits, Now = SampleAt(q)
  PROVE  slot = q /\ RX = out[q - 1]
<1>1. q \in 0 .. DataBits /\ DataBits \in Nat
  BY Numbers
<1>2. q * pace <= Now /\ Now < (q + 1) * pace
  <2>1. q * pace + 1 < SampleAt(q) /\ SampleAt(q) + 1 < (q + 1) * pace /\ q * pace \in Int
        /\ SampleAt(q) \in Int /\ (q + 1) * pace \in Int
    BY <1>1, Samples, HostNumbers
  <2> QED BY <2>1
<1>3. slot = q
  BY <1>1, <1>2, SlotAt
<1> QED BY <1>1, <1>3, HostNumbers DEF RX

LEMMA FromInFrame ==
  ASSUME Timely, FrameTypes, Talk, InFrame, Next
  PROVE  Line' /\ Passes
<1>1. HostSends /\ TrackWire /\ HostHears
      /\ (Count \/ BurnCycle \/ SampleBit \/ TakeByte \/ TakeRequest)
  BY EdgesOf DEF Next, InFrame
<1>2. state = "READING" /\ bit_num \in 0 .. DataBits - 1 \union {BURN} /\ wire = out /\ Now = Elapsed
      /\ (\A i \in 0 .. DataBits - 1 : i + 1 < Place => frame_data[i] = out[i])
  BY DEF InFrame
<1>3. Place \in 0 .. DataBits /\ DataBits \in Nat /\ DataBits >= 2 /\ Now \in Nat
      /\ SampleAt(DataBits) \in Int
  BY <1>2, Reading, Numbers, HostNumbers, Samples
<1>4. Now <= SampleAt(DataBits)
  BY <1>2, <1>3, Reading, Samples
<1>5. ~Begins /\ out' = out /\ slot \in 0 .. DataBits /\ Now' = Now + 1
  BY <1>1, <1>4, InsideFrame
<1>6. ~waiting
  BY <1>2, WhoWaits
<1>7. CASE Count \/ BurnCycle \/ SampleBit
  <2>1. state' = "READING" /\ bit_num' \in 0 .. DataBits - 1 \union {BURN}
        /\ ~LastBit /\ ~TakeRequest /\ Elapsed' = Elapsed + 1
    BY <1>2, <1>7, ReadsOn
  <2>2. wire' = wire /\ arrived' = arrived
    BY <1>1, <1>5, <2>1, NothingTaken
  <2>3. \A i \in 0 .. DataBits - 1 : i + 1 < Place' => frame_data'[i] = out[i]
    <3>1. CASE Place' = Place /\ frame_data' = frame_data
      BY <1>2, <3>1
    <3>2. CASE Place' = 1
      BY <1>3, <3>2
    <3>3. CASE /\ Place \in 1 .. DataBits - 1 /\ Place' = Place + 1 /\ Elapsed = SampleAt(Place)
               /\ frame_data' = [frame_data EXCEPT ![Place - 1] = RX]
      <4>1. RX = out[Place - 1]
        BY <1>2, <1>3, <3>3, SampledBit
      <4>2. frame_data \in [0 .. DataBits - 1 -> {0, 1}]
        BY DEF FrameTypes
      <4> QED BY <1>2, <1>3, <3>3, <4>1, <4>2
    <3> QED BY <1>2, <1>7, <3>1, <3>2, <3>3, ReadsOn
  <2>4. InFrame'
    BY <1>2, <1>5, <2>1, <2>2, <2>3 DEF InFrame
  <2> QED BY <2>2, <2>4 DEF Line, Passes
<1>8. CASE TakeByte \/ TakeRequest
  <2>1. LastBit /\ Place = DataBits /\ Elapsed = SampleAt(DataBits) /\ clk_cycle' = 0
    BY <1>2, <1>8, ReadsLast
  <2>2. slot = DataBits /\ RX = out[DataBits - 1]
    <3>1. DataBits \in 1 .. DataBits
      BY <1>3
    <3> QED BY <1>2, <2>1, <3>1, SampledBit
  <2>3. out \in Bytes /\ out \in [0 .. DataBits - 1 -> {0, 1}] /\ out # Noise /\ out # None
    BY BytesAssumption DEF FrameTypes, Bytes
  <2>4. Byte = out
    <3>1. frame_data \in [0 .. DataBits - 1 -> {0, 1}]
      BY DEF FrameTypes
    <3>2. Byte \in [0 .. DataBits - 1 -> {0, 1}]
      BY <2>2, <2>3, <1>3, <3>1 DEF Byte
    <3>3. ASSUME NEW i \in 0 .. DataBits - 1 PROVE Byte[i] = out[i]
      <4>1. CASE i = DataBits - 1
        BY <1>3, <2>2, <3>1, <4>1 DEF Byte
      <4>2. CASE i # DataBits - 1
        BY <1>2, <1>3, <2>1, <3>1, <4>2 DEF Byte
      <4> QED BY <4>1, <4>2
    <3> DEFINE b == Byte
               o == out
    <3>4. b \in [0 .. DataBits - 1 -> {0, 1}] /\ o \in [0 .. DataBits - 1 -> {0, 1}]
          /\ (\A i \in 0 .. DataBits - 1 : b[i] = o[i])
      BY <2>3, <3>2, <3>3
    <3> HIDE DEF b, o
    <3>5. b = o
      <4> DEFINE ix == 0 .. DataBits - 1
      <4>1. b = [i \in ix |-> b[i]] /\ o = [i \in ix |-> o[i]]
        BY <3>4
      <4>2. [i \in ix |-> b[i]] = [i \in ix |-> o[i]]
        BY <3>4
      <4> QED BY <4>1, <4>2
    <3> QED BY <3>5 DEF b, o
  <2>5. arrived' = <<out, 1 - arrived[2]>> /\ wire' = None
    BY <1>1, <1>5, <2>1, <2>3, <2>4 DEF TrackWire
  <2>6. Link!Next
    BY <1>2, <2>3, <2>5 DEF Link!Next, Link!Deliver
  <2>7. Now' = SampleAt(DataBits) + 1
    BY <1>2, <1>5, <2>1
  <2>8. CASE TakeByte
    <3>1. state' = "IDLE" /\ ~TakeRequest
      BY <1>2, <2>8, ReadsLast
    <3>2. ~waiting'
      BY <1>1, <1>6, <3>1, NobodyWaits
    <3>3. AfterByte'
      BY <2>5, <2>7, <3>1, <3>2 DEF AfterByte, SampleAt
    <3> QED BY <2>6, <3>3 DEF Line, Passes
  <2>9. CASE TakeRequest
    <3>1. state' = "WRITING" /\ bit_num' = 0 /\ data_ofs' = 0
      BY <1>2, <2>9, ReadsLast
    <3>2. slot' \notin 0 .. DataBits - 1
      BY <1>1, <1>3, <1>5, <2>2, StaysQuiet
    <3>3. Sending' = 0
      BY <2>1, <3>1, Numbers DEF Sending, Cycle
    <3>4. Now' = SampleAt(DataBits) + 1 + Sending'
      BY <1>3, <2>7, <3>3
    <3>5. InReply'
      BY <1>3, <2>5, <3>1, <3>2, <3>4 DEF InReply, SampleAt, START
    <3> QED BY <2>6, <3>5 DEF Line, Passes
  <2> QED BY <1>8, <2>8, <2>9
<1> QED BY <1>1, <1>7, <1>8

LEMMA FromInNoise ==
  ASSUME Timely, FrameTypes, Talk, InNoise, Next
  PROVE  Line' /\ Passes
<1>1. HostSends /\ TrackWire /\ HostHears
      /\ (Count \/ BurnCycle \/ SampleBit \/ TakeByte \/ TakeRequest)
  BY EdgesOf DEF Next, InNoise
<1>2. state = "READING" /\ bit_num \in 0 .. DataBits - 1 \union {BURN} /\ wire = None
      /\ out[DataBits - 1] = 0 /\ Now = SampleAt(DataBits) + 1 + Elapsed
      /\ (\A i \in 0 .. DataBits - 1 : i + 1 < Place => frame_data[i] = 1)
  BY DEF InNoise
<1>3. Place \in 0 .. DataBits /\ DataBits \in Nat /\ DataBits >= 2 /\ Now \in Nat
      /\ SampleAt(DataBits) \in Int /\ Elapsed \in Int /\ Elapsed <= SampleAt(DataBits)
  BY <1>2, Reading, Numbers, HostNumbers, Samples
<1>4. ~waiting
  BY <1>2, WhoWaits
<1> DEFINE room == (DataBits + 1 + peer.stop + peer.gap) * pace
<1>5. room \in Int /\ 2 * SampleAt(DataBits) + 2 <= room
  BY <1>2, <1>3, HostNumbers, NoiseHasTime
<1>6. /\ Begins => ~waiting /\ slot' = 0 /\ timer' = 0 /\ out' \in peer.bytes /\ room <= Now + 1
      /\ ~Begins => out' = out /\ (Now < room => Now' = Now + 1)
  BY <1>1, HostSteps
<1> HIDE DEF room
\* From the first data bit on, the line rests.
<1>7. ASSUME Place # 0, Elapsed = SampleAt(Place) PROVE RX = 1 /\ slot \notin 0 .. DataBits
  <2>1. (DataBits + 1) * pace = DataBits * pace + pace /\ DataBits * pace + 1 < SampleAt(DataBits)
        /\ DataBits * pace \in Nat /\ pace \in Nat
    BY <1>3, Samples, HostNumbers
  <2>2. pace < SampleAt(Place) /\ SampleAt(Place) \in Int
    <3>1. Place * pace + 1 < SampleAt(Place) /\ SampleAt(Place) \in Int /\ Place * pace \in Nat
      BY <1>3, Samples
    <3>2. 1 * pace <= Place * pace
      BY <1>3, <1>7, <2>1, TimesKeeps
    <3> QED BY <2>1, <3>1, <3>2
  <2>3. (DataBits + 1) * pace <= Now
    BY <1>2, <1>3, <1>7, <2>1, <2>2
  <2> QED BY <2>3, SlotAfter
<1>8. CASE Count \/ BurnCycle \/ SampleBit
  <2>1. state' = "READING" /\ bit_num' \in 0 .. DataBits - 1 \union {BURN}
        /\ ~LastBit /\ ~TakeRequest /\ Elapsed' = Elapsed + 1 /\ Elapsed + 1 <= SampleAt(DataBits)
    BY <1>2, <1>8, ReadsOn
  <2>2. Now + 1 < room
    BY <1>2, <1>3, <1>5, <2>1
  <2>3. ~Begins /\ out' = out /\ Now' = Now + 1
    BY <1>3, <1>5, <1>6, <2>2
  <2>4. wire' = None /\ arrived' = arrived
    BY <1>1, <1>2, <2>1, <2>3, NothingTaken
  <2>5. \A i \in 0 .. DataBits - 1 : i + 1 < Place' => frame_data'[i] = 1
    <3>1. CASE Place' = Place /\ frame_data' = frame_data
      BY <1>2, <3>1
    <3>2. CASE Place' = 1
      BY <1>3, <3>2
    <3>3. CASE /\ Place \in 1 .. DataBits - 1 /\ Place' = Place + 1 /\ Elapsed = SampleAt(Place)
               /\ frame_data' = [frame_data EXCEPT ![Place - 1] = RX]
      <4>1. RX = 1
        BY <1>3, <1>7, <3>3
      <4>2. frame_data \in [0 .. DataBits - 1 -> {0, 1}]
        BY DEF FrameTypes
      <4> QED BY <1>2, <1>3, <3>3, <4>1, <4>2
    <3> QED BY <1>2, <1>8, <3>1, <3>2, <3>3, ReadsOn
  <2>6. Now' = SampleAt(DataBits) + 1 + Elapsed'
    BY <1>2, <1>3, <2>1, <2>3
  <2>7. InNoise'
    BY <1>2, <2>1, <2>3, <2>4, <2>5, <2>6 DEF InNoise, SampleAt
  <2> QED BY <1>2, <2>4, <2>7 DEF Line, Passes
<1>9. CASE TakeByte \/ TakeRequest
  <2>1. LastBit /\ Place = DataBits /\ Elapsed = SampleAt(DataBits)
    BY <1>2, <1>9, ReadsLast
  <2>2. RX = 1 /\ slot \notin 0 .. DataBits
    BY <1>3, <1>7, <2>1
  <2>3. Byte = Noise
    <3>1. frame_data \in [0 .. DataBits - 1 -> {0, 1}]
      BY DEF FrameTypes
    <3>2. Byte \in [0 .. DataBits - 1 -> {0, 1}] /\ Noise \in [0 .. DataBits - 1 -> {0, 1}]
      BY <2>2, <3>1 DEF Byte, Noise
    <3>3. ASSUME NEW i \in 0 .. DataBits - 1 PROVE Byte[i] = Noise[i]
      <4>1. CASE i = DataBits - 1
        BY <1>3, <2>2, <3>1, <4>1 DEF Byte, Noise
      <4>2. CASE i # DataBits - 1
        BY <1>2, <1>3, <2>1, <3>1, <4>2 DEF Byte, Noise
      <4> QED BY <4>1, <4>2
    <3> DEFINE b == Byte
               o == Noise
    <3>4. b \in [0 .. DataBits - 1 -> {0, 1}] /\ o \in [0 .. DataBits - 1 -> {0, 1}]
          /\ (\A i \in 0 .. DataBits - 1 : b[i] = o[i])
      BY <3>2, <3>3
    <3> HIDE DEF b, o
    <3>5. b = o
      <4> DEFINE ix == 0 .. DataBits - 1
      <4>1. b = [i \in ix |-> b[i]] /\ o = [i \in ix |-> o[i]]
        BY <3>4
      <4>2. [i \in ix |-> b[i]] = [i \in ix |-> o[i]]
        BY <3>4
      <4> QED BY <4>1, <4>2
    <3> QED BY <3>5 DEF b, o
  <2>4. state' = "IDLE" /\ ~TakeRequest
    BY <1>2, <1>9, <2>3, ReadsLast
  <2>5. wire' = (IF Begins THEN out' ELSE None) /\ arrived' = arrived
    BY <1>1, <1>2, <2>3, NothingTaken
  <2>6. CASE Begins
    <3>1. ~waiting'
      BY <1>1, <1>4, <2>4, NobodyWaits
    <3>2. FrameBegun'
      BY <1>6, <2>4, <2>5, <2>6, <3>1 DEF FrameBegun
    <3>3. out' \in Bytes
      BY <1>6, <2>6 DEF Bytes, FrameTypes
    <3>4. Link!Next
      BY <1>2, <2>5, <2>6, <3>3 DEF Link!Next, Link!Send
    <3> QED BY <3>2, <3>4 DEF Line, Passes
  <2>7. CASE ~Begins
    <3>1. slot \notin 0 .. DataBits - 1
      BY <1>3, <2>2
    <3>2. QuietLine'
      BY <1>1, <2>2, <2>4, <2>5, <2>7, <3>1, StaysQuiet DEF QuietLine
    <3> QED BY <1>2, <2>5, <2>7, <3>2 DEF Line, Passes
  <2> QED BY <2>6, <2>7
<1> QED BY <1>1, <1>8, <1>9

LEMMA FromInReply ==
  ASSUME Timely, FrameTypes, Talk, InReply, Next
  PROVE  Line' /\ Passes
<1>1. HostSends /\ TrackWire /\ HostHears /\ (Count \/ SendStart \/ SendBit \/ SendStop)
  BY EdgesOf DEF Next, InReply
<1>2. state = "WRITING" /\ bit_num \in 0 .. START /\ wire = None /\ slot \notin 0 .. DataBits - 1
      /\ (slot = DataBits => data_ofs = 0 /\ Now = SampleAt(DataBits) + 1 + Sending)
  BY DEF InReply
<1>3. DataBits \in Nat /\ DataBits >= 2 /\ STOP = DataBits /\ START = DataBits + 1
      /\ Cycle = UART_WRAP + 1 /\ UART_WRAP \in Nat /\ clk_cycle \in 0 .. UART_WRAP /\ Half \in Nat
      /\ Now \in Nat /\ SampleAt(DataBits) \in Int /\ bit_num \in Nat
  <2>1. DataBits \in Nat /\ DataBits >= 2 /\ STOP = DataBits /\ START = DataBits + 1
        /\ Cycle = UART_WRAP + 1 /\ UART_WRAP \in Nat /\ clk_cycle \in 0 .. UART_WRAP /\ Half \in Nat
    BY Numbers DEF FrameTypes
  <2>2. DataBits \in 0 .. DataBits /\ bit_num \in Nat
    BY <1>2, <2>1
  <2> QED BY <2>1, <2>2, HostNumbers, Samples
<1>4. waiting /\ ~LastBit
  BY <1>2, WhoWaits DEF LastBit
<1>5. ~Begins
  BY <1>1, <1>4, HostSteps
<1>6. wire' = None /\ arrived' = arrived
  BY <1>1, <1>2, <1>4, <1>5, NothingTaken
<1>7. Passes
  BY <1>2, <1>6 DEF Passes
<1>8. slot' \notin 0 .. DataBits - 1 /\ (RX = 1 => RX' = 1)
      /\ (slot' = DataBits => slot = DataBits /\ Now' = Now + 1)
  BY <1>1, <1>2, <1>5, StaysQuiet
<1>9. Sending = bit_num * Cycle + clk_cycle /\ bit_num * Cycle \in Nat /\ Sending \in Nat
  BY <1>3 DEF Sending
\* A stop bit is late enough for the host to be done with its frame.
<1>10. ASSUME bit_num >= DataBits, clk_cycle = UART_WRAP PROVE slot \notin 0 .. DataBits
  <2>1. SUFFICES ASSUME slot = DataBits PROVE FALSE
    BY <1>2, <1>3
  <2>2. DataBits * Cycle <= bit_num * Cycle /\ DataBits * Cycle \in Int
    BY <1>3, <1>10, TimesKeeps
  <2>3. SampleAt(DataBits) = DataBits * Cycle + UART_WRAP - Half + 1
        /\ DataBits * pace + 1 < SampleAt(DataBits) /\ DataBits * pace \in Nat
        /\ (DataBits + 1) * pace = DataBits * pace + pace /\ pace \in Nat
    BY <1>3, Samples, HostNumbers
  <2>4. DataBits * pace <= Sending
    BY <1>3, <1>9, <1>10, <2>2, <2>3
  <2>5. 1 * pace <= DataBits * pace
    BY <1>3, <2>3, TimesKeeps
  <2>6. (DataBits + 1) * pace <= Now
    BY <1>2, <1>3, <1>9, <2>1, <2>3, <2>4, <2>5
  <2> QED BY <2>1, <2>6, SlotAfter, <1>3
<1>11. CASE Count
  <2>1. state' = state /\ bit_num' = bit_num /\ data_ofs' = data_ofs /\ clk_cycle' = clk_cycle + 1
    BY <1>11 DEF Count
  <2>2. Sending' = Sending + 1
    BY <1>3, <1>9, <2>1 DEF Sending, Cycle
  <2>3. slot' = DataBits => data_ofs' = 0 /\ Now' = SampleAt(DataBits) + 1 + Sending'
    BY <1>2, <1>3, <1>8, <1>9, <2>1, <2>2
  <2>4. InReply'
    BY <1>2, <1>6, <1>8, <2>1, <2>3 DEF InReply, SampleAt, START
  <2> QED BY <1>7, <2>4 DEF Line
<1>12. CASE SendBit
  <2>1. state' = state /\ bit_num \in 0 .. DataBits - 1 /\ bit_num' = bit_num + 1
        /\ data_ofs' = data_ofs /\ clk_cycle' = 0 /\ clk_cycle = UART_WRAP
    BY <1>3, <1>12 DEF SendBit, UARTCycle
  <2>2. Sending' = Sending + 1
    <3>1. (bit_num + 1) * Cycle = bit_num * Cycle + Cycle
      BY <1>3, Distributes
    <3>2. Sending' = (bit_num + 1) * Cycle + 0
      BY <2>1 DEF Sending, Cycle
    <3> QED BY <1>3, <1>9, <2>1, <3>1, <3>2
  <2>3. slot' = DataBits => data_ofs' = 0 /\ Now' = SampleAt(DataBits) + 1 + Sending'
    BY <1>2, <1>3, <1>8, <1>9, <2>1, <2>2
  <2>4. bit_num' \in 0 .. START
    BY <1>3, <2>1
  <2>5. InReply'
    BY <1>2, <1>6, <1>8, <2>1, <2>3, <2>4 DEF InReply, SampleAt, START
  <2> QED BY <1>7, <2>5 DEF Line
<1>13. CASE SendStart \/ SendStop
  <2>1. bit_num >= DataBits /\ clk_cycle = UART_WRAP
    BY <1>3, <1>13 DEF SendStart, SendStop, UARTCycle
  <2>2. slot \notin 0 .. DataBits /\ slot' # DataBits
    BY <1>3, <1>8, <1>10, <2>1
  <2>3. RX = 1
    BY <2>2, <1>3, HostNumbers DEF RX, FrameTypes
  <2>4. state' \in {"IDLE", "WRITING"} /\ bit_num' \in 0 .. START
    BY <1>2, <1>3, <1>13 DEF SendStart, SendStop
  <2>5. CASE state' = "WRITING"
    <3>1. InReply'
      BY <1>6, <1>8, <2>2, <2>4, <2>5 DEF InReply, SampleAt, START
    <3> QED BY <1>7, <3>1 DEF Line
  <2>6. CASE state' = "IDLE"
    <3>1. QuietLine'
      BY <1>6, <1>8, <2>3, <2>6 DEF QuietLine
    <3> QED BY <1>7, <3>1 DEF Line
  <2> QED BY <2>4, <2>5, <2>6
<1> QED BY <1>1, <1>11, <1>12, <1>13

LEMMA LineStep ==
  ASSUME Timely, FrameTypes, Talk, Line, Next
  PROVE  Line' /\ Passes
BY FromQuietLine, FromAfterByte, FromFrameBegun, FromInFrame, FromInNoise, FromInReply DEF Line

-----------------------------------------------------------------------------
(* What the host hears next, in each of the phases of a reply. *)

LEMMA FromSilent ==
  ASSUME Timely, FrameTypes, Silent, Next
  PROVE  Talk' /\ garbled' = garbled
<1>1. HostHears /\ (Idle \/ Count \/ BurnCycle \/ SampleBit \/ TakeByte \/ TakeRequest)
  BY EdgesOf DEF Next, Silent
<1>2. ear' = -1 /\ heard' = << >> /\ replies' = 0 /\ garbled' = garbled /\ waiting' = (waiting \/ TakeRequest)
      /\ ~waiting
  BY <1>1 DEF HostHears, Silent
<1>3. CASE TakeRequest
  <2>1. waiting'
    BY <1>2, <1>3
  <2>2. state' = "WRITING" /\ bit_num' = 0 /\ clk_cycle' = 0 /\ local_TX' = 0 /\ data_ofs' = 0
        /\ frame_data' = Reply[1]
    BY <1>3 DEF TakeRequest, LastBit, UARTCycle
  <2>3. Starting'
    BY <1>2, <2>1, <2>2 DEF Starting
  <2> QED BY <1>2, <2>3 DEF Talk
<1>4. CASE Idle \/ Count \/ BurnCycle \/ SampleBit \/ TakeByte
  <2>1. state' \in {"IDLE", "READING"} /\ local_TX' = 1
    BY <1>4 DEF Silent, Idle, Count, BurnCycle, SampleBit, TakeByte
  <2>2. ~TakeRequest
    BY <2>1 DEF TakeRequest
  <2>3. Silent'
    BY <1>2, <2>1, <2>2 DEF Silent
  <2> QED BY <1>2, <2>3 DEF Talk
<1> QED BY <1>1, <1>3, <1>4

LEMMA FromStarting ==
  ASSUME Timely, FrameTypes, Starting, Next
  PROVE  Talk' /\ garbled' = garbled
<1>1. HostHears /\ Count
  BY EdgesOf, Numbers DEF Next, Starting, SendStart, SendBit, SendStop, UARTCycle
<1>2. ear' = 0 /\ heard' = << >> /\ replies' = replies /\ garbled' = garbled
      /\ waiting' = (waiting \/ TakeRequest)
  BY <1>1 DEF HostHears, Starting
<1>3. state' = "WRITING" /\ bit_num' = 0 /\ clk_cycle' = 1 /\ local_TX' = 0 /\ data_ofs' = data_ofs
      /\ frame_data' = frame_data
  BY <1>1 DEF Count, Starting
<1>4. pace' = pace /\ pace \in Nat /\ DataBits \in Nat /\ data_ofs \in 0 .. Len(Reply) - 1
      /\ Cycle \in Nat /\ START = DataBits + 1
  BY HostNumbers, HostSteps, Numbers DEF Next, FrameTypes
<1>5. Heard'
  <2>1. Len(heard') = 0 /\ heard' \in Seq({0, 1})
    BY <1>2
  <2>2. (0 + 1) * pace + pace \div 2 >= 0
    BY <1>4
  <2>3. Len(heard') <= DataBits /\ ear' <= (Len(heard') + 1) * pace' + pace' \div 2
    BY <1>2, <1>4, <2>1, <2>2
  <2> QED BY <2>1, <2>3 DEF Heard
<1>6. ear' + 1 = Sending'
  BY <1>2, <1>3, Numbers DEF Sending, Cycle
<1>7. Hearing'
  <2>1. waiting' /\ replies' \in 0 .. Len(Reply) - 1 /\ replies' = data_ofs'
        /\ frame_data' = Reply[data_ofs' + 1]
    BY <1>2, <1>3, <1>4 DEF Starting
  <2>2. bit_num' \in 0 .. START /\ bit_num' # START /\ bit_num' = 0
    BY <1>3, <1>4
  <2> QED BY <1>2, <1>3, <1>5, <1>6, <2>1, <2>2 DEF Hearing, START
<1> QED BY <1>2, <1>7 DEF Talk

LEMMA FromResting ==
  ASSUME Timely, FrameTypes, Resting, Next
  PROVE  Talk' /\ garbled' = garbled
<1>1. HostHears /\ (Count \/ SendStart)
  BY EdgesOf, Numbers DEF Next, Resting, SendBit, SendStop
<1>2. ear' = -1 /\ heard' = << >> /\ replies' = replies /\ garbled' = garbled
      /\ waiting' = (waiting \/ TakeRequest)
  BY <1>1 DEF HostHears, Resting
<1>3. CASE Count
  <2>1. Resting'
    BY <1>2, <1>3 DEF Resting, Count, START
  <2> QED BY <1>2, <2>1 DEF Talk
<1>4. CASE SendStart
  <2>1. Starting'
    BY <1>2, <1>4 DEF Resting, SendStart, UARTCycle, Starting
  <2> QED BY <1>2, <2>1 DEF Talk
<1> QED BY <1>1, <1>3, <1>4

\* The host samples TX a bit and a half after the start bit, and then every bit.
LEMMA Samplings ==
  ASSUME Timely, FrameTypes, Hearing, NEW q, q = Len(heard) + 1
  PROVE  /\ q \in 1 .. DataBits + 1 /\ ear <= q * pace + pace \div 2
         /\ q * pace \in Nat /\ pace \div 2 \in Nat /\ pace \in Nat
         /\ Middle <=> ear = q * pace + pace \div 2
         /\ Middle => bit_num = q
         /\ q * pace + pace \div 2 + 1 < (q + 1) * Cycle
<1> DEFINE h == pace \div 2
           n == Len(heard)
<1>1. pace \in Nat /\ pace > 10 /\ DataBits \in Nat /\ n \in Nat /\ n <= DataBits /\ ear \in Nat
      /\ Cycle = UART_WRAP + 1 /\ UART_WRAP \in Nat /\ clk_cycle \in 0 .. UART_WRAP
  BY HostNumbers, Numbers DEF Hearing, Heard, FrameTypes
<1>2. h \in Nat /\ 2 * h <= pace
  BY <1>1
<1>3. q = n + 1 /\ ear <= (n + 1) * pace + h /\ (n # 0 => n * pace + h < ear)
  BY DEF Hearing, Heard
<1>4. n * pace \in Nat /\ q * pace = n * pace + pace /\ (n + 1) * pace = n * pace + pace
  BY <1>1, <1>3, Distributes
<1>5. Middle <=> ear >= pace /\ (ear - h) % pace = 0
  BY DEF Middle
<1>6. q \in 1 .. DataBits + 1 /\ q * pace + h + 1 \in q * Cycle .. (q + 1) * Cycle - 1
  <2>1. q \in 1 .. DataBits + 1
    BY <1>1, <1>3
  <2> QED BY <2>1 DEF Timely, FrameTypes, InTime, pace, Cycle
<1> HIDE DEF h, n
<1>7. Middle <=> ear = q * pace + h
  <2>1. CASE n * pace < ear - h
    <3>1. (ear - h) % pace = 0 <=> ear - h = (n + 1) * pace
      <4>1. ear - h \in Int /\ pace \in Int /\ pace > 0 /\ ear - h <= (n + 1) * pace
        BY <1>1, <1>2, <1>3, <1>4
      <4> QED BY <1>1, <2>1, <4>1, Multiple
    <3>2. ear = q * pace + h => ear >= pace
      BY <1>1, <1>2, <1>4
    <3>3. ear - h = (n + 1) * pace <=> ear = q * pace + h
      BY <1>1, <1>2, <1>4
    <3>4. (ear - h) % pace = 0 => ear >= pace
      BY <3>1, <3>2, <3>3
    <3> QED BY <1>5, <3>1, <3>3, <3>4
  <2>2. CASE ~(n * pace < ear - h)
    <3>1. n = 0 /\ n * pace = 0
      BY <1>1, <1>2, <1>3, <1>4, <2>2
    <3> QED BY <1>1, <1>2, <1>4, <1>5, <2>2, <3>1
  <2> QED BY <2>1, <2>2
<1>8. ASSUME Middle PROVE bit_num = q
  <2>1. ear + 1 = bit_num * Cycle + clk_cycle /\ bit_num \in Int
    BY Numbers DEF Hearing, Sending
  <2>2. ear + 1 = q * pace + h + 1
    BY <1>7, <1>8
  <2>3. (q + 1) * Cycle = q * Cycle + Cycle /\ q * Cycle \in Int /\ q \in Int /\ Cycle \in Nat
    BY <1>1, <1>6, Distributes
  <2> DEFINE t == ear + 1 - q * Cycle
  <2>4. t \in 0 .. Cycle - 1 /\ bit_num * Cycle + clk_cycle = q * Cycle + t
    BY <1>1, <1>6, <2>1, <2>2, <2>3
  <2>5. clk_cycle \in 0 .. Cycle - 1
    BY <1>1
  <2> HIDE DEF t
  <2> QED BY <2>1, <2>3, <2>4, <2>5, SamePlace
<1>9. q * pace + h + 1 < (q + 1) * Cycle
  <2>1. (q + 1) * Cycle \in Int /\ q * Cycle \in Int /\ q * pace \in Int
    BY <1>1, <1>4, <1>6
  <2> QED BY <1>2, <1>6, <2>1
<1> QED BY <1>1, <1>2, <1>3, <1>4, <1>6, <1>7, <1>8, <1>9 DEF h, n

\* A step of the controller while the host hears a byte and is not at its end.
LEMMA SendsOn ==
  ASSUME Timely, FrameTypes, Line, Hearing, Next,
         Len(heard) = DataBits => ~Middle
  PROVE  /\ ear + 2 = Sending' /\ bit_num' \in 0 .. START /\ ~TakeRequest
         /\ \/ /\ state' = "WRITING" /\ bit_num' # START
               /\ replies = data_ofs' /\ frame_data' = Reply[data_ofs' + 1]
               /\ local_TX' = IF bit_num' = 0 THEN 0 ELSE frame_data'[bit_num' - 1]
            \/ /\ state' = "WRITING" /\ bit_num' = START /\ local_TX' = 1
               /\ data_ofs' = replies + 1 /\ frame_data' = Reply[data_ofs' + 1]
            \/ /\ state' = "IDLE" /\ bit_num' = START /\ local_TX' = 1
               /\ replies + 1 = Len(Reply)
<1>1. DataBits \in Nat /\ DataBits >= 2 /\ STOP = DataBits /\ START = DataBits + 1
      /\ Cycle = UART_WRAP + 1 /\ UART_WRAP \in Nat /\ clk_cycle \in 0 .. UART_WRAP
      /\ data_ofs \in 0 .. Len(Reply) - 1
  BY Numbers DEF FrameTypes
<1>2. waiting /\ replies \in 0 .. Len(Reply) - 1 /\ ear \in Nat /\ ear + 1 = bit_num * Cycle + clk_cycle
      /\ bit_num \in 0 .. START
  BY DEF Hearing, Sending
<1>3. bit_num * Cycle \in Nat /\ (bit_num + 1) * Cycle = bit_num * Cycle + Cycle /\ bit_num \in Nat
  BY <1>1, <1>2, Distributes
<1>4. Sending' = bit_num' * Cycle + clk_cycle'
  BY DEF Sending, Cycle
\* The stop bit does not end before the host has heard it.
<1>5. ASSUME bit_num = START, clk_cycle = UART_WRAP PROVE FALSE
  <2> DEFINE q == Len(heard) + 1
             h == pace \div 2
  <2>1. q \in 1 .. DataBits + 1 /\ ear <= q * pace + h /\ q * pace \in Nat /\ h \in Nat /\ pace \in Nat
        /\ (Middle <=> ear = q * pace + h) /\ q * pace + h + 1 < (q + 1) * Cycle
        /\ (Middle => bit_num = q)
    BY Samplings
  <2>2. q + 1 <= START + 1 /\ q + 1 \in Int /\ START + 1 \in Int /\ Cycle \in Nat
    BY <1>1, <2>1
  <2>3. (q + 1) * Cycle <= (START + 1) * Cycle /\ (START + 1) * Cycle \in Int /\ (q + 1) * Cycle \in Int
    BY <2>2, TimesKeeps
  <2>4. ear + 2 = (START + 1) * Cycle
    BY <1>1, <1>2, <1>3, <1>5
  <2>5. Middle
    <3> HIDE DEF q, h
    <3>1. ear = q * pace + h
      BY <1>2, <2>1, <2>3, <2>4
    <3> QED BY <2>1, <3>1
  <2>6. Len(heard) = DataBits
    BY <1>1, <1>5, <2>1, <2>5 DEF Hearing, Heard
  <2> QED BY <2>5, <2>6
<1>6. ~TakeRequest /\ state \in {"WRITING", "IDLE"}
  BY DEF Hearing, TakeRequest, LastBit
<1>7. CASE state = "IDLE"
  <2>1. bit_num = START /\ local_TX = 1 /\ replies + 1 = Len(Reply)
    BY <1>7 DEF Hearing
  <2>2. RX = 1 /\ Idle
    BY <1>2, <1>7, EdgesOf DEF Line, QuietLine, AfterByte, FrameBegun, InFrame, InNoise, InReply, Next
  <2>3. state' = "IDLE" /\ bit_num' = START /\ local_TX' = 1 /\ clk_cycle' = clk_cycle + 1
    BY <1>5, <1>7, <2>1, <2>2 DEF Idle
  <2>4. ear + 2 = Sending'
    BY <1>1, <1>2, <1>3, <1>4, <2>1, <2>3
  <2> QED BY <1>1, <1>6, <2>1, <2>3, <2>4
<1>8. CASE state = "WRITING"
  <2>1. Count \/ SendStart \/ SendBit \/ SendStop
    BY <1>8, EdgesOf DEF Next
  <2>2. CASE Count
    <3>1. state' = "WRITING" /\ bit_num' = bit_num /\ frame_data' = frame_data /\ local_TX' = local_TX
          /\ data_ofs' = data_ofs /\ clk_cycle' = clk_cycle + 1
      BY <1>8, <2>2 DEF Count
    <3>2. ear + 2 = Sending'
      BY <1>1, <1>2, <1>3, <1>4, <3>1
    <3> QED BY <1>2, <1>6, <1>8, <3>1, <3>2 DEF Hearing
  <2>3. CASE SendStart
    BY <1>5, <2>3 DEF SendStart, UARTCycle
  <2>4. CASE SendBit
    <3>1. state' = "WRITING" /\ bit_num < DataBits /\ clk_cycle = UART_WRAP /\ clk_cycle' = 0
          /\ bit_num' = bit_num + 1 /\ local_TX' = frame_data[bit_num] /\ frame_data' = frame_data
          /\ data_ofs' = data_ofs
      BY <1>1, <1>8, <2>4 DEF SendBit, UARTCycle
    <3>2. ear + 2 = Sending'
      BY <1>1, <1>2, <1>3, <1>4, <3>1
    <3>3. bit_num # START /\ bit_num' \in 0 .. START /\ bit_num' # START /\ bit_num' # 0
          /\ bit_num' - 1 = bit_num
      BY <1>1, <1>3, <3>1
    <3>4. replies = data_ofs /\ frame_data = Reply[data_ofs + 1]
      BY <1>8, <3>3 DEF Hearing
    <3> QED BY <1>6, <3>1, <3>2, <3>3, <3>4
  <2>5. CASE SendStop
    <3>1. bit_num = STOP /\ clk_cycle = UART_WRAP /\ clk_cycle' = 0 /\ local_TX' = 1 /\ bit_num' = START
      BY <2>5 DEF SendStop, UARTCycle
    <3>2. ear + 2 = Sending'
      BY <1>1, <1>2, <1>3, <1>4, <3>1
    <3>3. replies = data_ofs
      BY <1>1, <1>8, <3>1 DEF Hearing
    <3>4. CASE data_ofs = Len(Reply) - 1
      <4>1. state' = "IDLE"
        BY <2>5, <3>4 DEF SendStop
      <4> QED BY <1>1, <1>2, <1>6, <3>1, <3>2, <3>3, <3>4, <4>1
    <3>5. CASE data_ofs # Len(Reply) - 1
      <4>1. state' = "WRITING" /\ frame_data' = Reply[data_ofs + 2] /\ data_ofs' = data_ofs + 1
        BY <1>8, <2>5, <3>5 DEF SendStop
      <4>2. data_ofs' + 1 = data_ofs + 2 /\ START \in 0 .. START
        BY <1>1, <4>1
      <4> QED BY <1>6, <3>1, <3>2, <3>3, <4>1, <4>2
    <3> QED BY <3>4, <3>5
  <2> QED BY <2>1, <2>2, <2>3, <2>4, <2>5
<1> QED BY <1>6, <1>7, <1>8

LEMMA FromHearing ==
  ASSUME Timely, FrameTypes, Line, Hearing, Next
  PROVE  Talk' /\ (~garbled => ~garbled')
<1> DEFINE n == Len(heard)
           h == pace \div 2
<1>1. HostHears /\ (state = "IDLE" => Idle)
      /\ (state = "WRITING" => Count \/ SendStart \/ SendBit \/ SendStop)
  BY EdgesOf DEF Next
<1>2. DataBits \in Nat /\ DataBits >= 2 /\ START = DataBits + 1 /\ STOP = DataBits
      /\ pace \in Nat /\ pace > 10 /\ pace' = pace /\ data_ofs \in 0 .. Len(Reply) - 1
  BY Numbers, HostNumbers, HostSteps DEF Next, FrameTypes
<1>3. waiting /\ replies \in 0 .. Len(Reply) - 1 /\ ear \in Nat /\ ear # -1 /\ heard \in Seq({0, 1})
      /\ n \in Nat /\ n <= DataBits /\ (n # 0 => n * pace + h < ear)
      /\ (\A i \in 1 .. n : heard[i] = Reply[replies + 1][i - 1])
  BY DEF Hearing, Heard
<1>4. n + 1 \in 1 .. DataBits + 1 /\ ear <= (n + 1) * pace + h /\ (n + 1) * pace \in Nat /\ h \in Nat
      /\ (Middle <=> ear = (n + 1) * pace + h) /\ (Middle => bit_num = n + 1)
  BY Samplings
<1> HIDE DEF n, h
<1>5. CASE ~Middle \/ n # DataBits
  <2>1. ear' = ear + 1 /\ heard' = (IF Middle THEN Append(heard, local_TX) ELSE heard)
        /\ replies' = replies /\ waiting' = waiting /\ garbled' = garbled
    BY <1>1, <1>3, <1>5 DEF HostHears, n
  <2>2. Len(heard) = DataBits => ~Middle
    BY <1>5 DEF n
  <2>3. Heard'
    <3>1. CASE ~Middle
      <4>1. heard' = heard /\ ear + 1 <= (n + 1) * pace + h /\ n * pace \in Int
        BY <1>2, <1>3, <1>4, <2>1, <3>1
      <4>2. heard' \in Seq({0, 1}) /\ Len(heard') = n /\ ear' <= (n + 1) * pace' + h
            /\ (n # 0 => n * pace' + h < ear')
        BY <1>2, <1>3, <1>4, <2>1, <4>1 DEF n
      <4>3. \A i \in 1 .. n : heard'[i] = Reply[replies' + 1][i - 1]
        BY <1>3, <2>1, <4>1
      <4> QED BY <1>2, <1>3, <4>2, <4>3 DEF Heard, h
    <3>2. CASE Middle
      <4>1. ear = (n + 1) * pace + h /\ bit_num = n + 1 /\ n + 1 <= DataBits
        BY <1>3, <1>4, <1>2, <1>5, <3>2
      <4>2. local_TX = Reply[replies + 1][n] /\ local_TX \in {0, 1}
        <5>1. state = "WRITING" /\ bit_num # START /\ bit_num # 0 /\ bit_num - 1 = n
              /\ n \in 0 .. DataBits - 1
          BY <1>2, <1>3, <4>1 DEF Hearing
        <5>2. frame_data = Reply[replies + 1] /\ local_TX = frame_data[n]
          BY <5>1 DEF Hearing
        <5> QED BY <5>1, <5>2 DEF FrameTypes
      <4>3. heard' = Append(heard, local_TX) /\ Len(heard') = n + 1 /\ heard' \in Seq({0, 1})
            /\ (\A i \in 1 .. n : heard'[i] = heard[i]) /\ heard'[n + 1] = local_TX
        BY <1>3, <2>1, <3>2, <4>2 DEF n
      <4>4. \A i \in 1 .. n + 1 : heard'[i] = Reply[replies + 1][i - 1]
        BY <1>3, <4>2, <4>3
      <4>5. (n + 1 + 1) * pace = (n + 1) * pace + pace /\ (n + 1) * pace + h < ear'
            /\ ear' <= (n + 1 + 1) * pace + h
        <5>1. (n + 1 + 1) * pace = (n + 1) * pace + pace
          BY <1>2, <1>4, Distributes
        <5> QED BY <1>2, <1>3, <1>4, <2>1, <4>1, <5>1
      <4> QED BY <1>2, <2>1, <4>1, <4>3, <4>4, <4>5 DEF Heard, h
    <3> QED BY <3>1, <3>2
  <2>4. Hearing'
    <3>1. ear + 2 = Sending' /\ bit_num' \in 0 .. START
      BY <2>2, SendsOn
    <3>2. ear' + 1 = Sending' /\ ear' \in Nat
      BY <1>3, <2>1, <3>1
    <3> QED BY <1>3, <2>1, <2>2, <2>3, <3>1, <3>2, SendsOn DEF Hearing, START
  <2> QED BY <2>1, <2>4 DEF Talk
<1>6. CASE Middle /\ n = DataBits
  <2>1. bit_num = START /\ local_TX = 1
    BY <1>2, <1>4, <1>6 DEF Hearing
  <2>2. heard = [i \in 1 .. DataBits |-> Reply[replies + 1][i - 1]]
    <3>1. heard = [i \in 1 .. n |-> heard[i]]
      BY <1>3 DEF n
    <3> QED BY <1>3, <1>6, <3>1
  <2>3. ear' = -1 /\ heard' = << >> /\ replies' = (replies + 1) % Len(Reply)
        /\ waiting' = (waiting /\ replies + 1 # Len(Reply)) /\ (~garbled => ~garbled')
    <3>1. local_TX = 1 /\ replies < Len(Reply)
      BY <1>3, <2>1, FrameAssumption, BytesAssumption
    <3>2. Len(heard) = DataBits /\ Middle
      BY <1>6 DEF n
    <3> QED BY <1>1, <1>3, <2>2, <3>1, <3>2 DEF HostHears
  <2>4. Len(Reply) \in Nat /\ Len(Reply) > 0
    BY FrameAssumption, BytesAssumption
  <2>5. CASE state = "WRITING"
    <3>1. data_ofs = replies + 1 /\ frame_data = Reply[data_ofs + 1]
      BY <2>1, <2>5 DEF Hearing
    <3>2. replies' = data_ofs /\ waiting'
      <4>1. replies + 1 # Len(Reply) /\ (replies + 1) % Len(Reply) = data_ofs
        BY <1>2, <1>3, <2>4, <3>1
      <4> QED BY <1>3, <2>3, <4>1
    <3>3. Count \/ SendStart
      BY <1>1, <1>2, <2>1, <2>5 DEF SendBit, SendStop
    <3>4. CASE Count
      <4>1. Resting'
        BY <2>1, <2>3, <2>5, <3>1, <3>2, <3>4 DEF Resting, Count, START
      <4> QED BY <2>3, <4>1 DEF Talk
    <3>5. CASE SendStart
      <4>1. Starting'
        BY <2>3, <2>5, <3>1, <3>2, <3>5 DEF Starting, SendStart, UARTCycle
      <4> QED BY <2>3, <4>1 DEF Talk
    <3> QED BY <3>3, <3>4, <3>5
  <2>6. CASE state = "IDLE"
    <3>1. replies + 1 = Len(Reply)
      BY <2>1, <2>6 DEF Hearing
    <3>2. replies' = 0 /\ ~waiting'
      <4>1. (replies + 1) % Len(Reply) = 0
        BY <2>4, <3>1
      <4> QED BY <2>3, <3>1, <4>1
    <3>3. state' \in {"IDLE", "READING"} /\ local_TX' = 1
      BY <1>1, <2>1, <2>6 DEF Idle
    <3>4. Silent'
      BY <2>3, <3>2, <3>3 DEF Silent
    <3> QED BY <2>3, <3>4 DEF Talk
  <2> QED BY <2>5, <2>6 DEF Hearing
<1> QED BY <1>5, <1>6

LEMMA TalkStep ==
  ASSUME Timely, FrameTypes, Line, Talk, Next
  PROVE  Talk' /\ (~garbled => ~garbled')
BY FromSilent, FromStarting, FromHearing, FromResting DEF Talk

-----------------------------------------------------------------------------
(* The types. *)

LEMMA TypesStep ==
  ASSUME Timely, FrameTypes, Line, Next
  PROVE  FrameTypes'
<1>1. /\ peer' = peer /\ pace' = pace /\ Rest' = Rest
      /\ slot' \in -1 .. DataBits + peer.stop
      /\ timer' \in 0 .. (IF slot' = -1 THEN Rest ELSE pace - 1)
      /\ out' \in peer.bytes
  BY HostSteps DEF Next
<1>2. UART_WRAP \in Nat /\ DataBits \in Nat /\ DataBits >= 2 /\ STOP = DataBits /\ START = DataBits + 1
      /\ BURN = DataBits + 2 /\ UART_WRAP \div 2 \in 0 .. UART_WRAP /\ RX \in {0, 1}
  BY Numbers, LineLevel DEF Half
<1>3. clk_cycle \in 0 .. UART_WRAP /\ bit_num \in 0 .. BURN /\ data_ofs \in 0 .. Len(Reply) - 1
      /\ frame_data \in [0 .. DataBits - 1 -> {0, 1}]
  BY DEF FrameTypes
<1>4. Len(Reply) \in Nat /\ Len(Reply) > 0
      /\ (\A i \in 1 .. Len(Reply) : Reply[i] \in [0 .. DataBits - 1 -> {0, 1}])
  BY FrameAssumption, BytesAssumption
<1>5. clk_cycle' \in 0 .. UART_WRAP
  BY <1>2, <1>3 DEF Next, Edge, Idle, Count, BurnCycle, SampleBit, TakeByte, TakeRequest, LastBit,
     SendStart, SendBit, SendStop, UARTCycle
<1>6. bit_num' \in 0 .. BURN
  BY <1>2, <1>3 DEF Next, Edge, Idle, Count, BurnCycle, SampleBit, TakeByte, TakeRequest,
     SendStart, SendBit, SendStop
<1>7. data_ofs' \in 0 .. Len(Reply) - 1
  BY <1>3, <1>4 DEF Next, Edge, Idle, Count, BurnCycle, SampleBit, TakeByte, TakeRequest,
     SendStart, SendBit, SendStop
<1>8. frame_data' \in [0 .. DataBits - 1 -> {0, 1}]
  <2>1. CASE frame_data' = frame_data
    BY <1>3, <2>1
  <2>2. CASE SampleBit \/ TakeByte
    <3>1. \E i \in Int : frame_data' = [frame_data EXCEPT ![i] = RX]
      BY <1>2, <1>3, <2>2 DEF SampleBit, TakeByte, Byte
    <3> QED BY <1>2, <1>3, <3>1
  <2>3. CASE TakeRequest
    BY <1>4, <2>3 DEF TakeRequest
  <2>4. CASE SendStop
    <3>1. \/ frame_data' = frame_data
          \/ data_ofs + 2 \in 1 .. Len(Reply) /\ frame_data' = Reply[data_ofs + 2]
      BY <1>3, <1>4, <2>4 DEF SendStop
    <3> QED BY <1>3, <1>4, <3>1
  <2> QED BY <2>1, <2>2, <2>3, <2>4 DEF Next, Edge, Idle, Count, BurnCycle, SendStart, SendBit
<1> QED BY <1>1, <1>5, <1>6, <1>7, <1>8 DEF FrameTypes

-----------------------------------------------------------------------------
(* The invariant and what follows from it. *)

LEMMA InitInv == ASSUME Timely, Init PROVE IInv
<1>1. pace \in Nat /\ pace > 10 /\ peer.stop \in Nat /\ peer.gap \in Nat /\ Len(Reply) > 0
      /\ Len(Reply) \in Nat
  BY FrameAssumption, BytesAssumption DEF Init, Timely, InTime, pace
<1>2. DataBits \in Nat /\ DataBits >= 2 /\ UART_WRAP \in Nat /\ BURN = DataBits + 2
  BY Numbers
<1>3. Rest \in Nat
  BY <1>1 DEF Rest
<1>4. FrameTypes
  BY <1>1, <1>2, <1>3 DEF Init, FrameTypes
<1>5. QuietLine
  BY <1>2 DEF Init, QuietLine, RX
<1>6. Silent
  BY DEF Init, Silent
<1> QED BY <1>4, <1>5, <1>6 DEF IInv, Line, Talk, Init

LEMMA StepInv == ASSUME Timely, IInv, Next PROVE IInv' /\ Passes
BY LineStep, TalkStep, TypesStep DEF IInv

LEMMA StutterInv == ASSUME IInv, UNCHANGED vars PROVE IInv'
<1>1. pace' = pace /\ Rest' = Rest /\ RX' = RX /\ Now' = Now /\ Place' = Place
  BY DEF vars, chip, host, pace, Rest, RX, Now, Place
<1>2. Elapsed' = Elapsed /\ Sending' = Sending
  BY <1>1 DEF vars, chip, host, Elapsed, Sending
<1>3. FrameTypes'
  BY <1>1 DEF IInv, vars, chip, host, FrameTypes
<1>4. Line'
  BY <1>1, <1>2 DEF IInv, vars, chip, host, Line, QuietLine, AfterByte, FrameBegun, InFrame, InNoise,
     InReply, SampleAt, START
<1>5. Talk'
  BY <1>1, <1>2 DEF IInv, vars, chip, host, Talk, Silent, Starting, Hearing, Heard, Resting, START
<1> QED BY <1>3, <1>4, <1>5 DEF IInv, vars, host

LEMMA InvTypes == ASSUME Timely, IInv PROVE TypeOK
<1>1. /\ pace \in Nat /\ DataBits \in Nat /\ STOP = DataBits
  BY HostNumbers, Numbers DEF IInv
<1>2. local_TX \in {0, 1}
  <2>1. CASE Hearing
    <3>1. CASE state = "WRITING" /\ bit_num # START /\ bit_num # 0
      <4>1. bit_num - 1 \in 0 .. DataBits - 1
        BY <1>1, <2>1, <3>1 DEF Hearing, START
      <4> QED BY <2>1, <3>1, <4>1 DEF Hearing, IInv, FrameTypes
    <3> QED BY <2>1, <3>1 DEF Hearing
  <2> QED BY <2>1 DEF IInv, Talk, Silent, Starting, Resting
<1>3. state \in {"IDLE", "READING", "WRITING"}
  BY DEF IInv, Line, QuietLine, AfterByte, FrameBegun, InFrame, InNoise, InReply
<1>4. ear \in -1 .. pace * (DataBits + 2)
  <2>1. CASE ear = -1
    <3>1. pace * (DataBits + 2) \in Nat
      BY <1>1
    <3> QED BY <2>1, <3>1
  <2>2. CASE Hearing
    <3> DEFINE q == Len(heard) + 1
    <3>1. q \in 1 .. DataBits + 1 /\ ear <= q * pace + pace \div 2 /\ q * pace \in Nat /\ ear \in Nat
      BY <2>2, Samplings DEF IInv, Hearing
    <3> HIDE DEF q
    <3>2. q * pace + pace <= (DataBits + 2) * pace
      BY <1>1, <3>1, TimesLess
    <3>3. pace \div 2 <= pace /\ pace \div 2 \in Nat /\ pace * (DataBits + 2) = (DataBits + 2) * pace
          /\ (DataBits + 2) * pace \in Int
      BY <1>1
    <3> QED BY <1>1, <3>1, <3>2, <3>3
  <2> QED BY <2>1, <2>2 DEF IInv, Talk, Silent, Starting, Resting
<1> QED BY <1>2, <1>3, <1>4 DEF IInv, FrameTypes, TypeOK

LEMMA InvSamples == ASSUME Timely, IInv PROVE SamplesInPlace
<1>1. SUFFICES ASSUME wire # None, state = "READING", clk_cycle = UART_WRAP
               PROVE  slot = Place /\ 10 * timer \in pace .. 9 * pace
  BY DEF SamplesInPlace, Place
<1>2. bit_num \in 0 .. DataBits - 1 \union {BURN} /\ Now = Elapsed /\ FrameTypes
  BY <1>1 DEF IInv, Line, QuietLine, AfterByte, FrameBegun, InFrame, InNoise, InReply
<1>3. Place \in 0 .. DataBits /\ Now = SampleAt(Place)
  BY <1>1, <1>2, Reading
<1>4. /\ Place * pace + 1 < Now /\ Now + 1 < (Place + 1) * pace /\ Place * pace \in Nat
      /\ 10 * (Now - Place * pace) \in pace .. 9 * pace /\ Now \in Nat /\ (Place + 1) * pace \in Int
  BY <1>2, <1>3, Samples, HostNumbers
<1>5. slot = Place /\ timer = Now - Place * pace
  <2>1. Place * pace <= Now /\ Now < (Place + 1) * pace
    BY <1>4
  <2> QED BY <1>2, <1>3, <2>1, SlotAt
<1> QED BY <1>4, <1>5

THEOREM Invariance == Timely => (Spec => []IInv)
<1>1. SUFFICES ASSUME Timely PROVE Spec => []IInv
  OBVIOUS
<1>2. Init => IInv
  BY <1>1, InitInv
<1>3. IInv /\ [Next]_vars => IInv'
  BY <1>1, StepInv, StutterInv
<1> QED BY <1>2, <1>3, PTL DEF Spec

\* The types of every reachable state, for hosts that are in time.
THEOREM TypesOK == Timely => (Spec => []TypeOK)
<1>1. SUFFICES ASSUME Timely PROVE Spec => []TypeOK
  OBVIOUS
<1>2. IInv => TypeOK
  BY <1>1, InvTypes
<1> QED BY <1>1, <1>2, Invariance, PTL

\* The controller samples every bit of a frame while the host sends that bit, a
\* tenth of the bit or more from its ends: for every frame of a host in time,
\* however long it goes on, whether it leaves stop bits and gaps or not.
THEOREM BitsAreSampledInPlace == Timely => (Spec => []SamplesInPlace)
<1>1. SUFFICES ASSUME Timely PROVE Spec => []SamplesInPlace
  OBVIOUS
<1>2. IInv => SamplesInPlace
  BY <1>1, InvSamples
<1> QED BY <1>1, <1>2, Invariance, PTL

\* A host in time hears exactly the bytes of the reply, each of them framed by a
\* start and a stop bit.
THEOREM RepliesAreHeard == Timely => (Spec => []HostHearsReply)
<1>1. SUFFICES ASSUME Timely PROVE Spec => []HostHearsReply
  OBVIOUS
<1>2. IInv => HostHearsReply
  BY DEF IInv, HostHearsReply
<1> QED BY <1>1, <1>2, Invariance, PTL

\* The line carries the host's characters as CharLink says: each one arrives once,
\* unchanged, and before the next begins; a last bit that looks like a start bit
\* delivers nothing.  That every one does arrive needs fairness and is left to TLC.
THEOREM CharactersInOrder == Timely => (Spec => BytesInOrder)
<1>1. SUFFICES ASSUME Timely PROVE Spec => BytesInOrder
  OBVIOUS
<1>2. Init => Link!Init
  BY DEF Init, Link!Init
<1>3. IInv /\ [Next]_vars => [Link!Next]_<<wire, arrived>>
  BY <1>1, StepInv DEF Passes, vars, host
<1> QED BY <1>1, <1>2, <1>3, Invariance, PTL DEF Spec, BytesInOrder
=============================================================================
