---------------------------- MODULE LcdSpiProofs ----------------------------
(***************************************************************************)
(* What the LCD shows is what the driver sent: for every SCK period, byte  *)
(* length, FIFO depth and amount of data, every byte leaves the FIFO when  *)
(* it is on the wires completely, with CS and D/C as the driver set them.  *)
(***************************************************************************)
EXTENDS LcdSpi, SequenceTheorems, TLAPS

(* A byte on the wires: of its bits the device has shifted in the first    *)
(* ones.  With SCK high MOSI still shows the last of them; with SCK low it *)
(* shows the next one.                                                     *)
ToSend == IF sck THEN bit_counter_q + 1 ELSE bit_counter_q
SendInv ==
  /\ Len(shifted) = Bits - bit_counter_q
  /\ \A i \in 1 .. Bits - bit_counter_q : shifted[i] = Head(tx_fifo)[i]
  /\ \A i \in 1 .. ToSend : current_byte_q[i] = Head(tx_fifo)[i + (Bits - ToSend)]

(* The controller holds on to the byte it sends until it pops it, in the   *)
(* first cycle of STOP.                                                    *)
WiresInv ==
  /\ state_q \in {"START", "SEND"} => tx_fifo # <<>> /\ ~next_tx_byte_q
  /\ state_q \in {"IDLE", "START"} => shifted = <<>>
  /\ state_q = "START" /\ ~sck => current_byte_q = Head(tx_fifo)
  /\ state_q = "SEND" => SendInv
  /\ state_q = "STOP" /\ next_tx_byte_q => shifted = <<>>
  /\ state_q = "STOP" /\ ~next_tx_byte_q => tx_fifo # <<>> /\ shifted = Head(tx_fifo)

(* The calls to come: every spi_write is made of the bytes that the        *)
(* gpio_write before it selects.                                           *)
ByteFor(dc) == IF dc THEN Pixel ELSE Command
Data == Seq({Command, Pixel}) \ {<<>>}
Call == [fn : {"gpio_write"}, cs : BOOLEAN, dc : BOOLEAN] \cup [fn : {"spi_write"}, data : Data]
IsTransfer(c, cs, dc) == c.fn = "spi_write" => ~cs /\ c.data \in Seq({ByteFor(dc)})
Selects(c, d) == d.fn = "spi_write" => c.fn = "gpio_write" /\ IsTransfer(d, c.cs, c.dc)
Ordered(s) == s \in Seq(Call) /\ \A i \in 1 .. Len(s) - 1 : Selects(s[i], s[i + 1])

GpioStage == stage \in {"dc_read", "dc_write", "cs_read", "cs_write"}
SpiStage == stage \in {"wait", "poll_full", "push", "drain"}

CallsInv ==
  /\ Ordered(calls)
  /\ calls # <<>> => IsTransfer(call, gpio.cs, gpio.dc)
  /\ GpioStage => calls # <<>> /\ call.fn = "gpio_write"
  /\ SpiStage => calls # <<>> /\ call.fn = "spi_write"
  /\ stage \in {"cs_read", "cs_write"} => gpio.dc = call.dc
  /\ stage = "cs_write" => bits.dc = call.dc

(* What is in the FIFO is what the pins say, and they change only while it *)
(* is empty.                                                               *)
FifoInv == /\ stage = "next" \/ GpioStage => tx_fifo = <<>>
           /\ tx_fifo # <<>> => ~gpio.cs /\ tx_fifo \in Seq({ByteFor(gpio.dc)})

Inv == TypeOK /\ WiresInv /\ CallsInv /\ FifoInv /\ NeverLost
---------------------------------------------------------------------------
LEMMA ByteIsSeq ==
  ASSUME NEW b \in Byte
  PROVE  b \in Seq(BOOLEAN) /\ Len(b) = Bits
  BY SpiAssumption, IsASeq DEF Byte

LEMMA ShiftLeftBits ==
  ASSUME NEW b \in Byte, NEW in \in BOOLEAN
  PROVE  /\ ShiftLeft(b, in) \in Byte
         /\ \A i \in 1 .. Bits - 1 : ShiftLeft(b, in)[i] = b[i + 1]
<1>1. Bits \in Nat \ {0} /\ b \in Seq(BOOLEAN) /\ Len(b) = Bits
  BY SpiAssumption, ByteIsSeq
<1> DEFINE rest == Tail(b)
<1>2. /\ rest \in Seq(BOOLEAN) /\ Len(rest) = Bits - 1
      /\ \A i \in 1 .. Bits - 1 : rest[i] = b[i + 1]
  BY <1>1
<1> HIDE DEF rest
<1>3. /\ Append(rest, in) \in Seq(BOOLEAN) /\ Len(Append(rest, in)) = Bits
      /\ \A i \in 1 .. Bits - 1 : Append(rest, in)[i] = rest[i]
  BY <1>1, <1>2
<1>4. Append(rest, in) \in [1 .. Bits -> BOOLEAN]
  BY <1>1, <1>3, LenProperties
<1> QED
  BY <1>2, <1>3, <1>4 DEF Byte, ShiftLeft, rest

LEMMA SmallMod ==
  ASSUME NEW n \in Nat, NEW m \in Nat, n < m
  PROVE  n % m = n
  BY SMT
---------------------------------------------------------------------------
(* The clock edge, seen from the state machine.  SCK stops only while      *)
(* nothing is sent and nothing waits.                                      *)
Active == state_q = "SEND" \/ tx_fifo # <<>>

LEMMA Edges ==
  ASSUME SpiTypeOK, NEW wvalid, NEW wdata, SpiClock(wvalid, wdata)
  PROVE  /\ \/ /\ count_at_limit /\ ~sck /\ Advance /\ current_byte_q' = current_byte_q
               /\ count' = 0 /\ (Active => sck')
            \/ /\ count_at_limit /\ sck /\ current_byte_q' = current_byte_d
               /\ UNCHANGED <<state_q, bit_counter_q>>
               /\ count' = 0 /\ (Active => ~sck')
            \/ /\ ~count_at_limit /\ UNCHANGED <<state_q, bit_counter_q, current_byte_q>>
               /\ Active => (sck' <=> sck)
         /\ ~count_at_limit => count' = 0 \/ count' = count + 1
         /\ sck' \in BOOLEAN
         /\ next_tx_byte_q' \in BOOLEAN /\ (next_tx_byte_q' <=> state_q = "STOP")
<1>1. \/ ~Active /\ count' = 0 /\ sck' = FALSE
      \/ Active /\ count_at_limit /\ count' = 0 /\ sck' = ~sck
      \/ Active /\ ~count_at_limit /\ count' = count + 1 /\ sck' = sck
  BY Zenon DEF SpiClock, SckClock, Active, sck_en, start_i
<1>2. sck \in BOOLEAN
  BY DEF SpiTypeOK
<1>3. sck' \in BOOLEAN
  BY <1>1, <1>2, Zenon
<1>4. next_tx_byte_q' \in BOOLEAN /\ (next_tx_byte_q' <=> state_q = "STOP")
  <2>1. next_tx_byte_q' = (state_q = "STOP")
    BY Zenon DEF SpiClock, next_tx_byte
  <2> QED
    BY <2>1, Zenon
<1>5. \/ count_at_limit /\ ~sck /\ Advance /\ current_byte_q' = current_byte_q
      \/ /\ count_at_limit /\ sck /\ current_byte_q' = current_byte_d
         /\ UNCHANGED <<state_q, bit_counter_q>>
      \/ ~count_at_limit /\ UNCHANGED <<state_q, bit_counter_q, current_byte_q>>
  BY Zenon DEF SpiClock, OnPosedge, OnNegedge, NoEdge, sck_pos, sck_neg
<1>6. CASE count_at_limit /\ ~sck /\ Advance /\ current_byte_q' = current_byte_q
  <2>1. count' = 0 /\ (Active => sck')
    BY <1>1, <1>6, Zenon
  <2> QED
    BY <1>3, <1>4, <1>6, <2>1, Zenon
<1>7. CASE /\ count_at_limit /\ sck /\ current_byte_q' = current_byte_d
           /\ UNCHANGED <<state_q, bit_counter_q>>
  <2>1. count' = 0 /\ (Active => ~sck')
    BY <1>1, <1>7, Zenon
  <2> QED
    BY <1>3, <1>4, <1>7, <2>1, Zenon
<1>8. CASE ~count_at_limit /\ UNCHANGED <<state_q, bit_counter_q, current_byte_q>>
  <2>1. Active => (sck' <=> sck)
    BY <1>1, <1>8, Zenon
  <2>2. count' = 0 \/ count' = count + 1
    BY <1>1, <1>8, Zenon
  <2> QED
    BY <1>3, <1>4, <1>8, <2>1, <2>2, Zenon
<1> QED
  BY <1>5, <1>6, <1>7, <1>8

LEMMA ByteStep ==
  ASSUME SpiTypeOK, NEW wvalid, NEW wdata, SpiClock(wvalid, wdata)
  PROVE  current_byte_q' \in Byte
<1>1. current_byte_q \in Byte /\ tx_fifo \in Seq(Byte) /\ ZeroByte \in Byte
  BY DEF SpiTypeOK, ZeroByte, Byte
<1>2. QueueOut(tx_fifo, ZeroByte) \in Byte
  BY <1>1 DEF QueueOut
<1>3. current_byte_d \in Byte
  BY <1>1, <1>2, ShiftLeftBits, Zenon DEF current_byte_d
<1> QED
  BY <1>1, <1>3, Edges, Zenon

(* The device shifts a bit in when SCK rises, which it does in SEND only   *)
LEMMA Shifts ==
  ASSUME SpiTypeOK, NEW wvalid, NEW wdata, WiresClock(wvalid, wdata)
  PROVE  shifted' = IF state_q = "STOP" /\ ~next_tx_byte_q THEN <<>>
                    ELSE IF ~(state_q = "SEND" /\ sck) /\ state_q' = "SEND" /\ sck'
                         THEN Append(shifted, current_byte_q'[1]) ELSE shifted
<1>1. tx_fifo_rready <=> state_q = "STOP" /\ ~next_tx_byte_q
  BY Zenon DEF tx_fifo_rready, next_tx_byte
<1>2. SckRises <=> ~(state_q = "SEND" /\ sck) /\ state_q' = "SEND" /\ sck'
  BY Zenon DEF SckRises, sck_o, sck_en
<1>3. ASSUME state_q' = "SEND", current_byte_q'[1] \in BOOLEAN
      PROVE  spi_tx_o' = current_byte_q'[1]
  BY <1>3, Zenon DEF spi_tx_o
<1>4. current_byte_q'[1] \in BOOLEAN
  BY SpiAssumption, ByteStep DEF WiresClock, Byte
<1> DEFINE rises == ~(state_q = "SEND" /\ sck) /\ state_q' = "SEND" /\ sck'
<1>5. shifted' = IF tx_fifo_rready THEN <<>>
                 ELSE IF SckRises THEN Append(shifted, spi_tx_o') ELSE shifted
  BY Zenon DEF WiresClock
<1>6. rises => spi_tx_o' = current_byte_q'[1]
  BY <1>3, <1>4
<1> QED
  BY <1>1, <1>2, <1>5, <1>6, Zenon
---------------------------------------------------------------------------
(* The FIFO behind the controller: the byte that is sent stays its head    *)
LEMMA FifoStep ==
  ASSUME NEW S, tx_fifo \in Seq(S), Len(tx_fifo) <= TxFifoDepth,
         NEW wvalid \in BOOLEAN, NEW wdata, wvalid => wdata \in S, SpiClock(wvalid, wdata)
  PROVE  /\ tx_fifo' \in Seq(S) /\ Len(tx_fifo') <= TxFifoDepth
         /\ ~wvalid => Len(tx_fifo') <= Len(tx_fifo)
         /\ tx_fifo # <<>> /\ ~(state_q = "STOP" /\ ~next_tx_byte_q) =>
              tx_fifo' # <<>> /\ Head(tx_fifo') = Head(tx_fifo)
<1> DEFINE rest == IF tx_fifo_rready /\ tx_fifo # <<>> THEN Tail(tx_fifo) ELSE tx_fifo
<1>1. tx_fifo_rready <=> state_q = "STOP" /\ ~next_tx_byte_q
  BY Zenon DEF tx_fifo_rready, next_tx_byte
<1>2. \/ rest = Tail(tx_fifo) /\ tx_fifo # <<>> /\ state_q = "STOP" /\ ~next_tx_byte_q
      \/ rest = tx_fifo
  BY <1>1, Zenon
<1>3. \/ wvalid /\ Len(tx_fifo) < TxFifoDepth /\ tx_fifo' = Append(rest, wdata)
      \/ tx_fifo' = rest
  BY Zenon DEF SpiClock, QueueStep, Accepts
<1> HIDE DEF rest
<1>4. /\ rest \in Seq(S) /\ Len(rest) <= Len(tx_fifo) /\ Len(tx_fifo) \in Nat /\ TxFifoDepth \in Nat
      /\ tx_fifo # <<>> /\ ~(state_q = "STOP" /\ ~next_tx_byte_q) =>
           rest # <<>> /\ Head(rest) = Head(tx_fifo)
  BY <1>2, SpiAssumption
<1>5. CASE wvalid /\ Len(tx_fifo) < TxFifoDepth /\ tx_fifo' = Append(rest, wdata)
  <2>1. /\ tx_fifo' \in Seq(S) /\ Len(tx_fifo') = Len(rest) + 1
        /\ rest # <<>> => tx_fifo' # <<>> /\ Head(tx_fifo') = Head(rest)
    BY <1>4, <1>5
  <2>2. Len(tx_fifo') <= TxFifoDepth
    BY <1>4, <1>5, <2>1
  <2> QED
    BY <1>4, <1>5, <2>1, <2>2
<1>6. CASE tx_fifo' = rest
  BY <1>4, <1>6
<1> QED
  BY <1>3, <1>5, <1>6

LEMMA SpiTypeStep ==
  ASSUME SpiTypeOK, NEW wvalid \in BOOLEAN, NEW wdata, wvalid => wdata \in Byte,
         SpiClock(wvalid, wdata)
  PROVE  SpiTypeOK'
<1> USE SpiAssumption
<1>1. count' \in 0 .. ToggleCount - 1
  <2>1. count' = 0 \/ (~(count >= ToggleCount - 1) /\ count' = count + 1)
    BY Edges, Zenon DEF count_at_limit
  <2> QED
    BY <2>1 DEF SpiTypeOK
<1>2. sck' \in BOOLEAN /\ next_tx_byte_q' \in BOOLEAN
  BY Edges
<1>3. state_q' \in {"IDLE", "START", "SEND", "STOP"}
  BY Edges DEF Advance, SpiTypeOK
<1>4. bit_counter_q' \in 0 .. Bits - 1
  <2>1. \/ bit_counter_q' = bit_counter_q
        \/ bit_counter_q' = Bits - 1
        \/ bit_counter_q # 0 /\ bit_counter_q' = (bit_counter_q - 1) % Bits
    BY Edges, Zenon DEF Advance, LastBit
  <2> QED
    BY <2>1, SmallMod DEF SpiTypeOK
<1> QED
  BY <1>1, <1>2, <1>3, <1>4, ByteStep, FifoStep DEF SpiTypeOK

(* One lemma per state of spi_host                                         *)
LEMMA FromIdle ==
  ASSUME WiresTypeOK, WiresInv, state_q = "IDLE", NEW wvalid \in BOOLEAN, NEW wdata,
         wvalid => wdata \in Byte, WiresClock(wvalid, wdata)
  PROVE  WiresInv' /\ shifted' \in Seq(BOOLEAN) /\ Len(shifted') <= Bits
<1>0. /\ SpiTypeOK /\ SpiClock(wvalid, wdata) /\ shifted \in Seq(BOOLEAN)
      /\ Bits \in Nat \ {0}
  BY SpiAssumption DEF WiresTypeOK, WiresClock
<1>1. ~next_tx_byte_q'
  BY <1>0, Edges
<1>2. \/ state_q' = "IDLE"
      \/ state_q' = "START" /\ tx_fifo # <<>> /\ sck'
  BY <1>0, Edges DEF Advance, start_i, Active
<1>3. shifted' = <<>>
  BY <1>0, <1>2, Shifts DEF WiresInv
<1>4. state_q' = "START" => tx_fifo' # <<>>
  BY <1>0, <1>2, FifoStep DEF SpiTypeOK
<1> QED
  BY <1>0, <1>1, <1>2, <1>3, <1>4 DEF WiresInv

LEMMA FromStart ==
  ASSUME WiresTypeOK, WiresInv, state_q = "START", NEW wvalid \in BOOLEAN, NEW wdata,
         wvalid => wdata \in Byte, WiresClock(wvalid, wdata)
  PROVE  WiresInv' /\ shifted' \in Seq(BOOLEAN) /\ Len(shifted') <= Bits
<1>0. /\ SpiTypeOK /\ SpiClock(wvalid, wdata) /\ shifted \in Seq(BOOLEAN)
      /\ Bits \in Nat \ {0}
  BY SpiAssumption DEF WiresTypeOK, WiresClock
<1>1. ~next_tx_byte_q'
  BY <1>0, Edges
<1>2. /\ tx_fifo # <<>> /\ Active
      /\ tx_fifo' # <<>> /\ Head(tx_fifo') = Head(tx_fifo) /\ tx_fifo \in Seq(Byte)
  BY <1>0, FifoStep DEF WiresInv, Active, SpiTypeOK
<1>3. CASE state_q' = "START"
  <2>1. shifted' = <<>>
    BY <1>0, <1>3, Shifts DEF WiresInv
  <2>2. ~sck' => current_byte_q' = Head(tx_fifo)
    <3>1. current_byte_d = Head(tx_fifo)
      BY <1>2, Zenon DEF current_byte_d, QueueOut
    <3>2. \/ sck'
          \/ current_byte_q' = current_byte_d
          \/ ~sck /\ current_byte_q' = current_byte_q
      BY <1>0, <1>2, Edges
    <3> QED
      BY <3>1, <3>2 DEF WiresInv
  <2> QED
    BY <1>0, <1>1, <1>2, <1>3, <2>1, <2>2 DEF WiresInv
<1>4. CASE state_q' # "START"
  <2>1. /\ ~sck /\ sck' /\ state_q' = "SEND" /\ bit_counter_q' = Bits - 1
        /\ current_byte_q' = current_byte_q
    BY <1>0, <1>2, <1>4, Edges, Zenon DEF Advance
  <2>2. current_byte_q' = Head(tx_fifo') /\ Head(tx_fifo') \in Byte
    BY <1>2, <2>1 DEF WiresInv
  <2>3. shifted' = <<Head(tx_fifo')[1]>> /\ Head(tx_fifo')[1] \in BOOLEAN
    <3>1. shifted' = Append(shifted, current_byte_q'[1]) /\ shifted = <<>>
      BY <1>0, <2>1, Shifts DEF WiresInv
    <3> QED
      BY <1>0, <2>2, <3>1 DEF Byte
  <2>4. ToSend' = Bits
    <3>1. ToSend' = bit_counter_q' + 1
      BY <2>1, Zenon DEF ToSend
    <3> QED
      BY <1>0, <2>1, <3>1
  <2>5. SendInv'
    <3>0. bit_counter_q' = Bits - 1
      BY <2>1
    <3>1. Len(shifted') = Bits - bit_counter_q' /\ Bits - bit_counter_q' = 1
      BY <1>0, <2>3, <3>0
    <3>2. \A i \in 1 .. Bits - bit_counter_q' : shifted'[i] = Head(tx_fifo')[i]
      BY <2>3, <3>1
    <3>3. \A i \in 1 .. ToSend' : current_byte_q'[i] = Head(tx_fifo')[i + (Bits - ToSend')]
      BY <1>0, <2>2, <2>4
    <3> QED
      BY <3>1, <3>2, <3>3 DEF SendInv
  <2>6. shifted' \in Seq(BOOLEAN) /\ Len(shifted') <= Bits
    BY <1>0, <2>3
  <2>7. WiresInv'
    BY <1>1, <1>2, <2>1, <2>5 DEF WiresInv
  <2> QED
    BY <2>6, <2>7
<1> QED
  BY <1>3, <1>4

LEMMA FromSend ==
  ASSUME WiresTypeOK, WiresInv, state_q = "SEND", NEW wvalid \in BOOLEAN, NEW wdata,
         wvalid => wdata \in Byte, WiresClock(wvalid, wdata)
  PROVE  WiresInv' /\ shifted' \in Seq(BOOLEAN) /\ Len(shifted') <= Bits
<1>0. /\ SpiTypeOK /\ SpiClock(wvalid, wdata) /\ shifted \in Seq(BOOLEAN)
      /\ Bits \in Nat \ {0}
  BY SpiAssumption DEF WiresTypeOK, WiresClock
<1>1. ~next_tx_byte_q'
  BY <1>0, Edges
<1>2. /\ tx_fifo # <<>> /\ Active
      /\ tx_fifo' # <<>> /\ Head(tx_fifo') = Head(tx_fifo)
  BY <1>0, FifoStep DEF WiresInv, Active, SpiTypeOK
<1> DEFINE byte == Head(tx_fifo)
<1>3. byte \in Byte /\ current_byte_q \in Byte /\ shifted \in Seq(BOOLEAN)
  BY <1>0, <1>2 DEF SpiTypeOK
<1>4. Bits \in Nat \ {0} /\ bit_counter_q \in 0 .. Bits - 1
  BY <1>0 DEF SpiTypeOK
<1>5. SendInv
  BY DEF WiresInv
<1> HIDE DEF byte
<1>6. CASE ~count_at_limit
  <2>1. UNCHANGED <<state_q, bit_counter_q, current_byte_q>> /\ (sck' <=> sck)
    BY <1>0, <1>2, <1>6, Edges
  <2>2. shifted' = shifted
    BY <1>0, <2>1, Shifts
  <2>3. ToSend' = ToSend
    BY <2>1, Zenon DEF ToSend
  <2>4. SendInv'
    BY <1>2, <1>5, <2>1, <2>2, <2>3 DEF SendInv
  <2> QED
    BY <1>1, <1>2, <1>3, <1>4, <1>5, <2>1, <2>2, <2>4 DEF WiresInv, SendInv
<1>7. CASE count_at_limit /\ sck
  <2>1. UNCHANGED <<state_q, bit_counter_q>> /\ current_byte_q' = current_byte_d /\ ~sck'
    BY <1>0, <1>2, <1>7, Edges
  <2>2. shifted' = shifted
    BY <1>0, <2>1, Shifts
  <2>3. ToSend' = bit_counter_q /\ ToSend = bit_counter_q + 1
    BY <1>7, <2>1, Zenon DEF ToSend
  <2>4. \A i \in 1 .. bit_counter_q : current_byte_q'[i] = byte[i + (Bits - bit_counter_q)]
    <3>1. current_byte_q' = ShiftLeft(current_byte_q, FALSE)
      BY <2>1, Zenon DEF current_byte_d
    <3>2. \A i \in 1 .. Bits - 1 : current_byte_q'[i] = current_byte_q[i + 1]
      BY <1>3, <3>1, ShiftLeftBits
    <3>3. \A i \in 1 .. bit_counter_q + 1 :
             current_byte_q[i] = byte[i + (Bits - (bit_counter_q + 1))]
      BY <1>5, <2>3 DEF SendInv, byte
    <3>4. ASSUME NEW i \in 1 .. bit_counter_q
          PROVE  current_byte_q'[i] = byte[i + (Bits - bit_counter_q)]
      <4>1. /\ i \in 1 .. Bits - 1 /\ i + 1 \in 1 .. bit_counter_q + 1
            /\ (i + 1) + (Bits - (bit_counter_q + 1)) = i + (Bits - bit_counter_q)
        BY <1>4
      <4> QED
        BY <3>2, <3>3, <4>1
    <3> QED
      BY <3>4
  <2>5. SendInv'
    BY <1>2, <1>5, <2>1, <2>2, <2>3, <2>4 DEF SendInv, byte
  <2> QED
    BY <1>1, <1>2, <1>3, <1>4, <1>5, <2>1, <2>2, <2>5 DEF WiresInv, SendInv
<1>8. CASE count_at_limit /\ ~sck /\ bit_counter_q # 0
  <2>1. /\ state_q' = "SEND" /\ bit_counter_q' = (bit_counter_q - 1) % Bits /\ sck'
        /\ current_byte_q' = current_byte_q
    BY <1>0, <1>2, <1>8, Edges, Zenon DEF Advance, LastBit
  <2>2. bit_counter_q' = bit_counter_q - 1
    BY <1>4, <1>8, <2>1, SmallMod
  <2>3. ToSend = bit_counter_q
    BY <1>8, Zenon DEF ToSend
  <2>4. ToSend' = bit_counter_q
    <3>1. ToSend' = bit_counter_q' + 1
      BY <2>1, Zenon DEF ToSend
    <3> QED
      BY <1>4, <2>2, <3>1
  <2>5. shifted' = Append(shifted, current_byte_q[1])
    BY <1>0, <1>8, <2>1, Shifts
  <2>6. current_byte_q[1] = byte[Bits - bit_counter_q + 1] /\ current_byte_q[1] \in BOOLEAN
    <3>1. 1 \in 1 .. bit_counter_q /\ 1 \in 1 .. Bits
          /\ 1 + (Bits - bit_counter_q) = Bits - bit_counter_q + 1
      BY <1>4, <1>8
    <3>2. current_byte_q[1] = byte[1 + (Bits - bit_counter_q)]
      BY <1>5, <2>3, <3>1 DEF SendInv, byte
    <3>3. current_byte_q[1] \in BOOLEAN
      BY <1>3, <3>1, Zenon DEF Byte
    <3> QED
      BY <3>1, <3>2, <3>3
  <2>7. /\ shifted' \in Seq(BOOLEAN) /\ Len(shifted') = Bits - bit_counter_q'
        /\ \A i \in 1 .. Bits - bit_counter_q' : shifted'[i] = byte[i]
    BY <1>3, <1>4, <1>5, <2>2, <2>5, <2>6 DEF SendInv, byte
  <2>8. SendInv'
    BY <1>2, <1>5, <2>1, <2>3, <2>4, <2>7 DEF SendInv, byte
  <2> QED
    BY <1>1, <1>2, <1>4, <2>1, <2>2, <2>7, <2>8 DEF WiresInv
<1>9. CASE count_at_limit /\ ~sck /\ bit_counter_q = 0
  <2>1. state_q' = "STOP" /\ count' = 0
    BY <1>0, <1>2, <1>9, Edges, Zenon DEF Advance, LastBit
  <2>2. shifted' = shifted
    BY <1>0, <2>1, Shifts
  <2>3. shifted = byte
    <3>1. Len(shifted) = Bits /\ \A i \in 1 .. Bits : shifted[i] = byte[i]
      BY <1>4, <1>5, <1>9 DEF SendInv, byte
    <3>2. byte \in Seq(BOOLEAN) /\ Len(byte) = Bits
      BY <1>3, ByteIsSeq
    <3> QED
      BY <1>3, <3>1, <3>2, SeqEqual
  <2> QED
    BY <1>1, <1>2, <1>3, <1>4, <1>5, <2>1, <2>2, <2>3, <1>9 DEF WiresInv, SendInv, byte
<1> QED
  BY <1>6, <1>7, <1>8, <1>9

LEMMA FromStop ==
  ASSUME WiresTypeOK, WiresInv, state_q = "STOP", NEW wvalid \in BOOLEAN, NEW wdata,
         wvalid => wdata \in Byte, WiresClock(wvalid, wdata)
  PROVE  WiresInv' /\ shifted' \in Seq(BOOLEAN) /\ Len(shifted') <= Bits
<1>0. /\ SpiTypeOK /\ SpiClock(wvalid, wdata) /\ shifted \in Seq(BOOLEAN)
      /\ Bits \in Nat \ {0}
  BY SpiAssumption DEF WiresTypeOK, WiresClock
<1>1. next_tx_byte_q'
  BY <1>0, Edges
<1>2. state_q' \in {"STOP", "IDLE"}
  BY <1>0, Edges DEF Advance
<1>3. shifted' = <<>>
  BY <1>0, <1>2, Shifts DEF WiresInv
<1> QED
  BY <1>0, <1>1, <1>2, <1>3 DEF WiresInv

LEMMA WiresStep ==
  ASSUME WiresTypeOK, WiresInv, NEW wvalid \in BOOLEAN, NEW wdata,
         wvalid => wdata \in Byte, WiresClock(wvalid, wdata)
  PROVE  WiresTypeOK' /\ WiresInv'
<1>1. SpiTypeOK'
  BY SpiTypeStep DEF WiresTypeOK, WiresClock
<1>2. state_q \in {"IDLE", "START", "SEND", "STOP"}
  BY DEF WiresTypeOK, SpiTypeOK
<1>3. WiresInv' /\ shifted' \in Seq(BOOLEAN) /\ Len(shifted') <= Bits
  <2>1. CASE state_q = "IDLE"
    BY <2>1, FromIdle
  <2>2. CASE state_q = "START"
    BY <2>2, FromStart
  <2>3. CASE state_q = "SEND"
    BY <2>3, FromSend
  <2>4. CASE state_q = "STOP"
    BY <2>4, FromStop
  <2> QED
    BY <1>2, <2>1, <2>2, <2>3, <2>4
<1> QED
  BY <1>1, <1>3 DEF WiresTypeOK
---------------------------------------------------------------------------
(* The driver's operations are sequences of calls in a right order         *)
LEMMA OrderedOne ==
  ASSUME NEW c \in Call
  PROVE  Ordered(<<c>>) /\ <<c>>[1] = c
  BY DEF Ordered

LEMMA OrderedTwo ==
  ASSUME NEW c \in Call, NEW d \in Call, Selects(c, d)
  PROVE  Ordered(<<c, d>>) /\ <<c, d>>[1] = c
<1> DEFINE s == <<c, d>>
<1>1. s \in Seq(Call) /\ Len(s) = 2 /\ s[1] = c /\ s[2] = d
  OBVIOUS
<1> HIDE DEF s
<1>2. ASSUME NEW i \in 1 .. Len(s) - 1
      PROVE  Selects(s[i], s[i + 1])
  <2>1. i = 1 /\ i + 1 = 2
    BY <1>1
  <2> QED
    BY <1>1, <2>1
<1>3. Ordered(s)
  BY <1>1, <1>2 DEF Ordered
<1> QED
  BY <1>1, <1>3 DEF s

LEMMA ConcatHead ==
  ASSUME NEW s \in Seq(Call), NEW t \in Seq(Call), s # <<>>
  PROVE  s \o t # <<>> /\ (s \o t)[1] = s[1] /\ Head(s \o t) = s[1]
<1>1. s \o t \in Seq(Call) /\ Len(s \o t) = Len(s) + Len(t) /\ Len(s) > 0 /\ Len(t) >= 0
  OBVIOUS
<1>2. (s \o t)[1] = s[1] /\ s \o t # <<>>
  BY <1>1
<1> QED
  BY <1>1, <1>2

LEMMA OrderedConcat ==
  ASSUME NEW s, NEW t, Ordered(s), Ordered(t),
         s # <<>> /\ t # <<>> => Selects(s[Len(s)], t[1])
  PROVE  Ordered(s \o t)
<1>1. s \in Seq(Call) /\ t \in Seq(Call) /\ s \o t \in Seq(Call)
  BY DEF Ordered
<1>2. /\ Len(s \o t) = Len(s) + Len(t)
      /\ \A i \in 1 .. Len(s) : (s \o t)[i] = s[i]
      /\ \A i \in 1 .. Len(t) : (s \o t)[Len(s) + i] = t[i]
  BY <1>1
<1>3. ASSUME NEW i \in 1 .. Len(s \o t) - 1
      PROVE  Selects((s \o t)[i], (s \o t)[i + 1])
  <2>1. CASE i < Len(s)
    <3>1. i \in 1 .. Len(s) - 1 /\ (s \o t)[i] = s[i] /\ (s \o t)[i + 1] = s[i + 1]
      BY <1>1, <1>2, <2>1
    <3> QED
      BY <3>1 DEF Ordered
  <2>2. CASE i = Len(s)
    <3>1. s # <<>> /\ t # <<>> /\ (s \o t)[i] = s[Len(s)] /\ (s \o t)[i + 1] = t[1]
      BY <1>1, <1>2, <2>2
    <3> QED
      BY <3>1
  <2>3. CASE i > Len(s)
    <3> DEFINE j == i - Len(s)
    <3>1. /\ j \in 1 .. Len(t) - 1 /\ j \in 1 .. Len(t) /\ j + 1 \in 1 .. Len(t)
          /\ i = Len(s) + j /\ i + 1 = Len(s) + (j + 1)
      BY <1>1, <1>2, <2>3
    <3> HIDE DEF j
    <3>2. (s \o t)[i] = t[j] /\ (s \o t)[i + 1] = t[j + 1]
      BY <1>2, <3>1
    <3> QED
      BY <3>1, <3>2 DEF Ordered
  <2> QED
    BY <1>1, <2>1, <2>2, <2>3
<1> QED
  BY <1>1, <1>3 DEF Ordered

LEMMA OrderedTail ==
  ASSUME NEW s, Ordered(s), s # <<>>
  PROVE  /\ Ordered(Tail(s)) /\ s = <<Head(s)>> \o Tail(s)
         /\ Tail(s) # <<>> => Selects(Head(s), Head(Tail(s)))
<1>1. s \in Seq(Call) /\ Tail(s) \in Seq(Call) /\ Len(Tail(s)) = Len(s) - 1
  BY DEF Ordered
<1>2. \A i \in 1 .. Len(s) - 1 : Tail(s)[i] = s[i + 1]
  BY <1>1
<1>3. ASSUME NEW i \in 1 .. Len(Tail(s)) - 1
      PROVE  Selects(Tail(s)[i], Tail(s)[i + 1])
  <2>1. i + 1 \in 1 .. Len(s) - 1 /\ i \in 1 .. Len(s) - 1
    BY <1>1
  <2>2. Tail(s)[i] = s[i + 1] /\ Tail(s)[i + 1] = s[(i + 1) + 1]
    BY <1>2, <2>1
  <2> QED
    BY <2>1, <2>2 DEF Ordered
<1>4. ASSUME Tail(s) # <<>>
      PROVE  Selects(Head(s), Head(Tail(s)))
  <2>1. 1 \in 1 .. Len(s) - 1 /\ Head(s) = s[1] /\ Head(Tail(s)) = s[1 + 1]
    BY <1>1, <1>2, <1>4
  <2> QED
    BY <2>1 DEF Ordered
<1>5. s = <<Head(s)>> \o Tail(s)
  BY <1>1
<1> QED
  BY <1>1, <1>3, <1>4, <1>5 DEF Ordered

LEMMA GpioCall ==
  ASSUME NEW cs \in BOOLEAN, NEW dc \in BOOLEAN
  PROVE  /\ GpioWrite(cs, dc) \in Call
         /\ GpioWrite(cs, dc).fn = "gpio_write"
         /\ GpioWrite(cs, dc).cs = cs /\ GpioWrite(cs, dc).dc = dc
  BY DEF GpioWrite, Call

LEMMA SpiCall ==
  ASSUME NEW dc \in BOOLEAN, NEW data \in Seq({ByteFor(dc)}), data # <<>>
  PROVE  /\ SpiWrite(data) \in Call
         /\ SpiWrite(data).fn = "spi_write" /\ SpiWrite(data).data = data
         /\ Selects(GpioWrite(FALSE, dc), SpiWrite(data))
<1>1. data \in Data
  BY DEF Data, ByteFor
<1>2. SpiWrite(data) \in Call /\ SpiWrite(data).fn = "spi_write" /\ SpiWrite(data).data = data
  BY <1>1 DEF SpiWrite, Call
<1> QED
  BY <1>2, GpioCall DEF Selects, IsTransfer

LEMMA OperationOrdered ==
  ASSUME NEW op \in Operation
  PROVE  Ordered(op) /\ op # <<>> /\ Head(op) = GpioWrite(FALSE, FALSE)
<1> DEFINE select(dc) == << GpioWrite(FALSE, dc) >>
           last == << GpioWrite(TRUE, TRUE) >>
<1>1. /\ Ordered(select(FALSE)) /\ Ordered(select(TRUE)) /\ Ordered(last)
      /\ GpioWrite(TRUE, TRUE).fn = "gpio_write" /\ GpioWrite(FALSE, TRUE).fn = "gpio_write"
  BY GpioCall, OrderedOne
<1>2. write_command = << GpioWrite(FALSE, FALSE), SpiWrite(<<Command>>) >>
  BY DEF write_command
<1>3. /\ Ordered(write_command) /\ write_command # <<>> /\ write_command[1] = GpioWrite(FALSE, FALSE)
      /\ write_command \in Seq(Call)
  <2>1. <<Command>> \in Seq({ByteFor(FALSE)}) /\ <<Command>> # <<>>
    BY DEF ByteFor
  <2>2. SpiWrite(<<Command>>) \in Call /\ Selects(GpioWrite(FALSE, FALSE), SpiWrite(<<Command>>))
    BY <2>1, SpiCall
  <2>3. GpioWrite(FALSE, FALSE) \in Call
    BY GpioCall
  <2>4. Ordered(write_command) /\ write_command[1] = GpioWrite(FALSE, FALSE)
    BY <1>2, <2>2, <2>3, OrderedTwo
  <2>5. write_command # <<>>
    BY <1>2
  <2> QED
    BY <2>4, <2>5 DEF Ordered
<1>4. ASSUME NEW n \in 0 .. MaxData
      PROVE  Ordered(data_phase(n)) /\ data_phase(n)[1].fn = "gpio_write"
  <2> DEFINE pixels == [i \in 1 .. n |-> Pixel]
  <2>1. n \in Nat
    BY LcdAssumption
  <2>2. /\ Ordered(write_buffer(n))
        /\ write_buffer(n) # <<>> => Selects(GpioWrite(FALSE, TRUE), write_buffer(n)[1])
    <3>1. CASE n = 0
      BY <3>1 DEF write_buffer, Ordered
    <3>2. CASE n # 0
      <4>1. pixels \in Seq({ByteFor(TRUE)}) /\ pixels # <<>>
        BY <2>1, <3>2, IsASeq DEF ByteFor
      <4>2. SpiWrite(pixels) \in Call /\ Selects(GpioWrite(FALSE, TRUE), SpiWrite(pixels))
        BY <4>1, SpiCall
      <4>3. write_buffer(n) = << SpiWrite(pixels) >>
        BY <3>2 DEF write_buffer
      <4> DEFINE c == SpiWrite(pixels)
      <4> HIDE DEF pixels, c
      <4>4. c \in Call /\ Selects(GpioWrite(FALSE, TRUE), c) /\ write_buffer(n) = <<c>>
        BY <4>2, <4>3 DEF c
      <4>5. Ordered(<<c>>) /\ <<c>>[1] = c
        BY <4>4, OrderedOne
      <4> QED
        BY <4>4, <4>5
    <3> QED
      BY <3>1, <3>2
  <2> DEFINE transfer == select(TRUE) \o write_buffer(n)
  <2>3. Ordered(transfer) /\ transfer # <<>> /\ transfer[1] = GpioWrite(FALSE, TRUE)
    <3>1. Ordered(transfer)
      BY <1>1, <2>2, OrderedConcat
    <3>2. write_buffer(n) \in Seq(Call) /\ GpioWrite(FALSE, TRUE) \in Call
      BY <2>2, GpioCall DEF Ordered
    <3>3. select(TRUE) \in Seq(Call) /\ select(TRUE) # <<>> /\ select(TRUE)[1] = GpioWrite(FALSE, TRUE)
      BY <1>1, <3>2 DEF Ordered
    <3> QED
      BY <3>1, <3>2, <3>3, ConcatHead
  <2> HIDE DEF transfer
  <2>4. Ordered(transfer \o last)
    <3>1. Selects(transfer[Len(transfer)], last[1])
      BY <1>1 DEF Selects
    <3> QED
      BY <1>1, <2>3, <3>1, OrderedConcat
  <2>5. (transfer \o last)[1] = transfer[1]
    <3>1. last \in Seq(Call) /\ transfer \in Seq(Call)
      BY <1>1, <2>3 DEF Ordered
    <3> QED
      BY <2>3, <3>1, ConcatHead
  <2>6. data_phase(n) = transfer \o last
    BY Zenon DEF data_phase, transfer
  <2> QED
    BY <1>1, <2>3, <2>4, <2>5, <2>6
<1>5. ASSUME NEW n \in 0 .. MaxData, op = write_command \o data_phase(n)
      PROVE  Ordered(op) /\ op # <<>> /\ Head(op) = GpioWrite(FALSE, FALSE)
  <2>1. Ordered(op)
    <3>1. Selects(write_command[Len(write_command)], data_phase(n)[1])
      BY <1>4 DEF Selects
    <3> QED
      BY <1>3, <1>4, <1>5, <3>1, OrderedConcat
  <2>2. data_phase(n) \in Seq(Call)
    BY <1>4 DEF Ordered
  <2>3. op # <<>> /\ Head(op) = write_command[1]
    BY <1>3, <1>5, <2>2, ConcatHead
  <2> QED
    BY <1>3, <2>1, <2>3
<1>6. ASSUME op = write_command
      PROVE  Ordered(op) /\ op # <<>> /\ Head(op) = GpioWrite(FALSE, FALSE)
  <2>1. Head(write_command) = write_command[1]
    BY <1>2
  <2> QED
    BY <1>3, <1>6, <2>1
<1> QED
  BY <1>5, <1>6 DEF Operation
---------------------------------------------------------------------------
LEMMA InitInv == Init => Inv
<1> SUFFICES ASSUME Init PROVE Inv
  OBVIOUS
<1> USE SpiAssumption DEF Init, WiresInit, SpiInit
<1>1. ZeroByte \in Byte
  BY DEF ZeroByte, Byte
<1>2. WiresTypeOK
  <2>1. sck \in BOOLEAN /\ next_tx_byte_q \in BOOLEAN
    BY Zenon
  <2>2. /\ count \in 0 .. ToggleCount - 1 /\ bit_counter_q \in 0 .. Bits - 1
        /\ shifted \in Seq(BOOLEAN) /\ Len(shifted) <= Bits
        /\ tx_fifo \in Seq(Byte) /\ Len(tx_fifo) <= TxFifoDepth
    OBVIOUS
  <2>3. state_q = "IDLE" /\ current_byte_q = ZeroByte
    BY Zenon
  <2> QED
    BY <1>1, <2>1, <2>2, <2>3 DEF WiresTypeOK, SpiTypeOK
<1>3. TypeOK
  BY <1>2, Zenon DEF TypeOK
<1>4. WiresInv
  BY DEF WiresInv
<1>5. CallsInv /\ FifoInv /\ NeverLost
  BY DEF CallsInv, Ordered, FifoInv, NeverLost, GpioStage, SpiStage
<1> QED
  BY <1>3, <1>4, <1>5 DEF Inv

(* The calls, and the pins they set                                        *)
LEMMA CallTypes ==
  ASSUME CallsInv, calls # <<>>
  PROVE  /\ call \in Call /\ call.fn \in {"gpio_write", "spi_write"}
         /\ call.fn = "gpio_write" => call.cs \in BOOLEAN /\ call.dc \in BOOLEAN
         /\ call.fn = "spi_write" => /\ call.data # <<>> /\ ~gpio.cs
                                     /\ call.data \in Seq({ByteFor(gpio.dc)})
<1>1. call \in Call
  BY DEF CallsInv, Ordered, call
<1> QED
  BY <1>1 DEF Call, Data, CallsInv, IsTransfer

LEMMA LongTail ==
  ASSUME NEW S, NEW d \in Seq(S), d # <<>>, Len(d) # 1
  PROVE  Tail(d) \in Seq(S) /\ Tail(d) # <<>>
<1>1. Len(d) \in Nat /\ Len(d) # 0
  BY EmptySeq
<1>2. Tail(d) \in Seq(S) /\ Len(Tail(d)) = Len(d) - 1
  BY HeadTailProperties
<1>3. Len(Tail(d)) # 0
  BY <1>1, <1>2
<1> QED
  BY <1>2, <1>3, EmptySeq, Zenon

(* What a call leaves to do fits the pins as they are then                 *)
LEMMA AfterCall ==
  ASSUME CallsInv, calls # <<>>, Return, UNCHANGED bits,
         \/ call.fn = "spi_write" /\ UNCHANGED gpio
         \/ call.fn = "gpio_write" /\ gpio'.cs = call.cs /\ gpio'.dc = call.dc
  PROVE  CallsInv'
<1>1. /\ calls' = Tail(calls) /\ Ordered(calls')
      /\ calls' # <<>> => Selects(call, Head(calls'))
  BY OrderedTail DEF CallsInv, Return, call
<1>2. calls' # <<>> => IsTransfer(call', gpio'.cs, gpio'.dc)
  BY <1>1 DEF Selects, IsTransfer, call
<1> QED
  BY <1>1, <1>2 DEF CallsInv, Return, GpioStage, SpiStage

LEMMA CallsStep ==
  ASSUME TypeOK, CallsInv, SwStep
  PROVE  /\ CallsInv'
         /\ gpio' \in [cs : BOOLEAN, dc : BOOLEAN] /\ bits' \in [cs : BOOLEAN, dc : BOOLEAN]
         /\ stage' \in {"next", "dc_read", "dc_write", "cs_read", "cs_write",
                        "wait", "poll_full", "push", "drain"}
<1>1. gpio \in [cs : BOOLEAN, dc : BOOLEAN] /\ bits \in [cs : BOOLEAN, dc : BOOLEAN]
  BY DEF TypeOK
<1>2. CASE NextCall
  <2>1. CASE calls = <<>> /\ calls' \in Operation
    <3>1. Ordered(calls') /\ calls' # <<>> /\ Head(calls') = GpioWrite(FALSE, FALSE)
      BY <2>1, OperationOrdered
    <3>2. call'.fn = "gpio_write"
      BY <3>1, GpioCall DEF call
    <3>3. stage' = "dc_read"
      <4>1. calls'[1] = Head(calls')
        BY <3>1 DEF Ordered
      <4> QED
        BY <1>2, <3>2, <4>1 DEF NextCall, FirstStage, call
    <3> QED
      BY <1>1, <1>2, <3>1, <3>2, <3>3
      DEF NextCall, Quiet, CallsInv, IsTransfer, GpioStage, SpiStage
  <2>2. CASE calls # <<>> /\ UNCHANGED calls
    <3>1. stage' = IF call.fn = "gpio_write" THEN "dc_read" ELSE "wait"
      <4>1. calls'[1] = call
        BY <2>2 DEF CallsInv, Ordered, call
      <4> QED
        BY <1>2, <4>1, Zenon DEF NextCall, FirstStage
    <3> QED
      BY <1>1, <1>2, <2>2, <3>1, CallTypes
      DEF NextCall, Quiet, CallsInv, GpioStage, SpiStage, call
  <2> QED
    BY <1>2, <2>1, <2>2 DEF NextCall
<1>3. CASE ReadBits
  BY <1>1, <1>3 DEF ReadBits, CallsInv, GpioStage, SpiStage, call
<1>4. CASE WriteDc
  <2>1. calls # <<>> /\ call.fn = "gpio_write"
    BY <1>4 DEF WriteDc, CallsInv, GpioStage
  <2>2. gpio' \in [cs : BOOLEAN, dc : BOOLEAN] /\ gpio'.dc = call.dc
    BY <1>1, <1>4, <2>1, CallTypes DEF WriteDc
  <2> QED
    BY <1>1, <1>4, <2>1, <2>2
    DEF WriteDc, CallsInv, IsTransfer, GpioStage, SpiStage, call
<1>5. CASE WriteCs
  <2>1. calls # <<>> /\ call.fn = "gpio_write" /\ bits.dc = call.dc
    BY <1>5 DEF WriteCs, CallsInv, GpioStage
  <2>2. /\ gpio' \in [cs : BOOLEAN, dc : BOOLEAN]
        /\ gpio'.cs = call.cs /\ gpio'.dc = call.dc
    BY <1>1, <1>5, <2>1, CallTypes DEF WriteCs
  <2>3. CallsInv'
    BY <1>5, <2>1, <2>2, AfterCall DEF WriteCs
  <2> QED
    BY <1>1, <1>5, <2>2, <2>3 DEF WriteCs, Return
<1>6. CASE WaitIdle \/ PollFull
  BY <1>1, <1>6 DEF WaitIdle, PollFull, Quiet, CallsInv, GpioStage, SpiStage, call
<1>7. CASE Push
  <2>1. calls # <<>> /\ call.fn = "spi_write"
    BY <1>7 DEF Push, CallsInv, SpiStage
  <2>2. CASE Len(call.data) = 1
    BY <1>1, <1>7, <2>1, <2>2 DEF Push, Quiet, CallsInv, GpioStage, SpiStage, call
  <2>3. CASE Len(call.data) # 1
    <3> DEFINE c == SpiWrite(Tail(call.data))
    <3>1. Tail(call.data) \in Seq({ByteFor(gpio.dc)}) /\ Tail(call.data) # <<>>
      <4>1. call.data \in Seq({ByteFor(gpio.dc)}) /\ call.data # <<>> /\ Len(call.data) # 1
        BY <2>1, <2>3, CallTypes
      <4> QED
        BY <4>1, LongTail, Zenon
    <3>2. /\ c \in Call /\ c.fn = "spi_write" /\ c.data = Tail(call.data)
      BY <1>1, <3>1, SpiCall
    <3>3. stage' = "poll_full" /\ calls' = <<c>> \o Tail(calls) /\ UNCHANGED gpio
      BY <1>7, <2>3 DEF Push, Quiet
    <3> HIDE DEF c
    <3>4. Ordered(Tail(calls)) /\ (Tail(calls) # <<>> => Selects(call, Head(Tail(calls))))
      BY <2>1, OrderedTail DEF CallsInv, call
    <3>5. Tail(calls) # <<>> => Selects(c, Tail(calls)[1])
      <4>1. Tail(calls) # <<>> => Head(Tail(calls)) = Tail(calls)[1]
        BY <3>4 DEF Ordered
      <4> QED
        BY <2>1, <3>4, <4>1 DEF Selects
    <3>6. <<c>> # <<>> /\ Len(<<c>>) = 1 /\ <<c>>[1] = c
      OBVIOUS
    <3>7. Ordered(<<c>>)
      BY <3>2, OrderedOne
    <3>8. Ordered(calls')
      BY <3>3, <3>4, <3>5, <3>6, <3>7, OrderedConcat
    <3>9. calls' # <<>> /\ call' = c
      BY <3>3, <3>4, <3>6, <3>7, ConcatHead DEF Ordered, call
    <3>10. IsTransfer(call', gpio'.cs, gpio'.dc)
      BY <2>1, <3>1, <3>2, <3>3, <3>9, CallTypes DEF IsTransfer
    <3> QED
      BY <1>1, <1>7, <3>2, <3>3, <3>8, <3>9, <3>10
      DEF Push, Quiet, CallsInv, GpioStage, SpiStage
  <2> QED
    BY <2>2, <2>3
<1>8. CASE Drain
  <2>1. calls # <<>> /\ call.fn = "spi_write"
    BY <1>8 DEF Drain, CallsInv, SpiStage
  <2>2. CASE Return
    BY <1>1, <1>8, <2>1, <2>2, AfterCall DEF Drain, Quiet, Return
  <2>3. CASE UNCHANGED <<calls, stage>>
    BY <1>1, <1>8, <2>3 DEF Drain, Quiet, CallsInv, GpioStage, SpiStage, TypeOK, call
  <2> QED
    BY <1>8, <2>2, <2>3 DEF Drain
<1> QED
  BY <1>2, <1>3, <1>4, <1>5, <1>6, <1>7, <1>8 DEF SwStep

(* The byte that is written is one the pins are set for                    *)
LEMMA Pushed ==
  ASSUME TypeOK, CallsInv, pushes
  PROVE  /\ ~gpio.cs /\ pushed = ByteFor(gpio.dc) /\ pushed \in Byte
         /\ UNCHANGED gpio \/ ~SwStep
<1>1. calls # <<>> /\ call.fn = "spi_write" /\ stage = "push"
  BY DEF pushes, CallsInv, SpiStage
<1>2. pushed = Head(call.data)
  BY Zenon DEF pushed
<1>3. ~gpio.cs /\ Head(call.data) = ByteFor(gpio.dc)
  BY <1>1, CallTypes
<1>4. ByteFor(gpio.dc) \in Byte
  BY LcdAssumption DEF ByteFor
<1>5. UNCHANGED gpio \/ ~SwStep
  BY <1>1 DEF SwStep, NextCall, ReadBits, WriteDc, WriteCs, WaitIdle, PollFull, Push, Drain, Quiet
<1> QED
  BY <1>2, <1>3, <1>4, <1>5

LEMMA AccessStep == Inv /\ Access => Inv'
<1> SUFFICES ASSUME Inv, Access PROVE Inv'
  OBVIOUS
<1> USE DEF Inv
<1>1. SwStep /\ WiresClock(pushes, pushed)
  BY DEF Access
<1>2. pushes \in BOOLEAN /\ (pushes <=> stage = "push")
  BY Zenon DEF pushes
<1>3. WiresTypeOK' /\ WiresInv'
  BY <1>1, <1>2, Pushed, WiresStep DEF TypeOK
<1>4. TypeOK' /\ CallsInv'
  BY <1>1, <1>3, CallsStep DEF TypeOK
<1>5. SpiClock(pushes, pushed) /\ Len(tx_fifo) <= TxFifoDepth /\ tx_fifo \in Seq(Byte)
  BY <1>1 DEF WiresClock, TypeOK, WiresTypeOK, SpiTypeOK
<1>6. ~pushes => Len(tx_fifo') <= Len(tx_fifo)
  BY <1>2, <1>5, Pushed, FifoStep
<1>7. tx_fifo = <<>> /\ ~pushes => tx_fifo' = <<>>
  BY <1>3, <1>5, <1>6 DEF WiresTypeOK, SpiTypeOK
<1>8. FifoInv'
  <2>1. CASE tx_fifo = <<>> /\ ~pushes
    BY <1>7, <2>1 DEF FifoInv
  <2>2. CASE tx_fifo # <<>> \/ pushes
    <3>1. UNCHANGED gpio
      BY <1>1, <1>2, <2>2
      DEF FifoInv, GpioStage, SwStep, NextCall, ReadBits, WriteDc, WriteCs, WaitIdle, PollFull,
          Push, Drain, Quiet
    <3>2. ~gpio.cs /\ tx_fifo \in Seq({ByteFor(gpio.dc)})
      <4>1. CASE tx_fifo # <<>>
        BY <4>1 DEF FifoInv
      <4>2. CASE tx_fifo = <<>> /\ pushes
        BY <4>2, Pushed
      <4> QED
        BY <2>2, <4>1, <4>2
    <3>3. tx_fifo' \in Seq({ByteFor(gpio.dc)})
      BY <1>2, <1>5, <3>2, Pushed, FifoStep
    <3>4. ~(stage' = "next" \/ GpioStage') \/ tx_fifo' = <<>>
      BY <1>1, <1>2, <1>7, <2>2
      DEF FifoInv, GpioStage, SwStep, NextCall, ReadBits, WriteDc, WriteCs, WaitIdle, PollFull,
          Push, Drain, Drained, tx_fifo_empty, Return
    <3> QED
      BY <3>1, <3>2, <3>3, <3>4 DEF FifoInv
  <2> QED
    BY <2>1, <2>2
<1>9. NeverLost'
  <2>1. stage' = "push" => ~tx_fifo_full /\ ~pushes
    BY <1>1, <1>2
    DEF SwStep, NextCall, FirstStage, ReadBits, WriteDc, WriteCs, WaitIdle, PollFull,
        Push, Drain, Return
  <2> QED
    BY <1>3, <1>5, <1>6, <2>1, SpiAssumption
    DEF NeverLost, tx_fifo_full, Accepts, WiresTypeOK, SpiTypeOK
<1> QED
  BY <1>3, <1>4, <1>8, <1>9

LEMMA WaitStep == Inv /\ Wait => Inv'
<1> SUFFICES ASSUME Inv, Wait PROVE Inv'
  OBVIOUS
<1> USE DEF Inv
<1>1. UNCHANGED <<gpio, calls, stage, bits>> /\ WiresClock(FALSE, ZeroByte)
  BY DEF Wait, swvars
<1>2. WiresTypeOK' /\ WiresInv'
  BY <1>1, WiresStep DEF TypeOK
<1>3. SpiClock(FALSE, ZeroByte) /\ Len(tx_fifo) <= TxFifoDepth /\ tx_fifo \in Seq(Byte)
  BY <1>1 DEF WiresClock, TypeOK, WiresTypeOK, SpiTypeOK
<1>4. Len(tx_fifo') <= Len(tx_fifo)
  BY <1>3, FifoStep
<1>5. tx_fifo = <<>> => tx_fifo' = <<>>
  BY <1>2, <1>4 DEF WiresTypeOK, SpiTypeOK
<1>6. tx_fifo \in Seq({ByteFor(gpio.dc)}) => tx_fifo' \in Seq({ByteFor(gpio.dc)})
  BY <1>3, FifoStep
<1>7. TypeOK' /\ CallsInv'
  BY <1>1, <1>2 DEF TypeOK, CallsInv, GpioStage, SpiStage, call
<1>8. FifoInv'
  BY <1>1, <1>5, <1>6 DEF FifoInv, GpioStage
<1>9. NeverLost'
  BY <1>1, <1>2, <1>3, <1>4, SpiAssumption
  DEF NeverLost, tx_fifo_full, Accepts, WiresTypeOK, SpiTypeOK
<1> QED
  BY <1>2, <1>7, <1>8, <1>9

LEMMA StepInv == Inv /\ [Next]_vars => Inv'
<1> SUFFICES ASSUME Inv, [Next]_vars PROVE Inv'
  OBVIOUS
<1>1. CASE UNCHANGED vars
  BY <1>1 DEF vars, wirevars, spivars, swvars, Inv, TypeOK, WiresTypeOK, SpiTypeOK, WiresInv,
     SendInv, ToSend, CallsInv, GpioStage, SpiStage, call, FifoInv, NeverLost, tx_fifo_full
<1> QED
  BY <1>1, AccessStep, WaitStep DEF Next

LEMMA AlwaysInv == Spec => []Inv
  BY InitInv, StepInv, PTL DEF Spec
---------------------------------------------------------------------------
(* The divider, the bit counter and the FIFO of the SPI controller stay    *)
(* within their limits, and the driver's accesses in their order.          *)
THEOREM TypeCorrect == Spec => []TypeOK
<1>1. Inv => TypeOK
  BY DEF Inv
<1> QED
  BY AlwaysInv, <1>1, PTL

(* A byte leaves the FIFO when its last bit has been shifted in (spi_host) *)
THEOREM AlwaysPoppedWhenSent == Spec => []PoppedWhenSent
<1>1. Inv => PoppedWhenSent
  BY Zenon DEF Inv, WiresInv, PoppedWhenSent, tx_fifo_rready, next_tx_byte, tx_fifo_empty
<1> QED
  BY AlwaysInv, <1>1, PTL

(* An empty FIFO means that the wires are quiet, which is what             *)
(* spi_wait_idle takes it for                                              *)
THEOREM EmptyAlwaysMeansQuiet == Spec => []EmptyMeansQuiet
<1>1. Inv => EmptyMeansQuiet
  BY DEF Inv, TypeOK, WiresTypeOK, SpiTypeOK, WiresInv, EmptyMeansQuiet, tx_fifo_empty, sck_o, sck_en
<1> QED
  BY AlwaysInv, <1>1, PTL

(* CS and D/C hold still, and are right, for every byte on the wires       *)
(* (spi_write and gpio_write in main.c)                                    *)
THEOREM AlwaysSelectedWhileSending == Spec => []SelectedWhileSending
<1>1. Inv => SelectedWhileSending
  <2> SUFFICES ASSUME Inv, state_q \in {"START", "SEND"}
               PROVE  ~gpio.cs /\ (gpio.dc <=> Head(tx_fifo) # Command)
    BY DEF SelectedWhileSending
  <2>1. ~gpio.cs /\ tx_fifo # <<>> /\ tx_fifo \in Seq({ByteFor(gpio.dc)})
    BY DEF Inv, WiresInv, FifoInv
  <2>2. Head(tx_fifo) = ByteFor(gpio.dc)
    BY <2>1
  <2> QED
    BY <2>1, <2>2, LcdAssumption, Zenon DEF ByteFor
<1> QED
  BY AlwaysInv, <1>1, PTL

(* No byte is written to a full FIFO (spi_send_byte_blocking)              *)
THEOREM AlwaysNeverLost == Spec => []NeverLost
<1>1. Inv => NeverLost
  BY DEF Inv
<1> QED
  BY AlwaysInv, <1>1, PTL
=============================================================================
