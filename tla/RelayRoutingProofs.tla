------------------------- MODULE RelayRoutingProofs -------------------------
(***************************************************************************)
(* What holds of the routing for any multiplexers, coils, pins and         *)
(* channels of the board, any depth of the FIFO and any number of          *)
(* transmissions that go unacknowledged.                                   *)
(*                                                                         *)
(* A script is fixed by its command, so a state is a position in it: the   *)
(* proof says what the first n accesses of a script have last put on each  *)
(* expander and pin, and shows by invariance that, unless a write was      *)
(* lost, the board holds just that.                                        *)
(***************************************************************************)
EXTENDS RelayRouting, TLAPS, SequenceTheorems

SwitchPins == UsbSelect \union UsbEnable \union {"VBUS", "UART_EN", "UART_A0", "UART_A1"}

WriteAccess   == [op : {"write"}, to : Expanders, reg : {OutputReg, ConfigReg}, bits : SUBSET Bits]
GpioAccess    == [op : {"gpio"}, high : SUBSET SwitchPins, low : SUBSET SwitchPins]
ConvertAccess == [op : {"convert"}, ch : 1 .. 15]
Access        == WriteAccess \union GpioAccess \union ConvertAccess

\* The codes of the multiplexers and the inputs they lead to.
LEMMA MuxCodes ==
  ASSUME NEW m \in ConMuxes \union Con3Muxes
  PROVE  /\ enable_mux[m] \in SUBSET Bits /\ enable_mux[m] # {}
         /\ AdcChannel[m] \in 1 .. 12
         /\ m \in Con3Muxes => enable_mux[m] \subseteq 0 .. 3
BY DEF ConMuxes, Con3Muxes, enable_mux, AdcChannel, Bits

\* A pin is on the lower lines of U7, or on the upper lines of U11.
LEMMA PinCodes ==
  ASSUME NEW pin \in 0 .. 15
  PROVE  /\ vrpin_select(pin) \in SUBSET (0 .. 3)
         /\ vrpin_select(pin) \in SUBSET Bits
         /\ rpin_select(pin) \in SUBSET (4 .. 7)
         /\ rpin_select(pin) \in SUBSET Bits
         /\ {b - 4 : b \in rpin_select(pin)} = vrpin_select(pin)
<1>1. vrpin_select(pin) \in SUBSET (0 .. 3)
  BY DEF vrpin_select
<1>2. rpin_select(pin) \in SUBSET (4 .. 7)
  BY <1>1 DEF rpin_select
<1>3. {b - 4 : b \in rpin_select(pin)} = vrpin_select(pin)
  <2>1. \A b \in vrpin_select(pin) : (b + 4) - 4 = b
    BY <1>1
  <2> QED  BY <2>1 DEF rpin_select
<1> QED  BY <1>1, <1>2, <1>3 DEF Bits

\* reset_all is five writes.
LEMMA ResetWrites ==
  /\ Len(reset_all) = 5
  /\ reset_all \in Seq(Access)
  /\ reset_all[1] = Write("U6", {}) /\ reset_all[2] = Write("U7", {})
  /\ reset_all[3] = Write("U9", {}) /\ reset_all[4] = Write("U10", {})
  /\ reset_all[5] = Write("U11", {})
BY DEF reset_all, Write, Access, WriteAccess, Expanders, Bits

\* The path through a multiplexer of connector 3 is two writes.
LEMMA Con3Writes ==
  ASSUME NEW mux \in Con3Muxes, NEW pin \in 0 .. 15
  PROVE  /\ Con3Path(mux, pin) \in Seq(Access) /\ Len(Con3Path(mux, pin)) = 2
BY MuxCodes, PinCodes DEF Con3Path, Write, Access, WriteAccess, Expanders, Bits
\* The accesses of two scripts in a row.
LEMMA Concat ==
  ASSUME NEW s \in Seq(Access), NEW t \in Seq(Access)
  PROVE  /\ s \o t \in Seq(Access) /\ Len(s \o t) = Len(s) + Len(t)
         /\ \A i \in 1 .. Len(s) : (s \o t)[i] = s[i]
         /\ \A i \in 1 .. Len(t) : (s \o t)[Len(s) + i] = t[i]
<1>1. Len(s) \in Nat /\ Len(t) \in Nat
  BY LenProperties
<1>2. s \o t \in Seq(Access) /\ Len(s \o t) = Len(s) + Len(t)
  BY ConcatProperties
<1>3. ASSUME NEW i \in 1 .. Len(s) PROVE (s \o t)[i] = s[i]
  BY <1>1, <1>3, ConcatProperties
<1>4. ASSUME NEW i \in 1 .. Len(t) PROVE (s \o t)[Len(s) + i] = t[i]
  BY <1>1, <1>4, ConcatProperties
<1> QED  BY <1>2, <1>3, <1>4

Block(s, d, mux, pin) ==
  /\ s[d + 1] = Write("U6", {}) /\ s[d + 2] = Write("U7", {}) /\ s[d + 3] = Write("U9", {})
  /\ s[d + 4] = Write("U10", {}) /\ s[d + 5] = Write("U11", {})
  /\ mux \in ConMuxes => /\ s[d + 6] = Write("U6", enable_mux[mux])
                         /\ s[d + 7] = Write("U7", vrpin_select(pin))
  /\ mux \in Con3Muxes => /\ s[d + 6] = Write("U11", enable_mux[mux])
                          /\ s[d + 7] = Write("U11", rpin_select(pin) \union enable_mux[mux])
  /\ s[d + 8] = Convert(AdcChannel[mux])
  /\ s[d + 9] = Write("U6", {}) /\ s[d + 10] = Write("U7", {}) /\ s[d + 11] = Write("U9", {})
  /\ s[d + 12] = Write("U10", {}) /\ s[d + 13] = Write("U11", {})

\* One voltage measurement is one block.
LEMMA SingleScript ==
  ASSUME NEW mux \in ConMuxes \union Con3Muxes, NEW pin \in 0 .. 15
  PROVE  /\ single_voltage_measurement(mux, pin) \in Seq(Access)
         /\ Len(single_voltage_measurement(mux, pin)) = 13
         /\ Block(single_voltage_measurement(mux, pin), 0, mux, pin)
<1> DEFINE path == IF mux \in Con3Muxes
                   THEN Con3Path(mux, pin)
                   ELSE <<Write("U6", enable_mux[mux]), Write("U7", vrpin_select(pin))>>
           conv == <<Convert(AdcChannel[mux])>>
<1>1. path \in Seq(Access) /\ Len(path) = 2
  <2>1. CASE mux \in Con3Muxes
    BY <2>1, Con3Writes
  <2>2. CASE mux \notin Con3Muxes
    <3>1. Write("U6", enable_mux[mux]) \in Access /\ Write("U7", vrpin_select(pin)) \in Access
      BY MuxCodes, PinCodes DEF Write, Access, WriteAccess, Expanders
    <3> QED  BY <2>2, <3>1
  <2> QED  BY <2>1, <2>2
<1>2. /\ mux \in Con3Muxes => /\ path[1] = Write("U11", enable_mux[mux])
                              /\ path[2] = Write("U11", rpin_select(pin) \union enable_mux[mux])
      /\ mux \notin Con3Muxes => /\ path[1] = Write("U6", enable_mux[mux])
                                 /\ path[2] = Write("U7", vrpin_select(pin))
  BY DEF Con3Path
<1>3. conv \in Seq(Access) /\ Len(conv) = 1 /\ conv[1] = Convert(AdcChannel[mux])
  BY MuxCodes DEF Convert, Access, ConvertAccess
<1>4. single_voltage_measurement(mux, pin) = ((reset_all \o path) \o conv) \o reset_all
  BY DEF single_voltage_measurement
<1> HIDE DEF path, conv
<1> DEFINE a == reset_all \o path
           b == a \o conv
           s == b \o reset_all
<1>5. single_voltage_measurement(mux, pin) = s
  BY <1>4
<1> HIDE DEF a, b, s
<1>6. /\ a \in Seq(Access) /\ Len(a) = 7
      /\ \A i \in 1 .. 5 : a[i] = reset_all[i]
      /\ \A i \in 1 .. 2 : a[5 + i] = path[i]
  <2>1. /\ a \in Seq(Access) /\ Len(a) = Len(reset_all) + Len(path)
        /\ \A i \in 1 .. Len(reset_all) : a[i] = reset_all[i]
        /\ \A i \in 1 .. Len(path) : a[Len(reset_all) + i] = path[i]
    BY <1>1, ResetWrites, Concat DEF a
  <2> QED  BY <1>1, ResetWrites, <2>1
<1>7. /\ b \in Seq(Access) /\ Len(b) = 8
      /\ \A i \in 1 .. 7 : b[i] = a[i]
      /\ \A i \in 1 .. 1 : b[7 + i] = conv[i]
  <2>1. /\ b \in Seq(Access) /\ Len(b) = Len(a) + Len(conv)
        /\ \A i \in 1 .. Len(a) : b[i] = a[i]
        /\ \A i \in 1 .. Len(conv) : b[Len(a) + i] = conv[i]
    BY <1>6, <1>3, Concat DEF b
  <2> QED  BY <1>6, <1>3, <2>1
<1>8. /\ s \in Seq(Access) /\ Len(s) = 13
      /\ \A i \in 1 .. 8 : s[i] = b[i]
      /\ \A i \in 1 .. 5 : s[8 + i] = reset_all[i]
  <2>1. /\ s \in Seq(Access) /\ Len(s) = Len(b) + Len(reset_all)
        /\ \A i \in 1 .. Len(b) : s[i] = b[i]
        /\ \A i \in 1 .. Len(reset_all) : s[Len(b) + i] = reset_all[i]
    BY <1>7, ResetWrites, Concat DEF s
  <2> QED  BY <1>7, ResetWrites, <2>1
<1>9. ConMuxes \intersect Con3Muxes = {}
  BY DEF ConMuxes, Con3Muxes
<1>10. /\ s[1] = reset_all[1] /\ s[2] = reset_all[2] /\ s[3] = reset_all[3]
       /\ s[4] = reset_all[4] /\ s[5] = reset_all[5]
  BY <1>6, <1>7, <1>8
<1>11. s[6] = path[1] /\ s[7] = path[2] /\ s[8] = conv[1]
  <2>1. a[5 + 1] = path[1] /\ a[5 + 2] = path[2]
    BY <1>6
  <2>2. b[6] = a[6] /\ b[7] = a[7] /\ b[7 + 1] = conv[1]
    BY <1>7
  <2>3. s[6] = b[6] /\ s[7] = b[7] /\ s[8] = b[8]
    BY <1>8
  <2> QED  BY <2>1, <2>2, <2>3
<1>12. /\ s[8 + 1] = reset_all[1] /\ s[8 + 2] = reset_all[2] /\ s[8 + 3] = reset_all[3]
       /\ s[8 + 4] = reset_all[4] /\ s[8 + 5] = reset_all[5]
  BY <1>8
<1> QED  BY <1>2, <1>3, <1>5, <1>8, <1>9, <1>10, <1>11, <1>12, ResetWrites DEF Block

\* A block stays where it is when more follows ...
LEMMA BlockKept ==
  ASSUME NEW s \in Seq(Access), NEW t \in Seq(Access), NEW d \in Nat, d + 13 <= Len(s),
         NEW mux, NEW pin, Block(s, d, mux, pin)
  PROVE  Block(s \o t, d, mux, pin)
<1>1. Len(s) \in Nat
  BY LenProperties
<1> DEFINE u == s \o t
<1>2. \A i \in 1 .. 13 : u[d + i] = s[d + i]
  BY <1>1, Concat
<1> HIDE DEF u
<1>3. /\ u[d + 1] = s[d + 1] /\ u[d + 2] = s[d + 2] /\ u[d + 3] = s[d + 3]
      /\ u[d + 4] = s[d + 4] /\ u[d + 5] = s[d + 5] /\ u[d + 6] = s[d + 6]
      /\ u[d + 7] = s[d + 7] /\ u[d + 8] = s[d + 8] /\ u[d + 9] = s[d + 9]
      /\ u[d + 10] = s[d + 10] /\ u[d + 11] = s[d + 11] /\ u[d + 12] = s[d + 12]
      /\ u[d + 13] = s[d + 13]
  BY <1>2
<1>4. Block(u, d, mux, pin)
  BY <1>3 DEF Block
<1> QED  BY <1>4 DEF u

\* ... and moves when something precedes it.
LEMMA BlockJoined ==
  ASSUME NEW s \in Seq(Access), NEW t \in Seq(Access), Len(t) >= 13,
         NEW mux, NEW pin, Block(t, 0, mux, pin)
  PROVE  Block(s \o t, Len(s), mux, pin)
<1>1. Len(s) \in Nat /\ Len(t) \in Nat
  BY LenProperties
<1> DEFINE u == s \o t
           d == Len(s)
<1>2. \A i \in 1 .. 13 : u[d + i] = t[i]
  BY <1>1, Concat
<1> HIDE DEF u, d
<1>3. /\ u[d + 1] = t[1] /\ u[d + 2] = t[2] /\ u[d + 3] = t[3]
      /\ u[d + 4] = t[4] /\ u[d + 5] = t[5] /\ u[d + 6] = t[6]
      /\ u[d + 7] = t[7] /\ u[d + 8] = t[8] /\ u[d + 9] = t[9]
      /\ u[d + 10] = t[10] /\ u[d + 11] = t[11] /\ u[d + 12] = t[12]
      /\ u[d + 13] = t[13]
  BY <1>2
<1>4. Block(u, d, mux, pin)
  BY <1>3 DEF Block
<1> QED  BY <1>4 DEF u, d

Values(s, n, pin) ==
  /\ s \in Seq(Access) /\ Len(s) = 13 * n
  /\ \A m \in 1 .. n : Block(s, 13 * (m - 1), MultipleOrder[m], pin)

\* A multiple measurement takes the inputs of the converter in order.
LEMMA OrderMuxes == \A m \in 1 .. 12 : /\ MultipleOrder[m] \in ConMuxes \union Con3Muxes
                                       /\ AdcChannel[MultipleOrder[m]] = m
BY DEF MultipleOrder, ConMuxes, Con3Muxes, AdcChannel

\* It grows by one block per value.
LEMMA NextValue ==
  ASSUME NEW n \in 1 .. 11, NEW pin \in 0 .. 15, NEW s, Values(s, n, pin)
  PROVE  Values(s \o single_voltage_measurement(MultipleOrder[n + 1], pin), n + 1, pin)
<1> DEFINE mux == MultipleOrder[n + 1]
           t == single_voltage_measurement(mux, pin)
<1>1. mux \in ConMuxes \union Con3Muxes
  BY OrderMuxes
<1>2. t \in Seq(Access) /\ Len(t) = 13 /\ Block(t, 0, mux, pin)
  BY <1>1, SingleScript
<1>3. s \in Seq(Access) /\ Len(s) = 13 * n
  BY DEF Values
<1> HIDE DEF mux, t
<1>4. s \o t \in Seq(Access) /\ Len(s \o t) = 13 * (n + 1)
  <2>1. s \o t \in Seq(Access) /\ Len(s \o t) = Len(s) + Len(t)
    BY <1>2, <1>3, Concat
  <2> QED  BY <1>2, <1>3, <2>1
<1>5. ASSUME NEW m \in 1 .. n
      PROVE  Block(s \o t, 13 * (m - 1), MultipleOrder[m], pin)
  <2>1. Block(s, 13 * (m - 1), MultipleOrder[m], pin)
    BY DEF Values
  <2>2. 13 * (m - 1) \in Nat /\ 13 * (m - 1) + 13 <= Len(s)
    BY <1>3
  <2> QED  BY <1>2, <1>3, <2>1, <2>2, BlockKept
<1>6. Block(s \o t, 13 * ((n + 1) - 1), MultipleOrder[n + 1], pin)
  <2>1. Block(s \o t, Len(s), mux, pin)
    <3>1. Len(t) >= 13
      BY <1>2
    <3> QED  BY <1>2, <1>3, <3>1, BlockJoined
  <2>2. Len(s) = 13 * ((n + 1) - 1)
    BY <1>3
  <2> QED  BY <2>1, <2>2 DEF mux
<1>7. Values(s \o t, n + 1, pin)
  <2> SUFFICES ASSUME NEW m \in 1 .. n + 1
               PROVE  Block(s \o t, 13 * (m - 1), MultipleOrder[m], pin)
    BY <1>4 DEF Values
  <2>1. CASE m \in 1 .. n
    BY <2>1, <1>5
  <2>2. CASE m = n + 1
    BY <2>2, <1>6
  <2> QED  BY <2>1, <2>2
<1> QED  BY <1>7 DEF t, mux

\* The whole of a multiple measurement: twelve blocks and three conversions.
LEMMA MultipleScript ==
  ASSUME NEW pin \in 0 .. 15
  PROVE  LET s == multiple_voltage_measurement(pin)
         IN  /\ s \in Seq(Access) /\ Len(s) = 159
             /\ \A m \in 1 .. 12 : Block(s, 13 * (m - 1), MultipleOrder[m], pin)
             /\ s[157] = Convert(13) /\ s[158] = Convert(14) /\ s[159] = Convert(15)
<1> DEFINE value(n) == single_voltage_measurement(MultipleOrder[n], pin)
           last == <<Convert(13), Convert(14), Convert(15)>>
           v1 == value(1)
           v2 == v1 \o value(2)
           v3 == v2 \o value(3)
           v4 == v3 \o value(4)
           v5 == v4 \o value(5)
           v6 == v5 \o value(6)
           v7 == v6 \o value(7)
           v8 == v7 \o value(8)
           v9 == v8 \o value(9)
           v10 == v9 \o value(10)
           v11 == v10 \o value(11)
           v12 == v11 \o value(12)
<1>0. multiple_voltage_measurement(pin) = v12 \o last
  BY DEF multiple_voltage_measurement
<1> HIDE DEF last, v1, v2, v3, v4, v5, v6, v7, v8, v9, v10, v11, v12
<1>1. Values(v1, 1, pin)
  <2>1. MultipleOrder[1] \in ConMuxes \union Con3Muxes
    BY OrderMuxes
  <2>2. /\ v1 \in Seq(Access) /\ Len(v1) = 13 /\ Block(v1, 0, MultipleOrder[1], pin)
    BY <2>1, SingleScript DEF v1
  <2>3. \A m \in 1 .. 1 : Block(v1, 13 * (m - 1), MultipleOrder[m], pin)
    BY <2>2
  <2> QED  BY <2>2, <2>3 DEF Values
<1>2. Values(v2, 2, pin)
  BY <1>1, NextValue DEF v2
<1>3. Values(v3, 3, pin)
  BY <1>2, NextValue DEF v3
<1>4. Values(v4, 4, pin)
  BY <1>3, NextValue DEF v4
<1>5. Values(v5, 5, pin)
  BY <1>4, NextValue DEF v5
<1>6. Values(v6, 6, pin)
  BY <1>5, NextValue DEF v6
<1>7. Values(v7, 7, pin)
  BY <1>6, NextValue DEF v7
<1>8. Values(v8, 8, pin)
  BY <1>7, NextValue DEF v8
<1>9. Values(v9, 9, pin)
  BY <1>8, NextValue DEF v9
<1>10. Values(v10, 10, pin)
  BY <1>9, NextValue DEF v10
<1>11. Values(v11, 11, pin)
  BY <1>10, NextValue DEF v11
<1>12. Values(v12, 12, pin)
  BY <1>11, NextValue DEF v12
<1>13. last \in Seq(Access) /\ Len(last) = 3 /\ last[1] = Convert(13)
       /\ last[2] = Convert(14) /\ last[3] = Convert(15)
  BY DEF last, Convert, Access, ConvertAccess
<1> DEFINE s == v12 \o last
<1> HIDE DEF s
<1>14. v12 \in Seq(Access) /\ Len(v12) = 156
  BY <1>12 DEF Values
<1>15. /\ s \in Seq(Access) /\ Len(s) = Len(v12) + Len(last)
       /\ \A i \in 1 .. Len(last) : s[Len(v12) + i] = last[i]
  <2>1. last \in Seq(Access)
    BY <1>13
  <2>2. v12 \in Seq(Access)
    BY <1>14
  <2> QED  BY <2>1, <2>2, Concat DEF s
<1>16. s[156 + 1] = last[1] /\ s[156 + 2] = last[2] /\ s[156 + 3] = last[3]
  BY <1>13, <1>14, <1>15
<1>17. ASSUME NEW m \in 1 .. 12
       PROVE  Block(s, 13 * (m - 1), MultipleOrder[m], pin)
  <2>1. Block(v12, 13 * (m - 1), MultipleOrder[m], pin)
    BY <1>12 DEF Values
  <2>2. 13 * (m - 1) \in Nat /\ 13 * (m - 1) + 13 <= Len(v12)
    BY <1>14
  <2> QED  BY <1>13, <1>14, <2>1, <2>2, BlockKept DEF s
<1>18. multiple_voltage_measurement(pin) = s
  BY <1>0 DEF s
<1> QED  BY <1>13, <1>14, <1>15, <1>16, <1>17, <1>18

\* A differential measurement: two blocks.
LEMMA DiffScript ==
  ASSUME NEW mux1 \in ConMuxes \union Con3Muxes, NEW mux2 \in ConMuxes \union Con3Muxes,
         NEW pin1 \in 0 .. 15, NEW pin2 \in 0 .. 15
  PROVE  LET s == differential_voltage_measurement(mux1, pin1, mux2, pin2)
         IN  /\ s \in Seq(Access) /\ Len(s) = 26
             /\ Block(s, 0, mux1, pin1) /\ Block(s, 13, mux2, pin2)
<1> DEFINE s == single_voltage_measurement(mux1, pin1)
           t == single_voltage_measurement(mux2, pin2)
<1>1. /\ s \in Seq(Access) /\ Len(s) = 13 /\ Block(s, 0, mux1, pin1)
      /\ t \in Seq(Access) /\ Len(t) = 13 /\ Block(t, 0, mux2, pin2)
  BY SingleScript
<1>2. differential_voltage_measurement(mux1, pin1, mux2, pin2) = s \o t
  BY DEF differential_voltage_measurement
<1> HIDE DEF s, t
<1>3. s \o t \in Seq(Access) /\ Len(s \o t) = Len(s) + Len(t)
  BY <1>1, Concat
<1>4. Block(s \o t, 0, mux1, pin1)
  <2>1. 0 \in Nat /\ 0 + 13 <= Len(s)
    BY <1>1
  <2> QED  BY <1>1, <2>1, BlockKept
<1>5. Block(s \o t, Len(s), mux2, pin2)
  <2>1. Len(t) >= 13
    BY <1>1
  <2> QED  BY <1>1, <2>1, BlockJoined
<1> QED  BY <1>1, <1>2, <1>3, <1>4, <1>5

(* A voltage command: how many values by a multiplexer, and which. *)
Voltage(r) == r.kind \in {"SINGLE", "DIFF", "MULT"}
Measured(r) == CASE r.kind = "SINGLE" -> 1 [] r.kind = "DIFF" -> 2 [] OTHER -> 12
MuxAt(r, m) == CASE r.kind = "MULT" -> MultipleOrder[m]
                 [] r.kind = "DIFF" /\ m = 2 -> r.mux2
                 [] OTHER -> r.mux
PinAt(r, m) == IF r.kind = "DIFF" /\ m = 2 THEN r.pin2 ELSE r.pin

\* A command is of the kind it says.
LEMMA Kinds ==
  ASSUME NEW r \in Commands
  PROVE  /\ r.kind \in {"SINGLE", "DIFF", "MULT", "RES", "TEST_USB", "TEST_UART"}
         /\ r.kind = "SINGLE" => r \in Single
         /\ r.kind = "DIFF" => r \in Diff
         /\ r.kind = "MULT" => r \in Multiple
         /\ r.kind = "RES" => r \in Resist
         /\ r.kind \in {"TEST_USB", "TEST_UART"} => r \in Test
<1>1. r \in Single \union Diff \union Multiple \union Resist \union Test
  BY DEF Commands
<1>2. \A c \in Resist : c.kind = "RES"
  BY DEF Resist
<1> QED  BY <1>1, <1>2 DEF Single, Diff, Multiple, Test

\* The values of a voltage command are of multiplexers and pins that exist.
LEMMA VoltageNames ==
  ASSUME NEW r \in Commands, Voltage(r), NEW m \in 1 .. Measured(r)
  PROVE  MuxAt(r, m) \in ConMuxes \union Con3Muxes /\ PinAt(r, m) \in 0 .. 15
<1> USE NamesAssumption, PinsAssumption, Kinds DEF Measured, MuxAt, PinAt
<1>1. CASE r.kind = "SINGLE"
  BY <1>1 DEF Single
<1>2. CASE r.kind = "DIFF"
  BY <1>2 DEF Diff
<1>3. CASE r.kind = "MULT"
  BY <1>3, OrderMuxes DEF Multiple
<1> QED  BY <1>1, <1>2, <1>3 DEF Voltage

\* Where the blocks of a voltage command lie.
LEMMA VoltageScript ==
  ASSUME NEW r \in Commands, Voltage(r)
  PROVE  /\ Script(r) \in Seq(Access)
         /\ Len(Script(r)) = 13 * Measured(r) + (IF r.kind = "MULT" THEN 3 ELSE 0)
         /\ \A m \in 1 .. Measured(r) : Block(Script(r), 13 * (m - 1), MuxAt(r, m), PinAt(r, m))
         /\ r.kind = "MULT" => /\ Script(r)[157] = Convert(13)
                               /\ Script(r)[158] = Convert(14)
                               /\ Script(r)[159] = Convert(15)
<1>0. \A m \in 1 .. Measured(r) : MuxAt(r, m) \in ConMuxes \union Con3Muxes /\ PinAt(r, m) \in 0 .. 15
  BY VoltageNames
<1>1. CASE r.kind = "SINGLE"
  <2>1. Script(r) = single_voltage_measurement(MuxAt(r, 1), PinAt(r, 1)) /\ Measured(r) = 1
    BY <1>1 DEF Script, MuxAt, PinAt, Measured
  <2> QED  BY <1>0, <1>1, <2>1, SingleScript
<1>2. CASE r.kind = "DIFF"
  <2>1. /\ Script(r) = differential_voltage_measurement(MuxAt(r, 1), PinAt(r, 1), MuxAt(r, 2), PinAt(r, 2))
        /\ Measured(r) = 2
    BY <1>2 DEF Script, MuxAt, PinAt, Measured
  <2>2. /\ MuxAt(r, 1) \in ConMuxes \union Con3Muxes /\ PinAt(r, 1) \in 0 .. 15
        /\ MuxAt(r, 2) \in ConMuxes \union Con3Muxes /\ PinAt(r, 2) \in 0 .. 15
    BY <1>0, <2>1
  <2>3. /\ Script(r) \in Seq(Access) /\ Len(Script(r)) = 26
        /\ Block(Script(r), 0, MuxAt(r, 1), PinAt(r, 1))
        /\ Block(Script(r), 13, MuxAt(r, 2), PinAt(r, 2))
    <3> DEFINE s == differential_voltage_measurement(MuxAt(r, 1), PinAt(r, 1), MuxAt(r, 2), PinAt(r, 2))
    <3>1. /\ s \in Seq(Access) /\ Len(s) = 26
          /\ Block(s, 0, MuxAt(r, 1), PinAt(r, 1)) /\ Block(s, 13, MuxAt(r, 2), PinAt(r, 2))
      BY <2>2, DiffScript
    <3> HIDE DEF s
    <3>2. Script(r) = s
      BY <2>1 DEF s
    <3> QED  BY <3>1, <3>2
  <2>4. ASSUME NEW m \in 1 .. 2
        PROVE  Block(Script(r), 13 * (m - 1), MuxAt(r, m), PinAt(r, m))
    <3>1. CASE m = 1
      BY <3>1, <2>3
    <3>2. CASE m = 2
      <4>1. 13 * (m - 1) = 13
        BY <3>2
      <4> QED  BY <3>2, <4>1, <2>3
    <3> QED  BY <3>1, <3>2
  <2> QED  BY <1>2, <2>1, <2>3, <2>4
<1>3. CASE r.kind = "MULT"
  <2>1. /\ Script(r) = multiple_voltage_measurement(PinAt(r, 1)) /\ Measured(r) = 12
        /\ \A m \in 1 .. 12 : PinAt(r, m) = PinAt(r, 1) /\ MuxAt(r, m) = MultipleOrder[m]
    BY <1>3 DEF Script, MuxAt, PinAt, Measured
  <2>2. PinAt(r, 1) \in 0 .. 15
    BY <1>0, <2>1
  <2>3. /\ Script(r) \in Seq(Access) /\ Len(Script(r)) = 159
        /\ \A m \in 1 .. 12 : Block(Script(r), 13 * (m - 1), MultipleOrder[m], PinAt(r, 1))
        /\ Script(r)[157] = Convert(13) /\ Script(r)[158] = Convert(14)
        /\ Script(r)[159] = Convert(15)
    <3> DEFINE s == multiple_voltage_measurement(PinAt(r, 1))
    <3>1. /\ s \in Seq(Access) /\ Len(s) = 159
          /\ \A m \in 1 .. 12 : Block(s, 13 * (m - 1), MultipleOrder[m], PinAt(r, 1))
          /\ s[157] = Convert(13) /\ s[158] = Convert(14) /\ s[159] = Convert(15)
      BY <2>2, MultipleScript
    <3> HIDE DEF s
    <3>2. Script(r) = s
      BY <2>1 DEF s
    <3> QED  BY <3>1, <3>2
  <2>4. 159 = 13 * Measured(r) + (IF r.kind = "MULT" THEN 3 ELSE 0)
    BY <1>3, <2>1
  <2>5. ASSUME NEW m \in 1 .. Measured(r)
        PROVE  Block(Script(r), 13 * (m - 1), MuxAt(r, m), PinAt(r, m))
    <3>1. MuxAt(r, m) = MultipleOrder[m] /\ PinAt(r, m) = PinAt(r, 1) /\ m \in 1 .. 12
      BY <2>1
    <3>2. Block(Script(r), 13 * (m - 1), MultipleOrder[m], PinAt(r, 1))
      BY <2>3, <3>1
    <3> QED  BY <3>1, <3>2, Zenon
  <2> QED  BY <1>3, <2>3, <2>4, <2>5
<1> QED  BY <1>1, <1>2, <1>3 DEF Voltage

-----------------------------------------------------------------------------
(* What the first accesses of a script leave *)

\* Access a writes the outputs of expander e.
Puts(a, e) == a.op = "write" /\ a.reg = OutputReg /\ a.to = e

\* The last write to e among the first n accesses of s is of v.
Holds(s, n, e, v) ==
  \E j \in 1 .. n : Puts(s[j], e) /\ s[j].bits = v /\ \A k \in j + 1 .. n : ~Puts(s[k], e)

\* Access a sets pin p, and the level it was last set to.
Touches(a, p) == a.op = "gpio" /\ p \in a.high \union a.low
Raised(s, n, p) ==
  \E j \in 1 .. n : Touches(s[j], p) /\ p \in s[j].high /\ \A k \in j + 1 .. n : ~Touches(s[k], p)
Lowered(s, n, p) ==
  \E j \in 1 .. n : Touches(s[j], p) /\ p \notin s[j].high /\ \A k \in j + 1 .. n : ~Touches(s[k], p)

\* One access more, for an expander ...
LEMMA HoldsStep ==
  ASSUME NEW s, NEW n \in Nat, NEW e, NEW v
  PROVE  Holds(s, n + 1, e, v) <=> IF Puts(s[n + 1], e) THEN s[n + 1].bits = v ELSE Holds(s, n, e, v)
<1>1. CASE Puts(s[n + 1], e)
  BY <1>1 DEF Holds
<1>2. CASE ~Puts(s[n + 1], e)
  <2>1. ASSUME Holds(s, n + 1, e, v) PROVE Holds(s, n, e, v)
    BY <1>2, <2>1 DEF Holds
  <2>2. ASSUME Holds(s, n, e, v) PROVE Holds(s, n + 1, e, v)
    <3>1. PICK j \in 1 .. n : Puts(s[j], e) /\ s[j].bits = v /\ \A k \in j + 1 .. n : ~Puts(s[k], e)
      BY <2>2 DEF Holds
    <3>2. \A k \in j + 1 .. n + 1 : ~Puts(s[k], e)
      BY <1>2, <3>1
    <3> QED  BY <3>1, <3>2 DEF Holds
  <2> QED  BY <1>2, <2>1, <2>2
<1> QED  BY <1>1, <1>2

\* ... when it is written ...
LEMMA HoldsWrite ==
  ASSUME NEW s, NEW n \in Nat, NEW e, NEW v, s[n + 1] = Write(e, v)
  PROVE  Holds(s, n + 1, e, v) /\ \A f, w : f # e /\ Holds(s, n, f, w) => Holds(s, n + 1, f, w)
<1>1. \A f : Puts(s[n + 1], f) <=> f = e
  BY DEF Puts, Write
<1>2. s[n + 1].bits = v
  BY DEF Write
<1> QED  BY <1>1, <1>2, HoldsStep

\* ... and for a pin.
LEMMA PinStep ==
  ASSUME NEW s, NEW n \in Nat, NEW p
  PROVE  /\ Raised(s, n + 1, p) <=> IF Touches(s[n + 1], p) THEN p \in s[n + 1].high ELSE Raised(s, n, p)
         /\ Lowered(s, n + 1, p) <=> IF Touches(s[n + 1], p) THEN p \notin s[n + 1].high ELSE Lowered(s, n, p)
<1>1. CASE Touches(s[n + 1], p)
  BY <1>1 DEF Raised, Lowered
<1>2. CASE ~Touches(s[n + 1], p)
  <2>1. ASSUME NEW j \in 1 .. n, \A k \in j + 1 .. n : ~Touches(s[k], p)
        PROVE  \A k \in j + 1 .. n + 1 : ~Touches(s[k], p)
    BY <1>2, <2>1
  <2>2. Raised(s, n, p) => Raised(s, n + 1, p)
    BY <2>1 DEF Raised
  <2>3. Lowered(s, n, p) => Lowered(s, n + 1, p)
    BY <2>1 DEF Lowered
  <2>4. Raised(s, n + 1, p) => Raised(s, n, p)
    BY <1>2 DEF Raised
  <2>5. Lowered(s, n + 1, p) => Lowered(s, n, p)
    BY <1>2 DEF Lowered
  <2> QED  BY <1>2, <2>2, <2>3, <2>4, <2>5
<1> QED  BY <1>1, <1>2

\* The outputs of all five expanders after n accesses.
Board(s, n, u6, u7, u9, u10, u11) ==
  /\ Holds(s, n, "U6", u6) /\ Holds(s, n, "U7", u7) /\ Holds(s, n, "U9", u9)
  /\ Holds(s, n, "U10", u10) /\ Holds(s, n, "U11", u11)

\* One access more, for all expanders.
LEMMA BoardStep ==
  ASSUME NEW s, NEW n \in Nat, NEW u6, NEW u7, NEW u9, NEW u10, NEW u11,
         Board(s, n, u6, u7, u9, u10, u11)
  PROVE  /\ \A v : s[n + 1] = Write("U6", v) => Board(s, n + 1, v, u7, u9, u10, u11)
         /\ \A v : s[n + 1] = Write("U7", v) => Board(s, n + 1, u6, v, u9, u10, u11)
         /\ \A v : s[n + 1] = Write("U9", v) => Board(s, n + 1, u6, u7, v, u10, u11)
         /\ \A v : s[n + 1] = Write("U10", v) => Board(s, n + 1, u6, u7, u9, v, u11)
         /\ \A v : s[n + 1] = Write("U11", v) => Board(s, n + 1, u6, u7, u9, u10, v)
         /\ s[n + 1].op # "write" => Board(s, n + 1, u6, u7, u9, u10, u11)
<1>1. ASSUME NEW e, NEW v, s[n + 1] = Write(e, v)
      PROVE  Holds(s, n + 1, e, v) /\ \A f, w : f # e /\ Holds(s, n, f, w) => Holds(s, n + 1, f, w)
  BY <1>1, HoldsWrite
<1>2. s[n + 1].op # "write" => \A f, w : Holds(s, n, f, w) => Holds(s, n + 1, f, w)
  BY HoldsStep DEF Puts
<1> QED  BY <1>1, <1>2 DEF Board

\* After the five writes of reset_all all lines are open.
LEMMA ResetBoard ==
  ASSUME NEW s, NEW n \in Nat,
         s[n + 1] = Write("U6", {}), s[n + 2] = Write("U7", {}), s[n + 3] = Write("U9", {}),
         s[n + 4] = Write("U10", {}), s[n + 5] = Write("U11", {})
  PROVE  Board(s, n + 5, {}, {}, {}, {}, {})
<1>1. /\ (n + 1) + 1 = n + 2 /\ (n + 2) + 1 = n + 3 /\ (n + 3) + 1 = n + 4 /\ (n + 4) + 1 = n + 5
      /\ n + 1 \in Nat /\ n + 2 \in Nat /\ n + 3 \in Nat /\ n + 4 \in Nat
  OBVIOUS
<1>2. Holds(s, n + 1, "U6", {})
  BY HoldsWrite
<1>3. Holds(s, (n + 1) + 1, "U6", {}) /\ Holds(s, (n + 1) + 1, "U7", {})
  <2>1. s[(n + 1) + 1] = Write("U7", {})
    BY <1>1
  <2> QED  BY <1>1, <1>2, <2>1, HoldsWrite
<1>4. \A e \in {"U6", "U7", "U9"} : Holds(s, (n + 2) + 1, e, {})
  <2>1. s[(n + 2) + 1] = Write("U9", {}) /\ Holds(s, n + 2, "U6", {}) /\ Holds(s, n + 2, "U7", {})
    BY <1>1, <1>3
  <2> QED  BY <1>1, <2>1, HoldsWrite
<1>5. \A e \in {"U6", "U7", "U9", "U10"} : Holds(s, (n + 3) + 1, e, {})
  <2>1. s[(n + 3) + 1] = Write("U10", {}) /\ \A e \in {"U6", "U7", "U9"} : Holds(s, n + 3, e, {})
    BY <1>1, <1>4
  <2> QED  BY <1>1, <2>1, HoldsWrite
<1>6. \A e \in {"U6", "U7", "U9", "U10", "U11"} : Holds(s, (n + 4) + 1, e, {})
  <2>1. s[(n + 4) + 1] = Write("U11", {}) /\ \A e \in {"U6", "U7", "U9", "U10"} : Holds(s, n + 4, e, {})
    BY <1>1, <1>5
  <2> QED  BY <1>1, <2>1, HoldsWrite
<1> QED  BY <1>1, <1>6 DEF Board

\* What a conversion through a multiplexer has to see.
Seen(s, n, mux, pin) ==
  IF mux \in Con3Muxes
  THEN Board(s, n, {}, {}, {}, {}, rpin_select(pin) \union enable_mux[mux])
  ELSE Board(s, n, enable_mux[mux], vrpin_select(pin), {}, {}, {})

\* The conversion of a block sees its path, and its end finds all open.
LEMMA BlockSeen ==
  ASSUME NEW s, NEW d \in Nat, NEW mux \in ConMuxes \union Con3Muxes, NEW pin, Block(s, d, mux, pin)
  PROVE  Seen(s, d + 7, mux, pin) /\ Board(s, d + 13, {}, {}, {}, {}, {})
<1>1. Board(s, d + 5, {}, {}, {}, {}, {})
  BY ResetBoard DEF Block
<1>2. (d + 5) + 1 = d + 6 /\ (d + 6) + 1 = d + 7 /\ d + 5 \in Nat /\ d + 6 \in Nat
  OBVIOUS
<1>3. ASSUME mux \in Con3Muxes PROVE Seen(s, d + 7, mux, pin)
  <2>1. s[d + 6] = Write("U11", enable_mux[mux])
        /\ s[d + 7] = Write("U11", rpin_select(pin) \union enable_mux[mux])
    BY <1>3 DEF Block
  <2>2. Board(s, d + 6, {}, {}, {}, {}, enable_mux[mux])
    BY <1>1, <1>2, <2>1, BoardStep
  <2>3. Board(s, d + 7, {}, {}, {}, {}, rpin_select(pin) \union enable_mux[mux])
    BY <1>2, <2>1, <2>2, BoardStep
  <2> QED  BY <1>3, <2>3 DEF Seen
<1>4. ASSUME mux \notin Con3Muxes PROVE Seen(s, d + 7, mux, pin)
  <2>1. s[d + 6] = Write("U6", enable_mux[mux]) /\ s[d + 7] = Write("U7", vrpin_select(pin))
    BY <1>4 DEF Block
  <2>2. Board(s, d + 6, enable_mux[mux], {}, {}, {}, {})
    BY <1>1, <1>2, <2>1, BoardStep
  <2>3. Board(s, d + 7, enable_mux[mux], vrpin_select(pin), {}, {}, {})
    BY <1>2, <2>1, <2>2, BoardStep
  <2> QED  BY <1>4, <2>3 DEF Seen
<1>5. Board(s, d + 13, {}, {}, {}, {}, {})
  <2>1. /\ (d + 8) + 1 = d + 9 /\ (d + 8) + 2 = d + 10 /\ (d + 8) + 3 = d + 11
        /\ (d + 8) + 4 = d + 12 /\ (d + 8) + 5 = d + 13 /\ d + 8 \in Nat
    OBVIOUS
  <2>2. /\ s[d + 9] = Write("U6", {}) /\ s[d + 10] = Write("U7", {}) /\ s[d + 11] = Write("U9", {})
        /\ s[d + 12] = Write("U10", {}) /\ s[d + 13] = Write("U11", {})
    BY DEF Block
  <2>3. Board(s, (d + 8) + 5, {}, {}, {}, {}, {})
    BY <2>1, <2>2, ResetBoard
  <2> QED  BY <2>1, <2>3
<1> QED  BY <1>3, <1>4, <1>5

-----------------------------------------------------------------------------
(* No access breaks one path while it makes another *)

\* The write after the first n accesses is of the outputs of an expander: it
\* opens all of them or keeps what is closed, and it closes a coil of the USB
\* lines only when the pen drive was last switched off.
Safe(s, n) ==
  s[n + 1].op = "write" =>
    /\ s[n + 1].reg = OutputReg /\ s[n + 1].to \in Expanders
    /\ s[n + 1].bits = {} \/ \E v : Holds(s, n, s[n + 1].to, v) /\ v \subseteq s[n + 1].bits
    /\ s[n + 1].to = "U10" /\ s[n + 1].bits \intersect {0, 1} # {} => Lowered(s, n, "VBUS")

\* A write that opens all lines is safe.
LEMMA SafeReset ==
  ASSUME NEW s, NEW n, NEW e \in Expanders, s[n + 1] = Write(e, {})
  PROVE  Safe(s, n)
BY DEF Safe, Write

\* So is one that keeps what the expander holds.
LEMMA SafeWrite ==
  ASSUME NEW s, NEW n, NEW e \in Expanders, NEW v, NEW w, s[n + 1] = Write(e, v),
         Holds(s, n, e, w), w \subseteq v,
         e = "U10" /\ v \intersect {0, 1} # {} => Lowered(s, n, "VBUS")
  PROVE  Safe(s, n)
BY DEF Safe, Write

\* Every access of a block is safe.
LEMMA BlockSafe ==
  ASSUME NEW s, NEW d \in Nat, NEW mux \in ConMuxes \union Con3Muxes, NEW pin, Block(s, d, mux, pin),
         NEW k \in 0 .. 12
  PROVE  Safe(s, d + k)
<1>1. Board(s, d + 5, {}, {}, {}, {}, {})
  BY ResetBoard DEF Block
<1>2. CASE k \in (0 .. 4) \union (8 .. 12)
  <2>1. \E e \in Expanders : s[(d + k) + 1] = Write(e, {})
    <3>1. \A i \in 0 .. 12 : (d + i) + 1 = d + (i + 1)
      OBVIOUS
    <3>2. k = 0 \/ k = 1 \/ k = 2 \/ k = 3 \/ k = 4 \/ k = 8 \/ k = 9 \/ k = 10 \/ k = 11 \/ k = 12
      BY <1>2
    <3> QED  BY <3>1, <3>2 DEF Block, Expanders
  <2> QED  BY <2>1, SafeReset
<1>3. CASE k = 5
  <2>1. (d + 5) + 1 = d + 6
    OBVIOUS
  <2>2. \E e \in {"U6", "U11"} : \E v : s[(d + 5) + 1] = Write(e, v)
    BY <2>1 DEF Block
  <2>3. Holds(s, d + 5, "U6", {}) /\ Holds(s, d + 5, "U11", {})
    BY <1>1 DEF Board
  <2> QED  BY <1>3, <2>2, <2>3, SafeWrite DEF Expanders
<1>4. CASE k = 6
  <2>1. (d + 6) + 1 = d + 7 /\ (d + 5) + 1 = d + 6 /\ d + 5 \in Nat
    OBVIOUS
  <2>2. CASE mux \in Con3Muxes
    <3>1. /\ s[(d + 6) + 1] = Write("U11", rpin_select(pin) \union enable_mux[mux])
          /\ s[(d + 5) + 1] = Write("U11", enable_mux[mux])
      BY <2>1, <2>2 DEF Block
    <3>2. Holds(s, (d + 5) + 1, "U11", enable_mux[mux])
      BY <2>1, <3>1, HoldsWrite
    <3>3. Holds(s, d + 6, "U11", enable_mux[mux])
      BY <2>1, <3>2
    <3> QED  BY <1>4, <3>1, <3>3, SafeWrite DEF Expanders
  <2>3. CASE mux \notin Con3Muxes
    <3>1. /\ s[(d + 6) + 1] = Write("U7", vrpin_select(pin))
          /\ s[(d + 5) + 1] = Write("U6", enable_mux[mux])
      BY <2>1, <2>3 DEF Block
    <3>2. Holds(s, d + 5, "U7", {})
      BY <1>1 DEF Board
    <3>3. Holds(s, (d + 5) + 1, "U7", {})
      BY <2>1, <3>1, <3>2, HoldsWrite
    <3>4. Holds(s, d + 6, "U7", {})
      BY <2>1, <3>3
    <3> QED  BY <1>4, <3>1, <3>4, SafeWrite DEF Expanders
  <2> QED  BY <2>2, <2>3
<1>5. CASE k = 7
  <2>1. (d + 7) + 1 = d + 8
    OBVIOUS
  <2>2. s[(d + 7) + 1].op = "convert"
    BY <2>1 DEF Block, Convert
  <2> QED  BY <1>5, <2>2 DEF Safe
<1> QED  BY <1>2, <1>3, <1>4, <1>5

\* The conversion is the eighth access of a block.
LEMMA BlockOps ==
  ASSUME NEW s, NEW d \in Nat, NEW mux \in ConMuxes \union Con3Muxes, NEW pin, Block(s, d, mux, pin),
         NEW k \in 1 .. 13
  PROVE  s[d + k].op = IF k = 8 THEN "convert" ELSE "write"
<1>1. \A e, v : Write(e, v).op = "write"
  BY DEF Write
<1>2. \A ch : Convert(ch).op = "convert"
  BY DEF Convert
<1>3. k = 1 \/ k = 2 \/ k = 3 \/ k = 4 \/ k = 5 \/ k = 6 \/ k = 7 \/ k = 8 \/ k = 9 \/ k = 10
      \/ k = 11 \/ k = 12 \/ k = 13
  OBVIOUS
<1>4. CASE k = 6
  <2>1. \E e, v : s[d + 6] = Write(e, v)
    BY DEF Block
  <2> QED  BY <1>1, <1>4, <2>1
<1>5. CASE k = 7
  <2>1. \E e, v : s[d + 7] = Write(e, v)
    BY DEF Block
  <2> QED  BY <1>1, <1>5, <2>1
<1>6. CASE k = 8
  BY <1>2, <1>6 DEF Block
<1>7. CASE k \in {1, 2, 3, 4, 5}
  BY <1>1, <1>7 DEF Block
<1>8. CASE k \in {9, 10, 11, 12, 13}
  BY <1>1, <1>8 DEF Block
<1> QED  BY <1>3, <1>4, <1>5, <1>6, <1>7, <1>8

\* How long the script of a voltage command is.
LEMMA VoltageLength ==
  ASSUME NEW r \in Commands, Voltage(r)
  PROVE  /\ Measured(r) \in 1 .. 12 /\ Script(r) \in Seq(Access)
         /\ r.kind = "MULT" => Measured(r) = 12 /\ Len(Script(r)) = 159
         /\ r.kind # "MULT" => Len(Script(r)) = 13 * Measured(r)
<1>1. Measured(r) \in 1 .. 12 /\ (r.kind = "MULT" => Measured(r) = 12)
  BY DEF Measured
<1>2. Len(Script(r)) = 13 * Measured(r) + (IF r.kind = "MULT" THEN 3 ELSE 0)
  BY VoltageScript
<1>3. r.kind = "MULT" => Len(Script(r)) = 159
  BY <1>1, <1>2
<1>4. r.kind # "MULT" => Len(Script(r)) = 13 * Measured(r)
  BY <1>1, <1>2
<1> QED  BY <1>1, <1>3, <1>4, VoltageScript

\* An access of a voltage command lies in one of its blocks, or is one of the
\* last three conversions of a multiple measurement.
LEMMA Place ==
  ASSUME NEW N \in Nat, NEW i \in 1 .. 13 * N
  PROVE  \E m \in 1 .. N, k \in 1 .. 13 : i = 13 * (m - 1) + k
<1> DEFINE m == (i - 1) \div 13 + 1
           k == ((i - 1) % 13) + 1
<1>1. i = 13 * (m - 1) + k /\ k \in 1 .. 13 /\ m \in Int
  OBVIOUS
<1> HIDE DEF m, k
<1>2. m \in 1 .. N
  BY <1>1
<1> QED  BY <1>1, <1>2

\* All is open after the blocks of a voltage command and at its end.
LEMMA VoltageEnd ==
  ASSUME NEW r \in Commands, Voltage(r)
  PROVE  LET s == Script(r)
         IN  /\ Board(s, 13 * Measured(r), {}, {}, {}, {}, {})
             /\ r.kind = "MULT" => \A i \in 157 .. 159 : Board(s, i - 1, {}, {}, {}, {}, {})
             /\ Board(s, Len(s), {}, {}, {}, {}, {})
<1> DEFINE s == Script(r)
           N == Measured(r)
<1>1. N \in 1 .. 12 /\ (r.kind = "MULT" => N = 12)
  BY DEF Measured
<1>2. Board(s, 13 * N, {}, {}, {}, {}, {})
  <2>1. Block(s, 13 * (N - 1), MuxAt(r, N), PinAt(r, N)) /\ MuxAt(r, N) \in ConMuxes \union Con3Muxes
    BY <1>1, VoltageScript, VoltageNames
  <2>2. 13 * (N - 1) \in Nat /\ 13 * (N - 1) + 13 = 13 * N
    BY <1>1
  <2>3. Board(s, 13 * (N - 1) + 13, {}, {}, {}, {}, {})
    BY <2>1, <2>2, BlockSeen
  <2> QED  BY <2>2, <2>3
<1>3. ASSUME r.kind = "MULT"
      PROVE  /\ \A i \in 156 .. 159 : Board(s, i, {}, {}, {}, {}, {})
             /\ Len(s) = 159
  <2>1. s[156 + 1].op # "write" /\ s[157 + 1].op # "write" /\ s[158 + 1].op # "write"
    BY <1>3, VoltageScript DEF Convert
  <2>2. Board(s, 156, {}, {}, {}, {}, {})
    BY <1>1, <1>2, <1>3
  <2>3. Board(s, 156 + 1, {}, {}, {}, {}, {})
    BY <2>1, <2>2, BoardStep
  <2>4. Board(s, 157 + 1, {}, {}, {}, {}, {})
    BY <2>1, <2>3, BoardStep
  <2>5. Board(s, 158 + 1, {}, {}, {}, {}, {})
    BY <2>1, <2>4, BoardStep
  <2>6. Len(s) = 159
    BY <1>3, VoltageLength
  <2> QED  BY <2>2, <2>3, <2>4, <2>5, <2>6
<1>4. r.kind # "MULT" => Len(s) = 13 * N
  BY VoltageLength
<1>5. Board(s, Len(s), {}, {}, {}, {}, {})
  <2>1. 159 \in 156 .. 159 /\ \A i \in 157 .. 159 : i - 1 \in 156 .. 159
    OBVIOUS
  <2> QED  BY <1>2, <1>3, <1>4, <2>1
<1>6. r.kind = "MULT" => \A i \in 157 .. 159 : Board(s, i - 1, {}, {}, {}, {}, {})
  <2>1. \A i \in 157 .. 159 : i - 1 \in 156 .. 159
    OBVIOUS
  <2> QED  BY <1>3, <2>1
<1> QED  BY <1>2, <1>5, <1>6

\* Every access of a voltage command is safe, and none is of the pins.
LEMMA VoltageSafe ==
  ASSUME NEW r \in Commands, Voltage(r), NEW n \in 0 .. Len(Script(r)) - 1
  PROVE  Safe(Script(r), n) /\ Script(r)[n + 1].op # "gpio"
<1> DEFINE s == Script(r)
           N == Measured(r)
<1>1. N \in 1 .. 12 /\ (r.kind = "MULT" => N = 12) /\ Len(s) = 13 * N + (IF r.kind = "MULT" THEN 3 ELSE 0)
  BY VoltageScript DEF Measured
<1>2. CASE n + 1 \in 1 .. 13 * N
  <2>1. PICK m \in 1 .. N, k \in 1 .. 13 : n + 1 = 13 * (m - 1) + k
    <3>1. N \in Nat
      BY <1>1
    <3> QED  BY <1>2, <3>1, Place
  <2>2. Block(s, 13 * (m - 1), MuxAt(r, m), PinAt(r, m)) /\ MuxAt(r, m) \in ConMuxes \union Con3Muxes
    BY VoltageScript, VoltageNames
  <2>3. 13 * (m - 1) \in Nat /\ k - 1 \in 0 .. 12 /\ n = 13 * (m - 1) + (k - 1)
    BY <2>1
  <2>4. Safe(s, 13 * (m - 1) + (k - 1))
    BY <2>2, <2>3, BlockSafe
  <2>5. s[13 * (m - 1) + k].op # "gpio"
    BY <2>2, <2>3, BlockOps
  <2> QED  BY <2>1, <2>3, <2>4, <2>5
<1>3. CASE n + 1 \notin 1 .. 13 * N
  <2>1. r.kind = "MULT" /\ n + 1 \in 157 .. 159
    BY <1>1, <1>3
  <2>2. s[n + 1].op = "convert"
    BY <2>1, VoltageScript DEF Convert
  <2> QED  BY <2>2 DEF Safe
<1> QED  BY <1>2, <1>3

\* Where the conversions of a voltage command are.
LEMMA VoltageConverts ==
  ASSUME NEW r \in Commands, Voltage(r), NEW i \in 1 .. Len(Script(r)), Script(r)[i].op = "convert"
  PROVE  \/ \E m \in 1 .. Measured(r) : i = 13 * (m - 1) + 8
         \/ r.kind = "MULT" /\ i \in 157 .. 159
<1> DEFINE s == Script(r)
           N == Measured(r)
<1>1. N \in 1 .. 12 /\ (r.kind = "MULT" => N = 12) /\ Len(s) = 13 * N + (IF r.kind = "MULT" THEN 3 ELSE 0)
  BY VoltageScript DEF Measured
<1>2. CASE i \in 1 .. 13 * N
  <2>1. PICK m \in 1 .. N, k \in 1 .. 13 : i = 13 * (m - 1) + k
    <3>1. N \in Nat
      BY <1>1
    <3> QED  BY <1>2, <3>1, Place
  <2> DEFINE d == 13 * (m - 1)
  <2>2. Block(s, d, MuxAt(r, m), PinAt(r, m)) /\ MuxAt(r, m) \in ConMuxes \union Con3Muxes
    BY VoltageScript, VoltageNames
  <2> HIDE DEF d
  <2>3. i = d + k
    BY <2>1 DEF d
  <2>4. d \in Nat
    BY DEF d
  <2>5. k = 8
    BY <2>2, <2>3, <2>4, BlockOps
  <2> QED  BY <2>1, <2>5
<1>3. CASE i \notin 1 .. 13 * N
  BY <1>1, <1>3
<1> QED  BY <1>2, <1>3

-----------------------------------------------------------------------------
(* The scripts of boot, of the tests and of the resistance commands *)

\* What an access of the pins does.
LEMMA PinsGpio ==
  ASSUME NEW s, NEW n \in Nat, NEW high, NEW low, s[n + 1] = Gpio(high, low)
  PROVE  /\ \A p \in high : Raised(s, n + 1, p)
         /\ \A p \in low \ high : Lowered(s, n + 1, p)
         /\ \A p : p \notin high \union low /\ Raised(s, n, p) => Raised(s, n + 1, p)
         /\ \A p : p \notin high \union low /\ Lowered(s, n, p) => Lowered(s, n + 1, p)
<1>1. \A p : Touches(s[n + 1], p) <=> p \in high \union low
  BY DEF Touches, Gpio
<1>2. s[n + 1].high = high
  BY DEF Gpio
<1> QED  BY <1>1, <1>2, PinStep

\* Other accesses leave them.
LEMMA PinsKept ==
  ASSUME NEW s, NEW n \in Nat, s[n + 1].op # "gpio", NEW p
  PROVE  /\ Raised(s, n, p) => Raised(s, n + 1, p)
         /\ Lowered(s, n, p) => Lowered(s, n + 1, p)
BY PinStep DEF Touches

\* Boot configures the expanders and opens all lines.
LEMMA BootScript ==
  LET s == Script(AtBoot)
  IN  /\ s \in Seq(Access) /\ Len(s) = 10
      /\ \A i \in 1 .. 5 : \E e \in Expanders : s[i] = Config(e)
      /\ \A i \in 6 .. 10 : \E e \in Expanders : s[i] = Write(e, {})
      /\ Board(s, 10, {}, {}, {}, {}, {})
<1> DEFINE s == io_expander_config \o reset_all
<1>1. Script(AtBoot) = s
  BY DEF Script, AtBoot
<1>2. /\ io_expander_config \in Seq(Access) /\ Len(io_expander_config) = 5
      /\ \A i \in 1 .. 5 : \E e \in Expanders : io_expander_config[i] = Config(e)
  BY DEF io_expander_config, Config, Access, WriteAccess, Expanders, Bits
<1>3. /\ s \in Seq(Access) /\ Len(s) = Len(io_expander_config) + Len(reset_all)
      /\ \A i \in 1 .. Len(io_expander_config) : s[i] = io_expander_config[i]
      /\ \A i \in 1 .. Len(reset_all) : s[Len(io_expander_config) + i] = reset_all[i]
  BY <1>2, ResetWrites, Concat
<1> HIDE DEF s
<1>4. \A i \in 1 .. 5 : s[i] = io_expander_config[i] /\ s[5 + i] = reset_all[i]
  BY <1>2, <1>3, ResetWrites
<1>5. /\ s[5 + 1] = Write("U6", {}) /\ s[5 + 2] = Write("U7", {}) /\ s[5 + 3] = Write("U9", {})
      /\ s[5 + 4] = Write("U10", {}) /\ s[5 + 5] = Write("U11", {})
  BY <1>4, ResetWrites
<1>6. Board(s, 5 + 5, {}, {}, {}, {}, {})
  BY <1>5, ResetBoard
<1>7. \A i \in 6 .. 10 : \E e \in Expanders : s[i] = Write(e, {})
  BY <1>5 DEF Expanders
<1> QED  BY <1>1, <1>2, <1>3, <1>4, <1>6, <1>7, ResetWrites

\* The UART switch is one access ...
LEMMA UartTyped ==
  ASSUME NEW ch \in 0 .. 3
  PROVE  uart_select(ch) \in Seq(Access) /\ Len(uart_select(ch)) = 1
BY DEF uart_select, Gpio, Access, GpioAccess, SwitchPins

\* ... that selects the channel, wherever in a script it is.
LEMMA UartScript ==
  ASSUME NEW ch \in 0 .. 3, NEW t, NEW n \in Nat, t[n + 1] = uart_select(ch)[1]
  PROVE  /\ t[n + 1].op = "gpio"
         /\ IF ch % 2 = 1 THEN Raised(t, n + 1, "UART_A0") ELSE Lowered(t, n + 1, "UART_A0")
         /\ IF ch >= 2 THEN Raised(t, n + 1, "UART_A1") ELSE Lowered(t, n + 1, "UART_A1")
<1> DEFINE high == {p \in {"UART_A0", "UART_A1"} : IF p = "UART_A0" THEN ch % 2 = 1 ELSE ch >= 2}
           g == Gpio({"UART_EN"} \union high, {"UART_A0", "UART_A1"} \ high)
<1>1. uart_select(ch) = <<g>>
  BY DEF uart_select
<1>2. g.op = "gpio"
  BY DEF Gpio
<1>3. /\ "UART_A0" \in high <=> ch % 2 = 1
      /\ "UART_A1" \in high <=> ch >= 2
  OBVIOUS
<1>4. t[n + 1] = g
  BY <1>1
<1>5. /\ \A p \in {"UART_EN"} \union high : Raised(t, n + 1, p)
      /\ \A p \in ({"UART_A0", "UART_A1"} \ high) \ ({"UART_EN"} \union high) : Lowered(t, n + 1, p)
  BY <1>4, PinsGpio
<1> HIDE DEF high, g
<1> QED  BY <1>2, <1>3, <1>4, <1>5

\* The switches after n accesses lead the meter, or the pen drive, to a channel.
MeterSet(s, n, ch) ==
  /\ Lowered(s, n, "VBUS") /\ Lowered(s, n, "SEL_A1") /\ Raised(s, n, "SEL_B1")
  /\ IF ch = 1 THEN Raised(s, n, "SEL_A0") ELSE Lowered(s, n, "SEL_A0")
  /\ IF ch = 3 THEN Raised(s, n, "SEL_B0") ELSE Lowered(s, n, "SEL_B0")
FunctionSet(s, n, ch) ==
  /\ Raised(s, n, "VBUS")
  /\ IF ch = 2 THEN Lowered(s, n, "SEL_A1") /\ Lowered(s, n, "SEL_B0") ELSE Raised(s, n, "SEL_A1")
  /\ ch = 0 => Lowered(s, n, "SEL_A0")
  /\ ch = 1 => Raised(s, n, "SEL_A0")

\* The resistance path of the USB switch is three accesses ...
LEMMA MeterTyped ==
  ASSUME NEW ch \in 0 .. 3
  PROVE  usb_resistance_test(ch) \in Seq(Access) /\ Len(usb_resistance_test(ch)) = 3
<1> DEFINE high == {"SEL_B1"} \union (CASE ch = 1 -> {"SEL_A0"} [] ch = 3 -> {"SEL_B0"} [] OTHER -> {})
           g == Gpio(UsbEnable \union high, {"SEL_A1"})
<1>1. usb_resistance_test(ch) = <<Gpio({}, {"VBUS"}), usb_clear_selection, g>>
  BY DEF usb_resistance_test
<1>2. high \subseteq {"SEL_B1", "SEL_A0", "SEL_B0"}
  OBVIOUS
<1> HIDE DEF high
<1>3. Gpio({}, {"VBUS"}) \in Access /\ usb_clear_selection \in Access /\ g \in Access
  BY <1>2 DEF usb_clear_selection, Gpio, Access, GpioAccess, SwitchPins, UsbSelect, UsbEnable
<1> QED  BY <1>1, <1>3

\* ... that lead the meter to the channel, without power.
LEMMA MeterScript ==
  ASSUME NEW ch \in 0 .. 3, NEW t, NEW n \in Nat, t[n + 1] = usb_resistance_test(ch)[1],
         t[n + 2] = usb_resistance_test(ch)[2], t[n + 3] = usb_resistance_test(ch)[3]
  PROVE  /\ t[n + 1].op = "gpio" /\ t[n + 2].op = "gpio" /\ t[n + 3].op = "gpio"
         /\ MeterSet(t, n + 3, ch)
<1> DEFINE high == {"SEL_B1"} \union (CASE ch = 1 -> {"SEL_A0"} [] ch = 3 -> {"SEL_B0"} [] OTHER -> {})
           g == Gpio(UsbEnable \union high, {"SEL_A1"})
<1>1. usb_resistance_test(ch) = <<Gpio({}, {"VBUS"}), usb_clear_selection, g>>
  BY DEF usb_resistance_test
<1>2. high = {"SEL_B1"} \union (IF ch = 1 THEN {"SEL_A0"} ELSE IF ch = 3 THEN {"SEL_B0"} ELSE {})
  OBVIOUS
<1> HIDE DEF high
<1>5. /\ t[n + 1] = Gpio({}, {"VBUS"})
      /\ t[(n + 1) + 1] = Gpio({}, UsbSelect \union UsbEnable)
      /\ t[(n + 2) + 1] = g
      /\ n + 1 \in Nat /\ n + 2 \in Nat /\ (n + 1) + 1 = n + 2 /\ (n + 2) + 1 = n + 3
  BY <1>1 DEF usb_clear_selection
<1>6. Lowered(t, n + 1, "VBUS")
  BY <1>5, PinsGpio
<1>7. Lowered(t, n + 2, "VBUS") /\ Lowered(t, n + 2, "SEL_A0") /\ Lowered(t, n + 2, "SEL_B0")
  <2>1. "VBUS" \notin {} \union (UsbSelect \union UsbEnable)
        /\ {"SEL_A0", "SEL_B0"} \subseteq (UsbSelect \union UsbEnable) \ {}
    BY DEF UsbSelect, UsbEnable
  <2>2. /\ Lowered(t, (n + 1) + 1, "VBUS") /\ Lowered(t, (n + 1) + 1, "SEL_A0")
        /\ Lowered(t, (n + 1) + 1, "SEL_B0")
    BY <1>5, <1>6, <2>1, PinsGpio
  <2> QED  BY <1>5, <2>2
<1>8. MeterSet(t, (n + 2) + 1, ch)
  <2> DEFINE up == UsbEnable \union high
             down == {"SEL_A1"}
  <2>1. /\ "VBUS" \notin up \union down /\ "SEL_A1" \in down \ up /\ "SEL_B1" \in up
        /\ "SEL_A0" \notin down /\ "SEL_B0" \notin down
        /\ "SEL_A0" \in up <=> ch = 1
        /\ "SEL_B0" \in up <=> ch = 3
    BY <1>2 DEF UsbEnable
  <2> HIDE DEF up, down
  <2>2. /\ \A p \in up : Raised(t, (n + 2) + 1, p)
        /\ \A p \in down \ up : Lowered(t, (n + 2) + 1, p)
        /\ \A p : p \notin up \union down /\ Lowered(t, n + 2, p) => Lowered(t, (n + 2) + 1, p)
    BY <1>5, PinsGpio DEF up, down
  <2> QED  BY <1>7, <2>1, <2>2 DEF MeterSet
<1>9. t[n + 1].op = "gpio" /\ t[n + 2].op = "gpio" /\ t[n + 3].op = "gpio"
  BY <1>5 DEF Gpio
<1> QED  BY <1>5, <1>8, <1>9

\* A USB test powers the pen drive and leads it to its channel.
LEMMA FunctionScript ==
  ASSUME NEW ch \in 0 .. 3
  PROVE  /\ usb_function_test(ch) \in Seq(Access) /\ Len(usb_function_test(ch)) = 3
         /\ \A i \in 1 .. 3 : usb_function_test(ch)[i].op = "gpio"
         /\ FunctionSet(usb_function_test(ch), 3, ch)
<1> DEFINE t == usb_function_test(ch)
           high == CASE ch \in {0, 3} -> {"SEL_A1", "SEL_B1"}
                     [] ch = 1        -> {"SEL_A1", "SEL_B1", "SEL_A0"}
                     [] ch = 2        -> {}
           g == Gpio(UsbEnable \union high, UsbSelect \ high)
<1>1. t = <<usb_clear_selection, Gpio({"VBUS"}, {}), g>>
  BY DEF usb_function_test
<1>2. high = IF ch = 2 THEN {} ELSE IF ch = 1 THEN {"SEL_A1", "SEL_B1", "SEL_A0"} ELSE {"SEL_A1", "SEL_B1"}
  OBVIOUS
<1> HIDE DEF high, t
<1>3. Gpio({"VBUS"}, {}) \in Access /\ usb_clear_selection \in Access /\ g \in Access
  BY <1>2 DEF usb_clear_selection, Gpio, Access, GpioAccess, SwitchPins, UsbSelect, UsbEnable
<1>4. t \in Seq(Access) /\ Len(t) = 3
  BY <1>1, <1>3
<1>5. t[1 + 1] = Gpio({"VBUS"}, {}) /\ t[2 + 1] = g /\ t[1] = Gpio({}, UsbSelect \union UsbEnable)
  BY <1>1 DEF usb_clear_selection
<1>6. Raised(t, 2, "VBUS")
  <2>1. 1 \in Nat /\ t[1 + 1] = Gpio({"VBUS"}, {})
    BY <1>5
  <2>2. Raised(t, 1 + 1, "VBUS")
    BY <2>1, PinsGpio
  <2> QED  BY <2>2
<1>7. FunctionSet(t, 2 + 1, ch)
  <2> DEFINE up == UsbEnable \union high
             down == UsbSelect \ high
  <2>1. /\ "VBUS" \notin up \union down
        /\ IF ch = 2 THEN {"SEL_A1", "SEL_B0"} \subseteq down \ up ELSE "SEL_A1" \in up
        /\ ch = 0 => "SEL_A0" \in down \ up
        /\ ch = 1 => "SEL_A0" \in up
    BY <1>2 DEF UsbEnable, UsbSelect
  <2> HIDE DEF up, down
  <2>2. /\ \A p \in up : Raised(t, 2 + 1, p)
        /\ \A p \in down \ up : Lowered(t, 2 + 1, p)
        /\ \A p : p \notin up \union down /\ Raised(t, 2, p) => Raised(t, 2 + 1, p)
    BY <1>5, PinsGpio DEF up, down
  <2> QED  BY <1>6, <2>1, <2>2 DEF FunctionSet
<1>8. \A i \in 1 .. 3 : t[i].op = "gpio"
  BY <1>5 DEF Gpio
<1> QED  BY <1>4, <1>7, <1>8 DEF t

\* The three parts of a resistance command, and where they lie.
LEMMA Parts ==
  ASSUME NEW near \in Seq(Access), NEW far \in Seq(Access), Len(far) = 2
  PROVE  LET s == (reset_all \o near) \o far
         IN  /\ s \in Seq(Access) /\ Len(s) = Len(near) + 7
             /\ \A i \in 1 .. 5 : s[i] = reset_all[i]
             /\ \A i \in 1 .. Len(near) : s[5 + i] = near[i]
             /\ s[Len(near) + 6] = far[1] /\ s[Len(near) + 7] = far[2]
<1> DEFINE a == reset_all \o near
           s == a \o far
<1>1. Len(near) \in Nat
  BY LenProperties
<1>2. reset_all \in Seq(Access) /\ Len(reset_all) = 5
  BY ResetWrites
<1>3. /\ a \in Seq(Access) /\ Len(a) = Len(reset_all) + Len(near)
      /\ \A i \in 1 .. Len(reset_all) : a[i] = reset_all[i]
      /\ \A i \in 1 .. Len(near) : a[Len(reset_all) + i] = near[i]
  BY <1>2, Concat
<1> HIDE DEF a
<1>4. /\ s \in Seq(Access) /\ Len(s) = Len(a) + Len(far)
      /\ \A i \in 1 .. Len(a) : s[i] = a[i]
      /\ \A i \in 1 .. Len(far) : s[Len(a) + i] = far[i]
  BY <1>3, Concat
<1> HIDE DEF s
<1>5. Len(a) = 5 + Len(near)
  BY <1>2, <1>3
<1>6. \A i \in 1 .. 5 : s[i] = reset_all[i]
  BY <1>1, <1>2, <1>3, <1>4, <1>5
<1>7. ASSUME NEW i \in 1 .. Len(near) PROVE s[5 + i] = near[i]
  <2>1. a[5 + i] = near[i] /\ 5 + i \in 1 .. Len(a)
    BY <1>1, <1>2, <1>3, <1>5
  <2> QED  BY <1>4, <2>1
<1>8. s[Len(a) + 1] = far[1] /\ s[Len(a) + 2] = far[2]
  BY <1>4
<1>9. Len(a) + 1 = Len(near) + 6 /\ Len(a) + 2 = Len(near) + 7
  BY <1>1, <1>5
<1>10. Len(s) = Len(near) + 7
  BY <1>1, <1>4, <1>5
<1> QED  BY <1>4, <1>6, <1>7, <1>8, <1>9, <1>10 DEF s, a

U9Coils == {"CON2_MUX2_SEL", "CON2_MUX3_SEL", "CON2_MUX4_SEL"}

\* The ends of a resistance command are coils that exist.
LEMMA ResistNames ==
  ASSUME NEW r \in Commands, r.kind = "RES"
  PROVE  /\ r.num1 \in MuxCoils \union UsbCoils \union UartCoils /\ r.num2 \in Con3Coils
         /\ r.pin1 \in 0 .. 15 /\ r.pin2 \in 0 .. 15 /\ r.ch1 \in 0 .. 3 /\ r.ch2 \in 0 .. 3
BY NamesAssumption, PinsAssumption, Kinds DEF Resist

\* The coils of the multiplexers have one.
LEMMA CoilMuxes ==
  /\ \A c \in MuxCoils : MuxOf[c] \in ConMuxes
  /\ \A c \in Con3Coils : MuxOf[c] \in Con3Muxes
BY DEF MuxOf, MuxCoils, Con3Coils, ConMuxes, Con3Muxes

\* The codes of the coils.
LEMMA CoilBits ==
  /\ \A c \in MuxCoils \union UsbCoils \union UartCoils : vrcoil_select[c] \in SUBSET Bits
  /\ \A c \in Con3Coils : rcoil_select[c] \in SUBSET Bits
  /\ \A c \in UartCoils : vrcoil_select[c] \intersect {0, 1} = {}
BY DEF MuxCoils, UsbCoils, UartCoils, Con3Coils, vrcoil_select, rcoil_select, Bits

\* What a resistance command leaves on the expanders.
HeldU6(r)  == IF r.num1 \in MuxCoils THEN enable_mux[MuxOf[r.num1]] ELSE {}
HeldU7(r)  == IF r.num1 \in MuxCoils
              THEN vrpin_select(r.pin1) \union (IF r.num1 \in U9Coils THEN {} ELSE vrcoil_select[r.num1])
              ELSE {}
HeldU9(r)  == rcoil_select[r.num2] \union (IF r.num1 \in U9Coils THEN vrcoil_select[r.num1] ELSE {})
HeldU10(r) == IF r.num1 \in MuxCoils THEN {} ELSE vrcoil_select[r.num1]
HeldU11(r) == rpin_select(r.pin2) \union enable_mux[MuxOf[r.num2]]

ResistEnd(s, n, r) ==
  /\ Board(s, n, HeldU6(r), HeldU7(r), HeldU9(r), HeldU10(r), HeldU11(r))
  /\ r.num1 \in UsbCoils => MeterSet(s, n, r.ch1)
  /\ r.num1 \in UartCoils =>
       /\ IF r.ch2 % 2 = 1 THEN Raised(s, n, "UART_A0") ELSE Lowered(s, n, "UART_A0")
       /\ IF r.ch2 >= 2 THEN Raised(s, n, "UART_A1") ELSE Lowered(s, n, "UART_A1")

Near(r) == NearEnd(r.num1, r.pin1, r.ch1, r.ch2)
Far(r)  == FarEnd(r.num1, r.num2, r.pin2)

\* The far end is two writes.
LEMMA FarWrites ==
  ASSUME NEW r \in Commands, r.kind = "RES"
  PROVE  /\ Far(r) \in Seq(Access) /\ Len(Far(r)) = 2
         /\ Far(r)[1] = Write("U11", HeldU11(r)) /\ Far(r)[2] = Write("U9", HeldU9(r))
<1>1. Far(r) = <<Write("U11", HeldU11(r)), Write("U9", HeldU9(r))>>
  BY DEF Far, FarEnd, HeldU11, HeldU9, U9Coils
<1>2. HeldU11(r) \in SUBSET Bits
  BY ResistNames, CoilMuxes, MuxCodes, PinCodes DEF HeldU11
<1>3. HeldU9(r) \in SUBSET Bits
  BY ResistNames, CoilBits DEF HeldU9, U9Coils
<1>4. Write("U11", HeldU11(r)) \in Access /\ Write("U9", HeldU9(r)) \in Access
  BY <1>2, <1>3 DEF Write, Access, WriteAccess, Expanders
<1> QED  BY <1>1, <1>4

\* The writes of the far end, after the near end.
LEMMA FarSteps ==
  ASSUME NEW r \in Commands, r.kind = "RES", NEW s, NEW n \in Nat, NEW u9,
         s[n + 1] = Write("U11", HeldU11(r)), s[n + 2] = Write("U9", HeldU9(r)),
         Board(s, n, HeldU6(r), HeldU7(r), u9, HeldU10(r), {}), u9 \subseteq HeldU9(r)
  PROVE  /\ Board(s, n + 2, HeldU6(r), HeldU7(r), HeldU9(r), HeldU10(r), HeldU11(r))
         /\ \A p : Raised(s, n, p) => Raised(s, n + 2, p)
         /\ \A p : Lowered(s, n, p) => Lowered(s, n + 2, p)
         /\ Safe(s, n) /\ Safe(s, n + 1)
<1>1. (n + 1) + 1 = n + 2 /\ n + 1 \in Nat
  OBVIOUS
<1>2. s[(n + 1) + 1] = Write("U9", HeldU9(r))
  BY <1>1
<1>3. Board(s, n + 1, HeldU6(r), HeldU7(r), u9, HeldU10(r), HeldU11(r))
  BY BoardStep
<1>4. Board(s, (n + 1) + 1, HeldU6(r), HeldU7(r), HeldU9(r), HeldU10(r), HeldU11(r))
  BY <1>1, <1>2, <1>3, BoardStep
<1>5. s[n + 1].op # "gpio" /\ s[(n + 1) + 1].op # "gpio"
  BY <1>2 DEF Write
<1>6. /\ \A p : Raised(s, n, p) => Raised(s, (n + 1) + 1, p)
      /\ \A p : Lowered(s, n, p) => Lowered(s, (n + 1) + 1, p)
  BY <1>1, <1>5, PinsKept
<1>7. Safe(s, n)
  <2>1. Holds(s, n, "U11", {})
    BY DEF Board
  <2> QED  BY <2>1, SafeWrite DEF Expanders
<1>8. Safe(s, n + 1)
  <2>1. Holds(s, n + 1, "U9", u9)
    BY <1>3 DEF Board
  <2> QED  BY <1>2, <2>1, SafeWrite DEF Expanders
<1> QED  BY <1>1, <1>4, <1>6, <1>7, <1>8

\* What the near end leaves, and that each of its accesses is safe.
NearDone(s, n, r) ==
  /\ Board(s, n, HeldU6(r), HeldU7(r), IF r.num1 \in U9Coils THEN vrcoil_select[r.num1] ELSE {},
           HeldU10(r), {})
  /\ r.num1 \in UsbCoils => MeterSet(s, n, r.ch1)
  /\ r.num1 \in UartCoils =>
       /\ IF r.ch2 % 2 = 1 THEN Raised(s, n, "UART_A0") ELSE Lowered(s, n, "UART_A0")
       /\ IF r.ch2 >= 2 THEN Raised(s, n, "UART_A1") ELSE Lowered(s, n, "UART_A1")
  /\ \A m \in 5 .. n - 1 : Safe(s, m) /\ s[m + 1].op # "convert"

\* A near end on the USB lines ...
LEMMA NearUsb ==
  ASSUME NEW r \in Commands, r.kind = "RES", r.num1 \in UsbCoils, NEW s,
         Board(s, 5, {}, {}, {}, {}, {}),
         \A i \in 1 .. Len(Near(r)) : s[5 + i] = Near(r)[i]
  PROVE  Near(r) \in Seq(Access) /\ Len(Near(r)) = 4 /\ NearDone(s, 9, r)
<1> DEFINE g == usb_resistance_test(r.ch1)
           w == <<Write("U10", vrcoil_select[r.num1])>>
<1>0. r.num1 \notin MuxCoils /\ r.num1 \notin UartCoils /\ r.num1 \notin U9Coils /\ r.ch1 \in 0 .. 3
  BY ResistNames DEF UsbCoils, MuxCoils, UartCoils, U9Coils
<1>1. Near(r) = g \o w
  BY <1>0 DEF Near, NearEnd, U9Coils
<1>2. w \in Seq(Access) /\ Len(w) = 1 /\ w[1] = Write("U10", vrcoil_select[r.num1])
  BY CoilBits DEF Write, Access, WriteAccess, Expanders
<1> HIDE DEF g, w
<1>3. g \in Seq(Access) /\ Len(g) = 3
  BY <1>0, MeterTyped DEF g
<1>4. /\ Near(r) \in Seq(Access) /\ Len(Near(r)) = 4
      /\ Near(r)[1] = g[1] /\ Near(r)[2] = g[2] /\ Near(r)[3] = g[3] /\ Near(r)[4] = w[1]
  <2>1. /\ g \o w \in Seq(Access) /\ Len(g \o w) = Len(g) + Len(w)
        /\ \A i \in 1 .. Len(g) : (g \o w)[i] = g[i]
        /\ \A i \in 1 .. Len(w) : (g \o w)[Len(g) + i] = w[i]
    BY <1>2, <1>3, Concat
  <2> DEFINE nr == g \o w
  <2> HIDE DEF nr
  <2>2. nr[1] = g[1] /\ nr[2] = g[2] /\ nr[3] = g[3] /\ nr[3 + 1] = w[1]
    BY <1>2, <1>3, <2>1 DEF nr
  <2> QED  BY <1>1, <1>2, <1>3, <2>1, <2>2 DEF nr
<1>5. s[5 + 1] = g[1] /\ s[5 + 2] = g[2] /\ s[5 + 3] = g[3] /\ s[5 + 4] = w[1]
  BY <1>4
<1>6. /\ s[5 + 1].op = "gpio" /\ s[5 + 2].op = "gpio" /\ s[5 + 3].op = "gpio"
      /\ MeterSet(s, 5 + 3, r.ch1)
  <2> DEFINE n == 5
  <2>1. n \in Nat /\ s[n + 1] = g[1] /\ s[n + 2] = g[2] /\ s[n + 3] = g[3]
    BY <1>5
  <2> HIDE DEF n
  <2>2. /\ s[n + 1].op = "gpio" /\ s[n + 2].op = "gpio" /\ s[n + 3].op = "gpio"
        /\ MeterSet(s, n + 3, r.ch1)
    BY <1>0, <2>1, MeterScript DEF g
  <2> QED  BY <2>2 DEF n
<1>7. Board(s, 5 + 1, {}, {}, {}, {}, {})
  BY <1>6, BoardStep
<1>8. Board(s, 6 + 1, {}, {}, {}, {}, {})
  BY <1>6, <1>7, BoardStep
<1>9. Board(s, 7 + 1, {}, {}, {}, {}, {})
  BY <1>6, <1>8, BoardStep
<1>10. s[8 + 1] = Write("U10", vrcoil_select[r.num1])
  BY <1>2, <1>5
<1>11. Board(s, 8 + 1, {}, {}, {}, vrcoil_select[r.num1], {})
  BY <1>9, <1>10, BoardStep
<1>12. MeterSet(s, 8, r.ch1) /\ s[8 + 1].op # "gpio" /\ s[8 + 1].op # "convert"
  BY <1>6, <1>10 DEF Write
<1>13. MeterSet(s, 8 + 1, r.ch1)
  BY <1>12, PinsKept DEF MeterSet
<1>14. Safe(s, 8)
  <2>1. Holds(s, 8, "U10", {}) /\ Lowered(s, 8, "VBUS")
    BY <1>9, <1>12 DEF Board, MeterSet
  <2> QED  BY <1>10, <2>1, SafeWrite DEF Expanders
<1>15. \A m \in 5 .. 8 : Safe(s, m) /\ s[m + 1].op # "convert"
  <2>1. Safe(s, 5) /\ Safe(s, 6) /\ Safe(s, 7)
    BY <1>6 DEF Safe
  <2>2. s[5 + 1].op # "convert" /\ s[6 + 1].op # "convert" /\ s[7 + 1].op # "convert"
    BY <1>6
  <2> QED  BY <1>12, <1>14, <2>1, <2>2
<1>16. HeldU6(r) = {} /\ HeldU7(r) = {} /\ HeldU10(r) = vrcoil_select[r.num1]
  BY <1>0 DEF HeldU6, HeldU7, HeldU10
<1> QED  BY <1>0, <1>4, <1>11, <1>13, <1>15, <1>16 DEF NearDone

\* ... on the UART lines ...
LEMMA NearUart ==
  ASSUME NEW r \in Commands, r.kind = "RES", r.num1 \in UartCoils, NEW s,
         Board(s, 5, {}, {}, {}, {}, {}),
         \A i \in 1 .. Len(Near(r)) : s[5 + i] = Near(r)[i]
  PROVE  Near(r) \in Seq(Access) /\ Len(Near(r)) = 2 /\ NearDone(s, 7, r)
<1> DEFINE g == uart_select(r.ch2)
           w == <<Write("U10", vrcoil_select[r.num1])>>
<1>0. r.num1 \notin MuxCoils /\ r.num1 \notin UsbCoils /\ r.num1 \notin U9Coils /\ r.ch2 \in 0 .. 3
  BY ResistNames DEF UsbCoils, MuxCoils, UartCoils, U9Coils
<1>1. Near(r) = g \o w
  BY <1>0 DEF Near, NearEnd, U9Coils
<1>2. w \in Seq(Access) /\ Len(w) = 1 /\ w[1] = Write("U10", vrcoil_select[r.num1])
  BY CoilBits DEF Write, Access, WriteAccess, Expanders
<1> HIDE DEF g, w
<1>3. g \in Seq(Access) /\ Len(g) = 1
  BY <1>0, UartTyped DEF g
<1>4. /\ Near(r) \in Seq(Access) /\ Len(Near(r)) = 2
      /\ Near(r)[1] = g[1] /\ Near(r)[2] = w[1]
  <2>1. /\ g \o w \in Seq(Access) /\ Len(g \o w) = Len(g) + Len(w)
        /\ \A i \in 1 .. Len(g) : (g \o w)[i] = g[i]
        /\ \A i \in 1 .. Len(w) : (g \o w)[Len(g) + i] = w[i]
    BY <1>2, <1>3, Concat
  <2> DEFINE nr == g \o w
  <2> HIDE DEF nr
  <2>2. nr[1] = g[1] /\ nr[1 + 1] = w[1]
    BY <1>2, <1>3, <2>1 DEF nr
  <2> QED  BY <1>1, <1>2, <1>3, <2>1, <2>2 DEF nr
<1>5. s[5 + 1] = g[1] /\ s[5 + 2] = w[1]
  BY <1>4
<1> DEFINE Selected(n) ==
             /\ IF r.ch2 % 2 = 1 THEN Raised(s, n, "UART_A0") ELSE Lowered(s, n, "UART_A0")
             /\ IF r.ch2 >= 2 THEN Raised(s, n, "UART_A1") ELSE Lowered(s, n, "UART_A1")
<1>6. s[5 + 1].op = "gpio" /\ Selected(5 + 1)
  <2> DEFINE n == 5
  <2>1. n \in Nat /\ s[n + 1] = g[1]
    BY <1>5
  <2> HIDE DEF n
  <2>2. s[n + 1].op = "gpio" /\ Selected(n + 1)
    BY <1>0, <2>1, UartScript DEF g
  <2> QED  BY <2>2 DEF n
<1>7. Board(s, 5 + 1, {}, {}, {}, {}, {})
  BY <1>6, BoardStep
<1>8. s[6 + 1] = Write("U10", vrcoil_select[r.num1])
  BY <1>2, <1>5
<1>9. Board(s, 6 + 1, {}, {}, {}, vrcoil_select[r.num1], {})
  BY <1>7, <1>8, BoardStep
<1>10. Selected(6) /\ s[6 + 1].op # "gpio" /\ s[6 + 1].op # "convert"
  BY <1>6, <1>8 DEF Write
<1>11. Selected(6 + 1)
  BY <1>10, PinsKept
<1>12. Safe(s, 6)
  <2>1. Holds(s, 6, "U10", {}) /\ vrcoil_select[r.num1] \intersect {0, 1} = {}
    BY <1>7, CoilBits DEF Board
  <2> QED  BY <1>8, <2>1, SafeWrite DEF Expanders
<1>13. \A m \in 5 .. 6 : Safe(s, m) /\ s[m + 1].op # "convert"
  <2>1. Safe(s, 5) /\ s[5 + 1].op # "convert"
    BY <1>6 DEF Safe
  <2> QED  BY <1>10, <1>12, <2>1
<1>14. HeldU6(r) = {} /\ HeldU7(r) = {} /\ HeldU10(r) = vrcoil_select[r.num1]
  BY <1>0 DEF HeldU6, HeldU7, HeldU10
<1> QED  BY <1>0, <1>4, <1>9, <1>11, <1>13, <1>14 DEF NearDone

\* ... behind a coil on U9 ...
LEMMA NearU9 ==
  ASSUME NEW r \in Commands, r.kind = "RES", r.num1 \in U9Coils, NEW s,
         Board(s, 5, {}, {}, {}, {}, {}),
         \A i \in 1 .. Len(Near(r)) : s[5 + i] = Near(r)[i]
  PROVE  Near(r) \in Seq(Access) /\ Len(Near(r)) = 3 /\ NearDone(s, 8, r)
<1> DEFINE mux == enable_mux[MuxOf[r.num1]]
           pin == vrpin_select(r.pin1)
           coil == vrcoil_select[r.num1]
<1>0. r.num1 \in MuxCoils /\ r.num1 \notin UsbCoils /\ r.num1 \notin UartCoils
  BY DEF UsbCoils, MuxCoils, UartCoils, U9Coils
<1>1. Near(r) = <<Write("U6", mux), Write("U7", pin), Write("U9", coil)>>
  BY <1>0 DEF Near, NearEnd, U9Coils
<1>2. mux \in SUBSET Bits /\ pin \in SUBSET Bits /\ coil \in SUBSET Bits
  BY <1>0, ResistNames, CoilMuxes, CoilBits, MuxCodes, PinCodes
<1> HIDE DEF mux, pin, coil
<1>3. Write("U6", mux) \in Access /\ Write("U7", pin) \in Access /\ Write("U9", coil) \in Access
  BY <1>2 DEF Write, Access, WriteAccess, Expanders
<1>4. Near(r) \in Seq(Access) /\ Len(Near(r)) = 3
  BY <1>1, <1>3
<1>5. s[5 + 1] = Write("U6", mux) /\ s[6 + 1] = Write("U7", pin) /\ s[7 + 1] = Write("U9", coil)
  <2>1. s[5 + 1] = Near(r)[1] /\ s[5 + 2] = Near(r)[2] /\ s[5 + 3] = Near(r)[3]
    BY <1>4
  <2> QED  BY <1>1, <2>1
<1>6. Board(s, 5 + 1, mux, {}, {}, {}, {})
  BY <1>5, BoardStep
<1>7. Board(s, 6 + 1, mux, pin, {}, {}, {})
  BY <1>5, <1>6, BoardStep
<1>8. Board(s, 7 + 1, mux, pin, coil, {}, {})
  BY <1>5, <1>7, BoardStep
<1>9. \A m \in 5 .. 7 : Safe(s, m) /\ s[m + 1].op # "convert"
  <2>1. Holds(s, 5, "U6", {}) /\ Holds(s, 6, "U7", {}) /\ Holds(s, 7, "U9", {})
    BY <1>6, <1>7 DEF Board
  <2>2. Safe(s, 5)
    BY <1>5, <2>1, SafeWrite DEF Expanders
  <2>3. Safe(s, 6)
    BY <1>5, <2>1, SafeWrite DEF Expanders
  <2>4. Safe(s, 7)
    BY <1>5, <2>1, SafeWrite DEF Expanders
  <2>5. s[5 + 1].op # "convert" /\ s[6 + 1].op # "convert" /\ s[7 + 1].op # "convert"
    BY <1>5 DEF Write
  <2> QED  BY <2>2, <2>3, <2>4, <2>5
<1>10. HeldU6(r) = mux /\ HeldU7(r) = pin /\ HeldU10(r) = {}
  BY <1>0 DEF HeldU6, HeldU7, HeldU10, mux, pin
<1> QED  BY <1>0, <1>4, <1>8, <1>9, <1>10 DEF NearDone, coil

\* ... and behind a coil on U7.
LEMMA NearU7 ==
  ASSUME NEW r \in Commands, r.kind = "RES", r.num1 \in MuxCoils \ U9Coils, NEW s,
         Board(s, 5, {}, {}, {}, {}, {}),
         \A i \in 1 .. Len(Near(r)) : s[5 + i] = Near(r)[i]
  PROVE  Near(r) \in Seq(Access) /\ Len(Near(r)) = 2 /\ NearDone(s, 7, r)
<1> DEFINE mux == enable_mux[MuxOf[r.num1]]
           line == vrpin_select(r.pin1) \union vrcoil_select[r.num1]
<1>0. r.num1 \in MuxCoils /\ r.num1 \notin UsbCoils /\ r.num1 \notin UartCoils /\ r.num1 \notin U9Coils
  BY DEF UsbCoils, MuxCoils, UartCoils
<1>1. Near(r) = <<Write("U6", mux), Write("U7", line)>>
  BY <1>0 DEF Near, NearEnd, U9Coils
<1>2. mux \in SUBSET Bits /\ line \in SUBSET Bits
  BY <1>0, ResistNames, CoilMuxes, CoilBits, MuxCodes, PinCodes
<1> HIDE DEF mux, line
<1>3. Write("U6", mux) \in Access /\ Write("U7", line) \in Access
  BY <1>2 DEF Write, Access, WriteAccess, Expanders
<1>4. Near(r) \in Seq(Access) /\ Len(Near(r)) = 2
  BY <1>1, <1>3
<1>5. s[5 + 1] = Write("U6", mux) /\ s[6 + 1] = Write("U7", line)
  <2>1. s[5 + 1] = Near(r)[1] /\ s[5 + 2] = Near(r)[2]
    BY <1>4
  <2> QED  BY <1>1, <2>1
<1>6. Board(s, 5 + 1, mux, {}, {}, {}, {})
  BY <1>5, BoardStep
<1>7. Board(s, 6 + 1, mux, line, {}, {}, {})
  BY <1>5, <1>6, BoardStep
<1>8. \A m \in 5 .. 6 : Safe(s, m) /\ s[m + 1].op # "convert"
  <2>1. Holds(s, 5, "U6", {}) /\ Holds(s, 6, "U7", {})
    BY <1>6 DEF Board
  <2>2. Safe(s, 5)
    BY <1>5, <2>1, SafeWrite DEF Expanders
  <2>3. Safe(s, 6)
    BY <1>5, <2>1, SafeWrite DEF Expanders
  <2>4. s[5 + 1].op # "convert" /\ s[6 + 1].op # "convert"
    BY <1>5 DEF Write
  <2> QED  BY <2>2, <2>3, <2>4
<1>9. HeldU6(r) = mux /\ HeldU7(r) = line /\ HeldU10(r) = {}
  BY <1>0 DEF HeldU6, HeldU7, HeldU10, mux, line
<1> QED  BY <1>0, <1>4, <1>7, <1>8, <1>9 DEF NearDone

\* The near end is a script.
LEMMA NearTyped ==
  ASSUME NEW r \in Commands, r.kind = "RES"
  PROVE  Near(r) \in Seq(Access)
<1> DEFINE w == Write("U10", vrcoil_select[r.num1])
<1>1. r.num1 \in MuxCoils \union UsbCoils \union UartCoils /\ r.ch1 \in 0 .. 3 /\ r.ch2 \in 0 .. 3
  BY ResistNames
<1>2. w \in Access
  BY <1>1, CoilBits DEF Write, Access, WriteAccess, Expanders
<1>3. CASE r.num1 \in UsbCoils
  <2>1. Near(r) = usb_resistance_test(r.ch1) \o <<w>>
    BY <1>3 DEF Near, NearEnd, UsbCoils, UartCoils
  <2> QED  BY <1>1, <1>2, <2>1, MeterTyped, Concat
<1>4. CASE r.num1 \in UartCoils
  <2>1. Near(r) = uart_select(r.ch2) \o <<w>>
    BY <1>4 DEF Near, NearEnd, UsbCoils, UartCoils
  <2> QED  BY <1>1, <1>2, <2>1, UartTyped, Concat
<1>5. CASE r.num1 \in MuxCoils
  <2>1. /\ enable_mux[MuxOf[r.num1]] \in SUBSET Bits /\ vrcoil_select[r.num1] \in SUBSET Bits
        /\ vrpin_select(r.pin1) \in SUBSET Bits
    BY <1>5, ResistNames, CoilMuxes, CoilBits, MuxCodes, PinCodes
  <2>2. \A e \in Expanders, v \in SUBSET Bits : Write(e, v) \in Access
    BY DEF Write, Access, WriteAccess
  <2>3. CASE r.num1 \in U9Coils
    <3>1. Near(r) = <<Write("U6", enable_mux[MuxOf[r.num1]]), Write("U7", vrpin_select(r.pin1)),
                      Write("U9", vrcoil_select[r.num1])>>
      BY <2>3 DEF Near, NearEnd, U9Coils, UsbCoils, UartCoils
    <3> QED  BY <2>1, <2>2, <3>1 DEF Expanders
  <2>4. CASE r.num1 \notin U9Coils
    <3>1. Near(r) = <<Write("U6", enable_mux[MuxOf[r.num1]]),
                      Write("U7", vrpin_select(r.pin1) \union vrcoil_select[r.num1])>>
      BY <1>5, <2>4 DEF Near, NearEnd, U9Coils, UsbCoils, UartCoils, MuxCoils
    <3>2. vrpin_select(r.pin1) \union vrcoil_select[r.num1] \in SUBSET Bits
      BY <2>1
    <3> QED  BY <2>1, <2>2, <3>1, <3>2 DEF Expanders
  <2> QED  BY <2>3, <2>4
<1> QED  BY <1>1, <1>3, <1>4, <1>5

\* What a resistance command leaves, and that each of its accesses is safe.
LEMMA ResistScript ==
  ASSUME NEW r \in Commands, r.kind = "RES"
  PROVE  LET s == Script(r)
         IN  /\ s \in Seq(Access) /\ Len(s) \in 9 .. 11
             /\ ResistEnd(s, Len(s), r)
             /\ \A n \in 0 .. Len(s) - 1 : Safe(s, n) /\ s[n + 1].op # "convert"
<1> DEFINE near == Near(r)
           s == (reset_all \o near) \o Far(r)
           n == 5 + Len(near)
<1>1. Script(r) = s
  BY DEF Script, resistance_measurement, Near, Far
<1>2. Far(r) \in Seq(Access) /\ Len(Far(r)) = 2
  BY FarWrites
<1>3. near \in Seq(Access)
  BY NearTyped
<1> HIDE DEF s
<1>4. /\ s \in Seq(Access) /\ Len(s) = Len(near) + 7
      /\ \A i \in 1 .. 5 : s[i] = reset_all[i]
      /\ \A i \in 1 .. Len(near) : s[5 + i] = near[i]
      /\ s[Len(near) + 6] = Far(r)[1] /\ s[Len(near) + 7] = Far(r)[2]
  BY <1>2, <1>3, Parts DEF s
<1>5. /\ s[0 + 1] = Write("U6", {}) /\ s[0 + 2] = Write("U7", {}) /\ s[0 + 3] = Write("U9", {})
      /\ s[0 + 4] = Write("U10", {}) /\ s[0 + 5] = Write("U11", {})
  BY <1>4, ResetWrites
<1>6. Board(s, 0 + 5, {}, {}, {}, {}, {})
  BY <1>5, ResetBoard
<1>7. Len(near) \in 2 .. 4 /\ NearDone(s, n, r)
  <2>0. Board(s, 5, {}, {}, {}, {}, {})
    BY <1>6
  <2>1. r.num1 \in MuxCoils \union UsbCoils \union UartCoils
    BY ResistNames
  <2>2. CASE r.num1 \in UsbCoils
    <3>1. \A i \in 1 .. Len(Near(r)) : s[5 + i] = Near(r)[i]
      BY <1>4
    <3>2. Len(near) = 4 /\ NearDone(s, 9, r)
      BY <2>0, <2>2, <3>1, NearUsb
    <3>3. n = 9
      BY <3>2
    <3> QED  BY <3>2, <3>3
  <2>3. CASE r.num1 \in UartCoils
    <3>1. \A i \in 1 .. Len(Near(r)) : s[5 + i] = Near(r)[i]
      BY <1>4
    <3>2. Len(near) = 2 /\ NearDone(s, 7, r)
      BY <2>0, <2>3, <3>1, NearUart
    <3>3. n = 7
      BY <3>2
    <3> QED  BY <3>2, <3>3
  <2>4. CASE r.num1 \in U9Coils
    <3>1. \A i \in 1 .. Len(Near(r)) : s[5 + i] = Near(r)[i]
      BY <1>4
    <3>2. Len(near) = 3 /\ NearDone(s, 8, r)
      BY <2>0, <2>4, <3>1, NearU9
    <3>3. n = 8
      BY <3>2
    <3> QED  BY <3>2, <3>3
  <2>5. CASE r.num1 \in MuxCoils \ U9Coils
    <3>1. \A i \in 1 .. Len(Near(r)) : s[5 + i] = Near(r)[i]
      BY <1>4
    <3>2. Len(near) = 2 /\ NearDone(s, 7, r)
      BY <2>0, <2>5, <3>1, NearU7
    <3>3. n = 7
      BY <3>2
    <3> QED  BY <3>2, <3>3
  <2> QED  BY <2>1, <2>2, <2>3, <2>4, <2>5
<1> HIDE DEF near
<1>8. n \in 7 .. 9 /\ Len(s) = n + 2 /\ Len(near) + 6 = n + 1 /\ Len(near) + 7 = n + 2
  <2>1. Len(near) \in 2 .. 4 /\ Len(s) = Len(near) + 7
    BY <1>4, <1>7
  <2> DEFINE l == Len(near)
  <2>2. l \in 2 .. 4 /\ Len(s) = l + 7
    BY <2>1
  <2> HIDE DEF l
  <2>3. 5 + l \in 7 .. 9 /\ Len(s) = (5 + l) + 2 /\ l + 6 = (5 + l) + 1 /\ l + 7 = (5 + l) + 2
    BY <2>2
  <2> QED  BY <2>3 DEF l
<1> HIDE DEF n
<1>9. s[n + 1] = Write("U11", HeldU11(r)) /\ s[n + 2] = Write("U9", HeldU9(r))
  BY <1>4, <1>8, FarWrites
<1> DEFINE u9 == IF r.num1 \in U9Coils THEN vrcoil_select[r.num1] ELSE {}
<1>10. u9 \subseteq HeldU9(r)
  BY DEF HeldU9
<1>11. Board(s, n, HeldU6(r), HeldU7(r), u9, HeldU10(r), {})
  BY <1>7 DEF NearDone
<1> HIDE DEF u9
<1>12. /\ Board(s, n + 2, HeldU6(r), HeldU7(r), HeldU9(r), HeldU10(r), HeldU11(r))
       /\ \A p : Raised(s, n, p) => Raised(s, n + 2, p)
       /\ \A p : Lowered(s, n, p) => Lowered(s, n + 2, p)
       /\ Safe(s, n) /\ Safe(s, n + 1)
  <2>1. n \in Nat
    BY <1>8
  <2> QED  BY <1>9, <1>10, <1>11, <2>1, FarSteps
<1>13. ResistEnd(s, n + 2, r)
  <2>1. r.num1 \in UsbCoils => MeterSet(s, n + 2, r.ch1)
    BY <1>7, <1>12 DEF NearDone, MeterSet
  <2>2. r.num1 \in UartCoils =>
          /\ IF r.ch2 % 2 = 1 THEN Raised(s, n + 2, "UART_A0") ELSE Lowered(s, n + 2, "UART_A0")
          /\ IF r.ch2 >= 2 THEN Raised(s, n + 2, "UART_A1") ELSE Lowered(s, n + 2, "UART_A1")
    BY <1>7, <1>12 DEF NearDone
  <2> QED  BY <1>12, <2>1, <2>2 DEF ResistEnd
<1>14. ASSUME NEW m \in 0 .. Len(s) - 1
       PROVE  Safe(s, m) /\ s[m + 1].op # "convert"
  <2>1. CASE m \in 0 .. 4
    <3>1. m = 0 \/ m = 1 \/ m = 2 \/ m = 3 \/ m = 4
      BY <2>1
    <3>2. \E e \in Expanders : s[m + 1] = Write(e, {})
      BY <1>5, <3>1 DEF Expanders
    <3> QED  BY <3>2, SafeReset DEF Write
  <2>2. CASE m \in 5 .. n - 1
    BY <1>7, <2>2 DEF NearDone
  <2>3. CASE m = n
    BY <1>9, <1>12, <2>3 DEF Write
  <2>4. CASE m = n + 1
    <3>1. m + 1 = n + 2
      BY <1>8, <2>4
    <3> QED  BY <1>9, <1>12, <2>4, <3>1 DEF Write
  <2> QED  BY <1>8, <2>1, <2>2, <2>3, <2>4
<1> QED  BY <1>1, <1>4, <1>8, <1>13, <1>14

\* A test is accesses of the pins, that lead its switch to its channel.
LEMMA TestScript ==
  ASSUME NEW r \in Commands, r.kind \in {"TEST_USB", "TEST_UART"}
  PROVE  LET s == Script(r)
         IN  /\ s \in Seq(Access) /\ Len(s) \in 1 .. 3
             /\ \A n \in 0 .. Len(s) - 1 : s[n + 1].op = "gpio"
             /\ r.kind = "TEST_USB" => FunctionSet(s, Len(s), r.ch)
             /\ r.kind = "TEST_UART" =>
                  /\ IF r.ch % 2 = 1 THEN Raised(s, Len(s), "UART_A0") ELSE Lowered(s, Len(s), "UART_A0")
                  /\ IF r.ch >= 2 THEN Raised(s, Len(s), "UART_A1") ELSE Lowered(s, Len(s), "UART_A1")
<1> DEFINE s == Script(r)
<1>1. r.ch \in 0 .. 3
  BY Kinds, PinsAssumption DEF Test
<1>2. CASE r.kind = "TEST_USB"
  <2>1. s = usb_function_test(r.ch)
    BY <1>2 DEF Script
  <2>2. /\ s \in Seq(Access) /\ Len(s) = 3 /\ FunctionSet(s, 3, r.ch)
        /\ \A i \in 1 .. 3 : s[i].op = "gpio"
    BY <1>1, <2>1, FunctionScript
  <2> HIDE DEF s
  <2>3. \A n \in 0 .. Len(s) - 1 : s[n + 1].op = "gpio"
    BY <2>2
  <2> QED  BY <1>2, <2>2, <2>3 DEF s
<1>3. CASE r.kind = "TEST_UART"
  <2>1. s = uart_select(r.ch)
    BY <1>3 DEF Script
  <2> HIDE DEF s
  <2>2. s \in Seq(Access) /\ Len(s) = 1
    BY <1>1, <2>1, UartTyped
  <2> DEFINE n == 0
  <2>3. n \in Nat /\ s[n + 1] = uart_select(r.ch)[1]
    BY <2>1
  <2> HIDE DEF n
  <2>4. /\ s[n + 1].op = "gpio"
        /\ IF r.ch % 2 = 1 THEN Raised(s, n + 1, "UART_A0") ELSE Lowered(s, n + 1, "UART_A0")
        /\ IF r.ch >= 2 THEN Raised(s, n + 1, "UART_A1") ELSE Lowered(s, n + 1, "UART_A1")
    BY <1>1, <2>3, UartScript
  <2>5. n + 1 = 1 /\ Len(s) = n + 1
    BY <2>2 DEF n
  <2>6. \A m \in 0 .. Len(s) - 1 : s[m + 1].op = "gpio"
    BY <2>2, <2>4, <2>5
  <2> QED  BY <1>3, <2>2, <2>4, <2>5, <2>6 DEF s
<1> QED  BY <1>2, <1>3

\* What is common to all scripts.
LEMMA AnyScript ==
  ASSUME NEW r \in Commands \union {AtBoot}
  PROVE  LET s == Script(r)
         IN  /\ s \in Seq(Access)
             /\ \A n \in 0 .. Len(s) - 1 :
                  /\ Safe(s, n) \/ (r = AtBoot /\ \E e \in Expanders : s[n + 1] = Config(e))
                  /\ s[n + 1].op = "convert" => r \in Commands /\ Voltage(r)
                  /\ s[n + 1].op = "gpio" => r \in Commands
<1> DEFINE s == Script(r)
<1> DEFINE Common == /\ s \in Seq(Access)
                     /\ \A n \in 0 .. Len(s) - 1 :
                          /\ Safe(s, n) \/ (r = AtBoot /\ \E e \in Expanders : s[n + 1] = Config(e))
                          /\ s[n + 1].op = "convert" => r \in Commands /\ Voltage(r)
                          /\ s[n + 1].op = "gpio" => r \in Commands
<1>1. ASSUME r = AtBoot PROVE Common
  <2>1. /\ s \in Seq(Access) /\ Len(s) = 10
        /\ \A i \in 1 .. 5 : \E e \in Expanders : s[i] = Config(e)
        /\ \A i \in 6 .. 10 : \E e \in Expanders : s[i] = Write(e, {})
    BY <1>1, BootScript
  <2> HIDE DEF s
  <2>2. ASSUME NEW n \in 0 .. 4
        PROVE  s[n + 1].op = "write" /\ \E e \in Expanders : s[n + 1] = Config(e)
    <3>1. PICK e \in Expanders : s[n + 1] = Config(e)
      BY <2>1
    <3>2. s[n + 1].op = "write"
      BY <3>1 DEF Config
    <3> QED  BY <3>1, <3>2
  <2>3. ASSUME NEW n \in 5 .. 9
        PROVE  s[n + 1].op = "write" /\ Safe(s, n)
    <3>1. PICK e \in Expanders : s[n + 1] = Write(e, {})
      BY <2>1
    <3>2. s[n + 1].op = "write"
      BY <3>1 DEF Write
    <3> QED  BY <3>1, <3>2, SafeReset
  <2>4. ASSUME NEW n \in 0 .. Len(s) - 1 PROVE n \in 0 .. 4 \/ n \in 5 .. 9
    BY <2>1
  <2> QED  BY <1>1, <2>1, <2>2, <2>3, <2>4
<1>2. ASSUME r \in Commands, r.kind \in {"TEST_USB", "TEST_UART"}
      PROVE  s \in Seq(Access) /\ \A n \in 0 .. Len(s) - 1 : Safe(s, n) /\ s[n + 1].op = "gpio"
  BY <1>2, TestScript DEF Safe
<1>3. ASSUME r \in Commands, r.kind = "RES"
      PROVE  s \in Seq(Access) /\ \A n \in 0 .. Len(s) - 1 : Safe(s, n) /\ s[n + 1].op # "convert"
  BY <1>3, ResistScript
<1>4. ASSUME r \in Commands, Voltage(r)
      PROVE  s \in Seq(Access) /\ \A n \in 0 .. Len(s) - 1 : Safe(s, n)
  BY <1>4, VoltageSafe, VoltageLength
<1>5. ASSUME r \in Commands PROVE Common
  <2>1. Voltage(r) \/ r.kind = "RES" \/ r.kind \in {"TEST_USB", "TEST_UART"}
    BY <1>5, Kinds DEF Voltage
  <2> HIDE DEF s
  <2>2. CASE Voltage(r)
    BY <1>4, <1>5, <2>2
  <2>3. CASE r.kind = "RES"
    BY <1>3, <1>5, <2>3
  <2>4. CASE r.kind \in {"TEST_USB", "TEST_UART"}
    <3>1. s \in Seq(Access) /\ \A n \in 0 .. Len(s) - 1 : Safe(s, n) /\ s[n + 1].op = "gpio"
      BY <1>2, <1>5, <2>4
    <3> QED  BY <1>5, <3>1
  <2> QED  BY <2>1, <2>2, <2>3, <2>4
<1>6. Common
  BY <1>1, <1>5
<1> QED  BY <1>6

-----------------------------------------------------------------------------
(* The FIFO *)

Bytes == SUBSET Bits

\* The FIFO never holds more than its depth, and two bytes once a write is handed over.
LEMMA QueueType ==
  ASSUME NEW q \in Seq(Bytes), Len(q) <= FifoDepth, NEW msg \in Seq(Bytes)
  PROVE  /\ Queue(q, msg) \in Seq(Bytes) /\ Len(Queue(q, msg)) <= FifoDepth
         /\ Len(msg) = 2 => Len(Queue(q, msg)) >= 2
<1> DEFINE room == FifoDepth - Len(q)
           put == IF Len(msg) <= room THEN msg ELSE SubSeq(msg, 1, room)
<1>1. Len(q) \in Nat /\ Len(msg) \in Nat /\ FifoDepth \in Nat /\ FifoDepth >= 3
  BY LenProperties, DepthAssumption
<1>2. room \in Nat
  BY <1>1
<1>3. put \in Seq(Bytes) /\ Len(put) \in Nat /\ Len(put) <= room
      /\ (Len(put) = Len(msg) \/ Len(put) = room)
  <2>1. CASE Len(msg) <= room
    BY <1>1, <2>1
  <2>2. CASE ~(Len(msg) <= room)
    <3>1. \A i \in 1 .. room : msg[i] \in Bytes
      BY <1>1, <1>2, <2>2, ElementOfSeq
    <3>2. SubSeq(msg, 1, room) \in Seq(Bytes) /\ Len(SubSeq(msg, 1, room)) = room
      BY <1>1, <1>2, <2>2, <3>1, SubSeqProperties
    <3> QED  BY <1>2, <2>2, <3>2
  <2> QED  BY <2>1, <2>2
<1>4. Queue(q, msg) = q \o put
  BY DEF Queue
<1> HIDE DEF put
<1>5. q \o put \in Seq(Bytes) /\ Len(q \o put) = Len(q) + Len(put)
  BY <1>3, ConcatProperties
<1>6. Len(q) + Len(put) <= FifoDepth
  BY <1>1, <1>3
<1>7. Len(msg) = 2 => Len(q) + Len(put) >= 2
  <2>1. CASE Len(put) = Len(msg)
    BY <1>1, <2>1
  <2>2. CASE Len(put) = room
    BY <1>1, <2>2
  <2> QED  BY <1>3, <2>1, <2>2
<1> QED  BY <1>4, <1>5, <1>6, <1>7, <1>3

\* Nor does it grow when bytes leave.
LEMMA AfterType ==
  ASSUME NEW q \in Seq(Bytes), NEW n \in Nat
  PROVE  After(n, q) \in Seq(Bytes) /\ Len(After(n, q)) <= Len(q)
<1>1. Len(q) \in Nat
  BY LenProperties
<1>2. \A i \in n + 1 .. Len(q) : q[i] \in Bytes
  BY <1>1, ElementOfSeq
<1>3. SubSeq(q, n + 1, Len(q)) \in Seq(Bytes)
  BY <1>1, <1>2, SubSeqProperties
<1>4. Len(SubSeq(q, n + 1, Len(q))) <= Len(q)
  BY <1>1, SubSeqProperties
<1> QED  BY <1>3, <1>4 DEF After

-----------------------------------------------------------------------------
(* What the outputs say of the multiplexers and the coils *)

U7Coils == {"CON1_MUX1_SEL", "CON1_MUX2_SEL", "CON1_MUX3_SEL", "CON2_MUX1_SEL"}

\* The code of a multiplexer names it, also next to the pin.
LEMMA OneMux ==
  /\ \A m, n \in ConMuxes : enable_mux[m] \subseteq enable_mux[n] => m = n
  /\ \A m, n \in Con3Muxes : \A p \in SUBSET (4 .. 7) :
       enable_mux[m] \subseteq p \union enable_mux[n] => m = n
<1>1. \A m, n \in ConMuxes : enable_mux[m] \subseteq enable_mux[n] => m = n
  BY DEF ConMuxes, enable_mux
<1>2. ASSUME NEW m \in Con3Muxes, NEW n \in Con3Muxes, NEW p \in SUBSET (4 .. 7),
             enable_mux[m] \subseteq p \union enable_mux[n]
      PROVE  m = n
  <2>1. enable_mux[m] \subseteq 0 .. 3
    BY MuxCodes
  <2>2. enable_mux[m] \subseteq enable_mux[n]
    BY <1>2, <2>1
  <2> QED  BY <2>2 DEF Con3Muxes, enable_mux
<1> QED  BY <1>1, <1>2

\* The code of a coil names it, also next to a pin or another coil.
LEMMA OneCoil ==
  /\ \A c, d \in U7Coils : \A p \in SUBSET (0 .. 3) :
       vrcoil_select[c] \subseteq p \union vrcoil_select[d] => c = d
  /\ \A c, d \in UsbCoils \union UartCoils : vrcoil_select[c] \subseteq vrcoil_select[d] => c = d
  /\ \A c, d \in U9Coils : \A e \in Con3Coils :
       vrcoil_select[c] \subseteq rcoil_select[e] \union vrcoil_select[d] => c = d
  /\ \A c \in U9Coils : \A e \in Con3Coils : ~(vrcoil_select[c] \subseteq rcoil_select[e])
  /\ \A c \in U7Coils : \A p \in SUBSET (0 .. 3) : ~(vrcoil_select[c] \subseteq p)
  /\ \A c \in MuxCoils \union UsbCoils \union UartCoils : vrcoil_select[c] # {}
  /\ \A c, d \in Con3Coils : \A n \in U9Coils :
       rcoil_select[c] \subseteq rcoil_select[d] \union vrcoil_select[n] => c = d
  /\ \A c, d \in Con3Coils : rcoil_select[c] \subseteq rcoil_select[d] => c = d
  /\ \A c \in Con3Coils : rcoil_select[c] # {}
<1>1. \A c, d \in U7Coils : \A p \in SUBSET (0 .. 3) :
        vrcoil_select[c] \subseteq p \union vrcoil_select[d] => c = d
  <2>1. ASSUME NEW c \in U7Coils, NEW d \in U7Coils, NEW p \in SUBSET (0 .. 3),
               vrcoil_select[c] \subseteq p \union vrcoil_select[d]
        PROVE  c = d
    <3>1. vrcoil_select[c] \subseteq 4 .. 7
      BY DEF U7Coils, vrcoil_select
    <3>2. vrcoil_select[c] \subseteq vrcoil_select[d]
      BY <2>1, <3>1
    <3> QED  BY <3>2 DEF U7Coils, vrcoil_select
  <2> QED  BY <2>1
<1>2. \A c, d \in UsbCoils \union UartCoils : vrcoil_select[c] \subseteq vrcoil_select[d] => c = d
  BY DEF UsbCoils, UartCoils, vrcoil_select
<1>3. \A c, d \in U9Coils : \A e \in Con3Coils :
        vrcoil_select[c] \subseteq rcoil_select[e] \union vrcoil_select[d] => c = d
  BY DEF U9Coils, Con3Coils, vrcoil_select, rcoil_select
<1>4. \A c \in U9Coils : \A e \in Con3Coils : ~(vrcoil_select[c] \subseteq rcoil_select[e])
  BY DEF U9Coils, Con3Coils, vrcoil_select, rcoil_select
<1>5. \A c \in U7Coils : \A p \in SUBSET (0 .. 3) : ~(vrcoil_select[c] \subseteq p)
  BY DEF U7Coils, vrcoil_select
<1>6. \A c \in MuxCoils \union UsbCoils \union UartCoils : vrcoil_select[c] # {}
  BY DEF MuxCoils, UsbCoils, UartCoils, vrcoil_select
<1>7. \A c, d \in Con3Coils : \A n \in U9Coils :
        rcoil_select[c] \subseteq rcoil_select[d] \union vrcoil_select[n] => c = d
  BY DEF U9Coils, Con3Coils, vrcoil_select, rcoil_select
<1>8. \A c, d \in Con3Coils : rcoil_select[c] \subseteq rcoil_select[d] => c = d
  BY DEF Con3Coils, rcoil_select
<1>9. \A c \in Con3Coils : rcoil_select[c] # {}
  BY DEF Con3Coils, rcoil_select
<1> QED  BY <1>1, <1>2, <1>3, <1>4, <1>5, <1>6, <1>7, <1>8, <1>9

\* Which expander a coil is on.
LEMMA Homes ==
  /\ MuxCoils = U7Coils \union U9Coils
  /\ \A c \in UsbCoils \union UartCoils : HomeOf(c) = "U10"
  /\ \A c \in U7Coils : HomeOf(c) = "U7"
  /\ \A c \in U9Coils : HomeOf(c) = "U9"
  /\ MuxCoils \intersect (UsbCoils \union UartCoils) = {} /\ UsbCoils \intersect UartCoils = {}
  /\ U7Coils \intersect U9Coils = {}
BY DEF MuxCoils, U7Coils, U9Coils, UsbCoils, UartCoils, HomeOf

\* The pin on the upper lines of U11.
LEMMA PinsOnLines ==
  ASSUME NEW pin \in 0 .. 15, NEW low \in SUBSET (0 .. 3), NEW high \in SUBSET (4 .. 7)
  PROVE  /\ {b \in vrpin_select(pin) \union high : b < 4} = vrpin_select(pin)
         /\ {b - 4 : b \in {l \in rpin_select(pin) \union low : l >= 4}} = vrpin_select(pin)
<1>0. vrpin_select(pin) \in SUBSET (0 .. 3) /\ rpin_select(pin) \in SUBSET (4 .. 7)
  BY PinCodes
<1>1. {b \in vrpin_select(pin) \union high : b < 4} = vrpin_select(pin)
  <2>1. \A b \in high : ~(b < 4)
    OBVIOUS
  <2>2. \A b \in vrpin_select(pin) : b < 4
    BY <1>0
  <2> QED  BY <2>1, <2>2
<1>2. {l \in rpin_select(pin) \union low : l >= 4} = rpin_select(pin)
  <2>1. \A l \in low : ~(l >= 4)
    OBVIOUS
  <2>2. \A l \in rpin_select(pin) : l >= 4
    BY <1>0
  <2> QED  BY <2>1, <2>2
<1> QED  BY <1>1, <1>2, PinCodes

\* The multiplexers that the outputs of U6 and U11 enable.
LEMMA MuxesOf ==
  ASSUME NEW pin \in 0 .. 15
  PROVE  /\ \A m \in ConMuxes : Closed("U6") = enable_mux[m] /\ Closed("U11") = {} => EnabledMuxes = {m}
         /\ \A m \in Con3Muxes :
              Closed("U6") = {} /\ Closed("U11") = rpin_select(pin) \union enable_mux[m]
                => EnabledMuxes = {m}
         /\ \A m \in ConMuxes, n \in Con3Muxes :
              Closed("U6") = enable_mux[m] /\ Closed("U11") = rpin_select(pin) \union enable_mux[n]
                => EnabledMuxes = {m, n}
         /\ Closed("U6") = {} /\ Closed("U11") = {} => EnabledMuxes = {}
<1> DEFINE A == {m \in ConMuxes : enable_mux[m] \subseteq Closed("U6")}
           B == {m \in Con3Muxes : enable_mux[m] \subseteq Closed("U11")}
<1>1. EnabledMuxes = A \union B
  BY DEF EnabledMuxes
<1>2. \A m \in ConMuxes : Closed("U6") = enable_mux[m] => A = {m}
  BY OneMux
<1>3. \A m \in Con3Muxes : Closed("U11") = rpin_select(pin) \union enable_mux[m] => B = {m}
  BY OneMux, PinCodes
<1>4. Closed("U6") = {} => A = {}
  BY MuxCodes
<1>5. Closed("U11") = {} => B = {}
  BY MuxCodes
<1> HIDE DEF A, B
<1> QED  BY <1>1, <1>2, <1>3, <1>4, <1>5

\* No coil is closed by a pin alone.
LEMMA NoCoils ==
  ASSUME Closed("U7") \in SUBSET (0 .. 3), Closed("U9") = {}, Closed("U10") = {}
  PROVE  ClosedCoils = {}
<1>1. \A c \in MuxCoils \union UsbCoils \union UartCoils : ~(vrcoil_select[c] \subseteq Closed(HomeOf(c)))
  BY OneCoil, Homes
<1>2. \A c \in Con3Coils : ~(rcoil_select[c] \subseteq Closed("U9"))
  BY OneCoil
<1> QED  BY <1>1, <1>2 DEF ClosedCoils

\* The outputs of a resistance command close two coils.
LEMMA TwoCoils ==
  ASSUME NEW r \in Commands, r.kind = "RES",
         Closed("U7") = HeldU7(r), Closed("U9") = HeldU9(r), Closed("U10") = HeldU10(r)
  PROVE  ClosedCoils = {r.num1, r.num2}
<1>0. r.num1 \in MuxCoils \union UsbCoils \union UartCoils /\ r.num2 \in Con3Coils /\ r.pin1 \in 0 .. 15
  BY ResistNames
<1>1. \A c \in UsbCoils \union UartCoils : vrcoil_select[c] \subseteq HeldU10(r) <=> c = r.num1
  BY <1>0, OneCoil, Homes DEF HeldU10
<1>2. \A c \in U9Coils : vrcoil_select[c] \subseteq HeldU9(r) <=> c = r.num1
  BY <1>0, OneCoil, Homes DEF HeldU9
<1>3. \A c \in U7Coils : vrcoil_select[c] \subseteq HeldU7(r) <=> c = r.num1
  <2>1. vrpin_select(r.pin1) \in SUBSET (0 .. 3) /\ {} \in SUBSET (0 .. 3)
    BY <1>0, PinCodes
  <2>2. CASE r.num1 \in U7Coils
    BY <2>1, <2>2, OneCoil, Homes DEF HeldU7
  <2>3. CASE r.num1 \notin U7Coils
    <3>1. HeldU7(r) = vrpin_select(r.pin1) \/ HeldU7(r) = {}
      BY <1>0, <2>3, Homes DEF HeldU7
    <3> QED  BY <2>1, <2>3, <3>1, OneCoil
  <2> QED  BY <2>2, <2>3
<1>4. \A c \in Con3Coils : rcoil_select[c] \subseteq HeldU9(r) <=> c = r.num2
  BY <1>0, OneCoil DEF HeldU9
<1>5. {c \in MuxCoils \union UsbCoils \union UartCoils : vrcoil_select[c] \subseteq Closed(HomeOf(c))}
      = {r.num1}
  BY <1>0, <1>1, <1>2, <1>3, Homes
<1>6. {c \in Con3Coils : rcoil_select[c] \subseteq Closed("U9")} = {r.num2}
  BY <1>0, <1>4
<1> QED  BY <1>5, <1>6 DEF ClosedCoils

-----------------------------------------------------------------------------
(* The inductive invariant *)

\* How many accesses of the command have been made.
Pos == Len(Script(request)) - Len(script)

\* What is still to do is the rest of the command's script.
ScriptInv ==
  /\ script \in Seq(Access) /\ Len(script) <= Len(Script(request))
  /\ \A i \in 1 .. Len(script) : script[i] = Script(request)[Pos + i]

\* Unless a write was lost, the outputs are what the accesses made so far have
\* last put there; the pins always are.
OutInv == ~lost => \A e \in Expanders : \A v : Holds(Script(request), Pos, e, v) => out[e] = v
PinInv == /\ \A p : Raised(Script(request), Pos, p) => p \in pins
          /\ \A p : Lowered(Script(request), Pos, p) => p \notin pins
          /\ request = AtBoot => pins = {}

\* The conversions made are those in the accesses made so far.
Total(r) == IF r.kind = "MULT" THEN 15 ELSE Measured(r)
DoneInv ==
  IF request \in Commands /\ Voltage(request)
  THEN /\ done \in 0 .. Total(request)
       /\ \A m \in 1 .. Measured(request) : done >= m <=> Pos >= 13 * (m - 1) + 8
       /\ request.kind = "MULT" => \A i \in 1 .. 3 : done >= 12 + i <=> Pos >= 156 + i
  ELSE done = 0

IInv == TypeOK /\ ScriptInv /\ OutInv /\ PinInv /\ DoneInv

\* How far the command is, and what comes next.
LEMMA Position ==
  ASSUME request \in Commands \union {AtBoot}, ScriptInv
  PROVE  /\ Script(request) \in Seq(Access) /\ Len(Script(request)) \in Nat /\ Len(script) \in Nat
         /\ Pos \in 0 .. Len(Script(request))
         /\ script = <<>> => Pos = Len(Script(request))
         /\ script # <<>> => /\ Pos \in 0 .. Len(Script(request)) - 1
                             /\ Head(script) = Script(request)[Pos + 1] /\ Head(script) \in Access
<1>1. Script(request) \in Seq(Access) /\ script \in Seq(Access)
  BY AnyScript DEF ScriptInv
<1>2. Len(Script(request)) \in Nat /\ Len(script) \in Nat /\ Len(script) <= Len(Script(request))
  BY <1>1, LenProperties DEF ScriptInv
<1>3. script = <<>> => Len(script) = 0
  OBVIOUS
<1>4. ASSUME script # <<>>
      PROVE  Len(script) > 0 /\ Head(script) = script[1] /\ script[1] \in Access
  BY <1>1, <1>4
<1>5. script # <<>> => script[1] = Script(request)[Pos + 1]
  BY <1>2, <1>4 DEF ScriptInv
<1> QED  BY <1>1, <1>2, <1>3, <1>4, <1>5 DEF Pos

\* One access is made.
LEMMA Advance ==
  ASSUME request \in Commands \union {AtBoot}, ScriptInv,
         script # <<>>, script' = Tail(script), request' = request
  PROVE  ScriptInv' /\ Pos' = Pos + 1
<1>1. script \in Seq(Access) /\ Len(Script(request)) \in Nat /\ Len(script) \in Nat
      /\ Len(script) <= Len(Script(request)) /\ Len(script) > 0
  BY Position DEF ScriptInv, Pos
<1>2. /\ script' \in Seq(Access) /\ Len(script') = Len(script) - 1
      /\ \A i \in 1 .. Len(script') : script'[i] = script[i + 1]
  BY <1>1, HeadTailProperties
<1>3. Pos' = Pos + 1
  BY <1>1, <1>2 DEF Pos
<1>4. ASSUME NEW i \in 1 .. Len(script') PROVE script'[i] = Script(request)[Pos' + i]
  <2>1. i + 1 \in 1 .. Len(script)
    BY <1>1, <1>2
  <2>2. script[i + 1] = Script(request)[Pos + (i + 1)]
    BY <2>1 DEF ScriptInv
  <2>3. Pos + (i + 1) = Pos' + i
    BY <1>1, <1>3 DEF Pos
  <2> QED  BY <1>2, <2>2, <2>3
<1>5. Len(script') <= Len(Script(request'))
  BY <1>1, <1>2
<1> QED  BY <1>2, <1>3, <1>4, <1>5 DEF ScriptInv

\* The board as it is powered up.
LEMMA InitHolds == Init => IInv
<1> SUFFICES ASSUME Init PROVE IInv
  OBVIOUS
<1>1. Script(request) \in Seq(Access) /\ script = Script(request) /\ Len(script) \in Nat
  BY AnyScript, LenProperties DEF Init
<1>2. Pos = 0
  BY <1>1 DEF Pos
<1>3. ScriptInv
  BY <1>1, <1>2 DEF ScriptInv
<1>4. OutInv /\ PinInv
  BY <1>2 DEF OutInv, PinInv, Init, Holds, Raised, Lowered
<1>5. DoneInv
  BY DEF DoneInv, Init, AtBoot, Voltage
<1>6. TypeOK
  <2>1. out \in [Expanders -> SUBSET Bits] /\ inputs \in [Expanders -> SUBSET Bits]
    BY DEF Init
  <2>2. stale \in Seq(SUBSET Bits) /\ Len(stale) <= FifoDepth
    <3>1. stale = <<>> /\ Len(stale) = 0
      BY DEF Init
    <3> QED  BY <3>1, DepthAssumption
  <2>3. pins = {} /\ request = AtBoot /\ done = 0 /\ failures = 0 /\ refused = FALSE /\ lost = FALSE
    BY DEF Init
  <2>4. 0 \in 0 .. 15 /\ 0 \in 0 .. MaxFailures
    BY DepthAssumption
  <2> QED  BY <2>1, <2>2, <2>3, <2>4 DEF TypeOK
<1> QED  BY <1>3, <1>4, <1>5, <1>6 DEF IInv

\* A new command starts its script.
LEMMA CommandKeeps == IInv /\ Command => IInv'
<1> SUFFICES ASSUME IInv, Command PROVE IInv'
  OBVIOUS
<1>1. request' \in Commands /\ script' = Script(request') /\ Script(request') \in Seq(Access)
      /\ Len(script') \in Nat
  BY AnyScript, LenProperties DEF Command
<1>2. Pos' = 0
  BY <1>1 DEF Pos
<1>3. ScriptInv'
  BY <1>1, <1>2 DEF ScriptInv
<1>4. OutInv'
  BY <1>2 DEF OutInv, Holds
<1>5. PinInv'
  <2>1. request' # AtBoot
    BY <1>1, Kinds DEF AtBoot
  <2> QED  BY <1>2, <2>1 DEF PinInv, Raised, Lowered
<1>6. DoneInv'
  <2>1. Voltage(request') => Total(request') \in Nat /\ Measured(request') \in 1 .. 12
    BY <1>1, VoltageLength DEF Total
  <2>2. \A m \in 1 .. 12 : ~(0 >= m) /\ ~(0 >= 13 * (m - 1) + 8)
    OBVIOUS
  <2>3. \A i \in 1 .. 3 : ~(0 >= 12 + i) /\ ~(0 >= 156 + i)
    OBVIOUS
  <2>4. done' = 0
    BY DEF Command
  <2>5. ASSUME Voltage(request')
        PROVE  /\ \A m \in 1 .. Measured(request') : done' >= m <=> Pos' >= 13 * (m - 1) + 8
               /\ \A i \in 1 .. 3 : done' >= 12 + i <=> Pos' >= 156 + i
    BY <1>2, <2>1, <2>2, <2>3, <2>4, <2>5
  <2> QED  BY <2>1, <2>4, <2>5 DEF DoneInv
<1>7. TypeOK'
  <2>1. TypeOK
    BY DEF IInv
  <2>2. /\ out' = out /\ inputs' = inputs /\ pins' = pins /\ stale' = stale /\ failures' = failures
        /\ done' = 0 /\ refused' = FALSE /\ lost' = FALSE
    BY DEF Command
  <2>3. 0 \in 0 .. 15
    OBVIOUS
  <2> QED  BY <1>1, <2>1, <2>2, <2>3 DEF TypeOK
<1> QED  BY <1>3, <1>4, <1>5, <1>6, <1>7 DEF IInv

\* An access that is not a conversion leaves the count as it is.
LEMMA NotCounted ==
  ASSUME IInv, script # <<>>, script' = Tail(script), request' = request, done' = done,
         Head(script).op # "convert"
  PROVE  DoneInv'
<1>0. request \in Commands \union {AtBoot} /\ ScriptInv /\ DoneInv
  BY DEF IInv, TypeOK
<1>1. /\ Pos' = Pos + 1 /\ Pos \in Nat /\ Head(script) = Script(request)[Pos + 1]
  BY <1>0, Advance, Position
<1>2. CASE request \in Commands /\ Voltage(request)
  <2>1. /\ \A m \in 1 .. Measured(request) : Pos + 1 # 13 * (m - 1) + 8
        /\ request.kind = "MULT" => \A i \in 1 .. 3 : Pos + 1 # 156 + i
    <3>1. ASSUME NEW m \in 1 .. Measured(request), Pos + 1 = 13 * (m - 1) + 8 PROVE FALSE
      <4>1. Script(request)[13 * (m - 1) + 8] = Convert(AdcChannel[MuxAt(request, m)])
        BY <1>2, VoltageScript DEF Block
      <4> QED  BY <1>1, <3>1, <4>1 DEF Convert
    <3>2. ASSUME request.kind = "MULT", NEW i \in 1 .. 3, Pos + 1 = 156 + i PROVE FALSE
      <4>1. Pos + 1 = 157 \/ Pos + 1 = 158 \/ Pos + 1 = 159
        BY <3>2
      <4> QED  BY <1>1, <1>2, <3>2, <4>1, VoltageScript DEF Convert
    <3> QED  BY <3>1, <3>2
  <2>2. ASSUME NEW m \in 1 .. Measured(request)
        PROVE  done >= m <=> Pos + 1 >= 13 * (m - 1) + 8
    <3>1. done >= m <=> Pos >= 13 * (m - 1) + 8
      BY <1>0, <1>2 DEF DoneInv
    <3>2. Measured(request) \in 1 .. 12
      BY <1>2, VoltageLength
    <3> QED  BY <1>1, <2>1, <3>1, <3>2
  <2>3. ASSUME request.kind = "MULT", NEW i \in 1 .. 3
        PROVE  done >= 12 + i <=> Pos + 1 >= 156 + i
    <3>1. done >= 12 + i <=> Pos >= 156 + i
      BY <1>0, <1>2, <2>3 DEF DoneInv
    <3> QED  BY <1>1, <2>1, <2>3, <3>1
  <2>4. done \in 0 .. Total(request)
    BY <1>0, <1>2 DEF DoneInv
  <2> QED  BY <1>1, <1>2, <2>2, <2>3, <2>4 DEF DoneInv
<1>3. CASE ~(request \in Commands /\ Voltage(request))
  BY <1>0, <1>3 DEF DoneInv
<1> QED  BY <1>2, <1>3

\* An access that is not of the pins leaves them as they are.
LEMMA PinsUntouched ==
  ASSUME IInv, script # <<>>, script' = Tail(script), request' = request, pins' = pins,
         Head(script).op # "gpio"
  PROVE  PinInv'
<1>0. request \in Commands \union {AtBoot} /\ ScriptInv /\ PinInv
  BY DEF IInv, TypeOK
<1>1. /\ Pos' = Pos + 1 /\ Pos \in Nat /\ Head(script) = Script(request)[Pos + 1]
  BY <1>0, Advance, Position
<1>2. \A p : ~Touches(Script(request)[Pos + 1], p)
  BY <1>1 DEF Touches
<1>3. \A p : /\ Raised(Script(request), Pos + 1, p) => Raised(Script(request), Pos, p)
             /\ Lowered(Script(request), Pos + 1, p) => Lowered(Script(request), Pos, p)
  BY <1>1, <1>2, PinStep
<1> QED  BY <1>0, <1>1, <1>3 DEF PinInv

\* A write that is not lost: what becomes of the outputs.
Exact(w) ==
  /\ w.reg = OutputReg => out' = [out EXCEPT ![w.to] = w.bits] /\ inputs' = inputs
  /\ w.reg # OutputReg => out' = out /\ inputs' = [inputs EXCEPT ![w.to] = w.bits]

\* A write of which the device takes what was meant is exact.
LEMMA StoreExact ==
  ASSUME NEW w, NEW a, NEW b, Store(w.to, a, b), <<a, b>> = <<w.reg, w.bits>>,
         w.reg \in {OutputReg, ConfigReg}
  PROVE  Exact(w)
<1>1. a = w.reg /\ b = w.bits
  OBVIOUS
<1>2. OutputReg # ConfigReg
  BY DEF OutputReg, ConfigReg
<1> QED  BY <1>1, <1>2 DEF Store, Exact

\* Every write takes the command one access further.
LEMMA WriteKeeps ==
  ASSUME IInv, Busy("write"), request' = request, pins' = pins, done' = done,
         ~lost' => ~lost /\ Exact(Head(script))
  PROVE  ScriptInv' /\ OutInv' /\ PinInv' /\ DoneInv'
<1>0. request \in Commands \union {AtBoot} /\ ScriptInv /\ OutInv /\ script # <<>>
      /\ Head(script).op = "write" /\ script' = Tail(script)
  BY DEF IInv, TypeOK, Busy
<1> DEFINE w == Head(script)
<1>1. /\ Pos' = Pos + 1 /\ Pos \in Nat /\ w = Script(request)[Pos + 1] /\ ScriptInv'
  BY <1>0, Advance, Position
<1>2. OutInv'
  <2> SUFFICES ASSUME ~lost', NEW e \in Expanders, NEW v, Holds(Script(request), Pos + 1, e, v)
               PROVE  out'[e] = v
    BY <1>1 DEF OutInv
  <2>1. out \in [Expanders -> SUBSET Bits] /\ ~lost /\ Exact(w)
    BY DEF IInv, TypeOK
  <2> HIDE DEF w
  <2>2. CASE Puts(w, e)
    <3>1. w.bits = v
      BY <1>1, <2>2, HoldsStep
    <3> QED  BY <2>1, <2>2, <3>1 DEF Puts, Exact
  <2>3. CASE ~Puts(w, e)
    <3>1. Holds(Script(request), Pos, e, v)
      BY <1>1, <2>3, HoldsStep
    <3>2. out[e] = v
      BY <1>0, <2>1, <3>1 DEF OutInv
    <3>3. w.op = "write"
      BY <1>0 DEF w
    <3> QED  BY <2>1, <2>3, <3>2, <3>3 DEF Puts, Exact
  <2> QED  BY <2>2, <2>3
<1>3. PinInv'
  BY <1>0, PinsUntouched
<1>4. DoneInv'
  BY <1>0, NotCounted
<1> QED  BY <1>1, <1>2, <1>3, <1>4

\* Whatever bytes an expander is sent, it holds two bytes.
LEMMA OutTyped ==
  ASSUME TypeOK, NEW e \in Expanders, NEW reg, NEW b \in Bytes, Store(e, reg, b)
  PROVE  out' \in [Expanders -> SUBSET Bits] /\ inputs' \in [Expanders -> SUBSET Bits]
BY DEF TypeOK, Store, Bytes

\* What a write finds in the FIFO, and what it may leave there.
LEMMA Sent ==
  ASSUME IInv, Busy("write"), NEW w, w = Head(script),
         NEW q, q = Queue(stale, <<w.reg, w.bits>>)
  PROVE  /\ w \in WriteAccess
         /\ q \in Seq(Bytes) /\ Len(q) <= FifoDepth /\ q[1] \in Bytes /\ q[2] \in Bytes
         /\ Queue(After(2, q), <<w.reg>>) \in Seq(Bytes)
         /\ Len(Queue(After(2, q), <<w.reg>>)) <= FifoDepth
         /\ After(1, Queue(After(2, q), <<w.reg>>)) \in Seq(Bytes)
         /\ Len(After(1, Queue(After(2, q), <<w.reg>>))) <= FifoDepth
<1>1. w \in WriteAccess
  <2>1. w \in Access /\ w.op = "write"
    BY Position DEF IInv, TypeOK, Busy
  <2> QED  BY <2>1 DEF Access, WriteAccess, GpioAccess, ConvertAccess
<1>2. w.reg \in Bytes /\ w.bits \in Bytes
  BY <1>1 DEF WriteAccess, Bytes, Bits, OutputReg, ConfigReg
<1>3. <<w.reg, w.bits>> \in Seq(Bytes) /\ Len(<<w.reg, w.bits>>) = 2 /\ <<w.reg>> \in Seq(Bytes)
  BY <1>2
<1>4. stale \in Seq(Bytes) /\ Len(stale) <= FifoDepth
  BY DEF IInv, TypeOK, Bytes
<1>5. q \in Seq(Bytes) /\ Len(q) <= FifoDepth /\ Len(q) >= 2
  BY <1>3, <1>4, QueueType
<1>6. q[1] \in Bytes /\ q[2] \in Bytes
  <2>1. Len(q) \in Nat
    BY <1>5, LenProperties
  <2>2. 1 \in 1 .. Len(q) /\ 2 \in 1 .. Len(q)
    BY <1>5, <2>1
  <2> QED  BY <1>5, <2>2, ElementOfSeq
<1>7. After(2, q) \in Seq(Bytes) /\ Len(After(2, q)) <= FifoDepth
  <2>1. After(2, q) \in Seq(Bytes) /\ Len(After(2, q)) <= Len(q)
    BY <1>5, AfterType
  <2> QED  BY <1>5, <2>1, LenProperties, DepthAssumption
<1> DEFINE p == Queue(After(2, q), <<w.reg>>)
<1>8. p \in Seq(Bytes) /\ Len(p) <= FifoDepth
  BY <1>3, <1>7, QueueType
<1> HIDE DEF p
<1>9. After(1, p) \in Seq(Bytes) /\ Len(After(1, p)) <= FifoDepth
  <2>1. After(1, p) \in Seq(Bytes) /\ Len(After(1, p)) <= Len(p)
    BY <1>8, AfterType
  <2> QED  BY <1>8, <2>1, LenProperties, DepthAssumption
<1> QED  BY <1>1, <1>5, <1>6, <1>8, <1>9 DEF p

\* The invariant is kept by a write that is acknowledged ...
LEMMA WriteDoneKeeps == IInv /\ WriteDone => IInv'
<1> SUFFICES ASSUME IInv, WriteDone PROVE IInv'
  OBVIOUS
<1> DEFINE w == Head(script)
           q == Queue(stale, <<w.reg, w.bits>>)
<1>1. /\ Busy("write") /\ Store(w.to, q[1], q[2])
      /\ stale' = After(1, Queue(After(2, q), <<w.reg>>))
      /\ lost' = (lost \/ <<q[1], q[2]>> # <<w.reg, w.bits>>)
      /\ pins' = pins /\ request' = request /\ done' = done /\ failures' = failures
      /\ refused' = refused
  BY DEF WriteDone
<1>2. /\ w \in WriteAccess /\ q[1] \in Bytes /\ q[2] \in Bytes
      /\ stale' \in Seq(Bytes) /\ Len(stale') <= FifoDepth
  BY <1>1, Sent
<1> HIDE DEF q
<1>3. TypeOK /\ w.to \in Expanders
  BY <1>2 DEF IInv, WriteAccess
<1>4. TypeOK'
  <2>1. out' \in [Expanders -> SUBSET Bits] /\ inputs' \in [Expanders -> SUBSET Bits]
    BY <1>1, <1>2, <1>3, OutTyped
  <2>2. lost' \in BOOLEAN
    BY <1>1, <1>3 DEF TypeOK
  <2> QED  BY <1>1, <1>2, <1>3, <2>1, <2>2 DEF TypeOK, Bytes
<1>5. ~lost' => ~lost /\ Exact(w)
  <2>1. w.reg \in {OutputReg, ConfigReg}
    BY <1>2 DEF WriteAccess
  <2> QED  BY <1>1, <2>1, StoreExact
<1>6. ScriptInv' /\ OutInv' /\ PinInv' /\ DoneInv'
  BY <1>1, <1>5, WriteKeeps
<1> QED  BY <1>4, <1>6 DEF IInv

\* ... by one that is not ...
LEMMA WriteFailsKeeps == IInv /\ WriteFails => IInv'
<1> SUFFICES ASSUME IInv, WriteFails PROVE IInv'
  OBVIOUS
<1>1. /\ Busy("write") /\ failures < MaxFailures
      /\ stale' = Queue(stale, <<Head(script).reg, Head(script).bits>>)
      /\ failures' = failures + 1 /\ refused' = TRUE /\ lost' = TRUE
      /\ out' = out /\ inputs' = inputs /\ pins' = pins /\ request' = request /\ done' = done
  BY DEF WriteFails
<1>2. stale' \in Seq(Bytes) /\ Len(stale') <= FifoDepth
  BY <1>1, Sent
<1>3. TypeOK
  BY DEF IInv
<1>4. failures' \in 0 .. MaxFailures
  BY <1>1, <1>3, DepthAssumption DEF TypeOK
<1>5. TypeOK'
  BY <1>1, <1>2, <1>3, <1>4 DEF TypeOK, Bytes
<1>6. ScriptInv' /\ OutInv' /\ PinInv' /\ DoneInv'
  BY <1>1, WriteKeeps
<1> QED  BY <1>5, <1>6 DEF IInv

\* ... by one that is not read back ...
LEMMA SelectFailsKeeps == IInv /\ SelectFails => IInv'
<1> SUFFICES ASSUME IInv, SelectFails PROVE IInv'
  OBVIOUS
<1> DEFINE w == Head(script)
           q == Queue(stale, <<w.reg, w.bits>>)
<1>1. /\ Busy("write") /\ failures < MaxFailures /\ Store(w.to, q[1], q[2])
      /\ stale' = Queue(After(2, q), <<w.reg>>)
      /\ lost' = (lost \/ <<q[1], q[2]>> # <<w.reg, w.bits>>)
      /\ failures' = failures + 1 /\ refused' = TRUE
      /\ pins' = pins /\ request' = request /\ done' = done
  BY DEF SelectFails
<1>2. /\ w \in WriteAccess /\ q[1] \in Bytes /\ q[2] \in Bytes
      /\ stale' \in Seq(Bytes) /\ Len(stale') <= FifoDepth
  BY <1>1, Sent
<1> HIDE DEF q
<1>3. TypeOK /\ w.to \in Expanders
  BY <1>2 DEF IInv, WriteAccess
<1>4. TypeOK'
  <2>1. out' \in [Expanders -> SUBSET Bits] /\ inputs' \in [Expanders -> SUBSET Bits]
    BY <1>1, <1>2, <1>3, OutTyped
  <2>2. lost' \in BOOLEAN
    BY <1>1, <1>3 DEF TypeOK
  <2>3. failures' \in 0 .. MaxFailures
    BY <1>1, <1>3, DepthAssumption DEF TypeOK
  <2> QED  BY <1>1, <1>2, <1>3, <2>1, <2>2, <2>3 DEF TypeOK, Bytes
<1>5. ~lost' => ~lost /\ Exact(w)
  <2>1. w.reg \in {OutputReg, ConfigReg}
    BY <1>2 DEF WriteAccess
  <2> QED  BY <1>1, <2>1, StoreExact
<1>6. ScriptInv' /\ OutInv' /\ PinInv' /\ DoneInv'
  BY <1>1, <1>5, WriteKeeps
<1> QED  BY <1>4, <1>6 DEF IInv

\* The outputs are what they were after an access that writes none.
LEMMA OutUntouched ==
  ASSUME IInv, script # <<>>, script' = Tail(script), request' = request, out' = out, lost' = lost,
         Head(script).op # "write"
  PROVE  OutInv'
<1>0. request \in Commands \union {AtBoot} /\ ScriptInv /\ OutInv
  BY DEF IInv, TypeOK
<1>1. /\ Pos' = Pos + 1 /\ Pos \in Nat /\ Head(script) = Script(request)[Pos + 1]
  BY <1>0, Advance, Position
<1>2. \A e : ~Puts(Script(request)[Pos + 1], e)
  BY <1>1 DEF Puts
<1>3. \A e, v : Holds(Script(request), Pos + 1, e, v) => Holds(Script(request), Pos, e, v)
  BY <1>1, <1>2, HoldsStep
<1> QED  BY <1>0, <1>1, <1>3 DEF OutInv

\* ... by an access of the pins ...
LEMMA SetPinsKeeps == IInv /\ SetPins => IInv'
<1> SUFFICES ASSUME IInv, SetPins PROVE IInv'
  OBVIOUS
<1> DEFINE a == Head(script)
<1>1. /\ script # <<>> /\ a.op = "gpio" /\ script' = Tail(script)
      /\ pins' = (pins \ a.low) \union a.high
      /\ out' = out /\ inputs' = inputs /\ request' = request /\ done' = done /\ stale' = stale
      /\ failures' = failures /\ refused' = refused /\ lost' = lost
  BY DEF SetPins, Busy
<1>2. TypeOK /\ ScriptInv /\ PinInv /\ request \in Commands \union {AtBoot}
  BY DEF IInv, TypeOK
<1>3. /\ Pos' = Pos + 1 /\ Pos \in 0 .. Len(Script(request)) - 1 /\ Len(Script(request)) \in Nat
      /\ a = Script(request)[Pos + 1] /\ a \in Access /\ ScriptInv'
  BY <1>1, <1>2, Advance, Position
<1>4. a \in GpioAccess
  BY <1>1, <1>3 DEF Access, WriteAccess, GpioAccess, ConvertAccess
<1>5. request # AtBoot
  <2>1. request \in Commands
    BY <1>1, <1>2, <1>3, AnyScript
  <2> QED  BY <2>1, Kinds DEF AtBoot
<1>6. TypeOK'
  <2>1. pins' \subseteq SwitchPins
    BY <1>1, <1>2, <1>4 DEF TypeOK, GpioAccess, SwitchPins
  <2> QED  BY <1>1, <1>2, <2>1 DEF TypeOK, SwitchPins
<1>7. OutInv'
  BY <1>1, OutUntouched
<1>8. DoneInv'
  BY <1>1, NotCounted
<1>9. PinInv'
  <2> HIDE DEF a
  <2>1. Pos \in Nat
    BY <1>3
  <2>2. ASSUME NEW p
        PROVE  /\ Raised(Script(request), Pos + 1, p) => p \in pins'
               /\ Lowered(Script(request), Pos + 1, p) => p \notin pins'
    <3>1. CASE Touches(a, p)
      BY <1>1, <1>3, <2>1, <3>1, PinStep DEF Touches
    <3>2. CASE ~Touches(a, p)
      <4>1. p \in pins' <=> p \in pins
        BY <1>1, <3>2 DEF Touches
      <4>2. /\ Raised(Script(request), Pos + 1, p) => Raised(Script(request), Pos, p)
            /\ Lowered(Script(request), Pos + 1, p) => Lowered(Script(request), Pos, p)
        BY <1>3, <2>1, <3>2, PinStep
      <4> QED  BY <1>2, <4>1, <4>2 DEF PinInv
    <3> QED  BY <3>1, <3>2
  <2> QED  BY <1>1, <1>3, <1>5, <2>2 DEF PinInv
<1> QED  BY <1>3, <1>6, <1>7, <1>8, <1>9 DEF IInv

\* A conversion finds as many made as precede it in the script.
LEMMA Counted ==
  ASSUME IInv, script # <<>>, Head(script).op = "convert"
  PROVE  /\ request \in Commands /\ Voltage(request) /\ done \in Nat
         /\ \/ /\ done + 1 \in 1 .. Measured(request) /\ Pos = 13 * done + 7
            \/ /\ request.kind = "MULT" /\ done \in 12 .. 14 /\ Pos = 144 + done
<1>0. request \in Commands \union {AtBoot} /\ ScriptInv /\ DoneInv
  BY DEF IInv, TypeOK
<1>1. /\ Pos \in 0 .. Len(Script(request)) - 1 /\ Len(Script(request)) \in Nat
      /\ Head(script) = Script(request)[Pos + 1]
  BY <1>0, Position
<1>2. request \in Commands /\ Voltage(request)
  BY <1>0, <1>1, AnyScript
<1>3. Measured(request) \in 1 .. 12 /\ (request.kind = "MULT" => Measured(request) = 12)
  BY <1>2, VoltageLength
<1>4. /\ done \in 0 .. Total(request)
      /\ \A j \in 1 .. Measured(request) : done >= j <=> Pos >= 13 * (j - 1) + 8
      /\ request.kind = "MULT" => \A i \in 1 .. 3 : done >= 12 + i <=> Pos >= 156 + i
  BY <1>0, <1>2 DEF DoneInv
<1>5. done \in Nat /\ done <= Total(request) /\ Pos \in Nat
  BY <1>1, <1>3, <1>4 DEF Total
<1>6. \/ \E m \in 1 .. Measured(request) : Pos + 1 = 13 * (m - 1) + 8
      \/ request.kind = "MULT" /\ Pos + 1 \in 157 .. 159
  <2>1. Pos + 1 \in 1 .. Len(Script(request))
    BY <1>1
  <2> QED  BY <1>1, <1>2, <2>1, VoltageConverts
<1>7. CASE \E m \in 1 .. Measured(request) : Pos + 1 = 13 * (m - 1) + 8
  <2>1. PICK m \in 1 .. Measured(request) : Pos + 1 = 13 * (m - 1) + 8
    BY <1>7
  <2>2. m \in Nat /\ m >= 1 /\ m <= Measured(request)
    BY <1>3
  <2>3. ~(done >= m)
    BY <1>4, <1>5, <2>1, <2>2
  <2>4. done >= m - 1
    <3>1. CASE m = 1
      BY <1>5, <3>1
    <3>2. CASE m # 1
      <4>1. m - 1 \in 1 .. Measured(request)
        BY <1>3, <2>2, <3>2
      <4>2. Pos >= 13 * ((m - 1) - 1) + 8
        BY <1>5, <2>1, <2>2
      <4> QED  BY <1>4, <4>1, <4>2
    <3> QED  BY <3>1, <3>2
  <2>5. done + 1 = m
    BY <1>5, <2>2, <2>3, <2>4
  <2> QED  BY <1>2, <1>5, <2>1, <2>2, <2>5
<1>8. CASE request.kind = "MULT" /\ Pos + 1 \in 157 .. 159
  <2>1. Pos = 156 \/ Pos = 157 \/ Pos = 158
    BY <1>5, <1>8
  <2>2. /\ done >= 13 <=> Pos >= 157
        /\ done >= 14 <=> Pos >= 158
        /\ done >= 15 <=> Pos >= 159
    <3>1. \A i \in 1 .. 3 : done >= 12 + i <=> Pos >= 156 + i
      BY <1>4, <1>8
    <3>2. /\ done >= 12 + 1 <=> Pos >= 156 + 1
          /\ done >= 12 + 2 <=> Pos >= 156 + 2
          /\ done >= 12 + 3 <=> Pos >= 156 + 3
      BY <3>1
    <3> QED  BY <3>2
  <2>3. done >= 12
    <3>1. 12 \in 1 .. Measured(request) /\ Pos >= 13 * (12 - 1) + 8
      BY <1>3, <1>8, <2>1
    <3> QED  BY <1>4, <3>1
  <2>4. done \in 12 .. 14 /\ Pos = 144 + done
    BY <1>5, <2>1, <2>2, <2>3
  <2> QED  BY <1>2, <1>5, <1>8, <2>4
<1> QED  BY <1>6, <1>7, <1>8

\* ... by a conversion ...
LEMMA ConversionKeeps == IInv /\ Conversion => IInv'
<1> SUFFICES ASSUME IInv, Conversion PROVE IInv'
  OBVIOUS
<1>1. /\ script # <<>> /\ Head(script).op = "convert" /\ script' = Tail(script)
      /\ done' = done + 1
      /\ out' = out /\ inputs' = inputs /\ request' = request /\ pins' = pins /\ stale' = stale
      /\ failures' = failures /\ refused' = refused /\ lost' = lost
  BY DEF Conversion, Busy
<1>2. TypeOK /\ ScriptInv /\ DoneInv
  BY DEF IInv
<1>3. ScriptInv' /\ Pos' = Pos + 1
  BY <1>1, <1>2, Advance DEF TypeOK
<1>4. /\ request \in Commands /\ Voltage(request) /\ done \in Nat
      /\ \/ done + 1 \in 1 .. Measured(request) /\ Pos = 13 * done + 7
         \/ request.kind = "MULT" /\ done \in 12 .. 14 /\ Pos = 144 + done
  BY <1>1, Counted
<1>5. Measured(request) \in 1 .. 12 /\ (request.kind = "MULT" => Measured(request) = 12)
  BY <1>4, VoltageLength
<1>6. OutInv'
  BY <1>1, OutUntouched
<1>7. PinInv'
  BY <1>1, PinsUntouched
<1>8. done + 1 \in 0 .. Total(request) /\ done + 1 \in 0 .. 15
  BY <1>4, <1>5 DEF Total
<1>9. ASSUME NEW j \in 1 .. Measured(request)
      PROVE  done + 1 >= j <=> Pos + 1 >= 13 * (j - 1) + 8
  BY <1>4, <1>5
<1>10. ASSUME request.kind = "MULT", NEW i \in 1 .. 3
       PROVE  done + 1 >= 12 + i <=> Pos + 1 >= 156 + i
  BY <1>4, <1>5, <1>10
<1>11. DoneInv'
  BY <1>1, <1>3, <1>4, <1>8, <1>9, <1>10 DEF DoneInv
<1>12. TypeOK'
  BY <1>1, <1>2, <1>8 DEF TypeOK
<1> QED  BY <1>3, <1>6, <1>7, <1>11, <1>12 DEF IInv

\* ... and by a step that changes nothing.
LEMMA StutterKeeps == IInv /\ UNCHANGED vars => IInv'
<1> SUFFICES ASSUME IInv, UNCHANGED vars PROVE IInv'
  OBVIOUS
<1> USE DEF vars
<1>1. TypeOK'
  BY DEF IInv, TypeOK
<1>2. ScriptInv'
  BY DEF IInv, ScriptInv, Pos
<1>3. OutInv'
  BY DEF IInv, OutInv, Pos
<1>4. PinInv'
  BY DEF IInv, PinInv, Pos
<1>5. DoneInv'
  BY DEF IInv, DoneInv, Pos
<1> QED  BY <1>1, <1>2, <1>3, <1>4, <1>5 DEF IInv

\* In every state of every run, what is left to do is the rest of the command's
\* script, and the outputs, the pins and the count of conversions are what the
\* accesses already made (maini2c.c:137-503) have made of them, unless a write
\* was lost.
LEMMA Invariance == Spec => []IInv
<1>1. IInv /\ [Next]_vars => IInv'
  BY CommandKeeps, WriteDoneKeeps, WriteFailsKeeps, SelectFailsKeeps, SetPinsKeeps, ConversionKeeps,
     StutterKeeps DEF Next
<1> QED  BY InitHolds, <1>1, PTL DEF Spec

\* The registers and pins of the board have their types, the count of
\* conversions stays within a multiple measurement, and the FIFO of the
\* controller never holds more than its depth, whatever goes unacknowledged
\* (maini2c.c:16-503, I2C_Controller.c).
THEOREM TypeCorrect == Spec => []TypeOK
<1>1. IInv => TypeOK
  BY DEF IInv
<1> QED  BY Invariance, <1>1, PTL

-----------------------------------------------------------------------------
(* What the board connects *)

\* With no write lost, a board that the script describes is the board there is.
LEMMA BoardHolds ==
  ASSUME IInv, ~lost, NEW u6, NEW u7, NEW u9, NEW u10, NEW u11,
         Board(Script(request), Pos, u6, u7, u9, u10, u11)
  PROVE  /\ out["U6"] = u6 /\ out["U7"] = u7 /\ out["U9"] = u9 /\ out["U10"] = u10 /\ out["U11"] = u11
         /\ Configured => /\ Closed("U6") = u6 /\ Closed("U7") = u7 /\ Closed("U9") = u9
                          /\ Closed("U10") = u10 /\ Closed("U11") = u11
<1>1. OutInv
  BY DEF IInv
<1>2. out["U6"] = u6 /\ out["U7"] = u7 /\ out["U9"] = u9 /\ out["U10"] = u10 /\ out["U11"] = u11
  BY <1>1 DEF OutInv, Board, Expanders
<1>3. Configured => \A e \in Expanders : inputs[e] = {}
  BY DEF Configured
<1> QED  BY <1>2, <1>3 DEF Closed, Expanders

\* Lines that are all open, as inputs or not.
LEMMA AllOpen ==
  ASSUME IInv, ~lost, Board(Script(request), Pos, {}, {}, {}, {}, {})
  PROVE  Open /\ EnabledMuxes = {} /\ ClosedCoils = {}
<1>1. \A e \in Expanders : out[e] = {}
  BY BoardHolds DEF Expanders
<1>2. Open
  BY <1>1 DEF Open, Closed
<1>3. Closed("U6") = {} /\ Closed("U7") = {} /\ Closed("U9") = {} /\ Closed("U10") = {} /\ Closed("U11") = {}
  BY <1>2 DEF Open, Expanders
<1>4. EnabledMuxes = {}
  BY <1>3, MuxesOf
<1>5. ClosedCoils = {}
  BY <1>3, NoCoils
<1> QED  BY <1>2, <1>4, <1>5

\* The invariant gives what a conversion sees.
LEMMA ConversionSees == IInv => ConversionRight
<1> SUFFICES ASSUME IInv, script # <<>>, Head(script).op = "convert", ~lost, Configured
             PROVE  /\ ClosedCoils = {}
                    /\ IF Head(script).ch > 12
                       THEN EnabledMuxes = {}
                       ELSE /\ EnabledMuxes = {AskedMux}
                            /\ Head(script).ch = AdcChannel[AskedMux]
                            /\ vrpin_select(AskedPin)
                                 = IF AskedMux \in Con3Muxes THEN PinOfU11 ELSE PinOfU7
  BY DEF ConversionRight
<1>1. /\ request \in Commands /\ Voltage(request) /\ done \in Nat
      /\ \/ done + 1 \in 1 .. Measured(request) /\ Pos = 13 * done + 7
         \/ request.kind = "MULT" /\ done \in 12 .. 14 /\ Pos = 144 + done
  BY Counted
<1>2. Head(script) = Script(request)[Pos + 1]
  BY Position DEF IInv, TypeOK
<1>3. CASE done + 1 \in 1 .. Measured(request) /\ Pos = 13 * done + 7
  <2> DEFINE mux == MuxAt(request, done + 1)
             pin == PinAt(request, done + 1)
  <2>1. mux \in ConMuxes \union Con3Muxes /\ pin \in 0 .. 15
    BY <1>1, <1>3, VoltageNames
  <2>2. Block(Script(request), 13 * done, mux, pin)
    <3>1. Block(Script(request), 13 * ((done + 1) - 1), mux, pin)
      BY <1>1, <1>3, VoltageScript
    <3>2. 13 * ((done + 1) - 1) = 13 * done
      BY <1>1
    <3> QED  BY <3>1, <3>2
  <2>3. AskedMux = mux /\ AskedPin = pin
    <3>1. request.kind = "SINGLE" \/ request.kind = "DIFF" \/ request.kind = "MULT"
      BY <1>1 DEF Voltage
    <3>2. request.kind = "DIFF" => done = 0 \/ done = 1
      BY <1>1, <1>3 DEF Measured
    <3>3. done = 1 <=> done + 1 = 2
      BY <1>1
    <3>4. done = 0 => done + 1 # 2
      OBVIOUS
    <3> QED  BY <3>1, <3>2, <3>3, <3>4 DEF AskedMux, AskedPin, MuxAt, PinAt
  <2> HIDE DEF mux, pin
  <2>4. Head(script).ch = AdcChannel[mux] /\ ~(Head(script).ch > 12)
    <3>1. Script(request)[13 * done + 8] = Convert(AdcChannel[mux])
      BY <2>2 DEF Block
    <3>2. Pos + 1 = 13 * done + 8
      BY <1>1, <1>3
    <3>3. AdcChannel[mux] \in 1 .. 12
      BY <2>1, MuxCodes
    <3> QED  BY <1>2, <3>1, <3>2, <3>3 DEF Convert
  <2>5. Seen(Script(request), Pos, mux, pin)
    <3>1. 13 * done \in Nat
      BY <1>1
    <3> QED  BY <1>3, <2>1, <2>2, <3>1, BlockSeen
  <2>6. CASE mux \in Con3Muxes
    <3>1. Board(Script(request), Pos, {}, {}, {}, {}, rpin_select(pin) \union enable_mux[mux])
      BY <2>5, <2>6 DEF Seen
    <3>2. /\ Closed("U6") = {} /\ Closed("U7") = {} /\ Closed("U9") = {} /\ Closed("U10") = {}
          /\ Closed("U11") = rpin_select(pin) \union enable_mux[mux]
      BY <3>1, BoardHolds
    <3>3. ClosedCoils = {}
      BY <3>2, NoCoils
    <3>4. EnabledMuxes = {mux}
      BY <2>1, <2>6, <3>2, MuxesOf
    <3>5. PinOfU11 = vrpin_select(pin)
      <4>1. enable_mux[mux] \in SUBSET (0 .. 3)
        BY <2>6, MuxCodes
      <4> QED  BY <2>1, <3>2, <4>1, PinsOnLines DEF PinOfU11
    <3> QED  BY <2>3, <2>4, <2>6, <3>3, <3>4, <3>5
  <2>7. CASE mux \notin Con3Muxes
    <3>1. Board(Script(request), Pos, enable_mux[mux], vrpin_select(pin), {}, {}, {})
      BY <2>5, <2>7 DEF Seen
    <3>2. /\ Closed("U6") = enable_mux[mux] /\ Closed("U7") = vrpin_select(pin)
          /\ Closed("U9") = {} /\ Closed("U10") = {} /\ Closed("U11") = {}
      BY <3>1, BoardHolds
    <3>3. ClosedCoils = {}
      BY <2>1, <3>2, NoCoils, PinCodes
    <3>4. EnabledMuxes = {mux}
      BY <2>1, <2>7, <3>2, MuxesOf
    <3>5. PinOfU7 = vrpin_select(pin)
      <4>1. {b \in vrpin_select(pin) \union {} : b < 4} = vrpin_select(pin)
        BY <2>1, PinsOnLines
      <4> QED  BY <3>2, <4>1 DEF PinOfU7
    <3> QED  BY <2>3, <2>4, <2>7, <3>3, <3>4, <3>5
  <2> QED  BY <2>6, <2>7
<1>4. CASE request.kind = "MULT" /\ done \in 12 .. 14 /\ Pos = 144 + done
  <2>1. Pos = 156 \/ Pos = 157 \/ Pos = 158
    BY <1>4
  <2>2. Head(script).ch > 12
    <3>1. /\ Script(request)[156 + 1] = Convert(13) /\ Script(request)[157 + 1] = Convert(14)
          /\ Script(request)[158 + 1] = Convert(15)
      BY <1>1, <1>4, VoltageScript
    <3> QED  BY <1>2, <2>1, <3>1 DEF Convert
  <2>3. Board(Script(request), Pos, {}, {}, {}, {}, {})
    <3>1. \A i \in 157 .. 159 : Board(Script(request), i - 1, {}, {}, {}, {}, {})
      BY <1>1, <1>4, VoltageEnd
    <3>2. Pos + 1 \in 157 .. 159 /\ (Pos + 1) - 1 = Pos
      BY <2>1
    <3> QED  BY <3>1, <3>2
  <2> QED  BY <2>2, <2>3, AllOpen
<1> QED  BY <1>1, <1>3, <1>4

\* Whatever was measured, tested or lost before, a conversion sees exactly the
\* multiplexer and the pin that the command names, through the input of the
\* converter that belongs to it, and no coil of a resistance path is closed,
\* provided no write of this command was lost and boot has configured the
\* expanders (maini2c.c:137-322, measurement.c).
THEOREM ConversionAlwaysRight == Spec => []ConversionRight
BY Invariance, ConversionSees, PTL

-----------------------------------------------------------------------------
(* What a command leaves *)

\* With the script made, the pins are as its accesses last set them.
LEMMA PinsHold ==
  ASSUME IInv, NEW p
  PROVE  /\ Raised(Script(request), Pos, p) => p \in pins
         /\ Lowered(Script(request), Pos, p) => p \notin pins
BY DEF IInv, PinInv

\* The UART switch after such a script.
LEMMA UartLeft ==
  ASSUME IInv, NEW ch \in 0 .. 3,
         IF ch % 2 = 1 THEN Raised(Script(request), Pos, "UART_A0")
                       ELSE Lowered(Script(request), Pos, "UART_A0"),
         IF ch >= 2 THEN Raised(Script(request), Pos, "UART_A1")
                    ELSE Lowered(Script(request), Pos, "UART_A1")
  PROVE  UartOutput = ch
<1>1. ("UART_A0" \in pins <=> ch % 2 = 1) /\ ("UART_A1" \in pins <=> ch >= 2)
  BY PinsHold
<1> QED  BY <1>1 DEF UartOutput

\* The USB switch after a resistance command ...
LEMMA MeterLeft ==
  ASSUME IInv, NEW ch \in 0 .. 3, MeterSet(Script(request), Pos, ch)
  PROVE  ch \in MeterOutputs /\ "VBUS" \notin pins
<1>1. /\ "VBUS" \notin pins /\ "SEL_A1" \notin pins /\ "SEL_B1" \in pins
      /\ "SEL_A0" \in pins <=> ch = 1
      /\ "SEL_B0" \in pins <=> ch = 3
  BY PinsHold DEF MeterSet
<1> QED  BY <1>1 DEF MeterOutputs, SelectedA, SelectedB

\* ... and after a test.
LEMMA FunctionLeft ==
  ASSUME IInv, NEW ch \in 0 .. 3, FunctionSet(Script(request), Pos, ch)
  PROVE  "VBUS" \in pins /\ (ch # 3 => FunctionOutput = ch)
<1>1. /\ "VBUS" \in pins
      /\ ch = 2 => "SEL_A1" \notin pins /\ "SEL_B0" \notin pins
      /\ ch # 2 => "SEL_A1" \in pins
      /\ ch = 0 => "SEL_A0" \notin pins
      /\ ch = 1 => "SEL_A0" \in pins
  BY PinsHold DEF FunctionSet
<1> QED  BY <1>1 DEF FunctionOutput, SelectedA, SelectedB

\* The multiplexers of the ends of a resistance path that have one.
LEMMA PathMuxes ==
  ASSUME NEW r \in Commands, r.kind = "RES",
         Closed("U6") = HeldU6(r), Closed("U11") = HeldU11(r)
  PROVE  EnabledMuxes = {MuxOf[c] : c \in {r.num1, r.num2} \ (UsbCoils \union UartCoils)}
<1>1. /\ r.num1 \in MuxCoils \union UsbCoils \union UartCoils /\ r.num2 \in Con3Coils /\ r.pin2 \in 0 .. 15
  BY ResistNames
<1>2. r.num2 \notin UsbCoils \union UartCoils
  BY <1>1 DEF Con3Coils, UsbCoils, UartCoils
<1>3. MuxOf[r.num2] \in Con3Muxes
  BY <1>1, CoilMuxes
<1>4. CASE r.num1 \in MuxCoils
  <2>1. MuxOf[r.num1] \in ConMuxes
    BY <1>4, CoilMuxes
  <2>2. EnabledMuxes = {MuxOf[r.num1], MuxOf[r.num2]}
    BY <1>1, <1>3, <1>4, <2>1, MuxesOf DEF HeldU6, HeldU11
  <2>3. r.num1 \notin UsbCoils \union UartCoils
    BY <1>4, Homes
  <2> QED  BY <1>2, <2>2, <2>3
<1>5. CASE r.num1 \in UsbCoils \union UartCoils
  <2>1. r.num1 \notin MuxCoils
    BY <1>5, Homes
  <2>2. EnabledMuxes = {MuxOf[r.num2]}
    BY <1>1, <1>3, <2>1, MuxesOf DEF HeldU6, HeldU11
  <2>3. {r.num1, r.num2} \ (UsbCoils \union UartCoils) = {r.num2}
    BY <1>2, <1>5
  <2> QED  BY <2>2, <2>3
<1> QED  BY <1>1, <1>4, <1>5

\* The pins of its ends.
LEMMA PathPins ==
  ASSUME NEW r \in Commands, r.kind = "RES",
         Closed("U7") = HeldU7(r), Closed("U11") = HeldU11(r)
  PROVE  /\ PinOfU11 = vrpin_select(r.pin2)
         /\ PinOfU7 = IF r.num1 \in MuxCoils THEN vrpin_select(r.pin1) ELSE {}
<1>1. /\ r.num1 \in MuxCoils \union UsbCoils \union UartCoils /\ r.num2 \in Con3Coils
      /\ r.pin1 \in 0 .. 15 /\ r.pin2 \in 0 .. 15
  BY ResistNames
<1>2. PinOfU11 = vrpin_select(r.pin2)
  <2>1. enable_mux[MuxOf[r.num2]] \in SUBSET (0 .. 3)
    BY <1>1, CoilMuxes, MuxCodes
  <2> QED  BY <1>1, <2>1, PinsOnLines DEF PinOfU11, HeldU11
<1>3. CASE r.num1 \in MuxCoils
  <2> DEFINE high == IF r.num1 \in U9Coils THEN {} ELSE vrcoil_select[r.num1]
  <2>1. high \in SUBSET (4 .. 7)
    BY <1>3, Homes DEF U7Coils, vrcoil_select
  <2>2. HeldU7(r) = vrpin_select(r.pin1) \union high
    BY <1>3 DEF HeldU7
  <2> HIDE DEF high
  <2>3. {b \in vrpin_select(r.pin1) \union high : b < 4} = vrpin_select(r.pin1)
    BY <1>1, <2>1, PinsOnLines
  <2> QED  BY <1>2, <1>3, <2>2, <2>3 DEF PinOfU7
<1>4. CASE r.num1 \notin MuxCoils
  BY <1>2, <1>4 DEF PinOfU7, HeldU7
<1> QED  BY <1>3, <1>4

\* The invariant gives what a resistance command leaves ...
LEMMA PathLeft ==
  ASSUME IInv, script = <<>>, ~lost, Configured, request.kind = "RES", request \in Commands
  PROVE  /\ request.num1 \in UsbCoils => request.ch1 \in MeterOutputs /\ "VBUS" \notin pins
         /\ request.num1 \in UartCoils => request.ch2 = UartOutput
         /\ ClosedCoils = {request.num1, request.num2}
         /\ EnabledMuxes = {MuxOf[c] : c \in {request.num1, request.num2} \ (UsbCoils \union UartCoils)}
         /\ PinOfU11 = vrpin_select(request.pin2)
         /\ PinOfU7 = IF request.num1 \in MuxCoils THEN vrpin_select(request.pin1) ELSE {}
<1>1. Pos = Len(Script(request))
  BY Position DEF IInv, TypeOK
<1>2. ResistEnd(Script(request), Pos, request)
  BY <1>1, ResistScript
<1>3. /\ Closed("U6") = HeldU6(request) /\ Closed("U7") = HeldU7(request) /\ Closed("U9") = HeldU9(request)
      /\ Closed("U10") = HeldU10(request) /\ Closed("U11") = HeldU11(request)
  BY <1>2, BoardHolds DEF ResistEnd
<1>4. request.ch1 \in 0 .. 3 /\ request.ch2 \in 0 .. 3
  BY ResistNames
<1>5. request.num1 \in UsbCoils => request.ch1 \in MeterOutputs /\ "VBUS" \notin pins
  BY <1>2, <1>4, MeterLeft DEF ResistEnd
<1>6. request.num1 \in UartCoils => request.ch2 = UartOutput
  BY <1>2, <1>4, UartLeft DEF ResistEnd
<1>7. ClosedCoils = {request.num1, request.num2}
  BY <1>3, TwoCoils
<1> QED  BY <1>3, <1>5, <1>6, <1>7, PathMuxes, PathPins

\* ... and what every command leaves.
LEMMA Rests == IInv => RestRight
<1> SUFFICES ASSUME IInv, script = <<>>, ~lost
             PROVE  CASE request.kind = "RES" -> Configured =>
                           /\ request.num1 \in UsbCoils => request.ch1 \in MeterOutputs /\ "VBUS" \notin pins
                           /\ request.num1 \in UartCoils => request.ch2 = UartOutput
                           /\ ClosedCoils = {request.num1, request.num2}
                           /\ EnabledMuxes = {MuxOf[c] : c \in {request.num1, request.num2}
                                                              \ (UsbCoils \union UartCoils)}
                           /\ PinOfU11 = vrpin_select(request.pin2)
                           /\ PinOfU7 = IF request.num1 \in MuxCoils
                                        THEN vrpin_select(request.pin1) ELSE {}
                      [] request.kind = "TEST_USB"  -> /\ "VBUS" \in pins
                                                       /\ request.ch # 3 => FunctionOutput = request.ch
                      [] request.kind = "TEST_UART" -> UartOutput = request.ch
                      [] OTHER -> Open
  BY DEF RestRight
<1>1. Pos = Len(Script(request)) /\ request \in Commands \union {AtBoot}
  BY Position DEF IInv, TypeOK
<1>2. CASE request = AtBoot
  <2>1. request.kind = "INIT"
    BY <1>2 DEF AtBoot
  <2>2. Board(Script(request), Pos, {}, {}, {}, {}, {})
    BY <1>1, <1>2, BootScript
  <2> QED  BY <2>1, <2>2, AllOpen
<1>3. CASE request \in Commands
  <2>1. CASE request.kind = "RES"
    BY <1>3, <2>1, PathLeft
  <2>2. CASE request.kind = "TEST_USB"
    <3>1. request.ch \in 0 .. 3
      BY <1>3, <2>2, Kinds, PinsAssumption DEF Test
    <3> QED  BY <1>1, <1>3, <2>2, <3>1, TestScript, FunctionLeft
  <2>3. CASE request.kind = "TEST_UART"
    <3>1. request.ch \in 0 .. 3
      BY <1>3, <2>3, Kinds, PinsAssumption DEF Test
    <3> QED  BY <1>1, <1>3, <2>3, <3>1, TestScript, UartLeft
  <2>4. CASE Voltage(request)
    <3>1. Board(Script(request), Pos, {}, {}, {}, {}, {})
      BY <1>1, <1>3, <2>4, VoltageEnd
    <3> QED  BY <2>4, <3>1, AllOpen DEF Voltage
  <2> QED  BY <1>3, <2>1, <2>2, <2>3, <2>4, Kinds DEF Voltage
<1> QED  BY <1>1, <1>2, <1>3

\* A command whose writes all did what they should leaves the board as it has
\* to: a resistance command exactly its path, both ends and both coils, with the
\* switch on its channel; a test its switch on its channel, the pen drive
\* powered; boot and a voltage command everything open (maini2c.c:16-24, 279,
\* 324-503).
THEOREM RestAlwaysRight == Spec => []RestRight
BY Invariance, Rests, PTL

-----------------------------------------------------------------------------
(* What no step does *)

\* A write that is not lost is the access of the script, stored as it is.
LEMMA Stored ==
  ASSUME IInv, WriteDone \/ SelectFails, ~lost', NEW w, w = Head(script)
  PROVE  /\ w \in WriteAccess /\ w = Script(request)[Pos + 1] /\ Exact(w) /\ ~lost
         /\ pins' = pins /\ request \in Commands \union {AtBoot}
         /\ Safe(Script(request), Pos) \/ (request = AtBoot /\ \E e \in Expanders : w = Config(e))
<1> DEFINE q == Queue(stale, <<w.reg, w.bits>>)
<1>1. /\ Busy("write") /\ Store(w.to, q[1], q[2]) /\ pins' = pins
      /\ lost' = (lost \/ <<q[1], q[2]>> # <<w.reg, w.bits>>)
  BY DEF WriteDone, SelectFails
<1>2. w \in WriteAccess
  BY <1>1, Sent
<1> HIDE DEF q
<1>3. ~lost /\ Exact(w)
  <2>1. w.reg \in {OutputReg, ConfigReg}
    BY <1>2 DEF WriteAccess
  <2> QED  BY <1>1, <2>1, StoreExact
<1>4. /\ request \in Commands \union {AtBoot} /\ w = Script(request)[Pos + 1]
      /\ Pos \in 0 .. Len(Script(request)) - 1
  BY <1>1, Position DEF IInv, TypeOK, Busy
<1>5. Safe(Script(request), Pos) \/ (request = AtBoot /\ \E e \in Expanders : w = Config(e))
  BY <1>4, AnyScript
<1> QED  BY <1>1, <1>2, <1>3, <1>4, <1>5

\* What such a write does to the lines of the expanders.
LEMMA LinesMove ==
  ASSUME IInv, WriteDone \/ SelectFails, ~lost', NEW e \in Expanders
  PROVE  Closed(e)' = {} \/ Closed(e) \subseteq Closed(e)'
<1> DEFINE w == Head(script)
<1>1. /\ w \in WriteAccess /\ w = Script(request)[Pos + 1] /\ Exact(w) /\ ~lost
      /\ Safe(Script(request), Pos) \/ (request = AtBoot /\ \E f \in Expanders : w = Config(f))
  BY Stored
<1>2. /\ out \in [Expanders -> SUBSET Bits] /\ inputs \in [Expanders -> SUBSET Bits] /\ OutInv
      /\ w.op = "write" /\ w.to \in Expanders
  BY <1>1 DEF IInv, TypeOK, WriteAccess
<1> HIDE DEF w
<1>3. CASE Safe(Script(request), Pos)
  <2>1. /\ w.reg = OutputReg
        /\ w.bits = {} \/ \E v : Holds(Script(request), Pos, w.to, v) /\ v \subseteq w.bits
    BY <1>1, <1>2, <1>3 DEF Safe
  <2>2. out' = [out EXCEPT ![w.to] = w.bits] /\ inputs' = inputs
    BY <1>1, <2>1 DEF Exact
  <2>3. w.bits = {} \/ out[w.to] \subseteq w.bits
    BY <1>1, <1>2, <2>1 DEF OutInv
  <2> QED  BY <1>2, <2>2, <2>3 DEF Closed
<1>4. CASE request = AtBoot /\ \E f \in Expanders : w = Config(f)
  <2>1. w.reg # OutputReg /\ w.bits = {}
    BY <1>4 DEF Config, ConfigReg, OutputReg
  <2>2. out' = out /\ inputs' = [inputs EXCEPT ![w.to] = {}]
    BY <1>1, <2>1 DEF Exact
  <2> QED  BY <1>2, <2>2 DEF Closed
<1> QED  BY <1>1, <1>3, <1>4

\* No step opens one line of an expander and closes, or leaves closed, another
\* one, unless the command has lost a write: between two paths all lines of the
\* expander are open (maini2c.c:27-35, 137-503).
THEOREM AlwaysBreaksFirst == Spec => BreakBeforeMake
<1> DEFINE A == lost' \/ \A e \in Expanders : Closed(e)' = {} \/ Closed(e) \subseteq Closed(e)'
<1>1. IInv /\ [Next]_vars => [A]_vars
  <2> SUFFICES ASSUME IInv, Next PROVE A
    OBVIOUS
  <2>1. CASE WriteDone \/ SelectFails
    BY <2>1, LinesMove
  <2>2. CASE WriteFails
    BY <2>2 DEF WriteFails
  <2>3. CASE Command \/ SetPins \/ Conversion
    <3>1. out' = out /\ inputs' = inputs
      BY <2>3 DEF Command, SetPins, Conversion
    <3> QED  BY <3>1 DEF Closed
  <2> QED  BY <2>1, <2>2, <2>3 DEF Next
<1> QED  BY Invariance, <1>1, PTL DEF Spec, BreakBeforeMake

\* A coil of the USB lines closes only in a step that leaves the pen drive
\* without power, unless the command has lost a write (usb_mux.h:41,
\* maini2c.c:416-427).
THEOREM CoilsCloseUnpowered == Spec => CoilClosesUnpowered
<1> DEFINE A == LET usb == {0, 1} IN
                lost' \/ (Closed("U10")' \intersect usb) \subseteq Closed("U10") \/ "VBUS" \notin pins'
<1>1. IInv /\ [Next]_vars => [A]_vars
  <2> SUFFICES ASSUME IInv, Next PROVE A
    OBVIOUS
  <2>1. ASSUME WriteDone \/ SelectFails, ~lost', "VBUS" \in pins'
        PROVE  (Closed("U10")' \intersect {0, 1}) \subseteq Closed("U10")
    <3> DEFINE w == Head(script)
    <3>1. /\ w \in WriteAccess /\ w = Script(request)[Pos + 1] /\ Exact(w) /\ ~lost /\ pins' = pins
          /\ Safe(Script(request), Pos) \/ (request = AtBoot /\ \E e \in Expanders : w = Config(e))
      BY <2>1, Stored
    <3> HIDE DEF w
    <3>2. /\ out \in [Expanders -> SUBSET Bits] /\ w.op = "write" /\ PinInv
      BY <3>1 DEF IInv, TypeOK, WriteAccess
    <3>3. Safe(Script(request), Pos)
      BY <2>1, <3>1, <3>2 DEF PinInv
    <3>4. w.reg = OutputReg /\ (w.to = "U10" /\ w.bits \intersect {0, 1} # {}
                                   => Lowered(Script(request), Pos, "VBUS"))
      BY <3>1, <3>2, <3>3 DEF Safe
    <3>5. ~(w.to = "U10" /\ w.bits \intersect {0, 1} # {})
      BY <2>1, <3>1, <3>2, <3>4 DEF PinInv
    <3>6. out' = [out EXCEPT ![w.to] = w.bits] /\ inputs' = inputs
      BY <3>1, <3>4 DEF Exact
    <3> QED  BY <3>2, <3>5, <3>6 DEF Closed, Expanders
  <2>2. CASE WriteFails
    BY <2>2 DEF WriteFails
  <2>3. CASE Command \/ SetPins \/ Conversion
    <3>1. out' = out /\ inputs' = inputs
      BY <2>3 DEF Command, SetPins, Conversion
    <3> QED  BY <3>1 DEF Closed
  <2> QED  BY <2>1, <2>2, <2>3 DEF Next
<1> QED  BY Invariance, <1>1, PTL DEF Spec, CoilClosesUnpowered
-----------------------------------------------------------------------------
(* A bus that answers *)

\* As long as every transmission was acknowledged, no command has lost a write
\* and no byte waits for the next one, boot has left every line an output, and
\* a voltage command leaves all open.
AllAnswered ==
  failures = 0 =>
    /\ ~lost /\ stale = <<>>
    /\ request # AtBoot \/ script = <<>> => Configured
    /\ script = <<>> /\ Voltage(request) => Open

\* For that: an expander that boot has not yet configured has its turn to come.
ToConfigure(e) ==
  request = AtBoot /\ \E i \in Pos + 1 .. Len(Script(request)) : Script(request)[i] = Config(e)
AnsweredInv ==
  failures = 0 => /\ ~lost /\ stale = <<>>
                  /\ \A e \in Expanders : inputs[e] = {} \/ ToConfigure(e)

\* Boot configures every expander.
LEMMA BootConfigures ==
  ASSUME NEW e \in Expanders
  PROVE  \E i \in 1 .. Len(Script(AtBoot)) : Script(AtBoot)[i] = Config(e)
<1> DEFINE s == io_expander_config \o reset_all
<1>1. Script(AtBoot) = s
  BY DEF Script, AtBoot
<1>2. /\ io_expander_config \in Seq(Access) /\ Len(io_expander_config) = 5
      /\ \E i \in 1 .. 5 : io_expander_config[i] = Config(e)
  BY DEF io_expander_config, Config, Access, WriteAccess, Expanders, Bits
<1>3. /\ Len(s) = Len(io_expander_config) + Len(reset_all)
      /\ \A i \in 1 .. Len(io_expander_config) : s[i] = io_expander_config[i]
  BY <1>2, ResetWrites, Concat
<1> HIDE DEF s
<1>4. Len(s) = 10 /\ \A i \in 1 .. 5 : s[i] = io_expander_config[i]
  BY <1>2, <1>3, ResetWrites
<1>5. PICK i \in 1 .. 5 : io_expander_config[i] = Config(e)
  BY <1>2
<1>6. i \in 1 .. Len(s) /\ s[i] = Config(e)
  BY <1>4, <1>5
<1> QED  BY <1>1, <1>6

\* With the FIFO empty a message goes out as it is, and nothing stays.
LEMMA EmptyQueue ==
  ASSUME NEW a \in Bytes, NEW b \in Bytes
  PROVE  /\ Queue(<<>>, <<a, b>>) = <<a, b>>
         /\ After(2, <<a, b>>) = <<>> /\ Queue(<<>>, <<a>>) = <<a>> /\ After(1, <<a>>) = <<>>
<1>1. FifoDepth - Len(<<>>) >= 3
  BY DepthAssumption
<1>2. Len(<<a, b>>) = 2 /\ Len(<<a>>) = 1
  OBVIOUS
<1>3. <<>> \o <<a, b>> = <<a, b>> /\ <<>> \o <<a>> = <<a>>
  OBVIOUS
<1>4. SubSeq(<<a, b>>, 2 + 1, 2) = <<>> /\ SubSeq(<<a>>, 1 + 1, 1) = <<>>
  OBVIOUS
<1> QED  BY <1>1, <1>2, <1>3, <1>4, DepthAssumption DEF Queue, After

\* What an access other than the configuration of e leaves of its turn.
LEMMA TurnKept ==
  ASSUME IInv, script # <<>>, script' = Tail(script), request' = request,
         NEW e \in Expanders, ToConfigure(e), Script(request)[Pos + 1] # Config(e)
  PROVE  ToConfigure(e)'
<1>1. Pos' = Pos + 1 /\ Pos \in 0 .. Len(Script(request)) /\ Len(Script(request)) \in Nat
  BY Advance, Position DEF IInv, TypeOK
<1>2. PICK i \in Pos + 1 .. Len(Script(request)) : Script(request)[i] = Config(e)
  BY DEF ToConfigure
<1>3. i # Pos + 1
  BY <1>2
<1>4. i \in Pos' + 1 .. Len(Script(request'))
  BY <1>1, <1>2, <1>3
<1> QED  BY <1>2, <1>4 DEF ToConfigure

\* A write of which everything is acknowledged is stored as it was meant.
LEMMA AnsweredWrite == IInv /\ AnsweredInv /\ WriteDone => AnsweredInv'
<1> SUFFICES ASSUME IInv, AnsweredInv, WriteDone, failures' = 0
             PROVE  /\ ~lost' /\ stale' = <<>>
                    /\ \A e \in Expanders : (inputs[e] = {} \/ ToConfigure(e))'
  BY DEF AnsweredInv
<1> DEFINE w == Head(script)
           q == Queue(stale, <<w.reg, w.bits>>)
<1>1. /\ Busy("write") /\ request' = request /\ failures' = failures
      /\ stale' = After(1, Queue(After(2, q), <<w.reg>>))
      /\ lost' = (lost \/ <<q[1], q[2]>> # <<w.reg, w.bits>>)
  BY DEF WriteDone
<1>2. stale = <<>> /\ ~lost /\ \A e \in Expanders : inputs[e] = {} \/ ToConfigure(e)
  BY <1>1 DEF AnsweredInv
<1>3. w \in WriteAccess
  BY <1>1, Sent
<1>4. w.reg \in Bytes /\ w.bits \in Bytes
  BY <1>3 DEF WriteAccess, OutputReg, ConfigReg, Bits, Bytes
<1>5. q = <<w.reg, w.bits>> /\ stale' = <<>>
  BY <1>1, <1>2, <1>4, EmptyQueue
<1>6. ~lost'
  <2>1. <<q[1], q[2]>> = <<w.reg, w.bits>>
    BY <1>5
  <2> HIDE DEF q
  <2> QED  BY <1>1, <1>2, <2>1, Zenon
<1>7. ASSUME NEW e \in Expanders PROVE (inputs[e] = {} \/ ToConfigure(e))'
  <2>1. /\ w = Script(request)[Pos + 1] /\ Exact(w)
        /\ Safe(Script(request), Pos) \/ (request = AtBoot /\ \E f \in Expanders : w = Config(f))
    BY <1>6, Stored
  <2>2. /\ inputs \in [Expanders -> SUBSET Bits] /\ w.op = "write" /\ w.to \in Expanders
        /\ script # <<>> /\ script' = Tail(script)
    BY <1>1, <1>3 DEF IInv, TypeOK, WriteAccess, Busy
  <2> HIDE DEF w
  <2>3. CASE w = Config(e)
    <3>1. w.reg # OutputReg /\ w.bits = {} /\ w.to = e
      BY <2>3 DEF Config, ConfigReg, OutputReg
    <3>2. inputs' = [inputs EXCEPT ![e] = {}]
      BY <2>1, <3>1 DEF Exact
    <3> QED  BY <2>2, <3>2
  <2>4. CASE w # Config(e)
    <3>1. inputs[e] = {} => inputs'[e] = {}
      <4>1. CASE Safe(Script(request), Pos)
        BY <2>1, <2>2, <4>1 DEF Safe, Exact
      <4>2. CASE \E f \in Expanders : w = Config(f)
        <5>1. w.reg # OutputReg /\ w.bits = {}
          BY <4>2 DEF Config, ConfigReg, OutputReg
        <5>2. inputs' = [inputs EXCEPT ![w.to] = {}]
          BY <2>1, <5>1 DEF Exact
        <5> QED  BY <2>2, <5>2
      <4> QED  BY <2>1, <4>1, <4>2
    <3>2. ToConfigure(e) => ToConfigure(e)'
      BY <1>1, <2>1, <2>2, <2>4, TurnKept
    <3> QED  BY <1>2, <3>1, <3>2
  <2> QED  BY <2>3, <2>4
<1> QED  BY <1>5, <1>6, <1>7

\* The other accesses leave the expanders and the FIFO alone.
LEMMA AnsweredOther == IInv /\ AnsweredInv /\ (SetPins \/ Conversion) => AnsweredInv'
<1> SUFFICES ASSUME IInv, AnsweredInv, SetPins \/ Conversion PROVE AnsweredInv'
  OBVIOUS
<1>1. /\ UNCHANGED <<inputs, stale, failures, lost, request>>
      /\ script # <<>> /\ Head(script).op \in {"gpio", "convert"} /\ script' = Tail(script)
  BY DEF SetPins, Conversion, Busy
<1>2. /\ request \in Commands \union {AtBoot} /\ Head(script) = Script(request)[Pos + 1]
      /\ Pos \in 0 .. Len(Script(request)) - 1
  BY <1>1, Position DEF IInv, TypeOK
<1>3. ASSUME NEW e \in Expanders, ToConfigure(e) PROVE ToConfigure(e)'
  <2>1. Script(request)[Pos + 1] # Config(e)
    BY <1>1, <1>2 DEF Config
  <2> QED  BY <1>1, <1>3, <2>1, TurnKept
<1> QED  BY <1>1, <1>3 DEF AnsweredInv

\* How far the violation of ResetOpens goes: it takes a transmission of an
\* earlier command that was not acknowledged.  As long as all are, every write
\* does what it should, so that the provisos of the theorems above are met:
\* boot makes every line an output before the first command, no conversion sees
\* another path than its own, and a voltage command leaves everything open
\* (maini2c.c:16-35, I2C_Controller.c).
THEOREM AnsweredLosesNothing == Spec => []AllAnswered
<1>1. Init => AnsweredInv
  <2> SUFFICES ASSUME Init PROVE AnsweredInv
    OBVIOUS
  <2>1. request = AtBoot /\ script = Script(AtBoot) /\ stale = <<>> /\ lost = FALSE
    BY DEF Init
  <2>2. Len(script) \in Nat
    BY <2>1, BootScript
  <2>3. Pos + 1 = 1
    BY <2>1, <2>2 DEF Pos
  <2>4. \A e \in Expanders : ToConfigure(e)
    BY <2>1, <2>3, BootConfigures DEF ToConfigure
  <2> QED  BY <2>1, <2>4 DEF AnsweredInv
<1>2. IInv /\ AnsweredInv /\ [Next]_vars => AnsweredInv'
  <2> SUFFICES ASSUME IInv, AnsweredInv, [Next]_vars PROVE AnsweredInv'
    OBVIOUS
  <2>1. CASE Command
    <3>1. /\ script = <<>> /\ request' \in Commands /\ lost' = FALSE
          /\ UNCHANGED <<inputs, stale, failures>>
      BY <2>1 DEF Command
    <3>2. ASSUME NEW e \in Expanders PROVE ~ToConfigure(e)
      <4>1. Pos = Len(Script(request)) /\ Len(Script(request)) \in Nat
        BY <3>1, Position DEF IInv, TypeOK
      <4> QED  BY <4>1 DEF ToConfigure
    <3> QED  BY <3>1, <3>2 DEF AnsweredInv
  <2>2. CASE WriteDone
    BY <2>2, AnsweredWrite
  <2>3. CASE WriteFails \/ SelectFails
    <3>1. failures' = failures + 1 /\ failures \in Nat
      BY <2>3, DepthAssumption DEF WriteFails, SelectFails, IInv, TypeOK
    <3>2. failures' # 0
      BY <3>1
    <3> QED  BY <3>2 DEF AnsweredInv
  <2>4. CASE SetPins \/ Conversion
    BY <2>4, AnsweredOther
  <2>5. CASE UNCHANGED vars
    BY <2>5 DEF AnsweredInv, ToConfigure, Pos, vars
  <2> QED  BY <2>1, <2>2, <2>3, <2>4, <2>5 DEF Next
<1>3. IInv /\ AnsweredInv => AllAnswered
  <2> SUFFICES ASSUME IInv, AnsweredInv, failures = 0 PROVE AllAnswered
    BY DEF AllAnswered
  <2>1. ~lost /\ stale = <<>> /\ \A e \in Expanders : inputs[e] = {} \/ ToConfigure(e)
    BY DEF AnsweredInv
  <2>2. request # AtBoot \/ script = <<>> => Configured
    <3>1. ASSUME script = <<>>, NEW e \in Expanders PROVE ~ToConfigure(e)
      <4>1. Pos = Len(Script(request)) /\ Len(Script(request)) \in Nat
        BY <3>1, Position DEF IInv, TypeOK
      <4> QED  BY <4>1 DEF ToConfigure
    <3> QED  BY <2>1, <3>1 DEF Configured, ToConfigure
  <2>3. script = <<>> /\ Voltage(request) => Open
    BY <2>1, Rests DEF RestRight, Voltage
  <2> QED  BY <2>1, <2>2, <2>3 DEF AllAnswered
<1> QED  BY Invariance, <1>1, <1>2, <1>3, PTL DEF Spec
=============================================================================
