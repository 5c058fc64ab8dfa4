-------------------------- MODULE ImuMonitorProofs --------------------------
(* The bytes of ImuDrivers: what the sensors send comes back, and a chunk      *)
(* goes where it belongs.  The filter of ImuFilter: its corrections go the     *)
(* shorter way to what is measured and not past it, and over any number of     *)
(* updates they hold a drifting gyro.  The box of HardIron: what it votes for, *)
(* and that less than half a turn never makes it usable.  The sessions of      *)
(* ImuMonitor: what is sampled has been configured, for an image of any length *)
(* and whatever is on the board.                                               *)
EXTENDS ImuMonitor, ImuFilter, HardIron, SequenceTheorems, FiniteSetTheorems,
        WellFoundedInduction, TLAPS

-----------------------------------------------------------------------------
(* Induction, as the least element of what is left out *)

LEMMA LessIsWellFounded == IsWellFoundedOn({ss \in Nat \X Nat : ss[1] < ss[2]}, Nat)
  BY NatLessThanWellFounded, Zenon DEF OpToRel

LEMMA NatSetInduction ==
    ASSUME NEW S, 0 \in S, \A n \in Nat : n \in S => n + 1 \in S
    PROVE  Nat \subseteq S
<1> DEFINE Less == {ss \in Nat \X Nat : ss[1] < ss[2]}
<1>0. IsWellFoundedOn(Less, Nat)  BY LessIsWellFounded
<1>1. SUFFICES ASSUME Nat \ S # {} PROVE FALSE  OBVIOUS
<1>2. PICK x \in Nat \ S : \A y \in Nat \ S : <<y, x>> \notin Less
  <2>1. Nat \ S \subseteq Nat  OBVIOUS
  <2> HIDE DEF Less
  <2> QED  BY <1>0, <1>1, <2>1, WFMin
<1>3. \A y \in Nat \ S : ~(y < x)  BY <1>2
<1>4. x # 0 /\ x - 1 \in Nat  OBVIOUS
<1> QED  BY <1>3, <1>4

-----------------------------------------------------------------------------
(* Bytes *)

\* Division by the constants in question, as a sum.
LEMMA Bytes ==
    ASSUME NEW n \in Int
    PROVE  n = 256 * (n \div 256) + (n % 256) /\ n % 256 \in 0..255
  OBVIOUS

LEMMA RawPositive ==
    ASSUME NEW r \in Int, 0 <= r, r <= 32767 PROVE r % 65536 = r
  OBVIOUS

LEMMA RawNegative ==
    ASSUME NEW r \in Int, -32768 <= r, r < 0 PROVE r % 65536 = r + 65536
  OBVIOUS

LEMMA Bits ==
    ASSUME NEW n \in Int
    PROVE  /\ (n \div 4) % 256 = (n \div 4) - 256 * (n \div 1024)
           /\ n = 4 * (n \div 4) + (n % 4)
  OBVIOUS

LEMMA SharedBits ==
    ASSUME NEW a \in 0..3, NEW b \in 0..3, NEW c \in 0..3
    PROVE  LET s == a * 64 + b * 16 + c * 4
           IN  (s \div 64) % 4 = a /\ (s \div 16) % 4 = b /\ (s \div 4) % 4 = c
  OBVIOUS

\* bmi270.rs, lines 326-329: every reading of 16 bits is what its two bytes say.
THEOREM WordComesBack ==
    ASSUME NEW r \in Int, -32768 <= r, r <= 32767
    PROVE  Word(LowByte(r), HighByte(r)) = r
<1>1. ASSUME NEW raw \in Int PROVE (raw \div 256) * 256 + (raw % 256) = raw
  BY Bytes
<1>2. ASSUME NEW raw \in Int, raw = r % 65536
      PROVE  Word(LowByte(r), HighByte(r)) = IF raw < 32768 THEN raw ELSE raw - 65536
  <2>1. LowByte(r) = raw % 256 /\ HighByte(r) = raw \div 256
    BY <1>2 DEF LowByte, HighByte
  <2> QED
    BY <2>1, <1>1 DEF Word
<1>3. CASE 0 <= r
  <2>1. r = r % 65536
    BY <1>3, RawPositive
  <2>2. Word(LowByte(r), HighByte(r)) = IF r < 32768 THEN r ELSE r - 65536
    BY <2>1, <1>2
  <2> QED
    BY <2>2
<1>4. CASE r < 0
  <2>1. r + 65536 = r % 65536
    BY <1>4, RawNegative
  <2>2. r + 65536 \in Int /\ ~(r + 65536 < 32768)
    BY <1>4
  <2>3. Word(LowByte(r), HighByte(r)) = r + 65536 - 65536
    BY <2>1, <2>2, <1>2
  <2> QED
    BY <2>3
<1> QED
  BY <1>3, <1>4

\* mmc5983ma.rs, lines 121-133: every reading of 18 bits comes back from the bytes of its
\* axis and the two bits it has in the byte that all share, whatever the other axes read.
THEOREM AxisComesBack ==
    ASSUME NEW x \in Nat, NEW y \in Nat, NEW z \in Nat,
           NEW axis \in {"x", "y", "z"}, x < 262144, y < 262144, z < 262144
    PROVE  LET v == IF axis = "x" THEN x ELSE IF axis = "y" THEN y ELSE z
           IN  Axis(v \div 1024, (v \div 4) % 256, SharedByte(x, y, z), AxisShift[axis]) = v
<1> DEFINE v == IF axis = "x" THEN x ELSE IF axis = "y" THEN y ELSE z
           s == SharedByte(x, y, z)
<1>1. x % 4 \in 0..3 /\ y % 4 \in 0..3 /\ z % 4 \in 0..3
  OBVIOUS
<1>2. (s \div 64) % 4 = x % 4 /\ (s \div 16) % 4 = y % 4 /\ (s \div 4) % 4 = z % 4
  BY <1>1, SharedBits DEF SharedByte
<1>3. (s \div AxisShift[axis]) % 4 = v % 4
  BY <1>2 DEF AxisShift
<1>4. v \in Int
  OBVIOUS
<1> HIDE DEF v, s
<1>5. (v \div 1024) * 1024 + ((v \div 4) % 256) * 4 + (v % 4) = v
  BY <1>4, Bits
<1> QED
  BY <1>3, <1>5 DEF Axis, v, s

\* bmi270.rs, lines 278-285: the two halves of an address name the place of the chunk in
\* the image, no two chunks the same, and the last one ends within the 4096 words that
\* twelve bits address.
THEOREM ChunksLand ==
    ASSUME NEW i \in 0..Chunks - 1, NEW j \in 0..Chunks - 1
    PROVE  /\ InitAddr(i).low \in 0..15 /\ InitAddr(i).high \in 0..255
           /\ WrittenAt(InitAddr(i)) = WordAddress(i)
           /\ WordAddress(i) + 64 <= 4096
           /\ i # j => WrittenAt(InitAddr(i)) # WrittenAt(InitAddr(j))
<1>1. \A k \in 0..Chunks - 1 : k \in 0..63
  BY ChunksAssumption
<1>2. ASSUME NEW k \in 0..63
      PROVE  /\ WordAddress(k) = 64 * k
             /\ InitAddr(k).low = 0 /\ InitAddr(k).high = 4 * k
  BY DEF InitAddr, WordAddress, ChunkBytes
<1>3. ASSUME NEW k \in 0..63 PROVE WrittenAt(InitAddr(k)) = 64 * k
  BY <1>2 DEF WrittenAt
<1>4. i \in 0..63 /\ j \in 0..63
  BY <1>1
<1>5. /\ InitAddr(i).low \in 0..15 /\ InitAddr(i).high \in 0..255
      /\ WrittenAt(InitAddr(i)) = WordAddress(i)
      /\ WordAddress(i) + 64 <= 4096
  <2>1. WordAddress(i) = 64 * i /\ InitAddr(i).low = 0 /\ InitAddr(i).high = 4 * i
    BY <1>2, <1>4
  <2>2. WrittenAt(InitAddr(i)) = 64 * i
    BY <1>3, <1>4
  <2> QED
    BY <1>4, <2>1, <2>2
<1>6. i # j => WrittenAt(InitAddr(i)) # WrittenAt(InitAddr(j))
  BY <1>3, <1>4
<1> QED
  BY <1>5, <1>6

-----------------------------------------------------------------------------
(* Where every item of the initialisation is *)

Reset(s) == IF s = "inertial" THEN 1 ELSE Chunks + 13
Verdict  == Chunks + 5

InertialItems == {"PWR_CTRL", "ACC_CONF", "ACC_RANGE", "GYR_CONF", "GYR_RANGE", "PWR_CONF"}
MagneticItems == {"CONTROL_1", "CONTROL_0", "CONTROL_2"}

LEMMA SettingsItems ==
    /\ ItemsOf(Settings["inertial"]) = InertialItems
    /\ ItemsOf(Settings["magnetic"]) = MagneticItems
    /\ ItemsOf(UploadBegins) = {"POWER_SAVE_OFF", "INIT_CTRL_0"}
  BY DEF Settings, ItemsOf, InertialItems, MagneticItems, UploadBegins

Item == {"CMD_SOFT_RESET", "POWER_SAVE_OFF", "INIT_CTRL_0", "INIT_DATA", "INIT_CTRL_1",
         "INTERNAL_STATUS", "PRODUCT_ID", "CONTROL_1_SOFT_RESET"}
        \cup InertialItems \cup MagneticItems

LEMMA Constants ==
    ASSUME NEW S, NEW e \in S, NEW n \in Nat
    PROVE  [k \in 1..n |-> e] \in Seq(S) /\ Len([k \in 1..n |-> e]) = n
  OBVIOUS

LEMMA Pairs ==
    ASSUME NEW S, NEW a \in S, NEW b \in S
    PROVE  <<a, b>> \in Seq(S) /\ Len(<<a, b>>) = 2
  OBVIOUS

LEMMA Joined ==
    \A S : \A a, b \in Seq(S) :
        /\ a \o b \in Seq(S) /\ Len(a \o b) = Len(a) + Len(b)
        /\ \A k \in 1..Len(a) : (a \o b)[k] = a[k]
        /\ \A k \in 1..Len(b) : (a \o b)[Len(a) + k] = b[k]
<1> SUFFICES ASSUME NEW S, NEW a \in Seq(S), NEW b \in Seq(S)
             PROVE  /\ a \o b \in Seq(S) /\ Len(a \o b) = Len(a) + Len(b)
                    /\ \A k \in 1..Len(a) : (a \o b)[k] = a[k]
                    /\ \A k \in 1..Len(b) : (a \o b)[Len(a) + k] = b[k]
  OBVIOUS
<1>1. Len(a) \in Nat /\ Len(b) \in Nat
  BY LenProperties
<1>2. /\ a \o b \in Seq(S) /\ Len(a \o b) = Len(a) + Len(b)
      /\ \A i \in 1..Len(a) + Len(b) :
             (a \o b)[i] = IF i <= Len(a) THEN a[i] ELSE b[i - Len(a)]
  BY ConcatProperties
<1>3. ASSUME NEW k \in 1..Len(a) PROVE (a \o b)[k] = a[k]
  BY <1>1, <1>2
<1>4. ASSUME NEW k \in 1..Len(b) PROVE (a \o b)[Len(a) + k] = b[k]
  <2>1. Len(a) + k \in 1..Len(a) + Len(b) /\ ~(Len(a) + k <= Len(a)) /\ (Len(a) + k) - Len(a) = k
    BY <1>1
  <2> QED
    BY <1>2, <2>1
<1> QED
  BY <1>2, <1>3, <1>4

LEMMA UploadItems ==
    /\ Upload \in Seq(Item) /\ Len(Upload) = Chunks + 4
    /\ Upload[1] = "POWER_SAVE_OFF" /\ Upload[2] = "INIT_CTRL_0"
    /\ \A k \in 3..Chunks + 2 : Upload[k] = "INIT_DATA"
    /\ Upload[Chunks + 3] = "INIT_CTRL_1" /\ Upload[Chunks + 4] = "INTERNAL_STATUS"
<1>1. Chunks \in Nat /\ Chunks > 0
  BY ChunksAssumption
<1> DEFINE data == [k \in 1..Chunks |-> "INIT_DATA"]
           ends == <<"INIT_CTRL_1", "INTERNAL_STATUS">>
<1>2. data \in Seq(Item) /\ Len(data) = Chunks
  BY <1>1, Constants DEF Item
<1>3. UploadBegins \in Seq(Item) /\ Len(UploadBegins) = 2
  BY Pairs DEF UploadBegins, Item
<1>4. ends \in Seq(Item) /\ Len(ends) = 2
  BY Pairs DEF Item
<1>5. Upload = (UploadBegins \o data) \o ends
  BY DEF Upload
<1>6. /\ UploadBegins \o data \in Seq(Item) /\ Len(UploadBegins \o data) = Chunks + 2
      /\ (UploadBegins \o data)[1] = "POWER_SAVE_OFF"
      /\ (UploadBegins \o data)[2] = "INIT_CTRL_0"
      /\ \A k \in 3..Chunks + 2 : (UploadBegins \o data)[k] = "INIT_DATA"
  BY <1>1, <1>2, <1>3 DEF UploadBegins
<1> DEFINE starts == UploadBegins \o data
<1>7. ends[1] = "INIT_CTRL_1" /\ ends[2] = "INTERNAL_STATUS"
  OBVIOUS
<1> HIDE DEF data, ends, starts
<1>8. /\ starts \o ends \in Seq(Item) /\ Len(starts \o ends) = (Chunks + 2) + 2
      /\ \A k \in 1..Chunks + 2 : (starts \o ends)[k] = starts[k]
      /\ \A k \in 1..2 : (starts \o ends)[(Chunks + 2) + k] = ends[k]
  <2>1. starts \in Seq(Item) /\ ends \in Seq(Item)
    BY <1>4, <1>6 DEF starts
  <2>2. /\ starts \o ends \in Seq(Item) /\ Len(starts \o ends) = Len(starts) + Len(ends)
        /\ \A k \in 1..Len(starts) : (starts \o ends)[k] = starts[k]
        /\ \A k \in 1..Len(ends) : (starts \o ends)[Len(starts) + k] = ends[k]
    BY <2>1, Joined
  <2>3. Len(starts) = Chunks + 2 /\ Len(ends) = 2
    BY <1>4, <1>6 DEF starts
  <2> QED
    BY <2>2, <2>3, Zenon
<1>9. 1 \in 1..Chunks + 2 /\ 2 \in 1..Chunks + 2 /\ 3..Chunks + 2 \subseteq 1..Chunks + 2
      /\ (Chunks + 2) + 1 = Chunks + 3 /\ (Chunks + 2) + 2 = Chunks + 4 /\ 1 \in 1..2 /\ 2 \in 1..2
  BY <1>1
<1> QED
  BY <1>5, <1>6, <1>7, <1>8, <1>9 DEF starts

LEMMA ScriptItems ==
    /\ Script \in Seq(Item) /\ Len(InertialScript) = Chunks + 11 /\ Len(Script) = Chunks + 16
    /\ Script[1] = "CMD_SOFT_RESET"
    /\ Script[2] = "POWER_SAVE_OFF" /\ Script[3] = "INIT_CTRL_0"
    /\ \A k \in 4..Chunks + 3 : Script[k] = "INIT_DATA"
    /\ Script[Chunks + 4] = "INIT_CTRL_1" /\ Script[Chunks + 5] = "INTERNAL_STATUS"
    /\ Script[Chunks + 6] = "PWR_CTRL" /\ Script[Chunks + 7] = "ACC_CONF"
    /\ Script[Chunks + 8] = "ACC_RANGE" /\ Script[Chunks + 9] = "GYR_CONF"
    /\ Script[Chunks + 10] = "GYR_RANGE" /\ Script[Chunks + 11] = "PWR_CONF"
    /\ Script[Chunks + 12] = "PRODUCT_ID" /\ Script[Chunks + 13] = "CONTROL_1_SOFT_RESET"
    /\ Script[Chunks + 14] = "CONTROL_1" /\ Script[Chunks + 15] = "CONTROL_0"
    /\ Script[Chunks + 16] = "CONTROL_2"
<1>1. Chunks \in Nat /\ Chunks > 0
  BY ChunksAssumption
<1> DEFINE first == <<"CMD_SOFT_RESET">>
           i == Settings["inertial"]
           m == Settings["magnetic"]
           ids == <<"PRODUCT_ID", "CONTROL_1_SOFT_RESET">>
<1>2. /\ i \in Seq(Item) /\ Len(i) = 6
      /\ i[1] = "PWR_CTRL" /\ i[2] = "ACC_CONF" /\ i[3] = "ACC_RANGE"
      /\ i[4] = "GYR_CONF" /\ i[5] = "GYR_RANGE" /\ i[6] = "PWR_CONF"
  <2>1. InertialItems \subseteq Item
    BY DEF Item
  <2>2. i \in Seq(InertialItems)
    BY DEF Settings, InertialItems
  <2> QED
    BY <2>1, <2>2, SeqMonotonic DEF Settings
<1>3. /\ m \in Seq(Item) /\ Len(m) = 3
      /\ m[1] = "CONTROL_1" /\ m[2] = "CONTROL_0" /\ m[3] = "CONTROL_2"
  <2>1. MagneticItems \subseteq Item
    BY DEF Item
  <2>2. m \in Seq(MagneticItems)
    BY DEF Settings, MagneticItems
  <2> QED
    BY <2>1, <2>2, SeqMonotonic DEF Settings
<1> HIDE DEF i, m, first, ids
<1>4. /\ first \o Upload \in Seq(Item) /\ Len(first \o Upload) = Chunks + 5
      /\ (first \o Upload)[1] = "CMD_SOFT_RESET"
      /\ \A k \in 1..Chunks + 4 : (first \o Upload)[k + 1] = Upload[k]
  <2>1. first \in Seq({"CMD_SOFT_RESET"}) /\ {"CMD_SOFT_RESET"} \subseteq Item
    BY DEF first, Item
  <2>2. first \in Seq(Item) /\ Len(first) = 1 /\ first[1] = "CMD_SOFT_RESET"
    BY <2>1, SeqMonotonic DEF first
  <2> QED
    <3>1. /\ first \o Upload \in Seq(Item) /\ Len(first \o Upload) = 1 + (Chunks + 4)
          /\ \A k \in 1..1 : (first \o Upload)[k] = first[k]
          /\ \A k \in 1..Chunks + 4 : (first \o Upload)[1 + k] = Upload[k]
      BY <1>1, <2>2, UploadItems, Joined
    <3> QED
      BY <1>1, <2>2, <3>1
<1>5. InertialScript = (first \o Upload) \o i
  BY DEF InertialScript, i, first
<1>6. /\ InertialScript \in Seq(Item) /\ Len(InertialScript) = Chunks + 11
      /\ InertialScript[1] = "CMD_SOFT_RESET"
      /\ \A k \in 1..Chunks + 4 : InertialScript[k + 1] = Upload[k]
      /\ \A k \in 1..6 : InertialScript[Chunks + 5 + k] = i[k]
  <2>1. /\ InertialScript \in Seq(Item) /\ Len(InertialScript) = (Chunks + 5) + 6
        /\ \A k \in 1..Chunks + 5 : InertialScript[k] = (first \o Upload)[k]
        /\ \A k \in 1..6 : InertialScript[(Chunks + 5) + k] = i[k]
    <3> DEFINE j == first \o Upload
    <3>1. j \in Seq(Item) /\ Len(j) = Chunks + 5
      BY <1>4
    <3>2. InertialScript = j \o i
      BY <1>5
    <3> HIDE DEF j
    <3>3. /\ j \o i \in Seq(Item) /\ Len(j \o i) = Len(j) + Len(i)
          /\ \A k \in 1..Len(j) : (j \o i)[k] = j[k]
          /\ \A k \in 1..Len(i) : (j \o i)[Len(j) + k] = i[k]
      <4>1. i \in Seq(Item) /\ j \in Seq(Item)
        BY <1>2, <3>1
      <4> QED
        BY <4>1, Joined
    <3>4. /\ InertialScript \in Seq(Item) /\ Len(InertialScript) = (Chunks + 5) + 6
          /\ \A k \in 1..Chunks + 5 : InertialScript[k] = j[k]
          /\ \A k \in 1..6 : InertialScript[(Chunks + 5) + k] = i[k]
      BY <1>2, <3>1, <3>2, <3>3
    <3> QED
      BY <3>4 DEF j
  <2>2. ASSUME NEW k \in 1..Chunks + 4 PROVE InertialScript[k + 1] = Upload[k]
    <3>1. k + 1 \in 1..Chunks + 5
      BY <1>1
    <3> QED
      BY <1>4, <2>1, <3>1
  <2>3. Len(InertialScript) = Chunks + 11 /\ 1 \in 1..Chunks + 5
    BY <1>1, <2>1
  <2>4. InertialScript[1] = "CMD_SOFT_RESET"
    BY <1>4, <2>1, <2>3
  <2> QED
    BY <2>1, <2>2, <2>3, <2>4
<1>7. /\ MagneticScript \in Seq(Item) /\ Len(MagneticScript) = 5
      /\ MagneticScript[1] = "PRODUCT_ID" /\ MagneticScript[2] = "CONTROL_1_SOFT_RESET"
      /\ MagneticScript[3] = "CONTROL_1" /\ MagneticScript[4] = "CONTROL_0"
      /\ MagneticScript[5] = "CONTROL_2"
  <2>1. ids \in Seq(Item) /\ Len(ids) = 2 /\ ids[1] = "PRODUCT_ID" /\ ids[2] = "CONTROL_1_SOFT_RESET"
    BY Pairs DEF Item, ids
  <2>2. MagneticScript = ids \o m
    BY DEF MagneticScript, m, ids
  <2> QED
    <3>1. /\ MagneticScript \in Seq(Item) /\ Len(MagneticScript) = 2 + 3
          /\ \A k \in 1..2 : MagneticScript[k] = ids[k]
          /\ \A k \in 1..3 : MagneticScript[2 + k] = m[k]
      <4>1. /\ ids \o m \in Seq(Item) /\ Len(ids \o m) = Len(ids) + Len(m)
            /\ \A k \in 1..Len(ids) : (ids \o m)[k] = ids[k]
            /\ \A k \in 1..Len(m) : (ids \o m)[Len(ids) + k] = m[k]
        <5>1. ids \in Seq(Item) /\ m \in Seq(Item)
          BY <1>3, <2>1
        <5> QED
          BY <5>1, Joined
      <4> QED
        BY <1>3, <2>1, <2>2, <4>1
    <3>2. /\ MagneticScript[1] = ids[1] /\ MagneticScript[2] = ids[2]
          /\ MagneticScript[2 + 1] = m[1] /\ MagneticScript[2 + 2] = m[2]
          /\ MagneticScript[2 + 3] = m[3]
      BY <3>1
    <3> QED
      BY <1>3, <2>1, <3>1, <3>2
<1>8. /\ Script \in Seq(Item) /\ Len(Script) = Chunks + 16
      /\ \A k \in 1..Chunks + 11 : Script[k] = InertialScript[k]
      /\ \A k \in 1..5 : Script[Chunks + 11 + k] = MagneticScript[k]
  <2>1. /\ Script \in Seq(Item) /\ Len(Script) = Len(InertialScript) + Len(MagneticScript)
        /\ \A k \in 1..Len(InertialScript) : Script[k] = InertialScript[k]
        /\ \A k \in 1..Len(MagneticScript) :
               Script[Len(InertialScript) + k] = MagneticScript[k]
    <3>1. InertialScript \in Seq(Item) /\ MagneticScript \in Seq(Item)
      BY <1>6, <1>7
    <3> QED
      BY <3>1, Joined DEF Script
  <2> QED
    BY <1>1, <1>6, <1>7, <2>1
<1>9. \A k \in 4..Chunks + 3 : Script[k] = "INIT_DATA"
  <2> TAKE k \in 4..Chunks + 3
  <2>1. k - 1 \in 3..Chunks + 2 /\ k - 1 \in 1..Chunks + 4 /\ (k - 1) + 1 = k
    BY <1>1
  <2>2. InertialScript[k] = Upload[k - 1]
    BY <1>6, <2>1
  <2> QED
    BY <1>1, <1>8, <2>1, <2>2, UploadItems
<1>10. /\ Script[1] = "CMD_SOFT_RESET"
       /\ Script[2] = "POWER_SAVE_OFF" /\ Script[3] = "INIT_CTRL_0"
       /\ Script[Chunks + 4] = "INIT_CTRL_1" /\ Script[Chunks + 5] = "INTERNAL_STATUS"
  <2>1. InertialScript[2] = Upload[1] /\ InertialScript[3] = Upload[2]
    BY <1>1, <1>6
  <2>2. InertialScript[Chunks + 4] = Upload[Chunks + 3] /\ InertialScript[Chunks + 5] = Upload[Chunks + 4]
    BY <1>1, <1>6
  <2> QED
    BY <1>1, <1>6, <1>8, <2>1, <2>2, UploadItems
<1>11. /\ Script[Chunks + 6] = "PWR_CTRL" /\ Script[Chunks + 7] = "ACC_CONF"
       /\ Script[Chunks + 8] = "ACC_RANGE" /\ Script[Chunks + 9] = "GYR_CONF"
       /\ Script[Chunks + 10] = "GYR_RANGE" /\ Script[Chunks + 11] = "PWR_CONF"
  BY <1>1, <1>2, <1>6, <1>8
<1>12. /\ Script[Chunks + 12] = "PRODUCT_ID" /\ Script[Chunks + 13] = "CONTROL_1_SOFT_RESET"
       /\ Script[Chunks + 14] = "CONTROL_1" /\ Script[Chunks + 15] = "CONTROL_0"
       /\ Script[Chunks + 16] = "CONTROL_2"
  BY <1>1, <1>7, <1>8
<1> QED
  BY <1>6, <1>8, <1>9, <1>10, <1>11, <1>12

-----------------------------------------------------------------------------
(* The step an item is at *)

LEMMA Places ==
    ASSUME NEW k \in 1..Len(Script)
    PROVE  \/ k \in {1, 2, 3} \/ k \in 4..Chunks + 3
           \/ k = Chunks + 4 \/ k = Chunks + 5 \/ k = Chunks + 6 \/ k = Chunks + 7
           \/ k = Chunks + 8 \/ k = Chunks + 9 \/ k = Chunks + 10 \/ k = Chunks + 11
           \/ k = Chunks + 12 \/ k = Chunks + 13 \/ k = Chunks + 14 \/ k = Chunks + 15
           \/ k = Chunks + 16
<1>1. Chunks \in Nat /\ Chunks > 0
  BY ChunksAssumption
<1> QED
  BY <1>1, ScriptItems

LEMMA StepOf ==
    ASSUME NEW k \in 1..Len(Script)
    PROVE  /\ Script[k] \in {"CMD_SOFT_RESET", "CONTROL_1_SOFT_RESET"}
              => k = Reset(Addressee(k))
           /\ Script[k] = "INIT_DATA" => k \in 4..Chunks + 3
           /\ Script[k] = "INTERNAL_STATUS" <=> k = Verdict
           /\ Script[k] = "CONTROL_2" <=> k = Len(Script)
           /\ Script[k] \in InertialItems <=> k \in Chunks + 6..Chunks + 11
           /\ Script[k] \in MagneticItems <=> k \in Chunks + 14..Chunks + 16
           /\ Addressee(k) = IF k <= Chunks + 11 THEN "inertial" ELSE "magnetic"
<1>1. Chunks \in Nat /\ Chunks > 0
  BY ChunksAssumption
<1>2. Addressee(k) = IF k <= Chunks + 11 THEN "inertial" ELSE "magnetic"
  BY ScriptItems DEF Addressee
<1>3. CASE k \in {1, 2, 3}
  BY <1>1, <1>2, <1>3, ScriptItems DEF Reset, Verdict, InertialItems, MagneticItems
<1>4. CASE k \in 4..Chunks + 3
  <2>1. Script[k] = "INIT_DATA" /\ k # Verdict /\ k # Len(Script)
        /\ ~(k \in Chunks + 6..Chunks + 11) /\ ~(k \in Chunks + 14..Chunks + 16)
    BY <1>1, <1>4, ScriptItems DEF Verdict
  <2> QED
    BY <1>2, <1>4, <2>1 DEF InertialItems, MagneticItems
<1>5. CASE k \in Chunks + 4..Chunks + 8
  <2>1. k = Chunks + 4 \/ k = Chunks + 5 \/ k = Chunks + 6 \/ k = Chunks + 7 \/ k = Chunks + 8
    BY <1>1, <1>5
  <2> QED
    BY <1>1, <1>2, <2>1, ScriptItems DEF Reset, Verdict, InertialItems, MagneticItems
<1>6. CASE k \in Chunks + 9..Chunks + 12
  <2>1. k = Chunks + 9 \/ k = Chunks + 10 \/ k = Chunks + 11 \/ k = Chunks + 12
    BY <1>1, <1>6
  <2> QED
    BY <1>1, <1>2, <2>1, ScriptItems DEF Reset, Verdict, InertialItems, MagneticItems
<1>7. CASE k \in Chunks + 13..Chunks + 16
  <2>1. k = Chunks + 13 \/ k = Chunks + 14 \/ k = Chunks + 15 \/ k = Chunks + 16
    BY <1>1, <1>7
  <2> QED
    BY <1>1, <1>2, <2>1, ScriptItems DEF Reset, Verdict, InertialItems, MagneticItems
<1> QED
  BY <1>1, <1>3, <1>4, <1>5, <1>6, <1>7, Places

\* Every setting is written at some step of its sensor, and but for the last one before it.
LEMMA SettingsAreWritten ==
    /\ \A item \in InertialItems :
           \E k \in 1..Len(Script) - 1 : Addressee(k) = "inertial" /\ Script[k] = item
    /\ \A item \in MagneticItems \ {"CONTROL_2"} :
           \E k \in 1..Len(Script) - 1 : Addressee(k) = "magnetic" /\ Script[k] = item
<1>1. Chunks \in Nat /\ Chunks > 0
  BY ChunksAssumption
<1>2. ASSUME NEW item \in InertialItems
      PROVE  \E k \in Chunks + 6..Chunks + 11 : Script[k] = item
  BY <1>1, ScriptItems DEF InertialItems
<1>3. ASSUME NEW item \in MagneticItems \ {"CONTROL_2"}
      PROVE  \E k \in Chunks + 14..Chunks + 15 : Script[k] = item
  BY <1>1, ScriptItems DEF MagneticItems
<1> QED
  BY <1>1, <1>2, <1>3, ScriptItems DEF Addressee

-----------------------------------------------------------------------------
(* The inductive invariant *)

\* A sensor that has not reset itself holds what the initialisation has written so far.
HeldInv ==
    pc = "init" =>
        \A s \in Sensor \ lost : \A k \in 1..step - 1 :
            Addressee(k) = s /\ Script[k] \in ItemsOf(Settings[s]) => Script[k] \in holds[s]

\* Past the verdict the image has been taken.
TakenInv == pc = "init" /\ step > Verdict /\ "inertial" \notin lost => "IMAGE" \in holds["inertial"]

\* A session has configured sensors, and readings of before a reset only of one that has
\* reset itself again without anybody noticing.
SessionInv ==
    pc \in Sensor => /\ \A s \in Sensor \ lost : Measures(s)
                     /\ stale \subseteq lost

\* The first half of a sample.
HalfInv == /\ pc = "magnetic" => read.measured \/ read.reset
           /\ read.stale => read.reset

StepInv == pc # "init" => step = 1

SampleInv == SamplesAreMeasured /\ FilterIsFresh

IInv == TypeOK /\ HeldInv /\ TakenInv /\ SessionInv /\ HalfInv /\ StepInv /\ SampleInv

-----------------------------------------------------------------------------
(* Type correctness *)

LEMMA Steps == Len(Script) \in Nat /\ Len(Script) > 1 /\ Verdict < Len(Script)
  BY ChunksAssumption, ScriptItems DEF Verdict

LEMMA ItemsAreItems == ASSUME NEW k \in 1..Len(Script) PROVE Script[k] \in ItemsOf(Script)
<1>1. DOMAIN Script = 1..Len(Script)
  BY ScriptItems, LenProperties
<1> QED
  BY <1>1 DEF ItemsOf

LEMMA InitTypes == Init => TypeOK
<1> SUFFICES ASSUME Init PROVE TypeOK
  OBVIOUS
<1>1. step \in 1..Len(Script)
  BY Steps DEF Init
<1>2. holds \in [Sensor -> SUBSET (ItemsOf(Script) \cup {"IMAGE"})]
  BY DEF Init, Nothing
<1>3. filter = NewFilter /\ NewFilter \in [folded : BOOLEAN, seeded : BOOLEAN, snapped : BOOLEAN, usable : BOOLEAN]
  BY DEF Init, NewFilter
<1>4. read = NoHalf /\ NoHalf \in [measured : BOOLEAN, stale : BOOLEAN, reset : BOOLEAN]
  BY DEF Init, NoHalf
<1> QED
  BY <1>1, <1>2, <1>3, <1>4 DEF Init, TypeOK, NoSample

\* A step of the initialisation that is not the last.
LEMMA AdvanceTypes ==
    ASSUME TypeOK, Advance, UNCHANGED board, Script[step] # "CONTROL_2",
           answers' \subseteq Sensor, lost' \subseteq Sensor, stale' \subseteq Sensor,
           image' \subseteq ImageAddresses,
           holds' \in [Sensor -> SUBSET (ItemsOf(Script) \cup {"IMAGE"})]
    PROVE  TypeOK'
<1>1. step' \in 1..Len(Script)
  BY Steps, StepOf DEF TypeOK, Advance
<1> QED
  BY <1>1 DEF TypeOK, Advance

LEMMA FailTypes == TypeOK /\ Fail /\ UNCHANGED board => TypeOK'
  BY Steps DEF TypeOK, Fail, part, NoHalf, NoSample

LEMMA NextTypes == TypeOK /\ [Next]_vars => TypeOK'
<1> SUFFICES ASSUME TypeOK, [Next]_vars PROVE TypeOK'
  OBVIOUS
<1>1. CASE BackoffElapses
  BY <1>1 DEF BackoffElapses, TypeOK, part
<1>2. CASE TransactionFails
  BY <1>2, FailTypes DEF TransactionFails
<1>3. CASE Probe
  BY <1>3, FailTypes DEF Probe, TypeOK, part
<1>4. CASE SoftReset
  <2>1. PICK s \in Sensor : /\ holds' = [holds EXCEPT ![s] = {}]
                            /\ image' = IF s = "inertial" THEN {} ELSE image
                            /\ lost' = lost \ {s}
    BY <1>4 DEF SoftReset, Sensor, Addressee
  <2>2. Script[step] # "CONTROL_2"
    BY <1>4 DEF SoftReset, Initialising
  <2>3. holds' \in [Sensor -> SUBSET (ItemsOf(Script) \cup {"IMAGE"})]
    BY <2>1 DEF TypeOK
  <2>4. image' \subseteq ImageAddresses /\ lost' \subseteq Sensor
    BY <2>1 DEF TypeOK
  <2> QED
    BY <1>4, <2>2, <2>3, <2>4, AdvanceTypes DEF SoftReset, Initialising, TypeOK
<1>5. CASE WriteRegister
  <2> DEFINE all == UNION {ItemsOf(Settings[s]) : s \in Sensor}
  <2>1. PICK op \in ItemsOf(UploadBegins) \cup (all \ {"CONTROL_2"}) :
               /\ Initialising(op)
               /\ holds' = [holds EXCEPT ![Addressee(step)] = @ \cup {op}]
    BY <1>5 DEF WriteRegister
  <2>5. op # "CONTROL_2" /\ op = Script[step] /\ UNCHANGED board
    <3> HIDE DEF all
    <3>1. CASE op \in ItemsOf(UploadBegins)
      <4>1. op \in {"POWER_SAVE_OFF", "INIT_CTRL_0"}
        BY <3>1, SettingsItems
      <4> QED
        BY <2>1, <4>1 DEF Initialising
    <3>2. CASE op # "CONTROL_2"
      BY <2>1, <3>2 DEF Initialising
    <3> QED
      BY <3>1, <3>2
  <2>2. op \in ItemsOf(Script) /\ Addressee(step) \in Sensor
    BY <2>5, ItemsAreItems DEF TypeOK, Addressee, Sensor
  <2>3. holds' \in [Sensor -> SUBSET (ItemsOf(Script) \cup {"IMAGE"})]
    BY <2>1, <2>2 DEF TypeOK
  <2> QED
    BY <1>5, <2>5, <2>3, AdvanceTypes DEF WriteRegister, TypeOK
<1>6. CASE UploadChunk
  <2>1. step \in 4..Chunks + 3 /\ Chunks \in Nat
    BY <1>6, StepOf, ChunksAssumption DEF UploadChunk, Initialising, TypeOK
  <2>2. step - FirstChunk \in 0..Chunks - 1
    BY <2>1 DEF FirstChunk
  <2>3. WrittenAt(InitAddr(step - FirstChunk)) \in ImageAddresses
    BY <2>2, ChunksLand DEF ImageAddresses
  <2>4. image' \subseteq ImageAddresses
    BY <1>6, <2>3 DEF UploadChunk, TypeOK
  <2> QED
    BY <1>6, <2>4, AdvanceTypes DEF UploadChunk, Initialising, TypeOK
<1>7. CASE FinishUpload
  <2>1. holds' \in [Sensor -> SUBSET (ItemsOf(Script) \cup {"IMAGE"})]
    BY <1>7 DEF FinishUpload, TypeOK, Sensor
  <2> QED
    BY <1>7, <2>1, AdvanceTypes DEF FinishUpload, Initialising, TypeOK
<1>8. CASE Check \/ Identify
  <2>1. CASE Fail
    BY <1>8, <2>1, FailTypes DEF Check, Identify, Initialising
  <2>2. CASE Advance /\ UNCHANGED part
    BY <1>8, <2>2, AdvanceTypes DEF Check, Identify, Initialising, TypeOK, part
  <2> QED
    BY <1>8, <2>1, <2>2 DEF Check, Identify
<1>9. CASE BeginSession
  <2>1. "CONTROL_2" \in ItemsOf(Script)
    BY <1>9, ItemsAreItems DEF BeginSession, Initialising, TypeOK
  <2>2. holds' \in [Sensor -> SUBSET (ItemsOf(Script) \cup {"IMAGE"})]
    BY <1>9, <2>1 DEF BeginSession, TypeOK, Sensor
  <2> QED
    BY <1>9, <2>2, Steps DEF BeginSession, Initialising, TypeOK, NewFilter
<1>10. CASE ReadInertial
  BY <1>10 DEF ReadInertial, Reading, TypeOK, part, Measures
<1>11. CASE ReadMagnetic
  BY <1>11 DEF ReadMagnetic, Reading, TypeOK, part, Measures, Update, NoHalf
<1>12. CASE FallSilent \/ Answer
  BY <1>12 DEF FallSilent, Answer, TypeOK, task
<1>13. ASSUME NEW s \in Sensor, ResetSensor(s) PROVE TypeOK'
  <2>1. holds' \in [Sensor -> SUBSET (ItemsOf(Script) \cup {"IMAGE"})]
    BY <1>13 DEF ResetSensor, TypeOK
  <2> QED
    BY <1>13, <2>1 DEF ResetSensor, TypeOK, task
<1>14. CASE UNCHANGED vars
  BY <1>14 DEF vars, task, part, TypeOK
<1> QED
  BY <1>1, <1>2, <1>3, <1>4, <1>5, <1>6, <1>7, <1>8, <1>9, <1>10, <1>11, <1>12, <1>13, <1>14
     DEF Next, Monitor

-----------------------------------------------------------------------------
(* The initialisation *)

\* What is left of the invariant while the initialisation is under way.
LEMMA InitialisingInv ==
    ASSUME IInv, pc = "init", pc' = "init", HeldInv', TakenInv', UNCHANGED <<read, sample>>
    PROVE  (HeldInv /\ TakenInv /\ SessionInv /\ HalfInv /\ StepInv /\ SampleInv)'
  BY DEF IInv, SessionInv, HalfInv, StepInv, SampleInv, Sensor,
         SamplesAreMeasured, FilterIsFresh

\* After a failure nothing is claimed of the sensors.
LEMMA FailInv ==
    ASSUME IInv, Fail
    PROVE  (HeldInv /\ TakenInv /\ SessionInv /\ HalfInv /\ StepInv /\ SampleInv)'
  BY DEF Fail, NoHalf, NoSample, HeldInv, TakenInv, SessionInv, HalfInv, StepInv, SampleInv,
         Sensor, SamplesAreMeasured, FilterIsFresh

\* A step that writes no setting, of a sensor that keeps what it holds.
LEMMA NoSettingInv ==
    ASSUME TypeOK, HeldInv, pc = "init", Advance, lost' = lost,
           \A s \in Sensor : Script[step] \notin ItemsOf(Settings[s]),
           \A s \in Sensor : holds[s] \subseteq holds'[s]
    PROVE  HeldInv'
<1>1. step \in Nat /\ step' = step + 1 /\ pc' = "init"
  BY Steps DEF TypeOK, Advance
<1>2. ASSUME NEW s \in Sensor \ lost, NEW k \in 1..step' - 1,
             Addressee(k) = s, Script[k] \in ItemsOf(Settings[s])
      PROVE  Script[k] \in holds'[s]
  <2>1. k # step
    BY <1>2
  <2>2. k \in 1..step - 1
    BY <1>1, <2>1
  <2> QED
    BY <1>2, <2>2 DEF HeldInv
<1> QED
  BY <1>2 DEF HeldInv

LEMMA SoftResetInv == IInv /\ SoftReset => (HeldInv /\ TakenInv)'
<1> SUFFICES ASSUME IInv, SoftReset PROVE (HeldInv /\ TakenInv)'
  OBVIOUS
<1> DEFINE s == Addressee(step)
<1>1. /\ pc = "init" /\ pc' = "init" /\ step \in 1..Len(Script) /\ step' = step + 1
      /\ Script[step] \in {"CMD_SOFT_RESET", "CONTROL_1_SOFT_RESET"}
      /\ s \in Sensor /\ lost' = lost \ {s} /\ holds \in [Sensor -> SUBSET (ItemsOf(Script) \cup {"IMAGE"})]
      /\ holds' = [holds EXCEPT ![s] = {}]
  BY DEF SoftReset, Initialising, Advance, IInv, TypeOK, Addressee, Sensor
<1>2. step = Reset(s) /\ Chunks \in Nat /\ Chunks > 0
  <2>1. step \in 1..Len(Script)
        /\ Script[step] \in {"CMD_SOFT_RESET", "CONTROL_1_SOFT_RESET"}
    BY <1>1
  <2>2. step = Reset(Addressee(step))
    BY <2>1, StepOf
  <2> QED
    BY <2>2, ChunksAssumption
<1>3. \A t \in Sensor \ {s} : holds'[t] = holds[t]
  BY <1>1
<1> HIDE DEF s
<1>4. ASSUME NEW t \in Sensor \ lost', NEW k \in 1..step' - 1,
             Addressee(k) = t, Script[k] \in ItemsOf(Settings[t])
      PROVE  Script[k] \in holds'[t]
  <2>1. k \in 1..Len(Script) /\ k <= step
    BY <1>1, Steps
  <2>2. t = "inertial" => k \in Chunks + 6..Chunks + 11
    BY <1>4, <2>1, StepOf, SettingsItems
  <2>3. t = "magnetic" => k \in Chunks + 14..Chunks + 16
    BY <1>4, <2>1, StepOf, SettingsItems
  <2>4. t # s
    BY <1>2, <2>1, <2>2, <2>3 DEF Reset, Sensor
  <2>5. k # step
    BY <1>2, <2>2, <2>3 DEF Reset, Sensor
  <2>6. t \in Sensor \ lost /\ k \in 1..step - 1
    BY <1>1, <2>1, <2>4, <2>5
  <2>7. Script[k] \in holds[t]
    BY <1>1, <1>4, <2>6 DEF IInv, HeldInv
  <2> QED
    BY <1>3, <2>4, <2>7
<1>5. TakenInv'
  <2>1. CASE s = "inertial"
    BY <1>1, <1>2, <2>1 DEF TakenInv, Reset, Verdict
  <2>2. CASE s = "magnetic"
    <3>1. holds'["inertial"] = holds["inertial"] /\ step > Verdict
      BY <1>2, <1>3, <2>2 DEF Reset, Verdict, Sensor
    <3> QED
      BY <1>1, <2>2, <3>1 DEF IInv, TakenInv
  <2> QED
    BY <1>1, <2>1, <2>2 DEF Sensor
<1> QED
  BY <1>4, <1>5 DEF HeldInv

LEMMA WriteRegisterInv == IInv /\ WriteRegister => (HeldInv /\ TakenInv)'
<1> SUFFICES ASSUME IInv, WriteRegister PROVE (HeldInv /\ TakenInv)'
  OBVIOUS
<1> DEFINE s == Addressee(step)
<1>1. /\ pc = "init" /\ pc' = "init" /\ step \in 1..Len(Script) /\ step' = step + 1
      /\ lost' = lost /\ holds' = [holds EXCEPT ![s] = @ \cup {Script[step]}]
  BY DEF WriteRegister, Initialising, Advance, IInv, TypeOK
<1>2. s \in Sensor /\ holds \in [Sensor -> SUBSET (ItemsOf(Script) \cup {"IMAGE"})]
  BY DEF IInv, TypeOK, Addressee, Sensor
<1> HIDE DEF s
<1>3. /\ \A t \in Sensor : holds[t] \subseteq holds'[t]
      /\ Script[step] \in holds'[s]
  BY <1>1, <1>2
<1>4. ASSUME NEW t \in Sensor \ lost', NEW k \in 1..step' - 1,
             Addressee(k) = t, Script[k] \in ItemsOf(Settings[t])
      PROVE  Script[k] \in holds'[t]
  <2>1. CASE k = step
    BY <1>3, <1>4, <2>1 DEF s
  <2>2. CASE k # step
    <3>1. k \in 1..step - 1
      BY <1>1, <2>2
    <3> QED
      BY <1>1, <1>3, <1>4, <3>1 DEF IInv, HeldInv
  <2> QED
    BY <2>1, <2>2
<1>5. TakenInv'
  <2>1. step # Verdict
    <3>1. PICK op \in ItemsOf(UploadBegins)
                      \cup ((UNION {ItemsOf(Settings[t]) : t \in Sensor}) \ {"CONTROL_2"}) :
                 op = Script[step]
      BY DEF WriteRegister, Initialising
    <3>2. op \in {"POWER_SAVE_OFF", "INIT_CTRL_0"} \cup InertialItems \cup MagneticItems
      BY <3>1, SettingsItems DEF Sensor
    <3> QED
      BY <1>1, <3>1, <3>2, StepOf DEF InertialItems, MagneticItems
  <2>2. step' > Verdict => step > Verdict
    BY <1>1, <2>1, Steps, ChunksAssumption DEF Verdict
  <2> QED
    BY <1>1, <1>3, <2>2 DEF IInv, TakenInv, Sensor
<1> QED
  BY <1>4, <1>5 DEF HeldInv

LEMMA FinishUploadInv == IInv /\ FinishUpload => (HeldInv /\ TakenInv)'
<1> SUFFICES ASSUME IInv, FinishUpload PROVE (HeldInv /\ TakenInv)'
  OBVIOUS
<1>1. /\ pc = "init" /\ pc' = "init" /\ step \in 1..Len(Script) /\ step' = step + 1
      /\ lost' = lost /\ Script[step] = "INIT_CTRL_1"
      /\ \/ holds' = holds
         \/ holds' = [holds EXCEPT !["inertial"] = @ \cup {"IMAGE"}]
  BY DEF FinishUpload, Initialising, Advance, IInv, TypeOK
<1>2. \A t \in Sensor : holds[t] \subseteq holds'[t]
  BY <1>1 DEF IInv, TypeOK, Sensor
<1>3. \A t \in Sensor : Script[step] \notin ItemsOf(Settings[t])
  BY <1>1, SettingsItems DEF Sensor, InertialItems, MagneticItems
<1>4. HeldInv'
  BY <1>1, <1>2, <1>3, NoSettingInv DEF IInv, FinishUpload, Advance
<1>5. TakenInv'
  <2>1. step # Verdict
    BY <1>1, StepOf
  <2>2. step' > Verdict => step > Verdict
    BY <1>1, <2>1, Steps, ChunksAssumption DEF Verdict
  <2> QED
    BY <1>1, <1>2, <2>2 DEF IInv, TakenInv, Sensor
<1> QED
  BY <1>4, <1>5

\* Steps that leave what the sensors hold alone.
LEMMA OtherStepInv ==
    ASSUME IInv, pc = "init", Advance, UNCHANGED <<holds, lost>>,
           Script[step] \in {"INIT_DATA", "INTERNAL_STATUS", "PRODUCT_ID"},
           Script[step] = "INTERNAL_STATUS" => "IMAGE" \in holds["inertial"]
    PROVE  (HeldInv /\ TakenInv)'
<1>1. step \in 1..Len(Script) /\ step' = step + 1 /\ pc' = "init"
  BY DEF IInv, TypeOK, Advance
<1>2. \A t \in Sensor : Script[step] \notin ItemsOf(Settings[t])
  BY SettingsItems DEF Sensor, InertialItems, MagneticItems
<1>3. HeldInv'
  BY <1>1, <1>2, NoSettingInv DEF IInv
<1>4. CASE step = Verdict
  <2>1. "IMAGE" \in holds["inertial"]
    BY <1>1, <1>4, StepOf
  <2> QED
    BY <1>3, <2>1 DEF TakenInv
<1>5. CASE step # Verdict
  <2>1. step \in Nat /\ Verdict \in Nat /\ step' = step + 1
    <3>1. Len(Script) \in Nat
      BY Steps
    <3>2. Verdict \in Nat
      BY ChunksAssumption DEF Verdict
    <3> QED
      BY <1>1, <3>1, <3>2
  <2>2. step' > Verdict => step > Verdict
    BY <1>5, <2>1
  <2> QED
    BY <1>1, <1>3, <2>2 DEF IInv, TakenInv
<1> QED
  BY <1>4, <1>5

-----------------------------------------------------------------------------
(* The session *)

\* The last setting is written, and the sensors measure.
LEMMA BeginSessionInv ==
    IInv /\ BeginSession
    => (HeldInv /\ TakenInv /\ SessionInv /\ HalfInv /\ StepInv /\ SampleInv)'
<1> SUFFICES ASSUME IInv, BeginSession
             PROVE  (HeldInv /\ TakenInv /\ SessionInv /\ HalfInv /\ StepInv /\ SampleInv)'
  OBVIOUS
<1>1. /\ pc = "init" /\ pc' = "inertial" /\ step' = 1 /\ stale' = {} /\ lost' = lost
      /\ step \in 1..Len(Script) /\ Script[step] = "CONTROL_2"
      /\ holds' = [holds EXCEPT !["magnetic"] = @ \cup {"CONTROL_2"}]
      /\ UNCHANGED <<read, sample>>
  BY DEF BeginSession, Initialising, IInv, TypeOK
<1>2. step = Len(Script) /\ step > Verdict
  BY <1>1, StepOf, Steps
<1>3. \A t \in Sensor : holds[t] \subseteq holds'[t]
  BY <1>1 DEF IInv, TypeOK, Sensor
<1>4. "CONTROL_2" \in holds'["magnetic"]
  BY <1>1 DEF IInv, TypeOK, Sensor
<1>5. ASSUME "inertial" \notin lost PROVE Configuration("inertial") \subseteq holds'["inertial"]
  <2>1. ASSUME NEW item \in InertialItems PROVE item \in holds["inertial"]
    <3>1. PICK k \in 1..Len(Script) - 1 : Addressee(k) = "inertial" /\ Script[k] = item
      BY SettingsAreWritten
    <3> QED
      BY <1>1, <1>2, <1>5, <3>1, SettingsItems DEF IInv, HeldInv, Sensor
  <2>2. "IMAGE" \in holds["inertial"]
    BY <1>1, <1>2, <1>5 DEF IInv, TakenInv
  <2> QED
    BY <1>3, <2>1, <2>2, SettingsItems DEF Configuration, Sensor
<1>6. ASSUME "magnetic" \notin lost PROVE Configuration("magnetic") \subseteq holds'["magnetic"]
  <2>1. ASSUME NEW item \in MagneticItems \ {"CONTROL_2"} PROVE item \in holds["magnetic"]
    <3>1. PICK k \in 1..Len(Script) - 1 : Addressee(k) = "magnetic" /\ Script[k] = item
      BY SettingsAreWritten
    <3> QED
      BY <1>1, <1>2, <1>6, <3>1, SettingsItems DEF IInv, HeldInv, Sensor
  <2> QED
    BY <1>3, <1>4, <2>1, SettingsItems DEF Configuration, Sensor
<1>7. SessionInv'
  BY <1>1, <1>5, <1>6 DEF SessionInv, Measures, Sensor
<1> QED
  BY <1>1, <1>7 DEF IInv, HeldInv, TakenInv, HalfInv, StepInv, SampleInv,
                    SamplesAreMeasured, FilterIsFresh

\* What a sensor in a session gives is measured, or it has reset itself.
LEMMA ReadInertialInv ==
    IInv /\ ReadInertial
    => (HeldInv /\ TakenInv /\ SessionInv /\ HalfInv /\ StepInv /\ SampleInv)'
<1> SUFFICES ASSUME IInv, ReadInertial
             PROVE  (HeldInv /\ TakenInv /\ SessionInv /\ HalfInv /\ StepInv /\ SampleInv)'
  OBVIOUS
<1>1. /\ pc = "inertial" /\ pc' = "magnetic" /\ UNCHANGED <<step, sample, part>>
      /\ read' = [measured |-> Measures("inertial"),
                  stale    |-> "inertial" \in stale,
                  reset    |-> "inertial" \in lost]
  BY DEF ReadInertial, Reading
<1>2. ("inertial" \notin lost => Measures("inertial")) /\ stale \subseteq lost
  BY <1>1 DEF IInv, SessionInv, Sensor
<1>3. HalfInv'
  BY <1>1, <1>2 DEF HalfInv
<1>4. SessionInv'
  BY <1>1 DEF IInv, SessionInv, Sensor, part, Measures
<1> QED
  BY <1>1, <1>3, <1>4 DEF IInv, HeldInv, TakenInv, StepInv, SampleInv,
                          SamplesAreMeasured, FilterIsFresh

LEMMA ReadMagneticInv ==
    IInv /\ ReadMagnetic
    => (HeldInv /\ TakenInv /\ SessionInv /\ HalfInv /\ StepInv /\ SampleInv)'
<1> SUFFICES ASSUME IInv, ReadMagnetic
             PROVE  (HeldInv /\ TakenInv /\ SessionInv /\ HalfInv /\ StepInv /\ SampleInv)'
  OBVIOUS
<1>1. /\ pc = "magnetic" /\ pc' = "inertial" /\ UNCHANGED <<step, part>>
      /\ read' = NoHalf
      /\ sample' = [measured |-> read.measured /\ Measures("magnetic"),
                    stale    |-> read.stale \/ "magnetic" \in stale,
                    reset    |-> read.reset \/ "magnetic" \in lost,
                    heading  |-> filter'.usable]
  BY DEF ReadMagnetic, Reading
<1>2. ("magnetic" \notin lost => Measures("magnetic")) /\ stale \subseteq lost
  BY <1>1 DEF IInv, SessionInv, Sensor
<1>3. (read.measured \/ read.reset) /\ (read.stale => read.reset)
  BY <1>1 DEF IInv, HalfInv
<1>4. SamplesAreMeasured' /\ FilterIsFresh'
  BY <1>1, <1>2, <1>3 DEF SamplesAreMeasured, FilterIsFresh
<1>5. SessionInv'
  BY <1>1 DEF IInv, SessionInv, Sensor, part, Measures
<1> QED
  BY <1>1, <1>4, <1>5 DEF IInv, HeldInv, TakenInv, HalfInv, NoHalf, StepInv, SampleInv

\* The sensors: one that resets itself is lost before anybody reads it.
LEMMA SensorsInv ==
    IInv /\ (FallSilent \/ Answer \/ \E s \in Sensor : ResetSensor(s))
    => (HeldInv /\ TakenInv /\ SessionInv /\ HalfInv /\ StepInv /\ SampleInv)'
<1> SUFFICES ASSUME IInv, FallSilent \/ Answer \/ \E s \in Sensor : ResetSensor(s)
             PROVE  (HeldInv /\ TakenInv /\ SessionInv /\ HalfInv /\ StepInv /\ SampleInv)'
  OBVIOUS
<1>1. (HalfInv /\ StepInv /\ SampleInv)'
  BY DEF FallSilent, Answer, ResetSensor, task, IInv, HalfInv, StepInv, SampleInv,
         SamplesAreMeasured, FilterIsFresh
<1>2. CASE FallSilent \/ Answer
  BY <1>1, <1>2 DEF FallSilent, Answer, task, IInv, HeldInv, TakenInv, SessionInv, Measures
<1>3. ASSUME NEW s \in Sensor, ResetSensor(s) PROVE (HeldInv /\ TakenInv /\ SessionInv)'
  <2>1. /\ UNCHANGED task /\ lost' = lost \cup {s} /\ stale' \subseteq stale \cup {s}
        /\ \A t \in Sensor \ {s} : holds'[t] = holds[t]
    BY <1>3 DEF ResetSensor, IInv, TypeOK
  <2>2. \A t \in Sensor \ lost' : t \in Sensor \ lost /\ holds'[t] = holds[t]
    BY <2>1
  <2>3. HeldInv'
    BY <2>1, <2>2 DEF IInv, HeldInv, task
  <2>4. TakenInv'
    BY <2>1, <2>2 DEF IInv, TakenInv, task, Sensor
  <2>5. SessionInv'
    BY <2>1, <2>2 DEF IInv, SessionInv, task, Measures
  <2> QED
    BY <2>3, <2>4, <2>5
<1> QED
  BY <1>1, <1>2, <1>3

-----------------------------------------------------------------------------
(* The theorems *)

LEMMA InitInv == Init => IInv
<1> SUFFICES ASSUME Init PROVE IInv
  OBVIOUS
<1>1. TypeOK
  BY InitTypes
<1> QED
  BY <1>1 DEF Init, NoHalf, NoSample, IInv, HeldInv, TakenInv, SessionInv, HalfInv, StepInv,
              SampleInv, Sensor, SamplesAreMeasured, FilterIsFresh

LEMMA NextInv == IInv /\ [Next]_vars => IInv'
<1> SUFFICES ASSUME IInv, [Next]_vars
             PROVE  (HeldInv /\ TakenInv /\ SessionInv /\ HalfInv /\ StepInv /\ SampleInv)'
  BY NextTypes DEF IInv
<1>1. CASE BackoffElapses
  BY <1>1 DEF BackoffElapses, IInv, HeldInv, TakenInv, SessionInv, HalfInv, StepInv, SampleInv,
              Sensor, SamplesAreMeasured, FilterIsFresh
<1>2. CASE TransactionFails
  BY <1>2, FailInv DEF TransactionFails
<1>3. CASE Probe
  <2>1. CASE Fail
    BY <2>1, FailInv
  <2>2. CASE pc' \in {"init", "secondary"} /\ UNCHANGED <<step, read, filter, sample, part>>
    <3>1. step = 1
      BY <1>3 DEF Probe, IInv, StepInv
    <3> QED
      BY <2>2, <3>1, ChunksAssumption
         DEF IInv, HeldInv, TakenInv, SessionInv, HalfInv, StepInv, SampleInv, Sensor, Verdict,
             SamplesAreMeasured, FilterIsFresh
  <2> QED
    BY <1>3, <2>1, <2>2 DEF Probe
<1>4. CASE SoftReset
  BY <1>4, SoftResetInv, InitialisingInv DEF SoftReset, Initialising, Advance
<1>5. CASE WriteRegister
  BY <1>5, WriteRegisterInv, InitialisingInv DEF WriteRegister, Initialising, Advance
<1>6. CASE UploadChunk
  BY <1>6, OtherStepInv, InitialisingInv DEF UploadChunk, Initialising, Advance
<1>7. CASE FinishUpload
  BY <1>7, FinishUploadInv, InitialisingInv DEF FinishUpload, Initialising, Advance
<1>8. CASE Check \/ Identify
  <2>1. CASE Fail
    BY <2>1, FailInv
  <2>2. CASE ~Fail
    <3>1. /\ pc = "init" /\ Advance /\ UNCHANGED part
          /\ Script[step] \in {"INTERNAL_STATUS", "PRODUCT_ID"}
          /\ Script[step] = "INTERNAL_STATUS" => "IMAGE" \in holds["inertial"]
      BY <1>8, <2>2 DEF Check, Identify, Initialising
    <3> QED
      BY <3>1, OtherStepInv, InitialisingInv DEF Advance, part
  <2> QED
    BY <2>1, <2>2
<1>9. CASE BeginSession
  BY <1>9, BeginSessionInv
<1>10. CASE ReadInertial
  BY <1>10, ReadInertialInv
<1>11. CASE ReadMagnetic
  BY <1>11, ReadMagneticInv
<1>12. CASE FallSilent \/ Answer \/ \E s \in Sensor : ResetSensor(s)
  BY <1>12, SensorsInv
<1>13. CASE UNCHANGED vars
  BY <1>13 DEF vars, task, part, IInv, HeldInv, TakenInv, SessionInv, HalfInv, StepInv,
               SampleInv, Measures, SamplesAreMeasured, FilterIsFresh
<1> QED
  BY <1>1, <1>2, <1>3, <1>4, <1>5, <1>6, <1>7, <1>8, <1>9, <1>10, <1>11, <1>12, <1>13
     DEF Next, Monitor

THEOREM Invariance == Spec => []IInv
<1> QED
  BY InitInv, NextInv, PTL DEF Spec

\* bmi270.rs, lines 171-211, with mmc5983ma.rs, lines 85-106: the initialisation stays
\* within its steps and the image within its addresses.
THEOREM TypeCorrect == Spec => []TypeOK
<1>1. IInv => TypeOK
  BY DEF IInv
<1> QED
  BY <1>1, Invariance, PTL

\* imu_monitor.rs, lines 70-79: a sample comes from registers that were configured, unless
\* a sensor has reset itself since; for an image of any number of chunks.
THEOREM SamplesMeasured == Spec => []SamplesAreMeasured
<1>1. IInv => SamplesAreMeasured
  BY DEF IInv, SampleInv
<1> QED
  BY <1>1, Invariance, PTL

\* data/imu.rs, lines 211-213: a filter holds readings of before a reset only if the
\* sensor reset itself and answered again within one session.
THEOREM FilterFresh == Spec => []FilterIsFresh
<1>1. IInv => FilterIsFresh
  BY DEF IInv, SampleInv
<1> QED
  BY <1>1, Invariance, PTL

-----------------------------------------------------------------------------
(* Angles: folded once is enough wherever the filter folds one *)

Fold(a)  == IF a < 0 THEN a + 36000 ELSE IF a < 36000 THEN a ELSE a - 36000
Short(d) == IF d < -18000 THEN d + 36000 ELSE IF d < 18000 THEN d ELSE d - 36000

LEMMA IsAngle ==
    ASSUME NEW a \in Int, 0 <= a, a < 36000 PROVE a \in Angle
<1>1. FullTurn \in Int /\ a <= FullTurn - 1
  BY DEF FullTurn
<1> QED
  BY <1>1 DEF Angle

LEMMA AngleIs ==
    ASSUME NEW a \in Angle PROVE a \in Int /\ 0 <= a /\ a < 36000
<1>1. FullTurn - 1 \in Nat
  BY DEF FullTurn
<1>2. a \in Nat /\ a <= FullTurn - 1
  BY <1>1 DEF Angle
<1> QED
  BY <1>2 DEF FullTurn

LEMMA FoldBelow == ASSUME NEW a \in Int, -36000 <= a, a < 0 PROVE a % 36000 = a + 36000
  OBVIOUS

LEMMA FoldWithin == ASSUME NEW a \in Int, 0 <= a, a < 36000 PROVE a % 36000 = a
  OBVIOUS

LEMMA FoldAbove == ASSUME NEW a \in Int, 36000 <= a, a < 72000 PROVE a % 36000 = a - 36000
  OBVIOUS

LEMMA Wrap360Folds ==
    ASSUME NEW a \in Int, -36000 <= a, a < 72000 PROVE Wrap360(a) = Fold(a)
<1>1. Wrap360(a) = a % 36000
  BY DEF Wrap360, FullTurn
<1>2. CASE a < 0
  BY <1>1, <1>2, FoldBelow DEF Fold
<1>3. CASE 0 <= a /\ a < 36000
  BY <1>1, <1>3, FoldWithin DEF Fold
<1>4. CASE 36000 <= a
  BY <1>1, <1>4, FoldAbove DEF Fold
<1> QED
  BY <1>2, <1>3, <1>4

\* imu.rs, lines 675-682: the difference of two directions is folded to the shorter way
\* round, half a turn at most.
LEMMA Wrap180Shortens ==
    ASSUME NEW d \in Int, -36000 < d, d < 36000
    PROVE  Wrap180(d) = Short(d) /\ Short(d) \in Int /\ -18000 <= Short(d) /\ Short(d) < 18000
<1>1. Wrap360(d) = Fold(d)
  BY Wrap360Folds
<1>2. Wrap180(d) = IF Fold(d) >= 18000 THEN Fold(d) - 36000 ELSE Fold(d)
  BY <1>1 DEF Wrap180, HalfTurn, FullTurn
<1> QED
  BY <1>2 DEF Fold, Short

Between(s, e) == (0 <= s /\ s <= e) \/ (e <= s /\ s <= 0)

LEMMA Leaves ==
    ASSUME NEW target \in Int, 0 <= target, target < 36000,
           NEW from \in Int, 0 <= from, from < 36000,
           NEW s \in Int, Between(s, Short(target - from))
    PROVE  /\ -36000 <= from + s /\ from + s < 72000
           /\ 0 <= Fold(from + s) /\ Fold(from + s) < 36000
           /\ Short(target - Fold(from + s)) = Short(target - from) - s
  BY DEF Between, Short, Fold

\* The error that is left once an angle has moved by s toward its target.
LEMMA ErrorLeft ==
    ASSUME NEW target \in Angle, NEW from \in Angle, NEW s \in Int,
           Between(s, Wrap180(target - from))
    PROVE  /\ Wrap360(from + s) \in Angle
           /\ Wrap180(target - Wrap360(from + s)) = Wrap180(target - from) - s
<1>1. /\ target \in Int /\ 0 <= target /\ target < 36000
      /\ from \in Int /\ 0 <= from /\ from < 36000
  BY AngleIs
<1>2. Wrap180(target - from) = Short(target - from)
  BY <1>1, Wrap180Shortens
<1>3. /\ -36000 <= from + s /\ from + s < 72000
      /\ 0 <= Fold(from + s) /\ Fold(from + s) < 36000
      /\ Short(target - Fold(from + s)) = Short(target - from) - s
  BY <1>1, <1>2, Leaves
<1>4. from + s \in Int
  BY <1>1
<1>5. Wrap360(from + s) = Fold(from + s) /\ Fold(from + s) \in Int
  BY <1>1, <1>3, <1>4, Wrap360Folds DEF Fold
<1>6. Wrap180(target - Fold(from + s)) = Short(target - Fold(from + s))
  BY <1>1, <1>3, <1>5, Wrap180Shortens
<1>7. Wrap360(from + s) \in Angle
  BY <1>3, <1>5, IsAngle
<1> QED
  BY <1>2, <1>3, <1>5, <1>6, <1>7

-----------------------------------------------------------------------------
(* A step that is a part of what is left *)

LEMMA Shrinks ==
    ASSUME NEW s \in Int, NEW e \in Int, Between(s, e)
    PROVE  Between(e - s, e) /\ Magnitude(e - s) <= Magnitude(e)
  BY DEF Between, Magnitude

LEMMA Product ==
    ASSUME NEW x \in Nat, NEW ms \in Timestep
    PROVE  x * ms \in Nat /\ x * ms <= 200 * x
<1>1. ms \in Nat /\ ms <= 200
  BY DEF Timestep, MinTimestep, MaxTimestep
<1> QED
  BY <1>1

LEMMA SweptBetween ==
    ASSUME NEW rate \in Int, NEW e \in Int, Between(rate, e), NEW ms \in Timestep
    PROVE  Swept(rate, ms) \in Int /\ Between(Swept(rate, ms), e)
<1>0. CASE rate = 0
  <2>1. Swept(rate, ms) = 0 \div 1000
    BY <1>0 DEF Swept, Timestep, MinTimestep, MaxTimestep
  <2>2. 0 \div 1000 = 0
    OBVIOUS
  <2> QED
    BY <2>1, <2>2 DEF Between
<1>1. CASE 0 < rate
  <2>1. rate \in Nat /\ rate <= e
    BY <1>1 DEF Between
  <2>2. rate * ms \in Nat /\ rate * ms <= 200 * rate
    BY <2>1, Product
  <2>3. ASSUME NEW p \in Nat, p <= 200 * rate
        PROVE  p \div 1000 \in Int /\ 0 <= p \div 1000 /\ p \div 1000 <= e
    BY <2>1, <2>3
  <2> QED
    BY <2>2, <2>3 DEF Swept, Between
<1>2. CASE rate < 0
  <2>1. -rate \in Nat /\ e <= rate
    BY <1>2 DEF Between
  <2>2. (-rate) * ms \in Nat /\ (-rate) * ms <= 200 * (-rate)
    BY <2>1, Product
  <2>3. ms \in Int
    BY DEF Timestep, MinTimestep, MaxTimestep
  <2>4. rate * ms = -((-rate) * ms)
    BY <2>3
  <2>5. ASSUME NEW p \in Nat, p <= 200 * (-rate)
        PROVE  (-p) \div 1000 \in Int /\ (-p) \div 1000 <= 0 /\ e <= (-p) \div 1000
    BY <2>1, <2>5, <1>2
  <2> QED
    BY <2>2, <2>4, <2>5 DEF Swept, Between
<1> QED
  BY <1>0, <1>1, <1>2

\* A blend goes a part of the way.
LEMMA TowardBetween ==
    ASSUME NEW gap \in Int, NEW tau \in Nat, NEW ms \in Timestep
    PROVE  Toward(gap, tau, ms) \in Int /\ Between(Toward(gap, tau, ms), gap)
<1>1. ms \in Nat /\ ms >= 1
  BY DEF Timestep, MinTimestep, MaxTimestep
<1>2. ASSUME NEW g \in Nat
      PROVE  (g * ms) \div (tau + ms) \in Nat /\ (g * ms) \div (tau + ms) <= g
  <2> DEFINE w == tau + ms
             q == (g * ms) \div w
  <2>1. w \in Nat /\ w >= 1 /\ ms <= w
    BY <1>1
  <2>2. g * ms \in Nat /\ g * ms <= g * w
    BY <1>1, <2>1
  <2>3. ASSUME NEW n \in Nat, NEW d \in Nat, d >= 1, n <= g * d
        PROVE  n \div d \in Nat /\ n \div d <= g
    BY <2>3
  <2> HIDE DEF w
  <2> QED
    BY <2>1, <2>2, <2>3 DEF w
<1>3. CASE gap >= 0
  BY <1>2, <1>3 DEF Toward, Between
<1>4. CASE gap < 0
  <2>1. -gap \in Nat
    BY <1>4
  <2>2. ((-gap) * ms) \div (tau + ms) \in Nat /\ ((-gap) * ms) \div (tau + ms) <= -gap
    BY <2>1, <1>2
  <2>3. Toward(gap, tau, ms) = -(((-gap) * ms) \div (tau + ms))
    BY <1>4 DEF Toward
  <2> QED
    BY <2>2, <2>3 DEF Between
<1> QED
  BY <1>3, <1>4

-----------------------------------------------------------------------------
(* The filter *)

\* imu.rs, lines 550-563: what a low-pass gives lies between what it gave last and the
\* sample, so no filtered axis ever shows a value beyond those that were measured.
THEOREM LowPassStaysBetween ==
    ASSUME NEW state \in Int, NEW latest \in Int, NEW tau \in Nat, NEW ms \in Timestep
    PROVE  LET next == LowPass(state, latest, tau, ms)
           IN  (state <= next /\ next <= latest) \/ (latest <= next /\ next <= state)
<1>1. state # None
  BY NoneAssumption
<1>2. LowPass(state, latest, tau, ms) = state + Toward(latest - state, tau, ms)
  BY <1>1 DEF LowPass
<1>3. latest - state \in Int
  OBVIOUS
<1>4. Toward(latest - state, tau, ms) \in Int
      /\ Between(Toward(latest - state, tau, ms), latest - state)
  BY <1>3, TowardBetween
<1> QED
  BY <1>2, <1>4 DEF Between

\* imu.rs, lines 254-259: a board that is still stays so while its offset is learned, and
\* what is left of the offset never grows nor changes its sign.
THEOREM StillStaysStill ==
    ASSUME NEW bias \in Int, NEW rate \in Int, NEW ms \in Timestep,
           IsStationary(rate - bias, TRUE)
    PROVE  LET next == UpdateBias(bias, rate, TRUE, ms)
           IN  /\ IsStationary(rate - next, TRUE)
               /\ Between(rate - next, rate - bias)
<1> DEFINE gap == rate - bias
           t == Toward(gap, BiasTau, ms)
<1>1. gap \in Int /\ BiasTau \in Nat
  BY DEF BiasTau
<1>2. t \in Int /\ Between(t, gap)
  <2> HIDE DEF gap
  <2> QED
    BY <1>1, TowardBetween
<1>3. UpdateBias(bias, rate, TRUE, ms) = bias + t
  BY DEF UpdateBias
<1> HIDE DEF t
<1>4. rate - (bias + t) = gap - t
  BY <1>2
<1> HIDE DEF gap
<1>5. Between(gap - t, gap) /\ Magnitude(gap - t) <= Magnitude(gap)
  BY <1>1, <1>2, Shrinks
<1>6. Magnitude(gap) < StillRate
  BY DEF IsStationary, gap
<1>7. Magnitude(gap) \in Int /\ Magnitude(gap - t) \in Int /\ StillRate \in Int
  BY <1>1, <1>2 DEF Magnitude, StillRate
<1>8. Magnitude(gap - t) < StillRate
  BY <1>5, <1>6, <1>7
<1> QED
  BY <1>3, <1>4, <1>5, <1>8 DEF IsStationary, gap

LEMMA PullBetween ==
    ASSUME NEW e \in Int, Magnitude(e) <= RightAngle
    PROVE  Pull[e] \in Int /\ Between(Pull[e], e)
<1>1. CASE e = 0
  BY <1>1, PullAssumption DEF Between
<1>2. CASE e > 0
  <2>1. e \in 1..RightAngle
    <3>1. Magnitude(e) = e /\ RightAngle \in Int
      BY <1>2 DEF Magnitude, RightAngle
    <3> QED
      BY <1>2, <3>1
  <2>2. Pull[e] \in 1..e
    BY <2>1, PullAssumption
  <2> QED
    BY <2>2 DEF Between
<1>3. CASE e < 0
  <2>1. -e \in 1..RightAngle /\ -(-e) = e
    BY <1>3 DEF Magnitude, RightAngle
  <2>2. Pull[e] \in -(-e)..-1
    BY <2>1, PullAssumption
  <2>3. Pull[e] \in e..-1
    BY <2>1, <2>2
  <2> QED
    BY <2>3, <1>3 DEF Between
<1> QED
  BY <1>1, <1>2, <1>3

\* What the update makes of a seeded attitude, coordinate by coordinate.
LEMMA Updated ==
    ASSUME NEW a \in Attitude, a.seeded, NEW r \in Readings, NEW ms \in Timestep
    PROVE  LET next == UpdateAttitude(a, r, ms)
               start == SnapHeading(a, r)
           IN  /\ start \in Attitude /\ start.seeded /\ start.tilt = a.tilt
               /\ start.heading \in {a.heading, r.north} \ {None}
               /\ IF IsOverturned(a, r)
                  THEN next.tilt = r.up /\ next.heading = start.heading
                  ELSE /\ next.tilt = Wrap360(a.tilt + Swept(r.rate + GravityCorrection(a, r), ms))
                       /\ next.heading =
                              Wrap360(start.heading + Swept(r.turn + HeadingCorrection(start, r), ms))
<1> DEFINE start == SnapHeading(a, r)
<1>1. r.north \in Angle \cup {None} /\ r.up \in Angle \cup {None}
  BY DEF Readings
<1>2. a.heading \in Angle /\ a.heading # None
  <2>1. a.heading \in Angle
    BY DEF Attitude
  <2> QED
    BY <2>1, AngleIs, NoneAssumption
<1>3. /\ start \in Attitude /\ start.seeded /\ start.tilt = a.tilt
      /\ start.heading \in {a.heading, r.north} \ {None}
  BY <1>1, <1>2 DEF SnapHeading, Attitude
<1> HIDE DEF start
<1>4. IsOverturned(start, r) = IsOverturned(a, r) /\ GravityCorrection(start, r) = GravityCorrection(a, r)
  BY <1>3 DEF IsOverturned, GravityCorrection, TiltError
<1>5. UpdateAttitude(a, r, ms) =
          IF IsOverturned(a, r) THEN [start EXCEPT !.tilt = r.up] ELSE Integrated(start, r, ms)
  BY <1>4 DEF UpdateAttitude, start
<1>6. CASE IsOverturned(a, r)
  <2>1. UpdateAttitude(a, r, ms) = [start EXCEPT !.tilt = r.up]
    BY <1>5, <1>6
  <2> QED
    BY <2>1, <1>3, <1>6 DEF Attitude, start
<1>7. CASE ~IsOverturned(a, r)
  <2>1. UpdateAttitude(a, r, ms) = Integrated(start, r, ms)
    BY <1>5, <1>7
  <2>2. /\ Integrated(start, r, ms).tilt =
               Wrap360(start.tilt + Swept(r.rate + GravityCorrection(start, r), ms))
        /\ Integrated(start, r, ms).heading =
               Wrap360(start.heading + Swept(r.turn + HeadingCorrection(start, r), ms))
    BY <1>3 DEF Integrated, Attitude
  <2> QED
    BY <2>1, <2>2, <1>3, <1>4, <1>7 DEF start
<1> QED
  BY <1>6, <1>7

LEMMA Difference ==
    ASSUME NEW target \in Angle, NEW from \in Angle
    PROVE  Wrap180(target - from) \in Int
<1>1. target - from \in Int /\ -36000 < target - from /\ target - from < 36000
  BY AngleIs
<1> QED
  BY <1>1, Wrap180Shortens

\* imu.rs, lines 347-378: the tilt of a board at rest goes to what gravity says, at once if
\* it is out by more than a right angle: no attitude but the true one is a resting place,
\* and none is left for one that is further out or on the other side.
THEOREM TiltFindsGravity ==
    ASSUME NEW a \in Attitude, a.seeded, NEW r \in Readings, r.up # None, r.rate = 0,
           NEW ms \in Timestep
    PROVE  LET next == UpdateAttitude(a, r, ms)
           IN  /\ next.tilt \in Angle
               /\ IF IsOverturned(a, r) THEN next.tilt = r.up
                  ELSE /\ Between(TiltError(next, r), TiltError(a, r))
                       /\ Magnitude(TiltError(next, r)) <= Magnitude(TiltError(a, r))
<1> DEFINE next == UpdateAttitude(a, r, ms)
           e == TiltError(a, r)
           s == Swept(Pull[e], ms)
<1>1. r.up \in Angle /\ a.tilt \in Angle
  BY DEF Readings, Attitude
<1>2. CASE IsOverturned(a, r)
  BY <1>1, <1>2, Updated
<1>3. CASE ~IsOverturned(a, r)
  <2>1. e \in Int /\ e = Wrap180(r.up - a.tilt)
    BY <1>1, Difference DEF TiltError
  <2>2. ~(Magnitude(e) > RightAngle) /\ GravityCorrection(a, r) = Pull[e]
    BY <1>3 DEF IsOverturned, GravityCorrection
  <2>3. next.tilt = Wrap360(a.tilt + Swept(r.rate + Pull[e], ms))
    BY <1>3, <2>2, Updated
  <2> HIDE DEF e, next
  <2>4. Magnitude(e) <= RightAngle
    BY <2>1, <2>2 DEF Magnitude, RightAngle
  <2>5. Pull[e] \in Int /\ Between(Pull[e], e)
    BY <2>1, <2>4, PullBetween
  <2>6. next.tilt = Wrap360(a.tilt + s)
    BY <2>3, <2>5
  <2>7. s \in Int /\ Between(s, e)
    BY <2>1, <2>5, SweptBetween
  <2> HIDE DEF s
  <2>8. next.tilt \in Angle /\ Wrap180(r.up - next.tilt) = e - s
    BY <1>1, <2>1, <2>6, <2>7, ErrorLeft
  <2>9. Between(e - s, e) /\ Magnitude(e - s) <= Magnitude(e)
    BY <2>1, <2>7, Shrinks
  <2> QED
    BY <1>3, <2>8, <2>9 DEF TiltError, e, next
<1> QED
  BY <1>2, <1>3

LEMMA TenthBetween ==
    ASSUME NEW e \in Int PROVE e \div 10 \in Int /\ Between(e \div 10, e)
  BY DEF Between

\* imu.rs, lines 334-342 and 380-394: the heading of a board that does not turn goes the
\* shorter way round to the magnetic one and never past it, or there at once when there
\* has been no such reference before.
THEOREM HeadingFindsNorth ==
    ASSUME NEW a \in Attitude, a.seeded, NEW r \in Readings, r.north # None, r.turn = 0,
           NEW ms \in Timestep
    PROVE  LET next == UpdateAttitude(a, r, ms)
           IN  /\ next.heading \in Angle
               /\ Between(HeadingError(next, r), HeadingError(a, r))
               /\ Magnitude(HeadingError(next, r)) <= Magnitude(HeadingError(a, r))
<1> DEFINE next == UpdateAttitude(a, r, ms)
           start == SnapHeading(a, r)
           e == HeadingError(start, r)
           whole == HeadingError(a, r)
           s == Swept(e \div 10, ms)
<1>1. r.north \in Angle /\ a.heading \in Angle
  BY DEF Readings, Attitude
<1>2. start.heading = a.heading \/ start.heading = r.north
  BY Updated
<1>3. start.heading \in Angle
  BY <1>1, <1>2
<1>4. whole \in Int /\ e \in Int /\ e = Wrap180(r.north - start.heading)
  BY <1>1, <1>3, Difference DEF HeadingError
<1>5. e = whole \/ e = 0
  <2>1. CASE start.heading = a.heading
    BY <2>1 DEF HeadingError
  <2>2. CASE start.heading = r.north
    <3>1. r.north - r.north = 0
      BY <1>1, AngleIs
    <3>2. Wrap180(0) = Short(0)
      BY Wrap180Shortens
    <3> QED
      BY <2>2, <3>1, <3>2 DEF HeadingError, Short
  <2> QED
    BY <1>2, <2>1, <2>2
<1>6. \E t \in Int : /\ Between(t, e)
                     /\ next.heading \in Angle
                     /\ Wrap180(r.north - next.heading) = e - t
  <2>1. CASE IsOverturned(a, r)
    <3>1. next.heading = start.heading
      BY <2>1, Updated
    <3>2. Wrap180(r.north - next.heading) = e - 0 /\ Between(0, e)
      BY <3>1, <1>4 DEF Between
    <3> QED
      BY <3>1, <3>2, <1>3
  <2>2. CASE ~IsOverturned(a, r)
    <3>1. next.heading = Wrap360(start.heading + Swept(r.turn + HeadingCorrection(start, r), ms))
      BY <2>2, Updated
    <3>2. HeadingCorrection(start, r) = e \div 10
      BY DEF HeadingCorrection, HeadingTau
    <3> HIDE DEF e, next, start
    <3>3. e \div 10 \in Int /\ Between(e \div 10, e)
      BY <1>4, TenthBetween
    <3>4. next.heading = Wrap360(start.heading + s)
      BY <3>1, <3>2, <3>3
    <3>5. s \in Int /\ Between(s, e)
      BY <1>4, <3>3, SweptBetween
    <3> HIDE DEF s
    <3>6. next.heading \in Angle /\ Wrap180(r.north - next.heading) = e - s
      BY <1>1, <1>3, <1>4, <3>4, <3>5, ErrorLeft
    <3> QED
      BY <3>5, <3>6
  <2> QED
    BY <2>1, <2>2
<1> HIDE DEF e, next, whole
<1>7. PICK t \in Int : /\ Between(t, e) /\ next.heading \in Angle
                       /\ Wrap180(r.north - next.heading) = e - t
  BY <1>6
<1>8. Between(e - t, whole) /\ Magnitude(e - t) <= Magnitude(whole)
  <2>1. CASE e = whole
    BY <1>4, <1>7, <2>1, Shrinks
  <2>2. CASE e = 0
    BY <1>4, <1>7, <2>2 DEF Between, Magnitude
  <2> QED
    BY <1>5, <2>1, <2>2
<1> QED
  BY <1>7, <1>8 DEF HeadingError, next, whole

-----------------------------------------------------------------------------
(* Any number of updates *)

LEMMA Turns ==
    ASSUME NEW a \in Int PROVE Wrap360(a) \in Angle
<1>1. a % 36000 \in Int /\ 0 <= a % 36000 /\ a % 36000 < 36000  OBVIOUS
<1> QED  BY <1>1, IsAngle DEF Wrap360, FullTurn

\* A sample later the error has the drift on top, less what was corrected, as long as that
\* is not as much as half a turn.
LEMMA Lands ==
    ASSUME NEW target \in Int, 0 <= target, target < 36000,
           NEW from \in Int, 0 <= from, from < 36000,
           NEW s \in Int, -18000 < Short(target - from) - s, Short(target - from) - s < 18000
    PROVE  /\ -36000 <= from + s /\ from + s < 72000
           /\ 0 <= Fold(from + s) /\ Fold(from + s) < 36000
           /\ Short(target - Fold(from + s)) = Short(target - from) - s
  BY DEF Short, Fold

LEMMA ErrorMoves ==
    ASSUME NEW target \in Angle, NEW from \in Angle, NEW s \in Int,
           -18000 < Wrap180(target - from) - s, Wrap180(target - from) - s < 18000
    PROVE  /\ Wrap360(from + s) \in Angle
           /\ Wrap180(target - Wrap360(from + s)) = Wrap180(target - from) - s
<1>1. /\ target \in Int /\ 0 <= target /\ target < 36000
      /\ from \in Int /\ 0 <= from /\ from < 36000
  BY AngleIs
<1>2. Wrap180(target - from) = Short(target - from)
  BY <1>1, Wrap180Shortens
<1>3. /\ -36000 <= from + s /\ from + s < 72000
      /\ 0 <= Fold(from + s) /\ Fold(from + s) < 36000
      /\ Short(target - Fold(from + s)) = Short(target - from) - s
  BY <1>1, <1>2, Lands
<1>4. from + s \in Int
  BY <1>1
<1>5. Wrap360(from + s) = Fold(from + s) /\ Fold(from + s) \in Int
  BY <1>1, <1>3, <1>4, Wrap360Folds DEF Fold
<1>6. Wrap180(target - Fold(from + s)) = Short(target - Fold(from + s))
  BY <1>1, <1>3, <1>5, Wrap180Shortens
<1>7. Wrap360(from + s) \in Angle
  BY <1>3, <1>5, IsAngle
<1> QED
  BY <1>2, <1>3, <1>5, <1>6, <1>7

\* A sample lasts a fifth of a second at most.
LEMMA SweptIs ==
    ASSUME NEW rate \in Int, NEW ms \in Timestep
    PROVE  /\ Swept(rate, ms) \in Int
           /\ rate >= 0 => 0 <= Swept(rate, ms) /\ 5 * Swept(rate, ms) <= rate
           /\ rate <= 0 => Swept(rate, ms) <= 0 /\ rate - 4 <= 5 * Swept(rate, ms)
<1>1. ms \in Int  BY DEF Timestep, MinTimestep, MaxTimestep
<1>2. CASE rate >= 0
  <2>1. rate * ms \in Nat /\ rate * ms <= 200 * rate  BY <1>2, Product
  <2>2. ASSUME NEW p \in Nat, p <= 200 * rate
        PROVE  p \div 1000 \in Int /\ 0 <= p \div 1000 /\ 5 * (p \div 1000) <= rate
    BY <1>2, <2>2
  <2>3. ASSUME NEW p \in Nat, p <= 200 * rate, rate = 0 PROVE p \div 1000 = 0
    BY <2>3
  <2> QED  BY <2>1, <2>2, <2>3 DEF Swept
<1>3. CASE rate < 0
  <2>1. (-rate) * ms \in Nat /\ (-rate) * ms <= 200 * (-rate)  BY <1>3, Product
  <2>2. rate * ms = -((-rate) * ms)  BY <1>1
  <2>3. ASSUME NEW p \in Nat, p <= 200 * (-rate)
        PROVE  (-p) \div 1000 \in Int /\ (-p) \div 1000 <= 0 /\ rate - 4 <= 5 * ((-p) \div 1000)
    BY <1>3, <2>3
  <2> QED  BY <1>3, <2>1, <2>2, <2>3 DEF Swept
<1> QED  BY <1>2, <1>3

LEMMA HeadingBalance ==
    ASSUME NEW b \in Nat, NEW B \in Nat, 10 * b <= B, NEW e \in Int, -B <= e, e <= B,
           NEW turn \in Int, -b <= turn, turn <= b, NEW ms \in Timestep
    PROVE  /\ Swept(turn + (e \div 10), ms) \in Int
           /\ -B <= e - Swept(turn + (e \div 10), ms) /\ e - Swept(turn + (e \div 10), ms) <= B
<1> DEFINE c == e \div 10
           w == turn + c
           s == Swept(w, ms)
<1>1. c \in Int /\ 10 * c <= e /\ e <= 10 * c + 9  OBVIOUS
<1> HIDE DEF c
<1>2. w \in Int  BY <1>1
<1>3. /\ s \in Int
      /\ w >= 0 => 0 <= s /\ 5 * s <= w
      /\ w <= 0 => s <= 0 /\ w - 4 <= 5 * s
  BY <1>2, SweptIs
<1> HIDE DEF s
<1>4. w >= 0 => -B <= e - s /\ e - s <= B  BY <1>1, <1>3
<1>5. w < 0 => -B <= e - s /\ e - s <= B  BY <1>1, <1>3
<1> QED  BY <1>2, <1>3, <1>4, <1>5 DEF s, c

\* A seeded attitude stays one.
LEMMA UpdateTypes ==
    ASSUME NEW a \in Attitude, a.seeded, NEW r \in Readings, NEW ms \in Timestep
    PROVE  UpdateAttitude(a, r, ms) \in Attitude /\ UpdateAttitude(a, r, ms).seeded
<1> DEFINE start == SnapHeading(a, r)
<1>1. start \in Attitude /\ start.seeded  BY Updated
<1>2. UpdateAttitude(a, r, ms) =
          IF IsOverturned(start, r) THEN [start EXCEPT !.tilt = r.up] ELSE Integrated(start, r, ms)
  BY DEF UpdateAttitude
<1> HIDE DEF start
<1>3. CASE IsOverturned(start, r)
  <2>1. r.up \in Angle  BY <1>3 DEF IsOverturned, Readings
  <2> QED  BY <1>1, <1>2, <1>3, <2>1 DEF Attitude
<1>4. CASE ~IsOverturned(start, r)
  <2>1. start.tilt + Swept(r.rate + GravityCorrection(start, r), ms) \in Int
        /\ start.heading + Swept(r.turn + HeadingCorrection(start, r), ms) \in Int
    <3>1. /\ r.up \in Angle \cup {None} /\ r.north \in Angle \cup {None}
          /\ r.rate \in Int /\ r.turn \in Int /\ start.tilt \in Angle /\ start.heading \in Angle
      BY <1>1 DEF Readings, Attitude
    <3>2. GravityCorrection(start, r) \in Int
      <4>1. CASE r.up = None  BY <4>1 DEF GravityCorrection
      <4>2. CASE r.up # None
        <5>1. TiltError(start, r) \in Int  BY <3>1, <4>2, Difference DEF TiltError
        <5>2. Magnitude(TiltError(start, r)) <= RightAngle
          BY <1>4, <4>2, <5>1 DEF IsOverturned, Magnitude, RightAngle
        <5> QED  BY <4>2, <5>1, <5>2, PullBetween DEF GravityCorrection
      <4> QED  BY <4>1, <4>2
    <3>3. HeadingCorrection(start, r) \in Int
      <4>1. CASE r.north = None  BY <4>1 DEF HeadingCorrection
      <4>2. CASE r.north # None
        <5>1. HeadingError(start, r) \in Int  BY <3>1, <4>2, Difference DEF HeadingError
        <5> QED  BY <4>2, <5>1, TenthBetween DEF HeadingCorrection, HeadingTau
      <4> QED  BY <4>1, <4>2
    <3>4. r.rate + GravityCorrection(start, r) \in Int /\ r.turn + HeadingCorrection(start, r) \in Int
      BY <3>1, <3>2, <3>3
    <3>5. /\ Swept(r.rate + GravityCorrection(start, r), ms) \in Int
          /\ Swept(r.turn + HeadingCorrection(start, r), ms) \in Int
      BY <3>4, SweptIs
    <3> QED  BY <3>1, <3>5, AngleIs
  <2> DEFINE tilt == Wrap360(start.tilt + Swept(r.rate + GravityCorrection(start, r), ms))
             heading == Wrap360(start.heading + Swept(r.turn + HeadingCorrection(start, r), ms))
  <2>2. tilt \in Angle /\ heading \in Angle  BY <2>1, Turns
  <2>3. UpdateAttitude(a, r, ms) = [start EXCEPT !.tilt = tilt, !.heading = heading]
    BY <1>1, <1>2, <1>4 DEF Integrated, Attitude
  <2> HIDE DEF tilt, heading
  <2> QED  BY <1>1, <2>2, <2>3 DEF Attitude
<1> QED  BY <1>3, <1>4

\* Gyroscope drift of at most b, in hundredths of a degree per second, is held where the
\* magnetometer pulls as hard: HEADING_CORRECTION_TAU_S seconds of it.
LEMMA HeadingHeld ==
    ASSUME NEW a \in Attitude, a.seeded, NEW r \in Readings, r.north # None, NEW ms \in Timestep,
           NEW b \in Nat, NEW B \in Nat, HeadingTau * b <= B, B < HalfTurn,
           Magnitude(r.turn) <= b, Magnitude(HeadingError(a, r)) <= B
    PROVE  Magnitude(HeadingError(UpdateAttitude(a, r, ms), r)) <= B
<1> DEFINE next == UpdateAttitude(a, r, ms)
           start == SnapHeading(a, r)
           e == HeadingError(start, r)
           s == Swept(r.turn + (e \div 10), ms)
<1>1. r.north \in Angle /\ a.heading \in Angle /\ r.turn \in Int
  BY DEF Readings, Attitude
<1>2. start.heading = a.heading \/ start.heading = r.north
  BY Updated
<1>3. start.heading \in Angle
  BY <1>1, <1>2
<1>4. HeadingError(a, r) \in Int /\ e \in Int /\ e = Wrap180(r.north - start.heading)
  BY <1>1, <1>3, Difference DEF HeadingError
<1>5. e = HeadingError(a, r) \/ e = 0
  <2>1. CASE start.heading = a.heading
    BY <2>1 DEF HeadingError
  <2>2. CASE start.heading = r.north
    <3>1. r.north - r.north = 0
      BY <1>1, AngleIs
    <3>2. Wrap180(0) = Short(0)
      BY Wrap180Shortens
    <3> QED
      BY <2>2, <3>1, <3>2 DEF HeadingError, Short
  <2> QED
    BY <1>2, <2>1, <2>2
<1>6. -B <= e /\ e <= B /\ -b <= r.turn /\ r.turn <= b /\ 10 * b <= B /\ B < 18000
  <2> HIDE DEF e
  <2> QED  BY <1>1, <1>4, <1>5 DEF Magnitude, HeadingTau, HalfTurn
<1>7. CASE IsOverturned(a, r)
  <2>1. next.heading = start.heading  BY <1>7, Updated
  <2>2. HeadingError(next, r) = e  BY <2>1 DEF HeadingError
  <2> HIDE DEF e, next
  <2> QED  BY <1>4, <1>6, <2>2 DEF Magnitude, next
<1>8. CASE ~IsOverturned(a, r)
  <2>1. next.heading = Wrap360(start.heading + Swept(r.turn + HeadingCorrection(start, r), ms))
    BY <1>8, Updated
  <2>2. HeadingCorrection(start, r) = e \div 10
    BY DEF HeadingCorrection, HeadingTau
  <2>3. next.heading = Wrap360(start.heading + s)  BY <2>1, <2>2
  <2> HIDE DEF e, next, start
  <2>4. s \in Int /\ -B <= e - s /\ e - s <= B  BY <1>1, <1>4, <1>6, HeadingBalance
  <2> HIDE DEF s
  <2>5. -18000 < e - s /\ e - s < 18000  BY <1>4, <1>6, <2>4
  <2>6. Wrap180(r.north - next.heading) = e - s
    BY <1>1, <1>3, <1>4, <2>3, <2>4, <2>5, ErrorMoves
  <2> QED  BY <1>4, <2>4, <2>6 DEF HeadingError, Magnitude, next
<1> QED  BY <1>7, <1>8

\* Attitudes one after another, from the updates of ImuFilter::update.
Updates(a, r, ms) ==
    \A n \in Nat :
        r[n] \in Readings /\ ms[n] \in Timestep /\ a[n + 1] = UpdateAttitude(a[n], r[n], ms[n])

LEMMA SeededThroughout ==
    ASSUME NEW a, NEW r, NEW ms, Updates(a, r, ms), a[0] \in Attitude, a[0].seeded
    PROVE  \A n \in Nat : a[n] \in Attitude /\ a[n].seeded
<1> DEFINE S == {n \in Nat : a[n] \in Attitude /\ a[n].seeded}
<1>1. 0 \in S  OBVIOUS
<1>2. ASSUME NEW n \in Nat, n \in S PROVE n + 1 \in S
  <2>1. n + 1 \in Nat /\ a[n + 1] = UpdateAttitude(a[n], r[n], ms[n])
        /\ r[n] \in Readings /\ ms[n] \in Timestep
    BY DEF Updates
  <2>2. a[n] \in Attitude /\ a[n].seeded  BY <1>2
  <2> QED  BY <2>1, <2>2, UpdateTypes
<1>3. Nat \subseteq S
  <2> HIDE DEF S
  <2> QED  BY <1>1, <1>2, NatSetInduction
<1> QED  BY <1>3

\* imu.rs, lines 302-312: "Integrating the gyroscope alone drifts without bound": with the
\* magnetometer it does not.  Whatever drift of at most b the gyroscope shows from sample to
\* sample, and after any number of them, a board that does not turn keeps its heading
\* within the ten seconds of that drift, or within what it was out by before.
THEOREM HeadingDriftIsBounded ==
    ASSUME NEW a, NEW r, NEW ms, Updates(a, r, ms), a[0] \in Attitude, a[0].seeded,
           NEW north \in Angle, NEW b \in Nat, NEW B \in Nat, HeadingTau * b <= B, B < HalfTurn,
           \A n \in Nat : r[n].north = north /\ Magnitude(r[n].turn) <= b,
           Magnitude(Wrap180(north - a[0].heading)) <= B
    PROVE  \A n \in Nat : Magnitude(Wrap180(north - a[n].heading)) <= B
<1> DEFINE S == {n \in Nat : Magnitude(Wrap180(north - a[n].heading)) <= B}
<1>1. 0 \in S  OBVIOUS
<1>2. ASSUME NEW n \in Nat, n \in S PROVE n + 1 \in S
  <2>1. n + 1 \in Nat /\ a[n + 1] = UpdateAttitude(a[n], r[n], ms[n])
        /\ r[n] \in Readings /\ ms[n] \in Timestep
    BY DEF Updates
  <2>2. a[n] \in Attitude /\ a[n].seeded  BY SeededThroughout
  <2>3. r[n].north = north /\ r[n].north # None /\ Magnitude(r[n].turn) <= b
    <3>1. north # None  BY AngleIs, NoneAssumption
    <3> QED  BY <3>1
  <2>4. Magnitude(HeadingError(a[n], r[n])) <= B  BY <1>2, <2>3 DEF HeadingError
  <2>5. Magnitude(HeadingError(a[n + 1], r[n])) <= B
    BY <2>1, <2>2, <2>3, <2>4, HeadingHeld
  <2> QED  BY <2>1, <2>3, <2>5 DEF HeadingError
<1>3. Nat \subseteq S
  <2> HIDE DEF S
  <2> QED  BY <1>1, <1>2, NatSetInduction
<1> QED  BY <1>3

LEMMA TiltBalance ==
    ASSUME NEW b \in Nat, NEW x \in Nat, NEW B \in Nat, 5 * x + b <= 5 * B,
           NEW e \in Int, -B <= e, e <= B, NEW p \in Int, Between(p, e),
           e >= x => p >= b, e <= -x => p <= -b,
           NEW rate \in Int, -b <= rate, rate <= b, NEW ms \in Timestep
    PROVE  /\ Swept(rate + p, ms) \in Int
           /\ -B <= e - Swept(rate + p, ms) /\ e - Swept(rate + p, ms) <= B
<1> DEFINE w == rate + p
           s == Swept(w, ms)
<1>1. w \in Int  OBVIOUS
<1>2. /\ s \in Int
      /\ w >= 0 => 0 <= s /\ 5 * s <= w
      /\ w <= 0 => s <= 0 /\ w - 4 <= 5 * s
  BY <1>1, SweptIs
<1> HIDE DEF s
<1>3. (e >= 0 => 0 <= p /\ p <= e) /\ (e <= 0 => e <= p /\ p <= 0)  BY DEF Between
<1>4. w >= 0 => -B <= e - s /\ e - s <= B  BY <1>2, <1>3
<1>5. w < 0 => -B <= e - s /\ e - s <= B  BY <1>2, <1>3
<1> QED  BY <1>1, <1>2, <1>4, <1>5 DEF s

LEMMA TiltHeld ==
    ASSUME NEW a \in Attitude, a.seeded, NEW r \in Readings, r.up # None, NEW ms \in Timestep,
           NEW b \in Nat, NEW x \in Nat, NEW B \in Nat, 5 * x + b <= 5 * B, B <= RightAngle,
           \A e \in Int : x <= e /\ e <= RightAngle => Pull[e] >= b /\ Pull[-e] <= -b,
           Magnitude(r.rate) <= b, Magnitude(TiltError(a, r)) <= B
    PROVE  Magnitude(TiltError(UpdateAttitude(a, r, ms), r)) <= B
<1> DEFINE next == UpdateAttitude(a, r, ms)
           e == TiltError(a, r)
           s == Swept(r.rate + Pull[e], ms)
<1>1. r.up \in Angle /\ a.tilt \in Angle /\ r.rate \in Int
  BY DEF Readings, Attitude
<1>2. e \in Int /\ e = Wrap180(r.up - a.tilt)
  BY <1>1, Difference DEF TiltError
<1>3. /\ -B <= e /\ e <= B /\ -b <= r.rate /\ r.rate <= b /\ B <= 9000 /\ RightAngle = 9000
      /\ Magnitude(e) <= RightAngle
  <2> HIDE DEF e
  <2> QED  BY <1>1, <1>2 DEF Magnitude, RightAngle, e
<1>4. ~IsOverturned(a, r)
  <2>1. Magnitude(e) \in Int
    <3> HIDE DEF e
    <3> QED  BY <1>2 DEF Magnitude
  <2> QED  BY <1>3, <2>1 DEF IsOverturned
<1>5. GravityCorrection(a, r) = Pull[e]
  BY DEF GravityCorrection
<1>6. next.tilt = Wrap360(a.tilt + s)
  BY <1>4, <1>5, Updated
<1> HIDE DEF e, next
<1>7. Pull[e] \in Int /\ Between(Pull[e], e)
  BY <1>2, <1>3, PullBetween
<1>8. (e >= x => Pull[e] >= b) /\ (e <= -x => Pull[e] <= -b)
  <2>1. ASSUME e <= -x PROVE Pull[e] <= -b
    <3>1. -e \in Int /\ x <= -e /\ -e <= RightAngle /\ -(-e) = e  BY <1>2, <1>3, <2>1
    <3> QED  BY <3>1
  <2>2. e >= x => Pull[e] >= b  BY <1>2, <1>3
  <2> QED  BY <2>1, <2>2
<1>9. s \in Int /\ -B <= e - s /\ e - s <= B
  <2> DEFINE p == Pull[e]  rate == r.rate
  <2>1. /\ p \in Int /\ Between(p, e) /\ (e >= x => p >= b) /\ (e <= -x => p <= -b)
        /\ rate \in Int /\ -b <= rate /\ rate <= b
    BY <1>1, <1>3, <1>7, <1>8
  <2> HIDE DEF p, rate
  <2>2. /\ Swept(rate + p, ms) \in Int
        /\ -B <= e - Swept(rate + p, ms) /\ e - Swept(rate + p, ms) <= B
    <3>1. e \in Int /\ -B <= e /\ e <= B  BY <1>2, <1>3
    <3> QED  BY <2>1, <3>1, TiltBalance, Zenon
  <2> QED  BY <2>2 DEF p, rate
<1> HIDE DEF s
<1>10. -18000 < e - s /\ e - s < 18000
  BY <1>2, <1>3, <1>9
<1>11. Wrap180(r.up - next.tilt) = e - s
  BY <1>1, <1>2, <1>6, <1>9, <1>10, ErrorMoves
<1> QED  BY <1>2, <1>9, <1>11 DEF TiltError, Magnitude, next

\* imu.rs, lines 302-312 and 355-378: nor does the tilt drift: where gravity pulls back at
\* least as hard from x on as the gyroscope drifts, the tilt of a board that lies still stays
\* within x and a sample's drift, so it is never taken for overturned.
THEOREM TiltDriftIsBounded ==
    ASSUME NEW a, NEW r, NEW ms, Updates(a, r, ms), a[0] \in Attitude, a[0].seeded,
           NEW up \in Angle, NEW b \in Nat, NEW x \in Nat, NEW B \in Nat,
           5 * x + b <= 5 * B, B <= RightAngle,
           \A e \in Int : x <= e /\ e <= RightAngle => Pull[e] >= b /\ Pull[-e] <= -b,
           \A n \in Nat : r[n].up = up /\ Magnitude(r[n].rate) <= b,
           Magnitude(Wrap180(up - a[0].tilt)) <= B
    PROVE  \A n \in Nat : Magnitude(Wrap180(up - a[n].tilt)) <= B
<1> DEFINE S == {n \in Nat : Magnitude(Wrap180(up - a[n].tilt)) <= B}
<1>1. 0 \in S  OBVIOUS
<1>2. ASSUME NEW n \in Nat, n \in S PROVE n + 1 \in S
  <2>1. n + 1 \in Nat /\ a[n + 1] = UpdateAttitude(a[n], r[n], ms[n])
        /\ r[n] \in Readings /\ ms[n] \in Timestep
    BY DEF Updates
  <2>2. a[n] \in Attitude /\ a[n].seeded  BY SeededThroughout
  <2>3. r[n].up = up /\ r[n].up # None /\ Magnitude(r[n].rate) <= b
    <3>1. up # None  BY AngleIs, NoneAssumption
    <3> QED  BY <3>1
  <2>4. Magnitude(TiltError(a[n], r[n])) <= B  BY <1>2, <2>3 DEF TiltError
  <2>5. Magnitude(TiltError(a[n + 1], r[n])) <= B
    BY <2>1, <2>2, <2>3, <2>4, TiltHeld
  <2> QED  BY <2>1, <2>3, <2>5 DEF TiltError
<1>3. Nat \subseteq S
  <2> HIDE DEF S
  <2> QED  BY <1>1, <1>2, NatSetInduction
<1> QED  BY <1>3

\* imu.rs, lines 550-563: however many samples a low-pass has taken, and of whatever
\* timesteps, what it gives lies within the range of what was measured.
THEOREM LowPassKeepsRange ==
    ASSUME NEW state, NEW latest, NEW ms, NEW tau \in Nat, NEW lo \in Int, NEW hi \in Int,
           state[0] = None,
           \A n \in Nat : /\ latest[n] \in Int /\ lo <= latest[n] /\ latest[n] <= hi /\ ms[n] \in Timestep
                         /\ state[n + 1] = LowPass(state[n], latest[n], tau, ms[n])
    PROVE  \A n \in Nat : state[n + 1] \in Int /\ lo <= state[n + 1] /\ state[n + 1] <= hi
<1> DEFINE S == {n \in Nat : state[n + 1] \in Int /\ lo <= state[n + 1] /\ state[n + 1] <= hi}
<1>1. 0 \in S
  <2>1. state[0 + 1] = LowPass(state[0], latest[0], tau, ms[0]) /\ lo <= latest[0] /\ latest[0] <= hi
        /\ latest[0] \in Int
    OBVIOUS
  <2>2. LowPass(state[0], latest[0], tau, ms[0]) = latest[0]  BY DEF LowPass
  <2> QED  BY <2>1, <2>2
<1>2. ASSUME NEW n \in Nat, n \in S PROVE n + 1 \in S
  <2> DEFINE m == n + 1
  <2>1. m \in Nat /\ state[m] \in Int /\ lo <= state[m] /\ state[m] <= hi  BY <1>2
  <2> HIDE DEF m
  <2>2. /\ latest[m] \in Int /\ lo <= latest[m] /\ latest[m] <= hi /\ ms[m] \in Timestep
        /\ state[m + 1] = LowPass(state[m], latest[m], tau, ms[m])
    BY <2>1
  <2>3. state[m] # None  BY <2>1, NoneAssumption
  <2>4. state[m + 1] = state[m] + Toward(latest[m] - state[m], tau, ms[m])
    BY <2>2, <2>3 DEF LowPass
  <2>5. Toward(latest[m] - state[m], tau, ms[m]) \in Int
        /\ Between(Toward(latest[m] - state[m], tau, ms[m]), latest[m] - state[m])
    <3>1. latest[m] - state[m] \in Int  BY <2>1, <2>2
    <3> QED  BY <2>2, <3>1, TowardBetween
  <2>6. state[m + 1] \in Int /\ lo <= state[m + 1] /\ state[m + 1] <= hi
    BY <2>1, <2>2, <2>4, <2>5 DEF Between
  <2>7. n + 1 = m  BY DEF m
  <2> QED  BY <2>1, <2>6, <2>7
<1>3. Nat \subseteq S
  <2> HIDE DEF S
  <2> QED  BY <1>1, <1>2, NatSetInduction
<1> QED  BY <1>3

\* imu.rs, lines 254-259: over any number of samples of a still board the offset that is
\* left never grows nor changes its sign if it is below STILL_RATE_DPS to begin with, and
\* is never touched if it is not: a larger one is a turn for good.
THEOREM OffsetLearned ==
    ASSUME NEW bias, NEW quiet, NEW ms, NEW offset \in Int, bias[0] \in Int,
           \A n \in Nat : /\ quiet[n] \in BOOLEAN /\ ms[n] \in Timestep
                         /\ bias[n + 1] = UpdateBias(bias[n], offset, quiet[n], ms[n])
    PROVE  \A n \in Nat :
               IF IsStationary(offset - bias[0], TRUE)
               THEN IsStationary(offset - bias[n], TRUE) /\ Between(offset - bias[n], offset - bias[0])
               ELSE bias[n] = bias[0]
<1>1. CASE IsStationary(offset - bias[0], TRUE)
  <2> DEFINE S == {n \in Nat : /\ bias[n] \in Int /\ IsStationary(offset - bias[n], TRUE)
                               /\ Between(offset - bias[n], offset - bias[0])}
  <2>1. 0 \in S
    <3>1. Between(offset - bias[0], offset - bias[0])  BY DEF Between
    <3> QED  BY <1>1, <3>1
  <2>2. ASSUME NEW n \in Nat, n \in S PROVE n + 1 \in S
    <3>1. /\ n + 1 \in Nat /\ bias[n + 1] = UpdateBias(bias[n], offset, quiet[n], ms[n])
          /\ quiet[n] \in BOOLEAN /\ ms[n] \in Timestep
      OBVIOUS
    <3>2. /\ bias[n] \in Int /\ IsStationary(offset - bias[n], TRUE)
          /\ Between(offset - bias[n], offset - bias[0])
      BY <2>2
    <3>3. CASE quiet[n] = FALSE
      <4>1. bias[n + 1] = bias[n]  BY <3>1, <3>3 DEF UpdateBias, IsStationary
      <4> QED  BY <3>1, <3>2, <4>1
    <3>4. CASE quiet[n] = TRUE
      <4>1. /\ IsStationary(offset - bias[n + 1], TRUE)
            /\ Between(offset - bias[n + 1], offset - bias[n])
        BY <3>1, <3>2, <3>4, StillStaysStill
      <4>2. bias[n + 1] \in Int
        <5>1. bias[n + 1] = bias[n] + Toward(offset - bias[n], BiasTau, ms[n])
          BY <3>1, <3>2, <3>4 DEF UpdateBias
        <5>2. offset - bias[n] \in Int /\ BiasTau \in Nat  BY <3>2 DEF BiasTau
        <5>3. Toward(offset - bias[n], BiasTau, ms[n]) \in Int  BY <3>1, <5>2, TowardBetween
        <5> QED  BY <3>2, <5>1, <5>3
      <4>3. Between(offset - bias[n + 1], offset - bias[0])  BY <3>2, <4>1, <4>2 DEF Between
      <4> QED  BY <3>1, <4>1, <4>2, <4>3
    <3> QED  BY <3>1, <3>3, <3>4
  <2>3. Nat \subseteq S
    <3> HIDE DEF S
    <3> QED  BY <2>1, <2>2, NatSetInduction
  <2> QED  BY <1>1, <2>3
<1>2. CASE ~IsStationary(offset - bias[0], TRUE)
  <2> DEFINE S == {n \in Nat : bias[n] = bias[0]}
  <2>1. 0 \in S  OBVIOUS
  <2>2. ASSUME NEW n \in Nat, n \in S PROVE n + 1 \in S
    <3>1. n + 1 \in Nat /\ bias[n + 1] = UpdateBias(bias[0], offset, quiet[n], ms[n])
      BY <2>2
    <3> QED  BY <1>2, <3>1 DEF UpdateBias, IsStationary
  <2>3. Nat \subseteq S
    <3> HIDE DEF S
    <3> QED  BY <2>1, <2>2, NatSetInduction
  <2> QED  BY <1>2, <2>3
<1> QED  BY <1>1, <1>2

-----------------------------------------------------------------------------
(* The hard iron *)

Vectors == Int \X Int

\* The quarter turns of Sector, and which third of the first quadrant a vector lies in.
Turned(v) == CHOOSE t : t = [k \in 0..3 |-> IF k = 0 THEN v ELSE QuarterTurnBack(t[k - 1])]
Quarter(v) == CHOOSE k \in 0..3 : Turned(v)[k][1] > 0 /\ Turned(v)[k][2] >= 0
Third(w) == IF 3 * (w[2] * w[2]) < w[1] * w[1] THEN 0
            ELSE IF w[2] * w[2] < 3 * (w[1] * w[1]) THEN 1 ELSE 2

LEMMA SectorIs == ASSUME NEW v PROVE Sector(v) = 3 * Quarter(v) + Third(Turned(v)[Quarter(v)])
  BY DEF Sector, Quarter, Turned, Third

LEMMA TurnedIs ==
    ASSUME NEW v \in Vectors
    PROVE  /\ Turned(v)[0] = v /\ Turned(v)[1] = <<v[2], 0 - v[1]>>
           /\ Turned(v)[2] = <<0 - v[1], 0 - v[2]>> /\ Turned(v)[3] = <<0 - v[2], v[1]>>
<1> DEFINE F == [k \in 0..3 |-> IF k = 0 THEN v ELSE IF k = 1 THEN <<v[2], 0 - v[1]>>
                 ELSE IF k = 2 THEN <<0 - v[1], 0 - v[2]>> ELSE <<0 - v[2], v[1]>>]
<1> DEFINE Eq(t) == t = [k \in 0..3 |-> IF k = 0 THEN v ELSE QuarterTurnBack(t[k - 1])]
<1>1. v[1] \in Int /\ v[2] \in Int /\ v = <<v[1], v[2]>>  BY DEF Vectors
<1>2. \A k \in 0..3 : F[k] = IF k = 0 THEN v ELSE QuarterTurnBack(F[k - 1])
  BY <1>1 DEF QuarterTurnBack
<1>3. Eq(F)  BY <1>2
<1>4. Eq(Turned(v))
  <2> HIDE DEF F
  <2> QED  BY <1>3, Zenon DEF Turned
<1>5. \A k \in 0..3 : Turned(v)[k] = IF k = 0 THEN v ELSE QuarterTurnBack(Turned(v)[k - 1])
  BY <1>4, Zenon
<1> HIDE DEF F, Eq
<1>6. Turned(v)[0] = v  BY <1>5
<1>7. Turned(v)[1] = QuarterTurnBack(Turned(v)[0])  BY <1>5
<1>8. Turned(v)[2] = QuarterTurnBack(Turned(v)[1])  BY <1>5
<1>9. Turned(v)[3] = QuarterTurnBack(Turned(v)[2])  BY <1>5
<1> QED  BY <1>1, <1>6, <1>7, <1>8, <1>9 DEF QuarterTurnBack

\* The quadrants, each with the half-axis it starts at.
InQuarter(v, k) ==
    CASE k = 0 -> v[1] > 0 /\ v[2] >= 0
      [] k = 1 -> v[2] > 0 /\ v[1] <= 0
      [] k = 2 -> v[1] < 0 /\ v[2] <= 0
      [] k = 3 -> v[2] < 0 /\ v[1] >= 0

LEMMA QuarterIs ==
    ASSUME NEW v \in Vectors, NEW q \in 0..3, InQuarter(v, q)
    PROVE  Quarter(v) = q
<1> DEFINE At(k) == Turned(v)[k][1] > 0 /\ Turned(v)[k][2] >= 0
<1>1. v[1] \in Int /\ v[2] \in Int  BY DEF Vectors
<1>2. /\ At(0) <=> v[1] > 0 /\ v[2] >= 0
      /\ At(1) <=> v[2] > 0 /\ 0 - v[1] >= 0
      /\ At(2) <=> 0 - v[1] > 0 /\ 0 - v[2] >= 0
      /\ At(3) <=> 0 - v[2] > 0 /\ v[1] >= 0
  BY TurnedIs
<1> HIDE DEF At
<1>3. \A k \in 0..3 : At(k) <=> k = q
  <2>1. CASE q = 0
    <3>1. At(0) /\ ~At(1) /\ ~At(2) /\ ~At(3)  BY <1>1, <1>2, <2>1 DEF InQuarter
    <3> QED  BY <2>1, <3>1
  <2>2. CASE q = 1
    <3>1. ~At(0) /\ At(1) /\ ~At(2) /\ ~At(3)  BY <1>1, <1>2, <2>2 DEF InQuarter
    <3> QED  BY <2>2, <3>1
  <2>3. CASE q = 2
    <3>1. ~At(0) /\ ~At(1) /\ At(2) /\ ~At(3)  BY <1>1, <1>2, <2>3 DEF InQuarter
    <3> QED  BY <2>3, <3>1
  <2>4. CASE q = 3
    <3>1. ~At(0) /\ ~At(1) /\ ~At(2) /\ At(3)  BY <1>1, <1>2, <2>4 DEF InQuarter
    <3> QED  BY <2>4, <3>1
  <2> QED  BY <2>1, <2>2, <2>3, <2>4
<1>4. Quarter(v) = CHOOSE k \in 0..3 : At(k)  BY DEF Quarter, At
<1> QED  BY <1>3, <1>4

LEMMA ThirdIs ==
    ASSUME NEW w \in Vectors PROVE Third(w) \in 0..2
  BY DEF Third

\* Every direction has a sector: the k-th quadrant has the sectors 3 k to 3 k + 2.
LEMMA SectorInQuarter ==
    ASSUME NEW v \in Vectors, NEW q \in 0..3, InQuarter(v, q)
    PROVE  /\ Sector(v) = 3 * q + Third(Turned(v)[q])
           /\ Third(Turned(v)[q]) \in 0..2
<1>1. Turned(v)[q] \in Vectors  
  <2>1. v[1] \in Int /\ v[2] \in Int /\ v \in Vectors BY DEF Vectors
  <2> QED BY <2>1, TurnedIs DEF Vectors
<1> QED  BY <1>1, SectorIs, QuarterIs, ThirdIs

LEMMA SomeQuarter ==
    ASSUME NEW v \in Vectors, v # <<0, 0>>
    PROVE  \E q \in 0..3 : InQuarter(v, q)
<1>1. v[1] \in Int /\ v[2] \in Int /\ (v[1] # 0 \/ v[2] # 0)  BY DEF Vectors
<1>2. InQuarter(v, 0) \/ InQuarter(v, 1) \/ InQuarter(v, 2) \/ InQuarter(v, 3)
  BY <1>1 DEF InQuarter
<1> QED  BY <1>2

\* imu.rs, lines 616-617: every reading off the centre has exactly one of the twelve
\* sectors, and turning it by a right angle moves it on by three.
THEOREM SectorTurnsAlong ==
    ASSUME NEW v \in Int \X Int, v # <<0, 0>>
    PROVE  /\ Sector(v) \in Sectors
           /\ QuarterTurnBack(v) \in Int \X Int /\ QuarterTurnBack(v) # <<0, 0>>
           /\ Sector(v) = (Sector(QuarterTurnBack(v)) + 3) % 12
<1> DEFINE w == QuarterTurnBack(v)
<1>1. v \in Vectors /\ v[1] \in Int /\ v[2] \in Int /\ v = <<v[1], v[2]>> /\ (v[1] # 0 \/ v[2] # 0)
  BY DEF Vectors
<1>2. w \in Vectors /\ w[1] = v[2] /\ w[2] = 0 - v[1] /\ w # <<0, 0>>
  BY <1>1 DEF QuarterTurnBack, Vectors
<1> HIDE DEF w
<1>3. PICK q \in 0..3 : InQuarter(v, q)  BY <1>1, SomeQuarter
<1> DEFINE p == IF q = 0 THEN 3 ELSE q - 1
<1>4. p \in 0..3 /\ InQuarter(w, p)
  <2>1. CASE q = 0  BY <1>1, <1>2, <1>3, <2>1 DEF InQuarter
  <2>2. CASE q = 1  BY <1>1, <1>2, <1>3, <2>2 DEF InQuarter
  <2>3. CASE q = 2  BY <1>1, <1>2, <1>3, <2>3 DEF InQuarter
  <2>4. CASE q = 3  BY <1>1, <1>2, <1>3, <2>4 DEF InQuarter
  <2> QED  BY <2>1, <2>2, <2>3, <2>4
<1>5. Third(Turned(v)[q]) = Third(Turned(w)[p])
  <2>1. q # 0 => Turned(v)[q] = Turned(w)[q - 1]
    <3>1. /\ Turned(v)[1] = <<v[2], 0 - v[1]>>
          /\ Turned(v)[2] = <<0 - v[1], 0 - v[2]>> /\ Turned(v)[3] = <<0 - v[2], v[1]>>
      BY <1>1, TurnedIs
    <3>2. /\ Turned(w)[0] = w /\ Turned(w)[1] = <<w[2], 0 - w[1]>>
          /\ Turned(w)[2] = <<0 - w[1], 0 - w[2]>>
      BY <1>2, TurnedIs
    <3>3. w = <<v[2], 0 - v[1]>>  BY DEF w, QuarterTurnBack
    <3>4. Turned(v)[1] = Turned(w)[0]  BY <3>1, <3>2, <3>3
    <3>5. Turned(v)[2] = Turned(w)[1]  BY <1>2, <3>1, <3>2
    <3>6. Turned(v)[3] = Turned(w)[2]
      <4>1. 0 - w[2] = v[1]  BY <1>1, <1>2
      <4> QED  BY <1>2, <3>1, <3>2, <4>1
    <3> QED  BY <3>4, <3>5, <3>6
  <2>2. q = 0 => Turned(w)[3] = v
    BY <1>1, <1>2, TurnedIs
  <2>3. q = 0 => Turned(v)[0] = v  BY <1>1, TurnedIs
  <2> QED  BY <2>1, <2>2, <2>3
<1>6. Sector(v) = 3 * q + Third(Turned(v)[q]) /\ Third(Turned(v)[q]) \in 0..2
  BY <1>1, <1>3, SectorInQuarter
<1>7. Sector(w) = 3 * p + Third(Turned(v)[q])
  BY <1>2, <1>4, <1>5, SectorInQuarter
<1>8. Sector(v) = (Sector(w) + 3) % 12 /\ Sector(v) \in 0..11
  <2> DEFINE t == Third(Turned(v)[q])
  <2> HIDE DEF t
  <2>1. Sector(v) = 3 * q + t /\ Sector(w) = 3 * p + t /\ t \in 0..2  BY <1>6, <1>7 DEF t
  <2> QED  BY <2>1
<1> QED  BY <1>1, <1>2, <1>8 DEF Sectors, w, Vectors

-----------------------------------------------------------------------------
LEMMA Around1 ==
    ASSUME NEW n \in Nat \ {0}, NEW i \in 1..n
    PROVE  /\ (i - 1 + 1) % n = IF i = n THEN 0 ELSE i
           /\ (i - 1 + (-1)) % n = IF i = 1 THEN n - 1 ELSE i - 2
  OBVIOUS

\* The directions, of which there are N.
N == Len(Circle)

LEMMA CircleIs ==
    /\ N \in Nat \ {0} /\ DOMAIN Circle = 1..N /\ IsFiniteSet(DOMAIN Circle)
    /\ Cardinality(DOMAIN Circle) = N
    /\ \A i \in DOMAIN Circle : Circle[i] \in Vectors
<1>1. N \in Nat /\ DOMAIN Circle = 1..N /\ \A i \in 1..N : Circle[i] \in Vectors
  BY HardIronAssumption DEF N, Vectors
<1>2. N # 0  BY HardIronAssumption DEF N
<1>3. IsFiniteSet(1..N) /\ Cardinality(1..N) = N  BY <1>1, <1>2, FS_Interval
<1> QED  BY <1>1, <1>2, <1>3

LEMMA AroundIs ==
    ASSUME NEW i \in DOMAIN Circle
    PROVE  /\ Around(i, 1) = IF i = N THEN 1 ELSE i + 1
           /\ Around(i, -1) = IF i = 1 THEN N ELSE i - 1
           /\ \A move \in {-1, 1} : Around(i, move) \in DOMAIN Circle
<1>1. N \in Nat \ {0} /\ i \in 1..N  BY CircleIs
<1>2. Around(i, 1) = 1 + ((i - 1 + 1) % N) /\ Around(i, -1) = 1 + ((i - 1 + (-1)) % N)
  BY DEF Around, N
<1>3. Around(i, 1) = (IF i = N THEN 1 ELSE i + 1) /\ Around(i, -1) = IF i = 1 THEN N ELSE i - 1
  <2>1. /\ (i - 1 + 1) % N = IF i = N THEN 0 ELSE i
        /\ (i - 1 + (-1)) % N = IF i = 1 THEN N - 1 ELSE i - 2
    BY <1>1, Around1, Zenon
  <2>2. Around(i, 1) = 1 + (IF i = N THEN 0 ELSE i)  BY <1>2, <2>1, Zenon
  <2>3. Around(i, -1) = 1 + (IF i = 1 THEN N - 1 ELSE i - 2)  BY <1>2, <2>1, Zenon
  <2> QED  BY <1>1, <2>2, <2>3
<1>4. Around(i, 1) \in 1..N /\ Around(i, -1) \in 1..N  BY <1>1, <1>3
<1> QED  BY <1>3, <1>4, CircleIs

-----------------------------------------------------------------------------
(* The step of the board, as the theorems about it use it *)

\* The box of the readings so far.
HullInv ==
    /\ seen <=> visited # {}
    /\ ~seen => turns = {} /\ sectors = {} /\ low = high
    /\ seen => /\ at \in visited
               /\ \A k \in 1..2, i \in visited : low[k] <= Circle[i][k] /\ Circle[i][k] <= high[k]
               /\ \A k \in 1..2 : /\ \E i \in visited : Circle[i][k] = low[k]
                                  /\ \E i \in visited : Circle[i][k] = high[k]

IronTypes ==
    /\ at \in DOMAIN Circle /\ visited \subseteq DOMAIN Circle /\ turns \subseteq {-1, 1}
    /\ seen \in BOOLEAN /\ low \in Vectors /\ high \in Vectors
    /\ sectors \subseteq Sectors

IronInv == IronTypes /\ HullInv

\* A first reading, or one more of a direction next to the last.
LEMMA TurnIs ==
    ASSUME IronInv, Turn
    PROVE  /\ at' \in DOMAIN Circle /\ visited' = visited \cup {at'} /\ seen' = TRUE
           /\ \/ /\ ~seen /\ turns' = turns /\ sectors' = {}
                 /\ low' = Circle[at'] /\ high' = Circle[at']
              \/ /\ seen
                 /\ \E move \in {-1, 1} : at' = Around(at, move) /\ turns' = turns \cup {move}
                 /\ Box(Circle[at']) /\ Vote(Circle[at'])
<1> PICK move \in {-1, 1} : /\ at' = IF seen THEN Around(at, move) ELSE at
                            /\ turns' = IF seen THEN turns \cup {move} ELSE turns
                            /\ visited' = visited \cup {at'}
                            /\ Observe(Circle[at'])
  BY DEF Turn
<1>1. at \in DOMAIN Circle /\ seen \in BOOLEAN /\ (~seen => sectors = {})
  BY DEF IronInv, IronTypes, HullInv
<1>2. CASE seen
  <2>1. at' \in DOMAIN Circle  BY <1>1, <1>2, AroundIs
  <2> QED  BY <1>1, <1>2, <2>1 DEF Observe
<1>3. CASE ~seen
  BY <1>1, <1>3 DEF Observe, First
<1> QED  BY <1>2, <1>3

LEMMA BoxIs ==
    ASSUME IronTypes, NEW v \in Vectors, Box(v)
    PROVE  /\ low' \in Vectors /\ high' \in Vectors
           /\ \A k \in 1..2 : /\ low'[k] = (IF low[k] <= v[k] THEN low[k] ELSE v[k])
                              /\ high'[k] = (IF high[k] >= v[k] THEN high[k] ELSE v[k])
                              /\ low'[k] \in Int /\ high'[k] \in Int
<1>1. /\ low[1] \in Int /\ low[2] \in Int /\ high[1] \in Int /\ high[2] \in Int
      /\ v[1] \in Int /\ v[2] \in Int
  BY DEF IronTypes, Vectors
<1>2. /\ low' = <<Lesser(low[1], v[1]), Lesser(low[2], v[2])>>
      /\ high' = <<Greater(high[1], v[1]), Greater(high[2], v[2])>>
  BY DEF Box
<1>3. /\ low'[1] = Lesser(low[1], v[1]) /\ low'[2] = Lesser(low[2], v[2])
      /\ high'[1] = Greater(high[1], v[1]) /\ high'[2] = Greater(high[2], v[2])
  BY <1>2
<1>4. \A a, b \in Int : Lesser(a, b) \in Int /\ Greater(a, b) \in Int  BY DEF Lesser, Greater
<1>5. low' \in Vectors /\ high' \in Vectors  BY <1>1, <1>2, <1>4 DEF Vectors
<1>6. \A k \in 1..2 : k = 1 \/ k = 2  OBVIOUS
<1> QED  BY <1>1, <1>3, <1>4, <1>5, <1>6 DEF Lesser, Greater

LEMMA CentredIs ==
    ASSUME NEW v \in Vectors, NEW lo \in Vectors, NEW hi \in Vectors
    PROVE  /\ Centred(v, lo, hi) \in Vectors
           /\ Centred(v, lo, hi)[1] = 2 * v[1] - lo[1] - hi[1]
           /\ Centred(v, lo, hi)[2] = 2 * v[2] - lo[2] - hi[2]
           /\ \A k \in 1..2 : v[k] \in Int /\ lo[k] \in Int /\ hi[k] \in Int
  BY DEF Centred, Vectors

\* A reading that is far enough has a direction.
LEMMA FarIsSomewhere ==
    ASSUME NEW v \in Vectors, FarEnough(v)
    PROVE  v # <<0, 0>> /\ Sector(v) \in Sectors
<1>1. MinRadius \in Nat /\ MinRadius >= 1  BY HardIronAssumption
<1>2. MinRadius * MinRadius >= 1  BY <1>1
<1>3. ASSUME v = <<0, 0>> PROVE FALSE
  <2>1. Length2(v) = 0  BY <1>3 DEF Length2
  <2> QED  BY <1>1, <1>2, <2>1 DEF FarEnough
<1> QED  BY <1>3, SectorTurnsAlong DEF Vectors

LEMMA VoteIs ==
    ASSUME IronTypes, NEW v \in Vectors, Box(v), Vote(v)
    PROVE  \/ sectors' = sectors
           \/ /\ FarEnough(Centred(v, low', high'))
              /\ Centred(v, low', high') \in Vectors /\ Centred(v, low', high') # <<0, 0>>
              /\ Sector(Centred(v, low', high')) \in Sectors
              /\ sectors' = sectors \cup {Sector(Centred(v, low', high'))}
<1>1. Centred(v, low', high') \in Vectors  BY BoxIs, CentredIs
<1>2. CASE FarEnough(Centred(v, low', high'))
  BY <1>1, <1>2, FarIsSomewhere DEF Vote
<1>3. CASE ~FarEnough(Centred(v, low', high'))
  BY <1>3 DEF Vote
<1> QED  BY <1>2, <1>3

LEMMA IronInitInv == IronInit => IronInv
<1> SUFFICES ASSUME IronInit PROVE IronInv  OBVIOUS
<1>1. <<0, 0>> \in Vectors  BY DEF Vectors
<1> QED  BY <1>1 DEF IronInit, IronInv, IronTypes, HullInv

LEMMA IronNextInv == IronInv /\ [IronNext]_ironVars => IronInv'
<1> SUFFICES ASSUME IronInv, [IronNext]_ironVars PROVE IronInv'  OBVIOUS
<1>1. CASE UNCHANGED ironVars
  BY <1>1 DEF IronInv, IronTypes, HullInv, ironVars
<1>2. CASE Turn
  <2>1. /\ at' \in DOMAIN Circle /\ visited' = visited \cup {at'} /\ seen' = TRUE
        /\ Circle[at'] \in Vectors /\ at' \in visited' /\ IronTypes /\ HullInv
    BY <1>2, TurnIs, CircleIs DEF IronInv
  <2>2. CASE ~seen /\ turns' = turns /\ sectors' = {} /\ low' = Circle[at'] /\ high' = Circle[at']
    <3>1. visited' = {at'}  BY <2>1, <2>2 DEF HullInv
    <3>2. \A k \in 1..2 : Circle[at'][k] \in Int  BY <2>1 DEF Vectors
    <3>3. HullInv'  BY <2>1, <2>2, <3>1, <3>2 DEF HullInv
    <3>4. IronTypes'  BY <2>1, <2>2 DEF IronTypes
    <3> QED  BY <3>3, <3>4 DEF IronInv
  <2>3. CASE /\ seen
             /\ \E move \in {-1, 1} : at' = Around(at, move) /\ turns' = turns \cup {move}
             /\ Box(Circle[at']) /\ Vote(Circle[at'])
    <3>1. /\ low' \in Vectors /\ high' \in Vectors
          /\ \A k \in 1..2 :
               /\ low'[k] = (IF low[k] <= Circle[at'][k] THEN low[k] ELSE Circle[at'][k])
               /\ high'[k] = (IF high[k] >= Circle[at'][k] THEN high[k] ELSE Circle[at'][k])
      BY <2>1, <2>3, BoxIs
    <3>2. sectors' \subseteq Sectors
      BY <2>1, <2>3, VoteIs DEF IronTypes
    <3>3. turns' \subseteq {-1, 1}  BY <2>1, <2>3 DEF IronTypes
    <3>4. \A k \in 1..2 : low[k] \in Int /\ high[k] \in Int /\ \A i \in visited' : Circle[i][k] \in Int
      BY <2>1, CircleIs DEF IronTypes, Vectors
    <3>5. \A k \in 1..2 : /\ \E i \in visited' : Circle[i][k] = low'[k]
                          /\ \E i \in visited' : Circle[i][k] = high'[k]
      BY <2>1, <2>3, <3>1 DEF HullInv
    <3>6. \A k \in 1..2, i \in visited' : low'[k] <= Circle[i][k] /\ Circle[i][k] <= high'[k]
      <4> SUFFICES ASSUME NEW k \in 1..2, NEW i \in visited'
                   PROVE  low'[k] <= Circle[i][k] /\ Circle[i][k] <= high'[k]
        OBVIOUS
      <4>1. /\ low[k] \in Int /\ high[k] \in Int /\ Circle[i][k] \in Int
            /\ Circle[at'][k] \in Int
            /\ i = at' \/ (low[k] <= Circle[i][k] /\ Circle[i][k] <= high[k])
        BY <2>1, <2>3, <3>4 DEF HullInv
      <4> QED  BY <3>1, <4>1
    <3>7. HullInv'  BY <2>1, <3>5, <3>6 DEF HullInv
    <3>8. IronTypes'  BY <2>1, <3>1, <3>2, <3>3 DEF IronTypes
    <3> QED  BY <3>7, <3>8 DEF IronInv
  <2> QED  BY <1>2, <2>2, <2>3, TurnIs
<1> QED  BY <1>1, <1>2 DEF IronNext

LEMMA IronInvariance == IronSpec => []IronInv
  BY IronInitInv, IronNextInv, PTL DEF IronSpec

-----------------------------------------------------------------------------
LEMMA SectorsFinite ==
    ASSUME NEW s \in SUBSET Sectors PROVE IsFiniteSet(s) /\ Cardinality(s) \in Nat
<1>1. \A a, b \in Int : IsFiniteSet(a..b)  BY FS_Interval
<1> DEFINE a == 0  b == 11
<1>2. Sectors = a..b /\ a \in Int /\ b \in Int  BY DEF Sectors
<1> HIDE DEF a, b
<1>3. IsFiniteSet(Sectors)  BY <1>1, <1>2
<1> QED  BY <1>3, FS_Subset, FS_CardinalityType

LEMMA VisitedFinite ==
    ASSUME IronTypes PROVE IsFiniteSet(visited) /\ Cardinality(visited) \in Nat
  BY CircleIs, FS_Subset, FS_CardinalityType DEF IronTypes

LEMMA TwoElements ==
    ASSUME NEW S, IsFiniteSet(S), NEW i \in S, NEW j \in S, i # j
    PROVE  Cardinality(S) >= 2 /\ Cardinality(S) \in Nat
<1>1. IsFiniteSet({i}) /\ Cardinality({i}) = 1  BY FS_Singleton
<1>2. Cardinality({i} \cup {j}) = 2  BY <1>1, FS_AddElement
<1>3. {i} \cup {j} \in SUBSET S  OBVIOUS
<1> QED  BY <1>2, <1>3, FS_Subset, FS_CardinalityType

\* A vote takes two different readings.
TwoForAVote == sectors # {} => \E i, j \in visited : i # j

LEMMA TwoInit == IronInit => TwoForAVote
  BY DEF IronInit, TwoForAVote

LEMMA TwoNext == IronInv /\ TwoForAVote /\ [IronNext]_ironVars => TwoForAVote'
<1> SUFFICES ASSUME IronInv, TwoForAVote, [IronNext]_ironVars, sectors' # {}
             PROVE  \E i, j \in visited' : i # j
  BY DEF TwoForAVote
<1>1. CASE UNCHANGED ironVars  BY <1>1 DEF TwoForAVote, ironVars
<1>2. CASE Turn
  <2>1. visited' = visited \cup {at'} /\ Circle[at'] \in Vectors /\ IronTypes
    BY <1>2, TurnIs, CircleIs DEF IronInv
  <2>2. CASE sectors = {}
    <3>1. Box(Circle[at']) /\ Vote(Circle[at'])  BY <1>2, <2>2, TurnIs
    <3> DEFINE from == Centred(Circle[at'], low', high')
    <3>2. /\ from[1] = 2 * Circle[at'][1] - low'[1] - high'[1]
          /\ from[2] = 2 * Circle[at'][2] - low'[2] - high'[2]
          /\ \A k \in 1..2 : Circle[at'][k] \in Int /\ low'[k] \in Int /\ high'[k] \in Int
          /\ from \in Vectors /\ from # <<0, 0>>
      <4>1. low' \in Vectors /\ high' \in Vectors  BY <2>1, <3>1, BoxIs
      <4>2. from # <<0, 0>>  BY <2>1, <2>2, <3>1, VoteIs
      <4> QED  BY <2>1, <4>1, <4>2, CentredIs
    <3> HIDE DEF from
    <3>3. PICK k \in 1..2 : from[k] # 0  BY <3>2 DEF Vectors
    <3>4. HullInv'  BY <1>2, IronNextInv DEF IronNext, IronInv
    <3>5. PICK i \in visited', j \in visited' : Circle[i][k] = low'[k] /\ Circle[j][k] = high'[k]
      BY <1>2, <3>4, TurnIs DEF HullInv
    <3>6. low'[k] <= Circle[at'][k] /\ Circle[at'][k] <= high'[k]
      BY <1>2, <2>1, <3>4, TurnIs DEF HullInv
    <3>7. k = 1 \/ k = 2  OBVIOUS
    <3>8. low'[k] # high'[k]
      <4>1. from[k] = 2 * Circle[at'][k] - low'[k] - high'[k]
        <5>1. CASE k = 1  BY <3>2, <5>1
        <5>2. CASE k = 2  BY <3>2, <5>2
        <5> QED  BY <3>7, <5>1, <5>2
      <4>2. Circle[at'][k] \in Int /\ low'[k] \in Int /\ high'[k] \in Int  BY <3>2
      <4> QED  BY <3>3, <3>6, <4>1, <4>2
    <3> QED  BY <3>5, <3>8
  <2>3. CASE sectors # {}  BY <2>1, <2>3 DEF TwoForAVote
  <2> QED  BY <2>2, <2>3
<1> QED  BY <1>1, <1>2 DEF IronNext

\* Type correctness of the hard-iron estimate: the directions voted for are the twelve
\* sectors, and nothing is voted for before there are two different readings.
THEOREM IronTypeCorrect == IronSpec => []IronTypeOK
<1>1. IronInv /\ TwoForAVote => IronTypeOK
  <2> SUFFICES ASSUME IronInv, TwoForAVote PROVE IronTypeOK  OBVIOUS
  <2>1. ASSUME NEW k \in 1..2 PROVE low[k] <= high[k]
    <3>1. CASE seen
      <4>1. PICK i \in visited : low[k] <= Circle[i][k] /\ Circle[i][k] <= high[k]
        BY <3>1 DEF IronInv, HullInv
      <4>2. low[k] \in Int /\ high[k] \in Int /\ Circle[i][k] \in Int
        BY CircleIs DEF IronInv, IronTypes, Vectors
      <4> QED  BY <4>1, <4>2
    <3>2. CASE ~seen  BY <3>2 DEF IronInv, IronTypes, HullInv, Vectors
    <3> QED  BY <3>1, <3>2
  <2>2. ASSUME sectors # {} PROVE Cardinality(visited) >= 2
    <3>1. PICK i \in visited, j \in visited : i # j  BY <2>2 DEF TwoForAVote
    <3> QED  BY <3>1, VisitedFinite, TwoElements DEF IronInv
  <2> QED  BY <2>1, <2>2 DEF IronInv, IronTypes, IronTypeOK, Vectors
<1>2. IronSpec => []TwoForAVote
  <2>1. IronInv /\ IronInv' /\ TwoForAVote /\ [IronNext]_ironVars => TwoForAVote'  BY TwoNext
  <2> QED  BY TwoInit, <2>1, IronInvariance, PTL DEF IronSpec
<1> QED  BY <1>1, <1>2, IronInvariance, PTL

-----------------------------------------------------------------------------
(* The estimate *)

\* In each axis the centre of the box is half of low + high.
CentreWithin(k, bound) == -bound <= low[k] + high[k] /\ low[k] + high[k] <= bound

Swings(k) == \E i, j \in visited : Circle[i][k] = Field /\ Circle[j][k] = -Field

LEMMA WithinField ==
    ASSUME NEW i \in DOMAIN Circle, NEW k \in 1..2
    PROVE  Circle[i][k] \in Int /\ -Field <= Circle[i][k] /\ Circle[i][k] <= Field
<1>1. Circle[i][1] \in Int /\ Circle[i][2] \in Int  BY CircleIs DEF Vectors
<1>2. Circle[i][1] * Circle[i][1] + Circle[i][2] * Circle[i][2] = Field * Field /\ Field \in Nat
  BY HardIronAssumption
<1>3. \A x, y \in Int, f \in Nat : x * x + y * y = f * f => -f <= x /\ x <= f
  <2> SUFFICES ASSUME NEW x \in Int, NEW y \in Int, NEW f \in Nat, x * x + y * y = f * f
               PROVE  -f <= x /\ x <= f
    OBVIOUS
  <2>1. y * y >= 0  OBVIOUS
  <2>2. x * x <= f * f  BY <2>1
  <2>3. ASSUME x > f PROVE FALSE
    <3>1. x * x > f * f  BY <2>3
    <3> QED  BY <2>2, <3>1
  <2>4. ASSUME x < -f PROVE FALSE
    <3>1. (-x) * (-x) > f * f  BY <2>4
    <3>2. (-x) * (-x) = x * x  OBVIOUS
    <3> QED  BY <2>2, <3>1, <3>2
  <2> QED  BY <2>3, <2>4
<1>4. -Field <= Circle[i][1] /\ Circle[i][1] <= Field  BY <1>1, <1>2, <1>3
<1>5. Circle[i][2] * Circle[i][2] + Circle[i][1] * Circle[i][1] = Field * Field  BY <1>1, <1>2
<1>6. -Field <= Circle[i][2] /\ Circle[i][2] <= Field  BY <1>1, <1>2, <1>3, <1>5
<1>7. k = 1 \/ k = 2  OBVIOUS
<1> QED  BY <1>1, <1>4, <1>6, <1>7

\* The centre is never further from the truth than the field is strong, in either axis.
EstimateIsBounded == seen => \A k \in 1..2 : CentreWithin(k, 2 * Field)

\* Once an axis has swung over its whole range, its centre is the truth and stays it.
SwungIsExact == \A k \in 1..2 : Swings(k) => CentreWithin(k, 0)

\* imu.rs, lines 599-608 and 622-624: the box holds every reading so far and is spanned
\* by four of them, so whatever way the board turned the estimate is wrong by at most the
\* field in each axis, and exact in an axis from the moment both its ends were met.
THEOREM EstimateFromHull ==
    IronSpec => [](HullInv /\ EstimateIsBounded /\ SwungIsExact)
<1>1. IronInv => HullInv /\ EstimateIsBounded /\ SwungIsExact
  <2> SUFFICES ASSUME IronInv PROVE EstimateIsBounded /\ SwungIsExact  BY DEF IronInv
  <2>1. Field \in Nat /\ visited \subseteq DOMAIN Circle
    BY HardIronAssumption DEF IronInv, IronTypes
  <2>2. ASSUME NEW k \in 1..2, seen
        PROVE  \E i, j \in visited : low[k] = Circle[i][k] /\ high[k] = Circle[j][k]
    BY <2>2 DEF IronInv, HullInv
  <2>3. EstimateIsBounded
    <3> SUFFICES ASSUME NEW k \in 1..2, seen PROVE CentreWithin(k, 2 * Field)
      BY DEF EstimateIsBounded
    <3>1. PICK i \in visited, j \in visited : low[k] = Circle[i][k] /\ high[k] = Circle[j][k]
      BY <2>2
    <3>2. /\ Circle[i][k] \in Int /\ -Field <= Circle[i][k] /\ Circle[i][k] <= Field
          /\ Circle[j][k] \in Int /\ -Field <= Circle[j][k] /\ Circle[j][k] <= Field
      BY <2>1, WithinField
    <3> QED  BY <2>1, <3>1, <3>2 DEF CentreWithin
  <2>4. SwungIsExact
    <3> SUFFICES ASSUME NEW k \in 1..2, NEW m \in visited, NEW n \in visited,
                        Circle[m][k] = Field, Circle[n][k] = -Field
                 PROVE  CentreWithin(k, 0)
      BY DEF SwungIsExact, Swings
    <3>1. seen  BY DEF IronInv, HullInv
    <3>2. PICK i \in visited, j \in visited : low[k] = Circle[i][k] /\ high[k] = Circle[j][k]
      BY <2>2, <3>1
    <3>3. /\ Circle[i][k] \in Int /\ -Field <= Circle[i][k] /\ Circle[i][k] <= Field
          /\ Circle[j][k] \in Int /\ -Field <= Circle[j][k] /\ Circle[j][k] <= Field
      BY <2>1, WithinField
    <3>4. low[k] <= -Field /\ Field <= high[k]  BY <3>1 DEF IronInv, HullInv
    <3> QED  BY <2>1, <3>2, <3>3, <3>4 DEF CentreWithin
  <2> QED  BY <2>3, <2>4
<1> QED  BY <1>1, IronInvariance, PTL

\* imu.rs, lines 591-620: the box only grows and a direction that was voted for stays
\* voted for, so an estimate once announced usable is never taken back.
UsableStays ==
    [][/\ IsUsable => IsUsable'
       /\ seen => \A k \in 1..2 : low'[k] <= low[k] /\ high[k] <= high'[k]]_ironVars

THEOREM UsableIsKept == IronSpec => UsableStays
<1>1. IronInv /\ IronInv' /\ [IronNext]_ironVars =>
        [/\ IsUsable => IsUsable'
         /\ seen => \A k \in 1..2 : low'[k] <= low[k] /\ high[k] <= high'[k]]_ironVars
  <2> SUFFICES ASSUME IronInv, IronInv', Turn
               PROVE  /\ IsUsable => IsUsable'
                      /\ seen => \A k \in 1..2 : low'[k] <= low[k] /\ high[k] <= high'[k]
    BY DEF IronNext
  <2>1. /\ sectors \subseteq Sectors /\ sectors' \subseteq Sectors /\ IronTypes
        /\ Circle[at'] \in Vectors
    BY CircleIs DEF IronInv, IronTypes
  <2>2. sectors \subseteq sectors'
    <3>1. CASE ~seen  BY <3>1 DEF IronInv, HullInv
    <3>2. CASE seen  BY <2>1, <3>2, TurnIs, VoteIs
    <3> QED  BY <3>1, <3>2
  <2>3. Cardinality(sectors) <= Cardinality(sectors')
    BY <2>1, <2>2, SectorsFinite, FS_Subset
  <2>4. Cardinality(sectors) \in Nat /\ Cardinality(sectors') \in Nat /\ SectorsRequired \in Nat
    <3>1. SectorsRequired \in Nat  BY HardIronAssumption
    <3> QED  BY <2>1, <3>1, SectorsFinite
  <2>5. ASSUME seen, NEW k \in 1..2 PROVE low'[k] <= low[k] /\ high[k] <= high'[k]
    <3>1. /\ low'[k] = (IF low[k] <= Circle[at'][k] THEN low[k] ELSE Circle[at'][k])
          /\ high'[k] = (IF high[k] >= Circle[at'][k] THEN high[k] ELSE Circle[at'][k])
      BY <2>1, <2>5, BoxIs, TurnIs
    <3>2. low[k] \in Int /\ high[k] \in Int /\ Circle[at'][k] \in Int
      BY <2>1 DEF IronTypes, Vectors
    <3> QED  BY <3>1, <3>2
  <2> QED  BY <2>3, <2>4, <2>5 DEF IsUsable
<1> QED  BY <1>1, IronInvariance, PTL DEF IronSpec, UsableStays

-----------------------------------------------------------------------------
(* When it is not announced *)

\* imu.rs, lines 610-619: "a board standing still would otherwise let its own noise wander
\* across every sector and announce itself calibrated": readings that stay as near each other
\* as Still says never vote, on any circle, however many they are and in whatever order.
THEOREM StillBoardHasNoVote == IronSpec => []StillHasNoVote
<1>1. IronInit => StillHasNoVote  BY DEF IronInit, StillHasNoVote
<1>2. IronInv /\ IronInv' /\ StillHasNoVote /\ [IronNext]_ironVars => StillHasNoVote'
  <2> SUFFICES ASSUME IronInv, IronInv', StillHasNoVote, [IronNext]_ironVars, Still'
               PROVE  sectors' = {}
    BY DEF StillHasNoVote
  <2>1. CASE UNCHANGED ironVars  BY <2>1 DEF StillHasNoVote, Still, ironVars
  <2>2. CASE Turn
    <3>1. /\ visited' = visited \cup {at'} /\ seen' = TRUE /\ IronTypes
          /\ Circle[at'] \in Vectors
      BY <2>2, TurnIs, CircleIs DEF IronInv
    <3>2. sectors = {}  BY <3>1 DEF StillHasNoVote, Still
    <3>3. CASE ~seen  BY <2>2, <3>3, TurnIs
    <3>4. CASE seen
      <4>1. Box(Circle[at']) /\ Vote(Circle[at'])  BY <2>2, <3>4, TurnIs
      <4> DEFINE from == Centred(Circle[at'], low', high')
      <4>2. /\ from[1] = 2 * Circle[at'][1] - low'[1] - high'[1]
            /\ from[2] = 2 * Circle[at'][2] - low'[2] - high'[2]
            /\ \A k \in 1..2 : Circle[at'][k] \in Int /\ low'[k] \in Int /\ high'[k] \in Int
        BY <3>1, <4>1, BoxIs, CentredIs
      <4>3. FarEnough(from) \/ sectors' = sectors  BY <3>1, <4>1, VoteIs
      <4> HIDE DEF from
      <4>4. ASSUME NEW k \in 1..2
            PROVE  /\ low'[k] <= Circle[at'][k] /\ Circle[at'][k] <= high'[k]
                   /\ (high'[k] - low'[k]) * (high'[k] - low'[k]) < 2 * MinRadius * MinRadius
        <5>1. PICK i \in visited', j \in visited' : Circle[i][k] = low'[k] /\ Circle[j][k] = high'[k]
          BY <3>1 DEF IronInv, HullInv
        <5>2. at' \in visited'  BY <3>1
        <5>3. low'[k] <= Circle[at'][k] /\ Circle[at'][k] <= high'[k]
          BY <3>1, <5>2 DEF IronInv, HullInv
        <5>4. (Circle[j][k] - Circle[i][k]) * (Circle[j][k] - Circle[i][k]) < 2 * MinRadius * MinRadius
          BY DEF Still
        <5> QED  BY <5>1, <5>3, <5>4
      <4>5. ~FarEnough(from)
        <5>1. ASSUME NEW v \in Int, NEW lo \in Int, NEW hi \in Int, lo <= v, v <= hi
              PROVE  (2 * v - lo - hi) * (2 * v - lo - hi) <= (hi - lo) * (hi - lo)
          <6>1. 0 <= (v - lo) * (hi - v)  BY <5>1
          <6>2. (2 * v - lo - hi) * (2 * v - lo - hi) + 4 * ((v - lo) * (hi - v))
                  = (hi - lo) * (hi - lo)
            OBVIOUS
          <6> DEFINE p == (v - lo) * (hi - v)  q == (2 * v - lo - hi) * (2 * v - lo - hi)
                     r == (hi - lo) * (hi - lo)
          <6>3. p \in Int /\ q \in Int /\ r \in Int  OBVIOUS
          <6>4. 0 <= p /\ q + 4 * p = r  BY <6>1, <6>2
          <6> HIDE DEF p, q, r
          <6>5. q <= r  BY <6>3, <6>4
          <6> QED  BY <6>5 DEF q, r
        <5> DEFINE m == 2 * MinRadius * MinRadius  x == from[1] * from[1]  y == from[2] * from[2]
        <5>2. /\ from[1] \in Int /\ from[2] \in Int
              /\ \A k \in 1..2 : low'[k] \in Int /\ high'[k] \in Int
          BY <4>2
        <5>3. MinRadius \in Nat  BY HardIronAssumption
        <5>4. x < m
          <6> DEFINE r == (high'[1] - low'[1]) * (high'[1] - low'[1])
          <6>1. x <= r /\ r < m  BY <4>2, <4>4, <5>1
          <6>2. x \in Int /\ r \in Int /\ m \in Int  BY <5>2, <5>3
          <6> HIDE DEF m, x, r
          <6> QED  BY <6>1, <6>2
        <5>5. y < m
          <6> DEFINE r == (high'[2] - low'[2]) * (high'[2] - low'[2])
          <6>1. y <= r /\ r < m  BY <4>2, <4>4, <5>1
          <6>2. y \in Int /\ r \in Int /\ m \in Int  BY <5>2, <5>3
          <6> HIDE DEF m, y, r
          <6> QED  BY <6>1, <6>2
        <5>6. x \in Int /\ y \in Int /\ m \in Int /\ Length2(from) = x + y
              /\ 4 * MinRadius * MinRadius = 2 * m
          BY <5>2, <5>3 DEF Length2
        <5> HIDE DEF x, y, m
        <5>7. Length2(from) < 4 * MinRadius * MinRadius  BY <5>4, <5>5, <5>6
        <5>8. Length2(from) \in Int /\ 4 * MinRadius * MinRadius \in Int
          BY <5>6
        <5> QED  BY <5>7, <5>8 DEF FarEnough
      <4> QED  BY <3>2, <4>3, <4>5
    <3> QED  BY <3>3, <3>4
  <2> QED  BY <2>1, <2>2 DEF IronNext
<1> QED  BY <1>1, <1>2, IronInvariance, PTL DEF IronSpec

-----------------------------------------------------------------------------
\* The sectors on one side of an axis.
Side(k, sign) ==
    CASE k = 1 /\ sign = 1  -> {0, 1, 2} \cup {9, 10, 11}
      [] k = 1 /\ sign = -1 -> 3..8
      [] k = 2 /\ sign = 1  -> 0..5
      [] k = 2 /\ sign = -1 -> 6..11

LEMMA QuarterSigns ==
    ASSUME NEW v, NEW q \in 0..3, InQuarter(v, q)
    PROVE  /\ q = 0 => v[1] > 0 /\ v[2] >= 0
           /\ q = 1 => v[2] > 0 /\ v[1] <= 0
           /\ q = 2 => v[1] < 0 /\ v[2] <= 0
           /\ q = 3 => v[2] < 0 /\ v[1] >= 0
<1>1. CASE q = 0  BY <1>1 DEF InQuarter
<1>2. CASE q = 1  BY <1>2 DEF InQuarter
<1>3. CASE q = 2  BY <1>3 DEF InQuarter
<1>4. CASE q = 3  BY <1>4 DEF InQuarter
<1> QED  BY <1>1, <1>2, <1>3, <1>4

LEMMA SectorOnSide ==
    ASSUME NEW v \in Vectors, NEW k \in 1..2, NEW sign \in {-1, 1}, sign * v[k] > 0
    PROVE  Sector(v) \in Side(k, sign)
<1>1. v[1] \in Int /\ v[2] \in Int /\ v # <<0, 0>>  BY DEF Vectors
<1>2. PICK q \in 0..3 : InQuarter(v, q)  BY <1>1, SomeQuarter
<1> DEFINE t == Third(Turned(v)[q])
<1>3. Sector(v) = 3 * q + t /\ t \in 0..2  BY <1>2, SectorInQuarter
<1> HIDE DEF t
<1>4. CASE k = 1 /\ sign = 1
  <2>1. v[1] > 0  BY <1>1, <1>4
  <2>2. q = 0 \/ q = 3  BY <1>1, <1>2, <2>1, QuarterSigns
  <2>3. Sector(v) \in {0, 1, 2} \cup {9, 10, 11}  BY <1>3, <2>2
  <2> QED  BY <1>4, <2>3 DEF Side
<1>5. CASE k = 1 /\ sign = -1
  <2>1. v[1] < 0  BY <1>1, <1>5
  <2>2. q = 1 \/ q = 2  BY <1>1, <1>2, <2>1, QuarterSigns
  <2>3. Sector(v) \in 3..8  BY <1>3, <2>2
  <2> QED  BY <1>5, <2>3 DEF Side
<1>6. CASE k = 2 /\ sign = 1
  <2>1. v[2] > 0  BY <1>1, <1>6
  <2>2. q = 0 \/ q = 1  BY <1>1, <1>2, <2>1, QuarterSigns
  <2>3. Sector(v) \in 0..5  BY <1>3, <2>2
  <2> QED  BY <1>6, <2>3 DEF Side
<1>7. CASE k = 2 /\ sign = -1
  <2>1. v[2] < 0  BY <1>1, <1>7
  <2>2. q = 2 \/ q = 3  BY <1>1, <1>2, <2>1, QuarterSigns
  <2>3. Sector(v) \in 6..11  BY <1>3, <2>2
  <2> QED  BY <1>7, <2>3 DEF Side
<1> QED  BY <1>4, <1>5, <1>6, <1>7

LEMMA RangeHas ==
    ASSUME NEW a \in Int, NEW n \in Nat
    PROVE  IsFiniteSet(a..(a + n)) /\ Cardinality(a..(a + n)) = n + 1
  BY FS_Interval

LEMMA SideIsSix ==
    ASSUME NEW k \in 1..2, NEW sign \in {-1, 1}
    PROVE  IsFiniteSet(Side(k, sign)) /\ Cardinality(Side(k, sign)) <= 6
<1> DEFINE a == 3  b == 0  c == 6  n == 5  m == 2  d == 9
<1>1. a \in Int /\ b \in Int /\ c \in Int /\ d \in Int /\ n \in Nat /\ m \in Nat /\ n = 5 /\ m = 2  OBVIOUS
<1>2. /\ 3..8 = a..(a + n) /\ 0..5 = b..(b + n) /\ 6..11 = c..(c + n)
      /\ {0, 1, 2} = b..(b + m) /\ {9, 10, 11} = d..(d + m)
  OBVIOUS
<1> HIDE DEF a, b, c, d, n, m
<1>3. /\ IsFiniteSet(a..(a + n)) /\ Cardinality(a..(a + n)) = n + 1
      /\ IsFiniteSet(b..(b + n)) /\ Cardinality(b..(b + n)) = n + 1
      /\ IsFiniteSet(c..(c + n)) /\ Cardinality(c..(c + n)) = n + 1
      /\ IsFiniteSet(b..(b + m)) /\ Cardinality(b..(b + m)) = m + 1
      /\ IsFiniteSet(d..(d + m)) /\ Cardinality(d..(d + m)) = m + 1
  BY <1>1, RangeHas
<1> DEFINE A == b..(b + m)  B == d..(d + m)
<1>4. IsFiniteSet(A \cup B) /\ Cardinality(A \cup B) <= 6
  <2>1. IsFiniteSet(A) /\ IsFiniteSet(B) /\ Cardinality(A) = 3 /\ Cardinality(B) = 3
    BY <1>1, <1>3
  <2> HIDE DEF A, B
  <2>2. IsFiniteSet(A \cup B) /\ IsFiniteSet(A \cap B)
        /\ Cardinality(A \cup B) = Cardinality(A) + Cardinality(B) - Cardinality(A \cap B)
    BY <2>1, FS_Union, FS_Intersection
  <2>3. Cardinality(A \cap B) \in Nat  BY <2>2, FS_CardinalityType
  <2> QED  BY <2>1, <2>2, <2>3
<1>5. CASE k = 1 /\ sign = 1
  <2>1. Side(k, sign) = A \cup B  BY <1>2, <1>5 DEF Side
  <2> QED  BY <1>4, <2>1
<1>6. CASE k = 1 /\ sign = -1
  <2>1. Side(k, sign) = a..(a + n)  BY <1>2, <1>6 DEF Side
  <2> QED  BY <1>1, <1>3, <2>1
<1>7. CASE k = 2 /\ sign = 1
  <2>1. Side(k, sign) = b..(b + n)  BY <1>2, <1>7 DEF Side
  <2> QED  BY <1>1, <1>3, <2>1
<1>8. CASE k = 2 /\ sign = -1
  <2>1. Side(k, sign) = c..(c + n)  BY <1>2, <1>8 DEF Side
  <2> QED  BY <1>1, <1>3, <2>1
<1> QED  BY <1>5, <1>6, <1>7, <1>8

\* While only one coordinate is swept in one direction, the reading is that end of the box,
\* so it lies on that side of the centre.
SweepInv(k, sign, way) ==
    turns \subseteq {way} /\ Sweeps(visited, k, sign, way) =>
        /\ \A i \in visited : sign * Circle[i][k] <= sign * Circle[at][k]
        /\ sectors \subseteq Side(k, sign)

LEMMA SweepNext ==
    ASSUME NEW k \in 1..2, NEW sign \in {-1, 1}, NEW way \in {-1, 1},
           IronInv, SweepInv(k, sign, way), [IronNext]_ironVars
    PROVE  SweepInv(k, sign, way)'
<1> SUFFICES ASSUME (turns \subseteq {way})', Sweeps(visited', k, sign, way)
             PROVE  /\ \A i \in visited' : sign * Circle[i][k] <= sign * Circle[at'][k]
                    /\ sectors' \subseteq Side(k, sign)
  BY DEF SweepInv, Sweeps
<1>1. CASE UNCHANGED ironVars  BY <1>1 DEF SweepInv, Sweeps, ironVars
<1>2. CASE Turn
  <2>1. /\ at' \in DOMAIN Circle /\ visited' = visited \cup {at'} /\ seen' = TRUE
        /\ Circle[at'] \in Vectors /\ IronTypes /\ HullInv /\ IronTypes' /\ HullInv'
    BY <1>2, TurnIs, CircleIs, IronNextInv DEF IronInv, IronNext
  <2>2. \A i \in visited' : Circle[i][k] \in Int
    <3>1. visited' \subseteq DOMAIN Circle  BY <2>1 DEF IronTypes
    <3>2. \A v \in Vectors : v[1] \in Int /\ v[2] \in Int  BY DEF Vectors
    <3>3. k = 1 \/ k = 2  OBVIOUS
    <3> QED  BY CircleIs, <3>1, <3>2, <3>3
  <2>3. CASE ~seen
    <3>1. visited' = {at'} /\ sectors' = {}  BY <1>2, <2>1, <2>3, TurnIs DEF HullInv
    <3> QED  BY <2>2, <3>1
  <2>4. CASE seen
    <3>1. PICK move \in {-1, 1} : at' = Around(at, move) /\ turns' = turns \cup {move}
      BY <1>2, <2>4, TurnIs
    <3>2. at' = Around(at, way) /\ turns \subseteq {way}  BY <3>1
    <3>3. at \in visited /\ at \in visited' /\ at' \in visited' /\ visited \subseteq visited'
      BY <2>1, <2>4 DEF HullInv
    <3>4. sign * Circle[at'][k] > sign * Circle[at][k]  BY <3>2, <3>3 DEF Sweeps
    <3>5. Sweeps(visited, k, sign, way)  BY <3>3 DEF Sweeps
    <3>6. /\ \A i \in visited : sign * Circle[i][k] <= sign * Circle[at][k]
          /\ sectors \subseteq Side(k, sign)
      BY <3>2, <3>5 DEF SweepInv
    <3>7. \A i \in visited' : sign * Circle[i][k] <= sign * Circle[at'][k]
      <4> SUFFICES ASSUME NEW i \in visited' PROVE sign * Circle[i][k] <= sign * Circle[at'][k]
        OBVIOUS
      <4>1. Circle[i][k] \in Int /\ Circle[at][k] \in Int /\ Circle[at'][k] \in Int
        BY <2>2, <3>3
      <4>2. i = at' \/ sign * Circle[i][k] <= sign * Circle[at][k]  BY <2>1, <3>6
      <4>3. sign = 1 \/ sign = -1  OBVIOUS
      <4> QED  BY <3>4, <4>1, <4>2, <4>3
    <3>8. sectors' \subseteq Side(k, sign)
      <4> DEFINE from == Centred(Circle[at'], low', high')
      <4>1. Box(Circle[at']) /\ Vote(Circle[at'])  BY <1>2, <2>4, TurnIs
      <4>2. /\ from \in Vectors
            /\ from[1] = 2 * Circle[at'][1] - low'[1] - high'[1]
            /\ from[2] = 2 * Circle[at'][2] - low'[2] - high'[2]
            /\ Circle[at'][k] \in Int /\ low'[k] \in Int /\ high'[k] \in Int
        BY <2>1, <4>1, BoxIs, CentredIs
      <4>3. sectors' \subseteq sectors \cup {Sector(from)}  BY <2>1, <4>1, VoteIs
      <4> HIDE DEF from
      <4>4. /\ low'[k] <= Circle[at][k] /\ Circle[at][k] <= high'[k]
            /\ low'[k] <= Circle[at'][k] /\ Circle[at'][k] <= high'[k]
        BY <2>1, <3>3 DEF HullInv
      <4>5. sign = 1 => high'[k] = Circle[at'][k]
        <5>1. PICK j \in visited' : Circle[j][k] = high'[k]  BY <2>1 DEF HullInv
        <5>2. sign * Circle[j][k] <= sign * Circle[at'][k]  BY <3>7
        <5> QED  BY <2>2, <4>2, <4>4, <5>1, <5>2
      <4>6. sign = -1 => low'[k] = Circle[at'][k]
        <5>1. PICK j \in visited' : Circle[j][k] = low'[k]  BY <2>1 DEF HullInv
        <5>2. sign * Circle[j][k] <= sign * Circle[at'][k]  BY <3>7
        <5> QED  BY <2>2, <4>2, <4>4, <5>1, <5>2
      <4>7. sign * from[k] > 0
        <5>1. from[k] = 2 * Circle[at'][k] - low'[k] - high'[k]
          <6>1. k = 1 \/ k = 2  OBVIOUS
          <6> QED  BY <4>2, <6>1
        <5>2. Circle[at][k] \in Int  BY <2>2, <3>3
        <5>3. sign = 1 \/ sign = -1  OBVIOUS
        <5> QED  BY <3>4, <4>2, <4>4, <4>5, <4>6, <5>1, <5>2, <5>3
      <4> QED  BY <3>6, <4>2, <4>3, <4>7, SectorOnSide
    <3> QED  BY <3>7, <3>8
  <2> QED  BY <2>3, <2>4
<1> QED  BY <1>1, <1>2 DEF IronNext

\* imu.rs, lines 629-637: a board that turns one way over any part of half a turn votes for
\* six sectors at most, all on one side of an axis, however finely it is sampled.
THEOREM HalfTurnNotUsable ==
    ASSUME SectorsRequired > 6
    PROVE  IronSpec => []HalfTurnIsNotUsable
<1> DEFINE AllSweeps == \A k \in 1..2, sign \in {-1, 1}, way \in {-1, 1} : SweepInv(k, sign, way)
<1>1. IronInit => AllSweeps  BY DEF IronInit, SweepInv
<1>2. IronInv /\ AllSweeps /\ [IronNext]_ironVars => AllSweeps'
  BY SweepNext
<1>3. IronInv /\ AllSweeps => HalfTurnIsNotUsable
  <2> SUFFICES ASSUME IronInv, NEW k \in 1..2, NEW sign \in {-1, 1}, NEW way \in {-1, 1},
                      SweepInv(k, sign, way), turns \subseteq {way}, Sweeps(visited, k, sign, way)
               PROVE  ~IsUsable
    BY DEF HalfTurnIsNotUsable
  <2>1. sectors \subseteq Side(k, sign)  BY DEF SweepInv
  <2>2. Cardinality(sectors) <= 6 /\ Cardinality(sectors) \in Nat
    <3>1. IsFiniteSet(Side(k, sign)) /\ Cardinality(Side(k, sign)) <= 6  BY SideIsSix
    <3>2. Cardinality(sectors) <= Cardinality(Side(k, sign))  BY <2>1, <3>1, FS_Subset
    <3>3. Cardinality(Side(k, sign)) \in Nat  BY <3>1, FS_CardinalityType
    <3>4. Cardinality(sectors) \in Nat  BY SectorsFinite DEF IronInv, IronTypes
    <3> QED  BY <3>1, <3>2, <3>3, <3>4
  <2>3. SectorsRequired \in Nat  BY HardIronAssumption
  <2> QED  BY <2>2, <2>3 DEF IsUsable
<1> QED  BY <1>1, <1>2, <1>3, IronInvariance, PTL DEF IronSpec

=============================================================================
