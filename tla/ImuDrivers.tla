----------------------------- MODULE ImuDrivers -----------------------------
(***************************************************************************)
(* What the drivers of the two sensors of Imu9Axis write, in which order,  *)
(* and what they make of the bytes they read (src/src/drivers/imu).  The   *)
(* steps of an initialisation have the names of the registers; the scaling *)
(* to physical units is floating point and left out.                       *)
(***************************************************************************)
EXTENDS Integers, Sequences

CONSTANT Chunks    \* bursts the feature engine's image takes: 64

ASSUME ChunksAssumption == Chunks \in 1..64

ChunkBytes == 128

-----------------------------------------------------------------------------
(* The initialisation sequences *)

Settings == [inertial |-> <<"PWR_CTRL", "ACC_CONF", "ACC_RANGE", "GYR_CONF", "GYR_RANGE", "PWR_CONF">>,
             magnetic |-> <<"CONTROL_1", "CONTROL_0", "CONTROL_2">>]

\* Power save off and INIT_CTRL low, the image, INIT_CTRL high, the verdict.
UploadBegins == <<"POWER_SAVE_OFF", "INIT_CTRL_0">>
Upload == UploadBegins \o [k \in 1..Chunks |-> "INIT_DATA"]
          \o <<"INIT_CTRL_1", "INTERNAL_STATUS">>

InertialScript == <<"CMD_SOFT_RESET">> \o Upload \o Settings["inertial"]
MagneticScript == <<"PRODUCT_ID", "CONTROL_1_SOFT_RESET">> \o Settings["magnetic"]

Script == InertialScript \o MagneticScript

FirstChunk == 4    \* the step that writes chunk 0

Addressee(step) == IF step <= Len(InertialScript) THEN "inertial" ELSE "magnetic"

ItemsOf(s) == {s[n] : n \in DOMAIN s}

\* What a part that measures holds.
Configuration(s) ==
    ItemsOf(Settings[s]) \cup IF s = "inertial" THEN {"IMAGE"} ELSE {}

-----------------------------------------------------------------------------
(* The address of a chunk, in 16-bit words *)

WordAddress(index) == (index * ChunkBytes) \div 2

\* Bits 3:0 to INIT_ADDR_0 and bits 11:4 to INIT_ADDR_1; the part joins the two again.
InitAddr(index)  == [low |-> WordAddress(index) % 16, high |-> (WordAddress(index) \div 16) % 256]
WrittenAt(addr)  == addr.high * 16 + addr.low

ImageAddresses == {WordAddress(index) : index \in 0..Chunks - 1}

-----------------------------------------------------------------------------
(* Readings *)

Byte == 0..255

\* i16::from_le_bytes.
Word(low, high) ==
    LET raw == high * 256 + low IN IF raw < 32768 THEN raw ELSE raw - 65536

\* Bits 17:10 and 9:2 of an axis, and its two last bits in the byte the axes share.
Axis(high, low, shared, shift) == high * 1024 + low * 4 + ((shared \div shift) % 4)

AxisShift == [x |-> 64, y |-> 16, z |-> 4]

\* What the part sends for a reading of 16 bits, and for one of 18 bits on each axis.
LowByte(reading)  == (reading % 65536) % 256
HighByte(reading) == (reading % 65536) \div 256
SharedByte(x, y, z) == (x % 4) * 64 + (y % 4) * 16 + (z % 4) * 4

=============================================================================
