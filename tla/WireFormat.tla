----------------------------- MODULE WireFormat ------------------------------
(***************************************************************************)
(* How a snapshot becomes bytes and bytes become a snapshot again:         *)
(* ByteWriter and ByteReader (common/net/include/net/byte_stream.h), the   *)
(* header of a datagram and the snapshot's encoding (snapshot.cpp).  The   *)
(* fields have the widths of the code.  A byte takes Byte values, 256 in   *)
(* the code, and one float stands for the thirteen of an entity's          *)
(* position, rotation and velocities; a float is the bits it is sent as.   *)
(***************************************************************************)
EXTENDS Naturals, Sequences, SequencesExt

CONSTANTS Byte, kMaxEntitiesPerSnapshot

ASSUME WireAssumption == Byte \in Nat \ {0, 1} /\ kMaxEntitiesPerSnapshot \in Nat

u8 == 1
u16 == 2
u32 == 4
u64 == 8
f32 == 4

\* How many values n bytes take, up to the widest field.
Power[n \in 0..u64] == IF n = 0 THEN 1 ELSE Byte * Power[n - 1]

\* ByteWriter: the least significant byte first, whatever does not fit cut off.
little(v, width) == [i \in 1..width |-> (v \div Power[i - 1]) % Byte]

\* ByteReader, on a buffer that has width bytes at the offset.
take(data, offset, width) ==
  LET value[i \in 0..width] ==
        IF i = 0 THEN 0 ELSE value[i - 1] + data[offset + i] * Power[i - 1]
  IN value[width]
-----------------------------------------------------------------------------
kUdpMagic == 7
kSnapshotType == 3
HeaderSize == u32 + u16 + u32

writeUdpHeader(type, sequence) ==
  little(kUdpMagic, u32) \o little(type, u16) \o little(sequence, u32)

readUdpHeader(data) ==
  IF Len(data) < HeaderSize \/ take(data, 0, u32) # kUdpMagic
  THEN [ok |-> FALSE]
  ELSE [ok |-> TRUE, type |-> take(data, u32, u16), sequence |-> take(data, u32 + u16, u32)]
-----------------------------------------------------------------------------
\* A snapshot is a tick, the server's time, the world's clock and a sequence of
\* entities.
EntitySize == u32 + u8 + f32 + u32
SnapshotSize == u32 + u64 + f32 + u16

encodeEntity(e) ==
  little(e.id, u32) \o little(e.type, u8) \o little(e.pose, f32)
    \o little(e.lastInputSequence, u32)

encodeSnapshot(s) ==
  little(s.tick, u32) \o little(s.serverTimeMs, u64) \o little(s.timeOfDay, f32)
    \o little(Len(s.entities), u16)
    \o FlattenSeq([i \in DOMAIN s.entities |-> encodeEntity(s.entities[i])])

decodeEntity(data, offset) ==
  [id |-> take(data, offset, u32),
   type |-> take(data, offset + u32, u8),
   pose |-> take(data, offset + u32 + u8, f32),
   lastInputSequence |-> take(data, offset + u32 + u8 + f32, u32)]

\* A snapshot that is cut off, or claims more entities than a snapshot may have,
\* is refused as a whole.
Complete(data, count) == Len(data) >= SnapshotSize + count * EntitySize

decodeSnapshot(data) ==
  LET count == take(data, u32 + u64 + f32, u16)
  IN IF Len(data) < SnapshotSize THEN [ok |-> FALSE]
     ELSE IF count > kMaxEntitiesPerSnapshot \/ ~Complete(data, count) THEN [ok |-> FALSE]
     ELSE [ok |-> TRUE,
           tick |-> take(data, 0, u32),
           serverTimeMs |-> take(data, u32, u64),
           timeOfDay |-> take(data, u32 + u64, f32),
           entities |-> [i \in 1..count |-> decodeEntity(data, SnapshotSize + (i - 1) * EntitySize)]]
=============================================================================
