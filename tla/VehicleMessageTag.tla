-------------------------- MODULE VehicleMessageTag --------------------------
(***************************************************************************)
(* VehicleMessageTag (scratch/vanet-simulation.cc): how the tag of a       *)
(* broadcast is written into the room its packet reserves for it and read  *)
(* back by the vehicles that receive it.  The bytes of the fixed fields    *)
(* are told apart by field and place; those of the plate are the plate's   *)
(* own characters, NUL among them.                                         *)
(***************************************************************************)
EXTENDS Integers, Sequences

CONSTANTS
  Lengths,   \* the lengths of the plates tried
  Nuls       \* where a plate may hold a NUL character, 0 for nowhere

ASSUME PlatesAssumption == Lengths \subseteq Nat /\ Nuls \subseteq Nat

VARIABLES
  pc,        \* new, tagged (the packet carries the tag), peeked or overrun
  tag,       \* the tag as its setters left it
  buffer,    \* the bytes written into the room reserved for it
  peeked     \* the tag as a receiver reads it

vars == <<pc, tag, buffer, peeked>>

(* A byte is a pair: what it is part of, and its value or its place there. *)
Byte(value) == <<"byte", value>>
NUL == Byte(0)
Field(name, size) == [i \in 1..size |-> <<name, i>>]
Plate(length, nul) == [i \in 1..length |-> IF i = nul THEN NUL ELSE <<"plate", i>>]

Init ==
  /\ pc = "new"
  /\ \E length \in Lengths, nul \in Nuls, sanbao \in BOOLEAN :
       tag = [m_timestamp    |-> Field("time", 8),
              m_vehiclePlate |-> Plate(length, nul),
              m_senderMac    |-> Field("mac", 6),
              m_isSanbao     |-> sanbao,
              m_senderNodeId |-> Field("id", 4)]
  /\ buffer = <<>>
  /\ peeked = tag

(* m_vehiclePlateBuffer, whose 16 bytes the size still counts. *)
PlateBuffer == 16
SizeBeforeNodeId == 8 + PlateBuffer + 6 + 1   \* slip: the node id, added later, not counted
GetSerializedSize == 8 + PlateBuffer + 6 + 1 + 4

(* uint8_t plateLen = m_vehiclePlate.length() *)
PlateLen(plate) == Len(plate) % 256

Serialize(t) ==
  t.m_timestamp
    \o <<Byte(PlateLen(t.m_vehiclePlate))>> \o SubSeq(t.m_vehiclePlate, 1, PlateLen(t.m_vehiclePlate))
    \o t.m_senderMac \o <<Byte(IF t.m_isSanbao THEN 1 ELSE 0)>> \o t.m_senderNodeId

(* n bytes from place p on; what nobody wrote is junk. *)
Read(p, n) == [i \in 1..n |-> IF p + i - 1 \in DOMAIN buffer THEN buffer[p + i - 1] ELSE <<"junk", 0>>]

(* A std::string assigned from a char array ends at the first NUL. *)
CString(s) ==
  LET ends == {i \in DOMAIN s : s[i] = NUL}
  IN  IF ends = {} THEN s ELSE SubSeq(s, 1, (CHOOSE i \in ends : \A j \in ends : i <= j) - 1)

(* The bytes of the plate to read; plateLen, a uint8_t, is always < 256.   *)
PlateReadWithNul(plateLen) == plateLen + 1   \* slip: the terminator, never written, read too
PlateRead(plateLen) == plateLen

Deserialize ==
  LET n == PlateRead(Read(9, 1)[1][2])
  IN  [m_timestamp    |-> Read(1, 8),
       m_vehiclePlate |-> CString(Read(10, n)),
       m_senderMac    |-> Read(10 + n, 6),
       m_isSanbao     |-> Read(16 + n, 1)[1] = Byte(1),
       m_senderNodeId |-> Read(17 + n, 4)]

(* AddPacketTag reserves GetSerializedSize bytes and has the tag written.  *)
AddPacketTag ==
  /\ pc = "new"
  /\ IF Len(Serialize(tag)) <= GetSerializedSize
     THEN pc' = "tagged" /\ buffer' = Serialize(tag)
     ELSE pc' = "overrun" /\ UNCHANGED buffer
  /\ UNCHANGED <<tag, peeked>>

PeekPacketTag ==
  /\ pc = "tagged"
  /\ pc' = "peeked"
  /\ peeked' = Deserialize
  /\ UNCHANGED <<tag, buffer>>

Next == AddPacketTag \/ PeekPacketTag

Spec == Init /\ [][Next]_vars

-----------------------------------------------------------------------------
(* Properties.                                                             *)

(* m_vehiclePlate: "a plate is assumed to be 15 characters at most".  Such *)
(* a plate, and no other that a byte can count, fits in the room.          *)
FitsUpTo15 ==
  /\ pc = "overrun" => Len(tag.m_vehiclePlate) > PlateBuffer - 1
  /\ pc \in {"tagged", "peeked"} => Len(tag.m_vehiclePlate) \notin PlateBuffer..255

(* Whatever the plate, NULs and lengths beyond a byte included, a tag that *)
(* fits is read with the right sender, MAC and Sanbao flag, and with the   *)
(* plate itself when it is a proper one.                                   *)
ReadsWhatWasWritten ==
  pc = "peeked" =>
    /\ [peeked EXCEPT !.m_vehiclePlate = tag.m_vehiclePlate] = tag
    /\ Len(tag.m_vehiclePlate) < PlateBuffer /\ NUL \notin {tag.m_vehiclePlate[i] : i \in DOMAIN tag.m_vehiclePlate}
         => peeked = tag
=============================================================================
