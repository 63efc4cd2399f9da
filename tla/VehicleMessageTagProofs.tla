----------------------- MODULE VehicleMessageTagProofs -----------------------
(***************************************************************************)
(* Proofs about VehicleMessageTag, for plates of any length and with a NUL *)
(* anywhere: which tags fit the room reserved for them, and that a tag     *)
(* that fits is read as it was written.  Serialized gives the place of     *)
(* every field in the buffer, behind a plate of k characters.              *)
(***************************************************************************)
EXTENDS VehicleMessageTag, TLAPS

Bytes == {"byte", "time", "mac", "id", "plate"} \X Nat

(* What the setters may have left. *)
Tagged(t) ==
  /\ t = [m_timestamp    |-> Field("time", 8),
          m_vehiclePlate |-> t.m_vehiclePlate,
          m_senderMac    |-> Field("mac", 6),
          m_isSanbao     |-> t.m_isSanbao,
          m_senderNodeId |-> Field("id", 4)]
  /\ t.m_vehiclePlate \in Seq(Bytes)
  /\ t.m_isSanbao \in BOOLEAN

IInv ==
  /\ pc \in {"new", "tagged", "peeked", "overrun"}
  /\ Tagged(tag)
  /\ pc = "overrun" => Len(Serialize(tag)) > GetSerializedSize
  /\ pc \in {"tagged", "peeked"} => /\ buffer = Serialize(tag)
                                    /\ Len(buffer) <= GetSerializedSize
  /\ pc = "peeked" => peeked = Deserialize

LEMMA FieldBytes ==
  ASSUME NEW name \in {"byte", "time", "mac", "id", "plate"}, NEW size \in Nat
  PROVE  /\ Field(name, size) \in Seq(Bytes) /\ Len(Field(name, size)) = size
         /\ \A i \in 1..size : Field(name, size)[i] = <<name, i>>
BY DEF Field, Bytes

LEMMA PlateBytes ==
  ASSUME NEW length \in Nat, NEW nul
  PROVE  Plate(length, nul) \in Seq(Bytes)
<1>1. \A i \in 1..length : (IF i = nul THEN NUL ELSE <<"plate", i>>) \in Bytes
  BY DEF NUL, Byte, Bytes
<1> QED
  BY <1>1 DEF Plate

Joined(s, t) == s \o t

LEMMA TwoParts ==
  ASSUME NEW s \in Seq(Bytes), NEW t \in Seq(Bytes)
  PROVE  /\ Joined(s, t) \in Seq(Bytes) /\ Len(Joined(s, t)) = Len(s) + Len(t)
         /\ \A i \in 1..Len(s) : Joined(s, t)[i] = s[i]
         /\ \A i \in 1..Len(t) : Joined(s, t)[Len(s) + i] = t[i]
BY DEF Joined

LEMMA Bits8 ==
  ASSUME NEW n \in Nat
  PROVE  n % 256 \in Nat /\ n % 256 < 256 /\ n % 256 <= n /\ (n < 256 => n % 256 = n)
OBVIOUS

LEMMA PlateLenFits ==
  ASSUME NEW p \in Seq(Bytes)
  PROVE  /\ PlateLen(p) \in Nat /\ PlateLen(p) < 256 /\ PlateLen(p) <= Len(p)
         /\ Len(p) < 256 => PlateLen(p) = Len(p)
<1>1. Len(p) \in Nat
  OBVIOUS
<1> QED
  BY <1>1, Bits8 DEF PlateLen

LEMMA PlateFront ==
  ASSUME NEW p \in Seq(Bytes), NEW k \in Nat, k <= Len(p)
  PROVE  /\ SubSeq(p, 1, k) \in Seq(Bytes) /\ Len(SubSeq(p, 1, k)) = k
         /\ SubSeq(p, 1, k) = [i \in 1..k |-> p[i]]
OBVIOUS

(* Where the fields are.                                                   *)
LEMMA Serialized ==
  ASSUME NEW t, Tagged(t)
  PROVE  LET p == t.m_vehiclePlate
             k == PlateLen(p)
             s == Serialize(t)
         IN  /\ Len(s) = 20 + k
             /\ \A i \in 1..8 : s[i] = <<"time", i>>
             /\ s[9] = Byte(k)
             /\ \A i \in 1..k : s[9 + i] = p[i]
             /\ \A i \in 1..6 : s[9 + k + i] = <<"mac", i>>
             /\ s[16 + k] = Byte(IF t.m_isSanbao THEN 1 ELSE 0)
             /\ \A i \in 1..4 : s[16 + k + i] = <<"id", i>>
<1> DEFINE p == t.m_vehiclePlate
           k == PlateLen(p)
           a == Field("time", 8)
           b == <<Byte(k)>>
           c == SubSeq(p, 1, k)
           d == Field("mac", 6)
           e == <<Byte(IF t.m_isSanbao THEN 1 ELSE 0)>>
           f == Field("id", 4)
<1>1. Serialize(t) = a \o b \o c \o d \o e \o f
  <2>1. t.m_timestamp = a /\ t.m_senderMac = d /\ t.m_senderNodeId = f
    BY DEF Tagged
  <2> QED
    BY <2>1 DEF Serialize
<1>2. /\ k \in Nat /\ c \in Seq(Bytes) /\ Len(c) = k
      /\ \A i \in 1..k : c[i] = p[i]
  <2>1. p \in Seq(Bytes) /\ k \in Nat /\ k <= Len(p)
    <3>1. p \in Seq(Bytes)
      BY DEF Tagged
    <3> QED
      BY <3>1, PlateLenFits
  <2> HIDE DEF k, p
  <2> QED
    BY <2>1, PlateFront
<1>3. /\ a \in Seq(Bytes) /\ Len(a) = 8 /\ \A i \in 1..8 : a[i] = <<"time", i>>
      /\ d \in Seq(Bytes) /\ Len(d) = 6 /\ \A i \in 1..6 : d[i] = <<"mac", i>>
      /\ f \in Seq(Bytes) /\ Len(f) = 4 /\ \A i \in 1..4 : f[i] = <<"id", i>>
  BY FieldBytes
<1>4. b \in Seq(Bytes) /\ Len(b) = 1 /\ b[1] = Byte(k)
  BY <1>2 DEF Byte, Bytes
<1>5. e \in Seq(Bytes) /\ Len(e) = 1 /\ e[1] = Byte(IF t.m_isSanbao THEN 1 ELSE 0)
  <2>1. Byte(IF t.m_isSanbao THEN 1 ELSE 0) \in Bytes
    BY DEF Byte, Bytes
  <2> QED
    BY <2>1
<1> HIDE DEF a, b, c, d, e, f, k, p
<1> DEFINE s2 == Joined(a, b)
           s3 == Joined(s2, c)
           s4 == Joined(s3, d)
           s5 == Joined(s4, e)
           s6 == Joined(s5, f)
<1>6. /\ s2 \in Seq(Bytes) /\ Len(s2) = 9 /\ s2[9] = Byte(k)
      /\ \A i \in 1..8 : s2[i] = <<"time", i>>
  <2>1. /\ s2 \in Seq(Bytes) /\ Len(s2) = Len(a) + Len(b)
        /\ \A i \in 1..Len(a) : s2[i] = a[i]
        /\ \A i \in 1..Len(b) : s2[Len(a) + i] = b[i]
    BY <1>3, <1>4, TwoParts
  <2> HIDE DEF s2
  <2>2. s2[8 + 1] = b[1]
    BY <1>3, <1>4, <2>1
  <2> QED
    BY <1>3, <1>4, <2>1, <2>2
<1> HIDE DEF s2
<1>7. /\ s3 \in Seq(Bytes) /\ Len(s3) = 9 + k
      /\ \A i \in 1..9 : s3[i] = s2[i]
      /\ \A i \in 1..k : s3[9 + i] = p[i]
  <2>1. /\ s3 \in Seq(Bytes) /\ Len(s3) = Len(s2) + Len(c)
        /\ \A i \in 1..Len(s2) : s3[i] = s2[i]
        /\ \A i \in 1..Len(c) : s3[Len(s2) + i] = c[i]
    BY <1>2, <1>6, TwoParts
  <2> HIDE DEF s3
  <2> QED
    BY <1>2, <1>6, <2>1
<1> HIDE DEF s3
<1>8. /\ s4 \in Seq(Bytes) /\ Len(s4) = 15 + k
      /\ \A i \in 1..(9 + k) : s4[i] = s3[i]
      /\ \A i \in 1..6 : s4[9 + k + i] = <<"mac", i>>
  <2>1. /\ s4 \in Seq(Bytes) /\ Len(s4) = Len(s3) + Len(d)
        /\ \A i \in 1..Len(s3) : s4[i] = s3[i]
        /\ \A i \in 1..Len(d) : s4[Len(s3) + i] = d[i]
    BY <1>3, <1>7, TwoParts
  <2> HIDE DEF s4
  <2>2. s4 \in Seq(Bytes) /\ Len(s4) = 15 + k /\ \A i \in 1..(9 + k) : s4[i] = s3[i]
    BY <1>2, <1>3, <1>7, <2>1
  <2>3. \A i \in 1..6 : s4[9 + k + i] = d[i]
    BY <1>3, <1>7, <2>1
  <2> QED
    BY <1>3, <2>2, <2>3
<1> HIDE DEF s4
<1>9. /\ s5 \in Seq(Bytes) /\ Len(s5) = 16 + k
      /\ \A i \in 1..(15 + k) : s5[i] = s4[i]
      /\ s5[16 + k] = Byte(IF t.m_isSanbao THEN 1 ELSE 0)
  <2>1. /\ s5 \in Seq(Bytes) /\ Len(s5) = Len(s4) + Len(e)
        /\ \A i \in 1..Len(s4) : s5[i] = s4[i]
        /\ \A i \in 1..Len(e) : s5[Len(s4) + i] = e[i]
    BY <1>5, <1>8, TwoParts
  <2> HIDE DEF s5
  <2>2. s5[15 + k + 1] = e[1]
    BY <1>5, <1>8, <2>1
  <2>3. 15 + k + 1 = 16 + k
    BY <1>2
  <2> QED
    BY <1>2, <1>5, <1>8, <2>1, <2>2, <2>3
<1> HIDE DEF s5
<1>10. /\ Len(s6) = 20 + k
       /\ \A i \in 1..(16 + k) : s6[i] = s5[i]
       /\ \A i \in 1..4 : s6[16 + k + i] = <<"id", i>>
  <2>1. /\ s6 \in Seq(Bytes) /\ Len(s6) = Len(s5) + Len(f)
        /\ \A i \in 1..Len(s5) : s6[i] = s5[i]
        /\ \A i \in 1..Len(f) : s6[Len(s5) + i] = f[i]
    BY <1>3, <1>9, TwoParts
  <2> HIDE DEF s6
  <2> QED
    BY <1>2, <1>3, <1>9, <2>1
<1>11. Serialize(t) = s6
  BY <1>1 DEF s2, s3, s4, s5, Joined
<1> HIDE DEF s6
<1>12. /\ \A i \in 1..9 : s6[i] = s2[i]
       /\ \A i \in 1..k : s6[9 + i] = p[i]
       /\ \A i \in 1..6 : s6[9 + k + i] = <<"mac", i>>
       /\ s6[16 + k] = Byte(IF t.m_isSanbao THEN 1 ELSE 0)
  <2>1. \A i \in 1..(15 + k) : s6[i] = s4[i]
    BY <1>2, <1>9, <1>10
  <2>2. \A i \in 1..(9 + k) : s6[i] = s3[i]
    <3>1. \A i \in 1..(9 + k) : i \in 1..(15 + k)
      BY <1>2
    <3> QED
      BY <1>8, <2>1, <3>1
  <2>3. \A i \in 1..9 : s6[i] = s2[i]
    BY <1>2, <1>7, <2>2
  <2>4. \A i \in 1..k : s6[9 + i] = p[i]
    BY <1>2, <1>7, <2>2
  <2>5. \A i \in 1..6 : s6[9 + k + i] = <<"mac", i>>
    BY <1>2, <1>8, <2>1
  <2>6. s6[16 + k] = Byte(IF t.m_isSanbao THEN 1 ELSE 0)
    BY <1>2, <1>9, <1>10
  <2> QED
    BY <2>3, <2>4, <2>5, <2>6
<1> QED
  BY <1>6, <1>10, <1>11, <1>12 DEF k, p

(* What a receiver reads.                                                  *)
LEMMA Deserialized ==
  ASSUME NEW t, Tagged(t), buffer = Serialize(t)
  PROVE  LET k == PlateLen(t.m_vehiclePlate)
         IN  Deserialize = [t EXCEPT !.m_vehiclePlate =
                              CString(SubSeq(t.m_vehiclePlate, 1, k))]
<1> DEFINE p == t.m_vehiclePlate
           k == PlateLen(p)
<1>1. /\ Len(buffer) = 20 + k
      /\ \A i \in 1..8 : buffer[i] = <<"time", i>>
      /\ buffer[9] = Byte(k)
      /\ \A i \in 1..k : buffer[9 + i] = p[i]
      /\ \A i \in 1..6 : buffer[9 + k + i] = <<"mac", i>>
      /\ buffer[16 + k] = Byte(IF t.m_isSanbao THEN 1 ELSE 0)
      /\ \A i \in 1..4 : buffer[16 + k + i] = <<"id", i>>
  BY Serialized
<1>2. k \in Nat /\ p \in Seq(Bytes) /\ k <= Len(p)
  <2>1. p \in Seq(Bytes)
    BY DEF Tagged
  <2> QED
    BY <2>1, PlateLenFits
<1>4. DOMAIN buffer = 1..(20 + k)
  BY <1>1, <1>2
<1> HIDE DEF k, p
<1>3. SubSeq(p, 1, k) = [i \in 1..k |-> p[i]]
  BY <1>2, PlateFront
<1>5. Read(9, 1)[1][2] = k
  <2>1. 9 + 1 - 1 = 9 /\ 9 \in DOMAIN buffer
    BY <1>2, <1>4
  <2>2. Read(9, 1)[1] = buffer[9]
    BY <2>1 DEF Read
  <2> QED
    BY <1>1, <2>2 DEF Byte
<1>6. Read(1, 8) = Field("time", 8)
  <2>1. \A i \in 1..8 : 1 + i - 1 = i /\ i \in DOMAIN buffer
    BY <1>2, <1>4
  <2> QED
    BY <1>1, <2>1 DEF Read, Field
<1>7. Read(10, k) = SubSeq(p, 1, k)
  <2>1. \A i \in 1..k : 10 + i - 1 = 9 + i /\ 10 + i - 1 \in DOMAIN buffer
    BY <1>2, <1>4
  <2> QED
    BY <1>1, <1>3, <2>1 DEF Read
<1>8. Read(10 + k, 6) = Field("mac", 6)
  <2>1. \A i \in 1..6 : 10 + k + i - 1 = 9 + k + i /\ 10 + k + i - 1 \in DOMAIN buffer
    BY <1>2, <1>4
  <2> QED
    BY <1>1, <2>1 DEF Read, Field
<1>9. Read(17 + k, 4) = Field("id", 4)
  <2>1. \A i \in 1..4 : 17 + k + i - 1 = 16 + k + i /\ 17 + k + i - 1 \in DOMAIN buffer
    BY <1>2, <1>4
  <2> QED
    BY <1>1, <2>1 DEF Read, Field
<1>10. (Read(16 + k, 1)[1] = Byte(1)) = t.m_isSanbao
  <2>1. 16 + k + 1 - 1 = 16 + k /\ 16 + k \in DOMAIN buffer
    BY <1>2, <1>4
  <2>2. Read(16 + k, 1)[1] = buffer[16 + k]
    BY <2>1 DEF Read
  <2>3. Byte(1) # Byte(0) /\ t.m_isSanbao \in BOOLEAN
    BY DEF Byte, Tagged
  <2> QED
    BY <1>1, <2>2, <2>3
<1>11. Deserialize = [m_timestamp    |-> Field("time", 8),
                      m_vehiclePlate |-> CString(SubSeq(p, 1, k)),
                      m_senderMac    |-> Field("mac", 6),
                      m_isSanbao     |-> t.m_isSanbao,
                      m_senderNodeId |-> Field("id", 4)]
  BY <1>5, <1>6, <1>7, <1>8, <1>9, <1>10 DEF Deserialize, PlateRead
<1> QED
  BY <1>11 DEF Tagged, k, p

-----------------------------------------------------------------------------
LEMMA InitHolds == Init => IInv
<1> SUFFICES ASSUME Init PROVE IInv
  OBVIOUS
<1>1. PICK length \in Lengths, nul \in Nuls, sanbao \in BOOLEAN :
        tag = [m_timestamp    |-> Field("time", 8),
               m_vehiclePlate |-> Plate(length, nul),
               m_senderMac    |-> Field("mac", 6),
               m_isSanbao     |-> sanbao,
               m_senderNodeId |-> Field("id", 4)]
  BY DEF Init
<1>2. Plate(length, nul) \in Seq(Bytes)
  BY PlatesAssumption, PlateBytes
<1>3. Tagged(tag)
  BY <1>1, <1>2 DEF Tagged
<1> QED
  BY <1>3 DEF Init, IInv

LEMMA StepKeeps == IInv /\ [Next]_vars => IInv'
<1> SUFFICES ASSUME IInv, [Next]_vars PROVE IInv'
  OBVIOUS
<1>1. CASE AddPacketTag
  <2>1. tag' = tag /\ Tagged(tag') /\ pc' \in {"tagged", "overrun"}
    BY <1>1 DEF AddPacketTag, IInv
  <2>2. /\ pc' = "tagged" => buffer' = Serialize(tag) /\ Len(Serialize(tag)) <= GetSerializedSize
        /\ pc' = "overrun" => Len(Serialize(tag)) > GetSerializedSize
    <3>1. Len(Serialize(tag)) = 20 + PlateLen(tag.m_vehiclePlate)
      BY Serialized DEF IInv
    <3>2. Len(Serialize(tag)) \in Nat
      BY <3>1, PlateLenFits DEF IInv, Tagged
    <3> QED
      BY <1>1, <3>2 DEF AddPacketTag, GetSerializedSize, PlateBuffer
  <2> QED
    BY <2>1, <2>2 DEF IInv
<1>2. CASE PeekPacketTag
  <2>1. pc = "tagged" /\ pc' = "peeked" /\ peeked' = Deserialize /\ tag' = tag /\ buffer' = buffer
    BY <1>2 DEF PeekPacketTag
  <2>2. Deserialize' = Deserialize
    BY <2>1 DEF Deserialize, Read
  <2> QED
    BY <2>1, <2>2 DEF IInv
<1>3. CASE UNCHANGED vars
  BY <1>3 DEF vars, IInv, Deserialize, Read
<1> QED
  BY <1>1, <1>2, <1>3 DEF Next

(* The packet carries the tag byte for byte, or the room was too small.    *)
THEOREM Invariance == Spec => []IInv
<1> QED
  BY InitHolds, StepKeeps, PTL DEF Spec

(* A plate of at most 15 characters fits, and so does no longer one whose  *)
(* length a byte can count.                                                *)
THEOREM RoomCorrect == Spec => []FitsUpTo15
<1>1. IInv => FitsUpTo15
  <2> SUFFICES ASSUME IInv PROVE FitsUpTo15
    OBVIOUS
  <2> DEFINE p == tag.m_vehiclePlate
  <2>1. p \in Seq(Bytes) /\ Len(Serialize(tag)) = 20 + PlateLen(p)
    BY Serialized DEF IInv, Tagged
  <2>2. /\ PlateLen(p) \in Nat /\ PlateLen(p) < 256 /\ PlateLen(p) <= Len(p)
        /\ Len(p) < 256 => PlateLen(p) = Len(p)
    BY <2>1, PlateLenFits
  <2> HIDE DEF p
  <2>3. /\ 20 + PlateLen(p) > GetSerializedSize => Len(p) > 15
        /\ 20 + PlateLen(p) <= GetSerializedSize => Len(p) < 16 \/ Len(p) > 255
    <3>1. Len(p) \in Nat
      BY <2>1
    <3>2. GetSerializedSize = 35
      BY DEF GetSerializedSize, PlateBuffer
    <3> QED
      BY <2>2, <3>1, <3>2
  <2>4. /\ pc = "overrun" => Len(p) > 15
        /\ pc \in {"tagged", "peeked"} => Len(p) < 16 \/ Len(p) > 255
    BY <2>1, <2>3 DEF IInv
  <2>5. \A n : n < 16 \/ n > 255 => n \notin 16..255
    OBVIOUS
  <2>6. PlateBuffer = 16 /\ PlateBuffer - 1 = 15
    BY DEF PlateBuffer
  <2>7. /\ pc = "overrun" => Len(p) > PlateBuffer - 1
        /\ pc \in {"tagged", "peeked"} => Len(p) \notin PlateBuffer..255
    BY <2>4, <2>5, <2>6, Zenon
  <2> QED
    BY <2>7, Zenon DEF FitsUpTo15, p
<1> QED
  BY <1>1, Invariance, PTL

(* A tag that fits is read with the right sender, MAC and Sanbao flag, and *)
(* a proper plate with all its characters.                                 *)
THEOREM ReadingCorrect == Spec => []ReadsWhatWasWritten
<1>1. IInv => ReadsWhatWasWritten
  <2> SUFFICES ASSUME IInv, pc = "peeked"
               PROVE  /\ [peeked EXCEPT !.m_vehiclePlate = tag.m_vehiclePlate] = tag
                      /\ /\ Len(tag.m_vehiclePlate) < PlateBuffer
                         /\ NUL \notin {tag.m_vehiclePlate[i] : i \in DOMAIN tag.m_vehiclePlate}
                         => peeked = tag
    BY DEF ReadsWhatWasWritten
  <2> DEFINE p == tag.m_vehiclePlate
             k == PlateLen(p)
             read == CString(SubSeq(p, 1, k))
  <2>1. Tagged(tag) /\ p \in Seq(Bytes) /\ peeked = [tag EXCEPT !.m_vehiclePlate = read]
    BY Deserialized DEF IInv, Tagged
  <2>2. [peeked EXCEPT !.m_vehiclePlate = p] = tag
    <3> HIDE DEF read
    <3> QED
      BY <2>1 DEF Tagged
  <2>3. ASSUME Len(p) < PlateBuffer, NUL \notin {p[i] : i \in DOMAIN p} PROVE read = p
    <3>1. k = Len(p) /\ SubSeq(p, 1, k) = p
      BY <2>1, <2>3, PlateLenFits, PlateFront DEF PlateBuffer
    <3>2. {i \in DOMAIN p : p[i] = NUL} = {}
      BY <2>3
    <3> QED
      BY <3>1, <3>2 DEF CString
  <2>4. [tag EXCEPT !.m_vehiclePlate = p] = tag
    BY <2>1 DEF Tagged
  <2> QED
    BY <2>1, <2>2, <2>3, <2>4
<1> QED
  BY <1>1, Invariance, PTL
=============================================================================
