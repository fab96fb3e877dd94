---------------------------- MODULE Serialization ----------------------------
(***************************************************************************)
(* Serialize::Out and Serialize::In (OldCode/Packets/Serialize.h) and the  *)
(* classes that serialize themselves: packets, SizePacket frames, strings  *)
(* of fixed and bounded length, StringBucket and DynamicDataBucket.        *)
(*                                                                         *)
(* A script is the items a program writes one behind the other into a      *)
(* buffer and then reads back.  A number is the sequence of its bytes, the *)
(* most significant first; text is a sequence of character codes.  The     *)
(* host is little-endian.                                                  *)
(***************************************************************************)
EXTENDS Quantization, SequencesExt

CONSTANTS Scripts,     \* the scripts, a sequence
          MaxString,   \* ServerConstants.h: the size of the string reader's buffer
          Fill         \* what memory that was never written holds

Char == 0 .. 255

ASSUME MaxStringAssumption == MaxString \in Nat \ {0}
ASSUME FillAssumption == Fill \in Char

-----------------------------------------------------------------------------
(* Numbers.                                                                *)
Width == [U8 |-> 1, U16 |-> 2, U32 |-> 4, int |-> 4, U64 |-> 8]

\* n as a number of w bytes.
Bytes(n, w) == [i \in 1 .. w |-> IF w - i > 3 THEN 0 ELSE (n \div 256 ^ (w - i)) % 256]
ValueOf(number) ==
    LET value[i \in 0 .. Len(number)] ==
            IF i = 0 THEN 0 ELSE 256 * value[i - 1] + number[i]
    IN  value[Len(number)]

\* A number as it lies in memory, and back.
Memory(number) == Reverse(number)

\* htons and htonl of Winsock.
htonl(number) == Reverse(number)

\* Faulty variant: each half is swapped, but the halves stay in their places.
HalvesKept(number) == htonl(SubSeq(number, 1, 4)) \o htonl(SubSeq(number, 5, 8))

htonll(number) == htonl(SubSeq(number, 5, 8)) \o htonl(SubSeq(number, 1, 4))

NetworkOrder(number) == IF Len(number) = 8 THEN htonll(number) ELSE htonl(number)

NumberOut(number) == Memory(NetworkOrder(number))
NumberIn(bytes) == NetworkOrder(Memory(bytes))

-----------------------------------------------------------------------------
(* Text.                                                                   *)
Least(m, n) == IF m < n THEN m ELSE n

\* What a char array stands for: the characters before the first zero.
CString(text) == LET zeros == {i \in DOMAIN text : text[i] = 0}
                 IN  IF zeros = {} THEN text
                     ELSE SubSeq(text, 1, (CHOOSE i \in zeros : \A j \in zeros : i <= j) - 1)

StringOut(text) == NumberOut(Bytes(Len(text), 2)) \o text

\* FixedLengthString<8>, BoundedLengthString<8> and <16>.
Capacity == [FixedStringTiny |-> 8, BoundedStringTiny |-> 8, BoundedString16 |-> 16]

\* copy: what an object of the class holds of a text.
Copy(class, text) == SubSeq(text, 1, Least(Len(text), Capacity[class]))

\* strncpy pads with zeros up to the length of the class.
FixedOut(class, text) ==
    LET held == Copy(class, text)
    IN  held \o [i \in 1 .. Capacity[class] - Len(held) |-> 0]

BoundedOut(class, text) == StringOut(Copy(class, text))

Mapped(Op(_), seq) == [i \in DOMAIN seq |-> Op(seq[i])]

BucketOut(texts) == NumberOut(Bytes(Len(texts), 4)) \o FlattenSeq(Mapped(StringOut, texts))

\* The columns are those of the first row.  Without a row the code looks at
\* the end of the list: a debug build ends there (Abort), another one goes on
\* with what it finds, which is taken to be Fill.
Columns(rows) == IF rows = <<>> THEN Fill ELSE Len(rows[1])

TableOut(rows) == NumberOut(Bytes(Len(rows), 4)) \o NumberOut(Bytes(Columns(rows), 4))
                  \o FlattenSeq(Mapped(StringOut, FlattenSeq(rows)))

-----------------------------------------------------------------------------
(* Packets: the kinds of their fields in the order they are serialized.    *)
Header == <<"U8", "U8", "U8", "U8", "U8", "U16">>
ServerTickPacket == Header \o <<"U16">>
PositionPacket == ServerTickPacket \o <<"position", "rotation">>

Layout == [BasePacket            |-> Header,
           ConnectionCommsPacket |-> Header \o <<"U16">>,
           PositionPacket        |-> PositionPacket,
           MovementPacket        |-> PositionPacket \o <<"position">>]

Classes == DOMAIN Layout

\* packetType and packetSubType of each class that the factory knows.
TypeOfClass == [BasePacket |-> <<0, 0>>, ConnectionCommsPacket |-> <<0, 2>>,
                PositionPacket |-> <<2, 1>>, MovementPacket |-> <<2, 2>>]

\* An item of a script: its fields, the class it is read as, whether the
\* reader samples the type first, and whether it is inside a SizePacket.
Item(kind, values) ==
    [kind |-> kind, as |-> kind, values |-> values, probed |-> FALSE, framed |-> FALSE]

Kinds(kind) == IF kind \in Classes THEN Layout[kind] ELSE <<kind>>

FieldOut(kind, value) ==
    CASE kind \in DOMAIN Width -> NumberOut(value)
      [] kind = "bool" -> <<IF value THEN 1 ELSE 0>>
      [] kind = "string" -> StringOut(value)
      [] kind = "FixedStringTiny" -> FixedOut(kind, value)
      [] kind \in {"BoundedStringTiny", "BoundedString16"} -> BoundedOut(kind, value)
      [] kind = "bucket" -> BucketOut(value)
      [] kind = "table" -> TableOut(value)
      [] kind = "rotation" -> NumberOut(Bytes(SetRotation(value), 4))
      [] kind = "position" ->
             LET bits == PackPosition(value)
             IN  NumberOut([i \in 1 .. 8 |-> NumberOf(ShiftRight(bits, 64 - 8 * i) \cap (0 .. 7))])

FieldsOut(item) == FlattenSeq([i \in DOMAIN item.values |->
                                     FieldOut(Kinds(item.kind)[i], item.values[i])])

\* SizePacket: PacketType_NetworkProtocol, the size, and the packet.
ItemOut(item) ==
    IF item.framed THEN <<3>> \o NumberOut(Bytes(Len(FieldsOut(item)), 2)) \o FieldsOut(item)
    ELSE FieldsOut(item)

\* SizePacket frames are read from a buffer of num bytes.
num == 100

-----------------------------------------------------------------------------
(* What a program may write.  An std::string is any text whose length two  *)
(* bytes hold, a char array has no zero inside; a list has at most as many *)
(* elements as an int counts.                                              *)
FixedClasses == {"FixedStringTiny"}
BoundedClasses == {"BoundedStringTiny", "BoundedString16"}
Length == {n \in Nat : n < 65536}
Count == {n \in Nat : n <= 2147483647}

IsText(value) == value \in Seq(Char) /\ Len(value) \in Length

IsField(kind, value) ==
    CASE kind \in DOMAIN Width -> value \in [1 .. Width[kind] -> Char]
      [] kind = "bool" -> value \in BOOLEAN
      [] kind = "string" -> IsText(value)
      [] kind \in FixedClasses \cup BoundedClasses -> value \in Seq(Char \ {0})
      [] kind = "bucket" -> /\ value \in Seq(Seq(Char)) /\ Len(value) \in Count
                            /\ \A i \in DOMAIN value : IsText(value[i])
      [] kind = "table" -> /\ value \in Seq(Seq(Seq(Char))) /\ Len(value) \in Count
                           /\ Columns(value) \in Count
                           /\ \A i \in DOMAIN value :
                                  \A j \in DOMAIN value[i] : IsText(value[i][j])
      [] kind \in {"position", "rotation"} -> value \in [x : Int, y : Int, z : Int]
      [] OTHER -> FALSE

\* Strings of bounded length may be read by a class of another length; the
\* packets that are sampled or framed carry the type of their class.
IsItem(item) ==
    /\ Len(item.values) = Len(Kinds(item.kind)) /\ DOMAIN item.values = DOMAIN Kinds(item.kind)
    /\ \A k \in DOMAIN item.values : IsField(Kinds(item.kind)[k], item.values[k])
    /\ item.as # item.kind => {item.kind, item.as} \subseteq BoundedClasses
    /\ item.probed \in BOOLEAN /\ item.framed \in BOOLEAN
    /\ item.probed \/ item.framed =>
          /\ item.probed # item.framed
          /\ item.kind \in Classes
          /\ TypeOfClass[item.kind] = <<item.values[1][1], item.values[2][1]>>

\* A loop over frames reads all of them from one buffer.
IsScript(items) ==
    /\ items \in Seq(Range(items))
    /\ \A i \in DOMAIN items : IsItem(items[i])
    /\ items # <<>> /\ items[1].framed =>
          /\ \A i \in DOMAIN items : items[i].framed
          /\ Len(FlattenSeq(Mapped(ItemOut, items))) <= num

ASSUME ScriptAssumption == \A i \in DOMAIN Scripts : IsScript(Scripts[i])

-----------------------------------------------------------------------------
VARIABLES script,     \* which of Scripts is run
          data,       \* the bytes written; outOffset is their number
          starts,     \* the offset at which each written item starts
          inOffset,   \* the reader's offset
          bucket,     \* the StringBucket that every bucket is read into
          got,        \* what was read
          aborted     \* the writer has dereferenced the end of a list

vars == <<script, data, starts, inOffset, bucket, got, aborted>>

Items == Scripts[script]

Init == /\ script \in DOMAIN Scripts
        /\ data = <<>> /\ starts = <<>>
        /\ inOffset = 0
        /\ bucket = <<>>
        /\ got = <<>>
        /\ aborted = FALSE

\* The item that is written next.
Next0 == Items[Len(starts) + 1]

Out == /\ ~aborted /\ Len(starts) < Len(Items)
       /\ data' = data \o ItemOut(Next0)
       /\ starts' = Append(starts, Len(data))
       /\ UNCHANGED <<script, inOffset, bucket, got, aborted>>

\* In a debug build a table without rows ends the program.
IsRowless(item) == item.kind = "table" /\ item.values[1] = <<>>

Abort == /\ ~aborted /\ Len(starts) < Len(Items)
         /\ IsRowless(Next0)
         /\ aborted' = TRUE
         /\ UNCHANGED <<script, data, starts, inOffset, bucket, got>>

(* Reading.  What is read is its value and the offset behind it.           *)
Memcpy(at, n) == [i \in 1 .. n |-> IF at + i <= Len(data) THEN data[at + i] ELSE Fill]

NumberAt(at, n) == NumberIn(Memcpy(at, n))
Reading(value, next) == [value |-> value, next |-> next]

\* Faulty variant: the length counts the terminating zero.
StringInTooShort(at) ==
    LET len == Least(ValueOf(NumberAt(at, 2)), MaxString - 2)
    IN  Reading(CString(Memcpy(at + 2, len)), at + 2 + len)

\* The length is cut to the reader's buffer, and so is the step behind it.
StringIn(at) ==
    LET len == Least(ValueOf(NumberAt(at, 2)), MaxString - 1)
    IN  Reading(CString(Memcpy(at + 2, len)), at + 2 + len)

FixedIn(class, at) == Reading(CString(Memcpy(at, Capacity[class])), at + Capacity[class])

BoundedIn(class, at) ==
    LET m_length == Least(ValueOf(NumberAt(at, 2)), Capacity[class])
    IN  Reading(CString(Memcpy(at + 2, m_length)), at + 2 + m_length)

\* What was read so far, and one value more.
Extended(reading, next) == Reading(Append(reading.value, next.value), next.next)

\* n strings, appended to those that are there.
StringsIn(before, n, at) ==
    LET strings[i \in 0 .. n] ==
            IF i = 0 THEN Reading(before, at)
            ELSE Extended(strings[i - 1], StringIn(strings[i - 1].next))
    IN  strings[n]

BucketIn(at) == StringsIn(bucket, ValueOf(NumberAt(at, 4)), at + 4)

TableIn(at) ==
    LET n == ValueOf(NumberAt(at, 4))
        columns == ValueOf(NumberAt(at + 4, 4))
        rows[i \in 0 .. n] ==
            IF i = 0 THEN Reading(<<>>, at + 8)
            ELSE Extended(rows[i - 1], StringsIn(<<>>, columns, rows[i - 1].next))
    IN  rows[n]

FieldIn(kind, at) ==
    CASE kind \in DOMAIN Width -> Reading(NumberAt(at, Width[kind]), at + Width[kind])
      [] kind = "bool" -> Reading(Memcpy(at, 1)[1] # 0, at + 1)
      [] kind = "string" -> StringIn(at)
      [] kind = "FixedStringTiny" -> FixedIn(kind, at)
      [] kind \in {"BoundedStringTiny", "BoundedString16"} -> BoundedIn(kind, at)
      [] kind = "bucket" -> BucketIn(at)
      [] kind = "table" -> TableIn(at)
      [] kind = "rotation" -> Reading(GetRotation(ValueOf(NumberAt(at, 4))), at + 4)
      [] kind = "position" ->
             LET number == NumberAt(at, 8)
             IN  Reading(UnpackPosition(UNION {ShiftLeft(BitsOf(number[i]), 64 - 8 * i) : i \in 1 .. 8}),
                         at + 8)

\* The fields of these kinds, one behind the other.
FieldsFrom(kinds, at) ==
    LET fields[i \in 0 .. Len(kinds)] ==
            IF i = 0 THEN Reading(<<>>, at)
            ELSE Extended(fields[i - 1], FieldIn(kinds[i], fields[i - 1].next))
    IN  fields[Len(kinds)]

\* Faulty variant: a derived packet reads the fields of its base only.
BaseOnly(kind, at) == FieldsFrom(IF kind \in Classes THEN Header ELSE <<kind>>, at)

FieldsIn(kind, at) == FieldsFrom(Kinds(kind), at)

\* The item that is read next.
Next1 == Items[Len(got) + 1]
AllWritten == Len(starts) = Len(Items)

Store(kind, reading) ==
    /\ got' = Append(got, [kind |-> kind, values |-> reading.value])
    /\ inOffset' = reading.next
    /\ bucket' = IF kind = "bucket" THEN reading.value[1] ELSE bucket
    /\ UNCHANGED <<script, data, starts, aborted>>

In == /\ AllWritten /\ Len(got) < Len(Items)
      /\ ~Next1.probed /\ ~Next1.framed
      /\ Store(Next1.as, FieldsIn(Next1.as, inOffset))

\* A BasePacket is sampled at the offset, and PacketMethodFactory::Create
\* makes the packet of its type; a type without a class ends the reader.
Sampled(at, classes) ==
    LET sampler == FieldsIn("BasePacket", at).value
    IN  {c \in classes : TypeOfClass[c] = <<sampler[1][1], sampler[2][1]>>}

InProbed == /\ AllWritten /\ Len(got) < Len(Items)
            /\ Next1.probed
            /\ \E c \in Sampled(inOffset, Classes) : Store(c, FieldsIn(c, inOffset))

\* SizePacket::IsRemainingBufferBigenough; the probe offset has moved behind
\* the size when it is compared.
IsRemainingBufferBigenough(at, total) == ValueOf(NumberAt(at + 1, 2)) + at + 3 <= total

\* SizePacket::SerializeIn, called while the buffer is big enough.
InFrame == /\ AllWritten /\ Len(got) < Len(Items)
           /\ Next1.framed
           /\ IsRemainingBufferBigenough(inOffset, num)
           /\ \E c \in Sampled(inOffset + 3, Classes) : Store(c, FieldsIn(c, inOffset + 3))

Next == Out \/ Abort \/ In \/ InProbed \/ InFrame

Spec == Init /\ [][Next]_vars

-----------------------------------------------------------------------------
(* Properties.                                                             *)

(* Offsets, the reader's bucket and what was read have their types.        *)
TypeOK == /\ script \in DOMAIN Scripts
          /\ data \in Seq(Char)
          /\ starts \in Seq(Nat) /\ Len(starts) <= Len(Items)
          /\ inOffset \in Nat
          /\ bucket \in Seq(Seq(Char))
          /\ \A i \in DOMAIN got : Len(got[i].values) = Len(Kinds(got[i].kind))
          /\ aborted \in BOOLEAN /\ (aborted => Len(starts) < Len(Items))

\* A text that the reader's buffer holds, and an item that the reader takes whole.
FitsText(text) == Len(text) < MaxString

Fits(item) ==
    LET value == item.values[1] IN
    CASE item.kind = "string" -> FitsText(value)
      [] item.kind \in {"BoundedStringTiny", "BoundedString16"} ->
             Len(Copy(item.kind, value)) <= Capacity[item.as]
      [] item.kind = "bucket" -> \A i \in DOMAIN value : FitsText(value[i])
      [] item.kind = "table" -> \A i \in DOMAIN value :
             Len(value[i]) = Columns(value) /\ \A j \in DOMAIN value[i] : FitsText(value[i][j])
      [] OTHER -> TRUE

\* The item after the first i ones starts where they end, if they fit.
FitUpTo(i) == \A j \in 1 .. i : Fits(Items[j])
EndOf(i) == IF i < Len(starts) THEN starts[i + 1] ELSE Len(data)

\* What a field of the i-th item has to be read as.  std::string is read as
\* a C string; the strings of earlier buckets stay in the reader's one.
Kept(i, kind, value) ==
    CASE kind = "string" -> CString(value)
      [] kind \in DOMAIN Capacity -> Copy(Items[i].as, Copy(kind, value))
      [] kind = "bucket" -> FlattenSeq([j \in 1 .. i |->
             IF Items[j].kind = "bucket" THEN Mapped(CString, Items[j].values[1]) ELSE <<>>])
      [] kind = "table" -> [j \in DOMAIN value |-> Mapped(CString, value[j])]
      [] OTHER -> value

FramesLeft == AllWritten /\ Items[1].framed

(* Every field is read as the value that was written, in the class that    *)
(* was written and from the byte where it starts, as long as every item    *)
(* before it fits its reader: a string of MaxString characters, a bounded  *)
(* string read by a shorter class and a table with rows of several lengths *)
(* are all that leaves the reader in the middle of an item.  The loop over *)
(* frames reads every one, and stops behind one that ends with the buffer. *)
ReadAsWritten ==
    /\ FitUpTo(Len(got)) /\ got # <<>> => inOffset = EndOf(Len(got))
    /\ FramesLeft /\ Len(got) < Len(Items) => IsRemainingBufferBigenough(inOffset, num)
    /\ FramesLeft /\ inOffset = num => ~IsRemainingBufferBigenough(inOffset, num)
    /\ \A i \in DOMAIN got : FitUpTo(i) =>
          /\ got[i].kind = Items[i].as
          /\ \A k \in DOMAIN got[i].values :
                LET kind == Kinds(Items[i].kind)[k] IN
                kind \notin {"position", "rotation"} =>
                    got[i].values[k] = Kept(i, kind, Items[i].values[k])

\* Coordinates that twenty bits hold, and the distances to what is read.
InRange(v) == Magnitude(v) < 4096 * Fine
Apart(m, n) == Magnitude(m - n)
AnglesApart(angle, quanta) ==
    LET circle == 360 * Tenths * quantization
        d == Apart(angle * quantization, quanta) % circle
    IN  Least(d, circle - d)

(* Each coordinate comes back within a 256th and each angle within a       *)
(* 1024th of the circle, on the circle, whatever the other coordinates     *)
(* are: one that is out of range spoils itself only, and the signs survive *)
(* the fields of magnitudes.                                               *)
VectorsClose ==
    \A i \in DOMAIN got : FitUpTo(i) =>
        \A k \in DOMAIN got[i].values :
            LET kind == Kinds(Items[i].kind)[k]
                written == Items[i].values[k]
                read == got[i].values[k]
            IN  /\ kind = "position" => \A c \in {"x", "y", "z"} :
                       InRange(written[c]) => Apart(written[c], read[c]) * precision < Fine
                /\ kind = "rotation" => \A c \in {"x", "y", "z"} :
                       AnglesApart(written[c], read[c]) < 360 * Tenths

(* On the wire every number of every width has its most significant byte   *)
(* first, as the unit tests look it up: a round trip alone would not       *)
(* notice an order that both sides get wrong.                              *)
WireIsBigEndian ==
    \A i \in DOMAIN starts :
        Items[i].kind \in DOMAIN Width =>
            SubSeq(data, starts[i] + 1, EndOf(i)) = Items[i].values[1]
=============================================================================
