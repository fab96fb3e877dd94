------------------------- MODULE SerializationTests -------------------------
(***************************************************************************)
(* The scripts that the unit tests of UnitTest_BasicNetworking.cpp write   *)
(* and read, one definition per test, and sweeps over the values that the  *)
(* tests leave out.  Coordinates are given in the code's units by At and   *)
(* angles in degrees by Degrees.                                           *)
(***************************************************************************)
EXTENDS Serialization, FiniteSets

Number(kind, bytes) == Item(kind, <<bytes>>)

\* A value of 16 bits in a number of any width.
Small(kind, hi, lo) ==
    LET w == Width[kind] IN
    Number(kind, [i \in 1 .. w |-> CASE i = w -> lo [] i = w - 1 -> hi [] OTHER -> 0])

\* Text of n characters.
Text(n) == [i \in 1 .. n |-> 65 + (i % 26)]

At(x, y, z) == [x |-> x * Fine, y |-> y * Fine, z |-> z * Fine]
Degrees(x, y, z) == [x |-> x * Tenths, y |-> y * Tenths, z |-> z * Tenths]

\* serialized bytes of BasePacket: the class's type, the sub type, versions,
\* product and instance.
HeaderOf(class, subType, major, minor, product, instance) ==
    <<<<TypeOfClass[class][1]>>, <<subType>>, <<major>>, <<minor>>, <<product>>,
      Bytes(instance, 2)>>

\* A packet with the values the tests give it, and one as it is constructed.
TestPacket(class, subType, fields) == Item(class, HeaderOf(class, subType, 56, 11, 13, 1) \o fields)
NewPacket(class, product, instance, fields) ==
    Item(class, HeaderOf(class, TypeOfClass[class][2], 51, 0, product, instance) \o fields)

Hello == 1   \* BasePacket_Hello
Tick(n) == Bytes(n, 2)
Probed(item) == [item EXCEPT !.probed = TRUE]
Framed(item) == [item EXCEPT !.framed = TRUE]

-----------------------------------------------------------------------------
BasicU16Copy == <<Number("U16", <<254, 172>>)>>

MultipleU16Copy ==
    <<Small("int", 0, 6)>>
    \o Mapped(LAMBDA n : Number("U16", n),
              <<<<254, 172>>, <<241, 252>>, <<18, 52>>, <<171, 205>>, <<190, 239>>, <<85, 170>>>>)

BasicMostSizesCopy ==
    Mapped(LAMBDA kind : Small(kind, 254, IF kind = "U8" THEN 254 ELSE 172),
           <<"U8", "U16", "U32", "U64", "U8", "U64", "U32", "U16">>)

BasicUStringCopy == Mapped(LAMBDA n : Item("string", <<Text(n)>>), <<5, 27, 13>>)

BasicBoolCopy == Mapped(LAMBDA b : Item("bool", <<b>>), <<TRUE, FALSE, TRUE, TRUE>>)

\* BoilerplateRewrite, MovementPacketsAndArrays and its Pointer variant.
BasicBasePacketTests ==
    <<<<TestPacket("BasePacket", 0, <<>>)>>, <<TestPacket("BasePacket", Hello, <<>>)>>>>

BasicMovementPacketTest ==
    <<TestPacket("MovementPacket", Hello,
                 <<Tick(25), At(1, 2, -3), Degrees(18, 32, 270), At(5, 2, 0)>>)>>

Basic_PacketHeirarchyAndPointerTest ==
    <<TestPacket("BasePacket", 0, <<>>),
      TestPacket("PositionPacket", 1, <<Tick(0), At(1, 2, -3), Degrees(18, 32, 270)>>),
      TestPacket("MovementPacket", 2,
                 <<Tick(0), At(1, 2, -3), Degrees(18, 32, 270), At(18, 32, 270)>>)>>

MultipleMovementPacketTest ==
    [i \in 1 .. 4 |-> TestPacket("MovementPacket", Hello,
                          <<Tick(0), At(1, 2, -3), Degrees(18, 32, 270), At(0, 0, 0)>>)]

FactoryTest_FactoryTest ==
    Mapped(Probed,
           <<NewPacket("BasePacket", 0, 0, <<>>),
             NewPacket("ConnectionCommsPacket", 0, 0, <<Bytes(24, 2)>>),
             NewPacket("MovementPacket", 0, 0, <<Tick(0), At(0, 0, 0), Degrees(0, 0, 0), At(0, 0, 0)>>),
             NewPacket("PositionPacket", 0, 0, <<Tick(0), At(1, 20, -3), Degrees(20, 17, -20)>>)>>)

Deserialize_1WrappedPacket == <<Framed(NewPacket("BasePacket", 51, 13, <<>>))>>

Deserialize_WrappedPackets ==
    LET base == NewPacket("BasePacket", 51, 13, <<>>)
        position == NewPacket("PositionPacket", 51, 13, <<Tick(0), At(0, 0, 0), Degrees(0, 0, 0)>>)
        movement == NewPacket("MovementPacket", 51, 13,
                              <<Tick(0), At(0, 0, 0), Degrees(0, 0, 0), At(0, 0, 0)>>)
    IN  Mapped(Framed, <<base, base, position, movement, position>>)

\* The loop over z, in steps of three tenths of a degree.
TestRotationNormalizationAndQuantization ==
    [i \in 0 .. 1216 |-> <<Item("rotation", <<[x |-> 0, y |-> 0, z |-> 3 * i]>>)>>]

-----------------------------------------------------------------------------
(* Beyond the tests.                                                       *)
Marker == Number("U16", <<190, 239>>)

\* Texts around the reader's limit, and one with a zero inside.
Texts == <<<<>>, <<65, 0, 66>>, Text(8), Text(9), Text(16), Text(17),
           Text(MaxString - 1), Text(MaxString)>>

\* A text as a string and as each class of limited length, read by each
\* class that may read it.
TextItems(text) ==
    LET As(item, class) == [item EXCEPT !.as = class]
        clean == CString(text)
    IN  <<Item("string", <<text>>),
          Item("FixedStringTiny", <<clean>>),
          Item("BoundedStringTiny", <<clean>>),
          As(Item("BoundedStringTiny", <<clean>>), "BoundedString16"),
          As(Item("BoundedString16", <<clean>>), "BoundedStringTiny")>>

Tables == <<<<>>, <<<<Text(2), Text(0)>>>>, <<<<Text(1), Text(2)>>, <<Text(3), Text(0)>>>>,
            <<<<Text(1)>>, <<Text(2), Text(3)>>>>, <<<<Text(MaxString)>>>>>>

Buckets == <<<<>>, <<Text(3)>>, <<Text(0), Text(2)>>, <<Text(MaxString), Text(1)>>>>

\* Each of them between two numbers; buckets are read twice.
LibraryScripts ==
    Mapped(LAMBDA item : <<Marker, item, Marker>>,
           FlattenSeq(Mapped(TextItems, Texts)) \o Mapped(LAMBDA t : Item("table", <<t>>), Tables))
    \o Mapped(LAMBDA b : <<Item("bucket", <<Buckets[2]>>), Item("bucket", <<b>>), Marker>>, Buckets)

\* Coordinates at zero, about one quantum, in between, at the end of the
\* range and beyond it, with every sign.
Coordinates == <<0, -3, 5, 1 - 4096 * Fine, 5000 * Fine + 7>>

PositionScripts ==
    [i \in 0 .. 124 |-> <<Item("position", <<[x |-> Coordinates[1 + (i % 5)],
                                              y |-> Coordinates[1 + ((i \div 5) % 5)],
                                              z |-> Coordinates[1 + (i \div 25)]]>>)>>]

\* Angles on both sides of zero and of a full circle, in every field.
Angles == <<0, -200, 1799, 3599, -3601, 7205>>

RotationScripts ==
    [i \in 0 .. 215 |-> <<Item("rotation", <<[x |-> Angles[1 + (i % 6)],
                                              y |-> Angles[1 + ((i \div 6) % 6)],
                                              z |-> Angles[1 + (i \div 36)]]>>)>>]

FromZero(f) == [i \in 1 .. Cardinality(DOMAIN f) |-> f[i - 1]]

UnitTests ==
    <<BasicU16Copy, MultipleU16Copy, BasicMostSizesCopy, BasicUStringCopy, BasicBoolCopy,
      BasicMovementPacketTest, Basic_PacketHeirarchyAndPointerTest, MultipleMovementPacketTest,
      FactoryTest_FactoryTest, Deserialize_1WrappedPacket, Deserialize_WrappedPackets>>
    \o BasicBasePacketTests
    \o FromZero(TestRotationNormalizationAndQuantization)
=============================================================================
