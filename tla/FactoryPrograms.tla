--------------------------- MODULE FactoryPrograms ---------------------------
(***************************************************************************)
(* What the programs and the unit tests of the repository do with the      *)
(* packet factory.  Their four packet classes are two here, their pools of *)
(* 100 packets hold PoolSize; a release hands back any packet that is held.*)
(* The tests are built with _UNIT_TESTING_, as their project does: classes *)
(* are registered by FactoryMock only.                                     *)
(***************************************************************************)
EXTENDS PacketFactory

Do(op) == <<[op |-> op, class |-> AnyClass]>>
Create(c) == <<[op |-> "create", class |-> c]>>

\* n times the same.
Times(n, instructions) ==
    [i \in 1 .. n * Len(instructions) |-> instructions[1 + ((i - 1) % Len(instructions))]]

-----------------------------------------------------------------------------
\* BoostASIO_Server03.cpp: the server runs before the factory is initialised
\* and until after it is shut down.
Server03 == Do("register") \o Do("start") \o Do("init") \o Create(AnyClass) \o Do("shutdown")

\* BoostASIO_Client04_TCP.cpp.  If the client connects while io_context runs,
\* start_write releases the two packets written before, while main still holds
\* its own references.  Each key sends one more, but io_context runs no longer:
\* they stay in packetOutDeque, and nothing gives them back.
SendPacket == Create(1)
Client04(connects, keys) ==
    Do("register") \o Do("init") \o Create(1) \o Create(2)
    \o (IF connects THEN Times(2, Do("flush")) ELSE <<>>)
    \o Times(keys, SendPacket) \o Do("shutdown")

\* main of PacketFactoryTesting.cpp, with its own copy of the factory.
PacketFactoryTesting ==
    Do("register") \o Do("init_copy")
    \o Create(1) \o Create(1) \o Do("release") \o Do("release")
    \o Times(PoolSize, Create(1)) \o Times(PoolSize, Do("release"))
    \o Do("shutdown_copy")

-----------------------------------------------------------------------------
(* The unit tests that use the factory, all but the last of them between   *)
(* FactoryMock's constructor and destructor.                               *)
FactoryMock(test) ==
    Do("register") \o Do("init") \o test \o Do("shutdown") \o Do("clear_flags")

FactoryTest_Basics == Create(1) \o Do("release")

FactoryTest_Basics2 == Create(1) \o Create(2) \o Times(2, Do("release"))

\* Two of the packets are not released.
FactoryTest_FactoryTest ==
    Create(1) \o Create(2) \o Create(1) \o Create(2) \o Times(2, Do("release"))

\* The loop over the array releases copies of its references.
ValidateUniquenessAndProperPools ==
    Times(PoolSize, Create(1)) \o Times(PoolSize, Create(2)) \o Times(2 * PoolSize, Do("flush"))

\* Some are released and created again, twice; none is released in the end.
DeleteItemsInMiddleOFPools ==
    Times(PoolSize, Create(1)) \o Times(2, Do("release") \o Create(1))

\* Neither packet is released.
Deserialize_1WrappedPacket == Create(1) \o Create(1)

Deserialize_WrappedPackets ==
    Create(1) \o Create(2) \o Create(1) \o Do("release") \o Create(2) \o Times(3, Do("release"))

\* Without FactoryMock.  io_context has not run when the test asserts that the
\* client is connected (line 1117): the test ends there, before its Create and
\* its Shutdown, and before anything was sent to the server it started.
SocketTest_ServerAndClient_FirstComms2 == Do("init")

Test_Suite ==
    FactoryMock(FactoryTest_Basics) \o FactoryMock(FactoryTest_Basics2)
    \o FactoryMock(FactoryTest_FactoryTest) \o FactoryMock(ValidateUniquenessAndProperPools)
    \o FactoryMock(DeleteItemsInMiddleOFPools) \o FactoryMock(Deserialize_1WrappedPacket)
    \o FactoryMock(Deserialize_WrappedPackets) \o SocketTest_ServerAndClient_FirstComms2
=============================================================================
