-------------------------- MODULE MCPacketFactory ---------------------------
(***************************************************************************)
(* PacketFactory with the programs of the repository, two packet classes   *)
(* and pools of two packets.                                               *)
(***************************************************************************)
EXTENDS FactoryPrograms

\* The client with any number of keys, up to one more than its pool can serve.
Keys == 1 .. PoolSize + 1
AllPrograms == {Server03, PacketFactoryTesting, Test_Suite}
               \cup {Client04(connects, keys) : connects \in BOOLEAN, keys \in Keys}

\* The programs meet the hypotheses under which ServiceIsSafe and
\* PacketsLeavePoolsByCreate are proved (PacketFactoryProofs.tla).
ASSUME OrderAssumption == \A p \in AllPrograms : RegistersFirst(p) /\ OneFactoryAtATime(p)

\* TestsNeverFail is about the tests, and about the client until the packet of
\* a key is one too many: unless it connects, the pool is one packet short.
ASSUME OrderlyAssumption ==
    /\ KeepsTheCycle(PacketFactoryTesting) /\ KeepsTheCycle(Test_Suite)
    /\ \A keys \in Keys : /\ KeepsTheCycle(Client04(TRUE, keys)) <=> keys <= PoolSize
                          /\ KeepsTheCycle(Client04(FALSE, keys)) <=> keys < PoolSize
=============================================================================
