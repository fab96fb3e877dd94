------------------------ MODULE CircularBufferProofs ------------------------
(***************************************************************************)
(* For every capacity and every set of threads and items, circular_buffer  *)
(* keeps its types, never hides an empty slot between its indices, and     *)
(* implements BoundedQueue.                                                *)
(***************************************************************************)
EXTENDS CircularBuffer, SequenceTheorems, TLAPS

-----------------------------------------------------------------------------
(* Index arithmetic.  The provers have no theory of % by a variable, so    *)
(* its value on the few arguments the code builds is stated once.          *)

\* Slot(first, k) is the slot k places after first.
Slot(first, k) == IF first + k < max_size THEN first + k ELSE first + k - max_size

\* Offset(i, first) is how many places slot i lies after slot first.
Offset(i, first) == IF i >= first THEN i - first ELSE max_size + i - first

\* Adding less than a full turn and reducing modulo max_size is Slot: the
\* wrap-around arithmetic put and get do on head_ and tail_.
LEMMA ModIsSlot ==
    ASSUME NEW first \in Slots, NEW k \in 0 .. max_size
    PROVE  /\ (first + k) % max_size = Slot(first, k)
           /\ Slot(first, k) \in Slots
  BY CapacityAssumption DEF Slots, Slot

\* The distance between two slots, going round the ring, is never negative.
LEMMA OffsetIsNat ==
    ASSUME NEW i \in Slots, NEW first \in Slots
    PROVE  Offset(i, first) \in Nat
  BY CapacityAssumption DEF Offset, Slots

\* Starting one slot later and counting one place less is the same slot.
LEMMA SlotAfterNext ==
    ASSUME NEW first \in Slots, NEW i \in 1 .. max_size
    PROVE  Slot(Slot(first, 1), i - 1) = IF i = max_size THEN first ELSE Slot(first, i)
  BY CapacityAssumption DEF Slot, Slots

\* The next index of put and get, without %.
LEMMA AdvanceIsSlot ==
    ASSUME NEW i \in Slots
    PROVE  /\ Advance(i) = IF i = max_size - 1 THEN 0 ELSE i + 1
           /\ Advance(i) \in Slots
  <1>1. 1 \in 0 .. max_size
    BY CapacityAssumption
  <1>2. (i + 1) % max_size = Slot(i, 1) /\ Slot(i, 1) \in Slots
    BY <1>1, ModIsSlot
  <1>3. Slot(i, 1) = IF i = max_size - 1 THEN 0 ELSE i + 1
    BY CapacityAssumption DEF Slot, Slots
  <1>4. QED
    BY <1>2, <1>3 DEF Advance

-----------------------------------------------------------------------------
(* The inductive invariant.                                                *)

\* The statements that run while the thread holds mutex_.
Holding == Locations \ {"idle", "put", "get", "reset"}

\* The thread inside a call body is the owner of mutex_, and the owner is
\* inside one.
MutexInv == /\ \A t \in Threads : pc[t] \in Holding => mutex = t
            /\ mutex \in Threads => pc[mutex] \in Holding

\* full_ says the indices have met; while put has moved only tail_, it says
\* they are about to; reset and get leave it stale for one statement.
FullInv == /\ full /\ At # "put_head" => head = tail
           /\ full /\ At = "put_head" => tail = Advance(head)
           /\ At = "get_full" => full \/ head # tail
           /\ At = "get_tail" => ~full
           /\ At = "reset_full" => head = tail

\* A put that has not stored its argument yet still has one.
ArgumentInv == \A t \in Threads : pc[t] \in {"put", "put_store"} => item[t] \in Items

\* The contents fit the buffer.
FullAndCount == FullInv /\ Count \in 0 .. max_size

\* The slots that hold the contents hold items.
OccupiedInv == \A i \in Slots : Offset(i, First) < Count => buf[i] \in Items

IInv == TypeOK /\ MutexInv /\ FullAndCount /\ ArgumentInv /\ OccupiedInv

-----------------------------------------------------------------------------
(* Types.                                                                  *)

\* Every variable has its type at the start.
LEMMA InitType == Init => TypeOK
  <1>1. 0 \in Slots
    BY CapacityAssumption DEF Slots
  <1>2. QED
    BY <1>1 DEF Init, TypeOK, Locations

\* Every step keeps the types.
LEMMA NextType == TypeOK /\ [Next]_vars => TypeOK'
  <1> SUFFICES ASSUME TypeOK, [Next]_vars
               PROVE  TypeOK'
    OBVIOUS
  <1> USE DEF TypeOK, Locations, Goto, Lock, Unlock
  <1>1. ASSUME NEW t \in Threads, Call(t) PROVE TypeOK'
    BY <1>1 DEF Call, CallPut, CallGet, CallReset
  <1>2. ASSUME NEW t \in Threads, PutLock(t) \/ GetLock(t) \/ ResetLock(t)
        PROVE  TypeOK'
    BY <1>2 DEF PutLock, GetLock, ResetLock
  <1>3. ASSUME NEW t \in Threads, PutStore(t) \/ PutFull(t)
        PROVE  TypeOK'
    BY <1>3 DEF PutStore, PutFull
  <1>4. ASSUME NEW t \in Threads, PutTail(t) \/ PutHead(t) \/ GetTail(t)
        PROVE  TypeOK'
    BY <1>4, AdvanceIsSlot DEF PutTail, PutHead, GetTail
  <1>5. ASSUME NEW t \in Threads, GetNothing(t) \/ GetMove(t) \/ GetFull(t)
        PROVE  TypeOK'
    BY <1>5 DEF GetNothing, GetMove, GetFull
  <1>6. ASSUME NEW t \in Threads, ResetHead(t) \/ ResetFull(t)
        PROVE  TypeOK'
    BY <1>6 DEF ResetHead, ResetFull
  <1>7. CASE UNCHANGED vars
    BY <1>7 DEF vars
  <1>8. QED
    BY <1>1, <1>2, <1>3, <1>4, <1>5, <1>6, <1>7 DEF Next, Step, Body

\* Every variable of the buffer and of its callers keeps its type under all
\* interleavings of put, get and reset.
THEOREM TypeCorrect == Spec => []TypeOK
  BY InitType, NextType, PTL DEF Spec

-----------------------------------------------------------------------------
(* Mutual exclusion.                                                       *)

\* No thread holds the mutex at the start.
LEMMA InitMutex == Init => MutexInv
  BY ValueAssumption DEF Init, MutexInv, Holding

\* Every step keeps the mutex with its holder.
LEMMA NextMutex == TypeOK /\ MutexInv /\ [Next]_vars => MutexInv'
  <1> SUFFICES ASSUME TypeOK, MutexInv, [Next]_vars
               PROVE  MutexInv'
    OBVIOUS
  <1> USE ValueAssumption DEF TypeOK, MutexInv, Holding, Locations, Goto
  <1>1. ASSUME NEW t \in Threads, Call(t) PROVE MutexInv'
    BY <1>1 DEF Call, CallPut, CallGet, CallReset
  <1>2. ASSUME NEW t \in Threads, PutLock(t) \/ GetLock(t) \/ ResetLock(t)
        PROVE  MutexInv'
    BY <1>2 DEF PutLock, GetLock, ResetLock, Lock
  <1>3. ASSUME NEW t \in Threads,
               PutStore(t) \/ PutTail(t) \/ PutHead(t) \/ GetMove(t) \/ GetFull(t) \/ ResetHead(t)
        PROVE  MutexInv'
    BY <1>3 DEF PutStore, PutTail, PutHead, GetMove, GetFull, ResetHead
  <1>4. ASSUME NEW t \in Threads,
               PutFull(t) \/ GetNothing(t) \/ GetTail(t) \/ ResetFull(t)
        PROVE  MutexInv'
    BY <1>4 DEF PutFull, GetNothing, GetTail, ResetFull, Unlock
  <1>5. CASE UNCHANGED vars
    BY <1>5 DEF vars
  <1>6. QED
    BY <1>1, <1>2, <1>3, <1>4, <1>5 DEF Next, Step, Body

\* Where the owner of the mutex is, before and after one of its statements.
LEMMA OwnerLocation ==
    ASSUME TypeOK, MutexInv, NEW t \in Threads,
           NEW CONSTANT from \in Holding, NEW CONSTANT to \in Locations, Goto(t, from, to)
    PROVE  /\ mutex = t /\ At = from
           /\ mutex' = mutex => At' = to
           /\ mutex' = NoThread => At' = "idle"
  <1>1. mutex = t
    BY DEF MutexInv, Goto
  <1>2. pc'[t] = to
    BY DEF Goto, TypeOK
  <1>3. QED
    BY <1>1, <1>2, ValueAssumption DEF At, Goto

-----------------------------------------------------------------------------
(* What each statement does to the contents.  Contents depends on buf,     *)
(* First and Count only; the lemmas below give their next values, and the  *)
(* invariant and the refinement are both read off them.                    *)

Silent == First' = First /\ Count' = Count /\ buf' = buf /\ val' = val

\* Calls, and the threads that wait for the mutex, leave the buffer alone.
LEMMA OutsideEffect ==
    ASSUME TypeOK, MutexInv, NEW t \in Threads,
           Call(t) \/ PutLock(t) \/ GetLock(t) \/ ResetLock(t)
    PROVE  /\ Silent
           /\ FullAndCount => FullAndCount'
  <1> USE ValueAssumption DEF TypeOK, MutexInv, Goto, Locations, Holding
  <1>1. UNCHANGED <<buf, head, tail, full, val>>
    BY DEF Call, CallPut, CallGet, CallReset, PutLock, GetLock, ResetLock
  <1>2. CASE Call(t)
    <2>1. At' = At
      BY <1>2 DEF Call, CallPut, CallGet, CallReset, At
    <2>2. QED
      BY <1>1, <2>1 DEF Silent, First, Count, Size, Distance, FullAndCount, FullInv, Advance
  <1>3. CASE PutLock(t) \/ GetLock(t) \/ ResetLock(t)
    <2>1. At = "idle" /\ At' \in {"put_store", "get_check", "reset_head"}
      BY <1>3 DEF PutLock, GetLock, ResetLock, Lock, At
    <2>2. QED
      BY <1>1, <2>1 DEF Silent, First, Count, Size, Distance, FullAndCount, FullInv, Advance
  <1>4. QED
    BY <1>2, <1>3

\* Storing the argument of put appends it, and drops the oldest item when
\* the buffer was full.
LEMMA StoreEffect ==
    ASSUME TypeOK, MutexInv, FullAndCount, NEW t \in Threads, PutStore(t)
    PROVE  /\ Count' = IF Count = max_size THEN max_size ELSE Count + 1
           /\ First' = IF Count = max_size THEN Slot(First, 1) ELSE First
           /\ head = IF Count = max_size THEN First ELSE Slot(First, Count)
           /\ buf' = [buf EXCEPT ![head] = item[t]]
           /\ val' = val
           /\ FullAndCount'
  <1>1. At = "put_store" /\ At' = "put_tail"
    BY OwnerLocation DEF PutStore, Holding, Locations
  <1>2. UNCHANGED <<head, tail, full>>
    BY DEF PutStore
  <1>3. Count = Size /\ First = tail
    BY <1>1 DEF Count, First
  <1>4. Count' = IF full THEN max_size ELSE Size + 1
    BY <1>1, <1>2 DEF Count, Size
  <1>5. First' = IF full THEN Advance(tail) ELSE tail
    BY <1>1, <1>2 DEF First, Advance
  <1>6. full <=> Count = max_size
    BY <1>3, CapacityAssumption DEF Size, TypeOK, Slots
  <1>7. head = IF Count = max_size THEN First ELSE Slot(First, Count)
    BY <1>1, <1>3, CapacityAssumption DEF Size, TypeOK, Slots, Slot, FullAndCount, FullInv
  <1>8. Advance(tail) = Slot(tail, 1)
    BY AdvanceIsSlot, CapacityAssumption DEF Slot, TypeOK, Slots
  <1>9. FullAndCount'
    BY <1>1, <1>2, <1>3, <1>4, <1>6, CapacityAssumption DEF FullAndCount, FullInv, Slots, TypeOK
  <1>10. QED
    BY <1>3, <1>4, <1>5, <1>6, <1>7, <1>8, <1>9 DEF PutStore

\* The three statements of put that move the indices and recompute full_
\* bring the indices in line with what was stored.
LEMMA PutEffect ==
    ASSUME TypeOK, MutexInv, FullAndCount, NEW t \in Threads,
           PutTail(t) \/ PutHead(t) \/ PutFull(t)
    PROVE  Silent /\ FullAndCount'
  <1> USE CapacityAssumption, ValueAssumption
  <1>1. buf' = buf /\ val' = val
    BY DEF PutTail, PutHead, PutFull
  <1>2. CASE PutTail(t)
    <2>1. At = "put_tail" /\ At' = "put_head"
      BY <1>2, OwnerLocation DEF PutTail, Holding, Locations
    <2>2. head' = head /\ full' = full /\ tail' = IF full THEN Advance(tail) ELSE tail
      BY <1>2 DEF PutTail
    <2>3. full => head = tail
      BY <2>1 DEF FullAndCount, FullInv
    <2>4. First' = First
      BY <2>1, <2>2 DEF First
    <2>5. Count' = Count
      BY <2>1, <2>2 DEF Count, Size
    <2>6. FullAndCount'
      BY <2>1, <2>2, <2>3, <2>5 DEF FullAndCount, FullInv, Advance
    <2>7. QED
      BY <1>1, <2>4, <2>5, <2>6 DEF Silent
  <1>3. CASE PutHead(t)
    <2>1. At = "put_head" /\ At' = "put_full"
      BY <1>3, OwnerLocation DEF PutHead, Holding, Locations
    <2>2. tail' = tail /\ full' = full /\ head' = Advance(head)
      BY <1>3 DEF PutHead
    <2>3. full => tail = Advance(head)
      BY <2>1 DEF FullAndCount, FullInv
    <2>4. First' = First
      BY <2>1, <2>2 DEF First
    <2>5. Count' = Count
      <3>1. Count = IF full THEN max_size ELSE Distance + 1
        BY <2>1 DEF Count, Size, Distance
      <3>2. Count' = IF head' = tail THEN max_size ELSE Distance'
        BY <2>1, <2>2 DEF Count
      <3>3. head' = IF head = max_size - 1 THEN 0 ELSE head + 1
        BY <2>2, AdvanceIsSlot DEF TypeOK
      <3>4. CASE full
        BY <3>1, <3>2, <3>4, <2>2, <2>3
      <3>5. CASE ~full
        BY <3>1, <3>2, <3>3, <3>5, <2>2 DEF Distance, TypeOK, Slots
      <3>6. QED
        BY <3>4, <3>5
    <2>6. FullAndCount'
      BY <2>1, <2>2, <2>3, <2>5 DEF FullAndCount, FullInv, Advance
    <2>7. QED
      BY <1>1, <2>4, <2>5, <2>6 DEF Silent
  <1>4. CASE PutFull(t)
    <2>1. At = "put_full" /\ At' = "idle"
      BY <1>4, OwnerLocation DEF PutFull, Unlock, Holding, Locations
    <2>2. tail' = tail /\ head' = head /\ full' = (head = tail)
      BY <1>4 DEF PutFull
    <2>3. First' = First
      BY <2>1, <2>2 DEF First
    <2>4. Count' = Count
      BY <2>1, <2>2 DEF Count, Size, Distance
    <2>5. FullAndCount'
      BY <2>1, <2>2, <2>4 DEF FullAndCount, FullInv
    <2>6. QED
      BY <1>1, <2>3, <2>4, <2>5 DEF Silent
  <1>5. QED
    BY <1>2, <1>3, <1>4

\* A get that finds the buffer empty changes nothing but its result.
LEMMA NothingEffect ==
    ASSUME TypeOK, MutexInv, FullAndCount, NEW t \in Threads, GetNothing(t)
    PROVE  /\ Count = 0
           /\ Count' = Count /\ First' = First /\ buf' = buf
           /\ val' = [val EXCEPT ![t] = Null]
           /\ FullAndCount'
  <1>1. At = "get_check" /\ At' = "idle"
    BY OwnerLocation DEF GetNothing, Unlock, Holding, Locations
  <1>2. UNCHANGED <<buf, head, tail, full>> /\ val' = [val EXCEPT ![t] = Null] /\ Empty
    BY DEF GetNothing
  <1>3. Count = 0
    BY <1>1, <1>2 DEF Count, Size, Empty, TypeOK, Slots
  <1>4. Count' = Count /\ First' = First
    BY <1>1, <1>2 DEF Count, First, Size, Advance
  <1>5. QED
    BY <1>1, <1>2, <1>3, <1>4 DEF FullAndCount, FullInv

\* Moving the slot at tail_ out takes the oldest item.
LEMMA MoveEffect ==
    ASSUME TypeOK, MutexInv, FullAndCount, NEW t \in Threads, GetMove(t)
    PROVE  /\ Count # 0
           /\ tail = First
           /\ Count' = Count - 1 /\ First' = Slot(First, 1)
           /\ buf' = [buf EXCEPT ![tail] = Null]
           /\ val' = [val EXCEPT ![t] = buf[tail]]
           /\ FullAndCount'
  <1> USE CapacityAssumption
  <1>1. At = "get_check" /\ At' = "get_full"
    BY OwnerLocation DEF GetMove, Holding, Locations
  <1>2. /\ UNCHANGED <<head, tail, full>> /\ ~Empty
        /\ val' = [val EXCEPT ![t] = buf[tail]]
        /\ buf' = [buf EXCEPT ![tail] = Null]
    BY DEF GetMove
  <1>3. Count # 0
    BY <1>1, <1>2 DEF Count, Size, Empty, TypeOK, Slots
  <1>4. Count = Size /\ Count' = Size - 1
    BY <1>1, <1>2 DEF Count, Size
  <1>5. tail = First /\ First' = Advance(tail)
    BY <1>1, <1>2 DEF First, Advance
  <1>6. Advance(tail) = Slot(tail, 1)
    BY AdvanceIsSlot DEF Slot, TypeOK, Slots
  <1>7. full \/ head # tail
    BY <1>2 DEF Empty
  <1>8. FullAndCount'
    BY <1>1, <1>2, <1>3, <1>4, <1>7 DEF FullAndCount, FullInv
  <1>9. QED
    BY <1>2, <1>3, <1>4, <1>5, <1>6, <1>8

\* Clearing full_ and advancing tail_ bring the indices in line with it.
LEMMA GetEffect ==
    ASSUME TypeOK, MutexInv, FullAndCount, NEW t \in Threads, GetFull(t) \/ GetTail(t)
    PROVE  Silent /\ FullAndCount'
  <1> USE CapacityAssumption
  <1>1. buf' = buf /\ val' = val
    BY DEF GetFull, GetTail
  <1>2. CASE GetFull(t)
    <2>1. At = "get_full" /\ At' = "get_tail"
      BY <1>2, OwnerLocation DEF GetFull, Holding, Locations
    <2>2. head' = head /\ tail' = tail /\ full' = FALSE
      BY <1>2 DEF GetFull
    <2>3. (full => head = tail) /\ (full \/ head # tail)
      BY <2>1 DEF FullAndCount, FullInv
    <2>4. First' = First
      BY <2>1, <2>2 DEF First, Advance
    <2>5. Count' = Count
      BY <2>1, <2>2, <2>3 DEF Count, Size, Distance
    <2>6. FullAndCount'
      BY <2>1, <2>2, <2>5 DEF FullAndCount, FullInv
    <2>7. QED
      BY <1>1, <2>4, <2>5, <2>6 DEF Silent
  <1>3. CASE GetTail(t)
    <2>1. At = "get_tail" /\ At' = "idle"
      BY <1>3, OwnerLocation DEF GetTail, Unlock, Holding, Locations
    <2>2. head' = head /\ full' = full /\ tail' = Advance(tail)
      BY <1>3 DEF GetTail
    <2>3. ~full
      BY <2>1 DEF FullAndCount, FullInv
    <2>4. First' = First
      BY <2>1, <2>2 DEF First
    <2>5. Count' = Count
      <3>1. Count = IF head = tail THEN max_size - 1 ELSE Distance - 1
        BY <2>1 DEF Count
      <3>2. Count' = Distance'
        BY <2>1, <2>2, <2>3 DEF Count, Size, Distance
      <3>3. tail' = IF tail = max_size - 1 THEN 0 ELSE tail + 1
        BY <2>2, AdvanceIsSlot DEF TypeOK
      <3>4. QED
        BY <3>1, <3>2, <3>3, <2>2 DEF Distance, TypeOK, Slots
    <2>6. FullAndCount'
      BY <2>1, <2>2, <2>3, <2>5 DEF FullAndCount, FullInv
    <2>7. QED
      BY <1>1, <2>4, <2>5, <2>6 DEF Silent
  <1>4. QED
    BY <1>2, <1>3

\* reset() empties the buffer when it moves head_.
LEMMA ResetEffect ==
    ASSUME TypeOK, MutexInv, FullAndCount, NEW t \in Threads
    PROVE  /\ ResetHead(t) => Count' = 0 /\ buf' = buf /\ val' = val /\ FullAndCount'
           /\ ResetFull(t) => Silent /\ FullAndCount'
  <1>1. ASSUME ResetHead(t)
        PROVE  Count' = 0 /\ buf' = buf /\ val' = val /\ FullAndCount'
    <2>1. At = "reset_head" /\ At' = "reset_full"
      BY <1>1, OwnerLocation DEF ResetHead, Holding, Locations
    <2>2. head' = tail /\ tail' = tail /\ full' = full /\ buf' = buf /\ val' = val
      BY <1>1 DEF ResetHead
    <2>3. Count' = 0
      BY <2>1 DEF Count
    <2>4. FullAndCount'
      BY <2>1, <2>2, <2>3, CapacityAssumption DEF FullAndCount, FullInv
    <2>5. QED
      BY <2>2, <2>3, <2>4
  <1>2. ASSUME ResetFull(t)
        PROVE  Silent /\ FullAndCount'
    <2>1. At = "reset_full" /\ At' = "idle"
      BY <1>2, OwnerLocation DEF ResetFull, Unlock, Holding, Locations
    <2>2. head' = head /\ tail' = tail /\ full' = FALSE /\ buf' = buf /\ val' = val
      BY <1>2 DEF ResetFull
    <2>3. head = tail
      BY <2>1 DEF FullAndCount, FullInv
    <2>4. Count = 0 /\ Count' = 0
      BY <2>1, <2>2, <2>3 DEF Count, Size, TypeOK, Slots
    <2>5. First' = First
      BY <2>1, <2>2 DEF First
    <2>6. FullAndCount'
      BY <2>1, <2>2, <2>4, CapacityAssumption DEF FullAndCount, FullInv
    <2>7. QED
      BY <2>2, <2>4, <2>5, <2>6 DEF Silent
  <1>3. QED
    BY <1>1, <1>2

-----------------------------------------------------------------------------
(* The invariant is inductive.                                             *)

\* The invariant holds at the start.
LEMMA InitInv == Init => IInv
  <1> SUFFICES ASSUME Init PROVE IInv
    OBVIOUS
  <1>1. TypeOK
    BY InitType
  <1>2. MutexInv
    BY InitMutex
  <1>3. At = "idle" /\ ~full /\ head = 0 /\ tail = 0
    BY DEF Init, At
  <1>4. Count = 0
    BY <1>3 DEF Count, Size
  <1>5. FullAndCount
    BY <1>3, <1>4, CapacityAssumption DEF FullAndCount, FullInv
  <1>6. ArgumentInv
    BY DEF Init, ArgumentInv
  <1>7. OccupiedInv
    BY <1>3, <1>4 DEF OccupiedInv, Offset, First, Slots
  <1>8. QED
    BY <1>1, <1>2, <1>5, <1>6, <1>7 DEF IInv

\* Every step keeps full and the count in agreement.
LEMMA NextFullAndCount == IInv /\ [Next]_vars => FullAndCount'
  <1> SUFFICES ASSUME IInv, [Next]_vars PROVE FullAndCount'
    OBVIOUS
  <1> USE DEF IInv
  <1>1. ASSUME NEW t \in Threads, Call(t) \/ PutLock(t) \/ GetLock(t) \/ ResetLock(t)
        PROVE  FullAndCount'
    BY <1>1, OutsideEffect
  <1>2. ASSUME NEW t \in Threads, Body(t)
        PROVE  FullAndCount'
    BY <1>2, StoreEffect, PutEffect, NothingEffect, MoveEffect, GetEffect, ResetEffect DEF Body
  <1>3. CASE UNCHANGED vars
    BY <1>3 DEF vars, FullAndCount, FullInv, Count, Size, Distance, At, Advance
  <1>4. QED
    BY <1>1, <1>2, <1>3 DEF Next, Step

\* Every step keeps the arguments of the calls.
LEMMA NextArgument == TypeOK /\ ArgumentInv /\ [Next]_vars => ArgumentInv'
  <1> SUFFICES ASSUME TypeOK, ArgumentInv, [Next]_vars PROVE ArgumentInv'
    OBVIOUS
  <1> USE DEF TypeOK, ArgumentInv, Goto
  <1>1. ASSUME NEW t \in Threads, Call(t) PROVE ArgumentInv'
    BY <1>1 DEF Call, CallPut, CallGet, CallReset
  <1>2. ASSUME NEW t \in Threads, Step(t) PROVE ArgumentInv'
    BY <1>2 DEF Step, Body, PutLock, GetLock, ResetLock, PutStore, PutTail, PutHead, PutFull,
                GetNothing, GetMove, GetFull, GetTail, ResetHead, ResetFull
  <1>3. CASE UNCHANGED vars
    BY <1>3 DEF vars
  <1>4. QED
    BY <1>1, <1>2, <1>3 DEF Next

\* Every step keeps items in the occupied slots.
LEMMA NextOccupied == IInv /\ [Next]_vars => OccupiedInv'
  <1> SUFFICES ASSUME IInv, [Next]_vars PROVE OccupiedInv'
    OBVIOUS
  <1> USE CapacityAssumption DEF IInv
  <1>1. First \in Slots /\ Count \in 0 .. max_size /\ head \in Slots /\ tail \in Slots
    BY AdvanceIsSlot DEF First, FullAndCount, TypeOK
  <1>2. CASE Silent
    BY <1>2 DEF Silent, OccupiedInv, Offset
  <1>3. ASSUME NEW t \in Threads, PutStore(t)
        PROVE  OccupiedInv'
    <2>1. item[t] \in Items
      BY <1>3 DEF ArgumentInv, PutStore, Goto
    <2>2. SUFFICES ASSUME NEW i \in Slots, Offset(i, First') < Count', i # head
                   PROVE  Offset(i, First) < Count
      BY <1>3, <2>1, StoreEffect DEF OccupiedInv, TypeOK
    <2>3. CASE Count = max_size
      BY <2>3, <1>1 DEF Offset, Slots
    <2>4. CASE Count # max_size
      BY <2>2, <2>4, <1>1, <1>3, StoreEffect DEF Offset, Slot, Slots
    <2>5. QED
      BY <2>3, <2>4
  <1>4. ASSUME NEW t \in Threads, GetMove(t)
        PROVE  OccupiedInv'
    <2>1. SUFFICES ASSUME NEW i \in Slots, Offset(i, First') < Count'
                   PROVE  i # tail /\ Offset(i, First) < Count
      BY <1>4, MoveEffect DEF OccupiedInv, TypeOK
    <2>2. QED
      BY <2>1, <1>1, <1>4, MoveEffect DEF Offset, Slot, Slots
  <1>5. ASSUME NEW t \in Threads, GetNothing(t)
        PROVE  OccupiedInv'
    BY <1>5, NothingEffect DEF OccupiedInv, Offset
  <1>6. ASSUME NEW t \in Threads, ResetHead(t)
        PROVE  OccupiedInv'
    <2>1. Count' = 0 /\ First' \in Slots
      <3>1. TypeOK'
        BY NextType
      <3>2. QED
        BY <1>6, <3>1, ResetEffect, AdvanceIsSlot DEF First, TypeOK, ResetHead
    <2>2. ASSUME NEW i \in Slots
          PROVE  ~(Offset(i, First') < Count')
      <3>1. Offset(i, First') \in Nat
        BY <2>1, OffsetIsNat
      <3>2. QED
        BY <2>1, <3>1
    <2>3. QED
      BY <2>2 DEF OccupiedInv
  <1>7. CASE UNCHANGED vars
    BY <1>7, <1>2 DEF vars, Silent, First, Count, Size, Distance, At, Advance
  <1>8. QED
    BY <1>2, <1>3, <1>4, <1>5, <1>6, <1>7, OutsideEffect, PutEffect, GetEffect, ResetEffect
       DEF Next, Step, Body

\* IInv holds in every reachable state.
LEMMA Invariance == Spec => []IInv
  <1>1. IInv /\ [Next]_vars => IInv'
    BY NextType, NextMutex, NextFullAndCount, NextArgument, NextOccupied DEF IInv
  <1>2. QED
    BY <1>1, InitInv, PTL DEF Spec

-----------------------------------------------------------------------------
(* The contents as a sequence.                                             *)

ContentsShape ==
    /\ Contents \in Seq(Items)
    /\ Len(Contents) = Count
    /\ First \in Slots
    /\ \A i \in 1 .. Count : Contents[i] = buf[Slot(First, i - 1)]
    /\ \A i \in 1 .. Count : Contents[i] \in Items

\* The contents are a sequence as long as the count.
LEMMA ContentsSequence == IInv => ContentsShape
  <1> SUFFICES ASSUME IInv PROVE ContentsShape
    OBVIOUS
  <1>1. First \in Slots /\ Count \in 0 .. max_size
    BY AdvanceIsSlot DEF IInv, First, FullAndCount, TypeOK
  <1>2. ASSUME NEW i \in 1 .. Count
        PROVE  Contents[i] = buf[Slot(First, i - 1)] /\ Contents[i] \in Items
    <2>1. i - 1 \in 0 .. max_size /\ First + i - 1 = First + (i - 1)
      BY <1>1, CapacityAssumption DEF Slots
    <2>2. (First + i - 1) % max_size = Slot(First, i - 1) /\ Slot(First, i - 1) \in Slots
      BY <1>1, <2>1, ModIsSlot
    <2>3. Contents[i] = buf[Slot(First, i - 1)]
      BY <2>2 DEF Contents
    <2>4. Offset(Slot(First, i - 1), First) < Count
      BY <1>1, CapacityAssumption DEF Offset, Slot, Slots
    <2>5. QED
      BY <2>2, <2>3, <2>4 DEF IInv, OccupiedInv
  <1>3. Contents \in [1 .. Count -> Items]
    BY <1>2 DEF Contents
  <1>4. Contents \in Seq(Items) /\ Len(Contents) = Count
    BY <1>1, <1>3
  <1>5. QED
    BY <1>1, <1>2, <1>4 DEF ContentsShape

\* So they are after a step.
LEMMA NextContentsSequence == IInv' => ContentsShape'
  BY ContentsSequence, PTL

\* A get that finds the buffer non-empty returns an object: no slot between
\* the indices is a moved-from or a never-written one.
THEOREM NeverNull == Spec => []ContentsNeverNull
  <1>1. IInv => ContentsNeverNull
    BY ContentsSequence DEF ContentsNeverNull, ContentsShape
  <1>2. QED
    BY <1>1, Invariance, PTL

-----------------------------------------------------------------------------
(* circular_buffer implements BoundedQueue: every statement is one atomic  *)
(* operation on the contents, or leaves them alone.                        *)

\* A silent step changes nothing of the queue.
LEMMA SilentRefines ==
    ASSUME Silent
    PROVE  UNCHANGED <<Contents, val>>
  BY DEF Silent, Contents

\* Storing the item puts it into the queue.
LEMMA StoreRefines ==
    ASSUME IInv, IInv', NEW t \in Threads, PutStore(t)
    PROVE  \E x \in Items : Queue!Put(x)
  <1> DEFINE x == item[t]
             q == Contents
  <1> USE CapacityAssumption
  <1>1. TypeOK /\ MutexInv /\ FullAndCount /\ Count \in 0 .. max_size
    BY DEF IInv, FullAndCount
  <1>2. x \in Items
    BY DEF IInv, ArgumentInv, PutStore, Goto
  <1>3. /\ q \in Seq(Items) /\ Len(q) = Count /\ First \in Slots
        /\ \A i \in 1 .. Count : q[i] = buf[Slot(First, i - 1)]
    BY ContentsSequence DEF ContentsShape
  <1>4. /\ q' \in Seq(Items) /\ Len(q') = Count'
        /\ \A i \in 1 .. Count' : q'[i] = buf'[Slot(First', i - 1)]
    BY NextContentsSequence DEF ContentsShape
  <1>5. /\ Count' = IF Count = max_size THEN max_size ELSE Count + 1
        /\ First' = IF Count = max_size THEN Slot(First, 1) ELSE First
        /\ head = IF Count = max_size THEN First ELSE Slot(First, Count)
        /\ buf' = [buf EXCEPT ![head] = x]
        /\ val' = val
    BY <1>1, StoreEffect
  <1>6. buf \in [Slots -> Items \cup {Null}] /\ head \in Slots
    BY <1>1 DEF TypeOK
  <1>7. CASE Count = max_size
    <2>1. q # <<>> /\ Tail(q) \in Seq(Items) /\ Len(Tail(q)) = Count - 1
      BY <1>3, <1>7
    <2>2. \A i \in 1 .. Count - 1 : Tail(q)[i] = q[i + 1]
      BY <1>3, <1>7
    <2>3. Len(Append(Tail(q), x)) = Count /\ Append(Tail(q), x) \in Seq(Items)
      BY <2>1, <1>2, <1>7
    <2>4. ASSUME NEW i \in 1 .. Count
          PROVE  q'[i] = Append(Tail(q), x)[i]
      <3>1. q'[i] = buf'[Slot(Slot(First, 1), i - 1)]
        BY <1>4, <1>5, <1>7
      <3>2. CASE i = Count
        <4>1. Slot(Slot(First, 1), i - 1) = head
          BY <3>2, <1>3, <1>5, <1>7, SlotAfterNext
        <4>2. Append(Tail(q), x)[i] = x
          BY <3>2, <2>1, <1>2
        <4>3. QED
          BY <3>1, <4>1, <4>2, <1>5, <1>6
      <3>3. CASE i # Count
        <4>1. Slot(Slot(First, 1), i - 1) = Slot(First, i)
          BY <3>3, <1>3, <1>7, SlotAfterNext
        <4>2. Slot(First, i) # head /\ Slot(First, i) \in Slots
          BY <3>3, <1>3, <1>5, <1>7 DEF Slot, Slots
        <4>3. q'[i] = buf[Slot(First, i)]
          BY <3>1, <4>1, <4>2, <1>5, <1>6
        <4>4. i \in 1 .. Count - 1 /\ i + 1 \in 1 .. Count /\ (i + 1) - 1 = i
          BY <3>3, <1>7
        <4>5. Append(Tail(q), x)[i] = q[i + 1]
          BY <4>4, <2>1, <2>2, <1>2
        <4>6. q[i + 1] = buf[Slot(First, i)]
          BY <4>4, <1>3
        <4>7. QED
          BY <4>3, <4>5, <4>6
      <3>4. QED
        BY <3>2, <3>3
    <2>5. q' = Append(Tail(q), x)
      BY <2>3, <2>4, <1>4, <1>5, <1>7, SeqEqual
    <2>6. QED
      BY <2>5, <1>2, <1>3, <1>5, <1>7 DEF Queue!Put, Queue!PutDroppingOldest
  <1>8. CASE Count # max_size
    <2>1. Len(Append(q, x)) = Count + 1 /\ Append(q, x) \in Seq(Items)
      BY <1>2, <1>3
    <2>2. ASSUME NEW i \in 1 .. Count + 1
          PROVE  q'[i] = Append(q, x)[i]
      <3>1. q'[i] = buf'[Slot(First, i - 1)]
        BY <1>1, <1>4, <1>5, <1>8
      <3>2. CASE i = Count + 1
        <4>1. Slot(First, i - 1) = head
          BY <3>2, <1>1, <1>5, <1>8
        <4>2. Append(q, x)[i] = x
          BY <3>2, <1>2, <1>3
        <4>3. QED
          BY <3>1, <4>1, <4>2, <1>5, <1>6
      <3>3. CASE i # Count + 1
        <4>1. i \in 1 .. Count
          BY <3>3, <1>1
        <4>2. Slot(First, i - 1) # head /\ Slot(First, i - 1) \in Slots
          BY <4>1, <1>1, <1>3, <1>5, <1>8 DEF Slot, Slots
        <4>3. q'[i] = buf[Slot(First, i - 1)]
          BY <3>1, <4>2, <1>5, <1>6
        <4>4. Append(q, x)[i] = q[i]
          BY <4>1, <1>2, <1>3
        <4>5. QED
          BY <4>1, <4>3, <4>4, <1>3
      <3>4. QED
        BY <3>2, <3>3
    <2>3. q' = Append(q, x)
      BY <2>1, <2>2, <1>1, <1>4, <1>5, <1>8, SeqEqual
    <2>4. QED
      BY <2>3, <1>2, <1>3, <1>5, <1>8 DEF Queue!Put, Queue!PutDroppingOldest
  <1>9. QED
    BY <1>7, <1>8

\* Moving the item out takes it from the queue.
LEMMA MoveRefines ==
    ASSUME IInv, IInv', NEW t \in Threads, GetMove(t)
    PROVE  Queue!GetOldest(t)
  <1> DEFINE q == Contents
  <1> USE CapacityAssumption
  <1>1. TypeOK /\ MutexInv /\ FullAndCount /\ Count \in 0 .. max_size
    BY DEF IInv, FullAndCount
  <1>2. /\ q \in Seq(Items) /\ Len(q) = Count /\ First \in Slots
        /\ \A i \in 1 .. Count : q[i] = buf[Slot(First, i - 1)]
    BY ContentsSequence DEF ContentsShape
  <1>3. /\ q' \in Seq(Items) /\ Len(q') = Count'
        /\ \A i \in 1 .. Count' : q'[i] = buf'[Slot(First', i - 1)]
    BY NextContentsSequence DEF ContentsShape
  <1>4. /\ Count # 0 /\ tail = First
        /\ Count' = Count - 1 /\ First' = Slot(First, 1)
        /\ buf' = [buf EXCEPT ![tail] = Null]
        /\ val' = [val EXCEPT ![t] = buf[tail]]
    BY <1>1, MoveEffect
  <1>5. q # <<>> /\ Len(Tail(q)) = Count - 1 /\ Tail(q) \in Seq(Items)
    BY <1>1, <1>2, <1>4
  <1>6. Head(q) = buf[tail]
    <2>1. Head(q) = q[1] /\ 1 \in 1 .. Count
      BY <1>1, <1>2, <1>4, <1>5
    <2>2. Slot(First, 1 - 1) = First
      BY <1>2 DEF Slot, Slots
    <2>3. QED
      BY <2>1, <2>2, <1>2, <1>4
  <1>7. ASSUME NEW i \in 1 .. Count - 1
        PROVE  q'[i] = Tail(q)[i]
    <2>1. q'[i] = buf'[Slot(Slot(First, 1), i - 1)]
      BY <1>3, <1>4
    <2>2. Slot(Slot(First, 1), i - 1) = Slot(First, i)
      BY <1>1, <1>2, SlotAfterNext
    <2>3. Slot(First, i) # tail /\ Slot(First, i) \in Slots
      BY <1>1, <1>2, <1>4 DEF Slot, Slots
    <2>4. q'[i] = buf[Slot(First, i)]
      BY <2>1, <2>2, <2>3, <1>1, <1>4 DEF TypeOK
    <2>5. i + 1 \in 1 .. Count /\ (i + 1) - 1 = i
      BY <1>1
    <2>6. Tail(q)[i] = q[i + 1]
      BY <1>2, <1>5
    <2>7. QED
      BY <2>4, <2>5, <2>6, <1>2
  <1>8. q' = Tail(q)
    BY <1>3, <1>4, <1>5, <1>7, SeqEqual
  <1>9. QED
    BY <1>4, <1>5, <1>6, <1>8 DEF Queue!GetOldest

\* Every step is one of BoundedQueue, or a stutter.
LEMMA NextRefines ==
    IInv /\ IInv' /\ [Next]_vars => [Queue!Next]_<<Contents, val>>
  <1> SUFFICES ASSUME IInv, IInv', [Next]_vars
               PROVE  [Queue!Next]_<<Contents, val>>
    OBVIOUS
  <1>1. TypeOK /\ MutexInv /\ FullAndCount /\ TypeOK'
    BY DEF IInv
  <1>2. ASSUME NEW t \in Threads, GetNothing(t)
        PROVE  Queue!GetNothing(t)
    <2>1. /\ Count = 0 /\ val' = [val EXCEPT ![t] = Null]
          /\ Count' = Count /\ First' = First /\ buf' = buf
      BY <1>1, <1>2, NothingEffect
    <2>2. Contents' = Contents
      BY <2>1 DEF Contents
    <2>3. Contents = <<>>
      BY <2>1, ContentsSequence DEF ContentsShape
    <2>4. QED
      BY <2>1, <2>2, <2>3 DEF Queue!GetNothing
  <1>3. ASSUME NEW t \in Threads, ResetHead(t)
        PROVE  Queue!Reset
    <2>1. Count' = 0 /\ val' = val
      BY <1>1, <1>3, ResetEffect
    <2>2. Contents' \in Seq(Items) /\ Len(Contents') = 0
      BY <2>1, NextContentsSequence DEF ContentsShape
    <2>3. QED
      BY <2>1, <2>2 DEF Queue!Reset
  <1>4. ASSUME NEW t \in Threads,
               \/ Call(t) \/ PutLock(t) \/ GetLock(t) \/ ResetLock(t)
               \/ PutTail(t) \/ PutHead(t) \/ PutFull(t)
               \/ GetFull(t) \/ GetTail(t) \/ ResetFull(t)
        PROVE  UNCHANGED <<Contents, val>>
    BY <1>1, <1>4, SilentRefines, OutsideEffect, PutEffect, GetEffect, ResetEffect
  <1>5. CASE UNCHANGED vars
    <2>1. At' = At
      BY <1>5 DEF vars, At
    <2>2. First' = First /\ Count' = Count
      BY <1>5, <2>1 DEF vars, First, Count, Size, Distance, Advance
    <2>3. QED
      BY <1>5, <2>2 DEF vars, Contents
  <1>6. ASSUME NEW t \in Threads, Call(t) \/ Step(t)
        PROVE  [Queue!Next]_<<Contents, val>>
    BY <1>2, <1>3, <1>4, <1>6, StoreRefines, MoveRefines DEF Queue!Next, Step, Body
  <1>7. QED
    BY <1>5, <1>6 DEF Next

\* Any number of threads may share a circular_buffer as if each put, get and
\* reset were one instant: it is a drop-oldest FIFO queue.
THEOREM Refinement == Spec => IsBoundedQueue
  <1>1. Init => Queue!Init
    <2> SUFFICES ASSUME Init PROVE Queue!Init
      OBVIOUS
    <2>1. At = "idle" /\ ~full /\ head = 0 /\ tail = 0
      BY DEF Init, At
    <2>2. Count = 0
      BY <2>1 DEF Count, Size
    <2>3. Contents = <<>>
      BY <2>2, InitInv, ContentsSequence DEF ContentsShape
    <2>4. QED
      BY <2>3 DEF Init, Queue!Init
  <1>2. QED
    BY <1>1, Invariance, NextRefines, PTL DEF Spec, IsBoundedQueue, Queue!Spec
=============================================================================
