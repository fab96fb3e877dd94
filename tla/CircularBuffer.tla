--------------------------- MODULE CircularBuffer ---------------------------
(***************************************************************************)
(* circular_buffer<T> (OldCode/General/CircularBuffer.h) shared by several *)
(* threads, one statement per step.  put, get and reset run under mutex_;  *)
(* the lock_guard gives the mutex back in the step of the statement that   *)
(* ends the call, the early return of get included.  A slot that was moved *)
(* from holds Null, the state of a moved-from shared_ptr.                  *)
(***************************************************************************)
EXTENDS Integers, Sequences

CONSTANTS Threads,   \* the threads that call the buffer
          Items,     \* the non-null values that are stored
          Null,      \* T(), an empty shared_ptr
          NoThread,  \* the owner of mutex_ when it is free
          max_size   \* capacity given to the constructor

ASSUME CapacityAssumption == max_size \in Nat \ {0}
ASSUME ValueAssumption == Null \notin Items /\ NoThread \notin Threads

VARIABLES buf,       \* buf_, an array of max_size slots
          head,      \* head_, the slot the next put writes
          tail,      \* tail_, the slot the next get reads
          full,      \* full_
          mutex,     \* the thread that holds mutex_, or NoThread
          pc,        \* the statement each thread executes next
          item,      \* the argument of each thread's put
          val        \* the result of each thread's last get

vars == <<buf, head, tail, full, mutex, pc, item, val>>

Slots == 0 .. max_size - 1

\* Faulty variant for testing the properties: the index does not wrap.
AdvanceWithoutWrap(i) == i + 1

Advance(i) == (i + 1) % max_size

Locations == {"idle", "put", "put_store", "put_tail", "put_head", "put_full",
              "get", "get_check", "get_full", "get_tail",
              "reset", "reset_head", "reset_full"}

\* size(), empty(): the observers, as the owner of the mutex sees them.
Size == IF full THEN max_size
        ELSE IF head >= tail THEN head - tail ELSE max_size + head - tail

Empty == ~full /\ head = tail

-----------------------------------------------------------------------------
Init == /\ buf = [i \in Slots |-> Null]
        /\ head = 0
        /\ tail = 0
        /\ full = FALSE
        /\ mutex = NoThread
        /\ pc = [t \in Threads |-> "idle"]
        /\ item = [t \in Threads |-> Null]
        /\ val = [t \in Threads |-> Null]

Goto(t, from, to) == /\ pc[t] = from
                     /\ pc' = [pc EXCEPT ![t] = to]

Lock(t) == mutex = NoThread /\ mutex' = t
Unlock == mutex' = NoThread

\* put(T item)
CallPut(t, x) == /\ Goto(t, "idle", "put")
                 /\ item' = [item EXCEPT ![t] = x]
                 /\ UNCHANGED <<buf, head, tail, full, mutex, val>>

\* Faulty variant: put without its lock_guard.
PutLockMissing(t) == /\ Goto(t, "put", "put_store")
                     /\ mutex' = t
                     /\ UNCHANGED <<buf, head, tail, full, item, val>>

PutLock(t) == /\ Goto(t, "put", "put_store")
              /\ Lock(t)
              /\ UNCHANGED <<buf, head, tail, full, item, val>>

PutStore(t) == /\ Goto(t, "put_store", "put_tail")
               /\ buf' = [buf EXCEPT ![head] = item[t]]
               /\ item' = [item EXCEPT ![t] = Null]
               /\ UNCHANGED <<head, tail, full, mutex, val>>

PutTail(t) == /\ Goto(t, "put_tail", "put_head")
              /\ tail' = IF full THEN Advance(tail) ELSE tail
              /\ UNCHANGED <<buf, head, full, mutex, item, val>>

PutHead(t) == /\ Goto(t, "put_head", "put_full")
              /\ head' = Advance(head)
              /\ UNCHANGED <<buf, tail, full, mutex, item, val>>

PutFull(t) == /\ Goto(t, "put_full", "idle")
              /\ full' = (head = tail)
              /\ Unlock
              /\ UNCHANGED <<buf, head, tail, item, val>>

\* get()
CallGet(t) == /\ Goto(t, "idle", "get")
              /\ UNCHANGED <<buf, head, tail, full, mutex, item, val>>

GetLock(t) == /\ Goto(t, "get", "get_check")
              /\ Lock(t)
              /\ UNCHANGED <<buf, head, tail, full, item, val>>

\* Faulty variant: the early return leaves mutex_ locked.
GetNothingKeepsMutex(t) == /\ Empty
                           /\ Goto(t, "get_check", "idle")
                           /\ val' = [val EXCEPT ![t] = Null]
                           /\ UNCHANGED <<buf, head, tail, full, item, mutex>>

GetNothing(t) == /\ Empty
                 /\ Goto(t, "get_check", "idle")
                 /\ val' = [val EXCEPT ![t] = Null]
                 /\ Unlock
                 /\ UNCHANGED <<buf, head, tail, full, item>>

GetMove(t) == /\ ~Empty
              /\ Goto(t, "get_check", "get_full")
              /\ val' = [val EXCEPT ![t] = buf[tail]]
              /\ buf' = [buf EXCEPT ![tail] = Null]
              /\ UNCHANGED <<head, tail, full, mutex, item>>

\* Faulty variant: get forgets to lower full_.
GetFullKeepsFlag(t) == /\ Goto(t, "get_full", "get_tail")
                       /\ UNCHANGED <<buf, head, tail, full, mutex, item, val>>

GetFull(t) == /\ Goto(t, "get_full", "get_tail")
              /\ full' = FALSE
              /\ UNCHANGED <<buf, head, tail, mutex, item, val>>

GetTail(t) == /\ Goto(t, "get_tail", "idle")
              /\ tail' = Advance(tail)
              /\ Unlock
              /\ UNCHANGED <<buf, head, full, item, val>>

\* reset()
CallReset(t) == /\ Goto(t, "idle", "reset")
                /\ UNCHANGED <<buf, head, tail, full, mutex, item, val>>

ResetLock(t) == /\ Goto(t, "reset", "reset_head")
                /\ Lock(t)
                /\ UNCHANGED <<buf, head, tail, full, item, val>>

ResetHead(t) == /\ Goto(t, "reset_head", "reset_full")
                /\ head' = tail
                /\ UNCHANGED <<buf, tail, full, mutex, item, val>>

ResetFull(t) == /\ Goto(t, "reset_full", "idle")
                /\ full' = FALSE
                /\ Unlock
                /\ UNCHANGED <<buf, head, tail, item, val>>

Call(t) == (\E x \in Items : CallPut(t, x)) \/ CallGet(t) \/ CallReset(t)

\* A statement of a call that holds the mutex.
Body(t) == \/ PutStore(t) \/ PutTail(t) \/ PutHead(t) \/ PutFull(t)
           \/ GetNothing(t) \/ GetMove(t) \/ GetFull(t) \/ GetTail(t)
           \/ ResetHead(t) \/ ResetFull(t)

Step(t) == PutLock(t) \/ GetLock(t) \/ ResetLock(t) \/ Body(t)

Next == \E t \in Threads : Call(t) \/ Step(t)

Spec == Init /\ [][Next]_vars

\* A thread that runs a call keeps running it; std::mutex promises no more
\* than that one of the waiters gets the mutex, so nothing is assumed of the
\* order in which it is handed out.
FairSpec == Spec /\ \A t \in Threads : WF_vars(Body(t))

-----------------------------------------------------------------------------
(* The refinement mapping.  A put takes effect when it stores its item, a  *)
(* get when it moves the slot out or finds the buffer empty, a reset when  *)
(* it moves head_.  Until the call ends the indices lag behind, so where   *)
(* the contents start and how many there are depends on the statement the  *)
(* owner of the mutex has reached.                                         *)
At == IF mutex = NoThread THEN "idle" ELSE pc[mutex]

First == IF \/ At \in {"get_full", "get_tail"}
            \/ At = "put_tail" /\ full
         THEN Advance(tail) ELSE tail

Distance == IF head >= tail THEN head - tail ELSE max_size + head - tail

Count ==
    CASE At \in {"put_tail", "put_head"} -> IF full THEN max_size ELSE Size + 1
      [] At = "put_full"   -> IF head = tail THEN max_size ELSE Distance
      [] At = "get_full"   -> Size - 1
      [] At = "get_tail"   -> IF head = tail THEN max_size - 1 ELSE Distance - 1
      [] At = "reset_full" -> 0
      [] OTHER             -> Size

Contents == [i \in 1 .. Count |-> buf[(First + i - 1) % max_size]]

Queue == INSTANCE BoundedQueue WITH queue <- Contents, Capacity <- max_size

-----------------------------------------------------------------------------
(* Every variable holds a value the C++ type and the code's use of it      *)
(* allow.                                                                  *)
TypeOK == /\ buf \in [Slots -> Items \cup {Null}]
          /\ head \in Slots
          /\ tail \in Slots
          /\ full \in BOOLEAN
          /\ mutex \in Threads \cup {NoThread}
          /\ pc \in [Threads -> Locations]
          /\ item \in [Threads -> Items \cup {Null}]
          /\ val \in [Threads -> Items \cup {Null}]

(* No slot between tail_ and head_ is ever a moved-from or never-written   *)
(* one, whatever put, get and reset did before: a get that finds the       *)
(* buffer non-empty returns an object.  PacketMethodFactory::Create        *)
(* relies on it, a null packet there means an exhausted pool.              *)
ContentsNeverNull == \A i \in 1 .. Count : Contents[i] \in Items

(* circular_buffer is a linearizable drop-oldest queue: each call behaves  *)
(* as one atomic operation of BoundedQueue.                                *)
IsBoundedQueue == Queue!Spec

(* Every path through put, get and reset, the early return of get          *)
(* included, gives mutex_ back.                                            *)
MutexAlwaysReleased == mutex # NoThread ~> mutex = NoThread
=============================================================================
