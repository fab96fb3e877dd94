---------------------------- MODULE BoundedQueue ----------------------------
(***************************************************************************)
(* What circular_buffer<T> promises to the threads that share it: a FIFO   *)
(* queue of at most Capacity items in which every put, get and reset takes *)
(* effect at one instant.  A put on a full queue forgets the oldest item;  *)
(* a get on an empty queue hands out T(), here Null.                       *)
(***************************************************************************)
EXTENDS Naturals, Sequences

CONSTANTS Threads,   \* the threads that call the buffer
          Items,     \* the non-null values that are stored
          Null,      \* T(), a default constructed shared_ptr
          Capacity   \* the constructor's size argument

VARIABLES queue,     \* the stored items, oldest first
          val        \* val[t]: what the last get of thread t returned

PutDroppingOldest(q, x) ==
    IF Len(q) = Capacity THEN Append(Tail(q), x) ELSE Append(q, x)

Init == /\ queue = <<>>
        /\ val = [t \in Threads |-> Null]

Put(x) == /\ queue' = PutDroppingOldest(queue, x)
          /\ UNCHANGED val

GetOldest(t) == /\ queue # <<>>
                /\ val' = [val EXCEPT ![t] = Head(queue)]
                /\ queue' = Tail(queue)

GetNothing(t) == /\ queue = <<>>
                 /\ val' = [val EXCEPT ![t] = Null]
                 /\ UNCHANGED queue

Reset == /\ queue' = <<>>
         /\ UNCHANGED val

Next == \/ \E x \in Items : Put(x)
        \/ \E t \in Threads : GetOldest(t) \/ GetNothing(t)
        \/ Reset

Spec == Init /\ [][Next]_<<queue, val>>
=============================================================================
