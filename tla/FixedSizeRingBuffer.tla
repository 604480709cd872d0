------------------------- MODULE FixedSizeRingBuffer -------------------------
(***************************************************************************)
(* FixedSizeRingBuffer<ValueType, Size>, the container under the transmit  *)
(* and receive queues of radio::Radio.  Slots are numbered from 0 as in    *)
(* the std::array.  A client reads with the pair                           *)
(*     auto m = std::move(queue.front()); queue.pop();                     *)
(* which is the action Take: it empties the slot it reads, because the     *)
(* value is moved out of it, and pop() is the container's pop_front().     *)
(***************************************************************************)
EXTENDS Naturals, Sequences

CONSTANTS
  Value,    \* the values that are pushed
  Vacant,   \* a default-constructed or moved-from slot
  Size      \* number of slots

ASSUME SizeAssumption == Size \in Nat \ {0}
ASSUME VacantAssumption == Vacant \notin Value

VARIABLES
  inIdx,      \* _inIdx, the slot the next push writes
  outIdx,     \* _outIdx, the slot front() reads
  pushed,     \* _pushed, the number of values held
  container,  \* _container
  result      \* what the last Take obtained

vars == <<inIdx, outIdx, pushed, container, result>>

Slots == 0 .. Size - 1

Init ==
  /\ inIdx = 0
  /\ outIdx = 0
  /\ pushed = 0
  /\ container = [s \in Slots |-> Vacant]
  /\ result = Vacant

\* Variant: the index is not wrapped around.
FollowingUnwrapped(idx) == idx + 1

\* The index after idx.
Following(idx) == (idx + 1) % Size

empty == pushed = 0

\* Variants with a slip of the pen, used to test the properties.
AlwaysRoom == TRUE
ReadWithoutMove == UNCHANGED container

\* The test that both push_back() overloads begin with.
HasRoom == ~ (pushed >= Size)

push_back(v) ==
  IF HasRoom
  THEN /\ container' = [container EXCEPT ![inIdx] = v]
       /\ inIdx' = Following(inIdx)
       /\ pushed' = pushed + 1
       /\ UNCHANGED <<outIdx, result>>
  ELSE UNCHANGED vars

\* The client moves the value out of the slot that front() refers to.
MoveOut == container' = [container EXCEPT ![outIdx] = Vacant]

pop_front ==
  IF empty
  THEN UNCHANGED <<pushed, outIdx>>
  ELSE /\ pushed' = pushed - 1
       /\ outIdx' = Following(outIdx)

Take ==
  /\ result' = container[outIdx]
  /\ MoveOut
  /\ pop_front
  /\ UNCHANGED inIdx

Next == Take \/ \E v \in Value : push_back(v)

Spec == Init /\ [][Next]_vars
-----------------------------------------------------------------------------
\* Every index stays inside the array, whatever the clients call.
TypeOK ==
  /\ inIdx \in Slots
  /\ outIdx \in Slots
  /\ pushed \in 0 .. Size
  /\ container \in [Slots -> Value \cup {Vacant}]
  /\ result \in Value \cup {Vacant}

\* The slot of the i-th oldest value.
SlotOf(i) == (outIdx + (i - 1)) % Size

\* The write index is where the window of held values ends.
IndicesAgree == inIdx = (outIdx + pushed) % Size

\* The slots of the window hold values and all other slots are vacant.
OnlyWindowIsFull ==
  \A s \in Slots : container[s] # Vacant <=> \E i \in 1 .. pushed : s = SlotOf(i)

(***************************************************************************)
(* The two indices and the counter, kept redundantly by push_back and      *)
(* pop_front, agree, and a slot holds a value exactly when it is in the    *)
(* window.  Drop one update and the buffer loses or replays a message.     *)
(***************************************************************************)
WindowIsExact == IndicesAgree /\ OnlyWindowIsFull

\* The held values, oldest first.
Held == [i \in 1 .. pushed |-> container[SlotOf(i)]]

Queue == INSTANCE BoundedQueue WITH queue <- Held

(***************************************************************************)
(* The refinement: read from the out index, the held slots are the queue   *)
(* of BoundedQueue, so the ring buffer is a FIFO that drops the newest     *)
(* value when full and that yields no old value when it is empty.          *)
(***************************************************************************)
ImplementsBoundedQueue == Queue!Spec
=============================================================================
