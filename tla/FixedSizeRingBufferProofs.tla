---------------------- MODULE FixedSizeRingBufferProofs ----------------------
(***************************************************************************)
(* For every capacity and every set of values: the indices of the ring     *)
(* buffer stay in range, its window of held values is exact, and it        *)
(* implements the bounded queue that Radio is written against.             *)
(***************************************************************************)
EXTENDS FixedSizeRingBuffer, Integers, TLAPS

\* Modulo on the two ranges in which the ring buffer's index arithmetic falls.
LEMMA ModuloOnce ==
  ASSUME NEW n \in Nat \ {0}, NEW a \in 0 .. 2 * n - 1
  PROVE  a % n = IF a < n THEN a ELSE a - n
OBVIOUS

\* SlotOf and Following without the modulo, for indices in range.
LEMMA SlotOfByCase ==
  ASSUME NEW o \in Slots, NEW k \in 0 .. Size
  PROVE  (o + k) % Size = IF o + k < Size THEN o + k ELSE (o + k) - Size
<1>1. o + k \in 0 .. 2 * Size - 1
  BY SizeAssumption DEF Slots
<1>2. QED
  BY <1>1, SizeAssumption, ModuloOnce

-----------------------------------------------------------------------------
\* The counter and both indices stay in range: push_back and pop_front never
\* index outside _container.
THEOREM TypeCorrect == Spec => []TypeOK
<1>1. Init => TypeOK
  BY SizeAssumption DEF Init, TypeOK, Slots
<1>2. TypeOK /\ [Next]_vars => TypeOK'
  <2> SUFFICES ASSUME TypeOK, [Next]_vars PROVE TypeOK'
    OBVIOUS
  <2>1. \A idx \in Slots : Following(idx) \in Slots
    BY SizeAssumption, SlotOfByCase DEF Following, Slots
  <2>2. CASE Take
    BY <2>1, <2>2, SizeAssumption DEF TypeOK, Take, MoveOut, pop_front, empty
  <2>3. ASSUME NEW v \in Value, push_back(v) PROVE TypeOK'
    BY <2>1, <2>3, SizeAssumption DEF TypeOK, push_back, HasRoom, vars
  <2>4. CASE UNCHANGED vars
    BY <2>4 DEF vars, TypeOK
  <2>5. QED
    BY <2>2, <2>3, <2>4 DEF Next
<1>3. QED
  BY <1>1, <1>2, PTL DEF Spec

-----------------------------------------------------------------------------
\* What a push that finds room does to the window: the slot it writes is the
\* one after the window, and the window does not move.
LEMMA PushExtendsWindow ==
  ASSUME TypeOK, WindowIsExact, NEW v \in Value, push_back(v), HasRoom
  PROVE  /\ pushed' = pushed + 1
         /\ \A i \in 1 .. Size : SlotOf(i)' = SlotOf(i)
         /\ SlotOf(pushed + 1) = inIdx
         /\ \A i \in 1 .. pushed : SlotOf(i) # inIdx
         /\ container' = [container EXCEPT ![inIdx] = v]
         /\ inIdx' = (outIdx' + pushed') % Size
<1>1. /\ pushed \in 0 .. Size - 1 /\ pushed' = pushed + 1 /\ outIdx' = outIdx
      /\ inIdx' = Following(inIdx) /\ outIdx \in Slots /\ inIdx \in Slots
  BY SizeAssumption DEF TypeOK, push_back, HasRoom
<1>2. inIdx = IF outIdx + pushed < Size THEN outIdx + pushed
                                        ELSE (outIdx + pushed) - Size
  <2>1. inIdx = (outIdx + pushed) % Size
    BY DEF WindowIsExact, IndicesAgree
  <2>2. outIdx \in Slots /\ pushed \in 0 .. Size
    BY <1>1, SizeAssumption
  <2>3. (outIdx + pushed) % Size = IF outIdx + pushed < Size
                                   THEN outIdx + pushed
                                   ELSE (outIdx + pushed) - Size
    BY <2>2, SlotOfByCase
  <2>4. QED
    BY <2>1, <2>3
<1>3. inIdx' = IF inIdx + 1 < Size THEN inIdx + 1 ELSE (inIdx + 1) - Size
  BY <1>1, SlotOfByCase, SizeAssumption DEF Following
<1>4. (outIdx' + pushed') % Size =
        IF outIdx + (pushed + 1) < Size THEN outIdx + (pushed + 1)
                                        ELSE (outIdx + (pushed + 1)) - Size
  BY <1>1, SlotOfByCase, SizeAssumption
<1>5. inIdx' = (outIdx' + pushed') % Size
  BY <1>1, <1>2, <1>3, <1>4, SizeAssumption DEF Slots
<1>6. \A i \in 1 .. Size : SlotOf(i) = IF outIdx + (i - 1) < Size
                                       THEN outIdx + (i - 1)
                                       ELSE (outIdx + (i - 1)) - Size
  BY <1>1, SlotOfByCase, SizeAssumption DEF SlotOf
<1>7. \A i \in 1 .. pushed : SlotOf(i) # inIdx
  BY <1>1, <1>2, <1>6, SizeAssumption DEF Slots
<1>8. SlotOf(pushed + 1) = inIdx
  BY <1>1, <1>2, <1>6, SizeAssumption
<1>9. \A i \in 1 .. Size : SlotOf(i)' = SlotOf(i)
  BY <1>1 DEF SlotOf
<1>10. QED
  BY <1>1, <1>5, <1>7, <1>8, <1>9 DEF push_back, HasRoom

\* What taking from a non-empty buffer does: the window loses its first slot.
LEMMA TakeShiftsWindow ==
  ASSUME TypeOK, WindowIsExact, Take, ~ empty
  PROVE  /\ pushed' = pushed - 1
         /\ result' = container[SlotOf(1)]
         /\ \A i \in 1 .. pushed - 1 : SlotOf(i)' = SlotOf(i + 1)
         /\ \A i \in 2 .. pushed : SlotOf(i) # SlotOf(1)
         /\ container' = [container EXCEPT ![SlotOf(1)] = Vacant]
         /\ inIdx' = (outIdx' + pushed') % Size
<1>1. /\ pushed \in 1 .. Size /\ pushed' = pushed - 1 /\ inIdx' = inIdx
      /\ outIdx' = Following(outIdx) /\ outIdx \in Slots
  BY SizeAssumption DEF TypeOK, Take, pop_front, empty
<1>2. outIdx' = IF outIdx + 1 < Size THEN outIdx + 1 ELSE (outIdx + 1) - Size
  BY <1>1, SlotOfByCase, SizeAssumption DEF Following
<1>3. \A i \in 1 .. Size : SlotOf(i) = IF outIdx + (i - 1) < Size
                                       THEN outIdx + (i - 1)
                                       ELSE (outIdx + (i - 1)) - Size
  BY <1>1, SlotOfByCase, SizeAssumption DEF SlotOf
<1>4. outIdx' \in Slots
  BY <1>1, <1>2, SizeAssumption DEF Slots
<1>5. \A i \in 1 .. Size : SlotOf(i)' = IF outIdx' + (i - 1) < Size
                                        THEN outIdx' + (i - 1)
                                        ELSE (outIdx' + (i - 1)) - Size
  BY <1>4, SlotOfByCase, SizeAssumption DEF SlotOf
<1>6. \A i \in 1 .. pushed - 1 : SlotOf(i)' = SlotOf(i + 1)
  BY <1>1, <1>2, <1>3, <1>5, SizeAssumption DEF Slots
<1>7. \A i \in 2 .. pushed : SlotOf(i) # SlotOf(1)
  BY <1>1, <1>3, SizeAssumption DEF Slots
<1>8. SlotOf(1) = outIdx
  BY <1>1, <1>3, SizeAssumption DEF Slots
<1>9. inIdx' = (outIdx' + pushed') % Size
  <2>1. (outIdx + pushed) % Size = IF outIdx + pushed < Size
                                   THEN outIdx + pushed
                                   ELSE (outIdx + pushed) - Size
    BY <1>1, SlotOfByCase, SizeAssumption
  <2>2. (outIdx' + pushed') % Size = IF outIdx' + (pushed - 1) < Size
                                     THEN outIdx' + (pushed - 1)
                                     ELSE (outIdx' + (pushed - 1)) - Size
    BY <1>1, <1>4, SlotOfByCase, SizeAssumption
  <2>3. QED
    BY <1>1, <1>2, <2>1, <2>2, SizeAssumption DEF WindowIsExact, IndicesAgree, Slots
<1>10. QED
  BY <1>1, <1>6, <1>7, <1>8, <1>9 DEF Take, MoveOut

\* Taking from an empty buffer finds a vacant slot and changes nothing else.
LEMMA TakeFromEmpty ==
  ASSUME TypeOK, WindowIsExact, Take, empty
  PROVE  result' = Vacant /\ UNCHANGED <<inIdx, outIdx, pushed, container>>
<1>1. container[outIdx] = Vacant
  BY DEF TypeOK, WindowIsExact, OnlyWindowIsFull, empty
<1>2. [container EXCEPT ![outIdx] = Vacant] = container
  BY <1>1 DEF TypeOK
<1>3. QED
  BY <1>1, <1>2 DEF Take, MoveOut, pop_front, empty

-----------------------------------------------------------------------------
\* Every update of an index, of the counter or of a slot keeps the three in
\* step: the window is exact in every reachable state.
THEOREM WindowStaysExact == Spec => []WindowIsExact
<1>1. Init => WindowIsExact
  <2> SUFFICES ASSUME Init PROVE WindowIsExact
    OBVIOUS
  <2>1. 0 \in Slots /\ (0 + 0) % Size = IF 0 + 0 < Size THEN 0 + 0 ELSE (0 + 0) - Size
    BY SlotOfByCase, SizeAssumption DEF Slots
  <2>2. QED
    BY <2>1, SizeAssumption
    DEF Init, WindowIsExact, IndicesAgree, OnlyWindowIsFull
<1>2. TypeOK /\ WindowIsExact /\ [Next]_vars => WindowIsExact'
  <2> SUFFICES ASSUME TypeOK, WindowIsExact, [Next]_vars PROVE WindowIsExact'
    OBVIOUS
  <2>1. CASE Take /\ ~ empty
    <3>1. /\ pushed \in 1 .. Size /\ container \in [Slots -> Value \cup {Vacant}]
          /\ pushed' = pushed - 1
      BY <2>1, TakeShiftsWindow DEF TypeOK, empty
    <3>2. \A s \in Slots : container'[s] # Vacant
                             <=> container[s] # Vacant /\ s # SlotOf(1)
      BY <2>1, <3>1, TakeShiftsWindow
    <3>3. \A s \in Slots : (\E i \in 1 .. pushed' : s = SlotOf(i)')
                             <=> \E i \in 2 .. pushed : s = SlotOf(i)
      <4>1. ASSUME NEW s \in Slots, NEW i \in 1 .. pushed', s = SlotOf(i)'
            PROVE  \E j \in 2 .. pushed : s = SlotOf(j)
        BY <2>1, <3>1, <4>1, i + 1 \in 2 .. pushed, TakeShiftsWindow
      <4>2. ASSUME NEW s \in Slots, NEW i \in 2 .. pushed, s = SlotOf(i)
            PROVE  \E j \in 1 .. pushed' : s = SlotOf(j)'
        <5>1. i - 1 \in 1 .. pushed' /\ i - 1 \in 1 .. pushed - 1 /\ (i - 1) + 1 = i
          BY <3>1
        <5>2. SlotOf(i - 1)' = SlotOf((i - 1) + 1)
          BY <2>1, <5>1, TakeShiftsWindow
        <5>3. QED
          BY <4>2, <5>1, <5>2
      <4>3. QED
        BY <4>1, <4>2
    <3>4. \A s \in Slots : (\E i \in 1 .. pushed : s = SlotOf(i)) /\ s # SlotOf(1)
                             <=> \E i \in 2 .. pushed : s = SlotOf(i)
      BY <2>1, <3>1, TakeShiftsWindow
    <3>5. OnlyWindowIsFull'
      BY <3>2, <3>3, <3>4 DEF WindowIsExact, OnlyWindowIsFull
    <3>6. QED
      BY <2>1, <3>5, TakeShiftsWindow DEF WindowIsExact, IndicesAgree
  <2>2. CASE Take /\ empty
    BY <2>2, TakeFromEmpty
    DEF WindowIsExact, IndicesAgree, OnlyWindowIsFull, SlotOf
  <2>3. ASSUME NEW v \in Value, push_back(v) PROVE WindowIsExact'
    <3>1. CASE HasRoom
      <4>1. /\ pushed \in 0 .. Size - 1 /\ container \in [Slots -> Value \cup {Vacant}]
            /\ inIdx \in Slots
        BY <3>1, SizeAssumption DEF TypeOK, HasRoom
      <4>2. \A s \in Slots : container'[s] # Vacant
                               <=> container[s] # Vacant \/ s = inIdx
        BY <2>3, <3>1, <4>1, PushExtendsWindow, VacantAssumption
      <4>3. \A s \in Slots : (\E i \in 1 .. pushed' : s = SlotOf(i)')
                               <=> (\E i \in 1 .. pushed : s = SlotOf(i)) \/ s = inIdx
        <5>1. pushed' = pushed + 1 /\ 1 .. pushed' = (1 .. pushed) \cup {pushed + 1}
          BY <2>3, <3>1, <4>1, PushExtendsWindow
        <5>2. \A i \in 1 .. pushed' : i \in 1 .. Size
          BY <4>1, <5>1, SizeAssumption
        <5>3. QED
          BY <2>3, <3>1, <5>1, <5>2, PushExtendsWindow
      <4>4. OnlyWindowIsFull'
        BY <4>2, <4>3 DEF WindowIsExact, OnlyWindowIsFull
      <4>5. QED
        BY <2>3, <3>1, <4>4, PushExtendsWindow DEF WindowIsExact, IndicesAgree
    <3>2. CASE ~ HasRoom
      BY <2>3, <3>2
      DEF push_back, vars, WindowIsExact, IndicesAgree, OnlyWindowIsFull, SlotOf
    <3>3. QED
      BY <3>1, <3>2
  <2>4. CASE UNCHANGED vars
    BY <2>4 DEF vars, WindowIsExact, IndicesAgree, OnlyWindowIsFull, SlotOf
  <2>5. QED
    BY <2>1, <2>2, <2>3, <2>4 DEF Next
<1>3. QED
  BY <1>1, <1>2, TypeCorrect, PTL DEF Spec

-----------------------------------------------------------------------------
\* Whatever its capacity, the ring buffer is a FIFO that drops the newest
\* value when it is full and never replays a value when it is empty.
THEOREM RefinesBoundedQueue == Spec => ImplementsBoundedQueue
<1>1. Init => Queue!Init
  BY DEF Init, Queue!Init, Held
<1>2. TypeOK /\ WindowIsExact /\ [Next]_vars => [Queue!Next]_(Queue!vars)
  <2> SUFFICES ASSUME TypeOK, WindowIsExact, [Next]_vars
               PROVE  [Queue!Next]_(Queue!vars)
    OBVIOUS
  <2>1. /\ pushed \in 0 .. Size /\ container \in [Slots -> Value \cup {Vacant}]
        /\ inIdx \in Slots /\ outIdx \in Slots
    BY DEF TypeOK
  <2>2. \A i \in 1 .. pushed : SlotOf(i) \in Slots
    BY <2>1, SizeAssumption, ModuloOnce DEF SlotOf, Slots
  <2>3. Held \in Seq(Value \cup {Vacant}) /\ Len(Held) = pushed
    BY <2>1, <2>2 DEF Held
  <2>4. CASE Take /\ ~ empty
    <3>1. pushed \in 1 .. Size /\ pushed' = pushed - 1
      BY <2>1, <2>4, TakeShiftsWindow DEF empty
    <3>2. Held # << >> /\ result' = Head(Held)
      BY <2>3, <2>4, <3>1, TakeShiftsWindow DEF Held
    <3>3. \A i \in 1 .. pushed - 1 : container'[SlotOf(i)'] = container[SlotOf(i + 1)]
      <4> SUFFICES ASSUME NEW i \in 1 .. pushed - 1
                   PROVE  container'[SlotOf(i)'] = container[SlotOf(i + 1)]
        OBVIOUS
      <4>1. i + 1 \in 2 .. pushed /\ i + 1 \in 1 .. pushed
        BY <3>1
      <4>2. SlotOf(i)' = SlotOf(i + 1) /\ SlotOf(i + 1) # SlotOf(1)
        BY <2>4, <4>1, TakeShiftsWindow
      <4>3. QED
        BY <2>1, <2>2, <2>4, <4>1, <4>2, TakeShiftsWindow
    <3>4. Held' = [i \in 1 .. pushed - 1 |-> container'[SlotOf(i)']]
      BY <3>1 DEF Held
    <3>5. Tail(Held) = [i \in 1 .. pushed - 1 |-> container[SlotOf(i + 1)]]
      BY <2>3, <3>1 DEF Held
    <3>6. Held' = Tail(Held)
      BY <3>3, <3>4, <3>5
    <3>7. QED
      BY <3>2, <3>6 DEF Queue!Next, Queue!Take
  <2>5. CASE Take /\ empty
    <3>1. Held = << >> /\ Held' = Held /\ result' = Vacant
      BY <2>5, TakeFromEmpty DEF Held, SlotOf, empty
    <3>2. QED
      BY <3>1 DEF Queue!Next, Queue!TakeEmpty
  <2>6. ASSUME NEW v \in Value, push_back(v) PROVE [Queue!Next]_(Queue!vars)
    <3>1. CASE HasRoom
      <4>1. pushed \in 0 .. Size - 1 /\ pushed' = pushed + 1 /\ result' = result
        BY <2>1, <2>6, <3>1, SizeAssumption DEF HasRoom, push_back
      <4>2. Append(Held, v) = [i \in 1 .. pushed + 1 |->
                                 IF i = pushed + 1 THEN v ELSE container[SlotOf(i)]]
        BY <2>3, <4>1 DEF Held
      <4>3. Held' = [i \in 1 .. pushed + 1 |-> container'[SlotOf(i)']]
        BY <4>1 DEF Held
      <4>4. \A i \in 1 .. pushed + 1 :
              container'[SlotOf(i)'] = IF i = pushed + 1 THEN v ELSE container[SlotOf(i)]
        BY <2>1, <2>2, <2>6, <3>1, <4>1, SizeAssumption, PushExtendsWindow
      <4>5. Held' = Append(Held, v)
        BY <4>2, <4>3, <4>4
      <4>6. QED
        <5>1. Len(Held) < Size
          BY <2>3, <4>1, SizeAssumption
        <5>2. Queue!Push(v)
          BY <4>1, <4>5, <5>1 DEF Queue!Push, Queue!Pushed
        <5>3. QED
          BY <5>2 DEF Queue!Next
    <3>2. CASE ~ HasRoom
      BY <2>6, <3>2 DEF push_back, vars, Queue!vars, Held, SlotOf
    <3>3. QED
      BY <3>1, <3>2
  <2>7. CASE UNCHANGED vars
    BY <2>7 DEF vars, Queue!vars, Held, SlotOf
  <2>8. QED
    BY <2>4, <2>5, <2>6, <2>7 DEF Next
<1>3. QED
  BY <1>1, <1>2, TypeCorrect, WindowStaysExact, PTL
  DEF Spec, ImplementsBoundedQueue, Queue!Spec
=============================================================================
