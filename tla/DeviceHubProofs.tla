---------------------------- MODULE DeviceHubProofs ----------------------------
(***************************************************************************)
(* Proofs about DeviceHub, for every number of devices, whichever of them  *)
(* are alive, every patience, every size of the queues and every clock.    *)
(***************************************************************************)
EXTENDS DeviceHub, FiniteSetTheorems, SequenceTheorems, TLAPS

-----------------------------------------------------------------------------
(* A clock that wraps.                                                     *)

\* A reading is followed by that of one unit later.
LEMMA NextReading ==
  ASSUME NEW period \in Nat, NEW t \in 0 .. period - 1, NEW w \in 0 .. period - 1,
         w + 1 < period
  PROVE  (((t + w) % period) + 1) % period = (t + (w + 1)) % period
<1>1. (t + w) % period = IF t + w < period THEN t + w ELSE t + w - period
  OBVIOUS
<1>2. CASE t + w + 1 < period
  BY <1>1, <1>2
<1>3. CASE t + w + 1 = period
  BY <1>1, <1>3
<1>4. CASE t + w + 1 > period
  BY <1>1, <1>4
<1> QED
  BY <1>2, <1>3, <1>4

\* The difference of two readings less than a period apart is the time between them.
LEMMA ElapsedTime ==
  ASSUME NEW period \in Nat, NEW t \in 0 .. period - 1, NEW w \in 0 .. period - 1
  PROVE  (((t + w) % period) - t) % period = w
<1>1. (t + w) % period = IF t + w < period THEN t + w ELSE t + w - period
  OBVIOUS
<1> QED
  BY <1>1
-----------------------------------------------------------------------------
(* Messages that wait in a queue or in the hub.                            *)

\* The messages in a queue are finitely many, and so are the statuses of them.
LEMMA QueueIsFinite ==
  ASSUME NEW S, NEW q \in Seq(S)
  PROVE  IsFiniteSet(ToSet(q)) /\ ToSet(q) \subseteq S
<1>1. q \in Surjection(1 .. Len(q), ToSet(q)) /\ ToSet(q) \subseteq S
  BY DEF Surjection, ToSet
<1>2. IsFiniteSet(1 .. Len(q))
  BY FS_Interval
<1> QED
  BY <1>1, <1>2, FS_Surjection

LEMMA StatusesAreFinite ==
  ASSUME NEW M, IsFiniteSet(M)
  PROVE  IsFiniteSet(Statuses(M)) /\ Cardinality(Statuses(M)) \in Nat
<1>1. Statuses(M) \in SUBSET M
  BY DEF Statuses
<1> QED
  BY <1>1, FS_Subset, FS_CardinalityType

\* Two sets of statuses together are not more than one and the other.
LEMMA StatusesOfBoth ==
  ASSUME NEW M, NEW N, IsFiniteSet(M), IsFiniteSet(N), NEW K \in SUBSET N
  PROVE  /\ Cardinality(Statuses(M \cup K)) \in Nat
         /\ Cardinality(Statuses(M \cup K))
              <= Cardinality(Statuses(M)) + Cardinality(Statuses(N))
<1>1. /\ IsFiniteSet(Statuses(M)) /\ Cardinality(Statuses(M)) \in Nat
      /\ IsFiniteSet(Statuses(N)) /\ Cardinality(Statuses(N)) \in Nat
  BY StatusesAreFinite
<1>2. Statuses(M \cup K) \in SUBSET (Statuses(M) \cup Statuses(N))
  BY DEF Statuses
<1>3. /\ IsFiniteSet(Statuses(M) \cup Statuses(N))
      /\ Cardinality(Statuses(M) \cup Statuses(N))
           = Cardinality(Statuses(M)) + Cardinality(Statuses(N))
             - Cardinality(Statuses(M) \cap Statuses(N))
  BY <1>1, FS_Union
<1>4. Cardinality(Statuses(M) \cap Statuses(N)) \in Nat
  BY <1>1, FS_Intersection, FS_CardinalityType
<1>5. /\ Cardinality(Statuses(M) \cup Statuses(N)) \in Nat
      /\ Cardinality(Statuses(M \cup K)) \in Nat
      /\ Cardinality(Statuses(M \cup K)) <= Cardinality(Statuses(M) \cup Statuses(N))
  BY <1>2, <1>3, FS_Subset, FS_CardinalityType
<1> QED
  BY <1>1, <1>3, <1>4, <1>5

\* A set with a status in it has at least one.
LEMMA StatusCounts ==
  ASSUME NEW M, IsFiniteSet(M), NEW m \in Statuses(M)
  PROVE  Cardinality(Statuses(M)) \in Nat /\ Cardinality(Statuses(M)) >= 1
<1>1. IsFiniteSet(Statuses(M)) /\ Cardinality(Statuses(M)) \in Nat
  BY StatusesAreFinite
<1>2. Cardinality(Statuses(M)) # 0
  BY <1>1, FS_EmptySet
<1> QED
  BY <1>1, <1>2

\* Nothing counts as nothing.
LEMMA NoStatuses ==
  /\ IsFiniteSet({}) /\ Statuses({}) = {} /\ Cardinality(Statuses({})) = 0
  /\ ToSet(<< >>) = {}
<1>1. Statuses({}) = {} /\ ToSet(<< >>) = {}
  BY DEF Statuses, ToSet
<1> QED
  BY <1>1, FS_EmptySet

\* A message that reaches a queue adds at most itself.
LEMMA StatusArrives ==
  ASSUME NEW q \in Seq(Incoming), NEW m \in Incoming
  PROVE  /\ ToSet(Append(q, m)) = ToSet(q) \cup {m}
         /\ Cardinality(Statuses(ToSet(Append(q, m)))) \in Nat
         /\ Cardinality(Statuses(ToSet(Append(q, m))))
              <= Cardinality(Statuses(ToSet(q)))
                 + (IF IsStatus(m) /\ m.valid THEN 1 ELSE 0)
<1>1. ToSet(Append(q, m)) = ToSet(q) \cup {m}
  <2>1. /\ DOMAIN q = 1 .. Len(q) /\ Len(q) \in Nat
        /\ DOMAIN Append(q, m) = 1 .. Len(q) + 1
        /\ \A i \in 1 .. Len(q) : Append(q, m)[i] = q[i]
        /\ Append(q, m)[Len(q) + 1] = m
    OBVIOUS
  <2> QED
    BY <2>1 DEF ToSet
<1>2. Statuses(ToSet(q) \cup {m})
        = IF IsStatus(m) /\ m.valid THEN Statuses(ToSet(q)) \cup {m}
          ELSE Statuses(ToSet(q))
  BY DEF Statuses
<1>3. IsFiniteSet(Statuses(ToSet(q))) /\ Cardinality(Statuses(ToSet(q))) \in Nat
  BY QueueIsFinite, StatusesAreFinite
<1>4. /\ Cardinality(Statuses(ToSet(q)) \cup {m}) \in Nat
      /\ Cardinality(Statuses(ToSet(q)) \cup {m}) <= Cardinality(Statuses(ToSet(q))) + 1
  <2> DEFINE T == Statuses(ToSet(q))
  <2> HIDE DEF T
  <2>1. IsFiniteSet(T) /\ Cardinality(T) \in Nat
    BY <1>3 DEF T
  <2>2. Cardinality(T \cup {m}) = IF m \in T THEN Cardinality(T) ELSE Cardinality(T) + 1
    BY <2>1, FS_AddElement
  <2>3. Cardinality(T \cup {m}) \in Nat /\ Cardinality(T \cup {m}) <= Cardinality(T) + 1
    BY <2>1, <2>2
  <2> QED
    BY <2>3 DEF T
<1> QED
  BY <1>1, <1>2, <1>3, <1>4
-----------------------------------------------------------------------------
(* The invariant, by the part of the state that a step can disturb.        *)

\* The transmitting side of the radio.
LinkInv ==
  /\ transmitQueue \in Seq(Outgoing) /\ Len(transmitQueue) <= QueueSize
  /\ flight \in Seq(Outgoing) /\ Len(flight) <= 1

\* The scan itself.
ScanInv ==
  /\ state \in {"Idle", "Scanning"}
  /\ scanner \in Scanner
  /\ scanner.currentIndex = MaxDeviceCount <=> scanner.state = "Finish"
  /\ now \in 0 .. ClockModulus - 1
  /\ waited \in 0 .. LongestWait
  /\ asked \in Seq(Device)
  /\ AskedInOrder
  /\ ClockIsTrue

\* Where the messages of the devices are.
PlacesInv ==
  /\ receivedMessages \subseteq Incoming /\ IsFiniteSet(receivedMessages)
  /\ \A m \in receivedMessages : m.valid
  /\ receiveQueue \in Seq(Incoming) /\ Len(receiveQueue) <= QueueSize
  /\ underway \subseteq Incoming

\* What has been made of them.
CreditInv ==
  /\ activeBits \subseteq Device
  /\ answered \subseteq Device
  /\ punctual \in BOOLEAN
  /\ arrived \in Nat /\ credited \in Nat
  /\ CreditedOnce
  /\ RightWhenPunctual
  /\ PendingFromAsked

CountInv ==
  scans \in 0 .. MaxScans /\ answers \in 0 .. MaxAnswers /\ commands \in 0 .. MaxCommands

LEMMA InvByParts ==
  /\ Inv <=> LinkInv /\ ScanInv /\ PlacesInv /\ CreditInv /\ CountInv
  /\ Inv' <=> LinkInv' /\ ScanInv' /\ PlacesInv' /\ CreditInv' /\ CountInv'
<1> USE DEF Inv, TypeOK, LinkInv, ScanInv, PlacesInv, CreditInv, CountInv
<1>1. Inv <=> LinkInv /\ ScanInv /\ PlacesInv /\ CreditInv /\ CountInv
  OBVIOUS
<1>2. Inv' <=> LinkInv' /\ ScanInv' /\ PlacesInv' /\ CreditInv' /\ CountInv'
  OBVIOUS
<1> QED
  BY <1>1, <1>2

USE DEF radioVars, hubVars, scanHistory, airHistory

LEMMA InvInit == Init => Inv
<1> SUFFICES ASSUME Init PROVE Inv
  OBVIOUS
<1>1. LinkInv
  BY BoundsAssumption DEF Init, Link!Init, LinkInv
<1>2. ScanInv
  BY DeviceAssumption, ScanAssumption
     DEF Init, ScanInv, Scanner, NewScanner, AskedInOrder, ClockIsTrue
<1>3. PlacesInv
  BY BoundsAssumption, NoStatuses DEF Init, PlacesInv
<1>4. CreditInv
  <2>1. receivedMessages = {} /\ ToSet(receiveQueue) = {}
    BY NoStatuses DEF Init
  <2>2. /\ Cardinality(Statuses(receivedMessages)) = 0
        /\ Cardinality(Statuses(ToSet(receiveQueue))) = 0
        /\ Statuses(receivedMessages) \cup Statuses(ToSet(receiveQueue)) = {}
    BY <2>1, NoStatuses
  <2>3. CreditedOnce /\ RightWhenPunctual /\ PendingFromAsked
    BY <2>2 DEF Init, CreditedOnce, RightWhenPunctual, PendingFromAsked
  <2> QED
    BY <2>3 DEF Init, CreditInv
<1>5. CountInv
  BY BoundsAssumption DEF Init, CountInv
<1> QED
  BY <1>1, <1>2, <1>3, <1>4, <1>5, InvByParts

\* A step that leaves a part of the state alone leaves its invariant alone.
LEMMA Undisturbed ==
  /\ LinkInv /\ UNCHANGED <<transmitQueue, flight>> => LinkInv'
  /\ ScanInv /\ UNCHANGED <<state, scanner, now, waited, asked>> => ScanInv'
  /\ PlacesInv /\ UNCHANGED <<receivedMessages, receiveQueue, underway>> => PlacesInv'
  /\ CountInv /\ UNCHANGED <<scans, answers, commands>> => CountInv'
<1>1. LinkInv /\ UNCHANGED <<transmitQueue, flight>> => LinkInv'
  BY DEF LinkInv
<1>2. ScanInv /\ UNCHANGED <<state, scanner, now, waited, asked>> => ScanInv'
  BY DEF ScanInv, AskedInOrder, NextIndex, ClockIsTrue
<1>3. PlacesInv /\ UNCHANGED <<receivedMessages, receiveQueue, underway>> => PlacesInv'
  BY DEF PlacesInv
<1>4. CountInv /\ UNCHANGED <<scans, answers, commands>> => CountInv'
  BY DEF CountInv
<1> QED
  BY <1>1, <1>2, <1>3, <1>4

\* The device of a scan that asks or waits.
LEMMA IndexIsDevice ==
  ASSUME ScanInv
  PROVE  /\ scanner.state # "Finish" => scanner.currentIndex \in Device
         /\ scanner.currentIndex \in 0 .. MaxDeviceCount
         /\ scanner.timer \in 0 .. ClockModulus - 1
         /\ MaxDeviceCount \in Nat \ {0}
BY DeviceAssumption DEF ScanInv, Scanner, Device

\* A call of sendMessage() leaves the radio in order.
LEMMA AcceptKeeps ==
  ASSUME LinkInv, NEW m \in Outgoing, Link!Accept(m)
  PROVE  LinkInv'
BY BoundsAssumption DEF LinkInv, Link!Accept

\* receiveMessages() moves the messages and counts none twice.
LEMMA Collected ==
  ASSUME PlacesInv, CreditInv, receivedMessages' = receivedMessages \cup Kept,
         receiveQueue' = << >>, underway' = underway
  PROVE  /\ PlacesInv'
         /\ Statuses(receivedMessages') \cup Statuses(ToSet(receiveQueue'))
              \subseteq Statuses(receivedMessages) \cup Statuses(ToSet(receiveQueue))
         /\ UNCHANGED <<credited, arrived>> => CreditedOnce'
<1>1. /\ IsFiniteSet(ToSet(receiveQueue)) /\ ToSet(receiveQueue) \subseteq Incoming
      /\ Kept \in SUBSET ToSet(receiveQueue) /\ IsFiniteSet(receivedMessages)
      /\ \A m \in Kept : m.valid
  BY QueueIsFinite DEF PlacesInv, Kept, isMessageValid
<1>2. PlacesInv'
  <2>1. IsFiniteSet(Kept)
    BY <1>1, FS_Subset
  <2>2. IsFiniteSet(receivedMessages')
    BY <1>1, <2>1, FS_Union
  <2> QED
    BY <1>1, <2>2, BoundsAssumption DEF PlacesInv
<1>3. Statuses(ToSet(receiveQueue')) = {} /\ Cardinality(Statuses(ToSet(receiveQueue'))) = 0
  BY NoStatuses
<1>4. Statuses(receivedMessages')
        \subseteq Statuses(receivedMessages) \cup Statuses(ToSet(receiveQueue))
  BY <1>1 DEF Statuses
<1>5. /\ Cardinality(Statuses(receivedMessages')) \in Nat
      /\ Cardinality(Statuses(receivedMessages'))
           <= Cardinality(Statuses(receivedMessages))
              + Cardinality(Statuses(ToSet(receiveQueue)))
  BY <1>1, StatusesOfBoth
<1>6. /\ Cardinality(Statuses(receivedMessages)) \in Nat
      /\ Cardinality(Statuses(ToSet(receiveQueue))) \in Nat
  BY <1>1, StatusesAreFinite
<1>7. ASSUME UNCHANGED <<credited, arrived>> PROVE CreditedOnce'
  BY <1>3, <1>5, <1>6, <1>7 DEF CreditInv, CreditedOnce
<1> QED
  BY <1>2, <1>3, <1>4, <1>7

\* As long as no device is being asked, a step that only collects keeps its part.
LEMMA CollectedUnasked ==
  ASSUME PlacesInv, CreditInv, receivedMessages' = receivedMessages \cup Kept,
         receiveQueue' = << >>, \A d \in Device : ~ Asking(d),
         UNCHANGED <<underway, activeBits, answered, punctual, arrived, credited>>
  PROVE  PlacesInv' /\ CreditInv'
<1>1. /\ PlacesInv' /\ CreditedOnce'
      /\ Statuses(receivedMessages') \cup Statuses(ToSet(receiveQueue'))
           \subseteq Statuses(receivedMessages) \cup Statuses(ToSet(receiveQueue))
  BY Collected
<1>2. Statuses(receivedMessages) \cup Statuses(ToSet(receiveQueue)) \subseteq Incoming
  BY QueueIsFinite DEF PlacesInv, Statuses
<1>3. \A m \in Statuses(receivedMessages) \cup Statuses(ToSet(receiveQueue)) :
        m.sender \in Device
  BY <1>2 DEF Incoming
<1>4. PendingFromAsked'
  BY <1>1, <1>3 DEF CreditInv, PendingFromAsked
<1> QED
  BY <1>1, <1>4 DEF CreditInv, RightWhenPunctual
-----------------------------------------------------------------------------
(* The hub's own steps.                                                    *)

\* Without a scan, or between two devices, none is being asked.
LEMMA InvStartScan == Inv /\ startScan => Inv'
<1> SUFFICES ASSUME Inv, startScan PROVE Inv'
  OBVIOUS
<1>1. LinkInv /\ ScanInv /\ PlacesInv /\ CreditInv /\ CountInv
  BY InvByParts
<1>2. LinkInv' /\ PlacesInv'
  BY <1>1, Undisturbed DEF startScan
<1>3. CountInv'
  BY <1>1, BoundsAssumption DEF startScan, CountInv
<1>4. ScanInv'
  <2>1. scanner' = NewScanner /\ state' = "Scanning" /\ asked' = << >>
        /\ now' = now /\ waited' = waited
    BY DEF startScan, FreshScanner
  <2> QED
    BY <1>1, <2>1, DeviceAssumption, ScanAssumption
       DEF ScanInv, Scanner, NewScanner, AskedInOrder, ClockIsTrue
<1>5. CreditInv'
  <2>1. /\ UNCHANGED <<receivedMessages, receiveQueue, activeBits, answered,
                       punctual, arrived, credited>>
        /\ \A d \in Device : ~ Asking(d)
    BY DEF startScan, Asking
  <2>2. Statuses(receivedMessages) \cup Statuses(ToSet(receiveQueue)) \subseteq Incoming
    BY <1>1, QueueIsFinite DEF PlacesInv, Statuses
  <2>3. \A m \in Statuses(receivedMessages) \cup Statuses(ToSet(receiveQueue)) :
          m.sender \in Device
    BY <2>2 DEF Incoming
  <2>4. PendingFromAsked'
    BY <1>1, <2>1, <2>3 DEF CreditInv, PendingFromAsked
  <2> QED
    BY <1>1, <2>1, <2>4 DEF CreditInv, CreditedOnce, RightWhenPunctual
<1> QED
  BY <1>2, <1>3, <1>4, <1>5, InvByParts

LEMMA InvIdleAndFinish == Inv /\ (IdleTask \/ Finish) => Inv'
<1> SUFFICES ASSUME Inv, IdleTask \/ Finish PROVE Inv'
  OBVIOUS
<1>1. LinkInv /\ ScanInv /\ PlacesInv /\ CreditInv /\ CountInv
  BY InvByParts
<1>2. LinkInv' /\ CountInv'
  BY <1>1, Undisturbed DEF IdleTask, Finish
<1>3. ScanInv'
  BY <1>1 DEF IdleTask, Finish, ScanInv, AskedInOrder, NextIndex, ClockIsTrue
<1>4. PlacesInv' /\ CreditInv'
  <2>1. /\ receivedMessages' = receivedMessages \cup Kept /\ receiveQueue' = << >>
        /\ UNCHANGED <<underway, activeBits, answered, punctual, arrived, credited>>
        /\ \A d \in Device : ~ Asking(d)
    BY DEF IdleTask, Finish, Asking
  <2> QED
    BY <1>1, <2>1, CollectedUnasked
<1> QED
  BY <1>2, <1>3, <1>4, InvByParts

LEMMA InvSendStatusRequest == Inv /\ SendStatusRequest => Inv'
<1> SUFFICES ASSUME Inv, SendStatusRequest PROVE Inv'
  OBVIOUS
<1>1. LinkInv /\ ScanInv /\ PlacesInv /\ CreditInv /\ CountInv
  BY InvByParts
<1>2. CountInv'
  BY <1>1, Undisturbed DEF SendStatusRequest
<1>3. scanner.state = "SendStatusRequest" /\ scanner.currentIndex \in Device
      /\ MaxDeviceCount \in Nat
  BY <1>1, IndexIsDevice DEF SendStatusRequest
<1>4. LinkInv'
  <2>1. [type |-> "PROTO_MSG_READ_STATUS", address |-> scanner.currentIndex] \in Outgoing
    BY <1>3 DEF Outgoing
  <2> QED
    BY <1>1, <2>1, AcceptKeeps DEF SendStatusRequest
<1>5. ScanInv'
  <2>1. /\ state = "Scanning" /\ state' = "Scanning" /\ now' = now /\ waited' = 0
        /\ scanner \in Scanner /\ now \in 0 .. ClockModulus - 1
        /\ scanner' = [scanner EXCEPT !.state = "WaitStatusResponse", !.timer = now]
        /\ asked' = Append(asked, scanner.currentIndex)
    BY <1>1 DEF SendStatusRequest, ScanInv
  <2>2. /\ scanner' \in Scanner /\ scanner'.state = "WaitStatusResponse"
        /\ scanner'.currentIndex = scanner.currentIndex /\ scanner'.timer = now
    BY <2>1 DEF Scanner
  <2>3. asked' \in Seq(Device) /\ AskedInOrder'
    <3>1. /\ asked \in Seq(Device) /\ Len(asked) = scanner.currentIndex
          /\ \A i \in DOMAIN asked : asked[i] = i - 1
      BY <1>1, <1>3, <2>1 DEF ScanInv, AskedInOrder
    <3>2. /\ asked' \in Seq(Device) /\ Len(asked') = Len(asked) + 1
          /\ \A i \in DOMAIN asked' : i \in DOMAIN asked \/ i = Len(asked) + 1
          /\ \A i \in DOMAIN asked : asked'[i] = asked[i]
          /\ asked'[Len(asked) + 1] = scanner.currentIndex
          /\ Len(asked) \in Nat
      BY <1>3, <2>1, <3>1
    <3>3. \A i \in DOMAIN asked' : asked'[i] = i - 1
      BY <3>1, <3>2
    <3> QED
      BY <2>2, <3>1, <3>2, <3>3 DEF AskedInOrder, NextIndex
  <2>4. now = (now + 0) % ClockModulus
    <3>1. ClockModulus \in Nat
      BY ScanAssumption
    <3> QED
      BY <2>1, <3>1
  <2>5. scanner'.currentIndex # MaxDeviceCount
    BY <1>3, <2>2 DEF Device
  <2> QED
    BY <2>1, <2>2, <2>3, <2>4, <2>5, ScanAssumption DEF ScanInv, ClockIsTrue
<1>6. PlacesInv' /\ CreditInv'
  <2>1. /\ receivedMessages' = receivedMessages \cup Kept /\ receiveQueue' = << >>
        /\ UNCHANGED <<underway, activeBits, answered, punctual, arrived, credited>>
        /\ \A d \in Device : ~ Asking(d)
    BY DEF SendStatusRequest, Asking
  <2> QED
    BY <1>1, <2>1, CollectedUnasked
<1> QED
  BY <1>2, <1>4, <1>5, <1>6, InvByParts

\* The scanner that NextDevice makes.
LEMMA NextDeviceIs ==
  ASSUME ScanInv, scanner.state = "WaitStatusResponse"
  PROVE  /\ NextDevice \in Scanner
         /\ NextDevice.currentIndex = scanner.currentIndex + 1
         /\ NextDevice.state \in {"SendStatusRequest", "Finish"}
         /\ NextDevice.currentIndex = MaxDeviceCount <=> NextDevice.state = "Finish"
<1>1. scanner \in Scanner /\ scanner.currentIndex \in 0 .. MaxDeviceCount - 1
      /\ MaxDeviceCount \in Nat
  BY IndexIsDevice DEF ScanInv, Device
<1>2. scanner.currentIndex + 1 \in 0 .. MaxDeviceCount
  BY <1>1
<1> QED
  BY <1>1, <1>2 DEF NextDevice, NextIndex, Scanner

LEMMA InvWaitStatusResponse == Inv /\ WaitStatusResponse => Inv'
<1> SUFFICES ASSUME Inv, WaitStatusResponse PROVE Inv'
  OBVIOUS
<1>1. LinkInv /\ ScanInv /\ PlacesInv /\ CreditInv /\ CountInv
  BY InvByParts
<1>2. LinkInv' /\ CountInv'
  BY <1>1, Undisturbed DEF WaitStatusResponse
<1>3. /\ state = "Scanning" /\ scanner.state = "WaitStatusResponse"
      /\ UNCHANGED <<state, now, waited, asked, underway, answered, arrived, punctual>>
      /\ receivedMessages' = {} /\ receiveQueue' = << >>
  BY DEF WaitStatusResponse, Cleared
<1>4. \/ scanner' = NextDevice
      \/ scanner' = scanner /\ UNCHANGED <<activeBits, credited>>
  BY DEF WaitStatusResponse
<1>5. ScanInv'
  <2>1. CASE scanner' = NextDevice
    <3>1. AskedInOrder'
      BY <1>1, <1>3, <2>1, NextDeviceIs DEF ScanInv, AskedInOrder, NextIndex
    <3> QED
      BY <1>1, <1>3, <2>1, <3>1, NextDeviceIs DEF ScanInv, ClockIsTrue
  <2>2. CASE scanner' = scanner
    BY <1>1, <1>3, <2>2, Undisturbed
  <2> QED
    BY <1>4, <2>1, <2>2
<1>6. PlacesInv'
  BY <1>1, <1>3, NoStatuses, BoundsAssumption DEF PlacesInv
<1>7. /\ IsFiniteSet(receivedMessages) /\ IsFiniteSet(ToSet(receiveQueue))
      /\ Cardinality(Statuses(receivedMessages)) \in Nat
      /\ Cardinality(Statuses(ToSet(receiveQueue))) \in Nat
      /\ credited \in Nat /\ arrived \in Nat
  BY <1>1, QueueIsFinite, StatusesAreFinite DEF PlacesInv, CreditInv
<1>8. ASSUME responseFound
      PROVE  \E m \in Statuses(receivedMessages) \cup Statuses(ToSet(receiveQueue)) : TRUE
  BY <1>1, <1>8 DEF responseFound, Kept, isMessageValid, Statuses, PlacesInv
<1>9. /\ Cardinality(Statuses(receivedMessages')) = 0
      /\ Cardinality(Statuses(ToSet(receiveQueue'))) = 0
      /\ Statuses(receivedMessages') \cup Statuses(ToSet(receiveQueue')) = {}
  BY <1>3, NoStatuses
<1>10. PendingFromAsked'
  BY <1>9 DEF PendingFromAsked
<1>11. CASE responseFound /\ activeBits' = activeBits \cup {CreditedIndex}
            /\ credited' = credited + 1
  <2>1. PICK m \in Statuses(receivedMessages) \cup Statuses(ToSet(receiveQueue)) : TRUE
    BY <1>8, <1>11
  <2>2. Cardinality(Statuses(receivedMessages))
          + Cardinality(Statuses(ToSet(receiveQueue))) >= 1
    <3>1. CASE m \in Statuses(receivedMessages)
      BY <1>7, <3>1, StatusCounts
    <3>2. CASE m \in Statuses(ToSet(receiveQueue))
      BY <1>7, <3>2, StatusCounts
    <3> QED
      BY <2>1, <3>1, <3>2
  <2>3. CreditedOnce'
    BY <1>1, <1>3, <1>7, <1>9, <1>11, <2>2 DEF CreditInv, CreditedOnce
  <2>4. scanner.currentIndex \in Device
    BY <1>1, <1>3, IndexIsDevice
  <2>5. RightWhenPunctual'
    <3> SUFFICES ASSUME punctual PROVE activeBits' \subseteq answered
      BY <1>3 DEF RightWhenPunctual
    <3>1. Asking(m.sender) /\ m.sender \in answered
      BY <1>1, <2>1 DEF CreditInv, PendingFromAsked
    <3>2. CreditedIndex \in answered
      BY <3>1 DEF Asking, CreditedIndex
    <3> QED
      BY <1>1, <1>11, <3>2 DEF CreditInv, RightWhenPunctual
  <2> QED
    BY <1>1, <1>2, <1>3, <1>5, <1>6, <1>10, <1>11, <2>3, <2>4, <2>5, InvByParts
       DEF CreditInv, CreditedIndex
<1>12. CASE UNCHANGED <<activeBits, credited>>
  <2>1. CreditedOnce'
    BY <1>1, <1>3, <1>7, <1>9, <1>12 DEF CreditInv, CreditedOnce
  <2>2. RightWhenPunctual'
    BY <1>1, <1>3, <1>12 DEF CreditInv, RightWhenPunctual
  <2> QED
    BY <1>1, <1>2, <1>3, <1>5, <1>6, <1>10, <1>12, <2>1, <2>2, InvByParts
       DEF CreditInv
<1> QED
  BY <1>11, <1>12 DEF WaitStatusResponse
-----------------------------------------------------------------------------
(* The rest of the hub, the radio, the devices and time.                   *)

\* What has been made of the messages stays when nothing is made of them.
LEMMA CreditUndisturbed ==
  ASSUME CreditInv,
         UNCHANGED <<receivedMessages, receiveQueue, activeBits, answered, punctual,
                     arrived, credited, state>>,
         scanner' = scanner
  PROVE  CreditInv'
BY DEF CreditInv, CreditedOnce, RightWhenPunctual, PendingFromAsked, Asking

LEMMA InvRadio == Inv /\ ((\E d \in Device : OtherMessage(d)) \/ RadioTask) => Inv'
<1> SUFFICES ASSUME Inv, (\E d \in Device : OtherMessage(d)) \/ RadioTask PROVE Inv'
  OBVIOUS
<1>1. LinkInv /\ ScanInv /\ PlacesInv /\ CreditInv /\ CountInv
  BY InvByParts
<1>2. UNCHANGED <<hubVars, receiveQueue, now, waited, scanHistory, airHistory>>
  BY DEF OtherMessage, RadioTask
<1>3. ScanInv' /\ PlacesInv' /\ CreditInv'
  BY <1>1, <1>2, Undisturbed, CreditUndisturbed
<1>4. ASSUME NEW d \in Device, OtherMessage(d) PROVE LinkInv' /\ CountInv'
  <2>1. [type |-> "PROTO_MSG_COMMAND", address |-> d] \in Outgoing
    BY DEF Outgoing
  <2>2. LinkInv'
    BY <1>1, <1>4, <2>1, AcceptKeeps DEF OtherMessage
  <2> QED
    BY <1>1, <1>2, <1>4, <2>2, BoundsAssumption DEF OtherMessage, CountInv
<1>5. CASE RadioTask
  <2>1. CountInv'
    BY <1>1, <1>5, Undisturbed DEF RadioTask
  <2>2. CASE Link!Begin
    <3>1. transmitQueue # << >> /\ transmitQueue' = Tail(transmitQueue)
          /\ flight' = <<Head(transmitQueue)>>
      BY <2>2 DEF Link!Begin
    <3>2. /\ Head(transmitQueue) \in Outgoing
          /\ transmitQueue' \in Seq(Outgoing) /\ Len(transmitQueue') <= QueueSize
      BY <1>1, <3>1, HeadTailProperties, BoundsAssumption DEF LinkInv
    <3>3. LinkInv'
      BY <3>1, <3>2 DEF LinkInv
    <3> QED
      BY <1>3, <2>1, <3>3, InvByParts
  <2>3. CASE Link!GiveUp
    <3>1. flight' = << >> /\ transmitQueue' = transmitQueue
      BY <2>3 DEF Link!GiveUp
    <3>2. LinkInv'
      BY <1>1, <3>1 DEF LinkInv
    <3> QED
      BY <1>3, <2>1, <3>2, InvByParts
  <2> QED
    BY <1>5, <2>2, <2>3 DEF RadioTask
<1> QED
  BY <1>3, <1>4, <1>5, InvByParts

\* Messages on their way: sent, or lost.
LEMMA InvUnderway == Inv /\ (Answer \/ (\E m \in underway : Lose(m))) => Inv'
<1> SUFFICES ASSUME Inv, Answer \/ (\E m \in underway : Lose(m)) PROVE Inv'
  OBVIOUS
<1>1. LinkInv /\ ScanInv /\ PlacesInv /\ CreditInv /\ CountInv
  BY InvByParts
<1>2. UNCHANGED <<hubVars, radioVars, now, waited, scanHistory, answered, arrived,
                  punctual, commands>>
  BY DEF Answer, Lose
<1>3. LinkInv' /\ ScanInv' /\ CreditInv'
  BY <1>1, <1>2, Undisturbed, CreditUndisturbed
<1>4. CASE Answer
  <2>1. answers \in 0 .. MaxAnswers /\ answers < MaxAnswers /\ answers' = answers + 1
        /\ Head(flight).address \in Alive
    BY <1>1, <1>4 DEF Answer, CountInv
  <2>2. CountInv'
    BY <1>1, <1>2, <2>1, BoundsAssumption DEF CountInv
  <2>3. answers + 1 \in 1 .. MaxAnswers
    <3> DEFINE n == answers
    <3>1. n \in 0 .. MaxAnswers /\ n < MaxAnswers
      BY <2>1
    <3> HIDE DEF n
    <3>2. n + 1 \in 1 .. MaxAnswers
      BY <3>1, BoundsAssumption
    <3> QED
      BY <3>2 DEF n
  <2>4a. Head(flight).address \in Device
    BY <2>1, DeviceAssumption, Zenon DEF Device
  <2>4. AnswerType(Head(flight)) \in {"PROTO_MSG_READ_STATUS_RESULT", "PROTO_MSG_RESULT"}
    BY DEF AnswerType
  <2>5. ASSUME NEW valid \in BOOLEAN
        PROVE  [type |-> AnswerType(Head(flight)), valid |-> valid,
                sender |-> Head(flight).address, n |-> answers + 1] \in Incoming
    BY <2>3, <2>4, <2>4a DEF Incoming
  <2>6. underway' \subseteq Incoming
    BY <1>1, <1>4, <2>5 DEF Answer, PlacesInv
  <2> QED
    BY <1>1, <1>2, <1>3, <2>2, <2>6, InvByParts DEF PlacesInv
<1>5. ASSUME NEW m \in underway, Lose(m) PROVE Inv'
  <2>1. PlacesInv'
    BY <1>1, <1>2, <1>5 DEF Lose, PlacesInv
  <2>2. CountInv'
    BY <1>1, <1>5, Undisturbed DEF Lose
  <2> QED
    BY <1>3, <2>1, <2>2, InvByParts
<1> QED
  BY <1>4, <1>5

LEMMA InvArrive ==
  ASSUME Inv, NEW m \in underway, Arrive(m)
  PROVE  Inv'
<1>1. LinkInv /\ ScanInv /\ PlacesInv /\ CreditInv /\ CountInv
  BY InvByParts
<1>2. LinkInv' /\ ScanInv' /\ CountInv'
  BY <1>1, Undisturbed DEF Arrive
<1>3. /\ UNCHANGED <<receivedMessages, activeBits, credited, state, scanner>>
      /\ m \in Incoming /\ m.sender \in Device
      /\ receiveQueue \in Seq(Incoming) /\ Len(receiveQueue) \in Nat
  BY <1>1 DEF Arrive, PlacesInv, Incoming
<1>4. \/ receiveQueue' = receiveQueue
      \/ /\ receiveQueue' = Append(receiveQueue, m)
         /\ Len(receiveQueue) < QueueSize
  BY DEF Arrive
<1>5. PlacesInv'
  <2>1. receiveQueue' \in Seq(Incoming) /\ Len(receiveQueue') <= QueueSize
    BY <1>1, <1>3, <1>4, BoundsAssumption DEF PlacesInv
  <2> QED
    BY <1>1, <2>1 DEF PlacesInv, Arrive
<1> DEFINE Counts == IsStatus(m) /\ m.valid
<1>6. /\ Statuses(ToSet(receiveQueue'))
           \subseteq Statuses(ToSet(receiveQueue)) \cup (IF Counts THEN {m} ELSE {})
      /\ Cardinality(Statuses(ToSet(receiveQueue'))) \in Nat
      /\ Cardinality(Statuses(ToSet(receiveQueue)))  \in Nat
      /\ Cardinality(Statuses(ToSet(receiveQueue')))
           <= Cardinality(Statuses(ToSet(receiveQueue))) + (IF Counts THEN 1 ELSE 0)
  <2>1. Cardinality(Statuses(ToSet(receiveQueue))) \in Nat
    BY <1>3, QueueIsFinite, StatusesAreFinite
  <2>2. CASE receiveQueue' = receiveQueue
    BY <2>1, <2>2
  <2>3. CASE receiveQueue' = Append(receiveQueue, m)
    <3>1. Statuses(ToSet(receiveQueue) \cup {m})
            \subseteq Statuses(ToSet(receiveQueue)) \cup (IF Counts THEN {m} ELSE {})
      BY DEF Statuses
    <3> QED
      BY <1>3, <2>1, <2>3, <3>1, StatusArrives
  <2> QED
    BY <1>4, <2>2, <2>3
<1>7. /\ IsFiniteSet(receivedMessages) /\ credited \in Nat /\ arrived \in Nat
      /\ Cardinality(Statuses(receivedMessages)) \in Nat
      /\ credited + Cardinality(Statuses(receivedMessages))
           + Cardinality(Statuses(ToSet(receiveQueue))) <= arrived
  BY <1>1, StatusesAreFinite DEF PlacesInv, CreditInv, CreditedOnce
<1>8. CASE Counts
  <2>1. /\ answered' = answered \cup {m.sender} /\ arrived' = arrived + 1
        /\ punctual' = (punctual /\ Asking(m.sender))
    BY <1>8 DEF Arrive
  <2>2. CreditedOnce'
    BY <1>3, <1>6, <1>7, <1>8, <2>1 DEF CreditedOnce
  <2>3. punctual' \in BOOLEAN
    BY <2>1
  <2>4. RightWhenPunctual'
    BY <1>1, <1>3, <2>1 DEF CreditInv, RightWhenPunctual
  <2>5. PendingFromAsked'
    <3> SUFFICES ASSUME punctual /\ Asking(m.sender),
                        NEW x \in Statuses(receivedMessages)
                                  \cup Statuses(ToSet(receiveQueue'))
                 PROVE  Asking(x.sender) /\ x.sender \in answered'
      BY <1>3, <2>1 DEF PendingFromAsked, Asking
    <3>1. CASE x \in Statuses(receivedMessages) \cup Statuses(ToSet(receiveQueue))
      BY <1>1, <2>1, <3>1 DEF CreditInv, PendingFromAsked
    <3>2. CASE x = m
      BY <2>1, <3>2
    <3> QED
      BY <1>6, <3>1, <3>2
  <2> QED
    BY <1>1, <1>2, <1>3, <1>5, <1>7, <2>1, <2>2, <2>3, <2>4, <2>5, InvByParts
       DEF CreditInv
<1>9. CASE ~ Counts
  <2>1. UNCHANGED <<answered, arrived, punctual>>
    BY <1>9 DEF Arrive
  <2>2. Statuses(ToSet(receiveQueue')) \subseteq Statuses(ToSet(receiveQueue))
    BY <1>6, <1>9
  <2>3. CreditedOnce'
    BY <1>3, <1>6, <1>7, <1>9, <2>1 DEF CreditedOnce
  <2>4. RightWhenPunctual' /\ PendingFromAsked'
    BY <1>1, <1>3, <2>1, <2>2
       DEF CreditInv, RightWhenPunctual, PendingFromAsked, Asking
  <2> QED
    BY <1>1, <1>2, <1>3, <1>5, <2>1, <2>3, <2>4, InvByParts DEF CreditInv
<1> QED
  BY <1>8, <1>9

LEMMA InvTick == Inv /\ Tick => Inv'
<1> SUFFICES ASSUME Inv, Tick PROVE Inv'
  OBVIOUS
<1>1. LinkInv /\ ScanInv /\ PlacesInv /\ CreditInv /\ CountInv
  BY InvByParts
<1>2. LinkInv' /\ PlacesInv' /\ CreditInv' /\ CountInv'
  BY <1>1, Undisturbed, CreditUndisturbed DEF Tick
<1>3. /\ now' = (now + 1) % ClockModulus /\ UNCHANGED <<state, scanner, asked>>
      /\ waited' = IF waited < LongestWait THEN waited + 1 ELSE waited
      /\ now \in 0 .. ClockModulus - 1 /\ waited \in 0 .. LongestWait
  BY <1>1 DEF Tick, ScanInv
<1>4. now' \in 0 .. ClockModulus - 1 /\ waited' \in 0 .. LongestWait
  BY <1>3, ScanAssumption
<1>5. ClockIsTrue'
  <2> SUFFICES ASSUME scanner.state = "WaitStatusResponse"
               PROVE  state = "Scanning" /\ now' = (scanner.timer + waited') % ClockModulus
    BY <1>3 DEF ClockIsTrue
  <2>1. state = "Scanning" /\ now = (scanner.timer + waited) % ClockModulus
    BY <1>1 DEF ScanInv, ClockIsTrue
  <2>2. waited' = waited + 1 /\ waited < LongestWait
    BY <1>3, <2>1 DEF Tick
  <2>3. /\ scanner.timer \in 0 .. ClockModulus - 1
        /\ waited \in 0 .. ClockModulus - 1 /\ waited + 1 < ClockModulus
    BY <1>1, <1>3, <2>2, IndexIsDevice, ScanAssumption
  <2> QED
    BY <1>3, <2>1, <2>2, <2>3, NextReading, ScanAssumption
<1>6. ScanInv'
  BY <1>1, <1>3, <1>4, <1>5 DEF ScanInv, AskedInOrder, NextIndex
<1> QED
  BY <1>2, <1>6, InvByParts
-----------------------------------------------------------------------------
(* The theorems.                                                           *)

(***************************************************************************)
(* The inductive invariant: what the scan relies on about the index, the   *)
(* clock and the messages that have not been looked at.                    *)
(***************************************************************************)
THEOREM InvHolds == Spec => []Inv
<1>1. Init => Inv
  BY InvInit
<1>2. Inv /\ [Next]_vars => Inv'
  <2>1. ASSUME Inv, Next PROVE Inv'
    BY <2>1, InvStartScan, InvIdleAndFinish, InvSendStatusRequest,
       InvWaitStatusResponse, InvRadio, InvUnderway, InvArrive, InvTick
       DEF Next, task
  <2>2. ASSUME Inv, UNCHANGED vars PROVE Inv'
    BY <2>2, InvByParts, Undisturbed, CreditUndisturbed DEF vars
  <2> QED
    BY <2>1, <2>2
<1> QED
  BY <1>1, <1>2, PTL DEF Spec

\* No status is used as the answer of two devices, however late it comes.
THEOREM NeverCreditedTwice == Spec => []CreditedOnce
<1>1. Inv => CreditedOnce
  BY DEF Inv
<1> QED
  BY <1>1, InvHolds, PTL

(***************************************************************************)
(* The set of active devices is right as long as every status has come     *)
(* while its sender was being asked: what the protocol, which does not say *)
(* who has sent a message, makes the scan depend on.                       *)
(***************************************************************************)
THEOREM AlwaysRightWhenPunctual == Spec => []RightWhenPunctual
<1>1. Inv => RightWhenPunctual
  BY DEF Inv
<1> QED
  BY <1>1, InvHolds, PTL

\* A scan that ends has asked each device once, in the order of the indices.
THEOREM ScansAreComplete == Spec => ScanIsComplete
<1> DEFINE A == state = "Scanning" /\ state' = "Idle" =>
                  asked = [i \in 1 .. MaxDeviceCount |-> i - 1]
<1>1. Inv /\ [Next]_vars => [A]_vars
  <2> SUFFICES ASSUME Inv, Next, state = "Scanning", state' = "Idle"
               PROVE  asked = [i \in 1 .. MaxDeviceCount |-> i - 1]
    OBVIOUS
  <2>1. Finish
    BY DEF Next, startScan, task, IdleTask, SendStatusRequest, WaitStatusResponse,
       OtherMessage, RadioTask, Answer, Arrive, Lose, Tick
  <2>2. ScanInv
    BY InvByParts
  <2>3. /\ asked \in Seq(Device) /\ Len(asked) = MaxDeviceCount
        /\ \A i \in DOMAIN asked : asked[i] = i - 1
    BY <2>1, <2>2 DEF Finish, ScanInv, AskedInOrder
  <2> QED
    BY <2>3
<1> QED
  BY <1>1, InvHolds, PTL DEF Spec, ScanIsComplete

(***************************************************************************)
(* The scan leaves a device with an answer or after its full time, whatever*)
(* the clock reads when the request is queued.                             *)
(***************************************************************************)
THEOREM NeverCutShort == Spec => NoDeviceCutShort
<1> DEFINE A == scanner.state = "WaitStatusResponse" /\ scanner'.state # scanner.state =>
                  credited' > credited \/ waited >= ScanStatusRequestTimeoutMs
<1>1. Inv /\ [Next]_vars => [A]_vars
  <2> SUFFICES ASSUME Inv, Next, scanner.state = "WaitStatusResponse",
                      scanner'.state # scanner.state
               PROVE  credited' > credited \/ waited >= ScanStatusRequestTimeoutMs
    OBVIOUS
  <2>1. ScanInv /\ CreditInv
    BY InvByParts
  <2>2. state = "Scanning" /\ now = (scanner.timer + waited) % ClockModulus
    BY <2>1 DEF ScanInv, ClockIsTrue
  <2>3. WaitStatusResponse
    BY <2>2 DEF Next, startScan, task, IdleTask, SendStatusRequest, Finish,
       OtherMessage, RadioTask, Answer, Arrive, Lose, Tick
  <2>4. CASE credited' = credited + 1
    BY <2>1, <2>4 DEF CreditInv
  <2>5. CASE TimedOut
    <3>1. /\ scanner.timer \in 0 .. ClockModulus - 1
          /\ waited \in 0 .. ClockModulus - 1
      BY <2>1, IndexIsDevice, ScanAssumption DEF ScanInv
    <3>2. (now - scanner.timer) % ClockModulus = waited
      BY <2>2, <3>1, ElapsedTime, ScanAssumption
    <3> QED
      BY <2>5, <3>2 DEF TimedOut
  <2> QED
    BY <2>3, <2>4, <2>5 DEF WaitStatusResponse
<1> QED
  BY <1>1, InvHolds, PTL DEF Spec, NoDeviceCutShort
=============================================================================
