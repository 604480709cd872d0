------------------------- MODULE Nrf24RegistersProofs -------------------------
(***************************************************************************)
(* Proofs about Nrf24Registers, for every channel and every depth of the   *)
(* receive FIFO: whatever the chip does between two transactions, it ends  *)
(* up configured as intended, and no transmission begins with a flag set.  *)
(***************************************************************************)
EXTENDS Nrf24Registers, SequenceTheorems, TLAPS

-----------------------------------------------------------------------------
(* Transactions.                                                           *)

\* A register write reaches the register that is meant, and a read does, too.
LEMMA RegisterAccess ==
  ASSUME NEW r \in Register, NEW value
  PROVE  /\ Written(WriteCommand(r), value) =
              [reg EXCEPT ![r] = IF r = NRF24_REG_STATUS THEN @ \ (value \cap Flags)
                                 ELSE value]
         /\ AddressIn(ReadCommand(r)) = r
<1>1. r \in 0 .. 31
  BY DEF Register
<1>2. r % 32 = r /\ (32 + r) \div 32 = 1 /\ (32 + r) % 32 = r
  BY <1>1
<1>3. IsWrite(WriteCommand(r)) /\ AddressIn(WriteCommand(r)) = r
  BY <1>2 DEF IsWrite, WriteCommand, AddressIn
<1>4. AddressIn(ReadCommand(r)) = r
  BY <1>2 DEF AddressIn, ReadCommand
<1> QED
  BY <1>3, <1>4 DEF Written

\* The registers that are used are different ones.
LEMMA RegisterNumbers ==
  /\ NRF24_REG_CONFIG = 0 /\ NRF24_REG_SETUP_RETR = 4 /\ NRF24_REG_RF_CH = 5
  /\ NRF24_REG_RF_SETUP = 6 /\ NRF24_REG_STATUS = 7 /\ NRF24_REG_RX_PW_P0 = 17
  /\ {0, 4, 5, 6, 7, 17} \subseteq Register
BY DEF NRF24_REG_CONFIG, NRF24_REG_SETUP_RETR, NRF24_REG_RF_CH, NRF24_REG_RF_SETUP,
   NRF24_REG_STATUS, NRF24_REG_RX_PW_P0, Register

\* What is written has eight bits.
LEMMA Images ==
  /\ RfSetup \subseteq 0 .. 7 /\ SetupRetr \subseteq 0 .. 7 /\ PayloadLen \subseteq 0 .. 7
  /\ \A receiver : Config(receiver) \subseteq 0 .. 7 /\ Config(receiver) \cap Flags = {}
  /\ \A receiver \in BOOLEAN : PRIM_RX \in Config(receiver) <=> receiver
  /\ \A value \in RfChannelImages : value \subseteq 0 .. 7 /\ value \ {7} = Channel
  /\ Flags \subseteq 0 .. 7
<1>1. \A value \in RfChannelImages : value \subseteq 0 .. 7 /\ value \ {7} = Channel
  BY ChannelAssumption DEF RfChannelImages
<1>2. /\ \A receiver : Config(receiver) \subseteq 0 .. 7 /\ Config(receiver) \cap Flags = {}
      /\ \A receiver \in BOOLEAN : PRIM_RX \in Config(receiver) <=> receiver
  BY DEF Config, Flags, EN_CRC, PWR_UP, PRIM_RX, RX_DR, TX_DS, MAX_RT
<1> QED
  BY <1>1, <1>2 DEF RfSetup, SetupRetr, PayloadLen, Flags, RX_DR, TX_DS, MAX_RT

\* The steps are told apart by their names, and the writes by their registers.
LEMMA StepFields ==
  /\ \A level : Ce(level).step = "set_ce" /\ Ce(level).level = level
  /\ \A r, value : /\ WriteRegister(r, value).step = "write"
                   /\ WriteRegister(r, value).register = r
                   /\ WriteRegister(r, value).value = value
  /\ \A what : Do(what).step = what
BY DEF Ce, WriteRegister, Do

\* The step that a function begins with.
LEMMA FirstStep ==
  ASSUME NEW f \in Seq(Steps), f # << >>
  PROVE  Head(f) = f[1] /\ Head(f) \in Steps
OBVIOUS

\* The running function goes on to its next step.
LEMMA OneStepLess ==
  ASSUME script \in Seq(Steps), script # << >>, Proceed
  PROVE  /\ Head(script) \in Steps /\ Head(script) = script[1]
         /\ script' \in Seq(Steps) /\ Len(script') = Len(script) - 1
         /\ Len(script) \in Nat \ {0}
         /\ \A i \in 1 .. Len(script) - 1 : script'[i] = script[i + 1]
         /\ \A s : Ahead(s) => Head(script) = s \/ Ahead(s)'
         /\ \A s : Ahead(s)' => Ahead(s)
         /\ Ahead(Head(script))
<1>1. /\ script' = Tail(script) /\ Head(script) \in Steps /\ Head(script) = script[1]
      /\ script' \in Seq(Steps) /\ Len(script') = Len(script) - 1
      /\ Len(script) \in Nat \ {0} /\ Len(script') \in Nat
      /\ \A i \in 1 .. Len(script) - 1 : script'[i] = script[i + 1]
      /\ DOMAIN script = 1 .. Len(script) /\ DOMAIN script' = 1 .. Len(script) - 1
  BY HeadTailProperties, EmptySeq DEF Proceed
<1>2. ASSUME NEW s, Ahead(s) PROVE Head(script) = s \/ Ahead(s)'
  <2>1. PICK i \in 1 .. Len(script) : script[i] = s
    BY <1>1, <1>2 DEF Ahead
  <2>2. CASE i = 1
    BY <1>1, <2>1, <2>2
  <2>3. CASE i # 1
    <3>1. i - 1 \in 1 .. Len(script) - 1 /\ (i - 1) + 1 = i
      BY <1>1, <2>1, <2>3
    <3>2. script'[i - 1] = s
      BY <1>1, <2>1, <3>1
    <3> QED
      BY <1>1, <3>1, <3>2 DEF Ahead
  <2> QED
    BY <2>2, <2>3
<1>3. ASSUME NEW s, Ahead(s)' PROVE Ahead(s)
  <2>1. PICK i \in 1 .. Len(script) - 1 : script'[i] = s
    BY <1>1, <1>3 DEF Ahead
  <2>2. i + 1 \in 1 .. Len(script)
    BY <1>1, <2>1
  <2> QED
    BY <1>1, <2>1, <2>2 DEF Ahead
<1>4. Ahead(Head(script))
  <2>1. 1 \in 1 .. Len(script)
    BY <1>1
  <2> QED
    BY <1>1, <2>1 DEF Ahead
<1> QED
  BY <1>1, <1>2, <1>3, <1>4
-----------------------------------------------------------------------------
(* The functions.                                                          *)

\* A function takes a step.
Takes(f, step) == \E i \in DOMAIN f : f[i] = step

\* A function, or the first part of one, that lowers CE at once and leaves it low.
StaysLow(f) ==
  /\ f \in Seq(Steps) /\ f # << >> /\ f[1] = Ce(FALSE)
  /\ \A i \in DOMAIN f : f[i] = Ce(FALSE) => i = 1
  /\ ~ Takes(f, Ce(TRUE))

\* A function that lowers CE at once, and raises it at the end if at all.
LowersFirst(f) ==
  /\ f \in Seq(Steps) /\ f # << >> /\ f[1] = Ce(FALSE)
  /\ \A i \in DOMAIN f : f[i] = Ce(FALSE) => i = 1
  /\ \A i \in DOMAIN f : f[i] = Ce(TRUE) => i = Len(f)

\* One part of a function and the next, by position.
LEMMA Joined ==
  ASSUME NEW a \in Seq(Steps), NEW b \in Seq(Steps)
  PROVE  /\ a \o b \in Seq(Steps)
         /\ Len(a) \in Nat /\ Len(b) \in Nat /\ Len(a \o b) = Len(a) + Len(b)
         /\ DOMAIN a = 1 .. Len(a) /\ DOMAIN b = 1 .. Len(b)
         /\ DOMAIN (a \o b) = 1 .. Len(a) + Len(b)
         /\ \A i \in 1 .. Len(a) : (a \o b)[i] = a[i]
         /\ \A i \in 1 .. Len(b) : (a \o b)[Len(a) + i] = b[i]
         /\ \A i \in 1 .. Len(a) + Len(b) :
              \/ i \in 1 .. Len(a) /\ (a \o b)[i] = a[i]
              \/ \E j \in 1 .. Len(b) : i = Len(a) + j /\ (a \o b)[i] = b[j]
<1>1. /\ a \o b \in Seq(Steps) /\ Len(a \o b) = Len(a) + Len(b)
      /\ \A i \in 1 .. Len(a) + Len(b) :
           (a \o b)[i] = IF i <= Len(a) THEN a[i] ELSE b[i - Len(a)]
  BY ConcatProperties
<1>2. /\ Len(a) \in Nat /\ Len(b) \in Nat
      /\ DOMAIN a = 1 .. Len(a) /\ DOMAIN b = 1 .. Len(b)
      /\ DOMAIN (a \o b) = 1 .. Len(a \o b)
  BY <1>1
<1>3. ASSUME NEW i \in 1 .. Len(a) PROVE (a \o b)[i] = a[i]
  BY <1>1, <1>2
<1>4. ASSUME NEW i \in 1 .. Len(b) PROVE (a \o b)[Len(a) + i] = b[i]
  <2>1. Len(a) + i \in 1 .. Len(a) + Len(b) /\ ~ Len(a) + i <= Len(a) /\ (Len(a) + i) - Len(a) = i
    BY <1>2
  <2> QED
    BY <1>1, <2>1
<1>5. ASSUME NEW i \in 1 .. Len(a) + Len(b)
      PROVE  \/ i \in 1 .. Len(a) /\ (a \o b)[i] = a[i]
             \/ \E j \in 1 .. Len(b) : i = Len(a) + j /\ (a \o b)[i] = b[j]
  <2>1. CASE i \in 1 .. Len(a)
    BY <1>3, <2>1
  <2>2. CASE i \notin 1 .. Len(a)
    <3>1. i - Len(a) \in 1 .. Len(b) /\ i = Len(a) + (i - Len(a))
      BY <1>2, <2>2
    <3>2. (a \o b)[i] = b[i - Len(a)]
      BY <1>4, <3>1, Zenon
    <3> QED
      BY <3>1, <3>2, Zenon
  <2> QED
    BY <2>1, <2>2, Zenon
<1> QED
  BY <1>1, <1>2, <1>3, <1>4, <1>5

\* It takes the steps of both.
LEMMA JoinedTakes ==
  ASSUME NEW a \in Seq(Steps), NEW b \in Seq(Steps), NEW s
  PROVE  Takes(a \o b, s) <=> Takes(a, s) \/ Takes(b, s)
<1>1. ASSUME Takes(a, s) PROVE Takes(a \o b, s)
  <2>1. PICK i \in 1 .. Len(a) : a[i] = s
    BY <1>1, Joined DEF Takes
  <2>2. i \in DOMAIN (a \o b) /\ (a \o b)[i] = s
    BY <2>1, Joined
  <2> QED
    BY <2>2 DEF Takes
<1>2. ASSUME Takes(b, s) PROVE Takes(a \o b, s)
  <2>1. PICK i \in 1 .. Len(b) : b[i] = s
    BY <1>2, Joined DEF Takes
  <2>2. (a \o b)[Len(a) + i] = s
    BY <2>1, Joined, Zenon
  <2>3. Len(a) \in Nat /\ Len(b) \in Nat /\ DOMAIN (a \o b) = 1 .. Len(a) + Len(b)
    BY Joined, Zenon
  <2>4. Len(a) + i \in 1 .. Len(a) + Len(b)
    BY <2>1, <2>3
  <2> QED
    BY <2>2, <2>3, <2>4 DEF Takes
<1>3. ASSUME Takes(a \o b, s) PROVE Takes(a, s) \/ Takes(b, s)
  <2>1. PICK i \in 1 .. Len(a) + Len(b) : (a \o b)[i] = s
    BY <1>3, Joined DEF Takes
  <2>2. CASE i \in 1 .. Len(a) /\ (a \o b)[i] = a[i]
    BY <2>1, <2>2, Joined, Zenon DEF Takes
  <2>3. CASE \E j \in 1 .. Len(b) : i = Len(a) + j /\ (a \o b)[i] = b[j]
    BY <2>1, <2>3, Joined, Zenon DEF Takes
  <2>4. \/ i \in 1 .. Len(a) /\ (a \o b)[i] = a[i]
        \/ \E j \in 1 .. Len(b) : i = Len(a) + j /\ (a \o b)[i] = b[j]
    BY Joined, Zenon
  <2> QED
    BY <2>2, <2>3, <2>4, Zenon
<1> QED
  BY <1>1, <1>2, <1>3

\* A part that does not touch CE leaves it low.
LEMMA LowGoesOn ==
  ASSUME NEW a, StaysLow(a), NEW b \in Seq(Steps),
         ~ Takes(b, Ce(FALSE)), ~ Takes(b, Ce(TRUE))
  PROVE  StaysLow(a \o b)
<1>1. a \in Seq(Steps) /\ a # << >> /\ a[1] = Ce(FALSE) /\ ~ Takes(a, Ce(TRUE))
  BY DEF StaysLow
<1>2. Len(a) > 0
  BY <1>1, EmptySeq
<1>3. a \o b \in Seq(Steps) /\ ~ Takes(a \o b, Ce(TRUE))
  BY <1>1, Joined, JoinedTakes
<1>4. (a \o b)[1] = Ce(FALSE) /\ a \o b # << >>
  <2>1. 1 \in 1 .. Len(a) /\ Len(a) + Len(b) > 0
    BY <1>1, <1>2, Joined
  <2> QED
    <3>1. Len(a \o b) = Len(a) + Len(b) /\ (a \o b)[1] = a[1]
      BY <1>1, <2>1, Joined, Zenon
    <3>2. a \o b # << >>
      BY <2>1, <3>1, EmptySeq
    <3> QED
      BY <1>1, <3>1, <3>2, Zenon
<1>5. ASSUME NEW i \in DOMAIN (a \o b), (a \o b)[i] = Ce(FALSE) PROVE i = 1
  <2>1. CASE i \in 1 .. Len(a) /\ (a \o b)[i] = a[i]
    <3>1. i \in DOMAIN a /\ a[i] = Ce(FALSE)
      BY <1>1, <1>5, <2>1, Joined, Zenon
    <3> QED
      BY <3>1, Zenon DEF StaysLow
  <2>2. CASE \E j \in 1 .. Len(b) : i = Len(a) + j /\ (a \o b)[i] = b[j]
    <3>1. \E j \in DOMAIN b : b[j] = Ce(FALSE)
      BY <1>1, <1>5, <2>2, Joined, Zenon
    <3> QED
      BY <3>1, Zenon DEF Takes
  <2>3. i \in 1 .. Len(a) + Len(b)
    BY <1>1, Joined, Zenon
  <2>4. \/ i \in 1 .. Len(a) /\ (a \o b)[i] = a[i]
        \/ \E j \in 1 .. Len(b) : i = Len(a) + j /\ (a \o b)[i] = b[j]
    BY <1>1, <2>3, Joined, Zenon
  <2> QED
    BY <2>1, <2>2, <2>4, Zenon
<1> QED
  BY <1>3, <1>4, <1>5 DEF StaysLow

\* CE goes high at the end.
LEMMA HighAtTheEnd ==
  ASSUME NEW a, StaysLow(a)
  PROVE  LET f == a \o <<Ce(TRUE)>> IN LowersFirst(f) /\ f[Len(f)] = Ce(TRUE)
<1> DEFINE b == <<Ce(TRUE)>>
           f == a \o b
<1>1. a \in Seq(Steps) /\ a # << >> /\ a[1] = Ce(FALSE)
  BY DEF StaysLow
<1>2. b \in Seq(Steps) /\ Len(b) = 1 /\ b[1] = Ce(TRUE) /\ 1 \in 1 .. Len(b)
  BY DEF Steps
<1>3. Ce(FALSE) # Ce(TRUE)
  <2>1. ~ Ce(FALSE).level /\ Ce(TRUE).level
    BY StepFields
  <2> QED
    BY <2>1, Zenon
<1> HIDE DEF b
<1>0. /\ f \in Seq(Steps)
      /\ Len(a) \in Nat /\ Len(f) = Len(a) + Len(b)
      /\ DOMAIN a = 1 .. Len(a) /\ DOMAIN f = 1 .. Len(a) + Len(b)
      /\ \A i \in 1 .. Len(a) : f[i] = a[i]
      /\ \A i \in 1 .. Len(b) : f[Len(a) + i] = b[i]
      /\ \A i \in 1 .. Len(a) + Len(b) :
           \/ i \in 1 .. Len(a) /\ f[i] = a[i]
           \/ \E j \in 1 .. Len(b) : i = Len(a) + j /\ f[i] = b[j]
  BY <1>1, <1>2, Joined, Zenon
<1> HIDE DEF f
<1>4. f \in Seq(Steps) /\ f[Len(f)] = Ce(TRUE)
  BY <1>0, <1>2
<1>5. Len(a) > 0 /\ Len(f) = Len(a) + 1 /\ Len(a) \in Nat /\ DOMAIN f = 1 .. Len(a) + Len(b)
  <2>1. Len(a) # 0
    BY <1>1, EmptySeq
  <2> QED
    BY <1>0, <1>2, <2>1
<1>6. f # << >> /\ f[1] = Ce(FALSE)
  <2>1. 1 \in 1 .. Len(a) /\ Len(f) # 0
    BY <1>5
  <2>2. f[1] = a[1]
    BY <1>0, <2>1
  <2> QED
    BY <1>1, <1>4, <2>1, <2>2, EmptySeq
<1>7. ASSUME NEW i \in DOMAIN f
      PROVE  (f[i] = Ce(FALSE) => i = 1) /\ (f[i] = Ce(TRUE) => i = Len(f))
  <2>1. CASE i \in 1 .. Len(a) /\ f[i] = a[i]
    <3>1. i \in DOMAIN a
      BY <1>0, <2>1
    <3>2. a[i] # Ce(TRUE)
      BY <3>1, Zenon DEF StaysLow, Takes
    <3>3. a[i] = Ce(FALSE) => i = 1
      BY <3>1, Zenon DEF StaysLow
    <3> QED
      BY <2>1, <3>2, <3>3
  <2>2. CASE \E j \in 1 .. Len(b) : i = Len(a) + j /\ f[i] = b[j]
    <3>1. PICK j \in 1 .. Len(b) : i = Len(a) + j /\ f[i] = b[j]
      BY <2>2
    <3>2. j = 1
      BY <1>2, <3>1
    <3>3. i = Len(f)
      BY <1>5, <3>1, <3>2
    <3>4. f[i] = Ce(TRUE)
      BY <1>2, <3>1, <3>2
    <3> QED
      BY <1>3, <3>3, <3>4
  <2> QED
    BY <1>0, <1>7, <2>1, <2>2, Zenon
<1> QED
  BY <1>4, <1>6, <1>7 DEF LowersFirst, b, f

\* A function that does not raise CE at all.
LEMMA LowToTheEnd ==
  ASSUME NEW f, StaysLow(f)
  PROVE  LowersFirst(f)
BY DEF StaysLow, LowersFirst, Takes

\* The steps that are written down together.
LEMMA FourSteps ==
  ASSUME NEW s1, NEW s2, NEW s3, NEW s4, NEW s
  PROVE  Takes(<<s1, s2, s3, s4>>, s) <=> s \in {s1, s2, s3, s4}
<1> DEFINE f == <<s1, s2, s3, s4>>
<1>1. DOMAIN f = {1, 2, 3, 4} /\ f[1] = s1 /\ f[2] = s2 /\ f[3] = s3 /\ f[4] = s4
  OBVIOUS
<1> HIDE DEF f
<1>2. Takes(f, s) <=> s \in {s1, s2, s3, s4}
  BY <1>1 DEF Takes
<1> QED
  BY <1>2 DEF f

\* Likewise for one step and for two.
LEMMA FewSteps ==
  ASSUME NEW s1, NEW s2, NEW s
  PROVE  /\ Takes(<<s1>>, s) <=> s = s1
         /\ Takes(<<s1, s2>>, s) <=> s \in {s1, s2}
<1>1. Takes(<<s1>>, s) <=> s = s1
  <2>1. DOMAIN <<s1>> = {1} /\ <<s1>>[1] = s1
    OBVIOUS
  <2> QED
    BY <2>1 DEF Takes
<1>2. Takes(<<s1, s2>>, s) <=> s \in {s1, s2}
  <2>1. DOMAIN <<s1, s2>> = {1, 2} /\ <<s1, s2>>[1] = s1 /\ <<s1, s2>>[2] = s2
    OBVIOUS
  <2> QED
    BY <2>1 DEF Takes
<1> QED
  BY <1>1, <1>2

\* No two steps are the same.
LEMMA DifferentSteps ==
  /\ Ce(FALSE) # Ce(TRUE)
  /\ \A level, r, value : WriteRegister(r, value) # Ce(level)
  /\ \A what : what # "set_ce" => \A level : Do(what) # Ce(level)
  /\ \A what : what # "write" => \A r, value : Do(what) # WriteRegister(r, value)
  /\ \A r, value, q, other : r # q => WriteRegister(r, value) # WriteRegister(q, other)
  /\ WriteRegister(NRF24_REG_CONFIG, Config(TRUE)) # WriteRegister(NRF24_REG_CONFIG, Config(FALSE))
<1>1. Ce(FALSE) # Ce(TRUE)
  <2>1. ~ Ce(FALSE).level /\ Ce(TRUE).level
    BY StepFields
  <2> QED
    BY <2>1, Zenon
<1>2. "write" # "set_ce"
  OBVIOUS
<1>3. WriteRegister(NRF24_REG_CONFIG, Config(TRUE)) # WriteRegister(NRF24_REG_CONFIG, Config(FALSE))
  <2>1. Config(TRUE) # Config(FALSE)
    BY Images
  <2> QED
    BY <2>1 DEF WriteRegister
<1>4. \A level, r, value : WriteRegister(r, value) # Ce(level)
  BY DEF WriteRegister, Ce
<1>5. \A what : what # "set_ce" => \A level : Do(what) # Ce(level)
  BY StepFields, Zenon
<1>6. \A what : what # "write" => \A r, value : Do(what) # WriteRegister(r, value)
  BY DEF WriteRegister, Do
<1>7. \A r, value, q, other : r # q => WriteRegister(r, value) # WriteRegister(q, other)
  BY DEF WriteRegister
<1> QED
  BY <1>1, <1>3, <1>4, <1>5, <1>6, <1>7

\* A register write is none of the steps that have a name of their own.
LEMMA NotNamed ==
  ASSUME NEW r, NEW value
  PROVE  /\ WriteRegister(r, value) # Do("get_status") /\ WriteRegister(r, value) # Do("set_status")
         /\ WriteRegister(r, value) # Do("set_rf_channel")
         /\ WriteRegister(r, value) # Do("flush_rx") /\ WriteRegister(r, value) # Do("flush_tx")
         /\ WriteRegister(r, value) # Do("write_tx_payload")
         /\ WriteRegister(r, value) # Do("get_fifo_status")
BY DEF WriteRegister, Do

\* The pieces that the functions share.
LEMMA Pieces ==
  /\ StaysLow(nrf24_power_down)
  /\ nrf24_power_up = <<Ce(TRUE)>>
  /\ nrf24_clear_interrupts \in Seq(Steps)
  /\ \A s : Takes(nrf24_power_down, s) <=> s = Ce(FALSE)
  /\ \A s : Takes(nrf24_clear_interrupts, s) <=> s \in {Do("get_status"), Do("set_status")}
<1>1. \A s : Takes(nrf24_power_down, s) <=> s = Ce(FALSE)
  BY FewSteps DEF nrf24_power_down
<1>2. \A s : Takes(nrf24_clear_interrupts, s) <=> s \in {Do("get_status"), Do("set_status")}
  BY FewSteps DEF nrf24_clear_interrupts
<1>3. nrf24_clear_interrupts \in Seq(Steps)
  BY DEF nrf24_clear_interrupts, Steps
<1>4. /\ nrf24_power_down \in Seq(Steps) /\ nrf24_power_down # << >>
      /\ nrf24_power_down[1] = Ce(FALSE) /\ DOMAIN nrf24_power_down = {1}
  BY DEF nrf24_power_down, Steps
<1> QED
  BY <1>1, <1>2, <1>3, <1>4, DifferentSteps DEF StaysLow, nrf24_power_up

\* initTransceiver() leaves CE low and writes the registers that stay as they are.
LEMMA InitScript ==
  /\ StaysLow(initTransceiver)
  /\ Takes(initTransceiver, WriteRegister(NRF24_REG_RF_SETUP, RfSetup))
  /\ Takes(initTransceiver, WriteRegister(NRF24_REG_SETUP_RETR, SetupRetr))
  /\ Takes(initTransceiver, WriteRegister(NRF24_REG_RX_PW_P0, PayloadLen))
  /\ Takes(initTransceiver, Do("set_rf_channel"))
  /\ \A receiver : ~ Takes(initTransceiver, WriteRegister(NRF24_REG_CONFIG, Config(receiver)))
<1> DEFINE s1 == WriteRegister(NRF24_REG_RF_SETUP, RfSetup)
           s2 == Do("set_rf_channel")
           s3 == WriteRegister(NRF24_REG_SETUP_RETR, SetupRetr)
           s4 == WriteRegister(NRF24_REG_RX_PW_P0, PayloadLen)
           S == {s1, s2, s3, s4}
           a == nrf24_power_down
           b == <<s1, s2, s3, s4>>
           c == nrf24_clear_interrupts
<1>1. initTransceiver = a \o b \o c
  BY DEF initTransceiver
<1>3. b \in Seq(Steps)
  BY DEF Steps
<1>2. ASSUME NEW s PROVE Takes(b, s) <=> s \in S
  <2> HIDE DEF s1, s2, s3, s4
  <2> QED
    BY FourSteps, Zenon
<1> HIDE DEF b
<1>4. ASSUME NEW level
      PROVE  Ce(level) \notin S /\ Ce(level) \notin {Do("get_status"), Do("set_status")}
  BY DifferentSteps
<1>5. StaysLow(a \o b)
  BY <1>2, <1>3, <1>4, Pieces, LowGoesOn, Zenon
<1>6. a \o b \in Seq(Steps)
  BY <1>5 DEF StaysLow
<1>7. StaysLow(a \o b \o c)
  BY <1>4, <1>5, Pieces, LowGoesOn, Zenon
<1>8. ASSUME NEW s
      PROVE  Takes(a \o b \o c, s) <=>
               \/ s = Ce(FALSE) \/ s \in S \/ s \in {Do("get_status"), Do("set_status")}
  <2>1. Takes(a \o b, s) <=> s = Ce(FALSE) \/ s \in S
    BY <1>2, <1>3, Pieces, JoinedTakes DEF StaysLow
  <2> QED
    BY <1>6, <2>1, Pieces, JoinedTakes
<1>9. ASSUME NEW receiver
      PROVE  ~ Takes(a \o b \o c, WriteRegister(NRF24_REG_CONFIG, Config(receiver)))
  <2>1. /\ NRF24_REG_CONFIG # NRF24_REG_RF_SETUP /\ NRF24_REG_CONFIG # NRF24_REG_SETUP_RETR
        /\ NRF24_REG_CONFIG # NRF24_REG_RX_PW_P0
    BY RegisterNumbers
  <2> QED
    <3> DEFINE w == WriteRegister(NRF24_REG_CONFIG, Config(receiver))
    <3>1. w \notin S
      BY <2>1, DifferentSteps, NotNamed
    <3>2. w # Ce(FALSE) /\ w # Do("get_status") /\ w # Do("set_status")
      BY DifferentSteps, NotNamed
    <3> HIDE DEF w, S
    <3>3. ~ Takes(a \o b \o c, w)
      BY <1>8, <3>1, <3>2
    <3> QED
      BY <3>3 DEF w
<1> QED
  BY <1>1, <1>7, <1>8, <1>9

\* setTransceiverMode() clears the flags and writes CONFIG for its role only.
LEMMA ModeScript ==
  ASSUME NEW receiver \in BOOLEAN
  PROVE  /\ StaysLow(setTransceiverMode(receiver))
         /\ Takes(setTransceiverMode(receiver), Do("set_status"))
         /\ \A other \in BOOLEAN :
              Takes(setTransceiverMode(receiver), WriteRegister(NRF24_REG_CONFIG, Config(other)))
                <=> other = receiver
<1> DEFINE s1 == Do("set_rf_channel")
           s2 == Do("flush_rx")
           s3 == Do("flush_tx")
           s4 == WriteRegister(NRF24_REG_CONFIG, Config(receiver))
           S == {s1, s2, s3, s4}
           a == nrf24_power_down
           b == nrf24_clear_interrupts
           c == <<s1, s2, s3, s4>>
<1>1. setTransceiverMode(receiver) = a \o b \o c
  BY DEF setTransceiverMode
<1>3. c \in Seq(Steps)
  <2>1. s4 \in Steps
    <3>1. CASE receiver = TRUE
      BY <3>1 DEF Steps
    <3>2. CASE receiver = FALSE
      BY <3>2 DEF Steps
    <3> QED
      BY <3>1, <3>2
  <2>2. s1 \in Steps /\ s2 \in Steps /\ s3 \in Steps
    BY DEF Steps
  <2> HIDE DEF s1, s2, s3, s4
  <2> QED
    BY <2>1, <2>2
<1>2. ASSUME NEW s PROVE Takes(c, s) <=> s \in S
  <2> HIDE DEF s1, s2, s3, s4
  <2> QED
    BY FourSteps, Zenon
<1> HIDE DEF c
<1>4. ASSUME NEW level
      PROVE  Ce(level) \notin S /\ Ce(level) \notin {Do("get_status"), Do("set_status")}
  BY DifferentSteps
<1>5. StaysLow(a \o b)
  BY <1>4, Pieces, LowGoesOn, Zenon
<1>6. a \o b \in Seq(Steps)
  BY <1>5 DEF StaysLow
<1>7. StaysLow(a \o b \o c)
  BY <1>2, <1>3, <1>4, <1>5, LowGoesOn, Zenon
<1>8. ASSUME NEW s
      PROVE  Takes(a \o b \o c, s) <=>
               \/ s = Ce(FALSE) \/ s \in {Do("get_status"), Do("set_status")} \/ s \in S
  <2>1. Takes(a \o b, s) <=> s = Ce(FALSE) \/ s \in {Do("get_status"), Do("set_status")}
    BY Pieces, JoinedTakes DEF StaysLow
  <2> QED
    BY <1>2, <1>3, <1>6, <2>1, JoinedTakes
<1>9. ASSUME NEW other \in BOOLEAN
      PROVE  Takes(a \o b \o c, WriteRegister(NRF24_REG_CONFIG, Config(other)))
               <=> other = receiver
  <2>1. Takes(a \o b \o c, WriteRegister(NRF24_REG_CONFIG, Config(other))) <=>
          WriteRegister(NRF24_REG_CONFIG, Config(other)) =
            WriteRegister(NRF24_REG_CONFIG, Config(receiver))
    <3> DEFINE w == WriteRegister(NRF24_REG_CONFIG, Config(other))
    <3>1. w # s1 /\ w # s2 /\ w # s3
      BY NotNamed
    <3>2. w # Ce(FALSE) /\ w # Do("get_status") /\ w # Do("set_status")
      BY DifferentSteps, NotNamed
    <3> HIDE DEF w, s1, s2, s3, s4
    <3>3. Takes(a \o b \o c, w) <=> w = s4
      BY <1>8, <3>1, <3>2
    <3> QED
      BY <3>3 DEF w, s4
  <2> QED
    BY <2>1, DifferentSteps
<1> QED
  BY <1>1, <1>7, <1>8, <1>9

(***************************************************************************)
(* A function that leaves CE high, clears the flags and writes CONFIG for  *)
(* no role, or for that of a transmitter, or for that of a receiver.       *)
(***************************************************************************)
LeavesHigh(f, roles) ==
  /\ LowersFirst(f) /\ f[Len(f)] = Ce(TRUE)
  /\ Takes(f, Do("set_status"))
  /\ \A receiver \in BOOLEAN :
       Takes(f, WriteRegister(NRF24_REG_CONFIG, Config(receiver))) <=> receiver \in roles

\* The functions that the machine calls once it runs.
LEMMA RunningScripts ==
  /\ LeavesHigh(transmit, {FALSE})
  /\ LeavesHigh(listen, {TRUE})
  /\ LeavesHigh(readMessages, {})
<1> DEFINE p == <<Do("write_tx_payload")>>
           q == <<Do("get_fifo_status")>>
<1>1. /\ p \in Seq(Steps) /\ q \in Seq(Steps)
  BY DEF Steps
<1>2. \A s : (Takes(p, s) <=> s = Do("write_tx_payload")) /\ (Takes(q, s) <=> s = Do("get_fifo_status"))
  BY FewSteps
<1> HIDE DEF p, q
<1>3. \A level : ~ Takes(p, Ce(level)) /\ ~ Takes(q, Ce(level))
  BY <1>2, DifferentSteps
<1>4. ASSUME NEW r, NEW value
      PROVE  /\ ~ Takes(p, WriteRegister(r, value))
             /\ ~ Takes(q, WriteRegister(r, value))
             /\ ~ Takes(<<Ce(TRUE)>>, WriteRegister(r, value))
  <2>1. \A s : Takes(<<Ce(TRUE)>>, s) <=> s = Ce(TRUE)
    BY FewSteps
  <2>2. /\ WriteRegister(r, value) # Ce(TRUE)
        /\ WriteRegister(r, value) # Do("write_tx_payload")
        /\ WriteRegister(r, value) # Do("get_fifo_status")
    BY DifferentSteps, NotNamed
  <2> QED
    BY <1>2, <2>1, <2>2
<1>5. <<Ce(TRUE)>> \in Seq(Steps)
  BY DEF Steps
<1>6. LeavesHigh(transmit, {FALSE})
  <2> DEFINE m == setTransceiverMode(FALSE)
  <2>1. /\ StaysLow(m) /\ m \in Seq(Steps) /\ Takes(m, Do("set_status"))
        /\ \A other \in BOOLEAN :
             Takes(m, WriteRegister(NRF24_REG_CONFIG, Config(other))) <=> other = FALSE
    BY ModeScript DEF StaysLow
  <2> HIDE DEF m
  <2>2. StaysLow(m \o p) /\ m \o p \in Seq(Steps)
    BY <1>1, <1>3, <2>1, LowGoesOn DEF StaysLow
  <2>3. transmit = m \o p \o <<Ce(TRUE)>>
    BY Pieces DEF transmit, p, m
  <2>4. \A s : Takes(transmit, s) <=> Takes(m, s) \/ Takes(p, s) \/ Takes(<<Ce(TRUE)>>, s)
    BY <1>1, <1>5, <2>1, <2>2, <2>3, JoinedTakes
  <2> QED
    BY <1>4, <2>1, <2>2, <2>3, <2>4, HighAtTheEnd DEF LeavesHigh
<1>7. LeavesHigh(listen, {TRUE})
  <2> DEFINE m == setTransceiverMode(TRUE)
  <2>1. /\ StaysLow(m) /\ m \in Seq(Steps) /\ Takes(m, Do("set_status"))
        /\ \A other \in BOOLEAN :
             Takes(m, WriteRegister(NRF24_REG_CONFIG, Config(other))) <=> other = TRUE
    BY ModeScript DEF StaysLow
  <2> HIDE DEF m
  <2>2. listen = m \o <<Ce(TRUE)>>
    BY Pieces DEF listen, m
  <2>3. \A s : Takes(listen, s) <=> Takes(m, s) \/ Takes(<<Ce(TRUE)>>, s)
    BY <1>5, <2>1, <2>2, JoinedTakes
  <2> QED
    BY <1>4, <2>1, <2>2, <2>3, HighAtTheEnd DEF LeavesHigh
<1>8. LeavesHigh(readMessages, {})
  <2> DEFINE m == nrf24_power_down \o nrf24_clear_interrupts
  <2>1. StaysLow(m) /\ m \in Seq(Steps)
    BY Pieces, DifferentSteps, LowGoesOn DEF StaysLow
  <2>2. \A s : Takes(m, s) <=> s = Ce(FALSE) \/ s \in {Do("get_status"), Do("set_status")}
    BY Pieces, JoinedTakes DEF StaysLow
  <2>3. readMessages = m \o q \o <<Ce(TRUE)>>
    BY Pieces DEF readMessages, q
  <2> HIDE DEF m
  <2>4. StaysLow(m \o q) /\ m \o q \in Seq(Steps)
    BY <1>1, <1>3, <2>1, LowGoesOn DEF StaysLow
  <2>5. \A s : Takes(readMessages, s) <=> Takes(m, s) \/ Takes(q, s) \/ Takes(<<Ce(TRUE)>>, s)
    BY <1>1, <1>5, <2>1, <2>4, <2>3, JoinedTakes
  <2>6. ASSUME NEW r, NEW value PROVE ~ Takes(readMessages, WriteRegister(r, value))
    <3>1. /\ WriteRegister(r, value) # Ce(FALSE)
          /\ WriteRegister(r, value) # Do("get_status")
          /\ WriteRegister(r, value) # Do("set_status")
      BY DifferentSteps, NotNamed
    <3>2. ~ Takes(m, WriteRegister(r, value))
      BY <2>2, <3>1
    <3> QED
      BY <1>4, <2>5, <3>2
  <2> QED
    BY <2>2, <2>3, <2>4, <2>5, <2>6, HighAtTheEnd DEF LeavesHigh
<1> QED
  BY <1>6, <1>7, <1>8
-----------------------------------------------------------------------------
(* What holds whenever no function runs, and what a call starts from.      *)

\* When no function runs, nothing is ahead and the chip is set up.
LEMMA Returned ==
  ASSUME Inv, script = << >>
  PROVE  /\ \A s : ~ Ahead(s)
         /\ role # "off" =>
              /\ reg[NRF24_REG_RF_SETUP] = RfSetup /\ reg[NRF24_REG_SETUP_RETR] = SetupRetr
              /\ reg[NRF24_REG_RX_PW_P0] = PayloadLen
              /\ reg[NRF24_REG_RF_CH] \ {7} = Channel
         /\ role = "silent" => ~ ce
         /\ role \in {"transmitter", "receiver"} => ce
         /\ role = "transmitter" => reg[NRF24_REG_CONFIG] = Config(FALSE)
         /\ role = "receiver" => reg[NRF24_REG_CONFIG] = Config(TRUE)
<1>1. \A s : ~ Ahead(s)
  BY DEF Ahead
<1>2. /\ role = "silent" => ~ ce
      /\ role \in {"transmitter", "receiver"} => ce
  BY <1>1 DEF Inv, OffWhileConfigured
<1>3. /\ role # "off" =>
           /\ reg[NRF24_REG_RF_SETUP] = RfSetup /\ reg[NRF24_REG_SETUP_RETR] = SetupRetr
           /\ reg[NRF24_REG_RX_PW_P0] = PayloadLen
           /\ reg[NRF24_REG_RF_CH] \ {7} = Channel
      /\ \A receiver \in BOOLEAN :
           role = (IF receiver THEN "receiver" ELSE "transmitter") =>
             reg[NRF24_REG_CONFIG] = Config(receiver)
  BY <1>1 DEF Inv, WrittenOrAhead
<1>4. /\ role = "transmitter" => reg[NRF24_REG_CONFIG] = Config(FALSE)
      /\ role = "receiver" => reg[NRF24_REG_CONFIG] = Config(TRUE)
  BY <1>3
<1> QED
  BY <1>1, <1>2, <1>3, <1>4

\* A call that leaves CE low, or high at its end as the new role wants it.
LEMMA Called ==
  ASSUME Inv, NEW newRole \in {"silent", "transmitter", "receiver"}, NEW f,
         Call(newRole, f), LowersFirst(f),
         newRole = "silent" => ~ Takes(f, Ce(TRUE)),
         newRole # "silent" => f[Len(f)] = Ce(TRUE),
         \A receiver \in BOOLEAN :
           Takes(f, WriteRegister(NRF24_REG_CONFIG, Config(receiver))) =>
             newRole = IF receiver THEN "receiver" ELSE "transmitter"
  PROVE  /\ TypeOK' /\ OffWhileConfigured'
         /\ \A s : Ahead(s)' <=> Takes(f, s)
         /\ Head(script') = Ce(FALSE) /\ script' # << >>
<1>1. script' = f /\ role' = newRole /\ late' = busy /\ UNCHANGED <<image, chipVars>>
  BY DEF Call
<1>2. /\ f \in Seq(Steps) /\ f # << >> /\ f[1] = Ce(FALSE) /\ Head(f) = f[1]
  BY FirstStep DEF LowersFirst
<1>3. TypeOK'
  BY <1>1, <1>2 DEF Inv, TypeOK, chipVars
<1>4. \A s : Ahead(s)' <=> Takes(f, s)
  BY <1>1 DEF Ahead, Takes
<1>5. OffWhileConfigured'
  <2>1. /\ \A i \in DOMAIN script' : script'[i] = Ce(FALSE) => i = 1
        /\ \A i \in DOMAIN script' : script'[i] = Ce(TRUE) => i = Len(script')
    BY <1>1 DEF LowersFirst
  <2>2. Takes(f, Ce(FALSE))
    <3>1. 1 \in DOMAIN f
      BY <1>2, EmptySeq
    <3> QED
      BY <1>2, <3>1 DEF Takes
  <2>3. role' = "silent" => ~ Ahead(Ce(TRUE))' /\ (~ ce' \/ Ahead(Ce(FALSE))')
    BY <1>1, <1>4, <2>2
  <2>4. role' \in {"transmitter", "receiver"} => script' # << >> /\ script'[Len(script')] = Ce(TRUE)
    BY <1>1, <1>2
  <2>5. \A receiver \in BOOLEAN :
          Ahead(WriteRegister(NRF24_REG_CONFIG, Config(receiver)))' =>
            role' = IF receiver THEN "receiver" ELSE "transmitter"
    BY <1>1, <1>4
  <2>6. role' # "off"
    BY <1>1
  <2> QED
    BY <2>1, <2>3, <2>4, <2>5, <2>6 DEF OffWhileConfigured
<1> QED
  BY <1>1, <1>2, <1>3, <1>4, <1>5

\* The first function leaves a chip that has been set up and is off.
LEMMA BootKeepsInv ==
  ASSUME Inv, Boot
  PROVE  Inv'
<1>1. Call("silent", initTransceiver) /\ role' = "silent"
  BY DEF Boot, Call
<1>2. LowersFirst(initTransceiver) /\ ~ Takes(initTransceiver, Ce(TRUE))
  BY InitScript, LowToTheEnd DEF StaysLow
<1>3. TypeOK' /\ OffWhileConfigured' /\ \A s : Ahead(s)' <=> Takes(initTransceiver, s)
  BY <1>1, <1>2, InitScript, Called
<1>4. WrittenOrAhead'
  BY <1>1, <1>3, InitScript DEF WrittenOrAhead
<1>5. IdleWhilePrepared'
  BY <1>1 DEF IdleWhilePrepared
<1> QED
  BY <1>3, <1>4, <1>5 DEF Inv

\* The other functions start from a chip that is set up.
LEMMA CallsKeepInv ==
  ASSUME Inv, Transmit \/ Listen \/ ReadMessages
  PROVE  Inv'
<1>0. script = << >> /\ role # "off" /\ late' = busy /\ UNCHANGED <<image, chipVars>>
  BY DEF Transmit, Listen, ReadMessages, Call
<1>r. /\ reg' = reg /\ ce' = ce /\ busy' = busy
  BY <1>0 DEF chipVars
<1>1. CASE Transmit
  <2>1. Call("transmitter", transmit) /\ role' = "transmitter" /\ role \in {"silent", "receiver"}
    BY <1>1 DEF Transmit, Call
  <2>2. /\ TypeOK' /\ OffWhileConfigured' /\ (\A s : Ahead(s)' <=> Takes(transmit, s))
        /\ Head(script') = Ce(FALSE) /\ script' # << >>
    BY <2>1, RunningScripts, Called DEF LeavesHigh
  <2>3. Takes(transmit, WriteRegister(NRF24_REG_CONFIG, Config(FALSE)))
    BY RunningScripts DEF LeavesHigh
  <2>4. WrittenOrAhead'
    BY <1>0, <1>r, <2>1, <2>2, <2>3, Returned DEF WrittenOrAhead
  <2>5. IdleWhilePrepared'
    <3>1. Ahead(Do("set_status"))'
      BY <2>2, RunningScripts DEF LeavesHigh
    <3>2. ce => PRIM_RX \in reg[NRF24_REG_CONFIG]
      BY <1>0, <2>1, Returned, Images
    <3> QED
      BY <1>0, <1>r, <2>2, <3>1, <3>2 DEF IdleWhilePrepared
  <2> QED
    BY <2>2, <2>4, <2>5 DEF Inv
<1>2. CASE Listen
  <2>1. Call("receiver", listen) /\ role' = "receiver"
    BY <1>2 DEF Listen, Call
  <2>2. /\ TypeOK' /\ OffWhileConfigured' /\ (\A s : Ahead(s)' <=> Takes(listen, s))
    BY <2>1, RunningScripts, Called DEF LeavesHigh
  <2>3. Takes(listen, WriteRegister(NRF24_REG_CONFIG, Config(TRUE)))
    BY RunningScripts DEF LeavesHigh
  <2>4. WrittenOrAhead'
    BY <1>0, <1>r, <2>1, <2>2, <2>3, Returned DEF WrittenOrAhead
  <2>5. IdleWhilePrepared'
    BY <2>1 DEF IdleWhilePrepared
  <2> QED
    BY <2>2, <2>4, <2>5 DEF Inv
<1>3. CASE ReadMessages
  <2>1. Call("receiver", readMessages) /\ role' = "receiver" /\ role = "receiver"
    BY <1>3 DEF ReadMessages, Call
  <2>2. /\ TypeOK' /\ OffWhileConfigured'
    BY <2>1, RunningScripts, Called DEF LeavesHigh
  <2>4. WrittenOrAhead'
    BY <1>0, <1>r, <2>1, Returned DEF WrittenOrAhead
  <2>5. IdleWhilePrepared'
    BY <2>1 DEF IdleWhilePrepared
  <2> QED
    BY <2>2, <2>4, <2>5 DEF Inv
<1> QED
  BY <1>1, <1>2, <1>3
-----------------------------------------------------------------------------
(* The steps of a function.                                                *)

\* CE does not go low later in a function, and goes high in its last step.
LEMMA PlaceOfCe ==
  ASSUME Inv, script # << >>, Proceed
  PROVE  /\ Head(script) = Ce(TRUE) => script' = << >>
         /\ \A i \in DOMAIN script' : script'[i] = Ce(FALSE) => i = 1
         /\ \A i \in DOMAIN script' : script'[i] = Ce(TRUE) => i = Len(script')
<1>1. /\ Head(script) = script[1]
      /\ script' \in Seq(Steps) /\ Len(script') = Len(script) - 1
      /\ Len(script) \in Nat \ {0}
      /\ \A i \in 1 .. Len(script) - 1 : script'[i] = script[i + 1]
      /\ script \in Seq(Steps)
  BY OneStepLess DEF Inv, TypeOK
<1>2. DOMAIN script = 1 .. Len(script) /\ DOMAIN script' = 1 .. Len(script) - 1
  BY <1>1
<1>3. Head(script) = Ce(TRUE) => script' = << >>
  <2>1. ASSUME Head(script) = Ce(TRUE) PROVE Len(script) = 1
    <3>1. 1 \in 1 .. Len(script)
      BY <1>1
    <3>2. 1 \in DOMAIN script /\ script[1] = Ce(TRUE)
      BY <1>1, <1>2, <2>1, <3>1, Zenon
    <3> QED
      BY <3>2 DEF Inv, OffWhileConfigured
  <2> QED
    BY <1>1, <2>1, EmptySeq
<1>4. ASSUME NEW i \in DOMAIN script', script'[i] = Ce(FALSE) PROVE FALSE
  <2>0. /\ i \in 1 .. Len(script) - 1
        /\ i + 1 \in 1 .. Len(script) /\ i + 1 # 1
    <3>1. i \in 1 .. Len(script) - 1
      BY <1>2, Zenon
    <3> QED
      BY <1>1, <3>1
  <2>1. i + 1 \in DOMAIN script /\ i + 1 # 1 /\ script[i + 1] = Ce(FALSE)
    BY <1>1, <1>2, <1>4, <2>0, Zenon
  <2> QED
    BY <2>1 DEF Inv, OffWhileConfigured
<1>5. ASSUME NEW i \in DOMAIN script', script'[i] = Ce(TRUE) PROVE i = Len(script')
  <2>0. /\ i \in 1 .. Len(script) - 1
        /\ i + 1 \in 1 .. Len(script) /\ i + 1 # 1
    <3>1. i \in 1 .. Len(script) - 1
      BY <1>2, Zenon
    <3> QED
      BY <1>1, <3>1
  <2>1. i + 1 \in DOMAIN script /\ script[i + 1] = Ce(TRUE)
    BY <1>1, <1>2, <1>5, <2>0, Zenon
  <2>2. i + 1 = Len(script)
    BY <2>1 DEF Inv, OffWhileConfigured
  <2> QED
    BY <1>1, <1>2, <2>2
<1> QED
  BY <1>3, <1>4, <1>5

\* What CE does in a step, and what follows from the place of the step.
LEMMA Stepped ==
  ASSUME Inv, script # << >>, Proceed, role' = role,
         \/ Head(script) = Ce(TRUE) /\ ce'
         \/ Head(script) = Ce(FALSE) /\ ~ ce'
         \/ Head(script) # Ce(TRUE) /\ Head(script) # Ce(FALSE) /\ ce' = ce
  PROVE  /\ OffWhileConfigured'
         /\ role = "transmitter" /\ ~ late /\ script' # << >> => ~ ce'
<1>1. /\ Head(script) = script[1]
      /\ script' \in Seq(Steps) /\ Len(script') = Len(script) - 1
      /\ Len(script) \in Nat \ {0}
      /\ \A i \in 1 .. Len(script) - 1 : script'[i] = script[i + 1]
      /\ \A s : Ahead(s) => Head(script) = s \/ Ahead(s)'
      /\ \A s : Ahead(s)' => Ahead(s)
      /\ Ahead(Head(script))
      /\ script \in Seq(Steps)
  BY OneStepLess DEF Inv, TypeOK
<1>2. DOMAIN script = 1 .. Len(script) /\ DOMAIN script' = 1 .. Len(script) - 1
  BY <1>1
<1>3. Head(script) = Ce(TRUE) => script' = << >>
  BY PlaceOfCe
<1>6. role # "off"
  BY DEF Inv, OffWhileConfigured
<1>7. role = "silent" => ~ Ahead(Ce(TRUE))' /\ (~ ce' \/ Ahead(Ce(FALSE))')
  <2>1. role = "silent" => ~ Ahead(Ce(TRUE)) /\ (~ ce \/ Ahead(Ce(FALSE)))
    BY DEF Inv, OffWhileConfigured
  <2>2. Ahead(Ce(TRUE))' => Ahead(Ce(TRUE))
    BY <1>1
  <2>3. Ahead(Ce(FALSE)) => Head(script) = Ce(FALSE) \/ Ahead(Ce(FALSE))'
    BY <1>1
  <2>4. Head(script) = Ce(TRUE) => Ahead(Ce(TRUE))
    BY <1>1
  <2> QED
    BY <2>1, <2>2, <2>3, <2>4, DifferentSteps, Zenon
<1>8. role \in {"transmitter", "receiver"} =>
        IF script' = << >> THEN ce' ELSE script'[Len(script')] = Ce(TRUE)
  <2>1. SUFFICES ASSUME role \in {"transmitter", "receiver"}
                 PROVE  IF script' = << >> THEN ce' ELSE script'[Len(script')] = Ce(TRUE)
    OBVIOUS
  <2>2. script[Len(script)] = Ce(TRUE)
    BY <2>1 DEF Inv, OffWhileConfigured
  <2>3. CASE script' = << >>
    <3>1. Len(script) = 1
      BY <1>1, <2>3
    <3>2. Head(script) = Ce(TRUE)
      BY <1>1, <2>2, <3>1
    <3> QED
      BY <2>3, <3>2, DifferentSteps
  <2>4. CASE script' # << >>
    <3>1. Len(script') # 0
      BY <1>1, <2>4, EmptySeq
    <3>2. Len(script') \in 1 .. Len(script) - 1 /\ Len(script') + 1 = Len(script)
      BY <1>1, <3>1
    <3>3. script'[Len(script')] = script[Len(script') + 1]
      BY <1>1, <3>2
    <3> QED
      BY <2>2, <2>4, <3>2, <3>3
  <2> QED
    BY <2>3, <2>4
<1>9. \A receiver \in BOOLEAN :
        Ahead(WriteRegister(NRF24_REG_CONFIG, Config(receiver)))' =>
          role' = IF receiver THEN "receiver" ELSE "transmitter"
  BY <1>1 DEF Inv, OffWhileConfigured
<1>10. OffWhileConfigured'
  BY <1>6, <1>7, <1>8, <1>9, PlaceOfCe DEF OffWhileConfigured
<1>11. role = "transmitter" /\ ~ late /\ script' # << >> => ~ ce'
  <2>1. role = "transmitter" /\ ~ late /\ ce => Head(script) = Ce(FALSE)
    BY DEF Inv, IdleWhilePrepared
  <2> QED
    BY <1>3, <2>1, Zenon
<1> QED
  BY <1>10, <1>11

\* A step that is not a register write and not a level of CE.
LEMMA OtherStep ==
  ASSUME Inv, script # << >>, Proceed, role' = role, late' = late,
         reg' = reg, busy' = busy, image' = image \/ image' \subseteq 0 .. 7,
         rxCount' \in 0 .. FifoDepth, loaded' \in BOOLEAN, ce' \in BOOLEAN,
         \/ Head(script) = Ce(TRUE) /\ ce'
         \/ Head(script) = Ce(FALSE) /\ ~ ce'
         \/ Head(script) # Ce(TRUE) /\ Head(script) # Ce(FALSE) /\ ce' = ce,
         \A r, value : Head(script) # WriteRegister(r, value),
         Head(script) # Do("set_rf_channel"), Head(script) # Do("set_status")
  PROVE  Inv'
<1>1. \A s : Ahead(s) => Head(script) = s \/ Ahead(s)'
  BY OneStepLess DEF Inv, TypeOK
<1>2. TypeOK'
  BY OneStepLess DEF Inv, TypeOK
<1>3. OffWhileConfigured' /\ (role = "transmitter" /\ ~ late /\ script' # << >> => ~ ce')
  BY Stepped
<1>4. WrittenOrAhead'
  <2>1. \A r, value : Ahead(WriteRegister(r, value)) => Ahead(WriteRegister(r, value))'
    BY <1>1
  <2>2. Ahead(Do("set_rf_channel")) => Ahead(Do("set_rf_channel"))'
    BY <1>1
  <2> QED
    BY <2>1, <2>2 DEF Inv, WrittenOrAhead
<1>5. IdleWhilePrepared'
  <2>1. Ahead(Do("set_status")) => Ahead(Do("set_status"))'
    BY <1>1
  <2> QED
    BY <1>3, <2>1 DEF Inv, IdleWhilePrepared
<1> QED
  BY <1>2, <1>3, <1>4, <1>5 DEF Inv

\* The register writes that the functions consist of.
Writes ==
  {WriteRegister(NRF24_REG_RF_SETUP, RfSetup), WriteRegister(NRF24_REG_SETUP_RETR, SetupRetr),
   WriteRegister(NRF24_REG_RX_PW_P0, PayloadLen),
   WriteRegister(NRF24_REG_CONFIG, Config(TRUE)), WriteRegister(NRF24_REG_CONFIG, Config(FALSE))}

\* The name of a step says which it is.
LEMMA ByName ==
  ASSUME NEW s \in Steps
  PROVE  /\ s.step = "set_ce" => s \in {Ce(TRUE), Ce(FALSE)}
         /\ s.step # "set_ce" => s # Ce(TRUE) /\ s # Ce(FALSE)
         /\ s.step = "write" => s \in Writes
         /\ s.step # "write" => \A r, value : s # WriteRegister(r, value)
         /\ \A what : s.step # what => s # Do(what)
<1>1. /\ s.step # "set_ce" => s # Ce(TRUE) /\ s # Ce(FALSE)
      /\ s.step # "write" => \A r, value : s # WriteRegister(r, value)
      /\ \A what : s.step # what => s # Do(what)
  <2>1. ASSUME NEW level, s = Ce(level) PROVE s.step = "set_ce"
    BY <2>1, StepFields
  <2>2. ASSUME NEW r, NEW value, s = WriteRegister(r, value) PROVE s.step = "write"
    BY <2>2, StepFields
  <2>3. ASSUME NEW what, s = Do(what) PROVE s.step = what
    BY <2>3, StepFields
  <2> QED
    BY <2>1, <2>2, <2>3, Zenon
<1> DEFINE names == {"get_status", "set_status", "set_rf_channel", "flush_rx", "flush_tx",
                     "write_tx_payload", "get_fifo_status"}
<1>2. s \in {Ce(TRUE), Ce(FALSE)} \/ s \in Writes \/ \E what \in names : s = Do(what)
  BY Zenon DEF Steps, Writes
<1>3. CASE s \in {Ce(TRUE), Ce(FALSE)}
  <2>1. s.step = "set_ce"
    BY <1>3, StepFields
  <2> QED
    BY <1>1, <1>3, <2>1
<1>4. CASE s \in Writes
  <2>1. s.step = "write"
    <3>1. \E r, value : s = WriteRegister(r, value)
      BY <1>4, Zenon DEF Writes
    <3> QED
      BY <3>1, StepFields
  <2> QED
    BY <1>1, <1>4, <2>1
<1>5. CASE \E what \in names : s = Do(what)
  <2>1. s.step \in names
    BY <1>5, StepFields
  <2>2. s.step # "set_ce" /\ s.step # "write"
    BY <2>1
  <2> QED
    BY <1>1, <2>2
<1> QED
  BY <1>2, <1>3, <1>4, <1>5

\* A step that is no register access leaves what is ahead to be done ahead.
LEMMA OtherStepsKeepInv ==
  ASSUME Inv, \/ set_ce \/ nrf24_get_status \/ nrf24_send_command \/ nrf24_write_tx_payload
              \/ nrf24_get_fifo_status
  PROVE  Inv'
<1>1. script # << >> => Head(script) \in Steps
  BY FirstStep DEF Inv, TypeOK
<1>t. /\ rxCount \in 0 .. FifoDepth /\ ce \in BOOLEAN /\ loaded \in BOOLEAN
      /\ FifoDepth \in Nat
  BY FifoDepthAssumption DEF Inv, TypeOK
<1>2. CASE set_ce
  <2>1. /\ script # << >> /\ Proceed /\ Head(script).step = "set_ce"
        /\ ce' = Head(script).level
        /\ UNCHANGED <<role, image, reg, rxCount, loaded, busy, late>>
    BY <1>2 DEF set_ce, At
  <2>2. \/ Head(script) = Ce(TRUE) /\ ce' = TRUE
        \/ Head(script) = Ce(FALSE) /\ ce' = FALSE
    BY <1>1, <2>1, ByName, StepFields
  <2>3. ce' \in BOOLEAN
    BY <2>2
  <2>4. /\ \A r, value : Head(script) # WriteRegister(r, value)
        /\ Head(script) # Do("set_rf_channel") /\ Head(script) # Do("set_status")
    BY <1>1, <2>1, ByName
  <2> QED
    BY <1>t, <2>1, <2>2, <2>3, <2>4, OtherStep
<1>3. CASE nrf24_get_status
  <2>1. /\ script # << >> /\ Proceed /\ Head(script).step = "get_status"
        /\ image' = reg[AddressIn(ReadCommand(NRF24_REG_STATUS))]
        /\ UNCHANGED <<role, reg, ce, rxCount, loaded, busy, late>>
    BY <1>3 DEF nrf24_get_status, At, chipVars
  <2>2. image' \subseteq 0 .. 7
    <3>1. NRF24_REG_STATUS \in Register
      BY RegisterNumbers
    <3>2. image' = reg[NRF24_REG_STATUS]
      BY <2>1, <3>1, RegisterAccess
    <3> QED
      BY <3>1, <3>2 DEF Inv, TypeOK
  <2>3. /\ \A r, value : Head(script) # WriteRegister(r, value)
        /\ Head(script) # Do("set_rf_channel") /\ Head(script) # Do("set_status")
        /\ Head(script) # Ce(TRUE) /\ Head(script) # Ce(FALSE)
    BY <1>1, <2>1, ByName
  <2> QED
    BY <1>t, <2>1, <2>2, <2>3, OtherStep
<1>4. CASE nrf24_send_command
  <2>1. /\ script # << >> /\ Proceed /\ Head(script).step \in {"flush_rx", "flush_tx"}
        /\ UNCHANGED <<role, image, reg, ce, busy, late>>
    BY <1>4 DEF nrf24_send_command, At
  <2>2. rxCount' \in 0 .. FifoDepth /\ loaded' \in BOOLEAN
    <3>1. \/ rxCount' = 0 /\ loaded' = loaded
          \/ rxCount' = rxCount /\ loaded' = FALSE
      BY <1>4 DEF nrf24_send_command
    <3>2. 0 \in 0 .. FifoDepth
      BY <1>t
    <3>3. FALSE \in BOOLEAN
      OBVIOUS
    <3> QED
      BY <1>t, <3>1, <3>2, <3>3, Zenon
  <2>3. /\ \A r, value : Head(script) # WriteRegister(r, value)
        /\ Head(script) # Do("set_rf_channel") /\ Head(script) # Do("set_status")
        /\ Head(script) # Ce(TRUE) /\ Head(script) # Ce(FALSE)
    BY <1>1, <2>1, ByName
  <2> QED
    BY <1>t, <2>1, <2>2, <2>3, OtherStep
<1>5. CASE nrf24_write_tx_payload
  <2>1. /\ script # << >> /\ Proceed /\ Head(script).step = "write_tx_payload"
        /\ loaded' = TRUE /\ UNCHANGED <<role, image, reg, ce, rxCount, busy, late>>
    BY <1>5 DEF nrf24_write_tx_payload, At
  <2>3. /\ \A r, value : Head(script) # WriteRegister(r, value)
        /\ Head(script) # Do("set_rf_channel") /\ Head(script) # Do("set_status")
        /\ Head(script) # Ce(TRUE) /\ Head(script) # Ce(FALSE)
    BY <1>1, <2>1, ByName
  <2> QED
    BY <1>t, <2>1, <2>3, OtherStep
<1>6. CASE nrf24_get_fifo_status
  <2>1. /\ script # << >> /\ Head(script).step = "get_fifo_status"
        /\ UNCHANGED <<role, image, reg, ce, loaded, busy, late>>
    BY <1>6 DEF nrf24_get_fifo_status, At
  <2>2. CASE RxEmpty /\ Proceed /\ UNCHANGED rxCount
    <3>1. /\ \A r, value : Head(script) # WriteRegister(r, value)
          /\ Head(script) # Do("set_rf_channel") /\ Head(script) # Do("set_status")
          /\ Head(script) # Ce(TRUE) /\ Head(script) # Ce(FALSE)
      BY <1>1, <2>1, ByName
    <3> QED
      BY <1>t, <2>1, <2>2, <3>1, OtherStep
  <2>3. CASE ~ RxEmpty /\ rxCount' = rxCount - 1 /\ UNCHANGED script
    <3>1. rxCount' \in 0 .. FifoDepth
      BY <1>t, <2>3 DEF RxEmpty
    <3>2. \A s : Ahead(s)' <=> Ahead(s)
      BY <2>3 DEF Ahead
    <3> QED
      BY <2>1, <2>3, <3>1, <3>2
      DEF Inv, TypeOK, OffWhileConfigured, WrittenOrAhead, IdleWhilePrepared
  <2> QED
    BY <1>6, <2>2, <2>3 DEF nrf24_get_fifo_status
<1> QED
  BY <1>2, <1>3, <1>4, <1>5, <1>6

\* What a write of another register leaves as it is.
LEMMA RegisterWritten ==
  ASSUME Inv, NEW r \in Register, NEW value \in SUBSET (0 .. 7),
         nrf24_write_register(r, value)
  PROVE  /\ reg' \in [Register -> SUBSET (0 .. 7)]
         /\ \A q \in Register : q # r => reg'[q] = reg[q]
         /\ r # NRF24_REG_STATUS => reg'[r] = value
         /\ r = NRF24_REG_STATUS => reg'[r] = reg[r] \ (value \cap Flags)
         /\ UNCHANGED <<ce, rxCount, loaded, busy>>
<1>1. /\ reg' = [reg EXCEPT ![r] = IF r = NRF24_REG_STATUS THEN reg[r] \ (value \cap Flags)
                                   ELSE value]
      /\ UNCHANGED <<ce, rxCount, loaded, busy>>
  BY RegisterAccess DEF nrf24_write_register
<1>2. reg \in [Register -> SUBSET (0 .. 7)]
  BY DEF Inv, TypeOK
<1> QED
  BY <1>1, <1>2

\* The chip ends up with what the registers are to be written with.
LEMMA WritesKeepInv ==
  ASSUME Inv, write
  PROVE  Inv'
<1>1. /\ script # << >> /\ Head(script).step = "write" /\ Proceed
      /\ nrf24_write_register(Head(script).register, Head(script).value)
      /\ UNCHANGED <<role, image, late>>
  BY DEF write, At
<1>2. Head(script) \in Steps /\ Head(script) \in Writes
  BY <1>1, FirstStep, ByName DEF Inv, TypeOK
<1>3. PICK r \in {0, 4, 6, 17}, value \in SUBSET (0 .. 7) :
        /\ Head(script) = WriteRegister(r, value)
        /\ r = 6 => value = RfSetup
        /\ r = 4 => value = SetupRetr
        /\ r = 17 => value = PayloadLen
        /\ r = 0 => \E receiver \in BOOLEAN : value = Config(receiver)
  <2> DEFINE Fits(r, value) ==
               /\ Head(script) = WriteRegister(r, value)
               /\ r = 6 => value = RfSetup
               /\ r = 4 => value = SetupRetr
               /\ r = 17 => value = PayloadLen
               /\ r = 0 => \E receiver \in BOOLEAN : value = Config(receiver)
  <2>1. \/ Head(script) = WriteRegister(6, RfSetup) \/ Head(script) = WriteRegister(4, SetupRetr)
        \/ Head(script) = WriteRegister(17, PayloadLen)
        \/ \E receiver \in BOOLEAN : Head(script) = WriteRegister(0, Config(receiver))
    BY <1>2, RegisterNumbers DEF Writes
  <2>2. CASE Head(script) = WriteRegister(6, RfSetup)
    <3>1. Fits(6, RfSetup)
      BY <2>2
    <3> QED
      BY <3>1, Images
  <2>3. CASE Head(script) = WriteRegister(4, SetupRetr)
    <3>1. Fits(4, SetupRetr)
      BY <2>3
    <3> QED
      BY <3>1, Images
  <2>4. CASE Head(script) = WriteRegister(17, PayloadLen)
    <3>1. Fits(17, PayloadLen)
      BY <2>4
    <3> QED
      BY <3>1, Images
  <2>5. CASE \E receiver \in BOOLEAN : Head(script) = WriteRegister(0, Config(receiver))
    <3>1. PICK receiver \in BOOLEAN : Head(script) = WriteRegister(0, Config(receiver))
      BY <2>5
    <3>2. Fits(0, Config(receiver))
      BY <3>1
    <3> QED
      BY <3>2, Images
  <2> QED
    BY <2>1, <2>2, <2>3, <2>4, <2>5
<1>4. nrf24_write_register(r, value)
  BY <1>1, <1>3, StepFields
<1>5. /\ r \in Register
      /\ reg' \in [Register -> SUBSET (0 .. 7)]
      /\ \A q \in Register : q # r => reg'[q] = reg[q]
      /\ reg'[r] = value
      /\ UNCHANGED <<ce, rxCount, loaded, busy>>
  <2>1. r \in Register /\ r # NRF24_REG_STATUS
    BY <1>3, RegisterNumbers
  <2> QED
    BY <1>4, <2>1, RegisterWritten
<1>6. /\ \A s : Ahead(s) => Head(script) = s \/ Ahead(s)'
      /\ \A s : Ahead(s)' => Ahead(s)
      /\ Ahead(Head(script))
      /\ script' \in Seq(Steps)
  BY <1>1, OneStepLess DEF Inv, TypeOK
<1>7. /\ Head(script) # Ce(TRUE) /\ Head(script) # Ce(FALSE)
      /\ Head(script) # Do("set_status") /\ Head(script) # Do("set_rf_channel")
  BY <1>3, DifferentSteps, NotNamed
<1>8. OffWhileConfigured' /\ (role = "transmitter" /\ ~ late /\ script' # << >> => ~ ce')
  BY <1>1, <1>5, <1>7, Stepped
<1>9. TypeOK'
  BY <1>1, <1>5, <1>6 DEF Inv, TypeOK
<1>10. WrittenOrAhead'
  <2>1. ASSUME NEW q \in {4, 6, 17}, NEW wanted,
               r = q => value = wanted,
               reg[q] = wanted \/ Ahead(WriteRegister(q, wanted))
        PROVE  reg'[q] = wanted \/ Ahead(WriteRegister(q, wanted))'
    <3>1. CASE r = q
      BY <1>5, <2>1, <3>1
    <3>2. CASE r # q
      <4>1. Head(script) # WriteRegister(q, wanted)
        BY <1>3, <3>2, DifferentSteps
      <4>2. reg'[q] = reg[q]
        BY <1>5, <3>2, RegisterNumbers
      <4> QED
        BY <1>6, <2>1, <4>1, <4>2
    <3> QED
      BY <3>1, <3>2
  <2>2. reg'[5] = reg[5] /\ (Ahead(Do("set_rf_channel")) => Ahead(Do("set_rf_channel"))')
    BY <1>3, <1>5, <1>6, <1>7, RegisterNumbers
  <2>3. role # "off" =>
          /\ reg'[6] = RfSetup \/ Ahead(WriteRegister(6, RfSetup))'
          /\ reg'[4] = SetupRetr \/ Ahead(WriteRegister(4, SetupRetr))'
          /\ reg'[17] = PayloadLen \/ Ahead(WriteRegister(17, PayloadLen))'
          /\ reg'[5] \ {7} = Channel \/ Ahead(Do("set_rf_channel"))'
    <3>1. role # "off" =>
            /\ reg[6] = RfSetup \/ Ahead(WriteRegister(6, RfSetup))
            /\ reg[4] = SetupRetr \/ Ahead(WriteRegister(4, SetupRetr))
            /\ reg[17] = PayloadLen \/ Ahead(WriteRegister(17, PayloadLen))
            /\ reg[5] \ {7} = Channel \/ Ahead(Do("set_rf_channel"))
      BY RegisterNumbers DEF Inv, WrittenOrAhead
    <3> QED
      BY <1>3, <2>1, <2>2, <3>1
  <2>4. ASSUME NEW receiver \in BOOLEAN, role = IF receiver THEN "receiver" ELSE "transmitter"
        PROVE  reg'[0] = Config(receiver) \/ Ahead(WriteRegister(0, Config(receiver)))'
    <3>1. reg[0] = Config(receiver) \/ Ahead(WriteRegister(0, Config(receiver)))
      BY <2>4, RegisterNumbers DEF Inv, WrittenOrAhead
    <3>2. CASE r = 0
      <4>1. PICK other \in BOOLEAN : value = Config(other)
        BY <1>3, <3>2
      <4>2. role = IF other THEN "receiver" ELSE "transmitter"
        BY <1>3, <1>6, <3>2, <4>1, RegisterNumbers DEF Inv, OffWhileConfigured
      <4>3. other = receiver
        BY <2>4, <4>2
      <4> QED
        BY <1>5, <3>2, <4>1, <4>3
    <3>3. CASE r # 0
      <4>1. Head(script) # WriteRegister(0, Config(receiver))
        BY <1>3, <3>3, DifferentSteps
      <4>2. reg'[0] = reg[0]
        BY <1>5, <3>3, RegisterNumbers
      <4> QED
        BY <1>6, <3>1, <4>1, <4>2
    <3> QED
      BY <3>2, <3>3
  <2> QED
    BY <1>1, <2>3, <2>4, RegisterNumbers DEF WrittenOrAhead
<1>11. IdleWhilePrepared'
  <2>1. Ahead(Do("set_status")) => Ahead(Do("set_status"))'
    BY <1>6, <1>7
  <2>2. reg'[NRF24_REG_STATUS] = reg[NRF24_REG_STATUS]
    BY <1>3, <1>5, RegisterNumbers
  <2> QED
    BY <1>1, <1>5, <1>8, <2>1, <2>2 DEF Inv, IdleWhilePrepared
<1> QED
  BY <1>8, <1>9, <1>10, <1>11 DEF Inv

\* RF_CH has the channel, whatever its eighth bit is; STATUS has no flag left.
LEMMA OtherAccessesKeepInv ==
  ASSUME Inv, nrf24_set_rf_channel \/ nrf24_set_status
  PROVE  Inv'
<1>1. PICK r \in {5, 7}, value \in SUBSET (0 .. 7) :
        /\ script # << >> /\ Proceed /\ UNCHANGED <<role, image, late>>
        /\ nrf24_write_register(r, value)
        /\ r = 5 => Head(script).step = "set_rf_channel" /\ value \ {7} = Channel
        /\ r = 7 => Head(script).step = "set_status" /\ Flags \subseteq value
  <2>1. CASE nrf24_set_rf_channel
    <3>1. PICK value \in RfChannelImages : nrf24_write_register(5, value)
      BY <2>1, RegisterNumbers DEF nrf24_set_rf_channel
    <3>2. value \in SUBSET (0 .. 7) /\ value \ {7} = Channel
      BY Images
    <3>3. script # << >> /\ Head(script).step = "set_rf_channel" /\ Proceed
          /\ UNCHANGED <<role, image, late>>
      BY <2>1 DEF nrf24_set_rf_channel, At
    <3> QED
      BY <3>1, <3>2, <3>3
  <2>2. CASE nrf24_set_status
    <3>1. /\ script # << >> /\ Head(script).step = "set_status" /\ Proceed
          /\ UNCHANGED <<role, image, late>>
          /\ nrf24_write_register(7, StatusToWrite(image))
      BY <2>2, RegisterNumbers DEF nrf24_set_status, At
    <3>2. StatusToWrite(image) \in SUBSET (0 .. 7) /\ Flags \subseteq StatusToWrite(image)
      BY Images DEF StatusToWrite, Inv, TypeOK
    <3> QED
      BY <3>1, <3>2
  <2> QED
    BY <2>1, <2>2
<1>2. /\ r \in Register
      /\ reg' \in [Register -> SUBSET (0 .. 7)]
      /\ \A q \in Register : q # r => reg'[q] = reg[q]
      /\ r = 5 => reg'[5] = value
      /\ r = 7 => reg'[7] = reg[7] \ (value \cap Flags)
      /\ UNCHANGED <<ce, rxCount, loaded, busy>>
  <2>1. r \in Register
    BY RegisterNumbers
  <2> QED
    BY <1>1, <2>1, RegisterNumbers, RegisterWritten
<1>3. /\ \A s : Ahead(s) => Head(script) = s \/ Ahead(s)'
      /\ script' \in Seq(Steps)
  BY <1>1, OneStepLess DEF Inv, TypeOK
<1>4. /\ Head(script) # Ce(TRUE) /\ Head(script) # Ce(FALSE)
      /\ \A q, any : Head(script) # WriteRegister(q, any)
      /\ r = 5 => Head(script) # Do("set_status")
      /\ r = 7 => Head(script) # Do("set_rf_channel")
  <2>1. Head(script) \in Steps
    BY <1>1, FirstStep DEF Inv, TypeOK
  <2> QED
    BY <1>1, <2>1, ByName
<1>5. OffWhileConfigured' /\ (role = "transmitter" /\ ~ late /\ script' # << >> => ~ ce')
  BY <1>1, <1>2, <1>4, Stepped
<1>6. TypeOK'
  BY <1>1, <1>2, <1>3 DEF Inv, TypeOK
<1>7. WrittenOrAhead'
  <2>1. reg'[6] = reg[6] /\ reg'[4] = reg[4] /\ reg'[17] = reg[17] /\ reg'[0] = reg[0]
    BY <1>2, RegisterNumbers
  <2>2. \A q, any : Ahead(WriteRegister(q, any)) => Ahead(WriteRegister(q, any))'
    BY <1>3, <1>4
  <2>3. reg[5] \ {7} = Channel \/ Ahead(Do("set_rf_channel")) =>
          reg'[5] \ {7} = Channel \/ Ahead(Do("set_rf_channel"))'
    <3>1. CASE r = 5
      BY <1>1, <1>2, <3>1
    <3>2. CASE r = 7
      <4>1. reg'[5] = reg[5]
        BY <1>2, <3>2, RegisterNumbers
      <4> QED
        BY <1>3, <1>4, <3>2, <4>1
    <3> QED
      BY <3>1, <3>2
  <2> QED
    BY <1>1, <2>1, <2>2, <2>3, RegisterNumbers DEF Inv, WrittenOrAhead
<1>8. IdleWhilePrepared'
  <2>1. reg[7] \cap Flags = {} \/ Ahead(Do("set_status")) =>
          reg'[7] \cap Flags = {} \/ Ahead(Do("set_status"))'
    <3>1. CASE r = 5
      <4>1. reg'[7] = reg[7]
        BY <1>2, <3>1, RegisterNumbers
      <4> QED
        BY <1>3, <1>4, <3>1, <4>1
    <3>2. CASE r = 7
      <4>1. reg'[7] = reg[7] \ (value \cap Flags) /\ Flags \subseteq value
        BY <1>1, <1>2, <3>2
      <4> QED
        BY <4>1
    <3> QED
      BY <3>1, <3>2
  <2> QED
    BY <1>1, <1>2, <1>5, <2>1, RegisterNumbers DEF Inv, IdleWhilePrepared
<1> QED
  BY <1>5, <1>6, <1>7, <1>8 DEF Inv
-----------------------------------------------------------------------------
(* The chip, and the invariant.                                            *)

\* Raising a flag changes STATUS only.
LEMMA FlagRaised ==
  ASSUME Inv, NEW flag \in Flags, Raise(flag)
  PROVE  /\ reg' \in [Register -> SUBSET (0 .. 7)]
         /\ \A q \in Register : q # NRF24_REG_STATUS => reg'[q] = reg[q]
<1>1. /\ reg \in [Register -> SUBSET (0 .. 7)] /\ flag \in 0 .. 7
      /\ NRF24_REG_STATUS \in Register
  BY Images, RegisterNumbers DEF Inv, TypeOK
<1>2. reg' = [reg EXCEPT ![NRF24_REG_STATUS] = reg[NRF24_REG_STATUS] \cup {flag}]
  BY DEF Raise
<1> QED
  BY <1>1, <1>2

\* What the chip does by itself does not upset what the driver sets up.
LEMMA ChipKeepsInv ==
  ASSUME Inv, StartTransmission \/ EndTransmission \/ Receive
  PROVE  Inv'
<1>1. CASE StartTransmission
  <2>1. /\ UNCHANGED <<role, script, image, reg, ce, rxCount, loaded, late>>
        /\ busy' = TRUE /\ ce /\ PRIM_RX \notin reg[NRF24_REG_CONFIG]
    BY <1>1 DEF StartTransmission, hostVars
  <2>2. \A s : Ahead(s)' <=> Ahead(s)
    BY <2>1 DEF Ahead
  <2>3. TypeOK'
    BY <2>1 DEF Inv, TypeOK
  <2>4. OffWhileConfigured' /\ WrittenOrAhead'
    BY <2>1, <2>2 DEF Inv, OffWhileConfigured, WrittenOrAhead
  <2>5. IdleWhilePrepared'
    BY <2>1 DEF Inv, IdleWhilePrepared
  <2> QED
    BY <2>3, <2>4, <2>5 DEF Inv
<1>2. CASE EndTransmission
  <2>1. /\ UNCHANGED <<role, script, image, ce, rxCount, late>> /\ busy /\ busy' = FALSE
        /\ \E flag \in {TX_DS, MAX_RT} : Raise(flag)
        /\ loaded' = FALSE \/ loaded' = loaded
    BY <1>2 DEF EndTransmission, hostVars
  <2>2. /\ reg' \in [Register -> SUBSET (0 .. 7)]
        /\ \A q \in Register : q # NRF24_REG_STATUS => reg'[q] = reg[q]
    BY <2>1, FlagRaised DEF Flags
  <2>3. \A s : Ahead(s)' <=> Ahead(s)
    BY <2>1 DEF Ahead
  <2>4. TypeOK'
    BY <2>1, <2>2 DEF Inv, TypeOK
  <2>5. reg'[0] = reg[0] /\ reg'[4] = reg[4] /\ reg'[5] = reg[5] /\ reg'[6] = reg[6]
        /\ reg'[17] = reg[17]
    BY <2>2, RegisterNumbers
  <2>6. OffWhileConfigured' /\ WrittenOrAhead'
    BY <2>1, <2>3, <2>5, RegisterNumbers DEF Inv, OffWhileConfigured, WrittenOrAhead
  <2>7. IdleWhilePrepared'
    BY <2>1 DEF Inv, IdleWhilePrepared
  <2> QED
    BY <2>4, <2>6, <2>7 DEF Inv
<1>3. CASE Receive
  <2>1. /\ UNCHANGED <<role, script, image, ce, loaded, busy, late>> /\ ce
        /\ Raise(RX_DR) /\ rxCount < FifoDepth /\ rxCount' = rxCount + 1
    BY <1>3 DEF Receive, hostVars
  <2>2. /\ reg' \in [Register -> SUBSET (0 .. 7)]
        /\ \A q \in Register : q # NRF24_REG_STATUS => reg'[q] = reg[q]
    BY <2>1, FlagRaised DEF Flags
  <2>3. \A s : Ahead(s)' <=> Ahead(s)
    BY <2>1 DEF Ahead
  <2>4. rxCount' \in 0 .. FifoDepth
    BY <2>1, FifoDepthAssumption DEF Inv, TypeOK
  <2>5. TypeOK'
    BY <2>1, <2>2, <2>4 DEF Inv, TypeOK
  <2>6. reg'[0] = reg[0] /\ reg'[4] = reg[4] /\ reg'[5] = reg[5] /\ reg'[6] = reg[6]
        /\ reg'[17] = reg[17]
    BY <2>2, RegisterNumbers
  <2>7. OffWhileConfigured' /\ WrittenOrAhead'
    BY <2>1, <2>3, <2>6, RegisterNumbers DEF Inv, OffWhileConfigured, WrittenOrAhead
  <2>8. IdleWhilePrepared'
    BY <2>1, <2>3, <2>6, RegisterNumbers DEF Inv, IdleWhilePrepared
  <2> QED
    BY <2>5, <2>7, <2>8 DEF Inv
<1> QED
  BY <1>1, <1>2, <1>3

\* It holds when the processor starts, whatever the chip was left with.
LEMMA InitInv == Init => Inv
<1> SUFFICES ASSUME Init PROVE Inv
  OBVIOUS
<1>1. /\ role = "off" /\ script = << >> /\ image = {} /\ ce \in BOOLEAN
      /\ rxCount \in 0 .. FifoDepth /\ loaded \in BOOLEAN /\ busy = FALSE /\ late = FALSE
  BY DEF Init
<1>2. PICK config \in {{EN_CRC}, Config(TRUE), Config(FALSE)},
           length \in {{}, PayloadLen}, flags \in SUBSET Flags :
        reg = [r \in Register |->
                CASE r = NRF24_REG_CONFIG -> config
                  [] r = NRF24_REG_RX_PW_P0 -> length
                  [] r = NRF24_REG_STATUS -> flags
                  [] OTHER -> {}]
  BY DEF Init
<1>3. config \in SUBSET (0 .. 7) /\ length \in SUBSET (0 .. 7) /\ flags \in SUBSET (0 .. 7)
  <2>1. {EN_CRC} \subseteq 0 .. 7
    BY DEF EN_CRC
  <2> QED
    BY <2>1, Images, Zenon
<1>4. reg \in [Register -> SUBSET (0 .. 7)]
  BY <1>2, <1>3
<1>5. TypeOK
  <2>1. << >> \in Seq(Steps)
    OBVIOUS
  <2>2. role \in {"off", "silent", "transmitter", "receiver"} /\ image \subseteq 0 .. 7
    BY <1>1
  <2>3. {ce, loaded, busy, late} \subseteq BOOLEAN
    BY <1>1
  <2> QED
    BY <1>1, <1>4, <2>1, <2>2, <2>3, Zenon DEF TypeOK
<1>6. OffWhileConfigured
  BY <1>1 DEF OffWhileConfigured, Ahead
<1>7. WrittenOrAhead /\ IdleWhilePrepared
  BY <1>1 DEF WrittenOrAhead, IdleWhilePrepared
<1> QED
  BY <1>5, <1>6, <1>7 DEF Inv

\* Every step keeps it.
LEMMA NextInv == Inv /\ [Next]_vars => Inv'
<1> SUFFICES ASSUME Inv, [Next]_vars PROVE Inv'
  OBVIOUS
<1>1. CASE UNCHANGED vars
  <2>1. UNCHANGED <<role, script, image, reg, ce, rxCount, loaded, busy, late>>
    BY <1>1 DEF vars, hostVars, chipVars
  <2>2. \A s : Ahead(s)' <=> Ahead(s)
    BY <2>1 DEF Ahead
  <2> QED
    BY <2>1, <2>2 DEF Inv, TypeOK, OffWhileConfigured, WrittenOrAhead, IdleWhilePrepared
<1> QED
  BY <1>1, BootKeepsInv, CallsKeepInv, OtherStepsKeepInv, WritesKeepInv,
     OtherAccessesKeepInv, ChipKeepsInv DEF Next, Driver

(***************************************************************************)
(* In every state what a register has to be written with is there or still *)
(* ahead, CE is low while a function configures the chip, and the chip is  *)
(* idle while a transmission is prepared, unless it was busy before that.  *)
(***************************************************************************)
THEOREM InvHolds == Spec => []Inv
<1> QED
  BY InitInv, NextInv, PTL DEF Spec

(***************************************************************************)
(* Whatever the chip does between the transactions of nrf24.c, and         *)
(* whatever a reset has left in it, it is configured as Radio.cpp intends  *)
(* whenever a function has returned.                                       *)
(***************************************************************************)
THEOREM AlwaysSetUp == Spec => []SetUpForGood
<1>1. Inv => SetUpForGood
  <2>1. SUFFICES ASSUME Inv, script = << >>
                 PROVE  /\ role # "off" =>
                             /\ reg[NRF24_REG_RF_SETUP] = RfSetup
                             /\ reg[NRF24_REG_SETUP_RETR] = SetupRetr
                             /\ reg[NRF24_REG_RX_PW_P0] = PayloadLen
                             /\ reg[NRF24_REG_RF_CH] \ {7} = Channel
                        /\ role \in {"transmitter", "receiver"} =>
                             /\ ce
                             /\ reg[NRF24_REG_CONFIG] \cap Flags = {}
                             /\ PRIM_RX \in reg[NRF24_REG_CONFIG] <=> role = "receiver"
    BY DEF SetUpForGood
  <2> QED
    BY <2>1, Returned, Images
<1> QED
  BY <1>1, InvHolds, PTL

(***************************************************************************)
(* No transmission begins with a flag of STATUS set, unless the one before *)
(* was still being transmitted when the radio gave it up.                  *)
(***************************************************************************)
THEOREM StartsClean == Spec => CleanStart
<1>1. Inv /\ [Next]_vars =>
        [role = "transmitter" /\ ~ ce /\ ce' /\ ~ late /\ ~ busy =>
           reg[NRF24_REG_STATUS] \cap Flags = {}]_vars
  <2>1. SUFFICES ASSUME Inv, Next, role = "transmitter", ~ ce, ce', ~ late
                 PROVE  reg[NRF24_REG_STATUS] \cap Flags = {}
    OBVIOUS
  <2>2. set_ce
    <3>1. Boot \/ Transmit \/ Listen \/ ReadMessages => ce' = ce
      BY DEF Boot, Transmit, Listen, ReadMessages, Call, chipVars
    <3>2. write \/ nrf24_set_rf_channel \/ nrf24_set_status => ce' = ce
      BY DEF write, nrf24_set_rf_channel, nrf24_set_status, nrf24_write_register
    <3>3. ASSUME \/ nrf24_get_status \/ nrf24_send_command \/ nrf24_write_tx_payload
                 \/ nrf24_get_fifo_status
          PROVE  ce' = ce
      BY <3>3 DEF nrf24_get_status, nrf24_send_command, nrf24_write_tx_payload,
         nrf24_get_fifo_status, chipVars
    <3>4. StartTransmission \/ EndTransmission \/ Receive => ce' = ce
      BY DEF StartTransmission, EndTransmission, Receive
    <3>5. ~ (ce' = ce)
      BY <2>1, Zenon
    <3>6. Next
      BY <2>1
    <3> QED
      BY <3>1, <3>2, <3>3, <3>4, <3>5, <3>6, Zenon DEF Next, Driver
  <2>3. script # << >> /\ Head(script) = Ce(TRUE)
    <3>1. script # << >> /\ Head(script).step = "set_ce" /\ Head(script).level
      BY <2>1, <2>2 DEF set_ce, At
    <3>2. Head(script) \in Steps
      BY <2>1, <3>1, FirstStep DEF Inv, TypeOK
    <3>3. Head(script) \in {Ce(TRUE), Ce(FALSE)}
      BY <3>1, <3>2, ByName, Zenon
    <3>4. ~ Ce(FALSE).level
      BY StepFields
    <3> QED
      BY <3>1, <3>3, <3>4, Zenon
  <2>4. ~ Ahead(Do("set_status"))
    <3>0. script \in Seq(Steps)
      BY <2>1 DEF Inv, TypeOK
    <3>1. script[1] = Ce(TRUE) /\ Len(script) \in Nat \ {0} /\ DOMAIN script = 1 .. Len(script)
      <4>1. Len(script) \in Nat /\ DOMAIN script = 1 .. Len(script)
        BY <3>0
      <4>2. Len(script) # 0
        BY <2>3, <3>0, EmptySeq
      <4>3. script[1] = Ce(TRUE)
        BY <2>3, <3>0, FirstStep
      <4> QED
        BY <4>1, <4>2, <4>3
    <3>2. 1 \in 1 .. Len(script)
      BY <3>1
    <3>3. Len(script) = 1
      BY <2>1, <3>1, <3>2 DEF Inv, OffWhileConfigured
    <3>4. ASSUME NEW i \in DOMAIN script PROVE script[i] = Ce(TRUE)
      <4>1. i = 1
        BY <3>1, <3>3
      <4> QED
        BY <3>1, <4>1
    <3> QED
      BY <3>4, DifferentSteps DEF Ahead
  <2> QED
    BY <2>1, <2>3, <2>4 DEF Inv, IdleWhilePrepared
<1> QED
  BY <1>1, InvHolds, PTL DEF Spec, CleanStart
=============================================================================
