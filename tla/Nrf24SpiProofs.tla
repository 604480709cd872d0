---------------------------- MODULE Nrf24SpiProofs ----------------------------
(***************************************************************************)
(* Proofs about Nrf24Spi, for every length of a payload and of a buffer,   *)
(* every value, and any number of calls and resets.                        *)
(***************************************************************************)
EXTENDS Nrf24Spi, SequenceTheorems, TLAPS

-----------------------------------------------------------------------------
(* The invariant behind NoByteAstray.                                      *)

Byte == SUBSET (0 .. 7)
Payload == [1 .. PayloadSize -> Byte]

\* What the wire may hold.
Item ==
  ({"csn"} \X BOOLEAN) \cup ({"command"} \X (0 .. 255)) \cup ({"data"} \X Byte)
    \cup {Nop} \cup ({"write_back"} \X Register \X Byte \X Byte)

TypeOK ==
  /\ wire \in Seq(Item) /\ buffer \in Seq(Byte)
  /\ csn \in BOOLEAN
  /\ command \in {NoCommand} \cup 0 .. 255
  /\ count \in Nat
  /\ reg \in [Register -> Seq(Byte)]
  /\ \A r \in Register : Len(reg[r]) = Width(r)
  /\ shifted \in Seq(Byte)
  /\ txFifo \in Seq(Seq(Byte)) /\ rxFifo \in Seq(Payload)

(***************************************************************************)
(* Where a transaction has come to: none is under way, the chip has been   *)
(* selected, or a command has been given, and so many bytes of data more   *)
(* belong to it.                                                           *)
(***************************************************************************)
Resting == -2
Selected == -1
Place == {Resting, Selected} \cup Nat

Now == IF csn THEN Resting ELSE IF command = NoCommand THEN Selected
       ELSE Capacity(command) - count

\* What an item of the wire does there: CSN does not fall within a transaction.
Moves(from, item, to) ==
  \/ item = High /\ to = Resting
  \/ item = Low /\ from \in {Resting, Selected} /\ to = Selected
  \/ item[1] = "command" /\ from = Selected /\ to = Capacity(item[2])
  \/ item[1] \in {"data", "read"} /\ from \in Nat \ {0} /\ to = from - 1
  \/ item[1] = "write_back" /\ from \in {Resting, Selected} /\ to = Resting

Moving == {m \in Place \X Item \X Place : Moves(m[1], m[2], m[3])}

\* A wire leads from one end to the other by such steps, one for each item.
Path(w, steps, from, to) ==
  \E at : /\ at[0] = from /\ at[Len(w)] = to
          /\ \A i \in 1 .. Len(w) : <<at[i - 1], w[i], at[i]>> \in steps

\* What a wire leads to, item by item.
Leads(w, from, to) == Path(w, Moving, from, to)

\* A byte is read before it is written back.
ReadsFirst(w) ==
  \A i \in 1 .. Len(w) : w[i][1] = "write_back" => \E k \in 1 .. i - 1 : w[k] = Nop

(***************************************************************************)
(* The rest of a function fits the state of the decoder, whatever it is,   *)
(* and ends as the function began; after a reset there is no rest.         *)
(***************************************************************************)
WireFits ==
  /\ call.fn = "reset" => wire = << >>
  /\ call.fn # "reset" => Leads(wire, Now, Resting) \/ Leads(wire, Now, Selected)
  /\ buffer # << >> \/ ReadsFirst(wire)

\* A command is carried out only while the chip is selected.
DecoderInv ==
  IF command = NoCommand THEN count = 0 ELSE ~ csn /\ count <= Capacity(command)

Inv == TypeOK /\ DecoderInv /\ WireFits
-----------------------------------------------------------------------------
(* What a wire consists of.                                                *)

\* The kinds of items, and what they carry.
LEMMA Items ==
  ASSUME NEW item \in Item
  PROVE  /\ item[1] \in {"csn", "command", "data", "read", "write_back"}
         /\ item[1] = "csn" => item[2] \in BOOLEAN
         /\ item[1] = "command" => item[2] \in 0 .. 255
         /\ item[1] = "data" => item[2] \in Byte
         /\ item[1] = "write_back" =>
              item[2] \in Register /\ item[3] \in Byte /\ item[4] \in Byte
         /\ item[1] = "read" <=> item = Nop
BY DEF Item, Nop

\* The items that the functions put on the wire, and their kinds.
LEMMA NewItems ==
  /\ High \in Item /\ Low \in Item /\ Nop \in Item
  /\ High[1] = "csn" /\ High[2] = TRUE /\ Low[1] = "csn" /\ Low[2] = FALSE
  /\ Nop[1] = "read"
  /\ \A number \in 0 .. 255 : /\ Command(number) \in Item
                              /\ Command(number)[1] = "command"
                              /\ Command(number)[2] = number
  /\ \A byte \in Byte : Data(byte) \in Item /\ Data(byte)[1] = "data" /\ Data(byte)[2] = byte
  /\ \A r \in Register, ones \in Byte, zeros \in Byte :
       WriteBack(r, ones, zeros) \in Item /\ WriteBack(r, ones, zeros)[1] = "write_back"
BY DEF High, Low, Nop, Command, Data, WriteBack, Item

\* The wire after its first item has been carried out.
LEMMA Rest ==
  ASSUME TypeOK, wire # << >>
  PROVE  /\ Len(wire) \in Nat \ {0} /\ DOMAIN wire = 1 .. Len(wire)
         /\ Head(wire) = wire[1] /\ wire[1] \in Item
         /\ Tail(wire) \in Seq(Item) /\ Len(Tail(wire)) = Len(wire) - 1
         /\ DOMAIN Tail(wire) = 1 .. Len(wire) - 1
         /\ \A i \in 1 .. Len(wire) - 1 : Tail(wire)[i] = wire[i + 1]
<1>1. wire \in Seq(Item)
  BY DEF TypeOK
<1> QED
  BY <1>1
-----------------------------------------------------------------------------
(* What a wire leads to.                                                   *)

\* A path is a first step, and the path of the rest.
LEMMA PathFirst ==
  ASSUME NEW w \in Seq(Item), w # << >>, NEW steps, NEW from, NEW to, Path(w, steps, from, to)
  PROVE  \E next : <<from, w[1], next>> \in steps /\ Path(Tail(w), steps, next, to)
<1>1. PICK at : /\ at[0] = from /\ at[Len(w)] = to
                /\ \A i \in 1 .. Len(w) : <<at[i - 1], w[i], at[i]>> \in steps
  BY DEF Path
<1>2. /\ Len(w) \in Nat \ {0} /\ Len(Tail(w)) = Len(w) - 1
      /\ \A i \in 1 .. Len(w) - 1 : Tail(w)[i] = w[i + 1]
  OBVIOUS
<1> DEFINE rest == [i \in 0 .. Len(w) - 1 |-> at[i + 1]]
<1>3. rest[0] = at[1] /\ rest[Len(Tail(w))] = to
  BY <1>1, <1>2
<1>4. ASSUME NEW i \in 1 .. Len(Tail(w))
      PROVE  <<rest[i - 1], Tail(w)[i], rest[i]>> \in steps
  <2>1. i + 1 \in 1 .. Len(w) /\ (i + 1) - 1 = i /\ i \in 1 .. Len(w) - 1
    BY <1>2
  <2>2. rest[i - 1] = at[i] /\ rest[i] = at[i + 1] /\ Tail(w)[i] = w[i + 1]
    BY <1>2, <2>1
  <2>3. <<at[(i + 1) - 1], w[i + 1], at[i + 1]>> \in steps
    BY <1>1, <2>1
  <2> QED
    BY <2>1, <2>2, <2>3
<1> HIDE DEF rest
<1>5. Path(Tail(w), steps, at[1], to)
  BY <1>3, <1>4 DEF Path
<1>6. <<from, w[1], at[1]>> \in steps
  <2>1. 1 \in 1 .. Len(w) /\ 1 - 1 = 0
    BY <1>2
  <2> QED
    BY <1>1, <2>1
<1> QED
  BY <1>5, <1>6

\* A path of no steps stays where it is.
LEMMA NoPath ==
  ASSUME NEW steps, NEW from, NEW to
  PROVE  Path(<< >>, steps, from, to) <=> from = to
<1>1. ASSUME from = to PROVE Path(<< >>, steps, from, to)
  <2> DEFINE at == [i \in {0} |-> from]
  <2>1. at[0] = from /\ Len(<< >>) = 0
    OBVIOUS
  <2>2. ~ \E i \in 1 .. 0 : TRUE
    OBVIOUS
  <2> HIDE DEF at
  <2> QED
    BY <1>1, <2>1, <2>2 DEF Path
<1>2. ASSUME Path(<< >>, steps, from, to) PROVE from = to
  BY <1>2 DEF Path
<1> QED
  BY <1>1, <1>2

\* A path of one step.
LEMMA OneStep ==
  ASSUME NEW steps, NEW from, NEW to, NEW item, <<from, item, to>> \in steps
  PROVE  Path(<<item>>, steps, from, to)
<1> DEFINE at == [i \in {0, 1} |-> IF i = 0 THEN from ELSE to]
<1>1. at[0] = from /\ at[1] = to /\ Len(<<item>>) = 1 /\ <<item>>[1] = item
  OBVIOUS
<1>2. \A i \in 1 .. 1 : i = 1 /\ i - 1 = 0
  OBVIOUS
<1> HIDE DEF at
<1> QED
  BY <1>1, <1>2 DEF Path

\* One path after another.
LEMMA PathOn ==
  ASSUME NEW s \in Seq(Item), NEW t \in Seq(Item), NEW steps, NEW from, NEW middle, NEW to,
         Path(s, steps, from, middle), Path(t, steps, middle, to)
  PROVE  Path(s \o t, steps, from, to)
<1>1. PICK p : /\ p[0] = from /\ p[Len(s)] = middle
               /\ \A i \in 1 .. Len(s) : <<p[i - 1], s[i], p[i]>> \in steps
  BY DEF Path
<1>2. PICK q : /\ q[0] = middle /\ q[Len(t)] = to
               /\ \A i \in 1 .. Len(t) : <<q[i - 1], t[i], q[i]>> \in steps
  BY DEF Path
<1>3. /\ Len(s) \in Nat /\ Len(t) \in Nat /\ Len(s \o t) = Len(s) + Len(t)
      /\ \A i \in 1 .. Len(s) : (s \o t)[i] = s[i]
      /\ \A i \in 1 .. Len(t) : (s \o t)[Len(s) + i] = t[i]
  OBVIOUS
<1> DEFINE at == [i \in 0 .. Len(s) + Len(t) |->
                    IF i <= Len(s) THEN p[i] ELSE q[i - Len(s)]]
<1>4. /\ \A i \in 0 .. Len(s) : at[i] = p[i]
      /\ \A i \in 0 .. Len(t) : at[Len(s) + i] = q[i]
  BY <1>1, <1>2, <1>3
<1> HIDE DEF at
<1>5. at[0] = from /\ at[Len(s \o t)] = to
  BY <1>1, <1>2, <1>3, <1>4
<1>6. ASSUME NEW i \in 1 .. Len(s \o t)
      PROVE  <<at[i - 1], (s \o t)[i], at[i]>> \in steps
  <2>1. CASE i <= Len(s)
    <3>1. i \in 1 .. Len(s) /\ i - 1 \in 0 .. Len(s) /\ i \in 0 .. Len(s)
      BY <1>3, <2>1
    <3> QED
      BY <1>1, <1>3, <1>4, <3>1
  <2>2. CASE i > Len(s)
    <3>1. PICK j \in 1 .. Len(t) : i = Len(s) + j
      <4>1. i - Len(s) \in 1 .. Len(t) /\ i = Len(s) + (i - Len(s))
        BY <1>3, <2>2
      <4> QED
        BY <4>1
    <3>2. j - 1 \in 0 .. Len(t) /\ j \in 0 .. Len(t) /\ i - 1 = Len(s) + (j - 1)
      BY <1>3, <3>1
    <3>3. /\ at[i - 1] = q[j - 1] /\ at[i] = q[j] /\ (s \o t)[i] = t[j]
          /\ <<q[j - 1], t[j], q[j]>> \in steps
      BY <1>2, <1>3, <1>4, <3>1, <3>2
    <3> QED
      BY <3>3
  <2>3. i <= Len(s) \/ i > Len(s)
    BY <1>3
  <2> QED
    BY <2>1, <2>2, <2>3, Zenon
<1> QED
  BY <1>5, <1>6 DEF Path

\* A wire leads to where its rest leads from where its first item leads.
LEMMA FirstItem ==
  ASSUME NEW w \in Seq(Item), w # << >>, NEW from, NEW to, Leads(w, from, to)
  PROVE  \E next \in Place : Moves(from, w[1], next) /\ Leads(Tail(w), next, to)
<1>1. PICK next : <<from, w[1], next>> \in Moving /\ Path(Tail(w), Moving, next, to)
  BY PathFirst DEF Leads
<1>2. next \in Place /\ Moves(from, w[1], next)
  BY <1>1 DEF Moving
<1> QED
  BY <1>1, <1>2 DEF Leads

\* A wire of one item leads where the item moves.
LEMMA OneItem ==
  ASSUME NEW from \in Place, NEW to \in Place, NEW item \in Item, Moves(from, item, to)
  PROVE  Leads(<<item>>, from, to)
<1>1. <<from, item, to>> \in Moving
  BY DEF Moving
<1> QED
  BY <1>1, OneStep DEF Leads

\* One after the other, two wires lead to where the second does.
LEMMA LeadsOn ==
  ASSUME NEW s \in Seq(Item), NEW t \in Seq(Item), NEW from, NEW middle, NEW to,
         Leads(s, from, middle), Leads(t, middle, to)
  PROVE  Leads(s \o t, from, to)
BY PathOn DEF Leads

\* Bytes of data lead on while the command has place for them.
LEMMA DataLeads ==
  ASSUME NEW data \in Seq(Item), NEW left \in Nat, Len(data) <= left,
         \A i \in 1 .. Len(data) : data[i][1] \in {"data", "read"}
  PROVE  Leads(data, left, left - Len(data))
<1> DEFINE place == [i \in 0 .. Len(data) |-> left - i]
<1>1. Len(data) \in Nat /\ \A i \in 1 .. Len(data) : data[i] \in Item
  OBVIOUS
<1>2. place[0] = left /\ place[Len(data)] = left - Len(data)
  BY <1>1
<1>3. ASSUME NEW i \in 1 .. Len(data)
      PROVE  <<place[i - 1], data[i], place[i]>> \in Moving
  <2>1. place[i - 1] = left - (i - 1) /\ place[i] = left - i
    BY <1>1
  <2>2. left - (i - 1) \in Nat \ {0} /\ left - i \in Nat /\ left - i = (left - (i - 1)) - 1
    BY <1>1
  <2>3. Moves(place[i - 1], data[i], place[i])
    BY <2>1, <2>2 DEF Moves
  <2>4. place[i - 1] \in Place /\ data[i] \in Item /\ place[i] \in Place
    BY <1>1, <2>1, <2>2 DEF Place
  <2> HIDE DEF place
  <2> QED
    BY <2>3, <2>4 DEF Moving
<1> HIDE DEF place
<1> QED
  BY <1>2, <1>3 DEF Leads, Path

-----------------------------------------------------------------------------
(* The functions.                                                          *)

\* A function: what it does on the wire, from between two transactions to there.
Function(w) ==
  /\ w \in Seq(Item) /\ ReadsFirst(w)
  /\ \A from \in {Resting, Selected} : Leads(w, from, Resting)

\* The bytes of data in a transaction.
Bytes(data) ==
  data \in Seq(Item) /\ \A i \in 1 .. Len(data) : data[i][1] \in {"data", "read"}

\* A command has place for some number of bytes.
LEMMA PlacesAreNumbers ==
  /\ Resting \in Place /\ Selected \in Place /\ Nat \subseteq Place
  /\ \A number \in 0 .. 255 : Capacity(number) \in Nat
<1>1. ASSUME NEW number \in 0 .. 255 PROVE Capacity(number) \in Nat
  BY PayloadSizeAssumption DEF Capacity, Width
<1> QED
  BY <1>1 DEF Place

\* What is read before it is written back stays so in a longer wire.
LEMMA ReadsOn ==
  ASSUME NEW s \in Seq(Item), NEW t \in Seq(Item), ReadsFirst(s), ReadsFirst(t)
  PROVE  ReadsFirst(s \o t)
<1>1. /\ Len(s) \in Nat /\ Len(t) \in Nat /\ Len(s \o t) = Len(s) + Len(t)
      /\ \A i \in 1 .. Len(s) : (s \o t)[i] = s[i]
      /\ \A i \in 1 .. Len(t) : (s \o t)[Len(s) + i] = t[i]
  OBVIOUS
<1> SUFFICES ASSUME NEW i \in 1 .. Len(s \o t), (s \o t)[i][1] = "write_back"
             PROVE  \E k \in 1 .. i - 1 : (s \o t)[k] = Nop
  BY DEF ReadsFirst
<1>2. CASE i <= Len(s)
  <2>1. PICK k \in 1 .. i - 1 : s[k] = Nop
    BY <1>1, <1>2 DEF ReadsFirst
  <2>2. (s \o t)[k] = Nop
    BY <1>1, <1>2, <2>1
  <2> QED
    BY <2>2
<1>3. CASE i > Len(s)
  <2>1. PICK j \in 1 .. Len(t) : i = Len(s) + j
    <3>1. i - Len(s) \in 1 .. Len(t) /\ i = Len(s) + (i - Len(s))
      BY <1>1, <1>3
    <3> QED
      BY <3>1
  <2>2. PICK k \in 1 .. j - 1 : t[k] = Nop
    BY <1>1, <2>1 DEF ReadsFirst
  <2>3. Len(s) + k \in 1 .. i - 1 /\ (s \o t)[Len(s) + k] = Nop
    BY <1>1, <2>1, <2>2
  <2> QED
    BY <2>3
<1> QED
  BY <1>1, <1>2, <1>3

\* Two items, and one after the other.
LEMMA TwoItems ==
  ASSUME NEW s \in Item, NEW t \in Item
  PROVE  <<s>> \in Seq(Item) /\ <<t>> \in Seq(Item) /\ <<s, t>> = <<s>> \o <<t>>
<1> HIDE DEF Item
<1>1. /\ <<s>> \in Seq(Item) /\ Len(<<s>>) = 1 /\ <<s>>[1] = s
      /\ <<t>> \in Seq(Item) /\ Len(<<t>>) = 1 /\ <<t>>[1] = t
  OBVIOUS
<1>2. /\ <<s>> \o <<t>> \in Seq(Item) /\ Len(<<s>> \o <<t>>) = 2
      /\ (<<s>> \o <<t>>)[1] = s /\ (<<s>> \o <<t>>)[2] = t
  BY <1>1
<1>3. <<s, t>> \in Seq(Item) /\ Len(<<s, t>>) = 2 /\ <<s, t>>[1] = s /\ <<s, t>>[2] = t
  OBVIOUS
<1>4. \A i \in 1 .. 2 : <<s, t>>[i] = (<<s>> \o <<t>>)[i]
  BY <1>2, <1>3
<1> QED
  BY <1>1, <1>2, <1>3, <1>4, SeqEqual

\* A transaction of a command and no more data than it has place for.
LEMMA TransactionIsFunction ==
  ASSUME NEW number \in 0 .. 255, NEW data, Bytes(data), Len(data) <= Capacity(number)
  PROVE  Function(Transaction(number, data))
<1> DEFINE head == <<Low>> \o <<Command(number)>>
           most == Capacity(number)
<1>1. data \in Seq(Item) /\ Len(data) \in Nat
  BY DEF Bytes
<1>2. most \in Nat /\ most \in Place /\ Len(data) <= most
  BY PlacesAreNumbers
<1>3. /\ Low \in Item /\ High \in Item /\ Command(number) \in Item
      /\ Command(number)[1] = "command" /\ Command(number)[2] = number
      /\ Low[1] = "csn" /\ High[1] = "csn"
  BY NewItems
<1>4. /\ <<Low>> \in Seq(Item) /\ <<High>> \in Seq(Item) /\ <<Command(number)>> \in Seq(Item)
      /\ <<Low, Command(number)>> = head
  BY <1>3, TwoItems, Zenon
<1> HIDE DEF most
<1>5. head \in Seq(Item) /\ data \o <<High>> \in Seq(Item)
  BY <1>1, <1>4
<1> HIDE DEF head
<1>6. /\ Transaction(number, data) = head \o (data \o <<High>>)
      /\ Transaction(number, data) \in Seq(Item)
  <2>1. (head \o data) \o <<High>> = head \o (data \o <<High>>)
    BY <1>1, <1>4, <1>5
  <2>2. Transaction(number, data) = (head \o data) \o <<High>>
    BY <1>4, Zenon DEF Transaction
  <2>3. head \o (data \o <<High>>) \in Seq(Item)
    BY <1>5
  <2> QED
    BY <2>1, <2>2, <2>3
<1>7. ASSUME NEW from \in {Resting, Selected}
      PROVE  Leads(head, from, most)
  <2>1. Moves(from, Low, Selected) /\ Moves(Selected, Command(number), most)
    BY <1>3 DEF Moves, most
  <2>2. Leads(<<Low>>, from, Selected) /\ Leads(<<Command(number)>>, Selected, most)
    BY <1>2, <1>3, <2>1, OneItem, PlacesAreNumbers
  <2> QED
    BY <1>4, <2>2, LeadsOn DEF head
<1>8. Leads(data \o <<High>>, most, Resting)
  <2>1. Leads(data, most, most - Len(data))
    BY <1>1, <1>2, DataLeads DEF Bytes
  <2>2. most - Len(data) \in Place
    BY <1>1, <1>2 DEF Place
  <2>3. Moves(most - Len(data), High, Resting)
    BY DEF Moves
  <2>4. Leads(<<High>>, most - Len(data), Resting)
    BY <1>3, <2>2, <2>3, OneItem, PlacesAreNumbers
  <2> QED
    BY <1>1, <1>4, <2>1, <2>4, LeadsOn
<1>9. ReadsFirst(Transaction(number, data))
  <2>1. ReadsFirst(<<High>>) /\ ReadsFirst(data)
    BY <1>1, <1>3 DEF ReadsFirst, Bytes
  <2>2. ReadsFirst(head)
    <3>1. ReadsFirst(<<Low>>) /\ ReadsFirst(<<Command(number)>>)
      BY <1>3 DEF ReadsFirst
    <3> QED
      BY <1>4, <3>1, ReadsOn DEF head
  <2>3. ReadsFirst(data \o <<High>>)
    BY <1>1, <1>4, <2>1, ReadsOn
  <2> QED
    BY <1>5, <1>6, <2>2, <2>3, ReadsOn
<1>10. ASSUME NEW from \in {Resting, Selected}
       PROVE  Leads(Transaction(number, data), from, Resting)
  BY <1>5, <1>6, <1>7, <1>8, LeadsOn
<1> QED
  BY <1>6, <1>9, <1>10 DEF Function

\* A function after a function.
LEMMA FunctionsOn ==
  ASSUME NEW s, NEW t, Function(s), Function(t)
  PROVE  Function(s \o t)
<1>1. s \in Seq(Item) /\ t \in Seq(Item) /\ s \o t \in Seq(Item)
  BY DEF Function
<1>2. ReadsFirst(s \o t)
  BY <1>1, ReadsOn DEF Function
<1>3. ASSUME NEW from \in {Resting, Selected} PROVE Leads(s \o t, from, Resting)
  BY <1>1, LeadsOn DEF Function
<1> QED
  BY <1>1, <1>2, <1>3 DEF Function

\* A register is read and written by its own number.
LEMMA RegisterCommands ==
  ASSUME NEW r \in Register
  PROVE  /\ r % 32 \in 0 .. 255 /\ Capacity(r % 32) = Width(r)
         /\ WriteCommand(r) \in 0 .. 255 /\ Capacity(WriteCommand(r)) = Width(r)
         /\ Width(r) \in {1, 5}
<1>1. r \in 0 .. 31 /\ r % 32 = r /\ (32 + r) % 32 = r
  BY DEF Register
<1>2. WriteCommand(r) = 32 + r
  BY <1>1 DEF WriteCommand, NRF24_CMD_W_REGISTER
<1>3. Capacity(r) = Width(r) /\ Capacity(32 + r) = Width(r)
  <2>1. /\ Reads(r) /\ Addressed(r) = r
        /\ Writes(32 + r) /\ Addressed(32 + r) = r
    BY <1>1 DEF Reads, Writes, Addressed
  <2> QED
    BY <1>1, <2>1 DEF Capacity, NRF24_CMD_W_TX_PAYLOAD, NRF24_CMD_R_RX_PAYLOAD
<1> QED
  BY <1>1, <1>2, <1>3 DEF Width

\* Reading no more than a register holds is a function.
LEMMA ReadIsFunction ==
  ASSUME NEW r \in Register, NEW n \in 0 .. Width(r)
  PROVE  Function(nrf24_read_multi_byte_register(r, n))
<1> DEFINE data == [i \in 1 .. n |-> Nop]
<1>1. n \in Nat
  BY RegisterCommands
<1>2. data \in Seq(Item) /\ Len(data) = n /\ \A i \in 1 .. n : data[i] = Nop
  BY <1>1, NewItems
<1> HIDE DEF data
<1>3. Bytes(data)
  BY <1>2, NewItems DEF Bytes
<1>4. Function(Transaction(r % 32, data))
  <2>1. r % 32 \in 0 .. 255 /\ Len(data) <= Capacity(r % 32)
    BY <1>2, RegisterCommands
  <2> QED
    BY <1>3, <2>1, TransactionIsFunction
<1> QED
  BY <1>4 DEF nrf24_read_multi_byte_register, data

\* And so is writing no more than it holds.
LEMMA WriteIsFunction ==
  ASSUME NEW r \in Register, NEW bytes \in Seq(Byte), Len(bytes) <= Width(r)
  PROVE  Function(nrf24_write_multi_byte_register(r, bytes))
<1> DEFINE data == [i \in DOMAIN bytes |-> Data(bytes[i])]
<1>1. Len(bytes) \in Nat /\ DOMAIN bytes = 1 .. Len(bytes)
      /\ \A i \in 1 .. Len(bytes) : bytes[i] \in Byte
  OBVIOUS
<1>2. \A i \in 1 .. Len(bytes) : Data(bytes[i]) \in Item /\ Data(bytes[i])[1] = "data"
  BY <1>1, NewItems
<1>3. data \in Seq(Item) /\ Len(data) = Len(bytes)
      /\ \A i \in 1 .. Len(bytes) : data[i] = Data(bytes[i])
  BY <1>1, <1>2
<1> HIDE DEF data
<1>4. Bytes(data)
  BY <1>2, <1>3 DEF Bytes
<1>5. Function(Transaction(WriteCommand(r), data))
  <2>1. WriteCommand(r) \in 0 .. 255 /\ Len(data) <= Capacity(WriteCommand(r))
    BY <1>3, RegisterCommands
  <2> QED
    BY <1>4, <2>1, TransactionIsFunction
<1> QED
  BY <1>5 DEF nrf24_write_multi_byte_register, data

\* The same for a register of one byte, or for the first byte of another.
LEMMA OneByte ==
  ASSUME NEW r \in Register
  PROVE  /\ Function(nrf24_read_register(r))
         /\ \A value \in Byte : Function(nrf24_write_register(r, value))
<1>1. /\ r % 32 \in 0 .. 255 /\ Capacity(r % 32) >= 1
      /\ WriteCommand(r) \in 0 .. 255 /\ Capacity(WriteCommand(r)) >= 1
  BY RegisterCommands
<1>2. Bytes(<<Nop>>) /\ Len(<<Nop>>) = 1
  BY NewItems DEF Bytes
<1>3. ASSUME NEW value \in Byte
      PROVE  Bytes(<<Data(value)>>) /\ Len(<<Data(value)>>) = 1
  BY NewItems DEF Bytes
<1>4. Function(nrf24_read_register(r))
  BY <1>1, <1>2, TransactionIsFunction DEF nrf24_read_register
<1>5. ASSUME NEW value \in Byte PROVE Function(nrf24_write_register(r, value))
  BY <1>1, <1>3, TransactionIsFunction DEF nrf24_write_register
<1> QED
  BY <1>4, <1>5

\* A wire, and one item more.
LEMMA OneMoreItem ==
  ASSUME NEW s \in Seq(Item), NEW item \in Item
  PROVE  /\ s \o <<item>> \in Seq(Item) /\ Len(s \o <<item>>) = Len(s) + 1
         /\ \A i \in 1 .. Len(s) : (s \o <<item>>)[i] = s[i]
         /\ (s \o <<item>>)[Len(s) + 1] = item
<1>1. <<item>> \in Seq(Item) /\ Len(<<item>>) = 1 /\ <<item>>[1] = item
  OBVIOUS
<1> HIDE DEF Item
<1> QED
  BY <1>1

\* A register is read, changed and written back.
LEMMA ReadModifyWrite ==
  ASSUME NEW r \in Register, NEW ones \in Byte, NEW zeros \in Byte
  PROVE  Function(nrf24_read_register(r) \o <<WriteBack(r, ones, zeros)>>)
<1> DEFINE read == nrf24_read_register(r)
           back == WriteBack(r, ones, zeros)
<1>1. back \in Item /\ back[1] = "write_back"
  BY NewItems
<1>2. Function(read)
  BY OneByte
<1>3. /\ Len(read) = 4 /\ read[3] = Nop
      /\ \A i \in 1 .. 4 : read[i][1] # "write_back"
  <2> DEFINE head == <<Low>> \o <<Command(r % 32)>>
  <2>1. /\ Low \in Item /\ High \in Item /\ Nop \in Item /\ Command(r % 32) \in Item
        /\ Low[1] # "write_back" /\ High[1] # "write_back"
        /\ Nop[1] # "write_back" /\ Command(r % 32)[1] # "write_back"
    BY NewItems, RegisterCommands
  <2>2. <<Low>> \in Seq(Item) /\ Len(<<Low>>) = 1 /\ <<Low>>[1] = Low
        /\ <<Low, Command(r % 32)>> = head
    BY <2>1, TwoItems
  <2>3. read = (head \o <<Nop>>) \o <<High>>
    BY <2>2, Zenon DEF nrf24_read_register, Transaction
  <2>4. head \in Seq(Item) /\ Len(head) = 2 /\ head[1] = Low /\ head[2] = Command(r % 32)
    BY <2>1, <2>2, OneMoreItem
  <2> HIDE DEF head, read
  <2>5. /\ head \o <<Nop>> \in Seq(Item) /\ Len(head \o <<Nop>>) = 3
        /\ \A i \in 1 .. 2 : (head \o <<Nop>>)[i] = head[i]
        /\ (head \o <<Nop>>)[3] = Nop
    <3>1. /\ head \o <<Nop>> \in Seq(Item) /\ Len(head \o <<Nop>>) = Len(head) + 1
          /\ \A i \in 1 .. Len(head) : (head \o <<Nop>>)[i] = head[i]
          /\ (head \o <<Nop>>)[Len(head) + 1] = Nop
      BY <2>1, <2>4, OneMoreItem, Zenon
    <3>2. Len(head) + 1 = 3
      BY <2>4
    <3> QED
      BY <2>4, <3>1, <3>2, Zenon
  <2>6. /\ Len(read) = 4 /\ read[4] = High
        /\ \A i \in 1 .. 3 : read[i] = (head \o <<Nop>>)[i]
    BY <2>1, <2>3, <2>5, OneMoreItem
  <2> QED
    BY <2>1, <2>4, <2>5, <2>6
<1> HIDE DEF read, back
<1>4. read \in Seq(Item) /\ <<back>> \in Seq(Item) /\ read \o <<back>> \in Seq(Item)
  BY <1>1, <1>2 DEF Function
<1>5. ASSUME NEW from \in {Resting, Selected}
      PROVE  Leads(read \o <<back>>, from, Resting)
  <2>1. Leads(<<back>>, Resting, Resting)
    <3>1. Moves(Resting, back, Resting)
      BY <1>1 DEF Moves
    <3> QED
      BY <1>1, <3>1, OneItem, PlacesAreNumbers
  <2> QED
    BY <1>2, <1>4, <2>1, LeadsOn DEF Function
<1>6. ReadsFirst(read \o <<back>>)
  <2>1. /\ Len(read \o <<back>>) = 5
        /\ \A i \in 1 .. 4 : (read \o <<back>>)[i] = read[i]
    <3>1. /\ Len(read \o <<back>>) = Len(read) + 1
          /\ \A i \in 1 .. Len(read) : (read \o <<back>>)[i] = read[i]
      BY <1>1, <1>4, OneMoreItem, Zenon
    <3>2. Len(read) = 4 /\ Len(read) + 1 = 5
      BY <1>3
    <3> QED
      BY <3>1, <3>2, Zenon
  <2>2. \A i \in 1 .. 5 : (read \o <<back>>)[i][1] = "write_back" => i = 5
    BY <1>3, <2>1
  <2>3. 3 \in 1 .. 5 - 1 /\ (read \o <<back>>)[3] = Nop
    BY <1>3, <2>1
  <2> QED
    BY <2>1, <2>2, <2>3 DEF ReadsFirst
<1>7. Function(read \o <<back>>)
  BY <1>4, <1>5, <1>6 DEF Function
<1> QED
  BY <1>7 DEF read, back

-----------------------------------------------------------------------------
(* Every function of the driver.                                           *)

\* The fields of a union are bits of a byte.
LEMMA FieldsAreBits ==
  ASSUME NEW fields
  PROVE  Bits(nrf24_config_t, fields) \in Byte /\ Bits(nrf24_status_t, fields) \in Byte
<1>1. DOMAIN nrf24_config_t = 1 .. 8 /\ DOMAIN nrf24_status_t = 1 .. 8
  BY DEF nrf24_config_t, nrf24_status_t
<1>2. \A i \in 1 .. 8 : i - 1 \in 0 .. 7
  OBVIOUS
<1> QED
  BY <1>1, <1>2 DEF Bits, Byte

\* What is passed is a sequence of bytes, of the length that is asked for.
LEMMA PassedBytes ==
  ASSUME NEW n \in Nat
  PROVE  Passed(n) \in Seq(Byte) /\ Len(Passed(n)) = n
<1>1. \A i \in 1 .. n : {i % 8} \in Byte
  BY DEF Byte
<1> QED
  BY <1>1 DEF Passed

\* An address is not longer than its register.
LEMMA AddressFits ==
  ASSUME NEW pipe \in 0 .. 5, NEW n \in 0 .. 255
  PROVE  /\ NRF24_REG_RX_ADDR_P0 + pipe \in Register /\ NRF24_REG_RX_PW_P0 + pipe \in Register
         /\ AddressLength(pipe, n) \in 0 .. Width(NRF24_REG_RX_ADDR_P0 + pipe)
         /\ AddressLength(pipe, n) \in Nat
<1>1. AddressLength(pipe, n) \in 0 .. (IF pipe >= 2 THEN 1 ELSE 5)
  BY DEF AddressLength
<1>2. Width(10 + pipe) = (IF pipe >= 2 THEN 1 ELSE 5)
  BY DEF Width, NRF24_REG_RX_ADDR_P0, NRF24_REG_TX_ADDR
<1>3. 10 + pipe \in Register /\ 17 + pipe \in Register
  BY DEF Register
<1> QED
  BY <1>1, <1>2, <1>3 DEF NRF24_REG_RX_ADDR_P0, NRF24_REG_RX_PW_P0

\* Nor is the one that is sent to.
LEMMA TargetAddressFits ==
  ASSUME NEW n \in 0 .. 255
  PROVE  /\ NRF24_REG_TX_ADDR \in Register
         /\ AddressLength(0, n) \in 0 .. Width(NRF24_REG_TX_ADDR)
         /\ AddressLength(0, n) \in Nat
<1>1. AddressLength(0, n) \in 0 .. 5
  BY DEF AddressLength
<1>2. NRF24_REG_TX_ADDR \in Register /\ Width(NRF24_REG_TX_ADDR) = 5
  BY DEF Width, Register, NRF24_REG_TX_ADDR
<1> QED
  BY <1>1, <1>2

\* Hence the functions that set and get an address.
LEMMA AddressesAreFunctions ==
  ASSUME NEW n \in 0 .. 255
  PROVE  /\ \A pipe \in 0 .. 5 : /\ Function(nrf24_set_rx_address(pipe, n))
                                 /\ Function(nrf24_get_rx_address(pipe, n))
         /\ Function(nrf24_set_tx_address(n)) /\ Function(nrf24_get_tx_address(n))
<1>1. ASSUME NEW pipe \in 0 .. 5
      PROVE  /\ Function(nrf24_set_rx_address(pipe, n))
             /\ Function(nrf24_get_rx_address(pipe, n))
  <2>1. /\ NRF24_REG_RX_ADDR_P0 + pipe \in Register
        /\ AddressLength(pipe, n) \in 0 .. Width(NRF24_REG_RX_ADDR_P0 + pipe)
        /\ AddressLength(pipe, n) \in Nat /\ ~ (pipe > 5)
    BY AddressFits
  <2>2. /\ Passed(AddressLength(pipe, n)) \in Seq(Byte)
        /\ Len(Passed(AddressLength(pipe, n))) <= Width(NRF24_REG_RX_ADDR_P0 + pipe)
    BY <2>1, PassedBytes
  <2> QED
    BY <2>1, <2>2, WriteIsFunction, ReadIsFunction
       DEF nrf24_set_rx_address, nrf24_get_rx_address
<1>2. Function(nrf24_set_tx_address(n)) /\ Function(nrf24_get_tx_address(n))
  <2>1. /\ NRF24_REG_TX_ADDR \in Register
        /\ AddressLength(0, n) \in 0 .. Width(NRF24_REG_TX_ADDR)
        /\ AddressLength(0, n) \in Nat
    BY TargetAddressFits
  <2>2. /\ Passed(AddressLength(0, n)) \in Seq(Byte)
        /\ Len(Passed(AddressLength(0, n))) <= Width(NRF24_REG_TX_ADDR)
    BY <2>1, PassedBytes
  <2> QED
    BY <2>1, <2>2, WriteIsFunction, ReadIsFunction
       DEF nrf24_set_tx_address, nrf24_get_tx_address
<1> QED
  BY <1>1, <1>2

\* A payload is not longer than the chip's.
LEMMA PayloadsAreFunctions ==
  ASSUME NEW n \in 0 .. 255
  PROVE  Function(nrf24_write_tx_payload(n)) /\ Function(nrf24_read_rx_payload(n))
<1> DEFINE length == PayloadLength(n)
           written == [i \in 1 .. length |-> Data({i % 8})]
           read == [i \in 1 .. length |-> Nop]
<1>1. length \in Nat /\ length <= PayloadSize
  BY PayloadSizeAssumption DEF PayloadLength
<1>2. /\ NRF24_CMD_W_TX_PAYLOAD \in 0 .. 255 /\ NRF24_CMD_R_RX_PAYLOAD \in 0 .. 255
      /\ length <= Capacity(NRF24_CMD_W_TX_PAYLOAD)
      /\ length <= Capacity(NRF24_CMD_R_RX_PAYLOAD)
  <2>1. ~ Reads(160) /\ ~ Writes(160) /\ ~ Reads(97) /\ ~ Writes(97)
    BY DEF Reads, Writes
  <2> QED
    BY <1>1, <2>1 DEF Capacity, NRF24_CMD_W_TX_PAYLOAD, NRF24_CMD_R_RX_PAYLOAD
<1> HIDE DEF length
<1>3. \A i \in 1 .. length : Data({i % 8}) \in Item /\ Data({i % 8})[1] = "data"
  <2>1. \A i \in 1 .. length : {i % 8} \in Byte
    BY <1>1 DEF Byte
  <2> QED
    BY <2>1, NewItems
<1>4. /\ written \in Seq(Item) /\ Len(written) = length
      /\ \A i \in 1 .. length : written[i] = Data({i % 8})
  BY <1>1, <1>3
<1>5. Nop \in Item /\ Nop[1] = "read"
  BY NewItems
<1>6. /\ read \in Seq(Item) /\ Len(read) = length
      /\ \A i \in 1 .. length : read[i] = Nop
  BY <1>1, <1>5
<1> HIDE DEF written, read
<1>7. Bytes(written)
  BY <1>3, <1>4 DEF Bytes
<1>8. Bytes(read)
  BY <1>5, <1>6 DEF Bytes
<1>9. /\ Function(Transaction(NRF24_CMD_W_TX_PAYLOAD, written))
      /\ Function(Transaction(NRF24_CMD_R_RX_PAYLOAD, read))
  BY <1>2, <1>4, <1>6, <1>7, <1>8, TransactionIsFunction
<1> QED
  BY <1>9 DEF nrf24_write_tx_payload, nrf24_read_rx_payload, written, read, length

\* A command of no data.
LEMMA CommandIsFunction ==
  ASSUME NEW number \in 0 .. 255
  PROVE  Function(nrf24_send_command(number))
<1>1. Bytes(<< >>) /\ Len(<< >>) = 0
  BY DEF Bytes
<1>2. 0 <= Capacity(number)
  BY PlacesAreNumbers
<1> QED
  BY <1>1, <1>2, TransactionIsFunction DEF nrf24_send_command

\* The functions that change bits of a register, and those made of them.
LEMMA CompoundsAreFunctions ==
  /\ Function(nrf24_clear_interrupts) /\ Function(nrf24_power_up_rx)
  /\ Function(nrf24_setup_primary_receiver)
  /\ \A n \in 0 .. 255 : Function(nrf24_transmit_data(n))
<1>1. /\ NRF24_REG_STATUS \in Register /\ NRF24_REG_CONFIG \in Register
      /\ NRF24_REG_RX_PW_P0 \in Register /\ {} \in Byte
      /\ NRF24_CMD_FLUSH_TX \in 0 .. 255
  BY DEF NRF24_REG_STATUS, NRF24_REG_CONFIG, NRF24_REG_RX_PW_P0, NRF24_CMD_FLUSH_TX,
         Register, Byte
<1>2. Function(nrf24_clear_interrupts)
  BY <1>1, FieldsAreBits, ReadModifyWrite DEF nrf24_clear_interrupts
<1>3. ASSUME NEW ones, NEW zeros PROVE Function(PowerUpAs(ones, zeros))
  BY <1>1, FieldsAreBits, ReadModifyWrite DEF PowerUpAs
<1>4. Function(nrf24_power_up_rx)
  BY <1>3 DEF nrf24_power_up_rx
<1>5. Function(nrf24_setup_primary_receiver)
  <2>1. Function(nrf24_set_rx_payload_len(0, {5}))
    <3>1. {5} \cap NRF24_RX_PW_P0_MASK \in Byte /\ NRF24_REG_RX_PW_P0 + 0 \in Register
      BY <1>1 DEF Byte, NRF24_REG_RX_PW_P0
    <3> QED
      BY <3>1, OneByte DEF nrf24_set_rx_payload_len
  <2> QED
    BY <1>4, <2>1, FunctionsOn DEF nrf24_setup_primary_receiver
<1>6. ASSUME NEW n \in 0 .. 255 PROVE Function(nrf24_transmit_data(n))
  <2>1. Function(nrf24_clear_interrupts \o PowerUpAs({"PWR_UP"}, {"PRIM_RX"}))
    BY <1>2, <1>3, FunctionsOn
  <2>2. Function(nrf24_send_command(NRF24_CMD_FLUSH_TX))
    BY <1>1, CommandIsFunction
  <2> QED
    BY <2>1, <2>2, PayloadsAreFunctions, FunctionsOn DEF nrf24_transmit_data
<1> QED
  BY <1>2, <1>4, <1>5, <1>6

\* Every call of a function is a function in this sense, or nothing at all.
LEMMA CallsAreFunctions ==
  ASSUME NEW c \in Call
  PROVE  c.fn # "reset" /\ (Steps(c) = << >> \/ Function(Steps(c)))
<1>1. CASE c \in [fn : {"set_rx_address", "get_rx_address"}, pipe : 0 .. 6, n : Lengths]
  <2>1. /\ c.fn \in {"set_rx_address", "get_rx_address"}
        /\ c.pipe \in 0 .. 6 /\ c.n \in Lengths
    BY <1>1
  <2>2. c.n \in 0 .. 255
    BY <2>1, LengthsAssumption
  <2>3. CASE c.pipe > 5
    BY <2>1, <2>3 DEF Steps, nrf24_set_rx_address, nrf24_get_rx_address
  <2>4. CASE c.pipe \in 0 .. 5
    BY <2>1, <2>2, <2>4, AddressesAreFunctions DEF Steps
  <2> QED
    BY <2>1, <2>3, <2>4
<1>2. CASE c \in [fn : {"set_tx_address", "get_tx_address", "write_tx_payload",
                        "read_rx_payload", "transmit_data"}, n : Lengths]
  <2>1. /\ c.fn \in {"set_tx_address", "get_tx_address", "write_tx_payload",
                     "read_rx_payload", "transmit_data"}
        /\ c.n \in 0 .. 255
    BY <1>2, LengthsAssumption
  <2> QED
    BY <2>1, AddressesAreFunctions, PayloadsAreFunctions, CompoundsAreFunctions DEF Steps
<1>3. CASE c \in [fn : {"set"}, r : Settable, value : Values]
           \cup [fn : {"get"}, r : Settable \cup ReadOnly]
  <2>1. c.r \in Register
    BY <1>3 DEF Settable, RadioSettings, ReadOnly, PacketSettings, LinkSettings, Register,
                NRF24_REG_RF_SETUP, NRF24_REG_RF_CH, NRF24_REG_STATUS, NRF24_REG_CONFIG
  <2>2. c.fn = "get" \/ (c.fn = "set" /\ c.value \in Byte)
    BY <1>3, ValuesAssumption DEF Byte
  <2> QED
    BY <2>1, <2>2, OneByte DEF Steps
<1>4. CASE c \in [fn : {"set_rx_payload_len"}, pipe : 0 .. 6, value : Values]
           \cup [fn : {"get_rx_payload_len"}, pipe : 0 .. 6]
  <2>1. /\ c.pipe \in 0 .. 6 /\ (c.pipe > 5 \/ NRF24_REG_RX_PW_P0 + c.pipe \in Register)
    BY <1>4 DEF Register, NRF24_REG_RX_PW_P0
  <2>2. \/ c.fn = "get_rx_payload_len"
        \/ c.fn = "set_rx_payload_len" /\ c.value \cap NRF24_RX_PW_P0_MASK \in Byte
    BY <1>4, ValuesAssumption DEF Byte
  <2> QED
    BY <2>1, <2>2, OneByte DEF Steps, nrf24_set_rx_payload_len, nrf24_get_rx_payload_len
<1>5. CASE c \in [fn : {"setup_rf"}, rate : {{}, {0}}, power : SUBSET {0, 1}, gain : {{}, {0}}]
  <2> DEFINE image == {b + 3 : b \in c.rate} \cup {b + 1 : b \in c.power} \cup c.gain
  <2>1. /\ c.fn = "setup_rf" /\ c.rate \subseteq {0}
        /\ c.power \subseteq {0, 1} /\ c.gain \subseteq {0}
    BY <1>5
  <2>2. image \in Byte
    BY <2>1 DEF Byte
  <2>3. NRF24_REG_RF_SETUP \in Register
    BY DEF NRF24_REG_RF_SETUP, Register
  <2> QED
    BY <2>1, <2>2, <2>3, OneByte DEF Steps, nrf24_setup_rf
<1>6. CASE c \in [fn : {"set_rf_channel"}, value : Values, garbage : {{}, {7}}]
  <2>1. /\ c.fn = "set_rf_channel" /\ NRF24_REG_RF_CH \in Register
        /\ (c.value \cap 0 .. 6) \cup (c.garbage \cap {7}) \in Byte
    BY <1>6, ValuesAssumption DEF Byte, NRF24_REG_RF_CH, Register
  <2> QED
    BY <2>1, OneByte DEF Steps, nrf24_set_rf_channel
<1>7. CASE c \in [fn : {"clear_interrupts", "setup_primary_receiver", "power_up_rx",
                        "flush_rx", "flush_tx"}]
  <2>1. NRF24_CMD_FLUSH_RX \in 0 .. 255 /\ NRF24_CMD_FLUSH_TX \in 0 .. 255
    BY DEF NRF24_CMD_FLUSH_RX, NRF24_CMD_FLUSH_TX
  <2>2. c.fn \in {"clear_interrupts", "setup_primary_receiver", "power_up_rx",
                  "flush_rx", "flush_tx"}
    BY <1>7
  <2> QED
    BY <2>1, <2>2, CommandIsFunction, CompoundsAreFunctions DEF Steps
<1>8. c.fn # "reset"
  BY <1>1, <1>2, <1>3, <1>4, <1>5, <1>6, <1>7 DEF Call
<1> QED
  BY <1>1, <1>2, <1>3, <1>4, <1>5, <1>6, <1>7 DEF Call
-----------------------------------------------------------------------------
(* The chip's end of the bus.                                              *)

\* Where a transaction has come to, by the decoder.
LEMMA Places ==
  ASSUME TypeOK, DecoderInv
  PROVE  /\ Now \in Place
         /\ csn <=> Now = Resting
         /\ Now = Selected <=> ~ csn /\ command = NoCommand
         /\ Now \in Nat <=> ~ csn /\ command # NoCommand
<1>1. command \in 0 .. 255 => Capacity(command) \in Nat
  BY PlacesAreNumbers
<1>2. CASE csn
  BY <1>2 DEF Now, Place, Resting, Selected
<1>3. CASE ~ csn /\ command = NoCommand
  BY <1>3 DEF Now, Place, Resting, Selected
<1>4. CASE ~ csn /\ command # NoCommand
  <2>1. Now = Capacity(command) - count
    BY <1>4 DEF Now
  <2>2. Now \in Nat
    BY <1>1, <1>4, <2>1 DEF TypeOK, DecoderInv
  <2> QED
    BY <1>4, <2>2 DEF Place, Resting, Selected
<1> QED
  BY <1>2, <1>3, <1>4

\* CSN falls or rises between two transactions, or ends one.
LEMMA CsnMoves ==
  ASSUME TypeOK, DecoderInv, NEW level \in BOOLEAN, SetCsn(level),
         level \/ Now \in {Resting, Selected}
  PROVE  (Now' = IF level THEN Resting ELSE Selected) /\ DecoderInv'
<1>1. CASE csn = level
  <2>1. UNCHANGED <<csn, command, count>>
    BY <1>1 DEF SetCsn, decoder
  <2>2. Now' = Now /\ DecoderInv'
    BY <2>1 DEF Now, DecoderInv
  <2> QED
    BY <1>1, <2>2, Places DEF Resting, Selected
<1>2. CASE csn # level
  BY <1>2 DEF SetCsn, Now, DecoderInv, TypeOK
<1> QED
  BY <1>1, <1>2

\* The first byte after that is a command.
LEMMA CommandMoves ==
  ASSUME TypeOK, DecoderInv, Now = Selected, NEW number \in 0 .. 255, TakeCommand(number)
  PROVE  Now' = Capacity(number) /\ DecoderInv'
<1>1. ~ csn /\ count = 0
  BY Places DEF DecoderInv
<1>2. csn' = csn /\ count' = 0 /\ command' = number /\ number # NoCommand
  BY <1>1 DEF TakeCommand, NoCommand
<1>3. Capacity(number) \in Nat
  BY PlacesAreNumbers
<1> QED
  BY <1>1, <1>2, <1>3 DEF Now, DecoderInv

\* Those that follow are its data.
LEMMA DataMoves ==
  ASSUME TypeOK, DecoderInv, Now \in Nat \ {0}, NEW byte, TakeData(byte)
  PROVE  Now' = Now - 1 /\ DecoderInv'
<1>1. ~ csn /\ command # NoCommand /\ command \in 0 .. 255 /\ count \in Nat
  BY Places DEF TypeOK
<1>2. Capacity(command) \in Nat /\ Now = Capacity(command) - count
  BY <1>1, PlacesAreNumbers DEF Now
<1>3. csn' = csn /\ command' = command /\ count' = count + 1
  BY DEF TakeData
<1> QED
  BY <1>1, <1>2, <1>3 DEF Now, DecoderInv

\* The chip's memory keeps its shape when the pin is set.
LEMMA CsnTypes ==
  ASSUME TypeOK, NEW level \in BOOLEAN, SetCsn(level)
  PROVE  /\ csn' \in BOOLEAN /\ command' \in {NoCommand} \cup 0 .. 255 /\ count' \in Nat
         /\ reg' = reg /\ shifted' \in Seq(Byte)
         /\ txFifo' \in Seq(Seq(Byte)) /\ rxFifo' \in Seq(Payload)
<1> HIDE DEF Byte, Payload
<1>1. txFifo \in Seq(Seq(Byte)) /\ rxFifo \in Seq(Payload) /\ shifted \in Seq(Byte)
  BY DEF TypeOK
<1>2. /\ Append(txFifo, shifted) \in Seq(Seq(Byte))
      /\ rxFifo # << >> => Tail(rxFifo) \in Seq(Payload)
  BY <1>1
<1>3. CASE csn = level
  <2>1. UNCHANGED <<csn, command, count, shifted, reg, txFifo, rxFifo>>
    BY <1>3 DEF SetCsn, decoder, memory
  <2> QED
    BY <2>1 DEF TypeOK
<1>4. CASE csn # level
  <2>1. /\ csn' = level /\ command' = NoCommand /\ count' = 0 /\ shifted' = << >>
        /\ reg' = reg
        /\ txFifo' \in {txFifo, Append(txFifo, shifted)}
        /\ rxFifo' = rxFifo \/ (rxFifo # << >> /\ rxFifo' = Tail(rxFifo))
    BY <1>4 DEF SetCsn
  <2>2. txFifo' \in Seq(Seq(Byte))
    BY <1>1, <1>2, <2>1
  <2>3. rxFifo' \in Seq(Payload)
    BY <1>1, <1>2, <2>1
  <2>4. shifted' \in Seq(Byte)
    BY <2>1
  <2> QED
    BY <2>1, <2>2, <2>3, <2>4
<1> QED
  BY <1>3, <1>4

\* When a command is taken.
LEMMA CommandTypes ==
  ASSUME TypeOK, NEW number \in 0 .. 255, TakeCommand(number)
  PROVE  /\ csn' \in BOOLEAN /\ command' \in {NoCommand} \cup 0 .. 255 /\ count' \in Nat
         /\ reg' = reg /\ shifted' \in Seq(Byte)
         /\ txFifo' \in Seq(Seq(Byte)) /\ rxFifo' \in Seq(Payload)
BY DEF TakeCommand, TypeOK

\* A command that reads or writes a register has place for its width.
LEMMA AddressedRegister ==
  ASSUME NEW number \in 0 .. 255, Reads(number) \/ Writes(number)
  PROVE  Addressed(number) \in Register /\ Capacity(number) = Width(Addressed(number))
<1>1. number \in 0 .. 63
  BY DEF Reads, Writes
<1>2. Addressed(number) \in Register
  BY <1>1 DEF Addressed, Register
<1> QED
  BY <1>1, <1>2 DEF Capacity, NRF24_CMD_W_TX_PAYLOAD, NRF24_CMD_R_RX_PAYLOAD

\* When a byte of data is taken.
LEMMA DataTypes ==
  ASSUME TypeOK, command \in 0 .. 255, NEW byte \in Byte, TakeData(byte)
  PROVE  /\ csn' \in BOOLEAN /\ command' \in {NoCommand} \cup 0 .. 255 /\ count' \in Nat
         /\ reg' \in [Register -> Seq(Byte)]
         /\ \A r \in Register : Len(reg'[r]) = Width(r)
         /\ shifted' \in Seq(Byte)
         /\ txFifo' \in Seq(Seq(Byte)) /\ rxFifo' \in Seq(Payload)
<1>1. /\ csn' = csn /\ command' = command /\ count' = count + 1
      /\ txFifo' = txFifo /\ rxFifo' = rxFifo
      /\ shifted' \in {shifted, Append(shifted, byte)}
  BY DEF TakeData
<1>2. shifted' \in Seq(Byte)
  <2>1. shifted \in Seq(Byte)
    BY DEF TypeOK
  <2> HIDE DEF Byte
  <2>2. Append(shifted, byte) \in Seq(Byte)
    BY <2>1
  <2> QED
    BY <1>1, <2>1, <2>2
<1>3. reg' \in [Register -> Seq(Byte)] /\ \A r \in Register : Len(reg'[r]) = Width(r)
  <2>1. CASE ~ (Writes(command) /\ Room)
    BY <2>1 DEF TakeData, TypeOK
  <2>2. CASE Writes(command) /\ Room
    <3> DEFINE a == Addressed(command)
               old == reg[a]
               new == [old EXCEPT ![count + 1] = Stored(a, @, byte)]
    <3>1. a \in Register /\ Capacity(command) = Width(a)
      BY <2>2, AddressedRegister
    <3>2. old \in Seq(Byte) /\ Len(old) = Width(a) /\ count + 1 \in 1 .. Len(old)
      BY <2>2, <3>1, RegisterCommands DEF TypeOK, Room
    <3>3. reg' = [reg EXCEPT ![a] = new]
      BY <2>2 DEF TakeData
    <3> HIDE DEF a, old
    <3>4. old[count + 1] \in Byte
      BY <3>2
    <3>5. Stored(a, old[count + 1], byte) \in Byte
      BY <3>4 DEF Stored, Byte
    <3>6. new \in Seq(Byte) /\ Len(new) = Len(old)
      BY <3>2, <3>5
    <3> HIDE DEF new
    <3> QED
      BY <3>1, <3>2, <3>3, <3>6 DEF TypeOK
  <2> QED
    BY <2>1, <2>2
<1> QED
  BY <1>1, <1>2, <1>3 DEF TypeOK

\* What the chip puts on the bus is a byte.
LEMMA GivenIsByte ==
  ASSUME TypeOK
  PROVE  Given \in Byte
<1>1. CASE Reads(command) /\ Room
  <2> DEFINE a == Addressed(command)
  <2>1. command \in 0 .. 255
    BY <1>1 DEF Reads
  <2>2. a \in Register /\ Capacity(command) = Width(a)
    BY <1>1, <2>1, AddressedRegister
  <2>3. reg[a] \in Seq(Byte) /\ count + 1 \in 1 .. Len(reg[a])
    BY <1>1, <2>2, RegisterCommands DEF TypeOK, Room
  <2>4. reg[a][count + 1] \in Byte
    BY <2>3
  <2>5. command # NRF24_CMD_R_RX_PAYLOAD
    BY <1>1 DEF Reads, NRF24_CMD_R_RX_PAYLOAD
  <2> QED
    BY <1>1, <2>4, <2>5 DEF Given
<1>2. CASE command = NRF24_CMD_R_RX_PAYLOAD /\ Room /\ rxFifo # << >>
  <2>1. ~ Reads(command) /\ ~ Writes(command)
    BY <1>2 DEF Reads, Writes, NRF24_CMD_R_RX_PAYLOAD
  <2>2. Head(rxFifo) \in [1 .. PayloadSize -> Byte]
    BY <1>2 DEF TypeOK, Payload
  <2>3. count + 1 \in 1 .. PayloadSize
    BY <1>2, <2>1, PayloadSizeAssumption DEF Room, Capacity, TypeOK
  <2> QED
    BY <1>2, <2>1, <2>2, <2>3 DEF Given
<1> QED
  BY <1>1, <1>2 DEF Given, Byte

-----------------------------------------------------------------------------
(* The steps of the specification.                                         *)

\* A wire of nothing leads nowhere else.
LEMMA NothingLeadsNowhere ==
  ASSUME NEW from, NEW to
  PROVE  Leads(<< >>, from, to) <=> from = to
BY NoPath DEF Leads

\* The rest of a wire still reads first, unless a byte has been read.
LEMMA RestReadsFirst ==
  ASSUME NEW w \in Seq(Item), w # << >>, ReadsFirst(w), w[1] # Nop
  PROVE  ReadsFirst(Tail(w))
<1>1. /\ Len(w) \in Nat \ {0} /\ Len(Tail(w)) = Len(w) - 1
      /\ \A i \in 1 .. Len(w) - 1 : Tail(w)[i] = w[i + 1]
  OBVIOUS
<1> SUFFICES ASSUME NEW i \in 1 .. Len(w) - 1, w[i + 1][1] = "write_back"
             PROVE  \E k \in 1 .. i - 1 : Tail(w)[k] = Nop
  BY <1>1 DEF ReadsFirst
<1>2. PICK k \in 1 .. (i + 1) - 1 : w[k] = Nop
  BY <1>1 DEF ReadsFirst
<1>3. k # 1 /\ k - 1 \in 1 .. i - 1 /\ k - 1 \in 1 .. Len(w) - 1 /\ (k - 1) + 1 = k
  BY <1>1, <1>2
<1>4. Tail(w)[k - 1] = Nop
  BY <1>1, <1>2, <1>3
<1> QED
  BY <1>3, <1>4

\* The first item of a wire that fits, and what it moves the decoder to.
LEMMA WireGoesOn ==
  ASSUME Inv, wire # << >>
  PROVE  /\ call.fn # "reset"
         /\ \E next \in Place, to \in {Resting, Selected} :
              Moves(Now, wire[1], next) /\ Leads(Tail(wire), next, to)
<1>1. wire \in Seq(Item) /\ call.fn # "reset"
  BY DEF Inv, TypeOK, WireFits
<1>2. PICK to \in {Resting, Selected} : Leads(wire, Now, to)
  BY <1>1 DEF Inv, WireFits
<1>3. PICK next \in Place : Moves(Now, wire[1], next) /\ Leads(Tail(wire), next, to)
  BY <1>1, <1>2, FirstItem
<1> QED
  BY <1>1, <1>3

\* The wire fits on when the decoder has done what its first item says.
LEMMA ItemDone ==
  ASSUME Inv, wire # << >>, wire' = Tail(wire), call' = call,
         \A next : Moves(Now, wire[1], next) => Now' = next,
         buffer # << >> \/ wire[1] = Nop => buffer' # << >>
  PROVE  WireFits'
<1>1. wire \in Seq(Item)
  BY DEF Inv, TypeOK
<1>2. PICK next \in Place, to \in {Resting, Selected} :
        Moves(Now, wire[1], next) /\ Leads(Tail(wire), next, to)
  BY WireGoesOn
<1>3. Leads(wire', Now', to)
  BY <1>2
<1>4. buffer' # << >> \/ ReadsFirst(wire')
  BY <1>1, RestReadsFirst DEF Inv, WireFits
<1> QED
  BY <1>2, <1>3, <1>4, WireGoesOn DEF WireFits

\* The pin is set.
LEMMA SetCsnKeepsInv ==
  ASSUME Inv, set_csn
  PROVE  Inv'
<1> DEFINE level == wire[1][2]
<1>1. /\ wire # << >> /\ wire[1][1] = "csn" /\ SetCsn(level)
      /\ wire' = Tail(wire) /\ UNCHANGED <<buffer, call>>
      /\ TypeOK /\ DecoderInv
  BY Rest DEF set_csn, At, Unrecorded, Inv
<1>2. wire[1] \in Item /\ Tail(wire) \in Seq(Item) /\ level \in BOOLEAN
  BY <1>1, Rest, Items
<1>3. PICK next \in Place : Moves(Now, wire[1], next)
  BY <1>1, WireGoesOn
<1>4. \/ wire[1] = High /\ level = TRUE
      \/ wire[1] = Low /\ level = FALSE /\ Now \in {Resting, Selected}
  BY <1>1, <1>3, NewItems DEF Moves
<1>5. (Now' = IF level THEN Resting ELSE Selected) /\ DecoderInv'
  BY <1>1, <1>2, <1>4, CsnMoves
<1>6. WireFits'
  <2>1. \A to : Moves(Now, wire[1], to) => Now' = to
    BY <1>1, <1>4, <1>5, NewItems DEF Moves
  <2>2. wire[1] # Nop
    BY <1>1, NewItems
  <2> QED
    BY <1>1, <2>1, <2>2, ItemDone
<1>7. TypeOK'
  BY <1>1, <1>2, CsnTypes DEF TypeOK
<1> QED
  BY <1>5, <1>6, <1>7 DEF Inv

\* A byte is exchanged.
LEMMA ExchangeKeepsInv ==
  ASSUME Inv, spi_exchange
  PROVE  Inv'
<1>1. /\ wire # << >> /\ wire[1][1] \in {"command", "data", "read"}
      /\ wire' = Tail(wire) /\ call' = call
      /\ buffer' = IF wire[1][1] = "read" THEN Append(buffer, Given) ELSE buffer
      /\ TypeOK /\ DecoderInv
  BY Rest DEF spi_exchange, At, Unrecorded, Inv
<1>2. wire[1] \in Item /\ Tail(wire) \in Seq(Item)
  BY <1>1, Rest
<1>3. PICK next \in Place : Moves(Now, wire[1], next)
  BY <1>1, WireGoesOn
<1>4. wire[1] # High /\ wire[1] # Low
  BY <1>1, NewItems
<1>5. buffer' \in Seq(Byte) /\ (buffer # << >> \/ wire[1] = Nop => buffer' # << >>)
  <2>1. buffer \in Seq(Byte) /\ Given \in Byte
    BY <1>1, GivenIsByte DEF TypeOK
  <2> HIDE DEF Byte
  <2>2. Append(buffer, Given) \in Seq(Byte) /\ Append(buffer, Given) # << >>
    <3>1. /\ Append(buffer, Given) \in Seq(Byte)
          /\ Len(Append(buffer, Given)) = Len(buffer) + 1 /\ Len(buffer) \in Nat
      BY <2>1
    <3> QED
      BY <3>1
  <2> QED
    BY <1>1, <2>1, <2>2, NewItems
<1>6. CASE wire[1][1] = "command"
  <2> DEFINE number == wire[1][2]
  <2>1. Now = Selected /\ number \in 0 .. 255
    BY <1>2, <1>3, <1>4, <1>6, Items DEF Moves
  <2>2. ~ csn /\ command = NoCommand
    BY <1>1, <2>1, Places
  <2>3. TakeCommand(number)
    BY <1>1, <1>6, <2>2, Rest DEF spi_exchange, At
  <2>4. Now' = Capacity(number) /\ DecoderInv'
    BY <1>1, <2>1, <2>3, CommandMoves
  <2>5. WireFits'
    <3>1. \A to : Moves(Now, wire[1], to) => Now' = to
      BY <1>4, <1>6, <2>4 DEF Moves
    <3> QED
      BY <1>1, <1>5, <3>1, ItemDone
  <2>6. TypeOK'
    <3>1. /\ csn' \in BOOLEAN /\ command' \in {NoCommand} \cup 0 .. 255 /\ count' \in Nat
          /\ reg' = reg /\ shifted' \in Seq(Byte)
          /\ txFifo' \in Seq(Seq(Byte)) /\ rxFifo' \in Seq(Payload)
      BY <1>1, <2>1, <2>3, CommandTypes
    <3>2. wire' \in Seq(Item)
      BY <1>1, <1>2
    <3> QED
      BY <1>1, <1>5, <3>1, <3>2 DEF TypeOK
  <2> QED
    BY <2>4, <2>5, <2>6 DEF Inv
<1>7. CASE wire[1][1] \in {"data", "read"}
  <2>1. Now \in Nat \ {0}
    BY <1>3, <1>4, <1>7 DEF Moves
  <2>2. ~ csn /\ command # NoCommand /\ command \in 0 .. 255
    BY <1>1, <2>1, Places DEF TypeOK
  <2>3. PICK byte \in Byte : TakeData(byte)
    <3>1. 0 .. 7 \in Byte /\ (wire[1][1] = "data" => wire[1][2] \in Byte)
      BY <1>2, Items DEF Byte
    <3> QED
      BY <1>1, <1>7, <2>2, <3>1, Rest DEF spi_exchange, At
  <2>5. Now' = Now - 1 /\ DecoderInv'
    BY <1>1, <2>1, <2>3, DataMoves
  <2>6. WireFits'
    <3>1. \A to : Moves(Now, wire[1], to) => Now' = to
      BY <1>4, <1>7, <2>5 DEF Moves
    <3> QED
      BY <1>1, <1>5, <3>1, ItemDone
  <2>7. TypeOK'
    BY <1>1, <1>2, <1>5, <2>2, <2>3, DataTypes DEF TypeOK
  <2> QED
    BY <2>5, <2>6, <2>7 DEF Inv
<1> QED
  BY <1>1, <1>6, <1>7

\* The image that was read is put on the wire again, changed.
LEMMA WriteImageKeepsInv ==
  ASSUME Inv, WriteImage
  PROVE  Inv'
<1> DEFINE item == wire[1]
           image == (buffer[Len(buffer)] \ item[4]) \cup item[3]
           written == nrf24_write_register(item[2], image)
<1>1. /\ wire # << >> /\ item[1] = "write_back"
      /\ wire' = written \o Tail(wire)
      /\ UNCHANGED <<call, buffer, csn, command, count, shifted, reg, txFifo, rxFifo>>
      /\ TypeOK /\ DecoderInv
  BY Rest DEF WriteImage, At, Unrecorded, Inv, decoder, memory
<1>2. /\ item \in Item /\ Tail(wire) \in Seq(Item) /\ wire \in Seq(Item)
      /\ item[2] \in Register /\ item[3] \in Byte /\ item[4] \in Byte
  <2>1. item \in Item /\ Tail(wire) \in Seq(Item) /\ wire \in Seq(Item)
    BY <1>1, Rest DEF TypeOK
  <2> QED
    BY <1>1, <2>1, Items
<1>3. buffer # << >>
  <2>1. 1 \in 1 .. Len(wire) /\ ~ \E k \in 1 .. 1 - 1 : wire[k] = Nop
    BY <1>1, Rest
  <2>2. ~ ReadsFirst(wire)
    BY <1>1, <2>1 DEF ReadsFirst
  <2> QED
    BY <2>2 DEF Inv, WireFits
<1>4. image \in Byte
  <2>1. buffer \in Seq(Byte) /\ Len(buffer) \in 1 .. Len(buffer)
    BY <1>1, <1>3 DEF TypeOK
  <2>2. buffer[Len(buffer)] \in Byte
    BY <2>1
  <2> QED
    BY <1>2, <2>2 DEF Byte
<1> HIDE DEF image, item
<1>5. Function(written)
  BY <1>2, <1>4, OneByte
<1> HIDE DEF written
<1>6. PICK next \in Place, to \in {Resting, Selected} :
        Moves(Now, wire[1], next) /\ Leads(Tail(wire), next, to)
  BY <1>1, WireGoesOn
<1>7. Now \in {Resting, Selected} /\ next = Resting
  BY <1>1, <1>6, NewItems DEF Moves, item
<1>8. written \in Seq(Item) /\ Leads(written, Now, Resting)
  BY <1>5, <1>7 DEF Function
<1>9. wire' \in Seq(Item) /\ Leads(wire', Now', to)
  <2>1. Now' = Now
    BY <1>1 DEF Now
  <2>2. Leads(written \o Tail(wire), Now, to)
    BY <1>2, <1>6, <1>7, <1>8, LeadsOn
  <2>3. written \o Tail(wire) \in Seq(Item)
    BY <1>2, <1>8
  <2> QED
    BY <1>1, <2>1, <2>2, <2>3
<1>10. WireFits'
  BY <1>1, <1>3, <1>9, WireGoesOn DEF WireFits
<1>11. DecoderInv'
  BY <1>1 DEF DecoderInv
<1>12. TypeOK'
  BY <1>1, <1>9 DEF TypeOK
<1> QED
  BY <1>10, <1>11, <1>12 DEF Inv

\* A function is called, with whatever arguments.
LEMMA BeginKeepsInv ==
  ASSUME Inv, NEW c \in Call, Begin(c)
  PROVE  Inv'
<1>1. /\ wire = << >> /\ call.fn # "reset"
      /\ call' = c /\ wire' = Steps(c) /\ buffer' = << >>
      /\ UNCHANGED <<csn, command, count, shifted, reg, txFifo, rxFifo>>
      /\ TypeOK /\ DecoderInv
  BY DEF Begin, Inv, decoder, memory
<1>2. Now' = Now /\ Now \in {Resting, Selected}
  <2>1. Now' = Now
    BY <1>1 DEF Now
  <2>2. Leads(<< >>, Now, Resting) \/ Leads(<< >>, Now, Selected)
    BY <1>1 DEF Inv, WireFits
  <2> QED
    BY <2>1, <2>2, NothingLeadsNowhere
<1>3. /\ Steps(c) \in Seq(Item) /\ ReadsFirst(Steps(c))
      /\ Leads(Steps(c), Now, Resting) \/ Leads(Steps(c), Now, Selected)
  <2>1. CASE Steps(c) = << >>
    <3>1. << >> \in Seq(Item) /\ ReadsFirst(<< >>)
      BY DEF ReadsFirst
    <3>2. Leads(<< >>, Now, Now)
      BY NothingLeadsNowhere
    <3> QED
      BY <1>2, <2>1, <3>1, <3>2
  <2>2. CASE Function(Steps(c))
    BY <1>2, <2>2 DEF Function
  <2> QED
    BY <2>1, <2>2, CallsAreFunctions
<1>4. WireFits'
  BY <1>1, <1>2, <1>3, CallsAreFunctions DEF WireFits
<1>5. DecoderInv'
  BY <1>1 DEF DecoderInv
<1>6. TypeOK'
  <2>1. buffer' \in Seq(Byte) /\ wire' \in Seq(Item)
    BY <1>1, <1>3
  <2> QED
    BY <1>1, <2>1 DEF TypeOK
<1> QED
  BY <1>4, <1>5, <1>6 DEF Inv

\* Whatever the chip was waiting for, the transceiver's initialization ends it.
LEMMA BootKeepsInv ==
  ASSUME Inv, Boot
  PROVE  Inv'
<1>1. /\ call' = [fn |-> "init"] /\ wire' = <<High, Low>> /\ buffer' = << >>
      /\ UNCHANGED <<csn, command, count, shifted, reg, txFifo, rxFifo>>
      /\ TypeOK /\ DecoderInv
  BY DEF Boot, Inv, decoder, memory, Steps, initTransceiver
<1>2. Now' = Now /\ Now \in Place
  BY <1>1, Places DEF Now
<1>3. <<High>> \in Seq(Item) /\ <<Low>> \in Seq(Item) /\ <<High, Low>> = <<High>> \o <<Low>>
  BY NewItems, TwoItems, Zenon
<1>4. Leads(<<High, Low>>, Now, Selected)
  <2>1. Moves(Now, High, Resting) /\ Moves(Resting, Low, Selected)
    BY DEF Moves
  <2>2. Leads(<<High>>, Now, Resting) /\ Leads(<<Low>>, Resting, Selected)
    BY <1>2, <2>1, OneItem, NewItems, PlacesAreNumbers
  <2> QED
    BY <1>3, <2>2, LeadsOn
<1>5. wire' \in Seq(Item) /\ buffer' \in Seq(Byte)
  BY <1>1, NewItems
<1>6. ReadsFirst(wire')
  <2>1. High[1] # "write_back" /\ Low[1] # "write_back"
    BY NewItems
  <2> QED
    BY <1>1, <2>1 DEF ReadsFirst
<1>7. WireFits'
  BY <1>1, <1>2, <1>4, <1>6 DEF WireFits
<1>8. DecoderInv'
  BY <1>1 DEF DecoderInv
<1>9. TypeOK'
  BY <1>1, <1>5 DEF TypeOK
<1> QED
  BY <1>7, <1>8, <1>9 DEF Inv

\* A reset at any byte leaves no rest, and the chip where it was.
LEMMA RestartKeepsInv ==
  ASSUME Inv, Restart
  PROVE  Inv'
<1>1. /\ call' = [fn |-> "reset"] /\ wire' = << >> /\ buffer' = << >>
      /\ SetCsn(csn) \/ SetCsn(TRUE)
      /\ TypeOK /\ DecoderInv /\ csn \in BOOLEAN
  BY DEF Restart, Inv, TypeOK
<1>2. DecoderInv'
  <2>1. CASE SetCsn(TRUE)
    BY <1>1, <2>1, CsnMoves
  <2>2. CASE SetCsn(csn)
    BY <1>1, <2>2 DEF SetCsn, decoder, DecoderInv
  <2> QED
    BY <1>1, <2>1, <2>2
<1>3. TypeOK'
  <2>1. wire' \in Seq(Item) /\ buffer' \in Seq(Byte)
    BY <1>1
  <2> QED
    BY <1>1, <2>1, CsnTypes DEF TypeOK
<1>4. WireFits'
  BY <1>1 DEF WireFits, ReadsFirst
<1> QED
  BY <1>2, <1>3, <1>4 DEF Inv

\* The invariant holds when the hub is powered on.
LEMMA InvInit == Init => Inv
<1> SUFFICES ASSUME Init PROVE Inv
  OBVIOUS
<1>1. reg \in [Register -> Seq(Byte)] /\ \A r \in Register : Len(reg[r]) = Width(r)
  <2>1. \A r \in Register : Width(r) \in Nat
    BY RegisterCommands
  <2>2. {4, 5, 6} \in Byte
    BY DEF Byte
  <2>3. ASSUME NEW r \in Register
        PROVE  /\ [i \in 1 .. Width(r) |-> {4, 5, 6}] \in Seq(Byte)
               /\ Len([i \in 1 .. Width(r) |-> {4, 5, 6}]) = Width(r)
    <3>1. PICK width \in Nat : width = Width(r)
      BY <2>1
    <3>2. PICK byte \in Byte : byte = {4, 5, 6}
      BY <2>2
    <3> HIDE DEF Byte
    <3>3. [i \in 1 .. width |-> byte] \in Seq(Byte) /\ Len([i \in 1 .. width |-> byte]) = width
      OBVIOUS
    <3> QED
      BY <3>1, <3>2, <3>3
  <2> QED
    BY <2>3 DEF Init
<1>2. rxFifo \in Seq(Payload)
  <2>1. \A i \in 1 .. PayloadSize : {i % 8} \in Byte
    BY PayloadSizeAssumption DEF Byte
  <2>2. [i \in 1 .. PayloadSize |-> {i % 8}] \in Payload
    BY <2>1 DEF Payload
  <2> QED
    BY <2>2 DEF Init
<1>3. TypeOK
  <2>1. << >> \in Seq(Item) /\ << >> \in Seq(Byte) /\ << >> \in Seq(Seq(Byte))
    OBVIOUS
  <2> QED
    BY <1>1, <1>2, <2>1 DEF Init, TypeOK
<1>4. DecoderInv /\ WireFits
  BY DEF Init, DecoderInv, WireFits, ReadsFirst
<1> QED
  BY <1>3, <1>4 DEF Inv
-----------------------------------------------------------------------------
(* The invariant behind DoesWhatItPromises.                                *)

Registers == {image \in [Register -> Seq(Byte)] : \A r \in Register : Len(image[r]) = Width(r)}

(***************************************************************************)
(* The chip's end of the bus with the bytes that were read: all that a     *)
(* running function changes.                                               *)
(***************************************************************************)
State ==
  [csn : BOOLEAN, command : {NoCommand} \cup 0 .. 255, count : Nat, reg : Registers,
   shifted : Seq(Byte), txFifo : Seq(Seq(Byte)), rxFifo : Seq(Payload), buffer : Seq(Byte)]

Present ==
  [csn |-> csn, command |-> command, count |-> count, reg |-> reg, shifted |-> shifted,
   txFifo |-> txFifo, rxFifo |-> rxFifo, buffer |-> buffer]

\* Between two transactions nothing is left of the last one.
Clear(s) == s.command = NoCommand /\ s.count = 0 /\ s.shifted = << >>

\* The last register image that was read, with some bits set and some cleared.
Image(s, ones, zeros) == (s.buffer[Len(s.buffer)] \ zeros) \cup ones

\* CSN rises: a payload is complete.
Raised(s) ==
  [s EXCEPT !.csn = TRUE, !.command = NoCommand, !.count = 0, !.shifted = << >>,
            !.txFifo = IF s.shifted # << >> THEN Append(s.txFifo, s.shifted) ELSE s.txFifo,
            !.rxFifo = IF s.command = NRF24_CMD_R_RX_PAYLOAD /\ s.count > 0 /\ s.rxFifo # << >>
                       THEN Tail(s.rxFifo) ELSE s.rxFifo]

Commanded(s, number) ==
  [s EXCEPT !.csn = FALSE, !.command = number,
            !.txFifo = IF number = NRF24_CMD_FLUSH_TX THEN << >> ELSE s.txFifo,
            !.rxFifo = IF number = NRF24_CMD_FLUSH_RX THEN << >> ELSE s.rxFifo]

\* A register has another value: all of it, or one byte that is written.
Updated(image, r, value) == [image EXCEPT ![r] = value]

ByteWritten(image, r, i, byte) ==
  Updated(image, r, [image[r] EXCEPT ![i] = Stored(r, image[r][i], byte)])

\* The bytes that a command gives.
Source(s, number) ==
  IF Reads(number) THEN s.reg[Addressed(number)]
  ELSE IF s.rxFifo # << >> THEN Head(s.rxFifo) ELSE << >>

(***************************************************************************)
(* What an item of the wire does, where it belongs: bytes of data to a     *)
(* register or to a payload, and reading from either.  What a function     *)
(* writes back stands for the transaction it becomes.                      *)
(***************************************************************************)
Selects(s, item, t) ==
  item = Low /\ Clear(s) /\ t = [s EXCEPT !.csn = FALSE]

Deselects(s, item, t) ==
  item = High /\ ~ s.csn /\ t = Raised(s)

Commands(s, item, t) ==
  /\ item[1] = "command" /\ ~ s.csn /\ s.command = NoCommand
  /\ t = Commanded(s, item[2])

WritesRegister(s, item, t) ==
  /\ item[1] = "data" /\ ~ s.csn /\ Writes(s.command) /\ s.count < Capacity(s.command)
  /\ t = [s EXCEPT !.count = s.count + 1,
                   !.reg = ByteWritten(s.reg, Addressed(s.command), s.count + 1, item[2])]

WritesPayload(s, item, t) ==
  /\ item[1] = "data" /\ ~ s.csn /\ s.command = NRF24_CMD_W_TX_PAYLOAD
  /\ t = [s EXCEPT !.count = s.count + 1, !.shifted = Append(s.shifted, item[2])]

ReadsByte(s, item, t) ==
  /\ item = Nop /\ ~ s.csn
  /\ Reads(s.command) \/ (s.command = NRF24_CMD_R_RX_PAYLOAD /\ s.rxFifo # << >>)
  /\ s.count < Capacity(s.command)
  /\ t = [s EXCEPT !.count = s.count + 1,
                   !.buffer = Append(s.buffer, Source(s, s.command)[s.count + 1])]

RewritesRegister(s, item, t) ==
  /\ item[1] = "write_back" /\ Clear(s) /\ s.buffer # << >>
  /\ t = [s EXCEPT !.csn = TRUE,
                   !.reg = ByteWritten(s.reg, item[2], 1, Image(s, item[3], item[4]))]

Does ==
  {d \in State \X Item \X State :
     \/ Selects(d[1], d[2], d[3])
     \/ Deselects(d[1], d[2], d[3])
     \/ Commands(d[1], d[2], d[3])
     \/ WritesRegister(d[1], d[2], d[3])
     \/ WritesPayload(d[1], d[2], d[3])
     \/ ReadsByte(d[1], d[2], d[3])
     \/ RewritesRegister(d[1], d[2], d[3])}

(***************************************************************************)
(* What a function was called for is what the rest of it leads to, from    *)
(* any point of it.                                                        *)
(***************************************************************************)
Fulfils(c, s) ==
  /\ s.reg = Promised(c)
  /\ s.txFifo = PromisedToSend(c)
  /\ s.rxFifo = PromisedToRead(c)
  /\ c.fn \in Getters => Value(c, s.buffer) = Answer(c)

LeadsToPromised ==
  call.fn \notin {"reset", "init"} => \E s : Path(wire, Does, Present, s) /\ Fulfils(call, s)

NothingShifted == command = NoCommand => shifted = << >>

PromiseInv == NothingShifted /\ LeadsToPromised
-----------------------------------------------------------------------------
(* What a transaction does.                                                *)

\* A wire that leads from one state between two transactions to another.
Ends(w, s, t) == w \in Seq(Item) /\ t \in State /\ Clear(t) /\ Path(w, Does, s, t)

\* What a state consists of.
LEMMA Parts ==
  ASSUME NEW s \in State
  PROVE  /\ s.csn \in BOOLEAN /\ s.command \in {NoCommand} \cup 0 .. 255 /\ s.count \in Nat
         /\ s.reg \in Registers /\ s.reg \in [Register -> Seq(Byte)] /\ s.shifted \in Seq(Byte)
         /\ \A r \in Register : Len(s.reg[r]) = Width(r)
         /\ s.txFifo \in Seq(Seq(Byte)) /\ s.rxFifo \in Seq(Payload) /\ s.buffer \in Seq(Byte)
BY DEF State, Registers

\* A state is what its parts are.
LEMMA WholeState ==
  ASSUME NEW s \in State
  PROVE  s = [csn |-> s.csn, command |-> s.command, count |-> s.count, reg |-> s.reg,
              shifted |-> s.shifted, txFifo |-> s.txFifo, rxFifo |-> s.rxFifo,
              buffer |-> s.buffer]
BY DEF State

LEMMA SameState ==
  ASSUME NEW s \in State, NEW t \in State,
         s.csn = t.csn, s.command = t.command, s.count = t.count, s.reg = t.reg,
         s.shifted = t.shifted, s.txFifo = t.txFifo, s.rxFifo = t.rxFifo, s.buffer = t.buffer
  PROVE  s = t
BY WholeState

\* When CSN rises, nothing is left of the transaction.
LEMMA RaisedState ==
  ASSUME NEW s \in State
  PROVE  Raised(s) \in State /\ Clear(Raised(s))
<1>1. /\ Append(s.txFifo, s.shifted) \in Seq(Seq(Byte))
      /\ s.rxFifo # << >> => Tail(s.rxFifo) \in Seq(Payload)
  BY Parts
<1>2. << >> \in Seq(Byte) /\ NoCommand \in {NoCommand} \cup 0 .. 255 /\ 0 \in Nat
  OBVIOUS
<1> QED
  BY <1>1, <1>2 DEF State, Raised, Clear

\* A command may empty a FIFO.
LEMMA CommandedState ==
  ASSUME NEW s \in State, NEW number \in 0 .. 255
  PROVE  Commanded(s, number) \in State
<1> DEFINE tx == IF number = NRF24_CMD_FLUSH_TX THEN << >> ELSE s.txFifo
           rx == IF number = NRF24_CMD_FLUSH_RX THEN << >> ELSE s.rxFifo
<1>1. tx \in Seq(Seq(Byte)) /\ rx \in Seq(Payload)
  <2>1. << >> \in Seq(Seq(Byte)) /\ << >> \in Seq(Payload)
    OBVIOUS
  <2> QED
    BY <2>1, Parts
<1>2. Commanded(s, number)
        = [s EXCEPT !.csn = FALSE, !.command = number, !.txFifo = tx, !.rxFifo = rx]
  BY DEF Commanded
<1> HIDE DEF tx, rx
<1>3. [s EXCEPT !.csn = FALSE, !.command = number] \in State
  BY DEF State
<1>4. PICK t \in State : t = [s EXCEPT !.csn = FALSE, !.command = number]
  BY <1>3
<1>5. [t EXCEPT !.txFifo = tx, !.rxFifo = rx] \in State
  BY <1>1 DEF State
<1> QED
  BY <1>2, <1>4, <1>5

\* A transaction does what its data do after the command, before CSN rises.
LEMMA TransactionEnds ==
  ASSUME NEW number \in 0 .. 255, NEW data \in Seq(Item), NEW s \in State, Clear(s),
         NEW t \in State, ~ t.csn, Path(data, Does, Commanded(s, number), t)
  PROVE  Ends(Transaction(number, data), s, Raised(t))
<1> DEFINE low == [s EXCEPT !.csn = FALSE]
           given == Commanded(s, number)
<1>1. /\ Low \in Item /\ High \in Item /\ Command(number) \in Item
      /\ Command(number)[1] = "command" /\ Command(number)[2] = number
  BY NewItems
<1>2. low \in State /\ given \in State /\ Raised(t) \in State
  <2>1. low \in State
    BY DEF State
  <2> QED
    BY <2>1, CommandedState, RaisedState
<1>3. <<s, Low, low>> \in Does
  BY <1>1, <1>2 DEF Does, Selects
<1>4. <<low, Command(number), given>> \in Does
  <2>1. ~ low.csn /\ low.command = NoCommand
    BY DEF State, Clear
  <2>2. given = Commanded(low, number)
    BY DEF State, Commanded
  <2> HIDE DEF low, given
  <2>3. Commands(low, Command(number), given)
    BY <1>1, <2>1, <2>2 DEF Commands
  <2> QED
    BY <1>1, <1>2, <2>3 DEF Does
<1>5. <<t, High, Raised(t)>> \in Does
  <2>1. Deselects(t, High, Raised(t))
    BY DEF Deselects
  <2> QED
    BY <1>1, <1>2, <2>1 DEF Does
<1> HIDE DEF low, given
<1>6. /\ <<Low>> \in Seq(Item) /\ <<High>> \in Seq(Item) /\ <<Command(number)>> \in Seq(Item)
      /\ <<Low, Command(number)>> = <<Low>> \o <<Command(number)>>
  BY <1>1, TwoItems, Zenon
<1>7. Path(<<Low>> \o <<Command(number)>>, Does, s, given)
  BY <1>3, <1>4, <1>6, OneStep, PathOn
<1>8. Path(data \o <<High>>, Does, given, Raised(t))
  <2>1. Path(data, Does, given, t) /\ Path(<<High>>, Does, t, Raised(t))
    BY <1>5, OneStep DEF given
  <2> QED
    BY <1>6, <2>1, PathOn
<1> DEFINE head == <<Low>> \o <<Command(number)>>
<1>9. head \in Seq(Item) /\ data \o <<High>> \in Seq(Item)
  BY <1>6
<1>10. Path(head \o (data \o <<High>>), Does, s, Raised(t))
  BY <1>7, <1>8, <1>9, PathOn
<1>11. Transaction(number, data) = head \o (data \o <<High>>)
  <2>1. Transaction(number, data) = (head \o data) \o <<High>>
    BY <1>6, Zenon DEF Transaction
  <2> HIDE DEF head
  <2>2. (head \o data) \o <<High>> = head \o (data \o <<High>>)
    BY <1>6, <1>9
  <2> QED
    BY <2>1, <2>2
<1> HIDE DEF head
<1>12. Transaction(number, data) \in Seq(Item)
  BY <1>9, <1>11
<1> QED
  BY <1>2, <1>10, <1>11, <1>12, RaisedState DEF Ends

\* One function after another.
LEMMA EndsOn ==
  ASSUME NEW v, NEW w, NEW r, NEW s, NEW t, Ends(v, r, s), Ends(w, s, t)
  PROVE  Ends(v \o w, r, t)
<1>1. v \in Seq(Item) /\ w \in Seq(Item) /\ v \o w \in Seq(Item)
  BY DEF Ends
<1> QED
  BY <1>1, PathOn DEF Ends
-----------------------------------------------------------------------------
(* Reading.                                                                *)

\* Two sequences together.
LEMMA BothLengths ==
  ASSUME NEW a \in Seq(Byte), NEW b \in Seq(Byte)
  PROVE  a \o b \in Seq(Byte) /\ Len(a \o b) = Len(a) + Len(b) /\ Len(a) \in Nat
OBVIOUS

\* The first bytes of a sequence, and one more.
LEMMA OneMoreByte ==
  ASSUME NEW b \in Seq(Byte), NEW g \in Seq(Byte), NEW i \in 1 .. Len(g)
  PROVE  /\ SubSeq(g, 1, i - 1) \in Seq(Byte) /\ SubSeq(g, 1, i) \in Seq(Byte)
         /\ Append(b \o SubSeq(g, 1, i - 1), g[i]) = b \o SubSeq(g, 1, i)
<1> DEFINE p == SubSeq(g, 1, i - 1)
           q == SubSeq(g, 1, i)
<1>1. /\ p \in Seq(Byte) /\ Len(p) = i - 1 /\ \A j \in 1 .. i - 1 : p[j] = g[j]
      /\ q \in Seq(Byte) /\ Len(q) = i /\ \A j \in 1 .. i : q[j] = g[j]
      /\ g[i] \in Byte /\ i \in Nat \ {0}
  OBVIOUS
<1> HIDE DEF p, q
<1>2. Append(p, g[i]) = q
  BY <1>1
<1>3. Append(b \o p, g[i]) = b \o Append(p, g[i])
  <2>1. /\ Append(b \o p, g[i]) \in Seq(Byte) /\ b \o Append(p, g[i]) \in Seq(Byte)
        /\ Len(Append(b \o p, g[i])) = Len(b) + i
        /\ Len(b \o Append(p, g[i])) = Len(b) + i
    <3>1. /\ Append(p, g[i]) \in Seq(Byte) /\ Len(Append(p, g[i])) = i
          /\ b \o p \in Seq(Byte) /\ Len(b \o p) = Len(b) + (i - 1) /\ Len(b) \in Nat
      BY <1>1, BothLengths
    <3>2. /\ b \o Append(p, g[i]) \in Seq(Byte)
          /\ Len(b \o Append(p, g[i])) = Len(b) + i
      BY <3>1, BothLengths
    <3>3. /\ Append(b \o p, g[i]) \in Seq(Byte)
          /\ Len(Append(b \o p, g[i])) = Len(b \o p) + 1
      BY <1>1, <3>1
    <3> QED
      BY <1>1, <3>1, <3>2, <3>3
  <2>2. ASSUME NEW j \in 1 .. Len(b) + i
        PROVE  Append(b \o p, g[i])[j] = (b \o Append(p, g[i]))[j]
    <3>1. CASE j <= Len(b)
      BY <1>1, <3>1
    <3>2. CASE j > Len(b) /\ j < Len(b) + i
      BY <1>1, <3>2
    <3>3. CASE j = Len(b) + i
      <4>1. Append(b \o p, g[i])[Len(b \o p) + 1] = g[i] /\ Len(b \o p) + 1 = j
        BY <1>1, <3>3
      <4>2. /\ Append(p, g[i])[i] = g[i] /\ Append(p, g[i]) \in Seq(Byte)
            /\ Len(Append(p, g[i])) = i
        BY <1>1
      <4>3. (b \o Append(p, g[i]))[Len(b) + i] = Append(p, g[i])[i]
        BY <1>1, <4>2
      <4> QED
        BY <3>3, <4>1, <4>2, <4>3
    <3> QED
      BY <1>1, <3>1, <3>2, <3>3
  <2> QED
    BY <2>1, <2>2, SeqEqual
<1> QED
  BY <1>1, <1>2, <1>3 DEF p, q

\* What a command gives has as many bytes as the command.
LEMMA SourceBytes ==
  ASSUME NEW s \in State, NEW number \in 0 .. 255,
         Reads(number) \/ (number = NRF24_CMD_R_RX_PAYLOAD /\ s.rxFifo # << >>)
  PROVE  Source(s, number) \in Seq(Byte) /\ Len(Source(s, number)) = Capacity(number)
<1>1. CASE Reads(number)
  <2>1. Addressed(number) \in Register /\ Capacity(number) = Width(Addressed(number))
    BY <1>1, AddressedRegister
  <2> QED
    BY <1>1, <2>1, Parts DEF Source
<1>2. CASE number = NRF24_CMD_R_RX_PAYLOAD /\ s.rxFifo # << >>
  <2>1. ~ Reads(number) /\ ~ Writes(number)
    BY <1>2 DEF Reads, Writes, NRF24_CMD_R_RX_PAYLOAD
  <2>2. Head(s.rxFifo) \in [1 .. PayloadSize -> Byte]
    <3>1. Head(s.rxFifo) \in Payload
      BY <1>2, Parts
    <3> QED
      BY <3>1 DEF Payload
  <2>3. Head(s.rxFifo) \in Seq(Byte) /\ Len(Head(s.rxFifo)) = PayloadSize
    BY <2>2, PayloadSizeAssumption
  <2>4. Capacity(number) = PayloadSize
    BY <1>2, <2>1 DEF Capacity
  <2> QED
    BY <1>2, <2>1, <2>3, <2>4 DEF Source
<1> QED
  BY <1>1, <1>2

\* The transaction when k bytes have been read.
PartRead(s, k) ==
  [s EXCEPT !.count = k, !.buffer = s.buffer \o SubSeq(Source(s, s.command), 1, k)]

\* A command that gives bytes.
Gives(s) == Reads(s.command) \/ (s.command = NRF24_CMD_R_RX_PAYLOAD /\ s.rxFifo # << >>)

\* These are states, the first of them the one before.
LEMMA PartsRead ==
  ASSUME NEW s \in State, s.command # NoCommand, Gives(s)
  PROVE  /\ \A k \in 0 .. Capacity(s.command) : PartRead(s, k) \in State
         /\ s.count = 0 => PartRead(s, 0) = s
<1> DEFINE given == Source(s, s.command)
<1>1. s.command \in 0 .. 255 /\ s.buffer \in Seq(Byte)
  BY Parts
<1>2. given \in Seq(Byte) /\ Len(given) = Capacity(s.command)
  BY <1>1, SourceBytes DEF Gives
<1> HIDE DEF given
<1>3. ASSUME NEW k \in 0 .. Capacity(s.command)
      PROVE  k \in Nat /\ s.buffer \o SubSeq(given, 1, k) \in Seq(Byte)
  <2>1. k \in Nat /\ SubSeq(given, 1, k) \in Seq(Byte)
    BY <1>2, <1>3
  <2> QED
    BY <1>1, <2>1
<1>4. s.buffer \o SubSeq(given, 1, 0) = s.buffer
  BY <1>1, <1>2
<1>5. ASSUME NEW k \in 0 .. Capacity(s.command) PROVE PartRead(s, k) \in State
  BY <1>3 DEF PartRead, State, given
<1>6. ASSUME s.count = 0 PROVE PartRead(s, 0) = s
  BY <1>4, <1>6 DEF PartRead, State, given
<1> QED
  BY <1>5, <1>6

\* One byte leads from one to the next.
LEMMA PartOfReading ==
  ASSUME NEW s \in State, ~ s.csn, s.command # NoCommand, Gives(s),
         NEW i \in 1 .. Capacity(s.command)
  PROVE  <<PartRead(s, i - 1), Nop, PartRead(s, i)>> \in Does
<1> DEFINE given == Source(s, s.command)
           from == PartRead(s, i - 1)
           to == PartRead(s, i)
<1>1. s.command \in 0 .. 255 /\ s.buffer \in Seq(Byte) /\ Nop \in Item
  BY Parts, NewItems
<1>2. given \in Seq(Byte) /\ Len(given) = Capacity(s.command)
  BY <1>1, SourceBytes DEF Gives
<1>3. /\ i - 1 \in 0 .. Capacity(s.command) /\ i \in 0 .. Capacity(s.command) /\ (i - 1) + 1 = i
      /\ i - 1 < Capacity(s.command)
  <2>1. Capacity(s.command) \in Nat
    BY <1>1, PlacesAreNumbers
  <2> QED
    BY <2>1
<1>4. from \in State /\ to \in State
  BY <1>3, PartsRead
<1>5. /\ from.csn = s.csn /\ from.command = s.command /\ from.count = i - 1
      /\ from.reg = s.reg /\ from.rxFifo = s.rxFifo
      /\ from.buffer = s.buffer \o SubSeq(given, 1, i - 1)
  BY DEF PartRead, State
<1>6. Source(from, from.command) = given /\ Gives(from)
  BY <1>5 DEF Source, Gives
<1> HIDE DEF given
<1>7. Append(from.buffer, given[i]) = s.buffer \o SubSeq(given, 1, i)
  <2>1. Append(s.buffer \o SubSeq(given, 1, i - 1), given[i]) = s.buffer \o SubSeq(given, 1, i)
    BY <1>1, <1>2, OneMoreByte
  <2> QED
    BY <1>5, <2>1
<1>8. to = [from EXCEPT !.count = i, !.buffer = Append(from.buffer, given[i])]
  BY <1>7 DEF PartRead, State, given
<1> HIDE DEF from, to
<1>9. ReadsByte(from, Nop, to)
  BY <1>3, <1>5, <1>6, <1>8 DEF ReadsByte, Gives
<1>10. <<from, Nop, to>> \in Does
  BY <1>1, <1>4, <1>9 DEF Does
<1> QED
  BY <1>10 DEF from, to

\* Bytes that are read come one after another.
LEMMA ReadingPath ==
  ASSUME NEW s \in State, ~ s.csn, s.count = 0, s.command # NoCommand, Gives(s),
         NEW data \in Seq(Item), Len(data) <= Capacity(s.command),
         \A i \in 1 .. Len(data) : data[i] = Nop
  PROVE  PartRead(s, Len(data)) \in State /\ Path(data, Does, s, PartRead(s, Len(data)))
<1> DEFINE at == [i \in 0 .. Len(data) |-> PartRead(s, i)]
<1>1. Len(data) \in Nat /\ \A i \in 0 .. Len(data) : at[i] = PartRead(s, i)
  OBVIOUS
<1> HIDE DEF at
<1>2. s.command \in 0 .. 255 /\ Capacity(s.command) \in Nat
  BY Parts, PlacesAreNumbers
<1>3. 0 \in 0 .. Len(data) /\ Len(data) \in 0 .. Len(data)
      /\ Len(data) \in 0 .. Capacity(s.command)
  BY <1>1, <1>2
<1>4. at[0] = s /\ at[Len(data)] = PartRead(s, Len(data))
  BY <1>1, <1>3, PartsRead
<1>5. ASSUME NEW i \in 1 .. Len(data)
      PROVE  <<at[i - 1], data[i], at[i]>> \in Does
  <2>1. i - 1 \in 0 .. Len(data) /\ i \in 0 .. Len(data) /\ i \in 1 .. Capacity(s.command)
    BY <1>1, <1>2
  <2>2. at[i - 1] = PartRead(s, i - 1) /\ at[i] = PartRead(s, i) /\ data[i] = Nop
    BY <1>1, <2>1
  <2>3. <<PartRead(s, i - 1), Nop, PartRead(s, i)>> \in Does
    BY <2>1, PartOfReading
  <2> QED
    BY <2>2, <2>3
<1>6. Path(data, Does, s, PartRead(s, Len(data)))
  BY <1>4, <1>5 DEF Path
<1> QED
  BY <1>3, <1>6, PartsRead

\* Some bytes are read.
Read(s, bytes) == [s EXCEPT !.csn = TRUE, !.buffer = s.buffer \o bytes]

\* A register is read from its first byte on.
LEMMA ReadingEnds ==
  ASSUME NEW s \in State, Clear(s), NEW r \in Register, NEW data \in Seq(Item),
         Len(data) <= Width(r), \A i \in 1 .. Len(data) : data[i] = Nop
  PROVE  Ends(Transaction(r % 32, data), s, Read(s, SubSeq(s.reg[r], 1, Len(data))))
<1> DEFINE u == Commanded(s, r % 32)
           bytes == SubSeq(s.reg[r], 1, Len(data))
           t == PartRead(u, Len(data))
<1>1. r % 32 = r /\ r \in 0 .. 31 /\ r \in 0 .. 255 /\ Capacity(r) = Width(r)
  <2>1. r % 32 = r /\ r \in 0 .. 31 /\ r \in 0 .. 255
    BY DEF Register
  <2> QED
    BY <2>1, RegisterCommands
<1>2. /\ r # NRF24_CMD_FLUSH_TX /\ r # NRF24_CMD_FLUSH_RX /\ r # NRF24_CMD_R_RX_PAYLOAD
      /\ r # NoCommand /\ Reads(r) /\ Addressed(r) = r
  BY <1>1 DEF NRF24_CMD_FLUSH_TX, NRF24_CMD_FLUSH_RX, NRF24_CMD_R_RX_PAYLOAD, NoCommand, Reads,
              Addressed
<1>3. u = [s EXCEPT !.csn = FALSE, !.command = r]
  BY <1>1, <1>2 DEF Commanded, State
<1>4. u \in State /\ ~ u.csn /\ u.count = 0 /\ u.command = r /\ u.shifted = << >>
      /\ u.buffer = s.buffer /\ u.reg = s.reg /\ u.txFifo = s.txFifo /\ u.rxFifo = s.rxFifo
  <2>1. u \in State
    BY <1>1, CommandedState
  <2>2. s \in State /\ s.count = 0 /\ s.shifted = << >>
    BY DEF Clear
  <2> HIDE DEF u
  <2> QED
    BY <1>3, <2>1, <2>2 DEF State
<1>5. Source(u, u.command) = s.reg[r]
  BY <1>2, <1>4 DEF Source
<1> HIDE DEF u
<1>6. t \in State /\ Path(data, Does, u, t)
  BY <1>1, <1>2, <1>4, ReadingPath DEF Gives
<1>7. t = [s EXCEPT !.csn = FALSE, !.command = r, !.count = Len(data), !.buffer = s.buffer \o bytes]
  BY <1>3, <1>4, <1>5 DEF State, PartRead
<1> HIDE DEF t, bytes
<1>8. ~ t.csn /\ Raised(t) = Read(s, bytes)
  BY <1>2, <1>7 DEF Raised, Read, State, Clear
<1>9. Ends(Transaction(r % 32, data), s, Raised(t))
  BY <1>1, <1>4, <1>6, <1>8, TransactionEnds DEF u
<1> QED
  BY <1>8, <1>9 DEF bytes

\* The two functions that read a register.
LEMMA ReadsRegister ==
  ASSUME NEW s \in State, Clear(s), NEW r \in Register
  PROVE  /\ Ends(nrf24_read_register(r), s, Read(s, SubSeq(s.reg[r], 1, 1)))
         /\ \A n \in 0 .. Width(r) :
              Ends(nrf24_read_multi_byte_register(r, n), s, Read(s, SubSeq(s.reg[r], 1, n)))
<1>1. Width(r) \in {1, 5} /\ Nop \in Item
  BY RegisterCommands, NewItems
<1>2. ASSUME NEW n \in 0 .. Width(r)
      PROVE  Ends(nrf24_read_multi_byte_register(r, n), s, Read(s, SubSeq(s.reg[r], 1, n)))
  <2> DEFINE data == [i \in 1 .. n |-> Nop]
  <2>1. data \in Seq(Item) /\ Len(data) = n /\ \A i \in 1 .. n : data[i] = Nop
    BY <1>1
  <2> HIDE DEF data
  <2>2. Ends(Transaction(r % 32, data), s, Read(s, SubSeq(s.reg[r], 1, n)))
    BY <1>1, <2>1, ReadingEnds
  <2> QED
    BY <2>2 DEF nrf24_read_multi_byte_register, data
<1>3. Ends(nrf24_read_register(r), s, Read(s, SubSeq(s.reg[r], 1, 1)))
  <2> DEFINE data == <<Nop>>
  <2>1. data \in Seq(Item) /\ Len(data) = 1 /\ \A i \in 1 .. 1 : data[i] = Nop
    BY <1>1
  <2> HIDE DEF data
  <2>2. Ends(Transaction(r % 32, data), s, Read(s, SubSeq(s.reg[r], 1, Len(data))))
    <3>1. Len(data) <= Width(r)
      BY <1>1, <2>1
    <3> QED
      BY <2>1, <3>1, ReadingEnds
  <2> QED
    BY <2>1, <2>2 DEF nrf24_read_register, data
<1> QED
  BY <1>2, <1>3
-----------------------------------------------------------------------------
(* Writing.                                                                *)

\* A register of which the first k bytes have been written.
Written(r, old, bytes, k) ==
  [j \in 1 .. Len(old) |-> IF j <= k THEN Stored(r, old[j], bytes[j]) ELSE old[j]]

\* What is stored is a byte.
LEMMA StoredByte ==
  ASSUME NEW r \in Register, NEW old \in Byte, NEW byte \in Byte
  PROVE  Stored(r, old, byte) \in Byte
BY DEF Stored, Byte

\* A register keeps its width, and nothing changes before the first byte.
LEMMA WrittenRegister ==
  ASSUME NEW image \in Registers, NEW r \in Register, NEW bytes \in Seq(Byte),
         NEW k \in 0 .. Len(bytes), Len(bytes) <= Width(r)
  PROVE  /\ Written(r, image[r], bytes, k) \in Seq(Byte)
         /\ Len(Written(r, image[r], bytes, k)) = Width(r)
         /\ Updated(image, r, Written(r, image[r], bytes, k)) \in Registers
         /\ k = 0 => Written(r, image[r], bytes, k) = image[r]
<1> DEFINE old == image[r]
           new == Written(r, old, bytes, k)
<1>1. /\ old \in Seq(Byte) /\ Len(old) = Width(r) /\ Width(r) \in Nat
      /\ \A j \in 1 .. Width(r) : old[j] \in Byte
      /\ \A j \in 1 .. Len(bytes) : bytes[j] \in Byte
      /\ image \in [Register -> Seq(Byte)]
      /\ \A q \in Register : Len(image[q]) = Width(q)
  <2>1. /\ image \in [Register -> Seq(Byte)] /\ \A q \in Register : Len(image[q]) = Width(q)
        /\ Width(r) \in Nat
    BY RegisterCommands DEF Registers
  <2>2. old \in Seq(Byte) /\ Len(old) = Width(r)
    BY <2>1
  <2> HIDE DEF old
  <2>3. \A j \in 1 .. Width(r) : old[j] \in Byte
    BY <2>2
  <2> QED
    BY <2>1, <2>2, <2>3
<1> HIDE DEF old
<1>2. \A j \in 1 .. Width(r) :
        (IF j <= k THEN Stored(r, old[j], bytes[j]) ELSE old[j]) \in Byte
  <2> TAKE j \in 1 .. Width(r)
  <2>1. j <= k => j \in 1 .. Len(bytes)
    BY <1>1
  <2>2. j <= k => Stored(r, old[j], bytes[j]) \in Byte
    BY <1>1, <2>1, StoredByte
  <2> QED
    BY <1>1, <2>2
<1>3. new = [j \in 1 .. Width(r) |-> IF j <= k THEN Stored(r, old[j], bytes[j]) ELSE old[j]]
  BY <1>1 DEF Written
<1> HIDE DEF new
<1>4. /\ new \in Seq(Byte) /\ Len(new) = Width(r)
      /\ \A j \in 1 .. Width(r) : new[j] = IF j <= k THEN Stored(r, old[j], bytes[j]) ELSE old[j]
  <2>1. new \in [1 .. Width(r) -> Byte]
    BY <1>2, <1>3
  <2>2. PICK width \in Nat : width = Width(r)
    BY <1>1
  <2>3. new \in Seq(Byte) /\ Len(new) = Width(r)
    BY <2>1, <2>2
  <2> QED
    BY <1>3, <2>3
<1>5. Updated(image, r, new) \in Registers
  BY <1>1, <1>4 DEF Registers, Updated
<1>6. ASSUME k = 0 PROVE new = old
  <2>1. \A j \in 1 .. Width(r) : new[j] = old[j]
    BY <1>4, <1>6
  <2> QED
    BY <1>1, <1>4, <2>1, SeqEqual
<1> QED
  BY <1>4, <1>5, <1>6 DEF new, old

\* One byte more is written.
LEMMA OneMoreWritten ==
  ASSUME NEW image \in Registers, NEW r \in Register, NEW bytes \in Seq(Byte),
         NEW m \in 0 .. Len(bytes), NEW i \in 1 .. Len(bytes), i = m + 1,
         Len(bytes) <= Width(r)
  PROVE  ByteWritten(Updated(image, r, Written(r, image[r], bytes, m)), r, i, bytes[i])
           = Updated(image, r, Written(r, image[r], bytes, i))
<1>1. i \in 0 .. Len(bytes) /\ m = i - 1 /\ Width(r) \in Nat /\ i \in 1 .. Width(r)
  BY RegisterCommands
<1>0. ASSUME NEW k \in 0 .. Len(bytes)
      PROVE  /\ Written(r, image[r], bytes, k) \in Seq(Byte)
             /\ Len(Written(r, image[r], bytes, k)) = Width(r)
             /\ \A j \in 1 .. Width(r) : Written(r, image[r], bytes, k)[j]
                  = IF j <= k THEN Stored(r, image[r][j], bytes[j]) ELSE image[r][j]
  <2>1. /\ Written(r, image[r], bytes, k) \in Seq(Byte)
        /\ Len(Written(r, image[r], bytes, k)) = Width(r)
    BY WrittenRegister
  <2>2. Len(image[r]) = Width(r)
    BY DEF Registers
  <2>3. \A j \in 1 .. Width(r) : Written(r, image[r], bytes, k)[j]
          = IF j <= k THEN Stored(r, image[r][j], bytes[j]) ELSE image[r][j]
    BY <2>2 DEF Written
  <2> QED
    BY <2>1, <2>3
<1> DEFINE old == image[r]
           a == Written(r, old, bytes, m)
           b == Written(r, old, bytes, i)
<1>2. /\ a \in Seq(Byte) /\ Len(a) = Width(r)
      /\ \A j \in 1 .. Width(r) : a[j]
           = IF j <= i - 1 THEN Stored(r, old[j], bytes[j]) ELSE old[j]
  BY <1>0, <1>1
<1>3. /\ b \in Seq(Byte) /\ Len(b) = Width(r)
      /\ \A j \in 1 .. Width(r) : b[j] = IF j <= i THEN Stored(r, old[j], bytes[j]) ELSE old[j]
  BY <1>0, <1>1
<1> HIDE DEF a, b, old
<1>4. b = [a EXCEPT ![i] = Stored(r, a[i], bytes[i])]
  <2> DEFINE new == [a EXCEPT ![i] = Stored(r, a[i], bytes[i])]
  <2>1. a[i] = old[i] /\ b[i] = Stored(r, old[i], bytes[i]) /\ b[i] \in Byte
    BY <1>1, <1>2, <1>3
  <2>2. new = [a EXCEPT ![i] = b[i]]
    BY <2>1
  <2>3. new \in Seq(Byte) /\ Len(new) = Width(r)
    BY <1>1, <1>2, <2>1, <2>2
  <2>4. ASSUME NEW j \in 1 .. Width(r) PROVE new[j] = b[j]
    <3>1. CASE j = i
      BY <1>2, <2>2, <3>1
    <3>2. CASE j # i
      <4>1. new[j] = a[j] /\ (j <= i <=> j <= i - 1)
        BY <1>1, <1>2, <2>2, <3>2
      <4> QED
        BY <1>2, <1>3, <4>1
    <3> QED
      BY <3>1, <3>2
  <2> HIDE DEF new
  <2>5. new = b
    BY <1>3, <2>3, <2>4, SeqEqual
  <2> QED
    BY <2>5 DEF new
<1>5. image \in [Register -> Seq(Byte)]
  BY DEF Registers
<1>6. Updated(image, r, a)[r] = a
  BY <1>5 DEF Updated
<1>7. ByteWritten(Updated(image, r, a), r, i, bytes[i]) = Updated(Updated(image, r, a), r, b)
  BY <1>4, <1>6 DEF ByteWritten
<1>8. Updated(Updated(image, r, a), r, b) = Updated(image, r, b)
  BY <1>5 DEF Updated
<1> QED
  BY <1>7, <1>8 DEF a, b, old

\* One byte is not none.
LEMMA SomeBytes ==
  ASSUME NEW bytes \in Seq(Byte), Len(bytes) = 1
  PROVE  bytes # << >>
OBVIOUS

\* Nothing but the first byte is written.
LEMMA FirstByteWritten ==
  ASSUME NEW image \in Registers, NEW r \in Register, NEW bytes \in Seq(Byte),
         bytes # << >>, Len(bytes) <= Width(r)
  PROVE  ByteWritten(image, r, 1, bytes[1]) = Updated(image, r, Written(r, image[r], bytes, 1))
<1>1. /\ 1 \in 1 .. Len(bytes) /\ 0 \in 0 .. Len(bytes) /\ 1 = 0 + 1
      /\ Len(bytes) <= Width(r)
  BY RegisterCommands
<1>2. Updated(image, r, Written(r, image[r], bytes, 0)) = image
  <2>1. Written(r, image[r], bytes, 0) = image[r]
    BY <1>1, WrittenRegister
  <2> QED
    BY <2>1 DEF Registers, Updated
<1>3. PICK m \in 0 .. Len(bytes), i \in 1 .. Len(bytes) : m = 0 /\ i = 1
  BY <1>1
<1>4. i = m + 1
  BY <1>3
<1>5. ByteWritten(Updated(image, r, Written(r, image[r], bytes, m)), r, i, bytes[i])
        = Updated(image, r, Written(r, image[r], bytes, i))
  BY <1>1, <1>4, OneMoreWritten
<1> QED
  BY <1>2, <1>3, <1>5

\* The command that writes a register, which is none of the others.
LEMMA WriteCommands ==
  ASSUME NEW r \in Register
  PROVE  /\ WriteCommand(r) \in 0 .. 255 /\ Writes(WriteCommand(r))
         /\ Addressed(WriteCommand(r)) = r /\ Capacity(WriteCommand(r)) = Width(r)
         /\ WriteCommand(r) \notin {NRF24_CMD_FLUSH_TX, NRF24_CMD_FLUSH_RX,
                                   NRF24_CMD_R_RX_PAYLOAD, NRF24_CMD_W_TX_PAYLOAD, NoCommand}
<1>1. r \in 0 .. 31 /\ r % 32 = r /\ (32 + r) % 32 = r
  BY DEF Register
<1>2. WriteCommand(r) = 32 + r
  BY <1>1 DEF WriteCommand, NRF24_CMD_W_REGISTER
<1>3. WriteCommand(r) \in 32 .. 63 /\ Addressed(WriteCommand(r)) = r
  BY <1>1, <1>2 DEF Addressed
<1>4. Capacity(WriteCommand(r)) = Width(r)
  BY RegisterCommands
<1> QED
  BY <1>3, <1>4 DEF Writes, NRF24_CMD_FLUSH_TX, NRF24_CMD_FLUSH_RX, NRF24_CMD_R_RX_PAYLOAD,
                    NRF24_CMD_W_TX_PAYLOAD, NoCommand

\* The transaction when k bytes have been written.
PartWritten(s, r, bytes, k) ==
  [s EXCEPT !.count = k, !.reg = Updated(s.reg, r, Written(r, s.reg[r], bytes, k))]

\* These are states, the first of them the one before.
LEMMA PartsWritten ==
  ASSUME NEW s \in State, NEW r \in Register, NEW bytes \in Seq(Byte), Len(bytes) <= Width(r)
  PROVE  /\ \A k \in 0 .. Len(bytes) : PartWritten(s, r, bytes, k) \in State
         /\ s.count = 0 => PartWritten(s, r, bytes, 0) = s
<1>1. s.reg \in Registers /\ s.reg \in [Register -> Seq(Byte)] /\ 0 \in 0 .. Len(bytes)
  BY Parts
<1>2. \A k \in 0 .. Len(bytes) :
        Updated(s.reg, r, Written(r, s.reg[r], bytes, k)) \in Registers
  BY <1>1, WrittenRegister
<1>3. Updated(s.reg, r, Written(r, s.reg[r], bytes, 0)) = s.reg
  <2>1. Written(r, s.reg[r], bytes, 0) = s.reg[r]
    BY <1>1, WrittenRegister
  <2> QED
    BY <1>1, <2>1 DEF Updated
<1>4. ASSUME NEW k \in 0 .. Len(bytes) PROVE PartWritten(s, r, bytes, k) \in State
  <2>1. k \in Nat
    BY <1>1
  <2> QED
    BY <1>2, <2>1 DEF PartWritten, State
<1>5. ASSUME s.count = 0 PROVE PartWritten(s, r, bytes, 0) = s
  BY <1>3, <1>5 DEF PartWritten, State
<1> QED
  BY <1>4, <1>5

\* One byte leads from one to the next.
LEMMA PartOfWriting ==
  ASSUME NEW s \in State, ~ s.csn, NEW r \in Register, s.command = WriteCommand(r),
         NEW bytes \in Seq(Byte), Len(bytes) <= Width(r), NEW i \in 1 .. Len(bytes)
  PROVE  <<PartWritten(s, r, bytes, i - 1), Data(bytes[i]), PartWritten(s, r, bytes, i)>> \in Does
<1>1. /\ i - 1 \in 0 .. Len(bytes) /\ i \in 0 .. Len(bytes) /\ (i - 1) + 1 = i
      /\ bytes[i] \in Byte /\ Width(r) \in {1, 5}
  BY RegisterCommands
<1>2. /\ Data(bytes[i]) \in Item /\ Data(bytes[i])[1] = "data" /\ Data(bytes[i])[2] = bytes[i]
  BY <1>1, NewItems
<1>3. /\ Writes(s.command) /\ Addressed(s.command) = r
      /\ i - 1 < Capacity(s.command)
  BY <1>1, WriteCommands
<1> DEFINE from == PartWritten(s, r, bytes, i - 1)
           to == PartWritten(s, r, bytes, i)
<1>4. from \in State /\ to \in State
  BY <1>1, PartsWritten
<1>5. s.reg \in Registers
  BY Parts
<1>6. /\ from.csn = s.csn /\ from.command = s.command /\ from.count = i - 1
      /\ from.reg = Updated(s.reg, r, Written(r, s.reg[r], bytes, i - 1))
  BY DEF PartWritten, State
<1>7. ByteWritten(from.reg, r, i, bytes[i]) = Updated(s.reg, r, Written(r, s.reg[r], bytes, i))
  BY <1>5, <1>6, OneMoreWritten
<1>8. to = [from EXCEPT !.count = i, !.reg = ByteWritten(from.reg, r, i, bytes[i])]
  BY <1>7 DEF PartWritten, State
<1> HIDE DEF from, to
<1>9. WritesRegister(from, Data(bytes[i]), to)
  BY <1>1, <1>2, <1>3, <1>6, <1>8 DEF WritesRegister
<1>10. <<from, Data(bytes[i]), to>> \in Does
  BY <1>2, <1>4, <1>9 DEF Does
<1> QED
  BY <1>10 DEF from, to

\* Bytes that are written to a register go one after another.
LEMMA WritingPath ==
  ASSUME NEW s \in State, ~ s.csn, s.count = 0, NEW r \in Register, s.command = WriteCommand(r),
         NEW bytes \in Seq(Byte), Len(bytes) <= Width(r),
         NEW data \in Seq(Item), Len(data) = Len(bytes),
         \A i \in 1 .. Len(data) : data[i] = Data(bytes[i])
  PROVE  /\ PartWritten(s, r, bytes, Len(bytes)) \in State
         /\ Path(data, Does, s, PartWritten(s, r, bytes, Len(bytes)))
<1> DEFINE at == [i \in 0 .. Len(data) |-> PartWritten(s, r, bytes, i)]
<1>1. Len(data) \in Nat /\ \A i \in 0 .. Len(data) : at[i] = PartWritten(s, r, bytes, i)
  OBVIOUS
<1> HIDE DEF at
<1>2. 0 \in 0 .. Len(data) /\ Len(data) \in 0 .. Len(bytes)
  BY <1>1
<1>3. at[0] = s /\ at[Len(data)] = PartWritten(s, r, bytes, Len(bytes))
  BY <1>1, <1>2, PartsWritten
<1>4. ASSUME NEW i \in 1 .. Len(data)
      PROVE  <<at[i - 1], data[i], at[i]>> \in Does
  <2>1. i - 1 \in 0 .. Len(data) /\ i \in 0 .. Len(data) /\ i \in 1 .. Len(bytes)
    BY <1>1
  <2>2. /\ at[i - 1] = PartWritten(s, r, bytes, i - 1) /\ at[i] = PartWritten(s, r, bytes, i)
        /\ data[i] = Data(bytes[i])
    BY <1>1, <2>1
  <2>3. <<PartWritten(s, r, bytes, i - 1), Data(bytes[i]), PartWritten(s, r, bytes, i)>> \in Does
    BY <2>1, PartOfWriting
  <2> QED
    BY <2>2, <2>3
<1>5. Path(data, Does, s, PartWritten(s, r, bytes, Len(bytes)))
  BY <1>3, <1>4 DEF Path
<1> QED
  BY <1>2, <1>5, PartsWritten

\* A register becomes another.
Changed(s, r, value) == [s EXCEPT !.csn = TRUE, !.reg = Updated(s.reg, r, value)]

\* A register is written from its first byte on.
LEMMA WritingEnds ==
  ASSUME NEW s \in State, Clear(s), NEW r \in Register,
         NEW bytes \in Seq(Byte), Len(bytes) <= Width(r),
         NEW data \in Seq(Item), Len(data) = Len(bytes),
         \A i \in 1 .. Len(data) : data[i] = Data(bytes[i])
  PROVE  Ends(Transaction(WriteCommand(r), data), s,
              Changed(s, r, Written(r, s.reg[r], bytes, Len(bytes))))
<1> DEFINE number == WriteCommand(r)
           new == Updated(s.reg, r, Written(r, s.reg[r], bytes, Len(bytes)))
           u == Commanded(s, number)
           t == PartWritten(u, r, bytes, Len(bytes))
<1>1. number \in 0 .. 255
  BY WriteCommands
<1>2. /\ number # NRF24_CMD_FLUSH_TX /\ number # NRF24_CMD_FLUSH_RX
      /\ number # NRF24_CMD_R_RX_PAYLOAD /\ number # NoCommand
  BY WriteCommands
<1>3. u = [s EXCEPT !.csn = FALSE, !.command = number]
  BY <1>2 DEF Commanded, State
<1>4. u \in State
  BY <1>1, CommandedState
<1> HIDE DEF number
<1>5. /\ ~ u.csn /\ u.count = 0 /\ u.command = number /\ u.shifted = << >>
      /\ u.reg = s.reg
  <2>1. s \in State /\ s.count = 0 /\ s.shifted = << >>
    BY DEF Clear
  <2> HIDE DEF u
  <2> QED
    BY <1>3, <1>4, <2>1 DEF State
<1> HIDE DEF u
<1>6. t \in State /\ Path(data, Does, u, t)
  BY <1>4, <1>5, WritingPath DEF number
<1>7. t = [s EXCEPT !.csn = FALSE, !.command = number, !.count = Len(bytes), !.reg = new]
  BY <1>3, <1>5 DEF State, PartWritten
<1> HIDE DEF t, new
<1>8. ~ t.csn /\ Raised(t) = [s EXCEPT !.csn = TRUE, !.reg = new]
  BY <1>2, <1>7 DEF Raised, State, Clear
<1>9. Ends(Transaction(number, data), s, Raised(t))
  BY <1>1, <1>6, <1>8, TransactionEnds DEF u
<1> QED
  BY <1>8, <1>9 DEF Changed, number, new

\* The functions that write a register: one byte, or several.
LEMMA WritesRegisters ==
  ASSUME NEW s \in State, Clear(s), NEW r \in Register
  PROVE  /\ \A value \in Byte :
              Ends(nrf24_write_register(r, value), s,
                   [s EXCEPT !.csn = TRUE, !.reg = ByteWritten(s.reg, r, 1, value)])
         /\ \A bytes \in Seq(Byte) : Len(bytes) <= Width(r) =>
              Ends(nrf24_write_multi_byte_register(r, bytes), s,
                   Changed(s, r, Written(r, s.reg[r], bytes, Len(bytes))))
<1>1. ASSUME NEW bytes \in Seq(Byte), Len(bytes) <= Width(r)
      PROVE  Ends(nrf24_write_multi_byte_register(r, bytes), s,
                  Changed(s, r, Written(r, s.reg[r], bytes, Len(bytes))))
  <2> DEFINE data == [i \in DOMAIN bytes |-> Data(bytes[i])]
  <2>1. Len(bytes) \in Nat /\ DOMAIN bytes = 1 .. Len(bytes)
        /\ \A i \in 1 .. Len(bytes) : bytes[i] \in Byte
    OBVIOUS
  <2>2. \A i \in 1 .. Len(bytes) : Data(bytes[i]) \in Item
    BY <2>1, NewItems
  <2>3. data \in Seq(Item) /\ Len(data) = Len(bytes)
        /\ \A i \in 1 .. Len(bytes) : data[i] = Data(bytes[i])
    BY <2>1, <2>2
  <2> HIDE DEF data
  <2>4. Ends(Transaction(WriteCommand(r), data), s,
             Changed(s, r, Written(r, s.reg[r], bytes, Len(bytes))))
    BY <1>1, <2>3, WritingEnds
  <2> QED
    BY <2>4 DEF nrf24_write_multi_byte_register, data
<1>2. ASSUME NEW value \in Byte
      PROVE  Ends(nrf24_write_register(r, value), s,
                  [s EXCEPT !.csn = TRUE, !.reg = ByteWritten(s.reg, r, 1, value)])
  <2> DEFINE bytes == <<value>>
             data == <<Data(value)>>
  <2>1. bytes \in Seq(Byte) /\ Len(bytes) = 1 /\ bytes[1] = value /\ Width(r) >= 1
    BY RegisterCommands
  <2>2. Data(value) \in Item
    BY NewItems
  <2>3. data \in Seq(Item) /\ Len(data) = 1 /\ data[1] = Data(value)
    BY <2>2
  <2> HIDE DEF bytes, data
  <2>4. \A i \in 1 .. 1 : data[i] = Data(bytes[i])
    BY <2>1, <2>3
  <2>5. Ends(Transaction(WriteCommand(r), data), s,
             Changed(s, r, Written(r, s.reg[r], bytes, Len(bytes))))
    BY <2>1, <2>3, <2>4, WritingEnds
  <2>6. ByteWritten(s.reg, r, 1, value) = Updated(s.reg, r, Written(r, s.reg[r], bytes, 1))
    <3>1. s.reg \in Registers
      BY Parts
    <3>3. Len(bytes) <= Width(r)
      <4>1. Width(r) \in {1, 5}
        BY RegisterCommands
      <4> QED
        BY <2>1, <4>1
    <3>4. bytes # << >>
      BY <2>1, SomeBytes
    <3>2. ByteWritten(s.reg, r, 1, bytes[1])
            = Updated(s.reg, r, Written(r, s.reg[r], bytes, 1))
      BY <2>1, <3>1, <3>3, <3>4, FirstByteWritten, Zenon
    <3> QED
      BY <2>1, <3>2
  <2> QED
    BY <2>1, <2>5, <2>6 DEF nrf24_write_register, data, Changed
<1> QED
  BY <1>1, <1>2
-----------------------------------------------------------------------------
(* Payloads and commands.                                                  *)

\* The transaction when k bytes of a payload have been shifted.
PartShifted(s, bytes, k) == [s EXCEPT !.count = k, !.shifted = SubSeq(bytes, 1, k)]

\* One byte leads from one to the next.
LEMMA PartOfShifting ==
  ASSUME NEW s \in State, ~ s.csn, s.command = NRF24_CMD_W_TX_PAYLOAD,
         NEW bytes \in Seq(Byte), NEW i \in 1 .. Len(bytes)
  PROVE  <<PartShifted(s, bytes, i - 1), Data(bytes[i]), PartShifted(s, bytes, i)>> \in Does
<1> DEFINE from == PartShifted(s, bytes, i - 1)
           to == PartShifted(s, bytes, i)
<1>1. /\ i - 1 \in Nat /\ i \in Nat /\ (i - 1) + 1 = i /\ bytes[i] \in Byte
      /\ SubSeq(bytes, 1, i - 1) \in Seq(Byte) /\ SubSeq(bytes, 1, i) \in Seq(Byte)
  OBVIOUS
<1>2. /\ Data(bytes[i]) \in Item /\ Data(bytes[i])[1] = "data" /\ Data(bytes[i])[2] = bytes[i]
  BY <1>1, NewItems
<1>3. Append(SubSeq(bytes, 1, i - 1), bytes[i]) = SubSeq(bytes, 1, i)
  OBVIOUS
<1>4. from \in State /\ to \in State
  BY <1>1 DEF PartShifted, State
<1>5. /\ from.csn = s.csn /\ from.command = s.command /\ from.count = i - 1
      /\ from.shifted = SubSeq(bytes, 1, i - 1)
  BY DEF PartShifted, State
<1>6. to = [from EXCEPT !.count = i, !.shifted = SubSeq(bytes, 1, i)]
  BY DEF PartShifted, State
<1> HIDE DEF from, to
<1>7. WritesPayload(from, Data(bytes[i]), to)
  BY <1>1, <1>2, <1>3, <1>5, <1>6 DEF WritesPayload
<1>8. <<from, Data(bytes[i]), to>> \in Does
  BY <1>2, <1>4, <1>7 DEF Does
<1> QED
  BY <1>8 DEF from, to

\* A payload that is being written may be any bytes.
LEMMA ShiftedState ==
  ASSUME NEW s \in State, NEW n \in Nat, NEW bytes \in Seq(Byte)
  PROVE  [s EXCEPT !.count = n, !.shifted = bytes] \in State
BY DEF State

\* A payload is written byte by byte.
LEMMA ShiftingPath ==
  ASSUME NEW s \in State, ~ s.csn, s.count = 0, s.shifted = << >>,
         s.command = NRF24_CMD_W_TX_PAYLOAD, NEW bytes \in Seq(Byte),
         NEW data \in Seq(Item), Len(data) = Len(bytes),
         \A i \in 1 .. Len(data) : data[i] = Data(bytes[i])
  PROVE  /\ PartShifted(s, bytes, Len(bytes)) = [s EXCEPT !.count = Len(bytes), !.shifted = bytes]
         /\ PartShifted(s, bytes, Len(bytes)) \in State
         /\ Path(data, Does, s, PartShifted(s, bytes, Len(bytes)))
<1> DEFINE at == [i \in 0 .. Len(data) |-> PartShifted(s, bytes, i)]
<1>1. Len(data) \in Nat /\ \A i \in 0 .. Len(data) : at[i] = PartShifted(s, bytes, i)
  OBVIOUS
<1> HIDE DEF at
<1>2. 0 \in 0 .. Len(data) /\ Len(data) \in 0 .. Len(data)
  BY <1>1
<1>3. SubSeq(bytes, 1, 0) = << >> /\ SubSeq(bytes, 1, Len(bytes)) = bytes
  OBVIOUS
<1>4. PartShifted(s, bytes, 0) = s
  BY <1>3 DEF PartShifted, State
<1>5. PartShifted(s, bytes, Len(bytes)) = [s EXCEPT !.count = Len(bytes), !.shifted = bytes]
  BY <1>3 DEF PartShifted
<1>6. [s EXCEPT !.count = Len(bytes), !.shifted = bytes] \in State
  <2>1. Len(bytes) \in Nat
    OBVIOUS
  <2> QED
    BY <2>1, ShiftedState
<1>7. at[0] = s /\ at[Len(data)] = PartShifted(s, bytes, Len(bytes))
  BY <1>1, <1>2, <1>4
<1>8. ASSUME NEW i \in 1 .. Len(data)
      PROVE  <<at[i - 1], data[i], at[i]>> \in Does
  <2>1. i - 1 \in 0 .. Len(data) /\ i \in 0 .. Len(data) /\ i \in 1 .. Len(bytes)
    BY <1>1
  <2>2. /\ at[i - 1] = PartShifted(s, bytes, i - 1) /\ at[i] = PartShifted(s, bytes, i)
        /\ data[i] = Data(bytes[i])
    BY <1>1, <2>1
  <2>3. <<PartShifted(s, bytes, i - 1), Data(bytes[i]), PartShifted(s, bytes, i)>> \in Does
    BY <2>1, PartOfShifting
  <2> QED
    BY <2>2, <2>3
<1>9. Path(data, Does, s, PartShifted(s, bytes, Len(bytes)))
  BY <1>7, <1>8 DEF Path
<1> QED
  BY <1>5, <1>6, <1>9

\* A frame, if there is one, is loaded behind the others.
Loaded(fifo, bytes) == IF bytes # << >> THEN Append(fifo, bytes) ELSE fifo

\* The function that writes a payload loads its bytes.
LEMMA LoadsPayload ==
  ASSUME NEW s \in State, Clear(s), NEW n \in Nat
  PROVE  Ends(nrf24_write_tx_payload(n), s,
              [s EXCEPT !.csn = TRUE, !.txFifo = Loaded(s.txFifo, Passed(PayloadLength(n)))])
<1> DEFINE number == NRF24_CMD_W_TX_PAYLOAD
           length == PayloadLength(n)
           bytes == Passed(length)
           data == [i \in 1 .. length |-> Data({i % 8})]
           u == Commanded(s, number)
           t == PartShifted(u, bytes, Len(bytes))
<1>1. /\ number \in 0 .. 255 /\ number # NRF24_CMD_FLUSH_TX /\ number # NRF24_CMD_FLUSH_RX
      /\ number # NRF24_CMD_R_RX_PAYLOAD /\ number # NoCommand
  BY DEF NRF24_CMD_W_TX_PAYLOAD, NRF24_CMD_FLUSH_TX, NRF24_CMD_FLUSH_RX,
         NRF24_CMD_R_RX_PAYLOAD, NoCommand
<1>2. length \in Nat
  BY PayloadSizeAssumption DEF PayloadLength
<1> HIDE DEF length
<1>3. bytes \in Seq(Byte) /\ Len(bytes) = length /\ \A i \in 1 .. length : bytes[i] = {i % 8}
  BY <1>2, PassedBytes DEF Passed
<1>4. \A i \in 1 .. length : bytes[i] \in Byte
  BY <1>2, <1>3
<1> HIDE DEF bytes
<1>5. \A i \in 1 .. length : Data({i % 8}) = Data(bytes[i]) /\ Data(bytes[i]) \in Item
  BY <1>3, <1>4, NewItems
<1>6. /\ data \in Seq(Item) /\ Len(data) = Len(bytes)
      /\ \A i \in 1 .. Len(data) : data[i] = Data(bytes[i])
  <2>1. data \in [1 .. length -> Item] /\ \A i \in 1 .. length : data[i] = Data(bytes[i])
    BY <1>5
  <2> HIDE DEF data
  <2>2. data \in Seq(Item) /\ Len(data) = length
    BY <1>2, <2>1
  <2> QED
    BY <1>3, <2>1, <2>2
<1>7. u = [s EXCEPT !.csn = FALSE, !.command = number]
  BY <1>1 DEF Commanded, State
<1>8. u \in State
  BY <1>1, CommandedState
<1> HIDE DEF u, data, number
<1>9. ~ u.csn /\ u.count = 0 /\ u.command = number /\ u.shifted = << >>
  <2>1. s \in State /\ s.count = 0 /\ s.shifted = << >>
    BY DEF Clear
  <2> QED
    BY <1>7, <1>8, <2>1 DEF State
<1>10. /\ t = [u EXCEPT !.count = Len(bytes), !.shifted = bytes]
       /\ t \in State /\ Path(data, Does, u, t)
  BY <1>3, <1>6, <1>8, <1>9, ShiftingPath DEF number
<1> HIDE DEF t
<1>11. /\ t.csn = FALSE /\ t.command = number /\ t.shifted = bytes /\ t.reg = s.reg
       /\ t.txFifo = s.txFifo /\ t.rxFifo = s.rxFifo /\ t.buffer = s.buffer
  BY <1>7, <1>10 DEF State
<1>12. Raised(t) = [s EXCEPT !.csn = TRUE, !.txFifo = Loaded(s.txFifo, bytes)]
  <2>1. s.command = NoCommand /\ s.count = 0 /\ s.shifted = << >>
    BY DEF Clear
  <2>2. /\ Raised(t).csn = TRUE /\ Raised(t).command = s.command /\ Raised(t).count = s.count
        /\ Raised(t).shifted = s.shifted /\ Raised(t).reg = s.reg
        /\ Raised(t).txFifo = Loaded(s.txFifo, bytes) /\ Raised(t).rxFifo = s.rxFifo
        /\ Raised(t).buffer = s.buffer
    BY <1>1, <1>10, <1>11, <2>1 DEF Raised, Loaded, State
  <2>3. Raised(t) \in State
    BY <1>10, RaisedState
  <2> DEFINE v == [s EXCEPT !.csn = TRUE, !.txFifo = Loaded(s.txFifo, bytes)]
  <2>4. /\ v.csn = TRUE /\ v.command = s.command /\ v.count = s.count
        /\ v.shifted = s.shifted /\ v.reg = s.reg
        /\ v.txFifo = Loaded(s.txFifo, bytes) /\ v.rxFifo = s.rxFifo /\ v.buffer = s.buffer
    BY DEF State
  <2>5. v \in State
    BY <2>2, <2>3, Parts DEF State
  <2> HIDE DEF v
  <2>6. Raised(t) = v
    BY <2>2, <2>3, <2>4, <2>5, SameState
  <2> QED
    BY <2>6 DEF v
<1>13. Ends(Transaction(number, data), s, Raised(t))
  BY <1>1, <1>6, <1>10, <1>11, TransactionEnds DEF u
<1> QED
  BY <1>12, <1>13 DEF nrf24_write_tx_payload, data, number, bytes, length

\* What was read is added to what was read before.
LEMMA ReadState ==
  ASSUME NEW s \in State, NEW bytes \in Seq(Byte)
  PROVE  /\ Read(s, bytes) \in State /\ Read(s, bytes).csn = TRUE
         /\ Read(s, bytes).buffer = s.buffer \o bytes /\ Read(s, bytes).reg = s.reg
         /\ Read(s, bytes).command = s.command /\ Read(s, bytes).count = s.count
         /\ Read(s, bytes).shifted = s.shifted /\ Read(s, bytes).txFifo = s.txFifo
         /\ Read(s, bytes).rxFifo = s.rxFifo
<1> DEFINE all == s.buffer \o bytes
<1>1. all \in Seq(Byte)
  BY Parts
<1> HIDE DEF all
<1>2. Read(s, bytes) = [s EXCEPT !.csn = TRUE, !.buffer = all]
  BY DEF Read, all
<1>3. Read(s, bytes).buffer = all
  BY <1>2 DEF State
<1> QED
  BY <1>1, <1>2, <1>3 DEF State, all

\* What CSN leaves alone when it rises, and what it does not.
LEMMA RaisedParts ==
  ASSUME NEW s \in State
  PROVE  /\ Raised(s).csn = TRUE /\ Raised(s).command = NoCommand /\ Raised(s).count = 0
         /\ Raised(s).shifted = << >> /\ Raised(s).reg = s.reg /\ Raised(s).buffer = s.buffer
         /\ s.shifted = << >> => Raised(s).txFifo = s.txFifo
         /\ Raised(s).rxFifo
              = IF s.command = NRF24_CMD_R_RX_PAYLOAD /\ s.count > 0 /\ s.rxFifo # << >>
                THEN Tail(s.rxFifo) ELSE s.rxFifo
BY DEF Raised, State

\* Another FIFO of received payloads.
LEMMA TakenParts ==
  ASSUME NEW s \in State, NEW fifo \in Seq(Payload), NEW t, t = [s EXCEPT !.rxFifo = fifo]
  PROVE  /\ t \in State /\ t.csn = s.csn /\ t.command = s.command /\ t.count = s.count
         /\ t.shifted = s.shifted /\ t.reg = s.reg /\ t.txFifo = s.txFifo /\ t.rxFifo = fifo
         /\ t.buffer = s.buffer
BY DEF State

\* After a payload was read, CSN rises with the oldest one gone.
LEMMA RaisedTaken ==
  ASSUME NEW s \in State, NEW t \in State, Clear(s),
         NEW bytes \in Seq(Byte), NEW fifo \in Seq(Payload),
         t.shifted = s.shifted, t.reg = s.reg, t.txFifo = s.txFifo,
         t.buffer = s.buffer \o bytes, Raised(t).rxFifo = fifo
  PROVE  Raised(t) = [Read(s, bytes) EXCEPT !.rxFifo = fifo]
<1> DEFINE u == Read(s, bytes)
           v == [u EXCEPT !.rxFifo = fifo]
<1>1. s.command = NoCommand /\ s.count = 0 /\ s.shifted = << >>
  BY DEF Clear
<1>2. Raised(t) \in State
  BY RaisedState
<1>3. /\ Raised(t).csn = TRUE /\ Raised(t).command = NoCommand /\ Raised(t).count = 0
      /\ Raised(t).shifted = << >> /\ Raised(t).reg = s.reg /\ Raised(t).txFifo = s.txFifo
      /\ Raised(t).buffer = s.buffer \o bytes
  BY <1>1, RaisedParts
<1>4. /\ u \in State /\ u.csn = TRUE /\ u.command = NoCommand /\ u.count = 0
      /\ u.shifted = << >> /\ u.reg = s.reg /\ u.txFifo = s.txFifo
      /\ u.buffer = s.buffer \o bytes
  BY <1>1, ReadState
<1> HIDE DEF u
<1>5. /\ v \in State /\ v.csn = u.csn /\ v.command = u.command /\ v.count = u.count
      /\ v.shifted = u.shifted /\ v.reg = u.reg /\ v.txFifo = u.txFifo /\ v.rxFifo = fifo
      /\ v.buffer = u.buffer
  BY <1>4, TakenParts
<1> HIDE DEF v
<1>6. Raised(t) = v
  <2> DEFINE w == Raised(t)
  <2>1. /\ w.csn = v.csn /\ w.command = v.command /\ w.count = v.count /\ w.reg = v.reg
        /\ w.shifted = v.shifted /\ w.txFifo = v.txFifo /\ w.rxFifo = v.rxFifo
        /\ w.buffer = v.buffer
    BY <1>3, <1>4, <1>5, Zenon
  <2> HIDE DEF w
  <2> QED
    BY <1>2, <1>5, <2>1, SameState, Zenon DEF w
<1> QED
  BY <1>6 DEF u, v

\* As many bytes of the oldest payload as are asked for.
LEMMA TakenBytes ==
  ASSUME NEW s \in State, s.rxFifo # << >>, NEW n \in Nat
  PROVE  SubSeq(Head(s.rxFifo), 1, PayloadLength(n)) \in Seq(Byte)
<1>1. Head(s.rxFifo) \in [1 .. PayloadSize -> Byte]
  <2>1. Head(s.rxFifo) \in Payload
    BY Parts
  <2> QED
    BY <2>1 DEF Payload
<1>2. Head(s.rxFifo) \in Seq(Byte) /\ Len(Head(s.rxFifo)) = PayloadSize
  BY <1>1, PayloadSizeAssumption
<1>3. PayloadLength(n) \in Nat /\ PayloadLength(n) <= PayloadSize
  BY PayloadSizeAssumption DEF PayloadLength
<1> QED
  BY <1>2, <1>3

\* The function that reads a payload takes it from the FIFO, unless it asks for no byte.
LEMMA TakesPayload ==
  ASSUME NEW s \in State, Clear(s), s.rxFifo # << >>, NEW n \in Nat
  PROVE  Ends(nrf24_read_rx_payload(n), s,
              [Read(s, SubSeq(Head(s.rxFifo), 1, PayloadLength(n)))
                 EXCEPT !.rxFifo = IF n > 0 THEN Tail(s.rxFifo) ELSE s.rxFifo])
<1> DEFINE number == NRF24_CMD_R_RX_PAYLOAD
           length == PayloadLength(n)
           data == [i \in 1 .. length |-> Nop]
           bytes == SubSeq(Head(s.rxFifo), 1, length)
           u == Commanded(s, number)
           t == PartRead(u, length)
<1>1. /\ number \in 0 .. 255 /\ number # NRF24_CMD_FLUSH_TX /\ number # NRF24_CMD_FLUSH_RX
      /\ number # NoCommand /\ ~ Reads(number) /\ ~ Writes(number)
  BY DEF NRF24_CMD_FLUSH_TX, NRF24_CMD_FLUSH_RX, NRF24_CMD_R_RX_PAYLOAD, NoCommand, Reads, Writes
<1>2. length \in Nat /\ length <= PayloadSize /\ (length > 0 <=> n > 0)
  BY PayloadSizeAssumption DEF PayloadLength
<1>3. Capacity(number) = PayloadSize
  BY <1>1 DEF Capacity
<1> HIDE DEF length
<1>4. data \in Seq(Item) /\ Len(data) = length /\ \A i \in 1 .. Len(data) : data[i] = Nop
  <2>1. Nop \in Item /\ length \in Nat
    BY <1>2, NewItems
  <2> HIDE DEF Nop, Item
  <2> QED
    BY <2>1
<1>5. u = [s EXCEPT !.csn = FALSE, !.command = number]
  BY <1>1 DEF Commanded, State
<1>6. u \in State
  BY <1>1, CommandedState
<1> HIDE DEF u, data
<1>7. ~ u.csn /\ u.count = 0 /\ u.command = number /\ u.shifted = << >> /\ u.rxFifo = s.rxFifo
      /\ u.buffer = s.buffer
  <2>1. s \in State /\ s.count = 0 /\ s.shifted = << >>
    BY DEF Clear
  <2> HIDE DEF number
  <2> QED
    BY <1>5, <1>6, <2>1 DEF State
<1>8. Source(u, u.command) = Head(s.rxFifo) /\ Gives(u)
  BY <1>1, <1>7 DEF Source, Gives
<1> HIDE DEF number
<1>9. t \in State /\ Path(data, Does, u, t)
  BY <1>1, <1>2, <1>3, <1>4, <1>6, <1>7, <1>8, ReadingPath
<1>10. t = [s EXCEPT !.csn = FALSE, !.command = number, !.count = length,
                     !.buffer = s.buffer \o bytes]
  BY <1>5, <1>7, <1>8 DEF State, PartRead
<1> HIDE DEF t, bytes
<1>11. /\ t.csn = FALSE /\ t.command = number /\ t.count = length /\ t.shifted = s.shifted
       /\ t.reg = s.reg /\ t.txFifo = s.txFifo /\ t.rxFifo = s.rxFifo
       /\ t.buffer = s.buffer \o bytes
  BY <1>10 DEF State
<1>12. Raised(t) = [Read(s, bytes)
                      EXCEPT !.rxFifo = IF n > 0 THEN Tail(s.rxFifo) ELSE s.rxFifo]
  <2>1. (t.command = NRF24_CMD_R_RX_PAYLOAD /\ t.count > 0 /\ t.rxFifo # << >>) <=> n > 0
    BY <1>2, <1>11 DEF number
  <2>2. Raised(t).rxFifo = IF n > 0 THEN Tail(s.rxFifo) ELSE s.rxFifo
    <3>1. Raised(t).rxFifo
            = IF t.command = NRF24_CMD_R_RX_PAYLOAD /\ t.count > 0 /\ t.rxFifo # << >>
              THEN Tail(t.rxFifo) ELSE t.rxFifo
      BY <1>9, RaisedParts, Zenon
    <3>2. t.rxFifo = s.rxFifo
      BY <1>11
    <3> QED
      BY <2>1, <3>1, <3>2, Zenon
  <2> DEFINE fifo == IF n > 0 THEN Tail(s.rxFifo) ELSE s.rxFifo
  <2> HIDE DEF fifo
  <2>3. Raised(t).rxFifo = fifo /\ fifo \in Seq(Payload)
    BY <1>9, <2>2, RaisedState, Parts DEF fifo
  <2>5. bytes \in Seq(Byte)
    BY TakenBytes DEF bytes, length
  <2>4. Raised(t) = [Read(s, bytes) EXCEPT !.rxFifo = fifo]
    BY <1>9, <1>11, <2>3, <2>5, RaisedTaken
  <2> QED
    BY <2>4 DEF fifo
<1>13. Ends(Transaction(number, data), s, Raised(t))
  BY <1>1, <1>4, <1>9, <1>11, TransactionEnds DEF u
<1> QED
  BY <1>12, <1>13 DEF nrf24_read_rx_payload, data, number, bytes, length

\* A flush, and no other command without data, changes the chip.
LEMMA Flushes ==
  ASSUME NEW s \in State, Clear(s)
  PROVE  /\ Ends(nrf24_send_command(NRF24_CMD_FLUSH_TX), s,
                 [s EXCEPT !.csn = TRUE, !.txFifo = << >>])
         /\ Ends(nrf24_send_command(NRF24_CMD_FLUSH_RX), s,
                 [s EXCEPT !.csn = TRUE, !.rxFifo = << >>])
<1>1. ASSUME NEW number \in {NRF24_CMD_FLUSH_TX, NRF24_CMD_FLUSH_RX}
      PROVE  Ends(nrf24_send_command(number), s, Raised(Commanded(s, number)))
  <2>1. number \in 0 .. 255
    BY DEF NRF24_CMD_FLUSH_TX, NRF24_CMD_FLUSH_RX
  <2>2. Commanded(s, number) \in State
    BY <2>1, CommandedState
  <2>4. Commanded(s, number).csn = FALSE
    BY DEF Commanded, State
  <2>3. << >> \in Seq(Item) /\ Path(<< >>, Does, Commanded(s, number), Commanded(s, number))
    BY NoPath
  <2> QED
    BY <2>1, <2>2, <2>3, <2>4, TransactionEnds DEF nrf24_send_command
<1>2. s.command = NoCommand /\ s.count = 0 /\ s.shifted = << >>
  BY DEF Clear
<1>3. /\ NRF24_CMD_FLUSH_TX # NRF24_CMD_FLUSH_RX
      /\ NRF24_CMD_R_RX_PAYLOAD \notin {NRF24_CMD_FLUSH_TX, NRF24_CMD_FLUSH_RX}
  BY DEF NRF24_CMD_FLUSH_TX, NRF24_CMD_FLUSH_RX, NRF24_CMD_R_RX_PAYLOAD
<1>4. Raised(Commanded(s, NRF24_CMD_FLUSH_TX)) = [s EXCEPT !.csn = TRUE, !.txFifo = << >>]
  <2>1. Commanded(s, NRF24_CMD_FLUSH_TX)
          = [s EXCEPT !.csn = FALSE, !.command = NRF24_CMD_FLUSH_TX, !.txFifo = << >>]
    BY <1>3 DEF Commanded, State
  <2> QED
    BY <1>2, <1>3, <2>1 DEF Raised, State
<1>5. Raised(Commanded(s, NRF24_CMD_FLUSH_RX)) = [s EXCEPT !.csn = TRUE, !.rxFifo = << >>]
  <2>1. Commanded(s, NRF24_CMD_FLUSH_RX)
          = [s EXCEPT !.csn = FALSE, !.command = NRF24_CMD_FLUSH_RX, !.rxFifo = << >>]
    BY <1>3 DEF Commanded, State
  <2> QED
    BY <1>2, <1>3, <2>1 DEF Raised, State
<1> QED
  BY <1>1, <1>4, <1>5

\* The last byte of a sequence and one more.
LEMMA LastOfBoth ==
  ASSUME NEW a \in Seq(Byte), NEW b \in Seq(Byte), Len(b) = 1
  PROVE  a \o b \in Seq(Byte) /\ a \o b # << >> /\ (a \o b)[Len(a \o b)] = b[1]
<1>1. a \o b \in Seq(Byte) /\ Len(a \o b) = Len(a) + 1 /\ Len(a) \in Nat
  BY BothLengths
<1>2. (a \o b)[Len(a) + 1] = b[1]
  OBVIOUS
<1>3. a \o b # << >>
  BY <1>1
<1> QED
  BY <1>1, <1>2, <1>3

\* A register is read, changed and written back.
LEMMA Rewrites ==
  ASSUME NEW s \in State, Clear(s), NEW r \in Register, Width(r) = 1,
         NEW ones \in Byte, NEW zeros \in Byte
  PROVE  Ends(nrf24_read_register(r) \o <<WriteBack(r, ones, zeros)>>, s,
              [s EXCEPT !.csn = TRUE, !.buffer = s.buffer \o s.reg[r],
                        !.reg = ByteWritten(s.reg, r, 1, (s.reg[r][1] \ zeros) \cup ones)])
<1> DEFINE read == Read(s, SubSeq(s.reg[r], 1, 1))
           back == WriteBack(r, ones, zeros)
           image == (s.reg[r][1] \ zeros) \cup ones
           t == [s EXCEPT !.csn = TRUE, !.buffer = s.buffer \o s.reg[r],
                          !.reg = ByteWritten(s.reg, r, 1, image)]
<1>1. Ends(nrf24_read_register(r), s, read)
  BY ReadsRegister
<1>2. s.reg[r] \in Seq(Byte) /\ Len(s.reg[r]) = 1 /\ s.buffer \in Seq(Byte) /\ s.reg \in Registers
  BY Parts
<1>3. SubSeq(s.reg[r], 1, 1) = s.reg[r] /\ s.reg[r][1] \in Byte
  BY <1>2
<1>4. /\ s.buffer \o s.reg[r] \in Seq(Byte) /\ s.buffer \o s.reg[r] # << >>
      /\ (s.buffer \o s.reg[r])[Len(s.buffer \o s.reg[r])] = s.reg[r][1]
  BY <1>2, LastOfBoth
<1>5. /\ read \in State /\ Clear(read) /\ read.buffer = s.buffer \o s.reg[r]
      /\ read.reg = s.reg /\ read.csn = TRUE
  <2>1. read = [s EXCEPT !.csn = TRUE, !.buffer = s.buffer \o s.reg[r]]
    BY <1>3 DEF Read
  <2> QED
    BY <1>1, <2>1 DEF Ends, State
<1>6. image \in Byte
  BY <1>3 DEF Byte
<1>7. back \in Item /\ back[1] = "write_back" /\ back[2] = r /\ back[3] = ones /\ back[4] = zeros
  <2>1. back \in Item
    BY NewItems
  <2> QED
    BY <2>1 DEF WriteBack
<1>8. ByteWritten(s.reg, r, 1, image) \in Registers
  <2> DEFINE bytes == <<image>>
  <2> HIDE DEF image
  <2>1. bytes \in Seq(Byte) /\ Len(bytes) = 1 /\ bytes[1] = image /\ 1 \in 0 .. Len(bytes)
    BY <1>6
  <2> HIDE DEF bytes
  <2>2. ByteWritten(s.reg, r, 1, bytes[1])
          = Updated(s.reg, r, Written(r, s.reg[r], bytes, 1))
    <3>1. bytes # << >>
      BY <2>1, SomeBytes
    <3>2. Len(bytes) <= Width(r)
      BY <2>1
    <3> QED
      BY <1>2, <2>1, <3>1, <3>2, FirstByteWritten, Zenon
  <2>4. Len(bytes) <= Width(r) /\ 1 \in 0 .. Len(bytes)
    BY <2>1
  <2>3. Updated(s.reg, r, Written(r, s.reg[r], bytes, 1)) \in Registers
    BY <1>2, <2>1, <2>4, WrittenRegister
  <2> QED
    BY <2>1, <2>2, <2>3
<1> HIDE DEF image
<1>9. t \in State /\ Clear(t)
  <2>1. t \in State
    BY <1>4, <1>8 DEF State
  <2>2. t.command = s.command /\ t.count = s.count /\ t.shifted = s.shifted
    BY DEF State
  <2> QED
    BY <2>1, <2>2 DEF Clear
<1>10. t = [read EXCEPT !.csn = TRUE, !.reg = ByteWritten(read.reg, r, 1, Image(read, ones, zeros))]
  <2>1. Image(read, ones, zeros) = image
    BY <1>4, <1>5 DEF Image, image
  <2> QED
    BY <1>3, <1>5, <2>1 DEF Read, State
<1> HIDE DEF read, back, t
<1>11. <<read, back, t>> \in Does
  <2>1. RewritesRegister(read, back, t)
    BY <1>4, <1>5, <1>7, <1>10 DEF RewritesRegister
  <2> QED
    BY <1>5, <1>7, <1>9, <2>1 DEF Does
<1>12. Ends(<<back>>, read, t)
  <2>1. <<back>> \in Seq(Item)
    BY <1>7
  <2> QED
    BY <1>9, <1>11, <2>1, OneStep DEF Ends
<1>13. Ends(nrf24_read_register(r) \o <<back>>, s, t)
  BY <1>1, <1>12, EndsOn
<1> QED
  BY <1>13 DEF back, t, image
-----------------------------------------------------------------------------
(* What the functions do is what they promise.                             *)

\* s is the chip when the function is called.
Recalled(s) == before = [reg |-> s.reg, txFifo |-> s.txFifo, rxFifo |-> s.rxFifo]

\* The function leads to what it promises.
Keeps(c, s) == \E t : Ends(Steps(c), s, t) /\ Fulfils(c, t)'

\* The functions that leave the FIFOs alone.
LEMMA FifosUntouched ==
  ASSUME NEW c, NEW s, Recalled(s)',
         c.fn \notin {"write_tx_payload", "transmit_data", "flush_tx",
                      "read_rx_payload", "flush_rx"}
  PROVE  PromisedToSend(c)' = s.txFifo /\ PromisedToRead(c)' = s.rxFifo
BY DEF Recalled, PromisedToSend, PromisedToRead

\* The functions that leave the registers alone.
LEMMA RegistersUntouched ==
  ASSUME NEW c, NEW s, Recalled(s)',
         c.fn \in Getters \cup {"write_tx_payload", "flush_tx", "flush_rx"}
  PROVE  Promised(c)' = s.reg
BY DEF Recalled, Promised, Getters

\* A function does nothing, if there is no such pipe.
LEMMA NothingKeeps ==
  ASSUME NEW c, NEW s \in State, Clear(s), s.buffer = << >>, Recalled(s)', Steps(c) = << >>,
         c.fn \in {"set_rx_address", "get_rx_address", "set_rx_payload_len", "get_rx_payload_len"},
         c.pipe > 5, c.pipe \in Nat
  PROVE  Keeps(c, s)
<1>1. Ends(Steps(c), s, s)
  <2>1. << >> \in Seq(Item) /\ Path(<< >>, Does, s, s)
    BY NoPath
  <2> QED
    BY <2>1 DEF Ends
<1>2. s.txFifo = PromisedToSend(c)' /\ s.rxFifo = PromisedToRead(c)'
  BY FifosUntouched
<1>3. s.reg = Promised(c)'
  BY DEF Recalled, Promised
<1>4. Value(c, s.buffer) = << >> /\ Answer(c)' = << >>
  BY DEF Value, Answer
<1> QED
  BY <1>1, <1>2, <1>3, <1>4 DEF Keeps, Fulfils

\* Writing from the first byte on lays the new bytes over the old ones.
LEMMA WrittenIsOverlaid ==
  ASSUME NEW old \in Seq(Byte), NEW bytes \in Seq(Byte), Len(bytes) <= Len(old),
         NEW r, r # NRF24_REG_STATUS
  PROVE  Written(r, old, bytes, Len(bytes)) = Overlaid(old, bytes)
<1> DEFINE k == Len(bytes)
           w == Written(r, old, bytes, k)
           rest == SubSeq(old, k + 1, Len(old))
<1>1. /\ k \in Nat /\ Len(old) \in Nat /\ k <= Len(old)
      /\ \A j \in 1 .. Len(old) : old[j] \in Byte
      /\ \A j \in 1 .. k : bytes[j] \in Byte
  OBVIOUS
<1> HIDE DEF k
<1>2. /\ rest \in Seq(Byte) /\ Len(rest) = Len(old) - k
      /\ \A j \in 1 .. Len(old) - k : rest[j] = old[k + j]
  BY <1>1
<1>3. \A j \in 1 .. Len(old) : (IF j <= k THEN bytes[j] ELSE old[j]) \in Byte
  BY <1>1
<1>4. w = [j \in 1 .. Len(old) |-> IF j <= k THEN bytes[j] ELSE old[j]]
  BY DEF Written, Stored
<1> HIDE DEF w
<1>5. /\ w \in Seq(Byte) /\ Len(w) = Len(old)
      /\ \A j \in 1 .. Len(old) : w[j] = IF j <= k THEN bytes[j] ELSE old[j]
  BY <1>1, <1>3, <1>4
<1> HIDE DEF rest
<1>6. /\ bytes \o rest \in Seq(Byte) /\ Len(bytes \o rest) = Len(old)
      /\ \A j \in 1 .. k : (bytes \o rest)[j] = bytes[j]
      /\ \A j \in 1 .. Len(old) - k : (bytes \o rest)[k + j] = rest[j]
  BY <1>1, <1>2 DEF k
<1>7. ASSUME NEW j \in 1 .. Len(old) PROVE w[j] = (bytes \o rest)[j]
  <2>1. CASE j <= k
    <3>1. j \in 1 .. k
      BY <1>1, <2>1
    <3> QED
      BY <1>5, <1>6, <2>1, <3>1
  <2>2. CASE ~ j <= k
    <3>1. j - k \in 1 .. Len(old) - k /\ k + (j - k) = j
      BY <1>1, <2>2
    <3> QED
      BY <1>2, <1>5, <1>6, <2>2, <3>1
  <2> QED
    BY <2>1, <2>2
<1>8. w = bytes \o rest
  BY <1>5, <1>6, <1>7, SeqEqual
<1> QED
  BY <1>8 DEF w, k, rest, Overlaid

\* A register of one byte is replaced by what is written.
LEMMA OneByteWritten ==
  ASSUME NEW image \in Registers, NEW r \in Register, Width(r) = 1, NEW byte \in Byte
  PROVE  /\ ByteWritten(image, r, 1, byte) = Updated(image, r, <<Stored(r, image[r][1], byte)>>)
         /\ image[r] = <<image[r][1]>> /\ image[r][1] \in Byte
         /\ Updated(image, r, <<Stored(r, image[r][1], byte)>>) \in Registers
<1> DEFINE old == image[r]
<1>1. old \in Seq(Byte) /\ Len(old) = 1 /\ image \in [Register -> Seq(Byte)]
      /\ \A q \in Register : Len(image[q]) = Width(q)
  BY DEF Registers
<1> HIDE DEF old
<1>2. old = <<old[1]>> /\ old[1] \in Byte
  BY <1>1
<1>3. PICK stored \in Byte : stored = Stored(r, old[1], byte)
  BY <1>2, StoredByte
<1>4. [old EXCEPT ![1] = stored] = <<stored>>
  BY <1>2
<1>5. <<stored>> \in Seq(Byte) /\ Len(<<stored>>) = 1
  OBVIOUS
<1>6. Updated(image, r, <<stored>>) \in Registers
  BY <1>1, <1>5 DEF Registers, Updated
<1> QED
  BY <1>2, <1>3, <1>4, <1>6 DEF ByteWritten, old

\* The length that is passed is a number.
LEMMA LengthsAreNumbers ==
  ASSUME NEW c \in Call,
         c.fn \in {"set_rx_address", "get_rx_address", "set_tx_address", "get_tx_address",
                   "write_tx_payload", "read_rx_payload", "transmit_data"}
  PROVE  c.n \in 0 .. 255 /\ c.n \in Nat
<1>1. c.n \in Lengths
  BY DEF Call
<1>2. c.n \in 0 .. 255
  BY <1>1, LengthsAssumption
<1> QED
  BY <1>2

\* A pipe is one of the six, or none.
LEMMA PipesAreNumbers ==
  ASSUME NEW c \in Call, c.fn \in {"set_rx_address", "get_rx_address"}
  PROVE  c.pipe \in Nat /\ (c.pipe > 5 \/ c.pipe \in 0 .. 5)
<1>1. c.pipe \in 0 .. 6
  BY DEF Call
<1> QED
  BY <1>1

\* An address is set in its first bytes.
LEMMA AddressKeeps ==
  ASSUME NEW c, NEW s \in State, Clear(s), Recalled(s)', NEW r \in Register, NEW n \in Nat,
         n <= Width(r), r # NRF24_REG_STATUS,
         Steps(c) = nrf24_write_multi_byte_register(r, Passed(n)),
         c.fn \in {"set_rx_address", "set_tx_address"},
         Promised(c)' = [before'.reg EXCEPT ![r] = Overlaid(before'.reg[r], Passed(n))]
  PROVE  Keeps(c, s)
<1> DEFINE bytes == Passed(n)
           value == Written(r, s.reg[r], bytes, Len(bytes))
           t == Changed(s, r, value)
<1>1. bytes \in Seq(Byte) /\ Len(bytes) = n
  BY PassedBytes
<1>2. Ends(Steps(c), s, t)
  BY <1>1, WritesRegisters
<1>3. s.reg[r] \in Seq(Byte) /\ Len(s.reg[r]) = Width(r)
  BY Parts
<1>4. value = Overlaid(s.reg[r], bytes)
  BY <1>1, <1>3, WrittenIsOverlaid
<1>5. t.reg = Updated(s.reg, r, value) /\ t.txFifo = s.txFifo /\ t.rxFifo = s.rxFifo
  BY DEF Changed, State
<1>6. before'.reg = s.reg
  BY DEF Recalled
<1>7. Updated(s.reg, r, value) = Promised(c)'
  BY <1>4, <1>6 DEF Updated
<1>8. s.txFifo = PromisedToSend(c)' /\ s.rxFifo = PromisedToRead(c)' /\ c.fn \notin Getters
  BY FifosUntouched DEF Getters
<1> HIDE DEF t
<1> QED
  BY <1>2, <1>5, <1>7, <1>8 DEF Keeps, Fulfils

LEMMA AddressesKeep ==
  ASSUME NEW c \in Call, NEW s \in State, Clear(s), s.buffer = << >>, Recalled(s)',
         c.fn \in {"set_rx_address", "set_tx_address"}
  PROVE  Keeps(c, s)
<1>1. CASE c.fn = "set_rx_address"
  <2>1. c.pipe \in Nat /\ (c.pipe > 5 \/ c.pipe \in 0 .. 5)
    BY <1>1, PipesAreNumbers
  <2>2. c.n \in 0 .. 255
    BY <1>1, LengthsAreNumbers
  <2>3. CASE c.pipe > 5
    <3>1. Steps(c) = << >>
      BY <1>1, <2>3 DEF Steps, nrf24_set_rx_address
    <3> QED
      BY <1>1, <2>1, <2>3, <3>1, NothingKeeps
  <2>4. CASE c.pipe \in 0 .. 5
    <3> DEFINE r == NRF24_REG_RX_ADDR_P0 + c.pipe
               n == AddressLength(c.pipe, c.n)
    <3>0. ~ (c.pipe > 5) /\ c.pipe <= 5
      BY <2>4
    <3>1. r \in Register /\ n \in 0 .. Width(r) /\ n \in Nat
      <4>1. PICK pipe \in 0 .. 5, length \in 0 .. 255 : pipe = c.pipe /\ length = c.n
        BY <2>2, <2>4
      <4>2. /\ NRF24_REG_RX_ADDR_P0 + pipe \in Register
            /\ AddressLength(pipe, length) \in 0 .. Width(NRF24_REG_RX_ADDR_P0 + pipe)
            /\ AddressLength(pipe, length) \in Nat
        BY AddressFits
      <4> QED
        BY <4>1, <4>2
    <3>2. n <= Width(r) /\ r # NRF24_REG_STATUS
      BY <2>4, <3>1, RegisterCommands DEF NRF24_REG_RX_ADDR_P0, NRF24_REG_STATUS
    <3>3. Steps(c) = nrf24_write_multi_byte_register(r, Passed(n))
      BY <1>1, <3>0 DEF Steps, nrf24_set_rx_address
    <3>4. n = IF c.pipe < 2 THEN Limited(c.n, 5) ELSE 1
      BY <2>2, <2>4 DEF AddressLength, Limited
    <3> HIDE DEF n
    <3>5. Promised(c)' = [before'.reg EXCEPT ![r] = Overlaid(before'.reg[r], Passed(n))]
      BY <1>1, <3>0, <3>4 DEF Promised
    <3> HIDE DEF r
    <3> QED
      BY <1>1, <3>1, <3>2, <3>3, <3>5, AddressKeeps
  <2> QED
    BY <2>1, <2>3, <2>4
<1>2. CASE c.fn = "set_tx_address"
  <2>2. c.n \in 0 .. 255
    BY <1>2, LengthsAreNumbers
  <2> DEFINE r == NRF24_REG_TX_ADDR
             n == AddressLength(0, c.n)
  <2>3. r \in Register /\ n \in 0 .. Width(r) /\ n \in Nat
    BY <2>2, TargetAddressFits
  <2>4. n <= Width(r) /\ r # NRF24_REG_STATUS
    BY <2>3, RegisterCommands DEF NRF24_REG_TX_ADDR, NRF24_REG_STATUS
  <2>5. Steps(c) = nrf24_write_multi_byte_register(r, Passed(n))
    BY <1>2 DEF Steps, nrf24_set_tx_address
  <2>6. n = Limited(c.n, 5)
    BY <2>2 DEF AddressLength, Limited
  <2> HIDE DEF n
  <2>7. Promised(c)' = [before'.reg EXCEPT ![r] = Overlaid(before'.reg[r], Passed(n))]
    BY <1>2, <2>6 DEF Promised
  <2> HIDE DEF r
  <2> QED
    BY <1>2, <2>3, <2>4, <2>5, <2>7, AddressKeeps
<1> QED
  BY <1>1, <1>2

\* A register of one byte is set.
LEMMA ByteKeeps ==
  ASSUME NEW c, NEW s \in State, Clear(s), Recalled(s)', NEW r \in Register, Width(r) = 1,
         NEW value \in Byte, Steps(c) = nrf24_write_register(r, value),
         c.fn \in {"set", "set_rx_payload_len", "setup_rf", "set_rf_channel"},
         Promised(c)' = [before'.reg EXCEPT ![r] = <<Stored(r, before'.reg[r][1], value)>>]
  PROVE  Keeps(c, s)
<1> DEFINE t == [s EXCEPT !.csn = TRUE, !.reg = ByteWritten(s.reg, r, 1, value)]
<1>1. Ends(Steps(c), s, t)
  BY WritesRegisters
<1>2. s.reg \in Registers
  BY Parts
<1>3. /\ t.reg = ByteWritten(s.reg, r, 1, value) /\ t.txFifo = s.txFifo
      /\ t.rxFifo = s.rxFifo
  BY DEF State
<1>4. before'.reg = s.reg
  BY DEF Recalled
<1>5. ByteWritten(s.reg, r, 1, value) = Updated(s.reg, r, <<Stored(r, s.reg[r][1], value)>>)
  BY <1>2, OneByteWritten
<1>6. Updated(s.reg, r, <<Stored(r, s.reg[r][1], value)>>) = Promised(c)'
  BY <1>4 DEF Updated
<1>7. s.txFifo = PromisedToSend(c)' /\ s.rxFifo = PromisedToRead(c)' /\ c.fn \notin Getters
  BY FifosUntouched DEF Getters
<1> HIDE DEF t
<1> QED
  BY <1>1, <1>3, <1>5, <1>6, <1>7 DEF Keeps, Fulfils

\* The registers of one byte.
LEMMA OneByteRegisters ==
  ASSUME NEW r
  PROVE  /\ r \in Settable \cup ReadOnly => r \in Register /\ Width(r) = 1
         /\ r \in 0 .. 5 => /\ NRF24_REG_RX_PW_P0 + r \in Register
                            /\ Width(NRF24_REG_RX_PW_P0 + r) = 1
                            /\ NRF24_REG_RX_PW_P0 + r # NRF24_REG_STATUS
BY DEF Settable, ReadOnly, RadioSettings, PacketSettings, LinkSettings, Register, Width,
       NRF24_REG_RF_SETUP, NRF24_REG_RF_CH, NRF24_REG_STATUS, NRF24_REG_CONFIG,
       NRF24_REG_RX_PW_P0, NRF24_REG_RX_ADDR_P0, NRF24_REG_TX_ADDR

LEMMA SetKeeps ==
  ASSUME NEW c \in Call, NEW s \in State, Clear(s), s.buffer = << >>, Recalled(s)',
         c.fn = "set"
  PROVE  Keeps(c, s)
<1>1. c.r \in Settable /\ c.value \in Byte
  BY ValuesAssumption DEF Call, Byte
<1>2. c.r \in Register /\ Width(c.r) = 1
  BY <1>1, OneByteRegisters
<1>3. Steps(c) = nrf24_write_register(c.r, c.value)
  BY DEF Steps
<1>4. Promised(c)' = [before'.reg EXCEPT ![c.r] = <<Stored(c.r, before'.reg[c.r][1], c.value)>>]
  BY DEF Promised, Holding, Stored
<1> QED
  BY <1>1, <1>2, <1>3, <1>4, ByteKeeps

LEMMA PayloadLengthKeeps ==
  ASSUME NEW c \in Call, NEW s \in State, Clear(s), s.buffer = << >>, Recalled(s)',
         c.fn = "set_rx_payload_len"
  PROVE  Keeps(c, s)
<1>1. c.pipe \in 0 .. 6 /\ c.value \in Byte
  BY ValuesAssumption DEF Call, Byte
<1>2. CASE c.pipe > 5
  <2>1. Steps(c) = << >>
    BY <1>2 DEF Steps, nrf24_set_rx_payload_len
  <2> QED
    BY <1>1, <1>2, <2>1, NothingKeeps
<1>3. CASE c.pipe \in 0 .. 5
  <2> DEFINE r == NRF24_REG_RX_PW_P0 + c.pipe
             value == c.value \cap NRF24_RX_PW_P0_MASK
  <2>1. r \in Register /\ Width(r) = 1 /\ r # NRF24_REG_STATUS
    BY <1>3, OneByteRegisters
  <2>2. value \in Byte /\ value = c.value \ {6, 7}
    BY <1>1 DEF Byte, NRF24_RX_PW_P0_MASK
  <2>3. Steps(c) = nrf24_write_register(r, value)
    BY <1>3 DEF Steps, nrf24_set_rx_payload_len
  <2>4. Promised(c)' = [before'.reg EXCEPT ![r] = <<c.value \ {6, 7}>>]
    BY <1>3 DEF Promised, Holding
  <2> HIDE DEF r, value
  <2>5. Promised(c)' = [before'.reg EXCEPT ![r] = <<Stored(r, before'.reg[r][1], value)>>]
    BY <2>1, <2>2, <2>4 DEF Stored
  <2> QED
    BY <2>1, <2>2, <2>3, <2>5, ByteKeeps
<1> QED
  BY <1>1, <1>2, <1>3

\* Three settings are shifted to their places.
LEMMA SetupKeeps ==
  ASSUME NEW c \in Call, NEW s \in State, Clear(s), s.buffer = << >>, Recalled(s)',
         c.fn = "setup_rf"
  PROVE  Keeps(c, s)
<1> DEFINE r == NRF24_REG_RF_SETUP
           value == {b + 3 : b \in c.rate} \cup {b + 1 : b \in c.power} \cup c.gain
           meant == (IF c.rate # {} THEN NRF24_RF_SETUP.RF_DR ELSE {})
                      \cup {b \in NRF24_RF_SETUP.RF_PWR_MASK : b - 1 \in c.power}
                      \cup (IF c.gain # {} THEN NRF24_RF_SETUP.LNA_HCURR ELSE {})
<1>1. c.rate \in {{}, {0}} /\ c.power \in SUBSET {0, 1} /\ c.gain \in {{}, {0}}
  BY DEF Call
<1>2. r \in Register /\ Width(r) = 1 /\ r # NRF24_REG_STATUS
  BY OneByteRegisters DEF Settable, RadioSettings, NRF24_REG_RF_SETUP, NRF24_REG_STATUS
<1>3. value \in Byte
  BY <1>1 DEF Byte
<1>4. value = meant
  <2>1. {b + 3 : b \in c.rate} = IF c.rate # {} THEN {3} ELSE {}
    BY <1>1
  <2>2. {b + 1 : b \in c.power} = {b \in {1, 2} : b - 1 \in c.power}
    BY <1>1
  <2>3. c.gain = IF c.gain # {} THEN {0} ELSE {}
    BY <1>1
  <2> QED
    BY <2>1, <2>2, <2>3 DEF NRF24_RF_SETUP
<1>5. Steps(c) = nrf24_write_register(r, value)
  BY DEF Steps, nrf24_setup_rf
<1>6. Promised(c)' = [before'.reg EXCEPT ![r] = <<meant>>]
  BY DEF Promised, Holding
<1> HIDE DEF value, meant, r
<1>7. Promised(c)' = [before'.reg EXCEPT ![r] = <<Stored(r, before'.reg[r][1], value)>>]
  BY <1>2, <1>4, <1>6 DEF Stored
<1> QED
  BY <1>2, <1>3, <1>5, <1>7, ByteKeeps

\* The eighth bit of the channel is whatever it is.
LEMMA ChannelKeeps ==
  ASSUME NEW c \in Call, NEW s \in State, Clear(s), s.buffer = << >>, Recalled(s)',
         c.fn = "set_rf_channel"
  PROVE  Keeps(c, s)
<1> DEFINE r == NRF24_REG_RF_CH
           value == (c.value \cap 0 .. 6) \cup (c.garbage \cap {7})
<1>1. c.value \in Byte /\ c.garbage \in {{}, {7}}
  BY ValuesAssumption DEF Call, Byte
<1>2. r \in Register /\ Width(r) = 1 /\ r # NRF24_REG_STATUS
  BY OneByteRegisters DEF Settable, RadioSettings, NRF24_REG_RF_CH, NRF24_REG_STATUS
<1>3. value \in Byte /\ value = (c.value \ {7}) \cup c.garbage
  BY <1>1 DEF Byte
<1>4. Steps(c) = nrf24_write_register(r, value)
  BY DEF Steps, nrf24_set_rf_channel
<1>5. Promised(c)' = [before'.reg EXCEPT ![r] = <<(c.value \ {7}) \cup c.garbage>>]
  BY DEF Promised, Holding
<1> HIDE DEF value, r
<1>6. Promised(c)' = [before'.reg EXCEPT ![r] = <<Stored(r, before'.reg[r][1], value)>>]
  BY <1>2, <1>3, <1>5 DEF Stored
<1> QED
  BY <1>2, <1>3, <1>4, <1>6, ByteKeeps

\* What is read is the register's first bytes, or its one.
LEMMA ReadingKeeps ==
  ASSUME NEW c, NEW s \in State, Clear(s), s.buffer = << >>, Recalled(s)', NEW bytes \in Seq(Byte),
         Ends(Steps(c), s, Read(s, bytes)),
         c.fn \in {"get_rx_address", "get_tx_address", "get", "get_rx_payload_len"},
         Value(c, bytes) = Answer(c)'
  PROVE  Keeps(c, s)
<1> DEFINE t == Read(s, bytes)
<1>1. << >> \o bytes = bytes
  OBVIOUS
<1>2. t.reg = s.reg /\ t.txFifo = s.txFifo /\ t.rxFifo = s.rxFifo /\ t.buffer = bytes
  BY <1>1 DEF Read, State
<1>3. s.txFifo = PromisedToSend(c)' /\ s.rxFifo = PromisedToRead(c)'
  BY FifosUntouched
<1>4. s.reg = Promised(c)'
  BY RegistersUntouched DEF Getters
<1> HIDE DEF t
<1>5. Fulfils(c, t)'
  BY <1>2, <1>3, <1>4 DEF Fulfils
<1> QED
  BY <1>5 DEF Keeps, t

\* The addresses.
LEMMA GetAddressKeeps ==
  ASSUME NEW c \in Call, NEW s \in State, Clear(s), s.buffer = << >>, Recalled(s)',
         c.fn \in {"get_rx_address", "get_tx_address"}
  PROVE  Keeps(c, s)
<1>1. ASSUME NEW r \in Register, NEW n \in 0 .. Width(r),
             Steps(c) = nrf24_read_multi_byte_register(r, n),
             Answer(c)' = SubSeq(before'.reg[r], 1, n)
      PROVE  Keeps(c, s)
  <2> DEFINE bytes == SubSeq(s.reg[r], 1, n)
  <2>1. n \in Nat /\ s.reg[r] \in Seq(Byte) /\ Len(s.reg[r]) = Width(r)
    BY <1>1, RegisterCommands, Parts
  <2>2. bytes \in Seq(Byte)
    BY <1>1, <2>1
  <2>3. Ends(Steps(c), s, Read(s, bytes))
    BY <1>1, ReadsRegister
  <2>4. Answer(c)' = bytes
    BY <1>1 DEF Recalled
  <2> HIDE DEF bytes
  <2>5. Value(c, bytes) = bytes
    BY DEF Value
  <2> QED
    BY <2>2, <2>3, <2>4, <2>5, ReadingKeeps
<1>2. CASE c.fn = "get_rx_address"
  <2>1. c.pipe \in Nat /\ (c.pipe > 5 \/ c.pipe \in 0 .. 5)
    BY <1>2, PipesAreNumbers
  <2>2. c.n \in 0 .. 255
    BY <1>2, LengthsAreNumbers
  <2>3. CASE c.pipe > 5
    <3>1. Steps(c) = << >>
      BY <1>2, <2>3 DEF Steps, nrf24_get_rx_address
    <3> QED
      BY <1>2, <2>1, <2>3, <3>1, NothingKeeps
  <2>4. CASE c.pipe \in 0 .. 5
    <3> DEFINE r == NRF24_REG_RX_ADDR_P0 + c.pipe
               n == AddressLength(c.pipe, c.n)
    <3>1. ~ (c.pipe > 5) /\ c.pipe <= 5
      BY <2>4
    <3>2. r \in Register /\ n \in 0 .. Width(r)
      <4>1. PICK pipe \in 0 .. 5, length \in 0 .. 255 : pipe = c.pipe /\ length = c.n
        BY <2>2, <2>4
      <4>2. /\ NRF24_REG_RX_ADDR_P0 + pipe \in Register
            /\ AddressLength(pipe, length) \in 0 .. Width(NRF24_REG_RX_ADDR_P0 + pipe)
        BY AddressFits
      <4> QED
        BY <4>1, <4>2
    <3>3. Steps(c) = nrf24_read_multi_byte_register(r, n)
      BY <1>2, <3>1 DEF Steps, nrf24_get_rx_address
    <3>4. n = IF c.pipe < 2 THEN Limited(c.n, 5) ELSE 1
      BY <2>2, <2>4 DEF AddressLength, Limited
    <3> HIDE DEF n
    <3>5. Answer(c)' = SubSeq(before'.reg[r], 1, n)
      BY <1>2, <3>1, <3>4 DEF Answer
    <3> HIDE DEF r
    <3> QED
      BY <1>1, <3>2, <3>3, <3>5
  <2> QED
    BY <2>1, <2>3, <2>4
<1>3. CASE c.fn = "get_tx_address"
  <2>2. c.n \in 0 .. 255
    BY <1>3, LengthsAreNumbers
  <2> DEFINE r == NRF24_REG_TX_ADDR
             n == AddressLength(0, c.n)
  <2>3. r \in Register /\ n \in 0 .. Width(r)
    BY <2>2, TargetAddressFits
  <2>4. Steps(c) = nrf24_read_multi_byte_register(r, n)
    BY <1>3 DEF Steps, nrf24_get_tx_address
  <2>5. n = Limited(c.n, 5)
    BY <2>2 DEF AddressLength, Limited
  <2> HIDE DEF n
  <2>6. Answer(c)' = SubSeq(before'.reg[r], 1, n)
    BY <1>3, <2>5 DEF Answer
  <2> HIDE DEF r
  <2> QED
    BY <1>1, <2>3, <2>4, <2>6
<1> QED
  BY <1>2, <1>3

\* The registers of one byte.
LEMMA GetKeeps ==
  ASSUME NEW c \in Call, NEW s \in State, Clear(s), s.buffer = << >>, Recalled(s)',
         c.fn \in {"get", "get_rx_payload_len"}
  PROVE  Keeps(c, s)
<1>1. ASSUME NEW r \in Register, Width(r) = 1
      PROVE  /\ Ends(nrf24_read_register(r), s, Read(s, s.reg[r]))
             /\ s.reg[r] = <<s.reg[r][1]>> /\ s.reg[r][1] \in Byte /\ s.reg[r] \in Seq(Byte)
  <2>1. s.reg[r] \in Seq(Byte) /\ Len(s.reg[r]) = 1
    BY <1>1, Parts
  <2>2. SubSeq(s.reg[r], 1, 1) = s.reg[r] /\ s.reg[r] = <<s.reg[r][1]>> /\ s.reg[r][1] \in Byte
    BY <2>1
  <2>3. Ends(nrf24_read_register(r), s, Read(s, SubSeq(s.reg[r], 1, 1)))
    BY ReadsRegister
  <2> QED
    BY <2>1, <2>2, <2>3
<1>2. before'.reg = s.reg
  BY DEF Recalled
<1>3. CASE c.fn = "get"
  <2>1. c.r \in Settable \cup ReadOnly
    BY <1>3 DEF Call
  <2>2. c.r \in Register /\ Width(c.r) = 1
    BY <2>1, OneByteRegisters
  <2>3. Steps(c) = nrf24_read_register(c.r)
    BY <1>3 DEF Steps
  <2>4. Value(c, s.reg[c.r]) = Answer(c)'
    BY <1>2, <1>3 DEF Value, Answer
  <2>5. Ends(Steps(c), s, Read(s, s.reg[c.r])) /\ s.reg[c.r] \in Seq(Byte)
    BY <1>1, <2>2, <2>3
  <2> QED
    BY <1>3, <2>4, <2>5, ReadingKeeps
<1>4. CASE c.fn = "get_rx_payload_len"
  <2>1. c.pipe \in 0 .. 6
    BY <1>4 DEF Call
  <2>2. CASE c.pipe > 5
    <3>1. Steps(c) = << >>
      BY <1>4, <2>2 DEF Steps, nrf24_get_rx_payload_len
    <3> QED
      BY <1>4, <2>1, <2>2, <3>1, NothingKeeps
  <2>3. CASE c.pipe \in 0 .. 5
    <3> DEFINE r == NRF24_REG_RX_PW_P0 + c.pipe
    <3>1. ~ (c.pipe > 5) /\ c.pipe <= 5
      BY <2>3
    <3>2. r \in Register /\ Width(r) = 1
      BY <2>3, OneByteRegisters
    <3>3. Steps(c) = nrf24_read_register(r)
      BY <1>4, <3>1 DEF Steps, nrf24_get_rx_payload_len
    <3>4. Answer(c)' = <<before'.reg[r][1] \ {6, 7}>>
      BY <1>4, <3>1 DEF Answer
    <3> HIDE DEF r
    <3>5. /\ Ends(Steps(c), s, Read(s, s.reg[r])) /\ s.reg[r] \in Seq(Byte)
          /\ s.reg[r] = <<s.reg[r][1]>> /\ s.reg[r][1] \in Byte
      BY <1>1, <3>2, <3>3
    <3>6. s.reg[r][1] \cap NRF24_RX_PW_P0_MASK = s.reg[r][1] \ {6, 7}
      BY <3>5 DEF Byte, NRF24_RX_PW_P0_MASK
    <3>7. s.reg[r] # << >>
      BY <3>5
    <3>8. Value(c, s.reg[r]) = Answer(c)'
      BY <1>2, <1>4, <3>4, <3>6, <3>7 DEF Value
    <3> QED
      BY <1>4, <3>5, <3>8, ReadingKeeps
  <2> QED
    BY <2>1, <2>2, <2>3
<1> QED
  BY <1>3, <1>4

\* A payload that is read is the oldest, and is gone then.
LEMMA TakeKeeps ==
  ASSUME NEW c \in Call, NEW s \in State, Clear(s), s.buffer = << >>, Recalled(s)',
         c.fn = "read_rx_payload", s.rxFifo # << >>
  PROVE  Keeps(c, s)
<1> DEFINE bytes == SubSeq(Head(s.rxFifo), 1, PayloadLength(c.n))
           t == [Read(s, bytes) EXCEPT !.rxFifo = IF c.n > 0 THEN Tail(s.rxFifo) ELSE s.rxFifo]
<1>1. c.n \in Nat
  BY LengthsAreNumbers
<1>2. Steps(c) = nrf24_read_rx_payload(c.n)
  BY DEF Steps
<1>3. Ends(Steps(c), s, t)
  BY <1>1, <1>2, TakesPayload
<1>4. Answer(c)' = SubSeq(Head(s.rxFifo), 1, Limited(c.n, PayloadSize))
  BY DEF Answer, Recalled
<1>5. PayloadLength(c.n) = Limited(c.n, PayloadSize)
  BY DEF PayloadLength, Limited
<1>6. bytes \in Seq(Byte)
  BY <1>1, TakenBytes
<1>7. Answer(c)' = bytes
  BY <1>4, <1>5
<1> HIDE DEF bytes
<1>8. << >> \o bytes = bytes
  BY <1>6
<1>9. /\ t.reg = s.reg /\ t.txFifo = s.txFifo /\ t.buffer = bytes
      /\ t.rxFifo = IF c.n > 0 THEN Tail(s.rxFifo) ELSE s.rxFifo
  BY <1>8 DEF Read, State
<1>10. s.txFifo = PromisedToSend(c)'
  BY DEF PromisedToSend, Recalled
<1>11. PromisedToRead(c)' = IF c.n > 0 THEN Tail(s.rxFifo) ELSE s.rxFifo
  BY DEF PromisedToRead, Recalled
<1>12. s.reg = Promised(c)'
  BY RegistersUntouched DEF Getters
<1>13. Value(c, bytes) = bytes
  BY DEF Value
<1> HIDE DEF t
<1>14. Fulfils(c, t)'
  BY <1>7, <1>9, <1>10, <1>11, <1>12, <1>13 DEF Fulfils
<1> QED
  BY <1>3, <1>14 DEF Keeps

\* A flush empties its FIFO.
LEMMA FlushKeeps ==
  ASSUME NEW c \in Call, NEW s \in State, Clear(s), Recalled(s)',
         c.fn \in {"flush_tx", "flush_rx"}
  PROVE  Keeps(c, s)
<1>1. s.reg = Promised(c)' /\ c.fn \notin Getters
  BY RegistersUntouched DEF Getters
<1>2. CASE c.fn = "flush_tx"
  <2> DEFINE t == [s EXCEPT !.csn = TRUE, !.txFifo = << >>]
  <2>1. Ends(Steps(c), s, t)
    BY <1>2, Flushes DEF Steps
  <2>2. t.reg = s.reg /\ t.txFifo = << >> /\ t.rxFifo = s.rxFifo
    BY DEF State
  <2>3. PromisedToSend(c)' = << >> /\ PromisedToRead(c)' = s.rxFifo
    BY <1>2 DEF PromisedToSend, PromisedToRead, Recalled
  <2> HIDE DEF t
  <2> QED
    BY <1>1, <2>1, <2>2, <2>3 DEF Keeps, Fulfils
<1>3. CASE c.fn = "flush_rx"
  <2> DEFINE t == [s EXCEPT !.csn = TRUE, !.rxFifo = << >>]
  <2>1. Ends(Steps(c), s, t)
    BY <1>3, Flushes DEF Steps
  <2>2. t.reg = s.reg /\ t.txFifo = s.txFifo /\ t.rxFifo = << >>
    BY DEF State
  <2>3. PromisedToSend(c)' = s.txFifo /\ PromisedToRead(c)' = << >>
    BY <1>3 DEF PromisedToSend, PromisedToRead, Recalled
  <2> HIDE DEF t
  <2> QED
    BY <1>1, <2>1, <2>2, <2>3 DEF Keeps, Fulfils
<1> QED
  BY <1>2, <1>3

\* The bytes of a payload are a frame, unless there are none.
LEMMA FrameOf ==
  ASSUME NEW n \in Nat, NEW fifo \in Seq(Seq(Byte))
  PROVE  /\ Loaded(fifo, Passed(PayloadLength(n)))
              = fifo \o (IF n = 0 THEN << >>
                         ELSE <<[i \in 1 .. Limited(n, PayloadSize) |-> {i % 8}]>>)
         /\ Loaded(fifo, Passed(PayloadLength(n))) \in Seq(Seq(Byte))
<1> DEFINE frame == Passed(PayloadLength(n))
<1>1. PayloadLength(n) \in Nat /\ (PayloadLength(n) = 0 <=> n = 0)
      /\ PayloadLength(n) = Limited(n, PayloadSize)
  BY PayloadSizeAssumption DEF PayloadLength, Limited
<1>2. frame \in Seq(Byte) /\ Len(frame) = PayloadLength(n)
  BY <1>1, PassedBytes
<1>3. frame = [i \in 1 .. Limited(n, PayloadSize) |-> {i % 8}]
  BY <1>1 DEF Passed
<1> HIDE DEF frame
<1>4. frame = << >> <=> n = 0
  BY <1>1, <1>2
<1>5. /\ Append(fifo, frame) = fifo \o <<frame>> /\ fifo \o << >> = fifo
      /\ Append(fifo, frame) \in Seq(Seq(Byte))
  BY <1>2
<1> QED
  BY <1>3, <1>4, <1>5 DEF Loaded, frame

\* A payload that is written comes last.
LEMMA LoadKeeps ==
  ASSUME NEW c \in Call, NEW s \in State, Clear(s), Recalled(s)', c.fn = "write_tx_payload"
  PROVE  Keeps(c, s)
<1> DEFINE fifo == Loaded(s.txFifo, Passed(PayloadLength(c.n)))
           t == [s EXCEPT !.csn = TRUE, !.txFifo = fifo]
<1>1. c.n \in Nat
  BY LengthsAreNumbers
<1>2. Ends(Steps(c), s, t)
  BY <1>1, LoadsPayload DEF Steps
<1>3. s.reg = Promised(c)' /\ c.fn \notin Getters
  BY RegistersUntouched DEF Getters
<1>4. fifo = PromisedToSend(c)'
  <2>1. fifo = s.txFifo \o (IF c.n = 0 THEN << >>
                            ELSE <<[i \in 1 .. Limited(c.n, PayloadSize) |-> {i % 8}]>>)
    BY <1>1, FrameOf, Parts
  <2>2. before'.txFifo = s.txFifo
    BY DEF Recalled
  <2> HIDE DEF fifo
  <2> QED
    BY <2>1, <2>2 DEF PromisedToSend
<1>5. s.rxFifo = PromisedToRead(c)'
  BY DEF PromisedToRead, Recalled
<1> HIDE DEF fifo
<1>6. t.reg = s.reg /\ t.txFifo = fifo /\ t.rxFifo = s.rxFifo
  BY DEF State
<1> HIDE DEF t
<1> QED
  BY <1>2, <1>3, <1>4, <1>5, <1>6 DEF Keeps, Fulfils

\* The state of a register that was read, changed and written back.
Rewritten(s, r, byte) ==
  [s EXCEPT !.csn = TRUE, !.buffer = s.buffer \o s.reg[r], !.reg = Updated(s.reg, r, <<byte>>)]

\* The interrupts are cleared.
LEMMA ClearsInterrupts ==
  ASSUME NEW s \in State, Clear(s)
  PROVE  Ends(nrf24_clear_interrupts, s,
              Rewritten(s, NRF24_REG_STATUS, s.reg[NRF24_REG_STATUS][1] \ {4, 5, 6}))
<1> DEFINE r == NRF24_REG_STATUS
           ones == Bits(nrf24_status_t, {"RX_DR", "TX_DS", "MAX_RT"})
           old == s.reg[r][1]
<1>1. r \in Register /\ Width(r) = 1
  BY OneByteRegisters DEF Settable, RadioSettings, NRF24_REG_STATUS
<1>2. ones = {4, 5, 6} /\ ones \in Byte /\ {} \in Byte
  <2>1. DOMAIN nrf24_status_t = 1 .. 8
    BY DEF nrf24_status_t
  <2>2. {i \in 1 .. 8 : nrf24_status_t[i] \in {"RX_DR", "TX_DS", "MAX_RT"}} = {5, 6, 7}
    BY DEF nrf24_status_t
  <2>3. ones = {i - 1 : i \in {5, 6, 7}}
    BY <2>1, <2>2 DEF Bits
  <2>4. {i - 1 : i \in {5, 6, 7}} = {4, 5, 6}
    OBVIOUS
  <2> QED
    BY <2>3, <2>4 DEF Byte
<1>3. s.reg \in Registers
  BY Parts
<1>4. old \in Byte
  BY <1>1, <1>2, <1>3, OneByteWritten
<1> HIDE DEF ones
<1>5. Ends(nrf24_read_register(r) \o <<WriteBack(r, ones, {})>>, s,
           [s EXCEPT !.csn = TRUE, !.buffer = s.buffer \o s.reg[r],
                     !.reg = ByteWritten(s.reg, r, 1, (old \ {}) \cup ones)])
  BY <1>1, <1>2, Rewrites
<1>6. (old \ {}) \cup ones \in Byte
      /\ Stored(r, old, (old \ {}) \cup ones) = old \ {4, 5, 6}
  BY <1>2, <1>4 DEF Stored, Byte, r
<1>7. ByteWritten(s.reg, r, 1, (old \ {}) \cup ones) = Updated(s.reg, r, <<old \ {4, 5, 6}>>)
  <2>1. PICK byte \in Byte : byte = (old \ {}) \cup ones
    BY <1>6
  <2>2. ByteWritten(s.reg, r, 1, byte) = Updated(s.reg, r, <<Stored(r, old, byte)>>)
    BY <1>1, <1>3, OneByteWritten
  <2> QED
    BY <1>6, <2>1, <2>2
<1> QED
  BY <1>5, <1>7 DEF nrf24_clear_interrupts, Rewritten, ones

\* Two bits of CONFIG are set or cleared.
LEMMA PowersUp ==
  ASSUME NEW s \in State, Clear(s), NEW ones, NEW zeros
  PROVE  Ends(PowerUpAs(ones, zeros), s,
              Rewritten(s, NRF24_REG_CONFIG,
                (s.reg[NRF24_REG_CONFIG][1] \ Bits(nrf24_config_t, zeros))
                  \cup Bits(nrf24_config_t, ones)))
<1> DEFINE r == NRF24_REG_CONFIG
           set == Bits(nrf24_config_t, ones)
           clear == Bits(nrf24_config_t, zeros)
           old == s.reg[r][1]
<1>1. r \in Register /\ Width(r) = 1 /\ r # NRF24_REG_STATUS
  BY OneByteRegisters DEF Settable, LinkSettings, NRF24_REG_CONFIG, NRF24_REG_STATUS
<1>2. set \in Byte /\ clear \in Byte /\ {} \in Byte
  BY FieldsAreBits DEF Byte
<1>3. s.reg \in Registers
  BY Parts
<1>4. old \in Byte
  BY <1>1, <1>2, <1>3, OneByteWritten
<1> HIDE DEF set, clear
<1>5. Ends(nrf24_read_register(r) \o <<WriteBack(r, set, clear)>>, s,
           [s EXCEPT !.csn = TRUE, !.buffer = s.buffer \o s.reg[r],
                     !.reg = ByteWritten(s.reg, r, 1, (old \ clear) \cup set)])
  BY <1>1, <1>2, Rewrites
<1>6. (old \ clear) \cup set \in Byte
  BY <1>2, <1>4 DEF Byte
<1>7. ByteWritten(s.reg, r, 1, (old \ clear) \cup set)
        = Updated(s.reg, r, <<(old \ clear) \cup set>>)
  <2>1. PICK byte \in Byte : byte = (old \ clear) \cup set
    BY <1>6
  <2>2. ByteWritten(s.reg, r, 1, byte) = Updated(s.reg, r, <<Stored(r, old, byte)>>)
    BY <1>1, <1>3, OneByteWritten
  <2>3. Stored(r, old, byte) = byte
    BY <1>1 DEF Stored
  <2> QED
    BY <2>1, <2>2, <2>3
<1> QED
  BY <1>5, <1>7 DEF PowerUpAs, Rewritten, set, clear

\* What a register that was written back leaves alone.
LEMMA RewrittenParts ==
  ASSUME NEW s \in State, NEW r \in Register, NEW byte
  PROVE  /\ Rewritten(s, r, byte).reg = Updated(s.reg, r, <<byte>>)
         /\ Rewritten(s, r, byte).reg[r] = <<byte>>
         /\ \A q \in Register \ {r} : Rewritten(s, r, byte).reg[q] = s.reg[q]
         /\ Rewritten(s, r, byte).txFifo = s.txFifo /\ Rewritten(s, r, byte).rxFifo = s.rxFifo
<1>1. /\ Rewritten(s, r, byte).reg = Updated(s.reg, r, <<byte>>)
      /\ Rewritten(s, r, byte).txFifo = s.txFifo /\ Rewritten(s, r, byte).rxFifo = s.rxFifo
  BY DEF Rewritten, State
<1>2. DOMAIN s.reg = Register
  BY Parts
<1> QED
  BY <1>1, <1>2 DEF Updated

\* The fields that power the radio up.
LEMMA PowerBits ==
  /\ Bits(nrf24_config_t, {"PRIM_RX", "PWR_UP"}) = {0, 1}
  /\ Bits(nrf24_config_t, {"PWR_UP"}) = {1}
  /\ Bits(nrf24_config_t, {"PRIM_RX"}) = {0}
  /\ Bits(nrf24_config_t, {}) = {}
<1>1. DOMAIN nrf24_config_t = 1 .. 8
  BY DEF nrf24_config_t
<1>2. {i \in 1 .. 8 : nrf24_config_t[i] \in {"PRIM_RX", "PWR_UP"}} = {1, 2}
  BY DEF nrf24_config_t
<1>3. {i \in 1 .. 8 : nrf24_config_t[i] \in {"PWR_UP"}} = {2}
  BY DEF nrf24_config_t
<1>4. {i \in 1 .. 8 : nrf24_config_t[i] \in {"PRIM_RX"}} = {1}
  BY DEF nrf24_config_t
<1>5. {i \in 1 .. 8 : nrf24_config_t[i] \in {}} = {}
  OBVIOUS
<1>6. {i - 1 : i \in {1, 2}} = {0, 1} /\ {i - 1 : i \in {2}} = {1} /\ {i - 1 : i \in {1}} = {0}
  OBVIOUS
<1> QED
  BY <1>1, <1>2, <1>3, <1>4, <1>5, <1>6 DEF Bits

\* Nothing but the three flags of STATUS is cleared.
LEMMA ClearKeeps ==
  ASSUME NEW c, NEW s \in State, Clear(s), Recalled(s)', c.fn = "clear_interrupts"
  PROVE  Keeps(c, s)
<1> DEFINE r == NRF24_REG_STATUS
           byte == s.reg[r][1] \ {4, 5, 6}
           t == Rewritten(s, r, byte)
<1>1. r \in Register
  BY DEF NRF24_REG_STATUS, Register
<1>2. Ends(Steps(c), s, t)
  BY ClearsInterrupts DEF Steps
<1> HIDE DEF byte
<1>3. t.reg = Updated(s.reg, r, <<byte>>) /\ t.txFifo = s.txFifo /\ t.rxFifo = s.rxFifo
  BY <1>1, RewrittenParts
<1>4. before'.reg = s.reg
  BY DEF Recalled
<1>5. Promised(c)' = [before'.reg EXCEPT ![r] = <<before'.reg[r][1] \ ({6} \cup {5} \cup {4})>>]
  BY DEF Promised, Cleared, Holding, NRF24_STATUS
<1>6. before'.reg[r][1] \ ({6} \cup {5} \cup {4}) = byte
  BY <1>4 DEF byte
<1> HIDE DEF t, r
<1>7. t.reg = Promised(c)'
  BY <1>3, <1>4, <1>5, <1>6 DEF Updated
<1>8. s.txFifo = PromisedToSend(c)' /\ s.rxFifo = PromisedToRead(c)' /\ c.fn \notin Getters
  BY FifosUntouched DEF Getters
<1> QED
  BY <1>2, <1>3, <1>7, <1>8 DEF Keeps, Fulfils

\* The image of CONFIG that makes the radio a receiver.
LEMMA ReceivingImage ==
  ASSUME NEW s \in State, Recalled(s)'
  PROVE  /\ Receiving' = (s.reg[NRF24_REG_CONFIG][1] \ Bits(nrf24_config_t, {}))
                           \cup Bits(nrf24_config_t, {"PRIM_RX", "PWR_UP"})
         /\ Holding(NRF24_REG_CONFIG, Receiving)' = Updated(s.reg, NRF24_REG_CONFIG, <<Receiving'>>)
<1>1. before'.reg = s.reg
  BY DEF Recalled
<1>2. Receiving' = s.reg[NRF24_REG_CONFIG][1] \cup {1} \cup {0}
  BY <1>1 DEF Receiving, Config, NRF24_CONFIG
<1>3. s.reg[NRF24_REG_CONFIG][1] \cup {1} \cup {0}
        = (s.reg[NRF24_REG_CONFIG][1] \ Bits(nrf24_config_t, {}))
            \cup Bits(nrf24_config_t, {"PRIM_RX", "PWR_UP"})
  BY PowerBits
<1> QED
  BY <1>1, <1>2, <1>3 DEF Holding, Updated

LEMMA PowerUpKeeps ==
  ASSUME NEW c, NEW s \in State, Clear(s), Recalled(s)', c.fn = "power_up_rx"
  PROVE  Keeps(c, s)
<1> DEFINE r == NRF24_REG_CONFIG
           t == Rewritten(s, r, Receiving')
<1>1. r \in Register
  BY DEF NRF24_REG_CONFIG, Register
<1>2. Ends(Steps(c), s, t)
  BY PowersUp, ReceivingImage DEF Steps, nrf24_power_up_rx
<1>3. t.reg = Updated(s.reg, r, <<Receiving'>>) /\ t.txFifo = s.txFifo /\ t.rxFifo = s.rxFifo
  BY <1>1, RewrittenParts
<1>4. Promised(c)' = Holding(r, Receiving)'
  BY DEF Promised
<1>5. s.txFifo = PromisedToSend(c)' /\ s.rxFifo = PromisedToRead(c)' /\ c.fn \notin Getters
  BY FifosUntouched DEF Getters
<1> HIDE DEF t
<1> QED
  BY <1>2, <1>3, <1>4, <1>5, ReceivingImage DEF Keeps, Fulfils

\* The receiver's only other setting is the length of the payloads of pipe 0.
LEMMA ReceiverKeeps ==
  ASSUME NEW c, NEW s \in State, Clear(s), Recalled(s)', c.fn = "setup_primary_receiver"
  PROVE  Keeps(c, s)
<1> DEFINE r == NRF24_REG_CONFIG
           p == NRF24_REG_RX_PW_P0
           u == Rewritten(s, r, Receiving')
           t == [u EXCEPT !.csn = TRUE, !.reg = ByteWritten(u.reg, p, 1, {5})]
<1>1. r \in Register /\ p \in Register /\ Width(p) = 1 /\ p # NRF24_REG_STATUS
  BY DEF NRF24_REG_CONFIG, NRF24_REG_RX_PW_P0, NRF24_REG_STATUS, NRF24_REG_TX_ADDR,
         NRF24_REG_RX_ADDR_P0, Register, Width
<1>2. Ends(nrf24_power_up_rx, s, u)
  BY PowersUp, ReceivingImage DEF nrf24_power_up_rx
<1>3. u.reg = Updated(s.reg, r, <<Receiving'>>) /\ u.txFifo = s.txFifo /\ u.rxFifo = s.rxFifo
  BY <1>1, RewrittenParts
<1> HIDE DEF u
<1>4. u \in State /\ Clear(u) /\ u.reg \in Registers
  BY <1>2, Parts DEF Ends
<1>5. {5} \in Byte /\ {5} \cap NRF24_RX_PW_P0_MASK = {5}
  BY DEF Byte, NRF24_RX_PW_P0_MASK
<1>6. nrf24_set_rx_payload_len(0, {5}) = nrf24_write_register(p, {5})
  <2>1. NRF24_REG_RX_PW_P0 + 0 = p
    BY DEF NRF24_REG_RX_PW_P0
  <2> QED
    BY <1>5, <2>1 DEF nrf24_set_rx_payload_len
<1> HIDE DEF p
<1>7. Ends(nrf24_write_register(p, {5}), u, t)
  BY <1>1, <1>4, <1>5, WritesRegisters
<1>8. Ends(Steps(c), s, t)
  <2>1. Ends(nrf24_power_up_rx \o nrf24_set_rx_payload_len(0, {5}), s, t)
    BY <1>2, <1>6, <1>7, EndsOn
  <2> QED
    BY <2>1 DEF Steps, nrf24_setup_primary_receiver
<1>9. ByteWritten(u.reg, p, 1, {5}) = Updated(u.reg, p, <<{5}>>)
  <2>1. ByteWritten(u.reg, p, 1, {5}) = Updated(u.reg, p, <<Stored(p, u.reg[p][1], {5})>>)
    BY <1>1, <1>4, <1>5, OneByteWritten
  <2> QED
    BY <1>1, <2>1 DEF Stored
<1>10. t.reg = Updated(u.reg, p, <<{5}>>) /\ t.txFifo = u.txFifo /\ t.rxFifo = u.rxFifo
  BY <1>4, <1>9 DEF State
<1>11. Promised(c)' = [Holding(r, Receiving)' EXCEPT ![p] = <<{5}>>]
  BY DEF Promised, p
<1>12. Promised(c)' = Updated(u.reg, p, <<{5}>>)
  BY <1>3, <1>11, ReceivingImage DEF Updated
<1>13. s.txFifo = PromisedToSend(c)' /\ s.rxFifo = PromisedToRead(c)' /\ c.fn \notin Getters
  BY FifosUntouched DEF Getters
<1> HIDE DEF t
<1> QED
  BY <1>3, <1>8, <1>10, <1>12, <1>13 DEF Keeps, Fulfils

\* The images of STATUS and CONFIG that start a transmission.
LEMMA SendingImages ==
  ASSUME NEW c, NEW s \in State, Recalled(s)', c.fn = "transmit_data",
         NEW cleared, cleared = s.reg[NRF24_REG_STATUS][1] \ {4, 5, 6},
         NEW config, config = (s.reg[NRF24_REG_CONFIG][1] \ Bits(nrf24_config_t, {"PRIM_RX"}))
                                \cup Bits(nrf24_config_t, {"PWR_UP"})
  PROVE  Promised(c)' = Updated(Updated(s.reg, NRF24_REG_STATUS, <<cleared>>),
                                NRF24_REG_CONFIG, <<config>>)
<1>1. before'.reg = s.reg
  BY DEF Recalled
<1>2. Cleared' = Updated(s.reg, NRF24_REG_STATUS, <<cleared>>)
  <2>1. Cleared' = [before'.reg EXCEPT ![NRF24_REG_STATUS] =
                      <<before'.reg[NRF24_REG_STATUS][1] \ ({6} \cup {5} \cup {4})>>]
    BY DEF Cleared, Holding, NRF24_STATUS
  <2>2. before'.reg[NRF24_REG_STATUS][1] \ ({6} \cup {5} \cup {4}) = cleared
    BY <1>1
  <2> QED
    BY <1>1, <2>1, <2>2 DEF Updated
<1>3. (Config' \ NRF24_CONFIG.PRIM_RX) \cup NRF24_CONFIG.PWR_UP = config
  BY <1>1, PowerBits DEF Config, NRF24_CONFIG
<1>4. Promised(c)' = [Cleared' EXCEPT ![NRF24_REG_CONFIG] =
                        <<(Config' \ NRF24_CONFIG.PRIM_RX) \cup NRF24_CONFIG.PWR_UP>>]
  BY DEF Promised
<1> QED
  BY <1>2, <1>3, <1>4 DEF Updated

\* The only payload is the one that is sent, and the radio a transmitter.
LEMMA TransmitKeeps ==
  ASSUME NEW c \in Call, NEW s \in State, Clear(s), Recalled(s)', c.fn = "transmit_data"
  PROVE  Keeps(c, s)
<1> DEFINE cleared == s.reg[NRF24_REG_STATUS][1] \ {4, 5, 6}
           t1 == Rewritten(s, NRF24_REG_STATUS, cleared)
           config == (s.reg[NRF24_REG_CONFIG][1] \ Bits(nrf24_config_t, {"PRIM_RX"}))
                       \cup Bits(nrf24_config_t, {"PWR_UP"})
           t2 == Rewritten(t1, NRF24_REG_CONFIG, config)
           t3 == [t2 EXCEPT !.csn = TRUE, !.txFifo = << >>]
           fifo == Loaded(<< >>, Passed(PayloadLength(c.n)))
           t4 == [t3 EXCEPT !.csn = TRUE, !.txFifo = fifo]
<1>0. c.n \in Nat
  BY LengthsAreNumbers
<1>1. /\ NRF24_REG_STATUS \in Register /\ NRF24_REG_CONFIG \in Register
      /\ NRF24_REG_CONFIG \in Register \ {NRF24_REG_STATUS}
  BY DEF NRF24_REG_STATUS, NRF24_REG_CONFIG, Register
<1>2. Ends(nrf24_clear_interrupts, s, t1)
  BY ClearsInterrupts
<1>3. /\ t1.reg = Updated(s.reg, NRF24_REG_STATUS, <<cleared>>)
      /\ t1.reg[NRF24_REG_CONFIG] = s.reg[NRF24_REG_CONFIG]
      /\ t1.txFifo = s.txFifo /\ t1.rxFifo = s.rxFifo
  <2> HIDE DEF cleared, t1
  <2>1. /\ Rewritten(s, NRF24_REG_STATUS, cleared).reg
             = Updated(s.reg, NRF24_REG_STATUS, <<cleared>>)
        /\ Rewritten(s, NRF24_REG_STATUS, cleared).reg[NRF24_REG_CONFIG] = s.reg[NRF24_REG_CONFIG]
        /\ Rewritten(s, NRF24_REG_STATUS, cleared).txFifo = s.txFifo
        /\ Rewritten(s, NRF24_REG_STATUS, cleared).rxFifo = s.rxFifo
    BY <1>1, RewrittenParts
  <2> QED
    BY <2>1 DEF t1
<1> HIDE DEF t1, cleared
<1>4. t1 \in State /\ Clear(t1)
  BY <1>2 DEF Ends
<1>5. Ends(PowerUpAs({"PWR_UP"}, {"PRIM_RX"}), t1, t2)
  BY <1>3, <1>4, PowersUp
<1>6. /\ t2.reg = Updated(t1.reg, NRF24_REG_CONFIG, <<config>>)
      /\ t2.txFifo = t1.txFifo /\ t2.rxFifo = t1.rxFifo
  <2> HIDE DEF config
  <2>1. /\ Rewritten(t1, NRF24_REG_CONFIG, config).reg
             = Updated(t1.reg, NRF24_REG_CONFIG, <<config>>)
        /\ Rewritten(t1, NRF24_REG_CONFIG, config).txFifo = t1.txFifo
        /\ Rewritten(t1, NRF24_REG_CONFIG, config).rxFifo = t1.rxFifo
    BY <1>1, <1>4, RewrittenParts
  <2> QED
    BY <2>1
<1> HIDE DEF t2, config
<1>7. t2 \in State /\ Clear(t2)
  BY <1>5 DEF Ends
<1>8. Ends(nrf24_send_command(NRF24_CMD_FLUSH_TX), t2, t3)
  BY <1>7, Flushes
<1>9. t3.reg = t2.reg /\ t3.txFifo = << >> /\ t3.rxFifo = t2.rxFifo
  BY <1>7 DEF State
<1> HIDE DEF t3
<1>10. t3 \in State /\ Clear(t3)
  BY <1>8 DEF Ends
<1>11. Ends(nrf24_write_tx_payload(c.n), t3, t4)
  BY <1>0, <1>9, <1>10, LoadsPayload
<1> HIDE DEF fifo
<1>12. t4.reg = t3.reg /\ t4.txFifo = fifo /\ t4.rxFifo = t3.rxFifo
  BY <1>10 DEF State
<1> HIDE DEF t4
<1>13. Ends(Steps(c), s, t4)
  <2>1. Ends(nrf24_clear_interrupts \o PowerUpAs({"PWR_UP"}, {"PRIM_RX"}), s, t2)
    BY <1>2, <1>5, EndsOn
  <2>2. Ends((nrf24_clear_interrupts \o PowerUpAs({"PWR_UP"}, {"PRIM_RX"}))
               \o nrf24_send_command(NRF24_CMD_FLUSH_TX), s, t3)
    BY <1>8, <2>1, EndsOn
  <2>3. Ends(nrf24_transmit_data(c.n), s, t4)
    BY <1>11, <2>2, EndsOn, Zenon DEF nrf24_transmit_data
  <2> QED
    BY <2>3 DEF Steps
<1>14. t4.reg = Promised(c)'
  <2>1. Promised(c)' = Updated(Updated(s.reg, NRF24_REG_STATUS, <<cleared>>),
                               NRF24_REG_CONFIG, <<config>>)
    BY SendingImages DEF cleared, config
  <2> QED
    BY <1>3, <1>6, <1>9, <1>12, <2>1
<1>15. fifo = PromisedToSend(c)'
  <2> DEFINE frame == IF c.n = 0 THEN << >>
                      ELSE <<[i \in 1 .. Limited(c.n, PayloadSize) |-> {i % 8}]>>
  <2>1. << >> \in Seq(Seq(Byte))
    OBVIOUS
  <2>2. fifo = << >> \o frame /\ fifo \in Seq(Seq(Byte))
    BY <1>0, <2>1, FrameOf DEF fifo
  <2>3. PromisedToSend(c)' = frame
    BY DEF PromisedToSend
  <2>4. frame \in Seq(Seq(Byte))
    <3>1. CASE c.n = 0
      BY <2>1, <3>1
    <3>2. CASE c.n # 0
      <4> DEFINE payload == [i \in 1 .. Limited(c.n, PayloadSize) |-> {i % 8}]
      <4>1. Limited(c.n, PayloadSize) \in Nat
        BY <1>0, PayloadSizeAssumption DEF Limited
      <4>2. payload \in Seq(Byte)
        BY <4>1, PassedBytes DEF Passed
      <4> HIDE DEF payload
      <4>3. <<payload>> \in Seq(Seq(Byte))
        BY <4>2
      <4> QED
        BY <3>2, <4>3 DEF payload
    <3> QED
      BY <3>1, <3>2
  <2> HIDE DEF frame
  <2>5. << >> \o frame = frame
    BY <2>4
  <2> QED
    BY <2>2, <2>3, <2>5
<1>16. s.rxFifo = PromisedToRead(c)' /\ c.fn \notin Getters
  BY DEF PromisedToRead, Recalled, Getters
<1> QED
  BY <1>3, <1>6, <1>9, <1>12, <1>13, <1>14, <1>15, <1>16 DEF Keeps, Fulfils

\* Every function does what it promises; a payload is read only if there is one.
LEMMA CallKeeps ==
  ASSUME NEW c \in Call, NEW s \in State, Clear(s), s.buffer = << >>, Recalled(s)',
         c.fn = "read_rx_payload" => s.rxFifo # << >>
  PROVE  Keeps(c, s)
<1>1. \/ c.fn \in {"set_rx_address", "set_tx_address"}
      \/ c.fn \in {"get_rx_address", "get_tx_address"}
      \/ c.fn \in {"get", "get_rx_payload_len"}
      \/ c.fn \in {"flush_tx", "flush_rx"}
      \/ c.fn \in {"set", "set_rx_payload_len", "setup_rf", "set_rf_channel", "read_rx_payload",
                   "write_tx_payload", "transmit_data", "clear_interrupts", "power_up_rx",
                   "setup_primary_receiver"}
  BY DEF Call
<1>2. CASE c.fn \in {"set_rx_address", "set_tx_address"}
  BY <1>2, AddressesKeep, Zenon
<1>3. CASE c.fn \in {"get_rx_address", "get_tx_address"}
  BY <1>3, GetAddressKeeps, Zenon
<1>4. CASE c.fn \in {"get", "get_rx_payload_len"}
  BY <1>4, GetKeeps, Zenon
<1>5. CASE c.fn \in {"flush_tx", "flush_rx"}
  BY <1>5, FlushKeeps, Zenon
<1>6. CASE c.fn \in {"set", "set_rx_payload_len", "setup_rf", "set_rf_channel", "read_rx_payload",
                     "write_tx_payload", "transmit_data", "clear_interrupts", "power_up_rx",
                     "setup_primary_receiver"}
  BY <1>6, SetKeeps, PayloadLengthKeeps, SetupKeeps, ChannelKeeps, TakeKeeps, LoadKeeps,
     TransmitKeeps, ClearKeeps, PowerUpKeeps, ReceiverKeeps, Zenon
<1> QED
  BY <1>1, <1>2, <1>3, <1>4, <1>5, <1>6, Zenon
-----------------------------------------------------------------------------
(* The steps of the specification, and what the wire leads to.             *)

\* What the variables hold.
LEMMA PresentParts ==
  /\ Present.csn = csn /\ Present.command = command /\ Present.count = count
  /\ Present.reg = reg /\ Present.shifted = shifted /\ Present.txFifo = txFifo
  /\ Present.rxFifo = rxFifo /\ Present.buffer = buffer
BY DEF Present

LEMMA PresentState ==
  ASSUME TypeOK
  PROVE  Present \in State
BY DEF TypeOK, State, Present, Registers

\* A promise does not change while it is kept.
LEMMA SamePromise ==
  ASSUME call' = call, before' = before, NEW s
  PROVE  Fulfils(call, s)' <=> Fulfils(call, s)
BY DEF Fulfils, Promised, PromisedToSend, PromisedToRead, Answer, Value, Holding, Cleared,
       Receiving, Config

\* A step of the wire is a step on the path.
LEMMA OnThePath ==
  ASSUME Inv, LeadsToPromised, wire # << >>, wire' = Tail(wire), call' = call, before' = before,
         \A next : <<Present, wire[1], next>> \in Does => Present' = next
  PROVE  LeadsToPromised'
<1> SUFFICES ASSUME call.fn \notin {"reset", "init"}
             PROVE  \E s : Path(wire', Does, Present', s) /\ Fulfils(call, s)'
  BY DEF LeadsToPromised
<1>1. PICK s : Path(wire, Does, Present, s) /\ Fulfils(call, s)
  BY DEF LeadsToPromised
<1>2. wire \in Seq(Item)
  BY DEF Inv, TypeOK
<1>3. PICK next : <<Present, wire[1], next>> \in Does /\ Path(Tail(wire), Does, next, s)
  BY <1>1, <1>2, PathFirst
<1>4. Path(wire', Does, Present', s)
  BY <1>3
<1> QED
  BY <1>1, <1>4, SamePromise

\* A step that does what an item does.
LEMMA DoesParts ==
  ASSUME NEW s, NEW item, NEW t, <<s, item, t>> \in Does
  PROVE  /\ s \in State /\ item \in Item /\ t \in State
         /\ \/ Selects(s, item, t) \/ Deselects(s, item, t) \/ Commands(s, item, t)
            \/ WritesRegister(s, item, t) \/ WritesPayload(s, item, t) \/ ReadsByte(s, item, t)
            \/ RewritesRegister(s, item, t)
BY DEF Does

\* The pin is set.
LEMMA CsnOnThePath ==
  ASSUME Inv, Inv', PromiseInv, set_csn
  PROVE  PromiseInv'
<1> DEFINE level == wire[1][2]
<1>1. /\ wire # << >> /\ wire[1][1] = "csn" /\ SetCsn(level)
      /\ wire' = Tail(wire) /\ UNCHANGED <<buffer, call, before>>
      /\ TypeOK /\ TypeOK' /\ DecoderInv
  BY Rest DEF set_csn, At, Unrecorded, Inv
<1>2. ASSUME NEW next, <<Present, wire[1], next>> \in Does PROVE Present' = next
  <2>1. ~ \/ Commands(Present, wire[1], next) \/ WritesRegister(Present, wire[1], next)
            \/ WritesPayload(Present, wire[1], next) \/ ReadsByte(Present, wire[1], next)
            \/ RewritesRegister(Present, wire[1], next)
    BY <1>1, NewItems DEF Commands, WritesRegister, WritesPayload, ReadsByte, RewritesRegister
  <2>2. \/ wire[1] = Low /\ Clear(Present) /\ next = [Present EXCEPT !.csn = FALSE]
        \/ wire[1] = High /\ ~ csn /\ next = Raised(Present)
    <3>1. Selects(Present, wire[1], next) \/ Deselects(Present, wire[1], next)
      BY <1>2, <2>1, DoesParts, Zenon
    <3> QED
      BY <3>1, PresentParts DEF Selects, Deselects
  <2>3. CASE wire[1] = Low /\ Clear(Present) /\ next = [Present EXCEPT !.csn = FALSE]
    <3>1. /\ csn' = FALSE /\ command' = command /\ count' = count /\ reg' = reg
          /\ shifted' = shifted /\ txFifo' = txFifo /\ rxFifo' = rxFifo /\ buffer' = buffer
      BY <1>1, <2>3, NewItems, PresentParts DEF SetCsn, Clear, decoder, memory
    <3> QED
      BY <2>3, <3>1 DEF Present
  <2>4. CASE wire[1] = High /\ ~ csn /\ next = Raised(Present)
    <3>1. /\ csn' = TRUE /\ command' = NoCommand /\ count' = 0 /\ shifted' = << >>
          /\ reg' = reg /\ buffer' = buffer
          /\ txFifo' = IF shifted # << >> THEN Append(txFifo, shifted) ELSE txFifo
          /\ rxFifo' = IF command = NRF24_CMD_R_RX_PAYLOAD /\ count > 0 /\ rxFifo # << >>
                       THEN Tail(rxFifo) ELSE rxFifo
      BY <1>1, <2>4, NewItems DEF SetCsn, TypeOK
    <3> QED
      BY <2>4, <3>1 DEF Present, Raised
  <2> QED
    BY <2>2, <2>3, <2>4
<1>3. LeadsToPromised'
  BY <1>1, <1>2, OnThePath DEF PromiseInv
<1>4. NothingShifted'
  BY <1>1 DEF PromiseInv, NothingShifted, SetCsn, decoder
<1> QED
  BY <1>3, <1>4 DEF PromiseInv

\* The kinds of commands that take or give data.
LEMMA CommandKinds ==
  ASSUME NEW number \in 0 .. 255
  PROVE  /\ Writes(number) => number # NRF24_CMD_W_TX_PAYLOAD
         /\ Reads(number) => /\ ~ Writes(number) /\ number # NRF24_CMD_W_TX_PAYLOAD
                            /\ number # NRF24_CMD_R_RX_PAYLOAD
         /\ number = NRF24_CMD_R_RX_PAYLOAD =>
              ~ Writes(number) /\ number # NRF24_CMD_W_TX_PAYLOAD
BY DEF Reads, Writes, NRF24_CMD_W_TX_PAYLOAD, NRF24_CMD_R_RX_PAYLOAD

\* A byte is exchanged.
LEMMA ByteOnThePath ==
  ASSUME Inv, Inv', PromiseInv, spi_exchange
  PROVE  PromiseInv'
<1>1. /\ wire # << >> /\ wire[1][1] \in {"command", "data", "read"}
      /\ wire' = Tail(wire) /\ UNCHANGED <<call, before>>
      /\ buffer' = IF wire[1][1] = "read" THEN Append(buffer, Given) ELSE buffer
      /\ TypeOK /\ TypeOK' /\ DecoderInv
  BY Rest DEF spi_exchange, At, Unrecorded, Inv
<1>2. wire[1] \in Item
  BY <1>1, Rest
<1>3. PICK next \in Place : Moves(Now, wire[1], next)
  BY <1>1, WireGoesOn
<1>4. wire[1] # High /\ wire[1] # Low
  BY <1>1, NewItems
<1>5. CASE wire[1][1] = "command"
  <2> DEFINE number == wire[1][2]
  <2>1. Now = Selected /\ number \in 0 .. 255
    BY <1>2, <1>3, <1>4, <1>5, Items DEF Moves
  <2>2. ~ csn /\ command = NoCommand
    BY <1>1, <2>1, Places
  <2>3. TakeCommand(number)
    BY <1>1, <1>5, <2>2, Rest DEF spi_exchange, At
  <2>4. ASSUME NEW to, <<Present, wire[1], to>> \in Does PROVE Present' = to
    <3>1. to = Commanded(Present, number)
      <4>1. ~ \/ Selects(Present, wire[1], to) \/ Deselects(Present, wire[1], to)
              \/ WritesRegister(Present, wire[1], to) \/ WritesPayload(Present, wire[1], to)
              \/ ReadsByte(Present, wire[1], to) \/ RewritesRegister(Present, wire[1], to)
        BY <1>4, <1>5, NewItems
           DEF Selects, Deselects, WritesRegister, WritesPayload, ReadsByte, RewritesRegister
      <4>2. Commands(Present, wire[1], to)
        BY <2>4, <4>1, DoesParts, Zenon
      <4> QED
        BY <4>2 DEF Commands
    <3>2. csn' = FALSE /\ buffer' = buffer
      BY <1>1, <1>5, <2>2, <2>3 DEF TakeCommand, TypeOK
    <3> QED
      BY <2>3, <3>1, <3>2 DEF TakeCommand, Present, Commanded
  <2>5. LeadsToPromised'
    BY <1>1, <2>4, OnThePath DEF PromiseInv
  <2>6. NothingShifted'
    BY <2>1, <2>3 DEF NothingShifted, TakeCommand, NoCommand
  <2> QED
    BY <2>5, <2>6 DEF PromiseInv
<1>6. CASE wire[1][1] \in {"data", "read"}
  <2>1. Now \in Nat \ {0}
    BY <1>3, <1>4, <1>6 DEF Moves
  <2>2. ~ csn /\ command # NoCommand /\ command \in 0 .. 255
    BY <1>1, <2>1, Places DEF TypeOK
  <2>3. PICK byte \in Byte : TakeData(byte) /\ (wire[1][1] = "data" => byte = wire[1][2])
    <3>1. 0 .. 7 \in Byte /\ (wire[1][1] = "data" => wire[1][2] \in Byte)
      BY <1>2, Items DEF Byte
    <3> QED
      BY <1>1, <1>6, <2>2, <3>1, Rest DEF spi_exchange, At
  <2>4. ASSUME NEW to, <<Present, wire[1], to>> \in Does PROVE Present' = to
    <3>1. /\ csn' = csn /\ command' = command /\ count' = count + 1
          /\ txFifo' = txFifo /\ rxFifo' = rxFifo
      BY <2>3 DEF TakeData
    <3>2. \/ WritesRegister(Present, wire[1], to) \/ WritesPayload(Present, wire[1], to)
          \/ ReadsByte(Present, wire[1], to)
      BY <1>4, <1>6, <2>4, DoesParts
         DEF Selects, Deselects, Commands, RewritesRegister
    <3>3. CASE WritesRegister(Present, wire[1], to)
      <4>1. /\ wire[1][1] = "data" /\ Writes(command) /\ Room
            /\ to = [Present EXCEPT !.count = count + 1,
                       !.reg = ByteWritten(reg, Addressed(command), count + 1, byte)]
        BY <2>3, <3>3, PresentParts DEF WritesRegister, Room
      <4>2. reg' = ByteWritten(reg, Addressed(command), count + 1, byte)
        BY <2>3, <4>1 DEF TakeData, ByteWritten, Updated
      <4>3. shifted' = shifted
        BY <2>2, <2>3, <4>1, CommandKinds DEF TakeData
      <4>4. buffer' = buffer
        BY <1>1, <4>1
      <4> QED
        BY <3>1, <4>1, <4>2, <4>3, <4>4 DEF Present
    <3>4. CASE WritesPayload(Present, wire[1], to)
      <4>1. /\ wire[1][1] = "data" /\ command = NRF24_CMD_W_TX_PAYLOAD
            /\ to = [Present EXCEPT !.count = count + 1, !.shifted = Append(shifted, byte)]
        BY <2>3, <3>4, PresentParts DEF WritesPayload
      <4>2. reg' = reg /\ shifted' = Append(shifted, byte) /\ buffer' = buffer
        BY <1>1, <2>3, <4>1 DEF TakeData, Writes, NRF24_CMD_W_TX_PAYLOAD
      <4> QED
        BY <3>1, <4>1, <4>2 DEF Present
    <3>5. CASE ReadsByte(Present, wire[1], to)
      <4>1. /\ wire[1] = Nop /\ Room
            /\ Reads(command) \/ (command = NRF24_CMD_R_RX_PAYLOAD /\ rxFifo # << >>)
            /\ to = [Present EXCEPT !.count = count + 1,
                       !.buffer = Append(buffer, Source(Present, command)[count + 1])]
        BY <3>5, PresentParts DEF ReadsByte, Room
      <4>2. /\ ~ Writes(command) /\ command # NRF24_CMD_W_TX_PAYLOAD
            /\ ~ (Reads(command) /\ command = NRF24_CMD_R_RX_PAYLOAD)
        BY <2>2, <4>1, CommandKinds
      <4>3. reg' = reg /\ shifted' = shifted
        BY <2>3, <4>2 DEF TakeData
      <4>4. Source(Present, command)[count + 1] = Given
        BY <4>1, <4>2, PresentParts DEF Source, Given
      <4>5. buffer' = Append(buffer, Given)
        BY <1>1, <4>1, NewItems
      <4> QED
        BY <3>1, <4>1, <4>3, <4>4, <4>5 DEF Present
    <3> QED
      BY <3>2, <3>3, <3>4, <3>5
  <2>5. LeadsToPromised'
    BY <1>1, <2>4, OnThePath DEF PromiseInv
  <2>6. NothingShifted'
    BY <2>2, <2>3 DEF NothingShifted, TakeData
  <2> QED
    BY <2>5, <2>6 DEF PromiseInv
<1> QED
  BY <1>1, <1>5, <1>6

\* The image that is put on the wire does what writing it back stands for.
LEMMA ImageOnThePath ==
  ASSUME Inv, PromiseInv, WriteImage
  PROVE  PromiseInv'
<1> DEFINE item == wire[1]
           image == (buffer[Len(buffer)] \ item[4]) \cup item[3]
           written == nrf24_write_register(item[2], image)
<1>1. /\ wire # << >> /\ item[1] = "write_back"
      /\ wire' = written \o Tail(wire)
      /\ UNCHANGED <<call, before, buffer, csn, command, count, shifted, reg, txFifo, rxFifo>>
      /\ TypeOK
  BY Rest DEF WriteImage, At, Unrecorded, Inv, decoder, memory
<1>2. /\ item \in Item /\ Tail(wire) \in Seq(Item) /\ wire \in Seq(Item)
      /\ item[2] \in Register /\ item[3] \in Byte /\ item[4] \in Byte
  <2>1. item \in Item /\ Tail(wire) \in Seq(Item) /\ wire \in Seq(Item)
    BY <1>1, Rest DEF TypeOK
  <2> QED
    BY <1>1, <2>1, Items
<1>3. Present' = Present
  BY <1>1 DEF Present
<1>4. NothingShifted'
  BY <1>1 DEF PromiseInv, NothingShifted
<1>5. ASSUME call.fn \notin {"reset", "init"}
      PROVE  \E s : Path(wire', Does, Present', s) /\ Fulfils(call, s)'
  <2>1. PICK s : Path(wire, Does, Present, s) /\ Fulfils(call, s)
    BY <1>5 DEF PromiseInv, LeadsToPromised
  <2>2. PICK next : <<Present, item, next>> \in Does /\ Path(Tail(wire), Does, next, s)
    BY <1>1, <1>2, <2>1, PathFirst
  <2>3. RewritesRegister(Present, item, next)
    <3>1. item # High /\ item # Low /\ item # Nop
      BY <1>1, NewItems
    <3>2. ~ \/ Selects(Present, item, next) \/ Deselects(Present, item, next)
            \/ Commands(Present, item, next) \/ WritesRegister(Present, item, next)
            \/ WritesPayload(Present, item, next) \/ ReadsByte(Present, item, next)
      BY <1>1, <3>1
         DEF Selects, Deselects, Commands, WritesRegister, WritesPayload, ReadsByte
    <3> QED
      BY <2>2, <3>2, DoesParts, Zenon
  <2>4. /\ Clear(Present) /\ buffer # << >>
        /\ next = [Present EXCEPT !.csn = TRUE, !.reg = ByteWritten(reg, item[2], 1, image)]
    BY <2>3, PresentParts DEF RewritesRegister, Image
  <2>5. image \in Byte
    <3>1. buffer \in Seq(Byte) /\ Len(buffer) \in 1 .. Len(buffer)
      BY <1>1, <2>4 DEF TypeOK
    <3>2. buffer[Len(buffer)] \in Byte
      BY <3>1
    <3> QED
      BY <1>2, <3>2 DEF Byte
  <2> HIDE DEF image
  <2>6. Ends(written, Present, next)
    <3>1. Present \in State
      BY <1>1, PresentState
    <3>2. Ends(written, Present,
               [Present EXCEPT !.csn = TRUE, !.reg = ByteWritten(Present.reg, item[2], 1, image)])
      BY <1>2, <2>4, <2>5, <3>1, WritesRegisters
    <3> QED
      BY <2>4, <3>2, PresentParts
  <2> HIDE DEF written
  <2>7. Path(written \o Tail(wire), Does, Present, s)
    BY <1>2, <2>2, <2>6, PathOn DEF Ends
  <2> QED
    BY <1>1, <1>3, <2>1, <2>7, SamePromise
<1>6. LeadsToPromised'
  BY <1>1, <1>5 DEF LeadsToPromised
<1> QED
  BY <1>4, <1>6 DEF PromiseInv

\* What a call promises, it promises from then on.
LEMMA NewPromise ==
  ASSUME NEW c, call' = c, NEW s
  PROVE  Fulfils(call, s)' <=> Fulfils(c, s)'
BY DEF Fulfils, Promised, PromisedToSend, PromisedToRead, Answer, Value

\* A function is called between two transactions, and does what it promises.
LEMMA BeginOnThePath ==
  ASSUME Inv, Inv', PromiseInv, NEW c \in Call, Begin(c)
  PROVE  PromiseInv'
<1>1. /\ wire = << >> /\ call.fn # "reset"
      /\ c.fn = "read_rx_payload" => rxFifo # << >>
      /\ call' = c /\ wire' = Steps(c) /\ buffer' = << >>
      /\ before' = [reg |-> reg, txFifo |-> txFifo, rxFifo |-> rxFifo]
      /\ UNCHANGED <<csn, command, count, shifted, reg, txFifo, rxFifo>>
      /\ TypeOK /\ DecoderInv
  BY DEF Begin, Inv, decoder, memory
<1>2. command = NoCommand /\ count = 0 /\ shifted = << >>
  <2>1. Leads(<< >>, Now, Resting) \/ Leads(<< >>, Now, Selected)
    BY <1>1 DEF Inv, WireFits
  <2>2. Now \in {Resting, Selected}
    BY <2>1, NothingLeadsNowhere
  <2>3. command = NoCommand
    BY <1>1, <2>2, Places DEF DecoderInv
  <2> QED
    BY <1>1, <2>3 DEF DecoderInv, PromiseInv, NothingShifted
<1>3. PICK s : s = [csn |-> csn, command |-> command, count |-> count, reg |-> reg,
                    shifted |-> shifted, txFifo |-> txFifo, rxFifo |-> rxFifo, buffer |-> << >>]
  OBVIOUS
<1>4. Present' = s
  BY <1>1, <1>3 DEF Present
<1>5. s \in State
  <2>1. << >> \in Seq(Byte)
    OBVIOUS
  <2> QED
    BY <1>1, <1>3, <2>1 DEF TypeOK, State, Registers
<1>6. Clear(s) /\ s.buffer = << >> /\ (c.fn = "read_rx_payload" => s.rxFifo # << >>)
  BY <1>1, <1>2, <1>3 DEF Clear
<1>7. Recalled(s)'
  BY <1>1, <1>3 DEF Recalled
<1>8. Keeps(c, s)
  BY <1>5, <1>6, <1>7, CallKeeps
<1>9. PICK t : Ends(Steps(c), s, t) /\ Fulfils(c, t)'
  BY <1>8 DEF Keeps
<1>10. Path(wire', Does, Present', t) /\ Fulfils(call, t)'
  BY <1>1, <1>4, <1>9, NewPromise DEF Ends
<1>11. LeadsToPromised'
  BY <1>10 DEF LeadsToPromised
<1>12. NothingShifted'
  BY <1>1, <1>2 DEF NothingShifted
<1> QED
  BY <1>11, <1>12 DEF PromiseInv

\* A reset ends what was promised.
LEMMA ResetOnThePath ==
  ASSUME PromiseInv, Boot \/ Restart
  PROVE  PromiseInv'
<1>1. call'.fn \in {"reset", "init"}
  <2>1. call' = [fn |-> "init"] \/ call' = [fn |-> "reset"]
    BY DEF Boot, Restart
  <2> QED
    BY <2>1
<1>2. NothingShifted'
  BY DEF Boot, Restart, PromiseInv, NothingShifted, SetCsn, decoder
<1> QED
  BY <1>1, <1>2 DEF PromiseInv, LeadsToPromised

\* When nothing is left of a function, it has done what it promised.
LEMMA PromiseKept ==
  ASSUME PromiseInv
  PROVE  DoesWhatItPromises
<1> SUFFICES ASSUME wire = << >>, call.fn \notin {"reset", "init"}
             PROVE  Fulfils(call, Present)
  BY PresentParts DEF DoesWhatItPromises, Fulfils
<1>1. PICK s : Path(<< >>, Does, Present, s) /\ Fulfils(call, s)
  BY DEF PromiseInv, LeadsToPromised
<1> QED
  BY <1>1, NoPath
-----------------------------------------------------------------------------
(* The theorems.                                                           *)

(***************************************************************************)
(* The inductive invariant: at every moment the rest of the function that  *)
(* is carried out fits what the chip expects, whatever was called before   *)
(* and at whatever byte a reset cut it off.                                *)
(***************************************************************************)
THEOREM InvHolds == Spec => []Inv
<1>1. ASSUME Inv, [Next]_vars PROVE Inv'
  <2>1. CASE UNCHANGED vars
    <3>1. UNCHANGED <<call, wire, buffer, csn, command, count, shifted, reg, txFifo, rxFifo>>
      BY <2>1 DEF vars, host, decoder, memory
    <3> QED
      BY <1>1, <3>1 DEF Inv, TypeOK, DecoderInv, WireFits, Now
  <2> QED
    BY <1>1, <2>1, BootKeepsInv, BeginKeepsInv, SetCsnKeepsInv, ExchangeKeepsInv,
       WriteImageKeepsInv, RestartKeepsInv DEF Next
<1> QED
  BY <1>1, InvInit, PTL DEF Spec

(***************************************************************************)
(* No byte goes astray between the driver and the chip, for every length   *)
(* of a buffer, every value, any number of calls and of resets: every byte *)
(* that nrf24.c exchanges is taken as the command or the data that it was  *)
(* meant as, and the chip has a place for it.                              *)
(***************************************************************************)
THEOREM NoByteGoesAstray == Spec => []NoByteAstray
<1>1. ASSUME Inv PROVE NoByteAstray
  <2> SUFFICES ASSUME wire # << >>, wire[1][1] \in {"command", "data", "read"}
               PROVE  /\ wire[1][1] = "command" => ~ csn /\ command = NoCommand
                      /\ wire[1][1] \in {"data", "read"} =>
                           ~ csn /\ command # NoCommand /\ Room
    BY <1>1, Rest DEF NoByteAstray, At, Inv
  <2>1. PICK next \in Place : Moves(Now, wire[1], next)
    BY <1>1, WireGoesOn
  <2>2. wire[1] # High /\ wire[1] # Low
    BY NewItems
  <2>3. CASE wire[1][1] = "command"
    <3>1. Now = Selected
      BY <2>1, <2>2, <2>3 DEF Moves
    <3> QED
      BY <1>1, <2>3, <3>1, Places DEF Inv
  <2>4. CASE wire[1][1] \in {"data", "read"}
    <3>1. Now \in Nat \ {0}
      BY <2>1, <2>2, <2>4 DEF Moves
    <3>2. ~ csn /\ command # NoCommand /\ command \in 0 .. 255 /\ count \in Nat
      BY <1>1, <3>1, Places DEF Inv, TypeOK
    <3>3. Capacity(command) \in Nat /\ Now = Capacity(command) - count
      BY <3>2, PlacesAreNumbers DEF Now
    <3> QED
      BY <2>4, <3>1, <3>2, <3>3 DEF Room
  <2> QED
    BY <2>3, <2>4
<1> QED
  BY <1>1, InvHolds, PTL

(***************************************************************************)
(* Every function of nrf24.c leaves the chip's registers and FIFOs as its  *)
(* name and the masks of nrf24.h promise, and returns what the chip held:  *)
(* for every length of a buffer, every value, any number of calls before   *)
(* it, and whatever transaction a reset cut off.                           *)
(***************************************************************************)
THEOREM KeepsItsPromises == Spec => []DoesWhatItPromises
<1>1. Init => PromiseInv
  BY DEF Init, PromiseInv, NothingShifted, LeadsToPromised
<1>2. ASSUME Inv, Inv', PromiseInv, [Next]_vars PROVE PromiseInv'
  <2>1. CASE UNCHANGED vars
    <3>1. /\ UNCHANGED <<call, wire, before, shifted, command>> /\ Present' = Present
      BY <2>1 DEF vars, host, decoder, memory, Present
    <3>2. LeadsToPromised'
      <4> SUFFICES ASSUME call.fn \notin {"reset", "init"}
                   PROVE  \E s : Path(wire', Does, Present', s) /\ Fulfils(call, s)'
        BY <3>1 DEF LeadsToPromised
      <4>1. PICK s : Path(wire, Does, Present, s) /\ Fulfils(call, s)
        BY <1>2 DEF PromiseInv, LeadsToPromised
      <4> QED
        BY <3>1, <4>1, SamePromise
    <3>3. NothingShifted'
      BY <1>2, <3>1 DEF PromiseInv, NothingShifted
    <3> QED
      BY <3>2, <3>3 DEF PromiseInv
  <2> QED
    BY <1>2, <2>1, ResetOnThePath, BeginOnThePath, CsnOnThePath, ByteOnThePath,
       ImageOnThePath DEF Next
<1>3. PromiseInv => DoesWhatItPromises
  BY PromiseKept
<1> QED
  BY <1>1, <1>2, <1>3, InvHolds, PTL DEF Spec
=============================================================================
