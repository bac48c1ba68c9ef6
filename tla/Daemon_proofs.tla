--------------------------- MODULE Daemon_proofs ----------------------------
(***************************************************************************)
(* The calls to the daemon, for any number of clients, any size of the     *)
(* table of connections, and any operations whose reads are not of zero    *)
(* bytes: TypeOK, CleanBetweenCalls and ImplementsRemoteCalls of Daemon.   *)
(*                                                                         *)
(* The invariant follows one connection from end to end.  What is to come  *)
(* in its buffer, in the stream and at the client together is the command  *)
(* or the data; what is going out in the queue, in the message in progress *)
(* and in the stream together is the rest of one answer.  Then a piece     *)
(* moved from one place to the next changes nothing.                       *)
(***************************************************************************)
EXTENDS Daemon, SequenceTheorems, FiniteSetTheorems, TLAPS

\* A read of zero bytes leaves an empty message that is sent for ever.
ReadsNotEmpty == \A op \in Ops : op.kind = "read" => op.size > 0

\* Concatenation and length, as a whole.
Cat(a, b) == a \o b
Size(a) == Len(a)

Executions == [op : Ops, data : Seq(Units), result : Results]

InCalls ==
    [stage : {"idle", "answer", "second", "rest", "data"}, op : Ops \cup {NoOp},
     out : Seq(Units), need : Nat, result : Results \cup {"none", "lost"}]

Distinct(q) == \A m, n \in DOMAIN q : q[m] = q[n] => m = n
Has(q, x) == \E m \in DOMAIN q : q[m] = x

NoneEmpty(q) == \A m \in DOMAIN q : q[m] # <<>>

\* The queue is short, and no message in it is empty.
Orderly(s) ==
    (s.in_progress <=> s.sending # <<>>) /\ Size(s.queue) <= 2 /\ NoneEmpty(s.queue)

\* What is to be received: u is in the stream, out is not sent yet.
NothingComing(s, u) == s.cmd = NoOp /\ s.data = <<>> /\ s.buf = <<>> /\ u = <<>>

CommandComing(s, u, op, out) ==
    s.cmd = NoOp /\ s.data = <<>> /\ Cat(Cat(s.buf, u), out) = Command(op)

DataComing(s, u, op, out) ==
    /\ op.kind = "write" /\ s.cmd = op /\ s.buf = <<>> /\ Size(s.data) < op.size
    /\ Cat(Cat(s.data, u), out) = Payload(op)

\* A command in two phases without data is not waited for.
DataExpected(s, u, op, out) ==
    IF op.size > 0 THEN DataComing(s, u, op, out)
    ELSE NothingComing(s, u) /\ out = <<>>

\* What is to be sent: d is in the stream already.
Flat(q) ==
    IF Size(q) > 1 THEN Cat(q[1], q[2]) ELSE IF Size(q) > 0 THEN q[1] ELSE <<>>

Going(s, d) == Cat(d, Cat(s.sending, Flat(s.queue)))

Execution(op, r) ==
    [op |-> op, data |-> IF op.kind = "write" THEN Payload(op) ELSE <<>>, result |-> r]

\* The places of a call; e is what has been executed, k where the client is.
Between(s, u, d, e, k) ==
    k.stage = "idle" /\ k.out = <<>> /\ NothingComing(s, u) /\ Going(s, d) = <<>>

Commanded(s, u, d, e, k) ==
    /\ k.need = 1 /\ k.stage = "answer" /\ e = <<>> /\ Going(s, d) = <<>>
    /\ CommandComing(s, u, k.op, k.out)

Acknowledged(s, u, d, e, k) ==
    /\ k.need = 1 /\ k.stage = "answer" /\ k.op.kind = "write" /\ e = <<>> /\ k.out = <<>>
    /\ Going(s, d) = Ack /\ DataExpected(s, u, k.op, Payload(k.op))

SendingData(s, u, d, e, k) ==
    /\ k.need = 1 /\ k.stage = "second" /\ k.op.kind = "write" /\ e = <<>> /\ Going(s, d) = <<>>
    /\ DataExpected(s, u, k.op, k.out)

Answered(s, u, d, e, k) ==
    /\ k.need = 1 /\ k.stage = IF k.op.kind = "write" THEN "second" ELSE "answer"
    /\ k.out = <<>> /\ NothingComing(s, u)
    /\ \E r \in Results : e = <<Execution(k.op, r)>> /\ Going(s, d) = Flat(Answer(k.op, r))

Resting(s, u, d, e, k) ==
    /\ k.stage = "rest" /\ k.out = <<>> /\ NothingComing(s, u)
    /\ k.need = 1 /\ Size(Going(s, d)) = k.need
    /\ k.result \in Results /\ e = <<Execution(k.op, k.result)>>

Reading(s, u, d, e, k) ==
    /\ k.stage = "data" /\ k.op.kind = "read" /\ k.out = <<>> /\ NothingComing(s, u)
    /\ Size(Going(s, d)) = k.need /\ e = <<Execution(k.op, "OK")>>

\* A connection the server serves, its client there.
OpenOK(s, u, d, e, k) ==
    /\ Orderly(s)
    /\ \/ Between(s, u, d, e, k) \/ Commanded(s, u, d, e, k)
       \/ Acknowledged(s, u, d, e, k) \/ SendingData(s, u, d, e, k)
       \/ Answered(s, u, d, e, k) \/ Resting(s, u, d, e, k) \/ Reading(s, u, d, e, k)

\* Its client gone: what it had not sent will not come.
ClosedOK(s, u) ==
    /\ Orderly(s)
    /\ \/ NothingComing(s, u)
       \/ \E op \in Ops, out \in Seq(Units) :
            CommandComing(s, u, op, out) /\ s.queue = <<>>
       \/ \E op \in Ops, out \in Seq(Units) :
            DataComing(s, u, op, out) /\ Size(s.queue) <= 1

\* A client the server has not accepted, or has rejected.
Unserved(u, d, e, k) ==
    /\ d = <<>> /\ e = <<>>
    /\ \/ k.stage = "idle" /\ k.out = <<>> /\ u = <<>>
       \/ k.stage = "answer" /\ k.need = 1 /\ Cat(u, k.out) = Command(k.op)

CallTyped(k) == k \in InCalls /\ (k.stage # "idle" => k.op \in Ops)

-----------------------------------------------------------------------------
Types ==
    /\ up \in [Conns -> Seq(Units)]
    /\ down \in [Conns -> Messages] /\ \A c \in Conns : Len(down[c]) <= Room
    /\ life \in [Conns -> {"new", "open", "closed"}]
    /\ server_open \in SUBSET Conns
    /\ backlog \in Seq(Conns)
    /\ sockets \in [Slots -> Entries \cup {NoSocket}]
    /\ revents \in [0 .. MaxConnections -> SUBSET {"IN", "OUT", "HUP"}]
    /\ consuming \in SUBSET Slots
    /\ executed \in [Conns -> Seq(Executions)]
    /\ client \in [Conns -> InCalls] /\ \A c \in Conns : CallTyped(client[c])

ServedBy(i, c) == sockets[i] # NoSocket /\ sockets[i].conn = c

Served(c) == \E i \in Slots : ServedBy(i, c)
Waiting(c) == Has(backlog, c)

\* Where the server has a connection: in one entry, or once in the backlog.
Places ==
    /\ \A c \in Conns : c \in server_open <=> Served(c) \/ Waiting(c)
    /\ \A c \in Conns : ~(Served(c) /\ Waiting(c))
    /\ \A i, j \in Slots, c \in Conns : ServedBy(i, c) /\ ServedBy(j, c) => i = j
    /\ Distinct(backlog)
    /\ \A c \in server_open : life[c] # "new"

\* What poll has returned is still so when the loop comes to it.
EventOK(i) ==
    /\ sockets[i] = NoSocket => revents[i] = {} /\ i \notin consuming
    /\ \A c \in Conns : ServedBy(i, c) =>
         /\ "IN" \in revents[i] => up[c] # <<>> \/ life[c] = "closed"
         /\ "OUT" \in revents[i] => WantsToWrite(sockets[i])
         /\ "HUP" \in revents[i] => life[c] = "closed"

EventsTrue ==
    /\ \A i, j \in consuming : i = j
    /\ revents[listen_idx] \subseteq {"IN"}
    /\ "IN" \in revents[listen_idx] => backlog # <<>>
    /\ \A i \in Slots : EventOK(i)

StreamOK(c) ==
    /\ life[c] = "new" =>
         up[c] = <<>> /\ down[c] = <<>> /\ executed[c] = <<>> /\ client[c] = Idle("none")
    /\ life[c] = "closed" => down[c] = <<>> /\ client[c] = Idle("lost")
    /\ life[c] = "open" /\ ~Served(c) => Unserved(up[c], down[c], executed[c], client[c])
    /\ life[c] = "closed" /\ Waiting(c) => ClosedOK(NewSocket(c), up[c])
    /\ \A i \in Slots : ServedBy(i, c) =>
         /\ life[c] = "open" => OpenOK(sockets[i], up[c], down[c], executed[c], client[c])
         /\ life[c] = "closed" => ClosedOK(sockets[i], up[c])

StreamsOK == \A c \in Conns : StreamOK(c)

CallInv == Types /\ Places /\ EventsTrue /\ StreamsOK

-----------------------------------------------------------------------------
(* Pieces of sequences.                                                    *)

LEMMA CatFacts ==
    \A S : \A a, b \in Seq(S) :
      /\ Cat(a, b) \in Seq(S) /\ Size(Cat(a, b)) = Size(a) + Size(b)
      /\ Cat(a, b) = <<>> => a = <<>> /\ b = <<>>
      /\ Cat(a, b) = b => a = <<>>
  <1> SUFFICES ASSUME NEW S, NEW a \in Seq(S), NEW b \in Seq(S)
               PROVE  /\ a \o b \in Seq(S) /\ Len(a \o b) = Len(a) + Len(b)
                      /\ a \o b = <<>> => a = <<>> /\ b = <<>>
                      /\ a \o b = b => a = <<>>
    BY DEF Cat, Size
  <1>1. QED  BY ConcatProperties, ConcatEqualIffEmpty

LEMMA SizeFacts ==
    \A S : \A a \in Seq(S) :
      /\ Size(a) \in Nat /\ DOMAIN a = 1 .. Size(a)
      /\ (a = <<>> <=> Size(a) <= 0) /\ (a # <<>> => Size(a) > 0)
      /\ \A i \in 1 .. Size(a) : a[i] \in S
  BY LenProperties, EmptySeq, ElementOfSeq DEF Size

LEMMA SizeEmpty == Size(<<>>) = 0
  BY DEF Size

LEMMA CatAssociative ==
    \A S : \A a, b, c \in Seq(S) : Cat(Cat(a, b), c) = Cat(a, Cat(b, c))
  BY ConcatAssociative DEF Cat

LEMMA CatEmpty ==
    \A S : \A a \in Seq(S) : Cat(a, <<>>) = a /\ Cat(<<>>, a) = a
  BY ConcatEmptySeq DEF Cat

\* A sequence cut in two.
LEMMA Cut ==
    ASSUME NEW S, NEW b \in Seq(S), NEW n \in 0 .. Len(b)
    PROVE  /\ SubSeq(b, 1, n) \in Seq(S) /\ SubSeq(b, n + 1, Len(b)) \in Seq(S)
           /\ Cat(SubSeq(b, 1, n), SubSeq(b, n + 1, Len(b))) = b
           /\ Size(SubSeq(b, 1, n)) = n
           /\ Size(SubSeq(b, n + 1, Len(b))) = Size(b) - n
  <1>1. Len(b) \in Nat /\ \A i \in 1 .. Len(b) : b[i] \in S
    BY LenProperties, ElementOfSeq
  <1>2. SubSeq(b, 1, n) \in Seq(S) /\ Len(SubSeq(b, 1, n)) = n
    BY <1>1, SubSeqProperties, Z3
  <1>3. SubSeq(b, n + 1, Len(b)) \in Seq(S) /\ Len(SubSeq(b, n + 1, Len(b))) = Len(b) - n
    BY <1>1, SubSeqProperties, Z3
  <1>4. Cat(SubSeq(b, 1, n), SubSeq(b, n + 1, Len(b))) = b
    <2>1. 1 \in 1 .. Len(b) + 1 /\ n \in 1 - 1 .. Len(b) /\ Len(b) \in n .. Len(b)
      BY <1>1
    <2>2. SubSeq(b, 1, n) \o SubSeq(b, n + 1, Len(b)) = SubSeq(b, 1, Len(b))
      BY <2>1, ConcatAdjacentSubSeq
    <2>3. QED  BY <2>2, SubSeqFull DEF Cat
  <1>5. /\ Size(SubSeq(b, 1, n)) = n
        /\ Size(SubSeq(b, n + 1, Len(b))) = Size(b) - n
    BY <1>2, <1>3, Zenon DEF Size
  <1>6. QED  BY <1>2, <1>3, <1>4, <1>5, Zenon

\* What is left when a piece is taken from the front of a sequence.
LEMMA FirstPieceGone ==
    ASSUME NEW S, NEW a \in Seq(S), NEW b \in Seq(S), NEW n \in 1 .. Len(a)
    PROVE  /\ Head(a) = Cat(a, b)[1]
           /\ \E y \in Seq(S) :
                /\ y = SubSeq(a, n + 1, Len(a)) /\ Cat(y, b) \in Seq(S)
                /\ Size(Cat(y, b)) = Size(Cat(a, b)) - n
  <1>1. Len(a) \in Nat /\ Len(b) \in Nat /\ a # <<>>  BY LenProperties, EmptySeq
  <1>2. Cat(a, b)[1] = a[1] /\ Head(a) = a[1]  BY <1>1, ConcatProperties DEF Cat
  <1>3. n \in 0 .. Len(a)  BY <1>1
  <1>4. /\ SubSeq(a, n + 1, Len(a)) \in Seq(S)
        /\ Size(SubSeq(a, n + 1, Len(a))) = Size(a) - n
    BY <1>3, Cut, Zenon
  <1>5. PICK y \in Seq(S) : y = SubSeq(a, n + 1, Len(a)) /\ Size(y) = Size(a) - n
    BY <1>4, Zenon
  <1>6. Size(y) = Size(a) - n  BY <1>5, Zenon
  <1>7. /\ Size(Cat(a, b)) = Size(a) + Size(b)
        /\ Cat(y, b) \in Seq(S) /\ Size(Cat(y, b)) = Size(y) + Size(b)
        /\ Size(a) \in Nat /\ Size(b) \in Nat
    BY CatFacts, SizeFacts
  <1>8. Size(Cat(y, b)) = Size(Cat(a, b)) - n  BY <1>3, <1>6, <1>7
  <1>9. QED  BY <1>2, <1>5, <1>7, <1>8, Zenon

LEMMA ThreePieces ==
    ASSUME NEW S, NEW a \in Seq(S), NEW b \in Seq(S), NEW c \in Seq(S)
    PROVE  /\ Cat(b, c) \in Seq(S) /\ Cat(a, Cat(b, c)) \in Seq(S)
           /\ Size(Cat(a, Cat(b, c))) = Size(a) + Size(b) + Size(c)
           /\ Cat(a, Cat(b, c)) = <<>> => a = <<>> /\ b = <<>> /\ c = <<>>
           /\ Size(a) \in Nat /\ Size(b) \in Nat /\ Size(c) \in Nat
  <1>1. /\ Cat(b, c) \in Seq(S) /\ Size(Cat(b, c)) = Size(b) + Size(c)
        /\ Cat(b, c) = <<>> => b = <<>> /\ c = <<>>
    BY CatFacts
  <1>2. /\ Cat(a, Cat(b, c)) \in Seq(S)
        /\ Size(Cat(a, Cat(b, c))) = Size(a) + Size(Cat(b, c))
        /\ Cat(a, Cat(b, c)) = <<>> => a = <<>> /\ Cat(b, c) = <<>>
    BY <1>1, CatFacts
  <1>3. Size(a) \in Nat /\ Size(b) \in Nat /\ Size(c) \in Nat  BY SizeFacts
  <1>4. QED  BY <1>1, <1>2, <1>3

-----------------------------------------------------------------------------
(* Commands, data and answers.                                             *)

LEMMA MinOfTwo ==
    ASSUME NEW a \in Int, NEW b \in Int
    PROVE  Min({a, b}) = IF a <= b THEN a ELSE b
  <1>1. CASE a <= b
    <2>1. a \in {a, b} /\ \A y \in {a, b} : a <= y  BY <1>1
    <2>2. \A x \in {a, b} : (\A y \in {a, b} : x <= y) => x = a  BY <1>1
    <2>3. QED  BY <2>1, <2>2, <1>1 DEF Min
  <1>2. CASE ~(a <= b)
    <2>1. b \in {a, b} /\ \A y \in {a, b} : b <= y  BY <1>2
    <2>2. \A x \in {a, b} : (\A y \in {a, b} : x <= y) => x = b  BY <1>2
    <2>3. QED  BY <2>1, <2>2, <1>2 DEF Min
  <1>3. QED  BY <1>1, <1>2

LEMMA OpFields ==
    ASSUME NEW op \in Ops
    PROVE  /\ op.kind \in {"plain", "register", "read", "write"} /\ op.size \in Nat
           /\ op # NoOp
  BY OpsAssumption, ServerAssumption

LEMMA CommandType ==
    ASSUME NEW op \in Ops
    PROVE  /\ Command(op) \in Seq(Units) /\ Size(Command(op)) = CommandSize
           /\ Command(op)[1][1] = op
  <1>1. Range(Command(op)) \subseteq Units  BY DEF Units
  <1>2. /\ <<op, "type", 0>> \in Range(Command(op))
        /\ <<op, "rest", 0>> \in Range(Command(op))
    <2>1. DOMAIN Command(op) = {1, 2}  BY DEF Command
    <2>2. Command(op)[1] = <<op, "type", 0>> /\ Command(op)[2] = <<op, "rest", 0>>
      BY DEF Command
    <2>3. QED  BY <2>1, <2>2 DEF Range
  <1>3. Command(op) \in Seq(Units)  BY <1>1, <1>2 DEF Command
  <1>4. Size(Command(op)) = CommandSize  BY DEF Command, CommandSize, Size
  <1>5. Command(op)[1][1] = op  BY DEF Command
  <1>6. QED  BY <1>3, <1>4, <1>5, Zenon

LEMMA PayloadType ==
    ASSUME NEW op \in Ops
    PROVE  Payload(op) \in Seq(Units) /\ Size(Payload(op)) = op.size
  <1>1. op.size \in Nat  BY OpFields
  <1>2. \A i \in 1 .. op.size : <<op, "data", i>> \in Units
    <2>1. SUFFICES ASSUME NEW i \in 1 .. op.size PROVE <<op, "data", i>> \in Range(Payload(op))
      BY DEF Units
    <2>2. i \in DOMAIN Payload(op) /\ Payload(op)[i] = <<op, "data", i>>  BY DEF Payload
    <2>3. QED  BY <2>2 DEF Range
  <1>3. Payload(op) \in Seq(Units)  BY <1>1, <1>2 DEF Payload
  <1>4. Size(Payload(op)) = op.size  BY <1>1 DEF Payload, Size
  <1>5. QED  BY <1>3, <1>4

LEMMA UnitsName ==
    ASSUME NEW v \in Units
    PROVE  v[1] \in Ops
  <1>1. PICK op \in Ops : v \in Range(Command(op)) \cup Range(Payload(op))
    BY DEF Units
  <1>2. CASE v \in Range(Command(op))
    <2>1. PICK i \in DOMAIN Command(op) : v = Command(op)[i]  BY <1>2 DEF Range
    <2>2. QED  BY <2>1 DEF Command
  <1>3. CASE v \in Range(Payload(op))
    <2>1. PICK i \in DOMAIN Payload(op) : v = Payload(op)[i]  BY <1>3 DEF Range
    <2>2. i \in 1 .. op.size  BY <2>1 DEF Payload
    <2>3. QED  BY <2>1, <2>2 DEF Payload
  <1>4. QED  BY <1>1, <1>2, <1>3

LEMMA AnswerUnit ==
    /\ Ack \in Messages /\ Size(Ack) = 1 /\ Ack # <<>> /\ Ack[1] = "ACK"
    /\ Error \in Messages /\ Size(Error) = 2 /\ Error # <<>> /\ Error[1] = "ERROR"
    /\ Register \in Messages /\ Size(Register) = 2 /\ Register # <<>>
    /\ Register[1] = "REGISTER_DATA"
  <1>1. DOMAIN Ack = {1} /\ DOMAIN Error = {1, 2} /\ DOMAIN Register = {1, 2}
    BY DEF Ack, Error, Register
  <1>2. Ack[1] = "ACK" /\ Error[1] = "ERROR" /\ Error[2] = "error_code"
        /\ Register[1] = "REGISTER_DATA" /\ Register[2] = "data"
    BY DEF Ack, Error, Register
  <1>3. {"ACK", "ERROR", "error_code", "REGISTER_DATA", "data"} \subseteq AnswerUnits
    BY <1>1, <1>2 DEF AnswerUnits, Range
  <1>4. Ack \in Messages /\ Error \in Messages /\ Register \in Messages
    BY <1>3 DEF Ack, Error, Register, Messages
  <1>5. Size(Ack) = 1 /\ Size(Error) = 2 /\ Size(Register) = 2
    BY DEF Ack, Error, Register, Size
  <1>6. QED  BY <1>2, <1>4, <1>5, SizeEmpty

LEMMA MemoryType ==
    ASSUME NEW op \in Ops
    PROVE  Memory(op) \in Messages /\ Size(Memory(op)) = op.size
  <1>1. op.size \in Nat /\ "byte" \in AnswerUnits  BY OpFields DEF AnswerUnits
  <1>2. Memory(op) \in Messages  BY <1>1 DEF Memory, Messages
  <1>3. Size(Memory(op)) = op.size  BY <1>1 DEF Memory, Size
  <1>4. QED  BY <1>2, <1>3

LEMMA FlatFacts ==
    ASSUME NEW q \in Seq(Messages), Size(q) <= 2, NoneEmpty(q)
    PROVE  Flat(q) \in Messages /\ Size(Flat(q)) >= Size(q)
  <1>1. Size(q) \in Nat /\ \A m \in 1 .. Size(q) : q[m] \in Messages /\ q[m] # <<>>
    BY SizeFacts DEF NoneEmpty
  <1>2. <<>> \in Messages /\ Size(<<>>) = 0  BY EmptySeq, SizeEmpty DEF Messages
  <1>3. \A m \in 1 .. Size(q) : Size(q[m]) \in Nat \ {0}  BY <1>1, SizeFacts DEF Messages
  <1>4. CASE Size(q) > 1
    <2>1. q[1] \in Messages /\ q[2] \in Messages  BY <1>1, <1>4
    <2>2. /\ Cat(q[1], q[2]) \in Messages
          /\ Size(Cat(q[1], q[2])) = Size(q[1]) + Size(q[2])
      BY <2>1, CatFacts DEF Messages
    <2>3. Size(q[1]) >= 1 /\ Size(q[2]) >= 1  BY <1>1, <1>3, <1>4
    <2>4. Flat(q) = Cat(q[1], q[2])  BY <1>4 DEF Flat
    <2>5. Size(q[1]) \in Nat /\ Size(q[2]) \in Nat /\ Size(q) \in Nat
      BY <1>1, <2>1, SizeFacts DEF Messages
    <2>6. Size(Cat(q[1], q[2])) >= Size(q)  BY <2>2, <2>3, <2>5
    <2>7. QED  BY <2>2, <2>4, <2>6
  <1>5. CASE Size(q) > 0 /\ ~(Size(q) > 1)
    <2>1. q[1] \in Messages /\ Size(q[1]) >= 1  BY <1>1, <1>3, <1>5
    <2>2. Flat(q) = q[1]  BY <1>5 DEF Flat
    <2>3. Size(q) <= 1  BY <1>1, <1>5
    <2>6. Size(q[1]) \in Nat  BY <2>1, SizeFacts DEF Messages
    <2>7. Size(q) \in Nat  BY <1>1
    <2>4. Size(q[1]) >= Size(q)  BY <2>1, <2>3, <2>6, <2>7
    <2>5. QED  BY <2>1, <2>2, <2>4
  <1>6. CASE ~(Size(q) > 0)
    <2>1. Flat(q) = <<>>  BY <1>1, <1>6 DEF Flat
    <2>2. Size(q) <= 0  BY <1>1, <1>6
    <2>3. q = <<>>  BY <2>2, SizeFacts
    <2>4. Size(<<>>) >= Size(<<>>)  BY <1>2
    <2>5. QED  BY <1>2, <2>1, <2>3, <2>4, Zenon
  <1>7. QED  BY <1>4, <1>5, <1>6

LEMMA EntryFields ==
    ASSUME NEW s \in Entries
    PROVE  /\ s.conn \in Conns /\ s.buf \in Seq(Units) /\ s.cmd \in Ops \cup {NoOp}
           /\ s.data \in Seq(Units) /\ s.queue \in Seq(Messages)
           /\ s.in_progress \in BOOLEAN /\ s.sending \in Messages
  BY DEF Entries

LEMMA GoingFacts ==
    ASSUME NEW s \in Entries, Orderly(s), NEW d \in Messages
    PROVE  /\ Going(s, d) \in Messages /\ Flat(s.queue) \in Messages
           /\ Cat(s.sending, Flat(s.queue)) \in Messages
           /\ Size(Going(s, d)) >= Size(d) + Size(s.queue)
           /\ Going(s, d) = <<>> => /\ d = <<>> /\ s.sending = <<>> /\ s.queue = <<>>
                                    /\ s.in_progress = FALSE
           /\ Size(Going(s, d)) \in Nat /\ Size(s.queue) \in Nat /\ Size(d) \in Nat
  <1>1. s.sending \in Messages /\ s.queue \in Seq(Messages) /\ s.in_progress \in BOOLEAN
    BY EntryFields
  <1>2. Flat(s.queue) \in Messages /\ Size(Flat(s.queue)) >= Size(s.queue)
    BY <1>1, FlatFacts DEF Orderly
  <1> DEFINE f == Flat(s.queue)
             g == Going(s, d)
  <1>3. /\ Cat(s.sending, f) \in Messages /\ g \in Messages
        /\ Size(g) = Size(d) + Size(s.sending) + Size(f)
        /\ g = <<>> => d = <<>> /\ s.sending = <<>> /\ f = <<>>
        /\ Size(d) \in Nat /\ Size(s.sending) \in Nat /\ Size(f) \in Nat
    BY <1>1, <1>2, ThreePieces DEF Going, Messages
  <1>4. Size(f) >= Size(s.queue) /\ Size(s.queue) \in Nat  BY <1>1, <1>2, SizeFacts
  <1>5. Size(g) \in Nat  BY <1>3, SizeFacts DEF Messages
  <1> HIDE DEF f, g
  <1>6. Size(g) >= Size(d) + Size(s.queue)  BY <1>3, <1>4
  <1>7. ASSUME g = <<>>
        PROVE  s.queue = <<>> /\ s.in_progress = FALSE
    <2>0. f = <<>>  BY <1>3, <1>7, Zenon
    <2>1. Size(f) = 0  BY <2>0, SizeEmpty, Zenon
    <2>2. Size(s.queue) <= 0  BY <1>4, <2>1
    <2>3. s.queue = <<>>  BY <1>1, <2>2, SizeFacts
    <2>4. s.in_progress <=> s.sending # <<>>  BY DEF Orderly
    <2>5. QED  BY <1>1, <1>3, <1>7, <2>3, <2>4, Zenon
  <1>8. QED  BY <1>2, <1>3, <1>4, <1>5, <1>6, <1>7 DEF f, g

\* A connection with nothing of a call in its entry.
LEMMA NewEntry ==
    ASSUME NEW c \in Conns
    PROVE  /\ NewSocket(c) \in Entries /\ Orderly(NewSocket(c))
           /\ NewSocket(c).conn = c /\ NewSocket(c).buf = <<>> /\ NewSocket(c).cmd = NoOp
           /\ NewSocket(c).data = <<>> /\ NewSocket(c).queue = <<>>
           /\ \A d \in Messages : Going(NewSocket(c), d) = d
  <1>1. NewSocket(c) \in Entries  BY EmptySeq DEF NewSocket, Entries, Messages
  <1>2. Orderly(NewSocket(c))  BY SizeEmpty, EmptySeq DEF NewSocket, Orderly, NoneEmpty
  <1>3. \A d \in Messages : Going(NewSocket(c), d) = d
    <2>1. <<>> \in Messages /\ Cat(<<>>, <<>>) = <<>>  BY EmptySeq, CatEmpty DEF Messages
    <2>2. \A d \in Messages : Cat(d, <<>>) = d  BY CatEmpty DEF Messages
    <2>3. NewSocket(c).sending = <<>> /\ Flat(NewSocket(c).queue) = <<>>
      BY SizeEmpty DEF NewSocket, Flat
    <2>4. QED  BY <2>1, <2>2, <2>3 DEF Going
  <1>4. QED  BY <1>1, <1>2, <1>3 DEF NewSocket

LEMMA OneMessage ==
    ASSUME NEW m \in Messages, m # <<>>
    PROVE  /\ <<m>> \in Seq(Messages) /\ Size(<<m>>) = 1 /\ DOMAIN <<m>> = {1}
           /\ <<m>>[1] = m /\ Flat(<<m>>) = m
  <1>1. <<m>> \in Seq(Messages) /\ Size(<<m>>) = 1 /\ DOMAIN <<m>> = {1} /\ <<m>>[1] = m
    BY DEF Size
  <1>2. QED  BY <1>1 DEF Flat

LEMMA AnswerSeq ==
    ASSUME NEW op \in Ops, NEW r
    PROVE  Answer(op, r) \in Seq(Messages)
  <1>1. Error \in Messages /\ Register \in Messages /\ Ack \in Messages /\ Memory(op) \in Messages
    BY AnswerUnit, MemoryType
  <1>2. QED  BY <1>1 DEF Answer

LEMMA AnswerFacts ==
    ASSUME NEW op \in Ops, NEW r \in Results, ReadsNotEmpty
    PROVE  /\ Answer(op, r) \in Seq(Messages) /\ Size(Answer(op, r)) <= 2
           /\ op.kind = "write" => Size(Answer(op, r)) <= 1
           /\ NoneEmpty(Answer(op, r))
           /\ r = "ERROR" => Flat(Answer(op, r)) = Error
           /\ r = "OK" /\ op.kind = "register" => Flat(Answer(op, r)) = Register
           /\ r = "OK" /\ op.kind \in {"plain", "write"} => Flat(Answer(op, r)) = Ack
           /\ r = "OK" /\ op.kind = "read" =>
                /\ Flat(Answer(op, r)) \in Messages
                /\ Size(Flat(Answer(op, r))) = 1 + op.size
                /\ Flat(Answer(op, r))[1] = "ACK"
  <1>0. op.kind \in {"plain", "register", "read", "write"} /\ op.size \in Nat  BY OpFields
  <1>1. CASE r = "ERROR"
    <2>0. Error \in Messages /\ Error # <<>>  BY AnswerUnit
    <2>1. Answer(op, r) = <<Error>>  BY <1>1 DEF Answer
    <2>2. /\ Answer(op, r) \in Seq(Messages) /\ Size(Answer(op, r)) = 1
          /\ DOMAIN Answer(op, r) = {1} /\ Answer(op, r)[1] = Error
          /\ Flat(Answer(op, r)) = Error
      BY <2>0, <2>1, OneMessage
    <2>3. NoneEmpty(Answer(op, r)) /\ Size(Answer(op, r)) <= 2 /\ Size(Answer(op, r)) <= 1
      BY <2>0, <2>2 DEF NoneEmpty
    <2>4. QED  BY <1>1, <2>2, <2>3, Zenon
  <1>2. CASE r = "OK" /\ op.kind = "register"
    <2>0. Register \in Messages /\ Register # <<>>  BY AnswerUnit
    <2>1. Answer(op, r) = <<Register>>  BY <1>2 DEF Answer
    <2>2. /\ Answer(op, r) \in Seq(Messages) /\ Size(Answer(op, r)) = 1
          /\ DOMAIN Answer(op, r) = {1} /\ Answer(op, r)[1] = Register
          /\ Flat(Answer(op, r)) = Register
      BY <2>0, <2>1, OneMessage
    <2>3. NoneEmpty(Answer(op, r)) /\ Size(Answer(op, r)) <= 2 /\ Size(Answer(op, r)) <= 1
      BY <2>0, <2>2 DEF NoneEmpty
    <2>4. QED  BY <1>2, <2>2, <2>3, Zenon
  <1>3. CASE r = "OK" /\ op.kind \in {"plain", "write"}
    <2>0. Ack \in Messages /\ Ack # <<>>  BY AnswerUnit
    <2>1. Answer(op, r) = <<Ack>>  BY <1>3 DEF Answer
    <2>2. /\ Answer(op, r) \in Seq(Messages) /\ Size(Answer(op, r)) = 1
          /\ DOMAIN Answer(op, r) = {1} /\ Answer(op, r)[1] = Ack
          /\ Flat(Answer(op, r)) = Ack
      BY <2>0, <2>1, OneMessage
    <2>3. NoneEmpty(Answer(op, r)) /\ Size(Answer(op, r)) <= 2 /\ Size(Answer(op, r)) <= 1
      BY <2>0, <2>2 DEF NoneEmpty
    <2>4. QED  BY <1>3, <2>2, <2>3, Zenon
  <1>4. CASE r = "OK" /\ op.kind = "read"
    <2>1. Answer(op, r) = <<Ack, Memory(op)>>  BY <1>4 DEF Answer
    <2>2. Memory(op) \in Messages /\ Size(Memory(op)) = op.size  BY MemoryType
    <2>3. op.size > 0 /\ Memory(op) # <<>>  BY <1>0, <1>4, <2>2, SizeEmpty DEF ReadsNotEmpty
    <2>4. /\ Answer(op, r) \in Seq(Messages) /\ Size(Answer(op, r)) = 2
          /\ Answer(op, r)[1] = Ack /\ Answer(op, r)[2] = Memory(op)
          /\ DOMAIN Answer(op, r) = 1 .. 2
      BY <2>1, <2>2, AnswerUnit DEF Size
    <2>5. Flat(Answer(op, r)) = Cat(Ack, Memory(op))
      <3>1. Size(Answer(op, r)) > 1  BY <2>4
      <3>2. QED  BY <2>4, <3>1 DEF Flat
    <2>6. /\ Cat(Ack, Memory(op)) \in Messages /\ Size(Cat(Ack, Memory(op))) = 1 + op.size
          /\ Cat(Ack, Memory(op))[1] = Ack[1]
      <3>1. Ack \in Seq(AnswerUnits) /\ Memory(op) \in Seq(AnswerUnits) /\ Size(Ack) = 1
        BY <2>2, AnswerUnit DEF Messages
      <3>2. /\ Cat(Ack, Memory(op)) \in Seq(AnswerUnits)
            /\ Size(Cat(Ack, Memory(op))) = Size(Ack) + Size(Memory(op))
        BY <3>1, CatFacts
      <3>3. 1 \in 1 .. Len(Ack)  BY <3>1 DEF Size
      <3>4. Cat(Ack, Memory(op))[1] = Ack[1]
        BY <3>1, <3>3, ConcatProperties, LenProperties DEF Cat
      <3>5. QED  BY <2>2, <3>1, <3>2, <3>4 DEF Messages
    <2>7. NoneEmpty(Answer(op, r))  BY <2>3, <2>4, AnswerUnit DEF NoneEmpty
    <2>8. Size(Answer(op, r)) <= 2  BY <2>4
    <2>9. /\ Flat(Answer(op, r)) \in Messages /\ Size(Flat(Answer(op, r))) = 1 + op.size
          /\ Flat(Answer(op, r))[1] = "ACK"
      BY <2>5, <2>6, AnswerUnit, Zenon
    <2>10. r # "ERROR" /\ op.kind \notin {"plain", "write", "register"}  BY <1>4
    <2>11. QED  BY <1>4, <2>4, <2>7, <2>8, <2>9, <2>10, Zenon
  <1>5. QED  BY <1>0, <1>1, <1>2, <1>3, <1>4 DEF Results

-----------------------------------------------------------------------------
(* What the server does with the entry of a connection.                    *)

\* The call sees of an entry what is to be received and what is going out.
LEMMA SameCall ==
    ASSUME NEW s, NEW t, NEW u, NEW d1, NEW d2, NEW e, NEW k,
           t.cmd = s.cmd, t.data = s.data, t.buf = s.buf,
           Orderly(t), Going(t, d2) = Going(s, d1), OpenOK(s, u, d1, e, k)
    PROVE  OpenOK(t, u, d2, e, k)
  <1>1. NothingComing(s, u) => NothingComing(t, u)  BY DEF NothingComing
  <1>2. \A op, out : CommandComing(s, u, op, out) => CommandComing(t, u, op, out)
    BY DEF CommandComing
  <1>3. \A op, out : DataExpected(s, u, op, out) => DataExpected(t, u, op, out)
    BY <1>1 DEF DataExpected, DataComing
  <1>4. CASE Between(s, u, d1, e, k)  BY <1>1, <1>4 DEF Between, OpenOK
  <1>5. CASE Commanded(s, u, d1, e, k)  BY <1>2, <1>5 DEF Commanded, OpenOK
  <1>6. CASE Acknowledged(s, u, d1, e, k)  BY <1>3, <1>6 DEF Acknowledged, OpenOK
  <1>7. CASE SendingData(s, u, d1, e, k)  BY <1>3, <1>7 DEF SendingData, OpenOK
  <1>8. CASE Answered(s, u, d1, e, k)  BY <1>1, <1>8 DEF Answered, OpenOK
  <1>9. CASE Resting(s, u, d1, e, k)  BY <1>1, <1>9 DEF Resting, OpenOK
  <1>10. CASE Reading(s, u, d1, e, k)  BY <1>1, <1>10 DEF Reading, OpenOK
  <1>11. QED
    BY <1>4, <1>5, <1>6, <1>7, <1>8, <1>9, <1>10 DEF OpenOK

\* What is not data is a command.
LEMMA OnlyCommand ==
    ASSUME NEW s, NEW u, NEW d, NEW e, NEW k, CallTyped(k),
           OpenOK(s, u, d, e, k), s.buf # <<>> \/ (s.cmd = NoOp /\ u # <<>>)
    PROVE  Commanded(s, u, d, e, k) /\ k.op \in Ops
  <1>1. ~NothingComing(s, u)  BY DEF NothingComing
  <1>2. ASSUME k.op \in Ops, NEW out, DataExpected(s, u, k.op, out) PROVE FALSE
    <2>1. k.op # NoOp  BY <1>2, OpFields
    <2>2. QED  BY <1>1, <1>2, <2>1 DEF DataExpected, DataComing
  <1>3. k.stage # "idle" => k.op \in Ops  BY DEF CallTyped
  <1>4. ~Between(s, u, d, e, k) /\ ~Answered(s, u, d, e, k) /\ ~Resting(s, u, d, e, k)
        /\ ~Reading(s, u, d, e, k)
    BY <1>1 DEF Between, Answered, Resting, Reading
  <1>5. ~Acknowledged(s, u, d, e, k) /\ ~SendingData(s, u, d, e, k)
    BY <1>2, <1>3 DEF Acknowledged, SendingData
  <1>6. Commanded(s, u, d, e, k)  BY <1>4, <1>5 DEF OpenOK
  <1>7. QED  BY <1>3, <1>6 DEF Commanded

WithBuffer(s, w) == [s EXCEPT !.buf = w]

LEMMA MessageReceived ==
    ASSUME NEW s \in Entries, NEW u, NEW x \in Seq(Units), NEW v \in Seq(Units),
           NEW w, NEW t, s.cmd = NoOp, u # <<>>, Cat(x, v) = u, w = Cat(s.buf, x),
           t = WithBuffer(s, w)
    PROVE  /\ t \in Entries /\ t.conn = s.conn
           /\ WantsToWrite(t) <=> WantsToWrite(s)
           /\ \A d, e, k : CallTyped(k) /\ OpenOK(s, u, d, e, k) => OpenOK(t, v, d, e, k)
           /\ ClosedOK(s, u) => ClosedOK(t, v)
  <1>1. s.buf \in Seq(Units)  BY EntryFields
  <1>2. w \in Seq(Units)  BY <1>1, CatFacts
  <1>3. /\ t.conn = s.conn /\ t.cmd = s.cmd /\ t.data = s.data /\ t.queue = s.queue
        /\ t.in_progress = s.in_progress /\ t.sending = s.sending /\ t.buf = w
        /\ t \in Entries
    BY <1>1, <1>2 DEF Entries, WithBuffer
  <1>4. Cat(t.buf, v) = Cat(s.buf, u)  BY <1>1, <1>3, CatAssociative
  <1>5. ASSUME NEW op, NEW out, CommandComing(s, u, op, out)
        PROVE  CommandComing(t, v, op, out)
    BY <1>3, <1>4, <1>5 DEF CommandComing
  <1>6. WantsToWrite(t) <=> WantsToWrite(s)  BY <1>3 DEF WantsToWrite
  <1>7. Orderly(s) => Orderly(t)  BY <1>3 DEF Orderly
  <1>8. \A d : Going(t, d) = Going(s, d)  BY <1>3 DEF Going
  <1>9. ASSUME NEW d, NEW e, NEW k, CallTyped(k), OpenOK(s, u, d, e, k)
        PROVE  OpenOK(t, v, d, e, k)
    <2>1. Commanded(s, u, d, e, k)  BY <1>9, OnlyCommand
    <2>2. CommandComing(t, v, k.op, k.out)  BY <1>5, <2>1 DEF Commanded
    <2>3. Commanded(t, v, d, e, k)  BY <1>8, <2>1, <2>2 DEF Commanded
    <2>4. QED  BY <1>7, <1>9, <2>3 DEF OpenOK
  <1>10. ASSUME ClosedOK(s, u) PROVE ClosedOK(t, v)
    <2>1. ~NothingComing(s, u)  BY DEF NothingComing
    <2>2. \A op \in Ops : \A out : ~DataComing(s, u, op, out)  BY OpFields DEF DataComing
    <2>3. PICK op \in Ops, out \in Seq(Units) :
            CommandComing(s, u, op, out) /\ s.queue = <<>>
      BY <1>10, <2>1, <2>2 DEF ClosedOK
    <2>4. CommandComing(t, v, op, out)  BY <1>5, <2>3
    <2>5. QED  BY <1>3, <1>7, <1>10, <2>3, <2>4 DEF ClosedOK
  <1>11. QED  BY <1>3, <1>6, <1>9, <1>10

\* What comes for an entry that waits for data is data.
LEMMA OnlyData ==
    ASSUME NEW s \in Entries, NEW u \in Seq(Units), NEW d, NEW e, NEW k, CallTyped(k),
           OpenOK(s, u, d, e, k), s.cmd # NoOp, u # <<>>
    PROVE  /\ SendingData(s, u, d, e, k) /\ DataComing(s, u, k.op, k.out)
           /\ k.op \in Ops /\ k.out \in Seq(Units)
  <1>1. ~NothingComing(s, u) /\ \A op, out : ~CommandComing(s, u, op, out)
    BY DEF NothingComing, CommandComing
  <1>2. k.stage # "idle" => k.op \in Ops  BY DEF CallTyped
  <1>3. k.out \in Seq(Units)  BY DEF CallTyped, InCalls
  <1>4. ASSUME Acknowledged(s, u, d, e, k) PROVE FALSE
    <2>1. k.op \in Ops /\ DataComing(s, u, k.op, Payload(k.op))
      BY <1>1, <1>2, <1>4 DEF Acknowledged, DataExpected
    <2>2. Payload(k.op) \in Seq(Units) /\ s.data \in Seq(Units)
      BY <2>1, PayloadType, EntryFields
    <2>3. Cat(s.data, u) \in Seq(Units)  BY <2>2, CatFacts
    <2>4. Cat(s.data, u) = <<>>  BY <2>1, <2>2, <2>3, CatFacts DEF DataComing
    <2>5. QED  BY <2>2, <2>4, CatFacts
  <1>5. SendingData(s, u, d, e, k)
    BY <1>1, <1>4 DEF OpenOK, Between, Commanded, Answered, Resting, Reading
  <1>6. QED  BY <1>1, <1>2, <1>3, <1>5 DEF SendingData, DataExpected

WithData(s, w) == [s EXCEPT !.data = w]

LEMMA DataReceived ==
    ASSUME NEW s \in Entries, NEW u \in Seq(Units), NEW x \in Seq(Units),
           NEW v \in Seq(Units), NEW w, NEW t, s.cmd # NoOp, u # <<>>, Cat(x, v) = u,
           w = Cat(s.data, x), Size(w) < s.cmd.size, t = WithData(s, w)
    PROVE  /\ t \in Entries /\ t.conn = s.conn
           /\ WantsToWrite(t) <=> WantsToWrite(s)
           /\ \A d, e, k : CallTyped(k) /\ OpenOK(s, u, d, e, k) => OpenOK(t, v, d, e, k)
           /\ ClosedOK(s, u) => ClosedOK(t, v)
  <1>1. s.data \in Seq(Units)  BY EntryFields
  <1>2. w \in Seq(Units)  BY <1>1, CatFacts
  <1>3. /\ t.conn = s.conn /\ t.cmd = s.cmd /\ t.buf = s.buf /\ t.queue = s.queue
        /\ t.in_progress = s.in_progress /\ t.sending = s.sending /\ t.data = w
        /\ t \in Entries
    BY <1>1, <1>2 DEF Entries, WithData
  <1>4. Cat(w, v) = Cat(s.data, u)  BY <1>1, CatAssociative
  <1>5. ASSUME NEW op, NEW out, DataComing(s, u, op, out)
        PROVE  DataComing(t, v, op, out)
    <2>1. op = s.cmd /\ Cat(Cat(w, v), out) = Payload(op)  BY <1>4, <1>5 DEF DataComing
    <2>2. QED  BY <1>3, <1>5, <2>1 DEF DataComing
  <1>6. WantsToWrite(t) <=> WantsToWrite(s)  BY <1>3 DEF WantsToWrite
  <1>7. Orderly(s) => Orderly(t)  BY <1>3 DEF Orderly
  <1>8. \A d : Going(t, d) = Going(s, d)  BY <1>3 DEF Going
  <1>9. ASSUME NEW d, NEW e, NEW k, CallTyped(k), OpenOK(s, u, d, e, k)
        PROVE  OpenOK(t, v, d, e, k)
    <2>1. /\ SendingData(s, u, d, e, k) /\ DataComing(s, u, k.op, k.out)
      BY <1>9, OnlyData
    <2>2. DataComing(t, v, k.op, k.out) /\ k.op.size > 0
      <3>1. k.op = s.cmd /\ s.cmd \in Ops  BY <2>1, EntryFields DEF DataComing
      <3>2. Size(w) \in Nat /\ s.cmd.size \in Nat  BY <1>2, <3>1, SizeFacts, OpFields
      <3>3. k.op.size > 0  BY <3>1, <3>2
      <3>4. QED  BY <1>5, <2>1, <3>3
    <2>3. SendingData(t, v, d, e, k)
      BY <1>8, <2>1, <2>2 DEF SendingData, DataExpected
    <2>4. QED  BY <1>7, <1>9, <2>3 DEF OpenOK
  <1>10. ASSUME ClosedOK(s, u) PROVE ClosedOK(t, v)
    <2>1. ~NothingComing(s, u) /\ \A op, out : ~CommandComing(s, u, op, out)
      BY DEF NothingComing, CommandComing
    <2>2. PICK op \in Ops, out \in Seq(Units) :
            DataComing(s, u, op, out) /\ Size(s.queue) <= 1
      BY <1>10, <2>1 DEF ClosedOK
    <2>3. DataComing(t, v, op, out)  BY <1>5, <2>2
    <2>4. QED  BY <1>3, <1>7, <1>10, <2>2, <2>3 DEF ClosedOK
  <1>11. QED  BY <1>3, <1>6, <1>9, <1>10

\* All of the data has come: nothing is left behind it.
LEMMA AllData ==
    ASSUME NEW s \in Entries, NEW op \in Ops, NEW u \in Seq(Units), NEW out \in Seq(Units),
           NEW x \in Seq(Units), NEW v \in Seq(Units), NEW w,
           Cat(x, v) = u, w = Cat(s.data, x), Size(w) >= op.size, DataComing(s, u, op, out)
    PROVE  w = Payload(op) /\ v = <<>> /\ out = <<>>
  <1>1. s.data \in Seq(Units) /\ Payload(op) \in Seq(Units) /\ Size(Payload(op)) = op.size
    BY EntryFields, PayloadType
  <1>2. w \in Seq(Units)  BY <1>1, CatFacts
  <1>3. Cat(w, v) = Cat(s.data, u)  BY <1>1, CatAssociative
  <1>4. Cat(Cat(w, v), out) = Payload(op)  BY <1>3 DEF DataComing
  <1>5. Cat(w, Cat(v, out)) = Payload(op)  BY <1>2, <1>4, CatAssociative
  <1>6. Size(Payload(op)) = Size(w) + Size(v) + Size(out)
        /\ Size(w) \in Nat /\ Size(v) \in Nat /\ Size(out) \in Nat
    BY <1>2, <1>5, ThreePieces
  <1>7. Size(v) <= 0 /\ Size(out) <= 0  BY <1>1, <1>6, OpFields
  <1>8. v = <<>> /\ out = <<>>  BY <1>7, SizeFacts
  <1>9. w = Payload(op)
    <2>1. Cat(<<>>, <<>>) = <<>> /\ Cat(w, <<>>) = w  BY <1>2, <1>8, CatEmpty
    <2>2. QED  BY <1>5, <1>8, <2>1
  <1>10. QED  BY <1>8, <1>9

\* Messages added to a queue.
LEMMA NoneEmptyCat ==
    ASSUME NEW p \in Seq(Messages), NEW q \in Seq(Messages), NoneEmpty(p), NoneEmpty(q)
    PROVE  NoneEmpty(Cat(p, q))
  <1>1. Len(p) \in Nat /\ Len(q) \in Nat /\ p \o q \in Seq(Messages)
        /\ Len(p \o q) = Len(p) + Len(q)
    BY LenProperties, ConcatProperties
  <1>2. \A m \in 1 .. Len(p) : p[m] # <<>>  BY LenProperties DEF NoneEmpty
  <1>3. \A m \in 1 .. Len(q) : q[m] # <<>>  BY LenProperties DEF NoneEmpty
  <1>4. ASSUME NEW m \in DOMAIN (p \o q) PROVE (p \o q)[m] # <<>>
    <2>1. m \in 1 .. Len(p) + Len(q)  BY <1>1, LenProperties
    <2>2. (p \o q)[m] = IF m <= Len(p) THEN p[m] ELSE q[m - Len(p)]
      BY <2>1, ConcatProperties
    <2>3. CASE m <= Len(p)
      <3>1. m \in 1 .. Len(p)  BY <1>1, <2>1, <2>3
      <3>2. QED  BY <1>2, <2>2, <2>3, <3>1
    <2>4. CASE ~(m <= Len(p))
      <3>1. m - Len(p) \in 1 .. Len(q)  BY <1>1, <2>1, <2>4
      <3>2. QED  BY <1>3, <2>2, <2>4, <3>1
    <2>5. QED  BY <2>3, <2>4
  <1>5. QED  BY <1>4 DEF NoneEmpty, Cat

\* One more answer in a queue.
LEMMA QueueAnswered ==
    ASSUME NEW q \in Seq(Messages), NEW op \in Ops, NEW r \in Results, ReadsNotEmpty,
           NoneEmpty(q), Size(q) + Size(Answer(op, r)) <= 2
    PROVE  /\ Cat(q, Answer(op, r)) \in Seq(Messages)
           /\ Size(Cat(q, Answer(op, r))) <= 2 /\ NoneEmpty(Cat(q, Answer(op, r)))
           /\ q = <<>> => Cat(q, Answer(op, r)) = Answer(op, r)
  <1>1. Answer(op, r) \in Seq(Messages) /\ NoneEmpty(Answer(op, r))  BY AnswerFacts
  <1>2. /\ Cat(q, Answer(op, r)) \in Seq(Messages)
        /\ Size(Cat(q, Answer(op, r))) = Size(q) + Size(Answer(op, r))
    BY <1>1, CatFacts
  <1>3. q = <<>> => Cat(q, Answer(op, r)) = Answer(op, r)  BY <1>1, CatEmpty
  <1>4. NoneEmpty(Cat(q, Answer(op, r)))  BY <1>1, NoneEmptyCat
  <1>5. QED  BY <1>2, <1>3, <1>4

LEMMA DoneFields ==
    ASSUME NEW s \in Entries, NEW w \in Seq(Units), NEW r \in Results, s.cmd \in Ops,
           ReadsNotEmpty, NEW t, t = Done(WithData(s, w), r)
    PROVE  /\ t \in Entries /\ t.conn = s.conn /\ t.buf = s.buf /\ t.cmd = NoOp
           /\ t.data = <<>> /\ t.queue = Cat(s.queue, Answer(s.cmd, r))
           /\ t.in_progress = s.in_progress /\ t.sending = s.sending
  <1>1. PICK q : q = Cat(s.queue, Answer(s.cmd, r))  OBVIOUS
  <1>2. Answer(s.cmd, r) \in Seq(Messages) /\ s.queue \in Seq(Messages)
    BY AnswerFacts, EntryFields
  <1>3. q \in Seq(Messages)  BY <1>1, <1>2, CatFacts
  <1>4. t = [WithData(s, w) EXCEPT !.cmd = NoOp, !.data = <<>>, !.queue = q]
    <2>1. WithData(s, w).queue = s.queue /\ WithData(s, w).cmd = s.cmd
      BY DEF WithData, Entries
    <2>2. q = WithData(s, w).queue \o Answer(WithData(s, w).cmd, r)
      BY <1>1, <2>1, Zenon DEF Cat
    <2>3. QED  BY <2>2, Zenon DEF Done
  <1>5. WithData(s, w) \in Entries /\ <<>> \in Seq(Units)
    BY EmptySeq DEF WithData, Entries
  <1>6. /\ t \in Entries /\ t.conn = s.conn /\ t.buf = s.buf /\ t.cmd = NoOp
        /\ t.data = <<>> /\ t.queue = q
        /\ t.in_progress = s.in_progress /\ t.sending = s.sending
    BY <1>3, <1>4, <1>5 DEF WithData, Entries
  <1>7. QED  BY <1>1, <1>6, Zenon

LEMMA NothingGoing ==
    ASSUME NEW s \in Entries, Orderly(s), NEW d \in Messages, Going(s, d) = <<>>,
           NEW t \in Entries, t.in_progress = s.in_progress, t.sending = s.sending,
           Size(t.queue) <= 2, NoneEmpty(t.queue)
    PROVE  Orderly(t) /\ Going(t, d) = Flat(t.queue)
  <1>1. d = <<>> /\ s.sending = <<>>  BY GoingFacts
  <1>2. Orderly(t)  BY DEF Orderly
  <1>3. Flat(t.queue) \in Messages  BY <1>2, GoingFacts
  <1>4. Cat(<<>>, Flat(t.queue)) = Flat(t.queue)  BY <1>3, CatEmpty DEF Messages
  <1>5. QED  BY <1>1, <1>2, <1>4, Zenon DEF Going

LEMMA DataHandled ==
    ASSUME NEW s \in Entries, NEW u \in Seq(Units), NEW x \in Seq(Units),
           NEW v \in Seq(Units), NEW w, NEW t, NEW r \in Results, ReadsNotEmpty,
           s.cmd # NoOp, u # <<>>, Cat(x, v) = u,
           w = Cat(s.data, x), Size(w) >= s.cmd.size, t = Done(WithData(s, w), r)
    PROVE  /\ t \in Entries /\ t.conn = s.conn /\ (WantsToWrite(s) => WantsToWrite(t))
           /\ \A d \in Messages : \A e, k :
                CallTyped(k) /\ OpenOK(s, u, d, e, k) =>
                  /\ e = <<>> /\ k.op = s.cmd /\ k.op.kind = "write" /\ w = Payload(k.op)
                  /\ k.op \in Ops /\ k.stage # "idle"
                  /\ OpenOK(t, v, d, <<Execution(k.op, r)>>, k)
           /\ ClosedOK(s, u) => ClosedOK(t, v)
  <1>1. s.cmd \in Ops /\ s.data \in Seq(Units) /\ s.queue \in Seq(Messages)
    BY EntryFields
  <1>2. w \in Seq(Units)  BY <1>1, CatFacts
  <1>3. /\ t \in Entries /\ t.conn = s.conn /\ t.buf = s.buf /\ t.cmd = NoOp
        /\ t.data = <<>> /\ t.queue = Cat(s.queue, Answer(s.cmd, r))
        /\ t.in_progress = s.in_progress /\ t.sending = s.sending
    BY <1>1, <1>2, DoneFields
  <1>4. /\ Size(Answer(s.cmd, r)) \in Nat /\ Size(Answer(s.cmd, r)) <= 2
        /\ s.cmd.kind = "write" => Size(Answer(s.cmd, r)) <= 1
    <2>1. /\ Answer(s.cmd, r) \in Seq(Messages) /\ Size(Answer(s.cmd, r)) <= 2
          /\ s.cmd.kind = "write" => Size(Answer(s.cmd, r)) <= 1
      BY <1>1, AnswerFacts
    <2>2. QED  BY <2>1, SizeFacts
  <1>5. ASSUME NEW op \in Ops, NEW out \in Seq(Units), DataComing(s, u, op, out)
        PROVE  op = s.cmd /\ s.cmd.kind = "write" /\ w = Payload(op) /\ v = <<>> /\ out = <<>>
               /\ NothingComing(t, v)
    <2>1. op = s.cmd /\ s.cmd.kind = "write" /\ s.buf = <<>>  BY <1>5 DEF DataComing
    <2>2. w = Payload(op) /\ v = <<>> /\ out = <<>>  BY <1>5, <2>1, AllData
    <2>3. QED  BY <1>3, <2>1, <2>2 DEF NothingComing
  <1>6. ASSUME NEW d \in Messages, NEW e, NEW k, CallTyped(k), OpenOK(s, u, d, e, k)
        PROVE  /\ e = <<>> /\ k.op = s.cmd /\ k.op.kind = "write" /\ w = Payload(k.op)
               /\ k.op \in Ops /\ k.stage # "idle"
               /\ OpenOK(t, v, d, <<Execution(k.op, r)>>, k)
    <2>1. SendingData(s, u, d, e, k) /\ DataComing(s, u, k.op, k.out)
          /\ k.op \in Ops /\ k.out \in Seq(Units) /\ Orderly(s)
      BY <1>6, OnlyData DEF OpenOK
    <2>2. /\ k.op = s.cmd /\ k.op.kind = "write" /\ w = Payload(k.op) /\ k.out = <<>>
          /\ NothingComing(t, v)
      BY <1>5, <2>1
    <2>3. Going(s, d) = <<>> /\ e = <<>> /\ k.need = 1 /\ k.stage = "second"
      BY <2>1 DEF SendingData
    <2>4. s.queue = <<>>  BY <2>1, <2>3, GoingFacts
    <2>5. Size(s.queue) + Size(Answer(s.cmd, r)) <= 2  BY <1>4, <2>4, SizeEmpty
    <2>6. NoneEmpty(s.queue)  BY <2>1 DEF Orderly
    <2>7. t.queue = Answer(s.cmd, r) /\ Size(t.queue) <= 2 /\ NoneEmpty(t.queue)
      BY <1>1, <1>3, <2>4, <2>5, <2>6, QueueAnswered
    <2>8. Orderly(t) /\ Going(t, d) = Flat(Answer(k.op, r))
      BY <1>3, <2>1, <2>2, <2>3, <2>7, NothingGoing
    <2>9. Answered(t, v, d, <<Execution(k.op, r)>>, k)
      BY <2>2, <2>3, <2>8 DEF Answered
    <2>10. QED  BY <2>1, <2>2, <2>3, <2>8, <2>9 DEF OpenOK
  <1>7. ASSUME ClosedOK(s, u) PROVE ClosedOK(t, v)
    <2>1. ~NothingComing(s, u) /\ \A op, out : ~CommandComing(s, u, op, out)
      BY DEF NothingComing, CommandComing
    <2>2. PICK op \in Ops, out \in Seq(Units) :
            DataComing(s, u, op, out) /\ Size(s.queue) <= 1
      BY <1>7, <2>1 DEF ClosedOK
    <2>3. s.cmd.kind = "write" /\ NothingComing(t, v)  BY <1>5, <2>2
    <2>4. NoneEmpty(s.queue) /\ (s.in_progress <=> s.sending # <<>>)
      BY <1>7 DEF ClosedOK, Orderly
    <2>5. Size(s.queue) \in Nat  BY <1>1, SizeFacts
    <2>6. Size(s.queue) + Size(Answer(s.cmd, r)) <= 2  BY <1>4, <2>2, <2>3, <2>5
    <2>7. Size(t.queue) <= 2 /\ NoneEmpty(t.queue)
      BY <1>1, <1>3, <2>4, <2>6, QueueAnswered
    <2>8. Orderly(t)  BY <1>3, <2>4, <2>7 DEF Orderly
    <2>9. QED  BY <2>3, <2>8 DEF ClosedOK
  <1>8. WantsToWrite(s) => WantsToWrite(t)
    <2>1. Answer(s.cmd, r) \in Seq(Messages)  BY <1>1, AnswerFacts
    <2>2. t.queue = <<>> => s.queue = <<>>  BY <1>1, <1>3, <2>1, CatFacts
    <2>3. QED  BY <1>3, <2>2 DEF WantsToWrite
  <1>9. QED  BY <1>3, <1>6, <1>7, <1>8

-----------------------------------------------------------------------------
(* The whole command is there.                                             *)

Whole(s, u, op) ==
    /\ op \in Ops /\ u = <<>> /\ s.buf = Command(op) /\ s.cmd = NoOp /\ s.data = <<>>
    /\ s.queue = <<>> /\ Orderly(s)

LEMMA WholeCommand ==
    ASSUME NEW s \in Entries, NEW op \in Ops, NEW u \in Seq(Units), NEW out \in Seq(Units),
           CommandComing(s, u, op, out), Len(s.buf) >= CommandSize,
           s.queue = <<>>, Orderly(s)
    PROVE  Whole(s, u, op) /\ out = <<>>
  <1>1. s.buf \in Seq(Units) /\ Command(op) \in Seq(Units)
        /\ Size(Command(op)) = CommandSize
    BY EntryFields, CommandType
  <1>2. Cat(s.buf, Cat(u, out)) = Command(op)
    BY <1>1, CatAssociative DEF CommandComing
  <1>3. /\ Size(Command(op)) = Size(s.buf) + Size(u) + Size(out)
        /\ Size(s.buf) \in Nat /\ Size(u) \in Nat /\ Size(out) \in Nat
    <2>1. PICK b \in Seq(Units) : b = s.buf  BY <1>1
    <2>2. /\ Size(Cat(b, Cat(u, out))) = Size(b) + Size(u) + Size(out)
          /\ Size(b) \in Nat /\ Size(u) \in Nat /\ Size(out) \in Nat
      BY ThreePieces
    <2>3. QED  BY <1>2, <2>1, <2>2
  <1>4. Size(s.buf) >= CommandSize  BY Zenon DEF Size
  <1>5. Size(u) <= 0 /\ Size(out) <= 0  BY <1>1, <1>3, <1>4 DEF CommandSize
  <1>6. u = <<>> /\ out = <<>>  BY <1>5, SizeFacts
  <1>7. s.buf = Command(op)
    <2>1. Cat(<<>>, <<>>) = <<>> /\ Cat(s.buf, <<>>) = s.buf  BY <1>1, <1>6, CatEmpty
    <2>2. QED  BY <1>2, <1>6, <2>1
  <1>8. QED  BY <1>6, <1>7 DEF Whole, CommandComing

\* Its type is read from it, and nothing is left behind it.
LEMMA WholeRead ==
    ASSUME NEW s \in Entries, NEW u, NEW op, Whole(s, u, op)
    PROVE  s.buf[1][1] = op /\ SubSeq(s.buf, CommandSize + 1, Len(s.buf)) = <<>>
  <1>1. /\ op \in Ops /\ s.buf = Command(op) /\ s.buf \in Seq(Units)
    BY EntryFields DEF Whole
  <1>2. s.buf[1][1] = op /\ Size(s.buf) = CommandSize  BY <1>1, CommandType
  <1>3. Len(s.buf) = CommandSize  BY <1>2, Zenon DEF Size
  <1>4. CommandSize \in 0 .. Len(s.buf)  BY <1>3 DEF CommandSize
  <1>5. /\ SubSeq(s.buf, CommandSize + 1, Len(s.buf)) \in Seq(Units)
        /\ Size(SubSeq(s.buf, CommandSize + 1, Len(s.buf))) = Size(s.buf) - CommandSize
    BY <1>1, <1>4, Cut, Zenon
  <1>6. PICK left \in Seq(Units) :
          /\ left = SubSeq(s.buf, CommandSize + 1, Len(s.buf))
          /\ Size(left) = Size(s.buf) - CommandSize
    BY <1>5, Zenon
  <1>7. Size(left) <= 0
    <2>1. Size(left) = Size(s.buf) - CommandSize  BY <1>6, Zenon
    <2>2. QED  BY <1>2, <2>1 DEF CommandSize
  <1>8. left = <<>>  BY <1>7, SizeFacts
  <1>9. QED  BY <1>2, <1>6, <1>8, Zenon

LEMMA CommandArrived ==
    ASSUME NEW s \in Entries, NEW u \in Seq(Units), Len(s.buf) >= CommandSize
    PROVE  /\ \A d \in Messages : \A e, k :
                CallTyped(k) /\ OpenOK(s, u, d, e, k) =>
                  /\ Whole(s, u, k.op) /\ k.stage = "answer" /\ k.out = <<>> /\ k.need = 1
                  /\ e = <<>> /\ Going(s, d) = <<>>
           /\ ClosedOK(s, u) => \E op \in Ops : Whole(s, u, op)
  <1>1. s.buf \in Seq(Units)  BY EntryFields
  <1>2. s.buf # <<>>
    <2>1. Size(s.buf) >= CommandSize  BY Zenon DEF Size
    <2>2. Size(s.buf) > 0  BY <1>1, <2>1, SizeFacts DEF CommandSize
    <2>3. QED  BY <2>2, SizeEmpty
  <1>3. ASSUME NEW d \in Messages, NEW e, NEW k, CallTyped(k), OpenOK(s, u, d, e, k)
        PROVE  /\ Whole(s, u, k.op) /\ k.stage = "answer" /\ k.out = <<>> /\ k.need = 1
               /\ e = <<>> /\ Going(s, d) = <<>>
    <2>1. Commanded(s, u, d, e, k) /\ k.op \in Ops  BY <1>2, <1>3, OnlyCommand
    <2>2. k.out \in Seq(Units)  BY <1>3 DEF CallTyped, InCalls
    <2>3. Orderly(s) /\ Going(s, d) = <<>>  BY <1>3, <2>1 DEF OpenOK, Commanded
    <2>4. s.queue = <<>>  BY <2>3, GoingFacts
    <2>5. CommandComing(s, u, k.op, k.out)  BY <2>1 DEF Commanded
    <2>6. Whole(s, u, k.op) /\ k.out = <<>>  BY <2>1, <2>2, <2>3, <2>4, <2>5, WholeCommand
    <2>7. QED  BY <2>1, <2>6 DEF Commanded
  <1>4. ASSUME ClosedOK(s, u) PROVE \E op \in Ops : Whole(s, u, op)
    <2>1. ~NothingComing(s, u) /\ \A op, out : ~DataComing(s, u, op, out)
      BY <1>2 DEF NothingComing, DataComing
    <2>2. PICK op \in Ops, out \in Seq(Units) :
            CommandComing(s, u, op, out) /\ s.queue = <<>>
      BY <1>4, <2>1 DEF ClosedOK
    <2>3. Whole(s, u, op)  BY <1>4, <2>2, WholeCommand DEF ClosedOK
    <2>4. QED  BY <2>3
  <1>5. QED  BY <1>3, <1>4

CarriedOut(s, q) == [s EXCEPT !.buf = <<>>, !.queue = q]

LEMMA CommandCarriedOut ==
    ASSUME NEW s \in Entries, NEW u, NEW op, Whole(s, u, op), op.kind # "write",
           NEW r \in Results, NEW t, t = CarriedOut(s, Answer(op, r)), ReadsNotEmpty
    PROVE  /\ t \in Entries /\ t.conn = s.conn /\ t.buf = <<>>
           /\ WantsToWrite(s) => WantsToWrite(t)
           /\ ClosedOK(t, u)
           /\ \A d \in Messages : \A k :
                /\ k.op = op /\ k.stage = "answer" /\ k.out = <<>> /\ k.need = 1
                /\ Going(s, d) = <<>>
                => OpenOK(t, u, d, <<Execution(k.op, r)>>, k)
  <1>1. /\ op \in Ops /\ Answer(op, r) \in Seq(Messages) /\ Size(Answer(op, r)) <= 2
        /\ NoneEmpty(Answer(op, r)) /\ Orderly(s) /\ u = <<>>
        /\ s.cmd = NoOp /\ s.data = <<>>
    BY AnswerFacts DEF Whole
  <1>2. /\ t \in Entries /\ t.conn = s.conn /\ t.buf = <<>> /\ t.cmd = s.cmd
        /\ t.data = s.data /\ t.queue = Answer(op, r)
        /\ t.in_progress = s.in_progress /\ t.sending = s.sending
    BY <1>1, EmptySeq DEF Entries, CarriedOut
  <1>3. NothingComing(t, u)  BY <1>1, <1>2 DEF NothingComing
  <1>4. Orderly(t)  BY <1>1, <1>2 DEF Orderly
  <1>5. ASSUME NEW d \in Messages, NEW k,
               /\ k.op = op /\ k.stage = "answer" /\ k.out = <<>> /\ k.need = 1
               /\ Going(s, d) = <<>>
        PROVE  OpenOK(t, u, d, <<Execution(k.op, r)>>, k)
    <2>1. Going(t, d) = Flat(Answer(op, r))  BY <1>1, <1>2, <1>5, NothingGoing
    <2>2. Answered(t, u, d, <<Execution(k.op, r)>>, k)
      BY <1>3, <1>5, <2>1 DEF Answered
    <2>3. QED  BY <1>4, <2>2 DEF OpenOK
  <1>6. WantsToWrite(s) => WantsToWrite(t)  BY <1>2 DEF Whole, WantsToWrite
  <1>7. QED  BY <1>2, <1>3, <1>4, <1>5, <1>6 DEF ClosedOK

Expecting(s, op) == [s EXCEPT !.queue = <<Ack>>, !.cmd = op, !.data = <<>>, !.buf = <<>>]

LEMMA CommandAcknowledged ==
    ASSUME NEW s \in Entries, NEW u, NEW op, Whole(s, u, op), op.kind = "write", NEW t,
           t = IF op.size > 0 THEN Expecting(s, op) ELSE CarriedOut(s, <<Ack>>)
    PROVE  /\ t \in Entries /\ t.conn = s.conn /\ t.buf = <<>>
           /\ WantsToWrite(s) => WantsToWrite(t)
           /\ ClosedOK(t, u)
           /\ \A d \in Messages : \A e, k :
                /\ k.op = op /\ k.stage = "answer" /\ k.out = <<>> /\ k.need = 1
                /\ Going(s, d) = <<>> /\ e = <<>>
                => OpenOK(t, u, d, e, k)
  <1>1. /\ op \in Ops /\ u = <<>> /\ Orderly(s) /\ s.cmd = NoOp /\ s.data = <<>>
        /\ op.size \in Nat
    BY OpFields DEF Whole
  <1>2. /\ <<Ack>> \in Seq(Messages) /\ Size(<<Ack>>) = 1 /\ DOMAIN <<Ack>> = {1}
        /\ <<Ack>>[1] = Ack /\ Flat(<<Ack>>) = Ack /\ Ack # <<>>
    BY OneMessage, AnswerUnit
  <1>3. NoneEmpty(<<Ack>>)  BY <1>2 DEF NoneEmpty
  <1>4. PICK q \in Seq(Messages) : q = <<Ack>>  BY <1>2
  <1>5. /\ t \in Entries /\ t.conn = s.conn /\ t.buf = <<>> /\ t.data = <<>>
        /\ t.cmd = IF op.size > 0 THEN op ELSE NoOp
        /\ t.queue = q /\ t.in_progress = s.in_progress /\ t.sending = s.sending
    <2>1. /\ [s EXCEPT !.queue = q, !.cmd = op, !.data = <<>>, !.buf = <<>>] = Expecting(s, op)
          /\ [s EXCEPT !.buf = <<>>, !.queue = q] = CarriedOut(s, <<Ack>>)
      BY <1>4, Zenon DEF Expecting, CarriedOut
    <2>2. CASE op.size > 0
      <3>1. t = [s EXCEPT !.queue = q, !.cmd = op, !.data = <<>>, !.buf = <<>>]
        BY <2>1, <2>2
      <3>2. QED  BY <1>1, <2>2, <3>1, EmptySeq DEF Entries
    <2>3. CASE ~(op.size > 0)
      <3>1. t = [s EXCEPT !.buf = <<>>, !.queue = q]  BY <2>1, <2>3
      <3>2. QED  BY <1>1, <2>3, <3>1, EmptySeq DEF Entries
    <2>4. QED  BY <2>2, <2>3
  <1>6. Size(q) = 1 /\ NoneEmpty(q) /\ Flat(q) = Ack  BY <1>2, <1>3, <1>4, Zenon
  <1>7. Orderly(t) /\ Size(t.queue) <= 1  BY <1>1, <1>5, <1>6 DEF Orderly
  <1>8. DataExpected(t, u, op, Payload(op))
    <2>1. CASE op.size > 0
      <3>1. Payload(op) \in Seq(Units) /\ Cat(<<>>, <<>>) = <<>>
            /\ Cat(<<>>, Payload(op)) = Payload(op)
        BY <1>1, PayloadType, CatEmpty, EmptySeq
      <3>2. t.cmd = op /\ t.buf = <<>> /\ t.data = <<>>  BY <1>5, <2>1
      <3>3. Size(t.data) < op.size  BY <2>1, <3>2, SizeEmpty, <1>1
      <3>4. Cat(Cat(t.data, u), Payload(op)) = Payload(op)  BY <1>1, <3>1, <3>2
      <3>5. QED  BY <2>1, <3>2, <3>3, <3>4 DEF DataExpected, DataComing
    <2>2. CASE ~(op.size > 0)
      <3>1. Payload(op) = <<>>
        <4>1. Payload(op) \in Seq(Units) /\ Size(Payload(op)) = op.size  BY <1>1, PayloadType
        <4>2. Size(Payload(op)) <= 0  BY <4>1, <2>2, <1>1
        <4>3. QED  BY <4>1, <4>2, SizeFacts
      <3>2. NothingComing(t, u)  BY <1>1, <1>5, <2>2 DEF NothingComing
      <3>3. QED  BY <2>2, <3>1, <3>2 DEF DataExpected
    <2>3. QED  BY <2>1, <2>2
  <1>9. ClosedOK(t, u)
    <2>1. Payload(op) \in Seq(Units)  BY <1>1, PayloadType
    <2>2. QED  BY <1>1, <1>7, <1>8, <2>1 DEF ClosedOK, DataExpected
  <1>10. ASSUME NEW d \in Messages, NEW e, NEW k,
                /\ k.op = op /\ k.stage = "answer" /\ k.out = <<>> /\ k.need = 1
                /\ Going(s, d) = <<>> /\ e = <<>>
         PROVE  OpenOK(t, u, d, e, k)
    <2>1. Size(t.queue) <= 2 /\ NoneEmpty(t.queue)  BY <1>7 DEF Orderly
    <2>2. Going(t, d) = Ack  BY <1>1, <1>5, <1>6, <1>10, <2>1, NothingGoing
    <2>3. Acknowledged(t, u, d, e, k)  BY <1>8, <1>10, <2>2 DEF Acknowledged
    <2>4. QED  BY <1>7, <2>3 DEF OpenOK
  <1>11. WantsToWrite(s) => WantsToWrite(t)  BY <1>5 DEF Whole, WantsToWrite
  <1>12. QED  BY <1>5, <1>9, <1>10, <1>11

-----------------------------------------------------------------------------
(* Sending.                                                                *)

\* The first message of a short queue.
LEMMA FlatHead ==
    ASSUME NEW q \in Seq(Messages), q # <<>>, Size(q) <= 2, NoneEmpty(q)
    PROVE  /\ Head(q) \in Messages /\ Head(q) # <<>>
           /\ Tail(q) \in Seq(Messages) /\ Size(Tail(q)) <= 2 /\ NoneEmpty(Tail(q))
           /\ Flat(Tail(q)) \in Messages
           /\ Flat(q) = Cat(Head(q), Flat(Tail(q)))
  <1>1. /\ Len(q) \in Nat /\ Head(q) = q[1] /\ Tail(q) \in Seq(Messages)
        /\ Len(Tail(q)) = Len(q) - 1 /\ \A i \in 1 .. Len(Tail(q)) : Tail(q)[i] = q[i + 1]
    BY HeadTailProperties, LenProperties
  <1>2. PICK t : t = Tail(q)  OBVIOUS
  <1>3. /\ Size(q) \in Nat /\ Size(q) > 0 /\ Head(q) = q[1] /\ t \in Seq(Messages)
        /\ Size(t) = Size(q) - 1 /\ \A i \in 1 .. Size(t) : t[i] = q[i + 1]
        /\ DOMAIN q = 1 .. Size(q) /\ DOMAIN t = 1 .. Size(t)
    <2>1. Size(q) \in Nat /\ Size(q) > 0 /\ DOMAIN q = 1 .. Size(q)  BY SizeFacts
    <2>2. t \in Seq(Messages) /\ DOMAIN t = 1 .. Size(t)  BY <1>1, <1>2, SizeFacts
    <2>3. Size(t) = Size(q) - 1 /\ \A i \in 1 .. Size(t) : t[i] = q[i + 1]
      BY <1>1, <1>2, Zenon DEF Size
    <2>4. QED  BY <1>1, <2>1, <2>2, <2>3
  <1>4. \A i \in 1 .. Size(q) : q[i] \in Messages /\ q[i] # <<>>
    BY <1>3, SizeFacts DEF NoneEmpty
  <1>5. q[1] \in Messages /\ q[1] # <<>>  BY <1>3, <1>4
  <1>6. NoneEmpty(t)
    <2>1. SUFFICES ASSUME NEW i \in 1 .. Size(t) PROVE t[i] # <<>>
      BY <1>3 DEF NoneEmpty
    <2>2. i + 1 \in 1 .. Size(q)  BY <1>3
    <2>3. QED  BY <1>3, <1>4, <2>2
  <1>7. Size(t) <= 2 /\ Size(t) \in Nat  BY <1>3
  <1>8. Flat(t) \in Messages  BY <1>3, <1>6, <1>7, FlatFacts
  <1>9. Flat(q) = Cat(q[1], Flat(t))
    <2>1. CASE Size(q) > 1
      <3>1. Size(t) > 0 /\ ~(Size(t) > 1)  BY <1>3, <2>1
      <3>2. 1 \in 1 .. Size(t)  BY <1>7, <3>1
      <3>3. t[1] = q[2]  BY <1>3, <3>2
      <3>4. Flat(t) = q[2] /\ Flat(q) = Cat(q[1], q[2])  BY <2>1, <3>1, <3>3 DEF Flat
      <3>5. QED  BY <3>4
    <2>2. CASE ~(Size(q) > 1)
      <3>1. ~(Size(t) > 0) /\ ~(Size(t) > 1)  BY <1>3, <2>2
      <3>2. Flat(t) = <<>> /\ Flat(q) = q[1]  BY <1>3, <2>2, <3>1 DEF Flat
      <3>3. Cat(q[1], <<>>) = q[1]  BY <1>5, CatEmpty DEF Messages
      <3>4. QED  BY <3>2, <3>3
    <2>3. QED  BY <2>1, <2>2
  <1>10. QED  BY <1>2, <1>3, <1>5, <1>6, <1>7, <1>8, <1>9, Zenon

LEMMA LoadedFacts ==
    ASSUME NEW s \in Entries, Orderly(s), WantsToWrite(s), NEW t, t = Loaded(s)
    PROVE  /\ t \in Entries /\ t.conn = s.conn /\ t.buf = s.buf /\ t.cmd = s.cmd
           /\ t.data = s.data /\ t.in_progress = TRUE /\ t.sending # <<>>
           /\ Orderly(t) /\ \A d \in Messages : Going(t, d) = Going(s, d)
  <1>1. /\ s.queue \in Seq(Messages) /\ s.in_progress \in BOOLEAN /\ s.sending \in Messages
        /\ (s.in_progress <=> s.sending # <<>>) /\ Size(s.queue) <= 2 /\ NoneEmpty(s.queue)
    BY EntryFields DEF Orderly
  <1>2. CASE s.in_progress
    <2>1. t = s  BY <1>2 DEF Loaded
    <2>2. QED  BY <1>1, <1>2, <2>1
  <1>3. CASE ~s.in_progress
    <2>1. s.queue # <<>> /\ s.sending = <<>>  BY <1>1, <1>3 DEF WantsToWrite
    <2>2. PICK h, q : h = Head(s.queue) /\ q = Tail(s.queue)  OBVIOUS
    <2>3. /\ h \in Messages /\ h # <<>> /\ q \in Seq(Messages) /\ Size(q) <= 2
          /\ NoneEmpty(q) /\ Flat(q) \in Messages /\ Flat(s.queue) = Cat(h, Flat(q))
      BY <1>1, <2>1, <2>2, FlatHead
    <2>4. t = [s EXCEPT !.in_progress = TRUE, !.sending = h, !.queue = q]
      BY <1>3, <2>2, Zenon DEF Loaded
    <2>5. /\ t \in Entries /\ t.conn = s.conn /\ t.buf = s.buf /\ t.cmd = s.cmd
          /\ t.data = s.data /\ t.in_progress = TRUE /\ t.sending = h /\ t.queue = q
      BY <2>3, <2>4 DEF Entries
    <2>6. Orderly(t)  BY <2>3, <2>5 DEF Orderly
    <2>7. Cat(<<>>, Flat(s.queue)) = Flat(s.queue)
      <3>1. Flat(s.queue) \in Messages  BY <1>1, FlatFacts
      <3>2. QED  BY <3>1, CatEmpty DEF Messages
    <2>8. \A d \in Messages : Going(t, d) = Going(s, d)
      BY <2>1, <2>3, <2>5, <2>7, Zenon DEF Going
    <2>9. QED  BY <2>3, <2>5, <2>6, <2>8
  <1>4. QED  BY <1>2, <1>3

Sent(s, y, b) == [s EXCEPT !.sending = y, !.in_progress = b]

LEMMA SentFacts ==
    ASSUME NEW s \in Entries, Orderly(s), NEW x \in Messages, NEW y \in Messages,
           s.sending = Cat(x, y), NEW d \in Messages, NEW t, t = Sent(s, y, y # <<>>)
    PROVE  /\ t \in Entries /\ t.conn = s.conn /\ t.buf = s.buf /\ t.cmd = s.cmd
           /\ t.data = s.data /\ Orderly(t)
           /\ Cat(d, x) \in Messages /\ Going(t, Cat(d, x)) = Going(s, d)
  <1>1. /\ t \in Entries /\ t.conn = s.conn /\ t.buf = s.buf /\ t.cmd = s.cmd
        /\ t.data = s.data /\ t.queue = s.queue /\ t.sending = y
        /\ (t.in_progress <=> y # <<>>)
    BY DEF Entries, Sent
  <1>2. Orderly(t)  BY <1>1 DEF Orderly
  <1>3. Flat(s.queue) \in Messages  BY GoingFacts
  <1> DEFINE f == Flat(s.queue)
  <1>4. f \in Seq(AnswerUnits) /\ x \in Seq(AnswerUnits) /\ y \in Seq(AnswerUnits)
        /\ d \in Seq(AnswerUnits)
    BY <1>3 DEF Messages
  <1>5. Going(t, Cat(d, x)) = Cat(Cat(d, x), Cat(y, f)) /\ Going(s, d) = Cat(d, Cat(Cat(x, y), f))
    BY <1>1, Zenon DEF Going
  <1> HIDE DEF f
  <1>6. Cat(y, f) \in Seq(AnswerUnits) /\ Cat(d, x) \in Seq(AnswerUnits)
    BY <1>4, CatFacts
  <1>7. Cat(Cat(x, y), f) = Cat(x, Cat(y, f))  BY <1>4, CatAssociative
  <1>8. Cat(d, Cat(x, Cat(y, f))) = Cat(Cat(d, x), Cat(y, f))
    BY <1>4, <1>6, CatAssociative
  <1>9. QED  BY <1>1, <1>2, <1>5, <1>6, <1>7, <1>8 DEF Messages

-----------------------------------------------------------------------------
(* The client.                                                             *)

\* A client that has gone leaves what it has sent.
LEMMA ClientGone ==
    ASSUME NEW s \in Entries, NEW u \in Seq(Units), NEW d \in Messages, NEW e, NEW k,
           CallTyped(k), OpenOK(s, u, d, e, k)
    PROVE  ClosedOK(s, u)
  <1>1. Orderly(s) /\ k.out \in Seq(Units) /\ (k.stage # "idle" => k.op \in Ops)
    BY DEF OpenOK, CallTyped, InCalls
  <1>2. Size(Going(s, d)) >= Size(d) + Size(s.queue) /\ Size(s.queue) \in Nat /\ Size(d) \in Nat
    BY <1>1, GoingFacts
  <1>3. Going(s, d) = <<>> => s.queue = <<>>  BY <1>1, GoingFacts
  <1>4. ASSUME NEW out \in Seq(Units), DataExpected(s, u, k.op, out), k.stage # "idle",
               Size(s.queue) <= 1
        PROVE  ClosedOK(s, u)
    BY <1>1, <1>4 DEF ClosedOK, DataExpected
  <1>5. CASE Commanded(s, u, d, e, k)  BY <1>1, <1>3, <1>5 DEF Commanded, ClosedOK
  <1>6. CASE Acknowledged(s, u, d, e, k)
    <2>1. Going(s, d) = Ack /\ k.stage # "idle" /\ DataExpected(s, u, k.op, Payload(k.op))
      BY <1>6 DEF Acknowledged
    <2>2. Size(s.queue) <= 1  BY <1>2, <2>1, AnswerUnit
    <2>3. Payload(k.op) \in Seq(Units)  BY <1>1, <2>1, PayloadType
    <2>4. QED  BY <1>4, <2>1, <2>2, <2>3
  <1>7. CASE SendingData(s, u, d, e, k)
    <2>1. Going(s, d) = <<>> /\ k.stage # "idle" /\ DataExpected(s, u, k.op, k.out)
      BY <1>7 DEF SendingData
    <2>2. Size(s.queue) <= 1  BY <1>2, <1>3, <2>1, SizeEmpty
    <2>3. QED  BY <1>1, <1>4, <2>1, <2>2
  <1>8. CASE NothingComing(s, u)  BY <1>1, <1>8 DEF ClosedOK
  <1>9. QED
    BY <1>5, <1>6, <1>7, <1>8 DEF OpenOK, Between, Answered, Resting, Reading

\* A client waits in the backlog as it does once it is accepted.
LEMMA NewlyServed ==
    ASSUME NEW c \in Conns, NEW u \in Seq(Units), NEW d, NEW e, NEW k, CallTyped(k),
           Unserved(u, d, e, k)
    PROVE  /\ OpenOK(NewSocket(c), u, d, e, k) /\ ClosedOK(NewSocket(c), u)
  <1>1. PICK s \in Entries : s = NewSocket(c)  BY NewEntry
  <1>2. /\ Orderly(s) /\ s.buf = <<>> /\ s.cmd = NoOp /\ s.data = <<>> /\ s.queue = <<>>
        /\ \A f \in Messages : Going(s, f) = f
    BY <1>1, NewEntry
  <1>3. d = <<>> /\ e = <<>> /\ Going(s, d) = <<>>
    BY <1>2, EmptySeq DEF Unserved, Messages
  <1>4. CASE k.stage = "idle" /\ k.out = <<>> /\ u = <<>>
    <2>1. NothingComing(s, u)  BY <1>2, <1>4 DEF NothingComing
    <2>2. Between(s, u, d, e, k)  BY <1>3, <1>4, <2>1 DEF Between
    <2>3. QED  BY <1>1, <1>2, <2>1, <2>2 DEF OpenOK, ClosedOK
  <1>5. CASE k.stage = "answer" /\ k.need = 1 /\ Cat(u, k.out) = Command(k.op)
    <2>1. Cat(s.buf, u) = u  BY <1>2, CatEmpty
    <2>2. CommandComing(s, u, k.op, k.out)  BY <1>2, <1>5, <2>1 DEF CommandComing
    <2>3. Commanded(s, u, d, e, k)  BY <1>3, <1>5, <2>2 DEF Commanded
    <2>4. k.op \in Ops /\ k.out \in Seq(Units)  BY <1>5 DEF CallTyped, InCalls
    <2>5. \E op \in Ops, out \in Seq(Units) : CommandComing(s, u, op, out)
      BY <2>2, <2>4
    <2>6. ClosedOK(s, u)  BY <1>2, <2>5 DEF ClosedOK
    <2>7. OpenOK(s, u, d, e, k)  BY <1>2, <2>3 DEF OpenOK
    <2>8. QED  BY <1>1, <2>6, <2>7, Zenon
  <1>6. QED  BY <1>4, <1>5 DEF Unserved

CalledFor(k, op) ==
    [k EXCEPT !.stage = "answer", !.op = op, !.out = Command(op), !.need = 1]

LEMMA CallMade ==
    ASSUME NEW u \in Seq(Units), NEW k \in InCalls, k.stage = "idle", NEW op \in Ops,
           NEW l, l = CalledFor(k, op)
    PROVE  /\ CallTyped(l) /\ l.op = op /\ l.stage = "answer"
           /\ \A s, d, e : OpenOK(s, u, d, e, k) => OpenOK(s, u, d, <<>>, l)
           /\ \A d, e : Unserved(u, d, e, k) => Unserved(u, d, <<>>, l)
  <1>1. Command(op) \in Seq(Units)  BY CommandType
  <1>2. PICK m \in Seq(Units) : m = Command(op)  BY <1>1
  <1>3. /\ l.stage = "answer" /\ l.op = op /\ l.out = m /\ l.need = 1 /\ l \in InCalls
    <2>1. l = [k EXCEPT !.stage = "answer", !.op = op, !.out = m, !.need = 1]
      BY <1>2, Zenon DEF CalledFor
    <2>2. /\ l.stage = "answer" /\ l.op = op /\ l.out = m /\ l.need = 1
          /\ l.result = k.result
          /\ l = [stage |-> l.stage, op |-> l.op, out |-> l.out, need |-> l.need,
                  result |-> l.result]
      BY <2>1 DEF InCalls
    <2>3. /\ l.stage \in {"idle", "answer", "second", "rest", "data"} /\ l.need \in Nat
          /\ l.result \in Results \cup {"none", "lost"}
      BY <2>2 DEF InCalls
    <2>4. l \in InCalls  BY <2>2, <2>3 DEF InCalls
    <2>5. QED  BY <2>2, <2>4
  <1>4. CallTyped(l)  BY <1>3 DEF CallTyped
  <1>5. Cat(<<>>, <<>>) = <<>> /\ Cat(<<>>, m) = m  BY CatEmpty, EmptySeq
  <1>6. ASSUME NEW s, NEW d, NEW e, OpenOK(s, u, d, e, k)
        PROVE  OpenOK(s, u, d, <<>>, l)
    <2>1. Between(s, u, d, e, k)
      BY <1>6 DEF OpenOK, Commanded, Acknowledged, SendingData, Answered, Resting, Reading
    <2>2. CommandComing(s, u, l.op, l.out)
      BY <1>2, <1>3, <1>5, <2>1 DEF Between, NothingComing, CommandComing
    <2>3. Commanded(s, u, d, <<>>, l)  BY <1>3, <2>1, <2>2 DEF Between, Commanded
    <2>4. QED  BY <1>6, <2>3 DEF OpenOK
  <1>7. ASSUME NEW d, NEW e, Unserved(u, d, e, k) PROVE Unserved(u, d, <<>>, l)
    <2>1. d = <<>> /\ u = <<>>  BY <1>7 DEF Unserved
    <2>2. Cat(u, l.out) = Command(l.op)  BY <1>2, <1>3, <1>5, <2>1
    <2>3. QED  BY <1>3, <2>1, <2>2 DEF Unserved
  <1>8. QED  BY <1>3, <1>4, <1>6, <1>7

Unsent(k, y) == [k EXCEPT !.out = y]

LEMMA PieceSent ==
    ASSUME NEW u \in Seq(Units), NEW k \in InCalls, CallTyped(k),
           NEW x \in Seq(Units), NEW y \in Seq(Units),
           k.out = Cat(x, y), k.out # <<>>, NEW l, l = Unsent(k, y)
    PROVE  /\ CallTyped(l) /\ l.op = k.op /\ l.stage = k.stage /\ l.result = k.result
           /\ Cat(u, x) \in Seq(Units)
           /\ \A s \in Entries : \A d, e :
                OpenOK(s, u, d, e, k) => OpenOK(s, Cat(u, x), d, e, l) /\ k.stage # "idle"
           /\ \A d, e :
                Unserved(u, d, e, k) => Unserved(Cat(u, x), d, e, l) /\ k.stage # "idle"
  <1>1. /\ l.stage = k.stage /\ l.op = k.op /\ l.out = y /\ l.need = k.need
        /\ l.result = k.result /\ l \in InCalls
    BY DEF InCalls, Unsent
  <1>2. CallTyped(l)  BY <1>1 DEF CallTyped
  <1>3. Cat(u, x) \in Seq(Units)  BY CatFacts
  <1>4. \A b \in Seq(Units) : Cat(Cat(b, Cat(u, x)), y) = Cat(Cat(b, u), k.out)
    <2>1. TAKE b \in Seq(Units)
    <2>2. Cat(Cat(b, Cat(u, x)), y) = Cat(Cat(Cat(b, u), x), y)  BY CatAssociative
    <2>3. Cat(b, u) \in Seq(Units)  BY CatFacts
    <2>4. Cat(Cat(Cat(b, u), x), y) = Cat(Cat(b, u), Cat(x, y))  BY <2>3, CatAssociative
    <2>5. QED  BY <2>2, <2>4
  <1>5. ASSUME NEW s \in Entries, NEW d, NEW e, OpenOK(s, u, d, e, k)
        PROVE  OpenOK(s, Cat(u, x), d, e, l) /\ k.stage # "idle"
    <2>1. s.buf \in Seq(Units) /\ s.data \in Seq(Units)  BY EntryFields
    <2>2. CASE Commanded(s, u, d, e, k)
      <3>1. Cat(Cat(s.buf, Cat(u, x)), y) = Cat(Cat(s.buf, u), k.out)  BY <1>4, <2>1
      <3>2. CommandComing(s, Cat(u, x), l.op, l.out)
        BY <1>1, <2>2, <3>1 DEF Commanded, CommandComing
      <3>3. Commanded(s, Cat(u, x), d, e, l)  BY <1>1, <2>2, <3>2 DEF Commanded
      <3>4. QED  BY <1>5, <2>2, <3>3 DEF OpenOK, Commanded
    <2>3. CASE SendingData(s, u, d, e, k)
      <3>1. DataComing(s, u, k.op, k.out) /\ k.op.size > 0
        BY <2>3 DEF SendingData, DataExpected
      <3>2. Cat(Cat(s.data, Cat(u, x)), y) = Cat(Cat(s.data, u), k.out)  BY <1>4, <2>1
      <3>3. DataComing(s, Cat(u, x), l.op, l.out)  BY <1>1, <3>1, <3>2 DEF DataComing
      <3>4. SendingData(s, Cat(u, x), d, e, l)
        BY <1>1, <2>3, <3>1, <3>3 DEF SendingData, DataExpected
      <3>5. QED  BY <1>5, <2>3, <3>4 DEF OpenOK, SendingData
    <2>4. QED
      BY <1>5, <2>2, <2>3 DEF OpenOK, Between, Acknowledged, Answered, Resting, Reading
  <1>6. ASSUME NEW d, NEW e, Unserved(u, d, e, k)
        PROVE  Unserved(Cat(u, x), d, e, l) /\ k.stage # "idle"
    <2>1. k.stage = "answer" /\ k.need = 1 /\ Cat(u, k.out) = Command(k.op)
      BY <1>6 DEF Unserved
    <2>2. Cat(Cat(u, x), y) = Cat(u, k.out)  BY CatAssociative
    <2>3. QED  BY <1>1, <1>6, <2>1, <2>2 DEF Unserved
  <1>7. QED  BY <1>1, <1>2, <1>3, <1>5, <1>6

\* What is going out, when the client has received a piece of it.
LEMMA GoingReceived ==
    ASSUME NEW s \in Entries, Orderly(s), NEW d \in Messages, NEW n \in 1 .. Len(d),
           NEW v, v = SubSeq(d, n + 1, Len(d))
    PROVE  /\ v \in Messages /\ Going(s, v) \in Messages
           /\ Going(s, d) # <<>> /\ Head(d) = Going(s, d)[1]
           /\ Size(Going(s, v)) = Size(Going(s, d)) - n
           /\ Size(Going(s, d)) \in Nat /\ Size(Going(s, v)) \in Nat
  <1>1. PICK b \in Messages : b = Cat(s.sending, Flat(s.queue))  BY GoingFacts
  <1>2. \A f : Going(s, f) = Cat(f, b)  BY <1>1 DEF Going
  <1>3. d \in Seq(AnswerUnits) /\ b \in Seq(AnswerUnits)  BY DEF Messages
  <1>4. /\ Head(d) = Cat(d, b)[1]
        /\ \E y \in Seq(AnswerUnits) :
                /\ y = SubSeq(d, n + 1, Len(d)) /\ Cat(y, b) \in Seq(AnswerUnits)
                /\ Size(Cat(y, b)) = Size(Cat(d, b)) - n
    BY <1>3, FirstPieceGone, Zenon
  <1>5. PICK y \in Seq(AnswerUnits) :
                /\ y = SubSeq(d, n + 1, Len(d)) /\ Cat(y, b) \in Seq(AnswerUnits)
                /\ Size(Cat(y, b)) = Size(Cat(d, b)) - n
    BY <1>4, Zenon
  <1>6. y = v /\ Size(Cat(y, b)) = Size(Cat(d, b)) - n /\ Cat(y, b) \in Seq(AnswerUnits)
    BY <1>5, Zenon
  <1>7. Cat(d, b) \in Seq(AnswerUnits)  BY <1>3, CatFacts
  <1>8. Size(Cat(d, b)) \in Nat /\ Size(Cat(y, b)) \in Nat /\ n \in Int /\ n >= 1
    BY <1>6, <1>7, SizeFacts, LenProperties
  <1>9. Cat(d, b) # <<>>
    <2>1. Size(Cat(d, b)) > 0  BY <1>6, <1>8
    <2>2. QED  BY <2>1, SizeEmpty
  <1>10. QED  BY <1>2, <1>4, <1>6, <1>7, <1>8, <1>9, Zenon DEF Messages

\* The response_base is received.
\* What is left in the stream when n units are taken, and of the memory to read.
Rest(d, n) == SubSeq(d, n + 1, Len(d))
MemoryRead(k, n) == IF n < k.need THEN [k EXCEPT !.need = @ - n] ELSE Idle("OK")

LEMMA BaseReceived ==
    ASSUME NEW s \in Entries, NEW u \in Seq(Units), NEW d \in Messages, NEW e, NEW k \in InCalls,
           CallTyped(k), OpenOK(s, u, d, e, k), ReadsNotEmpty, d # <<>>,
           k.stage \in {"answer", "second"}, k.out = <<>>,
           NEW v, v = Rest(d, 1), NEW l, l = AfterBase(k, Head(d))
    PROVE  /\ v \in Messages /\ CallTyped(l) /\ OpenOK(s, u, v, e, l)
           /\ l.stage # "idle" => l.op = k.op
           /\ l.stage = "idle" =>
                l.result \in Results /\ e = <<Execution(k.op, l.result)>>
  <1>1. k.op \in Ops /\ Orderly(s)  BY DEF CallTyped, OpenOK
  <1>2. 1 \in 1 .. Len(d)
    <2>1. Size(d) > 0 /\ Size(d) \in Nat  BY SizeFacts DEF Messages
    <2>2. QED  BY <2>1 DEF Size
  <1>3. v = SubSeq(d, 1 + 1, Len(d))  BY Zenon DEF Rest
  <1>4. /\ v \in Messages /\ Going(s, v) \in Messages /\ Going(s, d) # <<>>
        /\ Head(d) = Going(s, d)[1] /\ Size(Going(s, v)) = Size(Going(s, d)) - 1
        /\ Size(Going(s, d)) \in Nat /\ Size(Going(s, v)) \in Nat
    BY <1>1, <1>2, <1>3, GoingReceived
  <1> DEFINE g == Going(s, d)
             h == Going(s, v)
  <1>5. h \in Messages /\ g # <<>> /\ Size(h) = Size(g) - 1 /\ Size(h) \in Nat
        /\ Size(g) \in Nat
    BY <1>4
  <1>6. Size(g) = 1 => h = <<>>
    <2>1. Size(g) = 1 => Size(h) <= 0  BY <1>5
    <2>2. QED  BY <1>5, <2>1, SizeFacts DEF Messages
  <1>7. PICK base : base = Head(d)  OBVIOUS
  <1>8. base = g[1] /\ l = AfterBase(k, base)  BY <1>4, <1>7, Zenon
  <1>9. /\ k.stage \in {"idle", "answer", "second", "rest", "data"} /\ k.op \in Ops \cup {NoOp}
        /\ k.out \in Seq(Units) /\ k.need \in Nat
        /\ k.result \in Results \cup {"none", "lost"}
        /\ k.op.kind \in {"plain", "register", "read", "write"} /\ k.op.size \in Nat
    BY <1>1, OpFields DEF InCalls
  <1>10. \A r \in Results :
           /\ Idle(r).stage = "idle" /\ Idle(r).out = <<>> /\ Idle(r).result = r
           /\ Idle(r) \in InCalls /\ CallTyped(Idle(r))
    BY EmptySeq DEF Idle, InCalls, CallTyped
  <1> HIDE DEF g, h
  <1>11. CASE Acknowledged(s, u, d, e, k)
    <2>1. /\ k.need = 1 /\ k.stage = "answer" /\ k.op.kind = "write" /\ e = <<>>
          /\ g = Ack /\ DataExpected(s, u, k.op, Payload(k.op))
      BY <1>11 DEF Acknowledged, g
    <2>2. base = "ACK" /\ Size(g) = 1  BY <1>8, <2>1, AnswerUnit
    <2>3. PICK p \in Seq(Units) : p = Payload(k.op)  BY <1>1, PayloadType
    <2>4. l = [k EXCEPT !.stage = "second", !.out = p]
      BY <1>8, <2>1, <2>2, <2>3 DEF AfterBase, LongerThanBase
    <2>5. /\ l.stage = "second" /\ l.op = k.op /\ l.out = p /\ l.need = k.need
          /\ l \in InCalls
      BY <1>9, <2>4 DEF InCalls
    <2>6. SendingData(s, u, v, e, l)
      BY <1>6, <2>1, <2>2, <2>3, <2>5 DEF SendingData, h
    <2>7. QED  BY <1>1, <1>4, <2>5, <2>6 DEF OpenOK, CallTyped
  <1>12. CASE Answered(s, u, d, e, k)
    <2>1. PICK r \in Results : e = <<Execution(k.op, r)>> /\ g = Flat(Answer(k.op, r))
      BY <1>12 DEF Answered, g
    <2>2. /\ k.need = 1 /\ k.stage = IF k.op.kind = "write" THEN "second" ELSE "answer"
          /\ NothingComing(s, u)
      BY <1>12 DEF Answered
    <2>3. ASSUME base \in {"ERROR", "REGISTER_DATA"}, Size(g) = 2,
                 r = IF base = "ERROR" THEN "ERROR" ELSE "OK"
          PROVE  /\ CallTyped(l) /\ OpenOK(s, u, v, e, l) /\ l.stage = "rest" /\ l.op = k.op
      <3>1. l = [k EXCEPT !.stage = "rest", !.result = r]
        BY <1>8, <2>3 DEF AfterBase, LongerThanBase
      <3>2. /\ l.stage = "rest" /\ l.op = k.op /\ l.out = <<>> /\ l.need = 1
            /\ l.result = r /\ l \in InCalls
        BY <1>9, <2>2, <3>1 DEF InCalls
      <3>3. Size(h) = l.need  BY <1>5, <2>3, <3>2
      <3>4. Resting(s, u, v, e, l)  BY <2>1, <2>2, <3>2, <3>3 DEF Resting, h
      <3>5. QED  BY <1>1, <3>2, <3>4 DEF OpenOK, CallTyped
    <2>4. CASE r = "ERROR"
      <3>1. g = Error  BY <1>1, <2>1, <2>4, AnswerFacts
      <3>2. base = "ERROR" /\ Size(g) = 2  BY <1>8, <3>1, AnswerUnit
      <3>3. QED  BY <1>4, <2>3, <2>4, <3>2
    <2>5. CASE r = "OK" /\ k.op.kind = "register"
      <3>1. g = Register  BY <1>1, <2>1, <2>5, AnswerFacts
      <3>2. base = "REGISTER_DATA" /\ Size(g) = 2  BY <1>8, <3>1, AnswerUnit
      <3>3. QED  BY <1>4, <2>3, <2>5, <3>2
    <2>6. CASE r = "OK" /\ k.op.kind \in {"plain", "write"}
      <3>1. g = Ack  BY <1>1, <2>1, <2>6, AnswerFacts
      <3>2. base = "ACK" /\ Size(g) = 1  BY <1>8, <3>1, AnswerUnit
      <3>3. l = Idle("OK")
        BY <1>8, <2>2, <2>6, <3>2 DEF AfterBase, LongerThanBase
      <3>4. Between(s, u, v, e, l)
        BY <1>6, <1>10, <2>1, <2>2, <2>6, <3>2, <3>3 DEF Between, h
      <3>5. OpenOK(s, u, v, e, l)  BY <1>1, <3>4 DEF OpenOK
      <3>6. QED  BY <1>4, <1>10, <2>1, <2>6, <3>3, <3>5
    <2>7. CASE r = "OK" /\ k.op.kind = "read"
      <3>1. g[1] = "ACK" /\ Size(g) = 1 + k.op.size  BY <1>1, <2>1, <2>7, AnswerFacts
      <3>2. base = "ACK" /\ k.op.size > 0  BY <1>1, <1>8, <2>7, <3>1 DEF ReadsNotEmpty
      <3>3. l = [k EXCEPT !.stage = "data", !.need = k.op.size]
        BY <1>8, <2>2, <2>7, <3>2 DEF AfterBase, LongerThanBase
      <3>4. /\ l.stage = "data" /\ l.op = k.op /\ l.out = <<>> /\ l.need = k.op.size
            /\ l \in InCalls
        BY <1>9, <3>3 DEF InCalls
      <3>5. Size(h) = l.need  BY <1>5, <1>9, <3>1, <3>4
      <3>6. Reading(s, u, v, e, l)
        BY <2>1, <2>2, <2>7, <3>4, <3>5 DEF Reading, h
      <3>7. QED  BY <1>1, <1>4, <3>4, <3>6 DEF OpenOK, CallTyped
    <2>8. QED  BY <1>9, <2>4, <2>5, <2>6, <2>7 DEF Results
  <1>13. ~Between(s, u, d, e, k) /\ ~Commanded(s, u, d, e, k) /\ ~SendingData(s, u, d, e, k)
         /\ ~Resting(s, u, d, e, k) /\ ~Reading(s, u, d, e, k)
    BY <1>5 DEF Between, Commanded, SendingData, Resting, Reading, g
  <1>14. QED  BY <1>11, <1>12, <1>13 DEF OpenOK

LEMMA RestReceived ==
    ASSUME NEW s \in Entries, NEW u \in Seq(Units), NEW d \in Messages, NEW e, NEW k \in InCalls,
           OpenOK(s, u, d, e, k), d # <<>>, k.stage = "rest",
           NEW v, v = Rest(d, 1)
    PROVE  /\ v \in Messages /\ CallTyped(Idle(k.result)) /\ OpenOK(s, u, v, e, Idle(k.result))
           /\ k.result \in Results /\ e = <<Execution(k.op, k.result)>>
  <1>1. Resting(s, u, d, e, k) /\ Orderly(s)
    BY DEF OpenOK, Between, Commanded, Acknowledged, SendingData, Answered, Reading
  <1>2. 1 \in 1 .. Len(d)
    <2>1. Size(d) > 0 /\ Size(d) \in Nat  BY SizeFacts DEF Messages
    <2>2. QED  BY <2>1 DEF Size
  <1>3. v = SubSeq(d, 1 + 1, Len(d))  BY Zenon DEF Rest
  <1>4. /\ v \in Messages /\ Going(s, v) \in Messages
        /\ Size(Going(s, v)) = Size(Going(s, d)) - 1
    BY <1>1, <1>2, <1>3, GoingReceived
  <1>5. Size(Going(s, v)) <= 0 /\ k.result \in Results /\ e = <<Execution(k.op, k.result)>>
        /\ NothingComing(s, u)
    BY <1>1, <1>4 DEF Resting
  <1>6. Going(s, v) = <<>>  BY <1>4, <1>5, SizeFacts DEF Messages
  <1>7. Idle(k.result).stage = "idle" /\ Idle(k.result).out = <<>>
        /\ Idle(k.result) \in InCalls
    BY <1>5, EmptySeq DEF Idle, InCalls
  <1>8. Between(s, u, v, e, Idle(k.result))  BY <1>5, <1>6, <1>7 DEF Between
  <1>9. QED  BY <1>1, <1>4, <1>5, <1>7, <1>8 DEF OpenOK, CallTyped

LEMMA MemoryReceived ==
    ASSUME NEW s \in Entries, NEW u \in Seq(Units), NEW d \in Messages, NEW e, NEW k \in InCalls,
           CallTyped(k), OpenOK(s, u, d, e, k), k.stage = "data",
           NEW n \in 1 .. Len(d), n <= k.need,
           NEW v, v = Rest(d, n), NEW l, l = MemoryRead(k, n)
    PROVE  /\ v \in Messages /\ CallTyped(l) /\ OpenOK(s, u, v, e, l)
           /\ l.stage # "idle" => l.op = k.op
           /\ l.stage = "idle" => l.result = "OK" /\ e = <<Execution(k.op, "OK")>>
  <1>1. Reading(s, u, d, e, k) /\ Orderly(s) /\ k.op \in Ops
    BY DEF OpenOK, Between, Commanded, Acknowledged, SendingData, Answered, Resting, CallTyped
  <1>2. /\ v \in Messages /\ Going(s, v) \in Messages
        /\ Size(Going(s, v)) = Size(Going(s, d)) - n
    <2>1. v = SubSeq(d, n + 1, Len(d))  BY Zenon DEF Rest
    <2>2. QED  BY <1>1, <2>1, GoingReceived
  <1>3. /\ k.need \in Nat /\ n \in Int /\ n >= 1 /\ Size(Going(s, v)) = k.need - n
        /\ NothingComing(s, u) /\ e = <<Execution(k.op, "OK")>>
    BY <1>1, <1>2, LenProperties DEF Reading, InCalls
  <1>4. CASE n < k.need
    <2>1. /\ l.stage = "data" /\ l.op = k.op /\ l.out = k.out /\ l.need = k.need - n
          /\ l \in InCalls
      <3>1. k.need - n \in Nat  BY <1>3, <1>4
      <3>2. PICK j \in Nat : j = k.need - n  BY <3>1
      <3>3. l = [k EXCEPT !.need = j]  BY <1>4, <3>2 DEF MemoryRead
      <3>4. /\ l.stage = k.stage /\ l.op = k.op /\ l.out = k.out /\ l.need = j
            /\ l \in InCalls
        BY <3>3 DEF InCalls
      <3>5. QED  BY <3>2, <3>4
    <2>2. Reading(s, u, v, e, l)  BY <1>1, <1>3, <2>1 DEF Reading
    <2>3. QED  BY <1>1, <1>2, <2>1, <2>2 DEF OpenOK, CallTyped
  <1>5. CASE ~(n < k.need)
    <2>1. Size(Going(s, v)) <= 0  BY <1>3, <1>5
    <2>2. Going(s, v) = <<>>  BY <1>2, <2>1, SizeFacts DEF Messages
    <2>3. l = Idle("OK")  BY <1>5 DEF MemoryRead
    <2>4. l.stage = "idle" /\ l.out = <<>> /\ l.result = "OK" /\ l \in InCalls
      BY <2>3, EmptySeq DEF Idle, InCalls, Results
    <2>5. Between(s, u, v, e, l)  BY <1>3, <2>2, <2>4 DEF Between
    <2>6. QED  BY <1>1, <1>2, <1>3, <2>4, <2>5 DEF OpenOK, CallTyped
  <1>6. QED  BY <1>4, <1>5

-----------------------------------------------------------------------------
(* A step touches one connection.                                          *)

Untouched(b) ==
    /\ up'[b] = up[b] /\ down'[b] = down[b] /\ life'[b] = life[b]
    /\ executed'[b] = executed[b] /\ client'[b] = client[b]
    /\ Waiting(b)' <=> Waiting(b)
    /\ \A j \in Slots : (ServedBy(j, b)' <=> ServedBy(j, b))
                         /\ (ServedBy(j, b) => sockets'[j] = sockets[j])

LEMMA OthersKept ==
    ASSUME StreamsOK, NEW c \in Conns, \A b \in Conns \ {c} : Untouched(b), StreamOK(c)'
    PROVE  StreamsOK'
  <1>1. ASSUME NEW b \in Conns \ {c} PROVE StreamOK(b)'
    <2>1. Untouched(b)  BY <1>1
    <2>2. Waiting(b)' <=> Waiting(b)  BY <2>1 DEF Untouched
    <2>3. \A j \in Slots : ServedBy(j, b)' <=> ServedBy(j, b)  BY <2>1 DEF Untouched
    <2>4. \A j \in Slots : ServedBy(j, b) => sockets'[j] = sockets[j]  BY <2>1 DEF Untouched
    <2>5. /\ up'[b] = up[b] /\ down'[b] = down[b] /\ life'[b] = life[b]
          /\ executed'[b] = executed[b] /\ client'[b] = client[b]
      BY <2>1 DEF Untouched
    <2>6. Served(b)' <=> Served(b)  BY <2>3 DEF Served
    <2>7. StreamOK(b)  BY DEF StreamsOK
    <2>8. QED  BY <2>2, <2>3, <2>4, <2>5, <2>6, <2>7, Zenon DEF StreamOK
  <1>2. QED  BY <1>1 DEF StreamsOK

LEMMA PlacesKept ==
    ASSUME Places, server_open' = server_open, backlog' = backlog,
           \A j \in Slots, b \in Conns : ServedBy(j, b)' <=> ServedBy(j, b),
           \A b \in Conns : life[b] # "new" => life'[b] # "new", server_open \subseteq Conns
    PROVE  Places'
  <1>1. \A b \in Conns : (Served(b)' <=> Served(b)) /\ (Waiting(b)' <=> Waiting(b))
    BY DEF Served, Waiting
  <1>2. QED  BY <1>1, Zenon DEF Places

LEMMA SlotsListen == Slots \subseteq 0 .. MaxConnections /\ listen_idx \notin Slots
                     /\ listen_idx \in 0 .. MaxConnections
  BY ServerAssumption DEF Slots, listen_idx

\* The server, with the entry of one connection.
ServedStep(i, c, t, u, d, e, p) ==
    /\ i \in Slots /\ c \in Conns /\ ServedBy(i, c)
    /\ t \in Entries /\ t.conn = c /\ sockets' = [sockets EXCEPT ![i] = t]
    /\ u \in Seq(Units) /\ up' = [up EXCEPT ![c] = u]
    /\ d \in Messages /\ Len(d) <= Room /\ down' = [down EXCEPT ![c] = d]
    /\ e \in Seq(Executions) /\ executed' = [executed EXCEPT ![c] = e]
    /\ p \subseteq revents[i] /\ revents' = [revents EXCEPT ![i] = p]
    /\ consuming' \subseteq {i} /\ UNCHANGED <<life, server_open, backlog, client>>
    /\ "IN" \in p => u # <<>> \/ life[c] = "closed"
    /\ "OUT" \in p => WantsToWrite(t)
    /\ life[c] = "open" => OpenOK(t, u, d, e, client[c])
    /\ life[c] = "closed" => ClosedOK(t, u) /\ d = <<>>

LEMMA ServingStep ==
    ASSUME CallInv, NEW i, NEW c, NEW t, NEW u, NEW d, NEW e, NEW p,
           ServedStep(i, c, t, u, d, e, p)
    PROVE  CallInv'
  <1>0. /\ i \in Slots /\ c \in Conns /\ ServedBy(i, c)
        /\ t \in Entries /\ t.conn = c /\ sockets' = [sockets EXCEPT ![i] = t]
        /\ u \in Seq(Units) /\ up' = [up EXCEPT ![c] = u]
        /\ d \in Messages /\ Len(d) <= Room /\ down' = [down EXCEPT ![c] = d]
        /\ e \in Seq(Executions) /\ executed' = [executed EXCEPT ![c] = e]
        /\ p \subseteq revents[i] /\ revents' = [revents EXCEPT ![i] = p]
        /\ consuming' \subseteq {i} /\ UNCHANGED <<life, server_open, backlog, client>>
        /\ "IN" \in p => u # <<>> \/ life[c] = "closed"
        /\ "OUT" \in p => WantsToWrite(t)
        /\ life[c] = "open" => OpenOK(t, u, d, e, client[c])
        /\ life[c] = "closed" => ClosedOK(t, u) /\ d = <<>>
    BY DEF ServedStep
  <1> USE <1>0
  <1>1. /\ Types /\ Places /\ EventsTrue /\ StreamsOK  BY DEF CallInv
  <1>2. t # NoSocket /\ sockets[i] # NoSocket /\ sockets[i].conn = c
    BY ServerAssumption DEF ServedBy
  <1>3. /\ up \in [Conns -> Seq(Units)] /\ down \in [Conns -> Messages]
        /\ \A b \in Conns : Len(down[b]) <= Room
        /\ server_open \in SUBSET Conns /\ backlog \in Seq(Conns)
        /\ sockets \in [Slots -> Entries \cup {NoSocket}]
        /\ revents \in [0 .. MaxConnections -> SUBSET {"IN", "OUT", "HUP"}]
        /\ executed \in [Conns -> Seq(Executions)] /\ i \in 0 .. MaxConnections
        /\ i # listen_idx /\ listen_idx \in 0 .. MaxConnections
    BY <1>1, SlotsListen DEF Types
  <1>4. /\ sockets'[i] = t /\ \A j \in Slots : j # i => sockets'[j] = sockets[j]
        /\ up'[c] = u /\ \A b \in Conns : b # c => up'[b] = up[b]
        /\ down'[c] = d /\ \A b \in Conns : b # c => down'[b] = down[b]
        /\ executed'[c] = e /\ \A b \in Conns : b # c => executed'[b] = executed[b]
        /\ revents'[i] = p /\ \A j \in Slots : j # i => revents'[j] = revents[j]
        /\ revents'[listen_idx] = revents[listen_idx]
    BY <1>3, SlotsListen, Zenon
  <1>5. \A j \in Slots, b \in Conns : ServedBy(j, b)' <=> ServedBy(j, b)
    <2>1. TAKE j \in Slots, b \in Conns
    <2>2. CASE j = i  BY <1>2, <1>4, <2>2 DEF ServedBy
    <2>3. CASE j # i  BY <1>4, <2>3 DEF ServedBy
    <2>4. QED  BY <2>2, <2>3
  <1>6. Types'
    <2>1. p \in SUBSET {"IN", "OUT", "HUP"} /\ consuming' \in SUBSET Slots  BY <1>3
    <2>2. \A b \in Conns : Len(down'[b]) <= Room  BY <1>3, <1>4, Zenon
    <2>3. up' \in [Conns -> Seq(Units)] /\ executed' \in [Conns -> Seq(Executions)]
      BY <1>3
    <2>4. down' \in [Conns -> Messages] /\ sockets' \in [Slots -> Entries \cup {NoSocket}]
      BY <1>3
    <2>5. revents' \in [0 .. MaxConnections -> SUBSET {"IN", "OUT", "HUP"}]
      BY <1>3, <2>1
    <2>6. QED  BY <1>1, <2>1, <2>2, <2>3, <2>4, <2>5, Zenon DEF Types
  <1>7. Places'  BY <1>1, <1>3, <1>5, PlacesKept
  <1>8. EventsTrue'
    <2>1. \A k, l \in consuming' : k = l  OBVIOUS
    <2>2. /\ revents'[listen_idx] \subseteq {"IN"}
          /\ "IN" \in revents'[listen_idx] => backlog' # <<>>
      BY <1>1, <1>4 DEF EventsTrue
    <2>3. EventOK(i)'
      <3>1. EventOK(i)  BY <1>1 DEF EventsTrue
      <3>2. \A b \in Conns : ServedBy(i, b)' => b = c  BY <1>2, <1>4 DEF ServedBy
      <3>3. "HUP" \in p => life[c] = "closed"  BY <3>1 DEF EventOK
      <3>4. QED  BY <1>2, <1>4, <3>2, <3>3 DEF EventOK
    <2>4. ASSUME NEW j \in Slots, j # i PROVE EventOK(j)'
      <3>1. EventOK(j)  BY <1>1 DEF EventsTrue
      <3>2. sockets'[j] = sockets[j] /\ revents'[j] = revents[j] /\ j \notin consuming'
        BY <1>4, <2>4
      <3>3. ASSUME NEW b \in Conns, ServedBy(j, b)'
            PROVE  ServedBy(j, b) /\ up'[b] = up[b]
        <4>1. ServedBy(j, b)  BY <1>5, <3>3
        <4>2. b # c  BY <1>1, <2>4, <4>1 DEF Places
        <4>3. QED  BY <1>4, <4>1, <4>2
      <3>4. QED  BY <3>1, <3>2, <3>3 DEF EventOK
    <2>5. QED  BY <2>1, <2>2, <2>3, <2>4 DEF EventsTrue
  <1>9. StreamOK(c)'
    <2>1. StreamOK(c) /\ Served(c)  BY <1>1 DEF StreamsOK, Served
    <2>2. Served(c)' /\ (Waiting(c)' <=> Waiting(c))  BY <1>5, <2>1 DEF Served, Waiting
    <2>3. c \in server_open /\ ~Waiting(c)  BY <1>1, <2>1 DEF Places
    <2>4. life[c] # "new"  BY <1>1, <2>3 DEF Places
    <2>5. \A j \in Slots : ServedBy(j, c)' => sockets'[j] = t
      BY <1>1, <1>4, <1>5 DEF Places
    <2>6. life'[c] = life[c] /\ client'[c] = client[c]  OBVIOUS
    <2>7. life'[c] = "closed" => down'[c] = <<>> /\ client'[c] = Idle("lost")
      BY <1>4, <2>1, <2>6 DEF StreamOK
    <2>8. QED  BY <1>4, <2>2, <2>3, <2>4, <2>5, <2>6, <2>7 DEF StreamOK
  <1>10. \A b \in Conns \ {c} : Untouched(b)
    <2>1. TAKE b \in Conns \ {c}
    <2>2. Waiting(b)' <=> Waiting(b)  BY DEF Waiting
    <2>3. \A j \in Slots : ServedBy(j, b) => sockets'[j] = sockets[j]
      BY <1>2, <1>4 DEF ServedBy
    <2>4. QED  BY <1>4, <1>5, <2>2, <2>3 DEF Untouched
  <1>11. StreamsOK'  BY <1>1, <1>9, <1>10, OthersKept
  <1>12. QED  BY <1>6, <1>7, <1>8, <1>11 DEF CallInv

\* The client, in the middle of its life.
ClientsStep(c, u, d, e, k) ==
    /\ c \in Conns /\ life[c] = "open"
    /\ UNCHANGED <<life, server_open, backlog, sockets, revents, consuming>>
    /\ u \in Seq(Units) /\ up' = [up EXCEPT ![c] = u] /\ (up[c] # <<>> => u # <<>>)
    /\ d \in Messages /\ Len(d) <= Room /\ down' = [down EXCEPT ![c] = d]
    /\ e \in Seq(Executions) /\ executed' = [executed EXCEPT ![c] = e]
    /\ k \in InCalls /\ CallTyped(k) /\ client' = [client EXCEPT ![c] = k]
    /\ \A s \in Entries :
         OpenOK(s, up[c], down[c], executed[c], client[c]) => OpenOK(s, u, d, e, k)
    /\ Unserved(up[c], down[c], executed[c], client[c]) => Unserved(u, d, e, k)

LEMMA ClientStep ==
    ASSUME CallInv, NEW c, NEW u, NEW d, NEW e, NEW k, ClientsStep(c, u, d, e, k)
    PROVE  CallInv'
  <1>0. /\ c \in Conns /\ life[c] = "open"
        /\ UNCHANGED <<life, server_open, backlog, sockets, revents, consuming>>
        /\ u \in Seq(Units) /\ up' = [up EXCEPT ![c] = u] /\ (up[c] # <<>> => u # <<>>)
        /\ d \in Messages /\ Len(d) <= Room /\ down' = [down EXCEPT ![c] = d]
        /\ e \in Seq(Executions) /\ executed' = [executed EXCEPT ![c] = e]
        /\ k \in InCalls /\ CallTyped(k) /\ client' = [client EXCEPT ![c] = k]
        /\ \A s \in Entries :
             OpenOK(s, up[c], down[c], executed[c], client[c]) => OpenOK(s, u, d, e, k)
        /\ Unserved(up[c], down[c], executed[c], client[c]) => Unserved(u, d, e, k)
    BY DEF ClientsStep
  <1> USE <1>0
  <1>1. /\ Types /\ Places /\ EventsTrue /\ StreamsOK  BY DEF CallInv
  <1>2. /\ up \in [Conns -> Seq(Units)] /\ down \in [Conns -> Messages]
        /\ \A b \in Conns : Len(down[b]) <= Room
        /\ executed \in [Conns -> Seq(Executions)] /\ client \in [Conns -> InCalls]
        /\ \A b \in Conns : CallTyped(client[b])
        /\ server_open \in SUBSET Conns
        /\ sockets \in [Slots -> Entries \cup {NoSocket}]
    BY <1>1 DEF Types
  <1>3. /\ up'[c] = u /\ \A b \in Conns : b # c => up'[b] = up[b]
        /\ down'[c] = d /\ \A b \in Conns : b # c => down'[b] = down[b]
        /\ executed'[c] = e /\ \A b \in Conns : b # c => executed'[b] = executed[b]
        /\ client'[c] = k /\ \A b \in Conns : b # c => client'[b] = client[b]
    BY <1>2, Zenon
  <1>4. \A j \in Slots, b \in Conns : ServedBy(j, b)' <=> ServedBy(j, b)  BY DEF ServedBy
  <1>5. Types'
    <2>1. \A b \in Conns : Len(down'[b]) <= Room /\ CallTyped(client'[b])
      BY <1>2, <1>3, Zenon
    <2>2. up' \in [Conns -> Seq(Units)] /\ executed' \in [Conns -> Seq(Executions)]
      BY <1>2
    <2>3. down' \in [Conns -> Messages] /\ client' \in [Conns -> InCalls]  BY <1>2
    <2>4. QED  BY <1>1, <2>1, <2>2, <2>3, Zenon DEF Types
  <1>6. Places'  BY <1>1, <1>2, <1>4, PlacesKept
  <1>7. EventsTrue'
    <2>1. ASSUME NEW i \in Slots PROVE EventOK(i)'
      <3>1. EventOK(i)  BY <1>1 DEF EventsTrue
      <3>2. \A b \in Conns : up[b] # <<>> => up'[b] # <<>>  BY <1>3
      <3>3. QED  BY <1>4, <3>1, <3>2 DEF EventOK
    <2>2. QED  BY <1>1, <2>1 DEF EventsTrue
  <1>8. StreamOK(c)'
    <2>1. StreamOK(c)  BY <1>1 DEF StreamsOK
    <2>2. life'[c] = "open" /\ sockets' = sockets  OBVIOUS
    <2>3. Served(c)' <=> Served(c)  BY <1>4 DEF Served
    <2>4. ASSUME NEW i \in Slots, ServedBy(i, c)'
          PROVE  OpenOK(sockets'[i], u, d, e, k)
      <3>1. ServedBy(i, c) /\ sockets[i] \in Entries  BY <1>2, <1>4, <2>4 DEF ServedBy
      <3>2. OpenOK(sockets[i], up[c], down[c], executed[c], client[c])
        BY <2>1, <3>1 DEF StreamOK
      <3>3. QED  BY <2>2, <3>1, <3>2
    <2>5. ~Served(c)' => Unserved(u, d, e, k)  BY <2>1, <2>3 DEF StreamOK
    <2>6. QED  BY <1>3, <2>2, <2>4, <2>5 DEF StreamOK
  <1>9. \A b \in Conns \ {c} : Untouched(b)
    <2>1. \A b \in Conns : Waiting(b)' <=> Waiting(b)  BY DEF Waiting
    <2>2. QED  BY <1>3, <1>4, <2>1 DEF Untouched
  <1>10. StreamsOK'  BY <1>1, <1>8, <1>9, OthersKept
  <1>11. QED  BY <1>5, <1>6, <1>7, <1>10 DEF CallInv

\* A connection whose client has gone is given up.
LEMMA ClosingStep ==
    ASSUME CallInv, NEW i \in Slots, NEW c \in Conns, ServedBy(i, c), life[c] = "closed",
           CloseSocket(i), consuming = {},
           UNCHANGED <<up, down, life, backlog, consuming, executed, client>>
    PROVE  CallInv'
  <1>1. /\ Types /\ Places /\ EventsTrue /\ StreamsOK  BY DEF CallInv
  <1>2. sockets[i] # NoSocket /\ sockets[i].conn = c  BY DEF ServedBy
  <1>3. /\ server_open \in SUBSET Conns
        /\ sockets \in [Slots -> Entries \cup {NoSocket}]
        /\ revents \in [0 .. MaxConnections -> SUBSET {"IN", "OUT", "HUP"}]
        /\ i \in 0 .. MaxConnections
        /\ i # listen_idx /\ listen_idx \in 0 .. MaxConnections
    BY <1>1, SlotsListen DEF Types
  <1>4. /\ server_open' = server_open \ {c}
        /\ sockets' = [sockets EXCEPT ![i] = NoSocket] /\ revents' = [revents EXCEPT ![i] = {}]
    BY <1>2 DEF CloseSocket
  <1>5. /\ sockets'[i] = NoSocket /\ \A j \in Slots : j # i => sockets'[j] = sockets[j]
        /\ revents'[i] = {} /\ \A j \in Slots : j # i => revents'[j] = revents[j]
        /\ revents'[listen_idx] = revents[listen_idx]
    BY <1>3, <1>4, SlotsListen, Zenon
  <1>6. \A j \in Slots, b \in Conns : ServedBy(j, b)' <=> ServedBy(j, b) /\ b # c
    <2>1. TAKE j \in Slots, b \in Conns
    <2>2. CASE j = i  BY <1>2, <1>5, <2>2 DEF ServedBy
    <2>3. CASE j # i
      <3>1. ServedBy(j, c) => j = i  BY <1>1 DEF Places
      <3>2. QED  BY <1>5, <2>3, <3>1 DEF ServedBy
    <2>4. QED  BY <2>2, <2>3
  <1>7. Types'
    <2>1. server_open' \in SUBSET Conns /\ sockets' \in [Slots -> Entries \cup {NoSocket}]
      BY <1>3, <1>4
    <2>2. revents' \in [0 .. MaxConnections -> SUBSET {"IN", "OUT", "HUP"}]  BY <1>3, <1>4
    <2>3. QED  BY <1>1, <2>1, <2>2, Zenon DEF Types
  <1>8. Places'
    <2>1. \A b \in Conns : (Served(b)' <=> Served(b) /\ b # c) /\ (Waiting(b)' <=> Waiting(b))
      BY <1>6, Zenon DEF Served, Waiting
    <2>2. ~Waiting(c)  BY <1>1, <1>2 DEF Places, Served
    <2>3. \A b \in Conns : b \in server_open' <=> Served(b)' \/ Waiting(b)'
      BY <1>1, <1>4, <2>1, <2>2 DEF Places
    <2>4. \A b \in Conns : ~(Served(b)' /\ Waiting(b)')  BY <1>1, <2>1 DEF Places
    <2>5. \A j, l \in Slots, b \in Conns : ServedBy(j, b)' /\ ServedBy(l, b)' => j = l
      BY <1>1, <1>6 DEF Places
    <2>6. \A b \in server_open' : life'[b] # "new"  BY <1>1, <1>4 DEF Places
    <2>7. QED  BY <1>1, <2>3, <2>4, <2>5, <2>6 DEF Places
  <1>9. EventsTrue'
    <2>1. ASSUME NEW j \in Slots PROVE EventOK(j)'
      <3>1. EventOK(j)  BY <1>1 DEF EventsTrue
      <3>2. CASE j = i  BY <1>5, <1>6, <3>2 DEF EventOK, ServedBy
      <3>3. CASE j # i
        <4>1. sockets'[j] = sockets[j] /\ revents'[j] = revents[j]  BY <1>5, <3>3
        <4>2. \A b \in Conns : ServedBy(j, b)' => ServedBy(j, b)  BY <1>6
        <4>3. QED  BY <3>1, <4>1, <4>2 DEF EventOK
      <3>4. QED  BY <3>2, <3>3
    <2>2. QED  BY <1>1, <1>5, <2>1 DEF EventsTrue
  <1>10. StreamOK(c)'
    <2>1. StreamOK(c)  BY <1>1 DEF StreamsOK
    <2>2. ~Waiting(c)  BY <1>1, <1>2 DEF Places, Served
    <2>3. ~Waiting(c)' /\ \A j \in Slots : ~ServedBy(j, c)'
      BY <1>6, <2>2 DEF Waiting
    <2>4. QED  BY <2>1, <2>3 DEF StreamOK
  <1>11. \A b \in Conns \ {c} : Untouched(b)
    <2>1. TAKE b \in Conns \ {c}
    <2>2. Waiting(b)' <=> Waiting(b)  BY DEF Waiting
    <2>3. \A j \in Slots : ServedBy(j, b) => sockets'[j] = sockets[j]
      BY <1>2, <1>5 DEF ServedBy
    <2>4. QED  BY <1>6, <2>2, <2>3 DEF Untouched
  <1>12. StreamsOK'  BY <1>1, <1>10, <1>11, OthersKept
  <1>13. QED  BY <1>7, <1>8, <1>9, <1>12 DEF CallInv

-----------------------------------------------------------------------------
(* The backlog.                                                            *)

LEMMA FirstTaken ==
    ASSUME NEW q \in Seq(Conns), q # <<>>, Distinct(q), NEW t, t = Tail(q)
    PROVE  /\ Head(q) \in Conns /\ t \in Seq(Conns) /\ Has(q, Head(q)) /\ Distinct(t)
           /\ \A b : Has(t, b) <=> Has(q, b) /\ b # Head(q)
  <1>1. /\ Len(q) \in Nat /\ Head(q) = q[1] /\ t \in Seq(Conns)
        /\ Len(t) = Len(q) - 1 /\ \A j \in 1 .. Len(t) : t[j] = q[j + 1]
        /\ DOMAIN q = 1 .. Len(q) /\ DOMAIN t = 1 .. Len(t)
    BY HeadTailProperties, LenProperties
  <1>2. Len(q) > 0  BY <1>1, EmptySeq
  <1>3. 1 \in DOMAIN q /\ q[1] \in Conns  BY <1>1, <1>2, ElementOfSeq
  <1>4. \A j \in DOMAIN t : j + 1 \in DOMAIN q /\ t[j] = q[j + 1] /\ j \in Nat \ {0}
    BY <1>1
  <1>5. \A m, n \in DOMAIN t : t[m] = t[n] => m = n
    <2>1. SUFFICES ASSUME NEW m \in DOMAIN t, NEW n \in DOMAIN t, t[m] = t[n] PROVE m = n
      OBVIOUS
    <2>2. m + 1 = n + 1  BY <1>4, <2>1 DEF Distinct
    <2>3. QED  BY <1>4, <2>2
  <1>6. ASSUME NEW b
        PROVE  (\E m \in DOMAIN t : t[m] = b)
                       <=> (\E m \in DOMAIN q : q[m] = b) /\ b # Head(q)
    <2>1. ASSUME NEW m \in DOMAIN t, t[m] = b
          PROVE  (\E n \in DOMAIN q : q[n] = b) /\ b # Head(q)
      <3>1. m + 1 \in DOMAIN q /\ q[m + 1] = b /\ m + 1 # 1  BY <1>4, <2>1
      <3>2. QED  BY <1>1, <1>3, <3>1 DEF Distinct
    <2>2. ASSUME NEW m \in DOMAIN q, q[m] = b, b # Head(q)
          PROVE  \E n \in DOMAIN t : t[n] = b
      <3>1. m # 1 /\ m \in 1 .. Len(q)  BY <1>1, <2>2
      <3>2. m - 1 \in DOMAIN t /\ (m - 1) + 1 = m  BY <1>1, <3>1
      <3>3. QED  BY <1>4, <2>2, <3>2
    <2>3. QED  BY <2>1, <2>2
  <1>7. QED  BY <1>1, <1>3, <1>5, <1>6 DEF Distinct, Has

LEMMA LastQueued ==
    ASSUME NEW q \in Seq(Conns), Distinct(q), NEW c \in Conns, ~Has(q, c),
           NEW t, t = Append(q, c)
    PROVE  /\ t \in Seq(Conns) /\ t # <<>> /\ Distinct(t)
           /\ \A b : Has(t, b) <=> Has(q, b) \/ b = c
  <1>1. /\ Len(q) \in Nat /\ t \in Seq(Conns) /\ t # <<>>
        /\ Len(t) = Len(q) + 1 /\ \A j \in 1 .. Len(q) : t[j] = q[j]
        /\ t[Len(q) + 1] = c
        /\ DOMAIN q = 1 .. Len(q) /\ DOMAIN t = 1 .. Len(t)
    BY AppendProperties, LenProperties
  <1>2. \A j \in DOMAIN t : (j \in DOMAIN q /\ t[j] = q[j]) \/ (j = Len(q) + 1 /\ t[j] = c)
    BY <1>1
  <1>3. Len(q) + 1 \in DOMAIN t /\ \A j \in DOMAIN q : j \in DOMAIN t /\ t[j] = q[j]
    BY <1>1
  <1>4. \A m, n \in DOMAIN t : t[m] = t[n] => m = n  BY <1>2 DEF Distinct, Has
  <1>5. \A b : (\E m \in DOMAIN t : t[m] = b) <=> (\E m \in DOMAIN q : q[m] = b) \/ b = c
    BY <1>1, <1>2, <1>3
  <1>6. QED  BY <1>1, <1>4, <1>5 DEF Distinct, Has

-----------------------------------------------------------------------------
(* The steps of the server.                                                *)

LEMMA PollStep ==
    ASSUME CallInv, Poll, UNCHANGED client
    PROVE  CallInv'
  <1>1. /\ Types /\ Places /\ EventsTrue /\ StreamsOK  BY DEF CallInv
  <1>2. /\ UNCHANGED <<up, down, life, server_open, backlog, sockets, consuming, executed>>
        /\ revents \in [0 .. MaxConnections -> SUBSET {"IN", "OUT", "HUP"}]
        /\ consuming = {} /\ revents' = [j \in DOMAIN revents |-> Ready(j)]
    BY <1>1 DEF Poll, Types
  <1>3. revents' = [j \in 0 .. MaxConnections |-> Ready(j)]  BY <1>2
  <1>4. \A j \in 0 .. MaxConnections : Ready(j) \subseteq {"IN", "OUT", "HUP"}
    BY DEF Ready, Events
  <1>5. Types'  BY <1>1, <1>2, <1>3, <1>4 DEF Types
  <1>6. Places'  BY <1>1, <1>2, Zenon DEF Places, Served, Waiting, ServedBy
  <1>7. EventsTrue'
    <2>1. revents'[listen_idx] = IF backlog = <<>> THEN {} ELSE {"IN"}
      BY <1>3, SlotsListen DEF Ready
    <2>2. ASSUME NEW i \in Slots PROVE EventOK(i)'
      <3>1. revents'[i] = Ready(i) /\ i # listen_idx  BY <1>3, SlotsListen
      <3>2. revents'[i] = IF sockets[i] = NoSocket THEN {} ELSE Events(sockets[i])
        BY <3>1 DEF Ready
      <3>3. up' = up /\ life' = life /\ sockets' = sockets /\ i \notin consuming'
        BY <1>2
      <3>4. ASSUME NEW c \in Conns, ServedBy(i, c)'
            PROVE  /\ "IN" \in revents'[i] => up'[c] # <<>> \/ life'[c] = "closed"
                   /\ "OUT" \in revents'[i] => WantsToWrite(sockets'[i])
                   /\ "HUP" \in revents'[i] => life'[c] = "closed"
        <4>1. sockets[i] # NoSocket /\ sockets[i].conn = c  BY <3>3, <3>4 DEF ServedBy
        <4>2. QED  BY <3>2, <3>3, <4>1 DEF Events, WantsToWrite
      <3>5. sockets'[i] = NoSocket => revents'[i] = {}  BY <3>2, <3>3
      <3>6. QED  BY <3>3, <3>4, <3>5 DEF EventOK
    <2>3. backlog' = backlog /\ \A k, l \in consuming' : k = l  BY <1>2
    <2>4. /\ revents'[listen_idx] \subseteq {"IN"}
          /\ "IN" \in revents'[listen_idx] => backlog' # <<>>
      BY <2>1, <2>3
    <2>5. QED  BY <2>2, <2>3, <2>4, Zenon DEF EventsTrue
  <1>8. StreamsOK'
    BY <1>1, <1>2, Zenon DEF StreamsOK, StreamOK, Served, Waiting, ServedBy
  <1>9. QED  BY <1>5, <1>6, <1>7, <1>8 DEF CallInv

\* What an accepted connection leaves in the backlog, and the listening entry.
LEMMA AcceptTakes ==
    ASSUME CallInv, Accept
    PROVE  \E c \in Conns :
             /\ c = Head(backlog) /\ Waiting(c) /\ backlog' \in Seq(Conns)
             /\ Distinct(backlog')
             /\ \A b : Waiting(b)' <=> Waiting(b) /\ b # c
             /\ c \in server_open /\ ~Served(c) /\ life[c] # "new"
             /\ revents' \in [0 .. MaxConnections -> SUBSET {"IN", "OUT", "HUP"}]
             /\ \A j \in Slots : revents'[j] = revents[j]
             /\ revents'[listen_idx] = {}
  <1>1. /\ Types /\ Places /\ EventsTrue /\ StreamsOK  BY DEF CallInv
  <1>2. /\ backlog' = Tail(backlog) /\ "IN" \in revents[listen_idx]
        /\ revents' = [revents EXCEPT ![listen_idx] = @ \ {"IN"}]
    BY DEF Accept, At, Seen
  <1>3. backlog \in Seq(Conns) /\ backlog # <<>>
        /\ revents \in [0 .. MaxConnections -> SUBSET {"IN", "OUT", "HUP"}]
        /\ revents[listen_idx] \subseteq {"IN"}
    BY <1>1, <1>2 DEF Types, EventsTrue
  <1>4. PICK c : c = Head(backlog)  OBVIOUS
  <1>5. Distinct(backlog)  BY <1>1 DEF Places
  <1>6. PICK t : t = Tail(backlog)  OBVIOUS
  <1>7. /\ Head(backlog) \in Conns /\ t \in Seq(Conns) /\ Has(backlog, Head(backlog))
        /\ Distinct(t) /\ \A b : Has(t, b) <=> Has(backlog, b) /\ b # Head(backlog)
    BY <1>3, <1>5, <1>6, FirstTaken
  <1>8. backlog' = t  BY <1>2, <1>6
  <1>9. c \in Conns /\ Waiting(c) /\ backlog' \in Seq(Conns)
        /\ Distinct(backlog')
    BY <1>4, <1>7, <1>8 DEF Waiting
  <1>10. \A b : Waiting(b)' <=> Waiting(b) /\ b # c
    BY <1>4, <1>7, <1>8, Zenon DEF Waiting
  <1>11. c \in server_open /\ ~Served(c) /\ life[c] # "new"
    BY <1>1, <1>9 DEF Places
  <1>12. /\ revents' \in [0 .. MaxConnections -> SUBSET {"IN", "OUT", "HUP"}]
         /\ \A j \in Slots : revents'[j] = revents[j]
         /\ revents'[listen_idx] = {}
    BY <1>2, <1>3, SlotsListen
  <1>13. QED  BY <1>4, <1>9, <1>10, <1>11, <1>12

LEMMA AcceptStep ==
    ASSUME CallInv, Accept, UNCHANGED client
    PROVE  CallInv'
  <1>1. /\ Types /\ Places /\ EventsTrue /\ StreamsOK  BY DEF CallInv
  <1>2. PICK c \in Conns :
             /\ c = Head(backlog) /\ Waiting(c) /\ backlog' \in Seq(Conns)
             /\ Distinct(backlog')
             /\ \A b : Waiting(b)' <=> Waiting(b) /\ b # c
             /\ c \in server_open /\ ~Served(c) /\ life[c] # "new"
             /\ revents' \in [0 .. MaxConnections -> SUBSET {"IN", "OUT", "HUP"}]
             /\ \A j \in Slots : revents'[j] = revents[j]
             /\ revents'[listen_idx] = {}
    BY AcceptTakes
  <1>3. /\ UNCHANGED <<up, down, life, consuming, executed>>
        /\ Distinct(backlog')
        /\ server_open \in SUBSET Conns
        /\ sockets \in [Slots -> Entries \cup {NoSocket}]
    BY <1>1, <1>2 DEF Accept, Types
  <1>4. \A b \in Conns : Waiting(b)' <=> Waiting(b) /\ b # c  BY <1>2
  <1>5. \A j \in Slots : revents'[j] = revents[j]  BY <1>2
  <1>6. c \in server_open /\ ~Served(c) /\ life[c] # "new" /\ Waiting(c) /\ ~Waiting(c)'
    BY <1>2
  <1>7. CASE \E i \in Slots :
            /\ sockets[i] = NoSocket /\ \A j \in 0 .. i - 1 : sockets[j] # NoSocket
            /\ sockets' = [sockets EXCEPT ![i] = NewSocket(Head(backlog))]
            /\ UNCHANGED server_open
    <2>1. PICK i \in Slots : /\ sockets[i] = NoSocket
                             /\ sockets' = [sockets EXCEPT ![i] = NewSocket(c)]
                             /\ UNCHANGED server_open
      BY <1>2, <1>7
    <2>2. NewSocket(c) \in Entries /\ NewSocket(c).conn = c /\ NewSocket(c) # NoSocket
      BY NewEntry, ServerAssumption
    <2>3. sockets'[i] = NewSocket(c) /\ \A j \in Slots : j # i => sockets'[j] = sockets[j]
      BY <1>3, <2>1, Zenon
    <2>4. \A j \in Slots, b \in Conns :
            ServedBy(j, b)' <=> ServedBy(j, b) \/ (j = i /\ b = c)
      <3>1. TAKE j \in Slots, b \in Conns
      <3>2. CASE j = i  BY <2>1, <2>2, <2>3, <3>2 DEF ServedBy
      <3>3. CASE j # i  BY <2>3, <3>3 DEF ServedBy
      <3>4. QED  BY <3>2, <3>3
    <2>5. \A b \in Conns : Served(b)' <=> Served(b) \/ b = c
      BY <2>4, Zenon DEF Served
    <2>6. Types'
      <3>1. sockets' \in [Slots -> Entries \cup {NoSocket}]  BY <1>3, <2>1, <2>2
      <3>2. QED  BY <1>1, <1>2, <1>3, <2>1, <3>1, Zenon DEF Types
    <2>7. Places'
      <3>1. \A b \in Conns : b \in server_open' <=> Served(b)' \/ Waiting(b)'
        BY <1>1, <1>4, <1>6, <2>1, <2>5 DEF Places
      <3>2. \A b \in Conns : ~(Served(b)' /\ Waiting(b)')  BY <1>1, <1>4, <2>5 DEF Places
      <3>3. \A j, l \in Slots, b \in Conns : ServedBy(j, b)' /\ ServedBy(l, b)' => j = l
        <4>1. \A j \in Slots : ~ServedBy(j, c)  BY <1>6 DEF Served
        <4>2. QED  BY <1>1, <2>4, <4>1 DEF Places
      <3>4. \A b \in server_open' : life'[b] # "new"  BY <1>1, <1>3, <2>1 DEF Places
      <3>5. QED  BY <1>3, <3>1, <3>2, <3>3, <3>4 DEF Places
    <2>8. EventsTrue'
      <3>1. ASSUME NEW j \in Slots PROVE EventOK(j)'
        <4>1. EventOK(j)  BY <1>1 DEF EventsTrue
        <4>2. CASE j = i
          <5>1. revents'[j] = {} /\ sockets'[j] # NoSocket
            BY <1>5, <2>1, <2>2, <2>3, <4>1, <4>2 DEF EventOK
          <5>2. QED  BY <5>1 DEF EventOK
        <4>3. CASE j # i
          <5>1. sockets'[j] = sockets[j] /\ revents'[j] = revents[j]  BY <1>5, <2>3, <4>3
          <5>2. \A b \in Conns : ServedBy(j, b)' => ServedBy(j, b)  BY <2>4, <4>3
          <5>3. QED  BY <1>3, <4>1, <5>1, <5>2 DEF EventOK
        <4>4. QED  BY <4>2, <4>3
      <3>2. QED  BY <1>1, <1>2, <1>3, <3>1 DEF EventsTrue
    <2>9. StreamOK(c)'
      <3>1. StreamOK(c) /\ up[c] \in Seq(Units) /\ CallTyped(client[c])
        BY <1>1 DEF StreamsOK, Types
      <3>2. life[c] = "open" =>
              OpenOK(NewSocket(c), up[c], down[c], executed[c], client[c])
        BY <1>6, <3>1, NewlyServed DEF StreamOK
      <3>3. life[c] = "closed" => ClosedOK(NewSocket(c), up[c])  BY <1>6, <3>1 DEF StreamOK
      <3>4. \A j \in Slots : ServedBy(j, c)' => sockets'[j] = NewSocket(c)
        BY <1>6, <2>3, <2>4 DEF Served
      <3>5. Served(c)' /\ ~Waiting(c)'  BY <1>6, <2>5
      <3>6. QED  BY <1>3, <3>1, <3>2, <3>3, <3>4, <3>5 DEF StreamOK
    <2>10. \A b \in Conns \ {c} : Untouched(b)
      <3>1. TAKE b \in Conns \ {c}
      <3>2. \A j \in Slots : ServedBy(j, b) => sockets'[j] = sockets[j]
        BY <2>1, <2>3 DEF ServedBy
      <3>3. QED  BY <1>3, <1>4, <2>4, <3>2 DEF Untouched
    <2>11. StreamsOK'  BY <1>1, <2>9, <2>10, OthersKept
    <2>12. QED  BY <2>6, <2>7, <2>8, <2>11 DEF CallInv
  <1>8. CASE /\ \A i \in Slots : sockets[i] # NoSocket
             /\ server_open' = server_open \ {Head(backlog)}
             /\ UNCHANGED sockets
    <2>1. server_open' = server_open \ {c} /\ sockets' = sockets  BY <1>2, <1>8
    <2>2. \A j \in Slots, b \in Conns : ServedBy(j, b)' <=> ServedBy(j, b)
      BY <2>1 DEF ServedBy
    <2>3. \A b \in Conns : Served(b)' <=> Served(b)  BY <2>2 DEF Served
    <2>4. Types'
      <3>1. server_open' \in SUBSET Conns  BY <1>3, <2>1
      <3>2. QED  BY <1>1, <1>2, <1>3, <2>1, <3>1, Zenon DEF Types
    <2>5. Places'
      <3>1. \A b \in Conns : b \in server_open' <=> Served(b)' \/ Waiting(b)'
        BY <1>1, <1>4, <1>6, <2>1, <2>3 DEF Places
      <3>2. \A b \in Conns : ~(Served(b)' /\ Waiting(b)')  BY <1>1, <1>4, <2>3 DEF Places
      <3>3. \A j, l \in Slots, b \in Conns : ServedBy(j, b)' /\ ServedBy(l, b)' => j = l
        BY <1>1, <2>2 DEF Places
      <3>4. \A b \in server_open' : life'[b] # "new"  BY <1>1, <1>3, <2>1 DEF Places
      <3>5. QED  BY <1>3, <3>1, <3>2, <3>3, <3>4 DEF Places
    <2>6. EventsTrue'
      <3>1. ASSUME NEW j \in Slots PROVE EventOK(j)'
        <4>1. EventOK(j)  BY <1>1 DEF EventsTrue
        <4>2. QED  BY <1>3, <1>5, <2>1, <2>2, <4>1 DEF EventOK
      <3>2. QED  BY <1>1, <1>2, <1>3, <3>1 DEF EventsTrue
    <2>7. StreamOK(c)'
      <3>1. StreamOK(c)  BY <1>1 DEF StreamsOK
      <3>2. QED  BY <1>3, <1>6, <2>1, <2>2, <2>3, <3>1 DEF StreamOK
    <2>8. \A b \in Conns \ {c} : Untouched(b)  BY <1>3, <1>4, <2>1, <2>2 DEF Untouched
    <2>9. StreamsOK'  BY <1>1, <2>7, <2>8, OthersKept
    <2>10. QED  BY <2>4, <2>5, <2>6, <2>9 DEF CallInv
  <1>9. QED  BY <1>7, <1>8 DEF Accept

\* The types of an entry in use.
LEMMA ClosedEntryOK ==
    ASSUME NEW s \in Entries, NEW u \in Seq(Units), ClosedOK(s, u)
    PROVE  SocketOK(s)
  <1>1. s.buf \in Seq(Units) /\ s.data \in Seq(Units) /\ Orderly(s)
    BY EntryFields DEF ClosedOK
  <1>2. Len(s.queue) <= 2  BY <1>1, Zenon DEF Orderly, Size
  <1>3. CASE NothingComing(s, u)
    <2>1. s.buf = <<>> /\ s.cmd = NoOp /\ s.data = <<>>  BY <1>3 DEF NothingComing
    <2>2. Len(s.buf) <= BufferSize  BY <2>1 DEF BufferSize, CommandSize
    <2>3. QED  BY <1>2, <2>1, <2>2, Zenon DEF SocketOK
  <1>4. CASE \E op \in Ops, out \in Seq(Units) : CommandComing(s, u, op, out)
    <2>1. PICK op \in Ops, out \in Seq(Units) : CommandComing(s, u, op, out)  BY <1>4
    <2>2. Cat(s.buf, u) \in Seq(Units) /\ Size(Cat(s.buf, u)) = Size(s.buf) + Size(u)
          /\ Size(s.buf) \in Nat /\ Size(u) \in Nat /\ Size(out) \in Nat
      BY <1>1, CatFacts, SizeFacts
    <2>3. Size(Cat(Cat(s.buf, u), out)) = Size(s.buf) + Size(u) + Size(out)
      BY <2>2, CatFacts
    <2>4. Size(s.buf) + Size(u) + Size(out) = CommandSize
      BY <2>1, <2>3, CommandType DEF CommandComing
    <2>5. Size(s.buf) <= BufferSize  BY <2>2, <2>4 DEF BufferSize, CommandSize
    <2>6. Len(s.buf) <= BufferSize  BY <2>5, Zenon DEF Size
    <2>7. QED  BY <1>2, <2>1, <2>6, Zenon DEF SocketOK, CommandComing
  <1>5. CASE \E op \in Ops, out \in Seq(Units) : DataComing(s, u, op, out)
    <2>1. PICK op \in Ops, out \in Seq(Units) : DataComing(s, u, op, out)  BY <1>5
    <2>2. s.buf = <<>> /\ s.cmd = op /\ Size(s.data) < op.size /\ op # NoOp
      BY <2>1, OpFields DEF DataComing
    <2>3. Len(s.buf) <= BufferSize  BY <2>2 DEF BufferSize, CommandSize
    <2>4. Len(s.data) < s.cmd.size /\ s.cmd # NoOp  BY <2>2, Zenon DEF Size
    <2>5. QED  BY <1>2, <2>3, <2>4, Zenon DEF SocketOK
  <1>6. QED  BY <1>3, <1>4, <1>5 DEF ClosedOK

\* All that is known of an entry in use and of its connection.
InUse(i, s, c) ==
    /\ i \in Slots /\ s = sockets[i] /\ c \in Conns /\ s.conn = c /\ ServedBy(i, c)
    /\ s \in Entries /\ SocketOK(s) /\ life[c] \in {"open", "closed"}
    /\ up[c] \in Seq(Units) /\ down[c] \in Messages /\ Len(down[c]) <= Room
    /\ executed[c] \in Seq(Executions) /\ CallTyped(client[c])
    /\ life[c] = "open" => OpenOK(s, up[c], down[c], executed[c], client[c])
    /\ ClosedOK(s, up[c])
    /\ life[c] = "closed" => down[c] = <<>>
    /\ revents[i] \subseteq {"IN", "OUT", "HUP"}
    /\ "IN" \in revents[i] => up[c] # <<>> \/ life[c] = "closed"
    /\ "OUT" \in revents[i] => WantsToWrite(s)
    /\ "HUP" \in revents[i] => life[c] = "closed"
    /\ up = [up EXCEPT ![c] = up[c]] /\ down = [down EXCEPT ![c] = down[c]]
    /\ executed = [executed EXCEPT ![c] = executed[c]]
    /\ revents = [revents EXCEPT ![i] = revents[i]]
    /\ sockets = [sockets EXCEPT ![i] = s]

LEMMA EntryInUse ==
    ASSUME CallInv, NEW i \in Slots, sockets[i] # NoSocket
    PROVE  InUse(i, sockets[i], sockets[i].conn)
  <1>1. /\ Types /\ Places /\ EventsTrue /\ StreamsOK  BY DEF CallInv
  <1>2. PICK s : s = sockets[i]  OBVIOUS
  <1>3. s \in Entries  BY <1>1, <1>2 DEF Types
  <1>4. PICK c \in Conns : c = s.conn  BY <1>3, EntryFields
  <1>5. ServedBy(i, c)  BY <1>2, <1>4 DEF ServedBy
  <1>6. c \in server_open  BY <1>1, <1>5 DEF Places, Served
  <1>7. /\ life[c] \in {"open", "closed"} /\ up[c] \in Seq(Units) /\ down[c] \in Messages
        /\ Len(down[c]) <= Room /\ executed[c] \in Seq(Executions) /\ CallTyped(client[c])
    BY <1>1, <1>6 DEF Types, Places
  <1>8. StreamOK(c) /\ EventOK(i)  BY <1>1 DEF StreamsOK, EventsTrue
  <1>9. /\ life[c] = "open" => OpenOK(s, up[c], down[c], executed[c], client[c])
        /\ life[c] = "closed" => ClosedOK(s, up[c]) /\ down[c] = <<>>
    BY <1>2, <1>5, <1>8 DEF StreamOK
  <1>10. ClosedOK(s, up[c])
    <2>1. CASE life[c] = "open"
      <3>1. OpenOK(s, up[c], down[c], executed[c], client[c])  BY <1>9, <2>1
      <3>2. QED  BY <1>3, <1>7, <3>1, ClientGone
    <2>2. QED  BY <1>7, <1>9, <2>1
  <1>11. SocketOK(s)  BY <1>3, <1>7, <1>10, ClosedEntryOK
  <1>12. /\ revents[i] \subseteq {"IN", "OUT", "HUP"}
         /\ "IN" \in revents[i] => up[c] # <<>> \/ life[c] = "closed"
         /\ "OUT" \in revents[i] => WantsToWrite(s)
         /\ "HUP" \in revents[i] => life[c] = "closed"
    <2>1. revents[i] \subseteq {"IN", "OUT", "HUP"}  BY <1>1, SlotsListen DEF Types
    <2>2. QED  BY <1>2, <1>5, <1>8, <2>1 DEF EventOK
  <1>13. /\ up = [up EXCEPT ![c] = up[c]] /\ down = [down EXCEPT ![c] = down[c]]
         /\ executed = [executed EXCEPT ![c] = executed[c]]
         /\ revents = [revents EXCEPT ![i] = revents[i]]
         /\ sockets = [sockets EXCEPT ![i] = s]
    BY <1>1, <1>2, SlotsListen DEF Types
  <1>14. InUse(i, s, c)
    BY <1>2, <1>3, <1>4, <1>5, <1>7, <1>9, <1>10, <1>11, <1>12, <1>13, Zenon DEF InUse
  <1>15. QED  BY <1>2, <1>4, <1>14, Zenon

LEMMA EventInUse ==
    ASSUME CallInv, NEW i \in Slots, NEW ev, At(i, ev)
    PROVE  /\ sockets[i] # NoSocket /\ InUse(i, sockets[i], sockets[i].conn)
           /\ ev \in revents[i] /\ consuming = {}
  <1>1. ev \in revents[i] /\ consuming = {}  BY DEF At
  <1>2. sockets[i] # NoSocket  BY <1>1 DEF CallInv, EventsTrue, EventOK
  <1>3. QED  BY <1>1, <1>2, EntryInUse

LEMMA HangUpStep ==
    ASSUME CallInv, NEW i \in Slots, HangUp(i), UNCHANGED client
    PROVE  CallInv'
  <1>1. At(i, "IN") /\ up[sockets[i].conn] = <<>> /\ CloseSocket(i)
        /\ UNCHANGED <<up, down, life, backlog, consuming, executed>>
    BY DEF HangUp
  <1>2. PICK c : c = sockets[i].conn  OBVIOUS
  <1>3. InUse(i, sockets[i], c) /\ "IN" \in revents[i] /\ consuming = {}
    BY <1>1, <1>2, EventInUse
  <1>4. c \in Conns /\ ServedBy(i, c) /\ life[c] = "closed"
    BY <1>1, <1>2, <1>3 DEF InUse
  <1>5. QED  BY <1>1, <1>3, <1>4, ClosingStep

LEMMA HangUpEventStep ==
    ASSUME CallInv, NEW i \in Slots, HangUpEvent(i), UNCHANGED client
    PROVE  CallInv'
  <1>1. At(i, "HUP") /\ CloseSocket(i)
        /\ UNCHANGED <<up, down, life, backlog, consuming, executed>>
    BY DEF HangUpEvent
  <1>2. PICK c : c = sockets[i].conn  OBVIOUS
  <1>3. InUse(i, sockets[i], c) /\ "HUP" \in revents[i] /\ consuming = {}
    BY <1>1, <1>2, EventInUse
  <1>4. c \in Conns /\ ServedBy(i, c) /\ life[c] = "closed"  BY <1>3 DEF InUse
  <1>5. QED  BY <1>1, <1>3, <1>4, ClosingStep

LEMMA ReceiveMessageStep ==
    ASSUME CallInv, NEW i \in Slots, ReceiveMessage(i), UNCHANGED client
    PROVE  CallInv'
  <1>1. PICK s, c, n :
          /\ s = sockets[i] /\ c = s.conn /\ n = Min({BufferSize - Len(s.buf), Len(up[c])})
    OBVIOUS
  <1>2. /\ At(i, "IN") /\ s.cmd = NoOp /\ up[c] # <<>>
        /\ UNCHANGED <<life, server_open, backlog, client, down, executed>>
        /\ consuming' = {i} /\ Seen(i, "IN")
    BY <1>1, Zenon DEF ReceiveMessage
  <1>3. /\ up' = [up EXCEPT ![c] = SubSeq(up[c], n + 1, Len(up[c]))]
        /\ sockets' = [sockets EXCEPT ![i] =
             [s EXCEPT !.buf = s.buf \o SubSeq(up[c], 1, n)]]
    BY <1>1, Zenon DEF ReceiveMessage
  <1>4. InUse(i, s, c)  BY <1>1, <1>2, EventInUse
  <1>5. /\ s \in Entries /\ c \in Conns /\ ServedBy(i, c) /\ s.conn = c
        /\ up[c] \in Seq(Units) /\ down[c] \in Messages /\ Len(down[c]) <= Room
        /\ executed[c] \in Seq(Executions) /\ CallTyped(client[c])
        /\ s.buf \in Seq(Units)
    BY <1>4, EntryFields DEF InUse
  <1>6. n \in 0 .. Len(up[c])
    <2>1. Len(s.buf) \in Nat /\ Len(up[c]) \in Nat  BY <1>5, LenProperties
    <2>2. BufferSize \in Nat /\ Len(s.buf) <= BufferSize
      BY <1>4 DEF InUse, SocketOK, BufferSize, CommandSize
    <2>3. PICK a \in Nat, b \in Nat : a = BufferSize - Len(s.buf) /\ b = Len(up[c])
      BY <2>1, <2>2
    <2>4. n = Min({a, b})  BY <1>1, <2>3, Zenon
    <2>5. n \in 0 .. b  BY <2>4, MinOfTwo
    <2>6. QED  BY <2>3, <2>5
  <1>7. PICK u \in Seq(Units) : u = up[c]  BY <1>5
  <1>8. /\ SubSeq(u, 1, n) \in Seq(Units) /\ SubSeq(u, n + 1, Len(u)) \in Seq(Units)
        /\ Cat(SubSeq(u, 1, n), SubSeq(u, n + 1, Len(u))) = u
    BY <1>6, <1>7, Cut, Zenon
  <1>9. PICK x \in Seq(Units), v \in Seq(Units) :
          x = SubSeq(u, 1, n) /\ v = SubSeq(u, n + 1, Len(u)) /\ Cat(x, v) = u
    BY <1>8, Zenon
  <1>10. PICK w : w = Cat(s.buf, x)  OBVIOUS
  <1>11. PICK t : t = WithBuffer(s, w)  OBVIOUS
  <1>12. up' = [up EXCEPT ![c] = v] /\ sockets' = [sockets EXCEPT ![i] = t]
    BY <1>3, <1>7, <1>9, <1>10, <1>11, Zenon DEF Cat, WithBuffer
  <1>13. Cat(x, v) = u /\ s.cmd = NoOp /\ u # <<>>  BY <1>2, <1>7, <1>9, Zenon
  <1>14. /\ t \in Entries /\ t.conn = s.conn
         /\ WantsToWrite(t) <=> WantsToWrite(s)
         /\ \A d, e, k : CallTyped(k) /\ OpenOK(s, u, d, e, k) => OpenOK(t, v, d, e, k)
         /\ ClosedOK(s, u) => ClosedOK(t, v)
    BY <1>5, <1>10, <1>11, <1>13, MessageReceived
  <1>15. /\ life[c] = "open" => OpenOK(t, v, down[c], executed[c], client[c])
         /\ life[c] = "closed" => ClosedOK(t, v) /\ down[c] = <<>>
    BY <1>4, <1>5, <1>7, <1>14 DEF InUse
  <1>16. PICK p : p = revents[i] \ {"IN"}  OBVIOUS
  <1>17. /\ p \subseteq revents[i] /\ "IN" \notin p /\ ("OUT" \in p => WantsToWrite(t))
         /\ revents' = [revents EXCEPT ![i] = p]
    BY <1>2, <1>4, <1>14, <1>16 DEF InUse, Seen
  <1>18. /\ down' = [down EXCEPT ![c] = down[c]]
         /\ executed' = [executed EXCEPT ![c] = executed[c]]
         /\ UNCHANGED <<life, server_open, backlog, client>> /\ consuming' \subseteq {i}
    BY <1>2, <1>4 DEF InUse
  <1>19. PICK d, e : d = down[c] /\ e = executed[c]  OBVIOUS
  <1>20. ServedStep(i, c, t, v, d, e, p)
    BY <1>5, <1>12, <1>14, <1>15, <1>17, <1>18, <1>19 DEF ServedStep
  <1>21. QED  BY <1>20, ServingStep

LEMMA AppendOne ==
    ASSUME NEW x
    PROVE  Append(<<>>, x) = <<x>>
  OBVIOUS

\* One more execution of a connection.
Executed(e, op, w, r) == Append(e, [op |-> op, data |-> w, result |-> r])

\* HHAL is called for no client, or once for one that waits for its answer.
ExecutesFor(c, e) ==
    /\ c \in Conns /\ executed' = [executed EXCEPT ![c] = e]
    /\ life[c] = "open" => /\ client[c].stage # "idle" /\ executed[c] = <<>>
                           /\ \E r \in Results : e = <<Execution(client[c].op, r)>>

ExecutesOnce == UNCHANGED executed \/ \E c, e : ExecutesFor(c, e)

LEMMA ExecutedType ==
    ASSUME NEW e \in Seq(Executions), NEW op \in Ops, NEW w \in Seq(Units), NEW r \in Results
    PROVE  Executed(e, op, w, r) \in Seq(Executions)
  <1>1. [op |-> op, data |-> w, result |-> r] \in Executions  BY DEF Executions
  <1>2. QED  BY <1>1, AppendProperties DEF Executed

LEMMA ExecutedOnce ==
    ASSUME NEW e, e = <<>>, NEW op, NEW r, NEW w,
           w = IF op.kind = "write" THEN Payload(op) ELSE <<>>
    PROVE  Executed(e, op, w, r) = <<Execution(op, r)>>
  <1>1. Execution(op, r) = [op |-> op, data |-> w, result |-> r]
    BY Zenon DEF Execution
  <1>2. QED  BY <1>1, AppendOne, Zenon DEF Executed

\* What ReceiveData does.
LEMMA DataPieces ==
    ASSUME CallInv, NEW i \in Slots, ReceiveData(i), NEW s, s = sockets[i], NEW c, c = s.conn
    PROVE  /\ InUse(i, s, c) /\ "IN" \in revents[i] /\ consuming = {}
           /\ s.cmd \in Ops /\ up[c] # <<>>
           /\ UNCHANGED <<down, life, server_open, backlog, consuming>> /\ Seen(i, "IN")
           /\ \E x, v, w \in Seq(Units) :
                /\ Cat(x, v) = up[c] /\ w = Cat(s.data, x) /\ Size(w) <= s.cmd.size
                /\ up' = [up EXCEPT ![c] = v]
                /\ \/ /\ Size(w) < s.cmd.size /\ UNCHANGED executed
                      /\ sockets' = [sockets EXCEPT ![i] = WithData(s, w)]
                   \/ /\ Size(w) >= s.cmd.size
                      /\ \E r \in Results :
                           /\ executed' = [executed EXCEPT ![c] = Executed(executed[c], s.cmd, w, r)]
                           /\ sockets' = [sockets EXCEPT ![i] = Done(WithData(s, w), r)]
  <1>1. PICK n : n = Min({s.cmd.size - Len(s.data), Len(up[c])})  OBVIOUS
  <1>2. PICK x, v, w : /\ x = SubSeq(up[c], 1, n) /\ v = SubSeq(up[c], n + 1, Len(up[c]))
                       /\ w = Cat(s.data, x)
    OBVIOUS
  <1>3. /\ At(i, "IN") /\ s.cmd # NoOp /\ up[c] # <<>>
        /\ UNCHANGED <<down, life, server_open, backlog, consuming>> /\ Seen(i, "IN")
    BY Zenon DEF ReceiveData
  <1>4. up' = [up EXCEPT ![c] = v]  BY <1>1, <1>2, Zenon DEF ReceiveData
  <1>5. \/ /\ Size(w) < s.cmd.size
           /\ sockets' = [sockets EXCEPT ![i] = WithData(s, w)]
           /\ UNCHANGED executed
        \/ /\ Size(w) = s.cmd.size
           /\ \E r \in Results :
                /\ Executes(s, s.cmd, w, r)
                /\ sockets' = [sockets EXCEPT ![i] = Done(WithData(s, w), r)]
    BY <1>1, <1>2, Zenon DEF ReceiveData, Cat, Size, WithData
  <1>6. InUse(i, s, c) /\ "IN" \in revents[i] /\ consuming = {}  BY <1>3, EventInUse
  <1>7. /\ s \in Entries /\ up[c] \in Seq(Units) /\ s.cmd \in Ops /\ s.data \in Seq(Units)
        /\ s.cmd.size \in Nat
    BY <1>3, <1>6, EntryFields, OpFields DEF InUse
  <1>8. n \in 0 .. Len(up[c]) /\ n <= s.cmd.size - Len(s.data)
    <2>1. Len(s.data) \in Nat /\ Len(up[c]) \in Nat  BY <1>7, LenProperties
    <2>2. Len(s.data) < s.cmd.size  BY <1>3, <1>6 DEF InUse, SocketOK
    <2>3. PICK a \in Nat, b \in Nat : a = s.cmd.size - Len(s.data) /\ b = Len(up[c])
      <3>1. PICK l \in Nat, m \in Nat : l = Len(s.data) /\ m = s.cmd.size  BY <1>7, <2>1
      <3>2. l < m  BY <2>2, <3>1, Zenon
      <3>3. m - l \in Nat  BY <3>2
      <3>4. QED  BY <2>1, <3>1, <3>3, Zenon
    <2>4. n = Min({a, b})  BY <1>1, <2>3, Zenon
    <2>5. n \in 0 .. b /\ n <= a  BY <2>4, MinOfTwo
    <2>6. QED  BY <2>3, <2>5
  <1>9. x \in Seq(Units) /\ v \in Seq(Units) /\ Cat(x, v) = up[c] /\ Size(x) = n
    <2>1. PICK u \in Seq(Units) : u = up[c]  BY <1>7
    <2>2. n \in 0 .. Len(u) /\ x = SubSeq(u, 1, n) /\ v = SubSeq(u, n + 1, Len(u))
      BY <1>2, <1>8, <2>1, Zenon
    <2>3. /\ SubSeq(u, 1, n) \in Seq(Units) /\ SubSeq(u, n + 1, Len(u)) \in Seq(Units)
          /\ Cat(SubSeq(u, 1, n), SubSeq(u, n + 1, Len(u))) = u
          /\ Size(SubSeq(u, 1, n)) = n
      BY <2>2, Cut, Zenon
    <2>4. QED  BY <2>1, <2>2, <2>3, Zenon
  <1>10. w \in Seq(Units) /\ Size(w) = Size(s.data) + n
    <2>1. w = Cat(s.data, x)  BY <1>2, Zenon
    <2>2. s.data \in Seq(Units) /\ x \in Seq(Units) /\ Size(x) = n  BY <1>7, <1>9, Zenon
    <2>3. QED  BY <2>1, <2>2, CatFacts
  <1>11. Size(w) <= s.cmd.size
    <2>1. n <= s.cmd.size - Size(s.data)  BY <1>8, Zenon DEF Size
    <2>2. Size(s.data) \in Nat /\ n \in Int  BY <1>7, <1>8, SizeFacts, LenProperties
    <2>3. QED  BY <1>7, <1>10, <2>1, <2>2
  <1>12. CASE /\ Size(w) < s.cmd.size
              /\ sockets' = [sockets EXCEPT ![i] = WithData(s, w)]
              /\ UNCHANGED executed
    BY <1>2, <1>3, <1>4, <1>6, <1>7, <1>9, <1>10, <1>11, <1>12, Zenon
  <1>13. CASE /\ Size(w) = s.cmd.size
              /\ \E r \in Results :
                   /\ Executes(s, s.cmd, w, r)
                   /\ sockets' = [sockets EXCEPT ![i] = Done(WithData(s, w), r)]
    <2>1. PICK r \in Results : /\ Executes(s, s.cmd, w, r)
                               /\ sockets' = [sockets EXCEPT ![i] = Done(WithData(s, w), r)]
      BY <1>13
    <2>2. executed' = [executed EXCEPT ![c] = Executed(executed[c], s.cmd, w, r)]
      BY <2>1, Zenon DEF Executes, Executed
    <2>3. Size(w) >= s.cmd.size  BY <1>7, <1>13
    <2>4. QED
      BY <1>2, <1>3, <1>4, <1>6, <1>7, <1>9, <1>10, <1>11, <2>1, <2>2, <2>3, Zenon
  <1>14. QED  BY <1>5, <1>12, <1>13

LEMMA ReceiveDataStep ==
    ASSUME ReadsNotEmpty, CallInv, NEW i \in Slots, ReceiveData(i), UNCHANGED client
    PROVE  CallInv' /\ ExecutesOnce
  <1>1. PICK s, c : s = sockets[i] /\ c = s.conn  OBVIOUS
  <1>2. /\ InUse(i, s, c) /\ "IN" \in revents[i] /\ consuming = {}
        /\ s.cmd \in Ops /\ up[c] # <<>>
        /\ UNCHANGED <<down, life, server_open, backlog, consuming>> /\ Seen(i, "IN")
    BY <1>1, DataPieces
  <1>3. PICK x, v, w \in Seq(Units) :
                /\ Cat(x, v) = up[c] /\ w = Cat(s.data, x) /\ Size(w) <= s.cmd.size
                /\ up' = [up EXCEPT ![c] = v]
                /\ \/ /\ Size(w) < s.cmd.size /\ UNCHANGED executed
                      /\ sockets' = [sockets EXCEPT ![i] = WithData(s, w)]
                   \/ /\ Size(w) >= s.cmd.size
                      /\ \E r \in Results :
                           /\ executed' = [executed EXCEPT ![c] = Executed(executed[c], s.cmd, w, r)]
                           /\ sockets' = [sockets EXCEPT ![i] = Done(WithData(s, w), r)]
    BY <1>1, DataPieces
  <1>4. PICK u, d, e, k : u = up[c] /\ d = down[c] /\ e = executed[c] /\ k = client[c]
    OBVIOUS
  <1>5. /\ s \in Entries /\ c \in Conns /\ ServedBy(i, c) /\ s.conn = c
        /\ u \in Seq(Units) /\ d \in Messages /\ Len(d) <= Room
        /\ e \in Seq(Executions) /\ CallTyped(k) /\ life[c] \in {"open", "closed"}
        /\ down = [down EXCEPT ![c] = d] /\ executed = [executed EXCEPT ![c] = e]
    BY <1>2, <1>4 DEF InUse
  <1>6. /\ life[c] = "open" => OpenOK(s, u, d, e, k)
        /\ ClosedOK(s, u)
        /\ life[c] = "closed" => d = <<>>
        /\ "OUT" \in revents[i] => WantsToWrite(s)
    BY <1>2, <1>4 DEF InUse
  <1>7. PICK p : p = revents[i] \ {"IN"}  OBVIOUS
  <1>8. /\ p \subseteq revents[i] /\ "IN" \notin p /\ ("OUT" \in p => WantsToWrite(s))
        /\ revents' = [revents EXCEPT ![i] = p]
    BY <1>2, <1>6, <1>7 DEF Seen
  <1>9. /\ UNCHANGED <<life, server_open, backlog, client>> /\ consuming' \subseteq {i}
        /\ down' = [down EXCEPT ![c] = d] /\ i \in Slots
        /\ s.cmd # NoOp /\ u # <<>> /\ Cat(x, v) = u
        /\ up' = [up EXCEPT ![c] = v]
    BY <1>2, <1>3, <1>4, <1>5, OpFields
  <1>10. CASE /\ Size(w) < s.cmd.size /\ UNCHANGED executed
              /\ sockets' = [sockets EXCEPT ![i] = WithData(s, w)]
    <2>1. PICK t : t = WithData(s, w)  OBVIOUS
    <2>2. w = Cat(s.data, x) /\ Size(w) < s.cmd.size  BY <1>3, <1>10
    <2>3. /\ t \in Entries /\ t.conn = s.conn
          /\ WantsToWrite(t) <=> WantsToWrite(s)
          /\ OpenOK(s, u, d, e, k) => OpenOK(t, v, d, e, k)
          /\ ClosedOK(s, u) => ClosedOK(t, v)
      BY <1>5, <1>9, <2>1, <2>2, DataReceived
    <2>4. sockets' = [sockets EXCEPT ![i] = t] /\ executed' = [executed EXCEPT ![c] = e]
      BY <1>5, <1>10, <2>1
    <2>5. ServedStep(i, c, t, v, d, e, p)
      BY <1>4, <1>5, <1>6, <1>8, <1>9, <2>3, <2>4 DEF ServedStep
    <2>6. CallInv'  BY <2>5, ServingStep
    <2>7. QED  BY <1>10, <2>6 DEF ExecutesOnce
  <1>11. CASE /\ Size(w) >= s.cmd.size
              /\ \E r \in Results :
                   /\ executed' = [executed EXCEPT ![c] = Executed(executed[c], s.cmd, w, r)]
                   /\ sockets' = [sockets EXCEPT ![i] = Done(WithData(s, w), r)]
    <2>1. PICK r \in Results :
                   /\ executed' = [executed EXCEPT ![c] = Executed(executed[c], s.cmd, w, r)]
                   /\ sockets' = [sockets EXCEPT ![i] = Done(WithData(s, w), r)]
      BY <1>11
    <2>2. PICK t, f : t = Done(WithData(s, w), r) /\ f = Executed(e, s.cmd, w, r)  OBVIOUS
    <2>3. w = Cat(s.data, x) /\ Size(w) >= s.cmd.size  BY <1>3, <1>11
    <2>4. /\ t \in Entries /\ t.conn = s.conn /\ (WantsToWrite(s) => WantsToWrite(t))
          /\ OpenOK(s, u, d, e, k) =>
               /\ e = <<>> /\ k.op = s.cmd /\ k.op.kind = "write" /\ w = Payload(k.op)
               /\ OpenOK(t, v, d, <<Execution(k.op, r)>>, k)
          /\ ClosedOK(s, u) => ClosedOK(t, v)
      BY <1>5, <1>9, <2>2, <2>3, DataHandled
    <2>5. /\ f \in Seq(Executions)
          /\ OpenOK(s, u, d, e, k) => f = <<Execution(k.op, r)>>
      <3>1. s.cmd \in Ops /\ w \in Seq(Units)  BY <1>2
      <3>2. f \in Seq(Executions)  BY <1>5, <2>2, <3>1, ExecutedType
      <3>3. ASSUME OpenOK(s, u, d, e, k) PROVE f = <<Execution(k.op, r)>>
        <4>1. e = <<>> /\ k.op = s.cmd /\ w = IF s.cmd.kind = "write" THEN Payload(s.cmd) ELSE <<>>
          BY <2>4, <3>3
        <4>2. Executed(e, s.cmd, w, r) = <<Execution(s.cmd, r)>>
          BY <4>1, ExecutedOnce, Zenon
        <4>3. QED  BY <2>2, <4>1, <4>2, Zenon
      <3>4. QED  BY <3>2, <3>3
    <2>6. /\ sockets' = [sockets EXCEPT ![i] = t] /\ executed' = [executed EXCEPT ![c] = f]
      BY <1>4, <2>1, <2>2
    <2>7. /\ life[c] = "open" => OpenOK(t, v, d, f, k)
          /\ life[c] = "closed" => ClosedOK(t, v) /\ d = <<>>
      BY <1>6, <2>4, <2>5
    <2>8. ServedStep(i, c, t, v, d, f, p)
      BY <1>4, <1>5, <1>8, <1>9, <2>4, <2>5, <2>6, <2>7 DEF ServedStep
    <2>9. CallInv'  BY <2>8, ServingStep
    <2>10. OpenOK(s, u, d, e, k) => k.stage # "idle"
      BY <1>9 DEF OpenOK, Between, NothingComing, Commanded, Acknowledged, SendingData,
         Answered, Resting, Reading
    <2>11. ExecutesFor(c, f)
      BY <1>4, <1>5, <1>6, <2>4, <2>5, <2>6, <2>10 DEF ExecutesFor
    <2>12. QED  BY <2>9, <2>11 DEF ExecutesOnce
  <1>12. QED  BY <1>3, <1>10, <1>11

\* What Consume does with a whole command.
LEMMA CommandTaken ==
    ASSUME CallInv, NEW i \in Slots, i \in consuming, ConsumeCommand(i),
           NEW s, s = sockets[i], NEW c, c = s.conn
    PROVE  \E op \in Ops :
             /\ InUse(i, s, c) /\ Whole(s, up[c], op) /\ consuming' \subseteq {i}
             /\ life[c] = "open" =>
                  LET k == client[c]
                  IN  /\ k.op = op /\ k.stage = "answer" /\ k.out = <<>> /\ k.need = 1
                      /\ executed[c] = <<>> /\ Going(s, down[c]) = <<>>
             /\ \/ /\ op.kind = "write" /\ UNCHANGED executed
                   /\ sockets' = [sockets EXCEPT ![i] =
                        IF op.size > 0 THEN Expecting(s, op) ELSE CarriedOut(s, <<Ack>>)]
                \/ /\ op.kind # "write"
                   /\ \E r \in Results :
                        /\ executed' = [executed EXCEPT ![c] = Executed(executed[c], op, <<>>, r)]
                        /\ sockets' = [sockets EXCEPT ![i] = CarriedOut(s, Answer(op, r))]
  <1>1. sockets[i] # NoSocket  BY DEF CallInv, EventsTrue, EventOK
  <1>2. InUse(i, s, c)  BY <1>1, EntryInUse
  <1>3. /\ s \in Entries /\ up[c] \in Seq(Units) /\ ClosedOK(s, up[c]) /\ down[c] \in Messages
        /\ CallTyped(client[c])
        /\ life[c] = "open" => OpenOK(s, up[c], down[c], executed[c], client[c])
    BY <1>2 DEF InUse
  <1>4. Len(s.buf) >= CommandSize  BY DEF ConsumeCommand
  <1>5. PICK op \in Ops : Whole(s, up[c], op)  BY <1>3, <1>4, CommandArrived
  <1>6. s.buf[1][1] = op /\ SubSeq(s.buf, CommandSize + 1, Len(s.buf)) = <<>>
    BY <1>3, <1>5, WholeRead
  <1>7. consuming' \subseteq {i}  BY DEF ConsumeCommand
  <1>8. ASSUME life[c] = "open"
        PROVE  LET k == client[c]
               IN  /\ k.op = op /\ k.stage = "answer" /\ k.out = <<>> /\ k.need = 1
                   /\ executed[c] = <<>> /\ Going(s, down[c]) = <<>>
    <2>1. PICK k, d, e, u : k = client[c] /\ d = down[c] /\ e = executed[c] /\ u = up[c]
      OBVIOUS
    <2>2. CallTyped(k) /\ d \in Messages /\ u \in Seq(Units) /\ OpenOK(s, u, d, e, k)
      BY <1>3, <1>8, <2>1
    <2>3. /\ Whole(s, u, k.op) /\ k.stage = "answer" /\ k.out = <<>> /\ k.need = 1
          /\ e = <<>> /\ Going(s, d) = <<>>
      BY <1>3, <1>4, <2>2, CommandArrived
    <2>4. s.buf[1][1] = k.op  BY <1>3, <2>3, WholeRead
    <2>5. QED  BY <1>6, <2>1, <2>3, <2>4
  <1>9. s.queue = <<>>  BY <1>5 DEF Whole
  <1>10. Handle(i, op)  BY <1>6, Zenon DEF ConsumeCommand
  <1>11. \/ /\ op.kind = "write"
            /\ sockets' = [sockets EXCEPT ![i] =
                 IF op.size > 0
                 THEN [s EXCEPT !.queue = Append(@, Ack), !.cmd = op,
                                !.data = <<>>, !.buf = <<>>]
                 ELSE [s EXCEPT !.queue = Append(@, Ack), !.buf = <<>>]]
            /\ UNCHANGED executed
         \/ /\ op.kind # "write"
            /\ \E r \in Results :
                 /\ Executes(s, op, <<>>, r)
                 /\ sockets' = [sockets EXCEPT ![i] =
                      [s EXCEPT !.buf = <<>>, !.queue = @ \o Answer(op, r)]]
    BY <1>6, <1>10, Zenon DEF Handle
  <1>12. CASE /\ op.kind = "write"
              /\ sockets' = [sockets EXCEPT ![i] =
                   IF op.size > 0
                   THEN [s EXCEPT !.queue = Append(@, Ack), !.cmd = op,
                                  !.data = <<>>, !.buf = <<>>]
                   ELSE [s EXCEPT !.queue = Append(@, Ack), !.buf = <<>>]]
              /\ UNCHANGED executed
    <2>1. Append(s.queue, Ack) = <<Ack>>  BY <1>9, AppendOne, Zenon
    <2>2. [s EXCEPT !.queue = Append(@, Ack), !.cmd = op, !.data = <<>>, !.buf = <<>>]
            = Expecting(s, op)
      BY <2>1, Zenon DEF Expecting
    <2>3. [s EXCEPT !.queue = Append(@, Ack), !.buf = <<>>] = CarriedOut(s, <<Ack>>)
      <3>1. PICK q : q = <<Ack>>  OBVIOUS
      <3>2. [s EXCEPT !.queue = Append(@, Ack), !.buf = <<>>] = [s EXCEPT !.queue = q, !.buf = <<>>]
        BY <2>1, <3>1, Zenon
      <3>3. [s EXCEPT !.queue = q, !.buf = <<>>] = [s EXCEPT !.buf = <<>>, !.queue = q]
        BY <1>3 DEF Entries
      <3>4. QED  BY <3>1, <3>2, <3>3, Zenon DEF CarriedOut
    <2>4. sockets' = [sockets EXCEPT ![i] =
            IF op.size > 0 THEN Expecting(s, op) ELSE CarriedOut(s, <<Ack>>)]
      BY <1>12, <2>2, <2>3, Zenon
    <2>5. QED  BY <1>2, <1>5, <1>7, <1>8, <1>12, <2>4, Zenon
  <1>13. CASE /\ op.kind # "write"
              /\ \E r \in Results :
                   /\ Executes(s, op, <<>>, r)
                   /\ sockets' = [sockets EXCEPT ![i] =
                        [s EXCEPT !.buf = <<>>, !.queue = @ \o Answer(op, r)]]
    <2>1. PICK r \in Results :
                   /\ Executes(s, op, <<>>, r)
                   /\ sockets' = [sockets EXCEPT ![i] =
                        [s EXCEPT !.buf = <<>>, !.queue = @ \o Answer(op, r)]]
      BY <1>13
    <2>2. executed' = [executed EXCEPT ![c] = Executed(executed[c], op, <<>>, r)]
      BY <2>1, Zenon DEF Executes, Executed
    <2>3. s.queue \o Answer(op, r) = Answer(op, r)
      <3>1. s.queue \o Answer(op, r) = <<>> \o Answer(op, r)  BY <1>9, Zenon
      <3>2. Answer(op, r) \in Seq(Messages)  BY <1>5, AnswerSeq
      <3>3. QED  BY <3>1, <3>2, ConcatEmptySeq, Zenon
    <2>4. sockets' = [sockets EXCEPT ![i] = CarriedOut(s, Answer(op, r))]
      BY <2>1, <2>3, Zenon DEF CarriedOut
    <2>5. QED  BY <1>2, <1>5, <1>7, <1>8, <1>13, <2>2, <2>4, Zenon
  <1>14. QED  BY <1>11, <1>12, <1>13

LEMMA ConsumeStep ==
    ASSUME ReadsNotEmpty, CallInv, NEW i \in Slots, Consume(i), UNCHANGED client
    PROVE  CallInv' /\ ExecutesOnce
  <1>1. /\ i \in consuming /\ (ConsumePart(i) \/ ConsumeCommand(i))
        /\ UNCHANGED <<up, down, life, server_open, backlog, revents>>
    BY DEF Consume
  <1>2. sockets[i] # NoSocket  BY <1>1 DEF CallInv, EventsTrue, EventOK
  <1>3. PICK s, c : s = sockets[i] /\ c = s.conn  OBVIOUS
  <1>4. InUse(i, s, c)  BY <1>2, <1>3, EntryInUse
  <1>5. PICK u, d, e, k, p :
          u = up[c] /\ d = down[c] /\ e = executed[c] /\ k = client[c] /\ p = revents[i]
    OBVIOUS
  <1>6. /\ s \in Entries /\ c \in Conns /\ ServedBy(i, c) /\ s.conn = c
        /\ u \in Seq(Units) /\ d \in Messages /\ Len(d) <= Room
        /\ e \in Seq(Executions) /\ CallTyped(k)
        /\ up = [up EXCEPT ![c] = u] /\ down = [down EXCEPT ![c] = d]
        /\ executed = [executed EXCEPT ![c] = e]
        /\ revents = [revents EXCEPT ![i] = p] /\ sockets = [sockets EXCEPT ![i] = s]
    BY <1>4, <1>5 DEF InUse
  <1>7. /\ life[c] = "open" => OpenOK(s, u, d, e, k)
        /\ ClosedOK(s, u)
        /\ life[c] = "closed" => d = <<>>
        /\ "OUT" \in p => WantsToWrite(s)
        /\ "IN" \in p => u # <<>> \/ life[c] = "closed"
    BY <1>4, <1>5 DEF InUse
  <1>8. /\ UNCHANGED <<life, server_open, backlog, client>>
        /\ up' = [up EXCEPT ![c] = u] /\ down' = [down EXCEPT ![c] = d]
        /\ revents' = [revents EXCEPT ![i] = p] /\ p \subseteq revents[i]
    BY <1>1, <1>5, <1>6
  <1>9. CASE ConsumePart(i)
    <2>1. consuming' \subseteq {i} /\ executed' = [executed EXCEPT ![c] = e]
          /\ sockets' = [sockets EXCEPT ![i] = s]
      BY <1>6, <1>9 DEF ConsumePart
    <2>2. ServedStep(i, c, s, u, d, e, p)
      BY <1>5, <1>6, <1>7, <1>8, <2>1 DEF ServedStep
    <2>3. CallInv'  BY <2>2, ServingStep
    <2>4. QED  BY <1>9, <2>3 DEF ConsumePart, ExecutesOnce
  <1>10. CASE ConsumeCommand(i)
    <2>1. PICK op \in Ops :
             /\ InUse(i, s, c) /\ Whole(s, up[c], op) /\ consuming' \subseteq {i}
             /\ life[c] = "open" =>
                  LET m == client[c]
                  IN  /\ m.op = op /\ m.stage = "answer" /\ m.out = <<>> /\ m.need = 1
                      /\ executed[c] = <<>> /\ Going(s, down[c]) = <<>>
             /\ \/ /\ op.kind = "write" /\ UNCHANGED executed
                   /\ sockets' = [sockets EXCEPT ![i] =
                        IF op.size > 0 THEN Expecting(s, op) ELSE CarriedOut(s, <<Ack>>)]
                \/ /\ op.kind # "write"
                   /\ \E r \in Results :
                        /\ executed' = [executed EXCEPT ![c] = Executed(executed[c], op, <<>>, r)]
                        /\ sockets' = [sockets EXCEPT ![i] = CarriedOut(s, Answer(op, r))]
      BY <1>1, <1>3, <1>10, CommandTaken
    <2>2. Whole(s, u, op) /\ consuming' \subseteq {i}  BY <1>5, <2>1
    <2>3. life[c] = "open" => /\ k.op = op /\ k.stage = "answer" /\ k.out = <<>> /\ k.need = 1
                              /\ e = <<>> /\ Going(s, d) = <<>>
      BY <1>5, <2>1, Zenon
    <2>4. u = <<>>  BY <2>2 DEF Whole
    <2>5. CASE /\ op.kind = "write" /\ UNCHANGED executed
               /\ sockets' = [sockets EXCEPT ![i] =
                    IF op.size > 0 THEN Expecting(s, op) ELSE CarriedOut(s, <<Ack>>)]
      <3>1. PICK t : t = IF op.size > 0 THEN Expecting(s, op) ELSE CarriedOut(s, <<Ack>>)
        OBVIOUS
      <3>2. /\ t \in Entries /\ t.conn = s.conn
            /\ WantsToWrite(s) => WantsToWrite(t)
            /\ ClosedOK(t, u)
            /\ k.op = op /\ k.stage = "answer" /\ k.out = <<>> /\ k.need = 1
               /\ Going(s, d) = <<>> /\ e = <<>>
               => OpenOK(t, u, d, e, k)
        BY <1>6, <2>2, <2>5, <3>1, CommandAcknowledged
      <3>3. sockets' = [sockets EXCEPT ![i] = t] /\ executed' = [executed EXCEPT ![c] = e]
        BY <1>6, <2>5, <3>1
      <3>4. ServedStep(i, c, t, u, d, e, p)
        BY <1>5, <1>6, <1>7, <1>8, <2>2, <2>3, <3>2, <3>3 DEF ServedStep
      <3>5. CallInv'  BY <3>4, ServingStep
      <3>6. QED  BY <2>5, <3>5 DEF ExecutesOnce
    <2>6. CASE /\ op.kind # "write"
               /\ \E r \in Results :
                    /\ executed' = [executed EXCEPT ![c] = Executed(executed[c], op, <<>>, r)]
                    /\ sockets' = [sockets EXCEPT ![i] = CarriedOut(s, Answer(op, r))]
      <3>1. PICK r \in Results :
                    /\ executed' = [executed EXCEPT ![c] = Executed(executed[c], op, <<>>, r)]
                    /\ sockets' = [sockets EXCEPT ![i] = CarriedOut(s, Answer(op, r))]
        BY <2>6
      <3>2. PICK t, f : t = CarriedOut(s, Answer(op, r)) /\ f = Executed(e, op, <<>>, r)
        OBVIOUS
      <3>3. /\ t \in Entries /\ t.conn = s.conn
            /\ WantsToWrite(s) => WantsToWrite(t)
            /\ ClosedOK(t, u)
            /\ k.op = op /\ k.stage = "answer" /\ k.out = <<>> /\ k.need = 1
               /\ Going(s, d) = <<>>
               => OpenOK(t, u, d, <<Execution(k.op, r)>>, k)
        BY <1>6, <2>2, <2>6, <3>2, CommandCarriedOut
      <3>4. /\ f \in Seq(Executions)
            /\ e = <<>> => f = <<Execution(op, r)>>
        <4>1. PICK w \in Seq(Units) : w = <<>>  BY EmptySeq
        <4>2. w = IF op.kind = "write" THEN Payload(op) ELSE <<>>  BY <2>6, <4>1
        <4>3. Executed(e, op, w, r) \in Seq(Executions)  BY <1>6, ExecutedType
        <4>4. e = <<>> => Executed(e, op, w, r) = <<Execution(op, r)>>
          BY <4>2, ExecutedOnce, Zenon
        <4>5. QED  BY <3>2, <4>1, <4>3, <4>4, Zenon
      <3>5. sockets' = [sockets EXCEPT ![i] = t] /\ executed' = [executed EXCEPT ![c] = f]
        BY <1>5, <3>1, <3>2, Zenon
      <3>6. life[c] = "open" => OpenOK(t, u, d, f, k)  BY <2>3, <3>3, <3>4
      <3>7. ServedStep(i, c, t, u, d, f, p)
        BY <1>5, <1>6, <1>7, <1>8, <2>2, <3>3, <3>4, <3>5, <3>6 DEF ServedStep
      <3>8. CallInv'  BY <3>7, ServingStep
      <3>9. ExecutesFor(c, f)
        BY <1>5, <1>6, <2>3, <3>4, <3>5 DEF ExecutesFor
      <3>10. QED  BY <3>8, <3>9 DEF ExecutesOnce
    <2>7. QED  BY <2>1, <2>5, <2>6
  <1>11. QED  BY <1>1, <1>9, <1>10

LEMMA SendStep ==
    ASSUME CallInv, NEW i \in Slots, Send(i), UNCHANGED client
    PROVE  CallInv'
  <1>1. /\ At(i, "OUT") /\ (SendLater(i) \/ SendSome(i) \/ SendError(i))
        /\ UNCHANGED <<up, life, backlog, consuming, executed>>
    BY DEF Send
  <1>2. PICK s, c : s = sockets[i] /\ c = s.conn  OBVIOUS
  <1>3. InUse(i, s, c) /\ "OUT" \in revents[i] /\ consuming = {}
    BY <1>1, <1>2, EventInUse
  <1>4. PICK u, d, e, k, t :
          u = up[c] /\ d = down[c] /\ e = executed[c] /\ k = client[c] /\ t = Loaded(s)
    OBVIOUS
  <1>5. /\ s \in Entries /\ c \in Conns /\ ServedBy(i, c) /\ s.conn = c
        /\ u \in Seq(Units) /\ d \in Messages /\ Len(d) <= Room
        /\ e \in Seq(Executions) /\ CallTyped(k)
        /\ up = [up EXCEPT ![c] = u] /\ down = [down EXCEPT ![c] = d]
        /\ executed = [executed EXCEPT ![c] = e]
        /\ revents = [revents EXCEPT ![i] = revents[i]]
    BY <1>3, <1>4 DEF InUse
  <1>6. /\ life[c] = "open" => OpenOK(s, u, d, e, k)
        /\ WantsToWrite(s)
        /\ "IN" \in revents[i] => u # <<>> \/ life[c] = "closed"
    BY <1>3, <1>4 DEF InUse
  <1>7. UNCHANGED <<life, backlog, client>> /\ consuming' \subseteq {i}
        /\ up' = [up EXCEPT ![c] = u] /\ executed' = [executed EXCEPT ![c] = e]
    BY <1>1, <1>3, <1>5
  <1>8. ASSUME life[c] = "open"
        PROVE  /\ t \in Entries /\ t.conn = s.conn /\ t.buf = s.buf /\ t.cmd = s.cmd
               /\ t.data = s.data /\ t.in_progress = TRUE /\ Orderly(t)
               /\ \A f \in Messages : Going(t, f) = Going(s, f)
    <2>1. OpenOK(s, u, d, e, k)  BY <1>6, <1>8
    <2>2. Orderly(s)  BY <2>1 DEF OpenOK
    <2>3. s \in Entries /\ WantsToWrite(s) /\ t = Loaded(s)  BY <1>4, <1>5, <1>6, Zenon
    <2>4. QED  BY <2>2, <2>3, LoadedFacts
  <1>9. PICK p : p = revents[i] \ {"OUT"}  OBVIOUS
  <1>10. /\ p \subseteq revents[i] /\ "OUT" \notin p
         /\ "IN" \in p => u # <<>> \/ life[c] = "closed"
    BY <1>6, <1>9
  <1>11. Seen(i, "OUT") => revents' = [revents EXCEPT ![i] = p]  BY <1>9, Zenon DEF Seen
  <1>12. CASE SendLater(i)
    <2>1. life[c] = "open" /\ sockets' = [sockets EXCEPT ![i] = t] /\ Seen(i, "OUT")
          /\ UNCHANGED <<down, server_open>>
      <3>1. Loaded(sockets[i]) = t  BY <1>2, <1>4
      <3>2. life[t.conn] = "open" /\ sockets' = [sockets EXCEPT ![i] = t] /\ Seen(i, "OUT")
            /\ UNCHANGED <<down, server_open>>
        BY <1>12, <3>1 DEF SendLater
      <3>3. t.conn = c  BY <1>2, <1>4, <1>5 DEF Loaded, Entries
      <3>4. QED  BY <3>2, <3>3
    <2>2. OpenOK(t, u, d, e, k)
      <3>1. Going(t, d) = Going(s, d)  BY <1>5, <1>8, <2>1
      <3>2. QED  BY <1>6, <1>8, <2>1, <3>1, SameCall
    <2>3. down' = [down EXCEPT ![c] = d] /\ revents' = [revents EXCEPT ![i] = p]
      BY <1>5, <1>11, <2>1
    <2>4. ServedStep(i, c, t, u, d, e, p)
      BY <1>4, <1>5, <1>7, <1>8, <1>10, <2>1, <2>2, <2>3 DEF ServedStep
    <2>5. QED  BY <2>4, ServingStep
  <1>13. CASE SendSome(i)
    <2>1. Loaded(sockets[i]) = t  BY <1>2, <1>4
    <2>2. t.conn = c  BY <1>2, <1>4, <1>5 DEF Loaded, Entries
    <2>3. life[c] = "open" /\ UNCHANGED server_open  BY <1>13, <2>1, <2>2, Zenon DEF SendSome
    <2>4. PICK n \in 1 .. Min({Len(t.sending), Room - Len(d)}) :
             /\ down' = [down EXCEPT ![c] = @ \o SubSeq(t.sending, 1, n)]
             /\ sockets' = [sockets EXCEPT ![i] =
                  [t EXCEPT !.sending = SubSeq(@, n + 1, Len(@)),
                            !.in_progress = (n < Len(t.sending))]]
      BY <1>4, <1>13, <2>1, <2>2, Zenon DEF SendSome
    <2>5. /\ revents' = revents \/ (Seen(i, "OUT") /\ ~WantsToWrite(sockets'[i]))
          /\ WantsToWrite(sockets'[i]) => revents' = revents
      BY <1>13, Zenon DEF SendSome
    <2>6. PICK m \in Messages : m = t.sending  BY <1>8, <2>3, EntryFields
    <2>7. n \in 0 .. Len(m) /\ n <= Room - Len(d) /\ Len(m) \in Nat /\ Len(d) \in Nat
          /\ n \in Nat /\ Room \in Nat
      <3>1. Len(m) \in Nat /\ Len(d) \in Nat /\ Room \in Nat
        BY <1>5, LenProperties, ServerAssumption DEF Messages
      <3>2. PICK a \in Int, b \in Int : a = Len(m) /\ b = Room - Len(d)
        <4>1. Len(m) \in Int /\ Room - Len(d) \in Int  BY <3>1
        <4>2. QED  BY <4>1, Zenon
      <3>3. n \in 1 .. Min({a, b})  BY <2>4, <2>6, <3>2, Zenon
      <3>4. n \in 0 .. a /\ n <= b /\ n \in Nat  BY <3>2, <3>3, MinOfTwo
      <3>5. QED  BY <3>1, <3>2, <3>4
    <2>8. /\ SubSeq(m, 1, n) \in Seq(AnswerUnits) /\ SubSeq(m, n + 1, Len(m)) \in Seq(AnswerUnits)
          /\ Cat(SubSeq(m, 1, n), SubSeq(m, n + 1, Len(m))) = m
          /\ Size(SubSeq(m, 1, n)) = n /\ Size(SubSeq(m, n + 1, Len(m))) = Size(m) - n
      <3>1. m \in Seq(AnswerUnits)  BY DEF Messages
      <3>2. QED  BY <2>7, <3>1, Cut, Zenon
    <2>9. PICK x \in Messages, y \in Messages :
            /\ x = SubSeq(m, 1, n) /\ y = SubSeq(m, n + 1, Len(m)) /\ Cat(x, y) = m
            /\ Size(x) = n /\ Size(y) = Size(m) - n
      BY <2>8, Zenon DEF Messages
    <2>10. (n < Len(t.sending)) = (y # <<>>)
      <3>1. Size(y) = Len(m) - n /\ m = t.sending  BY <2>6, <2>9, Zenon DEF Size
      <3>2. Size(y) \in Nat /\ (y = <<>> <=> Size(y) <= 0)  BY SizeFacts DEF Messages
      <3>3. n < Len(m) <=> y # <<>>  BY <2>7, <3>1, <3>2
      <3>4. QED  BY <3>1, <3>3
    <2>11. PICK z, f : z = Sent(t, y, y # <<>>) /\ f = Cat(d, x)  OBVIOUS
    <2>12. down' = [down EXCEPT ![c] = f]
      <3>1. down' = [down EXCEPT ![c] = d \o x]  BY <1>4, <2>4, <2>6, <2>9, Zenon
      <3>2. QED  BY <2>11, <3>1, Zenon DEF Cat
    <2>13. sockets' = [sockets EXCEPT ![i] = z]
      <3>1. sockets' = [sockets EXCEPT ![i] =
                          [t EXCEPT !.sending = y, !.in_progress = (n < Len(t.sending))]]
        BY <2>4, <2>6, <2>9, Zenon
      <3>2. QED  BY <2>10, <2>11, <3>1, Zenon DEF Sent
    <2>14. /\ z \in Entries /\ z.conn = t.conn /\ z.buf = t.buf /\ z.cmd = t.cmd
           /\ z.data = t.data /\ Orderly(z) /\ f \in Messages /\ Going(z, f) = Going(t, d)
      <3>1. t.sending = Cat(x, y)  BY <2>6, <2>9, Zenon
      <3>2. QED  BY <1>5, <1>8, <2>3, <2>11, <3>1, SentFacts
    <2>15. OpenOK(z, u, f, e, k)
      <3>1. Going(z, f) = Going(s, d)  BY <1>5, <1>8, <2>3, <2>14
      <3>2. z.cmd = s.cmd /\ z.data = s.data /\ z.buf = s.buf  BY <1>8, <2>3, <2>14
      <3>3. QED  BY <1>6, <2>3, <2>14, <3>1, <3>2, SameCall
    <2>16. Len(f) <= Room
      <3>1. Size(f) = Size(d) + Size(x)
        <4>1. d \in Seq(AnswerUnits) /\ x \in Seq(AnswerUnits) /\ f = Cat(d, x)
          BY <1>5, <2>11 DEF Messages
        <4>2. QED  BY <4>1, CatFacts
      <3>2. Size(f) = Len(d) + n  BY <2>9, <3>1, Zenon DEF Size
      <3>3. Size(f) <= Room  BY <2>7, <3>2
      <3>4. QED  BY <3>3, Zenon DEF Size
    <2>17. sockets'[i] = z
      <3>1. sockets \in [Slots -> Entries \cup {NoSocket}]  BY DEF CallInv, Types
      <3>2. QED  BY <2>13, <3>1
    <2>18. PICK q : q = IF WantsToWrite(z) THEN revents[i] ELSE p  OBVIOUS
    <2>19. /\ revents' = [revents EXCEPT ![i] = q]
           /\ q \subseteq revents[i] /\ ("OUT" \in q => WantsToWrite(z))
           /\ ("IN" \in q => u # <<>> \/ life[c] = "closed")
      <3>1. CASE WantsToWrite(z)
        <4>1. revents' = revents /\ q = revents[i]  BY <2>5, <2>17, <2>18, <3>1
        <4>2. QED  BY <1>5, <1>6, <3>1, <4>1
      <3>2. CASE ~WantsToWrite(z)
        <4>1. Seen(i, "OUT")  BY <1>13, <2>17, <3>2 DEF SendSome
        <4>2. q = p  BY <2>18, <3>2
        <4>3. QED  BY <1>10, <1>11, <4>1, <4>2
      <3>3. QED  BY <3>1, <3>2
    <2>20. z.conn = c  BY <2>2, <2>14
    <2>21. ServedStep(i, c, z, u, f, e, q)
      BY <1>4, <1>5, <1>7, <2>3, <2>12, <2>13, <2>14, <2>15, <2>16, <2>19, <2>20
      DEF ServedStep
    <2>22. QED  BY <2>21, ServingStep
  <1>14. CASE SendError(i)
    <2>1. life[c] = "closed" /\ CloseSocket(i) /\ UNCHANGED down
      BY <1>2, <1>14 DEF SendError
    <2>2. QED  BY <1>1, <1>3, <1>5, <1>7, <2>1, ClosingStep
  <1>15. QED  BY <1>1, <1>12, <1>13, <1>14

LEMMA ServerStep ==
    ASSUME ReadsNotEmpty, CallInv, Server, UNCHANGED client
    PROVE  CallInv' /\ UNCHANGED life /\ ExecutesOnce
  <1>1. CASE Poll  BY <1>1, PollStep DEF Poll, ExecutesOnce
  <1>2. CASE Accept  BY <1>2, AcceptStep DEF Accept, ExecutesOnce
  <1>3. ASSUME NEW i \in Slots, HangUp(i) PROVE CallInv' /\ UNCHANGED <<life, executed>>
    BY <1>3, HangUpStep DEF HangUp
  <1>4. ASSUME NEW i \in Slots, ReceiveMessage(i)
        PROVE  CallInv' /\ UNCHANGED <<life, executed>>
    <2>1. UNCHANGED <<life, executed>>  BY <1>4 DEF ReceiveMessage
    <2>2. QED  BY <1>4, <2>1, ReceiveMessageStep
  <1>5. ASSUME NEW i \in Slots, ReceiveData(i)
        PROVE  CallInv' /\ UNCHANGED life /\ ExecutesOnce
    <2>1. UNCHANGED life  BY <1>5 DEF ReceiveData
    <2>2. QED  BY <1>5, <2>1, ReceiveDataStep
  <1>6. ASSUME NEW i \in Slots, Consume(i)
        PROVE  CallInv' /\ UNCHANGED life /\ ExecutesOnce
    BY <1>6, ConsumeStep DEF Consume
  <1>7. ASSUME NEW i \in Slots, Send(i) PROVE CallInv' /\ UNCHANGED <<life, executed>>
    BY <1>7, SendStep DEF Send
  <1>8. ASSUME NEW i \in Slots, HangUpEvent(i)
        PROVE  CallInv' /\ UNCHANGED <<life, executed>>
    BY <1>8, HangUpEventStep DEF HangUpEvent
  <1>9. ASSUME UNCHANGED executed PROVE ExecutesOnce  BY <1>9 DEF ExecutesOnce
  <1>10. QED  BY <1>1, <1>2, <1>3, <1>4, <1>5, <1>6, <1>7, <1>8, <1>9 DEF Server

-----------------------------------------------------------------------------
(* The steps of the client.                                                *)

Talking(c, u, d, e, k) ==
    /\ c \in Conns /\ u = up[c] /\ d = down[c] /\ e = executed[c] /\ k = client[c]
    /\ u \in Seq(Units) /\ d \in Messages /\ Len(d) <= Room /\ e \in Seq(Executions)
    /\ k \in InCalls /\ CallTyped(k)
    /\ up = [up EXCEPT ![c] = u] /\ down = [down EXCEPT ![c] = d]
    /\ executed = [executed EXCEPT ![c] = e]
    /\ k.stage # "idle" \/ k.out # <<>> => life[c] = "open"
    /\ life[c] = "open" =>
         Unserved(u, d, e, k) \/ \E s \in Entries : OpenOK(s, u, d, e, k)

LEMMA ClientTalking ==
    ASSUME CallInv, NEW c \in Conns
    PROVE  Talking(c, up[c], down[c], executed[c], client[c])
  <1>1. Types /\ StreamOK(c)  BY DEF CallInv, StreamsOK
  <1>2. /\ up[c] \in Seq(Units) /\ down[c] \in Messages /\ Len(down[c]) <= Room
        /\ executed[c] \in Seq(Executions) /\ client[c] \in InCalls /\ CallTyped(client[c])
        /\ up = [up EXCEPT ![c] = up[c]] /\ down = [down EXCEPT ![c] = down[c]]
        /\ executed = [executed EXCEPT ![c] = executed[c]]
        /\ life[c] \in {"new", "open", "closed"}
        /\ sockets \in [Slots -> Entries \cup {NoSocket}]
    BY <1>1 DEF Types
  <1>3. ASSUME life[c] # "open" PROVE client[c].stage = "idle" /\ client[c].out = <<>>
    <2>1. client[c] = Idle("none") \/ client[c] = Idle("lost")
      BY <1>1, <1>2, <1>3 DEF StreamOK
    <2>2. QED  BY <2>1 DEF Idle
  <1>4. ASSUME life[c] = "open"
        PROVE  \/ Unserved(up[c], down[c], executed[c], client[c])
               \/ \E s \in Entries : OpenOK(s, up[c], down[c], executed[c], client[c])
    <2>1. CASE Served(c)
      <3>1. PICK i \in Slots : ServedBy(i, c)  BY <2>1 DEF Served
      <3>2. OpenOK(sockets[i], up[c], down[c], executed[c], client[c])
        BY <1>1, <1>4, <3>1 DEF StreamOK
      <3>3. sockets[i] \in Entries  BY <1>2, <3>1 DEF ServedBy
      <3>4. QED  BY <3>2, <3>3
    <2>2. CASE ~Served(c)  BY <1>1, <1>4, <2>2 DEF StreamOK
    <2>3. QED  BY <2>1, <2>2
  <1>5. QED  BY <1>2, <1>3, <1>4, Zenon DEF Talking

LEMMA CallStep ==
    ASSUME CallInv, NEW c \in Conns, NEW op \in OpsOf[c], Call(c, op)
    PROVE  CallInv'
  <1>1. PICK u, d, e, k : u = up[c] /\ d = down[c] /\ e = executed[c] /\ k = client[c]
    OBVIOUS
  <1>2. Talking(c, u, d, e, k)  BY <1>1, ClientTalking
  <1>3. PICK l : l = CalledFor(k, op)  OBVIOUS
  <1>4. /\ life[c] = "open" /\ k.stage = "idle"
        /\ UNCHANGED <<up, down, life, server_open, backlog, sockets, revents, consuming>>
        /\ executed' = [executed EXCEPT ![c] = <<>>]
    BY <1>1 DEF Call
  <1>5. client' = [client EXCEPT ![c] = l]  BY <1>1, <1>3, Zenon DEF Call, CalledFor
  <1>6. /\ u \in Seq(Units) /\ k \in InCalls /\ d \in Messages /\ Len(d) <= Room
        /\ up' = [up EXCEPT ![c] = u] /\ down' = [down EXCEPT ![c] = d]
    BY <1>2, <1>4 DEF Talking
  <1>7. op \in Ops  BY ClientAssumption
  <1>8. /\ CallTyped(l) /\ l \in InCalls
        /\ \A s \in Entries : OpenOK(s, u, d, e, k) => OpenOK(s, u, d, <<>>, l)
        /\ Unserved(u, d, e, k) => Unserved(u, d, <<>>, l)
    BY <1>3, <1>4, <1>6, <1>7, CallMade DEF CallTyped
  <1>9. <<>> \in Seq(Executions)  BY EmptySeq
  <1>10. ClientsStep(c, u, d, <<>>, l)
    BY <1>1, <1>4, <1>5, <1>6, <1>8, <1>9 DEF ClientsStep
  <1>11. QED  BY <1>10, ClientStep

\* The client goes on with its call, or returns what has been executed.
GoesOn(c, l) ==
    /\ client' = [client EXCEPT ![c] = l] /\ UNCHANGED <<life, executed>>
    /\ client[c].stage # "idle"
    /\ l.stage # "idle" => l.op = client[c].op
    /\ l.stage = "idle" =>
         l.result \in Results /\ executed[c] = <<Execution(client[c].op, l.result)>>

LEMMA ClientSendStep ==
    ASSUME CallInv, NEW c \in Conns, ClientSend(c)
    PROVE  CallInv' /\ \E l : GoesOn(c, l)
  <1>1. PICK u, d, e, k : u = up[c] /\ d = down[c] /\ e = executed[c] /\ k = client[c]
    OBVIOUS
  <1>2. Talking(c, u, d, e, k)  BY <1>1, ClientTalking
  <1>3. /\ u \in Seq(Units) /\ k \in InCalls /\ d \in Messages /\ Len(d) <= Room
        /\ e \in Seq(Executions) /\ CallTyped(k)
        /\ down = [down EXCEPT ![c] = d] /\ executed = [executed EXCEPT ![c] = e]
    BY <1>2 DEF Talking
  <1>4. PICK b \in Seq(Units) : b = k.out  BY <1>3 DEF InCalls
  <1>5. UNCHANGED <<down, life, server_open, backlog, sockets, revents, consuming, executed>>
    BY DEF ClientSend
  <1>6. PICK n \in 1 .. Len(b) :
             /\ up' = [up EXCEPT ![c] = up[c] \o SubSeq(b, 1, n)]
             /\ client' = [client EXCEPT ![c] =
                             [client[c] EXCEPT !.out = SubSeq(b, n + 1, Len(b))]]
    BY <1>1, <1>4, Zenon DEF ClientSend
  <1>7. n \in 0 .. Len(b) /\ b # <<>>
    <2>1. Len(b) \in Nat /\ Len(b) > 0  BY <1>6, LenProperties
    <2>2. QED  BY <1>6, <2>1, EmptySeq
  <1>8. /\ SubSeq(b, 1, n) \in Seq(Units) /\ SubSeq(b, n + 1, Len(b)) \in Seq(Units)
        /\ Cat(SubSeq(b, 1, n), SubSeq(b, n + 1, Len(b))) = b
    BY <1>7, Cut, Zenon
  <1>9. PICK x \in Seq(Units), y \in Seq(Units) :
          x = SubSeq(b, 1, n) /\ y = SubSeq(b, n + 1, Len(b)) /\ Cat(x, y) = b
    BY <1>8, Zenon
  <1>10. PICK w, l : w = Cat(u, x) /\ l = Unsent(k, y)  OBVIOUS
  <1>11. up' = [up EXCEPT ![c] = w] /\ client' = [client EXCEPT ![c] = l]
    BY <1>1, <1>6, <1>9, <1>10, Zenon DEF Cat, Unsent
  <1>12. k.out = Cat(x, y) /\ k.out # <<>>  BY <1>4, <1>7, <1>9, Zenon
  <1>13. /\ CallTyped(l) /\ l.op = k.op /\ l.stage = k.stage /\ l.result = k.result
         /\ w \in Seq(Units)
         /\ \A s \in Entries :
                OpenOK(s, u, d, e, k) => OpenOK(s, w, d, e, l) /\ k.stage # "idle"
         /\ Unserved(u, d, e, k) => Unserved(w, d, e, l) /\ k.stage # "idle"
    BY <1>3, <1>10, <1>12, PieceSent
  <1>14. life[c] = "open"  BY <1>2, <1>12 DEF Talking
  <1>15. k.stage # "idle"  BY <1>2, <1>13, <1>14 DEF Talking
  <1>16. u # <<>> => w # <<>>  BY <1>3, <1>9, <1>10, CatFacts
  <1>17. ClientsStep(c, w, d, e, l)
    <2>1. l \in InCalls  BY <1>13 DEF CallTyped
    <2>2. down' = [down EXCEPT ![c] = d] /\ executed' = [executed EXCEPT ![c] = e]
      BY <1>3, <1>5
    <2>3. QED
      BY <1>1, <1>3, <1>5, <1>11, <1>13, <1>14, <1>16, <2>1, <2>2 DEF ClientsStep
  <1>18. CallInv'  BY <1>17, ClientStep
  <1>19. GoesOn(c, l)  BY <1>1, <1>5, <1>11, <1>13, <1>15 DEF GoesOn
  <1>20. QED  BY <1>18, <1>19

\* What a call does with what it has received.
Receiving(c, n, v, l) ==
    /\ client[c].stage # "idle" /\ client[c].out = <<>>
    /\ down' = [down EXCEPT ![c] = v] /\ client' = [client EXCEPT ![c] = l]
    /\ UNCHANGED <<up, life, server_open, backlog, sockets, revents, consuming, executed>>
    /\ n \in 1 .. Len(down[c]) /\ n <= client[c].need
    /\ v = Rest(down[c], n)
    /\ v \in Messages /\ Len(v) <= Room

LEMMA ReceivesFacts ==
    ASSUME CallInv, NEW c \in Conns, NEW n, Receives(c, n), NEW l,
           client' = [client EXCEPT ![c] = l]
    PROVE  \E v : Receiving(c, n, v, l)
  <1>1. PICK d : d = down[c]  OBVIOUS
  <1>2. Talking(c, up[c], d, executed[c], client[c])  BY <1>1, ClientTalking
  <1>3. d \in Messages /\ Len(d) <= Room /\ client[c].need \in Nat /\ Len(d) \in Nat
    BY <1>2, LenProperties DEF Talking, InCalls, Messages
  <1>4. /\ client[c].stage # "idle" /\ client[c].out = <<>>
        /\ n = Min({client[c].need, Len(d)}) /\ n > 0
        /\ UNCHANGED <<up, life, server_open, backlog, sockets, revents, consuming, executed>>
    BY <1>1 DEF Receives
  <1>5. PICK v : v = SubSeq(d, n + 1, Len(d))  OBVIOUS
  <1>6. down' = [down EXCEPT ![c] = v]  BY <1>1, <1>5, Zenon DEF Receives
  <1>7. n \in 1 .. Len(d) /\ n <= client[c].need
    <2>1. PICK a \in Int, b \in Int : a = client[c].need /\ b = Len(d)  BY <1>3
    <2>2. n = Min({a, b}) /\ n > 0  BY <1>4, <2>1, Zenon
    <2>3. n \in 1 .. b /\ n <= a  BY <2>2, MinOfTwo
    <2>4. QED  BY <2>1, <2>3
  <1>8. v \in Messages /\ Len(v) <= Room
    <2>1. d \in Seq(AnswerUnits) /\ n \in 0 .. Len(d)  BY <1>3, <1>7 DEF Messages
    <2>2. /\ SubSeq(d, n + 1, Len(d)) \in Seq(AnswerUnits)
          /\ Size(SubSeq(d, n + 1, Len(d))) = Size(d) - n
      BY <2>1, Cut, Zenon
    <2>3. v \in Messages /\ Len(v) = Len(d) - n  BY <1>5, <2>2, Zenon DEF Messages, Size
    <2>4. PICK a \in Int, b \in Int : a = Len(d) /\ b = Len(v)  BY <1>3, <1>7, <2>3
    <2>5. b = a - n /\ a <= Room /\ n > 0 /\ n \in Int  BY <1>3, <1>4, <1>7, <2>3, <2>4
    <2>6. b <= Room  BY <2>5, ServerAssumption
    <2>7. QED  BY <2>3, <2>4, <2>6
  <1>9. v = Rest(down[c], n)  BY <1>1, <1>5, Zenon DEF Rest
  <1>10. QED  BY <1>1, <1>4, <1>6, <1>7, <1>8, <1>9, Zenon DEF Receiving

\* Something has come only if the server serves the connection.
LEMMA ReceivingServed ==
    ASSUME CallInv, NEW c \in Conns, NEW n, NEW v, NEW l, Receiving(c, n, v, l)
    PROVE  \E s \in Entries : OpenOK(s, up[c], down[c], executed[c], client[c])
  <1>1. PICK d : d = down[c]  OBVIOUS
  <1>2. Talking(c, up[c], d, executed[c], client[c])  BY <1>1, ClientTalking
  <1>3. life[c] = "open" /\ d \in Messages  BY <1>2 DEF Talking, Receiving
  <1>4. d # <<>>
    <2>1. n \in 1 .. Len(d) /\ Len(d) \in Nat
      BY <1>1, <1>3, LenProperties DEF Receiving, Messages
    <2>2. Len(d) > 0  BY <2>1
    <2>3. QED  BY <2>2
  <1>5. ~Unserved(up[c], d, executed[c], client[c])  BY <1>4 DEF Unserved
  <1>6. QED  BY <1>1, <1>2, <1>3, <1>5 DEF Talking

LEMMA ReceivedStep ==
    ASSUME CallInv, NEW c \in Conns, NEW n, NEW v, NEW l, Receiving(c, n, v, l),
           \A s \in Entries : OpenOK(s, up[c], down[c], executed[c], client[c])
              => CallTyped(l) /\ OpenOK(s, up[c], v, executed[c], l)
    PROVE  CallInv'
  <1>1. PICK u, d, e, k : u = up[c] /\ d = down[c] /\ e = executed[c] /\ k = client[c]
    OBVIOUS
  <1>2. Talking(c, u, d, e, k)  BY <1>1, ClientTalking
  <1>3. /\ u \in Seq(Units) /\ e \in Seq(Executions) /\ life[c] = "open"
        /\ up = [up EXCEPT ![c] = u] /\ executed = [executed EXCEPT ![c] = e]
    BY <1>1, <1>2 DEF Talking, Receiving
  <1>4. PICK s \in Entries : OpenOK(s, u, d, e, k)  BY <1>1, ReceivingServed
  <1>5. CallTyped(l) /\ l \in InCalls
        /\ \A t \in Entries : OpenOK(t, u, d, e, k) => OpenOK(t, u, v, e, l)
    BY <1>1, <1>4 DEF CallTyped
  <1>6. ~Unserved(u, d, e, k)
    <2>1. d # <<>>
      <3>1. n \in 1 .. Len(d) /\ d \in Messages  BY <1>1, <1>2 DEF Receiving, Talking
      <3>2. Len(d) > 0  BY <3>1, LenProperties DEF Messages
      <3>3. QED  BY <3>2
    <2>2. QED  BY <2>1 DEF Unserved
  <1>7. /\ down' = [down EXCEPT ![c] = v] /\ client' = [client EXCEPT ![c] = l]
        /\ UNCHANGED <<up, life, server_open, backlog, sockets, revents, consuming, executed>>
        /\ v \in Messages /\ Len(v) <= Room
    BY DEF Receiving
  <1>8. ClientsStep(c, u, v, e, l)
    BY <1>1, <1>3, <1>5, <1>6, <1>7 DEF ClientsStep
  <1>9. QED  BY <1>8, ClientStep

LEMMA ReceiveBaseStep ==
    ASSUME ReadsNotEmpty, CallInv, NEW c \in Conns, ReceiveBase(c)
    PROVE  CallInv' /\ \E l : GoesOn(c, l)
  <1>1. PICK u, d, e, k : u = up[c] /\ d = down[c] /\ e = executed[c] /\ k = client[c]
    OBVIOUS
  <1>2. PICK l : l = AfterBase(k, Head(d))  OBVIOUS
  <1>3. Receives(c, 1) /\ client' = [client EXCEPT ![c] = l] /\ k.stage \in {"answer", "second"}
    BY <1>1, <1>2, Zenon DEF ReceiveBase
  <1>4. PICK v : Receiving(c, 1, v, l)  BY <1>3, ReceivesFacts
  <1>5. Talking(c, u, d, e, k)  BY <1>1, ClientTalking
  <1>6. u \in Seq(Units) /\ d \in Messages /\ k \in InCalls /\ CallTyped(k) /\ k.out = <<>>
    BY <1>1, <1>4, <1>5 DEF Talking, Receiving
  <1>7. d # <<>> /\ v = Rest(d, 1)
    <2>1. 1 \in 1 .. Len(d) /\ Len(d) \in Nat
      BY <1>1, <1>4, <1>6, LenProperties DEF Receiving, Messages
    <2>2. Len(d) > 0  BY <2>1
    <2>3. v = Rest(d, 1)  BY <1>1, <1>4 DEF Receiving
    <2>4. QED  BY <2>2, <2>3
  <1>8. \A s \in Entries : OpenOK(s, u, d, e, k) =>
          /\ CallTyped(l) /\ OpenOK(s, u, v, e, l)
          /\ l.stage # "idle" => l.op = k.op
          /\ l.stage = "idle" => l.result \in Results /\ e = <<Execution(k.op, l.result)>>
    <2>1. TAKE s \in Entries
    <2>2. HAVE OpenOK(s, u, d, e, k)
    <2>3. /\ s \in Entries /\ u \in Seq(Units) /\ d \in Messages /\ k \in InCalls
          /\ CallTyped(k) /\ OpenOK(s, u, d, e, k) /\ ReadsNotEmpty /\ d # <<>>
          /\ k.stage \in {"answer", "second"} /\ k.out = <<>>
          /\ v = Rest(d, 1) /\ l = AfterBase(k, Head(d))
      BY <1>2, <1>3, <1>6, <1>7, <2>2, Zenon
    <2>4. QED  BY <2>3, BaseReceived
  <1>9. CallInv'  BY <1>1, <1>4, <1>8, ReceivedStep
  <1>10. GoesOn(c, l)
    <2>1. \E s \in Entries : OpenOK(s, u, d, e, k)  BY <1>1, <1>4, ReceivingServed
    <2>2. QED  BY <1>1, <1>4, <1>8, <2>1 DEF GoesOn, Receiving
  <1>11. QED  BY <1>9, <1>10

LEMMA ReceiveRestStep ==
    ASSUME CallInv, NEW c \in Conns, ReceiveRest(c)
    PROVE  CallInv' /\ \E l : GoesOn(c, l)
  <1>1. PICK u, d, e, k : u = up[c] /\ d = down[c] /\ e = executed[c] /\ k = client[c]
    OBVIOUS
  <1>2. PICK l : l = Idle(k.result)  OBVIOUS
  <1>3. Receives(c, 1) /\ client' = [client EXCEPT ![c] = l] /\ k.stage = "rest"
    BY <1>1, <1>2, Zenon DEF ReceiveRest
  <1>4. PICK v : Receiving(c, 1, v, l)  BY <1>3, ReceivesFacts
  <1>5. Talking(c, u, d, e, k)  BY <1>1, ClientTalking
  <1>6. u \in Seq(Units) /\ d \in Messages /\ k \in InCalls
    BY <1>5 DEF Talking
  <1>7. d # <<>> /\ v = Rest(d, 1)
    <2>1. 1 \in 1 .. Len(d) /\ Len(d) \in Nat
      BY <1>1, <1>4, <1>6, LenProperties DEF Receiving, Messages
    <2>2. Len(d) > 0  BY <2>1
    <2>3. v = Rest(d, 1)  BY <1>1, <1>4 DEF Receiving
    <2>4. QED  BY <2>2, <2>3
  <1>8. \A s \in Entries : OpenOK(s, u, d, e, k) =>
          /\ CallTyped(l) /\ OpenOK(s, u, v, e, l)
          /\ k.result \in Results /\ e = <<Execution(k.op, k.result)>>
    BY <1>2, <1>3, <1>6, <1>7, RestReceived
  <1>9. CallInv'  BY <1>1, <1>4, <1>8, ReceivedStep
  <1>10. GoesOn(c, l)
    <2>1. \E s \in Entries : OpenOK(s, u, d, e, k)  BY <1>1, <1>4, ReceivingServed
    <2>2. l.stage = "idle" /\ l.result = k.result  BY <1>2 DEF Idle
    <2>3. QED  BY <1>1, <1>4, <1>8, <2>1, <2>2 DEF GoesOn, Receiving
  <1>11. QED  BY <1>9, <1>10

LEMMA ReceiveMemoryStep ==
    ASSUME CallInv, NEW c \in Conns, ReceiveMemory(c)
    PROVE  CallInv' /\ \E l : GoesOn(c, l)
  <1>1. PICK u, d, e, k : u = up[c] /\ d = down[c] /\ e = executed[c] /\ k = client[c]
    OBVIOUS
  <1>2. PICK n \in 1 .. k.need :
         /\ Receives(c, n)
         /\ client' = [client EXCEPT ![c] = MemoryRead(k, n)]
    BY <1>1, Zenon DEF ReceiveMemory, MemoryRead
  <1>3. PICK l : l = MemoryRead(k, n)  OBVIOUS
  <1>4. client' = [client EXCEPT ![c] = l] /\ k.stage = "data"
    BY <1>1, <1>2, <1>3, Zenon DEF ReceiveMemory
  <1>5. PICK v : Receiving(c, n, v, l)  BY <1>2, <1>4, ReceivesFacts
  <1>6. Talking(c, u, d, e, k)  BY <1>1, ClientTalking
  <1>7. /\ u \in Seq(Units) /\ d \in Messages /\ k \in InCalls /\ CallTyped(k)
        /\ n \in 1 .. Len(d) /\ n <= k.need /\ v = Rest(d, n)
    BY <1>1, <1>5, <1>6 DEF Talking, Receiving
  <1>8. \A s \in Entries : OpenOK(s, u, d, e, k) =>
          /\ CallTyped(l) /\ OpenOK(s, u, v, e, l)
          /\ l.stage # "idle" => l.op = k.op
          /\ l.stage = "idle" => l.result = "OK" /\ e = <<Execution(k.op, "OK")>>
    <2>1. TAKE s \in Entries
    <2>2. HAVE OpenOK(s, u, d, e, k)
    <2>3. /\ u \in Seq(Units) /\ d \in Messages /\ k \in InCalls
          /\ CallTyped(k) /\ OpenOK(s, u, d, e, k) /\ k.stage = "data"
          /\ n \in 1 .. Len(d) /\ n <= k.need /\ v = Rest(d, n) /\ l = MemoryRead(k, n)
      BY <1>3, <1>4, <1>7, <2>2, Zenon
    <2>4. QED  BY <2>3, MemoryReceived
  <1>9. CallInv'  BY <1>1, <1>5, <1>8, ReceivedStep
  <1>10. GoesOn(c, l)
    <2>1. \E s \in Entries : OpenOK(s, u, d, e, k)  BY <1>1, <1>5, ReceivingServed
    <2>2. "OK" \in Results  BY DEF Results
    <2>3. QED  BY <1>1, <1>5, <1>8, <2>1, <2>2 DEF GoesOn, Receiving
  <1>11. QED  BY <1>9, <1>10

LEMMA CloseStep ==
    ASSUME CallInv, NEW c \in Conns, Close(c)
    PROVE  CallInv'
  <1>1. /\ Types /\ Places /\ EventsTrue /\ StreamsOK  BY DEF CallInv
  <1>2. /\ life[c] = "open" /\ life' = [life EXCEPT ![c] = "closed"]
        /\ down' = [down EXCEPT ![c] = <<>>]
        /\ client' = [client EXCEPT ![c] = Idle("lost")]
        /\ UNCHANGED <<up, server_open, backlog, sockets, revents, consuming, executed>>
    BY DEF Close
  <1>3. /\ down \in [Conns -> Messages] /\ \A b \in Conns : Len(down[b]) <= Room
        /\ life \in [Conns -> {"new", "open", "closed"}]
        /\ client \in [Conns -> InCalls] /\ \A b \in Conns : CallTyped(client[b])
        /\ up \in [Conns -> Seq(Units)] /\ server_open \in SUBSET Conns
        /\ sockets \in [Slots -> Entries \cup {NoSocket}]
    BY <1>1 DEF Types
  <1>4. /\ life'[c] = "closed" /\ \A b \in Conns : b # c => life'[b] = life[b]
        /\ down'[c] = <<>> /\ \A b \in Conns : b # c => down'[b] = down[b]
        /\ client'[c] = Idle("lost") /\ \A b \in Conns : b # c => client'[b] = client[b]
    BY <1>2, <1>3, Zenon
  <1>5. \A j \in Slots, b \in Conns : ServedBy(j, b)' <=> ServedBy(j, b)
    BY <1>2 DEF ServedBy
  <1>6. \A b \in Conns : (Served(b)' <=> Served(b)) /\ (Waiting(b)' <=> Waiting(b))
    BY <1>2, <1>5, Zenon DEF Served, Waiting
  <1>7. Types'
    <2>1. <<>> \in Messages /\ Len(<<>>) = 0 /\ Len(<<>>) <= Room
      BY EmptySeq, ServerAssumption DEF Messages
    <2>2. Idle("lost") \in InCalls /\ CallTyped(Idle("lost"))
      BY EmptySeq DEF Idle, InCalls, CallTyped
    <2>3. down' \in [Conns -> Messages] /\ client' \in [Conns -> InCalls]
          /\ life' \in [Conns -> {"new", "open", "closed"}]
      BY <1>2, <1>3, <2>1, <2>2
    <2>4. \A b \in Conns : Len(down'[b]) <= Room /\ CallTyped(client'[b])
      BY <1>3, <1>4, <2>1, <2>2, Zenon
    <2>5. QED  BY <1>1, <1>2, <2>3, <2>4, Zenon DEF Types
  <1>8. Places'
    <2>1. \A b \in Conns : life[b] # "new" => life'[b] # "new"  BY <1>4
    <2>2. QED  BY <1>1, <1>2, <1>3, <1>5, <2>1, PlacesKept
  <1>9. EventsTrue'
    <2>1. ASSUME NEW i \in Slots PROVE EventOK(i)'
      <3>1. EventOK(i)  BY <1>1 DEF EventsTrue
      <3>2. \A b \in Conns : life[b] = "closed" => life'[b] = "closed"  BY <1>4
      <3>3. sockets' = sockets /\ revents' = revents /\ up' = up /\ consuming' = consuming
        BY <1>2
      <3>4. QED  BY <1>5, <3>1, <3>2, <3>3 DEF EventOK
    <2>2. QED  BY <1>1, <1>2, <2>1 DEF EventsTrue
  <1>10. StreamOK(c)'
    <2>1. StreamOK(c) /\ Talking(c, up[c], down[c], executed[c], client[c])
      BY <1>1, ClientTalking DEF StreamsOK
    <2>2. up[c] \in Seq(Units) /\ down[c] \in Messages /\ CallTyped(client[c])
      BY <2>1 DEF Talking
    <2>3. ASSUME Waiting(c) PROVE ClosedOK(NewSocket(c), up[c])
      <3>1. ~Served(c)  BY <1>1, <2>3 DEF Places
      <3>2. Unserved(up[c], down[c], executed[c], client[c])
        BY <1>2, <2>1, <3>1 DEF StreamOK
      <3>3. QED  BY <2>2, <3>2, NewlyServed
    <2>4. ASSUME NEW i \in Slots, ServedBy(i, c) PROVE ClosedOK(sockets[i], up[c])
      <3>1. OpenOK(sockets[i], up[c], down[c], executed[c], client[c])
        BY <1>2, <2>1, <2>4 DEF StreamOK
      <3>2. sockets[i] \in Entries  BY <1>3, <2>4 DEF ServedBy
      <3>3. QED  BY <2>2, <3>1, <3>2, ClientGone
    <2>5. up' = up /\ sockets' = sockets  BY <1>2
    <2>6. QED  BY <1>4, <1>5, <1>6, <2>3, <2>4, <2>5 DEF StreamOK
  <1>11. \A b \in Conns \ {c} : Untouched(b)
    BY <1>2, <1>4, <1>5, <1>6 DEF Untouched
  <1>12. StreamsOK'  BY <1>1, <1>10, <1>11, OthersKept
  <1>13. QED  BY <1>7, <1>8, <1>9, <1>12 DEF CallInv

LEMMA ConnectStep ==
    ASSUME CallInv, NEW c \in Conns, Connect(c)
    PROVE  CallInv'
  <1>1. /\ Types /\ Places /\ EventsTrue /\ StreamsOK  BY DEF CallInv
  <1>2. /\ life[c] = "new" /\ life' = [life EXCEPT ![c] = "open"]
        /\ server_open' = server_open \cup {c} /\ backlog' = Append(backlog, c)
        /\ UNCHANGED <<up, down, sockets, revents, consuming, executed, client>>
    BY DEF Connect
  <1>3. /\ life \in [Conns -> {"new", "open", "closed"}]
        /\ server_open \in SUBSET Conns /\ backlog \in Seq(Conns)
    BY <1>1 DEF Types
  <1>4. life'[c] = "open" /\ \A b \in Conns : b # c => life'[b] = life[b]
    BY <1>2, <1>3, Zenon
  <1>5. \A j \in Slots, b \in Conns : ServedBy(j, b)' <=> ServedBy(j, b)
    BY <1>2 DEF ServedBy
  <1>6. \A b \in Conns : Served(b)' <=> Served(b)  BY <1>5 DEF Served
  <1>7. c \notin server_open /\ ~Served(c) /\ ~Waiting(c)  BY <1>1, <1>2 DEF Places
  <1>8. PICK q : q = Append(backlog, c)  OBVIOUS
  <1>9. /\ q \in Seq(Conns) /\ q # <<>> /\ Distinct(q)
        /\ \A b : Has(q, b) <=> Has(backlog, b) \/ b = c
    BY <1>1, <1>3, <1>7, <1>8, LastQueued DEF Waiting, Places
  <1>10. /\ backlog' \in Seq(Conns) /\ backlog' # <<>> /\ Distinct(backlog')
         /\ \A b \in Conns : Waiting(b)' <=> Waiting(b) \/ b = c
    <2>1. backlog' = q  BY <1>2, <1>8
    <2>2. QED  BY <1>9, <2>1 DEF Waiting
  <1>11. Types'
    <2>1. server_open' \in SUBSET Conns /\ life' \in [Conns -> {"new", "open", "closed"}]
      BY <1>2, <1>3
    <2>2. QED  BY <1>1, <1>2, <1>10, <2>1, Zenon DEF Types
  <1>12. Places'
    <2>1. \A b \in Conns : b \in server_open' <=> Served(b)' \/ Waiting(b)'
      BY <1>1, <1>2, <1>6, <1>10 DEF Places
    <2>2. \A b \in Conns : ~(Served(b)' /\ Waiting(b)')  BY <1>1, <1>6, <1>7, <1>10 DEF Places
    <2>3. \A j, l \in Slots, b \in Conns : ServedBy(j, b)' /\ ServedBy(l, b)' => j = l
      BY <1>1, <1>5 DEF Places
    <2>4. \A b \in server_open' : life'[b] # "new"  BY <1>1, <1>2, <1>3, <1>4 DEF Places
    <2>5. QED  BY <1>10, <2>1, <2>2, <2>3, <2>4 DEF Places
  <1>13. EventsTrue'
    <2>1. ASSUME NEW i \in Slots PROVE EventOK(i)'
      <3>1. EventOK(i)  BY <1>1 DEF EventsTrue
      <3>2. \A b \in Conns : life[b] = "closed" <=> life'[b] = "closed"
        <4>1. life[c] # "closed" /\ life'[c] # "closed"  BY <1>2, <1>4
        <4>2. QED  BY <1>4, <4>1
      <3>3. sockets' = sockets /\ revents' = revents /\ up' = up /\ consuming' = consuming
        BY <1>2
      <3>4. QED  BY <1>5, <3>1, <3>2, <3>3 DEF EventOK
    <2>2. QED  BY <1>1, <1>2, <1>10, <2>1 DEF EventsTrue
  <1>14. StreamOK(c)'
    <2>1. StreamOK(c)  BY <1>1 DEF StreamsOK
    <2>2. up[c] = <<>> /\ down[c] = <<>> /\ executed[c] = <<>> /\ client[c] = Idle("none")
      BY <1>2, <2>1 DEF StreamOK
    <2>3. Unserved(up[c], down[c], executed[c], client[c])
      BY <2>2 DEF Unserved, Idle
    <2>4. \A j \in Slots : ~ServedBy(j, c)'  BY <1>5, <1>7 DEF Served
    <2>5. QED  BY <1>2, <1>4, <2>3, <2>4 DEF StreamOK
  <1>15. \A b \in Conns \ {c} : Untouched(b)
    BY <1>2, <1>4, <1>5, <1>10 DEF Untouched
  <1>16. StreamsOK'  BY <1>1, <1>14, <1>15, OthersKept
  <1>17. QED  BY <1>11, <1>12, <1>13, <1>16 DEF CallInv

-----------------------------------------------------------------------------
(* The invariant.                                                          *)

LEMMA CallInvInit == Init => CallInv
  <1> SUFFICES ASSUME Init PROVE CallInv
    OBVIOUS
  <1> USE DEF Init, ServerInit
  <1>1. Idle("none") \in InCalls /\ CallTyped(Idle("none")) /\ <<>> \in Messages
        /\ Len(<<>>) <= Room
    BY EmptySeq, ServerAssumption DEF Idle, InCalls, CallTyped, Messages
  <1>2. Types
    <2>1. up \in [Conns -> Seq(Units)] /\ executed \in [Conns -> Seq(Executions)]
          /\ backlog \in Seq(Conns)
      BY EmptySeq
    <2>2. down \in [Conns -> Messages] /\ client \in [Conns -> InCalls]
          /\ \A c \in Conns : Len(down[c]) <= Room /\ CallTyped(client[c])
      BY <1>1
    <2>3. /\ life \in [Conns -> {"new", "open", "closed"}] /\ server_open \in SUBSET Conns
          /\ sockets \in [Slots -> Entries \cup {NoSocket}]
          /\ revents \in [0 .. MaxConnections -> SUBSET {"IN", "OUT", "HUP"}]
          /\ consuming \in SUBSET Slots
      OBVIOUS
    <2>4. QED  BY <2>1, <2>2, <2>3 DEF Types
  <1>3. \A i \in Slots, c \in Conns : ~ServedBy(i, c)  BY DEF ServedBy
  <1>4. \A c \in Conns : ~Served(c) /\ ~Waiting(c)  BY <1>3 DEF Served, Waiting, Has
  <1>5. Places  BY <1>3, <1>4 DEF Places, Distinct
  <1>6. EventsTrue
    <2>1. revents[listen_idx] = {} /\ \A i \in Slots : revents[i] = {}  BY SlotsListen
    <2>2. QED  BY <1>3, <2>1 DEF EventsTrue, EventOK
  <1>7. StreamsOK  BY <1>3, <1>4 DEF StreamsOK, StreamOK
  <1>8. QED  BY <1>2, <1>5, <1>6, <1>7 DEF CallInv

LEMMA CallInvNext ==
    ASSUME ReadsNotEmpty, CallInv, [Next]_vars
    PROVE  CallInv'
  <1>1. CASE Serve  BY <1>1, ServerStep DEF Serve
  <1>2. ASSUME NEW c \in Conns, Connect(c) PROVE CallInv'  BY <1>2, ConnectStep
  <1>3. ASSUME NEW c \in Conns, Close(c) PROVE CallInv'  BY <1>3, CloseStep
  <1>4. ASSUME NEW c \in Conns, Client(c) PROVE CallInv'
    <2>1. CASE ClientSend(c)  BY <2>1, ClientSendStep
    <2>2. CASE ReceiveBase(c)  BY <2>2, ReceiveBaseStep
    <2>3. CASE ReceiveRest(c)  BY <2>3, ReceiveRestStep
    <2>4. CASE ReceiveMemory(c)  BY <2>4, ReceiveMemoryStep
    <2>5. CASE Fail(c)  BY <2>5, CloseStep DEF Fail
    <2>6. QED  BY <1>4, <2>1, <2>2, <2>3, <2>4, <2>5 DEF Client
  <1>5. ASSUME NEW c \in Conns, NEW op \in OpsOf[c], Call(c, op) PROVE CallInv'
    BY <1>5, CallStep
  <1>6. CASE UNCHANGED vars
    BY <1>6, Zenon DEF vars, serverVars, CallInv, Types, Places, EventsTrue, EventOK,
         StreamsOK, StreamOK, Served, ServedBy, Waiting
  <1>7. QED  BY <1>1, <1>2, <1>3, <1>4, <1>5, <1>6 DEF Next

\* Every reachable state of clients and daemon is as the invariant says.
THEOREM CallsFollowed == ReadsNotEmpty => (Spec => []CallInv)
  <1> SUFFICES ASSUME ReadsNotEmpty PROVE Spec => []CallInv
    OBVIOUS
  <1>1. CallInv /\ [Next]_vars => CallInv'  BY CallInvNext
  <1>2. Init => CallInv  BY CallInvInit
  <1>3. QED  BY <1>1, <1>2, PTL DEF Spec

LEMMA InvTypeOK == CallInv => TypeOK
  <1> SUFFICES ASSUME CallInv PROVE TypeOK
    OBVIOUS
  <1>1. Types /\ EventsTrue  BY DEF CallInv
  <1>2. /\ up \in [Conns -> Seq(Units)] /\ down \in [Conns -> Messages]
        /\ \A c \in Conns : Len(down[c]) <= Room
        /\ life \in [Conns -> {"new", "open", "closed"}] /\ server_open \in SUBSET Conns
        /\ backlog \in Seq(Conns) /\ sockets \in [Slots -> Entries \cup {NoSocket}]
        /\ revents \in [0 .. MaxConnections -> SUBSET {"IN", "OUT", "HUP"}]
        /\ consuming \in SUBSET Slots /\ client \in [Conns -> InCalls]
    BY <1>1 DEF Types
  <1>3. \A i \in Slots : sockets[i] = NoSocket \/ SocketOK(sockets[i])
    BY EntryInUse DEF InUse
  <1>4. Cardinality(consuming) <= 1
    <2>1. CASE consuming = {}
      <3>1. Cardinality(consuming) = 0  BY <2>1, FS_EmptySet
      <3>2. QED  BY <3>1
    <2>2. CASE consuming # {}
      <3>1. PICK i : i \in consuming  BY <2>2
      <3>2. consuming = {i}  BY <1>1, <3>1 DEF EventsTrue
      <3>3. Cardinality(consuming) = 1  BY <3>2, FS_Singleton
      <3>4. QED  BY <3>3
    <2>3. QED  BY <2>1, <2>2
  <1>5. \A c \in Conns :
         /\ client[c].stage \in {"idle", "answer", "second", "rest", "data"}
         /\ client[c].op \in Ops \cup {NoOp}
         /\ client[c].result \in Results \cup {"none", "lost"}
    BY <1>2 DEF InCalls
  <1>6. down \in [Conns -> Seq(AnswerUnits)] /\ DOMAIN sockets = Slots  BY <1>2 DEF Messages
  <1>7. QED  BY <1>2, <1>3, <1>4, <1>5, <1>6, Zenon DEF TypeOK

\* Between calls an entry is as it was when the connection was accepted.
LEMMA NothingLeft ==
    ASSUME NEW s \in Entries, NEW u \in Seq(Units), NEW d \in Messages, NEW e, NEW k,
           OpenOK(s, u, d, e, k), k.stage = "idle"
    PROVE  u = <<>> /\ d = <<>> /\ s = NewSocket(s.conn)
  <1>1. Orderly(s) /\ NothingComing(s, u) /\ Going(s, d) = <<>>
    <2>1. Between(s, u, d, e, k)
      BY DEF OpenOK, Commanded, Acknowledged, SendingData, Answered, Resting, Reading
    <2>2. QED  BY <2>1 DEF Between, OpenOK
  <1>2. d = <<>> /\ s.sending = <<>> /\ s.queue = <<>> /\ s.in_progress = FALSE
    BY <1>1, GoingFacts
  <1>3. s.cmd = NoOp /\ s.data = <<>> /\ s.buf = <<>> /\ u = <<>>
    BY <1>1 DEF NothingComing
  <1>4. s = NewSocket(s.conn)
    <2>1. PICK conn, buf, cmd, data, queue, in_progress, sending :
            s = [conn |-> conn, buf |-> buf, cmd |-> cmd, data |-> data,
                 queue |-> queue, in_progress |-> in_progress, sending |-> sending]
      BY DEF Entries
    <2>2. QED  BY <1>2, <1>3, <2>1 DEF NewSocket
  <1>5. QED  BY <1>2, <1>3, <1>4

LEMMA InvClean == CallInv => CleanBetweenCalls
  <1> SUFFICES ASSUME CallInv PROVE CleanBetweenCalls
    OBVIOUS
  <1>1. Types /\ Places /\ StreamsOK  BY DEF CallInv
  <1>2. ASSUME NEW c \in Conns, life[c] = "open", client[c].stage = "idle"
        PROVE  /\ up[c] = <<>> /\ down[c] = <<>>
               /\ \A i \in Serving(c) : sockets[i] = NewSocket(c)
    <2>1. StreamOK(c) /\ up[c] \in Seq(Units) /\ down[c] \in Messages
          /\ sockets \in [Slots -> Entries \cup {NoSocket}]
      BY <1>1 DEF StreamsOK, Types
    <2>2. ASSUME NEW i \in Slots, ServedBy(i, c)
          PROVE  up[c] = <<>> /\ down[c] = <<>> /\ sockets[i] = NewSocket(c)
      <3>1. OpenOK(sockets[i], up[c], down[c], executed[c], client[c])
        BY <1>2, <2>1, <2>2 DEF StreamOK
      <3>2. sockets[i] \in Entries /\ sockets[i].conn = c  BY <2>1, <2>2 DEF ServedBy
      <3>3. PICK s \in Entries, u \in Seq(Units), d \in Messages :
              s = sockets[i] /\ u = up[c] /\ d = down[c]
        BY <2>1, <3>2
      <3>4. u = <<>> /\ d = <<>> /\ s = NewSocket(s.conn)
        BY <1>2, <3>1, <3>3, NothingLeft
      <3>5. QED  BY <3>2, <3>3, <3>4
    <2>3. ASSUME ~Served(c) PROVE up[c] = <<>> /\ down[c] = <<>>
      <3>1. Unserved(up[c], down[c], executed[c], client[c])  BY <1>2, <2>1, <2>3 DEF StreamOK
      <3>2. QED  BY <1>2, <3>1 DEF Unserved
    <2>4. QED  BY <2>2, <2>3 DEF Served, Serving, ServedBy
  <1>3. ASSUME NEW c \in Conns
        PROVE  Cardinality(Serving(c)) + Cardinality({m \in DOMAIN backlog : backlog[m] = c})
                 = (IF c \in server_open THEN 1 ELSE 0)
    <2>1. /\ c \in server_open <=> Served(c) \/ Waiting(c)
          /\ ~(Served(c) /\ Waiting(c)) /\ Distinct(backlog)
          /\ \A i, j \in Slots : ServedBy(i, c) /\ ServedBy(j, c) => i = j
      BY <1>1 DEF Places
    <2>2. Cardinality(Serving(c)) = IF Served(c) THEN 1 ELSE 0
      <3>1. CASE Served(c)
        <4>1. PICK i \in Slots : ServedBy(i, c)  BY <3>1 DEF Served
        <4>2. Serving(c) = {i}  BY <2>1, <4>1 DEF Serving, ServedBy
        <4>3. QED  BY <3>1, <4>2, FS_Singleton
      <3>2. CASE ~Served(c)
        <4>1. Serving(c) = {}  BY <3>2 DEF Served, Serving, ServedBy
        <4>2. QED  BY <3>2, <4>1, FS_EmptySet
      <3>3. QED  BY <3>1, <3>2
    <2>3. Cardinality({m \in DOMAIN backlog : backlog[m] = c}) = IF Waiting(c) THEN 1 ELSE 0
      <3>1. CASE Waiting(c)
        <4>1. PICK n \in DOMAIN backlog : backlog[n] = c  BY <3>1 DEF Waiting, Has
        <4>2. {m \in DOMAIN backlog : backlog[m] = c} = {n}  BY <2>1, <4>1 DEF Distinct
        <4>3. QED  BY <3>1, <4>2, FS_Singleton
      <3>2. CASE ~Waiting(c)
        <4>1. {m \in DOMAIN backlog : backlog[m] = c} = {}  BY <3>2 DEF Waiting, Has
        <4>2. QED  BY <3>2, <4>1, FS_EmptySet
      <3>3. QED  BY <3>1, <3>2
    <2>4. QED  BY <2>1, <2>2, <2>3
  <1>4. QED  BY <1>2, <1>3 DEF CleanBetweenCalls

\* What the server and its clients keep is of its type: no queue grows beyond the
\* answer of one call, and an entry that waits for data lacks some.
THEOREM DaemonTypes == ReadsNotEmpty => (Spec => []TypeOK)
  BY CallsFollowed, InvTypeOK, PTL

\* Between calls nothing is left of a call, in a stream, in a buffer or in a queue,
\* and the server has each connection it has open in one place.
THEOREM DaemonClean == ReadsNotEmpty => (Spec => []CleanBetweenCalls)
  BY CallsFollowed, InvClean, PTL

-----------------------------------------------------------------------------
(* Remote calls.  A step of the code is a step of the calls of one         *)
(* connection, or none.                                                    *)

Returned(c) ==
    IF client[c].stage = "idle" /\ life[c] = "open" THEN client[c].result ELSE "none"

Kept(b) == CallState(b)' = CallState(b) /\ Returned(b)' = Returned(b)

Moves(c) ==
    \/ Kept(c)
    \/ CallState(c) = "idle" /\ CallState(c)' = "called" /\ Returned(c)' = "none"
    \/ CallState(c) = "called" /\ CallState(c)' \in Results /\ Returned(c)' = Returned(c)
    \/ CallState(c) \in Results /\ CallState(c)' = "idle" /\ Returned(c)' = CallState(c)
    \/ CallState(c) # "over" /\ CallState(c)' = "over" /\ Returned(c)' = "none"

OneMoves == (\A b \in Conns : Kept(b))
            \/ \E c \in Conns : Moves(c) /\ \A b \in Conns \ {c} : Kept(b)

LEMMA CallsMove ==
    ASSUME OneMoves
    PROVE  [Calls!Next]_Calls!callVars
  <1> DEFINE st == [c \in Conns |-> CallState(c)]
             rt == [c \in Conns |-> Returned(c)]
  <1>0. ASSUME st' = st, rt' = rt PROVE [Calls!Next]_Calls!callVars
    BY <1>0 DEF Calls!callVars, Returned
  <1>1. CASE \A b \in Conns : Kept(b)
    <2>1. st' = st /\ rt' = rt  BY <1>1 DEF Kept
    <2>2. QED  BY <1>0, <2>1
  <1>2. ASSUME NEW c \in Conns, Moves(c), \A b \in Conns \ {c} : Kept(b)
        PROVE  [Calls!Next]_Calls!callVars
    <2>1. /\ st' = [st EXCEPT ![c] = CallState(c)']
          /\ rt' = [rt EXCEPT ![c] = Returned(c)']
          /\ st[c] = CallState(c) /\ rt[c] = Returned(c)
      BY <1>2 DEF Kept
    <2>2. CASE Kept(c)
      <3>1. st' = st /\ rt' = rt  BY <2>1, <2>2 DEF Kept
      <3>2. QED  BY <1>0, <3>1
    <2>3. CASE CallState(c) = "idle" /\ CallState(c)' = "called" /\ Returned(c)' = "none"
      <3>1. Calls!Call(c)  BY <2>1, <2>3 DEF Calls!Call, Returned
      <3>2. QED  BY <3>1 DEF Calls!Next
    <2>4. CASE CallState(c) = "called" /\ CallState(c)' \in Results
               /\ Returned(c)' = Returned(c)
      <3>1. rt' = rt  BY <2>1, <2>4
      <3>2. Calls!Execute(c, CallState(c)')  BY <2>1, <2>4, <3>1 DEF Calls!Execute, Returned
      <3>3. QED  BY <2>4, <3>2 DEF Calls!Next
    <2>5. CASE CallState(c) \in Results /\ CallState(c)' = "idle"
               /\ Returned(c)' = CallState(c)
      <3>1. Calls!Return(c)  BY <2>1, <2>5 DEF Calls!Return, Returned
      <3>2. QED  BY <3>1 DEF Calls!Next
    <2>6. CASE CallState(c) # "over" /\ CallState(c)' = "over" /\ Returned(c)' = "none"
      <3>1. Calls!Lose(c)  BY <2>1, <2>6 DEF Calls!Lose, Returned
      <3>2. QED  BY <3>1 DEF Calls!Next
    <2>7. QED  BY <1>2, <2>2, <2>3, <2>4, <2>5, <2>6 DEF Moves
  <1>3. QED  BY <1>1, <1>2 DEF OneMoves

\* What CallState says of a call that has been executed, and of one that has not.
StateOf(l, k, e) ==
    IF l = "closed" THEN "over"
    ELSE IF k.stage = "idle" THEN "idle"
    ELSE IF e = <<>> THEN "called"
    ELSE IF /\ Len(e) = 1
            /\ e[1].op = k.op
            /\ e[1].data = IF k.op.kind = "write" THEN Payload(k.op) ELSE <<>>
         THEN e[1].result
    ELSE "wrong"

LEMMA StateExecuted ==
    ASSUME NEW l, NEW k, NEW r, l # "closed", k.stage # "idle"
    PROVE  StateOf(l, k, <<Execution(k.op, r)>>) = r
  <1>1. PICK e : e = <<Execution(k.op, r)>>  OBVIOUS
  <1>2. e # <<>> /\ Len(e) = 1 /\ e[1] = Execution(k.op, r)  BY <1>1
  <1>3. /\ e[1].op = k.op /\ e[1].result = r
        /\ e[1].data = IF k.op.kind = "write" THEN Payload(k.op) ELSE <<>>
    BY <1>2 DEF Execution
  <1>4. StateOf(l, k, e) = r  BY <1>2, <1>3, Zenon DEF StateOf
  <1>5. QED  BY <1>1, <1>4, Zenon

LEMMA StateFacts ==
    ASSUME NEW l, NEW k, NEW e \in Seq(Executions), l # "closed"
    PROVE  /\ k.stage = "idle" => StateOf(l, k, e) = "idle"
           /\ k.stage # "idle" /\ e = <<>> => StateOf(l, k, e) = "called"
           /\ StateOf(l, k, e) # "over"
  <1>1. k.stage = "idle" => StateOf(l, k, e) = "idle"  BY DEF StateOf
  <1>2. k.stage # "idle" /\ e = <<>> => StateOf(l, k, e) = "called"  BY DEF StateOf
  <1>4. StateOf(l, k, e) # "over"
    <2>1. ASSUME Len(e) = 1 PROVE e[1].result # "over"
      <3>1. e[1] \in Executions  BY <2>1, ElementOfSeq
      <3>2. e[1].result \in Results  BY <3>1 DEF Executions
      <3>3. QED  BY <3>2 DEF Results
    <2>2. QED  BY <2>1 DEF StateOf
  <1>5. QED  BY <1>1, <1>2, <1>4

LEMMA StateNow ==
    ASSUME NEW c \in Conns
    PROVE  /\ CallState(c) = StateOf(life[c], client[c], executed[c])
           /\ CallState(c)' = StateOf(life'[c], client'[c], executed'[c])
  BY Zenon DEF CallState, StateOf

LEMMA KeptWhole ==
    ASSUME NEW b \in Conns, life'[b] = life[b], executed'[b] = executed[b],
           client'[b] = client[b]
    PROVE  Kept(b)
  BY Zenon DEF Kept, CallState, Returned

\* Executing a call.
LEMMA ExecutingMoves ==
    ASSUME CallInv, CallInv', ExecutesOnce, UNCHANGED <<life, client>>
    PROVE  OneMoves
  <1>1. CASE UNCHANGED executed
    <2>1. \A b \in Conns : Kept(b)  BY <1>1, KeptWhole
    <2>2. QED  BY <2>1 DEF OneMoves
  <1>2. ASSUME NEW c, NEW e, ExecutesFor(c, e) PROVE OneMoves
    <2>1. c \in Conns /\ executed' = [executed EXCEPT ![c] = e]
          /\ executed \in [Conns -> Seq(Executions)]
          /\ life[c] \in {"new", "open", "closed"}
      BY <1>2 DEF ExecutesFor, CallInv, Types
    <2>2. \A b \in Conns \ {c} : Kept(b)  BY <2>1, KeptWhole
    <2>3. Moves(c)
      <3>1. CASE life[c] = "open"
        <4>1. PICK r \in Results : e = <<Execution(client[c].op, r)>>
          BY <1>2, <3>1 DEF ExecutesFor
        <4>2. client[c].stage # "idle" /\ executed[c] = <<>>  BY <1>2, <3>1 DEF ExecutesFor
        <4>3. CallState(c) = "called"
          <5>1. StateOf("open", client[c], executed[c]) = "called"
            BY <2>1, <4>2, StateFacts
          <5>2. QED  BY <2>1, <3>1, <5>1, StateNow
        <4>4. CallState(c)' = r
          <5>1. life'[c] = "open" /\ client'[c] = client[c] /\ executed'[c] = e
                /\ executed'[c] \in Seq(Executions)
            BY <2>1, <3>1 DEF CallInv, Types
          <5>2. StateOf("open", client[c], <<Execution(client[c].op, r)>>) = r
            <6>1. "open" # "closed" /\ client[c].stage # "idle"  BY <4>2
            <6>2. QED  BY <6>1, StateExecuted, Zenon
          <5>3. QED  BY <2>1, <4>1, <5>1, <5>2, StateNow, Zenon
        <4>5. Returned(c)' = Returned(c)  BY DEF Returned
        <4>6. QED  BY <4>1, <4>3, <4>4, <4>5 DEF Moves
      <3>2. CASE life[c] = "closed"
        <4>1. Kept(c)  BY <3>2 DEF Kept, CallState, Returned
        <4>2. QED  BY <4>1 DEF Moves
      <3>3. CASE life[c] = "new"
        <4>1. client[c].stage = "idle"
          BY <2>1, <3>3 DEF CallInv, StreamsOK, StreamOK, Idle
        <4>2. Kept(c)  BY <3>3, <4>1 DEF Kept, CallState, Returned
        <4>3. QED  BY <4>2 DEF Moves
      <3>4. QED  BY <2>1, <3>1, <3>2, <3>3
    <2>4. QED  BY <2>1, <2>2, <2>3 DEF OneMoves
  <1>3. QED  BY <1>1, <1>2 DEF ExecutesOnce

\* A call goes on, or returns.
LEMMA GoingMoves ==
    ASSUME CallInv, NEW c \in Conns, NEW l, GoesOn(c, l)
    PROVE  OneMoves
  <1>1. /\ client' = [client EXCEPT ![c] = l] /\ UNCHANGED <<life, executed>>
        /\ client[c].stage # "idle"
        /\ l.stage # "idle" => l.op = client[c].op
        /\ l.stage = "idle" =>
             l.result \in Results /\ executed[c] = <<Execution(client[c].op, l.result)>>
        /\ client \in [Conns -> InCalls]
    BY DEF GoesOn, CallInv, Types
  <1>2. client'[c] = l /\ \A b \in Conns : b # c => client'[b] = client[b]  BY <1>1
  <1>3. \A b \in Conns \ {c} : Kept(b)  BY <1>1, <1>2, KeptWhole
  <1>4. life[c] = "open"  BY <1>1, ClientTalking DEF Talking
  <1>5. CASE l.stage = "idle"
    <2>1. CallState(c) = l.result
      <3>1. StateOf("open", client[c], <<Execution(client[c].op, l.result)>>) = l.result
        BY <1>1, StateExecuted
      <3>2. QED  BY <1>1, <1>4, <1>5, <3>1, StateNow, Zenon
    <2>2. CallState(c)' = "idle" /\ Returned(c)' = l.result
      BY <1>1, <1>2, <1>4, <1>5 DEF CallState, Returned
    <2>3. Moves(c)  BY <1>1, <1>5, <2>1, <2>2 DEF Moves
    <2>4. QED  BY <1>3, <2>3 DEF OneMoves
  <1>6. CASE l.stage # "idle"
    <2>1. client'[c].op = client[c].op /\ client'[c].stage # "idle"
          /\ life' = life /\ executed' = executed
      BY <1>1, <1>2, <1>6
    <2>2. CallState(c)' = CallState(c)  BY <1>1, <2>1, Zenon DEF CallState
    <2>3. Returned(c)' = Returned(c)  BY <1>1, <2>1 DEF Returned
    <2>4. Moves(c)  BY <2>2, <2>3 DEF Moves, Kept
    <2>5. QED  BY <1>3, <2>4 DEF OneMoves
  <1>7. QED  BY <1>5, <1>6

LEMMA ClosingMoves ==
    ASSUME CallInv, NEW c \in Conns, Close(c)
    PROVE  OneMoves
  <1>1. /\ life[c] = "open" /\ life' = [life EXCEPT ![c] = "closed"]
        /\ client' = [client EXCEPT ![c] = Idle("lost")] /\ UNCHANGED executed
        /\ client \in [Conns -> InCalls] /\ life \in [Conns -> {"new", "open", "closed"}]
        /\ executed \in [Conns -> Seq(Executions)]
    BY DEF Close, CallInv, Types
  <1>2. /\ life'[c] = "closed"
        /\ \A b \in Conns : b # c => client'[b] = client[b] /\ life'[b] = life[b]
    BY <1>1
  <1>3. \A b \in Conns \ {c} : Kept(b)  BY <1>1, <1>2, KeptWhole
  <1>4. CallState(c)' = "over" /\ Returned(c)' = "none"  BY <1>2 DEF CallState, Returned
  <1>5. CallState(c) # "over"
    <2>1. StateOf("open", client[c], executed[c]) # "over"  BY <1>1, StateFacts
    <2>2. QED  BY <1>1, <2>1, StateNow
  <1>6. QED  BY <1>3, <1>4, <1>5 DEF OneMoves, Moves

LEMMA CallMoves ==
    ASSUME CallInv, NEW c \in Conns, NEW op \in OpsOf[c], Call(c, op)
    PROVE  OneMoves
  <1>1. PICK l : l = CalledFor(client[c], op)  OBVIOUS
  <1>2. /\ client' = [client EXCEPT ![c] = l]
        /\ executed' = [executed EXCEPT ![c] = <<>>] /\ UNCHANGED life
        /\ life[c] = "open" /\ client[c].stage = "idle"
        /\ client \in [Conns -> InCalls] /\ executed \in [Conns -> Seq(Executions)]
    BY <1>1, Zenon DEF Call, CalledFor, CallInv, Types
  <1>3. /\ client'[c] = l /\ executed'[c] = <<>>
        /\ \A b \in Conns : b # c => client'[b] = client[b] /\ executed'[b] = executed[b]
    BY <1>2
  <1>4. l.stage = "answer"
    <2>1. client[c] \in InCalls  BY <1>2
    <2>2. QED  BY <1>1, <2>1 DEF CalledFor, InCalls
  <1>5. \A b \in Conns \ {c} : Kept(b)  BY <1>2, <1>3, KeptWhole
  <1>6. CallState(c) = "idle"  BY <1>2 DEF CallState
  <1>7. CallState(c)' = "called" /\ Returned(c)' = "none"
    BY <1>2, <1>3, <1>4 DEF CallState, Returned
  <1>8. QED  BY <1>5, <1>6, <1>7 DEF OneMoves, Moves

LEMMA ConnectMoves ==
    ASSUME CallInv, NEW c \in Conns, Connect(c)
    PROVE  OneMoves
  <1>1. /\ life[c] = "new" /\ life' = [life EXCEPT ![c] = "open"]
        /\ UNCHANGED <<executed, client>> /\ life \in [Conns -> {"new", "open", "closed"}]
    BY DEF Connect, CallInv, Types
  <1>2. life'[c] = "open" /\ \A b \in Conns : b # c => life'[b] = life[b]  BY <1>1
  <1>3. client[c].stage = "idle" /\ client[c].result = "none"
    BY <1>1 DEF CallInv, StreamsOK, StreamOK, Idle
  <1>4. Kept(c)  BY <1>1, <1>2, <1>3 DEF Kept, CallState, Returned
  <1>5. \A b \in Conns \ {c} : Kept(b)  BY <1>1, <1>2, KeptWhole
  <1>6. QED  BY <1>4, <1>5 DEF OneMoves

LEMMA StepMoves ==
    ASSUME ReadsNotEmpty, CallInv, [Next]_vars
    PROVE  OneMoves
  <1>1. CASE Serve
    <2>1. CallInv' /\ UNCHANGED <<life, client>> /\ ExecutesOnce
      BY <1>1, ServerStep DEF Serve
    <2>2. QED  BY <2>1, ExecutingMoves
  <1>2. ASSUME NEW c \in Conns, Connect(c) PROVE OneMoves  BY <1>2, ConnectMoves
  <1>3. ASSUME NEW c \in Conns, Close(c) PROVE OneMoves  BY <1>3, ClosingMoves
  <1>4. ASSUME NEW c \in Conns, Client(c) PROVE OneMoves
    <2>1. CASE ClientSend(c)  BY <2>1, ClientSendStep, GoingMoves
    <2>2. CASE ReceiveBase(c)  BY <2>2, ReceiveBaseStep, GoingMoves
    <2>3. CASE ReceiveRest(c)  BY <2>3, ReceiveRestStep, GoingMoves
    <2>4. CASE ReceiveMemory(c)  BY <2>4, ReceiveMemoryStep, GoingMoves
    <2>5. CASE Fail(c)  BY <2>5, ClosingMoves DEF Fail
    <2>6. QED  BY <1>4, <2>1, <2>2, <2>3, <2>4, <2>5 DEF Client
  <1>5. ASSUME NEW c \in Conns, NEW op \in OpsOf[c], Call(c, op) PROVE OneMoves
    BY <1>5, CallMoves
  <1>6. CASE UNCHANGED vars
    <2>1. \A b \in Conns : Kept(b)  BY <1>6, KeptWhole DEF vars, serverVars
    <2>2. QED  BY <2>1 DEF OneMoves
  <1>7. QED  BY <1>1, <1>2, <1>3, <1>4, <1>5, <1>6 DEF Next

\* Clients and daemon implement remote calls: each call is executed at most once,
\* with its own operation and data, and returns its own result, however the streams
\* are cut, whichever clients go, and in whatever order the server serves them.
THEOREM DaemonImplementsCalls == ReadsNotEmpty => (Spec => ImplementsRemoteCalls)
  <1> SUFFICES ASSUME ReadsNotEmpty PROVE Spec => ImplementsRemoteCalls
    OBVIOUS
  <1>1. Init => Calls!Init
    BY DEF Init, ServerInit, Calls!Init, CallState, Idle
  <1>2. CallInv /\ [Next]_vars => [Calls!Next]_Calls!callVars
    BY StepMoves, CallsMove
  <1>3. Spec => []CallInv  BY CallsFollowed
  <1>4. QED  BY <1>1, <1>2, <1>3, PTL DEF Spec, ImplementsRemoteCalls, Calls!Spec
=============================================================================
