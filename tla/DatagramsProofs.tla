---------------------------- MODULE DatagramsProofs ----------------------------
(***************************************************************************)
(* Proofs about Datagrams, for headers, chunks, buffers and datagrams of   *)
(* any size.  What is still to be read is in two places, the buffer and    *)
(* the paused transfer; end to end they are a row of datagrams, of which   *)
(* the first may have been begun.                                          *)
(***************************************************************************)
EXTENDS Datagrams, TLAPS

-----------------------------------------------------------------------------
(* The inductive invariant.                                                  *)

Answers == [k : {"bind"}, x : Sessions, ok : BOOLEAN] \union
           [k : {"from"}, x : Sessions, d : 0..MaxDatagrams, size : 0..MaxSize]

Units == Unit \union {Stale}
Sockets == [used : BOOLEAN, session : 0..MaxSessions, pending : BOOLEAN, user : Int]
Buffers == [flag : SUBSET {"binding", "bind", "full"}, head : Nat, tail : Nat,
            mem : [1..UdpSize -> Units]]
Chips == [x : 0..MaxSessions, phase : {"none", "binding", "bound"}, asked : Nat, sent : Nat]

Types ==
  /\ sock \in Sockets /\ buf \in Buffers /\ chip \in Chips
  /\ gu16SessionID \in 0..MaxSessions
  /\ hif_small_xfer \in 0..3 /\ rest \in Seq(Unit) /\ _socket \in BOOLEAN
  /\ hif_small_xfer = 0 => rest = <<>>
  /\ _rcvSize \in 0..MaxSize
  /\ line \in Seq(Answers)
  /\ \A i \in 1..Len(line) : line[i].k = "from" /\ line[i].size > 0 => line[i].d > 0
  /\ chip.sent <= made
  /\ got \in Seq(Units)
  /\ crowded \in BOOLEAN /\ misbound \in BOOLEAN /\ hushed \in BOOLEAN /\ torn \in BOOLEAN
  /\ made \in 0..MaxDatagrams /\ faults \in 0..MaxFaults

\* There is one socket or none; the answers come in the order of the sockets.
SessionInv ==
  /\ IF sock.used THEN sock.session = gu16SessionID /\ chip.x = gu16SessionID /\ gu16SessionID > 0
     ELSE sock = Closed /\ chip = Nobody /\ "full" \notin buf.flag /\ buf.head = 0 /\ buf.tail = 0
  /\ \A i \in 1..Len(line) : line[i].x <= gu16SessionID
  /\ \A i, j \in 1..Len(line) : i < j => line[i].x <= line[j].x

Binding == "binding" \in buf.flag

\* A socket that waits for the answer to its BIND is as begin() left it; it waits
\* in vain when the answer was not read.
BindInv ==
  sock.used /\ ~misbound /\ Binding =>
    /\ buf.flag = {"binding"} /\ buf.head = 0 /\ buf.tail = 0 /\ got = <<>>
    /\ ~sock.pending /\ sock.user = None /\ chip.asked = 0 /\ chip.sent = 0
    /\ \/ chip.phase = "binding" /\ \A i \in 1..Len(line) : line[i].x < gu16SessionID
       \/ /\ chip.phase # "binding" /\ line # <<>> /\ line[Len(line)].k = "bind"
          /\ line[Len(line)].x = gu16SessionID
          /\ \A i \in 1..(Len(line) - 1) : line[i].x < gu16SessionID
       \/ /\ chip.phase # "binding" /\ faults > 0
          /\ \A i \in 1..Len(line) : line[i].x < gu16SessionID

\* Then at most one RECVFROM is unanswered, and the pending flag says whether, until
\* a request is not sent or an answer not read.
RecvInv ==
  sock.used /\ ~misbound /\ ~Binding =>
    /\ chip.phase # "binding"
    /\ \/ chip.asked = 1 /\ line = <<>> /\ sock.pending
       \/ /\ chip.asked = 0 /\ Len(line) = 1 /\ sock.pending
          /\ line[1].k = "from" /\ line[1].x = gu16SessionID /\ line[1].d = chip.sent
       \/ chip.asked = 0 /\ line = <<>> /\ (~sock.pending \/ faults > 0)

Last == got[Len(got)]

\* What has been read is in order, and _rcvSize what is left of the last datagram.
GotInv ==
  ~Spoilt =>
    /\ got # <<>> => /\ got[1].n = 0 /\ got[1].x = gu16SessionID
                     /\ Last \in Unit /\ Last.x = gu16SessionID /\ Last.n <= Last.of
    /\ \A i \in 1..(Len(got) - 1) : Follows(got[i], got[i + 1])
    /\ _rcvSize = IF got = <<>> THEN 0 ELSE Last.of - Last.n

Ready == sock.used /\ ~Spoilt /\ ~Binding

\* A transfer goes on, or the next datagram comes, where there is room for it.
PlaceInv ==
  Ready =>
    /\ buf.tail < buf.head \/ (buf.tail = 0 /\ buf.head = 0)
    /\ buf.head <= UdpSize
    /\ sock.user \in Int /\ sock.user >= None /\ (sock.user <= Hdr \/ sock.user <= UdpSize - Mtu)
    /\ IF hif_small_xfer = 0
       THEN /\ ~Full
            /\ sock.pending => sock.user = buf.head + Hdr
            /\ ~sock.pending /\ ~hushed /\ faults = 0 /\ "bind" \in buf.flag => buf.head > 0
       ELSE /\ rest # <<>>
            /\ ~Full => sock.user = buf.head

\* The row of what is still to be read
Rest == IF hif_small_xfer = 0 THEN <<>> ELSE rest
End == buf.head + Len(Rest)
At(p) == IF p <= buf.head THEN buf.mem[p] ELSE rest[p - buf.head]

\* The number of the datagram that comes next from the chip
Coming == IF line # <<>> /\ line[1].size > 0 THEN chip.sent ELSE chip.sent + 1

\* Datagram e comes after d, and if no transfer has failed at once.
Before(f, d, e) == d < e /\ (f = 0 => e = d + 1)

\* In the row a datagram is behind each offset of O: header and data, and then another.
Row(O) ==
  \A o \in O :
    LET u == At(o + 1)
        e == o + Hdr + u.of
    IN /\ o \in Nat /\ buf.tail <= o /\ o + Hdr < buf.head /\ e <= End
       /\ u \in Unit /\ u.n = 0 /\ u.x = gu16SessionID
       /\ \A j \in 1..Hdr : At(o + j) = u
       /\ \A j \in 1..u.of : At(o + Hdr + j) = [u EXCEPT !.n = j]
       /\ IF e = End THEN Before(faults, u.d, Coming)
          ELSE e \in O /\ Before(faults, u.d, At(e + 1).d)

\* It begins with what is left of the last datagram.
Begun(O) ==
  LET e == buf.tail + _rcvSize
      d == IF got = <<>> THEN 0 ELSE Last.d
  IN /\ \A j \in 1.._rcvSize : At(buf.tail + j) = [Last EXCEPT !.n = @ + j]
     /\ e <= End
     /\ IF e = End THEN Before(faults, d, Coming)
        ELSE e \in O /\ Before(faults, d, At(e + 1).d)

RowInv == Ready => \E O \in SUBSET (0..UdpSize) : Row(O) /\ Begun(O)

IInv == Types /\ SessionInv /\ BindInv /\ RecvInv /\ GotInv /\ PlaceInv /\ RowInv
-----------------------------------------------------------------------------
(* The buffer and the parts of a datagram.                                   *)

LEMMA Bounds ==
  /\ Hdr \in Nat /\ Hdr > 0 /\ Mtu \in Nat /\ Mtu > 0 /\ UdpSize \in Nat /\ Hdr <= UdpSize /\ Mtu <= UdpSize
  /\ MaxSize \in Nat /\ MaxSize > 0 /\ MaxSessions \in Nat /\ MaxSessions > 0
  /\ MaxDatagrams \in Nat /\ MaxFaults \in Nat
BY DatagramAssumption

\* The first part and what is left
LEMMA ChunkFacts ==
  ASSUME NEW data \in Seq(Unit)
  PROVE  /\ Chunk(data) \in Seq(Unit) /\ Len(data) \in Nat
         /\ SubSeq(data, Mtu + 1, Len(data)) \in Seq(Unit)
         /\ Len(Chunk(data)) = IF Len(data) > Mtu THEN Mtu ELSE Len(data)
         /\ \A i \in 1..Len(Chunk(data)) : Chunk(data)[i] = data[i]
         /\ Len(SubSeq(data, Mtu + 1, Len(data))) = IF Len(data) > Mtu THEN Len(data) - Mtu ELSE 0
         /\ \A i \in 1..(Len(data) - Mtu) : SubSeq(data, Mtu + 1, Len(data))[i] = data[Mtu + i]
BY Bounds DEF Chunk

LEMMA PutFacts ==
  ASSUME NEW mem \in [1..UdpSize -> Units], NEW at \in Int, NEW data \in Seq(Unit)
  PROVE  /\ Put(mem, at, data) \in [1..UdpSize -> Units]
         /\ \A i \in 1..UdpSize : Put(mem, at, data)[i] =
              IF i \in (at + 1)..(at + Len(data)) THEN data[i - at] ELSE mem[i]
<1>1. DOMAIN mem = 1..UdpSize /\ Len(data) \in Nat
  OBVIOUS
<1>2. \A i \in 1..UdpSize : i \in (at + 1)..(at + Len(data)) => data[i - at] \in Unit
  <2> SUFFICES ASSUME NEW i \in 1..UdpSize, i \in (at + 1)..(at + Len(data))
               PROVE  data[i - at] \in Unit
    OBVIOUS
  <2>1. i - at \in 1..Len(data)
    BY <1>1, Bounds
  <2> QED BY <2>1
<1> QED BY <1>1, <1>2 DEF Put, Units

LEMMA HeaderFacts ==
  ASSUME NEW u \in Unit
  PROVE  /\ HeaderOf(u) \in Seq(Unit) /\ Len(HeaderOf(u)) = Hdr
         /\ \A i \in 1..Hdr : HeaderOf(u)[i] = [u EXCEPT !.n = 0]
<1>1. [u EXCEPT !.n = 0] \in Unit
  BY Bounds DEF Unit
<1> QED BY <1>1, Bounds DEF HeaderOf

-----------------------------------------------------------------------------
(* Asking for a datagram, and storing a part of one.                         *)

LEMMA RecvfromEffect ==
  ASSUME NEW k \in Sockets, chip \in Chips, faults \in 0..MaxFaults, NEW at \in Int,
         Recvfrom(k, at)
  PROVE  /\ sock' \in Sockets /\ chip' \in Chips
         /\ chip'.x = chip.x /\ chip'.phase = chip.phase /\ chip'.sent = chip.sent
         /\ sock'.used = k.used /\ sock'.session = k.session
         /\ ~k.used => sock' = k /\ chip' = chip
         /\ faults' \in 0..MaxFaults /\ faults' >= faults
         /\ k.used => sock'.pending /\ sock'.user = at
         /\ k.used /\ chip.x = k.session =>
              chip'.asked = (IF k.pending THEN chip.asked ELSE chip.asked + 1)
              \/ (~k.pending /\ faults' > 0 /\ chip'.asked = chip.asked)
<1>0. faults \in Nat /\ faults <= MaxFaults
  BY Bounds
<1>1. CASE ~k.used
  BY <1>0, <1>1 DEF Recvfrom
<1>2. CASE k.used
  <2>1. sock' = [k EXCEPT !.user = at, !.pending = TRUE]
    BY <1>2 DEF Recvfrom
  <2>2. sock' \in Sockets /\ sock'.used = k.used /\ sock'.session = k.session
        /\ sock'.pending /\ sock'.user = at
    BY <2>1 DEF Sockets
  <2>3. CASE k.pending \/ chip.x # k.session
    <3>1. chip' = chip
      BY <1>2, <2>3 DEF Recvfrom
    <3>2. faults' = faults \/ (~k.pending /\ faults < MaxFaults /\ faults' = faults + 1)
      BY <1>2 DEF Recvfrom, Fails
    <3>3. faults' \in 0..MaxFaults /\ faults' >= faults
      BY <3>2, <1>0, Bounds
    <3> QED BY <1>2, <2>2, <2>3, <3>1, <3>2, <3>3, <1>0
  <2>4. CASE ~k.pending /\ chip' = chip /\ Fails
    <3>1. faults' = faults + 1 /\ faults < MaxFaults
      BY <2>4 DEF Fails
    <3>2. faults' \in 0..MaxFaults /\ faults' > 0 /\ faults' >= faults
      BY <3>1, <1>0, Bounds
    <3> QED BY <1>2, <2>2, <2>4, <3>2
  <2>5. CASE /\ ~k.pending /\ chip.x = k.session /\ faults' = faults
             /\ chip' = [chip EXCEPT !.asked = @ + 1]
    BY <2>5, <2>2, <1>0, <1>2 DEF Chips
  <2> QED BY <1>2, <2>3, <2>4, <2>5 DEF Recvfrom
<1> QED BY <1>1, <1>2

\* The buffer with the part data of a datagram in it
Stored(k, s, data, more) ==
  LET h == buf.head + (IF s < 2 THEN Hdr ELSE 0) + Len(data) IN
  /\ buf'.head = h /\ buf'.tail = buf.tail
  /\ buf'.flag = buf.flag \union (IF more /\ ~Room(h) THEN {"full"} ELSE {})
  /\ \A i \in 1..UdpSize : buf'.mem[i] =
       IF s < 2 /\ i \in (buf.head + 1)..(buf.head + Hdr) THEN [data[1] EXCEPT !.n = 0]
       ELSE IF i \in (k.user + 1)..(k.user + Len(data)) THEN data[i - k.user]
       ELSE buf.mem[i]
  /\ crowded' <=> crowded \/ h > UdpSize \/ (s = 3 /\ ~Room(h) /\ k.pending)
  /\ Room(h) => Recvfrom(k, IF s \in {1, 2} THEN h ELSE h + Hdr)
  /\ ~Room(h) => sock' = k /\ chip' = chip /\ faults' = faults

LEMMA CbRecvfromEffect ==
  ASSUME NEW k \in Sockets, chip \in Chips, buf \in Buffers, crowded \in BOOLEAN,
         faults \in 0..MaxFaults, NEW s \in 0..3, NEW data \in Seq(Unit), s < 2 => data # <<>>, NEW more \in BOOLEAN,
         CbRecvfrom(k, s, data, more)
  PROVE  /\ sock' \in Sockets /\ chip' \in Chips /\ buf' \in Buffers /\ crowded' \in BOOLEAN
         /\ chip'.x = chip.x /\ chip'.phase = chip.phase /\ chip'.sent = chip.sent
         /\ sock'.used = k.used /\ sock'.session = k.session
         /\ faults' \in 0..MaxFaults /\ faults' >= faults
         /\ Stored(k, s, data, more)
<1> DEFINE h == buf.head + (IF s < 2 THEN Hdr ELSE 0) + Len(data)
           stored == Put(buf.mem, k.user, data)
           f == buf.flag \union (IF more /\ ~Room(h) THEN {"full"} ELSE {})
           m == IF s < 2 THEN Put(stored, buf.head, HeaderOf(data[1])) ELSE stored
<1>1. /\ buf' = [buf EXCEPT !.mem = m, !.head = h, !.flag = f]
      /\ IF Room(h) THEN Recvfrom(k, IF s \in {1, 2} THEN h ELSE h + Hdr) 
         ELSE sock' = k /\ chip' = chip /\ faults' = faults
      /\ crowded' = (crowded \/ h > UdpSize \/ (s = 3 /\ ~Room(h) /\ k.pending))
  BY DEF CbRecvfrom
<1>2. h \in Nat /\ k.user \in Int /\ buf.head \in Nat /\ buf.mem \in [1..UdpSize -> Units]
  <2>1. k.user \in Int /\ buf.head \in Nat /\ buf.mem \in [1..UdpSize -> Units]
    BY DEF Buffers, Sockets
  <2>2. Len(data) \in Nat /\ (IF s < 2 THEN Hdr ELSE 0) \in Nat
    BY Bounds
  <2> QED BY <2>1, <2>2
<1>3. /\ stored \in [1..UdpSize -> Units]
      /\ \A i \in 1..UdpSize : stored[i] =
           IF i \in (k.user + 1)..(k.user + Len(data)) THEN data[i - k.user] ELSE buf.mem[i]
  BY <1>2, PutFacts
<1>4. /\ m \in [1..UdpSize -> Units]
      /\ \A i \in 1..UdpSize : m[i] =
           IF s < 2 /\ i \in (buf.head + 1)..(buf.head + Hdr) THEN [data[1] EXCEPT !.n = 0]
           ELSE IF i \in (k.user + 1)..(k.user + Len(data)) THEN data[i - k.user]
           ELSE buf.mem[i]
  <2>1. CASE s < 2
    <3> DEFINE u == data[1]
               g == HeaderOf(u)
    <3>1. u \in Unit
      BY <2>1
    <3> HIDE DEF u
    <3>2. g \in Seq(Unit) /\ Len(g) = Hdr /\ \A i \in 1..Hdr : g[i] = [u EXCEPT !.n = 0]
      BY <3>1, HeaderFacts
    <3> DEFINE b == buf.head
    <3>b. b \in Int
      BY <1>2
    <3> HIDE DEF g, stored, b
    <3>3. /\ Put(stored, b, g) \in [1..UdpSize -> Units]
          /\ \A i \in 1..UdpSize : Put(stored, b, g)[i] =
               IF i \in (b + 1)..(b + Hdr) THEN g[i - b] ELSE stored[i]
      <4>1. stored \in [1..UdpSize -> Units] /\ g \in Seq(Unit) /\ Len(g) = Hdr
        BY <1>3, <3>2
      <4>2. /\ Put(stored, b, g) \in [1..UdpSize -> Units]
            /\ \A i \in 1..UdpSize : Put(stored, b, g)[i] =
                 IF i \in (b + 1)..(b + Len(g)) THEN g[i - b] ELSE stored[i]
        BY <4>1, <3>b, PutFacts
      <4> QED BY <4>1, <4>2
    <3>4. ASSUME NEW i \in (b + 1)..(b + Hdr) PROVE g[i - b] = [u EXCEPT !.n = 0]
      <4>1. i - b \in 1..Hdr
        BY <3>b, Bounds
      <4> QED BY <4>1, <3>2
    <3>5. m = Put(stored, b, g)
      BY <2>1 DEF m, g, u, b
    <3> QED BY <3>3, <3>4, <3>5, <2>1, <1>3 DEF u, b
  <2>2. CASE ~(s < 2)
    BY <2>2, <1>3
  <2> QED BY <2>1, <2>2
<1> HIDE DEF m, stored, h
<1>5. buf' \in Buffers /\ buf'.head = h /\ buf'.tail = buf.tail /\ buf'.flag = f /\ buf'.mem = m
  BY <1>1, <1>2, <1>4 DEF Buffers
<1>6. /\ sock' \in Sockets /\ chip' \in Chips
      /\ chip'.x = chip.x /\ chip'.phase = chip.phase /\ chip'.sent = chip.sent
      /\ sock'.used = k.used /\ sock'.session = k.session
      /\ faults' \in 0..MaxFaults /\ faults' >= faults
  <2>1. CASE Room(h)
    <3>1. (IF s \in {1, 2} THEN h ELSE h + Hdr) \in Int
      BY <1>2, Bounds
    <3> QED BY <3>1, <2>1, <1>1, RecvfromEffect
  <2>2. CASE ~Room(h)
    BY <2>2, <1>1, Bounds
  <2> QED BY <2>1, <2>2
<1> QED BY <1>1, <1>4, <1>5, <1>6 DEF Stored, h

-----------------------------------------------------------------------------
(* Steps without a datagram.                                                 *)

\* The oldest answer is taken.
LEMMA Taken ==
  ASSUME Types, SessionInv, line # <<>>, line' = Tail(line)
  PROVE  /\ Head(line) = line[1] /\ line[1] \in Answers /\ Len(line) \in Nat \ {0}
         /\ line' \in Seq(Answers) /\ Len(line') = Len(line) - 1
         /\ \A i \in 1..Len(line') :
              /\ line'[i] = line[i + 1] /\ line'[i].x <= gu16SessionID
              /\ line'[i].k = "from" /\ line'[i].size > 0 => line'[i].d > 0
         /\ \A i, j \in 1..Len(line') : i < j => line'[i].x <= line'[j].x
<1>1. line \in Seq(Answers)
  BY DEF Types
<1>2. /\ Head(line) = line[1] /\ line[1] \in Answers /\ Len(line) \in Nat \ {0}
      /\ line' \in Seq(Answers) /\ Len(line') = Len(line) - 1
      /\ \A i \in 1..Len(line') : line'[i] = line[i + 1]
  BY <1>1
<1>3. \A i \in 1..Len(line') : i + 1 \in 1..Len(line)
  BY <1>2
<1>4. ASSUME NEW i \in 1..Len(line')
      PROVE  /\ line'[i].x <= gu16SessionID
             /\ line'[i].k = "from" /\ line'[i].size > 0 => line'[i].d > 0
  <2>1. i + 1 \in 1..Len(line) /\ line'[i] = line[i + 1]
    BY <1>2, <1>3
  <2> QED BY <2>1 DEF Types, SessionInv
<1>5. ASSUME NEW i \in 1..Len(line'), NEW j \in 1..Len(line'), i < j
      PROVE  line'[i].x <= line'[j].x
  <2>1. /\ i + 1 \in 1..Len(line) /\ line'[i] = line[i + 1]
        /\ j + 1 \in 1..Len(line) /\ line'[j] = line[j + 1] /\ i + 1 < j + 1
    BY <1>2, <1>3, <1>5
  <2> QED BY <2>1 DEF SessionInv
<1> QED BY <1>2, <1>4, <1>5

\* An answer is told after all others.
LEMMA Told ==
  ASSUME line \in Seq(Answers), NEW r \in Answers
  PROVE  /\ Append(line, r) \in Seq(Answers) /\ Len(Append(line, r)) = Len(line) + 1 /\ Len(line) \in Nat
         /\ \A i \in 1..Len(line) : Append(line, r)[i] = line[i]
         /\ Append(line, r)[Len(line) + 1] = r
OBVIOUS

\* What was in order stays so when another transfer fails.
LEMMA FollowsKept ==
  ASSUME faults' = 0 => faults = 0, NEW u, NEW v, Follows(u, v)
  PROVE  Follows(u, v)'
BY DEF Follows

LEMMA GotKept ==
  ASSUME GotInv, faults' = 0 => faults = 0, Spoilt => Spoilt', UNCHANGED <<gu16SessionID, got, _rcvSize>>
  PROVE  GotInv'
<1> SUFFICES ASSUME ~Spoilt' PROVE GotInv'
  BY DEF GotInv
<1>1. Last' = Last
  BY DEF Last
<1>2. ASSUME NEW i \in 1..(Len(got) - 1) PROVE Follows(got[i], got[i + 1])'
  <2>1. PICK u, v : u = got[i] /\ v = got[i + 1]
    OBVIOUS
  <2>2. Follows(u, v)
    BY <2>1 DEF GotInv
  <2>3. Follows(u, v)'
    BY <2>2, FollowsKept
  <2> QED BY <2>1, <2>3
<1> QED BY <1>1, <1>2 DEF GotInv

LEMMA IdleStep == ASSUME IInv, UNCHANGED udpVars PROVE IInv'
<1> USE DEF udpVars, sockVars, xferVars, histVars
<1>1. Types'
  BY DEF IInv, Types
<1>2. SessionInv' /\ BindInv' /\ RecvInv'
  BY DEF IInv, SessionInv, BindInv, RecvInv, Binding
<1>3. GotInv'
  BY GotKept DEF IInv, Spoilt
<1>4. PlaceInv'
  BY DEF IInv, PlaceInv, Ready, Spoilt, Binding, Full
<1>5. RowInv'
  <2>1. /\ \A p : At(p)' = At(p)
        /\ End' = End /\ Coming' = Coming /\ Last' = Last /\ (Ready' <=> Ready)
    BY DEF At, End, Rest, Coming, Last, Ready, Spoilt, Binding
  <2>2. \A O : (Row(O) => Row(O)') /\ (Begun(O) => Begun(O)')
    BY <2>1 DEF Row, Begun, Before
  <2> QED BY <2>1, <2>2 DEF IInv, RowInv
<1> QED BY <1>1, <1>2, <1>3, <1>4, <1>5 DEF IInv

LEMMA InitIInv == Init => IInv
<1> SUFFICES ASSUME Init PROVE IInv
  OBVIOUS
<1>1. Types
  <2>1. Closed \in Sockets /\ Empty \in Buffers /\ Nobody \in Chips /\ Nobody.sent = 0
    BY Bounds DEF Closed, Empty, Nobody, Sockets, Buffers, Chips, None, Units
  <2>2. 0 \in 0..MaxSessions /\ 0 \in 0..MaxSize /\ 0 \in 0..3 /\ 0 \in 0..MaxDatagrams /\ 0 \in 0..MaxFaults
    BY Bounds
  <2>3. <<>> \in Seq(Unit) /\ <<>> \in Seq(Answers) /\ <<>> \in Seq(Units) /\ Len(<<>>) = 0
    OBVIOUS
  <2>4. /\ sock \in Sockets /\ buf \in Buffers /\ chip \in Chips /\ chip.sent <= made
        /\ gu16SessionID \in 0..MaxSessions /\ hif_small_xfer \in 0..3 /\ _rcvSize \in 0..MaxSize
        /\ made \in 0..MaxDatagrams /\ faults \in 0..MaxFaults
    BY <2>1, <2>2 DEF Init
  <2>5. rest \in Seq(Unit) /\ rest = <<>> /\ line \in Seq(Answers) /\ got \in Seq(Units) /\ Len(line) = 0
    BY <2>3 DEF Init
  <2>6. _socket \in BOOLEAN /\ crowded \in BOOLEAN /\ misbound \in BOOLEAN /\ hushed \in BOOLEAN /\ torn \in BOOLEAN
    BY DEF Init
  <2> QED BY <2>4, <2>5, <2>6 DEF Types
<1> QED BY <1>1 DEF IInv, Init, SessionInv, BindInv, RecvInv, GotInv, PlaceInv, RowInv, Ready,
                    Spoilt, Closed, Empty

\* The socket is closed, its buffer freed, and the chip told.
LEMMA ClosedStep ==
  ASSUME IInv, sock' = Closed, buf' = Empty, chip' = Nobody, _socket' \in BOOLEAN,
         UNCHANGED <<gu16SessionID, xferVars, _rcvSize, line, histVars, made, faults>>
  PROVE  IInv'
<1> USE DEF xferVars, histVars
<1>1. Types'
  <2>1. Closed \in Sockets /\ Empty \in Buffers /\ Nobody \in Chips /\ Nobody.sent = 0
    BY Bounds DEF Closed, Empty, Nobody, Sockets, Buffers, Chips, None, Units
  <2> QED BY <2>1 DEF IInv, Types
<1>2. ~sock'.used /\ buf'.head = 0 /\ buf'.tail = 0 /\ buf'.flag = {}
  BY DEF Closed, Empty
<1>3. SessionInv'
  BY <1>2 DEF IInv, SessionInv
<1>4. GotInv'
  BY GotKept DEF IInv, Spoilt
<1>5. BindInv' /\ RecvInv' /\ PlaceInv' /\ RowInv'
  BY <1>2 DEF BindInv, RecvInv, PlaceInv, RowInv, Ready
<1> QED BY <1>1, <1>3, <1>4, <1>5 DEF IInv

LEMMA RebindStep == ASSUME IInv, Rebind PROVE IInv'
<1>1. /\ Begin /\ UNCHANGED <<xferVars, line, made, faults>>
      /\ gu16SessionID' = gu16SessionID + 1 /\ gu16SessionID' \in 1..MaxSessions
      /\ gu16SessionID \in Nat
      /\ got' = <<>> /\ _rcvSize' = 0 /\ ~crowded' /\ ~misbound' /\ ~hushed' /\ ~torn'
  BY Bounds DEF Rebind, Begin, IInv, Types
<1>2. \A i \in 1..Len(line') : line'[i].x < gu16SessionID' /\ line'[i].x \in Nat
  BY <1>1 DEF IInv, SessionInv, Types, Answers, Sessions
<1>3. GotInv'
  BY <1>1 DEF GotInv
<1>4. CASE /\ sock' = [Closed EXCEPT !.used = TRUE, !.session = gu16SessionID']
           /\ buf' = [buf EXCEPT !.head = 0, !.tail = 0, !.flag = {"binding"}]
           /\ chip' = [Nobody EXCEPT !.x = gu16SessionID', !.phase = "binding"]
           /\ _socket' = TRUE
  <2>1. /\ sock' = [used |-> TRUE, session |-> gu16SessionID', pending |-> FALSE, user |-> None]
        /\ chip' = [x |-> gu16SessionID', phase |-> "binding", asked |-> 0, sent |-> 0]
    BY <1>4 DEF Closed, Nobody
  <2>2. /\ buf' \in Buffers /\ buf'.head = 0 /\ buf'.tail = 0 /\ buf'.flag = {"binding"}
    BY <1>4 DEF IInv, Types, Buffers
  <2>3. Types'
    <3>1. sock' \in Sockets /\ chip' \in Chips
      BY <2>1, <1>1, Bounds DEF Sockets, Chips, None
    <3>2. gu16SessionID' \in 0..MaxSessions /\ 0 \in 0..MaxSize /\ <<>> \in Seq(Units)
      BY <1>1, Bounds
    <3>3. crowded' \in BOOLEAN /\ misbound' \in BOOLEAN /\ hushed' \in BOOLEAN /\ torn' \in BOOLEAN
      BY <1>1 DEF Begin
    <3> QED BY <3>1, <3>2, <3>3, <2>1, <2>2, <1>1, <1>4 DEF IInv, Types, xferVars
  <2>4. SessionInv'
    BY <2>1, <1>1, <1>2 DEF IInv, SessionInv
  <2>5. BindInv'
    BY <2>1, <2>2, <1>1, <1>2 DEF BindInv, Binding
  <2>6. RecvInv' /\ PlaceInv' /\ RowInv'
    BY <2>2 DEF RecvInv, PlaceInv, RowInv, Ready, Binding
  <2> QED BY <2>3, <2>4, <2>5, <2>6, <1>3 DEF IInv
<1>5. CASE sock' = Closed /\ buf' = Empty /\ chip' = Nobody /\ _socket' = FALSE
  <2>1. ~sock'.used /\ buf'.head = 0 /\ buf'.tail = 0 /\ buf'.flag = {}
    BY <1>5 DEF Closed, Empty
  <2>2. Types'
    <3>1. Closed \in Sockets /\ Empty \in Buffers /\ Nobody \in Chips /\ Nobody.sent = 0
      BY Bounds DEF Closed, Empty, Nobody, Sockets, Buffers, Chips, None, Units
    <3>2. gu16SessionID' \in 0..MaxSessions /\ 0 \in 0..MaxSize /\ <<>> \in Seq(Units)
      BY <1>1, Bounds
    <3>3. crowded' \in BOOLEAN /\ misbound' \in BOOLEAN /\ hushed' \in BOOLEAN /\ torn' \in BOOLEAN
      BY <1>1 DEF Begin
    <3>4. made' \in 0..MaxDatagrams /\ 0 <= made'
      BY <1>1 DEF IInv, Types
    <3> QED BY <3>1, <3>2, <3>3, <3>4, <1>1, <1>5 DEF IInv, Types, xferVars
  <2>3. SessionInv'
    BY <2>1, <1>1, <1>2, <1>5 DEF IInv, SessionInv
  <2>4. BindInv' /\ RecvInv' /\ PlaceInv' /\ RowInv'
    BY <2>1 DEF BindInv, RecvInv, PlaceInv, RowInv, Ready
  <2> QED BY <2>2, <2>3, <2>4, <1>3 DEF IInv
<1> QED BY <1>1, <1>4, <1>5 DEF Begin

-----------------------------------------------------------------------------
(* The answers of the chip, and the answer to a BIND.                        *)

\* An answer of the present socket is told; the host has not moved.
LEMMA AnswerEffect ==
  ASSUME IInv, sock.used, NEW r \in Answers, r.x = gu16SessionID, Answer(r), chip' \in Chips,
         chip'.x = chip.x, r.k = "from" /\ r.size > 0 => r.d > 0,
         chip'.sent <= made', made' \in 0..MaxDatagrams
  PROVE  /\ Types' /\ SessionInv' /\ GotInv'
         /\ UNCHANGED <<sock, gu16SessionID, buf, hif_small_xfer, rest, _rcvSize, got, crowded,
                        misbound, hushed, torn, faults>>
         /\ line' \in Seq(Answers) /\ Len(line') = Len(line) + 1 /\ Len(line) \in Nat
         /\ \A i \in 1..Len(line) : line'[i] = line[i]
         /\ line'[Len(line) + 1] = r
<1>1. /\ line' = Append(line, r) /\ line \in Seq(Answers)
      /\ UNCHANGED <<sockVars, xferVars, _rcvSize, histVars, faults>>
  BY DEF Answer, IInv, Types
<1> USE DEF sockVars, xferVars, histVars
<1>2. /\ line' \in Seq(Answers) /\ Len(line') = Len(line) + 1 /\ Len(line) \in Nat
      /\ \A i \in 1..Len(line) : line'[i] = line[i]
      /\ line'[Len(line) + 1] = r
  BY <1>1, Told
<1>3. \A i \in 1..Len(line') : (i \in 1..Len(line) /\ line'[i] = line[i]) \/ (i = Len(line) + 1 /\ line'[i] = r)
  BY <1>2
<1>4. Types'
  <2>1. \A i \in 1..Len(line') : line'[i].k = "from" /\ line'[i].size > 0 => line'[i].d > 0
    BY <1>3 DEF IInv, Types
  <2> QED BY <1>1, <1>2, <2>1 DEF IInv, Types
<1>5. SessionInv'
  <2>1. gu16SessionID \in Nat /\ \A i \in 1..Len(line) : line[i].x <= gu16SessionID
    BY DEF IInv, Types, SessionInv
  <2>2. \A i, j \in 1..Len(line') : i < j => line'[i].x <= line'[j].x
    BY <1>2, <1>3, <2>1 DEF IInv, SessionInv
  <2> QED BY <1>1, <1>3, <2>1, <2>2 DEF IInv, SessionInv
<1>6. GotInv'
  BY <1>1, GotKept DEF IInv, Spoilt
<1> QED BY <1>1, <1>2, <1>4, <1>5, <1>6

\* The row stays when the datagram that comes next does, or is one that comes later
\* because a transfer failed.
LEMMA BeforeKept ==
  ASSUME NEW f, NEW g, g = 0 => f = 0
  PROVE  /\ \A d, e : Before(f, d, e) => Before(g, d, e)
         /\ \A d, e, c \in Int : Before(f, d, e) /\ (c = e \/ (g # 0 /\ c >= e)) => Before(g, d, c)
BY DEF Before

LEMMA RowApart ==
  ASSUME Types, GotInv, RowInv, Ready' => Ready, faults' = 0 => faults = 0, Coming' \in Int,
         Coming' = Coming \/ (faults' # 0 /\ Coming' >= Coming),
         hif_small_xfer' = 0 <=> hif_small_xfer = 0,
         UNCHANGED <<gu16SessionID, buf, rest, _rcvSize, got>>
  PROVE  RowInv'
<1> SUFFICES ASSUME Ready' PROVE \E O \in SUBSET (0..UdpSize) : Row(O)' /\ Begun(O)'
  BY DEF RowInv
<1>1. (\A p : At(p)' = At(p)) /\ End' = End /\ Last' = Last
  BY DEF At, End, Rest, Last
<1>2. Coming \in Int
  BY DEF Coming, Types, Chips
<1>3. PICK O \in SUBSET (0..UdpSize) : Row(O) /\ Begun(O)
  BY DEF RowInv
<1>4. PICK c, n : c = Coming /\ n = Coming'
  OBVIOUS
<1>5. /\ \A d \in Int : Before(faults, d, c) => Before(faults', d, n)
      /\ \A d, e : Before(faults, d, e) => Before(faults', d, e)
  BY <1>2, <1>4, BeforeKept
<1>7. ASSUME NEW o \in O
      PROVE  (LET u == At(o + 1)
                  e == o + Hdr + u.of
              IN /\ o \in Nat /\ buf.tail <= o /\ o + Hdr < buf.head /\ e <= End
                 /\ u \in Unit /\ u.n = 0 /\ u.x = gu16SessionID
                 /\ \A j \in 1..Hdr : At(o + j) = u
                 /\ \A j \in 1..u.of : At(o + Hdr + j) = [u EXCEPT !.n = j]
                 /\ IF e = End THEN Before(faults, u.d, Coming)
                    ELSE e \in O /\ Before(faults, u.d, At(e + 1).d))'
  <2>1. PICK u : u = At(o + 1)
    OBVIOUS
  <2>2. PICK e : e = o + Hdr + u.of
    OBVIOUS
  <2>3. /\ o \in Nat /\ buf.tail <= o /\ o + Hdr < buf.head /\ e <= End
        /\ u \in Unit /\ u.n = 0 /\ u.x = gu16SessionID
        /\ \A j \in 1..Hdr : At(o + j) = u
        /\ \A j \in 1..u.of : At(o + Hdr + j) = [u EXCEPT !.n = j]
        /\ IF e = End THEN Before(faults, u.d, c) ELSE e \in O /\ Before(faults, u.d, At(e + 1).d)
    BY <1>3, <1>4, <2>1, <2>2 DEF Row
  <2>4. u.d \in Int
    BY <2>3, Bounds DEF Unit
  <2>5. IF e = End' THEN Before(faults', u.d, n) ELSE e \in O /\ Before(faults', u.d, At(e + 1)'.d)
    BY <1>1, <1>5, <2>3, <2>4
  <2> QED BY <2>1, <2>2, <2>3, <2>5, <1>1, <1>4
<1>8. Row(O)'
  BY <1>7 DEF Row
<1>9. Begun(O)'
  <2>1. PICK e : e = buf.tail + _rcvSize
    OBVIOUS
  <2>2. PICK d : d = IF got = <<>> THEN 0 ELSE Last.d
    OBVIOUS
  <2>3. /\ \A j \in 1.._rcvSize : At(buf.tail + j) = [Last EXCEPT !.n = @ + j]
        /\ e <= End
        /\ IF e = End THEN Before(faults, d, c) ELSE e \in O /\ Before(faults, d, At(e + 1).d)
    BY <1>3, <1>4, <2>1, <2>2 DEF Begun
  <2>4. d \in Int
    BY <2>2, Bounds DEF GotInv, Ready, Unit
  <2>5. IF e = End' THEN Before(faults', d, n) ELSE e \in O /\ Before(faults', d, At(e + 1)'.d)
    BY <1>1, <1>5, <2>3, <2>4
  <2> QED BY <2>1, <2>2, <2>3, <2>5, <1>1, <1>4 DEF Begun
<1> QED BY <1>8, <1>9

LEMMA ChipBindStep == ASSUME IInv, ChipBind PROVE IInv'
<1>1. PICK ok \in BOOLEAN :
        /\ Answer([k |-> "bind", x |-> chip.x, ok |-> ok]) /\ made' = made
        /\ chip' = [chip EXCEPT !.phase = IF ok THEN "bound" ELSE "none"]
  BY DEF ChipBind
<1> DEFINE r == [k |-> "bind", x |-> chip.x, ok |-> ok]
<1>2. sock.used /\ chip.x = gu16SessionID /\ gu16SessionID > 0 /\ chip.phase = "binding"
  BY DEF ChipBind, IInv, SessionInv, Nobody
<1>3. /\ r \in Answers /\ r.x = gu16SessionID /\ r.k = "bind"
      /\ chip' \in Chips /\ chip'.x = chip.x /\ chip'.phase # "binding"
      /\ chip'.asked = chip.asked /\ chip'.sent = chip.sent
  <2>1. chip \in Chips /\ gu16SessionID \in 0..MaxSessions
    BY DEF IInv, Types
  <2>2. r \in Answers
    BY <2>1, <1>2, Bounds DEF Answers, Sessions
  <2>3. (IF ok THEN "bound" ELSE "none") \in {"none", "bound"}
    OBVIOUS
  <2> QED BY <2>1, <2>2, <2>3, <1>1, <1>2 DEF Chips
<1>4. chip'.sent <= made' /\ made' \in 0..MaxDatagrams /\ Answer(r)
  BY <1>1, <1>3 DEF IInv, Types
<1> HIDE DEF r
<1>5. /\ Types' /\ SessionInv' /\ GotInv'
      /\ UNCHANGED <<sock, gu16SessionID, buf, hif_small_xfer, rest, _rcvSize, got, crowded,
                     misbound, hushed, torn, faults>>
      /\ line' \in Seq(Answers) /\ Len(line') = Len(line) + 1 /\ Len(line) \in Nat
      /\ \A i \in 1..Len(line) : line'[i] = line[i]
      /\ line'[Len(line) + 1] = r
  BY <1>2, <1>3, <1>4, AnswerEffect
<1>6. ~misbound => Binding
  BY <1>2 DEF IInv, RecvInv
<1>7. BindInv'
  BY <1>2, <1>3, <1>5 DEF IInv, BindInv, Binding
<1>8. RecvInv' /\ PlaceInv' /\ RowInv'
  BY <1>5, <1>6 DEF RecvInv, PlaceInv, RowInv, Ready, Spoilt, Binding
<1> QED BY <1>5, <1>7, <1>8 DEF IInv

LEMMA ChipFromStep == ASSUME IInv, ChipFrom PROVE IInv'
<1>1. PICK n \in 0..MaxSize :
        /\ chip' = [chip EXCEPT !.asked = @ - 1, !.sent = IF n = 0 THEN @ ELSE @ + 1]
        /\ Answer([k |-> "from", x |-> chip.x, d |-> chip'.sent, size |-> n])
        /\ chip.phase = "bound" /\ chip.asked > 0 /\ made < MaxDatagrams /\ made' = made + 1
  BY DEF ChipFrom
<1> DEFINE r == [k |-> "from", x |-> chip.x, d |-> chip'.sent, size |-> n]
<1>2. sock.used /\ chip.x = gu16SessionID /\ gu16SessionID > 0 /\ gu16SessionID \in 0..MaxSessions
  BY <1>1 DEF IInv, SessionInv, Nobody, Types
<1>3. /\ chip \in Chips /\ chip.sent <= made /\ made \in Nat /\ chip.sent \in Nat /\ chip.asked \in Nat
      /\ made' \in 0..MaxDatagrams /\ n \in Nat
  <2>1. chip \in Chips /\ chip.sent <= made /\ made \in 0..MaxDatagrams
    BY DEF IInv, Types
  <2>2. chip.sent \in Nat /\ chip.asked \in Nat
    BY <2>1 DEF Chips
  <2>3. made \in Nat /\ made' \in 0..MaxDatagrams /\ n \in Nat
    BY <2>1, <1>1, Bounds
  <2> QED BY <2>1, <2>2, <2>3
<1>4. /\ chip' \in Chips /\ chip'.x = chip.x /\ chip'.phase = chip.phase
      /\ chip'.asked = chip.asked - 1 /\ chip'.sent = IF n = 0 THEN chip.sent ELSE chip.sent + 1
  <2> DEFINE a == chip.asked - 1
             e == IF n = 0 THEN chip.sent ELSE chip.sent + 1
  <2>1. a \in Nat /\ e \in Nat /\ chip' = [chip EXCEPT !.asked = a, !.sent = e]
    BY <1>1, <1>3
  <2> HIDE DEF a, e
  <2>2. chip' \in Chips /\ chip'.x = chip.x /\ chip'.phase = chip.phase
        /\ chip'.asked = a /\ chip'.sent = e
    BY <2>1, <1>3 DEF Chips
  <2> QED BY <2>2 DEF a, e
<1>5. chip'.sent <= made' /\ chip'.sent \in 0..MaxDatagrams /\ (n > 0 => chip'.sent > 0)
  BY <1>1, <1>3, <1>4, Bounds
<1>6. r \in Answers /\ r.x = gu16SessionID /\ r.k = "from" /\ r.size = n /\ r.d = chip'.sent
  BY <1>2, <1>5, Bounds DEF Answers, Sessions
<1>7. Answer(r)
  BY <1>1
<1> HIDE DEF r
<1>8. /\ Types' /\ SessionInv' /\ GotInv'
      /\ UNCHANGED <<sock, gu16SessionID, buf, hif_small_xfer, rest, _rcvSize, got, crowded,
                     misbound, hushed, torn, faults>>
      /\ line' \in Seq(Answers) /\ Len(line') = Len(line) + 1 /\ Len(line) \in Nat
      /\ \A i \in 1..Len(line) : line'[i] = line[i]
      /\ line'[Len(line) + 1] = r
  BY <1>2, <1>3, <1>4, <1>5, <1>6, <1>7, AnswerEffect
<1>9. BindInv'
  BY <1>1, <1>8 DEF IInv, BindInv, Binding
<1>10. RecvInv'
  BY <1>1, <1>2, <1>3, <1>4, <1>6, <1>8 DEF IInv, RecvInv, Binding
<1>11. PlaceInv'
  BY <1>8 DEF IInv, PlaceInv, Ready, Spoilt, Binding, Full
<1>12. RowInv'
  <2>1. CASE ~Ready'
    BY <2>1 DEF RowInv
  <2>2. CASE Ready'
    <3>1. Ready /\ line = <<>>
      BY <2>2, <1>8, <1>1 DEF Ready, Spoilt, Binding, IInv, RecvInv
    <3>2. line' # <<>> /\ line'[1] = r
      BY <3>1, <1>8
    <3>3. Coming' = Coming /\ Coming' \in Int
      BY <3>1, <3>2, <1>3, <1>4, <1>6 DEF Coming
    <3> QED BY <3>1, <3>3, <1>8, RowApart DEF IInv
  <2> QED BY <2>1, <2>2
<1> QED BY <1>8, <1>9, <1>10, <1>11, <1>12 DEF IInv

LEMMA CbBindStep == ASSUME IInv, CbBind PROVE IInv'
<1> DEFINE r == Head(line)
<1>1. /\ ~Full /\ hif_small_xfer = 0 /\ line # <<>> /\ r.k = "bind" /\ line' = Tail(line)
      /\ misbound' = (misbound \/ (sock.used /\ r.x # sock.session))
      /\ UNCHANGED <<gu16SessionID, _socket, hif_small_xfer, rest, _rcvSize, got, crowded, hushed, torn,
                     made>>
  BY DEF CbBind, Open, xferVars
<1>2. /\ r = line[1] /\ r \in Answers /\ Len(line) \in Nat \ {0}
      /\ line' \in Seq(Answers) /\ Len(line') = Len(line) - 1
  BY <1>1, Taken DEF IInv
<1>3. /\ sock \in Sockets /\ chip \in Chips /\ buf \in Buffers /\ faults \in 0..MaxFaults
      /\ \/ buf' = [buf EXCEPT !.flag = {"bind"}] /\ Recvfrom(sock, Hdr)
         \/ buf' = [buf EXCEPT !.flag = {}] /\ sock' = sock /\ chip' = chip /\ faults' = faults
  BY <1>1 DEF CbBind, IInv, Types
<1>4. buf' \in Buffers /\ buf'.head = buf.head /\ buf'.tail = buf.tail
      /\ buf'.flag \in {{"bind"}, {}}
  BY <1>3 DEF Buffers
<1>5. /\ sock' \in Sockets /\ chip' \in Chips
      /\ chip'.x = chip.x /\ chip'.phase = chip.phase /\ chip'.sent = chip.sent
      /\ sock'.used = sock.used /\ sock'.session = sock.session
      /\ ~sock.used => sock' = sock /\ chip' = chip
      /\ faults' \in 0..MaxFaults /\ faults' >= faults
      /\ \/ sock' = sock /\ chip' = chip /\ buf'.flag = {}
         \/ ~sock.used
         \/ /\ sock'.pending /\ sock'.user = Hdr
            /\ chip.x = sock.session =>
                 \/ chip'.asked = IF sock.pending THEN chip.asked ELSE chip.asked + 1
                 \/ ~sock.pending /\ faults' > 0 /\ chip'.asked = chip.asked
  BY <1>3, Bounds, RecvfromEffect DEF Buffers
<1>6. Types'
  <2>1. \A i \in 1..Len(line') : line'[i].k = "from" /\ line'[i].size > 0 => line'[i].d > 0
    BY <1>1, Taken DEF IInv
  <2>2. misbound' \in BOOLEAN
    BY <1>1
  <2> QED BY <1>1, <1>2, <1>4, <1>5, <2>1, <2>2 DEF IInv, Types
<1>7. SessionInv'
  <2>1. /\ \A i, j \in 1..Len(line') : i < j => line'[i].x <= line'[j].x
        /\ \A i \in 1..Len(line') : line'[i].x <= gu16SessionID
    BY <1>1, Taken DEF IInv
  <2> QED BY <1>1, <1>4, <1>5, <2>1 DEF IInv, SessionInv
<1>8. GotInv'
  <2>1. Spoilt => Spoilt'
    BY <1>1 DEF Spoilt
  <2>2. faults' = 0 => faults = 0
    BY <1>3, <1>5, Bounds
  <2> QED BY <1>1, <2>1, <2>2, GotKept DEF IInv
<1>9. BindInv'
  BY <1>4 DEF BindInv, Binding
<1>10. ASSUME sock'.used, ~misbound'
       PROVE  /\ Binding /\ ~misbound /\ line' = <<>> /\ buf'.head = 0 /\ buf'.tail = 0 /\ got' = <<>>
              /\ chip'.sent = 0 /\ chip'.phase # "binding"
              /\ \/ chip'.asked = 1 /\ sock'.pending /\ sock'.user = Hdr
                 \/ chip'.asked = 0 /\ faults' > 0 /\ sock'.pending /\ sock'.user = Hdr
                 \/ chip'.asked = 0 /\ ~sock'.pending /\ sock'.user = None /\ buf'.flag = {}
  <2>1. sock.used /\ ~misbound /\ r.x = gu16SessionID /\ chip.x = sock.session
    BY <1>10, <1>1, <1>5 DEF IInv, SessionInv
  <2>2. Binding
    BY <2>1, <1>1, <1>2 DEF IInv, RecvInv
  <2>3. /\ buf.head = 0 /\ buf.tail = 0 /\ got = <<>>
        /\ ~sock.pending /\ sock.user = None /\ chip.asked = 0 /\ chip.sent = 0
        /\ chip.phase # "binding" /\ Len(line) = 1
    <3>1. /\ 1 \in 1..Len(line) /\ (Len(line) # 1 => 1 \in 1..(Len(line) - 1))
          /\ gu16SessionID \in Nat
      BY <1>2 DEF IInv, Types
    <3>2. ~(line[1].x < gu16SessionID)
      BY <2>1, <1>2, <3>1
    <3> QED BY <2>1, <2>2, <3>1, <3>2 DEF IInv, BindInv
  <2>4. line' = <<>>
    BY <2>3, <1>2
  <2> QED BY <2>1, <2>2, <2>3, <2>4, <1>1, <1>4, <1>5
<1>11. RecvInv'
  BY <1>10 DEF RecvInv
<1>12. PlaceInv'
  BY <1>1, <1>4, <1>10, Bounds DEF PlaceInv, Ready, Spoilt, Full, None
<1>13. RowInv'
  <2> SUFFICES ASSUME Ready' PROVE Row({})' /\ Begun({})'
    BY DEF RowInv
  <2>1. /\ line' = <<>> /\ buf'.head = 0 /\ buf'.tail = 0 /\ got' = <<>> /\ chip'.sent = 0
    BY <1>10 DEF Ready, Spoilt
  <2>2. _rcvSize' = 0
    BY <2>1, <1>8 DEF Ready, GotInv
  <2>3. End' = 0 /\ Coming' = 1
    BY <2>1, <1>1 DEF End, Rest, Coming
  <2> QED BY <2>1, <2>2, <2>3 DEF Row, Begun, Before
<1> QED BY <1>6, <1>7, <1>8, <1>9, <1>11, <1>12, <1>13 DEF IInv

-----------------------------------------------------------------------------
(* The row of datagrams.                                                     *)

\* Moving a part of it from the paused transfer to the buffer leaves it as it was.
LEMMA RowMoved ==
  ASSUME NEW O, Row(O), Begun(O), buf.tail \in Nat, _rcvSize \in Nat, End \in Nat, buf.head \in Nat,
         buf'.head \in Nat, buf.head <= buf'.head, buf'.tail = buf.tail, End' = End, Coming' = Coming,
         \A p \in (buf.tail + 1)..End : At(p)' = At(p),
         faults' = 0 => faults = 0, UNCHANGED <<gu16SessionID, _rcvSize, got>>
  PROVE  Row(O)' /\ Begun(O)'
<1>1. ASSUME NEW o \in O
      PROVE  LET u == At(o + 1)
                 e == o + Hdr + u.of
             IN /\ At(o + 1)' = u
                /\ o \in Nat /\ buf'.tail <= o /\ o + Hdr < buf'.head /\ e <= End'
                /\ u \in Unit /\ u.n = 0 /\ u.x = gu16SessionID'
                /\ \A j \in 1..Hdr : At(o + j)' = u
                /\ \A j \in 1..u.of : At(o + Hdr + j)' = [u EXCEPT !.n = j]
                /\ IF e = End' THEN Before(faults', u.d, Coming')
                   ELSE e \in O /\ Before(faults', u.d, At(e + 1)'.d)
  <2> DEFINE u == At(o + 1)
             e == o + Hdr + u.of
  <2>1. /\ o \in Nat /\ buf.tail <= o /\ o + Hdr < buf.head /\ e <= End
        /\ u \in Unit /\ u.n = 0 /\ u.x = gu16SessionID
        /\ \A j \in 1..Hdr : At(o + j) = u
        /\ \A j \in 1..u.of : At(o + Hdr + j) = [u EXCEPT !.n = j]
        /\ IF e = End THEN Before(faults, u.d, Coming) ELSE e \in O /\ Before(faults, u.d, At(e + 1).d)
    BY DEF Row
  <2>2. u.of \in Nat /\ e \in Nat /\ u.of > 0
    BY <2>1, Bounds DEF Unit
  <2>3. u = At(o + 1)'
    BY <2>1, <2>2, Bounds
  <2> HIDE DEF u
  <2>4. \A j \in 1..Hdr : At(o + j)' = u
    BY <2>1, <2>2, Bounds
  <2>5. \A j \in 1..u.of : At(o + Hdr + j)' = [u EXCEPT !.n = j]
    BY <2>1, <2>2, Bounds
  <2>6. ASSUME e # End PROVE At(e + 1)' = At(e + 1)
    <3>1. e' = e
      BY <2>3 DEF e, u
    <3>2. e + 1 \in (buf.tail + 1)..End
      BY <2>1, <2>2, <2>6, Bounds
    <3>3. PICK p \in (buf.tail + 1)..End : p = e + 1
      BY <3>2
    <3>4. At(p)' = At(p)
      BY <3>3
    <3>5. p = (e + 1)'
      BY <3>1, <3>3
    <3> HIDE DEF e
    <3> QED BY <3>3, <3>4, <3>5
  <2>7. /\ At(o + 1)' = u /\ buf'.tail <= o /\ o + Hdr < buf'.head /\ e <= End'
        /\ gu16SessionID' = gu16SessionID
    BY <2>1, <2>3, Bounds
  <2>8. IF e = End' THEN Before(faults', u.d, Coming')
        ELSE e \in O /\ Before(faults', u.d, At(e + 1)'.d)
    BY <2>1, <2>6, BeforeKept
  <2> QED BY <2>1, <2>4, <2>5, <2>7, <2>8 DEF u
<1>2. Begun(O)'
  <2> DEFINE e == buf.tail + _rcvSize
  <2>1. /\ \A j \in 1.._rcvSize : At(buf.tail + j) = [Last EXCEPT !.n = @ + j]
        /\ e <= End /\ e \in Nat /\ Last' = Last
    BY DEF Begun, Last
  <2>2. \A j \in 1.._rcvSize : At(buf.tail + j)' = [Last EXCEPT !.n = @ + j]
    BY <2>1
  <2>3. e # End => At(e + 1)' = At(e + 1)
    BY <2>1
  <2> QED BY <2>1, <2>2, <2>3, BeforeKept DEF Begun
<1> QED BY <1>1, <1>2 DEF Row

\* A datagram at its end
LEMMA RowGrown ==
  ASSUME NEW O \in SUBSET Nat, Row(O), Begun(O), buf.tail \in Nat, buf.head \in Nat, buf.tail <= buf.head,
         _rcvSize \in Nat, End = buf.head, Coming \in Int, NEW u \in Unit, u.n = 0,
         u.x = gu16SessionID, u.d = Coming,
         buf'.tail = buf.tail, buf'.head \in Nat, buf.head + Hdr < buf'.head,
         End' = buf.head + Hdr + u.of, Coming' = Coming + 1,
         \A p \in (buf.tail + 1)..buf.head : At(p)' = At(p),
         NEW h, h = buf.head,
         \A j \in 1..Hdr : At(h + j)' = u,
         \A j \in 1..u.of : At(h + Hdr + j)' = [u EXCEPT !.n = j],
         faults' = 0 => faults = 0, UNCHANGED <<gu16SessionID, _rcvSize, got>>
  PROVE  Row(O \union {h})' /\ Begun(O \union {h})'
<1> DEFINE P == O \union {h}
<1>0. u.of \in Nat /\ u.of > 0
  BY Bounds DEF Unit
<1>1. At(h + 1)' = u /\ h \in Nat
  BY Bounds
<1>2. ASSUME NEW o \in O
      PROVE  LET v == At(o + 1)'
                 e == o + Hdr + v.of
             IN /\ o \in Nat /\ buf'.tail <= o /\ o + Hdr < buf'.head /\ e <= End'
                /\ v \in Unit /\ v.n = 0 /\ v.x = gu16SessionID'
                /\ \A j \in 1..Hdr : At(o + j)' = v
                /\ \A j \in 1..v.of : At(o + Hdr + j)' = [v EXCEPT !.n = j]
                /\ e # End' /\ e \in P
                /\ \A q : q = e + 1 => Before(faults', v.d, At(q)'.d)
  <2>1. PICK v : v = At(o + 1)
    OBVIOUS
  <2>2. PICK e : e = o + Hdr + v.of
    OBVIOUS
  <2>3. /\ o \in Nat /\ buf.tail <= o /\ o + Hdr < buf.head /\ e <= buf.head
        /\ v \in Unit /\ v.n = 0 /\ v.x = gu16SessionID
        /\ \A j \in 1..Hdr : At(o + j) = v
        /\ \A j \in 1..v.of : At(o + Hdr + j) = [v EXCEPT !.n = j]
        /\ IF e = End THEN Before(faults, v.d, Coming) ELSE e \in O /\ Before(faults, v.d, At(e + 1).d)
    BY <2>1, <2>2 DEF Row
  <2>4. v.of \in Nat /\ v.of > 0 /\ e \in Nat /\ e <= buf.head /\ v.d \in Int
    BY <2>2, <2>3, Bounds DEF Unit
  <2>5. At(o + 1)' = v
    BY <2>1, <2>3, Bounds
  <2>6. \A j \in 1..Hdr : At(o + j)' = v
    BY <2>3, Bounds
  <2>7. \A j \in 1..v.of : At(o + Hdr + j)' = [v EXCEPT !.n = j]
    BY <2>2, <2>3, <2>4, Bounds
  <2>8. e \in P /\ Before(faults', v.d, At(e + 1)'.d)
    <3>1. CASE e = buf.head
      <4>1. e = h /\ Before(faults, v.d, Coming)
        BY <3>1, <2>3
      <4> QED BY <4>1, <1>1, BeforeKept
    <3>2. CASE e # buf.head
      <4>1. e \in O /\ Before(faults, v.d, At(e + 1).d)
        BY <3>2, <2>3
      <4>2. e + 1 \in (buf.tail + 1)..buf.head
        BY <3>2, <2>2, <2>3, <2>4, Bounds
      <4> QED BY <4>1, <4>2, BeforeKept
    <3> QED BY <3>1, <3>2
  <2>9. e <= End' /\ e # End' /\ buf'.tail <= o /\ o + Hdr < buf'.head
    BY <2>3, <2>4, <1>0, Bounds
  <2>10. \A q : q = e + 1 => Before(faults', v.d, At(q)'.d)
    BY <2>8
  <2> QED BY <2>2, <2>3, <2>5, <2>6, <2>7, <2>8, <2>9, <2>10
<1>3. Row(P)'
  <2>1. \A o \in P : o \in O \/ o = h
    OBVIOUS
  <2>2. ASSUME NEW o \in P, o = h
        PROVE  (LET v == At(o + 1)
                    e == o + Hdr + v.of
                IN /\ o \in Nat /\ buf.tail <= o /\ o + Hdr < buf.head /\ e <= End
                   /\ v \in Unit /\ v.n = 0 /\ v.x = gu16SessionID
                   /\ \A j \in 1..Hdr : At(o + j) = v
                   /\ \A j \in 1..v.of : At(o + Hdr + j) = [v EXCEPT !.n = j]
                   /\ IF e = End THEN Before(faults, v.d, Coming)
                      ELSE e \in P /\ Before(faults, v.d, At(e + 1).d))'
    <3>1. u.d \in Int /\ Before(faults', u.d, Coming')
      BY Bounds DEF Unit, Before
    <3> QED BY <2>2, <3>1, <1>0, <1>1, Bounds
  <2>3. ASSUME NEW o \in P, o \in O
        PROVE  (LET v == At(o + 1)
                    e == o + Hdr + v.of
                IN /\ o \in Nat /\ buf.tail <= o /\ o + Hdr < buf.head /\ e <= End
                   /\ v \in Unit /\ v.n = 0 /\ v.x = gu16SessionID
                   /\ \A j \in 1..Hdr : At(o + j) = v
                   /\ \A j \in 1..v.of : At(o + Hdr + j) = [v EXCEPT !.n = j]
                   /\ IF e = End THEN Before(faults, v.d, Coming)
                      ELSE e \in P /\ Before(faults, v.d, At(e + 1).d))'
    <3> HIDE DEF P
    <3> QED BY <2>3, <1>2
  <2> QED BY <2>1, <2>2, <2>3 DEF Row
<1>4. Begun(P)'
  <2>1. PICK e : e = buf.tail + _rcvSize
    OBVIOUS
  <2>2. PICK d : d = IF got = <<>> THEN 0 ELSE Last.d
    OBVIOUS
  <2>3. /\ \A j \in 1.._rcvSize : At(buf.tail + j) = [Last EXCEPT !.n = @ + j]
        /\ e <= End /\ e \in Nat /\ Last' = Last
        /\ IF e = End THEN Before(faults, d, Coming) ELSE e \in O /\ Before(faults, d, At(e + 1).d)
    BY <2>1, <2>2 DEF Begun, Last
  <2>4. PICK t : t = buf.tail
    OBVIOUS
  <2>5. \A j \in 1.._rcvSize : At(t + j)' = [Last EXCEPT !.n = @ + j]
    BY <2>1, <2>3, <2>4
  <2>6. e \in P /\ Before(faults', d, At(e + 1)'.d)
    <3>1. CASE e = buf.head
      <4>1. e = h /\ Before(faults, d, Coming)
        BY <3>1, <2>3
      <4> QED BY <4>1, <1>1, BeforeKept
    <3>2. CASE e # buf.head
      <4>1. e \in O /\ Before(faults, d, At(e + 1).d)
        BY <3>2, <2>3
      <4>2. e + 1 \in (buf.tail + 1)..buf.head
        BY <3>2, <2>1, <2>3
      <4> QED BY <4>1, <4>2, BeforeKept
    <3> QED BY <3>1, <3>2
  <2>7. e <= End' /\ e # End' /\ e = (buf.tail + _rcvSize)' /\ t = buf'.tail
    BY <2>1, <2>3, <2>4, <1>0, Bounds
  <2> QED BY <2>2, <2>3, <2>5, <2>6, <2>7 DEF Begun
<1> QED BY <1>3, <1>4

\* Reading up to t leaves what is behind t, as long as the buffer is not empty.
LEMMA RowShort ==
  ASSUME NEW O, Row(O), NEW t \in Nat, buf'.tail = t, buf'.head = buf.head,
         \A p : At(p)' = At(p), End' = End, Coming' = Coming, gu16SessionID' = gu16SessionID,
         faults' = 0 => faults = 0
  PROVE  Row({o \in O : o >= t})'
<1> DEFINE P == {o \in O : o >= t}
<1>1. ASSUME NEW o \in P
      PROVE  (LET v == At(o + 1)
                  e == o + Hdr + v.of
              IN /\ o \in Nat /\ buf.tail <= o /\ o + Hdr < buf.head /\ e <= End
                 /\ v \in Unit /\ v.n = 0 /\ v.x = gu16SessionID
                 /\ \A j \in 1..Hdr : At(o + j) = v
                 /\ \A j \in 1..v.of : At(o + Hdr + j) = [v EXCEPT !.n = j]
                 /\ IF e = End THEN Before(faults, v.d, Coming)
                    ELSE e \in P /\ Before(faults, v.d, At(e + 1).d))'
  <2>1. PICK v : v = At(o + 1)
    OBVIOUS
  <2>2. PICK e : e = o + Hdr + v.of
    OBVIOUS
  <2>3. /\ o \in Nat /\ o + Hdr < buf.head /\ e <= End
        /\ v \in Unit /\ v.n = 0 /\ v.x = gu16SessionID
        /\ \A j \in 1..Hdr : At(o + j) = v
        /\ \A j \in 1..v.of : At(o + Hdr + j) = [v EXCEPT !.n = j]
        /\ IF e = End THEN Before(faults, v.d, Coming) ELSE e \in O /\ Before(faults, v.d, At(e + 1).d)
    BY <2>1, <2>2 DEF Row
  <2>4. v.of \in Nat /\ e >= t
    BY <2>2, <2>3, Bounds DEF Unit
  <2>5. At(o + 1)' = v /\ At(e + 1)' = At(e + 1) /\ buf'.tail <= o
    BY <2>1, <2>3
  <2>6. IF e = End' THEN Before(faults', v.d, Coming')
        ELSE e \in P /\ Before(faults', v.d, At(e + 1)'.d)
    BY <2>3, <2>4, <2>5, BeforeKept
  <2>7. /\ \A j \in 1..Hdr : At(o + j)' = v
        /\ \A j \in 1..v.of : At(o + Hdr + j)' = [v EXCEPT !.n = j]
    BY <2>3
  <2> HIDE DEF P
  <2> QED BY <2>2, <2>3, <2>5, <2>6, <2>7
<1> QED BY <1>1 DEF Row

-----------------------------------------------------------------------------
(* A datagram arrives.                                                       *)

\* The answer is another socket's, or an error, or the socket is not to be read.
LEMMA PassedOver ==
  ASSUME IInv, FromReply,
         ~(Head(line).x = sock.session /\ Head(line).size > 0 /\ Readable(sock))
  PROVE  IInv'
<1> DEFINE r == Head(line)
<1>1. /\ hif_small_xfer = 0 /\ line # <<>> /\ r.k = "from" /\ line' = Tail(line)
      /\ sock' = [sock EXCEPT !.pending = FALSE]
      /\ UNCHANGED <<gu16SessionID, _socket, buf, chip, hif_small_xfer, rest, _rcvSize, got, crowded,
                     misbound, torn, made, faults>>
  BY DEF FromReply, Open, xferVars
<1>h. /\ hushed' \in BOOLEAN
      /\ r.x = sock.session /\ r.size = 0 => hushed'
  BY DEF FromReply, IInv, Types
<1>2. /\ r = line[1] /\ r \in Answers /\ Len(line) \in Nat \ {0}
      /\ line' \in Seq(Answers) /\ Len(line') = Len(line) - 1
      /\ \A i \in 1..Len(line') : line'[i] = line[i + 1]
  BY <1>1, Taken DEF IInv
<1>3. /\ sock' \in Sockets /\ sock'.used = sock.used /\ sock'.session = sock.session
      /\ sock'.user = sock.user /\ ~sock'.pending /\ (~sock.pending => sock' = sock)
  BY <1>1 DEF IInv, Types, Sockets
<1>4. Types'
  <2>1. \A i \in 1..Len(line') : line'[i].k = "from" /\ line'[i].size > 0 => line'[i].d > 0
    BY <1>1, Taken DEF IInv
  <2> QED BY <1>1, <1>h, <1>2, <1>3, <2>1 DEF IInv, Types
<1>5. SessionInv'
  <2>1. /\ \A i, j \in 1..Len(line') : i < j => line'[i].x <= line'[j].x
        /\ \A i \in 1..Len(line') : line'[i].x <= gu16SessionID
    BY <1>1, Taken DEF IInv
  <2>2. ~sock.used => sock = Closed /\ ~sock.pending
    BY DEF IInv, SessionInv, Closed
  <2> QED BY <1>1, <1>3, <2>1, <2>2 DEF IInv, SessionInv
<1>6. GotInv'
  BY <1>1, GotKept DEF IInv, Spoilt
<1>7. BindInv'
  <2> SUFFICES ASSUME sock.used, ~misbound, Binding PROVE BindInv'
    BY <1>1, <1>3 DEF BindInv, Binding
  <2>1. /\ buf.flag = {"binding"} /\ buf.head = 0 /\ buf.tail = 0 /\ got = <<>>
        /\ ~sock.pending /\ sock.user = None /\ chip.asked = 0 /\ chip.sent = 0
    BY DEF IInv, BindInv
  <2>2. CASE chip.phase = "binding"
    <3>1. \A i \in 1..Len(line) : line[i].x < gu16SessionID
      BY <2>2 DEF IInv, BindInv
    <3>2. \A i \in 1..Len(line') : line'[i].x < gu16SessionID
      BY <3>1, <1>2
    <3> QED BY <2>1, <2>2, <3>2, <1>1, <1>3 DEF BindInv
  <2>3. CASE chip.phase # "binding" /\ line[Len(line)].k = "bind" /\ line[Len(line)].x = gu16SessionID
    <3>1. /\ line[Len(line)].k = "bind" /\ line[Len(line)].x = gu16SessionID
          /\ \A i \in 1..(Len(line) - 1) : line[i].x < gu16SessionID
      <4>1. Len(line) \in 1..Len(line) /\ gu16SessionID \in Nat
        BY <1>2 DEF IInv, Types
      <4> QED BY <2>3, <4>1 DEF IInv, BindInv
    <3>2. Len(line) # 1
      BY <3>1, <1>1, <1>2
    <3>3. line' # <<>> /\ line'[Len(line')] = line[Len(line)]
      BY <3>2, <1>2
    <3>4. \A i \in 1..(Len(line') - 1) : line'[i].x < gu16SessionID
      BY <3>1, <1>2
    <3> QED BY <2>1, <2>3, <3>1, <3>3, <3>4, <1>1, <1>3 DEF BindInv
  <2>4. CASE chip.phase # "binding" /\ faults > 0 /\ \A i \in 1..Len(line) : line[i].x < gu16SessionID
    <3>1. \A i \in 1..Len(line') : line'[i].x < gu16SessionID
      BY <2>4, <1>2
    <3> QED BY <2>1, <2>4, <3>1, <1>1, <1>3 DEF BindInv
  <2> QED BY <2>2, <2>3, <2>4 DEF IInv, BindInv
<1>8. ASSUME sock.used, ~misbound, ~Binding
      PROVE  /\ chip.phase # "binding" /\ chip.asked = 0 /\ line' = <<>> /\ line = <<r>>
             /\ sock.pending /\ r.x = gu16SessionID /\ gu16SessionID = sock.session
  BY <1>1, <1>2, <1>8 DEF IInv, RecvInv, SessionInv
<1>9. RecvInv'
  BY <1>1, <1>3, <1>8 DEF RecvInv, Binding
<1>10. ASSUME Ready' PROVE Ready /\ r.size = 0 /\ hushed'
  <2>1. Ready
    BY <1>1, <1>3, <1>10 DEF Ready, Spoilt, Binding
  <2>2. sock.pending /\ r.x = sock.session /\ sock.used
    BY <2>1, <1>8 DEF Ready, Spoilt
  <2>3. buf.head \in Nat /\ sock.user = buf.head + Hdr
    BY <2>1, <2>2, <1>1 DEF IInv, PlaceInv, Types, Buffers
  <2>4. Readable(sock)
    BY <2>2, <2>3, Bounds DEF Readable, None
  <2>5. r.size \in Nat
    BY <1>1, <1>2, Bounds DEF Answers
  <2>6. r.size = 0
    BY <2>2, <2>4, <2>5
  <2> QED BY <2>1, <2>2, <2>6, <1>h
<1>11. PlaceInv'
  BY <1>1, <1>3, <1>10 DEF IInv, PlaceInv, Full
<1>12. RowInv'
  <2>1. CASE ~Ready'
    BY <2>1 DEF RowInv
  <2>2. CASE Ready'
    <3>1. Ready /\ r.size = 0 /\ line' = <<>> /\ line = <<r>>
      BY <2>2, <1>8, <1>10 DEF Ready, Spoilt
    <3>2. Coming' = Coming /\ Coming' \in Int
      BY <3>1, <1>1, <1>2 DEF Coming, IInv, Types, Chips
    <3> QED BY <3>1, <3>2, <1>1, RowApart DEF IInv
  <2> QED BY <2>1, <2>2
<1> QED BY <1>4, <1>5, <1>6, <1>7, <1>9, <1>11, <1>12 DEF IInv

\* An answer is lost, or what it announces: the transfer fails.
LEMMA Dropped ==
  ASSUME IInv, Fails, line # <<>>, line' = Tail(line), sock' \in {sock, [sock EXCEPT !.pending = FALSE]},
         \/ UNCHANGED <<hif_small_xfer, rest, torn>>
         \/ torn' = TRUE /\ hif_small_xfer' \in 1..3 /\ rest' \in Seq(Unit),
         UNCHANGED <<gu16SessionID, _socket, buf, chip, _rcvSize, got, crowded, misbound, hushed, made>>
  PROVE  IInv'
<1>1. /\ line[1] \in Answers /\ Len(line) \in Nat \ {0}
      /\ line' \in Seq(Answers) /\ Len(line') = Len(line) - 1
      /\ \A i \in 1..Len(line') : line'[i] = line[i + 1]
  BY Taken DEF IInv
<1>2. faults' \in 0..MaxFaults /\ faults' > 0
  <2>1. faults \in Nat /\ faults <= MaxFaults
    BY Bounds DEF IInv, Types
  <2> QED BY <2>1, Bounds DEF Fails
<1>3. /\ sock' \in Sockets /\ sock'.used = sock.used /\ sock'.session = sock.session
      /\ sock'.user = sock.user /\ (sock'.pending => sock.pending) /\ (~sock.pending => sock' = sock)
  BY DEF IInv, Types, Sockets
<1>4. Types'
  <2>1. \A i \in 1..Len(line') : line'[i].k = "from" /\ line'[i].size > 0 => line'[i].d > 0
    BY Taken DEF IInv
  <2>2. /\ torn' \in BOOLEAN /\ hif_small_xfer' \in 0..3 /\ rest' \in Seq(Unit)
        /\ hif_small_xfer' = 0 => rest' = <<>>
    <3>1. CASE UNCHANGED <<hif_small_xfer, rest, torn>>
      BY <3>1 DEF IInv, Types
    <3>2. CASE torn' = TRUE /\ hif_small_xfer' \in 1..3 /\ rest' \in Seq(Unit)
      BY <3>2
    <3> QED BY <3>1, <3>2
  <2> QED BY <1>1, <1>2, <1>3, <2>1, <2>2 DEF IInv, Types
<1>5. SessionInv'
  <2>1. /\ \A i, j \in 1..Len(line') : i < j => line'[i].x <= line'[j].x
        /\ \A i \in 1..Len(line') : line'[i].x <= gu16SessionID
    BY Taken DEF IInv
  <2>2. ~sock.used => sock = Closed /\ ~sock.pending
    BY DEF IInv, SessionInv, Closed
  <2> QED BY <1>3, <2>1, <2>2 DEF IInv, SessionInv
<1>6. GotInv'
  BY <1>2, GotKept DEF IInv, Spoilt
<1>7. BindInv'
  <2> SUFFICES ASSUME sock.used, ~misbound, Binding PROVE BindInv'
    BY <1>3 DEF BindInv, Binding
  <2>1. /\ buf.flag = {"binding"} /\ buf.head = 0 /\ buf.tail = 0 /\ got = <<>>
        /\ ~sock.pending /\ sock.user = None /\ chip.asked = 0 /\ chip.sent = 0
    BY DEF IInv, BindInv
  <2>2. CASE \A i \in 1..Len(line) : line[i].x < gu16SessionID
    <3>1. \A i \in 1..Len(line') : line'[i].x < gu16SessionID
      BY <2>2, <1>1
    <3> QED BY <2>1, <3>1, <1>2, <1>3 DEF BindInv
  <2>3. CASE /\ chip.phase # "binding" /\ line[Len(line)].k = "bind" /\ line[Len(line)].x = gu16SessionID
             /\ \A i \in 1..(Len(line) - 1) : line[i].x < gu16SessionID
    <3>1. CASE Len(line) = 1
      <4>1. \A i \in 1..Len(line') : line'[i].x < gu16SessionID
        BY <3>1, <1>1
      <4> QED BY <2>1, <2>3, <4>1, <1>2, <1>3 DEF BindInv
    <3>2. CASE Len(line) # 1
      <4>1. line' # <<>> /\ line'[Len(line')] = line[Len(line)]
        <5>1. Len(line') \in 1..Len(line') /\ Len(line') + 1 = Len(line)
          BY <3>2, <1>1
        <5>2. PICK m : m = Len(line')
          OBVIOUS
        <5>3. m \in 1..Len(line') /\ m + 1 = Len(line)
          BY <5>1, <5>2
        <5>4. line'[m] = line[m + 1] /\ line' # <<>>
          BY <5>3, <1>1
        <5> QED BY <5>2, <5>3, <5>4
      <4>2. \A i \in 1..(Len(line') - 1) : line'[i].x < gu16SessionID
        BY <2>3, <1>1
      <4> QED BY <2>1, <2>3, <4>1, <4>2, <1>3 DEF BindInv
    <3> QED BY <3>1, <3>2
  <2> QED BY <2>2, <2>3 DEF IInv, BindInv
<1>8. ASSUME sock.used, ~misbound, ~Binding
      PROVE  chip.phase # "binding" /\ chip.asked = 0 /\ line' = <<>>
  BY <1>1, <1>8 DEF IInv, RecvInv
<1>9. RecvInv'
  BY <1>2, <1>3, <1>8 DEF RecvInv, Binding
<1>10. ASSUME Ready' PROVE Ready /\ UNCHANGED <<hif_small_xfer, rest>>
  BY <1>3, <1>10 DEF Ready, Spoilt, Binding
<1>11. PlaceInv'
  BY <1>2, <1>3, <1>10 DEF IInv, PlaceInv, Full
<1>12. RowInv'
  <2>1. CASE ~Ready'
    BY <2>1 DEF RowInv
  <2>2. CASE Ready'
    <3>1. Ready /\ line' = <<>> /\ UNCHANGED <<hif_small_xfer, rest>>
      BY <2>2, <1>8, <1>10 DEF Ready, Spoilt
    <3>2. Coming' = chip.sent + 1 /\ Coming \in {chip.sent, chip.sent + 1} /\ chip.sent \in Nat
      BY <3>1 DEF Coming, IInv, Types, Chips
    <3> QED BY <3>1, <3>2, <1>2, RowApart DEF IInv
  <2> QED BY <2>1, <2>2
<1> QED BY <1>4, <1>5, <1>6, <1>7, <1>9, <1>11, <1>12 DEF IInv

LEMMA AnswerUnreadStep == ASSUME IInv, AnswerUnread PROVE IInv'
BY Dropped DEF AnswerUnread, sockVars, xferVars, histVars

\* What the oldest answer announces
Arrived == [i \in 1..Head(line).size |->
              [x |-> Head(line).x, d |-> Head(line).d, n |-> i, of |-> Head(line).size]]

\* The first part of it is read.
ReadIn ==
  /\ CbRecvfrom([sock EXCEPT !.pending = FALSE], IF Head(line).size > Mtu THEN 1 ELSE 0,
                Chunk(Arrived), Head(line).size > Mtu)
  /\ rest' = SubSeq(Arrived, Mtu + 1, Head(line).size) /\ torn' = torn

\* One that is taken goes behind what the buffer holds.
LEMMA TakenIn ==
  ASSUME IInv, FromReply, Head(line).x = sock.session, Head(line).size > 0, Readable(sock),
         ReadIn
  PROVE  IInv'
<1> DEFINE r == Head(line)
           k == [sock EXCEPT !.pending = FALSE]
           data == Arrived
           more == r.size > Mtu
           s == IF more THEN 1 ELSE 0
<1>1. /\ ~Full /\ hif_small_xfer = 0 /\ line # <<>> /\ r.k = "from" /\ line' = Tail(line)
      /\ CbRecvfrom(k, s, Chunk(data), more)
      /\ hif_small_xfer' = s /\ rest' = SubSeq(data, Mtu + 1, r.size)
      /\ UNCHANGED <<gu16SessionID, _socket, _rcvSize, got, misbound, made>>
  BY DEF FromReply, Open, ReadIn
<1>h. hushed' = hushed /\ torn' = torn
  BY DEF FromReply, IInv, Types, ReadIn
<1>2. /\ r = line[1] /\ r \in Answers /\ Len(line) \in Nat \ {0}
      /\ line' \in Seq(Answers) /\ Len(line') = Len(line) - 1
  BY <1>1, Taken DEF IInv
<1>3. r.size \in 1..MaxSize /\ r.x \in Sessions /\ r.d \in 1..MaxDatagrams
  <2>1. r.size \in 0..MaxSize /\ r.x \in Sessions /\ r.d \in 0..MaxDatagrams
    BY <1>1, <1>2 DEF Answers
  <2>2. r.d > 0
    <3>1. 1 \in 1..Len(line) /\ line[1].k = "from" /\ line[1].size > 0
      BY <1>1, <1>2
    <3> QED BY <3>1, <1>2 DEF IInv, Types
  <2> QED BY <2>1, <2>2, Bounds
<1>4. data \in Seq(Unit) /\ Len(data) = r.size
  <2>1. \A i \in 1..r.size : [x |-> r.x, d |-> r.d, n |-> i, of |-> r.size] \in Unit
    BY <1>3, Bounds DEF Unit
  <2>2. r.size \in Nat
    BY <1>3
  <2> QED BY <2>1, <2>2 DEF Arrived
<1> DEFINE c == Chunk(data)
           u == [x |-> r.x, d |-> r.d, n |-> 0, of |-> r.size]
<1>5. u \in Unit /\ u.n = 0 /\ u.of = r.size /\ u.d = r.d /\ u.x = r.x
      /\ \A j \in 1..r.size : data[j] = [u EXCEPT !.n = j]
  BY <1>3, Bounds DEF Unit, Arrived
<1> HIDE DEF data, u
<1>6. /\ c \in Seq(Unit) /\ rest' \in Seq(Unit) /\ Len(c) = IF more THEN Mtu ELSE r.size
      /\ \A j \in 1..Len(c) : c[j] = data[j]
      /\ Len(rest') = IF more THEN r.size - Mtu ELSE 0
      /\ \A j \in 1..(r.size - Mtu) : rest'[j] = data[Mtu + j]
  <2>1. rest' = SubSeq(data, Mtu + 1, r.size)
    BY <1>1
  <2> HIDE DEF r
  <2> QED BY <2>1, <1>4, ChunkFacts
<1>7. Len(c) \in 1..r.size /\ c # <<>> /\ c[1] = [u EXCEPT !.n = 1]
  <2>1. Len(c) \in 1..r.size /\ 1 \in 1..Len(c) /\ 1 \in 1..r.size
    BY <1>3, <1>6, Bounds
  <2> HIDE DEF c
  <2>2. c[1] = data[1] /\ data[1] = [u EXCEPT !.n = 1]
    BY <2>1, <1>5, <1>6
  <2>3. c # <<>>
    BY <2>1
  <2> QED BY <2>1, <2>2, <2>3
<1>8. [c[1] EXCEPT !.n = 0] = u
  BY <1>5, <1>7 DEF Unit
<1> DEFINE b == buf.head
           h == b + Hdr + Len(c)
<1>9. /\ k \in Sockets /\ k.used /\ sock.used /\ k.session = sock.session /\ k.user = sock.user
      /\ ~k.pending /\ k.session = chip.x /\ gu16SessionID = sock.session
      /\ sock.user # None /\ r.x = gu16SessionID
  BY DEF IInv, Types, Sockets, Readable, SessionInv
<1>10. /\ chip \in Chips /\ buf \in Buffers /\ crowded \in BOOLEAN /\ b \in Nat /\ buf.tail \in Nat
       /\ faults \in 0..MaxFaults
  BY DEF IInv, Types, Buffers
<1>11. /\ sock' \in Sockets /\ chip' \in Chips /\ buf' \in Buffers /\ crowded' \in BOOLEAN
       /\ chip'.x = chip.x /\ chip'.phase = chip.phase /\ chip'.sent = chip.sent
       /\ sock'.used = k.used /\ sock'.session = k.session
       /\ faults' \in 0..MaxFaults /\ faults' >= faults /\ (faults' = 0 => faults = 0)
       /\ Stored(k, s, c, more)
  <2>1. s \in 0..3 /\ more \in BOOLEAN /\ CbRecvfrom(k, s, c, more)
    BY <1>1
  <2>2. k \in Sockets /\ c \in Seq(Unit) /\ c # <<>>
    BY <1>6, <1>7, <1>9
  <2>3. faults' >= faults /\ faults' \in 0..MaxFaults => (faults' = 0 => faults = 0)
    BY <1>10, Bounds
  <2> HIDE DEF k, s, more, c
  <2> QED BY <2>1, <2>2, <2>3, <1>10, CbRecvfromEffect
<1> HIDE DEF c
<1>12. /\ buf'.head = h /\ buf'.tail = buf.tail
       /\ buf'.flag = buf.flag \union (IF more /\ ~Room(h) THEN {"full"} ELSE {})
       /\ (crowded' <=> crowded \/ h > UdpSize)
       /\ Room(h) => Recvfrom(k, IF more THEN h ELSE h + Hdr)
       /\ ~Room(h) => sock' = k /\ chip' = chip /\ faults' = faults
  <2>1. s < 2 /\ (s \in {1, 2} <=> more) /\ s # 3
    OBVIOUS
  <2>2. b + (IF s < 2 THEN Hdr ELSE 0) + Len(c) = h
    BY <2>1
  <2>3. Stored(k, s, c, more)
    BY <1>11
  <2> HIDE DEF s, more, h, k
  <2>4. /\ buf'.head = h /\ buf'.tail = buf.tail
        /\ buf'.flag = buf.flag \union (IF more /\ ~Room(h) THEN {"full"} ELSE {})
        /\ (crowded' <=> crowded \/ h > UdpSize \/ (s = 3 /\ ~Room(h) /\ k.pending))
        /\ Room(h) => Recvfrom(k, IF s \in {1, 2} THEN h ELSE h + Hdr)
        /\ ~Room(h) => sock' = k /\ chip' = chip /\ faults' = faults
    BY <2>2, <2>3 DEF Stored
  <2> QED BY <2>1, <2>4
<1>13. h \in Nat /\ h > b + Hdr
  <2>1. Len(c) \in Nat /\ Len(c) > 0 /\ b \in Nat
    BY <1>3, <1>7, <1>10
  <2> HIDE DEF b
  <2> QED BY <2>1, Bounds
<1>14. IF Room(h) THEN /\ sock'.pending /\ sock'.user = IF more THEN h ELSE h + Hdr
                       /\ \/ chip'.asked = chip.asked + 1
                          \/ faults' > 0 /\ chip'.asked = chip.asked
       ELSE ~sock'.pending /\ sock'.user = sock.user /\ chip'.asked = chip.asked
  <2>1. CASE Room(h)
    <3>1. (IF more THEN h ELSE h + Hdr) \in Int
      BY <1>13, Bounds
    <3> HIDE DEF k, h
    <3> QED BY <2>1, <3>1, <1>9, <1>10, <1>12, RecvfromEffect
  <2>2. CASE ~Room(h)
    BY <2>2, <1>9, <1>12
  <2> QED BY <2>1, <2>2
<1> HIDE DEF h, k
<1>15. Types'
  <2>1. \A i \in 1..Len(line') : line'[i].k = "from" /\ line'[i].size > 0 => line'[i].d > 0
    BY <1>1, Taken DEF IInv
  <2>2. hif_small_xfer' \in 0..3 /\ (hif_small_xfer' = 0 => rest' = <<>>)
    <3>1. CASE more
      BY <3>1, <1>1
    <3>2. CASE ~more
      BY <3>2, <1>1, <1>6
    <3> QED BY <3>1, <3>2
  <2> QED BY <1>1, <1>h, <1>2, <1>6, <1>11, <2>1, <2>2 DEF IInv, Types
<1>16. SessionInv'
  <2>1. /\ \A i, j \in 1..Len(line') : i < j => line'[i].x <= line'[j].x
        /\ \A i \in 1..Len(line') : line'[i].x <= gu16SessionID
    BY <1>1, Taken DEF IInv
  <2> QED BY <1>1, <1>9, <1>11, <2>1 DEF IInv, SessionInv
<1>17. GotInv'
  BY <1>1, <1>h, <1>11, <1>12, GotKept DEF IInv, Spoilt
<1>18. ~misbound => ~Binding
  BY <1>9 DEF IInv, BindInv
<1>19. BindInv'
  BY <1>1, <1>12, <1>18 DEF BindInv, Binding
<1>20. ~misbound => chip.phase # "binding" /\ chip.asked = 0 /\ line = <<r>> /\ line' = <<>> /\ sock.pending
                    /\ r.d = chip.sent
  BY <1>1, <1>2, <1>9, <1>18 DEF IInv, RecvInv
<1>21. RecvInv'
  BY <1>1, <1>11, <1>14, <1>20 DEF RecvInv
<1>22. ASSUME Ready'
       PROVE  Ready /\ sock.user = b + Hdr /\ h <= UdpSize /\ buf.tail <= b /\ b <= UdpSize
  <2>1. Ready
    BY <1>1, <1>h, <1>9, <1>12, <1>22 DEF Ready, Spoilt, Binding
  <2>2. sock.pending
    BY <2>1, <1>20 DEF Ready, Spoilt
  <2>3. sock.user = b + Hdr /\ b <= UdpSize /\ buf.tail <= b
    BY <2>1, <2>2, <1>1, <1>10 DEF IInv, PlaceInv
  <2>4. h <= UdpSize
    <3>1. ~(h > UdpSize)
      BY <1>12, <1>22 DEF Ready, Spoilt
    <3> QED BY <3>1, <1>13, Bounds
  <2> QED BY <2>1, <2>3, <2>4
<1>23. PlaceInv'
  <2> SUFFICES ASSUME Ready' PROVE PlaceInv'
    BY DEF PlaceInv
  <2>1. sock'.user \in Int /\ sock'.user >= None /\ (sock'.user <= Hdr \/ sock'.user <= UdpSize - Mtu)
    <3>1. CASE Room(h)
      BY <3>1, <1>14, <1>22, <1>13, Bounds DEF Room, None
    <3>2. CASE ~Room(h)
      BY <3>2, <1>14, <1>22 DEF IInv, PlaceInv
    <3> QED BY <3>1, <3>2
  <2>2. buf'.tail < buf'.head /\ buf'.head <= UdpSize
    BY <1>12, <1>13, <1>22, <1>10, Bounds
  <2>3. CASE more
    <3>1. hif_small_xfer' # 0 /\ rest' # <<>>
      <4>1. hif_small_xfer' = 1 /\ Len(rest') = r.size - Mtu
        BY <2>3, <1>1, <1>6
      <4>2. Len(rest') # 0
        BY <4>1, <2>3, <1>3, Bounds
      <4> QED BY <4>1, <4>2
    <3>2. ~Full' => Room(h)
      BY <2>3, <1>12 DEF Full
    <3> QED BY <2>1, <2>2, <2>3, <3>1, <3>2, <1>12, <1>14 DEF PlaceInv
  <2>4. CASE ~more
    <3>1. hif_small_xfer' = 0 /\ ~Full'
      BY <2>4, <1>1, <1>12 DEF Full
    <3> QED BY <2>1, <2>2, <2>4, <3>1, <1>12, <1>13, <1>14, <1>10, Bounds DEF PlaceInv
  <2> QED BY <2>3, <2>4
<1>24. RowInv'
  <2> SUFFICES ASSUME Ready' PROVE \E O \in SUBSET (0..UdpSize) : Row(O)' /\ Begun(O)'
    BY DEF RowInv
  <2>1. PICK O \in SUBSET (0..UdpSize) : Row(O) /\ Begun(O)
    BY <1>22 DEF IInv, RowInv
  <2>2. line' = <<>> /\ r.d = chip.sent
    BY <1>22, <1>20 DEF Ready, Spoilt
  <2>3. Coming = chip.sent /\ Coming' = chip.sent + 1 /\ chip.sent \in Nat
    <3>1. line # <<>> /\ line[1].size > 0
      BY <1>1, <1>2
    <3> QED BY <3>1, <2>2, <1>10, <1>11 DEF Coming, Chips
  <2>n. /\ b \in Nat /\ Len(c) \in Nat /\ Len(c) > 0 /\ r.size \in Nat /\ Len(c) <= r.size
        /\ (~more => Len(c) = r.size) /\ (more => Len(c) = Mtu)
        /\ buf'.head = b + Hdr + Len(c) /\ buf'.head <= UdpSize /\ buf.tail \in Nat /\ buf.tail <= b
        /\ buf'.tail = buf.tail /\ Hdr \in Nat /\ Hdr > 0 /\ Mtu \in Nat /\ UdpSize \in Nat
    <3>1. /\ Len(c) \in Nat /\ Len(c) > 0 /\ r.size \in Nat /\ Len(c) <= r.size
          /\ (~more => Len(c) = r.size) /\ (more => Len(c) = Mtu)
      BY <1>3, <1>6, <1>7
    <3>2. buf'.head = b + Hdr + Len(c) /\ buf'.tail = buf.tail
      BY <1>12 DEF h
    <3>3. b + Hdr + Len(c) <= UdpSize /\ buf.tail <= b
      BY <1>22 DEF h
    <3> QED BY <3>1, <3>2, <3>3, <1>10, Bounds
  <2> HIDE DEF b, more
  <2>4. End = b /\ End' = b + Hdr + u.of /\ (more => hif_small_xfer' # 0)
    <3>1. End = b /\ u.of = r.size
      BY <2>n, <1>1, <1>5 DEF End, Rest, b
    <3>2. CASE more
      <4>1. hif_small_xfer' = 1 /\ Len(rest') = r.size - Mtu
        BY <3>2, <1>1, <1>6
      <4> QED BY <4>1, <3>1, <3>2, <2>n DEF End, Rest
    <3>3. CASE ~more
      <4>1. hif_small_xfer' = 0
        BY <3>3, <1>1
      <4> QED BY <4>1, <3>1, <3>3, <2>n DEF End, Rest
    <3> QED BY <3>1, <3>2, <3>3
  <2>5. \A i \in 1..UdpSize : buf'.mem[i] =
          IF i \in (b + 1)..(b + Hdr) THEN u
          ELSE IF i \in (b + Hdr + 1)..(b + Hdr + Len(c)) THEN c[i - (b + Hdr)]
          ELSE buf.mem[i]
    <3>1. s < 2 /\ k.user = b + Hdr
      BY <1>9, <1>22
    <3> HIDE DEF s
    <3> QED BY <3>1, <1>8, <1>11 DEF Stored, b
  <2>6. ASSUME NEW p \in (buf.tail + 1)..b PROVE At(p)' = At(p)
    <3>1. p \in 1..UdpSize /\ p <= b /\ p <= buf'.head
          /\ ~(p \in (b + 1)..(b + Hdr)) /\ ~(p \in (b + Hdr + 1)..(b + Hdr + Len(c)))
      BY <2>n
    <3>2. buf'.mem[p] = buf.mem[p]
      BY <3>1, <2>5
    <3> QED BY <3>1, <3>2 DEF At, b
  <2>7. ASSUME NEW p \in (b + 1)..(b + Hdr) PROVE At(p)' = u
    <3>1. p \in 1..UdpSize /\ p <= buf'.head
      BY <2>n
    <3>2. buf'.mem[p] = u
      BY <3>1, <2>5
    <3> QED BY <3>1, <3>2 DEF At
  <2>8. ASSUME NEW j \in 1..u.of, NEW p, p = b + Hdr + j PROVE At(p)' = [u EXCEPT !.n = j]
    <3>1. j \in 1..r.size /\ data[j] = [u EXCEPT !.n = j]
      BY <1>5
    <3>2. CASE j <= Len(c)
      <4>1. p \in 1..UdpSize /\ p <= buf'.head /\ j \in 1..Len(c)
            /\ ~(p \in (b + 1)..(b + Hdr)) /\ p \in (b + Hdr + 1)..(b + Hdr + Len(c)) /\ p - (b + Hdr) = j
        <5>1. j \in Nat /\ j > 0 /\ j <= Len(c) /\ p = b + Hdr + j
          BY <2>8, <3>1, <3>2, <2>n
        <5> HIDE DEF r
        <5> QED BY <5>1, <2>n
      <4>2. buf'.mem[p] = c[j]
        BY <4>1, <2>5
      <4>3. c[j] = data[j]
        BY <4>1, <1>6
      <4> QED BY <4>1, <4>2, <4>3, <3>1 DEF At
    <3>3. CASE j > Len(c)
      <4>1. more
        BY <3>1, <3>3, <2>n
      <4>2. Len(c) = Mtu /\ j - Mtu \in 1..(r.size - Mtu) /\ Mtu + (j - Mtu) = j
        BY <4>1, <3>1, <3>3, <2>n
      <4>3. ~(p <= buf'.head) /\ p - buf'.head = j - Mtu
        BY <4>2, <2>8, <3>1, <3>3, <2>n
      <4>4. rest'[j - Mtu] = data[j]
        BY <4>2, <1>6
      <4> QED BY <4>3, <4>4, <3>1 DEF At
    <3> QED BY <3>1, <3>2, <3>3, <2>n
  <2>9. PICK o : o = b
    OBVIOUS
  <2>10. /\ \A j \in 1..Hdr : At(o + j)' = u
         /\ \A j \in 1..u.of : At(o + Hdr + j)' = [u EXCEPT !.n = j]
    <3>1. ASSUME NEW j \in 1..Hdr PROVE At(o + j)' = u
      <4>1. o + j \in (b + 1)..(b + Hdr)
        BY <2>9, <2>n
      <4> QED BY <4>1, <2>7
    <3>2. ASSUME NEW j \in 1..u.of PROVE At(o + Hdr + j)' = [u EXCEPT !.n = j]
      BY <2>8, <2>9
    <3> QED BY <3>1, <3>2
  <2>11. PICK v : v = u
    OBVIOUS
  <2>12. /\ v \in Unit /\ v.n = 0 /\ v.x = gu16SessionID /\ v.d = Coming /\ End' = b + Hdr + v.of
         /\ \A j \in 1..Hdr : At(o + j)' = v
         /\ \A j \in 1..v.of : At(o + Hdr + j)' = [v EXCEPT !.n = j]
    BY <2>2, <2>3, <2>4, <2>10, <2>11, <1>5, <1>9
  <2>13. /\ O \in SUBSET Nat /\ _rcvSize \in Nat /\ buf.head \in Nat /\ buf.tail \in Nat
         /\ buf.tail <= buf.head /\ buf'.head \in Nat /\ buf.head + Hdr < buf'.head
         /\ Coming \in Int /\ Coming' = Coming + 1 /\ buf'.tail = buf.tail /\ o = buf.head
         /\ End = buf.head /\ End' = buf.head + Hdr + v.of
         /\ (faults' = 0 => faults = 0) /\ UNCHANGED <<gu16SessionID, _rcvSize, got>>
    <3>1. /\ _rcvSize \in Nat /\ O \in SUBSET Nat /\ UNCHANGED <<gu16SessionID, _rcvSize, got>>
          /\ (faults' = 0 => faults = 0)
      BY <1>1, <1>11, Bounds DEF IInv, Types
    <3>2. Coming \in Int /\ Coming' = Coming + 1
      BY <2>3
    <3>3. /\ buf.head \in Nat /\ buf.tail \in Nat /\ buf.tail <= buf.head /\ buf'.head \in Nat
          /\ buf.head + Hdr < buf'.head /\ buf'.tail = buf.tail /\ o = buf.head
      BY <2>9, <2>n DEF b
    <3>4. End = buf.head /\ End' = buf.head + Hdr + v.of
      BY <2>4, <2>12 DEF b
    <3> QED BY <3>1, <3>2, <3>3, <3>4
  <2>14. \A p \in (buf.tail + 1)..buf.head : At(p)' = At(p)
    BY <2>6 DEF b
  <2>15. Row(O \union {o})' /\ Begun(O \union {o})'
    BY <2>1, <2>12, <2>13, <2>14, RowGrown
  <2>16. O \union {o} \in SUBSET (0..UdpSize)
    <3>1. o \in 0..UdpSize
      BY <2>9, <2>n
    <3> QED BY <3>1, <2>1
  <2> QED BY <2>15, <2>16
<1> QED BY <1>15, <1>16, <1>17, <1>19, <1>21, <1>23, <1>24 DEF IInv

LEMMA FromReplyStep == ASSUME IInv, FromReply PROVE IInv'
<1>1. CASE Head(line).x = sock.session /\ Head(line).size > 0 /\ Readable(sock)
  <2>1. /\ line # <<>> /\ line' = Tail(line) /\ hif_small_xfer = 0
        /\ hif_small_xfer' = IF Head(line).size > Mtu THEN 1 ELSE 0
        /\ UNCHANGED <<gu16SessionID, _socket, _rcvSize, got, misbound, made>>
    BY <1>1 DEF FromReply, Open
  <2>2. CASE ReadIn
    BY <1>1, <2>2, TakenIn
  <2>3. CASE /\ Fails /\ sock' = [sock EXCEPT !.pending = FALSE]
             /\ rest' = IF Head(line).size > Mtu THEN Arrived ELSE <<>>
             /\ torn' = (torn \/ Head(line).size > Mtu)
             /\ UNCHANGED <<buf, chip, crowded>>
    <3>1. hushed' = hushed
      BY <1>1 DEF FromReply, IInv, Types
    <3>2. CASE Head(line).size > Mtu
      <4>1. Arrived \in Seq(Unit)
        <5>1. /\ line[1] \in Answers /\ Head(line) = line[1] /\ 1 \in 1..Len(line)
          BY <2>1, Taken DEF IInv
        <5>2. Head(line).k = "from"
          BY DEF FromReply
        <5>3. /\ Head(line).size \in 1..MaxSize /\ Head(line).x \in Sessions
              /\ Head(line).d \in 1..MaxDatagrams
          <6>1. /\ Head(line).size \in 0..MaxSize /\ Head(line).x \in Sessions
                /\ Head(line).d \in 0..MaxDatagrams
            BY <5>1, <5>2 DEF Answers
          <6>2. Head(line).d > 0
            BY <1>1, <5>1, <5>2 DEF IInv, Types
          <6> QED BY <6>1, <6>2, <1>1, Bounds
        <5>4. \A i \in 1..Head(line).size :
                [x |-> Head(line).x, d |-> Head(line).d, n |-> i, of |-> Head(line).size] \in Unit
          BY <5>3, Bounds DEF Unit
        <5>5. Head(line).size \in Nat
          BY <5>3
        <5> QED BY <5>4, <5>5 DEF Arrived
      <4>2. torn' = TRUE /\ hif_small_xfer' \in 1..3 /\ rest' \in Seq(Unit)
        <5>1. torn' = TRUE
          BY <2>3, <3>2
        <5>2. hif_small_xfer' = 1 /\ rest' \in Seq(Unit)
          BY <2>1, <2>3, <3>2, <4>1
        <5> QED BY <5>1, <5>2
      <4> QED BY <2>1, <2>3, <3>1, <4>2, Dropped
    <3>3. CASE ~(Head(line).size > Mtu)
      <4>1. UNCHANGED <<hif_small_xfer, rest, torn>>
        <5>1. torn' = torn
          BY <2>3, <3>3 DEF IInv, Types
        <5>2. hif_small_xfer' = hif_small_xfer /\ rest' = rest
          BY <2>1, <2>3, <3>3 DEF IInv, Types
        <5> QED BY <5>1, <5>2
      <4> QED BY <2>1, <2>3, <3>1, <4>1, Dropped
    <3> QED BY <3>2, <3>3
  <2> QED BY <1>1, <2>2, <2>3 DEF FromReply, ReadIn, Arrived
<1>2. CASE ~(Head(line).x = sock.session /\ Head(line).size > 0 /\ Readable(sock))
  BY <1>2, PassedOver
<1> QED BY <1>1, <1>2

\* The next part of a paused transfer is read.
ChunkRead ==
  LET more == Len(rest) > Mtu
  IN /\ CbRecvfrom(sock, IF more THEN 2 ELSE 3, Chunk(rest), more)
     /\ rest' = SubSeq(rest, Mtu + 1, Len(rest)) /\ torn' = torn

\* A paused transfer goes on: the row stays as it was, with more of it in the buffer.
LEMMA SmallChunkStep == ASSUME IInv, SmallChunk PROVE IInv'
<1>1. CASE ~Readable(sock)
  <2>1. UNCHANGED udpVars
    BY <1>1 DEF SmallChunk, udpVars, sockVars, xferVars, histVars
  <2> QED BY <2>1, IdleStep
<1>2. CASE Readable(sock) /\ ChunkRead
  <2> DEFINE more == Len(rest) > Mtu
             s == IF more THEN 2 ELSE 3
             c == Chunk(rest)
             b == buf.head
             h == b + Len(c)
  <2>1. /\ ~Full /\ hif_small_xfer # 0 /\ CbRecvfrom(sock, s, c, more)
        /\ hif_small_xfer' = (IF more THEN 2 ELSE 0) /\ rest' = SubSeq(rest, Mtu + 1, Len(rest))
        /\ UNCHANGED <<gu16SessionID, _socket, _rcvSize, line, got, misbound, hushed, made>>
    BY <1>2 DEF SmallChunk, ChunkRead
  <2>h. torn' = torn
    BY <1>2 DEF ChunkRead
  <2>2. /\ sock \in Sockets /\ chip \in Chips /\ buf \in Buffers /\ crowded \in BOOLEAN
        /\ faults \in 0..MaxFaults
        /\ b \in Nat /\ buf.tail \in Nat /\ rest \in Seq(Unit) /\ Len(rest) \in Nat
    BY DEF IInv, Types, Buffers
  <2>3. /\ c \in Seq(Unit) /\ rest' \in Seq(Unit) /\ Len(c) = IF more THEN Mtu ELSE Len(rest)
        /\ \A j \in 1..Len(c) : c[j] = rest[j]
        /\ Len(rest') = IF more THEN Len(rest) - Mtu ELSE 0
        /\ \A j \in 1..(Len(rest) - Mtu) : rest'[j] = rest[Mtu + j]
    BY <2>1, <2>2, ChunkFacts
  <2> HIDE DEF c
  <2>4. /\ sock.used /\ sock.user # None /\ chip.x = sock.session
    BY <1>2 DEF Readable, IInv, SessionInv
  <2>5. /\ sock' \in Sockets /\ chip' \in Chips /\ buf' \in Buffers /\ crowded' \in BOOLEAN
        /\ chip'.x = chip.x /\ chip'.phase = chip.phase /\ chip'.sent = chip.sent
        /\ sock'.used = sock.used /\ sock'.session = sock.session
        /\ faults' \in 0..MaxFaults /\ faults' >= faults
        /\ Stored(sock, s, c, more)
    <3>1. s \in 0..3 /\ ~(s < 2) /\ more \in BOOLEAN
      OBVIOUS
    <3> HIDE DEF s, more
    <3> QED BY <3>1, <2>1, <2>2, <2>3, CbRecvfromEffect
  <2>6. /\ buf'.head = h /\ buf'.tail = buf.tail
        /\ buf'.flag = buf.flag \union (IF more /\ ~Room(h) THEN {"full"} ELSE {})
        /\ (crowded' <=> crowded \/ h > UdpSize \/ (~more /\ ~Room(h) /\ sock.pending))
        /\ Room(h) => Recvfrom(sock, IF more THEN h ELSE h + Hdr)
        /\ ~Room(h) => sock' = sock /\ chip' = chip /\ faults' = faults
    <3>1. ~(s < 2) /\ (s \in {1, 2} <=> more) /\ (s = 3 <=> ~more)
      OBVIOUS
    <3>2. b + (IF s < 2 THEN Hdr ELSE 0) + Len(c) = h
      BY <3>1, <2>2, <2>3
    <3> HIDE DEF s, more, h, b
    <3> QED BY <3>1, <3>2, <2>5 DEF Stored, b
  <2>7. \A i \in 1..UdpSize : buf'.mem[i] =
          IF i \in (sock.user + 1)..(sock.user + Len(c)) THEN c[i - sock.user] ELSE buf.mem[i]
    <3>1. ~(s < 2)
      OBVIOUS
    <3> HIDE DEF s, more
    <3> QED BY <3>1, <2>5 DEF Stored
  <2>8. h \in Nat
    BY <2>2, <2>3
  <2>f. faults' = 0 => faults = 0
    BY <2>2, <2>5, Bounds
  <2>9. IF Room(h) THEN /\ sock'.pending /\ sock'.user = IF more THEN h ELSE h + Hdr
                        /\ \/ chip'.asked = IF sock.pending THEN chip.asked ELSE chip.asked + 1
                           \/ ~sock.pending /\ faults' > 0 /\ chip'.asked = chip.asked
        ELSE sock' = sock /\ chip' = chip
    <3>1. CASE Room(h)
      <4>1. (IF more THEN h ELSE h + Hdr) \in Int
        BY <2>8, Bounds
      <4> HIDE DEF h, more
      <4> QED BY <3>1, <4>1, <2>2, <2>4, <2>6, RecvfromEffect
    <3>2. CASE ~Room(h)
      BY <3>2, <2>6
    <3> QED BY <3>1, <3>2
  <2> HIDE DEF h
  <2>10. Types'
    <3>1. hif_small_xfer' \in 0..3
      BY <2>1
    <3>2. hif_small_xfer' = 0 => rest' = <<>>
      BY <2>1, <2>3
    <3> QED BY <2>1, <2>h, <3>2, <2>3, <2>5, <3>1 DEF IInv, Types
  <2>11. SessionInv'
    BY <2>1, <2>4, <2>5 DEF IInv, SessionInv
  <2>12. GotInv'
    BY <2>1, <2>h, <2>f, <2>6, GotKept DEF IInv, Spoilt
  <2>13. ~misbound => ~Binding
    BY <2>4 DEF IInv, BindInv
  <2>14. BindInv'
    BY <2>1, <2>6, <2>13 DEF BindInv, Binding
  <2>15. RecvInv'
    <3> SUFFICES ASSUME ~misbound PROVE RecvInv'
      BY <2>1 DEF RecvInv
    <3>1. /\ chip.phase # "binding"
          /\ \/ chip.asked = 1 /\ line = <<>> /\ sock.pending
             \/ /\ chip.asked = 0 /\ Len(line) = 1 /\ sock.pending
                /\ line[1].k = "from" /\ line[1].x = gu16SessionID /\ line[1].d = chip.sent
             \/ chip.asked = 0 /\ line = <<>> /\ (~sock.pending \/ faults > 0)
      BY <2>4, <2>13 DEF IInv, RecvInv
    <3>2. faults > 0 => faults' > 0
      BY <2>2, <2>5, Bounds
    <3> QED BY <3>1, <3>2, <2>1, <2>5, <2>9 DEF RecvInv
  <2>16. ASSUME Ready'
         PROVE  /\ Ready /\ sock.user = b /\ h <= UdpSize /\ buf.tail <= b /\ b <= UdpSize /\ b < h
                /\ ~more /\ ~Room(h) => ~sock.pending
    <3>1. Ready /\ ~(h > UdpSize) /\ (~more /\ ~Room(h) => ~sock.pending)
      BY <2>1, <2>h, <2>4, <2>6, <2>16 DEF Ready, Spoilt, Binding
    <3>2. /\ sock.user = b /\ b <= UdpSize /\ buf.tail <= b /\ rest # <<>>
      BY <3>1, <2>1, <2>2 DEF IInv, PlaceInv
    <3>3. Len(rest) > 0
      BY <3>2, <2>2
    <3>4. Len(c) \in Nat /\ Len(c) > 0
      BY <3>3, <2>2, <2>3, Bounds
    <3>5. b < h /\ h <= UdpSize
      BY <3>1, <3>4, <2>2, <2>8, Bounds DEF h
    <3> QED BY <3>1, <3>2, <3>5
  <2>17. PlaceInv'
    <3> SUFFICES ASSUME Ready' PROVE PlaceInv'
      BY DEF PlaceInv
    <3>1. sock'.user \in Int /\ sock'.user >= None /\ (sock'.user <= Hdr \/ sock'.user <= UdpSize - Mtu)
      <4>1. CASE Room(h)
        BY <4>1, <2>8, <2>9, <2>16, Bounds DEF Room, None
      <4>2. CASE ~Room(h)
        BY <4>2, <2>9, <2>16 DEF IInv, PlaceInv
      <4> QED BY <4>1, <4>2
    <3>2. buf'.tail < buf'.head /\ buf'.head <= UdpSize /\ buf'.head > 0
      BY <2>2, <2>6, <2>8, <2>16, Bounds
    <3>3. CASE more
      <4>1. hif_small_xfer' = 2 /\ Len(rest') = Len(rest) - Mtu
        BY <3>3, <2>1, <2>3
      <4>2. rest' # <<>>
        <5>1. Len(rest') # 0
          BY <4>1, <3>3, <2>2, Bounds
        <5> QED BY <5>1
      <4>3. ~Full' => Room(h)
        BY <3>3, <2>6 DEF Full
      <4> QED BY <3>1, <3>2, <3>3, <4>1, <4>2, <4>3, <2>6, <2>9 DEF PlaceInv
    <3>4. CASE ~more
      <4>1. hif_small_xfer' = 0 /\ ~Full'
        BY <3>4, <2>1, <2>6 DEF Full
      <4>2. sock'.pending => sock'.user = h + Hdr
        BY <3>4, <2>9, <2>16
      <4> QED BY <3>1, <3>2, <4>1, <4>2, <2>6 DEF PlaceInv
    <3> QED BY <3>3, <3>4
  <2>18. RowInv'
    <3> SUFFICES ASSUME Ready' PROVE \E O \in SUBSET (0..UdpSize) : Row(O)' /\ Begun(O)'
      BY DEF RowInv
    <3>1. PICK O \in SUBSET (0..UdpSize) : Row(O) /\ Begun(O)
      BY <2>16 DEF IInv, RowInv
    <3>n. /\ b \in Nat /\ Len(c) \in Nat /\ Len(rest) \in Nat /\ Len(c) <= Len(rest)
          /\ (~more => Len(c) = Len(rest)) /\ (more => Len(c) = Mtu)
          /\ buf'.head = b + Len(c) /\ buf'.head <= UdpSize /\ buf.tail \in Nat /\ buf.tail <= b
          /\ buf'.tail = buf.tail /\ Mtu \in Nat /\ UdpSize \in Nat
      BY <2>2, <2>3, <2>6, <2>16, Bounds DEF h
    <3> HIDE DEF b, more
    <3>2. End = b + Len(rest) /\ End' = b + Len(rest) /\ (more => hif_small_xfer' # 0)
      <4>1. End = b + Len(rest)
        BY <2>1 DEF End, Rest, b
      <4>2. CASE more
        <5>1. hif_small_xfer' = 2 /\ Len(rest') = Len(rest) - Mtu
          BY <4>2, <2>1, <2>3
        <5> QED BY <5>1, <4>1, <4>2, <3>n DEF End, Rest
      <4>3. CASE ~more
        <5>1. hif_small_xfer' = 0
          BY <4>3, <2>1
        <5> QED BY <5>1, <4>1, <4>3, <3>n DEF End, Rest
      <4> QED BY <4>1, <4>2, <4>3
    <3>3. \A i \in 1..UdpSize : buf'.mem[i] =
            IF i \in (b + 1)..(b + Len(c)) THEN c[i - b] ELSE buf.mem[i]
      BY <2>7, <2>16
    <3>4. ASSUME NEW p \in (buf.tail + 1)..End PROVE At(p)' = At(p)
      <4>1. p \in Nat /\ p > 0 /\ p <= b + Len(rest)
        BY <3>2, <3>n
      <4>2. CASE p <= b
        <5>1. p \in 1..UdpSize /\ p <= buf'.head /\ ~(p \in (b + 1)..(b + Len(c)))
          BY <4>1, <4>2, <3>n
        <5> QED BY <5>1, <4>2, <3>3 DEF At, b
      <4>3. CASE ~(p <= b) /\ p <= buf'.head
        <5>1. p \in 1..UdpSize /\ p \in (b + 1)..(b + Len(c)) /\ p - b \in 1..Len(c)
          BY <4>1, <4>3, <3>n
        <5>2. buf'.mem[p] = c[p - b] /\ c[p - b] = rest[p - b]
          BY <5>1, <3>3, <2>3
        <5> QED BY <5>2, <4>3 DEF At, b
      <4>4. CASE ~(p <= b) /\ ~(p <= buf'.head)
        <5>1. more
          BY <4>1, <4>4, <3>n
        <5>2. /\ p - buf'.head \in 1..(Len(rest) - Mtu) /\ Mtu + (p - buf'.head) = p - b
          BY <5>1, <4>1, <4>4, <3>n
        <5>3. rest'[p - buf'.head] = rest[p - b]
          BY <5>2, <2>3
        <5> QED BY <5>3, <4>4 DEF At, b
      <4> QED BY <4>2, <4>3, <4>4
    <3>5. Coming' = Coming
      BY <2>1, <2>5 DEF Coming
    <3>6. /\ _rcvSize \in Nat /\ End \in Nat /\ buf.head \in Nat /\ buf'.head \in Nat
          /\ buf.head <= buf'.head /\ End' = End /\ UNCHANGED <<gu16SessionID, _rcvSize, got>>
          /\ (faults' = 0 => faults = 0)
      <4>1. _rcvSize \in Nat /\ UNCHANGED <<gu16SessionID, _rcvSize, got>>
        BY <2>1, Bounds DEF IInv, Types
      <4> QED BY <4>1, <2>f, <3>2, <3>n DEF b
    <3>7. Row(O)' /\ Begun(O)'
      BY <3>1, <3>4, <3>5, <3>6, <3>n, RowMoved
    <3> QED BY <3>1, <3>7
  <2> QED BY <2>10, <2>11, <2>12, <2>14, <2>15, <2>17, <2>18 DEF IInv
<1>3. CASE /\ Readable(sock) /\ Fails
           /\ hif_small_xfer' = IF Len(rest) > Mtu THEN 2 ELSE 0
           /\ rest' = IF Len(rest) > Mtu THEN rest ELSE <<>>
           /\ torn' = (torn \/ ~(Len(rest) > Mtu))
           /\ UNCHANGED <<sock, chip, buf, crowded>>
  <2>1. /\ hif_small_xfer # 0
        /\ UNCHANGED <<gu16SessionID, _socket, _rcvSize, line, got, misbound, hushed, made>>
    BY DEF SmallChunk
  <2>2. faults' \in 0..MaxFaults /\ faults' > 0
    <3>1. faults \in Nat /\ faults <= MaxFaults
      BY Bounds DEF IInv, Types
    <3> QED BY <3>1, <1>3, Bounds DEF Fails
  <2>3. torn' \in BOOLEAN /\ (~torn' => ~torn /\ Len(rest) > Mtu)
    BY <1>3
  <2>4. Types'
    <3>1. /\ hif_small_xfer' \in 0..3 /\ rest' \in Seq(Unit)
          /\ hif_small_xfer' = 0 => rest' = <<>>
      BY <1>3 DEF IInv, Types
    <3> QED BY <1>3, <2>1, <2>2, <2>3, <3>1 DEF IInv, Types
  <2>5. SessionInv'
    BY <1>3, <2>1 DEF IInv, SessionInv
  <2>6. BindInv' /\ RecvInv'
    BY <1>3, <2>1, <2>2 DEF IInv, BindInv, RecvInv, Binding
  <2>7. GotInv'
    <3>1. Spoilt => Spoilt'
      BY <1>3, <2>1, <2>3 DEF Spoilt
    <3> QED BY <2>1, <2>2, <3>1, GotKept DEF IInv
  <2>8. ASSUME Ready'
        PROVE  Ready /\ hif_small_xfer' = 2 /\ rest' = rest
    BY <1>3, <2>1, <2>3, <2>8 DEF Ready, Spoilt, Binding
  <2>9. PlaceInv'
    BY <1>3, <2>1, <2>8 DEF IInv, PlaceInv, Full
  <2>10. RowInv'
    <3>1. CASE ~Ready'
      BY <3>1 DEF RowInv
    <3>2. CASE Ready'
      <4>1. Coming' = Coming /\ Coming' \in Int
        BY <1>3, <2>1 DEF Coming, IInv, Types, Chips
      <4> QED BY <1>3, <2>1, <2>2, <2>8, <3>2, <4>1, RowApart DEF IInv
    <3> QED BY <3>1, <3>2
  <2> QED BY <2>4, <2>5, <2>6, <2>7, <2>9, <2>10 DEF IInv
<1> QED BY <1>1, <1>2, <1>3 DEF SmallChunk, ChunkRead

-----------------------------------------------------------------------------
(* Reading.                                                                  *)

\* There is nothing to read in a socket that is closed or waits for its BIND.
LEMMA ReadyToRead ==
  ASSUME IInv, DataAvailable > 0
  PROVE  /\ sock.used /\ chip.x = sock.session /\ buf.head \in Nat /\ buf.tail \in Nat /\ buf.tail < buf.head
         /\ sock \in Sockets /\ chip \in Chips /\ buf \in Buffers
         /\ ~misbound => ~Binding
         /\ ~Spoilt => Ready /\ buf.head <= UdpSize
<1>1. /\ buf.head \in Nat /\ buf.tail \in Nat /\ buf.tail < buf.head
      /\ sock \in Sockets /\ chip \in Chips /\ buf \in Buffers
  BY DEF IInv, Types, Buffers, DataAvailable
<1>2. sock.used /\ chip.x = sock.session
  BY <1>1 DEF IInv, SessionInv
<1>3. ~misbound => ~Binding
  BY <1>1, <1>2 DEF IInv, BindInv
<1>4. ~Spoilt => Ready /\ buf.head <= UdpSize
  BY <1>2, <1>3 DEF Spoilt, Ready, IInv, PlaceInv
<1> QED BY <1>1, <1>2, <1>3, <1>4

LEMMA ReadyToParse ==
  ASSUME IInv, DataAvailable # 0
  PROVE  /\ sock.used /\ chip.x = sock.session /\ buf.head \in Nat /\ buf.tail \in Nat
         /\ sock \in Sockets /\ chip \in Chips /\ buf \in Buffers
         /\ ~misbound => ~Binding
         /\ ~Spoilt => Ready /\ buf.head <= UdpSize /\ buf.tail < buf.head
<1>1. /\ buf.head \in Nat /\ buf.tail \in Nat /\ buf.head # buf.tail
      /\ sock \in Sockets /\ chip \in Chips /\ buf \in Buffers
  BY DEF IInv, Types, Buffers, DataAvailable
<1>2. sock.used /\ chip.x = sock.session
  BY <1>1 DEF IInv, SessionInv
<1>3. ~misbound => ~Binding
  BY <1>1, <1>2 DEF IInv, BindInv
<1>4. ~Spoilt => Ready /\ buf.head <= UdpSize /\ buf.tail < buf.head
  BY <1>1, <1>2, <1>3 DEF Spoilt, Ready, IInv, PlaceInv
<1> QED BY <1>1, <1>2, <1>3, <1>4

LEMMA CellFacts ==
  ASSUME buf \in Buffers, NEW p \in Nat, p > 0
  PROVE  Cell(p) \in Units /\ (p <= buf.head /\ buf.head <= UdpSize => Cell(p) = At(p))
BY Bounds DEF Cell, At, Buffers, Units

\* What is read of a datagram comes after what was read of it.
LEMMA ReadInOrder ==
  ASSUME IInv, NEW n \in 1.._rcvSize, n <= DataAvailable, ~Spoilt
  PROVE  /\ got # <<>> /\ Last \in Unit /\ Last.x = gu16SessionID /\ Last.of - Last.n = _rcvSize
         /\ \A i \in 1..n : ReadOut(n)[i] = [Last EXCEPT !.n = @ + i]
         /\ \A i \in 1..n : [Last EXCEPT !.n = @ + i] \in Unit
<1>1. _rcvSize \in Nat /\ n \in Nat /\ n > 0 /\ n <= _rcvSize
  BY Bounds DEF IInv, Types
<1>2. /\ buf.head \in Nat /\ buf.tail \in Nat /\ buf.tail + n <= buf.head /\ buf \in Buffers
      /\ Ready /\ buf.head <= UdpSize
  <2>1. DataAvailable > 0
    BY <1>1 DEF DataAvailable, IInv, Types, Buffers
  <2> QED BY <2>1, <1>1, ReadyToRead DEF DataAvailable
<1>3. got # <<>> /\ Last \in Unit /\ Last.x = gu16SessionID /\ Last.of - Last.n = _rcvSize
  BY <1>1 DEF IInv, GotInv
<1>4. \A j \in 1.._rcvSize : At(buf.tail + j) = [Last EXCEPT !.n = @ + j]
  BY <1>2 DEF IInv, RowInv, Begun
<1>5. ASSUME NEW i \in 1..n PROVE ReadOut(n)[i] = [Last EXCEPT !.n = @ + i]
  <2>1. buf.tail + i \in Nat /\ buf.tail + i > 0 /\ buf.tail + i <= buf.head /\ i \in 1.._rcvSize
    BY <1>1, <1>2
  <2>2. Cell(buf.tail + i) = At(buf.tail + i)
    BY <2>1, <1>2, CellFacts
  <2> QED BY <2>1, <2>2, <1>4 DEF ReadOut
<1>6. ASSUME NEW i \in 1..n PROVE [Last EXCEPT !.n = @ + i] \in Unit
  <2> DEFINE m == Last.n + i
  <2>1. Last.n \in 0..MaxSize /\ Last.of \in 1..MaxSize
    BY <1>3 DEF Unit
  <2>2. m \in 0..MaxSize
    BY <2>1, <1>1, <1>3, Bounds
  <2> HIDE DEF m
  <2>3. [Last EXCEPT !.n = m] \in Unit
    BY <2>2, <1>3 DEF Unit
  <2> QED BY <2>3 DEF m
<1> QED BY <1>3, <1>5, <1>6

\* Units that follow each other after others that do
LEMMA Chained ==
  ASSUME NEW a \in Seq(Units), NEW b \in Seq(Units), a # <<>>, b # <<>>,
         \A i \in 1..(Len(a) - 1) : Follows(a[i], a[i + 1]),
         \A i \in 1..(Len(b) - 1) : Follows(b[i], b[i + 1]),
         Follows(a[Len(a)], b[1])
  PROVE  /\ a \o b \in Seq(Units) /\ a \o b # <<>> /\ (a \o b)[1] = a[1]
         /\ (a \o b)[Len(a \o b)] = b[Len(b)]
         /\ \A i \in 1..(Len(a \o b) - 1) : Follows((a \o b)[i], (a \o b)[i + 1])
<1> DEFINE c == a \o b
<1>1. /\ c \in Seq(Units) /\ Len(c) = Len(a) + Len(b) /\ Len(a) \in Nat /\ Len(b) \in Nat
      /\ Len(a) > 0 /\ Len(b) > 0
      /\ \A i \in 1..Len(a) : c[i] = a[i]
      /\ \A i \in 1..Len(b) : c[Len(a) + i] = b[i]
  OBVIOUS
<1> HIDE DEF c
<1>2. ASSUME NEW i \in 1..(Len(c) - 1) PROVE Follows(c[i], c[i + 1])
  <2>1. CASE i < Len(a)
    <3>1. c[i] = a[i] /\ c[i + 1] = a[i + 1] /\ i \in 1..(Len(a) - 1)
      BY <2>1, <1>1
    <3> QED BY <3>1
  <2>2. CASE i = Len(a)
    <3>1. c[i] = a[Len(a)] /\ c[i + 1] = b[1]
      BY <2>2, <1>1
    <3> QED BY <3>1
  <2>3. CASE i > Len(a)
    <3>1. PICK j : j = i - Len(a)
      OBVIOUS
    <3>2. j \in 1..(Len(b) - 1) /\ i = Len(a) + j /\ i + 1 = Len(a) + (j + 1) /\ j \in 1..Len(b)
          /\ j + 1 \in 1..Len(b)
      BY <3>1, <2>3, <1>1
    <3>3. c[i] = b[j] /\ c[i + 1] = b[j + 1]
      BY <3>2, <1>1
    <3> QED BY <3>2, <3>3
  <2> QED BY <2>1, <2>2, <2>3, <1>1
<1>3. c[1] = a[1] /\ c[Len(c)] = b[Len(b)] /\ c # <<>>
  <2>1. Len(b) \in 1..Len(b) /\ 1 \in 1..Len(a)
    BY <1>1
  <2> QED BY <2>1, <1>1
<1> QED BY <1>1, <1>2, <1>3 DEF c

LEMMA ReadStep ==
  ASSUME IInv, NEW n \in 1.._rcvSize, n <= DataAvailable, NEW q, BufferRead(n, q),
         UNCHANGED <<gu16SessionID, _socket, xferVars, line, crowded, misbound, hushed,
                     torn, made>>
  PROVE  IInv'
<1> DEFINE t == buf.tail + n
<1>1. _rcvSize \in 0..MaxSize /\ _rcvSize \in Nat /\ n \in Nat /\ n > 0 /\ n <= _rcvSize
  BY Bounds DEF IInv, Types
<1>2. /\ sock.used /\ chip.x = sock.session /\ buf.head \in Nat /\ buf.tail \in Nat
      /\ t \in Nat /\ t <= buf.head /\ buf.tail < t
      /\ sock \in Sockets /\ chip \in Chips /\ buf \in Buffers
      /\ ~misbound => ~Binding
      /\ ~Spoilt => Ready /\ buf.head <= UdpSize
  <2>1. DataAvailable > 0
    BY <1>1 DEF DataAvailable, IInv, Types, Buffers
  <2>2. /\ sock.used /\ chip.x = sock.session /\ buf.head \in Nat /\ buf.tail \in Nat
        /\ sock \in Sockets /\ chip \in Chips /\ buf \in Buffers
        /\ ~misbound => ~Binding
        /\ ~Spoilt => Ready /\ buf.head <= UdpSize
    BY <2>1, ReadyToRead
  <2>3. t \in Nat /\ t <= buf.head /\ buf.tail < t
    BY <2>2, <1>1 DEF DataAvailable
  <2> QED BY <2>2, <2>3
<1>3. /\ got' = got \o ReadOut(n) /\ _rcvSize' = _rcvSize - n
      /\ UNCHANGED <<gu16SessionID, _socket, hif_small_xfer, rest, line, crowded, misbound,
                     hushed, torn, made>>
  BY DEF BufferRead, xferVars
<1> DEFINE at == IF hif_small_xfer # 0 THEN 0 ELSE Hdr
<1>4. \/ /\ t = buf.head /\ buf' = [buf EXCEPT !.head = 0, !.tail = 0, !.flag = @ \ {"full"}]
         /\ Recvfrom(sock, at)
      \/ /\ t # buf.head /\ buf' = [buf EXCEPT !.tail = t]
         /\ sock' = sock /\ chip' = chip /\ faults' = faults
  BY DEF BufferRead
<1>5. /\ buf' \in Buffers /\ buf'.mem = buf.mem /\ buf'.flag \in {buf.flag, buf.flag \ {"full"}}
      /\ \/ t = buf.head /\ buf'.head = 0 /\ buf'.tail = 0 /\ "full" \notin buf'.flag
         \/ t # buf.head /\ buf'.head = buf.head /\ buf'.tail = t /\ buf'.flag = buf.flag
  <2> HIDE DEF t
  <2>1. buf.flag \ {"full"} \in SUBSET {"binding", "bind", "full"} /\ "full" \notin buf.flag \ {"full"}
    BY <1>2 DEF Buffers
  <2>2. CASE t = buf.head
    <3>1. buf' = [buf EXCEPT !.head = 0, !.tail = 0, !.flag = @ \ {"full"}]
      BY <2>2, <1>4
    <3> QED BY <2>1, <2>2, <3>1, <1>2 DEF Buffers
  <2>3. CASE t # buf.head
    <3>1. buf' = [buf EXCEPT !.tail = t]
      BY <2>3, <1>4
    <3> QED BY <2>3, <3>1, <1>2 DEF Buffers
  <2> QED BY <2>2, <2>3
<1>6. /\ sock' \in Sockets /\ chip' \in Chips
      /\ chip'.x = chip.x /\ chip'.phase = chip.phase /\ chip'.sent = chip.sent
      /\ sock'.used = sock.used /\ sock'.session = sock.session
      /\ faults' \in 0..MaxFaults /\ faults' >= faults
      /\ \/ t # buf.head /\ sock' = sock /\ chip' = chip
         \/ /\ t = buf.head /\ sock'.pending /\ sock'.user = at
            /\ \/ chip'.asked = IF sock.pending THEN chip.asked ELSE chip.asked + 1
               \/ ~sock.pending /\ faults' > 0 /\ chip'.asked = chip.asked
  <2>0. faults \in 0..MaxFaults
    BY DEF IInv, Types
  <2>1. CASE t = buf.head
    <3>1. Recvfrom(sock, at) /\ at \in Int
      BY <2>1, <1>4, Bounds
    <3> HIDE DEF at, t
    <3> QED BY <2>0, <2>1, <3>1, <1>2, RecvfromEffect
  <2>2. CASE t # buf.head
    <3>1. sock' = sock /\ chip' = chip /\ faults' = faults
      BY <2>2, <1>4
    <3>2. faults' \in 0..MaxFaults /\ faults' >= faults
      BY <2>0, <3>1, Bounds
    <3> HIDE DEF t, at
    <3> QED BY <2>2, <3>1, <3>2, <1>2
  <2> QED BY <2>1, <2>2
<1>f. (faults' = 0 => faults = 0) /\ (faults > 0 => faults' > 0)
  <2>1. faults \in Nat /\ faults' \in Nat
    BY <1>6, Bounds DEF IInv, Types
  <2> QED BY <2>1, <1>6
<1> HIDE DEF t
<1>7. ReadOut(n) \in Seq(Units) /\ Len(ReadOut(n)) = n
  <2>1. ASSUME NEW i \in 1..n PROVE Cell(buf.tail + i) \in Units
    <3>1. buf.tail + i \in Nat /\ buf.tail + i > 0
      BY <1>2
    <3> QED BY <3>1, <1>2, CellFacts
  <2> QED BY <2>1, <1>1 DEF ReadOut
<1>8. Types'
  <2>1. got' \in Seq(Units)
    BY <1>3, <1>7 DEF IInv, Types
  <2>2. _rcvSize' \in 0..MaxSize
    BY <1>1, <1>3, Bounds
  <2> QED BY <1>3, <1>5, <1>6, <2>1, <2>2 DEF IInv, Types
<1>9. SessionInv'
  BY <1>2, <1>3, <1>6 DEF IInv, SessionInv
<1>10. Binding' <=> Binding
  BY <1>5 DEF Binding
<1>11. BindInv'
  BY <1>2, <1>3, <1>10 DEF BindInv
<1>12. RecvInv'
  <2> SUFFICES ASSUME ~misbound PROVE RecvInv'
    BY <1>3 DEF RecvInv
  <2>1. /\ chip.phase # "binding"
        /\ \/ chip.asked = 1 /\ line = <<>> /\ sock.pending
           \/ /\ chip.asked = 0 /\ Len(line) = 1 /\ sock.pending
              /\ line[1].k = "from" /\ line[1].x = gu16SessionID /\ line[1].d = chip.sent
           \/ chip.asked = 0 /\ line = <<>> /\ (~sock.pending \/ faults > 0)
    BY <1>2 DEF IInv, RecvInv
  <2> QED BY <2>1, <1>3, <1>6, <1>f DEF RecvInv
<1>13. Spoilt' = Spoilt
  BY <1>3 DEF Spoilt
<1>14. ASSUME ~Spoilt
       PROVE  /\ got # <<>> /\ got' # <<>> /\ got'[1] = got[1] /\ Last' = [Last EXCEPT !.n = @ + n]
              /\ Last \in Unit /\ Last' \in Unit /\ Last.x = gu16SessionID /\ Last.of - Last.n = _rcvSize
              /\ \A i \in 1..(Len(got') - 1) : Follows(got'[i], got'[i + 1])
  <2>1. /\ got # <<>> /\ Last \in Unit /\ Last.x = gu16SessionID /\ Last.of - Last.n = _rcvSize
        /\ \A i \in 1..n : ReadOut(n)[i] = [Last EXCEPT !.n = @ + i]
        /\ \A i \in 1..n : [Last EXCEPT !.n = @ + i] \in Unit
    BY <1>14, ReadInOrder
  <2>2. Last.n \in Nat /\ Last.of \in Nat
    BY <2>1, Bounds DEF Unit
  <2>3. ASSUME NEW i \in 1..(n - 1) PROVE Follows(ReadOut(n)[i], ReadOut(n)[i + 1])
    <3>1. i \in 1..n /\ i + 1 \in 1..n /\ i \in Nat /\ i < n
      BY <1>1
    <3>2. ReadOut(n)[i] = [Last EXCEPT !.n = @ + i] /\ ReadOut(n)[i + 1] = [Last EXCEPT !.n = @ + (i + 1)]
      BY <2>1, <3>1
    <3>3. Last.n + i < Last.of /\ Last.n + (i + 1) = Last.n + i + 1
      <4>1. Last.of - Last.n = _rcvSize
        BY <2>1
      <4> QED BY <4>1, <2>2, <3>1, <1>1
    <3>4. [Last EXCEPT !.n = @ + i].n < [Last EXCEPT !.n = @ + i].of
      BY <2>1, <3>3 DEF Unit
    <3>5. [Last EXCEPT !.n = @ + (i + 1)] = [[Last EXCEPT !.n = @ + i] EXCEPT !.n = @ + 1]
      BY <2>1, <3>3 DEF Unit
    <3> QED BY <3>2, <3>4, <3>5 DEF Follows
  <2>4. Follows(Last, ReadOut(n)[1])
    <3>1. Last.n < Last.of /\ ReadOut(n)[1] = [Last EXCEPT !.n = @ + 1]
      BY <2>1, <2>2, <1>1
    <3> QED BY <3>1 DEF Follows
  <2>5. \A i \in 1..(Len(got) - 1) : Follows(got[i], got[i + 1])
    BY <1>14 DEF IInv, GotInv
  <2>6. got \in Seq(Units) /\ ReadOut(n) # <<>>
    BY <1>1, <1>7 DEF IInv, Types
  <2>7. /\ got' # <<>> /\ got'[1] = got[1] /\ got'[Len(got')] = ReadOut(n)[n]
        /\ \A i \in 1..(Len(got') - 1) : Follows(got'[i], got'[i + 1])
    <3> DEFINE r == ReadOut(n)
    <3>1. /\ r \in Seq(Units) /\ r # <<>> /\ Len(r) = n /\ got' = got \o r
          /\ \A i \in 1..(Len(r) - 1) : Follows(r[i], r[i + 1])
          /\ Follows(got[Len(got)], r[1])
      BY <1>3, <1>7, <2>3, <2>4, <2>6 DEF Last
    <3> HIDE DEF r
    <3> QED BY <3>1, <2>1, <2>5, <2>6, Chained DEF r
  <2>8. Last' = [Last EXCEPT !.n = @ + n] /\ [Last EXCEPT !.n = @ + n] \in Unit
    <3>1. n \in 1..n
      BY <1>1
    <3> QED BY <3>1, <2>1, <2>7 DEF Last
  <2> QED BY <2>1, <2>7, <2>8
<1>15. GotInv'
  <2> SUFFICES ASSUME ~Spoilt PROVE GotInv'
    BY <1>13 DEF GotInv
  <2>1. Last.n \in Nat /\ Last.of \in Nat /\ Last'.n = Last.n + n /\ Last'.of = Last.of /\ Last'.x = Last.x
    <3>1. Last \in Unit /\ Last' = [Last EXCEPT !.n = @ + n]
      BY <1>14
    <3> HIDE DEF Last
    <3> QED BY <3>1, Bounds DEF Unit
  <2>2. got[1].n = 0 /\ got[1].x = gu16SessionID
    BY <1>14 DEF IInv, GotInv
  <2>3. Last'.n <= Last'.of /\ _rcvSize' = Last'.of - Last'.n
    BY <2>1, <1>1, <1>3, <1>14
  <2>4. ASSUME NEW i \in 1..(Len(got') - 1) PROVE Follows(got[i], got[i + 1])'
    <3>1. PICK u, v : u = got'[i] /\ v = got'[i + 1]
      OBVIOUS
    <3>2. Follows(u, v)
      BY <3>1, <1>14
    <3>3. Follows(u, v)'
      BY <3>2, <1>f, FollowsKept
    <3> QED BY <3>1, <3>3
  <2> QED BY <2>1, <2>2, <2>3, <2>4, <1>3, <1>14 DEF GotInv
<1>16. Ready' <=> Ready
  BY <1>6, <1>10, <1>13 DEF Ready
<1>17. PlaceInv'
  <2> SUFFICES ASSUME Ready PROVE PlaceInv'
    BY <1>16 DEF PlaceInv
  <2>1. CASE t # buf.head
    <3>1. buf'.tail < buf'.head /\ buf.head > 0
      BY <2>1, <1>2, <1>5
    <3> QED BY <2>1, <3>1, <1>3, <1>5, <1>6, <1>f DEF IInv, PlaceInv, Full
  <2>2. CASE t = buf.head
    <3>1. /\ buf'.tail = 0 /\ buf'.head = 0 /\ sock'.pending /\ sock'.user = at /\ ~Full'
      BY <2>2, <1>5, <1>6 DEF Full
    <3>2. at \in Int /\ at >= None /\ at <= Hdr
      BY Bounds DEF None
    <3>3. hif_small_xfer # 0 => rest # <<>>
      BY DEF IInv, PlaceInv
    <3> QED BY <3>1, <3>2, <3>3, <1>3, Bounds DEF PlaceInv
  <2> QED BY <2>1, <2>2
<1>18. RowInv'
  <2> SUFFICES ASSUME Ready PROVE \E O \in SUBSET (0..UdpSize) : Row(O)' /\ Begun(O)'
    BY <1>16 DEF RowInv
  <2>0. ~Spoilt /\ got # <<>> /\ got' # <<>> /\ Last' = [Last EXCEPT !.n = @ + n] /\ Last \in Unit
        /\ Last'.d = Last.d
    BY <1>14 DEF Ready, Unit
  <2>1. PICK O \in SUBSET (0..UdpSize) : Row(O) /\ Begun(O)
    BY DEF IInv, RowInv
  <2>2. PICK e : e = buf.tail + _rcvSize
    OBVIOUS
  <2>3. /\ \A j \in 1.._rcvSize : At(buf.tail + j) = [Last EXCEPT !.n = @ + j]
        /\ e <= End
        /\ IF e = End THEN Before(faults, Last.d, Coming) ELSE e \in O /\ Before(faults, Last.d, At(e + 1).d)
    BY <2>0, <2>1, <2>2 DEF Begun
  <2>4. Coming' = Coming /\ Rest' = Rest /\ Len(Rest) \in Nat
    BY <1>3, <1>6 DEF Coming, Rest, IInv, Types
  <2>5. /\ e \in Nat /\ e >= t /\ e = t + (_rcvSize - n) /\ _rcvSize' = _rcvSize - n
        /\ \A j \in 1.._rcvSize' : n + j \in 1.._rcvSize /\ t + j = buf.tail + (n + j)
    <3>1. /\ e \in Nat /\ e >= t /\ e = t + (_rcvSize - n)
      BY <2>2, <1>1, <1>2 DEF t
    <3>2. _rcvSize' = _rcvSize - n
      BY <1>3
    <3>3. ASSUME NEW j \in 1..(_rcvSize - n)
          PROVE  n + j \in 1.._rcvSize /\ t + j = buf.tail + (n + j)
      BY <1>1, <1>2 DEF t
    <3> QED BY <3>1, <3>2, <3>3
  <2>6. \A j \in 1.._rcvSize' : [Last EXCEPT !.n = @ + (n + j)] = [Last' EXCEPT !.n = @ + j]
    <3> SUFFICES ASSUME NEW j \in 1.._rcvSize'
                 PROVE  [Last EXCEPT !.n = @ + (n + j)] = [Last' EXCEPT !.n = @ + j]
      OBVIOUS
    <3>1. Last.n \in Nat /\ j \in Nat
      BY <2>0, Bounds DEF Unit
    <3>2. Last.n + (n + j) = (Last.n + n) + j
      BY <3>1, <1>1
    <3>3. Last'.n = Last.n + n
      BY <2>0 DEF Unit
    <3>4. [Last' EXCEPT !.n = @ + j] = [Last EXCEPT !.n = (Last.n + n) + j]
      BY <2>0, <3>3
    <3> QED BY <3>2, <3>4
  <2>7. \A j \in 1.._rcvSize' : At(t + j) = [Last' EXCEPT !.n = @ + j]
    <3> SUFFICES ASSUME NEW j \in 1.._rcvSize' PROVE At(t + j) = [Last' EXCEPT !.n = @ + j]
      OBVIOUS
    <3>1. n + j \in 1.._rcvSize /\ t + j = buf.tail + (n + j)
      BY <2>5
    <3>2. At(buf.tail + (n + j)) = [Last EXCEPT !.n = @ + (n + j)]
      BY <3>1, <2>3
    <3> QED BY <3>1, <3>2, <2>6
  <2>8. CASE t # buf.head
    <3>1. /\ buf'.head = buf.head /\ buf'.tail = t /\ buf'.mem = buf.mem /\ End' = End
          /\ \A p : At(p)' = At(p)
      BY <2>4, <2>8, <1>3, <1>5 DEF At, End
    <3>5. PICK w : w = t
      OBVIOUS
    <3> DEFINE P == {o \in O : o >= w}
    <3>2. Row(P)'
      BY <2>1, <2>4, <3>1, <3>5, <1>2, <1>3, <1>f, RowShort
    <3>3. IF e = End THEN Before(faults', Last.d, Coming) ELSE e \in P /\ Before(faults', Last.d, At(e + 1).d)
      BY <2>3, <2>5, <3>5, <1>f, BeforeKept
    <3>4. P \in SUBSET (0..UdpSize) /\ Row(P)'
      BY <3>2
    <3>6. \A j \in 1.._rcvSize' : At(w + j)' = [Last' EXCEPT !.n = @ + j]
      BY <3>1, <3>5, <2>7
    <3>7. e <= End' /\ e = (buf.tail + _rcvSize)' /\ w = buf'.tail
          /\ IF e = End' THEN Before(faults', Last'.d, Coming')
             ELSE e \in P /\ Before(faults', Last'.d, At(e + 1)'.d)
      BY <3>1, <3>3, <3>5, <2>0, <2>3, <2>4, <2>5
    <3> HIDE DEF P
    <3>8. Begun(P)'
      BY <3>6, <3>7, <2>0 DEF Begun
    <3> QED BY <3>4, <3>8
  <2>9. CASE t = buf.head
    <3>1. e = End /\ Before(faults', Last.d, Coming)
      <4>1. ~(e \in O)
        BY <2>1, <2>5, <2>9, <1>2, Bounds DEF Row
      <4> QED BY <4>1, <2>3, <1>f, BeforeKept
    <3>2. /\ buf'.head = 0 /\ buf'.tail = 0 /\ End' = Len(Rest) /\ End = t + Len(Rest)
      BY <2>4, <2>9, <1>5 DEF End
    <3>3. _rcvSize' = End' /\ End' \in Nat
      BY <3>1, <3>2, <2>4, <2>5, <1>1, <1>2
    <3>4. ASSUME NEW j \in 1.._rcvSize' PROVE At(j)' = [Last' EXCEPT !.n = @ + j]
      <4>1. ~(j <= buf'.head) /\ j - buf'.head = j /\ ~(t + j <= buf.head) /\ (t + j) - buf.head = j
        BY <3>2, <3>3, <2>9, <1>2
      <4>2. At(j)' = rest[j] /\ At(t + j) = rest[j]
        BY <4>1, <1>3 DEF At
      <4> QED BY <4>2, <2>7
    <3>5. Row({})'
      BY DEF Row
    <3>6. (buf.tail + _rcvSize)' = End' /\ \A j \in 1.._rcvSize' : buf'.tail + j = j
      BY <3>2, <3>3
    <3>7. \A j \in 1.._rcvSize' : At(buf.tail + j)' = [Last' EXCEPT !.n = @ + j]
      BY <3>4, <3>6
    <3>8. Begun({})'
      <4>1. (buf.tail + _rcvSize)' <= End'
        BY <3>3, <3>6
      <4>2. Before(faults', (IF got = <<>> THEN 0 ELSE Last.d)', Coming')
        BY <3>1, <2>0, <2>4
      <4> QED BY <3>6, <3>7, <4>1, <4>2 DEF Begun
    <3> QED BY <3>5, <3>8
  <2> QED BY <2>8, <2>9
<1> QED BY <1>8, <1>9, <1>11, <1>12, <1>15, <1>17, <1>18 DEF IInv

\* parsePacket() reads a header where a datagram begins.
LEMMA ParsedStep == ASSUME IInv, Parsed PROVE IInv'
<1> DEFINE reads == _socket /\ _rcvSize = 0 /\ DataAvailable # 0 /\ buf.tail <= UdpSize
<1>1. CASE ~reads
  <2>1. UNCHANGED udpVars
    BY <1>1 DEF Parsed, udpVars, sockVars, xferVars, histVars
  <2> QED BY <2>1, IdleStep
<1>2. CASE reads
  <2> DEFINE u == Cell(buf.tail + 1)
             t == buf.tail + Hdr
  <2>1. /\ _rcvSize' = u.of /\ buf' = [buf EXCEPT !.tail = t] /\ got' = Append(got, u)
        /\ UNCHANGED <<sock, gu16SessionID, _socket, hif_small_xfer, rest, chip, line, crowded, misbound,
                       hushed, torn, made, faults>>
    BY <1>2 DEF Parsed, xferVars
  <2>2. /\ sock.used /\ chip.x = sock.session /\ buf.head \in Nat /\ buf.tail \in Nat
        /\ sock \in Sockets /\ chip \in Chips /\ buf \in Buffers
        /\ ~misbound => ~Binding
        /\ ~Spoilt => Ready /\ buf.head <= UdpSize /\ buf.tail < buf.head
    BY <1>2, ReadyToParse
  <2>3. u \in Units /\ (~Spoilt => u = At(buf.tail + 1)) /\ t \in Nat
    <3>1. /\ buf.tail + 1 \in Nat /\ buf.tail + 1 > 0 /\ ~Spoilt => buf.tail + 1 <= buf.head
      BY <2>2
    <3> QED BY <3>1, <2>2, CellFacts, Bounds
  <2>4. /\ buf' \in Buffers /\ buf'.mem = buf.mem /\ buf'.flag = buf.flag /\ buf'.head = buf.head
        /\ buf'.tail = t
    <3> HIDE DEF t
    <3> QED BY <2>1, <2>2, <2>3 DEF Buffers
  <2> HIDE DEF u, t
  <2>5. Types'
    <3>1. u.of \in 0..MaxSize
      BY <2>3, Bounds DEF Units, Unit, Stale
    <3>2. got' \in Seq(Units)
      BY <2>1, <2>3 DEF IInv, Types
    <3> QED BY <2>1, <2>4, <3>1, <3>2 DEF IInv, Types
  <2>6. SessionInv' /\ RecvInv' /\ (Binding' <=> Binding) /\ (Spoilt' <=> Spoilt) /\ (Ready' <=> Ready)
    BY <2>1, <2>2, <2>4 DEF IInv, SessionInv, RecvInv, Binding, Spoilt, Ready
  <2>7. BindInv'
    BY <2>1, <2>2, <2>6 DEF BindInv
  <2>8. ASSUME ~Spoilt, NEW O, Row(O), Begun(O)
        PROVE  /\ u \in Unit /\ u.n = 0 /\ u.x = gu16SessionID /\ u.of \in Nat /\ u.of > 0
               /\ Before(faults, IF got = <<>> THEN 0 ELSE Last.d, u.d)
               /\ t < buf.head /\ t + u.of <= End
               /\ \A j \in 1..u.of : At(t + j) = [u EXCEPT !.n = j]
               /\ IF t + u.of = End THEN Before(faults, u.d, Coming)
                  ELSE t + u.of \in O /\ Before(faults, u.d, At((t + u.of) + 1).d)
    <3>1. buf.tail + _rcvSize = buf.tail /\ u = At(buf.tail + 1)
      BY <1>2, <2>2, <2>3, <2>8
    <3>2. End \in Nat /\ buf.tail < End
      BY <2>2, <2>8 DEF End, Rest, IInv, Types
    <3>3. buf.tail \in O /\ Before(faults, IF got = <<>> THEN 0 ELSE Last.d, u.d)
      BY <3>1, <3>2, <2>8 DEF Begun
    <3>4. PICK o \in O : o = buf.tail
      BY <3>3
    <3>5. u = At(o + 1) /\ t = o + Hdr
      BY <3>1, <3>4 DEF t
    <3>6. /\ o + Hdr < buf.head /\ o + Hdr + u.of <= End
          /\ u \in Unit /\ u.n = 0 /\ u.x = gu16SessionID
          /\ \A j \in 1..u.of : At(o + Hdr + j) = [u EXCEPT !.n = j]
          /\ IF o + Hdr + u.of = End THEN Before(faults, u.d, Coming)
             ELSE o + Hdr + u.of \in O /\ Before(faults, u.d, At(o + Hdr + u.of + 1).d)
      BY <3>5, <2>8 DEF Row
    <3>7. u.of \in Nat /\ u.of > 0
      BY <3>6, Bounds DEF Unit
    <3> QED BY <3>3, <3>5, <3>6, <3>7
  <2>9. GotInv'
    <3> SUFFICES ASSUME ~Spoilt PROVE GotInv'
      BY <2>6 DEF GotInv
    <3>1. PICK O : Row(O) /\ Begun(O)
      BY <2>2 DEF IInv, RowInv
    <3>2. /\ u \in Unit /\ u.n = 0 /\ u.x = gu16SessionID /\ u.of \in Nat
          /\ Before(faults, IF got = <<>> THEN 0 ELSE Last.d, u.d)
      BY <2>8, <3>1
    <3>3. /\ got \in Seq(Units) /\ Len(got) \in Nat /\ Len(got') = Len(got) + 1 /\ Last' = u
          /\ got' # <<>> /\ \A i \in 1..Len(got) : got'[i] = got[i]
          /\ got'[Len(got) + 1] = u
      <4>1. got \in Seq(Units) /\ u \in Units /\ got' = Append(got, u)
        BY <2>1, <2>3 DEF IInv, Types
      <4>2. /\ Len(got) \in Nat /\ Len(Append(got, u)) = Len(got) + 1 /\ Append(got, u) # <<>>
            /\ \A i \in 1..Len(got) : Append(got, u)[i] = got[i]
            /\ Append(got, u)[Len(got) + 1] = u
        BY <4>1
      <4> QED BY <4>1, <4>2 DEF Last
    <3>4. got'[1].n = 0 /\ got'[1].x = gu16SessionID
      <4>1. CASE got = <<>>
        <5>1. Len(got) = 0
          BY <4>1
        <5> QED BY <5>1, <3>2, <3>3
      <4>2. CASE got # <<>>
        <5>1. 1 \in 1..Len(got)
          BY <4>2, <3>3
        <5> QED BY <5>1, <4>2, <3>3 DEF IInv, GotInv
      <4> QED BY <4>1, <4>2
    <3>5. ASSUME NEW i \in 1..(Len(got') - 1) PROVE Follows(got'[i], got'[i + 1])
      <4>1. CASE i < Len(got)
        <5>1. i \in 1..(Len(got) - 1) /\ i \in 1..Len(got) /\ i + 1 \in 1..Len(got)
          BY <4>1, <3>3
        <5>2. got'[i] = got[i] /\ got'[i + 1] = got[i + 1]
          BY <5>1, <3>3
        <5>3. Follows(got[i], got[i + 1])
          BY <5>1 DEF IInv, GotInv
        <5>4. PICK v, w : v = got[i] /\ w = got[i + 1]
          OBVIOUS
        <5>5. Follows(v, w)'
          BY <5>3, <5>4, <2>1, FollowsKept
        <5>6. Follows(v, w)
          BY <5>3, <5>4
        <5> QED BY <5>2, <5>4, <5>6
      <4>2. CASE i = Len(got)
        <5>1. got # <<>> /\ got'[i] = Last /\ got'[i + 1] = u
          BY <4>2, <3>3 DEF Last
        <5>2. Last \in Unit /\ Last.x = gu16SessionID /\ Last.of - Last.n = 0
          BY <5>1, <1>2 DEF IInv, GotInv
        <5>3. ~(Last.n < Last.of)
          BY <5>2, Bounds DEF Unit
        <5>4. Before(faults, Last.d, u.d) /\ u.x = Last.x /\ u.n = 0
          BY <3>2, <5>1, <5>2
        <5>5. u.d > Last.d /\ (faults = 0 => u.d = Last.d + 1)
          BY <5>4, <5>2, <3>2, Bounds DEF Before, Unit
        <5> QED BY <5>1, <5>3, <5>4, <5>5 DEF Follows
      <4> QED BY <4>1, <4>2, <3>3
    <3>6. Last'.n <= Last'.of /\ _rcvSize' = Last'.of - Last'.n
      BY <3>2, <3>3, <2>1
    <3>7. \A i \in 1..(Len(got') - 1) : Follows(got[i], got[i + 1])'
      BY <3>5, <2>1 DEF Follows
    <3> QED BY <3>2, <3>3, <3>4, <3>6, <3>7, <2>1 DEF GotInv
  <2>10. PlaceInv'
    <3> SUFFICES ASSUME Ready PROVE PlaceInv'
      BY <2>6 DEF PlaceInv
    <3>1. PICK O : Row(O) /\ Begun(O)
      BY DEF IInv, RowInv
    <3>2. t < buf.head
      BY <2>8, <3>1 DEF Ready
    <3> QED BY <3>2, <2>1, <2>4 DEF IInv, PlaceInv, Full
  <2>11. RowInv'
    <3> SUFFICES ASSUME Ready PROVE \E O \in SUBSET (0..UdpSize) : Row(O)' /\ Begun(O)'
      BY <2>6 DEF RowInv
    <3>1. PICK O \in SUBSET (0..UdpSize) : Row(O) /\ Begun(O)
      BY DEF IInv, RowInv
    <3>2. PICK w \in Nat : w = t
      BY <2>3
    <3>3. PICK v : v = u
      OBVIOUS
    <3>4. PICK e : e = w + v.of
      OBVIOUS
    <3> DEFINE P == {o \in O : o >= w}
    <3>5. /\ buf'.tail = w /\ buf'.head = buf.head /\ buf'.mem = buf.mem /\ End' = End /\ Coming' = Coming
          /\ gu16SessionID' = gu16SessionID /\ \A p : At(p)' = At(p)
      BY <3>2, <2>1, <2>4 DEF At, End, Rest, Coming
    <3>6. Row(P)'
      BY <3>1, <3>5, <2>1, RowShort
    <3>7. /\ v \in Unit /\ v.n = 0 /\ v.of \in Nat /\ e <= End
          /\ \A j \in 1..v.of : At(w + j) = [v EXCEPT !.n = j]
          /\ IF e = End THEN Before(faults, v.d, Coming)
             ELSE e \in O /\ Before(faults, v.d, At(e + 1).d)
      BY <3>1, <3>2, <3>3, <3>4, <2>8 DEF Ready
    <3>8. e >= w
      BY <3>4, <3>7
    <3>9. got' # <<>> /\ Last' = v
      BY <3>3, <2>1, <2>3 DEF IInv, Types, Last
    <3>10. \A j \in 1..v.of : [v EXCEPT !.n = j] = [v EXCEPT !.n = @ + j]
      BY <3>7
    <3>11. _rcvSize' = v.of
      BY <3>3, <2>1
    <3>12. \A j \in 1.._rcvSize' : At(w + j)' = [Last' EXCEPT !.n = @ + j]
      BY <3>5, <3>7, <3>9, <3>10, <3>11
    <3>13. /\ e <= End' /\ e = (buf.tail + _rcvSize)' /\ w = buf'.tail
           /\ IF e = End' THEN Before(faults, Last'.d, Coming')
              ELSE e \in P /\ Before(faults, Last'.d, At(e + 1)'.d)
      BY <3>4, <3>5, <3>7, <3>8, <3>9, <3>11
    <3>14. P \in SUBSET (0..UdpSize)
      OBVIOUS
    <3> HIDE DEF P
    <3>15. Begun(P)'
      BY <3>9, <3>12, <3>13, <2>1 DEF Begun, Before
    <3> QED BY <3>6, <3>14, <3>15
  <2> QED BY <2>5, <2>6, <2>7, <2>9, <2>10, <2>11 DEF IInv
<1> QED BY <1>1, <1>2

-----------------------------------------------------------------------------
(* All steps.                                                                *)

LEMMA AvailableBackStep == ASSUME IInv, AvailableBack PROVE IInv'
<1>1. /\ UNCHANGED <<gu16SessionID, _socket, xferVars, line, crowded, misbound, hushed, torn, made>>
      /\ _rcvSize \in Nat /\ DataAvailable \in Int
  BY Bounds DEF AvailableBack, IInv, Types, Buffers, DataAvailable
<1>2. CASE _socket /\ _rcvSize > 0 /\ DataAvailable > 0
  <2>1. PICK n \in 1..(IF _rcvSize < DataAvailable THEN _rcvSize ELSE DataAvailable) :
          BufferRead(n, "idle")
    BY <1>2 DEF AvailableBack
  <2>2. n \in 1.._rcvSize /\ n <= DataAvailable
    BY <1>1
  <2> QED BY <1>1, <2>1, <2>2, ReadStep
<1>3. CASE ~(_socket /\ _rcvSize > 0 /\ DataAvailable > 0)
  <2>1. UNCHANGED udpVars
    BY <1>3 DEF AvailableBack, udpVars, sockVars, histVars
  <2> QED BY <2>1, IdleStep
<1> QED BY <1>2, <1>3

LEMMA FlushBackStep == ASSUME IInv, FlushBack PROVE IInv'
<1>1. /\ UNCHANGED <<gu16SessionID, _socket, xferVars, line, crowded, misbound, hushed, torn, made>>
      /\ _rcvSize \in Nat /\ DataAvailable \in Int
  BY Bounds DEF FlushBack, IInv, Types, Buffers, DataAvailable
<1>2. CASE _socket /\ _rcvSize > 0 /\ DataAvailable > 0
  <2>1. 1 \in 1.._rcvSize /\ 1 <= DataAvailable /\ BufferRead(1, "flushed")
    BY <1>1, <1>2 DEF FlushBack
  <2> QED BY <1>1, <2>1, ReadStep
<1>3. CASE ~(_socket /\ _rcvSize > 0 /\ DataAvailable > 0)
  <2>1. UNCHANGED udpVars
    BY <1>3 DEF FlushBack, udpVars, sockVars, histVars
  <2> QED BY <2>1, IdleStep
<1> QED BY <1>2, <1>3

LEMMA BindWaitStep == ASSUME IInv, BindWait PROVE IInv'
<1>1. CASE UNCHANGED <<sock, buf, _socket, chip>>
  <2>1. UNCHANGED udpVars
    BY <1>1 DEF BindWait, udpVars, sockVars
  <2> QED BY <2>1, IdleStep
<1>2. CASE sock' = Closed /\ buf' = Empty /\ chip' = Nobody /\ _socket' = FALSE
  BY <1>2, ClosedStep DEF BindWait
<1> QED BY <1>1, <1>2 DEF BindWait

LEMMA StepIInv == IInv /\ [Next]_vars => IInv'
<1> SUFFICES ASSUME IInv, [Next]_vars PROVE IInv'
  OBVIOUS
<1>1. CASE EventsReturn \/ ParsePacket \/ Available \/ Flush \/ FlushMore \/ Bound
  <2>1. UNCHANGED udpVars
    BY <1>1 DEF EventsReturn, ParsePacket, Available, Flush, FlushMore, Bound
  <2> QED BY <2>1, IdleStep
<1>2. CASE SmallChunk
  BY <1>2, SmallChunkStep
<1>3. CASE CbBind
  BY <1>3, CbBindStep
<1>4. CASE FromReply
  BY <1>4, FromReplyStep
<1>5. CASE ApDisconnected
  <2>1. _socket' \in BOOLEAN
    BY <1>5 DEF ApDisconnected, IInv, Types
  <2> QED BY <1>5, <2>1, ClosedStep DEF ApDisconnected
<1>6. CASE Rebind
  BY <1>6, RebindStep
<1>7. CASE BindWait
  BY <1>7, BindWaitStep
<1>8. CASE Parsed
  BY <1>8, ParsedStep
<1>9. CASE AvailableBack
  BY <1>9, AvailableBackStep
<1>10. CASE FlushBack
  BY <1>10, FlushBackStep
<1>11. CASE Stop
  BY <1>11, ClosedStep DEF Stop
<1>12. CASE ChipBind
  BY <1>12, ChipBindStep
<1>13. CASE ChipFrom
  BY <1>13, ChipFromStep
<1>15. CASE AnswerUnread
  BY <1>15, AnswerUnreadStep
<1>14. CASE UNCHANGED vars
  <2>1. UNCHANGED udpVars
    BY <1>14 DEF vars
  <2> QED BY <2>1, IdleStep
<1> QED BY <1>1, <1>2, <1>3, <1>4, <1>5, <1>6, <1>7, <1>8, <1>9, <1>10, <1>11, <1>12, <1>13, <1>14,
           <1>15
           DEF Next, Events, Take, Method, App, Chip

-----------------------------------------------------------------------------
(* The theorems.                                                             *)

\* What holds of the socket, its buffer, the paused transfer, the chip and the
\* reader together: everything that was sent up and not read stands in the buffer and the
\* transfer, each datagram behind its own header, as CbRecvfrom put it there.
THEOREM Invariance == Spec => []IInv
BY InitIInv, StepIInv, PTL DEF Spec

\* The variables have their types; as long as none of the three known ways
\* spoils the buffer, what is received stays inside it and at most one RECVFROM is
\* with the chip.
THEOREM TypeCorrect == Spec => []UdpTypes
<1>1. IInv => UdpTypes
  <2> SUFFICES ASSUME IInv PROVE UdpTypes
    OBVIOUS
  <2>1. /\ sock.used \in BOOLEAN /\ sock.pending \in BOOLEAN /\ sock.session \in 0..MaxSessions
        /\ sock.user \in Int
    BY DEF IInv, Types, Sockets
  <2>2. /\ buf.flag \subseteq {"binding", "bind", "full"} /\ buf.head \in Nat /\ buf.tail \in Nat
        /\ buf.mem \in [1..UdpSize -> Unit \union {Stale}]
    BY DEF IInv, Types, Buffers, Units
  <2>3. /\ chip.x \in 0..MaxSessions /\ chip.phase \in {"none", "binding", "bound"} /\ chip.asked \in Nat
        /\ chip.sent \in 0..MaxDatagrams
    BY Bounds DEF IInv, Types, Chips
  <2>4. ASSUME ~Spoilt
        PROVE  /\ sock.user >= None
               /\ sock.user <= Hdr \/ sock.user <= UdpSize - Mtu
               /\ buf.head <= UdpSize /\ buf.tail <= buf.head
    <3>1. CASE ~sock.used
      <4>1. sock.user = None /\ buf.head = 0 /\ buf.tail = 0
        BY <3>1 DEF IInv, SessionInv, Closed
      <4> QED BY <4>1, Bounds DEF None
    <3>2. CASE sock.used /\ Binding
      <4>1. sock.user = None /\ buf.head = 0 /\ buf.tail = 0
        BY <3>2, <2>4 DEF IInv, BindInv, Spoilt
      <4> QED BY <4>1, Bounds DEF None
    <3>3. CASE Ready
      BY <3>3, <2>2 DEF IInv, PlaceInv
    <3> QED BY <3>1, <3>2, <3>3, <2>4 DEF Ready
  <2>5. misbound \/ chip.asked <= 1
    <3>1. CASE ~sock.used
      BY <3>1 DEF IInv, SessionInv, Nobody
    <3>2. CASE sock.used
      BY <3>2 DEF IInv, BindInv, RecvInv
    <3> QED BY <3>1, <3>2
  <2>6. Spoilt \/ sock.user \in None..Hdr \/ sock.user \in None..(UdpSize - Mtu)
    BY <2>1, <2>4, Bounds DEF None
  <2>7. {crowded, misbound, hushed, torn} \subseteq BOOLEAN
    BY DEF IInv, Types
  <2>8. /\ gu16SessionID \in 0..MaxSessions /\ hif_small_xfer \in 0..3 /\ rest \in Seq(Unit)
        /\ _socket \in BOOLEAN /\ _rcvSize \in 0..MaxSize
        /\ got \in Seq(Unit \union {Stale}) /\ made \in 0..MaxDatagrams /\ faults \in 0..MaxFaults
    BY DEF IInv, Types, Units
  <2> QED BY <2>1, <2>2, <2>3, <2>4, <2>5, <2>6, <2>7, <2>8 DEF UdpTypes
<1> QED BY <1>1, Invariance, PTL

\* parsePacket() and read() hand out the datagrams of the socket in order, each
\* with its own header and whole, however the chunks, the reads, the answers to
\* earlier sockets and the transfers that fail fall between each other.
THEOREM WholeDatagrams == Spec => []DatagramsWhole
<1>1. IInv => DatagramsWhole
  BY DEF IInv, GotInv, DatagramsWhole
<1> QED BY <1>1, Invariance, PTL

\* As long as no transfer has failed, a socket that is bound hears of the next
\* datagram: it has been asked for, its answer is on the way, or what asks for it is
\* still to come.
THEOREM AsksAgain == Spec => []Receiving
<1>1. IInv => Receiving
  <2> SUFFICES ASSUME IInv, ~Spoilt, faults = 0, ~hushed, sock.used, "bind" \in buf.flag, chip.x = sock.session,
                      hif_small_xfer = 0
               PROVE  chip.asked > 0 \/ DataAvailable > 0 \/ \E i \in DOMAIN line : line[i].x = sock.session
    BY DEF Receiving
  <2>1. Ready /\ ~misbound /\ sock.session = gu16SessionID
    BY DEF Ready, IInv, BindInv, Spoilt, SessionInv
  <2>2. CASE chip.asked = 1
    BY <2>2
  <2>3. CASE Len(line) = 1 /\ line[1].x = gu16SessionID
    <3>1. line \in Seq(Answers) /\ 1 \in 1..Len(line)
      BY <2>3 DEF IInv, Types
    <3>2. 1 \in DOMAIN line
      BY <3>1
    <3> QED BY <3>2, <2>1, <2>3
  <2>4. CASE ~sock.pending
    <3>1. buf.head > 0 /\ (buf.tail < buf.head \/ (buf.tail = 0 /\ buf.head = 0))
      BY <2>1, <2>4 DEF IInv, PlaceInv
    <3>2. buf.head \in Nat /\ buf.tail \in Nat
      BY DEF IInv, Types, Buffers
    <3> QED BY <3>1, <3>2 DEF DataAvailable
  <2> QED BY <2>1, <2>2, <2>3, <2>4 DEF IInv, RecvInv, Ready
<1> QED BY <1>1, Invariance, PTL

=============================================================================
