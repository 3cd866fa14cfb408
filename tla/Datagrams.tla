----------------------------- MODULE Datagrams -----------------------------
(***************************************************************************)
(* A WiFiUDP object on top of socket_buffer.c on top of socket.c.  A       *)
(* datagram is kept in the socket's buffer behind a header with its size   *)
(* and sender.  One that is longer than SOCKET_BUFFER_MTU is taken in      *)
(* chunks: the transfer is paused between them, and no other packet is     *)
(* handled until the next m2m_wifi_handle_events goes on with it.          *)
(*                                                                         *)
(* The object has the one UDP socket of the program (SipServer).  A caller *)
(* of read() asks for no more than available() says.                       *)
(***************************************************************************)
EXTENDS Integers, Sequences

CONSTANTS
  Hdr,           \* SOCKET_BUFFER_UDP_HEADER_SIZE, in units of data
  Mtu,           \* SOCKET_BUFFER_MTU
  UdpSize,       \* SOCKET_BUFFER_UDP_SIZE
  MaxSize,       \* the size of the largest datagram
  MaxDatagrams,  \* bound: answers to a RECVFROM
  MaxSessions,   \* bound: calls of socket()
  MaxFaults      \* bound: transfers that fail

\* UdpSize is Mtu, or with LIMITED_RAM_DEVICE more than that and a header.
ASSUME DatagramAssumption ==
  /\ {Hdr, Mtu, MaxSize, MaxSessions} \subseteq Nat \ {0}
  /\ {MaxDatagrams, MaxFaults} \subseteq Nat
  /\ UdpSize \in Nat /\ Hdr <= UdpSize /\ Mtu <= UdpSize

VARIABLES
  sock,          \* gastrSockets[]: used, session, pending, user (an offset in
                 \* the buffer, or None)
  gu16SessionID,
  buf,           \* gastrSocketBuffer[]: flag, head, tail, mem
  hif_small_xfer,
  rest,          \* what is left of the paused datagram on the chip
  _socket,       \* whether it is not -1
  _rcvSize,
  pc, ret,       \* control point, and where m2m_wifi_handle_events returns
  \* the chip
  chip,          \* the session it serves, its phase, RECVFROMs to be answered,
                 \* datagrams it has sent up
  line,          \* answers the host has not handled, oldest first
  \* bookkeeping of the model
  got,           \* history: headers and data read since socket()
  crowded,       \* history: there was no room for what was asked for
  misbound,      \* history: the answer to an earlier socket's BIND was taken
  hushed,        \* history: a RECVFROM was answered with an error
  torn,          \* history: a chunk of a datagram was not read
  made, faults   \* used up bounds

sockVars == <<sock, gu16SessionID, buf, _socket>>
xferVars == <<hif_small_xfer, rest>>
ctlVars == <<pc, ret>>
histVars == <<got, crowded, misbound, hushed, torn>>
udpVars == <<sockVars, xferVars, _rcvSize, chip, line, histVars, made, faults>>
vars == <<udpVars, ctlVars>>

None == -1
Sessions == 1..MaxSessions

\* A unit of a datagram: number 0 is its header.
Unit == [x : Sessions, d : 1..MaxDatagrams, n : 0..MaxSize, of : 1..MaxSize]
Stale == [x |-> 0, d |-> 0, n |-> 0, of |-> 0]   \* what the heap held before

Closed == [used |-> FALSE, session |-> 0, pending |-> FALSE, user |-> None]
Empty == [flag |-> {}, head |-> 0, tail |-> 0, mem |-> [i \in 1..UdpSize |-> Stale]]
Nobody == [x |-> 0, phase |-> "none", asked |-> 0, sent |-> 0]

Init ==
  /\ sock = Closed /\ gu16SessionID = 0 /\ buf = Empty /\ _socket = FALSE
  /\ hif_small_xfer = 0 /\ rest = <<>> /\ _rcvSize = 0
  /\ pc = "idle" /\ ret = "idle"
  /\ chip = Nobody /\ line = <<>>
  /\ got = <<>> /\ crowded = FALSE /\ misbound = FALSE /\ hushed = FALSE /\ torn = FALSE
  /\ made = 0 /\ faults = 0

-----------------------------------------------------------------------------
(* m2m_wifi_handle_events                                                    *)

GoTo(p) == pc' = p /\ ret' = "idle"

\* The event loop is called, to go on at r.
Call(r) == pc' = "events" /\ ret' = r

Full == "full" \in buf.flag

\* With the buffer full nothing is done; a paused transfer comes before all else.
Open == pc = "events" /\ ~Full /\ hif_small_xfer = 0

\* The gate is closed, or there is no interrupt.
EventsReturn ==
  /\ pc = "events" /\ (Full \/ hif_small_xfer = 0)
  /\ GoTo(ret)
  /\ UNCHANGED udpVars

\* A transfer over the bus fails: a request is not sent, a packet is not read.
Fails == faults < MaxFaults /\ faults' = faults + 1

\* recvfrom(sock, buffer + at, SOCKET_BUFFER_MTU, 0) with the socket table k: what
\* has been asked for is not asked for again, whether the request was sent or not.
Recvfrom(k, at) ==
  IF ~k.used THEN sock' = k /\ UNCHANGED <<chip, faults>>
  ELSE /\ sock' = [k EXCEPT !.user = at, !.pending = TRUE]
       /\ \/ /\ chip' = IF k.pending \/ chip.x # k.session THEN chip
                        ELSE [chip EXCEPT !.asked = @ + 1]
             /\ UNCHANGED faults
          \/ ~k.pending /\ Fails /\ UNCHANGED chip

\* SOCKET_CMD_BIND: the session in the answer is not looked at.
CbBind ==
  /\ Open /\ line # <<>> /\ Head(line).k = "bind"
  /\ line' = Tail(line)
  /\ IF Head(line).ok
     THEN buf' = [buf EXCEPT !.flag = {"bind"}] /\ Recvfrom(sock, Hdr)
     ELSE buf' = [buf EXCEPT !.flag = {}] /\ UNCHANGED <<sock, chip, faults>>
  /\ misbound' = (misbound \/ (sock.used /\ Head(line).x # sock.session))
  /\ UNCHANGED <<gu16SessionID, _socket, xferVars, _rcvSize, ctlVars, got, crowded, hushed,
                 torn, made>>

\* data from offset at on; what is behind the buffer is not part of the model
Put(mem, at, data) ==
  [i \in DOMAIN mem |-> IF i \in (at + 1)..(at + Len(data)) THEN data[i - at] ELSE mem[i]]

HeaderOf(u) == [i \in 1..Hdr |-> [u EXCEPT !.n = 0]]

\* Slip: the room for the header of the next datagram is forgotten.
RoomForData(h) == h > UdpSize \/ UdpSize - h >= Mtu

\* UDP_SIZE - h is unsigned
Room(h) == h > UdpSize \/ UdpSize - h >= Mtu + Hdr

\* Slip: a chunk after the first gets a header like a datagram of its own.
CbRecvfromHeaders(k, s, data, more) ==
  LET h == buf.head + Hdr + Len(data)
      stored == Put(buf.mem, k.user, data)
  IN /\ buf' = [buf EXCEPT !.mem = Put(stored, buf.head, HeaderOf(data[1])), !.head = h,
                  !.flag = @ \union (IF more /\ ~Room(h) THEN {"full"} ELSE {})]
     /\ IF Room(h) THEN Recvfrom(k, IF s \in {1, 2} THEN h ELSE h + Hdr)
                   ELSE sock' = k /\ UNCHANGED <<chip, faults>>
     /\ crowded' = (crowded \/ h > UdpSize \/ (s = 3 /\ ~Room(h) /\ k.pending))

\* hif_receive to the user's buffer and SOCKET_MSG_RECVFROM, with hif_small_xfer
\* at s: the first chunk gets a header, where the head is.
CbRecvfrom(k, s, data, more) ==
  LET first == s < 2
      h == buf.head + (IF first THEN Hdr ELSE 0) + Len(data)
      stored == Put(buf.mem, k.user, data)
  IN /\ buf' = [buf EXCEPT
                  !.mem = IF first THEN Put(stored, buf.head, HeaderOf(data[1])) ELSE stored,
                  !.head = h,
                  !.flag = @ \union (IF more /\ ~Room(h) THEN {"full"} ELSE {})]
     /\ IF Room(h) THEN Recvfrom(k, IF s \in {1, 2} THEN h ELSE h + Hdr)
                   ELSE sock' = k /\ UNCHANGED <<chip, faults>>
     /\ crowded' = (crowded \/ h > UdpSize \/ (s = 3 /\ ~Room(h) /\ k.pending))

Chunk(data) == SubSeq(data, 1, IF Len(data) > Mtu THEN Mtu ELSE Len(data))

Readable(k) == k.used /\ k.user # None

\* SOCKET_CMD_RECVFROM and Socket_ReadSocketData.  A read that fails goes unnoticed:
\* there is no callback and nothing is asked for.  When it was the first of several
\* chunks it is read as the next one is, without a header.
FromReply ==
  LET r == Head(line)
      k == [sock EXCEPT !.pending = FALSE]
      data == [i \in 1..r.size |-> [x |-> r.x, d |-> r.d, n |-> i, of |-> r.size]]
      more == r.size > Mtu
  IN
  /\ Open /\ line # <<>> /\ r.k = "from"
  /\ line' = Tail(line)
  /\ IF r.x = sock.session /\ r.size > 0 /\ Readable(sock)
     THEN /\ hif_small_xfer' = IF more THEN 1 ELSE 0
          /\ IF more THEN GoTo(ret) ELSE UNCHANGED ctlVars
          /\ \/ /\ CbRecvfrom(k, IF more THEN 1 ELSE 0, Chunk(data), more)
                /\ rest' = SubSeq(data, Mtu + 1, r.size)
                /\ UNCHANGED torn
             \/ /\ Fails
                /\ sock' = k
                /\ rest' = IF more THEN data ELSE <<>>
                /\ torn' = (torn \/ more)
                /\ UNCHANGED <<buf, chip, crowded>>
     ELSE /\ sock' = k
          /\ UNCHANGED <<buf, chip, crowded, xferVars, ctlVars, torn, faults>>
  /\ hushed' = (hushed \/ (r.x = sock.session /\ r.size = 0))
  /\ UNCHANGED <<gu16SessionID, _socket, _rcvSize, got, misbound, made>>

\* The answer itself is not read: it is gone, and bIsRecvfromPending stays.
AnswerUnread ==
  /\ Open /\ line # <<>> /\ Fails
  /\ line' = Tail(line)
  /\ UNCHANGED <<sockVars, xferVars, _rcvSize, chip, ctlVars, histVars, made>>

\* Socket_ReadSocketData_Small.  A chunk that cannot be read is tried again, but for
\* the last one: what it was to bring is lost.
SmallChunk ==
  /\ pc = "events" /\ ~Full /\ hif_small_xfer # 0
  /\ GoTo(ret)
  /\ IF Readable(sock)
     THEN LET more == Len(rest) > Mtu
          IN /\ hif_small_xfer' = IF more THEN 2 ELSE 0
             /\ \/ /\ CbRecvfrom(sock, IF more THEN 2 ELSE 3, Chunk(rest), more)
                   /\ rest' = SubSeq(rest, Mtu + 1, Len(rest))
                   /\ UNCHANGED torn
                \/ /\ Fails
                   /\ rest' = IF more THEN rest ELSE <<>>
                   /\ torn' = (torn \/ ~more)
                   /\ UNCHANGED <<sock, chip, buf, crowded>>
     ELSE UNCHANGED <<sock, chip, buf, crowded, xferVars, torn, faults>>
  /\ UNCHANGED <<gu16SessionID, _socket, _rcvSize, line, got, misbound, hushed, made>>

\* socketBufferApDisconnected, in the callback for a connection that is lost
ApDisconnected ==
  /\ Open
  /\ sock' = Closed /\ buf' = Empty /\ chip' = Nobody
  /\ UNCHANGED <<gu16SessionID, _socket, xferVars, _rcvSize, line, ctlVars, histVars, made, faults>>

-----------------------------------------------------------------------------
(* The methods of WiFiUDP.                                                   *)

ParsePacket == pc = "idle" /\ Call("parse") /\ UNCHANGED udpVars
Available == pc = "idle" /\ Call("available") /\ UNCHANGED udpVars
Flush == pc = "idle" /\ Call("flush") /\ UNCHANGED udpVars

\* begin() up to its wait: a socket that is free, its buffer, and bind().  When
\* the BIND has failed after all of a socket that is open, the new one is another:
\* the old one stays open for good, without a peer.
Begin ==
  /\ gu16SessionID < MaxSessions /\ gu16SessionID' = gu16SessionID + 1
  /\ got' = <<>> /\ _rcvSize' = 0
  /\ crowded' = FALSE /\ misbound' = FALSE /\ hushed' = FALSE /\ torn' = FALSE
  /\ \/ /\ sock' = [Closed EXCEPT !.used = TRUE, !.session = gu16SessionID']
        /\ buf' = [buf EXCEPT !.head = 0, !.tail = 0, !.flag = {"binding"}]
        /\ chip' = [Nobody EXCEPT !.x = gu16SessionID', !.phase = "binding"]
        /\ _socket' = TRUE
        /\ GoTo("bindWait")
     \/ /\ sock' = Closed /\ buf' = Empty /\ chip' = Nobody /\ _socket' = FALSE
        /\ GoTo("parsed")                        \* socket() or bind() fails

\* parsePacket() begins again when the BIND flag is gone.
Rebind ==
  /\ pc = "parse" /\ (~_socket \/ "bind" \notin buf.flag)
  /\ Begin
  /\ UNCHANGED <<xferVars, line, made, faults>>

Bound ==
  /\ pc = "parse"
  /\ \/ _socket /\ "bind" \in buf.flag /\ GoTo("parsed")
     \/ (~_socket \/ "bind" \notin buf.flag) /\ gu16SessionID = MaxSessions /\ GoTo("idle")
  /\ UNCHANGED udpVars

\* socketBufferBindWait, and what begin() does when it fails
BindWait ==
  /\ pc = "bindWait"
  /\ \/ /\ "binding" \in buf.flag /\ Call("bindWait")
        /\ UNCHANGED <<sock, buf, _socket, chip>>
     \/ /\ "bind" \in buf.flag /\ GoTo("parsed")
        /\ UNCHANGED <<sock, buf, _socket, chip>>
     \/ /\ buf.flag \cap {"binding", "bind"} = {} /\ GoTo("parsed")
        /\ sock' = Closed /\ buf' = Empty /\ chip' = Nobody /\ _socket' = FALSE
  /\ UNCHANGED <<gu16SessionID, xferVars, _rcvSize, line, histVars, made, faults>>

DataAvailable == buf.head - buf.tail

Cell(i) == IF i <= UdpSize THEN buf.mem[i] ELSE Stale
ReadOut(n) == [i \in 1..n |-> Cell(buf.tail + i)]

\* Slip: a header is read while there is still some of the last datagram.
ParsedAgain ==
  LET u == Cell(buf.tail + 1) IN
  /\ pc = "parsed" /\ GoTo("idle")
  /\ IF _socket /\ DataAvailable # 0 /\ buf.tail <= UdpSize
     THEN /\ _rcvSize' = u.of
          /\ buf' = [buf EXCEPT !.tail = @ + Hdr]
          /\ got' = Append(got, u)
     ELSE UNCHANGED <<_rcvSize, buf, got>>
  /\ UNCHANGED <<sock, gu16SessionID, _socket, xferVars, chip, line, crowded, misbound, hushed,
                 torn, made, faults>>

\* The rest of parsePacket(): socketBufferReadUdpHeader, if the tail is not at the
\* head and nothing left of the last datagram.  What is behind the buffer is not
\* part of the model.
Parsed ==
  LET u == Cell(buf.tail + 1) IN
  /\ pc = "parsed" /\ GoTo("idle")
  /\ IF _socket /\ _rcvSize = 0 /\ DataAvailable # 0 /\ buf.tail <= UdpSize
     THEN /\ _rcvSize' = u.of
          /\ buf' = [buf EXCEPT !.tail = @ + Hdr]
          /\ got' = Append(got, u)
     ELSE UNCHANGED <<_rcvSize, buf, got>>
  /\ UNCHANGED <<sock, gu16SessionID, _socket, xferVars, chip, line, crowded, misbound, hushed,
                 torn, made, faults>>

\* Slip: the last read leaves the head where it was.
BufferReadNoReset(n, p) ==
  LET t == buf.tail + n IN
  /\ got' = got \o ReadOut(n)
  /\ _rcvSize' = _rcvSize - n
  /\ buf' = [buf EXCEPT !.tail = t]
  /\ GoTo(p)
  /\ UNCHANGED <<sock, chip, faults>>

\* read(): socketBufferRead of n units, and the way back to p
BufferRead(n, p) ==
  LET t == buf.tail + n IN
  /\ got' = got \o ReadOut(n)
  /\ _rcvSize' = _rcvSize - n
  /\ IF t = buf.head
     THEN /\ buf' = [buf EXCEPT !.head = 0, !.tail = 0, !.flag = @ \ {"full"}]
          /\ Recvfrom(sock, IF hif_small_xfer # 0 THEN 0 ELSE Hdr)
          /\ Call(p)
     ELSE /\ buf' = [buf EXCEPT !.tail = t]
          /\ GoTo(p)
          /\ UNCHANGED <<sock, chip, faults>>

\* read() or peek() at what available() says, as SipServer::process does
AvailableBack ==
  /\ pc = "available"
  /\ IF _socket /\ _rcvSize > 0 /\ DataAvailable > 0
     THEN \E n \in 1..(IF _rcvSize < DataAvailable THEN _rcvSize ELSE DataAvailable) :
            BufferRead(n, "idle")
     ELSE GoTo("idle") /\ UNCHANGED <<got, _rcvSize, buf, sock, chip, faults>>
  /\ UNCHANGED <<gu16SessionID, _socket, xferVars, line, crowded, misbound, hushed, torn, made>>

\* flush(): available() and read() by turns
FlushBack ==
  /\ pc = "flush"
  /\ IF _socket /\ _rcvSize > 0
     THEN IF DataAvailable > 0
          THEN BufferRead(1, "flushed")
          ELSE Call("flush") /\ UNCHANGED <<got, _rcvSize, buf, sock, chip, faults>>
     ELSE GoTo("idle") /\ UNCHANGED <<got, _rcvSize, buf, sock, chip, faults>>
  /\ UNCHANGED <<gu16SessionID, _socket, xferVars, line, crowded, misbound, hushed, torn, made>>

FlushMore == pc = "flushed" /\ Call("flush") /\ UNCHANGED udpVars

Stop ==
  /\ pc = "idle" /\ _socket
  /\ sock' = Closed /\ buf' = Empty /\ chip' = Nobody /\ _socket' = FALSE
  /\ UNCHANGED <<gu16SessionID, xferVars, _rcvSize, line, ctlVars, histVars, made, faults>>

-----------------------------------------------------------------------------
(* The chip's firmware, as the code of the host relies on it.                *)

Answer(r) ==
  /\ line' = Append(line, r)
  /\ UNCHANGED <<sockVars, xferVars, _rcvSize, ctlVars, histVars, faults>>

ChipBind ==
  /\ chip.phase = "binding"
  /\ \E ok \in BOOLEAN :
       /\ Answer([k |-> "bind", x |-> chip.x, ok |-> ok])
       /\ chip' = [chip EXCEPT !.phase = IF ok THEN "bound" ELSE "none"]
  /\ UNCHANGED made

\* A datagram, or an error (size 0)
ChipFrom ==
  /\ chip.phase = "bound" /\ chip.asked > 0
  /\ made < MaxDatagrams /\ made' = made + 1
  /\ \E n \in 0..MaxSize :
       /\ chip' = [chip EXCEPT !.asked = @ - 1, !.sent = IF n = 0 THEN @ ELSE @ + 1]
       /\ Answer([k |-> "from", x |-> chip.x, d |-> chip'.sent, size |-> n])

-----------------------------------------------------------------------------
Take == CbBind \/ FromReply
Events == EventsReturn \/ SmallChunk \/ Take \/ AnswerUnread
Method == Rebind \/ Bound \/ BindWait \/ Parsed \/ AvailableBack \/ FlushBack \/ FlushMore
App == ParsePacket \/ Available \/ Flush \/ Stop
Chip == ChipBind \/ ChipFrom

Next == Events \/ ApDisconnected \/ Method \/ App \/ Chip

Spec == Init /\ [][Next]_vars

\* A method that is called runs on, an answer that waits is taken when the event
\* loop is run again and again, and the chip answers a BIND.
UdpFairness == WF_vars(Events \/ Method) /\ SF_vars(Take) /\ WF_vars(ChipBind)

FairSpec == Spec /\ UdpFairness

-----------------------------------------------------------------------------
(* Properties.                                                               *)

Points == {"idle", "events", "parse", "bindWait", "parsed", "available", "flush", "flushed"}

\* Three ways in which the code is known to mix up what the buffer holds; they
\* last until the socket is closed and another is opened.
\*  crowded: more came than there is room for behind the header, where the buffer
\*    is no longer than one MTU; or a transfer ended with no room for the next
\*    datagram when that had already been asked for: it is written where the last
\*    chunk is.
\*  misbound: the answer to an earlier socket's BIND, late because the access point
\*    was lost, was taken for this one's.  Data are asked for before the answers to
\*    the earlier socket have come, which clear bIsRecvfromPending: then twice.
\*  torn: the first chunk of a datagram could not be read, and is put into the buffer
\*    without a header; or the last one could not, and the header says more than came.
Spoilt == crowded \/ misbound \/ torn

UdpTypes ==
  /\ sock.used \in BOOLEAN /\ sock.pending \in BOOLEAN /\ sock.session \in 0..MaxSessions
  /\ sock.user \in Int
  /\ Spoilt \/ sock.user \in None..Hdr \/ sock.user \in None..(UdpSize - Mtu)
  /\ gu16SessionID \in 0..MaxSessions
  /\ buf.flag \subseteq {"binding", "bind", "full"}
  /\ buf.head \in Nat /\ buf.tail \in Nat
  /\ Spoilt \/ (buf.head <= UdpSize /\ buf.tail <= buf.head)
  /\ buf.mem \in [1..UdpSize -> Unit \union {Stale}]
  /\ hif_small_xfer \in 0..3 /\ rest \in Seq(Unit)
  /\ _socket \in BOOLEAN /\ _rcvSize \in 0..MaxSize
  /\ chip.x \in 0..MaxSessions /\ chip.phase \in {"none", "binding", "bound"}
  /\ chip.asked \in Nat /\ (misbound \/ chip.asked <= 1) /\ chip.sent \in 0..MaxDatagrams
  /\ got \in Seq(Unit \union {Stale})
  /\ {crowded, misbound, hushed, torn} \subseteq BOOLEAN
  /\ made \in 0..MaxDatagrams /\ faults \in 0..MaxFaults

\* What follows the unit u in what is read: only a failed transfer loses a datagram.
Follows(u, v) ==
  IF u.n < u.of THEN v = [u EXCEPT !.n = @ + 1]
  ELSE v.x = u.x /\ v.n = 0 /\ v.d > u.d /\ (faults = 0 => v.d = u.d + 1)

\* parsePacket() and read() hand out the datagrams of the session one after the
\* other, each with its own header and whole, whether it was taken at once or in
\* chunks, was read between the chunks or not, and shared the buffer with others,
\* and whatever was late from the sockets before.  A transfer that fails may cost a
\* datagram, but never part of one that is handed out, unless a chunk is lost.
DatagramsWhole ==
  ~Spoilt =>
    /\ got # <<>> => got[1].n = 0 /\ got[1].x = gu16SessionID
    /\ \A i \in 1..(Len(got) - 1) : Follows(got[i], got[i + 1])

\* A socket that is bound hears of the next datagram: it has been asked for, or
\* its answer is on the way, or there is something to read, or a transfer is paused, and
\* reading to the end asks for it.  Not after an answer with an error, which
\* socketBufferCb passes over without asking again, and not after a transfer that
\* fails: nothing asks for the datagram whose request or answer is lost, not even
\* recvfrom() while bIsRecvfromPending stays.
Receiving ==
  ~Spoilt /\ faults = 0 /\ ~hushed /\ sock.used /\ "bind" \in buf.flag /\ chip.x = sock.session =>
    \/ chip.asked > 0 \/ DataAvailable > 0 \/ hif_small_xfer # 0
    \/ \E i \in DOMAIN line : line[i].x = sock.session

\* Two ways in which the code is known not to return: the rest of a datagram was
\* freed under it, or its socket was closed and a paused transfer cannot go on.
Gone == _socket /\ _rcvSize > 0 /\ ~sock.used
Blocked == hif_small_xfer # 0 /\ ~Readable(sock)

\* parsePacket() gets an answer to its bind(), also when the connection is lost
\* meanwhile, and flush() comes to the end of the datagram.  Without a time-out they
\* do so only if no transfer fails: socketBufferBindWait waits for good for an answer
\* that was not read, and flush() for the chunk that was not.
MethodsReturn == [](pc # "idle" => <>(pc = "idle" \/ Gone \/ Blocked \/ crowded \/ faults > 0))
=============================================================================
