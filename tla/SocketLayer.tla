----------------------------- MODULE SocketLayer -----------------------------
(***************************************************************************)
(* TCP clients on the WINC1500: WiFiClient on top of socket_buffer.c on    *)
(* top of socket.c.  The three share one thread, the main loop; the chip   *)
(* answers the commands they send through the host interface, in an order  *)
(* of its own.                                                             *)
(*                                                                         *)
(* A call that waits for the chip runs m2m_wifi_handle_events, so that     *)
(* the answers to any socket are dispatched in the middle of the calls on  *)
(* any other: the control point pc and the point ret to which the event    *)
(* loop returns are variables.  What HostInterface shows of the layer      *)
(* below is assumed: packets are handled once, one at a time, in order.    *)
(***************************************************************************)
EXTENDS Naturals, Sequences, FiniteSets

CONSTANTS
  Clients,      \* WiFiClient objects
  MaxSock,      \* TCP_SOCK_MAX: sockets are 1..MaxSock here
  Mtu,          \* SOCKET_BUFFER_MTU, in units of data
  TcpSize,      \* SOCKET_BUFFER_TCP_SIZE, in units of data
  MaxPacket,    \* the most data the chip puts in one answer to a RECV
  MaxSessions,  \* bound: calls of socket()
  MaxUnits,     \* bound: data the peer of one session sends
  MaxWrites,    \* bound: successful calls of send()
  MaxFaults     \* bound: failed transfers over the bus

ASSUME SocketAssumption ==
  /\ {MaxSock, Mtu, TcpSize, MaxPacket, MaxSessions} \subseteq Nat \ {0}
  /\ {MaxUnits, MaxWrites, MaxFaults} \subseteq Nat
  /\ Mtu <= TcpSize
  /\ MaxSessions < 65536    \* gu16SessionID does not come round

None == 0
Socks == 1..MaxSock
Sessions == 1..MaxSessions

\* The n-th unit of data that the peer of session x sends.
Data == [x : Sessions, n : 1..MaxUnits]
Stale == [x |-> 0, n |-> 0]   \* what the heap held before

Flags == {"connecting", "connected", "full", "sending"}

VARIABLES
  gastrSockets,    \* socket.c: used, session, pending, user (the address in
                   \* the socket's buffer the next data go to, 0 for NULL)
  gu16SessionID,
  gastrSocketBuffer,   \* socket_buffer.c: alloc, flag, head, tail, mem
  hif_small_xfer,
  sock_xfer,       \* the socket of the paused transfer
  rest,            \* what is left of its packet on the chip
  _socket,         \* the socket of each client
  pc, ret,         \* control point, and where m2m_wifi_handle_events returns
  cur,             \* the client whose method is running
  \* the chip
  chip,            \* what it knows of each session
  line,            \* answers the host has not handled, oldest first
  \* bookkeeping of the model
  got,             \* history: data read from each socket since socket()
  opened,          \* history: the session each socket was last given
  own,             \* history: the session of each client
  waited,          \* history: sockets socketBufferSendWait ran for
  misconnected,    \* history: sockets that took the answer to a CONNECT of
                   \* an earlier session for their own
  ended,           \* history: the event loop has closed a socket, at the end
                   \* of its stream or at the loss of the access point
  orphaned,        \* history: a CLOSE has not reached the chip
  writes, faults   \* used up bounds

sockVars == <<gastrSockets, gu16SessionID>>
xferVars == <<hif_small_xfer, sock_xfer, rest>>
ctlVars  == <<pc, ret, cur>>
histVars == <<got, opened, own, waited, misconnected, ended, orphaned>>
vars == <<sockVars, gastrSocketBuffer, xferVars, _socket, ctlVars, chip, line,
          histVars, writes, faults>>

Points == {"idle", "events", "small", "connWait", "read", "write", "sendWait",
           "connected", "flush", "flushCheck", "flushRead"}

Unused == [used |-> FALSE, session |-> 0, pending |-> FALSE, user |-> 0]
NoBuffer == [alloc |-> FALSE, flag |-> {}, head |-> 0, tail |-> 0,
             mem |-> [i \in 1..TcpSize |-> Stale]]

Gone == [s |-> 1, phase |-> "closed", asked |-> 0, owes |-> 0, made |-> 0]

Init ==
  /\ gastrSockets = [s \in Socks |-> Unused]
  /\ gu16SessionID = 0
  /\ gastrSocketBuffer = [s \in Socks |-> NoBuffer]
  /\ hif_small_xfer = 0 /\ sock_xfer = 1 /\ rest = <<>>
  /\ _socket = [c \in Clients |-> None]
  /\ pc = "idle" /\ ret = "idle" /\ cur = None
  /\ chip = [x \in Sessions |->
               [Gone EXCEPT !.phase = "none"]]
  /\ line = <<>>
  /\ got = [s \in Socks |-> <<>>] /\ opened = [s \in Socks |-> 0]
  /\ own = [c \in Clients |-> 0] /\ waited = {} /\ misconnected = {}
  /\ ended = FALSE /\ orphaned = FALSE
  /\ writes = 0 /\ faults = 0

-----------------------------------------------------------------------------
(* socket.c: the requests.  Each takes the socket table k its caller has     *)
(* reached, and says what becomes of the table, of the chip and of faults.   *)

\* hif_send: the request reaches the chip, which then is newChip, or fails.
Request(newChip) ==
  \/ chip' = newChip /\ UNCHANGED faults
  \/ faults < MaxFaults /\ faults' = faults + 1 /\ UNCHANGED chip

\* The address of a socket's buffer: NULL, or its first unit.
Start(s) == IF gastrSocketBuffer[s].alloc THEN 1 ELSE 0

\* The chip is asked for data of a session, which it may know to be over.
Asked(x) == IF chip[x].phase = "closed" THEN chip ELSE [chip EXCEPT ![x].asked = @ + 1]

\* Slip: recv() forgets that a RECV is pending already.
RecvAlways(k, s, at) ==
  IF ~k[s].used \/ at = 0
  THEN gastrSockets' = k /\ UNCHANGED <<chip, faults>>
  ELSE /\ gastrSockets' = [k EXCEPT ![s].user = at, ![s].pending = TRUE]
       /\ Request(Asked(k[s].session))

\* recv(s, buffer + at - 1, SOCKET_BUFFER_MTU, 0)
Recv(k, s, at) ==
  IF ~k[s].used \/ at = 0
  THEN gastrSockets' = k /\ UNCHANGED <<chip, faults>>
  ELSE /\ gastrSockets' = [k EXCEPT ![s].user = at, ![s].pending = TRUE]
       /\ IF k[s].pending
          THEN UNCHANGED <<chip, faults>>
          ELSE Request(Asked(k[s].session))

\* The chip's commands come in order: it forgets the session when it gets there,
\* and a CONNECT it is at work on comes first.
Shut(c) == [c EXCEPT !.phase = CASE @ = "open" -> "closing"
                                 [] @ = "connecting" -> "aborting"
                                 [] OTHER -> @]
Closing(x) == [chip EXCEPT ![x] = Shut(@)]

\* close(s), whose result nobody looks at
Close(k, s) ==
  IF ~k[s].used
  THEN gastrSockets' = k /\ UNCHANGED <<chip, faults, orphaned>>
  ELSE /\ gastrSockets' = [k EXCEPT ![s] = Unused]
       /\ Request(Closing(k[s].session))
       /\ orphaned' = (orphaned \/ faults' # faults)

-----------------------------------------------------------------------------
(* m2m_wifi_handle_events: the gate, and the dispatch of one packet.         *)

\* Control goes to p of the method that is running, or the method returns.
GoTo(p) == pc' = p /\ ret' = "idle" /\ cur' = IF p = "idle" THEN None ELSE cur

\* The client c calls m2m_wifi_handle_events, to go on at r.  With any buffer of
\* b full it returns at once; a paused transfer goes on.
Call(c, b, r) ==
  IF \E s \in Socks : "full" \in b[s].flag
  THEN pc' = r /\ ret' = "idle" /\ cur' = IF r = "idle" THEN None ELSE c
  ELSE /\ pc' = IF hif_small_xfer # 0 THEN "small" ELSE "events"
       /\ ret' = r /\ cur' = c

\* gu8Interrupt is zero: the event loop returns.
EventsReturn ==
  /\ pc = "events"
  /\ GoTo(ret)
  /\ UNCHANGED <<sockVars, gastrSocketBuffer, xferVars, _socket, chip, line, histVars, writes, faults>>

Packet(k) == pc = "events" /\ line # <<>> /\ Head(line).k = k

\* The read of a reply's header fails: the packet goes unseen.
PacketUnread ==
  /\ pc = "events" /\ line # <<>>
  /\ faults < MaxFaults /\ faults' = faults + 1
  /\ line' = Tail(line)
  /\ UNCHANGED <<sockVars, gastrSocketBuffer, xferVars, _socket, ctlVars, chip,
                 histVars, writes>>

\* Slip: a refused connection leaves the flag as it was.
CbConnectRefusedSilent ==
  /\ Packet("connect")
  /\ line' = Tail(line)
  /\ LET s == Head(line).s IN
       IF Head(line).ok
       THEN /\ gastrSocketBuffer' = [gastrSocketBuffer EXCEPT ![s].flag = {"connected"}]
            /\ Recv(gastrSockets, s, Start(s))
       ELSE UNCHANGED <<gastrSocketBuffer, gastrSockets, chip, faults>>
  /\ UNCHANGED <<gu16SessionID, xferVars, _socket, ctlVars, histVars, writes>>

\* SOCKET_CMD_CONNECT, and SOCKET_MSG_CONNECT.  The answer names a socket, not
\* a session: it is taken for that of whatever session the socket has now.
CbConnect ==
  /\ Packet("connect")
  /\ line' = Tail(line)
  /\ LET s == Head(line).s IN
       IF Head(line).ok
       THEN /\ gastrSocketBuffer' = [gastrSocketBuffer EXCEPT ![s].flag = {"connected"}]
            /\ Recv(gastrSockets, s, Start(s))
       ELSE /\ gastrSocketBuffer' = [gastrSocketBuffer EXCEPT ![s].flag = {}]
            /\ UNCHANGED <<gastrSockets, chip, faults>>
  /\ misconnected' = misconnected \cup
       {s \in {Head(line).s} : gastrSockets[s].session \notin {0, Head(line).x}}
  /\ UNCHANGED <<gu16SessionID, xferVars, _socket, ctlVars, got, opened, own, waited,
                 ended, orphaned, writes>>

\* socketBufferApDisconnected: the access point is gone, and every socket is
\* closed in the event loop, whoever runs it.
ApDisconnected ==
  LET Used == {s \in Socks : gastrSockets[s].used} IN
  /\ pc = "events"
  /\ gastrSockets' = [s \in Socks |-> Unused]
  /\ gastrSocketBuffer' = [s \in Socks |-> NoBuffer]
  /\ \E Unsent \in SUBSET Used :
       /\ IF Unsent = {} THEN UNCHANGED faults
          ELSE faults < MaxFaults /\ faults' = faults + 1
       /\ orphaned' = (orphaned \/ Unsent # {})
       /\ chip' = [x \in Sessions |->
            IF \E s \in Used \ Unsent : gastrSockets[s].session = x
            THEN Shut(chip[x]) ELSE chip[x]]
  /\ ended' = TRUE
  /\ UNCHANGED <<gu16SessionID, xferVars, _socket, ctlVars, line, got, opened, own,
                 waited, misconnected, writes>>

\* SOCKET_CMD_SEND, and SOCKET_MSG_SEND
CbSend ==
  /\ Packet("send")
  /\ line' = Tail(line)
  /\ LET r == Head(line) IN
       gastrSocketBuffer' =
         IF r.x = gastrSockets[r.s].session
         THEN [gastrSocketBuffer EXCEPT ![r.s].flag = @ \ {"sending"}]
         ELSE gastrSocketBuffer
  /\ UNCHANGED <<sockVars, xferVars, _socket, ctlVars, chip, histVars, writes,
                 faults>>

\* hif_receive to the user's buffer: data are stored in b from user on.  A
\* write to a buffer that was freed is a write to somebody else's memory.
Store(b, s, data) ==
  LET at == gastrSockets[s].user IN
  IF ~b[s].alloc THEN b
  ELSE [b EXCEPT ![s].mem = [i \in 1..TcpSize |->
          IF i \in at..(at + Len(data) - 1) THEN data[i - at + 1] ELSE @[i]]]

\* Slip: reception goes on behind the data, with or without room for an MTU there.
CbRecvGoesOn(k, b, s, n, more) ==
  /\ gastrSocketBuffer' = [b EXCEPT ![s].head = @ + n]
  /\ Recv(k, s, b[s].head + n + 1)

\* Slip: without room for another MTU the buffer is full, also after all has come.
CbRecvFull(k, b, s, n, more) ==
  LET h == b[s].head + n IN
  IF TcpSize - h < Mtu
  THEN /\ gastrSocketBuffer' = [b EXCEPT ![s].head = h, ![s].flag = @ \cup {"full"}]
       /\ gastrSockets' = k /\ UNCHANGED <<chip, faults>>
  ELSE /\ gastrSocketBuffer' = [b EXCEPT ![s].head = h]
       /\ Recv(k, s, h + 1)

\* socketBufferCb, SOCKET_MSG_RECV of n units with more left on the chip or not
CbRecv(k, b, s, n, more) ==
  LET h == b[s].head + n IN
  IF h > TcpSize
  THEN /\ gastrSocketBuffer' = [b EXCEPT ![s].flag = @ \cup {"full"}]
       /\ gastrSockets' = k /\ UNCHANGED <<chip, faults>>
  ELSE IF TcpSize - h < Mtu
  THEN /\ gastrSocketBuffer' = [b EXCEPT ![s].head = h,
                                  ![s].flag = @ \cup (IF more THEN {"full"} ELSE {})]
       /\ gastrSockets' = k /\ UNCHANGED <<chip, faults>>
  ELSE /\ gastrSocketBuffer' = [b EXCEPT ![s].head = h]
       /\ Recv(k, s, h + 1)

Readable(s) == gastrSockets[s].used /\ gastrSockets[s].user # 0

\* SOCKET_CMD_RECV, Socket_ReadSocketData and SOCKET_MSG_RECV
Dispatch(k, r) ==
  LET s == r.s
      more == Len(r.data) > Mtu
      chunk == SubSeq(r.data, 1, IF more THEN Mtu ELSE Len(r.data))
      left  == SubSeq(r.data, Mtu + 1, Len(r.data))
      pause == IF more
               THEN hif_small_xfer' = 1 /\ sock_xfer' = s /\ GoTo(ret)
               ELSE UNCHANGED <<hif_small_xfer, sock_xfer, ctlVars>>
  IN CASE r.x # k[s].session ->       \* the answer to an earlier session
            /\ gastrSockets' = k
            /\ UNCHANGED <<gastrSocketBuffer, chip, faults, xferVars, ctlVars, orphaned>>
       [] r.x = k[s].session /\ r.data = <<>> ->              \* EOF, or an error
            /\ gastrSocketBuffer' = [gastrSocketBuffer EXCEPT ![s].flag = {}]
            /\ Close(k, s)
            /\ UNCHANGED <<xferVars, ctlVars>>
       [] r.x = k[s].session /\ r.data # <<>> /\ ~Readable(s) ->
            /\ gastrSockets' = k
            /\ UNCHANGED <<gastrSocketBuffer, chip, faults, xferVars, ctlVars, orphaned>>
       [] OTHER ->
            \/ /\ CbRecv(k, Store(gastrSocketBuffer, s, chunk), s, Len(chunk), more)
               /\ pause
               /\ rest' = IF more THEN left ELSE rest
               /\ UNCHANGED orphaned
            \/ /\ faults < MaxFaults /\ faults' = faults + 1   \* hif_receive fails
               /\ gastrSockets' = k
               /\ pause
               /\ rest' = IF more THEN r.data ELSE rest
               /\ UNCHANGED <<gastrSocketBuffer, chip, orphaned>>

\* Slip: bIsRecvPending is not reset.
RecvReplyStaysPending ==
  /\ Packet("recv")
  /\ line' = Tail(line)
  /\ Dispatch(gastrSockets, Head(line))
  /\ ended' = (ended \/ Head(line).data = <<>>)
  /\ UNCHANGED <<gu16SessionID, _socket, got, opened, own, waited,
                 misconnected, writes>>

\* SOCKET_CMD_RECV: the pending flag is reset whatever session the answer is for.
RecvReply ==
  /\ Packet("recv")
  /\ line' = Tail(line)
  /\ LET r == Head(line) IN
       /\ Dispatch([gastrSockets EXCEPT ![r.s].pending = FALSE], r)
       /\ ended' = (ended \/ r.data = <<>>)
  /\ UNCHANGED <<gu16SessionID, _socket, got, opened, own, waited,
                 misconnected, writes>>

\* Socket_ReadSocketData_Small: the next chunk of a paused transfer
SmallChunk ==
  LET s == sock_xfer
      last == Len(rest) <= Mtu
      chunk == SubSeq(rest, 1, IF last THEN Len(rest) ELSE Mtu)
  IN
  /\ pc = "small" /\ GoTo(ret)
  /\ IF rest = <<>> \/ ~Readable(s)
     THEN UNCHANGED <<gastrSockets, gastrSocketBuffer, xferVars, chip, faults>>
     ELSE /\ hif_small_xfer' = IF last THEN 0 ELSE 2
          /\ \/ /\ CbRecv(gastrSockets, Store(gastrSocketBuffer, s, chunk), s,
                          Len(chunk), ~last)
                /\ rest' = SubSeq(rest, Len(chunk) + 1, Len(rest))
             \/ /\ faults < MaxFaults /\ faults' = faults + 1
                /\ rest' = IF last THEN <<>> ELSE rest
                /\ UNCHANGED <<gastrSockets, gastrSocketBuffer, chip>>
  /\ UNCHANGED <<gu16SessionID, sock_xfer, _socket, line, histVars, writes>>

-----------------------------------------------------------------------------
(* The methods of WiFiClient.                                                *)

\* socketBufferClose
Freed(s) == [gastrSocketBuffer EXCEPT ![s] = NoBuffer]

Free == {s \in Socks : ~gastrSockets[s].used}

\* connect() up to its wait: socket(), socketBufferSetupBuffer, connectSocket
Connect(c) ==
  /\ pc = "idle" /\ _socket[c] = None
  /\ gu16SessionID < MaxSessions
  /\ Free # {}
  /\ LET s == CHOOSE f \in Free : \A g \in Free : f <= g
         x == gu16SessionID + 1
         k == [gastrSockets EXCEPT ![s] = [Unused EXCEPT !.used = TRUE, !.session = x]]
     IN /\ gu16SessionID' = x
        /\ opened' = [opened EXCEPT ![s] = x]
        /\ got' = [got EXCEPT ![s] = <<>>]
        /\ waited' = waited \ {s} /\ misconnected' = misconnected \ {s}
        /\ \/ /\ gastrSockets' = k                       \* the request is sent
              /\ chip' = [chip EXCEPT ![x].s = s, ![x].phase = "connecting"]
              /\ gastrSocketBuffer' = [gastrSocketBuffer EXCEPT
                   ![s].alloc = TRUE, ![s].head = 0, ![s].tail = 0,
                   ![s].flag = {"connecting"}]
              /\ _socket' = [_socket EXCEPT ![c] = s]
              /\ own' = [own EXCEPT ![c] = x]
              /\ pc' = "connWait" /\ cur' = c
              /\ UNCHANGED faults
           \/ /\ faults < MaxFaults /\ faults' = faults + 1   \* or not; close()
              /\ gastrSockets' = [k EXCEPT ![s] = Unused]
              /\ gastrSocketBuffer' = Freed(s)
              /\ UNCHANGED <<chip, _socket, own, pc, cur>>
  /\ UNCHANGED <<xferVars, ret, line, ended, orphaned, writes>>

\* Slip: connect() does not close the socket of a connection that failed.
ConnectWaitLeavesOpen ==
  LET s == _socket[cur] IN
  /\ pc = "connWait"
  /\ \/ /\ "connecting" \in gastrSocketBuffer[s].flag
        /\ Call(cur, gastrSocketBuffer, "connWait")
        /\ UNCHANGED <<gastrSockets, gastrSocketBuffer, _socket, chip, faults, orphaned>>
     \/ /\ "connected" \in gastrSocketBuffer[s].flag
        /\ GoTo("idle")
        /\ UNCHANGED <<gastrSockets, gastrSocketBuffer, _socket, chip, faults, orphaned>>
     \/ /\ gastrSocketBuffer[s].flag \cap {"connecting", "connected"} = {}
        /\ gastrSocketBuffer' = Freed(s)
        /\ UNCHANGED <<gastrSockets, chip, faults, orphaned>>
        /\ _socket' = [_socket EXCEPT ![cur] = None]
        /\ GoTo("idle")
  /\ UNCHANGED <<gu16SessionID, xferVars, line, got, opened, own, waited,
                 misconnected, ended, writes>>

\* socketBufferConnectWait, and what connect() does after it
ConnectWait ==
  LET s == _socket[cur] IN
  /\ pc = "connWait"
  /\ \/ /\ "connecting" \in gastrSocketBuffer[s].flag
        /\ Call(cur, gastrSocketBuffer, "connWait")
        /\ UNCHANGED <<gastrSockets, gastrSocketBuffer, _socket, chip, faults, orphaned>>
     \/ /\ "connected" \in gastrSocketBuffer[s].flag
        /\ GoTo("idle")
        /\ UNCHANGED <<gastrSockets, gastrSocketBuffer, _socket, chip, faults, orphaned>>
     \/ /\ gastrSocketBuffer[s].flag \cap {"connecting", "connected"} = {}
        /\ gastrSocketBuffer' = Freed(s)
        /\ Close(gastrSockets, s)
        /\ _socket' = [_socket EXCEPT ![cur] = None]
        /\ GoTo("idle")
  /\ UNCHANGED <<gu16SessionID, xferVars, line, got, opened, own, waited,
                 misconnected, ended, writes>>

\* read(), write() and connected() handle events before all else.
Enter(c, p) ==
  /\ pc = "idle"
  /\ Call(c, gastrSocketBuffer, p)
  /\ UNCHANGED <<sockVars, gastrSocketBuffer, xferVars, _socket, chip, line,
                 histVars, writes, faults>>

Read(c)      == Enter(c, "read")
Write(c)     == _socket[c] # None /\ Enter(c, "write")
Connected(c) == Enter(c, "connected")

Available(s) == gastrSocketBuffer[s].head - gastrSocketBuffer[s].tail

\* Slip: the tail stays where it is when only a part is read.
BufferReadRepeats(s, n, p) ==
  LET b == gastrSocketBuffer
      t == b[s].tail + n
      drained == [b EXCEPT ![s].head = 0, ![s].tail = 0, ![s].flag = @ \ {"full"}]
  IN /\ got' = [got EXCEPT ![s] = @ \o SubSeq(b[s].mem, b[s].tail + 1, t)]
     /\ IF t = b[s].head
        THEN /\ gastrSocketBuffer' = drained
             /\ Recv(gastrSockets, s, Start(s))
             /\ Call(cur, drained, p)
        ELSE GoTo(p) /\ UNCHANGED <<gastrSocketBuffer, gastrSockets, chip, faults>>

\* socketBufferRead of n units, and the way back to p
BufferRead(s, n, p) ==
  LET b == gastrSocketBuffer
      t == b[s].tail + n
      drained == [b EXCEPT ![s].head = 0, ![s].tail = 0, ![s].flag = @ \ {"full"}]
  IN /\ got' = [got EXCEPT ![s] = @ \o SubSeq(b[s].mem, b[s].tail + 1, t)]
     /\ IF t = b[s].head
        THEN /\ gastrSocketBuffer' = drained
             /\ Recv(gastrSockets, s, Start(s))
             /\ Call(cur, drained, p)
        ELSE /\ gastrSocketBuffer' = [b EXCEPT ![s].tail = t]
             /\ GoTo(p)
             /\ UNCHANGED <<gastrSockets, chip, faults>>

\* read(buf, size) after its call of available()
ReadBack ==
  LET s == _socket[cur] IN
  /\ pc = "read"
  /\ IF s = None \/ (s # None /\ Available(s) = 0)
     THEN /\ GoTo("idle")
          /\ UNCHANGED <<gastrSockets, gastrSocketBuffer, chip, faults, got>>
     ELSE \E n \in 1..Available(s) : BufferRead(s, n, "idle")
  /\ UNCHANGED <<gu16SessionID, xferVars, _socket, line, opened, own, waited,
                 misconnected, ended, orphaned, writes>>

\* Slip: stop() flushes and frees the buffer of a socket it has not closed.
StopLeavesOpen(c) ==
  /\ pc = "idle" /\ _socket[c] # None
  /\ cur' = c
  /\ pc' = "flush"
  /\ UNCHANGED <<sockVars, gastrSocketBuffer, xferVars, _socket, ret, chip, line,
                 histVars, writes, faults>>

\* stop(): close(), then flush()
Stop(c) ==
  /\ pc = "idle" /\ _socket[c] # None
  /\ cur' = c
  /\ Close(gastrSockets, _socket[c])
  /\ pc' = "flush"
  /\ UNCHANGED <<gu16SessionID, gastrSocketBuffer, xferVars, _socket, ret, line,
                 got, opened, own, waited, misconnected, ended, writes>>

\* connected() after its events: a client that is not flushes as stop() does.
ConnectedBack ==
  /\ pc = "connected"
  /\ GoTo(IF \/ _socket[cur] = None
             \/ _socket[cur] # None
                /\ "connected" \in gastrSocketBuffer[_socket[cur]].flag
          THEN "idle" ELSE "flush")
  /\ UNCHANGED <<sockVars, gastrSocketBuffer, xferVars, _socket, chip, line,
                 histVars, writes, faults>>

\* flush(): available(), read(), which calls available() again, and so on.
Flush ==
  /\ pc = "flush"
  /\ Call(cur, gastrSocketBuffer, "flushCheck")
  /\ UNCHANGED <<sockVars, gastrSocketBuffer, xferVars, _socket, chip, line,
                 histVars, writes, faults>>

\* Slip: stop() and connected() leave the client its socket.
FlushEndKeeps ==
  /\ pc = "flushCheck" /\ Available(_socket[cur]) = 0
  /\ gastrSocketBuffer' = Freed(_socket[cur])
  /\ GoTo("idle")
  /\ UNCHANGED <<sockVars, xferVars, _socket, chip, line, histVars, writes, faults>>

\* Nothing left: flush() returns, and its caller frees the buffer.
FlushEnd ==
  /\ pc = "flushCheck" /\ Available(_socket[cur]) = 0
  /\ gastrSocketBuffer' = Freed(_socket[cur])
  /\ _socket' = [_socket EXCEPT ![cur] = None]
  /\ GoTo("idle")
  /\ UNCHANGED <<sockVars, xferVars, chip, line, histVars, writes, faults>>

FlushMore ==
  /\ pc = "flushCheck" /\ Available(_socket[cur]) # 0
  /\ Call(cur, gastrSocketBuffer, "flushRead")
  /\ UNCHANGED <<sockVars, gastrSocketBuffer, xferVars, _socket, chip, line,
                 histVars, writes, faults>>

FlushRead ==
  /\ pc = "flushRead"
  /\ IF Available(_socket[cur]) = 0
     THEN /\ GoTo("flush")
          /\ UNCHANGED <<gastrSockets, gastrSocketBuffer, chip, faults, got>>
     ELSE BufferRead(_socket[cur], 1, "flush")
  /\ UNCHANGED <<gu16SessionID, xferVars, _socket, line, opened, own, waited,
                 misconnected, ended, orphaned, writes>>

\* send() in the loop of write().  It fails with SOCK_ERR_BUFFER_FULL whatever
\* it was that failed, and write() then waits for an earlier send to end.
Send ==
  LET s == _socket[cur]
      x == gastrSockets[s].session
      b == gastrSocketBuffer
      full == \E f \in Socks : "full" \in b[f].flag
  IN
  /\ pc = "write"
  /\ \/ /\ ~gastrSockets[s].used
        /\ GoTo("idle")
        /\ UNCHANGED <<gastrSocketBuffer, chip, waited, writes, faults>>
     \/ /\ gastrSockets[s].used /\ writes < MaxWrites
        /\ writes' = writes + 1
        /\ chip' = IF chip[x].phase = "closed" THEN chip
                   ELSE [chip EXCEPT ![x].owes = @ + 1]
        /\ GoTo("idle")
        /\ UNCHANGED <<gastrSocketBuffer, waited, faults>>
     \/ /\ gastrSockets[s].used /\ faults < MaxFaults
        /\ faults' = faults + 1
        /\ IF full
           THEN GoTo("idle") /\ UNCHANGED <<gastrSocketBuffer, waited>>
           ELSE /\ gastrSocketBuffer' = [b EXCEPT ![s].flag = {"sending"}]
                /\ waited' = waited \cup {s}
                /\ GoTo("sendWait")
        /\ UNCHANGED <<chip, writes>>
     \/ /\ gastrSockets[s].used /\ writes = MaxWrites   \* the bound
        /\ GoTo("idle")
        /\ UNCHANGED <<gastrSocketBuffer, chip, waited, writes, faults>>
  /\ UNCHANGED <<sockVars, xferVars, _socket, line, got, opened, own, misconnected,
                 ended, orphaned>>

\* socketBufferSendWait
SendWait ==
  /\ pc = "sendWait"
  /\ IF "sending" \in gastrSocketBuffer[_socket[cur]].flag
     THEN Call(cur, gastrSocketBuffer, "sendWait")
     ELSE GoTo("write")
  /\ UNCHANGED <<sockVars, gastrSocketBuffer, xferVars, _socket, chip, line,
                 histVars, writes, faults>>

-----------------------------------------------------------------------------
(* The chip's firmware, as the code of the host relies on it: it takes       *)
(* commands in order, answers a RECV with data or with the end of the        *)
(* stream, and puts its answers in one line.                                 *)

Answer(r, x, c) ==
  /\ line' = Append(line, r)
  /\ chip' = [chip EXCEPT ![x] = c]
  /\ UNCHANGED <<sockVars, gastrSocketBuffer, xferVars, _socket, ctlVars, histVars,
                 writes, faults>>

Alive(x) == chip[x].phase \in {"open", "closing"}

\* A CLOSE the chip has been sent waits: of another session it comes before
\* this CONNECT, of the session itself after it.
ChipConnect(x) ==
  /\ chip[x].phase \in {"connecting", "aborting"}
  /\ \A y \in 1..(x - 1) : chip[y].phase \notin {"closing", "aborting"}
  /\ \E ok \in BOOLEAN :
       Answer([k |-> "connect", s |-> chip[x].s, x |-> x, ok |-> ok], x,
              IF ok THEN [chip[x] EXCEPT !.phase = IF @ = "aborting" THEN "closing" ELSE "open"]
              ELSE Gone)

ChipData(x) ==
  /\ Alive(x) /\ chip[x].asked > 0
  /\ \E n \in 1..MaxPacket :
       /\ chip[x].made + n <= MaxUnits
       /\ Answer([k |-> "recv", s |-> chip[x].s, x |-> x,
                  data |-> [i \in 1..n |-> [x |-> x, n |-> chip[x].made + i]]], x,
                 [chip[x] EXCEPT !.made = @ + n, !.asked = @ - 1])

ChipEof(x) ==
  /\ Alive(x) /\ chip[x].asked > 0
  /\ Answer([k |-> "recv", s |-> chip[x].s, x |-> x, data |-> <<>>], x, Gone)

ChipSent(x) ==
  /\ Alive(x) /\ chip[x].owes > 0
  /\ Answer([k |-> "send", s |-> chip[x].s, x |-> x], x,
            [chip[x] EXCEPT !.owes = @ - 1])

ChipClose(x) ==
  /\ chip[x].phase \in {"closing", "aborting"}
  /\ chip' = [chip EXCEPT ![x] = Gone]
  /\ UNCHANGED <<sockVars, gastrSocketBuffer, xferVars, _socket, ctlVars, line,
                 histVars, writes, faults>>

-----------------------------------------------------------------------------
Take == PacketUnread \/ CbConnect \/ CbSend \/ RecvReply

Events == EventsReturn \/ Take \/ ApDisconnected \/ SmallChunk

Method == \/ ConnectWait \/ ReadBack \/ ConnectedBack \/ Send \/ SendWait
          \/ Flush \/ FlushEnd \/ FlushMore \/ FlushRead

App == \E c \in Clients : Connect(c) \/ Read(c) \/ Write(c) \/ Connected(c) \/ Stop(c)

Chip == \E x \in Sessions :
          ChipConnect(x) \/ ChipData(x) \/ ChipEof(x) \/ ChipSent(x) \/ ChipClose(x)

Next == Events \/ Method \/ App \/ Chip

Spec == Init /\ [][Next]_vars

\* The main loop never stops, the chip answers a CONNECT, and the interrupt of a
\* packet that waits is seen sooner or later by an event loop called for ever.
FairSpec ==
  /\ Spec
  /\ WF_vars(Events \/ Method)
  /\ SF_vars(Take)
  /\ \A x \in Sessions : WF_vars(ChipConnect(x)) /\ WF_vars(ChipClose(x))

-----------------------------------------------------------------------------
(* Properties.                                                               *)

Answers == UNION {
  [k : {"connect"}, s : Socks, x : Sessions, ok : BOOLEAN],
  [k : {"send"}, s : Socks, x : Sessions],
  [k : {"recv"}, s : Socks, x : Sessions,
   data : UNION {[1..n -> Data] : n \in 0..MaxPacket}]}

\* Every variable has its type; the two queues are the lengths they can be.
TypeOK ==
  /\ gastrSockets \in [Socks -> [used : BOOLEAN, session : 0..MaxSessions,
                                 pending : BOOLEAN, user : 0..TcpSize]]
  /\ gu16SessionID \in 0..MaxSessions
  /\ \A s \in Socks :
       /\ gastrSocketBuffer[s].alloc \in BOOLEAN
       /\ gastrSocketBuffer[s].flag \subseteq Flags
       /\ gastrSocketBuffer[s].tail \in 0..gastrSocketBuffer[s].head
       /\ gastrSocketBuffer[s].head \in 0..TcpSize
       /\ gastrSocketBuffer[s].mem \in [1..TcpSize -> Data \cup {Stale}]
  /\ hif_small_xfer \in 0..3 /\ sock_xfer \in Socks /\ rest \in Seq(Data)
  /\ _socket \in [Clients -> Socks \cup {None}]
  /\ pc \in Points /\ ret \in Points /\ cur \in Clients \cup {None}
  /\ chip \in [Sessions -> [s : Socks,
                            phase : {"none", "connecting", "aborting", "open", "closing",
                                     "closed"},
                            asked : Nat, owes : 0..MaxWrites, made : 0..MaxUnits]]
  /\ \A i \in DOMAIN line : line[i] \in Answers
  /\ got \in [Socks -> Seq(Data \cup {Stale})]
  /\ opened \in [Socks -> 0..MaxSessions] /\ own \in [Clients -> 0..MaxSessions]
  /\ waited \subseteq Socks /\ misconnected \subseteq Socks /\ {ended, orphaned} \subseteq BOOLEAN
  /\ writes \in 0..MaxWrites /\ faults \in 0..MaxFaults

\* What is read from a socket since it was opened is what the peer of its
\* session sent, from the first unit on, in order, nothing left out and nothing
\* of an earlier session: through recv(), the session check of m2m_ip_cb, the
\* buffer's head and tail and the paused transfer.  socketBufferSendWait is
\* excepted: it takes the socket for not connected, see LiveBuffer.  So is a
\* socket that took the answer to an earlier session's CONNECT for its own: with
\* two of those it sends two RECVs, for the same place in its buffer.
StreamInOrder ==
  \A s \in Socks : s \notin waited \cup misconnected =>
    \A i \in DOMAIN got[s] : got[s][i] = [x |-> opened[s], n |-> i]

Unhandled(x) == Cardinality({i \in DOMAIN line : line[i].k = "recv" /\ line[i].x = x})

\* bIsRecvPending keeps recv() to one RECV at a time: of a session that is open
\* on the host at most one is unanswered, counting answers not yet handled.  A
\* CLOSE that failed is excepted: the chip answers the RECV of a session the host
\* has forgotten, and the answer clears the flag of the socket's next session.  So
\* is a socket that took the answer to an earlier CONNECT for its own: it asks too
\* early, and the answer to the earlier session's RECV clears its flag.
OneRecvOutstanding ==
  ~orphaned => \A s \in Socks \ misconnected : gastrSockets[s].used =>
    LET x == gastrSockets[s].session IN chip[x].asked + Unhandled(x) <= 1

\* No buffer is ever full: the chip is asked for data only when a whole MTU
\* fits, so no answer is dropped in socketBufferCb and no gate closes
\* m2m_wifi_handle_events to the other sockets.  (See OneRecvOutstanding for the
\* exception: after the loss of the access point in connect(), two RECVs can be out.)
NeverFull == \A s \in Socks \ misconnected : "full" \notin gastrSocketBuffer[s].flag

\* stop() leaves m2m_wifi_handle_events unblocked, as its comment says: a transfer
\* that is paused between calls belongs to a socket that can take the rest of it.
NotBlocked == pc = "idle" /\ hif_small_xfer # 0 => Readable(sock_xfer)

\* Between calls, while no peer has ended a stream and the access point is not
\* lost, the _socket of a client is an open socket and its session is the client's
\* own.  (After either the event loop has closed the socket, it is free for
\* another client, and the first one's _socket still names it.)
HandlesOwn ==
  pc = "idle" /\ ~ended => \A c \in Clients : _socket[c] # None =>
    gastrSockets[_socket[c]].used /\ gastrSockets[_socket[c]].session = own[c]

\* No socket leaks: between calls, one that is in use is some client's, but for
\* one whose flag SendWait or an earlier session's refusal has overwritten, so that
\* connected() gave it up.
SocketsHeld ==
  pc = "idle" => \A s \in Socks \ misconnected : gastrSockets[s].used =>
    s \in waited \/ \E c \in Clients : _socket[c] = s

\* The address the host interface copies data to is in memory that is allocated:
\* a buffer is freed after its socket is closed, but for a socket whose
\* "connected" flag socketBufferSendWait or the answer to another session's
\* CONNECT overwrote.  The loss of the access point frees all, and closes all.
LiveBuffer ==
  \A s \in Socks \ misconnected :
    Readable(s) => gastrSocketBuffer[s].alloc \/ s \in waited

\* As long as no transfer has failed, a session open on both sides, of a socket
\* that took no earlier session's answer for its own, hears of
\* what its peer sends: its RECV is with the chip or its answer on the way, or
\* there are data to read and reading the last of them sends the next RECV.
Listening ==
  faults = 0 => \A s \in Socks \ misconnected :
    LET x == gastrSockets[s].session IN
    gastrSockets[s].used /\ chip[x].phase = "open" =>
      \/ chip[x].asked > 0 \/ Available(s) > 0
      \/ \E i \in DOMAIN line : line[i].x = x /\ line[i].k \in {"connect", "recv"}

\* connect() returns: the loop of socketBufferConnectWait gets its answer, if
\* no transfer fails.
ConnectReturns == []((pc = "connWait") => <>(pc = "idle" \/ faults > 0))
==============================================================================
