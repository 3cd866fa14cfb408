-------------------------- MODULE WebSocketClient --------------------------
(***************************************************************************)
(* WebSocketsClient, with the frames of WebSockets.cpp, over a WiFiClient: *)
(* loop() connects, reads the answer to the upgrade line by line, and then *)
(* a frame at a time, waiting for its bytes; the connection may be lost at *)
(* any call of the event loop.                                             *)
(*                                                                         *)
(* The WiFiClient is what SocketLayer models: bytes in order until the     *)
(* connection is lost, the ones not read thrown away when connected() finds *)
(* that out.  A frame is a unit for what says its length and one for each  *)
(* part of the rest; a header line is one or two for its text, with the    *)
(* CR, and one for its LF.                                                 *)
(***************************************************************************)
EXTENDS Integers, Sequences, SequencesExt

CONSTANTS
  MaxUnits,       \* units of the longest frame
  MaxFrames,      \* bound: frames of a connection
  MaxConnections, \* bound: connections made
  MaxRx           \* units the WiFiClient's buffer has room for

ASSUME WebSocketAssumption ==
  /\ {MaxUnits, MaxFrames, MaxConnections} \subseteq Nat \ {0} /\ MaxRx \in Nat \ {0}

VARIABLES
  tcp,           \* whether client->tcp is not NULL
  status,        \* "none", "header" or "connected": client->status
  cCode, cIsUpgrade, cIsWebsocket,
  cAccept,       \* the connection whose key the server has answered, 0 for none
  frame,         \* what handleWebsocket has read of a frame; empty outside it
  pc,            \* control point; "crashed" after a call through NULL
  \* the WiFiClient and the server
  conn,          \* "none", "open" or "lost", which connected() has not found out
  rx,            \* units that are there to be read, oldest first
  told,          \* the server's header lines on this connection
  sent,          \* the kinds of its frames
  rest,          \* what has not arrived of the last line or frame
  \* bookkeeping of the model
  cut,           \* history: a header line of the connection was read in parts
  early,         \* history: its header was taken to end before it does
  received,      \* history: the units of the connection's data messages, unless early
  conns          \* the connections made: the last one's number

clientVars == <<tcp, status, cCode, cIsUpgrade, cIsWebsocket, cAccept>>
serverVars == <<told, sent, rest>>
cutVars == <<cut, early>>
vars == <<clientVars, frame, pc, conn, rx, serverVars, cutVars, received, conns>>

\* "other" stands for the lines the client makes nothing of.
Texts == {"101", "200", "connection", "upgrade", "accept", "wrong", "other"}
Lines == Texts \union {""}

\* "close" is any opcode that ends the connection
Kinds == {"text", "ping", "close", "big"}

\* The units of a frame, the f-th, or of a line, whose f is 0
UnitsOf(l, f, of) == [n \in 1..of |-> [l |-> l, f |-> f, n |-> n, of |-> of, x |-> conns]]

\* The last unit of a line is its LF.
EndsLine(u) == u.n = u.of

\* after begin()
Init ==
  /\ tcp = FALSE /\ status = "none" /\ cCode = 0
  /\ cIsUpgrade = FALSE /\ cIsWebsocket = TRUE /\ cAccept = 0
  /\ frame = <<>> /\ pc = "idle"
  /\ conn = "none" /\ rx = <<>> /\ told = {} /\ sent = <<>> /\ rest = <<>>
  /\ cut = FALSE /\ early = FALSE /\ received = <<>> /\ conns = 0

-----------------------------------------------------------------------------
(* The end of a connection.                                                  *)

\* Slip: status is not reset.
ResetKeeps ==
  /\ tcp' = FALSE /\ status' = status /\ cCode' = 0
  /\ cIsUpgrade' = FALSE /\ cIsWebsocket' = FALSE /\ cAccept' = 0

Reset ==
  /\ tcp' = FALSE /\ status' = "none" /\ cCode' = 0
  /\ cIsUpgrade' = FALSE /\ cIsWebsocket' = FALSE /\ cAccept' = 0

\* clientDisconnect(), which closes a connection that is still open; a code that
\* is given is sent in a close frame before.
ClientDisconnect == Reset /\ conn' = "none" /\ rx' = <<>>

Keep == UNCHANGED <<clientVars, conn, rx>>

\* clientIsConnected()
IsConnected == tcp /\ conn = "open" /\ status # "none"

\* What clientIsConnected() does on the way to its answer
Cleanup == IF ~IsConnected /\ tcp THEN ClientDisconnect ELSE Keep

-----------------------------------------------------------------------------
(* loop(), and what the application calls.                                   *)

LoopData ==
  /\ pc = "idle" /\ IsConnected
  /\ pc' = "data"
  /\ UNCHANGED <<clientVars, frame, conn, rx, serverVars, cutVars, received, conns>>

\* A new WiFiClient, and the request to upgrade the connection if it is made
LoopConnect ==
  /\ pc = "idle" /\ ~IsConnected
  /\ tcp' = TRUE /\ rx' = <<>>
  /\ cCode' = (IF tcp THEN 0 ELSE cCode) /\ cAccept' = (IF tcp THEN 0 ELSE cAccept)
  /\ cIsUpgrade' = (~tcp /\ cIsUpgrade) /\ cIsWebsocket' = (~tcp /\ cIsWebsocket)
  /\ \/ /\ conns < MaxConnections /\ conns' = conns + 1
        /\ conn' = "open" /\ status' = "header"
        /\ told' = {} /\ sent' = <<>> /\ rest' = <<>> /\ received' = <<>>
        /\ cut' = FALSE /\ early' = FALSE
     \/ /\ conn' = "none" /\ status' = "none"
        /\ UNCHANGED <<serverVars, cutVars, received, conns>>
  /\ UNCHANGED <<frame, pc>>

\* sendTXT(), of which only clientIsConnected() matters here, and disconnect()
Send ==
  /\ pc = "idle" /\ Cleanup
  /\ UNCHANGED <<frame, pc, serverVars, cutVars, received, conns>>

Disconnect ==
  /\ pc = "idle" /\ tcp /\ ClientDisconnect
  /\ UNCHANGED <<frame, pc, serverVars, cutVars, received, conns>>

\* What the callback of the application does, in the middle of loop()
Callback == Keep \/ Cleanup \/ ClientDisconnect

-----------------------------------------------------------------------------
(* handleClientData() and handleHeader()                                     *)

NoData ==
  /\ pc = "data" /\ rx = <<>>
  /\ pc' = "idle"
  /\ UNCHANGED <<clientVars, frame, conn, rx, serverVars, cutVars, received, conns>>

\* readStringUntil: the units up to an LF or, when the next byte does not come within
\* the time-out, what there is.  The rest is read as the next line.
ReadLine(n) ==
  /\ pc = "data" /\ status = "header"
  /\ \A i \in 1..(n - 1) : ~EndsLine(rx[i])
  /\ n = Len(rx) \/ EndsLine(rx[n])
  /\ rx' = SubSeq(rx, n + 1, Len(rx)) /\ cut' = (cut \/ ~EndsLine(rx[n]))

\* What n units from u on say, if the text is not all there a part of it
Said(u, n) ==
  IF u.n > 1 THEN {"other"}
  ELSE IF n >= u.of - 1 THEN {u.l}
  ELSE CASE u.l \in {"101", "200"} -> {"other", "code"}
         [] u.l \in {"accept", "wrong"} -> {"other", "wrong"}
         [] OTHER -> {"other"}

HeaderLine ==
  /\ rx # <<>> /\ Head(rx).l # "" /\ ~EndsLine(Head(rx))
  /\ \E n \in 1..Len(rx) :
       /\ ReadLine(n)
       /\ \E l \in Said(Head(rx), n) :
            /\ cCode' = CASE l = "101" -> 101 [] l = "200" -> 200 [] l = "code" -> 10 [] OTHER -> cCode
            /\ cIsUpgrade' = (cIsUpgrade \/ l = "connection")
            /\ cIsWebsocket' = (cIsWebsocket \/ l = "upgrade")
            /\ cAccept' = CASE l = "accept" -> Head(rx).x [] l = "wrong" -> -1 [] OTHER -> cAccept
  /\ pc' = "idle"
  /\ UNCHANGED <<tcp, status, frame, conn, serverVars, early, received, conns>>

Upgraded == cIsUpgrade /\ cIsWebsocket

\* A line of which nothing is left without its CR and LF ends the header: the empty
\* line, its CR alone, or the LF of a line whose text has been read.
HeaderEnd ==
  /\ pc = "data" /\ status = "header" /\ rx # <<>>
  /\ Head(rx).l = "" \/ EndsLine(Head(rx))

\* The connection is upgraded and the application is told.
HeaderDone ==
  /\ HeaderEnd /\ Upgraded /\ cCode = 101 /\ cAccept = conns
  /\ pc' = "idle"
  /\ \/ /\ \E n \in 1..Len(rx) : ReadLine(n) /\ early' = (n = 1)
        /\ status' = "connected"
        /\ UNCHANGED <<tcp, cCode, cIsUpgrade, cIsWebsocket, cAccept, conn>>
     \/ ClientDisconnect /\ UNCHANGED cutVars
  /\ UNCHANGED <<frame, serverVars, received, conns>>

\* Slip: the case of 101 has no break.
HeaderRefusedAll ==
  /\ HeaderEnd
  /\ pc' = IF Upgraded \/ conn # "open" THEN "crashed" ELSE "idle"
  /\ ClientDisconnect
  /\ UNCHANGED <<frame, serverVars, cutVars, received, conns>>

\* It is not.  The server's "This is a webSocket client!" is written through tcp
\* also when clientDisconnect() has just been called, for a code other than 101
\* or because the connection was found lost.
HeaderRefused ==
  /\ HeaderEnd /\ ~(Upgraded /\ cCode = 101 /\ cAccept = conns)
  /\ pc' = IF (Upgraded /\ cCode # 101) \/ conn # "open" THEN "crashed" ELSE "idle"
  /\ ClientDisconnect
  /\ UNCHANGED <<frame, serverVars, cutVars, received, conns>>

-----------------------------------------------------------------------------
(* handleWebsocket()                                                         *)

FrameBegins ==
  /\ pc = "data" /\ status = "connected" /\ rx # <<>>
  /\ pc' = "frame"
  /\ UNCHANGED <<clientVars, frame, conn, rx, serverVars, cutVars, received, conns>>

\* A payload that is too big is not read.
Missing ==
  IF frame = <<>> THEN 1 ELSE IF frame[1].l = "big" THEN 0 ELSE frame[1].of - Len(frame)

\* The header of a frame, taken from what is none: of a kind and a length nobody meant
Misread(u, k, of) == [u EXCEPT !.l = k, !.f = 0, !.n = 1, !.of = of]

\* What the unit is when it is read in the place of a frame's first
AsFirst(u) ==
  IF u.l \in Kinds /\ u.n = 1 THEN {u} ELSE {Misread(u, k, of) : k \in Kinds, of \in 1..MaxUnits}

ReadFirst ==
  /\ pc = "frame" /\ frame = <<>> /\ conn = "open" /\ rx # <<>>
  /\ \E u \in AsFirst(Head(rx)) : frame' = <<u>>
  /\ rx' = Tail(rx)
  /\ UNCHANGED <<clientVars, pc, conn, serverVars, cutVars, received, conns>>

\* readWait: what is there, up to what is missing
ReadSome ==
  LET n == IF Missing < Len(rx) THEN Missing ELSE Len(rx) IN
  /\ pc = "frame" /\ frame # <<>> /\ Missing > 0 /\ conn = "open" /\ rx # <<>>
  /\ frame' = frame \o SubSeq(rx, 1, n) /\ rx' = SubSeq(rx, n + 1, Len(rx))
  /\ UNCHANGED <<clientVars, pc, conn, serverVars, cutVars, received, conns>>

\* Slip: only time that has passed ends the wait, and a lost connection does not count.
ReadTimesOut ==
  /\ pc = "frame" /\ Missing > 0 /\ conn = "open" /\ rx = <<>>
  /\ pc' = "idle" /\ frame' = <<>> /\ ClientDisconnect
  /\ UNCHANGED <<serverVars, cutVars, received, conns>>

\* Slip: a frame that is cut short is let go, and what comes of it later is not.
ReadGivesUp ==
  /\ pc = "frame" /\ Missing > 0 /\ (conn # "open" \/ rx = <<>>)
  /\ pc' = "idle" /\ frame' = <<>> /\ Keep
  /\ UNCHANGED <<serverVars, cutVars, received, conns>>

\* readWait: the connection is lost, or no byte has come in time
ReadFails ==
  /\ pc = "frame" /\ Missing > 0 /\ (conn # "open" \/ rx = <<>>)
  /\ pc' = "idle" /\ frame' = <<>> /\ ClientDisconnect
  /\ UNCHANGED <<serverVars, cutVars, received, conns>>

Complete(kinds) ==
  /\ pc = "frame" /\ Missing = 0 /\ frame[1].l \in kinds
  /\ pc' = "idle" /\ frame' = <<>>
  /\ UNCHANGED <<serverVars, cutVars, conns>>

Message ==
  /\ Complete({"text"})
  /\ received' = (IF early THEN received ELSE received \o frame)
  /\ Callback

\* A pong goes back, if the connection is there.
PingFrame == Complete({"ping"}) /\ Keep /\ UNCHANGED received

OtherFrame ==
  Complete({"close", "big"}) /\ ClientDisconnect /\ UNCHANGED received

-----------------------------------------------------------------------------
(* The server and the connection.                                            *)

ServerUnchanged == UNCHANGED <<clientVars, frame, pc, conn, cutVars, received, conns>>

\* The status, and some of the other lines in any order, up to an empty one
NextLines ==
  IF told = {} THEN {"101", "200"}
  ELSE Lines \ (told \union {"101", "200"}
                 \union (IF {"accept", "wrong"} \cap told = {} THEN {} ELSE {"accept", "wrong"}))

SendsLine ==
  /\ conn = "open" /\ "" \notin told /\ rest = <<>>
  /\ \E l \in NextLines, of \in 2..3 :
       (l = "" => of = 2) /\ told' = told \union {l} /\ rest' = UnitsOf(l, 0, of)
  /\ ServerUnchanged /\ UNCHANGED <<rx, sent>>

SendsFrame ==
  /\ conn = "open" /\ "" \in told /\ rest = <<>> /\ Len(sent) < MaxFrames
  /\ \E k \in Kinds, of \in 1..MaxUnits :
       sent' = Append(sent, k) /\ rest' = UnitsOf(k, Len(sent) + 1, of)
  /\ ServerUnchanged /\ UNCHANGED <<rx, told>>

Arrives ==
  /\ conn = "open" /\ rest # <<>> /\ Len(rx) < MaxRx
  /\ rx' = Append(rx, Head(rest)) /\ rest' = Tail(rest)
  /\ ServerUnchanged /\ UNCHANGED <<told, sent>>

Lost ==
  /\ conn = "open" /\ conn' = "lost"
  /\ UNCHANGED <<clientVars, frame, pc, rx, serverVars, cutVars, received, conns>>

-----------------------------------------------------------------------------
Loop ==
  \/ LoopData \/ LoopConnect \/ NoData \/ HeaderLine \/ HeaderDone \/ HeaderRefused
  \/ FrameBegins \/ ReadFirst \/ ReadSome \/ ReadFails \/ Message \/ PingFrame \/ OtherFrame

Server == SendsLine \/ SendsFrame \/ Arrives \/ Lost

Next == Loop \/ Send \/ Disconnect \/ Server

Spec == Init /\ [][Next]_vars

\* main() calls loop() again and again, and readWait() and loop() return.
FairSpec == Spec /\ WF_vars(Loop)

-----------------------------------------------------------------------------
(* Properties.                                                               *)

Units == [l : Lines \union Kinds, f : 0..MaxFrames, n : Nat \ {0}, of : Nat \ {0},
          x : 1..MaxConnections]

TypeOK ==
  /\ tcp \in BOOLEAN /\ status \in {"none", "header", "connected"} /\ (status # "none" => tcp)
  /\ cCode \in {0, 10, 101, 200} /\ {cIsUpgrade, cIsWebsocket, cut, early} \subseteq BOOLEAN
  /\ cAccept \in -1..MaxConnections
  /\ {frame, rx, rest, received} \subseteq Seq(Units) /\ Len(rx) <= MaxRx
  /\ pc \in {"idle", "data", "frame", "crashed"} /\ conn \in {"none", "open", "lost"}
  /\ told \subseteq Lines /\ sent \in Seq(Kinds) /\ conns \in 0..MaxConnections

\* The application gets the data messages of the connection whole and in order, and
\* none is left out before one it gets: also when they come in pieces, between
\* control frames, after a connection that ended in the middle of a frame, and never
\* before the server has agreed to the upgrade with the key of this connection.
\* But a time-out between a CR and its LF, or before them, can end the header early:
\* then what is left of it is read as frames.
MessagesWhole ==
  /\ status = "connected" => {"101", "connection", "accept"} \subseteq told
  /\ \A i \in DOMAIN received :
       LET u == received[i]
           before == IF i = 1 THEN [f |-> 0, n |-> 1, of |-> 1] ELSE received[i - 1]
       IN /\ u.x = conns
          /\ IF u.n > 1 THEN u.f = before.f /\ u.n = before.n + 1
             ELSE /\ before.n = before.of /\ before.f < u.f
                  /\ \A f \in (before.f + 1)..(u.f - 1) : sent[f] # "text"
  /\ received # <<>> => Last(received).n = Last(received).of /\ "" \in told

\* The call through NULL in handleHeader happens only with a server that has not
\* agreed to the upgrade, or when a line of its answer was read in parts.
CrashesOnlyRefused ==
  pc = "crashed" => \/ cut
                    \/ {"200", "wrong"} \cap told # {}
                    \/ ~({"101", "connection", "upgrade", "accept"} \subseteq told)

\* A connection that is lost is noticed, in the middle of a frame as well, and loop()
\* can connect again.
LossNoticed == (status = "connected" /\ conn # "open") ~> status # "connected"
=============================================================================
