--------------------------- MODULE SocketLayerProofs ---------------------------
(***************************************************************************)
(* Proofs about SocketLayer, for any number of sockets, clients, sessions  *)
(* and failed transfers.  The first invariant holds for buffers and        *)
(* answers of any size; the second, about the data, for those of the       *)
(* default build, where an answer fits and the buffer has room for one.    *)
(* The access point may be lost at any time, which closes all sockets and  *)
(* leaves their last answers on the way: a socket that takes one for its   *)
(* own (misconnected) is followed no further.                              *)
(***************************************************************************)
EXTENDS SocketLayerSteps

-----------------------------------------------------------------------------
(* The inductive invariant, for every build.                                 *)

Has(s, x) == Used(s) /\ Session(s) = x

\* Each session is one socket's, and those to come are as new.
SessionInv ==
  /\ \A s \in Socks : IF Used(s) THEN Session(s) = opened[s] /\ opened[s] # 0
                      ELSE Session(s) = 0
  /\ \A s \in Socks : opened[s] <= gu16SessionID
  /\ \A s, t \in Socks : opened[s] = opened[t] /\ opened[s] # 0 => s = t
  /\ \A x \in Sessions : x > gu16SessionID =>
       chip[x].phase = "none" /\ chip[x].asked = 0 /\ chip[x].made = 0
  /\ \A i \in 1..Len(line) : line[i].x <= gu16SessionID

\* What the chip knows of a session that is open on the host
ChipInv ==
  /\ \A x \in Sessions : chip[x].phase \in {"none", "closed"} => chip[x].asked = 0
  /\ \A s \in Socks, x \in Sessions : Has(s, x) =>
       /\ chip[x].phase \in {"connecting", "open", "closed"}
       /\ chip[x].phase # "closed" => chip[x].s = s
       /\ \A i \in 1..Len(line) : line[i].x = x => line[i].s = s

Connecting(x) == chip[x].phase = "connecting" \/ Coming("connect", x)

\* A socket as connect() leaves it before it waits
AsNew(s, x) ==
  /\ Has(s, x) /\ ~gastrSockets[s].pending /\ gastrSockets[s].user = 0
  /\ gastrSocketBuffer[s].flag = {"connecting"}
  /\ gastrSocketBuffer[s].head = 0 /\ gastrSocketBuffer[s].tail = 0

\* connect() waits with s for the answer to session x, of which the chip was asked nothing.
Waits(s, x) ==
  /\ Point = "connWait" /\ s = _socket[cur] /\ AsNew(s, x)
  /\ chip[x].asked = 0 /\ ~Coming("recv", x)

\* While its own CONNECT is unanswered, connect() waits for it with a socket as new:
\* but for one that took the answer to another CONNECT for it.
ConnectInv ==
  /\ \A s \in Socks, x \in Sessions : Has(s, x) /\ s \notin misconnected /\ Connecting(x) =>
       Waits(s, x)
  /\ \A x \in Sessions : chip[x].phase \in {"connecting", "aborting"} => ~Coming("connect", x)
  /\ \A i, j \in 1..Len(line) : line[i].k = "connect" /\ line[j].k = "connect"
                                /\ line[i].x = line[j].x => i = j
  /\ \A i \in 1..Len(line) : line[i].k = "connect" /\ ~line[i].ok =>
       chip[line[i].x].phase = "closed"

OneOf(x) ==
  /\ chip[x].asked <= 1
  /\ chip[x].asked = 1 => ~Coming("recv", x)
  /\ \A i, j \in 1..Len(line) : line[i].k = "recv" /\ line[i].x = x
                                /\ line[j].k = "recv" /\ line[j].x = x => i = j

\* The pending flag says whether a RECV is unanswered.
RecvInv ==
  ~orphaned => \A s \in Socks, x \in Sessions : Has(s, x) /\ s \notin misconnected =>
    OneOf(x) /\ (~gastrSockets[s].pending => chip[x].asked = 0 /\ ~Coming("recv", x))

\* After the i-th answer session x is told that it is connected.
ConnectsAfter(i, x) ==
  \/ chip[x].phase = "connecting"
  \/ \E j \in 1..Len(line) : i < j /\ line[j].k = "connect" /\ line[j].x = x

\* The answers to a socket's earlier sessions come before its new one is connected.
EarlierInv ==
  ~orphaned =>
    /\ \A x \in Sessions, s \in Socks :
         chip[x].phase \in {"connecting", "open"} /\ chip[x].s = s => Has(s, x)
    /\ \A x, y \in Sessions, s \in Socks :
         chip[x].phase \in {"closing", "aborting"} /\ chip[x].s = s /\ Has(s, y) =>
           x < y /\ chip[y].phase = "connecting"
    /\ \A i \in 1..Len(line), y \in Sessions, s \in Socks :
         line[i].k = "recv" /\ line[i].s = s /\ line[i].x # y /\ Has(s, y) => ConnectsAfter(i, y)

\* The flags of s are not those its own session gave it.
Astray == waited \cup misconnected

\* A socket is in use with a buffer, connected, and known to a client, until it is closed.
LiveInv ==
  /\ \A s \in Socks : Used(s) => s \in Astray \/ gastrSocketBuffer[s].alloc
  /\ \A s \in Socks : Used(s) => \/ s \in Astray \/ "connected" \in gastrSocketBuffer[s].flag
                                 \/ (Point = "connWait" /\ _socket[cur] = s)
  /\ Flushing => \A s \in Socks : _socket[cur] = s /\ Used(s) => s \in Astray
  /\ \A s \in Socks : Used(s) => s \in Astray \/ \E c \in Clients : _socket[c] = s

\* A client's socket is its own until the event loop closes one.
OwnInv ==
  ~ended =>
    /\ \A c \in Clients, s \in Socks : _socket[c] = s =>
         Has(s, own[c]) \/ (c = cur /\ Flushing)
    /\ \A c, d \in Clients : c # d /\ _socket[c] # None => _socket[c] # _socket[d]

IInv ==
  /\ TypeOK /\ QueueTypes /\ ControlInv /\ SessionInv /\ ChipInv /\ ConnectInv
  /\ RecvInv /\ EarlierInv /\ LiveInv /\ OwnInv

-----------------------------------------------------------------------------
(* The steps, as the sessions see them.                                      *)

\* The answer taken is one to recv() on s.
Reply(s) == TakesHead("recv") /\ Head(line).s = s

SameLine == line' = line \/ (line # <<>> /\ line' = Tail(line))

\* A step that may ask the chip for data of s, and takes an answer or not
Serves(s) ==
  /\ UNCHANGED <<gu16SessionID, opened, orphaned>> /\ SameLine
  /\ misconnected \subseteq misconnected'
  /\ \A t \in Socks : /\ gastrSockets'[t].used = gastrSockets[t].used
                      /\ gastrSockets'[t].session = gastrSockets[t].session
                      /\ t # s => gastrSockets'[t] = gastrSockets[t]
  /\ ~gastrSockets'[s].pending => ~gastrSockets[s].pending \/ Reply(s)
  /\ \A x \in Sessions :
       /\ chip'[x].s = chip[x].s /\ chip'[x].phase = chip[x].phase
       /\ \/ chip'[x].asked = chip[x].asked
          \/ /\ Has(s, x) /\ chip[x].phase # "closed" /\ chip'[x].asked = chip[x].asked + 1
             /\ chip[x].phase = "open" \/ s \in misconnected'
             /\ gastrSockets'[s].pending /\ (~gastrSockets[s].pending \/ Reply(s))
       /\ chip'[x].made = chip[x].made

\* A step that closes the sockets in S
Closes(S) ==
  /\ UNCHANGED <<gu16SessionID, opened, misconnected>> /\ SameLine
  /\ \A t \in Socks \ S : gastrSockets'[t] = gastrSockets[t]
  /\ \A s \in S : ~gastrSockets'[s].used /\ gastrSockets'[s].session = 0
  /\ \A x \in Sessions :
       /\ chip'[x].s = chip[x].s /\ chip'[x].asked = chip[x].asked
       /\ chip'[x].made = chip[x].made
       /\ \/ chip'[x].phase = chip[x].phase
          \/ Shutting(x) /\ \E s \in S : Has(s, x)
       /\ (\E s \in S : Has(s, x)) /\ ~orphaned' => chip'[x].phase \notin {"open", "connecting"}
  /\ orphaned => orphaned'

\* The answers that are left are d places further on.
LEMMA SameLineFacts ==
  ASSUME line \in Seq(Answers), SameLine
  PROVE  /\ Len(line) \in Nat /\ Len(line') \in Nat
         /\ \E d \in {0, 1} :
              /\ \A i \in 1..Len(line') : i + d \in 1..Len(line) /\ line'[i] = line[i + d]
              /\ \A i \in 1..Len(line) : i > d => i - d \in 1..Len(line') /\ line'[i - d] = line[i]
              /\ d = 1 => line' = Tail(line) /\ line # <<>> /\ Head(line) = line[1]
         /\ \A k, x : Coming(k, x)' => Coming(k, x)
<1>1. CASE line' = line
  <2>1. Len(line) \in Nat
    OBVIOUS
  <2>2. /\ \A i \in 1..Len(line') : i + 0 \in 1..Len(line) /\ line'[i] = line[i + 0]
        /\ \A i \in 1..Len(line) : i > 0 => i - 0 \in 1..Len(line') /\ line'[i - 0] = line[i]
    BY <1>1, <2>1
  <2>3. \A k, x : Coming(k, x)' => Coming(k, x)
    BY <1>1 DEF Coming
  <2> QED BY <1>1, <2>1, <2>2, <2>3
<1>2. CASE line # <<>> /\ line' = Tail(line)
  <2>1. /\ line' \in Seq(Answers) /\ Head(line) = line[1] /\ Len(line) \in Nat
        /\ Len(line') = Len(line) - 1
        /\ \A i \in 1..Len(line') : i + 1 \in 1..Len(line) /\ line'[i] = line[i + 1]
        /\ \A i \in 1..Len(line) : i # 1 => i - 1 \in 1..Len(line') /\ line'[i - 1] = line[i]
        /\ \A k, x : Coming(k, x)' => Coming(k, x)
    BY <1>2, LineTail
  <2>2. Len(line') \in Nat
    BY <2>1
  <2>3. \A i \in 1..Len(line) : i > 1 => i - 1 \in 1..Len(line') /\ line'[i - 1] = line[i]
    BY <2>1
  <2> QED BY <1>2, <2>1, <2>2, <2>3
<1> QED BY <1>1, <1>2 DEF SameLine

\* The sockets and sessions that an invariant relates
LEMMA SessionFacts ==
  ASSUME IInv
  PROVE  /\ AllTypes /\ line \in Seq(Answers)
         /\ \A s \in Socks : Used(s) => Session(s) \in Sessions
         /\ \A s \in Socks, x \in Sessions : Has(s, x) => x <= gu16SessionID
         /\ \A s, t \in Socks, x \in Sessions : Has(s, x) /\ Has(t, x) => s = t
         /\ gu16SessionID \in Nat /\ Sessions \subseteq Nat
         /\ \A x \in Sessions : /\ chip[x].s \in Socks /\ chip[x].phase \in Phases
                                /\ chip[x].asked \in Nat /\ chip[x].made \in Nat
<1>1. AllTypes
  BY TypesSplit DEF IInv
<1>2. opened \in [Socks -> 0..MaxSessions] /\ line \in Seq(Answers) /\ gu16SessionID \in 0..MaxSessions
  BY <1>1 DEF AllTypes, OtherTypes
<1>3. SessionInv
  BY DEF IInv
<1>4. \A s \in Socks : Used(s) => Session(s) = opened[s] /\ opened[s] # 0 /\ opened[s] <= gu16SessionID
  BY <1>3 DEF SessionInv
<1>5. \A s \in Socks : Used(s) => Session(s) \in Sessions
  BY <1>2, <1>4, Bounds DEF Sessions
<1>6. \A s \in Socks, x \in Sessions : Has(s, x) => x <= gu16SessionID
  BY <1>4 DEF Has
<1>7. \A s, t \in Socks, x \in Sessions : Has(s, x) /\ Has(t, x) => s = t
  BY <1>3 DEF SessionInv, Has
<1>8. \A x \in Sessions : /\ chip[x].s \in Socks /\ chip[x].phase \in Phases
                            /\ chip[x].asked \in Nat /\ chip[x].made \in Nat
  BY <1>1, ChipFields DEF AllTypes
<1> QED BY <1>1, <1>2, <1>5, <1>6, <1>7, <1>8, Bounds DEF Sessions

\* With no RECV pending, or its answer taken, there is none for the session of s.
LEMMA Quiet ==
  ASSUME IInv, ~orphaned, NEW s \in Socks \ misconnected, NEW x \in Sessions, Has(s, x), SameLine,
         ~gastrSockets[s].pending \/ Reply(s)
  PROVE  chip[x].asked = 0 /\ ~Coming("recv", x)'
<1>1. line \in Seq(Answers) /\ chip[x].asked \in Nat
  BY SessionFacts
<1>3. OneOf(x) /\ (~gastrSockets[s].pending => chip[x].asked = 0 /\ ~Coming("recv", x))
  BY DEF IInv, RecvInv
<1>c. \A k, y : Coming(k, y)' => Coming(k, y)
  BY <1>1, SameLineFacts
<1>4. CASE ~gastrSockets[s].pending
  BY <1>3, <1>4, <1>c
<1>5. CASE Reply(s)
  <2>1. line # <<>> /\ line' = Tail(line) /\ Head(line).k = "recv" /\ Head(line).s = s
    BY <1>5 DEF Reply, TakesHead
  <2>2. /\ 1 \in 1..Len(line) /\ Head(line) = line[1] /\ Len(line) \in Nat
        /\ \A i \in 1..Len(line') : i + 1 \in 1..Len(line) /\ line'[i] = line[i + 1]
    BY <1>1, <2>1, LineTail
  <2>3. CASE Head(line).x = x
    <3>1. Coming("recv", x)
      BY <2>1, <2>2, <2>3 DEF Coming
    <3>2. chip[x].asked = 0
      BY <1>1, <1>3, <3>1 DEF OneOf
    <3>3. ASSUME NEW i \in 1..Len(line'), line'[i].k = "recv", line'[i].x = x PROVE FALSE
      <4>1. i + 1 \in 1..Len(line) /\ line[i + 1].k = "recv" /\ line[i + 1].x = x
        BY <2>2, <3>3
      <4>2. i + 1 = 1
        BY <1>3, <2>1, <2>2, <2>3, <4>1 DEF OneOf
      <4> QED BY <4>2
    <3>4. ~Coming("recv", x)'
      BY <3>3 DEF Coming
    <3> QED BY <3>2, <3>4
  <2>4. CASE Head(line).x # x
    <3>1. ConnectsAfter(1, x)
      BY <2>1, <2>2, <2>4 DEF IInv, EarlierInv
    <3>2. Connecting(x)
      BY <3>1 DEF Connecting, Coming, ConnectsAfter
    <3>3. chip[x].asked = 0 /\ ~Coming("recv", x)
      BY <3>2 DEF IInv, ConnectInv, Waits
    <3> QED BY <3>3, <1>c
  <2> QED BY <2>3, <2>4
<1> QED BY <1>4, <1>5

\* What an invariant says of the line stays true of what is left of it.
LEMMA Shorter ==
  ASSUME IInv, SameLine
  PROVE  /\ \A k, x : Coming(k, x)' => Coming(k, x)
         /\ \A i \in 1..Len(line') : line'[i].x <= gu16SessionID
         /\ \A s \in Socks, x \in Sessions : Has(s, x) =>
              \A i \in 1..Len(line') : line'[i].x = x => line'[i].s = s
         /\ \A x : OneOf(x) => \A i, j \in 1..Len(line') :
              line'[i].k = "recv" /\ line'[i].x = x /\ line'[j].k = "recv" /\ line'[j].x = x => i = j
         /\ ~orphaned =>
              \A i \in 1..Len(line'), y \in Sessions, s \in Socks :
                /\ line'[i].k = "recv" /\ line'[i].s = s /\ line'[i].x # y /\ Has(s, y)
                /\ chip[y].phase = "connecting" => chip'[y].phase = "connecting"
                => ConnectsAfter(i, y)'
<1>1. line \in Seq(Answers)
  BY SessionFacts
<1>2. Len(line) \in Nat /\ Len(line') \in Nat /\ \A k, x : Coming(k, x)' => Coming(k, x)
  BY <1>1, SameLineFacts
<1>3. PICK d \in {0, 1} :
        /\ \A i \in 1..Len(line') : i + d \in 1..Len(line) /\ line'[i] = line[i + d]
        /\ \A i \in 1..Len(line) : i > d => i - d \in 1..Len(line') /\ line'[i - d] = line[i]
  BY <1>1, SameLineFacts
<1>4. \A i \in 1..Len(line') : line'[i].x <= gu16SessionID
  BY <1>3 DEF IInv, SessionInv
<1>5. ASSUME NEW s \in Socks, NEW x \in Sessions, Has(s, x)
      PROVE  \A i \in 1..Len(line') : line'[i].x = x => line'[i].s = s
  <2>1. \A i \in 1..Len(line) : line[i].x = x => line[i].s = s
    BY <1>5 DEF IInv, ChipInv
  <2> QED BY <1>3, <2>1
<1>6. ASSUME NEW x, OneOf(x), NEW i \in 1..Len(line'), NEW j \in 1..Len(line'),
             line'[i].k = "recv" /\ line'[i].x = x, line'[j].k = "recv" /\ line'[j].x = x
      PROVE  i = j
  <2>1. i + d \in 1..Len(line) /\ j + d \in 1..Len(line)
        /\ line'[i] = line[i + d] /\ line'[j] = line[j + d]
    BY <1>3
  <2>2. i + d = j + d
    BY <1>6, <2>1 DEF OneOf
  <2> QED BY <1>2, <2>2
<1>7. ASSUME ~orphaned, NEW i \in 1..Len(line'), NEW y \in Sessions, NEW s \in Socks,
             line'[i].k = "recv" /\ line'[i].s = s /\ line'[i].x # y /\ Has(s, y),
             chip[y].phase = "connecting" => chip'[y].phase = "connecting"
      PROVE  ConnectsAfter(i, y)'
  <2>1. i + d \in 1..Len(line) /\ line'[i] = line[i + d]
    BY <1>3
  <2>2. ConnectsAfter(i + d, y)
    BY <1>7, <2>1 DEF IInv, EarlierInv
  <2>3. CASE chip[y].phase = "connecting"
    BY <1>7, <2>3 DEF ConnectsAfter
  <2>4. ASSUME NEW j \in 1..Len(line), i + d < j, line[j].k = "connect", line[j].x = y
        PROVE  ConnectsAfter(i, y)'
    <3>1. j > d /\ i < j - d
      BY <1>2, <2>4
    <3>2. j - d \in 1..Len(line') /\ line'[j - d] = line[j]
      BY <1>3, <3>1
    <3> QED BY <2>4, <3>1, <3>2 DEF ConnectsAfter
  <2> QED BY <2>2, <2>3, <2>4 DEF ConnectsAfter
<1> QED BY <1>2, <1>4, <1>5, <1>6, <1>7

SessionsOk == SessionInv /\ ChipInv /\ RecvInv /\ EarlierInv

LEMMA ServesSessions ==
  ASSUME IInv, NEW s \in Socks, Serves(s)
  PROVE  SessionsOk'
<1>1. /\ \A t \in Socks : Used(t) => Session(t) \in Sessions
      /\ \A t, u \in Socks, x \in Sessions : Has(t, x) /\ Has(u, x) => t = u
      /\ \A x \in Sessions : chip[x].asked \in Nat
  BY SessionFacts
<1>2. SessionInv /\ ChipInv /\ RecvInv /\ EarlierInv
  BY DEF IInv
<1>3. \A t \in Socks : /\ (Used(t)' <=> Used(t)) /\ Session(t)' = Session(t)
                       /\ \A x \in Sessions : Has(t, x)' <=> Has(t, x)
  BY DEF Serves, Used, Session, Has
<1>4. /\ \A x \in Sessions : /\ chip'[x].s = chip[x].s /\ chip'[x].phase = chip[x].phase
                             /\ chip'[x].made = chip[x].made
                             /\ \/ chip'[x].asked = chip[x].asked
                                \/ /\ Has(s, x) /\ chip[x].phase # "closed"
                                   /\ chip'[x].asked = chip[x].asked + 1
                                   /\ gastrSockets'[s].pending
                                   /\ (~gastrSockets[s].pending \/ Reply(s))
      /\ gu16SessionID' = gu16SessionID /\ opened' = opened /\ orphaned' = orphaned /\ SameLine
      /\ misconnected \subseteq misconnected'
  BY DEF Serves
<1>7. SessionInv'
  <2>1. \A t \in Socks : IF Used(t)' THEN Session(t)' = opened'[t] /\ opened'[t] # 0
                         ELSE Session(t)' = 0
    BY <1>2, <1>3, <1>4 DEF SessionInv
  <2>2. /\ \A t \in Socks : opened'[t] <= gu16SessionID'
        /\ \A t, u \in Socks : opened'[t] = opened'[u] /\ opened'[t] # 0 => t = u
    BY <1>2, <1>4 DEF SessionInv
  <2>3. ASSUME NEW x \in Sessions, x > gu16SessionID'
        PROVE  chip'[x].phase = "none" /\ chip'[x].asked = 0 /\ chip'[x].made = 0
    <3>1. chip[x].phase = "none" /\ chip[x].asked = 0 /\ chip[x].made = 0
      BY <1>2, <1>4, <2>3 DEF SessionInv
    <3>2. ~Has(s, x)
      BY <1>2, <3>1 DEF ChipInv
    <3> QED BY <1>4, <3>1, <3>2
  <2>4. \A i \in 1..Len(line') : line'[i].x <= gu16SessionID'
    BY <1>4, Shorter
  <2> QED BY <2>1, <2>2, <2>3, <2>4 DEF SessionInv
<1>8. ChipInv'
  <2>1. ASSUME NEW x \in Sessions, chip'[x].phase \in {"none", "closed"} PROVE chip'[x].asked = 0
    <3>1. chip[x].phase \in {"none", "closed"}
      BY <1>4, <2>1
    <3>2. chip[x].asked = 0
      BY <1>2, <3>1 DEF ChipInv
    <3>3. Has(s, x) => chip[x].phase = "closed"
      BY <1>2, <3>1 DEF ChipInv
    <3> QED BY <1>4, <3>2, <3>3
  <2>2. ASSUME NEW t \in Socks, NEW x \in Sessions, Has(t, x)'
        PROVE  /\ chip'[x].phase \in {"connecting", "open", "closed"}
               /\ chip'[x].phase # "closed" => chip'[x].s = t
               /\ \A i \in 1..Len(line') : line'[i].x = x => line'[i].s = t
    <3>1. Has(t, x)
      BY <1>3, <2>2
    <3>2. /\ chip[x].phase \in {"connecting", "open", "closed"}
          /\ chip[x].phase # "closed" => chip[x].s = t
      BY <1>2, <3>1 DEF ChipInv
    <3>3. \A i \in 1..Len(line') : line'[i].x = x => line'[i].s = t
      BY <1>4, <3>1, Shorter
    <3> QED BY <1>4, <3>2, <3>3
  <2> QED BY <2>1, <2>2 DEF ChipInv
<1>9. ASSUME ~orphaned', NEW t \in Socks, NEW x \in Sessions, Has(t, x)', t \notin misconnected'
      PROVE  OneOf(x)' /\ (~gastrSockets'[t].pending => chip'[x].asked = 0 /\ ~Coming("recv", x)')
  <2>1. Has(t, x) /\ ~orphaned /\ t \notin misconnected
    BY <1>3, <1>4, <1>9
  <2>2. OneOf(x) /\ (~gastrSockets[t].pending => chip[x].asked = 0 /\ ~Coming("recv", x))
    BY <1>2, <2>1 DEF RecvInv
  <2>3. /\ Coming("recv", x)' => Coming("recv", x)
        /\ \A i, j \in 1..Len(line') : line'[i].k = "recv" /\ line'[i].x = x
                                       /\ line'[j].k = "recv" /\ line'[j].x = x => i = j
    BY <1>4, <2>2, Shorter
  <2>4. CASE ~gastrSockets[t].pending \/ Reply(t)
    <3>1. chip[x].asked = 0 /\ ~Coming("recv", x)'
      BY <1>4, <2>1, <2>4, Quiet
    <3>2. OneOf(x)'
      BY <1>4, <2>3, <3>1 DEF OneOf
    <3>3. chip'[x].asked = chip[x].asked \/ (s = t /\ gastrSockets'[s].pending)
      BY <1>1, <1>4, <2>1
    <3> QED BY <3>1, <3>2, <3>3
  <2>5. CASE gastrSockets[t].pending /\ ~Reply(t)
    <3>1. gastrSockets'[t].pending
      BY <2>5 DEF Serves
    <3>2. chip'[x].asked = chip[x].asked
      BY <1>1, <1>4, <2>1, <2>5
    <3>3. OneOf(x)'
      BY <2>2, <2>3, <3>2 DEF OneOf
    <3> QED BY <3>1, <3>3
  <2> QED BY <2>4, <2>5
<1>10. EarlierInv'
  <2> SUFFICES ASSUME ~orphaned' PROVE EarlierInv'
    BY DEF EarlierInv
  <2>1. ~orphaned
    BY <1>4
  <2>2. ASSUME NEW x \in Sessions, NEW t \in Socks, chip'[x].s = t
        PROVE  /\ chip'[x].phase \in {"connecting", "open"} => Has(t, x)'
               /\ \A y \in Sessions : chip'[x].phase \in {"closing", "aborting"} /\ Has(t, y)' =>
                    x < y /\ chip'[y].phase = "connecting"
    BY <1>2, <1>3, <1>4, <2>1, <2>2 DEF EarlierInv
  <2>3. \A i \in 1..Len(line'), y \in Sessions, t \in Socks :
          line'[i].k = "recv" /\ line'[i].s = t /\ line'[i].x # y /\ Has(t, y) => ConnectsAfter(i, y)'
    BY <1>4, <2>1, Shorter
  <2> QED BY <1>3, <2>2, <2>3 DEF EarlierInv
<1> QED BY <1>7, <1>8, <1>9, <1>10 DEF RecvInv, SessionsOk

LEMMA ClosesSessions ==
  ASSUME IInv, NEW S \in SUBSET Socks, Closes(S)
  PROVE  SessionsOk'
<1>1. /\ \A t \in Socks : Used(t) => Session(t) \in Sessions
      /\ \A t, u \in Socks, x \in Sessions : Has(t, x) /\ Has(u, x) => t = u
      /\ \A x \in Sessions : chip[x].asked \in Nat
  BY SessionFacts
<1>2. SessionInv /\ ChipInv /\ RecvInv /\ EarlierInv
  BY DEF IInv
<1>3. /\ \A t \in Socks, x \in Sessions : Has(t, x)' => t \notin S /\ Has(t, x)
      /\ \A t \in Socks \ S : /\ (Used(t)' <=> Used(t)) /\ Session(t)' = Session(t)
                              /\ \A x \in Sessions : Has(t, x)' <=> Has(t, x)
      /\ \A s \in S : ~Used(s)' /\ Session(s)' = 0
  BY DEF Closes, Used, Session, Has
<1>4. /\ \A x \in Sessions :
           /\ chip'[x].s = chip[x].s /\ chip'[x].asked = chip[x].asked /\ chip'[x].made = chip[x].made
           /\ \/ chip'[x].phase = chip[x].phase
              \/ Shutting(x) /\ \E s \in S : Has(s, x)
           /\ (\E s \in S : Has(s, x)) /\ ~orphaned' =>
                chip'[x].phase \notin {"open", "connecting"}
      /\ gu16SessionID' = gu16SessionID /\ opened' = opened /\ (orphaned => orphaned') /\ SameLine
      /\ misconnected' = misconnected
  BY DEF Closes
<1>5. \A t \in Socks, x \in Sessions : Has(t, x)' => chip'[x].phase = chip[x].phase
  BY <1>1, <1>3, <1>4
<1>7. SessionInv'
  <2>1. \A t \in Socks : IF Used(t)' THEN Session(t)' = opened'[t] /\ opened'[t] # 0
                         ELSE Session(t)' = 0
    BY <1>2, <1>3, <1>4 DEF SessionInv
  <2>2. /\ \A t \in Socks : opened'[t] <= gu16SessionID'
        /\ \A t, u \in Socks : opened'[t] = opened'[u] /\ opened'[t] # 0 => t = u
    BY <1>2, <1>4 DEF SessionInv
  <2>3. ASSUME NEW x \in Sessions, x > gu16SessionID'
        PROVE  chip'[x].phase = "none" /\ chip'[x].asked = 0 /\ chip'[x].made = 0
    <3>1. chip[x].phase = "none" /\ chip[x].asked = 0 /\ chip[x].made = 0
      BY <1>2, <1>4, <2>3 DEF SessionInv
    <3> QED BY <1>4, <3>1 DEF Shutting
  <2>4. \A i \in 1..Len(line') : line'[i].x <= gu16SessionID'
    BY <1>4, Shorter
  <2> QED BY <2>1, <2>2, <2>3, <2>4 DEF SessionInv
<1>8. ChipInv'
  <2>1. ASSUME NEW x \in Sessions, chip'[x].phase \in {"none", "closed"} PROVE chip'[x].asked = 0
    <3>1. chip[x].phase \in {"none", "closed"}
      BY <1>4, <2>1 DEF Shutting
    <3>2. chip[x].asked = 0
      BY <1>2, <3>1 DEF ChipInv
    <3> QED BY <1>4, <3>2
  <2>2. ASSUME NEW t \in Socks, NEW x \in Sessions, Has(t, x)'
        PROVE  /\ chip'[x].phase \in {"connecting", "open", "closed"}
               /\ chip'[x].phase # "closed" => chip'[x].s = t
               /\ \A i \in 1..Len(line') : line'[i].x = x => line'[i].s = t
    <3>1. Has(t, x) /\ chip'[x].phase = chip[x].phase
      BY <1>3, <1>5, <2>2
    <3>2. /\ chip[x].phase \in {"connecting", "open", "closed"}
          /\ chip[x].phase # "closed" => chip[x].s = t
      BY <1>2, <3>1 DEF ChipInv
    <3>3. \A i \in 1..Len(line') : line'[i].x = x => line'[i].s = t
      BY <1>4, <3>1, Shorter
    <3> QED BY <1>4, <3>1, <3>2, <3>3
  <2> QED BY <2>1, <2>2 DEF ChipInv
<1>9. ASSUME ~orphaned', NEW t \in Socks, NEW x \in Sessions, Has(t, x)', t \notin misconnected'
      PROVE  OneOf(x)' /\ (~gastrSockets'[t].pending => chip'[x].asked = 0 /\ ~Coming("recv", x)')
  <2>1. Has(t, x) /\ ~orphaned /\ t \notin S /\ gastrSockets'[t] = gastrSockets[t]
        /\ t \notin misconnected
    BY <1>3, <1>4, <1>9 DEF Closes
  <2>2. OneOf(x) /\ (~gastrSockets[t].pending => chip[x].asked = 0 /\ ~Coming("recv", x))
    BY <1>2, <2>1 DEF RecvInv
  <2>3. /\ Coming("recv", x)' => Coming("recv", x)
        /\ \A i, j \in 1..Len(line') : line'[i].k = "recv" /\ line'[i].x = x
                                       /\ line'[j].k = "recv" /\ line'[j].x = x => i = j
    BY <1>4, <2>2, Shorter
  <2> QED BY <1>4, <2>1, <2>2, <2>3 DEF OneOf
<1>10. EarlierInv'
  <2> SUFFICES ASSUME ~orphaned' PROVE EarlierInv'
    BY DEF EarlierInv
  <2>1. ~orphaned
    BY <1>4
  <2>2. ASSUME NEW x \in Sessions, NEW t \in Socks, chip'[x].phase \in {"connecting", "open"},
               chip'[x].s = t
        PROVE  Has(t, x)'
    <3>1. Has(t, x)
      BY <1>2, <1>4, <2>1, <2>2 DEF EarlierInv, Shutting
    <3> QED BY <1>3, <1>4, <2>2, <3>1
  <2>3. ASSUME NEW x \in Sessions, NEW y \in Sessions, NEW t \in Socks,
               chip'[x].phase \in {"closing", "aborting"}, chip'[x].s = t, Has(t, y)'
        PROVE  x < y /\ chip'[y].phase = "connecting"
    <3>1. Has(t, y) /\ t \notin S /\ chip'[y].phase = chip[y].phase
      BY <1>3, <1>5, <2>3
    <3>2. chip[x].phase \in {"closing", "aborting"}
      <4>1. ASSUME NEW s \in S, Has(s, x), Shutting(x) PROVE FALSE
        <5>1. chip[x].s = s
          BY <1>2, <4>1 DEF ChipInv, Shutting
        <5> QED BY <1>4, <2>3, <3>1, <5>1
      <4> QED BY <1>4, <2>3, <4>1
    <3> QED BY <1>2, <1>4, <2>1, <2>3, <3>1, <3>2 DEF EarlierInv
  <2>4. ASSUME NEW i \in 1..Len(line'), NEW y \in Sessions, NEW t \in Socks,
               line'[i].k = "recv", line'[i].s = t, line'[i].x # y, Has(t, y)'
        PROVE  ConnectsAfter(i, y)'
    BY <1>3, <1>4, <1>5, <2>1, <2>4, Shorter
  <2> QED BY <2>2, <2>3, <2>4 DEF EarlierInv
<1> QED BY <1>7, <1>8, <1>9, <1>10 DEF RecvInv, SessionsOk

\* connect() gives the next session to a free socket, or tries to.
LEMMA ConnectSessions ==
  ASSUME IInv, NEW c \in Clients, NEW s \in Socks, NEW x \in Sessions, ConnectDone(c, s, x),
         ConnectSent(c, s, x) \/ ConnectNotSent(s)
  PROVE  SessionsOk'
<1>1. /\ \A t \in Socks, y \in Sessions : Has(t, y) => y <= gu16SessionID
      /\ gu16SessionID \in Nat /\ x \in Nat /\ Sessions \subseteq Nat
      /\ \A y \in Sessions : chip[y].asked \in Nat
  BY SessionFacts
<1>2. SessionInv /\ ChipInv /\ RecvInv /\ EarlierInv
  BY DEF IInv
<1>3. /\ ~Used(s) /\ x = gu16SessionID + 1 /\ gu16SessionID' = x
      /\ \A t \in Socks : opened'[t] = IF t = s THEN x ELSE opened[t]
      /\ \A t \in Socks : t # s => gastrSockets'[t] = gastrSockets[t]
      /\ line' = line /\ orphaned' = orphaned /\ misconnected' = misconnected \ {s}
  BY DEF ConnectDone
<1>o. \A t \in Socks : opened[t] \in Nat
  <2>1. opened \in [Socks -> 0..MaxSessions]
    BY SessionFacts DEF AllTypes, OtherTypes
  <2> QED BY <2>1, Bounds
<1>4. \/ /\ Used(s)' /\ Session(s)' = x
         /\ ~gastrSockets'[s].pending /\ chip'[x].s = s /\ chip'[x].phase = "connecting"
      \/ ~Used(s)' /\ Session(s)' = 0 /\ chip' = chip
  BY DEF ConnectSent, ConnectNotSent, Used, Session, Unused
<1>5. /\ \A y \in Sessions : y # x => chip'[y] = chip[y]
      /\ chip'[x].asked = chip[x].asked /\ chip'[x].made = chip[x].made
  BY DEF ConnectSent, ConnectNotSent
<1>6. /\ \A t \in Socks : t # s => /\ (Used(t)' <=> Used(t)) /\ Session(t)' = Session(t)
                                   /\ \A y \in Sessions : Has(t, y)' <=> Has(t, y)
      /\ \A t \in Socks, y \in Sessions : Has(t, y) => t # s /\ y # x
      /\ \A y \in Sessions : Has(s, y)' => y = x /\ chip'[x].s = s /\ chip'[x].phase = "connecting"
  BY <1>1, <1>3, <1>4 DEF Used, Session, Has
<1>7. /\ chip[x].phase = "none" /\ chip[x].asked = 0 /\ chip[x].made = 0
      /\ \A i \in 1..Len(line) : line[i].x # x
  BY <1>1, <1>2, <1>3 DEF SessionInv
<1>8. \A k, y : Coming(k, y)' <=> Coming(k, y)
  BY <1>3 DEF Coming
<1>9. SessionInv'
  <2>1. ASSUME NEW t \in Socks
        PROVE  IF Used(t)' THEN Session(t)' = opened'[t] /\ opened'[t] # 0 ELSE Session(t)' = 0
    <3>1. CASE t = s
      BY <1>1, <1>3, <1>4, <3>1
    <3>2. CASE t # s
      BY <1>2, <1>3, <1>6, <3>2 DEF SessionInv
    <3> QED BY <3>1, <3>2
  <2>2. \A t \in Socks : opened[t] < x
    BY <1>1, <1>2, <1>3, <1>o DEF SessionInv
  <2>3. /\ \A t \in Socks : opened'[t] <= gu16SessionID'
        /\ \A t, u \in Socks : opened'[t] = opened'[u] /\ opened'[t] # 0 => t = u
    BY <1>1, <1>2, <1>3, <1>o, <2>2 DEF SessionInv
  <2>4. ASSUME NEW y \in Sessions, y > gu16SessionID'
        PROVE  chip'[y].phase = "none" /\ chip'[y].asked = 0 /\ chip'[y].made = 0
    <3>1. y \in Nat /\ gu16SessionID \in Nat /\ x = gu16SessionID + 1 /\ gu16SessionID' = x
      BY <1>1, <1>3, SessionFacts
    <3>2. y > gu16SessionID /\ y # x
      BY <2>4, <3>1
    <3> QED BY <1>2, <1>5, <3>2 DEF SessionInv
  <2>5. \A i \in 1..Len(line') : line'[i].x <= gu16SessionID'
    <3>1. \A i \in 1..Len(line) : line[i].x \in Nat
      <4>1. \A i \in 1..Len(line) : line[i] \in Answers
        BY SessionFacts
      <4> QED BY <1>1, <4>1, AnswerTypes
    <3> QED BY <1>1, <1>2, <1>3, <3>1 DEF SessionInv
  <2> QED BY <2>1, <2>3, <2>4, <2>5 DEF SessionInv
<1>10. ChipInv'
  <2>1. ASSUME NEW y \in Sessions, chip'[y].phase \in {"none", "closed"} PROVE chip'[y].asked = 0
    <3>1. CASE y = x
      BY <1>5, <1>7, <3>1
    <3>2. CASE y # x
      BY <1>2, <1>5, <2>1, <3>2 DEF ChipInv
    <3> QED BY <3>1, <3>2
  <2>2. ASSUME NEW t \in Socks, NEW y \in Sessions, Has(t, y)'
        PROVE  /\ chip'[y].phase \in {"connecting", "open", "closed"}
               /\ chip'[y].phase # "closed" => chip'[y].s = t
               /\ \A i \in 1..Len(line') : line'[i].x = y => line'[i].s = t
    <3>1. CASE t = s
      BY <1>3, <1>6, <1>7, <2>2, <3>1
    <3>2. CASE t # s
      <4>1. Has(t, y) /\ y # x
        BY <1>6, <2>2, <3>2
      <4> QED BY <1>2, <1>3, <1>5, <4>1 DEF ChipInv
    <3> QED BY <3>1, <3>2
  <2> QED BY <2>1, <2>2 DEF ChipInv
<1>11. ASSUME ~orphaned', NEW t \in Socks, NEW y \in Sessions, Has(t, y)', t \notin misconnected'
       PROVE  OneOf(y)' /\ (~gastrSockets'[t].pending => chip'[y].asked = 0 /\ ~Coming("recv", y)')
  <2>1. CASE t = s
    <3>1. y = x /\ ~Coming("recv", x)
      BY <1>6, <1>7, <1>11, <2>1 DEF Coming
    <3>2. chip'[x].asked = 0 /\ \A i \in 1..Len(line') : line'[i].x # x
      BY <1>3, <1>5, <1>7
    <3>3. OneOf(y)'
      BY <3>1, <3>2 DEF OneOf
    <3> QED BY <1>8, <3>1, <3>2, <3>3
  <2>2. CASE t # s
    <3>1. Has(t, y) /\ y # x /\ gastrSockets'[t] = gastrSockets[t] /\ ~orphaned
          /\ t \notin misconnected
      BY <1>3, <1>6, <1>11, <2>2
    <3>2. OneOf(y) /\ (~gastrSockets[t].pending => chip[y].asked = 0 /\ ~Coming("recv", y))
      BY <1>2, <3>1 DEF RecvInv
    <3>3. OneOf(y)'
      BY <1>3, <1>5, <1>8, <3>1, <3>2 DEF OneOf
    <3> QED BY <1>5, <1>8, <3>1, <3>2, <3>3
  <2> QED BY <2>1, <2>2
<1>12. EarlierInv'
  <2> SUFFICES ASSUME ~orphaned' PROVE EarlierInv'
    BY DEF EarlierInv
  <2>1. ~orphaned
    BY <1>3
  <2>2. ASSUME NEW y \in Sessions, NEW t \in Socks, chip'[y].phase \in {"connecting", "open"},
               chip'[y].s = t
        PROVE  Has(t, y)'
    <3>1. CASE y = x
      BY <1>4, <1>7, <2>2, <3>1 DEF Has
    <3>2. CASE y # x
      <4>1. Has(t, y)
        BY <1>2, <1>5, <2>1, <2>2, <3>2 DEF EarlierInv
      <4> QED BY <1>6, <4>1
    <3> QED BY <3>1, <3>2
  <2>3. ASSUME NEW y \in Sessions, NEW z \in Sessions, NEW t \in Socks,
               chip'[y].phase \in {"closing", "aborting"}, chip'[y].s = t, Has(t, z)'
        PROVE  y < z /\ chip'[z].phase = "connecting"
    <3>0. y # x /\ chip[y].phase \in {"closing", "aborting"}
      BY <1>4, <1>5, <1>7, <2>3
    <3>1. CASE t = s
      <4>1. ~(y > gu16SessionID)
        BY <1>2, <3>0 DEF SessionInv
      <4> QED BY <1>1, <1>3, <1>6, <2>3, <3>1, <4>1
    <3>2. CASE t # s
      <4>1. Has(t, z) /\ z # x
        BY <1>6, <2>3, <3>2
      <4> QED BY <1>2, <1>5, <2>1, <2>3, <3>0, <4>1 DEF EarlierInv
    <3> QED BY <3>1, <3>2
  <2>4. ASSUME NEW i \in 1..Len(line'), NEW y \in Sessions, NEW t \in Socks,
               line'[i].k = "recv", line'[i].s = t, line'[i].x # y, Has(t, y)'
        PROVE  ConnectsAfter(i, y)'
    <3>1. CASE t = s
      BY <1>6, <2>4, <3>1 DEF ConnectsAfter
    <3>2. CASE t # s
      <4>1. Has(t, y) /\ y # x
        BY <1>6, <2>4, <3>2
      <4>2. ConnectsAfter(i, y)
        BY <1>2, <1>3, <2>1, <2>4, <4>1 DEF EarlierInv
      <4> QED BY <1>3, <1>5, <4>1, <4>2 DEF ConnectsAfter
    <3> QED BY <3>1, <3>2
  <2> QED BY <2>2, <2>3, <2>4 DEF EarlierInv
<1> QED BY <1>9, <1>10, <1>11, <1>12 DEF RecvInv, SessionsOk

\* A step of the chip for session x
ChipStep(x) == \/ ChipConnectDone(x) \/ ChipDataDone(x) \/ ChipEofDone(x) \/ ChipSentDone(x)
               \/ ChipCloseDone(x)

\* What the steps of the chip have in common
ChipView(x) ==
  /\ chip[x].phase \notin {"none", "closed"} /\ chip'[x].phase \notin {"none", "connecting", "aborting"}
  /\ \/ chip'[x].phase \in {"closed", chip[x].phase}
     \/ chip[x].phase = "connecting" /\ chip'[x].phase = "open"
     \/ chip[x].phase = "aborting" /\ chip'[x].phase = "closing"
  /\ chip[x].phase = "connecting" =>
       \A y \in Sessions : y < x => chip[y].phase \notin {"closing", "aborting"}
  /\ chip'[x].phase # "closed" => chip'[x].s = chip[x].s
  /\ chip'[x].phase = "closed" => chip'[x].asked = 0
  /\ \/ chip'[x].asked \in {0, chip[x].asked}
     \/ chip[x].asked > 0 /\ chip'[x].asked = chip[x].asked - 1

\* The answer r to session x
Told(x, r) ==
  /\ r.s = chip[x].s /\ r.x = x
  /\ chip[x].phase \in {"connecting", "aborting"} <=> r.k = "connect"
  /\ r.k = "connect" => (~r.ok => chip'[x].phase = "closed")
  /\ r.k = "recv" => chip[x].asked > 0 /\ chip'[x].asked \in {0, chip[x].asked - 1}

LEMMA ChipStepFacts ==
  ASSUME NEW x \in Sessions, ChipStep(x)
  PROVE  /\ HostSame /\ Alone(x) /\ ChipView(x)
         /\ \/ line' = line /\ chip[x].phase # "connecting"
            \/ \E r \in Answers : line' = Append(line, r) /\ Told(x, r)
<1>2. CASE ChipConnectDone(x)
  <2>1. PICK r : /\ Tells(r, x) /\ r.k = "connect"
            /\ \/ /\ r.ok /\ chip'[x].s = chip[x].s
                  /\ chip'[x].phase = IF chip[x].phase = "aborting" THEN "closing" ELSE "open"
                  /\ chip'[x].asked = chip[x].asked /\ chip'[x].made = chip[x].made
               \/ ~r.ok /\ Over(x)
    BY <1>2 DEF ChipConnectDone
  <2>2. ChipView(x)
    BY <1>2, <2>1 DEF ChipConnectDone, Over, ChipView
  <2>3. Told(x, r)
    BY <1>2, <2>1 DEF ChipConnectDone, Tells, Over, Told
  <2> QED BY <2>1, <2>2, <2>3 DEF Tells
<1>3. CASE ChipDataDone(x)
  <2>1. PICK r : Tells(r, x) /\ r.k = "recv"
    BY <1>3 DEF ChipDataDone
  <2>2. ChipView(x) /\ Told(x, r)
    BY <1>3, <2>1 DEF ChipDataDone, Tells, SameSession, Alive, ChipView, Told
  <2> QED BY <2>1, <2>2 DEF Tells
<1>4. CASE ChipEofDone(x)
  <2>1. PICK r : Tells(r, x) /\ r.k = "recv"
    BY <1>4 DEF ChipEofDone
  <2>2. ChipView(x) /\ Told(x, r)
    BY <1>4, <2>1 DEF ChipEofDone, Tells, Over, Alive, ChipView, Told
  <2> QED BY <2>1, <2>2 DEF Tells
<1>5. CASE ChipSentDone(x)
  <2>1. PICK r : Tells(r, x) /\ r.k = "send"
    BY <1>5 DEF ChipSentDone
  <2>2. ChipView(x) /\ Told(x, r)
    BY <1>5, <2>1 DEF ChipSentDone, Tells, SameSession, Alive, ChipView, Told
  <2> QED BY <2>1, <2>2 DEF Tells
<1>6. CASE ChipCloseDone(x)
  BY <1>6 DEF ChipCloseDone, Over, ChipView
<1> QED BY <1>2, <1>3, <1>4, <1>5, <1>6 DEF ChipStep

\* The chip puts an answer in the line, or forgets a session.
LEMMA ChipSessions ==
  ASSUME IInv, NEW x \in Sessions, ChipStep(x)
  PROVE  SessionsOk'
<1>1. /\ \A t \in Socks, y \in Sessions : Has(t, y) => y <= gu16SessionID
      /\ \A t, u \in Socks, y \in Sessions : Has(t, y) /\ Has(u, y) => t = u
      /\ \A t \in Socks : Used(t) => Session(t) \in Sessions
      /\ \A y \in Sessions : chip[y].asked \in Nat /\ chip[y].s \in Socks
      /\ line \in Seq(Answers) /\ Len(line) \in Nat
      /\ gu16SessionID \in Nat /\ Sessions \subseteq Nat
  BY SessionFacts
<1>2. SessionInv /\ ChipInv /\ RecvInv /\ EarlierInv /\ ConnectInv /\ ControlInv
  BY DEF IInv
<1>3. HostSame /\ ChipView(x)
  BY ChipStepFacts
<1>4. \A y \in Sessions : y # x => chip'[y] = chip[y]
  BY ChipStepFacts DEF Alone
<1>h. /\ gu16SessionID' = gu16SessionID /\ opened' = opened /\ orphaned' = orphaned
      /\ gastrSockets' = gastrSockets /\ misconnected' = misconnected
  BY <1>3 DEF HostSame, sockVars, histVars
<1>5. \A t \in Socks : /\ (Used(t)' <=> Used(t)) /\ Session(t)' = Session(t)
                       /\ \A y \in Sessions : Has(t, y)' <=> Has(t, y)
  BY <1>h DEF Used, Session, Has
\* The line grows by at most one answer, which is to x.
<1>6. /\ \A i \in 1..Len(line) : i \in 1..Len(line') /\ line'[i] = line[i]
      /\ \A i \in 1..Len(line') : i \in 1..Len(line) \/ (Told(x, line'[i]) /\ i = Len(line) + 1)
      /\ \A k, y : y # x => (Coming(k, y)' <=> Coming(k, y))
      /\ chip[x].phase = "connecting" =>
           \E j \in 1..Len(line') : j = Len(line) + 1 /\ line'[j].k = "connect" /\ line'[j].x = x
  <2>1. CASE line' = line /\ chip[x].phase # "connecting"
    BY <2>1 DEF Coming
  <2>2. ASSUME NEW r \in Answers, line' = Append(line, r), Told(x, r)
        PROVE  /\ \A i \in 1..Len(line) : i \in 1..Len(line') /\ line'[i] = line[i]
               /\ \A i \in 1..Len(line') :
                    i \in 1..Len(line) \/ (Told(x, line'[i]) /\ i = Len(line) + 1)
               /\ \A k, y : y # x => (Coming(k, y)' <=> Coming(k, y))
               /\ chip[x].phase = "connecting" => \E j \in 1..Len(line') :
                    j = Len(line) + 1 /\ line'[j].k = "connect" /\ line'[j].x = x
    <3>1. r.x = x /\ (chip[x].phase = "connecting" => r.k = "connect")
      BY <2>2 DEF Told
    <3>2. /\ Len(line) + 1 \in 1..Len(line') /\ line'[Len(line) + 1] = r
          /\ \A i \in 1..Len(line) : i \in 1..Len(line') /\ line'[i] = line[i]
          /\ \A i \in 1..Len(line') : i # Len(line) + 1 => i \in 1..Len(line)
          /\ \A k, y : Coming(k, y)' <=> Coming(k, y) \/ (r.k = k /\ r.x = y)
      BY <1>1, <2>2, LineAppend
    <3> QED BY <2>2, <3>1, <3>2
  <2> QED BY <2>1, <2>2, ChipStepFacts
<1>7. SessionInv'
  <2>1. /\ \A t \in Socks : IF Used(t)' THEN Session(t)' = opened'[t] /\ opened'[t] # 0
                            ELSE Session(t)' = 0
        /\ \A t \in Socks : opened'[t] <= gu16SessionID'
        /\ \A t, u \in Socks : opened'[t] = opened'[u] /\ opened'[t] # 0 => t = u
    BY <1>2, <1>5, <1>h DEF SessionInv
  <2>2. ~(x > gu16SessionID)
    BY <1>2, <1>3 DEF SessionInv, ChipView
  <2>3. \A y \in Sessions : y > gu16SessionID' =>
          chip'[y].phase = "none" /\ chip'[y].asked = 0 /\ chip'[y].made = 0
    BY <1>2, <1>4, <1>h, <2>2 DEF SessionInv
  <2>4. ASSUME NEW i \in 1..Len(line') PROVE line'[i].x <= gu16SessionID'
    <3>1. CASE i \in 1..Len(line)
      BY <1>2, <1>6, <1>h, <3>1 DEF SessionInv
    <3>2. CASE Told(x, line'[i])
      BY <1>1, <1>h, <2>2, <3>2 DEF Told
    <3> QED BY <1>6, <3>1, <3>2
  <2> QED BY <2>1, <2>3, <2>4 DEF SessionInv
<1>8. ChipInv'
  <2>1. ASSUME NEW y \in Sessions, chip'[y].phase \in {"none", "closed"} PROVE chip'[y].asked = 0
    <3>1. CASE y = x
      BY <1>3, <2>1, <3>1 DEF ChipView
    <3>2. CASE y # x
      BY <1>2, <1>4, <2>1, <3>2 DEF ChipInv
    <3> QED BY <3>1, <3>2
  <2>2. ASSUME NEW t \in Socks, NEW y \in Sessions, Has(t, y)'
        PROVE  /\ chip'[y].phase \in {"connecting", "open", "closed"}
               /\ chip'[y].phase # "closed" => chip'[y].s = t
               /\ \A i \in 1..Len(line') : line'[i].x = y => line'[i].s = t
    <3>1. /\ chip[y].phase \in {"connecting", "open", "closed"}
          /\ chip[y].phase # "closed" => chip[y].s = t
          /\ \A i \in 1..Len(line) : line[i].x = y => line[i].s = t
      BY <1>2, <1>5, <2>2 DEF ChipInv
    <3>2. CASE y = x
      <4>1. /\ chip'[y].phase \in {"connecting", "open", "closed"}
            /\ chip'[y].phase # "closed" => chip'[y].s = t
        BY <1>3, <3>1, <3>2 DEF ChipView
      <4>2. chip[x].s = t
        BY <1>3, <3>1, <3>2 DEF ChipView
      <4>3. \A i \in 1..Len(line') : line'[i].x = y => line'[i].s = t
        BY <1>6, <3>1, <4>2 DEF Told
      <4> QED BY <4>1, <4>3
    <3>3. CASE y # x
      <4>1. \A i \in 1..Len(line') : line'[i].x = y => line'[i].s = t
        BY <1>6, <3>1, <3>3 DEF Told
      <4> QED BY <1>4, <3>1, <3>3, <4>1
    <3> QED BY <3>2, <3>3
  <2> QED BY <2>1, <2>2 DEF ChipInv
<1>9. ASSUME ~orphaned', NEW t \in Socks, NEW y \in Sessions, Has(t, y)', t \notin misconnected'
      PROVE  OneOf(y)' /\ (~gastrSockets'[t].pending => chip'[y].asked = 0 /\ ~Coming("recv", y)')
  <2>1. OneOf(y) /\ (~gastrSockets[t].pending => chip[y].asked = 0 /\ ~Coming("recv", y))
    BY <1>2, <1>5, <1>9, <1>h DEF RecvInv
  <2>2. CASE y # x
    <3>1. \A i, j \in 1..Len(line') : line'[i].k = "recv" /\ line'[i].x = y
                                      /\ line'[j].k = "recv" /\ line'[j].x = y => i = j
      BY <1>6, <2>1, <2>2 DEF OneOf, Told
    <3>2. OneOf(y)'
      BY <1>4, <1>6, <2>1, <2>2, <3>1 DEF OneOf
    <3> QED BY <1>4, <1>6, <1>h, <2>1, <2>2, <3>2
  <2>3. CASE y = x
    <3>1. chip[x].asked \in {0, 1} /\ chip'[x].asked \in {0, 1} /\ chip'[x].asked <= chip[x].asked
      BY <1>1, <1>3, <2>1, <2>3 DEF OneOf, ChipView
    <3>2. CASE chip[x].asked = 0 \/ \A i \in 1..Len(line') : line'[i].k = "recv" => i \in 1..Len(line)
      <4>1. \A i \in 1..Len(line') : line'[i].k = "recv" => i \in 1..Len(line) /\ line'[i] = line[i]
        BY <1>1, <1>6, <3>2 DEF Told
      <4>2. Coming("recv", x)' => Coming("recv", x)
        BY <4>1 DEF Coming
      <4>3. OneOf(x)'
        BY <2>1, <2>3, <3>1, <4>1, <4>2 DEF OneOf
      <4> QED BY <1>h, <2>1, <2>3, <3>1, <4>2, <4>3
    <3>3. CASE chip[x].asked # 0 /\ \E i \in 1..Len(line') : line'[i].k = "recv" /\ i \notin 1..Len(line)
      <4>1. chip'[x].asked = 0
        BY <1>6, <3>1, <3>3 DEF Told
      <4>2. ~Coming("recv", x) /\ gastrSockets'[t].pending
        BY <1>h, <2>1, <2>3, <3>1, <3>3 DEF OneOf
      <4>3. \A i, j \in 1..Len(line') : line'[i].k = "recv" /\ line'[i].x = x
                                        /\ line'[j].k = "recv" /\ line'[j].x = x => i = j
        BY <1>6, <4>2 DEF Coming
      <4>4. OneOf(x)'
        BY <4>1, <4>3 DEF OneOf
      <4> QED BY <2>3, <4>2, <4>4
    <3> QED BY <3>2, <3>3
  <2> QED BY <2>2, <2>3
<1>10. EarlierInv'
  <2> SUFFICES ASSUME ~orphaned' PROVE EarlierInv'
    BY DEF EarlierInv
  <2>1. ~orphaned
    BY <1>h
  <2>2. ASSUME NEW y \in Sessions, NEW t \in Socks, chip'[y].phase \in {"connecting", "open"},
               chip'[y].s = t
        PROVE  Has(t, y)
    <3>1. chip[y].phase \in {"connecting", "open"} /\ chip[y].s = t
      BY <1>3, <1>4, <2>2 DEF ChipView
    <3> QED BY <1>2, <2>1, <3>1 DEF EarlierInv
  <2>3. ASSUME NEW y \in Sessions, NEW z \in Sessions, NEW t \in Socks,
               chip'[y].phase \in {"closing", "aborting"}, chip'[y].s = t, Has(t, z)
        PROVE  y < z /\ chip'[z].phase = "connecting"
    <3>1. chip[y].phase \in {"closing", "aborting"} /\ chip[y].s = t
      BY <1>3, <1>4, <2>3 DEF ChipView
    <3>2. y < z /\ chip[z].phase = "connecting"
      BY <1>2, <2>1, <2>3, <3>1 DEF EarlierInv
    <3>3. z # x
      BY <1>3, <3>1, <3>2 DEF ChipView
    <3> QED BY <1>4, <3>2, <3>3
  <2>4. ASSUME NEW i \in 1..Len(line'), NEW y \in Sessions, NEW t \in Socks,
               line'[i].k = "recv", line'[i].s = t, line'[i].x # y, Has(t, y)
        PROVE  ConnectsAfter(i, y)'
    <3>1. CASE i \in 1..Len(line)
      <4>1. ConnectsAfter(i, y)
        BY <1>2, <1>6, <2>1, <2>4, <3>1 DEF EarlierInv
      <4>2. CASE y # x \/ chip[y].phase # "connecting"
        BY <1>3, <1>4, <1>6, <4>1, <4>2 DEF ConnectsAfter
      <4>3. CASE y = x /\ chip[x].phase = "connecting"
        <5>1. PICK j \in 1..Len(line') : j = Len(line) + 1 /\ line'[j].k = "connect" /\ line'[j].x = x
          BY <1>6, <4>3
        <5>2. i < j
          BY <1>1, <3>1, <5>1
        <5> QED BY <4>3, <5>1, <5>2 DEF ConnectsAfter
      <4> QED BY <4>2, <4>3
    <3>2. CASE i \notin 1..Len(line)
      <4>1. Told(x, line'[i])
        BY <1>6, <3>2
      <4>2. chip[x].s = t /\ y # x /\ chip[x].phase \in {"open", "closing"}
        BY <1>3, <2>4, <4>1, SessionFacts DEF Told, ChipView, Phases
      <4>3. chip[x].phase = "closing"
        <5>1. ASSUME chip[x].phase = "open" PROVE FALSE
          <6>1. Has(t, x)
            BY <1>2, <2>1, <4>2, <5>1 DEF EarlierInv
          <6> QED BY <2>4, <4>2, <6>1 DEF Has
        <5> QED BY <4>2, <5>1
      <4>4. chip[y].phase = "connecting"
        BY <1>2, <2>1, <2>4, <4>2, <4>3 DEF EarlierInv
      <4> QED BY <1>4, <4>2, <4>4 DEF ConnectsAfter
    <3> QED BY <3>1, <3>2
  <2> QED BY <1>5, <2>2, <2>3, <2>4 DEF EarlierInv
<1> QED BY <1>7, <1>8, <1>9, <1>10 DEF RecvInv, SessionsOk

-----------------------------------------------------------------------------
(* The steps, as the methods of the clients see them.                        *)

HostOk == ControlInv /\ ConnectInv /\ LiveInv /\ OwnInv

\* A step that leaves the clients their sockets, and a waiting connect() its own
Ordinary(s, q, c) ==
  /\ Serves(s) /\ Moves(q, c)
  /\ UNCHANGED <<_socket, own>> /\ (ended => ended') /\ waited \subseteq waited'
  /\ \A t \in Socks : Used(t) /\ t \notin Astray' =>
       /\ gastrSocketBuffer[t].alloc => gastrSocketBuffer'[t].alloc
       /\ Flag("connected", t) => Flag("connected", t)'
  /\ \A x \in Sessions, t \in Socks \ misconnected' :
       AsNew(t, x) /\ Connecting(x)' => AsNew(t, x)'

\* A session whose CONNECT is unanswered is that of the connect() that waits.
LEMMA Waiting ==
  ASSUME IInv, NEW s \in Socks, s \notin misconnected, NEW x \in Sessions, Has(s, x), Connecting(x)
  PROVE  Waits(s, x) /\ Point = "connWait" /\ s = _socket[cur] /\ cur \in Clients /\ AsNew(s, x)
BY DEF IInv, ControlInv, ConnectInv, Waits

\* Nothing but an answer to session x itself ends its wait.
LEMMA StillConnecting ==
  ASSUME IInv, SameLine, NEW x \in Sessions, Connecting(x)',
         chip'[x].phase = "connecting" => chip[x].phase = "connecting"
  PROVE  Connecting(x)
BY Shorter DEF Connecting

\* What is left of the answers to connect()
LEMMA ConnectLeft ==
  ASSUME IInv, SameLine, \A x \in Sessions : chip[x].phase = "closed" => chip'[x].phase = "closed"
  PROVE  /\ \A i, j \in 1..Len(line') : line'[i].k = "connect" /\ line'[j].k = "connect"
                                        /\ line'[i].x = line'[j].x => i = j
         /\ \A i \in 1..Len(line') : line'[i].k = "connect" /\ ~line'[i].ok =>
              chip'[line'[i].x].phase = "closed"
<1>1. line \in Seq(Answers)
  BY SessionFacts
<1>2. Len(line) \in Nat /\ Len(line') \in Nat
  BY <1>1, SameLineFacts
<1>3. PICK d \in {0, 1} : \A i \in 1..Len(line') : i + d \in 1..Len(line) /\ line'[i] = line[i + d]
  BY <1>1, SameLineFacts
<1>4. ASSUME NEW i \in 1..Len(line'), NEW j \in 1..Len(line'),
             line'[i].k = "connect", line'[j].k = "connect", line'[i].x = line'[j].x
      PROVE  i = j
  <2>1. i + d = j + d
    BY <1>3, <1>4 DEF IInv, ConnectInv
  <2> QED BY <1>2, <2>1
<1>5. ASSUME NEW i \in 1..Len(line'), line'[i].k = "connect", ~line'[i].ok
      PROVE  chip'[line'[i].x].phase = "closed"
  <2>1. i + d \in 1..Len(line) /\ line'[i] = line[i + d]
    BY <1>3
  <2>2. line[i + d].x \in Sessions
    <3>1. line[i + d] \in Answers
      BY <1>1, <2>1
    <3> QED BY <3>1, AnswerTypes
  <2>3. chip[line[i + d].x].phase = "closed"
    BY <1>5, <2>1 DEF IInv, ConnectInv
  <2> QED BY <2>1, <2>2, <2>3
<1> QED BY <1>4, <1>5

\* The rest of ConnectInv, after a step that takes an answer or none
LEMMA ConnectRest ==
  ASSUME IInv, SameLine,
         \A x \in Sessions : /\ chip'[x].phase \in {"connecting", "aborting"} =>
                                chip[x].phase \in {"connecting", "aborting"}
                             /\ chip[x].phase = "closed" => chip'[x].phase = "closed",
         \A s \in Socks, x \in Sessions :
           Has(s, x)' /\ s \notin misconnected' /\ Connecting(x)' => Waits(s, x)'
  PROVE  ConnectInv'
<1>1. \A x \in Sessions : chip'[x].phase \in {"connecting", "aborting"} => ~Coming("connect", x)'
  BY Shorter DEF IInv, ConnectInv
<1>2. /\ \A i, j \in 1..Len(line') : line'[i].k = "connect" /\ line'[j].k = "connect"
                                     /\ line'[i].x = line'[j].x => i = j
      /\ \A i \in 1..Len(line') : line'[i].k = "connect" /\ ~line'[i].ok =>
           chip'[line'[i].x].phase = "closed"
  BY ConnectLeft
<1> QED BY <1>1, <1>2 DEF ConnectInv

LEMMA OrdinarySteps ==
  ASSUME IInv, ControlTypes', NEW s \in Socks, NEW q, NEW c, Ordinary(s, q, c)
  PROVE  HostOk'
<1>1. /\ q \in Points \ {"events", "small"} /\ Point' = q /\ (q # "idle" => cur' = c /\ c \in Clients)
      /\ (Point # "idle" => c = cur)
      /\ q = "connWait" => Point = "connWait"
      /\ Point = "connWait" => q = "connWait" \/ Flag("connected", _socket[cur])
      /\ Point \in FlushPoints => q \in FlushPoints
      /\ q \in FlushPoints => \/ Point \in FlushPoints
                              \/ _socket[c] \in Socks /\ ~Flag("connected", _socket[c])
                                 /\ Point = "connected"
      /\ q \in {"write", "sendWait"} => _socket[c] \in Socks
  BY DEF Ordinary, Moves, Goes
<1>2. /\ _socket' = _socket /\ own' = own /\ (~ended' => ~ended) /\ waited \subseteq waited'
      /\ \A t \in Socks : Used(t) /\ t \notin Astray' =>
           /\ gastrSocketBuffer[t].alloc => gastrSocketBuffer'[t].alloc
           /\ Flag("connected", t) => Flag("connected", t)'
      /\ \A x \in Sessions, t \in Socks \ misconnected' :
           AsNew(t, x) /\ Connecting(x)' => AsNew(t, x)'
      /\ Serves(s) /\ misconnected \subseteq misconnected'
  BY DEF Ordinary, Serves
<1>y. Astray \subseteq Astray'
  BY <1>2 DEF Astray
<1>3. /\ \A t \in Socks : /\ (Used(t)' <=> Used(t)) /\ Session(t)' = Session(t)
                          /\ \A x : Has(t, x)' <=> Has(t, x)
      /\ \A x \in Sessions : /\ chip'[x].phase = chip[x].phase
                             /\ \/ chip'[x].asked = chip[x].asked
                                \/ Has(s, x) /\ gastrSockets'[s].pending
      /\ SameLine
  BY <1>2 DEF Serves, Used, Session, Has
<1>4. ControlInv /\ ConnectInv /\ LiveInv /\ OwnInv
  BY DEF IInv
<1>f. /\ Flushing <=> Point \in FlushPoints
      /\ Flushing' <=> q \in FlushPoints
  BY <1>1 DEF Flushing, FlushPoints
<1>5. ControlInv'
  <2>1. q = "connWait" => _socket[c] \in Socks
    BY <1>1, <1>4 DEF ControlInv
  <2>2. q \in FlushPoints => _socket[c] \in Socks
    BY <1>1, <1>4, <1>f DEF ControlInv, FlushPoints
  <2>3. q # "idle" => cur' \in Clients
    BY <1>1
  <2>4. q \in {"connWait", "write", "sendWait"} \/ q \in FlushPoints => _socket'[cur'] \in Socks
    BY <1>1, <1>2, <2>1, <2>2 DEF FlushPoints
  <2> QED BY <1>1, <1>f, <2>3, <2>4 DEF ControlInv
<1>6. ConnectInv'
  <2>1. ASSUME NEW t \in Socks, NEW x \in Sessions, Has(t, x)', t \notin misconnected', Connecting(x)'
        PROVE  Waits(t, x)'
    <3>1. Has(t, x) /\ t \notin misconnected /\ Connecting(x)
      BY <1>2, <1>3, <2>1, StillConnecting
    <3>2. t = _socket[cur] /\ AsNew(t, x) /\ Point = "connWait"
      BY <3>1, Waiting
    <3>3. ~Flag("connected", t)
      BY <3>2 DEF AsNew, Flag
    <3>4. Point' = "connWait" /\ cur' = cur
      BY <1>1, <3>2, <3>3
    <3>5. AsNew(t, x)'
      BY <1>2, <2>1, <3>2
    <3>h. chip[x].asked = 0 /\ ~Coming("recv", x)
      BY <3>1, Waiting DEF Waits
    <3>6. chip'[x].asked = 0
      <4>1. ASSUME Has(s, x), gastrSockets'[s].pending PROVE FALSE
        <5>1. s = t
          BY <3>1, <4>1, SessionFacts
        <5> QED BY <3>5, <4>1, <5>1 DEF AsNew
      <4> QED BY <1>3, <3>h, <4>1
    <3>7. ~Coming("recv", x)'
      BY <1>3, <3>h, Shorter
    <3> QED BY <1>2, <3>2, <3>4, <3>5, <3>6, <3>7 DEF Waits
  <2> QED BY <1>3, <2>1, ConnectRest
<1>7. LiveInv'
  <2>1. \A t \in Socks : Used(t)' => t \in Astray' \/ gastrSocketBuffer'[t].alloc
    BY <1>2, <1>3, <1>4, <1>y DEF LiveInv
  <2>2. ASSUME NEW t \in Socks, Used(t)', t \notin Astray'
        PROVE  "connected" \in gastrSocketBuffer'[t].flag \/ (Point' = "connWait" /\ _socket'[cur'] = t)
    <3>1. Flag("connected", t) \/ (Point = "connWait" /\ _socket[cur] = t)
      BY <1>3, <1>4, <1>y, <2>2 DEF LiveInv, Flag
    <3>2. Flag("connected", t) \/ (Point' = "connWait" /\ _socket'[cur'] = t)
      BY <1>1, <1>2, <3>1
    <3> QED BY <1>2, <1>3, <2>2, <3>2 DEF Flag
  <2>3. ASSUME Flushing', NEW t \in Socks, _socket'[cur'] = t, Used(t)' PROVE t \in Astray'
    <3>1. q \in FlushPoints /\ cur' = c /\ _socket[c] = t /\ Used(t)
      BY <1>1, <1>2, <1>3, <1>f, <2>3 DEF FlushPoints
    <3>2. CASE Point \in FlushPoints
      <4>1. c = cur
        BY <1>1, <3>2 DEF FlushPoints
      <4> QED BY <1>4, <1>f, <1>y, <3>1, <3>2, <4>1 DEF LiveInv
    <3>3. CASE Point \notin FlushPoints
      <4>1. ~Flag("connected", t) /\ Point = "connected"
        BY <1>1, <3>1, <3>3
      <4> QED BY <1>4, <1>y, <3>1, <4>1 DEF LiveInv, Flag
    <3> QED BY <3>2, <3>3
  <2>4. \A t \in Socks : Used(t)' => t \in Astray' \/ \E d \in Clients : _socket'[d] = t
    BY <1>2, <1>3, <1>4, <1>y DEF LiveInv
  <2> QED BY <2>1, <2>2, <2>3, <2>4 DEF LiveInv
<1>8. OwnInv'
  <2> SUFFICES ASSUME ~ended' PROVE OwnInv'
    BY DEF OwnInv
  <2>1. ASSUME NEW d \in Clients, NEW t \in Socks, _socket'[d] = t
        PROVE  Has(t, own[d])' \/ (d = cur' /\ Flushing')
    <3>1. Has(t, own[d]) \/ (d = cur /\ Flushing)
      BY <1>2, <1>4, <2>1 DEF OwnInv
    <3>2. CASE Has(t, own[d])
      BY <1>2, <1>3, <3>2 DEF Has
    <3>3. CASE d = cur /\ Flushing
      BY <1>1, <1>f, <3>3 DEF FlushPoints
    <3> QED BY <3>1, <3>2, <3>3
  <2>2. \A d, e \in Clients : d # e /\ _socket'[d] # None => _socket'[d] # _socket'[e]
    BY <1>2, <1>4 DEF OwnInv
  <2> QED BY <2>1, <2>2 DEF OwnInv
<1> QED BY <1>5, <1>6, <1>7, <1>8 DEF HostOk

-----------------------------------------------------------------------------
(* Which steps are ordinary                                                  *)

\* A call of recv(), by a handler or by socketBufferRead
LEMMA RecvServes ==
  ASSUME IInv, NEW s \in Socks, NEW k, NEW at, RecvDone(k, s, at),
         \A t \in Socks : t # s => k[t] = gastrSockets[t],
         k[s].used = gastrSockets[s].used, k[s].session = gastrSockets[s].session,
         ~k[s].pending => ~gastrSockets[s].pending \/ Reply(s),
         misconnected \subseteq misconnected',
         \A x \in Sessions : Has(s, x) => chip[x].phase # "connecting" \/ s \in misconnected',
         UNCHANGED <<gu16SessionID, opened, orphaned>>, SameLine
  PROVE  Serves(s)
<1>1. \A x \in Sessions : Has(s, x) =>
         /\ chip[x].phase \in {"connecting", "open", "closed"}
         /\ chip[x].phase \in {"open", "closed"} \/ s \in misconnected'
  BY DEF IInv, ChipInv
<1>2. \A t \in Socks : /\ gastrSockets'[t].used = gastrSockets[t].used
                       /\ gastrSockets'[t].session = gastrSockets[t].session
                       /\ t # s => gastrSockets'[t] = gastrSockets[t]
  BY DEF RecvDone
<1>3. ~gastrSockets'[s].pending => ~gastrSockets[s].pending \/ Reply(s)
  BY DEF RecvDone
<1>4. \A x \in Sessions :
       /\ chip'[x].s = chip[x].s /\ chip'[x].phase = chip[x].phase
       /\ \/ chip'[x].asked = chip[x].asked
          \/ /\ Has(s, x) /\ chip[x].phase # "closed" /\ chip'[x].asked = chip[x].asked + 1
             /\ chip[x].phase = "open" \/ s \in misconnected'
             /\ gastrSockets'[s].pending /\ (~gastrSockets[s].pending \/ Reply(s))
       /\ chip'[x].made = chip[x].made
  BY <1>1 DEF RecvDone, Has, Used, Session
<1> QED BY <1>2, <1>3, <1>4 DEF Serves

\* A step without such a call
LEMMA StillServes ==
  ASSUME NEW s \in Socks, UNCHANGED <<sockVars, opened, orphaned>>, SameLine,
         misconnected \subseteq misconnected',
         \A x \in Sessions : /\ chip'[x].s = chip[x].s /\ chip'[x].phase = chip[x].phase
                             /\ chip'[x].asked = chip[x].asked /\ chip'[x].made = chip[x].made
  PROVE  Serves(s)
BY DEF Serves, sockVars

\* The socket of a connect() that waits, if s is not it, is as it was.
LEMMA NewStays ==
  ASSUME IInv, NEW s \in Socks, Serves(s),
         \A t \in Socks : t # s => gastrSocketBuffer'[t] = gastrSocketBuffer[t],
         NEW x \in Sessions, NEW t \in Socks, t # s, AsNew(t, x)
  PROVE  AsNew(t, x)'
<1>1. gastrSockets'[t] = gastrSockets[t] /\ gastrSocketBuffer'[t] = gastrSocketBuffer[t]
  BY DEF Serves
<1> QED BY <1>1 DEF AsNew, Has, Used, Session

LEMMA SameOrdinary ==
  ASSUME IInv, \/ Same /\ \E q, c : Moves(q, c)
               \/ PacketUnreadDone
  PROVE  \E s \in Socks : \E q, c : Ordinary(s, q, c)
<1>1. PICK q, c : Moves(q, c)
  <2>1. CASE PacketUnreadDone
    BY <2>1, SteadyMoves DEF PacketUnreadDone, IInv
  <2> QED BY <2>1
<1>2. /\ UNCHANGED <<sockVars, gastrSocketBuffer, _socket, chip, own, opened, orphaned, waited, misconnected,
                  ended>>
      /\ SameLine
  BY DEF Same, PacketUnreadDone, SameLine, histVars
<1>3. 1 \in Socks
  BY Bounds DEF Socks
<1>4. Serves(1)
  BY <1>2, <1>3, StillServes
<1>5. \A t \in Socks, x \in Sessions : AsNew(t, x) => AsNew(t, x)'
  BY <1>2 DEF AsNew, Has, Used, Session, sockVars
<1> QED BY <1>1, <1>2, <1>3, <1>4, <1>5 DEF Ordinary, Flag

LEMMA CbSendOrdinary ==
  ASSUME IInv, NEW s \in Socks, CbSendDone(s)
  PROVE  \E q, c : Ordinary(s, q, c)
<1>1. Moves(Point, cur)
  BY SteadyMoves DEF CbSendDone, TakesHead, IInv
<1>2. /\ UNCHANGED <<sockVars, _socket, chip, own, opened, orphaned, waited, misconnected, ended>>
      /\ SameLine
  BY DEF CbSendDone, TakesHead, SameLine, histVars
<1>3. Serves(s)
  BY <1>2, StillServes
<1>4. \A t \in Socks : /\ Contents(t)
                       /\ t # s => gastrSocketBuffer'[t] = gastrSocketBuffer[t]
  BY DEF CbSendDone
<1>5. \/ gastrSocketBuffer'[s].flag = gastrSocketBuffer[s].flag \ {"sending"}
      \/ gastrSocketBuffer'[s].flag = gastrSocketBuffer[s].flag
  BY DEF CbSendDone
<1>6. ASSUME NEW x \in Sessions, NEW t \in Socks, AsNew(t, x) PROVE AsNew(t, x)'
  <2>1. CASE t = s
    <3>1. gastrSocketBuffer[s].flag = {"connecting"}
      BY <1>6, <2>1 DEF AsNew
    <3>2. gastrSocketBuffer'[s].flag = {"connecting"}
      BY <1>5, <3>1
    <3> QED BY <1>2, <1>4, <1>6, <2>1, <3>2 DEF AsNew, Has, Used, Session, sockVars, Contents
  <2>2. CASE t # s
    BY <1>3, <1>4, <1>6, <2>2, NewStays
  <2> QED BY <2>1, <2>2
<1>7. \A t \in Socks : /\ gastrSocketBuffer[t].alloc => gastrSocketBuffer'[t].alloc
                       /\ Flag("connected", t) => Flag("connected", t)'
  BY <1>4, <1>5 DEF Contents, Flag
<1> QED BY <1>1, <1>2, <1>3, <1>6, <1>7 DEF Ordinary

\* The session that an answer to a CONNECT is for waits no longer.
LEMMA CbConnectFacts ==
  ASSUME IInv, NEW s \in Socks, NEW x \in Sessions, CbConnectDone(s, x)
  PROVE  /\ SameLine /\ Connecting(x) /\ ~Connecting(x)' /\ chip[x].phase # "connecting"
         /\ misconnected \subseteq misconnected'
         /\ \/ ~Used(s)
            \/ s \in misconnected'
            \/ Has(s, x) /\ s \notin misconnected'
         /\ ~Head(line).ok => chip[x].phase = "closed"
<1>2. /\ line # <<>> /\ line' = Tail(line) /\ SameLine /\ Head(line).k = "connect"
      /\ s = Head(line).s /\ x = Head(line).x
  BY DEF CbConnectDone, TakesHead, SameLine
<1>3. /\ 1 \in 1..Len(line) /\ Head(line) = line[1] /\ Len(line) \in Nat
      /\ \A i \in 1..Len(line') : i + 1 \in 1..Len(line) /\ line'[i] = line[i + 1]
  BY <1>2, LineTail, SessionFacts
<1>c. Coming("connect", x)
  BY <1>2, <1>3 DEF Coming
<1>4. Connecting(x)
  BY <1>c DEF Connecting
<1>5. chip[x].phase # "connecting"
  BY <1>c DEF IInv, ConnectInv
<1>6. ASSUME Connecting(x)' PROVE FALSE
  <2>1. chip'[x].phase # "connecting"
    BY <1>5 DEF CbConnectDone, RecvDone
  <2>2. PICK i \in 1..Len(line') : line'[i].k = "connect" /\ line'[i].x = x
    BY <1>6, <2>1 DEF Connecting, Coming
  <2>3. i + 1 = 1
    BY <1>2, <1>3, <2>2 DEF IInv, ConnectInv
  <2> QED BY <1>3, <2>2, <2>3
<1>7. /\ misconnected \subseteq misconnected'
      /\ Session(s) \in {0, x} \/ s \in misconnected'
  BY DEF CbConnectDone
<1>8. Session(s) = 0 => ~Used(s)
  BY DEF IInv, SessionInv
<1>9. Session(s) = x => Used(s)
  BY Bounds DEF IInv, SessionInv, Sessions
<1>10. ~Head(line).ok => chip[x].phase = "closed"
  BY <1>2, <1>3 DEF IInv, ConnectInv
<1> QED BY <1>2, <1>4, <1>5, <1>6, <1>7, <1>8, <1>9, <1>10 DEF Has

LEMMA CbConnectOrdinary ==
  ASSUME IInv, NEW s \in Socks, NEW x \in Sessions, CbConnectDone(s, x)
  PROVE  \E q, c : Ordinary(s, q, c)
<1>1. Moves(Point, cur)
  BY SteadyMoves DEF CbConnectDone, TakesHead, IInv
<1>2. UNCHANGED <<gu16SessionID, _socket, own, opened, orphaned, waited, ended>>
  BY DEF CbConnectDone
<1>3. /\ SameLine /\ Connecting(x) /\ ~Connecting(x)' /\ chip[x].phase # "connecting"
      /\ misconnected \subseteq misconnected'
      /\ ~Used(s) \/ s \in misconnected' \/ (Has(s, x) /\ s \notin misconnected')
  BY CbConnectFacts
<1>4. Serves(s)
  <2>1. CASE RecvDone(gastrSockets, s, Start(s))
    <3>1. \A y \in Sessions : Has(s, y) => chip[y].phase # "connecting" \/ s \in misconnected'
      BY <1>3 DEF Has
    <3> QED BY <1>2, <1>3, <2>1, <3>1, RecvServes
  <2>2. CASE UNCHANGED <<gastrSockets, chip, faults>>
    BY <1>2, <1>3, <2>2, StillServes DEF sockVars
  <2> QED BY <2>1, <2>2 DEF CbConnectDone
<1>5. \A t \in Socks : Contents(t) /\ (t # s => gastrSocketBuffer'[t] = gastrSocketBuffer[t])
  BY DEF CbConnectDone
<1>6. ASSUME NEW t \in Socks, Used(t), t \notin Astray'
      PROVE  /\ gastrSocketBuffer[t].alloc => gastrSocketBuffer'[t].alloc
             /\ Flag("connected", t) => Flag("connected", t)'
  <2>1. ASSUME t = s PROVE ~Flag("connected", t)
    <3>1. Has(s, x) /\ s \notin misconnected
      BY <1>3, <1>6, <2>1 DEF Astray
    <3>2. AsNew(s, x)
      BY <1>3, <3>1, Waiting
    <3> QED BY <2>1, <3>2 DEF AsNew, Flag
  <2> QED BY <1>5, <2>1 DEF Contents, Flag
<1>7. ASSUME NEW y \in Sessions, NEW t \in Socks \ misconnected', AsNew(t, y), Connecting(y)'
      PROVE  AsNew(t, y)'
  <2>1. t # s
    BY <1>3, <1>7 DEF AsNew, Has
  <2> QED BY <1>4, <1>5, <1>7, <2>1, NewStays
<1> QED BY <1>1, <1>2, <1>4, <1>6, <1>7 DEF Ordinary

\* Data are stored, and the next are asked for or the buffer is full.
LEMMA DataOrdinary ==
  ASSUME IInv, NEW s \in Socks, Readable(s), Goes(Point, cur),
         UNCHANGED <<gu16SessionID, _socket, own, opened, orphaned, waited, misconnected>>,
         ended => ended', SameLine,
         NEW k, NEW b, NEW chunk, NEW more, Stored(b, s, chunk), CbRecvDone(k, b, s, Len(chunk), more),
         \A t \in Socks : t # s => k[t] = gastrSockets[t],
         k[s].used = gastrSockets[s].used, k[s].session = gastrSockets[s].session,
         ~k[s].pending => ~gastrSockets[s].pending \/ Reply(s)
  PROVE  \E q, c : Ordinary(s, q, c)
<1>1. Moves(Point, cur)
  BY SteadyMoves DEF IInv
<1>2. \A x \in Sessions : ~AsNew(s, x)
  BY DEF AsNew, Readable
<1>3. ASSUME NEW x \in Sessions, Has(s, x)
      PROVE  chip[x].phase # "connecting" \/ s \in misconnected
  BY <1>2, <1>3, Waiting DEF Connecting
<1>4. Serves(s)
  <2>1. PICK at : RecvDone(k, s, at)
    BY DEF CbRecvDone
  <2> QED BY <1>3, <2>1, RecvServes
<1>5. /\ \A t \in Socks : t # s => gastrSocketBuffer'[t] = gastrSocketBuffer[t]
      /\ gastrSocketBuffer'[s].alloc = gastrSocketBuffer[s].alloc
      /\ gastrSocketBuffer[s].flag \subseteq gastrSocketBuffer'[s].flag
  BY DEF CbRecvDone, Stored
<1>6. \A x \in Sessions, t \in Socks : AsNew(t, x) => AsNew(t, x)'
  BY <1>2, <1>4, <1>5, NewStays
<1>7. \A t \in Socks : /\ gastrSocketBuffer[t].alloc => gastrSocketBuffer'[t].alloc
                       /\ Flag("connected", t) => Flag("connected", t)'
  BY <1>5 DEF Flag
<1> QED BY <1>1, <1>4, <1>6, <1>7 DEF Ordinary

LEMMA RecvReplyOrdinary ==
  ASSUME IInv, NEW s \in Socks, NEW x \in Sessions, RecvReplyDone(s, x), ~ReplyEof(s, x)
  PROVE  \E q, c : Ordinary(s, q, c)
<1>1. /\ UNCHANGED <<gu16SessionID, _socket, own, opened, orphaned, waited, misconnected>>
      /\ (ended => ended')
      /\ SameLine /\ Reply(s) /\ Goes(Point, cur)
  BY DEF RecvReplyDone, TakesHead, SameLine, Reply, ReplyNoData, ReplyData
<1>2. /\ \A t \in Socks : t # s => Reset(s)[t] = gastrSockets[t]
      /\ Reset(s)[s].used = gastrSockets[s].used
      /\ Reset(s)[s].session = gastrSockets[s].session
      /\ Reset(s)[s].user = gastrSockets[s].user /\ Reset(s)[s].pending = FALSE
  BY ResetEffect, SessionFacts DEF AllTypes
<1>3. CASE ReplyData(s, x)
  <2>1. PICK b, chunk, more : Stored(b, s, chunk) /\ CbRecvDone(Reset(s), b, s, Len(chunk), more)
    BY <1>3 DEF ReplyData
  <2>2. Readable(s)
    BY <1>3 DEF ReplyData
  <2> HIDE DEF Reset
  <2> QED BY <1>1, <1>2, <2>1, <2>2, DataOrdinary
<1>4. CASE ReplyNoData(s, x)
  <2>1. UNCHANGED <<gastrSocketBuffer, chip>> /\ gastrSockets' = Reset(s)
    BY <1>4 DEF ReplyNoData
  <2>2. Moves(Point, cur)
    BY <1>1, SteadyMoves DEF IInv
  <2>3. Serves(s)
    <3> HIDE DEF Reset
    <3> QED BY <1>1, <1>2, <2>1 DEF Serves
  <2>4. ASSUME NEW y \in Sessions, NEW t \in Socks, AsNew(t, y) PROVE AsNew(t, y)'
    <3>1. /\ gastrSockets'[t].used = gastrSockets[t].used
          /\ gastrSockets'[t].session = gastrSockets[t].session
          /\ gastrSockets'[t].user = gastrSockets[t].user
          /\ ~gastrSockets[t].pending => ~gastrSockets'[t].pending
      BY <1>2, <2>1
    <3> QED BY <2>1, <2>4, <3>1 DEF AsNew, Has, Used, Session
  <2> QED BY <1>1, <2>1, <2>2, <2>3, <2>4 DEF Ordinary, Flag
<1> QED BY <1>3, <1>4 DEF RecvReplyDone

LEMMA SmallChunkOrdinary ==
  ASSUME IInv, NEW s \in Socks, SmallChunkDone(s)
  PROVE  \E q, c : Ordinary(s, q, c)
<1>1. /\ UNCHANGED <<gu16SessionID, _socket, own, opened, orphaned, waited, misconnected, ended>>
      /\ SameLine /\ Goes(Point, cur)
  BY DEF SmallChunkDone, SameLine, histVars
<1>2. CASE UNCHANGED <<gastrSockets, gastrSocketBuffer, chip>>
  <2>1. Moves(Point, cur)
    BY <1>1, SteadyMoves DEF IInv
  <2>2. Serves(s)
    BY <1>1, <1>2, StillServes DEF sockVars
  <2>3. \A y \in Sessions, t \in Socks : AsNew(t, y) => AsNew(t, y)'
    BY <1>2 DEF AsNew, Has, Used, Session
  <2> QED BY <1>1, <1>2, <2>1, <2>2, <2>3 DEF Ordinary, Flag
<1>3. ASSUME Readable(s), NEW b, NEW chunk, NEW more, Stored(b, s, chunk),
             CbRecvDone(gastrSockets, b, s, Len(chunk), more)
      PROVE  \E q, c : Ordinary(s, q, c)
  BY <1>1, <1>3, DataOrdinary
<1> QED BY <1>2, <1>3 DEF SmallChunkDone

\* Nobody waits for an answer to a CONNECT but connect().
LEMMA NoneWaits ==
  ASSUME IInv, Point # "connWait"
  PROVE  \A s \in Socks, x \in Sessions : Has(s, x) /\ Connecting(x) => s \in misconnected
BY Waiting

LEMMA ReadOrdinary ==
  ASSUME IInv, NEW s \in Socks, NEW n, ReadDone(s, n), Point # "connWait", NEW q, NEW c, Moves(q, c)
  PROVE  Ordinary(s, q, c)
<1>1. \A t \in Socks, x \in Sessions : Has(t, x) /\ Connecting(x) => t \in misconnected
  BY NoneWaits
<1>2. UNCHANGED <<gu16SessionID, _socket, own, opened, orphaned, waited, misconnected, ended>>
      /\ SameLine
  BY DEF ReadDone, SameLine
<1>3. Serves(s)
  <2>1. CASE RecvDone(gastrSockets, s, Start(s))
    BY <1>1, <1>2, <2>1, RecvServes DEF Connecting
  <2>2. CASE UNCHANGED <<gastrSockets, chip, faults>>
    BY <1>2, <2>2, StillServes DEF sockVars
  <2> QED BY <2>1, <2>2 DEF ReadDone, BufferReadDone
<1>4. \A x \in Sessions, t \in Socks \ misconnected' : ~(AsNew(t, x) /\ Connecting(x)')
  BY <1>1, <1>2, <1>3, StillConnecting DEF Serves, AsNew
<1>5. \A t \in Socks : /\ gastrSocketBuffer[t].alloc => gastrSocketBuffer'[t].alloc
                       /\ Flag("connected", t) => Flag("connected", t)'
  <2>1. /\ \A t \in Socks : t # s => gastrSocketBuffer'[t] = gastrSocketBuffer[t]
        /\ gastrSocketBuffer'[s].alloc = gastrSocketBuffer[s].alloc
        /\ Flag("connected", s) => Flag("connected", s)'
    BY DEF ReadDone, BufferReadDone, Flag
  <2> QED BY <2>1 DEF Flag
<1> QED BY <1>2, <1>3, <1>4, <1>5 DEF Ordinary

LEMMA SendOrdinary ==
  ASSUME IInv, NEW s \in Socks, SendDone(s), Point # "connWait", NEW q, NEW c, Moves(q, c)
  PROVE  Ordinary(s, q, c)
<1>1. \A t \in Socks, x \in Sessions : Has(t, x) /\ Connecting(x) => t \in misconnected
  BY NoneWaits
<1>2. UNCHANGED <<sockVars, _socket, own, opened, orphaned, misconnected, ended>> /\ SameLine
  BY DEF SendDone, SameLine
<1>3. Serves(s)
  BY <1>2, StillServes DEF SendDone
<1>4. \A x \in Sessions, t \in Socks \ misconnected' : ~(AsNew(t, x) /\ Connecting(x)')
  BY <1>1, <1>2, <1>3, StillConnecting DEF Serves, AsNew
<1>5. /\ waited \subseteq waited'
      /\ \A t \in Socks : /\ gastrSocketBuffer[t].alloc => gastrSocketBuffer'[t].alloc
                          /\ Flag("connected", t) => Flag("connected", t)' \/ t \in waited'
  <2>1. \A t \in Socks : Contents(t) /\ (t # s => gastrSocketBuffer'[t] = gastrSocketBuffer[t])
    BY DEF SendDone
  <2>2. \/ gastrSocketBuffer' = gastrSocketBuffer /\ waited' = waited
        \/ waited' = waited \cup {s}
    BY DEF SendDone
  <2> QED BY <2>1, <2>2 DEF Contents, Flag
<1> QED BY <1>2, <1>3, <1>4, <1>5 DEF Ordinary, Astray

-----------------------------------------------------------------------------
(* The steps that are not ordinary                                           *)

\* A call of close()
LEMMA CloseCloses ==
  ASSUME IInv, NEW s \in Socks, NEW k, CloseDone(k, s),
         \A t \in Socks : t # s => k[t] = gastrSockets[t],
         k[s].used = gastrSockets[s].used, k[s].session = gastrSockets[s].session,
         UNCHANGED <<gu16SessionID, opened, misconnected>>, SameLine
  PROVE  Closes({s})
<1>1. ~gastrSockets'[s].used /\ gastrSockets'[s].session = 0
  <2>1. ~Used(s) => Session(s) = 0
    BY DEF IInv, SessionInv
  <2> QED BY <2>1 DEF CloseDone, Used, Session, Unused
<1>2. Used(s) => Session(s) \in Sessions
  BY SessionFacts
<1>3. \A x \in Sessions :
       /\ chip'[x].s = chip[x].s /\ chip'[x].asked = chip[x].asked
       /\ chip'[x].made = chip[x].made
       /\ chip'[x].phase = chip[x].phase \/ (Shutting(x) /\ Has(s, x))
       /\ Has(s, x) /\ ~orphaned' => chip'[x].phase \notin {"open", "connecting"}
  BY DEF CloseDone, Has, Used, Session
<1> QED BY <1>1, <1>2, <1>3 DEF Closes, CloseDone

\* What closed sockets leave to the others
LEMMA ClosesFacts ==
  ASSUME IInv, NEW S \in SUBSET Socks, Closes(S)
  PROVE  /\ \A t \in Socks : Used(t)' => Used(t) /\ t \notin S
         /\ \A t \in Socks \ S : /\ gastrSockets'[t] = gastrSockets[t]
                                 /\ \A x : Has(t, x)' <=> Has(t, x)
         /\ \A x \in Sessions : /\ chip'[x].phase \in {"connecting", "aborting"} =>
                                     chip[x].phase \in {"connecting", "aborting"}
                                /\ chip[x].phase = "closed" => chip'[x].phase = "closed"
                                /\ chip'[x].asked = chip[x].asked
         /\ \A x \in Sessions : Connecting(x)' => Connecting(x)
         /\ SameLine /\ misconnected' = misconnected
<1>1. /\ \A x \in Sessions : /\ chip'[x].phase \in {"connecting", "aborting"} =>
                                  chip[x].phase \in {"connecting", "aborting"}
                             /\ chip'[x].phase = "connecting" => chip[x].phase = "connecting"
                             /\ chip[x].phase = "closed" => chip'[x].phase = "closed"
                             /\ chip'[x].asked = chip[x].asked
      /\ SameLine
  BY DEF Closes, Shutting
<1>2. \A x \in Sessions : Connecting(x)' => Connecting(x)
  BY <1>1, StillConnecting
<1> QED BY <1>1, <1>2 DEF Closes, Used, Session, Has

\* After the sockets in S are closed, nobody waits who did not before.
LEMMA ClosesWaits ==
  ASSUME IInv, NEW S \in SUBSET Socks, Closes(S), NEW s \in Socks, NEW x \in Sessions,
         Has(s, x)', s \notin misconnected', Connecting(x)'
  PROVE  s \notin S /\ Waits(s, x) /\ Has(s, x)
<1>1. s \notin S /\ Has(s, x) /\ s \notin misconnected /\ Connecting(x)
  BY ClosesFacts DEF Has
<1> QED BY <1>1, Waiting

LEMMA EofSteps ==
  ASSUME IInv, ControlTypes', NEW s \in Socks, NEW x \in Sessions, RecvReplyDone(s, x), ReplyEof(s, x)
  PROVE  HostOk' /\ SessionsOk'
<1>1. /\ UNCHANGED <<gu16SessionID, _socket, own, opened, waited, misconnected>> /\ ended'
      /\ line # <<>> /\ line' = Tail(line) /\ SameLine /\ Goes(Point, cur)
      /\ Head(line).k = "recv" /\ Head(line).s = s /\ Head(line).x = x /\ x = Session(s)
  BY DEF RecvReplyDone, TakesHead, SameLine, ReplyEof, Session
<1>2. Closes({s})
  <2>1. /\ \A t \in Socks : t # s => Reset(s)[t] = gastrSockets[t]
        /\ Reset(s)[s].used = gastrSockets[s].used
        /\ Reset(s)[s].session = gastrSockets[s].session
    BY ResetEffect, SessionFacts DEF AllTypes
  <2>2. CloseDone(Reset(s), s)
    BY DEF ReplyEof
  <2> HIDE DEF Reset
  <2> QED BY <1>1, <2>1, <2>2, CloseCloses
<1>3. /\ \A t \in Socks : gastrSocketBuffer'[t].alloc = gastrSocketBuffer[t].alloc
      /\ \A t \in Socks : t # s => gastrSocketBuffer'[t] = gastrSocketBuffer[t]
  BY DEF ReplyEof, Contents
<1>4. /\ Point \in Points \ {"events", "small"} /\ Point' = Point
      /\ Point # "idle" => cur' = cur /\ cur \in Clients
  BY <1>1 DEF Goes, IInv, ControlInv
<1>5. ControlInv'
  BY <1>1, <1>4 DEF IInv, ControlInv, Flushing
<1>6. ConnectInv'
  <2>1. ASSUME NEW t \in Socks, NEW y \in Sessions, Has(t, y)', t \notin misconnected', Connecting(y)'
        PROVE  Waits(t, y)'
    <3>1. t # s /\ Waits(t, y)
      BY <1>2, <2>1, ClosesWaits
    <3>2. AsNew(t, y)'
      <4>1. gastrSockets'[t] = gastrSockets[t] /\ gastrSocketBuffer'[t] = gastrSocketBuffer[t]
        BY <1>2, <1>3, <3>1, ClosesFacts
      <4> QED BY <3>1, <4>1 DEF Waits, AsNew, Has, Used, Session
    <3>3. chip'[y].asked = 0 /\ ~Coming("recv", y)'
      BY <1>1, <1>2, <3>1, Shorter, ClosesFacts DEF Waits
    <3> QED BY <1>1, <1>4, <3>1, <3>2, <3>3 DEF Waits
  <2> QED BY <1>2, <2>1, ClosesFacts, ConnectRest
<1>7. LiveInv'
  <2>1. \A t \in Socks : Used(t)' => Used(t) /\ gastrSocketBuffer'[t] = gastrSocketBuffer[t]
    BY <1>2, <1>3, ClosesFacts
  <2>2. Flushing' <=> Flushing
    BY <1>4 DEF Flushing
  <2>3. Flushing => cur' = cur
    BY <1>4 DEF Flushing
  <2>4. Point = "connWait" => cur' = cur
    BY <1>4
  <2> QED BY <1>1, <1>4, <2>1, <2>2, <2>3, <2>4 DEF IInv, LiveInv, Astray
<1>8. OwnInv'
  BY <1>1 DEF OwnInv
<1> QED BY <1>2, <1>5, <1>6, <1>7, <1>8, ClosesSessions DEF HostOk

\* The loss of the access point closes every socket.
LEMMA ApDisconnectedCloses ==
  ASSUME IInv, ApDisconnectedDone
  PROVE  Closes(Socks) /\ \A s \in Socks : ~Used(s)'
<1>1. \A s \in Socks : ~gastrSockets'[s].used /\ gastrSockets'[s].session = 0
  BY DEF ApDisconnectedDone, Unused
<1>2. /\ UNCHANGED <<gu16SessionID, opened, misconnected>> /\ SameLine /\ (orphaned => orphaned')
      /\ \A t \in Socks \ Socks : gastrSockets'[t] = gastrSockets[t]
  BY DEF ApDisconnectedDone, SameLine
<1>3. ASSUME NEW x \in Sessions
      PROVE  /\ chip'[x].s = chip[x].s /\ chip'[x].asked = chip[x].asked
             /\ chip'[x].made = chip[x].made
             /\ \/ chip'[x].phase = chip[x].phase
                \/ Shutting(x) /\ \E s \in Socks : Has(s, x)
             /\ (\E s \in Socks : Has(s, x)) /\ ~orphaned' =>
                  chip'[x].phase \notin {"open", "connecting"}
  BY DEF ApDisconnectedDone, Has
<1> QED BY <1>1, <1>2, <1>3 DEF Closes, Used

LEMMA ApDisconnectedSteps ==
  ASSUME IInv, ApDisconnectedDone
  PROVE  HostOk' /\ SessionsOk'
<1>1. /\ Goes(Point, cur) /\ ended' /\ _socket' = _socket
      /\ Closes(Socks) /\ \A s \in Socks : ~Used(s)'
  BY ApDisconnectedCloses DEF ApDisconnectedDone
<1>2. /\ Point \in Points \ {"events", "small"} /\ Point' = Point
      /\ Point # "idle" => cur' = cur /\ cur \in Clients
  BY <1>1 DEF Goes, IInv, ControlInv
<1>3. ControlInv'
  BY <1>1, <1>2 DEF IInv, ControlInv, Flushing
<1>4. ConnectInv'
  <2>1. \A s \in Socks, x \in Sessions : ~Has(s, x)'
    BY <1>1 DEF Has
  <2> QED BY <1>1, <2>1, ClosesFacts, ConnectRest
<1>5. LiveInv'
  BY <1>1 DEF LiveInv
<1>6. OwnInv'
  BY <1>1 DEF OwnInv
<1> QED BY <1>1, <1>3, <1>4, <1>5, <1>6, ClosesSessions DEF HostOk

LEMMA ConnectLostSteps ==
  ASSUME IInv, NEW s \in Socks, ConnectLost(s)
  PROVE  HostOk' /\ SessionsOk'
<1>1. /\ UNCHANGED <<gu16SessionID, line, own, opened, waited, misconnected, ended>> /\ SameLine
      /\ Point = "connWait" /\ cur \in Clients /\ s = _socket[cur] /\ ~Flag("connecting", s)
      /\ Goes("idle", cur) /\ CloseDone(gastrSockets, s)
      /\ \A d \in Clients : _socket'[d] = IF d = cur THEN None ELSE _socket[d]
      /\ \A t \in Socks : t # s => gastrSocketBuffer'[t] = gastrSocketBuffer[t]
  BY DEF ConnectLost, SameLine, Dropped, OthersKept
<1>2. Closes({s})
  BY <1>1, CloseCloses
<1>3. Point' = "idle" /\ ~Flushing' /\ ~Flushing
  BY <1>1 DEF Goes, Flushing
<1>4. ControlInv'
  BY <1>3 DEF ControlInv
<1>5. ConnectInv'
  <2>1. \A t \in Socks, x \in Sessions :
          ~(Has(t, x)' /\ t \notin misconnected' /\ Connecting(x)')
    BY <1>1, <1>2, ClosesWaits DEF Waits
  <2> QED BY <1>2, <2>1, ClosesFacts, ConnectRest
<1>6. LiveInv'
  <2>1. \A t \in Socks : Used(t)' => t # s /\ Used(t) /\ gastrSocketBuffer'[t] = gastrSocketBuffer[t]
    BY <1>1, <1>2, ClosesFacts
  <2>2. \A t \in Socks : Used(t)' => t \in Astray \/ \E d \in Clients : _socket'[d] = t
    BY <1>1, <2>1 DEF IInv, LiveInv
  <2> QED BY <1>1, <1>3, <2>1, <2>2 DEF IInv, LiveInv, Astray
<1>7. OwnInv'
  <2> SUFFICES ASSUME ~ended PROVE OwnInv'
    BY <1>1 DEF OwnInv
  <2>1. /\ \A c \in Clients, t \in Socks : _socket[c] = t => Has(t, own[c])
        /\ \A c, d \in Clients : c # d /\ _socket[c] # None => _socket[c] # _socket[d]
    BY <1>3 DEF IInv, OwnInv
  <2>2. None \notin Socks
    BY Bounds DEF None, Socks
  <2>3. ASSUME NEW c \in Clients, NEW t \in Socks, _socket'[c] = t PROVE Has(t, own[c])'
    <3>1. c # cur /\ _socket[c] = t
      BY <1>1, <2>2, <2>3
    <3>2. t # s
      BY <1>1, <2>1, <2>2, <3>1
    <3>3. Has(t, own[c])
      BY <2>1, <3>1
    <3>4. gastrSockets'[t] = gastrSockets[t]
      BY <1>2, <3>2, ClosesFacts
    <3> QED BY <1>1, <3>3, <3>4 DEF Has, Used, Session
  <2>4. \A c, d \in Clients : c # d /\ _socket'[c] # None => _socket'[c] # _socket'[d]
    BY <1>1, <2>1
  <2> QED BY <2>3, <2>4 DEF OwnInv
<1> QED BY <1>2, <1>4, <1>5, <1>6, <1>7, ClosesSessions DEF HostOk

LEMMA StopSteps ==
  ASSUME IInv, NEW c \in Clients, NEW s \in Socks, StopDone(c, s)
  PROVE  HostOk' /\ SessionsOk'
<1>1. /\ UNCHANGED <<gu16SessionID, gastrSocketBuffer, _socket, line, own, opened, waited,
                     misconnected, ended>>
      /\ SameLine /\ Point = "idle" /\ s = _socket[c] /\ Goes("flush", c)
      /\ CloseDone(gastrSockets, s)
  BY DEF StopDone, SameLine
<1>2. Closes({s})
  BY <1>1, CloseCloses
<1>3. Point' = "flush" /\ cur' = c /\ Flushing' /\ ~Flushing
  BY <1>1 DEF Goes, Flushing
<1>4. ControlInv'
  BY <1>1, <1>3 DEF ControlInv
<1>5. ConnectInv'
  <2>1. \A t \in Socks, x \in Sessions :
          ~(Has(t, x)' /\ t \notin misconnected' /\ Connecting(x)')
    BY <1>1, <1>2, ClosesWaits DEF Waits
  <2> QED BY <1>2, <2>1, ClosesFacts, ConnectRest
<1>6. LiveInv'
  <2>1. \A t \in Socks : Used(t)' => t # s /\ Used(t)
    BY <1>2, ClosesFacts
  <2> QED BY <1>1, <1>3, <2>1 DEF IInv, LiveInv, Astray
<1>7. OwnInv'
  <2> SUFFICES ASSUME ~ended PROVE OwnInv'
    BY <1>1 DEF OwnInv
  <2>1. /\ \A d \in Clients, t \in Socks : _socket[d] = t => Has(t, own[d])
        /\ \A d, e \in Clients : d # e /\ _socket[d] # None => _socket[d] # _socket[e]
    BY <1>3 DEF IInv, OwnInv
  <2>2. None \notin Socks
    BY Bounds DEF None, Socks
  <2>3. ASSUME NEW d \in Clients, d # c, NEW t \in Socks, _socket'[d] = t PROVE Has(t, own[d])'
    <3>1. t # s /\ Has(t, own[d])
      BY <1>1, <2>1, <2>2, <2>3
    <3>2. gastrSockets'[t] = gastrSockets[t]
      BY <1>2, <3>1, ClosesFacts
    <3> QED BY <1>1, <3>1, <3>2 DEF Has, Used, Session
  <2> QED BY <1>1, <1>3, <2>1, <2>3 DEF OwnInv
<1> QED BY <1>2, <1>4, <1>5, <1>6, <1>7, ClosesSessions DEF HostOk

LEMMA FlushEndSteps ==
  ASSUME IInv, NEW s \in Socks, FlushEndDone(s)
  PROVE  HostOk' /\ SessionsOk'
<1>1. /\ UNCHANGED <<sockVars, chip, line, own, opened, orphaned, waited, misconnected, ended>>
      /\ SameLine
      /\ Point = "flushCheck" /\ cur \in Clients /\ s = _socket[cur] /\ Goes("idle", cur)
      /\ \A d \in Clients : _socket'[d] = IF d = cur THEN None ELSE _socket[d]
      /\ \A t \in Socks : t # s => gastrSocketBuffer'[t] = gastrSocketBuffer[t]
  BY DEF FlushEndDone, SameLine, Dropped, OthersKept, histVars
<1>2. SessionsOk'
  <2>1. Serves(s)
    BY <1>1, StillServes
  <2> QED BY <2>1, ServesSessions
<1>3. Point' = "idle" /\ ~Flushing' /\ Flushing
  BY <1>1 DEF Goes, Flushing
<1>u. \A t \in Socks : (Used(t)' <=> Used(t)) /\ \A x : Has(t, x)' <=> Has(t, x)
  BY <1>1 DEF Used, Has, Session, sockVars
<1>4. ControlInv'
  BY <1>3 DEF ControlInv
<1>5. ConnectInv'
  <2>1. \A t \in Socks, x \in Sessions : Has(t, x) /\ Connecting(x) => t \in misconnected
    BY <1>1, NoneWaits
  <2>2. \A x \in Sessions : Connecting(x)' <=> Connecting(x)
    BY <1>1 DEF Connecting, Coming
  <2> QED BY <1>1, <1>u, <2>1, <2>2, ConnectRest
<1>6. LiveInv'
  <2>1. \A t \in Socks : Used(t) /\ t \notin Astray => t # s
    BY <1>1, <1>3 DEF IInv, LiveInv
  <2>2. \A t \in Socks : Used(t)' => t \in Astray \/ \E d \in Clients : _socket'[d] = t
    BY <1>1, <1>u, <2>1 DEF IInv, LiveInv
  <2> QED BY <1>1, <1>3, <1>u, <2>1, <2>2 DEF IInv, LiveInv, Astray
<1>7. OwnInv'
  <2> SUFFICES ASSUME ~ended PROVE OwnInv'
    BY <1>1 DEF OwnInv
  <2>1. /\ \A c \in Clients, t \in Socks : _socket[c] = t => Has(t, own[c]) \/ c = cur
        /\ \A c, d \in Clients : c # d /\ _socket[c] # None => _socket[c] # _socket[d]
    BY DEF IInv, OwnInv
  <2>2. None \notin Socks
    BY Bounds DEF None, Socks
  <2>3. ASSUME NEW c \in Clients, NEW t \in Socks, _socket'[c] = t PROVE Has(t, own[c])'
    <3>1. Has(t, own[c])
      BY <1>1, <2>1, <2>2, <2>3
    <3> QED BY <1>1, <3>1 DEF Has, Used, Session, sockVars
  <2>4. \A c, d \in Clients : c # d /\ _socket'[c] # None => _socket'[c] # _socket'[d]
    BY <1>1, <2>1
  <2> QED BY <2>3, <2>4 DEF OwnInv
<1> QED BY <1>2, <1>4, <1>5, <1>6, <1>7 DEF HostOk

LEMMA ConnectSteps ==
  ASSUME IInv, NEW c \in Clients, NEW s \in Socks, NEW x \in Sessions, ConnectDone(c, s, x),
         ConnectSent(c, s, x) \/ ConnectNotSent(s)
  PROVE  HostOk' /\ SessionsOk'
<1>1. /\ Point = "idle" /\ ~Flushing /\ _socket[c] = None /\ ~Used(s) /\ None \notin Socks
      /\ waited' = waited \ {s} /\ misconnected' = misconnected \ {s}
      /\ line' = line /\ ended' = ended
      /\ \A t \in Socks : t # s => /\ gastrSockets'[t] = gastrSockets[t]
                                   /\ gastrSocketBuffer'[t] = gastrSocketBuffer[t]
      /\ gastrSocketBuffer'[s].head = 0 /\ gastrSocketBuffer'[s].tail = 0
  BY Bounds DEF ConnectDone, Flushing, None, Socks
<1>2. SessionsOk'
  BY ConnectSessions
<1>3. \A t \in Socks, y \in Sessions : Has(t, y) /\ Connecting(y) => t \in misconnected
  BY <1>1, NoneWaits
<1>n. x > gu16SessionID /\ \A t \in Socks : ~Has(t, x)
  BY SessionFacts DEF ConnectDone
<1>4. /\ chip[x].asked = 0 /\ \A i \in 1..Len(line) : line[i].x # x
  <2>1. /\ x > gu16SessionID
    BY SessionFacts DEF ConnectDone
  <2>2. /\ gu16SessionID \in Nat /\ x \in Nat
    BY SessionFacts
  <2> QED BY <2>1, <2>2 DEF IInv, SessionInv
<1>5. \A t \in Socks : t # s => (Used(t)' <=> Used(t)) /\ \A y : Has(t, y)' <=> Has(t, y)
  BY <1>1 DEF Used, Has, Session
<1>6. \A k, y : Coming(k, y)' <=> Coming(k, y)
  BY <1>1 DEF Coming
<1>8. CASE ConnectSent(c, s, x)
  <2>1. /\ Goes("connWait", c) /\ Used(s)' /\ Has(s, x)'
        /\ ~gastrSockets'[s].pending /\ gastrSockets'[s].user = 0
        /\ gastrSocketBuffer'[s].alloc /\ gastrSocketBuffer'[s].flag = {"connecting"}
        /\ chip'[x].phase = "connecting" /\ chip'[x].asked = chip[x].asked
        /\ \A y \in Sessions : y # x => chip'[y] = chip[y]
        /\ \A d \in Clients : _socket'[d] = IF d = c THEN s ELSE _socket[d]
        /\ \A d \in Clients : own'[d] = IF d = c THEN x ELSE own[d]
    BY <1>8 DEF ConnectSent, Used, Has, Session
  <2>2. Point' = "connWait" /\ cur' = c /\ ~Flushing'
    BY <2>1 DEF Goes, Flushing
  <2>3. ControlInv'
    BY <2>1, <2>2 DEF ControlInv
  <2>4. ConnectInv'
    <3>2. AsNew(s, x)'
      BY <1>1, <2>1 DEF AsNew
    <3>3. \A k : ~Coming(k, x)'
      BY <1>4, <1>6 DEF Coming
    <3>4. ASSUME NEW t \in Socks, NEW y \in Sessions, Has(t, y)', t \notin misconnected', Connecting(y)'
          PROVE  Waits(t, y)'
      <4>1. CASE t = s
        <5>1. y = x
          BY <2>1, <3>4, <4>1 DEF Has
        <5> QED BY <1>4, <2>1, <2>2, <3>2, <3>3, <4>1, <5>1 DEF Waits
      <4>2. CASE t # s
        <5>1. Has(t, y) /\ t \notin misconnected /\ y # x
          BY <1>1, <1>5, <1>n, <3>4, <4>2
        <5>2. Connecting(y)
          BY <1>6, <2>1, <3>4, <5>1 DEF Connecting
        <5> QED BY <1>3, <5>1, <5>2
      <4> QED BY <4>1, <4>2
    <3>5. \A y \in Sessions : chip'[y].phase \in {"connecting", "aborting"} => ~Coming("connect", y)'
      BY <1>6, <2>1, <3>3 DEF IInv, ConnectInv
    <3>6. \A i, j \in 1..Len(line') : line'[i].k = "connect" /\ line'[j].k = "connect"
                                      /\ line'[i].x = line'[j].x => i = j
      BY <1>1 DEF IInv, ConnectInv
    <3>7. ASSUME NEW i \in 1..Len(line'), line'[i].k = "connect", ~line'[i].ok
          PROVE  chip'[line'[i].x].phase = "closed"
      <4>1. line[i] \in Answers
        BY <1>1, SessionFacts
      <4>2. line[i].x \in Sessions /\ line[i].x # x
        BY <1>1, <1>4, <4>1, AnswerTypes
      <4>3. chip[line[i].x].phase = "closed"
        BY <1>1, <3>7 DEF IInv, ConnectInv
      <4> QED BY <1>1, <2>1, <4>2, <4>3
    <3> QED BY <3>4, <3>5, <3>6, <3>7 DEF ConnectInv
  <2>5. LiveInv'
    <3>1. ASSUME NEW t \in Socks, Used(t)'
          PROVE  /\ t \in Astray' \/ gastrSocketBuffer'[t].alloc
                 /\ \/ t \in Astray' \/ "connected" \in gastrSocketBuffer'[t].flag
                    \/ (Point' = "connWait" /\ _socket'[cur'] = t)
                 /\ t \in Astray' \/ \E d \in Clients : _socket'[d] = t
      <4>1. CASE t = s
        BY <2>1, <2>2, <4>1
      <4>2. CASE t # s
        <5>1. Used(t) /\ gastrSocketBuffer'[t] = gastrSocketBuffer[t] /\ (t \in Astray => t \in Astray')
          BY <1>1, <1>5, <3>1, <4>2 DEF Astray
        <5>2. t \in Astray \/ \E d \in Clients : _socket'[d] = t
          BY <1>1, <2>1, <5>1 DEF IInv, LiveInv
        <5> QED BY <1>1, <5>1, <5>2 DEF IInv, LiveInv
      <4> QED BY <4>1, <4>2
    <3> QED BY <2>2, <3>1 DEF LiveInv
  <2>6. OwnInv'
    <3> SUFFICES ASSUME ~ended PROVE OwnInv'
      BY <1>1 DEF OwnInv
    <3>1. /\ \A d \in Clients, t \in Socks : _socket[d] = t => Has(t, own[d])
          /\ \A d, e \in Clients : d # e /\ _socket[d] # None => _socket[d] # _socket[e]
      BY <1>1 DEF IInv, OwnInv
    <3>2. ASSUME NEW d \in Clients, NEW t \in Socks, _socket'[d] = t PROVE Has(t, own[d])'
      <4>1. CASE d = c
        BY <2>1, <3>2, <4>1 DEF Has
      <4>2. CASE d # c
        <5>1. Has(t, own[d]) /\ own'[d] = own[d]
          BY <2>1, <3>1, <3>2, <4>2
        <5>2. gastrSockets'[t] = gastrSockets[t]
          BY <1>1, <5>1 DEF Has
        <5> QED BY <5>1, <5>2 DEF Has, Used, Session
      <4> QED BY <4>1, <4>2
    <3>3. \A d \in Clients : _socket[d] # s
      BY <1>1, <3>1 DEF Has
    <3>4. \A d, e \in Clients : d # e /\ _socket'[d] # None => _socket'[d] # _socket'[e]
      BY <2>1, <3>1, <3>3
    <3> QED BY <3>2, <3>4 DEF OwnInv
  <2> QED BY <1>2, <2>3, <2>4, <2>5, <2>6 DEF HostOk
<1>9. CASE ConnectNotSent(s)
  <2>1. /\ Goes(Point, cur) /\ ~Used(s)' /\ \A y : ~Has(s, y)'
        /\ UNCHANGED <<chip, _socket, own>>
    BY <1>9 DEF ConnectNotSent, Used, Has, Session, Unused
  <2>2. Point' = "idle" /\ ~Flushing'
    BY <1>1, <2>1 DEF Goes, Flushing
  <2>3. ControlInv'
    BY <2>2 DEF ControlInv
  <2>4. ConnectInv'
    <3>1. ASSUME NEW t \in Socks, NEW y \in Sessions, Has(t, y)', t \notin misconnected'
          PROVE  ~Connecting(y)'
      <4>1. t # s /\ Has(t, y) /\ t \notin misconnected
        BY <1>1, <1>5, <2>1, <3>1
      <4>2. ~Connecting(y)
        BY <1>3, <4>1
      <4> QED BY <1>6, <2>1, <4>2 DEF Connecting
    <3> QED BY <1>1, <2>1, <3>1, ConnectRest DEF SameLine
  <2>5. LiveInv'
    <3>1. \A t \in Socks : Used(t)' =>
            Used(t) /\ gastrSocketBuffer'[t] = gastrSocketBuffer[t] /\ (t \in Astray => t \in Astray')
      BY <1>1, <1>5, <2>1 DEF Astray
    <3> QED BY <1>1, <2>1, <2>2, <3>1 DEF IInv, LiveInv
  <2>6. OwnInv'
    <3>1. ASSUME ~ended, NEW d \in Clients, NEW t \in Socks, _socket'[d] = t PROVE Has(t, own[d])'
      <4>1. Has(t, own[d]) /\ own' = own
        BY <1>1, <2>1, <3>1 DEF IInv, OwnInv
      <4>2. gastrSockets'[t] = gastrSockets[t]
        BY <1>1, <4>1 DEF Has
      <4> QED BY <4>1, <4>2 DEF Has, Used, Session
    <3> QED BY <1>1, <2>1, <3>1 DEF IInv, OwnInv
  <2> QED BY <1>2, <2>3, <2>4, <2>5, <2>6 DEF HostOk
<1> QED BY <1>8, <1>9

LEMMA ChipSteps ==
  ASSUME IInv, NEW x \in Sessions, ChipStep(x)
  PROVE  HostOk' /\ SessionsOk'
<1>1. HostSame /\ ChipView(x) /\ \A y \in Sessions : y # x => chip'[y] = chip[y]
  BY ChipStepFacts DEF Alone
<1>2. SessionsOk'
  BY ChipSessions
<1>3. UNCHANGED <<gastrSockets, gastrSocketBuffer, _socket, pc, ret, cur, own, waited, misconnected,
                  ended>>
  BY <1>1 DEF HostSame, sockVars, ctlVars, histVars
<1>4. /\ Point' = Point /\ (Flushing' <=> Flushing)
      /\ \A t \in Socks : Used(t)' <=> Used(t)
      /\ \A t \in Socks, y \in Sessions : (AsNew(t, y)' <=> AsNew(t, y)) /\ (Has(t, y)' <=> Has(t, y))
  BY <1>3 DEF Point, Flushing, Used, Session, Has, AsNew
<1>5. ControlInv'
  BY <1>3, <1>4 DEF IInv, ControlInv
<1>6. LiveInv'
  BY <1>3, <1>4 DEF IInv, LiveInv, Astray
<1>7. OwnInv'
  BY <1>3, <1>4 DEF IInv, OwnInv, Has, Used, Session
<1>8. ConnectInv'
  <2>1. ConnectInv /\ line \in Seq(Answers)
    BY SessionFacts DEF IInv
  <2>2. CASE line' = line /\ chip[x].phase # "connecting"
    <3>1. \A k, y : Coming(k, y)' <=> Coming(k, y)
      BY <2>2 DEF Coming
    <3>2. \A y \in Sessions : Connecting(y)' => Connecting(y)
      BY <1>1, <3>1 DEF Connecting, ChipView
    <3>3. \A y \in Sessions : chip[y].asked = 0 => chip'[y].asked = 0
      BY <1>1, SessionFacts DEF ChipView
    <3>4. \A y \in Sessions : /\ chip'[y].phase \in {"connecting", "aborting"} => chip'[y] = chip[y]
                              /\ chip[y].phase = "closed" => chip'[y].phase = "closed"
      BY <1>1 DEF ChipView
    <3>5. ASSUME NEW t \in Socks, NEW y \in Sessions, Has(t, y)', t \notin misconnected', Connecting(y)'
          PROVE  Waits(t, y)'
      <4>1. Waits(t, y)
        BY <1>3, <1>4, <3>2, <3>5, Waiting
      <4> QED BY <1>3, <1>4, <3>1, <3>3, <4>1 DEF Waits
    <3> QED BY <2>2, <3>4, <3>5, ConnectRest DEF SameLine
  <2>3. ASSUME NEW r \in Answers, line' = Append(line, r), Told(x, r) PROVE ConnectInv'
    <3>1. /\ Len(line) \in Nat
          /\ Len(line) + 1 \in 1..Len(line') /\ line'[Len(line) + 1] = r
          /\ \A i \in 1..Len(line) : i \in 1..Len(line') /\ line'[i] = line[i]
          /\ \A i \in 1..Len(line') : i # Len(line) + 1 => i \in 1..Len(line)
          /\ \A k, y : Coming(k, y)' <=> Coming(k, y) \/ (r.k = k /\ r.x = y)
      BY <2>1, <2>3, LineAppend
    <3>2. r.x = x /\ (r.k = "connect" <=> chip[x].phase \in {"connecting", "aborting"})
      BY <2>3 DEF Told
    <3>3. ASSUME NEW t \in Socks, NEW y \in Sessions, Has(t, y)', t \notin misconnected', Connecting(y)'
          PROVE  Waits(t, y)'
      <4>1. Has(t, y) /\ t \notin misconnected /\ chip[y].phase # "aborting"
        BY <1>3, <1>4, <3>3 DEF IInv, ChipInv
      <4>2. Connecting(y)
        BY <1>1, <3>1, <3>2, <3>3, <4>1 DEF Connecting, ChipView
      <4>3. Waits(t, y)
        BY <4>1, <4>2, Waiting
      <4>4. ~(r.k = "recv" /\ r.x = y)
        BY <2>3, <3>2, <4>3, SessionFacts DEF Told, Waits
      <4>5. chip'[y].asked = 0 /\ ~Coming("recv", y)'
        BY <1>1, <3>1, <4>3, <4>4, SessionFacts DEF ChipView, Waits
      <4> QED BY <1>3, <1>4, <4>3, <4>5 DEF Waits
    <3>5. ASSUME r.k = "connect" PROVE \A i \in 1..Len(line) : ~(line[i].k = "connect" /\ line[i].x = x)
      BY <2>1, <3>2, <3>5 DEF ConnectInv, Coming
    <3>7. ASSUME NEW y \in Sessions, chip'[y].phase \in {"connecting", "aborting"}
          PROVE  ~Coming("connect", y)'
      <4>1. y # x /\ chip[y].phase \in {"connecting", "aborting"}
        BY <1>1, <3>7 DEF ChipView
      <4> QED BY <2>1, <3>1, <3>2, <4>1 DEF ConnectInv
    <3>8. \A i, j \in 1..Len(line') : line'[i].k = "connect" /\ line'[j].k = "connect"
                                      /\ line'[i].x = line'[j].x => i = j
      BY <2>1, <3>1, <3>2, <3>5 DEF ConnectInv
    <3>9. ASSUME NEW i \in 1..Len(line'), line'[i].k = "connect", ~line'[i].ok
          PROVE  chip'[line'[i].x].phase = "closed"
      <4>1. CASE i = Len(line) + 1
        BY <2>3, <3>1, <3>2, <3>9, <4>1 DEF Told
      <4>2. CASE i # Len(line) + 1
        <5>1. i \in 1..Len(line) /\ line'[i] = line[i] /\ line[i] \in Answers
          BY <2>1, <3>1, <4>2
        <5>2. chip[line[i].x].phase = "closed" /\ line[i].x \in Sessions
          BY <2>1, <3>9, <5>1, AnswerTypes DEF ConnectInv
        <5> QED BY <1>1, <5>1, <5>2 DEF ChipView
      <4> QED BY <4>1, <4>2
    <3> QED BY <3>3, <3>7, <3>8, <3>9 DEF ConnectInv
  <2> QED BY <2>2, <2>3, ChipStepFacts
<1> QED BY <1>2, <1>5, <1>6, <1>7, <1>8 DEF HostOk

-----------------------------------------------------------------------------
(* The invariant for every build                                             *)

\* The invariant is its types and the two views.
LEMMA Together ==
  ASSUME AllTypes', HostOk', SessionsOk'
  PROVE  IInv'
<1>1. (TypeOK /\ QueueTypes)'
  BY TypesSplit, PTL
<1> QED BY <1>1 DEF IInv, HostOk, SessionsOk

LEMMA OrdinaryIInv ==
  ASSUME IInv, AllTypes', NEW s \in Socks, NEW q, NEW c, Ordinary(s, q, c)
  PROVE  IInv'
<1>1. ControlTypes'
  BY DEF AllTypes
<1>2. HostOk'
  BY <1>1, OrdinarySteps
<1>3. SessionsOk'
  BY ServesSessions DEF Ordinary
<1> QED BY <1>2, <1>3, Together

LEMMA InitIInv == Init => IInv
<1> SUFFICES ASSUME Init PROVE IInv
  OBVIOUS
<1>1. /\ line = <<>> /\ Len(line) = 0 /\ \A i \in 1..Len(line) : FALSE
      /\ pc = "idle" /\ ret = "idle" /\ cur = None
      /\ \A c \in Clients : _socket[c] = None
      /\ gastrSockets = [s \in Socks |-> Unused] /\ gastrSocketBuffer = [s \in Socks |-> NoBuffer]
      /\ gu16SessionID = 0 /\ \A s \in Socks : opened[s] = 0
      /\ chip = [x \in Sessions |-> [Gone EXCEPT !.phase = "none"]]
  BY DEF Init
<1>2. \A s \in Socks : ~Used(s) /\ Session(s) = 0
  BY <1>1 DEF Used, Session, Unused
<1>3. \A x \in Sessions : chip[x].phase = "none" /\ chip[x].asked = 0 /\ chip[x].made = 0
  BY <1>1 DEF Gone
<1>4. (\A k, x : ~Coming(k, x)) /\ \A s \in Socks : \A x : ~Has(s, x)
  BY <1>1, <1>2 DEF Coming, Has
<1>5. \A x \in Sessions : ~Connecting(x)
  BY <1>3, <1>4 DEF Connecting
<1>6. Point = "idle" /\ ~Flushing
  BY <1>1 DEF Point, Flushing
<1>7. AllTypes
  <2>1. SockTypes(gastrSockets)
    <3>1. Unused \in [used : BOOLEAN, session : 0..MaxSessions, pending : BOOLEAN, user : 0..TcpSize]
      BY Bounds DEF Unused
    <3> QED BY <1>1, <3>1 DEF SockTypes
  <2>2. BufferTypes(gastrSocketBuffer)
    <3>1. NoBuffer \in Buffers /\ NoBuffer.tail <= NoBuffer.head
      BY Bounds DEF NoBuffer, Buffers
    <3> QED BY <1>1, <3>1 DEF BufferTypes
  <2>3. ChipTypes(chip, writes)
    <3>1. [Gone EXCEPT !.phase = "none"] \in
            [s : Socks, phase : Phases,
             asked : Nat, owes : 0..MaxWrites, made : 0..MaxUnits]
      BY GoneTypes DEF Phases
    <3>2. [Gone EXCEPT !.phase = "none"].owes = 0 /\ writes = 0
      BY DEF Gone, Init
    <3> QED BY <1>1, <3>1, <3>2 DEF ChipTypes
  <2>4. ControlTypes
    BY <1>1 DEF ControlTypes, Points
  <2>5. OtherTypes
    <3>1. {ended, orphaned} \subseteq BOOLEAN
      BY Zenon DEF Init
    <3>2. /\ gu16SessionID \in 0..MaxSessions /\ hif_small_xfer \in 0..3 /\ sock_xfer \in Socks
          /\ writes \in 0..MaxWrites /\ faults \in 0..MaxFaults
          /\ waited \subseteq Socks /\ misconnected \subseteq Socks
      BY Bounds DEF Init, Socks
    <3>3. rest \in Seq(Data) /\ line \in Seq(Answers) /\ _socket \in [Clients -> Socks \cup {None}]
      BY DEF Init
    <3>4. /\ got \in [Socks -> Seq(Data \cup {Stale})] /\ opened \in [Socks -> 0..MaxSessions]
          /\ own \in [Clients -> 0..MaxSessions]
      BY Bounds DEF Init
    <3> QED BY <3>1, <3>2, <3>3, <3>4 DEF OtherTypes
  <2> QED BY <2>1, <2>2, <2>3, <2>4, <2>5 DEF AllTypes
<1>8. TypeOK /\ QueueTypes
  BY <1>7, TypesSplit
<1>9. ControlInv /\ ConnectInv /\ LiveInv
  BY <1>1, <1>2, <1>3, <1>5, <1>6 DEF ControlInv, ConnectInv, LiveInv
<1>10. OwnInv
  BY <1>1, Bounds DEF OwnInv, None, Socks
<1>11. SessionInv /\ ChipInv
  BY <1>1, <1>2, <1>3, <1>4 DEF SessionInv, ChipInv
<1>12. RecvInv /\ EarlierInv
  BY <1>1, <1>3, <1>4 DEF RecvInv, EarlierInv
<1> QED BY <1>8, <1>9, <1>10, <1>11, <1>12 DEF IInv

LEMMA StutterIInv ==
  ASSUME IInv, UNCHANGED vars
  PROVE  IInv'
<1>1. UNCHANGED <<gastrSockets, gu16SessionID, gastrSocketBuffer, hif_small_xfer, sock_xfer, rest,
                  _socket, pc, ret, cur, chip, line, got, opened, own, waited, misconnected, ended,
                  orphaned, writes, faults>>
  BY DEF vars, sockVars, xferVars, ctlVars, histVars
<1>2. AllTypes'
  BY <1>1, SessionFacts DEF AllTypes, SockTypes, BufferTypes, ChipTypes, ControlTypes, OtherTypes
<1>3. (TypeOK /\ QueueTypes)'
  BY <1>2, TypesSplit, PTL
<1>4. /\ (ControlInv <=> ControlInv') /\ (LiveInv <=> LiveInv') /\ (OwnInv <=> OwnInv')
  BY <1>1 DEF ControlInv, LiveInv, OwnInv, Astray, Point, Flushing, Has, Used, Session
<1>5. /\ (SessionInv <=> SessionInv') /\ (ChipInv <=> ChipInv')
  BY <1>1 DEF SessionInv, ChipInv, Has, Used, Session, Alive
<1>6. /\ (ConnectInv <=> ConnectInv') /\ (RecvInv <=> RecvInv') /\ (EarlierInv <=> EarlierInv')
  <2>1. /\ \A k, x : Coming(k, x) <=> Coming(k, x)'
        /\ \A x : OneOf(x) <=> OneOf(x)'
        /\ \A i, x : ConnectsAfter(i, x) <=> ConnectsAfter(i, x)'
        /\ \A s, x : (Has(s, x) <=> Has(s, x)') /\ (AsNew(s, x) <=> AsNew(s, x)')
        /\ Point' = Point
    BY <1>1 DEF Coming, OneOf, ConnectsAfter, Has, AsNew, Used, Session, Point
  <2> QED BY <1>1, <2>1 DEF ConnectInv, RecvInv, EarlierInv, Connecting, Waits
<1> QED BY <1>3, <1>4, <1>5, <1>6 DEF IInv

\* Every step keeps the invariant.
LEMMA NextIInv ==
  ASSUME IInv, [Next]_vars
  PROVE  IInv'
<1>1. AllTypes /\ ControlInv
  BY SessionFacts DEF IInv
<1>2. CASE UNCHANGED vars
  BY <1>2, StutterIInv
<1>3. CASE Events
  <2>1. CASE EventsReturn
    BY <1>1, <2>1, Moving, SameOrdinary, OrdinaryIInv
  <2>2. CASE PacketUnread
    BY <1>1, <2>2, PacketUnreadEffect, SameOrdinary, OrdinaryIInv
  <2>3. CASE CbConnect
    <3>1. AllTypes' /\ \E s \in Socks, x \in Sessions : CbConnectDone(s, x)
      BY <1>1, <2>3, CbConnectEffect
    <3> QED BY <3>1, CbConnectOrdinary, OrdinaryIInv
  <2>4. CASE CbSend
    BY <1>1, <2>4, CbSendEffect, CbSendOrdinary, OrdinaryIInv
  <2>5. CASE RecvReply
    <3>1. PICK s \in Socks, x \in Sessions : AllTypes' /\ RecvReplyDone(s, x)
      BY <1>1, <2>5, RecvReplyEffect
    <3>2. CASE ReplyEof(s, x)
      BY <3>1, <3>2, EofSteps, Together DEF AllTypes
    <3>3. CASE ~ReplyEof(s, x)
      BY <3>1, <3>3, RecvReplyOrdinary, OrdinaryIInv
    <3> QED BY <3>2, <3>3
  <2>6. CASE SmallChunk
    BY <1>1, <2>6, SmallChunkEffect, SmallChunkOrdinary, OrdinaryIInv
  <2>7. CASE ApDisconnected
    BY <1>1, <2>7, ApDisconnectedEffect, ApDisconnectedSteps, Together
  <2> QED BY <1>3, <2>1, <2>2, <2>3, <2>4, <2>5, <2>6, <2>7 DEF Events, Take
<1>4. CASE Method
  <2>1. CASE ConnectWait
    <3>1. AllTypes' /\ ((Same /\ \E q, c : Moves(q, c)) \/ \E s \in Socks : ConnectLost(s))
      BY <1>1, <2>1, ConnectWaiting
    <3> QED BY <3>1, SameOrdinary, OrdinaryIInv, ConnectLostSteps, Together
  <2>2. CASE ReadBack \/ FlushRead
    <3>1. /\ AllTypes' /\ Point # "connWait" /\ \E q, c : Moves(q, c)
          /\ Same \/ \E s \in Socks : \E n \in 1..Available(s) : ReadDone(s, n)
      BY <1>1, <2>2, Reading
    <3> QED BY <3>1, SameOrdinary, ReadOrdinary, OrdinaryIInv
  <2>3. CASE ConnectedBack \/ SendWait \/ Flush \/ FlushMore
    BY <1>1, <2>3, Moving, SameOrdinary, OrdinaryIInv
  <2>4. CASE Send
    BY <1>1, <2>4, Sending, SendOrdinary, OrdinaryIInv
  <2>5. CASE FlushEnd
    BY <1>1, <2>5, Flushed, FlushEndSteps, Together
  <2> QED BY <1>4, <2>1, <2>2, <2>3, <2>4, <2>5 DEF Method
<1>5. ASSUME NEW c \in Clients, Connect(c) \/ Read(c) \/ Write(c) \/ Connected(c) \/ Stop(c)
      PROVE  IInv'
  <2>1. CASE Connect(c)
    BY <1>1, <2>1, Connection, ConnectSteps, Together
  <2>2. CASE Read(c) \/ Write(c) \/ Connected(c)
    BY <1>1, <2>2, Moving, SameOrdinary, OrdinaryIInv
  <2>3. CASE Stop(c)
    BY <1>1, <2>3, Stopping, StopSteps, Together
  <2> QED BY <1>5, <2>1, <2>2, <2>3
<1>6. ASSUME NEW x \in Sessions,
             ChipConnect(x) \/ ChipData(x) \/ ChipEof(x) \/ ChipSent(x) \/ ChipClose(x)
      PROVE  IInv'
  BY <1>1, <1>6, ChipActs, ChipSteps, Together DEF ChipStep
<1> QED BY <1>2, <1>3, <1>4, <1>5, <1>6 DEF Next, App, Chip

\* The invariant is inductive: it holds at first, and every step keeps it.
THEOREM Invariance == Spec => []IInv
<1>1. Init => IInv
  BY InitIInv
<1>2. IInv /\ [Next]_vars => IInv'
  BY NextIInv
<1> QED BY <1>1, <1>2, PTL DEF Spec

-----------------------------------------------------------------------------
(* What the runs check of every build, for every value of the constants      *)

\* The variables have their types in every reachable state: no handler takes a
\* socket, a session or a count out of its range.
THEOREM TypeCorrect == Spec => []TypeOK
<1>1. IInv => TypeOK
  BY DEF IInv
<1> QED BY <1>1, Invariance, PTL

\* The address recv() is given is in memory that is allocated: stop(), connect(),
\* connected() and the loss of the access point free a buffer only when its socket
\* is closed.  Excepted are a socket that socketBufferSendWait ran for and one that
\* took the answer to an earlier session's CONNECT for its own.
THEOREM BufferIsLive == Spec => []LiveBuffer
<1>1. IInv => LiveBuffer
  BY DEF IInv, LiveInv, LiveBuffer, Readable, Used, Astray
<1> QED BY <1>1, Invariance, PTL

\* A session has one RECV unanswered at most: recv() sends none while
\* bIsRecvPending is set, and only the answer to that session's RECV clears it, as
\* long as every CLOSE has reached the chip and the socket has taken no earlier
\* session's answer to a CONNECT for its own.
THEOREM OneRecv == Spec => []OneRecvOutstanding
<1>1. IInv => OneRecvOutstanding
  <2> SUFFICES ASSUME IInv, ~orphaned, NEW s \in Socks \ misconnected, gastrSockets[s].used,
                      NEW x \in Sessions, x = gastrSockets[s].session
               PROVE  chip[x].asked + Unhandled(x) <= 1
    BY SessionFacts DEF OneRecvOutstanding, Used, Session
  <2>1. OneOf(x) /\ chip[x].asked \in Nat
    BY SessionFacts DEF IInv, RecvInv, Has, Used, Session
  <2> DEFINE A == {i \in DOMAIN line : line[i].k = "recv" /\ line[i].x = x}
  <2>2. DOMAIN line = 1..Len(line) /\ Len(line) \in Nat
    BY SessionFacts
  <2>3. CASE A = {}
    <3>1. Cardinality(A) = 0
      BY <2>3, FS_EmptySet
    <3> QED BY <2>1, <3>1 DEF OneOf, Unhandled
  <2>4. ASSUME NEW i \in A PROVE chip[x].asked + Unhandled(x) <= 1
    <3>1. A = {i}
      BY <2>1, <2>2 DEF OneOf
    <3>2. Cardinality(A) = 1
      BY <3>1, FS_Singleton
    <3>3. chip[x].asked = 0
      <4>1. Coming("recv", x)
        BY <2>2 DEF Coming
      <4> QED BY <2>1, <4>1 DEF OneOf
    <3> QED BY <3>2, <3>3 DEF Unhandled
  <2> QED BY <2>3, <2>4
<1> QED BY <1>1, Invariance, PTL

\* No socket leaks: connect(), stop() and connected() leave none open that no
\* client knows, with the exceptions of BufferIsLive.
THEOREM NoLeak == Spec => []SocketsHeld
<1>1. IInv => SocketsHeld
  BY DEF IInv, LiveInv, SocketsHeld, Used, Astray
<1> QED BY <1>1, Invariance, PTL

\* Until a peer ends a stream or the access point is lost, the _socket of a client
\* is open and carries the client's own session: connect() and stop() of the others
\* take none from it.
THEOREM HandlesAreOwn == Spec => []HandlesOwn
<1>1. IInv => HandlesOwn
  <2> SUFFICES ASSUME IInv, pc = "idle", ~ended, NEW c \in Clients, _socket[c] # None
               PROVE  gastrSockets[_socket[c]].used /\ gastrSockets[_socket[c]].session = own[c]
    BY DEF HandlesOwn
  <2>1. _socket[c] \in Socks
    BY SessionFacts DEF AllTypes, OtherTypes
  <2>2. ~Flushing
    BY DEF Flushing, Point
  <2> QED BY <2>1, <2>2 DEF IInv, OwnInv, Has, Used, Session
<1> QED BY <1>1, Invariance, PTL

-----------------------------------------------------------------------------
(* The inductive invariant of the default build.                             *)

\* socket_buffer.h without LIMITED_RAM_DEVICE: SOCKET_BUFFER_TCP_SIZE is one
\* SOCKET_BUFFER_MTU, 1400 bytes, and the chip's answers are no longer than that
\* (SOCKET_BUFFER_MAX_LENGTH in socket.h).
DefaultBuild == Mtu = TcpSize /\ MaxPacket <= Mtu

\* A RECV is sent only for an empty buffer.
Flow(s, x) ==
  /\ OneOf(x)
  /\ gastrSockets[s].user = 0 \/ gastrSocketBuffer[s].head > 0 =>
       chip[x].asked = 0 /\ ~Coming("recv", x)

FlowInv ==
  /\ hif_small_xfer = 0 /\ pc # "small"
  /\ \A s \in Socks \ misconnected : ~Flag("full", s) /\ gastrSockets[s].user \in {0, 1}
  /\ \A s \in Socks \ misconnected, x \in Sessions : Has(s, x) => Flow(s, x)

\* Without a failure, a pending RECV is one, and a session with data to come has one.
Listens(s, x) ==
  chip[x].phase = "open" =>
    /\ gastrSockets[s].pending => chip[x].asked > 0 \/ Coming("recv", x)
    /\ chip[x].asked > 0 \/ Available(s) > 0 \/ Coming("recv", x) \/ Coming("connect", x)

ListenInv ==
  faults = 0 =>
    /\ waited = {}
    /\ \A s \in Socks \ misconnected, x \in Sessions : Has(s, x) => Listens(s, x)

\* What has been read from a socket, and what its buffer holds, are the stream of x.
Reads(s, x) ==
  /\ \A i \in 1..Len(got[s]) : got[s][i] = Unit(x, i)
  /\ \A i \in 1..Available(s) :
       gastrSocketBuffer[s].mem[gastrSocketBuffer[s].tail + i] = Unit(x, Len(got[s]) + i)

\* What is under way goes on where the buffer ends.
Comes(s, x) ==
  /\ \A i \in 1..Len(line) : line[i].k = "recv" /\ line[i].x = x =>
       /\ \A j \in 1..Len(line[i].data) : line[i].data[j] = Unit(x, Len(got[s]) + j)
       /\ chip[x].phase = "open" => chip[x].made = Len(got[s]) + Len(line[i].data)
  /\ chip[x].phase = "open" /\ chip[x].asked > 0 => chip[x].made = Len(got[s])
  /\ chip[x].phase = "open" /\ gastrSocketBuffer[s].head > 0 =>
       chip[x].made = Len(got[s]) + Available(s)
  /\ Connecting(x) => Len(got[s]) = 0 /\ chip[x].made = 0

OrderInv ==
  /\ \A s \in Socks \ misconnected, x \in 0..MaxSessions :
       s \notin waited /\ opened[s] = x => Reads(s, x)
  /\ \A s \in Socks \ misconnected, x \in Sessions :
       s \notin waited /\ Has(s, x) => Comes(s, x)

DInv == IInv /\ FlowInv /\ ListenInv /\ OrderInv

-----------------------------------------------------------------------------
(* The default build: what a step leaves of the data of a session            *)

\* The answers to session x are ones there were; those that matter are all left.
Old(x) ==
  /\ \A k : Coming(k, x)' => Coming(k, x)
  /\ \A i \in 1..Len(line') : line'[i].x = x => \E j \in 1..Len(line) : line'[i] = line[j]
  /\ OneOf(x) => \A i, j \in 1..Len(line') : line'[i].k = "recv" /\ line'[i].x = x
                                             /\ line'[j].k = "recv" /\ line'[j].x = x => i = j

Kept(x) == \A k \in {"connect", "recv"} : Coming(k, x) => Coming(k, x)'

ChipKept(x) == chip'[x].phase = chip[x].phase /\ chip'[x].asked = chip[x].asked
               /\ chip'[x].made = chip[x].made

\* Nothing that the stream of s is made of has changed.
Beside(s) ==
  /\ gastrSockets'[s].user = gastrSockets[s].user
  /\ gastrSockets'[s].pending => gastrSockets[s].pending
  /\ Contents(s) /\ got'[s] = got[s]

LEMMA BesideFlow ==
  ASSUME NEW s, NEW x, Beside(s), Old(x), ChipKept(x), Flow(s, x)
  PROVE  Flow(s, x)'
BY DEF Beside, Old, ChipKept, Flow, OneOf, Contents

LEMMA BesideListens ==
  ASSUME NEW s, NEW x, Beside(s), Kept(x), ChipKept(x), Listens(s, x)
  PROVE  Listens(s, x)'
BY DEF Beside, Kept, ChipKept, Listens, Contents, Available

LEMMA BesideComes ==
  ASSUME NEW s, NEW x, Beside(s), Old(x), ChipKept(x), Comes(s, x)
  PROVE  Comes(s, x)'
<1>1. Connecting(x)' => Connecting(x)
  BY DEF Old, ChipKept, Connecting
<1>2. Available(s)' = Available(s) /\ got'[s] = got[s]
      /\ gastrSocketBuffer'[s].head = gastrSocketBuffer[s].head
  BY DEF Beside, Contents, Available
<1>3. ASSUME NEW i \in 1..Len(line'), line'[i].k = "recv", line'[i].x = x
      PROVE  /\ \A j \in 1..Len(line'[i].data) : line'[i].data[j] = Unit(x, Len(got'[s]) + j)
             /\ chip'[x].phase = "open" => chip'[x].made = Len(got'[s]) + Len(line'[i].data)
  <2>1. PICK j \in 1..Len(line) : line'[i] = line[j]
    BY <1>3 DEF Old
  <2>2. /\ \A m \in 1..Len(line[j].data) : line[j].data[m] = Unit(x, Len(got[s]) + m)
        /\ chip[x].phase = "open" => chip[x].made = Len(got[s]) + Len(line[j].data)
    BY <1>3, <2>1 DEF Comes
  <2> QED BY <1>2, <2>1, <2>2 DEF ChipKept
<1>4. /\ chip'[x].phase = "open" /\ chip'[x].asked > 0 => chip'[x].made = Len(got'[s])
      /\ chip'[x].phase = "open" /\ gastrSocketBuffer'[s].head > 0 =>
           chip'[x].made = Len(got'[s]) + Available(s)'
      /\ Connecting(x)' => Len(got'[s]) = 0 /\ chip'[x].made = 0
  BY <1>1, <1>2 DEF Comes, ChipKept
<1> QED BY <1>3, <1>4 DEF Comes

LEMMA BesideReads ==
  ASSUME NEW s, NEW x, Contents(s), got'[s] = got[s], Reads(s, x)
  PROVE  Reads(s, x)'
BY DEF Contents, Available, Reads

\* An answer is taken, or none is.
LEMMA OldLine ==
  ASSUME IInv, SameLine
  PROVE  /\ \A x : Old(x)
         /\ \A x : line' = line \/ Head(line).x # x \/ Head(line).k = "send" => Kept(x)
<1>1. line \in Seq(Answers)
  BY SessionFacts
<1>2. PICK d \in {0, 1} : \A i \in 1..Len(line') : i + d \in 1..Len(line) /\ line'[i] = line[i + d]
  BY <1>1, SameLineFacts
<1>3. \A x : Old(x)
  BY <1>2, Shorter DEF Old
<1>4. ASSUME NEW x, line' = line \/ Head(line).x # x \/ Head(line).k = "send" PROVE Kept(x)
  <2>1. CASE line' = line
    BY <2>1 DEF Kept, Coming
  <2>2. CASE line # <<>> /\ line' = Tail(line) /\ (Head(line).x # x \/ Head(line).k = "send")
    BY <1>1, <2>2, LineTail DEF Kept
  <2> QED BY <1>4, <2>1, <2>2 DEF SameLine
<1> QED BY <1>3, <1>4

\* The parts of the second invariant
DataOk ==
  /\ hif_small_xfer = 0 /\ pc # "small" /\ (faults = 0 => waited = {})
  /\ \A s \in Socks \ misconnected : ~Flag("full", s) /\ gastrSockets[s].user \in {0, 1}
  /\ \A s \in Socks \ misconnected, x \in Sessions : Has(s, x) =>
       /\ Flow(s, x) /\ (faults = 0 => Listens(s, x)) /\ (s \notin waited => Comes(s, x))
  /\ \A s \in Socks \ misconnected, x \in 0..MaxSessions :
       s \notin waited /\ opened[s] = x => Reads(s, x)

LEMMA DataSplit == (FlowInv /\ ListenInv /\ OrderInv) <=> DataOk
BY DEF FlowInv, ListenInv, OrderInv, DataOk

LEMMA DataFacts ==
  ASSUME DInv
  PROVE  IInv /\ DataOk /\ faults \in Nat
<1>1. IInv /\ DataOk
  BY DataSplit DEF DInv
<1>2. faults \in Nat
  BY <1>1, SessionFacts, Bounds DEF AllTypes, OtherTypes
<1> QED BY <1>1, <1>2

\* A step that leaves all sockets, buffers and sessions as they were
LEMMA QuietData ==
  ASSUME DInv, SameLine, hif_small_xfer' = 0, pc' # "small",
         faults' = faults \/ faults' = faults + 1, waited \subseteq waited', opened' = opened,
         misconnected' = misconnected,
         faults' = 0 => waited' = waited /\ (line' = line \/ Head(line).k = "send"),
         \A s \in Socks : /\ gastrSockets'[s] = gastrSockets[s] /\ Contents(s) /\ got'[s] = got[s]
                          /\ gastrSocketBuffer'[s].flag \subseteq gastrSocketBuffer[s].flag \cup {"sending"},
         \A x \in Sessions : ChipKept(x)
  PROVE  DataOk'
<1>1. IInv /\ DataOk /\ faults \in Nat
  BY DataFacts
<1>2. \A s \in Socks : /\ Beside(s) /\ (Flag("full", s)' => Flag("full", s))
                       /\ \A x : Has(s, x)' <=> Has(s, x)
  BY DEF Beside, Flag, Has, Used, Session
<1>3. faults' = 0 => faults = 0
  BY <1>1
<1>4. \A x \in Sessions : Old(x) /\ (faults' = 0 => Kept(x))
  BY <1>1, OldLine
<1>5. ASSUME NEW s \in Socks \ misconnected, NEW x \in Sessions, Has(s, x)'
      PROVE  Flow(s, x)' /\ (faults' = 0 => Listens(s, x)') /\ (s \notin waited' => Comes(s, x)')
  <2>1. Flow(s, x) /\ (faults = 0 => Listens(s, x)) /\ (s \notin waited => Comes(s, x))
    BY <1>1, <1>2, <1>5 DEF DataOk
  <2> QED BY <1>2, <1>3, <1>4, <2>1, BesideFlow, BesideListens, BesideComes
<1>6. ASSUME NEW s \in Socks \ misconnected, NEW x \in 0..MaxSessions, s \notin waited', opened'[s] = x
      PROVE  Reads(s, x)'
  BY <1>1, <1>6, BesideReads DEF DataOk
<1> QED BY <1>1, <1>2, <1>3, <1>5, <1>6 DEF DataOk

\* A step that changes socket s and its session only
OneSocket(s) ==
  /\ SameLine /\ (line' = line \/ Head(line).k = "send" \/ Head(line).s = s)
  /\ hif_small_xfer' = 0 /\ pc' # "small" /\ (faults' = faults \/ faults' = faults + 1)
  /\ waited' \subseteq waited /\ waited \subseteq waited' \cup {s}
  /\ \A t \in Socks : t # s => /\ gastrSockets'[t] = gastrSockets[t]
                               /\ gastrSocketBuffer'[t] = gastrSocketBuffer[t]
                               /\ got'[t] = got[t] /\ opened'[t] = opened[t]
  /\ \A t \in Socks, x \in Sessions : t # s /\ Has(t, x) => ChipKept(x)
  /\ misconnected \subseteq misconnected' \cup {s}
  /\ s \notin misconnected' => ~Flag("full", s)' /\ gastrSockets'[s].user \in {0, 1}

LEMMA OneSocketData ==
  ASSUME DInv, NEW s \in Socks, OneSocket(s),
         \A x \in Sessions : s \notin misconnected' /\ Has(s, x)' =>
           Flow(s, x)' /\ (faults' = 0 => Listens(s, x)') /\ (s \notin waited' => Comes(s, x)'),
         \A x \in 0..MaxSessions :
           s \notin misconnected' /\ s \notin waited' /\ opened'[s] = x => Reads(s, x)'
  PROVE  DataOk'
<1>1. IInv /\ DataOk /\ faults \in Nat
  BY DataFacts
<1>2. /\ SameLine /\ (line' = line \/ Head(line).k = "send" \/ Head(line).s = s)
      /\ hif_small_xfer' = 0 /\ pc' # "small" /\ (faults' = 0 => faults = 0)
      /\ waited' \subseteq waited /\ \A t \in waited : t # s => t \in waited'
      /\ \A t \in Socks : t # s => /\ gastrSockets'[t] = gastrSockets[t]
                                   /\ gastrSocketBuffer'[t] = gastrSocketBuffer[t]
                                   /\ got'[t] = got[t] /\ opened'[t] = opened[t]
      /\ \A t \in Socks, x \in Sessions : t # s /\ Has(t, x) => ChipKept(x)
      /\ \A t \in Socks : t # s /\ t \notin misconnected' => t \notin misconnected
      /\ s \notin misconnected' => ~Flag("full", s)' /\ gastrSockets'[s].user \in {0, 1}
  BY <1>1 DEF OneSocket
<1>3. \A t \in Socks : t # s => /\ Beside(t) /\ Contents(t) /\ (Flag("full", t)' <=> Flag("full", t))
                                /\ \A x : Has(t, x)' <=> Has(t, x)
  BY <1>2 DEF Beside, Contents, Flag, Has, Used, Session
<1>4. ASSUME NEW t \in Socks \ misconnected', t # s, NEW x \in Sessions, Has(t, x)'
      PROVE  Flow(t, x)' /\ (faults' = 0 => Listens(t, x)') /\ (t \notin waited' => Comes(t, x)')
  <2>1. Has(t, x) /\ Beside(t) /\ ChipKept(x)
    BY <1>2, <1>3, <1>4
  <2>2. Flow(t, x) /\ (faults = 0 => Listens(t, x)) /\ (t \notin waited => Comes(t, x))
    BY <1>1, <1>2, <1>4, <2>1 DEF DataOk
  <2>3. Old(x) /\ Kept(x)
    <3>1. CASE line' = line \/ Head(line).k = "send"
      BY <1>1, <1>2, <3>1, OldLine
    <3>2. CASE line # <<>> /\ line' = Tail(line) /\ Head(line).s = s
      <4>1. Head(line) = line[1] /\ 1 \in 1..Len(line)
        BY <1>1, <3>2, LineTail, SessionFacts
      <4>2. Head(line).x # x
        BY <1>1, <1>4, <2>1, <3>2, <4>1 DEF IInv, ChipInv
      <4> QED BY <1>1, <1>2, <4>2, OldLine
    <3> QED BY <1>2, <3>1, <3>2 DEF SameLine
  <2> QED BY <1>2, <1>4, <2>1, <2>2, <2>3, BesideFlow, BesideListens, BesideComes
<1>5. ASSUME NEW t \in Socks \ misconnected', t # s, NEW x \in 0..MaxSessions, t \notin waited', opened'[t] = x
      PROVE  Reads(t, x)'
  BY <1>1, <1>2, <1>3, <1>5, BesideReads DEF DataOk
<1>6. \A t \in Socks \ misconnected' : ~Flag("full", t)' /\ gastrSockets'[t].user \in {0, 1}
  BY <1>1, <1>2, <1>3 DEF DataOk
<1>7. faults' = 0 => waited' = {}
  BY <1>1, <1>2 DEF DataOk
<1> QED BY <1>2, <1>4, <1>5, <1>6, <1>7 DEF DataOk

\* A step that closes s, or after which it is free, or as it was
LEMMA FreeData ==
  ASSUME DInv, NEW s \in Socks, OneSocket(s), ~Used(s)', opened'[s] = opened[s], got'[s] = got[s],
         waited' = waited, misconnected' = misconnected,
         Contents(s) \/ (gastrSocketBuffer'[s].head = 0 /\ gastrSocketBuffer'[s].tail = 0)
  PROVE  DataOk'
<1>1. IInv /\ DataOk
  BY DataFacts
<1>2. ASSUME NEW x \in 0..MaxSessions, s \notin misconnected', s \notin waited',
             opened'[s] = x
      PROVE  Reads(s, x)'
  <2>1. Reads(s, x)
    BY <1>1, <1>2 DEF DataOk
  <2>2. CASE Contents(s)
    BY <2>1, <2>2, BesideReads
  <2>3. CASE gastrSocketBuffer'[s].head = 0 /\ gastrSocketBuffer'[s].tail = 0
    <3>1. Available(s)' = 0
      BY <2>3 DEF Available
    <3> QED BY <2>1, <3>1 DEF Reads
  <2> QED BY <2>2, <2>3
<1>3. \A x \in Sessions : ~Has(s, x)'
  BY DEF Has
<1> QED BY <1>2, <1>3, OneSocketData

LEMMA CloseData ==
  ASSUME DInv, NEW s \in Socks, Closes({s}), NEW k, CloseDone(k, s), hif_small_xfer' = 0, pc' # "small",
         k[s].used = gastrSockets[s].used, k[s].user = gastrSockets[s].user,
         waited' = waited, got' = got, line' = line \/ Head(line).s = s,
         \A t \in Socks : t # s => gastrSocketBuffer'[t] = gastrSocketBuffer[t],
         Flag("full", s)' => Flag("full", s),
         Contents(s) \/ (gastrSocketBuffer'[s].head = 0 /\ gastrSocketBuffer'[s].tail = 0)
  PROVE  DataOk'
<1>1. IInv /\ DataOk /\ faults \in Nat
  BY DataFacts
<1>2. ASSUME s \notin misconnected' PROVE gastrSockets'[s].user \in {0, 1} /\ ~Flag("full", s)'
  <2>1. gastrSockets'[s].user \in {0, gastrSockets[s].user}
    BY DEF CloseDone, Unused
  <2> QED BY <1>1, <1>2, <2>1 DEF DataOk, Closes
<1>3. ASSUME NEW t \in Socks, NEW x \in Sessions, t # s, Has(t, x) PROVE ChipKept(x)
  <2>1. ~Has(s, x)
    BY <1>1, <1>3, SessionFacts
  <2> QED BY <2>1 DEF Closes, ChipKept
<1>4. OneSocket(s)
  BY <1>2, <1>3 DEF OneSocket, Closes, CloseDone
<1>5. ~Used(s)' /\ misconnected' = misconnected /\ opened' = opened
  BY DEF Closes, Used
<1> QED BY <1>4, <1>5, FreeData

\* The methods that move on, and a packet that is not read
LEMMA SameData ==
  ASSUME DInv,
         \/ Same /\ \E q, c : Moves(q, c)
         \/ PacketUnreadDone
  PROVE  DataOk'
<1>1. IInv /\ DataOk /\ faults \in Nat
  BY DataFacts
<1>2. /\ UNCHANGED <<sockVars, gastrSocketBuffer, xferVars, _socket, chip, opened, got, waited, misconnected>>
      /\ SameLine /\ (\E q, c : Goes(q, c)) /\ ((faults' = faults /\ line' = line) \/ faults' = faults + 1)
  BY DEF Same, PacketUnreadDone, SameLine, histVars, Moves
<1>3. hif_small_xfer' = 0 /\ pc' # "small"
  BY <1>1, <1>2 DEF DataOk, Goes, xferVars
<1>4. faults' = 0 => waited' = waited /\ (line' = line \/ Head(line).k = "send")
  BY <1>1, <1>2
<1>5. \A x \in Sessions : ChipKept(x)
  BY <1>2 DEF ChipKept
<1>6. \A s \in Socks : /\ gastrSockets'[s] = gastrSockets[s] /\ Contents(s) /\ got'[s] = got[s]
                       /\ gastrSocketBuffer'[s].flag \subseteq gastrSocketBuffer[s].flag \cup {"sending"}
  BY <1>2 DEF Contents, sockVars
<1> QED BY <1>2, <1>3, <1>4, <1>5, <1>6, QuietData

LEMMA CbSendData ==
  ASSUME DInv, NEW s \in Socks, CbSendDone(s)
  PROVE  DataOk'
<1>1. IInv /\ DataOk /\ faults \in Nat
  BY DataFacts
<1>2. /\ UNCHANGED <<sockVars, xferVars, chip, opened, got, waited, misconnected, faults>>
      /\ line # <<>> /\ line' = Tail(line) /\ SameLine /\ Head(line).k = "send" /\ Goes(Point, cur)
  BY DEF CbSendDone, TakesHead, SameLine, histVars
<1>3. hif_small_xfer' = 0 /\ pc' # "small"
  BY <1>1, <1>2 DEF DataOk, Goes, xferVars
<1>5. \A x \in Sessions : ChipKept(x)
  BY <1>2 DEF ChipKept
<1>6. \A t \in Socks : gastrSocketBuffer'[t].flag \subseteq gastrSocketBuffer[t].flag \cup {"sending"}
  BY DEF CbSendDone
<1>7. \A t \in Socks : gastrSockets'[t] = gastrSockets[t] /\ Contents(t) /\ got'[t] = got[t]
  BY <1>2 DEF CbSendDone, sockVars
<1> QED BY <1>2, <1>3, <1>5, <1>6, <1>7, QuietData

LEMMA SendData ==
  ASSUME DInv, NEW s \in Socks, SendDone(s), NEW q, NEW c, Moves(q, c)
  PROVE  DataOk'
<1>1. IInv /\ DataOk /\ faults \in Nat
  BY DataFacts
<1>2. /\ UNCHANGED <<sockVars, xferVars, line, opened, got, misconnected>> /\ SameLine
      /\ \/ faults' = faults /\ waited' = waited
         \/ faults' = faults + 1 /\ waited \subseteq waited'
  BY DEF SendDone, SameLine
<1>3. hif_small_xfer' = 0 /\ pc' # "small"
  BY <1>1, <1>2 DEF DataOk, Goes, Moves, xferVars
<1>4. faults' = 0 => waited' = waited
  BY <1>1, <1>2
<1>5. \A x \in Sessions : ChipKept(x)
  BY DEF SendDone, ChipKept
<1>6. \A t \in Socks : gastrSocketBuffer'[t].flag \subseteq gastrSocketBuffer[t].flag \cup {"sending"}
  BY DEF SendDone
<1>7. \A t \in Socks : gastrSockets'[t] = gastrSockets[t] /\ Contents(t) /\ got'[t] = got[t]
  BY <1>2 DEF SendDone, sockVars
<1> QED BY <1>2, <1>3, <1>4, <1>5, <1>6, <1>7, QuietData

\* A call of recv() for s is nothing to the other sessions.
LEMMA RecvOthers ==
  ASSUME IInv, NEW s \in Socks, NEW k, NEW at, RecvDone(k, s, at),
         k[s].used = gastrSockets[s].used, k[s].session = gastrSockets[s].session
  PROVE  \A t \in Socks, y \in Sessions : t # s /\ Has(t, y) => ChipKept(y)
<1> SUFFICES ASSUME NEW t \in Socks, NEW y \in Sessions, t # s, Has(t, y) PROVE ChipKept(y)
  OBVIOUS
<1>1. ~Has(s, y)
  BY SessionFacts
<1>2. ~(k[s].used /\ y = k[s].session)
  BY <1>1 DEF Has, Used, Session
<1> QED BY <1>2 DEF RecvDone, ChipKept

\* The answer to the CONNECT of the session that the socket has
LEMMA OwnConnectData ==
  ASSUME DInv, NEW s \in Socks, NEW x \in Sessions, CbConnectDone(s, x),
         Has(s, x), s \notin misconnected'
  PROVE  DataOk'
<1>1. IInv /\ DataOk /\ faults \in Nat /\ chip[x].made \in Nat
  BY DataFacts, SessionFacts
<1>2. /\ SameLine /\ AsNew(s, x) /\ ~Connecting(x)'
      /\ s \notin misconnected /\ misconnected' = misconnected
      /\ chip[x].phase # "connecting" /\ chip[x].asked = 0 /\ ~Coming("recv", x)
      /\ ~Head(line).ok => chip[x].phase = "closed"
  <2>1. /\ SameLine /\ Connecting(x) /\ ~Connecting(x)' /\ misconnected \subseteq misconnected'
        /\ chip[x].phase # "connecting" /\ (~Head(line).ok => chip[x].phase = "closed")
    BY <1>1, CbConnectFacts
  <2>2. s \notin misconnected /\ misconnected' = misconnected
    BY <2>1 DEF CbConnectDone, Has, Used, Session
  <2> QED BY <1>1, <2>1, <2>2, Waiting DEF Waits
<1>3. /\ UNCHANGED <<xferVars, opened, got, waited>> /\ Goes(Point, cur) /\ Head(line).s = s
      /\ \A t \in Socks : Contents(t)
      /\ \A t \in Socks : t # s => gastrSocketBuffer'[t] = gastrSocketBuffer[t]
      /\ gastrSocketBuffer'[s].flag \in {{}, {"connected"}}
  BY DEF CbConnectDone, TakesHead
<1>4. hif_small_xfer' = 0 /\ pc' # "small"
  BY <1>1, <1>3 DEF DataOk, Goes, xferVars
<1>5. gastrSockets[s].user = 0 /\ ~gastrSockets[s].pending /\ Has(s, x)
      /\ gastrSocketBuffer[s].head = 0 /\ gastrSocketBuffer[s].tail = 0
  BY <1>2 DEF AsNew
\* What recv() does for the session, or nothing
<1>6. /\ gastrSockets'[s].user \in {0, 1} /\ gastrSockets'[s].session = gastrSockets[s].session
      /\ chip'[x].phase = chip[x].phase /\ chip'[x].made = chip[x].made
      /\ chip'[x].asked \in {0, 1} /\ (gastrSockets'[s].user = 0 => chip'[x].asked = 0)
      /\ chip'[x].phase = "open" /\ gastrSocketBuffer[s].alloc /\ faults' = faults => chip'[x].asked = 1
      /\ faults' = faults \/ faults' = faults + 1
      /\ \A t \in Socks : t # s => gastrSockets'[t] = gastrSockets[t]
      /\ \A t \in Socks, y \in Sessions : t # s /\ Has(t, y) => ChipKept(y)
  <2>1. CASE Head(line).ok /\ RecvDone(gastrSockets, s, Start(s))
    <3>1. Start(s) \in {0, 1} /\ (gastrSocketBuffer[s].alloc => Start(s) = 1)
      BY <1>1, StartTypes, SessionFacts DEF AllTypes
    <3>2. gastrSockets[s].used /\ gastrSockets[s].session = x
      BY <1>5 DEF Has, Used, Session
    <3>3. /\ gastrSockets'[s].user \in {0, 1} /\ gastrSockets'[s].session = gastrSockets[s].session
          /\ (gastrSockets'[s].user = 0 => Start(s) = 0)
      BY <1>5, <2>1, <3>1, <3>2 DEF RecvDone
    <3>4. /\ chip'[x].phase = chip[x].phase /\ chip'[x].made = chip[x].made
          /\ chip'[x].asked \in {0, 1} /\ (Start(s) = 0 => chip'[x].asked = 0)
          /\ chip'[x].phase = "open" /\ Start(s) # 0 /\ faults' = faults => chip'[x].asked = 1
      BY <1>2, <1>5, <2>1, <3>2 DEF RecvDone
    <3>5. \A t \in Socks, y \in Sessions : t # s /\ Has(t, y) => ChipKept(y)
      BY <1>1, <2>1, RecvOthers
    <3> QED BY <2>1, <3>1, <3>3, <3>4, <3>5 DEF RecvDone
  <2>2. CASE ~Head(line).ok /\ UNCHANGED <<gastrSockets, chip, faults>>
    BY <1>2, <1>5, <2>2 DEF ChipKept
  <2> QED BY <2>1, <2>2 DEF CbConnectDone
<1>7. OneSocket(s)
  <2>1. ~Flag("full", s)'
    BY <1>3 DEF Flag
  <2> QED BY <1>2, <1>3, <1>4, <1>6, <2>1 DEF OneSocket
<1>8. ~Coming("recv", x)' /\ \A i \in 1..Len(line') : ~(line'[i].k = "recv" /\ line'[i].x = x)
  <2>1. ~Coming("recv", x)'
    BY <1>1, <1>2, Shorter
  <2> QED BY <2>1 DEF Coming
<1>9. Flow(s, x)'
  BY <1>3, <1>5, <1>6, <1>8 DEF Flow, OneOf, Contents
<1>10. ASSUME faults' = 0 PROVE Listens(s, x)'
  <2>1. faults = 0 /\ faults' = faults /\ waited = {}
    BY <1>1, <1>6, <1>10 DEF DataOk
  <2>2. gastrSocketBuffer[s].alloc
    BY <1>1, <1>2, <1>5, <2>1 DEF IInv, LiveInv, Has, Astray
  <2> QED BY <1>6, <2>1, <2>2 DEF Listens
<1>11. ASSUME s \notin waited' PROVE Comes(s, x)'
  <2>1. Comes(s, x) /\ Connecting(x)
    <3>1. Comes(s, x)
      BY <1>1, <1>2, <1>3, <1>5, <1>11 DEF DataOk
    <3>2. Coming("connect", x)
      <4>1. /\ line # <<>> /\ Head(line).k = "connect" /\ Head(line).x = x /\ line' = Tail(line)
        BY DEF CbConnectDone, TakesHead
      <4>2. 1 \in 1..Len(line) /\ Head(line) = line[1]
        BY <1>1, <4>1, LineTail, SessionFacts
      <4> QED BY <4>1, <4>2 DEF Coming
    <3> QED BY <3>1, <3>2 DEF Connecting
  <2>2. Len(got[s]) = 0 /\ chip[x].made = 0
    BY <2>1 DEF Comes
  <2>3. got'[s] = got[s] /\ gastrSocketBuffer'[s].head = 0
    BY <1>3, <1>5 DEF Contents
  <2>4. /\ chip'[x].phase = "open" /\ chip'[x].asked > 0 => chip'[x].made = Len(got'[s])
        /\ ~(gastrSocketBuffer'[s].head > 0)
    BY <1>6, <2>2, <2>3
  <2> QED BY <1>2, <1>8, <2>4 DEF Comes
<1>12. ASSUME NEW z \in 0..MaxSessions, s \notin waited', opened'[s] = z PROVE Reads(s, z)'
  <2>1. Reads(s, z)
    BY <1>1, <1>2, <1>3, <1>12 DEF DataOk
  <2> QED BY <1>3, <2>1, BesideReads
<1>13. \A z \in Sessions : Has(s, z)' => z = x
  BY <1>5, <1>6 DEF Has, Used, Session
<1> QED BY <1>1, <1>7, <1>9, <1>10, <1>11, <1>12, <1>13, OneSocketData

LEMMA CbConnectData ==
  ASSUME DInv, NEW s \in Socks, NEW x \in Sessions, CbConnectDone(s, x)
  PROVE  DataOk'
<1>1. IInv /\ DataOk
  BY DataFacts
<1>2. /\ SameLine /\ misconnected \subseteq misconnected'
      /\ ~Used(s) \/ s \in misconnected' \/ (Has(s, x) /\ s \notin misconnected')
  BY <1>1, CbConnectFacts
<1>3. /\ UNCHANGED <<xferVars, opened, got, waited>> /\ Goes(Point, cur) /\ Head(line).s = s
      /\ \A t \in Socks : Contents(t)
      /\ \A t \in Socks : t # s => gastrSocketBuffer'[t] = gastrSocketBuffer[t]
      /\ gastrSocketBuffer'[s].flag \in {{}, {"connected"}}
  BY DEF CbConnectDone, TakesHead
<1>4. hif_small_xfer' = 0 /\ pc' # "small"
  BY <1>1, <1>3 DEF DataOk, Goes, xferVars
<1>5. /\ faults' = faults \/ faults' = faults + 1
      /\ \A t \in Socks : t # s => gastrSockets'[t] = gastrSockets[t]
      /\ \A t \in Socks, y \in Sessions : t # s /\ Has(t, y) => ChipKept(y)
  <2>1. CASE RecvDone(gastrSockets, s, Start(s))
    <3>1. \A t \in Socks, y \in Sessions : t # s /\ Has(t, y) => ChipKept(y)
      BY <1>1, <2>1, RecvOthers
    <3> QED BY <2>1, <3>1 DEF RecvDone
  <2>2. CASE UNCHANGED <<gastrSockets, chip, faults>>
    BY <2>2 DEF ChipKept
  <2> QED BY <2>1, <2>2 DEF CbConnectDone
<1>6. CASE s \in misconnected'
  <2>1. OneSocket(s)
    BY <1>2, <1>3, <1>4, <1>5, <1>6 DEF OneSocket
  <2> QED BY <1>6, <2>1, OneSocketData
<1>7. CASE ~Used(s) /\ s \notin misconnected'
  <2>1. gastrSockets'[s] = gastrSockets[s] /\ ~Used(s)'
    BY <1>7 DEF CbConnectDone, RecvDone, Used
  <2>2. gastrSockets'[s].user \in {0, 1} /\ ~Flag("full", s)'
    BY <1>1, <1>2, <1>3, <1>7, <2>1 DEF DataOk, Flag
  <2>3. misconnected' = misconnected
    BY <1>7 DEF CbConnectDone
  <2>4. OneSocket(s)
    BY <1>2, <1>3, <1>4, <1>5, <2>2 DEF OneSocket
  <2> QED BY <1>3, <2>1, <2>3, <2>4, FreeData
<1>8. CASE Has(s, x) /\ s \notin misconnected'
  BY <1>8, OwnConnectData
<1> QED BY <1>2, <1>6, <1>7, <1>8

\* An answer to recv() that is not data
LEMMA NoData ==
  ASSUME DInv, DefaultBuild, NEW s \in Socks, NEW x \in Sessions, RecvReplyDone(s, x),
         ReplyNoData(s, x) \/ ReplyEof(s, x)
  PROVE  DataOk'
<1>1. IInv /\ DataOk /\ faults \in Nat /\ line \in Seq(Answers)
  BY DataFacts, SessionFacts
<1>2. /\ UNCHANGED <<gu16SessionID, got, opened, waited, misconnected>> /\ Goes(Point, cur)
      /\ line # <<>> /\ line' = Tail(line) /\ SameLine
      /\ Head(line).k = "recv" /\ Head(line).s = s /\ Head(line).x = x
  BY DEF RecvReplyDone, TakesHead, SameLine
<1>3. 1 \in 1..Len(line) /\ Head(line) = line[1] /\ Head(line) \in Answers
  BY <1>1, <1>2, LineTail
<1>4. hif_small_xfer' = 0 /\ pc' # "small"
  <2>1. Len(Head(line).data) <= Mtu
    BY <1>2, <1>3, AnswerTypes, Bounds DEF DefaultBuild
  <2> QED BY <1>1, <1>2, <2>1 DEF RecvReplyDone, DataOk, Goes
<1>5. /\ \A t \in Socks : t # s => Reset(s)[t] = gastrSockets[t]
      /\ Reset(s)[s].used = gastrSockets[s].used
      /\ Reset(s)[s].session = gastrSockets[s].session
      /\ Reset(s)[s].user = gastrSockets[s].user /\ Reset(s)[s].pending = FALSE
  BY <1>1, ResetEffect, SessionFacts DEF AllTypes
<1> HIDE DEF Reset
<1>6. CASE ReplyEof(s, x)
  <2>1. /\ \A t \in Socks : t # s => gastrSocketBuffer'[t] = gastrSocketBuffer[t]
        /\ ~Flag("full", s)' /\ Contents(s) /\ CloseDone(Reset(s), s)
    BY <1>6 DEF ReplyEof, Flag
  <2>2. Closes({s})
    BY <1>1, <1>2, <1>5, <2>1, CloseCloses
  <2> QED BY <1>2, <1>4, <1>5, <2>1, <2>2, CloseData
<1>7. CASE ReplyNoData(s, x)
  <2>1. /\ UNCHANGED <<gastrSocketBuffer, chip>> /\ gastrSockets' = Reset(s)
        /\ faults' = faults \/ faults' = faults + 1
        /\ x # gastrSockets[s].session \/ ~Readable(s) \/ faults' = faults + 1
    BY <1>7 DEF ReplyNoData
  <2>2. (\A z : ChipKept(z)) /\ \A t \in Socks : Contents(t)
    BY <2>1 DEF ChipKept, Contents
  <2>3. Beside(s) /\ \A z : Has(s, z)' <=> Has(s, z)
    BY <1>2, <1>5, <2>1, <2>2 DEF Beside, Has, Used, Session
  <2>4. OneSocket(s)
    <3>1. s \notin misconnected' => ~Flag("full", s)' /\ gastrSockets'[s].user \in {0, 1}
      BY <1>1, <1>2, <1>5, <2>1 DEF DataOk, Flag
    <3> QED BY <1>2, <1>4, <1>5, <2>1, <2>2, <3>1 DEF OneSocket
  <2>5. ASSUME NEW z \in Sessions, s \notin misconnected', Has(s, z)'
        PROVE  Flow(s, z)' /\ (faults' = 0 => Listens(s, z)') /\ (s \notin waited' => Comes(s, z)')
    <3>1. Has(s, z) /\ Flow(s, z) /\ (faults = 0 => Listens(s, z)) /\ (s \notin waited => Comes(s, z))
      BY <1>1, <1>2, <2>3, <2>5 DEF DataOk
    <3>2. Old(z)
      BY <1>1, <1>2, OldLine
    <3>3. ASSUME faults' = 0 PROVE faults = 0 /\ Kept(z)
      <4>1. faults = 0 /\ faults' # faults + 1
        BY <1>1, <2>1, <3>3
      <4>2. z # x
        <5>1. ASSUME z = x PROVE FALSE
          <6>1. ~Readable(s) /\ gastrSockets[s].used
            BY <2>1, <3>1, <4>1, <5>1 DEF Has, Session, Used
          <6>2. Coming("recv", z)
            BY <1>2, <1>3, <5>1 DEF Coming
          <6> QED BY <3>1, <6>1, <6>2 DEF Flow, Readable
        <5> QED BY <5>1
      <4> QED BY <1>1, <1>2, <4>1, <4>2, OldLine
    <3> QED BY <1>2, <2>2, <2>3, <3>1, <3>2, <3>3, BesideFlow, BesideListens, BesideComes
  <2>6. ASSUME NEW z \in 0..MaxSessions, s \notin misconnected', s \notin waited', opened'[s] = z
        PROVE  Reads(s, z)'
    <3>1. Reads(s, z)
      BY <1>1, <1>2, <2>6 DEF DataOk
    <3> QED BY <1>2, <2>2, <3>1, BesideReads
  <2> QED BY <2>4, <2>5, <2>6, OneSocketData
<1> QED BY <1>6, <1>7

\* The data of an answer fill the empty buffer.
LEMMA RoomData ==
  ASSUME DInv, DefaultBuild, NEW s \in Socks, NEW x \in Sessions, RecvReplyDone(s, x),
         ReplyData(s, x), s \notin misconnected
  PROVE  DataOk'
<1>1. IInv /\ DataOk /\ faults \in Nat /\ line \in Seq(Answers) /\ chip[x].asked \in Nat
  BY DataFacts, SessionFacts
<1>2. /\ UNCHANGED <<gu16SessionID, got, opened, waited, misconnected, orphaned>> /\ Goes(Point, cur)
      /\ line # <<>> /\ line' = Tail(line) /\ SameLine
      /\ Head(line).k = "recv" /\ Head(line).s = s /\ Head(line).x = x
  BY DEF RecvReplyDone, ReplyData, TakesHead, SameLine
<1> DEFINE data == Head(line).data
           n == Len(data)
<1>3. /\ 1 \in 1..Len(line) /\ Head(line) = line[1] /\ Head(line) \in Answers /\ Len(line) \in Nat
      /\ \A i \in 1..Len(line') : i + 1 \in 1..Len(line) /\ line'[i] = line[i + 1]
  BY <1>1, <1>2, LineTail
<1>4. n \in Nat /\ n <= Mtu
  BY <1>2, <1>3, AnswerTypes, Bounds DEF DefaultBuild
<1>5. hif_small_xfer' = 0 /\ pc' # "small"
  BY <1>1, <1>2, <1>4 DEF RecvReplyDone, DataOk, Goes
<1>6. /\ \A t \in Socks : t # s => Reset(s)[t] = gastrSockets[t]
      /\ Reset(s)[s].used = gastrSockets[s].used
      /\ Reset(s)[s].session = gastrSockets[s].session
      /\ Reset(s)[s].user = gastrSockets[s].user /\ Reset(s)[s].pending = FALSE
  BY <1>1, ResetEffect, SessionFacts DEF AllTypes
<1> HIDE DEF Reset
<1>7. PICK b, more : /\ n > 0 /\ Stored(b, s, data) /\ ~more /\ CbRecvDone(Reset(s), b, s, n, more)
  BY <1>4 DEF ReplyData
<1>8. Has(s, x) /\ gastrSockets[s].user # 0
  BY DEF ReplyData, Readable, Has, Used, Session
<1>9. Coming("recv", x)
  BY <1>2, <1>3 DEF Coming
<1> HIDE DEF data, n
\* The buffer was empty, and this is the session's only answer.
<1>10. /\ gastrSockets[s].user = 1 /\ gastrSocketBuffer[s].head = 0 /\ gastrSocketBuffer[s].tail = 0
       /\ chip[x].asked = 0 /\ Flow(s, x) /\ ~Connecting(x)
  <2>1. Flow(s, x) /\ gastrSockets[s].user = 1
    BY <1>1, <1>8 DEF DataOk
  <2>2. /\ gastrSocketBuffer[s].head \in Nat /\ gastrSocketBuffer[s].tail \in Nat
        /\ gastrSocketBuffer[s].tail <= gastrSocketBuffer[s].head
    BY <1>1, BufferFields, SessionFacts DEF AllTypes
  <2>3. gastrSocketBuffer[s].head = 0 /\ chip[x].asked = 0
    BY <1>1, <1>9, <2>1, <2>2 DEF Flow, OneOf
  <2>4. ~Connecting(x)
    BY <1>1, <1>8, <1>9, Waiting DEF Waits
  <2> QED BY <2>1, <2>2, <2>3, <2>4
<1>11. \A i \in 1..Len(line') : ~(line'[i].k = "recv" /\ line'[i].x = x)
  <2>1. ASSUME NEW i \in 1..Len(line'), line'[i].k = "recv" /\ line'[i].x = x PROVE FALSE
    <3>1. i + 1 = 1
      BY <1>2, <1>3, <1>10, <2>1 DEF Flow, OneOf
    <3> QED BY <1>3, <2>1, <3>1
  <2> QED BY <2>1
<1>12. /\ \A t \in Socks : t # s => gastrSocketBuffer'[t] = gastrSocketBuffer[t]
       /\ gastrSocketBuffer'[s].alloc = gastrSocketBuffer[s].alloc
       /\ gastrSocketBuffer'[s].flag = gastrSocketBuffer[s].flag
       /\ gastrSocketBuffer'[s].head = n /\ gastrSocketBuffer'[s].tail = 0
       /\ gastrSocketBuffer[s].alloc => \A i \in 1..TcpSize :
            gastrSocketBuffer'[s].mem[i] = IF i \in 1..(1 + n - 1) THEN data[i - 1 + 1]
                                           ELSE gastrSocketBuffer[s].mem[i]
       /\ gastrSockets' = Reset(s) /\ chip' = chip /\ faults' = faults
  <2>1. /\ b[s].head = 0 /\ b[s].tail = 0 /\ b[s].flag = gastrSocketBuffer[s].flag
        /\ b[s].alloc = gastrSocketBuffer[s].alloc
        /\ \A t \in Socks : t # s => b[t] = gastrSocketBuffer[t]
        /\ gastrSocketBuffer[s].alloc => \A i \in 1..TcpSize :
             b[s].mem[i] = IF i \in 1..(1 + n - 1) THEN data[i - 1 + 1] ELSE gastrSocketBuffer[s].mem[i]
    BY <1>7, <1>10 DEF Stored, n
  <2>2. b[s].head + n <= TcpSize /\ b[s].head + n = n /\ Mtu = TcpSize
    BY <1>4, <2>1 DEF DefaultBuild
  <2>3. /\ \A t \in Socks : t # s => gastrSocketBuffer'[t] = b[t]
        /\ gastrSocketBuffer'[s].alloc = b[s].alloc /\ gastrSocketBuffer'[s].mem = b[s].mem
        /\ gastrSocketBuffer'[s].tail = b[s].tail
    BY <1>7, Zenon DEF CbRecvDone
  <2>4. /\ gastrSocketBuffer'[s].head = b[s].head + n /\ gastrSocketBuffer'[s].flag = b[s].flag
        /\ gastrSockets' = Reset(s) /\ chip' = chip /\ faults' = faults
    BY <1>7, <2>2, Zenon DEF CbRecvDone
  <2> QED BY <2>1, <2>2, <2>3, <2>4
<1>13. gastrSockets'[s].user = 1 /\ ~gastrSockets'[s].pending
       /\ gastrSockets'[s].session = gastrSockets[s].session
  BY <1>6, <1>10, <1>12
<1>14. OneSocket(s)
  <2>1. ~Flag("full", s)'
    BY <1>1, <1>12 DEF DataOk, Flag
  <2> QED BY <1>2, <1>5, <1>6, <1>12, <1>13, <2>1 DEF OneSocket, ChipKept
<1>15. Available(s)' = n
  BY <1>4, <1>12 DEF Available
<1>16. Flow(s, x)' /\ Listens(s, x)'
  <2>1. ~Coming("recv", x)'
    BY <1>11 DEF Coming
  <2>2. Flow(s, x)'
    BY <1>10, <1>11, <1>12, <2>1 DEF Flow, OneOf
  <2> QED BY <1>7, <1>13, <1>15, <2>2 DEF Listens
<1>17. ASSUME s \notin waited
       PROVE  /\ \A j \in 1..n : data[j] = Unit(x, Len(got[s]) + j)
              /\ chip[x].phase = "open" => chip[x].made = Len(got[s]) + n
  <2>1. Comes(s, x)
    BY <1>1, <1>8, <1>17 DEF DataOk
  <2> QED BY <1>2, <1>3, <2>1 DEF Comes, data, n
<1>18. ASSUME s \notin waited' PROVE Comes(s, x)'
  <2>1. ~Connecting(x)'
    <3>1. chip'[x].phase = "connecting" => chip[x].phase = "connecting"
      BY <1>12
    <3> QED BY <1>1, <1>2, <1>10, <3>1, StillConnecting
  <2>2. chip[x].phase = "open" => chip'[x].made = Len(got'[s]) + Available(s)'
    BY <1>2, <1>12, <1>15, <1>17, <1>18
  <2>3. ~(chip'[x].asked > 0)
    BY <1>10, <1>12
  <2> QED BY <1>11, <1>12, <2>1, <2>2, <2>3 DEF Comes
<1>19. ASSUME NEW z \in 0..MaxSessions, s \notin waited', opened'[s] = z PROVE Reads(s, z)'
  <2>1. z = x
    BY <1>1, <1>2, <1>8, <1>19 DEF IInv, SessionInv, Has
  <2>2. Reads(s, x)
    BY <1>1, <1>2, <1>19, <2>1 DEF DataOk
  <2>3. gastrSocketBuffer[s].alloc
    BY <1>1, <1>2, <1>8, <1>19 DEF IInv, LiveInv, Has, Astray
  <2>4. \A i \in 1..n : i \in 1..TcpSize /\ i \in 1..(1 + n - 1) /\ i - 1 + 1 = i /\ 0 + i = i
    BY <1>4, Bounds
  <2>5. \A i \in 1..n : gastrSocketBuffer'[s].mem[0 + i] = Unit(x, Len(got[s]) + i)
    <3>1. \A i \in 1..n : gastrSocketBuffer'[s].mem[0 + i] = data[i]
      BY <1>12, <2>3, <2>4
    <3> QED BY <1>2, <1>17, <1>19, <3>1
  <2> QED BY <1>2, <1>12, <1>15, <2>1, <2>2, <2>5 DEF Reads
<1>20. \A z \in Sessions : Has(s, z)' => z = x
  BY <1>8, <1>13 DEF Has, Used, Session
<1> QED BY <1>1, <1>2, <1>14, <1>16, <1>18, <1>19, <1>20, OneSocketData

LEMMA StoredData ==
  ASSUME DInv, DefaultBuild, NEW s \in Socks, NEW x \in Sessions, RecvReplyDone(s, x), ReplyData(s, x)
  PROVE  DataOk'
<1>1. IInv /\ DataOk /\ faults \in Nat /\ line \in Seq(Answers) /\ chip[x].asked \in Nat
  BY DataFacts, SessionFacts
<1>2. /\ UNCHANGED <<gu16SessionID, got, opened, waited, misconnected, orphaned>> /\ Goes(Point, cur)
      /\ line # <<>> /\ line' = Tail(line) /\ SameLine
      /\ Head(line).k = "recv" /\ Head(line).s = s /\ Head(line).x = x
  BY DEF RecvReplyDone, ReplyData, TakesHead, SameLine
<1>3. /\ 1 \in 1..Len(line) /\ Head(line) = line[1] /\ Head(line) \in Answers /\ Len(line) \in Nat
      /\ \A i \in 1..Len(line') : i + 1 \in 1..Len(line) /\ line'[i] = line[i + 1]
  BY <1>1, <1>2, LineTail
<1>4. Len(Head(line).data) \in Nat /\ Len(Head(line).data) <= Mtu
  BY <1>2, <1>3, AnswerTypes, Bounds DEF DefaultBuild
<1>5. hif_small_xfer' = 0 /\ pc' # "small"
  BY <1>1, <1>2, <1>4 DEF RecvReplyDone, DataOk, Goes
<1>6. /\ \A t \in Socks : t # s => Reset(s)[t] = gastrSockets[t]
      /\ Reset(s)[s].used = gastrSockets[s].used
      /\ Reset(s)[s].session = gastrSockets[s].session
      /\ Reset(s)[s].user = gastrSockets[s].user /\ Reset(s)[s].pending = FALSE
  BY <1>1, ResetEffect, SessionFacts DEF AllTypes
<1> HIDE DEF Reset
<1>7. PICK b, n, more, data : Stored(b, s, data) /\ CbRecvDone(Reset(s), b, s, n, more)
  BY DEF ReplyData
<1>8. CASE s \in misconnected
  <2>1. PICK at : RecvDone(Reset(s), s, at)
    BY <1>7 DEF CbRecvDone
  <2>2. \A t \in Socks, y \in Sessions : t # s /\ Has(t, y) => ChipKept(y)
    BY <1>1, <1>6, <2>1, RecvOthers
  <2>3. /\ \A t \in Socks : t # s => gastrSocketBuffer'[t] = gastrSocketBuffer[t]
        /\ \A t \in Socks : t # s => gastrSockets'[t] = gastrSockets[t]
        /\ faults' = faults \/ faults' = faults + 1
    BY <1>6, <1>7, <2>1 DEF CbRecvDone, RecvDone, Stored
  <2>4. OneSocket(s)
    BY <1>2, <1>5, <1>8, <2>2, <2>3 DEF OneSocket
  <2> QED BY <1>2, <1>8, <2>4, OneSocketData
\* Unless the socket took another's CONNECT for its own, its buffer has room.
<1>9. CASE s \notin misconnected
  BY <1>9, RoomData
<1> QED BY <1>8, <1>9

\* read() and flush() take the next units; with the last of them the next RECV is sent.
LEMMA ReadData ==
  ASSUME DInv, NEW s \in Socks, NEW n \in 1..Available(s), ReadDone(s, n), NEW q, NEW c, Moves(q, c)
  PROVE  DataOk'
<1> DEFINE head == gastrSocketBuffer[s].head
           tail == gastrSocketBuffer[s].tail
           g == Len(got[s])
           last == tail + n = head
<1>1. IInv /\ DataOk /\ faults \in Nat /\ line \in Seq(Answers) /\ \A x \in Sessions : chip[x].made \in Nat
  BY DataFacts, SessionFacts
<1>2. UNCHANGED <<xferVars, line, opened, waited, misconnected>> /\ BufferReadDone(s, n) /\ SameLine
  BY DEF ReadDone, SameLine
<1>3. hif_small_xfer' = 0 /\ pc' # "small"
  BY <1>1, <1>2 DEF DataOk, Goes, Moves, xferVars
<1>4. /\ \A t \in Socks : t # s => gastrSocketBuffer'[t] = gastrSocketBuffer[t] /\ got'[t] = got[t]
      /\ gastrSocketBuffer'[s].alloc = gastrSocketBuffer[s].alloc
      /\ gastrSocketBuffer'[s].mem = gastrSocketBuffer[s].mem
      /\ gastrSocketBuffer'[s].flag \subseteq gastrSocketBuffer[s].flag
      /\ Len(got'[s]) = g + n
      /\ \A i \in 1..g : got'[s][i] = got[s][i]
      /\ \A i \in 1..n : got'[s][g + i] = gastrSocketBuffer[s].mem[tail + i]
  BY <1>2, Zenon DEF BufferReadDone
<1>5. /\ last => /\ gastrSocketBuffer'[s].head = 0 /\ gastrSocketBuffer'[s].tail = 0
                 /\ RecvDone(gastrSockets, s, Start(s))
      /\ ~last => /\ gastrSocketBuffer'[s].head = head /\ gastrSocketBuffer'[s].tail = tail + n
                  /\ UNCHANGED <<gastrSockets, chip, faults>>
  BY <1>2 DEF BufferReadDone
<1>6. head \in Nat /\ tail \in Nat /\ n \in Nat \ {0} /\ tail + n <= head /\ g \in Nat
  <2>1. head \in Nat /\ tail \in Nat /\ got[s] \in Seq(Data \cup {Stale})
    BY <1>1, BufferFields, SessionFacts DEF AllTypes, OtherTypes
  <2> QED BY <2>1 DEF Available
<1>7. /\ last => Available(s) = n /\ Available(s)' = 0
      /\ ~last => Available(s)' = Available(s) - n /\ Available(s)' > 0
      /\ n \in 1..Available(s) /\ Available(s) \in Nat
  <2>1. /\ Available(s) = head - tail
        /\ last => Available(s)' = 0 - 0 /\ tail + n = head
        /\ ~last => Available(s)' = head - (tail + n) /\ tail + n # head
    BY <1>5 DEF Available
  <2> HIDE DEF head, tail, last
  <2> QED BY <1>6, <2>1
<1> HIDE DEF head, tail, g, last
<1>9. OneSocket(s)
  <2>1. s \notin misconnected' => gastrSockets'[s].user \in {0, 1} /\ ~Flag("full", s)'
    <3> SUFFICES ASSUME s \notin misconnected PROVE gastrSockets'[s].user \in {0, 1} /\ ~Flag("full", s)'
      BY <1>2
    <3>1. Start(s) \in {0, 1} /\ gastrSockets[s].user \in {0, 1} /\ ~Flag("full", s)
      BY <1>1, StartTypes, SessionFacts DEF AllTypes, DataOk
    <3>2. gastrSockets'[s].user \in {0, 1}
      BY <1>5, <3>1 DEF RecvDone
    <3> QED BY <1>4, <3>1, <3>2 DEF Flag
  <2>2. /\ \A t \in Socks : t # s => gastrSockets'[t] = gastrSockets[t]
        /\ faults' = faults \/ faults' = faults + 1
    BY <1>5 DEF RecvDone
  <2>3. \A t \in Socks, y \in Sessions : t # s /\ Has(t, y) => ChipKept(y)
    <3>1. CASE last
      BY <1>1, <1>5, <3>1, RecvOthers
    <3>2. CASE ~last
      BY <1>5, <3>2 DEF ChipKept
    <3> QED BY <3>1, <3>2
  <2> QED BY <1>2, <1>3, <1>4, <2>1, <2>2, <2>3 DEF OneSocket
<1>10. ASSUME NEW x \in Sessions, s \notin misconnected', Has(s, x)'
       PROVE  Flow(s, x)' /\ (faults' = 0 => Listens(s, x)') /\ (s \notin waited' => Comes(s, x)')
  <2>1. Has(s, x) /\ gastrSockets[s].used /\ gastrSockets[s].session = x
    <3>1. gastrSockets'[s].used = gastrSockets[s].used /\ gastrSockets'[s].session = gastrSockets[s].session
      BY <1>5 DEF RecvDone
    <3> QED BY <1>10, <3>1 DEF Has, Used, Session
  <2>2. Flow(s, x) /\ (faults = 0 => Listens(s, x)) /\ (s \notin waited => Comes(s, x))
    BY <1>1, <1>2, <1>10, <2>1 DEF DataOk
  \* With data in the buffer there is no RECV.
  <2>3. head > 0 /\ chip[x].asked = 0 /\ ~Coming("recv", x)
    BY <1>6, <2>2 DEF Flow, head
  <2>4. ~Coming("recv", x)' /\ \A i \in 1..Len(line') : ~(line'[i].k = "recv" /\ line'[i].x = x)
    BY <1>2, <2>3 DEF Coming
  <2>5. ~Connecting(x)'
    <3>1. ~Connecting(x)
      <4>1. ASSUME Connecting(x) PROVE FALSE
        <5>1. AsNew(s, x)
          BY <1>1, <1>2, <1>10, <2>1, <4>1, Waiting
        <5> QED BY <2>3, <5>1 DEF AsNew, head
      <4> QED BY <4>1
    <3>2. chip'[x].phase = chip[x].phase
      BY <1>5 DEF RecvDone
    <3> QED BY <1>1, <1>2, <3>1, <3>2, StillConnecting
  <2>6. CASE last
    <3>1. /\ gastrSocketBuffer'[s].head = 0 /\ Available(s)' = 0
          /\ RecvDone(gastrSockets, s, Start(s)) /\ Available(s) = n
      BY <1>5, <1>7, <2>6
    <3>2. /\ chip'[x].phase = chip[x].phase /\ chip'[x].made = chip[x].made
          /\ chip'[x].asked \in {0, 1} /\ (Start(s) = 0 => chip'[x].asked = 0)
          /\ Start(s) # 0 => gastrSockets'[s].user # 0
      BY <2>1, <2>3, <3>1 DEF RecvDone
    <3>3. Flow(s, x)'
      BY <2>4, <3>1, <3>2 DEF Flow, OneOf
    <3>4. ASSUME faults' = 0, chip'[x].phase = "open" PROVE chip'[x].asked = 1
      <4>1. faults = 0 /\ faults' = faults /\ waited = {}
        <5>1. faults' = faults \/ faults' = faults + 1
          BY <3>1 DEF RecvDone
        <5> QED BY <1>1, <3>4, <5>1 DEF DataOk
      <4>2. Start(s) # 0
        <5>1. gastrSocketBuffer[s].alloc
          BY <1>1, <1>2, <1>10, <2>1, <4>1 DEF IInv, LiveInv, Has, Astray
        <5> QED BY <5>1 DEF Start
      <4>3. ~gastrSockets[s].pending
        BY <2>2, <2>3, <3>2, <3>4, <4>1 DEF Listens
      <4> QED BY <2>1, <2>3, <3>1, <3>2, <3>4, <4>1, <4>2, <4>3 DEF RecvDone
    <3>5. faults' = 0 => Listens(s, x)'
      BY <3>4 DEF Listens
    <3>6. ASSUME s \notin waited' PROVE Comes(s, x)'
      <4>1. chip[x].phase = "open" => chip[x].made = g + n
        BY <1>2, <2>2, <2>3, <3>1, <3>6 DEF Comes, head, g
      <4>2. /\ chip'[x].phase = "open" => chip'[x].made = Len(got'[s])
            /\ ~(gastrSocketBuffer'[s].head > 0)
        BY <1>4, <3>1, <3>2, <4>1
      <4> QED BY <2>4, <2>5, <4>2 DEF Comes
    <3> QED BY <3>3, <3>5, <3>6
  <2>7. CASE ~last
    <3>1. /\ gastrSocketBuffer'[s].head = head /\ UNCHANGED <<gastrSockets, chip, faults>>
          /\ Available(s)' > 0 /\ Available(s)' = Available(s) - n
      BY <1>5, <1>7, <2>7
    <3>2. Flow(s, x)'
      BY <2>3, <2>4, <3>1 DEF Flow, OneOf
    <3>3. ASSUME faults' = 0 PROVE Listens(s, x)'
      BY <2>2, <2>3, <3>1, <3>3 DEF Listens
    <3>4. ASSUME s \notin waited' PROVE Comes(s, x)'
      <4>1. chip[x].phase = "open" => chip[x].made = g + Available(s)
        BY <1>2, <2>2, <2>3, <3>4 DEF Comes, head, g
      <4>2. Len(got'[s]) + Available(s)' = g + Available(s)
        BY <1>4, <1>6, <1>7, <3>1
      <4>3. ~(chip'[x].asked > 0)
        BY <2>3, <3>1
      <4> QED BY <2>4, <2>5, <3>1, <4>1, <4>2, <4>3 DEF Comes
    <3> QED BY <3>2, <3>3, <3>4
  <2> QED BY <2>6, <2>7
<1>11. ASSUME NEW x \in 0..MaxSessions, s \notin misconnected', s \notin waited', opened'[s] = x
       PROVE  Reads(s, x)'
  <2>1. /\ \A i \in 1..g : got[s][i] = Unit(x, i)
        /\ \A i \in 1..Available(s) : gastrSocketBuffer[s].mem[tail + i] = Unit(x, g + i)
    BY <1>1, <1>2, <1>11 DEF DataOk, Reads, g, tail
  <2>2. \A i \in 1..(g + n) : i \in 1..g \/ (i - g \in 1..n /\ g + (i - g) = i)
    BY <1>6
  <2>3. 1..n \subseteq 1..Available(s)
    BY <1>7
  <2>4. \A i \in 1..Len(got'[s]) : got'[s][i] = Unit(x, i)
    BY <1>4, <2>1, <2>2, <2>3
  <2>5. ASSUME NEW i \in 1..Available(s)'
        PROVE  gastrSocketBuffer'[s].mem[gastrSocketBuffer'[s].tail + i] = Unit(x, Len(got'[s]) + i)
    <3>1. ~last /\ gastrSocketBuffer'[s].tail = tail + n
      BY <1>5, <1>7, <2>5
    <3>2. n + i \in 1..Available(s) /\ (tail + n) + i = tail + (n + i) /\ (g + n) + i = g + (n + i)
      BY <1>6, <1>7, <2>5, <3>1
    <3> QED BY <1>4, <2>1, <3>1, <3>2
  <2> QED BY <2>4, <2>5 DEF Reads
<1> QED BY <1>9, <1>10, <1>11, OneSocketData

\* connect() gives up, and stop() closes: the buffer is freed then, or is to be flushed.
LEMMA ClosedData ==
  ASSUME DInv, NEW s \in Socks, ConnectLost(s) \/ \E c : StopDone(c, s)
  PROVE  DataOk'
<1>1. IInv /\ DataOk
  BY DataFacts
<1>2. /\ UNCHANGED <<gu16SessionID, xferVars, line, got, opened, waited, misconnected>> /\ SameLine
      /\ CloseDone(gastrSockets, s) /\ \E p, c : Goes(p, c)
  BY DEF ConnectLost, StopDone, SameLine
<1>3. hif_small_xfer' = 0 /\ pc' # "small"
  BY <1>1, <1>2 DEF DataOk, Goes, xferVars
<1>4. /\ \A t \in Socks : t # s => gastrSocketBuffer'[t] = gastrSocketBuffer[t]
      /\ Flag("full", s)' => Flag("full", s)
      /\ Contents(s) \/ (gastrSocketBuffer'[s].head = 0 /\ gastrSocketBuffer'[s].tail = 0)
  BY DEF ConnectLost, StopDone, FreedDone, OthersKept, Flag, Contents
<1>5. Closes({s})
  BY <1>1, <1>2, CloseCloses
<1> QED BY <1>2, <1>3, <1>4, <1>5, CloseData

\* stop() or connected() frees the buffer that flush() has emptied.
LEMMA FlushEndData ==
  ASSUME DInv, NEW s \in Socks, FlushEndDone(s)
  PROVE  DataOk'
<1>1. IInv /\ DataOk
  BY DataFacts
<1>2. /\ UNCHANGED <<sockVars, xferVars, chip, line, got, opened, waited, misconnected, faults>> /\ SameLine
      /\ Point = "flushCheck" /\ s = _socket[cur] /\ Goes("idle", cur)
      /\ \A t \in Socks : t # s => gastrSocketBuffer'[t] = gastrSocketBuffer[t]
      /\ gastrSocketBuffer'[s].flag = {}
      /\ gastrSocketBuffer'[s].head = 0 /\ gastrSocketBuffer'[s].tail = 0
  BY DEF FlushEndDone, FreedDone, OthersKept, SameLine, histVars
<1>3. hif_small_xfer' = 0 /\ pc' # "small"
  BY <1>1, <1>2 DEF DataOk, Goes, xferVars
<1>4. OneSocket(s)
  <2>1. s \notin misconnected' => ~Flag("full", s)' /\ gastrSockets'[s].user \in {0, 1}
    BY <1>1, <1>2 DEF DataOk, Flag, sockVars
  <2> QED BY <1>2, <1>3, <2>1 DEF OneSocket, ChipKept, sockVars
<1>5. CASE ~Used(s)
  <2>1. ~Used(s)'
    BY <1>2, <1>5 DEF Used, sockVars
  <2> QED BY <1>2, <1>4, <2>1, FreeData
<1>6. CASE Used(s)
  <2>1. s \in waited \/ s \in misconnected
    BY <1>1, <1>2, <1>6 DEF IInv, LiveInv, Flushing, Astray
  <2>2. s \in waited => faults' # 0
    BY <1>1, <1>2, <2>1 DEF DataOk
  <2>3. ASSUME NEW x \in Sessions, s \notin misconnected', Has(s, x)' PROVE Flow(s, x)'
    <3>1. Has(s, x)
      BY <1>2, <2>3 DEF Has, Used, Session, sockVars
    <3>2. Flow(s, x)
      BY <1>1, <1>2, <2>3, <3>1 DEF DataOk
    <3>3. Coming("recv", x)' <=> Coming("recv", x)
      BY <1>2 DEF Coming
    <3> QED BY <1>2, <3>2, <3>3 DEF Flow, OneOf, sockVars
  <2> QED BY <1>2, <1>4, <2>1, <2>2, <2>3, OneSocketData
<1> QED BY <1>5, <1>6

\* connect() starts a session with an empty buffer.
LEMMA ConnectData ==
  ASSUME DInv, NEW c \in Clients, NEW s \in Socks, NEW x \in Sessions, ConnectDone(c, s, x),
         ConnectSent(c, s, x) \/ ConnectNotSent(s)
  PROVE  DataOk'
<1>1. /\ IInv /\ DataOk /\ line \in Seq(Answers) /\ gu16SessionID \in Nat
      /\ \A t \in Socks, y \in Sessions : Has(t, y) => y <= gu16SessionID
  BY DataFacts, SessionFacts
<1>2. /\ UNCHANGED <<xferVars, line>> /\ SameLine /\ x = gu16SessionID + 1
      /\ \A t \in Socks : t # s => /\ gastrSockets'[t] = gastrSockets[t]
                                   /\ gastrSocketBuffer'[t] = gastrSocketBuffer[t]
                                   /\ opened'[t] = opened[t] /\ got'[t] = got[t]
      /\ opened'[s] = x /\ got'[s] = <<>> /\ waited' = waited \ {s} /\ misconnected' = misconnected \ {s}
      /\ gastrSocketBuffer'[s].head = 0 /\ gastrSocketBuffer'[s].tail = 0
  BY DEF ConnectDone, SameLine
<1>3. hif_small_xfer' = 0 /\ pc' # "small"
  BY <1>1, <1>2 DEF DataOk, Goes, ConnectSent, ConnectNotSent, xferVars
<1>4. \A t \in Socks, y \in Sessions : t # s /\ Has(t, y) => ChipKept(y)
  <2>1. ASSUME NEW t \in Socks, NEW y \in Sessions, Has(t, y) PROVE y # x
    BY <1>1, <1>2, <2>1
  <2> QED BY <2>1 DEF ConnectSent, ConnectNotSent, ChipKept
<1>5. OneSocket(s)
  <2>1. ~Flag("full", s)' /\ gastrSockets'[s].user = 0 /\ (faults' = faults \/ faults' = faults + 1)
    BY DEF ConnectSent, ConnectNotSent, FreedDone, Flag, Unused
  <2> QED BY <1>2, <1>3, <1>4, <2>1 DEF OneSocket
<1>6. ASSUME NEW y \in Sessions, Has(s, y)'
      PROVE  Flow(s, y)' /\ (faults' = 0 => Listens(s, y)') /\ (s \notin waited' => Comes(s, y)')
  <2>1. y = x /\ ConnectSent(c, s, x)
    BY <1>6 DEF ConnectSent, ConnectNotSent, Has, Used, Session, Unused
  <2>2. chip'[x].phase = "connecting" /\ chip'[x].asked = 0 /\ chip'[x].made = 0
    BY <1>1, <1>2, <2>1 DEF ConnectSent, IInv, SessionInv
  <2>3. ~Coming("recv", x)' /\ \A i \in 1..Len(line') : ~(line'[i].k = "recv" /\ line'[i].x = x)
    <3>1. \A i \in 1..Len(line') : line'[i].x <= gu16SessionID
      BY <1>1, <1>2 DEF IInv, SessionInv
    <3>2. ~(x <= gu16SessionID)
      BY <1>1, <1>2
    <3> QED BY <3>1, <3>2 DEF Coming
  <2>4. Flow(s, x)'
    BY <2>2, <2>3 DEF Flow, OneOf
  <2>5. Listens(s, x)'
    BY <2>2 DEF Listens
  <2>6. Comes(s, x)'
    BY <1>2, <2>2, <2>3 DEF Comes
  <2> QED BY <2>1, <2>4, <2>5, <2>6
<1>7. ASSUME NEW y \in 0..MaxSessions, s \notin waited', opened'[s] = y PROVE Reads(s, y)'
  <2>1. Available(s)' = 0 /\ Len(got'[s]) = 0
    BY <1>2 DEF Available
  <2> QED BY <2>1 DEF Reads
<1> QED BY <1>1, <1>5, <1>6, <1>7, OneSocketData

\* The chip changes a session, and tells the host of that one or nothing.
LEMMA ChipTells ==
  ASSUME DInv, NEW x \in Sessions, HostSame, Alone(x),
         line' = line \/ \E r \in Answers : line' = Append(line, r) /\ r.x = x,
         \A s \in Socks \ misconnected : Has(s, x) =>
           Flow(s, x)' /\ (faults = 0 => Listens(s, x)') /\ (s \notin waited => Comes(s, x)')
  PROVE  DataOk'
<1>1. IInv /\ DataOk /\ line \in Seq(Answers)
  BY DataFacts, SessionFacts
<1>2. UNCHANGED <<gastrSockets, gastrSocketBuffer, hif_small_xfer, pc, got, opened, waited, misconnected, faults>>
  BY DEF HostSame, sockVars, xferVars, ctlVars, histVars
<1>3. \A s \in Socks : /\ Beside(s) /\ Contents(s) /\ (Flag("full", s)' <=> Flag("full", s))
                       /\ \A y : Has(s, y)' <=> Has(s, y)
  BY <1>2 DEF Beside, Contents, Flag, Has, Used, Session
<1>4. ASSUME NEW y \in Sessions, y # x PROVE Old(y) /\ Kept(y) /\ ChipKept(y)
  <2>1. ChipKept(y)
    BY <1>4 DEF Alone, ChipKept
  <2>2. CASE line' = line
    BY <2>1, <2>2 DEF Old, Kept, Coming, OneOf
  <2>3. ASSUME NEW r \in Answers, line' = Append(line, r), r.x = x PROVE Old(y) /\ Kept(y)
    <3>1. /\ Len(line) \in Nat /\ line'[Len(line) + 1] = r
          /\ \A i \in 1..Len(line) : line'[i] = line[i]
          /\ \A i \in 1..Len(line') : i # Len(line) + 1 => i \in 1..Len(line)
          /\ \A k : Coming(k, y)' <=> Coming(k, y)
      BY <1>1, <1>4, <2>3, LineAppend
    <3>2. \A i \in 1..Len(line') : line'[i].x = y => i \in 1..Len(line) /\ line'[i] = line[i]
      BY <1>4, <2>3, <3>1
    <3> QED BY <3>1, <3>2 DEF Old, Kept, OneOf
  <2> QED BY <2>1, <2>2, <2>3
<1>5. ASSUME NEW s \in Socks \ misconnected, NEW y \in Sessions, Has(s, y)'
      PROVE  Flow(s, y)' /\ (faults' = 0 => Listens(s, y)') /\ (s \notin waited' => Comes(s, y)')
  <2>1. CASE y = x
    BY <1>2, <1>3, <1>5, <2>1
  <2>2. CASE y # x
    <3>1. Flow(s, y) /\ (faults = 0 => Listens(s, y)) /\ (s \notin waited => Comes(s, y))
      BY <1>1, <1>3, <1>5 DEF DataOk
    <3> QED BY <1>2, <1>3, <1>4, <2>2, <3>1, BesideFlow, BesideListens, BesideComes
  <2> QED BY <2>1, <2>2
<1>6. ASSUME NEW s \in Socks \ misconnected, NEW y \in 0..MaxSessions, s \notin waited', opened'[s] = y
      PROVE  Reads(s, y)'
  <2>1. Reads(s, y)
    BY <1>1, <1>2, <1>6 DEF DataOk
  <2> QED BY <1>2, <1>3, <2>1, BesideReads
<1> QED BY <1>1, <1>2, <1>3, <1>5, <1>6 DEF DataOk

\* The socket of a session that is open on the host, and the line after an answer to it
LEMMA ChipTold ==
  ASSUME DInv, NEW x \in Sessions, NEW s \in Socks \ misconnected, Has(s, x), HostSame,
         NEW r \in Answers, line' = Append(line, r), r.x = x
  PROVE  /\ Flow(s, x) /\ (faults = 0 => Listens(s, x)) /\ (s \notin waited => Comes(s, x))
         /\ chip[x].asked \in Nat /\ chip[x].made \in Nat
         /\ chip[x].phase \in {"connecting", "open", "closed"}
         /\ got' = got /\ Available(s)' = Available(s)
         /\ gastrSocketBuffer' = gastrSocketBuffer /\ gastrSockets' = gastrSockets
         /\ \A k : Coming(k, x)' <=> Coming(k, x) \/ r.k = k
         /\ \A i \in 1..Len(line') : \/ i \in 1..Len(line) /\ line'[i] = line[i]
                                     \/ i = Len(line) + 1 /\ line'[i] = r
<1>1. IInv /\ DataOk /\ line \in Seq(Answers) /\ chip[x].asked \in Nat /\ chip[x].made \in Nat
  BY DataFacts, SessionFacts
<1>2. got' = got /\ gastrSocketBuffer' = gastrSocketBuffer /\ gastrSockets' = gastrSockets
  BY DEF HostSame, sockVars, histVars
<1>3. Available(s)' = Available(s)
  BY <1>2 DEF Available
<1>4. chip[x].phase \in {"connecting", "open", "closed"}
  BY <1>1 DEF IInv, ChipInv
<1>5. Flow(s, x) /\ (faults = 0 => Listens(s, x)) /\ (s \notin waited => Comes(s, x))
  BY <1>1 DEF DataOk
<1>6. /\ \A k : Coming(k, x)' <=> Coming(k, x) \/ r.k = k
      /\ \A i \in 1..Len(line') : \/ i \in 1..Len(line) /\ line'[i] = line[i]
                                  \/ i = Len(line) + 1 /\ line'[i] = r
  BY <1>1, LineAppend
<1> QED BY <1>1, <1>2, <1>3, <1>4, <1>5, <1>6

LEMMA ChipConnectData ==
  ASSUME DInv, NEW x \in Sessions, ChipConnectDone(x)
  PROVE  DataOk'
<1>1. IInv /\ chip[x].phase \in {"connecting", "aborting"}
  BY DEF ChipConnectDone, DInv
<1>2. PICK r : /\ Tells(r, x) /\ r.k = "connect"
               /\ \/ /\ r.ok /\ chip'[x].s = chip[x].s 
                     /\ chip'[x].phase = IF chip[x].phase = "aborting" THEN "closing" ELSE "open"
                     /\ chip'[x].asked = chip[x].asked /\ chip'[x].made = chip[x].made
                  \/ ~r.ok /\ Over(x)
  BY DEF ChipConnectDone
<1>3. HostSame /\ Alone(x) /\ r \in Answers /\ line' = Append(line, r) /\ r.x = x
  BY <1>2 DEF Tells
<1>4. ASSUME NEW s \in Socks \ misconnected, Has(s, x)
      PROVE  Flow(s, x)' /\ (faults = 0 => Listens(s, x)') /\ (s \notin waited => Comes(s, x)')
  <2>1. /\ s \notin waited => Comes(s, x)
        /\ got' = got /\ Available(s)' = Available(s)
        /\ gastrSocketBuffer' = gastrSocketBuffer /\ gastrSockets' = gastrSockets
        /\ \A k : Coming(k, x)' <=> Coming(k, x) \/ r.k = k
    BY <1>3, <1>4, ChipTold
  <2>0. Connecting(x)
    BY <1>1, <1>4 DEF IInv, ChipInv, Connecting
  <2>2. chip[x].asked = 0 /\ ~Coming("recv", x) /\ gastrSocketBuffer[s].head = 0
        /\ ~gastrSockets[s].pending
    BY <1>1, <1>4, <2>0, Waiting DEF Waits, AsNew
  <2>3. ~Coming("recv", x)' /\ \A i \in 1..Len(line') : ~(line'[i].k = "recv" /\ line'[i].x = x)
    <3>1. ~Coming("recv", x)'
      BY <1>2, <2>1, <2>2
    <3> QED BY <3>1 DEF Coming
  <2>4. chip'[x].asked = 0 /\ (chip'[x].made = chip[x].made \/ chip'[x].made = 0)
    BY <1>2, <2>2 DEF Over
  <2>5. Flow(s, x)'
    BY <2>3, <2>4 DEF Flow, OneOf
  <2>6. Listens(s, x)'
    BY <1>2, <2>1, <2>2 DEF Listens
  <2>7. ASSUME s \notin waited PROVE Comes(s, x)'
    <3>1. Len(got'[s]) = 0 /\ chip'[x].made = 0
      BY <2>0, <2>1, <2>4, <2>7 DEF Comes
    <3>2. ~(chip'[x].asked > 0) /\ ~(gastrSocketBuffer'[s].head > 0)
      BY <2>1, <2>2, <2>4
    <3> QED BY <2>3, <3>1, <3>2 DEF Comes
  <2> QED BY <2>5, <2>6, <2>7
<1> QED BY <1>3, <1>4, ChipTells

\* The answer to the RECV that was asked for, be it data or the end
LEMMA ChipRecvData ==
  ASSUME DInv, NEW x \in Sessions, ChipDataDone(x) \/ ChipEofDone(x)
  PROVE  DataOk'
<1>1. IInv /\ chip[x].asked > 0 /\ chip[x].asked \in Nat /\ chip[x].made \in Nat /\ Alive(x)
      /\ line \in Seq(Answers) /\ Len(line) \in Nat
  BY DataFacts, SessionFacts DEF ChipDataDone, ChipEofDone
<1>2. PICK r : /\ Tells(r, x) /\ r.k = "recv"
               /\ \A i \in 1..Len(r.data) : r.data[i] = Unit(x, chip[x].made + i)
               /\ \/ /\ chip'[x].phase = chip[x].phase /\ chip'[x].asked = chip[x].asked - 1
                     /\ chip'[x].made = chip[x].made + Len(r.data)
                  \/ chip'[x].phase = "closed" /\ chip'[x].asked = 0
  <2>1. CASE ChipDataDone(x)
    BY <2>1 DEF ChipDataDone, SameSession
  <2>2. CASE ChipEofDone(x)
    <3>1. PICK r : Tells(r, x) /\ r.k = "recv" /\ r.data = <<>>
      BY <2>2 DEF ChipEofDone
    <3>2. \A i \in 1..Len(r.data) : FALSE
      BY <3>1
    <3> QED BY <2>2, <3>1, <3>2 DEF ChipEofDone, Over
  <2> QED BY <2>1, <2>2
<1>3. HostSame /\ Alone(x) /\ r \in Answers /\ line' = Append(line, r) /\ r.x = x
  BY <1>2 DEF Tells
<1>4. ASSUME NEW s \in Socks \ misconnected, Has(s, x)
      PROVE  Flow(s, x)' /\ (faults = 0 => Listens(s, x)') /\ (s \notin waited => Comes(s, x)')
  <2>1. /\ Flow(s, x) /\ (s \notin waited => Comes(s, x))
        /\ chip[x].phase \in {"connecting", "open", "closed"}
        /\ got' = got /\ Available(s)' = Available(s)
        /\ gastrSocketBuffer' = gastrSocketBuffer /\ gastrSockets' = gastrSockets
        /\ \A k : Coming(k, x)' <=> Coming(k, x) \/ r.k = k
        /\ \A i \in 1..Len(line') : \/ i \in 1..Len(line) /\ line'[i] = line[i]
                                    \/ i = Len(line) + 1 /\ line'[i] = r
    BY <1>3, <1>4, ChipTold
  <2>2. chip[x].phase = "open"
    BY <1>1, <2>1 DEF Alive
  <2>3. /\ chip[x].asked = 1 /\ chip'[x].asked = 0 /\ ~Coming("recv", x)
        /\ gastrSockets[s].user # 0 /\ ~(gastrSocketBuffer[s].head > 0)
    <3>1. chip[x].asked = 1
      BY <1>1, <2>1 DEF Flow, OneOf
    <3> QED BY <1>2, <2>1, <3>1 DEF Flow, OneOf
  <2>4. \A i \in 1..Len(line') : line'[i].k = "recv" /\ line'[i].x = x => i = Len(line) + 1 /\ line'[i] = r
    BY <2>1, <2>3 DEF Coming
  <2>5. Flow(s, x)'
    <3>1. OneOf(x)'
      BY <2>3, <2>4 DEF OneOf
    <3> QED BY <2>1, <2>3, <3>1 DEF Flow
  <2>6. Listens(s, x)'
    BY <1>2, <2>1 DEF Listens
  <2>7. ~Connecting(x)'
    <3>1. ~Connecting(x)
      BY <1>1, <1>4, Waiting DEF Waits
    <3> QED BY <1>2, <2>1, <2>2, <3>1 DEF Connecting
  <2>8. ASSUME s \notin waited PROVE Comes(s, x)'
    <3>1. chip[x].made = Len(got[s])
      BY <1>1, <2>1, <2>2, <2>8 DEF Comes
    <3>2. ASSUME NEW i \in 1..Len(line'), line'[i].k = "recv", line'[i].x = x
          PROVE  /\ \A j \in 1..Len(line'[i].data) : line'[i].data[j] = Unit(x, Len(got'[s]) + j)
                 /\ chip'[x].phase = "open" => chip'[x].made = Len(got'[s]) + Len(line'[i].data)
      <4>1. line'[i] = r
        BY <2>4, <3>2
      <4> QED BY <1>2, <2>1, <3>1, <4>1
    <3>3. ~(chip'[x].asked > 0) /\ ~(gastrSocketBuffer'[s].head > 0)
      BY <2>1, <2>3
    <3> QED BY <2>7, <3>2, <3>3 DEF Comes
  <2> QED BY <2>5, <2>6, <2>8
<1> QED BY <1>3, <1>4, ChipTells

\* The other answers, and the end of a session that is closed on the host
LEMMA ChipOtherData ==
  ASSUME DInv, NEW x \in Sessions, ChipSentDone(x) \/ ChipCloseDone(x)
  PROVE  DataOk'
<1>1. IInv /\ line \in Seq(Answers)
  BY DataFacts, SessionFacts
<1>2. CASE ChipSentDone(x)
  <2>1. PICK r : Tells(r, x) /\ r.k = "send" /\ ChipKept(x)
    BY <1>2 DEF ChipSentDone, SameSession, ChipKept
  <2>2. HostSame /\ Alone(x) /\ r \in Answers /\ line' = Append(line, r) /\ r.x = x
    BY <2>1 DEF Tells
  <2>3. ASSUME NEW s \in Socks \ misconnected, Has(s, x)
        PROVE  Flow(s, x)' /\ (faults = 0 => Listens(s, x)') /\ (s \notin waited => Comes(s, x)')
    <3>1. /\ Flow(s, x) /\ (faults = 0 => Listens(s, x)) /\ (s \notin waited => Comes(s, x))
          /\ got' = got /\ Available(s)' = Available(s)
          /\ gastrSocketBuffer' = gastrSocketBuffer /\ gastrSockets' = gastrSockets
          /\ \A k \in {"connect", "recv"} : Coming(k, x)' <=> Coming(k, x)
      BY <2>1, <2>2, <2>3, ChipTold
    <3>2. \A i \in 1..Len(line') : line'[i].k = "recv" => i \in 1..Len(line) /\ line'[i] = line[i]
      <4>1. \A i \in 1..Len(line') : \/ i \in 1..Len(line) /\ line'[i] = line[i]
                                     \/ i = Len(line) + 1 /\ line'[i] = r
        BY <2>2, <2>3, ChipTold
      <4> QED BY <4>1, <2>1
    <3>3. Flow(s, x)' /\ (faults = 0 => Listens(s, x)')
      BY <2>1, <3>1, <3>2 DEF Flow, OneOf, Listens, ChipKept
    <3>4. Connecting(x)' <=> Connecting(x)
      BY <2>1, <3>1 DEF Connecting, ChipKept
    <3>5. ASSUME s \notin waited PROVE Comes(s, x)'
      <4>1. ASSUME NEW i \in 1..Len(line'), line'[i].k = "recv", line'[i].x = x
            PROVE  /\ \A j \in 1..Len(line'[i].data) :
                        line'[i].data[j] = Unit(x, Len(got'[s]) + j)
                   /\ chip'[x].phase = "open" =>
                        chip'[x].made = Len(got'[s]) + Len(line'[i].data)
        <5>1. i \in 1..Len(line) /\ line'[i] = line[i]
          BY <3>2, <4>1
        <5> QED BY <5>1, <4>1, <3>5, <3>1, <2>1 DEF Comes, ChipKept
      <4>2. /\ chip'[x].phase = "open" /\ chip'[x].asked > 0 => chip'[x].made = Len(got'[s])
            /\ chip'[x].phase = "open" /\ gastrSocketBuffer'[s].head > 0 =>
                 chip'[x].made = Len(got'[s]) + Available(s)'
            /\ Connecting(x)' => Len(got'[s]) = 0 /\ chip'[x].made = 0
        BY <3>5, <3>1, <3>4, <2>1 DEF Comes, ChipKept
      <4> QED BY <4>1, <4>2 DEF Comes
    <3> QED BY <3>3, <3>5
  <2> QED BY <2>2, <2>3, ChipTells
<1>3. CASE ChipCloseDone(x)
  <2>1. chip[x].phase \in {"closing", "aborting"} /\ HostSame /\ Alone(x) /\ line' = line
    BY <1>3 DEF ChipCloseDone
  <2>2. \A s \in Socks : ~Has(s, x)
    BY <1>1, <2>1 DEF IInv, ChipInv
  <2> QED BY <2>1, <2>2, ChipTells
<1> QED BY <1>2, <1>3

\* With all sockets closed and their buffers freed there is nothing to come.
LEMMA ApDisconnectedData ==
  ASSUME DInv, ApDisconnectedDone
  PROVE  DataOk'
<1>1. IInv /\ DataOk /\ faults \in Nat
  BY DataFacts
<1>2. /\ UNCHANGED <<xferVars, got, opened, waited, misconnected>> /\ Goes(Point, cur)
      /\ faults' = faults \/ faults' = faults + 1
      /\ \A s \in Socks : gastrSockets'[s] = Unused /\ FreedDone(s)
  BY DEF ApDisconnectedDone
<1>3. hif_small_xfer' = 0 /\ pc' # "small" /\ (faults' = 0 => waited' = {})
  BY <1>1, <1>2 DEF DataOk, Goes, xferVars
<1>4. ASSUME NEW s \in Socks
      PROVE  /\ ~Flag("full", s)' /\ gastrSockets'[s].user = 0
             /\ Available(s)' = 0 /\ \A x : ~Has(s, x)'
  BY <1>2 DEF FreedDone, Flag, Unused, Available, Has, Used
<1>5. ASSUME NEW s \in Socks \ misconnected', NEW x \in 0..MaxSessions,
             s \notin waited', opened'[s] = x
      PROVE  Reads(s, x)'
  <2>1. Reads(s, x)
    BY <1>1, <1>2, <1>5 DEF DataOk
  <2> QED BY <1>2, <1>4, <2>1 DEF Reads
<1> QED BY <1>3, <1>4, <1>5 DEF DataOk

-----------------------------------------------------------------------------
(* The invariant of the default build                                        *)

LEMMA InitData == Init => DataOk
<1> SUFFICES ASSUME Init PROVE DataOk
  OBVIOUS
<1>1. /\ \A s \in Socks : gastrSockets[s] = Unused /\ gastrSocketBuffer[s] = NoBuffer /\ got[s] = <<>>
      /\ hif_small_xfer = 0 /\ pc = "idle" /\ waited = {} /\ misconnected = {}
  BY DEF Init
<1>2. \A s \in Socks : /\ ~Flag("full", s) /\ gastrSockets[s].user = 0 /\ ~Used(s)
                       /\ Available(s) = 0 /\ Len(got[s]) = 0
  BY <1>1 DEF Flag, Used, Available, Unused, NoBuffer
<1>3. \A s \in Socks : \A x : Reads(s, x) /\ ~Has(s, x)
  BY <1>2 DEF Reads, Has
<1> QED BY <1>1, <1>2, <1>3 DEF DataOk

LEMMA StutterData ==
  ASSUME DInv, UNCHANGED vars
  PROVE  DataOk'
<1>1. IInv /\ DataOk
  BY DataFacts
<1>2. UNCHANGED <<gastrSockets, gastrSocketBuffer, hif_small_xfer, pc, chip, line, got, opened,
                  waited, misconnected, faults>> /\ SameLine
  BY DEF vars, sockVars, xferVars, ctlVars, histVars, SameLine
<1>3. \A s \in Socks : /\ gastrSockets'[s] = gastrSockets[s] /\ Contents(s) /\ got'[s] = got[s]
                       /\ gastrSocketBuffer'[s].flag \subseteq gastrSocketBuffer[s].flag \cup {"sending"}
  BY <1>2 DEF Contents
<1>4. \A x \in Sessions : ChipKept(x)
  BY <1>2 DEF ChipKept
<1> QED BY <1>1, <1>2, <1>3, <1>4, QuietData DEF DataOk

LEMMA NextData ==
  ASSUME DefaultBuild, DInv, [Next]_vars
  PROVE  DataOk'
<1>1. IInv /\ AllTypes /\ ControlInv /\ DataOk
  BY DataFacts, SessionFacts DEF IInv
<1>2. CASE UNCHANGED vars
  BY <1>2, StutterData
<1>3. CASE Events
  <2>1. CASE EventsReturn
    BY <1>1, <2>1, Moving, SameData
  <2>2. CASE PacketUnread
    BY <1>1, <2>2, PacketUnreadEffect, SameData
  <2>3. CASE CbConnect
    BY <1>1, <2>3, CbConnectEffect, CbConnectData
  <2>4. CASE CbSend
    BY <1>1, <2>4, CbSendEffect, CbSendData
  <2>5. CASE RecvReply
    <3>1. PICK s \in Socks, x \in Sessions : RecvReplyDone(s, x)
      BY <1>1, <2>5, RecvReplyEffect
    <3> QED BY <3>1, NoData, StoredData DEF RecvReplyDone
  <2>6. CASE ApDisconnected
    BY <1>1, <2>6, ApDisconnectedEffect, ApDisconnectedData
  \* No transfer is paused.
  <2>7. ~SmallChunk
    BY <1>1 DEF DataOk, SmallChunk
  <2> QED BY <1>3, <2>1, <2>2, <2>3, <2>4, <2>5, <2>6, <2>7 DEF Events, Take
<1>4. CASE Method
  <2>1. CASE ConnectWait
    <3>1. (Same /\ \E q, c : Moves(q, c)) \/ \E s \in Socks : ConnectLost(s)
      BY <1>1, <2>1, ConnectWaiting
    <3> QED BY <3>1, SameData, ClosedData
  <2>2. CASE ReadBack \/ FlushRead
    <3>1. /\ \E q, c : Moves(q, c)
          /\ Same \/ \E s \in Socks : \E n \in 1..Available(s) : ReadDone(s, n)
      BY <1>1, <2>2, Reading
    <3> QED BY <3>1, SameData, ReadData
  <2>3. CASE ConnectedBack \/ SendWait \/ Flush \/ FlushMore
    BY <1>1, <2>3, Moving, SameData
  <2>4. CASE Send
    BY <1>1, <2>4, Sending, SendData
  <2>5. CASE FlushEnd
    BY <1>1, <2>5, Flushed, FlushEndData
  <2> QED BY <1>4, <2>1, <2>2, <2>3, <2>4, <2>5 DEF Method
<1>5. ASSUME NEW c \in Clients, Connect(c) \/ Read(c) \/ Write(c) \/ Connected(c) \/ Stop(c)
      PROVE  DataOk'
  <2>1. CASE Connect(c)
    BY <1>1, <2>1, Connection, ConnectData
  <2>2. CASE Read(c) \/ Write(c) \/ Connected(c)
    BY <1>1, <2>2, Moving, SameData
  <2>3. CASE Stop(c)
    BY <1>1, <2>3, Stopping, ClosedData
  <2> QED BY <1>5, <2>1, <2>2, <2>3
<1>6. ASSUME NEW x \in Sessions,
             ChipConnect(x) \/ ChipData(x) \/ ChipEof(x) \/ ChipSent(x) \/ ChipClose(x)
      PROVE  DataOk'
  BY <1>1, <1>6, ChipActs, ChipConnectData, ChipRecvData, ChipOtherData
<1> QED BY <1>2, <1>3, <1>4, <1>5, <1>6 DEF Next, App, Chip

\* In the default build the second invariant is inductive as well.
THEOREM DefaultInvariance == DefaultBuild => (Spec => []DInv)
<1> SUFFICES ASSUME DefaultBuild PROVE Spec => []DInv
  OBVIOUS
<1>1. Init => DInv
  BY InitIInv, InitData, DataSplit DEF DInv
<1>2. DInv /\ [Next]_vars => DInv'
  <2> SUFFICES ASSUME DInv, [Next]_vars PROVE DInv'
    OBVIOUS
  <2>1. IInv' /\ DataOk'
    BY NextIInv, NextData DEF DInv
  <2>2. (FlowInv /\ ListenInv /\ OrderInv)'
    BY <2>1, DataSplit, PTL
  <2> QED BY <2>1, <2>2 DEF DInv
<1> QED BY <1>1, <1>2, PTL DEF Spec

-----------------------------------------------------------------------------
(* What the runs check of the default build, for every value of the others   *)

\* No buffer is ever full: recv() is called for an empty buffer only, and one
\* answer fits, so that no data are dropped in socketBufferCb.  (But for a socket that
\* took the answer to an earlier session's CONNECT for its own and asked twice.)
THEOREM NoneFull == DefaultBuild => (Spec => []NeverFull)
<1> SUFFICES ASSUME DefaultBuild PROVE Spec => []NeverFull
  OBVIOUS
<1>1. DInv => NeverFull
  BY DEF DInv, FlowInv, NeverFull, Flag
<1> QED BY <1>1, DefaultInvariance, PTL

\* As long as no transfer has failed, no session goes deaf, of a socket that took
\* no earlier session's answer for its own: each has its RECV
\* with the chip, an answer on the way, or data to read whose last unit sends
\* the next RECV.
THEOREM NoneDeaf == DefaultBuild => (Spec => []Listening)
<1> SUFFICES ASSUME DefaultBuild PROVE Spec => []Listening
  OBVIOUS
<1>1. DInv => Listening
  <2> SUFFICES ASSUME DInv, faults = 0, NEW s \in Socks \ misconnected, NEW x \in Sessions, Has(s, x),
                      chip[x].phase = "open"
               PROVE  \/ chip[x].asked > 0 \/ Available(s) > 0
                      \/ \E i \in DOMAIN line : line[i].x = x /\ line[i].k \in {"connect", "recv"}
    BY SessionFacts DEF DInv, Listening, Has, Used, Session
  <2>1. Listens(s, x)
    BY DEF DInv, ListenInv
  <2>2. DOMAIN line = 1..Len(line)
    BY SessionFacts DEF DInv
  <2> QED BY <2>1, <2>2 DEF Listens, Coming
<1> QED BY <1>1, DefaultInvariance, PTL

\* What read() hands out is the stream of the socket's session, from its first
\* unit on, with none left out, none twice and none of an earlier session: of
\* every socket that socketBufferSendWait did not run for and that took no other
\* answer to a CONNECT for its own.
THEOREM StreamsInOrder == DefaultBuild => (Spec => []StreamInOrder)
<1> SUFFICES ASSUME DefaultBuild PROVE Spec => []StreamInOrder
  OBVIOUS
<1>1. DInv => StreamInOrder
  <2> SUFFICES ASSUME DInv, NEW s \in Socks \ misconnected, s \notin waited, NEW i \in DOMAIN got[s]
               PROVE  got[s][i] = [x |-> opened[s], n |-> i]
    BY DEF StreamInOrder
  <2>1. opened[s] \in 0..MaxSessions /\ got[s] \in Seq(Data \cup {Stale})
    BY SessionFacts DEF DInv, AllTypes, OtherTypes
  <2>2. Reads(s, opened[s])
    BY <2>1 DEF DInv, OrderInv
  <2> QED BY <2>1, <2>2 DEF Reads, Unit
<1> QED BY <1>1, DefaultInvariance, PTL

================================================================================
