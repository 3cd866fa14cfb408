---------------------------- MODULE SocketLayerSteps ----------------------------
(***************************************************************************)
(* The steps of SocketLayer, one lemma for each: the types they keep, and  *)
(* what they leave in the parts of the state that an invariant is about.   *)
(* SocketLayerProofs argues from these lemmas.                             *)
(***************************************************************************)
EXTENDS SocketLayer, FiniteSetTheorems, SequenceTheorems, WellFoundedInduction, TLAPS

Buffers == [alloc : BOOLEAN, flag : SUBSET Flags, head : 0..TcpSize, tail : 0..TcpSize,
            mem : [1..TcpSize -> Data \cup {Stale}]]

Phases == {"none", "connecting", "aborting", "open", "closing", "closed"}

QueueTypes ==
  /\ line \in Seq(Answers) /\ gastrSocketBuffer \in [Socks -> Buffers]
  /\ \A x \in Sessions : chip[x].owes <= writes

\* The point of the method that is running, also while the event loop has control
Point == IF pc \in {"events", "small"} THEN ret ELSE pc

Flushing == Point \in {"flush", "flushCheck", "flushRead"}

ControlInv ==
  /\ Point \notin {"events", "small"}
  /\ Point # "idle" => cur \in Clients
  /\ Point \in {"connWait", "write", "sendWait"} \/ Flushing => _socket[cur] \in Socks

Used(s) == gastrSockets[s].used
Session(s) == gastrSockets[s].session

\* An answer of kind k to session x is under way.
Coming(k, x) == \E i \in 1..Len(line) : line[i].k = k /\ line[i].x = x

Unit(x, n) == [x |-> x, n |-> n]

-----------------------------------------------------------------------------
(* Facts about the constants and the line of answers.                        *)

LEMMA Bounds ==
  /\ MaxSock \in Nat /\ MaxSock > 0 /\ Mtu \in Nat /\ Mtu > 0 /\ TcpSize \in Nat /\ TcpSize > 0
  /\ MaxPacket \in Nat /\ MaxPacket > 0 /\ MaxSessions \in Nat /\ MaxSessions > 0
  /\ MaxUnits \in Nat /\ MaxWrites \in Nat /\ MaxFaults \in Nat /\ Mtu <= TcpSize
BY SocketAssumption

\* connect() takes a free socket.
LEMMA LeastFree ==
  ASSUME Free # {}
  PROVE  \E s \in Free : \A g \in Free : s <= g
<1>1. Free \subseteq Nat
  BY Bounds DEF Free, Socks
<1> DEFINE R == OpToRel(<, Nat)
<1>2. IsWellFoundedOn(R, Nat)
  BY NatLessThanWellFounded
<1> HIDE DEF R
<1>3. PICK s \in Free : \A g \in Free : <<g, s>> \notin R
  BY <1>1, <1>2, WFMin
<1>4. \A g \in Free : ~(g < s)
  BY <1>1, <1>3 DEF R, OpToRel
<1> QED BY <1>1, <1>4

LEMMA AnswerTypes ==
  ASSUME NEW r \in Answers
  PROVE  /\ r.k \in {"connect", "send", "recv"} /\ r.s \in Socks /\ r.x \in Sessions
         /\ r.k = "connect" => r.ok \in BOOLEAN
         /\ r.k = "recv" => r.data \in Seq(Data) /\ Len(r.data) \in 0..MaxPacket
<1>1. \A n \in 0..MaxPacket : \A d \in [1..n -> Data] : d \in Seq(Data) /\ Len(d) = n
  BY Bounds
<1>2. CASE r \in [k : {"connect"}, s : Socks, x : Sessions, ok : BOOLEAN]
  BY <1>2
<1>3. CASE r \in [k : {"send"}, s : Socks, x : Sessions]
  BY <1>3
<1>4. CASE r \in [k : {"recv"}, s : Socks, x : Sessions,
                  data : UNION {[1..n -> Data] : n \in 0..MaxPacket}]
  <2>1. PICK n \in 0..MaxPacket : r.data \in [1..n -> Data]
    BY <1>4
  <2> QED BY <1>1, <1>4, <2>1
<1> QED BY <1>2, <1>3, <1>4 DEF Answers

LEMMA AnswersMade ==
  ASSUME NEW s \in Socks, NEW x \in Sessions
  PROVE  /\ \A ok \in BOOLEAN : [k |-> "connect", s |-> s, x |-> x, ok |-> ok] \in Answers
         /\ [k |-> "send", s |-> s, x |-> x] \in Answers
         /\ \A n \in 0..MaxPacket : \A d \in [1..n -> Data] :
              [k |-> "recv", s |-> s, x |-> x, data |-> d] \in Answers
<1>1. \A ok \in BOOLEAN : [k |-> "connect", s |-> s, x |-> x, ok |-> ok]
                            \in [k : {"connect"}, s : Socks, x : Sessions, ok : BOOLEAN]
  BY Zenon
<1>2. [k |-> "send", s |-> s, x |-> x] \in [k : {"send"}, s : Socks, x : Sessions]
  OBVIOUS
<1>3. ASSUME NEW n \in 0..MaxPacket, NEW d \in [1..n -> Data]
      PROVE  [k |-> "recv", s |-> s, x |-> x, data |-> d]
               \in [k : {"recv"}, s : Socks, x : Sessions,
                    data : UNION {[1..m -> Data] : m \in 0..MaxPacket}]
  <2>1. d \in UNION {[1..m -> Data] : m \in 0..MaxPacket}
    OBVIOUS
  <2> QED BY <2>1
<1> QED BY <1>1, <1>2, <1>3 DEF Answers

\* The oldest answer is taken.
LEMMA LineTail ==
  ASSUME line \in Seq(Answers), line # <<>>, line' = Tail(line)
  PROVE  /\ line' \in Seq(Answers) /\ Head(line) = line[1] /\ Head(line) \in Answers
         /\ 1 \in 1..Len(line) /\ Len(line) \in Nat /\ Len(line') = Len(line) - 1
         /\ \A i \in 1..Len(line') : i + 1 \in 1..Len(line) /\ line'[i] = line[i + 1]
         /\ \A i \in 1..Len(line) : i # 1 => i - 1 \in 1..Len(line') /\ line'[i - 1] = line[i]
         /\ \A k, x : Coming(k, x)' => Coming(k, x)
         /\ \A k, x : Coming(k, x) => Coming(k, x)' \/ (Head(line).k = k /\ Head(line).x = x)
<1>1. /\ line' \in Seq(Answers) /\ Head(line) = line[1] /\ Head(line) \in Answers
      /\ Len(line) \in Nat \ {0} /\ Len(line') = Len(line) - 1
      /\ \A i \in 1..Len(line') : line'[i] = line[i + 1]
  OBVIOUS
<1>2. /\ 1 \in 1..Len(line)
      /\ \A i \in 1..Len(line') : i + 1 \in 1..Len(line)
      /\ \A i \in 1..Len(line) : i # 1 => i - 1 \in 1..Len(line') /\ (i - 1) + 1 = i
  BY <1>1
<1>3. \A i \in 1..Len(line) : i # 1 => line'[i - 1] = line[i]
  BY <1>1, <1>2
<1>4. \A k, x : Coming(k, x)' => Coming(k, x)
  BY <1>1, <1>2 DEF Coming
<1>5. ASSUME NEW k, NEW x, Coming(k, x) PROVE Coming(k, x)' \/ (Head(line).k = k /\ Head(line).x = x)
  <2>1. PICK i \in 1..Len(line) : line[i].k = k /\ line[i].x = x
    BY <1>5 DEF Coming
  <2>2. CASE i = 1
    BY <1>1, <2>1, <2>2
  <2>3. CASE i # 1
    BY <1>2, <1>3, <2>1, <2>3 DEF Coming
  <2> QED BY <2>2, <2>3
<1> QED BY <1>1, <1>2, <1>3, <1>4, <1>5

\* An answer comes.
LEMMA LineAppend ==
  ASSUME line \in Seq(Answers), NEW r \in Answers, line' = Append(line, r)
  PROVE  /\ line' \in Seq(Answers) /\ Len(line) \in Nat /\ Len(line') = Len(line) + 1
         /\ Len(line) + 1 \in 1..Len(line') /\ line'[Len(line) + 1] = r
         /\ \A i \in 1..Len(line) : i \in 1..Len(line') /\ line'[i] = line[i]
         /\ \A i \in 1..Len(line') : i # Len(line) + 1 => i \in 1..Len(line)
         /\ \A k, x : Coming(k, x)' <=> Coming(k, x) \/ (r.k = k /\ r.x = x)
<1>1. /\ line' \in Seq(Answers) /\ Len(line) \in Nat /\ Len(line') = Len(line) + 1
      /\ line'[Len(line) + 1] = r /\ \A i \in 1..Len(line) : line'[i] = line[i]
  OBVIOUS
<1>2. /\ Len(line) + 1 \in 1..Len(line') /\ \A i \in 1..Len(line) : i \in 1..Len(line')
      /\ \A i \in 1..Len(line') : i # Len(line) + 1 => i \in 1..Len(line)
  BY <1>1
<1>3. \A k, x : Coming(k, x)' <=> Coming(k, x) \/ (r.k = k /\ r.x = x)
  BY <1>1, <1>2 DEF Coming
<1> QED BY <1>1, <1>2, <1>3

-----------------------------------------------------------------------------
(* Types.                                                                    *)

SockTypes(k) == k \in [Socks -> [used : BOOLEAN, session : 0..MaxSessions,
                                 pending : BOOLEAN, user : 0..TcpSize]]

BufferTypes(b) == /\ b \in [Socks -> Buffers]
                  /\ \A s \in Socks : b[s].tail <= b[s].head

ChipTypes(c, w) ==
  /\ c \in [Sessions -> [s : Socks,
                         phase : Phases,
                         asked : Nat, owes : 0..MaxWrites, made : 0..MaxUnits]]
  /\ \A x \in Sessions : c[x].owes <= w

ControlTypes == pc \in Points /\ ret \in Points /\ cur \in Clients \cup {None}

OtherTypes ==
  /\ gu16SessionID \in 0..MaxSessions
  /\ hif_small_xfer \in 0..3 /\ sock_xfer \in Socks /\ rest \in Seq(Data)
  /\ _socket \in [Clients -> Socks \cup {None}]
  /\ line \in Seq(Answers)
  /\ got \in [Socks -> Seq(Data \cup {Stale})]
  /\ opened \in [Socks -> 0..MaxSessions] /\ own \in [Clients -> 0..MaxSessions]
  /\ waited \subseteq Socks /\ misconnected \subseteq Socks /\ {ended, orphaned} \subseteq BOOLEAN
  /\ writes \in 0..MaxWrites /\ faults \in 0..MaxFaults

AllTypes == /\ SockTypes(gastrSockets) /\ BufferTypes(gastrSocketBuffer)
            /\ ChipTypes(chip, writes) /\ ControlTypes /\ OtherTypes

LEMMA TypesSplit == (TypeOK /\ QueueTypes) <=> AllTypes
<1>1. ASSUME gastrSocketBuffer \in [Socks -> Buffers], NEW s \in Socks
      PROVE  /\ gastrSocketBuffer[s].alloc \in BOOLEAN
             /\ gastrSocketBuffer[s].flag \subseteq Flags
             /\ gastrSocketBuffer[s].head \in 0..TcpSize /\ gastrSocketBuffer[s].tail \in 0..TcpSize
             /\ gastrSocketBuffer[s].mem \in [1..TcpSize -> Data \cup {Stale}]
             /\ gastrSocketBuffer[s].tail \in 0..gastrSocketBuffer[s].head
                  <=> gastrSocketBuffer[s].tail <= gastrSocketBuffer[s].head
  <2>1. gastrSocketBuffer[s] \in Buffers
    BY <1>1
  <2>2. /\ gastrSocketBuffer[s].flag \subseteq Flags
        /\ gastrSocketBuffer[s].head \in 0..TcpSize /\ gastrSocketBuffer[s].tail \in 0..TcpSize
        /\ gastrSocketBuffer[s].mem \in [1..TcpSize -> Data \cup {Stale}]
    BY <2>1 DEF Buffers
  <2>3. gastrSocketBuffer[s].alloc \in BOOLEAN
    BY <2>1, Zenon DEF Buffers
  <2> QED BY <2>2, <2>3, Bounds
<1>2. line \in Seq(Answers) => \A i \in DOMAIN line : line[i] \in Answers
  OBVIOUS
<1>3. AllTypes => TypeOK
  <2> SUFFICES ASSUME AllTypes PROVE TypeOK
    OBVIOUS
  <2>1. \A s \in Socks :
       /\ gastrSocketBuffer[s].alloc \in BOOLEAN
       /\ gastrSocketBuffer[s].flag \subseteq Flags
       /\ gastrSocketBuffer[s].tail \in 0..gastrSocketBuffer[s].head
       /\ gastrSocketBuffer[s].head \in 0..TcpSize
       /\ gastrSocketBuffer[s].mem \in [1..TcpSize -> Data \cup {Stale}]
    BY <1>1, Zenon DEF AllTypes, BufferTypes
  <2> QED BY <1>2, <2>1, Zenon DEF AllTypes, TypeOK, Phases, SockTypes, ChipTypes, ControlTypes, OtherTypes
<1>4. AllTypes => QueueTypes
  BY Zenon DEF AllTypes, QueueTypes, BufferTypes, ChipTypes, OtherTypes
<1>5. TypeOK /\ QueueTypes => AllTypes
  BY <1>1, Zenon DEF AllTypes, TypeOK, QueueTypes, Phases, SockTypes, BufferTypes, ChipTypes, ControlTypes, OtherTypes
<1> QED BY <1>3, <1>4, <1>5

\* What the types say of a socket, a buffer and a session.
LEMMA SockFields ==
  ASSUME NEW k, SockTypes(k), NEW s \in Socks
  PROVE  /\ k[s].used \in BOOLEAN /\ k[s].pending \in BOOLEAN
         /\ k[s].session \in 0..MaxSessions /\ k[s].user \in 0..TcpSize
         /\ k[s].session \in Nat /\ k[s].user \in Nat /\ DOMAIN k = Socks
<1>1. k[s] \in [used : BOOLEAN, session : 0..MaxSessions, pending : BOOLEAN, user : 0..TcpSize]
  BY DEF SockTypes
<1>2. k[s].used \in BOOLEAN /\ k[s].pending \in BOOLEAN
  BY <1>1, Zenon
<1>3. k[s].session \in 0..MaxSessions /\ k[s].user \in 0..TcpSize
  BY <1>1
<1> QED BY <1>2, <1>3, Bounds DEF SockTypes

LEMMA BufferFields ==
  ASSUME NEW b, BufferTypes(b), NEW s \in Socks
  PROVE  /\ b[s] \in Buffers /\ b[s].alloc \in BOOLEAN /\ b[s].flag \subseteq Flags
         /\ b[s].head \in 0..TcpSize /\ b[s].tail \in 0..TcpSize /\ b[s].tail <= b[s].head
         /\ b[s].head \in Nat /\ b[s].tail \in Nat
         /\ b[s].mem \in [1..TcpSize -> Data \cup {Stale}]
<1>1. b[s] \in Buffers /\ b[s].tail <= b[s].head
  BY DEF BufferTypes
<1>2. b[s].alloc \in BOOLEAN
  BY <1>1, Zenon DEF Buffers
<1>3. /\ b[s].flag \subseteq Flags /\ b[s].head \in 0..TcpSize /\ b[s].tail \in 0..TcpSize
      /\ b[s].mem \in [1..TcpSize -> Data \cup {Stale}]
  BY <1>1 DEF Buffers
<1> QED BY <1>1, <1>2, <1>3, Bounds

LEMMA ChipFields ==
  ASSUME NEW c, NEW w, ChipTypes(c, w), NEW x \in Sessions
  PROVE  /\ c[x].s \in Socks
         /\ c[x].phase \in Phases
         /\ c[x].asked \in Nat /\ c[x].owes \in Nat /\ c[x].owes <= w
         /\ c[x].made \in Nat /\ c[x].made <= MaxUnits
BY Bounds DEF ChipTypes

-----------------------------------------------------------------------------
(* What the operations do, socket by socket and session by session.          *)

\* recv() sets the pending flag and the address, and asks the chip unless it has.
RecvDone(k, s, at) ==
  /\ \A t \in Socks : t # s => gastrSockets'[t] = k[t]
  /\ gastrSockets'[s].used = k[s].used /\ gastrSockets'[s].session = k[s].session
  /\ k[s].used /\ at # 0 => gastrSockets'[s].pending /\ gastrSockets'[s].user = at
  /\ ~(k[s].used /\ at # 0) => gastrSockets'[s] = k[s]
  /\ \A x \in Sessions :
       /\ chip'[x].s = chip[x].s /\ chip'[x].phase = chip[x].phase
       /\ chip'[x].made = chip[x].made
       /\ \/ chip'[x].asked = chip[x].asked
          \/ /\ k[s].used /\ at # 0 /\ ~k[s].pending /\ x = k[s].session
             /\ chip[x].phase # "closed" /\ chip'[x].asked = chip[x].asked + 1
  /\ k[s].used /\ at # 0 /\ ~k[s].pending /\ k[s].session \in Sessions
     /\ chip[k[s].session].phase # "closed" /\ faults' = faults =>
       chip'[k[s].session].asked = chip[k[s].session].asked + 1
  /\ faults' = faults \/ faults' = faults + 1

LEMMA RecvEffect ==
  ASSUME NEW k, SockTypes(k), NEW w, ChipTypes(chip, w), faults \in 0..MaxFaults,
         NEW s \in Socks, NEW at \in 0..TcpSize, Recv(k, s, at)
  PROVE  /\ SockTypes(gastrSockets') /\ ChipTypes(chip', w) /\ faults' \in 0..MaxFaults
         /\ RecvDone(k, s, at)
<1>1. CASE ~(k[s].used /\ at # 0)
  <2>1. gastrSockets' = k /\ chip' = chip /\ faults' = faults
    BY <1>1 DEF Recv
  <2> QED BY <2>1, <1>1 DEF RecvDone
<1>2. CASE k[s].used /\ at # 0
  <2> DEFINE k1 == [k EXCEPT ![s].user = at, ![s].pending = TRUE]
  <2>1. gastrSockets' = k1
    BY <1>2 DEF Recv
  <2>2. /\ SockTypes(gastrSockets')
        /\ \A t \in Socks : t # s => gastrSockets'[t] = k[t]
        /\ gastrSockets'[s].used = k[s].used /\ gastrSockets'[s].session = k[s].session
        /\ gastrSockets'[s].pending /\ gastrSockets'[s].user = at
    BY <2>1 DEF SockTypes
  <2> HIDE DEF k1
  <2>3. ASSUME chip' = chip, faults' \in 0..MaxFaults, faults' = faults \/ faults' = faults + 1,
               k[s].pending \/ faults' # faults
        PROVE  ChipTypes(chip', w) /\ RecvDone(k, s, at)
    BY <2>2, <2>3, <1>2 DEF RecvDone
  <2>4. CASE k[s].pending
    <3>1. chip' = chip /\ faults' = faults
      BY <1>2, <2>4 DEF Recv
    <3> QED BY <3>1, <2>2, <2>3, <2>4
  <2>5. CASE ~k[s].pending
    <3>0. Request(Asked(k[s].session))
      BY <1>2, <2>5 DEF Recv
    <3>1. CASE chip' = Asked(k[s].session) /\ faults' = faults
      <4> DEFINE x == k[s].session
      <4>1. CASE chip[x].phase = "closed"
        <5>1. chip' = chip
          BY <3>1, <4>1 DEF Asked
        <5> QED BY <5>1, <4>1, <3>1, <2>2, <1>2 DEF RecvDone
      <4>2. CASE chip[x].phase # "closed"
        <5>0. Asked(x) = [chip EXCEPT ![x].asked = @ + 1]
          BY <4>2 DEF Asked
        <5>1. chip' = [chip EXCEPT ![x].asked = @ + 1] /\ faults' = faults
          BY <3>1, <5>0
        <5> HIDE DEF x
        <5>2. \A y \in Sessions : chip[y].asked \in Nat
          BY ChipFields
        <5>3. /\ DOMAIN chip' = Sessions
              /\ \A y \in Sessions :
                   chip'[y] = IF y = x THEN [chip[y] EXCEPT !.asked = chip[y].asked + 1] ELSE chip[y]
          BY <5>1 DEF ChipTypes
        <5>5. ASSUME NEW y \in Sessions
              PROVE  /\ chip'[y].s = chip[y].s /\ chip'[y].phase = chip[y].phase
                     /\ chip'[y].made = chip[y].made /\ chip'[y].owes = chip[y].owes
                     /\ chip'[y].asked = IF y = x THEN chip[y].asked + 1 ELSE chip[y].asked
          BY <5>3 DEF ChipTypes
        <5>6. chip' \in [Sessions -> [s : Socks,
                    phase : Phases,
                    asked : Nat, owes : 0..MaxWrites, made : 0..MaxUnits]]
          <6>1. CASE x \notin Sessions
            BY <5>1, <6>1 DEF ChipTypes
          <6>2. CASE x \in Sessions
            BY <5>1, <5>2, <6>2 DEF ChipTypes
          <6> QED BY <6>1, <6>2
        <5>7. ChipTypes(chip', w)
          BY <5>5, <5>6 DEF ChipTypes
        <5>4. x = k[s].session
          BY DEF x
        <5>8. /\ \A y \in Sessions :
                   /\ chip'[y].s = chip[y].s /\ chip'[y].phase = chip[y].phase
                   /\ chip'[y].made = chip[y].made
                   /\ \/ chip'[y].asked = chip[y].asked
                      \/ y = x /\ chip'[y].asked = chip[y].asked + 1
              /\ x \in Sessions => chip'[x].asked = chip[x].asked + 1
          BY <5>5
        <5>9. RecvDone(k, s, at)
          BY <5>1, <5>4, <5>8, <4>2, <2>2, <2>5, <1>2 DEF RecvDone
        <5> QED BY <5>1, <5>7, <5>9, <2>2
      <4> QED BY <4>1, <4>2
    <3>2. CASE faults < MaxFaults /\ faults' = faults + 1 /\ chip' = chip
      <4>1. faults' \in 0..MaxFaults /\ faults' # faults
        BY <3>2, Bounds
      <4> QED BY <4>1, <3>2, <2>2, <2>3
    <3> QED BY <3>0, <3>1, <3>2 DEF Request
  <2> QED BY <2>4, <2>5
<1> QED BY <1>1, <1>2

\* The chip is told to close a session.
Shutting(x) == \/ chip[x].phase = "open" /\ chip'[x].phase = "closing"
               \/ chip[x].phase = "connecting" /\ chip'[x].phase = "aborting"

LEMMA ShutEffect ==
  ASSUME NEW c, NEW w, ChipTypes(c, w), NEW x \in Sessions
  PROVE  /\ Shut(c[x]) \in [s : Socks, phase : Phases, asked : Nat, owes : 0..MaxWrites,
                            made : 0..MaxUnits]
         /\ Shut(c[x]).s = c[x].s /\ Shut(c[x]).asked = c[x].asked
         /\ Shut(c[x]).made = c[x].made /\ Shut(c[x]).owes = c[x].owes
         /\ Shut(c[x]).phase = IF c[x].phase = "open" THEN "closing"
                              ELSE IF c[x].phase = "connecting" THEN "aborting" ELSE c[x].phase
<1> DEFINE p == c[x].phase
           q == CASE p = "open" -> "closing" [] p = "connecting" -> "aborting" [] OTHER -> p
<1>1. c[x] \in [s : Socks, phase : Phases, asked : Nat, owes : 0..MaxWrites, made : 0..MaxUnits]
  BY DEF ChipTypes
<1>2. q = IF p = "open" THEN "closing" ELSE IF p = "connecting" THEN "aborting" ELSE p
  OBVIOUS
<1>3. Shut(c[x]) = [c[x] EXCEPT !.phase = q]
  BY DEF Shut
<1>4. q \in Phases
  BY <1>1, <1>2 DEF Phases
<1> HIDE DEF q
<1> QED BY <1>1, <1>2, <1>3, <1>4

\* close() clears the socket; the chip hears of it unless the request fails.
CloseDone(k, s) ==
  /\ \A t \in Socks : t # s => gastrSockets'[t] = k[t]
  /\ gastrSockets'[s] = IF k[s].used THEN Unused ELSE k[s]
  /\ \A x \in Sessions :
       /\ chip'[x].s = chip[x].s /\ chip'[x].asked = chip[x].asked
       /\ chip'[x].made = chip[x].made
       /\ \/ chip'[x].phase = chip[x].phase
          \/ k[s].used /\ x = k[s].session /\ Shutting(x)
  /\ orphaned => orphaned'
  /\ k[s].used /\ k[s].session \in Sessions /\ ~orphaned' =>
       chip'[k[s].session].phase \notin {"open", "connecting"}
  /\ faults' = faults \/ faults' = faults + 1

LEMMA CloseEffect ==
  ASSUME NEW k, SockTypes(k), NEW w, ChipTypes(chip, w), faults \in 0..MaxFaults,
         orphaned \in BOOLEAN, NEW s \in Socks, Close(k, s)
  PROVE  /\ SockTypes(gastrSockets') /\ ChipTypes(chip', w) /\ faults' \in 0..MaxFaults
         /\ orphaned' \in BOOLEAN /\ CloseDone(k, s)
<1>1. CASE ~k[s].used
  <2>1. gastrSockets' = k /\ chip' = chip /\ faults' = faults /\ orphaned' = orphaned
    BY <1>1 DEF Close
  <2> QED BY <2>1, <1>1 DEF CloseDone
<1>2. CASE k[s].used
  <2>1. /\ gastrSockets' = [k EXCEPT ![s] = Unused] /\ Request(Closing(k[s].session))
        /\ orphaned' = (orphaned \/ faults' # faults)
    BY <1>2 DEF Close
  <2>2. /\ SockTypes(gastrSockets')
        /\ \A t \in Socks : t # s => gastrSockets'[t] = k[t]
        /\ gastrSockets'[s] = Unused
    BY <2>1, Bounds DEF SockTypes, Unused
  <2>o. orphaned' \in BOOLEAN
    BY <2>1, Zenon
  <2>3. CASE chip' = Closing(k[s].session) /\ faults' = faults
    <3> DEFINE x == k[s].session
    <3>1. chip' = [chip EXCEPT ![x] = Shut(@)] /\ faults' = faults
      BY <2>3 DEF Closing
    <3>2. x = k[s].session
      OBVIOUS
    <3> HIDE DEF x
    <3>3. ASSUME NEW y \in Sessions
          PROVE  /\ chip'[y] \in [s : Socks, phase : Phases, asked : Nat, owes : 0..MaxWrites,
                                  made : 0..MaxUnits]
                 /\ chip'[y].s = chip[y].s /\ chip'[y].asked = chip[y].asked
                 /\ chip'[y].made = chip[y].made /\ chip'[y].owes = chip[y].owes
                 /\ chip'[y].phase = chip[y].phase \/ (y = x /\ Shutting(y))
                 /\ y = x => chip'[y].phase \notin {"open", "connecting"}
      <4>1. chip'[y] = IF y = x THEN Shut(chip[y]) ELSE chip[y]
        BY <3>1 DEF ChipTypes
      <4>2. CASE y = x
        BY <4>1, <4>2, ShutEffect DEF Shutting
      <4>3. CASE y # x
        BY <4>1, <4>3 DEF ChipTypes
      <4> QED BY <4>2, <4>3
    <3>4. ChipTypes(chip', w)
      <4>1. chip' = [y \in Sessions |-> chip'[y]]
        BY <3>1 DEF ChipTypes
      <4>2. \A y \in Sessions : chip'[y].owes <= w
        BY <3>3 DEF ChipTypes
      <4> QED BY <3>3, <4>1, <4>2 DEF ChipTypes
    <3> QED BY <3>1, <3>2, <3>3, <3>4, <2>1, <2>2, <2>o, <1>2 DEF CloseDone
  <2>4. CASE faults < MaxFaults /\ faults' = faults + 1 /\ chip' = chip
    <3>1. faults' \in 0..MaxFaults /\ faults' # faults
      BY <2>4, Bounds
    <3> QED BY <3>1, <2>4, <2>1, <2>2, <2>o, <1>2 DEF CloseDone
  <2> QED BY <2>1, <2>3, <2>4 DEF Request
<1> QED BY <1>1, <1>2

\* Control goes on at p, with the event loop's packets before that or not.
Goes(p, c) ==
  /\ p \in Points \ {"events", "small"}
  /\ ControlTypes' /\ Point' = p /\ (p # "idle" => cur' = c)
  /\ hif_small_xfer = 0 => pc' # "small"

LEMMA GoToEffect ==
  ASSUME ControlTypes, NEW p \in Points \ {"events", "small"}, GoTo(p)
  PROVE  Goes(p, cur)
<1>1. pc' = p /\ ret' = "idle" /\ cur' = IF p = "idle" THEN None ELSE cur
  BY DEF GoTo
<1>2. ControlTypes'
  BY <1>1 DEF ControlTypes, Points
<1>3. Point' = p
  BY <1>1 DEF Point
<1> QED BY <1>1, <1>2, <1>3 DEF Goes

LEMMA CallEffect ==
  ASSUME ControlTypes, NEW p \in Points \ {"events", "small"},
         NEW c \in Clients \cup {None}, NEW b, Call(c, b, p)
  PROVE  Goes(p, c)
<1>1. CASE \E s \in Socks : "full" \in b[s].flag
  <2>1. pc' = p /\ ret' = "idle" /\ cur' = IF p = "idle" THEN None ELSE c
    BY <1>1 DEF Call
  <2>2. ControlTypes' /\ Point' = p
    BY <2>1 DEF ControlTypes, Points, Point
  <2> QED BY <2>1, <2>2 DEF Goes
<1>2. CASE ~\E s \in Socks : "full" \in b[s].flag
  <2>1. /\ pc' = IF hif_small_xfer # 0 THEN "small" ELSE "events"
        /\ ret' = p /\ cur' = c
    BY <1>2 DEF Call
  <2>2. ControlTypes' /\ Point' = p
    BY <2>1 DEF ControlTypes, Points, Point
  <2> QED BY <2>1, <2>2 DEF Goes
<1> QED BY <1>1, <1>2

\* A point of a method is not one of the event loop.
LEMMA PointTypes ==
  ASSUME ControlTypes, ControlInv
  PROVE  /\ Point \in Points \ {"events", "small"}
         /\ pc \in {"events", "small"} => Point = ret
         /\ pc \notin {"events", "small"} => Point = pc
BY DEF ControlTypes, ControlInv, Point

\* Data go to the user's address, in a buffer that is allocated.
Stored(b, s, data) ==
  /\ \A t \in Socks : t # s => b[t] = gastrSocketBuffer[t]
  /\ b[s].alloc = gastrSocketBuffer[s].alloc /\ b[s].flag = gastrSocketBuffer[s].flag
  /\ b[s].head = gastrSocketBuffer[s].head /\ b[s].tail = gastrSocketBuffer[s].tail
  /\ b[s].alloc => \A i \in 1..TcpSize :
       b[s].mem[i] = IF i \in gastrSockets[s].user..(gastrSockets[s].user + Len(data) - 1)
                     THEN data[i - gastrSockets[s].user + 1] ELSE gastrSocketBuffer[s].mem[i]

LEMMA StoreEffect ==
  ASSUME BufferTypes(gastrSocketBuffer), SockTypes(gastrSockets),
         NEW s \in Socks, NEW data \in Seq(Data)
  PROVE  LET b == Store(gastrSocketBuffer, s, data) IN BufferTypes(b) /\ Stored(b, s, data)
<1> DEFINE at == gastrSockets[s].user
           b == gastrSocketBuffer
<1>1. at \in Nat /\ Len(data) \in Nat /\ \A j \in 1..Len(data) : data[j] \in Data
  BY SockFields
<1>2. b[s].alloc \in BOOLEAN /\ b[s].mem \in [1..TcpSize -> Data \cup {Stale}] /\ b[s] \in Buffers
  BY BufferFields
<1>3. CASE ~b[s].alloc
  <2>1. Store(b, s, data) = b
    BY <1>3 DEF Store
  <2> QED BY <2>1, <1>3 DEF Stored
<1>4. CASE b[s].alloc
  <2> DEFINE m == [i \in 1..TcpSize |->
                     IF i \in at..(at + Len(data) - 1) THEN data[i - at + 1] ELSE b[s].mem[i]]
  <2>1. Store(b, s, data) = [b EXCEPT ![s].mem = m]
    BY <1>4 DEF Store
  <2>2. ASSUME NEW i \in 1..TcpSize PROVE m[i] \in Data \cup {Stale}
    <3> HIDE DEF at
    <3>1. CASE i \in at..(at + Len(data) - 1)
      <4>1. i - at + 1 \in 1..Len(data)
        BY <1>1, <3>1
      <4> QED BY <4>1, <1>1, <3>1
    <3>2. CASE i \notin at..(at + Len(data) - 1)
      BY <3>2, <1>2
    <3> QED BY <3>1, <3>2
  <2>3. m \in [1..TcpSize -> Data \cup {Stale}]
    BY <2>2
  <2>4. \A i \in 1..TcpSize : m[i] = IF i \in at..(at + Len(data) - 1) THEN data[i - at + 1]
                                     ELSE b[s].mem[i]
    OBVIOUS
  <2> HIDE DEF m
  <2>5. BufferTypes([b EXCEPT ![s].mem = m])
    BY <2>3 DEF BufferTypes, Buffers
  <2> DEFINE new == Store(b, s, data)
  <2>6. DOMAIN b = Socks /\ new = [b EXCEPT ![s].mem = m]
    BY <2>1 DEF BufferTypes
  <2> HIDE DEF new
  <2>7. /\ \A t \in Socks : t # s => new[t] = b[t]
        /\ new[s] = [b[s] EXCEPT !.mem = m]
    BY <2>6
  <2>8. /\ new[s].alloc = b[s].alloc /\ new[s].flag = b[s].flag /\ new[s].head = b[s].head
        /\ new[s].tail = b[s].tail /\ new[s].mem = m
    BY <1>2, <2>7 DEF Buffers
  <2>9. BufferTypes(new)
    BY <2>5, <2>6
  <2>10. Stored(new, s, data)
    BY <2>4, <2>7, <2>8, <1>4 DEF Stored
  <2> QED BY <2>9, <2>10 DEF new
<1> QED BY <1>2, <1>3, <1>4

\* socketBufferCb takes n units that fit, and asks for more only with room for an MTU.
CbRecvDone(k, b, s, n, more) ==
  /\ \A t \in Socks : t # s => gastrSocketBuffer'[t] = b[t]
  /\ gastrSocketBuffer'[s].alloc = b[s].alloc /\ gastrSocketBuffer'[s].mem = b[s].mem
  /\ gastrSocketBuffer'[s].tail = b[s].tail /\ b[s].flag \subseteq gastrSocketBuffer'[s].flag
  /\ \E at \in 0..TcpSize : RecvDone(k, s, at)
  /\ Mtu = TcpSize /\ n > 0 /\ ~more /\ b[s].head + n <= TcpSize =>
       /\ gastrSocketBuffer'[s].head = b[s].head + n
       /\ gastrSocketBuffer'[s].flag = b[s].flag
       /\ gastrSockets' = k /\ UNCHANGED <<chip, faults>>

LEMMA CbRecvEffect ==
  ASSUME NEW k, SockTypes(k), NEW w, ChipTypes(chip, w), faults \in 0..MaxFaults,
         NEW b, BufferTypes(b), NEW s \in Socks, NEW n \in Nat, NEW more,
         CbRecv(k, b, s, n, more)
  PROVE  /\ SockTypes(gastrSockets') /\ ChipTypes(chip', w) /\ faults' \in 0..MaxFaults
         /\ BufferTypes(gastrSocketBuffer') /\ CbRecvDone(k, b, s, n, more)
<1> DEFINE h == b[s].head + n
<1>1. /\ h \in Nat /\ b[s].tail \in Nat /\ b[s].tail <= h /\ b[s].head \in Nat
      /\ b[s] \in Buffers /\ b[s].flag \subseteq Flags
  BY BufferFields
<1>n. k = gastrSockets' /\ UNCHANGED <<chip, faults>> => RecvDone(k, s, 0)
  BY DEF RecvDone
<1>z. 0 \in 0..TcpSize
  BY Bounds
<1>2. CASE h > TcpSize
  <2>1. /\ gastrSocketBuffer' = [b EXCEPT ![s].flag = @ \cup {"full"}]
        /\ gastrSockets' = k /\ UNCHANGED <<chip, faults>>
    BY <1>2 DEF CbRecv
  <2>2. BufferTypes(gastrSocketBuffer')
    BY <2>1 DEF BufferTypes, Buffers, Flags
  <2>3. /\ \A t \in Socks : t # s => gastrSocketBuffer'[t] = b[t]
        /\ gastrSocketBuffer'[s].alloc = b[s].alloc /\ gastrSocketBuffer'[s].mem = b[s].mem
        /\ gastrSocketBuffer'[s].tail = b[s].tail
        /\ b[s].flag \subseteq gastrSocketBuffer'[s].flag
    BY <2>1, <1>1 DEF BufferTypes, Buffers
  <2> QED BY <2>1, <2>2, <2>3, <1>n, <1>z, <1>2, <1>1, Bounds DEF CbRecvDone
<1>3. CASE ~(h > TcpSize) /\ TcpSize - h < Mtu
  <2> DEFINE f == b[s].flag \cup (IF more THEN {"full"} ELSE {})
  <2>0. f \subseteq Flags /\ b[s].flag \subseteq f /\ (~more => f = b[s].flag)
    BY <1>1 DEF Flags
  <2>h. h \in 0..TcpSize
    BY <1>1, <1>3, Bounds
  <2>1. /\ gastrSocketBuffer' = [b EXCEPT ![s].head = h, ![s].flag = f]
        /\ gastrSockets' = k /\ UNCHANGED <<chip, faults>>
    <3>1. gastrSocketBuffer' = [b EXCEPT ![s].head = h,
                                  ![s].flag = @ \cup (IF more THEN {"full"} ELSE {})]
          /\ gastrSockets' = k /\ UNCHANGED <<chip, faults>>
      BY <1>3 DEF CbRecv
    <3>2. [b EXCEPT ![s].head = h, ![s].flag = @ \cup (IF more THEN {"full"} ELSE {})]
            = [b EXCEPT ![s].head = h, ![s].flag = f]
      BY <1>1 DEF BufferTypes, Buffers
    <3> QED BY <3>1, <3>2
  <2> HIDE DEF f, h
  <2>2. BufferTypes(gastrSocketBuffer')
    BY <2>1, <2>0, <2>h, <1>1 DEF BufferTypes, Buffers
  <2>3. /\ \A t \in Socks : t # s => gastrSocketBuffer'[t] = b[t]
        /\ gastrSocketBuffer'[s].alloc = b[s].alloc /\ gastrSocketBuffer'[s].mem = b[s].mem
        /\ gastrSocketBuffer'[s].tail = b[s].tail
        /\ gastrSocketBuffer'[s].head = h /\ gastrSocketBuffer'[s].flag = f
    BY <2>1, <1>1 DEF BufferTypes, Buffers
  <2> QED BY <2>0, <2>1, <2>2, <2>3, <1>n, <1>z DEF CbRecvDone, h
<1>4. CASE ~(h > TcpSize) /\ ~(TcpSize - h < Mtu)
  <2>h. h \in 0..TcpSize /\ h + 1 \in 0..TcpSize /\ (Mtu = TcpSize => ~(n > 0))
    BY <1>1, <1>4, Bounds
  <2>1. gastrSocketBuffer' = [b EXCEPT ![s].head = h] /\ Recv(k, s, h + 1)
    BY <1>4 DEF CbRecv
  <2> HIDE DEF h
  <2>2. BufferTypes(gastrSocketBuffer')
    BY <2>1, <2>h, <1>1 DEF BufferTypes, Buffers
  <2>3. /\ \A t \in Socks : t # s => gastrSocketBuffer'[t] = b[t]
        /\ gastrSocketBuffer'[s].alloc = b[s].alloc /\ gastrSocketBuffer'[s].mem = b[s].mem
        /\ gastrSocketBuffer'[s].tail = b[s].tail
        /\ gastrSocketBuffer'[s].head = h /\ gastrSocketBuffer'[s].flag = b[s].flag
    BY <2>1, <1>1 DEF BufferTypes, Buffers
  <2>4. /\ SockTypes(gastrSockets') /\ ChipTypes(chip', w) /\ faults' \in 0..MaxFaults
        /\ RecvDone(k, s, h + 1)
    BY <2>1, <2>h, RecvEffect
  <2> QED BY <2>2, <2>3, <2>4, <2>h DEF CbRecvDone
<1> QED BY <1>2, <1>3, <1>4

\* The buffer's address is its first unit, if it is allocated.
LEMMA StartTypes ==
  ASSUME BufferTypes(gastrSocketBuffer), NEW s \in Socks
  PROVE  /\ Start(s) \in 0..TcpSize /\ Start(s) \in {0, 1}
         /\ gastrSocketBuffer[s].alloc => Start(s) = 1
BY Bounds DEF Start

\* socketBufferRead takes the next n units; with the last of them it asks for more.
BufferReadDone(s, n) ==
  LET t == gastrSocketBuffer[s].tail + n IN
  /\ \A u \in Socks : u # s => gastrSocketBuffer'[u] = gastrSocketBuffer[u] /\ got'[u] = got[u]
  /\ gastrSocketBuffer'[s].alloc = gastrSocketBuffer[s].alloc
  /\ gastrSocketBuffer'[s].mem = gastrSocketBuffer[s].mem
  /\ \A f : f # "full" =>
       (f \in gastrSocketBuffer'[s].flag <=> f \in gastrSocketBuffer[s].flag)
  /\ gastrSocketBuffer'[s].flag \subseteq gastrSocketBuffer[s].flag
  /\ IF t = gastrSocketBuffer[s].head
     THEN /\ gastrSocketBuffer'[s].head = 0 /\ gastrSocketBuffer'[s].tail = 0
          /\ RecvDone(gastrSockets, s, Start(s))
     ELSE /\ gastrSocketBuffer'[s].head = gastrSocketBuffer[s].head
          /\ gastrSocketBuffer'[s].tail = t
          /\ UNCHANGED <<gastrSockets, chip, faults>>
  /\ Len(got'[s]) = Len(got[s]) + n
  /\ \A i \in 1..Len(got[s]) : got'[s][i] = got[s][i]
  /\ \A i \in 1..n : got'[s][Len(got[s]) + i] = gastrSocketBuffer[s].mem[gastrSocketBuffer[s].tail + i]

LEMMA BufferReadEffect ==
  ASSUME SockTypes(gastrSockets), NEW w, ChipTypes(chip, w), faults \in 0..MaxFaults,
         BufferTypes(gastrSocketBuffer), got \in [Socks -> Seq(Data \cup {Stale})], ControlTypes,
         NEW s \in Socks, NEW n \in 1..Available(s),
         NEW p \in Points \ {"events", "small"}, BufferRead(s, n, p)
  PROVE  /\ SockTypes(gastrSockets') /\ ChipTypes(chip', w) /\ faults' \in 0..MaxFaults
         /\ BufferTypes(gastrSocketBuffer') /\ got' \in [Socks -> Seq(Data \cup {Stale})]
         /\ BufferReadDone(s, n) /\ Goes(p, cur)
<1> DEFINE b == gastrSocketBuffer
           t == b[s].tail + n
           Units == Data \cup {Stale}
           chunk == SubSeq(b[s].mem, b[s].tail + 1, t)
<1>1. /\ b[s] \in Buffers /\ b[s].head \in 0..TcpSize /\ b[s].tail \in Nat /\ n \in Nat \ {0}
      /\ b[s].tail + n <= b[s].head /\ b[s].mem \in [1..TcpSize -> Units]
      /\ b[s].flag \subseteq Flags
  BY BufferFields, Bounds DEF Available
<1>2. b[s].mem \in Seq(Units) /\ Len(b[s].mem) = TcpSize
  <2>1. \A m \in [1..TcpSize -> Units] : m \in Seq(Units) /\ Len(m) = TcpSize
    BY Bounds
  <2> QED BY <1>1, <2>1
<1>3. /\ chunk \in Seq(Units) /\ Len(chunk) = n
      /\ \A i \in 1..n : chunk[i] = b[s].mem[b[s].tail + i]
  <2> DEFINE m == b[s].mem
             u == b[s].tail
  <2>1. m \in Seq(Units) /\ Len(m) = TcpSize /\ u \in Nat /\ u + n <= TcpSize /\ n \in Nat
    BY <1>1, <1>2, Bounds
  <2> HIDE DEF m, u
  <2>2. /\ SubSeq(m, u + 1, u + n) \in Seq(Units) /\ Len(SubSeq(m, u + 1, u + n)) = n
        /\ \A i \in 1..n : SubSeq(m, u + 1, u + n)[i] = m[u + i]
    BY <2>1, Bounds
  <2> QED BY <2>2 DEF m, u
<1>4. got' = [got EXCEPT ![s] = @ \o chunk]
  BY DEF BufferRead
<1>5. got[s] \in Seq(Units)
  OBVIOUS
<1> HIDE DEF Units
<1>6. /\ got[s] \o chunk \in Seq(Units) /\ Len(got[s] \o chunk) = Len(got[s]) + n
      /\ \A i \in 1..Len(got[s]) : (got[s] \o chunk)[i] = got[s][i]
      /\ \A i \in 1..n : (got[s] \o chunk)[Len(got[s]) + i] = chunk[i]
  <2> DEFINE g == got[s]
             c == chunk
  <2>1. g \in Seq(Units) /\ c \in Seq(Units) /\ Len(c) = n
    BY <1>3, <1>5
  <2> HIDE DEF g, c
  <2>2. /\ g \o c \in Seq(Units) /\ Len(g \o c) = Len(g) + Len(c)
        /\ \A i \in 1..Len(g) : (g \o c)[i] = g[i]
        /\ \A i \in 1..Len(c) : (g \o c)[Len(g) + i] = c[i]
    <3>0. g \o c \in Seq(Units)
      BY <2>1
    <3>1. Len(g \o c) = Len(g) + Len(c)
      BY <2>1, ConcatProperties, Zenon
    <3>2. \A i \in 1..Len(g) : (g \o c)[i] = g[i]
      BY <2>1
    <3>3. \A i \in 1..Len(c) : (g \o c)[Len(g) + i] = c[i]
      BY <2>1
    <3> QED BY <3>0, <3>1, <3>2, <3>3
  <2> QED BY <2>1, <2>2 DEF g, c
<1> HIDE DEF chunk
<1>7. /\ got' \in [Socks -> Seq(Units)] /\ got'[s] = got[s] \o chunk
      /\ \A u \in Socks : u # s => got'[u] = got[u]
  BY <1>4, <1>6 DEF Units
<1>8. CASE t = b[s].head
  <2> DEFINE drained == [b EXCEPT ![s].head = 0, ![s].tail = 0, ![s].flag = @ \ {"full"}]
  <2>1. gastrSocketBuffer' = drained /\ Recv(gastrSockets, s, Start(s)) /\ Call(cur, drained, p)
    BY <1>8 DEF BufferRead
  <2>2. BufferTypes(drained)
    <3> DEFINE f == b[s].flag \ {"full"}
    <3>1. f \subseteq Flags /\ 0 \in 0..TcpSize
      BY <1>1, Bounds
    <3> HIDE DEF f
    <3>2. BufferTypes([b EXCEPT ![s].head = 0, ![s].tail = 0, ![s].flag = f])
      <4> DEFINE e == [b EXCEPT ![s].head = 0, ![s].tail = 0, ![s].flag = f]
      <4>1. /\ DOMAIN e = Socks /\ e = [u \in Socks |-> e[u]]
            /\ \A u \in Socks \ {s} : e[u] = b[u]
            /\ e[s] = [b[s] EXCEPT !.head = 0, !.tail = 0, !.flag = f]
        BY DEF BufferTypes
      <4>2. e[s] \in Buffers /\ e[s].head = 0 /\ e[s].tail = 0
        BY <4>1, <3>1, <1>1 DEF Buffers
      <4>3. \A u \in Socks : e[u] \in Buffers /\ e[u].tail <= e[u].head
        BY <4>1, <4>2 DEF BufferTypes
      <4> HIDE DEF e
      <4>4. BufferTypes(e)
        BY <4>1, <4>3 DEF BufferTypes
      <4> QED BY <4>4 DEF e
    <3>3. drained = [b EXCEPT ![s].head = 0, ![s].tail = 0, ![s].flag = f]
      BY <1>1 DEF BufferTypes, Buffers, f
    <3> QED BY <3>2, <3>3
  <2>3. /\ \A u \in Socks : u # s => drained[u] = b[u]
        /\ drained[s].alloc = b[s].alloc /\ drained[s].mem = b[s].mem
        /\ drained[s].head = 0 /\ drained[s].tail = 0
        /\ drained[s].flag = b[s].flag \ {"full"}
    BY <1>1 DEF BufferTypes, Buffers
  <2> HIDE DEF drained
  <2>4. /\ SockTypes(gastrSockets') /\ ChipTypes(chip', w) /\ faults' \in 0..MaxFaults
        /\ RecvDone(gastrSockets, s, Start(s))
    BY <2>1, StartTypes, RecvEffect
  <2>5. Goes(p, cur)
    BY <2>1, CallEffect DEF ControlTypes
  <2> QED BY <2>1, <2>2, <2>3, <2>4, <2>5, <1>3, <1>6, <1>7, <1>8 DEF BufferReadDone, Units
<1>9. CASE t # b[s].head
  <2>1. /\ gastrSocketBuffer' = [b EXCEPT ![s].tail = t] /\ GoTo(p)
        /\ UNCHANGED <<gastrSockets, chip, faults>>
    BY <1>9 DEF BufferRead
  <2>t. t \in 0..TcpSize /\ t <= b[s].head
    <3> DEFINE u == b[s].tail
               h == b[s].head
    <3>1. h \in 0..TcpSize /\ u \in Nat /\ n \in Nat /\ u + n <= h
      BY <1>1
    <3> HIDE DEF h, u
    <3>2. u + n \in 0..TcpSize /\ u + n <= h
      BY <3>1, Bounds
    <3> QED BY <3>2 DEF h, u
  <2>2. BufferTypes(gastrSocketBuffer')
    BY <2>1, <2>t, <1>1 DEF BufferTypes, Buffers
  <2>3. /\ \A u \in Socks : u # s => gastrSocketBuffer'[u] = b[u]
        /\ gastrSocketBuffer'[s].alloc = b[s].alloc /\ gastrSocketBuffer'[s].mem = b[s].mem
        /\ gastrSocketBuffer'[s].head = b[s].head /\ gastrSocketBuffer'[s].tail = t
        /\ gastrSocketBuffer'[s].flag = b[s].flag
    BY <2>1, <1>1 DEF BufferTypes, Buffers
  <2>5. Goes(p, cur)
    BY <2>1, GoToEffect
  <2>6. SockTypes(gastrSockets') /\ ChipTypes(chip', w) /\ faults' \in 0..MaxFaults
    BY <2>1
  <2> QED BY <2>1, <2>2, <2>3, <2>5, <2>6, <1>3, <1>6, <1>7, <1>9 DEF BufferReadDone, Units
<1> QED BY <1>8, <1>9 DEF Units

-----------------------------------------------------------------------------
(* What the handlers of the event loop do.                                   *)

\* The method that is running goes on where it was.
LEMMA SteadyGoTo ==
  ASSUME ControlTypes, ControlInv, pc \in {"events", "small"}, GoTo(ret)
  PROVE  Goes(Point, cur)
<1>1. Point \in Points \ {"events", "small"} /\ Point = ret
  BY PointTypes
<1> QED BY <1>1, GoToEffect

LEMMA SteadyStill ==
  ASSUME ControlTypes, ControlInv, UNCHANGED ctlVars, pc # "small"
  PROVE  Goes(Point, cur)
<1>1. Point \in Points \ {"events", "small"}
  BY PointTypes
<1> QED BY <1>1 DEF ControlTypes, ctlVars, Point, Goes

\* The parts of a buffer that the events leave alone
Contents(t) ==
  /\ gastrSocketBuffer'[t].alloc = gastrSocketBuffer[t].alloc
  /\ gastrSocketBuffer'[t].head = gastrSocketBuffer[t].head
  /\ gastrSocketBuffer'[t].tail = gastrSocketBuffer[t].tail
  /\ gastrSocketBuffer'[t].mem = gastrSocketBuffer[t].mem

\* Only flags of a buffer change.
LEMMA FlagEffect ==
  ASSUME BufferTypes(gastrSocketBuffer), NEW s \in Socks, NEW f \in SUBSET Flags,
         gastrSocketBuffer' = [gastrSocketBuffer EXCEPT ![s].flag = f]
  PROVE  /\ BufferTypes(gastrSocketBuffer') /\ \A t \in Socks : Contents(t)
         /\ \A t \in Socks : t # s => gastrSocketBuffer'[t] = gastrSocketBuffer[t]
         /\ gastrSocketBuffer'[s].flag = f
<1> DEFINE b == gastrSocketBuffer
           e == gastrSocketBuffer'
<1>1. \A t \in Socks : b[t] \in Buffers /\ b[t].tail <= b[t].head
  BY DEF BufferTypes
<1>2. /\ DOMAIN e = Socks /\ e = [t \in Socks |-> e[t]]
      /\ \A t \in Socks : t # s => e[t] = b[t]
      /\ e[s] = [b[s] EXCEPT !.flag = f]
  BY DEF BufferTypes
<1>3. /\ e[s] \in Buffers /\ e[s].flag = f /\ e[s].alloc = b[s].alloc
      /\ e[s].head = b[s].head /\ e[s].tail = b[s].tail /\ e[s].mem = b[s].mem
  BY <1>1, <1>2 DEF Buffers
<1>4. \A t \in Socks : e[t] \in Buffers /\ e[t].tail <= e[t].head
  BY <1>1, <1>2, <1>3
<1>5. \A t \in Socks : Contents(t)
  BY <1>2, <1>3 DEF Contents
<1> HIDE DEF e
<1>6. BufferTypes(e)
  BY <1>2, <1>4 DEF BufferTypes
<1> QED BY <1>2, <1>3, <1>5, <1>6 DEF e

\* The answer that is taken
TakesHead(k) == /\ pc = "events" /\ line # <<>> /\ Head(line).k = k /\ line' = Tail(line)
                /\ Goes(Point, cur)

CbConnectDone(s, x) ==
  /\ TakesHead("connect") /\ s = Head(line).s /\ x = Head(line).x
  /\ UNCHANGED <<gu16SessionID, xferVars, _socket, got, opened, own, waited, ended, orphaned,
                 writes>>
  /\ misconnected' = IF Session(s) \in {0, x} THEN misconnected ELSE misconnected \cup {s}
  /\ \A t \in Socks : Contents(t)
  /\ \A t \in Socks : t # s => gastrSocketBuffer'[t] = gastrSocketBuffer[t]
  /\ \/ /\ Head(line).ok /\ gastrSocketBuffer'[s].flag = {"connected"}
        /\ RecvDone(gastrSockets, s, Start(s))
     \/ /\ ~Head(line).ok /\ gastrSocketBuffer'[s].flag = {}
        /\ UNCHANGED <<gastrSockets, chip, faults>>

LEMMA CbConnectEffect ==
  ASSUME AllTypes, ControlInv, CbConnect
  PROVE  AllTypes' /\ \E s \in Socks, x \in Sessions : CbConnectDone(s, x)
<1> DEFINE r == Head(line)
           s == r.s
           x == r.x
           f == IF r.ok THEN {"connected"} ELSE {}
<1>1. /\ line \in Seq(Answers) /\ SockTypes(gastrSockets) /\ BufferTypes(gastrSocketBuffer)
      /\ ChipTypes(chip, writes) /\ faults \in 0..MaxFaults /\ ControlTypes
  BY DEF AllTypes, OtherTypes
<1>2. /\ line # <<>> /\ r.k = "connect" /\ pc = "events" /\ line' = Tail(line)
      /\ UNCHANGED <<gu16SessionID, xferVars, _socket, ctlVars, got, opened, own, waited, ended,
                     orphaned, writes>>
  BY DEF CbConnect, Packet
<1>m. misconnected' = misconnected \cup {t \in {s} : Session(t) \notin {0, x}}
  BY DEF CbConnect, Session
<1>3. r \in Answers /\ line' \in Seq(Answers)
  BY <1>1, <1>2, LineTail
<1> HIDE DEF r
<1>4. s \in Socks /\ x \in Sessions /\ r.ok \in BOOLEAN
  BY <1>2, <1>3, AnswerTypes
<1>5. TakesHead("connect")
  BY <1>1, <1>2, SteadyStill DEF TakesHead, r
<1>6. /\ \/ r.ok /\ Recv(gastrSockets, s, Start(s))
         \/ ~r.ok /\ UNCHANGED <<gastrSockets, chip, faults>>
      /\ gastrSocketBuffer' = [gastrSocketBuffer EXCEPT ![s].flag = f]
  BY <1>4 DEF CbConnect, r
<1>7. f \in SUBSET Flags
  BY DEF Flags
<1> HIDE DEF s, x, f
<1>n. /\ misconnected' = IF Session(s) \in {0, x} THEN misconnected ELSE misconnected \cup {s}
      /\ misconnected' \subseteq Socks
  <2>1. misconnected \subseteq Socks
    BY DEF AllTypes, OtherTypes
  <2> QED BY <2>1, <1>4, <1>m
<1>8. /\ BufferTypes(gastrSocketBuffer') /\ \A t \in Socks : Contents(t)
      /\ \A t \in Socks : t # s => gastrSocketBuffer'[t] = gastrSocketBuffer[t]
      /\ gastrSocketBuffer'[s].flag = f
  BY <1>1, <1>4, <1>6, <1>7, FlagEffect
<1>9. /\ SockTypes(gastrSockets') /\ ChipTypes(chip', writes) /\ faults' \in 0..MaxFaults
      /\ \/ r.ok /\ RecvDone(gastrSockets, s, Start(s))
         \/ ~r.ok /\ UNCHANGED <<gastrSockets, chip, faults>>
  <2>1. CASE r.ok /\ Recv(gastrSockets, s, Start(s))
    BY <2>1, <1>1, <1>4, StartTypes, RecvEffect
  <2>2. CASE ~r.ok /\ UNCHANGED <<gastrSockets, chip, faults>>
    BY <2>2, <1>1
  <2> QED BY <1>6, <2>1, <2>2
<1>10. CbConnectDone(s, x)
  BY <1>2, <1>4, <1>5, <1>8, <1>9, <1>n, Zenon DEF CbConnectDone, s, x, r, f
<1>11. ChipTypes(chip', writes')
  BY <1>2, <1>9
<1>12. ControlTypes'
  BY <1>5 DEF TakesHead, Goes
<1>13. OtherTypes'
  BY <1>2, <1>3, <1>9, <1>n DEF AllTypes, OtherTypes, xferVars
<1> QED BY <1>4, <1>8, <1>9, <1>10, <1>11, <1>12, <1>13 DEF AllTypes

CbSendDone(s) ==
  /\ TakesHead("send")
  /\ UNCHANGED <<sockVars, xferVars, _socket, chip, histVars, writes, faults>>
  /\ \A t \in Socks : Contents(t)
  /\ \A t \in Socks : t # s => gastrSocketBuffer'[t] = gastrSocketBuffer[t]
  /\ \/ gastrSocketBuffer'[s].flag = gastrSocketBuffer[s].flag \ {"sending"}
     \/ gastrSocketBuffer' = gastrSocketBuffer

LEMMA CbSendEffect ==
  ASSUME AllTypes, ControlInv, CbSend
  PROVE  AllTypes' /\ \E s \in Socks : CbSendDone(s)
<1> DEFINE r == Head(line)
           s == r.s
           f == gastrSocketBuffer[s].flag \ {"sending"}
<1>1. line \in Seq(Answers) /\ BufferTypes(gastrSocketBuffer) /\ ControlTypes
  BY DEF AllTypes, OtherTypes
<1>2. /\ line # <<>> /\ r.k = "send" /\ pc = "events" /\ line' = Tail(line)
      /\ UNCHANGED <<sockVars, xferVars, _socket, ctlVars, chip, histVars, writes, faults>>
  BY DEF CbSend, Packet
<1>3. r \in Answers /\ line' \in Seq(Answers)
  BY <1>1, <1>2, LineTail
<1> HIDE DEF r
<1>4. s \in Socks
  BY <1>3, AnswerTypes
<1>5. TakesHead("send")
  BY <1>1, <1>2, SteadyStill DEF TakesHead, r
<1>6. \/ gastrSocketBuffer' = [gastrSocketBuffer EXCEPT ![s].flag = f]
      \/ gastrSocketBuffer' = gastrSocketBuffer
  <2>1. \/ gastrSocketBuffer' = [gastrSocketBuffer EXCEPT ![s].flag = @ \ {"sending"}]
        \/ gastrSocketBuffer' = gastrSocketBuffer
    BY DEF CbSend, r
  <2>2. [gastrSocketBuffer EXCEPT ![s].flag = @ \ {"sending"}]
          = [gastrSocketBuffer EXCEPT ![s].flag = f]
    BY <1>1, <1>4 DEF BufferTypes, Buffers
  <2> QED BY <2>1, <2>2
<1>7. f \in SUBSET Flags
  BY <1>1, <1>4, BufferFields
<1> HIDE DEF s, f
<1>8. /\ BufferTypes(gastrSocketBuffer') /\ \A t \in Socks : Contents(t)
      /\ \A t \in Socks : t # s => gastrSocketBuffer'[t] = gastrSocketBuffer[t]
      /\ gastrSocketBuffer'[s].flag = f \/ gastrSocketBuffer' = gastrSocketBuffer
  <2>1. CASE gastrSocketBuffer' = [gastrSocketBuffer EXCEPT ![s].flag = f]
    BY <1>1, <1>4, <1>7, <2>1, FlagEffect
  <2>2. CASE gastrSocketBuffer' = gastrSocketBuffer
    BY <1>1, <2>2 DEF Contents
  <2> QED BY <1>6, <2>1, <2>2
<1>9. CbSendDone(s)
  BY <1>2, <1>5, <1>8 DEF CbSendDone, f
<1>10. SockTypes(gastrSockets') /\ ChipTypes(chip', writes')
  BY <1>2 DEF AllTypes, sockVars
<1>12. ControlTypes'
  BY <1>5 DEF TakesHead, Goes
<1>13. OtherTypes'
  BY <1>2, <1>3 DEF AllTypes, OtherTypes, sockVars, xferVars, histVars
<1> QED BY <1>4, <1>8, <1>9, <1>10, <1>12, <1>13 DEF AllTypes

PacketUnreadDone ==
  /\ pc = "events" /\ line # <<>> /\ line' = Tail(line) /\ Goes(Point, cur)
  /\ faults' = faults + 1
  /\ UNCHANGED <<sockVars, gastrSocketBuffer, xferVars, _socket, chip, histVars, writes>>

LEMMA PacketUnreadEffect ==
  ASSUME AllTypes, ControlInv, PacketUnread
  PROVE  AllTypes' /\ PacketUnreadDone
<1>1. line \in Seq(Answers) /\ ControlTypes /\ faults \in 0..MaxFaults
  BY DEF AllTypes, OtherTypes
<1>2. /\ line # <<>> /\ pc = "events" /\ line' = Tail(line)
      /\ faults < MaxFaults /\ faults' = faults + 1
      /\ UNCHANGED <<sockVars, gastrSocketBuffer, xferVars, _socket, ctlVars, chip, histVars,
                     writes>>
  BY DEF PacketUnread
<1>3. line' \in Seq(Answers)
  BY <1>1, <1>2, LineTail
<1>4. faults' \in 0..MaxFaults
  BY <1>1, <1>2, Bounds
<1>5. Goes(Point, cur)
  BY <1>1, <1>2, SteadyStill
<1>6. ControlTypes'
  BY <1>5 DEF Goes
<1>7. OtherTypes'
  BY <1>2, <1>3, <1>4 DEF AllTypes, OtherTypes, sockVars, xferVars, histVars
<1>8. /\ SockTypes(gastrSockets') /\ BufferTypes(gastrSocketBuffer')
      /\ ChipTypes(chip', writes')
  BY <1>2 DEF AllTypes, sockVars
<1> QED BY <1>2, <1>5, <1>6, <1>7, <1>8 DEF AllTypes, PacketUnreadDone

\* The flag of socket s is reset.
Reset(s) == [gastrSockets EXCEPT ![s].pending = FALSE]

LEMMA ResetEffect ==
  ASSUME SockTypes(gastrSockets), NEW s \in Socks
  PROVE  /\ SockTypes(Reset(s))
         /\ \A t \in Socks : t # s => Reset(s)[t] = gastrSockets[t]
         /\ Reset(s)[s].used = gastrSockets[s].used
         /\ Reset(s)[s].session = gastrSockets[s].session
         /\ Reset(s)[s].user = gastrSockets[s].user /\ Reset(s)[s].pending = FALSE
BY DEF SockTypes, Reset

\* An answer to recv() that comes too late, at a socket without an address, or is not read
ReplyNoData(s, x) ==
  /\ UNCHANGED <<gastrSocketBuffer, chip, orphaned>>
  /\ gastrSockets' = Reset(s)
  /\ faults' = faults \/ faults' = faults + 1
  /\ x # gastrSockets[s].session \/ ~Readable(s) \/ faults' = faults + 1

ReplyEof(s, x) ==
  /\ x = gastrSockets[s].session /\ ended'
  /\ \A t \in Socks : Contents(t)
  /\ \A t \in Socks : t # s => gastrSocketBuffer'[t] = gastrSocketBuffer[t]
  /\ gastrSocketBuffer'[s].flag = {}
  /\ CloseDone(Reset(s), s)

ReplyData(s, x) ==
  /\ x = gastrSockets[s].session /\ Readable(s) /\ orphaned' = orphaned
  /\ \E b, chunk, more :
       /\ Len(chunk) > 0
       /\ Len(Head(line).data) <= Mtu => ~more /\ chunk = Head(line).data
       /\ Stored(b, s, chunk) /\ CbRecvDone(Reset(s), b, s, Len(chunk), more)

RecvReplyDone(s, x) ==
  /\ TakesHead("recv") /\ s = Head(line).s /\ x = Head(line).x
  /\ UNCHANGED <<gu16SessionID, _socket, got, opened, own, waited, misconnected, writes>>
  /\ Len(Head(line).data) <= Mtu => hif_small_xfer' = hif_small_xfer
  /\ ended => ended'
  /\ ReplyNoData(s, x) \/ ReplyEof(s, x) \/ ReplyData(s, x)

\* What m2m_ip_cb does with an answer to recv(), case by case
LEMMA DispatchCases ==
  ASSUME NEW k, NEW r, Dispatch(k, r)
  PROVE  LET s     == r.s
             more  == Len(r.data) > Mtu
             chunk == SubSeq(r.data, 1, IF more THEN Mtu ELSE Len(r.data))
             left  == SubSeq(r.data, Mtu + 1, Len(r.data))
             pause == IF more
                      THEN hif_small_xfer' = 1 /\ sock_xfer' = s /\ GoTo(ret)
                      ELSE UNCHANGED <<hif_small_xfer, sock_xfer, ctlVars>>
         IN \/ /\ r.x # k[s].session /\ gastrSockets' = k
               /\ UNCHANGED <<gastrSocketBuffer, chip, faults, xferVars, ctlVars, orphaned>>
            \/ /\ r.x = k[s].session /\ r.data = <<>>
               /\ gastrSocketBuffer' = [gastrSocketBuffer EXCEPT ![s].flag = {}]
               /\ Close(k, s) /\ UNCHANGED <<xferVars, ctlVars>>
            \/ /\ r.x = k[s].session /\ r.data # <<>> /\ ~Readable(s) /\ gastrSockets' = k
               /\ UNCHANGED <<gastrSocketBuffer, chip, faults, xferVars, ctlVars, orphaned>>
            \/ /\ r.x = k[s].session /\ r.data # <<>> /\ Readable(s)
               /\ CbRecv(k, Store(gastrSocketBuffer, s, chunk), s, Len(chunk), more)
               /\ pause /\ rest' = (IF more THEN left ELSE rest) /\ orphaned' = orphaned
            \/ /\ r.x = k[s].session /\ r.data # <<>> /\ Readable(s)
               /\ faults < MaxFaults /\ faults' = faults + 1 /\ gastrSockets' = k
               /\ pause /\ rest' = (IF more THEN r.data ELSE rest)
               /\ UNCHANGED <<gastrSocketBuffer, chip, orphaned>>
<1>1. CASE r.x # k[r.s].session
  BY <1>1 DEF Dispatch
<1>2. CASE r.x = k[r.s].session /\ r.data = <<>>
  BY <1>2 DEF Dispatch
<1>3. CASE r.x = k[r.s].session /\ r.data # <<>> /\ ~Readable(r.s)
  BY <1>3 DEF Dispatch
<1>4. CASE r.x = k[r.s].session /\ r.data # <<>> /\ Readable(r.s)
  BY <1>4 DEF Dispatch
<1> QED BY <1>1, <1>2, <1>3, <1>4

\* A packet longer than an MTU is cut.
LEMMA Cut ==
  ASSUME NEW data \in Seq(Data), NEW n \in 0..Len(data)
  PROVE  /\ SubSeq(data, 1, n) \in Seq(Data) /\ Len(SubSeq(data, 1, n)) = n
         /\ SubSeq(data, n + 1, Len(data)) \in Seq(Data)
         /\ n = Len(data) => SubSeq(data, 1, n) = data
<1>1. SubSeq(data, 1, n) \in Seq(Data) /\ Len(SubSeq(data, 1, n)) = n
  OBVIOUS
<1>2. SubSeq(data, n + 1, Len(data)) \in Seq(Data)
  OBVIOUS
<1>3. SubSeq(data, 1, Len(data)) = data
  OBVIOUS
<1> QED BY <1>1, <1>2, <1>3

LEMMA RecvReplyEffect ==
  ASSUME AllTypes, ControlInv, RecvReply
  PROVE  AllTypes' /\ \E s \in Socks, x \in Sessions : RecvReplyDone(s, x)
<1> DEFINE r == Head(line)
           s == r.s
           x == r.x
           k == Reset(s)
           more  == Len(r.data) > Mtu
           chunk == SubSeq(r.data, 1, IF more THEN Mtu ELSE Len(r.data))
           left  == SubSeq(r.data, Mtu + 1, Len(r.data))
           pause == IF more
                    THEN hif_small_xfer' = 1 /\ sock_xfer' = s /\ GoTo(ret)
                    ELSE UNCHANGED <<hif_small_xfer, sock_xfer, ctlVars>>
<1>1. /\ line \in Seq(Answers) /\ SockTypes(gastrSockets) /\ BufferTypes(gastrSocketBuffer)
      /\ ChipTypes(chip, writes) /\ faults \in 0..MaxFaults /\ ControlTypes
      /\ orphaned \in BOOLEAN /\ ended \in BOOLEAN /\ rest \in Seq(Data)
      /\ hif_small_xfer \in 0..3 /\ sock_xfer \in Socks
  BY DEF AllTypes, OtherTypes
<1>2. /\ line # <<>> /\ r.k = "recv" /\ pc = "events" /\ line' = Tail(line)
      /\ Dispatch(Reset(r.s), r) /\ ended' = (ended \/ r.data = <<>>)
      /\ UNCHANGED <<gu16SessionID, _socket, got, opened, own, waited, misconnected, writes>>
  BY DEF RecvReply, Packet, Reset
<1>3. r \in Answers /\ line' \in Seq(Answers)
  BY <1>1, <1>2, LineTail
<1> HIDE DEF r
<1>4. s \in Socks /\ x \in Sessions /\ r.data \in Seq(Data) /\ Len(r.data) \in Nat
  BY <1>2, <1>3, AnswerTypes
<1>5. /\ SockTypes(k) /\ k[s].session = gastrSockets[s].session
  BY <1>1, <1>4, ResetEffect
<1>6. ended' \in BOOLEAN /\ (ended => ended') /\ (r.data = <<>> => ended')
  BY <1>2, Zenon
<1>7. /\ chunk \in Seq(Data) /\ Len(chunk) \in Nat /\ left \in Seq(Data)
      /\ r.data # <<>> => Len(chunk) > 0
      /\ ~more => chunk = r.data
  <2>1. CASE more
    <3>1. Mtu \in 0..Len(r.data)
      BY <1>4, <2>1, Bounds
    <3> QED BY <3>1, <1>4, <2>1, Cut, Bounds
  <2>2. CASE ~more
    <3>1. Len(r.data) \in 0..Len(r.data)
      BY <1>4
    <3>2. chunk = r.data
      BY <3>1, <1>4, <2>2, Cut
    <3>3. r.data # <<>> => Len(r.data) > 0
      BY <1>4
    <3>4. left \in Seq(Data)
      <4> DEFINE d == r.data
      <4>1. d \in Seq(Data) /\ Mtu \in Nat /\ Len(d) \in Nat /\ Len(d) <= Mtu
        BY <1>4, <2>2, Bounds
      <4> HIDE DEF d
      <4>2. SubSeq(d, Mtu + 1, Len(d)) = <<>>
        BY <4>1, SubSeqEmpty
      <4>3. <<>> \in Seq(Data)
        OBVIOUS
      <4> QED BY <4>2, <4>3 DEF d
    <3> QED BY <3>2, <3>3, <3>4, <1>4, <2>2
  <2> QED BY <2>1, <2>2
<1>8. \/ /\ x # k[s].session /\ gastrSockets' = k
         /\ UNCHANGED <<gastrSocketBuffer, chip, faults, xferVars, ctlVars, orphaned>>
      \/ /\ x = k[s].session /\ r.data = <<>>
         /\ gastrSocketBuffer' = [gastrSocketBuffer EXCEPT ![s].flag = {}]
         /\ Close(k, s) /\ UNCHANGED <<xferVars, ctlVars>>
      \/ /\ x = k[s].session /\ r.data # <<>> /\ ~Readable(s) /\ gastrSockets' = k
         /\ UNCHANGED <<gastrSocketBuffer, chip, faults, xferVars, ctlVars, orphaned>>
      \/ /\ x = k[s].session /\ r.data # <<>> /\ Readable(s)
         /\ CbRecv(k, Store(gastrSocketBuffer, s, chunk), s, Len(chunk), more)
         /\ pause /\ rest' = (IF more THEN left ELSE rest) /\ orphaned' = orphaned
      \/ /\ x = k[s].session /\ r.data # <<>> /\ Readable(s)
         /\ faults < MaxFaults /\ faults' = faults + 1 /\ gastrSockets' = k
         /\ pause /\ rest' = (IF more THEN r.data ELSE rest)
         /\ UNCHANGED <<gastrSocketBuffer, chip, orphaned>>
  <2> HIDE DEF k
  <2>1. Dispatch(k, r)
    BY <1>2 DEF k
  <2> QED BY <2>1, DispatchCases
<1>9. UNCHANGED ctlVars => Goes(Point, cur)
  BY <1>1, <1>2, SteadyStill
<1>10. GoTo(ret) => Goes(Point, cur)
  BY <1>1, <1>2, SteadyGoTo
<1>11. ASSUME pause
       PROVE  /\ Goes(Point, cur) /\ hif_small_xfer' \in 0..3 /\ sock_xfer' \in Socks
              /\ ~more => hif_small_xfer' = hif_small_xfer
  BY <1>1, <1>4, <1>9, <1>10, <1>11
<1>m. ~more <=> Len(r.data) <= Mtu
  BY <1>4, Bounds
<1> HIDE DEF s, x, k, more, chunk, left, pause
<1> DEFINE Result ==
      /\ SockTypes(gastrSockets') /\ BufferTypes(gastrSocketBuffer')
      /\ ChipTypes(chip', writes) /\ faults' \in 0..MaxFaults /\ orphaned' \in BOOLEAN
      /\ Goes(Point, cur) /\ hif_small_xfer' \in 0..3 /\ sock_xfer' \in Socks
      /\ rest' \in Seq(Data) /\ (~more => hif_small_xfer' = hif_small_xfer)
      /\ ReplyNoData(s, x) \/ ReplyEof(s, x) \/ ReplyData(s, x)
<1>12. ASSUME gastrSockets' = k, x # k[s].session \/ ~Readable(s),
              UNCHANGED <<gastrSocketBuffer, chip, faults, xferVars, ctlVars, orphaned>>
       PROVE  Result
  <2>1. ReplyNoData(s, x)
    BY <1>5, <1>12 DEF ReplyNoData, k
  <2> QED BY <2>1, <1>1, <1>5, <1>9, <1>12 DEF xferVars
<1>13. ASSUME /\ x = k[s].session /\ r.data = <<>>
            /\ gastrSocketBuffer' = [gastrSocketBuffer EXCEPT ![s].flag = {}]
            /\ Close(k, s) /\ UNCHANGED <<xferVars, ctlVars>>
       PROVE  Result
  <2>1. /\ SockTypes(gastrSockets') /\ ChipTypes(chip', writes) /\ faults' \in 0..MaxFaults
        /\ orphaned' \in BOOLEAN /\ CloseDone(k, s)
    BY <1>1, <1>4, <1>5, <1>13, CloseEffect
  <2>2. /\ BufferTypes(gastrSocketBuffer') /\ \A t \in Socks : Contents(t)
        /\ \A t \in Socks : t # s => gastrSocketBuffer'[t] = gastrSocketBuffer[t]
        /\ gastrSocketBuffer'[s].flag = {}
    BY <1>1, <1>4, <1>13, FlagEffect
  <2>3. ReplyEof(s, x)
    BY <2>1, <2>2, <1>5, <1>6, <1>13, Zenon DEF ReplyEof, k
  <2> QED BY <2>1, <2>2, <2>3, <1>1, <1>9, <1>13 DEF xferVars
<1>14. ASSUME /\ x = k[s].session /\ r.data # <<>> /\ Readable(s)
            /\ CbRecv(k, Store(gastrSocketBuffer, s, chunk), s, Len(chunk), more)
            /\ pause /\ rest' = (IF more THEN left ELSE rest) /\ orphaned' = orphaned
       PROVE  Result
  <2> DEFINE b == Store(gastrSocketBuffer, s, chunk)
  <2>1. BufferTypes(b) /\ Stored(b, s, chunk)
    BY <1>1, <1>4, <1>7, StoreEffect
  <2> HIDE DEF b
  <2>2. /\ SockTypes(gastrSockets') /\ ChipTypes(chip', writes) /\ faults' \in 0..MaxFaults
        /\ BufferTypes(gastrSocketBuffer') /\ CbRecvDone(k, b, s, Len(chunk), more)
    <3>1. CbRecv(k, b, s, Len(chunk), more)
      BY <1>14 DEF b
    <3> QED BY <3>1, <2>1, <1>1, <1>4, <1>5, <1>7, CbRecvEffect
  <2>3. Len(Head(line).data) <= Mtu => ~more /\ chunk = Head(line).data
    BY <1>7, <1>m DEF r
  <2>4. ReplyData(s, x)
    BY <2>1, <2>2, <2>3, <1>5, <1>7, <1>14 DEF ReplyData, k
  <2>5. rest' \in Seq(Data)
    BY <1>1, <1>7, <1>14
  <2> QED BY <2>2, <2>4, <2>5, <1>1, <1>11, <1>14
<1>15. ASSUME /\ x = k[s].session /\ r.data # <<>> /\ Readable(s)
            /\ faults < MaxFaults /\ faults' = faults + 1 /\ gastrSockets' = k
            /\ pause /\ rest' = (IF more THEN r.data ELSE rest)
            /\ UNCHANGED <<gastrSocketBuffer, chip, orphaned>>
       PROVE  Result
  <2>1. ReplyNoData(s, x)
    BY <1>15 DEF ReplyNoData, k
  <2>2. faults' \in 0..MaxFaults
    BY <1>1, <1>15, Bounds
  <2>3. rest' \in Seq(Data)
    BY <1>1, <1>4, <1>15
  <2> QED BY <2>1, <2>2, <2>3, <1>1, <1>5, <1>11, <1>15
<1>16. Result
  BY <1>8, <1>12, <1>13, <1>14, <1>15
<1> HIDE DEF Result
<1>17. RecvReplyDone(s, x)
  <2>1. TakesHead("recv") /\ s = Head(line).s /\ x = Head(line).x
    BY <1>2, <1>16 DEF TakesHead, Result, r, s, x
  <2>2. Len(Head(line).data) <= Mtu => hif_small_xfer' = hif_small_xfer
    BY <1>16, <1>m DEF Result, r
  <2> QED BY <2>1, <2>2, <1>2, <1>6, <1>16 DEF RecvReplyDone, Result
<1>18. ChipTypes(chip', writes')
  BY <1>2, <1>16 DEF Result
<1>19. ControlTypes'
  BY <1>16 DEF Result, Goes
<1>20. OtherTypes'
  BY <1>2, <1>3, <1>6, <1>16 DEF AllTypes, OtherTypes, Result
<1> QED BY <1>4, <1>16, <1>17, <1>18, <1>19, <1>20 DEF AllTypes, Result

LEMMA NoBufferTypes ==
  /\ NoBuffer \in Buffers /\ NoBuffer.alloc = FALSE /\ NoBuffer.flag = {}
  /\ NoBuffer.head = 0 /\ NoBuffer.tail = 0 /\ NoBuffer.tail <= NoBuffer.head
<1>1. /\ NoBuffer.alloc = FALSE /\ NoBuffer.flag = {} /\ NoBuffer.head = 0 /\ NoBuffer.tail = 0
  BY DEF NoBuffer
<1>2. [i \in 1..TcpSize |-> Stale] \in [1..TcpSize -> Data \cup {Stale}]
  OBVIOUS
<1>3. 0 \in 0..TcpSize /\ {} \in SUBSET Flags /\ FALSE \in BOOLEAN
  BY Bounds
<1> QED BY <1>1, <1>2, <1>3 DEF NoBuffer, Buffers

\* The buffer of s is free.
FreedDone(s) ==
  /\ gastrSocketBuffer'[s].alloc = FALSE /\ gastrSocketBuffer'[s].flag = {}
  /\ gastrSocketBuffer'[s].head = 0 /\ gastrSocketBuffer'[s].tail = 0

\* Every socket is closed; of those that were in use the chip hears or not.
ApDisconnectedDone ==
  /\ pc = "events" /\ Goes(Point, cur)
  /\ UNCHANGED <<gu16SessionID, xferVars, _socket, line, got, opened, own, waited, misconnected,
                 writes>>
  /\ \A s \in Socks : gastrSockets'[s] = Unused /\ FreedDone(s)
  /\ \A x \in Sessions :
       /\ chip'[x].s = chip[x].s /\ chip'[x].asked = chip[x].asked
       /\ chip'[x].made = chip[x].made
       /\ \/ chip'[x].phase = chip[x].phase
          \/ Shutting(x) /\ \E s \in Socks : Used(s) /\ Session(s) = x
       /\ (\E s \in Socks : Used(s) /\ Session(s) = x) /\ ~orphaned' =>
            chip'[x].phase \notin {"open", "connecting"}
  /\ (orphaned => orphaned') /\ ended'
  /\ faults' = faults \/ faults' = faults + 1

LEMMA ApDisconnectedEffect ==
  ASSUME AllTypes, ControlInv, ApDisconnected
  PROVE  AllTypes' /\ ApDisconnectedDone
<1> DEFINE Open == {s \in Socks : gastrSockets[s].used}
           SockType == [used : BOOLEAN, session : 0..MaxSessions, pending : BOOLEAN,
                        user : 0..TcpSize]
<1>1. /\ ControlTypes /\ faults \in 0..MaxFaults /\ orphaned \in BOOLEAN
      /\ ChipTypes(chip, writes)
  BY DEF AllTypes, OtherTypes
<1>2. /\ pc = "events" /\ ended' = TRUE
      /\ UNCHANGED <<gu16SessionID, xferVars, _socket, ctlVars, line, got, opened, own, waited,
                     misconnected, writes>>
      /\ gastrSockets' = [s \in Socks |-> Unused]
      /\ gastrSocketBuffer' = [s \in Socks |-> NoBuffer]
  BY DEF ApDisconnected
<1>3. PICK Unsent \in SUBSET Open :
        /\ IF Unsent = {} THEN UNCHANGED faults
           ELSE faults < MaxFaults /\ faults' = faults + 1
        /\ orphaned' = (orphaned \/ Unsent # {})
        /\ chip' = [x \in Sessions |->
             IF \E s \in Open \ Unsent : gastrSockets[s].session = x
             THEN Shut(chip[x]) ELSE chip[x]]
  BY DEF ApDisconnected
<1>4. Goes(Point, cur)
  BY <1>1, <1>2, SteadyStill
<1>5. /\ SockTypes(gastrSockets') /\ \A s \in Socks : gastrSockets'[s] = Unused
  <2>1. Unused \in SockType
    BY Bounds DEF Unused
  <2> QED BY <2>1, <1>2 DEF SockTypes
<1>6. /\ BufferTypes(gastrSocketBuffer')
      /\ \A s \in Socks : FreedDone(s)
  <2>1. NoBuffer \in Buffers /\ NoBuffer.tail <= NoBuffer.head
    BY NoBufferTypes
  <2>2. BufferTypes(gastrSocketBuffer')
    BY <2>1, <1>2 DEF BufferTypes
  <2> QED BY <2>2, <1>2, NoBufferTypes DEF FreedDone
<1>7. faults' \in 0..MaxFaults /\ (faults' = faults \/ faults' = faults + 1)
  BY <1>1, <1>3, Bounds
<1>8. orphaned' \in BOOLEAN /\ (orphaned => orphaned') /\ (~orphaned' => Unsent = {})
  BY <1>3, Zenon
<1>9. ASSUME NEW x \in Sessions
      PROVE  /\ chip'[x] \in [s : Socks, phase : Phases, asked : Nat, owes : 0..MaxWrites,
                              made : 0..MaxUnits]
             /\ chip'[x].owes = chip[x].owes
             /\ chip'[x].s = chip[x].s /\ chip'[x].asked = chip[x].asked
             /\ chip'[x].made = chip[x].made
             /\ \/ chip'[x].phase = chip[x].phase
                \/ Shutting(x) /\ \E s \in Socks : Used(s) /\ Session(s) = x
             /\ (\E s \in Socks : Used(s) /\ Session(s) = x) /\ ~orphaned' =>
                  chip'[x].phase \notin {"open", "connecting"}
  <2>1. CASE \E s \in Open \ Unsent : gastrSockets[s].session = x
    <3>1. chip'[x] = Shut(chip[x])
      BY <1>3, <2>1
    <3>2. \E s \in Socks : Used(s) /\ Session(s) = x
      BY <2>1 DEF Used, Session
    <3> QED BY <3>1, <3>2, <1>1, ShutEffect DEF Shutting
  <2>2. CASE ~\E s \in Open \ Unsent : gastrSockets[s].session = x
    <3>1. chip'[x] = chip[x]
      BY <1>3, <2>2
    <3>2. ~orphaned' => ~\E s \in Socks : Used(s) /\ Session(s) = x
      BY <2>2, <1>8 DEF Used, Session
    <3> QED BY <3>1, <3>2, <1>1 DEF ChipTypes
  <2> QED BY <2>1, <2>2
<1>10. ChipTypes(chip', writes')
  <2>1. chip' = [x \in Sessions |-> chip'[x]]
    BY <1>3
  <2>2. \A x \in Sessions : chip'[x].owes <= writes'
    BY <1>1, <1>2, <1>9 DEF ChipTypes
  <2> QED BY <2>1, <2>2, <1>9 DEF ChipTypes
<1>11. ControlTypes'
  BY <1>4 DEF Goes
<1>12. OtherTypes'
  BY <1>2, <1>7, <1>8 DEF AllTypes, OtherTypes, xferVars
<1>13. ApDisconnectedDone
  BY <1>2, <1>4, <1>5, <1>6, <1>7, <1>8, <1>9 DEF ApDisconnectedDone
<1> QED BY <1>5, <1>6, <1>10, <1>11, <1>12, <1>13 DEF AllTypes

SmallChunkDone(s) ==
  /\ s = sock_xfer /\ pc = "small" /\ Goes(Point, cur)
  /\ UNCHANGED <<gu16SessionID, _socket, line, histVars, writes>>
  /\ \/ /\ UNCHANGED <<gastrSockets, gastrSocketBuffer, chip>>
        /\ faults' = faults \/ faults' = faults + 1
     \/ /\ Readable(s)
        /\ \E b, chunk, more : /\ Len(chunk) > 0 /\ Stored(b, s, chunk)
                               /\ CbRecvDone(gastrSockets, b, s, Len(chunk), more)

LEMMA SmallChunkEffect ==
  ASSUME AllTypes, ControlInv, SmallChunk
  PROVE  AllTypes' /\ \E s \in Socks : SmallChunkDone(s)
<1> DEFINE s == sock_xfer
           last == Len(rest) <= Mtu
           chunk == SubSeq(rest, 1, IF last THEN Len(rest) ELSE Mtu)
           left == SubSeq(rest, Len(chunk) + 1, Len(rest))
<1>1. /\ SockTypes(gastrSockets) /\ BufferTypes(gastrSocketBuffer) /\ hif_small_xfer \in 0..3
      /\ ChipTypes(chip, writes) /\ faults \in 0..MaxFaults /\ ControlTypes /\ s \in Socks
  BY DEF AllTypes, OtherTypes
<1>r. rest \in Seq(Data)
  BY DEF AllTypes, OtherTypes
<1>2. /\ pc = "small" /\ GoTo(ret)
      /\ UNCHANGED <<gu16SessionID, sock_xfer, _socket, line, histVars, writes>>
      /\ \/ UNCHANGED <<gastrSockets, gastrSocketBuffer, xferVars, chip, faults>>
         \/ /\ rest # <<>> /\ Readable(s)
            /\ hif_small_xfer' = IF last THEN 0 ELSE 2
            /\ \/ /\ CbRecv(gastrSockets, Store(gastrSocketBuffer, s, chunk), s,
                            Len(chunk), ~last)
                  /\ rest' = left
               \/ /\ faults < MaxFaults /\ faults' = faults + 1
                  /\ rest' = IF last THEN <<>> ELSE rest
                  /\ UNCHANGED <<gastrSockets, gastrSocketBuffer, chip>>
  BY DEF SmallChunk
<1>3. Goes(Point, cur)
  BY <1>1, <1>2, SteadyGoTo
<1>4. /\ chunk \in Seq(Data) /\ Len(chunk) \in Nat /\ left \in Seq(Data)
      /\ rest # <<>> => Len(chunk) > 0
  <2> DEFINE n == IF last THEN Len(rest) ELSE Mtu
  <2>1. n \in 0..Len(rest) /\ (rest # <<>> => n > 0) /\ Len(rest) \in Nat
    BY <1>r, Bounds
  <2> HIDE DEF n
  <2>2. /\ SubSeq(rest, 1, n) \in Seq(Data) /\ Len(SubSeq(rest, 1, n)) = n
        /\ SubSeq(rest, n + 1, Len(rest)) \in Seq(Data)
    BY <1>r, <2>1, Cut
  <2>3. chunk = SubSeq(rest, 1, n)
    BY DEF n
  <2> HIDE DEF chunk
  <2>4. Len(chunk) = n
    BY <2>2, <2>3
  <2> QED BY <2>1, <2>2, <2>3, <2>4
<1> HIDE DEF s, last, chunk, left
<1> DEFINE Result ==
      /\ SockTypes(gastrSockets') /\ BufferTypes(gastrSocketBuffer')
      /\ ChipTypes(chip', writes) /\ faults' \in 0..MaxFaults
      /\ hif_small_xfer' \in 0..3 /\ rest' \in Seq(Data)
      /\ \/ /\ UNCHANGED <<gastrSockets, gastrSocketBuffer, chip>>
            /\ faults' = faults \/ faults' = faults + 1
         \/ /\ Readable(s)
            /\ \E b, c, more : /\ Len(c) > 0 /\ Stored(b, s, c)
                               /\ CbRecvDone(gastrSockets, b, s, Len(c), more)
<1>5. ASSUME UNCHANGED <<gastrSockets, gastrSocketBuffer, xferVars, chip, faults>>
      PROVE  Result
  BY <1>1, <1>r, <1>5 DEF xferVars
<1>6. ASSUME rest # <<>>, Readable(s), hif_small_xfer' = (IF last THEN 0 ELSE 2), rest' = left,
             CbRecv(gastrSockets, Store(gastrSocketBuffer, s, chunk), s, Len(chunk), ~last)
      PROVE  Result
  <2> DEFINE b == Store(gastrSocketBuffer, s, chunk)
  <2>1. BufferTypes(b) /\ Stored(b, s, chunk)
    BY <1>1, <1>4, StoreEffect DEF s
  <2> HIDE DEF b
  <2>2. /\ SockTypes(gastrSockets') /\ ChipTypes(chip', writes) /\ faults' \in 0..MaxFaults
        /\ BufferTypes(gastrSocketBuffer')
        /\ CbRecvDone(gastrSockets, b, s, Len(chunk), ~last)
    <3>1. CbRecv(gastrSockets, b, s, Len(chunk), ~last)
      BY <1>6 DEF b
    <3> QED BY <3>1, <2>1, <1>1, <1>4, CbRecvEffect
  <2> QED BY <2>1, <2>2, <1>4, <1>6
<1>7. ASSUME rest # <<>>, hif_small_xfer' = (IF last THEN 0 ELSE 2),
             faults < MaxFaults, faults' = faults + 1, rest' = (IF last THEN <<>> ELSE rest),
             UNCHANGED <<gastrSockets, gastrSocketBuffer, chip>>
      PROVE  Result
  <2>1. faults' \in 0..MaxFaults
    BY <1>1, <1>7, Bounds
  <2>2. rest' \in Seq(Data) /\ hif_small_xfer' \in 0..3
    BY <1>r, <1>7
  <2> QED BY <2>1, <2>2, <1>1, <1>7
<1>8. Result
  BY <1>2, <1>5, <1>6, <1>7
<1> HIDE DEF Result
<1>9. SmallChunkDone(s)
  BY <1>2, <1>3, <1>8 DEF SmallChunkDone, Result, s
<1>10. ChipTypes(chip', writes')
  BY <1>2, <1>8 DEF Result
<1>11. ControlTypes'
  BY <1>3 DEF Goes
<1>12. OtherTypes'
  BY <1>2, <1>8 DEF AllTypes, OtherTypes, Result, histVars
<1> QED BY <1>1, <1>8, <1>9, <1>10, <1>11, <1>12 DEF AllTypes, Result

-----------------------------------------------------------------------------
(* What the methods do.                                                      *)

Same == UNCHANGED <<sockVars, gastrSocketBuffer, xferVars, _socket, chip, line, histVars,
                    writes, faults>>

LEMMA SameTypes ==
  ASSUME AllTypes, Same, ControlTypes'
  PROVE  AllTypes'
BY DEF AllTypes, Same, OtherTypes, sockVars, xferVars, histVars

FlushPoints == {"flush", "flushCheck", "flushRead"}
Flag(f, s) == f \in gastrSocketBuffer[s].flag

\* A step of the method that is running, or of the client c that enters one: no
\* loop is left but as connect() and flush() say.
Moves(q, c) ==
  /\ Goes(q, c) /\ (q # "idle" => c \in Clients) /\ (Point # "idle" => c = cur)
  /\ q = "connWait" => Point = "connWait"
  /\ Point = "connWait" => q = "connWait" \/ Flag("connected", _socket[cur])
  /\ Point \in FlushPoints => q \in FlushPoints
  /\ q \in FlushPoints => \/ Point \in FlushPoints
                          \/ _socket[c] \in Socks /\ ~Flag("connected", _socket[c])
                             /\ Point = "connected"
  /\ q \in {"write", "sendWait"} => _socket[c] \in Socks

LEMMA SteadyMoves ==
  ASSUME ControlInv, Goes(Point, cur)
  PROVE  Moves(Point, cur)
BY DEF ControlInv, Moves, Flushing, FlushPoints

\* The steps that change nothing but the point the method has reached
LEMMA Moving ==
  ASSUME AllTypes, ControlInv,
         \/ EventsReturn \/ ConnectedBack \/ Flush \/ FlushMore \/ SendWait
         \/ \E c \in Clients : Read(c) \/ Write(c) \/ Connected(c)
  PROVE  AllTypes' /\ Same /\ \E q, c : Moves(q, c)
<1>1. ControlTypes /\ _socket \in [Clients -> Socks \cup {None}]
  BY DEF AllTypes, OtherTypes
<1>2. Same
  BY DEF EventsReturn, ConnectedBack, Flush, FlushMore, SendWait, Read, Write, Connected, Enter, Same
<1>3. \E q, c : Moves(q, c)
  <2>1. CASE EventsReturn
    <3>1. Goes(Point, cur)
      BY <1>1, <2>1, SteadyGoTo DEF EventsReturn
    <3> QED BY <3>1, SteadyMoves
  <2>p. pc \notin {"events", "small"} => Point = pc
    BY <1>1, PointTypes
  <2>c. Point # "idle" => cur \in Clients
    BY DEF ControlInv
  <2>f. Point \in FlushPoints \cup {"write", "sendWait"} => _socket[cur] \in Socks
    BY DEF ControlInv, Flushing, FlushPoints
  <2>2. CASE ConnectedBack
    <3>1. pc = "connected" /\ Point = "connected" /\ cur \in Clients
      BY <2>2, <2>p, <2>c DEF ConnectedBack
    <3>2. \/ GoTo("idle")
          \/ /\ GoTo("flush") /\ _socket[cur] \in Socks
             /\ ~Flag("connected", _socket[cur])
      BY <1>1, <2>2, <3>1 DEF ConnectedBack, Flag
    <3>3. CASE GoTo("idle")
      <4>1. Goes("idle", cur)
        BY <1>1, <3>3, GoToEffect DEF Points
      <4> QED BY <4>1, <3>1 DEF Moves, FlushPoints
    <3>4. CASE GoTo("flush") /\ _socket[cur] \in Socks /\ ~Flag("connected", _socket[cur])
      <4>1. Goes("flush", cur)
        BY <1>1, <3>4, GoToEffect DEF Points
      <4> QED BY <4>1, <3>1, <3>4 DEF Moves, FlushPoints
    <3> QED BY <3>2, <3>3, <3>4
  <2>3. CASE Flush
    <3>1. Point = "flush" /\ cur \in Clients
      BY <2>3, <2>p, <2>c DEF Flush
    <3>2. Goes("flushCheck", cur)
      BY <1>1, <2>3, <3>1, CallEffect DEF Points, Flush
    <3> QED BY <3>1, <3>2 DEF Moves, FlushPoints
  <2>4. CASE FlushMore
    <3>1. Point = "flushCheck" /\ cur \in Clients
      BY <2>4, <2>p, <2>c DEF FlushMore
    <3>2. Goes("flushRead", cur)
      BY <1>1, <2>4, <3>1, CallEffect DEF Points, FlushMore
    <3> QED BY <3>1, <3>2 DEF Moves, FlushPoints
  <2>5. CASE SendWait
    <3>1. Point = "sendWait" /\ cur \in Clients /\ _socket[cur] \in Socks
      BY <2>5, <2>p, <2>c, <2>f DEF SendWait
    <3>2. Goes("sendWait", cur) \/ Goes("write", cur)
      BY <1>1, <2>5, <3>1, CallEffect, GoToEffect DEF Points, SendWait
    <3> QED BY <3>1, <3>2 DEF Moves, FlushPoints
  <2>6. ASSUME NEW c \in Clients, Read(c) \/ Write(c) \/ Connected(c)
        PROVE  \E q : Moves(q, c)
    <3>1. PICK q \in {"read", "write", "connected"} :
            Enter(c, q) /\ (q = "write" => _socket[c] # None)
      BY <2>6 DEF Read, Write, Connected
    <3>2. Point = "idle"
      BY <2>p, <3>1 DEF Enter
    <3>3. Goes(q, c)
      BY <1>1, <3>1, CallEffect DEF Points, Enter
    <3> QED BY <1>1, <3>1, <3>2, <3>3 DEF Moves, FlushPoints
  <2> QED BY <2>1, <2>2, <2>3, <2>4, <2>5, <2>6
<1>4. ControlTypes'
  BY <1>3 DEF Moves, Goes
<1> QED BY <1>2, <1>3, <1>4, SameTypes

\* read() and flush() take units from the client's buffer, or find it empty.
ReadDone(s, n) ==
  /\ BufferReadDone(s, n)
  /\ UNCHANGED <<gu16SessionID, xferVars, _socket, line, opened, own, waited, misconnected,
                 ended, orphaned, writes>>

LEMMA Reading ==
  ASSUME AllTypes, ControlInv, ReadBack \/ FlushRead
  PROVE  /\ AllTypes' /\ Point # "connWait" /\ \E q, c : Moves(q, c)
         /\ Same \/ \E s \in Socks : \E n \in 1..Available(s) : ReadDone(s, n)
<1> DEFINE s == _socket[cur]
           p == IF pc = "read" THEN "idle" ELSE "flush"
           Kept == UNCHANGED <<gu16SessionID, xferVars, _socket, line, opened, own, waited, misconnected, ended,
                               orphaned, writes>>
<1>1. /\ SockTypes(gastrSockets) /\ BufferTypes(gastrSocketBuffer)
      /\ ChipTypes(chip, writes) /\ faults \in 0..MaxFaults /\ ControlTypes
      /\ got \in [Socks -> Seq(Data \cup {Stale})] /\ _socket \in [Clients -> Socks \cup {None}]
  BY DEF AllTypes, OtherTypes
<1>2. /\ pc \in {"read", "flushRead"} /\ Point = pc /\ cur \in Clients /\ s \in Socks \cup {None}
      /\ Point = "flushRead" => s \in Socks
  <2>1. pc \in {"read", "flushRead"}
    BY DEF ReadBack, FlushRead
  <2>2. Point = pc
    BY <1>1, <2>1, PointTypes
  <2> QED BY <1>1, <2>1, <2>2 DEF ControlInv, Flushing
<1>3. /\ Kept
      /\ \/ GoTo(p) /\ UNCHANGED <<gastrSockets, gastrSocketBuffer, chip, faults, got>>
         \/ s \in Socks /\ \E n \in 1..Available(s) : BufferRead(s, n, p)
  <2>1. CASE ReadBack
    <3>1. pc = "read" /\ Kept
      BY <2>1 DEF ReadBack
    <3>2. CASE s = None \/ (s # None /\ Available(s) = 0)
      BY <2>1, <3>1, <3>2 DEF ReadBack
    <3>3. CASE ~(s = None \/ (s # None /\ Available(s) = 0))
      BY <2>1, <3>1, <3>3, <1>2 DEF ReadBack
    <3> QED BY <3>2, <3>3
  <2>2. CASE FlushRead
    <3>1. pc = "flushRead" /\ Kept /\ s \in Socks
      BY <2>2, <1>2 DEF FlushRead
    <3>2. CASE Available(s) = 0
      BY <2>2, <3>1, <3>2 DEF FlushRead
    <3>3. CASE Available(s) # 0
      <4>1. 1 \in 1..Available(s)
        BY <3>1, <3>3, <1>1, BufferFields DEF Available
      <4> QED BY <2>2, <3>1, <3>3, <4>1 DEF FlushRead
    <3> QED BY <3>2, <3>3
  <2> QED BY <2>1, <2>2
<1>p. p \in Points \ {"events", "small"} /\ p \in {"idle", "flush"}
      /\ (p = "flush" <=> Point = "flushRead")
  BY <1>2 DEF Points
<1>m. Goes(p, cur) => Moves(p, cur)
  BY <1>2, <1>p DEF Moves, FlushPoints
<1>k. Kept => UNCHANGED <<opened, own, waited, misconnected, ended, orphaned, writes, line, _socket, gu16SessionID>>
              /\ UNCHANGED xferVars
  OBVIOUS
<1> HIDE DEF s, p, Kept
<1>4. CASE GoTo(p) /\ UNCHANGED <<gastrSockets, gastrSocketBuffer, chip, faults, got>>
  <2>1. Moves(p, cur)
    BY <1>1, <1>4, <1>p, <1>m, GoToEffect
  <2>2. Same
    BY <1>3, <1>4, <1>k DEF Same, sockVars, histVars
  <2>3. ControlTypes'
    BY <2>1 DEF Moves, Goes
  <2> QED BY <2>1, <2>2, <2>3, <1>2, SameTypes
<1>5. ASSUME s \in Socks, NEW n \in 1..Available(s), BufferRead(s, n, p)
      PROVE  AllTypes' /\ Moves(p, cur) /\ ReadDone(s, n)
  <2>1. /\ SockTypes(gastrSockets') /\ ChipTypes(chip', writes) /\ faults' \in 0..MaxFaults
        /\ BufferTypes(gastrSocketBuffer') /\ got' \in [Socks -> Seq(Data \cup {Stale})]
        /\ BufferReadDone(s, n) /\ Goes(p, cur)
    BY <1>1, <1>5, <1>p, BufferReadEffect
  <2>2. ChipTypes(chip', writes') /\ ControlTypes'
    BY <2>1, <1>3, <1>k DEF Goes
  <2>3. OtherTypes'
    BY <2>1, <1>3, <1>k DEF AllTypes, OtherTypes, xferVars
  <2>4. ReadDone(s, n)
    BY <2>1, <1>3 DEF ReadDone, Kept
  <2> QED BY <2>1, <2>2, <2>3, <2>4, <1>m DEF AllTypes
<1> QED BY <1>2, <1>3, <1>4, <1>5

\* send() leaves the stream alone, but for what SendWait makes of the flags.
SendDone(s) ==
  /\ UNCHANGED <<sockVars, xferVars, _socket, line, got, opened, own, misconnected, ended, orphaned>>
  /\ \A x \in Sessions : /\ chip'[x].s = chip[x].s /\ chip'[x].phase = chip[x].phase
                         /\ chip'[x].asked = chip[x].asked /\ chip'[x].made = chip[x].made
  /\ \A t \in Socks : Contents(t)
  /\ \A t \in Socks : t # s => gastrSocketBuffer'[t] = gastrSocketBuffer[t]
  /\ \/ gastrSocketBuffer' = gastrSocketBuffer /\ waited' = waited
        /\ (faults' = faults \/ faults' = faults + 1)
     \/ gastrSocketBuffer'[s].flag = {"sending"} /\ waited' = waited \cup {s} /\ faults' = faults + 1

LEMMA Sending ==
  ASSUME AllTypes, ControlInv, Send
  PROVE  /\ AllTypes' /\ Point # "connWait" /\ \E q, c : Moves(q, c)
         /\ \E s \in Socks : SendDone(s)
<1> DEFINE s == _socket[cur]
           x == gastrSockets[s].session
<1>1. /\ BufferTypes(gastrSocketBuffer) /\ ChipTypes(chip, writes) /\ faults \in 0..MaxFaults
      /\ ControlTypes /\ writes \in 0..MaxWrites /\ waited \subseteq Socks
  BY DEF AllTypes, OtherTypes
<1>2. /\ pc = "write" /\ Point = "write" /\ cur \in Clients /\ s \in Socks
  <2>1. pc = "write"
    BY DEF Send
  <2>2. Point = pc
    BY <1>1, <2>1, PointTypes
  <2> QED BY <1>1, <2>1, <2>2 DEF ControlInv, Flushing
<1>3. /\ UNCHANGED <<sockVars, xferVars, _socket, line, got, opened, own, misconnected, ended, orphaned>>
      /\ \/ GoTo("idle") /\ UNCHANGED <<gastrSocketBuffer, chip, waited, writes, faults>>
         \/ /\ writes < MaxWrites /\ writes' = writes + 1 /\ GoTo("idle")
            /\ chip' = IF chip[x].phase = "closed" THEN chip ELSE [chip EXCEPT ![x].owes = @ + 1]
            /\ UNCHANGED <<gastrSocketBuffer, waited, faults>>
         \/ /\ faults < MaxFaults /\ faults' = faults + 1 /\ UNCHANGED <<chip, writes>>
            /\ \/ GoTo("idle") /\ UNCHANGED <<gastrSocketBuffer, waited>>
               \/ /\ gastrSocketBuffer' = [gastrSocketBuffer EXCEPT ![s].flag = {"sending"}]
                  /\ waited' = waited \cup {s} /\ GoTo("sendWait")
  BY DEF Send
<1>g. /\ GoTo("idle") => Goes("idle", cur)
      /\ GoTo("sendWait") => Goes("sendWait", cur)
  BY <1>1, GoToEffect DEF Points
<1>m. \A q \in {"idle", "sendWait"} : Goes(q, cur) => Moves(q, cur)
  BY <1>2 DEF Moves, FlushPoints
<1>c. gastrSocketBuffer' = gastrSocketBuffer => \A t \in Socks : Contents(t)
  BY DEF Contents
<1> HIDE DEF s, x
<1> DEFINE Result == /\ BufferTypes(gastrSocketBuffer') /\ ChipTypes(chip', writes')
                     /\ faults' \in 0..MaxFaults /\ writes' \in 0..MaxWrites
                     /\ waited' \subseteq Socks /\ SendDone(s) /\ \E q : Moves(q, cur)
<1>4. ASSUME GoTo("idle"), UNCHANGED <<gastrSocketBuffer, chip, waited, writes, faults>>
      PROVE  Result
  <2>1. SendDone(s)
    BY <1>3, <1>4, <1>c DEF SendDone
  <2> QED BY <2>1, <1>1, <1>4, <1>g, <1>m
<1>5. ASSUME writes < MaxWrites, writes' = writes + 1, GoTo("idle"),
             chip' = (IF chip[x].phase = "closed" THEN chip ELSE [chip EXCEPT ![x].owes = @ + 1]),
             UNCHANGED <<gastrSocketBuffer, waited, faults>>
      PROVE  Result
  <2>1. writes' \in 0..MaxWrites
    BY <1>1, <1>5, Bounds
  <2>2. \A y \in Sessions : chip[y].owes \in Nat /\ chip[y].owes <= writes
    BY <1>1, ChipFields
  <2>3. /\ ChipTypes(chip', writes')
        /\ \A y \in Sessions : /\ chip'[y].s = chip[y].s /\ chip'[y].phase = chip[y].phase
                               /\ chip'[y].asked = chip[y].asked /\ chip'[y].made = chip[y].made
    <3>1. CASE chip[x].phase = "closed"
      <4>1. chip' = chip
        BY <1>5, <3>1
      <4> QED BY <4>1, <2>2, <1>1, <1>5, Bounds DEF ChipTypes
    <3>2. CASE chip[x].phase # "closed"
      <4>1. chip' = [chip EXCEPT ![x].owes = @ + 1]
        BY <1>5, <3>2
      <4>2. /\ DOMAIN chip' = Sessions /\ chip' = [y \in Sessions |-> chip'[y]]
            /\ \A y \in Sessions :
                 chip'[y] = IF y = x THEN [chip[y] EXCEPT !.owes = chip[y].owes + 1] ELSE chip[y]
        BY <4>1, <1>1 DEF ChipTypes
      <4>3. ASSUME NEW y \in Sessions
            PROVE  /\ chip'[y] \in [s : Socks,
                        phase : Phases,
                        asked : Nat, owes : 0..MaxWrites, made : 0..MaxUnits]
                   /\ chip'[y].owes <= writes'
                   /\ chip'[y].s = chip[y].s /\ chip'[y].phase = chip[y].phase
                   /\ chip'[y].asked = chip[y].asked /\ chip'[y].made = chip[y].made
        <5>1. chip[y].owes + 1 \in 0..MaxWrites /\ chip[y].owes + 1 <= writes'
              /\ chip[y].owes <= writes'
          BY <1>1, <1>5, <2>2, Bounds
        <5> QED BY <4>2, <5>1, <1>1 DEF ChipTypes
      <4> QED BY <4>2, <4>3 DEF ChipTypes
    <3> QED BY <3>1, <3>2
  <2>4. SendDone(s)
    BY <2>3, <1>3, <1>5, <1>c DEF SendDone
  <2> QED BY <2>1, <2>3, <2>4, <1>1, <1>5, <1>g, <1>m
<1>6. ASSUME faults < MaxFaults, faults' = faults + 1, UNCHANGED <<chip, writes>>,
             GoTo("idle"), UNCHANGED <<gastrSocketBuffer, waited>>
      PROVE  Result
  <2>1. SendDone(s)
    BY <1>3, <1>6, <1>c DEF SendDone
  <2>2. faults' \in 0..MaxFaults
    BY <1>1, <1>6, Bounds
  <2> QED BY <2>1, <2>2, <1>1, <1>6, <1>g, <1>m
<1>7. ASSUME faults < MaxFaults, faults' = faults + 1, UNCHANGED <<chip, writes>>,
             gastrSocketBuffer' = [gastrSocketBuffer EXCEPT ![s].flag = {"sending"}],
             waited' = waited \cup {s}, GoTo("sendWait")
      PROVE  Result
  <2>1. {"sending"} \in SUBSET Flags /\ s \in Socks
    BY <1>2 DEF Flags, s
  <2>2. /\ BufferTypes(gastrSocketBuffer') /\ \A t \in Socks : Contents(t)
        /\ \A t \in Socks : t # s => gastrSocketBuffer'[t] = gastrSocketBuffer[t]
        /\ gastrSocketBuffer'[s].flag = {"sending"}
    BY <2>1, <1>1, <1>7, FlagEffect
  <2>3. SendDone(s)
    BY <2>2, <1>3, <1>7 DEF SendDone
  <2>4. faults' \in 0..MaxFaults /\ waited' \subseteq Socks
    BY <1>1, <1>7, <2>1, Bounds
  <2> QED BY <2>2, <2>3, <2>4, <1>1, <1>7, <1>g, <1>m
<1>8. Result
  BY <1>3, <1>4, <1>5, <1>6, <1>7
<1> HIDE DEF Result
<1>9. s \in Socks
  BY <1>2 DEF s
<1>10. ControlTypes' /\ SockTypes(gastrSockets')
  BY <1>3, <1>8 DEF Result, Moves, Goes, AllTypes, sockVars
<1>11. OtherTypes'
  BY <1>3, <1>8 DEF Result, AllTypes, OtherTypes, sockVars, xferVars
<1> QED BY <1>2, <1>8, <1>9, <1>10, <1>11 DEF Result, AllTypes

\* The other buffers are as they were.
OthersKept(s) == \A t \in Socks : t # s => gastrSocketBuffer'[t] = gastrSocketBuffer[t]

LEMMA FreedEffect ==
  ASSUME BufferTypes(gastrSocketBuffer), NEW s \in Socks, gastrSocketBuffer' = Freed(s)
  PROVE  BufferTypes(gastrSocketBuffer') /\ FreedDone(s) /\ OthersKept(s)
BY NoBufferTypes DEF BufferTypes, Freed, FreedDone, OthersKept

\* The client c has no socket any more.
Dropped(c) == \A d \in Clients : _socket'[d] = IF d = c THEN None ELSE _socket[d]

ConnectLost(s) ==
  /\ Point = "connWait" /\ cur \in Clients /\ s = _socket[cur]
  /\ ~Flag("connecting", s) /\ ~Flag("connected", s)
  /\ FreedDone(s) /\ OthersKept(s) /\ CloseDone(gastrSockets, s) /\ Dropped(cur) /\ Goes("idle", cur)
  /\ UNCHANGED <<gu16SessionID, xferVars, line, got, opened, own, waited, misconnected,
               ended, writes>>

LEMMA ConnectWaiting ==
  ASSUME AllTypes, ControlInv, ConnectWait
  PROVE  /\ AllTypes'
         /\ (Same /\ \E q, c : Moves(q, c)) \/ \E s \in Socks : ConnectLost(s)
<1> DEFINE s == _socket[cur]
<1>1. /\ SockTypes(gastrSockets) /\ BufferTypes(gastrSocketBuffer) /\ ChipTypes(chip, writes)
      /\ faults \in 0..MaxFaults /\ ControlTypes /\ orphaned \in BOOLEAN
      /\ _socket \in [Clients -> Socks \cup {None}]
  BY DEF AllTypes, OtherTypes
<1>2. /\ pc = "connWait" /\ Point = "connWait" /\ cur \in Clients /\ s \in Socks
  <2>1. pc = "connWait"
    BY DEF ConnectWait
  <2>2. Point = pc
    BY <1>1, <2>1, PointTypes
  <2> QED BY <1>1, <2>1, <2>2 DEF ControlInv, Flushing
<1>3. /\ UNCHANGED <<gu16SessionID, xferVars, line, got, opened, own, waited, misconnected,
               ended, writes>>
      /\ \/ /\ Call(cur, gastrSocketBuffer, "connWait")
            /\ UNCHANGED <<gastrSockets, gastrSocketBuffer, _socket, chip, faults, orphaned>>
         \/ /\ Flag("connected", s) /\ GoTo("idle")
            /\ UNCHANGED <<gastrSockets, gastrSocketBuffer, _socket, chip, faults, orphaned>>
         \/ /\ ~Flag("connecting", s) /\ ~Flag("connected", s)
            /\ gastrSocketBuffer' = Freed(s) /\ Close(gastrSockets, s)
            /\ _socket' = [_socket EXCEPT ![cur] = None] /\ GoTo("idle")
  BY DEF ConnectWait, Flag
<1>g. GoTo("idle") => Goes("idle", cur)
  BY <1>1, GoToEffect DEF Points
<1>h. Call(cur, gastrSocketBuffer, "connWait") => Goes("connWait", cur)
  BY <1>1, <1>2, CallEffect DEF Points
<1>s. UNCHANGED <<gastrSockets, gastrSocketBuffer, _socket, chip, faults, orphaned>> => Same
  BY <1>3 DEF Same, sockVars, histVars
<1>4. CASE /\ Call(cur, gastrSocketBuffer, "connWait")
           /\ UNCHANGED <<gastrSockets, gastrSocketBuffer, _socket, chip, faults, orphaned>>
  <2>1. Moves("connWait", cur)
    BY <1>2, <1>4, <1>h DEF Moves, FlushPoints
  <2>2. ControlTypes'
    BY <2>1 DEF Moves, Goes
  <2> QED BY <2>1, <2>2, <1>4, <1>s, SameTypes
<1>5. CASE /\ Flag("connected", s) /\ GoTo("idle")
           /\ UNCHANGED <<gastrSockets, gastrSocketBuffer, _socket, chip, faults, orphaned>>
  <2>1. Moves("idle", cur)
    BY <1>2, <1>5, <1>g DEF Moves, FlushPoints
  <2>2. ControlTypes'
    BY <2>1 DEF Moves, Goes
  <2> QED BY <2>1, <2>2, <1>5, <1>s, SameTypes
<1>6. CASE /\ ~Flag("connecting", s) /\ ~Flag("connected", s)
           /\ gastrSocketBuffer' = Freed(s) /\ Close(gastrSockets, s)
           /\ _socket' = [_socket EXCEPT ![cur] = None] /\ GoTo("idle")
  <2>1. BufferTypes(gastrSocketBuffer') /\ FreedDone(s) /\ OthersKept(s)
    BY <1>1, <1>2, <1>6, FreedEffect
  <2>2. /\ SockTypes(gastrSockets') /\ ChipTypes(chip', writes) /\ faults' \in 0..MaxFaults
        /\ orphaned' \in BOOLEAN /\ CloseDone(gastrSockets, s)
    BY <1>1, <1>2, <1>6, CloseEffect
  <2>3. _socket' \in [Clients -> Socks \cup {None}] /\ Dropped(cur)
    BY <1>1, <1>2, <1>6 DEF Dropped
  <2>4. ConnectLost(s)
    BY <1>2, <1>3, <1>6, <1>g, <2>1, <2>2, <2>3 DEF ConnectLost
  <2>5. ControlTypes'
    BY <1>6, <1>g DEF Goes
  <2>6. OtherTypes'
    BY <1>3, <2>2, <2>3 DEF AllTypes, OtherTypes, xferVars
  <2>7. ChipTypes(chip', writes')
    BY <1>3, <2>2
  <2> QED BY <1>2, <2>1, <2>2, <2>4, <2>5, <2>6, <2>7 DEF AllTypes
<1> QED BY <1>3, <1>4, <1>5, <1>6

StopDone(c, s) ==
  /\ Point = "idle" /\ s = _socket[c] /\ CloseDone(gastrSockets, s) /\ Goes("flush", c)
  /\ UNCHANGED <<gu16SessionID, gastrSocketBuffer, xferVars, _socket, line, got, opened, own,
                 waited, misconnected, ended, writes>>

LEMMA Stopping ==
  ASSUME AllTypes, ControlInv, NEW c \in Clients, Stop(c)
  PROVE  AllTypes' /\ \E s \in Socks : StopDone(c, s)
<1> DEFINE s == _socket[c]
<1>1. /\ SockTypes(gastrSockets) /\ ChipTypes(chip, writes)
      /\ faults \in 0..MaxFaults /\ ControlTypes /\ orphaned \in BOOLEAN
      /\ _socket \in [Clients -> Socks \cup {None}]
  BY DEF AllTypes, OtherTypes
<1>2. /\ pc = "idle" /\ s \in Socks /\ Close(gastrSockets, s)
      /\ cur' = c /\ pc' = "flush" /\ ret' = ret
      /\ UNCHANGED <<gu16SessionID, gastrSocketBuffer, xferVars, _socket, line, got, opened, own,
                     waited, misconnected, ended, writes>>
  BY <1>1 DEF Stop
<1>3. /\ SockTypes(gastrSockets') /\ ChipTypes(chip', writes) /\ faults' \in 0..MaxFaults
      /\ orphaned' \in BOOLEAN /\ CloseDone(gastrSockets, s)
  BY <1>1, <1>2, CloseEffect
<1>4. Point = "idle" /\ Goes("flush", c)
  BY <1>1, <1>2 DEF Goes, ControlTypes, Points, Point
<1>5. StopDone(c, s)
  BY <1>2, <1>3, <1>4 DEF StopDone
<1>6. OtherTypes' /\ ChipTypes(chip', writes') /\ BufferTypes(gastrSocketBuffer')
  BY <1>2, <1>3 DEF AllTypes, OtherTypes, xferVars
<1>7. ControlTypes'
  BY <1>4 DEF Goes
<1> QED BY <1>2, <1>3, <1>5, <1>6, <1>7 DEF AllTypes

FlushEndDone(s) ==
  /\ Point = "flushCheck" /\ cur \in Clients /\ s = _socket[cur]
  /\ FreedDone(s) /\ OthersKept(s) /\ Dropped(cur) /\ Goes("idle", cur)
  /\ UNCHANGED <<sockVars, xferVars, chip, line, histVars, writes, faults>>

LEMMA Flushed ==
  ASSUME AllTypes, ControlInv, FlushEnd
  PROVE  AllTypes' /\ \E s \in Socks : FlushEndDone(s)
<1> DEFINE s == _socket[cur]
<1>1. BufferTypes(gastrSocketBuffer) /\ ControlTypes /\ _socket \in [Clients -> Socks \cup {None}]
  BY DEF AllTypes, OtherTypes
<1>2. /\ pc = "flushCheck" /\ gastrSocketBuffer' = Freed(s) /\ GoTo("idle")
      /\ _socket' = [_socket EXCEPT ![cur] = None]
      /\ UNCHANGED <<sockVars, xferVars, chip, line, histVars, writes, faults>>
  BY DEF FlushEnd
<1>3. Point = "flushCheck" /\ cur \in Clients /\ s \in Socks
  <2>1. Point = pc
    BY <1>1, <1>2, PointTypes
  <2> QED BY <1>1, <1>2, <2>1 DEF ControlInv, Flushing
<1>4. BufferTypes(gastrSocketBuffer') /\ FreedDone(s) /\ OthersKept(s)
  BY <1>1, <1>2, <1>3, FreedEffect
<1>5. _socket' \in [Clients -> Socks \cup {None}] /\ Dropped(cur)
  BY <1>1, <1>2, <1>3 DEF Dropped
<1>6. Goes("idle", cur)
  BY <1>1, <1>2, GoToEffect DEF Points
<1>7. FlushEndDone(s)
  BY <1>2, <1>3, <1>4, <1>5, <1>6 DEF FlushEndDone
<1>8. /\ OtherTypes' /\ ChipTypes(chip', writes') /\ SockTypes(gastrSockets')
  BY <1>2, <1>5 DEF AllTypes, OtherTypes, xferVars, sockVars, histVars
<1>9. ControlTypes'
  BY <1>6 DEF Goes
<1> QED BY <1>3, <1>4, <1>7, <1>8, <1>9 DEF AllTypes

\* connect() gives a free socket a session of its own, and asks for the connection or not.
ConnectDone(c, s, x) ==
  /\ Point = "idle" /\ _socket[c] = None /\ ~Used(s)
  /\ x = gu16SessionID + 1 /\ gu16SessionID' = x
  /\ \A t \in Socks : opened'[t] = IF t = s THEN x ELSE opened[t]
  /\ \A t \in Socks : got'[t] = IF t = s THEN <<>> ELSE got[t]
  /\ waited' = waited \ {s} /\ misconnected' = misconnected \ {s}
  /\ \A t \in Socks : t # s => /\ gastrSockets'[t] = gastrSockets[t]
                               /\ gastrSocketBuffer'[t] = gastrSocketBuffer[t]
  /\ gastrSocketBuffer'[s].head = 0 /\ gastrSocketBuffer'[s].tail = 0
  /\ UNCHANGED <<xferVars, line, ended, orphaned, writes>>

ConnectSent(c, s, x) ==
  /\ Goes("connWait", c) /\ faults' = faults
  /\ gastrSockets'[s].used /\ gastrSockets'[s].session = x
  /\ ~gastrSockets'[s].pending /\ gastrSockets'[s].user = 0
  /\ gastrSocketBuffer'[s].alloc = TRUE /\ gastrSocketBuffer'[s].flag = {"connecting"}
  /\ chip'[x].s = s /\ chip'[x].phase = "connecting"
  /\ chip'[x].asked = chip[x].asked /\ chip'[x].made = chip[x].made
  /\ \A y \in Sessions : y # x => chip'[y] = chip[y]
  /\ \A d \in Clients : _socket'[d] = IF d = c THEN s ELSE _socket[d]
  /\ \A d \in Clients : own'[d] = IF d = c THEN x ELSE own[d]

ConnectNotSent(s) ==
  /\ Goes(Point, cur) /\ faults' = faults + 1 /\ gastrSockets'[s] = Unused
  /\ FreedDone(s) /\ UNCHANGED <<chip, _socket, own>>

LEMMA Connection ==
  ASSUME AllTypes, ControlInv, NEW c \in Clients, Connect(c)
  PROVE  /\ AllTypes'
         /\ \E s \in Socks, x \in Sessions :
              ConnectDone(c, s, x) /\ (ConnectSent(c, s, x) \/ ConnectNotSent(s))
<1> DEFINE s == CHOOSE f \in Free : \A g \in Free : f <= g
           x == gu16SessionID + 1
           k == [gastrSockets EXCEPT ![s] = [Unused EXCEPT !.used = TRUE, !.session = x]]
<1>1. /\ SockTypes(gastrSockets) /\ BufferTypes(gastrSocketBuffer) /\ ChipTypes(chip, writes)
      /\ faults \in 0..MaxFaults /\ ControlTypes /\ gu16SessionID \in 0..MaxSessions
      /\ _socket \in [Clients -> Socks \cup {None}] /\ own \in [Clients -> 0..MaxSessions]
      /\ opened \in [Socks -> 0..MaxSessions] /\ got \in [Socks -> Seq(Data \cup {Stale})]
      /\ waited \subseteq Socks /\ misconnected \subseteq Socks
  BY DEF AllTypes, OtherTypes
<1>2. s \in Socks /\ ~Used(s)
  <2>1. \E f \in Free : \A g \in Free : f <= g
    BY LeastFree DEF Connect
  <2>2. s \in Free
    BY <2>1
  <2> QED BY <2>2 DEF Free, Used
<1>3. /\ pc = "idle" /\ _socket[c] = None /\ gu16SessionID < MaxSessions
      /\ gu16SessionID' = x
      /\ opened' = [opened EXCEPT ![s] = x] /\ got' = [got EXCEPT ![s] = <<>>]
      /\ waited' = waited \ {s} /\ misconnected' = misconnected \ {s}
      /\ UNCHANGED <<xferVars, ret, line, ended, orphaned, writes>>
      /\ \/ /\ gastrSockets' = k
            /\ chip' = [chip EXCEPT ![x].s = s, ![x].phase = "connecting"]
            /\ gastrSocketBuffer' = [gastrSocketBuffer EXCEPT
                 ![s].alloc = TRUE, ![s].head = 0, ![s].tail = 0, ![s].flag = {"connecting"}]
            /\ _socket' = [_socket EXCEPT ![c] = s] /\ own' = [own EXCEPT ![c] = x]
            /\ pc' = "connWait" /\ cur' = c /\ UNCHANGED faults
         \/ /\ faults < MaxFaults /\ faults' = faults + 1
            /\ gastrSockets' = [k EXCEPT ![s] = Unused] /\ gastrSocketBuffer' = Freed(s)
            /\ UNCHANGED <<chip, _socket, own, pc, cur>>
  BY DEF Connect
<1>4. x \in Sessions /\ x \in 0..MaxSessions /\ Point = "idle"
  <2>1. x \in 1..MaxSessions
    <3>1. gu16SessionID \in 0..MaxSessions /\ gu16SessionID < MaxSessions
      BY <1>1, <1>3
    <3> QED BY <3>1, Bounds
  <2>2. Point = "idle"
    BY <1>3 DEF Point
  <2> QED BY <2>1, <2>2, Bounds DEF Sessions
<1> HIDE DEF s
<1>x. x = gu16SessionID + 1
  OBVIOUS
<1>5. /\ SockTypes(k) /\ \A t \in Socks : t # s => k[t] = gastrSockets[t]
      /\ k[s].used /\ k[s].session = x /\ ~k[s].pending /\ k[s].user = 0
  <2> DEFINE T == [used : BOOLEAN, session : 0..MaxSessions, pending : BOOLEAN, user : 0..TcpSize]
             v == [Unused EXCEPT !.used = TRUE]
             u == [Unused EXCEPT !.used = TRUE, !.session = x]
  <2>0. Unused \in T
    BY Bounds DEF Unused
  <2>1. v \in T /\ v.used /\ v.session = 0 /\ ~v.pending /\ v.user = 0
    BY <2>0 DEF Unused
  <2>2. u = [v EXCEPT !.session = x]
    OBVIOUS
  <2> HIDE DEF v, u
  <2>3. u \in T /\ u.used /\ u.session = x /\ ~u.pending /\ u.user = 0
    BY <1>4, <2>1, <2>2
  <2>4. k = [gastrSockets EXCEPT ![s] = u]
    BY DEF u
  <2> HIDE DEF k
  <2> QED BY <1>1, <1>2, <2>3, <2>4 DEF SockTypes
<1> HIDE DEF x, k
<1>6. /\ opened' \in [Socks -> 0..MaxSessions] /\ got' \in [Socks -> Seq(Data \cup {Stale})]
      /\ waited' \subseteq Socks /\ misconnected' \subseteq Socks
      /\ \A t \in Socks : opened'[t] = IF t = s THEN x ELSE opened[t]
      /\ \A t \in Socks : got'[t] = IF t = s THEN <<>> ELSE got[t]
  <2>1. <<>> \in Seq(Data \cup {Stale})
    OBVIOUS
  <2> QED BY <2>1, <1>1, <1>2, <1>3, <1>4
<1>7. 0 \in 0..TcpSize /\ {"connecting"} \in SUBSET Flags
  BY Bounds DEF Flags
<1> DEFINE Result ==
      /\ SockTypes(gastrSockets') /\ BufferTypes(gastrSocketBuffer') /\ ChipTypes(chip', writes)
      /\ faults' \in 0..MaxFaults /\ _socket' \in [Clients -> Socks \cup {None}]
      /\ own' \in [Clients -> 0..MaxSessions] /\ ControlTypes'
      /\ \A t \in Socks : t # s => /\ gastrSockets'[t] = gastrSockets[t]
                                   /\ gastrSocketBuffer'[t] = gastrSocketBuffer[t]
      /\ gastrSocketBuffer'[s].head = 0 /\ gastrSocketBuffer'[s].tail = 0
      /\ ConnectSent(c, s, x) \/ ConnectNotSent(s)
<1>8. ASSUME gastrSockets' = k, faults' = faults,
             chip' = [chip EXCEPT ![x].s = s, ![x].phase = "connecting"],
             gastrSocketBuffer' = [gastrSocketBuffer EXCEPT
                 ![s].alloc = TRUE, ![s].head = 0, ![s].tail = 0, ![s].flag = {"connecting"}],
             _socket' = [_socket EXCEPT ![c] = s], own' = [own EXCEPT ![c] = x],
             pc' = "connWait", cur' = c
      PROVE  Result
  <2>1. /\ SockTypes(gastrSockets') /\ \A t \in Socks : t # s => gastrSockets'[t] = gastrSockets[t]
        /\ gastrSockets'[s].used /\ gastrSockets'[s].session = x
        /\ ~gastrSockets'[s].pending /\ gastrSockets'[s].user = 0
    BY <1>5, <1>8
  <2>2. /\ ChipTypes(chip', writes) /\ \A y \in Sessions : y # x => chip'[y] = chip[y]
        /\ chip'[x].s = s /\ chip'[x].phase = "connecting"
        /\ chip'[x].asked = chip[x].asked /\ chip'[x].made = chip[x].made
    BY <1>1, <1>2, <1>4, <1>8 DEF ChipTypes, Phases
  <2>3. /\ BufferTypes(gastrSocketBuffer')
        /\ \A t \in Socks : t # s => gastrSocketBuffer'[t] = gastrSocketBuffer[t]
        /\ gastrSocketBuffer'[s].alloc = TRUE /\ gastrSocketBuffer'[s].flag = {"connecting"}
        /\ gastrSocketBuffer'[s].head = 0 /\ gastrSocketBuffer'[s].tail = 0
    <3> DEFINE e == gastrSocketBuffer'
               b == gastrSocketBuffer
    <3>1. /\ DOMAIN e = Socks /\ e = [t \in Socks |-> e[t]]
          /\ \A t \in Socks : t # s => e[t] = b[t]
          /\ e[s] = [b[s] EXCEPT !.alloc = TRUE, !.head = 0, !.tail = 0, !.flag = {"connecting"}]
      BY <1>1, <1>2, <1>8 DEF BufferTypes
    <3>2. b[s] \in Buffers
      BY <1>1, <1>2 DEF BufferTypes
    <3>3. /\ e[s] \in Buffers /\ e[s].alloc = TRUE /\ e[s].flag = {"connecting"}
          /\ e[s].head = 0 /\ e[s].tail = 0
      BY <1>7, <3>1, <3>2 DEF Buffers
    <3> HIDE DEF e
    <3>4. e[s].tail <= e[s].head
      BY <3>3
    <3>5. \A t \in Socks : e[t] \in Buffers /\ e[t].tail <= e[t].head
      BY <1>1, <3>1, <3>3, <3>4 DEF BufferTypes
    <3>6. BufferTypes(e)
      BY <3>1, <3>5 DEF BufferTypes
    <3> QED BY <3>1, <3>3, <3>6 DEF e
  <2>4. /\ _socket' \in [Clients -> Socks \cup {None}] /\ own' \in [Clients -> 0..MaxSessions]
        /\ \A d \in Clients : _socket'[d] = IF d = c THEN s ELSE _socket[d]
        /\ \A d \in Clients : own'[d] = IF d = c THEN x ELSE own[d]
    BY <1>1, <1>2, <1>4, <1>8
  <2>5. Goes("connWait", c) /\ ControlTypes'
    BY <1>1, <1>3, <1>8 DEF Goes, ControlTypes, Points, Point
  <2>6. ConnectSent(c, s, x)
    BY <1>8, <2>1, <2>2, <2>3, <2>4, <2>5 DEF ConnectSent
  <2> QED BY <1>1, <1>8, <2>1, <2>2, <2>3, <2>4, <2>5, <2>6
<1>9. ASSUME faults < MaxFaults, faults' = faults + 1,
             gastrSockets' = [k EXCEPT ![s] = Unused], gastrSocketBuffer' = Freed(s),
             UNCHANGED <<chip, _socket, own, pc, cur>>
      PROVE  Result
  <2>1. /\ SockTypes(gastrSockets') /\ \A t \in Socks : t # s => gastrSockets'[t] = gastrSockets[t]
        /\ gastrSockets'[s] = Unused
    <3>2. Unused \in [used : BOOLEAN, session : 0..MaxSessions, pending : BOOLEAN, user : 0..TcpSize]
      BY Bounds DEF Unused
    <3> QED BY <3>2, <1>2, <1>5, <1>9 DEF SockTypes
  <2>2. BufferTypes(gastrSocketBuffer') /\ FreedDone(s) /\ OthersKept(s)
    BY <1>1, <1>2, <1>9, FreedEffect
  <2>3. faults' \in 0..MaxFaults
    BY <1>1, <1>9, Bounds
  <2>4. Goes(Point, cur) /\ ControlTypes'
    BY <1>1, <1>3, <1>9, SteadyStill DEF ctlVars, Goes
  <2>5. ConnectNotSent(s)
    BY <1>9, <2>1, <2>2, <2>4 DEF ConnectNotSent
  <2> QED BY <1>1, <1>9, <2>1, <2>2, <2>3, <2>4, <2>5 DEF FreedDone, OthersKept
<1>10. Result
  BY <1>3, <1>8, <1>9
<1> HIDE DEF Result
<1>11. ConnectDone(c, s, x)
  BY <1>2, <1>3, <1>4, <1>6, <1>10, <1>x DEF ConnectDone, Result
<1>12. OtherTypes' /\ ChipTypes(chip', writes')
  BY <1>3, <1>4, <1>6, <1>10 DEF AllTypes, OtherTypes, Result, xferVars
<1> QED BY <1>2, <1>4, <1>10, <1>11, <1>12 DEF AllTypes, Result

-----------------------------------------------------------------------------
(* What the chip does.                                                       *)

\* The session x alone changes.
Alone(x) == \A y \in Sessions : y # x => chip'[y] = chip[y]

HostSame == UNCHANGED <<sockVars, gastrSocketBuffer, xferVars, _socket, ctlVars, histVars,
                        writes, faults>>

LEMMA ChipEffect ==
  ASSUME AllTypes, HostSame, NEW x \in Sessions, line' \in Seq(Answers),
         NEW r, chip' = [chip EXCEPT ![x] = r],
         r \in [s : Socks, phase : Phases,
                asked : Nat, owes : 0..MaxWrites, made : 0..MaxUnits],
         r.owes <= writes
  PROVE  AllTypes' /\ chip'[x] = r /\ Alone(x)
<1>1. ChipTypes(chip', writes') /\ chip'[x] = r /\ Alone(x)
  BY DEF AllTypes, ChipTypes, Alone, HostSame
<1>2. OtherTypes' /\ SockTypes(gastrSockets') /\ BufferTypes(gastrSocketBuffer') /\ ControlTypes'
  BY DEF AllTypes, OtherTypes, ControlTypes, HostSame, sockVars, xferVars, ctlVars, histVars
<1> QED BY <1>1, <1>2 DEF AllTypes

\* The chip tells the host r, of session x.
Tells(r, x) ==
  /\ HostSame /\ Alone(x) /\ line' = Append(line, r) /\ r \in Answers
  /\ r.s = chip[x].s /\ r.x = x

Over(x) == chip'[x].phase = "closed" /\ chip'[x].asked = 0 /\ chip'[x].made = 0

SameSession(x) == chip'[x].s = chip[x].s /\ chip'[x].phase = chip[x].phase

ChipConnectDone(x) ==
  /\ chip[x].phase \in {"connecting", "aborting"}
  /\ \A y \in Sessions : y < x => chip[y].phase \notin {"closing", "aborting"}
  /\ \E r : /\ Tells(r, x) /\ r.k = "connect"
            /\ \/ /\ r.ok /\ chip'[x].s = chip[x].s
                  /\ chip'[x].phase = IF chip[x].phase = "aborting" THEN "closing" ELSE "open"
                  /\ chip'[x].asked = chip[x].asked /\ chip'[x].made = chip[x].made
               \/ ~r.ok /\ Over(x)

ChipDataDone(x) ==
  /\ Alive(x) /\ chip[x].asked > 0 /\ SameSession(x)
  /\ chip'[x].asked = chip[x].asked - 1
  /\ \E r : /\ Tells(r, x) /\ r.k = "recv" /\ Len(r.data) \in 1..MaxPacket
            /\ \A i \in 1..Len(r.data) : r.data[i] = Unit(x, chip[x].made + i)
            /\ chip'[x].made = chip[x].made + Len(r.data)

ChipEofDone(x) ==
  /\ Alive(x) /\ chip[x].asked > 0 /\ Over(x)
  /\ \E r : Tells(r, x) /\ r.k = "recv" /\ r.data = <<>>

ChipSentDone(x) ==
  /\ Alive(x) /\ SameSession(x)
  /\ chip'[x].asked = chip[x].asked /\ chip'[x].made = chip[x].made
  /\ \E r : Tells(r, x) /\ r.k = "send"

ChipCloseDone(x) ==
  chip[x].phase \in {"closing", "aborting"} /\ HostSame /\ Alone(x) /\ line' = line /\ Over(x)

LEMMA GoneTypes ==
  /\ Gone \in [s : Socks, phase : Phases,
               asked : Nat, owes : 0..MaxWrites, made : 0..MaxUnits]
  /\ Gone.phase = "closed" /\ Gone.asked = 0 /\ Gone.made = 0 /\ Gone.owes = 0
<1>1. 1 \in Socks /\ 0 \in 0..MaxWrites /\ 0 \in 0..MaxUnits
  BY Bounds DEF Socks
<1> QED BY <1>1 DEF Gone, Phases

LEMMA ChipActs ==
  ASSUME AllTypes, NEW x \in Sessions,
         ChipConnect(x) \/ ChipData(x) \/ ChipEof(x) \/ ChipSent(x) \/ ChipClose(x)
  PROVE  /\ AllTypes'
         /\ \/ ChipConnectDone(x) \/ ChipDataDone(x) \/ ChipEofDone(x) \/ ChipSentDone(x)
            \/ ChipCloseDone(x)
<1> DEFINE ChipType == [s : Socks, phase : Phases,
                        asked : Nat, owes : 0..MaxWrites, made : 0..MaxUnits]
           c == chip[x]
<1>1. /\ line \in Seq(Answers) /\ ChipTypes(chip, writes) /\ writes \in Nat
  BY Bounds DEF AllTypes, OtherTypes
<1>2. /\ c \in ChipType /\ c.owes <= writes /\ c.s \in Socks
      /\ c.asked \in Nat /\ c.owes \in Nat /\ c.made \in Nat /\ c.owes <= MaxWrites
  BY <1>1, Bounds DEF ChipTypes
<1>3. ASSUME NEW r, NEW d, Answer(r, x, d), r \in Answers, r.s = chip[x].s, r.x = x,
             d \in ChipType, d.owes <= writes
      PROVE  AllTypes' /\ Tells(r, x) /\ chip'[x] = d
  <2>1. HostSame /\ line' = Append(line, r) /\ chip' = [chip EXCEPT ![x] = d]
    BY <1>3 DEF Answer, HostSame
  <2>2. line' \in Seq(Answers)
    BY <2>1, <1>1, <1>3
  <2>3. AllTypes' /\ chip'[x] = d /\ Alone(x)
    BY <2>1, <2>2, <1>3, ChipEffect
  <2> QED BY <2>1, <2>3, <1>3 DEF Tells
<1>4. CASE ChipConnect(x)
  <2>1. /\ c.phase \in {"connecting", "aborting"}
        /\ \A y \in Sessions : y < x => chip[y].phase \notin {"closing", "aborting"}
    <3>1. \A y \in Sessions : y < x => y \in 1..(x - 1)
      BY Bounds DEF Sessions
    <3> QED BY <3>1, <1>4 DEF ChipConnect
  <2>2. PICK ok \in BOOLEAN :
          Answer([k |-> "connect", s |-> c.s, x |-> x, ok |-> ok], x,
                 IF ok THEN [c EXCEPT !.phase = IF @ = "aborting" THEN "closing" ELSE "open"]
                 ELSE Gone)
    BY <1>4 DEF ChipConnect
  <2> DEFINE r == [k |-> "connect", s |-> c.s, x |-> x, ok |-> ok]
             p == IF c.phase = "aborting" THEN "closing" ELSE "open"
             d == IF ok THEN [c EXCEPT !.phase = IF @ = "aborting" THEN "closing" ELSE "open"]
                  ELSE Gone
  <2>p. p \in Phases /\ (ok => d = [c EXCEPT !.phase = p])
    BY DEF Phases
  <2>3. r \in Answers
    BY <1>2, AnswersMade
  <2>4. r.k = "connect" /\ r.s = c.s /\ r.x = x /\ r.ok = ok
    OBVIOUS
  <2>5. d \in ChipType /\ d.owes <= writes
    <3>1. CASE ok
      <4> HIDE DEF p, d
      <4> QED BY <3>1, <2>p, <1>2
    <3>2. CASE ~ok
      BY <3>2, <1>1, GoneTypes
    <3> QED BY <3>1, <3>2
  <2>6. \/ /\ ok /\ d.s = c.s /\ d.phase = p /\ d.asked = c.asked /\ d.made = c.made
        \/ ~ok /\ d.phase = "closed" /\ d.asked = 0 /\ d.made = 0
    <3>1. CASE ok
      <4> HIDE DEF p, d
      <4> QED BY <3>1, <2>p, <1>2
    <3>2. CASE ~ok
      BY <3>2, GoneTypes
    <3> QED BY <3>1, <3>2
  <2> HIDE DEF r, d
  <2>7. AllTypes' /\ Tells(r, x) /\ chip'[x] = d
    <3>1. Answer(r, x, d)
      BY <2>2 DEF r, d
    <3> QED BY <3>1, <2>3, <2>4, <2>5, <1>3
  <2>8. ChipConnectDone(x)
    BY <2>1, <2>4, <2>6, <2>7 DEF ChipConnectDone, Over
  <2> QED BY <2>7, <2>8
<1>5. CASE ChipData(x)
  <2>1. Alive(x) /\ c.asked > 0
    BY <1>5 DEF ChipData
  <2>2. PICK n \in 1..MaxPacket :
          /\ c.made + n <= MaxUnits
          /\ Answer([k |-> "recv", s |-> c.s, x |-> x,
                     data |-> [i \in 1..n |-> [x |-> x, n |-> c.made + i]]], x,
                    [c EXCEPT !.made = @ + n, !.asked = @ - 1])
    BY <1>5 DEF ChipData
  <2> DEFINE u == [i \in 1..n |-> [x |-> x, n |-> c.made + i]]
             r == [k |-> "recv", s |-> c.s, x |-> x, data |-> u]
             d == [c EXCEPT !.made = @ + n, !.asked = @ - 1]
  <2>3. n \in Nat /\ n \in 0..MaxPacket /\ \A i \in 1..n : c.made + i \in 1..MaxUnits
    <3> DEFINE m == c.made
    <3>1. n \in Nat /\ n <= MaxPacket /\ m \in Nat /\ m + n <= MaxUnits
      BY <2>2, <1>2, Bounds
    <3> HIDE DEF m, c
    <3>2. n \in 0..MaxPacket /\ \A i \in 1..n : m + i \in 1..MaxUnits
      BY <3>1, Bounds
    <3> QED BY <3>1, <3>2 DEF m
  <2>4. /\ u \in [1..n -> Data] /\ Len(u) = n
        /\ \A i \in 1..n : u[i] = Unit(x, c.made + i)
    BY <2>3 DEF Data, Unit
  <2>5. c.made + n \in 0..MaxUnits /\ c.asked - 1 \in Nat
    <3> DEFINE m == c.made
               a == c.asked
    <3>1. m \in Nat /\ a \in Nat /\ a > 0 /\ n \in Nat /\ m + n <= MaxUnits
      BY <2>1, <2>2, <2>3, <1>2
    <3> HIDE DEF m, a
    <3>2. m + n \in 0..MaxUnits /\ a - 1 \in Nat
      BY <3>1, Bounds
    <3> QED BY <3>2 DEF m, a
  <2>6. /\ d \in ChipType /\ d.owes = c.owes /\ d.s = c.s /\ d.phase = c.phase
        /\ d.made = c.made + n /\ d.asked = c.asked - 1
    BY <2>5, <1>2
  <2> HIDE DEF u
  <2>7. r \in Answers /\ r.k = "recv" /\ r.s = c.s /\ r.x = x /\ r.data = u
    BY <2>3, <2>4, <1>2, AnswersMade
  <2> HIDE DEF r, d
  <2>8. AllTypes' /\ Tells(r, x) /\ chip'[x] = d
    <3>1. Answer(r, x, d)
      BY <2>2 DEF r, d, u
    <3> QED BY <3>1, <2>6, <2>7, <1>2, <1>3
  <2>9. ChipDataDone(x)
    BY <2>1, <2>2, <2>4, <2>6, <2>7, <2>8 DEF ChipDataDone, SameSession
  <2> QED BY <2>8, <2>9
<1>6. CASE ChipEof(x)
  <2> DEFINE r == [k |-> "recv", s |-> c.s, x |-> x, data |-> <<>>]
  <2>1. Alive(x) /\ c.asked > 0 /\ Answer(r, x, Gone)
    BY <1>6 DEF ChipEof
  <2>2. r \in Answers /\ r.k = "recv" /\ r.s = c.s /\ r.x = x /\ r.data = <<>>
    <3>1. 0 \in 0..MaxPacket /\ <<>> \in [1..0 -> Data]
      BY Bounds
    <3> QED BY <3>1, <1>2, AnswersMade
  <2> HIDE DEF r
  <2>3. AllTypes' /\ Tells(r, x) /\ chip'[x] = Gone
    BY <2>1, <2>2, <1>1, <1>3, GoneTypes
  <2>4. ChipEofDone(x)
    BY <2>1, <2>2, <2>3, GoneTypes DEF ChipEofDone, Over
  <2> QED BY <2>3, <2>4
<1>7. CASE ChipSent(x)
  <2> DEFINE r == [k |-> "send", s |-> c.s, x |-> x]
             d == [c EXCEPT !.owes = @ - 1]
  <2>1. Alive(x) /\ c.owes > 0 /\ Answer(r, x, d)
    BY <1>7 DEF ChipSent
  <2>2. r \in Answers /\ r.k = "send" /\ r.s = c.s /\ r.x = x
    BY <1>2, AnswersMade
  <2>3. c.owes - 1 \in 0..MaxWrites /\ c.owes - 1 <= writes
    BY <2>1, <1>1, <1>2, Bounds
  <2>4. /\ d \in ChipType /\ d.owes <= writes /\ d.s = c.s /\ d.phase = c.phase
        /\ d.made = c.made /\ d.asked = c.asked
    BY <2>3, <1>2
  <2> HIDE DEF r, d
  <2>5. AllTypes' /\ Tells(r, x) /\ chip'[x] = d
    BY <2>1, <2>2, <2>4, <1>3
  <2>6. ChipSentDone(x)
    BY <2>1, <2>2, <2>4, <2>5 DEF ChipSentDone, SameSession
  <2> QED BY <2>5, <2>6
<1>8. CASE ChipClose(x)
  <2>1. chip[x].phase \in {"closing", "aborting"} /\ HostSame /\ line' = line /\ chip' = [chip EXCEPT ![x] = Gone]
    BY <1>8 DEF ChipClose, HostSame
  <2>2. AllTypes' /\ chip'[x] = Gone /\ Alone(x)
    <3>1. line' \in Seq(Answers) /\ Gone.owes <= writes
      BY <2>1, <1>1, GoneTypes
    <3> QED BY <2>1, <3>1, GoneTypes, ChipEffect
  <2>3. ChipCloseDone(x)
    BY <2>1, <2>2, GoneTypes DEF ChipCloseDone, Over
  <2> QED BY <2>2, <2>3
<1> QED BY <1>4, <1>5, <1>6, <1>7, <1>8

================================================================================
