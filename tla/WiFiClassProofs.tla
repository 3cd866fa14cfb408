---------------------------- MODULE WiFiClassProofs ----------------------------
(***************************************************************************)
(* Proofs about WiFiClass, for any hosts and any number of requests.  A    *)
(* method that waits reads variables every callback may write; what makes  *)
(* its result its own is an account of the answers that can still come,    *)
(* and of what the chip's last word on the link was.                       *)
(***************************************************************************)
EXTENDS WiFiClass, TLAPS

-----------------------------------------------------------------------------
(* The inductive invariant.                                                  *)

Asking == {"dns", "ping", "rssi"}

\* A method is in progress just where it waits or the event loop returns to its wait.
ControlInv ==
  /\ pc \in {"idle", "events", "rssi", "wait"} /\ ret \in {"idle", "rssi", "wait"}
  /\ pc = "wait" \/ (pc = "events" /\ ret = "wait") <=> call.k # "none"
  /\ call.k \in Kinds => call.id > 0

\* The message can be the answer to the request of the method in progress.
Mine(m) == m.k = call.k /\ m.id = call.id /\ (m.k = "dns" => m.v \in {0, call.h})

\* What the method in progress has put in _resolve before its request
Blank == IF call.k = "ping" THEN call.h ELSE 0

\* A method that asked when all was quiet can only get its own answer.
AnswerInv ==
  call.clean /\ call.k \in Asking =>
    /\ \A r \in todo : r.k = call.k /\ r.h = call.h /\ r.id = call.id
    /\ \A i \in 1..Len(air) : air[i].k \in Kinds => Mine(air[i])
    /\ \/ from = 0 /\ _resolve = Blank
       \/ from = call.id /\ (call.k = "dns" => _resolve \in {0, call.h})

\* The state of the link that a message tells of
Says(m, l) ==
  \/ l = "up" /\ (m.k = "dhcp" \/ (m.k = "connected" /\ ~_dhcp))
  \/ l = "down" /\ m.k = "disconnected"

\* _status, or what a scan will put back there
LinkStatus == IF Scanning THEN tmp ELSE _status

\* The last message about the link tells its state; when it is handled, _status does,
\* unless it could not be read.
LinkInv ==
  ~overwritten /\ _mode = "sta" /\ link \in {"up", "down"} =>
    \/ /\ \A i \in 1..Len(air) : air[i].k \in Kinds
       /\ unheard \/ (LinkStatus = CONNECTED <=> link = "up")
    \/ \E i \in 1..Len(air) :
         /\ Says(air[i], link)
         /\ \A j \in (i + 1)..Len(air) : air[j].k \in Kinds

IInv == WiFiTypes /\ ControlInv /\ AnswerInv /\ LinkInv

-----------------------------------------------------------------------------
(* Messages.                                                                 *)

\* The message that is handled, and those that are left.
LEMMA Handled ==
  ASSUME air \in Seq(Messages), air # <<>>
  PROVE  /\ Head(air) = air[1] /\ Head(air) \in Messages
         /\ Len(air) \in Nat \ {0}
         /\ Tail(air) \in Seq(Messages) /\ Len(Tail(air)) = Len(air) - 1
         /\ \A i \in 1..(Len(air) - 1) : Tail(air)[i] = air[i + 1]
OBVIOUS

\* A message that is told comes last.
LEMMA Told ==
  ASSUME air \in Seq(Messages), NEW k, NEW id, NEW h, NEW v,
         [k |-> k, id |-> id, h |-> h, v |-> v] \in Messages, Tell(k, id, h, v)
  PROVE  /\ air' \in Seq(Messages) /\ Len(air') = Len(air) + 1 /\ Len(air) \in Nat
         /\ \A i \in 1..Len(air) : air'[i] = air[i]
         /\ air'[Len(air) + 1] = [k |-> k, id |-> id, h |-> h, v |-> v]
BY DEF Tell

\* What the chip tells is a message.
LEMMA MessageTyped ==
  /\ \A k \in {"connected", "disconnected", "dhcp"} :
       [k |-> k, id |-> 0, h |-> 0, v |-> 0] \in Messages
  /\ \A r \in [k : Kinds, h : Hosts \union {0}, id : 1..MaxRequests] :
       /\ \A v \in {0, r.h} : [k |-> "dns", id |-> r.id, h |-> 0, v |-> v] \in Messages
       /\ \A v \in {PING_SUCCESS, PING_UNREACHABLE, PING_TIMEOUT} :
            [k |-> "ping", id |-> r.id, h |-> r.h, v |-> v] \in Messages
       /\ \A k \in {"rssi", "ap"} : [k |-> k, id |-> r.id, h |-> 0, v |-> Rssi] \in Messages
       /\ \A v \in {0, 1} : [k |-> "scan", id |-> r.id, h |-> 0, v |-> v] \in Messages
BY WiFiAssumption DEF Messages, Values, Kinds, PING_SUCCESS, PING_UNREACHABLE, PING_TIMEOUT, Rssi

\* An answer tells what the request asked.
LEMMA AnswerTold ==
  ASSUME WiFiTypes, ChipAnswers
  PROVE  \E r \in todo, m \in Messages :
           /\ todo' = todo \ {r} /\ air' = Append(air, m)
           /\ m.k = r.k /\ m.k \in Kinds /\ m.id = r.id
           /\ m.k = "dns" => m.v \in {0, r.h}
<1>1. PICK r \in todo :
        /\ todo' = todo \ {r}
        /\ \/ r.k = "dns" /\ \E v \in {0, r.h} : Tell("dns", r.id, 0, v)
           \/ r.k = "ping" /\ \E v \in {PING_SUCCESS, PING_UNREACHABLE, PING_TIMEOUT} :
                                Tell("ping", r.id, r.h, v)
           \/ r.k \in {"rssi", "ap"} /\ Tell(r.k, r.id, 0, Rssi)
           \/ r.k = "scan" /\ \E v \in {0, 1} : Tell("scan", r.id, 0, v)
  BY DEF ChipAnswers
<1>2. r \in [k : Kinds, h : Hosts \union {0}, id : 1..MaxRequests]
  BY DEF WiFiTypes
<1>3. CASE r.k = "dns"
  <2>1. PICK v \in {0, r.h} : Tell("dns", r.id, 0, v)
    BY <1>1, <1>3
  <2>2. [k |-> "dns", id |-> r.id, h |-> 0, v |-> v] \in Messages
    BY <1>2, MessageTyped
  <2> QED
    BY <1>1, <1>3, <2>1, <2>2 DEF Tell, Kinds
<1>4. CASE r.k = "ping"
  <2>1. PICK v \in {PING_SUCCESS, PING_UNREACHABLE, PING_TIMEOUT} : Tell("ping", r.id, r.h, v)
    BY <1>1, <1>4
  <2>2. [k |-> "ping", id |-> r.id, h |-> r.h, v |-> v] \in Messages
    BY <1>2, MessageTyped
  <2> QED
    BY <1>1, <1>4, <2>1, <2>2 DEF Tell, Kinds
<1>5. CASE r.k \in {"rssi", "ap"}
  <2>1. Tell(r.k, r.id, 0, Rssi)
    BY <1>1, <1>5
  <2>2. [k |-> r.k, id |-> r.id, h |-> 0, v |-> Rssi] \in Messages
    BY <1>2, <1>5, MessageTyped
  <2> QED
    BY <1>1, <1>5, <2>1, <2>2 DEF Tell, Kinds
<1>6. CASE r.k = "scan"
  <2>1. PICK v \in {0, 1} : Tell("scan", r.id, 0, v)
    BY <1>1, <1>6
  <2>2. [k |-> "scan", id |-> r.id, h |-> 0, v |-> v] \in Messages
    BY <1>2, MessageTyped
  <2> QED
    BY <1>1, <1>6, <2>1, <2>2 DEF Tell, Kinds
<1> QED
  BY <1>1, <1>3, <1>4, <1>5, <1>6

\* A change of the link is told.
LEMMA LinkTold ==
  ASSUME WiFiTypes, ChipJoins \/ ChipDrops
  PROVE  \E m \in Messages :
           /\ air' = Append(air, m) /\ m.k \in {"connected", "disconnected", "dhcp"}
           /\ link' \in {"up", "down"} => Says(m, link')
<1> USE DEF Tell, Says
<1>1. CASE ChipDrops
  <2>1. air' = Append(air, [k |-> "disconnected", id |-> 0, h |-> 0, v |-> 0]) /\ link' = "down"
    BY <1>1 DEF ChipDrops
  <2> QED BY <2>1, MessageTyped
<1>2. CASE link = "joining" /\ link' = (IF _dhcp THEN "dhcp" ELSE "up") /\ Tell("connected", 0, 0, 0)
  BY <1>2, MessageTyped
<1>3. CASE link = "joining" /\ link' = "down" /\ Tell("disconnected", 0, 0, 0)
  BY <1>3, MessageTyped
<1>4. CASE link = "dhcp" /\ link' = "up" /\ Tell("dhcp", 0, 0, 0)
  BY <1>4, MessageTyped
<1> QED
  BY <1>1, <1>2, <1>3, <1>4 DEF ChipJoins

-----------------------------------------------------------------------------
(* Types.                                                                    *)

CallType == [k : Kinds \union {"none", "begin"}, h : Hosts \union {0},
             id : 0..MaxRequests, clean : BOOLEAN]
RequestType == [k : Kinds, h : Hosts \union {0}, id : 1..MaxRequests]

FlagTypes ==
  /\ _dhcp \in BOOLEAN /\ gu8scanInProgress \in BOOLEAN /\ overwritten \in BOOLEAN
  /\ unheard \in BOOLEAN

ValueTypes ==
  /\ _mode \in {"reset", "sta"} /\ _status \in Statuses /\ tmp \in Statuses
  /\ _resolve \in Values /\ from \in 0..MaxRequests
  /\ link \in {"down", "joining", "dhcp", "up"}
  /\ asked \in 0..MaxRequests /\ begun \in 0..MaxBegins /\ dropped \in 0..MaxDrops
  /\ faults \in 0..MaxFaults

QueueTypes ==
  /\ call \in CallType /\ todo \subseteq RequestType /\ air \in Seq(Messages)

LEMMA TypeParts == WiFiTypes <=> FlagTypes /\ ValueTypes /\ QueueTypes
BY DEF WiFiTypes, FlagTypes, ValueTypes, QueueTypes, CallType, RequestType

\* Every step keeps the types of the flags.
LEMMA FlagTypesStep == WiFiTypes /\ [Next]_vars => FlagTypes'
<1> SUFFICES ASSUME WiFiTypes, [Next]_vars PROVE FlagTypes'
  OBVIOUS
<1> USE DEF FlagTypes, wifiVars, objVars, airVars, histVars, boundVars, faultVars
<1>0. FlagTypes
  BY TypeParts
<1>1. CASE EventsReturn BY Zenon, <1>0, <1>1 DEF EventsReturn
<1>2. CASE CbConnected BY Zenon, <1>0, <1>2 DEF CbConnected, Handle, SetStatus
<1>3. CASE CbDisconnected BY Zenon, <1>0, <1>3 DEF CbDisconnected, Handle, SetStatus
<1>4. CASE CbScan BY Zenon, <1>0, <1>4 DEF CbScan, Handle
<1>5. CASE CbValue BY Zenon, <1>0, <1>5 DEF CbValue, Handle
<1>6. CASE CbPing BY Zenon, <1>0, <1>6 DEF CbPing, Handle
<1>11. CASE Unread BY Zenon, <1>0, <1>11 DEF Unread
<1>7. CASE Method
  BY Zenon, <1>0, <1>7 DEF Method, RssiAsks, Ask, WaitOn, Answered, TimedOut
<1>8. CASE App
  BY Zenon, <1>0, <1>8 DEF App, HostByName, Ping, Refresh, ScanNetworks, ScanResult, Ask,
    Begin, Disconnect, ChipDrops, ChipUnchanged
<1>9. CASE Chip
  BY Zenon, <1>0, <1>9 DEF Chip, ChipAnswers, ChipJoins, ChipDrops, ChipUnchanged
<1>10. CASE UNCHANGED vars BY Zenon, <1>0, <1>10 DEF vars
<1> QED
  BY <1>1, <1>2, <1>3, <1>4, <1>5, <1>6, <1>7, <1>8, <1>9, <1>10, <1>11 DEF Next, Callback

\* The request of a method is one of its kind.
LEMMA AskTyped ==
  ASSUME WiFiTypes, NEW k \in Kinds, NEW h \in Hosts \union {0}, Ask(k, h)
  PROVE  QueueTypes' /\ asked' \in 0..MaxRequests
<1> USE WiFiAssumption DEF QueueTypes, WiFiTypes, Ask, GoTo, Call
<1>1. CASE asked < MaxRequests /\ asked' = asked + 1
           /\ todo' = todo \union {[k |-> k, h |-> h, id |-> asked']}
           /\ call' = [k |-> k, h |-> h, id |-> asked', clean |-> Quiet]
  <2>1. asked' \in 1..MaxRequests
    BY <1>1
  <2>2. Quiet \in BOOLEAN
    BY Zenon DEF Quiet
  <2>3. call' \in CallType
    BY <1>1, <2>1, <2>2 DEF CallType
  <2>4. todo' \subseteq RequestType
    BY <1>1, <2>1 DEF RequestType
  <2> QED
    BY <2>1, <2>3, <2>4
<1>2. CASE UNCHANGED <<asked, todo, call>>
  BY <1>2 DEF CallType, RequestType
<1> QED
  BY <1>1, <1>2

\* Every step keeps the types of messages and requests.
LEMMA QueueTypesStep == WiFiTypes /\ [Next]_vars => QueueTypes' /\ asked' \in 0..MaxRequests
<1> SUFFICES ASSUME WiFiTypes, [Next]_vars PROVE QueueTypes' /\ asked' \in 0..MaxRequests
  OBVIOUS
<1> USE DEF QueueTypes, wifiVars, objVars, airVars, histVars, boundVars, faultVars
<1>0. QueueTypes /\ asked \in 0..MaxRequests
  BY TypeParts DEF ValueTypes
<1>a. NoCall \in CallType /\ [NoCall EXCEPT !.k = "begin"] \in CallType
  <2>1. 0 \in 0..MaxRequests
    BY WiFiAssumption
  <2>2. NoCall \in CallType
    BY Zenon, <2>1 DEF NoCall, CallType
  <2>3. \A c \in CallType : [c EXCEPT !.k = "begin"] \in CallType
    BY DEF CallType
  <2> QED
    BY <2>2, <2>3
<1>1. CASE EventsReturn \/ WaitOn \/ UNCHANGED vars \/ Refresh("idle") \/ Refresh("rssi")
  BY <1>0, <1>1 DEF EventsReturn, WaitOn, Refresh, vars
<1>2. CASE Callback \/ Unread
  <2>1. air # <<>> /\ air' = Tail(air) /\ UNCHANGED <<call, todo, asked>>
    BY <1>2 DEF Callback, CbConnected, CbDisconnected, CbScan, CbValue, CbPing, Handle,
      Unread
  <2> QED
    BY <1>0, <2>1
<1>3. CASE RssiAsks \/ (\E h \in Hosts : HostByName(h) \/ Ping(h)) \/ ScanNetworks \/ ScanResult
  <2>1. PICK k \in Kinds, h \in Hosts \union {0} : Ask(k, h)
    BY <1>3 DEF RssiAsks, HostByName, Ping, ScanNetworks, ScanResult, Kinds
  <2> QED
    BY <2>1, AskTyped
<1>4. CASE Begin
  BY <1>0, <1>a, <1>4 DEF Begin
<1>5. CASE Answered \/ TimedOut
  BY <1>0, <1>a, <1>5 DEF Answered, TimedOut, Finish
<1>6. CASE ChipAnswers
  <2>1. air' \in Seq(Messages) /\ todo' \subseteq todo
    BY <1>0, <1>6, AnswerTold
  <2> QED
    BY <1>0, <1>6, <2>1 DEF ChipAnswers, ChipUnchanged
<1>7. CASE ChipJoins \/ ChipDrops \/ Disconnect
  <2>1. air' \in Seq(Messages)
    BY <1>0, <1>7, LinkTold DEF Disconnect
  <2> QED
    BY <1>0, <1>7, <2>1 DEF ChipJoins, ChipDrops, Disconnect, ChipUnchanged
<1> QED
  BY <1>1, <1>2, <1>3, <1>4, <1>5, <1>6, <1>7 DEF Next, Method, App, Chip

\* Every step keeps the values in their ranges.
LEMMA ValueTypesStep == WiFiTypes /\ [Next]_vars => ValueTypes'
<1> SUFFICES ASSUME WiFiTypes, [Next]_vars PROVE ValueTypes'
  OBVIOUS
<1> USE WiFiAssumption DEF ValueTypes, wifiVars, objVars, airVars, histVars, boundVars, faultVars
<1>0. ValueTypes /\ air \in Seq(Messages)
  BY TypeParts DEF QueueTypes
<1>a. asked' \in 0..MaxRequests
  BY QueueTypesStep
<1>b. {0, PING_UNREACHABLE} \subseteq Values /\ Hosts \subseteq Values
      /\ {IDLE, SCAN_COMPLETED, CONNECTED, CONNECT_FAILED, DISCONNECTED} \subseteq Statuses
  BY DEF Values, Statuses
<1>1. CASE EventsReturn \/ WaitOn \/ UNCHANGED vars \/ Refresh("idle") \/ Refresh("rssi")
  BY <1>0, <1>1 DEF EventsReturn, WaitOn, Refresh, vars
<1>2. CASE Callback
  <2>1. air # <<>> /\ UNCHANGED <<_mode, tmp, link, asked, begun, dropped, faults>>
    BY <1>2 DEF Callback, CbConnected, CbDisconnected, CbScan, CbValue, CbPing, Handle
  <2>2. Head(air).v \in Values /\ Head(air).id \in 0..MaxRequests
    BY <1>0, <2>1, Handled DEF Messages
  <2>3. _status' \in Statuses
    BY <1>0, <1>b, <1>2 DEF Callback, CbConnected, CbDisconnected, CbScan, CbValue, CbPing,
      SetStatus
  <2>4. _resolve' \in Values /\ from' \in 0..MaxRequests
    BY <1>0, <1>b, <1>2, <2>2
      DEF Callback, CbConnected, CbDisconnected, CbScan, CbValue, CbPing
  <2> QED
    BY <1>0, <2>1, <2>3, <2>4
<1>8. CASE Unread
  <2>1. faults' \in 0..MaxFaults
    BY <1>0, <1>8 DEF Unread
  <2> QED
    BY <1>0, <1>8, <2>1 DEF Unread
<1>3. CASE RssiAsks \/ \E h \in Hosts : HostByName(h) \/ Ping(h)
  <2>1. PICK v \in {0} \union Hosts : _resolve' = v /\ from' = 0
    BY <1>3 DEF RssiAsks, HostByName, Ping
  <2>2. UNCHANGED <<_mode, _status, tmp, link, begun, dropped, faults>>
    BY <1>3 DEF RssiAsks, HostByName, Ping, Ask
  <2> QED
    BY <1>0, <1>a, <1>b, <2>1, <2>2
<1>4. CASE ScanNetworks \/ ScanResult
  BY <1>0, <1>a, <1>b, <1>4 DEF ScanNetworks, ScanResult, Ask
<1>5. CASE Begin
  BY <1>0, <1>b, <1>5 DEF Begin
<1>6. CASE Answered \/ TimedOut
  BY <1>0, <1>b, <1>6 DEF Answered, TimedOut, Finish
<1>7. CASE Chip \/ Disconnect
  BY <1>0, <1>7 DEF Chip, ChipAnswers, ChipJoins, ChipDrops, Disconnect, ChipUnchanged
<1> QED
  BY <1>1, <1>2, <1>3, <1>4, <1>5, <1>6, <1>7, <1>8 DEF Next, Method, App

-----------------------------------------------------------------------------
(* Control, and the answers.                                                 *)

\* Every step keeps the method in progress and the point of the main loop in accord.
LEMMA ControlStep == IInv /\ [Next]_vars => ControlInv'
<1> SUFFICES ASSUME IInv, [Next]_vars PROVE ControlInv'
  OBVIOUS
<1> USE DEF ControlInv, wifiVars, objVars, airVars, histVars, boundVars, faultVars, GoTo, Call
<1>0. ControlInv /\ asked \in 0..MaxRequests /\ WiFiTypes
  BY TypeParts DEF IInv, ValueTypes
<1>1. CASE EventsReturn \/ WaitOn \/ UNCHANGED vars \/ Refresh("idle") \/ Refresh("rssi")
  BY <1>0, <1>1 DEF EventsReturn, WaitOn, Refresh, vars
<1>2. CASE Callback \/ Unread
  BY <1>0, <1>2 DEF Callback, CbConnected, CbDisconnected, CbScan, CbValue, CbPing, Handle,
    Unread
<1>3. CASE RssiAsks \/ (\E h \in Hosts : HostByName(h) \/ Ping(h)) \/ ScanNetworks \/ ScanResult
  <2>1. PICK k \in Kinds, h \in Hosts \union {0} : Ask(k, h)
    BY <1>3 DEF RssiAsks, HostByName, Ping, ScanNetworks, ScanResult, Kinds
  <2>2. pc \in {"idle", "rssi"}
    BY <1>3 DEF RssiAsks, HostByName, Ping, ScanNetworks, ScanResult
  <2>3. asked + 1 > 0
    BY <1>0, WiFiAssumption
  <2> QED
    BY <1>0, <2>1, <2>2, <2>3 DEF Ask, Kinds
<1>4. CASE Begin
  BY <1>0, <1>4 DEF Begin, NoCall, Kinds
<1>5. CASE Answered \/ TimedOut
  BY <1>0, <1>5 DEF Answered, TimedOut, Finish, NoCall, Kinds
<1>6. CASE Chip \/ Disconnect
  BY <1>0, <1>6 DEF Chip, ChipAnswers, ChipJoins, ChipDrops, Disconnect, ChipUnchanged
<1> QED
  BY <1>1, <1>2, <1>3, <1>4, <1>5, <1>6 DEF Next, Method, App

\* A request that is made when all is quiet is the only one, and nothing is in
\* _resolve that could be taken for its answer.
LEMMA AskQuiet ==
  ASSUME WiFiTypes, call.k = "none",
         NEW k \in Kinds, NEW h \in Hosts \union {0}, Ask(k, h), UNCHANGED link,
         k \in Asking => from' = 0 /\ _resolve' = (IF k = "ping" THEN h ELSE 0)
  PROVE  AnswerInv'
<1>1. CASE todo' = todo \union {[k |-> k, h |-> h, id |-> asked']}
           /\ call' = [k |-> k, h |-> h, id |-> asked', clean |-> Quiet]
           /\ air' = air
  <2> SUFFICES ASSUME call'.clean, k \in Asking PROVE AnswerInv'
    BY <1>1 DEF AnswerInv
  <2>1. Quiet
    BY <1>1
  <2>2. /\ call'.k = k /\ call'.h = h /\ call'.id = asked'
        /\ todo' = {[k |-> k, h |-> h, id |-> asked']}
    BY <1>1, <2>1 DEF Quiet
  <2>3. \A i \in 1..Len(air') : air'[i].k \notin Kinds
    BY <1>1, <2>1 DEF Quiet, WiFiTypes
  <2>4. from' = 0 /\ _resolve' = Blank'
    BY <2>2 DEF Blank
  <2> QED
    BY <2>2, <2>3, <2>4 DEF AnswerInv
<1>2. CASE call' = call
  BY <1>2 DEF AnswerInv, Asking
<1> QED
  BY <1>1, <1>2 DEF Ask

\* A method that asked when all was quiet goes on to get its own answer only.
LEMMA AnswerStep == IInv /\ [Next]_vars => AnswerInv'
<1> SUFFICES ASSUME IInv, [Next]_vars PROVE AnswerInv'
  OBVIOUS
<1> USE DEF wifiVars, objVars, airVars, histVars, boundVars, faultVars
<1>0. AnswerInv /\ ControlInv /\ WiFiTypes /\ QueueTypes /\ air \in Seq(Messages)
  BY TypeParts DEF IInv, QueueTypes
<1>1. CASE EventsReturn \/ WaitOn \/ UNCHANGED vars \/ Refresh("idle") \/ Refresh("rssi")
  BY <1>0, <1>1 DEF EventsReturn, WaitOn, Refresh, vars, AnswerInv, Mine, Blank
<1>2. CASE Callback \/ Unread
  <2>1. pc = "events" /\ air # <<>> /\ air' = Tail(air) /\ UNCHANGED <<call, todo>>
    BY <1>2 DEF Callback, CbConnected, CbDisconnected, CbScan, CbValue, CbPing, Handle, Unread
  <2> SUFFICES ASSUME call.clean, call.k \in Asking PROVE AnswerInv'
    BY <2>1 DEF AnswerInv
  <2> DEFINE m == Head(air)
  <2>2. /\ m = air[1] /\ 1 \in 1..Len(air)
        /\ \A i \in 1..Len(air') : air'[i] = air[i + 1] /\ i + 1 \in 1..Len(air)
    BY <1>0, <2>1, Handled
  <2>3. m.k \in Kinds => Mine(m)
    BY <1>0, <2>2 DEF AnswerInv
  <2>4. \/ UNCHANGED <<from, _resolve>>
        \/ /\ from' = call.id /\ call.k = m.k
           /\ m.k = "dns" => _resolve' = m.v
    BY <1>2, <2>3 DEF Callback, CbConnected, CbDisconnected, CbScan, CbValue, CbPing, Handle,
      Unread, Kinds, Mine, Asking
  <2>5. \/ from' = 0 /\ _resolve' = Blank
        \/ from' = call.id /\ (call.k = "dns" => _resolve' \in {0, call.h})
    <3>1. CASE UNCHANGED <<from, _resolve>>
      BY <1>0, <3>1 DEF AnswerInv
    <3>2. CASE from' = call.id /\ call.k = m.k /\ (m.k = "dns" => _resolve' = m.v)
      BY <2>3, <3>2 DEF Mine, Kinds
    <3> QED BY <2>4, <3>1, <3>2
  <2>6. \A i \in 1..Len(air') : air'[i].k \in Kinds => Mine(air'[i])
    BY <1>0, <2>2 DEF AnswerInv
  <2> QED
    BY <1>0, <2>1, <2>5, <2>6 DEF AnswerInv, Mine, Blank
<1>3. CASE RssiAsks \/ (\E h \in Hosts : HostByName(h) \/ Ping(h)) \/ ScanNetworks \/ ScanResult
  <2>1. call.k = "none" /\ UNCHANGED link
    BY <1>0, <1>3 DEF ControlInv, RssiAsks, HostByName, Ping, ScanNetworks, ScanResult, Ask
  <2>2. PICK k \in Kinds, h \in Hosts \union {0} :
          /\ Ask(k, h)
          /\ k \in Asking => from' = 0 /\ _resolve' = (IF k = "ping" THEN h ELSE 0)
    BY <1>3 DEF RssiAsks, HostByName, Ping, ScanNetworks, ScanResult, Kinds, Asking
  <2> QED
    BY <1>0, <2>1, <2>2, AskQuiet
<1>4. CASE Begin
  <2>1. call.k = "none" /\ call'.k \in {"none", "begin"}
    BY <1>0, <1>4 DEF ControlInv, Begin, NoCall
  <2> QED
    BY <2>1 DEF AnswerInv, Asking
<1>5. CASE Answered \/ TimedOut
  BY <1>5 DEF Answered, TimedOut, Finish, NoCall, AnswerInv, Asking
<1>6. CASE ChipAnswers
  <2>1. PICK r \in todo, m \in Messages :
          /\ todo' = todo \ {r} /\ air' = Append(air, m)
          /\ m.k = r.k /\ m.k \in Kinds /\ m.id = r.id
          /\ m.k = "dns" => m.v \in {0, r.h}
    BY <1>0, <1>6, AnswerTold
  <2>2. UNCHANGED <<call, from, _resolve>>
    BY <1>6 DEF ChipAnswers, ChipUnchanged
  <2> SUFFICES ASSUME call.clean, call.k \in Asking PROVE AnswerInv'
    BY <2>2 DEF AnswerInv
  <2>3. Mine(m)
    BY <1>0, <2>1 DEF AnswerInv, Mine
  <2>4. \A i \in 1..Len(air') : air'[i].k \in Kinds => Mine(air'[i])
    BY <1>0, <2>1, <2>3 DEF AnswerInv
  <2> QED
    BY <1>0, <2>1, <2>2, <2>4 DEF AnswerInv, Mine, Blank
<1>7. CASE ChipJoins \/ ChipDrops \/ Disconnect
  <2>1. PICK m \in Messages :
          air' = Append(air, m) /\ m.k \in {"connected", "disconnected", "dhcp"}
    BY <1>0, <1>7, LinkTold DEF Disconnect
  <2>2. UNCHANGED <<call, from, _resolve, todo>>
    BY <1>7 DEF ChipJoins, ChipDrops, Disconnect, ChipUnchanged
  <2>3. call.clean /\ call.k \in Asking
          => \A i \in 1..Len(air') : air'[i].k \in Kinds => Mine(air'[i])
    BY <1>0, <2>1 DEF AnswerInv, Kinds
  <2> QED
    BY <1>0, <2>2, <2>3 DEF AnswerInv, Mine, Blank
<1> QED
  BY <1>1, <1>2, <1>3, <1>4, <1>5, <1>6, <1>7 DEF Next, Method, App, Chip

-----------------------------------------------------------------------------
(* The link.                                                                 *)

\* A step that moves neither the link nor a message keeps what the last word on the
\* link was, if _status still agrees with it.
LEMMA LinkSame ==
  ASSUME LinkInv, UNCHANGED <<link, air, _dhcp, overwritten, unheard>>, _mode' = "sta" => _mode = "sta",
         LinkStatus' = CONNECTED <=> LinkStatus = CONNECTED
  PROVE  LinkInv'
BY DEF LinkInv, Says

\* A callback makes _status agree with the message it handles; an answer to a scan
\* leaves what will be put back.
LEMMA CallbackStatus ==
  ASSUME WiFiTypes, Callback, ~overwritten', _mode = "sta"
  PROVE  /\ Head(air).k \in Kinds => LinkStatus' = LinkStatus
         /\ Says(Head(air), link) => (LinkStatus' = CONNECTED <=> link = "up")
         /\ ~overwritten
         /\ Head(air).k \in Kinds => unheard' = unheard
<1> USE DEF Handle, LinkStatus, Scanning, boundVars
<1>u. Head(air).k \in Kinds => unheard' = unheard
  <2>1. unheard' = (unheard /\ Head(air).k \in Kinds)
    BY DEF Callback, CbConnected, CbDisconnected, CbScan, CbValue, CbPing
  <2>2. unheard \in BOOLEAN
    BY TypeParts DEF FlagTypes
  <2> QED BY <2>1, <2>2
<1>1. CASE CbConnected
  BY <1>1 DEF CbConnected, SetStatus, Says, Kinds
<1>2. CASE CbDisconnected
  <2>1. Head(air).k = "disconnected" /\ _status' = DISCONNECTED /\ ~overwritten /\ ~Scanning
    BY <1>2 DEF CbDisconnected, SetStatus
  <2>2. ~(Head(air).k \in Kinds) /\ LinkStatus' # CONNECTED
    BY <1>2, <2>1 DEF CbDisconnected, Kinds, CONNECTED, DISCONNECTED
  <2> QED
    BY <2>1, <2>2 DEF Says
<1>3. CASE CbScan
  BY <1>u, <1>3 DEF CbScan, Says
<1>4. CASE CbValue
  BY <1>u, <1>4 DEF CbValue, Says
<1>5. CASE CbPing
  BY <1>u, <1>5 DEF CbPing, Says
<1> QED
  BY <1>u, <1>1, <1>2, <1>3, <1>4, <1>5 DEF Callback

\* Every step keeps the account of the chip's last word on the link.
LEMMA LinkStep == IInv /\ [Next]_vars => LinkInv'
<1> SUFFICES ASSUME IInv, [Next]_vars PROVE LinkInv'
  OBVIOUS
<1> USE DEF wifiVars, objVars, airVars, histVars, boundVars, faultVars
<1>0. LinkInv /\ ControlInv /\ WiFiTypes /\ air \in Seq(Messages)
  BY TypeParts DEF IInv, QueueTypes
<1>1. CASE EventsReturn \/ WaitOn \/ UNCHANGED vars \/ Refresh("idle") \/ Refresh("rssi")
  <2>1. UNCHANGED wifiVars
    BY <1>1 DEF EventsReturn, WaitOn, Refresh, vars
  <2> QED
    BY <1>0, <2>1, LinkSame DEF LinkStatus, Scanning
<1>2. CASE Callback
  <2>1. air # <<>> /\ air' = Tail(air) /\ UNCHANGED <<_mode, _dhcp, link>>
    BY <1>2 DEF Callback, CbConnected, CbDisconnected, CbScan, CbValue, CbPing, Handle
  <2> SUFFICES ASSUME ~overwritten', _mode = "sta", link \in {"up", "down"} PROVE LinkInv'
    BY <2>1 DEF LinkInv
  <2> DEFINE m == Head(air)
  <2>2. /\ m = air[1] /\ 1 \in 1..Len(air) /\ Len(air) \in Nat /\ Len(air') = Len(air) - 1
        /\ \A i \in 1..Len(air') : air'[i] = air[i + 1] /\ i + 1 \in 1..Len(air)
    BY <1>0, <2>1, Handled
  <2>3. /\ m.k \in Kinds => LinkStatus' = LinkStatus
        /\ Says(m, link) => (LinkStatus' = CONNECTED <=> link = "up")
        /\ ~overwritten
        /\ m.k \in Kinds => unheard' = unheard
    BY <1>0, <1>2, CallbackStatus
  <2> HIDE DEF m
  <2>4. CASE /\ \A i \in 1..Len(air) : air[i].k \in Kinds
             /\ unheard \/ (LinkStatus = CONNECTED <=> link = "up")
    BY <2>1, <2>2, <2>3, <2>4 DEF LinkInv
  <2>5. CASE \E i \in 1..Len(air) :
               Says(air[i], link) /\ \A j \in (i + 1)..Len(air) : air[j].k \in Kinds
    <3>1. PICK i \in 1..Len(air) :
            Says(air[i], link) /\ \A j \in (i + 1)..Len(air) : air[j].k \in Kinds
      BY <2>5
    <3>2. CASE i = 1
      <4>1. \A j \in 1..Len(air') : air'[j].k \in Kinds
        BY <2>2, <3>1, <3>2
      <4>2. LinkStatus' = CONNECTED <=> link = "up"
        BY <2>2, <2>3, <3>1, <3>2
      <4> QED BY <2>1, <4>1, <4>2 DEF LinkInv
    <3>3. CASE i # 1
      <4>1. i - 1 \in 1..Len(air') /\ air'[i - 1] = air[i]
        BY <2>2, <3>1, <3>3
      <4>2. \A j \in (i - 1 + 1)..Len(air') : air'[j].k \in Kinds
        <5>1. \A j \in (i - 1 + 1)..Len(air') : j \in 1..Len(air') /\ j + 1 \in (i + 1)..Len(air)
          BY <2>2, <3>1, <3>3
        <5> QED BY <2>2, <3>1, <5>1
      <4>3. Says(air[i - 1], link)'
        BY <2>1, <3>1, <4>1 DEF Says
      <4> QED BY <4>1, <4>2, <4>3 DEF LinkInv
    <3> QED BY <3>2, <3>3
  <2> QED
    BY <1>0, <2>3, <2>4, <2>5 DEF LinkInv
<1>8. CASE Unread
  <2>1. /\ air # <<>> /\ air' = Tail(air) /\ UNCHANGED <<_mode, _dhcp, link, overwritten>>
        /\ LinkStatus' = LinkStatus
        /\ unheard' = (unheard \/ Head(air).k \notin Kinds)
    BY <1>8 DEF Unread, LinkStatus, Scanning
  <2> SUFFICES ASSUME ~overwritten, _mode = "sta", link \in {"up", "down"} PROVE LinkInv'
    BY <2>1 DEF LinkInv
  <2>2. /\ Head(air) = air[1] /\ 1 \in 1..Len(air) /\ Len(air) \in Nat /\ Len(air') = Len(air) - 1
        /\ \A i \in 1..Len(air') : air'[i] = air[i + 1] /\ i + 1 \in 1..Len(air)
    BY <1>0, <2>1, Handled
  <2>3. CASE /\ \A i \in 1..Len(air) : air[i].k \in Kinds
             /\ unheard \/ (LinkStatus = CONNECTED <=> link = "up")
    <3>1. unheard => unheard'
      BY <2>1
    <3> QED BY <2>1, <2>2, <2>3, <3>1 DEF LinkInv
  <2>4. CASE \E i \in 1..Len(air) :
               Says(air[i], link) /\ \A j \in (i + 1)..Len(air) : air[j].k \in Kinds
    <3>1. PICK i \in 1..Len(air) :
            Says(air[i], link) /\ \A j \in (i + 1)..Len(air) : air[j].k \in Kinds
      BY <2>4
    <3>2. CASE i = 1
      <4>1. \A j \in 1..Len(air') : air'[j].k \in Kinds
        BY <2>2, <3>1, <3>2
      <4>2. Head(air).k \notin Kinds
        BY <2>2, <3>1, <3>2 DEF Says, Kinds
      <4>3. unheard'
        BY <2>1, <4>2
      <4> QED BY <4>1, <4>3 DEF LinkInv
    <3>3. CASE i # 1
      <4>1. i - 1 \in 1..Len(air') /\ air'[i - 1] = air[i]
        BY <2>2, <3>1, <3>3
      <4>2. \A j \in (i - 1 + 1)..Len(air') : air'[j].k \in Kinds
        <5>1. \A j \in (i - 1 + 1)..Len(air') : j \in 1..Len(air') /\ j + 1 \in (i + 1)..Len(air)
          BY <2>2, <3>1, <3>3
        <5> QED BY <2>2, <3>1, <5>1
      <4>3. Says(air[i - 1], link)'
        BY <2>1, <3>1, <4>1 DEF Says
      <4> QED BY <4>1, <4>2, <4>3 DEF LinkInv
    <3> QED BY <3>2, <3>3
  <2> QED
    BY <1>0, <2>3, <2>4 DEF LinkInv
<1>3. CASE RssiAsks \/ (\E h \in Hosts : HostByName(h) \/ Ping(h)) \/ ScanNetworks \/ ScanResult
  <2>1. call.k = "none"
    BY <1>0, <1>3 DEF ControlInv, RssiAsks, HostByName, Ping, ScanNetworks, ScanResult
  <2>2. PICK k \in Kinds, h \in Hosts \union {0} :
          /\ Ask(k, h)
          /\ IF k \in {"scan", "ap"} /\ pc' = "events" THEN tmp' = _status ELSE UNCHANGED _status
    BY <1>3 DEF RssiAsks, HostByName, Ping, ScanNetworks, ScanResult, Kinds
  <2>3. UNCHANGED <<link, air, _dhcp, overwritten, unheard, _mode>>
    BY <1>3 DEF RssiAsks, HostByName, Ping, ScanNetworks, ScanResult, Ask
  <2>4. LinkStatus' = LinkStatus
    BY <2>1, <2>2 DEF LinkStatus, Scanning, Ask, GoTo, Call, Kinds
  <2> QED
    BY <1>0, <2>3, <2>4, LinkSame
<1>4. CASE Begin
  <2>1. call.k = "none"
    BY <1>0, <1>4 DEF ControlInv, Begin
  <2>2. CASE link' = "joining"
    BY <2>2 DEF LinkInv
  <2>3. CASE _status' = CONNECT_FAILED /\ UNCHANGED <<link, _mode, call, pc, ret>>
    <3>1. LinkStatus' # CONNECTED /\ LinkStatus # CONNECTED
      BY <1>4, <2>1, <2>3 DEF Begin, LinkStatus, Scanning, CONNECTED, CONNECT_FAILED
    <3> QED
      BY <1>0, <1>4, <2>3, <3>1, LinkSame DEF Begin
  <2> QED
    BY <1>4, <2>2, <2>3 DEF Begin
<1>5. CASE Answered \/ TimedOut
  <2>1. Finish /\ UNCHANGED <<link, air, _dhcp, overwritten, unheard>>
    BY <1>5 DEF Answered, TimedOut
  <2>2. LinkStatus' = LinkStatus
    BY <2>1 DEF Finish, LinkStatus, Scanning, NoCall
  <2>3. _mode' = "sta" => _mode = "sta"
    BY <2>1 DEF Finish
  <2> QED
    BY <1>0, <2>1, <2>2, <2>3, LinkSame
<1>6. CASE ChipAnswers
  <2>1. PICK m \in Messages : air' = Append(air, m) /\ m.k \in Kinds
    BY <1>0, <1>6, AnswerTold
  <2>2. UNCHANGED <<link, _dhcp, overwritten, unheard, _mode, LinkStatus>>
    BY <1>6 DEF ChipAnswers, ChipUnchanged, LinkStatus, Scanning
  <2>3. /\ Len(air) \in Nat /\ Len(air') = Len(air) + 1 /\ air'[Len(air) + 1] = m
        /\ \A i \in 1..Len(air) : air'[i] = air[i]
    BY <1>0, <2>1
  <2> SUFFICES ASSUME ~overwritten, _mode = "sta", link \in {"up", "down"} PROVE LinkInv'
    BY <2>2 DEF LinkInv
  <2>4. CASE /\ \A i \in 1..Len(air) : air[i].k \in Kinds
             /\ unheard \/ (LinkStatus = CONNECTED <=> link = "up")
    BY <2>1, <2>2, <2>3, <2>4 DEF LinkInv
  <2>5. CASE \E i \in 1..Len(air) :
               Says(air[i], link) /\ \A j \in (i + 1)..Len(air) : air[j].k \in Kinds
    <3>1. PICK i \in 1..Len(air) :
            Says(air[i], link) /\ \A j \in (i + 1)..Len(air) : air[j].k \in Kinds
      BY <2>5
    <3>2. i \in 1..Len(air') /\ Says(air[i], link)'
      BY <2>2, <2>3, <3>1 DEF Says
    <3>3. \A j \in (i + 1)..Len(air') : air'[j].k \in Kinds
      BY <2>1, <2>3, <3>1
    <3> QED BY <3>2, <3>3 DEF LinkInv
  <2> QED
    BY <1>0, <2>4, <2>5 DEF LinkInv
<1>7. CASE ChipJoins \/ ChipDrops \/ Disconnect
  <2>1. PICK m \in Messages :
          air' = Append(air, m) /\ (link' \in {"up", "down"} => Says(m, link'))
    BY <1>0, <1>7, LinkTold DEF Disconnect
  <2>2. UNCHANGED _dhcp
    BY <1>7 DEF ChipJoins, ChipDrops, Disconnect, ChipUnchanged
  <2>3. Len(air) \in Nat /\ Len(air') = Len(air) + 1 /\ air'[Len(air')] = m
    BY <1>0, <2>1
  <2>4. link' \in {"up", "down"} => Says(air'[Len(air')], link')
    BY <2>1, <2>3
  <2>5. link' \in {"up", "down"} => Says(air[Len(air)], link)'
    BY <2>2, <2>4 DEF Says
  <2>6. Len(air') \in 1..Len(air') /\ \A j \in (Len(air') + 1)..Len(air') : air'[j].k \in Kinds
    BY <2>3
  <2> QED
    BY <2>5, <2>6 DEF LinkInv
<1> QED
  BY <1>1, <1>2, <1>3, <1>4, <1>5, <1>6, <1>7, <1>8 DEF Next, Method, App, Chip

-----------------------------------------------------------------------------
(* The theorems.                                                             *)

\* The invariant holds after init().
LEMMA InitIInv == Init => IInv
<1> SUFFICES ASSUME Init PROVE IInv
  OBVIOUS
<1> USE WiFiAssumption DEF Init
<1>1. FlagTypes
  <2>1. FALSE \in BOOLEAN
    BY Zenon
  <2> QED BY Zenon, <2>1 DEF FlagTypes
<1>2. ValueTypes
  BY DEF ValueTypes, Statuses, Values
<1>3. QueueTypes
  <2>1. 0 \in 0..MaxRequests
    OBVIOUS
  <2>2. NoCall \in CallType
    BY Zenon, <2>1 DEF NoCall, CallType
  <2> QED BY <2>2 DEF QueueTypes
<1>4. WiFiTypes
  BY <1>1, <1>2, <1>3, TypeParts
<1>5. ControlInv
  BY DEF ControlInv, NoCall, Kinds
<1>6. AnswerInv /\ LinkInv
  BY DEF AnswerInv, LinkInv, NoCall, Asking
<1> QED BY <1>4, <1>5, <1>6 DEF IInv

\* Every step keeps the invariant.
LEMMA StepIInv == IInv /\ [Next]_vars => IInv'
<1> SUFFICES ASSUME IInv, [Next]_vars PROVE IInv'
  OBVIOUS
<1>1. FlagTypes' /\ ValueTypes' /\ QueueTypes'
  BY FlagTypesStep, ValueTypesStep, QueueTypesStep DEF IInv
<1>2. WiFiTypes'
  BY <1>1, TypeParts, PTL
<1> QED
  BY <1>2, ControlStep, AnswerStep, LinkStep DEF IInv

\* The invariant holds in every reachable state, for any hosts and bounds.
THEOREM Invariance == Spec => []IInv
BY InitIInv, StepIInv, PTL DEF Spec

\* Every variable of the WiFi object, of the chip and of the air has its type.
THEOREM TypeCorrect == Spec => []WiFiTypes
<1>1. IInv => WiFiTypes
  BY DEF IInv
<1> QED BY <1>1, Invariance, PTL

\* status() tells the state of the link once the chip's messages on it are handled,
\* through methods that time out, failed requests, scans and lost messages (LinkInv at rest, where
\* no scan has _status).
THEOREM StatusIsTrue == Spec => []StatusTrue
<1>1. IInv => StatusTrue
  <2> SUFFICES ASSUME IInv, pc = "idle", ~overwritten, ~unheard, _mode = "sta", link \in {"up", "down"},
                      \A i \in DOMAIN air : air[i].k \in Kinds
               PROVE  _status = CONNECTED <=> link = "up"
    BY DEF StatusTrue
  <2>1. LinkStatus = _status
    BY DEF IInv, ControlInv, LinkStatus, Scanning
  <2>2. \A i \in 1..Len(air) : air[i].k \in Kinds
    BY DEF IInv, WiFiTypes
  <2>3. \A i \in 1..Len(air) : ~Says(air[i], link)
    BY <2>2 DEF Says, Kinds
  <2> QED
    BY <2>1, <2>3 DEF IInv, LinkInv
<1> QED BY <1>1, Invariance, PTL

\* hostByName(), ping() and RSSI() return the answer to their own request, when none
\* was outstanding as they asked (AnswerInv as the wait ends).
THEOREM AnswersAreOwn == Spec => OwnAnswer
<1> DEFINE Asked ==
      /\ pc = "wait" /\ pc' = "idle" /\ call.clean /\ call.k \in {"dns", "ping", "rssi"}
      /\ Value # (IF call.k = "ping" THEN PING_TIMEOUT ELSE 0)
<1>1. IInv /\ [Next]_vars => [Asked => from = call.id /\ (call.k = "dns" => Value = call.h)]_vars
  <2> SUFFICES ASSUME IInv, Asked PROVE from = call.id /\ (call.k = "dns" => Value = call.h)
    OBVIOUS
  <2>1. \/ from = 0 /\ _resolve = Blank
        \/ from = call.id /\ (call.k = "dns" => _resolve \in {0, call.h})
    BY DEF IInv, AnswerInv, Asking
  <2>2. CASE from = 0 /\ _resolve = Blank
    BY <2>2 DEF Blank, Value
  <2>3. CASE from = call.id /\ (call.k = "dns" => _resolve \in {0, call.h})
    BY <2>3 DEF Value
  <2> QED BY <2>1, <2>2, <2>3
<1> QED
  BY <1>1, Invariance, PTL DEF Spec, OwnAnswer
=============================================================================
