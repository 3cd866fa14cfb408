----------------------------- MODULE WiFiClass -----------------------------
(***************************************************************************)
(* The WiFi object as a station: begin(), disconnect(), and the methods    *)
(* that ask the chip for something and run the event loop until the answer *)
(* is there or their time is up.  hostByName(), ping() and RSSI() share    *)
(* _resolve, the scan methods share _status with the state of the link, and *)
(* an answer that comes after its method has given up is handled like any  *)
(* other.                                                                  *)
(***************************************************************************)
EXTENDS Integers, Sequences

CONSTANTS
  Hosts,         \* addresses, as 32-bit numbers
  MaxRequests,   \* bound: requests other than to connect
  MaxBegins,     \* bound: requests to connect
  MaxDrops,      \* bound: times the link is given up
  MaxAir,        \* bound: messages waiting
  MaxFaults      \* bound: messages that cannot be read

ASSUME WiFiAssumption ==
  /\ Hosts \subseteq Nat \ 0..9
  /\ {MaxRequests, MaxBegins, MaxDrops, MaxAir, MaxFaults} \subseteq Nat

VARIABLES
  _mode,         \* "reset" or "sta"
  _status,       \* a wl_status_t
  _dhcp,
  _resolve,      \* an address, an RSSI or the result of a ping
  gu8scanInProgress,
  tmp,           \* the scan methods' copy of _status
  call,          \* the method in progress
  pc, ret,       \* control point, and where m2m_wifi_handle_events returns
  \* the chip
  todo,          \* requests it has not answered
  link,          \* its link to the access point
  air,           \* messages the host has not handled, oldest first
  \* bookkeeping of the model
  from,          \* history: the request whose answer is in _resolve
  overwritten,   \* history: _status was lost between the link and a scan
  unheard,       \* history: the link's last message was not read
  asked, begun, dropped, faults  \* used up bounds

objVars == <<_mode, _status, _resolve, gu8scanInProgress, tmp, call>>
airVars == <<todo, link, air>>
histVars == <<from, overwritten>>
boundVars == <<asked, begun, dropped>>
faultVars == <<unheard, faults>>
wifiVars == <<objVars, _dhcp, airVars, histVars, boundVars, faultVars>>
vars == <<wifiVars, pc, ret>>

\* wl_status_t and wl_ping_result_t
IDLE == 0
SCAN_COMPLETED == 2
CONNECTED == 3
CONNECT_FAILED == 4
DISCONNECTED == 6
Statuses == {IDLE, SCAN_COMPLETED, CONNECTED, CONNECT_FAILED, DISCONNECTED}

PING_SUCCESS == 0
PING_UNREACHABLE == 1
PING_TIMEOUT == 2
Rssi == -1       \* the one signal strength of the model

Kinds == {"dns", "ping", "rssi", "scan", "ap"}
NoCall == [k |-> "none", h |-> 0, id |-> 0, clean |-> TRUE]

\* a & b # 0
Overlap(a, b) == \E p \in {1, 2, 4} : (a \div p) % 2 = 1 /\ (b \div p) % 2 = 1

\* after init()
Init ==
  /\ _mode = "reset" /\ _status = IDLE /\ _dhcp \in BOOLEAN /\ _resolve = 0
  /\ gu8scanInProgress = FALSE /\ tmp = IDLE /\ call = NoCall
  /\ pc = "idle" /\ ret = "idle"
  /\ todo = {} /\ link = "down" /\ air = <<>>
  /\ from = 0 /\ overwritten = FALSE /\ asked = 0 /\ begun = 0 /\ dropped = 0
  /\ unheard = FALSE /\ faults = 0

GoTo(p) == pc' = p /\ ret' = "idle"
Call(r) == pc' = "events" /\ ret' = r

-----------------------------------------------------------------------------
(* The callbacks, in m2m_wifi_handle_events.                                 *)

\* There is no interrupt, or none is handled: a full buffer of a socket or a
\* paused transfer is in the way.
EventsReturn == pc = "events" /\ GoTo(ret) /\ UNCHANGED wifiVars

Handle(kinds) ==
  /\ pc = "events" /\ air # <<>> /\ Head(air).k \in kinds
  /\ air' = Tail(air)
  /\ unheard' = (unheard /\ Head(air).k \in Kinds)
  /\ UNCHANGED <<_mode, _dhcp, tmp, call, pc, ret, todo, link, boundVars, faults>>

\* A transfer fails as the message is read, or its header: it is gone, and there is
\* no callback.  The end of a scan is noted before the message is read.
Unread ==
  /\ pc = "events" /\ air # <<>>
  /\ faults < MaxFaults /\ faults' = faults + 1
  /\ air' = Tail(air)
  /\ unheard' = (unheard \/ Head(air).k \notin Kinds)
  /\ \/ UNCHANGED gu8scanInProgress
     \/ Head(air).k = "scan" /\ gu8scanInProgress' = FALSE
  /\ UNCHANGED <<_mode, _status, _resolve, tmp, call, _dhcp, pc, ret, todo, link, histVars,
                 boundVars>>

Scanning == call.k \in {"scan", "ap"}

\* The link's word for _status: a scan that waits takes it for its answer or
\* will put back the older one.
SetStatus(s) ==
  /\ _status' = s
  /\ overwritten' = (overwritten \/ Scanning)

\* wifi_cb: CON_STATE_CHANGED, connected, and DHCP_CONF
CbConnected ==
  /\ Handle({"connected", "dhcp"})
  /\ IF _mode = "sta" /\ (Head(air).k = "dhcp" \/ ~_dhcp)
     THEN SetStatus(CONNECTED)
     ELSE UNCHANGED <<_status, overwritten>>
  /\ UNCHANGED <<_resolve, gu8scanInProgress, from>>

\* wifi_cb: CON_STATE_CHANGED, disconnected, but for socketBufferApDisconnected
CbDisconnected ==
  /\ Handle({"disconnected"})
  /\ IF _mode = "sta" THEN SetStatus(DISCONNECTED) ELSE UNCHANGED <<_status, overwritten>>
  /\ UNCHANGED <<_resolve, gu8scanInProgress, from>>

\* wifi_cb: SCAN_DONE, of v channels, and SCAN_RESULT
CbScan ==
  LET r == Head(air) IN
  /\ Handle({"scan", "ap"})
  /\ gu8scanInProgress' = (gu8scanInProgress /\ r.k = "ap")
  /\ IF r.k = "ap" \/ r.v >= 1
     THEN /\ _status' = SCAN_COMPLETED
          /\ overwritten' = (overwritten \/ ~Scanning)
     ELSE UNCHANGED <<_status, overwritten>>
  /\ IF r.k = "ap" THEN _resolve' = r.v /\ from' = r.id ELSE UNCHANGED <<_resolve, from>>

\* Slip: the signal strength is taken for an unsigned byte.
CbValueUnsigned ==
  /\ Handle({"rssi", "dns"})
  /\ _resolve' = Head(air).v % 256 /\ from' = Head(air).id
  /\ UNCHANGED <<_status, gu8scanInProgress, overwritten>>

\* wifi_cb: CURRENT_RSSI, and resolve_cb
CbValue ==
  /\ Handle({"rssi", "dns"})
  /\ _resolve' = Head(air).v /\ from' = Head(air).id
  /\ UNCHANGED <<_status, gu8scanInProgress, overwritten>>

\* ping_cb: an answer of the host h with v, a result
CbPing ==
  LET r == Head(air) IN
  /\ Handle({"ping"})
  /\ _resolve' = IF r.v = PING_SUCCESS /\ _resolve # r.h THEN PING_UNREACHABLE ELSE r.v
  /\ from' = r.id
  /\ UNCHANGED <<_status, gu8scanInProgress, overwritten>>

-----------------------------------------------------------------------------
(* The methods.                                                              *)

\* No earlier request can still be answered.
Quiet == todo = {} /\ \A i \in DOMAIN air : air[i].k \notin Kinds

\* The request k for h is sent and the method waits for the answer, or the request
\* fails and the method returns.
Ask(k, h) ==
  /\ \/ /\ asked < MaxRequests /\ asked' = asked + 1
        /\ todo' = todo \union {[k |-> k, h |-> h, id |-> asked']}
        /\ call' = [k |-> k, h |-> h, id |-> asked', clean |-> Quiet]
        /\ Call("wait")
     \/ GoTo("idle") /\ UNCHANGED <<asked, todo, call>>
  /\ UNCHANGED <<_mode, _dhcp, link, air, begun, dropped, faultVars>>

\* Slip: what the last answer left in _resolve is kept.
HostByNameKeeps(h) ==
  /\ pc = "idle"
  /\ Ask("dns", h)
  /\ UNCHANGED <<_resolve, from, _status, gu8scanInProgress, tmp, overwritten>>

HostByName(h) ==
  /\ pc = "idle"
  /\ _resolve' = 0 /\ from' = 0
  /\ Ask("dns", h)
  /\ UNCHANGED <<_status, gu8scanInProgress, tmp, overwritten>>

Ping(h) ==
  /\ pc = "idle"
  /\ _resolve' = h /\ from' = 0
  /\ Ask("ping", h)
  /\ UNCHANGED <<_status, gu8scanInProgress, tmp, overwritten>>

\* RSSI() handles what is pending before it asks, as status() and refresh() do.
Refresh(p) == pc = "idle" /\ Call(p) /\ UNCHANGED wifiVars

RssiAsks ==
  /\ pc = "rssi"
  /\ _resolve' = 0 /\ from' = 0
  /\ Ask("rssi", 0)
  /\ UNCHANGED <<_status, gu8scanInProgress, tmp, overwritten>>

\* scanNetworks()
ScanNetworks ==
  /\ pc = "idle" /\ ~gu8scanInProgress
  /\ Ask("scan", 0)
  /\ IF pc' = "events"
     THEN gu8scanInProgress' = TRUE /\ tmp' = _status /\ _status' = IDLE
     ELSE UNCHANGED <<gu8scanInProgress, tmp, _status>>
  /\ UNCHANGED <<_resolve, from, overwritten>>

\* SSID(), RSSI() and encryptionType() of a position in the list
ScanResult ==
  /\ pc = "idle"
  /\ Ask("ap", 0)
  /\ IF pc' = "events" THEN tmp' = _status /\ _status' = IDLE ELSE UNCHANGED <<tmp, _status>>
  /\ UNCHANGED <<_resolve, gu8scanInProgress, from, overwritten>>

\* begin(), as long as main() calls it
Begin ==
  /\ pc = "idle" /\ _status # CONNECTED
  /\ begun < MaxBegins /\ begun' = begun + 1
  /\ \/ /\ link' = "joining"
        /\ _status' = IDLE /\ _mode' = "sta"
        /\ call' = [NoCall EXCEPT !.k = "begin"]
        /\ Call("wait")
     \/ _status' = CONNECT_FAILED /\ UNCHANGED <<link, _mode, call, pc, ret>>
  /\ UNCHANGED <<_dhcp, _resolve, gu8scanInProgress, tmp, todo, air, histVars, asked, dropped,
                 faultVars>>

Waiting ==
  CASE call.k = "begin" -> ~Overlap(_status, CONNECTED) /\ ~Overlap(_status, DISCONNECTED)
    [] call.k \in {"scan", "ap"} -> ~Overlap(_status, SCAN_COMPLETED)
    [] call.k = "ping" -> _resolve = call.h
    [] OTHER -> _resolve = 0

\* Slip: a scan leaves its own status behind.
FinishKeeps ==
  /\ GoTo("idle") /\ call' = NoCall /\ tmp' = IDLE
  /\ _mode' = IF call.k = "begin" /\ ~Overlap(_status, CONNECTED) THEN "reset" ELSE _mode
  /\ UNCHANGED _status

\* What a method does after its wait
Finish ==
  /\ GoTo("idle") /\ call' = NoCall /\ tmp' = IDLE
  /\ _status' = IF call.k \in {"scan", "ap"} THEN tmp ELSE _status
  /\ _mode' = IF call.k = "begin" /\ ~Overlap(_status, CONNECTED) THEN "reset" ELSE _mode

WaitOn == pc = "wait" /\ Waiting /\ Call("wait") /\ UNCHANGED wifiVars

Answered ==
  /\ pc = "wait" /\ ~Waiting /\ Finish
  /\ UNCHANGED <<_dhcp, _resolve, gu8scanInProgress, airVars, histVars, boundVars, faultVars>>

TimedOut ==
  /\ pc = "wait" /\ Waiting /\ Finish
  /\ UNCHANGED <<_dhcp, _resolve, gu8scanInProgress, airVars, histVars, boundVars, faultVars>>

-----------------------------------------------------------------------------
(* The chip's firmware, as the code of the host relies on it.                *)

Tell(k, id, h, v) ==
  Len(air) < MaxAir /\ air' = Append(air, [k |-> k, id |-> id, h |-> h, v |-> v])

ChipUnchanged == UNCHANGED <<objVars, _dhcp, pc, ret, histVars, asked, begun, faultVars>>

\* A request is answered, in any order.
ChipAnswers ==
  /\ \E r \in todo :
       /\ todo' = todo \ {r}
       /\ \/ r.k = "dns" /\ \E v \in {0, r.h} : Tell("dns", r.id, 0, v)
          \/ r.k = "ping" /\ \E v \in {PING_SUCCESS, PING_UNREACHABLE, PING_TIMEOUT} :
                               Tell("ping", r.id, r.h, v)
          \/ r.k \in {"rssi", "ap"} /\ Tell(r.k, r.id, 0, Rssi)
          \/ r.k = "scan" /\ \E v \in {0, 1} : Tell("scan", r.id, 0, v)
  /\ ChipUnchanged /\ UNCHANGED <<link, dropped>>

ChipJoins ==
  /\ \/ link = "joining" /\ link' = (IF _dhcp THEN "dhcp" ELSE "up") /\ Tell("connected", 0, 0, 0)
     \/ link = "joining" /\ link' = "down" /\ Tell("disconnected", 0, 0, 0)
     \/ link = "dhcp" /\ link' = "up" /\ Tell("dhcp", 0, 0, 0)
  /\ ChipUnchanged /\ UNCHANGED <<todo, dropped>>

\* The access point is lost.
ChipDrops ==
  /\ link \in {"dhcp", "up"} /\ link' = "down" /\ Tell("disconnected", 0, 0, 0)
  /\ dropped < MaxDrops /\ dropped' = dropped + 1
  /\ ChipUnchanged /\ UNCHANGED todo

\* disconnect(); what it does with no link changes nothing here.
Disconnect == pc = "idle" /\ ChipDrops

-----------------------------------------------------------------------------
Callback == CbConnected \/ CbDisconnected \/ CbScan \/ CbValue \/ CbPing

Method == RssiAsks \/ WaitOn \/ Answered \/ TimedOut

App ==
  \/ \E h \in Hosts : HostByName(h) \/ Ping(h)
  \/ Refresh("idle") \/ Refresh("rssi")
  \/ ScanNetworks \/ ScanResult \/ Begin \/ Disconnect

Chip == ChipAnswers \/ ChipJoins \/ ChipDrops

Next == EventsReturn \/ Callback \/ Unread \/ Method \/ App \/ Chip

Spec == Init /\ [][Next]_vars

-----------------------------------------------------------------------------
(* Properties.                                                               *)

Values == {Rssi, 0, PING_UNREACHABLE, PING_TIMEOUT} \union Hosts
Messages == [k : Kinds \union {"connected", "disconnected", "dhcp"}, id : 0..MaxRequests,
             h : Hosts \union {0}, v : Values]

WiFiTypes ==
  /\ _mode \in {"reset", "sta"} /\ {_status, tmp} \subseteq Statuses
  /\ _dhcp \in BOOLEAN /\ _resolve \in Values /\ gu8scanInProgress \in BOOLEAN
  /\ call \in [k : Kinds \union {"none", "begin"}, h : Hosts \union {0},
               id : 0..MaxRequests, clean : BOOLEAN]
  /\ todo \subseteq [k : Kinds, h : Hosts \union {0}, id : 1..MaxRequests]
  /\ link \in {"down", "joining", "dhcp", "up"} /\ air \in Seq(Messages)
  /\ from \in 0..MaxRequests /\ {overwritten, unheard} \subseteq BOOLEAN
  /\ asked \in 0..MaxRequests /\ begun \in 0..MaxBegins /\ dropped \in 0..MaxDrops
  /\ faults \in 0..MaxFaults

\* What hostByName(), ping() and RSSI() return but for "none"
Value == IF call.k = "ping" /\ _resolve = call.h THEN PING_TIMEOUT ELSE _resolve

\* hostByName(), ping() and RSSI() return the answer to their own request and not
\* the one to an earlier, when none was outstanding as they asked: an address is the
\* host's that was asked for, a signal strength is measured after the call, and a
\* ping's result is that ping's.  (With a late answer under way it may be any.)
OwnAnswer ==
  [][ /\ pc = "wait" /\ pc' = "idle" /\ call.clean /\ call.k \in {"dns", "ping", "rssi"}
      /\ Value # (IF call.k = "ping" THEN PING_TIMEOUT ELSE 0)
      => from = call.id /\ (call.k = "dns" => Value = call.h) ]_vars

\* When all that the chip has to say of the link is handled, status() is
\* CONNECTED just if the link is up: through begin() that times out or is ended by an
\* event of an earlier attempt, through scans, and through messages that are lost on
\* the way.  Not if the one that is lost was the link's last, until it has another;
\* nor if an event of the link has come while a scan had _status for itself, or a
\* scan's answer after its end.
StatusTrue ==
  /\ pc = "idle" /\ ~overwritten /\ ~unheard /\ _mode = "sta" /\ link \in {"up", "down"}
  /\ \A i \in DOMAIN air : air[i].k \in Kinds
  => (_status = CONNECTED <=> link = "up")
=============================================================================
