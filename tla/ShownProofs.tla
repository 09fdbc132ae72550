----------------------------- MODULE ShownProofs -----------------------------
(***************************************************************************)
(* What players are shown of a room, for any number of players, rooms and  *)
(* hosts, any intervals, delays and losses: the endpoint of the host       *)
(* (HolePunch), the players the dialog names (RoomPage) and the row of the *)
(* room in the clients' tables (RoomRow).                                  *)
(***************************************************************************)
EXTENDS HolePunch, RoomPage, RoomRow, LobbyStoreProofs, SequenceTheorems, TLAPS

----------------------------------------------------------------------------
(* Hole punching: the endpoint a joiner is given is recent, and a host     *)
(* that pings is reached.                                                  *)
(*                                                                         *)
(* Both arguments bound the age of a record from two sides: by when its    *)
(* packet was sent (the host had the endpoint then) and by when the next   *)
(* packet of the host is due (it replaces the record or is not heard).     *)


(* Pings are apart, packets take some time.                                *)
Timing == KeepAlive \in Nat \ {0} /\ MaxDelay \in Nat

(* A packet is no longer under way than half an interval, the margin that  *)
(* ServeUDP gives the time to live.                                        *)
Prompt == MaxDelay <= KeepAlive \div 2

(* The records a packet can leave.                                         *)
Record == [addr : {1, 2}, expiresAt : Nat \ {0}]

TypeOK ==
    /\ now \in Nat \ {0}
    /\ endpoint \in [Hosts -> {1, 2}]
    /\ held \in [Hosts -> [1 .. 2 -> Nat]]
    /\ nextPing \in [Hosts -> Nat]
    /\ records \in [Hosts -> Record \cup {None}]
    /\ joins \in [Hosts -> [addr : {0, 1, 2}, at : Nat, hit : BOOLEAN]]
    /\ \A h \in Hosts : joins[h].hit => joins[h].addr # 0
    /\ heard \in [Hosts -> BOOLEAN]

(* A host that has not gone pings in time, and its endpoint is in use.     *)
HostsOK ==
    \A h \in Hosts : nextPing[h] # 0 =>
        /\ now <= nextPing[h] /\ nextPing[h] <= now + KeepAlive
        /\ held[h][endpoint[h]] = now

(* A packet arrives by its deadline, sent from an endpoint the host had.   *)
PacketOK(p) ==
    /\ p.host \in Hosts /\ p.addr \in {1, 2} /\ p.deadline \in Nat
    /\ now <= p.deadline
    /\ p.deadline <= held[p.host][p.addr] + MaxDelay

WireOK == \A p \in wire : PacketOK(p)

(* A record outlives the host's use of the endpoint by a packet's way and  *)
(* the time to live at most.                                               *)
RecordsOK ==
    \A h \in Hosts : records[h] # None =>
        records[h].expiresAt <= held[h][records[h].addr] + MaxDelay + TTL

(* The history is of the past.                                             *)
Ages == \A h \in Hosts : \A e \in {1, 2} : held[h][e] <= now

Recent == TypeOK /\ HostsOK /\ Ages /\ WireOK /\ RecordsOK /\ EndpointRecent

----------------------------------------------------------------------------
(* A packet of h that was sent by x + KeepAlive is under way or still to   *)
(* come.                                                                   *)
Due(h, x) ==
    \/ nextPing[h] <= x + KeepAlive
    \/ \E p \in wire : p.host = h /\ p.deadline <= x + KeepAlive + MaxDelay

(* No packet overtakes the next one.                                       *)
LatestOnly ==
    \A p \in wire : nextPing[p.host] # 0 =>
        p.deadline = nextPing[p.host] + MaxDelay - KeepAlive

(* The record of a host that was heard last time is due for renewal before *)
(* it expires, and before its endpoint has been out of use for an interval *)
(* and a packet's way.                                                     *)
Renewed ==
    \A h \in Hosts : heard[h] /\ nextPing[h] # 0 =>
        /\ records[h] # None
        /\ Due(h, records[h].expiresAt - TTL)
        /\ Due(h, held[h][records[h].addr])

Reach == LatestOnly /\ Renewed

----------------------------------------------------------------------------
(* What the steps have in common.                                          *)

LEMMA TTLFacts ==
    ASSUME Timing
    PROVE  /\ TTL \in Nat \ {0}
           /\ Prompt => KeepAlive + MaxDelay <= TTL
BY DEF Timing, Prompt, TTL

(* The history only grows, so what bounds a record or a join keeps doing   *)
(* so.                                                                     *)
HeldGrows == \A h \in Hosts : \A e \in {1, 2} : held[h][e] <= held'[h][e]

LEMMA BoundsStay ==
    ASSUME Timing, Recent, TypeOK', HeldGrows
    PROVE  /\ records' = records => RecordsOK'
           /\ joins' = joins => EndpointRecent'
<1>1. TTL \in Nat /\ MaxDelay \in Nat
  BY TTLFacts DEF Timing
<1>2. ASSUME records' = records, NEW h \in Hosts, records[h] # None
      PROVE  records[h].expiresAt <= held'[h][records[h].addr] + MaxDelay + TTL
  <2>1. records[h].addr \in {1, 2} /\ records[h].expiresAt \in Nat
    BY <1>2 DEF Recent, TypeOK, Record
  <2>2. /\ held[h][records[h].addr] <= held'[h][records[h].addr]
        /\ held[h][records[h].addr] \in Nat /\ held'[h][records[h].addr] \in Nat
    BY <2>1 DEF HeldGrows, Recent, TypeOK
  <2>3. records[h].expiresAt <= held[h][records[h].addr] + MaxDelay + TTL
    BY <1>2 DEF Recent, RecordsOK
  <2> QED
    BY <1>1, <2>1, <2>2, <2>3
<1>3. ASSUME joins' = joins, NEW h \in Hosts, joins[h].hit
      PROVE  held'[h][joins[h].addr] + TTL + MaxDelay >= joins[h].at
  <2>1. joins[h].addr \in {1, 2} /\ joins[h].at \in Nat
    BY <1>3 DEF Recent, TypeOK
  <2>2. /\ held[h][joins[h].addr] <= held'[h][joins[h].addr]
        /\ held[h][joins[h].addr] \in Nat /\ held'[h][joins[h].addr] \in Nat
    BY <2>1 DEF HeldGrows, Recent, TypeOK
  <2>3. held[h][joins[h].addr] + TTL + MaxDelay >= joins[h].at
    BY <1>3 DEF Recent, EndpointRecent
  <2> QED
    BY <1>1, <2>1, <2>2, <2>3
<1>4. TTL' = TTL
  BY DEF TTL
<1> QED
  BY <1>2, <1>3, <1>4 DEF RecordsOK, EndpointRecent

(* A packet that stays under way stays in time.                            *)
LEMMA PacketStays ==
    ASSUME Timing, Recent, TypeOK', HeldGrows, NEW p, p \in wire,
           (now' = now) \/ (now' = now + 1 /\ now < p.deadline)
    PROVE  /\ p.host \in Hosts /\ p.addr \in {1, 2} /\ p.deadline \in Nat
           /\ now' <= p.deadline
           /\ p.deadline <= held'[p.host][p.addr] + MaxDelay
<1>1. PacketOK(p)
  BY DEF Recent, WireOK
<1>2. p.host \in Hosts /\ p.addr \in {1, 2} /\ p.deadline \in Nat
  BY <1>1 DEF PacketOK
<1>3. /\ held[p.host][p.addr] <= held'[p.host][p.addr]
      /\ held[p.host][p.addr] \in Nat /\ held'[p.host][p.addr] \in Nat
  BY <1>2 DEF HeldGrows, Recent, TypeOK
<1>4. now' <= p.deadline
  BY <1>1, <1>2 DEF PacketOK, Recent, TypeOK
<1>5. p.deadline <= held'[p.host][p.addr] + MaxDelay
  BY <1>1, <1>2, <1>3 DEF PacketOK, Timing
<1> QED
  BY <1>2, <1>4, <1>5

----------------------------------------------------------------------------
(* Recent                                                                  *)

LEMMA InitRecent ==
    ASSUME Timing, Init
    PROVE  Recent
<1>1. TypeOK
  <2>1. /\ now \in Nat \ {0} /\ endpoint \in [Hosts -> {1, 2}]
        /\ nextPing \in [Hosts -> Nat]
    BY DEF Init
  <2>2. held \in [Hosts -> [1 .. 2 -> Nat]]
    BY DEF Init
  <2>3. records \in [Hosts -> Record \cup {None}] /\ heard \in [Hosts -> BOOLEAN]
    BY DEF Init
  <2>4. /\ joins \in [Hosts -> [addr : {0, 1, 2}, at : Nat, hit : BOOLEAN]]
        /\ \A h \in Hosts : ~ joins[h].hit
    BY DEF Init
  <2> QED
    BY <2>1, <2>2, <2>3, <2>4 DEF TypeOK
<1>2. HostsOK
  BY DEF Init, HostsOK, Timing
<1>a. Ages
  BY DEF Init, Ages
<1>3. WireOK /\ RecordsOK /\ EndpointRecent
  BY DEF Init, WireOK, RecordsOK, EndpointRecent
<1> QED
  BY <1>1, <1>2, <1>a, <1>3 DEF Recent

LEMMA PingRecent ==
    ASSUME Timing, Recent, NEW h \in Hosts, NEW kind, Ping(h, kind)
    PROVE  Recent'
<1>1. /\ nextPing[h] = now /\ nextPing' = [nextPing EXCEPT ![h] = now + KeepAlive]
      /\ UNCHANGED <<now, endpoint, held, lost, records, heard, joins>>
  BY DEF Ping
<1> DEFINE q == [host |-> h, addr |-> endpoint[h], kind |-> kind,
                 deadline |-> now + MaxDelay]
<1>2. /\ wire' = wire \cup {q} /\ q.host = h /\ q.addr = endpoint[h]
      /\ q.deadline = now + MaxDelay
  BY DEF Ping
<1> HIDE DEF q
<1>3. TypeOK'
  <2>1. nextPing' \in [Hosts -> Nat]
    BY <1>1 DEF Recent, TypeOK, Timing
  <2> QED
    BY <1>1, <2>1 DEF Recent, TypeOK
<1>4. HeldGrows
  BY <1>1 DEF HeldGrows, Recent, TypeOK
<1>5. HostsOK' /\ Ages'
  BY <1>1 DEF HostsOK, Ages, Recent, TypeOK, Timing
<1>6. /\ q.host \in Hosts /\ q.addr \in {1, 2} /\ q.deadline \in Nat
      /\ now' <= q.deadline /\ q.deadline <= held'[q.host][q.addr] + MaxDelay
  <2>1. held[h][endpoint[h]] = now
    BY <1>1 DEF Recent, HostsOK, TypeOK
  <2> QED
    BY <1>1, <1>2, <2>1 DEF PacketOK, Recent, TypeOK, Timing
<1>7. WireOK'
  <2>1. ASSUME NEW x \in wire'
        PROVE  /\ x.host \in Hosts /\ x.addr \in {1, 2} /\ x.deadline \in Nat
               /\ now' <= x.deadline
               /\ x.deadline <= held'[x.host][x.addr] + MaxDelay
    BY <1>1, <1>2, <1>3, <1>4, <1>6, PacketStays
  <2> QED
    BY <2>1 DEF WireOK, PacketOK
<1> QED
  BY <1>1, <1>3, <1>4, <1>5, <1>7, BoundsStay DEF Recent

LEMMA ReceiveRecent ==
    ASSUME Timing, Recent, NEW p \in wire, Receive(p)
    PROVE  Recent'
<1>1. /\ wire' = wire \ {p}
      /\ UNCHANGED <<now, endpoint, held, nextPing, lost, joins>>
  BY DEF Receive
<1>2. PacketOK(p)
  BY DEF Recent, WireOK
<1>3. p.host \in Hosts /\ p.addr \in {1, 2} /\ p.deadline \in Nat
  BY <1>2 DEF PacketOK
<1>4. SetPX(p.addr) = [addr |-> p.addr, expiresAt |-> now + TTL]
  BY TTLFacts DEF SetPX
<1>5. SetPX(p.addr) \in Record
  BY <1>3, <1>4, TTLFacts DEF Record, Recent, TypeOK
<1>6. \/ records' = records
      \/ records' = [records EXCEPT ![p.host] = SetPX(p.addr)]
  BY DEF Receive
<1>7. TypeOK'
  <2>1. records' \in [Hosts -> Record \cup {None}]
    BY <1>5, <1>6 DEF Recent, TypeOK
  <2>2. heard' \in [Hosts -> BOOLEAN]
    BY DEF Receive, Recent, TypeOK
  <2> QED
    BY <1>1, <2>1, <2>2 DEF Recent, TypeOK
<1>8. HeldGrows
  BY <1>1 DEF HeldGrows, Recent, TypeOK
<1>9. HostsOK' /\ Ages' /\ EndpointRecent'
  BY <1>1, <1>7, <1>8, BoundsStay DEF HostsOK, Ages, Recent
<1>10. WireOK'
  <2>1. ASSUME NEW x \in wire'
        PROVE  /\ x.host \in Hosts /\ x.addr \in {1, 2} /\ x.deadline \in Nat
               /\ now' <= x.deadline
               /\ x.deadline <= held'[x.host][x.addr] + MaxDelay
    BY <1>1, <1>7, <1>8, PacketStays
  <2> QED
    BY <2>1 DEF WireOK, PacketOK
<1>11. RecordsOK'
  <2>1. CASE records' = records
    BY <1>7, <1>8, <2>1, BoundsStay
  <2>2. CASE records' = [records EXCEPT ![p.host] = SetPX(p.addr)]
    <3>1. now <= held[p.host][p.addr] + MaxDelay
      <4>1. held[p.host][p.addr] \in Nat /\ now \in Nat
        BY <1>3 DEF Recent, TypeOK
      <4> QED
        BY <1>2, <1>3, <4>1 DEF PacketOK, Timing
    <3>2. ASSUME NEW h \in Hosts, records'[h] # None
          PROVE  records'[h].expiresAt <= held[h][records'[h].addr] + MaxDelay + TTL
      <4>1. CASE h = p.host
        <5>1. records'[h] = [addr |-> p.addr, expiresAt |-> now + TTL]
          BY <1>3, <1>4, <2>2, <4>1 DEF Recent, TypeOK
        <5>2. held[p.host][p.addr] \in Nat /\ now \in Nat
          BY <1>3 DEF Recent, TypeOK
        <5> QED
          BY <3>1, <4>1, <5>1, <5>2, TTLFacts DEF Timing
      <4>2. CASE h # p.host
        <5>1. records'[h] = records[h]
          BY <2>2, <4>2 DEF Recent, TypeOK
        <5> QED
          BY <3>2, <5>1 DEF Recent, RecordsOK
      <4> QED
        BY <4>1, <4>2
    <3>3. TTL' = TTL
      BY DEF TTL
    <3> QED
      BY <1>1, <3>2, <3>3 DEF RecordsOK
  <2> QED
    BY <1>6, <2>1, <2>2
<1> QED
  BY <1>7, <1>9, <1>10, <1>11 DEF Recent

LEMMA LoseRecent ==
    ASSUME Timing, Recent, NEW p \in wire, Lose(p)
    PROVE  Recent'
<1>1. /\ wire' = wire \ {p}
      /\ UNCHANGED <<now, endpoint, held, nextPing, records, joins>>
  BY DEF Lose
<1>2. TypeOK'
  <2>1. heard' \in [Hosts -> BOOLEAN]
    BY DEF Lose, Recent, TypeOK
  <2> QED
    BY <1>1, <2>1 DEF Recent, TypeOK
<1>3. HeldGrows
  BY <1>1 DEF HeldGrows, Recent, TypeOK
<1>4. HostsOK' /\ Ages'
  BY <1>1 DEF HostsOK, Ages, Recent
<1>5. WireOK'
  <2>1. ASSUME NEW x \in wire'
        PROVE  /\ x.host \in Hosts /\ x.addr \in {1, 2} /\ x.deadline \in Nat
               /\ now' <= x.deadline
               /\ x.deadline <= held'[x.host][x.addr] + MaxDelay
    <3>1. x \in wire /\ now' = now
      BY <1>1, <2>1
    <3> QED
      BY <1>2, <1>3, <3>1, PacketStays
  <2> QED
    BY <2>1 DEF WireOK, PacketOK
<1> QED
  BY <1>1, <1>2, <1>3, <1>4, <1>5, BoundsStay DEF Recent

LEMMA RebindHeld ==
    ASSUME Recent, NEW h \in Hosts, Rebind(h)
    PROVE  /\ held' \in [Hosts -> [1 .. 2 -> Nat]]
           /\ endpoint' \in [Hosts -> {1, 2}]
           /\ endpoint'[h] = 3 - endpoint[h] /\ held'[h][endpoint'[h]] = now
           /\ \A e \in {1, 2} : held'[h][e] \in {held[h][e], now}
           /\ \A g \in Hosts \ {h} : endpoint'[g] = endpoint[g] /\ held'[g] = held[g]
<1>1. endpoint[h] \in {1, 2} /\ 3 - endpoint[h] \in 1 .. 2 /\ now \in Nat
  BY DEF Recent, TypeOK
<1>2. held' = [held EXCEPT ![h] = [held[h] EXCEPT ![3 - endpoint[h]] = now]]
  BY DEF Rebind
<1>3. /\ endpoint' = [endpoint EXCEPT ![h] = 3 - endpoint[h]]
  BY DEF Rebind
<1>4. [held[h] EXCEPT ![3 - endpoint[h]] = now] \in [1 .. 2 -> Nat]
  BY <1>1 DEF Recent, TypeOK
<1>5. endpoint' \in [Hosts -> {1, 2}] /\ held' \in [Hosts -> [1 .. 2 -> Nat]]
  BY <1>1, <1>2, <1>3, <1>4 DEF Recent, TypeOK
<1>6. endpoint'[h] = 3 - endpoint[h] /\ held'[h] = [held[h] EXCEPT ![3 - endpoint[h]] = now]
  BY <1>2, <1>3 DEF Recent, TypeOK
<1>7. held'[h][endpoint'[h]] = now
  BY <1>1, <1>6 DEF Recent, TypeOK
<1>8. \A e \in {1, 2} : held'[h][e] \in {held[h][e], now}
  BY <1>1, <1>6 DEF Recent, TypeOK
<1>9. \A g \in Hosts \ {h} : endpoint'[g] = endpoint[g] /\ held'[g] = held[g]
  BY <1>2, <1>3 DEF Recent, TypeOK
<1> QED
  BY <1>5, <1>6, <1>7, <1>8, <1>9

LEMMA RebindRecent ==
    ASSUME Timing, Recent, NEW h \in Hosts, Rebind(h)
    PROVE  Recent' /\ HeldGrows
<1>1. /\ nextPing[h] # 0
      /\ UNCHANGED <<now, nextPing, wire, lost, records, heard, joins>>
  BY DEF Rebind
<1>2. TypeOK'
  BY <1>1, RebindHeld DEF Recent, TypeOK
<1>3. HeldGrows
  <2>1. \A g \in Hosts : \A e \in {1, 2} : held[g][e] \in Nat
    BY DEF Recent, TypeOK
  <2>2. \A e \in {1, 2} : held[h][e] <= now
    BY DEF Recent, Ages
  <2>3. now \in Nat
    BY DEF Recent, TypeOK
  <2> QED
    BY <2>1, <2>2, <2>3, RebindHeld DEF HeldGrows
<1>4. HostsOK'
  BY <1>1, RebindHeld DEF HostsOK, Recent
<1>5. Ages'
  <2>1. \A g \in Hosts : \A e \in {1, 2} : held[g][e] <= now
    BY DEF Recent, Ages
  <2>2. now \in Nat
    BY DEF Recent, TypeOK
  <2> QED
    BY <1>1, <2>1, <2>2, RebindHeld DEF Ages
<1>6. WireOK'
  <2>1. ASSUME NEW x \in wire'
        PROVE  /\ x.host \in Hosts /\ x.addr \in {1, 2} /\ x.deadline \in Nat
               /\ now' <= x.deadline
               /\ x.deadline <= held'[x.host][x.addr] + MaxDelay
    <3>1. x \in wire /\ now' = now
      BY <1>1, <2>1
    <3> QED
      BY <1>2, <1>3, <3>1, PacketStays
  <2> QED
    BY <2>1 DEF WireOK, PacketOK
<1> QED
  BY <1>1, <1>2, <1>3, <1>4, <1>5, <1>6, BoundsStay DEF Recent

LEMMA QuitRecent ==
    ASSUME Timing, Recent, NEW h \in Hosts, Quit(h)
    PROVE  Recent'
<1>1. /\ nextPing' = [nextPing EXCEPT ![h] = 0]
      /\ UNCHANGED <<now, endpoint, held, wire, lost, records, heard, joins>>
  BY DEF Quit
<1>2. TypeOK'
  <2>1. nextPing' \in [Hosts -> Nat]
    BY <1>1 DEF Recent, TypeOK
  <2> QED
    BY <1>1, <2>1 DEF Recent, TypeOK
<1>3. HeldGrows
  BY <1>1 DEF HeldGrows, Recent, TypeOK
<1>4. HostsOK'
  BY <1>1 DEF HostsOK, Recent, TypeOK
<1>5. WireOK' /\ Ages'
  BY <1>1 DEF WireOK, PacketOK, Ages, Recent
<1> QED
  BY <1>1, <1>2, <1>3, <1>4, <1>5, BoundsStay DEF Recent

(* A record that is found has been refreshed in time.                      *)
LEMMA FoundInTime ==
    ASSUME Timing, Recent, NEW h \in Hosts, Found(h)
    PROVE  /\ records[h] \in Record
           /\ now <= records[h].expiresAt
           /\ held[h][records[h].addr] + TTL + MaxDelay >= now
<1>1. records[h] \in Record /\ records[h] # None /\ ~ Expired(records[h])
  BY DEF Found, Recent, TypeOK
<1>2. records[h].expiresAt \in Nat \ {0} /\ records[h].addr \in {1, 2} /\ now \in Nat
  BY <1>1 DEF Record, Recent, TypeOK
<1>3. now <= records[h].expiresAt
  BY <1>1, <1>2 DEF Expired
<1>4. held[h][records[h].addr] \in Nat
  BY <1>2 DEF Recent, TypeOK
<1>5. records[h].expiresAt <= held[h][records[h].addr] + MaxDelay + TTL
  BY <1>1 DEF Recent, RecordsOK
<1> QED
  BY <1>1, <1>2, <1>3, <1>4, <1>5, TTLFacts DEF Timing

LEMMA JoinRecent ==
    ASSUME Timing, Recent, NEW h \in Hosts, Join(h)
    PROVE  Recent'
<1>1. /\ joins' = [joins EXCEPT ![h] = [addr |-> Endpoint(h), at |-> now, hit |-> Found(h)]]
      /\ records' = [records EXCEPT ![h] = IF Found(h) THEN records[h] ELSE None]
      /\ UNCHANGED <<now, endpoint, held, nextPing, wire, lost, heard>>
  BY DEF Join
<1>2. /\ Found(h) \in BOOLEAN
      /\ Endpoint(h) \in {0, 1, 2} /\ (Found(h) => Endpoint(h) # 0)
  <2>1. Found(h) \in BOOLEAN
    BY DEF Found
  <2>2. Found(h) => records[h].addr \in {1, 2}
    BY FoundInTime DEF Record
  <2> QED
    BY <2>1, <2>2 DEF Endpoint
<1>3. /\ records'[h] \in {records[h], None} /\ \A g \in Hosts \ {h} : records'[g] = records[g]
      /\ records' \in [Hosts -> Record \cup {None}]
  BY <1>1 DEF Recent, TypeOK
<1>4. /\ joins'[h] = [addr |-> Endpoint(h), at |-> now, hit |-> Found(h)]
      /\ \A g \in Hosts \ {h} : joins'[g] = joins[g]
  BY <1>1 DEF Recent, TypeOK
<1>5. TypeOK'
  <2>1. [addr |-> Endpoint(h), at |-> now, hit |-> Found(h)]
            \in [addr : {0, 1, 2}, at : Nat, hit : BOOLEAN]
    BY <1>2 DEF Recent, TypeOK
  <2>2. joins' \in [Hosts -> [addr : {0, 1, 2}, at : Nat, hit : BOOLEAN]]
    BY <1>1, <2>1 DEF Recent, TypeOK
  <2>3. \A g \in Hosts : joins'[g].hit => joins'[g].addr # 0
    BY <1>2, <1>4, SMTT(30) DEF Recent, TypeOK
  <2> QED
    BY <1>1, <1>3, <2>2, <2>3 DEF Recent, TypeOK
<1>6. HostsOK' /\ Ages'
  BY <1>1 DEF HostsOK, Ages, Recent
<1>7. WireOK'
  BY <1>1 DEF WireOK, PacketOK, Recent
<1>8. RecordsOK'
  BY <1>1, <1>3 DEF RecordsOK, Recent, TTL
<1>9. EndpointRecent'
  <2>1. Found(h) => held[h][Endpoint(h)] + TTL + MaxDelay >= now
    BY FoundInTime DEF Endpoint
  <2>2. ASSUME NEW g \in Hosts, joins'[g].hit
        PROVE  held[g][joins'[g].addr] + TTL + MaxDelay >= joins'[g].at
    <3>1. CASE g = h
      BY <1>4, <2>1, <2>2, <3>1
    <3>2. CASE g # h
      BY <1>4, <2>2, <3>2 DEF Recent, EndpointRecent
    <3> QED
      BY <3>1, <3>2
  <2>3. TTL' = TTL
    BY DEF TTL
  <2> QED
    BY <1>1, <2>2, <2>3 DEF EndpointRecent
<1> QED
  BY <1>5, <1>6, <1>7, <1>8, <1>9 DEF Recent

LEMMA TickRecent ==
    ASSUME Timing, Recent, Tick
    PROVE  Recent' /\ HeldGrows
<1>1. /\ \A p \in wire : now < p.deadline
      /\ \A h \in Hosts : nextPing[h] # now
      /\ now' = now + 1 /\ now \in Nat
      /\ UNCHANGED <<endpoint, nextPing, wire, lost, records, heard, joins>>
  BY DEF Tick, Recent, TypeOK
<1>2. \A h \in Hosts :
          held'[h] = IF nextPing[h] = 0 THEN held[h]
                     ELSE [held[h] EXCEPT ![endpoint[h]] = now + 1]
  BY DEF Tick
<1>3. ASSUME NEW h \in Hosts
      PROVE  /\ held'[h] \in [1 .. 2 -> Nat]
             /\ \A e \in {1, 2} : held'[h][e] \in {held[h][e], now + 1}
             /\ nextPing[h] # 0 => held'[h][endpoint[h]] = now + 1
  <2>1. held[h] \in [1 .. 2 -> Nat] /\ endpoint[h] \in 1 .. 2
    BY DEF Recent, TypeOK
  <2>2. CASE nextPing[h] = 0
    <3>1. held'[h] = held[h]
      BY <1>2, <2>2
    <3> QED
      BY <2>1, <2>2, <3>1
  <2>3. CASE nextPing[h] # 0
    <3>1. held'[h] = [held[h] EXCEPT ![endpoint[h]] = now + 1] /\ now + 1 \in Nat
      BY <1>1, <1>2, <2>3
    <3> QED
      BY <2>1, <3>1
  <2> QED
    BY <2>2, <2>3
<1>4. held' \in [Hosts -> [1 .. 2 -> Nat]]
  <2>1. held' = [h \in Hosts |-> held'[h]]
    BY DEF Tick
  <2> QED
    BY <1>3, <2>1
<1>5. TypeOK'
  BY <1>1, <1>4 DEF Recent, TypeOK
<1>6. \A h \in Hosts : \A e \in {1, 2} : held[h][e] \in Nat /\ held[h][e] <= now
  BY DEF Recent, TypeOK, Ages
<1>7. HeldGrows
  BY <1>1, <1>3, <1>6 DEF HeldGrows
<1>8. Ages'
  BY <1>1, <1>3, <1>6 DEF Ages
<1>9. HostsOK'
  <2>1. ASSUME NEW h \in Hosts, nextPing[h] # 0
        PROVE  now + 1 <= nextPing[h] /\ nextPing[h] <= now + 1 + KeepAlive
    <3>1. now <= nextPing[h] /\ nextPing[h] <= now + KeepAlive
      BY <2>1 DEF Recent, HostsOK
    <3>2. nextPing[h] \in Nat /\ nextPing[h] # now
      BY <1>1 DEF Recent, TypeOK
    <3> QED
      BY <1>1, <3>1, <3>2 DEF Timing
  <2> QED
    BY <1>1, <1>3, <2>1 DEF HostsOK
<1>10. WireOK'
  <2>1. ASSUME NEW x \in wire'
        PROVE  /\ x.host \in Hosts /\ x.addr \in {1, 2} /\ x.deadline \in Nat
               /\ now' <= x.deadline
               /\ x.deadline <= held'[x.host][x.addr] + MaxDelay
    <3>1. x \in wire /\ now' = now + 1 /\ now < x.deadline
      BY <1>1, <2>1
    <3> QED
      BY <1>5, <1>7, <3>1, PacketStays
  <2> QED
    BY <2>1 DEF WireOK, PacketOK
<1> QED
  BY <1>1, <1>5, <1>7, <1>8, <1>9, <1>10, BoundsStay DEF Recent

LEMMA NextRecent ==
    ASSUME Timing, Recent, [Next]_vars
    PROVE  Recent'
<1>1. CASE UNCHANGED vars
  <2>1. TypeOK' /\ HostsOK' /\ Ages'
    BY <1>1 DEF vars, Recent, TypeOK, HostsOK, Ages
  <2>2. WireOK'
    BY <1>1 DEF vars, Recent, WireOK, PacketOK
  <2>3. RecordsOK' /\ EndpointRecent'
    BY <1>1 DEF vars, Recent, RecordsOK, EndpointRecent, TTL
  <2> QED
    BY <2>1, <2>2, <2>3 DEF Recent
<1>2. CASE \E h \in Hosts : \E kind \in Kinds : Ping(h, kind)
  BY <1>2, PingRecent
<1>3. CASE \E h \in Hosts : Rebind(h) \/ Quit(h) \/ Join(h)
  BY <1>3, RebindRecent, QuitRecent, JoinRecent
<1>4. CASE \E p \in wire : Receive(p) \/ Lose(p)
  BY <1>4, ReceiveRecent, LoseRecent
<1>5. CASE Tick
  BY <1>5, TickRecent
<1> QED
  BY <1>1, <1>2, <1>3, <1>4, <1>5 DEF Next, Stopped

----------------------------------------------------------------------------
(* Reach                                                                   *)

LEMMA DueBound ==
    ASSUME Timing, Recent, NEW h \in Hosts, nextPing[h] # 0, NEW x \in Int, Due(h, x)
    PROVE  now <= x + KeepAlive + MaxDelay
<1>1. now \in Nat /\ nextPing[h] \in Nat /\ now <= nextPing[h]
  BY DEF Recent, TypeOK, HostsOK
<1>2. CASE nextPing[h] <= x + KeepAlive
  BY <1>1, <1>2 DEF Timing
<1>3. CASE \E p \in wire : p.host = h /\ p.deadline <= x + KeepAlive + MaxDelay
  <2>1. PICK p \in wire : p.host = h /\ p.deadline <= x + KeepAlive + MaxDelay
    BY <1>3
  <2>2. p.deadline \in Nat /\ now <= p.deadline
    BY DEF Recent, WireOK, PacketOK
  <2> QED
    BY <1>1, <2>1, <2>2 DEF Timing
<1> QED
  BY <1>2, <1>3 DEF Due

LEMMA ReachShows ==
    ASSUME Timing, Prompt, Recent, Reach
    PROVE  HostReached
<1>1. ASSUME NEW h \in Hosts, heard[h], nextPing[h] # 0
      PROVE  /\ Found(h) /\ records[h].addr \in {1, 2}
             /\ held[h][records[h].addr] + KeepAlive + MaxDelay >= now
  <2>1. records[h] # None /\ records[h] \in Record
    BY <1>1 DEF Reach, Renewed, Recent, TypeOK
  <2>2. records[h].expiresAt \in Nat /\ records[h].addr \in {1, 2} /\ now \in Nat
    BY <2>1 DEF Record, Recent, TypeOK
  <2>3. TTL \in Nat /\ KeepAlive + MaxDelay <= TTL /\ KeepAlive \in Nat /\ MaxDelay \in Nat
    BY TTLFacts DEF Timing
  <2>4. records[h].expiresAt - TTL \in Int
    BY <2>2, <2>3
  <2>5. Due(h, records[h].expiresAt - TTL) /\ Due(h, held[h][records[h].addr])
    BY <1>1 DEF Reach, Renewed
  <2>6. now <= records[h].expiresAt - TTL + KeepAlive + MaxDelay
    BY <1>1, <2>4, <2>5, DueBound
  <2>7. now <= records[h].expiresAt
    BY <2>2, <2>3, <2>6
  <2>8. Found(h)
    BY <2>1, <2>2, <2>7 DEF Found, Expired
  <2>9. held[h][records[h].addr] \in Int
    BY <2>2 DEF Recent, TypeOK
  <2>10. now <= held[h][records[h].addr] + KeepAlive + MaxDelay
    BY <1>1, <2>5, <2>9, DueBound
  <2> QED
    BY <2>2, <2>3, <2>8, <2>9, <2>10
<1>2. PingingHostFound
  BY <1>1 DEF PingingHostFound
<1>3. ASSUME NEW h \in Hosts, heard[h], nextPing[h] # 0,
             held[h][3 - endpoint[h]] + KeepAlive + MaxDelay < now
      PROVE  Endpoint(h) = endpoint[h]
  <2>1. endpoint[h] \in {1, 2} /\ 3 - endpoint[h] \in {1, 2} /\ now \in Nat
    BY DEF Recent, TypeOK
  <2>2. held[h][3 - endpoint[h]] \in Nat
    BY <2>1 DEF Recent, TypeOK
  <2>3. records[h].addr # 3 - endpoint[h]
    BY <1>1, <1>3, <2>1, <2>2 DEF Timing
  <2> QED
    BY <1>1, <1>3, <2>1, <2>3 DEF Endpoint
<1>4. ReboundLearned
  BY <1>3 DEF ReboundLearned
<1> QED
  BY <1>2, <1>4 DEF HostReached

(* What is due stays due when the packets of the host stay under way.      *)
LEMMA DueStays ==
    ASSUME Timing, Recent, NEW h \in Hosts, NEW x \in Int, NEW y \in Int, x <= y,
           Due(h, x), nextPing'[h] = nextPing[h],
           \A p \in wire : p.host = h => p \in wire'
    PROVE  \/ nextPing'[h] <= y + KeepAlive
           \/ \E p \in wire' : p.host = h /\ p.deadline <= y + KeepAlive + MaxDelay
<1>1. CASE nextPing[h] <= x + KeepAlive
  BY <1>1 DEF Timing, Recent, TypeOK
<1>2. CASE \E p \in wire : p.host = h /\ p.deadline <= x + KeepAlive + MaxDelay
  <2>1. PICK p \in wire : p.host = h /\ p.deadline <= x + KeepAlive + MaxDelay
    BY <1>2
  <2>2. p.deadline \in Nat
    BY DEF Recent, WireOK, PacketOK
  <2>3. p \in wire' /\ p.deadline <= y + KeepAlive + MaxDelay
    BY <2>1, <2>2 DEF Timing
  <2> QED
    BY <2>1, <2>3
<1> QED
  BY <1>1, <1>2 DEF Due

(* Renewed, of one host after the step.                                    *)
RenewedNext(h) ==
    /\ records'[h] # None
    /\ \/ nextPing'[h] <= records'[h].expiresAt - TTL + KeepAlive
       \/ \E p \in wire' :
             /\ p.host = h
             /\ p.deadline <= records'[h].expiresAt - TTL + KeepAlive + MaxDelay
    /\ \/ nextPing'[h] <= held'[h][records'[h].addr] + KeepAlive
       \/ \E p \in wire' :
             /\ p.host = h
             /\ p.deadline <= held'[h][records'[h].addr] + KeepAlive + MaxDelay

LEMMA RenewedByHosts ==
    ASSUME \A h \in Hosts : heard'[h] /\ nextPing'[h] # 0 => RenewedNext(h)
    PROVE  Renewed'
<1>1. TTL' = TTL
  BY DEF TTL
<1> QED
  BY <1>1 DEF Renewed, Due, RenewedNext

LEMMA RenewedStays ==
    ASSUME Timing, Recent, TypeOK', HeldGrows, Reach, NEW h \in Hosts,
           heard[h], nextPing[h] # 0,
           nextPing'[h] = nextPing[h], records'[h] = records[h],
           \A p \in wire : p.host = h => p \in wire'
    PROVE  RenewedNext(h)
<1>1. /\ records[h] # None /\ Due(h, records[h].expiresAt - TTL)
      /\ Due(h, held[h][records[h].addr])
  BY DEF Reach, Renewed
<1>2. records[h].addr \in {1, 2} /\ records[h].expiresAt \in Nat /\ TTL \in Nat
  BY <1>1, TTLFacts DEF Recent, TypeOK, Record
<1>3. records[h].expiresAt - TTL \in Int
  BY <1>2
<1>4. /\ held[h][records[h].addr] \in Int /\ held'[h][records[h].addr] \in Int
      /\ held[h][records[h].addr] <= held'[h][records[h].addr]
  BY <1>2 DEF HeldGrows, Recent, TypeOK
<1>5. \/ nextPing'[h] <= records[h].expiresAt - TTL + KeepAlive
      \/ \E p \in wire' :
            p.host = h /\ p.deadline <= records[h].expiresAt - TTL + KeepAlive + MaxDelay
  BY <1>1, <1>3, DueStays
<1>6. \/ nextPing'[h] <= held'[h][records[h].addr] + KeepAlive
      \/ \E p \in wire' :
            p.host = h /\ p.deadline <= held'[h][records[h].addr] + KeepAlive + MaxDelay
  BY <1>1, <1>4, DueStays
<1> QED
  BY <1>1, <1>5, <1>6 DEF RenewedNext

LEMMA PingReach ==
    ASSUME Timing, Prompt, Recent, Reach, NEW h \in Hosts, NEW kind, Ping(h, kind)
    PROVE  Reach'
<1>1. /\ nextPing[h] = now /\ nextPing' = [nextPing EXCEPT ![h] = now + KeepAlive]
      /\ UNCHANGED <<now, endpoint, held, lost, records, heard, joins>>
  BY DEF Ping
<1> DEFINE q == [host |-> h, addr |-> endpoint[h], kind |-> kind,
                 deadline |-> now + MaxDelay]
<1>2. wire' = wire \cup {q} /\ q.host = h /\ q.deadline = now + MaxDelay
  BY DEF Ping
<1> HIDE DEF q
<1>3. /\ now \in Nat \ {0} /\ nextPing'[h] = now + KeepAlive
      /\ \A g \in Hosts \ {h} : nextPing'[g] = nextPing[g]
  BY <1>1 DEF Recent, TypeOK
<1>4. MaxDelay \in Nat /\ KeepAlive \in Nat /\ MaxDelay < KeepAlive
  BY DEF Timing, Prompt
<1>5. LatestOnly'
  <2>1. ASSUME NEW p \in wire
        PROVE  p.host # h /\ p.host \in Hosts
    <3>1. p.host \in Hosts /\ p.deadline \in Nat /\ now <= p.deadline
      BY DEF Recent, WireOK, PacketOK
    <3>2. p.host = h => p.deadline = now + MaxDelay - KeepAlive
      BY <1>1, <1>3 DEF Reach, LatestOnly
    <3> QED
      BY <1>3, <1>4, <3>1, <3>2
  <2>2. ASSUME NEW p \in wire', nextPing'[p.host] # 0
        PROVE  p.deadline = nextPing'[p.host] + MaxDelay - KeepAlive
    <3>1. CASE p = q
      BY <1>2, <1>3, <1>4, <3>1
    <3>2. CASE p \in wire
      <4>1. nextPing'[p.host] = nextPing[p.host]
        BY <1>3, <2>1, <3>2
      <4> QED
        BY <2>2, <3>2, <4>1 DEF Reach, LatestOnly
    <3> QED
      BY <1>2, <2>2, <3>1, <3>2
  <2> QED
    BY <2>2 DEF LatestOnly
<1>6. HeldGrows /\ TypeOK'
  BY <1>1, PingRecent DEF HeldGrows, Recent, TypeOK
<1>7. ASSUME NEW g \in Hosts, heard'[g], nextPing'[g] # 0
      PROVE  RenewedNext(g)
  <2>1. CASE g # h
    BY <1>1, <1>2, <1>3, <1>6, <1>7, <2>1, RenewedStays
  <2>2. CASE g = h
    <3>1. /\ records[h] # None /\ Due(h, records[h].expiresAt - TTL)
          /\ Due(h, held[h][records[h].addr])
      BY <1>1, <1>3, <1>7, <2>2 DEF Reach, Renewed
    <3>2. records[h].addr \in {1, 2} /\ records[h].expiresAt \in Nat /\ TTL \in Nat
      BY <3>1, TTLFacts DEF Recent, TypeOK, Record
    <3>3. records[h].expiresAt - TTL \in Int /\ held[h][records[h].addr] \in Int
      BY <3>2 DEF Recent, TypeOK
    <3>4. ASSUME NEW x \in Int, Due(h, x)
          PROVE  \E p \in wire' : p.host = h /\ p.deadline <= x + KeepAlive + MaxDelay
      <4>1. CASE now <= x + KeepAlive
        <5>1. q \in wire' /\ q.deadline <= x + KeepAlive + MaxDelay
          BY <1>2, <1>3, <1>4, <4>1
        <5> QED
          BY <1>2, <5>1
      <4>2. CASE \E p \in wire : p.host = h /\ p.deadline <= x + KeepAlive + MaxDelay
        BY <1>2, <4>2
      <4> QED
        BY <1>1, <3>4, <4>1, <4>2 DEF Due
    <3>5. /\ \E p \in wire' :
                p.host = h /\ p.deadline <= records[h].expiresAt - TTL + KeepAlive + MaxDelay
          /\ \E p \in wire' :
                p.host = h /\ p.deadline <= held[h][records[h].addr] + KeepAlive + MaxDelay
      BY <3>1, <3>3, <3>4
    <3> QED
      BY <1>1, <2>2, <3>1, <3>5 DEF RenewedNext
  <2> QED
    BY <2>1, <2>2
<1> QED
  BY <1>5, <1>7, RenewedByHosts DEF Reach

(* A packet leaves the wire: only its host can tell.                       *)
LEMMA ReceiveReach ==
    ASSUME Timing, Prompt, Recent, Reach, NEW p \in wire, Receive(p) \/ Lose(p)
    PROVE  Reach'
<1>1. /\ wire' = wire \ {p} /\ UNCHANGED <<now, endpoint, held, nextPing, joins>>
  BY DEF Receive, Lose
<1>2. LatestOnly'
  BY <1>1 DEF Reach, LatestOnly
<1>3. HeldGrows /\ TypeOK'
  BY <1>1, ReceiveRecent, LoseRecent DEF HeldGrows, Recent, TypeOK
<1>4. /\ p.host \in Hosts /\ p.addr \in {1, 2} /\ p.deadline \in Nat
      /\ p.deadline <= held[p.host][p.addr] + MaxDelay
  BY DEF Recent, WireOK, PacketOK
<1>5. \A g \in Hosts \ {p.host} : records'[g] = records[g] /\ heard'[g] = heard[g]
  BY DEF Receive, Lose, Recent, TypeOK
<1>6. \/ heard'[p.host] = FALSE
      \/ records'[p.host] = SetPX(p.addr)
  BY <1>4 DEF Receive, Lose, Recent, TypeOK
<1>7. ASSUME NEW g \in Hosts, heard'[g], nextPing'[g] # 0
      PROVE  RenewedNext(g)
  <2>1. CASE g # p.host
    BY <1>1, <1>3, <1>5, <1>7, <2>1, RenewedStays
  <2>2. CASE g = p.host
    <3>1. records'[g] = [addr |-> p.addr, expiresAt |-> now + TTL]
      BY <1>6, <1>7, <2>2, TTLFacts DEF SetPX
    <3>2. /\ now \in Nat /\ TTL \in Nat \ {0} /\ nextPing[g] \in Nat
          /\ held[g][p.addr] \in Nat /\ KeepAlive \in Nat /\ MaxDelay \in Nat
      BY <1>4, <2>2, TTLFacts DEF Timing, Recent, TypeOK
    <3>3. nextPing[g] <= now + KeepAlive
      BY <1>1, <1>7 DEF Recent, HostsOK
    <3>4. p.deadline = nextPing[g] + MaxDelay - KeepAlive
      BY <1>1, <1>7, <2>2 DEF Reach, LatestOnly
    <3>5. nextPing[g] <= held[g][p.addr] + KeepAlive
      BY <1>4, <2>2, <3>2, <3>4
    <3>6. records'[g] # None /\ records'[g].addr = p.addr
      BY <1>4, <3>1 DEF None
    <3>7. records'[g].expiresAt - TTL = now
      BY <3>1, <3>2
    <3> QED
      BY <1>1, <3>3, <3>5, <3>6, <3>7 DEF RenewedNext
  <2> QED
    BY <2>1, <2>2
<1> QED
  BY <1>2, <1>7, RenewedByHosts DEF Reach

(* The steps that send and take no packet.                                 *)
LEMMA OtherReach ==
    ASSUME Timing, Prompt, Recent, Reach,
           \/ \E h \in Hosts : Rebind(h) \/ Quit(h) \/ Join(h)
           \/ Tick
           \/ UNCHANGED vars
    PROVE  Reach'
<1>1. HeldGrows
  <2>1. CASE held' = held
    BY <2>1 DEF HeldGrows, Recent, TypeOK
  <2> QED
    BY <2>1, RebindRecent, TickRecent DEF Quit, Join, vars
<1>2. TypeOK'
  BY NextRecent DEF Next, Recent
<1>3. wire' = wire /\ heard' = heard
  BY DEF Rebind, Quit, Join, Tick, vars
<1>4. \A g \in Hosts : nextPing'[g] = 0 \/ nextPing'[g] = nextPing[g]
  BY DEF Rebind, Quit, Join, Tick, vars, Recent, TypeOK
<1>5. LatestOnly'
  <2>1. \A p \in wire : p.host \in Hosts
    BY DEF Recent, WireOK, PacketOK
  <2> QED
    BY <1>3, <1>4, <2>1 DEF Reach, LatestOnly
<1>6. ASSUME NEW g \in Hosts, heard[g], nextPing[g] # 0
      PROVE  records'[g] = records[g]
  <2>1. Found(g)
    BY <1>6, ReachShows DEF HostReached, PingingHostFound
  <2> QED
    BY <2>1 DEF Rebind, Quit, Join, Tick, vars, Recent, TypeOK
<1>7. ASSUME NEW g \in Hosts, heard'[g], nextPing'[g] # 0
      PROVE  RenewedNext(g)
  <2>1. heard[g] /\ nextPing'[g] = nextPing[g] /\ nextPing[g] # 0
    BY <1>3, <1>4, <1>7
  <2> QED
    BY <1>1, <1>2, <1>3, <1>6, <2>1, RenewedStays
<1> QED
  BY <1>5, <1>7, RenewedByHosts DEF Reach

LEMMA NextReach ==
    ASSUME Timing, Prompt, Recent, Reach, [Next]_vars
    PROVE  Reach'
<1>1. CASE \E h \in Hosts : \E kind \in Kinds : Ping(h, kind)
  BY <1>1, PingReach
<1>2. CASE \E p \in wire : Receive(p) \/ Lose(p)
  BY <1>2, ReceiveReach
<1>3. CASE \/ \E h \in Hosts : Rebind(h) \/ Quit(h) \/ Join(h)
           \/ Tick
           \/ UNCHANGED vars
  BY <1>3, OtherReach
<1> QED
  BY <1>1, <1>2, <1>3 DEF Next, Stopped

----------------------------------------------------------------------------
(* What join_game gives a joiner the host had no longer ago than the time  *)
(* to live of stun.ServeUDP and the delay of a packet, whatever is lost,   *)
(* delayed, or overtaken, and also when the host has gone.                 *)
THEOREM EndpointRecentAlways == ASSUME Timing PROVE Spec => []EndpointRecent
<1>1. Init => Recent
  BY InitRecent
<1>2. Recent /\ [Next]_vars => Recent'
  BY NextRecent
<1>3. Recent => EndpointRecent
  BY DEF Recent
<1> QED
  BY <1>1, <1>2, <1>3, PTL DEF Spec

(* A host that keeps pinging and was heard last time is found by joiners,  *)
(* at its present endpoint once it has kept that for an interval and a     *)
(* packet's way: the half interval ServeUDP adds to the time to live is    *)
(* enough as long as a packet takes no longer than that.                   *)
THEOREM HostReachedAlways == ASSUME Timing, Prompt PROVE Spec => []HostReached
<1>1. Init => Recent /\ Reach
  <2>1. Init => Reach
    BY DEF Init, Reach, LatestOnly, Renewed
  <2> QED
    BY <2>1, InitRecent
<1>2. Recent /\ Reach /\ [Next]_vars => Recent' /\ Reach'
  BY NextRecent, NextReach
<1>3. Recent /\ Reach => HostReached
  BY ReachShows
<1> QED
  BY <1>1, <1>2, <1>3, PTL DEF Spec

----------------------------------------------------------------------------
(* The room dialog (RoomPage): it names the members, once and in the order *)
(* they joined.                                                            *)
(*                                                                         *)
(* Join, Leave, RegisterNew and MarkStarted of the registry are known to   *)
(* keep it consistent (LobbyStoreProofs); what is added is how the player  *)
(* map and the times follow the memberships.                               *)

(* p's place in the times is given up; nobody else's order changes.        *)
LEMMA WithoutFacts ==
    ASSUME NEW s \in Seq(PlayerID), IsInjective(s), NEW p
    PROVE  /\ Without(s, p) \in Seq(PlayerID)
           /\ IsInjective(Without(s, p))
           /\ Range(Without(s, p)) = Range(s) \ {p}
           /\ \A a, b : a # p /\ b # p =>
                 (Before(Without(s, p), a, b) <=> Before(s, a, b))
<1>1. CASE p \notin Range(s)
  BY <1>1 DEF Without
<1>2. CASE p \in Range(s)
  <2> DEFINE n == Len(s)
             i == CHOOSE k \in DOMAIN s : s[k] = p
             t == Without(s, p)
             up(k) == IF k < i THEN k ELSE k + 1
  <2>1. n \in Nat /\ DOMAIN s = 1 .. n
    BY LenProperties
  <2>2. i \in 1 .. n /\ s[i] = p
    BY <1>2, <2>1 DEF Range
  <2> HIDE DEF i
  <2>3. t = SubSeq(s, 1, i - 1) \o SubSeq(s, i + 1, n)
    BY <1>2 DEF Without, RemoveAt, i
  <2> DEFINE front == SubSeq(s, 1, i - 1)
             rear == SubSeq(s, i + 1, n)
  <2>4. /\ front \in Seq(PlayerID) /\ Len(front) = i - 1
        /\ \A k \in 1 .. i - 1 : front[k] = s[k]
    BY <2>1, <2>2
  <2>5. /\ rear \in Seq(PlayerID) /\ Len(rear) = n - i
        /\ \A k \in 1 .. n - i : rear[k] = s[i + k]
    <3> HIDE DEF n
    <3>1. i + 1 \in 1 .. n + 1 /\ n = Len(s)
      BY <2>1, <2>2 DEF n
    <3>2. /\ rear \in Seq(PlayerID)
          /\ Len(rear) = IF i + 1 <= n THEN n - (i + 1) + 1 ELSE 0
          /\ \A k \in 1 .. n - (i + 1) + 1 : rear[k] = s[i + 1 + k - 1]
      BY <2>1, <2>2, <3>1, SubSeqProperties
    <3> QED
      BY <2>1, <2>2, <3>2
  <2>15. t = front \o rear
    BY <2>3
  <2> HIDE DEF t, front, rear, n
  <2>6. /\ t \in Seq(PlayerID) /\ Len(t) = n - 1
        /\ \A k \in 1 .. (i - 1) + (n - i) :
              t[k] = IF k <= i - 1 THEN front[k] ELSE rear[k - (i - 1)]
    BY <2>1, <2>2, <2>4, <2>5, <2>15, ConcatProperties
  <2>7. \A k \in 1 .. n - 1 : t[k] = s[up(k)] /\ up(k) \in 1 .. n /\ up(k) # i
    <3> SUFFICES ASSUME NEW k \in 1 .. n - 1
                 PROVE  t[k] = s[up(k)] /\ up(k) \in 1 .. n /\ up(k) # i
      OBVIOUS
    <3>1. t[k] = IF k <= i - 1 THEN front[k] ELSE rear[k - (i - 1)]
      BY <2>1, <2>2, <2>6
    <3>2. CASE k < i
      BY <2>1, <2>2, <2>4, <3>1, <3>2
    <3>3. CASE k >= i
      <4>1. k - (i - 1) \in 1 .. n - i /\ i + (k - (i - 1)) = k + 1
        BY <2>1, <2>2, <3>3
      <4>2. t[k] = s[k + 1]
        BY <2>1, <2>2, <2>5, <3>1, <3>3, <4>1
      <4> QED BY <2>1, <2>2, <3>3, <4>2
    <3> QED
      BY <2>1, <2>2, <3>2, <3>3
  <2>8. DOMAIN t = 1 .. n - 1
    BY <2>6
  <2>9. \A k \in 1 .. n : k # i => \E j \in 1 .. n - 1 : up(j) = k
    <3> SUFFICES ASSUME NEW k \in 1 .. n, k # i
                 PROVE  \E j \in 1 .. n - 1 : up(j) = k
      OBVIOUS
    <3>1. CASE k < i
      BY <2>1, <2>2, <3>1
    <3>2. CASE k > i
      <4>1. k - 1 \in 1 .. n - 1 /\ up(k - 1) = k
        BY <2>1, <2>2, <3>2
      <4> QED BY <4>1
    <3> QED BY <2>1, <2>2, <3>1, <3>2
  <2>10. \A j, k \in 1 .. n - 1 : /\ up(j) = up(k) => j = k
                                  /\ j < k <=> up(j) < up(k)
    BY <2>1, <2>2
  <2> HIDE DEF up
  <2>11. IsInjective(t)
    BY <2>1, <2>7, <2>8, <2>10 DEF IsInjective
  <2>12. \A k \in 1 .. n : s[k] = p <=> k = i
    BY <2>1, <2>2 DEF IsInjective
  <2>13. Range(t) = Range(s) \ {p}
    BY <2>1, <2>7, <2>8, <2>9, <2>12, SMTT(30) DEF Range
  <2>14. ASSUME NEW a, NEW b, a # p, b # p
         PROVE  Before(t, a, b) <=> Before(s, a, b)
    <3>1. ASSUME Before(t, a, b) PROVE Before(s, a, b)
      <4>1. PICK j, k \in 1 .. n - 1 : j < k /\ t[j] = a /\ t[k] = b
        BY <2>8, <3>1 DEF Before
      <4> QED
        BY <2>1, <2>7, <2>10, <4>1 DEF Before
    <3>2. ASSUME Before(s, a, b) PROVE Before(t, a, b)
      <4>1. PICK j, k \in 1 .. n : j < k /\ s[j] = a /\ s[k] = b
        BY <2>1, <3>2 DEF Before
      <4>2. j # i /\ k # i
        BY <2>2, <2>14, <4>1
      <4>3. PICK j1 \in 1 .. n - 1, k1 \in 1 .. n - 1 : up(j1) = j /\ up(k1) = k
        BY <2>9, <4>2
      <4> QED
        BY <2>7, <2>8, <2>10, <4>1, <4>3 DEF Before
    <3> QED BY <3>1, <3>2
  <2> QED
    BY <2>6, <2>11, <2>13, <2>14 DEF t
<1> QED BY <1>1, <1>2

(* Whoever gets a time is the last; the order of the others is kept.       *)
LEMMA AppendedFacts ==
    ASSUME NEW s \in Seq(PlayerID), IsInjective(s), NEW p \in PlayerID
    PROVE  LET t == Append(Without(s, p), p) IN
           /\ t \in Seq(PlayerID)
           /\ IsInjective(t)
           /\ Range(t) = Range(s) \cup {p}
           /\ Last(t) = p
           /\ \A a, b : a # p /\ b # p => (Before(t, a, b) <=> Before(s, a, b))
<1> DEFINE w == Without(s, p)
           t == Append(w, p)
           n == Len(w)
<1>1. /\ w \in Seq(PlayerID) /\ IsInjective(w) /\ Range(w) = Range(s) \ {p}
      /\ \A a, b : a # p /\ b # p => (Before(w, a, b) <=> Before(s, a, b))
  BY WithoutFacts
<1> HIDE DEF w
<1>2. /\ n \in Nat /\ DOMAIN w = 1 .. n
      /\ t \in Seq(PlayerID) /\ Len(t) = n + 1 /\ DOMAIN t = 1 .. n + 1
      /\ \A k \in 1 .. n : t[k] = w[k]
      /\ t[n + 1] = p
  BY <1>1, AppendProperties, LenProperties
<1> HIDE DEF t, n
<1>3. \A k \in 1 .. n : w[k] # p
  BY <1>1, <1>2 DEF Range
<1>4. IsInjective(t)
  BY <1>1, <1>2, <1>3 DEF IsInjective
<1>5. Range(t) = Range(w) \cup {p}
  BY <1>2 DEF Range
<1>6. \A a, b : a # p /\ b # p => (Before(t, a, b) <=> Before(w, a, b))
  BY <1>2 DEF Before
<1> QED
  BY <1>1, <1>2, <1>4, <1>5, <1>6 DEF Last, t, w

(* A value of the maps and flags; times and records are per room.          *)
PageType == [roster : [RoomID -> [PlayerID -> Nat]],
             times : [RoomID -> Seq(PlayerID)],
             exited : SUBSET (PlayerID \X Nat)]

(* Whoever is in a room has a time and a record there.                     *)
MembersNamed(st, pg) ==
    \A p \in PlayerID : st.byPID[p] # NoRoom =>
        /\ p \in Range(pg.times[st.byPID[p]])
        /\ pg.roster[st.byPID[p]][p] # 0

(* Whoever has a time and is not in the room was in it when the game       *)
(* started, and is flagged.                                                *)
OthersLeft(st, pg) ==
    \A r \in RoomID : \A p \in Range(pg.times[r]) : st.byPID[p] # r =>
        /\ r \in Allocated(st) /\ st.rooms[r].started
        /\ pg.roster[r][p] # 0 => <<p, pg.roster[r][p]>> \in pg.exited

(* The inductive invariant of the dialog, on the registry and the maps.    *)
PageOK(st, pg) ==
    /\ st \in StoreType /\ StoreInv(st)
    /\ pg \in PageType
    /\ \A r \in RoomID : IsInjective(pg.times[r])
    /\ MembersNamed(st, pg)
    /\ OthersLeft(st, pg)

(* Only p's place in the times may have changed.                           *)
OrderKept(pg, pg2, p) ==
    \A r \in RoomID : \A a, b : a # p /\ b # p =>
        (Before(pg2.times[r], a, b) <=> Before(pg.times[r], a, b))

(* Leave: before the start the entry goes, afterwards the record is        *)
(* flagged; either way the dialog stays consistent.                        *)
LEMMA LeavePage ==
    ASSUME NEW st, NEW pg, PageOK(st, pg), NEW p \in PlayerID
    PROVE  /\ PageOK(LeaveStore(st, p), LeavePages(st, pg, p))
           /\ OrderKept(pg, LeavePages(st, pg, p), p)
<1> DEFINE r == st.byPID[p]
           st2 == LeaveStore(st, p)
           pg2 == LeavePages(st, pg, p)
<1>1. /\ st2 \in StoreType /\ StoreInv(st2)
      /\ st2.byPID = [st.byPID EXCEPT ![p] = NoRoom]
      /\ Allocated(st2) = Allocated(st)
      /\ \A q \in RoomID : st2.rooms[q].started = st.rooms[q].started
  BY LeavePreserves DEF PageOK, Allocated
<1>2. st \in StoreType /\ st.byPID \in [PlayerID -> RoomID \cup {NoRoom}]
  BY DEF PageOK, StoreType
<1>3. pg \in PageType /\ \A q \in RoomID : IsInjective(pg.times[q])
  BY DEF PageOK
<1>4. CASE r = NoRoom
  <2>1. st2 = st /\ pg2 = pg
    BY <1>4 DEF LeaveStore, LeavePages
  <2> QED BY <2>1 DEF OrderKept
<1>5. CASE r # NoRoom
  <2>1. /\ r \in RoomID /\ p \in Range(pg.times[r]) /\ pg.roster[r][p] # 0
        /\ r \in Allocated(st)
    BY <1>2, <1>5 DEF PageOK, MembersNamed, StoreInv, IndexedAllocated
  <2>2. \A q \in PlayerID : st2.byPID[q] = IF q = p THEN NoRoom ELSE st.byPID[q]
    BY <1>1, <1>2
  <2> HIDE DEF st2
  <2>3. CASE st.rooms[r].started
    <3>1. pg2 = [pg EXCEPT !.exited = @ \cup {<<p, pg.roster[r][p]>>}]
      BY <1>5, <2>1, <2>3 DEF LeavePages
    <3>2. /\ pg2 \in PageType
          /\ pg2.times = pg.times /\ pg2.roster = pg.roster
          /\ pg2.exited = pg.exited \cup {<<p, pg.roster[r][p]>>}
      <4>1. pg.roster[r][p] \in Nat
        BY <1>3, <2>1 DEF PageType
      <4>2. {<<p, pg.roster[r][p]>>} \subseteq PlayerID \X Nat
        BY <4>1
      <4> DEFINE x == pg.exited \cup {<<p, pg.roster[r][p]>>}
      <4>3. x \in SUBSET (PlayerID \X Nat)
        BY <1>3, <4>2 DEF PageType
      <4>4. pg2 = [pg EXCEPT !.exited = x]
        BY <3>1
      <4> HIDE DEF x, pg2
      <4>5. pg2 \in PageType /\ pg2.exited = x
            /\ pg2.times = pg.times /\ pg2.roster = pg.roster
        BY <1>3, <4>3, <4>4 DEF PageType
      <4> QED
        BY <4>5 DEF x
    <3> HIDE DEF pg2
    <3>3. MembersNamed(st2, pg2)
      BY <2>2, <3>2 DEF PageOK, MembersNamed
    <3>4. OthersLeft(st2, pg2)
      <4> SUFFICES ASSUME NEW q \in RoomID, NEW y \in Range(pg.times[q]),
                          st2.byPID[y] # q
                   PROVE  /\ q \in Allocated(st) /\ st.rooms[q].started
                          /\ pg.roster[q][y] # 0 =>
                                <<y, pg.roster[q][y]>> \in pg2.exited
        BY <1>1, <3>2 DEF OthersLeft
      <4>1. CASE st.byPID[y] # q
        BY <3>2, <4>1 DEF PageOK, OthersLeft
      <4>2. CASE st.byPID[y] = q
        <5>1. y \in PlayerID
          BY <1>3 DEF PageType, Range
        <5>2. y = p /\ q = r
          BY <2>2, <4>2, <5>1
        <5> QED BY <2>1, <2>3, <3>2, <5>2
      <4> QED BY <4>1, <4>2
    <3>5. PageOK(st2, pg2)
      BY <1>1, <1>3, <3>2, <3>3, <3>4 DEF PageOK, st2
    <3> QED
      BY <3>2, <3>5 DEF OrderKept, st2, pg2
  <2>4. CASE ~ st.rooms[r].started
    <3> DEFINE w == Without(pg.times[r], p)
    <3>1. pg2 = [roster |-> [pg.roster EXCEPT ![r][p] = 0],
                 times |-> [pg.times EXCEPT ![r] = w], exited |-> pg.exited]
      BY <1>5, <2>4 DEF LeavePages
    <3>2. pg.times[r] \in Seq(PlayerID)
      BY <1>3, <2>1 DEF PageType
    <3>3. /\ w \in Seq(PlayerID) /\ IsInjective(w)
          /\ Range(w) = Range(pg.times[r]) \ {p}
          /\ \A a, b : a # p /\ b # p =>
                (Before(w, a, b) <=> Before(pg.times[r], a, b))
      BY <1>3, <2>1, <3>2, WithoutFacts
    <3> HIDE DEF w
    <3>4. /\ pg2 \in PageType
          /\ pg2.times = [pg.times EXCEPT ![r] = w]
          /\ pg2.exited = pg.exited
          /\ pg2.roster = [pg.roster EXCEPT ![r][p] = 0]
      <4>1. /\ [pg.roster EXCEPT ![r][p] = 0] \in [RoomID -> [PlayerID -> Nat]]
            /\ [pg.times EXCEPT ![r] = w] \in [RoomID -> Seq(PlayerID)]
            /\ pg.exited \in SUBSET (PlayerID \X Nat)
        BY <1>3, <2>1, <3>3 DEF PageType
      <4> QED
        BY <3>1, <4>1 DEF PageType
    <3>5. /\ \A q \in RoomID : pg2.times[q] = IF q = r THEN w ELSE pg.times[q]
          /\ \A q \in RoomID, y \in PlayerID :
                q # r \/ y # p => pg2.roster[q][y] = pg.roster[q][y]
      BY <1>3, <3>4, SMTT(30) DEF PageType
    <3> HIDE DEF pg2
    <3>6. MembersNamed(st2, pg2)
      <4> SUFFICES ASSUME NEW y \in PlayerID, y # p, st.byPID[y] # NoRoom
                   PROVE  /\ y \in Range(pg2.times[st.byPID[y]])
                          /\ pg2.roster[st.byPID[y]][y] # 0
        BY <2>2 DEF MembersNamed
      <4>1. /\ st.byPID[y] \in RoomID
            /\ y \in Range(pg.times[st.byPID[y]])
            /\ pg.roster[st.byPID[y]][y] # 0
        BY <1>2 DEF PageOK, MembersNamed
      <4> QED BY <3>3, <3>5, <4>1
    <3>7. OthersLeft(st2, pg2)
      <4> SUFFICES ASSUME NEW q \in RoomID, NEW y \in Range(pg2.times[q]),
                          st2.byPID[y] # q
                   PROVE  /\ q \in Allocated(st) /\ st.rooms[q].started
                          /\ pg2.roster[q][y] # 0 =>
                                <<y, pg2.roster[q][y]>> \in pg.exited
        BY <1>1, <3>4 DEF OthersLeft
      <4>1. y \in PlayerID /\ y \in Range(pg.times[q]) /\ (q = r => y # p)
        <5>1. y \in PlayerID
          BY <3>4 DEF PageType, Range
        <5> QED BY <3>3, <3>5, <5>1
      <4>2. st.byPID[y] # q
        BY <2>2, <4>1
      <4> QED
        BY <3>5, <4>1, <4>2 DEF PageOK, OthersLeft
    <3>8. \A q \in RoomID : IsInjective(pg2.times[q])
      BY <1>3, <3>3, <3>5
    <3>9. PageOK(st2, pg2)
      BY <1>1, <3>4, <3>6, <3>7, <3>8 DEF PageOK, st2
    <3>10. OrderKept(pg, pg2, p)
      BY <3>3, <3>5 DEF OrderKept
    <3> QED
      BY <3>9, <3>10 DEF st2, pg2
  <2> QED BY <2>3, <2>4
<1> QED BY <1>4, <1>5

(* Join and RegisterNew: p, who is in no room, gets record n and the last  *)
(* place in a room whose game has not started.                             *)
LEMMA EnterPage ==
    ASSUME NEW st, NEW pg, PageOK(st, pg), NEW p \in PlayerID,
           st.byPID[p] = NoRoom, NEW n \in Nat \ {0}, NEW r \in RoomID,
           NEW st2 \in StoreType, StoreInv(st2),
           st2.byPID = [st.byPID EXCEPT ![p] = r],
           Allocated(st2) = Allocated(st) \cup {r},
           r \in Allocated(st) => ~ st.rooms[r].started,
           \A q \in RoomID \ {r} : st2.rooms[q].started = st.rooms[q].started
    PROVE  LET pg2 == EnterRoom(pg, r, p, n) IN
           /\ PageOK(st2, pg2)
           /\ OrderKept(pg, pg2, p)
           /\ Last(pg2.times[r]) = p
<1> DEFINE w == Append(Without(pg.times[r], p), p)
           pg2 == EnterRoom(pg, r, p, n)
<1>1. /\ st \in StoreType /\ st.byPID \in [PlayerID -> RoomID \cup {NoRoom}]
      /\ pg \in PageType /\ \A q \in RoomID : IsInjective(pg.times[q])
      /\ pg.times[r] \in Seq(PlayerID)
  BY DEF PageOK, StoreType, PageType
<1>2. /\ w \in Seq(PlayerID) /\ IsInjective(w)
      /\ Range(w) = Range(pg.times[r]) \cup {p}
      /\ Last(w) = p
      /\ \A a, b : a # p /\ b # p =>
            (Before(w, a, b) <=> Before(pg.times[r], a, b))
  BY <1>1, AppendedFacts
<1>3. pg2 = [roster |-> [pg.roster EXCEPT ![r][p] = n],
             times |-> [pg.times EXCEPT ![r] = w], exited |-> pg.exited]
  BY DEF EnterRoom
<1> HIDE DEF w
<1>4. /\ pg2 \in PageType
      /\ pg2.times = [pg.times EXCEPT ![r] = w]
      /\ pg2.exited = pg.exited
      /\ pg2.roster = [pg.roster EXCEPT ![r][p] = n]
  <2>1. /\ [pg.roster EXCEPT ![r][p] = n] \in [RoomID -> [PlayerID -> Nat]]
        /\ [pg.times EXCEPT ![r] = w] \in [RoomID -> Seq(PlayerID)]
        /\ pg.exited \in SUBSET (PlayerID \X Nat)
    BY <1>1, <1>2 DEF PageType
  <2> QED
    BY <1>3, <2>1 DEF PageType
<1>5. /\ \A q \in RoomID : pg2.times[q] = IF q = r THEN w ELSE pg.times[q]
      /\ \A q \in RoomID, y \in PlayerID :
            pg2.roster[q][y] = IF q = r /\ y = p THEN n ELSE pg.roster[q][y]
  BY <1>1, <1>4 DEF PageType
<1> HIDE DEF pg2
<1>6. \A q \in PlayerID : st2.byPID[q] = IF q = p THEN r ELSE st.byPID[q]
  BY <1>1
<1>7. MembersNamed(st2, pg2)
  <2> SUFFICES ASSUME NEW y \in PlayerID, st2.byPID[y] # NoRoom
               PROVE  /\ y \in Range(pg2.times[st2.byPID[y]])
                      /\ pg2.roster[st2.byPID[y]][y] # 0
    BY DEF MembersNamed
  <2>1. CASE y = p
    BY <1>2, <1>5, <1>6, <2>1
  <2>2. CASE y # p
    <3>1. /\ st2.byPID[y] = st.byPID[y] /\ st.byPID[y] \in RoomID
          /\ y \in Range(pg.times[st.byPID[y]])
          /\ pg.roster[st.byPID[y]][y] # 0
      BY <1>1, <1>6, <2>2 DEF PageOK, MembersNamed
    <3> QED BY <1>2, <1>5, <2>2, <3>1
  <2> QED BY <2>1, <2>2
<1>8. OthersLeft(st2, pg2)
  <2> SUFFICES ASSUME NEW q \in RoomID, NEW y \in Range(pg2.times[q]),
                      st2.byPID[y] # q
               PROVE  /\ q \in Allocated(st2) /\ st2.rooms[q].started
                      /\ pg2.roster[q][y] # 0 =>
                            <<y, pg2.roster[q][y]>> \in pg.exited
    BY <1>4 DEF OthersLeft
  <2>1. y \in PlayerID
    BY <1>4 DEF PageType, Range
  <2>2. y \in Range(pg.times[q]) /\ st.byPID[y] # q /\ (q = r => y # p)
    <3>1. CASE q = r
      BY <1>2, <1>5, <1>6, <2>1, <3>1
    <3>2. CASE q # r
      <4>1. st.byPID[p] # q
        BY BoundsAssumption DEF RoomID, NoRoom
      <4> QED BY <1>5, <1>6, <2>1, <3>2, <4>1
    <3> QED BY <3>1, <3>2
  <2>3. /\ q \in Allocated(st) /\ st.rooms[q].started
        /\ pg.roster[q][y] # 0 => <<y, pg.roster[q][y]>> \in pg.exited
    BY <2>2 DEF PageOK, OthersLeft
  <2>4. q # r
    BY <2>3
  <2> QED
    BY <1>5, <2>1, <2>3, <2>4
<1>9. OrderKept(pg, pg2, p) /\ Last(pg2.times[r]) = p
  BY <1>2, <1>5 DEF OrderKept
<1> QED
  BY <1>1, <1>2, <1>4, <1>5, <1>7, <1>8, <1>9 DEF PageOK, pg2

(* The invariant of the module: the dialog is consistent, and the numbers  *)
(* of the records are numbers.                                             *)
PageInv ==
    /\ PageOK(store, Pages)
    /\ record \in [PlayerID -> Nat]
    /\ entered \in [PlayerID -> Nat]

(* What a step of p does: it stays consistent, nobody else moves or is     *)
(* moved in the times, and p is last in the room it is in unless it was    *)
(* there before and nothing moved at all.                                  *)
PageStep(p) ==
    /\ PageInv'
    /\ Allocated(store) \subseteq Allocated(store')
    /\ OrderKept(Pages, Pages', p)
    /\ \A q \in PlayerID : q # p => store'.byPID[q] = store.byPID[q]
    /\ \/ store'.byPID[p] = NoRoom
       \/ Last(times'[store'.byPID[p]]) = p
       \/ times' = times /\ store'.byPID = store.byPID

(* The player has left its room; what happens next starts from there.      *)
LEMMA LeftFacts ==
    ASSUME PageInv, NEW p \in PlayerID
    PROVE  LET left == LeaveStore(store, p)
               gone == LeavePages(store, Pages, p) IN
           /\ PageOK(left, gone) /\ gone \in PageType
           /\ OrderKept(Pages, gone, p)
           /\ left.byPID[p] = NoRoom
           /\ \A q \in PlayerID : q # p => left.byPID[q] = store.byPID[q]
           /\ left.lastRoomID = store.lastRoomID
           /\ Allocated(left) = Allocated(store)
           /\ \A q \in RoomID : /\ left.rooms[q].started = store.rooms[q].started
                                /\ left.rooms[q].max = store.rooms[q].max
                                /\ left.rooms[q].count <= store.rooms[q].count
<1>1. PageOK(store, Pages) /\ store \in StoreType /\ StoreInv(store)
  BY DEF PageInv, PageOK
<1>2. store.byPID \in [PlayerID -> RoomID \cup {NoRoom}]
  BY <1>1 DEF StoreType
<1> QED
  BY <1>1, <1>2, LeavePage, LeavePreserves DEF Allocated, PageOK

(* The maps are set to a value.                                            *)
LEMMA PagesSet ==
    ASSUME NEW STATE pg, pg \in PageType, SetPages(pg)
    PROVE  Pages' = pg
BY DEF SetPages, Pages, PageType

(* Leave, Disconnect and Enter: the player is gone from the dialog.        *)
LEMMA GoneStep ==
    ASSUME PageInv, NEW p \in PlayerID,
           store' = LeaveStore(store, p), SetPages(LeavePages(store, Pages, p)),
           record' \in [PlayerID -> Nat], entered' \in [PlayerID -> Nat]
    PROVE  PageStep(p)
<1> DEFINE left == LeaveStore(store, p)
           gone == LeavePages(store, Pages, p)
<1>1. /\ PageOK(left, gone) /\ gone \in PageType
      /\ OrderKept(Pages, gone, p)
      /\ left.byPID[p] = NoRoom
      /\ \A q \in PlayerID : q # p => left.byPID[q] = store.byPID[q]
      /\ Allocated(left) = Allocated(store)
  BY LeftFacts
<1>2. Pages' = gone /\ store' = left
  BY <1>1, PagesSet
<1> HIDE DEF left, gone
<1>3. PageInv'
  BY <1>1, <1>2 DEF PageInv
<1> QED
  BY <1>1, <1>2, <1>3 DEF PageStep

(* The room entered after leaving is one the dialog of which the player is *)
(* put at the end of.                                                      *)
LEMMA EnteredStep ==
    ASSUME PageInv, NEW p \in PlayerID, NEW r \in RoomID, record[p] # 0,
           store' \in StoreType, StoreInv(store'),
           store'.byPID = [LeaveStore(store, p).byPID EXCEPT ![p] = r],
           Allocated(store') = Allocated(store) \cup {r},
           r \in Allocated(store) => ~ store.rooms[r].started,
           \A q \in RoomID \ {r} : store'.rooms[q].started = store.rooms[q].started,
           SetPages(EnterRoom(LeavePages(store, Pages, p), r, p, record[p])),
           UNCHANGED <<record, entered>>
    PROVE  PageStep(p)
<1> DEFINE left == LeaveStore(store, p)
           gone == LeavePages(store, Pages, p)
           pg2 == EnterRoom(gone, r, p, record[p])
<1>1. /\ PageOK(left, gone) /\ gone \in PageType
      /\ OrderKept(Pages, gone, p)
      /\ left.byPID[p] = NoRoom
      /\ \A q \in PlayerID : q # p => left.byPID[q] = store.byPID[q]
      /\ Allocated(left) = Allocated(store)
      /\ \A q \in RoomID : left.rooms[q].started = store.rooms[q].started
  BY LeftFacts
<1>2. record[p] \in Nat \ {0} /\ store'.byPID = [left.byPID EXCEPT ![p] = r]
  BY DEF PageInv
<1>3. left.byPID \in [PlayerID -> RoomID \cup {NoRoom}]
  BY <1>1 DEF PageOK, StoreType
<1>4. SetPages(pg2)
  OBVIOUS
<1> HIDE DEF left, gone
<1>5. /\ PageOK(store', pg2)
      /\ OrderKept(gone, pg2, p)
      /\ Last(pg2.times[r]) = p
  BY <1>1, <1>2, EnterPage
<1> HIDE DEF pg2
<1>6. pg2 \in PageType
  BY <1>5 DEF PageOK
<1>7. Pages' = pg2
  BY <1>4, <1>6 DEF SetPages, Pages, PageType
<1>8. PageInv'
  BY <1>5, <1>7 DEF PageInv
<1>9. OrderKept(Pages, Pages', p)
  BY <1>1, <1>5, <1>7 DEF OrderKept
<1>10. Last(times'[store'.byPID[p]]) = p
  BY <1>2, <1>3, <1>5, <1>7 DEF Pages
<1>11. \A q \in PlayerID : q # p => store'.byPID[q] = store.byPID[q]
  BY <1>1, <1>2, <1>3
<1> QED
  BY <1>8, <1>9, <1>10, <1>11 DEF PageStep

(* join_game: the room is judged before the joiner leaves its own.         *)
LEMMA JoinGameStep ==
    ASSUME PageInv, NEW p \in PlayerID, NEW r \in RoomID, JoinGame(p, r)
    PROVE  PageStep(p)
<1> DEFINE left == LeaveStore(store, p)
<1>1. /\ record[p] # 0 /\ r \in store.byID /\ ~ store.rooms[r].started
      /\ store.rooms[r].count < store.rooms[r].max
      /\ store' = JoinStore(left, r, p)
      /\ SetPages(EnterRoom(LeavePages(store, Pages, p), r, p, record[p]))
      /\ UNCHANGED <<record, entered>>
  BY DEF JoinGame
<1>2. /\ left \in StoreType /\ StoreInv(left)
      /\ left.byPID[p] = NoRoom
      /\ left.lastRoomID = store.lastRoomID
      /\ Allocated(left) = Allocated(store)
      /\ \A q \in RoomID : /\ left.rooms[q].started = store.rooms[q].started
                           /\ left.rooms[q].max = store.rooms[q].max
                           /\ left.rooms[q].count <= store.rooms[q].count
  BY LeftFacts DEF PageOK
<1>3. store \in StoreType /\ StoreInv(store)
  BY DEF PageInv, PageOK
<1>4. r \in Allocated(left)
  BY <1>1, <1>2, <1>3 DEF StoreInv, IndexedAllocated
<1>5. left.rooms[r].count < left.rooms[r].max
  <2>1. /\ left.rooms[r].count \in Count /\ store.rooms[r].count \in Count
        /\ store.rooms[r].max \in Capacities
    BY <1>2, <1>3 DEF StoreType, RoomType
  <2>2. left.rooms[r].count \in Int /\ store.rooms[r].count \in Int
    BY <2>1, BoundsAssumption DEF Count
  <2>3. store.rooms[r].max \in Int
    BY <2>1, CapacitiesAssumption, Zenon
  <2> HIDE DEF left
  <2> QED
    BY <1>1, <1>2, <2>2, <2>3
<1> HIDE DEF left
<1>6. /\ store' \in StoreType /\ StoreInv(store')
      /\ store'.byPID = [left.byPID EXCEPT ![p] = r]
      /\ store'.lastRoomID = left.lastRoomID
      /\ \A q \in RoomID : store'.rooms[q].started = left.rooms[q].started
  BY <1>1, <1>2, <1>4, <1>5, JoinPreserves
<1>7. Allocated(store') = Allocated(store) \cup {r}
  BY <1>2, <1>4, <1>6 DEF Allocated
<1>8. \A q \in RoomID \ {r} : store'.rooms[q].started = store.rooms[q].started
  BY <1>2, <1>6
<1> QED
  BY <1>1, <1>6, <1>7, <1>8, EnteredStep DEF left

(* reg_new_room.                                                           *)
LEMMA RegNewRoomStep ==
    ASSUME PageInv, NEW p \in PlayerID, NEW m \in Capacities, RegNewRoom(p, m)
    PROVE  PageStep(p)
<1> DEFINE left == LeaveStore(store, p)
           r == store.lastRoomID + 1
<1>1. /\ record[p] # 0 /\ store.lastRoomID < MaxRoomID
      /\ store' = RegisterStore(left, p, m)
      /\ SetPages(EnterRoom(LeavePages(store, Pages, p), r, p, record[p]))
      /\ UNCHANGED <<record, entered>>
  BY DEF RegNewRoom, NextRoomID
<1>2. /\ left \in StoreType /\ StoreInv(left)
      /\ left.byPID[p] = NoRoom
      /\ left.lastRoomID = store.lastRoomID
      /\ Allocated(left) = Allocated(store)
      /\ \A q \in RoomID : left.rooms[q].started = store.rooms[q].started
  BY LeftFacts DEF PageOK
<1> HIDE DEF left
<1>3. /\ store' \in StoreType /\ StoreInv(store')
      /\ store'.byPID = [left.byPID EXCEPT ![p] = r]
      /\ store'.lastRoomID = r
      /\ r \in RoomID /\ r \notin Allocated(store)
      /\ \A q \in RoomID \ {r} : store'.rooms[q] = left.rooms[q]
  BY <1>1, <1>2, RegisterPreserves
<1>4. Allocated(store') = Allocated(store) \cup {r}
  <2>1. store.lastRoomID \in Nat
    BY BoundsAssumption DEF PageInv, PageOK, StoreType
  <2> QED
    BY <1>3, <2>1 DEF Allocated
<1>5. \A q \in RoomID \ {r} : store'.rooms[q].started = store.rooms[q].started
  BY <1>2, <1>3
<1> HIDE DEF r
<1> QED
  BY <1>1, <1>3, <1>4, <1>5, EnteredStep DEF left

(* start: only the registry changes, and those who left do not matter yet. *)
LEMMA StartStep ==
    ASSUME PageInv, NEW p \in PlayerID, Start(p)
    PROVE  PageStep(p)
<1> DEFINE r == store.byPID[p]
<1>1. /\ r # NoRoom /\ store' = StartStore(store, r)
      /\ UNCHANGED <<record, entered, roster, times, exited>>
  BY DEF Start
<1>2. /\ PageOK(store, Pages) /\ store \in StoreType /\ StoreInv(store)
      /\ p \in Members(store, r) /\ r \in Allocated(store)
  BY <1>1 DEF PageInv, PageOK, Members, StoreInv, IndexedAllocated
<1>3. /\ store' \in StoreType /\ StoreInv(store')
      /\ store'.byPID = store.byPID
      /\ store'.lastRoomID = store.lastRoomID
      /\ store'.rooms[r].started
      /\ \A q \in RoomID : q # r => store'.rooms[q] = store.rooms[q]
  <2>1. Members(store, r) # {}
    BY <1>2
  <2> HIDE DEF r
  <2> QED
    BY <1>1, <1>2, <2>1, StartPreserves
<1>4. Pages' = Pages
  BY <1>1 DEF Pages
<1>5. OthersLeft(store', Pages)
  <2> SUFFICES ASSUME NEW q \in RoomID, NEW y \in Range(Pages.times[q]),
                      store.byPID[y] # q
               PROVE  /\ q \in Allocated(store) /\ store'.rooms[q].started
                      /\ Pages.roster[q][y] # 0 =>
                            <<y, Pages.roster[q][y]>> \in Pages.exited
    BY <1>3 DEF OthersLeft, Allocated
  <2> QED
    BY <1>2, <1>3 DEF PageOK, OthersLeft
<1>6. MembersNamed(store', Pages)
  BY <1>2, <1>3 DEF PageOK, MembersNamed
<1>7. PageInv'
  BY <1>1, <1>2, <1>3, <1>4, <1>5, <1>6 DEF PageInv, PageOK
<1> QED
  BY <1>1, <1>3, <1>4, <1>7 DEF PageStep, OrderKept, Allocated

(* Every action is a step of one player.                                   *)
LEMMA PageSteps ==
    ASSUME PageInv, PageNext
    PROVE  \E p \in PlayerID : PageStep(p)
<1>1. PICK p \in Persons :
          \/ Enter(p) \/ Leave(p) \/ Start(p) \/ Disconnect(p)
          \/ \E m \in Capacities : RegNewRoom(p, m)
          \/ \E r \in RoomID : JoinGame(p, r)
  BY DEF PageNext
<1>2. p \in PlayerID
  BY DEF Persons
<1>3. record \in [PlayerID -> Nat] /\ entered \in [PlayerID -> Nat]
  BY DEF PageInv
<1>4. CASE Enter(p)
  <2>1. /\ store' = LeaveStore(store, p) /\ SetPages(LeavePages(store, Pages, p))
        /\ entered' = [entered EXCEPT ![p] = entered[p] + 1]
        /\ record' = [record EXCEPT ![p] = entered[p] + 1]
    BY <1>4 DEF Enter
  <2>2. record' \in [PlayerID -> Nat] /\ entered' \in [PlayerID -> Nat]
    BY <1>2, <1>3, <2>1
  <2> QED BY <1>2, <2>1, <2>2, GoneStep
<1>5. CASE Leave(p)
  BY <1>2, <1>3, <1>5, GoneStep DEF Leave
<1>6. CASE Disconnect(p)
  <2>1. record' \in [PlayerID -> Nat]
    BY <1>2, <1>3, <1>6 DEF Disconnect
  <2> QED
    BY <1>2, <1>3, <1>6, <2>1, GoneStep DEF Disconnect
<1>7. CASE Start(p)
  BY <1>2, <1>7, StartStep
<1>8. CASE \E m \in Capacities : RegNewRoom(p, m)
  BY <1>2, <1>8, RegNewRoomStep
<1>9. CASE \E r \in RoomID : JoinGame(p, r)
  BY <1>2, <1>9, JoinGameStep
<1> QED
  BY <1>1, <1>4, <1>5, <1>6, <1>7, <1>8, <1>9

LEMMA PageInvInit == PageInit => PageInv
<1> SUFFICES ASSUME PageInit PROVE PageInv
  OBVIOUS
<1>1. /\ store = InitStore
      /\ record = [p \in PlayerID |-> 0] /\ entered = [p \in PlayerID |-> 0]
      /\ roster = [r \in RoomID |-> [p \in PlayerID |-> 0]]
      /\ times = [r \in RoomID |-> << >>] /\ exited = {}
  BY DEF PageInit
<1>2. store \in StoreType /\ StoreInv(store)
  BY <1>1, InitStoreOK
<1>3. \A p \in PlayerID : store.byPID[p] = NoRoom
  BY <1>1 DEF InitStore
<1>4. Pages \in PageType
  <2>1. << >> \in Seq(PlayerID)
    OBVIOUS
  <2>2. times \in [RoomID -> Seq(PlayerID)]
    BY <1>1, <2>1
  <2>3. roster \in [RoomID -> [PlayerID -> Nat]]
    BY <1>1
  <2>4. exited \in SUBSET (PlayerID \X Nat)
    BY <1>1
  <2> QED BY <2>2, <2>3, <2>4 DEF Pages, PageType
<1>5. \A r \in RoomID : times[r] = << >>
  BY <1>1
<1>6. \A r \in RoomID : Range(Pages.times[r]) = {} /\ IsInjective(Pages.times[r])
  BY <1>5 DEF Pages, Range, IsInjective
<1>7. MembersNamed(store, Pages) /\ OthersLeft(store, Pages)
  BY <1>3, <1>6 DEF MembersNamed, OthersLeft
<1> QED
  BY <1>1, <1>2, <1>4, <1>6, <1>7 DEF PageInv, PageOK

LEMMA PageInvNext == PageInv /\ [PageNext]_pageVars => PageInv'
<1> SUFFICES ASSUME PageInv, [PageNext]_pageVars PROVE PageInv'
  OBVIOUS
<1>1. CASE PageNext
  BY <1>1, PageSteps DEF PageStep
<1>2. CASE UNCHANGED pageVars
  <2>1. store' = store /\ Pages' = Pages /\ UNCHANGED <<record, entered>>
    BY <1>2 DEF pageVars, Pages
  <2> QED BY <2>1 DEF PageInv
<1> QED BY <1>1, <1>2

(* What the invariant says of the lists a player sees.                     *)
LEMMA PageNames == PageInv => PageNamesMembers
<1> SUFFICES ASSUME PageInv, NEW r \in Allocated(store)
             PROVE  /\ Members(store, r) \subseteq Shown(r)
                    /\ IsInjective(times[r])
                    /\ IF store.rooms[r].started
                       THEN ActivePlayers(r) \subseteq Members(store, r)
                       ELSE Shown(r) = Members(store, r)
  BY DEF PageNamesMembers
<1>1. /\ store \in StoreType
      /\ Pages \in PageType
      /\ MembersNamed(store, Pages) /\ OthersLeft(store, Pages)
      /\ \A q \in RoomID : IsInjective(times[q])
  BY DEF PageInv, PageOK, Pages
<1>2. r \in RoomID /\ r # NoRoom
  BY <1>1, BoundsAssumption DEF Allocated, StoreType, RoomID, NoRoom
<1>3. Members(store, r) \subseteq Shown(r)
  BY <1>1, <1>2 DEF MembersNamed, Members, Shown, Pages
<1>4. times[r] \in Seq(PlayerID)
  BY <1>1, <1>2 DEF PageType, Pages
<1>5. Shown(r) \subseteq PlayerID
  BY <1>4 DEF Shown, Range
<1>6. CASE store.rooms[r].started
  BY <1>1, <1>2, <1>3, <1>5, <1>6
     DEF OthersLeft, Members, ActivePlayers, Shown, Flagged, Pages
<1>7. CASE ~ store.rooms[r].started
  BY <1>1, <1>2, <1>3, <1>5, <1>7 DEF OthersLeft, Members, Shown, Pages
<1> QED
  BY <1>1, <1>2, <1>3, <1>6, <1>7

(* The room dialog names everybody who is in the room, once, and of those  *)
(* who are not, only who was in the game that started, never as playing:   *)
(* for any number of players and rooms, whatever they do.                  *)
THEOREM NamesMembers == PageSpec => []PageNamesMembers
<1>1. PageInit => PageInv
  BY PageInvInit
<1>2. PageInv /\ [PageNext]_pageVars => PageInv'
  BY PageInvNext
<1>3. PageInv => PageNamesMembers
  BY PageNames
<1> QED
  BY <1>1, <1>2, <1>3, PTL DEF PageSpec

(* What a step makes of the order in which a room's players are named.     *)
LEMMA OrderStep ==
    ASSUME PageInv, [PageNext]_pageVars, NEW r \in Allocated(store),
           Members(store', r) # {}
    PROVE  LET last == Last(times'[r])
               stayed == (Members(store, r) \cap Members(store', r)) \ {last}
           IN  /\ \A p, q \in stayed :
                      Before(times'[r], p, q) <=> Before(times[r], p, q)
               /\ Members(store', r) \ Members(store, r) \subseteq {last}
<1>1. store \in StoreType
  BY DEF PageInv, PageOK
<1>2. r \in RoomID /\ r # NoRoom
  BY <1>1, BoundsAssumption DEF Allocated, StoreType, RoomID, NoRoom
<1>3. CASE PageNext
  <2>1. PICK x \in PlayerID : PageStep(x)
    BY <1>3, PageSteps
  <2>2. /\ \A a, b : a # x /\ b # x =>
              (Before(times'[r], a, b) <=> Before(times[r], a, b))
        /\ \A q \in PlayerID : q # x => store'.byPID[q] = store.byPID[q]
    BY <1>2, <2>1 DEF PageStep, OrderKept, Pages
  <2>3. \/ store'.byPID[x] # r
        \/ Last(times'[r]) = x
        \/ times' = times /\ store'.byPID = store.byPID
    BY <1>2, <2>1 DEF PageStep
  <2> QED
    BY <2>2, <2>3 DEF Members
<1>4. CASE UNCHANGED pageVars
  BY <1>4 DEF pageVars, Members
<1> QED
  BY <1>3, <1>4

(* The names are in the order of joining: whoever joins, again or for the  *)
(* first time, is named last, and no step changes the order of the others. *)
THEOREM JoinOrder == PageSpec => NamedInJoinOrder
<1>1. PageInit => PageInv
  BY PageInvInit
<1>2. PageInv /\ [PageNext]_pageVars => PageInv'
  BY PageInvNext
<1>3. PageInv /\ [PageNext]_pageVars =>
         \A r \in Allocated(store) : Members(store', r) # {} =>
            LET last == Last(times'[r])
                stayed == (Members(store, r) \cap Members(store', r)) \ {last}
            IN  /\ \A p, q \in stayed :
                       Before(times'[r], p, q) <=> Before(times[r], p, q)
                /\ Members(store', r) \ Members(store, r) \subseteq {last}
  BY OrderStep
<1> QED
  BY <1>1, <1>2, <1>3, PTL DEF PageSpec, NamedInJoinOrder

----------------------------------------------------------------------------
(* The row: after any joins, leaves and starts it is the one that          *)
(* RegisterNew would lay out, with the marks of a started room.            *)
(*                                                                         *)
(* The columns are counted from the left and from the right, so the two    *)
(* layouts are written out (Layout) and every edit is shown to reach its   *)
(* column in both; the title needs that a set of positions has ends.       *)

(* Every set of numbers has a least one: what holds of 0 and passes from n *)
(* to n + 1 has no least exception.                                        *)
LEMMA LeastNumber ==
    ASSUME NEW X \in SUBSET Nat, X # {}
    PROVE  \E n \in X : \A m \in X : n <= m
<1> DEFINE T == {1 .. n : n \in X}
           R == StrictSubsetOrdering(Nat)
<1>1. T \subseteq FiniteSubsetsOf(Nat) /\ T # {}
  <2>1. \A n \in Nat : IsFiniteSet(1 .. n) /\ 1 .. n \subseteq Nat
    BY FS_Interval
  <2> QED
    BY <2>1 DEF FiniteSubsetsOf
<1>2. PICK x \in T : \A y \in T : ~ (<<y, x>> \in R)
  <2> HIDE DEF T, R
  <2>1. IsWellFoundedOn(R, FiniteSubsetsOf(Nat))
    BY FS_StrictSubsetOrderingWellFounded DEF R
  <2> QED
    BY <1>1, <2>1, WFMin, Zenon
<1>3. PICK n \in X : x = 1 .. n
  BY <1>2
<1>4. ASSUME NEW m \in X, m < n
      PROVE  FALSE
  <2>1. 1 .. m \in T /\ 1 .. m \subseteq 1 .. n /\ 1 .. m # 1 .. n
    <3>1. n \in 1 .. n /\ n \notin 1 .. m /\ n \in Nat /\ m \in Nat
      BY <1>4
    <3> QED
      BY <3>1, <1>4
  <2>2. <<1 .. m, x>> \in R
    BY <1>3, <2>1 DEF StrictSubsetOrdering
  <2> QED
    BY <1>2, <2>1, <2>2
<1> QED
  BY <1>4

(* The ends of a set of numbers.                                           *)
LEMMA EndsAre ==
    ASSUME NEW K \in SUBSET Nat, NEW a \in K, NEW b \in K,
           \A j \in K : a <= j, \A j \in K : b >= j
    PROVE  /\ (CHOOSE i \in K : \A j \in K : i <= j) = a
           /\ (CHOOSE i \in K : \A j \in K : i >= j) = b
<1> DEFINE x == CHOOSE i \in K : \A j \in K : i <= j
           y == CHOOSE i \in K : \A j \in K : i >= j
<1>1. x \in K /\ \A j \in K : x <= j
  <2>1. \E i \in K : \A j \in K : i <= j
    OBVIOUS
  <2> QED
    BY <2>1, Zenon
<1>2. y \in K /\ \A j \in K : y >= j
  <2>1. \E i \in K : \A j \in K : i >= j
    OBVIOUS
  <2> QED
    BY <2>1, Zenon
<1> HIDE DEF x, y
<1>3. x = a /\ y = b
  BY <1>1, <1>2
<1> QED
  BY <1>3 DEF x, y

(* TrimSpace cuts what it was given and leaves nothing to trim.            *)
LEMMA TrimIs ==
    ASSUME NEW s \in Seq(Byte)
    PROVE  LET t == TrimSpace(s)
           IN  /\ t \in Seq(Byte) /\ Len(t) <= Len(s)
               /\ TrimSpace(t) = t
               /\ \A i \in DOMAIN t : \E j \in DOMAIN s : t[i] = s[j]
<1> DEFINE kept == {i \in DOMAIN s : s[i] # Space}
           t == TrimSpace(s)
<1>1. Len(s) \in Nat /\ DOMAIN s = 1 .. Len(s) /\ \A i \in 1 .. Len(s) : s[i] \in Byte
  OBVIOUS
<1>2. CASE kept = {}
  <2>1. t = <<>>
    BY <1>2 DEF TrimSpace
  <2>2. TrimSpace(<<>>) = <<>>
    BY DEF TrimSpace
  <2> QED
    BY <1>1, <2>1, <2>2
<1>3. CASE kept # {}
  <2>1. kept \in SUBSET Nat /\ kept \subseteq 1 .. Len(s)
    BY <1>1
  <2>2. PICK a \in kept : \A j \in kept : a <= j
    <3> HIDE DEF kept
    <3> QED
      BY <1>3, <2>1, LeastNumber
  <2>3. PICK b \in kept : \A j \in kept : b >= j
    <3> DEFINE X == {Len(s) - j : j \in kept}
    <3> HIDE DEF kept
    <3>1. X \in SUBSET Nat /\ X # {}
      BY <1>1, <1>3, <2>1
    <3>2. PICK x \in X : \A y \in X : x <= y
      <4> HIDE DEF X
      <4> QED
        BY <3>1, LeastNumber
    <3>3. PICK b \in kept : x = Len(s) - b
      OBVIOUS
    <3>4. \A j \in kept : b >= j
      <4> SUFFICES ASSUME NEW j \in kept
                   PROVE  b >= j
        OBVIOUS
      <4>1. Len(s) - b <= Len(s) - j
        BY <3>2, <3>3
      <4> QED
        BY <1>1, <2>1, <4>1
    <3> QED
      BY <3>4
  <2>4. t = SubSeq(s, a, b)
    <3>1. t = SubSeq(s, CHOOSE i \in kept : \A j \in kept : i <= j,
                        CHOOSE i \in kept : \A j \in kept : i >= j)
      BY <1>3 DEF TrimSpace
    <3> HIDE DEF kept, t
    <3>2. /\ (CHOOSE i \in kept : \A j \in kept : i <= j) = a
          /\ (CHOOSE i \in kept : \A j \in kept : i >= j) = b
      BY <2>1, <2>2, <2>3, EndsAre
    <3> QED
      BY <3>1, <3>2
  <2>5. a \in 1 .. Len(s) /\ b \in 1 .. Len(s) /\ a <= b /\ s[a] # Space /\ s[b] # Space
    BY <1>1, <2>1, <2>2, <2>3
  <2> HIDE DEF t, kept
  <2>6. /\ t \in Seq(Byte) /\ Len(t) = b - a + 1
        /\ \A i \in 1 .. b - a + 1 : t[i] = s[a + i - 1]
    <3>1. a \in Int /\ b \in Int /\ \A i \in a .. b : s[i] \in Byte
      BY <1>1, <2>5
    <3>2. /\ SubSeq(s, a, b) \in Seq(Byte)
          /\ Len(SubSeq(s, a, b)) = IF a <= b THEN b - a + 1 ELSE 0
          /\ \A i \in 1 .. b - a + 1 : SubSeq(s, a, b)[i] = s[a + i - 1]
      <4> HIDE DEF Byte
      <4> QED
        BY <3>1, SubSeqProperties
    <3> QED
      BY <2>4, <2>5, <3>2
  <2> DEFINE n == Len(t)
             kept2 == {i \in DOMAIN t : t[i] # Space}
  <2>7. n \in Nat /\ n = b - a + 1 /\ n >= 1 /\ DOMAIN t = 1 .. n
    BY <2>5, <2>6
  <2>8. t[1] = s[a] /\ t[n] = s[b]
    <3>1. 1 \in 1 .. b - a + 1 /\ n \in 1 .. b - a + 1 /\ a + 1 - 1 = a /\ a + n - 1 = b
      BY <2>5, <2>7
    <3> QED
      BY <2>6, <3>1
  <2>9. /\ 1 \in kept2 /\ n \in kept2 /\ kept2 \subseteq 1 .. n
    BY <2>5, <2>7, <2>8
  <2>10. TrimSpace(t) = t
    <3>1. TrimSpace(t) = SubSeq(t, CHOOSE i \in kept2 : \A j \in kept2 : i <= j,
                                   CHOOSE i \in kept2 : \A j \in kept2 : i >= j)
      BY <2>9 DEF TrimSpace
    <3> HIDE DEF kept2, n
    <3>2. /\ kept2 \in SUBSET Nat /\ 1 \in kept2 /\ n \in kept2
          /\ (\A j \in kept2 : 1 <= j) /\ \A j \in kept2 : n >= j
      BY <2>7, <2>9
    <3>3. /\ (CHOOSE i \in kept2 : \A j \in kept2 : i <= j) = 1
          /\ (CHOOSE i \in kept2 : \A j \in kept2 : i >= j) = n
      BY <3>2, EndsAre
    <3>4. SubSeq(t, 1, n) = t
      BY <2>6, SubSeqFull DEF n
    <3> QED
      BY <3>1, <3>3, <3>4
  <2>11. Len(t) <= Len(s)
    BY <1>1, <2>5, <2>6
  <2>12. ASSUME NEW i \in DOMAIN t
         PROVE  \E j \in DOMAIN s : t[i] = s[j]
    <3>1. i \in 1 .. b - a + 1 /\ a + i - 1 \in 1 .. Len(s)
      BY <1>1, <2>5, <2>7
    <3> QED
      BY <1>1, <2>6, <3>1
  <2> QED
    BY <2>6, <2>10, <2>11, <2>12 DEF t
<1> QED
  BY <1>2, <1>3

(* NormalizeTitle of a title that ValidateTitle lets pass.                 *)
LEMMA NormalizedTitle ==
    ASSUME NEW raw \in Seq(Byte), ValidateTitle(raw)
    PROVE  LET t == NormalizeTitle(raw)
           IN  /\ t \in Seq(Byte) /\ Len(t) <= MaxTitleLen /\ TrimSpace(t) = t
               /\ \A i \in DOMAIN t : ~ IsControl(t[i])
<1> DEFINE n == IF Len(raw) > MaxTitleLen THEN MaxTitleLen ELSE Len(raw)
           cut == SubSeq(raw, 1, n)
           t == TrimSpace(cut)
<1>1. Len(raw) \in Nat /\ MaxTitleLen \in Nat /\ DOMAIN raw = 1 .. Len(raw)
  BY RowAssumption
<1>2. n \in 0 .. Len(raw) /\ n <= MaxTitleLen
  BY <1>1
<1> HIDE DEF n
<1>3. /\ cut \in Seq(Byte) /\ Len(cut) = n
      /\ \A i \in 1 .. n : cut[i] = raw[i]
  <2>1. n \in Int /\ \A i \in 1 .. n : raw[i] \in Byte
    BY <1>1, <1>2
  <2>2. /\ SubSeq(raw, 1, n) \in Seq(Byte)
        /\ Len(SubSeq(raw, 1, n)) = IF 1 <= n THEN n - 1 + 1 ELSE 0
        /\ \A i \in 1 .. n - 1 + 1 : SubSeq(raw, 1, n)[i] = raw[1 + i - 1]
    <3> HIDE DEF Byte
    <3> QED
      BY <2>1, SubSeqProperties
  <2>3. \A i \in 1 .. n : 1 + i - 1 = i
    OBVIOUS
  <2>4. n - 1 + 1 = n /\ (~ (1 <= n) => n = 0)
    BY <1>2
  <2> QED
    BY <2>2, <2>3, <2>4
<1> HIDE DEF cut
<1>4. /\ t \in Seq(Byte) /\ Len(t) <= Len(cut) /\ TrimSpace(t) = t
      /\ \A i \in DOMAIN t : \E j \in DOMAIN cut : t[i] = cut[j]
  <2> HIDE DEF Byte
  <2> QED
    BY <1>3, TrimIs
<1>5. NormalizeTitle(raw) = t
  BY DEF NormalizeTitle, cut, n
<1> HIDE DEF t
<1>6. Len(t) <= MaxTitleLen
  BY <1>1, <1>2, <1>3, <1>4
<1>7. ASSUME NEW i \in DOMAIN t
      PROVE  ~ IsControl(t[i])
  <2>1. PICK j \in DOMAIN cut : t[i] = cut[j]
    BY <1>4
  <2>2. j \in 1 .. n /\ j \in DOMAIN raw /\ cut[j] = raw[j]
    BY <1>1, <1>2, <1>3
  <2> QED
    BY <2>1, <2>2 DEF ValidateTitle
<1> QED
  BY <1>4, <1>5, <1>6, <1>7

(* Nine columns out of four and five.                                      *)
LEMMA NineColumns ==
    ASSUME NEW a, NEW b, NEW c, NEW d, NEW e, NEW f, NEW g, NEW h, NEW i
    PROVE  <<a, b, c, d>> \o <<e, f, g, h, i>> = <<a, b, c, d, e, f, g, h, i>>
<1> DEFINE u == <<a, b, c, d>>
           v == <<e, f, g, h, i>>
           w == <<a, b, c, d, e, f, g, h, i>>
           S == {a, b, c, d, e, f, g, h, i}
           x == u \o v
<1>1. /\ u \in Seq(S) /\ Len(u) = 4
      /\ u[1] = a /\ u[2] = b /\ u[3] = c /\ u[4] = d
  OBVIOUS
<1>2. /\ v \in Seq(S) /\ Len(v) = 5
      /\ v[1] = e /\ v[2] = f /\ v[3] = g /\ v[4] = h /\ v[5] = i
  OBVIOUS
<1>3. /\ w \in Seq(S) /\ Len(w) = 9
      /\ w[1] = a /\ w[2] = b /\ w[3] = c /\ w[4] = d /\ w[5] = e
      /\ w[6] = f /\ w[7] = g /\ w[8] = h /\ w[9] = i
  OBVIOUS
<1> HIDE DEF u, v, w, S
<1>4. /\ x \in Seq(S) /\ Len(x) = Len(u) + Len(v)
      /\ \A k \in 1 .. Len(u) + Len(v) :
            x[k] = IF k <= Len(u) THEN u[k] ELSE v[k - Len(u)]
  <2>1. u \in Seq(S) /\ v \in Seq(S)
    BY <1>1, <1>2
  <2> QED
    BY <2>1, ConcatProperties
<1> HIDE DEF x
<1>5. /\ Len(x) = 9
      /\ \A k \in 1 .. 9 : x[k] = IF k <= 4 THEN u[k] ELSE v[k - 4]
  <2>1. Len(u) = 4 /\ Len(v) = 5 /\ Len(u) + Len(v) = 9
    BY <1>1, <1>2
  <2> QED
    BY <1>4, <2>1
<1>6. ASSUME NEW k \in 1 .. 9
      PROVE  x[k] = w[k]
  <2>1. CASE k <= 4
    <3>1. k = 1 \/ k = 2 \/ k = 3 \/ k = 4
      BY <2>1
    <3>2. x[k] = u[k]
      BY <1>5, <2>1
    <3> QED
      BY <1>1, <1>3, <3>1, <3>2
  <2>2. CASE ~ (k <= 4)
    <3>1. k = 5 \/ k = 6 \/ k = 7 \/ k = 8 \/ k = 9
      BY <2>2
    <3>2. x[k] = v[k - 4]
      BY <1>5, <2>2
    <3> QED
      BY <1>2, <1>3, <3>1, <3>2
  <2> QED
    BY <2>1, <2>2
<1>7. x = w
  BY <1>3, <1>4, <1>5, <1>6, SeqEqual
<1> QED
  BY <1>7 DEF u, v, w, x

(* The four columns of every row with the one of American Conquest.        *)
LEMMA FiveColumns ==
    ASSUME NEW a, NEW b, NEW c, NEW d, NEW e
    PROVE  <<a, b, c, d>> \o <<e>> = <<a, b, c, d, e>>
<1> DEFINE u == <<a, b, c, d>>
           v == <<e>>
           w == <<a, b, c, d, e>>
           S == {a, b, c, d, e}
           x == u \o v
<1>1. /\ u \in Seq(S) /\ Len(u) = 4
      /\ u[1] = a /\ u[2] = b /\ u[3] = c /\ u[4] = d
  OBVIOUS
<1>2. /\ v \in Seq(S) /\ Len(v) = 1
      /\ v[1] = e
  OBVIOUS
<1>3. /\ w \in Seq(S) /\ Len(w) = 5
      /\ w[1] = a /\ w[2] = b /\ w[3] = c /\ w[4] = d /\ w[5] = e
  OBVIOUS
<1> HIDE DEF u, v, w, S
<1>4. /\ x \in Seq(S) /\ Len(x) = Len(u) + Len(v)
      /\ \A k \in 1 .. Len(u) + Len(v) :
            x[k] = IF k <= Len(u) THEN u[k] ELSE v[k - Len(u)]
  <2>1. u \in Seq(S) /\ v \in Seq(S)
    BY <1>1, <1>2
  <2> QED
    BY <2>1, ConcatProperties
<1> HIDE DEF x
<1>5. /\ Len(x) = 5
      /\ \A k \in 1 .. 5 : x[k] = IF k <= 4 THEN u[k] ELSE v[k - 4]
  <2>1. Len(u) = 4 /\ Len(v) = 1 /\ Len(u) + Len(v) = 5
    BY <1>1, <1>2
  <2> QED
    BY <1>4, <2>1
<1>6. ASSUME NEW k \in 1 .. 5
      PROVE  x[k] = w[k]
  <2>1. CASE k <= 4
    <3>1. k = 1 \/ k = 2 \/ k = 3 \/ k = 4
      BY <2>1
    <3>2. x[k] = u[k]
      BY <1>5, <2>1
    <3> QED
      BY <1>1, <1>3, <3>1, <3>2
  <2>2. CASE ~ (k <= 4)
    <3>1. k = 5
      BY <2>2
    <3>2. x[k] = v[k - 4]
      BY <1>5, <2>2
    <3> QED
      BY <1>2, <1>3, <3>1, <3>2
  <2> QED
    BY <2>1, <2>2
<1>7. x = w
  BY <1>3, <1>4, <1>5, <1>6, SeqEqual
<1> QED
  BY <1>7 DEF u, v, w, x

(* Ten columns out of five and five.                                       *)
LEMMA TenColumns ==
    ASSUME NEW a, NEW b, NEW c, NEW d, NEW e, NEW f, NEW g, NEW h, NEW i, NEW j
    PROVE  <<a, b, c, d, e>> \o <<f, g, h, i, j>> = <<a, b, c, d, e, f, g, h, i, j>>
<1> DEFINE u == <<a, b, c, d, e>>
           v == <<f, g, h, i, j>>
           w == <<a, b, c, d, e, f, g, h, i, j>>
           S == {a, b, c, d, e, f, g, h, i, j}
           x == u \o v
<1>1. /\ u \in Seq(S) /\ Len(u) = 5
      /\ u[1] = a /\ u[2] = b /\ u[3] = c /\ u[4] = d /\ u[5] = e
  OBVIOUS
<1>2. /\ v \in Seq(S) /\ Len(v) = 5
      /\ v[1] = f /\ v[2] = g /\ v[3] = h /\ v[4] = i /\ v[5] = j
  OBVIOUS
<1>3. /\ w \in Seq(S) /\ Len(w) = 10
      /\ w[1] = a /\ w[2] = b /\ w[3] = c /\ w[4] = d /\ w[5] = e
      /\ w[6] = f /\ w[7] = g /\ w[8] = h /\ w[9] = i /\ w[10] = j
  OBVIOUS
<1> HIDE DEF u, v, w, S
<1>4. /\ x \in Seq(S) /\ Len(x) = Len(u) + Len(v)
      /\ \A k \in 1 .. Len(u) + Len(v) :
            x[k] = IF k <= Len(u) THEN u[k] ELSE v[k - Len(u)]
  <2>1. u \in Seq(S) /\ v \in Seq(S)
    BY <1>1, <1>2
  <2> QED
    BY <2>1, ConcatProperties
<1> HIDE DEF x
<1>5. /\ Len(x) = 10
      /\ \A k \in 1 .. 10 : x[k] = IF k <= 5 THEN u[k] ELSE v[k - 5]
  <2>1. Len(u) = 5 /\ Len(v) = 5 /\ Len(u) + Len(v) = 10
    BY <1>1, <1>2
  <2> QED
    BY <1>4, <2>1
<1>6. ASSUME NEW k \in 1 .. 10
      PROVE  x[k] = w[k]
  <2>1. CASE k <= 5
    <3>1. k = 1 \/ k = 2 \/ k = 3 \/ k = 4 \/ k = 5
      BY <2>1
    <3>2. x[k] = u[k]
      BY <1>5, <2>1
    <3> QED
      BY <1>1, <1>3, <3>1, <3>2
  <2>2. CASE ~ (k <= 5)
    <3>1. k = 6 \/ k = 7 \/ k = 8 \/ k = 9 \/ k = 10
      BY <2>2
    <3>2. x[k] = v[k - 5]
      BY <1>5, <2>2
    <3> QED
      BY <1>2, <1>3, <3>1, <3>2
  <2> QED
    BY <2>1, <2>2
<1>7. x = w
  BY <1>3, <1>4, <1>5, <1>6, SeqEqual
<1> QED
  BY <1>7 DEF u, v, w, x

(* A byte before eight others.                                             *)
LEMMA Prefixed ==
    ASSUME NEW S, NEW x \in S, NEW g \in Seq(S), Len(g) = 8
    PROVE  /\ <<x>> \o g \in Seq(S) /\ Len(<<x>> \o g) = 9
           /\ (<<x>> \o g)[1] = x
           /\ \A k \in 2 .. 9 : (<<x>> \o g)[k] = g[k - 1]
           /\ Tail(<<x>> \o g) = g
<1> DEFINE e == <<x>>
           f == e \o g
<1>1. e \in Seq(S) /\ Len(e) = 1 /\ e[1] = x
  OBVIOUS
<1> HIDE DEF e
<1>2. /\ f \in Seq(S) /\ Len(f) = Len(e) + Len(g)
      /\ \A k \in 1 .. Len(e) + Len(g) :
            f[k] = IF k <= Len(e) THEN e[k] ELSE g[k - Len(e)]
  <2>1. e \in Seq(S)
    BY <1>1
  <2> QED
    BY <2>1, ConcatProperties
<1> HIDE DEF f
<1>3. /\ Len(f) = 9
      /\ \A k \in 1 .. 9 : f[k] = IF k <= 1 THEN e[k] ELSE g[k - 1]
  <2>1. Len(e) = 1 /\ Len(g) = 8 /\ Len(e) + Len(g) = 9
    BY <1>1
  <2> QED
    BY <1>2, <2>1
<1>4. f[1] = x /\ \A k \in 2 .. 9 : f[k] = g[k - 1]
  <2>1. f[1] = e[1]
    BY <1>3
  <2>2. ASSUME NEW k \in 2 .. 9
        PROVE  f[k] = g[k - 1]
    <3>1. k \in 1 .. 9 /\ ~ (k <= 1)
      OBVIOUS
    <3> QED
      BY <1>3, <3>1
  <2> QED
    BY <1>1, <2>1, <2>2
<1>5. f # << >>
  <2>1. (f = << >>) <=> (Len(f) = 0)
    BY <1>2, EmptySeq
  <2> QED
    BY <1>3, <2>1
<1>6. /\ Tail(f) \in Seq(S) /\ Len(Tail(f)) = 8
      /\ \A k \in 1 .. 8 : Tail(f)[k] = f[k + 1]
  <2>1. /\ Tail(f) \in Seq(S) /\ Len(Tail(f)) = Len(f) - 1
        /\ \A k \in 1 .. Len(Tail(f)) : Tail(f)[k] = f[k + 1]
    BY <1>2, <1>5, HeadTailProperties
  <2>2. Len(Tail(f)) = 8
    BY <1>3, <2>1
  <2> QED
    BY <2>1, <2>2
<1>7. ASSUME NEW k \in 1 .. 8
      PROVE  Tail(f)[k] = g[k]
  <2>1. k + 1 \in 2 .. 9 /\ (k + 1) - 1 = k
    OBVIOUS
  <2> QED
    BY <1>4, <1>6, <2>1
<1>8. Tail(f) = g
  BY <1>6, <1>7, SeqEqual
<1> QED
  BY <1>2, <1>3, <1>4, <1>8 DEF e, f
(* A row of either game, by its columns.                                   *)
Layout(i, mark, t, isAC, players, flag) ==
    IF isAC
    THEN <<Decimal(i), mark, t, Nick, VEType, LevelLabel, players, Ver, HostAddrInt, flag>>
    ELSE <<Decimal(i), mark, t, Nick, LevelLabel, players, Ver, HostAddrInt, flag>>

LEMMA LayoutIs ==
    ASSUME NEW i, NEW mark, NEW t, NEW isAC \in BOOLEAN, NEW players, NEW flag
    PROVE  <<Decimal(i), mark, t, Nick>> \o (IF isAC THEN <<VEType>> ELSE <<>>)
               \o <<LevelLabel, players, Ver, HostAddrInt, flag>>
           = Layout(i, mark, t, isAC, players, flag)
<1>1. CASE isAC
  <2>1. <<Decimal(i), mark, t, Nick>> \o <<VEType>> = <<Decimal(i), mark, t, Nick, VEType>>
    BY FiveColumns
  <2>2. <<Decimal(i), mark, t, Nick, VEType>> \o <<LevelLabel, players, Ver, HostAddrInt, flag>>
            = <<Decimal(i), mark, t, Nick, VEType, LevelLabel, players, Ver, HostAddrInt, flag>>
    BY TenColumns
  <2> QED
    BY <1>1, <2>1, <2>2, Zenon DEF Layout
<1>2. CASE ~ isAC
  <2> DEFINE four == <<Decimal(i), mark, t, Nick>>
  <2>1. four \o << >> = four
    <3>1. four \in Seq({Decimal(i), mark, t, Nick})
      OBVIOUS
    <3> QED
      BY <3>1, ConcatEmptySeq
  <2>2. four \o <<LevelLabel, players, Ver, HostAddrInt, flag>>
            = <<Decimal(i), mark, t, Nick, LevelLabel, players, Ver, HostAddrInt, flag>>
    BY NineColumns
  <2> QED
    BY <1>2, <2>1, <2>2, Zenon DEF Layout
<1> QED
  BY <1>1, <1>2

LEMMA PlayersEdited ==
    ASSUME NEW i, NEW mark, NEW t, NEW isAC \in BOOLEAN, NEW players, NEW flag, NEW n, NEW m
    PROVE  PutPlayersColumn(Layout(i, mark, t, isAC, players, flag), n, m)
               = Layout(i, mark, t, isAC, PlayersColumn(n, m), flag)
<1> DEFINE a == Decimal(i)
           c == PlayersColumn(n, m)
<1> HIDE DEF a, c
<1>1. CASE isAC
  <2> DEFINE w == <<a, mark, t, Nick, VEType, LevelLabel, players, Ver, HostAddrInt, flag>>
  <2>1. Len(w) - 3 = 7
    OBVIOUS
  <2>2. [w EXCEPT ![7] = c]
            = <<a, mark, t, Nick, VEType, LevelLabel, c, Ver, HostAddrInt, flag>>
    OBVIOUS
  <2> QED
    BY <1>1, <2>1, <2>2 DEF Layout, PutPlayersColumn, a, c
<1>2. CASE ~ isAC
  <2> DEFINE w == <<a, mark, t, Nick, LevelLabel, players, Ver, HostAddrInt, flag>>
  <2>1. Len(w) - 3 = 6
    OBVIOUS
  <2>2. [w EXCEPT ![6] = c] = <<a, mark, t, Nick, LevelLabel, c, Ver, HostAddrInt, flag>>
    OBVIOUS
  <2> QED
    BY <1>2, <2>1, <2>2 DEF Layout, PutPlayersColumn, a, c
<1> QED
  BY <1>1, <1>2

LEMMA StartEdited ==
    ASSUME NEW i, NEW mark, NEW t, NEW isAC \in BOOLEAN, NEW players, NEW flag
    PROVE  MarkedRow(Layout(i, mark, t, isAC, players, flag))
               = Layout(i, StartedMark, t, isAC, players, [flag EXCEPT ![1] = Digit0 + 1])
<1> DEFINE a == Decimal(i)
           s == StartedMark
           f == [flag EXCEPT ![1] = Digit0 + 1]
<1>0. \A w : MarkedRow(w) = [[w EXCEPT ![2] = s] EXCEPT ![Len(w)] = [@ EXCEPT ![1] = Digit0 + 1]]
  BY DEF MarkedRow
<1> HIDE DEF a, s, f
<1>1. CASE isAC
  <2> DEFINE w == <<a, mark, t, Nick, VEType, LevelLabel, players, Ver, HostAddrInt, flag>>
             v == [w EXCEPT ![2] = s]
  <2>1. Len(w) = 10
    OBVIOUS
  <2>2. v = <<a, s, t, Nick, VEType, LevelLabel, players, Ver, HostAddrInt, flag>>
    OBVIOUS
  <2>3. [v EXCEPT ![10] = f]
            = <<a, s, t, Nick, VEType, LevelLabel, players, Ver, HostAddrInt, f>>
    BY <2>2
  <2>4. v[10] = flag
    BY <2>2
  <2>5. Layout(i, mark, t, isAC, players, flag) = w
    BY <1>1 DEF Layout, a
  <2>6. MarkedRow(w) = [v EXCEPT ![10] = f]
    <3>1. MarkedRow(w) = [v EXCEPT ![Len(w)] = [@ EXCEPT ![1] = Digit0 + 1]]
      BY <1>0
    <3>2. [v EXCEPT ![10] = [@ EXCEPT ![1] = Digit0 + 1]]
              = [v EXCEPT ![10] = [v[10] EXCEPT ![1] = Digit0 + 1]]
      OBVIOUS
    <3> HIDE DEF v, w
    <3> QED
      BY <2>1, <2>4, <3>1, <3>2 DEF f
  <2> QED
    BY <1>1, <2>3, <2>5, <2>6 DEF Layout, a, s, f
<1>2. CASE ~ isAC
  <2> DEFINE w == <<a, mark, t, Nick, LevelLabel, players, Ver, HostAddrInt, flag>>
             v == [w EXCEPT ![2] = s]
  <2>1. Len(w) = 9
    OBVIOUS
  <2>2. v = <<a, s, t, Nick, LevelLabel, players, Ver, HostAddrInt, flag>>
    OBVIOUS
  <2>3. [v EXCEPT ![9] = f]
            = <<a, s, t, Nick, LevelLabel, players, Ver, HostAddrInt, f>>
    BY <2>2
  <2>4. v[9] = flag
    BY <2>2
  <2>5. Layout(i, mark, t, isAC, players, flag) = w
    BY <1>2 DEF Layout, a
  <2>6. MarkedRow(w) = [v EXCEPT ![9] = f]
    <3>1. MarkedRow(w) = [v EXCEPT ![Len(w)] = [@ EXCEPT ![1] = Digit0 + 1]]
      BY <1>0
    <3>2. [v EXCEPT ![9] = [@ EXCEPT ![1] = Digit0 + 1]]
              = [v EXCEPT ![9] = [v[9] EXCEPT ![1] = Digit0 + 1]]
      OBVIOUS
    <3> HIDE DEF v, w
    <3> QED
      BY <2>1, <2>4, <3>1, <3>2 DEF f
  <2> QED
    BY <1>2, <2>3, <2>5, <2>6 DEF Layout, a, s, f
<1> QED
  BY <1>1, <1>2

(* The last column, its first byte the flag of a started room.             *)
Flag(i, d) == <<Digit0 + d>> \o Tail(FlagAndComplement(i))

LEMMA FlagIs ==
    ASSUME NEW i
    PROVE  /\ FlagAndComplement(i) = Flag(i, 0)
           /\ \A d \in {0, 1} : [Flag(i, d) EXCEPT ![1] = Digit0 + 1] = Flag(i, 1)
<1> DEFINE Hex(k) == LET d == 15 - ((i \div 16^(8 - k)) % 16)
                     IN  IF d < 10 THEN Digit0 + d ELSE 55 + d
           g == [k \in 1 .. 8 |-> Hex(k)]
           S == {g[k] : k \in 1 .. 8} \cup {48, 49}
           f == FlagAndComplement(i)
<1>1. f = <<48>> \o g
  BY DEF FlagAndComplement, Digit0
<1> HIDE DEF Hex
<1>2. g \in Seq(S) /\ Len(g) = 8
  OBVIOUS
<1> HIDE DEF g, S, f
<1>3. \A x \in {48, 49} :
          /\ <<x>> \o g \in Seq(S) /\ Len(<<x>> \o g) = 9
          /\ (<<x>> \o g)[1] = x
          /\ \A k \in 2 .. 9 : (<<x>> \o g)[k] = g[k - 1]
          /\ Tail(<<x>> \o g) = g
  <2> SUFFICES ASSUME NEW x \in {48, 49}
               PROVE  /\ <<x>> \o g \in Seq(S) /\ Len(<<x>> \o g) = 9
                      /\ (<<x>> \o g)[1] = x
                      /\ \A k \in 2 .. 9 : (<<x>> \o g)[k] = g[k - 1]
                      /\ Tail(<<x>> \o g) = g
    OBVIOUS
  <2>1. x \in S /\ g \in Seq(S) /\ Len(g) = 8
    BY <1>2 DEF S
  <2> QED
    BY ONLY <2>1, Prefixed, SMTT(30)
<1>4. Flag(i, 0) = <<48>> \o g /\ Flag(i, 1) = <<49>> \o g
  <2>1. Tail(f) = g
    BY <1>1, <1>3
  <2>2. Digit0 + 0 = 48 /\ Digit0 + 1 = 49
    BY DEF Digit0
  <2> QED
    BY <2>1, <2>2 DEF Flag, f
<1>5. ASSUME NEW x \in {48, 49}
      PROVE  [<<x>> \o g EXCEPT ![1] = 49] = <<49>> \o g
  <2> DEFINE u == <<x>> \o g
             v == <<49>> \o g
             y == [u EXCEPT ![1] = 49]
  <2>1. /\ u \in Seq(S) /\ Len(u) = 9 /\ \A k \in 2 .. 9 : u[k] = g[k - 1]
        /\ v \in Seq(S) /\ Len(v) = 9 /\ v[1] = 49 /\ \A k \in 2 .. 9 : v[k] = g[k - 1]
    BY <1>3
  <2>2. 49 \in S
    BY DEF S
  <2> HIDE DEF u, v
  <2>3. /\ y \in Seq(S) /\ Len(y) = 9 /\ y[1] = 49
        /\ \A k \in 2 .. 9 : y[k] = u[k]
    <3>1. u \in Seq(S) /\ 1 \in 1 .. Len(u)
      BY <2>1
    <3>2. PICK j \in 1 .. Len(u), c \in S : j = 1 /\ c = 49
      BY <2>2, <3>1
    <3>3. /\ [u EXCEPT ![j] = c] \in Seq(S) /\ Len([u EXCEPT ![j] = c]) = Len(u)
          /\ \A k \in 1 .. Len(u) : [u EXCEPT ![j] = c][k] = IF k = j THEN c ELSE u[k]
      BY <3>1, ExceptSeq
    <3>4. y = [u EXCEPT ![j] = c]
      BY <3>2
    <3> HIDE DEF y
    <3>5. /\ y \in Seq(S) /\ Len(y) = Len(u)
          /\ \A k \in 1 .. Len(u) : y[k] = IF k = j THEN c ELSE u[k]
      BY <3>3, <3>4
    <3>6. Len(y) = 9 /\ \A k \in 1 .. 9 : y[k] = IF k = 1 THEN 49 ELSE u[k]
      BY <2>1, <3>2, <3>5
    <3> QED
      BY <3>5, <3>6
  <2> HIDE DEF y
  <2>4. ASSUME NEW k \in 1 .. 9
        PROVE  y[k] = v[k]
    <3>1. k = 1 \/ k \in 2 .. 9
      OBVIOUS
    <3> QED
      BY <2>1, <2>3, <3>1
  <2>5. y = v
    BY <2>1, <2>3, <2>4, SeqEqual, SMTT(30)
  <2> QED
    BY <2>5 DEF u, v, y
<1>6. Digit0 + 1 = 49
  BY DEF Digit0
<1> QED
  BY <1>1, <1>4, <1>5, <1>6 DEF f

(* The row a room has when its players column says n.                      *)
Shows(n) ==
    Layout(id, IF started THEN StartedMark ELSE LockMark(locked), title, ac,
           PlayersColumn(n, max), Flag(id, IF started THEN 1 ELSE 0))

(* The count never passes the capacity once somebody has joined, which the *)
(* column of a room that was started and left needs.                       *)
RowInv ==
    /\ ac \in BOOLEAN /\ started \in BOOLEAN /\ count \in Int /\ max \in Int
    /\ count > 1 => count <= max
    /\ id # 0 => \E n \in {count} \cup count .. max :
                     row = Shows(n) /\ (~ started => n = count)
    /\ TitleClean

LEMMA RowInvSays == RowInv => RowSound
<1> SUFFICES ASSUME RowInv
             PROVE  RowSound
  OBVIOUS
<1>1. RowCurrent
  <2> SUFFICES ASSUME id # 0
               PROVE  RowCurrent
    BY DEF RowCurrent
  <2>1. PICK n \in {count} \cup count .. max : row = Shows(n) /\ (~ started => n = count)
    BY DEF RowInv
  <2> DEFINE mark == IF started THEN StartedMark ELSE LockMark(locked)
             players == PlayersColumn(n, max)
             flag == <<Digit0 + (IF started THEN 1 ELSE 0)>> \o Tail(FlagAndComplement(id))
  <2>2. flag = Flag(id, IF started THEN 1 ELSE 0)
    BY DEF Flag
  <2> HIDE DEF mark, players, flag
  <2>3. <<Decimal(id), mark, title, Nick>> \o (IF ac THEN <<VEType>> ELSE <<>>)
            \o <<LevelLabel, players, Ver, HostAddrInt, flag>>
        = Layout(id, mark, title, ac, players, flag)
    BY LayoutIs DEF RowInv
  <2>4. Layout(id, mark, title, ac, players, flag) = Shows(n)
    BY <2>2 DEF Shows, mark, players
  <2>5. row = <<Decimal(id), mark, title, Nick>> \o (IF ac THEN <<VEType>> ELSE <<>>)
                  \o <<LevelLabel, players, Ver, HostAddrInt, flag>>
    BY <2>1, <2>3, <2>4
  <2> QED
    BY <2>1, <2>5, Zenon DEF RowCurrent, mark, players, flag
<1> QED
  BY <1>1 DEF RowSound, RowInv

LEMMA RowInvInit == RowInit => RowInv
<1> SUFFICES ASSUME RowInit
             PROVE  RowInv
  OBVIOUS
<1>1. TrimSpace(<< >>) = << >> /\ Len(<< >>) = 0 /\ DOMAIN << >> = {}
  BY DEF TrimSpace
<1>2. TitleClean
  BY <1>1, RowAssumption DEF RowInit, TitleClean
<1>3. id = 0 /\ ac = FALSE /\ started = FALSE /\ count = 0 /\ max = 0
  BY DEF RowInit
<1>4. /\ ac \in BOOLEAN /\ started \in BOOLEAN /\ count \in Int /\ max \in Int
      /\ count > 1 => count <= max
  <2>1. ac \in BOOLEAN /\ started \in BOOLEAN
    BY <1>3, Zenon
  <2>2. count \in Int /\ max \in Int /\ ~ (count > 1)
    <3>1. count = 0 /\ max = 0
      BY <1>3
    <3> QED
      BY <3>1
  <2> QED
    BY <2>1, <2>2
<1> QED
  BY <1>2, <1>3, <1>4 DEF RowInv

(* A new number in the players column.                                     *)
LEMMA RowInvCounts ==
    ASSUME RowInv, NEW n \in Int, id # 0, ~ started, n > 1 => n <= max, CountRow(n)
    PROVE  RowInv'
<1>1. row = Shows(count)
  BY DEF RowInv
<1> DEFINE mark == LockMark(locked)
           flag == Flag(id, 0)
<1>2. Shows(count) = Layout(id, mark, title, ac, PlayersColumn(count, max), flag)
  BY DEF Shows
<1> HIDE DEF mark, flag
<1>3. row' = Layout(id, mark, title, ac, PlayersColumn(n, max), flag)
  <2>1. row' = PutPlayersColumn(row, n, max)
    BY DEF CountRow, KeepRow
  <2>2. ac \in BOOLEAN
    BY DEF RowInv
  <2> QED
    BY <1>1, <1>2, <2>1, <2>2, PlayersEdited
<1>4. /\ UNCHANGED <<id, ac, title, locked, max, started>> /\ count' = n
  BY DEF CountRow
<1>5. Shows(n)' = Layout(id, mark, title, ac, PlayersColumn(n, max), flag)
  BY <1>4 DEF Shows, mark, flag
<1>6. TitleClean'
  BY <1>4 DEF RowInv, TitleClean
<1> QED
  BY <1>3, <1>4, <1>5, <1>6 DEF RowInv

LEMMA RowInvNext == RowInv /\ [RowNext]_rowVars => RowInv'
<1> SUFFICES ASSUME RowInv, [RowNext]_rowVars
             PROVE  RowInv'
  OBVIOUS
<1>1. ASSUME NEW r \in RoomIDs, NEW raw \in RawTitles, NEW l \in BOOLEAN,
             NEW isAC \in BOOLEAN, NEW m \in RowCapacities,
             RegNewRow(r, raw, l, isAC, m)
      PROVE  RowInv'
  <2>1. /\ id' = r /\ ac' = isAC /\ locked' = l /\ max' = m /\ title' = NormalizeTitle(raw)
        /\ count' = 1 /\ started' = FALSE /\ row' = NewRow(r, l, title', isAC, m)
    BY <1>1 DEF RegNewRow, KeepRow
  <2>2. TitleClean'
    <3>1. raw \in Seq(Byte) /\ ValidateTitle(raw)
      BY <1>1, RowAssumption DEF RegNewRow
    <3>2. LET t == NormalizeTitle(raw)
          IN  /\ t \in Seq(Byte) /\ Len(t) <= MaxTitleLen /\ TrimSpace(t) = t
              /\ \A i \in DOMAIN t : ~ IsControl(t[i])
      BY <3>1, NormalizedTitle
    <3> QED
      BY <2>1, <3>2 DEF TitleClean
  <2>3. row' = Layout(r, LockMark(l), title', isAC, PlayersColumn(1, m), Flag(r, 0))
    <3>1. FlagAndComplement(r) = Flag(r, 0)
      BY FlagIs
    <3> DEFINE a == LockMark(l)
               c == PlayersColumn(1, m)
               f == FlagAndComplement(r)
    <3>2. NewRow(r, l, title', isAC, m)
            = <<Decimal(r), a, title', Nick>> \o (IF isAC THEN <<VEType>> ELSE <<>>)
                  \o <<LevelLabel, c, Ver, HostAddrInt, f>>
      BY DEF NewRow
    <3> HIDE DEF a, c, f
    <3>3. NewRow(r, l, title', isAC, m) = Layout(r, a, title', isAC, c, f)
      BY <3>2, LayoutIs
    <3> QED
      BY <2>1, <3>1, <3>3 DEF a, c, f
  <2>4. Shows(1)' = Layout(r, LockMark(l), title', isAC, PlayersColumn(1, m), Flag(r, 0))
    BY <2>1 DEF Shows
  <2>5. m \in Int
    BY RowAssumption
  <2>6. \E n \in {count'} \cup count' .. max' :
            row' = Shows(n)' /\ (~ started' => n = count')
    <3>1. count' = 1 /\ row' = Shows(1)'
      BY <2>1, <2>3, <2>4
    <3> QED
      BY <3>1
  <2>7. /\ ac' \in BOOLEAN /\ started' \in BOOLEAN /\ count' \in Int /\ max' \in Int
        /\ ~ (count' > 1)
    <3>1. ac' \in BOOLEAN /\ started' \in BOOLEAN
      BY <2>1, Zenon
    <3>2. count' = 1 /\ max' = m
      BY <2>1
    <3> QED
      BY <2>5, <3>1, <3>2
  <2> QED
    BY <2>2, <2>6, <2>7 DEF RowInv
<1>2. CASE JoinRow
  <2>1. /\ id # 0 /\ ~ started /\ count + 1 <= max /\ count + 1 \in Int
        /\ CountRow(count + 1)
    BY <1>2 DEF JoinRow, RowInv
  <2> QED
    BY <2>1, RowInvCounts
<1>3. CASE LeaveRow
  <2>1. /\ id # 0 /\ ~ started /\ count - 1 <= max /\ count - 1 \in Int
        /\ CountRow(count - 1)
    BY <1>3 DEF LeaveRow, RowInv
  <2> QED
    BY <2>1, RowInvCounts
<1>4. CASE LeaveStarted
  <2>1. /\ started /\ count > 1 /\ count' = count - 1 /\ row' = row
        /\ UNCHANGED <<id, ac, title, locked, max, started>>
    BY <1>4 DEF LeaveStarted, KeepRow
  <2>2. TitleClean'
    BY <2>1 DEF RowInv, TitleClean
  <2>3. ASSUME NEW n
        PROVE  Shows(n)' = Shows(n)
    BY <2>1 DEF Shows
  <2>4. ASSUME id # 0
        PROVE  \E n \in {count - 1} \cup (count - 1) .. max : row = Shows(n)
    <3>1. PICK n \in {count} \cup count .. max : row = Shows(n)
      BY <2>4 DEF RowInv
    <3>2. n \in (count - 1) .. max
      BY <2>1, <3>1 DEF RowInv
    <3> QED
      BY <3>1, <3>2
  <2> QED
    BY <2>1, <2>2, <2>3, <2>4 DEF RowInv
<1>5. CASE MarkStarted
  <2>1. /\ id # 0 /\ started' = TRUE /\ row' = MarkedRow(row)
        /\ UNCHANGED <<id, ac, title, locked, max, count>>
    BY <1>5 DEF MarkStarted, KeepRow
  <2>2. TitleClean'
    BY <2>1 DEF RowInv, TitleClean
  <2>3. PICK n \in {count} \cup count .. max : row = Shows(n)
    BY <2>1 DEF RowInv
  <2> DEFINE mark == IF started THEN StartedMark ELSE LockMark(locked)
             players == PlayersColumn(n, max)
             d == IF started THEN 1 ELSE 0
             flag == Flag(id, d)
  <2>4. row = Layout(id, mark, title, ac, players, flag)
    BY <2>3 DEF Shows
  <2>5. [flag EXCEPT ![1] = Digit0 + 1] = Flag(id, 1)
    <3>1. d \in {0, 1}
      OBVIOUS
    <3> HIDE DEF d
    <3> QED
      BY <3>1, FlagIs
  <2> HIDE DEF mark, players, flag
  <2>6. row' = Layout(id, StartedMark, title, ac, players, [flag EXCEPT ![1] = Digit0 + 1])
    <3>1. ac \in BOOLEAN
      BY DEF RowInv
    <3> QED
      BY <2>1, <2>4, <3>1, StartEdited
  <2>7. Shows(n)' = Layout(id, StartedMark, title, ac, players, Flag(id, 1))
    BY <2>1 DEF Shows, players
  <2> QED
    BY <2>1, <2>2, <2>3, <2>5, <2>6, <2>7 DEF RowInv
<1>6. CASE Poll
  <2>1. UNCHANGED <<id, ac, title, locked, max, count, started, row>>
    BY <1>6 DEF Poll
  <2> QED
    BY <2>1 DEF RowInv, Shows, TitleClean
<1>7. CASE UNCHANGED rowVars
  BY <1>7 DEF rowVars, RowInv, Shows, TitleClean
<1> QED
  BY <1>1, <1>2, <1>3, <1>4, <1>5, <1>6, <1>7 DEF RowNext

(* RowSound: Join, Leave and MarkStarted edit a row by column number, and  *)
(* American Conquest's rows have one column more; after any sequence of    *)
(* them the row is the one RegisterNew would lay out, with the marks of a  *)
(* started room, and the title is what NormalizeTitle promises.            *)
THEOREM RowSays == RowSpec => []RowSound
<1>1. RowSpec => []RowInv
  BY RowInvInit, RowInvNext, PTL DEF RowSpec
<1> QED
  BY <1>1, RowInvSays, PTL
==============================================================================
