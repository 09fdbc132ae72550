----------------------------- MODULE HolePunch -----------------------------
(***************************************************************************)
(* UDP hole punching: a host keeps telling the server its public endpoint  *)
(* in small packets, stun.ServeUDP stores it with a time to live, and      *)
(* join_game gives it to whoever joins the host's room.  Packets may be    *)
(* lost, delayed and overtake each other; the host's router may give it    *)
(* another endpoint; the host may go away.  Time passes in ticks and never *)
(* past a packet's deadline or a host's next ping.                         *)
(***************************************************************************)
EXTENDS Integers, FiniteSets

CONSTANTS
    Hosts,          \* player ids of hosts
    KeepAlive,      \* Game.HoleInterval, in ticks
    MaxDelay,       \* bound: ticks a packet is under way
    MaxTime,        \* bound: ticks
    MaxLost,        \* bound: packets lost
    Kinds           \* bound: kinds of packets: ok, short, foreign

VARIABLES
    now,        \* time.Now()
    endpoint,   \* client side: the host's current public endpoint, a number
    held,       \* history: when the host last had its current or an earlier one
    nextPing,   \* client side: when the host pings again, 0 once it is gone
    wire,       \* packets under way
    lost,       \* packets lost so far
    records,    \* RuntimeStorage.records: none or [addr, expiresAt]
    heard,      \* history: the host's latest packet to arrive or get lost arrived
    joins       \* what the latest join of each room was given, and when

vars == <<now, endpoint, held, nextPing, wire, lost, records, heard, joins>>

None == [addr |-> 0, expiresAt |-> 0]

Init ==
    /\ now = 1
    /\ endpoint = [h \in Hosts |-> 1]
    /\ held = [h \in Hosts |-> [e \in 1 .. 2 |-> IF e = 1 THEN 1 ELSE 0]]
    /\ nextPing = [h \in Hosts |-> 1]
    /\ wire = {}
    /\ lost = 0
    /\ records = [h \in Hosts |-> None]
    /\ heard = [h \in Hosts |-> FALSE]
    /\ joins = [h \in Hosts |-> [addr |-> 0, at |-> 0, hit |-> FALSE]]

----------------------------------------------------------------------------
(* MUTANT: the record lives for one interval.                              *)
TTLShort == KeepAlive

(* ServeUDP: one and a half intervals.                                     *)
TTL == (3 * KeepAlive) \div 2

(* RuntimeStorage.SetPX: without a positive time the record never expires. *)
SetPX(addr) == [addr |-> addr, expiresAt |-> IF TTL > 0 THEN now + TTL ELSE 0]

(* MUTANT: records do not expire.                                          *)
ExpiredNever(r) == FALSE

Expired(r) == r.expiresAt # 0 /\ now > r.expiresAt

(* RuntimeStorage.Get finds a value.                                       *)
Found(h) == records[h] # None /\ ~ Expired(records[h])

----------------------------------------------------------------------------
(* The host pings from the endpoint it has.                                *)
Ping(h, kind) ==
    /\ nextPing[h] = now
    /\ wire' = wire \cup {[host |-> h, addr |-> endpoint[h], kind |-> kind,
                           deadline |-> now + MaxDelay]}
    /\ nextPing' = [nextPing EXCEPT ![h] = now + KeepAlive]
    /\ UNCHANGED <<now, endpoint, held, lost, records, heard, joins>>

(* ParsePacket and the tag and version check.                              *)
Accepted(p) == p.kind = "ok"

(* One round of ServeUDP: a packet that is no good is dropped, a good one  *)
(* replaces the record of the player id it names.                          *)
Receive(p) ==
    /\ p \in wire
    /\ wire' = wire \ {p}
    /\ IF Accepted(p)
       THEN /\ records' = [records EXCEPT ![p.host] = SetPX(p.addr)]
            /\ heard' = [heard EXCEPT ![p.host] = TRUE]
       ELSE /\ heard' = [heard EXCEPT ![p.host] = FALSE]
            /\ UNCHANGED records
    /\ UNCHANGED <<now, endpoint, held, nextPing, lost, joins>>

(* The network loses a packet.                                             *)
Lose(p) ==
    /\ p \in wire
    /\ lost < MaxLost
    /\ wire' = wire \ {p}
    /\ lost' = lost + 1
    /\ heard' = [heard EXCEPT ![p.host] = FALSE]
    /\ UNCHANGED <<now, endpoint, held, nextPing, records, joins>>

(* The router gives the host another endpoint.                             *)
Rebind(h) ==
    /\ nextPing[h] # 0
    /\ endpoint' = [endpoint EXCEPT ![h] = 3 - @]
    /\ held' = [held EXCEPT ![h][3 - endpoint[h]] = now]
    /\ UNCHANGED <<now, nextPing, wire, lost, records, heard, joins>>

(* The host goes away.                                                     *)
Quit(h) ==
    /\ nextPing[h] # 0
    /\ nextPing' = [nextPing EXCEPT ![h] = 0]
    /\ UNCHANGED <<now, endpoint, held, wire, lost, records, heard, joins>>

(* join_game: the stored endpoint, or the host's TCP address without port. *)
Endpoint(h) == IF Found(h) THEN records[h].addr ELSE 0

(* join_game looks the host of the room up; Get deletes what has expired.  *)
Join(h) ==
    /\ joins' = [joins EXCEPT ![h] = [addr |-> Endpoint(h), at |-> now,
                                      hit |-> Found(h)]]
    /\ records' = [records EXCEPT ![h] = IF Found(h) THEN @ ELSE None]
    /\ UNCHANGED <<now, endpoint, held, nextPing, wire, lost, heard>>

Tick ==
    /\ now < MaxTime
    /\ \A p \in wire : now < p.deadline
    /\ \A h \in Hosts : nextPing[h] # now
    /\ now' = now + 1
    /\ held' = [h \in Hosts |-> IF nextPing[h] = 0 THEN held[h]
                                ELSE [held[h] EXCEPT ![endpoint[h]] = now + 1]]
    /\ UNCHANGED <<endpoint, nextPing, wire, lost, records, heard, joins>>

Stopped == now = MaxTime /\ UNCHANGED vars

Next ==
    \/ \E h \in Hosts :
        (\E kind \in Kinds : Ping(h, kind)) \/ Rebind(h) \/ Quit(h) \/ Join(h)
    \/ \E p \in wire : Receive(p) \/ Lose(p)
    \/ Tick
    \/ Stopped

Spec == Init /\ [][Next]_vars

----------------------------------------------------------------------------
(* Properties                                                              *)

(* Nobody is sent to an endpoint the host gave up long ago: what a joiner  *)
(* is given, the host had no longer ago than a record lives and a packet   *)
(* travels, also when packets overtook each other or the host has left.    *)
EndpointRecent ==
    \A h \in Hosts : joins[h].hit =>
        held[h][joins[h].addr] + TTL + MaxDelay >= joins[h].at

(* As long as a host keeps pinging and nothing is lost, joiners find it:   *)
(* the record outlives the interval by the time packets may differ.        *)
PingingHostFound ==
    \A h \in Hosts : heard[h] /\ nextPing[h] # 0 => Found(h)

(* A new endpoint is learned: once the host has kept it for an interval    *)
(* and a packet's way, and was heard, joiners are given that one.          *)
ReboundLearned ==
    \A h \in Hosts :
        /\ heard[h] /\ nextPing[h] # 0
        /\ held[h][3 - endpoint[h]] + KeepAlive + MaxDelay < now
        => Endpoint(h) = endpoint[h]

(* A host that pings is reached where it is.                               *)
HostReached == PingingHostFound /\ ReboundLearned
=============================================================================
