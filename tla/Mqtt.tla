-------------------------------- MODULE Mqtt --------------------------------
(* One MQTT connection of the automation engine (runMQTT): the packets of   *)
(* the three qualities of service between the broker, which is external,    *)
(* and the engine, over a stream that keeps their order. The engine asks    *)
(* for a clean session, so the broker forgets what was in flight.           *)
EXTENDS Integers, Sequences, FiniteSets

CONSTANTS
    Payloads,      \* messages of the broker
    QoS,           \* Payloads -> 0..2
    PacketIds,
    MaxResends,    \* packets that the broker repeats
    MaxDrops,      \* connections that break
    MaxUnpublished \* messages that the engine fails to publish

Nothing == "nothing"
NoId == "none"

ASSUME MqttAssumption ==
    /\ Nothing \notin Payloads /\ NoId \notin PacketIds /\ QoS \in [Payloads -> 0..2]
    /\ MaxResends \in Nat /\ MaxDrops \in Nat /\ MaxUnpublished \in Nat

VARIABLES
    broker,    \* per message: "new", "sent", "released", "done" or "lost", and its packet id
    wire,      \* packets to the engine
    acks,      \* packets to the broker
    held,      \* pendingQoS2: packet ids with the message they hold
    published, \* how often the engine published a message
    unpublished, resends, drops

mqttVars == <<broker, wire, acks, held, published, unpublished, resends, drops>>

Packet(kind, p, id) == [kind |-> kind, payload |-> p, id |-> id]
Ack(kind, id) == [kind |-> kind, id |-> id]

MqttInit ==
    /\ broker = [p \in Payloads |-> [state |-> "new", id |-> NoId]]
    /\ wire = <<>> /\ acks = <<>>
    /\ held = [i \in PacketIds |-> Nothing]
    /\ published = [p \in Payloads |-> 0]
    /\ unpublished = {} /\ resends = 0 /\ drops = 0

InFlight(p) == broker[p].state \in {"sent", "released"}

-----------------------------------------------------------------------------
(* The broker.                                                             *)

\* A repeated message of quality 1 is still to be confirmed. Confirmations name
\* no more than the packet id, so a broker that repeats keeps such an id from the
\* next message of that quality.
Unconfirmed(id) ==
    \/ \E k \in DOMAIN wire : wire[k].id = id /\ wire[k].kind = "publish" /\ QoS[wire[k].payload] = 1
    \/ \E k \in DOMAIN acks : acks[k] = Ack("puback", id)

BrokerSends(p, id) ==
    /\ broker[p].state = "new"
    /\ \A q \in Payloads : InFlight(q) => broker[q].id # id
    /\ QoS[p] = 1 => ~Unconfirmed(id)
    /\ broker' = [broker EXCEPT ![p] = [state |-> IF QoS[p] = 0 THEN "done" ELSE "sent", id |-> id]]
    /\ wire' = Append(wire, Packet("publish", p, id))
    /\ UNCHANGED <<acks, held, published, unpublished, resends, drops>>

BrokerRepeats(p) ==
    /\ InFlight(p) /\ resends < MaxResends
    /\ resends' = resends + 1
    /\ wire' = Append(wire, Packet(IF broker[p].state = "sent" THEN "publish" ELSE "pubrel", p, broker[p].id))
    /\ UNCHANGED <<broker, acks, held, published, unpublished, drops>>

BrokerReads ==
    /\ acks # <<>>
    /\ acks' = Tail(acks)
    /\ LET ack == Head(acks)
           mine == {p \in Payloads : InFlight(p) /\ broker[p].id = ack.id}
           step(p, state) == broker' = [broker EXCEPT ![p].state = state]
       IN  \/ \E p \in mine : /\ ack.kind = "pubrec" /\ QoS[p] = 2 /\ broker[p].state = "sent"
                              /\ step(p, "released")
                              /\ wire' = Append(wire, Packet("pubrel", p, ack.id))
           \/ \E p \in mine : /\ \/ ack.kind = "puback" /\ QoS[p] = 1
                                 \/ ack.kind = "pubcomp" /\ broker[p].state = "released"
                              /\ step(p, "done") /\ UNCHANGED wire
           \/ /\ \A p \in mine : \/ ack.kind = "pubrec" /\ broker[p].state = "released"
                                 \/ ack.kind = "pubcomp" /\ broker[p].state = "sent"
                                 \/ ack.kind = "puback" /\ QoS[p] = 2
                                 \/ ack.kind \in {"pubrec", "pubcomp"} /\ QoS[p] = 1
              /\ UNCHANGED <<broker, wire>>
    /\ UNCHANGED <<held, published, unpublished, resends, drops>>

-----------------------------------------------------------------------------
(* The engine reads the next packet.                                       *)

\* publishPayload: an error of Publish is logged, and the packet acknowledged.
publishPayload(p) ==
    \/ published' = [published EXCEPT ![p] = @ + 1] /\ UNCHANGED unpublished
    \/ /\ p \notin unpublished /\ Cardinality(unpublished) < MaxUnpublished
       /\ unpublished' = unpublished \cup {p} /\ UNCHANGED published

ReadPublish ==
    /\ wire # <<>> /\ Head(wire).kind = "publish"
    /\ wire' = Tail(wire)
    /\ LET packet == Head(wire)
           p == packet.payload
       IN  \/ QoS[p] = 0 /\ publishPayload(p) /\ UNCHANGED <<acks, held>>
           \/ /\ QoS[p] = 1 /\ publishPayload(p)
              /\ acks' = Append(acks, Ack("puback", packet.id)) /\ UNCHANGED held
           \/ /\ QoS[p] = 2
              /\ held' = [held EXCEPT ![packet.id] = IF @ = Nothing THEN p ELSE @]
              /\ acks' = Append(acks, Ack("pubrec", packet.id))
              /\ UNCHANGED <<published, unpublished>>
    /\ UNCHANGED <<broker, resends, drops>>

\* Mutant: a released message stays held.
ReadReleaseKeeps ==
    /\ wire # <<>> /\ Head(wire).kind = "pubrel"
    /\ wire' = Tail(wire)
    /\ acks' = Append(acks, Ack("pubcomp", Head(wire).id))
    /\ IF held[Head(wire).id] = Nothing THEN UNCHANGED <<published, unpublished>>
       ELSE publishPayload(held[Head(wire).id])
    /\ UNCHANGED <<broker, held, resends, drops>>

ReadRelease ==
    /\ wire # <<>> /\ Head(wire).kind = "pubrel"
    /\ wire' = Tail(wire)
    /\ acks' = Append(acks, Ack("pubcomp", Head(wire).id))
    /\ held' = [held EXCEPT ![Head(wire).id] = Nothing]
    /\ IF held[Head(wire).id] = Nothing THEN UNCHANGED <<published, unpublished>>
       ELSE publishPayload(held[Head(wire).id])
    /\ UNCHANGED <<broker, resends, drops>>

\* The connection ends and is made again: packets, pendingQoS2 and the
\* broker's session are gone.
Reconnect ==
    /\ drops < MaxDrops /\ drops' = drops + 1
    /\ wire' = <<>> /\ acks' = <<>>
    /\ held' = [i \in PacketIds |-> Nothing]
    /\ broker' = [p \in Payloads |-> IF InFlight(p) \/ (\E i \in DOMAIN wire : wire[i].payload = p)
                                     THEN [broker[p] EXCEPT !.state = "lost"] ELSE broker[p]]
    /\ UNCHANGED <<published, unpublished, resends>>

MqttNext ==
    \/ BrokerReads \/ ReadPublish \/ ReadRelease \/ Reconnect
    \/ \E p \in Payloads : BrokerRepeats(p) \/ \E id \in PacketIds : BrokerSends(p, id)

MqttSpec == MqttInit /\ [][MqttNext]_mqttVars

-----------------------------------------------------------------------------
\* A message of quality 2 is published at most once whatever packets repeat and
\* whichever packet ids are used again; a message the engine has confirmed in
\* full (quality 1 and 2) was published, or its publication failed
\* (engine.go runMQTT, packet types 3 and 6).
QualityKept ==
    \A p \in Payloads :
        /\ QoS[p] = 2 => published[p] <= 1
        /\ QoS[p] > 0 /\ broker[p].state = "done" => published[p] > 0 \/ p \in unpublished
=============================================================================
