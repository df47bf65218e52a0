----------------------------- MODULE EdgeSession -----------------------------
(***************************************************************************)
(* The Sparkplug session of an Edge Agent: SparkplugNode and its Devices   *)
(* (acs-edge), the BasicSparkplugNode that numbers and publishes           *)
(* (js-service-client), MQTT.js and the broker (external), and a           *)
(* subscriber that follows the session.                                    *)
(*                                                                         *)
(* Each device has one metric and a connection of its own.  A handler and  *)
(* the promises it has resolved run to the end before the next event, so a *)
(* birth and what follows it are one step.                                 *)
(***************************************************************************)
EXTENDS Naturals, Sequences, FiniteSets

CONSTANTS
    N,          \* devices are 1..N, in the order they are configured
    Batched,    \* devices that have a publish interval
    Writable,   \* devices that accept commands to write their metric
    Value,      \* values of a metric
    Nothing,    \* no value, no alias, no sequence number
    Modulus,     \* sequence numbers are modulo this; 256 in the code
    MaxQueue,   \* bound: messages under way when a device does something
    MaxFaults   \* bound: lost connections and restarts

Device == 1..N

ASSUME DevicesAssumption == N \in Nat /\ Batched \subseteq Device /\ Writable \subseteq Device
ASSUME NothingAssumption == Nothing \notin Value \cup Nat
ASSUME BoundsAssumption == Modulus \in Nat \ {0} /\ {MaxQueue, MaxFaults} \subseteq Nat

VARIABLES
    link,       \* the MQTT connection: "down", "open" (not authenticated), "up"
    stage,      \* of the Translator: "running", "stopping" or "stopped"
    connected,  \* devices whose _isConnected is set
    alive,      \* devices whose #isAlive is set
    timer,      \* devices whose #pubTimer is set
    value,      \* the value of each device's metric
    buffer,     \* #pubBuffer: the latest value that is not yet published
    counter,    \* #aliasCounter
    alias,      \* the alias of the metric of the node and of each device
    seq,        \* of the next message
    queue,      \* MQTT.js: messages to send when the connection opens
    wire,       \* messages on the way to the subscriber
    seen,       \* what the subscriber knows: of the node, and of its devices
    orphan,     \* ghost: it was told of a device that had not been born
    gap,        \* ghost: it missed a number
    faults

devices == <<connected, alive, timer, value, buffer>>
numbers == <<counter, alias, seq>>
subscriber == <<seen, orphan, gap>>
vars == <<link, stage, devices, numbers, queue, wire, subscriber, faults>>

Number == 0..(Modulus - 1)
Reading == Value \cup {Nothing}
NodeMessage == [type: {"NBIRTH", "NDEATH"}, device: {0}, value: {Nothing},
                seq: Number \cup {Nothing}]
DeviceType == {"DBIRTH", "DDATA", "DDEATH"}
DeviceMessage == [type: DeviceType, device: Device, value: Reading,
                  seq: Number \cup {Nothing}]
Message == NodeMessage \cup DeviceMessage
Knowledge == [up: BOOLEAN, born: SUBSET Device, value: [Device -> Reading],
              seq: Number \cup {Nothing}]

SessionTypeOK ==
    /\ link \in {"down", "open", "up"} /\ stage \in {"running", "stopping", "stopped"}
    /\ connected \subseteq Device /\ alive = connected /\ timer \subseteq Batched
    /\ value \in [Device -> Reading] /\ buffer \in [Device -> Reading]
    /\ counter \in 0..(N + 1) /\ alias \in [0..N -> 0..N \cup {Nothing}]
    /\ seq \in Number \cup {Nothing}
    /\ queue \in Seq(DeviceMessage) /\ wire \in Seq(Message)
    /\ seen \in Knowledge /\ {orphan, gap} \subseteq BOOLEAN
    /\ faults \in 0..MaxFaults

NoReading == [d \in Device |-> Nothing]
NoAlias == [d \in 0..N |-> Nothing]

Init ==
    /\ link = "down" /\ stage = "running"
    /\ connected = {} /\ alive = {} /\ timer = {}
    /\ value = NoReading /\ buffer = NoReading
    /\ counter = 0 /\ alias = NoAlias /\ seq = Nothing
    /\ queue = <<>> /\ wire = <<>>
    /\ seen = [up |-> FALSE, born |-> {}, value |-> NoReading, seq |-> Nothing]
    /\ orphan = FALSE /\ gap = FALSE /\ faults = 0

-----------------------------------------------------------------------------
(* Mutant: the numbers go one too far before they wrap.                    *)
NextSeqPast(n) == IF n # Nothing /\ n < Modulus THEN n + 1 ELSE 0

(* BasicSparkplugNode._publish and the client it hands the message to.     *)
(* Before the first NBIRTH there is no number to give.                     *)
NextSeq(n) == IF n # Nothing /\ n < Modulus - 1 THEN n + 1 ELSE 0

Hand(msgs) ==
    IF link = "down" THEN queue' = queue \o msgs /\ UNCHANGED wire
                     ELSE wire' = wire \o msgs /\ UNCHANGED queue

Publish(type, d, v) ==
    /\ Hand(<<[type |-> type, device |-> d, value |-> v, seq |-> seq]>>)
    /\ seq' = NextSeq(seq)

(* #preparePayload of births: an alias for each metric that has none.      *)
GiveAliases(births, next) ==
    LET new == {d \in births : alias[d] = Nothing}
    IN  /\ alias' = [d \in 0..N |-> IF d \in new
                                    THEN next + Cardinality({e \in new : e < d})
                                    ELSE alias[d]]
        /\ counter' = next + Cardinality(new)

Unpublished == UNCHANGED <<numbers, queue, wire>>

Online == link = "up" /\ stage # "stopped"

(* Device._publishDBirth.  A birth that is skipped because the node is     *)
(* offline resolves its promise too, and so the device is alive.           *)
Birth(d, v) ==
    IF d \notin connected THEN Unpublished /\ UNCHANGED alive
    ELSE /\ alive' = alive \cup {d}
         /\ IF Online
            THEN GiveAliases({d}, counter) /\ Publish("DBIRTH", d, v)
            ELSE Unpublished

(* Mutant: data is published whether the device is alive or not.           *)
DataAnyway(d, data, v) ==
    Publish("DDATA", d, data) /\ UNCHANGED <<alive, counter, alias>>

(* Device._publishDData: a device that is not alive is born instead, and   *)
(* tells all its values.                                                   *)
Data(d, data, v) ==
    IF d \in alive
    THEN Publish("DDATA", d, data) /\ UNCHANGED <<alive, counter, alias>>
    ELSE Birth(d, v)

(* Devices in the order they were made.                                    *)
InOrder(S) ==
    {order \in UNION {[1..n -> S] : n \in 0..N} :
        /\ \A i, j \in DOMAIN order : i < j => order[i] < order[j]
        /\ \A d \in S : \E i \in DOMAIN order : order[i] = d}

NodeBirth == [type |-> "NBIRTH", device |-> 0, value |-> Nothing, seq |-> 0]

Births(order) ==
    [i \in DOMAIN order |-> [type |-> "DBIRTH", device |-> order[i],
                            value |-> value[order[i]], seq |-> i % Modulus]]

(* Mutant: the birth of the node does not ask for those of its devices.    *)
BirthNode ==
    /\ wire' = Append(wire, NodeBirth)
    /\ seq' = 1 % Modulus
    /\ GiveAliases({0}, 0)
    /\ UNCHANGED <<alive, queue>>

(* #publishNBirth, and the births of the connected devices that it asks    *)
(* for.                                                                    *)
BirthAll == \E order \in InOrder(connected) :
    /\ wire' = Append(wire, NodeBirth) \o Births(order)
    /\ seq' = (1 + Len(order)) % Modulus
    /\ GiveAliases({0} \cup connected, 0)
    /\ alive' = connected
    /\ UNCHANGED queue

-----------------------------------------------------------------------------
(* Events of a device.  After stop() has ended they have no effect.        *)
Acts == stage # "stopped" /\ Len(queue) + Len(wire) < MaxQueue

AgentOnly == UNCHANGED <<link, stage, subscriber, faults>>

(* The connection of the device is open.                                   *)
Connected(d) ==
    /\ Acts /\ connected' = connected \cup {d}
    /\ alive' = alive \cup {d}
    /\ IF Online
       THEN GiveAliases({d}, counter) /\ Publish("DBIRTH", d, value[d])
       ELSE Unpublished
    /\ UNCHANGED <<timer, value, buffer>> /\ AgentOnly

(* The constructor's interval finds the device connected and subscribes.   *)
Ready(d) ==
    /\ Acts /\ d \in connected \cap Batched /\ d \notin timer
    /\ timer' = timer \cup {d}
    /\ Unpublished /\ UNCHANGED <<connected, alive, value, buffer>> /\ AgentOnly

(* It is closed; if it was not open there is nothing to publish.           *)
Disconnected(d) ==
    /\ Acts /\ d \in connected
    /\ Publish("DDEATH", d, Nothing)
    /\ alive' = alive \ {d}
    /\ connected' = connected \ {d}
    /\ UNCHANGED <<timer, value, buffer, counter, alias>> /\ AgentOnly

(* Mutant: of the values in the buffer the first is the one that is kept.  *)
HandleDataFirst(d, v) ==
    /\ Acts /\ value[d] # v
    /\ value' = [value EXCEPT ![d] = v]
    /\ IF d \in timer
       THEN /\ buffer' = [buffer EXCEPT ![d] = IF @ = Nothing THEN v ELSE @]
            /\ Unpublished /\ UNCHANGED alive
       ELSE Data(d, v, v) /\ UNCHANGED buffer
    /\ UNCHANGED <<connected, timer>> /\ AgentOnly

(* _handleData: only a value that is new is published, or kept until the   *)
(* next publish interval.                                                  *)
HandleData(d, v) ==
    /\ Acts /\ value[d] # v
    /\ value' = [value EXCEPT ![d] = v]
    /\ IF d \in timer
       THEN buffer' = [buffer EXCEPT ![d] = v] /\ Unpublished /\ UNCHANGED alive
       ELSE Data(d, v, v) /\ UNCHANGED buffer
    /\ UNCHANGED <<connected, timer>> /\ AgentOnly

PublishBuffer(d) ==
    /\ Acts /\ d \in timer
    /\ Data(d, buffer[d], value[d])
    /\ buffer' = [buffer EXCEPT ![d] = Nothing]
    /\ UNCHANGED <<connected, timer, value>> /\ AgentOnly

(* A command has written the metric: its value is published at once.       *)
Written(d, v) ==
    /\ Acts /\ d \in Writable
    /\ value' = [value EXCEPT ![d] = v]
    /\ Data(d, v, v)
    /\ UNCHANGED <<connected, timer, buffer>> /\ AgentOnly

Rebirth(d) ==
    /\ Acts /\ link = "up"
    /\ Birth(d, value[d])
    /\ UNCHANGED <<connected, timer, value, buffer>> /\ AgentOnly

DeviceStep(d) ==
    \/ Connected(d) \/ Ready(d) \/ Disconnected(d) \/ PublishBuffer(d) \/ Rebirth(d)
    \/ \E v \in Value : HandleData(d, v) \/ Written(d, v)

-----------------------------------------------------------------------------
(* Events of the MQTT connection.                                          *)
Opened ==
    /\ link = "down" /\ stage # "stopped"
    /\ link' = "open" /\ wire' = wire \o queue /\ queue' = <<>>
    /\ UNCHANGED <<stage, devices, numbers, subscriber, faults>>

Authenticated ==
    /\ link = "open" /\ stage # "stopped"
    /\ link' = "up"
    /\ BirthAll
    /\ UNCHANGED <<stage, connected, timer, value, buffer, subscriber, faults>>

NodeRebirth ==
    /\ Acts /\ link = "up"
    /\ BirthAll
    /\ UNCHANGED <<connected, timer, value, buffer>> /\ AgentOnly

Death(n) == [type |-> "NDEATH", device |-> 0, value |-> Nothing, seq |-> n]

(* The broker publishes the will after those messages that have reached it.*)
Will == \E k \in 0..Len(wire) : wire' = SubSeq(wire, 1, k) \o <<Death(Nothing)>>

Fault == faults < MaxFaults /\ faults' = faults + 1

Lost ==
    /\ Fault /\ link # "down"
    /\ link' = "down" /\ Will
    /\ UNCHANGED <<stage, devices, numbers, queue, subscriber>>

-----------------------------------------------------------------------------
(* Translator.stop: the devices and connections are told to stop, which    *)
(* they do in their own time; then the node says that it is dead and       *)
(* closes its client, which drops what it has not sent.                    *)
Stop ==
    /\ Fault /\ stage = "running" /\ stage' = "stopping"
    /\ UNCHANGED <<link, devices, numbers, queue, wire, subscriber>>

(* A device has unsubscribed: its timer is cleared and its buffer sent.    *)
Unsubscribed(d) ==
    /\ stage = "stopping" /\ d \in timer
    /\ timer' = timer \ {d}
    /\ Data(d, buffer[d], value[d])
    /\ buffer' = [buffer EXCEPT ![d] = Nothing]
    /\ UNCHANGED <<connected, value>> /\ AgentOnly

StopNode ==
    /\ stage = "stopping" /\ stage' = "stopped"
    /\ link' = "down" /\ queue' = <<>>
    /\ wire' = IF link = "down" THEN wire ELSE Append(wire, Death(seq))
    /\ UNCHANGED <<devices, numbers, subscriber, faults>>

(* A new Translator, and all that it makes.                                *)
Fresh ==
    /\ link' = "down" /\ stage' = "running"
    /\ connected' = {} /\ alive' = {} /\ timer' = {}
    /\ value' = NoReading /\ buffer' = NoReading
    /\ counter' = 0 /\ alias' = NoAlias /\ seq' = Nothing
    /\ queue' = <<>>

Run == stage = "stopped" /\ Fresh /\ UNCHANGED <<wire, subscriber, faults>>

Crash ==
    /\ Fault
    /\ IF link = "down" THEN UNCHANGED wire ELSE Will
    /\ Fresh /\ UNCHANGED subscriber

-----------------------------------------------------------------------------
(* A subscriber that follows the session as Sparkplug has it: a message    *)
(* from a device counts between the birth and the death of its node.  From *)
(* what it knew and a message, what it knows.                              *)
Follows(s, m) == s.up /\ m.type \in DeviceType

Told(s, m) ==
    CASE m.type = "NBIRTH" -> [up |-> TRUE, born |-> {}, value |-> NoReading, seq |-> m.seq]
      [] m.type = "NDEATH" -> [up |-> FALSE, born |-> {}, value |-> NoReading, seq |-> Nothing]
      [] Follows(s, m) /\ m.type = "DBIRTH" ->
            [s EXCEPT !.born = @ \cup {m.device}, !.value[m.device] = m.value, !.seq = m.seq]
      [] Follows(s, m) /\ m.type = "DDATA" ->
            [s EXCEPT !.value[m.device] = IF m.value = Nothing THEN @ ELSE m.value,
                      !.seq = m.seq]
      [] Follows(s, m) /\ m.type = "DDEATH" ->
            [s EXCEPT !.born = @ \ {m.device}, !.value[m.device] = Nothing, !.seq = m.seq]
      [] OTHER -> s

Unborn(s, m) == Follows(s, m) /\ m.type # "DBIRTH" /\ m.device \notin s.born
Missed(s, m) == Follows(s, m) /\ m.seq # (s.seq + 1) % Modulus

Deliver ==
    /\ wire # <<>> /\ wire' = Tail(wire)
    /\ seen' = Told(seen, Head(wire))
    /\ orphan' = (orphan \/ Unborn(seen, Head(wire)))
    /\ gap' = (gap \/ Missed(seen, Head(wire)))
    /\ UNCHANGED <<link, stage, devices, numbers, queue, faults>>

Next ==
    \/ \E d \in Device : DeviceStep(d) \/ Unsubscribed(d)
    \/ Opened \/ Authenticated \/ NodeRebirth \/ Lost \/ Deliver
    \/ Stop \/ StopNode \/ Run \/ Crash

(* MQTT.js reconnects, the broker delivers, and a stop goes through.       *)
Fairness ==
    /\ WF_vars(Opened) /\ WF_vars(Authenticated) /\ WF_vars(Deliver)
    /\ WF_vars(StopNode) /\ WF_vars(Run)

Spec == Init /\ [][Next]_vars /\ Fairness

-----------------------------------------------------------------------------
(* Between the birth and the death of the node a subscriber is told of a   *)
(* device's data or death only after its birth, and misses no number,      *)
(* whatever was queued while the agent was offline.                        *)
BornBeforeData == ~orphan
Gapless == ~gap

(* With nothing under way and the agent online, the subscriber knows which *)
(* devices are connected, and the value of each that has nothing buffered. *)
(* (The value written by a command overtakes what is buffered: after that  *)
(* the older value stays.)                                                 *)
QuietAgrees ==
    Online /\ queue = <<>> /\ wire = <<>> =>
        /\ seen.up /\ seen.born = connected
        /\ \A d \in connected \ (Batched \cap Writable) :
              buffer[d] = Nothing => seen.value[d] = value[d]

(* A device that stays connected is seen to be.                            *)
DeviceSeen == \A d \in Device : d \in connected ~> (d \in seen.born \/ d \notin connected)

(* sparkplugNode.ts: "Assign unique alias for this metric if not already   *)
(* defined".                                                               *)
AliasesUnique ==
    \A d, e \in 0..N : d # e /\ alias[d] # Nothing => alias[d] # alias[e]
=============================================================================
