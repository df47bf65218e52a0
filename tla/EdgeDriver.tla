----------------------------- MODULE EdgeDriver -----------------------------
(***************************************************************************)
(* The protocol between the Edge Agent and an external driver: one         *)
(* DriverConnection of acs-edge with its devices, the MQTT broker inside   *)
(* the Edge Agent, and one driver process built on lib/js-edge-driver      *)
(* (class Driver) with a handler that uses the Promise API.                *)
(*                                                                         *)
(* "active" messages are left out: ONLINE is published before any driver   *)
(* can have connected to the broker, and the driver ignores OFFLINE.       *)
(* Data, polls and commands change no state modelled here.                 *)
(***************************************************************************)
EXTENDS Naturals, Sequences, Bags

CONSTANTS
    Device,     \* devices of the connection
    Conf,       \* configurations the Edge Agent may start with
    MaxFaults,  \* bound: connections lost, crashes and restarts
    MaxStatus   \* bound: status messages on their way, the will not counted

(* bad_conf: HandlerClass.create rejects it; bad_addr: an address of its   *)
(* devices is invalid.                                                     *)
ConfKind == {"good", "bad_conf", "bad_addr"}

None     == 0       \* no handler
NoAddrs  == {None}  \* no addresses, which is not the addresses of no device

ASSUME DeviceAssumption == None \notin Device
ASSUME ConfAssumption == Conf \subseteq ConfKind
ASSUME MaxFaultsAssumption == MaxFaults \in Nat
ASSUME MaxStatusAssumption == MaxStatus \in Nat

VARIABLES
    conf,         \* Edge Agent: the configuration of the connection
    status,       \* Edge Agent: DriverConnection.status
    open,         \* Edge Agent: the devices have been told they are connected
    subscribed,   \* Edge Agent: devices that have started their subscription
    toDriver, toAgent,  \* messages on their way
    mqtt,         \* driver: state of its MQTT connection
    dstatus,      \* driver: Driver.status
    handler,      \* driver: the handler object in use, or None
    made,         \* driver: handler objects created so far
    addrs,        \* driver: devices whose addresses it has, or NoAddrs
    reconnecting, \* driver: the reconnect timer is running
    calls,        \* driver: calls of handlers' methods being awaited
    south,        \* handlers whose southbound connection is up
    watching,     \* devices the handler in use has subscribed to
    faults

agent   == <<conf, status, open, subscribed>>
objects == <<handler, made, addrs>>
field   == <<south, watching>>
driver  == <<dstatus, objects, reconnecting, calls, field>>
vars == <<agent, toDriver, toAgent, mqtt, driver, faults>>

Handlers == 1 .. MaxFaults + 1
Status   == {"DOWN", "READY", "UP", "CONF", "CONN", "AUTH", "ADDR"}

ConfMsg    == [msg |-> "conf", conf |-> conf]
AddrMsg(D) == [msg |-> "addr", devices |-> D,
               valid |-> D = {} \/ conf # "bad_addr"]
Message    == [msg: {"conf"}, conf: ConfKind]
                \cup [msg: {"addr"}, devices: SUBSET Device, valid: BOOLEAN]

Connecting(h)     == [op |-> "connect", handler |-> h]
Closing(h)        == [op |-> "close", handler |-> h]
Subscribing(h, D) == [op |-> "subscribe", handler |-> h, devices |-> D]
Call == [op: {"connect", "close"}, handler: Handlers]
            \cup [op: {"subscribe"}, handler: Handlers, devices: SUBSET Device]

EdgeTypeOK ==
    /\ conf \in Conf /\ status \in Status /\ open \in BOOLEAN
    /\ subscribed \subseteq Device
    /\ toDriver \in Seq(Message) /\ toAgent \in Seq(Status)
    /\ mqtt \in {"off", "subscribing", "on"} /\ dstatus \in Status
    /\ made \in 0 .. MaxFaults + 1 /\ handler \in {None, made}
    /\ addrs \in {NoAddrs} \cup SUBSET Device
    /\ reconnecting \in BOOLEAN
    /\ IsABag(calls) /\ BagToSet(calls) \subseteq Call
    /\ south \subseteq 1 .. made /\ watching \subseteq Device
    /\ faults \in 0 .. MaxFaults

DriverInit ==
    /\ dstatus = "DOWN" /\ handler = None /\ made = 0 /\ addrs = NoAddrs
    /\ reconnecting = FALSE /\ calls = EmptyBag /\ south = {} /\ watching = {}

Init ==
    /\ conf \in Conf
    /\ status = "DOWN" /\ open = FALSE /\ subscribed = {}
    /\ toDriver = <<>> /\ toAgent = <<>>
    /\ mqtt = "off"
    /\ DriverInit
    /\ faults = 0

Fault == faults < MaxFaults /\ faults' = faults + 1

-----------------------------------------------------------------------------
(* The Edge Agent.  What it publishes reaches the driver if the broker has *)
(* handled the driver's SUBSCRIBE.                                         *)
Publish(msgs) ==
    \/ mqtt # "off" /\ toDriver' = toDriver \o msgs
    \/ mqtt # "on" /\ UNCHANGED toDriver

(* Mutant: a driver that is READY is sent no addresses.                    *)
NegotiateConf == Publish(<<ConfMsg>>)
Negotiate     == Publish(<<ConfMsg, AddrMsg(subscribed)>>)

(* #msg_status.                                                            *)
MsgStatus ==
    /\ toAgent # <<>>
    /\ toAgent' = Tail(toAgent)
    /\ status' = Head(toAgent)
    /\ IF status' = "READY" THEN Negotiate ELSE UNCHANGED toDriver
    /\ open' = \/ status' = "UP"
               \/ open /\ ~(status = "UP" /\ status' \in {"DOWN", "CONF", "CONN", "AUTH"})
    /\ UNCHANGED <<conf, subscribed, mqtt, driver, faults>>

(* A device's readyInterval, once it is connected; startSubscription.      *)
StartSubscription(d) ==
    /\ open /\ d \notin subscribed
    /\ subscribed' = subscribed \cup {d}
    /\ IF status # "DOWN" THEN Publish(<<AddrMsg(subscribed')>>)
                          ELSE UNCHANGED toDriver
    /\ UNCHANGED <<conf, status, open, toAgent, mqtt, driver, faults>>

(* The Edge Agent stops or dies and comes back, perhaps with another       *)
(* configuration.  Its broker goes with it.                                *)
AgentRestart(c) ==
    /\ Fault
    /\ conf' = c
    /\ status' = "DOWN" /\ open' = FALSE /\ subscribed' = {}
    /\ toDriver' = <<>> /\ toAgent' = <<>> /\ mqtt' = "off"
    /\ UNCHANGED driver

-----------------------------------------------------------------------------
(* The driver's MQTT client.  A driver that is cut off has messages lost   *)
(* in both directions; the broker then publishes its will.                 *)
CutOff ==
    /\ toDriver' = <<>>
    /\ \/ mqtt = "off" /\ UNCHANGED toAgent
       \/ /\ mqtt # "off"
          /\ \E n \in 0 .. Len(toAgent) :
                toAgent' = Append(SubSeq(toAgent, 1, n), "DOWN")
    /\ mqtt' = "off"

MqttLost ==
    /\ Fault /\ mqtt # "off"
    /\ CutOff
    /\ UNCHANGED <<agent, driver>>

(* The process ends; Kubernetes starts another.                            *)
Dies ==
    /\ CutOff
    /\ dstatus' = "DOWN" /\ handler' = None /\ made' = 0 /\ addrs' = NoAddrs
    /\ reconnecting' = FALSE /\ calls' = EmptyBag /\ south' = {} /\ watching' = {}
    /\ UNCHANGED agent

Crash == Fault /\ Dies

(* The broker has dealt with the last connection before it accepts this.   *)
MqttConnect ==
    /\ mqtt = "off" /\ toAgent = <<>>
    /\ mqtt' = "subscribing"
    /\ UNCHANGED <<agent, toDriver, toAgent, driver, faults>>

SetStatus(st) ==
    /\ dstatus' = st
    /\ toAgent' = IF mqtt = "off" THEN toAgent ELSE Append(toAgent, st)
    /\ mqtt # "off" => Len(toAgent) < MaxStatus

(* connected, when the subscription has been acknowledged.                 *)
Connected ==
    /\ mqtt = "subscribing"
    /\ mqtt' = "on"
    /\ SetStatus("READY")
    /\ UNCHANGED <<agent, toDriver, objects, reconnecting, calls, field, faults>>

-----------------------------------------------------------------------------
(* The driver and its handler.                                             *)
Drop(c)     == calls (-) SetToBag({c})
Swap(c, cs) == Drop(c) (+) SetToBag(cs)

(* try_subscribe of the handler in use, given the status and addresses.    *)
(* Mutant: only a change of the addresses leads to a subscription.         *)
TrySubscribeOnce(st, D) ==
    IF st = "UP" /\ D # NoAddrs /\ D # addrs
    THEN {Subscribing(handler, D)} ELSE {}

TrySubscribe(st, D) ==
    IF st = "UP" /\ D # NoAddrs THEN {Subscribing(handler, D)} ELSE {}

(* The conf message.  The old handler is closed only if the configuration  *)
(* is accepted; the new one is connected when that has been done.          *)
Accept ==
    /\ made' = made + 1 /\ handler' = made'
    /\ calls' = calls (+) SetToBag({IF handler = None THEN Connecting(handler')
                                                      ELSE Closing(handler)})
    /\ south' = south \ {handler} /\ watching' = {}
    /\ UNCHANGED <<toAgent, dstatus>>

Reject ==
    /\ handler' = None
    /\ SetStatus("CONF")
    /\ UNCHANGED <<made, calls, field>>

OnConf ==
    /\ mqtt = "on" /\ toDriver # <<>> /\ Head(toDriver).msg = "conf"
    /\ toDriver' = Tail(toDriver)
    /\ addrs' = NoAddrs
    /\ IF Head(toDriver).conf = "bad_conf" THEN Reject ELSE Accept
    /\ UNCHANGED <<agent, mqtt, reconnecting, faults>>

(* The addr message, setAddrs.                                             *)
OnAddr ==
    /\ mqtt = "on" /\ toDriver # <<>> /\ Head(toDriver).msg = "addr"
    /\ toDriver' = Tail(toDriver)
    /\ IF handler # None /\ Head(toDriver).valid
       THEN /\ addrs' = Head(toDriver).devices
            /\ calls' = calls (+) SetToBag(TrySubscribe(dstatus, Head(toDriver).devices))
            /\ UNCHANGED <<dstatus, toAgent>>
       ELSE /\ addrs' = IF handler = None THEN addrs ELSE NoAddrs
            /\ SetStatus("ADDR")
            /\ UNCHANGED calls
    /\ UNCHANGED <<agent, mqtt, handler, made, reconnecting, field, faults>>

(* The rest of connectHandler once connect has answered st.  It does not   *)
(* look whether the handler that answers is still the one in use; with     *)
(* none in use try_subscribe throws, nobody catches it, and Node exits.    *)
(* Mutant: only a refused connection is tried again.                       *)
RetriesConn(st) == st = "CONN"
Retries(st)     == st # "UP"

ConnectSettles(c, st) ==
    /\ c.op = "connect"
    /\ \/ /\ handler # None
          /\ SetStatus(st)
          /\ reconnecting' = (reconnecting \/ Retries(st))
          /\ calls' = Swap(c, TrySubscribe(st, addrs))
          /\ south' = IF c.handler = handler /\ st = "UP" THEN south \cup {handler}
                                                           ELSE south \ {c.handler}
          /\ watching' = IF c.handler = handler THEN {} ELSE watching
          /\ UNCHANGED <<agent, toDriver, mqtt, objects, faults>>
       \/ /\ handler = None
          /\ Dies
          /\ UNCHANGED faults

(* handler.subscribe answers; if it could not, connFailed.                 *)
SubscribeSucceeds(c) ==
    /\ c.op = "subscribe"
    /\ c.handler = handler => handler \in south
    /\ calls' = Drop(c)
    /\ watching' = IF c.handler = handler THEN watching \cup c.devices ELSE watching
    /\ UNCHANGED <<agent, toDriver, toAgent, mqtt, dstatus, objects, reconnecting,
                   south, faults>>

SubscribeFails(c) ==
    /\ c.op = "subscribe"
    /\ calls' = Drop(c)
    /\ SetStatus("CONN")
    /\ reconnecting' = TRUE
    /\ UNCHANGED <<agent, toDriver, mqtt, objects, field, faults>>

(* The old handler has been closed: connect whichever is in use.           *)
CloseSettles(c) ==
    /\ c.op = "close"
    /\ IF handler = None
       THEN Dies
       ELSE /\ calls' = Swap(c, {Connecting(handler)})
            /\ UNCHANGED <<agent, toDriver, toAgent, mqtt, dstatus, objects,
                           reconnecting, field>>
    /\ UNCHANGED faults

(* A method of a handler that has been closed may never answer.            *)
Hangs(c) ==
    /\ c.op # "close" /\ c.handler # handler
    /\ calls' = Drop(c)
    /\ UNCHANGED <<agent, toDriver, toAgent, mqtt, dstatus, objects, reconnecting,
                   field, faults>>

(* A handler reports that its connection is lost: connFailed.              *)
SouthLost(h) ==
    /\ Fault /\ h \in south
    /\ south' = south \ {h}
    /\ watching' = IF h = handler THEN {} ELSE watching
    /\ SetStatus("CONN")
    /\ reconnecting' = TRUE
    /\ UNCHANGED <<agent, toDriver, mqtt, objects, calls>>

(* reconnectHandler's timer fires.                                         *)
Reconnect ==
    /\ reconnecting
    /\ IF handler = None
       THEN Dies
       ELSE /\ reconnecting' = FALSE
            /\ calls' = calls (+) SetToBag({Connecting(handler)})
            /\ UNCHANGED <<agent, toDriver, toAgent, mqtt, dstatus, objects, field>>
    /\ UNCHANGED faults

Answers(c) ==
    \/ \E st \in {"UP", "CONN", "AUTH"} : ConnectSettles(c, st)
    \/ SubscribeSucceeds(c) \/ SubscribeFails(c) \/ CloseSettles(c)

AgentStep  == MsgStatus \/ \E d \in Device : StartSubscription(d)
MqttStep   == MqttConnect \/ Connected
DriverStep == OnConf \/ OnAddr \/ Reconnect

Next ==
    \/ AgentStep \/ MqttStep \/ DriverStep
    \/ \E c \in BagToSet(calls) : Answers(c) \/ Hangs(c)
    \/ \E c \in Conf : AgentRestart(c)
    \/ MqttLost \/ Crash
    \/ \E h \in south : SouthLost(h)

Spec == Init /\ [][Next]_vars

(* The event loops run, messages are delivered, and the southbound device  *)
(* does not refuse the driver for ever.                                    *)
Fairness ==
    /\ WF_vars(MsgStatus) /\ \A d \in Device : WF_vars(StartSubscription(d))
    /\ WF_vars(MqttConnect) /\ WF_vars(Connected)
    /\ WF_vars(OnConf) /\ WF_vars(OnAddr) /\ WF_vars(Reconnect)
    /\ WF_vars(\E c \in BagToSet(calls) : Answers(c) \/ Hangs(c))
    /\ SF_vars(\E c \in BagToSet(calls) : c.handler = handler /\ ConnectSettles(c, "UP"))
    /\ SF_vars(\E c \in BagToSet(calls) : c.handler = handler /\ SubscribeSucceeds(c))

FairSpec == Spec /\ Fairness

-----------------------------------------------------------------------------
Delivered == mqtt = "on" /\ toDriver = <<>> /\ toAgent = <<>>
Quiet     == Delivered /\ calls = EmptyBag /\ ~reconnecting

(* What the Edge Agent takes the driver's status to be is the status the   *)
(* driver last set, and a driver that has a handler knows the addresses of *)
(* all devices that have subscribed ("The Edge Agent MUST republish the    *)
(* address configuration every time it publishes a driver configuration"), *)
(* though either side or the connection between them may have been lost at *)
(* any point of the negotiation.                                           *)
SidesAgree ==
    Delivered => /\ status = dstatus
                 /\ conf = "good" /\ handler # None => addrs = subscribed

(* A driver with a good configuration is never left idle in a failed       *)
(* state: when no timer runs and no call is pending, its handler is        *)
(* connected and the Edge Agent's devices are too, although answers of old *)
(* handlers are taken for those of the new one.                            *)
NotStranded ==
    Quiet /\ conf = "good" =>
        dstatus = "UP" /\ open /\ handler # None /\ handler \in south

(* Nor does it fail to subscribe to what it has been asked for, in         *)
(* whichever order the addresses and the connection became available.      *)
AllWatched == Quiet /\ conf = "good" => watching = subscribed

(* When nothing fails any more the connection is established and stays so. *)
Established ==
    /\ status = "UP" /\ open /\ subscribed = Device
    /\ handler \in south /\ watching = Device

Establishes == <>[](conf = "good") => <>[]Established
=============================================================================
