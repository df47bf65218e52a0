--------------------------- MODULE EdgeDriverProofs ---------------------------
(* Proofs about the protocol between the Edge Agent and a driver: for any   *)
(* devices, any configurations, any number of faults and any bound on       *)
(* status messages.                                                         *)
EXTENDS EdgeDriver, TLAPS

(* A driver that connects is told, with the Edge Agent's answer to READY,   *)
(* what to forget of an earlier time.  Until then, nothing is said of it.   *)
ReadyComes == \E i \in DOMAIN toAgent : toAgent[i] = "READY"
ConfComes  == \E i \in DOMAIN toDriver : toDriver[i].msg = "conf"
Settling   == mqtt # "on" \/ ReadyComes \/ ConfComes

Pending  == BagToSet(calls)
Asked(h) == UNION {c.devices : c \in {c \in Pending : c.op = "subscribe" /\ c.handler = h}}

(* A call is to one of the handlers made so far.                            *)
CallTyped(c, m) ==
    /\ c.handler \in 1 .. m
    /\ \/ c = Connecting(c.handler) \/ c = Closing(c.handler)
       \/ \E D \in SUBSET Device : c = Subscribing(c.handler, D)

(* The variables have their types, and handlers are numbered as they are    *)
(* made.                                                                    *)
TypeInv ==
    /\ conf \in Conf /\ status \in Status /\ open \in BOOLEAN
    /\ subscribed \subseteq Device
    /\ toDriver \in Seq(Message) /\ toAgent \in Seq(Status)
    /\ mqtt \in {"off", "subscribing", "on"} /\ dstatus \in Status
    /\ made \in Nat /\ handler \in {None, made} /\ faults \in 0 .. MaxFaults
    /\ addrs \in {NoAddrs} \cup SUBSET Device
    /\ reconnecting \in BOOLEAN
    /\ IsABag(calls)
    /\ \A c \in Pending : CallTyped(c, made)
    /\ south \subseteq 1 .. made /\ watching \subseteq Device

(* One READY for each connection, one configuration for each READY, and one *)
(* handler for each configuration.                                          *)
OneHandlerEach ==
    /\ mqtt = "off" => toDriver = <<>>
    /\ ReadyComes => mqtt # "subscribing"
    /\ ConfComes => mqtt = "on" /\ ~ReadyComes
    /\ \A i, j \in DOMAIN toAgent : toAgent[i] = "READY" /\ toAgent[j] = "READY" => i = j
    /\ \A i, j \in DOMAIN toDriver :
            toDriver[i].msg = "conf" /\ toDriver[j].msg = "conf" => i = j
    /\ made <= (IF Settling THEN faults ELSE faults + 1)

(* What the driver last said is what it is, and it never says it is DOWN.   *)
LastStatus == IF toAgent = <<>> THEN status ELSE toAgent[Len(toAgent)]

StatusHeard ==
    /\ mqtt = "on" => LastStatus = dstatus
    /\ mqtt # "off" => \A i \in DOMAIN toAgent : toAgent[i] # "DOWN"
    /\ status = "UP" => open

(* What is on its way to the driver is of the present configuration, and    *)
(* the last word on addresses is of all that have subscribed.               *)
MessagesCurrent ==
    \A i \in DOMAIN toDriver :
        toDriver[i] = ConfMsg \/ \E D \in SUBSET subscribed : toDriver[i] = AddrMsg(D)

LastAddrs ==
    IF toDriver = <<>> THEN conf = "good" /\ handler # None => addrs = subscribed
                       ELSE toDriver[Len(toDriver)] = AddrMsg(subscribed)

AddrsHeard == mqtt = "on" /\ ~ReadyComes => status # "DOWN" /\ LastAddrs

(* A handler that is not connected is about to be.                          *)
Connects ==
    \/ reconnecting
    \/ \E c \in Pending : c.op = "close"
    \/ Connecting(handler) \in Pending
    \/ handler \in south /\ dstatus = "UP"

HandlerConnects == ~Settling /\ conf = "good" => handler # None /\ Connects

(* One that is connected watches or has asked for its addresses, and no     *)
(* handler for any that have not subscribed.                                *)
Watches ==
    handler # None /\ handler \in south /\ dstatus = "UP" /\ addrs # NoAddrs =>
        addrs \subseteq watching \cup Asked(handler)

WatchesNoMore ==
    ~Settling /\ conf = "good" =>
        /\ watching \cup Asked(handler) \subseteq subscribed
        /\ addrs # NoAddrs => addrs \subseteq subscribed

Inv ==
    /\ TypeInv /\ OneHandlerEach /\ StatusHeard /\ MessagesCurrent /\ AddrsHeard
    /\ HandlerConnects /\ Watches /\ WatchesNoMore

-----------------------------------------------------------------------------
(* Calls that are made and answered.                                        *)
LEMMA CallsMade ==
    ASSUME IsABag(calls), NEW cs, calls' = calls (+) SetToBag(cs)
    PROVE  IsABag(calls') /\ Pending' = Pending \cup cs
  <1>1. /\ DOMAIN calls' = DOMAIN calls \cup cs
        /\ \A c \in DOMAIN calls' : calls'[c] = (IF c \in DOMAIN calls THEN calls[c] ELSE 0)
                                                 + (IF c \in cs THEN 1 ELSE 0)
        /\ calls' = [c \in DOMAIN calls' |-> calls'[c]]
    BY DEF SetToBag, (+)
  <1> QED BY <1>1 DEF IsABag, Pending, BagToSet

(* A call that is dropped is taken out once; it may be under way another    *)
(* time.                                                                    *)
LEMMA CallDropped ==
    ASSUME IsABag(calls), NEW c \in Pending
    PROVE  /\ IsABag(Drop(c))
           /\ DOMAIN Drop(c) \subseteq Pending /\ Pending \ {c} \subseteq DOMAIN Drop(c)
  <1> DEFINE B == Drop(c)
  <1>1. /\ DOMAIN B = {b \in DOMAIN calls : calls[b] - (IF b = c THEN 1 ELSE 0) > 0}
        /\ \A b \in DOMAIN B : B[b] = calls[b] - (IF b = c THEN 1 ELSE 0)
    BY DEF Drop, SetToBag, (-), IsABag, Pending, BagToSet
  <1> QED BY <1>1 DEF IsABag, Drop, SetToBag, (-), Pending, BagToSet

(* A call that is answered leaves the others as they are.                   *)
LEMMA CallAnswered ==
    ASSUME IsABag(calls), NEW c \in Pending, calls' = Drop(c)
    PROVE  IsABag(calls') /\ Pending' \subseteq Pending /\ Pending \ {c} \subseteq Pending'
  BY CallDropped DEF Pending, BagToSet

(* So does one whose answer leads to others.                                *)
LEMMA CallSwapped ==
    ASSUME IsABag(calls), NEW c \in Pending, NEW cs, calls' = Swap(c, cs)
    PROVE  /\ IsABag(calls')
           /\ Pending' \subseteq Pending \cup cs
           /\ (Pending \ {c}) \cup cs \subseteq Pending'
  <1>0. PICK B : B = Drop(c)
    OBVIOUS
  <1>1. IsABag(B) /\ DOMAIN B \subseteq Pending /\ Pending \ {c} \subseteq DOMAIN B
    BY <1>0, CallDropped
  <1>2. calls' = B (+) SetToBag(cs)
    BY <1>0 DEF Swap
  <1>3. /\ DOMAIN calls' = DOMAIN B \cup cs
        /\ \A b \in DOMAIN calls' : calls'[b] = (IF b \in DOMAIN B THEN B[b] ELSE 0)
                                                 + (IF b \in cs THEN 1 ELSE 0)
        /\ calls' = [b \in DOMAIN calls' |-> calls'[b]]
    BY <1>2 DEF SetToBag, (+)
  <1>4. IsABag(calls')
    BY <1>1, <1>3 DEF IsABag
  <1> QED BY <1>1, <1>3, <1>4 DEF Pending, BagToSet

(* The devices a handler has been asked for.                                *)
LEMMA AskedIs ==
    ASSUME NEW h, NEW d
    PROVE  d \in Asked(h) <=>
             \E c \in Pending : c.op = "subscribe" /\ c.handler = h /\ d \in c.devices
  BY DEF Asked

(* What the calls are.                                                      *)
LEMMA AskedBy ==
    ASSUME NEW h, NEW D
    PROVE  /\ Connecting(h).op = "connect" /\ Connecting(h).handler = h
           /\ Closing(h).op = "close" /\ Closing(h).handler = h
           /\ Subscribing(h, D).op = "subscribe" /\ Subscribing(h, D).handler = h
           /\ Subscribing(h, D).devices = D
  BY DEF CallTyped, Connecting, Closing, Subscribing

-----------------------------------------------------------------------------
(* Messages that come.                                                      *)
Spoken == {"UP", "CONF", "CONN", "AUTH", "ADDR"}

(* What a driver says after READY comes after it.                           *)
LEMMA StatusSaid ==
    ASSUME TypeInv, OneHandlerEach, StatusHeard, NEW st \in Spoken, SetStatus(st),
           UNCHANGED <<mqtt, status, open>>
    PROVE  /\ dstatus' = st /\ st \in Status
           /\ toAgent' \in Seq(Status)
           /\ ReadyComes' <=> ReadyComes
           /\ \A i, j \in DOMAIN toAgent' : toAgent'[i] = "READY" /\ toAgent'[j] = "READY" => i = j
           /\ StatusHeard'
  <1>1. st \in Status /\ st # "READY" /\ st # "DOWN" /\ dstatus' = st /\ toAgent \in Seq(Status)
    BY DEF Spoken, Status, SetStatus, TypeInv
  <1>2. CASE mqtt = "off"
    BY <1>1, <1>2 DEF SetStatus, ReadyComes, OneHandlerEach, StatusHeard
  <1>3. CASE mqtt # "off"
    <2>1. toAgent' = Append(toAgent, st)
      BY <1>3 DEF SetStatus
    <2>2. /\ toAgent' \in Seq(Status) /\ Len(toAgent') = Len(toAgent) + 1 /\ Len(toAgent) \in Nat
          /\ toAgent'[Len(toAgent) + 1] = st
          /\ \A i \in 1..Len(toAgent) : toAgent'[i] = toAgent[i]
          /\ DOMAIN toAgent' = 1..(Len(toAgent) + 1) /\ DOMAIN toAgent = 1..Len(toAgent)
      BY <1>1, <2>1
    <2>3. \A i \in DOMAIN toAgent' : toAgent'[i] = "READY" =>
              i \in DOMAIN toAgent /\ toAgent[i] = "READY"
      BY <1>1, <2>2
    <2>4. ReadyComes' <=> ReadyComes
      BY <2>2, <2>3 DEF ReadyComes
    <2>5. LastStatus' = st
      BY <2>2 DEF LastStatus
    <2>6. StatusHeard'
      BY <1>1, <2>2, <2>5 DEF StatusHeard
    <2> QED BY <1>1, <2>2, <2>3, <2>4, <2>6 DEF OneHandlerEach
  <1> QED BY <1>2, <1>3

(* The driver takes a message.                                              *)
LEMMA MessageTaken ==
    ASSUME TypeInv, OneHandlerEach, MessagesCurrent, toDriver # <<>>, toDriver' = Tail(toDriver),
           UNCHANGED <<conf, subscribed>>
    PROVE  /\ toDriver' \in Seq(Message) /\ MessagesCurrent'
           /\ \A i, j \in DOMAIN toDriver' :
                  toDriver'[i].msg = "conf" /\ toDriver'[j].msg = "conf" => i = j
           /\ Head(toDriver).msg = "conf" => ConfComes /\ ~ConfComes'
           /\ Head(toDriver).msg = "addr" => (ConfComes' <=> ConfComes)
           /\ toDriver' # <<>> => toDriver'[Len(toDriver')] = toDriver[Len(toDriver)]
           /\ toDriver' = <<>> => Head(toDriver) = toDriver[Len(toDriver)]
           /\ Head(toDriver) = ConfMsg \/ \E D \in SUBSET subscribed : Head(toDriver) = AddrMsg(D)
  <1>1. /\ toDriver \in Seq(Message) /\ Len(toDriver) \in Nat \ {0}
        /\ Head(toDriver) = toDriver[1] /\ 1 \in DOMAIN toDriver
        /\ DOMAIN toDriver = 1..Len(toDriver) /\ DOMAIN toDriver' = 1..(Len(toDriver) - 1)
        /\ toDriver' \in Seq(Message) /\ Len(toDriver') = Len(toDriver) - 1
        /\ \A i \in 1..(Len(toDriver) - 1) : toDriver'[i] = toDriver[i + 1]
    BY DEF TypeInv
  <1>2. \A i \in DOMAIN toDriver' :
            i + 1 \in DOMAIN toDriver /\ toDriver'[i] = toDriver[i + 1] /\ i \in Nat \ {0}
    BY <1>1
  <1>3. MessagesCurrent'
    <2>1. ConfMsg' = ConfMsg /\ \A D : AddrMsg(D)' = AddrMsg(D)
      BY DEF ConfMsg, AddrMsg
    <2>2. ASSUME NEW i \in DOMAIN toDriver'
          PROVE  toDriver'[i] = ConfMsg \/ \E D \in SUBSET subscribed : toDriver'[i] = AddrMsg(D)
      BY <1>2 DEF MessagesCurrent
    <2> QED BY <2>1, <2>2 DEF MessagesCurrent, ConfMsg, AddrMsg
  <1>4. \A i, j \in DOMAIN toDriver' :
            toDriver'[i].msg = "conf" /\ toDriver'[j].msg = "conf" => i = j
    BY <1>2 DEF OneHandlerEach
  <1>5. Head(toDriver).msg = "conf" => ConfComes /\ ~ConfComes'
    BY <1>1, <1>2 DEF OneHandlerEach, ConfComes
  <1>6. Head(toDriver).msg = "addr" => (ConfComes' <=> ConfComes)
    <2> SUFFICES ASSUME Head(toDriver).msg = "addr" PROVE ConfComes' <=> ConfComes
      OBVIOUS
    <2>1. \A i \in DOMAIN toDriver : toDriver[i].msg = "conf" =>
              i - 1 \in DOMAIN toDriver' /\ toDriver'[i - 1] = toDriver[i]
      BY <1>1
    <2> QED BY <1>2, <2>1 DEF ConfComes
  <1>7. toDriver' # <<>> => toDriver'[Len(toDriver')] = toDriver[Len(toDriver)]
    BY <1>1
  <1>8. toDriver' = <<>> => Head(toDriver) = toDriver[Len(toDriver)]
    <2>1. PICK rest : rest = toDriver'
      OBVIOUS
    <2>2. rest = <<>> => Len(rest) = 0
      OBVIOUS
    <2>3. toDriver' = <<>> => Len(toDriver) = 1
      BY <1>1, <2>1, <2>2
    <2> QED BY <1>1, <2>3
  <1> QED BY <1>1, <1>3, <1>4, <1>5, <1>6, <1>7, <1>8 DEF MessagesCurrent

-----------------------------------------------------------------------------
(* Steps of the Edge Agent and of the connection leave the driver as it is. *)
LEMMA DriverSame ==
    ASSUME UNCHANGED driver
    PROVE  /\ Pending' = Pending /\ Asked(handler)' = Asked(handler)
           /\ Watches' <=> Watches
           /\ Connects' <=> Connects
  BY DEF driver, objects, field, Pending, Asked, Watches, Connects, Connecting

(* The Edge Agent takes a status: all that is said of it then is that it    *)
(* was the next.                                                            *)
LEMMA StatusTaken ==
    ASSUME TypeInv, OneHandlerEach, StatusHeard, MsgStatus
    PROVE  /\ toAgent' \in Seq(Status) /\ status' \in Status
           /\ ReadyComes <=> status' = "READY" \/ ReadyComes'
           /\ status' = "READY" => ~ReadyComes'
           /\ mqtt # "off" => status' # "DOWN"
           /\ \A i, j \in DOMAIN toAgent' : toAgent'[i] = "READY" /\ toAgent'[j] = "READY" => i = j
           /\ StatusHeard'
  <1>1. /\ toAgent \in Seq(Status) /\ Len(toAgent) \in Nat \ {0}
        /\ status' = toAgent[1] /\ 1 \in DOMAIN toAgent
        /\ DOMAIN toAgent = 1..Len(toAgent) /\ DOMAIN toAgent' = 1..(Len(toAgent) - 1)
        /\ toAgent' \in Seq(Status) /\ Len(toAgent') = Len(toAgent) - 1
        /\ \A i \in 1..(Len(toAgent) - 1) : toAgent'[i] = toAgent[i + 1]
    BY DEF TypeInv, MsgStatus
  <1>2. /\ \A i \in DOMAIN toAgent' :
              i + 1 \in DOMAIN toAgent /\ i + 1 # 1 /\ toAgent'[i] = toAgent[i + 1] /\ i \in Nat
        /\ \A i \in DOMAIN toAgent \ {1} : i - 1 \in DOMAIN toAgent' /\ toAgent'[i - 1] = toAgent[i]
    BY <1>1
  <1>3. ReadyComes <=> status' = "READY" \/ ReadyComes'
    BY <1>1, <1>2 DEF ReadyComes
  <1>4. status' = "READY" => ~ReadyComes'
    BY <1>1, <1>2 DEF ReadyComes, OneHandlerEach
  <1>5. \A i, j \in DOMAIN toAgent' : toAgent'[i] = "READY" /\ toAgent'[j] = "READY" => i = j
    BY <1>2 DEF OneHandlerEach
  <1>6. mqtt # "off" => status' # "DOWN" /\ \A i \in DOMAIN toAgent' : toAgent'[i] # "DOWN"
    BY <1>1, <1>2 DEF StatusHeard
  <1>7. LastStatus' = LastStatus
    <2>1. PICK rest : rest = toAgent'
      OBVIOUS
    <2>2. rest = <<>> => Len(rest) = 0
      OBVIOUS
    <2>3. CASE toAgent' = <<>>
      <3>1. Len(rest) = 0
        BY <2>1, <2>2, <2>3
      <3>2. Len(rest) = Len(toAgent) - 1 /\ Len(toAgent) \in Nat
        BY <1>1, <2>1
      <3>3. Len(toAgent) = 1
        BY <3>1, <3>2
      <3> QED BY <1>1, <2>3, <3>3 DEF LastStatus, MsgStatus
    <2>4. CASE toAgent' # <<>>
      <3>1. Len(toAgent') \in DOMAIN toAgent'
        BY <1>1, <2>4
      <3> QED BY <1>1, <1>2, <2>4, <3>1 DEF LastStatus, MsgStatus
    <2> QED BY <2>3, <2>4
  <1>8. StatusHeard'
    BY <1>6, <1>7 DEF StatusHeard, MsgStatus, driver
  <1> QED BY <1>1, <1>3, <1>4, <1>5, <1>6, <1>8 DEF TypeInv

(* READY is answered with configuration and addresses; nothing else is.     *)
LEMMA MsgStatusInv == ASSUME Inv, MsgStatus PROVE Inv'
  <1>1. UNCHANGED <<conf, subscribed, mqtt, driver, faults>>
    BY DEF MsgStatus
  <1>2. /\ toAgent' \in Seq(Status) /\ status' \in Status
        /\ ReadyComes <=> status' = "READY" \/ ReadyComes'
        /\ status' = "READY" => ~ReadyComes'
        /\ mqtt # "off" => status' # "DOWN"
        /\ \A i, j \in DOMAIN toAgent' : toAgent'[i] = "READY" /\ toAgent'[j] = "READY" => i = j
        /\ StatusHeard'
    BY StatusTaken DEF Inv
  <1>3. /\ Watches' /\ (Connects' <=> Connects)
        /\ Asked(handler)' = Asked(handler) /\ Pending' = Pending
    BY <1>1, DriverSame DEF Inv
  <1>4. toDriver' \in Seq(Message) => TypeInv'
    BY <1>1, <1>2, <1>3
    DEF Inv, TypeInv, MsgStatus, driver, objects, field, CallTyped, Connecting, Closing, Subscribing
  <1>5. CASE UNCHANGED toDriver /\ (mqtt = "on" => status' # "READY")
    <2>1. /\ ConfComes' = ConfComes /\ (Settling' <=> Settling)
          /\ mqtt = "on" => (ReadyComes' <=> ReadyComes)
      BY <1>1, <1>2, <1>5 DEF ConfComes, Settling
    <2>2. TypeInv'
      BY <1>4, <1>5 DEF Inv, TypeInv
    <2>3. OneHandlerEach'
      BY <1>1, <1>2, <1>5, <2>1 DEF Inv, OneHandlerEach, driver, objects
    <2>4. MessagesCurrent' /\ AddrsHeard'
      BY <1>1, <1>2, <1>5, <2>1
      DEF Inv, MessagesCurrent, AddrsHeard, LastAddrs, ConfMsg, AddrMsg, driver, objects
    <2>5. HandlerConnects' /\ WatchesNoMore'
      BY <1>1, <1>3, <2>1 DEF Inv, HandlerConnects, WatchesNoMore, driver, objects, field
    <2> QED BY <1>2, <1>3, <2>2, <2>3, <2>4, <2>5 DEF Inv
  <1>6. CASE mqtt = "on" /\ status' = "READY"
    <2>1. ReadyComes /\ ~ReadyComes' /\ ~ConfComes /\ Settling
      BY <1>2, <1>6 DEF Inv, OneHandlerEach, Settling
    <2>2. toDriver' = toDriver \o <<ConfMsg, AddrMsg(subscribed)>>
      BY <1>6 DEF MsgStatus, Negotiate, Publish
    <2>3. ConfMsg \in Message /\ AddrMsg(subscribed) \in Message /\ toDriver \in Seq(Message)
      BY ConfAssumption DEF Inv, TypeInv, Message, ConfMsg, AddrMsg
    <2>4. PICK two : two = <<ConfMsg, AddrMsg(subscribed)>>
      OBVIOUS
    <2>5. /\ two \in Seq(Message) /\ Len(two) = 2
          /\ two[1] = ConfMsg /\ two[2] = AddrMsg(subscribed)
      BY <2>3, <2>4
    <2> DEFINE n == Len(toDriver)
    <2>6. /\ toDriver' \in Seq(Message) /\ n \in Nat /\ Len(toDriver') = n + 2
          /\ DOMAIN toDriver = 1..n /\ DOMAIN toDriver' = 1..(n + 2)
          /\ \A i \in 1..n : toDriver'[i] = toDriver[i]
          /\ toDriver'[n + 1] = ConfMsg /\ toDriver'[n + 2] = AddrMsg(subscribed)
      BY <2>2, <2>3, <2>4, <2>5
    <2> HIDE DEF n
    <2>7. \A i \in DOMAIN toDriver' : i = n + 1 \/ i = n + 2 \/ i \in DOMAIN toDriver
      BY <2>6
    <2>8. ConfMsg.msg = "conf" /\ AddrMsg(subscribed).msg = "addr"
      BY DEF ConfMsg, AddrMsg
    <2>9. ConfComes'
      BY <2>6, <2>8 DEF ConfComes
    <2>10. \A i \in DOMAIN toDriver' : toDriver'[i].msg = "conf" => i = n + 1
      BY <2>1, <2>6, <2>7, <2>8 DEF ConfComes
    <2>11. TypeInv'
      BY <1>4, <2>6
    <2>12. OneHandlerEach'
      BY <1>1, <1>2, <1>6, <2>1, <2>9, <2>10 DEF Inv, OneHandlerEach, Settling, driver, objects
    <2>13. MessagesCurrent'
      BY <1>1, <2>6, <2>7 DEF Inv, TypeInv, MessagesCurrent, ConfMsg, AddrMsg
    <2>14. AddrsHeard'
      <3>1. toDriver' # <<>> /\ toDriver'[Len(toDriver')] = AddrMsg(subscribed)
        BY <2>6
      <3> QED BY <1>1, <1>6, <3>1 DEF AddrsHeard, LastAddrs, AddrMsg
    <2> QED BY <1>2, <1>3, <2>9, <2>11, <2>12, <2>13, <2>14
            DEF Inv, HandlerConnects, WatchesNoMore, Settling
  <1>7. CASE ~(mqtt = "on" /\ status' = "READY")
    <2>1. UNCHANGED toDriver
      <3>1. CASE status' # "READY"
        BY <3>1 DEF MsgStatus
      <3>2. CASE status' = "READY" /\ mqtt # "on"
        <4>1. mqtt = "off"
          BY <1>2, <3>2 DEF Inv, TypeInv, OneHandlerEach
        <4> QED BY <3>2, <4>1 DEF MsgStatus, Negotiate, Publish
      <3> QED BY <1>7, <3>1, <3>2
    <2> QED BY <1>5, <1>7, <2>1
  <1> QED BY <1>6, <1>7

(* A device that subscribes is in the addresses the driver is sent, now or  *)
(* in the answer to its READY.                                              *)
LEMMA StartSubscriptionInv ==
    ASSUME Inv, NEW d \in Device, StartSubscription(d)
    PROVE  Inv'
  <1>1. UNCHANGED <<conf, status, open, toAgent, mqtt, driver, faults>>
        /\ subscribed' = subscribed \cup {d} /\ subscribed' \subseteq Device
    BY DEF StartSubscription, Inv, TypeInv
  <1>2. /\ ReadyComes' = ReadyComes /\ StatusHeard'
        /\ Watches' /\ (Connects' <=> Connects)
        /\ Asked(handler)' = Asked(handler) /\ Pending' = Pending
    BY <1>1, DriverSame DEF Inv, ReadyComes, StatusHeard, LastStatus, driver
  <1>3. toDriver' \in Seq(Message) => TypeInv'
    BY <1>1, <1>2
    DEF Inv, TypeInv, driver, objects, field, CallTyped, Connecting, Closing, Subscribing
  <1>4. (ConfComes' <=> ConfComes) => HandlerConnects' /\ WatchesNoMore' /\ (Settling' <=> Settling)
    BY <1>1, <1>2 DEF Inv, HandlerConnects, WatchesNoMore, Settling, driver, objects, field
  <1>5. CASE UNCHANGED toDriver
    <2>1. ConfComes' = ConfComes
      BY <1>5 DEF ConfComes
    <2>2. OneHandlerEach'
      BY <1>1, <1>2, <1>4, <1>5, <2>1 DEF Inv, OneHandlerEach, driver, objects
    <2>3. MessagesCurrent'
      BY <1>1, <1>5 DEF Inv, MessagesCurrent, ConfMsg, AddrMsg
    <2>4. AddrsHeard'
      <3>1. CASE status = "DOWN"
        BY <1>1, <1>2, <3>1 DEF Inv, AddrsHeard
      <3>2. CASE mqtt # "on"
        BY <1>1, <3>2 DEF AddrsHeard
      <3> QED BY <1>5, <3>1, <3>2 DEF StartSubscription, Publish, Inv, TypeInv
    <2> QED BY <1>2, <1>3, <1>4, <1>5, <2>1, <2>2, <2>3, <2>4 DEF Inv, TypeInv
  <1>6. CASE mqtt # "off" /\ toDriver' = toDriver \o <<AddrMsg(subscribed)'>>
    <2> DEFINE n == Len(toDriver)
               m == AddrMsg(subscribed)'
    <2>1. m \in Message /\ toDriver \in Seq(Message) /\ m.msg = "addr"
      BY <1>1 DEF Inv, TypeInv, Message, AddrMsg
    <2> HIDE DEF m
    <2>2. PICK one : one = <<m>>
      OBVIOUS
    <2>3. one \in Seq(Message) /\ Len(one) = 1 /\ one[1] = m
      BY <2>1, <2>2
    <2>4. /\ toDriver' \in Seq(Message) /\ n \in Nat /\ Len(toDriver') = n + 1
          /\ DOMAIN toDriver = 1..n /\ DOMAIN toDriver' = 1..(n + 1)
          /\ \A i \in 1..n : toDriver'[i] = toDriver[i]
          /\ toDriver'[n + 1] = m
      BY <1>6, <2>1, <2>2, <2>3 DEF m
    <2> HIDE DEF n
    <2>5. \A i \in DOMAIN toDriver' : i = n + 1 \/ i \in DOMAIN toDriver
      BY <2>4
    <2>6. ConfComes' <=> ConfComes
      BY <2>1, <2>4, <2>5 DEF ConfComes
    <2>7. \A i, j \in DOMAIN toDriver' :
              toDriver'[i].msg = "conf" /\ toDriver'[j].msg = "conf" => i = j
      BY <2>1, <2>4, <2>5 DEF Inv, OneHandlerEach
    <2>8. OneHandlerEach'
      BY <1>1, <1>2, <1>4, <1>6, <2>6, <2>7 DEF Inv, OneHandlerEach, driver, objects
    <2>9. MessagesCurrent'
      <3>1. ConfMsg' = ConfMsg /\ \A D : AddrMsg(D)' = AddrMsg(D)
        BY <1>1 DEF ConfMsg, AddrMsg
      <3>2. m = AddrMsg(subscribed')
        BY <1>1 DEF AddrMsg, m
      <3>3. \A i \in DOMAIN toDriver :
                toDriver[i] = ConfMsg \/ \E D \in SUBSET subscribed' : toDriver[i] = AddrMsg(D)
        BY <1>1 DEF Inv, MessagesCurrent
      <3>4. \A i \in DOMAIN toDriver' :
                toDriver'[i] = ConfMsg \/ \E D \in SUBSET subscribed' : toDriver'[i] = AddrMsg(D)
        BY <2>4, <2>5, <3>2, <3>3
      <3> QED BY <3>1, <3>4 DEF MessagesCurrent, ConfMsg, AddrMsg
    <2>10. AddrsHeard'
      <3>1. toDriver' # <<>> /\ toDriver'[Len(toDriver')] = m
        BY <2>4
      <3> QED BY <1>1, <1>2, <3>1 DEF Inv, AddrsHeard, LastAddrs, m
    <2> QED BY <1>2, <1>3, <1>4, <2>4, <2>6, <2>8, <2>9, <2>10 DEF Inv
  <1> QED BY <1>5, <1>6 DEF StartSubscription, Publish, AddrMsg

(* Without a connection little is said.                                     *)
LEMMA OffInv ==
    ASSUME TypeInv', mqtt' = "off", toDriver' = <<>>, made' <= faults', status' = "UP" => open',
           \A i, j \in DOMAIN toAgent' : toAgent'[i] = "READY" /\ toAgent'[j] = "READY" => i = j,
           Watches'
    PROVE  Inv'
  <1>1. DOMAIN toDriver' = {}
    OBVIOUS
  <1>2. ~ConfComes' /\ Settling'
    BY <1>1 DEF ConfComes, Settling
  <1>3. OneHandlerEach'
    BY <1>1, <1>2 DEF OneHandlerEach
  <1>4. StatusHeard' /\ MessagesCurrent' /\ AddrsHeard'
    BY <1>1 DEF StatusHeard, MessagesCurrent, AddrsHeard
  <1> QED BY <1>2, <1>3, <1>4 DEF Inv, HandlerConnects, WatchesNoMore

(* A fault allows for one more handler.                                     *)
LEMMA FaultMore == ASSUME Inv, Fault PROVE faults' \in 0 .. MaxFaults /\ made <= faults'
  BY MaxFaultsAssumption DEF Fault, Inv, TypeInv, OneHandlerEach

(* A restart of the Edge Agent takes all messages and the connection with   *)
(* it.                                                                      *)
LEMMA AgentRestartInv == ASSUME Inv, NEW c \in Conf, AgentRestart(c) PROVE Inv'
  <1>1. /\ conf' = c /\ status' = "DOWN" /\ open' = FALSE /\ subscribed' = {}
        /\ toDriver' = <<>> /\ toAgent' = <<>> /\ mqtt' = "off" /\ UNCHANGED driver /\ Fault
    BY DEF AgentRestart
  <1>2. Watches' /\ Pending' = Pending
    BY <1>1, DriverSame DEF Inv
  <1>3. toDriver' \in Seq(Message) /\ toAgent' \in Seq(Status) /\ DOMAIN toAgent' = {}
    BY <1>1
  <1>4. TypeInv'
    BY <1>1, <1>2, <1>3, FaultMore
    DEF Inv, TypeInv, driver, objects, field, Status, CallTyped, Connecting, Closing, Subscribing
  <1> QED BY <1>1, <1>2, <1>3, <1>4, OffInv, FaultMore DEF driver, objects

(* A driver that is cut off is sent nothing, and what it said is heard in   *)
(* part.                                                                    *)
LEMMA CutOffLeaves ==
    ASSUME Inv, CutOff
    PROVE  /\ toDriver' = <<>> /\ toDriver' \in Seq(Message) /\ mqtt' = "off"
           /\ toAgent' \in Seq(Status)
           /\ \A i, j \in DOMAIN toAgent' : toAgent'[i] = "READY" /\ toAgent'[j] = "READY" => i = j
  <1>1. toDriver' = <<>> /\ mqtt' = "off" /\ toAgent \in Seq(Status)
    BY DEF CutOff, Inv, TypeInv
  <1>2. CASE UNCHANGED toAgent
    BY <1>1, <1>2 DEF Inv, OneHandlerEach
  <1>3. ASSUME NEW n \in 0 .. Len(toAgent), toAgent' = Append(SubSeq(toAgent, 1, n), "DOWN")
        PROVE  /\ toAgent' \in Seq(Status)
               /\ \A i, j \in DOMAIN toAgent' :
                      toAgent'[i] = "READY" /\ toAgent'[j] = "READY" => i = j
    <2> DEFINE part == SubSeq(toAgent, 1, n)
    <2>1. /\ part \in Seq(Status) /\ Len(part) = n /\ n \in Nat
          /\ \A i \in 1..n : part[i] = toAgent[i] /\ i \in DOMAIN toAgent
      BY <1>1
    <2> HIDE DEF part
    <2>2. "DOWN" \in Status /\ toAgent' = Append(part, "DOWN")
      BY <1>3 DEF Status, part
    <2>3. /\ toAgent' \in Seq(Status) /\ DOMAIN toAgent' = 1..(n + 1)
          /\ toAgent'[n + 1] = "DOWN" /\ \A i \in 1..n : toAgent'[i] = part[i]
      BY <2>1, <2>2
    <2>4. \A i \in DOMAIN toAgent' : toAgent'[i] = "READY" =>
              i \in DOMAIN toAgent /\ toAgent[i] = "READY"
      BY <2>1, <2>3
    <2> QED BY <2>3, <2>4 DEF Inv, OneHandlerEach
  <1> QED BY <1>1, <1>2, <1>3 DEF CutOff

(* A connection that is lost leaves the driver and the agent as they are.   *)
LEMMA MqttLostInv == ASSUME Inv, MqttLost PROVE Inv'
  <1>1. CutOff /\ Fault /\ UNCHANGED <<agent, driver>>
    BY DEF MqttLost
  <1>2. Watches' /\ Pending' = Pending
    BY <1>1, DriverSame DEF Inv
  <1>3. TypeInv'
    BY <1>1, <1>2, CutOffLeaves, FaultMore
    DEF Inv, TypeInv, agent, driver, objects, field, CallTyped, Connecting, Closing, Subscribing
  <1> QED BY <1>1, <1>2, <1>3, CutOffLeaves, OffInv, FaultMore
          DEF Inv, StatusHeard, agent, driver, objects

(* A driver that dies has made no handler.                                  *)
LEMMA DiesInv == ASSUME Inv, Dies, faults' \in 0 .. MaxFaults PROVE Inv'
  <1>1. /\ CutOff /\ dstatus' = "DOWN" /\ handler' = None /\ made' = 0 /\ addrs' = NoAddrs
        /\ reconnecting' = FALSE /\ calls' = EmptyBag /\ south' = {} /\ watching' = {}
        /\ UNCHANGED agent
    BY DEF Dies
  <1>2. IsABag(calls') /\ Pending' = {}
    BY <1>1 DEF EmptyBag, SetToBag, IsABag, Pending, BagToSet
  <1>3. TypeInv'
    BY <1>1, <1>2, CutOffLeaves DEF Inv, TypeInv, agent, Status
  <1>4. Watches'
    BY <1>1 DEF Watches
  <1> QED BY <1>1, <1>3, <1>4, CutOffLeaves, OffInv DEF Inv, StatusHeard, agent

(* A driver connects when all it said before has been heard.                *)
LEMMA MqttConnectInv == ASSUME Inv, MqttConnect PROVE Inv'
  <1>1. /\ mqtt = "off" /\ toAgent = <<>> /\ mqtt' = "subscribing"
        /\ UNCHANGED <<agent, toDriver, toAgent, driver, faults>>
    BY DEF MqttConnect
  <1>2. Watches' /\ Pending' = Pending
    BY <1>1, DriverSame DEF Inv
  <1>3. DOMAIN toAgent' = {} /\ DOMAIN toDriver' = {}
    BY <1>1 DEF Inv, OneHandlerEach
  <1>4. TypeInv'
    BY <1>1, <1>2
    DEF Inv, TypeInv, agent, driver, objects, field, CallTyped, Connecting, Closing, Subscribing
  <1>5. ~ConfComes' /\ ~ReadyComes' /\ Settling' /\ Settling
    BY <1>1, <1>3 DEF ConfComes, ReadyComes, Settling
  <1>6. OneHandlerEach'
    BY <1>1, <1>3, <1>5 DEF Inv, OneHandlerEach, driver, objects
  <1>7. StatusHeard' /\ MessagesCurrent' /\ AddrsHeard'
    BY <1>1, <1>3 DEF Inv, StatusHeard, MessagesCurrent, AddrsHeard, agent
  <1> QED BY <1>2, <1>4, <1>5, <1>6, <1>7 DEF Inv, HandlerConnects, WatchesNoMore

(* From READY on it is told what it needs.                                  *)
LEMMA ConnectedInv == ASSUME Inv, Connected PROVE Inv'
  <1>1. /\ mqtt = "subscribing" /\ mqtt' = "on" /\ dstatus' = "READY"
        /\ toAgent' = Append(toAgent, "READY") /\ toAgent \in Seq(Status)
        /\ UNCHANGED <<agent, toDriver, objects, reconnecting, calls, field, faults>>
    BY DEF Connected, SetStatus, Inv, TypeInv
  <1> DEFINE n == Len(toAgent)
  <1>2. /\ toAgent' \in Seq(Status) /\ n \in Nat /\ Len(toAgent') = n + 1
        /\ DOMAIN toAgent = 1..n /\ DOMAIN toAgent' = 1..(n + 1)
        /\ toAgent'[n + 1] = "READY" /\ \A i \in 1..n : toAgent'[i] = toAgent[i]
    BY <1>1 DEF Status
  <1> HIDE DEF n
  <1>3. ~ReadyComes /\ ~ConfComes /\ Settling
    BY <1>1 DEF Inv, OneHandlerEach, Settling
  <1>4. ReadyComes' /\ ~ConfComes' /\ Settling'
    BY <1>1, <1>2, <1>3 DEF ReadyComes, ConfComes, Settling
  <1>5. Pending' = Pending
    BY <1>1 DEF Pending
  <1>6. TypeInv'
    BY <1>1, <1>2, <1>5
    DEF Inv, TypeInv, agent, objects, field, Status, CallTyped, Connecting, Closing, Subscribing
  <1>7. \A i \in DOMAIN toAgent' : toAgent'[i] = "READY" => i = n + 1
    BY <1>2, <1>3 DEF ReadyComes
  <1>8. OneHandlerEach'
    BY <1>1, <1>3, <1>4, <1>7 DEF Inv, OneHandlerEach, objects
  <1>9. StatusHeard'
    <2>1. LastStatus' = "READY"
      BY <1>2 DEF LastStatus
    <2>2. \A i \in DOMAIN toAgent' : toAgent'[i] # "DOWN"
      BY <1>1, <1>2 DEF Inv, StatusHeard
    <2> QED BY <1>1, <2>1, <2>2 DEF Inv, StatusHeard, agent
  <1>10. MessagesCurrent'
    BY <1>1 DEF Inv, MessagesCurrent, ConfMsg, AddrMsg, agent
  <1>11. AddrsHeard' /\ HandlerConnects' /\ WatchesNoMore' /\ Watches'
    BY <1>1, <1>4 DEF AddrsHeard, HandlerConnects, WatchesNoMore, Watches
  <1> QED BY <1>6, <1>8, <1>9, <1>10, <1>11 DEF Inv

-----------------------------------------------------------------------------
(* Steps of the driver and its handler.  Where no message is taken and the  *)
(* handler stays in use, what is said of messages stays true.               *)
LEMMA TalkKept ==
    ASSUME Inv, UNCHANGED <<agent, toDriver, mqtt, objects>>,
           faults' \in 0 .. MaxFaults, faults <= faults',
           UNCHANGED <<toAgent, dstatus>> \/ \E st \in Spoken : SetStatus(st)
    PROVE  /\ OneHandlerEach' /\ StatusHeard' /\ MessagesCurrent' /\ AddrsHeard'
           /\ toAgent' \in Seq(Status) /\ dstatus' \in Status
           /\ Settling' <=> Settling
  <1>1. /\ toAgent' \in Seq(Status) /\ dstatus' \in Status /\ (ReadyComes' <=> ReadyComes)
        /\ \A i, j \in DOMAIN toAgent' : toAgent'[i] = "READY" /\ toAgent'[j] = "READY" => i = j
        /\ StatusHeard'
    <2>1. CASE UNCHANGED <<toAgent, dstatus>>
      BY <2>1 DEF Inv, TypeInv, ReadyComes, OneHandlerEach, StatusHeard, LastStatus, agent
    <2>2. CASE \E st \in Spoken : SetStatus(st)
      BY <2>2, StatusSaid DEF Inv, agent
    <2> QED BY <2>1, <2>2
  <1>2. (ConfComes' <=> ConfComes) /\ (Settling' <=> Settling)
    BY <1>1 DEF ConfComes, Settling
  <1>3. OneHandlerEach'
    <2>1. made \in Nat /\ faults \in Nat /\ faults' \in Nat /\ made' = made
      BY MaxFaultsAssumption DEF Inv, TypeInv, objects
    <2>2. (Settling => made <= faults) /\ (~Settling => made <= faults + 1)
      BY DEF Inv, OneHandlerEach
    <2>3. \A m, f, g \in Nat : f <= g => (m <= f => m <= g) /\ (m <= f + 1 => m <= g + 1)
      OBVIOUS
    <2>4. made' <= (IF Settling' THEN faults' ELSE faults' + 1)
      BY <1>2, <2>1, <2>2, <2>3
    <2> QED BY <1>1, <1>2, <2>4 DEF Inv, OneHandlerEach
  <1>4. MessagesCurrent' /\ AddrsHeard'
    BY <1>1 DEF Inv, MessagesCurrent, AddrsHeard, LastAddrs, ConfMsg, AddrMsg, agent, objects
  <1> QED BY <1>1, <1>2, <1>3, <1>4

(* A subscription is for the handler in use and for known addresses.        *)
LEMMA TrySubscribeIs ==
    ASSUME TypeInv, handler # None, NEW st, NEW D \in {NoAddrs} \cup SUBSET Device
    PROVE  /\ \A c \in TrySubscribe(st, D) : CallTyped(c, made) /\ c = Subscribing(handler, D)
                                              /\ D # NoAddrs /\ st = "UP"
           /\ st = "UP" /\ D # NoAddrs => Subscribing(handler, D) \in TrySubscribe(st, D)
  BY DEF TypeInv, TrySubscribe, CallTyped, Subscribing, None

(* A new handler is not connected and knows no addresses; both will come.   *)
LEMMA AcceptInv == ASSUME Inv, OnConf, Accept PROVE Inv'
  <1>1. /\ mqtt = "on" /\ toDriver # <<>> /\ Head(toDriver).msg = "conf" /\ toDriver' = Tail(toDriver)
        /\ addrs' = NoAddrs /\ UNCHANGED <<agent, mqtt, reconnecting, faults, toAgent, dstatus>>
        /\ made' = made + 1 /\ handler' = made' /\ south' = south \ {handler} /\ watching' = {}
        /\ calls' = calls (+) SetToBag({IF handler = None THEN Connecting(handler')
                                                          ELSE Closing(handler)})
    BY DEF OnConf, Accept
  <1>2. /\ toDriver' \in Seq(Message) /\ MessagesCurrent' /\ ConfComes /\ ~ConfComes'
        /\ \A i, j \in DOMAIN toDriver' :
               toDriver'[i].msg = "conf" /\ toDriver'[j].msg = "conf" => i = j
        /\ toDriver' # <<>> => toDriver'[Len(toDriver')] = toDriver[Len(toDriver)]
        /\ toDriver' = <<>> => Head(toDriver) = toDriver[Len(toDriver)]
    BY <1>1, MessageTaken DEF Inv, agent
  <1>3. ~ReadyComes /\ ~ReadyComes' /\ Settling /\ ~Settling'
    BY <1>1, <1>2 DEF Inv, OneHandlerEach, ReadyComes, Settling
  <1>4. PICK new : new = IF handler = None THEN Connecting(handler') ELSE Closing(handler)
    OBVIOUS
  <1>5. IsABag(calls') /\ Pending' = Pending \cup {new}
    BY <1>1, <1>4, CallsMade DEF Inv, TypeInv
  <1>6. made \in Nat /\ handler \in {0, made} /\ handler' = made + 1 /\ made' = made + 1 /\ None = 0
    BY <1>1 DEF Inv, TypeInv, None
  <1>7. /\ CallTyped(new, made') /\ new.op # "subscribe"
        /\ new = Connecting(handler') \/ new.op = "close"
    BY <1>4, <1>6 DEF CallTyped, Connecting, Closing
  <1>8. \A c \in Pending : CallTyped(c, made') /\ c.handler \in 1 .. made
    BY <1>6 DEF Inv, TypeInv, CallTyped
  <1>9. TypeInv'
    <2>1. \A c \in Pending' : CallTyped(c, made')
      BY <1>5, <1>7, <1>8
    <2>2. south' \subseteq 1 .. made'
      BY <1>1, <1>6 DEF Inv, TypeInv
    <2> QED BY <1>1, <1>2, <1>5, <1>6, <2>1, <2>2
            DEF Inv, TypeInv, agent, CallTyped, Connecting, Closing, Subscribing, None
  <1>10. OneHandlerEach'
    BY <1>1, <1>2, <1>3, <1>6 DEF Inv, TypeInv, OneHandlerEach
  <1>11. StatusHeard'
    BY <1>1 DEF Inv, StatusHeard, LastStatus, agent
  <1>12. AddrsHeard'
    <2>1. status # "DOWN" /\ toDriver[Len(toDriver)] = AddrMsg(subscribed)
      BY <1>1, <1>3 DEF Inv, AddrsHeard, LastAddrs
    <2>2. toDriver' # <<>>
      BY <1>1, <1>2, <2>1 DEF AddrMsg
    <2> QED BY <1>1, <1>2, <2>1, <2>2 DEF AddrsHeard, LastAddrs, AddrMsg, agent
  <1>13. HandlerConnects'
    BY <1>5, <1>6, <1>7 DEF HandlerConnects, Connects, Connecting, None
  <1>14. Watches'
    BY <1>1 DEF Watches
  <1>15. WatchesNoMore'
    <2>1. \A c \in Pending' : c.op = "subscribe" => c.handler # made + 1
      BY <1>5, <1>6, <1>7, <1>8
    <2>2. Asked(handler)' = {}
      BY <1>6, <2>1 DEF Asked
    <2> QED BY <1>1, <2>2 DEF WatchesNoMore
  <1> QED BY <1>2, <1>9, <1>10, <1>11, <1>12, <1>13, <1>14, <1>15 DEF Inv

(* A configuration that is rejected is not a good one.                      *)
LEMMA RejectInv ==
    ASSUME Inv, OnConf, Head(toDriver).conf = "bad_conf", Reject
    PROVE  Inv'
  <1>1. /\ mqtt = "on" /\ toDriver # <<>> /\ Head(toDriver).msg = "conf" /\ toDriver' = Tail(toDriver)
        /\ addrs' = NoAddrs /\ UNCHANGED <<agent, mqtt, reconnecting, faults>>
        /\ handler' = None /\ SetStatus("CONF") /\ UNCHANGED <<made, calls, field>>
    BY DEF OnConf, Reject
  <1>2. /\ toDriver' \in Seq(Message) /\ MessagesCurrent' /\ ConfComes /\ ~ConfComes'
        /\ \A i, j \in DOMAIN toDriver' :
               toDriver'[i].msg = "conf" /\ toDriver'[j].msg = "conf" => i = j
        /\ toDriver' # <<>> => toDriver'[Len(toDriver')] = toDriver[Len(toDriver)]
        /\ toDriver' = <<>> => Head(toDriver) = toDriver[Len(toDriver)]
        /\ Head(toDriver) = ConfMsg \/ \E D \in SUBSET subscribed : Head(toDriver) = AddrMsg(D)
    BY <1>1, MessageTaken DEF Inv, agent
  <1>3. conf = "bad_conf" /\ conf' = conf
    BY <1>1, <1>2 DEF ConfMsg, AddrMsg, agent
  <1>4. /\ dstatus' = "CONF" /\ dstatus' \in Status /\ toAgent' \in Seq(Status)
        /\ ReadyComes' <=> ReadyComes
        /\ \A i, j \in DOMAIN toAgent' : toAgent'[i] = "READY" /\ toAgent'[j] = "READY" => i = j
        /\ StatusHeard'
    <2>1. "CONF" \in Spoken
      BY DEF Spoken
    <2> QED BY <1>1, <2>1, StatusSaid DEF Inv, agent
  <1>5. ~ReadyComes /\ ~ReadyComes' /\ Settling /\ ~Settling'
    BY <1>1, <1>2, <1>4 DEF Inv, OneHandlerEach, Settling
  <1>6. TypeInv'
    BY <1>1, <1>2, <1>4
    DEF Inv, TypeInv, Pending, agent, field, CallTyped, Connecting, Closing, Subscribing
  <1>7. OneHandlerEach'
    BY <1>1, <1>2, <1>4, <1>5 DEF Inv, TypeInv, OneHandlerEach
  <1>8. AddrsHeard'
    <2>1. status # "DOWN" /\ toDriver[Len(toDriver)] = AddrMsg(subscribed)
      BY <1>1, <1>5 DEF Inv, AddrsHeard, LastAddrs
    <2>2. toDriver' # <<>>
      BY <1>1, <1>2, <2>1 DEF AddrMsg
    <2> QED BY <1>1, <1>2, <2>1, <2>2 DEF AddrsHeard, LastAddrs, AddrMsg, agent
  <1>9. HandlerConnects' /\ WatchesNoMore' /\ Watches'
    BY <1>1, <1>3 DEF HandlerConnects, WatchesNoMore, Watches
  <1> QED BY <1>2, <1>4, <1>6, <1>7, <1>8, <1>9 DEF Inv

(* A configuration is accepted or rejected.                                 *)
LEMMA OnConfInv == ASSUME Inv, OnConf PROVE Inv'
  BY AcceptInv, RejectInv DEF OnConf

(* Addresses that come are asked for by a handler that is connected.        *)
LEMMA OnAddrInv == ASSUME Inv, OnAddr PROVE Inv'
  <1> DEFINE m == Head(toDriver)
  <1>1. /\ mqtt = "on" /\ toDriver # <<>> /\ m.msg = "addr" /\ toDriver' = Tail(toDriver)
        /\ UNCHANGED <<agent, mqtt, handler, made, reconnecting, field, faults>>
    BY DEF OnAddr
  <1>2. /\ toDriver' \in Seq(Message) /\ MessagesCurrent' /\ (ConfComes' <=> ConfComes)
        /\ \A i, j \in DOMAIN toDriver' :
               toDriver'[i].msg = "conf" /\ toDriver'[j].msg = "conf" => i = j
        /\ toDriver' # <<>> => toDriver'[Len(toDriver')] = toDriver[Len(toDriver)]
        /\ toDriver' = <<>> => m = toDriver[Len(toDriver)]
        /\ m = ConfMsg \/ \E D \in SUBSET subscribed : m = AddrMsg(D)
    BY <1>1, MessageTaken DEF Inv, agent
  <1>3. PICK D \in SUBSET subscribed : m = AddrMsg(D)
    BY <1>1, <1>2 DEF ConfMsg
  <1>4. /\ m.devices = D /\ (conf = "good" => m.valid) /\ D \in SUBSET Device /\ D # NoAddrs
    <2>1. m.devices = D /\ m.valid = (D = {} \/ conf # "bad_addr")
      BY <1>3 DEF AddrMsg
    <2>2. D \in SUBSET Device /\ None \in NoAddrs /\ None \notin D
      BY DeviceAssumption DEF Inv, TypeInv, NoAddrs
    <2> QED BY <2>1, <2>2
  <1> HIDE DEF m
  <1>5. /\ toAgent' \in Seq(Status) /\ dstatus' \in Status
        /\ ReadyComes' <=> ReadyComes
        /\ \A i, j \in DOMAIN toAgent' : toAgent'[i] = "READY" /\ toAgent'[j] = "READY" => i = j
        /\ StatusHeard'
    <2>1. CASE UNCHANGED <<dstatus, toAgent>>
      BY <1>1, <2>1 DEF Inv, TypeInv, ReadyComes, OneHandlerEach, StatusHeard, LastStatus, agent
    <2>2. CASE SetStatus("ADDR")
      <3>1. "ADDR" \in Spoken
        BY DEF Spoken
      <3> QED BY <1>1, <2>2, <3>1, StatusSaid DEF Inv, agent
    <2> QED BY <2>1, <2>2 DEF OnAddr
  <1>6. Settling' <=> Settling
    BY <1>1, <1>2, <1>5 DEF Settling
  <1>7. OneHandlerEach'
    BY <1>1, <1>2, <1>5, <1>6 DEF Inv, TypeInv, OneHandlerEach
  <1>8. mqtt = "on" /\ ~ReadyComes => status # "DOWN" /\ toDriver[Len(toDriver)] = AddrMsg(subscribed)
    BY <1>1 DEF Inv, AddrsHeard, LastAddrs
  <1>9. mqtt = "on" /\ ~ReadyComes /\ toDriver' = <<>> => D = subscribed
    BY <1>2, <1>3, <1>8 DEF AddrMsg
  <1>10. CASE handler # None /\ m.valid
    <2>1. /\ addrs' = D /\ calls' = calls (+) SetToBag(TrySubscribe(dstatus, D))
          /\ UNCHANGED <<dstatus, toAgent>>
      BY <1>4, <1>10 DEF OnAddr, m
    <2> DEFINE new == TrySubscribe(dstatus, D)
    <2>2. IsABag(calls') /\ Pending' = Pending \cup new
      BY <2>1, CallsMade DEF Inv, TypeInv
    <2>3. /\ \A c \in new : CallTyped(c, made) /\ c = Subscribing(handler, D)
          /\ dstatus = "UP" => Subscribing(handler, D) \in new
      BY <1>4, <1>10, TrySubscribeIs DEF Inv
    <2> HIDE DEF new
    <2>4. TypeInv'
      BY <1>1, <1>2, <1>4, <1>5, <2>1, <2>2, <2>3
      DEF Inv, TypeInv, agent, field, CallTyped, Connecting, Closing, Subscribing
    <2>5. AddrsHeard'
      BY <1>1, <1>2, <1>5, <1>8, <1>9, <2>1 DEF AddrsHeard, LastAddrs, AddrMsg, agent
    <2>6. HandlerConnects'
      BY <1>1, <1>6, <2>1, <2>2
      DEF Inv, HandlerConnects, Connects, Connecting, agent, field
    <2>7. Watches'
      <3> SUFFICES ASSUME dstatus = "UP", NEW d \in D PROVE d \in Asked(handler)'
        BY <2>1 DEF Watches
      <3>1. Subscribing(handler, D) \in Pending' /\ handler' = handler
        BY <1>1, <2>2, <2>3
      <3> QED BY <3>1, AskedBy DEF Asked
    <2>8. WatchesNoMore'
      <3> SUFFICES ASSUME ~Settling', conf' = "good"
                   PROVE  /\ watching' \cup Asked(handler)' \subseteq subscribed'
                          /\ addrs' \subseteq subscribed'
        BY DEF WatchesNoMore
      <3>1. watching \cup Asked(handler) \subseteq subscribed
        BY <1>1, <1>6 DEF Inv, WatchesNoMore, agent
      <3>2. Asked(handler)' \subseteq Asked(handler) \cup D
        BY <1>1, <2>2, <2>3, AskedBy DEF Asked
      <3> QED BY <1>1, <2>1, <3>1, <3>2 DEF agent, field
    <2> QED BY <1>2, <1>5, <1>7, <2>4, <2>5, <2>6, <2>7, <2>8 DEF Inv
  <1>11. CASE ~(handler # None /\ m.valid)
    <2>1. /\ addrs' = IF handler = None THEN addrs ELSE NoAddrs
          /\ dstatus' = "ADDR" /\ UNCHANGED calls
      BY <1>11 DEF OnAddr, m, SetStatus
    <2>2. conf = "good" => handler = None /\ Settling
      BY <1>4, <1>11 DEF Inv, HandlerConnects
    <2>3. TypeInv'
      BY <1>1, <1>2, <1>5, <2>1
      DEF Inv, TypeInv, Pending, agent, field, NoAddrs, CallTyped, Connecting, Closing, Subscribing
    <2>4. AddrsHeard'
      BY <1>1, <1>2, <1>5, <1>8, <2>2 DEF AddrsHeard, LastAddrs, AddrMsg, agent
    <2>5. HandlerConnects' /\ WatchesNoMore' /\ Watches'
      BY <1>1, <1>6, <2>1, <2>2 DEF HandlerConnects, WatchesNoMore, Watches, agent
    <2> QED BY <1>2, <1>5, <1>7, <2>3, <2>4, <2>5 DEF Inv
  <1> QED BY <1>10, <1>11

(* A connection is there, or was refused and will be tried again.           *)
LEMMA ConnectSettlesInv ==
    ASSUME Inv, NEW c \in Pending, NEW st \in {"UP", "CONN", "AUTH"}, ConnectSettles(c, st)
    PROVE  Inv'
  <1>1. CASE handler = None
    BY <1>1, DiesInv DEF ConnectSettles, Inv, TypeInv
  <1>2. CASE handler # None
    <2>1. /\ c.op = "connect" /\ SetStatus(st) /\ reconnecting' = (reconnecting \/ st # "UP")
          /\ calls' = Swap(c, TrySubscribe(st, addrs))
          /\ south' = IF c.handler = handler /\ st = "UP" THEN south \cup {handler}
                                                          ELSE south \ {c.handler}
          /\ watching' = IF c.handler = handler THEN {} ELSE watching
          /\ UNCHANGED <<agent, toDriver, mqtt, objects, faults>>
      BY <1>2 DEF ConnectSettles, Retries
    <2>2. /\ OneHandlerEach' /\ StatusHeard' /\ MessagesCurrent' /\ AddrsHeard'
          /\ toAgent' \in Seq(Status) /\ dstatus' \in Status /\ (Settling' <=> Settling)
      BY <2>1, TalkKept DEF Spoken, Inv, TypeInv
    <2> DEFINE new == TrySubscribe(st, addrs)
    <2>3. /\ IsABag(calls') /\ Pending' \subseteq Pending \cup new
          /\ (Pending \ {c}) \cup new \subseteq Pending'
      BY <2>1, CallSwapped DEF Inv, TypeInv
    <2>4. /\ \A b \in new : CallTyped(b, made) /\ b = Subscribing(handler, addrs)
                             /\ addrs # NoAddrs /\ st = "UP"
          /\ st = "UP" /\ addrs # NoAddrs => Subscribing(handler, addrs) \in new
      BY <1>2, TrySubscribeIs DEF Inv, TypeInv
    <2> HIDE DEF new
    <2>5. dstatus' = st
      BY <2>1 DEF SetStatus
    <2>6. handler \in 1 .. made /\ c.handler \in 1 .. made /\ made \in Nat
      BY <1>2 DEF Inv, TypeInv, CallTyped, None
    <2>7. TypeInv'
      <3>1. \A b \in Pending' : CallTyped(b, made)
        BY <2>3, <2>4 DEF Inv, TypeInv, CallTyped
      <3>2. south' \subseteq 1 .. made /\ watching' \subseteq Device
        BY <2>1, <2>6 DEF Inv, TypeInv
      <3> QED BY <2>1, <2>2, <2>3, <3>1, <3>2
              DEF Inv, TypeInv, agent, objects, CallTyped, Connecting, Closing, Subscribing
    <2>8. HandlerConnects'
      <3> SUFFICES ASSUME Connects PROVE Connects'
        BY <1>2, <2>1, <2>2 DEF Inv, HandlerConnects, agent, objects
      <3>1. CASE st # "UP" \/ reconnecting
        BY <2>1, <3>1 DEF Connects
      <3>2. CASE st = "UP" /\ c.handler = handler
        BY <2>1, <2>5, <3>2 DEF Connects, objects
      <3>3. CASE c.handler # handler /\ st = "UP" /\ ~reconnecting
        <4>1. CASE \E b \in Pending : b.op = "close"
          BY <2>1, <2>3, <4>1 DEF Connects
        <4>2. CASE Connecting(handler) \in Pending
          BY <2>1, <2>3, <3>3, <4>2, AskedBy DEF Connects, objects, Connecting
        <4>3. CASE handler \in south
          BY <2>1, <2>5, <3>3, <4>3 DEF Connects, objects
        <4> QED BY <3>3, <4>1, <4>2, <4>3 DEF Connects
      <3> QED BY <3>1, <3>2, <3>3
    <2>9. Watches'
      <3> SUFFICES ASSUME st = "UP", addrs # NoAddrs, NEW d \in addrs PROVE d \in Asked(handler)'
        BY <2>1, <2>5 DEF Watches, objects
      <3>1. Subscribing(handler, addrs) \in Pending' /\ handler' = handler
        BY <2>1, <2>3, <2>4 DEF objects
      <3> QED BY <3>1, AskedBy DEF Asked
    <2>10. WatchesNoMore'
      <3> SUFFICES ASSUME ~Settling', conf' = "good"
                   PROVE  /\ watching' \cup Asked(handler)' \subseteq subscribed'
                          /\ addrs' # NoAddrs => addrs' \subseteq subscribed'
        BY DEF WatchesNoMore
      <3>1. /\ watching \cup Asked(handler) \subseteq subscribed
            /\ addrs # NoAddrs => addrs \subseteq subscribed
        BY <2>1, <2>2 DEF Inv, WatchesNoMore, agent
      <3>2. \A d \in Asked(handler)' : d \in Asked(handler) \/ (addrs # NoAddrs /\ d \in addrs)
        <4> SUFFICES ASSUME NEW b \in Pending', b.op = "subscribe", b.handler = handler,
                            NEW d \in b.devices
                     PROVE  d \in Asked(handler) \/ (addrs # NoAddrs /\ d \in addrs)
          BY <2>1 DEF Asked, objects
        <4>1. CASE b \in Pending
          BY <4>1, AskedIs
        <4>2. CASE b \in new
          BY <2>4, <4>2, AskedBy
        <4> QED BY <2>3, <4>1, <4>2
      <3> QED BY <2>1, <3>1, <3>2 DEF agent, objects
    <2> QED BY <2>2, <2>7, <2>8, <2>9, <2>10 DEF Inv
  <1> QED BY <1>1, <1>2

(* A call of any handler that changes no status leaves what is in Asked, or *)
(* has it watched.                                                          *)
LEMMA SubscribeSucceedsInv ==
    ASSUME Inv, NEW c \in Pending, SubscribeSucceeds(c)
    PROVE  Inv'
  <1>1. /\ c.op = "subscribe" /\ calls' = Drop(c)
        /\ watching' = IF c.handler = handler THEN watching \cup c.devices ELSE watching
        /\ UNCHANGED <<agent, toDriver, toAgent, mqtt, dstatus, objects,
                       reconnecting, south, faults>>
    BY DEF SubscribeSucceeds
  <1>2. /\ OneHandlerEach' /\ StatusHeard' /\ MessagesCurrent' /\ AddrsHeard'
        /\ toAgent' \in Seq(Status) /\ dstatus' \in Status /\ (Settling' <=> Settling)
    BY <1>1, TalkKept DEF Inv, TypeInv
  <1>3. IsABag(calls') /\ Pending' \subseteq Pending /\ Pending \ {c} \subseteq Pending'
    BY <1>1, CallAnswered DEF Inv, TypeInv
  <1>4. c.devices \subseteq Device
    <2>1. CallTyped(c, made)
      BY DEF Inv, TypeInv
    <2>2. PICK D \in SUBSET Device : c = Subscribing(c.handler, D)
      BY <1>1, <2>1, AskedBy DEF CallTyped
    <2> QED BY <2>2, AskedBy
  <1>5. TypeInv'
    BY <1>1, <1>2, <1>3, <1>4
    DEF Inv, TypeInv, agent, objects, CallTyped, Connecting, Closing, Subscribing
  <1>6. HandlerConnects'
    <2> SUFFICES ASSUME Connects PROVE Connects'
      BY <1>1, <1>2 DEF Inv, HandlerConnects, agent, objects
    <2>1. ASSUME NEW b \in Pending, b.op # "subscribe" PROVE b \in Pending'
      BY <1>1, <1>3, <2>1
    <2>2. Connecting(handler).op # "subscribe" /\ handler' = handler
      BY <1>1, AskedBy DEF objects
    <2> QED BY <1>1, <2>1, <2>2 DEF Connects, objects, Connecting
  <1>7. \A d \in Asked(handler) : d \in Asked(handler)' \/ d \in watching'
    <2> SUFFICES ASSUME NEW b \in Pending, b.op = "subscribe", b.handler = handler,
                        NEW d \in b.devices
                 PROVE  d \in Asked(handler)' \/ d \in watching'
      BY DEF Asked
    <2> QED BY <1>1, <1>3 DEF Asked, objects
  <1>8. Asked(handler)' \subseteq Asked(handler) /\ watching' \subseteq watching \cup Asked(handler)
        /\ watching \subseteq watching'
    <2>1. c.handler = handler => c.devices \subseteq Asked(handler)
      BY <1>1 DEF Asked
    <2> QED BY <1>1, <1>3, <2>1 DEF Asked, objects
  <1>9. Watches'
    BY <1>1, <1>7, <1>8 DEF Inv, Watches, objects
  <1>10. WatchesNoMore'
    BY <1>1, <1>2, <1>8 DEF Inv, WatchesNoMore, agent, objects
  <1> QED BY <1>2, <1>5, <1>6, <1>9, <1>10 DEF Inv

(* One that has failed leads to another attempt, as does a connection lost. *)
LEMMA FailureInv ==
    ASSUME Inv, SetStatus("CONN"), reconnecting' = TRUE,
           UNCHANGED <<agent, toDriver, mqtt, objects>>,
           IsABag(calls'), Pending' \subseteq Pending,
           south' \subseteq south, watching' \subseteq watching,
           faults' \in 0 .. MaxFaults, faults <= faults'
    PROVE  Inv'
  <1>1. /\ OneHandlerEach' /\ StatusHeard' /\ MessagesCurrent' /\ AddrsHeard'
        /\ toAgent' \in Seq(Status) /\ dstatus' \in Status /\ (Settling' <=> Settling)
    BY TalkKept DEF Spoken
  <1>2. dstatus' = "CONN"
    BY DEF SetStatus
  <1>3. TypeInv'
    BY <1>1 DEF Inv, TypeInv, agent, objects, CallTyped, Connecting, Closing, Subscribing
  <1>4. Watches' /\ HandlerConnects'
    BY <1>1, <1>2 DEF Inv, Watches, HandlerConnects, Connects, agent, objects
  <1>5. Asked(handler)' \subseteq Asked(handler)
    BY DEF Asked, objects
  <1>6. WatchesNoMore'
    BY <1>1, <1>5 DEF Inv, WatchesNoMore, agent, objects
  <1> QED BY <1>1, <1>3, <1>4, <1>6 DEF Inv

(* A subscription that has failed is such a failure.                        *)
LEMMA SubscribeFailsInv == ASSUME Inv, NEW c \in Pending, SubscribeFails(c) PROVE Inv'
  <1>1. IsABag(calls') /\ Pending' \subseteq Pending
    BY CallAnswered DEF SubscribeFails, Inv, TypeInv
  <1> QED BY <1>1, FailureInv DEF SubscribeFails, Inv, TypeInv, field

(* So is a southbound connection that is lost.                              *)
LEMMA SouthLostInv == ASSUME Inv, NEW h \in south, SouthLost(h) PROVE Inv'
  <1>1. IsABag(calls') /\ Pending' = Pending
    BY DEF SouthLost, Inv, TypeInv, Pending
  <1>2. faults' \in 0 .. MaxFaults /\ faults <= faults'
    BY MaxFaultsAssumption DEF SouthLost, Fault, Inv, TypeInv
  <1>3. south' \subseteq south /\ watching' \subseteq watching
    BY DEF SouthLost
  <1> QED BY <1>1, <1>2, <1>3, FailureInv DEF SouthLost

(* The handler in use is connected when another has been closed, and when   *)
(* the timer fires.                                                         *)
LEMMA ConnectsInv ==
    ASSUME Inv, handler # None, IsABag(calls'), Connecting(handler) \in Pending',
           \A b \in Pending : b.op = "subscribe" => b \in Pending',
           Pending' \subseteq Pending \cup {Connecting(handler)}, reconnecting' \in BOOLEAN,
           UNCHANGED <<agent, toDriver, toAgent, mqtt, dstatus, objects, field, faults>>
    PROVE  Inv'
  <1>1. /\ OneHandlerEach' /\ StatusHeard' /\ MessagesCurrent' /\ AddrsHeard'
        /\ toAgent' \in Seq(Status) /\ dstatus' \in Status /\ (Settling' <=> Settling)
    BY TalkKept DEF Inv, TypeInv
  <1>2. CallTyped(Connecting(handler), made)
    BY DEF CallTyped, Connecting, Inv, TypeInv, None
  <1>3. TypeInv'
    BY <1>1, <1>2
    DEF Inv, TypeInv, agent, objects, field, CallTyped, Connecting, Closing, Subscribing
  <1>4. HandlerConnects'
    BY <1>1 DEF HandlerConnects, Connects, Connecting, objects
  <1>5. Asked(handler)' = Asked(handler)
    <2>1. Connecting(handler).op # "subscribe" /\ handler' = handler
      BY AskedBy DEF objects
    <2> QED BY <2>1 DEF Asked
  <1>6. Watches' /\ WatchesNoMore'
    BY <1>1, <1>5 DEF Inv, Watches, WatchesNoMore, agent, objects, field
  <1> QED BY <1>1, <1>3, <1>4, <1>6 DEF Inv

(* A closed handler makes way for the one in use, if there is one.          *)
LEMMA CloseSettlesInv == ASSUME Inv, NEW c \in Pending, CloseSettles(c) PROVE Inv'
  <1>1. CASE handler = None
    BY <1>1, DiesInv DEF CloseSettles, Inv, TypeInv
  <1>2. CASE handler # None
    <2>1. /\ c.op = "close" /\ calls' = Swap(c, {Connecting(handler)})
          /\ UNCHANGED <<agent, toDriver, toAgent, mqtt, dstatus, objects,
                       reconnecting, field, faults>>
      BY <1>2 DEF CloseSettles
    <2>2. /\ IsABag(calls') /\ Pending' \subseteq Pending \cup {Connecting(handler)}
          /\ (Pending \ {c}) \cup {Connecting(handler)} \subseteq Pending'
      BY <2>1, CallSwapped DEF Inv, TypeInv
    <2>3. reconnecting' \in BOOLEAN
      BY <2>1 DEF Inv, TypeInv
    <2> QED BY <1>2, <2>1, <2>2, <2>3, ConnectsInv
  <1> QED BY <1>1, <1>2

(* The timer does the same.                                                 *)
LEMMA ReconnectInv == ASSUME Inv, Reconnect PROVE Inv'
  <1>1. CASE handler = None
    BY <1>1, DiesInv DEF Reconnect, Inv, TypeInv
  <1>2. CASE handler # None
    <2>1. /\ calls' = calls (+) SetToBag({Connecting(handler)}) /\ reconnecting' = FALSE
          /\ UNCHANGED <<agent, toDriver, toAgent, mqtt, dstatus, objects, field, faults>>
      BY <1>2 DEF Reconnect
    <2>2. IsABag(calls') /\ Pending' = Pending \cup {Connecting(handler)}
      BY <2>1, CallsMade DEF Inv, TypeInv
    <2> QED BY <1>2, <2>1, <2>2, ConnectsInv
  <1> QED BY <1>1, <1>2

(* Only old handlers fail to answer.                                        *)
LEMMA HangsInv == ASSUME Inv, NEW c \in Pending, Hangs(c) PROVE Inv'
  <1>1. /\ c.op # "close" /\ c.handler # handler /\ calls' = Drop(c)
        /\ UNCHANGED <<agent, toDriver, toAgent, mqtt, dstatus, objects,
                       reconnecting, field, faults>>
    BY DEF Hangs
  <1>2. /\ OneHandlerEach' /\ StatusHeard' /\ MessagesCurrent' /\ AddrsHeard'
        /\ toAgent' \in Seq(Status) /\ dstatus' \in Status /\ (Settling' <=> Settling)
    BY <1>1, TalkKept DEF Inv, TypeInv
  <1>3. IsABag(calls') /\ Pending' \subseteq Pending /\ Pending \ {c} \subseteq Pending'
    BY <1>1, CallAnswered DEF Inv, TypeInv
  <1>4. TypeInv'
    BY <1>1, <1>2, <1>3
    DEF Inv, TypeInv, agent, objects, field, CallTyped, Connecting, Closing, Subscribing
  <1>5. \A b \in Pending : b.op = "close" \/ b.handler = handler => b \in Pending'
    BY <1>1, <1>3
  <1>6. Connects => Connects'
    <2>1. Connecting(handler).handler = handler /\ handler' = handler
      BY <1>1, AskedBy DEF objects
    <2> QED BY <1>1, <1>5, <2>1 DEF Connects, objects, field, Connecting
  <1>7. Asked(handler)' = Asked(handler)
    BY <1>1, <1>3, <1>5 DEF Asked, objects
  <1>8. HandlerConnects' /\ Watches' /\ WatchesNoMore'
    BY <1>1, <1>2, <1>6, <1>7
    DEF Inv, HandlerConnects, Watches, WatchesNoMore, agent, objects, field
  <1> QED BY <1>2, <1>4, <1>8 DEF Inv

-----------------------------------------------------------------------------
(* At first nothing has been said and no handler made.                      *)
LEMMA InitInv == Init => Inv
  <1> SUFFICES ASSUME Init PROVE Inv
    OBVIOUS
  <1> USE DEF Init, DriverInit
  <1>1. IsABag(calls) /\ Pending = {}
    BY DEF EmptyBag, SetToBag, IsABag, Pending, BagToSet
  <1>2. DOMAIN toAgent = {} /\ DOMAIN toDriver = {}
    OBVIOUS
  <1>3. TypeInv
    <2>1. toDriver \in Seq(Message) /\ toAgent \in Seq(Status)
      OBVIOUS
    <2>2. faults \in 0 .. MaxFaults /\ made \in Nat /\ handler \in {None, made}
      BY MaxFaultsAssumption
    <2>3. south \subseteq 1 .. made
      OBVIOUS
    <2> QED BY <1>1, <2>1, <2>2, <2>3 DEF TypeInv, Status
  <1>4. Settling /\ ~ReadyComes /\ ~ConfComes
    BY <1>2 DEF Settling, ReadyComes, ConfComes
  <1>5. OneHandlerEach
    BY <1>2, <1>4 DEF OneHandlerEach
  <1>6. StatusHeard /\ MessagesCurrent /\ AddrsHeard
    BY <1>2 DEF StatusHeard, MessagesCurrent, AddrsHeard
  <1>7. HandlerConnects /\ Watches /\ WatchesNoMore
    BY <1>4 DEF HandlerConnects, Watches, WatchesNoMore
  <1> QED BY <1>3, <1>5, <1>6, <1>7 DEF Inv

(* Every step keeps the invariant.                                          *)
LEMMA NextInv == ASSUME Inv, [Next]_vars PROVE Inv'
  <1>1. CASE AgentStep
    BY <1>1, MsgStatusInv, StartSubscriptionInv DEF AgentStep
  <1>2. CASE MqttStep
    BY <1>2, MqttConnectInv, ConnectedInv DEF MqttStep
  <1>3. CASE DriverStep
    BY <1>3, OnConfInv, OnAddrInv, ReconnectInv DEF DriverStep
  <1>4. ASSUME NEW c \in BagToSet(calls), Answers(c) \/ Hangs(c)
        PROVE  Inv'
    BY <1>4, ConnectSettlesInv, SubscribeSucceedsInv, SubscribeFailsInv, CloseSettlesInv, HangsInv
    DEF Answers, Pending
  <1>5. ASSUME NEW c \in Conf, AgentRestart(c)
        PROVE  Inv'
    BY <1>5, AgentRestartInv
  <1>6. CASE MqttLost
    BY <1>6, MqttLostInv
  <1>7. CASE Crash
    BY <1>7, FaultMore, DiesInv DEF Crash
  <1>8. ASSUME NEW h \in south, SouthLost(h)
        PROVE  Inv'
    BY <1>8, SouthLostInv
  <1>9. CASE UNCHANGED vars
    <2>1. UNCHANGED <<agent, toDriver, toAgent, mqtt, dstatus, objects, reconnecting,
                      calls, field, faults>>
      BY <1>9 DEF vars, driver
    <2>2. /\ OneHandlerEach' /\ StatusHeard' /\ MessagesCurrent' /\ AddrsHeard'
          /\ (Settling' <=> Settling)
      BY <2>1, TalkKept DEF Inv, TypeInv
    <2>3. /\ Watches' /\ (Connects' <=> Connects)
          /\ Asked(handler)' = Asked(handler) /\ Pending' = Pending
      BY <2>1, DriverSame DEF Inv, driver
    <2>4. TypeInv'
      BY <2>1, <2>3
      DEF Inv, TypeInv, agent, objects, field, CallTyped, Connecting, Closing, Subscribing
    <2>5. HandlerConnects' /\ WatchesNoMore'
      BY <2>1, <2>2, <2>3 DEF Inv, HandlerConnects, WatchesNoMore, agent, objects, field
    <2> QED BY <2>2, <2>3, <2>4, <2>5 DEF Inv
  <1> QED BY <1>1, <1>2, <1>3, <1>4, <1>5, <1>6, <1>7, <1>8, <1>9 DEF Next

(* Each part of the invariant holds always: types, messages that come, and  *)
(* what the handler in use does about its connection and its addresses.     *)
THEOREM InvCorrect == Spec => []Inv
  <1>1. Init => Inv
    BY InitInv
  <1>2. Inv /\ [Next]_vars => Inv'
    BY NextInv
  <1> QED BY <1>1, <1>2, PTL DEF Spec

(* The variables have their types, among them that a driver makes no more   *)
(* handlers than there have been faults, and one.                           *)
THEOREM TypeCorrect == Spec => []EdgeTypeOK
  <1>1. Inv => EdgeTypeOK
    <2> SUFFICES ASSUME Inv PROVE EdgeTypeOK
      OBVIOUS
    <2>1. made \in 0 .. MaxFaults + 1
      BY MaxFaultsAssumption DEF Inv, TypeInv, OneHandlerEach
    <2>2. BagToSet(calls) \subseteq Call
      <3> SUFFICES ASSUME NEW c \in Pending PROVE c \in Call
        BY DEF Pending
      <3>1. CallTyped(c, made) /\ c.handler \in Handlers
        BY <2>1, MaxFaultsAssumption DEF Inv, TypeInv, CallTyped, Handlers
      <3> QED BY <3>1 DEF CallTyped, Call, CallTyped, Connecting, Closing, Subscribing
    <2> QED BY <2>1, <2>2 DEF Inv, TypeInv, EdgeTypeOK
  <1> QED BY <1>1, InvCorrect, PTL

(* Once all messages are delivered the Edge Agent has the status that the   *)
(* driver last set, and a driver with a good configuration the addresses of *)
(* all devices that have subscribed, wherever a negotiation was broken off. *)
THEOREM SidesAgreeCorrect == Spec => []SidesAgree
  <1>1. Inv => SidesAgree
    <2> SUFFICES ASSUME Inv, Delivered PROVE status = dstatus /\ LastAddrs
      BY DEF SidesAgree, Delivered, LastAddrs
    <2>1. status = dstatus
      BY DEF Inv, Delivered, StatusHeard, LastStatus
    <2>2. ~ReadyComes
      BY DEF Delivered, ReadyComes
    <2> QED BY <2>1, <2>2 DEF Inv, Delivered, AddrsHeard
  <1> QED BY <1>1, InvCorrect, PTL

(* A driver that is quiet is connected and has its addresses.               *)
LEMMA QuietConnected ==
    ASSUME Inv, Quiet, conf = "good"
    PROVE  /\ handler # None /\ handler \in south /\ dstatus = "UP" /\ open
           /\ addrs = subscribed /\ ~Settling /\ Asked(handler) = {}
  <1>1. mqtt = "on" /\ toDriver = <<>> /\ toAgent = <<>> /\ Pending = {} /\ ~reconnecting
    BY DEF Quiet, Delivered, Pending, EmptyBag, SetToBag, BagToSet
  <1>2. ~ReadyComes /\ ~ConfComes
    BY <1>1 DEF ReadyComes, ConfComes
  <1>3. ~Settling
    BY <1>1, <1>2 DEF Settling
  <1>4. handler # None /\ handler \in south /\ dstatus = "UP"
    BY <1>1, <1>3 DEF Inv, HandlerConnects, Connects
  <1>5. addrs = subscribed
    BY <1>1, <1>2, <1>4 DEF Inv, AddrsHeard, LastAddrs
  <1>6. open
    BY <1>1, <1>4 DEF Inv, StatusHeard, LastStatus
  <1>7. Asked(handler) = {}
    BY <1>1 DEF Asked
  <1> QED BY <1>3, <1>4, <1>5, <1>6, <1>7

(* A driver with a good configuration that waits for nothing is connected,  *)
(* whatever its old handlers answered.                                      *)
THEOREM NotStrandedCorrect == Spec => []NotStranded
  <1>1. Inv => NotStranded
    BY QuietConnected DEF NotStranded
  <1> QED BY <1>1, InvCorrect, PTL

(* And it watches the addresses of the devices that have subscribed, no     *)
(* more and no less.                                                        *)
THEOREM AllWatchedCorrect == Spec => []AllWatched
  <1>1. Inv => AllWatched
    <2> SUFFICES ASSUME Inv, Quiet, conf = "good" PROVE watching = subscribed
      BY DEF AllWatched
    <2>1. subscribed # NoAddrs
      BY DeviceAssumption DEF Inv, TypeInv, NoAddrs
    <2> QED BY <2>1, QuietConnected DEF Inv, Watches, WatchesNoMore
  <1> QED BY <1>1, InvCorrect, PTL
=============================================================================
