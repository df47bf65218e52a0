--------------------------- MODULE DirectoryNotify ---------------------------
(***************************************************************************)
(* Change-notify of the Directory's session table (MQTTCli.on_notify and   *)
(* on_session_notify).  A trigger sends one NOTIFY per row a transaction   *)
(* inserts or updates; each NOTIFY starts a handler that reads the table   *)
(* in up to three queries, publishes Last_Changed metrics, and may prune.  *)
(* Handlers are not serialised: births, deaths and other handlers run      *)
(* between any two queries of one.                                         *)
(***************************************************************************)
EXTENDS DirectorySessions, Bags

CONSTANT MaxHandlers    \* bound: handlers that run at one time

ASSUME MaxHandlersAssumption == MaxHandlers \in Nat

VARIABLES
    closing,    \* the start-up call of close_all_sessions has yet to run
    handlers,   \* running calls of on_session_notify, a bag of their states
    owed        \* ghost: changes that are committed and not yet announced

table == <<session, seq, version>>

notifyVars == <<session, seq, version, closing, handlers, owed>>

SymDiff(S, T) == (S \ T) \cup (T \ S)

(* Topics of the Last_Changed metrics.  A schema change is attributed to   *)
(* the session whose BIRTH made it.                                        *)
DeviceTopic(d)    == [kind |-> "Device_UUID", what |-> d, by |-> Null]
AddressTopic(a)   == [kind |-> "Device_Address", what |-> a, by |-> Null]
SchemaTopic(s, i) == [kind |-> "Schema_Usage", what |-> s, by |-> i]

Topics == {DeviceTopic(d) : d \in Device} \cup {AddressTopic(a) : a \in Address}
            \cup {SchemaTopic(s, i) : s \in Schema, i \in Ids}

(* The states of a handler, at each await.  topics is what it will publish *)
(* for the device and the address; current is its own session if it read   *)
(* it as the current one of the device, which makes it prune, or Null.     *)
AtInfo(i) == [pc |-> "info", id |-> i]

Handler ==
         [pc: {"info"}, id: Ids]
    \cup [pc: {"schemas"}, id: Ids, prev: Ids \cup {Null},
          topics: SUBSET Topics, current: Ids \cup {Null}]
    \cup [pc: {"oldSchemas"}, schemas: SUBSET Schema, prev: Ids,
          topics: SUBSET Topics, current: Ids \cup {Null}]
    \cup [pc: {"prune"}, device: Device, diff: SUBSET Schema, current: Ids]

NotifyTypeOK ==
    /\ TypeOK
    /\ closing \in BOOLEAN
    /\ IsABag(handlers) /\ \A h \in BagToSet(handlers) : h \in Handler
    /\ owed \subseteq Topics

-----------------------------------------------------------------------------
(* What a client that asks about a device or an address is told depends on *)
(* the current row.                                                        *)
DeviceView(d)  == {<<i, session[i].online>> : i \in OfDevice(d)}
AddressView(a) == {<<i, session[i].online, session[i].device>> : i \in OfAddress(a)}

(* The trigger mqtt_notify on session: one notification per row written,   *)
(* delivered when the transaction commits.                                 *)
Notify(rows) ==
    /\ handlers' = handlers (+) SetToBag({AtInfo(i) : i \in rows})
    /\ BagCardinality(handlers') <= MaxHandlers

Owe(schemaChanges) ==
    owed' = owed
        \cup {DeviceTopic(d) : d \in {e \in Device : DeviceView(e)' # DeviceView(e)}}
        \cup {AddressTopic(a) : a \in {e \in Address : AddressView(e)' # AddressView(e)}}
        \cup schemaChanges

(* The ingester starts on an empty table, or on one in which the previous  *)
(* run left a session open.                                                *)
NotifyInit ==
    /\ version = 14
    /\ \/ session = [i \in {} |-> Null] /\ seq = 1
       \/ \E d \in Device, a \in Address, schemas \in SUBSET Schema :
            session = [i \in {1} |-> NewSession(d, a, schemas)] /\ seq = 2
    /\ closing = TRUE
    /\ handlers = EmptyBag
    /\ owed = {}

BirthN(d, a, schemas) ==
    /\ Birth(d, a, schemas)
    /\ Notify({seq} \cup OfDevice(d) \cup OfAddress(a))
    /\ LET before == UNION {session[i].schemas : i \in OfDevice(d)}
       IN  Owe({SchemaTopic(s, seq) : s \in SymDiff(before, schemas)})
    /\ UNCHANGED closing

DeathN(a) ==
    /\ OnlineAt(Scope[a]) # {}
    /\ Death(a)
    /\ Notify(OnlineAt(Scope[a]))
    /\ Owe({})
    /\ UNCHANGED closing

(* MQTTCli.run starts this and does not await it.                          *)
CloseAllN ==
    /\ closing
    /\ CloseAll
    /\ Notify(OnlineAt(Address))
    /\ Owe({})
    /\ closing' = FALSE

-----------------------------------------------------------------------------
(* on_session_notify.                                                      *)
Resume(h, next) ==
    handlers' = (handlers (-) SetToBag({h})) (+) SetToBag(next)

(* session_schemas: nothing, if the row has been pruned meanwhile.         *)
SchemasOf(i) == IF i \in Rows THEN session[i].schemas ELSE {}

(* A session that has been superseded is not announced: its successor is.  *)
(* Mutant: the address is only announced with the device.                  *)
CurrentTopicsByDevice(i) ==
    IF DeviceCurrent(i)
    THEN {DeviceTopic(session[i].device), AddressTopic(session[i].address)}
    ELSE {}

CurrentTopics(i) ==
         {DeviceTopic(session[j].device) : j \in {k \in {i} : DeviceCurrent(k)}}
    \cup {AddressTopic(session[j].address) : j \in {k \in {i} : AddressCurrent(k)}}

(* session_notification_info: the row, and the row it replaced.            *)
ReadInfo(h) ==
    /\ h.pc = "info"
    /\ \/ /\ h.id \notin Rows
          /\ Resume(h, {})
       \/ /\ h.id \in Rows
          /\ \E prev \in {i \in Rows : session[i].next_for_device = h.id} \cup {Null} :
              /\ prev = Null => ~\E i \in Rows : session[i].next_for_device = h.id
              /\ Resume(h, {[pc |-> "schemas", id |-> h.id, prev |-> prev,
                    topics |-> CurrentTopics(h.id),
                    current |-> IF DeviceCurrent(h.id) THEN h.id ELSE Null]})
    /\ UNCHANGED <<table, closing, owed>>

(* publish_changed, then the prune if the session was current when read.   *)
Publish(h, diff) ==
    /\ owed' = {o \in owed : /\ o \notin h.topics
                             /\ ~(o.kind = "Schema_Usage" /\ o.what \in diff)}
    /\ Resume(h, {[pc |-> "prune", device |-> t.what, diff |-> diff,
                   current |-> h.current] :
                    t \in {u \in h.topics : u.kind = "Device_UUID"}})

ReadSchemas(h) ==
    /\ h.pc = "schemas"
    /\ \/ /\ h.prev = Null
          /\ Publish(h, SchemasOf(h.id))
       \/ /\ h.prev # Null
          /\ Resume(h, {[pc |-> "oldSchemas", schemas |-> SchemasOf(h.id),
                         prev |-> h.prev, topics |-> h.topics,
                         current |-> h.current]})
          /\ UNCHANGED owed
    /\ UNCHANGED <<table, closing>>

ReadOldSchemas(h) ==
    /\ h.pc = "oldSchemas"
    /\ Publish(h, SymDiff(SchemasOf(h.prev), h.schemas))
    /\ UNCHANGED <<table, closing>>

PruneSessions(h) ==
    /\ h.pc = "prune"
    /\ Prune(h.device)
    /\ Resume(h, {})
    /\ UNCHANGED <<closing, owed>>

HandlerStep ==
    \E h \in BagToSet(handlers) :
        ReadInfo(h) \/ ReadSchemas(h) \/ ReadOldSchemas(h) \/ PruneSessions(h)

NotifyNext ==
    \/ \E d \in Device, a \in Address, schemas \in SUBSET Schema :
            BirthN(d, a, schemas)
    \/ \E a \in Address : DeathN(a)
    \/ CloseAllN
    \/ HandlerStep

NotifySpec == NotifyInit /\ [][NotifyNext]_notifyVars

-----------------------------------------------------------------------------
Idle == handlers = EmptyBag

(* When every notification has been handled, no client is left believing   *)
(* an old state of a device or of an address, nor has the latest change of *)
(* a device's schemas been missed, however the handlers, births, deaths    *)
(* and prunes interleaved.                                                 *)
LatestAnnounced ==
    Idle => \A o \in owed : /\ o.kind = "Schema_Usage"
                            /\ ~IsCurrentIn(o.by, DeviceCurrent)

(* What a handler published for a session that is still current is exactly *)
(* the difference from the session before it: the prune that other         *)
(* handlers run has not taken that session away ("without it every birth   *)
(* would republish every schema").                                         *)
PublishedExact ==
    \A h \in BagToSet(handlers) :
        h.pc = "prune" /\ IsCurrentIn(h.current, DeviceCurrent) =>
            LET before == {i \in Rows : session[i].next_for_device = h.current}
            IN  h.diff = SymDiff(UNION {session[i].schemas : i \in before},
                                 session[h.current].schemas)

(* The predecessor "is load bearing - on_session_notify reads it to work   *)
(* out which schemas have been added and removed" (sql/v14.sql): every     *)
(* change of schema usage is announced.                                    *)
SchemaUsageAnnounced == Idle => \A o \in owed : o.kind # "Schema_Usage"
=============================================================================
