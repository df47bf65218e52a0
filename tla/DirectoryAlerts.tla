--------------------------- MODULE DirectoryAlerts ---------------------------
(***************************************************************************)
(* Alerts in the Directory: the alert table, and the map from the aliases  *)
(* of an address to the alerts they report, which the ingester keeps in    *)
(* memory to apply DATA messages.  A BIRTH declares all the alerts of its  *)
(* device; alerts it no longer declares are marked stale and not shown.    *)
(*                                                                         *)
(* Messages are handled one at a time (DirectoryRebirth has the queue),    *)
(* but the update that a DATA message causes is not awaited: its           *)
(* transaction commits at some later time, after other messages and in     *)
(* another order perhaps.                                                  *)
(***************************************************************************)
EXTENDS Naturals, Bags

CONSTANTS
    Device,     \* devices, each at an address of its own
    Alert,      \* alerts, by Instance_UUID
    Alias,      \* Sparkplug metric aliases
    NoAlert,    \* what an alias that does not carry an alert is bound to
    MaxUpdates  \* bound: updates that are in flight at one time

ASSUME NoAlertAssumption == NoAlert \notin Alert
ASSUME MaxUpdatesAssumption == MaxUpdates \in Nat

VARIABLES
    alive,      \* devices whose Sparkplug session is alive
    binding,    \* binding[d]: what each alias carries since d's last BIRTH
    value,      \* the alerts that are active, as last published
    alerts,     \* this.alerts: for each known address, its alias map
    alert,      \* the table, a function from the alerts that have a row
    updates,    \* transactions of update_alerts in flight
    unindexed,  \* ghost: devices whose last BIRTH was not indexed
    mixed       \* ghost: alerts whose updates have met, or that were updated
                \* through an alias that carries something else by now

devices == <<alive, binding, value>>
alertvars == <<alive, binding, value, alerts, alert, updates, unindexed,
               mixed>>

Binding == [Alias -> Alert \cup {NoAlert}]
AliasMap == UNION {[A -> Alert] : A \in SUBSET Alias}
Row == [device: Device, active: BOOLEAN, stale: BOOLEAN]
Update == [alert: Alert, active: BOOLEAN]

AlertsTypeOK ==
    /\ alive \subseteq Device
    /\ binding \in [Device -> Binding]
    /\ value \subseteq Alert
    /\ DOMAIN alerts \subseteq Device
    /\ \A d \in DOMAIN alerts : alerts[d] \in AliasMap
    /\ DOMAIN alert \subseteq Alert
    /\ \A u \in DOMAIN alert : alert[u] \in Row
    /\ IsABag(updates) /\ BagToSet(updates) \subseteq Update
    /\ unindexed \subseteq Device /\ mixed \subseteq Alert

AlertsInit ==
    /\ alive = {} /\ value = {}
    /\ binding = [d \in Device |-> [x \in Alias |-> NoAlert]]
    /\ alerts = [d \in {} |-> NoAlert]
    /\ alert = [u \in {} |-> NoAlert]
    /\ updates = EmptyBag
    /\ unindexed = {} /\ mixed = {}

Declares(b) == {b[x] : x \in Alias} \ {NoAlert}

(* The updates in flight for an alert.                                     *)
Due(u) == {upd \in BagToSet(updates) : upd.alert = u}

-----------------------------------------------------------------------------
(* The bindings a device may declare: an alert has one alias, and no other *)
(* live device declares it.                                                *)
Declarable(d, b) ==
    /\ \A x, y \in Alias : b[x] = b[y] /\ b[x] # NoAlert => x = y
    /\ \A e \in alive \ {d} : Declares(b) \cap Declares(binding[e]) = {}

(* record_alert_metrics adds to the map of the address.  Mutant: only when *)
(* it makes the map.                                                       *)
LearntFirst(d, b) ==
    IF d \in DOMAIN alerts THEN alerts[d]
    ELSE [x \in {y \in Alias : b[y] # NoAlert} |-> b[x]]

Learnt(d, b) ==
    LET old == IF d \in DOMAIN alerts THEN alerts[d] ELSE [x \in {} |-> NoAlert]
        new == {x \in Alias : b[x] # NoAlert}
    IN  [x \in DOMAIN old \cup new |-> IF x \in new THEN b[x] ELSE old[x]]

(* record_alert and record_stale_alerts.                                   *)
(* Mutants: nothing is marked stale; a row that exists is not updated.     *)
RecordedNoStale(d, b, v) ==
    [u \in DOMAIN alert \cup Declares(b) |->
        IF u \in Declares(b)
        THEN [device |-> d, active |-> u \in v,
              stale |-> u \in DOMAIN alert /\ alert[u].stale]
        ELSE alert[u]]

RecordedOnce(d, b, v) ==
    [u \in DOMAIN alert \cup Declares(b) |->
        IF u \in Declares(b) \ DOMAIN alert
        THEN [device |-> d, active |-> u \in v, stale |-> FALSE]
        ELSE [alert[u] EXCEPT !.stale =
                @ \/ (u \notin Declares(b) /\ alert[u].device = d)]]

Recorded(d, b, v) ==
    [u \in DOMAIN alert \cup Declares(b) |->
        IF u \in Declares(b)
        THEN [device |-> d, active |-> u \in v,
              stale |-> u \in DOMAIN alert /\ alert[u].stale]
        ELSE [alert[u] EXCEPT !.stale = @ \/ alert[u].device = d]]

(* A device publishes a BIRTH with all its alerts.                         *)
Declare(d, b, v) ==
    /\ Declarable(d, b)
    /\ v \subseteq Declares(b)
    /\ alive' = alive \cup {d}
    /\ binding' = [binding EXCEPT ![d] = b]
    /\ value' = (value \ Declares(b)) \cup v
    /\ UNCHANGED updates

RecordMetrics(d, b) ==
    alerts' = [e \in DOMAIN alerts \cup {d} |->
                  IF e = d THEN Learnt(d, b) ELSE alerts[e]]

(* on_birth.  What the BIRTH says of an alert may be overwritten by an     *)
(* update still in flight.                                                 *)
Birth(d, b, v) ==
    /\ Declare(d, b, v)
    /\ RecordMetrics(d, b)
    /\ alert' = Recorded(d, b, v)
    /\ unindexed' = unindexed \ {d}
    /\ mixed' = (mixed \ Declares(b)) \cup {u \in Declares(b) : Due(u) # {}}

(* A malformed Link, or an error of the database: the queue logs it.       *)
BirthUnindexed(d, b, v) ==
    /\ Declare(d, b, v)
    /\ RecordMetrics(d, b)
    /\ unindexed' = unindexed \cup {d}
    /\ UNCHANGED <<alert, mixed>>

(* A malformed Alert: find_alerts throws before the map is touched.        *)
BirthMalformed(d, b, v) ==
    /\ Declare(d, b, v)
    /\ unindexed' = unindexed \cup {d}
    /\ UNCHANGED <<alerts, alert, mixed>>

(* on_death: the map goes, the rows stay.                                  *)
Death(d) ==
    /\ d \in alive
    /\ alive' = alive \ {d}
    /\ alerts' = [e \in DOMAIN alerts \ {d} |-> alerts[e]]
    /\ UNCHANGED <<binding, value, alert, updates, unindexed, mixed>>

(* The alert that the map of d has for an alias, if any.                   *)
Known(d, x) == {alerts[e][x] : e \in {f \in DOMAIN alerts \cap {d} :
                                         x \in DOMAIN alerts[f]}}

(* A device publishes a DATA message, of an alert or of another metric;    *)
(* handle_alert_updates starts a transaction if the alias is known, and it *)
(* may be known for an alert that the alias no longer carries.             *)
Data(d, x, active) ==
    /\ d \in alive
    /\ value' = IF active THEN value \cup ({binding[d][x]} \ {NoAlert})
                          ELSE value \ {binding[d][x]}
    /\ updates' = updates (+) SetToBag([alert: Known(d, x), active: {active}])
    /\ BagCardinality(updates') <= MaxUpdates
    /\ mixed' = IF binding[d][x] \in Known(d, x) /\ Due(binding[d][x]) = {}
                THEN mixed \ Known(d, x) ELSE mixed \cup Known(d, x)
    /\ UNCHANGED <<alive, binding, alerts, alert, unindexed>>

(* update_alert_active: stale or not.                                      *)
ApplyUpdate(upd) ==
    /\ alert' = [u \in DOMAIN alert |->
                    IF u = upd.alert THEN [alert[u] EXCEPT !.active = upd.active]
                                    ELSE alert[u]]
    /\ updates' = updates (-) SetToBag({upd})
    /\ UNCHANGED <<devices, alerts, unindexed, mixed>>

(* The ingester dies and is restarted: only the table is left.             *)
IngesterDies ==
    /\ alerts' = [d \in {} |-> NoAlert]
    /\ updates' = EmptyBag
    /\ UNCHANGED <<devices, alert, unindexed, mixed>>

AlertsNext ==
    \/ \E d \in Device : \/ \E b \in Binding, v \in SUBSET Alert :
                             \/ Birth(d, b, v) \/ BirthUnindexed(d, b, v)
                             \/ BirthMalformed(d, b, v)
                         \/ Death(d)
                         \/ \E x \in Alias, active \in BOOLEAN : Data(d, x, active)
    \/ \E upd \in BagToSet(updates) : ApplyUpdate(upd)
    \/ IngesterDies

AlertsSpec == AlertsInit /\ [][AlertsNext]_alertvars

-----------------------------------------------------------------------------
(* GET /alert.                                                             *)
Visible == {u \in DOMAIN alert : ~alert[u].stale}

(* No alert is shown for a device whose last BIRTH, if that was indexed,   *)
(* did not declare it, though alerts come, go, and move between devices    *)
(* that are born, fail to be indexed, and die.                             *)
VisibleIsDeclared ==
    \A u \in Visible : LET d == alert[u].device
                       IN  d \notin unindexed => u \in Declares(binding[d])

(* A device whose DATA is handled by its map and whose last BIRTH is in    *)
(* the table.                                                              *)
Tracked(d) == d \in (alive \cap DOMAIN alerts) \ unindexed

ShownTrue(u) == alert[u].active <=> u \in value

(* What is shown of a tracked device's alert is what it last published, or *)
(* will be when the update in flight has been applied, whatever was lost   *)
(* in a restart, not indexed, or moved between devices in between; unless  *)
(* the update has met another or a BIRTH on its way, or the alert was last *)
(* updated by mistake (mixed), until a later message puts it right.        *)
AlertTracksDevice ==
    \A u \in Visible \ mixed : Tracked(alert[u].device) =>
        /\ Due(u) = {} => ShownTrue(u)
        /\ \A upd \in Due(u) : upd.active <=> u \in value

(* "Is this alert currently active?" (api/openapi.yaml): the same without  *)
(* any exception, once all updates have been applied.  Broken when they    *)
(* commit in another order.                                                *)
AlertIsCurrent ==
    updates = EmptyBag => \A u \in Visible : Tracked(alert[u].device) => ShownTrue(u)

(* "List all currently active alerts" (api/openapi.yaml): an alert of a    *)
(* tracked device that it declares, and that is active, is listed.  Broken *)
(* when an alert is declared again, since the mark stays.                  *)
ActiveIsListed ==
    updates = EmptyBag =>
        \A d \in Device : Tracked(d) =>
            \A u \in Declares(binding[d]) \cap value : u \in Visible
=============================================================================
