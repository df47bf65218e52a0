# AMRC Connectivity Stack: models, checks and proofs

TLA+ models of the parts of the AMRC Connectivity Stack (ACS) whose correctness
depends on the order in which things happen, the TLC runs that check them on
small instances, and proofs of the main results for every size. Paths are
relative to the repository. `PROJECT.json` lists components, runs, findings,
hazards and theorems, and maps every definition to the lines it stands for.

## 1. The system

ACS is a set of services around one MQTT broker, a Kerberos realm and a
Kubernetes cluster. Devices publish over the Sparkplug protocol; services index
what they see, hand out configuration and permissions, and deploy software.

| Component | State | Operations | Interacts with |
|---|---|---|---|
| **Directory** `acs-directory` | Postgres: session, alert, link, service tables; in memory: addresses online, rebirth markers, alias maps | index BIRTH, DEATH, DATA; close all sessions on start; prune; migrate; publish Last_Changed metrics | MQTT broker, Command Escalation, ConfigDB, its clients over HTTP |
| **ConfigDB** `acs-configdb` | object, class, membership, config tables; update stream | create, delete and class objects; put, patch, delete configs under etags; search; watch | Auth (permissions), every service |
| **notify-v2** `lib/js-service-api`, `lib/js-rx-client` | per-socket sessions and subscriptions; client-side retry | WATCH, SEARCH, CLOSE; reconnect and resubscribe | ConfigDB, Auth, Directory clients |
| **Auth** `acs-auth` | grants, identities; sequences derived from ConfigDB | grant, revoke; expand groups; answer ACLs | ConfigDB, every service |
| **Edge Agent** `acs-edge` | Sparkplug node and devices, driver connections, internal MQTT broker | connect, subscribe, poll; NBIRTH, DBIRTH, DDATA, DDEATH; reload | drivers, MQTT broker, ConfigDB |
| **Driver library** `lib/js-edge-driver` | status, handler, addresses, reconnect timer, poll queue | READY, conf, addr, poll, cmd; connect and reconnect | Edge Agent, southbound devices |
| **Command Escalation** `acs-cmdesc` | none | check a permission, publish one CMD | Auth, MQTT broker |
| **Cluster manager, Edge sync, krb-keys, Git, Monitor, Data access** | Kubernetes objects, git repositories, derived streams | reconcile desired and actual state | ConfigDB, Kubernetes, Git |
| **Front ends, historians, ingesters, libraries, charts** | mostly none | presentation, I/O, deployment | all |

What makes each correct, and what is hard about it:

- *Directory, session table.* One current session per device and per address;
  both linked lists stay intact while rows are deleted from them; deletion must
  not show. Hard: two interleaved chains, long histories.
- *Directory, notification.* Nobody is left with an old state although handlers
  of database notifications run concurrently and prune what others read.
- *Directory, ingester.* Memory and database agree; an address whose BIRTH was
  missed is recovered by a rebirth request. Hard: restarts, lost messages, refused
  requests, a wait inside the only worker.
- *Directory, alerts.* What is shown is what devices declared and last reported.
  Hard: updates nobody awaits, moves of alerts between devices, failed births.
- *Edge Agent and driver.* Both sides agree on status, configuration and
  addresses; a connection that can be established is. Hard: three things that
  fail independently, answers of handlers that have been replaced.
- *ConfigDB.* Conditional writes, class and rank rules, updates only after
  commit. Hard: read-committed transactions, watchers that fetch and follow.
- *Auth.* An answered ACL reflects a consistent set of grants and groups.
- *Reconcilers.* Convergence over failures; a deleted thing stays deleted.

Each part that is left out, and why, is listed under `components` in
`PROJECT.json`.

## 2. Modules

| Module | Models | Notes |
|---|---|---|
| `DirectorySessions` | table `session` under `Model.birth`, `record_death`, `close_all_sessions`, `prune_device_sessions`, migration v14 | core module |
| `DirectoryNotify` | `on_notify`, `on_session_notify` at every await; the trigger | extends `DirectorySessions` |
| `DirectorySessionsProofs` | proofs about the session table and about change-notify | TLAPS |
| `DirectoryRebirth` | `MQTTCli`: queue, worker, `this.online`, `do_we_rebirth`, start-up, crash | session table reduced to the open addresses |
| `DirectoryAlerts` | `find_alerts`, `record_alert*`, `record_stale_alerts`, `update_alerts`, GET `/alert` | |
| `DirectoryIngesterProofs` | proofs about the two | TLAPS |
| `EdgeDriver` | `DriverConnection`, the broker in the Edge Agent, `Driver`, a Promise-style handler | |
| `EdgeDriverProofs` | proofs about it | TLAPS |
| `EdgeSession` | `SparkplugNode`, `Device`, `BasicSparkplugNode`, the broker, a subscriber | |
| `EdgeSessionProofs` | proofs about it | TLAPS |
| `ConfigObjects` | objects, class graph, ranks, `update_registration`, `dump_load` of the ConfigDB | |
| `ConfigObjectsProofs` | proofs about it | TLAPS |
| `ConfigEntries` | one config entry under PUT, PATCH, DELETE | |
| `WatchedResource` | what a watcher is promised | abstract |
| `ConfigWatch` | notify-v2: server subscription, WebSocket, client | extends `ConfigEntries`, implements `WatchedResource` |
| `ConfigWatchProofs` | proofs that it does, and of the content at rest | TLAPS |
| `ClusterManager` | `Update`, `Delete`, retries, the status Map and its save queue | |
| `ClusterManagerProofs` | proofs about it | TLAPS |
| `AuthGrants` | the grants table, `responses`, `grants`, `targ_grp`, `_acl_for` | |
| `AuthGrantsProofs` | proofs about it | TLAPS |
| `MC...` | instances for TLC | model values and symmetry |

**DirectorySessions.** `session` is a function from row ids to rows; `seq` is
the serial column's sequence, which a rolled-back birth advances too
(`BirthAborted`). Each action is one statement or transaction; they are atomic
because every statement reads and writes rows it locks or creates, and the
ingester is the only writer. (`bin/directory-mqtt.js` passes an isolation level
that `model.js` does not use; transactions run at READ COMMITTED.) `Scope` says
which addresses a DEATH closes: a Node closes its Devices. `version` is the
schema version: an installation may run at 13, never pruned, and be upgraded at
any point; `SessionKeep` and `NextKept` are the queries of the upgrade.

**DirectoryNotify.** `handlers` is a bag of running calls of
`on_session_notify`, each with what it has read. A call reads the session and
its predecessor, then the schemas, then the predecessor's schemas, publishes,
and prunes if its session was current. Any births, deaths and other handlers'
steps run in between. `owed` is a ghost: the metrics whose subject has changed
since last published.

**DirectoryRebirth.** The queue `msg_q` has one worker, so `worker` is what that
worker awaits. `up` and `asked` are the Sparkplug clients: external. `faults`,
chosen at the start from `FaultSets`, is what may go wrong: the handler of a
BIRTH or of a DEATH throws, `close_all_sessions` is late, or the MQTT connection
is lost. `Crash` always may. `OpenIsKnown` holds whatever goes wrong, but for
sessions whose DEATH failed: `on_death` forgets the address before its
transaction, and an error leaves the session open. The ghost `unclosed` has the
addresses where that was so. `IndexTrue` and `Recovers` are about behaviours
where nothing goes wrong but restarts, which is what the code can promise.

**DirectoryAlerts.** A device's `binding` says which alert each alias carries in
its last BIRTH, `value` is what it last reported, `alerts` the ingester's alias
maps, `alert` the table. `updates` is the bag of transactions that DATA messages
have started and nobody awaits; they commit at any later time and in any order.
A BIRTH can fail before the alias map is touched (`BirthMalformed`:
`find_alerts` throws) or after (`BirthUnindexed`: the transaction does); then an
alias may be known for an alert it no longer carries. Ghosts: `unindexed`,
devices whose last BIRTH failed, and `mixed`, alerts of which two updates, or an
update and a BIRTH, were in flight together, or that were updated by a wrong
alias; a later message that meets no other puts an alert right again.

**EdgeDriver.** `toDriver` and `toAgent` are the messages on their way, `mqtt`
the driver's connection (a driver between CONNECT and SUBACK may or may not
receive), `calls` the bag of handler methods being awaited, tagged with the
handler they belong to. The library acts on the handler in use when an answer
arrives, not on the one that gave it, and so does the model. `active` messages
are left out: ONLINE is published in the same turn in which the broker starts
to listen, so that no driver can be connected, and drivers ignore OFFLINE.

**EdgeSession.** A handler with the microtasks it queues is one step, since the
Edge Agent is one event loop and nothing else runs before they are done. The
node keeps the sequence number, `isAlive` of each device and its buffer; the
broker keeps the will and what is on its way to the subscriber, which follows
the session as Sparkplug has it (`Told`). `NodeRebirth` is a command from
anybody. Numbers wrap at `Modulus`, in the code 256. `orphan` and `gap` are
ghosts: data of a device that was not born, and a number that was skipped.

**ConfigObjects.** `object` holds the row of each object (class, rank, owner),
`membership` and `subclass` the direct links, `registration` the Registration
configs. The closures `all_membership` and `all_subclass` are least closed sets
(`Closed`), which is what the recursive views of the database compute. A request
is one transaction at READ COMMITTED, split in two: it reads and decides
(`Open`), then it writes and commits. Any number of others commit in between
(`MaxLoad` bounds objects and requests together); what they changed is not seen
by the decision. A refused PUT of a Registration commits the owner it has
written (`WriteRefused`). `LoadDump` loads a dump of one object, in one step.
Ghosts say what has happened that the code does not prevent: `behind`, requests
since whose reading another has committed; `overtaken`, one of those has
written; `overwritten`, one has put a Registration over a change of class or
rank; `circled`, a circle of subclasses or a class that is a member of itself.
An object is not created anew while a request knows the old one (`Fresh`): it
would be another row.

**ConfigEntries, ConfigWatch, WatchedResource.** An entry is read, then written
by row id, then announced, and other handlers run between. The watch is of one
of three kinds that the service answers differently: the list of entries (fetched
again on each update), one entry (one fetch, then updates) and a search (fetched
until one has answered, then updates). `history` is what the entry has been, and
every message carries `at`, which of those it tells. The refinement is

    Watched == INSTANCE WatchedResource WITH
        states <- what a watcher sees of history, shown <- view,
        at <- viewAt, ordered <- (kind = "list")

so that a watch of an entry or a search shows only what has been, and one of a
list also never goes back. `missed` and `disordered` are ghosts: an update that
fell between the fetch and the updates, and an older state sent after a newer.

**ClusterManager.** An action (`Update` or `Delete`) is an async function that
`switchAll` may drop but cannot stop: it runs on, with its own or with the
shared status object, until it is done. `queue` saves the status to the ConfigDB
and is stuck for ever once a save has been rejected. `crossed` is a ghost: an
action began while another ran, or a Delete was still at it when the cluster had
been added again; `lost`: the process ended with something unsaved. A status or
a patch is a function from the entries it has, and `Nothing` is its absence, in
the Map and as the patch that deletes it. A Delete leaves the grant of an account
as it is (`Effect`): Auth answers the search for it with an empty list.

**AuthGrants.** A request is a step that finds the grant, one that writes and
commits, and the response. `ace` is the table, `view` the rows that ACLs are
made from; `fetch` is the set of queries under way, of which `switchMap` uses
only the last. `told` and `targ_grp` stand for the watches of groups and the map
`combineLatestAll` keeps; a watch reads what is current when it tells. The
groups that exist are fixed; what is in them changes. What a client was answered
is kept as the ghosts `version` and `answered` (which version of the table);
status 500 stands for a rejected promise.

Definitions marked "Mutant" are plausible mistakes; nothing uses them, and each
is known to break a property when it takes the place of the definition after it.

## 3. Runs

Passing:

| Run | Instance | Shows |
|---|---|---|
| `directory_sessions` | 2 devices, a Node and a Device address, no schemas, 6 ids | both chains, uniqueness and deletion over births, moves, deaths, restarts, prunes and the upgrade |
| `directory_notify` | 2 devices, 2 addresses, 1 schema, 3 ids, 3 handlers | the latest state is announced, whatever the interleaving |
| `rebirth` | a Node and a Device, queue of 2; no faults, failing handlers and a slow start, or lost connections; fairness | what is online is known to this run, or its DEATH failed; without faults the status is true and what was missed is recovered |
| `alerts` | 2 devices, 2 alerts, 1 alias, 3 updates in flight | nothing dropped is shown; shown as last reported, unless updates met, as alerts move and BIRTHs fail |
| `edge_driver` | 1 device, 1 fault of any kind, all configurations, fairness | agreement, no stranded driver, establishment |
| `edge_session` | 2 devices, one buffers, one can be written; numbers modulo 3; 1 fault; fairness | born before data, no number missed, the right picture at rest and in the end |
| `config_objects` | 2 ranks, a built-in class, 2 more objects, 2 owners, 2 requests at a time | ranks, rank roots, classes and Registration configs are kept until one that was overtaken has written or a circle is made |
| `config_watch` | 3 kinds of watch, 2 requests, 2 changes, 1 fault, fairness | the watch implements `WatchedResource`; the right content at rest; a list is right in the end |
| `cluster` | 1 cluster, 1 edit, 1 fault, fairness | ready is set up, names and memberships in use are recorded, what is saved mirrors the status, it settles |
| `auth` | 2 requests, 2 grants at a time, a group of each kind, 1 edit, 1 fault, fairness | answered changes are in the ACLs, grants never go back, ACLs settle |

Violations, each a disagreement between the code and what it says of itself
(quoted under `findings`):

| Run | The code does |
|---|---|
| `config_primary` | removing a subclass link takes objects out of their primary class, and no dump loads any more |
| `cluster_overlap` | a change of another cluster starts a second Update beside the first; the cluster is ready with an account that has no identity |

*Bounds.* Six ids let a device leave an address, another take it, both return,
and a prune run with rows of either on both sides. Three ids are the least that
let a session be predecessor and be pruned while a third is announced; the
handlers of one birth can be three. A queue of two lets a message wait behind
the one being handled. In `alerts` one alias is enough for a map that knows the
wrong alert, and three updates for two of one alert and one that went astray;
updates overlap only as long as one alert is involved (`OverlapSmall`), and at
most one device's last BIRTH was not indexed (`FewFail`). In `EdgeDriver` one
fault is enough for two generations of handlers with calls of both pending,
since refused connections and failed subscriptions are not counted as faults. In
`EdgeSession` three numbers wrap within one session, and one buffered message is
overtaken. In `ConfigObjects` five objects let a class chain pass through two
links, each of which can be removed; `MaxLoad` lets two requests overlap where
there are four, so that one changes what the other has read of the same object.
The second owner is there for PUTs of one object, one at a time (`OwnedSmall`):
only the refused ones depend on it. The run stops at a circle and when a request
that was overtaken has written (`UntilOvertaken`), after which the invariants
about ranks say nothing; that `RegistrationCurrent` and `KeepsClasses` go on
holding is proved. Two changes and two requests let an update pass another and a
fetch read the state between. In `ClusterManager` six account numbers suffice
for every retry; one stray action suffices to overlap; edits cease once actions
have crossed, and an administrator adds the cluster again only when its stored
status has gone, as `docs/edge-bootstrap.md` asks. Two rows, numbered anew when
used again, let a request change one grant while another is read.

*Symmetry* of devices is used in `directory_sessions`, `directory_notify` and
`alerts`, of alerts in `alerts`, and of the two plain objects in `config_objects`
and `config_primary`; none checks liveness.

*Deadlock* is not checked where the system comes to rest: bounds used up
(`directory_notify`, `cluster`, `cluster_overlap`, `auth`), or a driver
connection established and left alone (`edge_driver`).

*Fairness.* In all: event loops and timers run and promises settle. Faults are
never forced, and are finite by a bound.

- `rebirth`: a client that is up publishes DATA again and again and obeys a
  rebirth command it has received; Command Escalation does not refuse for ever.
  The queue bound is why DATA and BIRTH need strong fairness: publishing is
  enabled again and again, not continuously. `Recovers` asks for an address that
  stays up in the end.
- `edge_driver`: messages are delivered, methods of handlers settle, and the
  southbound device does not refuse for ever (strong fairness, since each
  refusal leads to another attempt).
- `edge_session`: MQTT.js reconnects, the broker delivers, a stop goes through.
- `config_watch`: the database answers and the client reconnects
  (`retryBackoff`); nothing is assumed of requests.
- `cluster`: calls of other services return, retries are made, watches tell.
- `auth`: the database answers and watches tell what has changed.

Every component's module but `AuthGrants` has a type invariant. Most are left out
of the runs, whose invariants say more; they hold on the same instances.

Stated in the modules but not run: properties that the code does not have
(`HistoryBounded`, `SchemaUsageAnnounced`, `ChanceGiven`, `RequestsSpaced`,
`AlertIsCurrent`, `ActiveIsListed`, `RegistrationAgrees`, `RanksAlwaysAgree`,
`AlwaysRooted`, `QuietIsCurrent`, `AliasesUnique`, `SavedInTheEnd`,
`PickedUpAgain`, `GrantsRemoved`), each with the words of the code or its documents
that ask for it; 5 says why not.

## 4. Proofs

No theorem has a hypothesis beyond the named assumptions on the constants. Where
the code allows what breaks a property, the property says so of the history (a
ghost such as `overtaken` or `mixed`), and the theorem is about all behaviours.

**`DirectorySessionsProofs`**: for any sets of devices, addresses and schemas, any
`Scope` and any bound on ids, from `ScopeAssumption` and `MaxIdAssumption`.

| Theorem | States |
|---|---|
| `TypeCorrect` | `Spec => []TypeOK` |
| `DeviceChainCorrect` | `Spec => []DeviceChain` |
| `AddressChainCorrect` | `Spec => []AddressChain` |
| `OneCurrentCorrect` | `Spec => []OneCurrent` |
| `OnlineCorrect` | `Spec => []OnlineIsCurrent` |
| `PruneInvisibleCorrect` | `Spec => PruneInvisible` |
| `WantedKeptCorrect` | `Spec => WantedKept` |

The inductive invariant is `TypeOK /\ DeviceChain /\ AddressChain`, with
`OnlineIsCurrent` on top. The chains are stated as "points to the *next*
surviving session", which is stronger than "no dangling pointer" and is needed:
only that form says, when a row without references is deleted, that no pointer
skips over it. `Prune` keeps both chains because a row nothing refers to is the
first of its device and of its address, so no remaining row has it as a
successor. `Migrate` keeps them because a current row is always among the last
two; every relinked pointer is the least kept id above it, which exists since
ids are natural numbers. `OneCurrent` has two halves: at most one current row
follows from the chains alone; at least one needs the greatest id of a finite
set, and is carried as `HasCurrent` through each action instead.

The same module proves of change-notify, also for any number of handlers at a
time:

| Theorem | States |
|---|---|
| `NotifyInvCorrect` | `NotifySpec => []NotifyInv` |
| `LatestAnnouncedCorrect` | `NotifySpec => []LatestAnnounced` |
| `PublishedExactCorrect` | `NotifySpec => []PublishedExact` |

A session is live while it is the current one of a device. While it is, the
session before it stays the same and is not pruned, since it is referred to; so
what a handler has read of a live session and of its predecessor is still so,
however long it waits. That is `HandlerInv`, one case for each place a handler
can wait at. Of a session that is no longer live nothing is said, and nothing
has to be: the BIRTH that replaced it has a handler of its own. `OwedInv` says
that what is owed is in the hands of a handler. That a live session has at most
one predecessor is `DeviceChain`.

**`DirectoryIngesterProofs`**, on `DirectoryRebirth`: for any addresses, any queue
and any sets of faults, from `NodeAssumption`.

| Theorem | States |
|---|---|
| `TypeCorrect` | `Spec => []RebirthTypeOK` |
| `OpenIsKnownCorrect` | `Spec => []OpenIsKnown` |
| `IndexTrueCorrect` | `Spec => []IndexTrue` |

`IndexTrue` speaks of a queue that has been emptied; what makes it inductive is a
statement about queues that have not: the last word on an address that is still
in the queue fits what the address is now (`SettlesDown`, `SettlesUp`), and where
there is none the index already does. A Node's DEATH is a word on its Devices
too, so every message appended must be followed for every address
(`EachFollowed`).

The same module on `DirectoryAlerts`: for any devices, alerts and aliases.

| Theorem | States |
|---|---|
| `AlertsInvCorrect` | `AlertsSpec => []AlertsInv` |
| `VisibleIsDeclaredCorrect` | `AlertsSpec => []VisibleIsDeclared` |
| `AlertTracksDeviceCorrect` | `AlertsSpec => []AlertTracksDevice` |

The last is about any number of updates in flight, committed in any order. Its
invariant (`TrackInv`): no two devices that are up declare the same alert, the
map of a tracked device (up, known, and its last BIRTH indexed) knows all the
alerts of that BIRTH, and `AlertTracksDevice` itself. An alert outside `mixed`
has at most one value in flight, which is what its device published last. An alias
that is known for an alert it no longer carries can only reach an alert that is
`mixed` from then on. Two devices declaring one alert at a time are excluded by
`Declarable`: an Instance_UUID belongs to one device.

**`EdgeDriverProofs`**: for any devices, any number of faults and any bound on
status messages, from `DeviceAssumption`, `ConfAssumption` and
`MaxFaultsAssumption`.

| Theorem | States |
|---|---|
| `TypeCorrect` | `Spec => []EdgeTypeOK` |
| `InvCorrect` | `Spec => []Inv` |
| `SidesAgreeCorrect` | `Spec => []SidesAgree` |
| `NotStrandedCorrect` | `Spec => []NotStranded` |
| `AllWatchedCorrect` | `Spec => []AllWatched` |

The three properties speak of a protocol at rest; the invariant says what will
bring it there. On a connection, either READY or the configuration that answers
it is still on its way (`Settling`), and then nothing is said of the driver, or
it has been told of the present: the last status sent is the driver's, the last
addresses sent are those of all that have subscribed (`AddrsHeard`). From then on
a handler that is not connected has a timer, a call of its own or the closing of
an old handler before it (`HandlerConnects`), and one that is connected watches
or has asked for its addresses (`Watches`): every way to the status UP asks, and
so does every change of the addresses while it is UP. Answers of old handlers
fit, because the library acts on the handler in use: a wrong UP keeps the
connection that comes, a wrong failure starts a timer. One READY for each
connection, one configuration for each READY and one handler for each
configuration bound the handlers a driver makes (`OneHandlerEach`).

**`EdgeSessionProofs`**: for any number of devices, any values, any modulus and any
faults, from `DevicesAssumption`, `NothingAssumption` and `BoundsAssumption`.

| Theorem | States |
|---|---|
| `InvCorrect` | `Spec => []Inv` |
| `BornBeforeDataCorrect` | `Spec => []BornBeforeData` |
| `GaplessCorrect` | `Spec => []Gapless` |
| `QuietAgreesCorrect` | `Spec => []QuietAgrees` |
| `TypeCorrect` | `Spec => []SessionTypeOK` |

The invariant is about the future: all the messages under way, told to the
subscriber in order, are right where they arrive and leave it with a picture
that fits the agent, or, while the agent is not online, with the agent dead
(`WillFit`). A message sent extends that by one, one delivered takes the first
away, and a will that overtakes what is lost still ends it. `Leads` says it with
what is known after each message, so that no induction is needed.

**`ConfigObjectsProofs`**: for any objects, ranks, owners and requests, from
`RankAssumption`, `OwnerAssumption` and `NoClassAssumption`.

| Theorem | States |
|---|---|
| `TypeCorrect` | `Spec => []ObjectsTypeOK` |
| `RegistrationCurrentCorrect` | `Spec => []RegistrationCurrent` |
| `RanksAgreeCorrect` | `Spec => []RanksAgree` |
| `RankRootedCorrect` | `Spec => []RankRooted` |
| `KeepsClassesCorrect` | `Spec => KeepsClasses` |
| `KeepsPrimaryCorrect` | `Spec => KeepsPrimary` |

Any number of requests may be under way. Those that are not `behind` are right
about what they have read (`ReadInv`, with `StillRight` for each kind of
request). The shape of the class graph (`ShapeInv`): links join ranks that fit,
no class is above itself, every class is reached from the root of its rank,
built-in rows stay. It holds until a request that was overtaken has written or a
circle is made, both of which the code permits (5), and it is needed because the
code drops links that others make redundant. `RegistrationCurrent` and
`KeepsClasses` need none of that and go on holding afterwards: the first until a
Registration is put over a change that came after it had been read, since every
other write of class or rank writes both; the second for every request that is
not behind and whose own link makes no circle, since what it drops is still
reached by the link it adds.

**`AuthGrantsProofs`**: for any sets of grants, groups and requests.

| Theorem | States |
|---|---|
| `AnsweredIsSeenCorrect` | `Spec => []AnsweredIsSeen` |
| `SeenForwardCorrect` | `Spec => SeenForward` |

The invariant: at most one query is awaited, it was asked for after the last
change that was answered, and what it reads is no older than that or than what
ACLs are made from now.

**`ConfigWatchProofs`**: for any contents, any number of requests at a time,
changes and faults, from `ChangesAssumption`, `NoEntryAssumption` and
`RowAssumption`.

| Theorem | States |
|---|---|
| `InvCorrect` | `Spec => []Inv` |
| `ImplementsWatchCorrect` | `Spec => ImplementsWatch` |
| `QuietAgreesCorrect` | `Spec => []QuietAgrees` |

`Inv` says of each thing on its way (a committed request, an update that waits
for its check, a message to the client) that it tells a state there has been;
the exception is the first place in the queue of a search, which stands for
nothing until a fetch has begun. For a list it adds the order: one fetch at a
time, which has read nothing older than any message sent, and messages in order.
That is where `switchMap` is needed: with `mergeMap` two fetches could answer in
either order. The initial states map to initial states, `Deliver` maps to `Show`
or stutters, a committed change maps to `Change`, and every other step leaves
what the abstract module sees as it is.

`QuietAgrees` needs the converse, that nothing is forgotten (`TellInv`): each
state newer than the last one sent is still to come, from a request that has
committed and not emitted, from an update that waits for its check, or from a
fetch that has yet to read; unless one of the two losses has happened that the
ghosts `missed` and `disordered` record.

**`ClusterManagerProofs`**: for any number of accounts, edits, faults and waiting
patches, from `BoundsAssumption` and `NothingAssumption`.

| Theorem | States |
|---|---|
| `TypeCorrect` | `Spec => []ManagerTypeOK` |
| `MirroredCorrect` | `Spec => []Mirrored` |
| `AccountedCorrect` | `Spec => []Accounted` |
| `ReadyIsSetUpCorrect` | `Spec => []ReadyIsSetUp` |

The inductive invariant is `Typed /\ Mirrored /\ Way`.

- `Mirrored` merges the waiting patches with a recursive function. What it
  computes cannot be had by induction over data, so the proof speaks of the
  statuses between the patches (`Trail`): a patch appended adds one at the end, a
  patch saved takes the first away, and two trails of the same patches are equal
  since they would have a least place at which they differ.
- `Way` holds until `crossed` or `lost`, and has four parts. `Alone`: there is no
  stray action, and the one at work sees the status of the Map. `Working`: what
  that action relies on at the call it has come to has been done; `UpdateStage`
  and `DeleteStage` are the assertions, one for each of the 23 calls. `Fitting`:
  of a status that exists, a role that is done has all its facts, and every name
  or membership belongs to an account the status records; if there is none,
  nothing but grants is left of the cluster. `Half`: a cluster that is ready and lacks
  something is being removed, or was when the process ended.
- A call that takes effect without an answer leaves facts that its action does not
  know of. They fit, because the account they name is already in the status:
  that is why `Update` records the uuid before it uses it. Creating the account is
  the exception, and adds nothing that `Named` speaks of.

`Half` was not to be had at first: an attempt to prove it showed the last of the
Cluster Manager's limitations in 5, and with it that `crossed` has to hold of a
Delete that goes on when its cluster has been added again.

*Only model-checked.* All liveness (`Recovers`, `Establishes`, `DeviceSeen`,
`ListSettles`, `Settled`, `AclSettles`), which is beyond TLAPS. Every safety
property of a passing run is a theorem.

## 5. Limitations found and not run

Met while modelling; most are also described under `hazards`.

Directory:

- A retired device whose address was taken over pins rows of the device that
  took it, so its history is not bounded.
- A delayed handler finds its predecessor pruned, and a change of schemas goes
  unannounced.
- The wait of 5 to 10 s before a rebirth request blocks the only worker, which
  would have to see the BIRTH that it waits for: the request is always sent.
- A DEATH missed while disconnected from MQTT is never made up for.
- Rebirth requests are not spaced out (`RequestsSpaced`). `do_we_rebirth` remembers
  one under the address whose DATA had arrived, but `on_data` sends it to the whole
  Node: DATA of a Node and of its Device, or of two Devices, that wait in the queue
  lead to a request each, since the BIRTHs that the first brings about wait behind
  the second. A Node with many Devices is told once for each.
- An update of an alert that nobody awaits can commit after that of a later message,
  or after a BIRTH, and the older value stands (`AlertIsCurrent`): timestamps are
  not compared.
- An alert that was dropped and is declared again stays hidden for ever, since
  `update_alert_info` does not clear the mark (`ActiveIsListed`).
- The alias map of an address is not cleared by a BIRTH, and a BIRTH with a
  malformed Alert leaves it as it was, so that DATA can update an alert that
  another device has by now (`mixed` covers it); a rejected promise of
  `update_alerts` ends the process.
- A BIRTH that fails leaves its address in `this.online`; the Devices of a Node
  that died stay there too. Both hide a device until it is reborn by chance. A
  DEATH that fails leaves its session open (`unclosed`), and nothing closes it
  until the address is born again or the ingester restarted.
- A delayed `close_all_sessions` can close sessions of the current run.
- Migration v10 loses the trigger on `service_provider`; `record_service` never
  updates the device of an advertisement.

Edge Agent and drivers:

- `READY` after `UP` does not close the devices of a driver connection, and a
  driver can publish `UP` before it has resubscribed; the devices then stay born
  while the driver is failing.
- After a rejected configuration a reconnect timer or a late answer calls a
  method of `undefined` and ends the driver process (`Dies`).
- The Edge Agent keeps connections by type and closes only the last of each, and
  does not close its listening socket on a reload (`driverBroker.ts:74`).
- A DCMD by alias throws (`#aliasIndex` is never set), a DCMD's write overtakes
  data in the buffer, and an NBIRTH resets `#aliasCounter`, so that a device that
  is born later is given aliases that are in use.
- The poll queue of `polled.js` drops what is beyond 20 polls.

ConfigDB and notify-v2:

- A class can be made a subclass of its own subclass. `class_add_subclass` then
  deletes the links to what is above the new superclass as redundant, the one to
  the root among them, and neither class is below the root (`AlwaysRooted`); no
  dump loads any more.
- Ranks are checked with plain reads. If another request changes the rank of the
  object before the link is inserted (READ COMMITTED), the link joins ranks that do
  not fit (`RanksAlwaysAgree`), and no dump loads any more.
- A Registration that is put over a change made after it was read takes its config
  and the row apart (`overwritten`).
- A refused PUT of a Registration keeps the owner it has set. A PUT of a row that
  was deleted meanwhile answers 204 and stores nothing; a DELETE of one that has
  gone is announced; two conditional PUTs can both succeed, and a PATCH can undo
  another.
- An update between the first fetch of an entry and its updates is lost
  (`notify.js:106`; its comment admits it), `asyncState` can apply updates out of
  order, and a rejected `full()` of a search is not caught.
- `model.js:763` notifies of a special app with a config that is not set.

Cluster Manager:

- The save queue subscribes again to a promise that has been rejected
  (`clusters.js:138-142`): the save is never sent again and the queue is stuck.
- A restart with an account's uuid unsaved creates a second account, whose
  `add_identity` is refused with 409 for ever.
- A Delete leaves the grant of its account (`GrantsRemoved`). `grant_find` of Auth
  filters the grants it has found by `check_targ`'s answer, but asks about their own
  UUIDs (`api_v2.js:183`) where `grant_get` asks about the permission; the Cluster
  Manager, which has ManageACL on `Git.Perm.Pull` only (`dumps/clusters.yaml:416`),
  is told of none, and removes the identity, the memberships and the entry.
- Two overlapping Deletes get a 404 and stop the queue; a Delete never takes the
  cluster out of its group; an Update that survives a Delete brings back a status
  without a spec, on which each later Delete throws.
- A cluster that is removed and added again before any of its first Update has been
  saved, and a restart while it is: the status says ready from the saves that were
  waiting, the Delete has taken the identity away, and the new Update finds nothing
  to do. With seven patches waiting or more, so that the run (`MaxLag`) does not meet
  it; `crossed` counts it as two actions that met.

Auth:

- A rejected updater ends `responses`, with it all other requests and the
  process: a PUT that makes two grants equal, two inserts of one new uuid, a
  failed query, and a sender without any WriteACL, who should get a 403.
- A PUT of a deleted grant answers 204; the permission that was found for a
  grant may have changed before it is updated; meanwhile ACLs may combine grants
  and groups of different age.

Not modelled of what is: ConfigObjects' `deleted` flag, `memberOf` and
enumerations, dumps of several objects, the foreign key of owners, and requests
that meet between the statements of one's writes or with a dump halfway;
ConfigWatch's refusals and changes of ACLs, filters of a search, suppression of
identical updates and class watches; ClusterManager's migration of old accounts,
mark for deletion, changes of a spec and several clusters at a time; AuthGrants'
identities, old API, reading endpoints and changes of which groups there are;
EdgeSession's conversion of values.

Each component that is left out is listed under `components` with the reason.

## 6. Plan

Left, in order: PolledDriver's queue and commands with the driver protocol;
Edge sync, which reconciles deployments; git auto-pull; the token cache of
`fetch.js`; the Monitor; subscriptions of the i3X API; service advertisements.

No safety property of a run is left to prove. Further properties worth stating
come with the components above.
