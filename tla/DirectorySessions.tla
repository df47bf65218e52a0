-------------------------- MODULE DirectorySessions --------------------------
(***************************************************************************)
(* The session table of the Directory (acs-directory): one row for every   *)
(* Sparkplug BIRTH that has been indexed.  Rows are chained twice, by      *)
(* device and by address, and a background prune deletes old rows.         *)
(*                                                                         *)
(* Every action is one committed transaction or one SQL statement.  They   *)
(* run at READ COMMITTED, and each reads and writes only rows it locks or  *)
(* creates, so a statement is one step.                                    *)
(***************************************************************************)
EXTENDS Naturals

CONSTANTS
    Device,     \* devices, named by Instance_UUID or a generated UUID
    Address,    \* Sparkplug addresses, of Nodes and of Devices
    Schema,     \* schemas a BIRTH may use
    Scope,      \* Scope[a]: the addresses whose sessions a DEATH of a closes
    MaxId       \* bound: the last session id that is handed out

ASSUME ScopeAssumption == Scope \in [Address -> SUBSET Address]
ASSUME MaxIdAssumption == MaxId \in Nat \ {0}

VARIABLES
    session,    \* the table, a function from the ids of its rows
    seq,        \* the id the serial column hands out next
    version     \* schema version of the database

vars == <<session, seq, version>>

(* Ids start at 1; 0 stands for SQL null in next_for_*.                    *)
Null == 0
Ids  == 1 .. MaxId

Session == [device: Device, address: Address, schemas: SUBSET Schema,
            online: BOOLEAN,
            next_for_device: Ids \cup {Null},
            next_for_address: Ids \cup {Null}]

Rows == DOMAIN session

TypeOK ==
    /\ seq \in 1 .. MaxId + 1
    /\ Rows \in SUBSET (1 .. seq - 1)
    /\ session \in [Rows -> Session]
    /\ version \in {13, 14}

-----------------------------------------------------------------------------
(* Views of the table that the rest of the Directory reads.                *)

DeviceCurrent(i)  == session[i].next_for_device = Null
AddressCurrent(i) == session[i].next_for_address = Null

SameDevice(i, j)  == session[i].device = session[j].device
SameAddress(i, j) == session[i].address = session[j].address

(* device_status: what a client is shown for each device.                  *)
DeviceStatus == {[device |-> session[i].device, address |-> session[i].address,
                  online |-> session[i].online, schemas |-> session[i].schemas] :
                    i \in {j \in Rows : DeviceCurrent(j)}}

(* addr_uuid and is_addr_online: what a client is shown for each address.  *)
AddressStatus == {[device |-> session[i].device, address |-> session[i].address,
                   online |-> session[i].online] :
                    i \in {j \in Rows : AddressCurrent(j)}}

-----------------------------------------------------------------------------
(* An install is created at the current version or upgraded from 13.       *)
Init ==
    /\ session = [i \in {} |-> Null]
    /\ seq = 1
    /\ version \in {13, 14}

(* The rows that record_birth(d, a) supersedes in each chain.              *)
OfDevice(d)  == {i \in Rows : session[i].device = d /\ DeviceCurrent(i)}
OfAddress(a) == {i \in Rows : session[i].address = a /\ AddressCurrent(i)}

NewSession(d, a, schemas) ==
    [device |-> d, address |-> a, schemas |-> schemas, online |-> TRUE,
     next_for_device |-> Null, next_for_address |-> Null]

(* Row i with its mutable columns set; device, address and schemas are     *)
(* written once.                                                           *)
Update(i, online, next_for_device, next_for_address) ==
    [device |-> session[i].device, address |-> session[i].address,
     schemas |-> session[i].schemas, online |-> online,
     next_for_device |-> next_for_device, next_for_address |-> next_for_address]

(* Definitions marked "mutant" are errors to try the properties against;   *)
(* nothing uses them.  Mutant: the old session of the device is closed and *)
(* not linked.                                                             *)
SupersededUnlinked(i, d, a, new) ==
    Update(i,
        session[i].online /\ i \notin OfDevice(d) \cup OfAddress(a),
        session[i].next_for_device,
        IF i \in OfAddress(a) THEN new ELSE session[i].next_for_address)

(* Mutant: a device that takes over an address does not close the session  *)
(* it finds there.                                                         *)
SupersededOpen(i, d, a, new) ==
    Update(i,
        session[i].online /\ i \notin OfDevice(d),
        IF i \in OfDevice(d) THEN new ELSE session[i].next_for_device,
        IF i \in OfAddress(a) THEN new ELSE session[i].next_for_address)

Superseded(i, d, a, new) ==
    Update(i,
        session[i].online /\ i \notin OfDevice(d) \cup OfAddress(a),
        IF i \in OfDevice(d) THEN new ELSE session[i].next_for_device,
        IF i \in OfAddress(a) THEN new ELSE session[i].next_for_address)

(* Model.birth: index a BIRTH by device d at address a.                    *)
(* Mutant: the id is not taken from the sequence.                          *)
BirthIdGiven(d, a, schemas) ==
    /\ seq <= MaxId
    /\ session' = [i \in Rows \cup {seq} |->
                     IF i = seq THEN NewSession(d, a, schemas)
                                ELSE Superseded(i, d, a, seq)]
    /\ UNCHANGED <<seq, version>>

Birth(d, a, schemas) ==
    /\ seq <= MaxId
    /\ session' = [i \in Rows \cup {seq} |->
                     IF i = seq THEN NewSession(d, a, schemas)
                                ELSE Superseded(i, d, a, seq)]
    /\ seq' = seq + 1
    /\ UNCHANGED version

(* The birth transaction is rolled back by an error after the insert.      *)
(* Postgres does not give the id back to the sequence.                     *)
BirthAborted ==
    /\ seq <= MaxId
    /\ seq' = seq + 1
    /\ UNCHANGED <<session, version>>

(* Set finish on a set of open sessions.                                   *)
Close(S) ==
    session' = [i \in Rows |->
        Update(i, session[i].online /\ i \notin S,
               session[i].next_for_device, session[i].next_for_address)]

OnlineAt(A) == {i \in Rows : session[i].online /\ session[i].address \in A}

(* Queries.record_death: a DEATH of a Node closes its Devices as well.     *)
Death(a) ==
    /\ Close(OnlineAt(Scope[a]))
    /\ UNCHANGED <<seq, version>>

(* Queries.close_all_sessions: run by the ingester when it starts.         *)
CloseAll ==
    /\ Close(OnlineAt(Address))
    /\ UNCHANGED <<seq, version>>

(* Queries.prune_device_sessions.                                          *)
Referenced(i) == \E r \in Rows : session[r].next_for_device = i
                              \/ session[r].next_for_address = i

IsCurrentIn(i, Cur(_)) == i \in Rows /\ Cur(i)

(* Mutants of the prune, each without some of its conditions.              *)
PrunableReferenced(d) ==
    {i \in Rows :
        /\ session[i].device = d
        /\ ~DeviceCurrent(i)
        /\ ~AddressCurrent(i)
        /\ ~IsCurrentIn(session[i].next_for_device, DeviceCurrent)
        /\ ~IsCurrentIn(session[i].next_for_address, AddressCurrent)}

PrunableAtAddress(d) ==
    {i \in Rows :
        /\ session[i].device = d
        /\ ~DeviceCurrent(i)
        /\ ~IsCurrentIn(session[i].next_for_device, DeviceCurrent)
        /\ ~IsCurrentIn(session[i].next_for_address, AddressCurrent)
        /\ ~Referenced(i)}

PrunableEagerly(d) ==
    {i \in Rows :
        /\ session[i].device = d
        /\ ~DeviceCurrent(i)
        /\ ~AddressCurrent(i)
        /\ ~Referenced(i)}

Prunable(d) ==
    {i \in Rows :
        /\ session[i].device = d
        /\ ~DeviceCurrent(i)
        /\ ~AddressCurrent(i)
        /\ ~IsCurrentIn(session[i].next_for_device, DeviceCurrent)
        /\ ~IsCurrentIn(session[i].next_for_address, AddressCurrent)
        /\ ~Referenced(i)}

Prune(d) ==
    /\ version = 14
    /\ session' = [i \in Rows \ Prunable(d) |-> session[i]]
    /\ UNCHANGED <<seq, version>>

(* sql/v14.sql: the bulk prune of the upgrade.  A row is kept if it is one *)
(* of the last two of its device or of its address, and the chains are     *)
(* relinked over the rows that are kept.                                   *)
LastTwo(i, Same(_, _)) ==
    ~\E j, k \in Rows : i < j /\ j < k /\ Same(i, j) /\ Same(i, k)

(* Mutant: the upgrade forgets the addresses.                              *)
SessionKeepByDevice == {i \in Rows : LastTwo(i, SameDevice)}

SessionKeep == {i \in Rows : LastTwo(i, SameDevice) \/ LastTwo(i, SameAddress)}

NextKept(i, Same(_, _)) ==
    LET later == {k \in SessionKeep : Same(i, k) /\ i < k}
    IN  IF later = {} THEN Null
        ELSE CHOOSE k \in later : \A l \in later : k <= l

Migrate ==
    /\ version = 13
    /\ session' = [i \in SessionKeep |->
            Update(i, session[i].online,
                   IF DeviceCurrent(i) THEN Null ELSE NextKept(i, SameDevice),
                   IF AddressCurrent(i) THEN Null ELSE NextKept(i, SameAddress))]
    /\ version' = 14
    /\ UNCHANGED seq

Next ==
    \/ \E d \in Device, a \in Address, schemas \in SUBSET Schema :
            Birth(d, a, schemas)
    \/ BirthAborted
    \/ \E a \in Address : Death(a)
    \/ CloseAll
    \/ \E d \in Device : Prune(d)
    \/ Migrate

Spec == Init /\ [][Next]_vars

-----------------------------------------------------------------------------
(* The next pointer of a row names the next surviving session of the same  *)
(* device, and is null only when there is none.  prune_device_sessions and *)
(* v14.sql delete rows out of two interleaved chains; a pointer to a row   *)
(* that is gone, or past one that is not, is what got #614 reverted.       *)
IsSuccessor(n, i, Same(_, _)) ==
    IF n = Null
    THEN \A j \in Rows : i < j => ~Same(i, j)
    ELSE /\ n \in Rows /\ i < n /\ Same(i, n)
         /\ \A j \in Rows : i < j /\ Same(i, j) => n <= j

DeviceChain ==
    \A i \in Rows : IsSuccessor(session[i].next_for_device, i, SameDevice)

AddressChain ==
    \A i \in Rows : IsSuccessor(session[i].next_for_address, i, SameAddress)

(* Each device and each address with any session at all has exactly one    *)
(* current session, so device_status shows a device once and addr_uuid and *)
(* is_addr_online (which take the first row) have one answer.              *)
HasCurrent ==
    \A i \in Rows : /\ \E j \in Rows : SameDevice(i, j) /\ DeviceCurrent(j)
                    /\ \E j \in Rows : SameAddress(i, j) /\ AddressCurrent(j)

OneCurrent ==
    /\ HasCurrent
    /\ \A i, j \in Rows :
        /\ SameDevice(i, j) /\ DeviceCurrent(i) /\ DeviceCurrent(j) => i = j
        /\ SameAddress(i, j) /\ AddressCurrent(i) /\ AddressCurrent(j) => i = j

(* An open session is the current one of its device and of its address:    *)
(* record_death closes by "online" alone and relies on this not to touch   *)
(* history, and a superseded session can never be shown as online.         *)
OnlineIsCurrent ==
    \A i \in Rows : session[i].online => DeviceCurrent(i) /\ AddressCurrent(i)

(* Deleting rows, by the prune or by the upgrade, changes nothing that a   *)
(* client can see (the device_status checks of test/session-prune.sql).    *)
Deletes == version' # version \/ ~(Rows \subseteq Rows')

PruneInvisible ==
    [][Deletes => DeviceStatus' = DeviceStatus /\ AddressStatus' = AddressStatus]_vars

(* A row is deleted only when both of its successors have been superseded  *)
(* too: the session directly before a current one is what                  *)
(* on_session_notify computes the Schema_Usage difference from.            *)
Predecessor(i) ==
    \/ IsCurrentIn(session[i].next_for_device, DeviceCurrent)
    \/ IsCurrentIn(session[i].next_for_address, AddressCurrent)

Wanted(i) == DeviceCurrent(i) \/ AddressCurrent(i) \/ Predecessor(i)

WantedKept == [][\A i \in Rows : Wanted(i) => i \in Rows']_vars

(* What the comment on prune_device_sessions promises: when there is       *)
(* nothing left for it to delete, only the current session and the one     *)
(* before it remain in each chain ("anything older goes").                 *)
HistoryBounded ==
    (version = 14 /\ \A d \in Device : Prunable(d) = {})
        => \A i \in Rows : Wanted(i)
=============================================================================
