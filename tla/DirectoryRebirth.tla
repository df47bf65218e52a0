-------------------------- MODULE DirectoryRebirth --------------------------
(***************************************************************************)
(* The MQTT ingester of the Directory (MQTTCli): its serial message queue, *)
(* the addresses it believes to be online, and the rebirth requests it     *)
(* sends to Sparkplug nodes it does not recognise.                         *)
(*                                                                         *)
(* The session table is reduced to the addresses that have an open session *)
(* (DirectorySessions has the rest); one device lives at each address.     *)
(* Monitor-only mode, which never asks for a rebirth, is not modelled.     *)
(***************************************************************************)
EXTENDS Naturals, Sequences

CONSTANTS
    Address,    \* Sparkplug addresses, of Nodes and of their Devices
    Node,       \* Node[a]: the Node address that a belongs to
    FaultSets,  \* what may go wrong: a behaviour has one of these sets
    MaxQueue    \* bound: messages waiting in msg_q

(* birth, death: the handler of a BIRTH throws, of a DEATH; slow_close:    *)
(* MQTT is connected before close_all_sessions has reached the database;   *)
(* disconnect: the MQTT connection is lost and re-established while the    *)
(* ingester runs.                                                          *)
FaultKind == {"birth", "death", "slow_close", "disconnect"}

ASSUME NodeAssumption == /\ Node \in [Address -> Address]
                         /\ \A a \in Address : Node[Node[a]] = Node[a]
ASSUME FaultsAssumption == FaultSets \subseteq SUBSET FaultKind
ASSUME MaxQueueAssumption == MaxQueue \in Nat

VARIABLES
    faults,     \* what may go wrong in this behaviour
    up,         \* addresses whose Sparkplug session is alive
    asked,      \* addresses that have been told to rebirth and have yet to
    connected,  \* the ingester is connected to the MQTT broker
    msg_q,      \* messages received and not yet taken by the worker
    worker,     \* what the only worker of msg_q is awaiting
    online,     \* this.online
    pending,    \* this.rebirths.pending
    sent,       \* this.rebirths.sent, the entries younger than 5 minutes
    closing,    \* start-up's close_all_sessions has yet to run
    open,       \* addresses with an open session in the database
    unclosed    \* ghost: addresses of DEATHs that failed, left open

clients  == <<up, asked>>
rebirths == <<pending, sent>>
table    == <<open, unclosed>>
moving == <<clients, connected, msg_q, worker, online, rebirths, closing, table>>
vars == <<faults, moving>>

Message == [type: {"BIRTH", "DEATH", "DATA"}, addr: Address]
Idle    == [pc |-> "idle"]
Awaiting(pc, a) == [pc |-> pc, addr |-> a]

RebirthTypeOK ==
    /\ faults \in FaultSets
    /\ up \subseteq Address /\ asked \subseteq up
    /\ \A a \in up : Node[a] \in up
    /\ {connected, closing} \subseteq BOOLEAN
    /\ msg_q \in Seq(Message)
    /\ worker \in {Idle} \cup [pc: {"birth", "death", "wait", "escalate"},
                               addr: Address]
    /\ online \subseteq Address
    /\ open \subseteq Address /\ unclosed \subseteq Address
    /\ pending \subseteq Address /\ sent \subseteq Address

(* The ingester has just been started, by an install or after a crash.     *)
Init ==
    /\ faults \in FaultSets
    /\ up \in {A \in SUBSET Address : \A a \in A : Node[a] \in A}
    /\ open \in SUBSET Address
    /\ closing = TRUE /\ connected = FALSE
    /\ msg_q = <<>> /\ worker = Idle
    /\ asked = {} /\ online = {} /\ pending = {} /\ sent = {} /\ unclosed = {}

-----------------------------------------------------------------------------
(* Sparkplug clients.  What they publish is lost unless the ingester is    *)
(* connected.  A Node's session carries those of its Devices.              *)
Carries(a) == IF a = Node[a] THEN {b \in Address : Node[b] = a} ELSE {a}

Send(type, a) ==
    IF connected
    THEN /\ Len(msg_q) < MaxQueue
         /\ msg_q' = Append(msg_q, [type |-> type, addr |-> a])
    ELSE UNCHANGED msg_q

ClientBirth(a) ==
    /\ Node[a] \in up \cup {a}
    /\ up' = up \cup {a}
    /\ asked' = asked \ {a}
    /\ Send("BIRTH", a)
    /\ UNCHANGED <<connected, worker, online, rebirths, closing, table>>

ClientDeath(a) ==
    /\ a \in up
    /\ up' = up \ Carries(a)
    /\ asked' = asked \ Carries(a)
    /\ Send("DEATH", a)
    /\ UNCHANGED <<connected, worker, online, rebirths, closing, table>>

ClientData(a) ==
    /\ a \in up
    /\ Send("DATA", a)
    /\ UNCHANGED <<clients, connected, worker, online, rebirths, closing, table>>

-----------------------------------------------------------------------------
(* Start-up.  MQTTCli.run calls close_all_sessions without awaiting it and *)
(* goes on to connect to MQTT and to subscribe.                            *)
(* Mutants: the DEATH of a Device closes the whole Node's; start-up closes *)
(* nothing.                                                                *)
ClosedWhole(a) == open \ Carries(Node[a])
AllClosedNone  == open

Closed(a) == open \ Carries(a)
AllClosed == {}

CloseAll ==
    /\ closing
    /\ closing' = FALSE
    /\ open' = AllClosed
    /\ unclosed' = {}
    /\ UNCHANGED <<clients, connected, msg_q, worker, online, rebirths>>

Connect ==
    /\ ~connected
    /\ closing => "slow_close" \in faults
    /\ connected' = TRUE
    /\ UNCHANGED <<clients, msg_q, worker, online, rebirths, closing, table>>

(* The MQTT library reconnects and resubscribes; on_connect only publishes *)
(* the Directory's own birth certificate.                                  *)
Disconnect ==
    /\ "disconnect" \in faults
    /\ connected
    /\ connected' = FALSE
    /\ UNCHANGED <<clients, msg_q, worker, online, rebirths, closing, table>>

(* The process dies and is restarted.  Everything but the database goes.   *)
Crash ==
    /\ connected' = FALSE /\ closing' = TRUE
    /\ msg_q' = <<>> /\ worker' = Idle
    /\ online' = {} /\ pending' = {} /\ sent' = {}
    /\ unclosed' = {}
    /\ UNCHANGED <<clients, open>>

-----------------------------------------------------------------------------
(* on_queued_message: the worker takes a message only when the handler of  *)
(* the one before has settled.                                             *)
Take(type, a) ==
    /\ worker = Idle
    /\ msg_q # <<>>
    /\ Head(msg_q) = [type |-> type, addr |-> a]
    /\ msg_q' = Tail(msg_q)

(* Address.toString, by which this.online is keyed.  Mutant: the Address   *)
(* object itself, of which there is a new one for every message.           *)
KeyByObject(a) == [object |-> a]
Key(a) == a

OnBirth(a) ==
    /\ Take("BIRTH", a)
    /\ online' = online \cup {Key(a)}
    /\ worker' = Awaiting("birth", a)
    /\ unclosed' = unclosed \ {a}
    /\ UNCHANGED <<clients, connected, rebirths, closing, open>>

(* The transaction of Model.birth.                                         *)
BirthCommits ==
    /\ worker.pc = "birth"
    /\ open' = open \cup {worker.addr}
    /\ worker' = Idle
    /\ UNCHANGED <<clients, connected, msg_q, online, rebirths, closing, unclosed>>

(* A malformed Alert or Link object, or an error of the database: the      *)
(* queue logs it and goes on.                                              *)
BirthFails ==
    /\ "birth" \in faults
    /\ worker.pc = "birth"
    /\ worker' = Idle
    /\ UNCHANGED <<clients, connected, msg_q, online, rebirths, closing, table>>

OnDeath(a) ==
    /\ Take("DEATH", a)
    /\ online' = online \ {Key(a)}
    /\ worker' = Awaiting("death", a)
    /\ UNCHANGED <<clients, connected, rebirths, closing, table>>

DeathCommits ==
    /\ worker.pc = "death"
    /\ open' = Closed(worker.addr)
    /\ unclosed' = unclosed \ Carries(worker.addr)
    /\ worker' = Idle
    /\ UNCHANGED <<clients, connected, msg_q, online, rebirths, closing>>

(* An error of the database: on_death has forgotten the address, and its   *)
(* session stays open.                                                     *)
DeathFails ==
    /\ "death" \in faults
    /\ worker.pc = "death"
    /\ worker' = Idle
    /\ unclosed' = unclosed \cup ({worker.addr} \cap open)
    /\ UNCHANGED <<clients, connected, msg_q, online, rebirths, closing, open>>

(* do_we_rebirth, up to the wait.                                          *)
Ignored(a) == a \in sent \/ a \in pending \/ Key(a) \in online

OnData(a) ==
    /\ Take("DATA", a)
    /\ \/ /\ Ignored(a)
          /\ UNCHANGED <<worker, pending>>
       \/ /\ ~Ignored(a)
          /\ pending' = pending \cup {a}
          /\ worker' = Awaiting("wait", a)
    /\ UNCHANGED <<clients, connected, online, sent, closing, table>>

(* ... and after it.  Mutant: the marker is not cleared.                   *)
Remarked(a) == pending
Unmarked(a) == pending \ {a}

WaitEnds ==
    /\ worker.pc = "wait"
    /\ pending' = Unmarked(worker.addr)
    /\ \/ /\ Key(worker.addr) \in online
          /\ worker' = Idle
          /\ UNCHANGED sent
       \/ /\ Key(worker.addr) \notin online
          /\ worker' = Awaiting("escalate", worker.addr)
          /\ sent' = sent \cup {worker.addr}
    /\ UNCHANGED <<clients, connected, msg_q, online, closing, table>>

(* CmdEsc.rebirth of the whole Node.  Clients that are up will obey.       *)
Escalate ==
    /\ worker.pc = "escalate"
    /\ worker' = Idle
    /\ asked' = asked \cup (up \cap Carries(Node[worker.addr]))
    /\ UNCHANGED <<up, connected, msg_q, online, rebirths, closing, table>>

(* The Command Escalation service refuses, or cannot be reached.           *)
EscalateFails ==
    /\ worker.pc = "escalate"
    /\ worker' = Idle
    /\ UNCHANGED <<clients, connected, msg_q, online, rebirths, closing, table>>

(* Five minutes pass after a rebirth request.                              *)
SentExpires(a) ==
    /\ a \in sent
    /\ sent' = sent \ {a}
    /\ UNCHANGED <<clients, connected, msg_q, worker, online, pending, closing, table>>

Worker ==
    \/ \E a \in Address : OnBirth(a) \/ OnDeath(a) \/ OnData(a)
    \/ BirthCommits \/ BirthFails \/ DeathCommits \/ DeathFails
    \/ WaitEnds \/ Escalate \/ EscalateFails

Next ==
    /\ \/ \E a \in Address : \/ ClientBirth(a) \/ ClientDeath(a) \/ ClientData(a)
                             \/ SentExpires(a)
       \/ CloseAll \/ Connect \/ Disconnect \/ Crash
       \/ Worker
    /\ UNCHANGED faults

Spec == Init /\ [][Next]_vars

(* The event loop runs; timers fire; a client that is up publishes again   *)
(* and again, and obeys a rebirth request; the Command Escalation service  *)
(* does not refuse for ever.                                               *)
Fairness ==
    /\ WF_moving(Worker) /\ WF_moving(CloseAll) /\ WF_moving(Connect)
    /\ \A a \in Address :
        /\ WF_moving(SentExpires(a))
        /\ SF_moving(ClientData(a))
        /\ SF_moving(a \in asked /\ ClientBirth(a))
        /\ SF_moving(worker.pc = "escalate" /\ worker.addr = a /\ Escalate)

FairSpec == Spec /\ Fairness

-----------------------------------------------------------------------------
Quiet == msg_q = <<>> /\ worker = Idle /\ connected /\ ~closing

(* A device is shown online only if this run of the ingester has seen its  *)
(* BIRTH and no DEATH since, or its DEATH is being handled, or that failed *)
(* ("This will rebirth any device we haven't seen a birth for, even if the *)
(* database says it's online"): so no open session of before a restart is  *)
(* beyond the reach of on_data's rebirth check.                            *)
OpenIsKnown ==
    ~closing => \A a \in open \ online :
                    a \in unclosed \/ (worker.pc = "death" /\ worker.addr = a)

(* When the ingester has caught up, nothing that is down is shown online,  *)
(* over restarts of the ingester and of the clients, and its memory agrees *)
(* with the database ("If we think this device is online, everything's     *)
(* OK"), so DATA that is taken without question comes from an indexed      *)
(* device.  A failed BIRTH breaks the latter, and so does one that is      *)
(* missed after a Node's DEATH has closed its Devices.                     *)
IndexTrue ==
    faults = {} /\ Quiet => /\ open \subseteq up
                           /\ \A a \in online \cap up : a \in open

(* "If we've rebirthed this device in the last 5 minutes, don't do it      *)
(* again": no device is told twice in one window.  A request goes to the   *)
(* Node of the address that had sent DATA, and is remembered for that      *)
(* address only, so that this does not hold.                               *)
RequestsSpaced ==
    [][worker.pc = "wait" /\ worker'.pc = "escalate" =>
            \A b \in sent : Node[b] # Node[worker.addr]]_vars

(* An address that stays up while the ingester stays connected is indexed  *)
(* in the end and stays so, although its BIRTH may have been missed.       *)
Recovers ==
    \A a \in Address : <>[](faults = {} /\ a \in up /\ connected) => <>[](a \in open)

(* "give the device a chance to rebirth on its own": no rebirth is asked   *)
(* of an address whose BIRTH has already arrived.                          *)
ChanceGiven ==
    [][worker.pc = "wait" /\ worker'.pc = "escalate" =>
            \A i \in DOMAIN msg_q :
                msg_q[i] # [type |-> "BIRTH", addr |-> worker.addr]]_vars
=============================================================================
