------------------------ MODULE DirectoryIngesterProofs ------------------------
(* Proofs about the MQTT ingester: first its memory and its rebirth         *)
(* requests (DirectoryRebirth), for any addresses, any length of the queue  *)
(* and any faults; then the alert table and the alias maps                  *)
(* (DirectoryAlerts), for any devices, alerts and aliases, and any number   *)
(* of updates in flight.                                                    *)
EXTENDS DirectoryRebirth, DirectoryAlerts, TLAPS

(* An address is put into this.online before its transaction begins.        *)
BirthKnown == worker.pc = "birth" => worker.addr \in online

Inv == RebirthTypeOK /\ OpenIsKnown /\ BirthKnown

(* The messages that begin and that end the session of an address.          *)
Births(a) == {m \in Message : m.type = "BIRTH" /\ m.addr = a}
Deaths(a) == {m \in Message : m.type = "DEATH" /\ a \in Carries(m.addr)}

Some(q, B) == \E i \in DOMAIN q : q[i] \in B
EachFollowed(q, A, B) ==
    \A i \in DOMAIN q : q[i] \in A => \E j \in DOMAIN q : j > i /\ q[j] \in B

Dying(a) == worker.pc = "death" /\ a \in Carries(worker.addr)
BeingBorn(a) == worker.pc = "birth" /\ worker.addr = a

(* The last word on an address in the queue is the one that fits: what is   *)
(* down will have been closed, and of what is up nothing that was closed    *)
(* will be left remembered without its BIRTH.                               *)
SettlesDown(a) ==
    /\ EachFollowed(msg_q, Births(a), Deaths(a))
    /\ a \in open \/ BeingBorn(a) => Some(msg_q, Deaths(a)) \/ Dying(a)

SettlesUp(a) ==
    /\ EachFollowed(msg_q, Deaths(a), Births(a))
    /\ Dying(a) \/ (a \in online \ open /\ ~BeingBorn(a)) => Some(msg_q, Births(a))

Settling(a) == IF a \in up THEN SettlesUp(a) ELSE SettlesDown(a)

(* Before it is connected the ingester has nothing in memory.               *)
Fresh == msg_q = <<>> /\ worker = Idle /\ online = {} /\ (closing \/ open = {})

IndexInv ==
    faults = {} =>
        /\ closing => ~connected
        /\ ~connected => Fresh
        /\ ~closing => \A a \in Address : Settling(a)

-----------------------------------------------------------------------------
(* What Clients, the network and the clock do to the types.  A Node's death *)
(* takes its Devices along, and so leaves no Device without a Node.         *)
LEMMA NodesKept ==
    ASSUME NEW a \in Address, NEW live \in SUBSET Address, \A b \in live : Node[b] \in live
    PROVE  \A b \in live \ Carries(a) : Node[b] \in live \ Carries(a)
  <1> SUFFICES ASSUME NEW b \in live \ Carries(a)
               PROVE  Node[b] \notin Carries(a)
    OBVIOUS
  <1>1. b \in Address /\ Node[b] \in Address /\ Node[Node[b]] = Node[b]
    BY NodeAssumption
  <1>2. CASE a = Node[a]
    BY <1>1, <1>2 DEF Carries
  <1>3. CASE a # Node[a]
    BY <1>1, <1>3 DEF Carries
  <1> QED BY <1>2, <1>3

(* What a client sends is a message in the queue, or nothing.               *)
LEMMA SendTyped ==
    ASSUME msg_q \in Seq(Message), NEW a \in Address,
           NEW type \in {"BIRTH", "DEATH", "DATA"}, Send(type, a)
    PROVE  msg_q' \in Seq(Message)
  <1>1. [type |-> type, addr |-> a] \in Message
    BY DEF Message
  <1> QED BY <1>1 DEF Send

(* A step of a client changes neither the worker nor the ingester's memory. *)
LEMMA ClientTyped ==
    ASSUME RebirthTypeOK, faults' = faults, NEW a \in Address,
           ClientBirth(a) \/ ClientDeath(a) \/ ClientData(a)
    PROVE  RebirthTypeOK'
  <1>1. msg_q' \in Seq(Message)
    BY SendTyped DEF RebirthTypeOK, ClientBirth, ClientDeath, ClientData
  <1>2. CASE ClientBirth(a)
    BY <1>1, <1>2, NodeAssumption DEF RebirthTypeOK, ClientBirth, rebirths, table
  <1>3. CASE ClientDeath(a)
    <2>1. \A b \in up' : Node[b] \in up'
      BY <1>3, NodesKept DEF RebirthTypeOK, ClientDeath
    <2> QED BY <1>1, <1>3, <2>1 DEF RebirthTypeOK, ClientDeath, rebirths, table
  <1>4. CASE ClientData(a)
    BY <1>1, <1>4 DEF RebirthTypeOK, ClientData, clients, rebirths, table
  <1> QED BY <1>2, <1>3, <1>4

(* The steps of start-up, of the network and of the clock keep the types.   *)
LEMMA ProcessTyped ==
    ASSUME RebirthTypeOK, faults' = faults,
           CloseAll \/ Connect \/ Disconnect \/ Crash \/ \E a \in Address : SentExpires(a)
    PROVE  RebirthTypeOK'
  <1>1. CASE CloseAll
    BY <1>1 DEF RebirthTypeOK, CloseAll, AllClosed, clients, rebirths, table
  <1>2. CASE Connect \/ Disconnect
    BY <1>2 DEF RebirthTypeOK, Connect, Disconnect, clients, rebirths, table
  <1>3. CASE Crash
    <2>1. msg_q' \in Seq(Message) /\ worker' \in {Idle}
      BY <1>3 DEF Crash
    <2>2. {connected', closing'} \subseteq BOOLEAN
      BY <1>3 DEF Crash
    <2> QED BY <1>3, <2>1, <2>2 DEF RebirthTypeOK, Crash, clients
  <1>4. CASE \E a \in Address : SentExpires(a)
    BY <1>4 DEF RebirthTypeOK, SentExpires, clients, table
  <1> QED BY <1>1, <1>2, <1>3, <1>4

(* What is left when a message has been taken is a queue.                   *)
LEMMA TakeTyped ==
    ASSUME msg_q \in Seq(Message), NEW a, NEW type, Take(type, a)
    PROVE  msg_q' \in Seq(Message)
  BY DEF Take

(* The steps of the worker keep the types.                                  *)
LEMMA WorkerTyped ==
    ASSUME RebirthTypeOK, faults' = faults, Worker
    PROVE  RebirthTypeOK'
  <1>1. CASE \E a \in Address : OnBirth(a) \/ OnDeath(a) \/ OnData(a)
    <2>1. PICK a \in Address : OnBirth(a) \/ OnDeath(a) \/ OnData(a)
      BY <1>1
    <2>2. msg_q' \in Seq(Message)
      BY <2>1, TakeTyped DEF RebirthTypeOK, OnBirth, OnDeath, OnData
    <2>3. CASE OnBirth(a)
      BY <2>2, <2>3 DEF RebirthTypeOK, OnBirth, Awaiting, Key, clients, rebirths, table
    <2>4. CASE OnDeath(a)
      BY <2>2, <2>4 DEF RebirthTypeOK, OnDeath, Awaiting, Key, clients, rebirths, table
    <2>5. CASE OnData(a)
      BY <2>2, <2>5 DEF RebirthTypeOK, OnData, Awaiting, clients, table
    <2> QED BY <2>1, <2>3, <2>4, <2>5
  <1>2. CASE BirthCommits \/ BirthFails \/ DeathCommits \/ DeathFails
    <2>1. open' \subseteq Address /\ unclosed' \subseteq Address
      BY <1>2 DEF RebirthTypeOK, BirthCommits, BirthFails, DeathCommits, DeathFails, Closed,
                  Idle, table
    <2> QED BY <1>2, <2>1 DEF RebirthTypeOK, BirthCommits, BirthFails, DeathCommits, DeathFails,
                              Idle, clients, rebirths
  <1>3. CASE WaitEnds
    BY <1>3 DEF RebirthTypeOK, WaitEnds, Unmarked, Awaiting, Idle, clients, table
  <1>4. CASE Escalate \/ EscalateFails
    BY <1>4 DEF RebirthTypeOK, Escalate, EscalateFails, Idle, clients, rebirths, table
  <1> QED BY <1>1, <1>2, <1>3, <1>4 DEF Worker

(* So does every step, and stuttering.                                      *)
LEMMA NextTyped == ASSUME RebirthTypeOK, [Next]_vars PROVE RebirthTypeOK'
  <1>1. CASE Next
    BY <1>1, ClientTyped, ProcessTyped, WorkerTyped DEF Next
  <1>2. CASE UNCHANGED vars
    BY <1>2 DEF vars, moving, clients, rebirths, table, RebirthTypeOK
  <1> QED BY <1>1, <1>2

-----------------------------------------------------------------------------
(* A start leaves the memory empty and the database still to be closed.     *)
LEMMA InitInv == Init => Inv
  <1> SUFFICES ASSUME Init PROVE Inv
    OBVIOUS
  <1>1. RebirthTypeOK
    <2>1. msg_q \in Seq(Message) /\ worker \in {Idle}
      BY DEF Init
    <2>2. {connected, closing} \subseteq BOOLEAN
      BY DEF Init
    <2> QED BY <2>1, <2>2 DEF Init, RebirthTypeOK
  <1>2. OpenIsKnown /\ BirthKnown
    BY DEF Init, OpenIsKnown, BirthKnown, Idle
  <1> QED BY <1>1, <1>2 DEF Inv

(* Outside the worker only the clock, a crash and the delayed close touch   *)
(* what the invariant speaks of, and they only take away.                   *)
LEMMA OutsideInv ==
    ASSUME Inv, UNCHANGED worker, UNCHANGED online,
           UNCHANGED <<table, closing>> \/ open' = {}
    PROVE  (OpenIsKnown /\ BirthKnown)'
  BY DEF Inv, OpenIsKnown, BirthKnown, table

(* The worker keeps memory ahead of the database.                           *)
LEMMA WorkerInv == ASSUME Inv, Worker PROVE (OpenIsKnown /\ BirthKnown)'
  <1>1. ASSUME NEW a \in Address, OnBirth(a)
        PROVE  (OpenIsKnown /\ BirthKnown)'
    BY <1>1 DEF Inv, OpenIsKnown, BirthKnown, OnBirth, Take, Awaiting, Key, Idle
  <1>2. ASSUME NEW a \in Address, OnDeath(a)
        PROVE  (OpenIsKnown /\ BirthKnown)'
    BY <1>2 DEF Inv, OpenIsKnown, BirthKnown, OnDeath, Take, Awaiting, Key, Idle, table
  <1>3. ASSUME NEW a \in Address, OnData(a)
        PROVE  (OpenIsKnown /\ BirthKnown)'
    BY <1>3 DEF Inv, OpenIsKnown, BirthKnown, OnData, Take, Ignored, Awaiting, Idle, table
  <1>4. CASE BirthCommits \/ BirthFails
    BY <1>4 DEF Inv, OpenIsKnown, BirthKnown, BirthCommits, BirthFails, Idle, table
  <1>5. CASE DeathCommits
    <2>1. worker.addr \in Address => worker.addr \in Carries(worker.addr)
      BY DEF Carries
    <2> QED BY <1>5, <2>1 DEF Inv, RebirthTypeOK, OpenIsKnown, BirthKnown, DeathCommits, Closed, Idle
  <1>6. CASE DeathFails
    BY <1>6 DEF Inv, OpenIsKnown, BirthKnown, DeathFails, Idle
  <1>7. CASE WaitEnds
    BY <1>7 DEF Inv, OpenIsKnown, BirthKnown, WaitEnds, Awaiting, Idle, table
  <1>8. CASE Escalate \/ EscalateFails
    BY <1>8 DEF Inv, OpenIsKnown, BirthKnown, Escalate, EscalateFails, Idle, table
  <1> QED BY <1>1, <1>2, <1>3, <1>4, <1>5, <1>6, <1>7, <1>8 DEF Worker

(* Every step keeps the invariant.                                          *)
LEMMA NextInv == ASSUME Inv, [Next]_vars PROVE Inv'
  <1>1. RebirthTypeOK'
    BY NextTyped DEF Inv
  <1>2. CASE Worker
    BY <1>1, <1>2, WorkerInv DEF Inv
  <1>3. CASE Crash
    BY <1>1, <1>3 DEF Inv, Crash, OpenIsKnown, BirthKnown, Idle
  <1>4. CASE \/ UNCHANGED vars \/ CloseAll \/ Connect \/ Disconnect
             \/ \E a \in Address : \/ ClientBirth(a) \/ ClientDeath(a) \/ ClientData(a)
                                   \/ SentExpires(a)
    <2>1. /\ UNCHANGED worker /\ UNCHANGED online
          /\ UNCHANGED <<table, closing>> \/ open' = {}
      BY <1>4 DEF vars, moving, CloseAll, AllClosed, Connect, Disconnect,
                  ClientBirth, ClientDeath, ClientData, SentExpires
    <2> QED BY <1>1, <2>1, OutsideInv DEF Inv
  <1> QED BY <1>2, <1>3, <1>4 DEF Next

(* Inv holds in every state of every behaviour.                             *)
THEOREM InvCorrect == Spec => []Inv
  <1>1. Inv /\ [Next]_vars => Inv'
    BY NextInv
  <1> QED BY <1>1, InitInv, PTL DEF Spec

(* The variables have their types in every state.                           *)
THEOREM TypeCorrect == Spec => []RebirthTypeOK
  <1>1. Inv => RebirthTypeOK
    BY DEF Inv
  <1> QED BY <1>1, InvCorrect, PTL

(* Nothing is open, once start-up has closed what was, that this run of the *)
(* ingester has not seen born and does not remember, unless its DEATH is    *)
(* being handled or has failed.                                             *)
THEOREM OpenIsKnownCorrect == Spec => []OpenIsKnown
  <1>1. Inv => OpenIsKnown
    BY DEF Inv
  <1> QED BY <1>1, InvCorrect, PTL

-----------------------------------------------------------------------------
(* What becomes of a queue when a message is put in and when one is taken.  *)
LEMMA AppendSome ==
    ASSUME NEW q \in Seq(Message), NEW m \in Message, NEW B, Some(q, B) \/ m \in B
    PROVE  Some(Append(q, m), B)
  <1>1. CASE Some(q, B)
    BY <1>1 DEF Some
  <1>2. CASE m \in B
    <2>1. Len(q) + 1 \in DOMAIN Append(q, m) /\ Append(q, m)[Len(q) + 1] = m
      OBVIOUS
    <2> QED BY <1>2, <2>1 DEF Some
  <1> QED BY <1>1, <1>2

(* A message put in is the last: it follows all, or needs to be followed.   *)
LEMMA AppendFollowed ==
    ASSUME NEW q \in Seq(Message), NEW m \in Message, NEW A, NEW B,
           m \notin A, EachFollowed(q, A, B) \/ m \in B
    PROVE  EachFollowed(Append(q, m), A, B)
  <1> SUFFICES ASSUME NEW i \in DOMAIN Append(q, m), Append(q, m)[i] \in A
               PROVE  \E j \in DOMAIN Append(q, m) : j > i /\ Append(q, m)[j] \in B
    BY DEF EachFollowed
  <1>1. i \in DOMAIN q /\ q[i] \in A
    OBVIOUS
  <1>2. CASE m \in B
    <2>1. Len(q) + 1 \in DOMAIN Append(q, m) /\ Append(q, m)[Len(q) + 1] = m /\ Len(q) + 1 > i
      BY <1>1
    <2> QED BY <1>2, <2>1
  <1>3. CASE EachFollowed(q, A, B)
    <2>1. PICK j \in DOMAIN q : j > i /\ q[j] \in B
      BY <1>1, <1>3 DEF EachFollowed
    <2>2. j \in DOMAIN Append(q, m) /\ Append(q, m)[j] = q[j]
      BY <2>1
    <2> QED BY <2>1, <2>2
  <1> QED BY <1>2, <1>3

(* What is left of a queue is what it was, one place further on.            *)
LEMMA TailPlaces ==
    ASSUME NEW q \in Seq(Message), q # <<>>
    PROVE  /\ \A i \in DOMAIN Tail(q) : i \in Nat /\ i + 1 \in DOMAIN q /\ Tail(q)[i] = q[i + 1]
           /\ \A j \in DOMAIN q : j > 1 => j - 1 \in DOMAIN Tail(q) /\ Tail(q)[j - 1] = q[j]
           /\ \A j \in DOMAIN q : j \in Nat /\ j >= 1
           /\ 1 \in DOMAIN q /\ Head(q) = q[1]
  OBVIOUS

(* A message that is not taken is still there.                              *)
LEMMA TailSome ==
    ASSUME NEW q \in Seq(Message), q # <<>>, NEW B, Some(q, B), Head(q) \notin B
    PROVE  Some(Tail(q), B)
  <1>1. PICK i \in DOMAIN q : q[i] \in B
    BY DEF Some
  <1>2. i > 1
    BY <1>1, TailPlaces
  <1>3. i - 1 \in DOMAIN Tail(q) /\ Tail(q)[i - 1] \in B
    BY <1>1, <1>2, TailPlaces
  <1> QED BY <1>3 DEF Some

(* Who was followed still is; who is taken has the follower left.           *)
LEMMA TailFollowed ==
    ASSUME NEW q \in Seq(Message), q # <<>>, NEW A, NEW B, EachFollowed(q, A, B)
    PROVE  EachFollowed(Tail(q), A, B) /\ (Head(q) \in A => Some(Tail(q), B))
  <1>1. ASSUME NEW i \in DOMAIN Tail(q), Tail(q)[i] \in A
        PROVE  \E j \in DOMAIN Tail(q) : j > i /\ Tail(q)[j] \in B
    <2>1. i \in Nat /\ i + 1 \in DOMAIN q /\ q[i + 1] \in A
      BY <1>1, TailPlaces
    <2>2. PICK j \in DOMAIN q : j > i + 1 /\ q[j] \in B
      BY <2>1 DEF EachFollowed
    <2>3. j \in Nat /\ j > 1
      BY <2>1, <2>2, TailPlaces
    <2>4. j - 1 \in DOMAIN Tail(q) /\ Tail(q)[j - 1] \in B /\ j - 1 > i
      BY <2>1, <2>2, <2>3, TailPlaces
    <2> QED BY <2>4
  <1>2. ASSUME Head(q) \in A
        PROVE  Some(Tail(q), B)
    <2>1. PICK j \in DOMAIN q : j > 1 /\ q[j] \in B
      BY <1>2, TailPlaces DEF EachFollowed
    <2>2. j - 1 \in DOMAIN Tail(q) /\ Tail(q)[j - 1] \in B
      BY <2>1, TailPlaces
    <2> QED BY <2>2 DEF Some
  <1> QED BY <1>1, <1>2 DEF EachFollowed

-----------------------------------------------------------------------------
(* A fresh ingester has everything to come.                                 *)
LEMMA FreshSettles ==
    ASSUME NEW a, msg_q' = <<>>, worker' = Idle, online' = {}, open' = {}
    PROVE  Settling(a)'
  BY DEF Settling, SettlesUp, SettlesDown, EachFollowed, Some, Dying, BeingBorn, Idle

(* Clients: what they do is the last word in the queue.                     *)
LEMMA ClientSettles ==
    ASSUME RebirthTypeOK, connected, NEW a \in Address, NEW b \in Address, Settling(b),
           ClientBirth(a) \/ ClientDeath(a) \/ ClientData(a)
    PROVE  Settling(b)'
  <1> DEFINE m(type) == [type |-> type, addr |-> a]
  <1>1. /\ worker' = worker /\ online' = online /\ open' = open
        /\ Dying(b)' = Dying(b) /\ BeingBorn(b)' = BeingBorn(b)
    BY DEF ClientBirth, ClientDeath, ClientData, Dying, BeingBorn, table
  <1>2. msg_q \in Seq(Message)
    BY DEF RebirthTypeOK
  <1>3. CASE ClientBirth(a)
    <2>1. msg_q' = Append(msg_q, m("BIRTH")) /\ m("BIRTH") \in Message /\ up' = up \cup {a}
      BY <1>3 DEF ClientBirth, Send, Message
    <2>2. m("BIRTH") \notin Deaths(b) /\ (m("BIRTH") \in Births(b) <=> a = b)
      BY <2>1 DEF Deaths, Births
    <2> HIDE DEF m
    <2>3. CASE b \in up \/ a = b
      <3>1. EachFollowed(msg_q, Deaths(b), Births(b)) \/ m("BIRTH") \in Births(b)
        BY <2>2, <2>3 DEF Settling, SettlesUp
      <3>2. EachFollowed(msg_q', Deaths(b), Births(b))
        BY <1>2, <2>1, <2>2, <3>1, AppendFollowed
      <3>3. Dying(b) \/ (b \in online \ open /\ ~BeingBorn(b)) => Some(msg_q', Births(b))
        BY <1>2, <2>1, <2>2, <2>3, AppendSome DEF Settling, SettlesUp
      <3> QED BY <1>1, <2>1, <2>3, <3>2, <3>3 DEF Settling, SettlesUp, Births, Deaths
    <2>4. CASE b \notin up /\ a # b
      <3>1. EachFollowed(msg_q', Births(b), Deaths(b))
        BY <1>2, <2>1, <2>2, <2>4, AppendFollowed DEF Settling, SettlesDown
      <3>2. b \in open \/ BeingBorn(b) => Some(msg_q', Deaths(b)) \/ Dying(b)
        BY <1>2, <2>1, <2>4, AppendSome DEF Settling, SettlesDown
      <3> QED BY <1>1, <2>1, <2>4, <3>1, <3>2 DEF Settling, SettlesDown, Births, Deaths
    <2> QED BY <2>3, <2>4
  <1>4. CASE ClientDeath(a)
    <2>1. msg_q' = Append(msg_q, m("DEATH")) /\ m("DEATH") \in Message /\ up' = up \ Carries(a)
      BY <1>4 DEF ClientDeath, Send, Message
    <2>2. m("DEATH") \notin Births(b) /\ (m("DEATH") \in Deaths(b) <=> b \in Carries(a))
      BY <2>1 DEF Deaths, Births
    <2> HIDE DEF m
    <2>3. CASE b \notin up \/ b \in Carries(a)
      <3>1. EachFollowed(msg_q, Births(b), Deaths(b)) \/ m("DEATH") \in Deaths(b)
        BY <2>2, <2>3 DEF Settling, SettlesDown
      <3>2. EachFollowed(msg_q', Births(b), Deaths(b))
        BY <1>2, <2>1, <2>2, <3>1, AppendFollowed
      <3>3. b \in open \/ BeingBorn(b) => Some(msg_q', Deaths(b)) \/ Dying(b)
        BY <1>2, <2>1, <2>2, <2>3, AppendSome DEF Settling, SettlesDown
      <3> QED BY <1>1, <2>1, <2>3, <3>2, <3>3 DEF Settling, SettlesDown, Births, Deaths
    <2>4. CASE b \in up /\ b \notin Carries(a)
      <3>1. EachFollowed(msg_q', Deaths(b), Births(b))
        BY <1>2, <2>1, <2>2, <2>4, AppendFollowed DEF Settling, SettlesUp
      <3>2. Dying(b) \/ (b \in online \ open /\ ~BeingBorn(b)) => Some(msg_q', Births(b))
        BY <1>2, <2>1, <2>4, AppendSome DEF Settling, SettlesUp
      <3> QED BY <1>1, <2>1, <2>4, <3>1, <3>2 DEF Settling, SettlesUp, Births, Deaths
    <2> QED BY <2>3, <2>4
  <1>5. CASE ClientData(a)
    <2>1. msg_q' = Append(msg_q, m("DATA")) /\ m("DATA") \in Message /\ up' = up
      BY <1>5 DEF ClientData, Send, Message, clients
    <2>2. m("DATA") \notin Births(b) /\ m("DATA") \notin Deaths(b)
      BY <2>1 DEF Deaths, Births
    <2> HIDE DEF m
    <2>3. CASE b \in up
      <3>1. EachFollowed(msg_q', Deaths(b), Births(b))
        BY <1>2, <2>1, <2>2, <2>3, AppendFollowed DEF Settling, SettlesUp
      <3>2. Dying(b) \/ (b \in online \ open /\ ~BeingBorn(b)) => Some(msg_q', Births(b))
        BY <1>2, <2>1, <2>3, AppendSome DEF Settling, SettlesUp
      <3> QED BY <1>1, <2>1, <2>3, <3>1, <3>2 DEF Settling, SettlesUp, Births, Deaths
    <2>4. CASE b \notin up
      <3>1. EachFollowed(msg_q', Births(b), Deaths(b))
        BY <1>2, <2>1, <2>2, <2>4, AppendFollowed DEF Settling, SettlesDown
      <3>2. b \in open \/ BeingBorn(b) => Some(msg_q', Deaths(b)) \/ Dying(b)
        BY <1>2, <2>1, <2>4, AppendSome DEF Settling, SettlesDown
      <3> QED BY <1>1, <2>1, <2>4, <3>1, <3>2 DEF Settling, SettlesDown, Births, Deaths
    <2> QED BY <2>3, <2>4
  <1> QED BY <1>3, <1>4, <1>5

(* The worker takes the head of the queue, whatever comes of it.            *)
LEMMA TakeSettles ==
    ASSUME RebirthTypeOK, NEW a \in Address, NEW b \in Address, Settling(b),
           OnBirth(a) \/ OnDeath(a) \/ OnData(a)
    PROVE  Settling(b)'
  <1>1. /\ msg_q \in Seq(Message) /\ msg_q # <<>> /\ msg_q' = Tail(msg_q)
        /\ ~Dying(b) /\ ~BeingBorn(b) /\ up' = up /\ open' = open
    BY DEF OnBirth, OnDeath, OnData, Take, RebirthTypeOK, Dying, BeingBorn, Idle, clients, table
  <1>2. /\ Births(b)' = Births(b) /\ Deaths(b)' = Deaths(b)
    BY DEF Births, Deaths
  <1>3. CASE OnBirth(a)
    <2>1. Head(msg_q) = [type |-> "BIRTH", addr |-> a] /\ Head(msg_q) \in Message
      BY <1>3 DEF OnBirth, Take, Message
    <2>2. Head(msg_q) \notin Deaths(b) /\ (Head(msg_q) \in Births(b) <=> a = b)
      BY <2>1 DEF Births, Deaths
    <2>3. /\ ~Dying(b)' /\ (BeingBorn(b)' <=> a = b)
          /\ online' = online \cup {a}
      BY <1>3 DEF OnBirth, Dying, BeingBorn, Awaiting, Key
    <2>4. CASE b \in up
      BY <1>1, <1>2, <2>2, <2>3, <2>4, TailSome, TailFollowed DEF Settling, SettlesUp
    <2>5. CASE b \notin up
      BY <1>1, <1>2, <2>2, <2>3, <2>5, TailSome, TailFollowed DEF Settling, SettlesDown
    <2> QED BY <2>4, <2>5
  <1>4. CASE OnDeath(a)
    <2>1. Head(msg_q) = [type |-> "DEATH", addr |-> a] /\ Head(msg_q) \in Message
      BY <1>4 DEF OnDeath, Take, Message
    <2>2. Head(msg_q) \notin Births(b) /\ (Head(msg_q) \in Deaths(b) <=> b \in Carries(a))
      BY <2>1 DEF Births, Deaths
    <2>3. /\ Dying(b)' <=> b \in Carries(a)
          /\ ~BeingBorn(b)' /\ online' = online \ {a}
      BY <1>4 DEF OnDeath, Dying, BeingBorn, Awaiting, Key, Carries
    <2>4. CASE b \in up
      BY <1>1, <1>2, <2>2, <2>3, <2>4, TailSome, TailFollowed DEF Settling, SettlesUp
    <2>5. CASE b \notin up
      BY <1>1, <1>2, <2>2, <2>3, <2>5, TailSome, TailFollowed DEF Settling, SettlesDown
    <2> QED BY <2>4, <2>5
  <1>5. CASE OnData(a)
    <2>1. Head(msg_q) = [type |-> "DATA", addr |-> a]
      BY <1>5 DEF OnData, Take
    <2>2. Head(msg_q) \notin Births(b) /\ Head(msg_q) \notin Deaths(b)
      BY <2>1 DEF Births, Deaths
    <2>3. ~Dying(b)' /\ ~BeingBorn(b)' /\ online' = online
      BY <1>1, <1>5 DEF OnData, Dying, BeingBorn, Awaiting
    <2>4. CASE b \in up
      BY <1>1, <1>2, <2>2, <2>3, <2>4, TailSome, TailFollowed DEF Settling, SettlesUp
    <2>5. CASE b \notin up
      BY <1>1, <1>2, <2>2, <2>3, <2>5, TailSome, TailFollowed DEF Settling, SettlesDown
    <2> QED BY <2>4, <2>5
  <1> QED BY <1>3, <1>4, <1>5

(* The worker finishes what it has taken.                                   *)
LEMMA SettleSettles ==
    ASSUME NEW b \in Address, Settling(b),
           BirthCommits \/ DeathCommits \/ WaitEnds \/ Escalate \/ EscalateFails
    PROVE  Settling(b)'
  <1>1. /\ msg_q' = msg_q /\ up' = up /\ online' = online
        /\ ~Dying(b)' /\ ~BeingBorn(b)'
    BY DEF BirthCommits, DeathCommits, WaitEnds, Escalate, EscalateFails,
           Dying, BeingBorn, Awaiting, Idle, clients
  <1>2. Births(b)' = Births(b) /\ Deaths(b)' = Deaths(b)
    BY DEF Births, Deaths
  <1>3. \/ open' = open /\ ~Dying(b) /\ ~BeingBorn(b)
        \/ BeingBorn(b) /\ ~Dying(b) /\ open' = open \cup {b}
        \/ ~BeingBorn(b) /\ ~Dying(b) /\ (b \in open' <=> b \in open)
        \/ Dying(b) /\ b \notin open'
    BY DEF BirthCommits, DeathCommits, WaitEnds, Escalate, EscalateFails,
           Dying, BeingBorn, Closed, table
  <1>4. CASE b \in up
    BY <1>1, <1>2, <1>3, <1>4 DEF Settling, SettlesUp
  <1>5. CASE b \notin up
    BY <1>1, <1>2, <1>3, <1>5 DEF Settling, SettlesDown
  <1> QED BY <1>4, <1>5

(* Every step keeps the index on its way to the truth.                      *)
LEMMA IndexNext == ASSUME RebirthTypeOK, IndexInv, [Next]_vars PROVE IndexInv'
  <1> SUFFICES ASSUME faults' = {}
               PROVE  /\ closing' => ~connected'
                      /\ ~connected' => Fresh'
                      /\ ~closing' => \A b \in Address : Settling(b)'
    BY DEF IndexInv
  <1>1. faults = {}
    BY DEF Next, vars
  <1>2. /\ closing => ~connected
        /\ ~connected => Fresh
        /\ ~closing => \A b \in Address : Settling(b)
    BY <1>1 DEF IndexInv
  <1>3. CASE \E a \in Address : ClientBirth(a) \/ ClientDeath(a) \/ ClientData(a)
    <2>1. PICK a \in Address : ClientBirth(a) \/ ClientDeath(a) \/ ClientData(a)
      BY <1>3
    <2>2. /\ connected' = connected /\ closing' = closing /\ worker' = worker
          /\ online' = online /\ open' = open
          /\ ~connected => msg_q' = msg_q
      BY <2>1 DEF ClientBirth, ClientDeath, ClientData, Send, table
    <2>3. CASE connected
      BY <1>2, <2>1, <2>2, <2>3, ClientSettles
    <2>4. CASE ~connected
      BY <1>2, <2>2, <2>4, FreshSettles DEF Fresh
    <2> QED BY <2>3, <2>4
  <1>4. CASE CloseAll
    BY <1>2, <1>4, FreshSettles DEF CloseAll, AllClosed, Fresh
  <1>5. CASE Connect
    <2>1. ~closing /\ ~connected
      BY <1>1, <1>5 DEF Connect
    <2> QED BY <1>2, <1>5, <2>1, FreshSettles DEF Connect, Fresh, table
  <1>6. CASE Crash
    BY <1>6 DEF Crash, Fresh
  <1>7. CASE Worker
    <2>1. connected /\ ~closing
      BY <1>2, <1>7 DEF Worker, Fresh, OnBirth, OnDeath, OnData, Take, BirthCommits, BirthFails,
                  DeathCommits, DeathFails, WaitEnds, Escalate, EscalateFails, Idle
    <2>2. connected' = connected /\ closing' = closing
      <3>1. CASE \E a \in Address : OnBirth(a) \/ OnDeath(a) \/ OnData(a)
        BY <3>1 DEF OnBirth, OnDeath, OnData
      <3>2. CASE BirthCommits \/ BirthFails \/ DeathCommits \/ DeathFails
        BY <3>2 DEF BirthCommits, BirthFails, DeathCommits, DeathFails
      <3>3. CASE WaitEnds \/ Escalate \/ EscalateFails
        BY <3>3 DEF WaitEnds, Escalate, EscalateFails
      <3> QED BY <1>7, <3>1, <3>2, <3>3 DEF Worker
    <2>3. ~BirthFails /\ ~DeathFails
      BY <1>1 DEF BirthFails, DeathFails
    <2> QED BY <1>2, <1>7, <2>1, <2>2, <2>3, TakeSettles, SettleSettles DEF Worker
  <1>8. CASE UNCHANGED vars \/ \E a \in Address : SentExpires(a)
    <2>1. UNCHANGED <<up, connected, msg_q, worker, online, closing, open>>
      BY <1>8 DEF vars, moving, SentExpires, clients, table
    <2>2. Fresh' = Fresh
      BY <2>1 DEF Fresh
    <2>3. \A b \in Address : Settling(b) => Settling(b)'
      <3> SUFFICES ASSUME NEW b \in Address, Settling(b) PROVE Settling(b)'
        OBVIOUS
      <3>1. Births(b)' = Births(b) /\ Deaths(b)' = Deaths(b)
        BY DEF Births, Deaths
      <3>2. (Dying(b)' <=> Dying(b)) /\ (BeingBorn(b)' <=> BeingBorn(b))
        BY <2>1 DEF Dying, BeingBorn
      <3>3. CASE b \in up
        BY <2>1, <3>1, <3>2, <3>3 DEF Settling, SettlesUp
      <3>4. CASE b \notin up
        BY <2>1, <3>1, <3>2, <3>4 DEF Settling, SettlesDown
      <3> QED BY <3>3, <3>4
    <2> QED BY <1>2, <2>1, <2>2, <2>3
  <1>9. ~Disconnect
    BY <1>1 DEF Disconnect
  <1> QED BY <1>3, <1>4, <1>5, <1>6, <1>7, <1>8, <1>9 DEF Next

(* Where births can be indexed and MQTT stays connected, what is shown      *)
(* online is up once the ingester has caught up, and what it remembers of   *)
(* what is up is indexed.                                                   *)
THEOREM IndexTrueCorrect == Spec => []IndexTrue
  <1>1. Init => IndexInv
    BY DEF Init, IndexInv, Fresh
  <1>2. RebirthTypeOK /\ IndexInv /\ [Next]_vars => IndexInv'
    BY IndexNext
  <1>3. RebirthTypeOK /\ IndexInv => IndexTrue
    <2> SUFFICES ASSUME RebirthTypeOK, IndexInv, faults = {}, Quiet, NEW a \in Address
                 PROVE  (a \in open => a \in up) /\ (a \in online \cap up => a \in open)
      BY DEF IndexTrue, RebirthTypeOK
    <2>1. Settling(a)
      BY DEF IndexInv, Quiet
    <2>2. ~Dying(a) /\ ~BeingBorn(a)
      BY DEF Quiet, Dying, BeingBorn, Idle
    <2>3. ~Some(msg_q, Births(a)) /\ ~Some(msg_q, Deaths(a))
      BY DEF Some, Quiet
    <2> QED BY <2>1, <2>2, <2>3 DEF Settling, SettlesUp, SettlesDown
  <1> QED BY <1>1, <1>2, <1>3, TypeCorrect, PTL DEF Spec

-----------------------------------------------------------------------------

(* No two live devices declare the same alert.                              *)
Exclusive ==
    \A d, e \in alive :
        d # e => Declares(binding[d]) \cap Declares(binding[e]) = {}

(* The map of a tracked device knows all the alerts of its last BIRTH.      *)
MapFollows ==
    \A d \in Device : Tracked(d) => \A x \in Alias :
        binding[d][x] # NoAlert =>
            x \in DOMAIN alerts[d] /\ alerts[d][x] = binding[d][x]

AlertsInv == AlertsTypeOK /\ VisibleIsDeclared

TrackInv == Exclusive /\ MapFollows /\ AlertTracksDevice

-----------------------------------------------------------------------------
(* What a BIRTH, a DATA message and a crash leave in flight are bags.       *)
LEMMA BagsTyped ==
    ASSUME NEW B, IsABag(B), BagToSet(B) \subseteq Update,
           NEW S \in SUBSET Update
    PROVE  /\ IsABag(B (+) SetToBag(S)) /\ BagToSet(B (+) SetToBag(S)) \subseteq Update
           /\ IsABag(B (-) SetToBag(S)) /\ BagToSet(B (-) SetToBag(S)) \subseteq Update
           /\ IsABag(EmptyBag) /\ BagToSet(EmptyBag) = {}
  <1> DEFINE P == B (+) SetToBag(S)
             M == B (-) SetToBag(S)
  <1>1. /\ DOMAIN P = DOMAIN B \cup S
        /\ \A e \in DOMAIN P : P[e] = (IF e \in DOMAIN B THEN B[e] ELSE 0)
                                        + (IF e \in S THEN 1 ELSE 0)
        /\ P = [e \in DOMAIN P |-> P[e]]
    BY DEF SetToBag, (+)
  <1>2. DOMAIN M \subseteq DOMAIN B /\ M = [e \in DOMAIN M |-> M[e]]
        /\ \A e \in DOMAIN M : M[e] \in Nat /\ M[e] > 0
    BY DEF SetToBag, (-), IsABag
  <1>3. IsABag(P)
    BY <1>1 DEF IsABag
  <1>4. IsABag(M)
    BY <1>2 DEF IsABag
  <1>5. IsABag(EmptyBag) /\ BagToSet(EmptyBag) = {}
    BY DEF EmptyBag, SetToBag, IsABag, BagToSet
  <1> QED BY <1>1, <1>2, <1>3, <1>4, <1>5 DEF BagToSet

(* The map of an address stays a map of aliases to alerts.                  *)
LEMMA LearntTyped ==
    ASSUME AlertsTypeOK, NEW d \in Device, NEW b \in Binding
    PROVE  Learnt(d, b) \in AliasMap
  <1> DEFINE old == IF d \in DOMAIN alerts THEN alerts[d] ELSE [x \in {} |-> NoAlert]
             new == {x \in Alias : b[x] # NoAlert}
  <1>1. PICK A \in SUBSET Alias : old \in [A -> Alert]
    <2>1. CASE d \in DOMAIN alerts
      BY <2>1 DEF AlertsTypeOK, AliasMap
    <2>2. CASE d \notin DOMAIN alerts
      <3>1. old \in [{} -> Alert]
        BY <2>2
      <3> QED BY <3>1
    <2> QED BY <2>1, <2>2
  <1>2. Learnt(d, b) \in [A \cup new -> Alert]
    BY <1>1 DEF Learnt, Binding
  <1> QED BY <1>2 DEF AliasMap

(* Nothing runs at first, and every step keeps the types.                   *)
LEMMA AlertsInitTyped == AlertsInit => AlertsTypeOK
  <1> SUFFICES ASSUME AlertsInit PROVE AlertsTypeOK
    OBVIOUS
  <1>1. IsABag(updates) /\ BagToSet(updates) \subseteq Update
    BY DEF AlertsInit, EmptyBag, SetToBag, IsABag, BagToSet
  <1> QED BY <1>1 DEF AlertsInit, AlertsTypeOK, Binding, AliasMap

(* A BIRTH, whether it is indexed or not.                                   *)
LEMMA BirthTyped ==
    ASSUME AlertsTypeOK, NEW d \in Device, NEW b \in Binding, NEW v \in SUBSET Alert,
           Birth(d, b, v) \/ BirthUnindexed(d, b, v) \/ BirthMalformed(d, b, v)
    PROVE  AlertsTypeOK'
  <1>1. Declare(d, b, v)
    BY DEF Birth, BirthUnindexed, BirthMalformed
  <1>2. /\ alive' \subseteq Device /\ binding' \in [Device -> Binding] /\ value' \subseteq Alert
        /\ updates' = updates /\ unindexed' \subseteq Device /\ mixed' \subseteq Alert
    <2>1. Declares(b) \subseteq Alert
      BY DEF Declares, Binding
    <2> QED BY <1>1, <2>1 DEF AlertsTypeOK, Declare, Birth, BirthUnindexed, BirthMalformed
  <1>3. DOMAIN alerts' \subseteq Device /\ \A e \in DOMAIN alerts' : alerts'[e] \in AliasMap
    BY LearntTyped DEF AlertsTypeOK, RecordMetrics, Birth, BirthUnindexed, BirthMalformed
  <1>4. DOMAIN alert' \subseteq Alert /\ \A u \in DOMAIN alert' : alert'[u] \in Row
    <2>1. Declares(b) \subseteq Alert
      BY DEF Declares, Binding
    <2>2. CASE Birth(d, b, v)
      <3>1. DOMAIN alert' \subseteq Alert
        BY <2>1, <2>2 DEF AlertsTypeOK, Birth, Recorded
      <3>2. ASSUME NEW u \in DOMAIN alert', u \in Declares(b)
            PROVE  alert'[u] \in Row
        <4>1. PICK active \in BOOLEAN, stale \in BOOLEAN :
                  alert'[u] = [device |-> d, active |-> active, stale |-> stale]
          <5>1. (u \in v) \in BOOLEAN
            OBVIOUS
          <5>2. (u \in DOMAIN alert /\ alert[u].stale) \in BOOLEAN
            OBVIOUS
          <5>3. alert'[u] = [device |-> d, active |-> u \in v,
                             stale |-> u \in DOMAIN alert /\ alert[u].stale]
            BY <2>2, <3>2 DEF Birth, Recorded
          <5> QED BY <5>1, <5>2, <5>3, Zenon
        <4> QED BY <4>1 DEF Row
      <3>3. ASSUME NEW u \in DOMAIN alert', u \notin Declares(b)
            PROVE  alert'[u] \in Row
        <4>1. alert[u] \in Row
          BY <2>2, <3>3 DEF AlertsTypeOK, Birth, Recorded
        <4>2. PICK stale \in BOOLEAN : alert'[u] = [alert[u] EXCEPT !.stale = stale]
          <5>1. (alert[u].stale \/ alert[u].device = d) \in BOOLEAN
            BY Zenon
          <5>2. alert'[u] = [alert[u] EXCEPT !.stale = @ \/ alert[u].device = d]
            BY <2>2, <3>3 DEF Birth, Recorded
          <5> QED BY <5>1, <5>2, Zenon
        <4> QED BY <4>1, <4>2 DEF Row
      <3> QED BY <3>1, <3>2, <3>3
    <2>3. CASE BirthUnindexed(d, b, v) \/ BirthMalformed(d, b, v)
      BY <2>3 DEF AlertsTypeOK, BirthUnindexed, BirthMalformed
    <2> QED BY <2>2, <2>3
  <1> QED BY <1>2, <1>3, <1>4 DEF AlertsTypeOK

(* What the map has for an alias is one alert, if any.                      *)
LEMMA KnownOne ==
    ASSUME AlertsTypeOK, NEW d \in Device, NEW x \in Alias
    PROVE  /\ Known(d, x) \subseteq Alert
           /\ d \in DOMAIN alerts /\ x \in DOMAIN alerts[d] => Known(d, x) = {alerts[d][x]}
           /\ \A u, w \in Known(d, x) : u = w
  BY DEF Known, AlertsTypeOK, AliasMap

(* A DATA message adds to what is due for that alert, and to nothing else.  *)
LEMMA DataDue ==
    ASSUME AlertsTypeOK, NEW d \in Device, NEW x \in Alias, NEW active \in BOOLEAN,
           Data(d, x, active)
    PROVE  /\ [alert: Known(d, x), active: {active}] \in SUBSET Update
           /\ \A u : Due(u)' = Due(u) \cup {[alert |-> w, active |-> active] :
                                              w \in Known(d, x) \cap {u}}
  <1> DEFINE S == [alert: Known(d, x), active: {active}]
  <1>1. S \in SUBSET Update
    BY KnownOne DEF Update
  <1>2. BagToSet(updates') = BagToSet(updates) \cup S
    BY DEF Data, (+), SetToBag, BagToSet
  <1>3. ASSUME NEW u
        PROVE  Due(u)' = Due(u) \cup {[alert |-> w, active |-> active] :
                                        w \in Known(d, x) \cap {u}}
    BY <1>2 DEF Due
  <1> QED BY <1>1, <1>3

(* The steps after which only the updates need to be looked at.             *)
LEMMA UpdatesTyped ==
    ASSUME AlertsTypeOK,
           \/ \E d \in Device, x \in Alias, active \in BOOLEAN : Data(d, x, active)
           \/ \E upd \in BagToSet(updates) : ApplyUpdate(upd)
           \/ IngesterDies
    PROVE  AlertsTypeOK'
  <1>1. ASSUME NEW d \in Device, NEW x \in Alias, NEW active \in BOOLEAN, Data(d, x, active)
        PROVE  AlertsTypeOK'
    <2>1. PICK S \in SUBSET Update : updates' = updates (+) SetToBag(S)
      BY <1>1, DataDue DEF Data
    <2>2. IsABag(updates') /\ BagToSet(updates') \subseteq Update
      BY <2>1, BagsTyped DEF AlertsTypeOK
    <2>3. value' \subseteq Alert /\ mixed' \subseteq Alert
      <3>1. binding[d][x] \in Alert \cup {NoAlert}
        BY DEF AlertsTypeOK, Binding
      <3> QED BY <1>1, <3>1, KnownOne DEF Data, AlertsTypeOK
    <2> QED BY <1>1, <2>2, <2>3 DEF AlertsTypeOK, Data
  <1>2. ASSUME NEW upd \in BagToSet(updates), ApplyUpdate(upd)
        PROVE  AlertsTypeOK'
    <2>1. upd \in Update
      BY DEF AlertsTypeOK
    <2>2. updates' = updates (-) SetToBag({upd}) /\ {upd} \in SUBSET Update
      BY <1>2, <2>1 DEF ApplyUpdate
    <2>3. IsABag(updates') /\ BagToSet(updates') \subseteq Update
      BY <2>2, BagsTyped DEF AlertsTypeOK
    <2>4. DOMAIN alert' \subseteq Alert /\ \A u \in DOMAIN alert' : alert'[u] \in Row
      BY <1>2, <2>1 DEF ApplyUpdate, AlertsTypeOK, Row, Update
    <2> QED BY <1>2, <2>3, <2>4 DEF AlertsTypeOK, ApplyUpdate, devices
  <1>3. ASSUME IngesterDies
        PROVE  AlertsTypeOK'
    <2>1. IsABag(updates') /\ BagToSet(updates') \subseteq Update
      BY <1>3 DEF IngesterDies, EmptyBag, SetToBag, IsABag, BagToSet
    <2> QED BY <1>3, <2>1 DEF AlertsTypeOK, IngesterDies, devices
  <1> QED BY <1>1, <1>2, <1>3

(* So does every step, and stuttering.                                      *)
LEMMA AlertsNextTyped == ASSUME AlertsTypeOK, [AlertsNext]_alertvars PROVE AlertsTypeOK'
  <1>1. ASSUME NEW d \in Device, Death(d)
        PROVE  AlertsTypeOK'
    BY <1>1 DEF Death, AlertsTypeOK
  <1>2. CASE UNCHANGED alertvars
    BY <1>2 DEF alertvars, AlertsTypeOK
  <1> QED BY <1>1, <1>2, BirthTyped, UpdatesTyped DEF AlertsNext

-----------------------------------------------------------------------------
(* A row that a BIRTH leaves shown is one it declares, or another device's. *)
LEMMA RecordedRows ==
    ASSUME AlertsTypeOK, NEW d \in Device, NEW b \in Binding, NEW v \in SUBSET Alert,
           Birth(d, b, v), NEW u \in Visible'
    PROVE  \/ u \in Declares(b) /\ alert'[u].device = d /\ (alert'[u].active <=> u \in v)
           \/ /\ u \notin Declares(b) /\ u \in Visible
              /\ alert'[u].device = alert[u].device /\ alert[u].device # d
              /\ alert'[u].active = alert[u].active
  <1>1. alert' = Recorded(d, b, v) /\ u \in DOMAIN alert' /\ ~alert'[u].stale
    BY DEF Birth, Visible
  <1>2. CASE u \in Declares(b)
    BY <1>1, <1>2 DEF Recorded
  <1>3. CASE u \notin Declares(b)
    BY <1>1, <1>3 DEF Recorded, Visible, AlertsTypeOK, Row
  <1> QED BY <1>2, <1>3

(* Every step keeps shown alerts declared: an update, however late, changes *)
(* no stale mark.                                                           *)
LEMMA VisibleKept == ASSUME AlertsInv, [AlertsNext]_alertvars PROVE VisibleIsDeclared'
  <1> USE DEF AlertsInv
  <1>1. ASSUME NEW d \in Device, NEW b \in Binding, NEW v \in SUBSET Alert, Birth(d, b, v)
        PROVE  VisibleIsDeclared'
    <2> SUFFICES ASSUME NEW u \in Visible', alert'[u].device \notin unindexed'
                 PROVE  u \in Declares(binding'[alert'[u].device])
      BY DEF VisibleIsDeclared, Declares
    <2>1. binding' = [binding EXCEPT ![d] = b] /\ unindexed' = unindexed \ {d}
      BY <1>1 DEF Birth, Declare
    <2>2. CASE u \in Declares(b) /\ alert'[u].device = d
      BY <2>1, <2>2 DEF AlertsTypeOK
    <2>3. CASE u \in Visible /\ alert'[u].device = alert[u].device /\ alert[u].device # d
      <3>1. alert[u].device \in Device
        BY <2>3 DEF AlertsTypeOK, Visible, Row
      <3> QED BY <2>1, <2>3, <3>1 DEF VisibleIsDeclared, AlertsTypeOK
    <2> QED BY <1>1, <2>2, <2>3, RecordedRows
  <1>2. ASSUME NEW d \in Device, NEW b \in Binding, NEW v \in SUBSET Alert,
               BirthUnindexed(d, b, v) \/ BirthMalformed(d, b, v)
        PROVE  VisibleIsDeclared'
    <2> SUFFICES ASSUME NEW u \in Visible', alert'[u].device \notin unindexed'
                 PROVE  u \in Declares(binding'[alert'[u].device])
      BY DEF VisibleIsDeclared, Declares
    <2>1. /\ binding' = [binding EXCEPT ![d] = b] /\ unindexed' = unindexed \cup {d}
          /\ alert' = alert /\ u \in Visible
      BY <1>2 DEF BirthUnindexed, BirthMalformed, Declare, Visible
    <2>2. alert[u].device \in Device
      BY <2>1 DEF AlertsTypeOK, Visible, Row
    <2> QED BY <2>1, <2>2 DEF VisibleIsDeclared, AlertsTypeOK
  <1>3. ASSUME NEW upd \in BagToSet(updates), ApplyUpdate(upd)
        PROVE  VisibleIsDeclared'
    <2>1. /\ DOMAIN alert' = DOMAIN alert
          /\ \A u \in DOMAIN alert : /\ alert'[u].device = alert[u].device
                                     /\ alert'[u].stale = alert[u].stale
      BY <1>3 DEF ApplyUpdate, AlertsTypeOK, Row
    <2> QED BY <1>3, <2>1 DEF VisibleIsDeclared, Visible, ApplyUpdate, devices, Declares
  <1>4. CASE \/ \E d \in Device : \/ Death(d)
                                  \/ \E x \in Alias, active \in BOOLEAN : Data(d, x, active)
             \/ IngesterDies \/ UNCHANGED alertvars
    <2>1. alert' = alert /\ binding' = binding /\ unindexed' = unindexed
      BY <1>4 DEF Death, Data, IngesterDies, alertvars, devices
    <2> QED BY <2>1 DEF VisibleIsDeclared, Visible, Declares
  <1> QED BY <1>1, <1>2, <1>3, <1>4 DEF AlertsNext

(* At first nothing is shown.                                               *)
LEMMA AlertsInitInv == AlertsInit => AlertsInv
  BY AlertsInitTyped DEF AlertsInit, AlertsInv, VisibleIsDeclared, Visible

(* Every step keeps the invariant.                                          *)
LEMMA AlertsNextInv == ASSUME AlertsInv, [AlertsNext]_alertvars PROVE AlertsInv'
  BY AlertsNextTyped, VisibleKept DEF AlertsInv

(* AlertsInv holds in every state of every behaviour.                       *)
THEOREM AlertsInvCorrect == AlertsSpec => []AlertsInv
  <1>1. AlertsInv /\ [AlertsNext]_alertvars => AlertsInv'
    BY AlertsNextInv
  <1> QED BY <1>1, AlertsInitInv, PTL DEF AlertsSpec

(* No alert is shown that the last BIRTH of its device, if that was         *)
(* indexed, did not declare, whenever updates are applied.                  *)
THEOREM VisibleIsDeclaredCorrect == AlertsSpec => []VisibleIsDeclared
  <1>1. AlertsInv => VisibleIsDeclared
    BY DEF AlertsInv
  <1> QED BY <1>1, AlertsInvCorrect, PTL

-----------------------------------------------------------------------------
(* A BIRTH, indexed or not, keeps devices apart, and if it is indexed makes *)
(* its map complete.                                                        *)
LEMMA BirthMaps ==
    ASSUME AlertsTypeOK, Exclusive, MapFollows,
           NEW d \in Device, NEW b \in Binding, NEW v \in SUBSET Alert,
           Birth(d, b, v) \/ BirthUnindexed(d, b, v) \/ BirthMalformed(d, b, v)
    PROVE  /\ Exclusive' /\ MapFollows'
           /\ \A e \in Device : Tracked(e)' => (e = d /\ Birth(d, b, v)) \/ (e # d /\ Tracked(e))
  <1>1. /\ alive' = alive \cup {d} /\ binding' = [binding EXCEPT ![d] = b]
        /\ \A e \in alive \ {d} : Declares(b) \cap Declares(binding[e]) = {}
    BY DEF Birth, BirthUnindexed, BirthMalformed, Declare, Declarable
  <1>2. binding'[d] = b /\ \A e \in Device \ {d} : binding'[e] = binding[e]
    BY <1>1 DEF AlertsTypeOK
  <1>3. Exclusive'
    <2> SUFFICES ASSUME NEW f \in alive', NEW e \in alive', f # e
                 PROVE  Declares(binding'[f]) \cap Declares(binding'[e]) = {}
      BY DEF Exclusive, Declares
    <2> QED BY <1>1, <1>2 DEF Exclusive, AlertsTypeOK
  <1>4. ASSUME NEW e \in Device, Tracked(e)'
        PROVE  (e = d /\ Birth(d, b, v)) \/ (e # d /\ Tracked(e) /\ alerts'[e] = alerts[e])
    <2>1. CASE Birth(d, b, v)
      BY <1>1, <1>4, <2>1 DEF Tracked, Birth, RecordMetrics
    <2>2. CASE BirthUnindexed(d, b, v)
      BY <1>1, <1>4, <2>2 DEF Tracked, BirthUnindexed, RecordMetrics
    <2>3. CASE BirthMalformed(d, b, v)
      BY <1>1, <1>4, <2>3 DEF Tracked, BirthMalformed
    <2> QED BY <2>1, <2>2, <2>3
  <1>5. MapFollows'
    <2> SUFFICES ASSUME NEW e \in Device, Tracked(e)', NEW x \in Alias, binding'[e][x] # NoAlert
                 PROVE  x \in DOMAIN alerts'[e] /\ alerts'[e][x] = binding'[e][x]
      BY DEF MapFollows
    <2>1. CASE e = d
      <3>1. alerts'[d] = Learnt(d, b)
        BY <1>4, <2>1 DEF Birth, RecordMetrics
      <3> QED BY <1>2, <2>1, <3>1 DEF Learnt
    <2>2. CASE e # d
      BY <1>2, <1>4, <2>2 DEF MapFollows
    <2> QED BY <2>1, <2>2
  <1> QED BY <1>3, <1>4, <1>5

(* A BIRTH settles the alerts for which no update is in flight, and leaves  *)
(* those of the other tracked devices alone.                                *)
LEMMA BirthShows ==
    ASSUME AlertsInv, TrackInv,
           NEW d \in Device, NEW b \in Binding, NEW v \in SUBSET Alert,
           Birth(d, b, v) \/ BirthUnindexed(d, b, v) \/ BirthMalformed(d, b, v)
    PROVE  AlertTracksDevice'
  <1>0. AlertsTypeOK /\ VisibleIsDeclared /\ Exclusive /\ MapFollows /\ AlertTracksDevice
    BY DEF AlertsInv, TrackInv
  <1>1. /\ updates' = updates
        /\ value' = (value \ Declares(b)) \cup v /\ v \subseteq Declares(b)
        /\ \A e \in alive \ {d} : Declares(b) \cap Declares(binding[e]) = {}
    BY DEF Birth, BirthUnindexed, BirthMalformed, Declare, Declarable
  <1>2. \A u : Due(u)' = Due(u)
    BY <1>1 DEF Due, BagToSet
  <1> SUFFICES ASSUME NEW u \in Visible', u \notin mixed', Tracked(alert[u].device)'
               PROVE  /\ Due(u) = {} => (alert'[u].active <=> u \in value')
                      /\ \A upd \in Due(u) : upd.active <=> u \in value'
    BY <1>2 DEF AlertTracksDevice, ShownTrue
  <1>3. CASE Birth(d, b, v) /\ u \in Declares(b)
    <2>1. Due(u) = {}
      BY <1>3 DEF Birth
    <2>2. alert'[u].active <=> u \in v
      BY <1>0, <1>3, RecordedRows
    <2> QED BY <1>1, <1>3, <2>1, <2>2
  <1>4. CASE ~(Birth(d, b, v) /\ u \in Declares(b))
    <2>1. /\ u \in Visible /\ alert'[u].device = alert[u].device
          /\ alert'[u].active = alert[u].active /\ u \notin mixed
      <3>1. CASE Birth(d, b, v)
        <4>1. u \notin mixed
          BY <1>4, <3>1 DEF Birth
        <4> QED BY <1>0, <1>4, <3>1, <4>1, RecordedRows
      <3>2. CASE BirthUnindexed(d, b, v) \/ BirthMalformed(d, b, v)
        BY <3>2 DEF BirthUnindexed, BirthMalformed, Visible
      <3> QED BY <3>1, <3>2
    <2>2. alert[u].device \in Device
      BY <1>0, <2>1 DEF AlertsTypeOK, Visible, Row
    <2>3. Tracked(alert[u].device) /\ alert[u].device # d
      <3>1. \/ alert[u].device = d /\ Birth(d, b, v)
            \/ alert[u].device # d /\ Tracked(alert[u].device)
        BY <1>0, <2>1, <2>2, BirthMaps
      <3>2. CASE Birth(d, b, v)
        <4>1. alert[u].device # d
          BY <1>0, <1>4, <3>2, RecordedRows
        <4> QED BY <3>1, <4>1
      <3> QED BY <3>1, <3>2
    <2>4. u \in Declares(binding[alert[u].device]) /\ alert[u].device \in alive \ {d}
      BY <1>0, <2>1, <2>3 DEF VisibleIsDeclared, Tracked
    <2>5. u \in value' <=> u \in value
      BY <1>1, <2>4
    <2> QED BY <1>0, <2>1, <2>3, <2>5 DEF AlertTracksDevice, ShownTrue
  <1> QED BY <1>3, <1>4

(* A DATA message changes one alert.  If its row is tracked, its device is  *)
(* the one that sent the message, and so an update is in flight that is     *)
(* right, or the alert is mixed.                                            *)
LEMMA DataShows ==
    ASSUME AlertsInv, TrackInv,
           NEW d \in Device, NEW x \in Alias, NEW active \in BOOLEAN, Data(d, x, active)
    PROVE  AlertTracksDevice'
  <1>0. AlertsTypeOK /\ VisibleIsDeclared /\ Exclusive /\ MapFollows /\ AlertTracksDevice
    BY DEF AlertsInv, TrackInv
  <1> DEFINE u0 == binding[d][x]
  <1>1. /\ d \in alive
        /\ value' = IF active THEN value \cup ({u0} \ {NoAlert}) ELSE value \ {u0}
        /\ UNCHANGED <<alive, binding, alerts, alert, unindexed>>
        /\ mixed' = IF u0 \in Known(d, x) /\ Due(u0) = {}
                    THEN mixed \ Known(d, x) ELSE mixed \cup Known(d, x)
    BY DEF Data
  <1> SUFFICES ASSUME NEW u \in Visible', u \notin mixed', Tracked(alert[u].device)'
               PROVE  /\ Due(u)' = {} => (alert'[u].active <=> u \in value')
                      /\ \A upd \in Due(u)' : upd.active <=> u \in value'
    BY DEF AlertTracksDevice, ShownTrue
  <1>2. u \in Visible /\ Tracked(alert[u].device) /\ alert' = alert
    BY <1>1 DEF Visible, Tracked
  <1>3. u \in Alert /\ alert[u].device \in Device
    BY <1>0, <1>2 DEF AlertsTypeOK, Visible, Row
  <1>4. CASE u \in Known(d, x)
    <2>1. u0 \in Known(d, x) /\ Due(u0) = {}
      BY <1>1, <1>4
    <2>2. u = u0
      BY <1>0, <1>4, <2>1, KnownOne
    <2>3. Due(u)' = {[alert |-> u, active |-> active]}
      <3>1. Due(u)' = Due(u) \cup {[alert |-> w, active |-> active] : w \in Known(d, x) \cap {u}}
        BY <1>0, DataDue
      <3>2. Known(d, x) \cap {u} = {u}
        BY <1>4
      <3> QED BY <2>1, <2>2, <3>1, <3>2
    <2>4. u \in value' <=> active
      BY <1>1, <1>3, <2>2, NoAlertAssumption
    <2>5. \A upd \in Due(u)' : upd.active = active
      BY <2>3
    <2>6. Due(u)' # {}
      BY <2>3
    <2> QED BY <2>4, <2>5, <2>6, Zenon
  <1>5. CASE u \notin Known(d, x)
    <2>1. u \notin mixed
      BY <1>1, <1>5
    <2>2. Due(u)' = Due(u)
      <3>1. Due(u)' = Due(u) \cup {[alert |-> w, active |-> active] : w \in Known(d, x) \cap {u}}
        BY <1>0, DataDue
      <3>2. Known(d, x) \cap {u} = {}
        BY <1>5
      <3> QED BY <3>1, <3>2
    <2>3. u # u0
      <3> SUFFICES ASSUME u = u0 PROVE FALSE
        OBVIOUS
      <3>1. alert[u].device \in alive /\ u \in Declares(binding[alert[u].device])
        BY <1>0, <1>2 DEF VisibleIsDeclared, Tracked
      <3>2. u0 # NoAlert /\ u \in Declares(binding[d])
        BY <1>3, NoAlertAssumption DEF Declares
      <3>3. alert[u].device = d
        BY <1>0, <1>1, <3>1, <3>2 DEF Exclusive
      <3>4. d \in DOMAIN alerts /\ x \in DOMAIN alerts[d] /\ alerts[d][x] = u
        BY <1>0, <1>2, <3>2, <3>3 DEF MapFollows, Tracked
      <3> QED BY <1>0, <1>5, <3>4, KnownOne
    <2>4. u \in value' <=> u \in value
      BY <1>1, <2>3
    <2> QED BY <1>0, <1>2, <2>1, <2>2, <2>4 DEF AlertTracksDevice, ShownTrue
  <1> QED BY <1>4, <1>5

(* An update that is applied shows what it carries, which is right unless   *)
(* the alert is mixed; the updates of other alerts are still due.           *)
LEMMA ApplyShows ==
    ASSUME AlertsInv, TrackInv, NEW upd \in BagToSet(updates), ApplyUpdate(upd)
    PROVE  AlertTracksDevice'
  <1>0. AlertsTypeOK /\ AlertTracksDevice
    BY DEF AlertsInv, TrackInv
  <1>1. /\ DOMAIN alert' = DOMAIN alert
        /\ \A u \in DOMAIN alert : /\ alert'[u].device = alert[u].device
                                   /\ alert'[u].stale = alert[u].stale
                                   /\ alert'[u].active = IF u = upd.alert THEN upd.active
                                                                         ELSE alert[u].active
    BY <1>0 DEF ApplyUpdate, AlertsTypeOK, Row
  <1>2. /\ BagToSet(updates') \subseteq BagToSet(updates)
        /\ BagToSet(updates) \subseteq BagToSet(updates') \cup {upd}
    <2>1. \A e \in DOMAIN updates : updates[e] \in Nat /\ updates[e] > 0
      BY <1>0 DEF AlertsTypeOK, IsABag
    <2> QED BY <2>1 DEF ApplyUpdate, (-), SetToBag, BagToSet
  <1> SUFFICES ASSUME NEW u \in Visible', u \notin mixed', Tracked(alert[u].device)'
               PROVE  /\ Due(u)' = {} => (alert'[u].active <=> u \in value')
                      /\ \A q \in Due(u)' : q.active <=> u \in value'
    BY DEF AlertTracksDevice, ShownTrue
  <1>3. u \in Visible /\ u \in DOMAIN alert
    BY <1>1 DEF Visible
  <1>4. Tracked(alert[u].device) /\ value' = value /\ u \notin mixed
    BY <1>1, <1>3 DEF Tracked, ApplyUpdate, devices
  <1>5. /\ Due(u) = {} => (alert[u].active <=> u \in value)
        /\ \A q \in Due(u) : q.active <=> u \in value
    BY <1>0, <1>3, <1>4 DEF AlertTracksDevice, ShownTrue
  <1>6. Due(u)' \subseteq Due(u)
    BY <1>2 DEF Due
  <1>7. CASE u = upd.alert
    <2>1. upd \in Due(u)
      BY <1>7 DEF Due
    <2>2. alert'[u].active = upd.active
      BY <1>1, <1>3, <1>7
    <2> QED BY <1>4, <1>5, <1>6, <2>1, <2>2
  <1>8. CASE u # upd.alert
    <2>1. Due(u) \subseteq Due(u)'
      BY <1>2, <1>8 DEF Due
    <2>2. alert'[u].active = alert[u].active
      BY <1>1, <1>3, <1>8
    <2> QED BY <1>4, <1>5, <1>6, <2>1, <2>2
  <1> QED BY <1>7, <1>8

(* Every step keeps what is shown of tracked devices.                       *)
LEMMA NextTracks == ASSUME AlertsInv, TrackInv, [AlertsNext]_alertvars PROVE TrackInv'
  <1>0. AlertsTypeOK /\ Exclusive /\ MapFollows /\ AlertTracksDevice
    BY DEF AlertsInv, TrackInv
  <1>1. ASSUME NEW d \in Device, NEW b \in Binding, NEW v \in SUBSET Alert,
               Birth(d, b, v) \/ BirthUnindexed(d, b, v) \/ BirthMalformed(d, b, v)
        PROVE  TrackInv'
    BY <1>0, <1>1, BirthMaps, BirthShows DEF TrackInv
  <1>2. ASSUME NEW d \in Device, Death(d)
        PROVE  TrackInv'
    <2>1. /\ alive' = alive \ {d} /\ DOMAIN alerts' = DOMAIN alerts \ {d}
          /\ \A e \in DOMAIN alerts' : alerts'[e] = alerts[e]
          /\ UNCHANGED <<binding, value, alert, updates, unindexed, mixed>>
      BY <1>2 DEF Death
    <2>2. \A e : Tracked(e)' => Tracked(e) /\ alerts'[e] = alerts[e]
      BY <2>1 DEF Tracked
    <2>3. AlertTracksDevice'
      <3>1. \A u : Due(u)' = Due(u)
        BY <2>1 DEF Due, BagToSet
      <3> QED BY <1>0, <2>1, <2>2, <3>1 DEF AlertTracksDevice, ShownTrue, Visible
    <2>4. Exclusive'
      BY <1>0, <2>1 DEF Exclusive
    <2>5. MapFollows'
      BY <1>0, <2>1, <2>2 DEF MapFollows
    <2> QED BY <2>3, <2>4, <2>5 DEF TrackInv
  <1>3. ASSUME NEW d \in Device, NEW x \in Alias, NEW active \in BOOLEAN, Data(d, x, active)
        PROVE  TrackInv'
    <2>1. UNCHANGED <<alive, binding, alerts, unindexed>>
      BY <1>3 DEF Data
    <2>2. AlertTracksDevice'
      BY <1>3, DataShows
    <2> QED BY <1>0, <2>1, <2>2 DEF TrackInv, Exclusive, MapFollows, Tracked
  <1>4. ASSUME NEW upd \in BagToSet(updates), ApplyUpdate(upd)
        PROVE  TrackInv'
    <2>1. UNCHANGED <<alive, binding, alerts, unindexed>>
      BY <1>4 DEF ApplyUpdate, devices
    <2>2. AlertTracksDevice'
      BY <1>4, ApplyShows
    <2> QED BY <1>0, <2>1, <2>2 DEF TrackInv, Exclusive, MapFollows, Tracked
  <1>5. CASE IngesterDies
    <2>1. \A e : ~Tracked(e)'
      BY <1>5 DEF IngesterDies, Tracked
    <2> QED BY <1>0, <1>5, <2>1 DEF IngesterDies, devices, TrackInv, Exclusive, MapFollows,
                                    AlertTracksDevice
  <1>6. CASE UNCHANGED alertvars
    <2>1. UNCHANGED <<alive, binding, value, alerts, alert, updates, unindexed, mixed>>
      BY <1>6 DEF alertvars
    <2>2. \A u : Due(u)' = Due(u)
      BY <2>1 DEF Due, BagToSet
    <2> QED BY <1>0, <2>1, <2>2 DEF TrackInv, Exclusive, MapFollows, Tracked, Visible,
                                    AlertTracksDevice, ShownTrue
  <1> QED BY <1>1, <1>2, <1>3, <1>4, <1>5, <1>6 DEF AlertsNext

(* What is shown of a tracked device is what it last published, or will be  *)
(* when the update in flight has been applied, but for the alerts whose     *)
(* updates met; through any BIRTHs, failures and restarts, with any number  *)
(* of updates in flight.                                                    *)
THEOREM AlertTracksDeviceCorrect == AlertsSpec => []AlertTracksDevice
  <1>1. AlertsInit => TrackInv
    BY DEF AlertsInit, TrackInv, Exclusive, MapFollows, Tracked, AlertTracksDevice, Visible
  <1>2. AlertsInv /\ TrackInv /\ [AlertsNext]_alertvars => TrackInv'
    BY NextTracks
  <1>3. TrackInv => AlertTracksDevice
    BY DEF TrackInv
  <1> QED BY <1>1, <1>2, <1>3, AlertsInvCorrect, PTL DEF AlertsSpec
=============================================================================
