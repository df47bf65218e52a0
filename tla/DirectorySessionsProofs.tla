---------------------- MODULE DirectorySessionsProofs ----------------------
(* Proofs about the session table, and after it about change-notify, for   *)
(* any devices, addresses and schemas, any number of sessions, and any     *)
(* number of handlers at one time.                                         *)
EXTENDS DirectoryNotify, TLAPS, WellFoundedInduction

(* A non-empty set of ids has a least one: v14.sql relinks to it.          *)
LEMMA LeastId ==
    ASSUME NEW S \in SUBSET Nat, S # {}
    PROVE  \E k \in S : \A l \in S : k <= l
  <1> DEFINE R == {ss \in Nat \X Nat : ss[1] < ss[2]}
  <1>1. IsWellFoundedOn(R, Nat)
    BY NatLessThanWellFounded DEF OpToRel
  <1>2. \A l, k \in Nat : l < k => <<l, k>> \in R
    OBVIOUS
  <1> HIDE DEF R
  <1>3. PICK k \in S : \A l \in S : ~(<<l, k>> \in R)
    BY <1>1, WFMin
  <1>4. \A l \in S : ~(l < k)
    BY <1>2, <1>3
  <1> QED BY <1>4

-----------------------------------------------------------------------------
(* The pointers that the upgrade installs.                                 *)
LEMMA NextKeptDevice ==
    ASSUME TypeOK, NEW i \in SessionKeep
    PROVE  LET n == NextKept(i, SameDevice) IN
           IF n = Null THEN \A j \in SessionKeep : i < j => ~SameDevice(i, j)
           ELSE /\ n \in SessionKeep /\ i < n /\ SameDevice(i, n)
                /\ \A j \in SessionKeep : i < j /\ SameDevice(i, j) => n <= j
  <1> DEFINE later == {k \in SessionKeep : SameDevice(i, k) /\ i < k}
  <1>1. SessionKeep \subseteq Nat \ {0}
    BY MaxIdAssumption DEF TypeOK, SessionKeep, Rows
  <1>2. CASE later = {}
    BY <1>2 DEF NextKept, Null
  <1>3. CASE later # {}
    <2>1. \E k \in later : \A l \in later : k <= l
      BY <1>1, <1>3, LeastId
    <2>2. NextKept(i, SameDevice) = CHOOSE k \in later : \A l \in later : k <= l
      BY <1>3 DEF NextKept
    <2>3. /\ NextKept(i, SameDevice) \in later
          /\ \A l \in later : NextKept(i, SameDevice) <= l
      BY <2>1, <2>2
    <2> QED BY <2>3, <1>1 DEF Null
  <1> QED BY <1>2, <1>3

(* The same of the chain of an address.                                    *)
LEMMA NextKeptAddress ==
    ASSUME TypeOK, NEW i \in SessionKeep
    PROVE  LET n == NextKept(i, SameAddress) IN
           IF n = Null THEN \A j \in SessionKeep : i < j => ~SameAddress(i, j)
           ELSE /\ n \in SessionKeep /\ i < n /\ SameAddress(i, n)
                /\ \A j \in SessionKeep : i < j /\ SameAddress(i, j) => n <= j
  <1> DEFINE later == {k \in SessionKeep : SameAddress(i, k) /\ i < k}
  <1>1. SessionKeep \subseteq Nat \ {0}
    BY MaxIdAssumption DEF TypeOK, SessionKeep, Rows
  <1>2. CASE later = {}
    BY <1>2 DEF NextKept, Null
  <1>3. CASE later # {}
    <2>1. \E k \in later : \A l \in later : k <= l
      BY <1>1, <1>3, LeastId
    <2>2. NextKept(i, SameAddress) = CHOOSE k \in later : \A l \in later : k <= l
      BY <1>3 DEF NextKept
    <2>3. /\ NextKept(i, SameAddress) \in later
          /\ \A l \in later : NextKept(i, SameAddress) <= l
      BY <2>1, <2>2
    <2> QED BY <2>3, <1>1 DEF Null
  <1> QED BY <1>2, <1>3

-----------------------------------------------------------------------------
(* Every step keeps every row a session, numbered below the sequence.       *)
LEMMA NextKeepsTypes == TypeOK /\ [Next]_vars => TypeOK'
  <1> SUFFICES ASSUME TypeOK, [Next]_vars PROVE TypeOK'
    OBVIOUS
  <1> USE MaxIdAssumption, ScopeAssumption
  <1>1. ASSUME NEW d \in Device, NEW a \in Address, NEW schemas \in SUBSET Schema,
               Birth(d, a, schemas)
        PROVE  TypeOK'
    <2>1. NewSession(d, a, schemas) \in Session
      BY DEF NewSession, Session
    <2>2. \A i \in Rows : Superseded(i, d, a, seq) \in Session
      BY <1>1 DEF TypeOK, Birth, Superseded, Update, Session, Ids, Null
    <2> QED BY <1>1, <2>1, <2>2 DEF Birth, TypeOK, Rows
  <1>2. CASE BirthAborted
    BY <1>2 DEF BirthAborted, TypeOK, Rows
  <1>3. ASSUME NEW S, Close(S), UNCHANGED <<seq, version>>
        PROVE  TypeOK'
    BY <1>3 DEF Close, Update, TypeOK, Rows, Session
  <1>4. ASSUME NEW a \in Address, Death(a) PROVE TypeOK'
    BY <1>3, <1>4 DEF Death
  <1>5. CASE CloseAll
    BY <1>3, <1>5 DEF CloseAll
  <1>6. ASSUME NEW d \in Device, Prune(d) PROVE TypeOK'
    BY <1>6 DEF Prune, TypeOK, Rows
  <1>7. CASE Migrate
    <2>1. SessionKeep \subseteq Rows
      BY DEF SessionKeep
    <2>2. SessionKeep \subseteq Ids
      BY <2>1 DEF TypeOK, Ids
    <2>3. \A i \in SessionKeep : /\ NextKept(i, SameDevice) \in Ids \cup {Null}
                                 /\ NextKept(i, SameAddress) \in Ids \cup {Null}
      BY <2>2, NextKeptDevice, NextKeptAddress
    <2> QED BY <1>7, <2>1, <2>3 DEF Migrate, Update, TypeOK, Rows, Session
  <1>8. CASE UNCHANGED vars
    BY <1>8 DEF vars, TypeOK, Rows
  <1> QED
    BY <1>1, <1>2, <1>4, <1>5, <1>6, <1>7, <1>8 DEF Next

(* Type correctness, for any devices, addresses and schemas.                *)
THEOREM TypeCorrect == Spec => []TypeOK
  <1>1. Init => TypeOK
    BY MaxIdAssumption DEF Init, TypeOK, Rows
  <1> QED BY <1>1, NextKeepsTypes, PTL DEF Spec

-----------------------------------------------------------------------------
(* The inductive invariant.  The chains need nothing beyond themselves;    *)
(* OnlineIsCurrent and HasCurrent follow them through the prune.           *)
ChainInv == DeviceChain /\ AddressChain /\ HasCurrent /\ OnlineIsCurrent

(* A new session is put at the end of both of its chains.                  *)
LEMMA BirthKeepsChains ==
    ASSUME TypeOK, ChainInv, NEW d \in Device, NEW a \in Address,
           NEW schemas \in SUBSET Schema, Birth(d, a, schemas)
    PROVE  ChainInv'
  <1>0. PICK new \in Nat \ {0} : new = seq
    BY MaxIdAssumption DEF TypeOK
  <1>1. /\ Rows' = Rows \cup {new} /\ new \notin Rows /\ Rows \subseteq Nat \ {0}
        /\ \A i \in Rows : i < new
    BY <1>0, MaxIdAssumption DEF Birth, TypeOK, Rows
  <1>2. /\ session'[new].device = d /\ session'[new].address = a
        /\ session'[new].next_for_device = Null
        /\ session'[new].next_for_address = Null
    BY <1>0, <1>1 DEF Birth, NewSession, Rows
  <1>3. \A i \in Rows :
        /\ session'[i].device = session[i].device
        /\ session'[i].address = session[i].address
        /\ session'[i].online = (session[i].online
                                  /\ i \notin OfDevice(d) \cup OfAddress(a))
        /\ session'[i].next_for_device
              = IF i \in OfDevice(d) THEN new ELSE session[i].next_for_device
        /\ session'[i].next_for_address
              = IF i \in OfAddress(a) THEN new ELSE session[i].next_for_address
    BY <1>0, <1>1 DEF Birth, Superseded, Update, Rows
  <1>4. DeviceChain'
    <2> SUFFICES ASSUME NEW i \in Rows'
                 PROVE  IsSuccessor(session[i].next_for_device, i, SameDevice)'
      BY DEF DeviceChain
    <2>1. CASE i = new
      BY <1>1, <1>2, <2>1 DEF IsSuccessor
    <2>2. CASE i \in OfDevice(d)
      <3>1. i \in Rows /\ session[i].device = d /\ session[i].next_for_device = Null
        BY <2>2 DEF OfDevice, DeviceCurrent
      <3>2. \A j \in Rows : i < j => ~SameDevice(i, j)
        BY <3>1 DEF ChainInv, DeviceChain, IsSuccessor
      <3>3. session'[i].next_for_device = new
        BY <1>3, <2>2, <3>1
      <3>4. SameDevice(i, new)' /\ \A j \in Rows : i < j => ~SameDevice(i, j)'
        BY <1>2, <1>3, <3>1, <3>2 DEF SameDevice
      <3>5. \A j \in Rows' : i < j /\ SameDevice(i, j)' => new <= j
        BY <1>1, <3>4
      <3> QED BY <1>1, <3>1, <3>3, <3>4, <3>5 DEF IsSuccessor, Null
    <2>3. CASE i \in Rows /\ i \notin OfDevice(d)
      <3>1. session'[i].next_for_device = session[i].next_for_device
        BY <1>3, <2>3
      <3>2. IsSuccessor(session[i].next_for_device, i, SameDevice)
        BY <2>3 DEF ChainInv, DeviceChain
      <3>3. CASE session[i].next_for_device = Null
        <4>1. session[i].device # d
          BY <2>3, <3>3 DEF OfDevice, DeviceCurrent
        <4>2. \A j \in Rows' : i < j => ~SameDevice(i, j)'
          BY <1>1, <1>2, <1>3, <2>3, <3>2, <3>3, <4>1 DEF IsSuccessor, SameDevice
        <4> QED BY <3>1, <3>3, <4>2 DEF IsSuccessor
      <3>4. CASE session[i].next_for_device # Null
        <4>1. PICK n \in Rows : n = session[i].next_for_device
          BY <3>2, <3>4 DEF IsSuccessor
        <4>2. /\ i < n /\ SameDevice(i, n)
              /\ \A j \in Rows : i < j /\ SameDevice(i, j) => n <= j
          BY <3>2, <3>4, <4>1 DEF IsSuccessor
        <4>3. n \in Rows' /\ SameDevice(i, n)'
          BY <1>1, <1>3, <2>3, <4>2 DEF SameDevice
        <4>4. \A j \in Rows' : i < j /\ SameDevice(i, j)' => n <= j
          BY <1>1, <1>3, <2>3, <4>2 DEF SameDevice
        <4> QED BY <3>1, <3>4, <4>1, <4>2, <4>3, <4>4 DEF IsSuccessor
      <3> QED BY <3>3, <3>4
    <2> QED BY <1>1, <2>1, <2>2, <2>3
  <1>5. AddressChain'
    <2> SUFFICES ASSUME NEW i \in Rows'
                 PROVE  IsSuccessor(session[i].next_for_address, i, SameAddress)'
      BY DEF AddressChain
    <2>1. CASE i = new
      BY <1>1, <1>2, <2>1 DEF IsSuccessor
    <2>2. CASE i \in OfAddress(a)
      <3>1. i \in Rows /\ session[i].address = a /\ session[i].next_for_address = Null
        BY <2>2 DEF OfAddress, AddressCurrent
      <3>2. \A j \in Rows : i < j => ~SameAddress(i, j)
        BY <3>1 DEF ChainInv, AddressChain, IsSuccessor
      <3>3. session'[i].next_for_address = new
        BY <1>3, <2>2, <3>1
      <3>4. SameAddress(i, new)' /\ \A j \in Rows : i < j => ~SameAddress(i, j)'
        BY <1>2, <1>3, <3>1, <3>2 DEF SameAddress
      <3>5. \A j \in Rows' : i < j /\ SameAddress(i, j)' => new <= j
        BY <1>1, <3>4
      <3> QED BY <1>1, <3>1, <3>3, <3>4, <3>5 DEF IsSuccessor, Null
    <2>3. CASE i \in Rows /\ i \notin OfAddress(a)
      <3>1. session'[i].next_for_address = session[i].next_for_address
        BY <1>3, <2>3
      <3>2. IsSuccessor(session[i].next_for_address, i, SameAddress)
        BY <2>3 DEF ChainInv, AddressChain
      <3>3. CASE session[i].next_for_address = Null
        <4>1. session[i].address # a
          BY <2>3, <3>3 DEF OfAddress, AddressCurrent
        <4>2. \A j \in Rows' : i < j => ~SameAddress(i, j)'
          BY <1>1, <1>2, <1>3, <2>3, <3>2, <3>3, <4>1 DEF IsSuccessor, SameAddress
        <4> QED BY <3>1, <3>3, <4>2 DEF IsSuccessor
      <3>4. CASE session[i].next_for_address # Null
        <4>1. PICK n \in Rows : n = session[i].next_for_address
          BY <3>2, <3>4 DEF IsSuccessor
        <4>2. /\ i < n /\ SameAddress(i, n)
              /\ \A j \in Rows : i < j /\ SameAddress(i, j) => n <= j
          BY <3>2, <3>4, <4>1 DEF IsSuccessor
        <4>3. n \in Rows' /\ SameAddress(i, n)'
          BY <1>1, <1>3, <2>3, <4>2 DEF SameAddress
        <4>4. \A j \in Rows' : i < j /\ SameAddress(i, j)' => n <= j
          BY <1>1, <1>3, <2>3, <4>2 DEF SameAddress
        <4> QED BY <3>1, <3>4, <4>1, <4>2, <4>3, <4>4 DEF IsSuccessor
      <3> QED BY <3>3, <3>4
    <2> QED BY <1>1, <2>1, <2>2, <2>3
  <1>6. HasCurrent'
    <2> SUFFICES ASSUME NEW i \in Rows'
                 PROVE  /\ \E j \in Rows' : SameDevice(i, j)' /\ DeviceCurrent(j)'
                        /\ \E j \in Rows' : SameAddress(i, j)' /\ AddressCurrent(j)'
      BY DEF HasCurrent
    <2>1. SameDevice(new, new)' /\ DeviceCurrent(new)'
          /\ SameAddress(new, new)' /\ AddressCurrent(new)'
      BY <1>2 DEF SameDevice, DeviceCurrent, SameAddress, AddressCurrent
    <2>2. ASSUME i \in Rows
          PROVE  \E j \in Rows' : SameDevice(i, j)' /\ DeviceCurrent(j)'
      <3>1. PICK j \in Rows : SameDevice(i, j) /\ DeviceCurrent(j)
        BY <2>2 DEF ChainInv, HasCurrent
      <3>2. CASE session[i].device = d
        BY <1>1, <1>2, <1>3, <2>2, <3>2 DEF SameDevice, DeviceCurrent
      <3>3. CASE session[i].device # d
        BY <1>1, <1>3, <2>2, <3>1, <3>3 DEF SameDevice, DeviceCurrent, OfDevice
      <3> QED BY <3>2, <3>3
    <2>3. ASSUME i \in Rows
          PROVE  \E j \in Rows' : SameAddress(i, j)' /\ AddressCurrent(j)'
      <3>1. PICK j \in Rows : SameAddress(i, j) /\ AddressCurrent(j)
        BY <2>3 DEF ChainInv, HasCurrent
      <3>2. CASE session[i].address = a
        BY <1>1, <1>2, <1>3, <2>3, <3>2 DEF SameAddress, AddressCurrent
      <3>3. CASE session[i].address # a
        BY <1>1, <1>3, <2>3, <3>1, <3>3 DEF SameAddress, AddressCurrent, OfAddress
      <3> QED BY <3>2, <3>3
    <2> QED BY <1>1, <2>1, <2>2, <2>3
  <1>7. OnlineIsCurrent'
    BY <1>1, <1>2, <1>3
    DEF ChainInv, OnlineIsCurrent, DeviceCurrent, AddressCurrent
  <1> QED BY <1>4, <1>5, <1>6, <1>7 DEF ChainInv

(* Closing sessions changes no pointer.                                    *)
LEMMA CloseKeepsChains ==
    ASSUME TypeOK, ChainInv, NEW S, Close(S)
    PROVE  ChainInv'
  <1>1. Rows' = Rows
    BY DEF Close, Rows
  <1>2. \A i \in Rows :
        /\ session'[i].device = session[i].device
        /\ session'[i].address = session[i].address
        /\ session'[i].next_for_device = session[i].next_for_device
        /\ session'[i].next_for_address = session[i].next_for_address
        /\ session'[i].online = (session[i].online /\ i \notin S)
    BY DEF Close, Update
  <1>3. DeviceChain' /\ AddressChain'
    BY <1>1, <1>2
    DEF ChainInv, DeviceChain, AddressChain, IsSuccessor, SameDevice, SameAddress
  <1>4. HasCurrent'
    <2> SUFFICES ASSUME NEW i \in Rows'
                 PROVE  /\ \E j \in Rows' : SameDevice(i, j)' /\ DeviceCurrent(j)'
                        /\ \E j \in Rows' : SameAddress(i, j)' /\ AddressCurrent(j)'
      BY DEF HasCurrent
    <2>1. i \in Rows
      BY <1>1
    <2>2. PICK j \in Rows : SameDevice(i, j) /\ DeviceCurrent(j)
      BY <2>1 DEF ChainInv, HasCurrent
    <2>3. j \in Rows' /\ SameDevice(i, j)' /\ DeviceCurrent(j)'
      BY <1>1, <1>2, <2>2 DEF SameDevice, DeviceCurrent
    <2>4. PICK k \in Rows : SameAddress(i, k) /\ AddressCurrent(k)
      BY <2>1 DEF ChainInv, HasCurrent
    <2>5. k \in Rows' /\ SameAddress(i, k)' /\ AddressCurrent(k)'
      BY <1>1, <1>2, <2>4 DEF SameAddress, AddressCurrent
    <2> QED BY <2>3, <2>5
  <1>5. OnlineIsCurrent'
    BY <1>1, <1>2 DEF ChainInv, OnlineIsCurrent, DeviceCurrent, AddressCurrent
  <1> QED BY <1>3, <1>4, <1>5 DEF ChainInv

(* A row that is pointed to, or is current, is not pruned.                 *)
LEMMA PruneKeepsChains ==
    ASSUME TypeOK, ChainInv, NEW d \in Device, Prune(d)
    PROVE  ChainInv'
  <1>1. /\ Rows' = Rows \ Prunable(d)
        /\ \A i \in Rows' : i \in Rows /\ session'[i] = session[i]
    BY DEF Prune, Rows
  <1>2. \A i \in Rows :
        /\ session[i].next_for_device \in Rows => session[i].next_for_device \in Rows'
        /\ session[i].next_for_address \in Rows => session[i].next_for_address \in Rows'
        /\ DeviceCurrent(i) \/ AddressCurrent(i) => i \in Rows'
    BY <1>1 DEF Prunable, Referenced
  <1>3. DeviceChain'
    BY <1>1, <1>2 DEF ChainInv, DeviceChain, IsSuccessor, SameDevice
  <1>4. AddressChain'
    BY <1>1, <1>2 DEF ChainInv, AddressChain, IsSuccessor, SameAddress
  <1>5. HasCurrent'
    <2> SUFFICES ASSUME NEW i \in Rows'
                 PROVE  /\ \E j \in Rows' : SameDevice(i, j)' /\ DeviceCurrent(j)'
                        /\ \E j \in Rows' : SameAddress(i, j)' /\ AddressCurrent(j)'
      BY DEF HasCurrent
    <2>1. i \in Rows
      BY <1>1
    <2>2. PICK j \in Rows : SameDevice(i, j) /\ DeviceCurrent(j)
      BY <2>1 DEF ChainInv, HasCurrent
    <2>3. j \in Rows' /\ SameDevice(i, j)' /\ DeviceCurrent(j)'
      BY <1>1, <1>2, <2>2 DEF SameDevice, DeviceCurrent
    <2>4. PICK k \in Rows : SameAddress(i, k) /\ AddressCurrent(k)
      BY <2>1 DEF ChainInv, HasCurrent
    <2>5. k \in Rows' /\ SameAddress(i, k)' /\ AddressCurrent(k)'
      BY <1>1, <1>2, <2>4 DEF SameAddress, AddressCurrent
    <2> QED BY <2>3, <2>5
  <1>6. OnlineIsCurrent'
    BY <1>1 DEF ChainInv, OnlineIsCurrent, DeviceCurrent, AddressCurrent
  <1> QED BY <1>3, <1>4, <1>5, <1>6 DEF ChainInv

(* The upgrade relinks both chains over the rows it keeps, which are       *)
(* those that both need.                                                   *)
LEMMA MigrateKeepsChains ==
    ASSUME TypeOK, ChainInv, Migrate
    PROVE  ChainInv'
  <1>1. Rows' = SessionKeep /\ SessionKeep \subseteq Rows
    BY DEF Migrate, SessionKeep, Rows
  <1>2. \A i \in SessionKeep :
        /\ session'[i].device = session[i].device
        /\ session'[i].address = session[i].address
        /\ session'[i].online = session[i].online
        /\ session'[i].next_for_device
              = IF DeviceCurrent(i) THEN Null ELSE NextKept(i, SameDevice)
        /\ session'[i].next_for_address
              = IF AddressCurrent(i) THEN Null ELSE NextKept(i, SameAddress)
    BY DEF Migrate, Update
  <1>3. \A i \in Rows : DeviceCurrent(i) \/ AddressCurrent(i) => i \in SessionKeep
    BY DEF ChainInv, DeviceChain, AddressChain, IsSuccessor, DeviceCurrent,
           AddressCurrent, SessionKeep, LastTwo, SameDevice, SameAddress
  <1>4. DeviceChain'
    <2> SUFFICES ASSUME NEW i \in SessionKeep
                 PROVE  IsSuccessor(session[i].next_for_device, i, SameDevice)'
      BY <1>1 DEF DeviceChain
    <2>1. CASE DeviceCurrent(i)
      <3>1. \A j \in Rows : i < j => ~SameDevice(i, j)
        BY <1>1, <2>1 DEF ChainInv, DeviceChain, IsSuccessor, DeviceCurrent
      <3> QED BY <1>1, <1>2, <2>1, <3>1 DEF IsSuccessor, SameDevice
    <2>2. CASE ~DeviceCurrent(i)
      <3> DEFINE n == NextKept(i, SameDevice)
      <3>1. session'[i].next_for_device = n
        BY <1>2, <2>2
      <3>2. CASE n = Null
        <4>1. \A j \in SessionKeep : i < j => ~SameDevice(i, j)
          BY <3>2, NextKeptDevice
        <4> QED BY <1>1, <1>2, <3>1, <3>2, <4>1 DEF IsSuccessor, SameDevice
      <3>3. CASE n # Null
        <4>1. /\ n \in SessionKeep /\ i < n /\ SameDevice(i, n)
              /\ \A j \in SessionKeep : i < j /\ SameDevice(i, j) => n <= j
          BY <3>3, NextKeptDevice
        <4> QED BY <1>1, <1>2, <3>1, <3>3, <4>1 DEF IsSuccessor, SameDevice
      <3> QED BY <3>2, <3>3
    <2> QED BY <2>1, <2>2
  <1>5. AddressChain'
    <2> SUFFICES ASSUME NEW i \in SessionKeep
                 PROVE  IsSuccessor(session[i].next_for_address, i, SameAddress)'
      BY <1>1 DEF AddressChain
    <2>1. CASE AddressCurrent(i)
      <3>1. \A j \in Rows : i < j => ~SameAddress(i, j)
        BY <1>1, <2>1 DEF ChainInv, AddressChain, IsSuccessor, AddressCurrent
      <3> QED BY <1>1, <1>2, <2>1, <3>1 DEF IsSuccessor, SameAddress
    <2>2. CASE ~AddressCurrent(i)
      <3> DEFINE n == NextKept(i, SameAddress)
      <3>1. session'[i].next_for_address = n
        BY <1>2, <2>2
      <3>2. CASE n = Null
        <4>1. \A j \in SessionKeep : i < j => ~SameAddress(i, j)
          BY <3>2, NextKeptAddress
        <4> QED BY <1>1, <1>2, <3>1, <3>2, <4>1 DEF IsSuccessor, SameAddress
      <3>3. CASE n # Null
        <4>1. /\ n \in SessionKeep /\ i < n /\ SameAddress(i, n)
              /\ \A j \in SessionKeep : i < j /\ SameAddress(i, j) => n <= j
          BY <3>3, NextKeptAddress
        <4> QED BY <1>1, <1>2, <3>1, <3>3, <4>1 DEF IsSuccessor, SameAddress
      <3> QED BY <3>2, <3>3
    <2> QED BY <2>1, <2>2
  <1>6. HasCurrent'
    <2> SUFFICES ASSUME NEW i \in Rows'
                 PROVE  /\ \E j \in Rows' : SameDevice(i, j)' /\ DeviceCurrent(j)'
                        /\ \E j \in Rows' : SameAddress(i, j)' /\ AddressCurrent(j)'
      BY DEF HasCurrent
    <2>1. i \in Rows
      BY <1>1
    <2>2. PICK j \in Rows : SameDevice(i, j) /\ DeviceCurrent(j)
      BY <2>1 DEF ChainInv, HasCurrent
    <2>3. j \in Rows' /\ SameDevice(i, j)' /\ DeviceCurrent(j)'
      BY <1>1, <1>2, <1>3, <2>2 DEF SameDevice, DeviceCurrent
    <2>4. PICK k \in Rows : SameAddress(i, k) /\ AddressCurrent(k)
      BY <2>1 DEF ChainInv, HasCurrent
    <2>5. k \in Rows' /\ SameAddress(i, k)' /\ AddressCurrent(k)'
      BY <1>1, <1>2, <1>3, <2>4 DEF SameAddress, AddressCurrent
    <2> QED BY <2>3, <2>5
  <1>7. OnlineIsCurrent'
    BY <1>1, <1>2 DEF ChainInv, OnlineIsCurrent, DeviceCurrent, AddressCurrent
  <1> QED BY <1>4, <1>5, <1>6, <1>7 DEF ChainInv

(* Every step keeps the chains.                                            *)
LEMMA NextKeepsChains == TypeOK /\ ChainInv /\ [Next]_vars => ChainInv'
  <1> SUFFICES ASSUME TypeOK, ChainInv, [Next]_vars PROVE ChainInv'
    OBVIOUS
  <1>1. ASSUME UNCHANGED session PROVE ChainInv'
    BY <1>1
    DEF ChainInv, DeviceChain, AddressChain, HasCurrent, OnlineIsCurrent,
        IsSuccessor, SameDevice, SameAddress, DeviceCurrent, AddressCurrent, Rows
  <1>2. CASE BirthAborted
    BY <1>1, <1>2 DEF BirthAborted
  <1>3. ASSUME NEW a \in Address, Death(a) PROVE ChainInv'
    BY <1>3, CloseKeepsChains DEF Death
  <1>4. CASE CloseAll
    BY <1>4, CloseKeepsChains DEF CloseAll
  <1>5. CASE UNCHANGED vars
    BY <1>1, <1>5 DEF vars
  <1> QED
    BY <1>2, <1>3, <1>4, <1>5, BirthKeepsChains, PruneKeepsChains,
       MigrateKeepsChains DEF Next

(* The invariant holds in every state of every behaviour.                  *)
LEMMA ChainInvariant == Spec => [](TypeOK /\ ChainInv)
  <1>1. Init => ChainInv
    BY DEF Init, ChainInv, DeviceChain, AddressChain, HasCurrent,
           OnlineIsCurrent, Rows
  <1> QED BY <1>1, NextKeepsChains, TypeCorrect, PTL DEF Spec

(* Both chains stay whole: a next pointer names the next session of the    *)
(* device, or at the address, that is still in the table, whatever births, *)
(* deaths, prunes and the upgrade do in whatever order.                    *)
THEOREM DeviceChainCorrect == Spec => []DeviceChain
  <1>1. ChainInv => DeviceChain
    BY DEF ChainInv
  <1> QED BY <1>1, ChainInvariant, PTL

(* The chain of an address, which crosses those of its devices.            *)
THEOREM AddressChainCorrect == Spec => []AddressChain
  <1>1. ChainInv => AddressChain
    BY DEF ChainInv
  <1> QED BY <1>1, ChainInvariant, PTL

(* Every device and every address ever indexed has exactly one current     *)
(* session.                                                                *)
THEOREM OneCurrentCorrect == Spec => []OneCurrent
  <1>1. TypeOK /\ ChainInv => OneCurrent
    <2> SUFFICES ASSUME TypeOK, ChainInv PROVE OneCurrent
      OBVIOUS
    <2>1. \A i, j \in Rows : i < j \/ j < i \/ i = j
      BY MaxIdAssumption DEF TypeOK
    <2>2. \A i, j \in Rows :
            SameDevice(i, j) /\ DeviceCurrent(i) /\ DeviceCurrent(j) => i = j
      BY <2>1 DEF ChainInv, DeviceChain, IsSuccessor, SameDevice, DeviceCurrent
    <2>3. \A i, j \in Rows :
            SameAddress(i, j) /\ AddressCurrent(i) /\ AddressCurrent(j) => i = j
      BY <2>1 DEF ChainInv, AddressChain, IsSuccessor, SameAddress, AddressCurrent
    <2> QED BY <2>2, <2>3 DEF ChainInv, OneCurrent
  <1> QED BY <1>1, ChainInvariant, PTL

(* A session that is shown as online is the current session of its device  *)
(* and of its address.                                                     *)
THEOREM OnlineCorrect == Spec => []OnlineIsCurrent
  <1>1. ChainInv => OnlineIsCurrent
    BY DEF ChainInv
  <1> QED BY <1>1, ChainInvariant, PTL

-----------------------------------------------------------------------------
(* What deleting rows leaves alone.                                        *)

(* A row that is kept by the upgrade and has a successor still has one.    *)
LEMMA KeptStaysSuperseded ==
    ASSUME TypeOK, ChainInv, NEW i \in SessionKeep
    PROVE  /\ ~DeviceCurrent(i) => NextKept(i, SameDevice) # Null
           /\ ~AddressCurrent(i) => NextKept(i, SameAddress) # Null
  <1>1. i \in Rows /\ \A k, l \in Rows : k < l \/ l < k \/ k = l
    BY MaxIdAssumption DEF TypeOK, SessionKeep
  <1>2. \A k \in Rows : DeviceCurrent(k) \/ AddressCurrent(k) => k \in SessionKeep
    BY DEF ChainInv, DeviceChain, AddressChain, IsSuccessor, DeviceCurrent,
           AddressCurrent, SessionKeep, LastTwo, SameDevice, SameAddress
  <1>3. ASSUME ~DeviceCurrent(i) PROVE NextKept(i, SameDevice) # Null
    <2>1. PICK k \in Rows : SameDevice(i, k) /\ DeviceCurrent(k)
      BY <1>1 DEF ChainInv, HasCurrent
    <2>2. ~(k < i)
      BY <1>1, <2>1 DEF ChainInv, DeviceChain, IsSuccessor, DeviceCurrent, SameDevice
    <2>3. i < k /\ k \in SessionKeep
      BY <1>1, <1>2, <1>3, <2>1, <2>2
    <2> QED BY <2>1, <2>3, NextKeptDevice
  <1>4. ASSUME ~AddressCurrent(i) PROVE NextKept(i, SameAddress) # Null
    <2>1. PICK k \in Rows : SameAddress(i, k) /\ AddressCurrent(k)
      BY <1>1 DEF ChainInv, HasCurrent
    <2>2. ~(k < i)
      BY <1>1, <2>1
      DEF ChainInv, AddressChain, IsSuccessor, AddressCurrent, SameAddress
    <2>3. i < k /\ k \in SessionKeep
      BY <1>1, <1>2, <1>4, <2>1, <2>2
    <2> QED BY <2>1, <2>3, NextKeptAddress
  <1> QED BY <1>3, <1>4

(* The status views read only the current rows, so they stay the same when *)
(* those rows and what they record do.                                     *)
LEMMA StatusUnchanged ==
    ASSUME {i \in Rows : DeviceCurrent(i)}' = {i \in Rows : DeviceCurrent(i)},
           {i \in Rows : AddressCurrent(i)}' = {i \in Rows : AddressCurrent(i)},
           \A i \in Rows' : /\ session'[i].device = session[i].device
                            /\ session'[i].address = session[i].address
                            /\ session'[i].online = session[i].online
                            /\ session'[i].schemas = session[i].schemas
    PROVE  DeviceStatus' = DeviceStatus /\ AddressStatus' = AddressStatus
  BY DEF DeviceStatus, AddressStatus

(* The rows that are shown are not deleted, and what is shown of them is   *)
(* not changed.                                                            *)
LEMMA DeleteKeepsStatus ==
    TypeOK /\ ChainInv /\ [Next]_vars
        => (Deletes => DeviceStatus' = DeviceStatus /\ AddressStatus' = AddressStatus)
  <1> SUFFICES ASSUME TypeOK, ChainInv, [Next]_vars, Deletes
               PROVE  DeviceStatus' = DeviceStatus /\ AddressStatus' = AddressStatus
    OBVIOUS
  <1>1. ASSUME NEW d \in Device, Prune(d)
        PROVE  DeviceStatus' = DeviceStatus /\ AddressStatus' = AddressStatus
    <2>1. /\ Rows' = Rows \ Prunable(d)
          /\ \A i \in Rows' : i \in Rows /\ session'[i] = session[i]
      BY <1>1 DEF Prune, Rows
    <2>2. \A i \in Rows : DeviceCurrent(i) \/ AddressCurrent(i) => i \in Rows'
      BY <2>1 DEF Prunable
    <2>3. /\ {i \in Rows : DeviceCurrent(i)}' = {i \in Rows : DeviceCurrent(i)}
          /\ {i \in Rows : AddressCurrent(i)}' = {i \in Rows : AddressCurrent(i)}
      BY <2>1, <2>2 DEF DeviceCurrent, AddressCurrent
    <2> QED BY <2>1, <2>3, StatusUnchanged
  <1>2. CASE Migrate
    <2>1. Rows' = SessionKeep /\ SessionKeep \subseteq Rows
      BY <1>2 DEF Migrate, SessionKeep, Rows
    <2>2. \A i \in SessionKeep :
            /\ session'[i].device = session[i].device
            /\ session'[i].address = session[i].address
            /\ session'[i].online = session[i].online
            /\ session'[i].schemas = session[i].schemas
            /\ session'[i].next_for_device
                  = IF DeviceCurrent(i) THEN Null ELSE NextKept(i, SameDevice)
            /\ session'[i].next_for_address
                  = IF AddressCurrent(i) THEN Null ELSE NextKept(i, SameAddress)
      BY <1>2 DEF Migrate, Update
    <2>3. \A i \in Rows : DeviceCurrent(i) \/ AddressCurrent(i) => i \in SessionKeep
      BY DEF ChainInv, DeviceChain, AddressChain, IsSuccessor, DeviceCurrent,
             AddressCurrent, SessionKeep, LastTwo, SameDevice, SameAddress
    <2>4. \A i \in SessionKeep : /\ DeviceCurrent(i)' <=> DeviceCurrent(i)
                                 /\ AddressCurrent(i)' <=> AddressCurrent(i)
      BY <2>2, KeptStaysSuperseded DEF DeviceCurrent, AddressCurrent
    <2>5. /\ {i \in Rows : DeviceCurrent(i)}' = {i \in Rows : DeviceCurrent(i)}
          /\ {i \in Rows : AddressCurrent(i)}' = {i \in Rows : AddressCurrent(i)}
      BY <2>1, <2>3, <2>4
    <2> QED BY <2>1, <2>2, <2>5, StatusUnchanged
  <1>3. ASSUME NEW d \in Device, NEW a \in Address, NEW schemas \in SUBSET Schema,
               Birth(d, a, schemas)
        PROVE  FALSE
    BY <1>3 DEF Birth, Deletes, Rows
  <1>4. ASSUME NEW S, Close(S), UNCHANGED version PROVE FALSE
    BY <1>4 DEF Close, Deletes, Rows
  <1>5. CASE UNCHANGED <<session, version>>
    BY <1>5 DEF Deletes, Rows
  <1> QED
    BY <1>1, <1>2, <1>3, <1>4, <1>5
    DEF Next, vars, BirthAborted, Death, CloseAll

(* Neither the prune nor the upgrade changes what a client can see.        *)
THEOREM PruneInvisibleCorrect == Spec => PruneInvisible
  BY DeleteKeepsStatus, ChainInvariant, PTL DEF Spec, PruneInvisible

(* The current session and the one before it survive every step, in both   *)
(* chains.                                                                 *)
THEOREM WantedKeptCorrect == Spec => WantedKept
  <1>1. TypeOK /\ ChainInv /\ [Next]_vars => \A i \in Rows : Wanted(i) => i \in Rows'
    <2> SUFFICES ASSUME TypeOK, ChainInv, [Next]_vars, NEW i \in Rows, Wanted(i)
                 PROVE  i \in Rows'
      OBVIOUS
    <2>1. ASSUME NEW d \in Device, Prune(d) PROVE i \in Rows'
      BY <2>1 DEF Prune, Prunable, Wanted, Predecessor, Rows
    <2>2. CASE Migrate
      <3>1. Rows \subseteq Nat
        BY MaxIdAssumption DEF TypeOK
      <3>2. ASSUME DeviceCurrent(i) \/ IsCurrentIn(session[i].next_for_device, DeviceCurrent)
            PROVE  LastTwo(i, SameDevice)
        <4>1. IsSuccessor(session[i].next_for_device, i, SameDevice)
          BY DEF ChainInv, DeviceChain
        <4>2. CASE DeviceCurrent(i)
          BY <4>1, <4>2 DEF IsSuccessor, DeviceCurrent, LastTwo
        <4>3. CASE ~DeviceCurrent(i)
          <5>1. PICK n \in Rows : n = session[i].next_for_device
            BY <4>1, <4>3 DEF IsSuccessor, DeviceCurrent
          <5>2. /\ \A j \in Rows : i < j /\ SameDevice(i, j) => n <= j
                /\ SameDevice(i, n) /\ DeviceCurrent(n)
            BY <3>2, <4>1, <4>3, <5>1 DEF IsSuccessor, DeviceCurrent, IsCurrentIn
          <5>3. \A k \in Rows : n < k => ~SameDevice(n, k)
            BY <5>2 DEF ChainInv, DeviceChain, IsSuccessor, DeviceCurrent
          <5>4. \A k \in Rows : n < k => ~SameDevice(i, k)
            BY <5>2, <5>3 DEF SameDevice
          <5> QED BY <3>1, <5>2, <5>4 DEF LastTwo
        <4> QED BY <4>2, <4>3
      <3>3. ASSUME AddressCurrent(i) \/ IsCurrentIn(session[i].next_for_address, AddressCurrent)
            PROVE  LastTwo(i, SameAddress)
        <4>1. IsSuccessor(session[i].next_for_address, i, SameAddress)
          BY DEF ChainInv, AddressChain
        <4>2. CASE AddressCurrent(i)
          BY <4>1, <4>2 DEF IsSuccessor, AddressCurrent, LastTwo
        <4>3. CASE ~AddressCurrent(i)
          <5>1. PICK n \in Rows : n = session[i].next_for_address
            BY <4>1, <4>3 DEF IsSuccessor, AddressCurrent
          <5>2. /\ \A j \in Rows : i < j /\ SameAddress(i, j) => n <= j
                /\ SameAddress(i, n) /\ AddressCurrent(n)
            BY <3>3, <4>1, <4>3, <5>1 DEF IsSuccessor, AddressCurrent, IsCurrentIn
          <5>3. \A k \in Rows : n < k => ~SameAddress(n, k)
            BY <5>2 DEF ChainInv, AddressChain, IsSuccessor, AddressCurrent
          <5>4. \A k \in Rows : n < k => ~SameAddress(i, k)
            BY <5>2, <5>3 DEF SameAddress
          <5> QED BY <3>1, <5>2, <5>4 DEF LastTwo
        <4> QED BY <4>2, <4>3
      <3>4. LastTwo(i, SameDevice) \/ LastTwo(i, SameAddress)
        BY <3>2, <3>3 DEF Wanted, Predecessor
      <3> QED BY <2>2, <3>4 DEF Migrate, SessionKeep, Rows
    <2>3. ASSUME NEW d \in Device, NEW a \in Address, NEW schemas \in SUBSET Schema,
                 Birth(d, a, schemas)
          PROVE  i \in Rows'
      BY <2>3 DEF Birth, Rows
    <2>4. ASSUME NEW S, Close(S) PROVE i \in Rows'
      BY <2>4 DEF Close, Rows
    <2>5. CASE UNCHANGED session
      BY <2>5 DEF Rows
    <2> QED
      BY <2>1, <2>2, <2>3, <2>4, <2>5 DEF Next, vars, BirthAborted, Death, CloseAll
  <1> QED BY <1>1, ChainInvariant, PTL DEF Spec, WantedKept

-----------------------------------------------------------------------------
(* Change-notify.                                                          *)

(* The invariant.  A session is live if it is the current one of a device;  *)
(* what it replaced, and what its BIRTH changed, are fixed while it is.     *)
Handed == 1 .. seq - 1

Live(i) == i \in Rows /\ DeviceCurrent(i)

Before(i)  == {p \in Rows : session[p].next_for_device = i}
Changes(i) == SymDiff(UNION {session[p].schemas : p \in Before(i)}, session[i].schemas)

(* What a handler holds is still so of a session that is still live.        *)
TopicsTyped(h) == \A t \in h.topics : t.kind = "Device_UUID" => t.what \in Device

AtSchemas(h) ==
    /\ h.id \in Handed /\ h.current \in {Null, h.id}
    /\ Live(h.id) => h.current = h.id /\ Before(h.id) = {h.prev} \ {Null}
    /\ TopicsTyped(h)

AtOldSchemas(h) ==
    /\ h.current \in Handed \cup {Null}
    /\ Live(h.current) => /\ Before(h.current) = {h.prev}
                          /\ h.schemas = session[h.current].schemas
    /\ TopicsTyped(h)

AtPrune(h) ==
    /\ h.current \in Handed \cup {Null} /\ h.device \in Device
    /\ Live(h.current) => h.diff = Changes(h.current)

HandlerInv(h) ==
    \/ h.pc = "info" /\ h.id \in Handed
    \/ h.pc = "schemas" /\ AtSchemas(h)
    \/ h.pc = "oldSchemas" /\ AtOldSchemas(h)
    \/ h.pc = "prune" /\ AtPrune(h)

(* A change that is owed is in the hands of a handler.                      *)
Running == BagToSet(handlers)

Holds(h, topic) == h.pc \in {"schemas", "oldSchemas"} /\ topic \in h.topics

DeviceHeld(d) ==
    \E h \in Running : (h.pc = "info" /\ h.id \in OfDevice(d)) \/ Holds(h, DeviceTopic(d))

AddressHeld(a) ==
    \E h \in Running : (h.pc = "info" /\ h.id \in OfAddress(a)) \/ Holds(h, AddressTopic(a))

Handles(h, i) ==
    \/ h.pc \in {"info", "schemas"} /\ h.id = i
    \/ h.pc = "oldSchemas" /\ h.current = i

SchemaHeld(s, i) == s \in Changes(i) /\ \E h \in Running : Handles(h, i)

OwedInv(o) ==
    \/ \E d \in Device : o = DeviceTopic(d) /\ DeviceHeld(d)
    \/ \E a \in Address : o = AddressTopic(a) /\ AddressHeld(a)
    \/ \E s \in Schema, i \in Handed : o = SchemaTopic(s, i) /\ (Live(i) => SchemaHeld(s, i))

TableInv == TypeOK /\ ChainInv

NotifyInv ==
    /\ TableInv /\ IsABag(handlers)
    /\ \A h \in Running : HandlerInv(h)
    /\ \A o \in owed : OwedInv(o)

-----------------------------------------------------------------------------
(* The handlers that run, as a set.                                         *)

(* A trigger adds the handlers of the rows it was run for.                  *)
LEMMA NotifyRuns ==
    ASSUME IsABag(handlers), NEW rows, Notify(rows)
    PROVE  IsABag(handlers') /\ Running' = Running \cup {AtInfo(i) : i \in rows}
  <1> DEFINE S == {AtInfo(i) : i \in rows}
  <1>1. handlers' = handlers (+) SetToBag(S)
    BY DEF Notify
  <1> HIDE DEF S
  <1>2. /\ DOMAIN handlers' = DOMAIN handlers \cup S
        /\ \A e \in DOMAIN handlers' :
              handlers'[e] = (IF e \in DOMAIN handlers THEN handlers[e] ELSE 0)
                               + (IF e \in S THEN 1 ELSE 0)
        /\ handlers' = [e \in DOMAIN handlers' |-> handlers'[e]]
    BY <1>1 DEF SetToBag, (+)
  <1>3. IsABag(handlers')
    BY <1>2 DEF IsABag
  <1> QED BY <1>2, <1>3 DEF Running, BagToSet, S

(* A handler that goes on leaves the others, and copies of itself, as they  *)
(* are.                                                                     *)
LEMMA ResumeRuns ==
    ASSUME IsABag(handlers), NEW h \in Running, NEW next, Resume(h, next)
    PROVE  /\ IsABag(handlers')
           /\ Running \ {h} \subseteq Running' /\ next \subseteq Running'
           /\ Running' \subseteq Running \cup next
  <1>1. PICK B : B = handlers (-) SetToBag({h})
    OBVIOUS
  <1>2. /\ DOMAIN B \subseteq DOMAIN handlers /\ DOMAIN handlers \ {h} \subseteq DOMAIN B
        /\ \A e \in DOMAIN B : B[e] \in Nat /\ B[e] > 0
    BY <1>1 DEF SetToBag, (-), IsABag
  <1>3. handlers' = B (+) SetToBag(next)
    BY <1>1 DEF Resume
  <1>4. /\ DOMAIN handlers' = DOMAIN B \cup next
        /\ \A e \in DOMAIN handlers' :
              handlers'[e] = (IF e \in DOMAIN B THEN B[e] ELSE 0) + (IF e \in next THEN 1 ELSE 0)
        /\ handlers' = [e \in DOMAIN handlers' |-> handlers'[e]]
    BY <1>3 DEF SetToBag, (+)
  <1>5. IsABag(handlers')
    BY <1>2, <1>4 DEF IsABag
  <1> QED BY <1>2, <1>4, <1>5 DEF Running, BagToSet

-----------------------------------------------------------------------------
(* What steps of the table leave alone.                                     *)

(* A session that is live after a step was so before it, and the row it     *)
(* replaced, and what the two used, are the same.                           *)
LiveKept ==
    /\ Handed \subseteq Handed'
    /\ \A i \in Handed : Live(i)' =>
          /\ Live(i) /\ Before(i)' = Before(i) /\ Changes(i)' = Changes(i)
          /\ session'[i].schemas = session[i].schemas

(* It is enough that this is so of each pointer to it.                      *)
LEMMA PointersKept ==
    ASSUME Handed \subseteq Handed',
           \A p \in Rows \cap Rows' : session'[p].schemas = session[p].schemas,
           \A i \in Handed : Live(i)' => Live(i) /\ \A p :
              (p \in Rows' /\ session'[p].next_for_device = i)
                  <=> (p \in Rows /\ session[p].next_for_device = i)
    PROVE  LiveKept
  <1> SUFFICES ASSUME NEW i \in Handed, Live(i)'
               PROVE  /\ Live(i) /\ Before(i)' = Before(i) /\ Changes(i)' = Changes(i)
                      /\ session'[i].schemas = session[i].schemas
    BY DEF LiveKept
  <1>1. Live(i) /\ Before(i)' = Before(i)
    BY DEF Before
  <1>2. session'[i].schemas = session[i].schemas
    BY <1>1 DEF Live
  <1>3. \A p \in Before(i) : session'[p].schemas = session[p].schemas
    BY <1>1 DEF Before
  <1>4. {session[p].schemas : p \in Before(i)}' = {session[p].schemas : p \in Before(i)}
    BY <1>1, <1>3
  <1> QED BY <1>1, <1>2, <1>4 DEF Changes

(* A new session takes over only from sessions that were live; it has not   *)
(* been handed out before.                                                  *)
LEMMA BirthKeepsLive ==
    ASSUME TableInv, NEW d \in Device, NEW a \in Address, NEW schemas \in SUBSET Schema,
           Birth(d, a, schemas)
    PROVE  LiveKept
  <1>0. PICK new \in Nat \ {0} : new = seq
    BY MaxIdAssumption DEF TableInv, TypeOK
  <1>1. /\ Rows' = Rows \cup {new} /\ new \notin Rows /\ Rows \subseteq Handed
        /\ Handed = 1 .. new - 1 /\ Handed' = 1 .. new
    BY <1>0 DEF Birth, TableInv, TypeOK, Rows, Handed
  <1>2. session'[new].next_for_device = Null
    BY <1>0, <1>1 DEF Birth, NewSession, Rows
  <1>3. \A p \in Rows :
        /\ session'[p].schemas = session[p].schemas
        /\ \/ session'[p].next_for_device = session[p].next_for_device
           \/ session[p].next_for_device = Null /\ session'[p].next_for_device = new
    BY <1>0, <1>1 DEF Birth, Superseded, Update, OfDevice, DeviceCurrent, Rows
  <1>4. new # Null /\ Null \notin Handed /\ new \notin Handed
    BY <1>1 DEF Null
  <1>5. \A i \in Handed : Live(i)' => Live(i)
    BY <1>1, <1>3, <1>4 DEF Live, DeviceCurrent
  <1>6. ASSUME NEW i \in Handed, NEW p
        PROVE  (p \in Rows' /\ session'[p].next_for_device = i)
                  <=> (p \in Rows /\ session[p].next_for_device = i)
    BY <1>1, <1>2, <1>3, <1>4
  <1>7. Handed \subseteq Handed'
    BY <1>1
  <1> QED BY <1>1, <1>3, <1>5, <1>6, <1>7, PointersKept

(* A death changes no pointer.                                              *)
LEMMA CloseKeepsLive ==
    ASSUME TableInv, NEW S, Close(S), UNCHANGED seq
    PROVE  LiveKept
  <1>1. Rows' = Rows /\ Handed' = Handed
    BY DEF Close, Rows, Handed
  <1>2. \A p \in Rows : /\ session'[p].next_for_device = session[p].next_for_device
                        /\ session'[p].schemas = session[p].schemas
    BY DEF Close, Update
  <1> QED BY <1>1, <1>2, PointersKept DEF Live, DeviceCurrent

(* The prune deletes no predecessor of a live session.                      *)
LEMMA PruneKeepsLive ==
    ASSUME TableInv, NEW d \in Device, Prune(d)
    PROVE  /\ LiveKept
           /\ \A e : OfDevice(e)' = OfDevice(e)
           /\ \A a : OfAddress(a)' = OfAddress(a)
  <1>1. /\ Rows' = Rows \ Prunable(d) /\ Handed' = Handed
        /\ \A i \in Rows' : i \in Rows /\ session'[i] = session[i]
    BY DEF Prune, Rows, Handed
  <1>2. \A p \in Rows : Live(session[p].next_for_device) => p \in Rows'
    BY <1>1 DEF Prunable, IsCurrentIn, Live
  <1>3. \A i \in Rows : DeviceCurrent(i) \/ AddressCurrent(i) => i \in Rows'
    BY <1>1 DEF Prunable
  <1>4. \A i \in Handed : Live(i)' => Live(i)
    BY <1>1 DEF Live, DeviceCurrent
  <1>5. LiveKept
    BY <1>1, <1>2, <1>4, PointersKept
  <1>6. \A e : OfDevice(e)' = OfDevice(e)
    BY <1>1, <1>3 DEF OfDevice, DeviceCurrent
  <1>7. \A a : OfAddress(a)' = OfAddress(a)
    BY <1>1, <1>3 DEF OfAddress, AddressCurrent
  <1> QED BY <1>5, <1>6, <1>7

(* Reading changes nothing.                                                 *)
LEMMA SameTable ==
    ASSUME UNCHANGED table
    PROVE  /\ LiveKept /\ (TableInv => TableInv')
           /\ \A d : OfDevice(d)' = OfDevice(d)
           /\ \A a : OfAddress(a)' = OfAddress(a)
           /\ \A i : Live(i)' = Live(i) /\ Changes(i)' = Changes(i)
  <1>1. session' = session /\ seq' = seq /\ version' = version /\ Rows' = Rows
    BY DEF table, Rows
  <1>2. LiveKept
    BY <1>1 DEF LiveKept, Handed, Live, Before, Changes, DeviceCurrent
  <1>3. TableInv => TableInv'
    BY <1>1 DEF TableInv, TypeOK, ChainInv, DeviceChain, AddressChain, HasCurrent, OnlineIsCurrent,
       IsSuccessor, SameDevice, SameAddress, DeviceCurrent, AddressCurrent
  <1>4. \A i : Live(i)' = Live(i) /\ Changes(i)' = Changes(i)
    BY <1>1 DEF Live, Before, Changes, DeviceCurrent
  <1> QED BY <1>1, <1>2, <1>3, <1>4 DEF OfDevice, OfAddress, DeviceCurrent, AddressCurrent

(* The table's own invariants are kept by its steps.                        *)
LEMMA TableKept ==
    ASSUME TableInv,
           \/ \E d \in Device, a \in Address, schemas \in SUBSET Schema : Birth(d, a, schemas)
           \/ \E a \in Address : Death(a)
           \/ CloseAll
           \/ \E d \in Device : Prune(d)
    PROVE  TableInv'
  <1>1. Next
    BY DEF Next
  <1> QED BY <1>1, NextKeepsTypes, NextKeepsChains DEF TableInv

(* What a handler holds of live sessions stays true.                        *)
LEMMA HandlerKept ==
    ASSUME LiveKept, TableInv', NEW h, HandlerInv(h)
    PROVE  HandlerInv(h)'
  <1>1. Handed \subseteq Handed' /\ ~Live(Null)'
    <2>1. Handed \subseteq Handed'
      BY DEF LiveKept
    <2>2. Null \notin Rows'
      <3>1. Rows' \in SUBSET (1 .. seq' - 1)
        BY DEF TableInv, TypeOK
      <3> QED BY <3>1 DEF Null
    <2> QED BY <2>1, <2>2 DEF Live
  <1>2. CASE h.pc = "info" /\ h.id \in Handed
    BY <1>1, <1>2 DEF HandlerInv
  <1>3. CASE h.pc = "schemas" /\ AtSchemas(h)
    BY <1>1, <1>3 DEF HandlerInv, AtSchemas, LiveKept, TopicsTyped
  <1>4. CASE h.pc = "oldSchemas" /\ AtOldSchemas(h)
    BY <1>1, <1>4 DEF HandlerInv, AtOldSchemas, LiveKept, TopicsTyped
  <1>5. CASE h.pc = "prune" /\ AtPrune(h)
    BY <1>1, <1>5 DEF HandlerInv, AtPrune, LiveKept
  <1> QED BY <1>2, <1>3, <1>4, <1>5 DEF HandlerInv

-----------------------------------------------------------------------------
(* What is owed.                                                            *)

(* A transaction that writes rows starts a handler for each.  It is enough  *)
(* that a device, or an address, whose view has changed has a current row   *)
(* among them, or keeps its current row, and that a change of schemas is    *)
(* one that the handler of its session will find.                           *)
LEMMA OwedNotify ==
    ASSUME NotifyInv, LiveKept, NEW rows, Notify(rows), NEW changes, Owe(changes),
           \A d \in Device :
              \/ OfDevice(d)' = OfDevice(d) /\ DeviceView(d)' = DeviceView(d)
              \/ \E i \in rows : i \in OfDevice(d)',
           \A a \in Address :
              \/ OfAddress(a)' = OfAddress(a) /\ AddressView(a)' = AddressView(a)
              \/ \E i \in rows : i \in OfAddress(a)',
           \A o \in changes : \E s \in Schema, i \in rows :
              i \in Handed' /\ o = SchemaTopic(s, i) /\ (Live(i)' => s \in Changes(i)')
    PROVE  \A o \in owed' : OwedInv(o)'
  <1>1. Running \subseteq Running' /\ \A i \in rows : AtInfo(i) \in Running'
    BY NotifyRuns DEF NotifyInv
  <1>2. \A i \in rows : AtInfo(i).pc = "info" /\ AtInfo(i).id = i
    BY DEF AtInfo
  <1>3. ASSUME NEW d \in Device, \E i \in rows : i \in OfDevice(d)' PROVE DeviceHeld(d)'
    BY <1>1, <1>2, <1>3 DEF DeviceHeld
  <1>4. ASSUME NEW d \in Device, DeviceHeld(d) PROVE DeviceHeld(d)'
    <2>1. CASE OfDevice(d)' = OfDevice(d)
      BY <1>1, <1>4, <2>1 DEF DeviceHeld
    <2>2. CASE \E i \in rows : i \in OfDevice(d)'
      BY <1>3, <2>2
    <2> QED BY <2>1, <2>2
  <1>5. ASSUME NEW a \in Address, \E i \in rows : i \in OfAddress(a)' PROVE AddressHeld(a)'
    BY <1>1, <1>2, <1>5 DEF AddressHeld
  <1>6. ASSUME NEW a \in Address, AddressHeld(a) PROVE AddressHeld(a)'
    <2>1. CASE OfAddress(a)' = OfAddress(a)
      BY <1>1, <1>6, <2>1 DEF AddressHeld
    <2>2. CASE \E i \in rows : i \in OfAddress(a)'
      BY <1>5, <2>2
    <2> QED BY <2>1, <2>2
  <1>7. ASSUME NEW s \in Schema, NEW i \in Handed, Live(i) => SchemaHeld(s, i)
        PROVE  i \in Handed' /\ (Live(i)' => SchemaHeld(s, i)')
    BY <1>1, <1>7 DEF LiveKept, SchemaHeld
  <1>8. ASSUME NEW o \in owed PROVE OwedInv(o)'
    <2>1. OwedInv(o)
      BY DEF NotifyInv
    <2>2. CASE \E d \in Device : o = DeviceTopic(d) /\ DeviceHeld(d)
      BY <1>4, <2>2 DEF OwedInv
    <2>3. CASE \E a \in Address : o = AddressTopic(a) /\ AddressHeld(a)
      BY <1>6, <2>3 DEF OwedInv
    <2>4. CASE \E s \in Schema, i \in Handed :
                  o = SchemaTopic(s, i) /\ (Live(i) => SchemaHeld(s, i))
      BY <1>7, <2>4 DEF OwedInv
    <2> QED BY <2>1, <2>2, <2>3, <2>4 DEF OwedInv
  <1>9. ASSUME NEW d \in Device, DeviceView(d)' # DeviceView(d) PROVE OwedInv(DeviceTopic(d))'
    <2>1. DeviceHeld(d)'
      BY <1>3, <1>9
    <2> QED BY <2>1 DEF OwedInv
  <1>10. ASSUME NEW a \in Address, AddressView(a)' # AddressView(a)
         PROVE  OwedInv(AddressTopic(a))'
    <2>1. AddressHeld(a)'
      BY <1>5, <1>10
    <2> QED BY <2>1 DEF OwedInv
  <1>11. ASSUME NEW o \in changes PROVE OwedInv(o)'
    <2>1. PICK s \in Schema, i \in rows :
              i \in Handed' /\ o = SchemaTopic(s, i) /\ (Live(i)' => s \in Changes(i)')
      OBVIOUS
    <2>2. Handles(AtInfo(i), i)
      BY <1>2 DEF Handles
    <2>3. Live(i)' => SchemaHeld(s, i)'
      BY <1>1, <2>1, <2>2 DEF SchemaHeld
    <2> QED BY <2>1, <2>3 DEF OwedInv
  <1> QED BY <1>8, <1>9, <1>10, <1>11 DEF Owe

(* A step of a handler: it is enough that what it had in hand is published, *)
(* or is in the hands of a handler after the step.                          *)
LEMMA OwedResume ==
    ASSUME NotifyInv, LiveKept, NEW h \in Running, Running \ {h} \subseteq Running',
           \A d : OfDevice(d)' = OfDevice(d), \A a : OfAddress(a)' = OfAddress(a),
           NEW o \in owed,
           \A d \in Device :
              o = DeviceTopic(d) /\ ((h.pc = "info" /\ h.id \in OfDevice(d)) \/ Holds(h, o))
                  => DeviceHeld(d)',
           \A a \in Address :
              o = AddressTopic(a) /\ ((h.pc = "info" /\ h.id \in OfAddress(a)) \/ Holds(h, o))
                  => AddressHeld(a)',
           \A s \in Schema, i \in Handed :
              o = SchemaTopic(s, i) /\ Live(i) /\ s \in Changes(i) /\ Handles(h, i)
                  => \E k \in Running' : Handles(k, i)
    PROVE  OwedInv(o)'
  <1>1. OwedInv(o)
    BY DEF NotifyInv
  <1>2. ASSUME NEW d \in Device, o = DeviceTopic(d), DeviceHeld(d) PROVE DeviceHeld(d)'
    <2>1. PICK k \in Running :
              (k.pc = "info" /\ k.id \in OfDevice(d)) \/ Holds(k, DeviceTopic(d))
      BY <1>2 DEF DeviceHeld
    <2>2. CASE k = h
      BY <1>2, <2>1, <2>2
    <2>3. CASE k # h
      <3>1. k \in Running'
        BY <2>3
      <3> QED BY <2>1, <3>1 DEF DeviceHeld
    <2> QED BY <2>2, <2>3
  <1>3. ASSUME NEW a \in Address, o = AddressTopic(a), AddressHeld(a) PROVE AddressHeld(a)'
    <2>1. PICK k \in Running :
              (k.pc = "info" /\ k.id \in OfAddress(a)) \/ Holds(k, AddressTopic(a))
      BY <1>3 DEF AddressHeld
    <2>2. CASE k = h
      BY <1>3, <2>1, <2>2
    <2>3. CASE k # h
      <3>1. k \in Running'
        BY <2>3
      <3> QED BY <2>1, <3>1 DEF AddressHeld
    <2> QED BY <2>2, <2>3
  <1>4. ASSUME NEW s \in Schema, NEW i \in Handed, o = SchemaTopic(s, i),
               Live(i) => SchemaHeld(s, i), Live(i)'
        PROVE  SchemaHeld(s, i)'
    <2>1. Live(i) /\ Changes(i)' = Changes(i) /\ s \in Changes(i)
      BY <1>4 DEF LiveKept, SchemaHeld
    <2>2. PICK k \in Running : Handles(k, i)
      BY <1>4, <2>1 DEF SchemaHeld
    <2>3. CASE k = h
      BY <1>4, <2>1, <2>2, <2>3 DEF SchemaHeld
    <2>4. CASE k # h
      <3>1. k \in Running'
        BY <2>4
      <3> QED BY <2>1, <2>2, <3>1 DEF SchemaHeld
    <2> QED BY <2>3, <2>4
  <1>5. Handed \subseteq Handed'
    BY DEF LiveKept
  <1>6. CASE \E d \in Device : o = DeviceTopic(d) /\ DeviceHeld(d)
    BY <1>2, <1>6 DEF OwedInv
  <1>7. CASE \E a \in Address : o = AddressTopic(a) /\ AddressHeld(a)
    BY <1>3, <1>7 DEF OwedInv
  <1>8. CASE \E s \in Schema, i \in Handed :
                o = SchemaTopic(s, i) /\ (Live(i) => SchemaHeld(s, i))
    BY <1>4, <1>5, <1>8 DEF OwedInv
  <1> QED BY <1>1, <1>6, <1>7, <1>8 DEF OwedInv

-----------------------------------------------------------------------------
(* The steps.                                                               *)

(* The ingester starts on an empty table, or on one open session.           *)
LEMMA NotifyInitInv == NotifyInit => NotifyInv
  <1> SUFFICES ASSUME NotifyInit PROVE NotifyInv
    OBVIOUS
  <1>1. TableInv
    <2>1. CASE session = [i \in {} |-> Null] /\ seq = 1
      BY <2>1, MaxIdAssumption DEF NotifyInit, TableInv, TypeOK, ChainInv, DeviceChain,
         AddressChain, HasCurrent, OnlineIsCurrent, Rows
    <2>2. ASSUME NEW d \in Device, NEW a \in Address, NEW schemas \in SUBSET Schema,
                 session = [i \in {1} |-> NewSession(d, a, schemas)], seq = 2
          PROVE  TableInv
      <3>1. /\ Rows = {1} /\ session[1] \in Session
            /\ session[1].next_for_device = Null /\ session[1].next_for_address = Null
        BY <2>2 DEF Rows, NewSession, Session
      <3>2. TypeOK
        BY <2>2, <3>1, MaxIdAssumption DEF NotifyInit, TypeOK, Rows
      <3>3. ChainInv
        BY <3>1 DEF ChainInv, DeviceChain, AddressChain, HasCurrent, OnlineIsCurrent, IsSuccessor,
           SameDevice, SameAddress, DeviceCurrent, AddressCurrent
      <3> QED BY <3>2, <3>3 DEF TableInv
    <2> QED BY <2>1, <2>2 DEF NotifyInit
  <1>2. IsABag(handlers) /\ Running = {}
    BY DEF NotifyInit, EmptyBag, SetToBag, IsABag, Running, BagToSet
  <1> QED BY <1>1, <1>2 DEF NotifyInit, NotifyInv

(* A step that writes rows keeps the invariant if what it owes is held.     *)
LEMMA WriteKeeps ==
    ASSUME NotifyInv, TableInv', LiveKept, NEW rows, Notify(rows), rows \subseteq Handed',
           \A o \in owed' : OwedInv(o)'
    PROVE  NotifyInv'
  <1>1. IsABag(handlers') /\ Running' = Running \cup {AtInfo(i) : i \in rows}
    BY NotifyRuns DEF NotifyInv
  <1>2. ASSUME NEW h \in Running' PROVE HandlerInv(h)'
    <2>1. CASE h \in Running
      BY <2>1, HandlerKept DEF NotifyInv
    <2>2. ASSUME NEW i \in rows, h = AtInfo(i) PROVE HandlerInv(h)'
      BY <2>2 DEF AtInfo, HandlerInv
    <2> QED BY <1>1, <2>1, <2>2
  <1> QED BY <1>1, <1>2 DEF NotifyInv

(* A BIRTH starts handlers for the new session and for those it replaces.   *)
LEMMA BirthNotifies ==
    ASSUME NotifyInv, NEW d \in Device, NEW a \in Address, NEW schemas \in SUBSET Schema,
           BirthN(d, a, schemas)
    PROVE  NotifyInv'
  <1>0. PICK new \in Nat \ {0} : new = seq
    BY MaxIdAssumption DEF NotifyInv, TableInv, TypeOK
  <1>1. PICK rows : rows = {new} \cup OfDevice(d) \cup OfAddress(a)
    OBVIOUS
  <1>2. PICK changes : changes = {SchemaTopic(s, new) : s \in
            SymDiff(UNION {session[i].schemas : i \in OfDevice(d)}, schemas)}
    OBVIOUS
  <1>3. Birth(d, a, schemas) /\ Notify(rows) /\ Owe(changes) /\ TypeOK /\ TableInv
    BY <1>0, <1>1, <1>2 DEF BirthN, NotifyInv, TableInv
  <1>4. TableInv' /\ LiveKept
    BY <1>3, TableKept, BirthKeepsLive
  <1>5. /\ Rows' = Rows \cup {new} /\ new \notin Rows /\ Rows \subseteq Nat
        /\ Rows \subseteq Handed /\ Handed' = 1 .. new /\ Handed = 1 .. new - 1
    BY <1>0, <1>3 DEF Birth, TypeOK, Rows, Handed
  <1>6. session'[new] = NewSession(d, a, schemas)
    BY <1>0, <1>3, <1>5 DEF Birth, Rows
  <1>8. new \in OfDevice(d)' /\ new \in OfAddress(a)'
    BY <1>5, <1>6 DEF NewSession, OfDevice, OfAddress, DeviceCurrent, AddressCurrent
  <1>9. rows \subseteq Handed'
    <2>1. OfDevice(d) \subseteq Rows /\ OfAddress(a) \subseteq Rows
      BY DEF OfDevice, OfAddress
    <2>2. Rows \subseteq Handed' /\ new \in Handed'
      BY <1>5
    <2> QED BY <1>1, <2>1, <2>2
  <1>10. \A i \in Rows :
        /\ session'[i].device = session[i].device /\ session'[i].address = session[i].address
        /\ i \notin OfDevice(d) => session'[i].next_for_device = session[i].next_for_device
        /\ i \in OfDevice(d) => session'[i].next_for_device = new
        /\ i \notin OfAddress(a) => session'[i].next_for_address = session[i].next_for_address
        /\ i \notin OfDevice(d) \cup OfAddress(a) => session'[i].online = session[i].online
        /\ session'[i].schemas = session[i].schemas
    <2>1. \A i \in Rows : session[i].online \in BOOLEAN
      BY <1>3 DEF TypeOK, Session
    <2>2. \A i \in Rows :
            /\ session'[i].device = session[i].device
            /\ session'[i].address = session[i].address
            /\ session'[i].schemas = session[i].schemas
            /\ session'[i].online = (session[i].online
                                      /\ i \notin OfDevice(d) \cup OfAddress(a))
            /\ session'[i].next_for_device
                  = IF i \in OfDevice(d) THEN new ELSE session[i].next_for_device
            /\ session'[i].next_for_address
                  = IF i \in OfAddress(a) THEN new ELSE session[i].next_for_address
      BY <1>0, <1>3, <1>5 DEF Birth, Superseded, Update, Rows
    <2> QED BY <2>1, <2>2
  <1>11. session'[new].device = d /\ session'[new].address = a /\ session'[new].schemas = schemas
    BY <1>6 DEF NewSession
  <1>12. ASSUME NEW e \in Device
         PROVE  \/ OfDevice(e)' = OfDevice(e) /\ DeviceView(e)' = DeviceView(e)
                \/ \E i \in rows : i \in OfDevice(e)'
    <2>1. CASE e = d
      BY <1>1, <1>8, <2>1
    <2>2. CASE e # d
      <3>1. OfDevice(e)' = OfDevice(e) /\ OfDevice(e) \cap OfDevice(d) = {}
        BY <1>5, <1>10, <1>11, <2>2 DEF OfDevice, DeviceCurrent
      <3>2. CASE OfDevice(e) \cap OfAddress(a) = {}
        <4>1. \A i \in OfDevice(e) : session'[i].online = session[i].online
          BY <1>10, <3>1, <3>2 DEF OfDevice
        <4> QED BY <3>1, <4>1 DEF DeviceView
      <3>3. CASE OfDevice(e) \cap OfAddress(a) # {}
        BY <1>1, <3>1, <3>3
      <3> QED BY <3>2, <3>3
    <2> QED BY <2>1, <2>2
  <1>13. ASSUME NEW b \in Address
         PROVE  \/ OfAddress(b)' = OfAddress(b) /\ AddressView(b)' = AddressView(b)
                \/ \E i \in rows : i \in OfAddress(b)'
    <2>1. CASE b = a
      BY <1>1, <1>8, <2>1
    <2>2. CASE b # a
      <3>1. OfAddress(b)' = OfAddress(b) /\ OfAddress(b) \cap OfAddress(a) = {}
        BY <1>5, <1>10, <1>11, <2>2 DEF OfAddress, AddressCurrent
      <3>2. CASE OfAddress(b) \cap OfDevice(d) = {}
        <4>1. \A i \in OfAddress(b) : /\ session'[i].online = session[i].online
                                      /\ session'[i].device = session[i].device
          BY <1>10, <3>1, <3>2 DEF OfAddress
        <4> QED BY <3>1, <4>1 DEF AddressView
      <3>3. CASE OfAddress(b) \cap OfDevice(d) # {}
        BY <1>1, <3>1, <3>3
      <3> QED BY <3>2, <3>3
    <2> QED BY <2>1, <2>2
  <1>14. Before(new)' = OfDevice(d)
    <2>1. \A i \in Rows : session[i].next_for_device # new
      <3>1. \A i \in Rows : IsSuccessor(session[i].next_for_device, i, SameDevice)
        BY <1>3 DEF TableInv, ChainInv, DeviceChain
      <3> QED BY <1>5, <3>1 DEF IsSuccessor, Null
    <2>2. session'[new].next_for_device # new
      BY <1>6 DEF NewSession, Null
    <2> QED BY <1>5, <1>10, <2>1, <2>2 DEF Before, OfDevice
  <1>15. Changes(new)' = SymDiff(UNION {session[i].schemas : i \in OfDevice(d)}, schemas)
    <2>1. {session[i].schemas : i \in Before(new)}' = {session[i].schemas : i \in OfDevice(d)}
      BY <1>10, <1>14 DEF OfDevice
    <2> QED BY <1>11, <2>1 DEF Changes
  <1>16. \A o \in changes : \E s \in Schema, i \in rows :
              i \in Handed' /\ o = SchemaTopic(s, i) /\ (Live(i)' => s \in Changes(i)')
    <2>1. SymDiff(UNION {session[i].schemas : i \in OfDevice(d)}, schemas) \subseteq Schema
      BY <1>3 DEF SymDiff, OfDevice, TypeOK, Session
    <2>2. new \in rows /\ new \in Handed'
      BY <1>1, <1>9
    <2> QED BY <1>2, <1>15, <2>1, <2>2
  <1>17. \A o \in owed' : OwedInv(o)'
    BY <1>3, <1>4, <1>12, <1>13, <1>16, OwedNotify
  <1> QED BY <1>3, <1>4, <1>9, <1>17, WriteKeeps

(* A death, or the close of all sessions, starts one for each it closes.    *)
LEMMA CloseNotifies ==
    ASSUME NotifyInv, TableInv', NEW S \in SUBSET Rows, Close(S), UNCHANGED seq,
           Notify(S), Owe({})
    PROVE  NotifyInv'
  <1>1. LiveKept
    BY CloseKeepsLive DEF NotifyInv
  <1>2. Rows' = Rows /\ Handed' = Handed /\ S \subseteq Handed'
    BY DEF Close, Rows, Handed, NotifyInv, TableInv, TypeOK
  <1>3. \A i \in Rows :
        /\ session'[i].device = session[i].device /\ session'[i].address = session[i].address
        /\ session'[i].next_for_device = session[i].next_for_device
        /\ session'[i].next_for_address = session[i].next_for_address
        /\ i \notin S => session'[i].online = session[i].online
    BY DEF Close, Update, NotifyInv, TableInv, TypeOK, Session
  <1>4. \A d : OfDevice(d)' = OfDevice(d)
    BY <1>2, <1>3 DEF OfDevice, DeviceCurrent
  <1>5. \A a : OfAddress(a)' = OfAddress(a)
    BY <1>2, <1>3 DEF OfAddress, AddressCurrent
  <1>6. ASSUME NEW d \in Device, OfDevice(d) \cap S = {} PROVE DeviceView(d)' = DeviceView(d)
    <2>1. \A i \in OfDevice(d) : session'[i].online = session[i].online
      BY <1>3, <1>6 DEF OfDevice
    <2> QED BY <1>4, <2>1 DEF DeviceView
  <1>7. ASSUME NEW a \in Address, OfAddress(a) \cap S = {} PROVE AddressView(a)' = AddressView(a)
    <2>1. \A i \in OfAddress(a) : /\ session'[i].online = session[i].online
                                  /\ session'[i].device = session[i].device
      BY <1>3, <1>7 DEF OfAddress
    <2> QED BY <1>5, <2>1 DEF AddressView
  <1>8. \A d \in Device : \/ OfDevice(d)' = OfDevice(d) /\ DeviceView(d)' = DeviceView(d)
                          \/ \E i \in S : i \in OfDevice(d)'
    BY <1>4, <1>6
  <1>9. \A a \in Address : \/ OfAddress(a)' = OfAddress(a) /\ AddressView(a)' = AddressView(a)
                           \/ \E i \in S : i \in OfAddress(a)'
    BY <1>5, <1>7
  <1>10. PICK none : none = {}
    OBVIOUS
  <1>11. \A o \in owed' : OwedInv(o)'
    BY <1>1, <1>8, <1>9, <1>10, OwedNotify
  <1> QED BY <1>1, <1>2, <1>11, WriteKeeps

-----------------------------------------------------------------------------
(* A handler reads, publishes and prunes.                                   *)

(* No session precedes a live one but the one before it in the chain.       *)
LEMMA OneBefore ==
    ASSUME TableInv, NEW i, NEW p \in Before(i), NEW q \in Before(i), i \in Rows
    PROVE  p = q
  <1>1. Rows \subseteq Nat \ {0} /\ p \in Rows /\ q \in Rows
    BY MaxIdAssumption DEF TableInv, TypeOK, Before
  <1>2. IsSuccessor(i, p, SameDevice) /\ IsSuccessor(i, q, SameDevice)
    BY DEF TableInv, ChainInv, DeviceChain, Before
  <1>3. /\ p < i /\ q < i /\ SameDevice(p, q)
        /\ \A j \in Rows : p < j /\ SameDevice(p, j) => i <= j
        /\ \A j \in Rows : q < j /\ SameDevice(q, j) => i <= j
    BY <1>1, <1>2 DEF IsSuccessor, SameDevice, Null
  <1>4. SameDevice(q, p)
    BY <1>3 DEF SameDevice
  <1> QED BY <1>1, <1>3, <1>4

(* A step that reads leaves the handlers that hold on to what is so.        *)
LEMMA ReadKeeps ==
    ASSUME NotifyInv, UNCHANGED table, NEW h \in Running, NEW next, Resume(h, next),
           \A k \in next : HandlerInv(k), \A o \in owed' : OwedInv(o)'
    PROVE  NotifyInv'
  <1>1. LiveKept /\ TableInv'
    BY SameTable DEF NotifyInv
  <1>2. IsABag(handlers') /\ Running' \subseteq Running \cup next
    BY ResumeRuns DEF NotifyInv
  <1>3. ASSUME NEW k \in Running' PROVE HandlerInv(k)'
    <2>1. HandlerInv(k)
      BY <1>2 DEF NotifyInv
    <2> QED BY <1>1, <2>1, HandlerKept
  <1> QED BY <1>1, <1>2, <1>3 DEF NotifyInv

(* session_notification_info reads the row, and the one before it.          *)
LEMMA ReadInfoKeeps ==
    ASSUME NotifyInv, NEW h \in Running, ReadInfo(h)
    PROVE  NotifyInv'
  <1>1. h.pc = "info" /\ UNCHANGED <<table, owed>> /\ TableInv /\ h.id \in Handed
    BY DEF ReadInfo, NotifyInv, HandlerInv
  <1>2. /\ LiveKept /\ \A d : OfDevice(d)' = OfDevice(d) /\ \A a : OfAddress(a)' = OfAddress(a)
    BY <1>1, SameTable
  <1>3. CASE h.id \notin Rows /\ Resume(h, {})
    <2>1. Running \ {h} \subseteq Running'
      BY <1>3, ResumeRuns DEF NotifyInv
    <2>2. \A d : h.id \notin OfDevice(d)
      BY <1>3 DEF OfDevice
    <2>3. \A a : h.id \notin OfAddress(a)
      BY <1>3 DEF OfAddress
    <2>4. \A o : ~Holds(h, o)
      BY <1>1 DEF Holds
    <2>5. \A i : Live(i) => ~Handles(h, i)
      BY <1>1, <1>3 DEF Live, Handles
    <2>6. ASSUME NEW o \in owed' PROVE OwedInv(o)'
      BY <1>1, <1>2, <2>1, <2>2, <2>3, <2>4, <2>5, OwedResume
    <2> QED BY <1>1, <1>3, <2>6, ReadKeeps
  <1>4. CASE h.id \in Rows /\ ~(h.id \notin Rows /\ Resume(h, {}))
    <2>1. PICK i : i = h.id
      OBVIOUS
    <2>2. PICK prev \in Before(i) \cup {Null} :
            /\ prev = Null => Before(i) = {}
            /\ Resume(h, {[pc |-> "schemas", id |-> i, prev |-> prev,
                           topics |-> CurrentTopics(i),
                           current |-> IF DeviceCurrent(i) THEN i ELSE Null]})
      BY <1>4, <2>1 DEF ReadInfo, Before
    <2>3. PICK k : k = [pc |-> "schemas", id |-> i, prev |-> prev,
                        topics |-> CurrentTopics(i),
                        current |-> IF DeviceCurrent(i) THEN i ELSE Null]
      OBVIOUS
    <2>4. /\ k.pc = "schemas" /\ k.id = i /\ k.prev = prev /\ k.topics = CurrentTopics(i)
          /\ k.current = IF DeviceCurrent(i) THEN i ELSE Null
      BY <2>3
    <2>5. i \in Rows /\ i \in Handed /\ i # Null
      BY <1>1, <1>4, <2>1 DEF Handed, Null
    <2>6. Resume(h, {k})
      BY <2>2, <2>3
    <2>7. k \in Running' /\ Running \ {h} \subseteq Running'
      BY <2>6, ResumeRuns DEF NotifyInv
    <2>8. Before(i) = {prev} \ {Null}
      <3>1. \A p, q \in Before(i) : p = q
        BY <1>1, <2>5, OneBefore
      <3>2. Null \notin Before(i)
        BY <1>1 DEF Before, TableInv, TypeOK, Null
      <3> QED BY <2>2, <3>1, <3>2
    <2>9. TopicsTyped(k)
      <3>1. session[i].device \in Device
        BY <1>1, <2>5 DEF TableInv, TypeOK, Session
      <3> QED BY <2>4, <3>1 DEF TopicsTyped, CurrentTopics, DeviceTopic, AddressTopic
    <2>10. HandlerInv(k)
      BY <2>4, <2>5, <2>8, <2>9 DEF HandlerInv, AtSchemas, Live
    <2>11. ASSUME NEW o \in owed' PROVE OwedInv(o)'
      <3>1. \A d \in Device : i \in OfDevice(d) => DeviceHeld(d)'
        <4>1. ASSUME NEW d \in Device, i \in OfDevice(d) PROVE DeviceTopic(d) \in k.topics
          BY <2>4, <4>1 DEF OfDevice, CurrentTopics
        <4> QED BY <2>4, <2>7, <4>1 DEF DeviceHeld, Holds
      <3>2. \A a \in Address : i \in OfAddress(a) => AddressHeld(a)'
        <4>1. ASSUME NEW a \in Address, i \in OfAddress(a) PROVE AddressTopic(a) \in k.topics
          BY <2>4, <4>1 DEF OfAddress, CurrentTopics
        <4> QED BY <2>4, <2>7, <4>1 DEF AddressHeld, Holds
      <3>3. ~Holds(h, o)
        BY <1>1 DEF Holds
      <3>4. \A j : Handles(h, j) => Handles(k, j)
        BY <1>1, <2>1, <2>4 DEF Handles
      <3> QED BY <1>1, <1>2, <2>1, <2>7, <3>1, <3>2, <3>3, <3>4, OwedResume
    <2> QED BY <1>1, <2>6, <2>10, <2>11, ReadKeeps
  <1> QED BY <1>3, <1>4 DEF ReadInfo

(* What is published is no longer owed, and of a live session it is all.    *)
LEMMA PublishKeeps ==
    ASSUME NotifyInv, UNCHANGED table, NEW h \in Running, h.pc \in {"schemas", "oldSchemas"},
           NEW diff, Publish(h, diff), TopicsTyped(h), h.current \in Handed \cup {Null},
           Live(h.current) => diff = Changes(h.current),
           \A i : Live(i) /\ Handles(h, i) => diff = Changes(i)
    PROVE  NotifyInv'
  <1>1. PICK next : /\ Resume(h, next)
                    /\ next = {[pc |-> "prune", device |-> t.what, diff |-> diff,
                                current |-> h.current] :
                                  t \in {u \in h.topics : u.kind = "Device_UUID"}}
    BY DEF Publish
  <1>2. /\ LiveKept /\ \A d : OfDevice(d)' = OfDevice(d) /\ \A a : OfAddress(a)' = OfAddress(a)
    BY SameTable
  <1>3. Running \ {h} \subseteq Running'
    BY <1>1, ResumeRuns DEF NotifyInv
  <1>4. ASSUME NEW k \in next PROVE HandlerInv(k)
    <2>1. PICK t \in h.topics : /\ t.kind = "Device_UUID"
                                /\ k = [pc |-> "prune", device |-> t.what, diff |-> diff,
                                        current |-> h.current]
      BY <1>1
    <2>2. k.pc = "prune" /\ k.device = t.what /\ k.diff = diff /\ k.current = h.current
      BY <2>1
    <2> QED BY <2>1, <2>2 DEF HandlerInv, AtPrune, TopicsTyped
  <1>5. ASSUME NEW o \in owed' PROVE OwedInv(o)'
    <2>1. /\ o \in owed /\ o \notin h.topics
          /\ ~(o.kind = "Schema_Usage" /\ o.what \in diff)
      BY DEF Publish
    <2>2. ~Holds(h, o) /\ h.pc # "info"
      BY <2>1 DEF Holds
    <2>3. ASSUME NEW s \in Schema, NEW i \in Handed, o = SchemaTopic(s, i), Live(i),
                 s \in Changes(i), Handles(h, i)
          PROVE  FALSE
      <3>1. o.kind = "Schema_Usage" /\ o.what = s
        BY <2>3 DEF SchemaTopic
      <3> QED BY <2>1, <2>3, <3>1
    <2> QED BY <1>2, <1>3, <2>1, <2>2, <2>3, OwedResume
  <1> QED BY <1>1, <1>4, <1>5, ReadKeeps

(* session_schemas of the session, then of the one before it if any.        *)
LEMMA ReadSchemasKeeps ==
    ASSUME NotifyInv, NEW h \in Running, ReadSchemas(h)
    PROVE  NotifyInv'
  <1>1. h.pc = "schemas" /\ UNCHANGED table /\ TableInv /\ AtSchemas(h)
    BY DEF ReadSchemas, NotifyInv, HandlerInv
  <1>2. Null \notin Rows
    BY <1>1 DEF TableInv, TypeOK, Null
  <1>3. Live(h.current) => h.current = h.id
    BY <1>1, <1>2 DEF AtSchemas, Live
  <1>4. \A i : Handles(h, i) => i = h.id
    BY <1>1 DEF Handles
  <1>5. CASE h.prev = Null
    <2>1. Publish(h, SchemasOf(h.id))
      BY <1>5 DEF ReadSchemas
    <2>2. Live(h.id) => SchemasOf(h.id) = Changes(h.id)
      <3>1. Live(h.id) => Before(h.id) = {} /\ SchemasOf(h.id) = session[h.id].schemas
        BY <1>1, <1>5 DEF AtSchemas, SchemasOf, Live
      <3> QED BY <3>1 DEF Changes, SymDiff
    <2>3. h.current \in Handed \cup {Null} /\ TopicsTyped(h)
      BY <1>1 DEF AtSchemas
    <2> QED BY <1>1, <1>3, <1>4, <2>1, <2>2, <2>3, PublishKeeps
  <1>6. CASE h.prev # Null
    <2>1. PICK k : k = [pc |-> "oldSchemas", schemas |-> SchemasOf(h.id),
                        prev |-> h.prev, topics |-> h.topics, current |-> h.current]
      OBVIOUS
    <2>2. Resume(h, {k}) /\ UNCHANGED owed
      BY <1>6, <2>1 DEF ReadSchemas
    <2>3. /\ k.pc = "oldSchemas" /\ k.schemas = SchemasOf(h.id) /\ k.prev = h.prev
          /\ k.topics = h.topics /\ k.current = h.current
      BY <2>1
    <2>4. AtOldSchemas(k)
      <3>1. Live(h.id) => Before(h.id) = {h.prev} /\ SchemasOf(h.id) = session[h.id].schemas
        BY <1>1, <1>6 DEF AtSchemas, SchemasOf, Live
      <3> QED BY <1>1, <1>3, <2>3, <3>1 DEF AtSchemas, AtOldSchemas, TopicsTyped
    <2>5. k \in Running' /\ Running \ {h} \subseteq Running'
      BY <2>2, ResumeRuns DEF NotifyInv
    <2>6. /\ LiveKept /\ \A d : OfDevice(d)' = OfDevice(d) /\ \A a : OfAddress(a)' = OfAddress(a)
      BY <1>1, SameTable
    <2>7. ASSUME NEW o \in owed' PROVE OwedInv(o)'
      <3>1. Holds(h, o) => Holds(k, o)
        BY <2>3 DEF Holds
      <3>2. \A d \in Device : o = DeviceTopic(d) /\ Holds(h, o) => DeviceHeld(d)'
        BY <2>5, <3>1 DEF DeviceHeld
      <3>3. \A a \in Address : o = AddressTopic(a) /\ Holds(h, o) => AddressHeld(a)'
        BY <2>5, <3>1 DEF AddressHeld
      <3>4. \A i : Live(i) /\ Handles(h, i) => Handles(k, i)
        BY <1>1, <1>4, <2>3 DEF AtSchemas, Handles
      <3>5. h.pc # "info"
        BY <1>1
      <3> QED BY <2>2, <2>5, <2>6, <3>2, <3>3, <3>4, <3>5, OwedResume
    <2>8. HandlerInv(k)
      BY <2>3, <2>4 DEF HandlerInv
    <2> QED BY <1>1, <2>2, <2>7, <2>8, ReadKeeps
  <1> QED BY <1>5, <1>6

(* The difference from the session before, which is still in the table if   *)
(* that after it is live.                                                   *)
LEMMA ReadOldSchemasKeeps ==
    ASSUME NotifyInv, NEW h \in Running, ReadOldSchemas(h)
    PROVE  NotifyInv'
  <1>1. h.pc = "oldSchemas" /\ UNCHANGED table /\ TableInv /\ AtOldSchemas(h)
    BY DEF ReadOldSchemas, NotifyInv, HandlerInv
  <1>2. PICK diff : diff = SymDiff(SchemasOf(h.prev), h.schemas) /\ Publish(h, diff)
    BY DEF ReadOldSchemas
  <1>3. Live(h.current) => diff = Changes(h.current)
    <2> SUFFICES ASSUME Live(h.current) PROVE diff = Changes(h.current)
      OBVIOUS
    <2>1. Before(h.current) = {h.prev} /\ h.schemas = session[h.current].schemas
      BY <1>1 DEF AtOldSchemas
    <2>2. SchemasOf(h.prev) = session[h.prev].schemas
      BY <2>1 DEF Before, SchemasOf
    <2>3. UNION {session[p].schemas : p \in Before(h.current)} = session[h.prev].schemas
      BY <2>1
    <2> QED BY <1>2, <2>1, <2>2, <2>3 DEF Changes
  <1>4. \A i : Handles(h, i) => i = h.current
    BY <1>1 DEF Handles
  <1>5. h.current \in Handed \cup {Null} /\ TopicsTyped(h)
    BY <1>1 DEF AtOldSchemas
  <1> QED BY <1>1, <1>2, <1>3, <1>4, <1>5, PublishKeeps

(* A handler that prunes holds nothing that is owed.                        *)
LEMMA PruneSessionsKeeps ==
    ASSUME NotifyInv, NEW h \in Running, PruneSessions(h)
    PROVE  NotifyInv'
  <1>1. h.pc = "prune" /\ TableInv /\ h.device \in Device /\ Prune(h.device) /\ UNCHANGED owed
    BY DEF PruneSessions, NotifyInv, HandlerInv, AtPrune
  <1>2. TableInv'
    BY <1>1, TableKept
  <1>3. /\ LiveKept /\ \A d : OfDevice(d)' = OfDevice(d) /\ \A a : OfAddress(a)' = OfAddress(a)
    BY <1>1, PruneKeepsLive
  <1>4. PICK next : next = {} /\ Resume(h, next)
    BY DEF PruneSessions
  <1>5. /\ IsABag(handlers') /\ Running \ {h} \subseteq Running'
        /\ Running' \subseteq Running
    BY <1>4, ResumeRuns DEF NotifyInv
  <1>6. ASSUME NEW o \in owed' PROVE OwedInv(o)'
    <2>1. ~Holds(h, o) /\ h.pc # "info" /\ \A i : ~Handles(h, i)
      BY <1>1 DEF Holds, Handles
    <2> QED BY <1>1, <1>3, <1>5, <2>1, OwedResume
  <1>7. ASSUME NEW k \in Running' PROVE HandlerInv(k)'
    BY <1>2, <1>3, <1>5, HandlerKept DEF NotifyInv
  <1> QED BY <1>2, <1>5, <1>6, <1>7 DEF NotifyInv

(* Every step keeps the invariant.                                          *)
LEMMA NotifyNextInv == ASSUME NotifyInv, [NotifyNext]_notifyVars PROVE NotifyInv'
  <1>1. ASSUME NEW d \in Device, NEW a \in Address, NEW schemas \in SUBSET Schema,
               BirthN(d, a, schemas)
        PROVE  NotifyInv'
    BY <1>1, BirthNotifies
  <1>2. ASSUME NEW a \in Address, DeathN(a) PROVE NotifyInv'
    <2>1. TableInv'
      BY <1>2, TableKept DEF DeathN, NotifyInv
    <2>2. OnlineAt(Scope[a]) \in SUBSET Rows
      BY DEF OnlineAt
    <2> QED BY <1>2, <2>1, <2>2, CloseNotifies DEF DeathN, Death
  <1>3. CASE CloseAllN
    <2>1. TableInv'
      BY <1>3, TableKept DEF CloseAllN, NotifyInv
    <2>2. OnlineAt(Address) \in SUBSET Rows
      BY DEF OnlineAt
    <2> QED BY <1>3, <2>1, <2>2, CloseNotifies DEF CloseAllN, CloseAll
  <1>4. CASE HandlerStep
    BY <1>4, ReadInfoKeeps, ReadSchemasKeeps, ReadOldSchemasKeeps, PruneSessionsKeeps
    DEF HandlerStep, Running
  <1>5. CASE UNCHANGED notifyVars
    <2>1. UNCHANGED <<table, handlers, owed>> /\ Running' = Running
      BY <1>5 DEF notifyVars, table, Running
    <2>2. LiveKept /\ TableInv'
      BY <2>1, SameTable DEF NotifyInv
    <2>3. \A h \in Running' : HandlerInv(h)'
      BY <2>1, <2>2, HandlerKept DEF NotifyInv
    <2>4. /\ \A d : OfDevice(d)' = OfDevice(d) /\ \A a : OfAddress(a)' = OfAddress(a)
          /\ \A i : Live(i)' = Live(i) /\ Changes(i)' = Changes(i)
      BY <2>1, SameTable
    <2>5. Handed' = Handed
      BY <2>1 DEF table, Handed
    <2>6. ASSUME NEW o \in owed' PROVE OwedInv(o)'
      <3>1. OwedInv(o)
        BY <2>1 DEF NotifyInv
      <3>2. \A d : DeviceHeld(d)' = DeviceHeld(d)
        BY <2>1, <2>4 DEF DeviceHeld
      <3>3. \A a : AddressHeld(a)' = AddressHeld(a)
        BY <2>1, <2>4 DEF AddressHeld
      <3>4. \A s, i : SchemaHeld(s, i)' = SchemaHeld(s, i)
        BY <2>1, <2>4 DEF SchemaHeld
      <3> QED BY <2>4, <2>5, <3>1, <3>2, <3>3, <3>4 DEF OwedInv
    <2> QED BY <2>1, <2>2, <2>3, <2>6 DEF NotifyInv
  <1> QED BY <1>1, <1>2, <1>3, <1>4, <1>5 DEF NotifyNext

(* The invariant holds however births, deaths and handlers interleave.      *)
THEOREM NotifyInvCorrect == NotifySpec => []NotifyInv
  <1>1. NotifyInv /\ [NotifyNext]_notifyVars => NotifyInv'
    BY NotifyNextInv
  <1> QED BY <1>1, NotifyInitInv, PTL DEF NotifySpec

(* When every notification has been handled, the latest change of every     *)
(* device, of every address, and of the schemas of every device has been    *)
(* announced.                                                               *)
THEOREM LatestAnnouncedCorrect == NotifySpec => []LatestAnnounced
  <1>1. NotifyInv => LatestAnnounced
    <2> SUFFICES ASSUME NotifyInv, Idle, NEW o \in owed
                 PROVE  o.kind = "Schema_Usage" /\ ~IsCurrentIn(o.by, DeviceCurrent)
      BY DEF LatestAnnounced
    <2>1. Running = {}
      BY DEF Idle, Running, EmptyBag, SetToBag, BagToSet
    <2>2. OwedInv(o)
      BY DEF NotifyInv
    <2>3. PICK s \in Schema, i \in Handed : o = SchemaTopic(s, i) /\ ~Live(i)
      BY <2>1, <2>2 DEF OwedInv, DeviceHeld, AddressHeld, SchemaHeld
    <2>4. o.kind = "Schema_Usage" /\ o.by = i
      BY <2>3 DEF SchemaTopic
    <2> QED BY <2>3, <2>4 DEF Live, IsCurrentIn
  <1> QED BY <1>1, NotifyInvCorrect, PTL

(* What has been published for a session that is still current is exactly   *)
(* the difference from the session before it, which no prune has deleted.   *)
THEOREM PublishedExactCorrect == NotifySpec => []PublishedExact
  <1>1. NotifyInv => PublishedExact
    <2> SUFFICES ASSUME NotifyInv, NEW h \in BagToSet(handlers), h.pc = "prune",
                        IsCurrentIn(h.current, DeviceCurrent)
                 PROVE  h.diff = Changes(h.current)
      BY DEF PublishedExact, Changes, Before
    <2>1. AtPrune(h)
      BY DEF NotifyInv, Running, HandlerInv
    <2> QED BY <2>1 DEF AtPrune, Live, IsCurrentIn
  <1> QED BY <1>1, NotifyInvCorrect, PTL

=============================================================================
