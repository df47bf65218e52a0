--------------------------- MODULE EdgeSessionProofs ---------------------------
(* Proofs about what a subscriber makes of an Edge Agent's session, for any *)
(* number of devices, any values and modulus, and any faults.               *)
EXTENDS EdgeSession, FiniteSetTheorems, TLAPS

(* What a subscriber should not be told, it is not.                         *)
Right(s, m) == ~Unborn(s, m) /\ ~Missed(s, m)

(* Messages lead a subscriber from one knowledge to another, each in its    *)
(* right place: know is what it knows before the first, and after each.     *)
Leads(msgs, s, t) ==
    \E know \in [0..Len(msgs) -> Knowledge] :
        /\ know[0] = s /\ know[Len(msgs)] = t
        /\ \A i \in 1..Len(msgs) :
              know[i] = Told(know[i - 1], msgs[i]) /\ Right(know[i - 1], msgs[i])

(* Knowledge that fits the agent: the next number is one on, the devices    *)
(* are those that are connected, and so are the values that are not held    *)
(* back.                                                                    *)
Fits(s) ==
    /\ s.up /\ s.born = connected
    /\ s.seq \in Number /\ seq = (s.seq + 1) % Modulus
    /\ \A d \in connected \ (Batched \cap Writable) :
          buffer[d] = Nothing => s.value[d] = value[d]

(* When all that is under way has been delivered the subscriber's knowledge *)
(* will fit, or, while the agent is not online, it will take it for dead.   *)
WillFit == \E s \in Knowledge : Leads(wire, seen, s) /\ IF link = "up" THEN Fits(s) ELSE ~s.up

(* The variables that the invariant needs have their types, and no device   *)
(* is alive but those that are connected.                                   *)
SessionTyped ==
    /\ link \in {"down", "open", "up"} /\ stage \in {"running", "stopping", "stopped"}
    /\ (stage = "stopped" => link = "down")
    /\ connected \subseteq Device /\ alive = connected /\ timer \subseteq Batched
    /\ value \in [Device -> Reading] /\ buffer \in [Device -> Reading]
    /\ seq \in Number \cup {Nothing}
    /\ queue \in Seq(DeviceMessage) /\ wire \in Seq(Message)
    /\ (queue # <<>> => link = "down")
    /\ seen \in Knowledge

(* What is held back is the value, unless a command has overtaken it, and   *)
(* only a timer holds back.                                                 *)
HeldBack ==
    \A d \in Device :
        /\ d \notin timer => buffer[d] = Nothing
        /\ d \notin Batched \cap Writable => buffer[d] \in {Nothing, value[d]}

Inv == SessionTyped /\ HeldBack /\ WillFit /\ BornBeforeData /\ Gapless

-----------------------------------------------------------------------------
(* Numbers that wrap: a quotient determines the rest, and one may be added  *)
(* before or after the rest is taken.                                       *)
LEMMA RestPlusOne ==
    ASSUME NEW i \in Nat
    PROVE  ((i % Modulus) + 1) % Modulus = (i + 1) % Modulus /\ i % Modulus \in Number
  <1> DEFINE M == Modulus
             q == i \div M
             r == i % M
  <1>0. M \in Nat \ {0}
    BY BoundsAssumption
  <1> HIDE DEF M
  <1>1. i = M * q + r /\ r \in 0..(M - 1) /\ q \in Nat
    <2>1. i = M * (i \div M) + (i % M)
      BY <1>0, Z3
    <2>2. (i % M) \in 0..(M - 1) /\ (i \div M) \in Nat
      BY <1>0
    <2> QED BY <2>1, <2>2
  <1> HIDE DEF q, r
  <1>2. CASE r + 1 < M
    <2>1. i + 1 = M * q + (r + 1)
      BY <1>0, <1>1
    <2>2. (i + 1) % M = r + 1 /\ (r + 1) % M = r + 1
      BY <1>0, <1>1, <1>2, <2>1
    <2> QED BY <1>1, <2>2 DEF r, M, Number
  <1>3. CASE r + 1 = M
    <2>1. i + 1 = M * (q + 1) + 0
      BY <1>0, <1>1, <1>3
    <2>2. (i + 1) % M = 0 /\ (r + 1) % M = 0
      BY <1>0, <1>1, <1>3, <2>1
    <2> QED BY <1>1, <2>2 DEF r, M, Number
  <1> QED BY <1>0, <1>1, <1>2, <1>3

(* The number the node gives next is one on, and the first is 0.            *)
LEMMA NextSeqIs ==
    ASSUME NEW n \in Number \cup {Nothing}
    PROVE  NextSeq(n) \in Number /\ (n \in Number => NextSeq(n) = (n + 1) % Modulus)
  <1>0. Modulus \in Nat \ {0} /\ Nothing \notin Number
    BY BoundsAssumption, NothingAssumption DEF Number
  <1>1. CASE n \in Number /\ n < Modulus - 1
    BY <1>0, <1>1 DEF Number, NextSeq
  <1>2. CASE n \in Number /\ ~(n < Modulus - 1)
    <2>1. n + 1 = Modulus * 1 + 0
      BY <1>0, <1>2 DEF Number
    <2>2. (n + 1) % Modulus = 0
      BY <1>0, <2>1
    <2> QED BY <1>0, <1>2, <2>2 DEF Number, NextSeq
  <1>3. CASE n = Nothing
    BY <1>0, <1>3 DEF Number, NextSeq
  <1> QED BY <1>1, <1>2, <1>3

-----------------------------------------------------------------------------
(* What a subscriber makes of a message from the node.                      *)
LEMMA ToldNode ==
    ASSUME NEW s \in Knowledge, NEW m \in NodeMessage
    PROVE  /\ Right(s, m) /\ Told(s, m) \in Knowledge
           /\ m.type = "NBIRTH" =>
                Told(s, m) = [up |-> TRUE, born |-> {}, value |-> NoReading, seq |-> m.seq]
           /\ m.type = "NDEATH" => ~Told(s, m).up
  <1>1. m.type \notin DeviceType
    BY DEF NodeMessage, DeviceType
  <1>2. NoReading \in [Device -> Reading]
    BY DEF NoReading, Reading
  <1>3. CASE m.type = "NBIRTH"
    BY <1>1, <1>2, <1>3 DEF Right, Unborn, Missed, Follows, Told, NodeMessage, Knowledge
  <1>4. CASE m.type = "NDEATH"
    BY <1>1, <1>2, <1>4 DEF Right, Unborn, Missed, Follows, Told, NodeMessage, Knowledge
  <1> QED BY <1>3, <1>4 DEF NodeMessage

(* And of one from a device: nothing if it takes the node for dead.         *)
LEMMA ToldDevice ==
    ASSUME NEW s \in Knowledge, NEW m \in DeviceMessage
    PROVE  /\ Told(s, m) \in Knowledge
           /\ ~s.up => Told(s, m) = s /\ Right(s, m)
           /\ s.up => /\ Told(s, m).up /\ Told(s, m).seq = m.seq
                      /\ m.type = "DBIRTH" => Told(s, m).born = s.born \cup {m.device}
                      /\ m.type = "DDATA" => Told(s, m).born = s.born
                      /\ m.type = "DDEATH" => Told(s, m).born = s.born \ {m.device}
                      /\ m.type = "DBIRTH" => Told(s, m).value[m.device] = m.value
                      /\ m.type = "DDATA" => Told(s, m).value[m.device] =
                            IF m.value = Nothing THEN s.value[m.device] ELSE m.value
                      /\ \A e \in Device \ {m.device} : Told(s, m).value[e] = s.value[e]
  <1>1. /\ m.type \in DeviceType /\ DeviceType = {"DBIRTH", "DDATA", "DDEATH"} /\ m.device \in Device
        /\ m.value \in Reading /\ m.seq \in Number \cup {Nothing} /\ Nothing \in Reading
    BY DEF DeviceMessage, DeviceType, Reading
  <1>2. /\ s.value \in [Device -> Reading] /\ s.born \subseteq Device /\ s.up \in BOOLEAN
        /\ s = [up |-> s.up, born |-> s.born, value |-> s.value, seq |-> s.seq]
    BY DEF Knowledge
  <1>3. CASE ~s.up
    BY <1>1, <1>3 DEF Told, Follows, Right, Unborn, Missed
  <1>4. CASE s.up /\ m.type = "DBIRTH"
    <2>1. Told(s, m) = [up |-> s.up, born |-> s.born \cup {m.device},
                        value |-> [s.value EXCEPT ![m.device] = m.value], seq |-> m.seq]
      BY <1>1, <1>2, <1>4 DEF Told, Follows
    <2> QED BY <1>1, <1>2, <1>4, <2>1 DEF Knowledge
  <1>5. CASE s.up /\ m.type = "DDATA"
    <2> DEFINE v == IF m.value = Nothing THEN s.value[m.device] ELSE m.value
    <2>1. Told(s, m) = [up |-> s.up, born |-> s.born,
                        value |-> [s.value EXCEPT ![m.device] = v], seq |-> m.seq]
      BY <1>1, <1>2, <1>5 DEF Told, Follows
    <2>2. v \in Reading
      BY <1>1, <1>2
    <2> HIDE DEF v
    <2>3. Told(s, m).value[m.device] = v /\ Told(s, m) \in Knowledge
      BY <1>1, <1>2, <2>1, <2>2 DEF Knowledge
    <2> QED BY <1>1, <1>2, <1>5, <2>1, <2>3 DEF v
  <1>6. CASE s.up /\ m.type = "DDEATH"
    <2>1. Told(s, m) = [up |-> s.up, born |-> s.born \ {m.device},
                        value |-> [s.value EXCEPT ![m.device] = Nothing], seq |-> m.seq]
      BY <1>1, <1>2, <1>6 DEF Told, Follows
    <2> QED BY <1>1, <1>2, <1>6, <2>1 DEF Knowledge
  <1> QED BY <1>1, <1>2, <1>3, <1>4, <1>5, <1>6

-----------------------------------------------------------------------------
(* No message leads nowhere.                                                *)
LEMMA LeadsNone == ASSUME NEW s \in Knowledge PROVE Leads(<<>>, s, s)
  <1> DEFINE know == [i \in 0..0 |-> s]
  <1>1. know \in [0..Len(<<>>) -> Knowledge] /\ know[0] = s
    OBVIOUS
  <1>2. Len(<<>>) = 0 /\ 1..0 = {}
    OBVIOUS
  <1> HIDE DEF know
  <1> QED BY <1>1, <1>2 DEF Leads

(* Messages after messages.                                                 *)
LEMMA LeadsThrough ==
    ASSUME NEW a \in Seq(Message), NEW b \in Seq(Message), NEW s, NEW t, NEW u,
           Leads(a, s, t), Leads(b, t, u)
    PROVE  Leads(a \o b, s, u)
  <1>1. PICK ka \in [0..Len(a) -> Knowledge] :
            /\ ka[0] = s /\ ka[Len(a)] = t
            /\ \A i \in 1..Len(a) : ka[i] = Told(ka[i - 1], a[i]) /\ Right(ka[i - 1], a[i])
    BY DEF Leads
  <1>2. PICK kb \in [0..Len(b) -> Knowledge] :
            /\ kb[0] = t /\ kb[Len(b)] = u
            /\ \A i \in 1..Len(b) : kb[i] = Told(kb[i - 1], b[i]) /\ Right(kb[i - 1], b[i])
    BY DEF Leads
  <1> DEFINE know == [i \in 0..(Len(a) + Len(b)) |-> IF i <= Len(a) THEN ka[i]
                                                                   ELSE kb[i - Len(a)]]
  <1>3. Len(a) \in Nat /\ Len(b) \in Nat /\ Len(a \o b) = Len(a) + Len(b)
    OBVIOUS
  <1>4. know \in [0..Len(a \o b) -> Knowledge] /\ know[0] = s /\ know[Len(a \o b)] = u
    <2>1. ASSUME NEW i \in 0..(Len(a) + Len(b))
          PROVE  (IF i <= Len(a) THEN ka[i] ELSE kb[i - Len(a)]) \in Knowledge
      <3>1. CASE i <= Len(a)
        <4>1. i \in 0..Len(a)
          BY <1>3, <3>1
        <4> QED BY <1>1, <3>1, <4>1
      <3>2. CASE i > Len(a)
        <4>1. i - Len(a) \in 0..Len(b) /\ ~(i <= Len(a))
          BY <1>3, <3>2
        <4> QED BY <1>2, <4>1
      <3> QED BY <1>3, <3>1, <3>2
    <2>2. know[Len(a) + Len(b)] = u
      <3>1. CASE Len(b) = 0
        BY <1>1, <1>2, <1>3, <3>1
      <3>2. CASE Len(b) > 0
        <4>1. ~(Len(a) + Len(b) <= Len(a)) /\ (Len(a) + Len(b)) - Len(a) = Len(b)
              /\ Len(a) + Len(b) \in 0..(Len(a) + Len(b))
          BY <1>3, <3>2
        <4> QED BY <1>2, <4>1
      <3> QED BY <1>3, <3>1, <3>2
    <2> QED BY <1>1, <1>3, <2>1, <2>2
  <1>5. ASSUME NEW i \in 1..Len(a \o b)
        PROVE  know[i] = Told(know[i - 1], (a \o b)[i]) /\ Right(know[i - 1], (a \o b)[i])
    <2>1. CASE i <= Len(a)
      <3>1. (a \o b)[i] = a[i] /\ know[i] = ka[i] /\ know[i - 1] = ka[i - 1] /\ i \in 1..Len(a)
        BY <1>3, <2>1
      <3> QED BY <1>1, <3>1
    <2>2. CASE i > Len(a)
      <3>1. (a \o b)[i] = b[i - Len(a)] /\ i - Len(a) \in 1..Len(b)
        BY <1>3, <2>2
      <3>2. know[i] = kb[i - Len(a)]
        BY <1>3, <2>2
      <3>3. know[i - 1] = kb[(i - Len(a)) - 1]
        BY <1>1, <1>2, <1>3, <2>2
      <3> QED BY <1>2, <3>1, <3>2, <3>3
    <2> QED BY <1>3, <2>1, <2>2
  <1> HIDE DEF know
  <1> QED BY <1>4, <1>5 DEF Leads

(* One message more.                                                        *)
LEMMA LeadsOn ==
    ASSUME NEW a \in Seq(Message), NEW s, NEW t \in Knowledge, NEW m \in Message,
           Leads(a, s, t), Right(t, m)
    PROVE  Leads(a \o <<m>>, s, Told(t, m)) /\ Told(t, m) \in Knowledge
  <1>1. Told(t, m) \in Knowledge
    BY ToldNode, ToldDevice DEF Message
  <1> DEFINE know == [i \in 0..1 |-> IF i = 0 THEN t ELSE Told(t, m)]
  <1>2. know \in [0..Len(<<m>>) -> Knowledge] /\ know[0] = t /\ know[1] = Told(t, m)
    BY <1>1
  <1>3. Len(<<m>>) = 1 /\ <<m>>[1] = m /\ <<m>> \in Seq(Message)
    OBVIOUS
  <1> HIDE DEF know
  <1>4. Leads(<<m>>, t, Told(t, m))
    <2>1. know[1] = Told(know[1 - 1], <<m>>[1]) /\ Right(know[1 - 1], <<m>>[1])
      BY <1>2, <1>3
    <2> QED BY <1>2, <1>3, <2>1 DEF Leads
  <1> QED BY <1>1, <1>3, <1>4, LeadsThrough

(* The first messages lead somewhere.                                       *)
LEMMA LeadsPart ==
    ASSUME NEW a \in Seq(Message), NEW s, NEW t, Leads(a, s, t), NEW k \in 0..Len(a)
    PROVE  \E u \in Knowledge : Leads(SubSeq(a, 1, k), s, u)
  <1>1. PICK know \in [0..Len(a) -> Knowledge] :
            /\ know[0] = s
            /\ \A i \in 1..Len(a) :
                  know[i] = Told(know[i - 1], a[i]) /\ Right(know[i - 1], a[i])
    BY DEF Leads
  <1> DEFINE part == [i \in 0..k |-> know[i]]
  <1>2. Len(a) \in Nat /\ k \in Nat /\ Len(SubSeq(a, 1, k)) = k
        /\ \A i \in 1..k : SubSeq(a, 1, k)[i] = a[i]
    OBVIOUS
  <1>3. part \in [0..k -> Knowledge] /\ part[0] = s /\ part[k] \in Knowledge
    BY <1>1, <1>2
  <1>4. \A i \in 1..k : part[i] = Told(part[i - 1], a[i]) /\ Right(part[i - 1], a[i])
    BY <1>1, <1>2
  <1> HIDE DEF part
  <1>5. Leads(SubSeq(a, 1, k), s, part[k])
    BY <1>2, <1>3, <1>4 DEF Leads
  <1> QED BY <1>3, <1>5

(* The first message is right, and from there the others lead on.           *)
LEMMA LeadsRest ==
    ASSUME NEW a \in Seq(Message), a # <<>>, NEW s, NEW t, Leads(a, s, t)
    PROVE  Right(s, Head(a)) /\ Leads(Tail(a), Told(s, Head(a)), t)
  <1>1. PICK know \in [0..Len(a) -> Knowledge] :
            /\ know[0] = s /\ know[Len(a)] = t
            /\ \A i \in 1..Len(a) :
                  know[i] = Told(know[i - 1], a[i]) /\ Right(know[i - 1], a[i])
    BY DEF Leads
  <1> DEFINE rest == [i \in 0..(Len(a) - 1) |-> know[i + 1]]
  <1>2. /\ Len(a) \in Nat /\ Len(a) >= 1 /\ Len(Tail(a)) = Len(a) - 1 /\ Head(a) = a[1]
        /\ \A i \in 1..(Len(a) - 1) : Tail(a)[i] = a[i + 1]
    OBVIOUS
  <1>3. Right(s, Head(a)) /\ know[1] = Told(s, Head(a))
    <2>1. 1 \in 1..Len(a)
      BY <1>2
    <2>2. know[1] = Told(know[1 - 1], a[1]) /\ Right(know[1 - 1], a[1])
      BY <1>1, <2>1
    <2> QED BY <1>1, <1>2, <2>2
  <1>4. rest \in [0..Len(Tail(a)) -> Knowledge] /\ rest[0] = know[1] /\ rest[Len(Tail(a))] = t
    BY <1>1, <1>2
  <1>5. ASSUME NEW i \in 1..Len(Tail(a))
        PROVE  rest[i] = Told(rest[i - 1], Tail(a)[i]) /\ Right(rest[i - 1], Tail(a)[i])
    <2>1. i + 1 \in 1..Len(a) /\ Tail(a)[i] = a[i + 1] /\ (i + 1) - 1 = i
      BY <1>2
    <2>2. rest[i] = know[i + 1] /\ rest[i - 1] = know[i]
      BY <1>2
    <2> QED BY <1>1, <2>1, <2>2
  <1> HIDE DEF rest
  <1> QED BY <1>3, <1>4, <1>5 DEF Leads

(* Messages from devices lead nowhere if the node is taken for dead.        *)
LEMMA LeadsIgnored ==
    ASSUME NEW a \in Seq(DeviceMessage), NEW s \in Knowledge, ~s.up
    PROVE  Leads(a, s, s)
  <1> DEFINE know == [i \in 0..Len(a) |-> s]
  <1>1. know \in [0..Len(a) -> Knowledge] /\ know[0] = s /\ know[Len(a)] = s
    OBVIOUS
  <1>2. \A i \in 1..Len(a) : know[i] = Told(know[i - 1], a[i]) /\ Right(know[i - 1], a[i])
    <2> TAKE i \in 1..Len(a)
    <2>1. know[i] = s /\ know[i - 1] = s /\ a[i] \in DeviceMessage
      OBVIOUS
    <2> QED BY <2>1, ToldDevice
  <1> QED BY <1>1, <1>2 DEF Leads

(* The births of the connected devices, one after the other.                *)
LEMMA LeadsBorn ==
    ASSUME SessionTyped, NEW order \in InOrder(connected), NEW t \in Knowledge,
           t = [up |-> TRUE, born |-> {}, value |-> NoReading, seq |-> 0]
    PROVE  \E u \in Knowledge :
              /\ Leads(Births(order), t, u) /\ Births(order) \in Seq(Message)
              /\ u.up /\ u.born = connected /\ u.seq = Len(order) % Modulus
              /\ \A d \in connected : u.value[d] = value[d]
  <1>1. PICK n \in 0..N : order \in [1..n -> connected]
    BY DEF InOrder
  <1>2. n \in Nat /\ Len(order) = n /\ DOMAIN order = 1..n
    BY <1>1, DevicesAssumption
  <1>3. /\ \A i, j \in 1..n : i < j => order[i] < order[j]
        /\ \A d \in connected : \E i \in 1..n : order[i] = d
    BY <1>2 DEF InOrder
  <1>4. Births(order) \in Seq(DeviceMessage) /\ Len(Births(order)) = n
    <2>1. \A i \in 1..n : Births(order)[i] \in DeviceMessage
      <3> TAKE i \in 1..n
      <3>1. i % Modulus \in Number /\ value[order[i]] \in Reading /\ order[i] \in Device
        <4>1. i \in Nat /\ order[i] \in connected
          BY <1>1, <1>2
        <4>2. i % Modulus \in Number
          BY <4>1, RestPlusOne
        <4>3. order[i] \in Device /\ value[order[i]] \in Reading
          BY <4>1 DEF SessionTyped
        <4> QED BY <4>2, <4>3
      <3> QED BY <1>2, <3>1 DEF Births, DeviceMessage, DeviceType
    <2> QED BY <1>2, <2>1 DEF Births
  <1> DEFINE know == [i \in 0..n |->
                        [up |-> TRUE, born |-> {order[j] : j \in 1..i},
                         value |-> [d \in Device |-> IF \E j \in 1..i : order[j] = d
                                                     THEN value[d] ELSE Nothing],
                         seq |-> i % Modulus]]
  <1>5. know \in [0..n -> Knowledge]
    <2>1. ASSUME NEW i \in 0..n
          PROVE  know[i] \in Knowledge
      <3>1. i % Modulus \in Number /\ {order[j] : j \in 1..i} \subseteq Device
        BY <1>1, <1>2, RestPlusOne DEF SessionTyped
      <3>2. [d \in Device |-> IF \E j \in 1..i : order[j] = d THEN value[d] ELSE Nothing]
                \in [Device -> Reading]
        BY DEF SessionTyped, Reading
      <3> QED BY <3>1, <3>2 DEF Knowledge
    <2> QED BY <2>1
  <1>6. know[0] = t
    <2>1. 0 % Modulus = 0
      BY BoundsAssumption
    <2>2. know[0] = [up |-> TRUE, born |-> {order[j] : j \in 1..0},
                     value |-> [d \in Device |-> IF \E j \in 1..0 : order[j] = d
                                                 THEN value[d] ELSE Nothing],
                     seq |-> 0 % Modulus]
      <3>1. 0 \in 0..n
        BY <1>2
      <3> QED BY <3>1
    <2>3. {order[j] : j \in 1..0} = {}
      OBVIOUS
    <2>4. [d \in Device |-> IF \E j \in 1..0 : order[j] = d THEN value[d] ELSE Nothing] = NoReading
      BY DEF NoReading
    <2> QED BY <2>1, <2>2, <2>3, <2>4
  <1>7. ASSUME NEW i \in 1..n
        PROVE  know[i] = Told(know[i - 1], Births(order)[i])
               /\ Right(know[i - 1], Births(order)[i])
    <2> DEFINE s == know[i - 1]
               m == Births(order)[i]
    <2>0. i - 1 \in 0..n /\ i \in 0..n /\ i - 1 \in Nat /\ (i - 1) + 1 = i
      BY <1>2
    <2>1. /\ s.up /\ s.born = {order[j] : j \in 1..(i - 1)} /\ s.seq = (i - 1) % Modulus
          /\ s.value = [d \in Device |-> IF \E j \in 1..(i - 1) : order[j] = d
                                         THEN value[d] ELSE Nothing]
      BY <2>0
    <2>2. s \in Knowledge
      BY <1>5, <2>0
    <2>3. /\ know[i].up = TRUE /\ know[i].born = {order[j] : j \in 1..i}
          /\ know[i].seq = i % Modulus
          /\ know[i].value = [d \in Device |-> IF \E j \in 1..i : order[j] = d
                                               THEN value[d] ELSE Nothing]
      BY <2>0
    <2>4. know[i] \in Knowledge
      BY <1>5, <2>0
    <2>5. /\ m.type = "DBIRTH" /\ m.device = order[i] /\ m.value = value[order[i]]
          /\ m.seq = i % Modulus /\ m \in DeviceMessage /\ order[i] \in Device
      BY <1>1, <1>2, <1>4 DEF Births, SessionTyped
    <2> HIDE DEF know, s, m
    <2>6. Right(s, m)
      <3>1. (s.seq + 1) % Modulus = i % Modulus
        BY <2>0, <2>1, RestPlusOne
      <3> QED BY <2>5, <3>1 DEF Right, Unborn, Missed
    <2>7. /\ Told(s, m) \in Knowledge /\ Told(s, m).up /\ Told(s, m).seq = i % Modulus
          /\ Told(s, m).born = s.born \cup {order[i]}
          /\ Told(s, m).value[order[i]] = value[order[i]]
          /\ \A e \in Device \ {order[i]} : Told(s, m).value[e] = s.value[e]
      BY <2>1, <2>2, <2>5, ToldDevice
    <2>8. Told(s, m).born = know[i].born
      BY <2>0, <2>1, <2>3, <2>7
    <2>9. \A e \in Device : Told(s, m).value[e] = know[i].value[e]
      <3> TAKE e \in Device
      <3>1. CASE e = order[i]
        BY <2>3, <2>7, <3>1
      <3>2. CASE e # order[i]
        <4>1. (\E j \in 1..i : order[j] = e) <=> (\E j \in 1..(i - 1) : order[j] = e)
          BY <2>0, <3>2
        <4> QED BY <2>1, <2>3, <2>7, <3>2, <4>1
      <3> QED BY <3>1, <3>2
    <2>10. Told(s, m).value = know[i].value
      BY <2>4, <2>7, <2>9 DEF Knowledge
    <2>11. Told(s, m) = know[i]
      <3>1. Told(s, m).up = TRUE
        BY <2>7 DEF Knowledge
      <3>2. Told(s, m).seq = know[i].seq
        BY <2>3, <2>7
      <3>3. \A a, b \in Knowledge : /\ a.up = b.up /\ a.born = b.born
                                     /\ a.value = b.value /\ a.seq = b.seq => a = b
        BY DEF Knowledge
      <3> QED BY <2>3, <2>4, <2>7, <2>8, <2>10, <3>1, <3>2, <3>3
    <2> QED BY <2>6, <2>11 DEF s, m
  <1>8. know[n].up /\ know[n].seq = n % Modulus /\ know[n].born = connected
        /\ \A d \in connected : know[n].value[d] = value[d]
    <2>1. n \in 0..n
      BY <1>2
    <2>2. {order[j] : j \in 1..n} = connected
      BY <1>1, <1>2, <1>3
    <2>3. \A d \in connected : d \in Device /\ \E j \in 1..n : order[j] = d
      BY <1>3 DEF SessionTyped
    <2> QED BY <2>1, <2>2, <2>3
  <1> HIDE DEF know
  <1>9. Leads(Births(order), t, know[n])
    BY <1>4, <1>5, <1>6, <1>7 DEF Leads
  <1>10. Births(order) \in Seq(Message) /\ know[n] \in Knowledge
    BY <1>2, <1>4, <1>5 DEF Message
  <1> QED BY <1>2, <1>8, <1>9, <1>10

-----------------------------------------------------------------------------
(* A device's message: of what type, and what the subscriber then knows of  *)
(* the device.                                                              *)
LEMMA Tells ==
    ASSUME SessionTyped, WillFit, NEW d \in Device, NEW v \in Reading,
           NEW type \in DeviceType, Publish(type, d, v),
           UNCHANGED <<link, seen>>, type # "DBIRTH" => d \in connected,
           connected' = IF type = "DDEATH" THEN connected \ {d} ELSE connected \cup {d},
           \A e \in Device \ {d} : value'[e] = value[e] /\ buffer'[e] = buffer[e],
           type = "DBIRTH" => v = value'[d],
           type = "DDATA" /\ d \notin Batched \cap Writable /\ buffer'[d] = Nothing =>
                IF v = Nothing THEN value'[d] = value[d] /\ buffer[d] = Nothing
                               ELSE v = value'[d]
    PROVE  /\ WillFit' /\ seq' \in Number
           /\ queue' \in Seq(DeviceMessage) /\ wire' \in Seq(Message)
           /\ (queue' # <<>> => link' = "down")
  <1> USE DEF DeviceType
  <1>1. PICK m \in DeviceMessage : m = [type |-> type, device |-> d, value |-> v, seq |-> seq]
    BY DEF SessionTyped, DeviceMessage, DeviceType
  <1>2. /\ seq' = NextSeq(seq) /\ seq' \in Number
        /\ IF link = "down" THEN queue' = queue \o <<m>> /\ wire' = wire
                            ELSE wire' = wire \o <<m>> /\ queue' = queue
    BY <1>1, NextSeqIs DEF Publish, Hand, SessionTyped
  <1>3. /\ m.type = type /\ m.device = d /\ m.value = v /\ m.seq = seq /\ m \in Message
    BY <1>1 DEF Message
  <1>4. /\ queue' \in Seq(DeviceMessage) /\ wire' \in Seq(Message)
        /\ (queue' # <<>> => link' = "down")
    <2>1. queue \o <<m>> \in Seq(DeviceMessage) /\ wire \o <<m>> \in Seq(Message)
      BY <1>3 DEF SessionTyped
    <2> QED BY <1>2, <2>1 DEF SessionTyped
  <1>5. PICK s \in Knowledge : Leads(wire, seen, s) /\ IF link = "up" THEN Fits(s) ELSE ~s.up
    BY DEF WillFit
  <1>6. CASE link = "down"
    BY <1>2, <1>4, <1>5, <1>6 DEF WillFit
  <1>7. CASE link = "open"
    <2>1. Told(s, m) = s /\ Right(s, m)
      BY <1>1, <1>5, <1>7, ToldDevice
    <2>2. Leads(wire', seen, s)
      BY <1>2, <1>3, <1>5, <1>7, <2>1, LeadsOn DEF SessionTyped
    <2> QED BY <1>2, <1>4, <1>5, <1>7, <2>2 DEF WillFit
  <1>8. CASE link = "up"
    <2>1. /\ s.up /\ s.born = connected /\ s.seq \in Number /\ seq = (s.seq + 1) % Modulus
          /\ \A e \in connected \ (Batched \cap Writable) :
                buffer[e] = Nothing => s.value[e] = value[e]
      BY <1>5, <1>8 DEF Fits
    <2>2. Right(s, m)
      BY <1>3, <2>1 DEF Right, Unborn, Missed
    <2>3. PICK t \in Knowledge : t = Told(s, m) /\ Leads(wire', seen, t)
      <3>1. wire' = wire \o <<m>> /\ wire \in Seq(Message)
        BY <1>2, <1>8 DEF SessionTyped
      <3>2. Leads(wire \o <<m>>, seen, Told(s, m)) /\ Told(s, m) \in Knowledge
        BY <1>3, <1>5, <2>2, <3>1, LeadsOn
      <3> QED BY <3>1, <3>2
    <2>4. seq \in Number /\ seq' = (seq + 1) % Modulus
      <3>1. s.seq \in Nat
        BY <2>1 DEF Number
      <3>2. seq \in Number
        BY <2>1, <3>1, RestPlusOne
      <3> QED BY <1>2, <3>2, NextSeqIs
    <2>5. /\ t.up /\ t.seq = seq
          /\ type = "DBIRTH" => t.born = s.born \cup {d} /\ t.value[d] = v
          /\ type = "DDATA" => t.born = s.born
                               /\ t.value[d] = IF v = Nothing THEN s.value[d] ELSE v
          /\ type = "DDEATH" => t.born = s.born \ {d}
          /\ \A e \in Device \ {d} : t.value[e] = s.value[e]
      BY <1>1, <1>3, <2>1, <2>3, ToldDevice
    <2>6. t.born = connected'
      BY <2>1, <2>5
    <2>7. ASSUME NEW e \in connected' \ (Batched \cap Writable), buffer'[e] = Nothing
          PROVE  t.value[e] = value'[e]
      <3>1. CASE e # d
        BY <2>1, <2>5, <2>7, <3>1 DEF SessionTyped
      <3>2. CASE e = d
        BY <2>1, <2>5, <2>7, <3>2 DEF SessionTyped
      <3> QED BY <3>1, <3>2
    <2>8. Fits(t)'
      BY <2>4, <2>5, <2>6, <2>7 DEF Fits
    <2> QED BY <1>2, <1>4, <1>8, <2>3, <2>8 DEF WillFit
  <1> QED BY <1>2, <1>4, <1>6, <1>7, <1>8 DEF SessionTyped

(* Nothing is said, and nothing needs to be.                                *)
LEMMA TellsNothing ==
    ASSUME SessionTyped, WillFit, UNCHANGED <<link, seen, seq, queue, wire>>,
           link = "up" => connected' = connected,
           \A e \in connected \ (Batched \cap Writable) : buffer'[e] = Nothing =>
                buffer[e] = Nothing /\ value'[e] = value[e]
    PROVE  WillFit'
  <1>1. PICK s \in Knowledge : Leads(wire, seen, s) /\ IF link = "up" THEN Fits(s) ELSE ~s.up
    BY DEF WillFit
  <1>2. link = "up" => Fits(s)'
    BY <1>1 DEF Fits
  <1> QED BY <1>1, <1>2 DEF WillFit

(* As long as the node has not stopped, it is online if it is connected.    *)
LEMMA OnlineIs == ASSUME SessionTyped PROVE Online <=> link = "up"
  BY DEF SessionTyped, Online

(* Data of a device is published, or there is no connection to it.          *)
LEMMA DataIs ==
    ASSUME SessionTyped, NEW d, NEW x, NEW y, Data(d, x, y)
    PROVE  /\ alive' = alive
           /\ \/ d \in connected /\ Publish("DDATA", d, x)
              \/ d \notin connected /\ UNCHANGED <<seq, queue, wire>>
  BY DEF SessionTyped, Data, Birth, Unpublished, numbers

(* What a device does with its data, from its driver, its buffer or a       *)
(* command, whether it publishes it or not.                                 *)
LEMMA DataKeeps ==
    ASSUME SessionTyped, WillFit, HeldBack, NEW d \in Device, NEW x \in Reading, NEW y,
           Data(d, x, y), UNCHANGED <<link, stage, seen, orphan, gap, connected>>,
           BornBeforeData, Gapless, timer' \subseteq Batched,
           value' \in [Device -> Reading], buffer' \in [Device -> Reading],
           \A e \in Device \ {d} : value'[e] = value[e] /\ buffer'[e] = buffer[e],
           d \notin Batched \cap Writable /\ buffer'[d] = Nothing =>
                IF x = Nothing THEN value'[d] = value[d] /\ buffer[d] = Nothing
                               ELSE x = value'[d]
    PROVE  SessionTyped' /\ WillFit' /\ BornBeforeData' /\ Gapless'
  <1>1. alive' = alive /\ connected \subseteq Device
    BY DataIs DEF SessionTyped
  <1>2. CASE d \in connected /\ Publish("DDATA", d, x)
    <2>1. /\ WillFit' /\ seq' \in Number
          /\ queue' \in Seq(DeviceMessage) /\ wire' \in Seq(Message)
          /\ (queue' # <<>> => link' = "down")
      <3> DEFINE type == "DDATA"
      <3>1. type \in DeviceType /\ type # "DBIRTH" /\ type # "DDEATH"
            /\ type = "DDATA" /\ connected' = connected \cup {d} /\ Publish(type, d, x)
        BY <1>2 DEF DeviceType
      <3> HIDE DEF type
      <3> QED BY <1>2, <3>1, Tells DEF DeviceType
    <2> QED BY <1>1, <2>1 DEF SessionTyped, BornBeforeData, Gapless
  <1>3. CASE d \notin connected /\ UNCHANGED <<seq, queue, wire>>
    <2>1. WillFit'
      BY <1>1, <1>3, TellsNothing
    <2> QED BY <1>1, <1>3, <2>1 DEF SessionTyped, BornBeforeData, Gapless
  <1> QED BY <1>2, <1>3, DataIs

(* The steps of a device's connection.                                      *)
LEMMA ConnectionInv ==
    ASSUME Inv, NEW d \in Device, Connected(d) \/ Disconnected(d) \/ Rebirth(d) \/ Ready(d)
    PROVE  Inv'
  <1> USE DEF Inv
  <1>1. /\ UNCHANGED <<link, stage, seen, orphan, gap, value, buffer>>
        /\ timer' \in {timer, timer \cup {d}} /\ (timer' # timer => d \in Batched)
    BY DEF Connected, Disconnected, Rebirth, Ready, AgentOnly, subscriber
  <1>2. HeldBack' /\ BornBeforeData' /\ Gapless'
    BY <1>1 DEF HeldBack, BornBeforeData, Gapless
  <1>3. Nothing \in Reading /\ value[d] \in Reading
    BY DEF Reading, SessionTyped
  <1>4. CASE /\ Publish("DBIRTH", d, value[d])
             /\ connected' = connected \cup {d} /\ alive' = connected'
    <2>1. /\ WillFit' /\ seq' \in Number
          /\ queue' \in Seq(DeviceMessage) /\ wire' \in Seq(Message)
          /\ (queue' # <<>> => link' = "down")
      BY <1>1, <1>3, <1>4, Tells DEF DeviceType
    <2> QED BY <1>1, <1>2, <1>4, <2>1 DEF SessionTyped
  <1>5. CASE /\ UNCHANGED <<seq, queue, wire>> /\ alive' = connected'
             /\ connected' \in {connected, connected \cup {d}}
             /\ (link = "up" => connected' = connected)
    <2>1. WillFit'
      BY <1>1, <1>5, TellsNothing
    <2> QED BY <1>1, <1>2, <1>5, <2>1 DEF SessionTyped
  <1>6. CASE Disconnected(d)
    <2>1. /\ Publish("DDEATH", d, Nothing) /\ d \in connected
          /\ connected' = connected \ {d} /\ alive' = connected'
      BY <1>6 DEF Disconnected, SessionTyped
    <2>2. /\ WillFit' /\ seq' \in Number
          /\ queue' \in Seq(DeviceMessage) /\ wire' \in Seq(Message)
          /\ (queue' # <<>> => link' = "down")
      BY <1>1, <1>3, <2>1, Tells DEF DeviceType
    <2> QED BY <1>1, <1>2, <2>1, <2>2 DEF SessionTyped
  <1>7. CASE Connected(d)
    <2>1. connected' = connected \cup {d} /\ alive' = connected'
      BY <1>7 DEF Connected, SessionTyped
    <2> QED BY <1>4, <1>5, <1>7, <2>1, OnlineIs DEF Connected, Unpublished, numbers
  <1>8. CASE Rebirth(d)
    <2>1. link = "up" /\ connected' = connected
      BY <1>8 DEF Rebirth
    <2>2. d \in connected => connected' = connected \cup {d} /\ alive' = connected'
                             /\ Publish("DBIRTH", d, value[d])
      BY <1>8, <2>1, OnlineIs DEF Rebirth, Birth, SessionTyped
    <2>3. d \notin connected => UNCHANGED <<seq, queue, wire>> /\ alive' = connected'
      BY <1>8, <2>1 DEF Rebirth, Birth, Unpublished, numbers, SessionTyped
    <2> QED BY <1>4, <1>5, <2>1, <2>2, <2>3
  <1>9. CASE Ready(d)
    <2>1. UNCHANGED <<seq, queue, wire, connected>> /\ alive' = connected'
      BY <1>9 DEF Ready, Unpublished, numbers, SessionTyped
    <2> QED BY <1>5, <2>1
  <1> QED BY <1>6, <1>7, <1>8, <1>9

(* The driver of a device has a value: it is held back or published.        *)
LEMMA HandleDataInv ==
    ASSUME Inv, NEW d \in Device, NEW v \in Value, HandleData(d, v)
    PROVE  Inv'
  <1> USE DEF Inv
  <1>1. /\ UNCHANGED <<link, stage, seen, orphan, gap, connected, timer>>
        /\ value' = [value EXCEPT ![d] = v] /\ v # Nothing /\ v \in Reading
    BY NothingAssumption DEF HandleData, AgentOnly, subscriber, Reading
  <1>2. value' \in [Device -> Reading] /\ value'[d] = v
        /\ \A e \in Device \ {d} : value'[e] = value[e]
    BY <1>1 DEF SessionTyped
  <1>3. CASE d \in timer
    <2>1. buffer' = [buffer EXCEPT ![d] = v] /\ UNCHANGED <<seq, queue, wire, alive>>
      BY <1>3 DEF HandleData, Unpublished, numbers
    <2>2. buffer' \in [Device -> Reading] /\ buffer'[d] = v
          /\ \A e \in Device \ {d} : buffer'[e] = buffer[e]
      BY <1>1, <2>1 DEF SessionTyped
    <2>3. HeldBack'
      BY <1>1, <1>2, <1>3, <2>2 DEF HeldBack
    <2>4. WillFit'
      <3>1. \A e \in connected : e \in Device
        BY DEF SessionTyped
      <3> QED BY <1>1, <1>2, <2>1, <2>2, <3>1, TellsNothing
    <2> QED BY <1>1, <1>2, <2>1, <2>2, <2>3, <2>4 DEF SessionTyped, BornBeforeData, Gapless
  <1>4. CASE d \notin timer
    <2>1. Data(d, v, v) /\ buffer' = buffer
      BY <1>4 DEF HandleData
    <2>2. HeldBack'
      BY <1>1, <1>2, <1>4, <2>1 DEF HeldBack
    <2>3. timer' \subseteq Batched /\ buffer' \in [Device -> Reading]
      BY <1>1, <2>1 DEF SessionTyped
    <2> QED BY <1>1, <1>2, <2>1, <2>2, <2>3, DataKeeps
  <1> QED BY <1>3, <1>4

(* A command overtakes what is held back, and nothing is if the device has  *)
(* no publish interval.                                                     *)
LEMMA WrittenInv ==
    ASSUME Inv, NEW d \in Device, NEW v \in Value, Written(d, v)
    PROVE  Inv'
  <1> USE DEF Inv
  <1>1. /\ UNCHANGED <<link, stage, seen, orphan, gap, connected, timer, buffer>>
        /\ value' = [value EXCEPT ![d] = v] /\ v # Nothing /\ v \in Reading
        /\ Data(d, v, v) /\ d \in Writable
    BY NothingAssumption DEF Written, AgentOnly, subscriber, Reading
  <1>2. value' \in [Device -> Reading] /\ value'[d] = v
        /\ \A e \in Device \ {d} : value'[e] = value[e]
    BY <1>1 DEF SessionTyped
  <1>3. HeldBack'
    <2>1. d \notin Batched => buffer[d] = Nothing
      BY DEF HeldBack, SessionTyped
    <2> QED BY <1>1, <1>2, <2>1 DEF HeldBack
  <1>4. timer' \subseteq Batched /\ buffer' \in [Device -> Reading]
    BY <1>1 DEF SessionTyped
  <1> QED BY <1>1, <1>2, <1>3, <1>4, DataKeeps

(* What was held back is published.                                         *)
LEMMA BufferInv ==
    ASSUME Inv, NEW d \in Device, PublishBuffer(d) \/ Unsubscribed(d)
    PROVE  Inv'
  <1> USE DEF Inv
  <1>1. /\ UNCHANGED <<link, stage, seen, orphan, gap, connected, value>>
        /\ buffer' = [buffer EXCEPT ![d] = Nothing] /\ timer' \in {timer, timer \ {d}}
        /\ Data(d, buffer[d], value[d])
    BY DEF PublishBuffer, Unsubscribed, AgentOnly, subscriber
  <1>2. buffer' \in [Device -> Reading] /\ buffer'[d] = Nothing /\ buffer[d] \in Reading
        /\ \A e \in Device \ {d} : buffer'[e] = buffer[e]
    BY <1>1 DEF SessionTyped, Reading
  <1>3. HeldBack'
    BY <1>1, <1>2 DEF HeldBack
  <1>4. timer' \subseteq Batched /\ value' \in [Device -> Reading]
    BY <1>1 DEF SessionTyped
  <1>5. d \notin Batched \cap Writable => buffer[d] \in {Nothing, value[d]}
    BY DEF HeldBack
  <1> QED BY <1>1, <1>2, <1>3, <1>4, <1>5, DataKeeps

-----------------------------------------------------------------------------
(* The queue goes out before the node is born, and counts for nothing.      *)
LEMMA OpenedInv == ASSUME Inv, Opened PROVE Inv'
  <1> USE DEF Inv
  <1>1. /\ link = "down" /\ link' = "open" /\ wire' = wire \o queue /\ queue' = <<>>
        /\ stage # "stopped"
        /\ UNCHANGED <<stage, connected, alive, timer, value, buffer, seq, seen, orphan, gap>>
    BY DEF Opened, devices, numbers, subscriber
  <1>2. PICK s \in Knowledge : Leads(wire, seen, s) /\ ~s.up
    BY <1>1 DEF WillFit
  <1>3. /\ queue \in Seq(DeviceMessage) /\ queue \in Seq(Message) /\ wire \in Seq(Message)
    BY DEF SessionTyped, Message
  <1>4. Leads(wire', seen, s) /\ wire' \in Seq(Message)
    BY <1>1, <1>2, <1>3, LeadsIgnored, LeadsThrough
  <1>5. WillFit'
    BY <1>1, <1>2, <1>4 DEF WillFit
  <1> QED BY <1>1, <1>4, <1>5 DEF SessionTyped, HeldBack, BornBeforeData, Gapless

(* The birth of the node, and of its devices, tells all.                    *)
LEMMA BirthAllFits ==
    ASSUME SessionTyped, WillFit, BirthAll, link' = "up", link # "down",
           UNCHANGED <<stage, connected, timer, value, buffer, seen>>
    PROVE  WillFit' /\ SessionTyped'
  <1>1. PICK order \in InOrder(connected) :
            /\ wire' = Append(wire, NodeBirth) \o Births(order)
            /\ seq' = (1 + Len(order)) % Modulus /\ alive' = connected /\ queue' = queue
    BY DEF BirthAll
  <1>2. PICK s \in Knowledge : Leads(wire, seen, s)
    BY DEF WillFit
  <1> DEFINE t == [up |-> TRUE, born |-> {}, value |-> NoReading, seq |-> 0]
  <1>3. NodeBirth \in NodeMessage /\ NodeBirth.type = "NBIRTH" /\ NodeBirth.seq = 0
    BY BoundsAssumption DEF NodeBirth, NodeMessage, Number
  <1>4. Told(s, NodeBirth) = t /\ Right(s, NodeBirth) /\ t \in Knowledge
    BY <1>3, ToldNode
  <1>5. wire \in Seq(Message) /\ NodeBirth \in Message
        /\ Append(wire, NodeBirth) = wire \o <<NodeBirth>>
        /\ Append(wire, NodeBirth) \in Seq(Message)
    BY <1>3 DEF SessionTyped, Message
  <1>6. Leads(Append(wire, NodeBirth), seen, t)
    BY <1>2, <1>4, <1>5, LeadsOn
  <1> HIDE DEF t
  <1>7. PICK u \in Knowledge :
              /\ Leads(Births(order), t, u) /\ Births(order) \in Seq(Message)
              /\ u.up /\ u.born = connected /\ u.seq = Len(order) % Modulus
              /\ \A d \in connected : u.value[d] = value[d]
    BY <1>4, LeadsBorn DEF t
  <1>8. Leads(wire', seen, u) /\ wire' \in Seq(Message)
    <2>1. Leads(Append(wire, NodeBirth) \o Births(order), seen, u)
      BY <1>5, <1>6, <1>7, LeadsThrough
    <2>2. Append(wire, NodeBirth) \o Births(order) \in Seq(Message)
      BY <1>5, <1>7
    <2> QED BY <1>1, <2>1, <2>2
  <1>9. Len(order) \in Nat
    BY DevicesAssumption DEF InOrder
  <1>10. u.seq \in Number /\ seq' = (u.seq + 1) % Modulus
    BY <1>1, <1>7, <1>9, RestPlusOne
  <1>11. seq' \in Number
    <2>1. 1 + Len(order) \in Nat
      BY <1>9
    <2> QED BY <1>1, <2>1, RestPlusOne
  <1>12. Fits(u)'
    BY <1>7, <1>10 DEF Fits
  <1>13. WillFit'
    BY <1>8, <1>12 DEF WillFit
  <1> QED BY <1>1, <1>8, <1>11, <1>13 DEF SessionTyped

(* The will reaches the subscriber whatever was lost before it.             *)
LEMMA WillDown ==
    ASSUME SessionTyped, WillFit, Will, seen' = seen, link' = "down"
    PROVE  WillFit' /\ wire' \in Seq(Message)
  <1>1. PICK k \in 0..Len(wire) : wire' = SubSeq(wire, 1, k) \o <<Death(Nothing)>>
    BY DEF Will
  <1>2. SubSeq(wire, 1, k) \in Seq(Message)
    BY DEF SessionTyped
  <1>3. Death(Nothing) \in NodeMessage /\ Death(Nothing).type = "NDEATH"
    BY DEF Death, NodeMessage
  <1>4. PICK s \in Knowledge : Leads(SubSeq(wire, 1, k), seen, s)
    BY LeadsPart DEF WillFit, SessionTyped
  <1>5. Right(s, Death(Nothing)) /\ ~Told(s, Death(Nothing)).up
    BY <1>3, ToldNode
  <1>6. Leads(wire', seen, Told(s, Death(Nothing))) /\ Told(s, Death(Nothing)) \in Knowledge
    BY <1>1, <1>2, <1>3, <1>4, <1>5, LeadsOn DEF Message
  <1> QED BY <1>1, <1>2, <1>3, <1>5, <1>6 DEF WillFit, Message

(* So does the node's own death; and with nothing said, it is dead already. *)
LEMMA StopDown ==
    ASSUME SessionTyped, WillFit, seen' = seen, link' = "down",
           wire' = IF link = "down" THEN wire ELSE Append(wire, Death(seq))
    PROVE  WillFit' /\ wire' \in Seq(Message)
  <1>1. PICK s \in Knowledge : Leads(wire, seen, s) /\ (link # "up" => ~s.up)
    BY DEF WillFit
  <1>2. CASE link = "down"
    BY <1>1, <1>2 DEF WillFit, SessionTyped
  <1>3. CASE link # "down"
    <2>1. Death(seq) \in NodeMessage /\ Death(seq).type = "NDEATH"
      BY DEF Death, NodeMessage, SessionTyped
    <2>2. Right(s, Death(seq)) /\ ~Told(s, Death(seq)).up
      BY <2>1, ToldNode
    <2>3. Append(wire, Death(seq)) = wire \o <<Death(seq)>> /\ Death(seq) \in Message
          /\ wire \in Seq(Message)
      BY <2>1 DEF SessionTyped, Message
    <2>4. Leads(wire', seen, Told(s, Death(seq))) /\ Told(s, Death(seq)) \in Knowledge
      BY <1>1, <1>3, <2>2, <2>3, LeadsOn
    <2> QED BY <1>3, <2>2, <2>3, <2>4 DEF WillFit
  <1> QED BY <1>2, <1>3

(* A new process knows nothing and says nothing.                            *)
LEMMA FreshKeeps ==
    ASSUME Fresh, WillFit', wire' \in Seq(Message), Inv, UNCHANGED subscriber
    PROVE  Inv'
  <1>1. HeldBack'
    BY DEF Fresh, HeldBack, NoReading, SessionTyped
  <1>2. SessionTyped'
    BY DEF Fresh, NoReading, Reading, SessionTyped, subscriber, Inv
  <1> QED BY <1>1, <1>2 DEF Inv, BornBeforeData, Gapless, subscriber

(* The subscriber takes a message: it is one step further on the same way.  *)
LEMMA DeliverInv == ASSUME Inv, Deliver PROVE Inv'
  <1> USE DEF Inv
  <1>1. /\ wire # <<>> /\ wire' = Tail(wire) /\ seen' = Told(seen, Head(wire))
        /\ orphan' = (orphan \/ Unborn(seen, Head(wire)))
        /\ gap' = (gap \/ Missed(seen, Head(wire)))
        /\ UNCHANGED <<link, stage, connected, alive, timer, value, buffer, seq, queue>>
    BY DEF Deliver, devices, numbers
  <1>2. PICK s \in Knowledge : Leads(wire, seen, s) /\ IF link = "up" THEN Fits(s) ELSE ~s.up
    BY DEF WillFit
  <1>3. wire \in Seq(Message) /\ Head(wire) \in Message /\ wire' \in Seq(Message)
    BY <1>1 DEF SessionTyped
  <1>4. Right(seen, Head(wire)) /\ Leads(wire', seen', s)
    BY <1>1, <1>2, <1>3, LeadsRest
  <1>5. seen' \in Knowledge
    BY <1>1, <1>3, ToldNode, ToldDevice DEF SessionTyped, Message
  <1>6. WillFit'
    BY <1>1, <1>2, <1>4 DEF WillFit, Fits
  <1>7. BornBeforeData' /\ Gapless'
    BY <1>1, <1>4 DEF BornBeforeData, Gapless, Right
  <1> QED BY <1>1, <1>3, <1>5, <1>6, <1>7 DEF SessionTyped, HeldBack

-----------------------------------------------------------------------------
(* At first nothing is under way and nothing known.                         *)
LEMMA InitInv == Init => Inv
  <1> SUFFICES ASSUME Init PROVE Inv
    OBVIOUS
  <1>1. seen \in Knowledge /\ ~seen.up
    BY DEF Init, Knowledge, NoReading, Reading
  <1>2. WillFit
    BY <1>1, LeadsNone DEF Init, WillFit
  <1>3. SessionTyped
    BY <1>1 DEF Init, SessionTyped, NoReading, Reading
  <1> QED BY <1>2, <1>3 DEF Init, Inv, HeldBack, BornBeforeData, Gapless, NoReading

(* Every step keeps the invariant.                                          *)
LEMMA NextInv == ASSUME Inv, [Next]_vars PROVE Inv'
  <1>1. CASE Lost
    <2>1. WillFit' /\ wire' \in Seq(Message)
      BY <1>1, WillDown DEF Inv, Lost, subscriber
    <2> QED BY <1>1, <2>1 DEF Inv, Lost, devices, numbers, subscriber, SessionTyped, HeldBack,
                              BornBeforeData, Gapless
  <1>2. CASE Authenticated \/ NodeRebirth
    <2>1. /\ BirthAll /\ link' = "up" /\ link # "down"
          /\ UNCHANGED <<stage, connected, timer, value, buffer, seen, orphan, gap>>
      BY <1>2 DEF Authenticated, NodeRebirth, AgentOnly, subscriber
    <2>2. WillFit' /\ SessionTyped'
      BY <2>1, BirthAllFits DEF Inv
    <2> QED BY <2>1, <2>2 DEF Inv, HeldBack, BornBeforeData, Gapless
  <1>3. CASE Stop
    <2>1. UNCHANGED <<link, devices, numbers, queue, wire, subscriber>> /\ stage' = "stopping"
      BY <1>3 DEF Stop
    <2> QED BY <2>1 DEF Inv, devices, numbers, subscriber, SessionTyped, HeldBack, WillFit, Fits,
                        BornBeforeData, Gapless
  <1>4. CASE StopNode
    <2>1. WillFit' /\ wire' \in Seq(Message)
      BY <1>4, StopDown DEF Inv, StopNode, subscriber
    <2> QED BY <1>4, <2>1 DEF Inv, StopNode, devices, numbers, subscriber, SessionTyped,
                              HeldBack, BornBeforeData, Gapless
  <1>5. CASE Run
    <2>1. link = "down" /\ link' = "down" /\ UNCHANGED <<wire, seen>>
      BY <1>5 DEF Inv, SessionTyped, Run, Fresh, subscriber
    <2>2. WillFit' /\ wire' \in Seq(Message)
      BY <2>1, StopDown DEF Inv
    <2> QED BY <1>5, <2>2, FreshKeeps DEF Run
  <1>6. CASE Crash
    <2>1. link' = "down" /\ seen' = seen
      BY <1>6 DEF Crash, Fresh, subscriber
    <2>2. WillFit' /\ wire' \in Seq(Message)
      <3>1. CASE link = "down"
        BY <1>6, <2>1, <3>1, StopDown DEF Inv, Crash
      <3>2. CASE link # "down"
        BY <1>6, <2>1, <3>2, WillDown DEF Inv, Crash
      <3> QED BY <3>1, <3>2
    <2> QED BY <1>6, <2>2, FreshKeeps DEF Crash
  <1>7. CASE UNCHANGED vars
    BY <1>7 DEF Inv, vars, devices, numbers, subscriber, SessionTyped, HeldBack, WillFit, Fits,
                BornBeforeData, Gapless
  <1> QED BY <1>1, <1>2, <1>3, <1>4, <1>5, <1>6, <1>7, ConnectionInv, HandleDataInv,
             WrittenInv, BufferInv, OpenedInv, DeliverInv DEF Next, DeviceStep

(* Inv holds in every state of every behaviour.                             *)
THEOREM InvCorrect == Spec => []Inv
  <1>1. Inv /\ [Next]_vars => Inv'
    BY NextInv
  <1> QED BY <1>1, InitInv, PTL DEF Spec

(* Between the birth and the death of the node a subscriber is told of a    *)
(* device's data or death only after the device's birth.                    *)
THEOREM BornBeforeDataCorrect == Spec => []BornBeforeData
  <1>1. Inv => BornBeforeData
    BY DEF Inv
  <1> QED BY <1>1, InvCorrect, PTL

(* And it misses no number, whatever was queued while the agent was offline *)
(* and however often the numbers have wrapped.                              *)
THEOREM GaplessCorrect == Spec => []Gapless
  <1>1. Inv => Gapless
    BY DEF Inv
  <1> QED BY <1>1, InvCorrect, PTL

(* With nothing under way and the agent online, the subscriber knows which  *)
(* devices are connected, and the value of each that holds nothing back.    *)
THEOREM QuietAgreesCorrect == Spec => []QuietAgrees
  <1>1. ASSUME Inv, Online, wire = <<>>
        PROVE  Fits(seen)
    <2>1. PICK s \in Knowledge : Leads(wire, seen, s) /\ Fits(s)
      BY <1>1 DEF Inv, WillFit, Online
    <2>2. s = seen
      <3>1. Len(wire) = 0
        BY <1>1
      <3> QED BY <2>1, <3>1 DEF Leads
    <2> QED BY <2>1, <2>2
  <1>2. Inv => QuietAgrees
    BY <1>1 DEF QuietAgrees, Fits
  <1> QED BY <1>2, InvCorrect, PTL

-----------------------------------------------------------------------------
(* The alias counter never passes the number of metrics that have an alias, *)
(* though a birth of the node sets it back and leaves the aliases.          *)
Given == {d \in 0..N : alias[d] # Nothing}

AliasTyped ==
    /\ alias \in [0..N -> 0..N \cup {Nothing}]
    /\ counter \in Nat /\ counter <= Cardinality(Given)

AllTyped == AliasTyped /\ orphan \in BOOLEAN /\ gap \in BOOLEAN /\ faults \in 0..MaxFaults

(* Sets of metrics are finite.                                              *)
LEMMA MetricsFinite ==
    ASSUME NEW S \in SUBSET (0..N)
    PROVE  IsFiniteSet(S) /\ Cardinality(S) \in Nat /\ Cardinality(S) <= N + 1
  <1>1. N \in Nat /\ IsFiniteSet(0..N) /\ Cardinality(0..N) = N + 1
    BY DevicesAssumption, FS_Interval
  <1> QED BY <1>1, FS_Subset, FS_CardinalityType

(* New aliases follow the counter, which starts at 0 or where it was left.  *)
LEMMA GiveAliasesTyped ==
    ASSUME AliasTyped, NEW births \in SUBSET (0..N), NEW next \in {0, counter},
           GiveAliases(births, next)
    PROVE  AliasTyped'
  <1> DEFINE new == {d \in births : alias[d] = Nothing}
             before(d) == {e \in new : e < d}
  <1>0. N \in Nat /\ Nothing \notin Nat /\ next \in Nat
    BY DevicesAssumption, NothingAssumption DEF AliasTyped
  <1>1. /\ alias' = [d \in 0..N |-> IF d \in new THEN next + Cardinality(before(d))
                                    ELSE alias[d]]
        /\ counter' = next + Cardinality(new)
    BY DEF GiveAliases
  <1>2. new \in SUBSET (0..N) /\ Given \in SUBSET (0..N) /\ Given \cap new = {}
        /\ \A d \in new : before(d) \in SUBSET (0..N) /\ before(d) \in SUBSET (new \ {d})
    <2>1. \A d \in 0..N : ~(d < d)
      BY <1>0
    <2> QED BY <2>1 DEF Given
  <1>3. /\ IsFiniteSet(new) /\ Cardinality(new) \in Nat
        /\ IsFiniteSet(Given) /\ Cardinality(Given) \in Nat
        /\ \A d \in new : Cardinality(before(d)) \in Nat
    BY <1>2, MetricsFinite
  <1>4. \A d \in new : Cardinality(before(d)) < Cardinality(new)
    <2> TAKE d \in new
    <2>1. IsFiniteSet(new \ {d}) /\ Cardinality(new \ {d}) = Cardinality(new) - 1
      BY <1>3, FS_RemoveElement
    <2>2. Cardinality(before(d)) <= Cardinality(new \ {d})
      BY <1>2, <2>1, FS_Subset
    <2> QED BY <1>3, <2>1, <2>2
  <1>5. Cardinality(Given \cup new) = Cardinality(Given) + Cardinality(new)
        /\ Cardinality(Given \cup new) <= N + 1 /\ Cardinality(Given \cup new) \in Nat
    <2> HIDE DEF new, before
    <2>1. Cardinality(Given \cap new) = 0
      BY <1>2, FS_EmptySet
    <2>2. Cardinality(Given \cup new) = Cardinality(Given) + Cardinality(new)
      BY <1>3, <2>1, FS_Union
    <2>3. Given \cup new \in SUBSET (0..N)
      BY <1>2
    <2> QED BY <2>2, <2>3, MetricsFinite
  <1>6. next + Cardinality(new) <= Cardinality(Given \cup new)
    BY <1>0, <1>3, <1>5 DEF AliasTyped
  <1>7. \A d \in new : next + Cardinality(before(d)) \in 0..N
    BY <1>0, <1>3, <1>4, <1>5, <1>6
  <1> HIDE DEF before, new
  <1>8. alias' \in [0..N -> 0..N \cup {Nothing}]
    BY <1>1, <1>7 DEF AliasTyped
  <1>9. Given' = Given \cup new
    <2>1. \A d \in 0..N : alias'[d] # Nothing <=> d \in new \/ alias[d] # Nothing
      BY <1>0, <1>1, <1>7
    <2> QED BY <1>2, <2>1 DEF Given
  <1> QED BY <1>0, <1>1, <1>3, <1>5, <1>6, <1>8, <1>9 DEF AliasTyped

(* Without births there are no new aliases.                                 *)
LEMMA NoAliasTyped == ASSUME AliasTyped, UNCHANGED <<alias, counter>> PROVE AliasTyped'
  BY DEF AliasTyped, Given

(* Every step of a device gives aliases to what it bears, or none.          *)
LEMMA DeviceTyped ==
    ASSUME AliasTyped, NEW d \in Device, DeviceStep(d) \/ Unsubscribed(d)
    PROVE  AliasTyped'
  <1>1. {d} \in SUBSET (0..N)
    BY DevicesAssumption DEF Device
  <1>2. GiveAliases({d}, counter) => AliasTyped'
    BY <1>1, GiveAliasesTyped
  <1>3. \A v : Birth(d, v) => AliasTyped'
    BY <1>2, NoAliasTyped DEF Birth, Unpublished, numbers
  <1>4. \A x, v : Data(d, x, v) => AliasTyped'
    BY <1>3, NoAliasTyped DEF Data
  <1>5. CASE Connected(d)
    BY <1>2, <1>5, NoAliasTyped DEF Connected, Unpublished, numbers
  <1>6. CASE Ready(d) \/ Disconnected(d)
    BY <1>6, NoAliasTyped DEF Ready, Disconnected, Unpublished, numbers
  <1>7. CASE PublishBuffer(d) \/ Unsubscribed(d) \/ Rebirth(d)
    BY <1>3, <1>4, <1>7 DEF PublishBuffer, Unsubscribed, Rebirth
  <1>8. ASSUME NEW v \in Value, HandleData(d, v) \/ Written(d, v)
        PROVE  AliasTyped'
    BY <1>4, <1>8, NoAliasTyped DEF HandleData, Written, Unpublished, numbers
  <1> QED BY <1>5, <1>6, <1>7, <1>8 DEF DeviceStep

(* Every step keeps the types that the invariant does not need.             *)
LEMMA NextTyped == ASSUME Inv, AllTyped, [Next]_vars PROVE AllTyped'
  <1> USE DEF AllTyped
  <1>1. ASSUME NEW d \in Device, DeviceStep(d) \/ Unsubscribed(d)
        PROVE  AllTyped'
    <2>1. UNCHANGED <<orphan, gap, faults>>
      BY <1>1 DEF DeviceStep, Connected, Ready, Disconnected, PublishBuffer, Rebirth,
                  HandleData, Written, Unsubscribed, AgentOnly, subscriber
    <2> QED BY <1>1, <2>1, DeviceTyped
  <1>2. CASE Authenticated \/ NodeRebirth
    <2>1. BirthAll /\ UNCHANGED <<orphan, gap, faults>>
      BY <1>2 DEF Authenticated, NodeRebirth, AgentOnly, subscriber
    <2>2. {0} \cup connected \in SUBSET (0..N) /\ GiveAliases({0} \cup connected, 0)
      BY <2>1, DevicesAssumption DEF BirthAll, Inv, SessionTyped, Device
    <2> QED BY <2>1, <2>2, GiveAliasesTyped
  <1>3. CASE Opened \/ Deliver
    <2>1. UNCHANGED <<alias, counter, faults>>
      BY <1>3 DEF Opened, Deliver, numbers
    <2>2. orphan' \in BOOLEAN /\ gap' \in BOOLEAN
      BY <1>3, NextInv DEF Opened, Deliver, subscriber
    <2> QED BY <2>1, <2>2, NoAliasTyped
  <1>4. CASE Lost \/ Stop \/ StopNode \/ UNCHANGED vars
    <2>1. UNCHANGED <<alias, counter, orphan, gap>>
      BY <1>4 DEF Lost, Stop, StopNode, vars, numbers, subscriber
    <2>2. faults' \in 0..MaxFaults
      BY <1>4, BoundsAssumption DEF Lost, Stop, StopNode, Fault, vars
    <2> QED BY <2>1, <2>2, NoAliasTyped
  <1>5. CASE Run \/ Crash
    <2>1. alias' = NoAlias /\ counter' = 0 /\ UNCHANGED <<orphan, gap>>
      BY <1>5 DEF Run, Crash, Fresh, subscriber
    <2>2. faults' \in 0..MaxFaults
      BY <1>5, BoundsAssumption DEF Run, Crash, Fault
    <2>3. Cardinality(Given') \in Nat
      <3>1. Given' \in SUBSET (0..N)
        BY DEF Given
      <3> QED BY <3>1, MetricsFinite
    <2>4. AliasTyped'
      BY <2>1, <2>3 DEF AliasTyped, NoAlias
    <2> QED BY <2>1, <2>2, <2>4
  <1> QED BY <1>1, <1>2, <1>3, <1>4, <1>5 DEF Next

(* The variables have their types in every state.                           *)
THEOREM TypeCorrect == Spec => []SessionTypeOK
  <1>1. Init => AllTyped
    <2> SUFFICES ASSUME Init PROVE AllTyped
      OBVIOUS
    <2>1. Given \in SUBSET (0..N)
      BY DEF Given
    <2>2. Cardinality(Given) \in Nat
      BY <2>1, MetricsFinite
    <2>3. AliasTyped
      BY <2>2 DEF Init, AliasTyped, NoAlias
    <2>4. orphan \in BOOLEAN /\ gap \in BOOLEAN
      BY DEF Init
    <2> QED BY <2>3, <2>4, BoundsAssumption DEF Init, AllTyped
  <1>2. Inv /\ AllTyped /\ [Next]_vars => AllTyped'
    BY NextTyped
  <1>3. Inv /\ AllTyped => SessionTypeOK
    <2> SUFFICES ASSUME Inv, AllTyped PROVE SessionTypeOK
      OBVIOUS
    <2>1. Cardinality(Given) \in Nat /\ Cardinality(Given) <= N + 1
      <3>1. Given \in SUBSET (0..N)
        BY DEF Given
      <3> QED BY <3>1, MetricsFinite
    <2>2. counter \in 0..(N + 1) /\ stage \in {"running", "stopping", "stopped"}
      BY <2>1, DevicesAssumption DEF Inv, SessionTyped, AllTyped, AliasTyped
    <2> QED BY <2>2 DEF Inv, SessionTyped, AllTyped, AliasTyped, SessionTypeOK
  <1> QED BY <1>1, <1>2, <1>3, InvCorrect, PTL DEF Spec
=============================================================================
