------------------------ MODULE ClusterManagerProofs ------------------------
(* Proofs about the Cluster Manager, for any number of accounts, changes,  *)
(* faults and patches that wait.                                           *)
EXTENDS ClusterManager, TLAPS, SequenceTheorems, WellFoundedInduction

(* What an entry, a patch and an action can be when n accounts have been   *)
(* created.                                                                *)
Values(k, n) ==
    IF k = Version_ THEN 0..2 ELSE IF k \in Numeric THEN 0..n ELSE BOOLEAN

Statuses(n) == {st \in [Key -> Nat \cup BOOLEAN] : \A k \in Key : st[k] \in Values(k, n)}

Patches(n) ==
    {p \in UNION {[D -> Nat \cup BOOLEAN] : D \in SUBSET Key} :
        \A k \in DOMAIN p : p[k] \in Values(k, n)}

Jobs(n) ==
    [kind : {"update", "delete"}, at : Nat, acct : 0..n, live : BOOLEAN, own : Statuses(n)]

-----------------------------------------------------------------------------
(* The properties of a status record are different from each other.        *)
LEMMA KeysApart ==
    /\ {Spec_, Ready_, Version_} \subseteq Key
    /\ \A r \in Role : {Uuid(r), Done(r)} \subseteq Key
    /\ Spec_ # Ready_ /\ Spec_ # Version_ /\ Ready_ # Version_
    /\ \A r \in Role : {Uuid(r), Done(r)} \cap {Spec_, Ready_, Version_} = {}
    /\ \A r, s \in Role : Uuid(r) # Done(s)
    /\ \A r, s \in Role : r # s => Uuid(r) # Uuid(s) /\ Done(r) # Done(s)
    /\ Spec_ \notin Numeric /\ Ready_ \notin Numeric /\ Version_ \in Numeric
    /\ \A r \in Role : Uuid(r) \in Numeric /\ Done(r) \notin Numeric
    /\ \A k \in Key : k \in {Spec_, Ready_, Version_} \cup {Uuid(r) : r \in Role} \cup {Done(r) : r \in Role}
    /\ Role = {"flux", "krbkeys"}
    /\ None = 0
  BY DEF Key, Numeric, Spec_, Ready_, Version_, Uuid, Done, Role, None

LEMMA BlankTyped == ASSUME NEW n \in Nat PROVE Blank \in Statuses(n) /\ Blank # Nothing
  <1>1. \A k \in Key : Blank[k] \in Values(k, n) /\ Blank[k] \in Nat \cup BOOLEAN
    <2> TAKE k \in Key
    <2>1. CASE k \in Numeric
      <3>1. Blank[k] = 0
        BY <2>1 DEF Blank, None
      <3> QED BY <2>1, <3>1 DEF Values
    <2>2. CASE k \notin Numeric
      <3>1. Blank[k] = FALSE /\ k # Version_
        BY <2>2, KeysApart DEF Blank
      <3> QED BY <2>2, <3>1 DEF Values
    <2> QED BY <2>1, <2>2
  <1>2. Blank \in [Key -> Nat \cup BOOLEAN]
    BY <1>1 DEF Blank
  <1> QED BY <1>1, <1>2, NothingAssumption DEF Statuses

LEMMA StatusesGrow ==
    ASSUME NEW m \in Nat, NEW n \in Nat, m <= n
    PROVE  Statuses(m) \subseteq Statuses(n) /\ Patches(m) \subseteq Patches(n) /\ Jobs(m) \subseteq Jobs(n)
  <1>1. \A k : Values(k, m) \subseteq Values(k, n)
    BY DEF Values
  <1>2. Statuses(m) \subseteq Statuses(n) /\ Patches(m) \subseteq Patches(n)
    BY <1>1 DEF Statuses, Patches
  <1>3. 0..m \subseteq 0..n
    OBVIOUS
  <1> QED BY <1>2, <1>3 DEF Jobs

LEMMA SomeThings ==
    ASSUME NEW n \in Nat
    PROVE  Nothing \notin Statuses(n) /\ Nothing \notin Patches(n) /\ Nothing \notin Jobs(n)
  <1>1. Nothing \notin Statuses(n) /\ Nothing \notin Patches(n)
    BY NothingAssumption DEF Statuses, Patches
  <1>2. {"update", "delete"} = DOMAIN Calls
    BY DEF Calls
  <1>3. 0..n \subseteq Nat /\ Statuses(n) \subseteq [Key -> Nat \cup BOOLEAN]
    BY DEF Statuses
  <1>4. Jobs(n) \subseteq [kind : DOMAIN Calls, at : Nat, acct : Nat, live : BOOLEAN,
                           own : [Key -> Nat \cup BOOLEAN]]
    BY <1>2, <1>3 DEF Jobs
  <1> QED BY <1>1, <1>4, NothingAssumption

(* Patches of one property and of two.                                      *)
LEMMA PatchTyped ==
    ASSUME NEW n \in Nat, NEW k \in Key, NEW v \in Values(k, n)
    PROVE  Patch(k, v) \in Patches(n) /\ DOMAIN Patch(k, v) = {k} /\ Patch(k, v)[k] = v
  <1>1. v \in Nat \cup BOOLEAN
    BY DEF Values
  <1>2. Patch(k, v) \in [{k} -> Nat \cup BOOLEAN] /\ {k} \in SUBSET Key
    BY <1>1 DEF Patch
  <1>3. Patch(k, v) \in UNION {[D -> Nat \cup BOOLEAN] : D \in SUBSET Key}
    BY <1>2
  <1> QED BY <1>3 DEF Patch, Patches

LEMMA PairTyped ==
    ASSUME NEW n \in Nat, NEW k \in Key, NEW l \in Key, NEW p, p = [x \in {k, l} |-> p[x]],
           p[k] \in Values(k, n), p[l] \in Values(l, n)
    PROVE  p \in Patches(n)
  <1>1. \A x : Values(x, n) \subseteq Nat \cup BOOLEAN
    BY DEF Values
  <1>2. p \in [{k, l} -> Nat \cup BOOLEAN] /\ {k, l} \in SUBSET Key
    BY <1>1
  <1>3. p \in UNION {[D -> Nat \cup BOOLEAN] : D \in SUBSET Key}
    BY <1>2
  <1> QED BY <1>3 DEF Patches

-----------------------------------------------------------------------------
(* What a patch does: the properties it names change, and a merge that is  *)
(* made twice changes no more than one that is made once.                  *)
LEMMA Merged ==
    ASSUME NEW n \in Nat, NEW st \in Statuses(n) \cup {Nothing}, NEW p \in Patches(n)
    PROVE  /\ Merge(st, p) \in Statuses(n)
           /\ \A k \in Key : Merge(st, p)[k] =
                IF k \in DOMAIN p THEN p[k] ELSE IF st = Nothing THEN Blank[k] ELSE st[k]
  <1> DEFINE old == IF st = Nothing THEN Blank ELSE st
  <1>1. old \in Statuses(n)
    BY BlankTyped
  <1>2. DOMAIN p \subseteq Key /\ DOMAIN old = Key
    BY <1>1 DEF Patches, Statuses
  <1>3. p # Nothing
    BY SomeThings
  <1>5. Merge(st, p) = [k \in Key |-> IF k \in DOMAIN p THEN p[k] ELSE old[k]]
    BY <1>3 DEF Merge
  <1>6. \A k \in Key : Merge(st, p)[k] \in Values(k, n)
    BY <1>1, <1>5 DEF Statuses, Patches
  <1>7. \A k \in Key : Values(k, n) \subseteq Nat \cup BOOLEAN
    BY DEF Values
  <1>8. Merge(st, p) \in Statuses(n)
    BY <1>5, <1>6, <1>7 DEF Statuses
  <1> QED BY <1>5, <1>8

LEMMA MergedTwice ==
    ASSUME NEW n \in Nat, NEW st \in Statuses(n) \cup {Nothing},
           NEW p \in Patches(n) \cup {Nothing}
    PROVE  Merge(Merge(st, p), p) = Merge(st, p)
  <1>1. CASE p = Nothing
    <2>1. \A x : Merge(x, Nothing) = Nothing
      BY DEF Merge
    <2> QED BY <1>1, <2>1
  <1>2. CASE p \in Patches(n)
    <2> DEFINE once == Merge(st, p)
               twice == Merge(once, p)
    <2>1. once \in Statuses(n) /\ \A k \in DOMAIN p \cap Key : once[k] = p[k]
      BY <1>2, Merged
    <2>2. once # Nothing
      BY <2>1, SomeThings
    <2>3. twice \in Statuses(n)
          /\ \A k \in Key : twice[k] = IF k \in DOMAIN p THEN p[k] ELSE once[k]
      BY <1>2, <2>1, <2>2, Merged
    <2>4. \A k \in Key : twice[k] = once[k]
      BY <2>1, <2>3
    <2>5. once \in [Key -> Nat \cup BOOLEAN] /\ twice \in [Key -> Nat \cup BOOLEAN]
      BY <2>1, <2>3 DEF Statuses
    <2> QED BY <2>4, <2>5
  <1> QED BY <1>1, <1>2

LEMMA MergeTyped ==
    ASSUME NEW n \in Nat, NEW st \in Statuses(n) \cup {Nothing},
           NEW p \in Patches(n) \cup {Nothing}
    PROVE  Merge(st, p) \in Statuses(n) \cup {Nothing}
  <1>1. CASE p = Nothing
    BY <1>1 DEF Merge
  <1>2. CASE p \in Patches(n)
    BY <1>2, Merged
  <1> QED BY <1>1, <1>2

-----------------------------------------------------------------------------
(* The statuses between the patches of a list.                             *)
Trail(f, st, ps) ==
    f = [i \in 0..Len(ps) |-> IF i = 0 THEN st ELSE Merge(f[i - 1], ps[i])]

(* A set of numbers that is not empty has a least one.                     *)
LEMMA LeastNumber ==
    ASSUME NEW S \in SUBSET Nat, S # {}
    PROVE  \E k \in S : \A l \in S : k <= l
  <1> DEFINE R == {ss \in Nat \X Nat : ss[1] < ss[2]}
  <1>1. IsWellFoundedOn(R, Nat)
    BY NatLessThanWellFounded DEF OpToRel
  <1>2. \A l, k \in Nat : l < k => <<l, k>> \in R
    OBVIOUS
  <1> HIDE DEF R
  <1>3. PICK k \in S : \A l \in S : ~(<<l, k>> \in R)
    BY <1>1, WFMin
  <1>4. \A l \in S : ~(l < k)
    BY <1>2, <1>3
  <1> QED BY <1>4

LEMMA TrailExists ==
    ASSUME NEW st, NEW P, NEW ps \in Seq(P)
    PROVE  \E f : Trail(f, st, ps)
  <1> DEFINE N == Len(ps)
             Part(f, m) == f = [i \in 0..m |-> IF i = 0 THEN st ELSE Merge(f[i - 1], ps[i])]
             Bad == {m \in 0..N : ~\E f : Part(f, m)}
  <1>1. N \in Nat
    OBVIOUS
  <1>2. ASSUME Bad # {} PROVE FALSE
    <2>0. Bad \in SUBSET Nat
      BY <1>1
    <2>1. PICK m \in Bad : \A l \in Bad : m <= l
      <3> HIDE DEF Bad
      <3> QED BY <1>2, <2>0, LeastNumber
    <2>2. CASE m = 0
      <3> DEFINE f == [i \in 0..0 |-> st]
      <3>1. Part(f, 0)
        OBVIOUS
      <3> QED BY <2>1, <2>2, <3>1
    <2>3. CASE m # 0
      <3>1. m \in Nat /\ m - 1 \in 0..N /\ m - 1 \notin Bad
        BY <1>1, <2>1, <2>3
      <3>2. PICK g : Part(g, m - 1)
        BY <3>1
      <3> DEFINE f == [i \in 0..m |-> IF i = m THEN Merge(g[m - 1], ps[m]) ELSE g[i]]
      <3>3. \A i \in 0..m : f[i] = IF i = 0 THEN st ELSE Merge(f[i - 1], ps[i])
        <4> TAKE i \in 0..m
        <4> DEFINE X(j) == Merge(g[j - 1], ps[j])
        <4>1. \A j \in 0..(m - 1) : g[j] = IF j = 0 THEN st ELSE X(j)
          BY <3>2
        <4>2. CASE i = m
          BY <2>3, <3>1, <4>2
        <4>3. CASE i # m
          <5>1. i \in 0..(m - 1) /\ f[i] = g[i] /\ (i # 0 => f[i - 1] = g[i - 1])
            BY <3>1, <4>3
          <5> QED BY <4>1, <5>1
        <4> QED BY <4>2, <4>3
      <3>4. Part(f, m)
        <4> DEFINE h == [i \in 0..m |-> IF i = 0 THEN st ELSE Merge(f[i - 1], ps[i])]
        <4>1. \A i \in 0..m : f[i] = h[i]
          BY <3>3
        <4> QED BY <4>1
      <3> QED BY <2>1, <3>4
    <2> QED BY <2>2, <2>3
  <1>3. N \in 0..N /\ N \notin Bad
    BY <1>1, <1>2
  <1> QED BY <1>3 DEF Trail

LEMMA TrailsAgree ==
    ASSUME NEW st, NEW P, NEW ps \in Seq(P), NEW f, NEW g, Trail(f, st, ps), Trail(g, st, ps)
    PROVE  f = g
  <1> DEFINE N == Len(ps)
             Bad == {i \in 0..N : f[i] # g[i]}
  <1>1. N \in Nat
    OBVIOUS
  <1>2. /\ f = [i \in 0..N |-> f[i]] /\ g = [i \in 0..N |-> g[i]]
        /\ f[0] = st /\ g[0] = st
        /\ \A i \in 0..N : i # 0 => f[i] = Merge(f[i - 1], ps[i]) /\ g[i] = Merge(g[i - 1], ps[i])
    BY <1>1 DEF Trail
  <1>3. ASSUME Bad # {} PROVE FALSE
    <2>0. Bad \in SUBSET Nat
      BY <1>1
    <2>1. PICK m \in Bad : \A l \in Bad : m <= l
      <3> HIDE DEF Bad
      <3> QED BY <1>3, <2>0, LeastNumber
    <2>2. m \in 0..N /\ f[m] # g[m] /\ m # 0
      BY <1>2, <2>1
    <2>3. m - 1 \in 0..N /\ m - 1 \notin Bad
      BY <1>1, <2>1, <2>2
    <2>4. f[m - 1] = g[m - 1]
      BY <2>3
    <2> QED BY <1>2, <2>2, <2>4
  <1>4. \A i \in 0..N : f[i] = g[i]
    BY <1>3
  <1> HIDE DEF N
  <1> QED BY <1>2, <1>4

(* MergeAll is where a trail ends.                                         *)
LEMMA MergeAllEnds ==
    ASSUME NEW st, NEW P, NEW ps \in Seq(P), NEW f, Trail(f, st, ps)
    PROVE  MergeAll(st, ps) = f[Len(ps)]
  <1> DEFINE merged == CHOOSE g : Trail(g, st, ps)
  <1>1. Trail(merged, st, ps)
    BY TrailExists
  <1>2. merged = f
    BY <1>1, TrailsAgree
  <1>3. MergeAll(st, ps) = merged[Len(ps)]
    BY DEF MergeAll, Trail
  <1> QED BY <1>2, <1>3

LEMMA MergeAllNone == ASSUME NEW st PROVE MergeAll(st, <<>>) = st
  <1> DEFINE f == [i \in 0..0 |-> st]
  <1>1. <<>> \in Seq({}) /\ Len(<<>>) = 0
    OBVIOUS
  <1>2. f = [i \in 0..0 |-> IF i = 0 THEN st ELSE Merge(f[i - 1], <<>>[i])]
    OBVIOUS
  <1>3. Trail(f, st, <<>>)
    BY <1>1, <1>2 DEF Trail
  <1>4. MergeAll(st, <<>>) = f[Len(<<>>)]
    BY <1>1, <1>3, MergeAllEnds
  <1> QED BY <1>1, <1>4

LEMMA MergeAllAppend ==
    ASSUME NEW st, NEW P, NEW ps \in Seq(P), NEW p \in P
    PROVE  MergeAll(st, Append(ps, p)) = Merge(MergeAll(st, ps), p)
  <1> DEFINE N == Len(ps)
             qs == Append(ps, p)
  <1>1. PICK f : Trail(f, st, ps)
    BY TrailExists
  <1>2. /\ N \in Nat /\ qs \in Seq(P) /\ Len(qs) = N + 1
        /\ qs[N + 1] = p /\ \A i \in 1..N : qs[i] = ps[i]
    OBVIOUS
  <1> DEFINE g == [i \in 0..(N + 1) |-> IF i = N + 1 THEN Merge(f[N], p) ELSE f[i]]
             h == [i \in 0..(N + 1) |-> IF i = 0 THEN st ELSE Merge(g[i - 1], qs[i])]
  <1>3. \A i \in 0..N : f[i] = IF i = 0 THEN st ELSE Merge(f[i - 1], ps[i])
    BY <1>1 DEF Trail
  <1>4. \A i \in 0..(N + 1) : g[i] = IF i = 0 THEN st ELSE Merge(g[i - 1], qs[i])
    <2> TAKE i \in 0..(N + 1)
    <2>1. CASE i = N + 1
      BY <1>2, <2>1
    <2>2. CASE i # N + 1
      <3>1. i \in 0..N /\ g[i] = f[i] /\ (i # 0 => g[i - 1] = f[i - 1] /\ qs[i] = ps[i])
        BY <1>2, <2>2
      <3> QED BY <1>3, <3>1
    <2> QED BY <2>1, <2>2
  <1>5. g = h
    <2>1. \A i \in 0..(N + 1) : g[i] = h[i]
      BY <1>4
    <2> QED BY <2>1
  <1>6. Trail(g, st, qs)
    BY <1>2, <1>5 DEF Trail
  <1>7. MergeAll(st, qs) = g[N + 1]
    BY <1>2, <1>6, MergeAllEnds
  <1>8. MergeAll(st, ps) = f[N]
    BY <1>1, MergeAllEnds
  <1>9. g[N + 1] = Merge(f[N], p)
    BY <1>2
  <1> QED BY <1>7, <1>8, <1>9

LEMMA MergeAllOne ==
    ASSUME NEW st, NEW P, NEW p \in P
    PROVE  MergeAll(st, <<p>>) = Merge(st, p)
  <1> DEFINE e == <<>>
  <1>1. e \in Seq(P) /\ Append(e, p) = <<p>>
    OBVIOUS
  <1>2. MergeAll(st, e) = st
    BY MergeAllNone
  <1> HIDE DEF e
  <1>3. MergeAll(st, Append(e, p)) = Merge(MergeAll(st, e), p)
    BY <1>1, MergeAllAppend
  <1> QED BY <1>1, <1>2, <1>3

LEMMA MergeAllTwo ==
    ASSUME NEW st, NEW P, NEW p \in P, NEW q \in P
    PROVE  MergeAll(st, <<p, q>>) = Merge(Merge(st, p), q)
  <1> DEFINE e == <<p>>
             s == Append(e, q)
             t == <<p, q>>
  <1>1. e \in Seq(P) /\ s = t
    <2>1. s \in Seq(P) /\ Len(s) = 2 /\ s[1] = p /\ s[2] = q
      OBVIOUS
    <2>2. t \in Seq(P) /\ Len(t) = 2 /\ t[1] = p /\ t[2] = q
      OBVIOUS
    <2>3. \A i \in 1..2 : i = 1 \/ i = 2
      OBVIOUS
    <2>4. Len(s) = Len(t) /\ \A i \in 1..Len(s) : s[i] = t[i]
      BY <2>1, <2>2, <2>3
    <2>5. s = t
      <3> HIDE DEF s, t
      <3> QED BY <2>1, <2>2, <2>4, SeqEqual
    <2> QED BY <2>5
  <1>2. MergeAll(st, e) = Merge(st, p)
    BY MergeAllOne
  <1> HIDE DEF e
  <1>3. MergeAll(st, Append(e, q)) = Merge(MergeAll(st, e), q)
    BY <1>1, MergeAllAppend
  <1> QED BY <1>1, <1>2, <1>3

(* One list after another.                                                 *)
LEMMA MergeAllThrough ==
    ASSUME NEW st, NEW P, NEW a \in Seq(P), NEW b \in Seq(P)
    PROVE  MergeAll(st, a \o b) = MergeAll(MergeAll(st, a), b)
  <1> DEFINE M == Len(a)
             N == Len(b)
             ab == a \o b
  <1>1. /\ M \in Nat /\ N \in Nat /\ ab \in Seq(P) /\ Len(ab) = M + N
        /\ \A i \in 1..M : ab[i] = a[i]
        /\ \A i \in 1..N : ab[M + i] = b[i]
    OBVIOUS
  <1>2. PICK f : Trail(f, st, a)
    BY TrailExists
  <1>3. PICK g : Trail(g, f[M], b)
    BY TrailExists
  <1> DEFINE h == [i \in 0..(M + N) |-> IF i <= M THEN f[i] ELSE g[i - M]]
             k == [i \in 0..(M + N) |-> IF i = 0 THEN st ELSE Merge(h[i - 1], ab[i])]
  <1>4. \A i \in 0..M : f[i] = IF i = 0 THEN st ELSE Merge(f[i - 1], a[i])
    BY <1>2 DEF Trail
  <1>5. \A i \in 0..N : g[i] = IF i = 0 THEN f[M] ELSE Merge(g[i - 1], b[i])
    BY <1>3 DEF Trail
  <1>6. g[0] = f[M]
    BY <1>1, <1>5
  <1>7. \A i \in 0..(M + N) : h[i] = IF i = 0 THEN st ELSE Merge(h[i - 1], ab[i])
    <2> TAKE i \in 0..(M + N)
    <2>1. CASE i <= M
      <3>1. i \in 0..M /\ h[i] = f[i] /\ (i # 0 => h[i - 1] = f[i - 1] /\ ab[i] = a[i])
        BY <1>1, <2>1
      <3> QED BY <1>4, <3>1
    <2>2. CASE i > M
      <3>1. i - M \in 1..N /\ i # 0 /\ h[i] = g[i - M]
        BY <1>1, <2>2
      <3>2. ab[i] = b[i - M]
        <4> DEFINE j == i - M
        <4>1. j \in 1..N /\ M + j = i
          BY <1>1, <3>1
        <4>2. ab[M + j] = b[j]
          <5> HIDE DEF ab, j
          <5> QED BY <1>1, <4>1
        <4> QED BY <4>1, <4>2
      <3>3. h[i - 1] = g[i - M - 1]
        <4>1. CASE i = M + 1
          <5>1. i - 1 = M /\ i - M - 1 = 0
            BY <1>1, <4>1
          <5>2. h[i - 1] = f[M]
            BY <1>1, <5>1
          <5> QED BY <1>6, <5>1, <5>2
        <4>2. CASE i # M + 1
          <5>1. i - 1 \in 0..(M + N) /\ ~(i - 1 <= M) /\ i - 1 - M = i - M - 1
            BY <1>1, <2>2, <4>2
          <5> QED BY <5>1
        <4> QED BY <4>1, <4>2
      <3>4. g[i - M] = Merge(g[i - M - 1], b[i - M])
        BY <1>1, <1>5, <3>1
      <3> QED BY <3>1, <3>2, <3>3, <3>4
    <2> QED BY <1>1, <2>1, <2>2
  <1>8. h = k
    <2>1. \A i \in 0..(M + N) : h[i] = k[i]
      BY <1>7
    <2> QED BY <2>1
  <1>9. Trail(h, st, ab)
    BY <1>1, <1>8 DEF Trail
  <1>10. MergeAll(st, ab) = h[M + N]
    <2>1. MergeAll(st, ab) = h[Len(ab)]
      <3> HIDE DEF ab, h
      <3> QED BY <1>1, <1>9, MergeAllEnds
    <2> QED BY <1>1, <2>1
  <1>11. MergeAll(st, a) = f[M] /\ MergeAll(f[M], b) = g[N]
    BY <1>2, <1>3, MergeAllEnds
  <1>12. h[M + N] = g[N]
    <2>1. CASE N = 0
      <3>1. M + N = M /\ M \in 0..(M + N)
        BY <1>1, <2>1
      <3> QED BY <1>6, <2>1, <3>1
    <2>2. CASE N # 0
      <3>1. M + N \in 0..(M + N) /\ ~(M + N <= M) /\ M + N - M = N
        BY <1>1, <2>2
      <3> QED BY <3>1
    <2> QED BY <2>1, <2>2
  <1> QED BY <1>10, <1>11, <1>12

(* The first of a list before the rest.                                    *)
LEMMA MergeAllHead ==
    ASSUME NEW st, NEW P, NEW ps \in Seq(P), ps # <<>>
    PROVE  MergeAll(st, ps) = MergeAll(Merge(st, Head(ps)), Tail(ps))
  <1> DEFINE a == <<Head(ps)>>
             b == Tail(ps)
  <1>1. a \in Seq(P) /\ b \in Seq(P) /\ ps = a \o b /\ Head(ps) \in P
    OBVIOUS
  <1>2. MergeAll(st, a) = Merge(st, Head(ps))
    BY <1>1, MergeAllOne
  <1> HIDE DEF a, b
  <1>3. MergeAll(st, a \o b) = MergeAll(MergeAll(st, a), b)
    BY <1>1, MergeAllThrough
  <1> QED BY <1>1, <1>2, <1>3 DEF b

LEMMA MergeAllTyped ==
    ASSUME NEW n \in Nat, NEW st \in Statuses(n) \cup {Nothing},
           NEW ps \in Seq(Patches(n) \cup {Nothing})
    PROVE  /\ MergeAll(st, ps) \in Statuses(n) \cup {Nothing}
           /\ st # Nothing /\ Nothing \notin Range(ps) => MergeAll(st, ps) \in Statuses(n)
           /\ ps # <<>> /\ Nothing \notin Range(ps) => MergeAll(st, ps) \in Statuses(n)
  <1> DEFINE N == Len(ps)
             Good == Statuses(n) \cup {Nothing}
             Some == st # Nothing /\ Nothing \notin Range(ps)
  <1>1. PICK f : Trail(f, st, ps)
    BY TrailExists
  <1>2. N \in Nat /\ \A i \in 1..N : ps[i] \in Patches(n) \cup {Nothing} /\ ps[i] \in Range(ps)
    BY DEF Range
  <1>3. \A i \in 0..N : f[i] = IF i = 0 THEN st ELSE Merge(f[i - 1], ps[i])
    BY <1>1 DEF Trail
  <1> DEFINE Ok(i) == /\ f[i] \in Good
                      /\ Some => f[i] \in Statuses(n)
                      /\ i # 0 /\ Nothing \notin Range(ps) => f[i] \in Statuses(n)
             Bad == {i \in 0..N : ~Ok(i)}
  <1>4. ASSUME Bad # {} PROVE FALSE
    <2>0. Bad \in SUBSET Nat
      BY <1>2
    <2>1. PICK m \in Bad : \A l \in Bad : m <= l
      <3> HIDE DEF Bad
      <3> QED BY <1>4, <2>0, LeastNumber
    <2>2. CASE m = 0
      BY <1>2, <1>3, <2>1, <2>2
    <2>3. CASE m # 0
      <3>1. m \in 1..N /\ m - 1 \in 0..N /\ m - 1 \notin Bad
        BY <1>2, <2>1, <2>3
      <3>2. f[m - 1] \in Good
        BY <3>1
      <3>3. f[m] = Merge(f[m - 1], ps[m])
        BY <1>3, <3>1
      <3>4. f[m] \in Good
        BY <1>2, <3>1, <3>2, <3>3, MergeTyped
      <3>5. Nothing \notin Range(ps) => f[m] \in Statuses(n)
        BY <1>2, <3>1, <3>2, <3>3, Merged
      <3> QED BY <2>1, <3>4, <3>5
    <2> QED BY <2>2, <2>3
  <1>5. Ok(N)
    BY <1>2, <1>4
  <1>6. MergeAll(st, ps) = f[N]
    BY <1>1, MergeAllEnds
  <1>7. ps # <<>> => N # 0
    OBVIOUS
  <1> QED BY <1>5, <1>6, <1>7

-----------------------------------------------------------------------------
(* Actions that have their types, and share the status only if there is    *)
(* one.                                                                    *)
Held(js, st, n) ==
    /\ js \in [Slot -> Jobs(n) \cup {Nothing}]
    /\ \A s \in Slot : js[s] # Nothing =>
            js[s].at < End(js[s].kind) /\ (js[s].live => st # Nothing)

(* The variables have their types.                                         *)
Typed ==
    /\ cluster \in BOOLEAN /\ news \in BOOLEAN
    /\ status \in Statuses(accounts) \cup {Nothing}
    /\ stored \in Statuses(accounts) \cup {Nothing}
    /\ queue \in Seq(Patches(accounts) \cup {Nothing})
    /\ stuck \in BOOLEAN /\ (stuck => queue # <<>>)
    /\ Held(jobs, status, accounts) /\ ~Waiting(jobs["stray"])
    /\ accounts \in 0..MaxAccounts /\ version \in Version
    /\ edits \in 0..MaxEdits /\ faults \in 0..MaxFaults
    /\ crossed \in BOOLEAN /\ lost \in BOOLEAN

LEMMA Ends == End("update") = 14 /\ End("delete") = 11
  BY DEF End, Calls, UpdateCalls, DeleteCalls

LEMMA TypedIsTypeOK == Typed => ManagerTypeOK
  <1> SUFFICES ASSUME Typed PROVE ManagerTypeOK
    OBVIOUS
  <1>1. accounts \in Nat /\ Version = {1, 2}
    BY BoundsAssumption DEF Typed, Version
  <1>2. ASSUME NEW st \in Statuses(accounts) PROVE IsStatus(st)
    <2>1. DOMAIN st = Key /\ \A k \in Key : st[k] \in Values(k, accounts)
      BY <1>2 DEF Statuses
    <2>2. st[Version_] \in Version \cup {None}
      BY <1>1, <2>1, KeysApart DEF Values
    <2>3. \A k \in Key \ Numeric : st[k] \in BOOLEAN
      BY <2>1, KeysApart DEF Values
    <2>4. \A r \in Role : st[Uuid(r)] \in 0..accounts
      BY <2>1, KeysApart DEF Values
    <2> QED BY <2>1, <2>2, <2>3, <2>4 DEF IsStatus
  <1>3. IsStatus(status) /\ IsStatus(stored)
    BY <1>2 DEF Typed, IsStatus
  <1>4. \A i \in DOMAIN queue : queue[i] = Nothing \/ DOMAIN queue[i] \subseteq Key
    <2>1. \A i \in DOMAIN queue : queue[i] \in Patches(accounts) \cup {Nothing}
      BY DEF Typed
    <2> QED BY <2>1 DEF Patches
  <1>5. ASSUME NEW w \in Slot
        PROVE  IsJob(w) /\ (jobs[w] # Nothing /\ jobs[w].live => status # Nothing)
    <2>1. CASE jobs[w] = Nothing
      BY <2>1 DEF IsJob
    <2>2. CASE jobs[w] \in Jobs(accounts) /\ jobs[w] # Nothing
      <3>1. jobs[w].at < End(jobs[w].kind) /\ (jobs[w].live => status # Nothing)
        BY <2>2 DEF Typed, Held
      <3>2. IsStatus(jobs[w].own)
        BY <1>2, <2>2 DEF Jobs
      <3>3. /\ jobs[w].kind \in {"update", "delete"} /\ jobs[w].at \in Nat
            /\ jobs[w].acct \in 0..accounts /\ jobs[w].live \in BOOLEAN
        BY <2>2 DEF Jobs
      <3>4. jobs[w].at \in 0..(End(jobs[w].kind) - 1)
        BY <3>1, <3>3, Ends
      <3> QED BY <3>1, <3>2, <3>3, <3>4 DEF IsJob
    <2> QED BY <2>1, <2>2 DEF Typed, Held
  <1> QED BY <1>3, <1>4, <1>5 DEF Typed, ManagerTypeOK

(* What an action sees is a status.                                        *)
LEMMA ViewTyped ==
    ASSUME NEW n \in Nat, NEW job \in Jobs(n), status \in Statuses(n) \cup {Nothing},
           job.live => status # Nothing
    PROVE  View(job) \in Statuses(n)
  BY DEF View, Jobs

(* What is said keeps the types, and the patches in step with the status.  *)
LEMMA SayTyped ==
    ASSUME NEW n \in Nat, NEW js, NEW w \in Slot, NEW job \in Jobs(n) \cup {Nothing}, NEW ps,
           ps \in Seq(Patches(n) \cup {Nothing}), job # Nothing => Nothing \notin Range(ps),
           status \in Statuses(n) \cup {Nothing}, stored \in Statuses(n) \cup {Nothing},
           queue \in Seq(Patches(n) \cup {Nothing}), Mirrored, Held(js, status, n),
           job # Nothing => job.at < End(job.kind) /\ (job.live => status # Nothing),
           Say(js, w, job, ps)
    PROVE  /\ status' \in Statuses(n) \cup {Nothing} /\ stored' = stored /\ stuck' = stuck
           /\ queue' \in Seq(Patches(n) \cup {Nothing}) /\ (queue # <<>> => queue' # <<>>)
           /\ Held(jobs', status', n) /\ Mirrored'
           /\ \A s \in Slot : Waiting(jobs'[s]) <=> Waiting(IF s = w THEN job ELSE js[s])
  <1>1. /\ status' = MergeAll(status, ps) /\ queue' = queue \o ps
        /\ stored' = stored /\ stuck' = stuck
    BY DEF Say
  <1>2. status' \in Statuses(n) \cup {Nothing}
        /\ (status # Nothing /\ Nothing \notin Range(ps) => status' # Nothing)
    BY <1>1, MergeAllTyped, SomeThings
  <1>3. queue' \in Seq(Patches(n) \cup {Nothing}) /\ (queue # <<>> => queue' # <<>>)
    BY <1>1
  <1>4. Mirrored'
    <2>1. MergeAll(stored, queue \o ps) = MergeAll(MergeAll(stored, queue), ps)
      BY MergeAllThrough
    <2> QED BY <1>1, <2>1 DEF Mirrored
  <1>5. jobs' = [s \in Slot |->
          IF s = w
          THEN IF job = Nothing \/ job.live THEN job
               ELSE [job EXCEPT !.own = MergeAll(job.own, ps)]
          ELSE IF js[s] # Nothing /\ js[s].live /\ Nothing \in Range(ps)
               THEN [js[s] EXCEPT !.own = status, !.live = FALSE]
               ELSE js[s]]
    BY DEF Say
  <1>6. ASSUME NEW s \in Slot
        PROVE  /\ jobs'[s] \in Jobs(n) \cup {Nothing}
               /\ jobs'[s] # Nothing =>
                    jobs'[s].at < End(jobs'[s].kind) /\ (jobs'[s].live => status' # Nothing)
               /\ Waiting(jobs'[s]) <=> Waiting(IF s = w THEN job ELSE js[s])
    <2>1. CASE s = w
      <3>1. CASE job = Nothing
        <4>1. jobs'[s] = Nothing
          BY <1>5, <2>1, <3>1
        <4> QED BY <2>1, <3>1, <4>1
      <3>2. CASE job # Nothing /\ job.live
        <4>1. jobs'[s] = job
          BY <1>5, <2>1, <3>2
        <4> QED BY <1>2, <2>1, <3>2, <4>1
      <3>3. CASE job # Nothing /\ ~job.live
        <4>1. jobs'[s] = [job EXCEPT !.own = MergeAll(job.own, ps)]
          BY <1>5, <2>1, <3>3
        <4>2. job \in Jobs(n) /\ job.own \in Statuses(n) /\ job.own # Nothing
          BY <3>3, SomeThings DEF Jobs
        <4>3. MergeAll(job.own, ps) \in Statuses(n)
          BY <3>3, <4>2, MergeAllTyped
        <4>4. /\ jobs'[s] \in Jobs(n) /\ jobs'[s].at = job.at /\ jobs'[s].kind = job.kind
              /\ jobs'[s].live = job.live
          BY <4>1, <4>2, <4>3 DEF Jobs
        <4>5. jobs'[s] # Nothing
          BY <4>4, SomeThings
        <4> QED BY <2>1, <3>3, <4>4, <4>5 DEF Waiting
      <3> QED BY <3>1, <3>2, <3>3
    <2>2. CASE s # w
      <3>1. js[s] \in Jobs(n) \cup {Nothing}
            /\ (js[s] # Nothing => js[s].at < End(js[s].kind) /\ (js[s].live => status # Nothing))
        BY DEF Held
      <3>2. CASE js[s] # Nothing /\ js[s].live /\ Nothing \in Range(ps)
        <4>1. jobs'[s] = [js[s] EXCEPT !.own = status, !.live = FALSE]
          BY <1>5, <2>2, <3>2
        <4>2. js[s] \in Jobs(n) /\ status \in Statuses(n)
          BY <3>1, <3>2
        <4>3. /\ jobs'[s] \in Jobs(n) /\ jobs'[s].at = js[s].at /\ jobs'[s].kind = js[s].kind
              /\ ~jobs'[s].live
          BY <4>1, <4>2 DEF Jobs
        <4>4. jobs'[s] # Nothing
          BY <4>3, SomeThings
        <4> QED BY <2>2, <3>1, <3>2, <4>3, <4>4 DEF Waiting
      <3>3. CASE ~(js[s] # Nothing /\ js[s].live /\ Nothing \in Range(ps))
        <4>1. jobs'[s] = js[s]
          BY <1>5, <2>2, <3>3
        <4> QED BY <1>2, <2>2, <3>1, <3>3, <4>1
      <3> QED BY <3>2, <3>3
    <2> QED BY <2>1, <2>2
  <1>7. Held(jobs', status', n)
    BY <1>5, <1>6 DEF Held
  <1> QED BY <1>1, <1>2, <1>3, <1>4, <1>6, <1>7

-----------------------------------------------------------------------------
(* The calls, and which of them an action must make next.                  *)
LEMMA UpdateTable ==
    /\ DOMAIN Calls["update"] = 1..13
    /\ \A p \in 1..13 : Calls["update"][p][2] =
          IF p \in 2..6 THEN "flux" ELSE IF p \in 7..10 THEN "krbkeys" ELSE "cluster"
    /\ \A p \in 1..13 : Calls["update"][p][1] =
          IF p \in {2, 7} THEN "create" ELSE IF p \in {3, 8} THEN "info" ELSE IF p = 4 THEN "grant"
          ELSE IF p \in {5, 9} THEN "member" ELSE IF p \in {6, 10} THEN "identity"
          ELSE IF p = 1 THEN "address" ELSE IF p = 11 THEN "repo" ELSE IF p = 12 THEN "group"
          ELSE "push"
  <1>1. Calls["update"] = UpdateCalls
    BY DEF Calls
  <1>2. \A p \in 1..13 : p \in {1, 2, 3, 4, 5, 6, 7, 8, 9, 10, 11, 12, 13}
    OBVIOUS
  <1> QED BY <1>1, <1>2 DEF UpdateCalls

LEMMA DeleteTable ==
    /\ DOMAIN Calls["delete"] = 1..10
    /\ \A p \in 1..10 : Calls["delete"][p][2] =
          IF p \in 1..4 THEN "flux" ELSE IF p \in 5..8 THEN "krbkeys" ELSE "cluster"
    /\ \A p \in 1..10 : Calls["delete"][p][1] =
          IF p \in {1, 5} THEN "grant" ELSE IF p \in {2, 6} THEN "identity"
          ELSE IF p \in {3, 7} THEN "member" ELSE IF p \in {4, 8} THEN "mark"
          ELSE IF p = 9 THEN "repo" ELSE "address"
  <1>1. Calls["delete"] = DeleteCalls
    BY DEF Calls
  <1>2. \A p \in 1..10 : p \in {1, 2, 3, 4, 5, 6, 7, 8, 9, 10}
    OBVIOUS
  <1> QED BY <1>1, <1>2 DEF DeleteCalls

LEMMA FirstCalls ==
    /\ First["update"]["flux"] = 2 /\ First["update"]["krbkeys"] = 7
    /\ First["delete"]["flux"] = 1 /\ First["delete"]["krbkeys"] = 5
  <1>1. DOMAIN Calls = {"update", "delete"} /\ Role = {"flux", "krbkeys"}
    BY DEF Calls, Role
  <1> DEFINE C(kind, r, p) == /\ Calls[kind][p][2] = r
                              /\ \A o \in 1..(p - 1) : Calls[kind][o][2] # r
  <1>2. \A kind \in {"update", "delete"}, r \in {"flux", "krbkeys"} :
          First[kind][r] = CHOOSE p \in DOMAIN Calls[kind] : C(kind, r, p)
    BY <1>1 DEF First
  <1>3. \A p \in DOMAIN Calls["update"] : C("update", "flux", p) <=> p = 2
    BY UpdateTable
  <1>4. \A p \in DOMAIN Calls["update"] : C("update", "krbkeys", p) <=> p = 7
    BY UpdateTable
  <1>5. \A p \in DOMAIN Calls["delete"] : C("delete", "flux", p) <=> p = 1
    BY DeleteTable
  <1>6. \A p \in DOMAIN Calls["delete"] : C("delete", "krbkeys", p) <=> p = 5
    BY DeleteTable
  <1> HIDE DEF C
  <1>7. First["update"]["flux"] = 2
    BY <1>2, <1>3, UpdateTable
  <1>8. First["update"]["krbkeys"] = 7
    BY <1>2, <1>4, UpdateTable
  <1>9. First["delete"]["flux"] = 1
    BY <1>2, <1>5, DeleteTable
  <1>10. First["delete"]["krbkeys"] = 5
    BY <1>2, <1>6, DeleteTable
  <1> QED BY <1>7, <1>8, <1>9, <1>10

LEMMA UpdateEntered ==
    ASSUME NEW p \in 1..14, NEW q \in p..14
    PROVE  Entered("update", p, q) <=> (p <= 2 /\ q \in 2..6) \/ (p <= 7 /\ q \in 7..10)
  <1>1. q \in 1..13 => (Calls["update"][q][2] \in Role <=> q \in 2..10)
    BY UpdateTable DEF Role
  <1>2. q \in 2..6 => First["update"][Calls["update"][q][2]] = 2
    BY UpdateTable, FirstCalls
  <1>3. q \in 7..10 => First["update"][Calls["update"][q][2]] = 7
    BY UpdateTable, FirstCalls
  <1>4. Entered("update", p, q) <=>
          q < 14 /\ Calls["update"][q][2] \in Role
          /\ First["update"][Calls["update"][q][2]] \in p..q
    BY Ends DEF Entered
  <1> QED BY <1>1, <1>2, <1>3, <1>4

LEMMA DeleteEntered ==
    ASSUME NEW p \in 1..11, NEW q \in p..11
    PROVE  Entered("delete", p, q) <=> (p <= 1 /\ q \in 1..4) \/ (p <= 5 /\ q \in 5..8)
  <1>1. q \in 1..10 => (Calls["delete"][q][2] \in Role <=> q \in 1..8)
    BY DeleteTable DEF Role
  <1>2. q \in 1..4 => First["delete"][Calls["delete"][q][2]] = 1
    BY DeleteTable, FirstCalls
  <1>3. q \in 5..8 => First["delete"][Calls["delete"][q][2]] = 5
    BY DeleteTable, FirstCalls
  <1>4. Entered("delete", p, q) <=>
          q < 11 /\ Calls["delete"][q][2] \in Role
          /\ First["delete"][Calls["delete"][q][2]] \in p..q
    BY Ends DEF Entered
  <1> QED BY <1>1, <1>2, <1>3, <1>4

(* Where Update goes on: a role that is done is passed over, and one that  *)
(* has an account does not get another.                                    *)
FluxNext(st, q) ==
    IF st[Done("flux")]
    THEN IF st[Done("krbkeys")] THEN q = 11
         ELSE q = IF st[Uuid("krbkeys")] = None THEN 7 ELSE 8
    ELSE q = IF st[Uuid("flux")] = None THEN 2 ELSE 3

KrbNext(st, q) ==
    IF st[Done("krbkeys")] THEN q = 11
    ELSE q = IF st[Uuid("krbkeys")] = None THEN 7 ELSE 8

LEMMA UpdateNext ==
    ASSUME NEW st, NEW p \in 1..14, NEW q \in p..14, NextCall("update", st, p, q)
    PROVE  /\ p \notin {2, 7} => q = p
           /\ p = 2 => FluxNext(st, q)
           /\ p = 7 => KrbNext(st, q)
  <1> DEFINE d(r) == st[Done(r)]
             u(r) == st[Uuid(r)] # None
  <1>1. ASSUME NEW o \in p..14
        PROVE  Skipped("update", st, p, o) <=>
                 \/ p <= 2 /\ o \in 2..6 /\ (d("flux") \/ (o = 2 /\ u("flux")))
                 \/ p <= 7 /\ o \in 7..10 /\ (d("krbkeys") \/ (o = 7 /\ u("krbkeys")))
    <2>1. Entered("update", p, o) <=> (p <= 2 /\ o \in 2..6) \/ (p <= 7 /\ o \in 7..10)
      BY UpdateEntered
    <2>2. o \in 2..6 => Calls["update"][o][2] = "flux"
      BY UpdateTable
    <2>3. o \in 7..10 => Calls["update"][o][2] = "krbkeys"
      BY UpdateTable
    <2>4. CASE o \in 2..6
      <3>1. Skipped("update", st, p, o) <=>
              Entered("update", p, o) /\ (st[Done("flux")] \/ (o = 2 /\ st[Uuid("flux")] # None))
        BY <2>2, <2>4, FirstCalls DEF Skipped
      <3> QED BY <2>1, <2>4, <3>1
    <2>5. CASE o \in 7..10
      <3>1. Skipped("update", st, p, o) <=>
              Entered("update", p, o)
              /\ (st[Done("krbkeys")] \/ (o = 7 /\ st[Uuid("krbkeys")] # None))
        BY <2>3, <2>5, FirstCalls DEF Skipped
      <3> QED BY <2>1, <2>5, <3>1
    <2>6. CASE o \notin 2..10
      <3>1. ~Entered("update", p, o)
        BY <2>1, <2>6
      <3>2. ~Skipped("update", st, p, o)
        BY <3>1 DEF Skipped
      <3> QED BY <2>6, <3>2
    <2> QED BY <2>4, <2>5, <2>6
  <1>2. ~Skipped("update", st, p, q) /\ \A o \in p..(q - 1) : Skipped("update", st, p, o)
    BY DEF NextCall
  <1>3. ASSUME q # p PROVE Skipped("update", st, p, p) /\ p \in {2, 7}
    <2>1. p \in p..(q - 1) /\ p \in p..14
      BY <1>3
    <2>2. Skipped("update", st, p, p)
      BY <1>2, <2>1
    <2> QED BY <1>1, <2>1, <2>2
  <1>4. \A o \in p..14 : o < q => Skipped("update", st, p, o)
    BY <1>2
  <1> HIDE DEF d, u
  <1>5. CASE p = 2
    <2>1. /\ 2 \in p..14 /\ 3 \in p..14 /\ 7 \in p..14 /\ 8 \in p..14 /\ 11 \in p..14 /\ q \in p..14
      BY <1>5
    <2>2. /\ Skipped("update", st, p, 2) <=> d("flux") \/ u("flux")
          /\ Skipped("update", st, p, 3) <=> d("flux")
          /\ Skipped("update", st, p, 7) <=> d("krbkeys") \/ u("krbkeys")
          /\ Skipped("update", st, p, 8) <=> d("krbkeys")
          /\ ~Skipped("update", st, p, 11)
      BY <1>1, <1>5, <2>1
    <2>3. q <= 11
      BY <1>4, <2>1, <2>2
    <2>4. \/ q = 2 /\ ~d("flux") /\ ~u("flux")
          \/ q = 3 /\ ~d("flux") /\ u("flux")
          \/ q \in 7..11 /\ d("flux")
      BY <1>1, <1>2, <1>4, <1>5, <2>1, <2>2, <2>3
    <2>5. q \in 7..11 => \/ q = 7 /\ ~d("krbkeys") /\ ~u("krbkeys")
                         \/ q = 8 /\ ~d("krbkeys") /\ u("krbkeys")
                         \/ q = 11 /\ d("krbkeys")
      BY <1>1, <1>2, <1>4, <1>5, <2>1, <2>2, <2>3
    <2> QED BY <1>5, <2>4, <2>5 DEF FluxNext, d, u
  <1>6. CASE p = 7
    <2>1. /\ 7 \in p..14 /\ 8 \in p..14 /\ 11 \in p..14 /\ q \in p..14
      BY <1>6
    <2>2. /\ Skipped("update", st, p, 7) <=> d("krbkeys") \/ u("krbkeys")
          /\ Skipped("update", st, p, 8) <=> d("krbkeys")
          /\ ~Skipped("update", st, p, 11)
      BY <1>1, <1>6, <2>1
    <2>3. q <= 11
      BY <1>4, <2>1, <2>2
    <2>4. \/ q = 7 /\ ~d("krbkeys") /\ ~u("krbkeys")
          \/ q = 8 /\ ~d("krbkeys") /\ u("krbkeys")
          \/ q = 11 /\ d("krbkeys")
      BY <1>1, <1>2, <1>4, <1>6, <2>1, <2>2, <2>3
    <2> QED BY <1>6, <2>4 DEF KrbNext, d, u
  <1> QED BY <1>3, <1>5, <1>6

(* Where Delete goes on: a role without an account is passed over.         *)
LEMMA DeleteNext ==
    ASSUME NEW st, NEW p \in 1..11, NEW q \in p..11, NextCall("delete", st, p, q)
    PROVE  /\ p \notin {1, 5} => q = p
           /\ p = 1 => q = IF st[Uuid("flux")] # None THEN 1
                           ELSE IF st[Uuid("krbkeys")] # None THEN 5 ELSE 9
           /\ p = 5 => q = IF st[Uuid("krbkeys")] # None THEN 5 ELSE 9
  <1> DEFINE u(r) == st[Uuid(r)] # None
  <1>1. ASSUME NEW o \in p..11
        PROVE  Skipped("delete", st, p, o) <=>
                 \/ p <= 1 /\ o \in 1..4 /\ ~u("flux")
                 \/ p <= 5 /\ o \in 5..8 /\ ~u("krbkeys")
    <2>1. Entered("delete", p, o) <=> (p <= 1 /\ o \in 1..4) \/ (p <= 5 /\ o \in 5..8)
      BY DeleteEntered
    <2>2. o \in 1..4 => Calls["delete"][o][2] = "flux"
      BY DeleteTable
    <2>3. o \in 5..8 => Calls["delete"][o][2] = "krbkeys"
      BY DeleteTable
    <2>4. CASE o \in 1..4
      <3>1. Skipped("delete", st, p, o) <=> Entered("delete", p, o) /\ st[Uuid("flux")] = None
        BY <2>2, <2>4 DEF Skipped
      <3> QED BY <2>1, <2>4, <3>1
    <2>5. CASE o \in 5..8
      <3>1. Skipped("delete", st, p, o) <=> Entered("delete", p, o) /\ st[Uuid("krbkeys")] = None
        BY <2>3, <2>5 DEF Skipped
      <3> QED BY <2>1, <2>5, <3>1
    <2>6. CASE o \notin 1..8
      <3>1. ~Entered("delete", p, o)
        BY <2>1, <2>6
      <3>2. ~Skipped("delete", st, p, o)
        BY <3>1 DEF Skipped
      <3> QED BY <2>6, <3>2
    <2> QED BY <2>4, <2>5, <2>6
  <1>2. ~Skipped("delete", st, p, q) /\ \A o \in p..(q - 1) : Skipped("delete", st, p, o)
    BY DEF NextCall
  <1>3. ASSUME q # p PROVE p \in {1, 5}
    <2>1. p \in p..(q - 1) /\ p \in p..11
      BY <1>3
    <2>2. Skipped("delete", st, p, p)
      BY <1>2, <2>1
    <2> QED BY <1>1, <2>1, <2>2
  <1>4. \A o \in p..11 : o < q => Skipped("delete", st, p, o)
    BY <1>2
  <1> HIDE DEF u
  <1>5. p \in {1, 5} => /\ 5 \in p..11 /\ 9 \in p..11 /\ q \in p..11
                        /\ Skipped("delete", st, p, 5) <=> ~u("krbkeys")
                        /\ ~Skipped("delete", st, p, 9)
    BY <1>1
  <1>6. p \in {1, 5} => q <= 9
    BY <1>4, <1>5
  <1>7. CASE p = 1
    <2>1. \/ q = 1 /\ u("flux")
          \/ q \in 5..9 /\ ~u("flux")
      BY <1>1, <1>2, <1>4, <1>6, <1>7
    <2>2. q \in 5..9 => \/ q = 5 /\ u("krbkeys")
                        \/ q = 9 /\ ~u("krbkeys")
      BY <1>1, <1>2, <1>4, <1>5, <1>6, <1>7
    <2> QED BY <1>7, <2>1, <2>2 DEF u
  <1>8. CASE p = 5
    <2>1. \/ q = 5 /\ u("krbkeys")
          \/ q = 9 /\ ~u("krbkeys")
      BY <1>1, <1>2, <1>4, <1>5, <1>6, <1>8
    <2> QED BY <1>8, <2>1 DEF u
  <1> QED BY <1>3, <1>7, <1>8

-----------------------------------------------------------------------------
(* What is written is a patch, or two.                                     *)
LEMMA PatchesTyped ==
    ASSUME NEW n \in Nat
    PROVE  /\ Patch(Spec_, TRUE) \in Patches(n) /\ Patch(Ready_, FALSE) \in Patches(n)
           /\ \A r \in Role : Patch(Done(r), FALSE) \in Patches(n) /\ Patch(Done(r), TRUE) \in Patches(n)
           /\ \A r \in Role, a \in 0..n : Patch(Uuid(r), a) \in Patches(n)
           /\ \A r \in Role : Forgotten(r) \in Patches(n)
           /\ version \in Version => Completed \in Patches(n)
  <1>1. /\ Values(Spec_, n) = BOOLEAN /\ Values(Ready_, n) = BOOLEAN /\ Values(Version_, n) = 0..2
        /\ \A r \in Role : Values(Done(r), n) = BOOLEAN /\ Values(Uuid(r), n) = 0..n
    BY KeysApart DEF Values
  <1>2. \A r \in Role : Uuid(r) \in Key /\ Done(r) \in Key /\ Uuid(r) # Done(r)
    BY KeysApart
  <1>3. Spec_ \in Key /\ Ready_ \in Key /\ Version_ \in Key /\ Ready_ # Version_
    BY KeysApart
  <1>4. Patch(Spec_, TRUE) \in Patches(n) /\ Patch(Ready_, FALSE) \in Patches(n)
    BY <1>1, <1>3, PatchTyped
  <1>5. ASSUME NEW r \in Role
        PROVE  /\ Patch(Done(r), FALSE) \in Patches(n) /\ Patch(Done(r), TRUE) \in Patches(n)
               /\ \A a \in 0..n : Patch(Uuid(r), a) \in Patches(n)
    BY <1>1, <1>2, PatchTyped
  <1>6. ASSUME NEW r \in Role PROVE Forgotten(r) \in Patches(n)
    <2>1. 0 \in Values(Uuid(r), n) /\ FALSE \in Values(Done(r), n)
      <3>1. Values(Uuid(r), n) = 0..n /\ Values(Done(r), n) = BOOLEAN
        BY <1>1
      <3>2. 0 \in 0..n /\ FALSE \in BOOLEAN
        OBVIOUS
      <3> QED BY <3>1, <3>2
    <2>2. /\ Uuid(r) \in Key /\ Done(r) \in Key /\ Uuid(r) # Done(r)
      BY <1>2
    <2>3. /\ Forgotten(r) = [x \in {Uuid(r), Done(r)} |-> Forgotten(r)[x]]
          /\ Forgotten(r)[Uuid(r)] = 0 /\ Forgotten(r)[Done(r)] = FALSE
      BY <2>2 DEF Forgotten, None
    <2> QED BY <2>1, <2>2, <2>3, PairTyped
  <1>7. version \in Version => Completed \in Patches(n)
    <2>1. version \in Version => version \in Values(Version_, n)
      BY <1>1 DEF Version
    <2>2. TRUE \in Values(Ready_, n)
      BY <1>1
    <2>3. /\ Completed = [x \in {Ready_, Version_} |-> Completed[x]]
          /\ Completed[Ready_] = TRUE /\ Completed[Version_] = version
      BY <1>3 DEF Completed
    <2> QED BY <1>3, <2>1, <2>2, <2>3, PairTyped
  <1> QED BY <1>4, <1>5, <1>6, <1>7

LEMMA SingleTyped ==
    ASSUME NEW n \in Nat, NEW p \in Patches(n) PROVE <<p>> \in Seq(Patches(n))
  OBVIOUS

LEMMA WrittenTyped ==
    ASSUME NEW n \in Nat, NEW kind, NEW call, NEW r, NEW a \in 0..n,
           kind = "update" /\ call \in {"create", "identity"} => r \in Role,
           kind = "delete" /\ call = "mark" => r \in Role
    PROVE  Written(kind, call, r, a) \in Seq(Patches(n))
  <1>1. CASE kind = "update" /\ call = "create"
    <2>1. Written(kind, call, r, a) = <<Patch(Uuid(r), a)>>
      BY <1>1 DEF Written
    <2>2. Patch(Uuid(r), a) \in Patches(n)
      BY <1>1, PatchesTyped
    <2> QED BY <2>1, <2>2, SingleTyped
  <1>2. CASE kind = "update" /\ call = "identity"
    <2>1. Written(kind, call, r, a) = <<Patch(Done(r), TRUE)>>
      BY <1>2 DEF Written
    <2>2. Patch(Done(r), TRUE) \in Patches(n)
      BY <1>2, PatchesTyped
    <2> QED BY <2>1, <2>2, SingleTyped
  <1>3. CASE kind = "delete" /\ call = "mark"
    <2>1. Written(kind, call, r, a) = <<Forgotten(r)>>
      BY <1>3 DEF Written
    <2>2. Forgotten(r) \in Patches(n)
      BY <1>3, PatchesTyped
    <2> QED BY <2>1, <2>2, SingleTyped
  <1>4. CASE /\ ~(kind = "update" /\ call = "create")
             /\ ~(kind = "update" /\ call = "identity")
             /\ ~(kind = "delete" /\ call = "mark")
    <2>1. Written(kind, call, r, a) = <<>>
      BY <1>4 DEF Written
    <2> QED BY <2>1
  <1> QED BY <1>1, <1>2, <1>3, <1>4

(* A list of patches removes nothing, unless Nothing is put at its end.    *)
LEMMA ListTyped ==
    ASSUME NEW n \in Nat, NEW ps \in Seq(Patches(n))
    PROVE  /\ ps \in Seq(Patches(n) \cup {Nothing}) /\ Nothing \notin Range(ps)
           /\ \A p \in Patches(n) : Append(ps, p) \in Seq(Patches(n))
           /\ Append(ps, Nothing) \in Seq(Patches(n) \cup {Nothing})
  <1>1. Nothing \notin Patches(n)
    BY SomeThings
  <1>2. ps \in Seq(Patches(n) \cup {Nothing})
    OBVIOUS
  <1>3. Nothing \notin Range(ps)
    BY <1>1 DEF Range
  <1>4. \A p \in Patches(n) : Append(ps, p) \in Seq(Patches(n))
    OBVIOUS
  <1>5. Append(ps, Nothing) \in Seq(Patches(n) \cup {Nothing})
    BY <1>2
  <1> QED BY <1>2, <1>3, <1>4, <1>5

(* The ways an action goes on: Update ends, Delete ends, a role is entered, *)
(* or there is another call.                                               *)
Role_(job, q) == Calls[job.kind][q][2]

Completes(n, js, w, job, p, q, ps) ==
    /\ job.kind = "update" /\ q = End("update")
    /\ Append(ps, Completed) \in Seq(Patches(n))
    /\ Say(js, w, Nothing, Append(ps, Completed))

Drops(n, js, w, job, p, q, ps) ==
    /\ job.kind = "delete" /\ q = End("delete")
    /\ Append(ps, Nothing) \in Seq(Patches(n) \cup {Nothing})
    /\ Say(js, w, Nothing, Append(ps, Nothing))

Enters(n, js, w, job, p, q, ps) ==
    /\ q < End(job.kind) /\ Entered(job.kind, p, q) /\ Role_(job, q) \in Role
    /\ \E on \in Jobs(n), qs \in Seq(Patches(n)) :
          /\ on = [job EXCEPT !.at = q, !.acct = View(job)[Uuid(Role_(job, q))]]
          /\ qs = IF job.kind = "delete" THEN Append(ps, Patch(Done(Role_(job, q)), FALSE)) ELSE ps
          /\ Say(js, w, on, qs)

Continues(n, js, w, job, p, q, ps) ==
    /\ q < End(job.kind) /\ ~Entered(job.kind, p, q)
    /\ \E on \in Jobs(n) : on = [job EXCEPT !.at = q] /\ Say(js, w, on, ps)

LEMMA AdvanceWays ==
    ASSUME NEW n \in Nat, NEW js, NEW w, NEW job \in Jobs(n), NEW p \in 1..End(job.kind),
           NEW ps \in Seq(Patches(n)), version \in Version,
           status \in Statuses(n) \cup {Nothing}, job.live => status # Nothing,
           Advance(js, w, job, p, ps)
    PROVE  \E q \in p..End(job.kind) :
             /\ NextCall(job.kind, View(job), p, q)
             /\ \/ Completes(n, js, w, job, p, q, ps)
                \/ Drops(n, js, w, job, p, q, ps)
                \/ Enters(n, js, w, job, p, q, ps)
                \/ Continues(n, js, w, job, p, q, ps)
  <1>1. PICK q \in p..End(job.kind) :
          /\ NextCall(job.kind, View(job), p, q)
          /\ CASE q = End(job.kind) -> Finish(js, w, job, ps)
               [] Entered(job.kind, p, q) -> Enter(js, w, job, q, ps)
               [] OTHER -> Say(js, w, [job EXCEPT !.at = q], ps)
    BY DEF Advance
  <1>2. job.kind \in {"update", "delete"} /\ End(job.kind) \in Nat /\ q \in Nat
    BY Ends DEF Jobs
  <1>3. CASE q = End(job.kind)
    <2>0. ~Entered(job.kind, p, q)
      BY <1>2, <1>3 DEF Entered
    <2>1. Finish(js, w, job, ps)
      BY <1>1, <1>3, <2>0
    <2>2. CASE job.kind = "update"
      <3>1. Say(js, w, Nothing, Append(ps, Completed))
        BY <2>1, <2>2 DEF Finish
      <3>2. Append(ps, Completed) \in Seq(Patches(n))
        BY PatchesTyped, ListTyped
      <3>3. Completes(n, js, w, job, p, q, ps)
        BY <1>3, <2>2, <3>1, <3>2 DEF Completes
      <3> QED BY <1>1, <3>3
    <2>3. CASE job.kind = "delete"
      <3>1. Say(js, w, Nothing, Append(ps, Nothing))
        BY <2>1, <2>3 DEF Finish
      <3>2. Append(ps, Nothing) \in Seq(Patches(n) \cup {Nothing})
        BY ListTyped
      <3>3. Drops(n, js, w, job, p, q, ps)
        BY <1>3, <2>3, <3>1, <3>2 DEF Drops
      <3> QED BY <1>1, <3>3
    <2> QED BY <1>2, <2>2, <2>3
  <1>4. CASE q # End(job.kind) /\ Entered(job.kind, p, q)
    <2> DEFINE r == Role_(job, q)
               on == [job EXCEPT !.at = q, !.acct = View(job)[Uuid(r)]]
               qs == IF job.kind = "delete" THEN Append(ps, Patch(Done(r), FALSE)) ELSE ps
    <2>1. Enter(js, w, job, q, ps)
      BY <1>1, <1>4
    <2>2. Say(js, w, on, qs)
      BY <2>1 DEF Enter, Role_
    <2>3. r \in Role
      BY <1>4 DEF Entered, Role_
    <2>4. View(job)[Uuid(r)] \in 0..n
      <3>1. View(job) \in Statuses(n)
        BY ViewTyped
      <3>2. Uuid(r) \in Key /\ Values(Uuid(r), n) = 0..n
        BY <2>3, KeysApart DEF Values
      <3> QED BY <3>1, <3>2 DEF Statuses
    <2>5. on \in Jobs(n)
      <3> DEFINE a == View(job)[Uuid(r)]
      <3> HIDE DEF a, r
      <3> QED BY <1>2, <2>4 DEF Jobs, a
    <2>6. qs \in Seq(Patches(n))
      <3>1. Patch(Done(r), FALSE) \in Patches(n)
        BY <2>3, PatchesTyped
      <3> QED BY <3>1, ListTyped
    <2>7. q < End(job.kind)
      BY <1>1, <1>2, <1>4
    <2>8. Enters(n, js, w, job, p, q, ps)
      BY <1>4, <2>2, <2>3, <2>5, <2>6, <2>7 DEF Enters
    <2> QED BY <1>1, <2>8
  <1>5. CASE q # End(job.kind) /\ ~Entered(job.kind, p, q)
    <2> DEFINE on == [job EXCEPT !.at = q]
    <2>1. Say(js, w, on, ps)
      BY <1>1, <1>5
    <2>2. on \in Jobs(n)
      BY <1>2 DEF Jobs
    <2>3. q < End(job.kind)
      BY <1>1, <1>2, <1>5
    <2>4. Continues(n, js, w, job, p, q, ps)
      BY <1>5, <2>1, <2>2, <2>3 DEF Continues
    <2> QED BY <1>1, <2>4
  <1> QED BY <1>3, <1>4, <1>5

(* What holds after an action has gone on.                                 *)
Onward(js, w, n) ==
    /\ status' \in Statuses(n) \cup {Nothing} /\ stored' = stored /\ stuck' = stuck
    /\ queue' \in Seq(Patches(n) \cup {Nothing}) /\ (queue # <<>> => queue' # <<>>)
    /\ Held(jobs', status', n) /\ Mirrored'
    /\ \A s \in Slot : s # w => (Waiting(jobs'[s]) <=> Waiting(js[s]))

LEMMA AdvanceTyped ==
    ASSUME NEW n \in Nat, NEW js, NEW w \in Slot, NEW job \in Jobs(n), NEW p \in 1..End(job.kind),
           NEW ps \in Seq(Patches(n)), version \in Version,
           status \in Statuses(n) \cup {Nothing}, stored \in Statuses(n) \cup {Nothing},
           queue \in Seq(Patches(n) \cup {Nothing}), Mirrored, Held(js, status, n),
           job.live => status # Nothing,
           Advance(js, w, job, p, ps)
    PROVE  Onward(js, w, n) /\ ~Waiting(jobs'[w])
  <1>1. PICK q \in p..End(job.kind) :
             /\ NextCall(job.kind, View(job), p, q)
             /\ \/ Completes(n, js, w, job, p, q, ps)
                \/ Drops(n, js, w, job, p, q, ps)
                \/ Enters(n, js, w, job, p, q, ps)
                \/ Continues(n, js, w, job, p, q, ps)
    BY AdvanceWays
  <1> DEFINE Said(on, qs) ==
               /\ on \in Jobs(n) \cup {Nothing} /\ qs \in Seq(Patches(n) \cup {Nothing})
               /\ Say(js, w, on, qs)
               /\ on # Nothing => /\ Nothing \notin Range(qs)
                                  /\ on.at < End(on.kind) /\ on.at # 0 /\ on.live = job.live
  <1>2. \E on, qs : Said(on, qs)
    <2>1. q \in Nat \ {0}
      BY Ends DEF Jobs
    <2>2. \A qs \in Seq(Patches(n)) :
            qs \in Seq(Patches(n) \cup {Nothing}) /\ Nothing \notin Range(qs)
      BY ListTyped
    <2>3. CASE Completes(n, js, w, job, p, q, ps)
      <3>1. Said(Nothing, Append(ps, Completed))
        BY <2>2, <2>3 DEF Completes
      <3> QED BY <3>1
    <2>4. CASE Drops(n, js, w, job, p, q, ps)
      <3>1. Said(Nothing, Append(ps, Nothing))
        BY <2>4 DEF Drops
      <3> QED BY <3>1
    <2>5. CASE Enters(n, js, w, job, p, q, ps)
      <3>1. q < End(job.kind)
        BY <2>5 DEF Enters
      <3>2. PICK on \in Jobs(n), qs \in Seq(Patches(n)) :
              /\ on = [job EXCEPT !.at = q, !.acct = View(job)[Uuid(Role_(job, q))]]
              /\ Say(js, w, on, qs)
        BY <2>5 DEF Enters
      <3>3. on.at = q /\ on.kind = job.kind /\ on.live = job.live
        BY <3>2 DEF Jobs
      <3>4. Said(on, qs)
        BY <2>1, <2>2, <3>1, <3>2, <3>3
      <3> QED BY <3>4
    <2>6. CASE Continues(n, js, w, job, p, q, ps)
      <3>1. q < End(job.kind)
        BY <2>6 DEF Continues
      <3>2. PICK on \in Jobs(n) : on = [job EXCEPT !.at = q] /\ Say(js, w, on, ps)
        BY <2>6 DEF Continues
      <3>3. on.at = q /\ on.kind = job.kind /\ on.live = job.live
        BY <3>2 DEF Jobs
      <3>4. Said(on, ps)
        BY <2>1, <2>2, <3>1, <3>2, <3>3
      <3> QED BY <3>4
    <2> QED BY <1>1, <2>3, <2>4, <2>5, <2>6
  <1>3. PICK on, qs : Said(on, qs)
    BY <1>2
  <1>4. /\ status' \in Statuses(n) \cup {Nothing} /\ stored' = stored /\ stuck' = stuck
        /\ queue' \in Seq(Patches(n) \cup {Nothing}) /\ (queue # <<>> => queue' # <<>>)
        /\ Held(jobs', status', n) /\ Mirrored'
        /\ \A s \in Slot : Waiting(jobs'[s]) <=> Waiting(IF s = w THEN on ELSE js[s])
    BY <1>3, SayTyped
  <1>5. ~Waiting(on)
    BY <1>3 DEF Waiting
  <1> QED BY <1>4, <1>5 DEF Onward

LEMMA BeginTyped ==
    ASSUME NEW n \in Nat, NEW js, NEW w \in Slot, NEW job \in Jobs(n), job.at = 0,
           version \in Version,
           status \in Statuses(n) \cup {Nothing}, stored \in Statuses(n) \cup {Nothing},
           queue \in Seq(Patches(n) \cup {Nothing}), Mirrored, Held(js, status, n),
           job.live => status # Nothing,
           Begin(js, w, job)
    PROVE  Onward(js, w, n)
  <1> DEFINE none == <<>>
             one == <<Patch(Spec_, TRUE)>>
             two == <<Patch(Ready_, FALSE), Patch(Spec_, TRUE)>>
  <1>1. none \in Seq(Patches(n)) /\ one \in Seq(Patches(n)) /\ two \in Seq(Patches(n))
    <2>1. Patch(Spec_, TRUE) \in Patches(n) /\ Patch(Ready_, FALSE) \in Patches(n)
      BY PatchesTyped
    <2>2. \A x, y \in Patches(n) :
            <<>> \in Seq(Patches(n)) /\ <<x>> \in Seq(Patches(n)) /\ <<x, y>> \in Seq(Patches(n))
      OBVIOUS
    <2> QED BY <2>1, <2>2
  <1>2. 1 \in 1..End(job.kind) /\ 0 < End(job.kind)
    BY Ends DEF Jobs
  <1>3. \/ \E ps \in Seq(Patches(n)) : Advance(js, w, job, 1, ps)
        \/ \E on \in {job, Nothing} : Say(js, w, on, none)
    <2>1. \/ Advance(js, w, job, 1, none) \/ Advance(js, w, job, 1, one) \/ Advance(js, w, job, 1, two)
          \/ Say(js, w, Nothing, none) \/ Say(js, w, job, none)
      BY DEF Begin
    <2> HIDE DEF none, one, two
    <2> QED BY <1>1, <2>1
  <1>4. ASSUME NEW ps \in Seq(Patches(n)), Advance(js, w, job, 1, ps) PROVE Onward(js, w, n)
    BY <1>2, <1>4, AdvanceTyped
  <1>5. ASSUME NEW on \in {job, Nothing}, Say(js, w, on, none) PROVE Onward(js, w, n)
    <2> HIDE DEF none
    <2>1. none \in Seq(Patches(n) \cup {Nothing}) /\ Nothing \notin Range(none)
      BY <1>1, ListTyped
    <2>2. on \in Jobs(n) \cup {Nothing} /\ (on # Nothing => on.at < End(on.kind) /\ (on.live => status # Nothing))
      BY <1>2, <1>5
    <2>3. /\ status' \in Statuses(n) \cup {Nothing} /\ stored' = stored /\ stuck' = stuck
          /\ queue' \in Seq(Patches(n) \cup {Nothing}) /\ (queue # <<>> => queue' # <<>>)
          /\ Held(jobs', status', n) /\ Mirrored'
          /\ \A s \in Slot : Waiting(jobs'[s]) <=> Waiting(IF s = w THEN on ELSE js[s])
      BY <1>5, <2>1, <2>2, SayTyped
    <2> QED BY <2>3 DEF Onward
  <1> QED BY <1>3, <1>4, <1>5

-----------------------------------------------------------------------------
(* Every step keeps the types, and the status in step with what is saved.  *)
LEMMA JobTyped ==
    ASSUME Typed, NEW w \in Slot, jobs[w] # Nothing
    PROVE  /\ jobs[w] \in Jobs(accounts) /\ jobs[w].kind \in {"update", "delete"}
           /\ jobs[w].at \in 0..(End(jobs[w].kind) - 1)
           /\ (jobs[w].live => status # Nothing) /\ View(jobs[w]) \in Statuses(accounts)
           /\ (jobs[w].at > 0 => jobs[w].at \in DOMAIN Calls[jobs[w].kind])
           /\ accounts \in Nat
  <1>1. accounts \in Nat
    BY BoundsAssumption DEF Typed
  <1>2. jobs[w] \in Jobs(accounts) /\ jobs[w].at < End(jobs[w].kind)
        /\ (jobs[w].live => status # Nothing)
    BY DEF Typed, Held
  <1>3. jobs[w].kind \in {"update", "delete"} /\ jobs[w].at \in Nat
    BY <1>2 DEF Jobs
  <1>4. jobs[w].at \in 0..(End(jobs[w].kind) - 1)
    BY <1>2, <1>3, Ends
  <1>5. jobs[w].at > 0 => jobs[w].at \in DOMAIN Calls[jobs[w].kind]
    BY <1>3, <1>4, Ends, UpdateTable, DeleteTable
  <1>6. View(jobs[w]) \in Statuses(accounts)
    BY <1>1, <1>2, ViewTyped DEF Typed
  <1> QED BY <1>1, <1>2, <1>3, <1>4, <1>5, <1>6

LEMMA HeldGrows ==
    ASSUME NEW m \in Nat, NEW n \in Nat, m <= n, NEW js, NEW st, Held(js, st, m)
    PROVE  Held(js, st, n)
  BY StatusesGrow DEF Held

LEMMA RolesWritten ==
    ASSUME NEW kind \in {"update", "delete"}, NEW p \in DOMAIN Calls[kind]
    PROVE  LET call == Calls[kind][p][1]
               r == Calls[kind][p][2]
           IN  /\ kind = "update" /\ call \in {"create", "identity"} => r \in Role
               /\ kind = "delete" /\ call = "mark" => r \in Role
  <1>1. CASE kind = "update"
    BY <1>1, UpdateTable DEF Role
  <1>2. CASE kind = "delete"
    BY <1>2, DeleteTable DEF Role
  <1> QED BY <1>1, <1>2

(* How a call changes the number of accounts.                              *)
LEMMA EffectTyped ==
    ASSUME Typed, NEW job, NEW a, Effect(job, a)
    PROVE  /\ accounts' \in 0..MaxAccounts /\ accounts <= accounts'
           /\ Calls[job.kind][job.at][1] = "create" => accounts' = accounts + 1
           /\ Calls[job.kind][job.at][1] # "create" => accounts' = accounts
  <1>1. accounts \in 0..MaxAccounts /\ MaxAccounts \in Nat
    BY BoundsAssumption DEF Typed
  <1>2. CASE Calls[job.kind][job.at][1] = "create"
    BY <1>1, <1>2 DEF Effect, services
  <1>3. CASE Calls[job.kind][job.at][1] # "create"
    <2>1. accounts' = accounts
      BY <1>3 DEF Effect, services
    <2> QED BY <1>1, <1>3, <2>1
  <1> QED BY <1>2, <1>3

(* What is typed before a step is typed for more accounts.                 *)
LEMMA TypedGrows ==
    ASSUME Typed, NEW n \in Nat, accounts <= n
    PROVE  /\ status \in Statuses(n) \cup {Nothing} /\ stored \in Statuses(n) \cup {Nothing}
           /\ queue \in Seq(Patches(n) \cup {Nothing}) /\ Held(jobs, status, n)
  <1>1. accounts \in Nat
    BY BoundsAssumption DEF Typed
  <1>2. Statuses(accounts) \subseteq Statuses(n) /\ Patches(accounts) \subseteq Patches(n)
    BY <1>1, StatusesGrow
  <1>3. queue \in Seq(Patches(n) \cup {Nothing})
    <2>1. queue \in Seq(Patches(accounts) \cup {Nothing})
      BY DEF Typed
    <2>2. Patches(accounts) \cup {Nothing} \subseteq Patches(n) \cup {Nothing}
      BY <1>2
    <2> QED BY <2>1, <2>2
  <1>4. Held(jobs, status, n)
    BY <1>1, HeldGrows DEF Typed
  <1> QED BY <1>2, <1>3, <1>4 DEF Typed

(* What a call comes to: the account it is for, and what is said of it.    *)
CallOf(w, job, a, on, ps) ==
    /\ job = jobs[w] /\ job # Nothing /\ job.kind \in {"update", "delete"}
    /\ job.at \in 1..(End(job.kind) - 1) /\ job.at + 1 \in 1..End(on.kind)
    /\ (job.live => status # Nothing)
    /\ a = IF Calls[job.kind][job.at][1] = "create" THEN accounts + 1 ELSE job.acct
    /\ on = [job EXCEPT !.acct = a]
    /\ on.kind = job.kind /\ on.live = job.live /\ on.own = job.own /\ on.acct = a
    /\ ps = Written(job.kind, Calls[job.kind][job.at][1], Calls[job.kind][job.at][2], a)
    /\ Effect(job, a) /\ Advance(jobs, w, on, job.at + 1, ps)
    /\ UNCHANGED <<cluster, news, edits, version, faults, crossed, lost>>

LEMMA CallParts ==
    ASSUME Typed, NEW w \in Slot, Call(w)
    PROVE  /\ accounts \in Nat /\ accounts' \in 0..MaxAccounts /\ accounts' \in Nat
           /\ accounts <= accounts'
           /\ \E job \in Jobs(accounts), a \in 0..accounts', on \in Jobs(accounts'),
                ps \in Seq(Patches(accounts')) : CallOf(w, job, a, on, ps)
  <1> DEFINE job == jobs[w]
             call == Calls[job.kind][job.at][1]
             r == Calls[job.kind][job.at][2]
             a == IF call = "create" THEN accounts + 1 ELSE job.acct
             on == [job EXCEPT !.acct = a]
             ps == Written(job.kind, call, r, a)
             n == accounts'
  <1>1. job # Nothing /\ job.at > 0
    BY DEF Call, Running
  <1>2. /\ job \in Jobs(accounts) /\ job.kind \in {"update", "delete"}
        /\ job.at \in 0..(End(job.kind) - 1) /\ job.at \in DOMAIN Calls[job.kind]
        /\ (job.live => status # Nothing) /\ accounts \in Nat
    BY <1>1, JobTyped
  <1>3. /\ Effect(job, a) /\ Advance(jobs, w, on, job.at + 1, ps)
        /\ UNCHANGED <<cluster, news, edits, version, faults, crossed, lost>>
    BY DEF Call, Unedited, Faultless
  <1>4. /\ n \in 0..MaxAccounts /\ n \in Nat /\ accounts <= n
        /\ (call = "create" => n = accounts + 1)
    <2> HIDE DEF a
    <2>1. /\ accounts' \in 0..MaxAccounts /\ accounts <= accounts'
          /\ (Calls[job.kind][job.at][1] = "create" => accounts' = accounts + 1)
      BY <1>3, EffectTyped
    <2>2. MaxAccounts \in Nat
      BY BoundsAssumption
    <2>3. accounts' \in Nat
      BY <2>1, <2>2
    <2> QED BY <2>1, <2>3
  <1>5. a \in 0..n
    BY <1>2, <1>4 DEF Jobs
  <1>6. job \in Jobs(n)
    BY <1>2, <1>4, StatusesGrow
  <1>7. /\ on \in Jobs(n) /\ on.kind = job.kind /\ on.live = job.live /\ on.own = job.own
        /\ on.acct = a
    <2> HIDE DEF a
    <2> QED BY <1>5, <1>6 DEF Jobs
  <1>8. ps \in Seq(Patches(n))
    <2>1. /\ job.kind = "update" /\ call \in {"create", "identity"} => r \in Role
          /\ job.kind = "delete" /\ call = "mark" => r \in Role
      BY <1>2, RolesWritten
    <2> HIDE DEF call, r, a, n
    <2> QED BY <1>4, <1>5, <2>1, WrittenTyped
  <1>9. job.at \in 1..(End(job.kind) - 1) /\ job.at + 1 \in 1..End(on.kind)
    <2>1. job.at \in 1..(End(job.kind) - 1) /\ job.at + 1 \in 1..End(job.kind)
      BY <1>1, <1>2, Ends
    <2> QED BY <1>7, <2>1
  <1>10. CallOf(w, job, a, on, ps)
    BY <1>1, <1>2, <1>3, <1>7, <1>9 DEF CallOf
  <1> HIDE DEF job, a, on, ps
  <1> QED BY <1>2, <1>4, <1>5, <1>7, <1>8, <1>10

LEMMA CallTyped ==
    ASSUME Typed, Mirrored, NEW w \in Slot, Call(w) PROVE Typed' /\ Mirrored'
  <1> DEFINE n == accounts'
  <1>1. accounts \in Nat /\ n \in 0..MaxAccounts /\ n \in Nat /\ accounts <= n
    BY CallParts
  <1>2. PICK job \in Jobs(accounts), a \in 0..n, on \in Jobs(n), ps \in Seq(Patches(n)) :
          CallOf(w, job, a, on, ps)
    BY CallParts
  <1>3. /\ Advance(jobs, w, on, job.at + 1, ps)
        /\ UNCHANGED <<cluster, news, edits, version, faults, crossed, lost>>
        /\ (on.live => status # Nothing)
    BY <1>2 DEF CallOf
  <1>4. job.at + 1 \in 1..End(on.kind)
    BY <1>2 DEF CallOf
  <1>5. version \in Version
    BY DEF Typed
  <1>6. Onward(jobs, w, n) /\ ~Waiting(jobs'[w])
    <2>1. /\ status \in Statuses(n) \cup {Nothing} /\ stored \in Statuses(n) \cup {Nothing}
          /\ queue \in Seq(Patches(n) \cup {Nothing}) /\ Held(jobs, status, n)
      BY <1>1, TypedGrows
    <2> HIDE DEF n
    <2> QED BY <1>1, <1>3, <1>4, <1>5, <2>1, AdvanceTyped
  <1>7. ~Waiting(jobs'["stray"])
    <2>1. CASE w = "stray"
      BY <1>6, <2>1
    <2>2. CASE w # "stray"
      <3>1. Waiting(jobs'["stray"]) <=> Waiting(jobs["stray"])
        BY <1>6, <2>2 DEF Onward, Slot
      <3> QED BY <3>1 DEF Typed
    <2> QED BY <2>1, <2>2
  <1>8. /\ UNCHANGED <<cluster, news, edits, version, faults, crossed, lost, stuck>>
        /\ status' \in Statuses(accounts') \cup {Nothing}
        /\ stored' \in Statuses(accounts') \cup {Nothing}
        /\ queue' \in Seq(Patches(accounts') \cup {Nothing}) /\ (queue # <<>> => queue' # <<>>)
        /\ Held(jobs', status', accounts') /\ Mirrored'
    <2>1. stored \in Statuses(n) \cup {Nothing}
      BY <1>1, TypedGrows
    <2> QED BY <1>3, <1>6, <2>1 DEF Onward
  <1>9. accounts' \in 0..MaxAccounts
    BY <1>1
  <1> QED BY <1>7, <1>8, <1>9 DEF Typed

(* An action that has failed waits, or is gone.                            *)
LEMMA FailedTyped ==
    ASSUME Typed, NEW n \in Nat, accounts <= n, NEW w \in Slot, jobs[w] # Nothing,
           jobs' = [jobs EXCEPT ![w] = Failed(w, jobs[w])], status' = status
    PROVE  Held(jobs', status', n) /\ ~Waiting(jobs'["stray"])
  <1> DEFINE f == Failed(w, jobs[w])
  <1>1. Held(jobs, status, n)
    BY TypedGrows
  <1>2. jobs[w] \in Jobs(n) /\ jobs[w].at < End(jobs[w].kind) /\ (jobs[w].live => status # Nothing)
    BY <1>1 DEF Held
  <1>3. w = "current" => f = [jobs[w] EXCEPT !.at = 0, !.acct = None]
    BY DEF Failed
  <1>4. w # "current" => f = Nothing
    BY DEF Failed
  <1>5. w = "current" => /\ f \in Jobs(n) /\ f.at = 0 /\ f.kind = jobs[w].kind /\ f.live = jobs[w].live
    <2> HIDE DEF f
    <2>1. 0 \in 0..n
      OBVIOUS
    <2> DEFINE j == jobs[w]
    <2>2. j \in Jobs(n) /\ None = 0
      BY <1>2 DEF None
    <2>3. w = "current" => f = [j EXCEPT !.at = 0, !.acct = 0]
      BY <1>3, <2>2
    <2> HIDE DEF j
    <2>4. [j EXCEPT !.at = 0, !.acct = 0] \in Jobs(n)
      BY <2>1, <2>2 DEF Jobs
    <2>5. j.kind = [j EXCEPT !.at = 0, !.acct = 0].kind /\ j.live = [j EXCEPT !.at = 0, !.acct = 0].live
          /\ [j EXCEPT !.at = 0, !.acct = 0].at = 0
      BY <2>2 DEF Jobs
    <2> QED BY <2>3, <2>4, <2>5 DEF j
  <1>6. f # Nothing => f \in Jobs(n) /\ f.at < End(f.kind) /\ (f.live => status # Nothing)
    BY <1>2, <1>4, <1>5, Ends DEF Jobs
  <1>7. jobs' \in [Slot -> Jobs(n) \cup {Nothing}]
    <2>1. jobs' = [jobs EXCEPT ![w] = f] /\ jobs \in [Slot -> Jobs(n) \cup {Nothing}]
      BY <1>1 DEF Held
    <2>2. f \in Jobs(n) \cup {Nothing}
      BY <1>6
    <2> HIDE DEF f
    <2> QED BY <2>1, <2>2
  <1>8. \A s \in Slot : jobs'[s] = IF s = w THEN f ELSE jobs[s]
    BY <1>1 DEF Held
  <1>9. Held(jobs', status', n)
    <2> HIDE DEF f
    <2> QED BY <1>1, <1>6, <1>7, <1>8 DEF Held
  <1>10. ~Waiting(jobs'["stray"])
    <2>1. jobs'["stray"] = IF "stray" = w THEN f ELSE jobs["stray"]
      BY <1>8 DEF Slot
    <2>2. ~Waiting(jobs["stray"]) /\ ~Waiting(Nothing)
      BY DEF Typed, Waiting
    <2> QED BY <1>4, <2>1, <2>2
  <1> QED BY <1>9, <1>10

LEMMA CallRefusedTyped ==
    ASSUME Typed, Mirrored, NEW w \in Slot, CallRefused(w) PROVE Typed' /\ Mirrored'
  <1>1. /\ jobs[w] # Nothing /\ jobs' = [jobs EXCEPT ![w] = Failed(w, jobs[w])]
        /\ UNCHANGED <<cluster, news, edits, version, faults, crossed, lost, status, stored, queue,
                       stuck, facts, accounts>>
    BY DEF CallRefused, Running, Unedited, Faultless, saving, services
  <1>2. accounts \in Nat
    BY BoundsAssumption DEF Typed
  <1>3. Held(jobs', status', accounts) /\ ~Waiting(jobs'["stray"])
    <2>1. accounts <= accounts /\ status' = status
      BY <1>1, <1>2
    <2>2. jobs[w] # Nothing /\ jobs' = [jobs EXCEPT ![w] = Failed(w, jobs[w])]
      BY <1>1
    <2> QED BY <1>2, <2>1, <2>2, FailedTyped
  <1> QED BY <1>1, <1>3 DEF Typed, Mirrored

LEMMA CallFailsTyped ==
    ASSUME Typed, Mirrored, NEW w \in Slot, CallFails(w) PROVE Typed' /\ Mirrored'
  <1>1. /\ jobs[w] # Nothing /\ jobs' = [jobs EXCEPT ![w] = Failed(w, jobs[w])]
        /\ faults < MaxFaults /\ faults' = faults + 1
        /\ Effect(jobs[w], jobs[w].acct) \/ UNCHANGED services
        /\ UNCHANGED <<cluster, news, edits, version, crossed, lost, status, stored, queue, stuck>>
    BY DEF CallFails, Running, Unedited, saving
  <1>2. accounts' \in 0..MaxAccounts /\ accounts <= accounts'
    BY <1>1, EffectTyped, BoundsAssumption DEF Typed, services
  <1>3. accounts' \in Nat
    BY <1>2, BoundsAssumption
  <1>4. Held(jobs', status', accounts') /\ ~Waiting(jobs'["stray"])
    BY <1>1, <1>2, <1>3, FailedTyped
  <1>5. /\ status \in Statuses(accounts') \cup {Nothing} /\ stored \in Statuses(accounts') \cup {Nothing}
        /\ queue \in Seq(Patches(accounts') \cup {Nothing})
    BY <1>2, <1>3, TypedGrows
  <1>6. faults' \in 0..MaxFaults
    BY <1>1, BoundsAssumption DEF Typed
  <1> QED BY <1>1, <1>2, <1>4, <1>5, <1>6 DEF Typed, Mirrored

LEMMA RetryTyped ==
    ASSUME Typed, Mirrored, Retry PROVE Typed' /\ Mirrored'
  <1> DEFINE job == jobs["current"]
  <1>1. /\ job # Nothing /\ job.at = 0 /\ Begin(jobs, "current", job)
        /\ UNCHANGED <<cluster, news, edits, version, faults, crossed, lost, facts, accounts>>
    BY DEF Retry, Waiting, Unedited, Faultless, services
  <1>2. job \in Jobs(accounts) /\ (job.live => status # Nothing) /\ accounts \in Nat
    BY <1>1, JobTyped DEF Slot
  <1>3. Onward(jobs, "current", accounts)
    <2>1. /\ version \in Version /\ "current" \in Slot
          /\ status \in Statuses(accounts) \cup {Nothing} /\ stored \in Statuses(accounts) \cup {Nothing}
          /\ queue \in Seq(Patches(accounts) \cup {Nothing}) /\ Held(jobs, status, accounts)
      BY DEF Typed, Slot
    <2> HIDE DEF job
    <2> QED BY <1>1, <1>2, <2>1, BeginTyped
  <1>4. ~Waiting(jobs'["stray"])
    BY <1>3 DEF Onward, Typed, Slot
  <1> QED BY <1>1, <1>3, <1>4 DEF Onward, Typed

(* The action that replaces another.                                       *)
LEMMA NewActionTyped ==
    ASSUME NEW n \in Nat
    PROVE  /\ NewAction \in Jobs(n) /\ NewAction.at = 0 /\ NewAction.acct = None
           /\ NewAction.live <=> status # Nothing
           /\ NewAction.own = Blank
           /\ NewAction.kind = IF cluster THEN "update" ELSE "delete"
  <1>1. Blank \in Statuses(n) /\ None \in 0..n
    BY BlankTyped DEF None
  <1> QED BY <1>1 DEF NewAction, Jobs

LEMMA TellTyped ==
    ASSUME Typed, Mirrored, Tell PROVE Typed' /\ Mirrored'
  <1> DEFINE job == jobs["current"]
             js == [jobs EXCEPT !["stray"] = IF Running(job) THEN job ELSE @]
  <1>1. /\ news' = FALSE /\ UNCHANGED <<cluster, edits, version, faults, lost, facts, accounts>>
    BY DEF Tell, services
  <1>2. CASE cluster \/ status # Nothing
    <2>1. Begin(js, "current", NewAction)
      BY <1>2 DEF Tell
    <2>2. crossed' \in BOOLEAN
      <3>1. crossed' = (crossed \/ (cluster /\ Removing) \/ \E w \in Slot : Running(jobs[w]))
        BY <1>2 DEF Tell
      <3> QED BY <3>1
    <2>3. accounts \in Nat /\ Held(jobs, status, accounts) /\ version \in Version /\ "current" \in Slot
          /\ status \in Statuses(accounts) \cup {Nothing} /\ stored \in Statuses(accounts) \cup {Nothing}
          /\ queue \in Seq(Patches(accounts) \cup {Nothing})
      BY BoundsAssumption DEF Typed, Slot
    <2>4. \A s \in Slot : js[s] = IF s = "stray" /\ Running(job) THEN job ELSE jobs[s]
      BY <2>3 DEF Held
    <2>5. Held(js, status, accounts) /\ ~Waiting(js["stray"])
      <3>1. js \in [Slot -> Jobs(accounts) \cup {Nothing}]
        BY <2>3 DEF Held
      <3>2. Running(job) => ~Waiting(job)
        BY DEF Running, Waiting
      <3>3. \A s \in Slot : js[s] = jobs[s] \/ js[s] = job
        BY <2>4
      <3>4. Held(js, status, accounts)
        <4> HIDE DEF js
        <4> QED BY <2>3, <3>1, <3>3 DEF Held
      <3>5. ~Waiting(js["stray"])
        BY <2>4, <3>2 DEF Typed, Slot
      <3> QED BY <3>4, <3>5
    <2>6. /\ NewAction \in Jobs(accounts) /\ NewAction.at = 0
          /\ (NewAction.live => status # Nothing)
      BY <2>3, NewActionTyped
    <2>7. Onward(js, "current", accounts)
      <3> HIDE DEF js
      <3> QED BY <2>1, <2>3, <2>5, <2>6, BeginTyped
    <2>8. ~Waiting(jobs'["stray"])
      BY <2>5, <2>7 DEF Onward, Slot
    <2> QED BY <1>1, <2>2, <2>7, <2>8 DEF Onward, Typed
  <1>3. CASE ~(cluster \/ status # Nothing)
    <2>1. UNCHANGED <<status, stored, queue, stuck, jobs, crossed>>
      BY <1>3 DEF Tell, saving
    <2> QED BY <1>1, <2>1 DEF Typed, Mirrored
  <1> QED BY <1>2, <1>3

(* The first patch is merged before those that come after it.              *)
LEMMA SaveTyped ==
    ASSUME Typed, Mirrored, Save PROVE Typed' /\ Mirrored'
  <1> DEFINE P == Patches(accounts) \cup {Nothing}
  <1>1. /\ queue # <<>> /\ ~stuck /\ queue \in Seq(P) /\ accounts \in Nat
        /\ stored \in Statuses(accounts) \cup {Nothing}
        /\ UNCHANGED <<cluster, news, edits, version, faults, crossed, lost, status, jobs, facts, accounts>>
    BY BoundsAssumption DEF Save, Typed, Unedited, Faultless, services
  <1>2. Head(queue) \in P /\ Tail(queue) \in Seq(P)
    BY <1>1
  <1>3. CASE Head(queue) = Nothing /\ stored = Nothing
    <2>1. stuck' = TRUE /\ UNCHANGED <<stored, queue>>
      BY <1>3 DEF Save
    <2> QED BY <1>1, <2>1 DEF Typed, Mirrored
  <1>4. CASE ~(Head(queue) = Nothing /\ stored = Nothing)
    <2>1. stored' = Merge(stored, Head(queue)) /\ queue' = Tail(queue) /\ stuck' = stuck
      BY <1>4 DEF Save
    <2>2. stored' \in Statuses(accounts) \cup {Nothing}
      BY <1>1, <1>2, <2>1, MergeTyped
    <2>3. MergeAll(stored, queue) = MergeAll(Merge(stored, Head(queue)), Tail(queue))
      <3> HIDE DEF P
      <3> QED BY <1>1, MergeAllHead
    <2>4. Mirrored'
      BY <1>1, <2>1, <2>3 DEF Mirrored
    <2> QED BY <1>1, <1>2, <2>1, <2>2, <2>4 DEF Typed
  <1> QED BY <1>3, <1>4

(* A patch that has been merged, and whose answer is lost, is the first    *)
(* still: it would be merged again, and change nothing.                    *)
LEMMA SaveFailsTyped ==
    ASSUME Typed, Mirrored, SaveFails PROVE Typed' /\ Mirrored'
  <1> DEFINE P == Patches(accounts) \cup {Nothing}
             p == Head(queue)
  <1>1. /\ queue # <<>> /\ queue \in Seq(P) /\ accounts \in Nat
        /\ faults < MaxFaults /\ faults' = faults + 1 /\ stuck' = TRUE
        /\ stored \in Statuses(accounts) \cup {Nothing}
        /\ stored' = stored \/ stored' = Merge(stored, p)
        /\ UNCHANGED <<cluster, news, edits, version, crossed, lost, status, queue, jobs, facts, accounts>>
    BY BoundsAssumption DEF SaveFails, Typed, Unedited, services
  <1>2. p \in P
    BY <1>1
  <1>3. stored' \in Statuses(accounts) \cup {Nothing}
    BY <1>1, <1>2, MergeTyped
  <1>4. MergeAll(Merge(stored, p), queue) = MergeAll(stored, queue)
    <2>1. \A st : MergeAll(st, queue) = MergeAll(Merge(st, p), Tail(queue))
      <3> HIDE DEF P
      <3> QED BY <1>1, MergeAllHead
    <2>2. Merge(Merge(stored, p), p) = Merge(stored, p)
      BY <1>1, <1>2, MergedTwice
    <2> QED BY <2>1, <2>2
  <1>5. Mirrored'
    BY <1>1, <1>4 DEF Mirrored
  <1>6. faults' \in 0..MaxFaults
    BY <1>1, BoundsAssumption DEF Typed
  <1> QED BY <1>1, <1>3, <1>5, <1>6 DEF Typed

LEMMA RestartTyped ==
    ASSUME Typed, Restart PROVE Typed' /\ Mirrored'
  <1>1. /\ faults < MaxFaults /\ faults' = faults + 1
        /\ version' \in version..2
        /\ status' = stored /\ queue' = <<>> /\ stuck' = FALSE
        /\ jobs' = [s \in Slot |-> Nothing]
        /\ news' = TRUE
        /\ lost' = (lost \/ queue # <<>>)
        /\ crossed' = (crossed \/ (cluster /\ Removing))
        /\ UNCHANGED <<cluster, edits, stored, facts, accounts>>
    BY DEF Restart, services
  <1>2. faults' \in 0..MaxFaults /\ version' \in Version
    BY <1>1, BoundsAssumption DEF Typed, Version
  <1>3. Held(jobs', status', accounts)
    BY <1>1 DEF Held
  <1>4. ~Waiting(jobs'["stray"])
    BY <1>1 DEF Waiting, Slot
  <1>5. Mirrored'
    BY <1>1, MergeAllNone DEF Mirrored
  <1>6. queue' \in Seq(Patches(accounts) \cup {Nothing})
    BY <1>1
  <1> QED BY <1>1, <1>2, <1>3, <1>4, <1>5, <1>6 DEF Typed

LEMMA EditTyped ==
    ASSUME Typed, Mirrored, AddCluster \/ RemoveCluster \/ OtherCluster PROVE Typed' /\ Mirrored'
  <1>1. /\ UNCHANGED <<status, stored, queue, stuck, jobs, facts, accounts, version, faults, crossed, lost>>
        /\ news' = TRUE
    BY DEF AddCluster, RemoveCluster, OtherCluster, Edit, Faultless, saving, services
  <1>2. cluster' \in BOOLEAN
    BY DEF AddCluster, RemoveCluster, OtherCluster, Typed
  <1>3. edits' \in 0..MaxEdits
    BY BoundsAssumption DEF AddCluster, RemoveCluster, OtherCluster, Typed
  <1> QED BY <1>1, <1>2, <1>3 DEF Typed, Mirrored

(* The types, and that the status is what has been saved and what waits to *)
(* be: each step keeps them.                                               *)
LEMMA NextTyped ==
    ASSUME Typed, Mirrored, [Next]_vars PROVE Typed' /\ Mirrored'
  <1>1. CASE \E w \in Slot : Call(w)
    BY <1>1, CallTyped
  <1>2. CASE \E w \in Slot : CallRefused(w)
    BY <1>2, CallRefusedTyped
  <1>3. CASE \E w \in Slot : CallFails(w)
    BY <1>3, CallFailsTyped
  <1>4. CASE Retry
    BY <1>4, RetryTyped
  <1>5. CASE Tell
    BY <1>5, TellTyped
  <1>6. CASE Save
    BY <1>6, SaveTyped
  <1>7. CASE SaveFails
    BY <1>7, SaveFailsTyped
  <1>8. CASE Restart
    BY <1>8, RestartTyped
  <1>9. CASE AddCluster \/ RemoveCluster \/ OtherCluster
    BY <1>9, EditTyped
  <1>10. CASE UNCHANGED vars
    BY <1>10 DEF vars, saving, services, bounds, Typed, Mirrored
  <1> QED BY <1>1, <1>2, <1>3, <1>4, <1>5, <1>6, <1>7, <1>8, <1>9, <1>10 DEF Next

LEMMA InitTyped == Init => Typed /\ Mirrored
  <1> SUFFICES ASSUME Init PROVE Typed /\ Mirrored
    OBVIOUS
  <1>1. Held(jobs, status, accounts) /\ ~Waiting(jobs["stray"])
    BY DEF Init, Held, Waiting, Slot
  <1>2. Mirrored
    BY MergeAllNone DEF Init, Mirrored
  <1>3. 0 \in 0..MaxAccounts /\ 0 \in 0..MaxEdits /\ 0 \in 0..MaxFaults /\ 1 \in Version
    BY BoundsAssumption DEF Version
  <1>4. queue \in Seq(Patches(accounts) \cup {Nothing})
    BY DEF Init
  <1> QED BY <1>1, <1>2, <1>3, <1>4 DEF Init, Typed

(* The variables of the Cluster Manager have their types: an action that   *)
(* shares the status finds one, and what is stuck waits for something.     *)
THEOREM TypeCorrect == Spec => []ManagerTypeOK
  <1>1. Init => Typed /\ Mirrored
    BY InitTyped
  <1>2. Typed /\ Mirrored /\ [Next]_vars => Typed' /\ Mirrored'
    BY NextTyped
  <1>3. Typed => ManagerTypeOK
    BY TypedIsTypeOK
  <1> QED BY <1>1, <1>2, <1>3, PTL DEF Spec

(* What has been saved and the patches that wait make up the status the    *)
(* actions go by, whichever actions have met, and whatever saves failed or *)
(* were made and not answered.                                             *)
THEOREM MirroredCorrect == Spec => []Mirrored
  <1>1. Init => Typed /\ Mirrored
    BY InitTyped
  <1>2. Typed /\ Mirrored /\ [Next]_vars => Typed' /\ Mirrored'
    BY NextTyped
  <1> QED BY <1>1, <1>2, PTL DEF Spec

-----------------------------------------------------------------------------
(* The status and what the services know.                                  *)
Needs(r, a) ==
    {<<"info", a>>, <<"member", a>>, <<r, a>>} \cup (IF r = "flux" THEN {<<"grant", a>>} ELSE {})

(* The two roles have accounts of their own.                               *)
Apart(st) == st[Uuid("flux")] = st[Uuid("krbkeys")] => st[Uuid("flux")] = None

(* A role that is done has all that the services should know of it.        *)
DoneHas(st, fs) ==
    \A r \in Role : st[Done(r)] => st[Uuid(r)] # None /\ Needs(r, st[Uuid(r)]) \subseteq fs

(* What a principal's name or a role belongs to is in the status.          *)
Named(st, fs) ==
    /\ \A r \in Role, a \in Account : <<r, a>> \in fs => st[Uuid(r)] = a
    /\ \A a \in Account : <<"member", a>> \in fs => \E r \in Role : st[Uuid(r)] = a

Fits(st, fs) == Apart(st) /\ DoneHas(st, fs) /\ Named(st, fs)

(* Nothing is left of the cluster.                                         *)
Bare(fs) ==
    /\ \A r \in Role, a \in Account : <<r, a>> \notin fs
    /\ \A a \in Account : <<"member", a>> \notin fs
    /\ <<"address", None>> \notin fs /\ <<"repo", None>> \notin fs

-----------------------------------------------------------------------------
(* How the status and what is known may change and fit each other still.   *)
LEMMA SameRoles ==
    ASSUME NEW st, NEW st1, NEW fs, Fits(st, fs),
           \A r \in Role : st1[Uuid(r)] = st[Uuid(r)] /\ (st1[Done(r)] => st[Done(r)])
    PROVE  Fits(st1, fs)
  <1>1. {"flux", "krbkeys"} = Role
    BY DEF Role
  <1>2. Apart(st1)
    BY <1>1 DEF Fits, Apart
  <1>3. DoneHas(st1, fs)
    BY DEF Fits, DoneHas
  <1>4. Named(st1, fs)
    BY DEF Fits, Named
  <1> QED BY <1>2, <1>3, <1>4 DEF Fits

LEMMA AccountAdded ==
    ASSUME NEW st, NEW st1, NEW fs, NEW r \in Role, NEW a, Fits(st, fs),
           st[Uuid(r)] = None, ~st[Done(r)], a # None, \A s \in Role : st[Uuid(s)] # a,
           st1[Uuid(r)] = a, ~st1[Done(r)],
           \A s \in Role \ {r} : st1[Uuid(s)] = st[Uuid(s)] /\ st1[Done(s)] = st[Done(s)]
    PROVE  Fits(st1, fs)
  <1>1. Role = {"flux", "krbkeys"}
    BY DEF Role
  <1>2. \A b \in Account : b # None
    BY DEF Account, None
  <1>3. Apart(st1)
    BY <1>1 DEF Apart
  <1>4. DoneHas(st1, fs)
    BY DEF Fits, DoneHas
  <1>5. ASSUME NEW s \in Role, NEW b \in Account, <<s, b>> \in fs PROVE st1[Uuid(s)] = b
    <2>1. st[Uuid(s)] = b
      BY <1>5 DEF Fits, Named
    <2> QED BY <1>2, <2>1
  <1>6. ASSUME NEW b \in Account, <<"member", b>> \in fs
        PROVE  \E s \in Role : st1[Uuid(s)] = b
    <2>1. PICK s \in Role : st[Uuid(s)] = b
      BY <1>6 DEF Fits, Named
    <2>2. s # r
      BY <1>2, <2>1
    <2> QED BY <2>1, <2>2
  <1> QED BY <1>3, <1>4, <1>5, <1>6 DEF Fits, Named

LEMMA FactAdded ==
    ASSUME NEW st, NEW fs, NEW x, NEW a, Fits(st, fs),
           x \in Role => st[Uuid(x)] = a,
           x = "member" => \E r \in Role : st[Uuid(r)] = a
    PROVE  Fits(st, fs \cup {<<x, a>>})
  <1>1. DoneHas(st, fs \cup {<<x, a>>})
    BY DEF Fits, DoneHas
  <1>2. Named(st, fs \cup {<<x, a>>})
    BY DEF Fits, Named
  <1> QED BY <1>1, <1>2 DEF Fits

LEMMA RoleDone ==
    ASSUME NEW st, NEW st1, NEW fs, NEW r \in Role, Fits(st, fs),
           st[Uuid(r)] # None, Needs(r, st[Uuid(r)]) \subseteq fs,
           \A s \in Role : st1[Uuid(s)] = st[Uuid(s)],
           \A s \in Role \ {r} : st1[Done(s)] = st[Done(s)]
    PROVE  Fits(st1, fs)
  <1>1. {"flux", "krbkeys"} = Role
    BY DEF Role
  <1>2. Apart(st1)
    BY <1>1 DEF Fits, Apart
  <1>3. DoneHas(st1, fs)
    BY DEF Fits, DoneHas
  <1>4. Named(st1, fs)
    BY DEF Fits, Named
  <1> QED BY <1>2, <1>3, <1>4 DEF Fits

LEMMA FactRemoved ==
    ASSUME NEW st, NEW fs, NEW fact, Fits(st, fs),
           \A r \in Role : st[Done(r)] => fact \notin Needs(r, st[Uuid(r)])
    PROVE  Fits(st, fs \ {fact})
  <1>1. DoneHas(st, fs \ {fact})
    BY DEF Fits, DoneHas
  <1>2. Named(st, fs \ {fact})
    BY DEF Fits, Named
  <1> QED BY <1>1, <1>2 DEF Fits

(* A fact about the account of a role that is being removed is not about   *)
(* the account of the other.                                               *)
LEMMA OwnFact ==
    ASSUME NEW st, NEW fs, NEW x, NEW r \in Role, Fits(st, fs),
           st[Uuid(r)] # None, ~st[Done(r)]
    PROVE  \A s \in Role : st[Done(s)] => <<x, st[Uuid(r)]>> \notin Needs(s, st[Uuid(s)])
  <1> SUFFICES ASSUME NEW s \in Role, st[Done(s)]
               PROVE  <<x, st[Uuid(r)]>> \notin Needs(s, st[Uuid(s)])
    OBVIOUS
  <1>1. s # r /\ Role = {"flux", "krbkeys"}
    BY DEF Role
  <1>2. st[Uuid(s)] # st[Uuid(r)]
    BY <1>1 DEF Fits, Apart
  <1> QED BY <1>2 DEF Needs

LEMMA RoleForgotten ==
    ASSUME NEW st, NEW st1, NEW fs, NEW r \in Role, Fits(st, fs),
           st[Uuid(r)] # None,
           {<<r, st[Uuid(r)]>>, <<"member", st[Uuid(r)]>>} \cap fs = {},
           st1[Uuid(r)] = None, ~st1[Done(r)],
           \A s \in Role \ {r} : st1[Uuid(s)] = st[Uuid(s)] /\ st1[Done(s)] = st[Done(s)]
    PROVE  Fits(st1, fs)
  <1>1. Role = {"flux", "krbkeys"}
    BY DEF Role
  <1>2. Apart(st1)
    BY <1>1 DEF Apart
  <1>3. DoneHas(st1, fs)
    BY DEF Fits, DoneHas
  <1>4. ASSUME NEW s \in Role, NEW b \in Account, <<s, b>> \in fs PROVE st1[Uuid(s)] = b
    <2>1. st[Uuid(s)] = b
      BY <1>4 DEF Fits, Named
    <2> QED BY <1>4, <2>1
  <1>5. ASSUME NEW b \in Account, <<"member", b>> \in fs
        PROVE  \E s \in Role : st1[Uuid(s)] = b
    <2>1. PICK s \in Role : st[Uuid(s)] = b
      BY <1>5 DEF Fits, Named
    <2>2. s # r
      BY <1>5, <2>1
    <2> QED BY <2>1, <2>2
  <1> QED BY <1>2, <1>3, <1>4, <1>5 DEF Fits, Named

LEMMA LeftBare ==
    ASSUME NEW st, NEW fs, Fits(st, fs), st[Uuid("flux")] = None, st[Uuid("krbkeys")] = None,
           <<"address", None>> \notin fs, <<"repo", None>> \notin fs
    PROVE  Bare(fs)
  <1>1. Role = {"flux", "krbkeys"}
    BY DEF Role
  <1>2. \A b \in Account : b # None
    BY DEF Account, None
  <1>3. \A r \in Role, a \in Account : <<r, a>> \notin fs
    BY <1>1, <1>2 DEF Fits, Named
  <1>4. \A a \in Account : <<"member", a>> \notin fs
    BY <1>1, <1>2 DEF Fits, Named
  <1> QED BY <1>3, <1>4 DEF Bare
-----------------------------------------------------------------------------
(* How far an action has come when it makes the call at p: what has been   *)
(* set up, or removed, by the calls before.                                *)
UpdatePast(st, fs, p, a) ==
    /\ ~st[Ready_]
    /\ p > 1 => <<"address", None>> \in fs
    /\ p \in 3..6 => a = st[Uuid("flux")] /\ a # None /\ ~st[Done("flux")]
    /\ p \in 4..6 => <<"info", a>> \in fs
    /\ p \in 5..6 => <<"grant", a>> \in fs
    /\ p = 6 => <<"member", a>> \in fs
    /\ p > 6 => st[Done("flux")]
    /\ p \in 8..10 => a = st[Uuid("krbkeys")] /\ a # None /\ ~st[Done("krbkeys")]
    /\ p \in 9..10 => <<"info", a>> \in fs
    /\ p = 10 => <<"member", a>> \in fs
    /\ p > 10 => st[Done("krbkeys")]
    /\ p > 11 => <<"repo", None>> \in fs
    /\ p > 12 => <<"group", None>> \in fs

UpdateStage(st, fs, p, a) ==
    /\ UpdatePast(st, fs, p, a)
    /\ p = 2 => a = None /\ st[Uuid("flux")] = None /\ ~st[Done("flux")]
    /\ p = 7 => a = None /\ st[Uuid("krbkeys")] = None /\ ~st[Done("krbkeys")]

DeletePast(st, fs, p, a) ==
    /\ p \in 2..4 => a = st[Uuid("flux")] /\ a # None /\ ~st[Done("flux")]
    /\ p \in 3..4 => <<"flux", a>> \notin fs
    /\ p = 4 => <<"member", a>> \notin fs
    /\ p > 4 => st[Uuid("flux")] = None
    /\ p \in 6..8 => a = st[Uuid("krbkeys")] /\ a # None /\ ~st[Done("krbkeys")]
    /\ p \in 7..8 => <<"krbkeys", a>> \notin fs
    /\ p = 8 => <<"member", a>> \notin fs
    /\ p > 8 => st[Uuid("krbkeys")] = None
    /\ p > 9 => <<"repo", None>> \notin fs
    /\ p > 10 => <<"address", None>> \notin fs

DeleteStage(st, fs, p, a) ==
    /\ DeletePast(st, fs, p, a)
    /\ p = 1 => a = st[Uuid("flux")] /\ a # None /\ ~st[Done("flux")]
    /\ p = 5 => a = st[Uuid("krbkeys")] /\ a # None /\ ~st[Done("krbkeys")]

(* The fact that the call at p is about.                                   *)
LEMMA UpdateFact ==
    ASSUME NEW o \in 1..13, NEW a
    PROVE  Fact(Calls["update"][o][1], Calls["update"][o][2], a) =
             IF o = 1 THEN <<"address", None>>
             ELSE IF o \in {2, 7} THEN <<"create", a>>
             ELSE IF o \in {3, 8} THEN <<"info", a>>
             ELSE IF o = 4 THEN <<"grant", a>>
             ELSE IF o \in {5, 9} THEN <<"member", a>>
             ELSE IF o = 6 THEN <<"flux", a>>
             ELSE IF o = 10 THEN <<"krbkeys", a>>
             ELSE IF o = 11 THEN <<"repo", None>>
             ELSE IF o = 12 THEN <<"group", None>>
             ELSE <<"push", version>>
  <1>1. o \in 1..13
    OBVIOUS
  <1> QED BY <1>1, UpdateTable DEF Fact

(* What is known when a call of Delete has been made: a grant stays.       *)
Without(fs, o, a) ==
    IF o \in {1, 5} THEN fs ELSE fs \ {Fact(Calls["delete"][o][1], Calls["delete"][o][2], a)}

LEMMA DeleteFact ==
    ASSUME NEW o \in 1..10, NEW a
    PROVE  Fact(Calls["delete"][o][1], Calls["delete"][o][2], a) =
             IF o \in {1, 5} THEN <<"grant", a>>
             ELSE IF o = 2 THEN <<"flux", a>>
             ELSE IF o = 6 THEN <<"krbkeys", a>>
             ELSE IF o \in {3, 7} THEN <<"member", a>>
             ELSE IF o \in {4, 8} THEN <<"mark", a>>
             ELSE IF o = 9 THEN <<"repo", None>>
             ELSE <<"address", None>>
  BY DeleteTable DEF Fact

LEMMA DeleteEffect ==
    ASSUME NEW job, NEW a, Effect(job, a), job.kind = "delete", job.at \in 1..10
    PROVE  facts' = Without(facts, job.at, a)
  <1>1. Calls[job.kind][job.at][1] # "create"
    BY DeleteTable
  <1>2. Calls[job.kind][job.at][1] = "grant" <=> job.at \in {1, 5}
    BY DeleteTable
  <1> QED BY <1>1, <1>2 DEF Effect, Without, services

(* A call of Update that is not for an account: what it adds fits, and is  *)
(* what the next call relies on.                                           *)
LEMMA UpdateCalled ==
    ASSUME NEW st, NEW fs, NEW fs1, NEW o \in 1..13, NEW a, Fits(st, fs), UpdateStage(st, fs, o, a),
           o \notin {2, 7},
           fs1 = fs \cup {Fact(Calls["update"][o][1], Calls["update"][o][2], a)}
    PROVE  /\ Fits(st, fs1)
           /\ o \notin {6, 10} => UpdatePast(st, fs1, o + 1, a)
           /\ o = 6 => st[Uuid("flux")] = a /\ a # None /\ Needs("flux", a) \subseteq fs1
                       /\ ~st[Ready_] /\ <<"address", None>> \in fs1
           /\ o = 10 => st[Uuid("krbkeys")] = a /\ a # None /\ Needs("krbkeys", a) \subseteq fs1
                        /\ ~st[Ready_] /\ <<"address", None>> \in fs1 /\ st[Done("flux")]
           /\ o = 13 => <<"push", version>> \in fs1
  <1>1. PICK x, b : <<x, b>> = Fact(Calls["update"][o][1], Calls["update"][o][2], a)
    BY DEF Fact
  <1>2. Role = {"flux", "krbkeys"}
    BY DEF Role
  <1>3. Fits(st, fs1)
    <2> DEFINE w == Fact(Calls["update"][o][1], Calls["update"][o][2], a)
    <2>0. x = w[1] /\ b = w[2]
      BY <1>1
    <2>1. /\ x = "flux" => o = 6 /\ b = a
          /\ x = "krbkeys" => o = 10 /\ b = a
          /\ x = "member" => o \in {5, 9} /\ b = a
      BY <2>0, UpdateFact
    <2>2. /\ o \in {4, 5, 6} => a = st[Uuid("flux")]
          /\ o \in {9, 10} => a = st[Uuid("krbkeys")]
      BY DEF UpdateStage, UpdatePast
    <2>3. x \in Role => st[Uuid(x)] = b
      <3>1. x = "flux" => st[Uuid(x)] = b
        BY <2>1, <2>2
      <3>2. x = "krbkeys" => st[Uuid(x)] = b
        BY <2>1, <2>2
      <3> QED BY <1>2, <3>1, <3>2
    <2>4. x = "member" => \E r \in Role : st[Uuid(r)] = b
      BY <1>2, <2>1, <2>2
    <2> QED BY <1>1, <2>3, <2>4, FactAdded
  <1>4. o \notin {6, 10} => UpdatePast(st, fs1, o + 1, a)
    BY UpdateFact DEF UpdateStage, UpdatePast
  <1>5. o = 6 => /\ st[Uuid("flux")] = a /\ a # None /\ Needs("flux", a) \subseteq fs1
                 /\ ~st[Ready_] /\ <<"address", None>> \in fs1
    BY UpdateFact DEF UpdateStage, UpdatePast, Needs
  <1>6. o = 10 => /\ st[Uuid("krbkeys")] = a /\ a # None /\ Needs("krbkeys", a) \subseteq fs1
                  /\ ~st[Ready_] /\ <<"address", None>> \in fs1 /\ st[Done("flux")]
    BY UpdateFact DEF UpdateStage, UpdatePast, Needs
  <1>7. o = 13 => <<"push", version>> \in fs1
    BY UpdateFact
  <1> QED BY <1>3, <1>4, <1>5, <1>6, <1>7

LEMMA DeleteCalled ==
    ASSUME NEW st, NEW fs, NEW fs1, NEW o \in 1..10, NEW a, Fits(st, fs), DeleteStage(st, fs, o, a),
           fs1 = Without(fs, o, a)
    PROVE  /\ Fits(st, fs1)
           /\ o \notin {4, 8} => DeletePast(st, fs1, o + 1, a)
           /\ o = 4 => /\ st[Uuid("flux")] = a /\ a # None
                       /\ {<<"flux", a>>, <<"member", a>>} \cap fs1 = {}
           /\ o = 8 => /\ st[Uuid("krbkeys")] = a /\ a # None /\ st[Uuid("flux")] = None
                       /\ {<<"krbkeys", a>>, <<"member", a>>} \cap fs1 = {}
  <1> DEFINE fact == Fact(Calls["delete"][o][1], Calls["delete"][o][2], a)
  <1>1. Role = {"flux", "krbkeys"}
    BY DEF Role
  <1>2. \A s \in Role : st[Done(s)] => fact \notin Needs(s, st[Uuid(s)])
    <2>1. CASE o \in 1..8
      <3>1. PICK r \in Role : a = st[Uuid(r)] /\ a # None /\ ~st[Done(r)]
        BY <1>1, <2>1 DEF DeleteStage, DeletePast
      <3>2. PICK x : fact = <<x, a>>
        BY <2>1, DeleteFact
      <3> QED BY <3>1, <3>2, OwnFact
    <2>2. CASE o \in 9..10
      <3>1. fact[1] \in {"repo", "address"}
        BY <2>2, DeleteFact
      <3>2. \A s \in Role : \A b : \A f \in Needs(s, b) : f[1] \notin {"repo", "address"}
        BY <1>1 DEF Needs
      <3> QED BY <3>1, <3>2
    <2> QED BY <2>1, <2>2
  <1>3. Fits(st, fs1)
    BY <1>2, FactRemoved DEF Without
  <1>4. o \notin {4, 8} => DeletePast(st, fs1, o + 1, a)
    <2>1. CASE o \in {1, 5}
      BY <2>1 DEF DeleteStage, DeletePast, Without
    <2>2. CASE o \notin {1, 5}
      BY <2>2, DeleteFact DEF DeleteStage, DeletePast, Without
    <2> QED BY <2>1, <2>2
  <1>5. o = 4 => /\ st[Uuid("flux")] = a /\ a # None
                 /\ {<<"flux", a>>, <<"member", a>>} \cap fs1 = {}
    BY DeleteFact DEF DeleteStage, DeletePast, Without
  <1>6. o = 8 => /\ st[Uuid("krbkeys")] = a /\ a # None /\ st[Uuid("flux")] = None
                 /\ {<<"krbkeys", a>>, <<"member", a>>} \cap fs1 = {}
    BY DeleteFact DEF DeleteStage, DeletePast, Without
  <1> QED BY <1>3, <1>4, <1>5, <1>6

(* Which call an action makes next, and for which account.                 *)
LEMMA UpdateOnward ==
    ASSUME NEW st, NEW st1, NEW fs, NEW p \in 1..14, NEW q \in p..14, NEW a, NEW b,
           UpdatePast(st1, fs, p, a), NextCall("update", st, p, q),
           p = 2 => \A r \in Role : st1[Uuid(r)] = st[Uuid(r)] /\ st1[Done(r)] = st[Done(r)],
           p = 7 => /\ st1[Uuid("krbkeys")] = st[Uuid("krbkeys")]
                    /\ st1[Done("krbkeys")] = st[Done("krbkeys")],
           Fits(st1, fs),
           Entered("update", p, q) => b = st[Uuid(Calls["update"][q][2])],
           ~Entered("update", p, q) => b = a
    PROVE  UpdateStage(st1, fs, q, b) /\ (q = 14 => p = 14)
  <1>1. Entered("update", p, q) <=> (p <= 2 /\ q \in 2..6) \/ (p <= 7 /\ q \in 7..10)
    BY UpdateEntered
  <1>2. /\ q \in 2..6 => Calls["update"][q][2] = "flux"
        /\ q \in 7..10 => Calls["update"][q][2] = "krbkeys"
    BY UpdateTable
  <1>3. CASE p \notin {2, 7}
    <2>1. q = p
      BY <1>3, UpdateNext
    <2>2. b = a
      BY <1>1, <1>3, <2>1
    <2> QED BY <1>3, <2>1, <2>2 DEF UpdateStage
  <1>4. CASE p = 7
    <2>1. KrbNext(st, q)
      BY <1>4, UpdateNext
    <2>2. st1[Done("krbkeys")] => q = 11
      BY <1>4, <2>1 DEF KrbNext
    <2>3. ~st1[Done("krbkeys")] => /\ q = IF st1[Uuid("krbkeys")] = None THEN 7 ELSE 8
                                   /\ b = st1[Uuid("krbkeys")]
      BY <1>1, <1>2, <1>4, <2>1 DEF KrbNext
    <2> QED BY <1>4, <2>2, <2>3 DEF UpdateStage, UpdatePast
  <1>5. CASE p = 2
    <2>1. FluxNext(st, q) /\ "flux" \in Role /\ "krbkeys" \in Role
      BY <1>5, UpdateNext DEF Role
    <2>2. ~st1[Done("flux")] => /\ q = IF st1[Uuid("flux")] = None THEN 2 ELSE 3
                                /\ b = st1[Uuid("flux")]
      BY <1>1, <1>2, <1>5, <2>1 DEF FluxNext
    <2>3. st1[Done("flux")] /\ st1[Done("krbkeys")] => q = 11
      BY <1>5, <2>1 DEF FluxNext
    <2>4. st1[Done("flux")] /\ ~st1[Done("krbkeys")] =>
             /\ q = IF st1[Uuid("krbkeys")] = None THEN 7 ELSE 8
             /\ b = st1[Uuid("krbkeys")]
      BY <1>1, <1>2, <1>5, <2>1 DEF FluxNext
    <2> QED BY <1>5, <2>2, <2>3, <2>4 DEF UpdateStage, UpdatePast
  <1> QED BY <1>3, <1>4, <1>5

LEMMA DeleteOnward ==
    ASSUME NEW st, NEW st1, NEW st2, NEW fs, NEW p \in 1..11, NEW q \in p..11, NEW a, NEW b,
           DeletePast(st1, fs, p, a), NextCall("delete", st, p, q),
           p = 1 => \A r \in Role : st1[Uuid(r)] = st[Uuid(r)],
           p = 5 => st1[Uuid("krbkeys")] = st[Uuid("krbkeys")],
           \A r \in Role : st2[Uuid(r)] = st1[Uuid(r)] /\ (st2[Done(r)] => st1[Done(r)]),
           Entered("delete", p, q) => /\ b = st[Uuid(Calls["delete"][q][2])]
                                      /\ ~st2[Done(Calls["delete"][q][2])],
           ~Entered("delete", p, q) => b = a
    PROVE  DeleteStage(st2, fs, q, b) /\ (q = 11 => p = 11)
  <1>1. Entered("delete", p, q) <=> (p <= 1 /\ q \in 1..4) \/ (p <= 5 /\ q \in 5..8)
    BY DeleteEntered
  <1>2. /\ q \in 1..4 => Calls["delete"][q][2] = "flux"
        /\ q \in 5..8 => Calls["delete"][q][2] = "krbkeys"
    BY DeleteTable
  <1>3. /\ st2[Uuid("flux")] = st1[Uuid("flux")] /\ (st2[Done("flux")] => st1[Done("flux")])
        /\ st2[Uuid("krbkeys")] = st1[Uuid("krbkeys")]
        /\ (st2[Done("krbkeys")] => st1[Done("krbkeys")])
    BY DEF Role
  <1>4. CASE p \notin {1, 5}
    <2>1. q = p
      BY <1>4, DeleteNext
    <2>2. b = a
      BY <1>1, <1>4, <2>1
    <2> QED BY <1>3, <1>4, <2>1, <2>2 DEF DeleteStage, DeletePast
  <1>5. CASE p = 5
    <2>1. q = IF st1[Uuid("krbkeys")] # None THEN 5 ELSE 9
      BY <1>5, DeleteNext
    <2>2. q = 5 => b = st2[Uuid("krbkeys")] /\ ~st2[Done("krbkeys")]
      BY <1>1, <1>2, <1>3, <1>5
    <2> QED BY <1>3, <1>5, <2>1, <2>2 DEF DeleteStage, DeletePast
  <1>6. CASE p = 1
    <2>1. q = IF st1[Uuid("flux")] # None THEN 1
              ELSE IF st1[Uuid("krbkeys")] # None THEN 5 ELSE 9
      BY <1>6, DeleteNext DEF Role
    <2>2. q = 1 => b = st2[Uuid("flux")] /\ ~st2[Done("flux")]
      BY <1>1, <1>2, <1>3, <1>6 DEF Role
    <2>3. q = 5 => b = st2[Uuid("krbkeys")] /\ ~st2[Done("krbkeys")]
      BY <1>1, <1>2, <1>3, <1>6 DEF Role
    <2> QED BY <1>3, <1>6, <2>1, <2>2, <2>3 DEF DeleteStage, DeletePast
  <1> QED BY <1>4, <1>5, <1>6
-----------------------------------------------------------------------------
(* What a call leaves, with what the action records of it.                 *)
LEMMA PatchMade ==
    ASSUME NEW n \in Nat, NEW st \in Statuses(n), NEW k \in Key, NEW v \in Values(k, n)
    PROVE  LET st1 == MergeAll(st, <<Patch(k, v)>>)
           IN  /\ st1 \in Statuses(n) /\ st1[k] = v
               /\ \A l \in Key : l # k => st1[l] = st[l]
  <1> DEFINE p == Patch(k, v)
  <1>1. p \in Patches(n) /\ DOMAIN p = {k} /\ p[k] = v
    BY PatchTyped
  <1>2. MergeAll(st, <<p>>) = Merge(st, p)
    BY <1>1, MergeAllOne
  <1>3. st # Nothing
    BY SomeThings
  <1> HIDE DEF p
  <1>4. Merge(st, p) \in Statuses(n)
        /\ \A l \in Key : Merge(st, p)[l] = IF l \in DOMAIN p THEN p[l] ELSE st[l]
    BY <1>1, <1>3, Merged
  <1>5. Merge(st, p) \in Statuses(n) /\ Merge(st, p)[k] = v
        /\ \A l \in Key : l # k => Merge(st, p)[l] = st[l]
    BY <1>1, <1>4
  <1> QED BY <1>2, <1>5 DEF p

LEMMA ForgottenMade ==
    ASSUME NEW n \in Nat, NEW st \in Statuses(n), NEW r \in Role
    PROVE  LET st1 == MergeAll(st, <<Forgotten(r)>>)
           IN  /\ st1 \in Statuses(n) /\ st1[Uuid(r)] = None /\ ~st1[Done(r)]
               /\ \A l \in Key : l \notin {Uuid(r), Done(r)} => st1[l] = st[l]
  <1> DEFINE p == Forgotten(r)
  <1>1. p \in Patches(n)
    BY PatchesTyped
  <1>2. /\ DOMAIN p = {Uuid(r), Done(r)} /\ p[Uuid(r)] = None /\ p[Done(r)] = FALSE
        /\ Uuid(r) \in Key /\ Done(r) \in Key
    BY KeysApart DEF Forgotten
  <1>3. MergeAll(st, <<p>>) = Merge(st, p)
    BY <1>1, MergeAllOne
  <1>4. st # Nothing
    BY SomeThings
  <1> HIDE DEF p
  <1>5. Merge(st, p) \in Statuses(n)
        /\ \A l \in Key : Merge(st, p)[l] = IF l \in DOMAIN p THEN p[l] ELSE st[l]
    BY <1>1, <1>4, Merged
  <1>6. /\ Merge(st, p) \in Statuses(n) /\ Merge(st, p)[Uuid(r)] = None /\ ~Merge(st, p)[Done(r)]
        /\ \A l \in Key : l \notin {Uuid(r), Done(r)} => Merge(st, p)[l] = st[l]
    BY <1>2, <1>5
  <1> QED BY <1>3, <1>6 DEF p

LEMMA UpdateWrites ==
    ASSUME NEW o \in 1..13, NEW a
    PROVE  LET ps == Written("update", Calls["update"][o][1], Calls["update"][o][2], a)
           IN  /\ o = 2 => ps = <<Patch(Uuid("flux"), a)>>
               /\ o = 7 => ps = <<Patch(Uuid("krbkeys"), a)>>
               /\ o = 6 => ps = <<Patch(Done("flux"), TRUE)>>
               /\ o = 10 => ps = <<Patch(Done("krbkeys"), TRUE)>>
               /\ o \notin {2, 6, 7, 10} => ps = <<>>
  <1> DEFINE call == Calls["update"][o][1]
             r == Calls["update"][o][2]
  <1>1. /\ call = "create" <=> o \in {2, 7}
        /\ call = "identity" <=> o \in {6, 10}
        /\ r = IF o \in 2..6 THEN "flux" ELSE IF o \in 7..10 THEN "krbkeys" ELSE "cluster"
    BY UpdateTable
  <1> HIDE DEF call, r
  <1>2. Written("update", call, r, a) =
          IF call = "create" THEN <<Patch(Uuid(r), a)>>
          ELSE IF call = "identity" THEN <<Patch(Done(r), TRUE)>> ELSE <<>>
    <2>1. CASE call = "create"
      BY <2>1 DEF Written
    <2>2. CASE call = "identity"
      BY <2>2 DEF Written
    <2>3. CASE call \notin {"create", "identity"}
      BY <2>3 DEF Written
    <2> QED BY <2>1, <2>2, <2>3
  <1>3. o = 2 => Written("update", call, r, a) = <<Patch(Uuid("flux"), a)>>
    BY <1>1, <1>2
  <1>4. o = 7 => Written("update", call, r, a) = <<Patch(Uuid("krbkeys"), a)>>
    BY <1>1, <1>2
  <1>5. o = 6 => Written("update", call, r, a) = <<Patch(Done("flux"), TRUE)>>
    <2>1. o = 6 => call # "create" /\ call = "identity" /\ r = "flux"
      BY <1>1
    <2> QED BY <1>2, <2>1
  <1>6. o = 10 => Written("update", call, r, a) = <<Patch(Done("krbkeys"), TRUE)>>
    <2>1. o = 10 => call # "create" /\ call = "identity" /\ r = "krbkeys"
      BY <1>1
    <2> QED BY <1>2, <2>1
  <1>7. o \notin {2, 6, 7, 10} => Written("update", call, r, a) = <<>>
    <2>1. o \notin {2, 6, 7, 10} => call # "create" /\ call # "identity"
      BY <1>1
    <2> QED BY <1>2, <2>1
  <1> QED BY <1>3, <1>4, <1>5, <1>6, <1>7 DEF call, r

LEMMA DeleteWrites ==
    ASSUME NEW o \in 1..10, NEW a
    PROVE  Written("delete", Calls["delete"][o][1], Calls["delete"][o][2], a) =
             IF o = 4 THEN <<Forgotten("flux")>>
             ELSE IF o = 8 THEN <<Forgotten("krbkeys")>>
             ELSE <<>>
  <1> DEFINE call == Calls["delete"][o][1]
             r == Calls["delete"][o][2]
  <1>1. /\ call = "mark" <=> o \in {4, 8}
        /\ r = IF o \in 1..4 THEN "flux" ELSE IF o \in 5..8 THEN "krbkeys" ELSE "cluster"
    BY DeleteTable
  <1> HIDE DEF call, r
  <1>2. Written("delete", call, r, a) = IF call = "mark" THEN <<Forgotten(r)>> ELSE <<>>
    <2>1. CASE call = "mark"
      BY <2>1 DEF Written
    <2>2. CASE call # "mark"
      BY <2>2 DEF Written
    <2> QED BY <2>1, <2>2
  <1>3. Written("delete", call, r, a) = IF o = 4 THEN <<Forgotten("flux")>>
             ELSE IF o = 8 THEN <<Forgotten("krbkeys")>>
             ELSE <<>>
    BY <1>1, <1>2
  <1> QED BY <1>3 DEF call, r

(* The call at o takes the status from st to st1 and what is known from fs *)
(* to fs1.  The action had the account a, and now has a1.                  *)
Updates(n, m, st, st1, fs, fs1, o, a, a1) ==
    /\ n \in Nat /\ m \in Nat /\ n <= m /\ st \in Statuses(n) /\ o \in 1..13 /\ a1 \in 0..m
    /\ Fits(st, fs) /\ UpdateStage(st, fs, o, a)
    /\ o \in {2, 7} => n < a1 /\ fs1 = fs
    /\ o \notin {2, 7} =>
          a1 = a /\ fs1 = fs \cup {Fact(Calls["update"][o][1], Calls["update"][o][2], a)}
    /\ st1 = MergeAll(st, Written("update", Calls["update"][o][1], Calls["update"][o][2], a1))

Deletes(n, st, st1, fs, fs1, o, a) ==
    /\ n \in Nat /\ st \in Statuses(n) /\ o \in 1..10
    /\ Fits(st, fs) /\ DeleteStage(st, fs, o, a)
    /\ fs1 = Without(fs, o, a)
    /\ st1 = MergeAll(st, Written("delete", Calls["delete"][o][1], Calls["delete"][o][2], a))

LEMMA UpdateReaches ==
    ASSUME NEW n, NEW m, NEW st, NEW st1, NEW fs, NEW fs1, NEW o, NEW a, NEW a1,
           Updates(n, m, st, st1, fs, fs1, o, a, a1)
    PROVE  /\ Fits(st1, fs1) /\ UpdatePast(st1, fs1, o + 1, a1) /\ st1 \in Statuses(m)
           /\ o = 1 => st1 = st
           /\ o = 6 => /\ st1[Uuid("krbkeys")] = st[Uuid("krbkeys")]
                       /\ st1[Done("krbkeys")] = st[Done("krbkeys")]
           /\ o = 13 => <<"push", version>> \in fs1
  <1> USE DEF Updates
  <1>0. /\ "flux" \in Role /\ "krbkeys" \in Role /\ Role = {"flux", "krbkeys"}
        /\ \A r \in Role : Uuid(r) \in Key /\ Done(r) \in Key /\ Uuid(r) # Ready_ /\ Done(r) # Ready_
        /\ \A r, s \in Role : Uuid(r) # Done(s) /\ (r # s => Uuid(r) # Uuid(s) /\ Done(r) # Done(s))
        /\ Ready_ \in Key
    BY KeysApart
  <1>1. st \in Statuses(m) /\ \A r \in Role : st[Uuid(r)] \in 0..n
    <2>1. \A r \in Role : Values(Uuid(r), n) = 0..n
      BY KeysApart DEF Values
    <2> QED BY <1>0, <2>1, StatusesGrow DEF Statuses
  <1>2. ASSUME NEW r \in Role, ~st[Ready_], st[Uuid(r)] = None, ~st[Done(r)], n < a1, fs1 = fs,
               st1 = MergeAll(st, <<Patch(Uuid(r), a1)>>)
        PROVE  /\ st1 \in Statuses(m) /\ Fits(st1, fs1) /\ ~st1[Ready_]
               /\ st1[Uuid(r)] = a1 /\ a1 # None /\ st1[Done(r)] = st[Done(r)]
               /\ \A s \in Role \ {r} : st1[Done(s)] = st[Done(s)]
    <2>1. a1 \in Values(Uuid(r), m)
      BY KeysApart DEF Values
    <2>2. /\ st1 \in Statuses(m) /\ st1[Uuid(r)] = a1
          /\ \A l \in Key : l # Uuid(r) => st1[l] = st[l]
      BY <1>0, <1>1, <1>2, <2>1, PatchMade
    <2>3. a1 # None /\ \A s \in Role : st[Uuid(s)] # a1
      BY <1>1, <1>2 DEF None
    <2>4. /\ ~st1[Done(r)] /\ st1[Ready_] = st[Ready_]
          /\ \A s \in Role \ {r} : st1[Uuid(s)] = st[Uuid(s)] /\ st1[Done(s)] = st[Done(s)]
      BY <1>0, <1>2, <2>2
    <2>5. Fits(st1, fs)
      BY <1>2, <2>2, <2>3, <2>4, AccountAdded
    <2> QED BY <1>0, <1>2, <2>2, <2>3, <2>4, <2>5
  <1>3. ASSUME NEW r \in Role, Fits(st, fs1), st[Uuid(r)] = a, a # None, Needs(r, a) \subseteq fs1,
               ~st[Ready_], st1 = MergeAll(st, <<Patch(Done(r), TRUE)>>)
        PROVE  /\ st1 \in Statuses(m) /\ Fits(st1, fs1) /\ ~st1[Ready_] /\ st1[Done(r)]
               /\ \A s \in Role : st1[Uuid(s)] = st[Uuid(s)]
               /\ \A s \in Role \ {r} : st1[Done(s)] = st[Done(s)]
    <2>1. TRUE \in Values(Done(r), m)
      <3>1. Values(Done(r), m) = BOOLEAN
        BY KeysApart DEF Values
      <3> QED BY <3>1
    <2>2. /\ st1 \in Statuses(m) /\ st1[Done(r)] = TRUE
          /\ \A l \in Key : l # Done(r) => st1[l] = st[l]
      <3>1. Done(r) \in Key /\ st \in Statuses(m)
        BY <1>0, <1>1
      <3> DEFINE v == TRUE
      <3>2. v \in Values(Done(r), m) /\ st1 = MergeAll(st, <<Patch(Done(r), v)>>)
        BY <1>3, <2>1
      <3> HIDE DEF v
      <3>3. /\ st1 \in Statuses(m) /\ st1[Done(r)] = v
            /\ \A l \in Key : l # Done(r) => st1[l] = st[l]
        BY <3>1, <3>2, PatchMade
      <3> QED BY <3>3 DEF v
    <2>3. /\ st1[Ready_] = st[Ready_]
          /\ \A s \in Role : st1[Uuid(s)] = st[Uuid(s)]
          /\ \A s \in Role \ {r} : st1[Done(s)] = st[Done(s)]
      BY <1>0, <2>2
    <2>4. Fits(st1, fs1)
      BY <1>3, <2>3, RoleDone
    <2> QED BY <1>3, <2>2, <2>3, <2>4
  <1>4. CASE o = 2
    <2>1. st1 = MergeAll(st, <<Patch(Uuid("flux"), a1)>>)
      BY <1>4, UpdateWrites
    <2>2. ~st[Ready_] /\ st[Uuid("flux")] = None /\ ~st[Done("flux")] /\ <<"address", None>> \in fs
      BY <1>4 DEF UpdateStage, UpdatePast
    <2>3. /\ st1 \in Statuses(m) /\ Fits(st1, fs1) /\ ~st1[Ready_]
          /\ st1[Uuid("flux")] = a1 /\ a1 # None /\ ~st1[Done("flux")]
      BY <1>0, <1>2, <1>4, <2>1, <2>2
    <2> QED BY <1>4, <2>2, <2>3 DEF UpdatePast
  <1>5. CASE o = 7
    <2>1. st1 = MergeAll(st, <<Patch(Uuid("krbkeys"), a1)>>)
      BY <1>5, UpdateWrites
    <2>2. /\ ~st[Ready_] /\ st[Uuid("krbkeys")] = None /\ ~st[Done("krbkeys")]
          /\ <<"address", None>> \in fs /\ st[Done("flux")]
      BY <1>5 DEF UpdateStage, UpdatePast
    <2>3. /\ st1 \in Statuses(m) /\ Fits(st1, fs1) /\ ~st1[Ready_]
          /\ st1[Uuid("krbkeys")] = a1 /\ a1 # None /\ ~st1[Done("krbkeys")] /\ st1[Done("flux")]
      BY <1>0, <1>2, <1>5, <2>1, <2>2
    <2> QED BY <1>5, <2>2, <2>3 DEF UpdatePast
  <1>6. CASE o = 6
    <2>1. st1 = MergeAll(st, <<Patch(Done("flux"), TRUE)>>)
      <3>1. Written("update", Calls["update"][o][1], Calls["update"][o][2], a1)
              = <<Patch(Done("flux"), TRUE)>>
        BY <1>6, UpdateWrites
      <3> QED BY <3>1
    <2>2. /\ Fits(st, fs1) /\ st[Uuid("flux")] = a /\ a # None /\ Needs("flux", a) \subseteq fs1
          /\ ~st[Ready_] /\ <<"address", None>> \in fs1
      <3>1. /\ o \notin {2, 7}
            /\ fs1 = fs \cup {Fact(Calls["update"][o][1], Calls["update"][o][2], a)}
        BY <1>6
      <3>2. /\ Fits(st, fs1)
            /\ o = 6 => st[Uuid("flux")] = a /\ a # None /\ Needs("flux", a) \subseteq fs1
                        /\ ~st[Ready_] /\ <<"address", None>> \in fs1
            /\ o = 10 => st[Uuid("krbkeys")] = a /\ a # None /\ Needs("krbkeys", a) \subseteq fs1
                         /\ ~st[Ready_] /\ <<"address", None>> \in fs1 /\ st[Done("flux")]
        BY <3>1, UpdateCalled
      <3> QED BY <1>6, <3>2
    <2>3. /\ st1 \in Statuses(m) /\ Fits(st1, fs1) /\ ~st1[Ready_] /\ st1[Done("flux")]
          /\ st1[Uuid("krbkeys")] = st[Uuid("krbkeys")]
          /\ st1[Done("krbkeys")] = st[Done("krbkeys")]
      BY <1>0, <1>3, <2>1, <2>2
    <2> QED BY <1>6, <2>2, <2>3 DEF UpdatePast
  <1>7. CASE o = 10
    <2>1. st1 = MergeAll(st, <<Patch(Done("krbkeys"), TRUE)>>)
      <3>1. Written("update", Calls["update"][o][1], Calls["update"][o][2], a1)
              = <<Patch(Done("krbkeys"), TRUE)>>
        BY <1>7, UpdateWrites
      <3> QED BY <3>1
    <2>2. /\ Fits(st, fs1) /\ st[Uuid("krbkeys")] = a /\ a # None /\ Needs("krbkeys", a) \subseteq fs1
          /\ ~st[Ready_] /\ <<"address", None>> \in fs1 /\ st[Done("flux")]
      <3>1. /\ o \notin {2, 7}
            /\ fs1 = fs \cup {Fact(Calls["update"][o][1], Calls["update"][o][2], a)}
        BY <1>7
      <3>2. /\ Fits(st, fs1)
            /\ o = 6 => st[Uuid("flux")] = a /\ a # None /\ Needs("flux", a) \subseteq fs1
                        /\ ~st[Ready_] /\ <<"address", None>> \in fs1
            /\ o = 10 => st[Uuid("krbkeys")] = a /\ a # None /\ Needs("krbkeys", a) \subseteq fs1
                         /\ ~st[Ready_] /\ <<"address", None>> \in fs1 /\ st[Done("flux")]
        BY <3>1, UpdateCalled
      <3> QED BY <1>7, <3>2
    <2>3. /\ st1 \in Statuses(m) /\ Fits(st1, fs1) /\ ~st1[Ready_] /\ st1[Done("krbkeys")]
          /\ st1[Done("flux")]
      BY <1>0, <1>3, <2>1, <2>2
    <2> QED BY <1>7, <2>2, <2>3 DEF UpdatePast
  <1>8. CASE o \notin {2, 6, 7, 10}
    <2>1. Written("update", Calls["update"][o][1], Calls["update"][o][2], a1) = <<>>
      BY <1>8, UpdateWrites
    <2>2. st1 = st
      BY <2>1, MergeAllNone
    <2>3. Fits(st, fs1) /\ UpdatePast(st, fs1, o + 1, a) /\ (o = 13 => <<"push", version>> \in fs1)
      <3>1. /\ o \notin {2, 7} /\ o \in 1..13 /\ Fits(st, fs) /\ UpdateStage(st, fs, o, a)
            /\ fs1 = fs \cup {Fact(Calls["update"][o][1], Calls["update"][o][2], a)}
        BY <1>8
      <3>2. /\ Fits(st, fs1) /\ (o \notin {6, 10} => UpdatePast(st, fs1, o + 1, a))
            /\ o = 13 => <<"push", version>> \in fs1
        <4> DEFINE q == o + 1
        <4> HIDE DEF Updates, q
        <4>1. Fits(st, fs1) /\ (o \notin {6, 10} => UpdatePast(st, fs1, o + 1, a))
          BY SMTT(30), <3>1, UpdateCalled
        <4>2. o = 13 => <<"push", version>> \in fs1
          BY <3>1, UpdateFact
        <4> QED BY <4>1, <4>2
      <3> QED BY <1>8, <3>2
    <2> QED BY <1>1, <1>8, <2>2, <2>3
  <1> QED BY <1>4, <1>5, <1>6, <1>7, <1>8

LEMMA DeleteReaches ==
    ASSUME NEW n, NEW st, NEW st1, NEW fs, NEW fs1, NEW o, NEW a,
           Deletes(n, st, st1, fs, fs1, o, a)
    PROVE  /\ Fits(st1, fs1) /\ DeletePast(st1, fs1, o + 1, a) /\ st1 \in Statuses(n)
           /\ o = 4 => st1[Uuid("krbkeys")] = st[Uuid("krbkeys")]
  <1> USE DEF Deletes
  <1>0. /\ "flux" \in Role /\ "krbkeys" \in Role /\ Role = {"flux", "krbkeys"}
        /\ \A r \in Role : Uuid(r) \in Key /\ Done(r) \in Key
        /\ \A r, s \in Role : Uuid(r) # Done(s) /\ (r # s => Uuid(r) # Uuid(s) /\ Done(r) # Done(s))
    BY KeysApart
  <1>1. ASSUME NEW r \in Role, Fits(st, fs1), st[Uuid(r)] = a, a # None,
               {<<r, a>>, <<"member", a>>} \cap fs1 = {},
               st1 = MergeAll(st, <<Forgotten(r)>>)
        PROVE  /\ st1 \in Statuses(n) /\ Fits(st1, fs1) /\ st1[Uuid(r)] = None
               /\ \A s \in Role \ {r} : st1[Uuid(s)] = st[Uuid(s)]
    <2>1. /\ st1 \in Statuses(n) /\ st1[Uuid(r)] = None /\ ~st1[Done(r)]
          /\ \A l \in Key : l \notin {Uuid(r), Done(r)} => st1[l] = st[l]
      BY <1>1, ForgottenMade
    <2>2. \A s \in Role \ {r} : st1[Uuid(s)] = st[Uuid(s)] /\ st1[Done(s)] = st[Done(s)]
      BY <1>0, <2>1
    <2>3. Fits(st1, fs1)
      BY <1>1, <2>1, <2>2, RoleForgotten
    <2> QED BY <2>1, <2>2, <2>3
  <1>2. CASE o = 4
    <2>1. st1 = MergeAll(st, <<Forgotten("flux")>>)
      BY <1>2, DeleteWrites
    <2>2. /\ Fits(st, fs1) /\ st[Uuid("flux")] = a /\ a # None
          /\ {<<"flux", a>>, <<"member", a>>} \cap fs1 = {}
      BY <1>2, DeleteCalled
    <2>3. /\ st1 \in Statuses(n) /\ Fits(st1, fs1) /\ st1[Uuid("flux")] = None
          /\ st1[Uuid("krbkeys")] = st[Uuid("krbkeys")]
      BY <1>0, <1>1, <2>1, <2>2
    <2> QED BY <1>2, <2>3 DEF DeletePast
  <1>3. CASE o = 8
    <2>1. st1 = MergeAll(st, <<Forgotten("krbkeys")>>)
      BY <1>3, DeleteWrites
    <2>2. /\ Fits(st, fs1) /\ st[Uuid("krbkeys")] = a /\ a # None /\ st[Uuid("flux")] = None
          /\ {<<"krbkeys", a>>, <<"member", a>>} \cap fs1 = {}
      BY <1>3, DeleteCalled
    <2>3. /\ st1 \in Statuses(n) /\ Fits(st1, fs1) /\ st1[Uuid("krbkeys")] = None
          /\ st1[Uuid("flux")] = None
      BY <1>0, <1>1, <2>1, <2>2
    <2> QED BY <1>3, <2>3 DEF DeletePast
  <1>4. CASE o \notin {4, 8}
    <2>1. Written("delete", Calls["delete"][o][1], Calls["delete"][o][2], a) = <<>>
      BY <1>4, DeleteWrites
    <2>2. st1 = st
      BY <2>1, MergeAllNone
    <2>3. Fits(st, fs1) /\ DeletePast(st, fs1, o + 1, a)
      <3>1. Fits(st, fs1) /\ (o \notin {4, 8} => DeletePast(st, fs1, o + 1, a))
        BY DeleteCalled
      <3> QED BY <1>4, <3>1
    <2> QED BY <1>4, <2>2, <2>3
  <1> QED BY <1>2, <1>3, <1>4
-----------------------------------------------------------------------------
(* What holds unless an action met another or patches were lost.           *)
Stage(kind, st, fs, p, a) ==
    IF kind = "update" THEN UpdateStage(st, fs, p, a) ELSE DeleteStage(st, fs, p, a)

Past(kind, st, fs, p, a) ==
    IF kind = "update" THEN UpdatePast(st, fs, p, a) ELSE DeletePast(st, fs, p, a)

(* One action is at work, and it sees the status.                          *)
Alone ==
    /\ jobs["stray"] = Nothing
    /\ jobs["current"] # Nothing => status # Nothing /\ View(jobs["current"]) = status

(* What it relies on has been done.                                        *)
Working ==
    LET job == jobs["current"]
    IN  job # Nothing => Stage(job.kind, status, facts, job.at, job.acct)

Fitting == IF status = Nothing THEN Bare(facts) ELSE Fits(status, facts)

(* A cluster that is ready and lacks something is being removed, or was    *)
(* when the process ended.  In that case it has a saved status, and cannot *)
(* be added again before that has gone.                                    *)
Half ==
    IsReady /\ ~SetUp =>
        Removing \/ (~cluster /\ stored # Nothing /\ Nothing \notin Range(queue))

Way == ~crossed /\ ~lost => Alone /\ Working /\ Fitting /\ Half

(* Where an action of a kind gets in one step.                             *)
Reached(kind) ==
    /\ jobs'["stray"] = Nothing
    /\ \/ /\ kind = "update" /\ jobs'["current"] = Nothing
          /\ status' # Nothing /\ Fits(status', facts') /\ SetUp'
       \/ /\ kind = "delete" /\ jobs'["current"] = Nothing
          /\ status' = Nothing /\ Bare(facts')
       \/ /\ jobs'["current"] # Nothing /\ jobs'["current"].kind = kind
          /\ status' # Nothing /\ View(jobs["current"])' = status'
          /\ Fits(status', facts')
          /\ Stage(kind, status', facts', jobs'["current"].at, jobs'["current"].acct)

LEMMA ReachedWay ==
    ASSUME NEW kind \in {"update", "delete"}, Reached(kind)
    PROVE  Alone' /\ Working' /\ Fitting' /\ Half'
  <1>1. CASE /\ kind = "update" /\ jobs'["current"] = Nothing /\ jobs'["stray"] = Nothing
             /\ status' # Nothing /\ Fits(status', facts') /\ SetUp'
    BY <1>1 DEF Alone, Working, Fitting, Half
  <1>2. CASE /\ jobs'["current"] = Nothing /\ jobs'["stray"] = Nothing
             /\ status' = Nothing /\ Bare(facts')
    BY <1>2 DEF Alone, Working, Fitting, Half, IsReady
  <1>3. CASE /\ jobs'["stray"] = Nothing
             /\ jobs'["current"] # Nothing /\ jobs'["current"].kind = kind
             /\ status' # Nothing /\ View(jobs["current"])' = status'
             /\ Fits(status', facts')
             /\ Stage(kind, status', facts', jobs'["current"].at, jobs'["current"].acct)
    <2>1. Alone' /\ Working' /\ Fitting'
      BY <1>3 DEF Alone, Working, Fitting
    <2>2. CASE kind = "update"
      <3>1. ~status'[Ready_]
        BY <1>3, <2>2 DEF Stage, UpdateStage, UpdatePast
      <3> QED BY <2>1, <3>1 DEF Half, IsReady
    <2>3. CASE kind = "delete"
      <3>1. Removing'
        BY <1>3, <2>3 DEF Removing, Slot
      <3> QED BY <2>1, <3>1 DEF Half
    <2> QED BY <2>2, <2>3
  <1> QED BY <1>1, <1>2, <1>3 DEF Reached

(* What is said by the only action that is at work.                        *)
LEMMA SayAlone ==
    ASSUME NEW n \in Nat, NEW js, NEW job \in Jobs(n) \cup {Nothing},
           NEW ps \in Seq(Patches(n) \cup {Nothing}), job # Nothing => Nothing \notin Range(ps),
           js["stray"] = Nothing, Say(js, "current", job, ps),
           job # Nothing /\ ~job.live => MergeAll(job.own, ps) = MergeAll(status, ps)
    PROVE  /\ status' = MergeAll(status, ps) /\ jobs'["stray"] = Nothing
           /\ job = Nothing => jobs'["current"] = Nothing
           /\ job # Nothing =>
                /\ jobs'["current"] # Nothing /\ View(jobs["current"])' = status'
                /\ jobs'["current"].kind = job.kind /\ jobs'["current"].at = job.at
                /\ jobs'["current"].acct = job.acct
  <1> DEFINE mine == IF job = Nothing \/ job.live THEN job
                     ELSE [job EXCEPT !.own = MergeAll(job.own, ps)]
  <1>1. status' = MergeAll(status, ps)
    BY DEF Say
  <1>2. jobs'["stray"] = Nothing /\ jobs'["current"] = mine
    BY DEF Say, Slot
  <1>3. CASE job = Nothing
    BY <1>1, <1>2, <1>3
  <1>4. CASE job # Nothing /\ job.live
    <2>1. mine = job
      BY <1>4
    <2> QED BY <1>1, <1>2, <1>4, <2>1 DEF View
  <1>5. CASE job # Nothing /\ ~job.live
    <2>1. mine = [job EXCEPT !.own = MergeAll(job.own, ps)] /\ job \in Jobs(n)
      BY <1>5
    <2>2. /\ mine.kind = job.kind /\ mine.at = job.at /\ mine.acct = job.acct
          /\ mine.live = job.live /\ mine.own = MergeAll(job.own, ps)
      BY <2>1 DEF Jobs
    <2>3. mine # Nothing
      <3>1. job.own \in Statuses(n) /\ job.own # Nothing
        BY <2>1, SomeThings DEF Jobs
      <3>2. MergeAll(job.own, ps) \in Statuses(n)
        BY <1>5, <3>1, MergeAllTyped
      <3>3. mine \in Jobs(n)
        BY <2>1, <3>2 DEF Jobs
      <3> QED BY <3>3, SomeThings
    <2> QED BY <1>1, <1>2, <1>5, <2>2, <2>3 DEF View
  <1> QED BY <1>3, <1>4, <1>5

(* An action that goes on from p is at its next call, or has ended.        *)
LEMMA Proceeds ==
    ASSUME NEW n \in Nat, NEW js, NEW job \in Jobs(n), NEW p \in 1..End(job.kind),
           NEW ps \in Seq(Patches(n)), NEW st1 \in Statuses(n), version \in Version,
           status \in Statuses(n) \cup {Nothing}, job.live => status # Nothing,
           js["stray"] = Nothing, Advance(js, "current", job, p, ps),
           st1 = MergeAll(status, ps), ~job.live => MergeAll(job.own, ps) = st1,
           Fits(st1, facts'), Past(job.kind, st1, facts', p, job.acct),
           job.kind = "update" =>
             /\ p = 2 => \A r \in Role : /\ st1[Uuid(r)] = View(job)[Uuid(r)]
                                         /\ st1[Done(r)] = View(job)[Done(r)]
             /\ p = 7 => /\ st1[Uuid("krbkeys")] = View(job)[Uuid("krbkeys")]
                         /\ st1[Done("krbkeys")] = View(job)[Done("krbkeys")]
             /\ p = 14 => <<"push", version>> \in facts',
           job.kind = "delete" =>
             /\ p = 1 => \A r \in Role : st1[Uuid(r)] = View(job)[Uuid(r)]
             /\ p = 5 => st1[Uuid("krbkeys")] = View(job)[Uuid("krbkeys")]
    PROVE  Reached(job.kind)
  <1> DEFINE P == Patches(n) \cup {Nothing}
  <1>1. PICK q \in p..End(job.kind) :
             /\ NextCall(job.kind, View(job), p, q)
             /\ \/ Completes(n, js, "current", job, p, q, ps)
                \/ Drops(n, js, "current", job, p, q, ps)
                \/ Enters(n, js, "current", job, p, q, ps)
                \/ Continues(n, js, "current", job, p, q, ps)
    BY AdvanceWays
  <1>2. job.kind \in {"update", "delete"} /\ End("update") = 14 /\ End("delete") = 11
    BY Ends DEF Jobs
  <1>3. /\ ps \in Seq(P) /\ Nothing \notin Range(ps)
        /\ \A x \in Patches(n) : Append(ps, x) \in Seq(Patches(n))
        /\ \A qs \in Seq(Patches(n)) : qs \in Seq(P) /\ Nothing \notin Range(qs)
    BY ListTyped
  <1>4. st1 # Nothing /\ Nothing \in P
    BY SomeThings
  <1>5. /\ job.kind = "update" =>
             /\ UpdatePast(st1, facts', p, job.acct) /\ p \in 1..14 /\ q \in p..14
             /\ NextCall("update", View(job), p, q)
        /\ job.kind = "delete" =>
             /\ DeletePast(st1, facts', p, job.acct) /\ p \in 1..11 /\ q \in p..11
             /\ NextCall("delete", View(job), p, q)
    BY <1>1, <1>2 DEF Past
  <1>6. \A x, y : y \in P => MergeAll(x, Append(ps, y)) = Merge(MergeAll(x, ps), y)
    <2> HIDE DEF P
    <2> QED BY <1>3, MergeAllAppend
  <1>7. CASE Completes(n, js, "current", job, p, q, ps)
    <2> DEFINE qs == Append(ps, Completed)
    <2>1. /\ job.kind = "update" /\ q = 14 /\ qs \in Seq(Patches(n)) /\ qs \in Seq(P)
          /\ Say(js, "current", Nothing, qs)
      BY <1>2, <1>3, <1>7 DEF Completes
    <2>2. Completed \in Patches(n)
      BY PatchesTyped
    <2>3. status' = Merge(st1, Completed) /\ jobs'["stray"] = Nothing /\ jobs'["current"] = Nothing
      <3>1. MergeAll(status, qs) = Merge(st1, Completed)
        BY <1>6, <2>2
      <3> HIDE DEF qs
      <3>2. /\ status' = MergeAll(status, qs) /\ jobs'["stray"] = Nothing
            /\ jobs'["current"] = Nothing
        BY <2>1, SayAlone
      <3> QED BY <3>1, <3>2
    <2>5. p = 14
      BY <1>5, <2>1, UpdateNext DEF FluxNext, KrbNext
    <2>6. /\ st1[Done("flux")] /\ st1[Done("krbkeys")] /\ <<"push", version>> \in facts'
          /\ \A f \in {"address", "repo", "group"} : <<f, None>> \in facts'
      BY <1>5, <2>1, <2>5 DEF UpdatePast
    <2>7. /\ status' \in Statuses(n)
          /\ \A k \in Key : status'[k] = IF k \in {Ready_, Version_} THEN Completed[k] ELSE st1[k]
      <3>1. DOMAIN Completed = {Ready_, Version_}
        BY DEF Completed
      <3>2. /\ Merge(st1, Completed) \in Statuses(n)
            /\ \A k \in Key : Merge(st1, Completed)[k] =
                  IF k \in DOMAIN Completed THEN Completed[k] ELSE st1[k]
        BY <1>4, <2>2, Merged
      <3> QED BY <2>3, <3>1, <3>2
    <2>8. /\ \A r \in Role : status'[Uuid(r)] = st1[Uuid(r)] /\ status'[Done(r)] = st1[Done(r)]
          /\ status'[Version_] = version
      <3>1. Completed[Version_] = version
        BY KeysApart DEF Completed
      <3> QED BY <2>7, <3>1, KeysApart
    <2>9. Fits(status', facts')
      BY <2>8, SameRoles
    <2>10. SetUp'
      <3>1. \A r \in Role : Needs(r, status'[Uuid(r)]) \subseteq facts'
        BY <2>6, <2>8 DEF Fits, DoneHas, Role
      <3>2. \A r \in Role : {<<"info", status'[Uuid(r)]>>, <<"member", status'[Uuid(r)]>>,
                             <<r, status'[Uuid(r)]>>} \subseteq facts'
        BY <3>1 DEF Needs
      <3>3. <<"grant", status'[Uuid("flux")]>> \in facts'
        BY <3>1 DEF Needs, Role
      <3>4. <<"push", status'[Version_]>> \in facts'
        BY <2>6, <2>8
      <3> QED BY <2>6, <3>2, <3>3, <3>4 DEF SetUp
    <2>11. status' # Nothing
      BY <2>7, SomeThings
    <2> QED BY <2>1, <2>3, <2>9, <2>10, <2>11 DEF Reached
  <1>8. CASE Drops(n, js, "current", job, p, q, ps)
    <2> DEFINE qs == Append(ps, Nothing)
    <2>1. /\ job.kind = "delete" /\ q = 11 /\ qs \in Seq(P)
          /\ Say(js, "current", Nothing, qs)
      BY <1>2, <1>8 DEF Drops
    <2>2. status' = Nothing /\ jobs'["stray"] = Nothing /\ jobs'["current"] = Nothing
      <3>1. MergeAll(status, qs) = Merge(st1, Nothing) /\ Merge(st1, Nothing) = Nothing
        BY <1>4, <1>6 DEF Merge
      <3> HIDE DEF qs
      <3>2. /\ status' = MergeAll(status, qs) /\ jobs'["stray"] = Nothing
            /\ jobs'["current"] = Nothing
        BY <2>1, SayAlone
      <3> QED BY <3>1, <3>2
    <2>4. p = 11
      BY <1>5, <2>1, DeleteNext
    <2>5. /\ st1[Uuid("flux")] = None /\ st1[Uuid("krbkeys")] = None
          /\ <<"repo", None>> \notin facts' /\ <<"address", None>> \notin facts'
      BY <1>5, <2>1, <2>4 DEF DeletePast
    <2>6. Bare(facts')
      BY <2>5, LeftBare
    <2> QED BY <2>1, <2>2, <2>6 DEF Reached
  <1>9. CASE Enters(n, js, "current", job, p, q, ps)
    <2> DEFINE r == Role_(job, q)
               b == View(job)[Uuid(r)]
    <2>1. Entered(job.kind, p, q) /\ r \in Role
      BY <1>9 DEF Enters
    <2>2. PICK on \in Jobs(n), qs \in Seq(Patches(n)) :
            /\ on = [job EXCEPT !.at = q, !.acct = b]
            /\ qs = IF job.kind = "delete" THEN Append(ps, Patch(Done(r), FALSE)) ELSE ps
            /\ Say(js, "current", on, qs)
      BY <1>9 DEF Enters
    <2>3. /\ on.at = q /\ on.acct = b /\ on.kind = job.kind /\ on.live = job.live
          /\ on.own = job.own
      <3> HIDE DEF b
      <3> QED BY <2>2 DEF Jobs
    <2>4. Patch(Done(r), FALSE) \in Patches(n) /\ Patch(Done(r), FALSE) \in P
      BY <2>1, PatchesTyped
    <2>5. ~on.live => MergeAll(on.own, qs) = MergeAll(status, qs)
      <3>1. MergeAll(job.own, Append(ps, Patch(Done(r), FALSE)))
              = Merge(MergeAll(job.own, ps), Patch(Done(r), FALSE))
        BY <1>6, <2>4
      <3>2. MergeAll(status, Append(ps, Patch(Done(r), FALSE)))
              = Merge(MergeAll(status, ps), Patch(Done(r), FALSE))
        BY <1>6, <2>4
      <3> QED BY <2>2, <2>3, <3>1, <3>2
    <2>6. /\ status' = MergeAll(status, qs) /\ jobs'["stray"] = Nothing
          /\ jobs'["current"] # Nothing /\ View(jobs["current"])' = status'
          /\ jobs'["current"].kind = job.kind /\ jobs'["current"].at = q
          /\ jobs'["current"].acct = b
      <3>1. on # Nothing /\ qs \in Seq(P) /\ Nothing \notin Range(qs)
        BY <1>3, SomeThings
      <3> HIDE DEF b, r, P
      <3>2. on # Nothing /\ qs \in Seq(Patches(n) \cup {Nothing})
        BY <3>1 DEF P
      <3>3. on \in Jobs(n) \cup {Nothing} /\ Say(js, "current", on, qs)
        BY <2>2
      <3>4. on # Nothing /\ ~on.live => MergeAll(on.own, qs) = MergeAll(status, qs)
        BY <2>5
      <3>5. /\ status' = MergeAll(status, qs) /\ jobs'["stray"] = Nothing
            /\ on # Nothing =>
                  /\ jobs'["current"] # Nothing /\ View(jobs["current"])' = status'
                  /\ jobs'["current"].kind = on.kind /\ jobs'["current"].at = on.at
                  /\ jobs'["current"].acct = on.acct
        BY <3>1, <3>2, <3>3, <3>4, SayAlone
      <3> QED BY <2>3, <3>1, <3>5
    <2>7. CASE job.kind = "update"
      <3>1. status' = st1 /\ b = View(job)[Uuid(Calls["update"][q][2])]
        BY <2>2, <2>6, <2>7 DEF Role_
      <3>2. UpdateStage(st1, facts', q, b)
        <4>1. Entered("update", p, q)
          BY <2>1, <2>7
        <4> HIDE DEF b
        <4> QED BY ZenonT(30), <1>5, <2>7, <3>1, <4>1, UpdateOnward
      <3> QED BY <1>4, <2>6, <2>7, <3>1, <3>2 DEF Reached, Stage
    <2>8. CASE job.kind = "delete"
      <3>1. status' = Merge(st1, Patch(Done(r), FALSE))
            /\ b = View(job)[Uuid(Calls["delete"][q][2])] /\ r = Calls["delete"][q][2]
        BY <1>6, <2>2, <2>4, <2>6, <2>8 DEF Role_
      <3>2. /\ status' \in Statuses(n) /\ ~status'[Done(r)]
            /\ \A k \in Key : k # Done(r) => status'[k] = st1[k]
        <4> DEFINE d == Patch(Done(r), FALSE)
        <4>1. DOMAIN d = {Done(r)} /\ d[Done(r)] = FALSE /\ Done(r) \in Key
          BY <2>1, KeysApart DEF Patch
        <4>2. /\ Merge(st1, d) \in Statuses(n)
              /\ \A k \in Key : Merge(st1, d)[k] = IF k \in DOMAIN d THEN d[k] ELSE st1[k]
          <5> HIDE DEF d
          <5>1. d \in Patches(n)
            BY <2>4 DEF d
          <5> QED BY <1>4, <5>1, Merged
        <4> QED BY <3>1, <4>1, <4>2
      <3>3. \A s \in Role : status'[Uuid(s)] = st1[Uuid(s)] /\ (status'[Done(s)] => st1[Done(s)])
        <4>1. ASSUME NEW s \in Role PROVE status'[Uuid(s)] = st1[Uuid(s)]
          BY <2>1, <3>2, KeysApart
        <4>2. ASSUME NEW s \in Role, status'[Done(s)] PROVE st1[Done(s)]
          <5>1. Done(s) \in Key /\ Done(s) # Done(r)
            BY <2>1, <3>2, <4>2, KeysApart
          <5> QED BY <3>2, <4>2, <5>1
        <4> QED BY <4>1, <4>2
      <3>4. Fits(status', facts')
        BY <3>3, SameRoles
      <3>5. DeleteStage(status', facts', q, b)
        <4>1. Entered("delete", p, q)
          BY <2>1, <2>8
        <4>2. ~status'[Done(Calls["delete"][q][2])]
          BY <3>1, <3>2
        <4>3. b = View(job)[Uuid(Calls["delete"][q][2])]
          BY <3>1
        <4>4. /\ p = 1 => \A s \in Role : st1[Uuid(s)] = View(job)[Uuid(s)]
              /\ p = 5 => st1[Uuid("krbkeys")] = View(job)[Uuid("krbkeys")]
          BY <2>8
        <4> HIDE DEF b, r
        <4> QED BY ZenonT(30), <1>5, <2>8, <3>3, <4>1, <4>2, <4>3, <4>4, DeleteOnward
      <3>6. status' # Nothing
        BY <3>2, SomeThings
      <3> QED BY <2>6, <2>8, <3>4, <3>5, <3>6 DEF Reached, Stage
    <2> QED BY <1>2, <2>7, <2>8
  <1>10. CASE Continues(n, js, "current", job, p, q, ps)
    <2>1. ~Entered(job.kind, p, q)
      BY <1>10 DEF Continues
    <2>2. PICK on \in Jobs(n) : on = [job EXCEPT !.at = q] /\ Say(js, "current", on, ps)
      BY <1>10 DEF Continues
    <2>3. /\ on.at = q /\ on.acct = job.acct /\ on.kind = job.kind /\ on.live = job.live
          /\ on.own = job.own
      BY <2>2 DEF Jobs
    <2>4. /\ status' = st1 /\ jobs'["stray"] = Nothing
          /\ jobs'["current"] # Nothing /\ View(jobs["current"])' = status'
          /\ jobs'["current"].kind = job.kind /\ jobs'["current"].at = q
          /\ jobs'["current"].acct = job.acct
      <3>1. on # Nothing /\ ps \in Seq(P) /\ Nothing \notin Range(ps)
        BY <1>3, SomeThings
      <3>2. ~on.live => MergeAll(on.own, ps) = MergeAll(status, ps)
        BY <2>3
      <3>3. on \in Jobs(n) \cup {Nothing} /\ Say(js, "current", on, ps)
        BY <2>2
      <3>4. on # Nothing /\ ~on.live => MergeAll(on.own, ps) = MergeAll(status, ps)
        BY <3>2
      <3>5. /\ status' = MergeAll(status, ps) /\ jobs'["stray"] = Nothing
            /\ on # Nothing =>
                  /\ jobs'["current"] # Nothing /\ View(jobs["current"])' = status'
                  /\ jobs'["current"].kind = on.kind /\ jobs'["current"].at = on.at
                  /\ jobs'["current"].acct = on.acct
        BY <3>1, <3>2, <3>3, <3>4, SayAlone
      <3> QED BY <2>3, <3>1, <3>5
    <2>5. CASE job.kind = "update"
      <3>1. UpdateStage(st1, facts', q, job.acct)
        BY <1>5, <2>1, <2>5, UpdateOnward
      <3> QED BY <1>4, <2>4, <2>5, <3>1 DEF Reached, Stage
    <2>6. CASE job.kind = "delete"
      <3>1. DeleteStage(st1, facts', q, job.acct)
        <4>1. \A s \in Role : st1[Uuid(s)] = st1[Uuid(s)] /\ (st1[Done(s)] => st1[Done(s)])
          OBVIOUS
        <4>2. /\ p = 1 => \A s \in Role : st1[Uuid(s)] = View(job)[Uuid(s)]
              /\ p = 5 => st1[Uuid("krbkeys")] = View(job)[Uuid("krbkeys")]
          BY <2>6
        <4>3. ~Entered("delete", p, q)
          BY <2>1, <2>6
        <4> QED BY ZenonT(30), <1>5, <2>6, <4>1, <4>2, <4>3, DeleteOnward
      <3> QED BY <1>4, <2>4, <2>6, <3>1 DEF Reached, Stage
    <2> QED BY <1>2, <2>5, <2>6
  <1> QED BY <1>1, <1>7, <1>8, <1>9, <1>10

-----------------------------------------------------------------------------
(* Every step keeps what holds unless actions met or patches were lost.    *)
LEMMA StatusTyped ==
    ASSUME Typed, Way, ~crossed, ~lost, jobs["current"] # Nothing
    PROVE  /\ status \in Statuses(accounts) /\ status # Nothing /\ View(jobs["current"]) = status
           /\ Fits(status, facts)
  <1>1. status # Nothing /\ View(jobs["current"]) = status /\ Fitting
    BY DEF Way, Alone
  <1> QED BY <1>1 DEF Typed, Fitting

LEMMA CallWay ==
    ASSUME Typed, Mirrored, Way, NEW w \in Slot, Call(w) PROVE Way'
  <1> SUFFICES ASSUME ~crossed', ~lost'
               PROVE  Alone' /\ Working' /\ Fitting' /\ Half'
    BY DEF Way
  <1> DEFINE n == accounts'
  <1>1. accounts \in Nat /\ n \in Nat /\ accounts <= n
    BY CallParts
  <1>2. PICK job \in Jobs(accounts), a \in 0..n, on \in Jobs(n), ps \in Seq(Patches(n)) :
          CallOf(w, job, a, on, ps)
    BY CallParts
  <1>3. ~crossed /\ ~lost /\ version' = version
    BY <1>2 DEF CallOf
  <1>4. jobs["stray"] = Nothing /\ w = "current" /\ job = jobs["current"]
    BY <1>2, <1>3 DEF CallOf, Way, Alone, Slot
  <1>5. /\ status \in Statuses(accounts) /\ status # Nothing /\ View(job) = status
        /\ Fits(status, facts)
    BY <1>2, <1>3, <1>4, StatusTyped DEF CallOf
  <1>6. Stage(job.kind, status, facts, job.at, job.acct)
    BY <1>2, <1>3, <1>4 DEF CallOf, Way, Working
  <1>7. View(on) = status /\ (~on.live => on.own = status)
    BY <1>2, <1>5 DEF CallOf, View
  <1> DEFINE st1 == MergeAll(status, ps)
             fact == Fact(Calls[job.kind][job.at][1], Calls[job.kind][job.at][2], a)
  <1>8. /\ Fits(st1, facts') /\ Past(on.kind, st1, facts', job.at + 1, on.acct) /\ st1 \in Statuses(n)
        /\ on.kind = "update" =>
             /\ job.at + 1 = 2 => \A r \in Role : /\ st1[Uuid(r)] = View(on)[Uuid(r)]
                                                  /\ st1[Done(r)] = View(on)[Done(r)]
             /\ job.at + 1 = 7 => /\ st1[Uuid("krbkeys")] = View(on)[Uuid("krbkeys")]
                                  /\ st1[Done("krbkeys")] = View(on)[Done("krbkeys")]
             /\ job.at + 1 = 14 => <<"push", version>> \in facts'
        /\ on.kind = "delete" =>
             /\ job.at + 1 = 1 => \A r \in Role : st1[Uuid(r)] = View(on)[Uuid(r)]
             /\ job.at + 1 = 5 => st1[Uuid("krbkeys")] = View(on)[Uuid("krbkeys")]
    <2> DEFINE o == job.at
    <2>1. /\ on.kind = job.kind /\ on.acct = a
          /\ a = IF Calls[job.kind][o][1] = "create" THEN accounts + 1 ELSE job.acct
          /\ ps = Written(job.kind, Calls[job.kind][o][1], Calls[job.kind][o][2], a)
          /\ Calls[job.kind][o][1] = "create" => facts' = facts /\ n = accounts + 1
          /\ Calls[job.kind][o][1] # "create" /\ job.kind = "update" => facts' = facts \cup {fact}
          /\ Effect(job, a)
      BY <1>2 DEF CallOf, Effect
    <2>2. CASE job.kind = "update"
      <3>1. o \in 1..13
        <4>1. o \in 1..(End(job.kind) - 1)
          BY <1>2 DEF CallOf
        <4>2. End(job.kind) = 14
          BY <2>2, Ends
        <4> QED BY <4>1, <4>2
      <3>2. Calls["update"][o][1] = "create" <=> o \in {2, 7}
        BY <3>1, UpdateTable
      <3>3. UpdateStage(status, facts, o, job.acct)
        BY <1>6, <2>2 DEF Stage
      <3>4. o \in {2, 7} => accounts < a /\ facts' = facts
        BY <1>1, <2>1, <2>2, <3>2
      <3>5. o \notin {2, 7} =>
              /\ a = job.acct
              /\ facts' = facts \cup {Fact(Calls["update"][o][1], Calls["update"][o][2], job.acct)}
        BY <2>1, <2>2, <3>2
      <3>6. st1 = MergeAll(status, Written("update", Calls["update"][o][1], Calls["update"][o][2], a))
        BY <2>1, <2>2
      <3>7. /\ Fits(st1, facts') /\ UpdatePast(st1, facts', o + 1, a) /\ st1 \in Statuses(n)
            /\ o = 1 => st1 = status
            /\ o = 6 => /\ st1[Uuid("krbkeys")] = status[Uuid("krbkeys")]
                        /\ st1[Done("krbkeys")] = status[Done("krbkeys")]
            /\ o = 13 => <<"push", version>> \in facts'
        <4>1. Updates(accounts, n, status, st1, facts, facts', o, job.acct, a)
          <5> HIDE DEF st1, o, n
          <5> QED BY <1>1, <1>5, <3>1, <3>3, <3>4, <3>5, <3>6 DEF Updates
        <4> HIDE DEF st1, o, n
        <4> QED BY <4>1, UpdateReaches
      <3>8. (o + 1 = 2 => o = 1) /\ (o + 1 = 7 => o = 6) /\ (o + 1 = 14 => o = 13)
        BY SMTT(30), <3>1
      <3> HIDE DEF st1, o
      <3> QED BY <1>7, <2>1, <2>2, <3>7, <3>8 DEF Past, o
    <2>3. CASE job.kind = "delete"
      <3>1. o \in 1..10
        <4>1. o \in 1..(End(job.kind) - 1)
          BY <1>2 DEF CallOf
        <4>2. End(job.kind) = 11
          BY <2>3, Ends
        <4> QED BY <4>1, <4>2
      <3>2. Calls["delete"][o][1] # "create"
        BY <3>1, DeleteTable
      <3>3. DeleteStage(status, facts, o, job.acct)
        BY <1>6, <2>3 DEF Stage
      <3>4. a = job.acct /\ facts' = Without(facts, o, a)
        BY <2>1, <2>3, <3>1, <3>2, DeleteEffect
      <3>5. st1 = MergeAll(status, Written("delete", Calls["delete"][o][1], Calls["delete"][o][2], a))
        BY <2>1, <2>3
      <3>6. /\ Fits(st1, facts') /\ DeletePast(st1, facts', o + 1, a) /\ st1 \in Statuses(accounts)
            /\ o = 4 => st1[Uuid("krbkeys")] = status[Uuid("krbkeys")]
        <4>1. Deletes(accounts, status, st1, facts, facts', o, a)
          <5> HIDE DEF st1, o, n
          <5> QED BY <1>1, <1>5, <3>1, <3>3, <3>4, <3>5 DEF Deletes
        <4> HIDE DEF st1, o, n
        <4> QED BY <4>1, DeleteReaches
      <3>7. (o + 1 # 1) /\ (o + 1 = 5 => o = 4)
        BY <3>1
      <3>8. st1 \in Statuses(n)
        BY <1>1, <3>6, StatusesGrow
      <3> HIDE DEF st1, o
      <3> QED BY <1>7, <2>1, <2>3, <3>6, <3>7, <3>8 DEF Past, o
    <2> QED BY <1>2, <2>2, <2>3 DEF CallOf
  <1>9. /\ status \in Statuses(n) \cup {Nothing} /\ version \in Version
        /\ job.at + 1 \in 1..End(on.kind) /\ (on.live => status # Nothing)
        /\ Advance(jobs, "current", on, job.at + 1, ps)
    <2>1. status \in Statuses(n)
      BY <1>1, <1>5, StatusesGrow
    <2>2. job.at + 1 \in 1..End(on.kind)
      BY <1>2 DEF CallOf
    <2> QED BY <1>2, <1>4, <1>5, <2>1, <2>2 DEF CallOf, Typed
  <1>10. ~on.live => MergeAll(on.own, ps) = st1
    BY <1>7
  <1>11. Reached(on.kind)
    <2> DEFINE q == job.at + 1
    <2>1. q \in 1..End(on.kind) /\ Advance(jobs, "current", on, q, ps)
      BY <1>9
    <2>2. /\ Past(on.kind, st1, facts', q, on.acct)
          /\ on.kind = "update" =>
               /\ q = 2 => \A r \in Role : /\ st1[Uuid(r)] = View(on)[Uuid(r)]
                                           /\ st1[Done(r)] = View(on)[Done(r)]
               /\ q = 7 => /\ st1[Uuid("krbkeys")] = View(on)[Uuid("krbkeys")]
                           /\ st1[Done("krbkeys")] = View(on)[Done("krbkeys")]
               /\ q = 14 => <<"push", version>> \in facts'
          /\ on.kind = "delete" =>
               /\ q = 1 => \A r \in Role : st1[Uuid(r)] = View(on)[Uuid(r)]
               /\ q = 5 => st1[Uuid("krbkeys")] = View(on)[Uuid("krbkeys")]
      BY <1>8
    <2>3. st1 \in Statuses(n) /\ st1 = MergeAll(status, ps) /\ Fits(st1, facts')
      BY <1>8
    <2> HIDE DEF q, st1, n
    <2> QED BY <1>1, <1>4, <1>9, <1>10, <2>1, <2>2, <2>3, Proceeds
  <1>12. on.kind \in {"update", "delete"}
    BY <1>2 DEF CallOf
  <1> QED BY <1>11, <1>12, ReachedWay

LEMMA BlankFits ==
    ASSUME NEW st, NEW fs, Bare(fs), \A r \in Role : st[Uuid(r)] = None /\ ~st[Done(r)]
    PROVE  Fits(st, fs)
  <1>1. Apart(st)
    BY DEF Apart, Role
  <1> QED BY <1>1 DEF Fits, DoneHas, Named, Bare

(* An action can begin on the status of the Map, or without one.           *)
Begins(job) ==
    /\ job \in Jobs(accounts) /\ job.at = 0 /\ job.kind \in {"update", "delete"}
    /\ \/ /\ status # Nothing /\ Fits(status, facts) /\ (job.live \/ job.own = status)
          /\ job.kind = "update" /\ status[Ready_] => SetUp
       \/ /\ status = Nothing /\ Bare(facts) /\ ~job.live /\ job.own = Blank
          /\ job.kind = "update"

LEMMA BlankMerged ==
    ASSUME NEW n \in Nat, NEW ps \in Seq(Patches(n)), ps # <<>>
    PROVE  MergeAll(Nothing, ps) = MergeAll(Blank, ps)
  <1>1. Head(ps) \in Patches(n) /\ Head(ps) # Nothing
    BY SomeThings
  <1>2. Merge(Nothing, Head(ps)) = Merge(Blank, Head(ps))
    BY <1>1 DEF Merge
  <1>3. \A st : MergeAll(st, ps) = MergeAll(Merge(st, Head(ps)), Tail(ps))
    BY MergeAllHead
  <1> QED BY <1>2, <1>3

LEMMA BeginWay ==
    ASSUME Typed, NEW js, NEW job, js["stray"] = Nothing, Begins(job), UNCHANGED facts,
           Begin(js, "current", job)
    PROVE  Reached(job.kind)
  <1> DEFINE n == accounts
             none == <<>>
             one == <<Patch(Spec_, TRUE)>>
             two == <<Patch(Ready_, FALSE), Patch(Spec_, TRUE)>>
             base == View(job)
  <1>1. /\ n \in Nat /\ version \in Version /\ status \in Statuses(n) \cup {Nothing}
        /\ job \in Jobs(n) /\ job.at = 0 /\ job.kind \in {"update", "delete"}
        /\ (job.live => status # Nothing) /\ facts' = facts
    BY BoundsAssumption DEF Typed, Begins
  <1>2. /\ status # Nothing => base = status /\ Fits(status, facts) /\ (~job.live => job.own = status)
        /\ status = Nothing => base = Blank /\ Bare(facts) /\ job.own = Blank /\ job.kind = "update"
    BY DEF Begins, View
  <1>3. base \in Statuses(n) /\ base # Nothing
    BY <1>1, <1>2, BlankTyped
  <1>4. Fits(base, facts)
    <2>1. \A r \in Role : Blank[Uuid(r)] = None /\ ~Blank[Done(r)]
      BY KeysApart DEF Blank
    <2> QED BY <1>2, <2>1, BlankFits
  <1>5. Patch(Spec_, TRUE) \in Patches(n) /\ Patch(Ready_, FALSE) \in Patches(n)
    BY <1>1, PatchesTyped
  <1>6. none \in Seq(Patches(n)) /\ one \in Seq(Patches(n)) /\ two \in Seq(Patches(n))
        /\ one # <<>> /\ two # <<>>
    <2>1. \A x, y \in Patches(n) :
            /\ <<>> \in Seq(Patches(n)) /\ <<x>> \in Seq(Patches(n)) /\ <<x, y>> \in Seq(Patches(n))
            /\ <<x>> # <<>> /\ <<x, y>> # <<>>
      OBVIOUS
    <2> QED BY <1>5, <2>1
  <1>7. ASSUME NEW ps \in Seq(Patches(n)), ps # <<>> \/ status # Nothing
        PROVE  /\ MergeAll(status, ps) = MergeAll(base, ps)
               /\ (~job.live => MergeAll(job.own, ps) = MergeAll(status, ps))
    <2>1. CASE status # Nothing
      BY <1>2, <2>1
    <2>2. CASE status = Nothing
      BY <1>1, <1>2, <1>7, <2>2, BlankMerged
    <2> QED BY <2>1, <2>2
  <1>8. ASSUME NEW ps \in Seq(Patches(n)), ps # <<>> \/ status # Nothing,
               Advance(js, "current", job, 1, ps), NEW st1, st1 = MergeAll(base, ps),
               st1 \in Statuses(n),
               \A r \in Role : st1[Uuid(r)] = base[Uuid(r)] /\ st1[Done(r)] = base[Done(r)],
               job.kind = "update" => ~st1[Ready_]
        PROVE  Reached(job.kind)
    <2> DEFINE p == 1
    <2>1. Fits(st1, facts')
      BY <1>1, <1>4, <1>8, SameRoles
    <2>2. Past(job.kind, st1, facts', p, job.acct)
      BY <1>8 DEF Past, UpdatePast, DeletePast
    <2>3. p \in 1..End(job.kind) /\ p # 2 /\ p # 5 /\ p # 7 /\ p # 14
      BY <1>1, Ends
    <2>4. st1 = MergeAll(status, ps) /\ (~job.live => MergeAll(job.own, ps) = st1)
      BY <1>7, <1>8
    <2>5. Advance(js, "current", job, p, ps)
      BY <1>8
    <2>6. \A r \in Role : st1[Uuid(r)] = View(job)[Uuid(r)]
      BY <1>8
    <2> HIDE DEF p, n, base
    <2>7. /\ job.kind = "update" =>
               /\ p = 2 => \A r \in Role : /\ st1[Uuid(r)] = View(job)[Uuid(r)]
                                           /\ st1[Done(r)] = View(job)[Done(r)]
               /\ p = 7 => /\ st1[Uuid("krbkeys")] = View(job)[Uuid("krbkeys")]
                           /\ st1[Done("krbkeys")] = View(job)[Done("krbkeys")]
               /\ p = 14 => <<"push", version>> \in facts'
          /\ job.kind = "delete" =>
               /\ p = 1 => \A r \in Role : st1[Uuid(r)] = View(job)[Uuid(r)]
               /\ p = 5 => st1[Uuid("krbkeys")] = View(job)[Uuid("krbkeys")]
      BY <2>3, <2>6
    <2> QED BY <1>1, <1>8, <2>1, <2>2, <2>3, <2>4, <2>5, <2>7, Proceeds
  <1>9. CASE job.kind = "update" /\ base[Ready_] /\ base[Version_] = version
    <2>1. Say(js, "current", Nothing, none)
      BY <1>9 DEF Begin
    <2>2. status # Nothing /\ SetUp
      <3>1. ~Blank[Ready_]
        BY KeysApart DEF Blank
      <3> QED BY <1>2, <1>9, <3>1 DEF Begins
    <2>3. MergeAll(status, none) = status
      BY MergeAllNone
    <2>4. none \in Seq(Patches(n) \cup {Nothing})
      BY <1>6, ListTyped
    <2>5. status' = status /\ jobs'["stray"] = Nothing /\ jobs'["current"] = Nothing
      <3> HIDE DEF none, n
      <3> QED BY <1>1, <2>1, <2>3, <2>4, SayAlone
    <2>6. SetUp'
      BY <1>1, <2>2, <2>5 DEF SetUp
    <2> QED BY <1>1, <1>2, <1>9, <2>2, <2>5, <2>6 DEF Reached
  <1>10. CASE job.kind = "update" /\ base[Ready_] /\ base[Version_] # version
    <2> DEFINE p == Patch(Ready_, FALSE)
               q == Patch(Spec_, TRUE)
               st == Merge(base, p)
               st1 == Merge(st, q)
    <2>1. Advance(js, "current", job, 1, two)
      BY <1>10 DEF Begin
    <2>2. p \in Patches(n) /\ DOMAIN p = {Ready_} /\ p[Ready_] = FALSE
      BY <1>5 DEF Patch
    <2>3. q \in Patches(n) /\ DOMAIN q = {Spec_}
      BY <1>5 DEF Patch
    <2>4. st1 = MergeAll(base, two)
      <3>1. two = <<p, q>>
        OBVIOUS
      <3> HIDE DEF two, p, q, n, base
      <3> QED BY <2>2, <2>3, <3>1, MergeAllTwo
    <2>5. /\ st \in Statuses(n) /\ st # Nothing
          /\ \A k \in Key : st[k] = IF k \in DOMAIN p THEN p[k] ELSE base[k]
      <3> HIDE DEF p, n, base
      <3> QED BY <1>1, <1>3, <2>2, Merged, SomeThings
    <2>6. /\ st1 \in Statuses(n)
          /\ \A k \in Key : st1[k] = IF k \in DOMAIN q THEN q[k] ELSE st[k]
      <3> HIDE DEF q, st, n
      <3> QED BY <1>1, <2>3, <2>5, Merged
    <2>7. \A r \in Role : st1[Uuid(r)] = base[Uuid(r)] /\ st1[Done(r)] = base[Done(r)]
      <3> HIDE DEF p, q, st, st1, base
      <3> QED BY <2>2, <2>3, <2>5, <2>6, KeysApart
    <2>8. ~st1[Ready_]
      <3> HIDE DEF p, q, st, st1, base
      <3> QED BY <2>2, <2>3, <2>5, <2>6, KeysApart
    <2> HIDE DEF st1, two
    <2> QED BY <1>6, <1>8, <2>1, <2>4, <2>6, <2>7, <2>8
  <1>11. CASE job.kind = "update" /\ ~base[Ready_]
    <2> DEFINE q == Patch(Spec_, TRUE)
               st1 == Merge(base, q)
    <2>1. Advance(js, "current", job, 1, one)
      BY <1>11 DEF Begin
    <2>2. q \in Patches(n) /\ DOMAIN q = {Spec_}
      BY <1>5 DEF Patch
    <2>3. st1 = MergeAll(base, one)
      BY <2>2, MergeAllOne
    <2>4. /\ st1 \in Statuses(n)
          /\ \A k \in Key : st1[k] = IF k \in DOMAIN q THEN q[k] ELSE base[k]
      <3> HIDE DEF q, n, base
      <3> QED BY <1>1, <1>3, <2>2, Merged
    <2>5. \A r \in Role : st1[Uuid(r)] = base[Uuid(r)] /\ st1[Done(r)] = base[Done(r)]
      <3> HIDE DEF q, st1, base
      <3> QED BY <2>2, <2>4, KeysApart
    <2>6. ~st1[Ready_]
      <3> HIDE DEF q, st1, base
      <3> QED BY <1>11, <2>2, <2>4, KeysApart
    <2> HIDE DEF st1, one
    <2> QED BY <1>6, <1>8, <2>1, <2>3, <2>4, <2>5, <2>6
  <1>12. CASE job.kind = "delete" /\ base[Spec_]
    <2>1. Advance(js, "current", job, 1, none)
      BY <1>12 DEF Begin
    <2>2. base = MergeAll(base, none)
      BY MergeAllNone
    <2>3. status # Nothing
      BY <1>2, <1>12
    <2> DEFINE st1 == base
    <2>4. /\ st1 = MergeAll(base, none) /\ st1 \in Statuses(n)
          /\ \A r \in Role : st1[Uuid(r)] = base[Uuid(r)] /\ st1[Done(r)] = base[Done(r)]
      BY <1>3, <2>2
    <2>5. job.kind = "update" => ~st1[Ready_]
      BY <1>12
    <2> HIDE DEF none, st1
    <2> QED BY <1>6, <1>8, <2>1, <2>3, <2>4, <2>5
  <1>13. CASE job.kind = "delete" /\ ~base[Spec_]
    <2>1. Say(js, "current", job, none)
      BY <1>13 DEF Begin
    <2>2. MergeAll(status, none) = status /\ MergeAll(job.own, none) = job.own
      BY MergeAllNone
    <2>3. status # Nothing /\ Fits(status, facts) /\ (~job.live => job.own = status)
      BY <1>2, <1>13
    <2>4. none \in Seq(Patches(n) \cup {Nothing}) /\ Nothing \notin Range(none) /\ job # Nothing
      BY <1>1, <1>6, ListTyped, SomeThings
    <2>5. /\ status' = status /\ jobs'["stray"] = Nothing
          /\ jobs'["current"] # Nothing /\ View(jobs["current"])' = status'
          /\ jobs'["current"].kind = job.kind /\ jobs'["current"].at = job.at
          /\ jobs'["current"].acct = job.acct
      <3>1. job \in Jobs(n) \cup {Nothing}
        BY <1>1
      <3>2. job # Nothing /\ ~job.live => MergeAll(job.own, none) = MergeAll(status, none)
        BY <2>2, <2>3
      <3> HIDE DEF none, n
      <3>3. /\ status' = MergeAll(status, none) /\ jobs'["stray"] = Nothing
            /\ job # Nothing =>
                  /\ jobs'["current"] # Nothing /\ View(jobs["current"])' = status'
                  /\ jobs'["current"].kind = job.kind /\ jobs'["current"].at = job.at
                  /\ jobs'["current"].acct = job.acct
        BY <1>1, <2>1, <2>4, <3>1, <3>2, SayAlone
      <3> QED BY <2>2, <2>4, <3>3
    <2>6. Stage(job.kind, status', facts', jobs'["current"].at, jobs'["current"].acct)
      BY <1>1, <1>13, <2>5 DEF Stage, DeleteStage, DeletePast
    <2> QED BY <1>1, <2>3, <2>5, <2>6 DEF Reached
  <1> QED BY <1>1, <1>9, <1>10, <1>11, <1>12, <1>13

LEMMA RetryWay ==
    ASSUME Typed, Mirrored, Way, Retry PROVE Way'
  <1> SUFFICES ASSUME ~crossed', ~lost'
               PROVE  Alone' /\ Working' /\ Fitting' /\ Half'
    BY DEF Way
  <1> DEFINE job == jobs["current"]
  <1>1. /\ job # Nothing /\ job.at = 0 /\ Begin(jobs, "current", job)
        /\ UNCHANGED <<facts, crossed, lost>>
    BY DEF Retry, Waiting, Faultless, services
  <1>2. /\ jobs["stray"] = Nothing /\ View(job) = status /\ status # Nothing /\ Fits(status, facts)
        /\ Stage(job.kind, status, facts, job.at, job.acct)
    BY <1>1, StatusTyped DEF Way, Alone, Working
  <1>3. job \in Jobs(accounts) /\ job.kind \in {"update", "delete"}
    BY <1>1, JobTyped DEF Slot
  <1>4. job.kind = "update" => ~status[Ready_]
    BY <1>2 DEF Stage, UpdateStage, UpdatePast
  <1>5. Begins(job)
    BY <1>1, <1>2, <1>3, <1>4 DEF Begins, View
  <1>6. Reached(job.kind)
    <2> HIDE DEF job
    <2> QED BY <1>1, <1>2, <1>5, BeginWay
  <1> QED BY <1>3, <1>6, ReachedWay

LEMMA TellWay ==
    ASSUME Typed, Mirrored, Way, Tell PROVE Way'
  <1> SUFFICES ASSUME ~crossed', ~lost'
               PROVE  Alone' /\ Working' /\ Fitting' /\ Half'
    BY DEF Way
  <1> DEFINE job == jobs["current"]
             js == [jobs EXCEPT !["stray"] = IF Running(job) THEN job ELSE @]
  <1>1. UNCHANGED <<cluster, lost, facts>>
    BY DEF Tell, services
  <1>2. CASE cluster \/ status # Nothing
    <2>1. /\ Begin(js, "current", NewAction)
          /\ ~crossed /\ ~(cluster /\ Removing) /\ \A w \in Slot : ~Running(jobs[w])
      BY <1>2 DEF Tell
    <2>2. /\ Alone /\ Working /\ Fitting /\ Half
      BY <1>1, <2>1 DEF Way
    <2>3. js["stray"] = Nothing
      <3>1. ~Running(job)
        BY <2>1 DEF Slot
      <3>2. jobs["stray"] = Nothing /\ "stray" \in DOMAIN jobs
        BY <2>2 DEF Alone, Typed, Held, Slot
      <3> QED BY <3>1, <3>2
    <2>4. /\ NewAction \in Jobs(accounts) /\ NewAction.at = 0
          /\ NewAction.live <=> status # Nothing
          /\ NewAction.own = Blank
          /\ NewAction.kind = IF cluster THEN "update" ELSE "delete"
      BY BoundsAssumption, NewActionTyped DEF Typed
    <2>5. cluster /\ status # Nothing /\ status[Ready_] => SetUp
      BY <2>1, <2>2 DEF Half, IsReady
    <2>6. Begins(NewAction)
      <3>1. CASE status # Nothing
        BY <2>2, <2>4, <2>5, <3>1 DEF Begins, Fitting
      <3>2. CASE status = Nothing
        BY <1>2, <2>2, <2>4, <3>2 DEF Begins, Fitting
      <3> QED BY <3>1, <3>2
    <2>7. Reached(NewAction.kind)
      <3> HIDE DEF js
      <3> QED BY <1>1, <2>1, <2>3, <2>6, BeginWay
    <2>8. NewAction.kind \in {"update", "delete"}
      BY <2>4
    <2> QED BY <2>7, <2>8, ReachedWay
  <1>3. CASE ~(cluster \/ status # Nothing)
    <2>1. UNCHANGED <<status, stored, queue, jobs, crossed, facts, cluster>>
      BY <1>1, <1>3 DEF Tell, saving
    <2>2. Alone /\ Working /\ Fitting /\ Half
      BY <1>1, <2>1 DEF Way
    <2> QED BY <2>1, <2>2 DEF Alone, Working, Fitting, Half, View, IsReady, SetUp, Removing
  <1> QED BY <1>2, <1>3

(* An action that has failed has left what fits the status.                *)
LEMMA FailedWay ==
    ASSUME Typed, Way, NEW w \in Slot, Running(jobs[w]), ~crossed, ~lost,
           jobs' = [jobs EXCEPT ![w] = Failed(w, jobs[w])], status' = status,
           Effect(jobs[w], jobs[w].acct) \/ UNCHANGED services
    PROVE  Alone' /\ Working' /\ Fitting' /\ Half'
  <1> DEFINE job == jobs["current"]
             a == job.acct
             o == job.at
  <1>1. /\ jobs["stray"] = Nothing /\ w = "current" /\ job # Nothing /\ o > 0
    BY DEF Way, Alone, Slot, Running
  <1>2. /\ status # Nothing /\ View(job) = status /\ Fits(status, facts)
        /\ Stage(job.kind, status, facts, o, a)
    BY <1>1, StatusTyped DEF Way, Working
  <1>3. /\ job \in Jobs(accounts) /\ job.kind \in {"update", "delete"}
        /\ job.at \in 0..(End(job.kind) - 1)
    BY <1>1, JobTyped
  <1>4. /\ jobs'["stray"] = Nothing /\ jobs'["current"] = [job EXCEPT !.at = 0, !.acct = None]
    BY <1>1 DEF Failed, Typed, Held, Slot
  <1>5. /\ jobs'["current"].kind = job.kind /\ jobs'["current"].live = job.live
        /\ jobs'["current"].own = job.own /\ jobs'["current"].at = 0
        /\ jobs'["current"] # Nothing
    <2>1. jobs'["current"] \in Jobs(accounts)
      <3>1. None \in 0..accounts
        BY BoundsAssumption DEF Typed, None
      <3> DEFINE n == accounts
      <3>2. job \in Jobs(n) /\ None \in 0..n
        BY <1>3, <3>1
      <3> HIDE DEF job, n
      <3>3. [job EXCEPT !.at = 0, !.acct = None] \in Jobs(n)
        BY <3>2 DEF Jobs
      <3> QED BY <1>4, <3>3 DEF n
    <2>2. jobs'["current"] # Nothing
      BY <2>1, BoundsAssumption, SomeThings DEF Typed
    <2> HIDE DEF job
    <2> QED BY ZenonT(30), <1>3, <1>4, <2>2 DEF Jobs
  <1>6. Fits(status, facts')
    <2>1. CASE UNCHANGED services
      BY <1>2, <2>1 DEF services
    <2>2. CASE Effect(job, a) /\ job.kind = "update"
      <3>1. o \in 1..13
        <4>1. End(job.kind) = 14
          BY <2>2, Ends
        <4> QED BY <1>1, <1>3, <4>1
      <3>2. Calls["update"][o][1] = "create" <=> o \in {2, 7}
        BY <3>1, UpdateTable
      <3>3. UpdateStage(status, facts, o, a)
        BY <1>2, <2>2 DEF Stage
      <3>4. CASE o \in {2, 7}
        <4>1. facts' = facts
          BY <2>2, <3>2, <3>4 DEF Effect
        <4> QED BY <1>2, <4>1
      <3>5. CASE o \notin {2, 7}
        <4>1. facts' = facts \cup {Fact(Calls["update"][o][1], Calls["update"][o][2], a)}
          BY <2>2, <3>2, <3>5 DEF Effect
        <4> HIDE DEF o, a
        <4> QED BY <1>2, <3>1, <3>3, <3>5, <4>1, UpdateCalled
      <3> QED BY <3>4, <3>5
    <2>3. CASE Effect(job, a) /\ job.kind = "delete"
      <3>1. o \in 1..10
        <4>1. End(job.kind) = 11
          BY <2>3, Ends
        <4> QED BY <1>1, <1>3, <4>1
      <3>3. DeleteStage(status, facts, o, a)
        BY <1>2, <2>3 DEF Stage
      <3>4. facts' = Without(facts, o, a)
        BY <2>3, <3>1, DeleteEffect
      <3> HIDE DEF o, a
      <3> QED BY <1>2, <3>1, <3>3, <3>4, DeleteCalled
    <2> QED BY <1>1, <1>3, <2>1, <2>2, <2>3
  <1>7. View(jobs["current"])' = status'
    BY <1>2, <1>5 DEF View
  <1>8. Stage(job.kind, status', facts', 0, jobs'["current"].acct)
    <2>1. job.kind = "update" => ~status[Ready_]
      BY <1>2 DEF Stage, UpdateStage, UpdatePast
    <2> QED BY <2>1 DEF Stage, UpdateStage, UpdatePast, DeleteStage, DeletePast
  <1>9. Reached(job.kind)
    BY <1>2, <1>4, <1>5, <1>6, <1>7, <1>8 DEF Reached
  <1> QED BY <1>3, <1>9, ReachedWay

LEMMA CallFailsWay ==
    ASSUME Typed, Mirrored, Way, NEW w \in Slot, CallRefused(w) \/ CallFails(w) PROVE Way'
  <1> SUFFICES ASSUME ~crossed', ~lost'
               PROVE  Alone' /\ Working' /\ Fitting' /\ Half'
    BY DEF Way
  <1>1. /\ Running(jobs[w]) /\ jobs' = [jobs EXCEPT ![w] = Failed(w, jobs[w])] /\ status' = status
        /\ Effect(jobs[w], jobs[w].acct) \/ UNCHANGED services
        /\ UNCHANGED <<crossed, lost>>
    BY DEF CallRefused, CallFails, Faultless
  <1> QED BY <1>1, FailedWay

LEMMA SaveWay ==
    ASSUME Typed, Mirrored, Way, Save \/ SaveFails PROVE Way'
  <1> SUFFICES ASSUME ~crossed', ~lost'
               PROVE  Alone' /\ Working' /\ Fitting' /\ Half'
    BY DEF Way
  <1> DEFINE P == Patches(accounts)
  <1>1. /\ UNCHANGED <<status, jobs, facts, cluster, crossed, lost>> /\ queue # <<>>
        /\ stored' = stored \/ stored' = Merge(stored, Head(queue))
        /\ queue' = queue \/ queue' = Tail(queue)
    BY DEF Save, SaveFails, Unedited, Faultless, services
  <1>2. Alone /\ Working /\ Fitting /\ Half
    BY <1>1 DEF Way
  <1>3. Alone' /\ Working' /\ Fitting'
    BY <1>1, <1>2 DEF Alone, Working, Fitting, View
  <1>4. ASSUME stored # Nothing, Nothing \notin Range(queue)
        PROVE  stored' # Nothing /\ Nothing \notin Range(queue')
    <2>1. /\ queue \in Seq(P \cup {Nothing}) /\ accounts \in Nat
          /\ stored \in Statuses(accounts) \cup {Nothing}
      BY BoundsAssumption DEF Typed
    <2>2. Head(queue) \in P \cup {Nothing} /\ Head(queue) \in Range(queue)
      BY <1>1, <2>1 DEF Range
    <2>3. stored' # Nothing
      <3>1. Head(queue) \in P
        BY <1>4, <2>2
      <3>2. Merge(stored, Head(queue)) \in Statuses(accounts)
        BY <2>1, <3>1, Merged
      <3> QED BY <1>1, <1>4, <2>1, <3>2, SomeThings
    <2>4. Range(queue') \subseteq Range(queue)
      <3>1. \A i \in DOMAIN Tail(queue) : Tail(queue)[i] = queue[i + 1] /\ i + 1 \in DOMAIN queue
        <4> HIDE DEF P
        <4> QED BY <1>1, <2>1
      <3>2. Range(Tail(queue)) \subseteq Range(queue)
        BY <3>1 DEF Range
      <3> QED BY <1>1, <3>2
    <2> QED BY <1>4, <2>3, <2>4
  <1>5. Half'
    BY <1>1, <1>2, <1>4 DEF Half, IsReady, SetUp, Removing
  <1> QED BY <1>3, <1>5

(* All that waits has been saved, or patches are lost.  An action that was *)
(* removing the cluster has left it saved, and not ready to be added again. *)
LEMMA RestartWay ==
    ASSUME Typed, Mirrored, Way, Restart PROVE Way'
  <1> SUFFICES ASSUME ~crossed', ~lost'
               PROVE  Alone' /\ Working' /\ Fitting' /\ Half'
    BY DEF Way
  <1>1. /\ status' = stored /\ queue' = <<>> /\ stored' = stored
        /\ jobs' = [s \in Slot |-> Nothing]
        /\ ~lost /\ queue = <<>> /\ ~crossed /\ ~(cluster /\ Removing)
        /\ UNCHANGED <<cluster, facts>>
    BY DEF Restart, services
  <1>2. Alone /\ Working /\ Fitting /\ Half
    BY <1>1 DEF Way
  <1>3. stored = status
    BY <1>1, MergeAllNone DEF Mirrored
  <1>4. jobs'["stray"] = Nothing /\ jobs'["current"] = Nothing
    BY <1>1 DEF Slot
  <1>5. Alone' /\ Working' /\ Fitting'
    BY <1>1, <1>2, <1>3, <1>4 DEF Alone, Working, Fitting
  <1>6. Half'
    <2>1. SUFFICES ASSUME IsReady', ~SetUp'
                   PROVE  ~cluster' /\ stored' # Nothing /\ Nothing \notin Range(queue')
      BY DEF Half
    <2>2. IsReady /\ ~SetUp
      BY <1>1, <1>3, <2>1 DEF IsReady, SetUp
    <2>3. ~cluster
      BY <1>1, <1>2, <2>2 DEF Half
    <2>4. stored # Nothing
      BY <1>3, <2>2 DEF IsReady
    <2>5. Range(queue') = {}
      BY <1>1 DEF Range
    <2> QED BY <1>1, <2>3, <2>4, <2>5
  <1> QED BY <1>5, <1>6

LEMMA EditWay ==
    ASSUME Typed, Mirrored, Way, AddCluster \/ RemoveCluster \/ OtherCluster PROVE Way'
  <1> SUFFICES ASSUME ~crossed', ~lost'
               PROVE  Alone' /\ Working' /\ Fitting' /\ Half'
    BY DEF Way
  <1>1. UNCHANGED <<status, stored, queue, jobs, facts, crossed, lost>>
    BY DEF AddCluster, RemoveCluster, OtherCluster, Edit, Faultless, saving, services
  <1>2. Alone /\ Working /\ Fitting /\ Half
    BY <1>1 DEF Way
  <1>3. Alone' /\ Working' /\ Fitting'
    BY <1>1, <1>2 DEF Alone, Working, Fitting, View
  <1>4. stored = Nothing \/ ~cluster' \/ cluster' = cluster
    BY DEF AddCluster, RemoveCluster, OtherCluster
  <1>5. Half'
    BY <1>1, <1>2, <1>4 DEF Half, IsReady, SetUp, Removing
  <1> QED BY <1>3, <1>5

LEMMA NextWay ==
    ASSUME Typed, Mirrored, Way, [Next]_vars PROVE Way'
  <1>1. CASE \E w \in Slot : Call(w)
    BY <1>1, CallWay
  <1>2. CASE \E w \in Slot : CallRefused(w) \/ CallFails(w)
    BY <1>2, CallFailsWay
  <1>3. CASE Retry
    BY <1>3, RetryWay
  <1>4. CASE Tell
    BY <1>4, TellWay
  <1>5. CASE Save \/ SaveFails
    BY <1>5, SaveWay
  <1>6. CASE Restart
    BY <1>6, RestartWay
  <1>7. CASE AddCluster \/ RemoveCluster \/ OtherCluster
    BY <1>7, EditWay
  <1>8. CASE UNCHANGED vars
    BY <1>8 DEF vars, saving, services, bounds, Way, Alone, Working, Fitting, Half, View, IsReady,
                SetUp, Removing
  <1> QED BY <1>1, <1>2, <1>3, <1>4, <1>5, <1>6, <1>7, <1>8 DEF Next

LEMMA InitWay == Init => Way
  <1> SUFFICES ASSUME Init PROVE Way
    OBVIOUS
  <1>1. jobs["stray"] = Nothing /\ jobs["current"] = Nothing
    BY DEF Init, Slot
  <1>2. Fitting
    BY DEF Init, Fitting, Bare
  <1> QED BY <1>1, <1>2 DEF Init, Way, Alone, Working, Half, IsReady

LEMMA WayIsAccounted == Way => Accounted
  <1> SUFFICES ASSUME Way, ~crossed, ~lost PROVE Accounted
    BY DEF Accounted
  <1>1. Fitting
    BY DEF Way
  <1>2. CASE status = Nothing
    BY <1>1, <1>2 DEF Fitting, Bare, Accounted
  <1>3. CASE status # Nothing
    BY <1>1, <1>3 DEF Fitting, Fits, Named, Accounted, Recorded
  <1> QED BY <1>2, <1>3

(* Unless an action met another or patches were lost, all that has been    *)
(* set up is in the status, and so it can be removed: whatever calls fail, *)
(* and wherever the process ends.                                          *)
THEOREM AccountedCorrect == Spec => []Accounted
  <1>1. Init => Typed /\ Mirrored /\ Way
    BY InitTyped, InitWay
  <1>2. Typed /\ Mirrored /\ Way /\ [Next]_vars => Typed' /\ Mirrored' /\ Way'
    BY NextTyped, NextWay
  <1>3. Way => Accounted
    BY WayIsAccounted
  <1> QED BY <1>1, <1>2, <1>3, PTL DEF Spec

(* Under the same conditions a cluster that is ready has all that          *)
(* bootstrap promises to the edge.                                         *)
THEOREM ReadyIsSetUpCorrect == Spec => []ReadyIsSetUp
  <1>1. Init => Typed /\ Mirrored /\ Way
    BY InitTyped, InitWay
  <1>2. Typed /\ Mirrored /\ Way /\ [Next]_vars => Typed' /\ Mirrored' /\ Way'
    BY NextTyped, NextWay
  <1>3. Way => ReadyIsSetUp
    BY DEF Way, Half, ReadyIsSetUp
  <1> QED BY <1>1, <1>2, <1>3, PTL DEF Spec
=============================================================================
