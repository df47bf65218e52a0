------------------------ MODULE ConfigObjectsProofs ------------------------
(* Proofs about the objects of the ConfigDB, for any number of objects,    *)
(* ranks, owners and requests at one time.                                 *)
EXTENDS ConfigObjects, TLAPS

(* One class is above another, or is that class: every closed set that     *)
(* holds the one holds the other.                                          *)
Reaches(sub, c, d) == \A s \in SUBSET Object : Closed(s, sub) /\ c \in s => d \in s
From(sub, c) == {d \in Object : Reaches(sub, c, d)}

(* No class is above one that it is linked below.                          *)
Loopless(sub) == \A l \in sub : ~Reaches(sub, l[2], l[1])

(* The rows have their types, the built-in objects are there, and nobody   *)
(* is about to delete one of them.                                         *)
TypeInv ==
    /\ ObjectsTypeOK
    /\ Builtin \subseteq DOMAIN object
    /\ \A r \in open : r.op = "delete" => r.id \notin Builtin

(* What a request has read is as it was.                                   *)
StillRight(r) ==
    /\ r.op = "add_member" => object[r.class].rank = object[r.id].rank + 1
    /\ r.op = "remove_member" => r.primary = object[r.id].class
    /\ r.op \in {"add_subclass", "remove_subclass"} => object[r.id].rank # 0
    /\ r.op = "add_subclass" => object[r.class].rank = object[r.id].rank
    /\ r.op = "register" =>
          /\ r.id \in DOMAIN object \ Builtin
          /\ r.from = registration[r.id]
          /\ ~r.refused => Acceptable(r.id, r.spec, r.from)
    /\ r.op = "delete" => r.id \notin Builtin

(* What a request has read is as it was until another commits.  A          *)
(* Registration is put over a change only by a request that is overtaken.  *)
ReadInv ==
    /\ TypeInv
    /\ RegistrationCurrent
    /\ \A r \in open \ behind : StillRight(r)
    /\ overwritten => overtaken

(* Every class is reached from the root of its rank, and every root but    *)
(* the topmost is in some class.                                           *)
Rooted(obj, sub) ==
    \A o \in DOMAIN obj : obj[o].rank # 0 => Reaches(sub, RankClass[obj[o].rank - 1], o)
RootsHave(mem) == \A d \in 0..Top : d # Top => \E l \in mem : l[2] = RankClass[d]

(* Built-in objects keep their ranks and stay among themselves.            *)
FixedRows(obj) ==
    /\ \A d \in 0..Top : obj[RankClass[d]].rank = d + 1
    /\ obj[Special].rank = 1
    /\ \A b \in Builtin : obj[b].class \in Builtin \cup {NoClass}

(* The shape of the class graph.                                           *)
OrderIn(obj, mem, sub) ==
    /\ FixedRows(obj) /\ RanksAgreeIn(obj, mem, sub)
    /\ Loopless(sub) /\ Rooted(obj, sub) /\ RootsHave(mem)
OrderInv == OrderIn(object, membership, subclass)

(* The shape is there until a request is overtaken or a circle made.       *)
ShapeInv == ~overtaken /\ ~circled => OrderInv

-----------------------------------------------------------------------------
(* What is reached from a class is closed, and the class is in it.         *)
LEMMA FromClosed ==
    ASSUME NEW sub \in SUBSET (Object \X Object), NEW c \in Object
    PROVE  /\ From(sub, c) \in SUBSET Object
           /\ Closed(From(sub, c), sub)
           /\ c \in From(sub, c)
  <1>1. c \in From(sub, c)
    BY DEF From, Reaches
  <1>2. ASSUME NEW l \in sub, l[1] \in From(sub, c)
        PROVE  l[2] \in From(sub, c)
    <2>1. l[2] \in Object
      OBVIOUS
    <2>2. ASSUME NEW s \in SUBSET Object, Closed(s, sub), c \in s
          PROVE  l[2] \in s
      BY <1>2, <2>2 DEF From, Reaches, Closed
    <2> QED BY <2>1, <2>2 DEF From, Reaches
  <1> QED BY <1>1, <1>2 DEF Closed, From

(* The relation is transitive, and a link is part of it.                   *)
LEMMA ReachesTrans ==
    ASSUME NEW sub, NEW c, NEW d, NEW e, Reaches(sub, c, d), Reaches(sub, d, e)
    PROVE  Reaches(sub, c, e)
  BY DEF Reaches

(* A link is a path.                                                       *)
LEMMA ReachesLink ==
    ASSUME NEW sub, NEW l \in sub
    PROVE  Reaches(sub, l[1], l[2])
  BY DEF Reaches, Closed

(* If the ends of every link are still linked somehow nothing that was     *)
(* reached is lost.                                                        *)
LEMMA ReachesKept ==
    ASSUME NEW sub, NEW sub2 \in SUBSET (Object \X Object),
           \A l \in sub : Reaches(sub2, l[1], l[2]),
           NEW c \in Object, NEW d, Reaches(sub, c, d)
    PROVE  Reaches(sub2, c, d)
  <1>1. Closed(From(sub2, c), sub)
    <2>1. ASSUME NEW l \in sub, l[1] \in From(sub2, c)
          PROVE  l[2] \in From(sub2, c)
      <3>1. Reaches(sub2, c, l[2])
        BY <2>1, ReachesTrans DEF From
      <3>2. l[2] \in Object
        BY <3>1, FromClosed DEF Reaches
      <3> QED BY <3>1, <3>2 DEF From
    <2> QED BY <2>1 DEF Closed
  <1>2. d \in From(sub2, c)
    BY <1>1, FromClosed DEF Reaches
  <1> QED BY <1>2 DEF From

(* What is reached is reached by a last link, and by a first one.          *)
LEMMA LastLink ==
    ASSUME NEW sub \in SUBSET (Object \X Object), NEW c \in Object, NEW d,
           Reaches(sub, c, d), c # d
    PROVE  \E l \in sub : l[2] = d
  <1> DEFINE s == From(sub, c) \ {d}
  <1>1. s \in SUBSET Object /\ c \in s /\ d \notin s
    BY FromClosed
  <1>2. ~Closed(s, sub)
    BY <1>1 DEF Reaches
  <1>3. PICK l \in sub : l[1] \in s /\ l[2] \notin s
    BY <1>2 DEF Closed
  <1>4. l[2] \in From(sub, c)
    BY <1>3, FromClosed DEF Closed
  <1> QED BY <1>3, <1>4

(* A path that is not empty starts with a link.                            *)
LEMMA FirstLink ==
    ASSUME NEW sub, NEW c \in Object, NEW d, Reaches(sub, c, d), c # d
    PROVE  \E l \in sub : l[1] = c
  <1>1. ~Closed({c}, sub)
    BY DEF Reaches
  <1> QED BY <1>1 DEF Closed

(* The ranks of what a class reaches are its own, if links join equals.    *)
LEMMA ReachesRank ==
    ASSUME NEW obj, NEW sub \in SUBSET (Object \X Object),
           \A l \in sub : obj[l[1]].rank = obj[l[2]].rank,
           NEW c \in Object, NEW d, Reaches(sub, c, d)
    PROVE  obj[d].rank = obj[c].rank
  <1> DEFINE s == {z \in Object : obj[z].rank = obj[c].rank}
  <1>1. s \in SUBSET Object /\ c \in s
    OBVIOUS
  <1>2. \A l \in sub : l[1] \in Object /\ l[2] \in Object
    OBVIOUS
  <1>3. Closed(s, sub)
    BY <1>2 DEF Closed
  <1>4. d \in s
    BY <1>1, <1>3 DEF Reaches
  <1> QED BY <1>4

(* all_subclass is this relation, from the classes.                        *)
LEMMA SubclassIsReaches ==
    ASSUME NEW mem \in SUBSET (Object \X Object), NEW sub \in SUBSET (Object \X Object),
           NEW c \in Object, NEW d
    PROVE  <<c, d>> \in AllSubclass(mem, sub) <=> c \in Classes(mem, sub) /\ Reaches(sub, c, d)
  <1> DEFINE classes == Classes(mem, sub)
             closed == {s \in SUBSET classes : Closed(s, sub)}
  <1>1. classes \in SUBSET Object /\ Closed(classes, sub)
    BY DEF Classes, Closed
  <1>2. <<c, d>> \in AllSubclass(mem, sub)
          <=> c \in classes /\ d \in classes /\ \A s \in closed : c \in s => d \in s
    BY DEF AllSubclass
  <1>3. ASSUME c \in classes, Reaches(sub, c, d)
        PROVE  d \in classes /\ \A s \in closed : c \in s => d \in s
    <2> HIDE DEF classes
    <2>1. d \in classes
      BY <1>1, <1>3 DEF Reaches
    <2>2. \A s \in closed : s \in SUBSET Object /\ Closed(s, sub)
      BY <1>1
    <2> QED BY <1>3, <2>1, <2>2 DEF Reaches
  <1>4. ASSUME c \in classes, \A s \in closed : c \in s => d \in s,
               NEW t \in SUBSET Object, Closed(t, sub), c \in t
        PROVE  d \in t
    <2> DEFINE s == t \cap classes
    <2>1. s \in closed
      <3> HIDE DEF classes
      <3>1. s \in SUBSET classes
        OBVIOUS
      <3>2. Closed(s, sub)
        BY <1>1, <1>4 DEF Closed
      <3> QED BY <3>1, <3>2
    <2>2. c \in s
      BY <1>4
    <2> HIDE DEF s, closed
    <2>3. d \in s
      BY <1>4, <2>1, <2>2
    <2> QED BY <2>3 DEF s
  <1> HIDE DEF classes, closed
  <1>5. Reaches(sub, c, d) <=> \A t \in SUBSET Object : Closed(t, sub) /\ c \in t => d \in t
    BY DEF Reaches
  <1>6. (c \in classes /\ \A s \in closed : c \in s => d \in s) => Reaches(sub, c, d)
    BY <1>4, <1>5
  <1>7. c \in Classes(mem, sub) <=> c \in classes
    BY DEF classes
  <1> QED BY <1>2, <1>3, <1>6, <1>7

(* all_membership: from a class, by a direct link of a class it reaches.   *)
LEMMA MembershipIsReaches ==
    ASSUME NEW mem \in SUBSET (Object \X Object), NEW sub \in SUBSET (Object \X Object)
    PROVE  /\ AllMembership(mem, sub) \in SUBSET (Object \X Object)
           /\ \A c \in Object : \A o : <<c, o>> \in AllMembership(mem, sub)
                  <=> \E d \in Object : Reaches(sub, c, d) /\ <<d, o>> \in mem
  <1>1. AllSubclass(mem, sub) \in SUBSET (Object \X Object)
    BY DEF AllSubclass, Classes
  <1>2. ASSUME NEW x \in AllMembership(mem, sub)
        PROVE  \E c, d \in Object, o \in Object :
                  x = <<c, o>> /\ <<c, d>> \in AllSubclass(mem, sub) /\ <<d, o>> \in mem
    <2>1. PICK p \in AllSubclass(mem, sub) :
              x \in {<<p[1], m[2]>> : m \in {k \in mem : k[1] = p[2]}}
      BY DEF AllMembership
    <2>2. PICK m \in mem : m[1] = p[2] /\ x = <<p[1], m[2]>>
      BY <2>1
    <2>3. p = <<p[1], p[2]>> /\ p[1] \in Object /\ p[2] \in Object
      BY <1>1, <2>1
    <2>4. m = <<p[2], m[2]>> /\ m[2] \in Object
      BY <2>2
    <2> QED BY <2>2, <2>3, <2>4
  <1>3. AllMembership(mem, sub) \in SUBSET (Object \X Object)
    <2>1. ASSUME NEW x \in AllMembership(mem, sub)
          PROVE  x \in Object \X Object
      <3>1. PICK c, o \in Object : x = <<c, o>>
        BY <1>2
      <3> QED BY <3>1
    <2> QED BY <2>1
  <1>4. ASSUME NEW c \in Object, NEW o, <<c, o>> \in AllMembership(mem, sub)
        PROVE  \E d \in Object : Reaches(sub, c, d) /\ <<d, o>> \in mem
    BY <1>2, <1>4, SubclassIsReaches
  <1>5. ASSUME NEW c \in Object, NEW o, NEW d \in Object,
               Reaches(sub, c, d), <<d, o>> \in mem
        PROVE  <<c, o>> \in AllMembership(mem, sub)
    <2>1. c \in Classes(mem, sub)
      <3>1. CASE c = d
        <4>1. <<d, o>>[1] = c
          BY <3>1
        <4> QED BY <1>5, <4>1 DEF Classes
      <3>2. CASE c # d
        BY <1>5, <3>2, FirstLink DEF Classes
      <3> QED BY <3>1, <3>2
    <2>2. <<c, d>> \in AllSubclass(mem, sub)
      BY <1>5, <2>1, SubclassIsReaches
    <2> DEFINE p == <<c, d>>
               m == <<d, o>>
               found(q) == {<<q[1], k[2]>> : k \in {k \in mem : k[1] = q[2]}}
    <2>3. m \in {k \in mem : k[1] = p[2]}
      BY <1>5
    <2>4. <<p[1], m[2]>> \in found(p)
      BY <2>3
    <2>5. AllMembership(mem, sub) = UNION {found(q) : q \in AllSubclass(mem, sub)}
      BY DEF AllMembership
    <2>6. <<c, o>> \in found(p)
      BY <2>4
    <2> HIDE DEF found
    <2> QED BY <2>2, <2>5, <2>6
  <1> QED BY <1>3, <1>4, <1>5

-----------------------------------------------------------------------------
(* A class linked below another that it is not above, with the links that  *)
(* this makes redundant dropped: all that was reached is, and no circle is *)
(* closed.                                                                 *)
LEMMA SubclassAddedKeeps ==
    ASSUME NEW sub \in SUBSET (Object \X Object), NEW sub2 \in SUBSET (Object \X Object),
           NEW c \in Object, NEW o \in Object, NEW above,
           sub2 = {l \in sub : ~(l[2] = o /\ l[1] \in above)} \cup {<<c, o>>},
           \A a \in above : Reaches(sub, a, c), ~Reaches(sub, o, c)
    PROVE  /\ \A l \in sub : Reaches(sub2, l[1], l[2])
           /\ Loopless(sub) => Loopless(sub2)
  <1> DEFINE under == From(sub, o)
  <1>1. under \in SUBSET Object /\ Closed(under, sub) /\ o \in under /\ c \notin under
    BY FromClosed DEF From
  <1>2. \A l \in sub : l \in sub2 \/ (l[2] = o /\ l[1] \in above)
    OBVIOUS
  <1>3. \A l \in sub2 : l \in sub \/ (l[1] = c /\ l[2] = o)
    OBVIOUS
  <1>4. \E l \in sub2 : l[1] = c /\ l[2] = o
    <2>1. <<c, o>>[1] = c /\ <<c, o>>[2] = o /\ <<c, o>> \in sub2
      OBVIOUS
    <2> QED BY <2>1
  <1> HIDE DEF under
  <1>5. ASSUME NEW l \in sub, l[2] = o, l[1] \in above
        PROVE  Reaches(sub2, l[1], l[2])
    <2>1. SUFFICES ASSUME NEW s \in SUBSET Object, Closed(s, sub2), l[1] \in s
                   PROVE  o \in s
      BY <1>5, <2>1 DEF Reaches
    <2>2. Closed(s \cup under, sub)
      BY <1>1, <1>2, <2>1 DEF Closed
    <2>3. c \in s \cup under
      <3>1. Reaches(sub, l[1], c)
        BY <1>5
      <3>2. s \cup under \in SUBSET Object
        BY <1>1
      <3> QED BY <2>1, <2>2, <3>1, <3>2 DEF Reaches
    <2> QED BY <1>1, <1>4, <2>1, <2>3 DEF Closed
  <1>6. ASSUME NEW l \in sub
        PROVE  Reaches(sub2, l[1], l[2])
    BY <1>2, <1>5, ReachesLink
  <1>7. ASSUME Loopless(sub), NEW l \in sub2
        PROVE  ~Reaches(sub2, l[2], l[1])
    <2>1. l[1] \in Object /\ l[2] \in Object
      OBVIOUS
    <2>2. CASE l \in sub
      <3> DEFINE s == From(sub, l[2])
      <3>1. s \in SUBSET Object /\ Closed(s, sub) /\ l[2] \in s /\ l[1] \notin s
        BY <1>7, <2>1, <2>2, FromClosed DEF From, Loopless
      <3>2. ASSUME c \in s
            PROVE  l[1] \notin under
        <4>1. ASSUME l[1] \in under
              PROVE  FALSE
          <5>1. Reaches(sub, o, l[1]) /\ Reaches(sub, l[1], l[2]) /\ Reaches(sub, l[2], c)
            BY <2>2, <3>2, <4>1, ReachesLink DEF From, under
          <5> QED BY <5>1, ReachesTrans
        <4> QED BY <4>1
      <3> HIDE DEF s
      <3>3. CASE c \notin s
        <4>1. Closed(s, sub2)
          BY <1>3, <3>1, <3>3 DEF Closed
        <4> QED BY <3>1, <4>1 DEF Reaches
      <3>4. CASE c \in s
        <4>1. Closed(s \cup under, sub2)
          BY <1>1, <1>3, <3>1 DEF Closed
        <4>2. l[1] \notin s \cup under /\ l[2] \in s \cup under /\ s \cup under \in SUBSET Object
          BY <1>1, <3>1, <3>2, <3>4
        <4> QED BY <4>1, <4>2 DEF Reaches
      <3> QED BY <3>3, <3>4
    <2>3. CASE l[1] = c /\ l[2] = o
      <3>1. Closed(under, sub2)
        BY <1>1, <1>3 DEF Closed
      <3> QED BY <1>1, <2>3, <3>1 DEF Reaches
    <2> QED BY <1>3, <2>2, <2>3
  <1> QED BY <1>6, <1>7 DEF Loopless

(* A link dropped of a class that stays linked below another: what a root  *)
(* reached it still does.                                                  *)
LEMMA SubclassRemovedKeeps ==
    ASSUME NEW sub \in SUBSET (Object \X Object), NEW sub2 \in SUBSET (Object \X Object),
           NEW c \in Object, NEW o \in Object, NEW b \in Object, NEW root \in Object,
           sub \ {<<c, o>>} \subseteq sub2, <<b, o>> \in sub2,
           ~Reaches(sub, o, b), Reaches(sub, root, b),
           NEW q \in Object, NEW x, Reaches(sub, q, x), Reaches(sub, o, x) => q = root
    PROVE  Reaches(sub2, q, x)
  <1> DEFINE under == From(sub, o)
  <1>1. under \in SUBSET Object /\ Closed(under, sub) /\ o \in under /\ b \notin under
    BY FromClosed DEF From
  <1>2. \A l \in sub : l \in sub2 \/ l[2] = o
    OBVIOUS
  <1>3. \E l \in sub2 : l[1] = b /\ l[2] = o
    <2>1. <<b, o>>[1] = b /\ <<b, o>>[2] = o
      OBVIOUS
    <2> QED BY <2>1
  <1>4. x \in under => Reaches(sub, o, x)
    BY DEF From
  <1> HIDE DEF under
  <1>5. SUFFICES ASSUME NEW s \in SUBSET Object, Closed(s, sub2), q \in s
                 PROVE  x \in s
    BY DEF Reaches
  <1>6. CASE o \in s
    <2>1. Closed(s, sub)
      BY <1>2, <1>5, <1>6 DEF Closed
    <2> QED BY <1>5, <2>1 DEF Reaches
  <1>7. CASE o \notin s
    <2>1. Closed(s \cup under, sub) /\ s \cup under \in SUBSET Object
      BY <1>1, <1>2, <1>5 DEF Closed
    <2>2. x \in s \cup under
      BY <1>5, <2>1 DEF Reaches
    <2>3. x \notin under
      <3>1. ASSUME x \in under
            PROVE  FALSE
        <4>1. root \in s
          BY <1>4, <1>5, <3>1
        <4>2. b \in s \cup under
          BY <2>1, <4>1 DEF Reaches
        <4> QED BY <1>1, <1>3, <1>5, <1>7, <4>2 DEF Closed
      <3> QED BY <3>1
    <2> QED BY <2>2, <2>3
  <1> QED BY <1>6, <1>7

(* What has nothing below it may go, or be linked anew: the others are     *)
(* reached as before.                                                      *)
LEMMA LeafDropped ==
    ASSUME NEW sub \in SUBSET (Object \X Object), NEW sub2, NEW o \in Object,
           \A l \in sub : l[1] # o, {l \in sub : l[2] # o} \subseteq sub2,
           NEW c, NEW d, Reaches(sub, c, d), d # o
    PROVE  Reaches(sub2, c, d)
  <1>1. SUFFICES ASSUME NEW s \in SUBSET Object, Closed(s, sub2), c \in s
                 PROVE  d \in s
    BY DEF Reaches
  <1>2. \A l \in sub : l[1] # o /\ (l \in sub2 \/ l[2] = o)
    OBVIOUS
  <1>3. Closed(s \cup {o}, sub)
    BY <1>1, <1>2 DEF Closed
  <1>4. d \in s \cup {o}
    BY <1>1, <1>3 DEF Reaches
  <1> QED BY <1>4

(* No circle comes of links between classes that reach each other already, *)
(* one way, nor of a link to a class that has had none.                    *)
LEMMA LooplessLess ==
    ASSUME NEW sub \in SUBSET (Object \X Object), NEW sub2 \in SUBSET (Object \X Object),
           \A l \in sub2 : Reaches(sub, l[1], l[2]) /\ ~Reaches(sub, l[2], l[1])
    PROVE  Loopless(sub2)
  <1>1. ASSUME NEW l \in sub2, Reaches(sub2, l[2], l[1])
        PROVE  FALSE
    <2>1. l[2] \in Object
      OBVIOUS
    <2>2. Reaches(sub, l[2], l[1])
      BY <1>1, <2>1, ReachesKept
    <2> QED BY <2>2
  <1> QED BY <1>1 DEF Loopless

(* Links to an object that had none make no circle.                        *)
LEMMA LeafAdded ==
    ASSUME NEW sub \in SUBSET (Object \X Object), NEW sub2 \in SUBSET (Object \X Object),
           NEW o \in Object, Loopless(sub),
           \A l \in sub : l[1] # o /\ l[2] # o,
           \A l \in sub2 : l \in sub \/ (l[1] # o /\ l[2] = o)
    PROVE  Loopless(sub2)
  <1>1. ASSUME NEW l \in sub2
        PROVE  ~Reaches(sub2, l[2], l[1])
    <2>1. CASE l \in sub
      <3> DEFINE s == From(sub, l[2])
      <3>0. l[2] \in Object
        OBVIOUS
      <3>1. s \in SUBSET Object /\ Closed(s, sub) /\ l[2] \in s /\ l[1] \notin s
        BY <2>1, <3>0, FromClosed DEF From, Loopless
      <3> HIDE DEF s
      <3>2. Closed(s \cup {o}, sub2)
        BY <3>1 DEF Closed
      <3>3. l[1] \notin s \cup {o}
        BY <2>1, <3>1
      <3> QED BY <3>1, <3>2, <3>3 DEF Reaches
    <2>2. CASE l[1] # o /\ l[2] = o
      <3>1. Closed({o}, sub2)
        BY DEF Closed
      <3> QED BY <2>2, <3>1 DEF Reaches
    <2> QED BY <2>1, <2>2
  <1> QED BY <1>1 DEF Loopless

-----------------------------------------------------------------------------
(* What the constants are, and what a request of each kind holds.          *)
LEMMA Roots ==
    /\ \A d \in 0..Top : RankClass[d] \in Builtin /\ RankClass[d] \in Object
    /\ Builtin \subseteq Object
    /\ TopRank \in Builtin /\ Special \in Builtin
    /\ Special \in Object /\ Special \notin RankRoots
    /\ NoClass \notin Object
  BY RankAssumption, NoClassAssumption DEF Builtin, RankRoots, TopRank

(* What a request asks for is typed.                                       *)
LEMMA RequestHolds ==
    ASSUME NEW r \in Request
    PROVE  /\ r.op \in {"add_member", "add_subclass", "remove_subclass", "create", "remove_member"}
                  => r.class \in Object /\ r.id \in Object
           /\ r.op = "create" => r.owner \in Owner
           /\ r.op = "register" => r.id \in Object /\ r.spec \in Row /\ r.from \in Row
                                   /\ r.refused \in BOOLEAN
           /\ r.op = "delete" => r.id \in Object
  BY DEF Request

(* A class has one rank superclass, an individual none.                    *)
LEMMA RankSuperclassIs ==
    ASSUME NEW o, NEW rank \in 0..(Top + 1)
    PROVE  /\ rank = 0 => RankSuperclass(o, rank) = {}
           /\ rank # 0 => /\ rank - 1 \in 0..Top
                          /\ RankSuperclass(o, rank) = {<<RankClass[rank - 1], o>>}
           /\ \A l \in RankSuperclass(o, rank) : l[1] \in Builtin /\ l[2] = o
           /\ RankSuperclass(o, rank) \subseteq Builtin \X {o}
  <1>1. Top \in Nat
    BY RankAssumption
  <1>2. CASE rank = 0
    <2>1. {rank - 1} \cap (0..Top) = {}
      BY <1>1, <1>2
    <2> QED BY <1>2, <2>1 DEF RankSuperclass
  <1>3. CASE rank # 0
    <2>1. rank - 1 \in 0..Top
      BY <1>1, <1>3
    <2>2. {rank - 1} \cap (0..Top) = {rank - 1}
      BY <2>1
    <2>3. RankSuperclass(o, rank) = {<<RankClass[d], o>> : d \in {rank - 1}}
      BY <2>2 DEF RankSuperclass
    <2>4. RankSuperclass(o, rank) = {<<RankClass[rank - 1], o>>}
      BY <2>3
    <2> QED BY <1>3, <2>1, <2>4, Roots
  <1> QED BY <1>2, <1>3

(* What the type invariant says of a row.                                  *)
LEMMA RowIs ==
    ASSUME NEW row \in Row
    PROVE  /\ row.class \in Object \cup {NoClass} /\ row.rank \in 0..(Top + 1)
           /\ row.owner \in Owner
           /\ row = [class |-> row.class, rank |-> row.rank, owner |-> row.owner]
  BY DEF Row

(* A new owner changes neither class nor rank.                             *)
LEMMA WithOwnerIs ==
    ASSUME TypeInv, NEW r \in Request, r.op = "register", r.id \in DOMAIN object
    PROVE  /\ WithOwner(r) \in Row
           /\ WithOwner(r).class = object[r.id].class
           /\ WithOwner(r).rank = object[r.id].rank
  <1>1. object[r.id] \in Row /\ r.spec \in Row
    BY RequestHolds DEF TypeInv, ObjectsTypeOK
  <1> QED BY <1>1 DEF WithOwner, Row

(* The row after class and rank have been looked at.                       *)
LEMMA WithClassIs ==
    ASSUME TypeInv, NEW r \in Request, r.op = "register", r.id \in DOMAIN object
    PROVE  /\ WithClass(r) \in Row
           /\ WithClass(r).class = IF r.spec.class # r.from.class \/ r.spec.rank # r.from.rank
                                   THEN r.spec.class ELSE object[r.id].class
           /\ WithClass(r).rank = IF r.spec.rank # r.from.rank
                                  THEN r.spec.rank ELSE object[r.id].rank
  <1>1. r.spec \in Row /\ r.from \in Row
    BY RequestHolds
  <1>2. PICK w \in Row : w = WithOwner(r)
    BY WithOwnerIs
  <1>3. w.class = object[r.id].class /\ w.rank = object[r.id].rank
    BY <1>2, WithOwnerIs
  <1>4. WithClass(r) =
            CASE r.spec.rank # r.from.rank ->
                    [w EXCEPT !.class = r.spec.class, !.rank = r.spec.rank]
              [] r.spec.rank = r.from.rank /\ r.spec.class # r.from.class ->
                    [w EXCEPT !.class = r.spec.class]
              [] OTHER -> w
    BY <1>2 DEF WithClass
  <1>5. CASE r.spec.rank # r.from.rank
    BY <1>1, <1>2, <1>3, <1>4, <1>5 DEF Row
  <1>6. CASE r.spec.rank = r.from.rank /\ r.spec.class # r.from.class
    BY <1>1, <1>2, <1>3, <1>4, <1>6 DEF Row
  <1>7. CASE r.spec.rank = r.from.rank /\ r.spec.class = r.from.class
    BY <1>1, <1>2, <1>3, <1>4, <1>7 DEF Row
  <1> QED BY <1>5, <1>6, <1>7

(* The links of a registration with a new rank, and with the same.         *)
LEMMA ReclassedAnew ==
    ASSUME NEW o, NEW spec \in Row, NEW from \in Row, spec.rank # from.rank
    PROVE  /\ Reclassed(o, spec, from).membership
                 = {l \in membership : l[2] # o} \cup {<<spec.class, o>>}
           /\ Reclassed(o, spec, from).subclass
                 = {l \in subclass : l[2] # o} \cup RankSuperclass(o, spec.rank)
  <1>1. Reclassed(o, spec, from) =
            [membership |-> (membership \ {l \in membership : l[2] = o}) \cup {<<spec.class, o>>},
             subclass |-> (subclass \ {l \in subclass : l[2] = o}) \cup RankSuperclass(o, spec.rank)]
    BY DEF Reclassed
  <1> QED BY <1>1

(* Written, they are this.                                                 *)
LEMMA RegisteredAnew ==
    ASSUME NEW r, NEW o, NEW spec \in Row, NEW from \in Row,
           r.id = o, r.spec = spec, r.from = from, spec.rank # from.rank, WriteRegister(r)
    PROVE  /\ membership' = {l \in membership : l[2] # o} \cup {<<spec.class, o>>}
           /\ subclass' = {l \in subclass : l[2] # o} \cup RankSuperclass(o, spec.rank)
  <1>1. membership' = Reclassed(o, spec, from).membership
        /\ subclass' = Reclassed(o, spec, from).subclass
    BY DEF WriteRegister
  <1>2. membership' = {l \in membership : l[2] # o} \cup {<<spec.class, o>>}
    BY <1>1, ReclassedAnew
  <1>3. subclass' = {l \in subclass : l[2] # o} \cup RankSuperclass(o, spec.rank)
    BY <1>1, ReclassedAnew
  <1> QED BY <1>2, <1>3

(* A Registration that keeps the rank adds at most the link to its class.  *)
LEMMA ReclassedSame ==
    ASSUME NEW o, NEW spec \in Row, NEW from \in Row, ~(spec.rank # from.rank)
    PROVE  /\ Reclassed(o, spec, from).subclass = subclass
           /\ \/ /\ Reclassed(o, spec, from).membership = membership \cup {<<spec.class, o>>}
                 /\ spec.class # from.class
              \/ /\ Reclassed(o, spec, from).membership = membership
                 /\ \/ spec.class = from.class
                    \/ <<spec.class, o>> \in AllMembership(membership, subclass)
  <1>1. CASE spec.class # from.class
             /\ <<spec.class, o>> \notin AllMembership(membership, subclass)
    <2>1. Reclassed(o, spec, from) =
            [membership |-> membership \cup {<<spec.class, o>>}, subclass |-> subclass]
      BY <1>1 DEF Reclassed
    <2> QED BY <1>1, <2>1
  <1>2. CASE ~(spec.class # from.class
               /\ <<spec.class, o>> \notin AllMembership(membership, subclass))
    <2>1. Reclassed(o, spec, from) = [membership |-> membership, subclass |-> subclass]
      BY <1>2 DEF Reclassed
    <2> QED BY <1>2, <2>1
  <1> QED BY <1>1, <1>2

-----------------------------------------------------------------------------
(* The first rows: roots and special class, each of the class a rank up.   *)
LEMMA InitRows ==
    ASSUME Init
    PROVE  /\ DOMAIN object = Builtin
           /\ \A d \in 0..Top : object[RankClass[d]].rank = d + 1
           /\ object[Special].rank = 1
           /\ \A o \in Builtin : object[o] \in Row /\ object[o].class \in Builtin \cup {NoClass}
           /\ \A o \in Builtin \ {TopRank} :
                 /\ object[o].class \in Builtin
                 /\ object[object[o].class].rank = object[o].rank + 1
           /\ membership = {<<object[o].class, o>> : o \in Builtin \ {TopRank}}
  <1> DEFINE depth(o) == IF o = Special THEN 0 ELSE CHOOSE d \in 0..Top : RankClass[d] = o
             class(o) == CASE o = TopRank -> NoClass
                           [] o = Special -> RankClass[1]
                           [] OTHER -> RankClass[depth(o) + 1]
  <1>1. /\ object = [o \in Builtin |->
                        [class |-> class(o), rank |-> depth(o) + 1, owner |-> Unowned]]
        /\ membership = {<<class(o), o>> : o \in Builtin \ {TopRank}}
    BY DEF Init
  <1>2. Top \in Nat /\ Top >= 1 /\ 0 \in 0..Top /\ 1 \in 0..Top /\ Top \in 0..Top
    BY RankAssumption
  <1>3. ASSUME NEW d \in 0..Top
        PROVE  depth(RankClass[d]) = d
    <2>1. RankClass[d] # Special
      BY Roots DEF RankRoots
    <2>2. (CHOOSE e \in 0..Top : RankClass[e] = RankClass[d]) = d
      BY RankAssumption
    <2> QED BY <2>1, <2>2
  <1>4. depth(Special) = 0
    OBVIOUS
  <1> HIDE DEF depth
  <1>5. ASSUME NEW d \in 0..Top
        PROVE  class(RankClass[d]) = IF d = Top THEN NoClass ELSE RankClass[d + 1]
    <2>1. RankClass[d] # Special
      BY Roots DEF RankRoots
    <2>2. RankClass[d] = TopRank <=> d = Top
      BY <1>2, RankAssumption DEF TopRank
    <2> QED BY <1>3, <2>1, <2>2
  <1>6. class(Special) = RankClass[1]
    BY <1>2, Roots DEF TopRank, RankRoots
  <1>7. ASSUME NEW o \in Builtin
        PROVE  o = Special \/ \E d \in 0..Top : o = RankClass[d]
    BY DEF Builtin, RankRoots
  <1>8. ASSUME NEW o \in Builtin
        PROVE  class(o) \in Object \cup {NoClass} /\ depth(o) + 1 \in 0..(Top + 1)
    <2>1. CASE o = Special
      <3>1. class(o) = RankClass[1] /\ depth(o) = 0
        BY <1>4, <1>6, <2>1
      <3>2. RankClass[1] \in Object
        BY <1>2, Roots
      <3> QED BY <1>2, <3>1, <3>2
    <2>2. ASSUME NEW d \in 0..Top, o = RankClass[d]
          PROVE  class(o) \in Object \cup {NoClass} /\ depth(o) + 1 \in 0..(Top + 1)
      <3>1. class(o) = IF d = Top THEN NoClass ELSE RankClass[d + 1]
        BY <1>5, <2>2
      <3>2. depth(o) = d
        BY <1>3, <2>2
      <3>3. d # Top => d + 1 \in 0..Top
        BY <1>2
      <3> HIDE DEF class
      <3>4. class(o) \in Object \cup {NoClass}
        BY <3>1, <3>3, Roots
      <3>5. depth(o) + 1 \in 0..(Top + 1)
        BY <1>2, <3>2
      <3> QED BY <3>4, <3>5
    <2> QED BY <1>7, <2>1, <2>2
  <1> HIDE DEF class
  <1>9. \A o \in Builtin : /\ object[o].class = class(o)
                           /\ object[o].rank = depth(o) + 1
                           /\ object[o] \in Row
    BY <1>1, <1>8, OwnerAssumption DEF Row
  <1>10. DOMAIN object = Builtin
    BY <1>1
  <1>11. \A d \in 0..Top : object[RankClass[d]].rank = d + 1
    BY <1>3, <1>9, Roots
  <1>12. object[Special].rank = 1
    BY <1>4, <1>9, Roots
  <1>13. ASSUME NEW o \in Builtin
         PROVE  \/ o = TopRank /\ object[o].class = NoClass
                \/ /\ o # TopRank /\ object[o].class \in Builtin
                   /\ object[object[o].class].rank = object[o].rank + 1
    <2>1. CASE o = Special
      <3>1. object[o].class = RankClass[1] /\ o # TopRank
        BY <1>2, <1>6, <1>9, <2>1, Roots DEF TopRank, RankRoots
      <3>2. object[RankClass[1]].rank = 2 /\ object[o].rank = 1
        BY <1>2, <1>11, <1>12, <2>1
      <3> QED BY <1>2, <3>1, <3>2, Roots
    <2>2. ASSUME NEW d \in 0..Top, o = RankClass[d]
          PROVE  \/ o = TopRank /\ object[o].class = NoClass
                 \/ /\ o # TopRank /\ object[o].class \in Builtin
                    /\ object[object[o].class].rank = object[o].rank + 1
      <3>1. object[o].class = IF d = Top THEN NoClass ELSE RankClass[d + 1]
        BY <1>5, <1>9, <2>2
      <3>2. o = TopRank <=> d = Top
        BY <1>2, <2>2, RankAssumption DEF TopRank
      <3>3. object[o].rank = d + 1
        BY <1>11, <2>2
      <3>4. d # Top => d + 1 \in 0..Top /\ d \in Nat
        BY <1>2
      <3> QED BY <1>11, <3>1, <3>2, <3>3, <3>4, Roots
    <2> QED BY <1>7, <2>1, <2>2
  <1>14. membership = {<<object[o].class, o>> : o \in Builtin \ {TopRank}}
    <2>1. \A o \in Builtin \ {TopRank} : <<object[o].class, o>> = <<class(o), o>>
      BY <1>9
    <2> QED BY <1>1, <2>1
  <1>15. \A o \in Builtin : object[o] \in Row /\ object[o].class \in Builtin \cup {NoClass}
    BY <1>9, <1>13
  <1> QED BY <1>10, <1>11, <1>12, <1>13, <1>14, <1>15

-----------------------------------------------------------------------------
(* The types are kept.                                                     *)
LEMMA InitType == Init => TypeInv
  <1> SUFFICES ASSUME Init PROVE TypeInv
    OBVIOUS
  <1>1. DOMAIN object = Builtin /\ \A o \in Builtin : object[o] \in Row
    BY InitRows
  <1>2. /\ registration = object /\ open = {} /\ subclass = {<<RankClass[0], Special>>}
        /\ behind = {} /\ overtaken = FALSE /\ overwritten = FALSE /\ circled = FALSE
    BY DEF Init
  <1>3. membership \subseteq Builtin \X Builtin
    <2>1. membership = {<<object[o].class, o>> : o \in Builtin \ {TopRank}}
      BY InitRows
    <2>2. \A o \in Builtin \ {TopRank} : object[o].class \in Builtin
      BY InitRows
    <2> QED BY <2>1, <2>2
  <1>4. subclass \subseteq Builtin \X Builtin
    <2>1. 0 \in 0..Top
      BY RankAssumption
    <2> QED BY <1>2, <2>1, Roots
  <1> QED BY <1>1, <1>2, <1>3, <1>4, Roots DEF TypeInv, ObjectsTypeOK

(* Opening a request changes no table.                                     *)
LEMMA OpenType ==
    ASSUME TypeInv, NEW r \in Request, r.op = "delete" => r.id \notin Builtin, Open(r)
    PROVE  TypeInv'
  BY DEF TypeInv, ObjectsTypeOK, Open, tables, history

(* Committing one takes it from the open ones.                             *)
LEMMA CommitTyped ==
    ASSUME TypeInv, NEW r \in open, Commit(r)
    PROVE  /\ open' = open \ {r} /\ open' \subseteq Request /\ behind' \subseteq open'
           /\ {overtaken', overwritten', circled'} \subseteq BOOLEAN
  <1>1. open' = open \ {r} /\ open' \subseteq Request /\ behind' \subseteq open'
    BY DEF Commit, TypeInv, ObjectsTypeOK
  <1>2. overtaken' \in BOOLEAN
    BY DEF Commit
  <1>3. overwritten' \in BOOLEAN
    BY DEF Commit
  <1>4. circled' \in BOOLEAN
    BY DEF Commit
  <1> QED BY <1>1, <1>2, <1>3, <1>4

(* Every request is opened with what it has read.                          *)
LEMMA Asks ==
    ASSUME TypeInv,
           \/ \E c, o \in DOMAIN object : Relate(c, o)
           \/ \E o \in Object, c \in DOMAIN object, w \in Owner : Create(c, o, w)
           \/ \E o \in DOMAIN object : Delete(o)
           \/ \E o \in DOMAIN object, spec \in Row : Register(o, spec)
    PROVE  \E r \in Request : Open(r) /\ StillRight(r)
  <1>1. DOMAIN object \subseteq Object
    BY DEF TypeInv, ObjectsTypeOK
  <1>2. \A o \in DOMAIN object : object[o].class \in Object \cup {NoClass}
    BY DEF TypeInv, ObjectsTypeOK, Row
  <1>3. ASSUME NEW c \in DOMAIN object, NEW o \in DOMAIN object, AddMember(c, o)
        PROVE  \E r \in Request : Open(r) /\ StillRight(r)
    <2> DEFINE r == [op |-> "add_member", class |-> c, id |-> o]
    <2>1. r \in Request
      BY <1>1 DEF Request
    <2>2. Open(r) /\ object[c].rank = object[o].rank + 1
      BY <1>3 DEF AddMember
    <2>3. StillRight(r)
      BY <2>2 DEF StillRight
    <2> QED BY <2>1, <2>2, <2>3
  <1>4. ASSUME NEW c \in DOMAIN object, NEW o \in DOMAIN object, RemoveMember(c, o)
        PROVE  \E r \in Request : Open(r) /\ StillRight(r)
    <2> DEFINE r == [op |-> "remove_member", class |-> c, id |-> o, primary |-> object[o].class]
    <2>1. r \in Request
      BY <1>1, <1>2 DEF Request
    <2>2. Open(r)
      BY <1>4 DEF RemoveMember
    <2>3. StillRight(r)
      BY DEF StillRight
    <2> QED BY <2>1, <2>2, <2>3
  <1>5. ASSUME NEW c \in DOMAIN object, NEW o \in DOMAIN object, AddSubclass(c, o)
        PROVE  \E r \in Request : Open(r) /\ StillRight(r)
    <2> DEFINE r == [op |-> "add_subclass", class |-> c, id |-> o]
    <2>1. r \in Request
      BY <1>1 DEF Request
    <2>2. /\ Open(r)
          /\ object[o].rank # 0 /\ object[c].rank = object[o].rank
      BY <1>5 DEF AddSubclass
    <2>3. StillRight(r)
      BY <2>2 DEF StillRight
    <2> QED BY <2>1, <2>2, <2>3
  <1>6. ASSUME NEW c \in DOMAIN object, NEW o \in DOMAIN object, RemoveSubclass(c, o)
        PROVE  \E r \in Request : Open(r) /\ StillRight(r)
    <2> DEFINE r == [op |-> "remove_subclass", class |-> c, id |-> o]
    <2>1. r \in Request
      BY <1>1 DEF Request
    <2>2. Open(r) /\ object[o].rank # 0
      BY <1>6 DEF RemoveSubclass
    <2>3. StillRight(r)
      BY <2>2 DEF StillRight
    <2> QED BY <2>1, <2>2, <2>3
  <1>7. ASSUME NEW o \in Object, NEW c \in DOMAIN object, NEW w \in Owner, Create(c, o, w)
        PROVE  \E r \in Request : Open(r) /\ StillRight(r)
    <2> DEFINE r == [op |-> "create", class |-> c, id |-> o, owner |-> w]
    <2>1. r \in Request
      BY <1>1 DEF Request
    <2>2. Open(r)
      BY <1>7 DEF Create
    <2>3. StillRight(r)
      BY DEF StillRight
    <2> QED BY <2>1, <2>2, <2>3
  <1>8. ASSUME NEW o \in DOMAIN object, Delete(o)
        PROVE  \E r \in Request : Open(r) /\ StillRight(r)
    <2> DEFINE r == [op |-> "delete", id |-> o]
    <2>1. r \in Request
      BY <1>1 DEF Request
    <2>2. Open(r) /\ o \notin Builtin
      BY <1>8 DEF Delete
    <2>3. StillRight(r)
      BY <2>2 DEF StillRight
    <2> QED BY <2>1, <2>2, <2>3
  <1>9. ASSUME NEW o \in DOMAIN object, NEW spec \in Row, Register(o, spec)
        PROVE  \E r \in Request : Open(r) /\ StillRight(r)
    <2> DEFINE from == registration[o]
               refused == ~Acceptable(o, spec, from)
               r == [op |-> "register", id |-> o, spec |-> spec, from |-> from,
                     refused |-> refused]
    <2>1. from \in Row /\ o \in Object
      BY <1>1 DEF TypeInv, ObjectsTypeOK
    <2>2. refused \in BOOLEAN
      OBVIOUS
    <2>3. r \in Request
      <3> HIDE DEF refused, from
      <3>1. r \in [op: {"register"}, id: Object, spec: Row, from: Row, refused: BOOLEAN]
        BY <2>1, <2>2, Zenon
      <3> QED BY <3>1 DEF Request
    <2>4. Open(r) /\ o \notin Builtin
      BY <1>9 DEF Register
    <2>5. /\ r.op = "register" /\ r.id = o /\ r.spec = spec /\ r.from = from
          /\ (~r.refused => Acceptable(o, spec, from))
      BY Zenon
    <2> HIDE DEF r
    <2>6. StillRight(r)
      <3> HIDE DEF refused
      <3> QED BY <2>4, <2>5 DEF StillRight
    <2> QED BY <2>3, <2>4, <2>6
  <1> QED BY <1>3, <1>4, <1>5, <1>6, <1>7, <1>8, <1>9 DEF Relate

(* The steps that write, one by one: a member is added.                    *)
LEMMA WriteAddMemberType ==
    ASSUME TypeInv, NEW r \in open, WriteAddMember(r)
    PROVE  TypeInv'
  BY CommitTyped DEF TypeInv, ObjectsTypeOK, WriteAddMember, Exist

(* A member is removed.                                                    *)
LEMMA WriteRemoveMemberType ==
    ASSUME TypeInv, NEW r \in open, WriteRemoveMember(r)
    PROVE  TypeInv'
  BY CommitTyped DEF TypeInv, ObjectsTypeOK, WriteRemoveMember, Exist

(* A subclass is added.                                                    *)
LEMMA WriteAddSubclassType ==
    ASSUME TypeInv, NEW r \in open, WriteAddSubclass(r)
    PROVE  TypeInv'
  <1>1. subclass' \subseteq subclass \cup {<<r.class, r.id>>}
    BY DEF WriteAddSubclass, SubclassAdded
  <1>2. r.class \in DOMAIN object /\ r.id \in DOMAIN object
    BY DEF WriteAddSubclass, Exist
  <1> QED BY <1>1, <1>2, CommitTyped DEF TypeInv, ObjectsTypeOK, WriteAddSubclass

(* A subclass is removed.                                                  *)
LEMMA WriteRemoveSubclassType ==
    ASSUME TypeInv, NEW r \in open, WriteRemoveSubclass(r)
    PROVE  TypeInv'
  <1>1. r.id \in DOMAIN object /\ object[r.id].rank \in 0..(Top + 1)
    BY DEF WriteRemoveSubclass, Exist, TypeInv, ObjectsTypeOK, Row
  <1>2. RankSuperclass(r.id, object[r.id].rank) \subseteq (DOMAIN object) \X (DOMAIN object)
    BY <1>1, RankSuperclassIs DEF TypeInv
  <1>3. subclass' \subseteq subclass \cup RankSuperclass(r.id, object[r.id].rank)
    BY DEF WriteRemoveSubclass, SubclassRemoved
  <1> QED BY <1>2, <1>3, CommitTyped DEF TypeInv, ObjectsTypeOK, WriteRemoveSubclass

(* An object is created, with its links.                                   *)
LEMMA WriteCreateType ==
    ASSUME TypeInv, NEW r \in open, WriteCreate(r)
    PROVE  TypeInv'
  <1> DEFINE row == [class |-> r.class, rank |-> object[r.class].rank - 1, owner |-> r.owner]
  <1>1. /\ r.class \in DOMAIN object /\ row.rank >= 0
        /\ object' = Put(object, r.id, row) /\ registration' = Put(registration, r.id, row)
        /\ membership' = membership \cup {<<r.class, r.id>>}
        /\ subclass' = subclass \cup RankSuperclass(r.id, row.rank)
        /\ Commit(r)
    BY DEF WriteCreate, Exist
  <1>2. r.class \in Object /\ r.id \in Object /\ r.owner \in Owner
    BY RequestHolds DEF TypeInv, ObjectsTypeOK, WriteCreate
  <1>3. object[r.class].rank \in 0..(Top + 1) /\ Top \in Nat
    BY <1>1, RankAssumption DEF TypeInv, ObjectsTypeOK, Row
  <1>4. row \in Row /\ row.rank \in 0..(Top + 1)
    <2>1. row.rank \in 0..(Top + 1)
      BY <1>1, <1>3
    <2> QED BY <1>2, <2>1 DEF Row
  <1> HIDE DEF row
  <1>5. /\ DOMAIN object' = DOMAIN object \cup {r.id}
        /\ DOMAIN registration' = DOMAIN object \cup {r.id}
        /\ \A p \in DOMAIN object' : object'[p] \in Row /\ registration'[p] \in Row
    <2>1. DOMAIN registration = DOMAIN object
      BY DEF TypeInv, ObjectsTypeOK
    <2>2. DOMAIN object' = DOMAIN object \cup {r.id}
          /\ DOMAIN registration' = DOMAIN object \cup {r.id}
      BY <1>1, <2>1 DEF Put
    <2>3. object'[r.id] = row /\ registration'[r.id] = row
      BY <1>1 DEF Put
    <2>4. \A p \in DOMAIN object' : p # r.id =>
              p \in DOMAIN object /\ object'[p] = object[p] /\ registration'[p] = registration[p]
      BY <1>1, <2>1, <2>2 DEF Put
    <2>5. \A p \in DOMAIN object : object[p] \in Row /\ registration[p] \in Row
      BY DEF TypeInv, ObjectsTypeOK
    <2> QED BY <1>4, <2>2, <2>3, <2>4, <2>5
  <1>6. RankSuperclass(r.id, row.rank) \subseteq Builtin \X {r.id}
    BY <1>4, RankSuperclassIs
  <1>7. membership' \subseteq (DOMAIN object') \X (DOMAIN object')
        /\ subclass' \subseteq (DOMAIN object') \X (DOMAIN object')
    BY <1>1, <1>5, <1>6 DEF TypeInv, ObjectsTypeOK
  <1> QED BY <1>1, <1>2, <1>5, <1>7, CommitTyped DEF TypeInv, ObjectsTypeOK

(* An object is deleted, with its links.                                   *)
LEMMA WriteDeleteType ==
    ASSUME TypeInv, NEW r \in open, WriteDelete(r)
    PROVE  TypeInv'
  <1>1. /\ DOMAIN object' = DOMAIN object \ {r.id}
        /\ DOMAIN registration' = DOMAIN object \ {r.id}
        /\ \A p \in DOMAIN object' : object'[p] = object[p] /\ registration'[p] = registration[p]
        /\ membership' = {l \in membership : l[2] # r.id}
        /\ subclass' = {l \in subclass : l[2] # r.id}
        /\ \A l \in membership \cup subclass : l[1] # r.id
        /\ Commit(r) /\ r.op = "delete"
    BY DEF WriteDelete, Cascaded, Childless
  <1>2. Builtin \subseteq DOMAIN object'
    BY <1>1 DEF TypeInv
  <1>3. membership' \subseteq (DOMAIN object') \X (DOMAIN object')
        /\ subclass' \subseteq (DOMAIN object') \X (DOMAIN object')
    BY <1>1 DEF TypeInv, ObjectsTypeOK
  <1> QED BY <1>1, <1>2, <1>3, CommitTyped DEF TypeInv, ObjectsTypeOK

(* A Registration config is refused.                                       *)
LEMMA WriteRefusedType ==
    ASSUME TypeInv, NEW r \in open, WriteRefused(r)
    PROVE  TypeInv'
  <1>1. r \in Request /\ r.op = "register" /\ r.id \in DOMAIN object
    BY DEF TypeInv, ObjectsTypeOK, WriteRefused, Exist
  <1>2. /\ DOMAIN object' = DOMAIN object
        /\ object'[r.id] = WithOwner(r)
        /\ \A p \in DOMAIN object : p # r.id => object'[p] = object[p]
    BY <1>1 DEF WriteRefused, Put
  <1>3. \A p \in DOMAIN object' : object'[p] \in Row
    BY <1>1, <1>2, WithOwnerIs DEF TypeInv, ObjectsTypeOK
  <1> QED BY <1>2, <1>3, CommitTyped DEF TypeInv, ObjectsTypeOK, WriteRefused

(* A Registration config is taken.                                         *)
LEMMA WriteRegisterType ==
    ASSUME TypeInv, NEW r \in open, WriteRegister(r)
    PROVE  TypeInv'
  <1>1. /\ r \in Request /\ r.op = "register" /\ r.id \in DOMAIN object
        /\ r.spec.class \in DOMAIN object /\ Commit(r)
        /\ object' = Put(object, r.id, WithClass(r))
        /\ registration' = Put(registration, r.id, r.spec)
    BY DEF TypeInv, ObjectsTypeOK, WriteRegister, Exist
  <1>2. r.spec \in Row /\ r.from \in Row
    BY <1>1, RequestHolds
  <1>3. /\ DOMAIN object' = DOMAIN object /\ DOMAIN registration' = DOMAIN object
        /\ \A p \in DOMAIN object' : object'[p] \in Row /\ registration'[p] \in Row
    <2>1. DOMAIN registration = DOMAIN object
          /\ \A p \in DOMAIN object : object[p] \in Row /\ registration[p] \in Row
      BY DEF TypeInv, ObjectsTypeOK
    <2>2. WithClass(r) \in Row
      BY <1>1, WithClassIs
    <2> QED BY <1>1, <1>2, <2>1, <2>2 DEF Put
  <1>4. membership' \subseteq membership \cup {<<r.spec.class, r.id>>}
        /\ subclass' \subseteq subclass \cup RankSuperclass(r.id, r.spec.rank)
    <2>1. membership' = Reclassed(r.id, r.spec, r.from).membership
          /\ subclass' = Reclassed(r.id, r.spec, r.from).subclass
      BY DEF WriteRegister
    <2>2. CASE r.spec.rank # r.from.rank
      <3>1. membership' = {l \in membership : l[2] # r.id} \cup {<<r.spec.class, r.id>>}
        BY <1>2, <2>1, <2>2, ReclassedAnew
      <3>2. Reclassed(r.id, r.spec, r.from).subclass
                = {l \in subclass : l[2] # r.id} \cup RankSuperclass(r.id, r.spec.rank)
        BY <1>2, <2>2, ReclassedAnew
      <3> QED BY <2>1, <3>1, <3>2
    <2>3. CASE r.spec.rank = r.from.rank
      <3>1. membership' \subseteq membership \cup {<<r.spec.class, r.id>>}
        BY <1>2, <2>1, <2>3, ReclassedSame, ZenonT(60)
      <3>2. subclass' = subclass
        BY <1>2, <2>1, <2>3, ReclassedSame, ZenonT(60)
      <3> QED BY <3>1, <3>2
    <2> QED BY <2>2, <2>3
  <1>5. RankSuperclass(r.id, r.spec.rank) \subseteq (DOMAIN object) \X (DOMAIN object)
    <2>1. r.spec.rank \in 0..(Top + 1)
      BY <1>2 DEF Row
    <2> QED BY <1>1, <2>1, RankSuperclassIs DEF TypeInv
  <1> QED BY <1>1, <1>3, <1>4, <1>5, CommitTyped DEF TypeInv, ObjectsTypeOK

(* A dump ranks anew what is below its object; some objects of which none  *)
(* is of the class of another are not.                                     *)
LEMMA BelowNot ==
    ASSUME TypeInv, NEW o \in Object, NEW kept \in SUBSET (DOMAIN object), o \notin kept,
           \A b \in kept : object[b].class \in kept \cup {NoClass}
    PROVE  Below(o) \cap kept = {}
  <1> DEFINE s == (DOMAIN object \cup {o}) \ kept
  <1>1. NoClass \notin DOMAIN object \cup {o}
    BY Roots DEF TypeInv, ObjectsTypeOK
  <1>2. s \in SUBSET (DOMAIN object \cup {o}) /\ o \in s
    OBVIOUS
  <1>3. \A p \in DOMAIN object : object[p].class \in s => p \in s
    BY <1>1
  <1> HIDE DEF s
  <1>4. \A p \in Below(o) : p \in s
    BY <1>2, <1>3 DEF Below
  <1> QED BY <1>4 DEF s

(* What a dump leaves: its object and links, and all that was there.       *)
LEMMA LoadDumpIs ==
    ASSUME TypeInv, NEW o \in Object, NEW k \in DOMAIN object, NEW supers \in SUBSET (DOMAIN object),
           Verify(object, membership, subclass), LoadDump(o, k, supers)
    PROVE  /\ o \notin Builtin
           /\ DOMAIN object' = DOMAIN object \cup {o} /\ registration' = object'
           /\ \A p \in DOMAIN object' : object'[p] \in Row
           /\ \A kept \in SUBSET (DOMAIN object) :
                 o \notin kept /\ (\A b \in kept : object[b].class \in kept \cup {NoClass})
                    => \A b \in kept : object'[b] = object[b]
           /\ membership' = {l \in membership : l[2] # o} \cup {<<k, o>>}
           /\ subclass' \subseteq (DOMAIN object') \X (DOMAIN object')
           /\ Verify(object', membership', subclass')
           /\ circled' = (circled \/ ~Acyclic(membership', subclass'))
           /\ behind' = open /\ UNCHANGED <<open, overtaken, overwritten>>
  <1>1. PICK below : below = Below(o)
    OBVIOUS
  <1>2. PICK rows : rows = DumpRows(o, k, below)
    OBVIOUS
  <1>3. PICK promoted : promoted = {p \in below \ {o} : \A l \in subclass : l[2] # p}
    OBVIOUS
  <1>4. PICK above : above = IF supers = {} THEN RankSuperclass(o, rows[o].rank)
                                            ELSE {<<c, o>> : c \in supers}
    OBVIOUS
  <1>5. PICK sub : sub = {l \in subclass : l[2] # o} \cup above
                            \cup UNION {RankSuperclass(p, rows[p].rank) : p \in promoted}
    OBVIOUS
  <1>6. /\ o \notin Builtin
        /\ \A p \in DOMAIN rows : rows[p].rank >= 0
        /\ membership' = {l \in membership : l[2] # o} \cup {<<k, o>>}
        /\ subclass' = sub
        /\ object' = rows /\ registration' = rows
        /\ Verify(rows, membership', sub)
        /\ circled' = (circled \/ ~Acyclic(membership', sub))
        /\ behind' = open /\ UNCHANGED <<open, overtaken, overwritten>>
    BY <1>1, <1>2, <1>3, <1>4, <1>5 DEF LoadDump
  <1>7. DOMAIN object \subseteq Object /\ \A p \in DOMAIN object : object[p] \in Row
    BY DEF TypeInv, ObjectsTypeOK
  <1>8. below \subseteq DOMAIN object \cup {o}
    BY <1>1 DEF Below
  <1> DEFINE rank == object[k].rank - 1
             shift == IF o \in DOMAIN object THEN rank - object[o].rank ELSE 0
             owner == IF o \in DOMAIN object THEN object[o].owner ELSE Unowned
  <1>9. /\ DOMAIN rows = DOMAIN object \cup {o}
        /\ rows[o] = [class |-> k, rank |-> rank, owner |-> owner]
        /\ \A p \in DOMAIN object : p # o =>
              rows[p] = IF p \in below THEN [object[p] EXCEPT !.rank = @ + shift] ELSE object[p]
    BY <1>2 DEF DumpRows
  <1>10. owner \in Owner /\ k \in Object
    BY <1>7, OwnerAssumption DEF Row
  <1> HIDE DEF rank, shift, owner
  <1>11. ASSUME NEW kept \in SUBSET (DOMAIN object), o \notin kept,
                \A b \in kept : object[b].class \in kept \cup {NoClass}
         PROVE  \A b \in kept : rows[b] = object[b]
    <2>1. below \cap kept = {}
      BY <1>1, <1>11, BelowNot
    <2> QED BY <1>9, <1>11, <2>1
  <1>12. rows[TopRank] = object[TopRank] /\ TopRank \in DOMAIN object
    <2>1. {TopRank} \in SUBSET (DOMAIN object) /\ o # TopRank
      BY <1>6, Roots DEF TypeInv
    <2>2. object[TopRank].class = NoClass
      BY <2>1 DEF Verify
    <2> QED BY <1>11, <2>1, <2>2
  <1>13. ASSUME NEW p \in DOMAIN rows
         PROVE  rows[p] \in Row
    <2>1. CASE p = TopRank
      BY <1>7, <1>12, <2>1
    <2>2. CASE p # TopRank
      <3>1. rows[p].rank \in 0..Top
        BY <1>6, <2>2 DEF Verify
      <3>2. rows[p].rank \in 0..(Top + 1)
        BY <3>1, RankAssumption
      <3>3. CASE p = o
        BY <1>9, <1>10, <3>2, <3>3 DEF Row
      <3>4. CASE p # o
        <4>1. p \in DOMAIN object /\ object[p] \in Row
          BY <1>7, <1>9, <3>4
        <4> QED BY <1>9, <3>2, <3>4, <4>1 DEF Row
      <3> QED BY <3>3, <3>4
    <2> QED BY <2>1, <2>2
  <1>14. above \subseteq (DOMAIN rows) \X (DOMAIN rows)
    <2>1. rows[o].rank \in 0..(Top + 1) /\ Builtin \subseteq DOMAIN rows /\ o \in DOMAIN rows
      BY <1>9, <1>13 DEF Row, TypeInv
    <2>2. RankSuperclass(o, rows[o].rank) \subseteq (DOMAIN rows) \X (DOMAIN rows)
      BY <2>1, RankSuperclassIs
    <2>3. {<<c, o>> : c \in supers} \subseteq (DOMAIN rows) \X (DOMAIN rows)
      BY <1>9
    <2> QED BY <1>4, <2>2, <2>3
  <1>15. ASSUME NEW p \in promoted
         PROVE  RankSuperclass(p, rows[p].rank) \subseteq (DOMAIN rows) \X (DOMAIN rows)
    <2>1. p \in DOMAIN rows
      BY <1>3, <1>8, <1>9
    <2>2. rows[p].rank \in 0..(Top + 1) /\ Builtin \subseteq DOMAIN rows
      BY <1>9, <1>13, <2>1 DEF Row, TypeInv
    <2> QED BY <2>1, <2>2, RankSuperclassIs
  <1>16. sub \subseteq (DOMAIN rows) \X (DOMAIN rows)
    <2>1. UNION {RankSuperclass(p, rows[p].rank) : p \in promoted}
              \subseteq (DOMAIN rows) \X (DOMAIN rows)
      BY <1>15
    <2>2. subclass \subseteq (DOMAIN rows) \X (DOMAIN rows)
      BY <1>9 DEF TypeInv, ObjectsTypeOK
    <2> QED BY <1>5, <1>14, <2>1, <2>2
  <1> QED BY <1>6, <1>9, <1>11, <1>13, <1>16

(* A dump is loaded whole.                                                 *)
LEMMA LoadDumpType ==
    ASSUME TypeInv, NEW o \in Object, NEW k \in DOMAIN object, NEW supers \in SUBSET (DOMAIN object),
           Verify(object, membership, subclass), LoadDump(o, k, supers)
    PROVE  TypeInv'
  <1>1. /\ DOMAIN object' = DOMAIN object \cup {o} /\ registration' = object'
        /\ \A p \in DOMAIN object' : object'[p] \in Row
        /\ membership' = {l \in membership : l[2] # o} \cup {<<k, o>>}
        /\ subclass' \subseteq (DOMAIN object') \X (DOMAIN object')
        /\ circled' = (circled \/ ~Acyclic(membership', subclass'))
        /\ behind' = open /\ UNCHANGED <<open, overtaken, overwritten>>
    BY LoadDumpIs
  <1>2. membership' \subseteq (DOMAIN object') \X (DOMAIN object')
    BY <1>1 DEF TypeInv, ObjectsTypeOK
  <1>3. circled' \in BOOLEAN
    BY <1>1
  <1> QED BY <1>1, <1>2, <1>3 DEF TypeInv, ObjectsTypeOK

(* A step is a request opened, one written, or a dump.                     *)
LEMMA NextIs ==
    ASSUME TypeInv, Next
    PROVE  \/ \E r \in Request : Open(r) /\ StillRight(r)
           \/ \E r \in open : Write(r)
           \/ /\ Loadable
              /\ Verify(object, membership, subclass)
              /\ \E o \in Object, k \in DOMAIN object, supers \in SUBSET (DOMAIN object) :
                    LoadDump(o, k, supers)
  <1>1. ASSUME NEW o \in Object, NEW k \in DOMAIN object,
               LoadDump(o, k, {}) \/ \E c \in DOMAIN object : LoadDump(o, k, {c})
        PROVE  \E supers \in SUBSET (DOMAIN object) : LoadDump(o, k, supers)
    <2>1. {} \in SUBSET (DOMAIN object) /\ \A c \in DOMAIN object : {c} \in SUBSET (DOMAIN object)
      OBVIOUS
    <2> QED BY <1>1, <2>1
  <1> QED BY <1>1, Asks DEF Next

(* Every step keeps the types.                                             *)
LEMMA NextType ==
    ASSUME TypeInv, Next
    PROVE  TypeInv'
  <1>1. ASSUME NEW r \in Request, Open(r), StillRight(r)
        PROVE  TypeInv'
    BY <1>1, OpenType DEF StillRight
  <1>2. ASSUME NEW r \in open, Write(r)
        PROVE  TypeInv'
    <2>1. Rollback(r) => TypeInv'
      BY DEF Rollback, tables, history, TypeInv, ObjectsTypeOK
    <2> QED BY <1>2, <2>1, WriteAddMemberType, WriteRemoveMemberType, WriteAddSubclassType,
               WriteRemoveSubclassType, WriteCreateType, WriteDeleteType, WriteRefusedType,
               WriteRegisterType DEF Write
  <1> QED BY <1>1, <1>2, NextIs, LoadDumpType

(* Rows, relations and requests have their types, whatever requests do to  *)
(* each other.                                                             *)
THEOREM TypeCorrect == Spec => []ObjectsTypeOK
  <1>1. TypeInv /\ UNCHANGED vars => TypeInv'
    BY DEF TypeInv, ObjectsTypeOK, vars, history
  <1>2. TypeInv /\ [Next]_vars => TypeInv'
    BY <1>1, NextType
  <1>3. TypeInv => ObjectsTypeOK
    BY DEF TypeInv
  <1> QED BY InitType, <1>2, <1>3, PTL DEF Spec

-----------------------------------------------------------------------------
(* A request that writes is done with; it has committed or has not.        *)
LEMMA WriteIs ==
    ASSUME TypeInv, NEW r \in open, Write(r)
    PROVE  /\ r \in Request /\ open' = open \ {r} /\ open \ open' = {r}
           /\ Rollback(r) \/ Commit(r)
  <1>1. Rollback(r) \/ Commit(r)
    BY DEF Write, WriteAddMember, WriteRemoveMember, WriteAddSubclass, WriteRemoveSubclass,
           WriteCreate, WriteDelete, WriteRefused, WriteRegister
  <1>2. open' = open \ {r}
    BY <1>1 DEF Rollback, Commit
  <1> QED BY <1>1, <1>2 DEF TypeInv, ObjectsTypeOK

(* A request that is opened has read what is there.                        *)
LEMMA OpenReads ==
    ASSUME ReadInv, NEW r \in Request, Open(r), StillRight(r)
    PROVE  ReadInv'
  <1>1. open' = open \cup {r} /\ UNCHANGED <<object, membership, subclass, registration>>
        /\ UNCHANGED <<behind, overtaken, overwritten>>
    BY DEF Open, tables, history
  <1>2. TypeInv'
    BY OpenType DEF ReadInv, StillRight
  <1>3. \A q : StillRight(q) => StillRight(q)'
    BY <1>1 DEF StillRight, Acceptable, Childless
  <1> QED BY <1>1, <1>2, <1>3 DEF ReadInv, RegistrationCurrent

(* What is written to the object is written to its Registration config.    *)
LEMMA WriteCurrent ==
    ASSUME TypeInv, RegistrationCurrent, NEW r \in open, Write(r)
    PROVE  RegistrationCurrent'
  <1> SUFFICES ASSUME ~overwritten' PROVE RegistrationCurrent'
    BY DEF RegistrationCurrent
  <1>0. ~overwritten /\ (UNCHANGED <<object, registration>> \/ ~Overwrites(r))
    <2>1. CASE Rollback(r)
      BY <2>1 DEF Rollback, history, tables
    <2>2. CASE Commit(r)
      BY <2>2 DEF Commit
    <2> QED BY <2>1, <2>2, WriteIs
  <1>1. /\ r \in Request /\ DOMAIN registration = DOMAIN object
        /\ \A p \in DOMAIN object : /\ registration[p].class = object[p].class
                                    /\ registration[p].rank = object[p].rank
    BY <1>0, WriteIs DEF RegistrationCurrent, TypeInv, ObjectsTypeOK
  <1>2. ASSUME UNCHANGED <<object, registration>>
        PROVE  RegistrationCurrent'
    BY <1>1, <1>2 DEF RegistrationCurrent
  <1>3. ASSUME WriteCreate(r)
        PROVE  RegistrationCurrent'
    <2> DEFINE row == [class |-> r.class, rank |-> object[r.class].rank - 1, owner |-> r.owner]
    <2>1. object' = Put(object, r.id, row) /\ registration' = Put(registration, r.id, row)
      BY <1>3 DEF WriteCreate
    <2> HIDE DEF row
    <2> QED BY <1>1, <2>1 DEF RegistrationCurrent, Put
  <1>4. ASSUME WriteDelete(r)
        PROVE  RegistrationCurrent'
    BY <1>1, <1>4 DEF RegistrationCurrent, WriteDelete
  <1>5. ASSUME WriteRefused(r)
        PROVE  RegistrationCurrent'
    <2>1. r.id \in DOMAIN object /\ r.op = "register"
      BY <1>5 DEF WriteRefused, Exist
    <2>2. WithOwner(r).class = object[r.id].class /\ WithOwner(r).rank = object[r.id].rank
      BY <1>1, <2>1, WithOwnerIs
    <2> QED BY <1>1, <1>5, <2>1, <2>2 DEF RegistrationCurrent, WriteRefused, Put
  <1>6. ASSUME WriteRegister(r), ~Overwrites(r)
        PROVE  RegistrationCurrent'
    <2>1. r.id \in DOMAIN object /\ r.op = "register"
      BY <1>6 DEF WriteRegister, Exist
    <2>2. r.from.class = object[r.id].class /\ r.from.rank = object[r.id].rank
      BY <1>1, <1>6, <2>1 DEF Overwrites, WriteRegister
    <2>3. WithClass(r).class = r.spec.class /\ WithClass(r).rank = r.spec.rank
      BY <1>1, <2>1, <2>2, WithClassIs
    <2> QED BY <1>1, <1>6, <2>1, <2>3 DEF RegistrationCurrent, WriteRegister, Put
  <1>7. \/ UNCHANGED <<object, registration>>
        \/ WriteCreate(r) \/ WriteDelete(r) \/ WriteRefused(r) \/ WriteRegister(r)
    BY DEF Write, WriteAddMember, WriteRemoveMember, WriteAddSubclass, WriteRemoveSubclass,
           Rollback, tables
  <1> QED BY <1>0, <1>2, <1>3, <1>4, <1>5, <1>6, <1>7

(* A Registration is put over a change only by a request that is behind.   *)
LEMMA OverwritesBehind ==
    ASSUME ReadInv, NEW r \in open, Overwrites(r)
    PROVE  r \in behind
  <1>1. r \notin behind => r.from = registration[r.id]
    BY DEF ReadInv, StillRight, Overwrites
  <1> QED BY <1>1 DEF Overwrites

(* Every step keeps the invariant.                                         *)
LEMMA NextReads ==
    ASSUME ReadInv, Next
    PROVE  ReadInv'
  <1>1. TypeInv /\ TypeInv' /\ RegistrationCurrent
    BY NextType DEF ReadInv
  <1>2. ASSUME NEW r \in open, Write(r)
        PROVE  ReadInv'
    <2>1. RegistrationCurrent'
      BY <1>1, <1>2, WriteCurrent
    <2>2. CASE Commit(r)
      <3>1. overwritten' => overtaken'
        BY <2>2, OverwritesBehind DEF ReadInv, Commit
      <3>2. open' \ behind' = {}
        BY <2>2 DEF Commit
      <3> QED BY <1>1, <2>1, <3>1, <3>2 DEF ReadInv
    <2>3. CASE Rollback(r)
      <3>1. /\ UNCHANGED <<object, membership, subclass, registration>>
            /\ UNCHANGED <<overtaken, overwritten>>
            /\ open' \ behind' \subseteq open \ behind
        BY <2>3 DEF Rollback, tables, history
      <3>2. \A q : StillRight(q) => StillRight(q)'
        BY <3>1 DEF StillRight, Acceptable, Childless
      <3> QED BY <1>1, <2>1, <3>1, <3>2 DEF ReadInv
    <2> QED BY <1>1, <1>2, <2>2, <2>3, WriteIs
  <1>3. ASSUME Verify(object, membership, subclass),
               NEW o \in Object, NEW k \in DOMAIN object, NEW supers \in SUBSET (DOMAIN object),
               LoadDump(o, k, supers)
        PROVE  ReadInv'
    <2>1. registration' = object' /\ open' \ behind' = {} /\ UNCHANGED <<overtaken, overwritten>>
      BY <1>1, <1>3, LoadDumpIs
    <2>2. RegistrationCurrent'
      BY <2>1 DEF RegistrationCurrent
    <2> QED BY <1>1, <2>1, <2>2 DEF ReadInv
  <1> QED BY <1>1, <1>2, <1>3, NextIs, OpenReads

(* It holds at the start, and in every state of every behaviour.           *)
LEMMA ReadCorrect == Spec => []ReadInv
  <1>1. Init => ReadInv
    <2>1. Init => open = {} /\ registration = object /\ ~overwritten
      BY DEF Init
    <2> QED BY <2>1, InitType DEF ReadInv, RegistrationCurrent
  <1>2. ReadInv /\ UNCHANGED vars => ReadInv'
    <2> SUFFICES ASSUME ReadInv, UNCHANGED vars PROVE ReadInv'
      OBVIOUS
    <2>1. UNCHANGED <<object, membership, subclass, registration, open, behind,
                      overtaken, overwritten, circled>>
      BY DEF vars, history
    <2>2. TypeInv'
      BY <2>1 DEF ReadInv, TypeInv, ObjectsTypeOK
    <2>3. \A r : StillRight(r) => StillRight(r)'
      BY <2>1 DEF StillRight, Acceptable, Childless
    <2> QED BY <2>1, <2>2, <2>3 DEF ReadInv, RegistrationCurrent
  <1>3. ReadInv /\ [Next]_vars => ReadInv'
    BY <1>2, NextReads
  <1> QED BY <1>1, <1>3, PTL DEF Spec

(* Class and rank of a Registration config are those of the object, until  *)
(* one is put over a change that came after it had been read: whatever     *)
(* other requests are overtaken, and whatever circles are made.            *)
THEOREM RegistrationCurrentCorrect == Spec => []RegistrationCurrent
  <1>1. ReadInv => RegistrationCurrent
    BY DEF ReadInv
  <1> QED BY ReadCorrect, <1>1, PTL

-----------------------------------------------------------------------------
(* What the shape implies.                                                 *)
LEMMA Typed ==
    ASSUME TypeInv
    PROVE  /\ DOMAIN object \subseteq Object /\ Builtin \subseteq DOMAIN object
           /\ membership \in SUBSET (Object \X Object) /\ subclass \in SUBSET (Object \X Object)
           /\ \A l \in membership \cup subclass : l[1] \in DOMAIN object /\ l[2] \in DOMAIN object
           /\ \A o \in DOMAIN object : object[o].rank \in 0..(Top + 1)
           /\ \A d \in 0..Top : RankClass[d] \in DOMAIN object
  <1>1. \A o \in DOMAIN object : object[o].rank \in 0..(Top + 1)
    BY DEF TypeInv, ObjectsTypeOK, Row
  <1> QED BY <1>1, Roots DEF TypeInv, ObjectsTypeOK

(* An object of a rank above 0 is reached from the root of its rank.       *)
LEMMA RootOf ==
    ASSUME TypeInv, OrderInv, NEW o \in DOMAIN object, object[o].rank # 0
    PROVE  /\ object[o].rank - 1 \in 0..Top
           /\ RankClass[object[o].rank - 1] \in DOMAIN object
           /\ Reaches(subclass, RankClass[object[o].rank - 1], o)
  <1>1. Top \in Nat /\ object[o].rank \in 0..(Top + 1)
    BY RankAssumption, Typed
  <1>2. object[o].rank - 1 \in 0..Top
    BY <1>1
  <1>3. Reaches(subclass, RankClass[object[o].rank - 1], o)
    BY DEF OrderInv, OrderIn, Rooted
  <1> QED BY <1>2, <1>3, Typed

(* Nothing is above a root.                                                *)
LEMMA RootHasNoSuper ==
    ASSUME TypeInv, OrderInv, NEW l \in subclass
    PROVE  l[2] \notin RankRoots
  <1>1. ASSUME NEW d \in 0..Top, l[2] = RankClass[d]
        PROVE  FALSE
    <2>1. l[1] \in DOMAIN object /\ object[l[1]].rank = object[l[2]].rank
      BY Typed DEF OrderInv, OrderIn, RanksAgreeIn
    <2>2. object[l[1]].rank = d + 1
      BY <1>1, <2>1 DEF OrderInv, OrderIn, FixedRows
    <2>3. d + 1 # 0 /\ (d + 1) - 1 = d
      BY RankAssumption
    <2>4. Reaches(subclass, RankClass[d], l[1])
      BY <2>1, <2>2, <2>3, RootOf
    <2> QED BY <1>1, <2>4 DEF OrderInv, OrderIn, Loopless
  <1> QED BY <1>1 DEF RankRoots

(* A root is a class.                                                      *)
LEMMA RootIsClass ==
    ASSUME TypeInv, OrderInv, NEW d \in 0..Top
    PROVE  RankClass[d] \in Classes(membership, subclass)
  <1>0. Top \in Nat /\ d \in Nat /\ RankClass[d] \in Object
    BY RankAssumption, Roots
  <1>1. ASSUME NEW l \in subclass, l[1] = RankClass[d]
        PROVE  RankClass[d] \in Classes(membership, subclass)
    BY <1>1 DEF Classes
  <1>2. CASE d = 0
    <2>1. Special \in DOMAIN object /\ object[Special].rank = 1
      BY Roots, Typed DEF OrderInv, OrderIn, FixedRows
    <2>2. Reaches(subclass, RankClass[0], Special)
      BY <2>1, RootOf
    <2>3. RankClass[0] # Special
      BY <1>2, Roots DEF RankRoots
    <2> QED BY <1>0, <1>1, <1>2, <2>2, <2>3, FirstLink
  <1>3. CASE d # 0
    <2>1. d - 1 \in 0..Top /\ d - 1 # Top
      BY <1>0, <1>3
    <2>2. PICK l \in membership : l[2] = RankClass[d - 1]
      BY <2>1 DEF OrderInv, OrderIn, RootsHave
    <2>3. l[1] \in DOMAIN object /\ object[l[1]].rank = object[RankClass[d - 1]].rank + 1
      BY <2>2, Typed DEF OrderInv, OrderIn, RanksAgreeIn
    <2>4. object[RankClass[d - 1]].rank = (d - 1) + 1
      BY <2>1 DEF OrderInv, OrderIn, FixedRows
    <2>5. object[l[1]].rank # 0 /\ object[l[1]].rank - 1 = d
      BY <1>0, <2>3, <2>4
    <2>6. Reaches(subclass, RankClass[d], l[1])
      BY <2>3, <2>5, RootOf
    <2>7. CASE l[1] = RankClass[d]
      BY <2>7 DEF Classes
    <2>8. CASE l[1] # RankClass[d]
      BY <1>0, <1>1, <2>6, <2>8, FirstLink
    <2> QED BY <2>7, <2>8
  <1> QED BY <1>2, <1>3

(* So is an object of a rank above 0.                                      *)
LEMMA RankedIsClass ==
    ASSUME TypeInv, OrderInv, NEW o \in DOMAIN object, object[o].rank # 0
    PROVE  o \in Classes(membership, subclass)
  <1>1. PICK d \in 0..Top : d = object[o].rank - 1
    BY RootOf
  <1>2. Reaches(subclass, RankClass[d], o) /\ RankClass[d] \in Object
    BY <1>1, RootOf, Roots
  <1>3. CASE RankClass[d] = o
    BY <1>3, RootIsClass
  <1>4. CASE RankClass[d] # o
    <2>1. \E l \in subclass : l[2] = o
      BY <1>2, <1>4, LastLink, Typed
    <2> QED BY <2>1 DEF Classes
  <1> QED BY <1>3, <1>4

(* In this shape every class is rooted.                                    *)
LEMMA OrderRooted ==
    ASSUME TypeInv, OrderInv
    PROVE  RankRootedIn(object, membership, subclass)
  <1>1. ASSUME NEW o \in DOMAIN object, NEW l \in RankSuperclass(o, object[o].rank)
        PROVE  l \in AllSubclass(membership, subclass)
    <2>1. object[o].rank \in 0..(Top + 1)
      BY Typed
    <2>2. object[o].rank # 0 /\ l = <<RankClass[object[o].rank - 1], o>>
      BY <1>1, <2>1, RankSuperclassIs
    <2>3. PICK d \in 0..Top : d = object[o].rank - 1
      BY <2>2, RootOf
    <2>4. RankClass[d] \in Object /\ Reaches(subclass, RankClass[d], o)
      BY <2>2, <2>3, RootOf, Roots
    <2>5. <<RankClass[d], o>> \in AllSubclass(membership, subclass)
      BY <2>4, RootIsClass, SubclassIsReaches, Typed
    <2> QED BY <2>2, <2>3, <2>5
  <1>2. UNION {RankSuperclass(o, object[o].rank) : o \in DOMAIN object}
            \subseteq AllSubclass(membership, subclass)
    BY <1>1
  <1> QED BY <1>2 DEF RankRootedIn

-----------------------------------------------------------------------------
(* What has nothing below it may go, or be linked anew.                    *)
LEMMA LeafRelinked ==
    ASSUME NEW sub \in SUBSET (Object \X Object), NEW sub2 \in SUBSET (Object \X Object),
           NEW o \in Object, Loopless(sub), \A l \in sub : l[1] # o,
           \A l \in sub : l[2] # o => l \in sub2,
           \A l \in sub2 : (l \in sub /\ l[2] # o) \/ (l[1] # o /\ l[2] = o)
    PROVE  /\ Loopless(sub2)
           /\ \A c, d : Reaches(sub, c, d) /\ d # o => Reaches(sub2, c, d)
  <1> DEFINE rest == {l \in sub : l[2] # o}
  <1>1. rest \in SUBSET (Object \X Object) /\ rest \subseteq sub
    OBVIOUS
  <1>2. Loopless(rest)
    <2>1. \A l \in rest : Reaches(sub, l[1], l[2]) /\ ~Reaches(sub, l[2], l[1])
      BY ReachesLink DEF Loopless
    <2> HIDE DEF rest
    <2> QED BY <1>1, <2>1, LooplessLess
  <1>3. /\ \A l \in rest : l[1] # o /\ l[2] # o
        /\ \A l \in sub2 : l \in rest \/ (l[1] # o /\ l[2] = o)
    OBVIOUS
  <1>4. Loopless(sub2)
    <2> HIDE DEF rest
    <2> QED BY <1>1, <1>2, <1>3, LeafAdded
  <1>5. {l \in sub : l[2] # o} \subseteq sub2
    OBVIOUS
  <1> QED BY <1>4, <1>5, LeafDropped

(* An object that nothing is below may be moved, or be deleted.            *)
LEMMA LeafOrder ==
    ASSUME TypeInv, OrderInv, NEW o \in Object \ Builtin,
           \A l \in membership \cup subclass : l[1] # o,
           NEW obj, NEW mem, NEW sub, NEW up, NEW over,
           DOMAIN obj \subseteq DOMAIN object \cup {o},
           \A p \in DOMAIN object : p # o =>
              obj[p].rank = object[p].rank /\ obj[p].class = object[p].class,
           mem = {l \in membership : l[2] # o} \cup up,
           \A l \in up : /\ l[1] \in DOMAIN object \ {o} /\ l[2] = o
                         /\ object[l[1]].rank = obj[o].rank + 1,
           sub = {l \in subclass : l[2] # o} \cup over,
           sub \in SUBSET (Object \X Object),
           \/ o \notin DOMAIN obj /\ over = {}
           \/ obj[o].rank \in 0..(Top + 1) /\ over = RankSuperclass(o, obj[o].rank)
    PROVE  OrderIn(obj, mem, sub)
  <1>1. FixedRows(obj)
    <2>1. \A b \in Builtin : b \in DOMAIN object /\ b # o
      BY Typed
    <2> QED BY <2>1, Roots DEF OrderInv, OrderIn, FixedRows
  <1>2. ASSUME NEW l \in over
        PROVE  /\ obj[o].rank # 0
               /\ l = <<RankClass[obj[o].rank - 1], o>> /\ obj[o].rank - 1 \in 0..Top
               /\ obj[l[1]].rank = obj[o].rank /\ l[1] \in Builtin
    <2>1. obj[o].rank \in 0..(Top + 1) /\ over = RankSuperclass(o, obj[o].rank)
      BY <1>2
    <2>2. obj[o].rank # 0 /\ obj[o].rank - 1 \in 0..Top
          /\ l = <<RankClass[obj[o].rank - 1], o>>
      BY <1>2, <2>1, RankSuperclassIs
    <2>3. obj[RankClass[obj[o].rank - 1]].rank = (obj[o].rank - 1) + 1
      BY <1>1, <2>2 DEF FixedRows
    <2>4. obj[RankClass[obj[o].rank - 1]].rank = obj[o].rank
      BY <2>1, <2>3
    <2>5. l[1] = RankClass[obj[o].rank - 1] /\ l[1] \in Builtin
      BY <2>2, Roots
    <2> QED BY <2>2, <2>4, <2>5
  <1>3. \A l \in over : l[1] # o /\ l[2] = o
    BY <1>2
  <1>4. Loopless(sub) /\ \A c, d : Reaches(subclass, c, d) /\ d # o => Reaches(sub, c, d)
    <2>1. Loopless(subclass)
      BY DEF OrderInv, OrderIn
    <2>2. subclass \in SUBSET (Object \X Object) /\ \A l \in subclass : l[1] # o
      BY Typed
    <2>3. o \in Object
      OBVIOUS
    <2>4. /\ \A l \in subclass : l[2] # o => l \in sub
          /\ \A l \in sub : (l \in subclass /\ l[2] # o) \/ (l[1] # o /\ l[2] = o)
      BY <1>3
    <2> QED BY <2>1, <2>2, <2>3, <2>4, LeafRelinked
  <1>5. RanksAgreeIn(obj, mem, sub)
    <2>1. \A l \in mem : l \in up \/ (l \in membership /\ l[1] # o /\ l[2] # o)
      OBVIOUS
    <2>2. \A l \in sub : l \in over \/ (l \in subclass /\ l[1] # o /\ l[2] # o)
      OBVIOUS
    <2>3. \A l \in mem : obj[l[1]].rank = obj[l[2]].rank + 1
      BY <2>1, Typed DEF OrderInv, OrderIn, RanksAgreeIn
    <2>4. ASSUME NEW l \in sub
          PROVE  obj[l[1]].rank = obj[l[2]].rank /\ obj[l[2]].rank # 0
      <3>1. CASE l \in subclass /\ l[1] # o /\ l[2] # o
        BY <3>1, Typed DEF OrderInv, OrderIn, RanksAgreeIn
      <3>2. CASE l \in over
        BY <1>2, <1>3, <3>2
      <3> QED BY <2>2, <3>1, <3>2
    <2> QED BY <2>3, <2>4 DEF RanksAgreeIn
  <1>6. Rooted(obj, sub)
    <2>1. ASSUME NEW p \in DOMAIN obj, obj[p].rank # 0
          PROVE  Reaches(sub, RankClass[obj[p].rank - 1], p)
      <3>1. CASE p = o
        <4>1. over = RankSuperclass(o, obj[o].rank) /\ obj[o].rank \in 0..(Top + 1)
          BY <2>1, <3>1
        <4>2. <<RankClass[obj[o].rank - 1], o>> \in over
          BY <2>1, <3>1, <4>1, RankSuperclassIs
        <4>3. <<RankClass[obj[o].rank - 1], o>> \in sub
          BY <4>2
        <4>4. Reaches(sub, <<RankClass[obj[o].rank - 1], o>>[1], <<RankClass[obj[o].rank - 1], o>>[2])
          BY <4>3, ReachesLink
        <4> QED BY <3>1, <4>4
      <3>2. CASE p # o
        <4>1. p \in DOMAIN object /\ obj[p].rank = object[p].rank
          BY <3>2
        <4> QED BY <1>4, <2>1, <3>2, <4>1, RootOf
      <3> QED BY <3>1, <3>2
    <2> QED BY <2>1 DEF Rooted
  <1>7. RootsHave(mem)
    <2>1. \A d \in 0..Top : RankClass[d] # o
      BY Roots
    <2>2. \A l \in membership : l[2] # o => l \in mem
      OBVIOUS
    <2> QED BY <2>1, <2>2 DEF OrderInv, OrderIn, RootsHave
  <1> QED BY <1>1, <1>4, <1>5, <1>6, <1>7 DEF OrderIn

-----------------------------------------------------------------------------
(* The shape is kept, until a request is overtaken or a circle made.       *)
LEMMA InitOrder == Init => OrderInv
  <1> SUFFICES ASSUME Init PROVE OrderInv
    OBVIOUS
  <1> DEFINE link == <<RankClass[0], Special>>
  <1>1. TypeInv /\ DOMAIN object = Builtin /\ 0 \in 0..Top /\ Top \in Nat
    BY InitType, InitRows, RankAssumption
  <1>2. subclass = {link} /\ link[1] = RankClass[0] /\ link[2] = Special
    BY DEF Init
  <1>3. RankClass[0] # Special /\ RankClass[0] \in Builtin
    BY <1>1, Roots DEF RankRoots
  <1>4. /\ \A d \in 0..Top : object[RankClass[d]].rank = d + 1
        /\ object[Special].rank = 1
        /\ \A b \in Builtin : object[b].class \in Builtin \cup {NoClass}
    BY InitRows
  <1> HIDE DEF link
  <1>5. RanksAgreeIn(object, membership, subclass)
    <2>1. \A l \in membership : object[l[1]].rank = object[l[2]].rank + 1
      <3>1. membership = {<<object[o].class, o>> : o \in Builtin \ {TopRank}}
        BY InitRows
      <3>2. \A o \in Builtin \ {TopRank} : object[object[o].class].rank = object[o].rank + 1
        BY InitRows
      <3> QED BY <3>1, <3>2
    <2>2. object[RankClass[0]].rank = 1
      BY <1>1, <1>4
    <2> QED BY <1>2, <1>4, <2>1, <2>2 DEF RanksAgreeIn
  <1>6. Loopless(subclass)
    <2>1. Closed({Special}, subclass)
      BY <1>2, <1>3 DEF Closed
    <2>2. {Special} \in SUBSET Object
      BY Roots
    <2> QED BY <1>2, <1>3, <2>1, <2>2 DEF Loopless, Reaches
  <1>7. Rooted(object, subclass)
    <2>1. ASSUME NEW o \in Builtin
          PROVE  Reaches(subclass, RankClass[object[o].rank - 1], o)
      <3>1. CASE o = Special
        <4>1. object[o].rank - 1 = 0
          BY <1>4, <3>1
        <4>2. Reaches(subclass, link[1], link[2])
          BY <1>2, ReachesLink
        <4> QED BY <1>2, <3>1, <4>1, <4>2
      <3>2. ASSUME NEW d \in 0..Top, o = RankClass[d]
            PROVE  Reaches(subclass, RankClass[object[o].rank - 1], o)
        <4>1. object[o].rank - 1 = d
          BY <1>4, <3>2
        <4> QED BY <3>2, <4>1 DEF Reaches
      <3> QED BY <3>1, <3>2 DEF Builtin, RankRoots
    <2> QED BY <1>1, <2>1 DEF Rooted
  <1>8. RootsHave(membership)
    <2>1. ASSUME NEW d \in 0..Top, d # Top
          PROVE  \E l \in membership : l[2] = RankClass[d]
      <3>1. RankClass[d] \in Builtin \ {TopRank}
        BY <1>1, <2>1, Roots, RankAssumption DEF TopRank
      <3>2. membership = {<<object[o].class, o>> : o \in Builtin \ {TopRank}}
        BY InitRows
      <3>3. <<object[RankClass[d]].class, RankClass[d]>> \in membership
        BY <3>1, <3>2
      <3>4. <<object[RankClass[d]].class, RankClass[d]>>[2] = RankClass[d]
        OBVIOUS
      <3> QED BY <3>3, <3>4
    <2> QED BY <2>1 DEF RootsHave
  <1> QED BY <1>4, <1>5, <1>6, <1>7, <1>8 DEF OrderInv, OrderIn, FixedRows

(* The steps that write, one by one: the member has the rank of the        *)
(* class.                                                                  *)
LEMMA WriteAddMemberOrder ==
    ASSUME TypeInv, OrderInv, NEW r \in Request, StillRight(r), WriteAddMember(r)
    PROVE  OrderInv'
  <1>1. /\ membership' = membership \cup {<<r.class, r.id>>}
        /\ UNCHANGED <<object, subclass>>
        /\ object[r.class].rank = object[r.id].rank + 1
    BY DEF WriteAddMember, StillRight
  <1> QED BY <1>1 DEF OrderInv, OrderIn, RanksAgreeIn, RootsHave

(* A membership is removed only if the object stays in its primary class.  *)
LEMMA WriteRemoveMemberOrder ==
    ASSUME TypeInv, OrderInv, NEW r \in Request, StillRight(r), WriteRemoveMember(r)
    PROVE  OrderInv'
  <1>1. /\ membership' = membership \ {<<r.class, r.id>>}
        /\ UNCHANGED <<object, subclass>>
        /\ <<r.primary, r.id>> \in AllMembership(membership', subclass)
    BY DEF WriteRemoveMember, LeavesPrimary
  <1>2. membership' \in SUBSET (Object \X Object) /\ subclass \in SUBSET (Object \X Object)
    BY <1>1, Typed
  <1>3. \E l \in membership' : l[2] = r.id
    <2>1. r.primary \in Object
      <3>1. AllMembership(membership', subclass) \in SUBSET (Object \X Object)
        BY <1>2, MembershipIsReaches
      <3> QED BY <1>1, <3>1
    <2>2. PICK d \in Object : <<d, r.id>> \in membership'
      BY <1>1, <1>2, <2>1, MembershipIsReaches
    <2>3. <<d, r.id>>[2] = r.id
      OBVIOUS
    <2> QED BY <2>2, <2>3
  <1>4. RootsHave(membership')
    <2>1. ASSUME NEW d \in 0..Top, d # Top
          PROVE  \E l \in membership' : l[2] = RankClass[d]
      <3>1. PICK l \in membership : l[2] = RankClass[d]
        BY <2>1 DEF OrderInv, OrderIn, RootsHave
      <3>2. CASE l[2] = r.id
        BY <1>3, <3>1, <3>2
      <3>3. CASE l[2] # r.id
        BY <1>1, <3>1, <3>3
      <3> QED BY <3>2, <3>3
    <2> QED BY <2>1 DEF RootsHave
  <1> QED BY <1>1, <1>4 DEF OrderInv, OrderIn, RanksAgreeIn

(* What a link is added for, and what it does to what is reached.          *)
LEMMA AddsSubclass ==
    ASSUME TypeInv, NEW r \in Request, ~Circular(r), WriteAddSubclass(r)
    PROVE  /\ \A l \in subclass : Reaches(subclass', l[1], l[2])
           /\ Loopless(subclass) => Loopless(subclass')
           /\ subclass' \in SUBSET (Object \X Object)
           /\ subclass' \subseteq subclass \cup {<<r.class, r.id>>}
  <1>1. PICK c \in DOMAIN object : c = r.class
    BY DEF WriteAddSubclass, Exist
  <1>2. PICK o \in DOMAIN object : o = r.id
    BY DEF WriteAddSubclass, Exist
  <1>3. PICK above : above = {p[1] : p \in {q \in AllSubclass(membership, subclass) : q[2] = c}}
    OBVIOUS
  <1>4. subclass' = {l \in subclass : ~(l[2] = o /\ l[1] \in above)} \cup {<<c, o>>}
    BY <1>1, <1>2, <1>3 DEF WriteAddSubclass, SubclassAdded
  <1>5. c \in Object /\ o \in Object /\ subclass \in SUBSET (Object \X Object)
        /\ membership \in SUBSET (Object \X Object)
    BY Typed
  <1>6. subclass' \in SUBSET (Object \X Object)
    BY <1>4, <1>5
  <1>7. ~Reaches(subclass, o, c)
    <2>1. o # c /\ <<o, c>> \notin AllSubclass(membership, subclass)
      BY <1>1, <1>2 DEF Circular, WriteAddSubclass
    <2>2. ASSUME Reaches(subclass, o, c)
          PROVE  o \in Classes(membership, subclass)
      BY <1>5, <2>1, <2>2, FirstLink DEF Classes
    <2> QED BY <1>5, <2>1, <2>2, SubclassIsReaches
  <1>8. ASSUME NEW a \in above
        PROVE  Reaches(subclass, a, c)
    <2>1. PICK p \in AllSubclass(membership, subclass) : p[2] = c /\ p[1] = a
      BY <1>3
    <2>2. p = <<a, c>> /\ a \in Object
      BY <1>5, <2>1 DEF AllSubclass, Classes
    <2> QED BY <1>5, <2>1, <2>2, SubclassIsReaches
  <1>9. (\A l \in subclass : Reaches(subclass', l[1], l[2]))
        /\ (Loopless(subclass) => Loopless(subclass'))
    BY <1>4, <1>5, <1>6, <1>7, <1>8, SubclassAddedKeeps
  <1> QED BY <1>1, <1>2, <1>4, <1>6, <1>9

(* Where no circle is made the class is not below the new subclass.        *)
LEMMA WriteAddSubclassOrder ==
    ASSUME TypeInv, OrderInv, NEW r \in Request, StillRight(r), ~Circular(r), WriteAddSubclass(r)
    PROVE  OrderInv'
  <1>1. /\ \A l \in subclass : Reaches(subclass', l[1], l[2])
        /\ Loopless(subclass')
        /\ subclass' \in SUBSET (Object \X Object)
        /\ subclass' \subseteq subclass \cup {<<r.class, r.id>>}
    BY AddsSubclass DEF OrderInv, OrderIn
  <1>2. /\ UNCHANGED <<object, membership>>
        /\ object[r.class].rank = object[r.id].rank /\ object[r.id].rank # 0
    BY DEF WriteAddSubclass, StillRight
  <1>3. RanksAgreeIn(object, membership, subclass')
    BY <1>1, <1>2 DEF OrderInv, OrderIn, RanksAgreeIn
  <1>4. Rooted(object, subclass')
    <2>1. ASSUME NEW o \in DOMAIN object, object[o].rank # 0
          PROVE  Reaches(subclass', RankClass[object[o].rank - 1], o)
      <3>1. PICK root \in Object : root = RankClass[object[o].rank - 1]
        BY <2>1, RootOf, Typed
      <3>2. Reaches(subclass, root, o)
        BY <2>1, <3>1, RootOf
      <3>3. Reaches(subclass', root, o)
        BY <1>1, <3>2, ReachesKept
      <3> QED BY <3>1, <3>3
    <2> QED BY <2>1 DEF Rooted
  <1> QED BY <1>1, <1>2, <1>3, <1>4 DEF OrderInv, OrderIn

(* A class taken out of its last superclass goes under the root of its     *)
(* rank.                                                                   *)
LEMMA WriteRemoveSubclassOrder ==
    ASSUME TypeInv, OrderInv, NEW r \in Request, StillRight(r), WriteRemoveSubclass(r)
    PROVE  OrderInv'
  <1>1. PICK o \in DOMAIN object : o = r.id
    BY DEF WriteRemoveSubclass, Exist
  <1>2. PICK c \in Object : c = r.class
    BY RequestHolds DEF WriteRemoveSubclass
  <1>3. PICK left : left = subclass \ {<<c, o>>}
    OBVIOUS
  <1>4. /\ subclass' = IF o \in RankRoots \/ \E l \in left : l[2] = o THEN left
                       ELSE left \cup RankSuperclass(o, object[o].rank)
        /\ UNCHANGED <<object, membership>>
    BY <1>1, <1>2, <1>3 DEF WriteRemoveSubclass, SubclassRemoved
  <1>5. object[o].rank # 0 /\ object[o].rank \in 0..(Top + 1) /\ o \in Object
    BY <1>1, Typed DEF StillRight, WriteRemoveSubclass
  <1>6. PICK d \in 0..Top : d = object[o].rank - 1
    BY <1>5, RootOf
  <1>7. PICK root \in Object : root = RankClass[d]
    BY Roots
  <1>8. /\ Reaches(subclass, root, o) /\ root \in Builtin /\ root \in RankRoots
        /\ object[root].rank = object[o].rank
    <2>1. Reaches(subclass, root, o)
      BY <1>5, <1>6, <1>7, RootOf
    <2>2. object[root].rank = d + 1 /\ object[o].rank = d + 1
      BY <1>5, <1>6, <1>7 DEF OrderInv, OrderIn, FixedRows
    <2> QED BY <1>7, <2>1, <2>2, Roots DEF RankRoots
  <1>9. subclass \in SUBSET (Object \X Object) /\ subclass' \in SUBSET (Object \X Object)
    <2>1. RankSuperclass(o, object[o].rank) \subseteq Object \X Object
      BY <1>5, RankSuperclassIs, Roots
    <2> QED BY <1>3, <1>4, <2>1, Typed
  <1>10. ASSUME NEW b \in Object, <<b, o>> \in subclass', subclass \ {<<c, o>>} \subseteq subclass',
                ~Reaches(subclass, o, b), Reaches(subclass, root, b)
         PROVE  Rooted(object, subclass')
    <2>1. ASSUME NEW p \in DOMAIN object, object[p].rank # 0
          PROVE  Reaches(subclass', RankClass[object[p].rank - 1], p)
      <3>1. PICK q \in Object : q = RankClass[object[p].rank - 1]
        BY <2>1, RootOf, Typed
      <3>2. Reaches(subclass, q, p)
        BY <2>1, <3>1, RootOf
      <3>3. Reaches(subclass, o, p) => q = root
        <4>1. Reaches(subclass, o, p) => object[p].rank = object[o].rank
          BY <1>5, <1>9, ReachesRank DEF OrderInv, OrderIn, RanksAgreeIn
        <4> QED BY <1>6, <1>7, <3>1, <4>1
      <3>4. Reaches(subclass', q, p)
        BY <1>5, <1>9, <1>10, <3>2, <3>3, SubclassRemovedKeeps
      <3> QED BY <3>1, <3>4
    <2> QED BY <2>1 DEF Rooted
  <1>11. ASSUME subclass' = left
         PROVE  Loopless(subclass') /\ RanksAgreeIn(object, membership, subclass')
    <2>1. \A l \in subclass' : /\ l \in subclass /\ Reaches(subclass, l[1], l[2])
                               /\ ~Reaches(subclass, l[2], l[1])
      BY <1>3, <1>11, ReachesLink DEF OrderInv, OrderIn, Loopless
    <2> QED BY <1>9, <2>1, LooplessLess DEF OrderInv, OrderIn, RanksAgreeIn
  <1>12. CASE o \in RankRoots
    <2>1. \A l \in subclass : l[2] # o
      BY <1>12, RootHasNoSuper
    <2>2. <<c, o>> \notin subclass
      <3>1. <<c, o>>[2] = o
        OBVIOUS
      <3> QED BY <2>1, <3>1
    <2>3. subclass' = subclass
      BY <1>3, <1>4, <1>12, <2>2
    <2> QED BY <1>4, <2>3 DEF OrderInv
  <1>13. CASE o \notin RankRoots /\ \E l \in left : l[2] = o
    <2>1. subclass' = left
      BY <1>4, <1>13
    <2>2. PICK l \in left : l[2] = o
      BY <1>13
    <2>3. PICK b \in DOMAIN object : b = l[1]
      BY <1>3, <2>2, Typed
    <2>4. <<b, o>> = l /\ b \in Object /\ l \in subclass
      BY <1>3, <1>9, <2>2, <2>3
    <2>5. ~Reaches(subclass, o, b)
      BY <2>2, <2>3, <2>4 DEF OrderInv, OrderIn, Loopless
    <2>6. Reaches(subclass, root, b)
      <3>1. object[b].rank = object[o].rank
        BY <2>2, <2>3, <2>4 DEF OrderInv, OrderIn, RanksAgreeIn
      <3> QED BY <1>5, <1>6, <1>7, <2>3, <3>1, RootOf
    <2>7. Rooted(object, subclass')
      BY <1>3, <1>10, <2>1, <2>2, <2>4, <2>5, <2>6
    <2> QED BY <1>4, <1>11, <2>1, <2>7 DEF OrderInv, OrderIn
  <1>14. CASE o \notin RankRoots /\ ~\E l \in left : l[2] = o
    <2>1. subclass' = left \cup {<<root, o>>}
      BY <1>4, <1>5, <1>6, <1>7, <1>14, RankSuperclassIs
    <2>2. root # o
      BY <1>8, <1>14
    <2>3. ~Reaches(subclass, o, root)
      BY <1>5, <1>8, <1>9, <2>2, LastLink, RootHasNoSuper
    <2>4. Reaches(subclass, root, root)
      BY DEF Reaches
    <2>5. Rooted(object, subclass')
      BY <1>3, <1>10, <2>1, <2>3, <2>4
    <2>6. ASSUME NEW l \in subclass'
          PROVE  Reaches(subclass, l[1], l[2]) /\ ~Reaches(subclass, l[2], l[1])
      <3>1. CASE l \in subclass
        BY <3>1, ReachesLink DEF OrderInv, OrderIn, Loopless
      <3>2. CASE l = <<root, o>>
        BY <1>8, <2>3, <3>2
      <3> QED BY <1>3, <2>1, <3>1, <3>2
    <2>7. Loopless(subclass')
      BY <1>9, <2>6, LooplessLess
    <2>8. RanksAgreeIn(object, membership, subclass')
      BY <1>3, <1>5, <1>8, <2>1 DEF OrderInv, OrderIn, RanksAgreeIn
    <2> QED BY <1>4, <2>5, <2>7, <2>8 DEF OrderInv, OrderIn
  <1> QED BY <1>12, <1>13, <1>14

(* A new object is put below its class, or below the root of its rank.     *)
LEMMA WriteCreateOrder ==
    ASSUME TypeInv, TypeInv', OrderInv, NEW r \in Request, WriteCreate(r)
    PROVE  OrderInv'
  <1> DEFINE row == [class |-> r.class, rank |-> object[r.class].rank - 1, owner |-> r.owner]
  <1>1. /\ r.class \in DOMAIN object /\ r.id \notin DOMAIN object /\ row.rank >= 0
        /\ object' = Put(object, r.id, row)
        /\ membership' = membership \cup {<<r.class, r.id>>}
        /\ subclass' = subclass \cup RankSuperclass(r.id, row.rank)
    BY DEF WriteCreate, Exist
  <1>2. object[r.class].rank \in 0..(Top + 1) /\ Top \in Nat
    BY <1>1, Typed, RankAssumption
  <1>3. row.rank \in 0..(Top + 1) /\ object[r.class].rank = row.rank + 1
    BY <1>1, <1>2
  <1> HIDE DEF row
  <1>4. /\ DOMAIN object' = DOMAIN object \cup {r.id} /\ object'[r.id] = row
        /\ \A p \in DOMAIN object : p # r.id => object'[p] = object[p]
    BY <1>1 DEF Put
  <1>5. r.id \in Object \ Builtin
    BY <1>1, Typed, RequestHolds DEF WriteCreate
  <1>6. \A l \in membership \cup subclass : l[1] # r.id /\ l[2] # r.id
    BY <1>1, Typed
  <1>7. subclass' \in SUBSET (Object \X Object)
    BY DEF TypeInv, ObjectsTypeOK
  <1> DEFINE up == {<<r.class, r.id>>}
             over == RankSuperclass(r.id, row.rank)
  <1>8. membership' = {l \in membership : l[2] # r.id} \cup up
        /\ subclass' = {l \in subclass : l[2] # r.id} \cup over
    BY <1>1, <1>6
  <1>9. \A l \in up : l[1] \in DOMAIN object \ {r.id} /\ l[2] = r.id
                      /\ object[l[1]].rank = object'[r.id].rank + 1
    BY <1>1, <1>3, <1>4
  <1>10. over = RankSuperclass(r.id, object'[r.id].rank) /\ object'[r.id].rank \in 0..(Top + 1)
    BY <1>3, <1>4
  <1> HIDE DEF up, over
  <1>11. OrderIn(object', membership', subclass')
    BY <1>4, <1>5, <1>6, <1>7, <1>8, <1>9, <1>10, LeafOrder, ZenonT(60)
  <1> QED BY <1>11 DEF OrderInv

(* An object that is deleted has nothing below it.                         *)
LEMMA WriteDeleteOrder ==
    ASSUME TypeInv, TypeInv', OrderInv, NEW r \in Request, StillRight(r), WriteDelete(r)
    PROVE  OrderInv'
  <1>1. PICK o \in Object \ Builtin : o = r.id
    BY Typed DEF WriteDelete, StillRight, Exist
  <1>2. /\ DOMAIN object' = DOMAIN object \ {o}
        /\ \A p \in DOMAIN object : p # o => object'[p] = object[p]
        /\ membership' = {l \in membership : l[2] # o}
        /\ subclass' = {l \in subclass : l[2] # o}
        /\ \A l \in membership \cup subclass : l[1] # o
    BY <1>1 DEF WriteDelete, Cascaded, Childless
  <1>3. subclass' \in SUBSET (Object \X Object)
    BY <1>2, Typed
  <1> DEFINE none == {}
  <1>4. /\ membership' = {l \in membership : l[2] # o} \cup none
        /\ subclass' = {l \in subclass : l[2] # o} \cup none
        /\ none = {} /\ o \notin DOMAIN object' /\ DOMAIN object' \subseteq DOMAIN object \cup {o}
        /\ \A l \in none : l[1] \in DOMAIN object \ {o} /\ l[2] = o
                            /\ object[l[1]].rank = object'[o].rank + 1
        /\ \A p \in DOMAIN object : p # o =>
                object'[p].rank = object[p].rank /\ object'[p].class = object[p].class
    BY <1>2
  <1> HIDE DEF none
  <1>5. OrderIn(object', membership', subclass')
    BY <1>2, <1>3, <1>4, LeafOrder, ZenonT(60)
  <1> QED BY <1>5 DEF OrderInv

(* A Registration that is refused changes no link.                         *)
LEMMA WriteRefusedOrder ==
    ASSUME TypeInv, OrderInv, NEW r \in Request, WriteRefused(r)
    PROVE  OrderInv'
  <1>1. /\ r.op = "register" /\ r.id \in DOMAIN object
        /\ object' = Put(object, r.id, WithOwner(r)) /\ UNCHANGED <<membership, subclass>>
    BY DEF WriteRefused, Exist
  <1>2. /\ DOMAIN object' = DOMAIN object
        /\ \A p \in DOMAIN object : /\ object'[p].class = object[p].class
                                    /\ object'[p].rank = object[p].rank
    BY <1>1, WithOwnerIs DEF Put
  <1>3. /\ \A l \in membership \cup subclass : l[1] \in DOMAIN object /\ l[2] \in DOMAIN object
        /\ \A b \in Builtin : b \in DOMAIN object
        /\ \A d \in 0..Top : RankClass[d] \in DOMAIN object
    BY Typed
  <1>4. FixedRows(object')
    BY <1>2, <1>3, Roots DEF OrderInv, OrderIn, FixedRows
  <1>5. RanksAgreeIn(object', membership, subclass)
    BY <1>2, <1>3 DEF OrderInv, OrderIn, RanksAgreeIn
  <1>6. Rooted(object', subclass)
    BY <1>2 DEF OrderInv, OrderIn, Rooted
  <1> QED BY <1>1, <1>4, <1>5, <1>6 DEF OrderInv, OrderIn

(* Of what rank and class an object is registered anew.                    *)
LEMMA Registers ==
    ASSUME TypeInv, RegistrationCurrent, ~overwritten, OrderInv,
           NEW r \in Request, StillRight(r), ~Circular(r), WriteRegister(r)
    PROVE  /\ r.op = "register" /\ r.id \in DOMAIN object \ Builtin /\ r.spec \in Row /\ r.from \in Row
           /\ r.spec.class \in DOMAIN object /\ r.spec.class # r.id
           /\ r.from.class = object[r.id].class /\ r.from.rank = object[r.id].rank
           /\ DOMAIN object' = DOMAIN object
           /\ object'[r.id].class = r.spec.class /\ object'[r.id].rank = r.spec.rank
           /\ \A p \in DOMAIN object : p # r.id => object'[p] = object[p]
           /\ r.spec.class # r.from.class \/ r.spec.rank # r.from.rank
                 => object[r.spec.class].rank = r.spec.rank + 1
           /\ r.spec.rank # r.from.rank => \A l \in membership \cup subclass : l[1] # r.id
  <1>1. /\ r.op = "register" /\ r.id \in DOMAIN object \ Builtin /\ r.spec.class \in DOMAIN object
        /\ r.from = registration[r.id] /\ r.spec.class # r.id
        /\ Acceptable(r.id, r.spec, r.from)
        /\ object' = Put(object, r.id, WithClass(r))
    BY DEF WriteRegister, StillRight, Circular, Exist
  <1>2. r.spec \in Row /\ r.from \in Row
    BY <1>1, RequestHolds
  <1>3. r.from.class = object[r.id].class /\ r.from.rank = object[r.id].rank
    BY <1>1 DEF RegistrationCurrent
  <1>4. WithClass(r).class = r.spec.class /\ WithClass(r).rank = r.spec.rank
    BY <1>1, <1>3, WithClassIs
  <1>5. r.spec.class # r.from.class \/ r.spec.rank # r.from.rank
           => object[r.spec.class].rank = r.spec.rank + 1
    BY <1>1 DEF Acceptable
  <1>6. ASSUME r.spec.rank # r.from.rank
        PROVE  \A l \in membership \cup subclass : l[1] # r.id
    <2>1. CASE r.spec.rank = 0
      BY <1>1, <1>6, <2>1 DEF Acceptable, Childless
    <2>2. CASE r.from.rank = 0
      <3>1. object[r.id].rank = 0
        BY <1>3, <2>2
      <3>2. \A l \in membership : object[l[1]].rank # 0
        <4>1. \A l \in membership : object[l[2]].rank \in Nat
                                    /\ object[l[1]].rank = object[l[2]].rank + 1
          BY Typed, RankAssumption DEF OrderInv, OrderIn, RanksAgreeIn
        <4> QED BY <4>1
      <3>3. \A l \in subclass : object[l[1]].rank # 0
        BY DEF OrderInv, OrderIn, RanksAgreeIn
      <3> QED BY <3>1, <3>2, <3>3
    <2> QED BY <1>1, <1>6, <2>1, <2>2 DEF Acceptable
  <1> QED BY <1>1, <1>2, <1>3, <1>4, <1>5, <1>6 DEF Put

(* A Registration that is taken moves its object, and nothing below it.    *)
LEMMA WriteRegisterOrder ==
    ASSUME TypeInv, TypeInv', RegistrationCurrent, ~overwritten, OrderInv,
           NEW r \in Request, StillRight(r), ~Circular(r), WriteRegister(r)
    PROVE  OrderInv'
  <1>1. PICK o \in DOMAIN object \ Builtin : o = r.id
    BY Registers
  <1>2. PICK c \in DOMAIN object : c = r.spec.class /\ c # o
    BY <1>1, Registers
  <1>3. /\ DOMAIN object' = DOMAIN object
        /\ object'[o].class = c /\ object'[o].rank = r.spec.rank
        /\ object[o].rank = r.from.rank /\ object[o].class = r.from.class
        /\ \A p \in DOMAIN object : p # o => object'[p] = object[p]
    BY <1>1, <1>2, Registers
  <1>4. membership' = Reclassed(o, r.spec, r.from).membership
        /\ subclass' = Reclassed(o, r.spec, r.from).subclass
    BY <1>1 DEF WriteRegister
  <1>5. r.spec \in Row /\ r.from \in Row
    BY Registers
  <1>6. CASE r.spec.rank # r.from.rank
    <2> DEFINE up == {<<c, o>>}
               over == RankSuperclass(o, r.spec.rank)
    <2>1. membership' = {l \in membership : l[2] # o} \cup up
      BY <1>2, <1>4, <1>5, <1>6, ReclassedAnew
    <2>2. Reclassed(o, r.spec, r.from).subclass = {l \in subclass : l[2] # o} \cup over
      BY <1>5, <1>6, ReclassedAnew
    <2>3. subclass' = {l \in subclass : l[2] # o} \cup over
      BY <1>4, <2>2
    <2>4. over = RankSuperclass(o, object'[o].rank) /\ object'[o].rank \in 0..(Top + 1)
      BY <1>3, <1>5 DEF Row
    <2>5. \A l \in membership \cup subclass : l[1] # o
      BY <1>1, <1>6, Registers
    <2>6. object[c].rank = object'[o].rank + 1
      BY <1>1, <1>2, <1>3, <1>6, Registers
    <2>7. \A l \in up : l[1] \in DOMAIN object \ {o} /\ l[2] = o
                        /\ object[l[1]].rank = object'[o].rank + 1
      BY <1>2, <2>6
    <2>8. subclass' \in SUBSET (Object \X Object) /\ o \in Object \ Builtin
      BY Typed DEF TypeInv, ObjectsTypeOK
    <2>9. /\ DOMAIN object' \subseteq DOMAIN object \cup {o}
          /\ \A p \in DOMAIN object : p # o =>
                object'[p].rank = object[p].rank /\ object'[p].class = object[p].class
      BY <1>3
    <2> HIDE DEF up, over
    <2>10. OrderIn(object', membership', subclass')
      BY <2>1, <2>3, <2>4, <2>5, <2>7, <2>8, <2>9, LeafOrder, ZenonT(60)
    <2> QED BY <2>10 DEF OrderInv
  <1>7. CASE ~(r.spec.rank # r.from.rank)
    <2>1. subclass' = subclass
      BY <1>4, <1>5, <1>7, ReclassedSame
    <2>2. \/ membership' = membership
          \/ membership' = membership \cup {<<c, o>>} /\ r.spec.class # r.from.class
      BY <1>2, <1>4, <1>5, <1>7, ReclassedSame, ZenonT(60)
    <2>3. \A p \in DOMAIN object : object'[p].rank = object[p].rank
      BY <1>3, <1>7
    <2>4. /\ \A l \in membership \cup subclass : l[1] \in DOMAIN object /\ l[2] \in DOMAIN object
          /\ \A b \in Builtin : b \in DOMAIN object /\ b # o
          /\ \A d \in 0..Top : RankClass[d] \in DOMAIN object
      BY Typed
    <2>5. FixedRows(object')
      BY <1>3, <2>3, <2>4, Roots DEF OrderInv, OrderIn, FixedRows
    <2>6. RanksAgreeIn(object', membership', subclass')
      <3>1. r.spec.class # r.from.class => object[c].rank = r.spec.rank + 1
        BY <1>2, Registers
      <3>2. \A l \in membership : object'[l[1]].rank = object'[l[2]].rank + 1
        BY <2>3, <2>4 DEF OrderInv, OrderIn, RanksAgreeIn
      <3>3. r.spec.class # r.from.class => object'[c].rank = object'[o].rank + 1
        BY <1>3, <2>3, <3>1
      <3>4. \A l \in membership' : object'[l[1]].rank = object'[l[2]].rank + 1
        BY <2>2, <3>2, <3>3
      <3>5. \A l \in subclass : object'[l[1]].rank = object'[l[2]].rank /\ object'[l[2]].rank # 0
        BY <2>3, <2>4 DEF OrderInv, OrderIn, RanksAgreeIn
      <3> QED BY <2>1, <3>4, <3>5 DEF RanksAgreeIn
    <2>7. Rooted(object', subclass')
      BY <1>3, <2>1, <2>3 DEF OrderInv, OrderIn, Rooted
    <2>8. RootsHave(membership')
      BY <2>2 DEF OrderInv, OrderIn, RootsHave
    <2> QED BY <2>1, <2>5, <2>6, <2>7, <2>8 DEF OrderInv, OrderIn
  <1> QED BY <1>6, <1>7

(* What a dump leaves has passed Verify; here it makes no circle.          *)
LEMMA LoadDumpOrder ==
    ASSUME TypeInv, TypeInv', OrderInv, ~circled', NEW o \in Object, NEW k \in DOMAIN object,
           NEW supers \in SUBSET (DOMAIN object),
           Verify(object, membership, subclass), LoadDump(o, k, supers)
    PROVE  OrderInv'
  <1>1. /\ o \notin Builtin
        /\ \A kept \in SUBSET (DOMAIN object) :
              o \notin kept /\ (\A b \in kept : object[b].class \in kept \cup {NoClass})
                 => \A b \in kept : object'[b] = object[b]
        /\ membership' = {l \in membership : l[2] # o} \cup {<<k, o>>}
        /\ Verify(object', membership', subclass')
        /\ Acyclic(membership', subclass')
    BY LoadDumpIs
  <1>2. membership' \in SUBSET (Object \X Object) /\ subclass' \in SUBSET (Object \X Object)
        /\ DOMAIN object' \subseteq Object
        /\ \A p \in DOMAIN object' : object'[p].rank \in 0..(Top + 1)
    BY DEF TypeInv, ObjectsTypeOK, Row
  <1>3. FixedRows(object')
    <2>1. Builtin \in SUBSET (DOMAIN object)
          /\ \A b \in Builtin : object[b].class \in Builtin \cup {NoClass}
      BY Typed DEF OrderInv, OrderIn, FixedRows
    <2>2. \A b \in Builtin : object'[b] = object[b]
      BY <1>1, <2>1
    <2> QED BY <2>2, Roots DEF OrderInv, OrderIn, FixedRows
  <1>4. RanksAgreeIn(object', membership', subclass')
    BY <1>1 DEF Verify
  <1>5. Loopless(subclass')
    <2>1. ASSUME NEW l \in subclass', Reaches(subclass', l[2], l[1])
          PROVE  FALSE
      <3>1. l[2] \in Object /\ l[1] \in Object
        BY <1>2
      <3>2. l[2] \in Classes(membership', subclass')
        BY DEF Classes
      <3>3. <<l[2], l[1]>> \in AllSubclass(membership', subclass')
        BY <1>2, <2>1, <3>1, <3>2, SubclassIsReaches
      <3>4. <<l[2], l[1]>> \in {<<m[2], m[1]>> : m \in subclass'}
        OBVIOUS
      <3> QED BY <1>1, <3>3, <3>4 DEF Acyclic
    <2> QED BY <2>1 DEF Loopless
  <1>6. Rooted(object', subclass')
    <2>1. ASSUME NEW p \in DOMAIN object', object'[p].rank # 0
          PROVE  Reaches(subclass', RankClass[object'[p].rank - 1], p)
      <3>1. PICK rank \in 0..(Top + 1) : rank = object'[p].rank
        BY <1>2
      <3>2. rank - 1 \in 0..Top /\ <<RankClass[rank - 1], p>> \in RankSuperclass(p, rank)
        BY <2>1, <3>1, RankSuperclassIs
      <3>3. <<RankClass[rank - 1], p>> \in AllSubclass(membership', subclass')
        <4>1. RankRootedIn(object', membership', subclass')
          BY <1>1 DEF Verify
        <4>2. RankSuperclass(p, object'[p].rank) \subseteq AllSubclass(membership', subclass')
          BY <4>1 DEF RankRootedIn
        <4> QED BY <3>1, <3>2, <4>2
      <3>4. PICK root \in Object : root = RankClass[rank - 1]
        BY <3>2, Roots
      <3>5. Reaches(subclass', root, p)
        BY <1>2, <3>3, <3>4, SubclassIsReaches
      <3> QED BY <3>1, <3>4, <3>5
    <2> QED BY <2>1 DEF Rooted
  <1>7. RootsHave(membership')
    <2>1. \A d \in 0..Top : RankClass[d] # o
      BY <1>1, Roots
    <2> QED BY <1>1, <2>1 DEF OrderInv, OrderIn, RootsHave
  <1> QED BY <1>3, <1>4, <1>5, <1>6, <1>7 DEF OrderInv, OrderIn

(* A request that commits, and still neither has been overtaken nor has a  *)
(* circle been made: it is right about what it has read.                   *)
LEMMA CommitsRight ==
    ASSUME ReadInv, NEW r \in open, Commit(r), ~overtaken', ~circled'
    PROVE  /\ r \in Request /\ StillRight(r) /\ ~Circular(r)
           /\ ~overtaken /\ ~overwritten /\ ~circled
  <1>1. ~overtaken /\ ~circled /\ r \notin behind /\ ~Circular(r)
    BY DEF Commit
  <1> QED BY <1>1 DEF ReadInv, TypeInv, ObjectsTypeOK

(* Every step keeps the invariant.                                         *)
LEMMA NextOrder ==
    ASSUME ReadInv, ShapeInv, Next
    PROVE  ShapeInv'
  <1>1. TypeInv /\ TypeInv' /\ RegistrationCurrent
    BY NextType DEF ReadInv
  <1> SUFFICES ASSUME ~overtaken', ~circled' PROVE OrderInv'
    BY DEF ShapeInv
  <1>2. ASSUME NEW r \in Request, Open(r)
        PROVE  OrderInv'
    BY <1>2 DEF Open, tables, history, ShapeInv, OrderInv
  <1>3. ASSUME NEW r \in open, Write(r)
        PROVE  OrderInv'
    <2>1. CASE Rollback(r)
      BY <2>1 DEF Rollback, tables, history, ShapeInv, OrderInv
    <2>2. CASE Commit(r) /\ ~Rollback(r)
      <3>1. r \in Request /\ StillRight(r) /\ ~Circular(r) /\ ~overwritten
        BY <2>2, CommitsRight
      <3>2. OrderInv
        BY <2>2, CommitsRight DEF ShapeInv
      <3> QED BY <1>1, <1>3, <2>2, <3>1, <3>2, WriteAddMemberOrder, WriteRemoveMemberOrder,
                 WriteAddSubclassOrder, WriteRemoveSubclassOrder, WriteCreateOrder,
                 WriteDeleteOrder, WriteRefusedOrder, WriteRegisterOrder DEF Write
    <2> QED BY <1>1, <1>3, <2>1, <2>2, WriteIs
  <1>4. ASSUME Verify(object, membership, subclass),
               NEW o \in Object, NEW k \in DOMAIN object, NEW supers \in SUBSET (DOMAIN object),
               LoadDump(o, k, supers)
        PROVE  OrderInv'
    <2>1. ~overtaken /\ ~circled
      BY <1>1, <1>4, LoadDumpIs
    <2> QED BY <1>1, <1>4, <2>1, LoadDumpOrder DEF ShapeInv
  <1> QED BY <1>1, <1>2, <1>3, <1>4, NextIs

(* Both invariants hold in every state of every behaviour.                 *)
LEMMA OrderCorrect == Spec => [](ReadInv /\ ShapeInv)
  <1>1. ShapeInv /\ UNCHANGED vars => ShapeInv'
    BY DEF vars, history, ShapeInv, OrderInv
  <1>2. ReadInv /\ ShapeInv /\ [Next]_vars => ShapeInv'
    BY <1>1, NextOrder
  <1>3. Init => ShapeInv
    BY InitOrder DEF ShapeInv
  <1>4. Spec => []ReadInv
    BY ReadCorrect
  <1> QED BY <1>2, <1>3, <1>4, PTL DEF Spec

(* Links join ranks that fit, as requests link, unlink, create, delete and *)
(* register objects and load dumps, until one of them is overtaken and     *)
(* writes, or a circle is made.                                            *)
THEOREM RanksAgreeCorrect == Spec => []RanksAgree
  <1>1. ShapeInv => RanksAgree
    BY DEF ShapeInv, OrderInv, OrderIn, RanksAgree
  <1> QED BY OrderCorrect, <1>1, PTL

(* On the same terms every class can be reached from the root of its rank. *)
THEOREM RankRootedCorrect == Spec => []RankRooted
  <1>1. ReadInv /\ ShapeInv => RankRooted
    BY OrderRooted DEF ReadInv, ShapeInv, RankRooted
  <1> QED BY OrderCorrect, <1>1, PTL

-----------------------------------------------------------------------------
(* Who stays in a class: whoever a link has in it that stays, from a class *)
(* that is still reached.                                                  *)
LEMMA MemberKept ==
    ASSUME TypeInv, TypeInv', NEW m \in AllMembership(membership, subclass),
           \A d \in Object : Reaches(subclass, m[1], d) /\ <<d, m[2]>> \in membership
              => Reaches(subclass', m[1], d) /\ <<d, m[2]>> \in membership'
    PROVE  m \in AllMembership(membership', subclass')
  <1>1. /\ membership \in SUBSET (Object \X Object) /\ subclass \in SUBSET (Object \X Object)
        /\ membership' \in SUBSET (Object \X Object) /\ subclass' \in SUBSET (Object \X Object)
    BY DEF TypeInv, ObjectsTypeOK
  <1>2. AllMembership(membership, subclass) \in SUBSET (Object \X Object)
    BY <1>1, MembershipIsReaches
  <1>3. PICK c \in Object, o \in Object : m = <<c, o>>
    BY <1>2
  <1>4. \E d \in Object : Reaches(subclass, c, d) /\ <<d, o>> \in membership
    BY <1>1, <1>3, MembershipIsReaches
  <1>5. \E d \in Object : Reaches(subclass', c, d) /\ <<d, o>> \in membership'
    BY <1>3, <1>4
  <1>6. <<c, o>> \in AllMembership(membership', subclass')
    BY <1>1, <1>5, MembershipIsReaches
  <1> QED BY <1>3, <1>6

(* A direct membership is a membership.                                    *)
LEMMA MemberDirect ==
    ASSUME TypeInv', NEW c \in Object, NEW o, <<c, o>> \in membership'
    PROVE  <<c, o>> \in AllMembership(membership', subclass')
  <1>1. membership' \in SUBSET (Object \X Object) /\ subclass' \in SUBSET (Object \X Object)
    BY DEF TypeInv, ObjectsTypeOK
  <1>2. Reaches(subclass', c, c)
    BY DEF Reaches
  <1> QED BY <1>1, <1>2, MembershipIsReaches

(* Where links are only added, or replaced by others, everyone stays.      *)
LEMMA KeepsAll ==
    ASSUME TypeInv, TypeInv', membership \subseteq membership',
           \A l \in subclass : Reaches(subclass', l[1], l[2]),
           NEW m \in AllMembership(membership, subclass)
    PROVE  m \in AllMembership(membership', subclass')
  <1>1. /\ membership \in SUBSET (Object \X Object) /\ subclass \in SUBSET (Object \X Object)
        /\ subclass' \in SUBSET (Object \X Object)
    BY DEF TypeInv, ObjectsTypeOK
  <1>2. AllMembership(membership, subclass) \in SUBSET (Object \X Object)
    BY <1>1, MembershipIsReaches
  <1>3. m[1] \in Object
    BY <1>2
  <1>4. \A d \in Object : Reaches(subclass, m[1], d) => Reaches(subclass', m[1], d)
    BY <1>1, <1>3, ReachesKept
  <1> QED BY <1>4, MemberKept

(* Where the links of an object that has nothing below it change, everyone *)
(* else stays.                                                             *)
LEMMA KeepsOthers ==
    ASSUME TypeInv, TypeInv', NEW o \in Object, \A l \in membership \cup subclass : l[1] # o,
           {l \in membership : l[2] # o} \subseteq membership',
           {l \in subclass : l[2] # o} \subseteq subclass',
           NEW m \in AllMembership(membership, subclass), m[2] # o
    PROVE  m \in AllMembership(membership', subclass')
  <1>1. subclass \in SUBSET (Object \X Object)
    BY DEF TypeInv, ObjectsTypeOK
  <1>2. ASSUME NEW d \in Object, Reaches(subclass, m[1], d), <<d, m[2]>> \in membership
        PROVE  Reaches(subclass', m[1], d) /\ <<d, m[2]>> \in membership'
    <2>1. <<d, m[2]>>[1] = d /\ <<d, m[2]>>[2] = m[2]
      OBVIOUS
    <2>2. d # o /\ <<d, m[2]>> \in membership'
      BY <1>2, <2>1
    <2>3. Reaches(subclass', m[1], d)
      BY <1>1, <1>2, <2>2, LeafDropped
    <2> QED BY <2>2, <2>3
  <1> QED BY <1>2, MemberKept

(* A deletion takes no other object out of a class.                        *)
LEMMA DeleteKeeps ==
    ASSUME TypeInv, TypeInv', NEW r \in Request, WriteDelete(r),
           NEW m \in AllMembership(membership, subclass), m[2] # r.id
    PROVE  m \in AllMembership(membership', subclass')
  <1>1. PICK o \in Object : o = r.id
    BY Typed DEF WriteDelete, Exist
  <1>2. /\ \A l \in membership \cup subclass : l[1] # o
        /\ {l \in membership : l[2] # o} \subseteq membership'
        /\ {l \in subclass : l[2] # o} \subseteq subclass'
    BY <1>1 DEF WriteDelete, Childless, Cascaded
  <1> QED BY <1>1, <1>2, KeepsOthers

(* Nor does a new Registration, and one that keeps the rank not its own    *)
(* object either.                                                          *)
LEMMA RegisterKeeps ==
    ASSUME TypeInv, TypeInv', RegistrationCurrent, ~overwritten, OrderInv,
           NEW r \in Request, StillRight(r), ~Circular(r), WriteRegister(r),
           NEW m \in AllMembership(membership, subclass),
           m[2] # r.id \/ r.spec.rank = r.from.rank
    PROVE  m \in AllMembership(membership', subclass')
  <1>1. PICK o \in DOMAIN object : o = r.id
    BY Registers
  <1>2. r.spec \in Row /\ r.from \in Row
    BY Registers
  <1>3. membership' = Reclassed(o, r.spec, r.from).membership
        /\ subclass' = Reclassed(o, r.spec, r.from).subclass
    BY <1>1 DEF WriteRegister
  <1>4. CASE r.spec.rank # r.from.rank
    <2>1. {l \in membership : l[2] # o} \subseteq membership'
          /\ {l \in subclass : l[2] # o} \subseteq subclass'
      <3>1. PICK spec \in Row, from \in Row : spec = r.spec /\ from = r.from
        BY <1>2
      <3>2. /\ membership' = {l \in membership : l[2] # o} \cup {<<spec.class, o>>}
            /\ subclass' = {l \in subclass : l[2] # o} \cup RankSuperclass(o, spec.rank)
        BY <1>1, <1>4, <3>1, RegisteredAnew
      <3> QED BY <3>2
    <2>2. \A l \in membership \cup subclass : l[1] # o
      BY <1>1, <1>4, Registers
    <2>3. m[2] # o /\ o \in Object
      BY <1>1, <1>4, Typed
    <2> QED BY <2>1, <2>2, <2>3, KeepsOthers
  <1>5. CASE ~(r.spec.rank # r.from.rank)
    <2>1. subclass' = subclass
      BY <1>2, <1>3, <1>5, ReclassedSame
    <2>2. membership \subseteq membership'
      BY <1>2, <1>3, <1>5, ReclassedSame
    <2>3. \A l \in subclass : Reaches(subclass', l[1], l[2])
      BY <2>1, ReachesLink
    <2> QED BY <2>2, <2>3, KeepsAll
  <1> QED BY <1>4, <1>5

(* Adding a link, creating an object or deleting one takes no other object *)
(* out of a class.                                                         *)
LEMMA StepKeepsClasses ==
    ASSUME TypeInv, TypeInv', NEW r \in open, Write(r), ~Circular(r),
           r.op \in {"add_member", "add_subclass", "create", "delete"},
           NEW m \in AllMembership(membership, subclass), m[2] \in DOMAIN object'
    PROVE  m \in AllMembership(membership', subclass')
  <1>1. r \in Request
    BY WriteIs
  <1>2. CASE WriteAddMember(r) \/ WriteCreate(r)
    <2>1. membership \subseteq membership' /\ subclass \subseteq subclass'
      BY <1>2 DEF WriteAddMember, WriteCreate
    <2>2. \A l \in subclass : Reaches(subclass', l[1], l[2])
      BY <2>1, ReachesLink
    <2> QED BY <1>1, <2>1, <2>2, KeepsAll
  <1>3. CASE WriteAddSubclass(r)
    <2>1. membership \subseteq membership' /\ \A l \in subclass : Reaches(subclass', l[1], l[2])
      BY <1>1, <1>3, AddsSubclass DEF WriteAddSubclass
    <2> QED BY <1>1, <2>1, KeepsAll
  <1>4. CASE WriteDelete(r)
    <2>1. m[2] # r.id
      BY <1>4 DEF WriteDelete
    <2> QED BY <1>1, <1>4, <2>1, DeleteKeeps
  <1>5. CASE Rollback(r)
    BY <1>5 DEF Rollback, tables
  <1>6. ~WriteRemoveMember(r) /\ ~WriteRemoveSubclass(r) /\ ~WriteRefused(r) /\ ~WriteRegister(r)
    BY DEF WriteRemoveMember, WriteRemoveSubclass, WriteRefused, WriteRegister
  <1> QED BY <1>2, <1>3, <1>4, <1>5, <1>6 DEF Write

(* Every object is in its primary class, after any request that commits    *)
(* but one that removes a subclass, if it was before.                      *)
LEMMA CommitKeepsPrimary ==
    ASSUME ReadInv, ShapeInv, TypeInv', NEW r \in open, Write(r), ~Rollback(r), Commit(r),
           ~overtaken', ~circled', r.op # "remove_subclass", PrimaryMember
    PROVE  PrimaryMember'
  <1>1. /\ TypeInv /\ r \in Request /\ StillRight(r) /\ RegistrationCurrent
        /\ ~Circular(r) /\ ~overwritten /\ OrderInv
    BY CommitsRight DEF ReadInv, ShapeInv
  <1>2. \A o \in DOMAIN object \ {TopRank} :
            <<object[o].class, o>> \in AllMembership(membership, subclass)
    BY DEF PrimaryMember, PrimaryIn
  <1>3. SUFFICES ASSUME NEW o \in DOMAIN object' \ {TopRank}
                 PROVE  <<object'[o].class, o>> \in AllMembership(membership', subclass')
    BY DEF PrimaryMember, PrimaryIn
  <1>4. PICK c : c = object'[o].class
    OBVIOUS
  <1>5. PICK m : m = <<c, o>>
    OBVIOUS
  <1>6. m[2] = o
    BY <1>5
  <1>7. CASE WriteAddMember(r) \/ WriteAddSubclass(r)
    <2>1. object' = object /\ r.op \in {"add_member", "add_subclass", "create", "delete"}
      BY <1>7 DEF WriteAddMember, WriteAddSubclass
    <2>2. m \in AllMembership(membership, subclass) /\ m[2] \in DOMAIN object'
      BY <1>2, <1>4, <1>5, <1>6, <2>1
    <2> QED BY <1>1, <1>4, <1>5, <2>1, <2>2, StepKeepsClasses
  <1>8. CASE WriteRemoveMember(r)
    <2>1. /\ UNCHANGED <<object, subclass>> /\ membership' = membership \ {<<r.class, r.id>>}
          /\ <<r.primary, r.id>> \in AllMembership(membership', subclass')
          /\ r.primary = object[r.id].class
      BY <1>1, <1>8 DEF WriteRemoveMember, LeavesPrimary, StillRight
    <2>2. CASE o = r.id
      BY <2>1, <2>2
    <2>3. CASE o # r.id
      <3>1. m \in AllMembership(membership, subclass)
        BY <1>2, <1>4, <1>5, <2>1
      <3>2. \A d \in Object : Reaches(subclass, m[1], d) /\ <<d, m[2]>> \in membership
                => Reaches(subclass', m[1], d) /\ <<d, m[2]>> \in membership'
        BY <1>6, <2>1, <2>3
      <3> QED BY <1>1, <1>4, <1>5, <3>1, <3>2, MemberKept
    <2> QED BY <2>2, <2>3
  <1>9. CASE WriteCreate(r)
    <2>1. /\ r.op = "create" /\ DOMAIN object' = DOMAIN object \cup {r.id}
          /\ object'[r.id].class = r.class
          /\ \A p \in DOMAIN object : p # r.id => object'[p] = object[p]
          /\ <<r.class, r.id>> \in membership'
      BY <1>9 DEF WriteCreate, Put
    <2>2. CASE o = r.id
      <3>1. r.class \in Object
        BY <1>1, <2>1, RequestHolds
      <3> QED BY <2>1, <2>2, <3>1, MemberDirect
    <2>3. CASE o # r.id
      <3>1. m \in AllMembership(membership, subclass)
        BY <1>2, <1>4, <1>5, <2>1, <2>3
      <3> QED BY <1>1, <1>4, <1>5, <1>6, <2>1, <3>1, StepKeepsClasses
    <2> QED BY <2>2, <2>3
  <1>10. CASE WriteDelete(r)
    <2>1. o # r.id /\ o \in DOMAIN object /\ object'[o] = object[o] /\ r.op = "delete"
      BY <1>10 DEF WriteDelete
    <2>2. m \in AllMembership(membership, subclass)
      BY <1>2, <1>4, <1>5, <2>1
    <2> QED BY <1>1, <1>4, <1>5, <1>6, <2>1, <2>2, StepKeepsClasses
  <1>11. CASE WriteRefused(r)
    <2>1. r.op = "register" /\ r.id \in DOMAIN object
      BY <1>11 DEF WriteRefused, Exist
    <2>2. /\ UNCHANGED <<membership, subclass>> /\ o \in DOMAIN object
          /\ object'[o].class = object[o].class
      BY <1>1, <1>11, <2>1, WithOwnerIs DEF WriteRefused, Put
    <2> QED BY <1>2, <2>2
  <1>12. CASE WriteRegister(r)
    <2>1. /\ o \in DOMAIN object /\ (o # r.id => object'[o] = object[o])
          /\ r.id \in DOMAIN object \ Builtin /\ object'[r.id].class = r.spec.class
          /\ r.spec.class \in Object
          /\ r.spec \in Row /\ r.from \in Row /\ r.from.class = object[r.id].class
      BY <1>1, <1>12, Registers, Typed
    <2>2. membership' = Reclassed(r.id, r.spec, r.from).membership
      BY <1>12 DEF WriteRegister
    <2>3. CASE o # r.id
      <3>1. m \in AllMembership(membership, subclass) /\ m[2] # r.id
        BY <1>2, <1>4, <1>5, <1>6, <2>1, <2>3
      <3>2. m \in AllMembership(membership', subclass')
        BY <1>1, <1>12, <3>1, RegisterKeeps
      <3> QED BY <1>4, <1>5, <3>2
    <2>4. CASE o = r.id /\ r.spec.rank # r.from.rank
      <3>1. r.spec \in Row /\ r.from \in Row /\ r.spec.rank # r.from.rank
        BY <2>1, <2>4
      <3>2. Reclassed(r.id, r.spec, r.from).membership
                = {l \in membership : l[2] # r.id} \cup {<<r.spec.class, r.id>>}
        BY <3>1, ReclassedAnew
      <3>3. <<r.spec.class, r.id>> \in membership'
        BY <2>2, <3>2
      <3> QED BY <2>1, <2>4, <3>3, MemberDirect
    <2>5. CASE o = r.id /\ ~(r.spec.rank # r.from.rank)
      <3>1. \/ <<r.spec.class, r.id>> \in membership'
            \/ r.spec.class = r.from.class
            \/ <<r.spec.class, r.id>> \in AllMembership(membership, subclass)
        BY <2>1, <2>2, <2>5, ReclassedSame
      <3>2. CASE <<r.spec.class, r.id>> \in membership'
        BY <2>1, <2>5, <3>2, MemberDirect
      <3>3. CASE <<r.spec.class, r.id>> \notin membership'
        <4>1. m = <<r.spec.class, r.id>>
          BY <1>4, <1>5, <2>1, <2>5
        <4>2. m \in AllMembership(membership, subclass)
          BY <1>2, <2>1, <2>5, <3>1, <3>3, <4>1
        <4>3. m \in AllMembership(membership', subclass')
          BY <1>1, <1>12, <2>5, <4>2, RegisterKeeps
        <4> QED BY <1>4, <1>5, <4>3
      <3> QED BY <3>2, <3>3
    <2> QED BY <2>3, <2>4, <2>5
  <1>13. ~WriteRemoveSubclass(r)
    BY DEF WriteRemoveSubclass
  <1> QED BY <1>7, <1>8, <1>9, <1>10, <1>11, <1>12, <1>13 DEF Write

(* One that is rolled back changes nothing.                                *)
LEMMA StepKeepsPrimary ==
    ASSUME ReadInv, ShapeInv, TypeInv', NEW r \in open, Write(r),
           ~overtaken', ~circled', r.op # "remove_subclass", PrimaryMember
    PROVE  PrimaryMember'
  <1>1. Rollback(r) => PrimaryMember'
    BY DEF Rollback, tables, PrimaryMember
  <1>2. Rollback(r) \/ Commit(r)
    BY WriteIs DEF ReadInv
  <1> QED BY <1>1, <1>2, CommitKeepsPrimary

(* A request is no longer open only after its write.                       *)
LEMMA ClosedByWrite ==
    ASSUME TypeInv, Next, NEW r \in open \ open'
    PROVE  Write(r)
  <1>1. ASSUME NEW q \in Request, Open(q)
        PROVE  FALSE
    BY <1>1 DEF Open
  <1>2. ASSUME NEW q \in open, Write(q)
        PROVE  Write(r)
    <2>1. open \ open' = {q}
      BY <1>2, WriteIs
    <2> QED BY <1>2, <2>1
  <1>3. ASSUME NEW o \in Object, NEW k \in DOMAIN object, NEW supers \in SUBSET (DOMAIN object),
               LoadDump(o, k, supers)
        PROVE  FALSE
    <2>1. open' = open
      BY <1>3 DEF LoadDump
    <2> QED BY <2>1
  <1> QED BY <1>1, <1>2, <1>3, NextIs

(* No object falls out of a class by a link added to another, nor by an    *)
(* object created or deleted, unless the link makes a circle: links        *)
(* dropped as redundant are, whatever has been linked before.              *)
THEOREM KeepsClassesCorrect == Spec => KeepsClasses
  <1> DEFINE Keeps == \A r \in (open \ open') \ behind :
        /\ r.op \in {"add_member", "add_subclass", "create", "delete"}
        /\ ~Circular(r)
        => {m \in AllMembership(membership, subclass) : {m[1], m[2]} \subseteq DOMAIN object'}
                \subseteq AllMembership(membership', subclass')
  <1>1. TypeInv /\ TypeInv' /\ Next => Keeps
    <2> SUFFICES ASSUME TypeInv, TypeInv', Next, NEW r \in open \ open', ~Circular(r),
                        r.op \in {"add_member", "add_subclass", "create", "delete"},
                        NEW m \in AllMembership(membership, subclass), m[2] \in DOMAIN object'
                 PROVE  m \in AllMembership(membership', subclass')
      OBVIOUS
    <2> QED BY ClosedByWrite, StepKeepsClasses
  <1>2. ReadInv /\ ReadInv' /\ [Next]_vars => [Keeps]_vars
    <2>1. (ReadInv => TypeInv) /\ (ReadInv' => TypeInv')
      BY DEF ReadInv
    <2> QED BY <1>1, <2>1
  <1> HIDE DEF Keeps
  <1>3. Spec => [][Keeps]_vars
    BY ReadCorrect, <1>2, PTL DEF Spec
  <1> QED BY <1>3 DEF Keeps, KeepsClasses

(* Nothing but the removal of a subclass link takes an object out of its   *)
(* primary class, until a request is overtaken or a circle made.           *)
THEOREM KeepsPrimaryCorrect == Spec => KeepsPrimary
  <1> DEFINE Keeps == \A r \in open \ open' :
        /\ r.op # "remove_subclass" /\ PrimaryMember
        /\ ~overtaken' /\ ~circled'
        => PrimaryMember'
  <1>1. ReadInv /\ ShapeInv /\ TypeInv' /\ Next => Keeps
    <2>1. ReadInv => TypeInv
      BY DEF ReadInv
    <2> QED BY <2>1, ClosedByWrite, StepKeepsPrimary
  <1>2. ReadInv /\ ShapeInv /\ ReadInv' /\ [Next]_vars => [Keeps]_vars
    <2>1. ReadInv' => TypeInv'
      BY DEF ReadInv
    <2> QED BY <1>1, <2>1
  <1> HIDE DEF Keeps
  <1>3. Spec => [][Keeps]_vars
    BY OrderCorrect, <1>2, PTL DEF Spec
  <1> QED BY <1>3 DEF Keeps, KeepsPrimary

=============================================================================
