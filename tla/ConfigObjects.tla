---------------------------- MODULE ConfigObjects ----------------------------
(***************************************************************************)
(* The objects of the ConfigDB: their ranks, primary classes and owners,   *)
(* the membership and subclass relations between them, and the copy of     *)
(* each row that is kept as its Registration config.                       *)
(*                                                                         *)
(* A request is one transaction at READ COMMITTED.  It is split in two: it *)
(* reads and decides (the actions up to Open), then it writes and commits  *)
(* (the actions after).  What another request commits in between is not    *)
(* seen by the decision: the request has been overtaken.  Its writes are   *)
(* one step, which is what they amount to unless it is overtaken, and so   *)
(* is a dump.                                                              *)
(*                                                                         *)
(* A request that throws, or finds nothing to do, changes nothing and is   *)
(* not modelled; one that returns an error status commits what it wrote.   *)
(***************************************************************************)
EXTENDS Integers, FiniteSets

CONSTANTS
    Object,     \* objects, by UUID; the rank classes among them
    Top,        \* depth of the topmost rank class
    RankClass,  \* table rank: RankClass[d] is the root of the classes of rank d + 1
    Special,    \* a class that is always there: one of those that are Immutable
    Owner,      \* the principals and Unowned
    Unowned,
    NoClass,    \* null: the class of the topmost rank class
    MaxLoad     \* bound: objects and requests at one time

ASSUME RankAssumption ==
    /\ Top \in Nat \ {0}
    /\ RankClass \in [0..Top -> Object]
    /\ \A d, e \in 0..Top : RankClass[d] = RankClass[e] => d = e
    /\ Special \in Object \ {RankClass[d] : d \in 0..Top}
ASSUME OwnerAssumption == Unowned \in Owner
ASSUME NoClassAssumption == NoClass \notin Object
ASSUME MaxLoadAssumption == MaxLoad \in Nat

VARIABLES
    object,         \* a function from the objects that exist to their rows
    membership,     \* direct links <<class, id>>
    subclass,       \* direct links <<class, id>>
    registration,   \* the Registration config of each object
    open,           \* requests that have read and not yet written
    behind,         \* ghost: those since whose reading another has committed
    overtaken,      \* ghost: one of those has written
    overwritten,    \* ghost: one has put a Registration that had been changed
    circled         \* ghost: a circle has been made

tables == <<object, membership, subclass, registration>>
history == <<overtaken, overwritten, circled>>
vars == <<object, membership, subclass, registration, open, behind, history>>

RankRoots == {RankClass[d] : d \in 0..Top}
TopRank == RankClass[Top]
Builtin == RankRoots \cup {Special}
Row == [class: Object \cup {NoClass}, rank: 0..(Top + 1), owner: Owner]

Request ==
    [op: {"add_member", "add_subclass", "remove_subclass"}, class: Object, id: Object]
        \cup [op: {"create"}, class: Object, id: Object, owner: Owner]
        \cup [op: {"remove_member"}, class: Object, id: Object, primary: Object \cup {NoClass}]
        \cup [op: {"register"}, id: Object, spec: Row, from: Row, refused: BOOLEAN]
        \cup [op: {"delete"}, id: Object]

ObjectsTypeOK ==
    /\ DOMAIN object \subseteq Object
    /\ \A o \in DOMAIN object : object[o] \in Row
    /\ DOMAIN registration = DOMAIN object
    /\ \A o \in DOMAIN object : registration[o] \in Row
    /\ membership \subseteq (DOMAIN object) \X (DOMAIN object)
    /\ subclass \subseteq (DOMAIN object) \X (DOMAIN object)
    /\ open \subseteq Request /\ behind \subseteq open
    /\ {overtaken, overwritten, circled} \subseteq BOOLEAN

Init ==
    LET depth(o) == IF o = Special THEN 0 ELSE CHOOSE d \in 0..Top : RankClass[d] = o
        class(o) == CASE o = TopRank -> NoClass
                      [] o = Special -> RankClass[1]
                      [] OTHER -> RankClass[depth(o) + 1]
    IN  /\ object = [o \in Builtin |->
                        [class |-> class(o), rank |-> depth(o) + 1, owner |-> Unowned]]
        /\ registration = object
        /\ membership = {<<class(o), o>> : o \in Builtin \ {TopRank}}
        /\ subclass = {<<RankClass[0], Special>>}
        /\ open = {} /\ behind = {}
        /\ overtaken = FALSE /\ overwritten = FALSE /\ circled = FALSE

-----------------------------------------------------------------------------
(* The views all_class, all_subclass and all_membership.  all_subclass is  *)
(* recursive, from a class to itself and on by one link: the least such    *)
(* relation, by which a class is above what no closed set that it is in    *)
(* leaves out.                                                             *)
Classes(mem, sub) == {l[1] : l \in mem \cup sub} \cup {l[2] : l \in sub}

Closed(s, sub) == \A l \in sub : l[1] \in s => l[2] \in s

AllSubclass(mem, sub) ==
    LET classes == Classes(mem, sub)
        closed == {s \in SUBSET classes : Closed(s, sub)}
    IN  {p \in classes \X classes : \A s \in closed : p[1] \in s => p[2] \in s}

AllMembership(mem, sub) ==
    UNION {{<<p[1], m[2]>> : m \in {k \in mem : k[1] = p[2]}} : p \in AllSubclass(mem, sub)}

(* _add_rank_superclass: individuals have none, nor has the lowest root.   *)
RankSuperclass(o, rank) == {<<RankClass[d], o>> : d \in {rank - 1} \cap (0..Top)}

(* verify_invariants, which load_dump calls before and after.              *)
RanksAgreeIn(obj, mem, sub) ==
    /\ \A l \in mem : obj[l[1]].rank = obj[l[2]].rank + 1
    /\ \A l \in sub : obj[l[1]].rank = obj[l[2]].rank
    /\ \A l \in sub : obj[l[2]].rank # 0

PrimaryIn(obj, mem, sub) ==
    {<<obj[o].class, o>> : o \in DOMAIN obj \ {TopRank}} \subseteq AllMembership(mem, sub)

RankRootedIn(obj, mem, sub) ==
    UNION {RankSuperclass(o, obj[o].rank) : o \in DOMAIN obj} \subseteq AllSubclass(mem, sub)

Verify(obj, mem, sub) ==
    /\ \A o \in DOMAIN obj : obj[o].class = NoClass <=> o = TopRank
    /\ \A o \in DOMAIN obj \ {TopRank} : obj[o].rank \in 0..Top
    /\ RanksAgreeIn(obj, mem, sub)
    /\ PrimaryIn(obj, mem, sub)
    /\ RankRootedIn(obj, mem, sub)

(* Nothing prevents a circle of subclasses, nor that a class is made an    *)
(* individual of itself.                                                   *)
Acyclic(mem, sub) ==
    /\ {<<l[2], l[1]>> : l \in sub} \cap AllSubclass(mem, sub) = {}
    /\ \A l \in mem : l[1] # l[2]

-----------------------------------------------------------------------------
(* Requests, up to their first write.                                      *)
Loadable == Cardinality(DOMAIN object) + Cardinality(open) < MaxLoad

Open(r) ==
    /\ Loadable
    /\ open' = open \cup {r}
    /\ UNCHANGED <<tables, behind, history>>

AddMember(c, o) ==
    /\ object[c].rank = object[o].rank + 1
    /\ Open([op |-> "add_member", class |-> c, id |-> o])

RemoveMember(c, o) ==
    Open([op |-> "remove_member", class |-> c, id |-> o, primary |-> object[o].class])

AddSubclass(c, o) ==
    /\ object[o].rank # 0
    /\ object[c].rank = object[o].rank
    /\ Open([op |-> "add_subclass", class |-> c, id |-> o])

RemoveSubclass(c, o) ==
    /\ object[o].rank # 0
    /\ Open([op |-> "remove_subclass", class |-> c, id |-> o])

(* _object_create: the rank is read again by the insert.                   *)
Create(c, o, w) ==
    /\ o \notin DOMAIN object
    /\ Open([op |-> "create", class |-> c, id |-> o, owner |-> w])

(* object_delete: no members, no subclasses; the configs go with it.       *)
Childless(o) == \A l \in membership \cup subclass : l[1] # o

Delete(o) ==
    /\ o \notin Builtin
    /\ Childless(o)
    /\ Open([op |-> "delete", id |-> o])

(* update_registration: the class must be of the right rank; a change of   *)
(* rank must be from or to an individual, and to one without children.     *)
(* Mutant: children are not looked for.                                    *)
AcceptableWithChildren(o, spec, from) ==
    /\ spec.class \in DOMAIN object
    /\ object[spec.class].rank = spec.rank + 1
    /\ spec.rank # from.rank => 0 \in {spec.rank, from.rank}

Acceptable(o, spec, from) ==
    spec.class # from.class \/ spec.rank # from.rank =>
        /\ spec.class \in DOMAIN object
        /\ object[spec.class].rank = spec.rank + 1
        /\ spec.rank # from.rank =>
            /\ 0 \in {spec.rank, from.rank}
            /\ spec.rank = 0 => Childless(o)

(* A PUT of the Registration config, or a create of an object that exists. *)
(* The owner is written first; whether Auth allows it is not known here,   *)
(* and a PUT it forbids writes nothing.  Refused after that, the request   *)
(* returns a status, and so what it has written is committed.  Built-in    *)
(* objects are assumed not to be registered anew.                          *)
Register(o, spec) ==
    LET from == registration[o]
    IN  /\ o \notin Builtin
        /\ spec # from
        /\ spec.owner # from.owner \/ Acceptable(o, spec, from)
        /\ Open([op |-> "register", id |-> o, spec |-> spec, from |-> from,
                 refused |-> ~Acceptable(o, spec, from)])

-----------------------------------------------------------------------------
(* Requests, from their first write.  Deleting or linking what is gone by  *)
(* now is a foreign key error.                                             *)
Circular(r) ==
    \/ /\ r.op = "add_subclass"
       /\ r.class = r.id \/ <<r.id, r.class>> \in AllSubclass(membership, subclass)
    \/ r.op = "register" /\ ~r.refused /\ r.spec.class = r.id

Overwrites(r) ==
    /\ r.op = "register" /\ ~r.refused
    /\ LET now == registration[r.id]
       IN  now.class # r.from.class \/ now.rank # r.from.rank

Commit(r) ==
    /\ open' = open \ {r} /\ behind' = open \ {r}
    /\ overtaken' = (overtaken \/ r \in behind)
    /\ overwritten' = (overwritten \/ Overwrites(r))
    /\ circled' = (circled \/ Circular(r))

(* An object that has been deleted and created anew is another row.  As a  *)
(* bound, this is not done while a request knows the old one.              *)
Names(r) ==
    CASE r.op = "create" -> {r.class}
      [] r.op = "delete" -> {r.id}
      [] r.op = "register" -> {r.id, r.spec.class}
      [] OTHER -> {r.class, r.id}

Fresh(o) == \A r \in open : o \notin Names(r)

Exist(os) == os \subseteq DOMAIN object

WriteAddMember(r) ==
    /\ r.op = "add_member"
    /\ Exist({r.class, r.id})
    /\ membership' = membership \cup {<<r.class, r.id>>}
    /\ Commit(r)
    /\ UNCHANGED <<object, subclass, registration>>

(* Undone if the object would leave its primary class.                     *)
(* Mutant: that is not looked at.                                          *)
LeavesPrimaryNever(r, mem) == FALSE

LeavesPrimary(r, mem) == <<r.primary, r.id>> \notin AllMembership(mem, subclass)

WriteRemoveMember(r) ==
    /\ r.op = "remove_member"
    /\ membership' = membership \ {<<r.class, r.id>>}
    /\ ~LeavesPrimary(r, membership')
    /\ Commit(r)
    /\ UNCHANGED <<object, subclass, registration>>

(* Links to superclasses of the new superclass have become redundant.      *)
(* Mutant: so are all others.                                              *)
SubclassAddedAlone(c, o) == {l \in subclass : l[2] # o} \cup {<<c, o>>}

SubclassAdded(c, o) ==
    LET above == {p[1] : p \in {q \in AllSubclass(membership, subclass) : q[2] = c}}
    IN  {l \in subclass : ~(l[2] = o /\ l[1] \in above)} \cup {<<c, o>>}

WriteAddSubclass(r) ==
    /\ r.op = "add_subclass"
    /\ Exist({r.class, r.id})
    /\ subclass' = SubclassAdded(r.class, r.id)
    /\ Commit(r)
    /\ UNCHANGED <<object, membership, registration>>

(* The last superclass is replaced by the root of the rank.                *)
(* Mutant: it is not.                                                      *)
SubclassRemovedOnly(c, o) == subclass \ {<<c, o>>}

SubclassRemoved(c, o) ==
    LET left == subclass \ {<<c, o>>}
    IN  IF o \in RankRoots \/ \E l \in left : l[2] = o THEN left
        ELSE left \cup RankSuperclass(o, object[o].rank)

WriteRemoveSubclass(r) ==
    /\ r.op = "remove_subclass"
    /\ Exist({r.id})
    /\ subclass' = SubclassRemoved(r.class, r.id)
    /\ Commit(r)
    /\ UNCHANGED <<object, membership, registration>>

Put(f, o, row) == [p \in DOMAIN f \cup {o} |-> IF p = o THEN row ELSE f[p]]

WriteCreate(r) ==
    LET row == [class |-> r.class, rank |-> object[r.class].rank - 1, owner |-> r.owner]
    IN  /\ r.op = "create"
        /\ Exist({r.class}) /\ r.id \notin DOMAIN object /\ Fresh(r.id)
        /\ row.rank >= 0
        /\ object' = Put(object, r.id, row)
        /\ registration' = Put(registration, r.id, row)
        /\ membership' = membership \cup {<<r.class, r.id>>}
        /\ subclass' = subclass \cup RankSuperclass(r.id, row.rank)
        /\ Commit(r)

(* What refers to the object as a class is a foreign key error; its own    *)
(* links cascade.                                                          *)
(* Mutant: they do not.                                                    *)
CascadedNot(links, o) == links

Cascaded(links, o) == {l \in links : l[2] # o}

WriteDelete(r) ==
    LET rest == DOMAIN object \ {r.id}
    IN  /\ r.op = "delete"
        /\ Exist({r.id})
        /\ Childless(r.id)
        /\ \A o \in rest : object[o].class # r.id
        /\ object' = [o \in rest |-> object[o]]
        /\ registration' = [o \in rest |-> registration[o]]
        /\ membership' = Cascaded(membership, r.id)
        /\ subclass' = Cascaded(subclass, r.id)
        /\ Commit(r)

(* _update_owner, then _update_rank or _update_class, then the config.     *)
WithOwner(r) ==
    IF r.spec.owner = r.from.owner THEN object[r.id]
    ELSE [object[r.id] EXCEPT !.owner = r.spec.owner]

(* Mutant: with a new rank the class is left to the membership.            *)
WithClassKept(r) ==
    IF r.spec.rank # r.from.rank THEN [WithOwner(r) EXCEPT !.rank = r.spec.rank]
    ELSE [WithOwner(r) EXCEPT !.class = r.spec.class]

WithClass(r) ==
    CASE r.spec.rank # r.from.rank ->
            [WithOwner(r) EXCEPT !.class = r.spec.class, !.rank = r.spec.rank]
      [] r.spec.rank = r.from.rank /\ r.spec.class # r.from.class ->
            [WithOwner(r) EXCEPT !.class = r.spec.class]
      [] OTHER -> WithOwner(r)

WriteRefused(r) ==
    /\ r.op = "register" /\ r.refused
    /\ Exist({r.id})
    /\ object' = Put(object, r.id, WithOwner(r))
    /\ Commit(r)
    /\ UNCHANGED <<membership, subclass, registration>>

Reclassed(o, spec, from) ==
    LET direct == {<<spec.class, o>>}
        own(links) == {l \in links : l[2] = o}
    IN  CASE spec.rank # from.rank ->
                [membership |-> (membership \ own(membership)) \cup direct,
                 subclass |-> (subclass \ own(subclass)) \cup RankSuperclass(o, spec.rank)]
          [] spec.rank = from.rank /\ spec.class # from.class
             /\ <<spec.class, o>> \notin AllMembership(membership, subclass) ->
                [membership |-> membership \cup direct, subclass |-> subclass]
          [] OTHER -> [membership |-> membership, subclass |-> subclass]

WriteRegister(r) ==
    /\ r.op = "register" /\ ~r.refused
    /\ Exist({r.id, r.spec.class})
    /\ object' = Put(object, r.id, WithClass(r))
    /\ LET links == Reclassed(r.id, r.spec, r.from)
       IN  membership' = links.membership /\ subclass' = links.subclass
    /\ registration' = Put(registration, r.id, r.spec)
    /\ Commit(r)

(* The connection to the database is lost, or a write is an error.         *)
Rollback(r) ==
    /\ open' = open \ {r} /\ behind' = behind \ {r}
    /\ UNCHANGED <<tables, history>>

-----------------------------------------------------------------------------
(* load_dump with one object o of primary class k, which may name its      *)
(* superclasses: the object, and all that are below it by primary class,   *)
(* are ranked anew; individuals that become classes are given the root of  *)
(* their new rank.  The function runs in a transaction and raises if the   *)
(* result does not verify, or did not before.                              *)
Below(o) ==
    LET closed == {s \in SUBSET (DOMAIN object \cup {o}) :
                      o \in s /\ \A p \in DOMAIN object : object[p].class \in s => p \in s}
    IN  {p \in DOMAIN object \cup {o} : \A s \in closed : p \in s}

DumpRows(o, k, below) ==
    LET rank == object[k].rank - 1
        shift == IF o \in DOMAIN object THEN rank - object[o].rank ELSE 0
        owner == IF o \in DOMAIN object THEN object[o].owner ELSE Unowned
    IN  [p \in DOMAIN object \cup {o} |->
            IF p = o THEN [class |-> k, rank |-> rank, owner |-> owner]
            ELSE IF p \in below THEN [object[p] EXCEPT !.rank = @ + shift]
            ELSE object[p]]

LoadDump(o, k, supers) ==
    LET below == Below(o)
        rows == DumpRows(o, k, below)
        promoted == {p \in below \ {o} : \A l \in subclass : l[2] # p}
        mem == {l \in membership : l[2] # o} \cup {<<k, o>>}
        sub == {l \in subclass : l[2] # o}
                \cup (IF supers = {} THEN RankSuperclass(o, rows[o].rank)
                                     ELSE {<<c, o>> : c \in supers})
                \cup UNION {RankSuperclass(p, rows[p].rank) : p \in promoted}
    IN  /\ o \notin Builtin /\ k \notin below
        /\ o \in DOMAIN object \/ Fresh(o)
        /\ \A p \in DOMAIN rows : rows[p].rank >= 0
        /\ Verify(rows, mem, sub)
        /\ object' = rows /\ registration' = rows
        /\ membership' = mem /\ subclass' = sub
        /\ behind' = open /\ circled' = (circled \/ ~Acyclic(mem, sub))
        /\ UNCHANGED <<open, overtaken, overwritten>>

Relate(c, o) ==
    \/ AddMember(c, o) \/ RemoveMember(c, o)
    \/ AddSubclass(c, o) \/ RemoveSubclass(c, o)

Write(r) ==
    \/ WriteAddMember(r) \/ WriteRemoveMember(r)
    \/ WriteAddSubclass(r) \/ WriteRemoveSubclass(r)
    \/ WriteCreate(r) \/ WriteDelete(r)
    \/ WriteRefused(r) \/ WriteRegister(r)
    \/ Rollback(r)

Next ==
    \/ \E c, o \in DOMAIN object : Relate(c, o)
    \/ \E o \in Object, c \in DOMAIN object, w \in Owner : Create(c, o, w)
    \/ \E o \in DOMAIN object : Delete(o)
    \/ \E o \in DOMAIN object, spec \in Row : Register(o, spec)
    \/ \E r \in open : Write(r)
    \/ /\ Loadable
       /\ Verify(object, membership, subclass)
       /\ \E o \in Object, k \in DOMAIN object :
            LoadDump(o, k, {}) \/ \E c \in DOMAIN object : LoadDump(o, k, {c})

Spec == Init /\ [][Next]_vars

-----------------------------------------------------------------------------
(* "Membership rank inconsistency", "Subclass rank inconsistency",         *)
(* "Individual cannot be a subclass": a link joins ranks that fit, though  *)
(* ranks change under it, unless a request was overtaken, which may have   *)
(* checked a rank that has changed, or a class was made its own member.    *)
RanksAgree == ~overtaken /\ ~circled => RanksAgreeIn(object, membership, subclass)

(* "Rank superclass missing": on the same terms every class can be reached *)
(* from the root of its rank, although links are replaced and removed in   *)
(* any order.                                                              *)
RankRooted == ~overtaken /\ ~circled => RankRootedIn(object, membership, subclass)

(* update_registration "needs to be called whenever the object table is    *)
(* changed directly" (sql/v11.sql): class and rank of a Registration are   *)
(* those of the object, whatever else is overtaken, unless one was put     *)
(* over a change of them that came after it had been read.                 *)
RegistrationCurrent ==
    ~overwritten =>
        \A o \in DOMAIN object : /\ registration[o].class = object[o].class
                                 /\ registration[o].rank = object[o].rank

(* The same, of the owner too: broken by a PUT that is refused after the   *)
(* owner has been written.                                                 *)
RegistrationAgrees == registration = object

(* Adding a link, replacing redundant ones on the way, creating an object  *)
(* or deleting one takes no other object out of a class it was in, neither *)
(* directly nor through the classes above: whatever has happened before,   *)
(* only a link that makes a circle does.                                   *)
KeepsClasses ==
    [][\A r \in (open \ open') \ behind :
        /\ r.op \in {"add_member", "add_subclass", "create", "delete"}
        /\ ~Circular(r)
        => {m \in AllMembership(membership, subclass) : {m[1], m[2]} \subseteq DOMAIN object'}
                \subseteq AllMembership(membership', subclass')
      ]_vars

(* "Primary class membership missing": every object is in its primary      *)
(* class.  Broken by the removal of a subclass link that it was in it by.  *)
PrimaryMember == PrimaryIn(object, membership, subclass)

(* Nothing else breaks it, unless a request was overtaken or a circle made.*)
KeepsPrimary ==
    [][\A r \in open \ open' :
        /\ r.op # "remove_subclass" /\ PrimaryMember
        /\ ~overtaken' /\ ~circled'
        => PrimaryMember'
      ]_vars

(* object-model.md says "A subclass is always the same rank as its parent  *)
(* class; a class member is always one rank lower than the class rank",    *)
(* whatever has been overtaken.  Broken by a request that was.             *)
RanksAlwaysAgree == ~circled => RanksAgreeIn(object, membership, subclass)

(* It says of Individual that it "is in fact a superclass of all rank 1    *)
(* classes", and likewise of the roots above: whatever has been linked.    *)
(* Broken by a circle.                                                     *)
AlwaysRooted == ~overtaken => RankRootedIn(object, membership, subclass)

=============================================================================
