----------------------------- MODULE AuthGrants -----------------------------
(* The grants of the Auth service and the ACLs it answers (acs-auth:        *)
(* dataflow.js, model.js, queries.js).  Requests change the table of access *)
(* control entries in transactions of their own; each that succeeds has the *)
(* whole table read again, and ACLs are computed from what was read last    *)
(* and from what the ConfigDB's notify interface has told of groups.        *)
EXTENDS Integers, FiniteSets, Functions, SequencesExt

CONSTANTS
    Principal, Permission, Object,      \* individuals, as far as grants name them
    PrincGroup, PermGroup,      \* the subclasses of Class.Principal, Permission
    TargGroup,                  \* classes that plural grants name as target
    Contents,                   \* what each watched set may contain
    Grant, Dump,                \* what is granted, and loaded from dumps
    Rights,                     \* permissions a client may hold WriteACL for
    Mine, Self,                 \* Special.Mine, Special.Self
    Slot,                       \* requests that may run at a time
    MaxGrants, MaxRequests, MaxEdits, MaxFaults,    \* bounds
    None

(* All that Auth watches in the ConfigDB: members of classes, and who owns  *)
(* what according to the Registration application, as pairs.                *)
Watched ==
    {"principals", "permissions", "owned"} \cup PrincGroup \cup PermGroup \cup TargGroup

ASSUME BoundsAssumption ==
    /\ {MaxGrants, MaxRequests, MaxEdits, MaxFaults} \subseteq Nat

Id == 1..MaxGrants
Request ==
         [op: {"new"}, grant: Grant]
    \cup [op: {"put"}, id: Id, grant: Grant]
    \cup [op: {"delete"}, id: Id]
    \cup [op: {"load"}, grants: Dump]

VARIABLES
    ace,        \* the table: from grant ids to grants
    made,       \* the ids given out
    version,    \* ghost: how often the table has been written
    member,     \* ConfigDB: the content of each watched set
    slots,      \* the requests being handled
    view,       \* the last rows emitted by `grants`, and their version
    fetch,      \* the queries `grants` waits for, and what they have read
    told,       \* the last content emitted by each watch
    targ_grp,   \* the last map emitted by targ_grp
    answered,   \* ghost: the last version a client has been answered about
    requests, edits, faults     \* how many there have been

table    == <<ace, made, version>>
memory   == <<view, fetch, told, targ_grp>>
counts   == <<requests, edits, faults>>
vars     == <<table, memory, member, slots, answered, counts>>

-----------------------------------------------------------------------------
(* A promise that rejects: no answer, although the client is sent a 500.    *)
Rejection == 500

(* Requests.  A slot holds the request, the permissions on which its sender *)
(* holds WriteACL (None if there are none: check_targ gives null), and what *)
(* has become of it: `at` is the version the answer tells of.               *)
Answer(status, at) == [pc |-> "done", status |-> status, at |-> at]
Outcome(s, status) == slots' = [slots EXCEPT ![s] = Answer(status, version)]

(* combineLatest: no ACL, and no answer, before every part has come.        *)
Always == Watched \ TargGroup
Known ==
    /\ view # None /\ targ_grp # None
    /\ \A c \in Always : told[c] # None

(* A client, or the loader, asks; except for the root principal, who may do *)
(* all, check_targ has waited for an ACL to go by.                          *)
Ask(s) ==
    /\ slots[s] = None
    /\ requests < MaxRequests /\ requests' = requests + 1
    /\ \E r \in Request, p \in Rights :
            /\ Known \/ p = Permission \cup PermGroup
            /\ slots' = [slots EXCEPT ![s] = [pc |-> "find", req |-> r, permitted |-> p]]
    /\ UNCHANGED <<table, memory, member, answered, edits, faults>>

(* Before the transaction, and in its first statement.  A sender without    *)
(* any rights is not refused: r.permitted is null, and the call throws.     *)
Granted(r) == IF r.op = "load" THEN r.grants ELSE IF r.op = "delete" THEN {} ELSE {r.grant}
Named(r)   == {g.principal : g \in Granted(r)}
Touched(r) ==
    IF r.op = "load" THEN {g.permission : g \in {h \in Range(ace) : h.principal \in Named(r)}}
    ELSE IF r.op \in {"put", "delete"} /\ r.id \in DOMAIN ace THEN {ace[r.id].permission}
    ELSE {}
Needed(r) == Touched(r) \cup {g.permission : g \in Granted(r)}

(* None if there is something to write.                                     *)
Verdict(r, p) ==
    IF p = None /\ (r.op = "delete" => r.id \in DOMAIN ace) /\ r.op # "load"
    THEN Rejection
    ELSE IF ~(Needed(r) \subseteq IF p = None THEN {} ELSE p) THEN 403
    ELSE IF r.op \in {"put", "delete"} /\ r.id \notin DOMAIN ace THEN 404
    ELSE IF r.op = "new" /\ r.grant \in Range(ace) THEN 200
    ELSE None

Find(s) ==
    /\ slots[s] # None /\ slots[s].pc = "find"
    /\ LET verdict == Verdict(slots[s].req, slots[s].permitted)
       IN  IF verdict = None THEN slots' = [slots EXCEPT ![s].pc = "write"]
                             ELSE Outcome(s, verdict)
    /\ UNCHANGED <<table, memory, member, answered, counts>>

(* The statement that writes, and the commit.                               *)
Writes(s, op) == slots[s] # None /\ slots[s].pc = "write" /\ slots[s].req.op = op

Becomes(s, rows, status) ==
    /\ ace' = rows
    /\ version' = version + 1
    /\ slots' = [slots EXCEPT ![s] = Answer(status, version')]
    /\ UNCHANGED <<memory, member, answered, counts>>

Nothing(s, status) ==
    /\ Outcome(s, status)
    /\ UNCHANGED <<table, memory, member, answered, counts>>

GrantNew(s) ==
    /\ Writes(s, "new")
    /\ LET g == slots[s].req.grant
       IN  \/ g \in Range(ace) /\ Nothing(s, 409)
           \/ /\ g \notin Range(ace) /\ made < MaxGrants
              /\ made' = made + 1
              /\ Becomes(s, made' :> g @@ ace, 201)

(* grant_update does not expect the row to be gone, nor its new content to  *)
(* be that of another row, which the constraint ace_unique refuses.         *)
GrantUpdate(s) ==
    /\ Writes(s, "put")
    /\ LET i == slots[s].req.id  g == slots[s].req.grant
       IN  \/ i \notin DOMAIN ace /\ Nothing(s, 204)
           \/ /\ \E j \in DOMAIN ace \ {i} : ace[j] = g
              /\ i \in DOMAIN ace /\ Nothing(s, Rejection)
           \/ /\ i \in DOMAIN ace /\ \A j \in DOMAIN ace \ {i} : ace[j] # g
              /\ Becomes(s, [ace EXCEPT ![i] = g], 204) /\ UNCHANGED made

GrantDelete(s) ==
    /\ Writes(s, "delete")
    /\ Becomes(s, Restrict(ace, DOMAIN ace \ {slots[s].req.id}), 204)
    /\ UNCHANGED made

(* dump_load_aces: the principals it names have what it grants and no more. *)
Kept(r) == {i \in DOMAIN ace : ace[i].principal \in Named(r) => ace[i] \in r.grants}

LoadDump(s) ==
    /\ Writes(s, "load")
    /\ LET r     == slots[s].req
           added == SetToSeq(r.grants \ Range(ace))
       IN  /\ made' = made + Len(added) /\ made' <= MaxGrants
           /\ Becomes(s, [i \in made + 1 .. made' |-> added[i - made]] @@ Restrict(ace, Kept(r)), 204)

-----------------------------------------------------------------------------
(* What is derived in memory.                                               *)
Keys(rows) == {g.target : g \in {h \in rows : h.plural}}

(* combineLatestAll waits for every group; until then the last map stays.   *)
(* Mutant: without defaultIfEmpty there is no map when there is no group.   *)
ExpandedSome(rows, known) ==
    IF Keys(rows) # {} /\ \A c \in Keys(rows) : known[c] # None
    THEN [c \in Keys(rows) |-> known[c]]
    ELSE targ_grp

Expanded(rows, known) ==
    IF \A c \in Keys(rows) : known[c] # None
    THEN [c \in Keys(rows) |-> known[c]]
    ELSE targ_grp

Asked == [pc |-> "asked"]
Read  == [pc |-> "read", rows |-> Range(ace), at |-> version]

(* switchMap: a new query takes the place of one that is still running.     *)
(* Mutants: mergeMap, which waits for both; exhaustMap, which does not ask. *)
RefetchedBoth == fetch \cup {Asked}
RefetchedIdle == IF fetch = {} THEN {Asked} ELSE fetch

Refetched == {Asked}

(* The promise of an updater resolves: a success has the table read again,  *)
(* and the client is answered.                                              *)
Respond(s) ==
    /\ slots[s] # None /\ slots[s].pc = "done" /\ slots[s].status # Rejection
    /\ slots' = [slots EXCEPT ![s] = None]
    /\ IF slots[s].status < 300
       THEN fetch' = Refetched /\ answered' = Max({answered, slots[s].at})
       ELSE UNCHANGED <<fetch, answered>>
    /\ UNCHANGED <<table, member, view, told, targ_grp, counts>>

FetchRead ==
    /\ Asked \in fetch
    /\ fetch' = (fetch \ {Asked}) \cup {Read}
    /\ UNCHANGED <<table, member, slots, view, told, targ_grp, answered, counts>>

FetchDone ==
    /\ \E f \in fetch \ {Asked} :
            /\ fetch' = fetch \ {f}
            /\ view' = [rows |-> f.rows, at |-> f.at]
    /\ targ_grp' = Expanded(view'.rows, told)
    /\ UNCHANGED <<table, member, slots, told, answered, counts>>

(* Nothing is emitted before each of the watches in Always has told         *)
(* something: their first words are taken together.                         *)
TellFirst ==
    /\ \A c \in Always : told[c] = None
    /\ told' = [c \in Watched |-> IF c \in Always THEN member[c] ELSE told[c]]
    /\ UNCHANGED <<table, member, slots, view, fetch, targ_grp, answered, counts>>

(* Groups are watched as long as the grants name them, and five seconds on. *)
Wanted == IF view = None THEN {} ELSE Keys(view.rows)

Tell(c) ==
    /\ told[c] # None \/ c \in Wanted \ Always
    /\ told[c] # member[c]
    /\ told' = [told EXCEPT ![c] = member[c]]
    /\ targ_grp' = IF c \in Wanted THEN Expanded(view.rows, told') ELSE targ_grp
    /\ UNCHANGED <<table, member, slots, view, fetch, answered, counts>>

Forget(c) ==
    /\ told[c] # None /\ c \notin Wanted \cup Always
    /\ told' = [told EXCEPT ![c] = None]
    /\ UNCHANGED <<table, member, slots, view, fetch, targ_grp, answered, counts>>

(* A rejected updater ends `responses` and with it the subscriptions of     *)
(* run(), which handle no errors; so does a query that fails.               *)
Restart ==
    /\ slots' = [s \in Slot |-> None]
    /\ view' = None /\ fetch' = {Asked}
    /\ told' = [c \in Watched |-> None] /\ targ_grp' = None
    /\ UNCHANGED <<table, member, answered, requests, edits>>

Rejected(s) ==
    /\ slots[s] # None /\ slots[s].pc = "done" /\ slots[s].status = Rejection
    /\ Restart /\ UNCHANGED faults

Crash == faults < MaxFaults /\ faults' = faults + 1 /\ Restart

(* The ConfigDB.                                                            *)
Edit(c) ==
    /\ edits < MaxEdits /\ edits' = edits + 1
    /\ \E m \in Contents[c] \ {member[c]} : member' = [member EXCEPT ![c] = m]
    /\ UNCHANGED <<table, memory, slots, answered, requests, faults>>

-----------------------------------------------------------------------------
Init ==
    /\ \E first \in Dump : ace = SetToSeq(first) /\ made = Cardinality(first)
    /\ version = 0
    /\ member = [c \in Watched |-> CHOOSE m \in Contents[c] : TRUE]
    /\ slots = [s \in Slot |-> None]
    /\ view = None /\ fetch = {Asked}
    /\ told = [c \in Watched |-> None] /\ targ_grp = None
    /\ answered = 0
    /\ requests = 0 /\ edits = 0 /\ faults = 0

Handle(s) ==
    \/ Find(s)
    \/ GrantNew(s) \/ GrantUpdate(s) \/ GrantDelete(s) \/ LoadDump(s)
    \/ Respond(s) \/ Rejected(s)

Next ==
    \/ \E s \in Slot : Ask(s) \/ Handle(s)
    \/ FetchRead \/ FetchDone \/ TellFirst
    \/ \E c \in Watched : Tell(c) \/ Forget(c) \/ Edit(c)
    \/ Crash

(* The database answers, and the ConfigDB's watches tell of every change.   *)
Fairness ==
    /\ \A s \in Slot : WF_vars(Handle(s))
    /\ WF_vars(FetchRead) /\ WF_vars(FetchDone) /\ WF_vars(TellFirst)
    /\ \A c \in Watched : WF_vars(Tell(c))

Spec == Init /\ [][Next]_vars /\ Fairness

-----------------------------------------------------------------------------
(* _acl_for: groups, grants and owned, as they stand.                       *)
Owned(p, pairs) == {o[2] : o \in {q \in pairs : q[1] = p}}

Acl(p) ==
    LET accept == {p} \cup {g \in PrincGroup : p \in told[g]}
        perms(e) ==
            IF e.permission \in told["permissions"] THEN {e.permission}
            ELSE IF e.permission \in PermGroup THEN told[e.permission] ELSE {}
        targets(e) ==
            IF ~e.plural THEN {e.target}
            ELSE IF e.target = Mine THEN Owned(p, told["owned"])
            ELSE IF e.target \in DOMAIN targ_grp THEN targ_grp[e.target] ELSE {}
    IN  IF p \notin told["principals"] THEN {}
        ELSE UNION {{[permission |-> m, target |-> IF t = Self THEN p ELSE t]
                         : m \in perms(e), t \in targets(e)}
                    : e \in {g \in view.rows : g.principal \in accept}}

(* What the grants in the database and the groups in the ConfigDB permit.   *)
Permits(p, a) ==
    /\ p \in member["principals"]
    /\ \E i \in DOMAIN ace :
           LET e == ace[i]
           IN  /\ e.principal = p \/ (e.principal \in PrincGroup /\ p \in member[e.principal])
               /\ \/ a.permission = e.permission /\ e.permission \in member["permissions"]
                  \/ e.permission \in PermGroup /\ a.permission \in member[e.permission]
               /\ IF e.plural
                  THEN IF e.target = Mine THEN <<p, a.target>> \in member["owned"]
                                          ELSE a.target \in member[e.target]
                  ELSE a.target = IF e.target = Self THEN p ELSE e.target

(* A client that has been told of a change of the grants finds it in every  *)
(* ACL it asks for once no query is running: the change is in the rows that *)
(* were read last, whatever the order in which requests and queries ended.  *)
AnsweredIsSeen == fetch = {} => view.at >= answered

(* The grants from which ACLs are made never go back to an older state of   *)
(* the table, except in a restart, which forgets them.                      *)
SeenForward == [][view # None /\ view' # None => view'.at >= view.at]_vars

(* Once nothing changes any more, the ACL of every principal is what the    *)
(* grants and the groups permit, and stays so.                              *)
AclSettles ==
    \A p \in Principal :
        <>[](Known /\ \A a \in [permission: Permission, target: Object \cup Principal] :
                            a \in Acl(p) <=> Permits(p, a))
=============================================================================
