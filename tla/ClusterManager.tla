--------------------------- MODULE ClusterManager ---------------------------
(***************************************************************************)
(* The Cluster Manager (acs-cluster-manager) at work on one edge cluster:  *)
(* the actions that set it up and remove it, the status they leave, and    *)
(* the queue that saves the status in the ConfigDB.                        *)
(*                                                                         *)
(* An action is an async function.  When another replaces it, switchAll    *)
(* drops its answer and its retries, and what is still running runs on.    *)
(*                                                                         *)
(* A call to a service, and what the action does until its next call, are  *)
(* one step.  ConfigDB, Auth and the Git server are modelled by what they  *)
(* have been told about the cluster and its accounts.                      *)
(***************************************************************************)
EXTENDS Naturals, Sequences, SequencesExt

CONSTANTS
    Nothing,        \* no status entry, no action
    MaxAccounts,    \* bound: accounts created
    MaxEdits,       \* bound: removals of the cluster, changes of others
    MaxLag,         \* bound: patches not saved when an action goes on
    MaxFaults       \* bound: failed calls, failed saves, restarts

ASSUME BoundsAssumption == {MaxAccounts, MaxEdits, MaxLag, MaxFaults} \subseteq Nat

VARIABLES
    cluster,    \* there is an Edge Cluster configuration entry
    news,       \* search_app has a change to tell
    status,     \* the entry of the cluster in the Map of `status`
    stored,     \* its Edge Cluster Setup Status entry in the ConfigDB
    queue,      \* patches that concatMap has not finished
    stuck,      \* the first of them has failed
    jobs,       \* the action that is subscribed to, and one that was
    facts,      \* what the services know
    accounts,   \* how many accounts have been created
    version,    \* FLUX_VERSION of the running Cluster Manager
    edits, faults,
    crossed,    \* ghost: an action began, or will, in the midst of another
    lost        \* ghost: the process ended with patches not saved

saving == <<stored, queue, stuck>>
services == <<facts, accounts>>
bounds == <<version, edits, faults>>
vars == <<cluster, news, status, saving, jobs, services, bounds, crossed, lost>>

Slot == {"current", "stray"}
Role == {"flux", "krbkeys"}
Account == 1..MaxAccounts
Version == 1..2
None == 0

-----------------------------------------------------------------------------
(* Status records and merge patches.  Absent properties are None or FALSE. *)
Spec_ == <<"cluster", "spec">>
Ready_ == <<"cluster", "ready">>
Version_ == <<"cluster", "fluxVersion">>
Uuid(r) == <<r, "uuid">>
Done(r) == <<r, "done">>

Key == {Spec_, Ready_, Version_} \cup {Uuid(r) : r \in Role} \cup {Done(r) : r \in Role}
Numeric == {Version_} \cup {Uuid(r) : r \in Role}

Blank == [k \in Key |-> IF k \in Numeric THEN None ELSE FALSE]

Patch(k, v) == [x \in {k} |-> v]

Merge(st, patch) ==
    LET old == IF st = Nothing THEN Blank ELSE st
    IN  IF patch = Nothing THEN Nothing
        ELSE [k \in Key |-> IF k \in DOMAIN patch THEN patch[k] ELSE old[k]]

MergeAll(st, patches) ==
    LET merged[n \in 0..Len(patches)] ==
            IF n = 0 THEN st ELSE Merge(merged[n - 1], patches[n])
    IN  merged[Len(patches)]

View(job) == IF job.live THEN status ELSE job.own

-----------------------------------------------------------------------------
(* The calls an action makes, in order, and the role each is for.          *)
UpdateCalls ==
    << <<"address", "cluster">>,
       <<"create", "flux">>, <<"info", "flux">>, <<"grant", "flux">>,
       <<"member", "flux">>, <<"identity", "flux">>,
       <<"create", "krbkeys">>, <<"info", "krbkeys">>,
       <<"member", "krbkeys">>, <<"identity", "krbkeys">>,
       <<"repo", "cluster">>, <<"group", "cluster">>, <<"push", "cluster">> >>

DeleteCalls ==
    << <<"grant", "flux">>, <<"identity", "flux">>, <<"member", "flux">>, <<"mark", "flux">>,
       <<"grant", "krbkeys">>, <<"identity", "krbkeys">>, <<"member", "krbkeys">>,
       <<"mark", "krbkeys">>,
       <<"repo", "cluster">>, <<"address", "cluster">> >>

Calls == [update |-> UpdateCalls, delete |-> DeleteCalls]
End(kind) == Len(Calls[kind]) + 1

(* Nothing is no status record, no patch and no action.                    *)
ASSUME NothingAssumption ==
    /\ \A D \in SUBSET Key : Nothing \notin [D -> Nat \cup BOOLEAN]
    /\ Nothing \notin [kind : DOMAIN Calls, at : Nat, acct : Nat, live : BOOLEAN,
                      own : [Key -> Nat \cup BOOLEAN]]

(* The first call for a role: do_acc and rm_acc look at its status there.  *)
First == [kind \in DOMAIN Calls |-> [r \in Role |->
            CHOOSE p \in DOMAIN Calls[kind] :
                /\ Calls[kind][p][2] = r
                /\ \A o \in 1..(p - 1) : Calls[kind][o][2] # r]]

Entered(kind, p, q) ==
    /\ q < End(kind)
    /\ Calls[kind][q][2] \in Role
    /\ First[kind][Calls[kind][q][2]] \in p..q

(* Mutant: a role that has an account is not set up again.                 *)
SkippedHalf(kind, st, p, q) ==
    /\ Entered(kind, p, q)
    /\ (kind = "update") = (st[Uuid(Calls[kind][q][2])] # None)

Skipped(kind, st, p, q) ==
    LET r == Calls[kind][q][2]
    IN  /\ Entered(kind, p, q)
        /\ IF kind = "update" THEN \/ st[Done(r)]
                                   \/ q = First[kind][r] /\ st[Uuid(r)] # None
                              ELSE st[Uuid(r)] = None

NextCall(kind, st, p, q) ==
    ~Skipped(kind, st, p, q) /\ \A o \in p..(q - 1) : Skipped(kind, st, p, o)

Forgotten(r) == [k \in {Uuid(r), Done(r)} |-> IF k = Uuid(r) THEN None ELSE FALSE]

(* Action.update, for a list of patches.  An action that began with a      *)
(* status entry shares that object with the Map, and one that did not has  *)
(* an object of its own.                                                   *)
Say(js, w, job, patches) ==
    /\ status' = MergeAll(status, patches)
    /\ queue' = queue \o patches
    /\ jobs' = [s \in Slot |->
        IF s = w
        THEN IF job = Nothing \/ job.live THEN job
             ELSE [job EXCEPT !.own = MergeAll(job.own, patches)]
        ELSE IF js[s] # Nothing /\ js[s].live /\ Nothing \in Range(patches)
             THEN [js[s] EXCEPT !.own = status, !.live = FALSE]
             ELSE js[s]]
    /\ UNCHANGED <<stored, stuck>>

(* The action goes on to the next call it must make, at p or after.  A     *)
(* role it begins to remove is no longer done; after its last call the     *)
(* cluster is ready, or its status is dropped.                             *)
Enter(js, w, job, q, patches) ==
    LET r == Calls[job.kind][q][2]
    IN  Say(js, w, [job EXCEPT !.at = q, !.acct = View(job)[Uuid(r)]],
            IF job.kind = "delete" THEN Append(patches, Patch(Done(r), FALSE)) ELSE patches)

Completed == [k \in {Ready_, Version_} |-> IF k = Ready_ THEN TRUE ELSE version]

Finish(js, w, job, patches) ==
    Say(js, w, Nothing, Append(patches, IF job.kind = "update" THEN Completed ELSE Nothing))

Advance(js, w, job, p, patches) ==
    \E q \in p..End(job.kind) :
        /\ NextCall(job.kind, View(job), p, q)
        /\ CASE q = End(job.kind) -> Finish(js, w, job, patches)
             [] Entered(job.kind, p, q) -> Enter(js, w, job, q, patches)
             [] OTHER -> Say(js, w, [job EXCEPT !.at = q], patches)

(* Mutant: a cluster that is set up is not looked at again.                *)
BeginOnce(js, w, job) ==
    LET st == View(job)
    IN  CASE job.kind = "update" /\ st[Ready_] -> Say(js, w, Nothing, <<>>)
          [] job.kind = "update" /\ ~st[Ready_] -> Advance(js, w, job, 1, <<Patch(Spec_, TRUE)>>)
          [] job.kind = "delete" /\ st[Spec_] -> Advance(js, w, job, 1, <<>>)
          [] OTHER -> Say(js, w, job, <<>>)

(* apply, up to the first call.  Delete needs the name that Update put in  *)
(* the status; without it it throws, and is tried again.                   *)
Begin(js, w, job) ==
    LET st == View(job)
        old == st[Version_] # version
    IN  CASE job.kind = "update" /\ st[Ready_] /\ ~old -> Say(js, w, Nothing, <<>>)
          [] job.kind = "update" /\ st[Ready_] /\ old ->
                Advance(js, w, job, 1, <<Patch(Ready_, FALSE), Patch(Spec_, TRUE)>>)
          [] job.kind = "update" /\ ~st[Ready_] -> Advance(js, w, job, 1, <<Patch(Spec_, TRUE)>>)
          [] job.kind = "delete" /\ st[Spec_] -> Advance(js, w, job, 1, <<>>)
          [] OTHER -> Say(js, w, job, <<>>)

-----------------------------------------------------------------------------
(* The services.                                                           *)
Fact(call, r, a) ==
    << IF call = "identity" THEN r ELSE call,
       IF call = "push" THEN version ELSE IF r = "cluster" THEN None ELSE a >>

(* A Kerberos name has one principal.  A repository that is not configured *)
(* cannot be cloned.                                                       *)
Refused(job) ==
    LET call == Calls[job.kind][job.at][1]
        r == Calls[job.kind][job.at][2]
    IN  job.kind = "update"
        /\ \/ call = "identity" /\ \E b \in Account \ {job.acct} : <<r, b>> \in facts
           \/ call = "push" /\ <<"repo", None>> \notin facts

(* What a call does.  That an account is marked deleted is not kept.  The  *)
(* Delete asks for an account's grants and deletes what it is told.  It is *)
(* told of none: grant_find passes the UUIDs of grants to a test for the   *)
(* permissions its caller may manage, and the Cluster Manager may manage   *)
(* only Git.Perm.Pull.                                                     *)
Effect(job, a) ==
    LET call == Calls[job.kind][job.at][1]
        fact == Fact(call, Calls[job.kind][job.at][2], a)
    IN  CASE call = "create" ->
                /\ accounts < MaxAccounts
                /\ accounts' = accounts + 1 /\ UNCHANGED facts
          [] call # "create" /\ job.kind = "update" ->
                facts' = facts \cup {fact} /\ UNCHANGED accounts
          [] job.kind = "delete" /\ call = "grant" -> UNCHANGED services
          [] OTHER -> facts' = facts \ {fact} /\ UNCHANGED accounts

-----------------------------------------------------------------------------
Unedited == UNCHANGED <<cluster, news, edits>>
Faultless == UNCHANGED <<version, faults, crossed, lost>>

Running(job) == job # Nothing /\ job.at > 0
Waiting(job) == job # Nothing /\ job.at = 0

Removing == \E w \in Slot : jobs[w] # Nothing /\ jobs[w].kind = "delete"

InStep == stuck \/ Len(queue) <= MaxLag

(* retryBackoff tries the action again, if it is still subscribed to.      *)
Failed(w, job) == IF w = "current" THEN [job EXCEPT !.at = 0, !.acct = None] ELSE Nothing

(* Mutant: an account is recorded when its identity has been added.        *)
WrittenLate(kind, call, r, a) ==
    CASE kind = "update" /\ call = "identity" -> <<Patch(Uuid(r), a), Patch(Done(r), TRUE)>>
      [] kind = "delete" /\ call = "mark" -> <<Forgotten(r)>>
      [] OTHER -> <<>>

(* What an action records when a call has succeeded.                       *)
Written(kind, call, r, a) ==
    CASE kind = "update" /\ call = "create" -> <<Patch(Uuid(r), a)>>
      [] kind = "update" /\ call = "identity" -> <<Patch(Done(r), TRUE)>>
      [] kind = "delete" /\ call = "mark" -> <<Forgotten(r)>>
      [] OTHER -> <<>>

Call(w) ==
    LET job == jobs[w]
        call == Calls[job.kind][job.at][1]
        r == Calls[job.kind][job.at][2]
        a == IF call = "create" THEN accounts + 1 ELSE job.acct
    IN  /\ Running(job) /\ ~Refused(job) /\ InStep
        /\ Effect(job, a)
        /\ Advance(jobs, w, [job EXCEPT !.acct = a], job.at + 1, Written(job.kind, call, r, a))
        /\ Unedited /\ Faultless

CallRefused(w) ==
    /\ Running(jobs[w]) /\ Refused(jobs[w])
    /\ jobs' = [jobs EXCEPT ![w] = Failed(w, jobs[w])]
    /\ Unedited /\ Faultless /\ UNCHANGED <<status, saving, services>>

(* The service fails, or its answer is lost.                               *)
CallFails(w) ==
    /\ Running(jobs[w]) /\ ~Refused(jobs[w]) /\ InStep
    /\ faults < MaxFaults /\ faults' = faults + 1
    /\ Effect(jobs[w], jobs[w].acct) \/ UNCHANGED services
    /\ jobs' = [jobs EXCEPT ![w] = Failed(w, jobs[w])]
    /\ Unedited /\ UNCHANGED <<status, saving, version, crossed, lost>>

Retry ==
    /\ Waiting(jobs["current"]) /\ InStep
    /\ Begin(jobs, "current", jobs["current"])
    /\ Unedited /\ Faultless /\ UNCHANGED services

-----------------------------------------------------------------------------
(* The clusters sequence emits: a new action, unless the cluster is gone   *)
(* and has no status.  It takes the place of the current one.              *)
NewAction ==
    [kind |-> IF cluster THEN "update" ELSE "delete", at |-> 0, acct |-> None,
     live |-> status # Nothing, own |-> Blank]

Tell ==
    LET job == jobs["current"]
    IN  /\ news /\ news' = FALSE /\ InStep
        /\ IF cluster \/ status # Nothing
           THEN /\ ~(Running(job) /\ Running(jobs["stray"]))
                /\ Begin([jobs EXCEPT !["stray"] = IF Running(job) THEN job ELSE @],
                         "current", NewAction)
                /\ crossed' = (crossed \/ (cluster /\ Removing)
                               \/ \E w \in Slot : Running(jobs[w]))
           ELSE UNCHANGED <<status, saving, jobs, crossed>>
        /\ UNCHANGED <<cluster, edits, version, faults, lost, services>>

(* The administrator.  A cluster is added again when its status entry has  *)
(* gone.  All clusters are looked at when another one changes.  As a bound, *)
(* nothing more is changed once an action has met another.                 *)
Edit ==
    /\ ~crossed
    /\ news' = TRUE
    /\ UNCHANGED <<status, saving, jobs, services>> /\ Faultless

AddCluster == ~cluster /\ stored = Nothing /\ cluster' = TRUE /\ UNCHANGED edits /\ Edit

RemoveCluster ==
    /\ cluster /\ cluster' = FALSE
    /\ edits < MaxEdits /\ edits' = edits + 1
    /\ Edit

OtherCluster ==
    /\ edits < MaxEdits /\ edits' = edits + 1
    /\ UNCHANGED cluster /\ Edit

(* Mutant: a patch that fails is passed over.                              *)
SaveFailsOver ==
    /\ queue # <<>> /\ ~stuck /\ faults < MaxFaults
    /\ faults' = faults + 1 /\ queue' = Tail(queue)
    /\ Unedited /\ UNCHANGED <<stored, stuck, status, jobs, services, version, crossed, lost>>

(* concatMap sends the first patch.  retry subscribes again to the promise *)
(* it has, and so a request that has failed is not made again.             *)
Save ==
    /\ queue # <<>> /\ ~stuck
    /\ IF Head(queue) = Nothing /\ stored = Nothing
       THEN stuck' = TRUE /\ UNCHANGED <<stored, queue>>
       ELSE stored' = Merge(stored, Head(queue)) /\ queue' = Tail(queue) /\ UNCHANGED stuck
    /\ Unedited /\ Faultless /\ UNCHANGED <<status, jobs, services>>

SaveFails ==
    /\ queue # <<>> /\ ~stuck /\ faults < MaxFaults
    /\ faults' = faults + 1 /\ stuck' = TRUE
    /\ stored' \in {stored, Merge(stored, Head(queue))}
    /\ Unedited /\ UNCHANGED <<queue, status, jobs, services, version, crossed, lost>>

(* The process ends; the next may be of a new version.  If it was removing *)
(* a cluster that has been added again, Update will meet what it has left.  *)
Restart ==
    /\ faults < MaxFaults /\ faults' = faults + 1
    /\ version' \in version..2
    /\ status' = stored /\ queue' = <<>> /\ stuck' = FALSE
    /\ jobs' = [s \in Slot |-> Nothing]
    /\ news' = TRUE
    /\ lost' = (lost \/ queue # <<>>)
    /\ crossed' = (crossed \/ (cluster /\ Removing))
    /\ UNCHANGED <<cluster, edits, stored, services>>

-----------------------------------------------------------------------------
Init ==
    /\ cluster = FALSE /\ news = FALSE
    /\ status = Nothing /\ stored = Nothing /\ queue = <<>> /\ stuck = FALSE
    /\ jobs = [s \in Slot |-> Nothing]
    /\ facts = {} /\ accounts = 0 /\ version = 1
    /\ edits = 0 /\ faults = 0 /\ crossed = FALSE /\ lost = FALSE

Act == Retry \/ \E w \in Slot : Call(w) \/ CallRefused(w)

Next ==
    \/ \E w \in Slot : Call(w) \/ CallRefused(w) \/ CallFails(w)
    \/ Retry \/ Tell \/ Save \/ SaveFails \/ Restart
    \/ AddCluster \/ RemoveCluster \/ OtherCluster

(* A promise settles, a timer fires, and the watch of the ConfigDB tells   *)
(* what has changed.                                                       *)
Fairness == WF_vars(Act) /\ WF_vars(Tell) /\ WF_vars(Save)

Spec == Init /\ [][Next]_vars /\ Fairness

-----------------------------------------------------------------------------
IsStatus(st) ==
    \/ st = Nothing
    \/ /\ DOMAIN st = Key
       /\ st[Version_] \in Version \cup {None}
       /\ \A k \in Key \ Numeric : st[k] \in BOOLEAN
       /\ \A r \in Role : st[Uuid(r)] \in 0..accounts

IsJob(w) ==
    \/ jobs[w] = Nothing
    \/ /\ jobs[w].kind \in {"update", "delete"} /\ jobs[w].at \in 0..(End(jobs[w].kind) - 1)
       /\ jobs[w].acct \in 0..accounts /\ jobs[w].live \in BOOLEAN /\ IsStatus(jobs[w].own)

(* The variables have their types, an action that shares the status of the *)
(* Map finds it there, and one that has been dropped is not tried again.   *)
ManagerTypeOK ==
    /\ cluster \in BOOLEAN /\ news \in BOOLEAN
    /\ IsStatus(status) /\ IsStatus(stored)
    /\ (\A i \in DOMAIN queue : queue[i] = Nothing \/ DOMAIN queue[i] \subseteq Key)
    /\ stuck \in BOOLEAN
    /\ (stuck => queue # <<>>)
    /\ \A w \in Slot : IsJob(w) /\ (jobs[w] # Nothing /\ jobs[w].live => status # Nothing)
    /\ ~Waiting(jobs["stray"])
    /\ accounts \in 0..MaxAccounts /\ version \in Version
    /\ edits \in 0..MaxEdits /\ faults \in 0..MaxFaults
    /\ {crossed, lost} \subseteq BOOLEAN

(* What has been saved and the patches that wait make up the status, in    *)
(* whatever order actions that share it or not have changed it.            *)
Mirrored == MergeAll(stored, queue) = status

Recorded(r, a) == status # Nothing /\ status[Uuid(r)] = a

(* Unless an action met another or patches were lost, every account that   *)
(* holds a principal's name or a role is one that the status names, and an *)
(* address or a repository belongs to a cluster that has a status: this    *)
(* can be removed.  A grant outlives its account.                          *)
Accounted ==
    ~crossed /\ ~lost =>
        /\ \A r \in Role, a \in Account : <<r, a>> \in facts => Recorded(r, a)
        /\ \A a \in Account : <<"member", a>> \in facts => \E r \in Role : Recorded(r, a)
        /\ \A f \in {"address", "repo"} : <<f, None>> \in facts => status # Nothing

IsReady == status # Nothing /\ status[Ready_]

SetUp ==
    /\ \A f \in {"address", "repo", "group"} : <<f, None>> \in facts
    /\ <<"push", status[Version_]>> \in facts
    /\ <<"grant", status[Uuid("flux")]>> \in facts
    /\ \A r \in Role : LET a == status[Uuid(r)]
                       IN  {<<"info", a>>, <<"member", a>>, <<r, a>>} \subseteq facts

(* A cluster that is ready has all that bootstrap promises to the edge.    *)
ReadyIsSetUp == ~crossed /\ ~lost /\ IsReady /\ cluster /\ ~Removing => SetUp

AtRest == ~news /\ \A w \in Slot : jobs[w] = Nothing

(* In the end the cluster is ready for the version that runs, or nothing   *)
(* is left of it, whatever calls have failed.                              *)
Settled ==
    <>[](\/ crossed \/ lost
         \/ /\ AtRest
            /\ IF cluster THEN IsReady /\ status[Version_] = version ELSE status = Nothing)

-----------------------------------------------------------------------------
(* clusters.js says "We must serialise the actions for each cluster": a    *)
(* cluster that is ready and at rest has all it needs, whatever else has   *)
(* been changed while it was set up.                                       *)
ReadyInAnyOrder == ~lost /\ IsReady /\ cluster /\ AtRest => SetUp

(* js-service-client says of find_grants, "Finds all grants we have access *)
(* to read which match the pattern provided", and a Delete removes what it *)
(* finds: a cluster that has been removed leaves no grant.  But it finds   *)
(* none (Effect).                                                          *)
GrantsRemoved ==
    ~crossed /\ ~lost /\ ~cluster /\ status = Nothing /\ AtRest =>
        \A a \in Account : <<"grant", a>> \notin facts

(* clusters.js says of saving a patch "Make sure we succeed before trying  *)
(* the next": a save that fails is made again until it succeeds.           *)
SavedInTheEnd == <>[](queue = <<>>)

(* edge-bootstrap.md says of the status "so that the process can be picked *)
(* up again if the cluster manager is restarted": a cluster is set up in   *)
(* the end, whenever the process was restarted.                            *)
PickedUpAgain == <>[](crossed \/ ~cluster \/ IsReady)

=============================================================================
