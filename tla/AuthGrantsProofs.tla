-------------------------- MODULE AuthGrantsProofs --------------------------
(* Proofs about the grants that the Auth service has in memory, for any     *)
(* grants and groups, any number of requests at a time, edits and restarts. *)
EXTENDS AuthGrants, TLAPS

(* The requests that are being handled, and the versions they answer with.  *)
SlotsTyped ==
    slots \in [Slot -> {None}
                   \cup [pc: {"find", "write"}, req: Request, permitted: Rights]
                   \cup [pc: {"done"}, status: Nat, at: Nat]]

AnswersMade ==
    \A s \in Slot : slots[s] # None /\ slots[s].pc = "done" => slots[s].at <= version

(* At most one query is awaited, which was asked for after the last answer; *)
(* what it reads is no older than that, nor than what was read before.      *)
OneQuery ==
    \/ fetch = {}
    \/ fetch = {Asked}
    \/ \E f : fetch = {f} /\ /\ f # Asked /\ f.at \in Nat
                             /\ answered <= f.at /\ f.at <= version
                             /\ view # None => view.at <= f.at

ViewPast == view # None => view.at \in Nat /\ view.at <= version

Inv ==
    /\ version \in Nat /\ answered \in Nat /\ answered <= version
    /\ SlotsTyped /\ AnswersMade
    /\ OneQuery /\ ViewPast
    /\ fetch = {} => view.at \in Nat /\ answered <= view.at

-----------------------------------------------------------------------------
(* The last version answered is one that has been made.                     *)
LEMMA LatestOfTwo ==
    ASSUME NEW a \in Nat, NEW b \in Nat
    PROVE  Max({a, b}) \in {a, b} /\ a <= Max({a, b}) /\ b <= Max({a, b})
  <1>1. \E m \in {a, b} : \A n \in {a, b} : n <= m
    OBVIOUS
  <1> QED BY <1>1 DEF Max

(* The first query is asked for before anybody is answered.                 *)
LEMMA InitInv == Init => Inv
  BY DEF Init, Inv, SlotsTyped, AnswersMade, OneQuery, ViewPast

(* A step that leaves the queries and what they have read alone, and writes *)
(* at most a new version, keeps what is known of them.                      *)
LEMMA QueriesKept ==
    ASSUME Inv, UNCHANGED <<fetch, view, answered>>,
           version' \in Nat, version <= version'
    PROVE  /\ answered' \in Nat /\ answered' <= version'
           /\ OneQuery' /\ ViewPast'
           /\ (fetch = {} => view.at \in Nat /\ answered <= view.at)'
  BY DEF Inv, OneQuery, ViewPast, Asked

(* An outcome is told of the present version.                               *)
LEMMA OutcomeKept ==
    ASSUME Inv, NEW s \in Slot, NEW status \in Nat, NEW at \in Nat,
           version' = at, version <= at,
           slots' = [slots EXCEPT ![s] = Answer(status, at)]
    PROVE  SlotsTyped' /\ AnswersMade'
  <1>1. Answer(status, at) \in [pc: {"done"}, status: Nat, at: Nat] /\ Answer(status, at).at = at
    BY DEF Answer
  <1>2. SlotsTyped'
    BY <1>1 DEF Inv, SlotsTyped
  <1>3. AnswersMade'
    <2> SUFFICES ASSUME NEW q \in Slot, slots'[q] # None, slots'[q].pc = "done"
                 PROVE  slots'[q].at <= at
      BY DEF AnswersMade
    <2>1. CASE q = s
      BY <1>1, <2>1 DEF Inv, SlotsTyped
    <2>2. CASE q # s
      <3>1. slots'[q] = slots[q]
        BY <2>2 DEF Inv, SlotsTyped
      <3>2. slots[q].at <= version /\ slots[q].at \in Nat
        BY <3>1 DEF Inv, SlotsTyped, AnswersMade
      <3> QED BY <3>1, <3>2 DEF Inv
    <2> QED BY <2>1, <2>2
  <1> QED BY <1>2, <1>3

(* A request that comes in has no answer yet.                               *)
LEMMA AskInv == ASSUME Inv, NEW s \in Slot, Ask(s) PROVE Inv'
  <1>1. version' = version /\ UNCHANGED <<fetch, view, answered>>
    BY DEF Ask, table, memory
  <1>2. SlotsTyped' /\ AnswersMade'
    BY <1>1 DEF Ask, Inv, SlotsTyped, AnswersMade
  <1> QED BY <1>1, <1>2, QueriesKept DEF Inv

(* A request that ends in its first statement tells of the present version. *)
LEMMA FindInv == ASSUME Inv, NEW s \in Slot, Find(s) PROVE Inv'
  <1>1. version' = version /\ UNCHANGED <<fetch, view, answered>>
    BY DEF Find, table, memory
  <1>2. \/ slots' = [slots EXCEPT ![s].pc = "write"]
        \/ \E v \in Nat, at \in Nat :
              slots' = [slots EXCEPT ![s] = Answer(v, at)] /\ at = version
    <2> DEFINE verdict == Verdict(slots[s].req, slots[s].permitted)
    <2>1. verdict = None \/ verdict \in Nat
      BY DEF Verdict, Rejection
    <2>2. IF verdict = None THEN slots' = [slots EXCEPT ![s].pc = "write"]
                            ELSE slots' = [slots EXCEPT ![s] = Answer(verdict, version)]
      BY DEF Find, Outcome
    <2> HIDE DEF verdict
    <2> QED BY <2>1, <2>2 DEF Inv
  <1>3. CASE slots' = [slots EXCEPT ![s].pc = "write"]
    <2>1. slots[s] \in [pc: {"find", "write"}, req: Request, permitted: Rights]
      BY DEF Find, Inv, SlotsTyped
    <2>2. SlotsTyped' /\ AnswersMade'
      BY <1>1, <1>3, <2>1 DEF Inv, SlotsTyped, AnswersMade
    <2> QED BY <1>1, <2>2, QueriesKept DEF Inv
  <1>4. ASSUME NEW v \in Nat, NEW at \in Nat, at = version,
               slots' = [slots EXCEPT ![s] = Answer(v, at)]
        PROVE  Inv'
    <2>1. SlotsTyped' /\ AnswersMade'
      <3>1. version' = at /\ version <= at
        BY <1>1, <1>4 DEF Inv
      <3> QED BY <1>4, <3>1, OutcomeKept
    <2> QED BY <1>1, <2>1, QueriesKept DEF Inv
  <1> QED BY <1>2, <1>3, <1>4

(* So does every step that writes the table and every one that finds        *)
(* nothing to write, with the outcome in the slot.                          *)
LEMMA OutcomeInv ==
    ASSUME Inv, NEW s \in Slot, NEW status \in Nat, NEW at \in Nat,
           version' = at, version <= at,
           slots' = [slots EXCEPT ![s] = Answer(status, at)],
           UNCHANGED <<memory, answered>>
    PROVE  Inv'
  <1>1. UNCHANGED <<fetch, view, answered>>
    BY DEF memory
  <1>2. SlotsTyped' /\ AnswersMade'
    BY OutcomeKept
  <1> QED BY <1>1, <1>2, QueriesKept DEF Inv

(* Each of the four requests that write does one or the other.              *)
LEMMA WriteInv ==
    ASSUME Inv, NEW s \in Slot,
           GrantNew(s) \/ GrantUpdate(s) \/ GrantDelete(s) \/ LoadDump(s)
    PROVE  Inv'
  <1>1. UNCHANGED <<memory, answered>>
    BY DEF GrantNew, GrantUpdate, GrantDelete, LoadDump, Becomes, Nothing
  <1>2. \E status \in Nat :
          \/ version' = version /\ slots' = [slots EXCEPT ![s] = Answer(status, version)]
          \/ version' = version + 1 /\ slots' = [slots EXCEPT ![s] = Answer(status, version')]
    <2>1. CASE GrantNew(s)
      BY <2>1 DEF GrantNew, Becomes, Nothing, Outcome, table
    <2>2. CASE GrantUpdate(s)
      BY <2>2 DEF GrantUpdate, Becomes, Nothing, Outcome, table, Rejection
    <2>3. CASE GrantDelete(s)
      BY <2>3 DEF GrantDelete, Becomes
    <2>4. CASE LoadDump(s)
      BY <2>4 DEF LoadDump, Becomes
    <2> QED BY <2>1, <2>2, <2>3, <2>4
  <1>3. PICK status \in Nat, at \in Nat :
          /\ version' = at /\ version <= at
          /\ slots' = [slots EXCEPT ![s] = Answer(status, at)]
    BY <1>2 DEF Inv
  <1> QED BY <1>1, <1>3, OutcomeInv

(* The answer of a success and the new query come in one step.              *)
LEMMA RespondInv == ASSUME Inv, NEW s \in Slot, Respond(s) PROVE Inv'
  <1>1. version' = version /\ view' = view
    BY DEF Respond, table
  <1>2. SlotsTyped' /\ AnswersMade'
    BY <1>1 DEF Respond, Inv, SlotsTyped, AnswersMade
  <1>3. CASE slots[s].status < 300
    <2>1. slots[s].at \in Nat /\ slots[s].at <= version
      BY DEF Respond, Inv, SlotsTyped, AnswersMade
    <2>2. fetch' = {Asked} /\ answered' = Max({answered, slots[s].at})
      BY <1>3 DEF Respond, Refetched
    <2>3. answered' \in Nat /\ answered' <= version
      BY <2>1, <2>2, LatestOfTwo DEF Inv
    <2> QED BY <1>1, <1>2, <2>2, <2>3 DEF Inv, OneQuery, ViewPast
  <1>4. CASE ~(slots[s].status < 300)
    <2>1. UNCHANGED <<fetch, view, answered>>
      BY <1>1, <1>4 DEF Respond
    <2> QED BY <1>1, <1>2, <2>1, QueriesKept DEF Inv
  <1> QED BY <1>3, <1>4

(* A query reads the latest version, which is past all that were answered.  *)
LEMMA FetchReadInv == ASSUME Inv, FetchRead PROVE Inv'
  <1>1. fetch = {Asked}
    BY DEF FetchRead, Inv, OneQuery
  <1>2. fetch' = {Read} /\ Read # Asked /\ Read.at = version
    BY <1>1 DEF FetchRead, Read, Asked
  <1>3. UNCHANGED <<version, slots, view, answered>>
    BY DEF FetchRead, table
  <1>4. SlotsTyped' /\ AnswersMade'
    BY <1>3 DEF Inv, SlotsTyped, AnswersMade
  <1>5. OneQuery' /\ ViewPast'
    BY <1>2, <1>3 DEF Inv, OneQuery, ViewPast, Asked
  <1> QED BY <1>2, <1>3, <1>4, <1>5 DEF Inv

(* A query that ends replaces what was read, and none is left.              *)
LEMMA FetchDoneInv == ASSUME Inv, FetchDone PROVE Inv'
  <1>1. PICK f \in fetch \ {Asked} : fetch' = fetch \ {f} /\ view' = [rows |-> f.rows, at |-> f.at]
    BY DEF FetchDone
  <1>2. fetch = {f} /\ f.at \in Nat /\ answered <= f.at /\ f.at <= version
    BY <1>1 DEF Inv, OneQuery
  <1>3. UNCHANGED <<version, slots, answered>>
    BY DEF FetchDone, table
  <1>4. SlotsTyped' /\ AnswersMade'
    BY <1>3 DEF Inv, SlotsTyped, AnswersMade
  <1>5. fetch' = {} /\ view'.at = f.at
    BY <1>1, <1>2
  <1> QED BY <1>1, <1>2, <1>3, <1>4, <1>5 DEF Inv, OneQuery, ViewPast

(* A restart forgets what was read, and asks anew.                          *)
LEMMA RestartInv == ASSUME Inv, Restart PROVE Inv'
  <1>1. version' = version /\ answered' = answered /\ view' = None /\ fetch' = {Asked}
    BY DEF Restart, table
  <1>2. SlotsTyped' /\ AnswersMade'
    BY DEF Restart, SlotsTyped, AnswersMade
  <1> QED BY <1>1, <1>2 DEF Inv, OneQuery, ViewPast

(* The steps of the watches and of the ConfigDB, and stuttering.            *)
LEMMA OthersInv ==
    ASSUME Inv, UNCHANGED <<version, slots, fetch, view, answered>>
    PROVE  Inv'
  <1>1. SlotsTyped' /\ AnswersMade'
    BY DEF Inv, SlotsTyped, AnswersMade
  <1> QED BY <1>1, QueriesKept DEF Inv

(* Every step keeps the invariant.                                          *)
LEMMA NextInv == ASSUME Inv, [Next]_vars PROVE Inv'
  <1>1. CASE \E s \in Slot : Ask(s) \/ Handle(s)
    BY <1>1, AskInv, FindInv, WriteInv, RespondInv, RestartInv DEF Handle, Rejected
  <1>2. CASE FetchRead \/ FetchDone \/ Crash
    BY <1>2, FetchReadInv, FetchDoneInv, RestartInv DEF Crash
  <1>3. CASE TellFirst \/ \E c \in Watched : Tell(c) \/ Forget(c) \/ Edit(c)
    <2>1. UNCHANGED <<version, slots, fetch, view, answered>>
      BY <1>3 DEF TellFirst, Tell, Forget, Edit, table, memory
    <2> QED BY <2>1, OthersInv
  <1>4. CASE UNCHANGED vars
    BY <1>4, OthersInv DEF vars, table, memory
  <1> QED BY <1>1, <1>2, <1>3, <1>4 DEF Next

(* Inv holds in every state of every behaviour.                             *)
THEOREM InvCorrect == Spec => []Inv
  <1>1. Inv /\ [Next]_vars => Inv'
    BY NextInv
  <1> QED BY <1>1, InitInv, PTL DEF Spec

(* Whoever has been told that a change of the grants succeeded finds it in  *)
(* the rows from which ACLs are made, once no query is awaited.             *)
THEOREM AnsweredIsSeenCorrect == Spec => []AnsweredIsSeen
  <1>1. Inv => AnsweredIsSeen
    BY DEF Inv, AnsweredIsSeen
  <1> QED BY <1>1, InvCorrect, PTL

(* The rows that were read last are never replaced by older ones: a query   *)
(* is dropped as soon as another is asked for.                              *)
THEOREM SeenForwardCorrect == Spec => SeenForward
  <1>1. ASSUME Inv, [Next]_vars
        PROVE  [view # None /\ view' # None => view'.at >= view.at]_vars
    <2>1. CASE view' = view
      BY <1>1, <2>1 DEF Inv, ViewPast
    <2>2. CASE FetchDone
      BY <1>1, <2>2 DEF FetchDone, Inv, OneQuery, ViewPast
    <2>3. CASE view' = None
      BY <2>3
    <2>4. \/ view' = view \/ FetchDone \/ view' = None
      BY <1>1 DEF Next, vars, memory, Ask, Handle, Find, GrantNew, GrantUpdate, GrantDelete,
             LoadDump, Becomes, Nothing, Respond, Rejected, Crash, Restart, FetchRead,
             TellFirst, Tell, Forget, Edit
    <2> QED BY <2>1, <2>2, <2>3, <2>4
  <1> QED BY <1>1, InvCorrect, PTL DEF Spec, SeenForward
=============================================================================
