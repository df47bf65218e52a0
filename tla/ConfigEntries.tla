---------------------------- MODULE ConfigEntries ----------------------------
(***************************************************************************)
(* A config entry of the ConfigDB (one application and object) under       *)
(* concurrent requests.  A request is a transaction at READ COMMITTED that *)
(* reads the row (and checks the etag), then writes it by row id, and      *)
(* commits; when the commit has been confirmed its handler emits an        *)
(* update.  Other handlers run in between.                                 *)
(***************************************************************************)
EXTENDS Naturals, Sequences

CONSTANTS
    Json,       \* contents of an entry
    NoEntry,    \* there is no such entry
    Handler,    \* bound: requests at one time
    MaxChanges  \* bound: changes of the entry

ASSUME NoEntryAssumption == NoEntry \notin Json
ASSUME ChangesAssumption == MaxChanges \in Nat

VARIABLES
    entry,      \* the row, or NoEntry
    history,    \* ghost: what the entry has been, the present content last
    request     \* of each handler: idle, has read, or has committed

entryvars == <<entry, history, request>>

Now == Len(history)

(* The row id is drawn anew: numbered here by the change that drew it.     *)
Row == [id: 1..MaxChanges, json: Json]

(* What is not there is not a row.                                         *)
ASSUME RowAssumption == NoEntry \notin Row

Idle == [step |-> "idle"]
HasRead == [step: {"read"}, op: {"put", "delete"}, old: Row \cup {NoEntry},
            json: Json \cup {NoEntry}]
Committed == [step: {"committed"}, json: Json \cup {NoEntry}, at: 1..(MaxChanges + 1)]

EntriesTypeOK ==
    /\ entry \in Row \cup {NoEntry}
    /\ history \in Seq(Json \cup {NoEntry}) /\ Now \in 1..(MaxChanges + 1)
    /\ request \in [Handler -> {Idle} \cup HasRead \cup Committed]

Content(row) == IF row = NoEntry THEN NoEntry ELSE row.json

EntriesInit ==
    /\ entry = NoEntry
    /\ history = <<NoEntry>>
    /\ request = [h \in Handler |-> Idle]

-----------------------------------------------------------------------------
(* The first part of config_put, config_merge_patch and config_delete.  A  *)
(* request whose etag check fails, or whose config is not valid, ends here *)
(* and changes nothing.                                                    *)
Read(h, op, json) ==
    /\ request[h] = Idle
    /\ request' = [request EXCEPT
            ![h] = [step |-> "read", op |-> op, old |-> entry, json |-> json]]
    /\ UNCHANGED <<entry, history>>

(* A merge patch makes a new content from the entry it has read, or from   *)
(* nothing (null is an object), and goes on as a PUT of that.              *)
Put(h) == \E json \in Json : Read(h, "put", json)

Delete(h) == entry # NoEntry /\ Read(h, "delete", NoEntry)

-----------------------------------------------------------------------------
(* The row that was read is still there.                                   *)
Found(r) == entry # NoEntry /\ r.old # NoEntry /\ entry.id = r.old.id

Store(row) ==
    /\ Now <= MaxChanges
    /\ entry' = row
    /\ history' = Append(history, Content(row))

Announce(h, json, at) ==
    request' = [request EXCEPT ![h] = [step |-> "committed", json |-> json, at |-> at]]

Create(h, r) ==
    /\ r.op = "put" /\ r.old = NoEntry /\ entry = NoEntry
    /\ Store([id |-> Now, json |-> r.json])
    /\ Announce(h, r.json, Now + 1)

(* Mutant: the update is announced without the content it has stored.      *)
ReplaceUnsaid(h, r) ==
    /\ r.op = "put" /\ Found(r) /\ entry.json # r.json
    /\ Store([entry EXCEPT !.json = r.json])
    /\ request' = [request EXCEPT ![h] = Idle]

Replace(h, r) ==
    /\ r.op = "put" /\ Found(r) /\ entry.json # r.json
    /\ Store([entry EXCEPT !.json = r.json])
    /\ Announce(h, r.json, Now + 1)

(* A PUT that changes nothing, or finds that its row has gone, is answered *)
(* 204 and is not announced.                                               *)
NoChange(h, r) ==
    /\ r.op = "put" /\ r.old # NoEntry
    /\ Found(r) => entry.json = r.json
    /\ request' = [request EXCEPT ![h] = Idle]
    /\ UNCHANGED <<entry, history>>

Remove(h, r) ==
    /\ r.op = "delete" /\ Found(r)
    /\ Store(NoEntry)
    /\ Announce(h, NoEntry, Now + 1)

(* A DELETE is answered 204 and announced although its row has gone.       *)
RemoveGone(h, r) ==
    /\ r.op = "delete" /\ ~Found(r)
    /\ \E at \in 1..Now :
        /\ history[at] = NoEntry
        /\ \A i \in (at + 1)..Now : history[i] # NoEntry
        /\ Announce(h, NoEntry, at)
    /\ UNCHANGED <<entry, history>>

Write(h) ==
    /\ request[h].step = "read"
    /\ LET r == request[h]
       IN  Create(h, r) \/ Replace(h, r) \/ NoChange(h, r) \/ Remove(h, r) \/ RemoveGone(h, r)

(* An error of the database, or of the unique index: nothing is changed.   *)
Rollback(h) ==
    /\ request[h].step = "read"
    /\ request' = [request EXCEPT ![h] = Idle]
    /\ UNCHANGED <<entry, history>>

RequestStep(h) == Put(h) \/ Delete(h) \/ Write(h) \/ Rollback(h)
=============================================================================
