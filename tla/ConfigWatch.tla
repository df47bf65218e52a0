----------------------------- MODULE ConfigWatch -----------------------------
(***************************************************************************)
(* The change-notify interface of the ConfigDB: one client of js-rx-client *)
(* that watches one entry, over a WebSocket, through js-service-api.  The  *)
(* watch is of one of three kinds, which the ConfigDB answers differently: *)
(*   list    the list of entries; fetched again on every update            *)
(*   entry   one entry; fetched once, then the updates are passed on       *)
(*   search  every entry; fetched until a fetch has answered, then as entry *)
(* A failed fetch ends a watch with an error, except that of a search: its *)
(* rejected promise is not caught and ends the service.                    *)
(***************************************************************************)
EXTENDS ConfigEntries

CONSTANT MaxFaults      \* bound: lost connections, restarts, failed fetches

ASSUME FaultsAssumption == MaxFaults \in Nat

VARIABLES
    kind,       \* of the watch
    link,       \* the WebSocket: "down", "up", or "watching"
    fetching,   \* fetching[i]: how many fetches have read state i; 0: none yet
    live,       \* updates are passed on (concat has moved on; child_ok)
    queue,      \* search: updates that wait for their check of the ACL
    out,        \* messages to the client
    view,       \* what the client has been told last
    viewAt,     \* ghost: which state that was, 0 before the first
    sentAt,     \* ghost: which state was sent last on this subscription
    disordered, \* ghost: an older state was sent after a newer one
    missed,     \* ghost: an update fell between the fetch and the updates
    ended,      \* the client's sequence has ended with an error
    faults

serving == <<fetching, live, queue, out, sentAt, disordered, missed>>
client == <<view, viewAt, ended>>
watchvars == <<kind, link, serving, client, faults>>
vars == <<entryvars, watchvars>>

Kind == {"list", "entry", "search"}
State == 1..(MaxChanges + 1)
Told == [json: Json \cup {NoEntry, "listed"}, at: State]
Error == [status |-> 500]
(* Always replaced by the answer of a fetch.                               *)
First == [child |-> TRUE]

WatchTypeOK ==
    /\ EntriesTypeOK
    /\ kind \in Kind /\ link \in {"down", "up", "watching"}
    /\ fetching \in [0..(MaxChanges + 1) -> Nat]
    /\ live \in BOOLEAN
    /\ queue \in Seq(Told \cup {First}) /\ (queue # <<>> => kind = "search")
    /\ out \in Seq(Told \cup {Error})
    /\ view \in Json \cup {NoEntry, "listed"} /\ viewAt \in 0..Now /\ sentAt \in 0..Now
    /\ {disordered, missed, ended} \subseteq BOOLEAN
    /\ faults \in 0..MaxFaults
    /\ link # "watching" => fetching = [i \in 0..(MaxChanges + 1) |-> 0] /\ queue = <<>>

(* A list tells which objects have an entry, not what is in it.            *)
Seen(json) == IF kind = "list" /\ json # NoEntry THEN "listed" ELSE json

NoFetch == [i \in 0..(MaxChanges + 1) |-> 0]
StartFetch(f) == [f EXCEPT ![0] = @ + 1]

Init ==
    /\ EntriesInit
    /\ kind \in Kind
    /\ link = "down"
    /\ fetching = NoFetch /\ live = FALSE /\ queue = <<>> /\ out = <<>>
    /\ sentAt = 0 /\ disordered = FALSE /\ missed = FALSE
    /\ view = NoEntry /\ viewAt = 0 /\ ended = FALSE
    /\ faults = 0

-----------------------------------------------------------------------------
(* The client.  It keeps what it has been told while it is not connected.  *)
Connect ==
    /\ link = "down" /\ ~ended
    /\ link' = "up"
    /\ UNCHANGED <<entryvars, kind, serving, client, faults>>

Deliver ==
    /\ out # <<>> /\ ~ended
    /\ out' = Tail(out)
    /\ IF Head(out) = Error
       THEN ended' = TRUE /\ UNCHANGED <<view, viewAt>>
       ELSE /\ view' = Head(out).json /\ viewAt' = Head(out).at
            /\ UNCHANGED ended
    /\ UNCHANGED <<entryvars, kind, link, fetching, live, queue, sentAt, disordered, missed, faults>>

-----------------------------------------------------------------------------
(* The server takes the WATCH or SEARCH request.                           *)
Subscribe ==
    /\ link = "up" /\ ~ended /\ out = <<>>
    /\ link' = "watching"
    /\ IF kind = "search"
       THEN queue' = <<First>> /\ UNCHANGED fetching
       ELSE fetching' = StartFetch(fetching) /\ UNCHANGED queue
    /\ UNCHANGED <<entryvars, kind, live, out, sentAt, disordered, missed, client, faults>>

Send(json, at) ==
    /\ out' = Append(out, [json |-> Seen(json), at |-> at])
    /\ sentAt' = at
    /\ disordered' = (disordered \/ at < sentAt)

FetchRead ==
    /\ fetching[0] > 0
    /\ fetching' = [fetching EXCEPT ![0] = @ - 1, ![Now] = @ + 1]
    /\ UNCHANGED <<entryvars, kind, link, live, queue, out, sentAt, disordered, missed, client, faults>>

FetchAnswer(i) ==
    /\ fetching[i] > 0
    /\ fetching' = [fetching EXCEPT ![i] = @ - 1]
    /\ Send(history[i], i)
    /\ live' = TRUE
    /\ UNCHANGED <<entryvars, kind, link, queue, missed, client, faults>>

(* The subscription is torn down.                                          *)
Unserved ==
    /\ fetching' = NoFetch /\ live' = FALSE /\ queue' = <<>>
    /\ sentAt' = 0 /\ disordered' = FALSE /\ missed' = FALSE

FetchFails ==
    /\ fetching # NoFetch /\ kind # "search"
    /\ faults < MaxFaults /\ faults' = faults + 1
    /\ Unserved /\ link' = "up"
    /\ out' = Append(out, Error)
    /\ UNCHANGED <<entryvars, kind, client>>

(* Mutant: an update does not cancel the fetch that has begun (mergeMap).  *)
RefetchMerged == StartFetch(fetching)

(* Mutant: nothing is fetched while a fetch is under way (exhaustMap).     *)
RefetchExhausted == IF fetching = NoFetch THEN StartFetch(NoFetch) ELSE fetching

(* switchMap cancels the fetch of a list that is under way.                *)
Refetch == StartFetch(NoFetch)

(* What the subscription makes of an update.                               *)
Update(update) ==
    /\ \/ kind = "list" /\ fetching' = Refetch
          /\ UNCHANGED <<queue, out, sentAt, disordered, missed>>
       \/ kind = "entry" /\ live /\ Send(update.json, update.at)
          /\ UNCHANGED <<fetching, queue, missed>>
       \/ kind = "entry" /\ ~live
          /\ missed' = (missed \/ \E i \in 1..(update.at - 1) : fetching[i] > 0)
          /\ UNCHANGED <<fetching, queue, out, sentAt, disordered>>
       \/ kind = "search" /\ queue' = Append(queue, update)
          /\ UNCHANGED <<fetching, out, sentAt, disordered, missed>>
    /\ UNCHANGED live

Emit(h) ==
    /\ request[h].step = "committed"
    /\ request' = [request EXCEPT ![h] = Idle]
    /\ IF link = "watching"
       THEN Update([json |-> request[h].json, at |-> request[h].at])
       ELSE UNCHANGED serving
    /\ UNCHANGED <<entry, history, kind, link, client, faults>>

(* build_search: until a fetch has answered, any update starts another.    *)
Checked ==
    /\ queue # <<>>
    /\ queue' = Tail(queue)
    /\ IF live
       THEN Send(Head(queue).json, Head(queue).at) /\ UNCHANGED fetching
       ELSE fetching' = StartFetch(fetching) /\ UNCHANGED <<out, sentAt, disordered>>
    /\ UNCHANGED <<entryvars, kind, link, live, missed, client, faults>>

-----------------------------------------------------------------------------
(* The WebSocket is lost.                                                  *)
Drop ==
    /\ link # "down" /\ faults < MaxFaults /\ faults' = faults + 1
    /\ link' = "down" /\ Unserved /\ out' = <<>>
    /\ UNCHANGED <<entryvars, kind, client>>

(* The ConfigDB restarts: what is not committed is rolled back, and what   *)
(* is not announced never is.                                              *)
Crash ==
    /\ faults < MaxFaults /\ faults' = faults + 1
    /\ request' = [h \in Handler |-> Idle]
    /\ link' = "down" /\ Unserved /\ out' = <<>>
    /\ UNCHANGED <<entry, history, kind, client>>

Step ==
    \/ Connect \/ Deliver \/ Subscribe \/ FetchRead \/ Checked
    \/ \E i \in State : FetchAnswer(i)
    \/ \E h \in Handler : Emit(h)

Requests == (\E h \in Handler : RequestStep(h)) /\ UNCHANGED watchvars

Next == Step \/ Requests \/ FetchFails \/ Drop \/ Crash

(* The event loop and the database go on, and the client reconnects.       *)
Fairness ==
    /\ WF_vars(Connect) /\ WF_vars(Deliver) /\ WF_vars(Subscribe)
    /\ WF_vars(FetchRead) /\ WF_vars(Checked)
    /\ \A i \in State : WF_vars(FetchAnswer(i))
    /\ \A h \in Handler : WF_vars(Emit(h))

Spec == Init /\ [][Next]_vars /\ Fairness

-----------------------------------------------------------------------------
(* Whatever the requests, the interleaving and the faults, the client is   *)
(* only ever shown states that the entry has had, and a list never goes    *)
(* back in time, not over a reconnection either.                           *)
Watched == INSTANCE WatchedResource WITH
    states <- [i \in 1..Now |-> Seen(history[i])],
    shown <- view, at <- viewAt, ordered <- (kind = "list")

ImplementsWatch == Watched!Init /\ [][Watched!Next]_(Watched!vars)

Quiet ==
    /\ link = "watching" /\ fetching = NoFetch /\ queue = <<>> /\ out = <<>> /\ ~ended
    /\ \A h \in Handler : request[h].step # "committed"

(* When nothing is under way a watching client has been told the present   *)
(* content, unless an update fell between the fetch and the updates of an  *)
(* entry's watch, or updates or answers were sent out of order.  A list is *)
(* right whatever happened.                                                *)
QuietAgrees ==
    Quiet /\ (kind # "list" => ~disordered /\ ~missed) => view = Seen(Content(entry))

(* Once changes cease, the list that a client has is the right one and     *)
(* stays so, unless its sequence has ended with an error.                  *)
ListSettles == kind = "list" => <>[](ended \/ view = Seen(Content(entry)))

(* What docs/services/notify-v2.md says: an update is sent every time the  *)
(* resource changes.                                                       *)
QuietIsCurrent == Quiet => view = Seen(Content(entry))
=============================================================================
