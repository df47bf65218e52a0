--------------------------- MODULE ConfigWatchProofs ---------------------------
(* Proofs about the notify interface of the ConfigDB, for any contents, any *)
(* number of requests at a time, changes and faults.                        *)
EXTENDS ConfigWatch, TLAPS

(* What the entry has been, and how many of its states there may be.        *)
HistoryTyped ==
    /\ entry \in Row \cup {NoEntry}
    /\ history \in Seq(Json \cup {NoEntry})
    /\ Now \in 1..(MaxChanges + 1)

(* A state that is told is one there has been.                              *)
Past(m)   == m.at \in 1..Now /\ m.json = history[m.at]
Shown(m)  == m.at \in 1..Now /\ m.json = Seen(history[m.at])

RequestsPast ==
    /\ request = [h \in Handler |-> request[h]]
    /\ \A h \in Handler :
          /\ request[h].step = "committed" => Past(request[h])
          /\ request[h].step = "read" /\ request[h].op = "put" => request[h].json \in Json

(* The first in the queue of a search stands for no update until a fetch    *)
(* has been started for it.                                                 *)
QueuePast ==
    /\ queue \in Seq(Told \cup {First})
    /\ queue # <<>> => kind = "search"
    /\ \A i \in DOMAIN queue : i > 1 \/ live \/ fetching # NoFetch => Past(queue[i])

FetchesPast ==
    /\ fetching \in [0..(MaxChanges + 1) -> Nat]
    /\ \A i \in State : fetching[i] > 0 => i <= Now

Unserving == link # "watching" => fetching = NoFetch /\ queue = <<>> /\ ~live

OutPast ==
    /\ out \in Seq(Told \cup {Error})
    /\ \A i \in DOMAIN out : out[i] = Error \/ Shown(out[i])

ViewPast == viewAt \in 0..Now

(* What a list is told and has yet to be told comes in the order of time.   *)
OneFetch ==
    \A i, j \in DOMAIN fetching :
        fetching[i] > 0 /\ fetching[j] > 0 => i = j /\ fetching[i] = 1

ListOrdered ==
    kind = "list" =>
        /\ OneFetch
        /\ \A i \in DOMAIN out : out[i] = Error \/ viewAt <= out[i].at
        /\ \A i, j \in DOMAIN out :
              i <= j => out[i] = Error \/ out[j] = Error \/ out[i].at <= out[j].at
        /\ \A n \in State : fetching[n] > 0 =>
              /\ viewAt <= n
              /\ \A i \in DOMAIN out : out[i] = Error \/ out[i].at <= n

Inv ==
    /\ HistoryTyped /\ RequestsPast /\ QueuePast /\ FetchesPast /\ Unserving
    /\ OutPast /\ ViewPast /\ ListOrdered
-----------------------------------------------------------------------------
(* At the start there is one state and nothing has been told.               *)
LEMMA InitInv == Init => Inv
  <1> SUFFICES ASSUME Init PROVE Inv
    OBVIOUS
  <1>1. HistoryTyped
    BY NoEntryAssumption, ChangesAssumption DEF Init, EntriesInit, HistoryTyped, Now
  <1>2. RequestsPast
    BY DEF Init, EntriesInit, RequestsPast, Idle
  <1>3. QueuePast /\ OutPast /\ ViewPast /\ Unserving
    BY ChangesAssumption DEF Init, EntriesInit, QueuePast, OutPast, ViewPast, Unserving, Now
  <1>4. FetchesPast /\ ListOrdered
    BY ChangesAssumption DEF Init, FetchesPast, ListOrdered, OneFetch, NoFetch, State
  <1> QED BY <1>1, <1>2, <1>3, <1>4 DEF Inv

(* What has been stays so when the entry changes.                           *)
LEMMA HistoryGrows ==
    ASSUME HistoryTyped, NEW row \in Row \cup {NoEntry}, Store(row)
    PROVE  /\ HistoryTyped' /\ Now' = Now + 1 /\ history'[Now + 1] = Content(row)
           /\ \A i \in 1..Now : history'[i] = history[i]
  <1>1. Content(row) \in Json \cup {NoEntry}
    BY DEF Content, Row
  <1> QED BY <1>1, ChangesAssumption DEF HistoryTyped, Store, Now

(* Whatever is told remains true while the entry changes.                   *)
LEMMA ToldKept ==
    ASSUME Inv, HistoryTyped', RequestsPast',
           Now' >= Now, \A i \in 1..Now : history'[i] = history[i],
           UNCHANGED <<kind, link, fetching, live, queue, out, view, viewAt>>
    PROVE  Inv'
  <1>1. Now \in Nat /\ Now' \in Nat
    BY ChangesAssumption DEF Inv, HistoryTyped
  <1>2. ASSUME NEW m, m.at \in 1..Now
        PROVE  m.at \in 1..Now' /\ history'[m.at] = history[m.at]
    BY <1>1, <1>2
  <1>3. QueuePast'
    <2>1. ASSUME NEW i \in DOMAIN queue', i > 1 \/ live' \/ fetching' # NoFetch
          PROVE  queue'[i].at \in 1..Now' /\ queue'[i].json = history'[queue'[i].at]
      BY <1>2, <2>1 DEF Inv, QueuePast, Past
    <2> QED BY <2>1 DEF Inv, QueuePast, Past, NoFetch
  <1>4. OutPast'
    <2> SUFFICES ASSUME NEW i \in DOMAIN out, out[i] # Error
                 PROVE  out[i].at \in 1..Now' /\ out[i].json = Seen(history[out[i].at])'
      BY DEF Inv, OutPast, Shown
    <2>1. out[i].at \in 1..Now /\ out[i].json = Seen(history[out[i].at])
      BY DEF Inv, OutPast, Shown
    <2> QED BY <1>2, <2>1 DEF Seen
  <1>5. FetchesPast' /\ ViewPast' /\ Unserving'
    BY <1>1 DEF Inv, FetchesPast, ViewPast, Unserving, State, NoFetch
  <1>6. ListOrdered'
    BY DEF Inv, ListOrdered, OneFetch
  <1> QED BY <1>3, <1>4, <1>5, <1>6 DEF Inv

(* Requests store, commit or are rolled back; only a commit adds a state.   *)
LEMMA RequestInv ==
    ASSUME Inv, Requests
    PROVE  Inv'
  <1>1. PICK h \in Handler : RequestStep(h)
    BY DEF Requests
  <1>2. UNCHANGED <<kind, link, fetching, live, queue, out, view, viewAt>>
    BY DEF Requests, watchvars, serving, client
  <1>3. CASE Put(h) \/ Delete(h) \/ Rollback(h)
    <2>1. UNCHANGED <<entry, history>>
      BY <1>3 DEF Put, Delete, Rollback, Read
    <2>2. HistoryTyped' /\ Now' = Now /\ Now \in Nat
      BY <2>1, ChangesAssumption DEF Inv, HistoryTyped, Now
    <2>3. RequestsPast'
      BY <1>3, <2>1 DEF Inv, RequestsPast, Put, Delete, Rollback, Read, Idle, Past, Now
    <2> QED BY <1>2, <2>1, <2>2, <2>3, ToldKept
  <1>4. CASE Write(h)
    <2> DEFINE r == request[h]
    <2>1. r.op = "put" => r.json \in Json
      BY <1>4 DEF Write, Inv, RequestsPast
    <2>2. CASE NoChange(h, r)
      <3>1. UNCHANGED <<entry, history>>
        BY <2>2 DEF NoChange
      <3>2. HistoryTyped' /\ Now' = Now /\ Now \in Nat
        BY <3>1, ChangesAssumption DEF Inv, HistoryTyped, Now
      <3>3. RequestsPast'
        BY <2>2, <3>1 DEF Inv, RequestsPast, NoChange, Idle, Past, Now
      <3> QED BY <1>2, <3>1, <3>2, <3>3, ToldKept
    <2>3. CASE RemoveGone(h, r)
      <3>1. UNCHANGED <<entry, history>>
        BY <2>3 DEF RemoveGone
      <3>2. HistoryTyped' /\ Now' = Now /\ Now \in Nat
        BY <3>1, ChangesAssumption DEF Inv, HistoryTyped, Now
      <3>3. RequestsPast'
        BY <2>3, <3>1 DEF Inv, RequestsPast, RemoveGone, Announce, Past, Now
      <3> QED BY <1>2, <3>1, <3>2, <3>3, ToldKept
    <2>4. CASE Create(h, r) \/ Replace(h, r) \/ Remove(h, r)
      <3>1. PICK row \in Row \cup {NoEntry} : Store(row) /\ Announce(h, Content(row), Now + 1)
        <4>1. CASE Create(h, r)
          <5>1. [id |-> Now, json |-> r.json] \in Row
            BY <2>1, <4>1, ChangesAssumption DEF Create, Store, Row, Inv, HistoryTyped
          <5> QED BY <4>1, <5>1, RowAssumption DEF Create, Content
        <4>2. CASE Replace(h, r)
          <5>1. entry \in Row /\ [entry EXCEPT !.json = r.json] \in Row
            BY <2>1, <4>2 DEF Replace, Found, Inv, HistoryTyped, Row
          <5>2. [entry EXCEPT !.json = r.json].json = r.json
            BY <5>1 DEF Row
          <5> QED BY <4>2, <5>1, <5>2, RowAssumption DEF Replace, Content
        <4>3. CASE Remove(h, r)
          BY <4>3 DEF Remove, Content
        <4> QED BY <2>4, <4>1, <4>2, <4>3
      <3>2. /\ HistoryTyped' /\ Now' = Now + 1 /\ history'[Now + 1] = Content(row)
            /\ \A i \in 1..Now : history'[i] = history[i]
        BY <3>1, HistoryGrows DEF Inv
      <3>3. Now \in Nat
        BY ChangesAssumption DEF Inv, HistoryTyped
      <3>4. RequestsPast'
        <4> SUFFICES ASSUME NEW k \in Handler
                     PROVE  /\ request'[k].step = "committed" => Past(request[k])'
                            /\ request'[k].step = "read" /\ request'[k].op = "put"
                                  => request'[k].json \in Json
          BY <3>1 DEF Inv, RequestsPast, Announce
        <4>1. CASE k = h
          BY <3>1, <3>2, <3>3, <4>1 DEF Inv, RequestsPast, Announce, Past
        <4>2. CASE k # h
          BY <3>1, <3>2, <3>3, <4>2 DEF Inv, RequestsPast, Announce, Past
        <4> QED BY <4>1, <4>2
      <3> QED BY <1>2, <3>2, <3>3, <3>4, ToldKept
    <2> QED BY <1>4, <2>2, <2>3, <2>4 DEF Write
  <1> QED BY <1>1, <1>3, <1>4 DEF RequestStep

-----------------------------------------------------------------------------
(* A state that there has been is told, and is the latest that was.         *)
LEMMA SendKept ==
    ASSUME Inv, NEW n \in 1..Now, NEW json, json = history[n], Send(json, n),
           UNCHANGED <<kind, view, viewAt, entry, history>>,
           kind = "list" => /\ viewAt <= n
                            /\ \A i \in DOMAIN out : out[i] = Error \/ out[i].at <= n
    PROVE  /\ OutPast'
           /\ kind = "list" =>
                /\ \A i \in DOMAIN out' : out'[i] = Error \/ viewAt <= out'[i].at
                /\ \A i, j \in DOMAIN out' :
                      i <= j => out'[i] = Error \/ out'[j] = Error \/ out'[i].at <= out'[j].at
  <1> DEFINE m == [json |-> Seen(json), at |-> n]
  <1>1. out' = Append(out, m) /\ out \in Seq(Told \cup {Error})
    BY DEF Send, Inv, OutPast
  <1>2. Now' = Now /\ Now \in Nat /\ n \in State
    BY ChangesAssumption DEF Now, Inv, HistoryTyped, State
  <1>3. m \in Told
    BY <1>2 DEF Inv, HistoryTyped, Told, Seen, Now
  <1>4. Shown(m)
    BY DEF Shown
  <1>5. m.at = n
    OBVIOUS
  <1> HIDE DEF m
  <1>6. \A i \in DOMAIN out' : \/ i \in DOMAIN out /\ out'[i] = out[i]
                               \/ i = Len(out) + 1 /\ out'[i] = m
    BY <1>1, <1>3
  <1>7. OutPast'
    <2>1. out' \in Seq(Told \cup {Error})
      BY <1>1, <1>3
    <2>2. ASSUME NEW i \in DOMAIN out', out'[i] # Error
          PROVE  out'[i].at \in 1..Now /\ out'[i].json = Seen(history[out'[i].at])
      <3>1. CASE i \in DOMAIN out /\ out'[i] = out[i]
        BY <2>2, <3>1 DEF Inv, OutPast, Shown
      <3>2. CASE out'[i] = m
        BY <1>4, <3>2 DEF Shown
      <3> QED BY <1>6, <3>1, <3>2
    <2>3. \A i \in DOMAIN out' :
              out'[i] = Error \/ (out'[i].at \in 1..Now' /\ out'[i].json = Seen(history[out[i].at])')
      BY <1>2, <2>2 DEF Seen
    <2> QED BY <2>1, <2>3 DEF OutPast, Shown
  <1>8. ASSUME kind = "list", NEW i \in DOMAIN out'
        PROVE  out'[i] = Error \/ viewAt <= out'[i].at
    BY <1>5, <1>6, <1>8 DEF Inv, ListOrdered
  <1>9. ASSUME kind = "list", NEW i \in DOMAIN out', NEW j \in DOMAIN out', i <= j
        PROVE  out'[i] = Error \/ out'[j] = Error \/ out'[i].at <= out'[j].at
    <2>1. CASE j \in DOMAIN out /\ out'[j] = out[j]
      <3>1. i \in DOMAIN out /\ out'[i] = out[i]
        BY <1>1, <1>6, <1>9, <2>1
      <3> QED BY <1>9, <2>1, <3>1 DEF Inv, ListOrdered
    <2>2. CASE j = Len(out) + 1 /\ out'[j] = m
      BY <1>2, <1>5, <1>6, <1>9, <2>2
    <2> QED BY <1>6, <2>1, <2>2
  <1> QED BY <1>7, <1>8, <1>9

(* Steps that leave the entry and the requests alone.                       *)
LEMMA EntryKept ==
    ASSUME Inv, UNCHANGED entryvars
    PROVE  HistoryTyped' /\ RequestsPast' /\ Now' = Now
  BY DEF Inv, entryvars, HistoryTyped, RequestsPast, Past, Now

(* The client connects.                                                     *)
LEMMA ConnectInv == ASSUME Inv, Connect PROVE Inv'
  <1>1. HistoryTyped' /\ RequestsPast' /\ Now' = Now /\ history' = history
    BY EntryKept DEF Connect, entryvars
  <1>2. UNCHANGED <<kind, fetching, live, queue, out, view, viewAt>>
    BY DEF Connect, serving, client
  <1>3. QueuePast'
    BY <1>1, <1>2 DEF Inv, QueuePast, Past, NoFetch
  <1>4. FetchesPast' /\ Unserving' /\ ViewPast'
    BY <1>1, <1>2 DEF Inv, FetchesPast, Unserving, ViewPast, NoFetch, Connect
  <1>5. OutPast'
    BY <1>1, <1>2 DEF Inv, OutPast, Shown, Seen
  <1>6. ListOrdered'
    BY <1>2 DEF Inv, ListOrdered, OneFetch
  <1> QED BY <1>1, <1>3, <1>4, <1>5, <1>6 DEF Inv

(* The first fetch of a list, or of an entry, is its only one so far.       *)
LEMMA SubscribeInv == ASSUME Inv, Subscribe PROVE Inv'
  <1>1. HistoryTyped' /\ RequestsPast' /\ Now' = Now /\ history' = history
    BY EntryKept DEF Subscribe, entryvars
  <1>2. /\ UNCHANGED <<kind, live, out, view, viewAt>> /\ link' = "watching"
        /\ fetching = NoFetch /\ queue = <<>> /\ ~live /\ out = <<>>
    BY DEF Subscribe, client, Inv, Unserving
  <1>3. \/ kind = "search" /\ queue' = <<First>> /\ fetching' = NoFetch
        \/ queue' = <<>> /\ fetching' = StartFetch(NoFetch)
    BY <1>2 DEF Subscribe
  <1>4. QueuePast'
    <2>1. CASE kind = "search" /\ queue' = <<First>> /\ fetching' = NoFetch
      <3>1. /\ queue' \in Seq(Told \cup {First})
            /\ \A i \in DOMAIN queue' : i = 1
        BY <2>1
      <3>2. ~live' /\ fetching' = NoFetch' /\ kind' = "search"
        BY <1>2, <2>1 DEF NoFetch
      <3> QED BY <3>1, <3>2 DEF QueuePast
    <2>2. CASE queue' = <<>>
      BY <2>2 DEF QueuePast
    <2> QED BY <1>3, <2>1, <2>2
  <1>5. FetchesPast' /\ OneFetch'
    BY <1>1, <1>3, ChangesAssumption DEF FetchesPast, OneFetch, NoFetch, StartFetch, State
  <1>6. OutPast' /\ ViewPast' /\ Unserving'
    BY <1>1, <1>2 DEF Inv, OutPast, ViewPast, Unserving
  <1>7. \A n \in State : fetching'[n] = 0
    BY <1>3, ChangesAssumption DEF NoFetch, StartFetch, State
  <1>8. ListOrdered'
    BY <1>2, <1>5, <1>7 DEF ListOrdered
  <1> QED BY <1>1, <1>4, <1>5, <1>6, <1>8 DEF Inv

(* What is delivered was first in the queue, so no later message is older.  *)
LEMMA DeliverInv == ASSUME Inv, Deliver PROVE Inv'
  <1>1. HistoryTyped' /\ RequestsPast' /\ Now' = Now /\ history' = history
    BY EntryKept DEF Deliver, entryvars
  <1>2. /\ UNCHANGED <<kind, link, fetching, live, queue>>
        /\ out # <<>> /\ out' = Tail(out) /\ out \in Seq(Told \cup {Error})
    BY DEF Deliver, Inv, OutPast
  <1>3. /\ \A i \in DOMAIN out' : i \in Nat /\ i + 1 \in DOMAIN out /\ out'[i] = out[i + 1]
        /\ 1 \in DOMAIN out /\ Head(out) = out[1]
        /\ out' \in Seq(Told \cup {Error})
    BY <1>2
  <1>4. QueuePast' /\ FetchesPast' /\ Unserving'
    BY <1>1, <1>2 DEF Inv, QueuePast, FetchesPast, Unserving, Past, NoFetch
  <1>5. OutPast'
    <2>1. ASSUME NEW i \in DOMAIN out', out'[i] # Error
          PROVE  out'[i].at \in 1..Now /\ out'[i].json = Seen(history[out'[i].at])
      BY <1>3, <2>1 DEF Inv, OutPast, Shown
    <2>2. \A i \in DOMAIN out' :
              out'[i] = Error \/ (out'[i].at \in 1..Now' /\ out'[i].json = Seen(history[out[i].at])')
      BY <1>1, <1>2, <2>1 DEF Seen
    <2> QED BY <1>3, <2>2 DEF OutPast, Shown
  <1>6. viewAt' = viewAt \/ (out[1] # Error /\ viewAt' = out[1].at)
    BY <1>3 DEF Deliver
  <1>7. ViewPast'
    BY <1>1, <1>3, <1>6, ChangesAssumption DEF Inv, ViewPast, OutPast, Shown, HistoryTyped
  <1>8. ListOrdered'
    <2> SUFFICES ASSUME kind = "list"
                 PROVE  /\ \A i \in DOMAIN out' : out'[i] = Error \/ viewAt' <= out'[i].at
                        /\ \A n \in State : fetching[n] > 0 => viewAt' <= n
      BY <1>2, <1>3 DEF Inv, ListOrdered, OneFetch
    <2>1. ASSUME NEW i \in DOMAIN out' PROVE out'[i] = Error \/ viewAt' <= out'[i].at
      <3>1. i + 1 \in DOMAIN out /\ out'[i] = out[i + 1] /\ 1 <= i + 1
        BY <1>3, <2>1
      <3>2. out[i + 1] = Error \/ viewAt <= out[i + 1].at
        BY <3>1 DEF Inv, ListOrdered
      <3>3. out[1] = Error \/ out[i + 1] = Error \/ out[1].at <= out[i + 1].at
        BY <1>3, <3>1 DEF Inv, ListOrdered
      <3> QED BY <1>6, <3>1, <3>2, <3>3
    <2>2. ASSUME NEW n \in State, fetching[n] > 0 PROVE viewAt' <= n
      BY <1>3, <1>6, <2>2 DEF Inv, ListOrdered
    <2> QED BY <2>1, <2>2
  <1> QED BY <1>1, <1>4, <1>5, <1>7, <1>8 DEF Inv

(* A fetch reads the present state, which is no older than any that has     *)
(* been sent.                                                               *)
LEMMA FetchReadInv == ASSUME Inv, FetchRead PROVE Inv'
  <1>1. HistoryTyped' /\ RequestsPast' /\ Now' = Now /\ history' = history
    BY EntryKept DEF FetchRead, entryvars
  <1>2. UNCHANGED <<kind, link, live, queue, out, view, viewAt>>
    BY DEF FetchRead, client
  <1>3. /\ fetching \in [0..(MaxChanges + 1) -> Nat] /\ fetching[0] > 0
        /\ fetching' = [fetching EXCEPT ![0] = @ - 1, ![Now] = @ + 1]
        /\ Now \in 1..(MaxChanges + 1) /\ Now \in Nat
    BY ChangesAssumption DEF FetchRead, Inv, FetchesPast, HistoryTyped
  <1>4. FetchesPast'
    BY <1>1, <1>3, ChangesAssumption DEF Inv, FetchesPast, State
  <1>5. fetching # NoFetch /\ link = "watching"
    <2>1. fetching # NoFetch
      BY <1>3, ChangesAssumption DEF NoFetch
    <2> QED BY <2>1 DEF Inv, Unserving
  <1>6. QueuePast' /\ Unserving' /\ ViewPast'
    BY <1>1, <1>2, <1>5 DEF Inv, QueuePast, Unserving, ViewPast, Past
  <1>7. OutPast'
    BY <1>1, <1>2 DEF Inv, OutPast, Shown, Seen
  <1>8. ListOrdered'
    <2> SUFFICES ASSUME kind = "list" PROVE ListOrdered'
      BY <1>2 DEF ListOrdered
    <2>1. OneFetch /\ fetching[0] = 1 /\ \A n \in State : fetching[n] = 0
      BY <1>3, ChangesAssumption DEF Inv, ListOrdered, OneFetch, State
    <2>2. /\ fetching'[0] = 0 /\ fetching'[Now] = 1
          /\ \A n \in State : n # Now => fetching'[n] = 0
      BY <1>3, <2>1, ChangesAssumption DEF State
    <2>3. OneFetch'
      <3>1. \A k \in 0..(MaxChanges + 1) : fetching'[k] = IF k = Now THEN 1 ELSE 0
        <4> SUFFICES ASSUME NEW k \in 0..(MaxChanges + 1)
                     PROVE  fetching'[k] = IF k = Now THEN 1 ELSE 0
          OBVIOUS
        <4>1. k = 0 \/ k \in State
          BY ChangesAssumption DEF State
        <4>2. Now # 0
          BY <1>3, ChangesAssumption
        <4> QED BY <2>2, <4>1, <4>2
      <3> QED BY <1>3, <3>1 DEF OneFetch
    <2>4. /\ viewAt <= Now
          /\ \A i \in DOMAIN out : out[i] = Error \/ out[i].at <= Now
      BY <1>3 DEF Inv, ViewPast, OutPast, Shown
    <2> QED BY <1>2, <2>2, <2>3, <2>4 DEF Inv, ListOrdered
  <1> QED BY <1>1, <1>4, <1>6, <1>7, <1>8 DEF Inv

(* The answer is of the state read, which of a list is the newest told.     *)
LEMMA FetchAnswerInv == ASSUME Inv, NEW n \in State, FetchAnswer(n) PROVE Inv'
  <1>1. HistoryTyped' /\ RequestsPast' /\ Now' = Now /\ history' = history
    BY EntryKept DEF FetchAnswer, entryvars
  <1>2. /\ UNCHANGED <<kind, link, queue, view, viewAt, entry, history>> /\ live'
        /\ Send(history[n], n)
    BY DEF FetchAnswer, client, entryvars
  <1>3. /\ fetching \in [0..(MaxChanges + 1) -> Nat] /\ fetching[n] > 0
        /\ fetching' = [fetching EXCEPT ![n] = @ - 1]
        /\ n \in 0..(MaxChanges + 1) /\ n \in 1..Now
    BY ChangesAssumption DEF FetchAnswer, Inv, FetchesPast, HistoryTyped, State
  <1>4. FetchesPast'
    BY <1>1, <1>3, ChangesAssumption DEF Inv, FetchesPast, State
  <1>5. fetching # NoFetch /\ link = "watching"
    BY <1>3 DEF NoFetch, Inv, Unserving
  <1>6. QueuePast' /\ Unserving' /\ ViewPast'
    BY <1>1, <1>2, <1>5 DEF Inv, QueuePast, Unserving, ViewPast, Past
  <1>7. kind = "list" => viewAt <= n /\ \A i \in DOMAIN out : out[i] = Error \/ out[i].at <= n
    BY <1>3 DEF Inv, ListOrdered
  <1>8. /\ OutPast'
        /\ kind = "list" =>
             /\ \A i \in DOMAIN out' : out'[i] = Error \/ viewAt <= out'[i].at
             /\ \A i, j \in DOMAIN out' :
                   i <= j => out'[i] = Error \/ out'[j] = Error \/ out'[i].at <= out'[j].at
    BY <1>2, <1>3, <1>7, SendKept
  <1>9. ListOrdered'
    <2> SUFFICES ASSUME kind = "list" PROVE ListOrdered'
      BY <1>2 DEF ListOrdered
    <2>1. \A k \in 0..(MaxChanges + 1) : fetching'[k] = 0
      BY <1>3 DEF Inv, ListOrdered, OneFetch
    <2>2. OneFetch' /\ \A k \in State : fetching'[k] = 0
      BY <1>3, <2>1, ChangesAssumption DEF OneFetch, State
    <2> QED BY <1>2, <1>8, <2>2 DEF ListOrdered
  <1> QED BY <1>1, <1>4, <1>6, <1>8, <1>9 DEF Inv

(* An update is of a state that there has been.                             *)
LEMMA UpdateTold ==
    ASSUME Inv, NEW m, Past(m)
    PROVE  [json |-> m.json, at |-> m.at] \in Told
  BY ChangesAssumption DEF Inv, HistoryTyped, Past, Told, State, Now

(* An update is told, waits for its check, or has a list fetched again,     *)
(* instead of the fetch that was under way.                                 *)
LEMMA EmitInv == ASSUME Inv, NEW h \in Handler, Emit(h) PROVE Inv'
  <1> DEFINE u == [json |-> request[h].json, at |-> request[h].at]
  <1>1. /\ UNCHANGED <<entry, history, kind, link, view, viewAt>>
        /\ request[h].step = "committed" /\ request' = [request EXCEPT ![h] = Idle]
    BY DEF Emit, client
  <1>2. HistoryTyped' /\ Now' = Now /\ Now \in Nat
    BY <1>1, ChangesAssumption DEF Inv, HistoryTyped, Now
  <1>3. RequestsPast'
    BY <1>1, <1>2 DEF Inv, RequestsPast, Idle, Past
  <1>4. /\ u \in Told /\ u.at \in 1..Now /\ u.json = history[u.at]
    BY <1>1, UpdateTold DEF Inv, RequestsPast, Past
  <1>5. ViewPast'
    BY <1>1, <1>2 DEF Inv, ViewPast
  <1>6. CASE UNCHANGED serving
    <2>1. UNCHANGED <<fetching, live, queue, out>>
      BY <1>6 DEF serving
    <2>2. QueuePast' /\ FetchesPast' /\ Unserving'
      BY <1>1, <1>2, <2>1 DEF Inv, QueuePast, FetchesPast, Unserving, Past, NoFetch
    <2>3. OutPast'
      BY <1>1, <1>2, <2>1 DEF Inv, OutPast, Shown, Seen
    <2>4. ListOrdered'
      BY <1>1, <2>1 DEF Inv, ListOrdered, OneFetch
    <2> QED BY <1>2, <1>3, <1>5, <2>2, <2>3, <2>4 DEF Inv
  <1>7. CASE link = "watching" /\ Update(u)
    <2>1. live' = live /\ Unserving'
      BY <1>1, <1>7 DEF Update, Unserving
    <2>2. CASE kind = "list" /\ fetching' = Refetch /\ UNCHANGED <<queue, out>>
      <3>1. FetchesPast' /\ OneFetch' /\ \A n \in State : fetching'[n] = 0
        BY <2>2, ChangesAssumption DEF FetchesPast, OneFetch, Refetch, StartFetch, NoFetch, State
      <3>2. QueuePast'
        BY <1>1, <2>2 DEF Inv, QueuePast
      <3>3. OutPast'
        BY <1>1, <1>2, <2>2 DEF Inv, OutPast, Shown, Seen
      <3>4. ListOrdered'
        BY <1>1, <2>2, <3>1 DEF Inv, ListOrdered
      <3> QED BY <1>2, <1>3, <1>5, <2>1, <3>1, <3>2, <3>3, <3>4 DEF Inv
    <2>3. CASE kind = "entry" /\ Send(u.json, u.at) /\ UNCHANGED <<fetching, queue>>
      <3>1. QueuePast' /\ FetchesPast'
        BY <1>1, <1>2, <2>1, <2>3 DEF Inv, QueuePast, FetchesPast, Past, NoFetch
      <3>2. OutPast'
        <4> HIDE DEF u
        <4> QED BY <1>1, <1>4, <2>3, SendKept
      <3>3. ListOrdered'
        BY <1>1, <2>3 DEF ListOrdered
      <3> QED BY <1>2, <1>3, <1>5, <2>1, <3>1, <3>2, <3>3 DEF Inv
    <2>4. CASE kind = "entry" /\ UNCHANGED <<fetching, queue, out>>
      <3>1. QueuePast' /\ FetchesPast'
        BY <1>1, <1>2, <2>1, <2>4 DEF Inv, QueuePast, FetchesPast, Past, NoFetch
      <3>2. OutPast' /\ ListOrdered'
        BY <1>1, <1>2, <2>4 DEF Inv, OutPast, Shown, Seen, ListOrdered
      <3> QED BY <1>2, <1>3, <1>5, <2>1, <3>1, <3>2 DEF Inv
    <2>5. CASE kind = "search" /\ queue' = Append(queue, u) /\ UNCHANGED <<fetching, out>>
      <3> HIDE DEF u
      <3>1. /\ queue \in Seq(Told \cup {First}) /\ queue' \in Seq(Told \cup {First})
            /\ \A i \in DOMAIN queue' : \/ i \in DOMAIN queue /\ queue'[i] = queue[i]
                                        \/ queue'[i] = u
        BY <1>4, <2>5 DEF Inv, QueuePast
      <3>2. ASSUME NEW i \in DOMAIN queue', i > 1 \/ live' \/ fetching' # NoFetch'
            PROVE  queue'[i].at \in 1..Now' /\ queue'[i].json = history'[queue'[i].at]
        BY <1>1, <1>2, <1>4, <2>1, <2>5, <3>1, <3>2 DEF Inv, QueuePast, Past, NoFetch
      <3>3. QueuePast'
        BY <1>1, <2>5, <3>1, <3>2 DEF QueuePast, Past
      <3>4. FetchesPast' /\ OutPast' /\ ListOrdered'
        BY <1>1, <1>2, <2>5 DEF Inv, FetchesPast, OutPast, Shown, Seen, ListOrdered
      <3> QED BY <1>2, <1>3, <1>5, <2>1, <3>3, <3>4 DEF Inv
    <2> QED BY <1>7, <2>2, <2>3, <2>4, <2>5 DEF Update
  <1> QED BY <1>6, <1>7 DEF Emit

(* An update that has been checked is told, or another fetch is started.    *)
LEMMA CheckedInv == ASSUME Inv, Checked PROVE Inv'
  <1>1. HistoryTyped' /\ RequestsPast' /\ Now' = Now /\ history' = history
    BY EntryKept DEF Checked, entryvars
  <1>2. /\ UNCHANGED <<kind, link, live, view, viewAt, entry, history>>
        /\ queue # <<>> /\ queue' = Tail(queue) /\ kind = "search"
        /\ queue \in Seq(Told \cup {First}) /\ link = "watching"
    BY DEF Checked, client, entryvars, Inv, QueuePast, Unserving
  <1>3. /\ \A i \in DOMAIN queue' : i \in Nat /\ i + 1 > 1 /\ i + 1 \in DOMAIN queue
                                    /\ queue'[i] = queue[i + 1]
        /\ 1 \in DOMAIN queue /\ Head(queue) = queue[1]
        /\ queue' \in Seq(Told \cup {First})
    BY <1>2
  <1>4. QueuePast'
    <2>1. \A i \in DOMAIN queue' : queue'[i].at \in 1..Now /\ queue'[i].json = history[queue'[i].at]
      BY <1>3 DEF Inv, QueuePast, Past
    <2> QED BY <1>1, <1>2, <1>3, <2>1 DEF QueuePast, Past
  <1>5. Unserving' /\ ViewPast' /\ ListOrdered'
    BY <1>1, <1>2 DEF Inv, Unserving, ViewPast, ListOrdered
  <1>6. CASE live
    <2>1. Send(Head(queue).json, Head(queue).at) /\ fetching' = fetching
      BY <1>6 DEF Checked
    <2>2. Head(queue).at \in 1..Now /\ Head(queue).json = history[Head(queue).at]
      BY <1>3, <1>6 DEF Inv, QueuePast, Past
    <2>3. PICK n \in 1..Now : n = Head(queue).at
      BY <2>2
    <2>4. OutPast'
      BY <1>2, <2>1, <2>2, <2>3, SendKept
    <2>5. FetchesPast'
      BY <1>1, <2>1 DEF Inv, FetchesPast
    <2> QED BY <1>1, <1>4, <1>5, <2>4, <2>5 DEF Inv
  <1>7. CASE ~live
    <2>1. out' = out /\ fetching' = StartFetch(fetching)
      BY <1>7 DEF Checked
    <2>2. FetchesPast'
      BY <1>1, <2>1, ChangesAssumption DEF Inv, FetchesPast, StartFetch, State
    <2>3. OutPast'
      BY <1>1, <1>2, <2>1 DEF Inv, OutPast, Shown, Seen
    <2> QED BY <1>1, <1>4, <1>5, <2>2, <2>3 DEF Inv
  <1> QED BY <1>6, <1>7

(* A subscription that ends leaves nothing behind but what is on its way,   *)
(* and an error.                                                            *)
LEMMA UnservedInv ==
    ASSUME Inv, FetchFails \/ Drop \/ Crash
    PROVE  Inv'
  <1>1. /\ UNCHANGED <<entry, history, kind, view, viewAt>> /\ Unserved
        /\ out' = <<>> \/ out' = Append(out, Error)
        /\ request' = request \/ request' = [h \in Handler |-> Idle]
    BY DEF FetchFails, Drop, Crash, client, entryvars
  <1>2. HistoryTyped' /\ Now' = Now
    BY <1>1 DEF Inv, HistoryTyped, Now
  <1>3. RequestsPast'
    BY <1>1, <1>2 DEF Inv, RequestsPast, Past, Idle
  <1>4. QueuePast' /\ Unserving' /\ ViewPast' /\ FetchesPast'
    BY <1>1, <1>2, ChangesAssumption DEF Inv, QueuePast, Unserving, ViewPast, FetchesPast,
       Unserved, NoFetch, State
  <1>5. /\ out' \in Seq(Told \cup {Error})
        /\ \A i \in DOMAIN out' : out'[i] = Error \/ (i \in DOMAIN out /\ out'[i] = out[i])
    <2>1. out \in Seq(Told \cup {Error}) /\ Error \in Told \cup {Error}
      BY DEF Inv, OutPast
    <2>2. CASE out' = <<>>
      BY <2>2
    <2>3. CASE out' = Append(out, Error)
      BY <2>1, <2>3
    <2> QED BY <1>1, <2>2, <2>3
  <1>6. OutPast'
    <2>1. \A i \in DOMAIN out' : out'[i] = Error
              \/ (out'[i].at \in 1..Now /\ out'[i].json = Seen(history[out'[i].at]))
      BY <1>5 DEF Inv, OutPast, Shown
    <2>2. \A i \in DOMAIN out' : out'[i] = Error
              \/ (out'[i].at \in 1..Now' /\ out'[i].json = Seen(history[out[i].at])')
      BY <1>1, <1>2, <2>1 DEF Seen
    <2> QED BY <1>5, <2>2 DEF OutPast, Shown
  <1>7. ListOrdered'
    <2>1. \A n \in 0..(MaxChanges + 1) : fetching'[n] = 0
      BY <1>1 DEF Unserved, NoFetch
    <2>2. OneFetch' /\ \A n \in State : fetching'[n] = 0
      BY <1>1, <2>1, ChangesAssumption DEF Unserved, OneFetch, NoFetch, State
    <2> QED BY <1>1, <1>5, <2>2 DEF Inv, ListOrdered
  <1> QED BY <1>2, <1>3, <1>4, <1>6, <1>7 DEF Inv

(* Every step preserves Inv.                                                *)
LEMMA NextInv == ASSUME Inv, [Next]_vars PROVE Inv'
  <1>1. CASE Step
    BY <1>1, ConnectInv, DeliverInv, SubscribeInv, FetchReadInv, CheckedInv, FetchAnswerInv,
       EmitInv DEF Step
  <1>2. CASE Requests
    BY <1>2, RequestInv
  <1>3. CASE FetchFails \/ Drop \/ Crash
    BY <1>3, UnservedInv
  <1>4. CASE UNCHANGED vars
    <2>1. UNCHANGED <<entryvars, kind, link, fetching, live, queue, out, view, viewAt>>
      BY <1>4 DEF vars, watchvars, serving, client
    <2>2. HistoryTyped' /\ RequestsPast' /\ Now' = Now /\ history' = history
      BY <2>1, EntryKept DEF entryvars
    <2>3. Now \in Nat
      BY ChangesAssumption DEF Inv, HistoryTyped
    <2> QED BY <2>1, <2>2, <2>3, ToldKept
  <1> QED BY <1>1, <1>2, <1>3, <1>4 DEF Next

(* Inv holds in every state of every behaviour.                             *)
THEOREM InvCorrect == Spec => []Inv
  <1>1. Inv /\ [Next]_vars => Inv'
    BY NextInv
  <1> QED BY <1>1, InitInv, PTL DEF Spec

-----------------------------------------------------------------------------
(* The states of the resource, as the watcher sees them.                    *)
States == [i \in 1..Now |-> Seen(history[i])]

(* They are as many as the contents that the entry has had.                 *)
LEMMA StatesAre ==
    ASSUME HistoryTyped
    PROVE  /\ Len(States) = Now
           /\ \A i \in 1..Now : States[i] = Seen(history[i])
  <1>1. Now \in Nat
    BY ChangesAssumption DEF HistoryTyped
  <1> QED BY <1>1 DEF States

(* A change of the entry adds a state and shows none.                       *)
LEMMA RequestWatched == ASSUME Inv, Requests PROVE [Watched!Next]_(Watched!vars)
  <1>1. PICK h \in Handler : RequestStep(h)
    BY DEF Requests
  <1>2. UNCHANGED <<kind, view, viewAt>>
    BY DEF Requests, watchvars, client
  <1>3. UNCHANGED history \/ \E e : history' = Append(history, e)
    BY <1>1 DEF RequestStep, Put, Delete, Read, Write, Create, Replace, NoChange, Remove,
       RemoveGone, Rollback, Store
  <1>4. CASE UNCHANGED history
    <2>1. Now' = Now
      BY <1>4 DEF Now
    <2> QED BY <1>2, <1>4, <2>1 DEF Watched!vars, Seen
  <1>5. ASSUME NEW e, history' = Append(history, e)
        PROVE  Watched!Next
    <2>1. HistoryTyped /\ HistoryTyped'
      BY RequestInv DEF Inv
    <2>2. /\ Now \in Nat /\ Now' = Now + 1
          /\ \A i \in 1..Now : history'[i] = history[i]
      BY <1>5, <2>1, ChangesAssumption DEF HistoryTyped, Now
    <2>3. /\ Len(States) = Now /\ Len(States)' = Now + 1
          /\ \A i \in 1..Now : States'[i] = States[i]
      BY <1>2, <2>1, <2>2 DEF States, Seen
    <2>4. SubSeq(States', 1, Now) = States
      BY <2>2, <2>3 DEF States
    <2>5. Watched!Change
      BY <1>2, <2>3, <2>4 DEF Watched!Change, States
    <2> QED BY <2>5 DEF Watched!Next
  <1> QED BY <1>3, <1>4, <1>5

(* Of what is delivered to the client, all but an error is shown.           *)
LEMMA DeliverWatched == ASSUME Inv, Deliver PROVE [Watched!Next]_(Watched!vars)
  <1>1. /\ UNCHANGED <<kind, history>> /\ Now' = Now
        /\ out # <<>> /\ out \in Seq(Told \cup {Error}) /\ out[1] = Head(out)
        /\ 1 \in DOMAIN out
    BY DEF Deliver, entryvars, Now, Inv, OutPast
  <1>2. States' = States
    BY <1>1 DEF States, Seen
  <1>3. CASE Head(out) = Error
    BY <1>1, <1>2, <1>3 DEF Deliver, Watched!vars, States
  <1>4. CASE Head(out) # Error
    <2>1. Shown(out[1]) /\ (kind = "list" => viewAt <= out[1].at)
      BY <1>1, <1>4 DEF Inv, OutPast, ListOrdered
    <2>2. view' = out[1].json /\ viewAt' = out[1].at
      BY <1>1, <1>4 DEF Deliver
    <2>3. Len(States) = Now /\ view' = States[viewAt'] /\ viewAt' \in 1..Now
      BY <2>1, <2>2, StatesAre DEF Inv, Shown
    <2>4. (kind = "list") = (kind = "list")'
      BY <1>1
    <2>5. kind = "list" => viewAt' >= viewAt
      BY <2>1, <2>2, <2>3, ChangesAssumption DEF Inv, ViewPast, HistoryTyped
    <2>6. Watched!Show
      BY <1>2, <2>3, <2>4, <2>5 DEF Watched!Show, States
    <2> QED BY <2>6 DEF Watched!Next
  <1> QED BY <1>3, <1>4

(* Every step changes the states, shows one, or does neither.               *)
LEMMA NextWatched == ASSUME Inv, [Next]_vars PROVE [Watched!Next]_(Watched!vars)
  <1>1. CASE UNCHANGED <<kind, history, view, viewAt>>
    BY <1>1 DEF Watched!vars, Now, Seen
  <1>2. Deliver \/ Requests \/ UNCHANGED <<kind, history, view, viewAt>>
    <2>1. CASE Connect \/ Subscribe \/ FetchRead \/ Checked
      BY <2>1 DEF Connect, Subscribe, FetchRead, Checked, client, entryvars
    <2>2. CASE (\E i \in State : FetchAnswer(i)) \/ (\E h \in Handler : Emit(h))
      BY <2>2 DEF FetchAnswer, Emit, client, entryvars
    <2>3. CASE FetchFails \/ Drop \/ Crash
      BY <2>3 DEF FetchFails, Drop, Crash, client, entryvars
    <2>4. CASE UNCHANGED vars
      BY <2>4 DEF vars, watchvars, client, entryvars
    <2> QED BY <2>1, <2>2, <2>3, <2>4 DEF Next, Step
  <1> QED BY <1>1, <1>2, DeliverWatched, RequestWatched

(* The client of the notify interface is only ever shown states that the    *)
(* entry has had, and a list is never taken back in time, whatever the      *)
(* requests, their interleaving and the faults.                             *)
THEOREM ImplementsWatchCorrect == Spec => ImplementsWatch
  <1>1. Init => Watched!Init
    <2> SUFFICES ASSUME Init PROVE Watched!Init
      OBVIOUS
    <2>1. HistoryTyped /\ Now = 1 /\ viewAt = 0
      BY InitInv DEF Init, EntriesInit, Inv, Now
    <2> QED BY <2>1, StatesAre DEF Watched!Init, States
  <1>2. Inv /\ [Next]_vars => [Watched!Next]_(Watched!vars)
    BY NextWatched
  <1> QED BY <1>1, <1>2, InvCorrect, PTL DEF Spec, ImplementsWatch

-----------------------------------------------------------------------------
(* What a client knows when nothing is under way.                           *)

(* The content of the entry is the last state of the history, and the       *)
(* client has the state that it was told last.                              *)
HistoryEnds == history[Now] = Content(entry)

ViewShown == viewAt = 0 \/ view = Seen(history[viewAt])

(* An error ends the subscription, so a subscription has had none.          *)
NoErrors == link = "watching" => ~ended /\ \A i \in DOMAIN out : out[i] # Error

(* What was sent last on a subscription is the last that is told on it.     *)
LastSent ==
    /\ sentAt \in 0..Now /\ (link # "watching" => sentAt = 0)
    /\ link = "watching" /\ sentAt # 0 =>
          IF out = <<>> THEN viewAt = sentAt ELSE out[Len(out)].at = sentAt

ListInOrder == kind = "list" => ~disordered /\ ~missed

(* The updates of an entry are left out only while its fetch is under way.  *)
EntryFetched == link = "watching" /\ kind = "entry" /\ ~live => fetching # NoFetch

(* The client will be told of state m, or of a later one: an update of it   *)
(* has still to be emitted, or is in the queue of a search; or a fetch      *)
(* answers with that state, or has still to read the present one; or the    *)
(* first of the queue of a search has still to start a fetch.               *)
Coming(m) ==
    \/ \E h \in Handler : request[h].step = "committed" /\ request[h].at = m
    \/ \E i \in DOMAIN queue : queue[i].at = m
    \/ fetching[0] > 0
    \/ \E n \in State : m <= n /\ fetching[n] > 0
    \/ queue # <<>> /\ ~live /\ fetching = NoFetch

NoneForgotten ==
    link = "watching" /\ ~disordered /\ ~missed =>
        \A m \in 1..Now : sentAt < m => Coming(m)

TellInv ==
    /\ HistoryEnds /\ ViewShown /\ NoErrors /\ LastSent
    /\ ListInOrder /\ EntryFetched /\ NoneForgotten

(* At the start nothing has been sent.                                      *)
LEMMA TellInit == Init => TellInv
  <1> SUFFICES ASSUME Init PROVE TellInv
    OBVIOUS
  <1>1. Now = 1 /\ history[Now] = Content(entry)
    BY DEF Init, EntriesInit, Now, Content
  <1> QED BY <1>1 DEF Init, TellInv, HistoryEnds, ViewShown, NoErrors, LastSent,
             ListInOrder, EntryFetched, NoneForgotten

(* A request that adds a state has committed it, and has to emit an update  *)
(* of it; no request takes back what another has to emit.                   *)
LEMMA RequestEffect ==
    ASSUME Inv, Requests
    PROVE  /\ \A k \in Handler : request[k].step = "committed" => request'[k] = request[k]
           /\ \/ UNCHANGED <<entry, history>>
              \/ \E row \in Row \cup {NoEntry}, h \in Handler :
                    Store(row) /\ request'[h].step = "committed" /\ request'[h].at = Now + 1
  <1>1. PICK h \in Handler : RequestStep(h)
    BY DEF Requests
  <1>2. request = [k \in Handler |-> request[k]]
    BY DEF Inv, RequestsPast
  <1>3. request[h].step # "committed"
    BY <1>1 DEF RequestStep, Put, Delete, Read, Write, Rollback, Idle
  <1>4. \E e : request' = [request EXCEPT ![h] = e]
    BY <1>1 DEF RequestStep, Put, Delete, Read, Write, Create, Replace, NoChange, Remove,
       RemoveGone, Rollback, Announce
  <1>5. \A k \in Handler : k # h => request'[k] = request[k]
    BY <1>2, <1>4
  <1>6. CASE Put(h) \/ Delete(h) \/ Rollback(h)
    BY <1>3, <1>5, <1>6 DEF Put, Delete, Rollback, Read
  <1>7. CASE Write(h)
    <2> DEFINE r == request[h]
    <2>1. r.op = "put" => r.json \in Json
      BY <1>7 DEF Write, Inv, RequestsPast
    <2>2. CASE NoChange(h, r) \/ RemoveGone(h, r)
      BY <1>3, <1>5, <2>2 DEF NoChange, RemoveGone
    <2>3. CASE Create(h, r) \/ Replace(h, r) \/ Remove(h, r)
      <3>1. PICK row \in Row \cup {NoEntry} : Store(row) /\ \E json : Announce(h, json, Now + 1)
        <4>1. CASE Create(h, r)
          <5>1. [id |-> Now, json |-> r.json] \in Row
            BY <2>1, <4>1, ChangesAssumption DEF Create, Store, Row, Inv, HistoryTyped
          <5> QED BY <4>1, <5>1 DEF Create
        <4>2. CASE Replace(h, r)
          <5>1. entry \in Row /\ [entry EXCEPT !.json = r.json] \in Row
            BY <2>1, <4>2 DEF Replace, Found, Inv, HistoryTyped, Row
          <5> QED BY <4>2, <5>1 DEF Replace
        <4>3. CASE Remove(h, r)
          BY <4>3 DEF Remove
        <4> QED BY <2>3, <4>1, <4>2, <4>3
      <3>2. request'[h].step = "committed" /\ request'[h].at = Now + 1
        BY <1>2, <3>1 DEF Announce
      <3> QED BY <1>3, <1>5, <3>1, <3>2
    <2> QED BY <1>7, <2>2, <2>3 DEF Write
  <1> QED BY <1>1, <1>6, <1>7 DEF RequestStep

(* A new state is coming.                                                   *)
LEMMA TellRequest == ASSUME Inv, TellInv, Requests PROVE TellInv'
  <1>1. UNCHANGED <<kind, link, fetching, live, queue, out, sentAt, disordered, missed,
                    view, viewAt, ended>>
    BY DEF Requests, watchvars, serving, client
  <1>2. Now \in Nat /\ Now >= 1 /\ viewAt \in 0..Now /\ HistoryTyped /\ HistoryTyped'
    BY RequestInv, ChangesAssumption DEF Inv, HistoryTyped, ViewPast
  <1>3. /\ Now' \in Nat /\ Now' >= Now /\ \A i \in 1..Now : history'[i] = history[i]
        /\ history'[Now'] = Content(entry')
        /\ \A m \in 1..Now' : m \in 1..Now \/ \E h \in Handler :
              request'[h].step = "committed" /\ request'[h].at = m
    <2>1. CASE UNCHANGED <<entry, history>>
      BY <1>2, <2>1 DEF TellInv, HistoryEnds, Now, Content
    <2>2. CASE \E row \in Row \cup {NoEntry}, h \in Handler :
                  Store(row) /\ request'[h].step = "committed" /\ request'[h].at = Now + 1
      <3>0. PICK row \in Row \cup {NoEntry}, h \in Handler :
                  Store(row) /\ request'[h].step = "committed" /\ request'[h].at = Now + 1
        BY <2>2
      <3>1. /\ Now' = Now + 1 /\ history'[Now + 1] = Content(row)
            /\ \A i \in 1..Now : history'[i] = history[i]
        BY <1>2, <3>0, HistoryGrows
      <3>2. Content(row) = Content(entry')
        BY <3>0 DEF Store
      <3> QED BY <1>2, <3>0, <3>1, <3>2
    <2> QED BY <2>1, <2>2, RequestEffect
  <1>4. HistoryEnds'
    BY <1>3 DEF HistoryEnds, Content
  <1>5. ViewShown'
    BY <1>1, <1>2, <1>3 DEF TellInv, ViewShown, Seen
  <1>6. NoErrors' /\ LastSent' /\ ListInOrder' /\ EntryFetched'
    BY <1>1, <1>2, <1>3 DEF TellInv, NoErrors, LastSent, ListInOrder, EntryFetched, NoFetch
  <1>7. NoneForgotten'
    <2> SUFFICES ASSUME link = "watching", ~disordered, ~missed, NEW m \in 1..Now', sentAt < m
                 PROVE  Coming(m)'
      BY <1>1 DEF NoneForgotten
    <2>1. CASE m \in 1..Now
      <3>1. Coming(m)
        BY <2>1 DEF TellInv, NoneForgotten
      <3>2. \A k \in Handler : request[k].step = "committed" => request'[k] = request[k]
        BY RequestEffect
      <3> QED BY <1>1, <3>1, <3>2 DEF Coming, NoFetch
    <2>2. CASE m \notin 1..Now
      BY <1>3, <2>2 DEF Coming
    <2> QED BY <2>1, <2>2
  <1> QED BY <1>4, <1>5, <1>6, <1>7 DEF TellInv

(* Steps that leave the entry and the requests alone.                       *)
LEMMA EntryTold ==
    ASSUME Inv, TellInv, UNCHANGED entryvars
    PROVE  Now' = Now /\ Now \in Nat /\ Now >= 1 /\ HistoryEnds'
  BY ChangesAssumption DEF entryvars, Inv, HistoryTyped, TellInv, HistoryEnds, Content, Now

(* What has been sent is put after what there was, and is no error.         *)
LEMMA SendTold ==
    ASSUME Inv, NEW n \in 1..Now, NEW json \in Json \cup {NoEntry}, Send(json, n)
    PROVE  /\ out' # <<>> /\ out'[Len(out')].at = n
           /\ (\A i \in DOMAIN out : out[i] # Error)
                 => \A i \in DOMAIN out' : out'[i] # Error
  <1> DEFINE m == [json |-> Seen(json), at |-> n]
  <1>1. out' = Append(out, m) /\ out \in Seq(Told \cup {Error})
    BY DEF Send, Inv, OutPast
  <1>2. Now \in Nat /\ n \in State
    BY ChangesAssumption DEF Inv, HistoryTyped, State
  <1>3. m \in Told /\ m.at = n
    BY <1>2 DEF Told, Seen
  <1>4. m # Error
    <2>1. "json" \in DOMAIN m /\ "json" \notin DOMAIN Error
      BY DEF Error
    <2> QED BY <2>1
  <1> HIDE DEF m
  <1>5. \A i \in DOMAIN out' : (i \in DOMAIN out /\ out'[i] = out[i]) \/ out'[i] = m
    BY <1>1, <1>3
  <1>6. out' # <<>> /\ out'[Len(out')] = m
    BY <1>1, <1>3
  <1> QED BY <1>3, <1>4, <1>5, <1>6

(* The client connects, or the subscription starts with its first fetch.    *)
LEMMA TellSubscribe ==
    ASSUME Inv, TellInv, Connect \/ Subscribe
    PROVE  TellInv'
  <1>1. /\ UNCHANGED <<entryvars, kind, out, live, sentAt, disordered, missed, view, viewAt, ended>>
        /\ link # "watching" /\ ~live
    BY DEF Connect, Subscribe, serving, client, Inv, Unserving
  <1>2. Now' = Now /\ Now \in Nat /\ HistoryEnds'
    BY <1>1, EntryTold
  <1>3. ViewShown' /\ ListInOrder'
    BY <1>1, <1>2 DEF TellInv, ViewShown, ListInOrder, Seen, entryvars
  <1>4. sentAt = 0 /\ LastSent'
    BY <1>1, <1>2 DEF TellInv, LastSent
  <1>5. CASE Connect
    <2>1. link' # "watching"
      BY <1>5 DEF Connect
    <2> QED BY <1>2, <1>3, <1>4, <2>1 DEF TellInv, NoErrors, EntryFetched, NoneForgotten
  <1>6. CASE Subscribe
    <2>1. fetching = NoFetch /\ out = <<>> /\ ~ended
      BY <1>6 DEF Subscribe, Inv, Unserving
    <2>2. NoErrors'
      BY <1>1, <2>1 DEF NoErrors
    <2>3. \/ kind = "search" /\ queue' = <<First>> /\ fetching' = NoFetch
          \/ fetching' = StartFetch(NoFetch)
      BY <1>6, <2>1 DEF Subscribe
    <2>4. fetching' = StartFetch(NoFetch) => fetching'[0] = 1 /\ fetching' # NoFetch
      BY ChangesAssumption DEF StartFetch, NoFetch
    <2>5. EntryFetched'
      BY <1>1, <2>3, <2>4 DEF EntryFetched, NoFetch
    <2>6. ASSUME NEW m PROVE Coming(m)'
      BY <1>1, <2>3, <2>4 DEF Coming, NoFetch
    <2>7. NoneForgotten'
      BY <2>6 DEF NoneForgotten
    <2> QED BY <1>2, <1>3, <1>4, <2>2, <2>5, <2>7 DEF TellInv
  <1> QED BY <1>5, <1>6

(* The last message that is delivered is the last that was sent.            *)
LEMMA TellDeliver == ASSUME Inv, TellInv, Deliver PROVE TellInv'
  <1>1. /\ UNCHANGED <<entryvars, kind, link, fetching, live, queue, sentAt, disordered, missed>>
        /\ out # <<>> /\ out' = Tail(out) /\ out \in Seq(Told \cup {Error})
    BY DEF Deliver, Inv, OutPast
  <1>2. Now' = Now /\ Now \in Nat /\ HistoryEnds'
    BY <1>1, EntryTold
  <1>3. /\ \A i \in DOMAIN out' : i + 1 \in DOMAIN out /\ out'[i] = out[i + 1]
        /\ 1 \in DOMAIN out /\ Head(out) = out[1]
        /\ out' # <<>> => out'[Len(out')] = out[Len(out)]
        /\ out' = <<>> => Len(out) = 1
    BY <1>1
  <1>4. \/ Head(out) = Error /\ ended' /\ UNCHANGED <<view, viewAt>>
        \/ /\ Head(out) # Error /\ view' = Head(out).json /\ viewAt' = Head(out).at
           /\ UNCHANGED ended
    BY DEF Deliver
  <1>5. ViewShown'
    <2>1. CASE UNCHANGED <<view, viewAt>>
      BY <1>1, <1>2, <2>1 DEF TellInv, ViewShown, Seen, entryvars
    <2>2. CASE Head(out) # Error /\ view' = Head(out).json /\ viewAt' = Head(out).at
      <3>1. Shown(out[1])
        BY <1>3, <2>2 DEF Inv, OutPast
      <3> QED BY <1>1, <1>3, <2>2, <3>1 DEF ViewShown, Shown, Seen, entryvars
    <2> QED BY <1>4, <2>1, <2>2
  <1>6. NoErrors'
    BY <1>1, <1>3, <1>4 DEF TellInv, NoErrors
  <1>7. LastSent'
    <2>1. link = "watching" => Head(out) # Error
      BY <1>3 DEF TellInv, NoErrors
    <2> QED BY <1>1, <1>2, <1>3, <1>4, <2>1 DEF TellInv, LastSent
  <1>8. ListInOrder' /\ EntryFetched'
    BY <1>1 DEF TellInv, ListInOrder, EntryFetched, NoFetch
  <1>9. NoneForgotten'
    BY <1>1, <1>2 DEF TellInv, NoneForgotten, Coming, NoFetch, entryvars
  <1> QED BY <1>2, <1>5, <1>6, <1>7, <1>8, <1>9 DEF TellInv

(* A fetch that reads the present state answers with all that is coming.    *)
LEMMA TellFetchRead == ASSUME Inv, TellInv, FetchRead PROVE TellInv'
  <1>1. UNCHANGED <<entryvars, kind, link, live, queue, out, sentAt, disordered, missed,
                    view, viewAt, ended>>
    BY DEF FetchRead, client
  <1>2. Now' = Now /\ Now \in Nat /\ Now >= 1 /\ HistoryEnds'
    BY <1>1, EntryTold
  <1>3. /\ fetching \in [0..(MaxChanges + 1) -> Nat] /\ fetching[0] > 0
        /\ fetching' = [fetching EXCEPT ![0] = @ - 1, ![Now] = @ + 1]
        /\ Now \in 1..(MaxChanges + 1)
    BY ChangesAssumption DEF FetchRead, Inv, FetchesPast, HistoryTyped
  <1>4. fetching'[Now] > 0
    BY <1>2, <1>3
  <1>5. fetching' # NoFetch
    BY <1>3, <1>4 DEF NoFetch
  <1>6. ViewShown' /\ ListInOrder' /\ NoErrors' /\ LastSent' /\ EntryFetched'
    BY <1>1, <1>2, <1>5
    DEF TellInv, ViewShown, ListInOrder, NoErrors, LastSent, EntryFetched, Seen, NoFetch, entryvars
  <1>7. \A m \in 1..Now : Coming(m)'
    BY <1>2, <1>3, <1>4 DEF Coming, State
  <1>8. NoneForgotten'
    BY <1>2, <1>7 DEF NoneForgotten
  <1> QED BY <1>2, <1>6, <1>8 DEF TellInv

(* An answer is sent; the states before it are then told, and the later     *)
(* ones are coming as they were.                                            *)
LEMMA TellFetchAnswer == ASSUME Inv, TellInv, NEW n \in State, FetchAnswer(n) PROVE TellInv'
  <1>1. /\ UNCHANGED <<entryvars, kind, link, queue, missed, view, viewAt, ended>> /\ live'
        /\ Send(history[n], n)
    BY DEF FetchAnswer, client
  <1>2. Now' = Now /\ Now \in Nat /\ Now >= 1 /\ HistoryEnds'
    BY <1>1, EntryTold
  <1>3. /\ fetching \in [0..(MaxChanges + 1) -> Nat] /\ fetching[n] > 0
        /\ fetching' = [fetching EXCEPT ![n] = @ - 1]
        /\ n \in 1..Now
    BY ChangesAssumption DEF FetchAnswer, Inv, FetchesPast, State
  <1>4. link = "watching" /\ fetching # NoFetch
    BY <1>3, ChangesAssumption DEF Inv, Unserving, NoFetch, State
  <1>5. history[n] \in Json \cup {NoEntry}
    BY <1>3 DEF Inv, HistoryTyped, Now
  <1>6. sentAt' = n /\ disordered' = (disordered \/ n < sentAt) /\ sentAt \in 0..Now
    BY <1>1 DEF Send, TellInv, LastSent
  <1>7. NoErrors' /\ LastSent'
    BY <1>1, <1>2, <1>3, <1>4, <1>5, <1>6, SendTold DEF TellInv, NoErrors, LastSent
  <1>8. ListInOrder'
    <2> SUFFICES ASSUME kind = "list" PROVE ~(n < sentAt)
      BY <1>1, <1>6 DEF TellInv, ListInOrder
    <2>1. viewAt <= n /\ \A i \in DOMAIN out : out[i] = Error \/ out[i].at <= n
      BY <1>3 DEF Inv, ListOrdered
    <2>2. viewAt \in Nat /\ out \in Seq(Told \cup {Error})
      BY <1>2 DEF Inv, ViewPast, OutPast
    <2>3. out # <<>> => Len(out) \in DOMAIN out /\ out[Len(out)] # Error
      BY <1>4, <2>2 DEF TellInv, NoErrors
    <2>4. sentAt # 0 => (out = <<>> /\ viewAt = sentAt) \/ (out # <<>> /\ out[Len(out)].at = sentAt)
      BY <1>4 DEF TellInv, LastSent
    <2> QED BY <1>3, <1>6, <2>1, <2>2, <2>3, <2>4
  <1>9. ViewShown' /\ EntryFetched'
    BY <1>1 DEF TellInv, ViewShown, EntryFetched, Seen, entryvars
  <1>10. NoneForgotten'
    <2> SUFFICES ASSUME ~disordered, ~missed, ~(n < sentAt), NEW m \in 1..Now, n < m
                 PROVE  Coming(m)'
      BY <1>1, <1>2, <1>6 DEF NoneForgotten
    <2>1. Coming(m)
      BY <1>3, <1>4, <1>6 DEF TellInv, NoneForgotten
    <2>2. 0 # n /\ n \in 0..(MaxChanges + 1) /\ 0 \in 0..(MaxChanges + 1)
      BY <1>3, ChangesAssumption DEF State
    <2>3. fetching'[0] = fetching[0] /\ \A l \in State : m <= l => fetching'[l] = fetching[l]
      BY <1>3, <2>2, ChangesAssumption DEF State
    <2> QED BY <1>1, <1>4, <2>1, <2>3 DEF Coming, entryvars
  <1> QED BY <1>2, <1>7, <1>8, <1>9, <1>10 DEF TellInv

(* An update is sent, waits for its check, has a list fetched again, or is  *)
(* left out of the watch of an entry because a fetch will tell of it.       *)
LEMMA TellEmit == ASSUME Inv, TellInv, NEW h \in Handler, Emit(h) PROVE TellInv'
  <1> DEFINE u == [json |-> request[h].json, at |-> request[h].at]
  <1>1. /\ UNCHANGED <<entry, history, kind, link, view, viewAt, ended>>
        /\ request[h].step = "committed" /\ request' = [request EXCEPT ![h] = Idle]
    BY DEF Emit, client
  <1>2. Now' = Now /\ Now \in Nat /\ Now >= 1 /\ HistoryEnds'
    BY <1>1, ChangesAssumption DEF Inv, HistoryTyped, TellInv, HistoryEnds, Content, Now
  <1>3. ViewShown'
    BY <1>1 DEF TellInv, ViewShown, Seen
  <1>4. PICK n \in 1..Now : n = request[h].at /\ request[h].json = history[n]
    BY <1>1 DEF Inv, RequestsPast, Past
  <1>5. history[n] \in Json \cup {NoEntry}
    BY <1>4 DEF Inv, HistoryTyped, Now
  <1>6. \A k \in Handler : k # h => request'[k] = request[k]
    BY <1>1 DEF Inv, RequestsPast
  <1>7. CASE link # "watching"
    <2>1. UNCHANGED <<out, sentAt, disordered, missed>>
      BY <1>7 DEF Emit, serving
    <2> QED BY <1>1, <1>2, <1>3, <1>7, <2>1
        DEF TellInv, NoErrors, LastSent, ListInOrder, EntryFetched, NoneForgotten
  <1>8. CASE link = "watching"
    <2>1. Update(u)
      BY <1>8 DEF Emit
    <2>2. UNCHANGED live /\ sentAt \in 0..Now
      BY <2>1 DEF Update, TellInv, LastSent
    <2>3. CASE kind = "list"
      <3>1. /\ fetching' = StartFetch(NoFetch)
            /\ UNCHANGED <<queue, out, sentAt, disordered, missed>>
        BY <2>1, <2>3 DEF Update, Refetch
      <3>2. fetching'[0] = 1
        BY <3>1, ChangesAssumption DEF StartFetch, NoFetch
      <3>3. NoErrors' /\ LastSent' /\ ListInOrder' /\ EntryFetched'
        BY <1>1, <1>2, <2>3, <3>1 DEF TellInv, NoErrors, LastSent, ListInOrder, EntryFetched
      <3>4. NoneForgotten'
        BY <3>2 DEF NoneForgotten, Coming
      <3> QED BY <1>2, <1>3, <3>3, <3>4 DEF TellInv
    <2>4. CASE kind = "entry" /\ live
      <3>1. UNCHANGED <<fetching, queue, missed>> /\ Send(history[n], n)
        BY <1>4, <2>1, <2>4 DEF Update
      <3>2. sentAt' = n /\ disordered' = (disordered \/ n < sentAt)
        BY <3>1 DEF Send
      <3>3. NoErrors' /\ LastSent'
        BY <1>1, <1>2, <1>5, <1>8, <3>1, <3>2, SendTold DEF TellInv, NoErrors, LastSent
      <3>4. ListInOrder' /\ EntryFetched'
        BY <1>1, <2>2, <2>4 DEF ListInOrder, EntryFetched
      <3>5. NoneForgotten'
        <4> SUFFICES ASSUME ~disordered, ~missed, ~(n < sentAt), NEW m \in 1..Now, n < m
                     PROVE  Coming(m)'
          BY <1>2, <3>1, <3>2 DEF NoneForgotten
        <4>1. Coming(m)
          BY <1>8, <2>2 DEF TellInv, NoneForgotten
        <4>2. request[h].at # m
          BY <1>4
        <4> QED BY <1>6, <2>2, <3>1, <4>1, <4>2 DEF Coming, NoFetch
      <3> QED BY <1>2, <1>3, <3>3, <3>4, <3>5 DEF TellInv
    <2>5. CASE kind = "entry" /\ ~live
      <3>1. /\ UNCHANGED <<fetching, queue, out, sentAt, disordered>>
            /\ missed' = (missed \/ \E i \in 1..(n - 1) : fetching[i] > 0)
        BY <1>4, <2>1, <2>5 DEF Update
      <3>2. NoErrors' /\ LastSent' /\ ListInOrder' /\ EntryFetched'
        BY <1>1, <1>2, <2>2, <2>5, <3>1
        DEF TellInv, NoErrors, LastSent, ListInOrder, EntryFetched, NoFetch
      <3>3. NoneForgotten'
        <4> SUFFICES ASSUME ~disordered, ~missed, \A i \in 1..(n - 1) : ~(fetching[i] > 0),
                            NEW m \in 1..Now, sentAt < m
                     PROVE  Coming(m)'
          BY <1>2, <3>1 DEF NoneForgotten
        <4>1. Coming(m)
          BY <1>8, <2>2 DEF TellInv, NoneForgotten
        <4>2. CASE m # n
          BY <1>4, <1>6, <2>2, <3>1, <4>1, <4>2 DEF Coming, NoFetch
        <4>3. CASE m = n
          <5>1. fetching # NoFetch /\ fetching \in [0..(MaxChanges + 1) -> Nat]
            BY <1>8, <2>5 DEF TellInv, EntryFetched, Inv, FetchesPast
          <5>2. PICK i \in 0..(MaxChanges + 1) : fetching[i] > 0
            BY <5>1 DEF NoFetch
          <5>3. i = 0 \/ (i \in State /\ m <= i)
            BY <1>2, <4>3, <5>2, ChangesAssumption DEF State
          <5> QED BY <3>1, <5>2, <5>3 DEF Coming
        <4> QED BY <4>2, <4>3
      <3> QED BY <1>2, <1>3, <3>2, <3>3 DEF TellInv
    <2>6. CASE kind = "search"
      <3>1. /\ UNCHANGED <<fetching, out, sentAt, disordered, missed>>
            /\ queue' = Append(queue, u)
        BY <2>1, <2>6 DEF Update
      <3>2. NoErrors' /\ LastSent' /\ ListInOrder' /\ EntryFetched'
        BY <1>1, <1>2, <2>2, <2>6, <3>1
        DEF TellInv, NoErrors, LastSent, ListInOrder, EntryFetched, NoFetch
      <3>3. queue \in Seq(Told \cup {First}) /\ u \in Told /\ u.at = n
        BY <1>1, <1>4, UpdateTold DEF Inv, QueuePast, RequestsPast
      <3> HIDE DEF u
      <3>4. /\ \A i \in DOMAIN queue : i \in DOMAIN queue' /\ queue'[i] = queue[i]
            /\ \E i \in DOMAIN queue' : queue'[i] = u
            /\ queue' # <<>>
        <4>1. Len(queue) + 1 \in DOMAIN queue' /\ queue'[Len(queue) + 1] = u
          BY <3>1, <3>3
        <4> QED BY <3>1, <3>3, <4>1
      <3>5. NoneForgotten'
        <4> SUFFICES ASSUME ~disordered, ~missed, NEW m \in 1..Now, sentAt < m
                     PROVE  Coming(m)'
          BY <1>2, <3>1 DEF NoneForgotten
        <4>1. Coming(m)
          BY <1>8, <2>2 DEF TellInv, NoneForgotten
        <4>2. CASE m = n
          BY <3>3, <3>4, <4>2 DEF Coming
        <4>3. CASE m # n
          BY <1>4, <1>6, <2>2, <3>1, <3>4, <4>1, <4>3 DEF Coming, NoFetch
        <4> QED BY <4>2, <4>3
      <3> QED BY <1>2, <1>3, <3>2, <3>5 DEF TellInv
    <2> QED BY <2>1, <2>3, <2>4, <2>5, <2>6 DEF Update
  <1> QED BY <1>7, <1>8

(* What comes off the queue is sent, or another fetch starts.               *)
LEMMA TellChecked == ASSUME Inv, TellInv, Checked PROVE TellInv'
  <1>1. /\ UNCHANGED <<entryvars, kind, link, live, missed, view, viewAt, ended>>
        /\ queue # <<>> /\ queue' = Tail(queue) /\ kind = "search" /\ link = "watching"
        /\ queue \in Seq(Told \cup {First})
    BY DEF Checked, client, Inv, QueuePast, Unserving
  <1>2. Now' = Now /\ Now \in Nat /\ Now >= 1 /\ HistoryEnds'
    BY <1>1, EntryTold
  <1>3. ViewShown' /\ ListInOrder' /\ EntryFetched'
    BY <1>1 DEF TellInv, ViewShown, ListInOrder, EntryFetched, Seen, entryvars
  <1>4. CASE ~live
    <2>1. fetching' = StartFetch(fetching) /\ UNCHANGED <<out, sentAt, disordered>>
      BY <1>4 DEF Checked
    <2>2. fetching'[0] > 0
      BY <2>1, ChangesAssumption DEF StartFetch, Inv, FetchesPast
    <2>3. NoErrors' /\ LastSent'
      BY <1>1, <1>2, <2>1 DEF TellInv, NoErrors, LastSent
    <2>4. NoneForgotten'
      BY <2>2 DEF NoneForgotten, Coming
    <2> QED BY <1>2, <1>3, <2>3, <2>4 DEF TellInv
  <1>5. CASE live
    <2>1. UNCHANGED fetching /\ Send(Head(queue).json, Head(queue).at)
      BY <1>5 DEF Checked
    <2>2. /\ 1 \in DOMAIN queue /\ Head(queue) = queue[1]
          /\ \A i \in DOMAIN queue : i = 1 \/ (i - 1 \in DOMAIN queue' /\ queue'[i - 1] = queue[i])
      BY <1>1
    <2>3. PICK n \in 1..Now : n = queue[1].at /\ queue[1].json = history[n]
      BY <1>5, <2>2 DEF Inv, QueuePast, Past
    <2>4. history[n] \in Json \cup {NoEntry} /\ Send(history[n], n)
      BY <2>1, <2>2, <2>3 DEF Inv, HistoryTyped, Now
    <2>5. sentAt' = n /\ disordered' = (disordered \/ n < sentAt) /\ sentAt \in 0..Now
      BY <2>4 DEF Send, TellInv, LastSent
    <2>6. NoErrors' /\ LastSent'
      BY <1>1, <1>2, <2>4, <2>5, SendTold DEF TellInv, NoErrors, LastSent
    <2>7. NoneForgotten'
      <3> SUFFICES ASSUME ~disordered, ~missed, ~(n < sentAt), NEW m \in 1..Now, n < m
                   PROVE  Coming(m)'
        BY <1>1, <1>2, <2>5 DEF NoneForgotten
      <3>1. Coming(m)
        BY <1>1, <2>5 DEF TellInv, NoneForgotten
      <3>2. (\E i \in DOMAIN queue : queue[i].at = m) => \E i \in DOMAIN queue' : queue'[i].at = m
        BY <2>2, <2>3
      <3> QED BY <1>1, <1>5, <2>1, <3>1, <3>2 DEF Coming, entryvars
    <2> QED BY <1>2, <1>3, <2>6, <2>7 DEF TellInv
  <1> QED BY <1>4, <1>5

(* A subscription that has ended owes nothing.                              *)
LEMMA TellUnserved ==
    ASSUME Inv, TellInv, FetchFails \/ Drop \/ Crash
    PROVE  TellInv'
  <1>1. /\ UNCHANGED <<entry, history, kind, view, viewAt>> /\ Unserved /\ link' # "watching"
    BY DEF FetchFails, Drop, Crash, client, entryvars
  <1>2. Now' = Now /\ Now \in Nat /\ HistoryEnds'
    BY <1>1, ChangesAssumption DEF Inv, HistoryTyped, TellInv, HistoryEnds, Content, Now
  <1> QED BY <1>1, <1>2 DEF Unserved, TellInv, ViewShown, NoErrors, LastSent, ListInOrder,
             EntryFetched, NoneForgotten, Seen

(* Every step keeps the invariant.                                          *)
LEMMA TellNext == ASSUME Inv, TellInv, [Next]_vars PROVE TellInv'
  <1>1. CASE Step
    BY <1>1, TellSubscribe, TellDeliver, TellFetchRead, TellChecked, TellFetchAnswer, TellEmit
    DEF Step
  <1>2. CASE Requests
    BY <1>2, TellRequest
  <1>3. CASE FetchFails \/ Drop \/ Crash
    BY <1>3, TellUnserved
  <1>4. CASE UNCHANGED vars
    <2>1. UNCHANGED <<entryvars, kind, link, fetching, live, queue, out, sentAt, disordered,
                      missed, view, viewAt, ended>>
      BY <1>4 DEF vars, watchvars, serving, client
    <2>2. Now' = Now /\ HistoryEnds'
      BY <2>1, EntryTold
    <2> QED BY <2>1, <2>2 DEF TellInv, ViewShown, NoErrors, LastSent, ListInOrder,
             EntryFetched, NoneForgotten, Coming, Seen, NoFetch, entryvars
  <1> QED BY <1>1, <1>2, <1>3, <1>4 DEF Next

(* A client that watches has been told the present content when nothing is  *)
(* under way, unless an update of an entry fell between its fetch and its   *)
(* updates, or messages were sent out of order; a list has it always.       *)
THEOREM QuietAgreesCorrect == Spec => []QuietAgrees
  <1>1. Inv /\ TellInv => QuietAgrees
    <2> SUFFICES ASSUME Inv, TellInv, Quiet, kind # "list" => ~disordered /\ ~missed
                 PROVE  view = Seen(Content(entry))
      BY DEF QuietAgrees
    <2>1. link = "watching" /\ ~disordered /\ ~missed /\ sentAt \in 0..Now
      BY DEF Quiet, TellInv, ListInOrder, LastSent
    <2>2. Now \in Nat /\ Now >= 1
      BY ChangesAssumption DEF Inv, HistoryTyped
    <2>3. ASSUME NEW m PROVE ~Coming(m)
      BY ChangesAssumption DEF Coming, Quiet, NoFetch, State
    <2>4. sentAt = Now
      BY <2>1, <2>2, <2>3 DEF TellInv, NoneForgotten
    <2>5. viewAt = Now
      BY <2>1, <2>2, <2>4 DEF TellInv, LastSent, Quiet
    <2> QED BY <2>2, <2>5 DEF TellInv, ViewShown, HistoryEnds
  <1>2. TellInv /\ Inv /\ [Next]_vars => TellInv'
    BY TellNext
  <1> QED BY <1>1, <1>2, TellInit, InvCorrect, PTL DEF Spec
=============================================================================
