------------------------- MODULE BulkAccountLoader -------------------------
(***************************************************************************)
(* The client library's account poller: one load at a time is meant to be  *)
(* outstanding, further callers join it, and a load older than a minute is *)
(* given up for a new one.  Polling subscribers register callbacks with it *)
(* and fetch an account of their own when they have none.                  *)
(*                                                                         *)
(* One event loop: an action is what runs between two awaits.  Nodes may   *)
(* answer from any slot up to the newest, late or not at all.  A timer     *)
(* runs at most Late units after it is due; time is counted in ages.       *)
(***************************************************************************)
EXTENDS Integers, FiniteSets, FiniteSetsExt

CONSTANTS
  Subs, Callers,     \* polling subscribers; others that call load()
  AccountOf,         \* the account a subscriber wants
  BatchOf,           \* the request an account is loaded with
  Others,            \* requests for accounts of further subscribers
  MaxLoads,          \* bound: loads referred to at a time (numbers are reused)
  Timeout,           \* of a request (10 s)
  StaleAfter,        \* age at which a load is given up (one minute)
  Late,              \* how late a timer may run
  MaxSlot            \* bound: slots of the chain

Accounts == {AccountOf[s] : s \in Subs}
Loads == 1..MaxLoads
None == 0

ASSUME BulkAccountLoaderAssumption ==
  /\ {MaxLoads, Timeout, StaleAfter, Late, MaxSlot} \subseteq Nat
  /\ Subs \cap Callers = {}

VARIABLES
  head, writes,      \* newest slot; the slots that changed an account
  registered,        \* subscribers with a callback in accountsToLoad
  buffer,            \* bufferAndSlotMap: slot 0 for an account not in it
  promise, resolver, since, \* loadPromise, loadPromiseResolver, age of the load
  running, failed,   \* loads not settled, those among them with an error
  requests,          \* outstanding requests and the accounts they are for
  waiting,           \* what a caller awaits
  phase, user        \* of a subscriber, and the account data it holds

chain == <<head, writes>>
loading == <<promise, resolver, since, running, failed, requests>>
vars == <<chain, loading, registered, buffer, waiting, phase, user>>

Waiters == Subs \cup Callers
Nobody == [on |-> "nothing", load |-> None]
NoData == [slot |-> 0, version |-> 0]

Init ==
  /\ head = 1 /\ writes = [k \in Accounts |-> {1}]
  /\ registered = {} /\ buffer = [k \in Accounts |-> NoData]
  /\ promise = None /\ resolver = None /\ since = 0
  /\ running = {} /\ failed = {} /\ requests = {}
  /\ waiting = [c \in Waiters |-> Nobody]
  /\ phase = [s \in Subs |-> "off"] /\ user = [s \in Subs |-> NoData]

(* What an account held at a slot is named by the slot that wrote it.      *)
DataAt(k, slot) == [slot |-> slot, version |-> Max({0} \cup {w \in writes[k] : w <= slot})]

Free(i) ==
  /\ i \notin running /\ i # promise
  /\ \A q \in requests : q.load # i
  /\ \A c \in Waiters : waiting[c].load # i
-----------------------------------------------------------------------------
(* load()                                                                  *)

Joins == promise # None /\ since <= StaleAfter

Batches == {BatchOf[k] : k \in Accounts} \cup Others
Loaded == {AccountOf[s] : s \in registered}
RequestsOf(i) ==
  {[load |-> i, batch |-> b, age |-> 0, accounts |-> {k \in Loaded : BatchOf[k] = b}] :
     b \in {BatchOf[k] : k \in Loaded} \cup Others}

Start(i) ==
  /\ Free(i) /\ \A j \in Loads : j < i => ~Free(j)
  /\ promise' = i /\ resolver' = i /\ since' = 0
  /\ running' = running \cup {i}
  /\ requests' = requests \cup RequestsOf(i)
  /\ UNCHANGED failed

Load(c) ==
  /\ waiting[c] = Nobody
  /\ \/ /\ Joins
        /\ waiting' = [waiting EXCEPT ![c] = [on |-> "promise", load |-> promise]]
        /\ UNCHANGED loading
     \/ /\ ~Joins
        /\ \E i \in Loads : /\ Start(i)
                            /\ waiting' = [waiting EXCEPT ![c] = [on |-> "load", load |-> i]]
  /\ UNCHANGED <<chain, registered, buffer, phase, user>>

(* The interval timer of startPolling awaits nothing.                      *)
Poll ==
  /\ registered # {} \/ Others # {}
  /\ ~Joins
  /\ \E i \in Loads : Start(i)
  /\ UNCHANGED <<chain, registered, buffer, waiting, phase, user>>

OnlyOnSuccess(i) ==
  [c \in Waiters |->
     IF /\ i \notin failed
        /\ waiting[c] \in {[on |-> "load", load |-> i], [on |-> "promise", load |-> resolver]}
       THEN Nobody ELSE waiting[c]]

(* The end of load(): its own caller goes on, and so does whoever awaits   *)
(* the promise that the resolver belongs to now.                           *)
Answered(i) ==
  [c \in Waiters |->
     IF waiting[c] \in {[on |-> "load", load |-> i], [on |-> "promise", load |-> resolver]}
       THEN Nobody ELSE waiting[c]]

CanSettle(i) == i \in running /\ (i \in failed \/ \A q \in requests : q.load # i)

SettleLeavingPromise(i) ==
  /\ CanSettle(i)
  /\ waiting' = Answered(i)
  /\ running' = running \ {i} /\ failed' = failed \ {i}
  /\ UNCHANGED <<chain, registered, buffer, promise, resolver, since, requests, phase, user>>

Settle(i) ==
  /\ CanSettle(i)
  /\ waiting' = Answered(i)
  /\ promise' = None
  /\ running' = running \ {i} /\ failed' = failed \ {i}
  /\ UNCHANGED <<chain, registered, buffer, resolver, since, requests, phase, user>>
-----------------------------------------------------------------------------
(* loadChunk: the response of a request, none in time, or an error.        *)

HearsAll(s, data) == IF data.version = 0 THEN user[s] ELSE data
Hears(s, data) ==
  IF data.version = 0 \/ user[s].slot > data.slot THEN user[s] ELSE data

Changes(k, data) ==
  \/ buffer[k] = NoData
  \/ /\ data.slot >= buffer[k].slot
     /\ data.version \notin {0, buffer[k].version}

Respond(q, slot) ==
  LET news == {k \in q.accounts : Changes(k, DataAt(k, slot))}
  IN  /\ buffer' = [k \in Accounts |-> IF k \in news THEN DataAt(k, slot) ELSE buffer[k]]
      /\ user' = [s \in Subs |-> IF s \in registered /\ AccountOf[s] \in news
                                   THEN Hears(s, DataAt(AccountOf[s], slot)) ELSE user[s]]
      /\ requests' = requests \ {q}
      /\ UNCHANGED <<chain, registered, promise, resolver, since, running, failed,
                     waiting, phase>>

TimeOut(i, b) ==
  /\ \E q \in requests : /\ q.load = i /\ q.batch = b /\ q.age >= Timeout
                         /\ requests' = requests \ {q}
  /\ UNCHANGED <<chain, registered, buffer, promise, resolver, since, running, failed,
                 waiting, phase, user>>

(* Promise.all gives up at the first error; other requests stay out.       *)
Reject(q) ==
  /\ requests' = requests \ {q}
  /\ failed' = failed \cup ({q.load} \cap running)
  /\ UNCHANGED <<chain, registered, buffer, promise, resolver, since, running, waiting,
                 phase, user>>
-----------------------------------------------------------------------------
(* Polling subscribers.                                                    *)

(* Account data that a caller hands over has no slot (undefined, here 0),  *)
(* which is older than nothing and newer than nothing.                     *)
Handed(k) == {[slot |-> 0, version |-> w] : w \in writes[k]}

(* subscribe and addAccount, which awaits the promise there is.            *)
Subscribe(s) ==
  /\ phase[s] = "off"
  /\ \E data \in {user[s]} \cup Handed(AccountOf[s]) : user' = [user EXCEPT ![s] = data]
  /\ registered' = registered \cup {s}
  /\ phase' = [phase EXCEPT ![s] = "adding"]
  /\ waiting' = [waiting EXCEPT ![s] =
       IF promise = None THEN Nobody ELSE [on |-> "promise", load |-> promise]]
  /\ UNCHANGED <<chain, loading, buffer>>

FetchIfUnloaded(s) ==
  /\ phase[s] = "adding" /\ waiting[s] = Nobody
  /\ phase' = [phase EXCEPT ![s] = IF user[s] = NoData THEN "fetching" ELSE "on"]
  /\ UNCHANGED <<chain, loading, registered, buffer, waiting, user>>

Fetched(s, slot) ==
  LET data == DataAt(AccountOf[s], slot)
  IN  /\ phase[s] = "fetching"
      /\ phase' = [phase EXCEPT ![s] = "on"]
      /\ user' = [user EXCEPT ![s] =
           IF slot > user[s].slot /\ data.version # 0 THEN data ELSE @]
      /\ UNCHANGED <<chain, loading, registered, buffer, waiting>>

(* unsubscribe and removeAccount: with its last callback an account leaves *)
(* the buffers and whatever response is still due ignores it.              *)
Unsubscribe(s) ==
  LET left == registered \ {s}
      gone == Accounts \ {AccountOf[r] : r \in left}
  IN  /\ phase[s] = "on"
      /\ phase' = [phase EXCEPT ![s] = "off"]
      /\ registered' = left
      /\ buffer' = [k \in Accounts |-> IF k \in gone THEN NoData ELSE buffer[k]]
      /\ requests' = {[q EXCEPT !.accounts = @ \ gone] : q \in requests}
      /\ UNCHANGED <<chain, promise, resolver, since, running, failed, waiting, user>>
-----------------------------------------------------------------------------
(* The chain and the clock.                                                *)

Write(S) ==
  /\ head < MaxSlot /\ head' = head + 1
  /\ writes' = [k \in Accounts |-> IF k \in S THEN writes[k] \cup {head + 1} ELSE writes[k]]
  /\ UNCHANGED <<loading, registered, buffer, waiting, phase, user>>

Tick ==
  /\ \A i \in running : ~CanSettle(i)
  /\ \A q \in requests : q.age < Timeout + Late
  /\ requests' = {[q EXCEPT !.age = @ + 1] : q \in requests}
  /\ since' = Min({since + 1, StaleAfter + 1})
  /\ UNCHANGED <<chain, promise, resolver, running, failed, registered, buffer, waiting,
                 phase, user>>

Next ==
  \/ \E c \in Callers : Load(c)
  \/ Poll
  \/ \E i \in Loads : Settle(i)
  \/ \E q \in requests, slot \in 1..head : Respond(q, slot)
  \/ \E i \in Loads, b \in Batches : TimeOut(i, b)
  \/ \E q \in requests : Reject(q)
  \/ \E s \in Subs : Subscribe(s) \/ FetchIfUnloaded(s) \/ Unsubscribe(s)
  \/ \E s \in Subs, slot \in 1..head : Fetched(s, slot)
  \/ \E S \in SUBSET Accounts : Write(S)
  \/ Tick

(* The event loop runs every timer that is due and every continuation that *)
(* is ready, and time passes however busy the loop is (SF: a ready         *)
(* continuation stops the clock for a moment); nothing is assumed of the   *)
(* network or of the callers.                                              *)
Fairness ==
  /\ SF_vars(Tick)
  /\ \A i \in Loads : WF_vars(Settle(i))
  /\ \A i \in Loads, b \in Batches : WF_vars(TimeOut(i, b))

Spec == Init /\ [][Next]_vars /\ Fairness
-----------------------------------------------------------------------------
(* Properties.                                                             *)

(* Whoever called load(), or subscribed while one was outstanding, is      *)
(* answered whatever the network does: its own load ends, and the promise  *)
(* it joined is resolved unless a newer load has taken the resolver over.  *)
CallersAnswered ==
  \A c \in Waiters, i \in Loads :
    waiting[c].load = i
      ~> \/ waiting[c].load # i
         \/ waiting[c].on = "promise" /\ resolver # i

(* Data whose slot is known never gives way to older data, however the     *)
(* responses of overlapping loads, fetches of its own and nodes that lag   *)
(* are ordered.  Data handed to subscribe has no slot, so any response     *)
(* replaces it, a lagging one too (the callback of addToAccountLoader).    *)
NewestKept ==
  [][\A s \in Subs :
       user[s].slot > 0 /\ user'[s].slot > 0 => user'[s].version >= user[s].version]_user
=============================================================================
