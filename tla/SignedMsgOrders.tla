--------------------------- MODULE SignedMsgOrders ---------------------------
(***************************************************************************)
(* Orders signed off chain.  A user signs a message; any keeper may submit *)
(* it, any number of times, late, or together with others.  The authority  *)
(* owns one table of the messages placed lately, shared by its accounts;   *)
(* an entry holds the message's uuid, the last slot of its auction and the *)
(* id of the order that was placed.  Makers find the order through it.     *)
(*                                                                         *)
(* Of an account only next_order_id matters here.  A message is refused    *)
(* for any other reason (margin, full order slots) by not being taken.     *)
(* Signatures are good: Messages is what was really signed.  Wall-clock    *)
(* time is read off the slot.                                              *)
(***************************************************************************)
EXTENDS Naturals, Sequences

CONSTANTS
  Accounts,        \* sub-accounts of the authority
  Messages,        \* what the authority signed: a uuid, the account, the slot it
                   \* was signed at, auction_duration, max_ts (0: none) and the
                   \* number of stop-loss and take-profit orders that go with it
  NoUuid,          \* the zeroed uuid of a free entry
  EvictionBuffer,  \* SIGNED_MSG_SLOT_EVICTION_BUFFER
  MaxAge,          \* oldest order slot that is accepted
  MaxTable,        \* most entries of the table
  MaxSlot,         \* bound on slots
  MaxSignedId      \* bound on order ids, far below their wrap

ASSUME SignedMsgAssumption ==
  /\ \A m \in Messages :
       /\ m.uuid # NoUuid /\ m.account \in Accounts /\ m.slot \in Nat
       /\ m.duration \in Nat /\ m.maxTs \in Nat /\ m.brackets \in 0..2
  /\ EvictionBuffer \in Nat /\ MaxAge \in Nat
  /\ MaxTable \in Nat \ {0} /\ MaxSlot \in Nat /\ MaxSignedId \in Nat

VARIABLES
  slot,       \* the clock
  table,      \* signed_msg_order_data; <<>> while the account does not exist
  nextId,     \* next_order_id of each account
  placed,     \* history: which order was placed for which message
  forgotten   \* history: the entries the authority removed itself

tableVars == <<slot, table, nextId, placed, forgotten>>
-----------------------------------------------------------------------------
Free == [uuid |-> NoUuid, maxSlot |-> 0, orderId |-> 0]

TableInit ==
  /\ slot = 1 /\ table = <<>> /\ nextId = [a \in Accounts |-> 1]
  /\ placed = {} /\ forgotten = {}

Entries == DOMAIN table

\* Mutant: the auction counted from the slot of submission.
AuctionEndFromNow(m) == slot + m.duration

AuctionEnd(m) == m.slot + m.duration

\* What an entry remembers of a message.
KeyOf(m) == <<m.uuid, AuctionEnd(m)>>
EntryKey(e) == <<e.uuid, e.maxSlot>>

\* Mutant: the buffer forgotten.
StaleAtOnce(e) == e.maxSlot < slot

Stale(e) == e.maxSlot + EvictionBuffer < slot

\* Mutant: the message compared with whole entries.
ExistsAsSigned(m) ==
  \E i \in Entries : EntryKey(table[i]) = KeyOf(m) /\ ~Stale(table[i])

\* check_exists_and_prune_stale_signed_msg_order_ids: the answer, and the
\* table it leaves behind.
Exists(m) == \E i \in Entries : table[i].uuid = m.uuid /\ ~Stale(table[i])

\* Mutants: no entry pruned; only the slot of a stale entry reset.
PrunedNothing == table
PrunedSlotOnly ==
  [i \in Entries |-> IF Stale(table[i]) THEN [table[i] EXCEPT !.maxSlot = 0]
                     ELSE table[i]]

Pruned == [i \in Entries |-> IF Stale(table[i]) THEN Free ELSE table[i]]

FirstFreeEntry(t) ==
  {i \in DOMAIN t : /\ t[i].maxSlot = 0
                    /\ \A j \in DOMAIN t : t[j].maxSlot = 0 => i <= j}

\* next_order_id once the bracket orders are placed: the id the order gets.
IdAfterBrackets(m) == nextId[m.account] + m.brackets

\* Mutant: the bracket orders not counted.
IdBeforeBrackets(m) == nextId[m.account]

\* taker_order_id_to_use: the id predicted for it, counted apart.
OrderIdToUse(m) == nextId[m.account] + m.brackets

\* place_perp_order skips an order that is out of date, without an error.
Skipped(m) == m.maxTs # 0 /\ m.maxTs < slot

NextSlot ==
  /\ slot < MaxSlot /\ slot' = slot + 1
  /\ UNCHANGED <<table, nextId, placed, forgotten>>

\* Any order that does not come from a message.
PlaceOwn(a) ==
  /\ nextId[a] < MaxSignedId
  /\ nextId' = [nextId EXCEPT ![a] = @ + 1]
  /\ UNCHANGED <<slot, table, placed, forgotten>>

Placeable(m) == table # <<>> /\ slot <= m.slot + MaxAge /\ slot <= AuctionEnd(m)

\* The message is known: only the stale entries are pruned.
PlaceAgain(m) ==
  /\ Placeable(m) /\ Exists(m)
  /\ table' = Pruned
  /\ UNCHANGED <<slot, nextId, placed, forgotten>>

\* A message finds room; what follows cannot be refused.
FindsRoom(m) ==
  /\ Placeable(m) /\ ~Exists(m)
  /\ AuctionEnd(m) > 0 /\ IdAfterBrackets(m) < MaxSignedId
  /\ FirstFreeEntry(Pruned) # {}

\* The bracket orders, the entry, then the order itself.
PlaceSigned(m) ==
  /\ FindsRoom(m)
  /\ \E i \in FirstFreeEntry(Pruned) :
       table' = [Pruned EXCEPT ![i] = [uuid |-> m.uuid, maxSlot |-> AuctionEnd(m),
                                       orderId |-> OrderIdToUse(m)]]
  /\ IF Skipped(m)
     THEN /\ nextId' = [nextId EXCEPT ![m.account] = IdAfterBrackets(m)]
          /\ UNCHANGED placed
     ELSE /\ nextId' = [nextId EXCEPT ![m.account] = IdAfterBrackets(m) + 1]
          /\ placed' = placed \union {[msg |-> m, id |-> IdAfterBrackets(m)]}
  /\ UNCHANGED <<slot, forgotten>>

Initialize(n) ==
  /\ table = <<>>
  /\ table' = [i \in 1..n |-> Free]
  /\ UNCHANGED <<slot, nextId, placed, forgotten>>

Forget(S) == forgotten' = forgotten \union {EntryKey(table[i]) : i \in S}

\* Only the authority or its delegate may shrink the table.
Resize(n, byOwner) ==
  /\ table # <<>> /\ (byOwner \/ n >= Len(table))
  /\ table' = [i \in 1..n |-> IF i \in Entries THEN table[i] ELSE Free]
  /\ Forget({i \in Entries : i > n})
  /\ UNCHANGED <<slot, nextId, placed>>

Delete ==
  /\ table # <<>> /\ table' = <<>>
  /\ Forget(Entries)
  /\ UNCHANGED <<slot, nextId, placed>>

TableNext ==
  \/ NextSlot
  \/ Delete
  \/ \E a \in Accounts : PlaceOwn(a)
  \/ \E m \in Messages : PlaceAgain(m) \/ PlaceSigned(m)
  \/ \E n \in 1..MaxTable :
       Initialize(n) \/ \E byOwner \in BOOLEAN : Resize(n, byOwner)

TableSpec == TableInit /\ [][TableNext]_tableVars
-----------------------------------------------------------------------------
Entry == [uuid : {NoUuid} \union {m.uuid : m \in Messages},
          maxSlot : Nat, orderId : Nat]

\* Entries are free or complete: add_signed_msg_order_id takes an entry for
\* free by its slot alone, the look-up goes by the uuid alone.
TableTypeOK ==
  /\ slot \in Nat \ {0}
  /\ table \in Seq(Entry) /\ Len(table) <= MaxTable
  /\ \A i \in Entries : table[i] = Free \/ ( /\ table[i].uuid # NoUuid
                                             /\ table[i].maxSlot > 0
                                             /\ table[i].orderId > 0 )
  /\ nextId \in [Accounts -> Nat \ {0}]
  /\ placed \subseteq [msg : Messages, id : Nat]

\* Whatever the keepers submit and however often, a message gets one order,
\* as long as the authority does not throw its entry away.  The entry may be
\* pruned, but only once the message itself is too old to be placed.
PlacedOnce ==
  \A r, s \in placed : r.msg = s.msg /\ KeyOf(r.msg) \notin forgotten => r = s

\* place_and_make takes the first entry with the uuid: there is no other.
UuidsUnique ==
  \A i, j \in Entries :
    table[i].uuid = table[j].uuid /\ table[i].uuid # NoUuid => i = j

\* A uuid that has been used is not used again, by this or another message,
\* until the auction is over and the buffer has passed.
UuidBlocksForLife ==
  [][ \A r \in placed' \ placed, s \in placed :
        s.msg.uuid = r.msg.uuid /\ KeyOf(s.msg) \notin forgotten
          => AuctionEnd(s.msg) + EvictionBuffer < slot ]_tableVars

\* Stale entries never keep a message out: while fewer entries than the table
\* holds are in their time, a fresh message finds room.
TableNotClogged ==
  \A m \in Messages :
    /\ Placeable(m) /\ ~Exists(m) /\ IdAfterBrackets(m) < MaxSignedId
    /\ \E i \in Entries : Stale(table[i])
    => FindsRoom(m)

Named(e) ==
  \E r \in placed : KeyOf(r.msg) = EntryKey(e) /\ r.id = e.orderId

\* The id in the entry of a message without max_ts is that of the order placed
\* for it, with or without bracket orders: makers who fill "the order with this
\* uuid" fill that order.
UndatedEntriesNamed ==
  \A i \in Entries :
    /\ table[i] # Free
    /\ \A m \in Messages : KeyOf(m) = EntryKey(table[i]) => m.maxTs = 0
    => Named(table[i])

\* What makers who look a message up by its uuid rely on.
EntriesSound == UuidsUnique /\ UndatedEntriesNamed

=============================================================================
