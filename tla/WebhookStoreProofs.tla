------------------------- MODULE WebhookStoreProofs -------------------------
(***************************************************************************)
(* Proofs about WebhookStore for any requests, deliveries and items: what  *)
(* a provider has an answer for is recorded, a batch is recorded at once,  *)
(* and a key is recorded twice only when two transactions overlapped.      *)
(***************************************************************************)
EXTENDS WebhookStore, SequenceTheorems, TLAPS

(* What a request in progress holds.  Its rows are finished, except the    *)
(* one it is about to mark; they have different keys, and a committed row  *)
(* with one of these keys came after the row's last lookup.  What the      *)
(* request has passed by is recorded or in its transaction.                *)

Finished(row) ==
    /\ row.status = "processed" /\ row.attempts = 1
    /\ row.saw <= Len(rows)
    /\ \A n \in DOMAIN rows : rows[n].key = row.key => row.saw < n

OwnFinished(own, last) == \A k \in 1..last : Finished(own[k])
OwnDistinct(own) ==
    \A k, l \in 1..Len(own) : own[k].key = own[l].key => k = l

Passed(d, k, own) ==
    \A n \in Positions(d, 1) : n < k =>
        \/ Recorded(KeyOf[d[n]])
        \/ \E m \in 1..Len(own) : own[m].key = KeyOf[d[n]]

Request == [pc  : {"lookup", "mark", "commit"},
            d   : Deliveries,
            i   : Nat,
            own : Seq(Row)]

Good(r) ==
    /\ r \in Request
    /\ OwnDistinct(r.own)
    /\ Passed(r.d, r.i, r.own)
    /\ r.pc \in {"lookup", "mark"} => r.i \in Positions(r.d, 1)
    /\ r.pc = "lookup" /\ r.i = 1 => Len(r.own) = 0
    /\ r.pc = "commit" => r.i = Len(r.d) + 1
    /\ r.pc # "mark" => OwnFinished(r.own, Len(r.own))
    /\ r.pc = "mark" => /\ Len(r.own) > 0
                        /\ r.own[Len(r.own)] = Received(r.d[r.i])
                        /\ OwnFinished(r.own, Len(r.own) - 1)

RowsFinished ==
    /\ rows \in Seq(Row)
    /\ \A n \in DOMAIN rows : /\ rows[n].status = "processed"
                              /\ rows[n].attempts = 1
                              /\ rows[n].saw < n

CallsGood == /\ call \in [Calls -> {Idle} \cup Request]
             /\ \A c \in Calls : call[c] # Idle => Good(call[c])

(* A key of everything that was answered is in the table.                  *)
KeysRecorded == \A d \in acked : \A key \in StoredKeys(d) : Recorded(key)

StoreInv ==
    /\ RowsFinished
    /\ CallsGood
    /\ acked \subseteq Deliveries
    /\ faults \in 0..MaxFaults
    /\ KeysRecorded
    /\ DuplicateRowsOnlyFromRaces

-----------------------------------------------------------------------------
(* Deliveries and what is visible.                                         *)

LEMMA DeliveryFacts ==
    ASSUME NEW d \in Deliveries
    PROVE  /\ Len(d) \in Nat
           /\ \A n \in Positions(d, 1) : /\ n \in 1..Len(d) /\ d[n] \in Events
                                         /\ KeyOf[d[n]] \in Keys
<1>1. d \in Seq(Events)
    <2>1. CASE d \in HubSpot
        BY <2>1, ConstantsOK DEF ConstantsOK
    <2>2. CASE d \in Svix
        <3>1. PICK e \in Events : d = <<e>>
            BY <2>2, ConstantsOK DEF ConstantsOK
        <3>. QED  BY <3>1
    <2>. QED  BY <2>1, <2>2 DEF Deliveries
<1>2. Len(d) \in Nat /\ \A n \in 1..Len(d) : d[n] \in Events
    BY <1>1, LenProperties, ElementOfSeq
<1>. QED  BY <1>2 DEF Positions, Keys

LEMMA SvixFacts ==
    ASSUME NEW d \in Svix
    PROVE  d \in Deliveries /\ Len(d) = 1 /\ Positions(d, 1) = {1}
<1>1. PICK e \in Events \ Malformed : d = <<e>>
    BY ConstantsOK DEF ConstantsOK
<1>2. Len(d) = 1 /\ d[1] = e
    BY <1>1
<1>. QED  BY <1>1, <1>2 DEF Deliveries, Positions

LEMMA CallFacts ==
    ASSUME CallsGood, NEW c \in Calls, call[c].pc \in {"lookup", "mark", "commit"}
    PROVE  /\ Good(call[c])
           /\ call[c].d \in Deliveries
           /\ call[c].i \in Nat
           /\ call[c].own \in Seq(Row)
           /\ call[c].pc \in {"lookup", "mark"} =>
                  /\ call[c].i \in 1..Len(call[c].d) /\ Item(c) \in Events
                  /\ Key(c) = KeyOf[Item(c)] /\ Key(c) \in Keys
<1>1. call[c] \in Request /\ Good(call[c])
    BY DEF CallsGood, Idle
<1>2. call[c].d \in Deliveries /\ call[c].i \in Nat /\ call[c].own \in Seq(Row)
    BY <1>1 DEF Request
<1>. QED  BY <1>1, <1>2, DeliveryFacts DEF Good, Key, Item

(* The rows a statement sees are the committed ones and then its own.      *)
LEMMA VisibleFacts ==
    ASSUME rows \in Seq(Row), NEW c \in Calls, call[c].own \in Seq(Row)
    PROVE  /\ Visible(c) \in Seq(Row)
           /\ Len(rows) \in Nat /\ Len(call[c].own) \in Nat
           /\ Len(Visible(c)) = Len(rows) + Len(call[c].own)
           /\ DOMAIN rows = 1..Len(rows)
           /\ DOMAIN Visible(c) = 1..(Len(rows) + Len(call[c].own))
           /\ \A n \in 1..Len(rows) : Visible(c)[n] = rows[n]
           /\ \A k \in 1..Len(call[c].own) :
                  Visible(c)[Len(rows) + k] = call[c].own[k]
<1>1. Len(rows) \in Nat /\ Len(call[c].own) \in Nat
    BY LenProperties
<1>2. /\ Visible(c) \in Seq(Row)
      /\ Len(Visible(c)) = Len(rows) + Len(call[c].own)
      /\ \A n \in 1..(Len(rows) + Len(call[c].own)) : Visible(c)[n] =
             IF n <= Len(rows) THEN rows[n] ELSE call[c].own[n - Len(rows)]
    BY ConcatProperties DEF Visible
<1>3. DOMAIN rows = 1..Len(rows) /\ DOMAIN Visible(c) = 1..Len(Visible(c))
    BY <1>2, LenProperties
<1>. QED  BY <1>1, <1>2, <1>3

LEMMA FoundFacts ==
    ASSUME rows \in Seq(Row), NEW c \in Calls, call[c].own \in Seq(Row)
    PROVE  Found(c) # {} <=> \/ Recorded(Key(c))
                             \/ \E k \in 1..Len(call[c].own) :
                                    call[c].own[k].key = Key(c)
<1>1. ASSUME NEW n \in Found(c)
      PROVE  \/ Recorded(Key(c))
             \/ \E k \in 1..Len(call[c].own) : call[c].own[k].key = Key(c)
    <2>1. n \in 1..(Len(rows) + Len(call[c].own)) /\ Visible(c)[n].key = Key(c)
        BY VisibleFacts DEF Found
    <2>2. CASE n <= Len(rows)
        BY <2>1, <2>2, VisibleFacts DEF Recorded
    <2>3. CASE n > Len(rows)
        <3>1. n - Len(rows) \in 1..Len(call[c].own)
              /\ n = Len(rows) + (n - Len(rows))
            BY <2>1, <2>3, VisibleFacts
        <3>. QED  BY <2>1, <3>1, VisibleFacts
    <2>. QED  BY <2>1, <2>2, <2>3, VisibleFacts
<1>2. ASSUME Recorded(Key(c)) PROVE Found(c) # {}
    <2>1. PICK n \in 1..Len(rows) : rows[n].key = Key(c)
        BY <1>2, VisibleFacts DEF Recorded
    <2>2. n \in DOMAIN Visible(c) /\ Visible(c)[n] = rows[n]
        BY VisibleFacts
    <2>. QED  BY <2>1, <2>2 DEF Found
<1>3. ASSUME NEW k \in 1..Len(call[c].own), call[c].own[k].key = Key(c)
      PROVE  Found(c) # {}
    <2>1. Len(rows) + k \in DOMAIN Visible(c)
        BY VisibleFacts
    <2>. QED  BY <1>3, <2>1, VisibleFacts DEF Found
<1>. QED  BY <1>1, <1>2, <1>3

-----------------------------------------------------------------------------
(* What a request holds stays good while committed rows are only added.    *)

Extended == /\ rows \in Seq(Row) /\ rows' \in Seq(Row)
            /\ Len(rows) <= Len(rows')
            /\ \A n \in 1..Len(rows) : rows'[n] = rows[n]

LEMMA FinishedStays ==
    ASSUME Extended, NEW row \in Row, Finished(row)
    PROVE  Finished(row)'
<1>1. /\ Len(rows) \in Nat /\ Len(rows') \in Nat
      /\ DOMAIN rows = 1..Len(rows) /\ DOMAIN rows' = 1..Len(rows')
    BY LenProperties DEF Extended
<1>2. row.saw \in Nat
    BY DEF Row
<1>. QED  BY <1>1, <1>2 DEF Extended, Finished

LEMMA RecordedStays ==
    ASSUME Extended, NEW key, Recorded(key)
    PROVE  Recorded(key)'
<1>1. /\ Len(rows) \in Nat /\ Len(rows') \in Nat
      /\ DOMAIN rows = 1..Len(rows) /\ DOMAIN rows' = 1..Len(rows')
    BY LenProperties DEF Extended
<1>. QED  BY <1>1 DEF Extended, Recorded

LEMMA PassedStays ==
    ASSUME Extended, NEW d, NEW k, NEW own, Passed(d, k, own)
    PROVE  Passed(d, k, own)'
BY RecordedStays DEF Passed

LEMMA GoodStays ==
    ASSUME Extended, NEW r, Good(r)
    PROVE  Good(r)'
<1>1. r.own \in Seq(Row)
    BY DEF Good, Request
<1>2. Len(r.own) \in Nat /\ \A k \in 1..Len(r.own) : r.own[k] \in Row
    BY <1>1, LenProperties, ElementOfSeq
<1>3. ASSUME NEW k \in 1..Len(r.own), Finished(r.own[k])
      PROVE  Finished(r.own[k])'
    BY <1>2, <1>3, FinishedStays
<1>4. Passed(r.d, r.i, r.own)'
    BY PassedStays DEF Good
<1>5. /\ OwnFinished(r.own, Len(r.own)) => OwnFinished(r.own, Len(r.own))'
      /\ OwnFinished(r.own, Len(r.own) - 1) => OwnFinished(r.own, Len(r.own) - 1)'
    BY <1>2, <1>3 DEF OwnFinished
<1>. QED  BY <1>4, <1>5 DEF Good

(* A step of request c that leaves it idle or good.                        *)
LEMMA CallMoves ==
    ASSUME CallsGood, Extended, NEW c \in Calls, NEW r, Set(c, r),
           r = Idle \/ (r \in Request /\ Good(r)')
    PROVE  CallsGood'
<1>1. call' \in [Calls -> {Idle} \cup Request]
    BY DEF CallsGood, Set
<1>2. ASSUME NEW b \in Calls, call'[b] # Idle
      PROVE  Good(call[b])'
    <2>1. CASE b = c
        <3>1. call'[b] = r
            BY <2>1 DEF CallsGood, Set
        <3>. QED  BY <1>2, <3>1
    <2>2. CASE b # c
        <3>1. call'[b] = call[b]
            BY <2>2 DEF CallsGood, Set
        <3>2. PICK s : s = call[b]
            OBVIOUS
        <3>3. Good(s)'
            BY <1>2, <3>1, <3>2, GoodStays DEF CallsGood
        <3>. QED  BY <3>1, <3>2, <3>3
    <2>. QED  BY <2>1, <2>2
<1>. QED  BY <1>1, <1>2 DEF CallsGood

-----------------------------------------------------------------------------
(* The loop goes on: every object before the next position was passed.     *)
LEMMA GoOnGood ==
    ASSUME CallsGood, rows \in Seq(Row), rows' = rows, NEW c \in Calls,
           NEW d \in Deliveries, NEW k \in Nat \ {0}, NEW own \in Seq(Row),
           k = 1 => Len(own) = 0,
           OwnDistinct(own), OwnFinished(own, Len(own)), Passed(d, k, own),
           GoOn(c, d, k, own)
    PROVE  CallsGood'
<1>1. Extended /\ Len(d) \in Nat
    BY LenProperties, DeliveryFacts DEF Extended
<1>2. ASSUME NEW n \in Positions(d, 1), n \notin Positions(d, k)
      PROVE  n < k /\ n \in Nat
    BY <1>1, <1>2 DEF Positions
<1>3. CASE Positions(d, k) = {} /\ Set(c, Handling("commit", d, Len(d) + 1, own))
    <2> DEFINE r == Handling("commit", d, Len(d) + 1, own)
    <2>1. /\ r \in Request /\ r.pc = "commit" /\ r.d = d /\ r.i = Len(d) + 1
          /\ r.own = own
        BY <1>1 DEF Handling, Request
    <2>2. Passed(d, Len(d) + 1, own)
        BY <1>2, <1>3 DEF Passed
    <2>. HIDE DEF r
    <2>3. Good(r)
        BY <2>1, <2>2 DEF Good
    <2>4. Good(r)'
        BY <1>1, <2>3, GoodStays
    <2>. QED  BY <1>1, <1>3, <2>1, <2>4, CallMoves DEF r
<1>4. ASSUME NEW n \in Positions(d, k),
             \A m \in Positions(d, k) : n <= m,
             Set(c, Handling("lookup", d, n, own))
      PROVE  CallsGood'
    <2> DEFINE r == Handling("lookup", d, n, own)
    <2>0. n \in Nat /\ n >= k /\ n \in Positions(d, 1)
        BY <1>1 DEF Positions
    <2>1. r \in Request /\ r.pc = "lookup" /\ r.d = d /\ r.i = n /\ r.own = own
        BY <2>0 DEF Handling, Request
    <2>2. Passed(d, n, own)
        <3>1. \A m \in Positions(d, 1) : m < n => m < k
            BY <1>1, <1>2, <1>4, <2>0 DEF Positions
        <3>. QED  BY <3>1 DEF Passed
    <2>. HIDE DEF r
    <2>3. Good(r)
        BY <2>0, <2>1, <2>2 DEF Good
    <2>4. Good(r)'
        BY <1>1, <2>3, GoodStays
    <2>. QED  BY <1>1, <1>4, <2>1, <2>4, CallMoves DEF r
<1>. QED  BY <1>3, <1>4 DEF GoOn

LEMMA DeliverGood ==
    ASSUME StoreInv, NEW c \in Calls, NEW d \in Deliveries, Deliver(c, d)
    PROVE  CallsGood'
<1>1. GoOn(c, d, 1, <<>>) /\ rows' = rows
    BY DEF Deliver
<1>0. <<>> \in Seq(Row) /\ Len(<<>>) = 0
    OBVIOUS
<1> DEFINE own == <<>>
<1>2. own \in Seq(Row) /\ Len(own) = 0 /\ own = <<>>
    BY <1>0
<1>. HIDE DEF own
<1>3. OwnDistinct(own) /\ OwnFinished(own, Len(own)) /\ Passed(d, 1, own)
    BY <1>2, DeliveryFacts DEF OwnDistinct, OwnFinished, Passed
<1>4. CallsGood /\ rows \in Seq(Row) /\ GoOn(c, d, 1, own)
    BY <1>1, <1>2 DEF StoreInv, RowsFinished
<1>5. 1 \in Nat \ {0} /\ (1 = 1 => Len(own) = 0)
    BY <1>2
<1>. QED  BY <1>1, <1>2, <1>3, <1>4, <1>5, GoOnGood

(* The record of an item is found: the item is recorded, by now or with    *)
(* the commit.                                                             *)
LEMMA DuplicateGood ==
    ASSUME StoreInv, NEW c \in Calls, Duplicate(c)
    PROVE  CallsGood' /\ KeysRecorded'
<1>1. PICK d \in Deliveries, i \in Nat, own \in Seq(Row) :
          d = call[c].d /\ i = call[c].i /\ own = call[c].own
    BY CallFacts DEF StoreInv, Duplicate
<1>2. /\ Good(call[c]) /\ call[c].pc = "lookup" /\ rows' = rows
      /\ rows \in Seq(Row) /\ CallsGood
      /\ Len(d) \in Nat
    BY CallFacts, DeliveryFacts DEF StoreInv, RowsFinished, Duplicate
<1>3. \/ Recorded(KeyOf[d[i]])
      \/ \E m \in 1..Len(own) : own[m].key = KeyOf[d[i]]
    BY <1>1, <1>2, FoundFacts DEF Duplicate, Key, Item
<1>4. CASE d \in Svix
    <2>1. acked' = acked \cup {d} /\ Set(c, Idle)
        BY <1>1, <1>4 DEF Duplicate
    <2>2. CallsGood'
        BY <1>2, <2>1, CallMoves, LenProperties DEF Extended
    <2>3. i = 1 /\ Len(own) = 0
        BY <1>1, <1>2, <1>4, SvixFacts DEF Good
    <2>4. Recorded(KeyOf[d[1]])
        BY <1>3, <2>3
    <2>5. \A key \in StoredKeys(d) : Recorded(key)
        BY <1>4, <2>4, SvixFacts DEF StoredKeys
    <2>6. KeysRecorded'
        BY <1>2, <2>1, <2>5 DEF StoreInv, KeysRecorded, Recorded
    <2>. QED  BY <2>2, <2>6
<1>5. CASE d \notin Svix
    <2>1. acked' = acked /\ GoOn(c, d, i + 1, own)
        BY <1>1, <1>5 DEF Duplicate
    <2>2. Passed(d, i, own) /\ OwnDistinct(own) /\ OwnFinished(own, Len(own))
          /\ i \in Positions(d, 1)
        BY <1>1, <1>2 DEF Good
    <2>3. Passed(d, i + 1, own)
        <3>1. \A n \in Positions(d, 1) : n < i + 1 => n < i \/ n = i
            BY <1>2 DEF Positions
        <3>. QED  BY <1>3, <2>2, <3>1 DEF Passed
    <2>4. i + 1 \in Nat \ {0} /\ i + 1 # 1
        BY <1>2, <2>2 DEF Positions
    <2>5. CallsGood'
        BY <1>2, <2>1, <2>2, <2>3, <2>4, GoOnGood
    <2>6. KeysRecorded'
        BY <1>2, <2>1 DEF StoreInv, KeysRecorded, Recorded
    <2>. QED  BY <2>5, <2>6
<1>. QED  BY <1>4, <1>5

LEMMA InsertGood ==
    ASSUME StoreInv, NEW c \in Calls, Insert(c)
    PROVE  CallsGood'
<1>1. PICK d \in Deliveries, i \in Nat, own \in Seq(Row) :
          d = call[c].d /\ i = call[c].i /\ own = call[c].own
    BY CallFacts DEF StoreInv, Insert
<1>2. PICK new : new = Received(d[i])
    OBVIOUS
<1>3. /\ Good(call[c]) /\ call[c].pc = "lookup" /\ rows' = rows
      /\ rows \in Seq(Row) /\ CallsGood
      /\ d[i] \in Events /\ KeyOf[d[i]] \in Keys
      /\ Set(c, Handling("mark", d, i, Append(own, new)))
    BY <1>1, <1>2, CallFacts DEF StoreInv, RowsFinished, Insert, Key, Item
<1>4. \A m \in 1..Len(own) : own[m].key # KeyOf[d[i]]
    BY <1>1, <1>3, FoundFacts DEF Insert, Key, Item
<1>5. new \in Row /\ new.key = KeyOf[d[i]]
    BY <1>2, <1>3 DEF Received, Row
<1> DEFINE more == Append(own, new)
           r    == Handling("mark", d, i, more)
<1>6. /\ more \in Seq(Row) /\ Len(more) = Len(own) + 1 /\ Len(own) \in Nat
      /\ \A m \in 1..Len(own) : more[m] = own[m]
      /\ more[Len(own) + 1] = new
    BY <1>5, AppendProperties, LenProperties
<1>. HIDE DEF more
<1>7. r \in Request /\ r.pc = "mark" /\ r.d = d /\ r.i = i /\ r.own = more
    BY <1>6 DEF Handling, Request
<1>. HIDE DEF r
<1>8. /\ OwnDistinct(own) /\ OwnFinished(own, Len(own)) /\ Passed(d, i, own)
      /\ i \in Positions(d, 1)
    BY <1>1, <1>3 DEF Good
<1>9. OwnDistinct(more)
    BY <1>4, <1>5, <1>6, <1>8 DEF OwnDistinct
<1>10. OwnFinished(more, Len(more) - 1)
    BY <1>6, <1>8 DEF OwnFinished
<1>11. Passed(d, i, more)
    BY <1>6, <1>8 DEF Passed
<1>12. Good(r)
    BY <1>2, <1>6, <1>7, <1>8, <1>9, <1>10, <1>11 DEF Good
<1>13. Extended
    BY <1>3, LenProperties DEF Extended
<1>14. Good(r)'
    BY <1>12, <1>13, GoodStays
<1>. QED  BY <1>3, <1>7, <1>13, <1>14, CallMoves DEF r, more

(* mark_processed saw no other row with the key, so whatever row has it    *)
(* comes after this lookup.                                                *)
LEMMA MarkGood ==
    ASSUME StoreInv, NEW c \in Calls, MarkProcessed(c)
    PROVE  CallsGood'
<1>1. PICK d \in Deliveries, i \in Nat, own \in Seq(Row) :
          d = call[c].d /\ i = call[c].i /\ own = call[c].own
    BY CallFacts DEF StoreInv, MarkProcessed
<1>2. /\ Good(call[c]) /\ call[c].pc = "mark" /\ rows' = rows
      /\ rows \in Seq(Row) /\ CallsGood
      /\ d[i] \in Events /\ KeyOf[d[i]] \in Keys
      /\ ~Several(c) /\ Key(c) = KeyOf[d[i]]
      /\ GoOn(c, d, i + 1, [own EXCEPT ![Len(own)] = Processed(@, Len(rows))])
    BY <1>1, CallFacts DEF StoreInv, RowsFinished, MarkProcessed, Key, Item
<1>3. PICK l \in Nat : l = Len(own)
    BY LenProperties
<1>4. /\ l > 0 /\ own[l] = Received(d[i])
      /\ OwnDistinct(own) /\ OwnFinished(own, l - 1) /\ Passed(d, i, own)
      /\ i \in Positions(d, 1)
    BY <1>1, <1>2, <1>3 DEF Good
<1>5. PICK new : new = Processed(own[l], Len(rows))
    OBVIOUS
<1>6. /\ new \in Row /\ new.key = KeyOf[d[i]] /\ new.status = "processed"
      /\ new.attempts = 1 /\ new.saw = Len(rows) /\ Len(rows) \in Nat
    BY <1>2, <1>4, <1>5, LenProperties DEF Received, Processed, Row
<1>7. \A n \in DOMAIN rows : rows[n].key # KeyOf[d[i]]
    <2> SUFFICES ASSUME NEW n \in DOMAIN rows, rows[n].key = KeyOf[d[i]]
                 PROVE  FALSE
        OBVIOUS
    <2>0. /\ Len(rows) \in Nat
          /\ DOMAIN rows = 1..Len(rows)
          /\ DOMAIN Visible(c) = 1..(Len(rows) + l)
          /\ \A m \in 1..Len(rows) : Visible(c)[m] = rows[m]
          /\ \A k \in 1..l : Visible(c)[Len(rows) + k] = own[k]
        <3>1. call[c].own \in Seq(Row)
            BY <1>1
        <3>. QED  BY <1>1, <1>2, <1>3, <3>1, VisibleFacts
    <2>1. n \in Found(c)
        BY <1>2, <2>0 DEF Found
    <2>2. Len(rows) + l \in Found(c)
        <3>0. l \in 1..l /\ Len(rows) + l \in 1..(Len(rows) + l)
            BY <1>3, <1>4, <2>0
        <3>1. Len(rows) + l \in DOMAIN Visible(c)
              /\ Visible(c)[Len(rows) + l] = own[l]
            BY <3>0, <2>0
        <3>. QED  BY <1>2, <1>4, <3>1 DEF Found, Received
    <2>3. n # Len(rows) + l
        BY <1>4, <2>0
    <2>. QED  BY <1>2, <2>1, <2>2, <2>3 DEF Several
<1>8. Finished(new)
    BY <1>6, <1>7 DEF Finished
<1> DEFINE done == [own EXCEPT ![l] = new]
<1>9. /\ done \in Seq(Row) /\ Len(done) = l
      /\ \A m \in 1..l : done[m] = IF m = l THEN new ELSE own[m]
    BY <1>3, <1>4, <1>6, ExceptSeq
<1>10. GoOn(c, d, i + 1, done)
    BY <1>2, <1>3, <1>5
<1>. HIDE DEF done
<1>11. own[l].key = new.key
    BY <1>4, <1>6 DEF Received
<1>12. OwnDistinct(done)
    BY <1>3, <1>4, <1>9, <1>11 DEF OwnDistinct
<1>13. OwnFinished(done, Len(done))
    BY <1>4, <1>8, <1>9 DEF OwnFinished
<1>14. Passed(d, i + 1, done)
    <2>1. \A n \in Positions(d, 1) : n < i + 1 => n < i \/ n = i
        BY DeliveryFacts DEF Positions
    <2>2. \A m \in 1..l : done[m].key = own[m].key
        BY <1>9, <1>11
    <2>3. done[l].key = KeyOf[d[i]] /\ l \in 1..l
        BY <1>4, <1>6, <1>9
    <2>. QED  BY <1>3, <1>4, <1>9, <2>1, <2>2, <2>3 DEF Passed
<1>15. i + 1 \in Nat \ {0} /\ i + 1 # 1
    BY <1>4, DeliveryFacts DEF Positions
<1>. QED  BY <1>2, <1>9, <1>10, <1>12, <1>13, <1>14, <1>15, GoOnGood

-----------------------------------------------------------------------------
(* A request commits: its rows are finished, of different keys, and its    *)
(* loop has passed every object of the delivery.                           *)
LEMMA CommitGood ==
    ASSUME StoreInv, NEW c \in Calls, call[c].pc = "commit",
           rows' = rows \o call[c].own, Set(c, Idle)
    PROVE  /\ Extended /\ RowsFinished' /\ CallsGood'
           /\ DuplicateRowsOnlyFromRaces'
           /\ \A key \in StoredKeys(call[c].d) : Recorded(key)'
<1>1. PICK d \in Deliveries, own \in Seq(Row) :
          d = call[c].d /\ own = call[c].own
    BY CallFacts DEF StoreInv
<1>2. /\ OwnDistinct(own) /\ OwnFinished(own, Len(own))
      /\ Passed(d, Len(d) + 1, own)
    BY <1>1, CallFacts DEF StoreInv, Good
<1>3. rows \in Seq(Row) /\ RowsFinished /\ CallsGood
      /\ DuplicateRowsOnlyFromRaces
    BY DEF StoreInv, RowsFinished
<1>4. PICK L \in Nat, M \in Nat : L = Len(rows) /\ M = Len(own)
    BY <1>3, LenProperties
<1>5. /\ rows' \in Seq(Row) /\ Len(rows') = L + M
      /\ DOMAIN rows = 1..L /\ DOMAIN rows' = 1..(L + M)
    BY <1>1, <1>3, <1>4, ConcatProperties, LenProperties
<1>6. \A n \in 1..L : rows'[n] = rows[n]
    BY <1>1, <1>3, <1>4, ConcatProperties
<1>7. \A n \in 1..(L + M) : n > L => rows'[n] = own[n - L] /\ n - L \in 1..M
    BY <1>1, <1>3, <1>4, ConcatProperties
<1>8. \A k \in 1..M : /\ L + k \in 1..(L + M) /\ L + k > L
                      /\ rows'[L + k] = own[k]
    <2>. TAKE k \in 1..M
    <2>1. L + k \in 1..(L + M) /\ L + k > L /\ (L + k) - L = k
        BY <1>4
    <2>. QED  BY <2>1, <1>7
<1>9. Extended
    BY <1>3, <1>4, <1>5, <1>6 DEF Extended
<1>10. CallsGood'
    BY <1>3, <1>9, CallMoves
<1>11. \A k \in 1..M : /\ own[k] \in Row
                       /\ own[k].status = "processed" /\ own[k].attempts = 1
                       /\ own[k].saw <= L
                       /\ \A n \in 1..L : rows[n].key = own[k].key => own[k].saw < n
    BY <1>2, <1>4, <1>5, ElementOfSeq DEF OwnFinished, Finished
<1>12. RowsFinished'
    <2>1. ASSUME NEW n \in 1..(L + M)
          PROVE  /\ rows'[n].status = "processed"
                 /\ rows'[n].attempts = 1
                 /\ rows'[n].saw < n
        <3>1. CASE n <= L
            <4>1. n \in 1..L
                BY <1>4, <3>1
            <4>. QED  BY <1>3, <1>5, <1>6, <4>1 DEF RowsFinished
        <3>2. CASE n > L
            <4>1. PICK k \in 1..M : rows'[n] = own[k]
                BY <1>7, <3>2
            <4>2. own[k].saw \in Nat /\ own[k].saw <= L
                BY <1>11 DEF Row
            <4>3. own[k].saw < n
                BY <1>4, <3>2, <4>2
            <4>. QED  BY <1>11, <4>1, <4>3
        <3>3. n <= L \/ n > L
            BY <1>4
        <3>. QED  BY <3>1, <3>2, <3>3
    <2>. QED  BY <1>5, <2>1 DEF RowsFinished
<1>13. DuplicateRowsOnlyFromRaces'
    <2>1. ASSUME NEW n \in 1..(L + M), NEW m \in 1..(L + M),
                 n < m, rows'[n].key = rows'[m].key
          PROVE  rows'[m].saw < n
        <3>1. CASE m <= L
            <4>1. n \in 1..L /\ m \in 1..L
                BY <1>4, <2>1, <3>1
            <4>. QED  BY <1>3, <1>5, <1>6, <2>1, <4>1
                      DEF DuplicateRowsOnlyFromRaces
        <3>2. CASE m > L /\ n <= L
            <4>1. n \in 1..L
                BY <1>4, <3>2
            <4>2. PICK k \in 1..M : rows'[m] = own[k]
                BY <1>7, <3>2
            <4>3. rows[n].key = own[k].key
                BY <1>6, <2>1, <4>1, <4>2
            <4>. QED  BY <1>11, <4>1, <4>2, <4>3
        <3>3. CASE n > L
            <4>1. m > L
                BY <1>4, <2>1, <3>3
            <4>2. own[n - L].key = own[m - L].key
                BY <1>7, <2>1, <3>3, <4>1
            <4>3. n - L \in 1..Len(own) /\ m - L \in 1..Len(own)
                BY <1>4, <1>7, <3>3, <4>1
            <4>4. n - L = m - L
                BY <1>2, <4>2, <4>3 DEF OwnDistinct
            <4>. QED  BY <1>4, <2>1, <4>4
        <3>4. m <= L \/ (m > L /\ n <= L) \/ n > L
            BY <1>4
        <3>. QED  BY <3>1, <3>2, <3>3, <3>4
    <2>. QED  BY <1>5, <2>1 DEF DuplicateRowsOnlyFromRaces
<1>14. \A key \in StoredKeys(d) : Recorded(key)'
    <2>1. ASSUME NEW n \in Positions(d, 1)
          PROVE  Recorded(KeyOf[d[n]])'
        <3>0. PICK key : key = KeyOf[d[n]]
            OBVIOUS
        <3>1. n < Len(d) + 1
            BY DeliveryFacts
        <3>2. CASE Recorded(key)
            BY <1>9, <3>0, <3>2, RecordedStays
        <3>3. CASE \E m \in 1..Len(own) : own[m].key = key
            <4>1. PICK m \in 1..M : own[m].key = key
                BY <1>4, <3>3
            <4>2. L + m \in DOMAIN rows' /\ rows'[L + m].key = key
                BY <1>5, <1>8, <4>1
            <4>. QED  BY <3>0, <4>2 DEF Recorded
        <3>. QED  BY <1>2, <3>0, <3>1, <3>2, <3>3 DEF Passed
    <2>2. \A key \in StoredKeys(d) : \E n \in Positions(d, 1) : key = KeyOf[d[n]]
        BY DEF StoredKeys
    <2>. QED  BY <2>1, <2>2
<1>. QED  BY <1>1, <1>9, <1>10, <1>12, <1>13, <1>14

(* The record of an answered delivery stays, whatever else is committed.   *)
LEMMA AnsweredStays ==
    ASSUME Extended, KeysRecorded, acked' = acked
    PROVE  KeysRecorded'
BY RecordedStays DEF KeysRecorded

LEMMA Unchanged ==
    ASSUME StoreInv, UNCHANGED rows
    PROVE  /\ Extended /\ RowsFinished' /\ DuplicateRowsOnlyFromRaces'
           /\ acked' = acked => KeysRecorded'
<1>1. Extended /\ RowsFinished'
    BY LenProperties DEF Extended, StoreInv, RowsFinished
<1>2. DuplicateRowsOnlyFromRaces'
    BY DEF StoreInv, DuplicateRowsOnlyFromRaces
<1>3. acked' = acked => KeysRecorded'
    BY <1>1, AnsweredStays DEF StoreInv
<1>. QED  BY <1>1, <1>2, <1>3

-----------------------------------------------------------------------------
LEMMA StoreInit == Init => StoreInv
<1>. SUFFICES ASSUME Init PROVE StoreInv
    OBVIOUS
<1>1. RowsFinished
    <2>1. rows \in Seq(Row) /\ DOMAIN rows = {}
        BY DEF Init
    <2>. QED  BY <2>1 DEF RowsFinished
<1>2. DuplicateRowsOnlyFromRaces
    BY DEF Init, DuplicateRowsOnlyFromRaces
<1>3. CallsGood
    BY DEF Init, CallsGood
<1>. QED  BY <1>1, <1>2, <1>3, ConstantsOK
          DEF Init, StoreInv, ConstantsOK, KeysRecorded

LEMMA StoreStep == StoreInv /\ [Next]_vars => StoreInv'
<1>. SUFFICES ASSUME StoreInv, [Next]_vars PROVE StoreInv'
    OBVIOUS
<1>0. faults \in 0..MaxFaults /\ MaxFaults \in Nat /\ acked \subseteq Deliveries
    BY ConstantsOK DEF StoreInv, ConstantsOK
<1>1. CASE UNCHANGED vars
    <2>1. CallsGood'
        <3>1. Extended /\ call' = call
            BY <1>1, Unchanged DEF vars
        <3>2. ASSUME NEW c \in Calls, call[c] # Idle
              PROVE  Good(call[c])'
            <4>1. PICK r : r = call[c]
                OBVIOUS
            <4>2. Good(r)'
                BY <3>1, <3>2, <4>1, GoodStays DEF StoreInv, CallsGood
            <4>. QED  BY <3>1, <4>1, <4>2
        <3>. QED  BY <3>1, <3>2 DEF StoreInv, CallsGood
    <2>. QED  BY <1>0, <1>1, <2>1, Unchanged DEF StoreInv, vars
<1>2. ASSUME NEW c \in Calls, NEW d \in Deliveries, Deliver(c, d)
      PROVE  StoreInv'
    <2>1. UNCHANGED <<rows, acked, faults>>
        BY <1>2 DEF Deliver
    <2>. QED  BY <1>0, <1>2, <2>1, DeliverGood, Unchanged DEF StoreInv
<1>3. ASSUME NEW c \in Calls, Duplicate(c)
      PROVE  StoreInv'
    <2>1. UNCHANGED <<rows, faults>> /\ acked' \subseteq acked \cup {call[c].d}
          /\ call[c].d \in Deliveries
        BY <1>3, CallFacts DEF Duplicate, StoreInv
    <2>. QED  BY <1>0, <1>3, <2>1, DuplicateGood, Unchanged DEF StoreInv
<1>4. ASSUME NEW c \in Calls, Insert(c)
      PROVE  StoreInv'
    <2>1. UNCHANGED <<rows, acked, faults>>
        BY <1>4 DEF Insert
    <2>. QED  BY <1>0, <1>4, <2>1, InsertGood, Unchanged DEF StoreInv
<1>5. ASSUME NEW c \in Calls, MarkProcessed(c)
      PROVE  StoreInv'
    <2>1. UNCHANGED <<rows, acked, faults>>
        BY <1>5 DEF MarkProcessed
    <2>. QED  BY <1>0, <1>5, <2>1, MarkGood, Unchanged DEF StoreInv
<1>6. ASSUME NEW c \in Calls, InsertRefused(c) \/ FindsSeveral(c) \/ Die(c)
      PROVE  StoreInv'
    <2>1. /\ UNCHANGED <<rows, acked>> /\ Set(c, Idle)
          /\ faults' \in 0..MaxFaults
        BY <1>0, <1>6 DEF InsertRefused, FindsSeveral, Die
    <2>2. CallsGood'
        BY <2>1, CallMoves, Unchanged DEF StoreInv
    <2>. QED  BY <1>0, <2>1, <2>2, Unchanged DEF StoreInv
<1>7. ASSUME NEW c \in Calls, Commit(c)
      PROVE  StoreInv'
    <2>1. /\ call[c].pc = "commit" /\ rows' = rows \o call[c].own
          /\ Set(c, Idle) /\ acked' = acked \cup {call[c].d}
          /\ faults' = faults /\ call[c].d \in Deliveries
        BY <1>7, CallFacts DEF Commit, StoreInv
    <2>2. KeysRecorded'
        <3>1. ASSUME NEW d \in acked, NEW key \in StoredKeys(d)
              PROVE  Recorded(key)'
            BY <2>1, <3>1, CommitGood, RecordedStays
               DEF StoreInv, KeysRecorded
        <3>. QED  BY <2>1, <3>1, CommitGood DEF KeysRecorded
    <2>. QED  BY <1>0, <2>1, <2>2, CommitGood DEF StoreInv
<1>8. ASSUME NEW c \in Calls, AnswerLost(c)
      PROVE  StoreInv'
    <2>1. /\ call[c].pc = "commit" /\ rows' = rows \o call[c].own
          /\ Set(c, Idle) /\ acked' = acked
          /\ faults' \in 0..MaxFaults
        BY <1>0, <1>8 DEF AnswerLost
    <2>. QED  BY <1>0, <2>1, CommitGood, AnsweredStays DEF StoreInv
<1>. QED  BY <1>1, <1>2, <1>3, <1>4, <1>5, <1>6, <1>7, <1>8 DEF Next, Proceed

THEOREM StoreInvariant == Spec => []StoreInv
<1>. QED  BY StoreInit, StoreStep, PTL DEF Spec

-----------------------------------------------------------------------------
(* Every state is well typed; every committed record of webhook_events was *)
(* processed exactly once, after a lookup that could not yet see it.       *)
THEOREM TypeCorrect == Spec => []TypeOK
<1>1. StoreInv => TypeOK
    <2>. SUFFICES ASSUME StoreInv PROVE TypeOK
        OBVIOUS
    <2>1. ASSUME NEW n \in DOMAIN rows
          PROVE  /\ rows[n] \in Row /\ rows[n].status = "processed"
                 /\ rows[n].attempts = 1 /\ rows[n].saw < n
        <3>1. n \in 1..Len(rows) /\ Len(rows) \in Nat /\ rows[n] \in Row
            BY LenProperties, ElementOfSeq DEF StoreInv, RowsFinished
        <3>. QED  BY <3>1 DEF StoreInv, RowsFinished, Row
    <2>2. ASSUME NEW c \in Calls, call[c] # Idle
          PROVE  /\ call[c].pc \in {"lookup", "mark", "commit"}
                 /\ call[c].d \in Deliveries
                 /\ call[c].own \in Seq(Row)
        BY <2>2 DEF StoreInv, CallsGood, Request
    <2>. QED  BY <2>1, <2>2 DEF StoreInv, TypeOK
<1>. QED  BY <1>1, StoreInvariant, PTL

(* What a provider has a 200 for is in webhook_events: every item that has *)
(* an id was committed itself, by its own request or by an earlier one     *)
(* whose record its lookup found, since no other item has its key; of an   *)
(* item without an id the table has the key.                               *)
THEOREM AnswersAreRecorded == Spec => []AnsweredIsRecorded
<1>1. StoreInv => AnsweredIsRecorded
    <2>. SUFFICES ASSUME StoreInv, NEW d \in acked, NEW n \in Positions(d, 1)
                  PROVE  /\ Recorded(KeyOf[d[n]])
                         /\ d[n] \notin WithoutId => Stored(d[n])
        BY DEF AnsweredIsRecorded
    <2>1. d[n] \in Events
        BY DeliveryFacts DEF StoreInv
    <2>2. PICK m \in DOMAIN rows : rows[m].key = KeyOf[d[n]]
        BY DEF StoreInv, KeysRecorded, StoredKeys, Recorded
    <2>3. rows[m].item \in Events /\ KeyOf[rows[m].item] = KeyOf[d[n]]
        <3>1. rows[m] \in Row
            BY ElementOfSeq, LenProperties DEF StoreInv, RowsFinished
        <3>. QED  BY <2>2, <3>1 DEF Row
    <2>4. d[n] \notin WithoutId => rows[m].item = d[n]
        BY <2>1, <2>3, ConstantsOK DEF ConstantsOK
    <2>. QED  BY <2>2, <2>4 DEF Recorded, Stored
<1>. QED  BY <1>1, StoreInvariant, PTL

(* One key has two records only when the second was last looked up before  *)
(* the first was committed: a retry of what was committed adds nothing.    *)
THEOREM DuplicatesAreRaces == Spec => []DuplicateRowsOnlyFromRaces
<1>1. StoreInv => DuplicateRowsOnlyFromRaces
    BY DEF StoreInv
<1>. QED  BY <1>1, StoreInvariant, PTL

(* The step that adds records adds one for every object of the delivery    *)
(* its request handles that had none: a batch is stored as a whole.        *)
THEOREM BatchesAreAtomic == Spec => BatchAtomic
<1>1. ASSUME StoreInv, Next, NEW c \in Calls, call[c] # call'[c], rows' # rows
      PROVE  \A key \in StoredKeys(call[c].d) : Recorded(key)'
    <2>1. PICK b \in Calls : Commit(b) \/ AnswerLost(b)
        BY <1>1 DEF Next, Proceed, Deliver, Duplicate, Insert, MarkProcessed,
                    InsertRefused, FindsSeveral, Die
    <2>2. Set(b, Idle) /\ call[b].pc = "commit" /\ rows' = rows \o call[b].own
        BY <2>1 DEF Commit, AnswerLost
    <2>3. c = b
        BY <1>1, <2>2 DEF Set, StoreInv, CallsGood
    <2>. QED  BY <1>1, <2>2, <2>3, CommitGood
<1>2. StoreInv /\ [Next]_vars =>
      [\A c \in Calls :
           call[c] # call'[c] /\ rows' # rows =>
               \A key \in StoredKeys(call[c].d) : Recorded(key)']_vars
    BY <1>1
<1>. QED  BY <1>2, StoreInvariant, PTL DEF Spec, BatchAtomic
=============================================================================
