---------------------------- MODULE ShoppingProofs ----------------------------
(* Proofs about carts, sign-ins and checkouts, for any number of tabs, plans,  *)
(* sessions, carts, pages and prices.                                          *)
EXTENDS Shopping, TLAPS

-----------------------------------------------------------------------------
(* The inductive invariant *)

\* Carts and session keys are numbered in the order they are made.
Numbered ==
  \A c \in CartIds : /\ c > carts => owner[c] = None
                     /\ owner[c] \in Keys => owner[c] <= keys

\* Who signs in has no guest cart in the session, and edits a guest's cart only
\* before.
Sessions ==
  /\ \A k \in Keys : stored[k].user => stored[k].cart = None
  /\ \A t \in Tabs : data[t].user => data[t].cart = None
  /\ \A t \in Tabs : at[t] = "edit" => ~data[t].user

\* Only guest carts wait for the purge.
OldAreGuests == \A c \in old : IsGuest(c)

\* The session of a guest cart names it.
SessionNamesCart ==
  \A c \in CartIds : IsGuest(c) /\ c \notin old \cup cut =>
    /\ owner[c] \in live
    /\ ~stored[owner[c]].user
    /\ stored[owner[c]].cart = c

\* Every session is within the browser's reach or adrift.
Held == \A k \in live : k \in adrift \/ InReach(k)

CartsInv ==
  /\ CartsTypeOK /\ Numbered /\ Sessions /\ OneCartEach
  /\ SessionNamesCart /\ Held /\ OldAreGuests

\* Every variable of the checkout keeps its type.
PageRecords ==
  [state : {"none", "reading", "open"}, lines : [Plans -> Nat], price : Prices \cup {None}]
OrderRecords ==
  [state : {"none", "unpaid", "settled"}, lines : [Plans -> Nat], price : Prices \cup {None}]
CheckoutTypeOK ==
  /\ price \in Prices
  /\ page \in [Pages -> PageRecords]
  /\ order \in [Pages -> OrderRecords]
  /\ stale \subseteq Pages /\ late \subseteq Pages /\ denied \subseteq Pages

\* A page whose digest still matches shows the cart as it is.
FreshPagesMatch ==
  \A g \in Pages : page[g].state = "open" /\ g \notin stale => page[g].lines = Lines

\* Only a page that was read to its end is ordered from.
OrdersHavePages == \A g \in Pages : Placed(g) => page[g].state = "open"

-----------------------------------------------------------------------------
(* Carts *)

\* Sessions with a row, and a new one.
LEMMA LiveAreKeys ==
  ASSUME CartsTypeOK
  PROVE  live \subseteq Keys
<1>1. keys \in 0..MaxKeys /\ live \subseteq 1..keys
  BY DEF CartsTypeOK
<1>2. QED
  BY <1>1, BoundsAreNat DEF Keys

LEMMA KeyMade ==
  ASSUME CartsTypeOK, NEW k \in Keys, NewKey(k), live' \subseteq live \cup {k}
  PROVE  keys' \in 0..MaxKeys /\ live' \subseteq 1..keys'
<1>1. keys \in 0..MaxKeys /\ live \subseteq 1..keys
  BY DEF CartsTypeOK
<1>2. keys' = keys + 1 /\ k = keys + 1 /\ keys < MaxKeys
  BY DEF NewKey
<1>3. keys' \in 0..MaxKeys /\ k \in 1..keys' /\ 1..keys \subseteq 1..keys'
  BY <1>1, <1>2, BoundsAreNat
<1>4. QED
  BY <1>1, <1>3

\* A quantity set within the plan's limit.
LEMMA QuantityTyped ==
  ASSUME CartsTypeOK, NEW c \in CartIds, NEW p \in Plans, NEW m \in 0..Limit[p],
         quantity' = [quantity EXCEPT ![c][p] = m]
  PROVE  /\ quantity' \in [CartIds -> [Plans -> Nat]]
         /\ \A d \in CartIds, q \in Plans : quantity'[d][q] <= Limit[q]
<1>1. quantity \in [CartIds -> [Plans -> Nat]] /\ m \in Nat /\ m <= Limit[p]
      /\ \A d \in CartIds, q \in Plans : quantity[d][q] <= Limit[q]
  BY DEF CartsTypeOK
<1>2. quantity' \in [CartIds -> [Plans -> Nat]]
  BY <1>1
<1>3. \A d \in CartIds, q \in Plans :
        quantity'[d][q] = IF d = c /\ q = p THEN m ELSE quantity[d][q]
  BY <1>1
<1>4. QED
  BY <1>1, <1>2, <1>3

\* What a guest's edit leaves in its session and its tab.
LEMMA TouchTyped ==
  ASSUME CartsTypeOK, NEW t \in Tabs, NEW k \in Keys, NEW c \in CartIds, Touch(t, k, c)
  PROVE  /\ stored' \in [Keys -> Data] /\ old' \subseteq CartIds
         /\ at' \in [Tabs -> Places] /\ key' \in [Tabs -> Keys \cup {None}]
         /\ data' \in [Tabs -> Data]
<1>1. [data[t] EXCEPT !.cart = c] \in Data
  BY DEF CartsTypeOK, Data
<1>2. data' = [data EXCEPT ![t] = [data[t] EXCEPT !.cart = c]]
  BY DEF Touch
<1>3. QED
  BY <1>1, <1>2 DEF CartsTypeOK, Touch, Places

LEMMA CartFound ==
  ASSUME CartsTypeOK, NEW who \in Keys \cup {Account}, NEW c \in CartIds, GetOrCreate(who, c)
  PROVE  carts' \in 0..MaxCarts /\ owner' \in [CartIds -> Keys \cup {Account, None}]
<1>1. carts \in 0..MaxCarts /\ owner \in [CartIds -> Keys \cup {Account, None}]
  BY DEF CartsTypeOK
<1>2. carts' \in 0..MaxCarts
  BY <1>1, BoundsAreNat DEF GetOrCreate
<1>3. QED
  BY <1>1, <1>2 DEF GetOrCreate

\* A merge empties or hands over the one cart and stays within the limits.
LEMMA MergeTyped ==
  ASSUME CartsTypeOK, NEW g \in CartIds \cup {None}, Merge(g)
  PROVE  /\ carts' \in 0..MaxCarts
         /\ owner' \in [CartIds -> Keys \cup {Account, None}]
         /\ quantity' \in [CartIds -> [Plans -> Nat]]
         /\ \A d \in CartIds, q \in Plans : quantity'[d][q] <= Limit[q]
         /\ old' \subseteq CartIds
<1> USE DEF CartsTypeOK
<1>1. \A c \in CartIds : g = c =>
        [p \in Plans |-> Least(quantity[c][p], Limit[p])] \in [Plans -> Nat]
  BY DEF Least
<1>2. \A a \in CartIds, c \in CartIds :
        /\ [p \in Plans |-> MergedQuantity(quantity[a][p], quantity[c][p], p)] \in [Plans -> Nat]
        /\ \A p \in Plans : MergedQuantity(quantity[a][p], quantity[c][p], p) <= Limit[p]
  BY LimitsArePositive DEF Least, MergedQuantity
<1>3. \A m \in Nat, p \in Plans : Least(m, Limit[p]) <= Limit[p]
  BY LimitsArePositive DEF Least
<1>4. CASE UNCHANGED cartVars
  BY <1>4 DEF cartVars
<1>5. CASE /\ g \in CartIds /\ CartsOf(Account) = {} /\ old' = old \ {g} /\ UNCHANGED carts
           /\ owner' = [owner EXCEPT ![g] = Account]
           /\ quantity' = [quantity EXCEPT ![g] = [p \in Plans |-> Least(quantity[g][p], Limit[p])]]
  BY <1>1, <1>3, <1>5
<1>6. CASE /\ g \in CartIds /\ old' = old \ {g} /\ UNCHANGED carts
           /\ \E a \in CartsOf(Account) :
                /\ owner' = [owner EXCEPT ![g] = None]
                /\ quantity' = [quantity EXCEPT
                     ![g] = NoItems,
                     ![a] = [p \in Plans |-> MergedQuantity(quantity[a][p], quantity[g][p], p)]]
  <2>1. PICK a \in CartIds :
          quantity' = [quantity EXCEPT
            ![g] = NoItems,
            ![a] = [p \in Plans |-> MergedQuantity(quantity[a][p], quantity[g][p], p)]]
    BY <1>6 DEF CartsOf
  <2>2. quantity' \in [CartIds -> [Plans -> Nat]]
    BY <1>2, <1>6, <2>1 DEF NoItems
  <2>3. \A d \in CartIds, q \in Plans : quantity'[d][q] <= Limit[q]
    <3>1. \A d \in CartIds, q \in Plans :
            quantity'[d][q] \in {0, quantity[d][q], MergedQuantity(quantity[a][q], quantity[g][q], q)}
      BY <1>6, <2>1 DEF NoItems
    <3>2. \A q \in Plans :
            /\ 0 <= Limit[q]
            /\ MergedQuantity(quantity[a][q], quantity[g][q], q) <= Limit[q]
      BY <1>2, <1>6, LimitsArePositive
    <3>3. QED
      BY <3>1, <3>2
  <2>4. QED
    BY <1>6, <2>2, <2>3
<1>7. QED
  BY <1>4, <1>5, <1>6 DEF Merge

\* An answer received or lost, of a session that has its key.
LEMMA Answers ==
  ASSUME CartsTypeOK, NEW k \in Keys, Received(k) \/ Lost(k)
  PROVE  /\ cookie' \in Keys \cup {None} /\ adrift' \subseteq Keys
         /\ k \in adrift' \/ cookie' = k
         /\ \A i \in Keys : i \in adrift \/ cookie = i => i \in adrift' \/ cookie' = i
<1>1. None \notin Keys /\ cookie \in Keys \cup {None} /\ adrift \subseteq Keys
  BY NamesDiffer DEF CartsTypeOK, Keys
<1>2. CASE Received(k)
  BY <1>1, <1>2 DEF Received
<1>3. CASE Lost(k)
  BY <1>1, <1>3 DEF Lost
<1>4. QED
  BY <1>2, <1>3

LEMMA CartsTypeStep ==
  ASSUME CartsInv, [CartsNext]_cartsVars
  PROVE  CartsTypeOK'
<1> USE DEF CartsInv, sessionVars, cartVars, tabVars
<1>1. ASSUME NEW t \in Tabs, \E kind \in {"edit", "code", "login"} : Load(t, kind) PROVE CartsTypeOK'
  <2>1. Empty \in Data /\ stored \in [Keys -> Data] /\ cookie \in Keys \cup {None}
    BY DEF CartsTypeOK, Data, Empty
  <2>2. PICK k \in Keys \cup {None}, d \in Data :
          key' = [key EXCEPT ![t] = k] /\ data' = [data EXCEPT ![t] = d]
    <3>1. CASE cookie \in live
      BY <1>1, <2>1, <3>1, LiveAreKeys DEF Load
    <3>2. CASE cookie \notin live
      BY <1>1, <2>1, <3>2 DEF Load
    <3>3. QED
      BY <3>1, <3>2
  <2>3. key' \in [Tabs -> Keys \cup {None}] /\ data' \in [Tabs -> Data] /\ at' \in [Tabs -> Places]
    BY <1>1, <2>1, <2>2 DEF Load, CartsTypeOK, Places
  <2>4. QED
    BY <1>1, <2>3 DEF Load, CartsTypeOK
<1>2. ASSUME NEW t \in Tabs, Refuse(t) PROVE CartsTypeOK'
  BY <1>2 DEF CartsTypeOK, Data, Empty, Places, Refuse, Finish
<1>3. ASSUME NEW t \in Tabs, NEW p \in Plans, NEW n \in 1..Limit[p], AddToCart(t, p, n)
      PROVE  CartsTypeOK'
  <2>1. PICK k \in Keys, c \in CartIds :
          /\ LockedSession(t, k) /\ GetOrCreate(k, c) /\ Touch(t, k, c)
          /\ quantity[c][p] + n <= Limit[p]
          /\ quantity' = [quantity EXCEPT ![c][p] = @ + n]
          /\ UNCHANGED <<cookie, adrift, cut>>
    BY <1>3 DEF AddToCart
  <2>2. keys' \in 0..MaxKeys /\ live' \subseteq 1..keys'
    <3>1. CASE NewKey(k) /\ live' = live \cup {k}
      BY <3>1, KeyMade
    <3>2. CASE UNCHANGED <<keys, live>>
      BY <3>2 DEF CartsTypeOK
    <3>3. QED
      BY <2>1, <3>1, <3>2 DEF LockedSession
  <2>3. quantity[c][p] + n \in 0..Limit[p]
    BY <2>1 DEF CartsTypeOK
  <2>4. quantity' = [quantity EXCEPT ![c][p] = quantity[c][p] + n]
    BY <2>1
  <2>5. /\ quantity' \in [CartIds -> [Plans -> Nat]]
        /\ \A d \in CartIds, q \in Plans : quantity'[d][q] <= Limit[q]
    BY <2>3, <2>4, QuantityTyped
  <2>6. QED
    BY <2>1, <2>2, <2>5, TouchTyped, CartFound DEF CartsTypeOK
<1>4. ASSUME NEW t \in Tabs, NEW p \in Plans, NEW n \in 0..Limit[p], SetQuantity(t, p, n)
      PROVE  CartsTypeOK'
  <2>1. PICK c \in CartIds :
          /\ key[t] # None /\ LockedSession(t, key[t]) /\ Touch(t, key[t], c)
          /\ quantity' = [quantity EXCEPT ![c][p] = n]
          /\ UNCHANGED <<cookie, adrift, cut, carts, owner>>
    BY <1>4 DEF SetQuantity
  <2>2. key[t] \in Keys /\ UNCHANGED <<keys, live>>
    BY <2>1 DEF LockedSession, CartsTypeOK
  <2>3. /\ quantity' \in [CartIds -> [Plans -> Nat]]
        /\ \A d \in CartIds, q \in Plans : quantity'[d][q] <= Limit[q]
    BY <2>1, QuantityTyped
  <2>4. QED
    BY <2>1, <2>2, <2>3, TouchTyped DEF CartsTypeOK
<1>5. ASSUME NEW t \in Tabs, WrongPassword(t) PROVE CartsTypeOK'
  BY <1>5 DEF CartsTypeOK, Data, Empty, Places, WrongPassword, Reloaded
<1>6. ASSUME NEW t \in Tabs, Respond(t) PROVE CartsTypeOK'
  <2>1. at' \in [Tabs -> Places] /\ key' \in [Tabs -> Keys \cup {None}] /\ data' \in [Tabs -> Data]
    BY <1>6 DEF Respond, Finish, CartsTypeOK, Places, Data, Empty
  <2>2. UNCHANGED cartVars
    BY <1>6 DEF Respond
  <2>3. ASSUME NEW k \in Keys, Save(t, k)
        PROVE  /\ stored' \in [Keys -> Data] /\ cut' \subseteq CartIds
               /\ cookie' \in Keys \cup {None} /\ adrift' \subseteq Keys
    BY <2>3, Answers DEF Save, CartsTypeOK, CartsOf
  <2>4. CASE \E k \in Keys : NewKey(k) /\ live' = live \cup {k} /\ Save(t, k)
    <3>1. keys' \in 0..MaxKeys /\ live' \subseteq 1..keys'
      BY <2>4, KeyMade
    <3>2. QED
      BY <2>1, <2>2, <2>3, <2>4, <3>1 DEF CartsTypeOK
  <2>5. CASE key[t] \in live /\ Save(t, key[t]) /\ UNCHANGED <<keys, live>>
    <3>1. key[t] \in Keys
      BY <2>5, LiveAreKeys
    <3>2. QED
      BY <2>1, <2>2, <2>3, <2>5, <3>1 DEF CartsTypeOK
  <2>6. CASE UNCHANGED <<sessionVars, cut>>
    BY <2>1, <2>2, <2>6 DEF CartsTypeOK
  <2>7. QED
    BY <1>6, <2>4, <2>5, <2>6 DEF Respond
<1>7. ASSUME NEW t \in Tabs, Die(t) PROVE CartsTypeOK'
  BY <1>7 DEF CartsTypeOK, Data, Empty, Places, Die, Finish, Lost
<1>8. ASSUME NEW t \in Tabs, Login(t) PROVE CartsTypeOK'
  <2>1. Reloaded(t) \in Data /\ Reloaded(t).cart \in CartIds \cup {None}
    BY LiveAreKeys DEF Reloaded, CartsTypeOK, Data, Empty
  <2>2. Empty \in Data /\ [user |-> TRUE, cart |-> None] \in Data
    BY DEF Data, Empty
  <2>3. PICK k \in Keys :
          /\ NewKey(k)
          /\ live' = (live \ {key[t]}) \cup {k}
          /\ stored' = [i \in Keys |-> IF i = k THEN Reloaded(t)
                                       ELSE IF i = key[t] THEN Empty ELSE stored[i]]
          /\ key' = [key EXCEPT ![t] = k]
    BY <1>8 DEF Login
  <2>4. keys' \in 0..MaxKeys /\ live' \subseteq 1..keys'
    BY <2>3, KeyMade
  <2>5. stored' \in [Keys -> Data] /\ key' \in [Tabs -> Keys \cup {None}]
    BY <2>1, <2>2, <2>3 DEF CartsTypeOK
  <2>6. Merge(Reloaded(t).cart) /\ at' \in [Tabs -> Places] /\ data' \in [Tabs -> Data]
        /\ UNCHANGED <<cookie, adrift, cut>>
    BY <1>8, <2>2 DEF Login, CartsTypeOK, Places
  <2>7. QED
    BY <2>1, <2>4, <2>5, <2>6, MergeTyped DEF CartsTypeOK
<1>9. ASSUME NEW p \in Plans, NEW n \in 1..Limit[p], AccountAdd(p, n) PROVE CartsTypeOK'
  <2>1. PICK c \in CartIds :
          /\ GetOrCreate(Account, c) /\ quantity[c][p] + n <= Limit[p]
          /\ quantity' = [quantity EXCEPT ![c][p] = @ + n]
          /\ UNCHANGED <<old, sessionVars, cut, tabVars>>
    BY <1>9 DEF AccountAdd
  <2>2. quantity[c][p] + n \in 0..Limit[p]
    BY <2>1 DEF CartsTypeOK
  <2>3. quantity' = [quantity EXCEPT ![c][p] = quantity[c][p] + n]
    BY <2>1
  <2>4. /\ quantity' \in [CartIds -> [Plans -> Nat]]
        /\ \A d \in CartIds, q \in Plans : quantity'[d][q] <= Limit[q]
    BY <2>2, <2>3, QuantityTyped
  <2>5. QED
    BY <2>1, <2>4, CartFound DEF CartsTypeOK
<1>10. ASSUME NEW p \in Plans, NEW n \in 0..Limit[p], AccountSet(p, n) PROVE CartsTypeOK'
  <2>1. PICK c \in CartIds : quantity' = [quantity EXCEPT ![c][p] = n]
    BY <1>10 DEF AccountSet, CartsOf
  <2>2. /\ quantity' \in [CartIds -> [Plans -> Nat]]
        /\ \A d \in CartIds, q \in Plans : quantity'[d][q] <= Limit[q]
    BY <2>1, QuantityTyped
  <2>3. QED
    BY <1>10, <2>2 DEF AccountSet, CartsTypeOK
<1>11. CASE Logout
  BY <1>11 DEF CartsTypeOK, Data, Empty, Logout
<1>12. CASE Month
  BY <1>12 DEF CartsTypeOK, Data, Empty, Month
<1>13. CASE PurgeGuestCarts
  BY <1>13, LimitsArePositive DEF CartsTypeOK, NoItems, PurgeGuestCarts
<1>14. CASE UNCHANGED cartsVars
  BY <1>14 DEF CartsTypeOK, cartsVars
<1>15. QED
  BY <1>1, <1>2, <1>3, <1>4, <1>5, <1>6, <1>7, <1>8, <1>9, <1>10, <1>11, <1>12, <1>13,
     <1>14 DEF CartsNext, Browse, AccountEdit

\* A merge leaves the merged cart with the account or with no one, and the other
\* guests' carts alone.
LEMMA MergedCart ==
  ASSUME CartsTypeOK, NEW g, Merge(g)
  PROVE  /\ \A c \in CartIds : IsGuest(c)' =>
           c # g /\ owner'[c] = owner[c] /\ (c \in old => c \in old')
         /\ \A c \in CartIds :
              \/ owner'[c] = owner[c]
              \/ c = g /\ owner[c] \in Keys /\ owner'[c] \in {None, Account}
<1>1. CASE UNCHANGED cartVars /\ (g = None \/ g \notin {c \in CartIds : IsGuest(c)})
  <2>1. \A c \in CartIds : IsGuest(c)' => c # g
    BY <1>1, NamesDiffer DEF cartVars, CartIds, IsGuest
  <2>2. QED
    BY <1>1, <2>1 DEF cartVars
<1>2. CASE g \in CartIds /\ IsGuest(g) /\ old' = old \ {g}
           /\ (owner' = [owner EXCEPT ![g] = Account] \/ owner' = [owner EXCEPT ![g] = None])
  <2>1. owner'[g] \in {None, Account} /\ \A c \in CartIds : c # g => owner'[c] = owner[c]
    BY <1>2 DEF CartsTypeOK
  <2>2. ~IsGuest(g)'
    BY <2>1, NamesDiffer DEF IsGuest, Keys
  <2>3. \A c \in CartIds : IsGuest(c)' =>
           c # g /\ owner'[c] = owner[c] /\ (c \in old => c \in old')
    BY <1>2, <2>1, <2>2 DEF IsGuest
  <2>4. owner[g] \in Keys
    BY <1>2 DEF IsGuest
  <2>5. QED
    BY <2>1, <2>3, <2>4
<1>3. QED
  BY <1>1, <1>2 DEF Merge

LEMMA NewKeyOwnsNothing ==
  ASSUME CartsTypeOK, Numbered, NEW k \in Keys, NewKey(k)
  PROVE  \A c \in CartIds : owner[c] # k
<1>1. keys \in Nat /\ k = keys + 1
  BY DEF CartsTypeOK, NewKey
<1>2. \A c \in CartIds : owner[c] \in Keys => owner[c] <= keys
  BY DEF Numbered
<1>3. QED
  BY <1>1, <1>2

LEMMA NumberedStep ==
  ASSUME CartsInv, [CartsNext]_cartsVars
  PROVE  Numbered'
<1> USE DEF CartsInv, sessionVars, cartVars, tabVars
<1>1. ASSUME NEW t \in Tabs, \E kind \in {"edit", "code", "login"} : Load(t, kind) PROVE Numbered'
  BY <1>1 DEF Numbered, Load
<1>2. ASSUME NEW t \in Tabs, Refuse(t) PROVE Numbered'
  BY <1>2 DEF Numbered, Refuse
<1>3. ASSUME NEW t \in Tabs, NEW p \in Plans, NEW n \in 1..Limit[p], AddToCart(t, p, n)
      PROVE  Numbered'
  BY <1>3 DEF CartsTypeOK, Keys, CartIds, Numbered, AddToCart, LockedSession, NewKey,
     GetOrCreate, Touch
<1>4. ASSUME NEW t \in Tabs, NEW p \in Plans, NEW n \in 0..Limit[p], SetQuantity(t, p, n)
      PROVE  Numbered'
  BY <1>4 DEF Numbered, SetQuantity, LockedSession
<1>5. ASSUME NEW t \in Tabs, WrongPassword(t) PROVE Numbered'
  BY <1>5 DEF Numbered, WrongPassword
<1>6. ASSUME NEW t \in Tabs, Respond(t) PROVE Numbered'
  BY <1>6 DEF CartsTypeOK, Keys, Numbered, Respond, NewKey
<1>7. ASSUME NEW t \in Tabs, Die(t) PROVE Numbered'
  BY <1>7 DEF Numbered, Die
<1>8. ASSUME NEW t \in Tabs, Login(t) PROVE Numbered'
  <2>1. keys \in Nat /\ keys' = keys + 1 /\ carts' = carts
    BY <1>8 DEF Login, NewKey, Merge, CartsTypeOK
  <2>2. \A c \in CartIds : owner'[c] \in {owner[c], None, Account} /\ (owner[c] = None => owner'[c] = None)
    BY <1>8, MergedCart, NamesDiffer DEF Login, Keys
  <2>3. QED
    BY <2>1, <2>2, NamesDiffer DEF Numbered, Keys
<1>9. ASSUME NEW p \in Plans, NEW n \in 1..Limit[p], AccountAdd(p, n) PROVE Numbered'
  BY <1>9, NamesDiffer DEF CartsTypeOK, Keys, CartIds, Numbered, AccountAdd, GetOrCreate
<1>10. ASSUME NEW p \in Plans, NEW n \in 0..Limit[p], AccountSet(p, n) PROVE Numbered'
  BY <1>10 DEF Numbered, AccountSet
<1>11. CASE Logout
  BY <1>11 DEF Numbered, Logout
<1>12. CASE Month
  BY <1>12 DEF Numbered, Month
<1>13. CASE PurgeGuestCarts
  BY <1>13, NamesDiffer DEF Keys, Numbered, PurgeGuestCarts
<1>14. CASE UNCHANGED cartsVars
  BY <1>14 DEF Numbered, cartsVars
<1>15. QED
  BY <1>1, <1>2, <1>3, <1>4, <1>5, <1>6, <1>7, <1>8, <1>9, <1>10, <1>11, <1>12, <1>13,
     <1>14 DEF CartsNext, Browse, AccountEdit

LEMMA SessionsStep ==
  ASSUME CartsInv, [CartsNext]_cartsVars
  PROVE  Sessions'
<1> USE DEF CartsInv, sessionVars, cartVars, tabVars
<1>1. ASSUME NEW t \in Tabs, \E kind \in {"edit", "code", "login"} : Load(t, kind) PROVE Sessions'
  <2>1. stored' = stored /\ at' = [at EXCEPT ![t] = at'[t]] /\ data' = [data EXCEPT ![t] = data'[t]]
    BY <1>1 DEF Load
  <2>2. ~data'[t].user
    <3>1. CASE cookie \in live
      BY <1>1, <3>1 DEF Load, CartsTypeOK
    <3>2. CASE cookie \notin live
      BY <1>1, <3>2 DEF Load, CartsTypeOK, Empty
    <3>3. QED
      BY <3>1, <3>2
  <2>3. QED
    BY <2>1, <2>2 DEF Sessions, CartsTypeOK
<1>2. ASSUME NEW t \in Tabs, Refuse(t) PROVE Sessions'
  BY <1>2 DEF Sessions, Empty, Refuse, Finish
<1>3. ASSUME NEW t \in Tabs, NEW p \in Plans, NEW n \in 1..Limit[p], AddToCart(t, p, n)
      PROVE  Sessions'
  BY <1>3 DEF Sessions, AddToCart, Touch
<1>4. ASSUME NEW t \in Tabs, NEW p \in Plans, NEW n \in 0..Limit[p], SetQuantity(t, p, n)
      PROVE  Sessions'
  BY <1>4 DEF Sessions, SetQuantity, Touch
<1>5. ASSUME NEW t \in Tabs, WrongPassword(t) PROVE Sessions'
  BY <1>5 DEF CartsTypeOK, Sessions, Empty, WrongPassword, Reloaded
<1>6. ASSUME NEW t \in Tabs, Respond(t) PROVE Sessions'
  BY <1>6 DEF CartsTypeOK, Sessions, Empty, Respond, Finish, Save
<1>7. ASSUME NEW t \in Tabs, Die(t) PROVE Sessions'
  BY <1>7 DEF Sessions, Empty, Die, Finish
<1>8. ASSUME NEW t \in Tabs, Login(t) PROVE Sessions'
  <2>1. Reloaded(t).user => Reloaded(t).cart = None
    BY LiveAreKeys DEF Reloaded, Sessions, Empty
  <2>2. \A i \in Keys : stored'[i] \in {Reloaded(t), Empty, stored[i]}
    BY <1>8 DEF Login
  <2>3. data' = [data EXCEPT ![t] = [user |-> TRUE, cart |-> None]] /\ at' = [at EXCEPT ![t] = "respond"]
    BY <1>8 DEF Login
  <2>4. \A i \in Keys : stored'[i].user => stored'[i].cart = None
    BY <2>1, <2>2 DEF Sessions, Empty
  <2>5. QED
    BY <2>3, <2>4 DEF Sessions, CartsTypeOK
<1>9. ASSUME NEW p \in Plans, NEW n \in 1..Limit[p], AccountAdd(p, n) PROVE Sessions'
  BY <1>9 DEF Sessions, AccountAdd
<1>10. ASSUME NEW p \in Plans, NEW n \in 0..Limit[p], AccountSet(p, n) PROVE Sessions'
  BY <1>10 DEF Sessions, AccountSet
<1>11. CASE Logout
  BY <1>11 DEF Sessions, Empty, Logout
<1>12. CASE Month
  BY <1>12 DEF Sessions, Empty, Month
<1>13. CASE PurgeGuestCarts
  BY <1>13 DEF Sessions, PurgeGuestCarts
<1>14. CASE UNCHANGED cartsVars
  BY <1>14 DEF Sessions, cartsVars
<1>15. QED
  BY <1>1, <1>2, <1>3, <1>4, <1>5, <1>6, <1>7, <1>8, <1>9, <1>10, <1>11, <1>12, <1>13,
     <1>14 DEF CartsNext, Browse, AccountEdit

LEMMA OneCartStep ==
  ASSUME CartsInv, [CartsNext]_cartsVars
  PROVE  OneCartEach'
<1> USE DEF CartsInv, sessionVars, cartVars, tabVars
<1>1. ASSUME NEW t \in Tabs, \E kind \in {"edit", "code", "login"} : Load(t, kind) PROVE OneCartEach'
  BY <1>1 DEF OneCartEach, Load
<1>2. ASSUME NEW t \in Tabs, Refuse(t) PROVE OneCartEach'
  BY <1>2 DEF OneCartEach, Refuse
<1>3. ASSUME NEW t \in Tabs, NEW p \in Plans, NEW n \in 1..Limit[p], AddToCart(t, p, n)
      PROVE  OneCartEach'
  BY <1>3 DEF OneCartEach, CartsOf, AddToCart, GetOrCreate
<1>4. ASSUME NEW t \in Tabs, NEW p \in Plans, NEW n \in 0..Limit[p], SetQuantity(t, p, n)
      PROVE  OneCartEach'
  BY <1>4 DEF OneCartEach, SetQuantity
<1>5. ASSUME NEW t \in Tabs, WrongPassword(t) PROVE OneCartEach'
  BY <1>5 DEF OneCartEach, WrongPassword
<1>6. ASSUME NEW t \in Tabs, Respond(t) PROVE OneCartEach'
  BY <1>6 DEF OneCartEach, Respond
<1>7. ASSUME NEW t \in Tabs, Die(t) PROVE OneCartEach'
  BY <1>7 DEF OneCartEach, Die
<1>8. ASSUME NEW t \in Tabs, Login(t) PROVE OneCartEach'
  <2>1. PICK g \in CartIds \cup {None} : Merge(g)
    BY <1>8, LiveAreKeys DEF Login, Reloaded, CartsTypeOK, Data, Empty
  <2>2. CASE UNCHANGED owner
    BY <2>2 DEF OneCartEach
  <2>3. CASE CartsOf(Account) = {} /\ owner' = [owner EXCEPT ![g] = Account] /\ g \in CartIds
    BY <2>3 DEF OneCartEach, CartsOf
  <2>4. CASE owner' = [owner EXCEPT ![g] = None] /\ g \in CartIds
    BY <2>4 DEF OneCartEach
  <2>5. QED
    BY <2>1, <2>2, <2>3, <2>4 DEF Merge
<1>9. ASSUME NEW p \in Plans, NEW n \in 1..Limit[p], AccountAdd(p, n) PROVE OneCartEach'
  BY <1>9 DEF OneCartEach, CartsOf, AccountAdd, GetOrCreate
<1>10. ASSUME NEW p \in Plans, NEW n \in 0..Limit[p], AccountSet(p, n) PROVE OneCartEach'
  BY <1>10 DEF OneCartEach, AccountSet
<1>11. CASE Logout
  BY <1>11 DEF OneCartEach, Logout
<1>12. CASE Month
  BY <1>12 DEF OneCartEach, Month
<1>13. CASE PurgeGuestCarts
  BY <1>13 DEF OneCartEach, PurgeGuestCarts
<1>14. CASE UNCHANGED cartsVars
  BY <1>14 DEF OneCartEach, cartsVars
<1>15. QED
  BY <1>1, <1>2, <1>3, <1>4, <1>5, <1>6, <1>7, <1>8, <1>9, <1>10, <1>11, <1>12, <1>13,
     <1>14 DEF CartsNext, Browse, AccountEdit

LEMMA NamedStep ==
  ASSUME CartsInv, [CartsNext]_cartsVars
  PROVE  SessionNamesCart'
<1> USE DEF CartsInv, sessionVars, cartVars, tabVars
<1>1. ASSUME NEW t \in Tabs, \E kind \in {"edit", "code", "login"} : Load(t, kind) PROVE SessionNamesCart'
  BY <1>1 DEF SessionNamesCart, IsGuest, Load
<1>2. ASSUME NEW t \in Tabs, Refuse(t) PROVE SessionNamesCart'
  BY <1>2 DEF SessionNamesCart, IsGuest, Refuse
<1>3. ASSUME NEW t \in Tabs, NEW p \in Plans, NEW n \in 1..Limit[p], AddToCart(t, p, n)
      PROVE  SessionNamesCart'
  BY <1>3, NamesDiffer DEF CartsTypeOK, Sessions, OneCartEach, SessionNamesCart, CartsOf,
     IsGuest, AddToCart, LockedSession, GetOrCreate, Touch
<1>4. ASSUME NEW t \in Tabs, NEW p \in Plans, NEW n \in 0..Limit[p], SetQuantity(t, p, n)
      PROVE  SessionNamesCart'
  BY <1>4 DEF CartsTypeOK, Sessions, OneCartEach, SessionNamesCart, IsGuest, SetQuantity,
     LockedSession, Touch
<1>5. ASSUME NEW t \in Tabs, WrongPassword(t) PROVE SessionNamesCart'
  BY <1>5 DEF SessionNamesCart, IsGuest, WrongPassword
<1>6. ASSUME NEW t \in Tabs, Respond(t) PROVE SessionNamesCart'
  <2>1. UNCHANGED cartVars
    BY <1>6 DEF Respond
  <2>2. CASE \E k \in Keys : NewKey(k) /\ live' = live \cup {k} /\ Save(t, k)
    <3>1. PICK k \in Keys : NewKey(k) /\ live' = live \cup {k} /\ Save(t, k)
      BY <2>2
    <3>2. \A c \in CartIds : owner[c] # k
      BY <3>1, NewKeyOwnsNothing
    <3>3. \A i \in Keys : i # k => stored'[i] = stored[i]
      BY <3>1 DEF Save
    <3>4. cut \subseteq cut'
      BY <3>1 DEF Save
    <3>5. QED
      BY <2>1, <3>1, <3>2, <3>3, <3>4 DEF SessionNamesCart, IsGuest
  <2>3. CASE key[t] \in live /\ Save(t, key[t]) /\ UNCHANGED <<keys, live>>
    <3> DEFINE k == key[t]
    <3>1. k \in Keys
      BY <2>3, LiveAreKeys
    <3>2. \A i \in Keys : i # k => stored'[i] = stored[i]
      BY <2>3 DEF Save
    <3>3. stored'[k] = data[t] /\ cut' = cut \cup {c \in CartsOf(k) : data[t].cart # c}
      BY <2>3, <3>1 DEF Save, CartsTypeOK
    <3>4. \A c \in CartIds : owner[c] = k /\ c \notin cut' => data[t].cart = c /\ ~data[t].user
      BY <3>3, NamesDiffer DEF CartsOf, Sessions, CartIds
    <3>5. QED
      BY <2>1, <2>3, <3>1, <3>2, <3>3, <3>4 DEF SessionNamesCart, IsGuest
  <2>4. CASE UNCHANGED <<sessionVars, cut>>
    BY <2>1, <2>4 DEF SessionNamesCart, IsGuest
  <2>5. QED
    BY <1>6, <2>2, <2>3, <2>4 DEF Respond
<1>7. ASSUME NEW t \in Tabs, Die(t) PROVE SessionNamesCart'
  BY <1>7 DEF SessionNamesCart, IsGuest, Die
<1>8. ASSUME NEW t \in Tabs, Login(t) PROVE SessionNamesCart'
  <2> DEFINE g == Reloaded(t).cart
  <2>1. PICK k \in Keys :
          /\ NewKey(k)
          /\ live' = (live \ {key[t]}) \cup {k}
          /\ stored' = [i \in Keys |-> IF i = k THEN Reloaded(t)
                                       ELSE IF i = key[t] THEN Empty ELSE stored[i]]
    BY <1>8 DEF Login
  <2>2. Merge(g) /\ cut' = cut
    BY <1>8 DEF Login
  <2>3. \A c \in CartIds : owner[c] # k
    BY <2>1, NewKeyOwnsNothing
  <2>4. \A c \in CartIds : IsGuest(c)' => c # g /\ owner'[c] = owner[c] /\ (c \in old => c \in old')
    BY <2>2, MergedCart
  <2>5. ASSUME NEW c \in CartIds, IsGuest(c)', c \notin old' \cup cut'
        PROVE  owner[c] # key[t]
    <3>1. SUFFICES ASSUME owner[c] = key[t] PROVE FALSE
      OBVIOUS
    <3>2. owner[c] \in live /\ stored[owner[c]].cart = c
      BY <2>2, <2>4, <2>5 DEF SessionNamesCart, IsGuest
    <3>3. g = c
      BY <3>1, <3>2 DEF Reloaded
    <3>4. QED
      BY <2>4, <2>5, <3>3
  <2>6. ASSUME NEW c \in CartIds, IsGuest(c)', c \notin old' \cup cut'
        PROVE  owner'[c] \in live' /\ ~stored'[owner'[c]].user /\ stored'[owner'[c]].cart = c
    <3>1. owner[c] \in live /\ ~stored[owner[c]].user /\ stored[owner[c]].cart = c
      BY <2>2, <2>4, <2>6 DEF SessionNamesCart, IsGuest
    <3>2. owner[c] # key[t] /\ owner[c] # k /\ owner'[c] = owner[c] /\ owner[c] \in Keys
      BY <2>3, <2>4, <2>5, <2>6 DEF IsGuest
    <3>3. QED
      BY <2>1, <3>1, <3>2
  <2>7. QED
    BY <2>6 DEF SessionNamesCart
<1>9. ASSUME NEW p \in Plans, NEW n \in 1..Limit[p], AccountAdd(p, n) PROVE SessionNamesCart'
  BY <1>9, NamesDiffer DEF Keys, SessionNamesCart, IsGuest, AccountAdd, GetOrCreate
<1>10. ASSUME NEW p \in Plans, NEW n \in 0..Limit[p], AccountSet(p, n) PROVE SessionNamesCart'
  BY <1>10 DEF SessionNamesCart, IsGuest, AccountSet
<1>11. CASE Logout
  BY <1>11 DEF SessionNamesCart, IsGuest, Logout
<1>12. CASE Month
  BY <1>12 DEF SessionNamesCart, IsGuest, Month
<1>13. CASE PurgeGuestCarts
  BY <1>13, NamesDiffer DEF Keys, SessionNamesCart, IsGuest, PurgeGuestCarts
<1>14. CASE UNCHANGED cartsVars
  BY <1>14 DEF SessionNamesCart, IsGuest, cartsVars
<1>15. QED
  BY <1>1, <1>2, <1>3, <1>4, <1>5, <1>6, <1>7, <1>8, <1>9, <1>10, <1>11, <1>12, <1>13,
     <1>14 DEF CartsNext, Browse, AccountEdit

\* A step that keeps the browser's cookie and the other tabs, makes at most the
\* session its own tab brings the cookie of, and ends no tab's answer.
LEMMA StillHeld ==
  ASSUME CartsTypeOK, Held, NEW t \in Tabs, UNCHANGED <<cookie, adrift>>, at[t] # "respond",
         \A u \in Tabs \ {t} : at'[u] = at[u] /\ key'[u] = key[u],
         \A k \in live' : k \in live \/ (at'[t] = "respond" /\ key'[t] = k)
  PROVE  Held'
BY DEF Held, InReach

LEMMA HeldStep ==
  ASSUME CartsInv, [CartsNext]_cartsVars
  PROVE  Held'
<1> USE DEF CartsInv, sessionVars, cartVars, tabVars
<1>1. ASSUME NEW t \in Tabs, \E kind \in {"edit", "code", "login"} : Load(t, kind) PROVE Held'
  <2>1. at[t] = "idle" /\ UNCHANGED <<cookie, adrift, live>>
    BY <1>1 DEF Load
  <2>2. \A u \in Tabs \ {t} : at'[u] = at[u] /\ key'[u] = key[u]
    BY <1>1 DEF Load, CartsTypeOK
  <2>3. QED
    BY <2>1, <2>2, StillHeld
<1>2. ASSUME NEW t \in Tabs, Refuse(t) PROVE Held'
  BY <1>2, StillHeld DEF Refuse, Finish, CartsTypeOK
<1>3. ASSUME NEW t \in Tabs, NEW p \in Plans, NEW n \in 1..Limit[p], AddToCart(t, p, n)
      PROVE  Held'
  <2>1. PICK k \in Keys, c \in CartIds : LockedSession(t, k) /\ Touch(t, k, c)
    BY <1>3 DEF AddToCart
  <2>2. \A i \in live' : i \in live \/ (at'[t] = "respond" /\ key'[t] = i)
    BY <2>1 DEF LockedSession, Touch, CartsTypeOK
  <2>3. \A u \in Tabs \ {t} : at'[u] = at[u] /\ key'[u] = key[u]
    BY <2>1 DEF Touch, CartsTypeOK
  <2>4. QED
    BY <1>3, <2>2, <2>3, StillHeld DEF AddToCart
<1>4. ASSUME NEW t \in Tabs, NEW p \in Plans, NEW n \in 0..Limit[p], SetQuantity(t, p, n)
      PROVE  Held'
  <2>1. PICK c \in CartIds : Touch(t, key[t], c)
    BY <1>4 DEF SetQuantity
  <2>2. \A u \in Tabs \ {t} : at'[u] = at[u] /\ key'[u] = key[u]
    BY <2>1 DEF Touch, CartsTypeOK
  <2>3. live' = live /\ UNCHANGED <<cookie, adrift>> /\ at[t] = "edit"
    BY <1>4 DEF SetQuantity, LockedSession
  <2>4. QED
    BY <2>2, <2>3, StillHeld
<1>5. ASSUME NEW t \in Tabs, WrongPassword(t) PROVE Held'
  BY <1>5, StillHeld DEF WrongPassword, CartsTypeOK
<1>6. ASSUME NEW t \in Tabs, Respond(t) PROVE Held'
  <2>1. \A u \in Tabs \ {t} : at'[u] = at[u] /\ key'[u] = key[u]
    BY <1>6 DEF Respond, Finish, CartsTypeOK
  <2>2. CASE \E k \in Keys : NewKey(k) /\ live' = live \cup {k} /\ Save(t, k) /\ key[t] = None
    <3>1. PICK k \in Keys : live' = live \cup {k} /\ Save(t, k) /\ key[t] = None
      BY <2>2
    <3>2. None \notin Keys /\ live \subseteq Keys
      BY NamesDiffer, LiveAreKeys DEF Keys
    <3>3. QED
      BY <2>1, <3>1, <3>2, Answers DEF Save, Held, InReach
  <2>3. CASE key[t] \in live /\ Save(t, key[t]) /\ UNCHANGED <<keys, live>>
    <3>1. key[t] \in Keys /\ live \subseteq Keys
      BY <2>3, LiveAreKeys
    <3>2. QED
      BY <2>1, <2>3, <3>1, Answers DEF Save, Held, InReach
  <2>4. CASE key[t] \notin live /\ UNCHANGED sessionVars
    BY <2>1, <2>4 DEF Held, InReach
  <2>5. QED
    BY <1>6, <2>2, <2>3, <2>4 DEF Respond
<1>7. ASSUME NEW t \in Tabs, Die(t) PROVE Held'
  <2>1. /\ Lost(key[t]) /\ live' = live
        /\ \A u \in Tabs \ {t} : at'[u] = at[u] /\ key'[u] = key[u]
    BY <1>7 DEF Die, Finish, CartsTypeOK
  <2>2. live \subseteq Keys /\ None \notin Keys
    BY NamesDiffer, LiveAreKeys DEF Keys
  <2>3. QED
    BY <2>1, <2>2 DEF Lost, Held, InReach
<1>8. ASSUME NEW t \in Tabs, Login(t) PROVE Held'
  <2>1. PICK k \in Keys : live' = (live \ {key[t]}) \cup {k} /\ key' = [key EXCEPT ![t] = k]
    BY <1>8 DEF Login
  <2>2. at' = [at EXCEPT ![t] = "respond"] /\ at[t] = "login" /\ UNCHANGED <<cookie, adrift>>
    BY <1>8 DEF Login
  <2>3. QED
    BY <2>1, <2>2, StillHeld DEF CartsTypeOK
<1>9. CASE live' \subseteq live /\ UNCHANGED <<cookie, adrift, at, key>>
  BY <1>9 DEF Held, InReach
<1>10. CASE Logout
  BY <1>10 DEF Logout, Held, InReach
<1>11. QED
  <2>1. CASE AccountEdit \/ Month \/ PurgeGuestCarts \/ UNCHANGED cartsVars
    BY <1>9, <2>1 DEF AccountEdit, AccountAdd, AccountSet, Month, PurgeGuestCarts, cartsVars
  <2>2. QED
    BY <1>1, <1>2, <1>3, <1>4, <1>5, <1>6, <1>7, <1>8, <1>10, <2>1 DEF CartsNext, Browse

LEMMA OldStep ==
  ASSUME CartsInv, [CartsNext]_cartsVars
  PROVE  OldAreGuests'
<1> USE DEF CartsInv, sessionVars, cartVars, tabVars
<1>1. ASSUME NEW t \in Tabs, \E kind \in {"edit", "code", "login"} : Load(t, kind) PROVE OldAreGuests'
  BY <1>1 DEF OldAreGuests, IsGuest, Load
<1>2. ASSUME NEW t \in Tabs, Refuse(t) PROVE OldAreGuests'
  BY <1>2 DEF OldAreGuests, IsGuest, Refuse
<1>3. ASSUME NEW t \in Tabs, NEW p \in Plans, NEW n \in 1..Limit[p], AddToCart(t, p, n)
      PROVE  OldAreGuests'
  BY <1>3 DEF OldAreGuests, IsGuest, AddToCart, GetOrCreate, Touch
<1>4. ASSUME NEW t \in Tabs, NEW p \in Plans, NEW n \in 0..Limit[p], SetQuantity(t, p, n)
      PROVE  OldAreGuests'
  BY <1>4 DEF OldAreGuests, IsGuest, SetQuantity, Touch
<1>5. ASSUME NEW t \in Tabs, WrongPassword(t) PROVE OldAreGuests'
  BY <1>5 DEF OldAreGuests, IsGuest, WrongPassword
<1>6. ASSUME NEW t \in Tabs, Respond(t) PROVE OldAreGuests'
  BY <1>6 DEF OldAreGuests, IsGuest, Respond
<1>7. ASSUME NEW t \in Tabs, Die(t) PROVE OldAreGuests'
  BY <1>7 DEF OldAreGuests, IsGuest, Die
<1>8. ASSUME NEW t \in Tabs, Login(t) PROVE OldAreGuests'
  <2>1. Merge(Reloaded(t).cart)
    BY <1>8 DEF Login
  <2>2. \A c \in old' : c \in old /\ IsGuest(c)
    BY <2>1 DEF Merge, OldAreGuests
  <2>3. ASSUME NEW c \in old' PROVE c # Reloaded(t).cart
    <3>1. c \in old /\ IsGuest(c)
      BY <2>2
    <3>2. c \in CartIds
      BY <3>1 DEF CartsTypeOK
    <3>3. c # None
      BY <3>2, NamesDiffer DEF CartIds
    <3>4. QED
      BY <2>1, <3>1, <3>2, <3>3 DEF Merge
  <2>4. \A c \in CartIds : c # Reloaded(t).cart => owner'[c] = owner[c]
    BY <2>1, MergedCart
  <2>5. QED
    BY <2>2, <2>3, <2>4 DEF OldAreGuests, IsGuest, CartsTypeOK
<1>9. ASSUME NEW p \in Plans, NEW n \in 1..Limit[p], AccountAdd(p, n) PROVE OldAreGuests'
  <2>1. PICK c \in CartIds : GetOrCreate(Account, c)
    BY <1>9 DEF AccountAdd
  <2>2. owner' = [owner EXCEPT ![c] = Account] /\ old' = old
    <3>1. owner' = [owner EXCEPT ![c] = Account]
      BY <2>1 DEF GetOrCreate
    <3>2. old' = old
      BY <1>9 DEF AccountAdd
    <3>3. QED
      BY <3>1, <3>2
  <2>3. owner[c] \in {Account, None}
    BY <2>1 DEF GetOrCreate, Numbered, CartsTypeOK
  <2>4. ~IsGuest(c)
    BY <2>3, NamesDiffer DEF IsGuest, Keys
  <2>5. QED
    BY <2>2, <2>4 DEF OldAreGuests, IsGuest
<1>10. ASSUME NEW p \in Plans, NEW n \in 0..Limit[p], AccountSet(p, n) PROVE OldAreGuests'
  BY <1>10 DEF OldAreGuests, IsGuest, AccountSet
<1>11. CASE Logout
  BY <1>11 DEF OldAreGuests, IsGuest, Logout
<1>12. CASE Month
  BY <1>12 DEF OldAreGuests, IsGuest, Month
<1>13. CASE PurgeGuestCarts
  BY <1>13 DEF OldAreGuests, PurgeGuestCarts
<1>14. CASE UNCHANGED cartsVars
  BY <1>14 DEF OldAreGuests, IsGuest, cartsVars
<1>15. QED
  BY <1>1, <1>2, <1>3, <1>4, <1>5, <1>6, <1>7, <1>8, <1>9, <1>10, <1>11, <1>12, <1>13,
     <1>14 DEF CartsNext, Browse, AccountEdit

LEMMA CartsStep ==
  ASSUME CartsInv, [CartsNext]_cartsVars
  PROVE  CartsInv'
  BY CartsTypeStep, NumberedStep, SessionsStep, OneCartStep, NamedStep, HeldStep, OldStep
     DEF CartsInv

LEMMA CartsStart ==
  ASSUME CartsInit
  PROVE  CartsInv
<1>1. CartsTypeOK
  BY BoundsAreNat, LimitsArePositive DEF CartsInit, CartsTypeOK, Data, Empty, NoItems,
     Places
<1>2. Numbered /\ OneCartEach /\ SessionNamesCart /\ OldAreGuests
  BY NamesDiffer DEF CartsInit, Numbered, OneCartEach, SessionNamesCart, OldAreGuests,
     IsGuest, Keys
<1>3. Sessions /\ Held
  BY DEF CartsInit, Sessions, Held, Empty
<1>4. QED
  BY <1>1, <1>2, <1>3 DEF CartsInv

-----------------------------------------------------------------------------
(* The account's cart *)

\* What is bought does not change with anyone else's cart.
AccountCartKept ==
  \A c \in CartIds : /\ owner[c] = Account <=> owner'[c] = Account
                     /\ owner[c] = Account => quantity'[c] = quantity[c]

LEMMA LinesKept ==
  ASSUME AccountCartKept
  PROVE  Lines' = Lines
<1>1. CartsOf(Account)' = CartsOf(Account)
  BY DEF AccountCartKept, CartsOf
<1>2. CASE CartsOf(Account) = {}
  BY <1>1, <1>2 DEF Lines
<1>3. CASE CartsOf(Account) # {}
  <2> DEFINE a == CHOOSE c \in CartsOf(Account) : TRUE
  <2>1. a \in CartsOf(Account)
    BY <1>3
  <2>2. quantity'[a] = quantity[a]
    BY <2>1 DEF AccountCartKept, CartsOf
  <2>3. Lines = quantity[a]
    BY <1>3 DEF Lines
  <2>4. Lines' = quantity'[CHOOSE c \in CartsOf(Account)' : TRUE]
    BY <1>1, <1>3 DEF Lines
  <2>5. QED
    BY <1>1, <2>2, <2>3, <2>4
<1>4. QED
  BY <1>2, <1>3

LEMMA LinesTyped ==
  ASSUME CartsTypeOK
  PROVE  Lines \in [Plans -> Nat]
<1>1. CASE CartsOf(Account) = {}
  BY <1>1 DEF Lines, NoItems
<1>2. CASE CartsOf(Account) # {}
  BY <1>2 DEF Lines, CartsOf, CartsTypeOK
<1>3. QED
  BY <1>1, <1>2

LEMMA GuestEditsKeepIt ==
  ASSUME CartsInv, NEW t \in Tabs, Browse(t)
  PROVE  AccountCartKept
<1>1. ASSUME NEW p \in Plans, NEW n \in 1..Limit[p], AddToCart(t, p, n) PROVE AccountCartKept
  <2>1. PICK k \in Keys, c \in CartIds :
          GetOrCreate(k, c) /\ quantity' = [quantity EXCEPT ![c][p] = @ + n]
    BY <1>1 DEF AddToCart
  <2>2. k # Account /\ owner[c] # Account
    BY <2>1, NamesDiffer DEF GetOrCreate, CartsInv, Numbered, CartsTypeOK, Keys
  <2>3. owner' = [owner EXCEPT ![c] = k]
    BY <2>1 DEF GetOrCreate
  <2>4. QED
    BY <2>1, <2>2, <2>3 DEF AccountCartKept
<1>2. ASSUME NEW p \in Plans, NEW n \in 0..Limit[p], SetQuantity(t, p, n) PROVE AccountCartKept
  <2>1. PICK c \in CartIds :
          /\ key[t] # None /\ owner[c] = key[t] /\ owner' = owner
          /\ quantity' = [quantity EXCEPT ![c][p] = n]
    BY <1>2 DEF SetQuantity
  <2>2. owner[c] # Account
    BY <2>1, NamesDiffer DEF CartsInv, CartsTypeOK, Keys
  <2>3. QED
    BY <2>1, <2>2 DEF AccountCartKept
<1>3. CASE UNCHANGED cartVars
  BY <1>3 DEF AccountCartKept, cartVars
<1>4. QED
  BY <1>1, <1>2, <1>3 DEF Browse, Load, Refuse, WrongPassword, Respond, Die

LEMMA SignInKeepsIt ==
  ASSUME CartsInv, NEW t \in Tabs, Login(t), owner' = owner
  PROVE  AccountCartKept
<1>1. PICK g : Merge(g)
  BY DEF Login
<1>2. CASE UNCHANGED cartVars
  BY <1>2 DEF AccountCartKept, cartVars
<1>3. CASE g \in CartIds /\ IsGuest(g) /\ owner'[g] \in {None, Account}
  BY <1>3, NamesDiffer DEF IsGuest, Keys
<1>4. QED
  BY <1>1, <1>2, <1>3 DEF Merge, CartsInv, CartsTypeOK

LEMMA PurgeKeepsIt ==
  ASSUME CartsInv, Logout \/ PurgeGuestCarts
  PROVE  AccountCartKept
<1>1. CASE Logout
  BY <1>1 DEF AccountCartKept, Logout, cartVars
<1>2. CASE PurgeGuestCarts
  <2>1. \A c \in old : owner[c] # Account
    BY NamesDiffer DEF CartsInv, OldAreGuests, IsGuest, Keys
  <2>2. QED
    BY <1>2, <2>1, NamesDiffer DEF AccountCartKept, PurgeGuestCarts
<1>3. QED
  BY <1>1, <1>2

\* The checkout empties the account's cart and touches no one else's.
LEMMA EmptiedCart ==
  ASSUME CartsInv, NEW g \in Pages, PlaceOrder(g)
  PROVE  CartsInv'
<1>1. /\ quantity' = [c \in CartIds |-> IF owner[c] = Account THEN NoItems ELSE quantity[c]]
      /\ UNCHANGED <<sessionVars, carts, owner, old, cut, tabVars>>
  BY DEF PlaceOrder
<1>2. CartsTypeOK'
  BY <1>1, LimitsArePositive DEF CartsInv, CartsTypeOK, NoItems, sessionVars, tabVars
<1>3. Numbered' /\ Sessions' /\ OneCartEach' /\ SessionNamesCart' /\ Held' /\ OldAreGuests'
  BY <1>1 DEF CartsInv, Numbered, Sessions, OneCartEach, SessionNamesCart, Held, InReach,
     OldAreGuests, IsGuest, sessionVars, tabVars
<1>4. QED
  BY <1>2, <1>3 DEF CartsInv

LEMMA CartsInShop ==
  ASSUME CartsInv, [Next]_vars
  PROVE  CartsInv'
<1>1. CASE \E g \in Pages : PlaceOrder(g)
  BY <1>1, EmptiedCart
<1>2. CASE CartsNext
  BY <1>2, CartsStep
<1>3. CASE UNCHANGED cartsVars
  BY <1>3, CartsStep
<1>4. QED
  <2>1. CASE BrowseShop
    BY <1>2, <2>1 DEF BrowseShop, CartsNext
  <2>2. CASE SignIn
    BY <1>2, <2>2 DEF SignIn, CartsNext
  <2>3. CASE EditAccountCart \/ LeaveOrPurge \/ WaitMonth
    BY <1>2, <2>3 DEF EditAccountCart, LeaveOrPurge, WaitMonth, CartsNext
  <2>4. CASE ChangeTerms \/ Checkout \/ UNCHANGED vars
    BY <1>1, <1>3, <2>4 DEF ChangeTerms, Checkout, BeginReview, FinishReview, PassQuoteAge,
       Replay, RefuseCheckout, RefuseOrder, Settle, vars
  <2>5. QED
    BY <2>1, <2>2, <2>3, <2>4 DEF Next

-----------------------------------------------------------------------------
(* The checkout *)

PagesInv ==
  /\ CheckoutTypeOK /\ FreshPagesMatch /\ OrdersHavePages /\ OrderedAsReviewed /\ RetryAnswered

LEMMA NoPageTyped ==
  /\ NoItems \in [Plans -> Nat]
  /\ NoPage \in PageRecords /\ NoOrder \in OrderRecords
  /\ [NoPage EXCEPT !.state = "open"] \in PageRecords
BY DEF NoItems, NoPage, NoOrder, PageRecords, OrderRecords

\* A step that leaves pages, orders and what is in the account's cart.
LEMMA CartSeenAsBefore ==
  ASSUME PagesInv, AccountCartKept, UNCHANGED <<page, stale, late, order, denied>>,
         price' \in Prices
  PROVE  PagesInv'
<1>1. Lines' = Lines
  BY LinesKept
<1>2. CheckoutTypeOK' /\ OrdersHavePages' /\ OrderedAsReviewed' /\ RetryAnswered'
  BY DEF PagesInv, CheckoutTypeOK, OrdersHavePages, OrderedAsReviewed, RetryAnswered, Placed
<1>3. FreshPagesMatch'
  BY <1>1 DEF PagesInv, FreshPagesMatch
<1>4. QED
  BY <1>2, <1>3 DEF PagesInv

\* A step that changes the account's cart leaves no page that matches it.
LEMMA AllStaleIsSafe ==
  ASSUME PagesInv, AllStale, UNCHANGED <<price, page, late, order, denied>>
  PROVE  PagesInv'
<1>1. CheckoutTypeOK' /\ OrdersHavePages' /\ OrderedAsReviewed' /\ RetryAnswered'
  BY DEF PagesInv, CheckoutTypeOK, OrdersHavePages, OrderedAsReviewed, RetryAnswered,
     Placed, AllStale
<1>2. FreshPagesMatch'
  BY DEF AllStale, FreshPagesMatch
<1>3. QED
  BY <1>1, <1>2 DEF PagesInv

\* Pages that age are refused, and what the ordered ones showed stays.
LEMMA AgedIsSafe ==
  ASSUME PagesInv, CartsInv, NEW gs \in SUBSET Pages, Aged(gs), AccountCartKept,
         \A g \in gs : page[g].state = "open",
         UNCHANGED <<price, order, denied>>
  PROVE  PagesInv'
<1>1. Lines' = Lines
  BY LinesKept
<1>2. \A g \in Pages : /\ page'[g] \in PageRecords
                       /\ page'[g].state = page[g].state
                       /\ g \notin gs \/ Placed(g) => page'[g] = page[g]
  BY NoPageTyped DEF Aged, PagesInv, CheckoutTypeOK
<1>3. page' = [g \in Pages |-> page'[g]]
  BY DEF Aged
<1>4. CheckoutTypeOK'
  BY <1>2, <1>3 DEF Aged, PagesInv, CheckoutTypeOK
<1>5. OrdersHavePages' /\ OrderedAsReviewed' /\ RetryAnswered'
  BY <1>2 DEF PagesInv, OrdersHavePages, OrderedAsReviewed, RetryAnswered, Placed
<1>6. FreshPagesMatch'
  BY <1>1, <1>2 DEF Aged, PagesInv, FreshPagesMatch
<1>7. QED
  BY <1>4, <1>5, <1>6 DEF PagesInv

LEMMA CheckoutStep ==
  ASSUME PagesInv, CartsInv, NEW g \in Pages,
         \/ BeginReview(g) \/ FinishReview(g) \/ PlaceOrder(g) \/ Settle(g)
  PROVE  PagesInv'
<1> USE DEF PagesInv
<1>1. CASE BeginReview(g)
  <2>1. AccountCartKept
    BY <1>1 DEF BeginReview, AccountCartKept, cartsVars, cartVars
  <2>2. page' = [page EXCEPT ![g] = [page[g] EXCEPT !.state = "reading"]] /\ page[g].state = "none"
        /\ UNCHANGED <<price, stale, late, order, denied>>
    BY <1>1 DEF BeginReview
  <2>3. CheckoutTypeOK'
    BY <2>2 DEF CheckoutTypeOK, PageRecords
  <2>4. OrdersHavePages' /\ OrderedAsReviewed' /\ RetryAnswered'
    BY <2>2 DEF OrdersHavePages, OrderedAsReviewed, RetryAnswered, Placed
  <2>5. FreshPagesMatch'
    BY <2>1, <2>2, LinesKept DEF FreshPagesMatch
  <2>6. QED
    BY <2>3, <2>4, <2>5
<1>2. CASE FinishReview(g)
  <2>1. AccountCartKept
    BY <1>2 DEF FinishReview, AccountCartKept, cartsVars, cartVars
  <2>2. page' = [page EXCEPT ![g] = [state |-> "open", lines |-> Lines, price |-> price]]
        /\ page[g].state = "reading"
        /\ UNCHANGED <<price, stale, late, order, denied>>
    BY <1>2 DEF FinishReview
  <2>3. CheckoutTypeOK'
    BY <2>2, LinesTyped DEF CheckoutTypeOK, PageRecords, CartsInv
  <2>4. OrdersHavePages' /\ OrderedAsReviewed' /\ RetryAnswered'
    BY <2>2 DEF OrdersHavePages, OrderedAsReviewed, RetryAnswered, Placed
  <2>5. FreshPagesMatch'
    BY <2>1, <2>2, LinesKept DEF FreshPagesMatch
  <2>6. QED
    BY <2>3, <2>4, <2>5
<1>3. CASE PlaceOrder(g)
  <2>1. /\ order' = [order EXCEPT ![g] = [state |-> "unpaid", lines |-> Lines, price |-> price]]
        /\ AllStale /\ denied' = denied /\ UNCHANGED <<price, page, late>>
    BY <1>3 DEF PlaceOrder, Answered
  <2>2. page[g].state = "open" /\ page[g].lines = Lines /\ page[g].price = price
    BY <1>3 DEF PlaceOrder, Orderable, CartAsQuoted, TermsAsQuoted, FreshPagesMatch
  <2>3. CheckoutTypeOK'
    BY <2>1, LinesTyped DEF CheckoutTypeOK, OrderRecords, CartsInv, AllStale
  <2>4. OrdersHavePages' /\ OrderedAsReviewed' /\ RetryAnswered'
    BY <2>1, <2>2 DEF OrdersHavePages, OrderedAsReviewed, RetryAnswered, Placed
  <2>5. FreshPagesMatch'
    BY <2>1 DEF FreshPagesMatch, AllStale
  <2>6. QED
    BY <2>3, <2>4, <2>5
<1>4. CASE Settle(g)
  <2>1. AccountCartKept
    BY <1>4 DEF Settle, AccountCartKept, cartsVars, cartVars
  <2>2. order' = [order EXCEPT ![g] = [order[g] EXCEPT !.state = "settled"]]
        /\ order[g].state = "unpaid" /\ UNCHANGED <<price, page, stale, late, denied>>
    BY <1>4 DEF Settle
  <2>3. CheckoutTypeOK'
    BY <2>2 DEF CheckoutTypeOK, OrderRecords
  <2>4. OrdersHavePages' /\ OrderedAsReviewed' /\ RetryAnswered'
    BY <2>2 DEF OrdersHavePages, OrderedAsReviewed, RetryAnswered, Placed
  <2>5. FreshPagesMatch'
    BY <2>1, <2>2, LinesKept DEF FreshPagesMatch
  <2>6. QED
    BY <2>3, <2>4, <2>5
<1>5. QED
  BY <1>1, <1>2, <1>3, <1>4

LEMMA PagesStep ==
  ASSUME PagesInv, CartsInv, [Next]_vars
  PROVE  PagesInv'
<1>0. price \in Prices
  BY DEF PagesInv, CheckoutTypeOK
<1>1. CASE BrowseShop
  BY <1>0, <1>1, GuestEditsKeepIt, CartSeenAsBefore DEF BrowseShop, Elsewhere
<1>2. CASE SignIn
  BY <1>0, <1>2, SignInKeepsIt, CartSeenAsBefore, AllStaleIsSafe DEF SignIn, Elsewhere
<1>3. CASE EditAccountCart
  BY <1>3, AllStaleIsSafe DEF EditAccountCart, Elsewhere
<1>4. CASE LeaveOrPurge
  BY <1>0, <1>4, PurgeKeepsIt, CartSeenAsBefore DEF LeaveOrPurge, Elsewhere
<1>5. CASE WaitMonth
  <2>1. AccountCartKept
    BY <1>5 DEF WaitMonth, Month, AccountCartKept
  <2>2. QED
    BY <1>5, <2>1, AgedIsSafe DEF WaitMonth
<1>6. CASE ChangeTerms
  <2>1. AccountCartKept
    BY <1>6 DEF ChangeTerms, AccountCartKept, cartsVars, cartVars
  <2>2. QED
    BY <1>6, <2>1, CartSeenAsBefore DEF ChangeTerms, checkoutVars
<1>7. ASSUME NEW g \in Pages, PassQuoteAge(g) PROVE PagesInv'
  <2>1. AccountCartKept
    BY <1>7 DEF PassQuoteAge, AccountCartKept, cartsVars, cartVars
  <2>2. Aged({g}) /\ page[g].state = "open" /\ UNCHANGED <<price, order, denied>>
    BY <1>7 DEF PassQuoteAge
  <2>3. QED
    BY <2>1, <2>2, AgedIsSafe
<1>8. ASSUME NEW g \in Pages, NEW same \in BOOLEAN,
             Replay(g, same) \/ RefuseCheckout(g, same) \/ RefuseOrder(g, same)
      PROVE  PagesInv'
  <2>1. AccountCartKept
    BY <1>8 DEF Replay, RefuseCheckout, RefuseOrder, AccountCartKept, cartsVars, cartVars
  <2>2. UNCHANGED <<price, page, stale, late, order, denied>>
    BY <1>8 DEF Replay, RefuseCheckout, RefuseOrder, Answered, Replayed
  <2>3. QED
    BY <1>0, <2>1, <2>2, CartSeenAsBefore
<1>9. CASE UNCHANGED vars
  BY <1>0, <1>9, CartSeenAsBefore DEF vars, checkoutVars, cartsVars, cartVars,
     AccountCartKept
<1>10. QED
  BY <1>1, <1>2, <1>3, <1>4, <1>5, <1>6, <1>7, <1>8, <1>9, CheckoutStep DEF Next, Checkout

-----------------------------------------------------------------------------
(* What becomes of a guest's cart *)

LEMMA LeastCommutes ==
  ASSUME NEW m \in Nat, NEW n \in Nat
  PROVE  Least(m, n) = Least(n, m)
BY DEF Least

LEMMA MergeMovesUnits ==
  ASSUME CartsInv, NEW g, Merge(g), NEW c \in CartIds, IsGuest(c), owner'[c] \notin Keys
  PROVE  UnitsMoved(c)
<1> USE DEF CartsInv, CartsTypeOK
<1>1. c = g
  BY MergedCart DEF IsGuest
<1>2. g # None
  BY <1>1, NamesDiffer DEF CartIds
<1>3. owner[g] \in Keys /\ owner[g] # Account
  BY <1>1, NamesDiffer DEF IsGuest, Keys
<1>4. CASE CartsOf(Account) = {}
  <2>1. /\ owner' = [owner EXCEPT ![g] = Account]
        /\ quantity' = [quantity EXCEPT ![g] = [p \in Plans |-> Least(quantity[g][p], Limit[p])]]
    BY <1>1, <1>2, <1>4 DEF Merge
  <2>2. owner'[g] = Account
    BY <1>1, <2>1
  <2>3. ASSUME NEW p \in Plans PROVE quantity'[g][p] = Least(Limit[p], quantity[g][p] + 0)
    <3>1. quantity'[g][p] = Least(quantity[g][p], Limit[p])
      BY <1>1, <2>1
    <3>2. quantity[g][p] \in Nat /\ Limit[p] \in Nat
      BY <1>1, LimitsArePositive
    <3>3. quantity[g][p] + 0 = quantity[g][p]
      BY <3>2
    <3>4. QED
      BY <3>1, <3>2, <3>3, LeastCommutes
  <2>4. QED
    BY <1>1, <1>3, <2>2, <2>3 DEF UnitsMoved
<1>5. CASE CartsOf(Account) # {}
  <2>1. PICK a \in CartsOf(Account) :
          /\ owner' = [owner EXCEPT ![g] = None]
          /\ quantity' = [quantity EXCEPT
               ![g] = NoItems,
               ![a] = [p \in Plans |-> MergedQuantity(quantity[a][p], quantity[g][p], p)]]
    BY <1>1, <1>2, <1>5 DEF Merge
  <2>2. a \in CartIds /\ owner[a] = Account /\ a # g
    BY <1>3 DEF CartsOf
  <2>3. owner'[a] = Account
    BY <2>1, <2>2
  <2>4. ASSUME NEW p \in Plans
        PROVE  quantity'[a][p] = Least(Limit[p], quantity[g][p] + quantity[a][p])
    <3>1. quantity'[a][p] = Least(quantity[a][p] + quantity[g][p], Limit[p])
      BY <2>1, <2>2 DEF MergedQuantity
    <3>2. quantity[g][p] \in Nat /\ quantity[a][p] \in Nat /\ Limit[p] \in Nat
      BY <1>1, <2>2, LimitsArePositive
    <3>3. quantity[a][p] + quantity[g][p] \in Nat
          /\ quantity[a][p] + quantity[g][p] = quantity[g][p] + quantity[a][p]
      BY <3>2
    <3>4. Least(quantity[a][p] + quantity[g][p], Limit[p])
            = Least(Limit[p], quantity[a][p] + quantity[g][p])
      BY <3>2, <3>3, LeastCommutes
    <3>5. QED
      BY <3>1, <3>3, <3>4
  <2>5. QED
    BY <1>1, <2>2, <2>3, <2>4 DEF UnitsMoved
<1>6. QED
  BY <1>4, <1>5

LEMMA GuestCartLeaves ==
  ASSUME CartsInv, [Next]_vars, NEW c \in CartIds, IsGuest(c), owner'[c] \notin Keys
  PROVE  (c \in old /\ owner'[c] = None) \/ UnitsMoved(c)
<1> USE DEF CartsInv
<1>1. CASE owner' = owner
  BY <1>1 DEF IsGuest
<1>2. ASSUME NEW t \in Tabs, Login(t) PROVE UnitsMoved(c)
  BY <1>2, MergeMovesUnits DEF Login
<1>3. CASE PurgeGuestCarts
  BY <1>3 DEF PurgeGuestCarts, IsGuest
<1>4. ASSUME NEW t \in Tabs, Browse(t) PROVE owner' = owner \/ owner'[c] \in Keys
  BY <1>4 DEF Browse, Load, Refuse, AddToCart, SetQuantity, WrongPassword, Respond, Die,
     GetOrCreate, CartsTypeOK, IsGuest, cartVars
<1>5. ASSUME NEW p \in Plans, NEW n \in 1..Limit[p], AccountAdd(p, n) PROVE owner'[c] = owner[c]
  <2>1. PICK d \in CartIds : GetOrCreate(Account, d)
    BY <1>5 DEF AccountAdd
  <2>2. owner[d] \in {Account, None}
    BY <2>1 DEF GetOrCreate, Numbered, CartsTypeOK
  <2>3. d # c
    BY <2>2, NamesDiffer DEF IsGuest, Keys
  <2>4. QED
    BY <2>1, <2>3 DEF GetOrCreate
<1>6. QED
  <2>1. CASE BrowseShop
    BY <1>1, <1>4, <2>1 DEF BrowseShop
  <2>2. CASE SignIn
    BY <1>2, <2>2 DEF SignIn
  <2>3. CASE EditAccountCart
    BY <1>1, <1>5, <2>3 DEF EditAccountCart, AccountEdit, AccountSet, IsGuest
  <2>4. CASE LeaveOrPurge
    BY <1>1, <1>3, <2>4 DEF LeaveOrPurge, Logout, cartVars
  <2>5. CASE WaitMonth \/ ChangeTerms \/ Checkout \/ UNCHANGED vars
    BY <1>1, <2>5 DEF WaitMonth, Month, ChangeTerms, Checkout, BeginReview, FinishReview,
       PassQuoteAge, Replay, RefuseCheckout, RefuseOrder, PlaceOrder, Settle, vars,
       cartsVars, cartVars
  <2>6. QED
    BY <2>1, <2>2, <2>3, <2>4, <2>5 DEF Next

-----------------------------------------------------------------------------
(* Theorems *)

LEMMA ShopInvHolds == Spec => [](CartsInv /\ PagesInv)
<1>1. Init => CartsInv
  BY CartsStart DEF Init
<1>2. Init => PagesInv
  <2>1. ASSUME Init PROVE CheckoutTypeOK
    BY <2>1, NoPageTyped DEF Init, CheckoutTypeOK
  <2>2. ASSUME Init PROVE FreshPagesMatch /\ OrdersHavePages /\ OrderedAsReviewed /\ RetryAnswered
    BY <2>2 DEF Init, NoPage, NoOrder, FreshPagesMatch, OrdersHavePages, OrderedAsReviewed,
       RetryAnswered, Placed
  <2>3. QED
    BY <2>1, <2>2 DEF PagesInv
<1>3. CartsInv /\ PagesInv /\ [Next]_vars => (CartsInv /\ PagesInv)'
  BY CartsInShop, PagesStep
<1>4. QED
  BY <1>1, <1>2, <1>3, PTL DEF Spec

\* The types of the sessions, carts and tabs (apps/cart, core/sessions.py) hold
\* for any limits and any number of tabs.
THEOREM CartsTypeCorrect == Spec => []CartsTypeOK
<1>1. CartsInv => CartsTypeOK
  BY DEF CartsInv
<1>2. QED
  BY <1>1, ShopInvHolds, PTL

\* Until it is due for the purge, a guest cart is named by the live session that
\* owns it, unless an answer overwrote that session, and the browser presents
\* that session or is about to, unless its cookie was lost with an answer or
\* replaced by another's (_touch, login_session).
THEOREM GuestsKeepTheirCarts == Spec => []GuestCartReachable
<1>1. CartsInv => GuestCartReachable
  BY DEF CartsInv, SessionNamesCart, Held, GuestCartReachable
<1>2. QED
  BY <1>1, ShopInvHolds, PTL

\* No interleaving of edits, merges and purges makes a second cart for an owner
\* (_locked_cart, merge_carts).
THEOREM OneCartPerOwner == Spec => []OneCartEach
<1>1. CartsInv => OneCartEach
  BY DEF CartsInv
<1>2. QED
  BY <1>1, ShopInvHolds, PTL

\* An order holds what the page it was sent from showed (checkout).
THEOREM CustomersGetWhatTheySaw == Spec => []OrderedAsReviewed
<1>1. PagesInv => OrderedAsReviewed
  BY DEF PagesInv
<1>2. QED
  BY <1>1, ShopInvHolds, PTL

\* A form sent again is answered with its order (replay_checkout).
THEOREM RetriesGetTheirOrder == Spec => []RetryAnswered
<1>1. PagesInv => RetryAnswered
  BY DEF PagesInv
<1>2. QED
  BY <1>1, ShopInvHolds, PTL

\* A guest cart goes only into the account's, with every unit there is room for,
\* or in the purge (merge_carts, purge_guest_carts).
THEOREM MergesKeepUnits == Spec => GuestUnitsKept
<1>1. CartsInv /\ [Next]_vars =>
        [\A c \in CartIds : IsGuest(c) /\ owner'[c] \notin Keys =>
           (c \in old /\ owner'[c] = None) \/ UnitsMoved(c)]_cartsVars
  BY GuestCartLeaves
<1>2. QED
  BY <1>1, ShopInvHolds, PTL DEF Spec, GuestUnitsKept

=============================================================================
