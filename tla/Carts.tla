-------------------------------- MODULE Carts --------------------------------
(***************************************************************************)
(* One visitor's session, its guest cart, and the account the visitor      *)
(* signs in to (apps/cart/services.py, cart/signals.py, core/sessions.py   *)
(* and the sign-in views of apps/accounts).                                *)
(*                                                                         *)
(* Several tabs of one browser send requests.  A request loads its session *)
(* once, when it begins, commits its transaction, and saves the dict it    *)
(* loaded as a whole when it answers.  Django's session middleware is      *)
(* external: Load, Respond.  The account's cart is also edited from other  *)
(* devices.  Transactions are atomic, since each holds the session or the  *)
(* account from its first step; LockOrder looks inside them.               *)
(***************************************************************************)
EXTENDS Integers

CONSTANTS
  Tabs,       \* requests of the browser that may run at the same time
  Plans,
  Limit,      \* the quantity a cart may hold of each plan
  Account,    \* owner of the account's cart
  None,
  MaxKeys,    \* bound on the sessions created
  MaxCarts    \* bound on the carts created

ASSUME LimitsArePositive == Limit \in [Plans -> Nat \ {0}]
ASSUME BoundsAreNat == MaxKeys \in Nat /\ MaxCarts \in Nat
ASSUME NamesDiffer == None # Account /\ None \notin Nat /\ Account \notin Nat

Keys == 1..MaxKeys
CartIds == 1..MaxCarts

VARIABLES
  keys,      \* session keys created so far; a key is never used again
  live,      \* keys whose row is in the session table
  stored,    \* what the row of each key holds
  cookie,    \* the session key of the browser
  adrift,    \* keys whose cookie the browser was never given, or gave up for
             \* that of another answer (history)
  carts,     \* carts created so far
  owner,     \* whose each cart is; None while it does not exist
  quantity,  \* its items
  old,       \* guest carts not touched for GUEST_AGE
  cut,       \* carts whose session row was overwritten without them (history)
  at,        \* where the request of each tab is
  key,       \* the session key it holds
  data       \* the session dict it holds

sessionVars == <<keys, live, stored, cookie, adrift>>
cartVars == <<carts, owner, quantity, old>>
tabVars == <<at, key, data>>
cartsVars == <<sessionVars, cartVars, cut, tabVars>>

\* A session dict: signed in, and GUEST_CART_ID.
Data == [user : BOOLEAN, cart : CartIds \cup {None}]
Empty == [user |-> FALSE, cart |-> None]

Places == {"idle", "edit", "code", "login", "respond"}

\* Every variable keeps its type.
CartsTypeOK ==
  /\ keys \in 0..MaxKeys /\ live \subseteq 1..keys
  /\ stored \in [Keys -> Data]
  /\ cookie \in Keys \cup {None} /\ adrift \subseteq Keys
  /\ carts \in 0..MaxCarts
  /\ owner \in [CartIds -> Keys \cup {Account, None}]
  /\ quantity \in [CartIds -> [Plans -> Nat]]
  /\ \A c \in CartIds, p \in Plans : quantity[c][p] <= Limit[p]
  /\ old \subseteq CartIds /\ cut \subseteq CartIds
  /\ at \in [Tabs -> Places]
  /\ key \in [Tabs -> Keys \cup {None}]
  /\ data \in [Tabs -> Data]

NoItems == [p \in Plans |-> 0]
Least(m, n) == IF m <= n THEN m ELSE n
CartsOf(who) == {c \in CartIds : owner[c] = who}
IsGuest(c) == owner[c] \in Keys

-----------------------------------------------------------------------------
(* A request begins: the session of the cookie is loaded, if its row exists. *)

Load(t, kind) ==
  /\ at[t] = "idle"
  /\ at' = [at EXCEPT ![t] = kind]
  /\ IF cookie \in live
     THEN /\ ~stored[cookie].user
          /\ key' = [key EXCEPT ![t] = cookie]
          /\ data' = [data EXCEPT ![t] = stored[cookie]]
     ELSE /\ key' = [key EXCEPT ![t] = None]
          /\ data' = [data EXCEPT ![t] = Empty]
  /\ UNCHANGED <<sessionVars, cartVars, cut>>

\* The request is over, and what it held is forgotten.
Finish(t) ==
  /\ at' = [at EXCEPT ![t] = "idle"]
  /\ key' = [key EXCEPT ![t] = None]
  /\ data' = [data EXCEPT ![t] = Empty]

\* An edit the service refuses, a code that is not sent, a wrong code.
Refuse(t) ==
  /\ at[t] \in {"edit", "code", "login"}
  /\ Finish(t)
  /\ UNCHANGED <<sessionVars, cartVars, cut>>

-----------------------------------------------------------------------------
(* Guest edits *)

NewKey(k) == keys < MaxKeys /\ k = keys + 1 /\ keys' = k

\* _locked_cart: a visitor without a session gets one; any other must still
\* have the row its request loaded.
LockedSession(t, k) ==
  \/ key[t] = None /\ NewKey(k) /\ live' = live \cup {k}
  \/ key[t] = k /\ k \in live /\ UNCHANGED <<keys, live>>

\* Mutant: the cart is made without looking for one.
MadeAnew(who, c) ==
  /\ carts < MaxCarts /\ c = carts + 1 /\ carts' = c
  /\ owner' = [owner EXCEPT ![c] = who]

\* get_or_create, for whoever holds the lock of that owner.
GetOrCreate(who, c) ==
  /\ \/ owner[c] = who /\ UNCHANGED carts
     \/ CartsOf(who) = {} /\ carts < MaxCarts /\ c = carts + 1 /\ carts' = c
  /\ owner' = [owner EXCEPT ![c] = who]

\* _touch of a guest's cart: the row gets all this request knows, and the cart.
Touch(t, k, c) ==
  /\ old' = old \ {c}
  /\ key' = [key EXCEPT ![t] = k]
  /\ data' = [data EXCEPT ![t].cart = c]
  /\ stored' = [stored EXCEPT ![k] = [data[t] EXCEPT !.cart = c]]
  /\ at' = [at EXCEPT ![t] = "respond"]

AddToCart(t, p, n) ==
  \E k \in Keys, c \in CartIds :
    /\ at[t] = "edit"
    /\ LockedSession(t, k)
    /\ GetOrCreate(k, c)
    /\ quantity[c][p] + n <= Limit[p]
    /\ quantity' = [quantity EXCEPT ![c][p] = @ + n]
    /\ Touch(t, k, c)
    /\ UNCHANGED <<cookie, adrift, cut>>

\* set_quantity, and remove_from_cart for zero: only of an item that is there.
SetQuantity(t, p, n) ==
  \E c \in CartIds :
    /\ at[t] = "edit" /\ key[t] # None
    /\ LockedSession(t, key[t])
    /\ owner[c] = key[t] /\ quantity[c][p] > 0
    /\ quantity' = [quantity EXCEPT ![c][p] = n]
    /\ Touch(t, key[t], c)
    /\ UNCHANGED <<cookie, adrift, cut, carts, owner>>

-----------------------------------------------------------------------------
(* Signing in *)

\* Mutant: the login keeps the session this request loaded.
AsLoaded(t) == data[t]

\* login_session: the row is locked and read again.
Reloaded(t) == IF key[t] \in live THEN stored[key[t]] ELSE Empty

\* A wrong password: the session read again is marked modified, too.
WrongPassword(t) ==
  /\ at[t] = "login" /\ key[t] # None
  /\ data' = [data EXCEPT ![t] = Reloaded(t)]
  /\ at' = [at EXCEPT ![t] = "respond"]
  /\ UNCHANGED <<sessionVars, cartVars, cut, key>>

\* Mutant: quantities in both carts are not added up.
LargerQuantity(a, g, p) == IF a >= g THEN Least(a, Limit[p]) ELSE Least(g, Limit[p])

MergedQuantity(a, g, p) == Least(a + g, Limit[p])

\* merge_carts: the guest cart is claimed, or emptied into the account's.
Merge(g) ==
  IF g = None \/ g \notin {c \in CartIds : IsGuest(c)}
  THEN UNCHANGED cartVars
  ELSE /\ old' = old \ {g}
       /\ UNCHANGED carts
       /\ IF CartsOf(Account) = {}
          THEN /\ owner' = [owner EXCEPT ![g] = Account]
               /\ quantity' = [quantity EXCEPT
                    ![g] = [p \in Plans |-> Least(quantity[g][p], Limit[p])]]
          ELSE \E a \in CartsOf(Account) :
                 /\ owner' = [owner EXCEPT ![g] = None]
                 /\ quantity' = [quantity EXCEPT
                      ![g] = NoItems,
                      ![a] = [p \in Plans |->
                                MergedQuantity(quantity[a][p], quantity[g][p], p)]]

\* django_login inside login_session: the key is cycled with what the row
\* held, the signal merges the cart; the answer will save the rest.
Login(t) ==
  /\ at[t] = "login"
  /\ \E k \in Keys :
       /\ NewKey(k)
       /\ live' = (live \ {key[t]}) \cup {k}
       /\ stored' = [i \in Keys |-> IF i = k THEN Reloaded(t)
                                    ELSE IF i = key[t] THEN Empty ELSE stored[i]]
       /\ key' = [key EXCEPT ![t] = k]
  /\ Merge(Reloaded(t).cart)
  /\ data' = [data EXCEPT ![t] = [user |-> TRUE, cart |-> None]]
  /\ at' = [at EXCEPT ![t] = "respond"]
  /\ UNCHANGED <<cookie, adrift, cut>>

\* django_logout flushes the session and the cookie.
Logout ==
  /\ cookie \in live /\ stored[cookie].user
  /\ live' = live \ {cookie}
  /\ stored' = [stored EXCEPT ![cookie] = Empty]
  /\ cookie' = None
  /\ UNCHANGED <<keys, adrift, cartVars, cut, tabVars>>

-----------------------------------------------------------------------------
(* A request answers: the whole dict is saved, unless the row is gone, and *)
(* the browser may or may not receive the answer and its cookie.  The code *)
(* form (login_code_request, login_code_resend) has no transaction: it     *)
(* sends its mail and answers with the session it loaded before.           *)

Received(k) ==
  /\ cookie' = k
  /\ adrift' = (adrift \ {k}) \cup ({cookie} \ {k, None})

Lost(k) ==
  /\ UNCHANGED cookie
  /\ adrift' = adrift \cup ({k} \ {cookie, None})

Save(t, k) ==
  /\ stored' = [stored EXCEPT ![k] = data[t]]
  /\ cut' = cut \cup {c \in CartsOf(k) : data[t].cart # c}
  /\ Received(k) \/ Lost(k)

Respond(t) ==
  /\ at[t] \in {"code", "respond"}
  /\ Finish(t)
  /\ \/ /\ key[t] = None
        /\ \E k \in Keys : NewKey(k) /\ live' = live \cup {k} /\ Save(t, k)
     \/ key[t] \in live /\ Save(t, key[t]) /\ UNCHANGED <<keys, live>>
     \/ key[t] \notin live \cup {None} /\ UNCHANGED <<sessionVars, cut>>
  /\ UNCHANGED cartVars

\* The worker is stopped between the commit and the answer.
Die(t) ==
  /\ at[t] = "respond"
  /\ Finish(t)
  /\ Lost(key[t])
  /\ UNCHANGED <<keys, live, stored, cartVars, cut>>

-----------------------------------------------------------------------------
(* The account's cart, edited while signed in here or elsewhere, and time *)

AccountAdd(p, n) ==
  \E c \in CartIds :
    /\ GetOrCreate(Account, c)
    /\ quantity[c][p] + n <= Limit[p]
    /\ quantity' = [quantity EXCEPT ![c][p] = @ + n]
    /\ UNCHANGED <<old, sessionVars, cut, tabVars>>

AccountSet(p, n) ==
  \E c \in CartsOf(Account) :
    /\ quantity[c][p] > 0
    /\ quantity' = [quantity EXCEPT ![c][p] = n]
    /\ UNCHANGED <<carts, owner, old, sessionVars, cut, tabVars>>

\* Thirty days without an edit: sessions not saved meanwhile expire as well.
Month ==
  /\ \A t \in Tabs : at[t] = "idle"
  /\ old' = {c \in CartIds : IsGuest(c)}
  /\ live' \in SUBSET live
  /\ stored' = [k \in Keys |-> IF k \in live' THEN stored[k] ELSE Empty]
  /\ UNCHANGED <<keys, cookie, adrift, carts, owner, quantity, cut, tabVars>>

PurgeGuestCarts ==
  /\ old # {}
  /\ owner' = [c \in CartIds |-> IF c \in old THEN None ELSE owner[c]]
  /\ quantity' = [c \in CartIds |-> IF c \in old THEN NoItems ELSE quantity[c]]
  /\ old' = {}
  /\ UNCHANGED <<carts, sessionVars, cut, tabVars>>

-----------------------------------------------------------------------------

CartsInit ==
  /\ keys = 0 /\ live = {} /\ cookie = None /\ adrift = {}
  /\ stored = [k \in Keys |-> Empty]
  /\ carts = 0
  /\ owner = [c \in CartIds |-> None]
  /\ quantity = [c \in CartIds |-> NoItems]
  /\ old = {} /\ cut = {}
  /\ at = [t \in Tabs |-> "idle"]
  /\ key = [t \in Tabs |-> None]
  /\ data = [t \in Tabs |-> Empty]

Browse(t) ==
  \/ \E kind \in {"edit", "code", "login"} : Load(t, kind)
  \/ Refuse(t)
  \/ \E p \in Plans : \/ \E n \in 1..Limit[p] : AddToCart(t, p, n)
                      \/ \E n \in 0..Limit[p] : SetQuantity(t, p, n)
  \/ WrongPassword(t)
  \/ Respond(t)
  \/ Die(t)

AccountEdit ==
  \E p \in Plans : \/ \E n \in 1..Limit[p] : AccountAdd(p, n)
                   \/ \E n \in 0..Limit[p] : AccountSet(p, n)

CartsNext ==
  \/ \E t \in Tabs : Browse(t) \/ Login(t)
  \/ AccountEdit
  \/ Logout
  \/ Month
  \/ PurgeGuestCarts

CartsSpec == CartsInit /\ [][CartsNext]_cartsVars

-----------------------------------------------------------------------------
(* Properties *)

\* The browser presents session k, or an answer with its cookie is on its way.
InReach(k) == cookie = k \/ \E t \in Tabs : at[t] = "respond" /\ key[t] = k

\* Until it is due for the nightly purge, a guest cart belongs to a session that
\* exists, is not signed in and names the cart, so that a sign-in under it merges
\* the cart; only an answer that saves a session loaded before the cart was made
\* takes the name away (cut).  And the browser can present that session, except
\* where the answer with its first cookie was lost or the answer of another
\* session replaced the cookie (adrift): a worker that stops, and an answer that
\* is lost, on a session the browser already holds leave no cart behind.
GuestCartReachable ==
  \A c \in CartIds : IsGuest(c) /\ c \notin old \cup cut =>
    /\ owner[c] \in live
    /\ ~stored[owner[c]].user
    /\ stored[owner[c]].cart = c
    /\ owner[c] \notin adrift => InReach(owner[c])

\* A session and the account have at most one cart each, whichever of edit,
\* purge and merge made the last one.
OneCartEach ==
  \A c, d \in CartIds : owner[c] = owner[d] /\ owner[c] # None => c = d

\* The account's cart holds the units of c, as far as the limits leave room
\* beside what it held already.
UnitsMoved(c) ==
  \E a \in CartIds :
    /\ owner'[a] = Account
    /\ \A p \in Plans :
         quantity'[a][p] = Least(Limit[p], quantity[c][p]
           + (IF owner[a] = Account THEN quantity[a][p] ELSE 0))

\* A guest cart disappears only into the account's cart, with every unit the
\* plan's limit leaves room for beside what the account already holds, or in
\* the purge after thirty days without an edit.
GuestUnitsKept ==
  [][\A c \in CartIds : IsGuest(c) /\ owner'[c] \notin Keys =>
       (c \in old /\ owner'[c] = None) \/ UnitsMoved(c)]_cartsVars

\* What docs/architecture.md and ADR-0018 say of every sign-in: the visitor's
\* guest cart goes into the account's, so none is left with a key that the
\* sign-in rotated away.
SignInMergesCart ==
  \A c \in CartIds : IsGuest(c) /\ c \notin old => owner[c] \in live

=============================================================================
