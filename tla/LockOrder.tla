------------------------------ MODULE LockOrder ------------------------------
(***************************************************************************)
(* The lock statements of every transaction of the shop that locks more    *)
(* than one row, as programs of Locks, next to the order that              *)
(* docs/order-lifecycle.md gives for all of them.                          *)
(*                                                                         *)
(* Foreign keys are checked at commit, with a KeyShare of the row that is  *)
(* referred to.  Rows of the transaction's own need none; what is left are *)
(* the accounts that history rows name: the actor of an order event and    *)
(* the operator of an audit row of the panel.                              *)
(***************************************************************************)
EXTENDS Locks

\* select_for_update().order_by("pk")
InPkOrder(kind, ids) == [kind |-> kind, ids |-> ids, mode |-> "Update"]
One(kind, i) == InPkOrder(kind, {i})

\* Updates of columns that no key uses, row after row.
Updates(kind, rows) ==
  [n \in DOMAIN rows |-> [One(kind, rows[n]) EXCEPT !.mode = "NoKeyUpdate"]]

\* Mutant: the account's row is locked as the others are.
AccountForUpdate(a) == One("account", a)

\* select_for_update(no_key=True)
Account(a) == [One("account", a) EXCEPT !.mode = "NoKeyUpdate"]

\* The history row that names its author, checked at commit.
Author(as) == [InPkOrder("account", as) EXCEPT !.mode = "KeyShare"]

-----------------------------------------------------------------------------
(* Carts and sign-in *)

\* add_to_cart, set_quantity, remove_from_cart
EditGuestCart(s, c, p) == <<One("session", s), One("cart", c), One("plan", p)>>
EditAccountCart(a, c, p) == <<Account(a), One("cart", c), One("plan", p)>>

\* login_session, the password's or the code's account, merge_carts
SignIn(s, a, cs, ps) ==
  <<One("session", s), Account(a), InPkOrder("cart", cs), InPkOrder("plan", ps)>>

-----------------------------------------------------------------------------
(* Orders *)

\* Mutant: the cart that is bought is locked before its account.
CheckoutCartFirst(a, c, os, products, ps, codes, items) ==
  <<One("cart", c), Account(a), InPkOrder("order", os), InPkOrder("product", products),
    InPkOrder("plan", ps), InPkOrder("code", codes), InPkOrder("item", items)>>

\* checkout and the place_order inside it; os: the account's unpaid orders,
\* with their items and codes.
Checkout(a, c, os, products, ps, codes, items) ==
  <<Account(a), One("cart", c), InPkOrder("order", os), InPkOrder("product", products),
    InPkOrder("plan", ps), InPkOrder("code", codes), InPkOrder("item", items)>>

\* _cancel, of a customer, an operator or the sweep (no author)
Cancel(a, o, products, ps, codes, items, authors) ==
  <<Account(a), One("order", o), InPkOrder("product", products), InPkOrder("plan", ps),
    InPkOrder("code", codes), InPkOrder("item", items), Author(authors)>>

\* record_manual_payment, confirm_payment, mark_order_paid
Pay(a, o, payments, items, actor) ==
  <<Account(a), One("order", o), InPkOrder("payment", payments),
    InPkOrder("item", items), Author({actor})>>

\* request_input, save_input and the other steps of _input_item
TakeInput(a, o, i, actor) == <<Account(a), One("order", o), One("item", i), Author({actor})>>

-----------------------------------------------------------------------------
(* The panel, one object at a time *)

\* StockForm.clean: the plan's products, old and new, before the plan
StockForm(products, p, operator) ==
  <<InPkOrder("product", products), One("plan", p), Author({operator})>>

\* ProductAdmin.get_form, ProductAdmin.get_deleted_objects
ProductPage(products, ps, operator) ==
  <<InPkOrder("product", products), InPkOrder("plan", ps), Author({operator})>>

\* DiscountCodeAdmin.save_model
CodeForm(products, codes, operator) ==
  <<InPkOrder("product", products), InPkOrder("code", codes), Author({operator})>>

-----------------------------------------------------------------------------
(* The panel, many objects at a time: rows is the order in which they come. *)

\* ProductAdmin._set_status: one UPDATE of the products selected, as it
\* meets their rows
SetStatus(rows, operator) == Append(Updates("product", rows), Author({operator}))

\* Category.save after a new name: its products are saved in order of name
RenameCategory(rows, operator) == Append(Updates("product", rows), Author({operator}))

\* PlanAdmin.confirm_prices: one UPDATE of the plans selected
ConfirmPrices(rows) == Updates("plan", rows)

\* purge_guest_carts.  It runs once a night, and any other transaction has at
\* most one guest cart, so one cart stands for all.
PurgeGuestCarts(c) == <<One("cart", c)>>

-----------------------------------------------------------------------------
(* The documented order *)

Position ==
  [session |-> 1, account |-> 2, cart |-> 3, order |-> 4, payment |-> 5,
   product |-> 6, plan |-> 7, code |-> 8, item |-> 9]

\* A history row's KeyShare of an account never waits and lets all others by,
\* since every other lock of an account is a NoKeyUpdate.
Harmless(g) == g.kind = "account" /\ g.mode = "KeyShare"

InOrder(p) ==
  /\ \A n \in DOMAIN p : p[n].kind = "account" => p[n].mode # "Update"
  /\ \A m, n \in DOMAIN p :
       m < n /\ ~Harmless(p[n]) => ~Harmless(p[m]) /\ Position[p[m].kind] < Position[p[n].kind]

\* The accounts a transaction locks against others that lock them.
Serves(t) ==
  UNION {program[t][n].ids : n \in {m \in DOMAIN program[t] :
    program[t][m].kind = "account" /\ ~Harmless(program[t][m])}}

PastAccount(t) == \E h \in held[t] : Position[h.kind] > Position["account"]

\* The account's lock serialises what is done for a customer: of several
\* transactions that serve one account, only one has reached the rows behind it,
\* its cart, orders, payments and items.  decisions/0029 rests the rule of one
\* unpaid order on it, and Orders, Shopping and InputWait make a step of each
\* service because of it.
OneForEachAccount ==
  \A t, u \in Txns :
    t # u /\ PastAccount(t) /\ PastAccount(u) => Serves(t) \cap Serves(u) = {}

Some == SUBSET Ids

CartPaths ==
  {EditGuestCart(s, c, p) : s \in Ids, c \in Ids, p \in Ids}
    \cup {EditAccountCart(a, c, p) : a \in Ids, c \in Ids, p \in Ids}
    \cup {SignIn(s, a, cs, ps) : s \in Ids, a \in Ids, cs \in Some, ps \in Some}
    \cup {PurgeGuestCarts(c) : c \in Ids}

OrderPaths ==
  {Checkout(a, c, os, products, ps, codes, items) :
       a \in Ids, c \in Ids, os \in Some, products \in Some, ps \in Some,
       codes \in Some, items \in Some}
    \cup {Cancel(a, o, products, ps, codes, items, authors) :
       a \in Ids, o \in Ids, products \in Some, ps \in Some, codes \in Some,
       items \in Some, authors \in Some}
    \cup {Pay(a, o, payments, items, actor) :
       a \in Ids, o \in Ids, payments \in Some, items \in Some, actor \in Ids}
    \cup {TakeInput(a, o, i, actor) : a \in Ids, o \in Ids, i \in Ids, actor \in Ids}

PanelPaths ==
  {StockForm(products, p, operator) : products \in Some, p \in Ids, operator \in Ids}
    \cup {ProductPage(products, ps, operator) :
            products \in Some, ps \in Some, operator \in Ids}
    \cup {CodeForm(products, codes, operator) :
            products \in Some, codes \in Some, operator \in Ids}

OrderedPaths == CartPaths \cup OrderPaths \cup PanelPaths

=============================================================================
