--------------------------- MODULE AtomicCheckout ---------------------------
(***************************************************************************)
(* What checkout() promises to its callers, with no transactions, locks or *)
(* statements in sight: every attempt takes effect in one indivisible step *)
(* or not at all, and whatever it answers is true at the moment it answers.*)
(*                                                                         *)
(* Checkout.tla is the detailed specification that implements this one.    *)
(* An order is named by the attempt that placed it.                        *)
(***************************************************************************)
EXTENDS Integers

CONSTANTS
  Attempt,          \* calls of checkout() (HTTP requests, retries included)
  Key,              \* idempotency keys
  Product,
  Buyer,
  Call,             \* the arguments an attempt may be called with
  Price,            \* products.price
  InitialStock,     \* products.stock before the first attempt
  InitialBalance,   \* users.balance before the first attempt
  None              \* SQL NULL, "no row", "nobody"

VARIABLES
  call,             \* call[a]: the arguments of attempt a
  answer,           \* answer[a]: what the caller of a was told
  replayOf,         \* replayOf[a]: the order a replayed answer names
  stock, balance,   \* products.stock, users.balance
  keyRow,           \* keyRow[k]: idempotency_keys.order_id of key k
  orders,           \* orders (with their order_items)
  jobs,             \* job_queue rows, by order
  outbox            \* outbox rows, by order

avars == <<call, answer, replayOf, stock, balance, keyRow, orders, jobs, outbox>>

ledger == <<stock, balance, keyRow, orders, jobs, outbox>>

Total(c) == Price[c.product] * c.quantity

Init ==
  /\ call = [a \in Attempt |-> None]
  /\ answer = [a \in Attempt |-> "none"]
  /\ replayOf = [a \in Attempt |-> None]
  /\ stock = InitialStock
  /\ balance = InitialBalance
  /\ keyRow = [k \in Key |-> None]
  /\ orders = {}
  /\ jobs = {}
  /\ outbox = {}

Pending(a) == call[a] # None /\ answer[a] = "none"

Respond(a, what, order) ==
  /\ Pending(a)
  /\ answer' = [answer EXCEPT ![a] = what]
  /\ replayOf' = [replayOf EXCEPT ![a] = order]
  /\ UNCHANGED call

Receive(a) ==
  /\ call[a] = None /\ answer[a] = "none"
  /\ \E c \in Call : call' = [call EXCEPT ![a] = c]
  /\ UNCHANGED <<answer, replayOf, ledger>>

\* A malformed request never reaches the ledger.
Reject(a) ==
  /\ call[a] = None /\ answer[a] = "none"
  /\ answer' = [answer EXCEPT ![a] = "rejected"]
  /\ UNCHANGED <<call, replayOf, ledger>>

\* The whole purchase at once: goods, money, order, job, key and event. The
\* caller is told, or loses the answer ("failed") although the order stands.
Place(a) ==
  LET c == call[a] IN
  /\ \E what \in {"placed", "failed"} : Respond(a, what, None)
  /\ c.key # None => keyRow[c.key] = None
  /\ stock[c.product] >= c.quantity
  /\ balance[c.buyer] >= Total(c)
  /\ stock' = [stock EXCEPT ![c.product] = @ - c.quantity]
  /\ balance' = [balance EXCEPT ![c.buyer] = @ - Total(c)]
  /\ keyRow' = [k \in Key |-> IF k = c.key THEN a ELSE keyRow[k]]
  /\ orders' = orders \cup {a}
  /\ jobs' = jobs \cup {a}
  /\ outbox' = outbox \cup {a}

\* A retry of an intent that already became an order names that very order.
Replay(a) ==
  /\ call[a].key # None
  /\ keyRow[call[a].key] \in orders
  /\ Respond(a, "replayed", keyRow[call[a].key])
  /\ UNCHANGED ledger

RefuseStock(a) ==
  /\ stock[call[a].product] < call[a].quantity
  /\ Respond(a, "out_of_stock", None)
  /\ UNCHANGED ledger

RefuseFunds(a) ==
  /\ balance[call[a].buyer] < Total(call[a])
  /\ Respond(a, "insufficient_funds", None)
  /\ UNCHANGED ledger

\* An error: nothing happened.
Fail(a) == Respond(a, "failed", None) /\ UNCHANGED ledger

Next ==
  \E a \in Attempt :
    \/ Receive(a)
    \/ Reject(a)
    \/ Place(a)
    \/ Pending(a) /\ (Replay(a) \/ RefuseStock(a) \/ RefuseFunds(a))
    \/ Fail(a)

Spec == Init /\ [][Next]_avars
=============================================================================
