------------------------------ MODULE Checkout ------------------------------
(***************************************************************************)
(* checkout() of src/checkout.ts and its HTTP edge, src/outbox/orders-api.ts:*)
(* any number of attempts run concurrently, each a PostgreSQL transaction  *)
(* at READ COMMITTED, one action per SQL statement.                        *)
(*                                                                         *)
(* The committed tables are stock, balance, keyRow, orders, jobs, outbox.  *)
(* A transaction's own writes (newStock, newBalance, inserted) are         *)
(* invisible until COMMIT; holder[x] is the transaction that has row x     *)
(* locked: the key it inserted, the product and the user it updated.       *)
(* An UPDATE stores the new VALUE of its row (a new row version), so two   *)
(* transactions that both updated one row would lose an update.            *)
(***************************************************************************)
EXTENDS Integers, FiniteSets

CONSTANTS Attempt, Key, Product, Buyer, Call, Price, InitialStock,
          InitialBalance, None

VARIABLES
  pc,               \* pc[a]: the statement attempt a executes next
  call, answer, replayOf,
  verdict,          \* verdict[a]: what a will answer once it has rolled back
  stock, balance, keyRow, orders, jobs, outbox,
  holder,
  newStock, newBalance, inserted,
  found             \* found[a]: the order a's replay SELECT returned

txvars == <<pc, verdict, holder, newStock, newBalance, inserted, found>>
tables == <<stock, balance, keyRow, orders, jobs, outbox>>
vars == <<txvars, call, answer, replayOf, tables>>

Atomic == INSTANCE AtomicCheckout

Row == Key \cup Product \cup Buyer

CallType == [key : Key \cup {None}, buyer : Buyer, product : Product,
             quantity : Nat \ {0}]

ASSUME CheckoutAssumption ==
  /\ None \notin Attempt \cup Row \cup Call
  /\ Key \cap Product = {} /\ Key \cap Buyer = {} /\ Product \cap Buyer = {}
  /\ Call \subseteq CallType
  /\ Price \in [Product -> Nat]
  /\ InitialStock \in [Product -> Nat]
  /\ InitialBalance \in [Buyer -> Nat]

Total(c) == Price[c.product] * c.quantity

\* Statements, in the order checkout() executes them.
Statement == {"claim", "replay", "stock", "balance", "order", "job", "link",
              "outbox", "commit", "rollback"}

Answer == {"none", "rejected", "placed", "replayed", "out_of_stock",
           "insufficient_funds", "failed"}

TypeOK ==
  /\ pc \in [Attempt -> Statement \cup {"idle", "done"}]
  /\ call \in [Attempt -> Call \cup {None}]
  /\ answer \in [Attempt -> Answer]
  /\ verdict \in [Attempt -> Answer]
  /\ replayOf \in [Attempt -> Attempt \cup {None}]
  /\ found \in [Attempt -> Attempt \cup {None}]
  /\ stock \in [Product -> Nat]
  /\ balance \in [Buyer -> Nat]
  /\ keyRow \in [Key -> Attempt \cup {None}]
  /\ orders \subseteq Attempt /\ jobs \subseteq Attempt /\ outbox \subseteq Attempt
  /\ holder \in [Row -> Attempt \cup {None}]
  /\ newStock \in [Attempt -> Nat]
  /\ newBalance \in [Attempt -> Nat]
  /\ inserted \in [Attempt -> SUBSET {"order", "job", "link", "outbox"}]

Init ==
  /\ pc = [a \in Attempt |-> "idle"]
  /\ call = [a \in Attempt |-> None]
  /\ answer = [a \in Attempt |-> "none"]
  /\ verdict = [a \in Attempt |-> "none"]
  /\ replayOf = [a \in Attempt |-> None]
  /\ found = [a \in Attempt |-> None]
  /\ stock = InitialStock
  /\ balance = InitialBalance
  /\ keyRow = [k \in Key |-> None]
  /\ orders = {} /\ jobs = {} /\ outbox = {}
  /\ holder = [x \in Row |-> None]
  /\ newStock = [a \in Attempt |-> 0]
  /\ newBalance = [a \in Attempt |-> 0]
  /\ inserted = [a \in Attempt |-> {}]

-----------------------------------------------------------------------------
At(a, statement) == pc[a] = statement
Goto(a, statement) == pc' = [pc EXCEPT ![a] = statement]

Lock(a, x) == holder[x] = None /\ holder' = [holder EXCEPT ![x] = a]
Unlock(a) == holder' = [x \in Row |-> IF holder[x] = a THEN None ELSE holder[x]]

Insert(a, what) == inserted' = [inserted EXCEPT ![a] = @ \cup {what}]

Decide(a, what) == verdict' = [verdict EXCEPT ![a] = what] /\ Goto(a, "rollback")

\* 404, 400 and 422: the HTTP edge answers without calling checkout().
Reject(a) ==
  /\ At(a, "idle")
  /\ Goto(a, "done")
  /\ answer' = [answer EXCEPT ![a] = "rejected"]
  /\ UNCHANGED <<call, replayOf, verdict, found, holder, newStock, newBalance, inserted,
                 tables>>

\* BEGIN. Only a call with an Idempotency-Key starts by claiming it.
Begin(a) ==
  /\ At(a, "idle")
  /\ \E c \in Call :
       /\ call' = [call EXCEPT ![a] = c]
       /\ Goto(a, IF c.key = None THEN "stock" ELSE "claim")
  /\ UNCHANGED <<answer, replayOf, verdict, found, holder, newStock, newBalance, inserted,
                 tables>>

\* Mutant: a SELECT for the key, then an INSERT that does not wait.
ClaimKeyUnlocked(a) ==
  /\ At(a, "claim")
  /\ keyRow[call[a].key] = None
  /\ holder' = [holder EXCEPT ![call[a].key] = a]
  /\ Goto(a, "stock")
  /\ UNCHANGED <<call, answer, replayOf, verdict, found, newStock, newBalance,
                 inserted, tables>>

\* INSERT ... ON CONFLICT DO NOTHING inserted the key. While another
\* transaction holds an uncommitted row of this key the statement waits.
ClaimKey(a) ==
  /\ At(a, "claim")
  /\ keyRow[call[a].key] = None
  /\ Lock(a, call[a].key)
  /\ Goto(a, "stock")
  /\ UNCHANGED <<call, answer, replayOf, verdict, found, newStock, newBalance, inserted,
                 tables>>

\* The key is already committed: nothing inserted.
KeyConflict(a) ==
  /\ At(a, "claim")
  /\ keyRow[call[a].key] # None
  /\ Goto(a, "replay")
  /\ UNCHANGED <<call, answer, replayOf, verdict, found, holder, newStock, newBalance,
                 inserted, tables>>

\* Mutant: the WHERE k.key = $1 of the replay SELECT is missing.
ReadReplayAnyKey(a) ==
  /\ At(a, "replay")
  /\ \E prev \in orders :
       Decide(a, "replayed") /\ found' = [found EXCEPT ![a] = prev]
  /\ UNCHANGED <<call, answer, replayOf, holder, newStock, newBalance, inserted,
                 tables>>

\* SELECT ... JOIN orders; prev[0]! is a TypeError when the join is empty.
ReadReplay(a) ==
  /\ At(a, "replay")
  /\ LET prev == keyRow[call[a].key] IN
       IF prev \in orders
         THEN /\ Decide(a, "replayed")
              /\ found' = [found EXCEPT ![a] = prev]
         ELSE Decide(a, "failed") /\ UNCHANGED found
  /\ UNCHANGED <<call, answer, replayOf, holder, newStock, newBalance, inserted, tables>>

\* UPDATE products ... WHERE stock >= $1 matched. A row locked by another
\* transaction is waited for, and its condition is evaluated again then.
TakeStock(a) ==
  LET c == call[a] IN
  /\ At(a, "stock")
  /\ stock[c.product] >= c.quantity
  /\ Lock(a, c.product)
  /\ newStock' = [newStock EXCEPT ![a] = stock[c.product] - c.quantity]
  /\ Goto(a, "balance")
  /\ UNCHANGED <<call, answer, replayOf, verdict, found, newBalance, inserted, tables>>

\* Mutant: the last unit in stock is never sold (stock > $1).
OutOfStockEarly(a) ==
  /\ At(a, "stock")
  /\ stock[call[a].product] <= call[a].quantity
  /\ Decide(a, "out_of_stock")
  /\ UNCHANGED <<call, answer, replayOf, found, holder, newStock, newBalance,
                 inserted, tables>>

\* It matched no row: the committed version does not qualify, locked or not.
OutOfStock(a) ==
  /\ At(a, "stock")
  /\ stock[call[a].product] < call[a].quantity
  /\ Decide(a, "out_of_stock")
  /\ UNCHANGED <<call, answer, replayOf, found, holder, newStock, newBalance,
                 inserted, tables>>

\* Mutant: the balance is read and written back without a row lock.
TakeBalanceUnlocked(a) ==
  LET c == call[a] IN
  /\ At(a, "balance")
  /\ balance[c.buyer] >= Total(c)
  /\ newBalance' = [newBalance EXCEPT ![a] = balance[c.buyer] - Total(c)]
  /\ Goto(a, "order")
  /\ UNCHANGED <<call, answer, replayOf, verdict, found, holder, newStock, inserted,
                 tables>>

TakeBalance(a) ==
  LET c == call[a] IN
  /\ At(a, "balance")
  /\ balance[c.buyer] >= Total(c)
  /\ Lock(a, c.buyer)
  /\ newBalance' = [newBalance EXCEPT ![a] = balance[c.buyer] - Total(c)]
  /\ Goto(a, "order")
  /\ UNCHANGED <<call, answer, replayOf, verdict, found, newStock, inserted, tables>>

InsufficientFunds(a) ==
  /\ At(a, "balance")
  /\ balance[call[a].buyer] < Total(call[a])
  /\ Decide(a, "insufficient_funds")
  /\ UNCHANGED <<call, answer, replayOf, found, holder, newStock, newBalance,
                 inserted, tables>>

\* INSERT INTO orders and order_items.
InsertOrder(a) ==
  /\ At(a, "order")
  /\ Insert(a, "order")
  /\ Goto(a, "job")
  /\ UNCHANGED <<call, answer, replayOf, verdict, found, holder, newStock, newBalance,
                 tables>>

\* Mutant: the key row is never given its order_id.
InsertJobNoLink(a) ==
  /\ At(a, "job")
  /\ Insert(a, "job")
  /\ Goto(a, "outbox")
  /\ UNCHANGED <<call, answer, replayOf, verdict, found, holder, newStock, newBalance,
                 tables>>

InsertJob(a) ==
  /\ At(a, "job")
  /\ Insert(a, "job")
  /\ Goto(a, IF call[a].key = None THEN "outbox" ELSE "link")
  /\ UNCHANGED <<call, answer, replayOf, verdict, found, holder, newStock, newBalance,
                 tables>>

\* UPDATE idempotency_keys SET order_id.
LinkKey(a) ==
  /\ At(a, "link")
  /\ Insert(a, "link")
  /\ Goto(a, "outbox")
  /\ UNCHANGED <<call, answer, replayOf, verdict, found, holder, newStock, newBalance,
                 tables>>

InsertOutbox(a) ==
  /\ At(a, "outbox")
  /\ Insert(a, "outbox")
  /\ Goto(a, "commit")
  /\ UNCHANGED <<call, answer, replayOf, verdict, found, holder, newStock, newBalance,
                 tables>>

\* COMMIT makes every write of the transaction visible and frees its locks.
\* The answer can be lost on the way: checkout() then throws (500) although
\* the order stands.
Commit(a) ==
  LET c == call[a]
      Add(table, what) == IF what \in inserted[a] THEN table \cup {a} ELSE table
  IN
  /\ At(a, "commit")
  /\ stock' = [stock EXCEPT ![c.product] = newStock[a]]
  /\ balance' = [balance EXCEPT ![c.buyer] = newBalance[a]]
  /\ orders' = Add(orders, "order")
  /\ jobs' = Add(jobs, "job")
  /\ outbox' = Add(outbox, "outbox")
  /\ keyRow' = [k \in Key |-> IF k = c.key /\ "link" \in inserted[a]
                                THEN a ELSE keyRow[k]]
  /\ Unlock(a)
  /\ \E what \in {"placed", "failed"} : answer' = [answer EXCEPT ![a] = what]
  /\ Goto(a, "done")
  /\ UNCHANGED <<call, replayOf, verdict, found, newStock, newBalance, inserted>>

\* Mutant: an early return without rollbackTransaction().
RollbackForgotten(a) ==
  /\ At(a, "rollback")
  /\ answer' = [answer EXCEPT ![a] = verdict[a]]
  /\ replayOf' = [replayOf EXCEPT ![a] = IF verdict[a] = "replayed" THEN found[a] ELSE None]
  /\ Goto(a, "done")
  /\ UNCHANGED <<call, verdict, found, holder, newStock, newBalance, inserted, tables>>

\* ROLLBACK frees the locks and forgets the writes; then the caller is told.
Rollback(a) ==
  /\ At(a, "rollback")
  /\ Unlock(a)
  /\ answer' = [answer EXCEPT ![a] = verdict[a]]
  /\ replayOf' = [replayOf EXCEPT ![a] = IF verdict[a] = "replayed" THEN found[a] ELSE None]
  /\ Goto(a, "done")
  /\ UNCHANGED <<call, verdict, found, newStock, newBalance, inserted, tables>>

\* Any statement may throw, and the process or its connection may die: the
\* transaction rolls back and the caller sees 500 or nothing at all.
Throw(a) ==
  /\ pc[a] \in Statement
  /\ Decide(a, "failed")
  /\ UNCHANGED <<call, answer, replayOf, found, holder, newStock, newBalance,
                 inserted, tables>>

Step(a) ==
  \/ ClaimKey(a) \/ KeyConflict(a) \/ ReadReplay(a)
  \/ TakeStock(a) \/ OutOfStock(a) \/ TakeBalance(a) \/ InsufficientFunds(a)
  \/ InsertOrder(a) \/ InsertJob(a) \/ LinkKey(a) \/ InsertOutbox(a)
  \/ Commit(a) \/ Rollback(a)

AllDone == (\A a \in Attempt : pc[a] = "done") /\ UNCHANGED vars

Next ==
  \/ \E a \in Attempt : Reject(a) \/ Begin(a) \/ Step(a) \/ Throw(a)
  \/ AllDone

Spec == Init /\ [][Next]_vars

\* A handler that has begun keeps executing statements that can run:
\* PostgreSQL grants a free lock and Node resumes the awaiting handler.
\* Arrivals and failures are not fair.
FairSpec == Spec /\ \A a \in Attempt : WF_vars(Step(a))
-----------------------------------------------------------------------------
(* Properties *)

\* Committed rows of one checkout appear together (checkout.ts: "COMMIT
\* one"): an order has its job and its event, no job or event is an orphan,
\* and an order placed under a key is the one its key row names. In a
\* committed key row order_id is never NULL (migrations/...-Outbox.ts).
RowsTogether ==
  /\ jobs = orders /\ outbox = orders
  /\ \A a \in orders : call[a].key # None => keyRow[call[a].key] = a
  /\ \A k \in Key : keyRow[k] # None => keyRow[k] \in orders

\* The single units of p that the standing orders bought, and the single units
\* of money that the standing orders of b cost: their number is a sum.
Units(p) == UNION {{o} \X (1..call[o].quantity) : o \in {x \in orders : call[x].product = p}}
Spent(b) == UNION {{o} \X (1..Total(call[o])) : o \in {x \in orders : call[x].buyer = b}}

\* Nothing is created or lost: what left the stock of a product is what the
\* standing orders bought of it, and what left a buyer's balance is what the
\* buyer's standing orders cost. Two overlapping UPDATEs never lose one.
LedgerBalanced ==
  /\ \A p \in Product : InitialStock[p] - stock[p] = Cardinality(Units(p))
  /\ \A b \in Buyer : InitialBalance[b] - balance[b] = Cardinality(Spent(b))

\* One intent, one order: attempts that share an Idempotency-Key place at
\* most one order between them, however they overlap, fail or are retried.
OneOrderPerKey ==
  \A a, b \in orders : call[a].key = call[b].key /\ call[a].key # None => a = b

\* What the caller was told is so: "placed" means the order stands, and a
\* replayed answer names a standing order placed under the caller's own key.
AnswersTrue ==
  \A a \in Attempt :
    /\ answer[a] = "placed" => a \in orders
    /\ answer[a] = "replayed" =>
         /\ replayOf[a] \in orders
         /\ call[replayOf[a]].key = call[a].key
    /\ answer[a] \in {"out_of_stock", "insufficient_funds", "rejected"} =>
         a \notin orders

\* The statements of concurrent transactions amount to indivisible
\* purchases: checkout() implements AtomicCheckout.
ImplementsAtomic == Atomic!Spec

\* The fixed lock order key, product, user leaves no attempt waiting for
\* ever: every attempt that begins is answered.
EveryAttemptAnswered ==
  \A a \in Attempt : pc[a] # "idle" ~> answer[a] # "none"
-----------------------------------------------------------------------------
(* The inductive invariant behind these properties: which locks a          *)
(* transaction holds at each statement, and what its writes are worth.     *)

AfterBalance == {"order", "job", "link", "outbox", "commit"}
AfterStock == AfterBalance \cup {"balance"}
AfterClaim == AfterStock \cup {"stock"}

Keyed(a) == call[a].key # None

Called ==
  \A a \in Attempt :
    /\ call[a] = None => pc[a] \in {"idle", "done"} /\ a \notin orders
    /\ pc[a] = "idle" => call[a] = None
    /\ pc[a] \in {"claim", "replay", "link"} => Keyed(a)

\* A lock is held from its statement to the end of the transaction, so the
\* row version a transaction wrote is still based on the committed one.
LocksHeld ==
  \A a \in Attempt :
    /\ pc[a] \in AfterClaim /\ Keyed(a) =>
         holder[call[a].key] = a /\ keyRow[call[a].key] = None
    /\ pc[a] \in AfterStock =>
         /\ holder[call[a].product] = a
         /\ newStock[a] = stock[call[a].product] - call[a].quantity
    /\ pc[a] \in AfterBalance =>
         /\ holder[call[a].buyer] = a
         /\ newBalance[a] = balance[call[a].buyer] - Total(call[a])

\* What a transaction has inserted when it reaches each statement.
WritesSoFar ==
  \A a \in Attempt :
    /\ pc[a] \in {"idle", "claim", "stock", "balance", "order"} => inserted[a] = {}
    /\ pc[a] = "job" => inserted[a] = {"order"}
    /\ pc[a] = "link" => inserted[a] = {"order", "job"}
    /\ pc[a] = "outbox" =>
         inserted[a] = {"order", "job"} \cup (IF Keyed(a) THEN {"link"} ELSE {})
    /\ pc[a] = "commit" =>
         inserted[a] = {"order", "job", "outbox"}
                         \cup (IF Keyed(a) THEN {"link"} ELSE {})

\* A verdict reached before ROLLBACK still holds after it: stock and
\* balances only fall, and a committed key row stays.
VerdictsStand ==
  \A a \in Attempt :
    /\ pc[a] = "replay" => keyRow[call[a].key] # None
    /\ pc[a] = "rollback" =>
         verdict[a] \in {"replayed", "out_of_stock", "insufficient_funds", "failed"}
    /\ pc[a] = "rollback" /\ verdict[a] = "replayed" =>
         Keyed(a) /\ found[a] # None /\ found[a] = keyRow[call[a].key]
    /\ pc[a] = "rollback" /\ verdict[a] = "out_of_stock" =>
         stock[call[a].product] < call[a].quantity
    /\ pc[a] = "rollback" /\ verdict[a] = "insufficient_funds" =>
         balance[call[a].buyer] < Total(call[a])

\* Only finished attempts have an answer or an order.
Settled ==
  /\ \A a \in Attempt :
       /\ answer[a] = "none" <=> pc[a] # "done"
       /\ replayOf[a] # None => pc[a] = "done"
       /\ a \in orders => pc[a] = "done" /\ answer[a] \in {"placed", "failed"}
  /\ \A k \in Key : keyRow[k] # None => call[keyRow[k]].key = k

IInv ==
  /\ TypeOK
  /\ Called
  /\ LocksHeld
  /\ WritesSoFar
  /\ VerdictsStand
  /\ Settled
  /\ RowsTogether
  /\ AnswersTrue

\* With LedgerBalanced: the books are finite, so that a purchase adds to them.
LedgerInv ==
  /\ LedgerBalanced
  /\ \A p \in Product : IsFiniteSet(Units(p))
  /\ \A b \in Buyer : IsFiniteSet(Spent(b))
=============================================================================
