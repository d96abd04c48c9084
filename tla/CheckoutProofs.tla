--------------------------- MODULE CheckoutProofs ---------------------------
(***************************************************************************)
(* Theorems about Checkout for every set of attempts, keys, products,      *)
(* buyers and calls: the invariants the runs check on small shops, and     *)
(* that the transactions implement indivisible purchases.                  *)
(***************************************************************************)
EXTENDS Checkout, FiniteSetTheorems, TLAPS

\* A call has the fields checkout() takes; its total is a natural number.
LEMMA CallFields ==
  ASSUME NEW c \in Call
  PROVE  /\ c # None
         /\ c.key \in Key \cup {None}
         /\ c.buyer \in Buyer
         /\ c.product \in Product
         /\ c.quantity \in Nat
         /\ c.quantity > 0
         /\ Total(c) \in Nat
<1>1. c \in CallType /\ c # None
  BY CheckoutAssumption
<1>2. /\ c.key \in Key \cup {None} /\ c.buyer \in Buyer /\ c.product \in Product
      /\ c.quantity \in Nat /\ c.quantity > 0
  BY <1>1 DEF CallType
<1>3. Price[c.product] \in Nat
  BY <1>2, CheckoutAssumption
<1>4. \A m, n \in Nat : m * n \in Nat
  OBVIOUS
<1>5. Total(c) \in Nat
  BY <1>2, <1>3, <1>4 DEF Total
<1>6. QED
  BY <1>1, <1>2, <1>5

\* The rows a transaction locks are rows, and rows of different tables.
LEMMA RowFacts ==
  /\ None \notin Row /\ None \notin Attempt /\ None \notin Key
  /\ Key \subseteq Row /\ Product \subseteq Row /\ Buyer \subseteq Row
  /\ Key \cap Product = {} /\ Key \cap Buyer = {} /\ Product \cap Buyer = {}
BY CheckoutAssumption DEF Row

\* At first no attempt has begun.
LEMMA InitIInv == Init => IInv
<1> SUFFICES ASSUME Init PROVE IInv
  OBVIOUS
<1>1. TypeOK
  BY CheckoutAssumption DEF Init, TypeOK, Answer
<1>2. Called /\ LocksHeld
  BY DEF Init, Called, LocksHeld, Keyed, AfterClaim, AfterStock, AfterBalance
<1>3. WritesSoFar /\ VerdictsStand
  BY DEF Init, WritesSoFar, VerdictsStand
<1>4. Settled /\ RowsTogether /\ AnswersTrue
  BY DEF Init, Settled, RowsTogether, AnswersTrue
<1>5. QED
  BY <1>1, <1>2, <1>3, <1>4 DEF IInv
LEMMA BeginPreserves ==
  ASSUME IInv, NEW a \in Attempt, Begin(a)
  PROVE  IInv'
<1> USE CallFields, RowFacts DEF IInv
<1>1. TypeOK'
  BY DEF TypeOK, Answer, Statement, Begin, At, Goto, tables, LocksHeld, Called, AfterStock, AfterBalance
<1>2. Called'
  BY DEF TypeOK, Called, Keyed, Begin, At, Goto, tables
<1>3. LocksHeld'
  BY DEF TypeOK, Called, LocksHeld, Keyed, AfterClaim, AfterStock, AfterBalance, Begin, At, Goto, tables
<1>4. WritesSoFar'
  BY DEF TypeOK, Called, WritesSoFar, Keyed, Begin, At, Goto, tables
<1>5. VerdictsStand'
  BY DEF TypeOK, Called, VerdictsStand, RowsTogether, Keyed, Begin, At, Goto, tables
<1>6. Settled'
  BY DEF TypeOK, Called, Settled, RowsTogether, Begin, At, Goto, tables
<1>7. RowsTogether'
  BY DEF TypeOK, Called, RowsTogether, Begin, At, Goto, tables
<1>8. AnswersTrue'
  BY DEF TypeOK, Called, Settled, VerdictsStand, RowsTogether, AnswersTrue, Begin, At, Goto, tables
<1>9. QED
  BY <1>1, <1>2, <1>3, <1>4, <1>5, <1>6, <1>7, <1>8

LEMMA RejectPreserves ==
  ASSUME IInv, NEW a \in Attempt, Reject(a)
  PROVE  IInv'
<1> USE CallFields, RowFacts DEF IInv
<1>1. TypeOK'
  BY DEF TypeOK, Answer, Statement, Reject, At, Goto, tables, LocksHeld, Called, AfterStock, AfterBalance
<1>2. Called'
  BY DEF TypeOK, Called, Keyed, Reject, At, Goto, tables
<1>3. LocksHeld'
  BY DEF TypeOK, Called, LocksHeld, Keyed, AfterClaim, AfterStock, AfterBalance, Reject, At, Goto, tables
<1>4. WritesSoFar'
  BY DEF TypeOK, Called, WritesSoFar, Keyed, Reject, At, Goto, tables
<1>5. VerdictsStand'
  BY DEF TypeOK, Called, VerdictsStand, RowsTogether, Keyed, Reject, At, Goto, tables
<1>6. Settled'
  BY DEF TypeOK, Called, Settled, Reject, At, Goto, tables
<1>7. RowsTogether'
  BY DEF TypeOK, Called, RowsTogether, Reject, At, Goto, tables
<1>8. AnswersTrue'
  BY DEF TypeOK, Called, Settled, VerdictsStand, RowsTogether, AnswersTrue, Reject, At, Goto, tables
<1>9. QED
  BY <1>1, <1>2, <1>3, <1>4, <1>5, <1>6, <1>7, <1>8

LEMMA ClaimKeyPreserves ==
  ASSUME IInv, NEW a \in Attempt, ClaimKey(a)
  PROVE  IInv'
<1> USE CallFields, RowFacts DEF IInv
<1>1. TypeOK'
  BY DEF TypeOK, Answer, Statement, ClaimKey, At, Goto, Lock, tables, LocksHeld, Called, AfterStock, AfterBalance
<1>2. Called'
  BY DEF TypeOK, Called, Keyed, ClaimKey, At, Goto, Lock, tables
<1>3. LocksHeld'
  BY DEF TypeOK, Called, LocksHeld, Keyed, AfterClaim, AfterStock, AfterBalance, ClaimKey, At, Goto, Lock, tables
<1>4. WritesSoFar'
  BY DEF TypeOK, Called, WritesSoFar, Keyed, ClaimKey, At, Goto, Lock, tables
<1>5. VerdictsStand'
  BY DEF TypeOK, Called, VerdictsStand, RowsTogether, Keyed, ClaimKey, At, Goto, Lock, tables
<1>6. Settled'
  BY DEF TypeOK, Called, Settled, ClaimKey, At, Goto, Lock, tables
<1>7. RowsTogether'
  BY DEF TypeOK, Called, RowsTogether, ClaimKey, At, Goto, Lock, tables
<1>8. AnswersTrue'
  BY DEF TypeOK, Called, Settled, VerdictsStand, RowsTogether, AnswersTrue, ClaimKey, At, Goto, Lock, tables
<1>9. QED
  BY <1>1, <1>2, <1>3, <1>4, <1>5, <1>6, <1>7, <1>8

LEMMA KeyConflictPreserves ==
  ASSUME IInv, NEW a \in Attempt, KeyConflict(a)
  PROVE  IInv'
<1> USE CallFields, RowFacts DEF IInv
<1>1. TypeOK'
  BY DEF TypeOK, Answer, Statement, KeyConflict, At, Goto, tables, LocksHeld, Called, AfterStock, AfterBalance
<1>2. Called'
  BY DEF TypeOK, Called, Keyed, KeyConflict, At, Goto, tables
<1>3. LocksHeld'
  BY DEF TypeOK, Called, LocksHeld, Keyed, AfterClaim, AfterStock, AfterBalance, KeyConflict, At, Goto, tables
<1>4. WritesSoFar'
  BY DEF TypeOK, Called, WritesSoFar, Keyed, KeyConflict, At, Goto, tables
<1>5. VerdictsStand'
  BY DEF TypeOK, Called, VerdictsStand, RowsTogether, Keyed, KeyConflict, At, Goto, tables
<1>6. Settled'
  BY DEF TypeOK, Called, Settled, KeyConflict, At, Goto, tables
<1>7. RowsTogether'
  BY DEF TypeOK, Called, RowsTogether, KeyConflict, At, Goto, tables
<1>8. AnswersTrue'
  BY DEF TypeOK, Called, Settled, VerdictsStand, RowsTogether, AnswersTrue, KeyConflict, At, Goto, tables
<1>9. QED
  BY <1>1, <1>2, <1>3, <1>4, <1>5, <1>6, <1>7, <1>8

LEMMA ReadReplayPreserves ==
  ASSUME IInv, NEW a \in Attempt, ReadReplay(a)
  PROVE  IInv'
<1> USE CallFields, RowFacts DEF IInv
<1>1. TypeOK'
  BY DEF TypeOK, Answer, Statement, ReadReplay, At, Goto, Decide, tables, LocksHeld, Called, AfterStock, AfterBalance
<1>2. Called'
  BY DEF TypeOK, Called, Keyed, ReadReplay, At, Goto, Decide, tables
<1>3. LocksHeld'
  BY DEF TypeOK, Called, LocksHeld, Keyed, AfterClaim, AfterStock, AfterBalance, ReadReplay, At, Goto, Decide, tables
<1>4. WritesSoFar'
  BY DEF TypeOK, Called, WritesSoFar, Keyed, ReadReplay, At, Goto, Decide, tables
<1>5. VerdictsStand'
  BY DEF TypeOK, Called, VerdictsStand, RowsTogether, Keyed, ReadReplay, At, Goto, Decide, tables
<1>6. Settled'
  BY DEF TypeOK, Called, Settled, ReadReplay, At, Goto, Decide, tables
<1>7. RowsTogether'
  BY DEF TypeOK, Called, RowsTogether, ReadReplay, At, Goto, Decide, tables
<1>8. AnswersTrue'
  BY DEF TypeOK, Called, Settled, VerdictsStand, RowsTogether, AnswersTrue, ReadReplay, At, Goto, Decide, tables
<1>9. QED
  BY <1>1, <1>2, <1>3, <1>4, <1>5, <1>6, <1>7, <1>8

LEMMA TakeStockPreserves ==
  ASSUME IInv, NEW a \in Attempt, TakeStock(a)
  PROVE  IInv'
<1> USE CallFields, RowFacts DEF IInv
<1>1. TypeOK'
  BY DEF TypeOK, Answer, Statement, TakeStock, At, Goto, Lock, tables, LocksHeld, Called, AfterStock, AfterBalance
<1>2. Called'
  BY DEF TypeOK, Called, Keyed, TakeStock, At, Goto, Lock, tables
<1>3. LocksHeld'
  BY DEF TypeOK, Called, LocksHeld, Keyed, AfterClaim, AfterStock, AfterBalance, TakeStock, At, Goto, Lock, tables
<1>4. WritesSoFar'
  BY DEF TypeOK, Called, WritesSoFar, Keyed, TakeStock, At, Goto, Lock, tables
<1>5. VerdictsStand'
  BY DEF TypeOK, Called, VerdictsStand, RowsTogether, Keyed, TakeStock, At, Goto, Lock, tables
<1>6. Settled'
  BY DEF TypeOK, Called, Settled, TakeStock, At, Goto, Lock, tables
<1>7. RowsTogether'
  BY DEF TypeOK, Called, RowsTogether, TakeStock, At, Goto, Lock, tables
<1>8. AnswersTrue'
  BY DEF TypeOK, Called, Settled, VerdictsStand, RowsTogether, AnswersTrue, TakeStock, At, Goto, Lock, tables
<1>9. QED
  BY <1>1, <1>2, <1>3, <1>4, <1>5, <1>6, <1>7, <1>8

LEMMA OutOfStockPreserves ==
  ASSUME IInv, NEW a \in Attempt, OutOfStock(a)
  PROVE  IInv'
<1> USE CallFields, RowFacts DEF IInv
<1>1. TypeOK'
  BY DEF TypeOK, Answer, Statement, OutOfStock, At, Goto, Decide, tables, LocksHeld, Called, AfterStock, AfterBalance
<1>2. Called'
  BY DEF TypeOK, Called, Keyed, OutOfStock, At, Goto, Decide, tables
<1>3. LocksHeld'
  BY DEF TypeOK, Called, LocksHeld, Keyed, AfterClaim, AfterStock, AfterBalance, OutOfStock, At, Goto, Decide, tables
<1>4. WritesSoFar'
  BY DEF TypeOK, Called, WritesSoFar, Keyed, OutOfStock, At, Goto, Decide, tables
<1>5. VerdictsStand'
  BY DEF TypeOK, Called, VerdictsStand, RowsTogether, Keyed, OutOfStock, At, Goto, Decide, tables
<1>6. Settled'
  BY DEF TypeOK, Called, Settled, OutOfStock, At, Goto, Decide, tables
<1>7. RowsTogether'
  BY DEF TypeOK, Called, RowsTogether, OutOfStock, At, Goto, Decide, tables
<1>8. AnswersTrue'
  BY DEF TypeOK, Called, Settled, VerdictsStand, RowsTogether, AnswersTrue, OutOfStock, At, Goto, Decide, tables
<1>9. QED
  BY <1>1, <1>2, <1>3, <1>4, <1>5, <1>6, <1>7, <1>8

LEMMA TakeBalancePreserves ==
  ASSUME IInv, NEW a \in Attempt, TakeBalance(a)
  PROVE  IInv'
<1> USE CallFields, RowFacts DEF IInv
<1>1. TypeOK'
  BY DEF TypeOK, Answer, Statement, TakeBalance, At, Goto, Lock, tables, LocksHeld, Called, AfterStock, AfterBalance
<1>2. Called'
  BY DEF TypeOK, Called, Keyed, TakeBalance, At, Goto, Lock, tables
<1>3. LocksHeld'
  BY DEF TypeOK, Called, LocksHeld, Keyed, AfterClaim, AfterStock, AfterBalance, TakeBalance, At, Goto, Lock, tables
<1>4. WritesSoFar'
  BY DEF TypeOK, Called, WritesSoFar, Keyed, TakeBalance, At, Goto, Lock, tables
<1>5. VerdictsStand'
  BY DEF TypeOK, Called, VerdictsStand, RowsTogether, Keyed, TakeBalance, At, Goto, Lock, tables
<1>6. Settled'
  BY DEF TypeOK, Called, Settled, TakeBalance, At, Goto, Lock, tables
<1>7. RowsTogether'
  BY DEF TypeOK, Called, RowsTogether, TakeBalance, At, Goto, Lock, tables
<1>8. AnswersTrue'
  BY DEF TypeOK, Called, Settled, VerdictsStand, RowsTogether, AnswersTrue, TakeBalance, At, Goto, Lock, tables
<1>9. QED
  BY <1>1, <1>2, <1>3, <1>4, <1>5, <1>6, <1>7, <1>8

LEMMA InsufficientFundsPreserves ==
  ASSUME IInv, NEW a \in Attempt, InsufficientFunds(a)
  PROVE  IInv'
<1> USE CallFields, RowFacts DEF IInv
<1>1. TypeOK'
  BY DEF TypeOK, Answer, Statement, InsufficientFunds, At, Goto, Decide, tables, LocksHeld, Called, AfterStock, AfterBalance
<1>2. Called'
  BY DEF TypeOK, Called, Keyed, InsufficientFunds, At, Goto, Decide, tables
<1>3. LocksHeld'
  BY DEF TypeOK, Called, LocksHeld, Keyed, AfterClaim, AfterStock, AfterBalance, InsufficientFunds, At, Goto, Decide, tables
<1>4. WritesSoFar'
  BY DEF TypeOK, Called, WritesSoFar, Keyed, InsufficientFunds, At, Goto, Decide, tables
<1>5. VerdictsStand'
  BY DEF TypeOK, Called, VerdictsStand, RowsTogether, Keyed, InsufficientFunds, At, Goto, Decide, tables
<1>6. Settled'
  BY DEF TypeOK, Called, Settled, InsufficientFunds, At, Goto, Decide, tables
<1>7. RowsTogether'
  BY DEF TypeOK, Called, RowsTogether, InsufficientFunds, At, Goto, Decide, tables
<1>8. AnswersTrue'
  BY DEF TypeOK, Called, Settled, VerdictsStand, RowsTogether, AnswersTrue, InsufficientFunds, At, Goto, Decide, tables
<1>9. QED
  BY <1>1, <1>2, <1>3, <1>4, <1>5, <1>6, <1>7, <1>8

LEMMA InsertOrderPreserves ==
  ASSUME IInv, NEW a \in Attempt, InsertOrder(a)
  PROVE  IInv'
<1> USE CallFields, RowFacts DEF IInv
<1>1. TypeOK'
  BY DEF TypeOK, Answer, Statement, InsertOrder, At, Goto, Insert, tables, LocksHeld, Called, AfterStock, AfterBalance
<1>2. Called'
  BY DEF TypeOK, Called, Keyed, InsertOrder, At, Goto, Insert, tables
<1>3. LocksHeld'
  BY DEF TypeOK, Called, LocksHeld, Keyed, AfterClaim, AfterStock, AfterBalance, InsertOrder, At, Goto, Insert, tables
<1>4. WritesSoFar'
  BY DEF TypeOK, Called, WritesSoFar, Keyed, InsertOrder, At, Goto, Insert, tables
<1>5. VerdictsStand'
  BY DEF TypeOK, Called, VerdictsStand, RowsTogether, Keyed, InsertOrder, At, Goto, Insert, tables
<1>6. Settled'
  BY DEF TypeOK, Called, Settled, InsertOrder, At, Goto, Insert, tables
<1>7. RowsTogether'
  BY DEF TypeOK, Called, RowsTogether, InsertOrder, At, Goto, Insert, tables
<1>8. AnswersTrue'
  BY DEF TypeOK, Called, Settled, VerdictsStand, RowsTogether, AnswersTrue, InsertOrder, At, Goto, Insert, tables
<1>9. QED
  BY <1>1, <1>2, <1>3, <1>4, <1>5, <1>6, <1>7, <1>8

LEMMA InsertJobPreserves ==
  ASSUME IInv, NEW a \in Attempt, InsertJob(a)
  PROVE  IInv'
<1> USE CallFields, RowFacts DEF IInv
<1>1. TypeOK'
  BY DEF TypeOK, Answer, Statement, InsertJob, At, Goto, Insert, tables, LocksHeld, Called, AfterStock, AfterBalance
<1>2. Called'
  BY DEF TypeOK, Called, Keyed, InsertJob, At, Goto, Insert, tables
<1>3. LocksHeld'
  BY DEF TypeOK, Called, LocksHeld, Keyed, AfterClaim, AfterStock, AfterBalance, InsertJob, At, Goto, Insert, tables
<1>4. WritesSoFar'
  BY DEF TypeOK, Called, WritesSoFar, Keyed, InsertJob, At, Goto, Insert, tables
<1>5. VerdictsStand'
  BY DEF TypeOK, Called, VerdictsStand, RowsTogether, Keyed, InsertJob, At, Goto, Insert, tables
<1>6. Settled'
  BY DEF TypeOK, Called, Settled, InsertJob, At, Goto, Insert, tables
<1>7. RowsTogether'
  BY DEF TypeOK, Called, RowsTogether, InsertJob, At, Goto, Insert, tables
<1>8. AnswersTrue'
  BY DEF TypeOK, Called, Settled, VerdictsStand, RowsTogether, AnswersTrue, InsertJob, At, Goto, Insert, tables
<1>9. QED
  BY <1>1, <1>2, <1>3, <1>4, <1>5, <1>6, <1>7, <1>8

LEMMA LinkKeyPreserves ==
  ASSUME IInv, NEW a \in Attempt, LinkKey(a)
  PROVE  IInv'
<1> USE CallFields, RowFacts DEF IInv
<1>1. TypeOK'
  BY DEF TypeOK, Answer, Statement, LinkKey, At, Goto, Insert, tables, LocksHeld, Called, AfterStock, AfterBalance
<1>2. Called'
  BY DEF TypeOK, Called, Keyed, LinkKey, At, Goto, Insert, tables
<1>3. LocksHeld'
  BY DEF TypeOK, Called, LocksHeld, Keyed, AfterClaim, AfterStock, AfterBalance, LinkKey, At, Goto, Insert, tables
<1>4. WritesSoFar'
  BY DEF TypeOK, Called, WritesSoFar, Keyed, LinkKey, At, Goto, Insert, tables
<1>5. VerdictsStand'
  BY DEF TypeOK, Called, VerdictsStand, RowsTogether, Keyed, LinkKey, At, Goto, Insert, tables
<1>6. Settled'
  BY DEF TypeOK, Called, Settled, LinkKey, At, Goto, Insert, tables
<1>7. RowsTogether'
  BY DEF TypeOK, Called, RowsTogether, LinkKey, At, Goto, Insert, tables
<1>8. AnswersTrue'
  BY DEF TypeOK, Called, Settled, VerdictsStand, RowsTogether, AnswersTrue, LinkKey, At, Goto, Insert, tables
<1>9. QED
  BY <1>1, <1>2, <1>3, <1>4, <1>5, <1>6, <1>7, <1>8

LEMMA InsertOutboxPreserves ==
  ASSUME IInv, NEW a \in Attempt, InsertOutbox(a)
  PROVE  IInv'
<1> USE CallFields, RowFacts DEF IInv
<1>1. TypeOK'
  BY DEF TypeOK, Answer, Statement, InsertOutbox, At, Goto, Insert, tables, LocksHeld, Called, AfterStock, AfterBalance
<1>2. Called'
  BY DEF TypeOK, Called, Keyed, InsertOutbox, At, Goto, Insert, tables
<1>3. LocksHeld'
  BY DEF TypeOK, Called, LocksHeld, Keyed, AfterClaim, AfterStock, AfterBalance, InsertOutbox, At, Goto, Insert, tables
<1>4. WritesSoFar'
  BY DEF TypeOK, Called, WritesSoFar, Keyed, InsertOutbox, At, Goto, Insert, tables
<1>5. VerdictsStand'
  BY DEF TypeOK, Called, VerdictsStand, RowsTogether, Keyed, InsertOutbox, At, Goto, Insert, tables
<1>6. Settled'
  BY DEF TypeOK, Called, Settled, InsertOutbox, At, Goto, Insert, tables
<1>7. RowsTogether'
  BY DEF TypeOK, Called, RowsTogether, InsertOutbox, At, Goto, Insert, tables
<1>8. AnswersTrue'
  BY DEF TypeOK, Called, Settled, VerdictsStand, RowsTogether, AnswersTrue, InsertOutbox, At, Goto, Insert, tables
<1>9. QED
  BY <1>1, <1>2, <1>3, <1>4, <1>5, <1>6, <1>7, <1>8

\* COMMIT installs exactly one purchase: the effect of AtomicCheckout's Place.
LEMMA CommitEffect ==
  ASSUME IInv, NEW a \in Attempt, Commit(a)
  PROVE  LET c == call[a] IN
         /\ c \in Call
         /\ c.key # None => keyRow[c.key] = None
         /\ stock[c.product] >= c.quantity
         /\ balance[c.buyer] >= Total(c)
         /\ stock' = [stock EXCEPT ![c.product] = @ - c.quantity]
         /\ balance' = [balance EXCEPT ![c.buyer] = @ - Total(c)]
         /\ keyRow' = [k \in Key |-> IF k = c.key THEN a ELSE keyRow[k]]
         /\ orders' = orders \cup {a}
         /\ jobs' = jobs \cup {a}
         /\ outbox' = outbox \cup {a}
<1> DEFINE c == call[a]
<1> USE RowFacts DEF IInv
<1>1. pc[a] = "commit" /\ c \in Call
  BY DEF Commit, At, TypeOK, Called
<1>2. /\ newStock[a] = stock[c.product] - c.quantity /\ newStock[a] \in Nat
      /\ newBalance[a] = balance[c.buyer] - Total(c) /\ newBalance[a] \in Nat
      /\ c.key # None => keyRow[c.key] = None
  BY <1>1 DEF TypeOK, LocksHeld, Keyed, AfterClaim, AfterStock, AfterBalance
<1>3. /\ {"order", "job", "outbox"} \subseteq inserted[a]
      /\ "link" \in inserted[a] <=> c.key # None
  BY <1>1 DEF WritesSoFar, Keyed
<1>4. stock[c.product] >= c.quantity /\ balance[c.buyer] >= Total(c)
  BY <1>1, <1>2, CallFields DEF TypeOK
<1>5. /\ stock' = [stock EXCEPT ![c.product] = @ - c.quantity]
      /\ balance' = [balance EXCEPT ![c.buyer] = @ - Total(c)]
  BY <1>2 DEF Commit
<1>6. orders' = orders \cup {a} /\ jobs' = jobs \cup {a} /\ outbox' = outbox \cup {a}
  BY <1>3 DEF Commit
<1>7. keyRow' = [k \in Key |-> IF k = c.key THEN a ELSE keyRow[k]]
  BY <1>3 DEF Commit
<1>8. QED
  BY <1>1, <1>2, <1>4, <1>5, <1>6, <1>7

\* COMMIT keeps the invariant.
LEMMA CommitPreserves ==
  ASSUME IInv, NEW a \in Attempt, Commit(a)
  PROVE  IInv'
<1> DEFINE c == call[a]
<1> USE CallFields, RowFacts DEF IInv
<1>e. /\ c \in Call
      /\ c.key # None => keyRow[c.key] = None
      /\ stock[c.product] >= c.quantity
      /\ balance[c.buyer] >= Total(c)
      /\ stock' = [stock EXCEPT ![c.product] = @ - c.quantity]
      /\ balance' = [balance EXCEPT ![c.buyer] = @ - Total(c)]
      /\ keyRow' = [k \in Key |-> IF k = c.key THEN a ELSE keyRow[k]]
      /\ orders' = orders \cup {a}
      /\ jobs' = jobs \cup {a}
      /\ outbox' = outbox \cup {a}
  BY CommitEffect
<1>p. /\ pc[a] = "commit" /\ pc' = [pc EXCEPT ![a] = "done"]
      /\ \E what \in {"placed", "failed"} : answer' = [answer EXCEPT ![a] = what]
      /\ holder' = [x \in Row |-> IF holder[x] = a THEN None ELSE holder[x]]
      /\ UNCHANGED <<call, replayOf, verdict, found, newStock, newBalance, inserted>>
  BY DEF Commit, At, Goto, Unlock
<1>1. TypeOK'
  BY <1>e, <1>p DEF TypeOK, Answer, Statement
<1>2. Called'
  BY <1>e, <1>p DEF TypeOK, Called, Keyed
<1>3. LocksHeld'
  <2> SUFFICES ASSUME NEW b \in Attempt, pc'[b] \in AfterClaim
               PROVE  /\ Keyed(b)' => holder'[call'[b].key] = b /\ keyRow'[call'[b].key] = None
                      /\ pc'[b] \in AfterStock =>
                           /\ holder'[call'[b].product] = b
                           /\ newStock'[b] = stock'[call'[b].product] - call'[b].quantity
                      /\ pc'[b] \in AfterBalance =>
                           /\ holder'[call'[b].buyer] = b
                           /\ newBalance'[b] = balance'[call'[b].buyer] - Total(call'[b])
    BY DEF LocksHeld, Total, AfterClaim, AfterStock
  <2>1. b # a /\ pc'[b] = pc[b] /\ call'[b] = call[b] /\ call[b] \in Call
    BY <1>p DEF TypeOK, Called, AfterClaim, AfterStock, AfterBalance
  <2>2. /\ holder[c.product] = a /\ holder[c.buyer] = a
        /\ c.key # None => holder[c.key] = a
    BY <1>p DEF LocksHeld, Keyed, AfterClaim, AfterStock, AfterBalance
  <2>3. ASSUME Keyed(b)
        PROVE  holder'[call[b].key] = b /\ keyRow'[call[b].key] = None
    BY <1>e, <1>p, <2>1, <2>2, <2>3 DEF LocksHeld, Keyed
  <2>4. ASSUME pc[b] \in AfterStock
        PROVE  /\ holder'[call[b].product] = b
               /\ newStock'[b] = stock'[call[b].product] - call[b].quantity
    BY <1>e, <1>p, <2>1, <2>2, <2>4 DEF LocksHeld, TypeOK
  <2>5. ASSUME pc[b] \in AfterBalance
        PROVE  /\ holder'[call[b].buyer] = b
               /\ newBalance'[b] = balance'[call[b].buyer] - Total(call[b])
    BY <1>e, <1>p, <2>1, <2>2, <2>5 DEF LocksHeld, TypeOK
  <2>6. QED
    BY <1>p, <2>1, <2>3, <2>4, <2>5 DEF Keyed
<1>4. WritesSoFar'
  BY <1>p DEF TypeOK, WritesSoFar, Keyed
<1>5. VerdictsStand'
  BY <1>e, <1>p DEF TypeOK, Called, VerdictsStand, Keyed, Total
<1>6. Settled'
  BY <1>e, <1>p DEF TypeOK, Settled
<1>7. RowsTogether'
  BY <1>e, <1>p DEF TypeOK, Called, RowsTogether
<1>8. AnswersTrue'
  BY <1>e, <1>p DEF TypeOK, Called, Settled, AnswersTrue
<1>9. QED
  BY <1>1, <1>2, <1>3, <1>4, <1>5, <1>6, <1>7, <1>8

LEMMA RollbackPreserves ==
  ASSUME IInv, NEW a \in Attempt, Rollback(a)
  PROVE  IInv'
<1> USE CallFields, RowFacts DEF IInv
<1>1. TypeOK'
  BY DEF TypeOK, Answer, Statement, Rollback, At, Goto, Unlock, tables, LocksHeld, Called, AfterStock, AfterBalance
<1>2. Called'
  BY DEF TypeOK, Called, Keyed, Rollback, At, Goto, Unlock, tables
<1>3. LocksHeld'
  BY DEF TypeOK, Called, LocksHeld, Keyed, AfterClaim, AfterStock, AfterBalance, Rollback, At, Goto, Unlock, tables
<1>4. WritesSoFar'
  BY DEF TypeOK, Called, WritesSoFar, Keyed, Rollback, At, Goto, Unlock, tables
<1>5. VerdictsStand'
  BY DEF TypeOK, Called, VerdictsStand, RowsTogether, Keyed, Rollback, At, Goto, Unlock, tables
<1>6. Settled'
  BY DEF TypeOK, Called, Settled, VerdictsStand, Rollback, At, Goto, Unlock, tables
<1>7. RowsTogether'
  BY DEF TypeOK, Called, RowsTogether, Rollback, At, Goto, Unlock, tables
<1>8. AnswersTrue'
  BY DEF TypeOK, Called, Settled, VerdictsStand, RowsTogether, AnswersTrue, Keyed, Rollback, At, Goto, Unlock, tables
<1>9. QED
  BY <1>1, <1>2, <1>3, <1>4, <1>5, <1>6, <1>7, <1>8

LEMMA ThrowPreserves ==
  ASSUME IInv, NEW a \in Attempt, Throw(a)
  PROVE  IInv'
<1> USE CallFields, RowFacts DEF IInv
<1>1. TypeOK'
  BY DEF TypeOK, Answer, Statement, Throw, Goto, Decide, tables, LocksHeld, Called, AfterStock, AfterBalance
<1>2. Called'
  BY DEF TypeOK, Called, Keyed, Statement, Throw, Goto, Decide, tables
<1>3. LocksHeld'
  BY DEF TypeOK, Called, LocksHeld, Keyed, AfterClaim, AfterStock, AfterBalance, Throw, Goto, Decide, tables
<1>4. WritesSoFar'
  BY DEF TypeOK, Called, WritesSoFar, Keyed, Statement, Throw, Goto, Decide, tables
<1>5. VerdictsStand'
  BY DEF TypeOK, Called, VerdictsStand, RowsTogether, Keyed, Statement, Throw, Goto, Decide, tables
<1>6. Settled'
  BY DEF TypeOK, Called, Settled, Statement, Throw, Goto, Decide, tables
<1>7. RowsTogether'
  BY DEF TypeOK, Called, RowsTogether, Throw, Goto, Decide, tables
<1>8. AnswersTrue'
  BY DEF TypeOK, Called, Settled, VerdictsStand, RowsTogether, AnswersTrue, Throw, Goto, Decide, tables
<1>9. QED
  BY <1>1, <1>2, <1>3, <1>4, <1>5, <1>6, <1>7, <1>8

\* So does every step.
LEMMA NextIInv == IInv /\ [Next]_vars => IInv'
<1> SUFFICES ASSUME IInv, [Next]_vars PROVE IInv'
  OBVIOUS
<1>1. ASSUME UNCHANGED vars PROVE IInv'
  BY <1>1 DEF vars, txvars, tables, IInv, TypeOK, Called, LocksHeld, WritesSoFar,
              VerdictsStand, Settled, RowsTogether, AnswersTrue, Keyed, Total
<1>2. ASSUME NEW a \in Attempt, Reject(a) \/ Begin(a) \/ Step(a) \/ Throw(a)
      PROVE  IInv'
  BY <1>2, RejectPreserves, BeginPreserves, ClaimKeyPreserves, KeyConflictPreserves,
     ReadReplayPreserves, TakeStockPreserves, OutOfStockPreserves, TakeBalancePreserves,
     InsufficientFundsPreserves, InsertOrderPreserves, InsertJobPreserves, LinkKeyPreserves,
     InsertOutboxPreserves, CommitPreserves, RollbackPreserves, ThrowPreserves
     DEF Step
<1>3. QED
  BY <1>1, <1>2 DEF Next, AllDone

\* checkout.ts keeps its tables well formed: in particular no interleaving
\* of transactions drives a stock or a balance below zero.
THEOREM CheckoutTypeCorrect == Spec => []TypeOK
<1>1. IInv => TypeOK
  BY DEF IInv
<1>2. QED
  BY InitIInv, NextIInv, <1>1, PTL DEF Spec

\* The locks a transaction holds at each statement protect the row versions
\* it wrote, for any number of concurrent checkouts.
THEOREM CheckoutInvariant == Spec => []IInv
BY InitIInv, NextIInv, PTL DEF Spec

\* Order, job, event and key row of one checkout are committed together.
THEOREM CheckoutRowsTogether == Spec => []RowsTogether
<1>1. IInv => RowsTogether
  BY DEF IInv
<1>2. QED
  BY CheckoutInvariant, <1>1, PTL

\* Attempts that share an Idempotency-Key place at most one order.
THEOREM CheckoutOneOrderPerKey == Spec => []OneOrderPerKey
<1>1. IInv => OneOrderPerKey
  BY DEF IInv, TypeOK, RowsTogether, OneOrderPerKey
<1>2. QED
  BY CheckoutInvariant, <1>1, PTL

\* Every answer a caller received from checkout() is true of the tables.
THEOREM CheckoutAnswersTrue == Spec => []AnswersTrue
<1>1. IInv => AnswersTrue
  BY DEF IInv
<1>2. QED
  BY CheckoutInvariant, <1>1, PTL

-----------------------------------------------------------------------------
(* Refinement: each statement of a transaction is a step of AtomicCheckout *)
(* or leaves its variables unchanged.                                      *)

\* Both modules price a call alike.
LEMMA SameTotal == \A c : Atomic!Total(c) = Total(c)
BY DEF Atomic!Total, Total

\* Both start with nothing sold.
LEMMA InitImplements == Init => Atomic!Init
BY DEF Init, Atomic!Init

\* COMMIT is the abstract purchase.
LEMMA CommitImplements ==
  ASSUME IInv, NEW a \in Attempt, Commit(a)
  PROVE  Atomic!Place(a)
<1> DEFINE c == call[a]
<1>1. /\ call[a] # None /\ answer[a] = "none"
      /\ replayOf' = [replayOf EXCEPT ![a] = None]
  BY RowFacts DEF IInv, TypeOK, Called, Settled, Commit, At
<1>2. \E what \in {"placed", "failed"} : Atomic!Respond(a, what, None)
  BY <1>1 DEF Atomic!Respond, Atomic!Pending, Commit
<1>3. QED
  BY <1>2, CommitEffect, SameTotal DEF Atomic!Place

\* ROLLBACK is the abstract refusal, replay or failure.
LEMMA RollbackImplements ==
  ASSUME IInv, NEW a \in Attempt, Rollback(a)
  PROVE  \/ Atomic!Pending(a) /\ (Atomic!Replay(a) \/ Atomic!RefuseStock(a)
                                   \/ Atomic!RefuseFunds(a))
         \/ Atomic!Fail(a)
<1> USE DEF IInv
<1>1. Atomic!Pending(a) /\ pc[a] = "rollback" /\ UNCHANGED Atomic!ledger
  BY DEF TypeOK, Called, Settled, Rollback, At, tables, Atomic!Pending, Atomic!ledger
<1>2. CASE verdict[a] = "replayed"
  <2>1. /\ call[a].key # None /\ keyRow[call[a].key] \in orders
        /\ found[a] = keyRow[call[a].key]
    <3>1. call[a] \in Call
      BY <1>1 DEF TypeOK, Called
    <3>2. QED
      BY <1>1, <1>2, <3>1, CallFields DEF VerdictsStand, RowsTogether, Keyed
  <2>2. Atomic!Respond(a, "replayed", keyRow[call[a].key])
    BY <1>1, <1>2, <2>1 DEF Rollback, Atomic!Respond
  <2>3. QED
    BY <1>1, <2>1, <2>2 DEF Atomic!Replay
<1>3. ASSUME verdict[a] # "replayed"
      PROVE  Atomic!Respond(a, verdict[a], None)
  BY <1>1, <1>3 DEF Rollback, Atomic!Respond
<1>4. CASE verdict[a] = "out_of_stock"
  BY <1>1, <1>3, <1>4 DEF VerdictsStand, Atomic!RefuseStock
<1>5. CASE verdict[a] = "insufficient_funds"
  BY <1>1, <1>3, <1>5, SameTotal DEF VerdictsStand, Atomic!RefuseFunds
<1>6. CASE verdict[a] = "failed"
  BY <1>1, <1>3, <1>6 DEF Atomic!Fail
<1>7. QED
  BY <1>1, <1>2, <1>4, <1>5, <1>6 DEF VerdictsStand

\* A statement between BEGIN and COMMIT or ROLLBACK is invisible outside.
LEMMA StatementsInvisible ==
  ASSUME NEW a \in Attempt,
         \/ ClaimKey(a) \/ KeyConflict(a) \/ ReadReplay(a)
         \/ TakeStock(a) \/ OutOfStock(a) \/ TakeBalance(a) \/ InsufficientFunds(a)
         \/ InsertOrder(a) \/ InsertJob(a) \/ LinkKey(a) \/ InsertOutbox(a)
         \/ Throw(a)
  PROVE  UNCHANGED Atomic!avars
BY DEF ClaimKey, KeyConflict, ReadReplay, TakeStock, OutOfStock, TakeBalance,
       InsufficientFunds, InsertOrder, InsertJob, LinkKey, InsertOutbox, Throw,
       tables, Atomic!avars

\* So every step implements an abstract step or none.
LEMMA NextImplements == IInv /\ [Next]_vars => [Atomic!Next]_(Atomic!avars)
<1> SUFFICES ASSUME IInv, [Next]_vars PROVE [Atomic!Next]_(Atomic!avars)
  OBVIOUS
<1>1. ASSUME UNCHANGED vars PROVE UNCHANGED Atomic!avars
  BY <1>1 DEF vars, tables, Atomic!avars
<1>2. ASSUME NEW a \in Attempt, Reject(a) PROVE Atomic!Reject(a)
  BY <1>2 DEF Reject, At, tables, IInv, Called, Settled, Atomic!Reject, Atomic!ledger
<1>3. ASSUME NEW a \in Attempt, Begin(a) PROVE Atomic!Receive(a)
  BY <1>3 DEF Begin, At, tables, IInv, Called, Settled, Atomic!Receive, Atomic!ledger
<1>4. QED
  BY <1>1, <1>2, <1>3, CommitImplements, RollbackImplements, StatementsInvisible
     DEF Next, AllDone, Step, Atomic!Next

\* Concurrent checkout transactions implement indivisible purchases: every
\* behaviour of checkout.ts, seen through its tables and its answers, is a
\* behaviour of AtomicCheckout.
THEOREM CheckoutImplementsAtomic == Spec => ImplementsAtomic
BY InitImplements, NextImplements, CheckoutInvariant, PTL
   DEF Spec, ImplementsAtomic, Atomic!Spec

-----------------------------------------------------------------------------
(* The ledger: a sum over the orders is the number of single units in them. *)

\* V are the units U and q new ones, of order a.
Adds(U, V, a, q) == V = U \cup ({a} \X (1..q)) /\ U \cap ({a} \X (1..q)) = {}

\* One more order of q units.
LEMMA AddUnits ==
  ASSUME NEW U, NEW V, NEW a, NEW q \in Nat, IsFiniteSet(U), Adds(U, V, a, q)
  PROVE  IsFiniteSet(V) /\ Cardinality(V) = Cardinality(U) + q
  <1> DEFINE T == {a} \X (1..q)
  <1>1. IsFiniteSet({a}) /\ Cardinality({a}) = 1
    BY FS_Singleton
  <1>2. IsFiniteSet(1..q) /\ Cardinality(1..q) = q
    BY FS_Interval
  <1>3. IsFiniteSet(T) /\ Cardinality(T) = q
    <2>1. IsFiniteSet(T) /\ Cardinality(T) = Cardinality({a}) * Cardinality(1..q)
      BY <1>1, <1>2, FS_Product
    <2> HIDE DEF T
    <2> QED BY <1>1, <1>2, <2>1
  <1>4. U \cap T = {}
    BY DEF T, Adds
  <1> HIDE DEF T
  <1>5. /\ IsFiniteSet(U \cup T)
        /\ Cardinality(U \cup T) = Cardinality(U) + Cardinality(T) - Cardinality(U \cap T)
    BY <1>3, FS_Union
  <1>6. Cardinality(U \cap T) = 0 /\ Cardinality(U) \in Nat
    BY <1>4, FS_EmptySet, FS_CardinalityType
  <1>7. V = U \cup T
    BY DEF T, Adds
  <1> QED BY <1>3, <1>5, <1>6, <1>7

\* At first nothing is sold.
LEMMA LedgerInit == Init => LedgerInv
  <1> SUFFICES ASSUME Init PROVE LedgerInv
    OBVIOUS
  <1>1. /\ \A p \in Product : Units(p) = {}
        /\ \A b \in Buyer : Spent(b) = {}
    BY DEF Init, Units, Spent
  <1>2. IsFiniteSet({}) /\ Cardinality({}) = 0
    BY FS_EmptySet
  <1>3. /\ \A p \in Product : InitialStock[p] - stock[p] = 0
        /\ \A b \in Buyer : InitialBalance[b] - balance[b] = 0
    BY CheckoutAssumption DEF Init
  <1> QED BY <1>1, <1>2, <1>3 DEF LedgerInv, LedgerBalanced

\* A step that places no order leaves the books as they are.
LEMMA LedgerFrame ==
  ASSUME LedgerInv, UNCHANGED <<stock, balance, orders>>,
         \A o \in orders : call'[o] = call[o]
  PROVE  LedgerInv'
  <1>1. /\ \A p \in Product : Units(p)' = Units(p)
        /\ \A b \in Buyer : Spent(b)' = Spent(b)
    BY DEF Units, Spent, Total
  <1> QED BY <1>1 DEF LedgerInv, LedgerBalanced

\* COMMIT takes from the stock and from the balance what the new order adds to
\* the books.
LEMMA LedgerCommit ==
  ASSUME IInv, LedgerInv, NEW a \in Attempt, Commit(a)
  PROVE  LedgerInv'
  <1>1. PICK c : c = call[a]
    OBVIOUS
  <1>2. /\ c \in Call /\ orders' = orders \cup {a} /\ a \notin orders
        /\ stock[c.product] >= c.quantity /\ balance[c.buyer] >= Total(c)
        /\ stock' = [stock EXCEPT ![c.product] = @ - c.quantity]
        /\ balance' = [balance EXCEPT ![c.buyer] = @ - Total(c)]
        /\ call' = call /\ orders \subseteq Attempt
    <2>1. a \notin orders
      BY DEF IInv, Settled, Commit, At
    <2>2. call' = call /\ orders \subseteq Attempt
      BY DEF Commit, IInv, TypeOK
    <2> QED BY <1>1, <2>1, <2>2, CommitEffect
  <1>3. /\ c.product \in Product /\ c.buyer \in Buyer
        /\ c.quantity \in Nat /\ Total(c) \in Nat
    BY <1>2, CallFields
  <1>4. stock \in [Product -> Nat] /\ balance \in [Buyer -> Nat]
    BY DEF IInv, TypeOK
  <1>5. ASSUME NEW p \in Product
        PROVE  InitialStock[p] - stock'[p] = Cardinality(Units(p)') /\ IsFiniteSet(Units(p)')
    <2>1. InitialStock[p] - stock[p] = Cardinality(Units(p)) /\ IsFiniteSet(Units(p))
      BY DEF LedgerInv, LedgerBalanced
    <2>2. CASE p = c.product
      <3>1. Units(p)' = Units(p) \cup ({a} \X (1..c.quantity))
        BY <1>1, <1>2, <2>2 DEF Units
      <3>2. Units(p) \cap ({a} \X (1..c.quantity)) = {}
        BY <1>2 DEF Units
      <3>3. PICK U, V, q : U = Units(p) /\ V = Units(p)' /\ q = c.quantity
        OBVIOUS
      <3>4. q \in Nat /\ IsFiniteSet(U) /\ Adds(U, V, a, q)
        BY <1>3, <2>1, <3>1, <3>2, <3>3 DEF Adds
      <3>5. IsFiniteSet(V) /\ Cardinality(V) = Cardinality(U) + q
        BY <3>4, AddUnits
      <3>6. stock'[p] = stock[p] - c.quantity /\ stock[p] \in Nat /\ InitialStock[p] \in Nat
        BY <1>2, <1>4, <2>2, CheckoutAssumption
      <3> QED BY <2>1, <3>3, <3>4, <3>5, <3>6, FS_CardinalityType
    <2>3. CASE p # c.product
      <3>1. Units(p)' = Units(p)
        BY <1>1, <1>2, <2>3 DEF Units
      <3>2. stock'[p] = stock[p]
        BY <1>2, <1>4, <2>3
      <3> QED BY <2>1, <3>1, <3>2
    <2> QED BY <2>2, <2>3
  <1>6. ASSUME NEW b \in Buyer
        PROVE  InitialBalance[b] - balance'[b] = Cardinality(Spent(b)') /\ IsFiniteSet(Spent(b)')
    <2>1. InitialBalance[b] - balance[b] = Cardinality(Spent(b)) /\ IsFiniteSet(Spent(b))
      BY DEF LedgerInv, LedgerBalanced
    <2>2. CASE b = c.buyer
      <3>1. Spent(b)' = Spent(b) \cup ({a} \X (1..Total(c)))
        BY <1>1, <1>2, <2>2 DEF Spent, Total
      <3>2. Spent(b) \cap ({a} \X (1..Total(c))) = {}
        BY <1>2 DEF Spent
      <3>3. PICK U, V, q : U = Spent(b) /\ V = Spent(b)' /\ q = Total(c)
        OBVIOUS
      <3>4. q \in Nat /\ IsFiniteSet(U) /\ Adds(U, V, a, q)
        BY <1>3, <2>1, <3>1, <3>2, <3>3 DEF Adds
      <3>5. IsFiniteSet(V) /\ Cardinality(V) = Cardinality(U) + q
        BY <3>4, AddUnits
      <3>6. balance'[b] = balance[b] - Total(c) /\ balance[b] \in Nat
            /\ InitialBalance[b] \in Nat
        BY <1>2, <1>4, <2>2, CheckoutAssumption
      <3> QED BY <2>1, <3>3, <3>4, <3>5, <3>6, FS_CardinalityType
    <2>3. CASE b # c.buyer
      <3>1. Spent(b)' = Spent(b)
        BY <1>1, <1>2, <2>3 DEF Spent, Total
      <3>2. balance'[b] = balance[b]
        BY <1>2, <1>4, <2>3
      <3> QED BY <2>1, <3>1, <3>2
    <2> QED BY <2>2, <2>3
  <1> QED BY <1>5, <1>6 DEF LedgerInv, LedgerBalanced

\* Every step keeps the books: only COMMIT writes the tables, and an attempt
\* that begins has no order yet.
LEMMA LedgerNext == IInv /\ LedgerInv /\ [Next]_vars => LedgerInv'
  <1> SUFFICES ASSUME IInv, LedgerInv, [Next]_vars PROVE LedgerInv'
    OBVIOUS
  <1>1. CASE UNCHANGED vars
    BY <1>1, LedgerFrame DEF vars, tables
  <1>2. ASSUME NEW a \in Attempt, Begin(a) PROVE LedgerInv'
    <2>1. a \notin orders
      BY <1>2 DEF IInv, Settled, Begin, At
    <2>2. \A o \in orders : call'[o] = call[o]
      BY <1>2, <2>1 DEF IInv, TypeOK, Begin
    <2> QED BY <1>2, <2>2, LedgerFrame DEF Begin, tables
  <1>3. ASSUME NEW a \in Attempt, Reject(a) \/ Rollback(a) PROVE LedgerInv'
    BY <1>3, LedgerFrame DEF Reject, Rollback, tables
  <1>4. ASSUME NEW a \in Attempt,
               \/ ClaimKey(a) \/ KeyConflict(a) \/ ReadReplay(a)
               \/ TakeStock(a) \/ OutOfStock(a) \/ TakeBalance(a) \/ InsufficientFunds(a)
               \/ InsertOrder(a) \/ InsertJob(a) \/ LinkKey(a) \/ InsertOutbox(a)
               \/ Throw(a)
        PROVE  LedgerInv'
    BY <1>4, StatementsInvisible, LedgerFrame DEF Atomic!avars
  <1> QED BY <1>1, <1>2, <1>3, <1>4, LedgerCommit DEF Next, AllDone, Step

\* checkout.ts: units and money are neither created nor lost, for any number of
\* overlapping checkouts, failures and retries.
THEOREM CheckoutLedgerBalanced == Spec => []LedgerBalanced
  <1>1. LedgerInv => LedgerBalanced
    BY DEF LedgerInv
  <1> QED BY <1>1, LedgerInit, LedgerNext, CheckoutInvariant, PTL DEF Spec
=============================================================================
