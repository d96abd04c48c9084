------------------------------- MODULE Pages --------------------------------
(***************************************************************************)
(* Walks through GET /products and GET /orders page by page                *)
(* (src/common/cursor.ts) while rows are added. Both lists are arrays in   *)
(* the memory of one process; a cursor is an offset into the array, and    *)
(* for orders into what the caller may see of it. openapi.yaml, which the  *)
(* validator enforces before the handlers, asks for a limit of at least 1. *)
(***************************************************************************)
EXTENDS Integers, Sequences, SequencesExt, Positions

CONSTANTS
  Customer, Staff,  \* callers; staff are admins
  Walk,             \* walks through a list
  PageLimits,       \* values of limit
  FirstOrders,      \* buyers of the orders a process starts with
  FirstProducts,    \* number of products a process starts with
  MaxRows           \* bound: rows of a list

ASSUME PagesAssumption ==
  /\ Customer \cap Staff = {} /\ PageLimits \subseteq Nat \ {0}
  /\ FirstOrders \in Seq(Customer) /\ FirstProducts \in Nat /\ MaxRows \in Nat

VARIABLES
  ORDERS,           \* buyer_id of the orders, in the order of their ids
  PRODUCTS,         \* number of products: ids are p1, p2, ...
  walker,           \* walker[w]: who walks, through what, with what limit
  cursor,           \* cursor[w]: next_cursor of the last page
  collected,        \* collected[w]: ids of the items so far
  atStart           \* history: rows there were to see when w began

pageVars == <<ORDERS, PRODUCTS, walker, cursor, collected, atStart>>

First == [kind |-> "none"]
NoCursor == [kind |-> "null"]
At(offset) == [kind |-> "cursor", offset |-> offset]   \* encodeCursor

PagesInit ==
  /\ ORDERS = FirstOrders /\ PRODUCTS = FirstProducts
  /\ walker = [w \in Walk |-> <<>>]
  /\ cursor = [w \in Walk |-> First] /\ collected = [w \in Walk |-> <<>>]
  /\ atStart = [w \in Walk |-> 0]

\* The orders a caller may see: admins all of them, buyers their own.
Mine(who) == {i \in 1..Len(ORDERS) : who \in Staff \/ ORDERS[i] = who}

\* What a caller may see, by id: list() of the products, listFor() of the orders.
Visible(who, what) ==
  IF what = "products" THEN [i \in 1..PRODUCTS |-> i] ELSE InOrder(Mine(who))

\* Mutant: next_cursor even when nothing is left.
paginateOnward(all, limit, offset) ==
  LET to == IF offset + limit < Len(all) THEN offset + limit ELSE Len(all)
      items == SubSeq(all, offset + 1, to)
      next == offset + Len(items)
  IN  [items |-> items, next |-> IF next <= Len(all) THEN At(next) ELSE NoCursor]
\* paginate: slice(offset, offset + limit), and the offset after it.
paginate(all, limit, offset) ==
  LET to == IF offset + limit < Len(all) THEN offset + limit ELSE Len(all)
      items == SubSeq(all, offset + 1, to)
      next == offset + Len(items)
  IN  [items |-> items, next |-> IF next < Len(all) THEN At(next) ELSE NoCursor]

decodeCursor(c) == IF c.kind = "cursor" THEN c.offset ELSE 0

-----------------------------------------------------------------------------
beginWalk(w, who, what, limit) ==
  /\ walker[w] = <<>> /\ walker' = [walker EXCEPT ![w] = <<who, what, limit>>]
  /\ atStart' = [atStart EXCEPT ![w] = Len(Visible(who, what))]
  /\ UNCHANGED <<ORDERS, PRODUCTS, cursor, collected>>

\* GET with the last next_cursor; a walk ends with next_cursor null.
nextPage(w) ==
  /\ walker[w] # <<>> /\ cursor[w] # NoCursor
  /\ LET page == paginate(Visible(walker[w][1], walker[w][2]), walker[w][3],
                          decodeCursor(cursor[w])) IN
       /\ collected' = [collected EXCEPT ![w] = @ \o page.items]
       /\ cursor' = [cursor EXCEPT ![w] = page.next]
  /\ UNCHANGED <<ORDERS, PRODUCTS, walker, atStart>>

\* POST /orders.
createOrder(u) ==
  /\ Len(ORDERS) < MaxRows /\ ORDERS' = Append(ORDERS, u)
  /\ UNCHANGED <<PRODUCTS, walker, cursor, collected, atStart>>

\* RolesGuard: POST /products is for sellers and admins only.
hasRole(u) == u \in Staff

createProduct(u) ==
  /\ hasRole(u)
  /\ PRODUCTS < MaxRows /\ PRODUCTS' = PRODUCTS + 1
  /\ UNCHANGED <<ORDERS, walker, cursor, collected, atStart>>

PagesNext ==
  \/ \E w \in Walk :
       \/ nextPage(w)
       \/ \E who \in Customer \cup Staff, what \in {"products", "orders"},
             limit \in PageLimits : beginWalk(w, who, what, limit)
  \/ \E u \in Customer \cup Staff : createOrder(u) \/ createProduct(u)

PagesSpec == PagesInit /\ [][PagesNext]_pageVars

-----------------------------------------------------------------------------
Seen(w) == Visible(walker[w][1], walker[w][2])

\* A walk meets what its caller may see in order, each row once, although rows
\* of others are added between its pages; a next_cursor leads to a page that is
\* not empty, and when there is none the walk has met every row that was there
\* when it began.
WalkIsExact ==
  \A w \in Walk : walker[w] # <<>> =>
    /\ IsPrefix(collected[w], Seen(w))
    /\ cursor[w].kind = "cursor" => decodeCursor(cursor[w]) < Len(Seen(w))
    /\ cursor[w] = NoCursor => Len(collected[w]) >= atStart[w]

PagesTypeOK ==
  /\ ORDERS \in Seq(Customer \cup Staff) /\ PRODUCTS \in Nat
  /\ walker \in [Walk -> {<<>>} \cup
                    ((Customer \cup Staff) \X {"products", "orders"} \X PageLimits)]
  /\ cursor \in [Walk -> {First, NoCursor} \cup [kind : {"cursor"}, offset : Nat]]
  /\ DOMAIN collected = Walk /\ atStart \in [Walk -> Nat]

\* Why: a walk stands after the first n rows its caller may see, of the list as
\* it is now, which are the rows it has met.
StandsAt(w, n) ==
  /\ collected[w] = SubSeq(Seen(w), 1, n) /\ atStart[w] <= Len(Seen(w))
  /\ \/ cursor[w] = First /\ n = 0
     \/ cursor[w] = At(n) /\ n < Len(Seen(w))
     \/ cursor[w] = NoCursor /\ atStart[w] <= n

PagesInv ==
  /\ PagesTypeOK
  /\ \A w \in Walk :
       /\ walker[w] = <<>> => cursor[w] = First /\ collected[w] = <<>>
       /\ walker[w] # <<>> => \E n \in 0..Len(Seen(w)) : StandsAt(w, n)
=============================================================================
