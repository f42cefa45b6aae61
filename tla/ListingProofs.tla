--------------------------- MODULE ListingProofs ---------------------------
(***************************************************************************)
(* Theorems about Listing, for any number of readers and pages: what a     *)
(* client that walks through the pages is shown while the handlers write.  *)
(***************************************************************************)
EXTENDS Listing, ShopAccountingProofs, FunctionTheorems

-----------------------------------------------------------------------------
(* Readers leave the shop alone *)

\* A step of a reader is a stutter of the shop.
LEMMA ReadersStutter ==
    ASSUME NEW b \in Readers, Begin(b) \/ Count(b) \/ Find(b) \/ Look(b) \/ ReadError(b)
    PROVE  UNCHANGED <<vars, born>>
  BY DEF Begin, Count, Find, Look, ReadError, Step

\* A step of the service and its readers is one of the shop or a stutter.
LEMMA ListingStep == [ListingNext]_listingVars => [Next]_vars
<1> SUFFICES ASSUME ListingNext PROVE Next \/ UNCHANGED vars
  BY DEF listingVars
<1>1. CASE \E p \in Requests : Receive(p) \/ Write(p)
  BY <1>1 DEF Receive, Write, Next
<1>2. CASE \E b \in Readers : Begin(b) \/ Count(b) \/ Find(b) \/ Look(b) \/ ReadError(b)
  BY <1>2, ReadersStutter
<1> QED
  BY <1>1, <1>2 DEF ListingNext, listingVars

\* So whatever holds of the shop holds while it is read.
LEMMA ListingShop == ListingSpec => []Typed /\ []OrdersOK /\ []StockNonNegative
<1>1. ListingSpec => Spec
  BY ListingStep, PTL DEF ListingSpec, ListingInit, Spec
<1> QED
  BY <1>1, TypedAlways, OrdersAlways, StockNonNegativeAlways, PTL

-----------------------------------------------------------------------------
(* The inventory *)

\* The two counts of the inventory never disagree with the flags of its items,
\* though the code decides them by different conditions, as no stock is ever
\* negative before one has wrapped.
THEOREM InventoryAgreesAlways == ListingSpec => []InventoryAgrees
<1>1. Typed /\ StockNonNegative => InventoryAgrees
  <2> SUFFICES ASSUME Typed, StockNonNegative, ~wrapped,
                      NEW S, S = {r \in Records : records[r] # NoRecord /\ ~records[r].archived}
               PROVE  /\ LowStockCount(S) = Cardinality({r \in S : LowStock(records[r])})
                      /\ OutOfStockCount(S) = Cardinality({r \in S : ReorderNeeded(records[r])})
    BY Zenon DEF InventoryAgrees
  <2>1. \A r \in Records : records[r] # NoRecord => records[r].stock >= 0
    BY Zenon DEF StockNonNegative
  <2>2. \A r \in S : records[r] \in Doc
    BY DEF Typed, TypeOK
  <2>3. \A r \in S : records[r].stock \in Nat
    <3> TAKE r \in S
    <3>1. records[r].stock \in Int
      BY <2>2, IntAssumption DEF Doc
    <3> QED
      BY <2>1, <3>1
  <2>4. {r \in S : records[r].stock # 0 /\ records[r].stock <= LowStockThreshold} = {r \in S : LowStock(records[r])}
    BY <2>3, PageAssumption DEF LowStock
  <2> QED
    BY <2>4 DEF LowStockCount, OutOfStockCount, ReorderNeeded
<1> QED
  BY <1>1, ListingShop, PTL

-----------------------------------------------------------------------------
(* Instants *)

\* Of finitely many numbers one is the largest.
LEMMA Largest ==
    ASSUME NEW f, NEW S, IsFiniteSet(S), S # {}, \A x \in S : f[x] \in Nat
    PROVE  \E x \in S : \A y \in S : f[y] <= f[x]
<1> DEFINE T == {A \in SUBSET S : A = {} \/ \E x \in A : \A y \in A : f[y] <= f[x]}
<1>1. ASSUME NEW A \in SUBSET S, \A B \in SUBSET A : B # A => B \in T PROVE A \in T
  <2>1. CASE A = {}
    BY <2>1
  <2>2. CASE A # {}
    <3>1. PICK c \in A : TRUE
      BY <2>2
    <3>2. A \ {c} \in T
      BY <1>1, <3>1
    <3>3. CASE A \ {c} = {}
      <4>1. \A y \in A : f[y] <= f[c]
        BY <3>1, <3>3
      <4> QED
        BY <3>1, <4>1
    <3>4. CASE \E x \in A \ {c} : \A y \in A \ {c} : f[y] <= f[x]
      <4>1. PICK x \in A \ {c} : \A y \in A \ {c} : f[y] <= f[x]
        BY <3>4
      <4>2. f[x] \in Nat /\ f[c] \in Nat /\ \A y \in A : f[y] \in Nat
        BY <3>1
      <4>3. CASE f[c] <= f[x]
        BY <4>1, <4>3
      <4>4. CASE f[x] <= f[c]
        <5>1. \A y \in A : f[y] <= f[c]
          BY <3>1, <4>1, <4>2, <4>4
        <5> QED
          BY <3>1, <5>1
      <4> QED
        BY <4>2, <4>3, <4>4
    <3> QED
      BY <3>2, <3>3, <3>4
  <2> QED
    BY <2>1, <2>2
<1> HIDE DEF T
<1>2. S \in T
  BY <1>1, SubsetsInduction
<1> QED
  BY <1>2 DEF T

\* Whatever is born is born at some instant.
LEMMA BearTyped ==
    ASSUME born \in [Things -> Nat], NEW t \in Things, Bear(t)
    PROVE  born' \in [Things -> Nat] /\ \A u \in Things \ {t} : born'[u] = born[u]
<1>1. PICK x \in Things : \A y \in Things : born[y] <= born[x]
  BY FiniteThings, Largest
<1>2. \E n \in {born[u] : u \in Things} : \A u \in Things : born[u] <= n
  BY <1>1
<1>3. Newest \in {born[u] : u \in Things}
  BY <1>2 DEF Newest
<1>4. Newest \in Nat
  BY <1>3
<1> QED
  BY <1>4 DEF Bear

-----------------------------------------------------------------------------
(* Pages *)

\* What is listed are orders, or records.
LEMMA ListedThings ==
    ASSUME NEW w
    PROVE  /\ Listed(w) \in SUBSET Things /\ IsFiniteSet(Listed(w))
           /\ Cardinality(Listed(w)) \in Nat /\ Cardinality(Listed(w)) <= Cardinality(Things)
           /\ w.kind = "orders" => Listed(w) \subseteq Requests
           /\ w.kind # "orders" => Listed(w) \subseteq Records
<1>1. Listed(w) \in SUBSET Things
  BY DEF Listed, Things
<1> QED
  BY <1>1, FiniteThings, FS_Subset, FS_CardinalityType DEF Listed

\* A list without repetitions that is as long as a set is large holds all of it.
LEMMA Onto ==
    ASSUME NEW D, NEW S, IsFiniteSet(S), Cardinality(D) = Cardinality(S),
           NEW f \in [D -> S], \A i, j \in D : f[i] = f[j] => i = j
    PROVE  \A t \in S : \E i \in D : f[i] = t
<1>1. f \in Injection(D, S)
  BY Fun_IsInj
<1>2. f \in Surjection(D, S)
  BY <1>1, FS_Injection
<1> QED
  BY <1>2, Fun_SurjectionProperties

\* Without repetitions there are as many values as there are places.
LEMMA AsMany ==
    ASSUME NEW D, IsFiniteSet(D), NEW f, \A i, j \in D : f[i] = f[j] => i = j
    PROVE  IsFiniteSet({f[i] : i \in D}) /\ Cardinality({f[i] : i \in D}) = Cardinality(D)
<1> DEFINE T == {f[i] : i \in D}
<1> DEFINE g == [i \in D |-> f[i]]
<1>1. g \in [D -> T] /\ \A t \in T : \E i \in D : g[i] = t
  OBVIOUS
<1>2. \A i, j \in D : g[i] = g[j] => i = j
  OBVIOUS
<1> HIDE DEF g, T
<1>3. g \in Bijection(D, T)
  BY <1>1, <1>2, Fun_IsBij
<1>4. ExistsBijection(D, T)
  BY <1>3, Fun_ExistsBij
<1>5. IsFiniteSet(T) /\ Cardinality(T) = Cardinality(D)
  BY <1>4, FS_Bijection
<1> QED
  BY <1>5 DEF T

\* An answer lists everything once.
LEMMA AnswerIsListing ==
    ASSUME NEW w, NEW S, IsFiniteSet(S), NEW list \in Answers(w, S)
    PROVE  /\ Cardinality(S) \in Nat
           /\ DOMAIN list = 1..Cardinality(S) /\ Len(list) = Cardinality(S)
           /\ \A i, j \in 1..Cardinality(S) : list[i] = list[j] => i = j
           /\ \A i \in 1..Cardinality(S) : list[i] \in S
           /\ \A t \in S : \E i \in 1..Cardinality(S) : list[i] = t
<1> DEFINE n == Cardinality(S)
<1>1. n \in Nat
  BY FS_CardinalityType
<1>2. list \in [1..n -> S]
  BY DEF Answers
<1>3. \A i, j \in 1..n : i < j => list[i] # list[j]
  BY DEF Answers
<1>4. \A i, j \in 1..n : list[i] = list[j] => i = j
  <2> SUFFICES ASSUME NEW i \in 1..n, NEW j \in 1..n, i # j PROVE list[i] # list[j]
    OBVIOUS
  <2>1. i < j \/ j < i
    BY <1>1
  <2> QED
    BY <1>3, <2>1
<1>5. Cardinality(1..n) = n
  BY <1>1, FS_Interval
<1>6. \A t \in S : \E i \in 1..n : list[i] = t
  <2> HIDE DEF n
  <2>1. PICK D : D = 1..n
    OBVIOUS
  <2>2. Cardinality(D) = Cardinality(S)
    BY <1>5, <2>1 DEF n
  <2>3. list \in [D -> S] /\ \A i, j \in D : list[i] = list[j] => i = j
    BY <1>2, <1>4, <2>1
  <2>4. \A t \in S : \E i \in D : list[i] = t
    BY <2>2, <2>3, Onto
  <2> QED
    BY <2>1, <2>4
<1>7. Len(list) = n
  BY <1>1, <1>2
<1> QED
  BY <1>1, <1>2, <1>4, <1>6, <1>7

\* The first place of a page, and of the page after it.
LEMMA Skips ==
    ASSUME NEW w, w.page \in Nat \ {0}
    PROVE  Skip(w) \in Nat /\ w.page * PerPage = Skip(w) + PerPage
<1>1. PICK n \in Nat : w.page = n + 1
  <2>1. w.page = (w.page - 1) + 1 /\ w.page - 1 \in Nat
    OBVIOUS
  <2> QED
    BY <2>1
<1>2. n * PerPage \in Nat /\ (n + 1) * PerPage = n * PerPage + PerPage
  BY PageAssumption
<1>3. w.page - 1 = n
  BY <1>1
<1> QED
  BY <1>1, <1>2, <1>3 DEF Skip

\* The places of the first n that are behind the first s and among the next q.
Window(n, s, q) == {k \in 1..n : s < k /\ k <= s + q}

\* They are q unless the list ends before.
LEMMA WindowSize ==
    ASSUME NEW n \in Nat, NEW s \in Nat, NEW q \in Nat \ {0}
    PROVE  /\ IsFiniteSet(Window(n, s, q)) /\ Cardinality(Window(n, s, q)) \in Nat
           /\ Cardinality(Window(n, s, q)) = q => s + q <= n
           /\ Cardinality(Window(n, s, q)) # q => n < s + q /\ n <= s + Cardinality(Window(n, s, q))
<1> DEFINE K == Window(n, s, q)
<1>1. CASE n < s + q
  <2>1. K = (s + 1)..n
    BY <1>1 DEF Window
  <2>2. IsFiniteSet((s + 1)..n) /\ Cardinality((s + 1)..n) = IF s + 1 > n THEN 0 ELSE n - (s + 1) + 1
    BY FS_Interval, s + 1 \in Int, n \in Int
  <2>3. Cardinality(K) \in Nat /\ Cardinality(K) < q /\ n <= s + Cardinality(K)
    <3>1. Cardinality(K) = IF s + 1 > n THEN 0 ELSE n - (s + 1) + 1
      BY <2>1, <2>2
    <3> QED
      BY <1>1, <3>1
  <2>4. IsFiniteSet(K)
    BY <2>1, <2>2
  <2> QED
    BY <1>1, <2>3, <2>4
<1>2. CASE s + q <= n
  <2>1. K = (s + 1)..(s + q)
    BY <1>2 DEF Window
  <2>2. IsFiniteSet((s + 1)..(s + q)) /\ Cardinality((s + 1)..(s + q)) = IF s + 1 > s + q THEN 0 ELSE s + q - (s + 1) + 1
    BY FS_Interval, s + 1 \in Int, s + q \in Int
  <2>3. Cardinality(K) = q
    <3>1. Cardinality(K) = IF s + 1 > s + q THEN 0 ELSE s + q - (s + 1) + 1
      BY <2>1, <2>2
    <3> QED
      BY <3>1
  <2>4. IsFiniteSet(K)
    BY <2>1, <2>2
  <2> QED
    BY <1>2, <2>3, <2>4
<1> QED
  BY <1>1, <1>2

\* A full page ends within the listing; one that is not full ends with it.
LEMMA PageSize ==
    ASSUME NEW w, w.page \in Nat \ {0}, NEW S, IsFiniteSet(S), NEW list \in Answers(w, S)
    PROVE  /\ PageOf(w, list) \subseteq S
           /\ Cardinality(PageOf(w, list)) \in Nat
           /\ Cardinality(PageOf(w, list)) = PerPage => Skip(w) + PerPage <= Cardinality(S)
           /\ Cardinality(PageOf(w, list)) # PerPage =>
                 /\ Cardinality(S) < Skip(w) + PerPage
                 /\ Cardinality(S) <= Skip(w) + Cardinality(PageOf(w, list))
<1>1. /\ Cardinality(S) \in Nat /\ DOMAIN list = 1..Cardinality(S)
      /\ \A i, j \in 1..Cardinality(S) : list[i] = list[j] => i = j
      /\ \A i \in 1..Cardinality(S) : list[i] \in S
  BY AnswerIsListing
<1>2. Skip(w) \in Nat /\ PerPage \in Nat \ {0}
  BY Skips, PageAssumption
<1>3. PICK K : K = Window(Cardinality(S), Skip(w), PerPage)
  OBVIOUS
<1>4. PageOf(w, list) = {list[i] : i \in K}
  BY <1>1, <1>3 DEF PageOf, Window
<1>5. /\ IsFiniteSet(K) /\ Cardinality(K) \in Nat
      /\ Cardinality(K) = PerPage => Skip(w) + PerPage <= Cardinality(S)
      /\ Cardinality(K) # PerPage => Cardinality(S) < Skip(w) + PerPage /\ Cardinality(S) <= Skip(w) + Cardinality(K)
  BY <1>1, <1>2, <1>3, WindowSize, Zenon
<1>6. K \subseteq 1..Cardinality(S)
  BY <1>3 DEF Window
<1>7. \A i, j \in K : list[i] = list[j] => i = j
  BY <1>1, <1>6
<1>8. Cardinality(PageOf(w, list)) = Cardinality(K)
  <2>1. Cardinality({list[i] : i \in K}) = Cardinality(K)
    BY <1>5, <1>7, AsMany
  <2> QED
    BY <1>4, <2>1
<1>9. PageOf(w, list) \subseteq S
  BY <1>1, <1>4, <1>6
<1> QED
  BY <1>5, <1>8, <1>9

-----------------------------------------------------------------------------
(* Types *)

\* What is a times b at most is a at most the quotient by b.
LEMMA Quotient ==
    ASSUME NEW a \in Nat, NEW b \in Nat \ {0}, NEW c \in Nat, a * b <= c
    PROVE  a <= c \div b
<1>1. PICK d \in Nat : d = c \div b
  OBVIOUS
<1>2. PICK e \in 0..(b - 1) : c = b * d + e
  <2>1. c % b \in 0..(b - 1) /\ c = b * (c \div b) + (c % b)
    OBVIOUS
  <2> QED
    BY <1>1, <2>1
<1>3. CASE a > d
  <2>1. PICK k \in Nat : a = d + 1 + k
    <3>1. a - d - 1 \in Nat /\ a = d + 1 + (a - d - 1)
      BY <1>3
    <3> QED
      BY <3>1
  <2>2. a * b = d * b + b + k * b /\ k * b \in Nat /\ b * d = d * b /\ d * b \in Nat
    BY <2>1
  <2> QED
    BY <1>2, <2>2
<1> QED
  BY <1>1, <1>3

\* The types of what Listing adds to the shop.
Walks == /\ born \in [Things -> Nat]
         /\ walk \in [Readers -> Walk \union {NoWalk}]

\* A page that was full is followed by one that there may be.
LEMMA NextPage ==
    ASSUME NEW w \in Walk, w.page * PerPage <= Cardinality(Things)
    PROVE  w.page + 1 \in 1..(Cardinality(Things) \div PerPage + 1)
<1> DEFINE c == Cardinality(Things)
<1>1. c \in Nat /\ PerPage \in Nat \ {0}
  BY FiniteThings, FS_CardinalityType, PageAssumption
<1>2. w.page \in 1..(c \div PerPage + 1)
  BY DEF Walk
<1> HIDE DEF c
<1>3. w.page \in Nat /\ c \div PerPage \in Int
  BY <1>1, <1>2
<1>4. w.page <= c \div PerPage
  BY <1>1, <1>3, Quotient DEF c
<1> QED
  BY <1>2, <1>3, <1>4 DEF c

-----------------------------------------------------------------------------
(* What is listed stays listed *)

\* Nobody has asked to archive a record.
NoArchivers == \A p \in Requests : req[p] = NoRequest \/ req[p].op # "archive"

\* No two requests add the same record.
Distinct == \A p, q \in Requests :
    req[p] # NoRequest /\ req[q] # NoRequest /\ req[p].op = "add" /\ req[q].op = "add" /\ p # q => req[p].id # req[q].id

\* A handler is about to write a new record where there is none, or a copy of
\* one that is there; nobody but ArchiveRecord archives it.
Copied(p) == pc[p] = "SaveRecord" =>
    IF req[p].op = "add"
    THEN records[req[p].id] = NoRecord /\ ~rec[p].archived
    ELSE /\ records[Target(p)] # NoRecord
         /\ NoArchivers => (rec[p].archived <=> records[Target(p)].archived)

\* The handlers' part of the invariant.
AllCopied == Distinct /\ \A p \in Requests : Copied(p)

\* The walk of a client that is not an administrator has met its own orders only.
Rightful(w) == w.user \notin Admins =>
    /\ w.kind = "orders" => w.owner = w.user
    /\ \A o \in w.seen \intersect Requests : orders[o] # NoOrder /\ orders[o].user = w.user

\* The count of a listing that only grows is no more than the listing.
Covered(w) == w.kind # "order" /\ (w.kind = "inventory" \/ OnlyGrows(w)) =>
    /\ w.stage = "Find" /\ w.kind # "inventory" => w.total <= Cardinality(Listed(w))
    /\ w.stage = "ended" => w.total <= Skip(w) + w.got

\* What is listed before t.
Ahead(w, t) == {u \in Listed(w) : born[u] > born[t]}

\* What a walk has yet to meet is not on a page that it has turned.
Unmissed(w) == w.kind \in {"orders", "records"} /\ OnlyGrows(w) /\ NoTies(w) =>
    /\ w.there \subseteq Listed(w)
    /\ w.stage # "ended" => \A t \in w.there \ w.seen : Skip(w) <= Cardinality(Ahead(w, t))
    /\ w.stage = "ended" => w.there \subseteq w.seen

\* A sound walk, and the inductive invariant: every walk is sound.
WalkOK(w) == w \in Walk /\ Rightful(w) /\ Covered(w) /\ Unmissed(w)

WalksOK == /\ Walks
           /\ AllCopied
           /\ \A b \in Readers : walk[b] # NoWalk => WalkOK(walk[b])

-----------------------------------------------------------------------------
(* The copies of the handlers *)

\* The others keep their copies.
LEMMA CopiesKept ==
    ASSUME Typed, NEW p \in Requests, Accept(p) \/ Serve(p), NEW q \in Requests \ {p}
    PROVE  rec'[q] = rec[q]
<1>1. TypeOK
  BY DEF Typed
<1>2. ASSUME NEW code, Return(p, code) PROVE rec'[q] = rec[q]
  BY <1>1, <1>2 DEF Return, TypeOK
<1>3. ASSUME NEW code, Written(p, code) PROVE rec'[q] = rec[q]
  BY <1>2, <1>3 DEF Written
<1>4. ASSUME NEW doc, NEW call, Hold(p, doc, call) PROVE rec'[q] = rec[q]
  BY <1>1, <1>4 DEF Hold, TypeOK
<1>5. ASSUME NEW code, Refuse(p, code) PROVE rec'[q] = rec[q]
  BY <1>2, <1>5 DEF Refuse
<1>6. CASE Accept(p)
  BY <1>1, <1>6 DEF Accept, TypeOK
<1>7. CASE Create(p)
  BY <1>2, <1>3, <1>4, <1>5, <1>7 DEF Create, CreateGetRecord, CreateDecrementStock, CreateSaveOrder
<1>8. CASE Cancel(p)
  BY <1>2, <1>3, <1>4, <1>5, <1>8 DEF Cancel, CancelGetOrder, CancelGetRecord, CancelSaveRecord, CancelSaveOrder
<1>9. CASE Restock(p) \/ Update(p) \/ Archive(p) \/ AddSaveRecord(p) \/ StoreError(p)
  BY <1>3, <1>4, <1>5, <1>9 DEF Restock, RestockGetRecord, RestockSaveRecord, Update, UpdateGetRecord, UpdateSaveRecord,
     Archive, ArchiveGetRecord, ArchiveSaveRecord, AddSaveRecord, SaveBack, StoreError
<1> QED
  BY <1>6, <1>7, <1>8, <1>9 DEF Serve

\* The copy of a document says whether it is archived, but ArchiveRecord's.
LEMMA CopyTaken ==
    ASSUME Typed, Typed', NEW p \in Requests, Accept(p) \/ Serve(p), pc'[p] = "SaveRecord"
    PROVE  UNCHANGED records /\ Copied(p)'
<1>1. TypeOK /\ TypeOK' /\ \A r \in Records : records[r] # NoRecord => records[r] \in Doc
  BY DEF Typed, TypeOK
<1>2. CASE Accept(p)
  <2>1. PICK q \in Request : /\ Acceptable(q) /\ req' = [req EXCEPT ![p] = q]
                             /\ Goto(p, FirstCall(q))
                             /\ rec' = IF q.op = "add" THEN [rec EXCEPT ![p] = NewRecord(q)] ELSE rec
    BY <1>2 DEF Accept
  <2>2. req'[p] = q /\ q.op = "add"
    BY <1>1, <2>1 DEF Goto, FirstCall, TypeOK
  <2>3. rec'[p] = NewRecord(q)
    BY <1>1, <2>1, <2>2 DEF TypeOK
  <2>4. UNCHANGED records
    BY <1>2 DEF Accept, store
  <2> QED
    BY <2>1, <2>2, <2>3, <2>4 DEF Acceptable, Fresh, NewRecord, Copied
<1>3. ASSUME NEW code, Return(p, code) PROVE FALSE
  BY <1>1, <1>3 DEF Return, TypeOK
<1>4. ASSUME NEW n, Goto(p, NextLine(p, n, "SaveOrder")) PROVE FALSE
  BY <1>1, <1>4 DEF Goto, NextLine, TypeOK
<1>5. ASSUME NEW doc \in Doc, Hold(p, doc, "SaveRecord"), UNCHANGED <<req, idx>>, req[p].op # "add",
             records[Target(p)] # NoRecord,
             NoArchivers => (doc.archived <=> records[Target(p)].archived)
      PROVE  UNCHANGED records /\ Copied(p)'
  <2>1. UNCHANGED <<records, ord, req, idx>> /\ rec'[p] = doc
    BY <1>1, <1>5 DEF Hold, TypeOK, store
  <2>2. Target(p)' = Target(p) /\ (NoArchivers' <=> NoArchivers)
    BY <2>1 DEF Target, Ordered, NoArchivers
  <2> QED
    BY <1>5, <2>1, <2>2 DEF Copied
<1>6. ASSUME NEW doc \in Doc, NEW qty \in Quantities
      PROVE  Stocked(doc, qty) \in Doc /\ Stocked(doc, qty).archived = doc.archived
  BY <1>6, StockedDoc DEF Doc
<1>7. CASE Create(p)
  <2>1. CASE CreateGetRecord(p)
    BY <1>1, <1>3, <2>1 DEF CreateGetRecord, Refuse, Hold, Goto, TypeOK
  <2> QED
    BY <1>3, <1>4, <1>7, <2>1, WrittenReturns DEF Create, CreateDecrementStock, CreateSaveOrder, Refuse
<1>8. CASE Cancel(p)
  <2>1. CASE CancelGetOrder(p)
    BY <1>1, <1>3, <2>1 DEF CancelGetOrder, Refuse, Goto, TypeOK
  <2>2. CASE CancelGetRecord(p)
    <3>1. At(p, "cancel", "GetRecord")
      BY <2>2 DEF CancelGetRecord
    <3>2. Ordered(p).qty \in Quantities /\ Ordered(p).id \in Records /\ Target(p) = Ordered(p).id /\ req[p].op = "cancel"
      BY <3>1, Cancelling DEF Calls, OrderItem, Target, At
    <3>3. Hold(p, Stocked(records[Ordered(p).id], Ordered(p).qty), "SaveRecord")
          /\ records[Ordered(p).id] # NoRecord /\ UNCHANGED <<req, idx>>
      BY <1>4, <2>2 DEF CancelGetRecord, Restorable
    <3> QED
      BY <1>1, <1>5, <1>6, <3>2, <3>3
  <2>3. CASE CancelSaveRecord(p)
    BY <1>3, <1>4, <2>3 DEF CancelSaveRecord
  <2>4. CASE CancelSaveOrder(p)
    BY <1>3, <2>4, WrittenReturns DEF CancelSaveOrder
  <2> QED
    BY <1>8, <2>1, <2>2, <2>3, <2>4 DEF Cancel
<1>9. CASE Restock(p)
  <2>1. req[p] \in RestockRequest /\ req[p].op = "restock"
    BY <1>1, <1>9, RequestFields DEF Restock, RestockGetRecord, RestockSaveRecord, At, TypeOK
  <2>2. req[p].id \in Records /\ req[p].qty \in Quantities /\ Target(p) = req[p].id
    BY <2>1 DEF RestockRequest, Target
  <2>3. CASE RestockGetRecord(p)
    BY <1>1, <1>3, <1>5, <1>6, <2>1, <2>2, <2>3 DEF RestockGetRecord, Refuse
  <2> QED
    BY <1>3, <1>9, <2>3, WrittenReturns DEF Restock, RestockSaveRecord, SaveBack
<1>10. CASE Update(p)
  <2>1. req[p] \in UpdateRequest /\ req[p].op = "update"
    BY <1>1, <1>10, RequestFields DEF Update, UpdateGetRecord, UpdateSaveRecord, At, TypeOK
  <2>2. req[p].id \in Records /\ Target(p) = req[p].id
    BY <2>1 DEF UpdateRequest, Target
  <2>3. ASSUME NEW doc \in Doc PROVE Patch(doc, req[p]) \in Doc /\ Patch(doc, req[p]).archived = doc.archived
    BY <2>1, <2>3, PatchDoc DEF Patch, Doc
  <2>4. CASE UpdateGetRecord(p)
    BY <1>1, <1>3, <1>5, <2>1, <2>2, <2>3, <2>4 DEF UpdateGetRecord, Refuse
  <2> QED
    BY <1>3, <1>10, <2>4, WrittenReturns DEF Update, UpdateSaveRecord, SaveBack
<1>11. CASE Archive(p)
  <2>1. req[p] \in ArchiveRequest /\ req[p].op = "archive" /\ req[p] # NoRequest
    BY <1>1, <1>11, RequestFields DEF Archive, ArchiveGetRecord, ArchiveSaveRecord, At, TypeOK
  <2>2. req[p].id \in Records /\ Target(p) = req[p].id /\ ~NoArchivers
    BY <2>1 DEF ArchiveRequest, Target, NoArchivers
  <2>3. ASSUME NEW doc \in Doc PROVE [doc EXCEPT !.archived = TRUE] \in Doc
    BY <2>3 DEF Doc
  <2>4. CASE ArchiveGetRecord(p)
    BY <1>1, <1>3, <1>5, <2>1, <2>2, <2>3, <2>4 DEF ArchiveGetRecord, Refuse
  <2> QED
    BY <1>3, <1>11, <2>4, WrittenReturns DEF Archive, ArchiveSaveRecord, SaveBack
<1>12. CASE AddSaveRecord(p) \/ StoreError(p)
  BY <1>3, <1>12, WrittenReturns DEF AddSaveRecord, SaveBack, StoreError, Refuse
<1> QED
  BY <1>2, <1>7, <1>8, <1>9, <1>10, <1>11, <1>12 DEF Serve

\* Without archivers no record changes sides.
Unarchived == NoArchivers => \A r \in Records : records[r] # NoRecord =>
                                 (records'[r].archived <=> records[r].archived)

\* A write leaves archived as it is, unless there are archivers.
LEMMA WritesUnarchived ==
    ASSUME Typed, AllCopied, NEW p \in Requests, Accept(p) \/ Serve(p)
    PROVE  Unarchived
<1>1. TypeOK /\ \A r \in Records : records[r] # NoRecord => records[r] \in Doc
  BY DEF Typed, TypeOK
<1>2. CASE UNCHANGED records
  BY <1>2 DEF Unarchived
<1>3. CASE CanDecrement(Line(p).id, Line(p).qty) /\ Decrement(p)
  <2> DEFINE r == Line(p).id
  <2>1. ASSUME r \in Records PROVE records'[r].archived = records[r].archived
    <3>1. records[r] \in Doc
      BY <1>1, <1>3, <2>1 DEF CanDecrement
    <3> QED
      BY <1>1, <1>3, <2>1, <3>1 DEF Decrement, TypeOK, Doc
  <2>2. \A x \in Records \ {r} : records'[x] = records[x]
    BY <1>1, <1>3 DEF Decrement, TypeOK
  <2> QED
    BY <2>1, <2>2 DEF Unarchived
<1>4. CASE pc[p] = "SaveRecord" /\ Replace(p, Target(p))
  <2>1. Copied(p)
    BY DEF AllCopied
  <2>2. req[p].op = "add" => Target(p) = req[p].id
    BY DEF Target
  <2>3. \A x \in Records : records'[x] = IF x = Target(p) THEN rec[p] ELSE records[x]
    BY <1>1, <1>4 DEF Replace, TypeOK
  <2> QED
    BY <1>4, <2>1, <2>2, <2>3 DEF Copied, Unarchived
<1> QED
  BY <1>2, <1>3, <1>4, Writes

\* No two requests ever add the same record.
LEMMA DistinctStep ==
    ASSUME Typed, Distinct, NEW p \in Requests, Accept(p) \/ Serve(p), OnlyMoves(p)
    PROVE  Distinct'
<1>1. TypeOK
  BY DEF Typed
<1>2. CASE Accept(p)
  <2>1. PICK q \in Request : Acceptable(q) /\ req' = [req EXCEPT ![p] = q]
    BY <1>2 DEF Accept
  <2>2. req'[p] = q /\ \A x \in Requests \ {p} : req'[x] = req[x]
    BY <1>1, <2>1 DEF TypeOK
  <2>3. q.op = "add" => \A x \in Requests : req[x] # NoRequest /\ req[x].op = "add" => req[x].id # q.id
    BY <2>1 DEF Acceptable, Fresh
  <2> QED
    BY <2>2, <2>3 DEF Distinct
<1>3. CASE Serve(p)
  <2>1. UNCHANGED req
    BY <1>3 DEF Serve, Create, CreateGetRecord, CreateDecrementStock, CreateSaveOrder,
       Cancel, CancelGetOrder, CancelGetRecord, CancelSaveRecord, CancelSaveOrder,
       Restock, RestockGetRecord, RestockSaveRecord, Update, UpdateGetRecord, UpdateSaveRecord,
       Archive, ArchiveGetRecord, ArchiveSaveRecord, AddSaveRecord, SaveBack, StoreError
  <2> QED
    BY <2>1 DEF Distinct
<1> QED
  BY <1>2, <1>3

\* Nobody else writes a record that is still to be added.
LEMMA StillFree ==
    ASSUME Typed, AllCopied, NEW p \in Requests, Accept(p) \/ Serve(p),
           NEW q \in Requests \ {p}, pc[q] = "SaveRecord", req[q].op = "add"
    PROVE  records'[req[q].id] = NoRecord
<1> DEFINE r == req[q].id
<1>1. TypeOK /\ records[r] = NoRecord /\ req[q] # NoRequest
  BY DEF Typed, ControlOK, Control, AllCopied, Copied
<1>2. CASE UNCHANGED records
  BY <1>1, <1>2
<1>3. r \in Records
  BY <1>1, RequestFields DEF TypeOK, AddRequest
<1>4. CASE CanDecrement(Line(p).id, Line(p).qty) /\ Decrement(p)
  BY <1>1, <1>3, <1>4 DEF CanDecrement, Decrement, TypeOK
<1>5. CASE pc[p] = "SaveRecord" /\ Replace(p, Target(p))
  <2>1. req[p] # NoRequest
    BY <1>5 DEF Typed, ControlOK, Control
  <2>2. Target(p) # r
    BY <1>1, <1>5, <2>1 DEF AllCopied, Copied, Distinct, Target
  <2> QED
    BY <1>1, <1>3, <1>5, <2>2 DEF Replace, TypeOK
<1> QED
  BY <1>2, <1>4, <1>5, Writes

\* Every step of a handler keeps this.
LEMMA CopiedStep ==
    ASSUME Typed, Typed', OrdersOK, AllCopied, NEW p \in Requests, Accept(p) \/ Serve(p)
    PROVE  AllCopied' /\ Unarchived /\ RecordsStay /\ (NoArchivers' => NoArchivers)
<1>1. Unarchived /\ RecordsStay /\ OnlyMoves(p) /\ OnlyStores(p)
  BY WritesUnarchived, StepsStay, StepMoves
<1>2. NoArchivers' => NoArchivers
  BY <1>1 DEF NoArchivers, OnlyMoves
<1>3. Distinct'
  BY <1>1, DistinctStep DEF AllCopied
<1>4. Copied(p)'
  BY CopyTaken DEF Copied
<1>5. ASSUME NEW q \in Requests \ {p}, pc'[q] = "SaveRecord" PROVE Copied(q)'
  <2>1. /\ pc'[q] = pc[q] /\ req'[q] = req[q] /\ ord'[q] = ord[q] /\ idx'[q] = idx[q]
        /\ rec'[q] = rec[q]
    BY <1>1, CopiesKept DEF OnlyMoves
  <2>2. Copied(q) /\ Target(q)' = Target(q)
    BY <2>1 DEF AllCopied, Target, Ordered
  <2>3. CASE req[q].op = "add"
    BY <1>5, <2>1, <2>2, <2>3, StillFree DEF Copied
  <2>4. CASE req[q].op # "add"
    <3>1. Target(q) \in Records
      BY <1>5, <2>1, SaveRecordTarget
    <3> QED
      BY <1>1, <1>2, <1>5, <2>1, <2>2, <2>4, <3>1 DEF Copied, RecordsStay, Unarchived
  <2> QED
    BY <2>3, <2>4
<1>6. \A q \in Requests : Copied(q)'
  BY <1>4, <1>5 DEF Copied
<1> QED
  BY <1>1, <1>2, <1>3, <1>6 DEF AllCopied

-----------------------------------------------------------------------------
(* Listings that only grow *)

Stands(t) == /\ t \in Requests => orders[t] # NoOrder
             /\ t \in Records => records[t] # NoRecord

\* What the store holds has been born before.
LEMMA BornOnce ==
    ASSUME Typed, OrdersOK, Walks, NEW p \in Requests, Receive(p) \/ Write(p)
    PROVE  born' \in [Things -> Nat] /\ \A t \in Things : Stands(t) => born'[t] = born[t]
<1>1. TypeOK /\ born \in [Things -> Nat]
  BY DEF Typed, Walks
<1>2. CASE UNCHANGED born
  BY <1>1, <1>2
<1>3. ASSUME Receive(p), req'[p].op = "add", Bear(req'[p].id)
      PROVE  born' \in [Things -> Nat] /\ \A t \in Things : Stands(t) => born'[t] = born[t]
  <2>1. PICK q \in Request : Acceptable(q) /\ req' = [req EXCEPT ![p] = q]
    BY <1>3 DEF Receive, Accept
  <2>2. req'[p] = q
    BY <1>1, <2>1 DEF TypeOK
  <2>3. q.id \in Records /\ records[q.id] = NoRecord
    BY <1>3, <2>1, <2>2, RequestFields DEF AddRequest, Acceptable, Fresh
  <2>4. q.id \in Things /\ Bear(q.id)
    BY <1>3, <2>2, <2>3 DEF Things
  <2>5. born' \in [Things -> Nat] /\ \A u \in Things \ {q.id} : born'[u] = born[u]
    BY <1>1, <2>4, BearTyped
  <2> QED
    BY <2>3, <2>5 DEF Stands
<1>4. ASSUME Write(p), req[p].op = "create", Bear(p)
      PROVE  born' \in [Things -> Nat] /\ \A t \in Things : Stands(t) => born'[t] = born[t]
  <2>1. pc[p] \in Calls
    BY <1>4 DEF Write, Serve, Create, CreateGetRecord, CreateDecrementStock, CreateSaveOrder,
       Cancel, CancelGetOrder, CancelGetRecord, CancelSaveRecord, CancelSaveOrder,
       Restock, RestockGetRecord, RestockSaveRecord, Update, UpdateGetRecord, UpdateSaveRecord,
       Archive, ArchiveGetRecord, ArchiveSaveRecord, AddSaveRecord, StoreError, At, Calls
  <2>2. orders[p] = NoOrder /\ p \in Things
    BY <1>4, <2>1 DEF OrdersOK, Building, Serves, Serving, Things
  <2>3. born' \in [Things -> Nat] /\ \A u \in Things \ {p} : born'[u] = born[u]
    BY <1>1, <1>4, <2>2, BearTyped
  <2> QED
    BY <2>2, <2>3 DEF Stands
<1> QED
  BY <1>2, <1>3, <1>4 DEF Receive, Write

\* A listing without filter keeps what it has, where it is.
LEMMA ListingGrows ==
    ASSUME Typed, Typed', OrdersOK, OrdersOK', AllCopied, Walks, NEW p \in Requests, Receive(p) \/ Write(p),
           NEW w, w.kind \in {"orders", "records"}, OnlyGrows(w)'
    PROVE  /\ OnlyGrows(w)
           /\ Listed(w) \subseteq Listed(w)'
           /\ \A t \in Listed(w) : born'[t] = born[t]
<1>1. Accept(p) \/ Serve(p)
  BY DEF Receive, Write
<1>2. Unarchived /\ RecordsStay /\ (NoArchivers' => NoArchivers) /\ Frozen
  BY <1>1, CopiedStep, StepMoves DEF OnlyStores
<1>3. ~w.narrow /\ (w.kind = "records" => NoArchivers' /\ NoArchivers)
  BY <1>2 DEF OnlyGrows, NoArchivers
<1>4. OnlyGrows(w)
  BY <1>3 DEF OnlyGrows, NoArchivers
<1>5. CASE w.kind = "orders"
  <2>1. Listed(w) = {o \in Requests : orders[o] # NoOrder /\ orders[o].user = w.owner}
    BY <1>3, <1>5 DEF Listed
  <2>2. Listed(w)' = {o \in Requests : orders'[o] # NoOrder /\ orders'[o].user = w.owner}
    BY <1>3, <1>5 DEF Listed
  <2>3. ASSUME NEW o \in Listed(w) PROVE o \in Listed(w)'
    <3>1. orders'[o] # NoOrder /\ orders'[o].user = orders[o].user
      BY <1>2, <2>1, <2>3, FrozenFields DEF Frozen
    <3> QED
      BY <2>1, <2>2, <2>3, <3>1
  <2>4. ASSUME NEW o \in Listed(w) PROVE o \in Things /\ Stands(o)
    BY <2>1, <2>4, ThingAssumption DEF Stands, Things
  <2> QED
    BY <1>4, <2>3, <2>4, BornOnce
<1>6. CASE w.kind = "records"
  <2>1. Listed(w) = {r \in Records : records[r] # NoRecord /\ ~records[r].archived}
    BY <1>3, <1>6 DEF Listed
  <2>2. Listed(w)' = {r \in Records : records'[r] # NoRecord /\ ~records'[r].archived}
    BY <1>3, <1>6 DEF Listed
  <2>3. ASSUME NEW r \in Listed(w) PROVE r \in Listed(w)'
    BY <1>2, <1>3, <1>6, <2>1, <2>2, <2>3 DEF Unarchived, RecordsStay
  <2>4. ASSUME NEW r \in Listed(w) PROVE r \in Things /\ Stands(r)
    BY <2>1, <2>4, ThingAssumption DEF Stands, Things
  <2> QED
    BY <1>4, <2>3, <2>4, BornOnce
<1> QED
  BY <1>5, <1>6

\* The sizes of sets of documents are numbers, larger for larger sets.
LEMMA Sizes ==
    ASSUME NEW S, NEW T, S \subseteq T, T \subseteq Things
    PROVE  /\ IsFiniteSet(S) /\ IsFiniteSet(T)
           /\ Cardinality(S) \in Nat /\ Cardinality(T) \in Nat
           /\ Cardinality(S) <= Cardinality(T)
<1>1. IsFiniteSet(T)
  BY FiniteThings, FS_Subset
<1> QED
  BY <1>1, FS_Subset, FS_CardinalityType

\* What is listed after a step are orders, or records.
LEMMA ListedThingsNext == ASSUME NEW w PROVE Listed(w)' \subseteq Things
  BY DEF Listed, Things

\* A handler takes nothing from what a walk has met and is to meet.
LEMMA WriterKeeps ==
    ASSUME Typed, Typed', OrdersOK, OrdersOK', AllCopied, Walks, NEW p \in Requests, Receive(p) \/ Write(p),
           NEW w \in Walk, Rightful(w), Covered(w), Unmissed(w)
    PROVE  Rightful(w)' /\ Covered(w)' /\ Unmissed(w)'
<1>1. Frozen
  BY StepMoves DEF OnlyStores, Receive, Write
<1>2. Rightful(w)'
  <2>1. ASSUME NEW o \in w.seen \intersect Requests, orders[o] # NoOrder, orders[o].user = w.user
        PROVE  orders'[o] # NoOrder /\ orders'[o].user = w.user
    BY <1>1, <2>1, FrozenFields DEF Frozen
  <2> QED
    BY <2>1 DEF Rightful
<1>3. Covered(w)'
  <2>1. CASE w.kind = "inventory"
    BY <2>1 DEF Covered, Skip
  <2>2. CASE w.kind \in {"orders", "records"} /\ OnlyGrows(w)'
    <3>1. OnlyGrows(w) /\ Listed(w) \subseteq Listed(w)'
      BY <2>2, ListingGrows
    <3>2. Cardinality(Listed(w)) \in Nat /\ Cardinality(Listed(w)') \in Nat
          /\ Cardinality(Listed(w)) <= Cardinality(Listed(w)')
      BY <3>1, ListedThingsNext, Sizes
    <3>3. w.total \in Nat
      BY DEF Walk
    <3> QED
      BY <2>2, <3>1, <3>2, <3>3 DEF Covered, Skip
  <2> QED
    BY <2>1, <2>2 DEF Covered, Walk, Kinds
<1>4. Unmissed(w)'
  <2> SUFFICES ASSUME w.kind \in {"orders", "records"}, OnlyGrows(w)', NoTies(w)' PROVE Unmissed(w)'
    BY DEF Unmissed
  <2>1. OnlyGrows(w) /\ Listed(w) \subseteq Listed(w)' /\ \A t \in Listed(w) : born'[t] = born[t]
    BY ListingGrows
  <2>2. NoTies(w)
    BY <2>1 DEF NoTies
  <2>3. /\ w.there \subseteq Listed(w)
        /\ w.stage # "ended" => \A t \in w.there \ w.seen : Skip(w) <= Cardinality(Ahead(w, t))
        /\ w.stage = "ended" => w.there \subseteq w.seen
    BY <2>1, <2>2 DEF Unmissed
  <2>4. Skip(w) \in Nat
    BY Skips, FiniteThings, FS_CardinalityType, PageAssumption DEF Walk
  <2>5. ASSUME NEW t \in Listed(w) PROVE Cardinality(Ahead(w, t)) <= Cardinality(Ahead(w, t)')
                                         /\ Cardinality(Ahead(w, t)) \in Nat /\ Cardinality(Ahead(w, t)') \in Nat
    <3>1. Ahead(w, t) \subseteq Ahead(w, t)'
      BY <2>1, <2>5 DEF Ahead
    <3>2. Ahead(w, t)' \subseteq Things
      BY ListedThingsNext DEF Ahead
    <3> QED
      BY <3>1, <3>2, Sizes
  <2>6. \A t \in w.there \ w.seen : Skip(w) <= Cardinality(Ahead(w, t)) => Skip(w) <= Cardinality(Ahead(w, t)')
    BY <2>3, <2>4, <2>5
  <2> QED
    BY <2>1, <2>3, <2>6 DEF Unmissed, Skip
<1> QED
  BY <1>2, <1>3, <1>4

-----------------------------------------------------------------------------
(* One page after the other *)

\* Without ties as many documents are ahead as there are places before.
LEMMA PlacesAhead ==
    ASSUME Walks, NEW w, w.kind # "inventory", NoTies(w), NEW list \in Answers(w, Listed(w)),
           NEW i \in 1..Cardinality(Listed(w))
    PROVE  Cardinality(Ahead(w, list[i])) = i - 1
<1>1. PICK S : S = Listed(w)
  OBVIOUS
<1>2. PICK n : n = Cardinality(S)
  OBVIOUS
<1>3. IsFiniteSet(S) /\ n \in Nat /\ S \subseteq Things
  BY <1>1, <1>2, ListedThings
<1>4. /\ \A j, k \in 1..n : list[j] = list[k] => j = k
      /\ \A k \in 1..n : list[k] \in S
      /\ \A t \in S : \E k \in 1..n : list[k] = t
  BY <1>1, <1>2, <1>3, AnswerIsListing
<1>5. \A j, k \in 1..n : j < k => born[list[j]] >= born[list[k]]
  BY <1>1, <1>2 DEF Answers
<1>6. \A k \in 1..n : born[list[k]] \in Nat
  BY <1>3, <1>4 DEF Walks
<1>7. i \in 1..n
  BY <1>1, <1>2
<1>8. ASSUME NEW k \in 1..n PROVE born[list[k]] > born[list[i]] <=> k \in 1..(i - 1)
  <2>1. CASE k < i
    <3>1. born[list[k]] >= born[list[i]] /\ list[k] # list[i]
      BY <1>4, <1>5, <1>7, <1>8, <2>1
    <3>2. born[list[k]] # born[list[i]]
      BY <1>1, <1>4, <1>7, <3>1 DEF NoTies
    <3> QED
      BY <1>3, <1>6, <1>7, <2>1, <3>1, <3>2
  <2>2. CASE k = i
    BY <1>3, <1>6, <1>7, <2>2
  <2>3. CASE i < k
    <3>1. born[list[i]] >= born[list[k]]
      BY <1>5, <1>7, <2>3
    <3> QED
      BY <1>3, <1>6, <1>7, <2>3, <3>1
  <2> QED
    BY <1>3, <1>7, <2>1, <2>2, <2>3
<1>9. PICK D : D = 1..(i - 1)
  OBVIOUS
<1>10. D \subseteq 1..n /\ IsFiniteSet(D) /\ Cardinality(D) = i - 1
  <2>1. IsFiniteSet(1..(i - 1)) /\ Cardinality(1..(i - 1)) = IF 1 > i - 1 THEN 0 ELSE i - 1 - 1 + 1
    BY <1>3, <1>7, FS_Interval
  <2> QED
    BY <1>3, <1>7, <1>9, <2>1
<1>11. Ahead(w, list[i]) = {list[k] : k \in D}
  <2>1. ASSUME NEW u \in S PROVE born[u] > born[list[i]] <=> \E k \in D : u = list[k]
    <3>1. PICK j \in 1..n : list[j] = u
      BY <1>4
    <3> QED
      BY <1>4, <1>8, <1>9, <1>10, <3>1
  <2>2. \A k \in D : list[k] \in S
    BY <1>4, <1>10
  <2> QED
    BY <1>1, <2>1, <2>2 DEF Ahead
<1>12. Cardinality({list[k] : k \in D}) = Cardinality(D)
  <2>1. \A j, k \in D : list[j] = list[k] => j = k
    BY <1>4, <1>10
  <2> QED
    BY <1>10, <2>1, AsMany
<1> QED
  BY <1>10, <1>11, <1>12

\* A page shows what the walk may see, and all that it has to.
LEMMA PageTurned ==
    ASSUME Typed, Walks, NEW w, WalkOK(w), w.stage = "Find",
           NEW list \in Answers(w, Listed(w)), NEW items, items = PageOf(w, list),
           NEW full, full = (Cardinality(items) = PerPage),
           NEW v, v = [w EXCEPT !.seen = @ \union items,
                                !.got = Cardinality(items),
                                !.total = IF w.kind = "inventory" THEN Len(list) ELSE @,
                                !.page = IF full THEN @ + 1 ELSE @,
                                !.stage = IF full THEN Again(w) ELSE "ended"]
    PROVE  WalkOK(v)
<1> DEFINE S == Listed(w)
<1> DEFINE n == Cardinality(S)
<1>1. w \in Walk
  BY DEF WalkOK
<1>2. /\ v.kind = w.kind /\ v.user = w.user /\ v.owner = w.owner /\ v.narrow = w.narrow /\ v.there = w.there
      /\ v.seen = w.seen \union items /\ v.got = Cardinality(items)
      /\ v.total = IF w.kind = "inventory" THEN Len(list) ELSE w.total
      /\ v.page = IF full THEN w.page + 1 ELSE w.page
      /\ v.stage = IF full THEN Again(w) ELSE "ended"
  BY <1>1 DEF Walk
<1>3. w.page \in Nat \ {0} /\ w.total \in Nat /\ w.kind \in Kinds
  BY <1>1, FiniteThings, FS_CardinalityType, PageAssumption DEF Walk
<1>4. /\ IsFiniteSet(S) /\ n \in Nat /\ n <= Cardinality(Things) /\ S \subseteq Things /\ Cardinality(Things) \in Nat
      /\ w.kind = "orders" => S \subseteq Requests
      /\ w.kind # "orders" => S \subseteq Records
  BY ListedThings, FiniteThings, FS_CardinalityType
<1>5. /\ items \subseteq S
      /\ Cardinality(items) \in Nat
      /\ full => Skip(w) + PerPage <= n
      /\ ~full => n < Skip(w) + PerPage /\ n <= Skip(w) + Cardinality(items)
  BY <1>3, <1>4, PageSize
<1>6. Skip(w) \in Nat /\ w.page * PerPage = Skip(w) + PerPage /\ PerPage \in Nat \ {0}
  BY <1>3, Skips, PageAssumption
<1>7. /\ Len(list) = n /\ DOMAIN list = 1..n
      /\ \A i, j \in 1..n : list[i] = list[j] => i = j
      /\ \A t \in S : \E i \in 1..n : list[i] = t
  BY <1>4, AnswerIsListing
<1>8. /\ full => Skip(v) = Skip(w) + PerPage
      /\ ~full => Skip(v) = Skip(w)
  <2>1. full => v.page - 1 = w.page
    BY <1>2, <1>3
  <2> QED
    BY <1>2, <1>6, <2>1 DEF Skip
<1>9. /\ Listed(v) = S /\ (OnlyGrows(v) <=> OnlyGrows(w)) /\ (NoTies(v) <=> NoTies(w))
      /\ \A t : Ahead(v, t) = Ahead(w, t)
  <2>1. Listed(v) = S
    BY <1>2 DEF Listed
  <2> QED
    BY <1>2, <2>1 DEF OnlyGrows, NoTies, Ahead
<1> HIDE DEF S, n
<1>10. v \in Walk
  <2>1. v.seen \in SUBSET Things /\ v.got \in Nat /\ v.total \in Nat
    BY <1>1, <1>2, <1>3, <1>4, <1>5, <1>7 DEF Walk
  <2>2. v.page \in 1..(Cardinality(Things) \div PerPage + 1)
    <3>1. CASE full
      <4>1. w.page * PerPage <= Cardinality(Things)
        BY <1>4, <1>5, <1>6, <3>1
      <4> QED
        BY <1>1, <1>2, <3>1, <4>1, NextPage
    <3>2. CASE ~full
      BY <1>1, <1>2, <3>2 DEF Walk
    <3> QED
      BY <3>1, <3>2
  <2>3. v.stage \in {"CountDocuments", "Find", "ended"}
    BY <1>2 DEF Again
  <2>4. v = [kind |-> v.kind, user |-> v.user, owner |-> v.owner, narrow |-> v.narrow, page |-> v.page, total |-> v.total,
             got |-> v.got, there |-> v.there, seen |-> v.seen, stage |-> v.stage]
    BY <1>1 DEF Walk
  <2>5. v.kind \in Kinds /\ v.user \in Users /\ v.owner \in Users /\ v.narrow \in BOOLEAN /\ v.there \in SUBSET Things
    BY <1>1, <1>2 DEF Walk
  <2> QED
    BY <2>1, <2>2, <2>3, <2>4, <2>5 DEF Walk
<1>11. Rightful(v)
  <2> SUFFICES ASSUME w.user \notin Admins
               PROVE  /\ w.kind = "orders" => w.owner = w.user
                      /\ \A o \in v.seen \intersect Requests : orders[o] # NoOrder /\ orders[o].user = w.user
    BY <1>2 DEF Rightful
  <2>1. /\ w.kind = "orders" => w.owner = w.user
        /\ \A o \in w.seen \intersect Requests : orders[o] # NoOrder /\ orders[o].user = w.user
    BY DEF WalkOK, Rightful
  <2>2. ASSUME NEW o \in items \intersect Requests PROVE orders[o] # NoOrder /\ orders[o].user = w.user
    <3>1. w.kind = "orders"
      BY <1>4, <1>5, <2>2, ThingAssumption
    <3> QED
      BY <1>5, <2>1, <2>2, <3>1 DEF S, Listed
  <2> QED
    BY <1>2, <2>1, <2>2
<1>12. Covered(v)
  <2> SUFFICES ASSUME v.kind # "order", v.kind = "inventory" \/ OnlyGrows(v)
               PROVE  /\ v.stage = "Find" /\ v.kind # "inventory" => v.total <= Cardinality(Listed(v))
                      /\ v.stage = "ended" => v.total <= Skip(v) + v.got
    BY DEF Covered
  <2>1. v.stage = "Find" => v.kind = "inventory"
    BY <1>2 DEF Again
  <2>2. ASSUME v.stage = "ended" PROVE ~full
    BY <1>2, <2>2 DEF Again
  <2>3. w.kind # "inventory" => w.total <= n
    BY <1>2, <1>9 DEF WalkOK, Covered, n, S
  <2>4. v.total <= n
    BY <1>2, <1>4, <1>7, <2>3
  <2>5. ASSUME v.stage = "ended" PROVE v.total <= Skip(v) + v.got
    <3>1. n <= Skip(w) + Cardinality(items) /\ Skip(v) = Skip(w) /\ v.got = Cardinality(items) /\ v.total \in Nat
      BY <1>2, <1>5, <1>8, <1>10, <2>2, <2>5 DEF Walk
    <3> QED
      BY <1>4, <1>5, <1>6, <2>4, <3>1
  <2> QED
    BY <2>1, <2>5
<1>13. Unmissed(v)
  <2> SUFFICES ASSUME w.kind \in {"orders", "records"}, OnlyGrows(w), NoTies(w)
               PROVE  /\ w.there \subseteq S
                      /\ v.stage # "ended" => \A t \in w.there \ v.seen : Skip(v) <= Cardinality(Ahead(w, t))
                      /\ v.stage = "ended" => w.there \subseteq v.seen
    BY <1>2, <1>9 DEF Unmissed
  <2>1. w.there \subseteq S /\ \A t \in w.there \ w.seen : Skip(w) <= Cardinality(Ahead(w, t))
    BY DEF WalkOK, Unmissed, S
  <2>2. ASSUME NEW t \in w.there \ v.seen PROVE full /\ Skip(v) <= Cardinality(Ahead(w, t))
    <3>1. t \in S /\ t \notin w.seen /\ t \notin items
      BY <1>2, <2>1, <2>2
    <3>2. PICK i \in 1..n : list[i] = t
      BY <1>7, <3>1
    <3>3. Cardinality(Ahead(w, t)) = i - 1
      BY <3>2, PlacesAhead DEF n, S
    <3>4. Skip(w) <= i - 1
      BY <2>1, <2>2, <3>1, <3>3
    <3>5. ~(Skip(w) < i /\ i <= Skip(w) + PerPage)
      BY <1>7, <3>1, <3>2 DEF PageOf
    <3>6. i > Skip(w) + PerPage
      BY <1>4, <1>6, <3>4, <3>5
    <3>7. full
      BY <1>4, <1>5, <1>6, <3>6
    <3> QED
      BY <1>4, <1>6, <1>8, <3>3, <3>6, <3>7
  <2>3. v.stage = "ended" => ~full
    BY <1>2 DEF Again
  <2> QED
    BY <2>1, <2>2, <2>3
<1> QED
  BY <1>10, <1>11, <1>12, <1>13 DEF WalkOK

-----------------------------------------------------------------------------
(* The steps of a reader *)

\* There may always be a first page.
LEMMA FirstPage == 1 \in 1..(Cardinality(Things) \div PerPage + 1)
<1> DEFINE c == Cardinality(Things)
<1>1. c \in Nat /\ PerPage \in Nat \ {0}
  BY FiniteThings, FS_CardinalityType, PageAssumption
<1> HIDE DEF c
<1>2. c \div PerPage \in Nat
  BY <1>1
<1> QED
  BY <1>2 DEF c

\* What a client asks for first.
Opening(kind, user, asked, narrow) ==
    [kind |-> kind, user |-> user, owner |-> Owner(user, asked), narrow |-> narrow, page |-> 1,
     total |-> 0, got |-> 0, there |-> {}, seen |-> {},
     stage |-> IF kind = "inventory" THEN "Find" ELSE "CountDocuments"]

\* A walk begins with nothing seen and all that matches to be met.
LEMMA BeginOK ==
    ASSUME NEW kind \in Kinds \ {"order"}, NEW user \in Users, NEW asked \in Users, NEW narrow \in BOOLEAN,
           NEW w, w = Opening(kind, user, asked, narrow),
           NEW v, v = [w EXCEPT !.there = Listed(w)]
    PROVE  WalkOK(v)
<1>1. v = [kind |-> kind, user |-> user, owner |-> Owner(user, asked), narrow |-> narrow, page |-> 1,
           total |-> 0, got |-> 0, there |-> Listed(w), seen |-> {},
           stage |-> IF kind = "inventory" THEN "Find" ELSE "CountDocuments"]
  BY DEF Opening
<1>2. Listed(v) = Listed(w) /\ Listed(w) \in SUBSET Things
  <2>1. v.kind = w.kind /\ v.owner = w.owner /\ v.narrow = w.narrow
    BY <1>1 DEF Opening
  <2>2. Listed(v) = Listed(w)
    BY <2>1 DEF Listed
  <2> QED
    BY <2>2, ListedThings
<1>3. v \in Walk
  <2>1. Owner(user, asked) \in Users
    BY DEF Owner
  <2>2. (IF kind = "inventory" THEN "Find" ELSE "CountDocuments") \in {"CountDocuments", "Find", "ended"}
    OBVIOUS
  <2>3. PICK owner \in Users : owner = Owner(user, asked)
    BY <2>1
  <2>4. PICK there \in SUBSET Things : there = Listed(w)
    BY <1>2
  <2>5. PICK stage \in {"CountDocuments", "Find", "ended"} : stage = IF kind = "inventory" THEN "Find" ELSE "CountDocuments"
    BY <2>2
  <2>6. v = [kind |-> kind, user |-> user, owner |-> owner, narrow |-> narrow, page |-> 1,
             total |-> 0, got |-> 0, there |-> there, seen |-> {}, stage |-> stage]
    BY <1>1, <2>3, <2>4, <2>5, Zenon
  <2>7. v.narrow \in BOOLEAN
    <3>1. v.narrow = narrow
      BY <2>6
    <3> QED
      BY <3>1, Zenon
  <2>8. /\ v.kind \in Kinds /\ v.user \in Users /\ v.owner \in Users
        /\ v.page = 1 /\ v.total \in Nat /\ v.got \in Nat
        /\ v.there \in SUBSET Things /\ v.seen \in SUBSET Things /\ v.stage \in {"CountDocuments", "Find", "ended"}
    BY <2>6
  <2>9. v = [kind |-> v.kind, user |-> v.user, owner |-> v.owner, narrow |-> v.narrow, page |-> v.page, total |-> v.total,
             got |-> v.got, there |-> v.there, seen |-> v.seen, stage |-> v.stage]
    BY <2>6
  <2> QED
    BY <2>7, <2>8, <2>9, FirstPage DEF Walk
<1>4. Skip(v) = 0
  BY <1>1, PageAssumption DEF Skip
<1>5. Rightful(v)
  BY <1>1 DEF Rightful, Owner
<1>6. Covered(v)
  BY <1>1 DEF Covered
<1>7. Unmissed(v)
  <2>1. ASSUME NEW t PROVE Skip(v) <= Cardinality(Ahead(v, t))
    <3>1. Ahead(v, t) \subseteq Things
      BY <1>2 DEF Ahead
    <3>2. Cardinality(Ahead(v, t)) \in Nat
      BY <3>1, Sizes
    <3> QED
      BY <1>4, <3>2
  <2> QED
    BY <1>1, <1>2, <2>1 DEF Unmissed
<1> QED
  BY <1>3, <1>5, <1>6, <1>7 DEF WalkOK

\* The total is counted before the page is read.
LEMMA CountOK ==
    ASSUME NEW w, WalkOK(w), w.stage = "CountDocuments",
           NEW v, v = [w EXCEPT !.total = Counted(w), !.stage = "Find"]
    PROVE  WalkOK(v)
<1>1. w \in Walk
  BY DEF WalkOK
<1>2. /\ v.kind = w.kind /\ v.user = w.user /\ v.owner = w.owner /\ v.narrow = w.narrow /\ v.page = w.page
      /\ v.got = w.got /\ v.there = w.there /\ v.seen = w.seen
      /\ v.total = Counted(w) /\ v.stage = "Find"
  BY <1>1 DEF Walk
<1>3. Listed(v) = Listed(w) /\ Counted(w) = Cardinality(Listed(w)) /\ Counted(w) \in Nat
  BY <1>2, ListedThings DEF Listed, Counted
<1>4. v \in Walk
  BY <1>1, <1>3 DEF Walk
<1>5. Rightful(v)
  BY <1>2 DEF WalkOK, Rightful
<1>6. Covered(v)
  BY <1>2, <1>3 DEF Covered
<1>7. Unmissed(v)
  <2>1. /\ OnlyGrows(v) <=> OnlyGrows(w)
        /\ NoTies(v) <=> NoTies(w)
        /\ \A t : Ahead(v, t) = Ahead(w, t)
        /\ Skip(v) = Skip(w)
    BY <1>2, <1>3 DEF OnlyGrows, NoTies, Ahead, Skip
  <2> QED
    BY <1>2, <1>3, <2>1 DEF WalkOK, Unmissed
<1> QED
  BY <1>4, <1>5, <1>6, <1>7 DEF WalkOK

\* An order is shown to those who may access it.
LEMMA LookOK ==
    ASSUME NEW user \in Users, NEW o \in OrderIds, orders[o] # NoOrder, MayAccess(user, orders[o]),
           NEW v, v = [kind |-> "order", user |-> user, owner |-> user, narrow |-> FALSE, page |-> 1,
                       total |-> 1, got |-> 1, there |-> {o}, seen |-> {o}, stage |-> "ended"]
    PROVE  WalkOK(v)
<1>1. o \in Requests
  BY DEF OrderIds
<1>2. v \in Walk
  BY <1>1, FirstPage DEF Walk, Kinds, Things
<1>3. Rightful(v)
  BY DEF Rightful, MayAccess
<1> QED
  BY <1>2, <1>3 DEF WalkOK, Covered, Unmissed

\* A reader moves from one sound walk to another.
LEMMA ReaderSteps ==
    ASSUME Typed, WalksOK, NEW b \in Readers, Begin(b) \/ Count(b) \/ Find(b) \/ Look(b) \/ ReadError(b)
    PROVE  \E v : (v = NoWalk \/ WalkOK(v)) /\ Step(b, v)
<1>1. ASSUME Reading(b, "CountDocuments") \/ Reading(b, "Find") PROVE WalkOK(walk[b])
  BY <1>1 DEF WalksOK, Reading
<1>2. CASE Begin(b)
  <2>1. PICK kind \in Kinds \ {"order"}, user \in Users, asked \in Users, narrow \in BOOLEAN :
          LET w == [kind |-> kind, user |-> user, owner |-> Owner(user, asked), narrow |-> narrow, page |-> 1,
                    total |-> 0, got |-> 0, there |-> {}, seen |-> {},
                    stage |-> IF kind = "inventory" THEN "Find" ELSE "CountDocuments"]
          IN  /\ kind = "inventory" => user \in Admins /\ ~narrow
              /\ kind = "records" => user = Anybody
              /\ kind # "orders" => asked = user
              /\ Step(b, [w EXCEPT !.there = Listed(w)])
    BY <1>2, Zenon DEF Begin
  <2>2. PICK w : w = Opening(kind, user, asked, narrow)
    OBVIOUS
  <2>3. PICK v : v = [w EXCEPT !.there = Listed(w)]
    OBVIOUS
  <2>4. Step(b, v)
    BY <2>1, <2>2, <2>3, Zenon DEF Opening
  <2>5. WalkOK(v)
    BY <2>2, <2>3, BeginOK, Zenon
  <2> QED
    BY <2>4, <2>5
<1>3. CASE Count(b)
  <2>1. PICK v : v = [walk[b] EXCEPT !.total = Counted(walk[b]), !.stage = "Find"]
    OBVIOUS
  <2>2. WalkOK(v)
    BY <1>1, <1>3, <2>1, CountOK, Zenon DEF Count, Reading
  <2> QED
    BY <1>3, <2>1, <2>2, Zenon DEF Count
<1>4. CASE Find(b)
  <2>1. WalkOK(walk[b]) /\ walk[b].stage = "Find"
    BY <1>1, <1>4 DEF Find, Reading
  <2>2. PICK w : w = walk[b]
    OBVIOUS
  <2>3. PICK list \in Answers(w, Listed(w)) :
            Step(b, [w EXCEPT !.seen = @ \union PageOf(w, list),
                              !.got = Cardinality(PageOf(w, list)),
                              !.total = IF w.kind = "inventory" THEN Len(list) ELSE @,
                              !.page = IF Cardinality(PageOf(w, list)) = PerPage THEN @ + 1 ELSE @,
                              !.stage = IF Cardinality(PageOf(w, list)) = PerPage THEN Again(w) ELSE "ended"])
    BY <1>4, <2>2, Zenon DEF Find
  <2>4. PICK items : items = PageOf(w, list)
    OBVIOUS
  <2>5. PICK full : full = (Cardinality(items) = PerPage)
    OBVIOUS
  <2>6. PICK v : v = [w EXCEPT !.seen = @ \union items,
                               !.got = Cardinality(items),
                               !.total = IF w.kind = "inventory" THEN Len(list) ELSE @,
                               !.page = IF full THEN @ + 1 ELSE @,
                               !.stage = IF full THEN Again(w) ELSE "ended"]
    OBVIOUS
  <2>7. Step(b, v)
    BY <2>3, <2>4, <2>5, <2>6, Zenon
  <2>8. Walks
    BY DEF WalksOK
  <2>9. WalkOK(v)
    BY <2>1, <2>2, <2>4, <2>5, <2>6, <2>8, PageTurned, Zenon
  <2> QED
    BY <2>7, <2>9
<1>5. CASE Look(b)
  <2>1. PICK user \in Users, o \in OrderIds :
            /\ orders[o] # NoOrder
            /\ MayAccess(user, orders[o])
            /\ Step(b, [kind |-> "order", user |-> user, owner |-> user, narrow |-> FALSE, page |-> 1,
                        total |-> 1, got |-> 1, there |-> {o}, seen |-> {o}, stage |-> "ended"])
    BY <1>5, Zenon DEF Look
  <2> QED
    BY <2>1, LookOK, Zenon
<1>6. CASE ReadError(b)
  BY <1>6 DEF ReadError
<1> QED
  BY <1>2, <1>3, <1>4, <1>5, <1>6

-----------------------------------------------------------------------------
(* The theorems *)

\* Where the store is as it was, so is what a walk may count on.
LEMMA WalkUnchanged == ASSUME UNCHANGED <<vars, born>>, NEW w, WalkOK(w) PROVE WalkOK(w)'
  BY DEF WalkOK, Rightful, Covered, Unmissed, OnlyGrows, NoTies, Ahead, Listed, Skip, vars, store

\* Where the handlers are as they were, so are their copies.
LEMMA CopiedUnchanged == ASSUME UNCHANGED vars, AllCopied PROVE AllCopied'
  BY DEF AllCopied, Distinct, Copied, NoArchivers, Target, Ordered, vars, store, locals

\* Nobody reads or writes at the start.
LEMMA WalksInit == ListingInit => WalksOK
  BY DEF ListingInit, Init, WalksOK, Walks, AllCopied, Distinct, Copied

\* Every step of a handler or a reader keeps the walks sound.
LEMMA WalksStep ==
    ASSUME Typed, Typed', OrdersOK, OrdersOK', WalksOK, [ListingNext]_listingVars
    PROVE  WalksOK'
<1>1. Walks /\ AllCopied /\ \A b \in Readers : walk[b] # NoWalk => WalkOK(walk[b])
  BY DEF WalksOK
<1>2. ASSUME NEW p \in Requests, Receive(p) \/ Write(p) PROVE WalksOK'
  <2>1. UNCHANGED walk /\ (Accept(p) \/ Serve(p))
    BY <1>2 DEF Receive, Write
  <2>2. AllCopied' /\ born' \in [Things -> Nat]
    BY <1>1, <1>2, <2>1, CopiedStep, BornOnce
  <2>3. ASSUME NEW w, WalkOK(w) PROVE WalkOK(w)'
    BY <1>1, <1>2, <2>3, WriterKeeps DEF WalkOK
  <2>4. Walks'
    BY <1>1, <2>1, <2>2 DEF Walks
  <2> QED
    BY <1>1, <2>1, <2>2, <2>3, <2>4 DEF WalksOK
<1>3. ASSUME NEW b \in Readers, Begin(b) \/ Count(b) \/ Find(b) \/ Look(b) \/ ReadError(b) PROVE WalksOK'
  <2>1. PICK v : (v = NoWalk \/ WalkOK(v)) /\ Step(b, v)
    BY <1>3, ReaderSteps
  <2>2. UNCHANGED <<vars, born>> /\ walk' = [walk EXCEPT ![b] = v]
    BY <2>1 DEF Step
  <2>3. v \in Walk \union {NoWalk}
    BY <2>1 DEF WalkOK
  <2>4. Walks'
    BY <1>1, <2>2, <2>3 DEF Walks
  <2>5. \A w : WalkOK(w) => WalkOK(w)'
    BY <2>2, WalkUnchanged
  <2>6. AllCopied'
    BY <1>1, <2>2, CopiedUnchanged
  <2>7. \A c \in Readers : walk'[c] # NoWalk => WalkOK(walk'[c])
    BY <1>1, <2>1, <2>2 DEF Walks
  <2> QED
    BY <2>4, <2>5, <2>6, <2>7 DEF WalksOK
<1>4. CASE UNCHANGED listingVars
  <2>1. UNCHANGED <<vars, born>> /\ UNCHANGED walk
    BY <1>4 DEF listingVars, reading
  <2>2. \A w : WalkOK(w) => WalkOK(w)'
    BY <2>1, WalkUnchanged
  <2>3. AllCopied' /\ Walks'
    BY <1>1, <2>1, CopiedUnchanged DEF Walks
  <2> QED
    BY <1>1, <2>1, <2>2, <2>3 DEF WalksOK
<1> QED
  BY <1>2, <1>3, <1>4 DEF ListingNext

\* So every walk of every client is sound.
LEMMA WalksAlways == ListingSpec => []WalksOK
<1>1. ListingInit => WalksOK
  BY WalksInit
<1>2. Typed /\ Typed' /\ OrdersOK /\ OrdersOK' /\ WalksOK /\ [ListingNext]_listingVars => WalksOK'
  BY WalksStep
<1> QED
  BY <1>1, <1>2, ListingShop, PTL DEF ListingSpec

\* Whatever a client asks for and whatever changes meanwhile, its walk stays
\* within the pages there can be and meets orders and records only.
THEOREM ListingTypeCorrect == ListingSpec => []ListingTypeOK
<1>1. Typed /\ WalksOK => ListingTypeOK
  BY DEF Typed, WalksOK, Walks, ListingTypeOK
<1> QED
  BY <1>1, WalksAlways, ListingShop, PTL

\* A client that is not an administrator never sees an order of somebody else,
\* whatever user_id it names and however often it reads on.
THEOREM SeenByRightAlways == ListingSpec => []SeenByRight
<1>1. WalksOK => SeenByRight
  BY DEF WalksOK, WalkOK, Rightful, SeenByRight
<1> QED
  BY <1>1, WalksAlways, PTL

\* The total announced with the last page of a listing that only grows is
\* reached by that page.
THEOREM TotalReachedAlways == ListingSpec => []TotalReached
<1>1. WalksOK => TotalReached
  BY DEF WalksOK, WalkOK, Covered, TotalReached, Ended, Reading
<1> QED
  BY <1>1, WalksAlways, PTL

\* A client that walks to the last page of a listing that only grows has seen
\* all that was listed when it began, however much arrives meanwhile.
THEOREM WalkCompleteAlways == ListingSpec => []WalkComplete
<1>1. WalksOK => WalkComplete
  BY DEF WalksOK, WalkOK, Unmissed, WalkComplete, Ended, Reading
<1> QED
  BY <1>1, WalksAlways, PTL
=============================================================================
