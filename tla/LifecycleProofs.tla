--------------------------- MODULE LifecycleProofs ---------------------------
(***************************************************************************)
(* Theorems about Lifecycle, for any number of instances, any seeds and    *)
(* any requests: what a graceful stop owes to the requests it accepted,    *)
(* what seeding before serving owes to them, and that what Shop's handlers *)
(* guarantee of stocks and orders survives instances that end at any       *)
(* moment and instances that seed the shop again.                          *)
(***************************************************************************)
EXTENDS Lifecycle, ShopAccountingProofs

\* A request is at work on an instance that runs, and one that was never
\* answered and is not at work was on an instance that was killed.
Hosting == \A p \in Requests : req[p] # NoRequest =>
               /\ host[p] \in Starts
               /\ pc[p] \in Calls => phase[host[p]] \in {"serving", "draining"}
               /\ pc[p] \notin Calls /\ resp[p] = 0 => phase[host[p]] = "killed"

\* What SeedData has gone through is in the store, and nobody listens before it
\* has gone through everything.
Sown == ~unsown => \A n \in SeedStarts :
            /\ \A i \in 1..seeded[n] : records[SeedIds[i]] # NoRecord
            /\ phase[n] \in {"serving", "draining"} => seeded[n] = Len(SeedIds)

\* What the handlers of Shop guarantee, whatever becomes of the instances.
ShopOK == Typed /\ StockBooks /\ OrdersOK /\ AllBacked

InstancesTyped ==
    /\ phase \in [Starts -> {"off", "seeding", "serving", "draining", "stopped", "killed"}]
    /\ seeded \in [Starts -> 0..Len(SeedIds)]
    /\ host \in [Requests -> Starts \union {NoStart}]
    /\ unsown \in BOOLEAN

LifecycleOK == ShopOK /\ InstancesTyped /\ Hosting /\ Sown

-----------------------------------------------------------------------------
(* An instance ends *)

\* The handlers that are gone have no variables; nobody else notices.
LEMMA ExitTyped ==
    ASSUME Typed, NEW n \in Starts, NEW stage, Exit(n, stage)
    PROVE  Typed'
<1>1. TypeOK
  BY DEF Typed
<1>2. TypeOK'
  BY <1>1 DEF TypeOK, Exit, store, history
<1>3. ASSUME NEW p \in Requests PROVE Control(p)'
  <2>1. Control(p)
    BY DEF Typed, ControlOK
  <2>2. CASE p \in Hosted(n)
    <3>1. pc'[p] = "done" /\ rec'[p] = NoRecord /\ ord'[p] = NoOrder
      BY <2>2 DEF Exit
    <3>2. pc[p] # "idle" /\ UNCHANGED req
      BY <2>2 DEF Hosted, InFlight, Exit
    <3> QED
      BY <2>1, <3>1, <3>2 DEF Control, Serving, Serves, Calls
  <2>3. CASE p \notin Hosted(n)
    <3>1. /\ pc'[p] = pc[p] /\ rec'[p] = rec[p] /\ ord'[p] = ord[p] /\ idx'[p] = idx[p]
          /\ UNCHANGED <<req, resp>>
      BY <2>3 DEF Exit
    <3> QED
      BY <2>1, <3>1 DEF Control, Serving, Serves
  <2> QED
    BY <2>2, <2>3
<1>4. NoEmptyOrder'
  BY DEF Typed, NoEmptyOrder, Exit, store
<1> QED
  BY <1>2, <1>3, <1>4 DEF Typed, ControlOK

\* The carts of an instance that ends are empty then, and nobody gets a success
\* for them.
LEMMA ExitBacked ==
    ASSUME Typed, Typed', OrdersOK, NEW n \in Starts, NEW stage, Exit(n, stage), NEW r \in Records, Backed(r)
    PROVE  Backed(r)'
<1> DEFINE f == [p \in Requests |-> HeldBy(p, r)]
<1> DEFINE g == [p \in Requests |-> HeldBy(p, r)']
<1>1. \A p \in Requests : f[p] = HeldBy(p, r) /\ f[p] \in Nat
  BY HeldByNat
<1>2. \A p \in Requests : g[p] = HeldBy(p, r)' /\ g[p] \in Nat
  BY HeldByNatNext
<1>3. Held(r) = SumFunctionOnSet(f, Requests) /\ Held(r)' = SumFunctionOnSet(g, Requests)
  BY DEF Held
<1>4. taken[r] \in Nat /\ UNCHANGED <<taken, orders, req, resp>>
  BY DEF Typed, TypeOK, Exit, store, history
<1>5. ASSUME NEW p \in Requests, p \notin Hosted(n) PROVE g[p] = f[p]
  BY <1>1, <1>2, <1>4, <1>5 DEF Exit, HeldBy, Serves, Serving
<1>6. ASSUME NEW p \in Requests, p \in Hosted(n), req[p].op = "create" PROVE g[p] <= f[p] /\ p \in RejectedCreates'
  <2>1. pc'[p] = "done" /\ pc[p] \in Calls
    BY <1>6 DEF Exit, Hosted, InFlight, Typed, TypeOK, Calls
  <2>2. resp[p] = 0 /\ orders[p] = NoOrder
    BY <1>6, <2>1 DEF Typed, ControlOK, Control, OrdersOK, Building, Serves, Serving, Calls
  <2>3. g[p] = 0
    BY <1>2, <1>4, <2>1, <2>2 DEF HeldBy, Serves, Serving, Calls
  <2> QED
    BY <1>1, <1>4, <1>6, <2>1, <2>2, <2>3 DEF RejectedCreates
<1>7. ASSUME NEW p \in Requests, req[p].op # "create" PROVE g[p] = f[p]
  BY <1>1, <1>2, <1>4, <1>7 DEF HeldBy, Serves
<1>8. RejectedCreates \subseteq RejectedCreates'
  BY <1>4 DEF RejectedCreates, Exit
<1> HIDE DEF f, g
<1>9. Held(r) \in Nat /\ Held(r)' \in Nat
  BY <1>1, <1>2, <1>3, FiniteAssumption, SumNat
<1>10. Held(r)' <= taken'[r]
  <2>1. \A p \in Requests : f[p] \in Nat /\ g[p] \in Nat /\ g[p] <= f[p]
    BY <1>1, <1>2, <1>5, <1>6, <1>7
  <2>2. Held(r)' <= Held(r)
    BY <1>3, <2>1, FiniteAssumption, SumAtMost
  <2> QED
    BY <1>4, <1>9, <2>2 DEF Backed
<1>11. ASSUME RejectedCreates' = {} PROVE Held(r)' = taken'[r]
  <2>1. \A p \in Requests : g[p] = f[p]
    BY <1>5, <1>6, <1>7, <1>11
  <2>2. Held(r)' = Held(r)
    BY <1>3, <2>1, FiniteAssumption, SumSame
  <2> QED
    BY <1>4, <1>8, <1>11, <2>2 DEF Backed
<1> QED
  BY <1>10, <1>11 DEF Backed

\* What handlers leave behind when they end half-way breaks neither the books
\* of the stock nor a promise about orders.
LEMMA ExitShop ==
    ASSUME ShopOK, NEW n \in Starts, NEW stage, Exit(n, stage)
    PROVE  ShopOK'
<1>1. Typed'
  BY ExitTyped DEF ShopOK
<1>2. UNCHANGED <<records, orders, req, resp, supply, taken, returned, wrapped>>
  BY DEF Exit, store, history
<1>3. ASSUME NEW p \in Requests, pc'[p] \in Calls
      PROVE  pc'[p] = pc[p] /\ rec'[p] = rec[p] /\ ord'[p] = ord[p] /\ idx'[p] = idx[p]
  BY <1>3 DEF Exit, Calls
<1>4. StockBooks'
  <2>1. \A r \in Records : Shelf(r)'
    BY <1>2, Zenon DEF ShopOK, StockBooks, Shelf
  <2>2. ASSUME NEW p \in Requests, rec'[p] # NoRecord PROVE Copy(p)'
    <3>1. pc'[p] \in Calls
      BY <1>1, <2>2 DEF Typed, ControlOK, Control, Serving
    <3> QED
      BY <1>2, <1>3, <3>1 DEF ShopOK, StockBooks, Copy
  <2> QED
    BY <2>1, <2>2 DEF StockBooks, Copy
<1>5. OrdersOK'
  <2>1. \A o \in Requests : Stored(o)' /\ ByRight(o)' /\ Promise(o)'
    BY <1>2 DEF ShopOK, OrdersOK, Stored, Lines, ByRight, Cancelled, Promise, Answered
  <2>2. ASSUME NEW p \in Requests PROVE Building(p)' /\ Copying(p)'
    <3>1. CASE pc'[p] \in Calls
      BY <1>2, <1>3, <3>1 DEF ShopOK, OrdersOK, Building, Copying, Serves, Serving, Lines, MayAccess
    <3>2. CASE pc'[p] \notin Calls
      BY <3>2 DEF Building, Copying, Serves, Serving
    <3> QED
      BY <3>1, <3>2
  <2> QED
    BY <2>1, <2>2 DEF OrdersOK
<1>6. AllBacked'
  BY <1>1, ExitBacked DEF ShopOK, AllBacked
<1> QED
  BY <1>1, <1>4, <1>5, <1>6 DEF ShopOK

\* Who was at work on the instance was not answered, and it was killed: one that
\* stops by itself waits for all of them.
LEMMA ExitHosting ==
    ASSUME LifecycleOK, NEW n \in Starts, NEW stage \in {"stopped", "killed"}, Exit(n, stage),
           stage = "stopped" => Hosted(n) = {},
           phase[n] # "killed"
    PROVE  InstancesTyped' /\ Hosting' /\ Sown'
<1>1. TypeOK /\ InstancesTyped
  BY DEF LifecycleOK, ShopOK, Typed
<1>2. phase' = [phase EXCEPT ![n] = stage] /\ UNCHANGED <<records, req, resp, seeded, host, unsown>>
  BY DEF Exit, Enter, store
<1>3. InstancesTyped'
  BY <1>1, <1>2 DEF InstancesTyped
<1>4. Hosting'
  <2> SUFFICES ASSUME NEW p \in Requests, req[p] # NoRequest
               PROVE  /\ host[p] \in Starts
                      /\ pc'[p] \in Calls => phase'[host[p]] \in {"serving", "draining"}
                      /\ pc'[p] \notin Calls /\ resp[p] = 0 => phase'[host[p]] = "killed"
    BY <1>2 DEF Hosting
  <2>1. /\ host[p] \in Starts
        /\ pc[p] \in Calls => phase[host[p]] \in {"serving", "draining"}
        /\ pc[p] \notin Calls /\ resp[p] = 0 => phase[host[p]] = "killed"
    BY DEF LifecycleOK, Hosting
  <2>2. p \in InFlight <=> pc[p] \in Calls
    BY <1>1 DEF InFlight, TypeOK, Calls
  <2>3. CASE p \in Hosted(n)
    <3>1. pc'[p] \notin Calls /\ host[p] = n /\ stage = "killed"
      BY <2>3 DEF Exit, Hosted, Calls
    <3> QED
      BY <1>1, <1>2, <3>1 DEF InstancesTyped
  <2>4. CASE p \notin Hosted(n)
    <3>1. pc'[p] = pc[p] /\ (host[p] = n => pc[p] \notin Calls)
      BY <2>2, <2>4 DEF Exit, Hosted
    <3> QED
      BY <1>1, <1>2, <2>1, <3>1 DEF InstancesTyped
  <2> QED
    BY <2>3, <2>4
<1>5. Sown'
  BY <1>1, <1>2 DEF LifecycleOK, Sown, InstancesTyped
<1> QED
  BY <1>3, <1>4, <1>5

-----------------------------------------------------------------------------
(* An instance starts *)

\* The next seed is a record of the shop and has a document.
LEMMA NextSeed ==
    ASSUME InstancesTyped, NEW n \in Starts, seeded[n] < Len(SeedIds)
    PROVE  /\ seeded[n] \in Nat /\ seeded[n] + 1 \in 1..Len(SeedIds)
           /\ SeedIds[seeded[n] + 1] \in Records
           /\ SeedDoc[SeedIds[seeded[n] + 1]] \in Doc
           /\ SeedDoc[SeedIds[seeded[n] + 1]].stock \in Nat
<1>1. SeedIds \in Seq(Records) /\ Len(SeedIds) \in Nat
  BY SeedAssumption
<1>2. seeded[n] \in Nat /\ seeded[n] + 1 \in 1..Len(SeedIds)
  BY <1>1 DEF InstancesTyped
<1>3. SeedIds[seeded[n] + 1] \in Records
  BY <1>1, <1>2
<1>4. PICK r \in Records : r = SeedIds[seeded[n] + 1]
  BY <1>3
<1>5. SeedDoc[r] \in Doc /\ SeedDoc[r].stock >= 0
  BY SeedAssumption
<1>6. SeedDoc[r].stock \in Nat
  BY <1>5, IntAssumption DEF Doc
<1> QED
  BY <1>2, <1>4, <1>5, <1>6

\* A seed record that replaces another is right in the books, which count its stock.
LEMMA SeedRecordShop ==
    ASSUME ShopOK, InstancesTyped, NEW n \in Starts, SeedRecord(n)
    PROVE  ShopOK' /\ RecordsStay
<1> DEFINE r == SeedIds[seeded[n] + 1]
<1>1. TypeOK
  BY DEF ShopOK, Typed
<1>2. r \in Records /\ SeedDoc[r] \in Doc /\ SeedDoc[r].stock \in Nat
  BY NextSeed DEF SeedRecord
<1>3. UNCHANGED <<orders, pc, req, rec, ord, idx, resp, taken, returned, wrapped>>
  BY DEF SeedRecord, locals
<1>4. \/ records' = [records EXCEPT ![r] = SeedDoc[r]] /\ supply' = Gain(supply, r, SeedDoc[r].stock)
      \/ UNCHANGED <<records, supply>>
  BY DEF SeedRecord
<1>5. TypeOK'
  <2>1. records' \in [Records -> Doc \union {NoRecord}] /\ supply' \in [Records -> Nat]
    BY <1>1, <1>2, <1>4 DEF TypeOK, Gain
  <2> QED
    BY <1>1, <1>3, <2>1 DEF TypeOK
<1>6. Typed'
  BY <1>3, <1>5 DEF ShopOK, Typed, ControlOK, Control, Serving, Serves, NoEmptyOrder
<1>7. OrdersOK'
  BY <1>3 DEF ShopOK, OrdersOK, Stored, Lines, ByRight, Cancelled, Building, Copying, MayAccess,
              Serves, Serving, Promise, Answered
<1>8. \A s \in Records : Shelf(s)'
  <2> TAKE s \in Records
  <2>1. CASE records'[s] = records[s]
    BY <1>3, <2>1, Zenon DEF ShopOK, StockBooks, Shelf
  <2>2. CASE records'[s] # records[s]
    <3>1. s = r /\ records'[s] = SeedDoc[r]
      BY <1>1, <1>2, <1>4, <2>2 DEF TypeOK
    <3>2. records'[s].stock >= 0
      BY <1>2, <3>1
    <3> QED
      BY <3>2 DEF Shelf
  <2> QED
    BY <2>1, <2>2
<1>9. \A p \in Requests : Copy(p)'
  BY <1>3, Zenon DEF ShopOK, StockBooks, Copy
<1>10. StockBooks'
  BY <1>8, <1>9 DEF StockBooks
<1>11. RecordsStay
  BY <1>1, <1>2, <1>4, SentinelAssumption DEF RecordsStay, TypeOK
<1>12. AllBacked'
  <2>1. \A p \in Requests, s \in Records : HeldBy(p, s)' = HeldBy(p, s)
    BY <1>3 DEF HeldBy, Serves, Serving
  <2>2. \A s \in Records : Held(s)' = Held(s)
    BY <2>1 DEF Held
  <2> QED
    BY <1>3, <2>2 DEF ShopOK, AllBacked, Backed, RejectedCreates
<1> QED
  BY <1>6, <1>7, <1>10, <1>11, <1>12 DEF ShopOK

\* What SeedData has written it does not have to write again.
LEMMA SeedRecordSows ==
    ASSUME LifecycleOK, NEW n \in Starts, SeedRecord(n)
    PROVE  InstancesTyped' /\ Hosting' /\ Sown'
<1> DEFINE r == SeedIds[seeded[n] + 1]
<1>1. TypeOK /\ InstancesTyped
  BY DEF LifecycleOK, ShopOK, Typed
<1>2. r \in Records /\ SeedDoc[r] \in Doc /\ seeded[n] \in Nat /\ seeded[n] + 1 \in 1..Len(SeedIds)
  BY <1>1, NextSeed DEF SeedRecord
<1>3. RecordsStay
  BY SeedRecordShop DEF LifecycleOK
<1>4. phase[n] = "seeding" /\ seeded' = [seeded EXCEPT ![n] = @ + 1] /\ UNCHANGED <<pc, req, resp, phase, host>>
  BY DEF SeedRecord
<1>5. InstancesTyped'
  <2>1. unsown' \in BOOLEAN
    BY <1>1 DEF SeedRecord, InstancesTyped
  <2> QED
    BY <1>1, <1>2, <1>4, <2>1 DEF InstancesTyped
<1>6. Hosting'
  BY <1>4 DEF LifecycleOK, Hosting
<1>7. Sown'
  <2> SUFFICES ASSUME ~unsown', NEW m \in SeedStarts
               PROVE  /\ \A i \in 1..seeded'[m] : records'[SeedIds[i]] # NoRecord
                      /\ phase'[m] \in {"serving", "draining"} => seeded'[m] = Len(SeedIds)
    BY DEF Sown
  <2>1. ~unsown /\ records' = [records EXCEPT ![r] = SeedDoc[r]]
    BY DEF SeedRecord
  <2>2. m \in Starts
    BY SeedAssumption
  <2>3. /\ \A i \in 1..seeded[m] : records[SeedIds[i]] # NoRecord
        /\ phase[m] \in {"serving", "draining"} => seeded[m] = Len(SeedIds)
    BY <2>1 DEF LifecycleOK, Sown
  <2>4. seeded[m] \in 0..Len(SeedIds) /\ Len(SeedIds) \in Nat
    BY <1>1, <2>2, SeedAssumption DEF InstancesTyped
  <2>5. ASSUME NEW i \in 1..seeded[m] PROVE records'[SeedIds[i]] # NoRecord
    <3>1. SeedIds[i] \in Records
      BY <2>4, SeedAssumption
    <3> QED
      BY <1>3, <2>3, <3>1 DEF RecordsStay
  <2>6. CASE m = n
    <3>1. seeded'[m] = seeded[n] + 1
      BY <1>1, <1>4, <2>6 DEF InstancesTyped
    <3>2. records'[r] # NoRecord
      BY <1>1, <1>2, <2>1, SentinelAssumption DEF TypeOK
    <3>3. \A i \in 1..(seeded[n] + 1) : i \in 1..seeded[n] \/ i = seeded[n] + 1
      BY <1>2
    <3> QED
      BY <1>4, <2>5, <2>6, <3>1, <3>2, <3>3
  <2>7. CASE m # n
    BY <1>1, <1>4, <2>2, <2>3, <2>5, <2>7 DEF InstancesTyped
  <2> QED
    BY <2>6, <2>7
<1> QED
  BY <1>5, <1>6, <1>7

-----------------------------------------------------------------------------
(* Every step *)

\* A step of Shop keeps what Shop guarantees.
LEMMA ShopStep ==
    ASSUME ShopOK, [Next]_vars
    PROVE  ShopOK' /\ Frozen
  BY TypedStep, StockBooksStep, OrdersStep, BackedStep DEF ShopOK, AllBacked

\* An instance that starts, listens or stops listening keeps everything.
LEMMA EnterKeeps ==
    ASSUME LifecycleOK, NEW n \in Starts, NEW stage \in {"seeding", "serving", "draining"},
           Enter(n, stage), UNCHANGED <<vars, seeded, host, unsown>>,
           phase[n] \in {"off", "seeding"} \/ (phase[n] = "serving" /\ stage = "draining"),
           n \in SeedStarts /\ stage # "seeding" => phase[n] = "serving" \/ seeded[n] = Len(SeedIds)
    PROVE  LifecycleOK' /\ Frozen
<1>1. InstancesTyped
  BY DEF LifecycleOK
<1>2. UNCHANGED <<records, pc, req, resp>>
  BY DEF vars, store
<1>3. phase' = [phase EXCEPT ![n] = stage] /\ UNCHANGED <<seeded, host, unsown>>
  BY DEF Enter
<1>4. InstancesTyped'
  BY <1>1, <1>3 DEF InstancesTyped
<1>5. Hosting'
  BY <1>1, <1>2, <1>3 DEF LifecycleOK, Hosting, InstancesTyped
<1>6. Sown'
  BY <1>1, <1>2, <1>3 DEF LifecycleOK, Sown, InstancesTyped
<1>7. ShopOK' /\ Frozen
  BY ShopStep DEF LifecycleOK
<1> QED
  BY <1>4, <1>5, <1>6, <1>7 DEF LifecycleOK

\* A request that arrives is at work on the instance that received it.
LEMMA ReceiveKeeps ==
    ASSUME LifecycleOK, NEW p \in Requests, Receive(p)
    PROVE  LifecycleOK'
<1>1. TypeOK /\ InstancesTyped
  BY DEF LifecycleOK, ShopOK, Typed
<1>2. ShopOK'
  BY ShopStep DEF LifecycleOK, Receive, Next
<1>3. PICK n \in Starts : phase[n] = "serving" /\ host' = [host EXCEPT ![p] = n]
  BY DEF Receive
<1>4. /\ UNCHANGED <<phase, seeded, unsown, records, resp>>
      /\ \A q \in Requests \ {p} : pc'[q] = pc[q] /\ req'[q] = req[q]
  BY <1>1 DEF Receive, Accept, Goto, TypeOK, store
<1>5. pc'[p] \in Calls
  BY <1>1 DEF Receive, Accept, Goto, FirstCall, Calls, TypeOK
<1>6. InstancesTyped'
  BY <1>1, <1>3, <1>4 DEF InstancesTyped
<1>7. Hosting'
  <2> SUFFICES ASSUME NEW q \in Requests, req'[q] # NoRequest
               PROVE  /\ host'[q] \in Starts
                      /\ pc'[q] \in Calls => phase'[host'[q]] \in {"serving", "draining"}
                      /\ pc'[q] \notin Calls /\ resp'[q] = 0 => phase'[host'[q]] = "killed"
    BY DEF Hosting
  <2>1. CASE q = p
    BY <1>1, <1>3, <1>4, <1>5, <2>1 DEF InstancesTyped
  <2>2. CASE q # p
    BY <1>1, <1>3, <1>4, <2>2 DEF InstancesTyped, LifecycleOK, Hosting
  <2> QED
    BY <2>1, <2>2
<1>8. Sown'
  BY <1>4 DEF LifecycleOK, Sown
<1> QED
  BY <1>2, <1>6, <1>7, <1>8 DEF LifecycleOK

\* A store call of a handler at work.
LEMMA HandleKeeps ==
    ASSUME LifecycleOK, NEW p \in Requests, Handle(p)
    PROVE  LifecycleOK'
<1>1. TypeOK /\ InstancesTyped
  BY DEF LifecycleOK, ShopOK, Typed
<1>2. ShopOK'
  BY ShopStep DEF LifecycleOK, Handle, Next
<1>3. OneServes(p) /\ RecordsStay
  BY <1>2, ServeServes DEF Handle, LifecycleOK, ShopOK
<1>4. UNCHANGED <<phase, seeded, host, unsown>>
  BY DEF Handle, lifecycle
<1>5. InstancesTyped'
  BY <1>1, <1>4 DEF InstancesTyped
<1>6. Hosting'
  <2> SUFFICES ASSUME NEW q \in Requests, req[q] # NoRequest
               PROVE  /\ host[q] \in Starts
                      /\ pc'[q] \in Calls => phase[host[q]] \in {"serving", "draining"}
                      /\ pc'[q] \notin Calls /\ resp'[q] = 0 => phase[host[q]] = "killed"
    BY <1>3, <1>4 DEF Hosting, OneServes
  <2>1. CASE q = p
    BY <1>3, <2>1 DEF OneServes, LifecycleOK, Hosting
  <2>2. CASE q # p
    BY <1>3, <2>2 DEF OneServes, LifecycleOK, Hosting
  <2> QED
    BY <2>1, <2>2
<1>7. Sown'
  <2> SUFFICES ASSUME ~unsown, NEW n \in SeedStarts
               PROVE  /\ \A i \in 1..seeded[n] : records'[SeedIds[i]] # NoRecord
                      /\ phase[n] \in {"serving", "draining"} => seeded[n] = Len(SeedIds)
    BY <1>4 DEF Sown
  <2>1. seeded[n] \in 0..Len(SeedIds) /\ Len(SeedIds) \in Nat
    BY <1>1, SeedAssumption DEF InstancesTyped
  <2>2. \A i \in 1..seeded[n] : SeedIds[i] \in Records
    BY <2>1, SeedAssumption
  <2> QED
    BY <1>3, <2>2 DEF LifecycleOK, Sown, RecordsStay
<1> QED
  BY <1>2, <1>5, <1>6, <1>7 DEF LifecycleOK

\* An instance that ends, by itself or not.
LEMMA EndKeeps ==
    ASSUME LifecycleOK, NEW n \in Starts, Drain(n) \/ Crash(n)
    PROVE  LifecycleOK'
<1>1. PICK stage \in {"stopped", "killed"} :
          Exit(n, stage) /\ (stage = "stopped" => Hosted(n) = {}) /\ phase[n] # "killed"
  BY DEF Drain, Drained, Idle, DrainTimeout, Crash
<1> QED
  BY <1>1, ExitShop, ExitHosting DEF LifecycleOK

\* Every step keeps the invariant, and every stored order but for its status.
LEMMA LifecycleStep ==
    ASSUME LifecycleOK, [LifecycleNext]_LifecycleVars
    PROVE  LifecycleOK' /\ Frozen
<1>1. ASSUME NEW p \in Requests, Receive(p) \/ Handle(p) PROVE LifecycleOK' /\ Frozen
  BY <1>1, ReceiveKeeps, HandleKeeps, ShopStep DEF LifecycleOK, Receive, Handle, Next
<1>2. ASSUME NEW n \in Starts, Launch(n) \/ Listen(n) \/ Signal(n) PROVE LifecycleOK' /\ Frozen
  <2>1. CASE Launch(n)
    BY <2>1, EnterKeeps DEF Launch
  <2>2. CASE Listen(n)
    BY <2>2, EnterKeeps DEF Listen, Seeded
  <2>3. CASE Signal(n)
    BY <2>3, EnterKeeps DEF Signal
  <2> QED
    BY <1>2, <2>1, <2>2, <2>3
<1>3. ASSUME NEW n \in Starts, SeedRecord(n) PROVE LifecycleOK' /\ Frozen
  <2>1. LifecycleOK'
    BY <1>3, SeedRecordShop, SeedRecordSows DEF LifecycleOK
  <2> QED
    BY <1>3, <2>1 DEF SeedRecord, Frozen
<1>4. ASSUME NEW n \in Starts, Drain(n) \/ Crash(n) PROVE LifecycleOK' /\ Frozen
  <2>1. LifecycleOK'
    BY <1>4, EndKeeps
  <2> QED
    BY <1>4, <2>1 DEF Drain, Drained, DrainTimeout, Crash, Exit, store, Frozen
<1>5. CASE UNCHANGED LifecycleVars
  <2>1. UNCHANGED <<vars, phase, seeded, host, unsown>>
    BY <1>5 DEF LifecycleVars, lifecycle
  <2>2. UNCHANGED <<records, pc, req, resp>>
    BY <2>1 DEF vars, store
  <2>3. Hosting' /\ Sown' /\ InstancesTyped'
    BY <2>1, <2>2 DEF LifecycleOK, Hosting, Sown, InstancesTyped
  <2> QED
    BY <2>1, <2>3, ShopStep DEF LifecycleOK
<1> QED
  BY <1>1, <1>2, <1>3, <1>4, <1>5 DEF LifecycleNext

\* Before the first start nobody has been received and nothing is seeded.
LEMMA LifecycleStart == LifecycleInit => LifecycleOK
<1> SUFFICES ASSUME LifecycleInit PROVE LifecycleOK
  OBVIOUS
<1>1. ShopOK
  BY TypedInit, StockBooksInit, OrdersInit, BackedInit DEF LifecycleInit, ShopOK, AllBacked
<1>2. 0 \in 0..Len(SeedIds)
  BY SeedAssumption
<1>3. InstancesTyped
  BY <1>2 DEF LifecycleInit, InstancesTyped
<1>4. Hosting
  BY DEF LifecycleInit, Init, Hosting
<1>5. Sown
  <2>1. \A n \in SeedStarts : seeded[n] = 0 /\ phase[n] = "off"
    BY SeedAssumption DEF LifecycleInit
  <2> SUFFICES ASSUME NEW n \in SeedStarts
               PROVE  /\ \A i \in 1..seeded[n] : records[SeedIds[i]] # NoRecord
                      /\ phase[n] \in {"serving", "draining"} => seeded[n] = Len(SeedIds)
    BY DEF Sown
  <2>2. ASSUME NEW i \in 1..seeded[n] PROVE FALSE
    BY <2>1, <2>2
  <2> QED
    BY <2>1, <2>2
<1> QED
  BY <1>1, <1>3, <1>4, <1>5 DEF LifecycleOK

\* The invariant holds in every reachable state.
LEMMA LifecycleAlways == LifecycleSpec => []LifecycleOK
  BY LifecycleStart, LifecycleStep, PTL DEF LifecycleSpec

\* Whatever instances start, seed, stop and die, every variable of the handlers
\* and of the instances has its type.
THEOREM LifecycleTypeCorrect == LifecycleSpec => []LifecycleTypeOK
<1>1. LifecycleOK => LifecycleTypeOK
  BY DEF LifecycleOK, ShopOK, Typed, InstancesTyped, LifecycleTypeOK
<1> QED
  BY <1>1, LifecycleAlways, PTL

\* An instance that stopped by itself has answered every request it received.
THEOREM GracefulAnswersAllAlways == LifecycleSpec => []GracefulAnswersAll
<1>1. LifecycleOK => GracefulAnswersAll
  <2> SUFFICES ASSUME LifecycleOK, NEW p \in Requests, req[p] # NoRequest, phase[host[p]] = "stopped"
               PROVE  resp[p] # 0
    BY DEF GracefulAnswersAll
  <2> QED
    BY DEF LifecycleOK, Hosting
<1> QED
  BY <1>1, LifecycleAlways, PTL

\* Unless a write of SeedData failed, whoever is served finds every seed record
\* in the store, whatever the handlers and the other instances have done.
THEOREM CatalogueReadyAlways == LifecycleSpec => []CatalogueReady
<1>1. LifecycleOK => CatalogueReady
  BY DEF LifecycleOK, Sown, CatalogueReady
<1> QED
  BY <1>1, LifecycleAlways, PTL

\* A crash does not take back what was answered: an order that was confirmed is
\* stored, and one whose cancellation was confirmed is cancelled.
THEOREM PromisesSurviveCrashes == LifecycleSpec => []PromisesKept
<1>1. LifecycleOK => PromisesKept
  BY DEF LifecycleOK, ShopOK, OrdersOK, Promise, PromisesKept
<1> QED
  BY <1>1, LifecycleAlways, PTL

\* Nor does it leave a part of an order in the store: every stored order has all
\* the lines of its request.
THEOREM OrdersWholeAfterCrashes == LifecycleSpec => []OrderMatchesRequest
<1>1. LifecycleOK => OrderMatchesRequest
  BY DEF LifecycleOK, ShopOK, OrdersOK, Stored, Lines, OrderMatchesRequest
<1> QED
  BY <1>1, LifecycleAlways, PTL

\* Instances that die in the middle of a write-back, and instances that seed the
\* shop again, make no stock negative before an overflow.
THEOREM StockNonNegativeThroughCrashes == LifecycleSpec => []StockNonNegative
<1>1. LifecycleOK => StockNonNegative
  BY DEF LifecycleOK, ShopOK, StockBooks, Shelf, Copy, StockNonNegative
<1> QED
  BY <1>1, LifecycleAlways, PTL

\* Nor do they make two orders of one unit: what is in the orders of the store
\* was taken from the shelf for each of them.
THEOREM SalesTakenThroughCrashes == LifecycleSpec => []SalesTaken
<1>1. LifecycleOK => SalesTaken
  BY BackedSales DEF LifecycleOK, ShopOK
<1> QED
  BY <1>1, LifecycleAlways, PTL

\* Orders in the store stay what they are through every start and every crash.
THEOREM OrderFrozenThroughCrashes == LifecycleSpec => OrderFrozen
<1>1. LifecycleOK /\ [LifecycleNext]_LifecycleVars => [Frozen]_vars
  BY LifecycleStep
<1>2. LifecycleSpec => [][Frozen]_vars
  BY <1>1, LifecycleAlways, PTL DEF LifecycleSpec
<1> QED
  BY <1>2 DEF OrderFrozen, Frozen
=============================================================================
