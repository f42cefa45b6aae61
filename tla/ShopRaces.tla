----------------------------- MODULE ShopRaces ------------------------------
(***************************************************************************)
(* What the handlers of Shop promise of the stock and of the documents     *)
(* while they overlap, and which races alone break it.  A handler replaces *)
(* the whole document it read a call earlier; if another has written the   *)
(* record in between, it is overtaken, and its write undoes the other's.   *)
(* History variables record who is overtaken, which records such a write   *)
(* has spoilt, and whether a cancellation had a rival or failed halfway.   *)
(***************************************************************************)
EXTENDS ShopAccounting

VARIABLES
    overtaken,      \* history: the requests at SaveRecord whose record has changed since they read it
    spoilt,         \* history: the records an overtaken request has written
    contested       \* history: an order had two cancellations at work, or one was answered 500

races == <<overtaken, spoilt, contested>>
racesVars == <<vars, races>>

\* An overtaken handler writes r.
Clobbers(r) == \E p \in overtaken : /\ pc'[p] # "SaveRecord" /\ Target(p) = r
                                    /\ <<records, history>>' # <<records, history>>

\* A cancellation has failed, or two are at work on one order.
Contest == \/ CancelsAnswered(500) # {}
           \/ \E p, q \in Restoring : p # q /\ req[p].order = req[q].order

RacesInit == Init /\ overtaken = {} /\ spoilt = {} /\ contested = FALSE

RacesNext ==
    /\ Next
    /\ overtaken' = {p \in Requests : /\ pc[p] = "SaveRecord" /\ pc'[p] = "SaveRecord"
                                      /\ p \in overtaken \/ records'[Target(p)] # records[Target(p)]}
    /\ spoilt' = spoilt \union {r \in Records : Clobbers(r)}
    /\ contested' = (contested \/ Contest')

RacesSpec == RacesInit /\ [][RacesNext]_racesVars

\* A request sets the stock of r outright.
Restated(r) == \E p \in Requests : req[p] # NoRequest /\ req[p].op = "update" /\ req[p].id = r /\ SetsStock(req[p])

\* Only a stale SaveRecord loses or conjures stock: in every state of every
\* interleaving, whatever calls fail or lose their answers, what is on the shelf
\* and what orders have taken is what was put there and what came back, unless
\* an overtaken handler has written the record, an UpdateRecord sets its stock
\* or an addition has overflowed.
BooksBalance ==
    ~wrapped => \A r \in Records \ spoilt : Restated(r) \/ Stock(r) + taken[r] = supply[r] + returned[r]

\* Only a rival or a failure makes CancelOrder restore an order twice or in part:
\* otherwise, with any other handlers in between, what came back are exactly
\* the units of the cancelled orders, whenever no cancellation is at work.
RefundedOnce == ~contested /\ Restoring = {} => \A r \in Records : returned[r] = Refunds(r)

\* A request of this kind makes the step.
By(op) == \E p \in Requests : pc'[p] # pc[p] /\ req[p].op = op

\* Each handler writes a whole document but changes only the fields that are its
\* own, unless it is overtaken: only ArchiveRecord touches archived, and only to
\* set it; only UpdateRecord the description; ArchiveRecord no stock; none
\* removes a record.
FieldDiscipline ==
    [][\A r \in Records : records[r] # NoRecord /\ ~Clobbers(r) =>
          /\ records'[r] # NoRecord
          /\ records'[r].archived # records[r].archived => records'[r].archived /\ By("archive")
          /\ records'[r].info # records[r].info => By("update")
          /\ records'[r].stock # records[r].stock => ~By("archive")]_racesVars
=============================================================================
