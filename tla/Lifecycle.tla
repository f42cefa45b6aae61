----------------------------- MODULE Lifecycle -----------------------------
(***************************************************************************)
(* The instances of the program around the handlers of Shop: App.Start     *)
(* (app/app.go) seeds the catalogue, serves, and on a signal stops taking  *)
(* requests and waits for those in flight, for ShutdownTimeout at most; an *)
(* instance may also be killed at any moment.  Each n \in Starts is one    *)
(* run of the program over the same database.  The step of Start between   *)
(* seeding and serving, createDefaultAdmin, is in Accounts.                *)
(***************************************************************************)
EXTENDS ShopAccounting

CONSTANTS
    Starts,         \* the runs of the program
    SeedStarts,     \* the runs with --seed-data (the default)
    SeedIds,        \* the ids of the seed records, in the order of SeedData
    SeedDoc,        \* the seed record of each id
    NoStart

ASSUME SeedAssumption ==
    /\ SeedStarts \subseteq Starts
    /\ SeedIds \in Seq(Records)
    /\ SeedDoc \in [Records -> Doc]
    /\ \A r \in Records : SeedDoc[r].stock >= 0
ASSUME StartAssumption == NoStart \notin Starts

VARIABLES
    phase,          \* where each start is
    seeded,         \* how many records its SeedData has gone through
    host,           \* the instance that serves each request
    unsown          \* history: a write of SeedData has failed

lifecycle == <<phase, seeded, host, unsown>>

LifecycleTypeOK ==
    /\ TypeOK
    /\ phase \in [Starts -> {"off", "seeding", "serving", "draining", "stopped", "killed"}]
    /\ seeded \in [Starts -> 0..Len(SeedIds)]
    /\ host \in [Requests -> Starts \union {NoStart}]
    /\ unsown \in BOOLEAN

LifecycleInit ==
    /\ Init
    /\ phase = [n \in Starts |-> "off"]
    /\ seeded = [n \in Starts |-> 0]
    /\ host = [p \in Requests |-> NoStart]
    /\ unsown = FALSE

Enter(n, stage) == phase' = [phase EXCEPT ![n] = stage]

-----------------------------------------------------------------------------
(* Starting *)

Launch(n) ==
    /\ phase[n] = "off"
    /\ Enter(n, IF n \in SeedStarts THEN "seeding" ELSE "serving")
    /\ UNCHANGED <<vars, seeded, host, unsown>>

\* One SaveRecord of SeedData: the seed record replaces whatever has its id; an
\* error is ignored.
SeedRecord(n) ==
    LET r == SeedIds[seeded[n] + 1]
    IN  /\ phase[n] = "seeding"
        /\ seeded[n] < Len(SeedIds)
        /\ seeded' = [seeded EXCEPT ![n] = @ + 1]
        /\ \/ /\ records' = [records EXCEPT ![r] = SeedDoc[r]]
              /\ supply' = Gain(supply, r, SeedDoc[r].stock)
              /\ UNCHANGED unsown
           \/ Faults /\ unsown' = TRUE /\ UNCHANGED <<records, supply>>
        /\ UNCHANGED <<orders, pc, req, locals, resp, taken, returned, wrapped, phase, host>>

\* (variant: the server does not wait for SeedData)
SeededAnyway(n) == TRUE

Seeded(n) == seeded[n] = Len(SeedIds)

Listen(n) ==
    /\ phase[n] = "seeding"
    /\ Seeded(n)
    /\ Enter(n, "serving")
    /\ UNCHANGED <<vars, seeded, host, unsown>>

-----------------------------------------------------------------------------
(* Serving *)

Receive(p) ==
    /\ Accept(p)
    /\ \E n \in Starts : phase[n] = "serving" /\ host' = [host EXCEPT ![p] = n]
    /\ UNCHANGED <<phase, seeded, unsown>>

Handle(p) == Serve(p) /\ UNCHANGED lifecycle

-----------------------------------------------------------------------------
(* Stopping *)

Hosted(n) == {p \in InFlight : host[p] = n}

\* The process ends; its goroutines are gone and their requests never answered.
Exit(n, stage) ==
    /\ Enter(n, stage)
    /\ pc' = [p \in Requests |-> IF p \in Hosted(n) THEN "done" ELSE pc[p]]
    /\ rec' = [p \in Requests |-> IF p \in Hosted(n) THEN NoRecord ELSE rec[p]]
    /\ ord' = [p \in Requests |-> IF p \in Hosted(n) THEN NoOrder ELSE ord[p]]
    /\ idx' = [p \in Requests |-> IF p \in Hosted(n) THEN 0 ELSE idx[p]]
    /\ UNCHANGED <<store, req, resp, history, seeded, host, unsown>>

\* SIGTERM, SIGINT, SIGHUP or SIGQUIT: Shutdown closes the listeners and waits.
Signal(n) == phase[n] = "serving" /\ Enter(n, "draining") /\ UNCHANGED <<vars, seeded, host, unsown>>

\* (variant: nothing waits for the handlers)
IdleAnyway(n) == TRUE

Idle(n) == Hosted(n) = {}

Drained(n) == phase[n] = "draining" /\ Idle(n) /\ Exit(n, "stopped")

\* (variant: Shutdown with a context that never ends)
DrainTimeoutNever(n) == phase[n] = "draining" /\ Hosted(n) = {} /\ Exit(n, "killed")

\* ShutdownTimeout is over: the error of Shutdown ends the process.
DrainTimeout(n) == phase[n] = "draining" /\ Hosted(n) # {} /\ Exit(n, "killed")

Crash(n) == phase[n] \in {"seeding", "serving", "draining"} /\ Exit(n, "killed")

Drain(n) == Drained(n) \/ DrainTimeout(n)

-----------------------------------------------------------------------------

LifecycleVars == <<vars, lifecycle>>

\* Every start has come to something and no request is open.
AtRest == InFlight = {} /\ \A n \in Starts : phase[n] \notin {"off", "seeding", "draining"}

LifecycleNext ==
    \/ \E p \in Requests : Receive(p) \/ Handle(p)
    \/ \E n \in Starts : Launch(n) \/ SeedRecord(n) \/ Listen(n) \/ Signal(n) \/ Drain(n) \/ Crash(n)
    \/ AtRest /\ UNCHANGED LifecycleVars

LifecycleSpec == LifecycleInit /\ [][LifecycleNext]_LifecycleVars

\* The timer of the shutdown fires and Shutdown returns.  Nothing is assumed of
\* the handlers: a store call may hang.
DrainSpec == LifecycleSpec /\ \A n \in Starts : WF_LifecycleVars(Drain(n))

-----------------------------------------------------------------------------
(* Properties *)

\* An instance that stopped gracefully has answered every request it accepted;
\* those of a killed one may have had part of their effects.
GracefulAnswersAll ==
    \A p \in Requests : req[p] # NoRequest /\ phase[host[p]] = "stopped" => resp[p] # 0

\* Whoever is served finds the seed catalogue in the store, unless a write of
\* SeedData failed (its errors are ignored): seeding precedes serving, and no
\* handler removes a record.
CatalogueReady ==
    ~unsown => \A n \in SeedStarts : phase[n] \in {"serving", "draining"} =>
                   \A i \in 1..Len(SeedIds) : records[SeedIds[i]] # NoRecord

\* A signal ends the process even if a handler never returns.
ShutdownEnds == \A n \in Starts : phase[n] = "draining" ~> phase[n] \in {"stopped", "killed"}

\* SeedData adds records (mongo.go:112): what the shop has under an id already,
\* its stock after the sales and its archived flag, stays.
SeedOnlyAdds ==
    [][\A n \in Starts : seeded'[n] # seeded[n] =>
          \A r \in Records : records[r] # NoRecord => records'[r] = records[r]]_LifecycleVars
=============================================================================
