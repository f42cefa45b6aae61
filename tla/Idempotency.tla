---------------------------- MODULE Idempotency ----------------------------
(***************************************************************************)
(* POST /orders as clients meet it: in front of CreateOrder the server has *)
(* the idempotency middleware of zerohttp with Required set and a memory   *)
(* in Redis (setupRoutes, setupIdempotencyConfig and setupRedisStorage in  *)
(* app/server.go), behind it the handlers and the instances of Lifecycle.  *)
(*                                                                         *)
(* The middleware is a library; it is modelled from the tests that show    *)
(* what is expected of it (integration/middleware_test.go, redis_test.go): *)
(* a request without a key is refused; of the requests with one key one    *)
(* holds the lock and is handled, and when it has been answered the answer *)
(* is kept for 24 hours and given to the others.  The lock ends by itself  *)
(* after LockTTL, also when its holder is still at work or has died.  Not  *)
(* known from the repository, and so left open: whether answers other than *)
(* a success are kept.  Assumed: the answer is looked for again once the   *)
(* lock is held, so looking and locking are one step here, and so are      *)
(* keeping the answer and unlocking.  A request that waits for the lock is *)
(* one that arrives later.                                                 *)
(***************************************************************************)
EXTENDS Lifecycle, ShopPurchase

CONSTANTS
    Keys,           \* the values of the header Idempotency-Key: one for each purchase
    NoKey

ASSUME KeyAssumption == NoKey \notin Keys /\ NoRequest \notin Requests

VARIABLES
    key,            \* the key of each request
    lock,           \* the request that holds the lock of each key, or NoRequest
    kept,           \* the request whose answer is kept under each key, or NoRequest
    reply,          \* whose answer each client gets: its own request's or an earlier one's
    loose           \* history: the keys whose memory was lost while it was needed

memory == <<lock, kept>>
idempotency == <<key, memory, reply, loose>>
everything == <<LifecycleVars, idempotency>>

IdempotencyTypeOK ==
    /\ LifecycleTypeOK
    /\ key \in [Requests -> Keys \union {NoKey}]
    /\ lock \in [Keys -> Requests \union {NoRequest}]
    /\ kept \in [Keys -> Requests \union {NoRequest}]
    /\ reply \in [Requests -> Requests \union {NoRequest}]
    /\ loose \subseteq Keys

IdempotencyInit ==
    /\ LifecycleInit
    /\ key = [p \in Requests |-> NoKey]
    /\ lock = [k \in Keys |-> NoRequest]
    /\ kept = [k \in Keys |-> NoRequest]
    /\ reply = [p \in Requests |-> NoRequest]
    /\ loose = {}

-----------------------------------------------------------------------------
(* The middleware *)

\* The requests for whose handler the middleware of instance n waits, or whose
\* answer it has in its hands.
Inside(n) ==
    {p \in Requests : /\ key[p] # NoKey /\ host[p] = n /\ reply[p] = NoRequest
                      /\ phase[n] \in {"serving", "draining"}}

\* (variant: nothing is locked)
MayHandleUnlocked(k) == kept[k] = NoRequest

MayHandle(k) == kept[k] = NoRequest /\ lock[k] = NoRequest

\* The first request of a key, or a retry when nothing is kept; it asks for the
\* same as the others.  Any other that finds nothing kept is refused or waits.
Handled(p) ==
    /\ key[p] = NoKey
    /\ Receive(p)
    /\ \E k \in Keys :
          /\ MayHandle(k)
          /\ key' = [key EXCEPT ![p] = k]
          /\ lock' = [lock EXCEPT ![k] = p]
          /\ \A o \in Requests : key[o] = k /\ req[o] # NoRequest => req'[p] = req[o]
    /\ UNCHANGED <<kept, reply, loose>>

\* A retry whose answer is there: the handler is not called.
Replayed(p) ==
    /\ key[p] = NoKey
    /\ \E n \in Starts : phase[n] = "serving"
    /\ \E k \in Keys :
          /\ kept[k] # NoRequest
          /\ key' = [key EXCEPT ![p] = k]
          /\ reply' = [reply EXCEPT ![p] = kept[k]]
    /\ UNCHANGED <<LifecycleVars, memory, loose>>

\* (variant: the answer is kept before there is one)
ReadyAnyway(p) == TRUE

Ready(p) == pc[p] = "done"

\* The handler has answered.  A success is kept, unless Redis fails; it is not
\* known of other answers, nor whether Unlock asks who holds the lock.
Answer(p) ==
    /\ \E n \in Starts : p \in Inside(n)
    /\ Ready(p)
    /\ \/ kept' = [kept EXCEPT ![key[p]] = p] /\ UNCHANGED loose
       \/ /\ loose' = IF resp[p] \in {201, 500} THEN loose \union {key[p]} ELSE loose
          /\ UNCHANGED kept
    /\ \/ lock' = [lock EXCEPT ![key[p]] = NoRequest]
       \/ lock[key[p]] # p /\ UNCHANGED lock
    /\ reply' = [reply EXCEPT ![p] = p]
    /\ UNCHANGED <<LifecycleVars, key>>

\* LockTTL is over while the holder is at work, or after it has died.
Lapse(k) ==
    /\ lock[k] # NoRequest
    /\ lock' = [lock EXCEPT ![k] = NoRequest]
    /\ loose' = loose \union {k}
    /\ UNCHANGED <<LifecycleVars, key, kept, reply>>

\* 24 hours are over.
Forget(k) ==
    /\ kept[k] # NoRequest
    /\ kept' = [kept EXCEPT ![k] = NoRequest]
    /\ loose' = loose \union {k}
    /\ UNCHANGED <<LifecycleVars, key, lock, reply>>

-----------------------------------------------------------------------------
(* The instances, whose Shutdown waits for the middleware as well *)

Operate(n) == Launch(n) \/ Signal(n) \/ (Drained(n) /\ Inside(n) = {}) \/ DrainTimeout(n) \/ Crash(n)

IdempotencyNext ==
    \/ \E p \in Requests : Handled(p) \/ Replayed(p) \/ Answer(p)
    \/ \E k \in Keys : Lapse(k) \/ Forget(k)
    \/ (\E p \in Requests : Handle(p)) /\ UNCHANGED idempotency
    \/ (\E n \in Starts : Operate(n)) /\ UNCHANGED idempotency
    \/ AtRest /\ UNCHANGED everything

IdempotencySpec == IdempotencyInit /\ [][IdempotencyNext]_everything

-----------------------------------------------------------------------------
(* Properties *)

\* A key buys once: however often the client retries, on whatever instance, and
\* whatever crashes, at most one order is stored under a key, unless its memory
\* was lost: the lock ended before the answer was kept (LockTTL), a day has
\* passed, or an error was answered although the order may be stored.
OncePerKey ==
    \A k \in Keys \ loose :
        Cardinality({o \in Requests : key[o] = k /\ orders[o] # NoOrder}) <= 1

\* Whoever is told 201, by the handler or from memory, is told of an order of
\* the same key that is in the store; and while its memory lasts all that are
\* told of a key are told of the same order.
SameAnswer ==
    /\ \A p \in Requests : reply[p] # NoRequest /\ resp[reply[p]] \in {0, 201} =>
           key[reply[p]] = key[p] /\ orders[reply[p]] # NoOrder
    /\ \A p, q \in Requests :
           /\ reply[p] # NoRequest /\ reply[q] # NoRequest /\ key[p] = key[q] /\ key[p] \notin loose
           /\ orders[reply[p]] # NoOrder /\ orders[reply[q]] # NoOrder
           => reply[p] = reply[q]
=============================================================================
