------------------------------ MODULE Gateway ------------------------------
(***************************************************************************)
(* What a request meets before its handler: the limiters every route has   *)
(* (setupTieredRateLimit in app/server.go), the group of protected routes  *)
(* with its JWT check and its limiter (setupRoutes and                     *)
(* setupAuthenticatedRateLimit), and the guards of handlers/middleware.go. *)
(*                                                                         *)
(* The limiters are a library over Redis, made with the token bucket: a    *)
(* bucket holds as many tokens as the rate, a request takes one or is      *)
(* refused with 429, and one comes back every window / rate.  Each tier is *)
(* taken to have buckets of its own.  All tiers are enabled, as by         *)
(* default; what the router makes of the nil middleware that               *)
(* setupAuthenticatedRateLimit returns otherwise is not known here.        *)
(***************************************************************************)
EXTENDS Integers

CONSTANTS
    Requests,           \* the requests the server receives
    Addresses,          \* the clients' IP addresses
    Subjects,           \* the subjects of valid access tokens
    Admins,             \* the subjects with the scope "admin"
    PublicRate,         \* cfg.RateLimit.Public.Rate
    EndpointsRate,      \* cfg.RateLimit.AuthEndpoints.Rate
    AuthenticatedRate,  \* cfg.RateLimit.Authenticated.Rate
    Nobody              \* no valid access token

Tiers == {"public", "endpoints", "authenticated"}
Keys == Addresses \union Subjects

\* The limits configured for the tiers.
Rate == [public |-> PublicRate, endpoints |-> EndpointsRate, authenticated |-> AuthenticatedRate]

VARIABLES
    at,         \* what each request meets next; "idle" before, "done" after
    route,      \* the route it asks for
    from,       \* the address it comes from
    subject,    \* the subject of its token, or Nobody
    resp,       \* the status answered; 200 for a request that came to its handler
    tokens,     \* the tokens in the bucket of each tier and key
    admitted    \* history: requests a bucket has admitted since it last got a token

vars == <<at, route, from, subject, resp, tokens, admitted>>

-----------------------------------------------------------------------------
(* The routes *)

Route(path, group, guard, own) == [path |-> path, group |-> group, guard |-> guard, own |-> own]

OpenRoutes ==
    {Route(path, FALSE, "none", FALSE) :
        path \in {"/", "/auth/login", "/auth/refresh", "/auth/logout", "/users", "/records", "/inventory"}}
OwnerRoutes == {Route("/users/id", TRUE, "owner", own) : own \in BOOLEAN}
OrderRoutes == {Route("/orders", TRUE, "none", FALSE)}
AdminRoutes == {Route(path, TRUE, "admin", FALSE) : path \in {"/users", "/records", "/inventory/id/restock"}}

Routes == OpenRoutes \union OwnerRoutes \union OrderRoutes \union AdminRoutes

\* The paths a tier names, and the bucket of a request in it.
IncludedPaths(tier) ==
    CASE tier = "public" -> {"/records", "/inventory", "/users"}
      [] tier = "endpoints" -> {"/auth/login", "/auth/refresh"}
      [] tier = "authenticated" -> {"/orders", "/auth/logout"}

KeyOf(p, tier) == IF tier = "authenticated" THEN subject[p] ELSE from[p]

\* The rate each limiter is made with: the same for all of them.
RateOf(tier) == Rate["authenticated"]

-----------------------------------------------------------------------------

Init ==
    /\ at = [p \in Requests |-> "idle"]
    /\ route \in [Requests -> Routes]
    /\ from \in [Requests -> Addresses]
    /\ subject \in [Requests -> Subjects \union {Nobody}]
    /\ resp = [p \in Requests |-> 0]
    /\ tokens = [tier \in Tiers |-> [k \in Keys |-> RateOf(tier)]]
    /\ admitted = [tier \in Tiers |-> [k \in Keys |-> 0]]

asked == <<route, from, subject>>
limits == <<tokens, admitted>>

Pass(p, next) == at' = [at EXCEPT ![p] = next] /\ UNCHANGED <<asked, resp>>

Refuse(p, code) ==
    /\ at' = [at EXCEPT ![p] = "done"]
    /\ resp' = [resp EXCEPT ![p] = code]
    /\ UNCHANGED asked

Arrive(p) == at[p] = "idle" /\ Pass(p, "public") /\ UNCHANGED limits

\* The limiter of a tier; a request for another path passes by.
Limit(p, tier, next) ==
    LET k == KeyOf(p, tier)
    IN  /\ at[p] = tier
        /\ \/ route[p].path \notin IncludedPaths(tier) /\ Pass(p, next) /\ UNCHANGED limits
           \/ /\ route[p].path \in IncludedPaths(tier) /\ tokens[tier][k] > 0
              /\ tokens' = [tokens EXCEPT ![tier][k] = @ - 1]
              /\ admitted' = [admitted EXCEPT ![tier][k] = @ + 1]
              /\ Pass(p, next)
           \/ /\ route[p].path \in IncludedPaths(tier) /\ tokens[tier][k] = 0
              /\ Refuse(p, 429)
              /\ UNCHANGED limits

\* The JWT middleware is in front of the protected group only, and the limiter
\* of the authenticated tier comes after it.
Authenticate(p) ==
    /\ at[p] = "jwt"
    /\ \/ ~route[p].group /\ Pass(p, "handler")
       \/ route[p].group /\ subject[p] = Nobody /\ Refuse(p, 401)
       \/ route[p].group /\ subject[p] # Nobody /\ Pass(p, "authenticated")
    /\ UNCHANGED limits

\* RequireOwner lets the administrators through as well.
Allowed(p) ==
    CASE route[p].guard = "none" -> TRUE
      [] route[p].guard = "owner" -> route[p].own \/ subject[p] \in Admins
      [] route[p].guard = "admin" -> subject[p] \in Admins

Guard(p) ==
    /\ at[p] = "guard"
    /\ \/ Allowed(p) /\ Pass(p, "handler")
       \/ ~Allowed(p) /\ Refuse(p, 403)
    /\ UNCHANGED limits

Handle(p) == at[p] = "handler" /\ Refuse(p, 200) /\ UNCHANGED limits

\* Time passes: a bucket that is not full gets a token.
Refill(tier, k) ==
    /\ tokens[tier][k] < RateOf(tier)
    /\ tokens' = [tokens EXCEPT ![tier][k] = @ + 1]
    /\ admitted' = [admitted EXCEPT ![tier][k] = 0]
    /\ UNCHANGED <<at, asked, resp>>

Next ==
    \/ \E p \in Requests : \/ Arrive(p)
                           \/ Limit(p, "public", "endpoints")
                           \/ Limit(p, "endpoints", "jwt")
                           \/ Authenticate(p)
                           \/ Limit(p, "authenticated", "guard")
                           \/ Guard(p)
                           \/ Handle(p)
    \/ \E tier \in Tiers, k \in Keys : Refill(tier, k)
    \/ (\A p \in Requests : at[p] = "done") /\ UNCHANGED vars

Spec == Init /\ [][Next]_vars

-----------------------------------------------------------------------------
(* Properties *)

\* No burst of one client gets more requests through a tier than its limit
\* (README.md:125-129), however its requests interleave.
TierLimits == \A tier \in Tiers, k \in Keys : admitted[tier][k] <= Rate[tier]
=============================================================================
