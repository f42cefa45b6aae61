------------------------------ MODULE Accounts ------------------------------
(***************************************************************************)
(* The accounts of the shop: CreateUser, UpdateUser and DeactivateUser     *)
(* (handlers/user.go), Login (handlers/auth.go) and the administrator that *)
(* App.Start creates (app/app.go), over the collection users, whose index  *)
(* on email is unique (store/mongo.go).                                    *)
(*                                                                         *)
(* As in Shop, a handler is a sequence of atomic store calls and an action *)
(* is one call with the code up to the next.  Several instances of the     *)
(* program may run over one database; a start n \in Starts is one run of   *)
(* it, from app.New to its end.  An instance serves requests once its      *)
(* Start has seen to the administrator; when it stops, the requests it was *)
(* serving are never answered.                                             *)
(*                                                                         *)
(* An account created by request p or start n has p or n for its id, as    *)
(* xid.New gives a fresh one; Members are the ids of the accounts that     *)
(* earlier runs of the program have left in the database.  A token is what its holder may do: subject  *)
(* and scope.  It expires and is refreshed by the JWT library without a    *)
(* look at users, so a token once issued stays usable here.                *)
(***************************************************************************)
EXTENDS Naturals, FiniteSets

CONSTANTS
    Requests,       \* the HTTP requests the instances receive
    Starts,         \* the runs of the program
    AdminStarts,    \* the runs with --create-admin (the default)
    Emails, Passwords,
    Infos,          \* name and address of a user, as one value
    AdminEmail, AdminPassword, AdminInfo,
    Members,        \* the ids of the accounts of earlier runs
    Populations,    \* what those runs may have left: a user, or NoUser, for each member
    Ops,            \* the kinds of request received
    Faults,         \* whether store calls may fail
    NoUser, NoRequest, NoInfo, NoStart

Ids == Requests \union Starts \union Members
Roles == {"user", "admin"}
User == [email : Emails, password : Passwords, info : Infos, role : Roles, active : BOOLEAN]
Token == [sub : Ids, scope : Roles]

ASSUME IdAssumption ==
    /\ Requests \intersect Starts = {}
    /\ Members \intersect (Requests \union Starts) = {}
    /\ AdminStarts \subseteq Starts
ASSUME AdminAssumption == AdminEmail \in Emails /\ AdminPassword \in Passwords /\ AdminInfo \in Infos
ASSUME FaultAssumption == Faults \in BOOLEAN
ASSUME SentinelAssumption == NoUser \notin User /\ NoInfo \notin Infos /\ NoStart \notin Starts

\* Earlier runs have left what these leave behind: emails are unique, and where
\* every start creates the administrator nobody else has its email.
ASSUME PopulationAssumption ==
    \A was \in Populations :
        /\ was \in [Members -> User \union {NoUser}]
        /\ \A i, j \in Members : was[i] # NoUser /\ was[j] # NoUser /\ was[i].email = was[j].email => i = j
        /\ AdminStarts = Starts =>
              \A i \in Members : was[i] # NoUser /\ was[i].email = AdminEmail => was[i].role = "admin"

VARIABLES
    users,          \* collection users: the document of each id, or NoUser
    tokens,         \* the tokens issued
    boot,           \* the next store call of each start, or where it is
    pc,             \* the next store call of each request; "idle" before, "done" after
    host,           \* the instance that serves each request
    req,            \* what each request asks
    held,           \* the handler's variable user
    resp            \* the status answered; 0 before, and 0 for ever if its instance stopped

local == <<host, req, held, resp>>
vars == <<users, tokens, boot, pc, local>>

RegisterRequest == [op : {"register"}, email : Emails, password : Passwords, info : Infos]
LoginRequest == [op : {"login"}, email : Emails, password : Passwords]
UpdateRequest == [op : {"update"}, token : Token, id : Ids, info : Infos \union {NoInfo}]
DeactivateRequest == [op : {"deactivate"}, token : Token, id : Ids]
Request == RegisterRequest \union LoginRequest \union UpdateRequest \union DeactivateRequest

ASSUME RequestAssumption == NoRequest \notin Request

Calls == {"GetUserByEmail", "GetUser", "SaveUser"}
Codes == {200, 201, 204, 401, 403, 404, 409, 500}

TypeOK ==
    /\ users \in [Ids -> User \union {NoUser}]
    /\ tokens \subseteq Token
    /\ boot \in [Starts -> {"off", "GetUserByEmail", "SaveUser", "serving", "refused", "failed", "stopped"}]
    /\ pc \in [Requests -> Calls \union {"idle", "done"}]
    /\ host \in [Requests -> Starts \union {NoStart}]
    /\ req \in [Requests -> Request \union {NoRequest}]
    /\ held \in [Requests -> User \union {NoUser}]
    /\ resp \in [Requests -> Codes \union {0}]

\* (variant: everybody gets the scope of a customer)
ClaimsCustomer(id) == [sub |-> id, scope |-> "user"]

\* What a token of id says, as Login sets its claims.
Claims(id) == [sub |-> id, scope |-> users[id].role]

Init ==
    /\ \E was \in Populations : users = [id \in Ids |-> IF id \in Members THEN was[id] ELSE NoUser]
    /\ tokens \in SUBSET {Claims(id) : id \in {i \in Members : users[i] # NoUser}}
    /\ boot = [n \in Starts |-> "off"]
    /\ pc = [p \in Requests |-> "idle"]
    /\ host = [p \in Requests |-> NoStart]
    /\ req = [p \in Requests |-> NoRequest]
    /\ held = [p \in Requests |-> NoUser]
    /\ resp = [p \in Requests |-> 0]

-----------------------------------------------------------------------------
(* The collection users *)

Accounts(email) == {id \in Ids : users[id] # NoUser /\ users[id].email = email}

\* (variant: no unique index)
ConflictsNever(id, email) == FALSE

\* The unique index on email refuses a write.
Conflicts(id, email) == Accounts(email) \ {id} # {}

Put(id, user) == users' = [users EXCEPT ![id] = user]

NewUser(email, password, info, role) ==
    [email |-> email, password |-> password, info |-> info, role |-> role, active |-> TRUE]

-----------------------------------------------------------------------------
(* What the handlers share *)

InFlight == {p \in Requests : pc[p] \notin {"idle", "done"}}

\* Request p serves op and its next store call is call.
At(p, op, call) == pc[p] = call /\ req[p] # NoRequest /\ req[p].op = op

Return(p, code) ==
    /\ pc' = [pc EXCEPT ![p] = "done"]
    /\ resp' = [resp EXCEPT ![p] = code]
    /\ held' = [held EXCEPT ![p] = NoUser]
    /\ UNCHANGED <<boot, host, req>>

Refuse(p, code) == Return(p, code) /\ UNCHANGED <<users, tokens>>

\* The handler goes on with user to SaveUser.
Hold(p, user) ==
    /\ held' = [held EXCEPT ![p] = user]
    /\ pc' = [pc EXCEPT ![p] = "SaveUser"]
    /\ UNCHANGED <<users, tokens, boot, host, req, resp>>

\* SaveUser at the end of a handler: the whole copy replaces the document.
SaveUser(p, id, code) ==
    \/ Conflicts(id, held[p].email) /\ Refuse(p, 500)
    \/ /\ ~Conflicts(id, held[p].email)
       /\ Put(id, held[p])
       /\ Return(p, code) \/ (Faults /\ Return(p, 500))
       /\ UNCHANGED tokens

-----------------------------------------------------------------------------
(* The arrival of a request *)

\* (variant: any authenticated user)
MayActOnAll(token, id) == TRUE

\* RequireOwner: administrators, and everyone on their own account.
MayActOn(token, id) == token.scope = "admin" \/ token.sub = id

Acceptable(q) ==
    /\ q.op \in Ops
    /\ q.op \in {"update", "deactivate"} => q.token \in tokens /\ MayActOn(q.token, q.id)

FirstCall(q) == IF q.op \in {"register", "login"} THEN "GetUserByEmail" ELSE "GetUser"

Accept(p) ==
    /\ pc[p] = "idle"
    /\ \E n \in Starts, q \in Request :
          /\ boot[n] = "serving"
          /\ Acceptable(q)
          /\ req' = [req EXCEPT ![p] = q]
          /\ host' = [host EXCEPT ![p] = n]
          /\ pc' = [pc EXCEPT ![p] = FirstCall(q)]
    /\ UNCHANGED <<users, tokens, boot, held, resp>>

-----------------------------------------------------------------------------
(* CreateUser, Login, UpdateUser, DeactivateUser *)

RegisterGetUserByEmail(p) ==
    /\ At(p, "register", "GetUserByEmail")
    /\ \/ Accounts(req[p].email) # {} /\ Refuse(p, 409)
       \/ /\ Accounts(req[p].email) = {}
          /\ Hold(p, NewUser(req[p].email, req[p].password, req[p].info, "user"))

RegisterSaveUser(p) == At(p, "register", "SaveUser") /\ SaveUser(p, p, 201)

LoginGetUserByEmail(p) ==
    /\ At(p, "login", "GetUserByEmail")
    /\ \/ Accounts(req[p].email) = {} /\ Refuse(p, 401)
       \/ \E id \in Accounts(req[p].email) :
             \/ users[id].password # req[p].password /\ Refuse(p, 401)
             \/ users[id].password = req[p].password /\ ~users[id].active /\ Refuse(p, 403)
             \/ /\ users[id].password = req[p].password /\ users[id].active
                /\ tokens' = tokens \union {Claims(id)}
                /\ Return(p, 200)
                /\ UNCHANGED users

\* (variants: a field the request omits is emptied; the profile is built anew)
UpdatedBlank(user, info) == [user EXCEPT !.info = info]
UpdatedAnew(user, info) ==
    NewUser(user.email, user.password, IF info = NoInfo THEN user.info ELSE info, "user")

Updated(user, info) == [user EXCEPT !.info = IF info = NoInfo THEN @ ELSE info]

UpdateGetUser(p) ==
    /\ At(p, "update", "GetUser")
    /\ LET user == users[req[p].id]
       IN  \/ user = NoUser /\ Refuse(p, 404)
           \/ user # NoUser /\ Hold(p, Updated(user, req[p].info))

UpdateSaveUser(p) == At(p, "update", "SaveUser") /\ SaveUser(p, req[p].id, 200)

DeactivateGetUser(p) ==
    /\ At(p, "deactivate", "GetUser")
    /\ LET user == users[req[p].id]
       IN  \/ user = NoUser /\ Refuse(p, 404)
           \/ user # NoUser /\ Hold(p, [user EXCEPT !.active = FALSE])

DeactivateSaveUser(p) == At(p, "deactivate", "SaveUser") /\ SaveUser(p, req[p].id, 204)

\* (variants: an error of SaveUser is ignored; a failed call is repeated without limit)
StoreErrorIgnored(p) ==
    /\ Faults
    /\ p \in InFlight
    /\ Refuse(p, IF At(p, "register", "SaveUser") THEN 201 ELSE 500)
StoreErrorRetried(p) ==
    /\ Faults
    /\ p \in InFlight
    /\ pc' = [pc EXCEPT ![p] = FirstCall(req[p])]
    /\ UNCHANGED <<users, tokens, boot, local>>

\* A store call returns an error without having had an effect.
StoreError(p) == Faults /\ p \in InFlight /\ Refuse(p, 500)

Serve(p) ==
    \/ RegisterGetUserByEmail(p) \/ RegisterSaveUser(p)
    \/ LoginGetUserByEmail(p)
    \/ UpdateGetUser(p) \/ UpdateSaveUser(p)
    \/ DeactivateGetUser(p) \/ DeactivateSaveUser(p)
    \/ StoreError(p)

-----------------------------------------------------------------------------
(* App.Start: createDefaultAdmin, then the server *)

Boot(n, step) == boot' = [boot EXCEPT ![n] = step] /\ UNCHANGED <<tokens, pc, local>>

\* (variant: the server is started first)
FirstStepServe(n) == "serving"

FirstStep(n) == IF n \in AdminStarts THEN "GetUserByEmail" ELSE "serving"

Start(n) == boot[n] = "off" /\ Boot(n, FirstStep(n)) /\ UNCHANGED users

\* (variant: the answer of GetUserByEmail is not looked at)
AfterLookupAlways == "SaveUser"

AfterLookup == IF Accounts(AdminEmail) # {} THEN "serving" ELSE "SaveUser"

AdminGetUserByEmail(n) ==
    /\ boot[n] = "GetUserByEmail"
    /\ Boot(n, AfterLookup)
    /\ UNCHANGED users

\* An error ends the program: "refused" by the unique index, "failed" otherwise.
AdminSaveUser(n) ==
    /\ boot[n] = "SaveUser"
    /\ \/ Conflicts(n, AdminEmail) /\ Boot(n, "refused") /\ UNCHANGED users
       \/ /\ ~Conflicts(n, AdminEmail)
          /\ Put(n, NewUser(AdminEmail, AdminPassword, AdminInfo, "admin"))
          /\ Boot(n, "serving") \/ (Faults /\ Boot(n, "failed"))

BootError(n) ==
    /\ Faults
    /\ boot[n] \in {"GetUserByEmail", "SaveUser"}
    /\ Boot(n, "failed")
    /\ UNCHANGED users

\* The instance n is killed, or exits without having answered its requests.
Stop(n) ==
    /\ boot[n] \in {"GetUserByEmail", "SaveUser", "serving"}
    /\ boot' = [boot EXCEPT ![n] = "stopped"]
    /\ pc' = [p \in Requests |-> IF p \in InFlight /\ host[p] = n THEN "done" ELSE pc[p]]
    /\ held' = [p \in Requests |-> IF p \in InFlight /\ host[p] = n THEN NoUser ELSE held[p]]
    /\ UNCHANGED <<users, tokens, host, req, resp>>

Admin(n) == AdminGetUserByEmail(n) \/ AdminSaveUser(n) \/ BootError(n)

\* Every start has come to something and no request is open: nothing more need happen.
Finished == /\ \A n \in Starts : boot[n] \in {"serving", "refused", "failed", "stopped"}
            /\ InFlight = {}

Next == \/ \E p \in Requests : Accept(p) \/ Serve(p)
        \/ \E n \in Starts : Start(n) \/ Admin(n) \/ Stop(n)
        \/ Finished /\ UNCHANGED vars

Spec == Init /\ [][Next]_vars

\* Goroutines are scheduled and store calls return, in handlers and at the start.
FairSpec == Spec /\ (\A p \in Requests : WF_vars(Serve(p))) /\ (\A n \in Starts : WF_vars(Admin(n)))

-----------------------------------------------------------------------------
(* Properties *)

Answered(p, op, code) == resp[p] = code /\ req[p].op = op

\* Two accounts never share an email, whatever registrations and starts race
\* between GetUserByEmail and SaveUser, and whatever copies are written back.
EmailUnique ==
    \A i, j \in Ids : users[i] # NoUser /\ users[j] # NoUser /\ users[i].email = users[j].email => i = j

\* The scope of every token is the role its subject has in the store: the
\* middleware trusts the token and never reads users, so a role may not change,
\* be it by a stale copy.
ScopeIsRole == \A token \in tokens : users[token.sub] # NoUser /\ users[token.sub].role = token.scope

\* An account, once there, keeps its email, password and role: profile updates
\* and deactivations write back whole documents read earlier.
IdentityFrozen ==
    [][\A id \in Ids : users[id] # NoUser =>
          /\ users'[id] # NoUser
          /\ users'[id] = [users[id] EXCEPT !.info = users'[id].info, !.active = users'[id].active]]_vars

\* An account changes only by an update or a deactivation asked for by its
\* owner or by someone who is an administrator in the store at that moment.
ChangedByRight ==
    [][\A id \in Ids : users[id] # NoUser /\ users'[id] # users[id] =>
          \E p \in InFlight : /\ req[p].op \in {"update", "deactivate"}
                              /\ req[p].id = id
                              /\ \/ req[p].token.sub = id
                                 \/ users[req[p].token.sub].role = "admin"]_vars

\* A 201 of POST /users means that the account is there, from then on.
RegistrationKept ==
    \A p \in Requests : Answered(p, "register", 201) =>
        users[p] # NoUser /\ users[p].email = req[p].email /\ users[p].password = req[p].password

\* Where every start creates the administrator, whoever is served finds one in
\* the store under its email: the server starts after createDefaultAdmin, so no
\* registration can take the email first, and of starts that race one succeeds.
AdminReady ==
    AdminStarts = Starts =>
        /\ \A id \in Accounts(AdminEmail) : users[id].role = "admin"
        /\ (\E n \in Starts : boot[n] = "serving") => Accounts(AdminEmail) # {}

\* A start whose createDefaultAdmin begins when the administrator is there comes
\* to an end that is not a refusal by the unique index: of starts that race at
\* most the first attempt is refused, and repeating it helps.
RestartServes ==
    \A n \in Starts : boot[n] = "GetUserByEmail" /\ Accounts(AdminEmail) # {}
                        ~> boot[n] \in {"serving", "failed", "stopped"}

\* Every request an instance accepts ends, answered or with its instance.
EveryRequestEnds == \A p \in Requests : pc[p] # "idle" ~> pc[p] = "done"

\* A deactivated account is not active again (models/user.go:81): nothing in
\* the API activates an account.
DeactivatedStays == \A p \in Requests : Answered(p, "deactivate", 204) => ~users[req[p].id].active
=============================================================================
