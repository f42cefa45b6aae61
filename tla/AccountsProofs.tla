--------------------------- MODULE AccountsProofs ---------------------------
(***************************************************************************)
(* Theorems about Accounts, for every number of requests, starts, emails   *)
(* and accounts.                                                           *)
(***************************************************************************)
EXTENDS Accounts, TLAPS

-----------------------------------------------------------------------------
(* The invariant *)

SameIdentity(a, b) == a.email = b.email /\ a.password = b.password /\ a.role = b.role

Registered(q) == NewUser(q.email, q.password, q.info, "user")

\* What a request at a store call has in its hands: a registration the document
\* of an account that is not there yet, an update or a deactivation a copy of
\* one that is, with its identity.
Custody(p) ==
    /\ pc[p] \notin {"idle", "done"} => req[p] \in Request
    /\ pc[p] = "idle" => req[p] = NoRequest /\ users[p] = NoUser
    /\ At(p, "register", "GetUserByEmail") => users[p] = NoUser
    /\ At(p, "register", "SaveUser") => users[p] = NoUser /\ held[p] = Registered(req[p])
    /\ pc[p] = "SaveUser" =>
          \/ req[p].op = "register"
          \/ /\ req[p].op \in {"update", "deactivate"}
             /\ held[p] \in User
             /\ users[req[p].id] \in User
             /\ SameIdentity(held[p], users[req[p].id])

CustodyOK == \A p \in Requests : Custody(p)

\* A start has created no account before its createDefaultAdmin is through.
StartsOK == \A n \in Starts : boot[n] \in {"off", "GetUserByEmail", "SaveUser"} => users[n] = NoUser

\* Requests are served on behalf of tokens that were issued.
TokensOK ==
    \A p \in Requests : req[p] # NoRequest /\ req[p].op \in {"update", "deactivate"} =>
        req[p].token \in tokens /\ MayActOn(req[p].token, req[p].id)

Sound == TypeOK /\ CustodyOK /\ StartsOK /\ EmailUnique /\ ScopeIsRole /\ TokensOK

\* The fields of a request, by its operation.
LEMMA RequestFields ==
    ASSUME NEW q \in Request
    PROVE  /\ q.op \in {"register", "login", "update", "deactivate"}
           /\ q.op = "register" => q.email \in Emails /\ q.password \in Passwords /\ q.info \in Infos
           /\ q.op = "login" => q.email \in Emails /\ q.password \in Passwords
           /\ q.op = "update" => q.token \in Token /\ q.id \in Ids /\ q.info \in Infos \union {NoInfo}
           /\ q.op = "deactivate" => q.token \in Token /\ q.id \in Ids
  BY DEF Request, RegisterRequest, LoginRequest, UpdateRequest, DeactivateRequest

\* NewUser makes a user document.
LEMMA NewUserTyped ==
    ASSUME NEW email \in Emails, NEW password \in Passwords, NEW info \in Infos, NEW role \in Roles
    PROVE  NewUser(email, password, info, role) \in User
  BY DEF NewUser, User

\* The copy UpdateUser changes is a user with the same identity.
LEMMA UpdatedTyped ==
    ASSUME NEW user \in User, NEW info \in Infos \union {NoInfo}
    PROVE  Updated(user, info) \in User /\ SameIdentity(Updated(user, info), user)
  BY DEF Updated, User, SameIdentity

\* The copy DeactivateUser changes is a user with the same identity.
LEMMA DeactivatedTyped ==
    ASSUME NEW user \in User
    PROVE  /\ [user EXCEPT !.active = FALSE] \in User
           /\ SameIdentity([user EXCEPT !.active = FALSE], user)
  BY DEF User, SameIdentity

\* With the accounts earlier runs have left the invariant holds.
LEMMA SoundInit == Init => Sound
<1> SUFFICES ASSUME Init PROVE Sound
  OBVIOUS
<1>1. PICK was \in Populations : users = [id \in Ids |-> IF id \in Members THEN was[id] ELSE NoUser]
  BY DEF Init
<1>2. /\ \A id \in Members : id \in Ids /\ users[id] = was[id] /\ was[id] \in User \union {NoUser}
      /\ \A id \in Ids \ Members : users[id] = NoUser
  BY <1>1, PopulationAssumption DEF Ids
<1>3. \A token \in tokens : \E id \in Members : users[id] # NoUser /\ token = Claims(id)
  BY DEF Init
<1>4. TypeOK
  <2>1. users \in [Ids -> User \union {NoUser}]
    BY <1>1, <1>2
  <2>2. tokens \subseteq Token
    BY <1>2, <1>3 DEF Claims, User, Token
  <2> QED
    BY <2>1, <2>2 DEF Init, TypeOK
<1>5. CustodyOK
  <2>1. \A p \in Requests : p \in Ids \ Members
    BY IdAssumption DEF Ids
  <2> QED
    BY <1>2, <2>1, SentinelAssumption DEF Init, CustodyOK, Custody, At
<1>6. StartsOK
  BY <1>2, IdAssumption DEF StartsOK, Ids
<1>7. EmailUnique
  BY <1>2, PopulationAssumption DEF EmailUnique
<1>8. ScopeIsRole
  BY <1>3 DEF ScopeIsRole, Claims
<1>9. TokensOK
  BY DEF Init, TokensOK
<1> QED
  BY <1>4, <1>5, <1>6, <1>7, <1>8, <1>9 DEF Sound

-----------------------------------------------------------------------------
(* The effect of a step on the collection *)

\* The document id is written by user: a new account, or the account id, its
\* identity unchanged.
Legal(id, user) ==
    /\ user \in User
    /\ Accounts(user.email) \ {id} = {}
    /\ users[id] # NoUser => SameIdentity(user, users[id])

\* A legal write keeps emails unique and every identity as it was.
LEMMA LegalPut ==
    ASSUME Sound, NEW id \in Ids, NEW user, Legal(id, user), Put(id, user)
    PROVE  /\ users' \in [Ids -> User \union {NoUser}]
           /\ EmailUnique'
           /\ \A i \in Ids : users[i] # NoUser => users'[i] \in User /\ SameIdentity(users'[i], users[i])
<1>1. users \in [Ids -> User \union {NoUser}]
  BY DEF Sound, TypeOK
<1>2. users' = [users EXCEPT ![id] = user] /\ user \in User
  BY DEF Put, Legal
<1>3. users' \in [Ids -> User \union {NoUser}]
  BY <1>1, <1>2
<1>4. \A i \in Ids : users[i] # NoUser => users'[i] \in User /\ SameIdentity(users'[i], users[i])
  BY <1>1, <1>2 DEF Legal, SameIdentity
<1>5. EmailUnique'
  <2> SUFFICES ASSUME NEW i \in Ids, NEW j \in Ids, users'[i] # NoUser, users'[j] # NoUser,
                      users'[i].email = users'[j].email
               PROVE  i = j
    BY DEF EmailUnique
  <2>1. \A k \in Ids : k # id => users'[k] = users[k]
    BY <1>1, <1>2
  <2>2. users'[id] = user
    BY <1>1, <1>2
  <2>3. \A k \in Ids : k # id /\ users[k] # NoUser => users[k].email # user.email
    BY DEF Legal, Accounts
  <2>4. CASE i # id /\ j # id
    BY <2>1, <2>4 DEF Sound, EmailUnique
  <2>5. CASE i = id \/ j = id
    BY <2>1, <2>2, <2>3, <2>5
  <2> QED
    BY <2>4, <2>5
<1> QED
  BY <1>3, <1>4, <1>5

\* What every step keeps of the accounts, and of those that are not yet there,
\* the creator c's excepted.
Kept(c) ==
    /\ \A i \in Ids : users[i] # NoUser => users'[i] \in User /\ SameIdentity(users'[i], users[i])
    /\ \A i \in Ids \ {c} : users[i] = NoUser => users'[i] = NoUser

\* A step that leaves users alone keeps every account, and unique emails.
LEMMA KeptUnchanged ==
    ASSUME Sound, UNCHANGED users, NEW c
    PROVE  Kept(c) /\ EmailUnique'
  BY DEF Sound, TypeOK, Kept, SameIdentity, EmailUnique

\* A legal write by c keeps every account, creates none but c, and keeps emails unique.
LEMMA KeptPut ==
    ASSUME Sound, NEW c, NEW id \in Ids, NEW user, Legal(id, user), Put(id, user),
           users[id] # NoUser \/ id = c
    PROVE  Kept(c) /\ EmailUnique' /\ users' \in [Ids -> User \union {NoUser}]
<1>1. \A i \in Ids \ {id} : users'[i] = users[i]
  BY DEF Sound, TypeOK, Put
<1> QED
  BY <1>1, LegalPut DEF Kept

-----------------------------------------------------------------------------
(* The steps of a request *)

\* The request p's own part of the invariant is enough: the others keep theirs
\* as accounts keep their identities.
LEMMA OthersSound ==
    ASSUME Sound, TypeOK', EmailUnique', UNCHANGED boot,
           NEW p \in Requests, Kept(p), Custody(p)',
           tokens \subseteq tokens',
           \A token \in tokens' \ tokens : users[token.sub] \in User /\ users[token.sub].role = token.scope,
           req'[p] # NoRequest /\ req'[p].op \in {"update", "deactivate"} =>
               req'[p].token \in tokens /\ MayActOn(req'[p].token, req'[p].id),
           \A q \in Requests \ {p} : pc'[q] = pc[q] /\ req'[q] = req[q] /\ held'[q] = held[q]
    PROVE  Sound'
<1>1. \A i \in Ids : users[i] # NoUser => users[i] \in User
  BY DEF Sound, TypeOK
<1>2. Requests \subseteq Ids /\ Starts \subseteq Ids /\ Requests \intersect Starts = {}
  BY IdAssumption DEF Ids
<1>3. CustodyOK'
  <2> SUFFICES ASSUME NEW q \in Requests \ {p}
               PROVE  Custody(q)'
    BY DEF CustodyOK
  <2>1. Custody(q) /\ (users[q] = NoUser => users'[q] = NoUser)
    BY <1>2 DEF Sound, CustodyOK, Kept
  <2>2. pc[q] = "SaveUser" /\ req[q].op # "register" =>
            users'[req[q].id] \in User /\ SameIdentity(users'[req[q].id], users[req[q].id])
    <3> SUFFICES ASSUME pc[q] = "SaveUser", req[q].op # "register"
                 PROVE  users'[req[q].id] \in User /\ SameIdentity(users'[req[q].id], users[req[q].id])
      OBVIOUS
    <3>1. req[q] \in Request /\ req[q].op \in {"update", "deactivate"} /\ users[req[q].id] \in User
      BY <2>1 DEF Custody
    <3>2. req[q].id \in Ids
      BY <3>1, RequestFields
    <3>3. users[req[q].id] # NoUser
      BY <3>1, SentinelAssumption
    <3> QED
      BY <3>2, <3>3 DEF Kept
  <2> QED
    BY <2>1, <2>2 DEF Custody, At, SameIdentity
<1>4. StartsOK'
  BY <1>2 DEF Sound, StartsOK, Kept
<1>5. ScopeIsRole'
  <2> SUFFICES ASSUME NEW token \in tokens'
               PROVE  users'[token.sub] # NoUser /\ users'[token.sub].role = token.scope
    BY DEF ScopeIsRole
  <2>1. token.sub \in Ids
    BY DEF TypeOK, Token
  <2>2. users[token.sub] # NoUser /\ users[token.sub].role = token.scope
    BY SentinelAssumption DEF Sound, ScopeIsRole
  <2>3. users'[token.sub] \in User /\ SameIdentity(users'[token.sub], users[token.sub])
    BY <2>1, <2>2 DEF Kept
  <2> QED
    BY <2>2, <2>3, SentinelAssumption DEF SameIdentity
<1>6. TokensOK'
  BY DEF Sound, TokensOK, MayActOn
<1> QED
  BY <1>3, <1>4, <1>5, <1>6 DEF Sound

\* A handler that answers keeps the invariant.
LEMMA ReturnSound ==
    ASSUME Sound, NEW p \in Requests, pc[p] \notin {"idle", "done"}, NEW code \in Codes,
           Return(p, code), Kept(p), EmailUnique', users' \in [Ids -> User \union {NoUser}],
           tokens \subseteq tokens', tokens' \subseteq Token,
           \A token \in tokens' \ tokens : users[token.sub] \in User /\ users[token.sub].role = token.scope
    PROVE  Sound'
<1>1. pc'[p] = "done" /\ \A q \in Requests \ {p} : pc'[q] = pc[q] /\ held'[q] = held[q]
  BY DEF Sound, TypeOK, Return
<1>2. TypeOK'
  BY DEF Sound, TypeOK, Return
<1>3. Custody(p)'
  BY <1>1 DEF Custody, At
<1>4. UNCHANGED <<boot, req>>
  BY DEF Return
<1> QED
  BY <1>1, <1>2, <1>3, <1>4, OthersSound DEF Sound, TokensOK

\* A handler that refuses its request keeps the invariant.
LEMMA RefuseSound ==
    ASSUME Sound, NEW p \in Requests, pc[p] \notin {"idle", "done"}, NEW code \in Codes, Refuse(p, code)
    PROVE  Sound'
<1>1. Kept(p) /\ EmailUnique'
  BY KeptUnchanged DEF Refuse
<1> QED
  BY <1>1, ReturnSound DEF Refuse, Sound, TypeOK

\* A handler that goes on to SaveUser with a fit copy keeps the invariant.
LEMMA HoldSound ==
    ASSUME Sound, NEW p \in Requests, pc[p] \notin {"idle", "done"}, NEW user \in User, Hold(p, user),
           \/ req[p].op = "register" /\ users[p] = NoUser /\ user = Registered(req[p])
           \/ /\ req[p].op \in {"update", "deactivate"}
              /\ users[req[p].id] \in User
              /\ SameIdentity(user, users[req[p].id])
    PROVE  Sound'
<1>1. pc'[p] = "SaveUser" /\ held'[p] = user /\ \A q \in Requests \ {p} : pc'[q] = pc[q] /\ held'[q] = held[q]
  BY DEF Sound, TypeOK, Hold
<1>2. UNCHANGED <<users, tokens, boot, req>>
  BY DEF Hold
<1>3. TypeOK'
  BY DEF Sound, TypeOK, Hold, Calls
<1>4. Kept(p) /\ EmailUnique'
  BY <1>2, KeptUnchanged
<1>5. req[p] \in Request
  BY DEF Sound, CustodyOK, Custody
<1>6. Custody(p)'
  BY <1>1, <1>2, <1>5 DEF Custody, At
<1> QED
  BY <1>1, <1>2, <1>3, <1>4, <1>6, OthersSound DEF Sound, TokensOK

\* The account a SaveUser at the end of a handler writes.
Target(p) == IF req[p].op = "register" THEN p ELSE req[p].id

\* What a handler holds at SaveUser may be written, if the index allows it.
LEMMA HeldLegal ==
    ASSUME Sound, NEW p \in Requests, pc[p] = "SaveUser",
           ~Conflicts(Target(p), held[p].email)
    PROVE  Target(p) \in Ids /\ Legal(Target(p), held[p]) /\ (users[Target(p)] # NoUser \/ Target(p) = p)
<1>1. Custody(p) /\ req[p] \in Request
  BY DEF Sound, CustodyOK, Custody
<1>2. CASE req[p].op = "register"
  <2>1. users[p] = NoUser /\ held[p] = Registered(req[p])
    BY <1>1, <1>2, RequestAssumption DEF Custody, At
  <2>2. held[p] \in User
    BY <1>1, <1>2, <2>1, RequestFields, NewUserTyped DEF Registered, Roles
  <2> QED
    BY <1>2, <2>1, <2>2 DEF Target, Legal, Conflicts, Ids
<1>3. CASE req[p].op # "register"
  <2>1. /\ req[p].op \in {"update", "deactivate"}
        /\ held[p] \in User
        /\ users[req[p].id] \in User
        /\ SameIdentity(held[p], users[req[p].id])
    BY <1>1, <1>3 DEF Custody
  <2> QED
    BY <1>1, <1>3, <2>1, RequestFields, SentinelAssumption DEF Target, Legal, Conflicts
<1> QED
  BY <1>2, <1>3

\* SaveUser, refused, done or done with its answer lost, keeps the invariant.
LEMMA SaveSound ==
    ASSUME Sound, NEW p \in Requests, pc[p] = "SaveUser", NEW code \in Codes, SaveUser(p, Target(p), code)
    PROVE  Sound' /\ Kept(p)
<1>1. CASE Conflicts(Target(p), held[p].email) /\ Refuse(p, 500)
  BY <1>1, RefuseSound, KeptUnchanged DEF Codes, Refuse
<1>2. ASSUME ~Conflicts(Target(p), held[p].email), Put(Target(p), held[p]), NEW c \in Codes, Return(p, c),
             UNCHANGED tokens
      PROVE  Sound' /\ Kept(p)
  <2>1. Kept(p) /\ EmailUnique' /\ users' \in [Ids -> User \union {NoUser}]
    BY <1>2, HeldLegal, KeptPut
  <2> QED
    BY <1>2, <2>1, ReturnSound DEF Sound, TypeOK
<1> QED
  BY <1>1, <1>2 DEF SaveUser, Codes

\* The arrival of a request keeps the invariant.
LEMMA AcceptSound ==
    ASSUME Sound, NEW p \in Requests, Accept(p)
    PROVE  Sound' /\ Kept(p)
<1>1. PICK n \in Starts, q \in Request :
          /\ boot[n] = "serving"
          /\ Acceptable(q)
          /\ req' = [req EXCEPT ![p] = q]
          /\ host' = [host EXCEPT ![p] = n]
          /\ pc' = [pc EXCEPT ![p] = FirstCall(q)]
  BY DEF Accept
<1>2. pc[p] = "idle" /\ UNCHANGED <<users, tokens, boot, held, resp>>
  BY DEF Accept
<1>3. FirstCall(q) \in {"GetUserByEmail", "GetUser"}
  BY DEF FirstCall
<1>4. TypeOK'
  BY <1>1, <1>2, <1>3 DEF Sound, TypeOK, Calls
<1>5. Kept(p) /\ EmailUnique'
  BY <1>2, KeptUnchanged
<1>6. pc'[p] = FirstCall(q) /\ req'[p] = q
  BY <1>1 DEF Sound, TypeOK
<1>7. \A r \in Requests \ {p} : pc'[r] = pc[r] /\ req'[r] = req[r]
  BY <1>1 DEF Sound, TypeOK
<1>8. users'[p] = NoUser
  BY <1>2 DEF Sound, CustodyOK, Custody
<1>9. Custody(p)'
  BY <1>3, <1>6, <1>8 DEF Custody, At
<1>10. q.op \in {"update", "deactivate"} => q.token \in tokens /\ MayActOn(q.token, q.id)
  BY <1>1 DEF Acceptable
<1> QED
  BY <1>2, <1>4, <1>5, <1>6, <1>7, <1>9, <1>10, OthersSound

\* The lookup of CreateUser keeps the invariant.
LEMMA RegisterSound ==
    ASSUME Sound, NEW p \in Requests, RegisterGetUserByEmail(p)
    PROVE  Sound' /\ Kept(p)
<1>1. pc[p] = "GetUserByEmail" /\ req[p].op = "register" /\ users[p] = NoUser /\ req[p] \in Request
  BY DEF RegisterGetUserByEmail, At, Sound, CustodyOK, Custody
<1>2. UNCHANGED users
  BY DEF RegisterGetUserByEmail, Refuse, Hold
<1>3. Kept(p)
  BY <1>2, KeptUnchanged
<1>4. CASE Refuse(p, 409)
  BY <1>1, <1>3, <1>4, RefuseSound DEF Codes
<1>5. CASE Hold(p, NewUser(req[p].email, req[p].password, req[p].info, "user"))
  <2>1. Registered(req[p]) \in User
    BY <1>1, RequestFields, NewUserTyped DEF Registered, Roles
  <2> QED
    BY <1>1, <1>3, <1>5, <2>1, HoldSound DEF Registered
<1> QED
  BY <1>3, <1>4, <1>5 DEF RegisterGetUserByEmail

\* Login keeps the invariant: the token it issues tells the role.
LEMMA LoginSound ==
    ASSUME Sound, NEW p \in Requests, LoginGetUserByEmail(p)
    PROVE  Sound' /\ Kept(p)
<1>1. pc[p] = "GetUserByEmail"
  BY DEF LoginGetUserByEmail, At
<1>2. UNCHANGED users
  BY DEF LoginGetUserByEmail, Refuse
<1>3. Kept(p)
  BY <1>2, KeptUnchanged
<1>4. CASE Refuse(p, 401) \/ Refuse(p, 403)
  BY <1>1, <1>3, <1>4, RefuseSound DEF Codes
<1>5. ASSUME NEW id \in Accounts(req[p].email), tokens' = tokens \union {Claims(id)}, Return(p, 200)
      PROVE  Sound'
  <2>1. id \in Ids /\ users[id] \in User
    BY <1>5 DEF Accounts, Sound, TypeOK
  <2>2. Claims(id) \in Token /\ Claims(id).sub = id /\ Claims(id).scope = users[id].role
    BY <2>1 DEF Claims, Token, User
  <2>3. EmailUnique'
    BY <1>2, KeptUnchanged
  <2> QED
    BY <1>1, <1>2, <1>3, <1>5, <2>1, <2>2, <2>3, ReturnSound DEF Sound, TypeOK, Codes
<1> QED
  BY <1>3, <1>4, <1>5 DEF LoginGetUserByEmail

\* The reads of UpdateUser and DeactivateUser keep the invariant.
LEMMA GetUserSound ==
    ASSUME Sound, NEW p \in Requests, UpdateGetUser(p) \/ DeactivateGetUser(p)
    PROVE  Sound' /\ Kept(p)
<1> DEFINE user == users[req[p].id]
<1>1. pc[p] = "GetUser" /\ req[p].op \in {"update", "deactivate"} /\ req[p] \in Request
  BY DEF UpdateGetUser, DeactivateGetUser, At, Sound, CustodyOK, Custody
<1>2. UNCHANGED users
  BY DEF UpdateGetUser, DeactivateGetUser, Refuse, Hold
<1>3. Kept(p)
  BY <1>2, KeptUnchanged
<1>4. user \in User \union {NoUser}
  BY <1>1, RequestFields DEF Sound, TypeOK
<1>5. CASE Refuse(p, 404)
  BY <1>1, <1>3, <1>5, RefuseSound DEF Codes
<1>6. CASE UpdateGetUser(p) /\ user # NoUser /\ Hold(p, Updated(user, req[p].info))
  <2>1. req[p].op = "update" /\ req[p].info \in Infos \union {NoInfo}
    BY <1>1, <1>6, RequestFields DEF UpdateGetUser, At
  <2>2. Updated(user, req[p].info) \in User /\ SameIdentity(Updated(user, req[p].info), user)
    BY <1>4, <1>6, <2>1, UpdatedTyped
  <2> QED
    BY <1>1, <1>3, <1>4, <1>6, <2>2, HoldSound
<1>7. CASE user # NoUser /\ Hold(p, [user EXCEPT !.active = FALSE])
  <2>1. [user EXCEPT !.active = FALSE] \in User /\ SameIdentity([user EXCEPT !.active = FALSE], user)
    BY <1>4, <1>7, DeactivatedTyped
  <2> QED
    BY <1>1, <1>3, <1>4, <1>7, <2>1, HoldSound
<1> QED
  BY <1>3, <1>5, <1>6, <1>7 DEF UpdateGetUser, DeactivateGetUser

\* Every store call of every handler keeps the invariant.
LEMMA ServeSound ==
    ASSUME Sound, NEW p \in Requests, Serve(p)
    PROVE  Sound' /\ Kept(p)
<1>1. CASE RegisterGetUserByEmail(p)
  BY <1>1, RegisterSound
<1>2. CASE RegisterSaveUser(p)
  BY <1>2, SaveSound DEF RegisterSaveUser, At, Target, Codes
<1>3. CASE LoginGetUserByEmail(p)
  BY <1>3, LoginSound
<1>4. CASE UpdateGetUser(p) \/ DeactivateGetUser(p)
  BY <1>4, GetUserSound
<1>5. CASE UpdateSaveUser(p)
  BY <1>5, SaveSound DEF UpdateSaveUser, At, Target, Codes
<1>6. CASE DeactivateSaveUser(p)
  BY <1>6, SaveSound DEF DeactivateSaveUser, At, Target, Codes
<1>7. CASE StoreError(p)
  BY <1>7, RefuseSound, KeptUnchanged DEF StoreError, InFlight, Codes, Refuse
<1> QED
  BY <1>1, <1>2, <1>3, <1>4, <1>5, <1>6, <1>7 DEF Serve

-----------------------------------------------------------------------------
(* The steps of a start *)

\* A step of createDefaultAdmin keeps the invariant, given what it did to users.
LEMMA BootSound ==
    ASSUME Sound, NEW n \in Starts,
           NEW step \in {"GetUserByEmail", "SaveUser", "serving", "refused", "failed"}, Boot(n, step),
           Kept(n), EmailUnique', users' \in [Ids -> User \union {NoUser}],
           step \in {"GetUserByEmail", "SaveUser"} => users'[n] = NoUser
    PROVE  Sound'
<1>1. UNCHANGED <<tokens, pc, host, req, held, resp>> /\ boot' = [boot EXCEPT ![n] = step]
  BY DEF Boot, local
<1>2. TypeOK'
  BY <1>1 DEF Sound, TypeOK
<1>3. Requests \subseteq Ids /\ Starts \subseteq Ids /\ n \notin Requests
  BY IdAssumption DEF Ids
<1>4. CustodyOK'
  <2> SUFFICES ASSUME NEW q \in Requests
               PROVE  Custody(q)'
    BY DEF CustodyOK
  <2>1. Custody(q) /\ (users[q] = NoUser => users'[q] = NoUser)
    BY <1>3 DEF Sound, CustodyOK, Kept
  <2>2. pc[q] = "SaveUser" /\ req[q].op # "register" =>
            users'[req[q].id] \in User /\ SameIdentity(users'[req[q].id], users[req[q].id])
    BY <2>1, RequestFields, SentinelAssumption DEF Custody, Kept
  <2> QED
    BY <1>1, <2>1, <2>2 DEF Custody, At, SameIdentity
<1>5. StartsOK'
  BY <1>1, <1>3 DEF Sound, TypeOK, StartsOK, Kept
<1>6. ScopeIsRole'
  BY <1>1, SentinelAssumption DEF Sound, TypeOK, ScopeIsRole, Token, Kept, SameIdentity
<1>7. TokensOK'
  BY <1>1 DEF Sound, TokensOK, MayActOn
<1> QED
  BY <1>2, <1>4, <1>5, <1>6, <1>7 DEF Sound

\* A launch, the lookup of createDefaultAdmin and its errors keep the invariant.
LEMMA StartSound ==
    ASSUME Sound, NEW n \in Starts, Start(n) \/ AdminGetUserByEmail(n) \/ BootError(n)
    PROVE  Sound' /\ Kept(n)
<1>1. UNCHANGED users /\ Kept(n) /\ EmailUnique' /\ users' \in [Ids -> User \union {NoUser}]
  BY KeptUnchanged DEF Start, AdminGetUserByEmail, BootError, Sound, TypeOK
<1>2. users[n] = NoUser
  BY DEF Start, AdminGetUserByEmail, BootError, Sound, StartsOK
<1>3. CASE Start(n)
  BY <1>1, <1>2, <1>3, BootSound DEF Start, FirstStep
<1>4. CASE AdminGetUserByEmail(n)
  BY <1>1, <1>2, <1>4, BootSound DEF AdminGetUserByEmail, AfterLookup
<1>5. CASE BootError(n)
  BY <1>1, <1>2, <1>5, BootSound DEF BootError
<1> QED
  BY <1>1, <1>3, <1>4, <1>5

\* The SaveUser of createDefaultAdmin keeps the invariant.
LEMMA AdminSaveSound ==
    ASSUME Sound, NEW n \in Starts, AdminSaveUser(n)
    PROVE  Sound' /\ Kept(n)
<1> DEFINE admin == NewUser(AdminEmail, AdminPassword, AdminInfo, "admin")
<1>1. CASE Boot(n, "refused") /\ UNCHANGED users
  BY <1>1, KeptUnchanged, BootSound DEF Sound, TypeOK
<1>2. ASSUME ~Conflicts(n, AdminEmail), Put(n, admin), NEW step \in {"serving", "failed"}, Boot(n, step)
      PROVE  Sound' /\ Kept(n)
  <2>1. admin \in User /\ admin.email = AdminEmail
    BY AdminAssumption, NewUserTyped DEF Roles, NewUser
  <2>2. n \in Ids /\ users[n] = NoUser
    BY DEF AdminSaveUser, Sound, StartsOK, Ids
  <2>3. Legal(n, admin)
    BY <1>2, <2>1, <2>2 DEF Legal, Conflicts
  <2>4. Kept(n) /\ EmailUnique' /\ users' \in [Ids -> User \union {NoUser}]
    BY <1>2, <2>2, <2>3, KeptPut
  <2> QED
    BY <1>2, <2>4, BootSound
<1> QED
  BY <1>1, <1>2 DEF AdminSaveUser

\* An instance that stops keeps the invariant, its handlers gone.
LEMMA StopSound ==
    ASSUME Sound, NEW n \in Starts, Stop(n)
    PROVE  Sound' /\ Kept(n)
<1>1. UNCHANGED <<users, tokens, host, req, resp>> /\ boot' = [boot EXCEPT ![n] = "stopped"]
  BY DEF Stop
<1>2. /\ pc' = [p \in Requests |-> IF p \in InFlight /\ host[p] = n THEN "done" ELSE pc[p]]
      /\ held' = [p \in Requests |-> IF p \in InFlight /\ host[p] = n THEN NoUser ELSE held[p]]
  BY DEF Stop
<1>3. TypeOK'
  BY <1>1, <1>2 DEF Sound, TypeOK
<1>4. Kept(n) /\ EmailUnique'
  BY <1>1, KeptUnchanged
<1>5. CustodyOK'
  <2> SUFFICES ASSUME NEW p \in Requests
               PROVE  Custody(p)'
    BY DEF CustodyOK
  <2>1. Custody(p) /\ UNCHANGED <<users, req>>
    BY <1>1 DEF Sound, CustodyOK
  <2>2. pc'[p] = "done" \/ (pc'[p] = pc[p] /\ held'[p] = held[p])
    BY <1>2
  <2>3. CASE pc'[p] = "done"
    BY <2>3 DEF Custody, At
  <2>4. CASE pc'[p] = pc[p] /\ held'[p] = held[p]
    BY <2>1, <2>4 DEF Custody, At
  <2> QED
    BY <2>2, <2>3, <2>4
<1>6. StartsOK' /\ ScopeIsRole' /\ TokensOK'
  BY <1>1 DEF Sound, TypeOK, StartsOK, ScopeIsRole, TokensOK, MayActOn
<1> QED
  BY <1>3, <1>4, <1>5, <1>6 DEF Sound

\* Every step keeps the invariant and every identity.
LEMMA SoundStep ==
    ASSUME Sound, [Next]_vars
    PROVE  /\ Sound'
           /\ \A i \in Ids : users[i] # NoUser => users'[i] \in User /\ SameIdentity(users'[i], users[i])
<1>1. CASE UNCHANGED vars
  <2>1. Sound'
    BY <1>1 DEF Sound, TypeOK, CustodyOK, Custody, At, SameIdentity, StartsOK, EmailUnique, ScopeIsRole,
                TokensOK, MayActOn, vars, local
  <2> QED
    BY <1>1, <2>1 DEF vars, Sound, TypeOK, SameIdentity
<1>2. CASE \E p \in Requests : Accept(p) \/ Serve(p)
  BY <1>2, AcceptSound, ServeSound DEF Kept
<1>3. CASE \E n \in Starts : Start(n) \/ Admin(n) \/ Stop(n)
  BY <1>3, StartSound, AdminSaveSound, StopSound DEF Admin, Kept
<1> QED
  BY <1>1, <1>2, <1>3 DEF Next

-----------------------------------------------------------------------------
(* Theorems *)

\* The inductive invariant: types, the custody of the copies handlers hold, the
\* order within a start, unique emails and tokens that tell the role.
THEOREM Soundness == Spec => []Sound
<1>1. Init => Sound
  BY SoundInit
<1>2. Sound /\ [Next]_vars => Sound'
  BY SoundStep
<1> QED
  BY <1>1, <1>2, PTL DEF Spec

\* Every variable keeps its type: a handler at SaveUser always holds a document.
THEOREM TypeCorrect == Spec => []TypeOK
<1>1. Sound => TypeOK
  BY DEF Sound
<1> QED
  BY <1>1, Soundness, PTL

\* However many registrations and starts race, and whatever copies they write
\* back, no two accounts share an email (CreateUser, createDefaultAdmin).
THEOREM EmailUniqueAlways == Spec => []EmailUnique
<1>1. Sound => EmailUnique
  BY DEF Sound
<1> QED
  BY <1>1, Soundness, PTL

\* A token never says more or less than the role its subject has in the store
\* (Login puts the role into it, no handler reads it again).
THEOREM ScopeIsRoleAlways == Spec => []ScopeIsRole
<1>1. Sound => ScopeIsRole
  BY DEF Sound
<1> QED
  BY <1>1, Soundness, PTL

\* No step of any handler changes the email, password or role of an account
\* (UpdateUser and DeactivateUser write whole documents).
THEOREM IdentityFrozenAlways == Spec => IdentityFrozen
<1> DEFINE Frozen == \A id \in Ids : users[id] # NoUser =>
               /\ users'[id] # NoUser
               /\ users'[id] = [users[id] EXCEPT !.info = users'[id].info, !.active = users'[id].active]
<1>1. ASSUME Sound, [Next]_vars PROVE Frozen
  <2> SUFFICES ASSUME NEW id \in Ids, users[id] # NoUser
               PROVE  /\ users'[id] # NoUser
                      /\ users'[id] = [users[id] EXCEPT !.info = users'[id].info, !.active = users'[id].active]
    OBVIOUS
  <2>1. users[id] \in User /\ users'[id] \in User /\ SameIdentity(users'[id], users[id])
    BY <1>1, SoundStep DEF Sound, TypeOK
  <2>2. PICK new \in User : new = users'[id]
    BY <2>1
  <2>3. new = [users[id] EXCEPT !.info = new.info, !.active = new.active]
    BY <2>1, <2>2 DEF User, SameIdentity
  <2> QED
    BY <2>1, <2>2, <2>3, SentinelAssumption
<1>2. Sound /\ [Next]_vars => [Frozen]_vars
  BY <1>1
<1> QED
  BY <1>2, Soundness, PTL DEF Spec, IdentityFrozen

-----------------------------------------------------------------------------
(* Who writes which account *)

\* An account that is there is written only by the SaveUser of an update or a
\* deactivation of it.
LEMMA WhoWrites ==
    ASSUME Sound, [Next]_vars, NEW id \in Ids, users[id] # NoUser, users'[id] # users[id]
    PROVE  \E p \in InFlight : /\ req[p] \in Request
                               /\ req[p].op \in {"update", "deactivate"}
                               /\ req[p].id = id
<1>1. \A p \in Requests : ~Accept(p) /\ ~RegisterGetUserByEmail(p) /\ ~LoginGetUserByEmail(p)
                          /\ ~UpdateGetUser(p) /\ ~DeactivateGetUser(p) /\ ~StoreError(p)
  BY DEF Accept, RegisterGetUserByEmail, LoginGetUserByEmail, UpdateGetUser, DeactivateGetUser, StoreError,
         Refuse, Hold
<1>2. \A n \in Starts : ~Start(n) /\ ~AdminGetUserByEmail(n) /\ ~BootError(n) /\ ~Stop(n)
  BY DEF Start, AdminGetUserByEmail, BootError, Stop
<1>3. \A n \in Starts : ~AdminSaveUser(n)
  <2> SUFFICES ASSUME NEW n \in Starts, AdminSaveUser(n)
               PROVE  FALSE
    OBVIOUS
  <2>1. users[n] = NoUser /\ n # id
    BY DEF AdminSaveUser, Sound, StartsOK
  <2> QED
    BY <2>1 DEF AdminSaveUser, Put, Sound, TypeOK
<1>4. PICK p \in Requests : RegisterSaveUser(p) \/ UpdateSaveUser(p) \/ DeactivateSaveUser(p)
  BY <1>1, <1>2, <1>3 DEF Next, Serve, Admin, vars
<1>5. pc[p] = "SaveUser" /\ p \in InFlight /\ req[p] \in Request /\ Custody(p)
  BY <1>4 DEF RegisterSaveUser, UpdateSaveUser, DeactivateSaveUser, At, InFlight, Sound, CustodyOK, Custody
<1>6. ~RegisterSaveUser(p)
  <2> SUFFICES ASSUME RegisterSaveUser(p)
               PROVE  FALSE
    OBVIOUS
  <2>1. users[p] = NoUser /\ p # id
    BY <1>5 DEF RegisterSaveUser, At, Custody
  <2> QED
    BY <2>1 DEF RegisterSaveUser, SaveUser, Put, Refuse, Sound, TypeOK
<1>7. req[p].op \in {"update", "deactivate"}
  BY <1>4, <1>6 DEF UpdateSaveUser, DeactivateSaveUser, At
<1>8. req[p].id = id
  <2>1. req[p].id \in Ids
    BY <1>5, <1>7, RequestFields
  <2> QED
    BY <1>4, <1>6, <2>1 DEF UpdateSaveUser, DeactivateSaveUser, SaveUser, Put, Refuse, Sound, TypeOK
<1> QED
  BY <1>5, <1>7, <1>8

\* Only the owner of an account, or someone who is an administrator in the store
\* when the write happens, changes it (RequireOwner looks at the token alone).
THEOREM ChangedByRightAlways == Spec => ChangedByRight
<1> DEFINE ByRight == \A id \in Ids : users[id] # NoUser /\ users'[id] # users[id] =>
               \E p \in InFlight : /\ req[p].op \in {"update", "deactivate"}
                                   /\ req[p].id = id
                                   /\ \/ req[p].token.sub = id
                                      \/ users[req[p].token.sub].role = "admin"
<1>1. ASSUME Sound, [Next]_vars PROVE ByRight
  <2> SUFFICES ASSUME NEW id \in Ids, users[id] # NoUser, users'[id] # users[id]
               PROVE  \E p \in InFlight : /\ req[p].op \in {"update", "deactivate"}
                                          /\ req[p].id = id
                                          /\ \/ req[p].token.sub = id
                                             \/ users[req[p].token.sub].role = "admin"
    OBVIOUS
  <2>1. PICK p \in InFlight : req[p] \in Request /\ req[p].op \in {"update", "deactivate"} /\ req[p].id = id
    BY <1>1, WhoWrites
  <2>2. req[p].token \in tokens /\ MayActOn(req[p].token, id)
    BY <1>1, <2>1, RequestAssumption DEF Sound, TokensOK, InFlight
  <2>3. users[req[p].token.sub].role = req[p].token.scope
    BY <1>1, <2>2 DEF Sound, ScopeIsRole
  <2> QED
    BY <2>1, <2>2, <2>3 DEF MayActOn
<1>2. Sound /\ [Next]_vars => [ByRight]_vars
  BY <1>1
<1> QED
  BY <1>2, Soundness, PTL DEF Spec, ChangedByRight

-----------------------------------------------------------------------------
(* The administrator *)

AdminThere == Accounts(AdminEmail) # {}

\* What makes AdminReady inductive: no request is served either before the
\* administrator is there, so the email is taken when a registration looks.
AdminFirst ==
    AdminStarts = Starts =>
        /\ \A id \in Accounts(AdminEmail) : users[id].role = "admin"
        /\ \A n \in Starts : boot[n] = "serving" => AdminThere
        /\ InFlight # {} => AdminThere

\* An account that appears is a registration of an email that was free, or the
\* administrator.
LEMMA WhoCreates ==
    ASSUME Sound, [Next]_vars, NEW id \in Ids, users[id] = NoUser, users'[id] # NoUser
    PROVE  \/ InFlight # {} /\ Accounts(users'[id].email) = {}
           \/ users'[id].role = "admin"
<1>1. \A p \in Requests : ~Accept(p) /\ ~RegisterGetUserByEmail(p) /\ ~LoginGetUserByEmail(p)
                          /\ ~UpdateGetUser(p) /\ ~DeactivateGetUser(p) /\ ~StoreError(p)
  BY DEF Accept, RegisterGetUserByEmail, LoginGetUserByEmail, UpdateGetUser, DeactivateGetUser, StoreError,
         Refuse, Hold
<1>2. \A n \in Starts : ~Start(n) /\ ~AdminGetUserByEmail(n) /\ ~BootError(n) /\ ~Stop(n)
  BY DEF Start, AdminGetUserByEmail, BootError, Stop
<1>3. CASE \E n \in Starts : AdminSaveUser(n)
  <2>1. PICK n \in Starts : AdminSaveUser(n)
    BY <1>3
  <2>2. Put(n, NewUser(AdminEmail, AdminPassword, AdminInfo, "admin"))
    BY <2>1 DEF AdminSaveUser
  <2>3. users'[id] = NewUser(AdminEmail, AdminPassword, AdminInfo, "admin")
    BY <2>2 DEF Put, Sound, TypeOK
  <2> QED
    BY <2>3 DEF NewUser
<1>4. CASE \E p \in Requests : RegisterSaveUser(p) \/ UpdateSaveUser(p) \/ DeactivateSaveUser(p)
  <2>1. PICK p \in Requests : RegisterSaveUser(p) \/ UpdateSaveUser(p) \/ DeactivateSaveUser(p)
    BY <1>4
  <2>2. pc[p] = "SaveUser" /\ p \in InFlight /\ ~Conflicts(Target(p), held[p].email) /\ Put(Target(p), held[p])
    BY <2>1 DEF RegisterSaveUser, UpdateSaveUser, DeactivateSaveUser, At, Target, SaveUser, Refuse, InFlight
  <2>3. id = Target(p) /\ users'[id] = held[p]
    BY <2>2 DEF Put, Sound, TypeOK
  <2> QED
    BY <2>2, <2>3 DEF Conflicts, Accounts
<1> QED
  BY <1>1, <1>2, <1>3, <1>4 DEF Next, Serve, Admin, vars

\* No step takes the administrator's email from it, or serves before it is there.
LEMMA AdminFirstStep ==
    ASSUME Sound, AdminFirst, [Next]_vars
    PROVE  AdminFirst'
<1> SUFFICES ASSUME AdminStarts = Starts
             PROVE  /\ \A id \in Accounts(AdminEmail)' : users'[id].role = "admin"
                    /\ \A n \in Starts : boot'[n] = "serving" => AdminThere'
                    /\ InFlight' # {} => AdminThere'
  BY DEF AdminFirst
<1>1. \A i \in Ids : users[i] # NoUser => users'[i] \in User /\ SameIdentity(users'[i], users[i])
  BY SoundStep
<1>2. AdminThere => AdminThere'
  BY <1>1, SentinelAssumption DEF AdminThere, Accounts, SameIdentity
<1>3. ASSUME NEW id \in Ids, users'[id] # NoUser, users'[id].email = AdminEmail
      PROVE  users'[id].role = "admin"
  <2>1. CASE users[id] # NoUser
    BY <1>1, <1>3, <2>1 DEF AdminFirst, Accounts, SameIdentity
  <2>2. CASE users[id] = NoUser
    BY <1>3, <2>2, WhoCreates DEF AdminFirst, AdminThere
  <2> QED
    BY <2>1, <2>2
<1>4. ASSUME NEW n \in Starts, boot'[n] = "serving", boot[n] # "serving"
      PROVE  AdminThere'
  <2>1. \A p \in Requests : ~Accept(p) /\ ~Serve(p)
    BY <1>4 DEF Accept, Serve, RegisterGetUserByEmail, RegisterSaveUser, LoginGetUserByEmail, UpdateGetUser,
                UpdateSaveUser, DeactivateGetUser, DeactivateSaveUser, StoreError, SaveUser, Refuse, Hold, Return
  <2>2. PICK m \in Starts : Start(m) \/ Admin(m) \/ Stop(m)
    BY <1>4, <2>1 DEF Next, vars
  <2>3. CASE Start(m) \/ BootError(m) \/ Stop(m)
    BY <1>4, <2>3 DEF Start, FirstStep, BootError, Stop, Boot, Sound, TypeOK
  <2>4. CASE AdminGetUserByEmail(m)
    <3>1. AdminThere
      BY <1>4, <2>4 DEF AdminGetUserByEmail, Boot, AfterLookup, AdminThere, Sound, TypeOK
    <3> QED
      BY <1>2, <3>1
  <2>5. CASE AdminSaveUser(m)
    <3> DEFINE admin == NewUser(AdminEmail, AdminPassword, AdminInfo, "admin")
    <3>1. Put(m, admin)
      BY <1>4, <2>5 DEF AdminSaveUser, Boot, Sound, TypeOK
    <3>2. users'[m] = admin /\ m \in Ids
      BY <3>1 DEF Put, Sound, TypeOK, Ids
    <3>3. admin \in User /\ admin.email = AdminEmail
      BY AdminAssumption, NewUserTyped DEF Roles, NewUser
    <3> QED
      BY <3>2, <3>3, SentinelAssumption DEF AdminThere, Accounts
  <2> QED
    BY <2>2, <2>3, <2>4, <2>5 DEF Admin
<1>5. ASSUME InFlight = {}, InFlight' # {}
      PROVE  AdminThere'
  <2>1. PICK q \in Requests : pc[q] \in {"idle", "done"} /\ pc'[q] \notin {"idle", "done"}
    BY <1>5 DEF InFlight
  <2>2. PICK p \in Requests : Accept(p)
    BY <1>5, <2>1 DEF Next, Serve, RegisterGetUserByEmail, RegisterSaveUser, LoginGetUserByEmail, UpdateGetUser,
                UpdateSaveUser, DeactivateGetUser, DeactivateSaveUser, StoreError, At, InFlight,
                Start, Admin, AdminGetUserByEmail, AdminSaveUser, BootError, Stop, Boot, vars
  <2>3. \E n \in Starts : boot[n] = "serving"
    BY <2>2 DEF Accept
  <2> QED
    BY <1>2, <2>3 DEF AdminFirst
<1> QED
  BY <1>2, <1>3, <1>4, <1>5 DEF AdminFirst, Accounts

\* Whoever is served finds the administrator in the store, however many
\* instances start, race and stop (App.Start runs createDefaultAdmin first).
THEOREM AdminReadyAlways == Spec => []AdminReady
<1>1. Init => AdminFirst
  BY PopulationAssumption DEF Init, AdminFirst, Accounts, InFlight
<1>2. Sound /\ AdminFirst /\ [Next]_vars => AdminFirst'
  BY AdminFirstStep
<1>3. AdminFirst => AdminReady
  BY DEF AdminFirst, AdminReady, AdminThere
<1> QED
  BY <1>1, <1>2, <1>3, Soundness, PTL DEF Spec
-----------------------------------------------------------------------------
(* Registrations *)

\* Nobody has been answered whose handler is still at work.
Unanswered == \A p \in Requests : pc[p] # "done" => resp[p] = 0

\* A handler is answered when it is through.
LEMMA UnansweredStep ==
    ASSUME Sound, Unanswered, [Next]_vars
    PROVE  Unanswered'
<1> USE DEF Unanswered
<1>1. TypeOK
  BY DEF Sound
<1>2. CASE UNCHANGED vars
  BY <1>2 DEF vars, local
<1>3. ASSUME NEW p \in Requests, Accept(p) PROVE Unanswered'
  BY <1>1, <1>3 DEF Accept, TypeOK
<1>4. ASSUME NEW p \in Requests, Serve(p) PROVE Unanswered'
  BY <1>1, <1>4 DEF Serve, RegisterGetUserByEmail, RegisterSaveUser, LoginGetUserByEmail, UpdateGetUser,
                UpdateSaveUser, DeactivateGetUser, DeactivateSaveUser, StoreError, SaveUser, Refuse, Hold, Return,
                At, InFlight, TypeOK
<1>5. ASSUME NEW n \in Starts, Start(n) \/ Admin(n) PROVE Unanswered'
  BY <1>5 DEF Start, Admin, AdminGetUserByEmail, AdminSaveUser, BootError, Boot, local
<1>6. ASSUME NEW n \in Starts, Stop(n) PROVE Unanswered'
  BY <1>1, <1>6 DEF Stop, TypeOK
<1> QED
  BY <1>2, <1>3, <1>4, <1>5, <1>6 DEF Next

\* The account of a registration that was answered with 201.
Stands(p) == users[p] # NoUser /\ users[p].email = req[p].email /\ users[p].password = req[p].password

\* A step that answers a registration with 201 has created the account.
LEMMA RegistrationStands ==
    ASSUME Sound, Unanswered, [Next]_vars, NEW p \in Requests, Answered(p, "register", 201)'
    PROVE  \/ Answered(p, "register", 201) /\ req'[p] = req[p]
           \/ Stands(p)'
<1>1. TypeOK /\ Custody(p) /\ p \in Ids
  BY DEF Sound, CustodyOK, Ids
<1>2. CASE resp'[p] = resp[p]
  <2>1. pc[p] = "done"
    BY <1>2 DEF Unanswered, Answered
  <2>2. req'[p] = req[p]
    BY <1>1, <2>1 DEF Next, vars, local, Accept, TypeOK, Serve, RegisterGetUserByEmail, RegisterSaveUser,
       LoginGetUserByEmail, UpdateGetUser, UpdateSaveUser, DeactivateGetUser, DeactivateSaveUser, StoreError, SaveUser,
       Refuse, Hold, Return, Start, Admin, AdminGetUserByEmail, AdminSaveUser, BootError, Boot, Stop
  <2> QED
    BY <1>2, <2>2 DEF Answered
<1>3. CASE resp'[p] # resp[p]
  <2>1. RegisterSaveUser(p)
    <3>1. \A q \in Requests : ~Accept(q)
      BY <1>3 DEF Accept
    <3>2. \A n \in Starts : ~Start(n) /\ ~Admin(n) /\ ~Stop(n)
      BY <1>3 DEF Start, Admin, AdminGetUserByEmail, AdminSaveUser, BootError, Boot, Stop, local
    <3>3. PICK q \in Requests : Serve(q)
      BY <1>3, <3>1, <3>2 DEF Next, vars, local
    <3>4. q = p
      BY <1>1, <1>3, <3>3 DEF Serve, RegisterGetUserByEmail, RegisterSaveUser, LoginGetUserByEmail, UpdateGetUser,
         UpdateSaveUser, DeactivateGetUser, DeactivateSaveUser, StoreError, SaveUser, Refuse, Hold, Return, TypeOK
    <3>5. req'[p] = req[p] /\ resp'[p] = 201
      BY <3>3 DEF Answered, Serve, RegisterGetUserByEmail, RegisterSaveUser, LoginGetUserByEmail, UpdateGetUser,
         UpdateSaveUser, DeactivateGetUser, DeactivateSaveUser, StoreError, SaveUser, Refuse, Hold, Return
    <3>6. req[p].op = "register"
      BY <3>5 DEF Answered
    <3>7. ~RegisterGetUserByEmail(p) /\ ~StoreError(p)
      BY <1>1, <1>3, <3>5 DEF RegisterGetUserByEmail, StoreError, Refuse, Hold, Return, TypeOK
    <3>8. ~LoginGetUserByEmail(p) /\ ~UpdateGetUser(p) /\ ~UpdateSaveUser(p)
          /\ ~DeactivateGetUser(p) /\ ~DeactivateSaveUser(p)
      BY <3>6 DEF LoginGetUserByEmail, UpdateGetUser, UpdateSaveUser, DeactivateGetUser, DeactivateSaveUser, At
    <3> QED
      BY <3>3, <3>4, <3>7, <3>8 DEF Serve
  <2>2. At(p, "register", "SaveUser") /\ held[p] = Registered(req[p]) /\ req[p] \in Request
    BY <1>1, <2>1 DEF RegisterSaveUser, Custody, At
  <2>3. Put(p, held[p]) /\ req' = req
    BY <1>1, <2>1 DEF RegisterSaveUser, SaveUser, Refuse, Return, Answered, TypeOK
  <2>4. users'[p] = Registered(req[p])
    BY <1>1, <2>2, <2>3 DEF Put, TypeOK
  <2>5. Registered(req[p]) \in User
    BY <2>2, RequestFields, NewUserTyped DEF At, Registered, Roles
  <2>6. Registered(req[p]).email = req[p].email /\ Registered(req[p]).password = req[p].password
    BY DEF Registered, NewUser
  <2> QED
    BY <2>3, <2>4, <2>5, <2>6, SentinelAssumption DEF Stands
<1> QED
  BY <1>2, <1>3

\* Who was told 201 by POST /users has an account, with the email and password
\* asked for, whatever copies are written back later and whatever instance stops.
THEOREM RegistrationKeptAlways == Spec => []RegistrationKept
<1>1. Init => Unanswered /\ RegistrationKept
  BY DEF Init, Unanswered, RegistrationKept, Answered
<1>2. Sound /\ Unanswered /\ [Next]_vars => Unanswered'
  BY UnansweredStep
<1>3. Sound /\ Unanswered /\ RegistrationKept /\ [Next]_vars => RegistrationKept'
  <2> SUFFICES ASSUME Sound, Unanswered, RegistrationKept, [Next]_vars,
                      NEW p \in Requests, Answered(p, "register", 201)'
               PROVE  Stands(p)'
    BY DEF RegistrationKept, Stands
  <2>1. CASE Answered(p, "register", 201) /\ req'[p] = req[p]
    <3>1. Stands(p) /\ p \in Ids
      BY <2>1 DEF RegistrationKept, Stands, Ids
    <3>2. users'[p] \in User /\ SameIdentity(users'[p], users[p])
      BY <3>1, SoundStep DEF Stands
    <3> QED
      BY <2>1, <3>1, <3>2, SentinelAssumption DEF Stands, SameIdentity
  <2> QED
    BY <2>1, RegistrationStands
<1> QED
  BY <1>1, <1>2, <1>3, Soundness, PTL DEF Spec
=============================================================================
