------------------------------ MODULE Accounts ------------------------------
(***************************************************************************)
(* The users of a deployment (cmd/easylab/connuser.go): their rows and     *)
(* tokens in the store, the tenant each may have at the agent, and the     *)
(* calls that administer them, every store statement and agent request a   *)
(* step of its own.  A user's own calls on agent sessions (connagent.go)   *)
(* are authenticated first and forwarded with the credential that the row  *)
(* then holds.  A restart ends the calls and bootstraps the operator.      *)
(*                                                                         *)
(* The store and the agent are external: user ids are not given out again, *)
(* and the agent refuses a tenant that it has.  Tokens and tenant secrets  *)
(* are named after the call that minted them.                              *)
(***************************************************************************)
EXTENDS Integers

CONSTANTS
    Calls,        \* the calls that are made
    Names,        \* user names
    Operator,     \* EASYLAB_BOOTSTRAP_USER
    Default,      \* EASYLAB_AGENT_TENANT
    Chart,        \* the chart's fixed tokens: EASYLAB_BOOTSTRAP_TOKEN, EASYLAB_AGENT_TOKEN
    Early,        \* a token and a secret minted before
    Nobody,       \* no name, no tenant, no secret
    MaxUsers,     \* bound: user ids
    MaxFails,     \* bound: requests that fail
    MaxRestarts   \* bound: restarts of the server

ASSUME AccountsAssumption ==
    /\ Operator \in Names /\ Default \notin Names
    /\ Chart # Early /\ {Chart, Early} \cap Calls = {}
    /\ Nobody \notin Calls \cup Names \cup {Default, Chart, Early}
    /\ MaxUsers >= 2 /\ {MaxUsers, MaxFails, MaxRestarts} \subseteq Nat

VARIABLES
    users,    \* the rows of the store, by id
    given,    \* the ids given out
    tokens,   \* whose token a credential is; 0: not a token
    agent,    \* the agent's tenants
    call,     \* where each call is, and its locals
    latest,   \* history: the call that began last, with no other under way
    doomed,   \* history: users whose tenant a deletion has removed
    crossed,  \* history: which calls have overlapped: changes, deletions of one user
    admin,    \* agentAdmin() # nil: the agent's admin service is configured
    left      \* what is left of the bounds

vars == <<users, given, tokens, agent, call, latest, doomed, crossed, admin, left>>

Ids     == 1..MaxUsers
Creds   == Calls \cup {Chart, Early}
Tenants == Names \cup {Default}
Admin   == {"create", "provision", "disable", "enable", "delete", "mint", "revoke"}

NoUser   == [name |-> Nobody, disabled |-> FALSE, tenant |-> Nobody, secret |-> Nobody]
NoTenant == [disabled |-> FALSE, secret |-> Nobody]
NoCall   == [op |-> "none", pc |-> "new", id |-> 0, name |-> Nobody, cred |-> Nobody, sure |-> TRUE]

Known(id)   == id \in Ids /\ users[id] # NoUser
Named(name) == {id \in Ids : users[id].name = name}
On(t)       == agent[t] # NoTenant

At(c, pc)   == call[c].pc = pc
Goto(c, pc) == call' = [call EXCEPT ![c].pc = pc]
Open(c)     == call[c].pc \notin {"new", "ok", "failed"}
Spend(k)    == left[k] > 0 /\ left' = [left EXCEPT ![k] = @ - 1]

-----------------------------------------------------------------------------
\* authenticateCredential; the artifact registry and the REST surface look a
\* credential up in the same way.  0: nobody.
Holder(cred)        == tokens[cred]
Authenticated(cred) == LET id == Holder(cred) IN IF Known(id) /\ ~users[id].disabled THEN id ELSE 0

\* applyLoopbackOverride, loopbackOwner: an embedded extension names the owner
\* it acts for, by user name or by agent tenant.
ActsFor(id, owner) ==
    LET named == {u \in Named(owner) : ~users[u].disabled}
        bound == {u \in Ids : users[u].tenant = owner /\ ~users[u].disabled}
    IN  CASE owner = Nobody -> {id}
          [] owner # Nobody /\ named # {} -> named
          [] owner # Nobody /\ named = {} /\ bound # {} -> bound
          [] OTHER -> {id}

\* agentTokenForUser, if AgentBinding answers: without a binding, the
\* deployment's token.
ForwardSecret(id) == IF Known(id) /\ users[id].secret # Nobody THEN users[id].secret ELSE Chart
Reached(secret)   == {t \in Tenants : On(t) /\ agent[t].secret = secret /\ ~agent[t].disabled}

-----------------------------------------------------------------------------
Begins(c, op, pc, id, name, cred) ==
    /\ At(c, "new")
    /\ call' = [call EXCEPT ![c] = [op |-> op, pc |-> pc, id |-> id, name |-> name, cred |-> cred, sure |-> TRUE]]
    /\ LET alone == \A d \in Calls : ~Open(d)
       IN  /\ latest' = IF alone THEN c ELSE Nobody
           /\ crossed' = crossed \cup (IF op # "ask" /\ ~alone THEN {"changes"} ELSE {})
                                 \cup {call[d].op : d \in {e \in Calls : Open(e) /\ op = "delete"
                                                            /\ call[e].op = op /\ call[e].id = id}}
    /\ UNCHANGED <<users, given, tokens, agent, doomed, left, admin>>

\* CreateUser, with or without an agent tenant.
Create(c) ==
    \E op \in {"create"} \cup {p \in {"provision"} : admin}, name \in Names :
      Begins(c, op, "row", 0, name, Nobody)

NewUser(name) == [name |-> name, disabled |-> FALSE, tenant |-> Nobody, secret |-> Nobody]
AddUser(c) ==
    /\ At(c, "row") /\ call[c].op \in {"create", "provision"}
    /\ IF Named(call[c].name) = {} /\ given < MaxUsers
       THEN /\ given' = given + 1
            /\ users' = [users EXCEPT ![given'] = NewUser(call[c].name)]
            /\ call' = [call EXCEPT ![c].pc = "token", ![c].id = given']
       ELSE Goto(c, "failed") /\ UNCHANGED <<users, given>>
    /\ UNCHANGED <<tokens, agent, latest, doomed, crossed, left, admin>>

\* A token for a user who is gone is refused, or never authenticates.
AddToken(c) ==
    /\ At(c, "token")
    /\ \/ /\ tokens' = [tokens EXCEPT ![c] = call[c].id]
          /\ Goto(c, IF call[c].op = "provision" THEN "tenant" ELSE "ok")
       \/ /\ ~Known(call[c].id)
          /\ Goto(c, "failed") /\ UNCHANGED tokens
    /\ UNCHANGED <<users, given, agent, latest, doomed, crossed, left, admin>>

CreateTenant(c) ==
    /\ At(c, "tenant")
    /\ IF On(call[c].name)
       THEN Goto(c, "failed") /\ UNCHANGED <<agent, left>>
       ELSE /\ agent' = [agent EXCEPT ![call[c].name] = [disabled |-> FALSE, secret |-> c]]
            /\ \/ Goto(c, "bind") /\ UNCHANGED left
               \/ Goto(c, "failed") /\ Spend("fails")
    /\ UNCHANGED <<users, given, tokens, latest, doomed, crossed, admin>>

\* SetAgentBinding
BoundLater(user, c) == [user EXCEPT !.tenant = call[c].name]
Bound(user, c)      == [user EXCEPT !.tenant = call[c].name, !.secret = c]
Bind(c) ==
    /\ At(c, "bind")
    /\ LET id == call[c].id IN
         \/ Known(id) /\ users' = [users EXCEPT ![id] = Bound(@, c)] /\ Goto(c, "ok")
         \/ ~Known(id) /\ UNCHANGED users /\ \E pc \in {"ok", "failed"} : Goto(c, pc)
    /\ UNCHANGED <<given, tokens, agent, latest, doomed, crossed, left, admin>>

-----------------------------------------------------------------------------
\* UpdateUser: only disabling is passed on to the agent, and as best it can.
Update(c) == \E op \in {"disable", "enable"}, id \in Ids : Begins(c, op, "row", id, Nobody, Nobody)

UpdateRow(c) ==
    /\ At(c, "row") /\ call[c].op \in {"disable", "enable"}
    /\ IF Known(call[c].id)
       THEN /\ users' = [users EXCEPT ![call[c].id].disabled = (call[c].op = "disable")]
            /\ Goto(c, IF call[c].op = "disable" /\ admin THEN "read" ELSE "ok")
       ELSE Goto(c, "failed") /\ UNCHANGED users
    /\ UNCHANGED <<given, tokens, agent, latest, doomed, crossed, left, admin>>

\* DeleteUser: the tenant first, then the row.
Delete(c) == \E id \in Ids : Begins(c, "delete", "read", id, Nobody, Nobody)

RowOnly(c)     == IF call[c].op = "disable" THEN "ok" ELSE "drop"
AfterRead(c)   == IF admin /\ Known(call[c].id) /\ users[call[c].id].tenant # Nobody THEN "agent" ELSE RowOnly(c)
ReadBinding(c) ==
    /\ At(c, "read")
    /\ call' = [call EXCEPT ![c].pc = AfterRead(c),
                            ![c].name = IF Known(call[c].id) THEN users[call[c].id].tenant ELSE Nobody]
    /\ UNCHANGED <<users, given, tokens, agent, latest, doomed, crossed, left, admin>>

\* AgentBinding fails: the call goes on as if there were no binding.
MissBinding(c) ==
    /\ At(c, "read")
    /\ Spend("fails")
    /\ call' = [call EXCEPT ![c].pc = RowOnly(c), ![c].sure = FALSE]
    /\ UNCHANGED <<users, given, tokens, agent, latest, doomed, crossed, admin>>

UpdateTenant(c) ==
    /\ At(c, "agent") /\ call[c].op = "disable"
    /\ \/ /\ agent' = IF On(call[c].name) THEN [agent EXCEPT ![call[c].name].disabled = TRUE] ELSE agent
          /\ Goto(c, "ok") /\ UNCHANGED left
       \/ Spend("fails") /\ call' = [call EXCEPT ![c].pc = "ok", ![c].sure = FALSE] /\ UNCHANGED agent
    /\ UNCHANGED <<users, given, tokens, latest, doomed, crossed, admin>>

\* The agent may or may not refuse to delete a tenant that it does not have.
DeleteTenant(c) ==
    /\ At(c, "agent") /\ call[c].op = "delete"
    /\ agent' = [agent EXCEPT ![call[c].name] = NoTenant]
    /\ doomed' = doomed \cup {call[c].id}
    /\ \/ Goto(c, "drop") /\ UNCHANGED left
       \/ ~On(call[c].name) /\ Goto(c, "failed") /\ UNCHANGED left
       \/ Spend("fails") /\ Goto(c, "failed")
    /\ UNCHANGED <<users, given, tokens, latest, crossed, admin>>

\* The user's tokens are of no use any more, whether they go or not.
DropUser(c) ==
    /\ At(c, "drop")
    /\ IF Known(call[c].id)
       THEN /\ users' = [users EXCEPT ![call[c].id] = NoUser]
            /\ tokens' \in {tokens, [cred \in Creds |-> IF tokens[cred] = call[c].id THEN 0 ELSE tokens[cred]]}
            /\ Goto(c, "ok")
       ELSE Goto(c, "failed") /\ UNCHANGED <<users, tokens>>
    /\ UNCHANGED <<given, agent, latest, doomed, crossed, left, admin>>

-----------------------------------------------------------------------------
\* CreateUserToken and DeleteUserToken are one statement each.
Mint(c)   == \E id \in Ids : id <= given /\ Begins(c, "mint", "token", id, Nobody, Nobody)
Revoke(c) == \E cred \in Creds : Begins(c, "revoke", "revoke", 0, Nobody, cred)

DropToken(c) ==
    /\ At(c, "revoke")
    /\ tokens' = [tokens EXCEPT ![call[c].cred] = 0]
    /\ Goto(c, "ok")
    /\ UNCHANGED <<users, given, agent, latest, doomed, crossed, left, admin>>

\* A session call through the gateway: authenticated by the interceptor, then
\* sent on with the secret that agentUserBearer finds, to where it is known.
Ask(c) ==
    \E cred \in Creds, owner \in Tenants \cup {Nobody} :
      /\ Authenticated(cred) # 0
      /\ \E id \in ActsFor(Authenticated(cred), owner) : Begins(c, "ask", "send", id, Nobody, cred)

Send(c) ==
    /\ At(c, "send")
    /\ LET to == Reached(ForwardSecret(call[c].id)) IN
         \/ \E t \in to : call' = [call EXCEPT ![c].pc = "ok", ![c].name = t]
         \/ to = {} /\ Goto(c, "failed")
    /\ UNCHANGED <<users, given, tokens, agent, latest, doomed, crossed, left, admin>>

\* AgentBinding fails: agentTokenForUser answers with the deployment's token.
SendUnbound(c) ==
    /\ At(c, "send")
    /\ Spend("fails")
    /\ \E t \in Reached(Chart) :
         call' = [call EXCEPT ![c].pc = "ok", ![c].name = t, ![c].sure = FALSE]
    /\ UNCHANGED <<users, given, tokens, agent, latest, doomed, crossed, admin>>

-----------------------------------------------------------------------------
\* A statement or a request that ends its call fails before it has any effect.
Fail(c) ==
    /\ Open(c) /\ ~At(c, "read") /\ ~(At(c, "agent") /\ call[c].op = "disable")
    /\ Spend("fails")
    /\ Goto(c, "failed")
    /\ UNCHANGED <<users, given, tokens, agent, latest, doomed, crossed, admin>>

\* The server starts again: bootstrapOperator, then bootstrapAgentBinding.
Bootstrapped ==
    LET there == Named(Operator)
        id    == IF there = {} THEN given + 1 ELSE CHOOSE u \in there : TRUE
        row   == IF there = {} THEN NewUser(Operator) ELSE users[id]
        rows  == [users EXCEPT ![id] = IF row.tenant = Default THEN row
                                       ELSE [row EXCEPT !.tenant = Default, !.secret = Chart]]
    IN  /\ there # {} \/ given < MaxUsers
        /\ users' = rows
        /\ given' = IF there = {} THEN id ELSE given
        /\ tokens' = IF tokens[Chart] # 0 THEN tokens ELSE [tokens EXCEPT ![Chart] = id]

Restart ==
    /\ Spend("restarts")
    /\ Bootstrapped
    /\ call' = [c \in Calls |-> IF Open(c) THEN [call[c] EXCEPT !.pc = "failed"] ELSE call[c]]
    /\ latest' = Nobody
    /\ UNCHANGED <<agent, doomed, crossed, admin>>

\* A deployment after its first start, perhaps with another user.
Init ==
    \E other \in (Names \ {Operator}) \cup {Nobody} :
      /\ users = [id \in Ids |->
                    CASE id = 1 -> [NewUser(Operator) EXCEPT !.tenant = Default, !.secret = Chart]
                      [] id = 2 /\ other # Nobody ->
                           [NewUser(other) EXCEPT !.tenant = other, !.secret = Early]
                      [] OTHER -> NoUser]
      /\ given = IF other = Nobody THEN 1 ELSE 2
      /\ tokens = [cred \in Creds |-> CASE cred = Chart -> 1
                                        [] cred = Early /\ other # Nobody -> 2
                                        [] OTHER -> 0]
      /\ agent = [t \in Tenants |-> CASE t = Default -> [disabled |-> FALSE, secret |-> Chart]
                                      [] t = other -> [disabled |-> FALSE, secret |-> Early]
                                      [] OTHER -> NoTenant]
    /\ call = [c \in Calls |-> NoCall]
    /\ latest = Nobody /\ doomed = {} /\ crossed = {} /\ admin \in BOOLEAN
    /\ left = [fails |-> MaxFails, restarts |-> MaxRestarts]

UserStep(c) ==
    \/ Create(c) \/ AddUser(c) \/ AddToken(c) \/ CreateTenant(c) \/ Bind(c)
    \/ Update(c) \/ UpdateRow(c) \/ Delete(c) \/ ReadBinding(c) \/ MissBinding(c)
    \/ UpdateTenant(c) \/ DeleteTenant(c) \/ DropUser(c) \/ Mint(c) \/ Revoke(c)
    \/ DropToken(c) \/ Ask(c) \/ Send(c) \/ SendUnbound(c) \/ Fail(c)

Next == (\E c \in Calls : UserStep(c)) \/ Restart
Spec == Init /\ [][Next]_vars

-----------------------------------------------------------------------------
TypeOK ==
    /\ users \in [Ids -> [name : Names \cup {Nobody}, disabled : BOOLEAN,
                          tenant : Tenants \cup {Nobody}, secret : Creds \cup {Nobody}]]
    /\ \A id \in Ids : /\ Known(id) => id <= given /\ users[id].name \in Names
                       /\ (users[id].tenant = Nobody) <=> (users[id].secret = Nobody)
    /\ given \in 0..MaxUsers
    /\ tokens \in [Creds -> 0..given]
    /\ agent \in [Tenants -> [disabled : BOOLEAN, secret : Creds \cup {Nobody}]]
    /\ call \in [Calls -> [op : Admin \cup {"ask", "none"},
                           pc : {"new", "row", "token", "tenant", "bind", "read", "agent", "drop",
                                 "revoke", "send", "ok", "failed"},
                           id : 0..MaxUsers, name : Tenants \cup {Nobody},
                           cred : Creds \cup {Nobody}, sure : BOOLEAN]]
    /\ latest \in Calls \cup {Nobody} /\ doomed \subseteq Ids /\ crossed \subseteq {"changes", "delete"}
    /\ admin \in BOOLEAN
    /\ left \in [{"fails", "restarts"} -> Nat]

(* A user's row and the agent agree: the tenant made for a user is there    *)
(* and knows the user's secret, whatever calls failed and the server        *)
(* restarted, until a deletion removes it; and as long as no change overlaps *)
(* another, fails or is cut short by a restart, and the agent's admin       *)
(* service is configured, the agent has no tenant that is nobody's.  Two    *)
(* deletions of one user that overlap may remove the tenant of the user who *)
(* was created again under the name meanwhile.                              *)
BindingsHold ==
    /\ "delete" \notin crossed =>
         \A id \in Ids \ doomed : LET u == users[id] IN
           u.tenant \in Names => On(u.tenant) /\ agent[u.tenant].secret = u.secret
    /\ admin /\ "changes" \notin crossed /\ left = [fails |-> MaxFails, restarts |-> MaxRestarts] =>
         \A t \in Names : On(t) => \/ \E id \in Ids : users[id].tenant = t
                                   \/ \E c \in Calls : At(c, "bind")

(* A call that ran alone, whatever had happened before it, and was answered *)
(* without an error has done what it says on every surface: a new user's    *)
(* token authenticates and is forwarded to the user's own tenant; nobody    *)
(* acts as a disabled or a deleted user, whose tenant is disabled or gone;  *)
(* a session call ran in the tenant of the user who made it ("the gateway   *)
(* presents it on forwarded agent RPCs", user_admin.go:21-22).  What the    *)
(* code swallows is left out: a lookup of the binding that fails (it leaves *)
(* a deleted or disabled user's tenant as it was, connuser.go:105 and 123,  *)
(* and sends a session call to the default tenant, user_admin.go:100), a    *)
(* request to disable the tenant that fails, and an agent without an admin  *)
(* service.                                                                 *)
Done(c) ==
    LET k == call[c] IN
    CASE k.op = "create"    -> Authenticated(c) = k.id /\ users[k.id].name = k.name
      [] k.op = "provision" -> Authenticated(c) = k.id /\ Reached(ForwardSecret(k.id)) = {k.name}
      [] k.op = "mint"      -> Authenticated(c) \in {0, k.id}
      [] k.op = "revoke"    -> Authenticated(k.cred) = 0
      [] k.op = "enable"    -> \A cred \in Creds : tokens[cred] = k.id => Authenticated(cred) = k.id
      [] k.op = "disable"   -> /\ \A cred \in Creds : Authenticated(cred) # k.id
                               /\ k.sure /\ k.name # Nobody /\ On(k.name) => agent[k.name].disabled
      [] k.op = "delete"    -> /\ \A cred \in Creds : Authenticated(cred) # k.id
                               /\ admin /\ k.name # Nobody => ~On(k.name)
      [] OTHER              -> k.sure /\ Known(k.id) => k.name = (IF users[k.id].tenant = Nobody THEN Default
                                                        ELSE users[k.id].tenant)

AnswersHold == latest # Nobody /\ At(latest, "ok") => Done(latest)

(* "The deployment-wide EASYLAB_AGENT_TOKEN as fallback when the user has   *)
(* no binding" (user_admin.go:96-97): the session call of a user with a     *)
(* tenant runs in that tenant.                                              *)
SentAsBound ==
    [][\A c \in Calls : At(c, "send") /\ call'[c].pc = "ok" /\ Known(call[c].id)
           /\ users[call[c].id].tenant # Nobody
         => call'[c].name = users[call[c].id].tenant]_vars
=============================================================================
