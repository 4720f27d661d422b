--------------------------- MODULE AccountsProofs ---------------------------
(***************************************************************************)
(* Type correctness of users, tokens and agent tenants; that a user's row  *)
(* and the agent agree, whatever fails and restarts; and that an answered  *)
(* call has done what it says on every surface; for any numbers of calls,  *)
(* names, users, failures and restarts.                                    *)
(***************************************************************************)
EXTENDS Accounts, TLAPS

UserRec == [name : Names \cup {Nobody}, disabled : BOOLEAN,
            tenant : Tenants \cup {Nobody}, secret : Creds \cup {Nobody}]
HomeRec == [disabled : BOOLEAN, secret : Creds \cup {Nobody}]
PC      == {"new", "row", "token", "tenant", "bind", "read", "agent", "drop",
            "revoke", "send", "ok", "failed"}
Closed  == {"new", "ok", "failed"}
CallRec == [op : Admin \cup {"ask", "none"}, pc : PC, id : 0..MaxUsers,
            name : Tenants \cup {Nobody}, cred : Creds \cup {Nobody}, sure : BOOLEAN]
Full    == [fails |-> MaxFails, restarts |-> MaxRestarts]

(* Where a call can be under way, and what it then knows; n: ids given out. *)
Places == {<<"create", "row">>, <<"create", "token">>,
           <<"provision", "row">>, <<"provision", "token">>,
           <<"provision", "tenant">>, <<"provision", "bind">>,
           <<"enable", "row">>,
           <<"disable", "row">>, <<"disable", "read">>, <<"disable", "agent">>,
           <<"delete", "read">>, <<"delete", "agent">>, <<"delete", "drop">>,
           <<"mint", "token">>, <<"revoke", "revoke">>, <<"ask", "send">>}
Makes(k) == k.op \in {"create", "provision"}
CallOK(k, n) ==
    /\ k.pc \notin Closed => <<k.op, k.pc>> \in Places
    /\ k.op = "none" <=> k.pc = "new"
    /\ Makes(k) => k.name \in Names
    /\ k.op \in {"create", "provision", "mint"} => k.id <= n
    /\ k.op \in {"disable", "enable", "delete"} => k.id \in Ids
    /\ k.op = "revoke" => k.cred \in Creds
    /\ k.pc = "agent" => k.name # Nobody

UserOK(id, u, n) ==
    /\ u # NoUser => id <= n /\ u.name \in Names
    /\ (u.tenant = Nobody) <=> (u.secret = Nobody)

UsersOK == users \in [Ids -> UserRec] /\ \A id \in Ids : UserOK(id, users[id], given)
CallsOK == call \in [Calls -> CallRec] /\ \A c \in Calls : CallOK(call[c], given)
RestOK  == /\ given \in 0..MaxUsers
           /\ tokens \in [Creds -> 0..given]
           /\ agent \in [Tenants -> HomeRec]
           /\ latest \in Calls \cup {Nobody} /\ doomed \subseteq Ids
           /\ crossed \subseteq {"changes", "delete"}
           /\ admin \in BOOLEAN
           /\ left \in [{"fails", "restarts"} -> Nat]
LeftOK  == \A k \in {"fails", "restarts"} : left[k] <= Full[k]

TypeInv == UsersOK /\ CallsOK /\ RestOK /\ LeftOK

LEMMA TypeMeans == TypeInv => TypeOK
<1> SUFFICES ASSUME TypeInv PROVE TypeOK
  OBVIOUS
<1>1. \A id \in Ids : /\ Known(id) => id <= given /\ users[id].name \in Names
                      /\ (users[id].tenant = Nobody) <=> (users[id].secret = Nobody)
  BY DEF TypeInv, UsersOK, UserOK, Known
<1> QED BY <1>1 DEF TypeInv, UsersOK, CallsOK, RestOK, TypeOK, UserRec, CallRec, HomeRec, PC

(* The names that are no name.                                              *)
LEMMA Distinct ==
    /\ Nobody \notin Names /\ Nobody \notin Calls /\ Nobody \notin Tenants /\ Nobody \notin Creds
    /\ Default \notin Names /\ Chart # Early /\ Chart \notin Calls /\ Early \notin Calls
    /\ Operator \in Names /\ Default # Nobody
    /\ MaxUsers \in Nat /\ MaxUsers >= 2 /\ MaxFails \in Nat /\ MaxRestarts \in Nat
    /\ 1 \in Ids /\ 2 \in Ids /\ 0 \notin Ids
BY AccountsAssumption DEF Tenants, Creds, Ids

LEMMA NobodyTyped ==
    /\ NoUser \in UserRec /\ NoTenant \in HomeRec /\ NoCall \in CallRec
    /\ NoUser.name = Nobody /\ NoUser.tenant = Nobody /\ NoUser.secret = Nobody
    /\ \A id \in Ids, n \in Nat : UserOK(id, NoUser, n)
    /\ \A n \in Nat : CallOK(NoCall, n)
BY Distinct DEF NoUser, NoTenant, NoCall, UserRec, HomeRec, CallRec, UserOK, CallOK, Makes, Closed, PC, Places

(* A new row.                                                               *)
LEMMA NewUserTyped ==
    ASSUME NEW name \in Names
    PROVE  /\ NewUser(name) \in UserRec
           /\ NewUser(name).name = name /\ NewUser(name).disabled = FALSE
           /\ NewUser(name).tenant = Nobody /\ NewUser(name).secret = Nobody
           /\ NewUser(name) # NoUser
BY Distinct DEF NewUser, UserRec, NoUser

(* A row with another binding.                                              *)
WithBinding(u, t, s) == [u EXCEPT !.tenant = t, !.secret = s]
LEMMA Rebound ==
    ASSUME NEW u \in UserRec, NEW t \in Tenants, NEW s \in Creds
    PROVE  /\ WithBinding(u, t, s) \in UserRec
           /\ WithBinding(u, t, s).name = u.name
           /\ WithBinding(u, t, s).disabled = u.disabled
           /\ WithBinding(u, t, s).tenant = t
           /\ WithBinding(u, t, s).secret = s
           /\ WithBinding(u, t, s) # NoUser
BY Distinct DEF UserRec, NoUser, Tenants, Creds, WithBinding

(* A call that moves on, and one that is replaced.                          *)
LEMMA Moves ==
    ASSUME call \in [Calls -> CallRec], NEW c \in Calls, NEW pc \in PC, Goto(c, pc)
    PROVE  /\ call' \in [Calls -> CallRec]
           /\ \A d \in Calls : d # c => call'[d] = call[d]
           /\ call'[c] = [call[c] EXCEPT !.pc = pc]
           /\ call'[c].pc = pc /\ call'[c].op = call[c].op /\ call'[c].id = call[c].id
           /\ call'[c].name = call[c].name /\ call'[c].cred = call[c].cred
           /\ call'[c].sure = call[c].sure
<1>1. call[c] \in CallRec
  OBVIOUS
<1>2. LET r == [call[c] EXCEPT !.pc = pc] IN
        /\ r \in CallRec /\ r.pc = pc /\ r.op = call[c].op /\ r.id = call[c].id
        /\ r.name = call[c].name /\ r.cred = call[c].cred /\ r.sure = call[c].sure
  BY <1>1 DEF CallRec
<1>3. call' = [call EXCEPT ![c] = [call[c] EXCEPT !.pc = pc]]
  BY DEF Goto
<1> QED BY <1>2, <1>3

(* What a call knows stays true of it with more ids given out.              *)
LEMMA MoreIds ==
    ASSUME NEW k, NEW n \in Nat, NEW m \in Nat, n <= m, CallOK(k, n), k \in CallRec
    PROVE  CallOK(k, m)
BY DEF CallOK, CallRec, Makes

LEMMA CallsTyped ==
    ASSUME CallsOK, RestOK, NEW c \in Calls, given' \in given..MaxUsers,
           call' \in [Calls -> CallRec], \A d \in Calls : d # c => call'[d] = call[d],
           CallOK(call'[c], given')
    PROVE  CallsOK'
<1>1. given \in Nat /\ given' \in Nat /\ given <= given'
  BY Distinct DEF RestOK
<1>2. ASSUME NEW d \in Calls PROVE CallOK(call'[d], given')
  BY <1>1, <1>2, MoreIds DEF CallsOK
<1> QED BY <1>2 DEF CallsOK

(* A call moves on to a place where it can be.                              *)
LEMMA GotoTyped ==
    ASSUME CallsOK, RestOK, NEW c \in Calls, NEW pc \in PC, Goto(c, pc), UNCHANGED given,
           Open(c), pc # "new",
           pc \in Closed \/ <<call[c].op, pc>> \in Places,
           pc = "agent" => call[c].name # Nobody
    PROVE  CallsOK'
<1>1. /\ call' \in [Calls -> CallRec]
      /\ \A d \in Calls : d # c => call'[d] = call[d]
      /\ call'[c].pc = pc /\ call'[c].op = call[c].op /\ call'[c].id = call[c].id
      /\ call'[c].name = call[c].name /\ call'[c].cred = call[c].cred
  BY Moves DEF CallsOK
<1>2. CallOK(call[c], given)
  BY DEF CallsOK
<1>3. CallOK(call'[c], given')
  BY <1>1, <1>2 DEF CallOK, Open, Makes, Closed
<1>4. given' \in given..MaxUsers
  BY Distinct DEF RestOK
<1> QED BY <1>1, <1>3, <1>4, CallsTyped

(* Rows that stay are well typed with more ids given out; so are tokens.    *)
LEMMA Kept ==
    ASSUME TypeInv
    PROVE  /\ UNCHANGED <<users, given>> => UsersOK'
           /\ UNCHANGED <<call, given>> => CallsOK'
           /\ UNCHANGED left => LeftOK'
BY DEF TypeInv, UsersOK, CallsOK, LeftOK

LEMMA SpendTyped ==
    ASSUME TypeInv, NEW k \in {"fails", "restarts"}, Spend(k)
    PROVE  left' \in [{"fails", "restarts"} -> Nat] /\ LeftOK' /\ left' # Full /\ left'[k] < Full[k]
<1>1. left \in [{"fails", "restarts"} -> Nat] /\ left[k] <= Full[k] /\ left[k] > 0
  BY DEF TypeInv, RestOK, LeftOK, Spend
<1>2. left' = [left EXCEPT ![k] = left[k] - 1]
  BY DEF Spend
<1>3. Full \in [{"fails", "restarts"} -> Nat]
  BY Distinct DEF Full
<1>4. left'[k] = left[k] - 1 /\ \A j \in {"fails", "restarts"} : j # k => left'[j] = left[j]
  BY <1>1, <1>2
<1>5. left' \in [{"fails", "restarts"} -> Nat]
  BY <1>1, <1>2
<1>6. LeftOK'
  BY <1>1, <1>3, <1>4 DEF TypeInv, LeftOK, Full
<1>7. left'[k] < Full[k]
  BY <1>1, <1>3, <1>4
<1> QED BY <1>3, <1>5, <1>6, <1>7

-----------------------------------------------------------------------------
LEMMA InitTyped == Init => TypeInv
<1> SUFFICES ASSUME Init PROVE TypeInv
  OBVIOUS
<1>1. PICK other \in (Names \ {Operator}) \cup {Nobody} :
      /\ users = [id \in Ids |->
                    CASE id = 1 -> [NewUser(Operator) EXCEPT !.tenant = Default, !.secret = Chart]
                      [] id = 2 /\ other # Nobody ->
                           [NewUser(other) EXCEPT !.tenant = other, !.secret = Early]
                      [] OTHER -> NoUser]
      /\ given = IF other = Nobody THEN 1 ELSE 2
      /\ tokens = [cred \in Creds |-> CASE cred = Chart -> 1
                                        [] cred = Early /\ other # Nobody -> 2
                                        [] OTHER -> 0]
      /\ agent = [t \in Tenants |-> CASE t = Default -> [disabled |-> FALSE, secret |-> Chart]
                                      [] t = other -> [disabled |-> FALSE, secret |-> Early]
                                      [] OTHER -> NoTenant]
  BY DEF Init
<1>2. Default \in Tenants /\ Chart \in Creds /\ Early \in Creds /\ Names \subseteq Tenants
  BY DEF Tenants, Creds
<1>3. given \in 0..MaxUsers /\ given \in Nat /\ 1 <= given /\ (other # Nobody => given = 2)
  BY <1>1, Distinct
<1>4. UsersOK
  <2> DEFINE first  == [NewUser(Operator) EXCEPT !.tenant = Default, !.secret = Chart]
             second == [NewUser(other) EXCEPT !.tenant = other, !.secret = Early]
  <2>1. first \in UserRec /\ UserOK(1, first, given)
    <3>1. /\ first \in UserRec /\ first.name = Operator /\ first.tenant = Default /\ first.secret = Chart
      <4>1. NewUser(Operator) \in UserRec /\ NewUser(Operator).name = Operator
        BY Distinct, NewUserTyped
      <4> HIDE DEF first
      <4>2. first = WithBinding(NewUser(Operator), Default, Chart)
        BY DEF first, WithBinding
      <4> QED BY <1>2, <4>1, <4>2, Rebound
    <3> QED BY <1>2, <1>3, <3>1, Distinct DEF UserOK
  <2>2. other # Nobody => second \in UserRec /\ UserOK(2, second, given)
    <3> SUFFICES ASSUME other # Nobody PROVE second \in UserRec /\ UserOK(2, second, given)
      OBVIOUS
    <3>1. other \in Names /\ other \in Tenants
      BY <1>1, <1>2
    <3>2. second \in UserRec /\ second.name = other /\ second.tenant = other /\ second.secret = Early
      <4>1. NewUser(other) \in UserRec /\ NewUser(other).name = other
        BY <3>1, NewUserTyped
      <4> HIDE DEF second
      <4>2. second = WithBinding(NewUser(other), other, Early)
        BY DEF second, WithBinding
      <4> QED BY <1>2, <3>1, <4>1, <4>2, Rebound
    <3> QED BY <1>2, <1>3, <3>1, <3>2, Distinct DEF UserOK
  <2> HIDE DEF first, second
  <2>3. \A id \in Ids : users[id] = IF id = 1 THEN first ELSE IF id = 2 /\ other # Nobody THEN second ELSE NoUser
    BY <1>1 DEF first, second
  <2>4. \A id \in Ids : users[id] \in UserRec /\ UserOK(id, users[id], given)
    BY <1>3, <2>1, <2>2, <2>3, NobodyTyped
  <2>5. users \in [Ids -> UserRec]
    <3>1. users = [id \in Ids |-> users[id]]
      BY <1>1
    <3> QED BY <2>4, <3>1
  <2> QED BY <2>4, <2>5 DEF UsersOK
<1>5. CallsOK
  <2>1. call = [c \in Calls |-> NoCall]
    BY DEF Init
  <2> QED BY <1>3, <2>1, NobodyTyped DEF CallsOK
<1>6. tokens \in [Creds -> 0..given]
  BY <1>1, <1>3
<1>7. agent \in [Tenants -> HomeRec]
  BY <1>1, <1>2, NobodyTyped DEF HomeRec
<1>8. /\ latest = Nobody /\ doomed = {} /\ crossed = {} /\ admin \in BOOLEAN /\ left = Full
  BY DEF Init, Full
<1>9. left \in [{"fails", "restarts"} -> Nat] /\ LeftOK
  BY <1>8, Distinct DEF Full, LeftOK
<1>10. RestOK
  BY <1>3, <1>6, <1>7, <1>8, <1>9 DEF RestOK
<1> QED BY <1>4, <1>5, <1>9, <1>10 DEF TypeInv

(* A call that is new begins.                                               *)
LEMMA BeginTyped ==
    ASSUME TypeInv, NEW c \in Calls, NEW op \in Admin \cup {"ask"}, NEW pc, <<op, pc>> \in Places,
           NEW id \in 0..MaxUsers, NEW name \in Tenants \cup {Nobody}, NEW cred \in Creds \cup {Nobody},
           op \in {"create", "provision"} => name \in Names,
           op \in {"create", "provision", "mint"} => id <= given,
           op \in {"disable", "enable", "delete"} => id \in Ids,
           op = "revoke" => cred \in Creds,
           pc # "agent",
           Begins(c, op, pc, id, name, cred)
    PROVE  TypeInv'
<1> DEFINE r == [op |-> op, pc |-> pc, id |-> id, name |-> name, cred |-> cred, sure |-> TRUE]
<1>1. pc \in PC /\ pc \notin Closed
  BY DEF Places, PC, Closed
<1>2. r \in CallRec
  BY <1>1 DEF CallRec
<1>3. CallOK(r, given)
  BY <1>1 DEF CallOK, Makes, Admin, Closed
<1>4. call' = [call EXCEPT ![c] = r] /\ UNCHANGED <<users, given, tokens, agent, doomed, left, admin>>
  BY DEF Begins
<1> HIDE DEF r
<1>5. CallsOK'
  <2>1. call' \in [Calls -> CallRec] /\ call'[c] = r /\ \A d \in Calls : d # c => call'[d] = call[d]
    BY <1>2, <1>4 DEF TypeInv, CallsOK
  <2>2. given' \in given..MaxUsers /\ CallOK(call'[c], given')
    BY <1>3, <1>4, <2>1, Distinct DEF TypeInv, RestOK
  <2> QED BY <2>1, <2>2, CallsTyped DEF TypeInv
<1>6. latest' \in Calls \cup {Nobody}
  BY DEF Begins
<1>7. crossed' \subseteq {"changes", "delete"}
  <2>1. crossed' = crossed \cup (IF op # "ask" /\ ~(\A d \in Calls : ~Open(d)) THEN {"changes"} ELSE {})
                           \cup {call[d].op : d \in {e \in Calls : Open(e) /\ op = "delete"
                                                            /\ call[e].op = op /\ call[e].id = id}}
    BY DEF Begins
  <2>2. {call[d].op : d \in {e \in Calls : Open(e) /\ op = "delete"
                                           /\ call[e].op = op /\ call[e].id = id}} \subseteq {"delete"}
    OBVIOUS
  <2> QED BY <2>1, <2>2 DEF TypeInv, RestOK
<1>8. RestOK'
  BY <1>4, <1>6, <1>7 DEF TypeInv, RestOK
<1> QED BY <1>4, <1>5, <1>8, Kept DEF TypeInv

LEMMA BeginsTyped ==
    ASSUME TypeInv, NEW c \in Calls,
           Create(c) \/ Update(c) \/ Delete(c) \/ Mint(c) \/ Revoke(c) \/ Ask(c)
    PROVE  TypeInv'
<1>0. /\ Ids \subseteq 0..MaxUsers /\ 0 \in 0..MaxUsers /\ Names \subseteq Tenants
      /\ given \in Nat /\ 0 <= given
  BY Distinct DEF Ids, Tenants, TypeInv, RestOK
<1>1. CASE Create(c)
  BY <1>0, <1>1, BeginTyped DEF Create, Admin, Places
<1>2. CASE Update(c)
  BY <1>0, <1>2, BeginTyped DEF Update, Admin, Places
<1>3. CASE Delete(c)
  BY <1>0, <1>3, BeginTyped DEF Delete, Admin, Places
<1>4. CASE Mint(c)
  BY <1>0, <1>4, BeginTyped DEF Mint, Admin, Places
<1>5. CASE Revoke(c)
  BY <1>0, <1>5, BeginTyped DEF Revoke, Admin, Places
<1>6. CASE Ask(c)
  <2>1. PICK cred \in Creds, owner \in Tenants \cup {Nobody} :
          /\ Authenticated(cred) # 0
          /\ \E id \in ActsFor(Authenticated(cred), owner) : Begins(c, "ask", "send", id, Nobody, cred)
    BY <1>6 DEF Ask
  <2>2. Authenticated(cred) \in Ids
    BY <2>1 DEF Authenticated, Known
  <2>3. PICK id \in ActsFor(Authenticated(cred), owner) : Begins(c, "ask", "send", id, Nobody, cred)
    BY <2>1
  <2>4. id \in Ids
    BY <2>2, <2>3 DEF ActsFor, Named
  <2> QED BY <1>0, <2>3, <2>4, BeginTyped DEF Admin, Places
<1> QED BY <1>1, <1>2, <1>3, <1>4, <1>5, <1>6

(* What AddUser does when it adds a row.                                    *)
LEMMA AddedUser ==
    ASSUME TypeInv, NEW c \in Calls, AddUser(c)
    PROVE  /\ call[c].op \in {"create", "provision"} /\ At(c, "row") /\ call[c].name \in Names
           /\ \/ Goto(c, "failed") /\ UNCHANGED <<users, given>>
              \/ /\ Named(call[c].name) = {} /\ given + 1 \in Ids /\ given' = given + 1
                 /\ users[given + 1] = NoUser
                 /\ users' = [users EXCEPT ![given + 1] = NewUser(call[c].name)]
                 /\ call' = [call EXCEPT ![c] = [call[c] EXCEPT !.pc = "token", !.id = given + 1]]
<1>1. call[c].op \in {"create", "provision"} /\ At(c, "row") /\ call[c].name \in Names
  BY DEF AddUser, TypeInv, CallsOK, CallOK, Makes
<1>2. CASE Named(call[c].name) = {} /\ given < MaxUsers
  <2>1. /\ given' = given + 1
        /\ users' = [users EXCEPT ![given'] = NewUser(call[c].name)]
        /\ call' = [call EXCEPT ![c].pc = "token", ![c].id = given']
    BY <1>2 DEF AddUser
  <2>2. given \in Nat /\ given + 1 \in Ids
    BY <1>2, Distinct DEF TypeInv, RestOK, Ids
  <2>3. users[given + 1] = NoUser
    BY <2>2 DEF TypeInv, UsersOK, UserOK
  <2>4. call' = [call EXCEPT ![c] = [call[c] EXCEPT !.pc = "token", !.id = given + 1]]
    BY <2>1 DEF TypeInv, CallsOK
  <2> QED BY <1>1, <1>2, <2>1, <2>2, <2>3, <2>4
<1>3. CASE ~(Named(call[c].name) = {} /\ given < MaxUsers)
  BY <1>1, <1>3 DEF AddUser
<1> QED BY <1>2, <1>3

(* The call's own locals after it has added the row.                        *)
LEMMA AddedCall ==
    ASSUME TypeInv, NEW c \in Calls, NEW id \in 0..MaxUsers,
           call' = [call EXCEPT ![c] = [call[c] EXCEPT !.pc = "token", !.id = id]]
    PROVE  /\ call' \in [Calls -> CallRec]
           /\ \A d \in Calls : d # c => call'[d] = call[d]
           /\ call'[c].pc = "token" /\ call'[c].id = id /\ call'[c].op = call[c].op
           /\ call'[c].name = call[c].name /\ call'[c].cred = call[c].cred
<1>1. call \in [Calls -> CallRec] /\ call[c] \in CallRec
  BY DEF TypeInv, CallsOK
<1>2. LET r == [call[c] EXCEPT !.pc = "token", !.id = id] IN
        /\ r \in CallRec /\ r.pc = "token" /\ r.id = id /\ r.op = call[c].op
        /\ r.name = call[c].name /\ r.cred = call[c].cred
  BY <1>1 DEF CallRec, PC
<1> QED BY <1>1, <1>2

LEMMA AddUserTyped ==
    ASSUME TypeInv, NEW c \in Calls, AddUser(c)
    PROVE  TypeInv'
<1>1. call[c].op \in {"create", "provision"} /\ At(c, "row") /\ call[c].name \in Names
  BY AddedUser
<1>2. UNCHANGED <<tokens, agent, latest, doomed, crossed, left, admin>>
  BY DEF AddUser
<1>3. CASE Goto(c, "failed") /\ UNCHANGED <<users, given>>
  <2>1. CallsOK'
    BY <1>1, <1>3, GotoTyped DEF TypeInv, At, Open, Closed, PC
  <2>2. RestOK'
    BY <1>2, <1>3 DEF TypeInv, RestOK
  <2> QED BY <1>2, <1>3, <2>1, <2>2, Kept DEF TypeInv
<1>4. CASE /\ given + 1 \in Ids /\ given' = given + 1
           /\ users' = [users EXCEPT ![given + 1] = NewUser(call[c].name)]
           /\ call' = [call EXCEPT ![c] = [call[c] EXCEPT !.pc = "token", !.id = given + 1]]
  <2>1. given \in Nat /\ given + 1 \in 0..MaxUsers /\ given' \in given..MaxUsers
    BY <1>4, Distinct DEF Ids, TypeInv, RestOK
  <2>2. CallsOK'
    <3>1. /\ call' \in [Calls -> CallRec]
          /\ \A d \in Calls : d # c => call'[d] = call[d]
          /\ call'[c].pc = "token" /\ call'[c].id = given + 1 /\ call'[c].op = call[c].op
          /\ call'[c].name = call[c].name /\ call'[c].cred = call[c].cred
      BY <1>4, <2>1, AddedCall
    <3>2. CallOK(call'[c], given')
      BY <1>1, <1>4, <2>1, <3>1 DEF CallOK, Makes, Closed, Places
    <3> QED BY <2>1, <3>1, <3>2, CallsTyped DEF TypeInv
  <2>3. UsersOK'
    <3>1. users' \in [Ids -> UserRec]
      BY <1>1, <1>4, NewUserTyped DEF TypeInv, UsersOK
    <3>2. ASSUME NEW id \in Ids PROVE UserOK(id, users'[id], given')
      <4>1. CASE id = given + 1
        <5>1. users'[id] = NewUser(call[c].name)
          BY <1>4, <4>1 DEF TypeInv, UsersOK
        <5>2. /\ NewUser(call[c].name).name = call[c].name
              /\ NewUser(call[c].name).tenant = Nobody /\ NewUser(call[c].name).secret = Nobody
          BY <1>1, NewUserTyped
        <5>3. id <= given'
          BY <1>4, <2>1, <4>1
        <5> QED BY <1>1, <5>1, <5>2, <5>3 DEF UserOK
      <4>2. CASE id # given + 1
        BY <1>4, <2>1, <4>2 DEF TypeInv, UsersOK, UserOK, Ids
      <4> QED BY <4>1, <4>2
    <3> QED BY <3>1, <3>2 DEF UsersOK
  <2>4. tokens' \in [Creds -> 0..given']
    BY <1>2, <2>1 DEF TypeInv, RestOK
  <2>5. RestOK'
    BY <1>2, <1>4, <2>1, <2>4 DEF TypeInv, RestOK
  <2> QED BY <1>2, <2>2, <2>3, <2>5, Kept DEF TypeInv
<1> QED BY <1>3, <1>4, AddedUser

(* Where the calls are that make the other steps.                           *)
LEMMA Where ==
    ASSUME TypeInv, NEW c \in Calls
    PROVE  /\ At(c, "token") => call[c].op \in {"create", "provision", "mint"} /\ call[c].id \in 0..given
           /\ At(c, "tenant") \/ At(c, "bind") => call[c].op = "provision" /\ call[c].name \in Names
           /\ At(c, "read") => call[c].op \in {"disable", "delete"} /\ call[c].id \in Ids
           /\ At(c, "agent") => call[c].op \in {"disable", "delete"} /\ call[c].id \in Ids
                                /\ call[c].name \in Tenants
           /\ At(c, "drop") => call[c].op = "delete" /\ call[c].id \in Ids
           /\ At(c, "revoke") => call[c].op = "revoke" /\ call[c].cred \in Creds
           /\ At(c, "send") => call[c].op = "ask"
           /\ At(c, "row") => call[c].op \in {"create", "provision", "enable", "disable"}
<1>1. CallOK(call[c], given) /\ call[c] \in CallRec
  BY DEF TypeInv, CallsOK
<1>2. <<call[c].op, call[c].pc>> \in Places \/ call[c].pc \in Closed
  BY <1>1 DEF CallOK
<1>3. /\ At(c, "token") => call[c].op \in {"create", "provision", "mint"}
      /\ At(c, "tenant") \/ At(c, "bind") => call[c].op = "provision"
      /\ At(c, "read") => call[c].op \in {"disable", "delete"}
      /\ At(c, "agent") => call[c].op \in {"disable", "delete"}
      /\ At(c, "drop") => call[c].op = "delete"
      /\ At(c, "revoke") => call[c].op = "revoke"
      /\ At(c, "send") => call[c].op = "ask"
      /\ At(c, "row") => call[c].op \in {"create", "provision", "enable", "disable"}
  BY <1>2 DEF At, Places, Closed
<1>4. given \in Nat
  BY DEF TypeInv, RestOK
<1> QED BY <1>1, <1>3, <1>4 DEF CallOK, Makes, At, CallRec

(* The steps of a call under way.                                           *)
LEMMA AgentTyped ==
    ASSUME TypeInv, NEW c \in Calls, CreateTenant(c) \/ UpdateTenant(c) \/ DeleteTenant(c)
    PROVE  TypeInv'
<1>1. UNCHANGED <<users, given, tokens, latest, crossed, admin>>
  BY DEF CreateTenant, UpdateTenant, DeleteTenant
<1>2. CallsOK'
  <2>1. CASE \E pc \in {"bind", "failed", "drop", "ok"} :
                Goto(c, pc) /\ (pc \in Closed \/ <<call[c].op, pc>> \in Places)
    <3>1. Open(c)
      BY DEF CreateTenant, UpdateTenant, DeleteTenant, At, Open
    <3> QED BY <1>1, <2>1, <3>1, GotoTyped DEF TypeInv, PC
  <2>2. CASE call' = [call EXCEPT ![c].pc = "ok", ![c].sure = FALSE]
    <3>1. call[c] \in CallRec /\ call' = [call EXCEPT ![c] = [call[c] EXCEPT !.pc = "ok", !.sure = FALSE]]
      BY <2>2 DEF TypeInv, CallsOK
    <3>2. LET r == [call[c] EXCEPT !.pc = "ok", !.sure = FALSE] IN
            r \in CallRec /\ r.pc = "ok" /\ r.op = call[c].op /\ r.id = call[c].id
            /\ r.name = call[c].name /\ r.cred = call[c].cred
      BY <3>1 DEF CallRec, PC
    <3>3. /\ call' \in [Calls -> CallRec] /\ \A d \in Calls : d # c => call'[d] = call[d]
          /\ call'[c].pc = "ok" /\ call'[c].op = call[c].op /\ call'[c].id = call[c].id
          /\ call'[c].name = call[c].name /\ call'[c].cred = call[c].cred
      BY <3>1, <3>2 DEF TypeInv, CallsOK
    <3>4. call[c].pc # "new" /\ CallOK(call[c], given)
      BY DEF CreateTenant, UpdateTenant, DeleteTenant, At, TypeInv, CallsOK
    <3>5. CallOK(call'[c], given')
      BY <1>1, <3>3, <3>4 DEF CallOK, Makes, Closed
    <3>6. given' \in given..MaxUsers
      BY <1>1, Distinct DEF TypeInv, RestOK
    <3> QED BY <3>3, <3>5, <3>6, CallsTyped DEF TypeInv
  <2>3. CASE CreateTenant(c)
    <3>1. call[c].op = "provision"
      BY <2>3, Where DEF CreateTenant
    <3>2. Goto(c, "bind") \/ Goto(c, "failed")
      BY <2>3 DEF CreateTenant
    <3> QED BY <2>1, <3>1, <3>2 DEF Places, Closed
  <2>4. CASE UpdateTenant(c)
    BY <2>1, <2>2, <2>4 DEF UpdateTenant, Closed
  <2>5. CASE DeleteTenant(c)
    BY <2>1, <2>5 DEF DeleteTenant, Places, Closed
  <2> QED BY <2>3, <2>4, <2>5
<1>3. agent' \in [Tenants -> HomeRec]
  <2>1. CASE CreateTenant(c)
    <3>1. [disabled |-> FALSE, secret |-> c] \in HomeRec
      BY DEF HomeRec, Creds
    <3> QED BY <2>1, <3>1 DEF CreateTenant, TypeInv, RestOK
  <2>2. CASE UpdateTenant(c)
    <3>1. UNCHANGED agent \/ agent' = [agent EXCEPT ![call[c].name].disabled = TRUE]
      BY <2>2 DEF UpdateTenant
    <3> QED BY <3>1 DEF TypeInv, RestOK, HomeRec
  <2>3. CASE DeleteTenant(c)
    BY <2>3, NobodyTyped DEF DeleteTenant, TypeInv, RestOK
  <2> QED BY <2>1, <2>2, <2>3
<1>4. doomed' \subseteq Ids
  BY Where DEF CreateTenant, UpdateTenant, DeleteTenant, TypeInv, RestOK
<1>5. left' \in [{"fails", "restarts"} -> Nat] /\ LeftOK'
  BY SpendTyped DEF CreateTenant, UpdateTenant, DeleteTenant, TypeInv, RestOK, LeftOK
<1>6. RestOK'
  BY <1>1, <1>3, <1>4, <1>5 DEF TypeInv, RestOK
<1> QED BY <1>1, <1>2, <1>5, <1>6, Kept DEF TypeInv

(* The steps that write a row.                                              *)
LEMMA RowTyped ==
    ASSUME TypeInv, NEW c \in Calls, Bind(c) \/ UpdateRow(c) \/ DropUser(c)
    PROVE  TypeInv'
<1>1. UNCHANGED <<given, agent, latest, doomed, crossed, left, admin>>
  BY DEF Bind, UpdateRow, DropUser
<1>2. CallsOK'
  <2>1. \E pc \in {"ok", "failed", "read"} : Goto(c, pc) /\ (pc = "read" => call[c].op = "disable")
    BY DEF Bind, UpdateRow, DropUser
  <2>2. Open(c)
    BY DEF Bind, UpdateRow, DropUser, At, Open
  <2> QED BY <1>1, <2>1, <2>2, GotoTyped DEF TypeInv, PC, Closed, Places
<1>3. tokens' \in [Creds -> 0..given']
  <2>1. given \in Nat
    BY DEF TypeInv, RestOK
  <2>2. tokens' \in {tokens, [cred \in Creds |-> IF tokens[cred] = call[c].id THEN 0 ELSE tokens[cred]]}
    BY DEF Bind, UpdateRow, DropUser
  <2> QED BY <1>1, <2>1, <2>2 DEF TypeInv, RestOK
<1>4. CASE UNCHANGED users
  <2>1. RestOK'
    BY <1>1, <1>3 DEF TypeInv, RestOK
  <2> QED BY <1>1, <1>2, <1>4, <2>1, Kept DEF TypeInv
<1>5. ASSUME NEW id \in Ids, NEW u \in UserRec, users' = [users EXCEPT ![id] = u], UserOK(id, u, given)
      PROVE  TypeInv'
  <2>1. UsersOK'
    BY <1>1, <1>5 DEF TypeInv, UsersOK
  <2>2. RestOK'
    BY <1>1, <1>3 DEF TypeInv, RestOK
  <2> QED BY <1>1, <1>2, <2>1, <2>2, Kept DEF TypeInv
<1> DEFINE id == call[c].id
<1>6. CASE Bind(c) /\ Known(id)
  <2>1. users' = [users EXCEPT ![id] = WithBinding(users[id], call[c].name, c)] \/ UNCHANGED users
    BY <1>6 DEF Bind, Bound, WithBinding, TypeInv, UsersOK, Known
  <2>2. /\ id \in Ids /\ users[id] \in UserRec /\ UserOK(id, users[id], given) /\ users[id] # NoUser
        /\ call[c].name \in Tenants /\ c \in Creds
    BY <1>6, Where DEF Bind, Known, TypeInv, UsersOK, Tenants, Creds
  <2>3. /\ WithBinding(users[id], call[c].name, c) \in UserRec
        /\ UserOK(id, WithBinding(users[id], call[c].name, c), given)
    <3>1. /\ WithBinding(users[id], call[c].name, c) \in UserRec
          /\ WithBinding(users[id], call[c].name, c).name = users[id].name
          /\ WithBinding(users[id], call[c].name, c).tenant = call[c].name
          /\ WithBinding(users[id], call[c].name, c).secret = c
      BY <2>2, Rebound
    <3> QED BY <2>2, <3>1, Distinct DEF UserOK
  <2> QED BY <1>4, <1>5, <2>1, <2>2, <2>3
<1>7. CASE UpdateRow(c) /\ Known(id)
  <2> DEFINE u == [users[id] EXCEPT !.disabled = (call[c].op = "disable")]
  <2>1. id \in Ids /\ users[id] \in UserRec /\ UserOK(id, users[id], given) /\ users[id] # NoUser
    BY <1>7 DEF Known, TypeInv, UsersOK
  <2>2. users' = [users EXCEPT ![id] = u]
    BY <1>7, <2>1 DEF UpdateRow, TypeInv, UsersOK
  <2>3. u \in UserRec /\ u.name = users[id].name /\ u.tenant = users[id].tenant
        /\ u.secret = users[id].secret
    BY <2>1 DEF UserRec
  <2>4. UserOK(id, u, given)
    BY <2>1, <2>3 DEF UserOK
  <2> QED BY <1>5, <2>1, <2>2, <2>3, <2>4
<1>8. CASE DropUser(c) /\ Known(id)
  <2>1. users' = [users EXCEPT ![id] = NoUser] /\ id \in Ids /\ given \in Nat
    BY <1>8 DEF DropUser, Known, TypeInv, RestOK
  <2> QED BY <1>5, <2>1, NobodyTyped
<1>9. CASE ~Known(id)
  BY <1>4, <1>9 DEF Bind, UpdateRow, DropUser
<1> QED BY <1>6, <1>7, <1>8, <1>9

LEMMA TokenTyped ==
    ASSUME TypeInv, NEW c \in Calls, AddToken(c) \/ DropToken(c)
    PROVE  TypeInv'
<1>1. UNCHANGED <<users, given, agent, latest, doomed, crossed, left, admin>>
  BY DEF AddToken, DropToken
<1>2. CallsOK'
  <2>1. \E pc \in {"ok", "failed", "tenant"} : Goto(c, pc) /\ (pc = "tenant" => call[c].op = "provision")
    BY DEF AddToken, DropToken
  <2>2. Open(c)
    BY DEF AddToken, DropToken, At, Open
  <2> QED BY <1>1, <2>1, <2>2, GotoTyped DEF TypeInv, PC, Closed, Places
<1>3. tokens' \in [Creds -> 0..given']
  <2>1. given \in Nat /\ 0 \in 0..given
    BY DEF TypeInv, RestOK
  <2>2. \/ UNCHANGED tokens
        \/ tokens' = [tokens EXCEPT ![c] = call[c].id] /\ call[c].id \in 0..given
        \/ tokens' = [tokens EXCEPT ![call[c].cred] = 0]
    BY Where DEF AddToken, DropToken
  <2> QED BY <1>1, <2>1, <2>2 DEF TypeInv, RestOK
<1>4. RestOK'
  BY <1>1, <1>3 DEF TypeInv, RestOK
<1> QED BY <1>1, <1>2, <1>4, Kept DEF TypeInv

(* A call that reads what it will act on.                                   *)
LEMMA ReadCall ==
    ASSUME TypeInv, NEW c \in Calls, ReadBinding(c)
    PROVE  \E pc \in {"agent", "ok", "drop"}, name \in Tenants \cup {Nobody} :
             /\ pc = AfterRead(c)
             /\ name = IF Known(call[c].id) THEN users[call[c].id].tenant ELSE Nobody
             /\ <<call[c].op, pc>> \in Places \/ pc = "ok"
             /\ pc = "agent" => Known(call[c].id) /\ name # Nobody
             /\ pc = "ok" => call[c].op = "disable"
             /\ pc = "drop" => call[c].op = "delete"
             /\ call' \in [Calls -> CallRec]
             /\ \A d \in Calls : d # c => call'[d] = call[d]
             /\ call'[c].pc = pc /\ call'[c].name = name /\ call'[c].op = call[c].op
             /\ call'[c].id = call[c].id /\ call'[c].cred = call[c].cred
             /\ call'[c].sure = call[c].sure
<1> DEFINE pc   == AfterRead(c)
           name == IF Known(call[c].id) THEN users[call[c].id].tenant ELSE Nobody
           r    == [call[c] EXCEPT !.pc = pc, !.name = name]
<1>1. call[c].op \in {"disable", "delete"} /\ call[c] \in CallRec
  BY Where DEF ReadBinding, TypeInv, CallsOK
<1>2. name \in Tenants \cup {Nobody}
  BY DEF Known, TypeInv, UsersOK, UserRec
<1>3. /\ pc \in {"agent", "ok", "drop"}
      /\ <<call[c].op, pc>> \in Places \/ pc = "ok"
      /\ pc = "agent" => Known(call[c].id) /\ name # Nobody
      /\ pc = "ok" => call[c].op = "disable"
      /\ pc = "drop" => call[c].op = "delete"
  BY <1>1 DEF AfterRead, RowOnly, Places
<1>4. call' = [call EXCEPT ![c] = r]
  BY DEF ReadBinding, TypeInv, CallsOK
<1> HIDE DEF pc, name
<1>5. /\ r \in CallRec /\ r.pc = pc /\ r.name = name /\ r.op = call[c].op /\ r.id = call[c].id
      /\ r.cred = call[c].cred /\ r.sure = call[c].sure
  BY <1>1, <1>2, <1>3 DEF CallRec, PC
<1> HIDE DEF r
<1>6. /\ call' \in [Calls -> CallRec] /\ call'[c] = r
      /\ \A d \in Calls : d # c => call'[d] = call[d]
  BY <1>4, <1>5 DEF TypeInv, CallsOK
<1>7. pc = AfterRead(c) /\ name = IF Known(call[c].id) THEN users[call[c].id].tenant ELSE Nobody
  BY DEF pc, name
<1> QED BY <1>2, <1>3, <1>5, <1>6, <1>7

(* A session call that is sent on, or cannot be.                            *)
LEMMA SentCall ==
    ASSUME TypeInv, NEW c \in Calls, Send(c)
    PROVE  /\ call' \in [Calls -> CallRec]
           /\ \A d \in Calls : d # c => call'[d] = call[d]
           /\ call'[c].op = "ask" /\ call'[c].id = call[c].id /\ call'[c].cred = call[c].cred
           /\ \/ call'[c].pc = "failed"
              \/ /\ call'[c].pc = "ok"
                 /\ call'[c].name \in Reached(ForwardSecret(call[c].id))
<1>1. call[c].op = "ask" /\ call[c] \in CallRec /\ call \in [Calls -> CallRec]
  BY Where DEF Send, TypeInv, CallsOK
<1>2. CASE Goto(c, "failed")
  BY <1>1, <1>2, Moves DEF PC
<1>3. ASSUME NEW t \in Reached(ForwardSecret(call[c].id)), call' = [call EXCEPT ![c].pc = "ok", ![c].name = t]
      PROVE  /\ call' \in [Calls -> CallRec]
             /\ \A d \in Calls : d # c => call'[d] = call[d]
             /\ call'[c].op = "ask" /\ call'[c].id = call[c].id /\ call'[c].cred = call[c].cred
             /\ call'[c].pc = "ok" /\ call'[c].name = t
  <2>1. t \in Tenants
    BY DEF Reached
  <2>2. call' = [call EXCEPT ![c] = [call[c] EXCEPT !.pc = "ok", !.name = t]]
    BY <1>1, <1>3
  <2>3. LET r == [call[c] EXCEPT !.pc = "ok", !.name = t] IN
          r \in CallRec /\ r.pc = "ok" /\ r.name = t /\ r.op = "ask" /\ r.id = call[c].id
          /\ r.cred = call[c].cred
    BY <1>1, <2>1 DEF CallRec, PC
  <2> QED BY <1>1, <2>2, <2>3
<1> QED BY <1>2, <1>3 DEF Send

(* A lookup of the binding that fails.                                      *)
LEMMA MissedCall ==
    ASSUME TypeInv, NEW c \in Calls, MissBinding(c) \/ SendUnbound(c)
    PROVE  /\ UNCHANGED <<users, given, tokens, agent, latest, doomed, crossed, admin>>
           /\ Open(c) /\ left' # Full
           /\ left' \in [{"fails", "restarts"} -> Nat] /\ LeftOK'
           /\ call' \in [Calls -> CallRec]
           /\ \A d \in Calls : d # c => call'[d] = call[d]
           /\ call'[c].op = call[c].op /\ call'[c].id = call[c].id /\ call'[c].cred = call[c].cred
           /\ call'[c].sure = FALSE
           /\ MissBinding(c) => /\ call'[c].name = call[c].name /\ call[c].op \in {"disable", "delete"}
                                /\ At(c, "read")
                                /\ call'[c].pc = IF call[c].op = "disable" THEN "ok" ELSE "drop"
           /\ SendUnbound(c) => call[c].op = "ask" /\ call'[c].pc = "ok"
<1>1. call[c] \in CallRec /\ call \in [Calls -> CallRec]
  BY DEF TypeInv, CallsOK
<1>2. /\ UNCHANGED <<users, given, tokens, agent, latest, doomed, crossed, admin>>
      /\ Open(c) /\ Spend("fails")
  BY DEF MissBinding, SendUnbound, At, Open
<1>3. left' # Full /\ left' \in [{"fails", "restarts"} -> Nat] /\ LeftOK'
  BY <1>2, SpendTyped
<1>4. CASE MissBinding(c)
  <2>1. call[c].op \in {"disable", "delete"} /\ At(c, "read") /\ ~SendUnbound(c)
    BY <1>4, Where DEF MissBinding, SendUnbound, At
  <2>2. PICK pc \in {"ok", "drop"} :
          /\ pc = IF call[c].op = "disable" THEN "ok" ELSE "drop"
          /\ call' = [call EXCEPT ![c] = [call[c] EXCEPT !.pc = pc, !.sure = FALSE]]
    BY <1>1, <1>4 DEF MissBinding, RowOnly
  <2>3. LET r == [call[c] EXCEPT !.pc = pc, !.sure = FALSE] IN
          /\ r \in CallRec /\ r.pc = pc /\ r.op = call[c].op /\ r.id = call[c].id
          /\ r.name = call[c].name /\ r.cred = call[c].cred /\ r.sure = FALSE
    BY <1>1 DEF CallRec, PC
  <2> QED BY <1>1, <1>2, <1>3, <2>1, <2>2, <2>3
<1>5. CASE SendUnbound(c)
  <2>1. call[c].op = "ask" /\ ~MissBinding(c)
    BY <1>5, Where DEF MissBinding, SendUnbound, At
  <2>2. PICK t \in Tenants : call' = [call EXCEPT ![c] = [call[c] EXCEPT !.pc = "ok", !.name = t, !.sure = FALSE]]
    BY <1>1, <1>5 DEF SendUnbound, Reached
  <2>3. LET r == [call[c] EXCEPT !.pc = "ok", !.name = t, !.sure = FALSE] IN
          /\ r \in CallRec /\ r.pc = "ok" /\ r.op = call[c].op /\ r.id = call[c].id
          /\ r.cred = call[c].cred /\ r.sure = FALSE
    BY <1>1 DEF CallRec, PC
  <2> QED BY <1>1, <1>2, <1>3, <2>1, <2>2, <2>3
<1> QED BY <1>4, <1>5

LEMMA MissedTyped ==
    ASSUME TypeInv, NEW c \in Calls, MissBinding(c) \/ SendUnbound(c)
    PROVE  TypeInv'
<1>1. CallOK(call[c], given) /\ call[c].pc # "new" /\ given' = given /\ given' \in given..MaxUsers
  <2>1. given' = given /\ Open(c)
    BY MissedCall
  <2> QED BY <2>1, Distinct DEF Open, TypeInv, CallsOK, RestOK
<1>2. CallOK(call'[c], given')
  <2>1. CASE MissBinding(c)
    BY <1>1, <2>1, MissedCall DEF CallOK, Makes, Closed, Places
  <2>2. CASE SendUnbound(c)
    BY <1>1, <2>2, MissedCall DEF CallOK, Makes, Closed
  <2> QED BY <2>1, <2>2
<1>3. CallsOK'
  BY <1>1, <1>2, MissedCall, CallsTyped DEF TypeInv
<1>4. RestOK'
  BY MissedCall DEF TypeInv, RestOK
<1> QED BY <1>3, <1>4, MissedCall, Kept DEF TypeInv

LEMMA ReadTyped ==
    ASSUME TypeInv, NEW c \in Calls, ReadBinding(c) \/ Send(c)
    PROVE  TypeInv'
<1>1. UNCHANGED <<users, given, tokens, agent, latest, doomed, crossed, left, admin>>
  BY DEF ReadBinding, Send
<1>2. CallOK(call[c], given) /\ call[c].pc # "new" /\ given' \in given..MaxUsers
  BY <1>1, Distinct DEF ReadBinding, Send, SendUnbound, At, TypeInv, CallsOK, RestOK
<1>3. CASE ReadBinding(c)
  <2>1. call[c].op \in {"disable", "delete"}
    BY <1>3, Where DEF ReadBinding
  <2>2. PICK pc \in {"agent", "ok", "drop"}, name \in Tenants \cup {Nobody} :
             /\ <<call[c].op, pc>> \in Places \/ pc = "ok"
             /\ pc = "agent" => name # Nobody
             /\ call' \in [Calls -> CallRec]
             /\ \A d \in Calls : d # c => call'[d] = call[d]
             /\ call'[c].pc = pc /\ call'[c].name = name /\ call'[c].op = call[c].op
             /\ call'[c].id = call[c].id /\ call'[c].cred = call[c].cred
    BY <1>3, ReadCall
  <2>3. CallOK(call'[c], given')
    BY <1>1, <1>2, <2>1, <2>2 DEF CallOK, Makes, Closed
  <2>4. CallsOK'
    BY <1>2, <2>2, <2>3, CallsTyped DEF TypeInv
  <2>5. RestOK'
    BY <1>1 DEF TypeInv, RestOK
  <2> QED BY <1>1, <2>4, <2>5, Kept DEF TypeInv
<1>4. CASE Send(c)
  <2>1. CallOK(call'[c], given')
    BY <1>1, <1>2, <1>4, SentCall DEF CallOK, Makes, Closed
  <2>2. CallsOK'
    BY <1>2, <1>4, <2>1, SentCall, CallsTyped DEF TypeInv
  <2>3. RestOK'
    BY <1>1 DEF TypeInv, RestOK
  <2> QED BY <1>1, <2>2, <2>3, Kept DEF TypeInv
<1> QED BY <1>3, <1>4

LEMMA FailTyped ==
    ASSUME TypeInv, NEW c \in Calls, Fail(c)
    PROVE  TypeInv'
<1>1. Open(c) /\ Goto(c, "failed") /\ UNCHANGED <<users, given, tokens, agent, latest, doomed, crossed, admin>>
  BY DEF Fail
<1>2. CallsOK'
  BY <1>1, GotoTyped DEF TypeInv, PC, Closed
<1>3. left' \in [{"fails", "restarts"} -> Nat] /\ LeftOK'
  BY SpendTyped DEF Fail
<1>4. RestOK'
  BY <1>1, <1>3 DEF TypeInv, RestOK
<1> QED BY <1>1, <1>2, <1>3, <1>4, Kept DEF TypeInv

(* What a restart does to the rows: the operator's gets the default tenant. *)
LEMMA Bootstraps ==
    ASSUME TypeInv, Bootstrapped
    PROVE  \E id \in Ids, row \in UserRec :
             /\ users' = [users EXCEPT ![id] = row]
             /\ row.name = Operator /\ row.tenant = Default /\ row.secret # Nobody
             /\ row = users[id] \/ row.secret = Chart
             /\ id <= given' /\ given' \in given..MaxUsers
             /\ \/ /\ users[id].name = Operator /\ given' = given /\ Known(id)
                \/ /\ Named(Operator) = {} /\ id = given + 1 /\ given' = id /\ users[id] = NoUser
             /\ tokens' = tokens \/ tokens' = [tokens EXCEPT ![Chart] = id]
<1> DEFINE there == Named(Operator)
           id    == IF there = {} THEN given + 1 ELSE CHOOSE u \in there : TRUE
           row   == IF there = {} THEN NewUser(Operator) ELSE users[id]
           new   == IF row.tenant = Default THEN row ELSE WithBinding(row, Default, Chart)
<1>0. Default \in Tenants /\ Chart \in Creds /\ given \in Nat
  BY DEF Tenants, Creds, TypeInv, RestOK
<1>1. there # {} \/ given < MaxUsers
  BY DEF Bootstrapped
<1>2. CASE there = {}
  <2>1. id = given + 1 /\ id \in Ids /\ id <= MaxUsers
    BY <1>0, <1>1, <1>2, Distinct DEF Ids
  <2>2. users[id] = NoUser
    BY <1>0, <2>1 DEF TypeInv, UsersOK, UserOK
  <2>3. /\ row \in UserRec /\ row.name = Operator /\ row.tenant = Nobody
    BY <1>2, Distinct, NewUserTyped
  <2>4. new = WithBinding(row, Default, Chart)
    BY <2>3, Distinct
  <2>5. /\ new \in UserRec /\ new.name = Operator /\ new.tenant = Default /\ new.secret = Chart
    <3> HIDE DEF row, new
    <3> QED BY <1>0, <2>3, <2>4, Rebound
  <2>6. users' = [users EXCEPT ![id] = new]
    BY DEF Bootstrapped, WithBinding
  <2>7. given' = id
    BY <1>2 DEF Bootstrapped
  <2>8. tokens' = tokens \/ tokens' = [tokens EXCEPT ![Chart] = id]
    BY DEF Bootstrapped
  <2>9. id <= given' /\ given' \in given..MaxUsers
    BY <1>0, <2>1, <2>7, Distinct
  <2> HIDE DEF new, id, row
  <2> QED BY <1>0, <1>2, <2>1, <2>2, <2>5, <2>6, <2>7, <2>8, <2>9, Distinct
<1>3. CASE there # {}
  <2>1. id \in Ids /\ users[id].name = Operator
    BY <1>3 DEF Named
  <2>2. Known(id) /\ row = users[id]
    BY <1>3, <2>1, Distinct, NobodyTyped DEF Known
  <2>3. row \in UserRec /\ row.name = Operator /\ UserOK(id, row, given)
    BY <2>1, <2>2 DEF TypeInv, UsersOK
  <2>4. /\ new \in UserRec /\ new.name = Operator /\ new.tenant = Default
        /\ new = users[id] \/ new.secret = Chart
    <3>1. CASE row.tenant = Default
      BY <2>2, <2>3, <3>1
    <3>2. CASE row.tenant # Default
      <4>1. new = WithBinding(row, Default, Chart)
        BY <3>2
      <4> HIDE DEF row, new
      <4> QED BY <1>0, <2>3, <4>1, Rebound
    <3> QED BY <3>1, <3>2
  <2>5. new.secret # Nobody
    <3>1. new = row => new.secret # Nobody
      BY <2>3, <2>4, Distinct DEF UserOK
    <3> HIDE DEF row, new, id
    <3> QED BY <1>0, <2>2, <2>4, <3>1, Distinct
  <2>6. users' = [users EXCEPT ![id] = new]
    BY DEF Bootstrapped, WithBinding
  <2>7. given' = given
    BY <1>3 DEF Bootstrapped
  <2>8. tokens' = tokens \/ tokens' = [tokens EXCEPT ![Chart] = id]
    BY DEF Bootstrapped
  <2>9. id <= given' /\ given' \in given..MaxUsers
    BY <1>0, <2>1, <2>2, <2>7, Distinct DEF TypeInv, UsersOK, UserOK, Known, RestOK
  <2> HIDE DEF new, id, row
  <2> QED BY <2>1, <2>2, <2>4, <2>5, <2>6, <2>7, <2>8, <2>9
<1> QED BY <1>2, <1>3

LEMMA RestartTyped ==
    ASSUME TypeInv, Restart
    PROVE  TypeInv'
<1>1. PICK id \in Ids, row \in UserRec :
             /\ users' = [users EXCEPT ![id] = row]
             /\ row.name = Operator /\ row.tenant = Default /\ row.secret # Nobody
             /\ id <= given' /\ given' \in given..MaxUsers
             /\ tokens' = tokens \/ tokens' = [tokens EXCEPT ![Chart] = id]
  BY Bootstraps DEF Restart
<1>2. given \in Nat /\ given' \in Nat /\ given <= given' /\ id \in Nat
  BY <1>1, Distinct DEF TypeInv, RestOK, Ids
<1>3. UsersOK'
  <2>1. users' \in [Ids -> UserRec]
    BY <1>1 DEF TypeInv, UsersOK
  <2>2. ASSUME NEW i \in Ids PROVE UserOK(i, users'[i], given')
    <3>1. CASE i = id
      <4>1. users'[i] = row
        BY <1>1, <3>1 DEF TypeInv, UsersOK
      <4> QED BY <1>1, <3>1, <4>1, Distinct DEF UserOK
    <3>2. CASE i # id
      <4>1. users'[i] = users[i] /\ UserOK(i, users[i], given)
        BY <1>1, <3>2 DEF TypeInv, UsersOK
      <4> QED BY <1>2, <4>1 DEF UserOK, Ids
    <3> QED BY <3>1, <3>2
  <2> QED BY <2>1, <2>2 DEF UsersOK
<1>4. CallsOK'
  <2>1. call' = [c \in Calls |-> IF Open(c) THEN [call[c] EXCEPT !.pc = "failed"] ELSE call[c]]
    BY DEF Restart
  <2>2. ASSUME NEW c \in Calls PROVE call'[c] \in CallRec /\ CallOK(call'[c], given')
    <3>1. call[c] \in CallRec /\ CallOK(call[c], given)
      BY DEF TypeInv, CallsOK
    <3>2. CallOK(call[c], given')
      BY <1>2, <3>1, MoreIds
    <3>3. CASE Open(c)
      <4>1. LET r == [call[c] EXCEPT !.pc = "failed"] IN
              r \in CallRec /\ r.pc = "failed" /\ r.op = call[c].op /\ r.id = call[c].id
              /\ r.name = call[c].name /\ r.cred = call[c].cred
        BY <3>1 DEF CallRec, PC
      <4> QED BY <2>1, <3>2, <3>3, <4>1 DEF CallOK, Makes, Open, Closed
    <3>4. CASE ~Open(c)
      BY <2>1, <3>1, <3>2, <3>4
    <3> QED BY <3>3, <3>4
  <2>3. call' \in [Calls -> CallRec]
    BY <2>1, <2>2
  <2> QED BY <2>2, <2>3 DEF CallsOK
<1>5. tokens' \in [Creds -> 0..given']
  BY <1>1, <1>2 DEF TypeInv, RestOK
<1>6. left' \in [{"fails", "restarts"} -> Nat] /\ LeftOK'
  BY SpendTyped DEF Restart
<1>7. given' \in 0..MaxUsers
  BY <1>1, <1>2, Distinct
<1>8. RestOK'
  BY <1>5, <1>6, <1>7 DEF Restart, TypeInv, RestOK
<1> QED BY <1>3, <1>4, <1>6, <1>8 DEF TypeInv

LEMMA TypeStep == TypeInv /\ [Next]_vars => TypeInv'
<1>1. ASSUME TypeInv, NEW c \in Calls, UserStep(c) PROVE TypeInv'
  BY <1>1, BeginsTyped, AddUserTyped, AgentTyped, RowTyped, TokenTyped, ReadTyped, MissedTyped, FailTyped DEF UserStep
<1>2. TypeInv /\ UNCHANGED vars => TypeInv'
  BY DEF vars, TypeInv, UsersOK, CallsOK, RestOK, LeftOK
<1> QED BY <1>1, <1>2, RestartTyped DEF Next

(* Rows, tokens, tenants and the locals of the calls stay well typed: a     *)
(* row has an id that was given out and is bound to a tenant with a secret, *)
(* or to neither, and a token names no id that was not given out.           *)
THEOREM TypeCorrect == Spec => []TypeOK
BY InitTyped, TypeStep, TypeMeans, PTL DEF Spec

-----------------------------------------------------------------------------
(* What a step does to calls, rows and tenants.                             *)

Begin(c)  == Create(c) \/ Update(c) \/ Delete(c) \/ Mint(c) \/ Revoke(c) \/ Ask(c)

(* A call begins from nothing, and touches nothing else.                    *)
LEMMA BeginCall ==
    ASSUME TypeInv, NEW c \in Calls, Begin(c)
    PROVE  \E r \in CallRec :
             /\ At(c, "new") /\ call' = [call EXCEPT ![c] = r]
             /\ r.pc \in {"row", "read", "token", "revoke", "send"}
             /\ r.op # "none" /\ (r.op \in {"create", "provision"} => r.id = 0 /\ r.pc = "row")
             /\ r.op \in {"disable", "delete"} => r.name = Nobody
             /\ LET alone == \A d \in Calls : ~Open(d)
                IN  /\ latest' = IF alone THEN c ELSE Nobody
                    /\ ~alone /\ r.op # "ask" => "changes" \in crossed'
             /\ crossed \subseteq crossed'
             /\ \A e \in Calls : /\ Open(e) /\ call[e].op = "delete"
                                 /\ r.op = "delete" /\ call[e].id = r.id
                                 => "delete" \in crossed'
             /\ UNCHANGED <<users, given, tokens, agent, doomed, left, admin>>
<1>1. ASSUME NEW op \in Admin \cup {"ask"}, NEW pc \in {"row", "read", "token", "revoke", "send"},
             NEW id, NEW name, NEW cred, op \in {"create", "provision"} => id = 0 /\ pc = "row",
             op \in {"disable", "delete"} => name = Nobody,
             Begins(c, op, pc, id, name, cred)
      PROVE  \E r \in CallRec :
             /\ At(c, "new") /\ call' = [call EXCEPT ![c] = r]
             /\ r.pc \in {"row", "read", "token", "revoke", "send"}
             /\ r.op # "none" /\ (r.op \in {"create", "provision"} => r.id = 0 /\ r.pc = "row")
             /\ r.op \in {"disable", "delete"} => r.name = Nobody
             /\ LET alone == \A d \in Calls : ~Open(d)
                IN  /\ latest' = IF alone THEN c ELSE Nobody
                    /\ ~alone /\ r.op # "ask" => "changes" \in crossed'
             /\ crossed \subseteq crossed'
             /\ \A e \in Calls : /\ Open(e) /\ call[e].op = "delete"
                                 /\ r.op = "delete" /\ call[e].id = r.id
                                 => "delete" \in crossed'
             /\ UNCHANGED <<users, given, tokens, agent, doomed, left, admin>>
  <2> DEFINE r == [op |-> op, pc |-> pc, id |-> id, name |-> name, cred |-> cred, sure |-> TRUE]
             alone == \A d \in Calls : ~Open(d)
  <2>1. TypeInv'
    BY BeginsTyped DEF Begin
  <2>2. call' = [call EXCEPT ![c] = r] /\ At(c, "new")
    BY <1>1 DEF Begins
  <2>3. r \in CallRec
    <3>1. call'[c] = r
      BY <2>2 DEF TypeInv, CallsOK
    <3> QED BY <2>1, <3>1 DEF TypeInv, CallsOK
  <2>4. /\ r.pc \in {"row", "read", "token", "revoke", "send"}
        /\ r.op # "none" /\ (r.op \in {"create", "provision"} => r.id = 0 /\ r.pc = "row")
        /\ r.op = op /\ r.id = id
        /\ r.op \in {"disable", "delete"} => r.name = Nobody
    BY <1>1 DEF Admin
  <2>5. crossed' = crossed \cup (IF op # "ask" /\ ~alone THEN {"changes"} ELSE {})
                           \cup {call[d].op : d \in {e \in Calls : Open(e) /\ op = "delete"
                                                            /\ call[e].op = op /\ call[e].id = id}}
    BY <1>1 DEF Begins
  <2>6. \A e \in Calls : Open(e) /\ call[e].op = "delete" /\ op = "delete" /\ call[e].id = id
                           => "delete" \in crossed'
    BY <2>5
  <2>7. latest' = (IF alone THEN c ELSE Nobody) /\ UNCHANGED <<users, given, tokens, agent, doomed, left, admin>>
    BY <1>1 DEF Begins
  <2>8. /\ ~alone /\ op # "ask" => "changes" \in crossed'
        /\ crossed \subseteq crossed'
    BY <2>5
  <2> HIDE DEF r
  <2> QED BY <2>2, <2>3, <2>4, <2>6, <2>7, <2>8
<1>2. CASE Create(c)
  BY <1>1, <1>2 DEF Create, Admin
<1>3. CASE Update(c)
  BY <1>1, <1>3 DEF Update, Admin
<1>4. CASE Delete(c)
  BY <1>1, <1>4 DEF Delete, Admin
<1>5. CASE Mint(c)
  BY <1>1, <1>5 DEF Mint, Admin
<1>6. CASE Revoke(c)
  BY <1>1, <1>6 DEF Revoke, Admin
<1>7. CASE Ask(c)
  BY <1>1, <1>7 DEF Ask, Admin
<1> QED BY <1>2, <1>3, <1>4, <1>5, <1>6, <1>7 DEF Begin

(* The steps of a call after that.                                          *)
Step(c) == \/ AddUser(c) \/ AddToken(c) \/ CreateTenant(c) \/ Bind(c) \/ UpdateRow(c)
           \/ ReadBinding(c) \/ UpdateTenant(c) \/ DeleteTenant(c) \/ DropUser(c)
           \/ DropToken(c) \/ Send(c) \/ MissBinding(c) \/ SendUnbound(c) \/ Fail(c)

LEMMA Steps ==
    ASSUME NEW c \in Calls
    PROVE  UserStep(c) <=> Begin(c) \/ Step(c)
BY DEF UserStep, Begin, Step

(* Each moves the call itself, which was under way.                         *)
LEMMA StepCall ==
    ASSUME TypeInv, NEW c \in Calls, Step(c)
    PROVE  /\ Open(c) /\ ~At(c, "new")'
           /\ \A d \in Calls : d # c => call'[d] = call[d]
           /\ call'[c].op = call[c].op
           /\ call'[c].id = call[c].id \/ AddUser(c)
           /\ call'[c].name = call[c].name \/ ReadBinding(c) \/ Send(c) \/ SendUnbound(c)
           /\ call'[c].cred = call[c].cred
           /\ UNCHANGED <<latest, crossed, admin>>
<1>1. Open(c) /\ UNCHANGED <<latest, crossed, admin>>
  BY DEF Step, AddUser, AddToken, CreateTenant, Bind, UpdateRow, ReadBinding, UpdateTenant,
         DeleteTenant, DropUser, DropToken, Send, MissBinding, SendUnbound, Fail, At, Open
<1>2. ASSUME NEW pc \in PC \ {"new"}, Goto(c, pc)
      PROVE  /\ ~At(c, "new")'
             /\ \A d \in Calls : d # c => call'[d] = call[d]
             /\ call'[c].op = call[c].op /\ call'[c].id = call[c].id
             /\ call'[c].name = call[c].name /\ call'[c].cred = call[c].cred
  <2>1. pc \in PC /\ pc # "new" /\ call \in [Calls -> CallRec]
    BY DEF TypeInv, CallsOK
  <2>2. /\ \A d \in Calls : d # c => call'[d] = call[d]
        /\ call'[c].pc = pc /\ call'[c].op = call[c].op /\ call'[c].id = call[c].id
        /\ call'[c].name = call[c].name /\ call'[c].cred = call[c].cred
    BY <1>2, <2>1, Moves
  <2> QED BY <2>1, <2>2 DEF At
<1>3. CASE AddUser(c)
  <2>1. CASE Goto(c, "failed")
    BY <1>1, <1>2, <1>3, <2>1 DEF PC
  <2>2. CASE /\ given + 1 \in Ids
             /\ call' = [call EXCEPT ![c] = [call[c] EXCEPT !.pc = "token", !.id = given + 1]]
    <3>1. given + 1 \in 0..MaxUsers
      BY <2>2 DEF Ids
    <3> QED BY <1>1, <1>3, <2>2, <3>1, AddedCall DEF At
  <2> QED BY <1>3, <2>1, <2>2, AddedUser
<1>4. CASE ReadBinding(c)
  BY <1>1, <1>4, ReadCall DEF At
<1>5. CASE Send(c)
  BY <1>1, <1>5, SentCall, Where DEF At, Send
<1>6. CASE UpdateTenant(c)
  <2>1. CASE Goto(c, "ok")
    BY <1>1, <1>2, <2>1 DEF PC
  <2>2. CASE call' = [call EXCEPT ![c].pc = "ok", ![c].sure = FALSE]
    BY <1>1, <2>2 DEF TypeInv, CallsOK, CallRec, At
  <2> QED BY <1>6, <2>1, <2>2 DEF UpdateTenant
<1>7. CASE AddToken(c) \/ CreateTenant(c) \/ Bind(c) \/ UpdateRow(c) \/ DeleteTenant(c)
           \/ DropUser(c) \/ DropToken(c) \/ Fail(c)
  <2>1. PICK pc \in PC \ {"new"} : Goto(c, pc)
    BY <1>7 DEF AddToken, CreateTenant, Bind, UpdateRow, DeleteTenant, DropUser, DropToken, Fail, PC
  <2> QED BY <1>1, <1>2, <2>1
<1>8. CASE MissBinding(c) \/ SendUnbound(c)
  BY <1>1, <1>8, MissedCall DEF At
<1> QED BY <1>3, <1>4, <1>5, <1>6, <1>7, <1>8 DEF Step

(* How a call comes to a place.                                             *)
LEMMA Enters ==
    ASSUME TypeInv, NEW c \in Calls, Step(c)
    PROVE  /\ At(c, "row")' => FALSE
           /\ At(c, "token")' => AddUser(c) /\ Known(call[c].id)'
           /\ At(c, "tenant")' => AddToken(c)
           /\ At(c, "bind")' => CreateTenant(c) /\ UNCHANGED left
           /\ At(c, "agent")' => ReadBinding(c)
           /\ At(c, "drop")' => ReadBinding(c) \/ MissBinding(c) \/ DeleteTenant(c)
           /\ Makes(call[c]) /\ Open(c)' => AddUser(c) \/ AddToken(c) \/ CreateTenant(c)
<1>1. ASSUME NEW pc \in PC, Goto(c, pc) PROVE call'[c].pc = pc
  BY <1>1, Moves DEF TypeInv, CallsOK
<1>2. CASE AddUser(c)
  <2>1. CASE Goto(c, "failed")
    BY <1>1, <1>2, <2>1 DEF At, Open, PC
  <2>2. CASE /\ given + 1 \in Ids /\ call[c].name \in Names
             /\ users' = [users EXCEPT ![given + 1] = NewUser(call[c].name)]
             /\ call' = [call EXCEPT ![c] = [call[c] EXCEPT !.pc = "token", !.id = given + 1]]
    <3>1. given + 1 \in 0..MaxUsers
      BY <2>2 DEF Ids
    <3>2. call'[c].pc = "token" /\ call'[c].id = given + 1
      BY <2>2, <3>1, AddedCall
    <3>3. Known(call[c].id)'
      <4>1. users'[given + 1] = NewUser(call[c].name) /\ NewUser(call[c].name) # NoUser
        BY <2>2, NewUserTyped DEF TypeInv, UsersOK
      <4> QED BY <2>2, <3>2, <4>1 DEF Known
    <3> QED BY <1>2, <3>2, <3>3 DEF At
  <2> QED BY <1>2, <2>1, <2>2, AddedUser
<1>3. CASE ReadBinding(c)
  BY <1>3, ReadCall, Where DEF At, Makes, ReadBinding
<1>4. CASE Send(c)
  BY <1>4, SentCall, Where DEF At, Makes, Send
<1>5. CASE UpdateTenant(c)
  <2>1. CASE Goto(c, "ok")
    BY <1>1, <2>1 DEF At, Open, PC
  <2>2. CASE call' = [call EXCEPT ![c].pc = "ok", ![c].sure = FALSE]
    BY <2>2 DEF At, Open, TypeInv, CallsOK, CallRec
  <2> QED BY <1>5, <2>1, <2>2 DEF UpdateTenant
<1>6. CASE AddToken(c) \/ Bind(c) \/ DropUser(c) \/ DropToken(c) \/ Fail(c)
  <2>1. PICK pc \in {"tenant", "ok", "failed"} : Goto(c, pc) /\ (pc = "tenant" => AddToken(c))
    BY <1>6 DEF AddToken, Bind, DropUser, DropToken, Fail
  <2>2. call'[c].pc = pc
    BY <1>1, <2>1 DEF PC
  <2> QED BY <1>6, <2>1, <2>2 DEF At, Open
<1>7. CASE UpdateRow(c)
  <2>1. PICK pc \in {"read", "ok", "failed"} : Goto(c, pc)
    BY <1>7 DEF UpdateRow
  <2>2. call'[c].pc = pc /\ ~Makes(call[c])
    BY <1>1, <1>7, <2>1 DEF PC, UpdateRow, Makes
  <2> QED BY <2>1, <2>2 DEF At, Open
<1>8. CASE CreateTenant(c) \/ DeleteTenant(c)
  <2>1. PICK pc \in {"bind", "drop", "failed"} : /\ Goto(c, pc)
                                                 /\ pc = "bind" => CreateTenant(c) /\ UNCHANGED left
                                                 /\ pc = "drop" => DeleteTenant(c)
    BY <1>8 DEF CreateTenant, DeleteTenant
  <2>2. call'[c].pc = pc
    BY <1>1, <2>1 DEF PC
  <2>3. Makes(call[c]) => ~DeleteTenant(c)
    BY DEF Makes, DeleteTenant
  <2> QED BY <1>8, <2>1, <2>2, <2>3 DEF At, Open
<1>9. CASE MissBinding(c) \/ SendUnbound(c)
  BY <1>9, MissedCall DEF At, Open, Makes
<1> QED BY <1>2, <1>3, <1>4, <1>5, <1>6, <1>7, <1>8, <1>9 DEF Step

(* What becomes of a row: it stays, is added, bound, switched or dropped.   *)
LEMMA StepRow ==
    ASSUME TypeInv, NEW c \in Calls, Step(c), NEW id \in Ids
    PROVE  \/ users'[id] = users[id]
           \/ /\ AddUser(c) /\ id = given + 1 /\ given' = id /\ users[id] = NoUser
              /\ Named(call[c].name) = {} /\ call[c].name \in Names
              /\ users'[id] = NewUser(call[c].name) /\ call'[c].id = id
              /\ \A i \in Ids : i # id => users'[i] = users[i]
           \/ /\ Bind(c) /\ call[c].id = id /\ Known(id)
              /\ users'[id].name = users[id].name /\ users'[id].disabled = users[id].disabled
              /\ users'[id].tenant = call[c].name /\ users'[id].secret = c
           \/ /\ UpdateRow(c) /\ call[c].id = id /\ Known(id)
              /\ users'[id].name = users[id].name /\ users'[id].tenant = users[id].tenant
              /\ users'[id].secret = users[id].secret /\ users'[id] # NoUser
              /\ users'[id].disabled = (call[c].op = "disable")
           \/ /\ DropUser(c) /\ call[c].id = id /\ users'[id] = NoUser
<1>0. users \in [Ids -> UserRec]
  BY DEF TypeInv, UsersOK
<1>1. CASE UNCHANGED users
  BY <1>1
<1>2. CASE AddUser(c)
  <2>1. CASE /\ Named(call[c].name) = {} /\ given + 1 \in Ids /\ given' = given + 1
             /\ users[given + 1] = NoUser /\ call[c].name \in Names
             /\ users' = [users EXCEPT ![given + 1] = NewUser(call[c].name)]
             /\ call' = [call EXCEPT ![c] = [call[c] EXCEPT !.pc = "token", !.id = given + 1]]
    <3>1. given + 1 \in 0..MaxUsers
      BY <2>1 DEF Ids
    <3>2. call'[c].id = given + 1
      BY <2>1, <3>1, AddedCall
    <3>3. \A i \in Ids : users'[i] = IF i = given + 1 THEN NewUser(call[c].name) ELSE users[i]
      BY <1>0, <2>1
    <3> QED BY <1>2, <2>1, <3>2, <3>3
  <2> QED BY <1>1, <1>2, <2>1, AddedUser
<1>3. CASE Bind(c) /\ Known(call[c].id)
  <2>1. \/ UNCHANGED users
        \/ users' = [users EXCEPT ![call[c].id] = WithBinding(users[call[c].id], call[c].name, c)]
    BY <1>0, <1>3 DEF Bind, Bound, WithBinding, Known
  <2>2. users[call[c].id] \in UserRec /\ call[c].name \in Tenants /\ c \in Creds
    BY <1>0, <1>3, Where DEF Bind, Known, Tenants, Creds
  <2>3. LET v == WithBinding(users[call[c].id], call[c].name, c) IN
          /\ v.name = users[call[c].id].name /\ v.disabled = users[call[c].id].disabled
          /\ v.tenant = call[c].name /\ v.secret = c
    BY <2>2, Rebound
  <2> QED BY <1>0, <1>1, <1>3, <2>1, <2>3
<1>4. CASE UpdateRow(c) /\ Known(call[c].id)
  <2> DEFINE u == [users[call[c].id] EXCEPT !.disabled = (call[c].op = "disable")]
  <2>1. users' = [users EXCEPT ![call[c].id] = u]
    BY <1>0, <1>4 DEF UpdateRow, Known
  <2>2. /\ users[call[c].id] \in UserRec /\ users[call[c].id] # NoUser /\ call[c].id \in Ids
        /\ UserOK(call[c].id, users[call[c].id], given)
    BY <1>0, <1>4 DEF Known, TypeInv, UsersOK
  <2>3. /\ u.name = users[call[c].id].name /\ u.tenant = users[call[c].id].tenant
        /\ u.secret = users[call[c].id].secret /\ u.disabled = (call[c].op = "disable")
    BY <2>2 DEF UserRec
  <2>4. u # NoUser
    BY <2>2, <2>3, Distinct, NobodyTyped DEF UserOK
  <2> HIDE DEF u
  <2> QED BY <1>0, <1>4, <2>1, <2>2, <2>3, <2>4
<1>5. CASE DropUser(c) /\ Known(call[c].id)
  BY <1>0, <1>5 DEF DropUser
<1>6. CASE ~Known(call[c].id) /\ (Bind(c) \/ UpdateRow(c) \/ DropUser(c))
  BY <1>1, <1>6 DEF Bind, UpdateRow, DropUser
<1>7. CASE ~(AddUser(c) \/ Bind(c) \/ UpdateRow(c) \/ DropUser(c))
  <2>1. UNCHANGED users
    BY <1>7 DEF Step, AddToken, CreateTenant, ReadBinding, UpdateTenant, DeleteTenant, DropToken, Send, MissBinding, SendUnbound, Fail
  <2> QED BY <1>1, <2>1
<1> QED BY <1>2, <1>3, <1>4, <1>5, <1>6, <1>7

(* What becomes of a tenant.                                                *)
LEMMA StepTenant ==
    ASSUME TypeInv, NEW c \in Calls, Step(c), NEW t \in Tenants
    PROVE  /\ \/ agent'[t] = agent[t]
              \/ /\ CreateTenant(c) /\ call[c].name = t /\ ~On(t)
                 /\ agent'[t] = [disabled |-> FALSE, secret |-> c] /\ On(t)'
              \/ /\ UpdateTenant(c) /\ call[c].name = t /\ On(t) /\ On(t)'
                 /\ agent'[t].secret = agent[t].secret /\ agent'[t].disabled
              \/ /\ DeleteTenant(c) /\ call[c].name = t /\ agent'[t] = NoTenant
                 /\ call[c].id \in doomed'
           /\ doomed \subseteq doomed'
<1>0. agent \in [Tenants -> HomeRec] /\ doomed \subseteq doomed'
  BY DEF TypeInv, RestOK, Step, AddUser, AddToken, CreateTenant, Bind, UpdateRow, ReadBinding,
         UpdateTenant, DeleteTenant, DropUser, DropToken, Send, MissBinding, SendUnbound, Fail
<1>1. CASE UNCHANGED agent
  BY <1>0, <1>1
<1>2. CASE CreateTenant(c)
  <2>1. \/ UNCHANGED agent
        \/ ~On(call[c].name) /\ agent' = [agent EXCEPT ![call[c].name] = [disabled |-> FALSE, secret |-> c]]
    BY <1>2 DEF CreateTenant
  <2>2. [disabled |-> FALSE, secret |-> c] # NoTenant
    BY Distinct DEF NoTenant
  <2> QED BY <1>0, <1>2, <2>1, <2>2 DEF On
<1>3. CASE UpdateTenant(c)
  <2>1. \/ UNCHANGED agent
        \/ On(call[c].name) /\ agent' = [agent EXCEPT ![call[c].name].disabled = TRUE]
    BY <1>3 DEF UpdateTenant
  <2>2. ASSUME call[c].name = t, agent' = [agent EXCEPT ![t].disabled = TRUE]
        PROVE  agent'[t].secret = agent[t].secret /\ agent'[t].disabled = TRUE
    BY <1>0, <2>2 DEF HomeRec
  <2>3. agent'[t].disabled = TRUE => On(t)'
    BY DEF On, NoTenant
  <2> QED BY <1>0, <1>3, <2>1, <2>2, <2>3
<1>4. CASE DeleteTenant(c)
  BY <1>0, <1>4 DEF DeleteTenant
<1>5. CASE ~(CreateTenant(c) \/ UpdateTenant(c) \/ DeleteTenant(c))
  <2>1. UNCHANGED agent
    BY <1>5 DEF Step, AddUser, AddToken, Bind, UpdateRow, ReadBinding, DropUser, DropToken, Send, MissBinding, SendUnbound, Fail
  <2> QED BY <1>1, <2>1
<1> QED BY <1>2, <1>3, <1>4, <1>5

(* A restart ends every call.                                               *)
LEMMA RestartCall ==
    ASSUME TypeInv, Restart, NEW c \in Calls
    PROVE  /\ ~Open(c)' /\ (At(c, "new")' => At(c, "new"))
           /\ call'[c].op = call[c].op /\ call'[c].id = call[c].id /\ call'[c].name = call[c].name
           /\ latest' = Nobody /\ left' # Full /\ UNCHANGED <<agent, doomed, crossed, admin>>
<1>1. call'[c] = IF Open(c) THEN [call[c] EXCEPT !.pc = "failed"] ELSE call[c]
  BY DEF Restart
<1>2. call[c] \in CallRec
  BY DEF TypeInv, CallsOK
<1>3. LET r == [call[c] EXCEPT !.pc = "failed"] IN
        r.pc = "failed" /\ r.op = call[c].op /\ r.id = call[c].id /\ r.name = call[c].name
  BY <1>2 DEF CallRec
<1>4. left' # Full
  BY SpendTyped DEF Restart
<1> QED BY <1>1, <1>3, <1>4 DEF Restart, Open, At

-----------------------------------------------------------------------------
(* Names are unique, a user is bound under the own name or to the default   *)
(* tenant, and what a call made carries the call's name.                    *)
UniqueNames == \A u, v \in Ids : Known(u) /\ users[u].name = users[v].name => u = v
OwnTenant   == \A u \in Ids : users[u].tenant \in {Nobody, users[u].name, Default}
MadeNamed   == \A c \in Calls : Makes(call[c]) /\ Known(call[c].id)
                                  => users[call[c].id].name = call[c].name
NamesInv    == TypeInv /\ UniqueNames /\ OwnTenant /\ MadeNamed

LEMMA NamesInit == Init => NamesInv
<1> SUFFICES ASSUME Init PROVE NamesInv
  OBVIOUS
<1>1. PICK other \in (Names \ {Operator}) \cup {Nobody} :
        users = [id \in Ids |->
                    CASE id = 1 -> [NewUser(Operator) EXCEPT !.tenant = Default, !.secret = Chart]
                      [] id = 2 /\ other # Nobody ->
                           [NewUser(other) EXCEPT !.tenant = other, !.secret = Early]
                      [] OTHER -> NoUser]
  BY DEF Init
<1>2. \A id \in Ids : /\ id = 1 => users[id].name = Operator /\ users[id].tenant = Default
                      /\ id = 2 /\ other # Nobody => users[id].name = other /\ users[id].tenant = other
                      /\ id # 1 /\ ~(id = 2 /\ other # Nobody) => users[id] = NoUser
  BY <1>1 DEF NewUser
<1>3. UniqueNames
  BY <1>2, Distinct, NobodyTyped DEF UniqueNames, Known
<1>4. OwnTenant
  BY <1>2, NobodyTyped DEF OwnTenant
<1>5. MadeNamed
  BY DEF Init, MadeNamed, NoCall, Makes
<1> QED BY <1>3, <1>4, <1>5, InitTyped DEF NamesInv

(* The names that stay when rows stay, are bound, switched or dropped.      *)
LEMMA NamesStep == NamesInv /\ [Next]_vars => NamesInv'
<1> SUFFICES ASSUME NamesInv, [Next]_vars PROVE UniqueNames' /\ OwnTenant' /\ MadeNamed'
  BY TypeStep DEF NamesInv
<1>0. /\ TypeInv /\ given \in Nat
      /\ \A id \in Ids : Known(id) => id <= given /\ users[id].name \in Names
      /\ \A c \in Calls : Makes(call[c]) => call[c].id <= given /\ call[c].name \in Names
  <2>1. TypeInv /\ given \in Nat
    BY DEF NamesInv, TypeInv, RestOK
  <2>2. \A id \in Ids : Known(id) => id <= given /\ users[id].name \in Names
    BY <2>1 DEF TypeInv, UsersOK, UserOK, Known
  <2>3. \A c \in Calls : CallOK(call[c], given)
    BY <2>1 DEF TypeInv, CallsOK
  <2>4. \A c \in Calls : Makes(call[c]) => call[c].id <= given /\ call[c].name \in Names
    BY <2>3 DEF CallOK, Makes
  <2> QED BY <2>1, <2>2, <2>4
<1>1. ASSUME UNCHANGED users, \A c \in Calls : \/ ~Makes(call[c])'
                                               \/ Makes(call[c]) /\ call'[c].id = call[c].id
                                                                 /\ call'[c].name = call[c].name
                                               \/ call'[c].id = 0
      PROVE  UniqueNames' /\ OwnTenant' /\ MadeNamed'
  BY <1>1, Distinct DEF NamesInv, UniqueNames, OwnTenant, MadeNamed, Known
<1>2. ASSUME NEW c \in Calls, Begin(c) PROVE UniqueNames' /\ OwnTenant' /\ MadeNamed'
  <2>1. PICK r \in CallRec : /\ call' = [call EXCEPT ![c] = r] /\ UNCHANGED users
                             /\ r.op \in {"create", "provision"} => r.id = 0
    BY <1>0, <1>2, BeginCall
  <2>2. \A d \in Calls : call'[d] = IF d = c THEN r ELSE call[d]
    BY <1>0, <2>1 DEF TypeInv, CallsOK
  <2> QED BY <1>1, <2>1, <2>2 DEF Makes
<1>3. ASSUME NEW c \in Calls, Step(c) PROVE UniqueNames' /\ OwnTenant' /\ MadeNamed'
  <2>1. ASSUME NEW id \in Ids
        PROVE  \/ users'[id].name = users[id].name /\ (Known(id)' => Known(id))
               \/ users'[id] = NoUser
               \/ /\ AddUser(c) /\ id = given + 1 /\ users'[id].name = call[c].name
                  /\ call'[c].id = id
                  /\ \A i \in Ids : i # id => users'[i] = users[i] /\ users[i].name # call[c].name
    <3>1. CASE users'[id] = users[id]
      BY <3>1 DEF Known
    <3>2. CASE /\ AddUser(c) /\ id = given + 1 /\ Named(call[c].name) = {} /\ call[c].name \in Names
               /\ users'[id] = NewUser(call[c].name) /\ call'[c].id = id
               /\ \A i \in Ids : i # id => users'[i] = users[i]
      <4>1. \A i \in Ids : users[i].name # call[c].name
        BY <3>2 DEF Named
      <4>2. users'[id].name = call[c].name
        BY <3>2, NewUserTyped
      <4> QED BY <3>2, <4>1, <4>2
    <3>3. CASE users'[id].name = users[id].name /\ Known(id)
      BY <3>3
    <3>4. CASE users'[id] = NoUser
      BY <3>4
    <3> QED BY <1>0, <1>3, <3>1, <3>2, <3>3, <3>4, StepRow
  <2>2. UniqueNames'
    <3> SUFFICES ASSUME NEW u \in Ids, NEW v \in Ids, Known(u)', users'[u].name = users'[v].name
                 PROVE  u = v
      BY DEF UniqueNames
    <3>1. users'[u].name \in Names /\ users'[u] # NoUser
      BY TypeStep, <1>0 DEF TypeInv, UsersOK, UserOK, Known
    <3>2. users'[v] # NoUser
      BY <3>1, NobodyTyped, Distinct
    <3>3. CASE users'[u].name = users[u].name /\ Known(u) /\ users'[v].name = users[v].name
      BY <3>3 DEF NamesInv, UniqueNames
    <3> QED BY <2>1, <3>1, <3>2, <3>3
  <2>3. OwnTenant'
    <3> SUFFICES ASSUME NEW id \in Ids PROVE users'[id].tenant \in {Nobody, users'[id].name, Default}
      BY DEF OwnTenant
    <3>1. CASE Bind(c) /\ call[c].id = id /\ Known(id) /\ users'[id].name = users[id].name
               /\ users'[id].tenant = call[c].name
      <4>1. Makes(call[c])
        BY <1>0, <3>1, Where DEF Bind, Makes
      <4>2. users[id].name = call[c].name
        BY <3>1, <4>1 DEF NamesInv, MadeNamed
      <4> QED BY <3>1, <4>2
    <3>2. CASE \/ users'[id] = NoUser \/ users'[id] = users[id]
               \/ users'[id].name = users[id].name /\ users'[id].tenant = users[id].tenant
      BY <3>2, NobodyTyped DEF NamesInv, OwnTenant
    <3>3. CASE users'[id] = NewUser(call[c].name) /\ call[c].name \in Names
      BY <3>3, NewUserTyped
    <3> QED BY <1>0, <1>3, <3>1, <3>2, <3>3, StepRow
  <2>4. MadeNamed'
    <3> SUFFICES ASSUME NEW d \in Calls, Makes(call[d])', Known(call[d].id)'
                 PROVE  users'[call'[d].id].name = call'[d].name
      BY DEF MadeNamed
    <3> DEFINE id == call'[d].id
    <3>1. id \in Ids
      BY DEF Known
    <3>2. CASE d = c /\ AddUser(c)
      <4>1. call'[c].name = call[c].name
        BY <1>0, <1>3, <3>2, StepCall DEF AddUser, ReadBinding, Send, SendUnbound, At
      <4>2. CASE users'[id].name = call[c].name
        BY <3>2, <4>1, <4>2
      <4>3. CASE users' = users /\ Goto(c, "failed")
        <5>1. call'[c].id = call[c].id /\ call'[c].op = call[c].op
          BY <1>0, <4>3, Moves DEF TypeInv, CallsOK, PC
        <5> QED BY <3>2, <4>1, <4>3, <5>1 DEF NamesInv, MadeNamed, Makes, Known
      <4>4. CASE users' = [users EXCEPT ![given + 1] = NewUser(call[c].name)] /\ given + 1 \in Ids
                 /\ call' = [call EXCEPT ![c] = [call[c] EXCEPT !.pc = "token", !.id = given + 1]]
                 /\ call[c].name \in Names
        <5>1. given + 1 \in 0..MaxUsers
          BY <4>4 DEF Ids
        <5>2. call'[c].id = given + 1
          BY <1>0, <4>4, <5>1, AddedCall
        <5>3. users'[given + 1] = NewUser(call[c].name)
          BY <1>0, <4>4 DEF TypeInv, UsersOK
        <5>4. NewUser(call[c].name).name = call[c].name
          BY <4>4, NewUserTyped
        <5> QED BY <3>2, <4>1, <5>2, <5>3, <5>4
      <4> QED BY <1>0, <3>2, <4>3, <4>4, AddedUser
    <3>3. CASE d # c \/ ~AddUser(c)
      <4>1. id = call[d].id /\ call'[d].name = call[d].name /\ Makes(call[d])
        <5>1. CASE d # c
          BY <1>0, <1>3, <5>1, StepCall DEF Makes
        <5>2. CASE d = c
          BY <1>0, <1>3, <3>3, <5>2, StepCall, Where DEF Makes, ReadBinding, Send, SendUnbound
        <5> QED BY <5>1, <5>2
      <4>2. id <= given /\ users'[id] # NoUser
        BY <1>0, <4>1 DEF Known
      <4>3. users'[id].name = users[id].name /\ Known(id)
        BY <1>0, <2>1, <3>1, <4>2
      <4> QED BY <4>1, <4>3 DEF NamesInv, MadeNamed
    <3> QED BY <3>2, <3>3
  <2> QED BY <2>2, <2>3, <2>4
<1>4. CASE Restart
  <2>1. PICK id \in Ids, row \in UserRec :
             /\ users' = [users EXCEPT ![id] = row]
             /\ row.name = Operator /\ row.tenant = Default
             /\ \/ users[id].name = Operator /\ Known(id)
                \/ Named(Operator) = {} /\ id = given + 1
    BY <1>0, <1>4, Bootstraps DEF Restart
  <2>2. \A i \in Ids : users'[i] = IF i = id THEN row ELSE users[i]
    BY <1>0, <2>1 DEF TypeInv, UsersOK
  <2>3. \A i \in Ids : i # id => users[i].name # Operator
    BY <2>1 DEF NamesInv, UniqueNames, Named
  <2>4. UniqueNames'
    BY <2>1, <2>2, <2>3 DEF UniqueNames, Known, NamesInv
  <2>5. OwnTenant'
    BY <2>1, <2>2 DEF OwnTenant, NamesInv
  <2>6. MadeNamed'
    <3> SUFFICES ASSUME NEW d \in Calls, Makes(call[d])', Known(call[d].id)'
                 PROVE  users'[call'[d].id].name = call'[d].name
      BY DEF MadeNamed
    <3>1. Makes(call[d]) /\ call'[d].id = call[d].id /\ call'[d].name = call[d].name
      BY <1>0, <1>4, RestartCall DEF Makes
    <3>2. call[d].id \in Ids /\ call[d].id <= given
      BY <1>0, <3>1 DEF Known
    <3>3. CASE call[d].id = id
      <4>1. users[id].name = Operator /\ Known(id)
        BY <1>0, <2>1, <3>2, <3>3
      <4>2. users[id].name = call[d].name
        BY <3>1, <3>3, <4>1 DEF NamesInv, MadeNamed
      <4> QED BY <2>1, <2>2, <3>1, <3>2, <3>3, <4>1, <4>2
    <3>4. CASE call[d].id # id
      BY <2>2, <3>1, <3>2, <3>4 DEF NamesInv, MadeNamed, Known
    <3> QED BY <3>3, <3>4
  <2> QED BY <2>4, <2>5, <2>6
<1>5. CASE UNCHANGED vars
  BY <1>1, <1>5 DEF vars
<1> QED BY <1>2, <1>3, <1>4, <1>5, Steps DEF Next

-----------------------------------------------------------------------------
(* Secrets belong to one tenant each: those that a call minted to the       *)
(* tenant it made, the chart's to the default one.                          *)
Minted(c)  == /\ \A t \in Tenants : agent[t].secret = c => call[c].op = "provision" /\ call[c].name = t
              /\ \A u \in Ids : users[u].secret = c => /\ call[c].op = "provision"
                                                       /\ users[u].tenant = call[c].name
ChartOwn   == /\ \A t \in Tenants : agent[t].secret = Chart => t = Default
              /\ \A u \in Ids : users[u].secret = Chart => users[u].tenant = Default
EarlyOwn   == \A t \in Tenants, u \in Ids :
                agent[t].secret = Early /\ users[u].secret = Early => users[u].tenant = t
SecretsInv == NamesInv /\ (\A c \in Calls : Minted(c)) /\ ChartOwn /\ EarlyOwn

LEMMA SecretsInit == Init => SecretsInv
<1> SUFFICES ASSUME Init PROVE SecretsInv
  OBVIOUS
<1>1. PICK other \in (Names \ {Operator}) \cup {Nobody} :
      /\ users = [id \in Ids |->
                    CASE id = 1 -> [NewUser(Operator) EXCEPT !.tenant = Default, !.secret = Chart]
                      [] id = 2 /\ other # Nobody ->
                           [NewUser(other) EXCEPT !.tenant = other, !.secret = Early]
                      [] OTHER -> NoUser]
      /\ agent = [t \in Tenants |-> CASE t = Default -> [disabled |-> FALSE, secret |-> Chart]
                                      [] t = other -> [disabled |-> FALSE, secret |-> Early]
                                      [] OTHER -> NoTenant]
  BY DEF Init
<1>2. \A id \in Ids : /\ id = 1 => users[id].secret = Chart /\ users[id].tenant = Default
                      /\ id = 2 /\ other # Nobody => users[id].secret = Early /\ users[id].tenant = other
                      /\ id # 1 /\ ~(id = 2 /\ other # Nobody) => users[id].secret = Nobody
  BY <1>1, NobodyTyped DEF NewUser
<1>3. \A t \in Tenants : /\ t = Default => agent[t].secret = Chart
                         /\ t # Default /\ t = other => agent[t].secret = Early
                         /\ t # Default /\ t # other => agent[t].secret = Nobody
  <2>1. other # Default
    BY Distinct
  <2> QED BY <1>1, <2>1 DEF NoTenant
<1>4. other # Default /\ Nobody # Chart /\ Nobody # Early
  BY Distinct DEF Creds
<1>5. \A c \in Calls : Minted(c)
  BY <1>2, <1>3, Distinct DEF Minted
<1>6. ChartOwn
  BY <1>2, <1>3, <1>4, Distinct DEF ChartOwn
<1>7. EarlyOwn
  BY <1>2, <1>3, <1>4, Distinct DEF EarlyOwn
<1> QED BY <1>5, <1>6, <1>7, NamesInit DEF SecretsInv

LEMMA SecretsStep == SecretsInv /\ [Next]_vars => SecretsInv'
<1> SUFFICES ASSUME SecretsInv, [Next]_vars
             PROVE  (\A c \in Calls : Minted(c)') /\ ChartOwn' /\ EarlyOwn'
  BY NamesStep DEF SecretsInv
<1>0. TypeInv /\ Nobody # Chart /\ Nobody # Early /\ Nobody \notin Calls
  BY Distinct DEF SecretsInv, NamesInv, Creds
<1> DEFINE RowMoves    == \A u \in Ids :
                            \/ users'[u].secret = users[u].secret /\ users'[u].tenant = users[u].tenant
                            \/ users'[u].secret = Nobody
                            \/ users'[u].secret = Chart /\ users'[u].tenant = Default
                            \/ \E c \in Calls : /\ call'[c].op = "provision" /\ users'[u].secret = c
                                                /\ users'[u].tenant = call'[c].name
           TenantMoves == \A t \in Tenants :
                            \/ agent'[t].secret = agent[t].secret
                            \/ agent'[t].secret = Nobody
                            \/ \E c \in Calls : /\ call'[c].op = "provision" /\ agent'[t].secret = c
                                                /\ t = call'[c].name
           CallMoves   == \A c \in Calls :
                            call[c].op = "provision" => /\ call'[c].op = "provision"
                                                        /\ call'[c].name = call[c].name
<1>1. ASSUME RowMoves, TenantMoves, CallMoves
      PROVE  (\A c \in Calls : Minted(c)') /\ ChartOwn' /\ EarlyOwn'
  <2>1. ASSUME NEW c \in Calls PROVE Minted(c)'
    <3>1. ASSUME NEW t \in Tenants, agent'[t].secret = c
          PROVE  call'[c].op = "provision" /\ call'[c].name = t
      BY <1>0, <1>1, <3>1 DEF SecretsInv, Minted
    <3>2. ASSUME NEW u \in Ids, users'[u].secret = c
          PROVE  call'[c].op = "provision" /\ users'[u].tenant = call'[c].name
      BY <1>0, <1>1, <3>2, Distinct DEF SecretsInv, Minted
    <3> QED BY <3>1, <3>2 DEF Minted
  <2>2. ChartOwn'
    BY <1>0, <1>1, Distinct DEF SecretsInv, ChartOwn
  <2>3. EarlyOwn'
    BY <1>0, <1>1, Distinct DEF SecretsInv, EarlyOwn
  <2> QED BY <2>1, <2>2, <2>3
<1> HIDE DEF RowMoves, TenantMoves, CallMoves
<1>2. ASSUME NEW c \in Calls, Begin(c) PROVE (\A d \in Calls : Minted(d)') /\ ChartOwn' /\ EarlyOwn'
  <2>1. PICK r \in CallRec : /\ call' = [call EXCEPT ![c] = r] /\ UNCHANGED <<users, agent>> /\ At(c, "new")
    BY <1>0, <1>2, BeginCall
  <2>2. \A d \in Calls : d # c => call'[d] = call[d]
    BY <1>0, <2>1 DEF TypeInv, CallsOK
  <2>3. call[c].op = "none"
    BY <1>0, <2>1 DEF TypeInv, CallsOK, CallOK, At
  <2>4. RowMoves /\ TenantMoves /\ CallMoves
    BY <2>1, <2>2, <2>3 DEF RowMoves, TenantMoves, CallMoves
  <2> QED BY <1>1, <2>4
<1>3. ASSUME NEW c \in Calls, Step(c) PROVE (\A d \in Calls : Minted(d)') /\ ChartOwn' /\ EarlyOwn'
  <2>1. CallMoves
    BY <1>0, <1>3, StepCall, Where DEF CallMoves, ReadBinding, Send, SendUnbound
  <2>2. CreateTenant(c) \/ Bind(c) => call[c].op = "provision"
    BY <1>0, Where DEF CreateTenant, Bind
  <2>3. RowMoves
    <3> SUFFICES ASSUME NEW u \in Ids
                 PROVE  \/ users'[u].secret = users[u].secret /\ users'[u].tenant = users[u].tenant
                        \/ users'[u].secret = Nobody
                        \/ \E d \in Calls : /\ call'[d].op = "provision" /\ users'[u].secret = d
                                            /\ users'[u].tenant = call'[d].name
      BY DEF RowMoves
    <3>1. CASE Bind(c) /\ users'[u].tenant = call[c].name /\ users'[u].secret = c
      BY <2>1, <2>2, <3>1 DEF CallMoves
    <3>2. CASE users'[u] = NewUser(call[c].name) /\ call[c].name \in Names
      BY <3>2, NewUserTyped
    <3>3. CASE users'[u] = NoUser
      BY <3>3, NobodyTyped
    <3>4. CASE users'[u].secret = users[u].secret /\ users'[u].tenant = users[u].tenant
      BY <3>4
    <3> QED BY <1>0, <1>3, <3>1, <3>2, <3>3, <3>4, StepRow
  <2>4. TenantMoves
    <3> SUFFICES ASSUME NEW t \in Tenants
                 PROVE  \/ agent'[t].secret = agent[t].secret
                        \/ agent'[t].secret = Nobody
                        \/ \E d \in Calls : /\ call'[d].op = "provision" /\ agent'[t].secret = d
                                            /\ t = call'[d].name
      BY DEF TenantMoves
    <3>1. CASE CreateTenant(c) /\ call[c].name = t /\ agent'[t] = [disabled |-> FALSE, secret |-> c]
      BY <2>1, <2>2, <3>1 DEF CallMoves
    <3>2. CASE agent'[t] = NoTenant
      BY <3>2 DEF NoTenant
    <3> QED BY <1>0, <1>3, <3>1, <3>2, StepTenant
  <2> QED BY <1>1, <2>1, <2>3, <2>4
<1>4. CASE Restart
  <2>1. PICK id \in Ids, row \in UserRec :
             /\ users' = [users EXCEPT ![id] = row]
             /\ row.tenant = Default /\ (row = users[id] \/ row.secret = Chart)
    BY <1>0, <1>4, Bootstraps DEF Restart
  <2>2. RowMoves
    BY <1>0, <2>1 DEF RowMoves, TypeInv, UsersOK
  <2>3. TenantMoves /\ CallMoves
    BY <1>0, <1>4, RestartCall DEF TenantMoves, CallMoves, Restart
  <2> QED BY <1>1, <2>2, <2>3
<1>5. CASE UNCHANGED vars
  BY <1>1, <1>5 DEF vars, RowMoves, TenantMoves, CallMoves
<1> QED BY <1>2, <1>3, <1>4, <1>5, Steps DEF Next

(* The secret of a row is known to that row's tenant alone.                 *)
LEMMA SecretsMean ==
    ASSUME SecretsInv, NEW u \in Ids, NEW t \in Tenants, users[u].secret # Nobody,
           agent[t].secret = users[u].secret
    PROVE  users[u].tenant = t
<1>1. users[u].secret \in Calls \cup {Chart, Early}
  BY DEF SecretsInv, NamesInv, TypeInv, UsersOK, UserRec, Creds
<1> QED BY <1>1 DEF SecretsInv, Minted, ChartOwn, EarlyOwn

-----------------------------------------------------------------------------
(* As long as no two deletions of one user overlap: a deletion about to     *)
(* remove a tenant removes that of its user, who is there; and a creation   *)
(* about to bind its user finds the tenant it made.                         *)
Deleting(c) == Open(c) /\ call[c].op = "delete"
SoleDelete  == \A c, d \in Calls : Deleting(c) /\ Deleting(d) /\ call[c].id = call[d].id => c = d
OwnDelete   == \A c \in Calls : At(c, "agent") /\ Deleting(c) =>
                 Known(call[c].id) /\ call[c].name \in {users[call[c].id].name, Default}
ReadyBind   == \A c \in Calls : At(c, "bind") /\ Known(call[c].id) /\ call[c].id \notin doomed =>
                 On(call[c].name) /\ agent[call[c].name].secret = c
RowsHeld    == \A id \in Ids \ doomed : users[id].tenant \in Names =>
                 On(users[id].tenant) /\ agent[users[id].tenant].secret = users[id].secret
HeldInv     == NamesInv /\ ("delete" \notin crossed => SoleDelete /\ OwnDelete /\ ReadyBind /\ RowsHeld)

LEMMA HeldInit == Init => HeldInv
<1> SUFFICES ASSUME Init PROVE HeldInv
  OBVIOUS
<1>1. PICK other \in (Names \ {Operator}) \cup {Nobody} :
      /\ users = [id \in Ids |->
                    CASE id = 1 -> [NewUser(Operator) EXCEPT !.tenant = Default, !.secret = Chart]
                      [] id = 2 /\ other # Nobody ->
                           [NewUser(other) EXCEPT !.tenant = other, !.secret = Early]
                      [] OTHER -> NoUser]
      /\ agent = [t \in Tenants |-> CASE t = Default -> [disabled |-> FALSE, secret |-> Chart]
                                      [] t = other -> [disabled |-> FALSE, secret |-> Early]
                                      [] OTHER -> NoTenant]
  BY DEF Init
<1>2. \A id \in Ids : /\ id = 1 => users[id].tenant = Default
                      /\ id = 2 /\ other # Nobody => users[id].secret = Early /\ users[id].tenant = other
                      /\ id # 1 /\ ~(id = 2 /\ other # Nobody) => users[id].tenant = Nobody
  BY <1>1, NobodyTyped DEF NewUser
<1>3. other \in Names => On(other) /\ agent[other].secret = Early
  <2>1. other # Default /\ Early # Nobody
    BY Distinct DEF Creds
  <2> QED BY <1>1, <2>1 DEF On, NoTenant, Tenants
<1>4. RowsHeld
  BY <1>1, <1>2, <1>3, Distinct DEF RowsHeld
<1>5. SoleDelete /\ OwnDelete /\ ReadyBind
  BY DEF Init, SoleDelete, OwnDelete, ReadyBind, Deleting, Open, At, NoCall
<1> QED BY <1>4, <1>5, NamesInit DEF HeldInv

LEMMA HeldBegin ==
    ASSUME HeldInv, NEW c \in Calls, Begin(c), "delete" \notin crossed'
    PROVE  SoleDelete' /\ OwnDelete' /\ ReadyBind' /\ RowsHeld'
<1>1. TypeInv
  BY DEF HeldInv, NamesInv
<1>2. PICK r \in CallRec :
         /\ At(c, "new") /\ call' = [call EXCEPT ![c] = r]
         /\ r.pc \in {"row", "read", "token", "revoke", "send"}
         /\ crossed \subseteq crossed'
         /\ \A e \in Calls : /\ Open(e) /\ call[e].op = "delete"
                             /\ r.op = "delete" /\ call[e].id = r.id
                             => "delete" \in crossed'
         /\ UNCHANGED <<users, given, tokens, agent, doomed, left, admin>>
  BY <1>1, BeginCall
<1>3. \A d \in Calls : call'[d] = IF d = c THEN r ELSE call[d]
  BY <1>1, <1>2 DEF TypeInv, CallsOK
<1>4. SoleDelete /\ OwnDelete /\ ReadyBind /\ RowsHeld
  BY <1>2 DEF HeldInv
<1>5. SoleDelete'
  <2> SUFFICES ASSUME NEW d \in Calls, NEW e \in Calls, Deleting(d)', Deleting(e)', call'[d].id = call'[e].id
               PROVE  d = e
    BY DEF SoleDelete
  <2>1. CASE d # c /\ e # c
    BY <1>3, <1>4, <2>1 DEF SoleDelete, Deleting, Open
  <2>2. CASE d = c \/ e = c
    BY <1>2, <1>3, <2>2 DEF Deleting, Open
  <2> QED BY <2>1, <2>2
<1>6. OwnDelete' /\ ReadyBind' /\ RowsHeld'
  BY <1>2, <1>3, <1>4 DEF OwnDelete, ReadyBind, RowsHeld, Deleting, Open, At, Known, On
<1> QED BY <1>5, <1>6

(* A row whose deletion is under way goes by that deletion alone.           *)
LEMMA HeldRow ==
    ASSUME HeldInv, NEW c \in Calls, Step(c), "delete" \notin crossed,
           NEW d \in Calls, At(d, "agent"), Deleting(d), At(d, "agent")'
    PROVE  Known(call[d].id)' /\ users'[call[d].id].name = users[call[d].id].name
<1>1. TypeInv /\ Known(call[d].id) /\ call[d].id \in Ids /\ SoleDelete
  BY DEF HeldInv, NamesInv, OwnDelete, Known
<1>2. c # d
  BY <1>1, Enters DEF ReadBinding, At
<1>3. ~(DropUser(c) /\ call[c].id = call[d].id)
  BY <1>1, <1>2, StepCall, Where DEF DropUser, SoleDelete, Deleting
<1>4. call'[d].id = call[d].id
  BY <1>1, <1>2, StepCall
<1>5. users'[call[d].id].name = users[call[d].id].name /\ users[call[d].id].name \in Names
  BY <1>1, <1>3, StepRow DEF Known, TypeInv, UsersOK, UserOK
<1>6. users'[call[d].id] # NoUser
  BY <1>5, NobodyTyped, Distinct
<1> QED BY <1>1, <1>4, <1>5, <1>6 DEF Known

LEMMA HeldSteps ==
    ASSUME HeldInv, NEW c \in Calls, Step(c), "delete" \notin crossed'
    PROVE  SoleDelete' /\ OwnDelete' /\ ReadyBind' /\ RowsHeld'
<1>1. /\ NamesInv /\ TypeInv /\ SoleDelete /\ OwnDelete /\ ReadyBind /\ RowsHeld
      /\ "delete" \notin crossed
  <2>1. TypeInv
    BY DEF HeldInv, NamesInv
  <2> QED BY <2>1, StepCall DEF HeldInv
<1>2. /\ Open(c) /\ \A d \in Calls : d # c => call'[d] = call[d]
      /\ call'[c].op = call[c].op
  BY <1>1, StepCall
<1>3. SoleDelete'
  <2> SUFFICES ASSUME NEW d \in Calls, NEW e \in Calls, Deleting(d)', Deleting(e)', call'[d].id = call'[e].id
               PROVE  d = e
    BY DEF SoleDelete
  <2>1. \A x \in Calls : Deleting(x)' => Deleting(x) /\ call'[x].id = call[x].id
    BY <1>1, <1>2, StepCall, AddedUser DEF Deleting, Open
  <2> QED BY <1>1, <2>1 DEF SoleDelete
<1>4. OwnDelete'
  <2> SUFFICES ASSUME NEW d \in Calls, At(d, "agent")', Deleting(d)'
               PROVE  Known(call[d].id)' /\ call'[d].name \in {users'[call'[d].id].name, Default}
    BY DEF OwnDelete
  <2>1. CASE d = c
    <3>1. ReadBinding(c)
      BY <1>1, <2>1, Enters
    <3>2. /\ call'[c].pc = "agent" /\ call'[c].id = call[c].id
          /\ call'[c].pc = "agent" => Known(call[c].id) /\ call'[c].name = users[call[c].id].tenant
                                      /\ call'[c].name # Nobody
      BY <1>1, <2>1, <3>1, ReadCall DEF At
    <3>3. UNCHANGED users
      BY <3>1 DEF ReadBinding
    <3>4. users[call[c].id].tenant \in {Nobody, users[call[c].id].name, Default}
      BY <1>1, <3>2 DEF NamesInv, OwnTenant, Known
    <3> QED BY <2>1, <3>2, <3>3, <3>4 DEF Known
  <2>2. CASE d # c
    <3>1. call'[d] = call[d]
      BY <1>2, <2>2
    <3>2. At(d, "agent") /\ Deleting(d)
      BY <3>1 DEF At, Deleting, Open
    <3>3. Known(call[d].id)' /\ users'[call[d].id].name = users[call[d].id].name
      BY <1>1, <3>2, HeldRow
    <3> QED BY <1>1, <3>1, <3>2, <3>3 DEF OwnDelete
  <2> QED BY <2>1, <2>2
(* Of the tenants, a deletion removes that of its own user.                 *)
<1>5. ASSUME NEW id \in Ids, Known(id), users[id].name \in Names, DeleteTenant(c),
             call[c].name = users[id].name
      PROVE  id \in doomed'
  <2>1. /\ Known(call[c].id) /\ call[c].name \in {users[call[c].id].name, Default}
        /\ doomed' = doomed \cup {call[c].id}
    BY <1>1, <1>2, <1>5 DEF OwnDelete, Deleting, DeleteTenant
  <2>2. users[call[c].id].name = users[id].name /\ call[c].id \in Ids
    BY <1>5, <2>1, Distinct DEF Known
  <2>3. call[c].id = id
    BY <1>1, <1>5, <2>1, <2>2 DEF NamesInv, UniqueNames
  <2> QED BY <2>1, <2>3
<1>6. ReadyBind'
  <2> SUFFICES ASSUME NEW d \in Calls, At(d, "bind")', Known(call[d].id)', call'[d].id \notin doomed'
               PROVE  agent'[call'[d].name] # NoTenant /\ agent'[call'[d].name].secret = d
    BY DEF ReadyBind, On
  <2>1. CASE d = c
    <3>1. CreateTenant(c)
      BY <1>1, <2>1, Enters
    <3>2. call'[c].name = call[c].name /\ call[c].name \in Tenants
      BY <1>1, <3>1, StepCall, Where DEF CreateTenant, ReadBinding, Send, SendUnbound, At, Tenants
    <3>3. agent' = [agent EXCEPT ![call[c].name] = [disabled |-> FALSE, secret |-> c]] \/ Goto(c, "failed")
      BY <3>1 DEF CreateTenant
    <3>4. ~Goto(c, "failed")
      BY <1>1, <2>1, Moves DEF At, TypeInv, CallsOK, PC
    <3>5. agent'[call[c].name] = [disabled |-> FALSE, secret |-> c]
      BY <1>1, <3>2, <3>3, <3>4 DEF TypeInv, RestOK
    <3> QED BY <2>1, <3>2, <3>5, Distinct DEF On, NoTenant
  <2>2. CASE d # c
    <3>1. call'[d] = call[d] /\ At(d, "bind")
      BY <1>2, <2>2 DEF At
    <3>2. Makes(call[d]) /\ call[d].name \in Names /\ call[d].name \in Tenants
      BY <1>1, <3>1, Where DEF Makes, Tenants
    <3>3. Known(call[d].id) /\ call[d].id \in Ids
      <4>1. call[d].id \in Ids /\ users'[call[d].id] # NoUser /\ given \in Nat
        BY <1>1, <3>1 DEF Known, TypeInv, RestOK
      <4>3. call[d].id <= given
        BY <1>1, <3>2 DEF TypeInv, CallsOK, CallOK, Makes
      <4>2. users[call[d].id] # NoUser
        BY <1>1, <4>1, <4>3, StepRow DEF Known
      <4> QED BY <4>1, <4>2 DEF Known
    <3>4. users[call[d].id].name = call[d].name
      BY <1>1, <3>2, <3>3 DEF NamesInv, MadeNamed
    <3>5. On(call[d].name) /\ agent[call[d].name].secret = d
      <4>1. call[d].id \notin doomed
        BY <1>1, <3>1, <3>2, StepTenant
      <4> QED BY <1>1, <3>1, <3>3, <4>1 DEF ReadyBind
    <3>6. ~(DeleteTenant(c) /\ call[c].name = call[d].name)
      BY <1>5, <3>1, <3>2, <3>3, <3>4
    <3>7. agent'[call[d].name] # NoTenant /\ agent'[call[d].name].secret = agent[call[d].name].secret
      BY <1>1, <3>2, <3>5, <3>6, <3>1, StepTenant DEF On
    <3> QED BY <3>1, <3>5, <3>7 DEF On
  <2> QED BY <2>1, <2>2
<1>7. RowsHeld'
  <2> SUFFICES ASSUME NEW id \in Ids, id \notin doomed', users'[id].tenant \in Names
               PROVE  agent'[users'[id].tenant] # NoTenant /\ agent'[users'[id].tenant].secret = users'[id].secret
    BY DEF RowsHeld, On
  <2> DEFINE t == users'[id].tenant
  <2>0. id \notin doomed /\ t \in Tenants
    BY <1>1, StepTenant DEF Tenants
  <2>1. CASE users'[id].tenant = users[id].tenant /\ users'[id].secret = users[id].secret
    <3>1. On(t) /\ agent[t].secret = users[id].secret
      BY <1>1, <2>0, <2>1 DEF RowsHeld
    <3>2. users[id].name = t /\ Known(id)
      <4>1. users[id].tenant \in {Nobody, users[id].name, Default} /\ users[id].tenant \in Names
        BY <1>1, <2>1 DEF NamesInv, OwnTenant
      <4> QED BY <2>1, <4>1, Distinct, NobodyTyped DEF Known
    <3>3. ~(DeleteTenant(c) /\ call[c].name = t)
      BY <1>5, <3>2
    <3>4. agent'[t] # NoTenant /\ agent'[t].secret = agent[t].secret
      BY <1>1, <2>0, <3>1, <3>3, StepTenant DEF On
    <3> QED BY <2>1, <3>1, <3>4 DEF On
  <2>2. CASE /\ Bind(c) /\ call[c].id = id /\ Known(id)
             /\ users'[id].tenant = call[c].name /\ users'[id].secret = c
    <3>1. On(t) /\ agent[t].secret = c
      BY <1>1, <2>0, <2>2 DEF ReadyBind, Bind
    <3>2. UNCHANGED agent
      BY <2>2 DEF Bind
    <3> QED BY <2>2, <3>1, <3>2 DEF On
  <2>3. CASE users'[id] = NoUser
    BY <2>3, Distinct, NobodyTyped
  <2>4. CASE users'[id] = NewUser(call[c].name) /\ call[c].name \in Names
    BY <2>4, Distinct, NewUserTyped
  <2> QED BY <1>1, <2>1, <2>2, <2>3, <2>4, StepRow
<1> QED BY <1>3, <1>4, <1>6, <1>7

LEMMA HeldRestart ==
    ASSUME HeldInv, Restart, "delete" \notin crossed'
    PROVE  SoleDelete' /\ OwnDelete' /\ ReadyBind' /\ RowsHeld'
<1>1. TypeInv /\ RowsHeld
  BY DEF HeldInv, NamesInv, Restart
<1>2. PICK id \in Ids, row \in UserRec :
             /\ users' = [users EXCEPT ![id] = row] /\ row.tenant = Default
  BY <1>1, Bootstraps DEF Restart
<1>3. RowsHeld'
  BY <1>1, <1>2, Distinct DEF RowsHeld, On, Restart, TypeInv, UsersOK
<1>4. \A c \in Calls : ~Open(c)'
  BY <1>1, RestartCall
<1> QED BY <1>3, <1>4 DEF SoleDelete, OwnDelete, ReadyBind, Deleting, Open, At

LEMMA HeldStep == HeldInv /\ [Next]_vars => HeldInv'
<1> SUFFICES ASSUME HeldInv, [Next]_vars, "delete" \notin crossed'
             PROVE  SoleDelete' /\ OwnDelete' /\ ReadyBind' /\ RowsHeld'
  BY NamesStep DEF HeldInv
<1>1. CASE UNCHANGED vars
  <2>1. SoleDelete /\ OwnDelete /\ ReadyBind /\ RowsHeld
    BY <1>1 DEF HeldInv, vars
  <2> QED BY <1>1, <2>1 DEF vars, SoleDelete, OwnDelete, ReadyBind, RowsHeld, Deleting, Open, At, On, Known
<1> QED BY <1>1, HeldBegin, HeldSteps, HeldRestart, Steps DEF Next

-----------------------------------------------------------------------------
(* As long as nothing fails, restarts or overlaps a change, and the agent   *)
(* has an admin service, one change runs at a time: its user is there, the tenant it is about to delete is the    *)
(* user's, and every tenant is some user's or about to be.                  *)
Quiet       == admin /\ "changes" \notin crossed /\ left = Full
Changing(c) == Open(c) /\ call[c].op # "ask"
SoleChange  == \A c, d \in Calls : Changing(c) /\ Changing(d) => c = d
MadeThere   == \A c \in Calls : Makes(call[c]) /\ Open(c) /\ ~At(c, "row") => Known(call[c].id)
OwnAgent    == \A c \in Calls : At(c, "agent") /\ Deleting(c) =>
                 Known(call[c].id) /\ call[c].name = users[call[c].id].tenant
OffFirst    == \A c \in Calls : At(c, "drop") /\ Known(call[c].id) /\ users[call[c].id].tenant \in Names =>
                 ~On(users[call[c].id].tenant)
NoStray     == \A t \in Names : On(t) => \/ \E id \in Ids : users[id].tenant = t
                                         \/ \E c \in Calls : At(c, "bind") /\ call[c].name = t
QuietOK     == SoleChange /\ MadeThere /\ OwnAgent /\ OffFirst /\ NoStray
QuietInv    == NamesInv /\ (Quiet => QuietOK)

LEMMA QuietInit == Init => QuietInv
<1> SUFFICES ASSUME Init PROVE QuietInv
  OBVIOUS
<1>1. PICK other \in (Names \ {Operator}) \cup {Nobody} :
      /\ users = [id \in Ids |->
                    CASE id = 1 -> [NewUser(Operator) EXCEPT !.tenant = Default, !.secret = Chart]
                      [] id = 2 /\ other # Nobody ->
                           [NewUser(other) EXCEPT !.tenant = other, !.secret = Early]
                      [] OTHER -> NoUser]
      /\ agent = [t \in Tenants |-> CASE t = Default -> [disabled |-> FALSE, secret |-> Chart]
                                      [] t = other -> [disabled |-> FALSE, secret |-> Early]
                                      [] OTHER -> NoTenant]
  BY DEF Init
<1>2. other # Nobody => users[2].tenant = other
  <2>1. \A id \in Ids : id = 2 /\ other # Nobody =>
          users[id] = [NewUser(other) EXCEPT !.tenant = other, !.secret = Early]
    BY <1>1
  <2>2. [NewUser(other) EXCEPT !.tenant = other, !.secret = Early].tenant = other
    BY DEF NewUser
  <2> QED BY <2>1, <2>2, Distinct
<1>3. \A t \in Names : On(t) => t = other /\ other # Nobody
  BY <1>1, Distinct DEF On, Tenants
<1>4. NoStray
  BY <1>2, <1>3, Distinct DEF NoStray
<1>5. SoleChange /\ MadeThere /\ OwnAgent /\ OffFirst
  BY DEF Init, SoleChange, MadeThere, OwnAgent, OffFirst, Changing, Makes, Deleting, Open, At, NoCall
<1> QED BY <1>4, <1>5, NamesInit DEF QuietInv, QuietOK

LEMMA QuietBegin ==
    ASSUME QuietInv, NEW c \in Calls, Begin(c), Quiet'
    PROVE  QuietOK'
<1>1. TypeInv
  BY DEF QuietInv, NamesInv
<1>2. PICK r \in CallRec :
         /\ At(c, "new") /\ call' = [call EXCEPT ![c] = r]
         /\ r.pc \in {"row", "read", "token", "revoke", "send"}
         /\ r.op # "none" /\ (r.op \in {"create", "provision"} => r.pc = "row")
         /\ ~(\A d \in Calls : ~Open(d)) /\ r.op # "ask" => "changes" \in crossed'
         /\ crossed \subseteq crossed'
         /\ UNCHANGED <<users, given, tokens, agent, doomed, left, admin>>
  BY <1>1, BeginCall
<1>3. \A d \in Calls : call'[d] = IF d = c THEN r ELSE call[d]
  BY <1>1, <1>2 DEF TypeInv, CallsOK
<1>4. QuietOK
  BY <1>2 DEF QuietInv, Quiet
<1>5. SoleChange'
  BY <1>2, <1>3, <1>4 DEF QuietOK, SoleChange, Changing, Open, Quiet
<1>6. MadeThere'
  <2> SUFFICES ASSUME NEW d \in Calls, Makes(call[d])', Open(d)', ~At(d, "row")'
               PROVE  Known(call[d].id)'
    BY DEF MadeThere
  <2>1. d # c
    BY <1>2, <1>3 DEF Makes, At
  <2> QED BY <1>2, <1>3, <1>4, <2>1 DEF QuietOK, MadeThere, Open, At, Known
<1>7. OwnAgent' /\ OffFirst' /\ NoStray'
  BY <1>2, <1>3, <1>4 DEF QuietOK, OwnAgent, OffFirst, NoStray, Deleting, Open, At, Known, On
<1> QED BY <1>5, <1>6, <1>7 DEF QuietOK

(* While another call makes a change, a step changes no row and no tenant.  *)
LEMMA QuietElsewhere ==
    ASSUME QuietInv, NEW c \in Calls, Step(c), Quiet',
           NEW d \in Calls, d # c, Changing(d)
    PROVE  UNCHANGED <<users, agent>> /\ call'[d] = call[d]
<1>1. TypeInv /\ Open(c) /\ ~Fail(c) /\ ~MissBinding(c) /\ ~SendUnbound(c) /\ SoleChange
  <2>1. TypeInv
    BY DEF QuietInv, NamesInv
  <2>2. ~Fail(c) /\ ~MissBinding(c) /\ ~SendUnbound(c)
    BY <2>1, SpendTyped, MissedCall DEF Fail, Quiet
  <2>3. left = Full
    BY <2>1, <2>2, SpendTyped DEF Step, AddUser, AddToken, CreateTenant, Bind, UpdateRow, ReadBinding,
         UpdateTenant, DeleteTenant, DropUser, DropToken, Send, Quiet
  <2> QED BY <2>1, <2>2, <2>3, StepCall DEF QuietInv, QuietOK, Quiet
<1>2. call[c].op = "ask"
  BY <1>1 DEF SoleChange, Changing
<1>3. Send(c)
  BY <1>1, <1>2, Where DEF Step, AddUser, AddToken, CreateTenant, Bind, UpdateRow, ReadBinding,
         UpdateTenant, DeleteTenant, DropUser, DropToken
<1> QED BY <1>1, <1>3, StepCall DEF Send

LEMMA QuietSteps ==
    ASSUME QuietInv, NEW c \in Calls, Step(c), Quiet'
    PROVE  QuietOK'
<1>1. /\ NamesInv /\ TypeInv /\ QuietOK /\ UNCHANGED left /\ admin
      /\ ~Fail(c) /\ ~MissBinding(c) /\ ~SendUnbound(c)
  <2>1. TypeInv
    BY DEF QuietInv, NamesInv
  <2>2. ~Fail(c) /\ ~MissBinding(c) /\ ~SendUnbound(c)
    BY <2>1, SpendTyped, MissedCall DEF Fail, Quiet
  <2>3. UNCHANGED left
    BY <2>1, <2>2, SpendTyped DEF Step, AddUser, AddToken, CreateTenant, Bind, UpdateRow, ReadBinding,
         UpdateTenant, DeleteTenant, DropUser, DropToken, Send, Quiet
  <2> QED BY <2>1, <2>2, <2>3, StepCall DEF QuietInv, Quiet
<1>2. /\ Open(c) /\ \A d \in Calls : d # c => call'[d] = call[d]
      /\ call'[c].op = call[c].op
  BY <1>1, StepCall
<1>3. SoleChange'
  BY <1>1, <1>2 DEF QuietOK, SoleChange, Changing, Open
<1>4. MadeThere'
  <2> SUFFICES ASSUME NEW d \in Calls, Makes(call[d])', Open(d)', ~At(d, "row")'
               PROVE  Known(call[d].id)'
    BY DEF MadeThere
  <2>1. CASE d # c
    <3>1. call'[d] = call[d] /\ Makes(call[d]) /\ Open(d) /\ ~At(d, "row")
      BY <1>2, <2>1 DEF Makes, Open, At
    <3>2. UNCHANGED users
      BY <2>1, <3>1, QuietElsewhere DEF Changing, Makes
    <3> QED BY <1>1, <3>1, <3>2 DEF QuietOK, MadeThere, Known
  <2>2. CASE d = c
    <3>1. Makes(call[c])
      BY <1>2, <2>2 DEF Makes
    <3>2. CASE AddUser(c)
      <4>1. At(c, "token")'
        <5>1. PICK pc \in {"failed", "token"} : call'[c].pc = pc
          <6>1. CASE Goto(c, "failed")
            BY <1>1, <6>1, Moves DEF TypeInv, CallsOK, PC
          <6>2. CASE given + 1 \in Ids /\ call' = [call EXCEPT ![c] = [call[c] EXCEPT !.pc = "token", !.id = given + 1]]
            <7>1. given + 1 \in 0..MaxUsers
              BY <6>2 DEF Ids
            <7> QED BY <1>1, <6>2, <7>1, AddedCall
          <6> QED BY <1>1, <3>2, <6>1, <6>2, AddedUser
        <5> QED BY <2>2, <5>1 DEF Open, At
      <4> QED BY <1>1, <2>2, <4>1, Enters
    <3>3. CASE AddToken(c) \/ CreateTenant(c)
      <4>1. UNCHANGED users /\ call'[c].id = call[c].id /\ ~At(c, "row")
        BY <1>1, <3>3, StepCall DEF AddToken, CreateTenant, AddUser, At
      <4> QED BY <1>1, <1>2, <2>2, <3>1, <4>1 DEF QuietOK, MadeThere, Known
    <3> QED BY <1>1, <2>2, <3>1, <3>2, <3>3, Enters
  <2> QED BY <2>1, <2>2
<1>5. OwnAgent'
  <2> SUFFICES ASSUME NEW d \in Calls, At(d, "agent")', Deleting(d)'
               PROVE  Known(call[d].id)' /\ call'[d].name = users'[call'[d].id].tenant
    BY DEF OwnAgent
  <2>1. CASE d = c
    <3>1. ReadBinding(c)
      BY <1>1, <2>1, Enters
    <3>2. /\ call'[c].pc = "agent" /\ call'[c].id = call[c].id
          /\ call'[c].pc = "agent" => Known(call[c].id) /\ call'[c].name = users[call[c].id].tenant
      BY <1>1, <2>1, <3>1, ReadCall DEF At
    <3>3. UNCHANGED users
      BY <3>1 DEF ReadBinding
    <3> QED BY <2>1, <3>2, <3>3 DEF Known
  <2>2. CASE d # c
    <3>1. call'[d] = call[d] /\ At(d, "agent") /\ Deleting(d)
      BY <1>2, <2>2 DEF At, Deleting, Open
    <3>2. UNCHANGED users
      BY <2>2, <3>1, QuietElsewhere DEF Changing, Deleting
    <3> QED BY <1>1, <3>1, <3>2 DEF QuietOK, OwnAgent, Known
  <2> QED BY <2>1, <2>2
<1>6. OffFirst'
  <2> SUFFICES ASSUME NEW d \in Calls, At(d, "drop")', Known(call[d].id)',
                      users'[call'[d].id].tenant \in Names
               PROVE  agent'[users'[call'[d].id].tenant] = NoTenant
    BY DEF OffFirst, On
  <2>1. CASE d = c /\ ReadBinding(c)
    <3>1. /\ call'[c].id = call[c].id /\ AfterRead(c) = "drop"
      BY <1>1, <2>1, ReadCall DEF At
    <3>2. UNCHANGED users
      BY <2>1 DEF ReadBinding
    <3> QED BY <1>1, <2>1, <3>1, <3>2, Distinct DEF AfterRead, Known
  <2>2. CASE d = c /\ DeleteTenant(c)
    <3>1. UNCHANGED users /\ call'[c].id = call[c].id /\ Known(call[c].id)
      BY <1>1, <2>2, StepCall DEF DeleteTenant, AddUser, At, Known
    <3>2. call[c].name = users[call[c].id].tenant
      BY <1>1, <1>2, <2>2 DEF QuietOK, OwnAgent, DeleteTenant, Deleting
    <3>3. call[c].name \in Tenants
      BY <1>1, <2>2, Where DEF DeleteTenant
    <3> QED BY <1>1, <2>2, <3>1, <3>2, <3>3 DEF DeleteTenant, TypeInv, RestOK
  <2>3. CASE d # c
    <3>1. call'[d] = call[d] /\ At(d, "drop") /\ Changing(d)
      BY <1>1, <1>2, <2>3, Where DEF At, Changing, Open
    <3>2. UNCHANGED <<users, agent>>
      BY <2>3, <3>1, QuietElsewhere
    <3> QED BY <1>1, <3>1, <3>2 DEF QuietOK, OffFirst, Known, On
  <2> QED BY <1>1, <2>1, <2>2, <2>3, Enters
<1>7. NoStray'
  <2> SUFFICES ASSUME NEW t \in Names, agent'[t] # NoTenant
               PROVE  \/ \E id \in Ids : users'[id].tenant = t
                      \/ \E d \in Calls : At(d, "bind")' /\ call'[d].name = t
    BY DEF NoStray, On
  <2>0. t \in Tenants
    BY DEF Tenants
  <2>1. CASE CreateTenant(c) /\ call[c].name = t
    <3>1. ASSUME Goto(c, "failed") PROVE On(t)
      <4>1. ~Goto(c, "bind")
        BY <1>1, <3>1, Moves DEF TypeInv, CallsOK, PC
      <4>2. ~Spend("fails")
        BY <1>1, SpendTyped DEF Quiet
      <4> QED BY <2>1, <4>1, <4>2 DEF CreateTenant
    <3>2. CASE Goto(c, "bind")
      <4>1. call'[c].pc = "bind" /\ call'[c].name = call[c].name
        BY <1>1, <3>2, Moves DEF TypeInv, CallsOK, PC
      <4> QED BY <2>1, <4>1 DEF At
    <3>3. CASE Goto(c, "failed")
      <4>1. On(t) /\ UNCHANGED users
        BY <2>1, <3>1, <3>3 DEF CreateTenant
      <4> QED BY <1>1, <1>2, <2>1, <4>1 DEF QuietOK, NoStray, At, CreateTenant
    <3> QED BY <2>1, <3>2, <3>3 DEF CreateTenant
  <2>2. CASE ~(CreateTenant(c) /\ call[c].name = t)
    <3>1. On(t)
      BY <1>1, <2>0, <2>2, StepTenant DEF On
    <3>2. CASE \E id \in Ids : users[id].tenant = t
      <4>1. PICK id \in Ids : users[id].tenant = t
        BY <3>2
      <4>2. CASE users'[id].tenant = users[id].tenant
        BY <4>1, <4>2
      <4>3. CASE AddUser(c) /\ users[id] = NoUser
        BY <4>1, <4>3, NobodyTyped, Distinct
      <4>4. CASE Bind(c) /\ call[c].id = id /\ Known(id) /\ users'[id].tenant = call[c].name
        <5>1. Makes(call[c])
          BY <1>1, <4>4, Where DEF Makes, Bind
        <5>2. call[c].name = users[id].name
          BY <1>1, <4>4, <5>1 DEF NamesInv, MadeNamed
        <5>3. users[id].tenant \in {Nobody, users[id].name, Default}
          BY <1>1 DEF NamesInv, OwnTenant
        <5> QED BY <4>1, <4>4, <5>2, <5>3, Distinct
      <4>5. CASE DropUser(c) /\ call[c].id = id
        <5>1. ~On(t)
          BY <1>1, <4>1, <4>5, Distinct, NobodyTyped DEF QuietOK, OffFirst, DropUser, Known
        <5> QED BY <3>1, <5>1
      <4> QED BY <1>1, <4>2, <4>3, <4>4, <4>5, StepRow
    <3>3. CASE \E d \in Calls : At(d, "bind") /\ call[d].name = t
      <4>1. PICK d \in Calls : At(d, "bind") /\ call[d].name = t
        BY <3>3
      <4>2. CASE d # c
        BY <1>2, <4>1, <4>2 DEF At
      <4>3. CASE d = c
        <5>1. Bind(c)
          BY <1>1, <4>1, <4>3 DEF Step, AddUser, AddToken, CreateTenant, UpdateRow, ReadBinding,
                UpdateTenant, DeleteTenant, DropUser, DropToken, Send, At
        <5>2. Makes(call[c]) /\ Open(c) /\ ~At(c, "row")
          BY <1>1, <4>1, <4>3, Where DEF Makes, At, Open
        <5>3. Known(call[c].id)
          BY <1>1, <5>2 DEF QuietOK, MadeThere
        <5>4. users' = [users EXCEPT ![call[c].id] = WithBinding(users[call[c].id], call[c].name, c)]
          BY <1>1, <5>1, <5>3 DEF Bind, Bound, WithBinding, Known, TypeInv, UsersOK
        <5>5. users[call[c].id] \in UserRec /\ call[c].name \in Tenants /\ c \in Creds /\ call[c].id \in Ids
          BY <1>1, <2>0, <4>1, <4>3, <5>3 DEF Known, TypeInv, UsersOK, Creds
        <5>6. WithBinding(users[call[c].id], call[c].name, c).tenant = call[c].name
          BY <5>5, Rebound
        <5>7. users'[call[c].id].tenant = t
          BY <1>1, <4>1, <4>3, <5>4, <5>5, <5>6 DEF TypeInv, UsersOK
        <5> QED BY <5>5, <5>7
      <4> QED BY <4>2, <4>3
    <3> QED BY <1>1, <3>1, <3>2, <3>3 DEF QuietOK, NoStray
  <2> QED BY <2>1, <2>2
<1> QED BY <1>3, <1>4, <1>5, <1>6, <1>7 DEF QuietOK

LEMMA QuietStep == QuietInv /\ [Next]_vars => QuietInv'
<1> SUFFICES ASSUME QuietInv, [Next]_vars, Quiet' PROVE QuietOK'
  BY NamesStep DEF QuietInv
<1>1. CASE UNCHANGED vars
  <2>1. QuietOK
    BY <1>1 DEF QuietInv, Quiet, vars
  <2> QED BY <1>1, <2>1 DEF vars, QuietOK, SoleChange, MadeThere, OwnAgent, OffFirst, NoStray,
                            Changing, Deleting, Makes, Open, At, On, Known
<1>2. ~Restart
  BY SpendTyped DEF QuietInv, NamesInv, Quiet, Restart
<1> QED BY <1>1, <1>2, QuietBegin, QuietSteps, Steps DEF Next

(* A user's row and the agent agree, whatever fails and restarts: the       *)
(* tenant made for a user is there with the user's secret until a deletion  *)
(* removes it, and with an admin service and without failures and overlaps  *)
(* no tenant is nobody's.                                                   *)
THEOREM RowsAndAgentAgree == Spec => []BindingsHold
<1>1. Init => HeldInv /\ QuietInv
  BY HeldInit, QuietInit
<1>2. HeldInv /\ QuietInv /\ [Next]_vars => HeldInv' /\ QuietInv'
  BY HeldStep, QuietStep
<1>3. HeldInv /\ QuietInv => BindingsHold
  BY DEF HeldInv, QuietInv, BindingsHold, RowsHeld, Quiet, QuietOK, NoStray, Full
<1> QED BY <1>1, <1>2, <1>3, PTL DEF Spec

-----------------------------------------------------------------------------
(* What the call that began last, with no other under way, has done so far. *)
Made(c) == /\ Known(call[c].id) /\ ~users[call[c].id].disabled
           /\ users[call[c].id].name = call[c].name
CreateSoFar(c) ==
    /\ Makes(call[c]) /\ call[c].pc \in {"token", "tenant", "bind", "ok"} => Made(c)
    /\ Makes(call[c]) /\ call[c].pc \in {"tenant", "bind", "ok"} => tokens[c] = call[c].id
    /\ call[c].op = "provision" /\ call[c].pc \in {"bind", "ok"} =>
         agent[call[c].name] = [disabled |-> FALSE, secret |-> c]
    /\ call[c].op = "provision" /\ call[c].pc = "ok" => users[call[c].id].secret = c
TokensSoFar(c) ==
    /\ call[c].op = "mint" /\ call[c].pc = "ok" => tokens[c] = call[c].id
    /\ call[c].op = "revoke" /\ call[c].pc = "ok" => tokens[call[c].cred] = 0
UpdateSoFar(c) ==
    /\ call[c].op = "enable" /\ call[c].pc = "ok" => Known(call[c].id) /\ ~users[call[c].id].disabled
    /\ call[c].op = "disable" /\ call[c].pc \in {"read", "agent", "ok"} =>
         Known(call[c].id) /\ users[call[c].id].disabled
    /\ call[c].op = "disable" /\ call[c].pc \in {"row", "read"} =>
         call[c].name = Nobody /\ (call[c].pc = "read" => admin)
    /\ call[c].op = "disable" /\ call[c].pc = "ok" /\ call[c].sure /\ call[c].name # Nobody =>
         (On(call[c].name) => agent[call[c].name].disabled)
DeleteSoFar(c) ==
    /\ call[c].op = "delete" /\ call[c].pc = "read" => call[c].name = Nobody
    /\ admin /\ call[c].op = "delete" /\ call[c].pc \in {"drop", "ok"} /\ call[c].name # Nobody =>
         ~On(call[c].name)
    /\ call[c].op = "delete" /\ call[c].pc = "ok" => ~Known(call[c].id)
AskSoFar(c) ==
    call[c].op = "ask" /\ call[c].pc = "ok" /\ call[c].sure /\ Known(call[c].id) =>
      call[c].name = IF users[call[c].id].tenant = Nobody THEN Default ELSE users[call[c].id].tenant
SoFar(c) == CreateSoFar(c) /\ TokensSoFar(c) /\ UpdateSoFar(c) /\ DeleteSoFar(c) /\ AskSoFar(c)

LatestInv == SecretsInv /\ (latest # Nobody =>
               ~At(latest, "new") /\ SoFar(latest) /\ \A d \in Calls : Open(d) => d = latest)

LEMMA LatestInit == Init => LatestInv
BY SecretsInit DEF Init, LatestInv

LEMMA LatestBegin ==
    ASSUME LatestInv, NEW c \in Calls, Begin(c), latest' # Nobody
    PROVE  ~At(latest, "new")' /\ SoFar(latest)' /\ \A d \in Calls : Open(d)' => d = latest'
<1>1. TypeInv
  BY DEF LatestInv, SecretsInv, NamesInv
<1>2. PICK r \in CallRec :
         /\ call' = [call EXCEPT ![c] = r]
         /\ r.pc \in {"row", "read", "token", "revoke", "send"}
         /\ r.op # "none" /\ (r.op \in {"create", "provision"} => r.id = 0 /\ r.pc = "row")
         /\ r.op \in {"disable", "delete"} => r.name = Nobody
         /\ latest' = IF \A d \in Calls : ~Open(d) THEN c ELSE Nobody
         /\ UNCHANGED <<users, given, tokens, agent, doomed, left, admin>>
  BY <1>1, BeginCall
<1>3. latest' = c /\ \A d \in Calls : ~Open(d)
  BY <1>2
<1>4. \A d \in Calls : call'[d] = IF d = c THEN r ELSE call[d]
  BY <1>1, <1>2 DEF TypeInv, CallsOK
<1>5. call'[latest'] = r
  BY <1>3, <1>4
<1>6. r.op = "disable" => r.pc # "read"
  <2>1. CallOK(r, given') /\ r.op = "disable" => r.pc \in {"row", "read"}
    BY <1>2 DEF CallOK, Closed, Places
  <2>2. ASSUME NEW id, Begins(c, "disable", "row", id, Nobody, Nobody) PROVE r.pc = "row"
    BY <1>1, <1>4, <2>2 DEF Begins, TypeInv, CallsOK
  <2>3. r.op = "disable" => Update(c)
    BY <1>1, <1>4 DEF Begin, Create, Delete, Mint, Revoke, Ask, Begins, TypeInv, CallsOK
  <2>4. ASSUME r.op = "disable" PROVE \E id : Begins(c, "disable", "row", id, Nobody, Nobody)
    BY <1>1, <1>4, <2>3, <2>4 DEF Update, Begins, TypeInv, CallsOK
  <2> QED BY <2>2, <2>4
<1>7. SoFar(latest)'
  BY <1>2, <1>5, <1>6 DEF SoFar, CreateSoFar, TokensSoFar, UpdateSoFar, DeleteSoFar, AskSoFar, Makes
<1>8. ~At(latest, "new")'
  BY <1>2, <1>5 DEF At
<1> QED BY <1>3, <1>4, <1>7, <1>8 DEF Open

(* The steps of the call itself.                                            *)
LEMMA CreateDone ==
    ASSUME SecretsInv, NEW c \in Calls, SoFar(c), Makes(call[c]), Step(c)
    PROVE  CreateSoFar(c)'
<1>1. TypeInv /\ NamesInv /\ call'[c].op = call[c].op
  BY StepCall DEF SecretsInv, NamesInv
<1>2. call'[c].name = call[c].name /\ call[c].name \in Names /\ call[c].name \in Tenants
  BY <1>1, StepCall, Where DEF Makes, ReadBinding, Send, SendUnbound, TypeInv, CallsOK, CallOK, Tenants
<1>3. CASE AddUser(c)
  <2>1. CASE Goto(c, "failed")
    <3>1. call'[c].pc = "failed"
      BY <1>1, <2>1, Moves DEF TypeInv, CallsOK, PC
    <3> QED BY <3>1 DEF CreateSoFar
  <2>2. CASE /\ given + 1 \in Ids
             /\ users' = [users EXCEPT ![given + 1] = NewUser(call[c].name)]
             /\ call' = [call EXCEPT ![c] = [call[c] EXCEPT !.pc = "token", !.id = given + 1]]
    <3>1. given + 1 \in 0..MaxUsers
      BY <2>2 DEF Ids
    <3>2. call'[c].pc = "token" /\ call'[c].id = given + 1
      BY <1>1, <2>2, <3>1, AddedCall
    <3>3. users'[given + 1] = NewUser(call[c].name)
      BY <1>1, <2>2 DEF TypeInv, UsersOK
    <3>4. /\ NewUser(call[c].name).name = call[c].name /\ NewUser(call[c].name).disabled = FALSE
          /\ NewUser(call[c].name) # NoUser
      BY <1>2, NewUserTyped
    <3>5. Made(c)'
      BY <1>2, <2>2, <3>2, <3>3, <3>4 DEF Made, Known
    <3> QED BY <3>2, <3>5 DEF CreateSoFar
  <2> QED BY <1>1, <1>3, <2>1, <2>2, AddedUser
<1>4. CASE AddToken(c)
  <2>1. At(c, "token") /\ UNCHANGED users /\ Made(c) /\ call'[c].id = call[c].id
    BY <1>1, <1>4, StepCall DEF AddToken, AddUser, At, SoFar, CreateSoFar
  <2>2. tokens' = [tokens EXCEPT ![c] = call[c].id] /\ Goto(c, IF call[c].op = "provision" THEN "tenant" ELSE "ok")
    BY <1>4, <2>1 DEF AddToken, Made
  <2>3. call'[c].pc = IF call[c].op = "provision" THEN "tenant" ELSE "ok"
    BY <1>1, <2>2, Moves DEF TypeInv, CallsOK, PC
  <2>4. tokens'[c] = call[c].id
    BY <1>1, <2>2 DEF TypeInv, RestOK, Creds
  <2>5. Made(c)'
    BY <1>2, <2>1 DEF Made, Known
  <2> QED BY <1>1, <2>1, <2>3, <2>4, <2>5 DEF CreateSoFar
<1>5. CASE CreateTenant(c)
  <2>1. /\ At(c, "tenant") /\ UNCHANGED <<users, tokens>> /\ Made(c) /\ call'[c].id = call[c].id
        /\ tokens[c] = call[c].id
    BY <1>1, <1>5, StepCall DEF CreateTenant, AddUser, At, SoFar, CreateSoFar
  <2>2. PICK pc \in {"bind", "failed"} :
          Goto(c, pc) /\ (pc = "bind" => agent' = [agent EXCEPT ![call[c].name] = [disabled |-> FALSE, secret |-> c]])
    BY <1>5 DEF CreateTenant
  <2>3. call'[c].pc = pc
    BY <1>1, <2>2, Moves DEF TypeInv, CallsOK, PC
  <2>4. pc = "bind" => agent'[call[c].name] = [disabled |-> FALSE, secret |-> c]
    BY <1>1, <1>2, <2>2 DEF TypeInv, RestOK
  <2>5. Made(c)'
    BY <1>2, <2>1 DEF Made, Known
  <2> QED BY <1>1, <1>2, <2>1, <2>3, <2>4, <2>5 DEF CreateSoFar
<1>6. CASE Bind(c)
  <2>1. /\ At(c, "bind") /\ UNCHANGED <<agent, tokens>> /\ Made(c) /\ call'[c].id = call[c].id
        /\ tokens[c] = call[c].id /\ call[c].op = "provision"
        /\ agent[call[c].name] = [disabled |-> FALSE, secret |-> c]
    BY <1>1, <1>6, StepCall, Where DEF Bind, AddUser, At, SoFar, CreateSoFar, Makes
  <2>2. /\ users' = [users EXCEPT ![call[c].id] = WithBinding(users[call[c].id], call[c].name, c)]
        /\ users[call[c].id] \in UserRec /\ c \in Creds /\ call[c].id \in Ids
    BY <1>1, <1>6, <2>1 DEF Bind, Bound, WithBinding, Made, Known, TypeInv, UsersOK, Creds
  <2>3. LET v == WithBinding(users[call[c].id], call[c].name, c) IN
          v.name = users[call[c].id].name /\ v.disabled = users[call[c].id].disabled /\ v.secret = c
          /\ v # NoUser
    BY <1>2, <2>2, Rebound
  <2>4. users'[call[c].id] = WithBinding(users[call[c].id], call[c].name, c)
    BY <1>1, <2>2 DEF TypeInv, UsersOK
  <2>5. Made(c)' /\ users'[call[c].id].secret = c
    BY <1>2, <2>1, <2>2, <2>3, <2>4 DEF Made, Known
  <2> QED BY <1>1, <1>2, <2>1, <2>5 DEF CreateSoFar
<1>7. CASE Fail(c)
  <2>1. call'[c].pc = "failed"
    BY <1>1, <1>7, Moves DEF Fail, TypeInv, CallsOK, PC
  <2> QED BY <2>1 DEF CreateSoFar
<1> QED BY <1>1, <1>3, <1>4, <1>5, <1>6, <1>7, Where DEF Step, MissBinding, SendUnbound, Makes, UpdateRow, ReadBinding,
           UpdateTenant, DeleteTenant, DropUser, DropToken, Send

LEMMA TokensDone ==
    ASSUME SecretsInv, NEW c \in Calls, SoFar(c), call[c].op \in {"mint", "revoke"}, Step(c)
    PROVE  TokensSoFar(c)'
<1>1. TypeInv /\ call'[c].op = call[c].op /\ call'[c].cred = call[c].cred
  BY StepCall DEF SecretsInv, NamesInv
<1>2. CASE AddToken(c) /\ call[c].op = "mint"
  <2>1. PICK pc \in {"ok", "failed"} : Goto(c, pc) /\ (pc = "ok" => tokens' = [tokens EXCEPT ![c] = call[c].id])
    BY <1>2 DEF AddToken
  <2>2. call'[c].pc = pc /\ call'[c].id = call[c].id
    BY <1>1, <2>1, Moves DEF TypeInv, CallsOK, PC
  <2>3. pc = "ok" => tokens'[c] = call[c].id
    BY <1>1, <2>1 DEF TypeInv, RestOK, Creds
  <2> QED BY <1>1, <1>2, <2>2, <2>3 DEF TokensSoFar
<1>3. CASE DropToken(c) /\ call[c].op = "revoke"
  <2>1. tokens' = [tokens EXCEPT ![call[c].cred] = 0] /\ call[c].cred \in Creds
    BY <1>1, <1>3, Where DEF DropToken
  <2>2. tokens'[call[c].cred] = 0
    BY <1>1, <2>1 DEF TypeInv, RestOK
  <2> QED BY <1>1, <1>3, <2>2 DEF TokensSoFar
<1>4. CASE Fail(c)
  <2>1. call'[c].pc = "failed"
    BY <1>1, <1>4, Moves DEF Fail, TypeInv, CallsOK, PC
  <2> QED BY <2>1 DEF TokensSoFar
<1> QED BY <1>1, <1>2, <1>3, <1>4, Where DEF Step, MissBinding, SendUnbound, AddUser, AddToken, CreateTenant, Bind, UpdateRow, ReadBinding,
           UpdateTenant, DeleteTenant, DropUser, DropToken, Send

LEMMA UpdateDone ==
    ASSUME SecretsInv, NEW c \in Calls, SoFar(c), call[c].op \in {"enable", "disable"}, Step(c)
    PROVE  UpdateSoFar(c)'
<1>1. TypeInv /\ call'[c].op = call[c].op /\ UpdateSoFar(c)
  BY StepCall DEF SecretsInv, NamesInv, SoFar
<1>2. CASE UpdateRow(c)
  <2>1. CASE ~Known(call[c].id)
    <3>1. call'[c].pc = "failed"
      BY <1>1, <1>2, <2>1, Moves DEF UpdateRow, TypeInv, CallsOK, PC
    <3> QED BY <3>1 DEF UpdateSoFar
  <2>2. CASE Known(call[c].id)
    <3> DEFINE u == [users[call[c].id] EXCEPT !.disabled = (call[c].op = "disable")]
    <3>1. /\ users' = [users EXCEPT ![call[c].id] = u] /\ call[c].id \in Ids
          /\ users[call[c].id] \in UserRec /\ users[call[c].id].name \in Names
      BY <1>1, <1>2, <2>2 DEF UpdateRow, Known, TypeInv, UsersOK, UserOK
    <3>2. u.disabled = (call[c].op = "disable") /\ u.name = users[call[c].id].name
      BY <3>1 DEF UserRec
    <3>3. u # NoUser
      BY <3>1, <3>2, Distinct, NobodyTyped
    <3>4. Goto(c, IF call[c].op = "disable" /\ admin THEN "read" ELSE "ok")
      BY <1>2, <2>2 DEF UpdateRow
    <3>5. /\ call'[c].id = call[c].id /\ call'[c].name = call[c].name
          /\ call'[c].pc \in {"read", "ok"} /\ (call'[c].pc = "read" => call[c].op = "disable" /\ admin)
      BY <1>1, <3>4, Moves DEF TypeInv, CallsOK, PC
    <3>8. call[c].op = "disable" => call[c].name = Nobody
      BY <1>1, <1>2 DEF UpdateRow, UpdateSoFar, At
    <3> HIDE DEF u
    <3>6. users'[call[c].id] = u
      BY <1>1, <3>1 DEF TypeInv, UsersOK
    <3>7. admin' = admin /\ Known(call[c].id)' /\ (users'[call'[c].id].disabled = (call[c].op = "disable"))
      BY <1>2, <3>1, <3>2, <3>3, <3>5, <3>6 DEF Known, UpdateRow
    <3> QED BY <1>1, <3>5, <3>7, <3>8 DEF UpdateSoFar
  <2> QED BY <2>1, <2>2
<1>3. CASE ReadBinding(c) /\ call[c].op = "disable"
  <2>1. UNCHANGED <<users, agent>> /\ Known(call[c].id) /\ users[call[c].id].disabled
    BY <1>1, <1>3 DEF ReadBinding, UpdateSoFar, At
  <2>2. /\ call'[c].id = call[c].id /\ call'[c].name = users[call[c].id].tenant
        /\ call'[c].pc = AfterRead(c)
    BY <1>1, <1>3, <2>1, ReadCall
  <2>3. call'[c].pc \in {"agent", "ok", "drop"} /\ (call'[c].pc = "ok" => call'[c].name = Nobody)
    <3>1. admin
      BY <1>1, <1>3 DEF ReadBinding, UpdateSoFar, At
    <3>2. call'[c].pc \in {"agent", "ok", "drop"}
      BY <1>1, <1>3, ReadCall
    <3> QED BY <2>1, <2>2, <3>1, <3>2 DEF AfterRead
  <2> QED BY <1>1, <1>3, <2>1, <2>2, <2>3 DEF UpdateSoFar, Known
<1>4. CASE UpdateTenant(c)
  <2>1. UNCHANGED users /\ Known(call[c].id) /\ users[call[c].id].disabled
    BY <1>1, <1>4 DEF UpdateTenant, UpdateSoFar, At
  <2>2. call'[c].id = call[c].id /\ call'[c].name = call[c].name /\ call[c].name \in Tenants
        /\ call[c].op = "disable"
    BY <1>1, <1>4, StepCall, Where DEF UpdateTenant, AddUser, ReadBinding, Send, SendUnbound, At
  <2>5. call'[c].pc = "ok"
    <3>1. Goto(c, "ok") => call'[c].pc = "ok"
      BY <1>1, Moves DEF TypeInv, CallsOK, PC
    <3>2. call' = [call EXCEPT ![c].pc = "ok", ![c].sure = FALSE] => call'[c].pc = "ok"
      BY <1>1 DEF TypeInv, CallsOK, CallRec
    <3> QED BY <1>4, <3>1, <3>2 DEF UpdateTenant
  <2>3. CASE agent' = IF On(call[c].name) THEN [agent EXCEPT ![call[c].name].disabled = TRUE] ELSE agent
    <3>1. agent'[call[c].name] # NoTenant => agent'[call[c].name].disabled
      BY <1>1, <2>2, <2>3 DEF On, TypeInv, RestOK, HomeRec
    <3> QED BY <1>1, <2>1, <2>2, <2>5, <3>1 DEF UpdateSoFar, Known, On
  <2>4. CASE call' = [call EXCEPT ![c].pc = "ok", ![c].sure = FALSE]
    <3>1. call'[c].sure = FALSE
      BY <1>1, <2>4 DEF TypeInv, CallsOK, CallRec
    <3> QED BY <1>1, <2>1, <2>2, <2>5, <3>1 DEF UpdateSoFar, Known
  <2> QED BY <1>4, <2>3, <2>4 DEF UpdateTenant
<1>5. CASE Fail(c)
  <2>1. call'[c].pc = "failed"
    BY <1>1, <1>5, Moves DEF Fail, TypeInv, CallsOK, PC
  <2> QED BY <2>1 DEF UpdateSoFar
<1>6. CASE MissBinding(c)
  BY <1>1, <1>6, MissedCall DEF UpdateSoFar, Known, At
<1> QED BY <1>1, <1>2, <1>3, <1>4, <1>5, <1>6, Where DEF Step, MissBinding, SendUnbound, AddUser, AddToken, CreateTenant, Bind, ReadBinding,
           DeleteTenant, DropUser, DropToken, Send

LEMMA DeleteDone ==
    ASSUME SecretsInv, NEW c \in Calls, SoFar(c), call[c].op = "delete", Step(c)
    PROVE  DeleteSoFar(c)'
<1>1. TypeInv /\ call'[c].op = call[c].op /\ DeleteSoFar(c)
  BY StepCall DEF SecretsInv, NamesInv, SoFar
<1>2. CASE ReadBinding(c)
  <2>1. /\ call'[c].name = IF Known(call[c].id) THEN users[call[c].id].tenant ELSE Nobody
        /\ call'[c].pc = AfterRead(c)
    BY <1>1, <1>2, ReadCall
  <2>2. admin /\ call'[c].pc = "drop" => call'[c].name = Nobody
    BY <2>1 DEF AfterRead
  <2>3. call'[c].pc \notin {"ok", "read"} /\ admin' = admin
    BY <1>1, <1>2, ReadCall DEF ReadBinding
  <2> QED BY <2>2, <2>3 DEF DeleteSoFar
<1>3. CASE DeleteTenant(c)
  <2>1. call'[c].name = call[c].name /\ call[c].name \in Tenants
    BY <1>1, <1>3, StepCall, Where DEF DeleteTenant, ReadBinding, Send, SendUnbound, At
  <2>2. agent'[call[c].name] = NoTenant
    BY <1>1, <1>3, <2>1 DEF DeleteTenant, TypeInv, RestOK
  <2>3. PICK pc \in {"drop", "failed"} : Goto(c, pc)
    BY <1>3 DEF DeleteTenant
  <2>4. call'[c].pc \notin {"ok", "read"}
    BY <1>1, <2>3, Moves DEF TypeInv, CallsOK, PC
  <2> QED BY <2>1, <2>2, <2>4 DEF DeleteSoFar, On
<1>4. CASE DropUser(c)
  <2>1. /\ call'[c].name = call[c].name /\ call'[c].id = call[c].id /\ UNCHANGED agent
        /\ admin /\ call[c].name # Nobody => ~On(call[c].name)
    BY <1>1, <1>4, StepCall DEF DropUser, AddUser, ReadBinding, Send, SendUnbound, At, DeleteSoFar
  <2>3. call'[c].pc # "read" /\ admin' = admin
    <3>1. \A pc \in PC : Goto(c, pc) => call'[c].pc = pc
      BY <1>1, Moves DEF TypeInv, CallsOK
    <3> QED BY <1>4, <3>1 DEF DropUser, PC
  <2>4. call'[c].pc = "ok" => ~Known(call[c].id)'
    BY <1>1, <1>4, <2>1 DEF DropUser, Known, TypeInv, UsersOK
  <2> QED BY <2>1, <2>3, <2>4 DEF DeleteSoFar, On
<1>5. CASE Fail(c)
  <2>1. call'[c].pc = "failed"
    BY <1>1, <1>5, Moves DEF Fail, TypeInv, CallsOK, PC
  <2> QED BY <2>1 DEF DeleteSoFar
<1>6. CASE MissBinding(c)
  BY <1>1, <1>6, MissedCall DEF DeleteSoFar, At
<1> QED BY <1>1, <1>2, <1>3, <1>4, <1>5, <1>6, Where DEF Step, MissBinding, SendUnbound, AddUser, AddToken, CreateTenant, Bind, UpdateRow,
           UpdateTenant, DropToken, Send

(* A session call goes to the tenant that knows the user's secret.          *)
LEMMA AskDone ==
    ASSUME SecretsInv, NEW c \in Calls, call[c].op = "ask", Step(c)
    PROVE  AskSoFar(c)'
<1>1. TypeInv
  BY DEF SecretsInv, NamesInv
<1>2. CASE Send(c)
  <2>1. UNCHANGED users /\ call'[c].id = call[c].id
    BY <1>1, <1>2, SentCall DEF Send
  <2>2. CASE call'[c].pc = "failed"
    BY <2>2 DEF AskSoFar
  <2>3. CASE call'[c].name \in Reached(ForwardSecret(call[c].id)) /\ Known(call[c].id)
    <3> DEFINE id == call[c].id
               t  == call'[c].name
    <3>1. t \in Tenants /\ agent[t].secret = ForwardSecret(id) /\ id \in Ids
      BY <2>3 DEF Reached, Known
    <3>2. (users[id].tenant = Nobody) <=> (users[id].secret = Nobody)
      BY <1>1, <3>1 DEF TypeInv, UsersOK, UserOK
    <3>3. CASE users[id].secret # Nobody
      <4>1. agent[t].secret = users[id].secret
        BY <2>3, <3>1, <3>3 DEF ForwardSecret
      <4>2. users[id].tenant = t
        BY <3>1, <3>3, <4>1, SecretsMean
      <4> QED BY <2>1, <3>2, <3>3, <4>2 DEF AskSoFar
    <3>4. CASE users[id].secret = Nobody
      <4>1. agent[t].secret = Chart
        BY <2>3, <3>1, <3>4 DEF ForwardSecret
      <4>2. t = Default
        BY <3>1, <4>1 DEF SecretsInv, ChartOwn
      <4> QED BY <2>1, <3>2, <3>4, <4>2 DEF AskSoFar
    <3> QED BY <3>3, <3>4
  <2>4. CASE ~Known(call[c].id)
    BY <2>1, <2>4 DEF AskSoFar, Known
  <2> QED BY <1>1, <1>2, <2>2, <2>3, <2>4, SentCall
<1>3. CASE Fail(c)
  <2>1. call'[c].pc = "failed"
    BY <1>1, <1>3, Moves DEF Fail, TypeInv, CallsOK, PC
  <2> QED BY <2>1 DEF AskSoFar
<1>4. CASE SendUnbound(c)
  BY <1>1, <1>4, MissedCall DEF AskSoFar
<1> QED BY <1>1, <1>2, <1>3, <1>4, Where DEF Step, MissBinding, SendUnbound, AddUser, AddToken, CreateTenant, Bind, UpdateRow, ReadBinding,
           UpdateTenant, DeleteTenant, DropUser, DropToken

LEMMA SoFarStep ==
    ASSUME SecretsInv, NEW c \in Calls, SoFar(c), Step(c)
    PROVE  SoFar(c)'
<1>1. call'[c].op = call[c].op /\ call[c].op # "none" /\ call[c].op \in Admin \cup {"ask", "none"}
  <2>1. TypeInv /\ Open(c)
    BY StepCall DEF SecretsInv, NamesInv
  <2> QED BY <2>1, StepCall DEF TypeInv, CallsOK, CallOK, CallRec, Open
<1>2. CASE Makes(call[c])
  <2>1. CreateSoFar(c)'
    BY <1>2, CreateDone
  <2> QED BY <1>1, <1>2, <2>1 DEF SoFar, TokensSoFar, UpdateSoFar, DeleteSoFar, AskSoFar, Makes
<1>3. CASE call[c].op \in {"mint", "revoke"}
  <2>1. TokensSoFar(c)'
    BY <1>3, TokensDone
  <2> QED BY <1>1, <1>3, <2>1 DEF SoFar, CreateSoFar, UpdateSoFar, DeleteSoFar, AskSoFar, Makes
<1>4. CASE call[c].op \in {"enable", "disable"}
  <2>1. UpdateSoFar(c)'
    BY <1>4, UpdateDone
  <2> QED BY <1>1, <1>4, <2>1 DEF SoFar, CreateSoFar, TokensSoFar, DeleteSoFar, AskSoFar, Makes
<1>5. CASE call[c].op = "delete"
  <2>1. DeleteSoFar(c)'
    BY <1>5, DeleteDone
  <2> QED BY <1>1, <1>5, <2>1 DEF SoFar, CreateSoFar, TokensSoFar, UpdateSoFar, AskSoFar, Makes
<1>6. CASE call[c].op = "ask"
  <2>1. AskSoFar(c)'
    BY <1>6, AskDone
  <2> QED BY <1>1, <1>6, <2>1 DEF SoFar, CreateSoFar, TokensSoFar, UpdateSoFar, DeleteSoFar, Makes
<1> QED BY <1>1, <1>2, <1>3, <1>4, <1>5, <1>6 DEF Admin, Makes

LEMMA LatestStep == LatestInv /\ [Next]_vars => LatestInv'
<1> SUFFICES ASSUME LatestInv, [Next]_vars, latest' # Nobody
             PROVE  ~At(latest, "new")' /\ SoFar(latest)' /\ \A d \in Calls : Open(d)' => d = latest'
  BY SecretsStep DEF LatestInv
<1>0. TypeInv /\ SecretsInv /\ Nobody \notin Calls
  BY Distinct DEF LatestInv, SecretsInv, NamesInv
<1>1. ASSUME NEW c \in Calls, Step(c)
      PROVE  ~At(latest, "new")' /\ SoFar(latest)' /\ \A d \in Calls : Open(d)' => d = latest'
  <2>1. Open(c) /\ UNCHANGED latest /\ ~At(c, "new")' /\ \A d \in Calls : d # c => call'[d] = call[d]
    BY <1>0, <1>1, StepCall
  <2>2. latest = c /\ SoFar(c) /\ \A d \in Calls : Open(d) => d = c
    BY <2>1 DEF LatestInv
  <2>3. SoFar(c)'
    BY <1>0, <1>1, <2>2, SoFarStep
  <2>4. SoFar(latest)' /\ ~At(latest, "new")'
    BY <2>1, <2>2, <2>3 DEF SoFar, CreateSoFar, TokensSoFar, UpdateSoFar, DeleteSoFar, AskSoFar, Made, At
  <2> QED BY <2>1, <2>2, <2>4 DEF Open
<1>2. CASE UNCHANGED vars
  <2>1. ~At(latest, "new") /\ SoFar(latest) /\ \A d \in Calls : Open(d) => d = latest
    BY <1>2 DEF LatestInv, vars
  <2> QED BY <1>2, <2>1 DEF vars, SoFar, CreateSoFar, TokensSoFar, UpdateSoFar, DeleteSoFar, AskSoFar,
                            Made, At, Open, On, Known
<1>3. ~Restart
  BY DEF Restart
<1> QED BY <1>1, <1>2, <1>3, LatestBegin, Steps DEF Next

LEMMA LatestMeans == LatestInv => AnswersHold
<1> SUFFICES ASSUME LatestInv, latest # Nobody, At(latest, "ok") PROVE Done(latest)
  BY DEF AnswersHold
<1> DEFINE c == latest
<1>1. /\ TypeInv /\ SecretsInv /\ c \in Calls /\ SoFar(c) /\ call[c].pc = "ok"
      /\ call[c].op \in Admin \cup {"ask"}
  <2>1. TypeInv /\ SecretsInv /\ c \in Calls /\ SoFar(c) /\ call[c].pc = "ok"
    BY DEF LatestInv, SecretsInv, NamesInv, TypeInv, RestOK, At
  <2> QED BY <2>1 DEF TypeInv, CallsOK, CallOK, CallRec
<1>2. CASE call[c].op = "create"
  BY <1>1, <1>2 DEF Done, SoFar, CreateSoFar, Makes, Made, Authenticated, Holder
<1>3. CASE call[c].op = "provision"
  <2>1. /\ Made(c) /\ tokens[c] = call[c].id /\ users[call[c].id].secret = c
        /\ agent[call[c].name] = [disabled |-> FALSE, secret |-> c]
    BY <1>1, <1>3 DEF SoFar, CreateSoFar, Makes
  <2>2. Authenticated(c) = call[c].id
    BY <2>1 DEF Authenticated, Holder, Made
  <2>3. ForwardSecret(call[c].id) = c
    BY <1>1, <2>1, Distinct DEF ForwardSecret, Made
  <2>4. call[c].name \in Tenants
    BY <1>1, <1>3 DEF TypeInv, CallsOK, CallOK, Makes, Tenants
  <2>5. On(call[c].name)
    BY <1>1, <2>1, Distinct DEF On, NoTenant
  <2>6. \A t \in Tenants : agent[t].secret = c => t = call[c].name
    BY <1>1 DEF SecretsInv, Minted
  <2>7. Reached(c) = {call[c].name}
    BY <2>1, <2>4, <2>5, <2>6 DEF Reached
  <2> QED BY <1>3, <2>2, <2>3, <2>7 DEF Done
<1>4. CASE call[c].op = "mint"
  BY <1>1, <1>4 DEF Done, SoFar, TokensSoFar, Authenticated, Holder
<1>5. CASE call[c].op = "revoke"
  BY <1>1, <1>5, Distinct DEF Done, SoFar, TokensSoFar, Authenticated, Holder, Known
<1>6. CASE call[c].op = "enable"
  BY <1>1, <1>6 DEF Done, SoFar, UpdateSoFar, Authenticated, Holder
<1>7. CASE call[c].op = "disable"
  <2>1. call[c].id \in Ids
    BY <1>1, <1>7 DEF TypeInv, CallsOK, CallOK
  <2> QED BY <1>1, <1>7, <2>1, Distinct DEF Done, SoFar, UpdateSoFar, Authenticated, Holder
<1>8. CASE call[c].op = "delete"
  <2>1. call[c].id \in Ids
    BY <1>1, <1>8 DEF TypeInv, CallsOK, CallOK
  <2> QED BY <1>1, <1>8, <2>1, Distinct DEF Done, SoFar, DeleteSoFar, Authenticated, Holder
<1>9. CASE call[c].op = "ask"
  BY <1>1, <1>9 DEF Done, SoFar, AskSoFar
<1> QED BY <1>1, <1>2, <1>3, <1>4, <1>5, <1>6, <1>7, <1>8, <1>9 DEF Admin

(* A call that ran alone and was answered without an error has done what it *)
(* says on every surface, whatever calls, failures and restarts came before *)
(* it; a session call ran in its user's own tenant, and a deletion removed  *)
(* the tenant, unless the lookup of the binding failed unseen.              *)
THEOREM AnswersAreTrue == Spec => []AnswersHold
BY LatestInit, LatestStep, LatestMeans, PTL DEF Spec
=============================================================================
