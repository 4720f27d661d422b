------------------------------- MODULE Services -------------------------------
(***************************************************************************)
(* Services: a Deployment and a Kubernetes Service of one name, made and   *)
(* changed by service-deploy (internal/ext/ops), by the calls of           *)
(* cmd/easylab/connops.go and, under them, internal/k8s/service.go.  Every *)
(* call is a row of requests to the API server with nothing locked between *)
(* them, and any request may fail.                                         *)
(***************************************************************************)
EXTENDS Integers, Sequences, FiniteSets

CONSTANTS
    Calls,      \* the calls of this instance; each is made once
    Services,   \* names of services
    Sessions,   \* names of sessions, org:repo:branch
    Ports,      \* container ports a service may expose
    Spoofed,    \* those the egress sidecar binds, 80 and 443
    ToolPort,   \* the port of service-deploy, 8080
    Scales,     \* replica counts ScaleService is called with
    Ops,        \* bound: the operations the calls perform
    MaxFails    \* bound: requests that fail

ASSUME ServicesAssumption ==
    /\ Spoofed \subseteq Ports /\ ToolPort \in Ports \ Spoofed
    /\ Scales \subseteq Nat /\ MaxFails \in Nat
    \* <<>> is no name; and a label, which is a hash, is no session's name.
    /\ <<>> \notin Services \cup Sessions
    /\ \A s \in Sessions : <<"key", s>> \notin Sessions

VARIABLES
    deps,     \* Deployments by name
    svcs,     \* Services by name: the ports they were made with
    calls,    \* what each call does and has read
    fails,    \* failures left
    claims    \* history: what the last call on a service has promised

serviceVars == <<deps, svcs, calls, fails, claims>>

NoDep   == [on |-> FALSE, rv |-> 0, image |-> <<>>, ports |-> {}, replicas |-> 0, session |-> <<>>]
NoSvc   == [on |-> FALSE, ports |-> {}]
NoClaim == [kind |-> "none", by |-> <<>>]
NewCall == [op |-> "none", step |-> "new", name |-> <<>>, session |-> <<>>, ports |-> {},
            replicas |-> 0, copy |-> NoDep, kept |-> FALSE, alone |-> TRUE]

\* LabelKey: a session's name has colons, so its label is a hash of it.
RawLabel(s) == s
LabelKey(s) == IF s = <<>> THEN <<>> ELSE <<"key", s>>

-----------------------------------------------------------------------------
\* Call c becomes call.  A call that begins ends the promise of the last one
\* on its service, and neither it nor those it meets are alone.
Running(n)      == {c \in Calls : calls[c].name = n /\ calls[c].step # "done"}
Becomes(c, call) == calls' = [calls EXCEPT ![c] = call]
At(c, op, step) == calls[c].op \in op /\ calls[c].step = step
Goes(c, step)   == Becomes(c, [calls[c] EXCEPT !.step = step]) /\ UNCHANGED claims
Begins(c, n, call) ==
    /\ call.op \in Ops /\ calls[c].step = "new"
    /\ calls' = [d \in Calls |-> IF d = c THEN [call EXCEPT !.name = n, !.alone = Running(n) = {}]
                                 ELSE IF d \in Running(n) THEN [calls[d] EXCEPT !.alone = FALSE]
                                 ELSE calls[d]]
    /\ claims' = [claims EXCEPT ![n] = NoClaim]

\* The end of a call: an error, or what a call alone on its service promises.
Fails(c) == Becomes(c, [calls[c] EXCEPT !.step = "done"]) /\ UNCHANGED claims
Holds(c, kind) ==
    /\ Becomes(c, [calls[c] EXCEPT !.step = "done"])
    /\ claims' = IF calls[c].alone THEN [claims EXCEPT ![calls[c].name] = [kind |-> kind, by |-> c]]
                 ELSE claims

\* A request that fails ends the call.
Breaks(c) ==
    /\ fails > 0 /\ fails' = fails - 1
    /\ calls[c].step \notin {"new", "done", "unserve"}
    /\ Fails(c)
    /\ UNCHANGED <<deps, svcs>>

-----------------------------------------------------------------------------
\* What is told of a service: the replicas are those the call has named, and
\* one if it has named none, as the list and GetService do.
Deployed         == {n \in Services : deps[n].on}
ToStatus(n, reps) == [name |-> n, session |-> deps[n].session, replicas |-> IF reps = 0 THEN 1 ELSE reps]
Present          == {ToStatus(n, 0) : n \in Deployed}
GetService(n)    == {ToStatus(m, 0) : m \in Deployed \cap {n}}

\* service-deploy looks the service up (fetchService) and refuses one that
\* carries another session than its own raw name.  Any other failure of the
\* lookup skips the check.
Refused(n, s) == \E st \in GetService(n) : st.session \notin {<<>>, s}

DeployTool(c, n, s) ==
    /\ Begins(c, n, [NewCall EXCEPT !.op = "deploy", !.session = s, !.ports = {ToolPort}, !.replicas = 1,
                       !.step = IF Refused(n, s) THEN "refused" ELSE "config"])
    /\ UNCHANGED <<deps, svcs, fails>>

DeployBlind(c, n, s) ==
    /\ fails > 0 /\ fails' = fails - 1
    /\ Begins(c, n, [NewCall EXCEPT !.op = "deploy", !.session = s, !.ports = {ToolPort}, !.replicas = 1,
                       !.step = "config"])
    /\ UNCHANGED <<deps, svcs>>

DeployRefused(c) ==
    /\ At(c, {"deploy"}, "refused")
    /\ Fails(c)
    /\ UNCHANGED <<deps, svcs, fails>>

\* service-list of a session: what ListServices has, without the services of
\* no session and those of others.
Carries(st, s) == st.session # <<>> /\ st.session \in {s, LabelKey(s)}
Listed(s)      == {st \in Present : Carries(st, s)}

\* The LaunchService call: no owner is looked up; no replicas means one.
Launch(c, n, ports, reps) ==
    /\ Begins(c, n, [NewCall EXCEPT !.op = "launch", !.ports = ports, !.step = "config",
                                    !.replicas = IF reps = 0 THEN 1 ELSE reps])
    /\ UNCHANGED <<deps, svcs, fails>>

\* The proxy's ConfigMap and Secret are written; a spoofed port is refused.
Configure(c) ==
    /\ At(c, {"deploy", "launch"}, "config")
    /\ IF calls[c].ports \cap Spoofed # {} THEN Fails(c) ELSE Goes(c, "create")
    /\ UNCHANGED <<deps, svcs, fails>>

\* The Deployment a launch asks for; its image is known by the call.
Wanted(c, rv) == [on |-> TRUE, rv |-> rv, image |-> <<c>>, ports |-> calls[c].ports,
                  replicas |-> calls[c].replicas, session |-> LabelKey(calls[c].session)]

CreateDeployment(c) == LET n == calls[c].name IN
    /\ At(c, {"deploy", "launch"}, "create")
    /\ IF deps[n].on
       THEN Goes(c, "get") /\ UNCHANGED deps
       ELSE Goes(c, "serve") /\ deps' = [deps EXCEPT ![n] = Wanted(c, deps[n].rv + 1)]
    /\ UNCHANGED <<svcs, fails>>

\* Get, and Update at the version read, which another change in between
\* turns into a conflict.
GetDeployment(c) == LET n == calls[c].name IN
    /\ At(c, {"deploy", "launch", "scale"}, "get")
    /\ IF deps[n].on
       THEN /\ Becomes(c, [calls[c] EXCEPT !.step = "update", !.copy = deps[n]])
            /\ UNCHANGED claims
       ELSE Fails(c)
    /\ UNCHANGED <<deps, svcs, fails>>

AnyVersion(n, rv) == deps[n].on
Current(n, rv)    == deps[n].on /\ deps[n].rv = rv

UpdateDeployment(c) == LET n == calls[c].name IN
    /\ At(c, {"deploy", "launch"}, "update")
    /\ IF Current(n, calls[c].copy.rv)
       THEN Goes(c, "serve") /\ deps' = [deps EXCEPT ![n] = Wanted(c, deps[n].rv + 1)]
       ELSE Fails(c) /\ UNCHANGED deps
    /\ UNCHANGED <<svcs, fails>>

\* The Service is created; one that exists is left as it is, and with it the
\* ports of an earlier launch: kept is the history of that.
ServesFirst(c)  == ~svcs[calls[c].name].on /\ deps[calls[c].name].rv = 1
ServesAfresh(c) == ~svcs[calls[c].name].on
CreateService(c) ==
    /\ At(c, {"deploy", "launch"}, "serve")
    /\ svcs' = IF ServesAfresh(c) THEN [svcs EXCEPT ![calls[c].name] = [on |-> TRUE, ports |-> calls[c].ports]]
               ELSE svcs
    /\ Becomes(c, [calls[c] EXCEPT !.step = "status", !.kept = svcs[calls[c].name].on])
    /\ UNCHANGED <<deps, fails, claims>>

\* ServiceStatus, the last request of a launch and of a scale.
Status(c) ==
    /\ At(c, {"deploy", "launch", "scale"}, "status")
    /\ IF deps[calls[c].name].on THEN Holds(c, IF calls[c].op = "scale" THEN "scaled" ELSE "up") ELSE Fails(c)
    /\ UNCHANGED <<deps, svcs, fails>>

-----------------------------------------------------------------------------
\* ScaleService: Status, Get, Update of the copy read, Status.
Scale(c, n, reps) ==
    /\ deps[n].on
    /\ Begins(c, n, [NewCall EXCEPT !.op = "scale", !.step = "get", !.replicas = reps])
    /\ UNCHANGED <<deps, svcs, fails>>

ScaleDeployment(c) == LET n == calls[c].name IN
    /\ At(c, {"scale"}, "update")
    /\ IF Current(n, calls[c].copy.rv)
       THEN /\ deps' = [deps EXCEPT ![n] = [calls[c].copy EXCEPT !.replicas = calls[c].replicas,
                                                                 !.rv = deps[n].rv + 1]]
            /\ Goes(c, "status")
       ELSE Fails(c) /\ UNCHANGED deps
    /\ UNCHANGED <<svcs, fails>>

\* DeleteService: Status, the Service (whatever comes of it), the Deployment.
Delete(c, n) ==
    /\ deps[n].on
    /\ Begins(c, n, [NewCall EXCEPT !.op = "delete", !.step = "unserve"])
    /\ UNCHANGED <<deps, svcs, fails>>

Unserve(c) ==
    /\ At(c, {"delete"}, "unserve")
    /\ \/ svcs' = [svcs EXCEPT ![calls[c].name] = NoSvc] /\ UNCHANGED fails
          /\ Goes(c, "undeploy")
       \/ fails > 0 /\ fails' = fails - 1 /\ UNCHANGED svcs
          /\ Becomes(c, [calls[c] EXCEPT !.step = "undeploy", !.alone = FALSE]) /\ UNCHANGED claims
    /\ UNCHANGED deps

Undeploy(c) ==
    /\ At(c, {"delete"}, "undeploy")
    /\ deps' = [deps EXCEPT ![calls[c].name] = [NoDep EXCEPT !.rv = deps[calls[c].name].rv]]
    /\ Holds(c, "down")
    /\ UNCHANGED <<svcs, fails>>

-----------------------------------------------------------------------------
ServiceInit ==
    /\ deps = [n \in Services |-> NoDep]
    /\ svcs = [n \in Services |-> NoSvc]
    /\ calls = [c \in Calls |-> NewCall]
    /\ fails = MaxFails
    /\ claims = [n \in Services |-> NoClaim]

ServiceNext ==
    \E c \in Calls :
      \/ \E n \in Services :
           \/ \E s \in Sessions : DeployTool(c, n, s) \/ DeployBlind(c, n, s)
           \/ \E p \in Ports, reps \in {0} \cup Scales : Launch(c, n, {p}, reps)
           \/ \E reps \in Scales : Scale(c, n, reps)
           \/ Delete(c, n)
      \/ DeployRefused(c) \/ Configure(c) \/ CreateDeployment(c) \/ GetDeployment(c) \/ UpdateDeployment(c)
      \/ CreateService(c) \/ Status(c) \/ ScaleDeployment(c) \/ Unserve(c) \/ Undeploy(c) \/ Breaks(c)

-----------------------------------------------------------------------------
Deployments == [on : BOOLEAN, rv : Nat, image : {<<>>} \cup {<<c>> : c \in Calls}, ports : SUBSET Ports,
                replicas : Nat, session : {<<>>} \cup ({"key"} \X Sessions)]

ServicesTypeOK ==
    /\ deps \in [Services -> Deployments]
    /\ svcs \in [Services -> [on : BOOLEAN, ports : SUBSET Ports]]
    /\ calls \in [Calls -> [op : Ops \cup {"none"},
                            step : {"new", "refused", "config", "create", "get", "update", "serve",
                                    "status", "unserve", "undeploy", "done"},
                            name : Services \cup {<<>>}, session : Sessions \cup {<<>>},
                            ports : SUBSET Ports, replicas : Nat, copy : Deployments, kept : BOOLEAN,
                            alone : BOOLEAN]]
    /\ fails \in 0..MaxFails
    /\ claims \in [Services -> [kind : {"none", "up", "down", "scaled"}, by : Calls \cup {<<>>}]]

\* A call that met no other call on its service, and answered OK, has done
\* what it says, whatever calls before it left half-made: after a launch the
\* Deployment is the one asked for, a Service leads to its ports unless the
\* call found a Service there and kept it, and service-list shows it to the
\* session that deployed it and to no other; after a scale it has the replicas
\* asked for; after a deletion, none of whose requests failed, both are gone.
\* (service.go, LaunchService to ScaleService)
AnswersHold ==
    \A n \in Services : LET c == claims[n].by IN
      /\ claims[n].kind = "up" =>
           /\ deps[n] = Wanted(c, deps[n].rv) /\ svcs[n].on
           /\ svcs[n].ports = calls[c].ports \/ calls[c].kept
           /\ \A s \in Sessions : (\E st \in Listed(s) : st.name = n) <=> s = calls[c].session
      /\ claims[n].kind = "scaled" => deps[n].on /\ deps[n].replicas = calls[c].replicas
      /\ claims[n].kind = "down" => ~deps[n].on /\ svcs[n] = NoSvc

\* A scale changes the replicas and nothing else: whatever was launched since
\* it read the Deployment, it brings no image, port or session back.
\* (service.go ScaleService: Get, then Update of the whole object)
Launched(d) == [d EXCEPT !.replicas = 0, !.rv = 0]
ScaleKeepsLaunch ==
    [][\A n \in Services, c \in Calls :
         calls[c].op = "scale" /\ calls[c].name = n /\ calls[c].step = "update" /\ calls'[c].step # "update"
         => Launched(deps[n])' = Launched(deps[n])]_serviceVars

\* service.go: "LaunchService creates/updates a Deployment + Service": after a
\* launch that was alone and is answered OK, the Service has its ports.
ServiceUpdated ==
    \A n \in Services : claims[n].kind = "up" => svcs[n].ports = calls[claims[n].by].ports

\* deploy_tools.go: "only the session that created a service may update/scale
\* it", and "a mismatched session is rejected": whom service-deploy refuses did
\* not make the service that is there.
OnlyStrangersRefused ==
    [][\A c \in Calls : calls[c].step = "new" /\ calls'[c].step = "refused"
         => deps[calls'[c].name].session # LabelKey(calls'[c].session)]_serviceVars
=============================================================================
