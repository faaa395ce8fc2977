-------------------------- MODULE PluginLifecycle ---------------------------
(***************************************************************************)
(* The plugin's workspace lifecycle: the tools and the workspace adapter   *)
(* of plugin/src/index.ts over the lease table (HostLeases), the binding   *)
(* store of plugin/src/state.ts, and what plugin/src/ssh.ts does to hosts  *)
(* and tunnels.                                                            *)
(*                                                                         *)
(* The plugin is one JavaScript thread: an invocation runs alone up to its *)
(* next await, which is where an action ends and where the others, and the *)
(* network, come in.  What an invocation read before the await it keeps in *)
(* job.  An await that talks to a host is one step that ends with the code *)
(* after it, up to the next await.                                         *)
(*                                                                         *)
(* The binding file is rewritten whenever the map changes, before anything *)
(* else runs, so one variable stands for both and survives a restart.      *)
(***************************************************************************)
EXTENDS HostLeases, FiniteSets

CONSTANTS
  Tasks,     \* tool and adapter invocations that can be in flight together
  Tunnels,   \* ssh processes; bound on the tunnels alive or remembered
  Unknown,   \* a host name the config does not have
  Tools,     \* what OpenCode and the user invoke
  Faults     \* what the surroundings do: "tunnel", "reboot", "slow", "stall",
             \* "restart", "cut"

Binding == [ws : Workspaces, host : Hosts, tunnel : Tunnels \cup {None}, sess : BOOLEAN]
ToolNames == {"create", "configure", "abandon", "switch", "doctor", "status", "list",
              "target", "remove", "disconnect"}
Job == [tool : ToolNames, arg : Hosts \cup {None, Unknown},
        todo : SUBSET Binding, cur : Binding \cup {None}, made : BOOLEAN]
Labels == {"idle", "boot", "tunnel", "health", "register", "find", "reuse", "session",
           "scan", "recover", "drop", "kill", "release", "check"}

ASSUME LifecycleAssumption ==
  /\ None \notin Workspaces \cup Hosts \cup Tunnels \cup Binding \cup Job
  /\ Unknown \notin Hosts \cup {None}
  /\ Tools \subseteq ToolNames

VARIABLES
  leases,      \* LeaseManager: [Hosts -> Workspaces \cup {None}]
  bindings,    \* RuntimeState and its file: [Workspaces -> Binding \cup {None}]
  pc, job,     \* where each invocation is, and its local variables
  configured,  \* workspaces OpenCode has configured and not yet created
  tunnels,     \* tunnels[n]: the host the live ssh process n leads to, or None
  stub,        \* stub[h]: the workspace whose token the stub on h accepts, or None
  registered   \* workspaces the stubs' state directories hold

plugin == <<leases, bindings, configured>>
remote == <<tunnels, stub, registered>>
vars == <<plugin, pc, job, remote>>

Stored == {bindings[w] : w \in Workspaces} \ {None}

Init ==
  /\ leases = [h \in Hosts |-> None]
  /\ bindings = [w \in Workspaces |-> None]
  /\ pc = [t \in Tasks |-> "idle"] /\ job = [t \in Tasks |-> None]
  /\ configured = {}
  /\ tunnels = [n \in Tunnels |-> None]
  /\ stub = [h \in Hosts |-> None]
  /\ registered = {}

-----------------------------------------------------------------------------
(* Helpers.                                                                *)

Held(t) == IF job[t] = None THEN {} ELSE job[t].todo \cup ({job[t].cur} \ {None})

(* remote-<ms>-<name>: an id that nothing refers to yet.                   *)
Fresh(w) ==
  /\ bindings[w] = None /\ w \notin configured \cup registered
  /\ \A h \in Hosts : leases[h] # w
  /\ \A t \in Tasks : \A b \in Held(t) : b.ws # w

(* A local port and process id for a new tunnel.                           *)
FreeTunnels ==
  {n \in Tunnels : /\ tunnels[n] = None
                   /\ \A b \in Stored : b.tunnel # n
                   /\ \A t \in Tasks : \A b \in Held(t) : b.tunnel # n}

(* The health endpoint answers 200 through tunnel n to ws's token.         *)
Answers(h, n, w) == n # None /\ tunnels[n] = h /\ stub[h] = w
Healthy(b) == Answers(b.host, b.tunnel, b.ws)

Goto(t, l) == pc' = [pc EXCEPT ![t] = l] /\ UNCHANGED job
Enter(t, l, j) == pc' = [pc EXCEPT ![t] = l] /\ job' = [job EXCEPT ![t] = j]
Finish(t) == Enter(t, "idle", None)

(* Mutant of Settle: remote-doctor does not keep the binding it got.       *)
Settle_LosesBinding(t, b) ==
  IF job[t].tool = "doctor" THEN Enter(t, "check", None) ELSE Finish(t)

(* The end of an invocation's first part: remote-doctor goes on.           *)
Settle(t, b) ==
  IF job[t].tool = "doctor" THEN Enter(t, "check", [job[t] EXCEPT !.cur = b]) ELSE Finish(t)

(* state.set and state.replace; state.delete.                              *)
Store(b) == bindings' = [bindings EXCEPT ![b.ws] = b]
Forget(b) == bindings' = [bindings EXCEPT ![b.ws] = None]
Release(b) == leases' = Released(leases, b.host, b.ws)

-----------------------------------------------------------------------------
(* Creating: remote-workspace-create, the adapter's configure and create,  *)
(* and createConnectedBinding.                                             *)

NewBinding(w, h) == [ws |-> w, host |-> h, tunnel |-> None, sess |-> FALSE]

(* acquireResolved for a new id, up to the first await of bootstrap.       *)
Acquire(t, tool, arg, w, h) ==
  /\ h \in Selectable(leases, w, Candidates(arg))
  /\ leases' = Acquired(leases, h, w)
  /\ Enter(t, "boot", [tool |-> tool, arg |-> arg, todo |-> {}, cur |-> NewBinding(w, h), made |-> TRUE])

CreateStart(t, arg, w, h) ==
  /\ pc[t] = "idle" /\ "create" \in Tools /\ Fresh(w)
  /\ Acquire(t, "create", arg, w, h)
  /\ UNCHANGED <<bindings, configured, remote>>

(* configureWorkspace leases a host and is done.                           *)
Configure(w, arg, h) ==
  /\ "configure" \in Tools /\ Fresh(w)
  /\ h \in Selectable(leases, w, Candidates(arg))
  /\ leases' = Acquired(leases, h, w)
  /\ configured' = configured \cup {w}
  /\ UNCHANGED <<bindings, pc, job, remote>>

(* createWorkspace follows for the same id, on the host configure chose.   *)
AdapterCreate(t, w, h) ==
  /\ pc[t] = "idle" /\ w \in configured /\ leases[h] = w
  /\ Acquire(t, "create", h, w, h)
  /\ configured' = configured \ {w}
  /\ UNCHANGED <<bindings, remote>>

(* Mutant of BootFails: the lease is kept.                                 *)
BootFails_KeepsLease(t) ==
  /\ Finish(t)
  /\ UNCHANGED <<leases, bindings, configured>>

(* The catch of every creation: the lease goes back; a tunnel that was     *)
(* opened is not closed.                                                   *)
BootFails(t) ==
  /\ Release(job[t].cur)
  /\ Finish(t)
  /\ UNCHANGED <<bindings, configured>>

(* bootstrap, up to the start of the stub: ssh may fail before pkill, or   *)
(* after it, when no stub is left; a stub that starts accepts this token   *)
(* and no other.                                                           *)
StartStub(t) ==
  LET b == job[t].cur IN
  /\ pc[t] = "boot"
  /\ \/ BootFails(t) /\ UNCHANGED remote
     \/ BootFails(t) /\ stub' = [stub EXCEPT ![b.host] = None] /\ UNCHANGED <<tunnels, registered>>
     \/ /\ stub' = [stub EXCEPT ![b.host] = b.ws]
        /\ Goto(t, "tunnel")
        /\ UNCHANGED <<plugin, tunnels, registered>>

(* ensureTunnel: a free port, or the error that there is none.             *)
OpenTunnel(t) ==
  LET b == job[t].cur IN
  /\ pc[t] = "tunnel"
  /\ \/ \E n \in FreeTunnels :
          /\ tunnels' = [tunnels EXCEPT ![n] = b.host]
          /\ Enter(t, "health", [job[t] EXCEPT !.cur = [@ EXCEPT !.tunnel = n]])
          /\ UNCHANGED <<plugin, stub, registered>>
     \/ FreeTunnels = {} /\ BootFails(t) /\ UNCHANGED remote

(* waitForHealth, then state.set; createConnectedBinding registers first.  *)
AwaitHealth(t) ==
  LET b == job[t].cur IN
  /\ pc[t] = "health"
  /\ \/ Healthy(b) /\ job[t].tool = "create" /\ Store(b) /\ Finish(t) /\ UNCHANGED <<leases, configured>>
     \/ Healthy(b) /\ job[t].tool # "create" /\ Goto(t, "register") /\ UNCHANGED plugin
     \/ (~ Healthy(b) \/ "slow" \in Faults) /\ BootFails(t)
  /\ UNCHANGED remote

(* createRemoteWorkspace, createRemoteSession, setBinding.  Either request *)
(* may be answered 500 or not at all, the second after the first was done. *)
Register(t) ==
  LET b == [job[t].cur EXCEPT !.sess = TRUE] IN
  /\ pc[t] = "register"
  /\ \/ /\ Healthy(b)
        /\ registered' = registered \cup {b.ws}
        /\ Store(b) /\ Settle(t, b) /\ UNCHANGED <<leases, configured>>
     \/ ~ Healthy(b) /\ BootFails(t) /\ UNCHANGED registered
     \/ "stall" \in Faults /\ BootFails(t) /\ registered' \in {registered, registered \cup {b.ws}}
  /\ UNCHANGED <<tunnels, stub>>

-----------------------------------------------------------------------------
(* ensureRecoveredBinding: b is unchanged when its health endpoint answers *)
(* within the 500 ms of a probe.  Else, also where a stub that is well     *)
(* stalls that long, a tunnel is opened anew, which waitForHealth may then *)
(* not see answer in time.  The outcomes are the bindings it may return    *)
(* and None where it throws (the new tunnel may then be left).             *)
Recover(b, r) ==
  \/ Healthy(b) /\ r = b /\ UNCHANGED tunnels
  \/ /\ ~ Healthy(b) \/ "stall" \in Faults
     /\ \/ r = None /\ UNCHANGED tunnels
        \/ \E n \in FreeTunnels :
             /\ tunnels' = [tunnels EXCEPT ![n] = b.host]
             /\ \/ stub[b.host] = b.ws /\ r = [b EXCEPT !.tunnel = n]
                \/ stub[b.host] # b.ws /\ r = None
                \/ {"slow", "stall"} \cap Faults # {} /\ r = None
Outcomes(b) == {b, None} \cup {[b EXCEPT !.tunnel = n] : n \in Tunnels}

(* Reusing: remote-switch and remote-doctor, findReusableBinding.          *)
SwitchStart(t, tool, arg) ==
  /\ pc[t] = "idle" /\ tool \in {"switch", "doctor"} \cap Tools
  /\ Enter(t, "find", [tool |-> tool, arg |-> arg, todo |-> Stored, cur |-> None, made |-> FALSE])
  /\ UNCHANGED <<plugin, remote>>

(* One turn of the loop.  The host asked for is resolved for the binding's *)
(* workspace: an error is taken for a failed recovery, and the binding     *)
(* goes; another host is given back.                                       *)
FindNext(t, b) ==
  LET host == IF job[t].arg = None THEN b.host ELSE job[t].arg
      sel  == Selectable(leases, b.ws, Candidates(host))
      left == [job[t] EXCEPT !.todo = @ \ {b}] IN
  /\ pc[t] = "find" /\ b \in job[t].todo
  /\ \/ /\ sel = {}
        /\ Release(b) /\ Forget(b)
        /\ Enter(t, "find", left)
     \/ /\ b.host \in sel
        /\ leases' = Acquired(leases, b.host, b.ws) /\ UNCHANGED bindings
        /\ Enter(t, "reuse", [left EXCEPT !.cur = b])
     \/ \E h \in sel \ {b.host} :
        /\ leases' = Released(Acquired(leases, h, b.ws), h, b.ws) /\ UNCHANGED bindings
        /\ Enter(t, "find", left)
  /\ UNCHANGED <<configured, remote>>

(* The catch in the loop.                                                  *)
ReuseFails(t, b) ==
  /\ Release(b) /\ Forget(b)
  /\ Enter(t, "find", [job[t] EXCEPT !.cur = None])
  /\ UNCHANGED configured

(* Recovery, then replaceBinding, at once where there is a session.        *)
Reuse(t, r) ==
  LET b == job[t].cur IN
  /\ pc[t] = "reuse" /\ r \in Outcomes(b) /\ Recover(b, r)
  /\ \/ r = None /\ ReuseFails(t, b)
     \/ r # None /\ r.sess /\ Store(r) /\ Settle(t, r) /\ UNCHANGED <<leases, configured>>
     \/ r # None /\ ~ r.sess /\ Enter(t, "session", [job[t] EXCEPT !.cur = r]) /\ UNCHANGED plugin
  /\ UNCHANGED <<stub, registered>>

(* createRemoteSession for a binding without one: the stub answers 404     *)
(* when it does not have the workspace, and 500 when it cannot write the   *)
(* session (SessionCreate).  A snapshot that another invocation holds of b *)
(* keeps sess = FALSE here; in the code it may be the same object and show *)
(* the session.                                                            *)
MakeSession(t) ==
  LET b == [job[t].cur EXCEPT !.sess = TRUE] IN
  /\ pc[t] = "session"
  /\ \/ Healthy(b) /\ b.ws \in registered /\ Store(b) /\ Settle(t, b) /\ UNCHANGED <<leases, configured>>
     \/ (~ Healthy(b) \/ b.ws \notin registered \/ "stall" \in Faults) /\ ReuseFails(t, b)
  /\ UNCHANGED remote

(* Nothing to reuse: createConnectedBinding, or its error.  Bound: where    *)
(* the model has no id left the invocation ends in the same way.           *)
FindNone(t) ==
  /\ pc[t] = "find" /\ job[t].todo = {}
  /\ \/ \E w \in Workspaces, h \in Hosts : Fresh(w) /\ Acquire(t, job[t].tool, job[t].arg, w, h)
     \/ /\ \/ \A h \in Candidates(job[t].arg) : leases[h] # None
           \/ ~ \E w \in Workspaces : Fresh(w)
        /\ Finish(t) /\ UNCHANGED leases
  /\ UNCHANGED <<bindings, configured, remote>>

-----------------------------------------------------------------------------
(* Checking: remote-status, remote-workspace-list, the adapter's target.   *)

ScanStart(t, tool, todo) ==
  /\ pc[t] = "idle" /\ tool \in {"status", "list", "target"} \cap Tools
  /\ IF tool = "target" THEN Cardinality(todo) = 1 ELSE todo = Stored
  /\ Enter(t, "scan", [tool |-> tool, arg |-> None, todo |-> todo, cur |-> None, made |-> FALSE])
  /\ UNCHANGED <<plugin, remote>>

(* Mutants of ScanFails: whoever meets an error gives the lease back; the   *)
(* failed binding is tried again.                                          *)
ScanFails_AllRelease(t, b) ==
  /\ IF job[t].tool = "status"
     THEN Forget(b) /\ Enter(t, "scan", [job[t] EXCEPT !.todo = @ \ {b}, !.cur = None])
     ELSE Finish(t) /\ UNCHANGED bindings
  /\ Release(b) /\ UNCHANGED configured
ScanFails_TriesAgain(t, b) ==
  /\ Forget(b) /\ Release(b)
  /\ Enter(t, "scan", [job[t] EXCEPT !.cur = None])
  /\ UNCHANGED configured

(* What an error means: remote-status forgets the binding and goes on; the *)
(* others pass it to the caller.                                           *)
ScanFails(t, b) ==
  /\ IF job[t].tool = "status"
     THEN Forget(b) /\ Release(b) /\ Enter(t, "scan", [job[t] EXCEPT !.todo = @ \ {b}, !.cur = None])
     ELSE Finish(t) /\ UNCHANGED <<bindings, leases>>
  /\ UNCHANGED configured

(* ensureBindingReady up to its await.                                     *)
ScanNext(t, b) ==
  /\ pc[t] = "scan" /\ b \in job[t].todo
  /\ IF Selectable(leases, b.ws, {b.host}) = {}
     THEN ScanFails(t, b)
     ELSE /\ leases' = Acquired(leases, b.host, b.ws)
          /\ Enter(t, "recover", [job[t] EXCEPT !.cur = b])
          /\ UNCHANGED <<bindings, configured>>
  /\ UNCHANGED remote

(* ...and after it: state.replace only when the tunnel is another.         *)
RecoverDone(t, r) ==
  LET b == job[t].cur IN
  /\ pc[t] = "recover" /\ r \in Outcomes(b) /\ Recover(b, r)
  /\ IF r = None
     THEN ScanFails(t, b)
     ELSE /\ IF r # b THEN Store(r) ELSE UNCHANGED bindings
          /\ Enter(t, "scan", [job[t] EXCEPT !.todo = @ \ {b}, !.cur = None])
          /\ UNCHANGED <<leases, configured>>
  /\ UNCHANGED <<stub, registered>>

ScanEnd(t) ==
  /\ pc[t] = "scan" /\ job[t].todo = {}
  /\ Finish(t)
  /\ UNCHANGED <<plugin, remote>>

-----------------------------------------------------------------------------
(* Removing: remote-workspace-remove, the adapter's remove (one binding),  *)
(* remote-disconnect (one or all).                                         *)

RemoveStart(t, tool, todo) ==
  /\ pc[t] = "idle" /\ tool \in {"remove", "disconnect"} \cap Tools
  /\ Cardinality(todo) = 1 \/ (tool = "disconnect" /\ todo = Stored /\ todo # {})
  /\ Enter(t, "drop", [tool |-> tool, arg |-> None, todo |-> todo, cur |-> None, made |-> FALSE])
  /\ UNCHANGED <<plugin, remote>>

(* removeWorkspace for a workspace without a binding does nothing: a lease *)
(* taken by configure stays, for a workspace OpenCode no longer knows.     *)
RemoveConfigured(w) ==
  /\ "abandon" \in Tools /\ w \in configured
  /\ configured' = configured \ {w}
  /\ UNCHANGED <<leases, bindings, pc, job, remote>>

(* removeRemoteWorkspace, best effort.                                     *)
Unregister(t, b) ==
  /\ pc[t] = "drop" /\ b \in job[t].todo
  /\ registered' = IF Healthy(b) THEN registered \ {b.ws} ELSE registered
  /\ Enter(t, "kill", [job[t] EXCEPT !.todo = @ \ {b}, !.cur = b])
  /\ UNCHANGED <<plugin, tunnels, stub>>

(* closeRecoveredBinding: the process goes, or the port stays open and the *)
(* error ends the whole invocation.                                        *)
KillTunnel(t) ==
  LET n == job[t].cur.tunnel IN
  /\ pc[t] = "kill"
  /\ \/ tunnels' = [tunnels EXCEPT ![n] = None] /\ Goto(t, "release")
     \/ "slow" \in Faults /\ tunnels[n] # None /\ UNCHANGED tunnels /\ Finish(t)
  /\ UNCHANGED <<plugin, stub, registered>>

(* providers.release, state.delete.                                        *)
Drop(t) ==
  /\ pc[t] = "release"
  /\ Release(job[t].cur) /\ Forget(job[t].cur)
  /\ Enter(t, "drop", [job[t] EXCEPT !.cur = None])
  /\ UNCHANGED <<configured, remote>>

DropEnd(t) ==
  /\ pc[t] = "drop" /\ job[t].todo = {}
  /\ Finish(t)
  /\ UNCHANGED <<plugin, remote>>

(* remote-doctor's health check, and its finally: a binding made for it is *)
(* removed.                                                                *)
DoctorCheck(t) ==
  /\ pc[t] = "check"
  /\ IF job[t].made
     THEN Enter(t, "drop", [job[t] EXCEPT !.todo = {job[t].cur}, !.cur = None])
     ELSE Finish(t)
  /\ UNCHANGED <<plugin, remote>>

-----------------------------------------------------------------------------
(* The surroundings.                                                       *)

TunnelDies(n) ==
  /\ "tunnel" \in Faults /\ tunnels[n] # None
  /\ tunnels' = [tunnels EXCEPT ![n] = None]
  /\ UNCHANGED <<plugin, pc, job, stub, registered>>

Reboot(h) ==
  /\ "reboot" \in Faults /\ stub[h] # None
  /\ stub' = [stub EXCEPT ![h] = None]
  /\ UNCHANGED <<plugin, pc, job, tunnels, registered>>

(* OpenCode ends, at any await, and starts again: the bindings are loaded  *)
(* and their leases restored; the ssh processes are detached and live on.  *)
Restart ==
  /\ "restart" \in Faults
  /\ leases' \in Restored(Stored)
  /\ pc' = [t \in Tasks |-> "idle"] /\ job' = [t \in Tasks |-> None]
  /\ configured' = {}
  /\ UNCHANGED <<bindings, remote>>

(* save overwrites the file in place: a process that ends within it leaves *)
(* half a text, which load takes for no bindings at all.  The labels are   *)
(* those of the steps that save.                                           *)
CutOff ==
  /\ "cut" \in Faults
  /\ \E t \in Tasks :
       pc[t] \in {"health", "register", "find", "reuse", "session", "scan", "recover", "release"}
  /\ bindings' = [w \in Workspaces |-> None]
  /\ leases' = [h \in Hosts |-> None]
  /\ pc' = [t \in Tasks |-> "idle"] /\ job' = [t \in Tasks |-> None]
  /\ configured' = {}
  /\ UNCHANGED remote

-----------------------------------------------------------------------------
Invoke(t) ==
  \/ \E arg \in Hosts \cup {None, Unknown}, w \in Workspaces, h \in Hosts : CreateStart(t, arg, w, h)
  \/ \E w \in Workspaces, h \in Hosts : AdapterCreate(t, w, h)
  \/ \E tool \in ToolNames, arg \in Hosts \cup {None, Unknown} : SwitchStart(t, tool, arg)
  \/ \E tool \in ToolNames, todo \in SUBSET Stored : ScanStart(t, tool, todo)
  \/ \E tool \in ToolNames, todo \in SUBSET Stored : RemoveStart(t, tool, todo)

Proceed(t) ==
  \/ StartStub(t) \/ OpenTunnel(t) \/ AwaitHealth(t) \/ Register(t)
  \/ pc[t] = "find" /\ \E b \in job[t].todo : FindNext(t, b)
  \/ pc[t] = "reuse" /\ \E r \in Outcomes(job[t].cur) : Reuse(t, r)
  \/ MakeSession(t)
  \/ FindNone(t)
  \/ pc[t] = "scan" /\ \E b \in job[t].todo : ScanNext(t, b)
  \/ pc[t] = "recover" /\ \E r \in Outcomes(job[t].cur) : RecoverDone(t, r)
  \/ ScanEnd(t)
  \/ pc[t] = "drop" /\ \E b \in job[t].todo : Unregister(t, b)
  \/ KillTunnel(t) \/ Drop(t) \/ DropEnd(t)
  \/ DoctorCheck(t)

Next ==
  \/ \E t \in Tasks : Invoke(t) \/ Proceed(t)
  \/ \E w \in Workspaces, arg \in Hosts \cup {None, Unknown}, h \in Hosts : Configure(w, arg, h)
  \/ \E w \in Workspaces : RemoveConfigured(w)
  \/ \E n \in Tunnels : TunnelDies(n)
  \/ \E h \in Hosts : Reboot(h)
  \/ Restart
  \/ CutOff

Spec == Init /\ [][Next]_vars

(* The event loop keeps an invocation moving, and every wait ends: that of *)
(* an ssh process and of a probe by the timeout the plugin gives it, that  *)
(* of any other request to the stub, which has none (ssh.ts waitForHealth, *)
(* index.ts), when the connection ends or by the HTTP client's own limit.  *)
(* Nothing makes users invoke, processes die or hosts reboot.              *)
FairSpec == Spec /\ \A t \in Tasks : WF_vars(Proceed(t))

-----------------------------------------------------------------------------
(* Properties.                                                             *)

(* Every variable holds values of its kind, a busy invocation has a job,   *)
(* and one past its first await the binding it works on.                   *)
TypeOK ==
  /\ leases \in [Hosts -> Workspaces \cup {None}]
  /\ bindings \in [Workspaces -> Binding \cup {None}]
  /\ \A w \in Workspaces : bindings[w] # None => bindings[w].ws = w
  /\ pc \in [Tasks -> Labels]
  /\ job \in [Tasks -> Job \cup {None}]
  /\ \A t \in Tasks : pc[t] # "idle" => job[t] \in Job
  /\ \A t \in Tasks : pc[t] \notin {"idle", "find", "scan", "drop"} => job[t].cur \in Binding
  /\ configured \subseteq Workspaces
  /\ tunnels \in [Tunnels -> Hosts \cup {None}]
  /\ stub \in [Hosts -> Workspaces \cup {None}]
  /\ registered \subseteq Workspaces

(* A stored binding holds the lease of its host: whoever else resolves     *)
(* that host is turned away (rehydrateLeasesFromState, the release in      *)
(* every catch, removeBinding).                                            *)
BoundIsLeased == \A b \in Stored : leases[b.host] = b.ws

(* No lease outlives its use: its workspace has a binding on the host, or  *)
(* is being created there, or is configured and still to be created.       *)
LeaseAccounted ==
  \A h \in Hosts : leases[h] # None =>
    \/ bindings[leases[h]] # None /\ bindings[leases[h]].host = h
    \/ leases[h] \in configured
    \/ \E t \in Tasks : \E b \in Held(t) : b.ws = leases[h] /\ b.host = h

(* From acquireResolved to the stored binding, an invocation that creates  *)
(* a workspace has its host to itself: no other is bootstrapping there     *)
(* (which would stop its stub) and no binding of another names it.         *)
Creating(t) == pc[t] \in {"boot", "tunnel", "health", "register"}
SoleUser ==
  \A t \in Tasks : Creating(t) =>
    /\ leases[job[t].cur.host] = job[t].cur.ws
    /\ \A u \in Tasks \ {t} : Creating(u) => job[u].cur.host # job[t].cur.host
    /\ \A b \in Stored : b.host # job[t].cur.host

(* A lease passes from one workspace to another only through being free.   *)
NoTakeover ==
  [][\A h \in Hosts : leases[h] # None => leases'[h] \in {leases[h], None}]_vars

(* Inductive strengthening of BoundIsLeased, SoleUser and NoTakeover while *)
(* bindings are only created and removed (PluginLifecycleProofs): a lease  *)
(* goes unbroken from the invocation that acquires it to the binding it    *)
(* stores, and nobody who removes a binding still holds it when its        *)
(* workspace id is one of those being created.                             *)
OwnerTools == {"create", "configure", "abandon", "remove", "disconnect"}
LeaseInv ==
  /\ BoundIsLeased
  /\ \A t \in Tasks : pc[t] \in {"idle", "boot", "tunnel", "health", "drop", "kill", "release"}
  /\ \A t \in Tasks : Creating(t) =>
       /\ job[t].tool = "create"
       /\ leases[job[t].cur.host] = job[t].cur.ws
       /\ bindings[job[t].cur.ws] = None /\ job[t].cur.ws \notin configured
  /\ \A t, u \in Tasks : t # u /\ Creating(t) /\ Creating(u) => job[t].cur.ws # job[u].cur.ws
  /\ \A w \in configured : bindings[w] = None
  /\ \A t \in Tasks : pc[t] \in {"drop", "kill", "release"} =>
       \A b \in Held(t) :
         /\ b.ws \notin configured
         /\ \A u \in Tasks : Creating(u) => job[u].cur.ws # b.ws

(* Two workspaces are never ready on one host (ARCHITECTURE: "Ensures only *)
(* one workspace uses a host at a time").                                  *)
OneWorkspacePerHost == \A b, c \in Stored : b.host = c.host => b = c

(* A binding that can be reached is given up by its removal only, or where *)
(* the code cannot reuse it: a switch or doctor that names another host, a *)
(* session wanted of a stub that has no such workspace, or, where stubs    *)
(* may stall, a probe or session of this very workspace that they left     *)
(* unanswered.  Nothing else takes it: no check or failure of another, no  *)
(* lease that another got, no restart, whatever died or rebooted before    *)
(* (findReusableBinding, ensureBindingReady and the catches around them).  *)
HealthyStays ==
  [][\A w \in Workspaces :
       bindings[w] # None /\ Healthy(bindings[w]) /\ bindings'[w] = None =>
         \E t \in Tasks :
           \/ pc[t] = "release" /\ job[t].cur.ws = w
           \/ pc[t] = "find" /\ job[t].arg \notin {None, bindings[w].host}
           \/ pc[t] = "session" /\ job[t].cur.ws = w /\ w \notin registered
           \/ "stall" \in Faults /\ pc[t] \in {"reuse", "recover", "session"} /\ job[t].cur.ws = w]_vars

(* Every invocation gives its answer.                                      *)
InvocationEnds == \A t \in Tasks : pc[t] # "idle" ~> pc[t] = "idle"
=============================================================================
