----------------------------- MODULE SshManager -----------------------------
(***************************************************************************)
(* SSHManager of plugin/src/ssh.ts step by step: how bootstrap installs    *)
(* and starts the stub on a host, and how local ports are searched, ssh    *)
(* processes started, awaited, remembered and ended; with its two callers, *)
(* the plugin's tools (by what they store) and the live harness            *)
(* scripts/verify-remote-lifecycle.mjs, a process of its own.              *)
(*                                                                         *)
(* An action ends at an await whose outcome others can change.  A command  *)
(* that fails locally (a timeout of execFile) may have done its work on    *)
(* the host.  A token is named by the workspace it was made for, once per  *)
(* bootstrap, and workspace ids are fresh.                                 *)
(***************************************************************************)
EXTENDS Integers, FiniteSets

CONSTANTS
  Workspaces,   \* workspace ids, each with one call at a time
  Harness,      \* those of them the live harness makes for itself
  Hosts,        \* remote machines
  HostOf,       \* HostOf[w]: the host w was resolved to (HostLeases)
  First, Last,  \* tunnel.localPortRange
  InitialPort,  \* InitialPort[w]: what the hash of w and its host begins with
  Pids,         \* bound: ssh processes alive or remembered
  Starts,       \* bound: bootstraps that ever begin
  Earlier,      \* the token of a stub that was on a host before...
  Left,         \* ...and the hosts where setup-host.sh or a user left one
  None,
  StrangerPorts, \* where another program may listen
  Faults        \* "tunnel", "stub", "relaunch", "stall"

Ports == First .. Last
Span == Last - First + 1
Kinds == {"boot", "verify", "recover", "close"}
Binding == [port : Ports, pid : Pids]
Tokens == Workspaces \cup {Earlier}
Child == [port : Ports, host : Hosts, up : BOOLEAN]
Job == [kind : Kinds, port : Ports, pid : Pids \cup {None},
        attempt : -1 .. Span - 1, tried : SUBSET Ports]
Labels == {"idle", "install", "kill", "start", "probe", "wait", "health", "cleanup", "closing"}

ASSUME SshAssumption ==
  /\ First \in Int /\ Last \in Int /\ First <= Last /\ Starts \in Nat
  /\ HostOf \in [Workspaces -> Hosts]
  /\ InitialPort \in [Workspaces -> Ports]
  /\ Harness \subseteq Workspaces /\ Left \subseteq Hosts
  /\ None \notin Tokens \cup Pids \cup Binding \cup Child \cup Job
  /\ Earlier \notin Workspaces

VARIABLES
  pc, job,     \* where the call on each workspace is, and its local variables
  bound,       \* bound[w]: port and process of w's stored binding, or None
  fresh,       \* workspace ids not used yet
  child,       \* child[n]: the ssh process n, connecting or up, or None
  tokenFile,   \* tokenFile[h]: whose token run/stub.token holds on h, or None
  running,     \* running[h]: whose token the stub serving on h accepts, or None
  strangers,   \* local ports another program answers on, like a stub
  contested,   \* history: hosts on which a bootstrap began beside another user
  lost         \* history: processes that a call which failed left to nobody

calls == <<pc, job, bound, fresh>>
host == <<tokenFile, running, contested>>
vars == <<calls, host, child, strangers, lost>>

Init ==
  /\ pc = [w \in Workspaces |-> "idle"] /\ job = [w \in Workspaces |-> None]
  /\ bound = [w \in Workspaces |-> None]
  /\ fresh = Workspaces
  /\ child = [n \in Pids |-> None]
  /\ tokenFile = [h \in Hosts |-> IF h \in Left THEN Earlier ELSE None]
  /\ running = tokenFile
  /\ strangers = {} /\ contested = {} /\ lost = {}

-----------------------------------------------------------------------------
(* What a local port leads to.                                             *)

Up(n, p) == child[n] # None /\ child[n].up /\ child[n].port = p

(* isPortReachable asks without a token: any stub's 401 will do.           *)
Reachable(p) == \/ p \in strangers
                \/ \E n \in Pids : Up(n, p) /\ running[child[n].host] # None

(* isHealthReachable: 200, for w's token.                                  *)
Answers(p, w) == \E n \in Pids : Up(n, p) /\ running[child[n].host] = w

(* Half a second is all a probe waits: a stalled tunnel reads as none.     *)
Seen(fact) == IF fact /\ "stall" \in Faults THEN {TRUE, FALSE} ELSE {fact}

Live == {n \in Pids : child[n] # None}

Goto(w, l) == pc' = [pc EXCEPT ![w] = l] /\ UNCHANGED job
Enter(w, l, j) == pc' = [pc EXCEPT ![w] = l] /\ job' = [job EXCEPT ![w] = j]
Finish(w) == Enter(w, "idle", None)

(* Process ids are not reused while anything remembers them.               *)
FreePids == {n \in Pids : /\ child[n] = None
                          /\ \A w \in Workspaces : /\ bound[w] # None => bound[w].pid # n
                                                   /\ job[w] # None => job[w].pid # n}

-----------------------------------------------------------------------------
(* The ports a search visits.                                              *)

(* Mutants of SearchPort: the wrap forgets the hashed start; the range is  *)
(* taken for one port longer.                                              *)
SearchPort_Long(initial, attempt) == First + ((initial - First + attempt) % (Span + 1))

SearchPort_NoWrap(initial, attempt) ==
  IF initial + attempt > Last THEN Last ELSE initial + attempt

(* ensureTunnel: the whole range, from the hashed port round to it again.  *)
SearchPort(initial, attempt) == First + ((initial - First + attempt) % Span)

SearchFrom(w, j, k) ==
  [j EXCEPT !.attempt = k, !.port = SearchPort(InitialPort[w], k), !.pid = None,
            !.tried = IF k = 0 THEN {} ELSE @]

-----------------------------------------------------------------------------
(* bootstrap, up to the stub.                                              *)

(* A workspace occupies its host from the start of its bootstrap to the    *)
(* end of its binding.  Nothing here or on the host keeps others away: the *)
(* lease does, for the workspaces of one plugin as long as each keeps it   *)
(* (PluginLifecycle), but the harness has a LeaseManager of its own.       *)
Occupies(w) == bound[w] # None \/ pc[w] # "idle"
BootStart(w) ==
  LET h == HostOf[w] IN
  /\ w \in fresh /\ ~ Occupies(w) /\ Cardinality(Workspaces \ fresh) < Starts
  /\ fresh' = fresh \ {w}
  /\ contested' = IF \E v \in Workspaces : HostOf[v] = h /\ Occupies(v) THEN contested \cup {h} ELSE contested
  /\ Enter(w, "install", [kind |-> IF w \in Harness THEN "verify" ELSE "boot",
                          port |-> InitialPort[w], pid |-> None, attempt |-> 0, tried |-> {}])
  /\ UNCHANGED <<bound, tokenFile, running, child, strangers, lost>>

(* Mutant of Install: a token file that is there already will do.          *)
Install_KeepsFile(w) ==
  LET h == HostOf[w] IN
  /\ pc[w] = "install"
  /\ tokenFile' = [tokenFile EXCEPT ![h] = IF @ = None THEN w ELSE @]
  /\ Goto(w, "kill") \/ Finish(w)
  /\ UNCHANGED <<bound, fresh, running, contested, child, strangers, lost>>

(* resolveRemoteHome, mkdir, the binary where its hash differs, and scp of *)
(* the token file: any may fail, and the last may be done and fail.        *)
Install(w) ==
  LET h == HostOf[w] IN
  /\ pc[w] = "install"
  /\ \/ tokenFile' = [tokenFile EXCEPT ![h] = w] /\ (Goto(w, "kill") \/ Finish(w))
     \/ UNCHANGED tokenFile /\ Finish(w)
  /\ UNCHANGED <<bound, fresh, running, contested, child, strangers, lost>>

(* pkill: execSSHAllowFailure goes on whether it did anything or not, then *)
(* mkdir may fail.                                                         *)
KillOld(w) ==
  /\ pc[w] = "kill"
  /\ running' \in {running, [running EXCEPT ![HostOf[w]] = None]}
  /\ Goto(w, "start") \/ Finish(w)
  /\ UNCHANGED <<bound, fresh, tokenFile, contested, child, strangers, lost>>

(* The start command.  The new stub reads the token file and ends when the *)
(* port is taken; the second here-document being empty, the command says   *)
(* success whatever became of the first.                                   *)
StartStub(w) ==
  LET h == HostOf[w] IN
  /\ pc[w] = "start"
  /\ \/ running[h] = None /\ running' = [running EXCEPT ![h] = tokenFile[h]]
     \/ UNCHANGED running
  /\ Enter(w, "probe", SearchFrom(w, job[w], 0)) \/ Finish(w)
  /\ UNCHANGED <<bound, fresh, tokenFile, contested, child, strangers, lost>>

-----------------------------------------------------------------------------
(* The search for a tunnel: ensureTunnel, ensureSpecificOrFallbackTunnel,  *)
(* tryStartTunnel.                                                         *)

(* A call that throws.  remote-status and remote-switch drop a binding     *)
(* that cannot be recovered, the others keep it.                           *)
Throws(w, orphan) ==
  /\ Finish(w)
  /\ UNCHANGED fresh
  /\ \/ UNCHANGED bound /\ lost' = lost \cup orphan
     \/ /\ job[w].kind = "recover"
        /\ bound' = [bound EXCEPT ![w] = None]
        /\ lost' = lost \cup orphan \cup ({bound[w].pid} \cap Live)

(* Mutant of NextPort: the search begins again where it should end.        *)
NextPort_Forever(w, j) ==
  /\ Enter(w, "probe", SearchFrom(w, j, (j.attempt + 1) % Span))
  /\ UNCHANGED <<bound, fresh, lost>>

(* The port did not do: the next of the range, or the error that there is  *)
(* none.  Attempt -1 is the port the binding had.                          *)
NextPort(w, j) ==
  IF j.attempt + 1 < Span
  THEN Enter(w, "probe", SearchFrom(w, j, j.attempt + 1)) /\ UNCHANGED <<bound, fresh, lost>>
  ELSE Throws(w, {})

(* The port is probed and, where nothing answers, ssh started for it.      *)
(* Bound: with no id left, that is as if it had been too slow.             *)
Probe(w) ==
  LET j == [job[w] EXCEPT !.tried = @ \cup {job[w].port}] IN
  /\ pc[w] = "probe"
  /\ \/ /\ TRUE \in Seen(Reachable(j.port)) \/ FreePids = {}
        /\ NextPort(w, j) /\ UNCHANGED child
     \/ /\ FALSE \in Seen(Reachable(j.port))
        /\ \E n \in FreePids :
             /\ child' = [child EXCEPT ![n] = [port |-> j.port, host |-> HostOf[w], up |-> FALSE]]
             /\ Enter(w, "wait", [j EXCEPT !.pid = n])
        /\ UNCHANGED <<bound, fresh, lost>>
  /\ UNCHANGED <<host, strangers>>

(* waitForPortReachable: whatever answers there, child.pid is returned.    *)
Reached(w) ==
  /\ pc[w] = "wait" /\ Reachable(job[w].port)
  /\ Goto(w, "health")
  /\ UNCHANGED <<bound, fresh, host, child, strangers, lost>>

(* Mutant of TimedOut: the process that was too slow is not ended.         *)
TimedOut_Spares(w) ==
  /\ pc[w] = "wait"
  /\ NextPort(w, job[w])
  /\ UNCHANGED <<child, host, strangers>>

(* connectTimeoutMs is over: the process is ended, if there still is one.  *)
TimedOut(w) ==
  /\ pc[w] = "wait"
  /\ child' = [child EXCEPT ![job[w].pid] = None]
  /\ NextPort(w, job[w])
  /\ UNCHANGED <<host, strangers>>

(* Mutant of AwaitHealth: any answer will do, as it does for a port.       *)
AwaitHealth_AnyAnswer(w) ==
  LET j == job[w] IN
  /\ pc[w] = "health" /\ Reachable(j.port)
  /\ bound' = [bound EXCEPT ![w] = [port |-> j.port, pid |-> j.pid]]
  /\ Finish(w)
  /\ UNCHANGED <<fresh, lost, host, child, strangers>>

(* waitForHealth asks with the token until healthTimeoutMs.  The binding   *)
(* is stored; the harness keeps it to itself; on the error the process     *)
(* that was started goes on without anyone who knows it.                   *)
AwaitHealth(w) ==
  LET j == job[w] IN
  /\ pc[w] = "health"
  /\ \/ /\ Answers(j.port, w)
        /\ IF j.kind = "verify"
           THEN Goto(w, "cleanup") /\ UNCHANGED <<bound, lost>>
           ELSE /\ bound' = [bound EXCEPT ![w] = [port |-> j.port, pid |-> j.pid]]
                /\ lost' = lost \cup {n \in Live : bound[w] # None /\ bound[w].pid = n}
                /\ Finish(w)
        /\ UNCHANGED fresh
     \/ FALSE \in Seen(Answers(j.port, w)) /\ Throws(w, {j.pid} \cap Live)
  /\ UNCHANGED <<host, child, strangers>>

-----------------------------------------------------------------------------
(* ensureRecoveredBinding, closeRecoveredBinding.                          *)

JobOn(kind, w) == [kind |-> kind, port |-> bound[w].port, pid |-> bound[w].pid,
                   attempt |-> -1, tried |-> {}]

(* A port that answers leaves the binding as it is.  One that does not is  *)
(* the first that reconnect tries.                                         *)
Recover(w) ==
  /\ pc[w] = "idle" /\ bound[w] # None
  /\ FALSE \in Seen(Answers(bound[w].port, w))
  /\ Enter(w, "probe", [JobOn("recover", w) EXCEPT !.pid = None])
  /\ UNCHANGED <<bound, fresh, host, child, strangers, lost>>

(* closeTunnel: the remembered process is signalled; where there is none   *)
(* any more the port must be silent, or it throws.                         *)
CloseTunnel(w, j) ==
  \/ child[j.pid] # None /\ child' = [child EXCEPT ![j.pid] = None] /\ Enter(w, "closing", j)
  \/ child[j.pid] = None /\ UNCHANGED child
       /\ \/ FALSE \in Seen(Reachable(j.port)) /\ Enter(w, "closing", j)
          \/ Reachable(j.port) /\ Finish(w)

(* closeRecoveredBinding, for removeBinding.                               *)
Close(w) ==
  /\ pc[w] = "idle" /\ bound[w] # None
  /\ CloseTunnel(w, JobOn("close", w))
  /\ UNCHANGED <<bound, fresh, host, strangers, lost>>

(* waitForPortClosed: silence in five seconds, and the caller drops the    *)
(* binding, or an error, and it stays.                                     *)
Closed(w) ==
  LET j == job[w] IN
  /\ pc[w] = "closing"
  /\ \/ FALSE \in Seen(Reachable(j.port)) /\ bound' = [bound EXCEPT ![w] = None]
     \/ Reachable(j.port) /\ UNCHANGED bound
  /\ Finish(w)
  /\ UNCHANGED <<fresh, host, child, strangers, lost>>

-----------------------------------------------------------------------------
(* The harness, after its bootstrap and its probes of workspace, session,  *)
(* permission and shell, which it cleans up after whether they succeed or  *)
(* throw.  Two DELETEs come first: a fetch that finds nobody skips the     *)
(* teardown.                                                               *)
HarnessCleanup(w) ==
  LET j == job[w] IN
  /\ pc[w] = "cleanup"
  /\ \/ Reachable(j.port) /\ CloseTunnel(w, j) /\ UNCHANGED lost
     \/ /\ ~ Reachable(j.port) /\ Finish(w) /\ UNCHANGED child
        /\ lost' = lost \cup ({j.pid} \cap Live)
  /\ UNCHANGED <<bound, fresh, host, strangers>>

-----------------------------------------------------------------------------
(* The surroundings.                                                       *)

(* An ssh process gets through; ExitOnForwardFailure where the port is     *)
(* taken, else it listens.                                                 *)
Connect(n) ==
  /\ child[n] # None /\ ~ child[n].up
  /\ IF child[n].port \in strangers \/ \E m \in Pids : Up(m, child[n].port)
     THEN child' = [child EXCEPT ![n] = None] /\ lost' = lost \ {n}
     ELSE child' = [child EXCEPT ![n] = [@ EXCEPT !.up = TRUE]] /\ UNCHANGED lost
  /\ UNCHANGED <<calls, host, strangers>>

TunnelDies(n) ==
  /\ "tunnel" \in Faults /\ child[n] # None
  /\ child' = [child EXCEPT ![n] = None] /\ lost' = lost \ {n}
  /\ UNCHANGED <<calls, host, strangers>>

StubDies(h) ==
  /\ "stub" \in Faults /\ running[h] # None
  /\ running' = [running EXCEPT ![h] = None]
  /\ UNCHANGED <<calls, tokenFile, contested, child, strangers, lost>>

(* A user runs the launchCommand that bootstrap returned.                  *)
Relaunch(h) ==
  /\ "relaunch" \in Faults /\ running[h] = None /\ tokenFile[h] # None
  /\ running' = [running EXCEPT ![h] = tokenFile[h]]
  /\ UNCHANGED <<calls, tokenFile, contested, child, strangers, lost>>

(* Another program, such as a second OpenCode's tunnel, takes a port.      *)
StrangerComes(p) ==
  /\ p \in StrangerPorts \ strangers /\ \A n \in Pids : ~ Up(n, p)
  /\ strangers' = strangers \cup {p}
  /\ UNCHANGED <<calls, host, child, lost>>
StrangerGoes(p) ==
  /\ p \in strangers /\ strangers' = strangers \ {p}
  /\ UNCHANGED <<calls, host, child, lost>>

Proceed(w) ==
  \/ Install(w) \/ KillOld(w) \/ StartStub(w)
  \/ Probe(w) \/ Reached(w) \/ TimedOut(w) \/ AwaitHealth(w)
  \/ HarnessCleanup(w) \/ Closed(w)

Next ==
  \/ \E w \in Workspaces : BootStart(w) \/ Recover(w) \/ Close(w) \/ Proceed(w)
  \/ \E n \in Pids : Connect(n) \/ TunnelDies(n)
  \/ \E h \in Hosts : StubDies(h) \/ Relaunch(h)
  \/ \E p \in Ports : StrangerComes(p) \/ StrangerGoes(p)

Spec == Init /\ [][Next]_vars

-----------------------------------------------------------------------------
(* Properties.                                                             *)

(* Every variable holds values of its kind, and a busy call its job.       *)
TypeOK ==
  /\ pc \in [Workspaces -> Labels]
  /\ job \in [Workspaces -> Job \cup {None}]
  /\ \A w \in Workspaces : (pc[w] = "idle") <=> (job[w] = None)
  /\ \A w \in Workspaces : pc[w] \in {"wait", "health", "cleanup", "closing"} => job[w].pid \in Pids
  /\ bound \in [Workspaces -> Binding \cup {None}]
  /\ fresh \subseteq Workspaces
  /\ child \in [Pids -> Child \cup {None}]
  /\ tokenFile \in [Hosts -> Tokens \cup {None}] /\ running \in [Hosts -> Tokens \cup {None}]
  /\ strangers \subseteq Ports /\ contested \subseteq Hosts /\ lost \subseteq Pids

(* A stored binding's host serves its token or nobody's: neither a pkill   *)
(* that did nothing, a stub left from an earlier workspace, a start that   *)
(* reported success in vain nor a stranger on the port makes bootstrap     *)
(* return (ARCHITECTURE: "verify the tunnel and remote health before       *)
(* reporting a connection as ready").  On a contested host the bootstrap   *)
(* of one replaces the token and the stub of the other; that harms the     *)
(* bindings of no other host.                                              *)
TokenInForce ==
  \A w \in Workspaces :
    bound[w] # None /\ HostOf[w] \notin contested => running[HostOf[w]] \in {w, None}

(* Its inductive strengthening (SshManagerProofs).  A host that is not     *)
(* contested is occupied by one workspace; once that has installed its     *)
(* token file, whatever is started there, by anyone, takes its token; and  *)
(* a stub with the token of another workspace is another host's.           *)
Booting == {"install", "kill", "start"}
Quiet(w) == HostOf[w] \notin contested
TokenInv ==
  /\ TokenInForce
  /\ \A v, w \in Workspaces : Occupies(v) /\ Occupies(w) /\ HostOf[v] = HostOf[w] /\ Quiet(w) => v = w
  /\ \A w \in Workspaces : pc[w] \in Booting => bound[w] = None
  /\ \A w \in Workspaces : Occupies(w) /\ pc[w] # "install" /\ Quiet(w) => tokenFile[HostOf[w]] = w
  /\ \A h \in Hosts :
       /\ tokenFile[h] \in Workspaces => HostOf[tokenFile[h]] = h
       /\ running[h] \in Workspaces => HostOf[running[h]] = h

(* "no available local port in range" is only said when every port of the  *)
(* range was tried, wherever the hash began (ensureTunnel).                *)
EveryPortTried ==
  [][\A w \in Workspaces : pc[w] \in {"probe", "wait"} /\ pc'[w] = "idle" =>
       job[w].tried \cup {job[w].port} = Ports]_vars

(* No ssh process is forgotten in passing: each is of a binding or of the  *)
(* call that awaits it, or was left by a failure that ends a call (`lost': *)
(* waitForHealth, a binding dropped, the harness's cleanup) or by a        *)
(* recovery that stores another over it.  In particular tryStartTunnel     *)
(* ends the process of each port it gives up.                              *)
Accounted ==
  \A n \in Pids : child[n] # None =>
    \/ \E w \in Workspaces : bound[w] # None /\ bound[w].pid = n
    \/ \E w \in Workspaces : job[w] # None /\ job[w].pid = n
    \/ n \in lost

(* Every step of a call brings it nearer its end, whatever happens to      *)
(* hosts, ports and processes meanwhile: a call takes boundedly many       *)
(* steps, however many tunnels die under it, and so returns or throws if   *)
(* each await ends.  All but one have a timeout of their own; the fetch of *)
(* waitForHealth ends with its connection or at the HTTP client's limit.   *)
Rank(l, j) ==
  CASE l = "idle" -> 0
    [] l = "closing" -> 1
    [] l = "cleanup" -> 2
    [] l = "health" -> 3
    [] l = "wait" -> 2 + 2 * (Span - j.attempt)
    [] l = "probe" -> 3 + 2 * (Span - j.attempt)
    [] l = "start" -> 6 + 2 * Span
    [] l = "kill" -> 7 + 2 * Span
    [] l = "install" -> 8 + 2 * Span
CallAdvances ==
  [][\A w \in Workspaces : pc[w] # "idle" /\ (pc'[w] # pc[w] \/ job'[w] # job[w]) =>
       Rank(pc'[w], job'[w]) < Rank(pc[w], job[w])]_vars
=============================================================================
