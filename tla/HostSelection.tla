--------------------------- MODULE HostSelection ----------------------------
(***************************************************************************)
(* Which host a workspace gets: resolveConfig of plugin/src/config.ts,     *)
(* ProviderRegistry of plugin/src/provider.ts and LeaseManager of          *)
(* plugin/src/leases.ts, in both lease modes, with hosts that have several *)
(* names and a config in which those overlap.                              *)
(*                                                                         *)
(* PluginLifecycle has the same calls on a set of hosts with one name each *)
(* (module HostLeases); here the hosts have the order of the file, and     *)
(* the rest of a workspace's life only what leases depend on: it is        *)
(* resolved, bound or given up, resolved again, removed.  Between the read *)
(* of a stored binding and what becomes of it an invocation of a tool      *)
(* awaits the tunnel, and others run.                                      *)
(***************************************************************************)
EXTENDS Integers, Functions, FiniteSetsExt

CONSTANTS
  Workspaces,   \* workspace ids
  Labels,       \* labels of hosts, providers and requests
  Configs,      \* plugin configs as they are read from opencode.json
  None          \* an absent field, no lease, no host

(* A host: its name, ssh.host and aliases are texts of one kind.  complete *)
(* tells whether name, ssh.host and ssh.user are all there.                *)
NamesOf(h) == {h.name, h.ssh} \cup h.aliases

ProviderNames == UNION {DOMAIN c.providers : c \in Configs}
AllHosts == UNION {UNION {Range(provider.hosts) : provider \in Range(c.providers)} : c \in Configs}
HostNames == {h.name : h \in {x \in AllHosts : x.complete}}   \* the keys of the leases

Request == [provider : ProviderNames, host : UNION {NamesOf(h) : h \in AllHosts} \cup {None},
            labels : SUBSET Labels]
Use == [provider : ProviderNames, host : HostNames]
Resolution == [ws : Workspaces, req : Request, got : HostNames \cup {None}]

ASSUME SelectionAssumption ==
  /\ None \notin Workspaces /\ None \notin HostNames /\ None \notin Use /\ None \notin Resolution
  /\ \A c \in Configs :
       /\ c.leaseMode \in {None, "exclusive", "shared"}
       /\ \A p \in DOMAIN c.providers : DOMAIN c.providers[p].hosts \subseteq Nat

VARIABLES
  config,   \* ResolvedPluginConfig: its providers and lease mode
  leases,   \* LeaseManager: [HostNames -> Workspaces \cup {None}]
  chosen,   \* the host a workspace has been given and is being created on
  bound,    \* the provider and host of its stored binding
  held,     \* that binding as running invocations have read it
  awaiting, \* the workspaces for whose tunnel one of them waits
  outlived, \* history: hosts that a binding was given after its removal
  last      \* history: the resolution of the latest step, if it was one

vars == <<config, leases, chosen, bound, held, awaiting, outlived, last>>

-----------------------------------------------------------------------------
(* config.ts.                                                              *)

(* resolveConfig: providers without a complete host go, and so do hosts    *)
(* that are not, the others keep their place; an absent leaseMode is       *)
(* "exclusive".                                                            *)
ValidHosts_All(provider) == provider.hosts    \* mutant: no filter
ValidHosts(provider) ==
  [i \in {k \in DOMAIN provider.hosts : provider.hosts[k].complete} |-> provider.hosts[i]]
ResolveConfig(input) ==
  [leaseMode |-> IF input.leaseMode = None THEN "exclusive" ELSE input.leaseMode,
   providers |-> [p \in {q \in DOMAIN input.providers : DOMAIN ValidHosts(input.providers[q]) # {}} |->
                    [labels |-> input.providers[p].labels, hosts |-> ValidHosts(input.providers[p])]]]

-----------------------------------------------------------------------------
(* provider.ts.                                                            *)

MatchesLabels(h, labels) == labels \subseteq h.labels

(* Mutant of Candidates: a host is asked for by name or ssh.host only.     *)
Candidates_NoAliases(provider, req) ==
  {i \in DOMAIN provider.hosts : LET h == provider.hosts[i] IN
     IF req.host # None THEN req.host \in {h.name, h.ssh}
     ELSE MatchesLabels(h, provider.labels \cup req.labels)}

(* resolveWithLease, the places of the candidates: of those with the name  *)
(* asked for, of whatever label, else of those that match the labels.      *)
Candidates(provider, req) ==
  {i \in DOMAIN provider.hosts : LET h == provider.hosts[i] IN
     IF req.host # None THEN req.host \in NamesOf(h)
     ELSE MatchesLabels(h, provider.labels \cup req.labels)}

(* acquire does not throw.                                                 *)
Acquirable(h) == config.leaseMode # "exclusive" \/ leases[h] = None

(* Mutant of Choice: a lease of one's own is not looked for first.         *)
Choice_ForgetsOwn(hosts, cands, w) ==
  LET free == {i \in cands : Acquirable(hosts[i].name)}
  IN IF free # {} THEN hosts[Min(free)].name ELSE None

(* The choice: the first candidate the workspace holds already, else the   *)
(* first that it can acquire, else an error.                               *)
Choice(hosts, cands, w) ==
  LET own  == {i \in cands : leases[hosts[i].name] = w}
      free == {i \in cands : Acquirable(hosts[i].name)}
  IN IF own # {} THEN hosts[Min(own)].name ELSE IF free # {} THEN hosts[Min(free)].name ELSE None

Selection(req, w) ==
  IF req.provider \in DOMAIN config.providers
  THEN LET provider == config.providers[req.provider]
       IN  Choice(provider.hosts, Candidates(provider, req), w)
  ELSE None

-----------------------------------------------------------------------------
(* leases.ts, and what index.ts does with a selection.                     *)

Acquired(h, w) == [leases EXCEPT ![h] = w]

(* Mutant of Released: an owner other than the caller loses its lease.     *)
Released_AnyOwner(h, w) == [leases EXCEPT ![h] = None]
Released(h, w) == IF leases[h] = w THEN [leases EXCEPT ![h] = None] ELSE leases

Init ==
  /\ \E input \in Configs : config = ResolveConfig(input)
  /\ leases = [h \in HostNames |-> None]
  /\ chosen = [w \in Workspaces |-> None]
  /\ bound = [w \in Workspaces |-> None]
  /\ held = [w \in Workspaces |-> None] /\ awaiting = {}
  /\ outlived = {}
  /\ last = None

(* acquireResolved for a workspace that is new: an id is used again only   *)
(* when nothing is left of the workspace that had it.                      *)
Fresh(w) ==
  /\ bound[w] = None /\ chosen[w] = None /\ held[w] = None
  /\ \A h \in HostNames : leases[h] # w
Resolve(w, req) ==
  LET got == Selection(req, w) IN
  /\ Fresh(w)
  /\ IF got = None THEN UNCHANGED <<leases, chosen>>
     ELSE leases' = Acquired(got, w) /\ chosen' = [chosen EXCEPT ![w] = [provider |-> req.provider, host |-> got]]
  /\ last' = [ws |-> w, req |-> req, got |-> got]
  /\ UNCHANGED <<config, bound, held, awaiting, outlived>>

(* The bootstrap succeeds and the binding is stored; or it does not, and   *)
(* the catch gives the lease back.                                         *)
Bind(w) ==
  /\ chosen[w] # None
  /\ bound' = [bound EXCEPT ![w] = chosen[w]] /\ chosen' = [chosen EXCEPT ![w] = None]
  /\ last' = None /\ UNCHANGED <<config, leases, held, awaiting, outlived>>
GiveUp(w) ==
  /\ chosen[w] # None
  /\ leases' = Released(chosen[w].host, w) /\ chosen' = [chosen EXCEPT ![w] = None]
  /\ last' = None /\ UNCHANGED <<config, bound, held, awaiting, outlived>>

(* state.get or state.list: an invocation has the binding from now on,     *)
(* whatever becomes of it.  A binding keeps its provider and host, so that *)
(* any number of invocations hold the same of it.                          *)
Read(w) ==
  /\ bound[w] # None /\ held[w] = None
  /\ held' = [held EXCEPT ![w] = bound[w]]
  /\ last' = None /\ UNCHANGED <<config, leases, chosen, bound, awaiting, outlived>>

(* release and state.delete, for the binding that was read.                *)
Ended(w) ==
  leases' = Released(held[w].host, w) /\ bound' = [bound EXCEPT ![w] = None]

(* findReusableBinding, up to its await: it asks in the provider of the    *)
(* binding by what the user wrote, or by the binding's host; it gives      *)
(* another host back at once and ends the binding on an error.             *)
FindReusable(w, req) ==
  LET got == Selection(req, w) IN
  /\ held[w] # None /\ req.provider = held[w].provider /\ req.host # None /\ req.labels = {}
  /\ IF got = None
     THEN Ended(w) /\ UNCHANGED <<awaiting, outlived>>
     ELSE IF got # held[w].host
     THEN leases' = [Acquired(got, w) EXCEPT ![got] = None] /\ UNCHANGED <<bound, awaiting, outlived>>
     ELSE /\ leases' = Acquired(got, w) /\ awaiting' = awaiting \cup {w}
          /\ outlived' = IF bound[w] = None THEN outlived \cup {got} ELSE outlived
          /\ UNCHANGED bound
  /\ last' = [ws |-> w, req |-> req, got |-> got]
  /\ UNCHANGED <<config, chosen, held>>

(* ensureBindingReady, up to its await: it asks by the binding's host and  *)
(* keeps what it gets; an error it leaves to its caller, of whom           *)
(* remote-status ends the binding.                                         *)
EnsureReady(w) ==
  LET req == [provider |-> held[w].provider, host |-> held[w].host, labels |-> {}]
      got == Selection(req, w) IN
  /\ held[w] # None
  /\ \/ /\ got # None /\ leases' = Acquired(got, w) /\ awaiting' = awaiting \cup {w}
        /\ outlived' = IF bound[w] = None \/ got # held[w].host THEN outlived \cup {got} ELSE outlived
        /\ UNCHANGED bound
     \/ got = None /\ UNCHANGED <<leases, bound, awaiting, outlived>>
     \/ got = None /\ Ended(w) /\ UNCHANGED <<awaiting, outlived>>
  /\ last' = [ws |-> w, req |-> req, got |-> got]
  /\ UNCHANGED <<config, chosen, held>>

(* After the await of either: state.replace stores the binding that was    *)
(* read, also where it has been removed meanwhile.                         *)
WriteBack(w) ==
  /\ w \in awaiting
  /\ bound' = [bound EXCEPT ![w] = held[w]]
  /\ outlived' = IF bound[w] = None THEN outlived \cup {held[w].host} ELSE outlived
  /\ last' = None /\ UNCHANGED <<config, leases, chosen, held, awaiting>>

(* The tunnel cannot be had again, or removeBinding comes to its end.      *)
Unbind(w) ==
  /\ held[w] # None /\ Ended(w)
  /\ last' = None /\ UNCHANGED <<config, chosen, held, awaiting, outlived>>

(* The last invocation that has the binding is over.                       *)
Finish(w) ==
  /\ held[w] # None
  /\ held' = [held EXCEPT ![w] = None] /\ awaiting' = awaiting \ {w}
  /\ last' = None /\ UNCHANGED <<config, leases, chosen, bound, outlived>>

Users(h) == {w \in Workspaces : bound[w] # None /\ bound[w].host = h}
Shared == {h \in HostNames : \E v, w \in Users(h) : v # w}

(* Mutant of Restart: the leases are not taken up again.                   *)
Restart_Empty ==
  /\ leases' = [h \in HostNames |-> None]
  /\ chosen' = [w \in Workspaces |-> None] /\ last' = None
  /\ held' = [w \in Workspaces |-> None] /\ awaiting' = {} /\ outlived' = Shared
  /\ UNCHANGED <<config, bound>>

(* OpenCode starts again: clear, then restore for each binding.  The order *)
(* of the file, which the model leaves open, decides whose lease it is     *)
(* where several are bound to one host; elsewhere the leases agree again.  *)
Restart ==
  /\ leases' \in [HostNames -> Workspaces \cup {None}]
  /\ \A h \in HostNames : leases'[h] \in IF Users(h) = {} THEN {None} ELSE Users(h)
  /\ chosen' = [w \in Workspaces |-> None] /\ last' = None
  /\ held' = [w \in Workspaces |-> None] /\ awaiting' = {} /\ outlived' = Shared
  /\ UNCHANGED <<config, bound>>

Next ==
  \/ \E w \in Workspaces, req \in Request : Resolve(w, req) \/ FindReusable(w, req)
  \/ \E w \in Workspaces : \/ Bind(w) \/ GiveUp(w) \/ Read(w) \/ EnsureReady(w)
                            \/ WriteBack(w) \/ Unbind(w) \/ Finish(w)
  \/ Restart

Spec == Init /\ [][Next]_vars

-----------------------------------------------------------------------------
(* Properties.                                                             *)

Exclusive == config.leaseMode = "exclusive"
Uses(w) == {u.host : u \in {chosen[w], bound[w]} \ {None}}

(* Every variable holds values of its kind; a workspace is being created   *)
(* on a host, or bound to one, or neither; a binding that was read is the  *)
(* stored one, where there is still one.                                   *)
TypeOK ==
  /\ config.leaseMode \in {"exclusive", "shared"}
  /\ \A p \in DOMAIN config.providers : LET hosts == config.providers[p].hosts IN
       DOMAIN hosts # {} /\ \A h \in Range(hosts) : h.complete
  /\ leases \in [HostNames -> Workspaces \cup {None}]
  /\ chosen \in [Workspaces -> Use \cup {None}] /\ bound \in [Workspaces -> Use \cup {None}]
  /\ held \in [Workspaces -> Use \cup {None}] /\ outlived \subseteq HostNames
  /\ awaiting \subseteq {w \in Workspaces : held[w] # None}
  /\ \A w \in Workspaces :
       /\ chosen[w] = None \/ (bound[w] = None /\ held[w] = None)
       /\ bound[w] = None \/ held[w] \in {None, bound[w]}
  /\ last \in Resolution \cup {None}

(* In exclusive mode leases and uses are the same thing: a host is leased  *)
(* to the one workspace that is bound to it or being created on it, and    *)
(* that workspace to no other host, whatever names were used to ask for it *)
(* and across restarts (resolveWithLease, release, rehydrate).  The hosts  *)
(* of outlived are left out: those that a binding was leased or written    *)
(* back to after its removal, up to a restart or for as long as two share  *)
(* the host.  No other host or workspace suffers from them.                *)
LeasesAreUses ==
  Exclusive => \A w \in Workspaces, h \in HostNames :
    h \notin outlived \/ (Uses(w) # {} /\ Uses(w) \cap outlived = {})
    => (leases[h] = w <=> h \in Uses(w))

(* In both modes: while a workspace uses a host, its lease does not become *)
(* free because another leaves that host, or at a restart (release         *)
(* compares the owner); a resolution of another may free it in shared mode.*)
OwnersRelease ==
  [][\A w \in Workspaces, h \in HostNames :
       leases[h] = w /\ h \in Uses(w)' /\ leases'[h] = None => last' # None]_vars

(* A workspace that asks again for its host by any of its names gets it,   *)
(* also where a host that comes first in the config answers to the same    *)
(* name (ARCHITECTURE: bindings "re-resolve their own lease by canonical   *)
(* host name, ssh.host, or alias"), and whatever other invocations are in  *)
(* the middle of; on a host of outlived it may get another, or none.       *)
Named(p, h) ==
  UNION {NamesOf(x) : x \in {y \in Range(config.providers[p].hosts) : y.name = h}}
KeepsItsHost ==
  [][\A w \in Workspaces :
       /\ Exclusive /\ bound[w] # None /\ bound[w].host \notin outlived /\ last' # None /\ last'.ws = w
       /\ last'.req.host \in Named(bound[w].provider, bound[w].host)
       => last'.got = bound[w].host]_vars

(* Nobody is turned away while a host of the config would do: it has the   *)
(* name asked for, or all the labels wanted, and nobody else has its lease *)
(* (in shared mode, whoever has it).                                       *)
Suits(h, provider, req) ==
  IF req.host # None THEN req.host \in NamesOf(h) ELSE provider.labels \cup req.labels \subseteq h.labels
RefusedOnlyIfTaken ==
  [][last' # None /\ last'.got = None =>
       \A p \in DOMAIN config.providers : p = last'.req.provider =>
         \A h \in Range(config.providers[p].hosts) :
           Suits(h, config.providers[p], last'.req) =>
             Exclusive /\ leases[h.name] \notin {None, last'.ws}]_vars

(* In exclusive mode every step is one the abstract table of HostLeases    *)
(* allows, where hosts are a set and not a list.                           *)
Table == INSTANCE HostLeases WITH Hosts <- HostNames
Bindings == {[ws |-> w, host |-> bound[w].host] : w \in {v \in Workspaces : bound[v] # None}}
ImplementsTable ==
  [][Exclusive =>
       \/ \E w \in Workspaces, cands \in SUBSET HostNames :
            \E h \in Table!Selectable(leases, w, cands) :
              leases' \in {Table!Acquired(leases, h, w),
                           Table!Released(Table!Acquired(leases, h, w), h, w)}
       \/ \E w \in Workspaces, h \in HostNames : leases' = Table!Released(leases, h, w)
       \/ leases' \in Table!Restored(Bindings)]_leases
=============================================================================
