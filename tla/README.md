# Verification of opencode-remote-ssh

TLA+ models of the remote stub (`stub/`, Go), of the OpenCode plugin (`plugin/`,
TypeScript) and of the script that edits its configuration, checked with TLC on
small instances and, for the properties that matter most, proved with TLAPS for
every instance. Paths below are relative to the repository.

    tlc -workers 2 -config <run>.cfg <module>.tla     # modules and runs: see "Runs"
    tlapm <module>Proofs.tla

## The system

A local plugin leases a configured host to a workspace, installs a small HTTP
server (the stub) there over ssh, opens an ssh tunnel to it and remembers the
result as a *binding*. OpenCode then sends shell commands through the tunnel; the
stub runs one only if a user has approved its directory.

| component | state | operations | meets |
|---|---|---|---|
| permission engine and store (`stub/internal/state/state.go`, `stub/internal/handler/handler.go`) | four maps under one mutex: workspaces, sessions, permission requests, approvals; a file for each entry except requests | shell and command, permission list and reply (two routes), workspace and session create and delete, load at start | HTTP clients; the file system |
| path patterns (`matchPattern`) | none | does an approval's pattern cover a directory | the engine |
| event stream (`eventBus`) | subscribers, each with a buffer of ten | publish (drops when full), subscribe, unsubscribe | handlers publish, SSE clients read |
| authentication (`stub/internal/auth`) | the one token read at start | compare | every request |
| configuration (`config.ts`) | the resolved configuration | filter and defaults | selection |
| lease table and selection (`leases.ts`, `provider.ts`) | host -> workspace | acquire, restore, release, clear; choice among candidates by name, address, alias or labels | the tools, synchronously |
| binding store (`state.ts`) | workspace -> binding, one JSON file | set, replace, delete, list, load | the tools, synchronously |
| tools and adapter (`index.ts`) | what each invocation read before its current await | create, switch, status, list, disconnect, doctor, remove; configure, create, remove, target | OpenCode calls them, they overlap at every await |
| bootstrap and tunnels (`ssh.ts`) | ssh processes, the token file and stub process of each host | bootstrap, recover, close | hosts, other programs on local ports |
| live harness (`scripts/verify-remote-lifecycle.mjs`) | a `LeaseManager` of its own, which knows nothing of the plugin's leases; one binding it stores nowhere | one bootstrap, probes, teardown | the same hosts, also those the plugin has bound |
| config editor (`scripts/opencode-remote-cli.sh`) | `opencode.json` and its backups | init, add, remove, setup, list | the user |
| host setup (`scripts/setup-host.sh`, `run-local-stub.sh`) | key, token file and stub of a host | install and start | the user |

**Hard behaviours.** In the stub: handlers make several locked calls with no lock
across them; ids are milliseconds; writes and unlinks fail; the process is killed
(by the plugin's own `pkill`) between any two steps; readers of events stall and
hang up. In the plugin: invocations interleave at awaits and use snapshots taken
before; hosts reboot, tunnels and stubs die or stall, waits time out, commands report success
in vain; the process restarts with the bindings file and detached ssh processes; one
step of many fails and the earlier ones must be undone. In the editor: each process
of a pipeline fails on its own. `PROJECT.json` lists each hazard at its line.

**What makes each component correct.** Engine: a `once` approval is used at most once, an
`always` approval is never lost, nothing runs that no user agreed to, nothing deleted comes
back. Patterns: between plain names, an approval covers its subtree and nothing else.
Events: a client that subscribes and polls misses nothing, no client holds a handler up.
Leases and bindings: leases are uses, a binding holds its host's lease, a lease is never
taken over or leaked, a creation has its host to itself, working bindings stay, every
invocation ends. Tunnels: a binding's host serves its token unless another bootstraps it,
each process is remembered by someone, every port is tried. Editor: what it wrote over can
be put back.

## Modules

| module | models | proved in |
|---|---|---|
| `StubPermission` | the store and the handlers that change it | `StubPermissionProofs` |
| `ApprovalLedger` | abstract: rights entered once, a `once` right struck out by its use, entries that are not firm forgotten | (implemented: `LedgerImplemented`) |
| `PathPattern` | `matchPattern` and the patterns the handlers build, on texts | `PathPatternProofs` |
| `DirectoryWalk` | the reference for it: directories as lists of names, the places they lead to, and "lies in" | (compared: `CoversSubtree`) |
| `EventBus` | `eventBus`, the handlers that publish, clients that read and poll | `EventBusProofs` |
| `HostLeases` | abstract: the lease table and the host choice, on a set of hosts | `PluginLifecycleProofs` (`TableOperations`) |
| `HostSelection` | `resolveConfig`, `ProviderRegistry`, `LeaseManager` on lists of hosts; implements `HostLeases` | `HostSelectionProofs` |
| `PluginLifecycle` | the tools and the adapter over leases, bindings, tunnels and stubs; extends `HostLeases` | `PluginLifecycleProofs`, `PluginSequentialProofs` |
| `SshManager` | `SSHManager` step by step, with the tools and the harness as its callers | `SshManagerProofs` |
| `CliConfig` | `opencode-remote-cli.sh`, process by process | `CliConfigProofs` |
| `MC*` | values for TLC; `MCStubPermission` takes the relation "covers" from `PathPattern` | |

### StubPermission

The four maps are variables, the files three more. Every method of `State` holds
the mutex from its first read to its last file operation, so it is one step; a
handler is a goroutine `c` with `pc[c]` and locals `job[c]`, and stops between
two such calls. A command goes `ShellStart`, then `Authorize` (`ConsumeApproval`
meets approval `i`, any of the matching ones: Go maps have no order) and `Run`,
or `Deny`, `Ask`, `Announce`. A reply goes `PermissionReply` or
`SessionPermissionReply`, `UpdatePermission`, `CreateApproval`; the reply `"reject"`
stands for every word that is neither `once` nor `always`. `Restart` may come at any
step and loads the files.

Abstracted: a request asks for one directory and its pattern is that directory's,
so patterns are named by directories and `Covers` is the matching relation; what a
request body, a title or a command says; the names of the files. Workspace ids come from the
client as they are and name folders: `FolderOf` says which, `Inside` which folders
`os.RemoveAll` takes along, `Listed` which `loadWorkspaces` looks into. So the empty id
(`noid` in the run) has a file that is never loaded, in the folder that holds all others.
That an id leads out of `workspaces/` is left out, and each session id is taken to name a
file of its own. A deletion takes nothing but what it names: the sessions and approvals of a
deleted workspace stay. Ids of requests and approvals are the clock value
at which they were made (`now`); `SameMilli` lets the clock stand still between two.
`WriteFaults` and `UnlinkFaults` let writes (leaving the file old or truncated) and
unlinks fail. History variables record what users saw and granted, which replies
got 200, and how often each `once` approval was used; no action reads them but
`PermissionReply`, where a user answers something shown.

### PathPattern

`MatchPattern` on characters, as the code has it: the comparison is textual, and symbolic
links, `.` and `..` mean nothing to it. The reference is where the directories lie.
`DirectoryWalk` takes two of them, one approved and one asked for, down from the root name
by name, so that every pair is met; each carries its names, its text and the place it leads
to (`Step`: `.` stays, `..` goes up, a link of `Links` goes to the root), and `MaxDepth` ends
the walk. Text and place agree between `Plain` directories only, and the properties say so.

### EventBus

A `Publish` is a process of its own per event: `BeginPublish` takes the read lock,
each `Send` is one turn of its loop (into the channel, or dropped), and the lock is
given back after the last listener; several may walk at once. `Subscribe` and
`Unsubscribe` need that none does (`Sending = {}`); the latter looks for the listener and
closes the slice over its place. `Ask` and `Answer` change a
request before its event is published, with no lock in common, so
`permission.replied` may come before `permission.asked`; `Other` stands for the
three events that concern no request but take a place. Clients are external: they
add what `permission.asked` names, remove what `permission.replied` names, and take
the list for the truth when they poll. A poll is one step: a client whose answer to
`GET /permission` is overtaken by a later event would have to compare the two itself.

### HostSelection, HostLeases and PluginLifecycle

`HostSelection` has the configuration as it is in the file: providers with lists of
hosts, each with a name, an address, aliases and labels, some incomplete, and both lease
modes. `Choice` is the loop of `resolveWithLease`: the first candidate held already, else
the first that can be acquired; a host is named by its place, so a list that has lost
its incomplete hosts keeps the order of the file. A restart gives a host that several
bindings name to one of them, for the order of the bindings file is left open.
`FindReusable`, `EnsureReady`, `WriteBack`, `Unbind` and `Restart` are what index.ts does with
a resolution for a stored binding. The invocations on one workspace are `held`, the binding
they read (`Read`), and `awaiting`, that one of them is at the await of findReusableBinding or
ensureBindingReady: `WriteBack` then stores what was read, also where it was removed
meanwhile. `outlived` is history: the hosts that a binding was leased or written back to
after its removal. There the code stores bindings without a lease (that is
`PluginLifecycle_resurrection`), and `LeasesAreUses` and `KeepsItsHost` leave such a host out
until a restart finds one binding on it. `HostLeases` is the table
without names and order; `ImplementsTable` says that every step of the former is one of
the latter, in the exclusive mode, and `PluginLifecycle` builds on the latter.

The plugin is one thread, so a step lasts from one await to the next, and an await
that talks to a host is one step with the code after it. Several awaits in a row with
nothing in between that other invocations read or write are one (`StartStub` is the
whole of `bootstrap` before the tunnel; it may fail before or after `pkill`). Invocation
`t` has `pc[t]` and `job[t]`: its tool, its argument, the bindings of its loop still to
come (a snapshot) and the one at hand.

| actions | code |
|---|---|
| `CreateStart`, `AdapterCreate`, `StartStub`, `OpenTunnel`, `AwaitHealth`, `Register`, `BootFails` | remote-workspace-create, adapter create, createConnectedBinding, each with its catch |
| `Configure`, `RemoveConfigured` | configureWorkspace; removeWorkspace without a binding |
| `SwitchStart`, `FindNext`, `Reuse`, `MakeSession`, `ReuseFails`, `FindNone`, `DoctorCheck` | remote-switch, remote-doctor, findReusableBinding |
| `ScanStart`, `ScanNext`, `RecoverDone`, `ScanFails`, `ScanEnd` | remote-status, remote-workspace-list, adapter target, ensureBindingReady |
| `RemoveStart`, `Unregister`, `KillTunnel`, `Drop`, `DropEnd` | removeBinding under remote-disconnect, remote-workspace-remove, adapter remove, remote-doctor's finally |
| `TunnelDies`, `Reboot`, `Restart`, `CutOff` | the surroundings; `Restart` is a new OpenCode process, `CutOff` one after a write of the bindings file that was cut off, which loads as no binding |

A stub is the workspace whose token it accepts, or none; a tunnel is an ssh process to
a host with a port of its own. `Healthy` is: the binding's process is alive, leads to
its host, and the stub there accepts the binding's token. A healthy stub may still miss
the 500 ms of a probe or fail to make a workspace or session (fault `"stall"`), and one slower
than `healthTimeoutMs` is given up (`"slow"`). `bindings` is the map and the
file at once, for the file is rewritten within the same step. The order of the listing
is left open. A snapshot does not show a session that another invocation adds to the
same object; the model then makes one session more.

### SshManager

What `PluginLifecycle` has as `StartStub`, `OpenTunnel`, `Recover` and `KillTunnel`, in
steps that end at each await: `Install` (up to the token file), `KillOld`, `StartStub`;
`Probe`, `Reached`, `TimedOut` for each port of the search; `AwaitHealth`; `Recover`,
`Close`, `Closed`. A command may do its work on the host and still fail locally, or report
success in vain: `pkill` is allowed to fail, and the start command `python2 - <<'PY' … ||
python - <<'PY'` has an empty here-document for its second part, so that it succeeds where
`python2` fails. A probe may miss what answers too slowly (`Seen`). A local port is probed
without a token, so what answers may be another workspace's stub or another program
(`strangers`); what is checked with the token is only `waitForHealth`. An ssh process
connects later (`Connect`), or ends because the port is taken by then. `lost` is history:
the processes that a failing call left to nobody. The harness is a call of kind `"verify"`:
its binding is stored nowhere, and `HarnessCleanup` follows whether its probes succeed or
not.

Nothing in `BootStart` asks for a lease: the plugin's keeps its own workspaces apart as long
as each keeps it (`PluginLifecycle`), but the harness takes one from a `LeaseManager` of its
own, and a binding that was written back has none. A host on which a bootstrap began beside
another user is `contested` from then on; there the later bootstrap ends the stub and replaces
the token of the earlier, so `TokenInForce` and the parts of `TokenInv` that rest on a sole
occupant speak of the other hosts. A workspace has one call at a time: recoveries of one
binding that overlap are in `PluginLifecycle` only, by their effect. A token is named by the
workspace it was made for; ids are fresh; process ids are not reused while anything remembers
them; `Left` are hosts where setup-host.sh or a user left a stub.

### CliConfig

A command is a chain of processes: the check of the mode, `has_plugin`, the python program,
`cp`, `cat` and `mv`. `set -e` ends the script where one fails, except on the left of a
pipe: there an empty output goes on to `write_config`. `opencode.json` is what the script
can tell apart: unreadable, or the package entry (none, bare, with a configuration and the
hosts in it) and the path entry: none, one `assert_supported_config_mode` sees (a list whose
first element contains `/plugin`), or one it does not. Only a seen one without a package
entry is refused. `DiskFaults` lets `cp` and `mv` fail halfway, `Kill` ends a command
between any two processes. One command at a time, and the user edits the file only between
commands.

## Runs

| run | instance | shows |
|---|---|---|
| `StubPermission_faults` | 2 goroutines, 2 workspaces with a session each, 2 nested directories, 3 ids, failing writes, restarts (770,427 states) | `OnceIsSingleUse`, `NoAskAfterAlways`, `ImplementsLedger` (refinement); the inductive invariants `OnceInv`, `AlwaysInv`, `ConsentInv` |
| `StubPermission_churn` | 1 session, 1 workspace and the empty id (`noid`) created and deleted, 2 ids, no failing write (1,925,222 states) | `NoRunWithoutConsent`, `NothingComesBack` |
| `PathPattern` | all pairs of directories to depth 3 over names that begin alike or look like patterns, `.`, `..` and a link (160,000 states) | `CoversSubtree`, `SlashesNeverWiden` |
| `HostSelection_main` | 2 workspaces, invocations that resume after an await, 3 configurations with shared aliases, aliases that are names, one name for two machines, incomplete hosts; both lease modes (138,556 states) | `LeasesAreUses`, `OwnersRelease`, `KeepsItsHost`, `RefusedOnlyIfTaken`, `ImplementsTable` (refinement) |
| `PluginLifecycle_sequential` | 1 invocation at a time, every tool and fault, 2 hosts, 3 workspaces, 3 tunnels (100,224 states) | `BoundIsLeased`, `LeaseAccounted`, `HealthyStays` |
| `PluginLifecycle_concurrent` | 2 overlapping creations and removals, 2 hosts, 3 workspaces, restarts and cut-off writes | `BoundIsLeased`, `SoleUser`, `NoTakeover`, and `LeaseInv` |
| `PluginLifecycle_liveness` | 2 overlapping invocations of any tool, 1 host, dying tunnels and stalling stubs (16,268 states) | `InvocationEnds` |
| `SshManager_main` | 2 bootstraps among 3 workspaces: one of the plugin's and the harness's on one host, another of the plugin's on a second; 3 ports searched from different ends, 3 process ids, every fault (1,430,966 states) | `TokenInForce` and its `TokenInv`, `Accounted`, `EveryPortTried`, `CallAdvances` |
| `EventBus_main` | 1 request, 1 other event, 2 clients, a buffer of 1, failing replies | `NothingMissed`, `NoGhost`, `PublishEnds`, `GoneForgotten` |
| `CliConfig_main` | 2 host names, every command and kind of file, 3 backups, failing copies and moves, kills (2,268,604 states) | `Recoverable` |

Each run but those for `StubPermission_churn`, `PathPattern`, concurrency and liveness
also checks its module's `TypeOK`.

**Findings.** Two runs end in a counterexample, each against a sentence of the repository:

| run | statement | what the code does |
|---|---|---|
| `PluginLifecycle_resurrection` | "Ensures only one workspace uses a host at a time" (ARCHITECTURE.md:23) | status writes a binding back that was removed during its await, next to the one that has the host by then |
| `CliConfig_backup` | "creates timestamped backups … before modifying it" (README.md:190) | `add` without the plugin empties opencode.json (the here-document of `init_plugin` is its program's input), and its second backup, in the same second, overwrites the only copy |

More that the models show, each found by TLC with the constant or invariant named:

- Two requests in one millisecond share an id, and an answer to the first grants the
  second (`SameMilli = TRUE` refutes `NoRunWithoutConsent`; "The request must be approved
  explicitly", README.md:279). Two approvals of one millisecond overwrite each other (it
  also refutes `NoAskAfterAlways`; "`always` approvals persist", README.md:281).
- The error of `os.Remove` is ignored, so a used `once` approval may be loaded again
  (`UnlinkFaults = TRUE` refutes `OnceIsSingleUse`; "allowing it to be used exactly one
  time", state.go:317).
- A request can be answered again, and each answer `once` is an approval: the number of
  commands passed under `once` approvals exceeds that of the requests answered so
  ("allow exactly one matching operation", README.md:280).
- A binding of remote-workspace-create has no workspace on the stub; remote-doctor and
  remote-switch ask for a session of it, get 404 and delete the binding, though it works
  (index.ts:117; "can validate an existing recovered binding", ARCHITECTURE.md:107).
- remote-switch resolves the host asked for on behalf of every stored binding, and
  deletes working bindings of other hosts when it is taken (index.ts:110; "bindings that
  cannot be resolved or reached are removed", README.md:329). `HealthyStays` excepts both by
  name.
- `/a/..`, and a link in `/a`, are covered by an approval of `/a` though they lead out of it
  (TLC refutes `CoversSubtree` without its `Plain`; the handler runs the command there,
  handler.go:533, 604). ARCHITECTURE.md:134 says "**Symlink blocking**: Prevents escaping to
  arbitrary paths" and CHANGELOG.md:101 "Symlink escape attempts blocked"; nothing in the stub
  looks at links.
- Memory and disk do not always agree. A workspace with the empty id is stored in
  `workspaces/workspace.json`, which no start loads, and its deletion removes every workspace's
  file while memory keeps them (state.go:172, 102; TLC refutes `workspaces \subseteq
  Loaded(diskWorkspaces)` in the first step). What holds is the converse, `NothingComesBack`.
- A stub that is well but answers a probe too late is taken for dead, and when the new tunnel
  is as slow its binding and lease are deleted (ssh.ts:394, index.ts:122 and 438; `HealthyStays`
  fails under `"stall"` without its last disjunct).
- The live harness may bootstrap a host the plugin has bound (verify-remote-lifecycle.mjs:92 has
  leases of its own): the plugin's stub is ended and its token replaced (`TokenInForce` fails
  without its exception for contested hosts).
- "The CLI in this repository will not mutate that plugin config automatically"
  (README.md:220; "safely refuses path-based mutation", CHANGELOG.md:45) is true only of a
  path entry that the script sees and that stands alone: with a package entry beside it, written
  as a plain string, or with a path that has no `/plugin` in it, the file is changed
  (opencode-remote-cli.sh:69, 73, 76; in the model `AssertMode` lets these pass).
- The process id a recovery returns may have ended (another program answered on the
  port, ssh.ts:332) while the process that holds the tunnel is known to nobody (`lost`;
  "tracked local tunnel teardown", README.md:33).

**Bounds.** Two goroutines meet every pairwise race, and the engine's properties relate one
approval to one command; two workspaces and a directory within another are what the matching
tells apart; three ids are a request, an approval and a second one of either. In
`PluginLifecycle` three workspaces on two hosts are one that loses the choice, and two
invocations overlap in every way two can; in `HostSelection` two workspaces contend for each
name. Two bootstraps (`Starts`) share a host and the ports, or the ports alone; a range of
three has a first, a middle and a last port for the search to wrap around. A buffer of one
is full after one event and empty after one read; one request and one other event fill it in
either order; with two clients one can stall or leave while the walk goes on to the other.
Four seconds are the backups of two commands. `MaxClock`, `Tunnels`, `Pids`, `Workspaces`,
`Starts` and `MaxSecond` end a behaviour when they run out: `Stamp` is then disabled,
`OpenTunnel` takes the code's own way out (no port is left), `Probe` goes on as after a
timeout, `FindNone` ends as on an error, and a command of the editor can only be killed. In
`EventBus` every event is published once and a client connects once, so behaviours end
there; in `SshManager` ids are used up and hosts may stay dead; in both, and at the depth of
`PathPattern`, the deadlock check is off. Symmetry permutes what no action or property tells
apart: goroutines, and, in the run that creates and deletes neither, the workspaces together
with their sessions (`StubPermission`); invocations, hosts, workspaces and tunnels
(`PluginLifecycle`); workspaces (`HostSelection`); process ids (`SshManager`); host names
(`CliConfig`). The liveness runs use none.

Where a passing run leaves something out, it is a hypothesis that is needed: distinct
milliseconds and working unlinks (`StubPermission`), only the tools that create and remove
(`PluginLifecycle_concurrent`, for `PluginLifecycle_resurrection` shows why), backups in
different seconds (`CliConfig_main`). `PluginLifecycle_sequential` leaves out `"abandon"`: a
workspace that is configured and removed before it is created keeps its lease until the
next start.

**Fairness.** In `PluginLifecycle`, `FairSpec` asks that an invocation that can go on does
so (weak fairness of `Proceed(t)` for each `t`): the event loop runs every continuation, and
each await ends. Ssh commands, port waits and probes have timeouts of their own. The fetches
in waitForHealth (ssh.ts:366), createRemoteWorkspace, createRemoteSession,
removeRemoteWorkspace and remote-doctor (index.ts:490) have none; they end when the tunnel
or the stub does, or at the HTTP client's own limits, on which this assumption rests. In
`EventBus`, goroutines that publish run (weak fairness of each `Publish`), and `Unsubscribe`
gets the write lock though readers keep coming (strong fairness: Go's RWMutex lets no new
reader in before a waiting writer). Nothing is assumed of users, clients, hosts or tunnels:
a client may stop reading for good.

## Proofs

All for arbitrary sets of clients, workspaces, sessions, directories, hosts, tunnels,
processes, ports, names, configurations and invocations, for texts, lists and channels of
any length, and any covering relation in which a directory covers itself
(`StoreAssumption`, `PatternAssumption`, `SelectionAssumption`, `LifecycleAssumption`,
`SshAssumption`, `EventAssumption`, `CliAssumption`). That a directory covers itself is
`AskCovers` with `path = cwd`. Every safety property and action property of a passing run is
stated by a theorem below; the strengthenings were checked with TLC on the run's instance
before they were proved, all but those of the
walk (`WalkInv`, which TLC cannot evaluate, and `PlaceInv`).

| theorem | states | assumes | argument |
|---|---|---|---|
| `StubPermissionProofs!TypeCorrect` | `[]TypeOK` | | one step per action |
| `SingleUse`, `OnceInvariant` | `[]OnceIsSingleUse` | ids distinct, unlinks work | `OnceInv`: a spent approval is gone from memory and disk, its id is in the past, and ids to come are blank |
| `AlwaysStays`, `AlwaysInvariant` | `NoAskAfterAlways` | ids distinct | `AlwaysInv`: each acknowledged approval is in memory and on disk under a past id, so `Matching` is never empty for what it covers; needs neither writes nor unlinks to work |
| `Consent`, `ConsentInvariant` | `[]NoRunWithoutConsent` | ids distinct | `ConsentInv`: along every hop, from the request shown to the approval on disk, workspace and directory stay what the user saw |
| `NothingReturns` | `[]NothingComesBack` | unlinks work | what a method of `State` takes from a map it takes from the files too: each file names an id that leads to its folder (`InItsFolder`), so a deletion removes the id's file whatever else goes with it; a write that fails leaves less |
| `LedgerImplemented` | `Spec => ImplementsLedger` | ids distinct, unlinks work; writes may fail | every step maps to `Issue`, `Spend`, `Forget` or a stutter: the approvals on disk are the firm entries (`FilesAgree`), and a restart forgets the others |
| `PathPatternProofs!AskCovers` | what `matchPattern` says of `cwd + "/**"` and any text | | prefixes and suffixes compared place by place |
| `ApprovalsCoverSubtrees`, `SlashesDoNotWiden` | `[]CoversSubtree`, `[]SlashesNeverWiden` | both speak of plain names | `WalkInv`, and `PlaceInv`: a plain directory leads to the place of its names |
| `HostSelectionProofs!TypeCorrect` | `[]TypeOK` | | `BaseInv`: with what resolveConfig leaves |
| `LeasesInvariant` | `[]LeasesAreUses` | speaks of hosts that are not `outlived` | acquire, release and restore change a lease where a use begins or ends; one's own host is the only one a resolution gives |
| `ReleasedByOwners`, `HostIsKept`, `RefusedIfTaken` | `OwnersRelease`, `KeepsItsHost`, `RefusedOnlyIfTaken` | the second speaks of hosts that are not `outlived` | from `BaseInv`, `LeasesAreUses` and `SelectionProperties`, which says of the loop of resolveWithLease what it may give |
| `TableImplemented` | `Spec => ImplementsTable` | | every resolution is in `Table!Selectable`, every other step a release or a restoration |
| `PluginLifecycleProofs!TypeCorrect` | `[]TypeOK` | | one lemma per shared ending, one step per action |
| `LeaseInvariant`, `BindingsAreLeased`, `CreatorsAreAlone`, `LeasesAreNotTakenOver` | `[]LeaseInv`, `[]BoundIsLeased`, `[]SoleUser`, `NoTakeover` | `Tools` only create and remove | `LeaseInv` |
| `OverlapLeavesNoLease` | `[]LeaseAccounted` | that, and no `"abandon"` | `UseInv`, with `LeaseInv`: each lease is a binding's, a creator's or a configured workspace's |
| `PluginSequentialProofs!SequentialInvariant`, `BindingsStayLeased` | `[]BoundIsLeased` | one invocation at a time | `SeqInv` |
| `LeasesAreAccountedFor` | `[]LeaseAccounted` | that, and no `"abandon"` | `Account`, the same without overlaps and with every other tool |
| `ReachableBindingsStay` | `HealthyStays` | one invocation at a time, and the file written whole; stalls are excepted by name | `SeqInv`: a binding that answers has the lease, so no check turns it down |
| `SshManagerProofs!TypeCorrect` | `[]TypeOK` | | the search stays in the range (`SearchPortInRange`), one step per action |
| `CallsAdvance` | `CallAdvances` | | a rank that counts the ports still to try falls with every step |
| `TokensAreInForce`, `TokenInvariant` | `[]TokenInForce`, `[]TokenInv` | speak of hosts that are not `contested` | `TokenInv` |
| `ProcessesAreAccounted` | `[]Accounted` | | `AccountInv`: what a call started it knows, and what it closes it has seen end |
| `SearchIsExhaustive` | `EveryPortTried` | | `SearchInv`: attempt `k` is at the `k`-th port from the first, and those before it were tried; `SearchVisitsAll`: a whole turn modulo the length meets every port |
| `EventBusProofs!TypeCorrect` | `[]TypeOK` | | no walk meets a change of the slice it walks over |
| `NothingIsMissed`, `NoGhostStays` | `[]NothingMissed`, `[]NoGhost` | | `StreamInv` |
| `CliConfigProofs!TypeCorrect` | `[]TypeOK` | | one step per action |
| `NothingIsLost` | `[]Recoverable` | no two backups in one second | `RecoverInv`: backups to come are blank, and when a command moves its output, the last readable configuration is in a backup |

`OnceIsSingleUse` is not inductive: a file left on disk, or an id used again, would let
a spent approval return, and only `OnceInv` excludes both. `SoleUser` is not: it takes
that creators have different workspaces, that none of them is stored or configured, and
that no invocation still removing a binding holds one whose workspace is being created,
or its release would free the creator's host; that is `LeaseInv`. `TokenInForce` is not: a
stub started later, by anyone, takes the token in the file, so the file must hold the
token of whoever occupies the host alone from the end of `Install` on, and a tunnel that answers to
a workspace's token must lead to its own host; that is `TokenInv`.

`NothingMissed` and `NoGhost` are not: a question that still lies in a client's channel
would bring an answered request back, unless its reply lies there behind it or has still to
come (`Follows`), and replies must not be published before their questions but for those
that `overtaken` records (`Stages`). `CoversSubtree` compares texts, and that two lists of
names are one when their texts are is an induction over both lists; it is done along the
walk: `WalkInv` says where each name ends in the text, and that for the end of a name in
either directory the texts agree up to there just when the names do. (TLC cannot evaluate
that invariant, which asks for functions from places to numbers; it checks the two
properties.) `LeaseAccounted` takes, where invocations overlap, that no workspace has two
leases, or the second would be left when the workspace goes from configured to created, and
that what is being removed, if it is stored, is stored with the same host, or `Drop` would
free one lease and forget the binding of another; that is `UseInv`. `BoundIsLeased` with the
tools that reuse and check needs that what an invocation has in hand is still in the store
when it comes back from an await, which is `InHand` of `SeqInv`. That holds when one
invocation follows another and is not something the code sees to: OpenCode may call two
tools at once, and then it fails (`PluginLifecycle_resurrection`). The hypothesis on `Tools`
is needed for the same reason, `"abandon"` and `"cut"` are left out for what
`LeaseAccounted` and `HealthyStays` say of them (see "Bounds"; a file cut off loads as no
binding), and so are ids, unlinks and seconds (see "Findings").

**Only model-checked.** `InvocationEnds`, `PublishEnds` and `GoneForgotten`: liveness under
fairness needs `ENABLED`, which the prover does not have. `CallsAdvance` proves the rank
that such an argument would use for `SshManager`.

## Not modelled, and the plan

- Host setup and the local stub: sequential scripts over ssh and key files, run by hand.
  What they leave on a host is `Left`; run on a host in use, setup-host.sh replaces its token
  file and stub, and the workspace there cannot be reached again until it is removed.
- The read-only endpoints other than health and the permission list: they change nothing.
- Two OpenCode processes on one bindings file: each writes its own map over the other's.
  Two configured hosts with one `ssh.host`: one host of `SshManager`, contested. Reused process
  ids. Each is a hazard in `PROJECT.json` with its reason. Overlapping recoveries of one
  workspace step by step, and workspace ids that lead out of `workspaces/`.
- Request parsing, output formatting, logging; the execution of commands.
