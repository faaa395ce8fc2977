----------------------- MODULE PluginLifecycleProofs ------------------------
(***************************************************************************)
(* Proofs about PluginLifecycle and HostLeases, for any sets of hosts,     *)
(* workspaces, tunnels and invocations in flight: the types, and one       *)
(* workspace to a host and no lease left behind as long as bindings are    *)
(* only created (by either route) and removed (by either tool or by        *)
(* OpenCode), through overlapping invocations, failures, reboots and       *)
(* restarts.                                                               *)
(*                                                                         *)
(* The tools that check and reuse bindings are left out of the second part *)
(* by the hypothesis on Tools and not for convenience: they write back     *)
(* what they read before an await, and with them the statements are false  *)
(* for overlapping invocations (run PluginLifecycle_resurrection).  Module *)
(* PluginSequentialProofs has them all, one invocation at a time.          *)
(***************************************************************************)
EXTENDS PluginLifecycle, TLAPS

Tables == [Hosts -> Workspaces \cup {None}]

(* The lease table's operations keep it a table; a host that is selected   *)
(* is free or the workspace's own; and release only ever empties the host  *)
(* it names, if the caller owns it.                                        *)
LEMMA TableOperations ==
  ASSUME NEW table \in Tables, NEW h \in Hosts, NEW w \in Workspaces
  PROVE  /\ Acquired(table, h, w) \in Tables
         /\ Released(table, h, w) \in Tables
         /\ \A g \in Hosts : table[g] # w => Released(table, h, w)[g] = table[g]
         /\ \A g \in Hosts : Released(table, h, w)[g] \in {table[g], None}
         /\ \A cands : h \in Selectable(table, w, cands) => table[h] \in {None, w}
  BY DEF Tables, Acquired, Released, Selectable

(* The store maps each workspace to a binding of its own.                  *)
IsStore(s) ==
  /\ s \in [Workspaces -> Binding \cup {None}]
  /\ \A w \in Workspaces : s[w] # None => s[w].ws = w

(* The store stays one when a binding is stored or deleted.                *)
LEMMA StoreOperations ==
  ASSUME IsStore(bindings), NEW b \in Binding,
         Store(b) \/ Forget(b) \/ UNCHANGED bindings
  PROVE  IsStore(bindings')
  BY DEF IsStore, Store, Forget, Binding

(* TypeOK by parts.                                                        *)
PluginOK == leases \in Tables /\ IsStore(bindings) /\ configured \subseteq Workspaces
RemoteOK ==
  /\ tunnels \in [Tunnels -> Hosts \cup {None}]
  /\ stub \in [Hosts -> Workspaces \cup {None}]
  /\ registered \subseteq Workspaces
JobsOK ==
  /\ pc \in [Tasks -> Labels]
  /\ job \in [Tasks -> Job \cup {None}]
  /\ \A t \in Tasks : pc[t] # "idle" => job[t] \in Job
  /\ \A t \in Tasks : pc[t] \notin {"idle", "find", "scan", "drop"} => job[t].cur \in Binding

(* The parts make up the whole.                                            *)
LEMMA TypeParts == TypeOK <=> PluginOK /\ RemoteOK /\ JobsOK
  BY DEF TypeOK, PluginOK, RemoteOK, JobsOK, Tables, IsStore

(* An invocation moves on with a job, stays with its job, or ends.         *)
LEMMA JobOperations ==
  ASSUME JobsOK, NEW t \in Tasks, NEW l \in Labels, NEW j \in Job,
         l \in {"find", "scan", "drop"} \/ j.cur \in Binding,
         Enter(t, l, j)
  PROVE  JobsOK'
  BY DEF JobsOK, Enter, Labels

(* An invocation ends.                                                     *)
LEMMA JobEnds ==
  ASSUME JobsOK, NEW t \in Tasks, Finish(t)
  PROVE  JobsOK'
  BY DEF JobsOK, Enter, Finish, Labels

(* An invocation that has a binding at hand goes on with it.               *)
LEMMA JobContinues ==
  ASSUME JobsOK, NEW t \in Tasks, NEW l \in Labels, Goto(t, l),
         pc[t] \notin {"idle", "find", "scan", "drop"}
  PROVE  JobsOK'
  BY DEF JobsOK, Goto, Labels

(* What is stored are bindings.                                            *)
LEMMA StoredTypes == ASSUME PluginOK PROVE Stored \subseteq Binding
  BY DEF PluginOK, IsStore, Stored

(* The shared endings of the handlers keep the plugin's and the jobs'      *)
(* types.                                                                  *)
LEMMA AcquireTypes ==
  ASSUME PluginOK, JobsOK, NEW t \in Tasks, NEW tool \in ToolNames, NEW arg \in Hosts \cup {None, Unknown},
         NEW w \in Workspaces, NEW h \in Hosts, Acquire(t, tool, arg, w, h)
  PROVE  leases' \in Tables /\ JobsOK'
<1> DEFINE b == NewBinding(w, h)
           j == [tool |-> tool, arg |-> arg, todo |-> {}, cur |-> b, made |-> TRUE]
<1>1. b \in Binding
  BY DEF NewBinding, Binding
<1>2. j \in Job /\ j.cur \in Binding
  BY <1>1 DEF Job
<1>3. "boot" \in Labels /\ Enter(t, "boot", j)
  BY DEF Acquire, Labels
<1>4. JobsOK'
  <2> HIDE DEF j
  <2> QED BY <1>2, <1>3, JobOperations
<1>5. leases' \in Tables
  BY TableOperations DEF Acquire, PluginOK
<1> QED BY <1>4, <1>5

(* The catch of a creation keeps the types.                                *)
LEMMA BootFailsTypes ==
  ASSUME PluginOK, JobsOK, NEW t \in Tasks, pc[t] \in {"boot", "tunnel", "health", "register"}, BootFails(t)
  PROVE  PluginOK' /\ JobsOK'
<1>1. job[t].cur.host \in Hosts /\ job[t].cur.ws \in Workspaces
  BY DEF JobsOK, Binding
<1>2. leases' \in Tables
  BY <1>1, TableOperations DEF BootFails, Release, PluginOK
<1>3. JobsOK'
  BY JobEnds DEF BootFails
<1> QED BY <1>2, <1>3 DEF BootFails, PluginOK

(* Releasing and deleting a binding keeps the types.                       *)
LEMMA GiveUpTypes ==
  ASSUME PluginOK, NEW b \in Binding, Release(b), Forget(b)
  PROVE  leases' \in Tables /\ IsStore(bindings')
<1>1. b.host \in Hosts /\ b.ws \in Workspaces
  BY DEF Binding
<1> QED BY <1>1, TableOperations, StoreOperations DEF Release, PluginOK

(* An invocation that is done with a binding keeps the types.              *)
LEMMA SettleTypes ==
  ASSUME JobsOK, NEW t \in Tasks, pc[t] # "idle", NEW b \in Binding, Settle(t, b)
  PROVE  JobsOK'
<1> DEFINE j == [job[t] EXCEPT !.cur = b]
<1>1. j \in Job /\ j.cur \in Binding
  BY DEF JobsOK, Job
<1>2. Enter(t, "check", j) \/ Finish(t)
  BY DEF Settle
<1>3. "check" \in Labels
  BY DEF Labels
<1> HIDE DEF j
<1> QED BY <1>1, <1>2, <1>3, JobOperations, JobEnds

(* A recovery ends with a binding or with none.                            *)
LEMMA RecoverTypes ==
  ASSUME RemoteOK, NEW b \in Binding, NEW r \in Outcomes(b), Recover(b, r)
  PROVE  tunnels' \in [Tunnels -> Hosts \cup {None}] /\ (r # None => r \in Binding)
<1>1. b.host \in Hosts
  BY DEF Binding
<1>2. tunnels' \in [Tunnels -> Hosts \cup {None}]
  BY <1>1 DEF Recover, RemoteOK
<1>3. r # None => r \in Binding
  BY DEF Outcomes, Binding
<1> QED BY <1>2, <1>3

(* Types: no tool, no adapter call, no failure and no restart takes a      *)
(* variable out of its set; in particular a binding is always stored under *)
(* its own workspace, and no step works on a binding it has not got.       *)
THEOREM TypeCorrect == Spec => []TypeOK
<1>1. Init => TypeOK
  BY LifecycleAssumption DEF Init, TypeOK, Labels
<1>2. TypeOK /\ [Next]_vars => TypeOK'
  <2> SUFFICES ASSUME TypeOK, [Next]_vars PROVE TypeOK'
    OBVIOUS
  <2>0. PluginOK /\ RemoteOK /\ JobsOK
    BY TypeParts
  <2> SUFFICES PluginOK' /\ RemoteOK' /\ JobsOK'
    BY DEF TypeOK, PluginOK, RemoteOK, JobsOK, Tables, IsStore
  <2> USE <2>0 DEF plugin, remote
  <2>s. Stored \subseteq Binding
    BY StoredTypes
  <2>c. \A t \in Tasks : pc[t] \notin {"idle", "find", "scan", "drop"} => job[t] \in Job /\ job[t].cur \in Binding
    BY DEF JobsOK
  <2>j. \A t \in Tasks : pc[t] # "idle" => job[t] \in Job /\ job[t].todo \subseteq Binding
    BY DEF JobsOK, Job
  <2>1. ASSUME NEW t \in Tasks, NEW arg \in Hosts \cup {None, Unknown}, NEW w \in Workspaces, NEW h \in Hosts,
               CreateStart(t, arg, w, h) \/ AdapterCreate(t, w, h)
        PROVE  PluginOK' /\ RemoteOK' /\ JobsOK'
    <3>1. PICK a \in Hosts \cup {None, Unknown} : Acquire(t, "create", a, w, h)
      BY <2>1 DEF CreateStart, AdapterCreate
    <3>2. leases' \in Tables /\ JobsOK'
      BY <3>1, AcquireTypes DEF ToolNames
    <3> QED BY <2>1, <3>2 DEF CreateStart, AdapterCreate, PluginOK, RemoteOK, IsStore
  <2>2. ASSUME NEW t \in Tasks, StartStub(t)
        PROVE  PluginOK' /\ RemoteOK' /\ JobsOK'
    <3>1. pc[t] = "boot" /\ job[t].cur.host \in Hosts /\ job[t].cur.ws \in Workspaces
      BY <2>2, <2>c DEF StartStub, Binding
    <3>2. RemoteOK'
      BY <2>2, <3>1 DEF StartStub, RemoteOK, BootFails
    <3>3. CASE BootFails(t)
      BY <3>1, <3>2, <3>3, BootFailsTypes
    <3>4. CASE Goto(t, "tunnel") /\ UNCHANGED plugin
      BY <3>1, <3>2, <3>4, JobContinues DEF PluginOK, IsStore, Labels
    <3> QED BY <2>2, <3>3, <3>4 DEF StartStub
  <2>3. ASSUME NEW t \in Tasks, OpenTunnel(t)
        PROVE  PluginOK' /\ RemoteOK' /\ JobsOK'
    <3>1. pc[t] = "tunnel" /\ job[t].cur \in Binding /\ job[t] \in Job
      BY <2>3, <2>c DEF OpenTunnel
    <3>2. ASSUME NEW n \in FreeTunnels,
                 tunnels' = [tunnels EXCEPT ![n] = job[t].cur.host],
                 Enter(t, "health", [job[t] EXCEPT !.cur = [@ EXCEPT !.tunnel = n]]),
                 UNCHANGED <<plugin, stub, registered>>
          PROVE  PluginOK' /\ RemoteOK' /\ JobsOK'
      <4> DEFINE b == [job[t].cur EXCEPT !.tunnel = n]
                 j == [job[t] EXCEPT !.cur = b]
      <4>1. b \in Binding
        BY <3>1 DEF Binding, FreeTunnels
      <4>2. j \in Job /\ j.cur \in Binding
        BY <3>1, <4>1 DEF Job
      <4>3. Enter(t, "health", j)
        BY <3>2
      <4>4. JobsOK'
        <5> HIDE DEF j
        <5> QED BY <4>2, <4>3, JobOperations DEF Labels
      <4>5. RemoteOK' /\ PluginOK'
        BY <3>1, <3>2 DEF RemoteOK, PluginOK, IsStore, Binding
      <4> QED BY <4>4, <4>5
    <3>3. CASE BootFails(t) /\ UNCHANGED remote
      BY <3>1, <3>3, BootFailsTypes DEF RemoteOK
    <3> QED BY <2>3, <3>2, <3>3 DEF OpenTunnel
  <2>4. ASSUME NEW t \in Tasks, AwaitHealth(t)
        PROVE  PluginOK' /\ RemoteOK' /\ JobsOK'
    <3>1. pc[t] = "health" /\ job[t].cur \in Binding /\ RemoteOK'
      BY <2>4, <2>c DEF AwaitHealth, RemoteOK
    <3>2. CASE Store(job[t].cur) /\ Finish(t) /\ UNCHANGED <<leases, configured>>
      BY <3>1, <3>2, StoreOperations, JobEnds DEF PluginOK
    <3>3. CASE Goto(t, "register") /\ UNCHANGED plugin
      BY <3>1, <3>3, JobContinues DEF PluginOK, IsStore, Labels
    <3>4. CASE BootFails(t)
      BY <3>1, <3>4, BootFailsTypes
    <3> QED BY <2>4, <3>1, <3>2, <3>3, <3>4 DEF AwaitHealth
  <2>5. ASSUME NEW t \in Tasks, Register(t)
        PROVE  PluginOK' /\ RemoteOK' /\ JobsOK'
    <3> DEFINE b == [job[t].cur EXCEPT !.sess = TRUE]
    <3>1. pc[t] = "register" /\ b \in Binding
      BY <2>5, <2>c DEF Register, Binding
    <3>2. RemoteOK'
      BY <2>5, <3>1 DEF Register, RemoteOK, Binding
    <3>3. CASE Store(b) /\ Settle(t, b) /\ UNCHANGED <<leases, configured>>
      <4> HIDE DEF b
      <4> QED BY <3>1, <3>2, <3>3, StoreOperations, SettleTypes DEF PluginOK
    <3>4. CASE BootFails(t)
      BY <3>1, <3>2, <3>4, BootFailsTypes
    <3> QED BY <2>5, <3>3, <3>4 DEF Register
  <2>6. ASSUME NEW t \in Tasks, NEW b \in job[t].todo, pc[t] = "find", FindNext(t, b)
        PROVE  PluginOK' /\ RemoteOK' /\ JobsOK'
    <3> DEFINE left == [job[t] EXCEPT !.todo = @ \ {b}]
               taken == [left EXCEPT !.cur = b]
    <3>1. b \in Binding /\ b.host \in Hosts /\ b.ws \in Workspaces
      BY <2>6, <2>j DEF Binding
    <3>2. left \in Job /\ taken \in Job /\ taken.cur \in Binding
      BY <2>6, <2>j, <3>1 DEF Job
    <3>3. RemoteOK'
      BY <2>6 DEF FindNext, RemoteOK
    <3>4. JobsOK'
      <4>1. Enter(t, "find", left) \/ Enter(t, "reuse", taken)
        BY <2>6 DEF FindNext
      <4> HIDE DEF left, taken
      <4> QED BY <3>2, <4>1, JobOperations DEF Labels
    <3>5. leases' \in Tables /\ IsStore(bindings') /\ configured' = configured
      <4>1. CASE Release(b) /\ Forget(b)
        BY <2>6, <3>1, <4>1, GiveUpTypes DEF FindNext
      <4>2. CASE leases' = Acquired(leases, b.host, b.ws) /\ UNCHANGED bindings
        BY <2>6, <3>1, <4>2, TableOperations DEF PluginOK, FindNext
      <4>3. CASE UNCHANGED bindings /\ \E h \in Hosts : leases' = Released(Acquired(leases, h, b.ws), h, b.ws)
        BY <2>6, <3>1, <4>3, TableOperations DEF PluginOK, FindNext
      <4>4. \A cands : Selectable(leases, b.ws, Candidates(cands)) \subseteq Hosts
        BY DEF Selectable, Candidates
      <4> QED BY <2>6, <4>1, <4>2, <4>3, <4>4 DEF FindNext
    <3> QED BY <3>3, <3>4, <3>5 DEF PluginOK
  <2>7. ASSUME NEW t \in Tasks, NEW b \in Binding, pc[t] \in {"reuse", "session"}, ReuseFails(t, b)
        PROVE  PluginOK' /\ JobsOK'
    <3> DEFINE j == [job[t] EXCEPT !.cur = None]
    <3>1. j \in Job
      BY <2>7, <2>j DEF Job
    <3>2. Enter(t, "find", j)
      BY <2>7 DEF ReuseFails
    <3>3. JobsOK'
      <4> HIDE DEF j
      <4> QED BY <3>1, <3>2, JobOperations DEF Labels
    <3>4. leases' \in Tables /\ IsStore(bindings')
      BY <2>7, GiveUpTypes DEF ReuseFails
    <3> QED BY <2>7, <3>3, <3>4 DEF PluginOK, ReuseFails
  <2>8. ASSUME NEW t \in Tasks, NEW r \in Outcomes(job[t].cur), pc[t] = "reuse", Reuse(t, r)
        PROVE  PluginOK' /\ RemoteOK' /\ JobsOK'
    <3> DEFINE b == job[t].cur
               j == [job[t] EXCEPT !.cur = r]
    <3>1. b \in Binding /\ job[t] \in Job /\ Recover(b, r) /\ UNCHANGED <<stub, registered>>
      BY <2>8, <2>c DEF Reuse
    <3>2. RemoteOK' /\ (r # None => r \in Binding)
      BY <3>1, RecoverTypes DEF RemoteOK
    <3>3. CASE r = None
      BY <2>8, <3>1, <3>2, <3>3, <2>7 DEF Reuse
    <3>4. CASE r # None /\ r.sess
      BY <2>8, <3>2, <3>4, StoreOperations, SettleTypes DEF Reuse, PluginOK
    <3>5. CASE r # None /\ ~ r.sess
      <4>1. j \in Job /\ j.cur \in Binding
        BY <3>1, <3>2, <3>5 DEF Job
      <4>2. Enter(t, "session", j) /\ PluginOK'
        BY <2>8, <3>5 DEF Reuse, PluginOK, IsStore
      <4> HIDE DEF j
      <4> QED BY <3>2, <4>1, <4>2, JobOperations DEF Labels
    <3> QED BY <3>3, <3>4, <3>5
  <2>9. ASSUME NEW t \in Tasks, MakeSession(t)
        PROVE  PluginOK' /\ RemoteOK' /\ JobsOK'
    <3> DEFINE b == [job[t].cur EXCEPT !.sess = TRUE]
    <3>1. pc[t] = "session" /\ b \in Binding /\ RemoteOK'
      BY <2>9, <2>c DEF MakeSession, Binding, RemoteOK
    <3> HIDE DEF b
    <3>2. CASE Store(b) /\ Settle(t, b) /\ UNCHANGED <<leases, configured>>
      BY <3>1, <3>2, StoreOperations, SettleTypes DEF PluginOK
    <3>3. CASE ReuseFails(t, b)
      BY <3>1, <3>3, <2>7
    <3> QED BY <2>9, <3>2, <3>3 DEF MakeSession, b
  <2>10. ASSUME NEW t \in Tasks, FindNone(t)
         PROVE  PluginOK' /\ RemoteOK' /\ JobsOK'
    <3>1. RemoteOK' /\ IsStore(bindings') /\ configured' = configured /\ job[t] \in Job
      BY <2>10, <2>j DEF FindNone, RemoteOK, PluginOK, IsStore
    <3>2. CASE \E w \in Workspaces, h \in Hosts : Acquire(t, job[t].tool, job[t].arg, w, h)
      <4>1. job[t].tool \in ToolNames /\ job[t].arg \in Hosts \cup {None, Unknown}
        BY <3>1 DEF Job
      <4> QED BY <3>1, <3>2, <4>1, AcquireTypes DEF PluginOK
    <3>3. CASE Finish(t) /\ UNCHANGED leases
      BY <3>1, <3>3, JobEnds DEF PluginOK
    <3> QED BY <2>10, <3>2, <3>3 DEF FindNone
  <2>11. ASSUME NEW t \in Tasks, NEW tool \in ToolNames, NEW arg \in Hosts \cup {None, Unknown},
                NEW todo \in SUBSET Stored, NEW l \in {"find", "scan", "drop"},
                Enter(t, l, [tool |-> tool, arg |-> arg, todo |-> todo, cur |-> None, made |-> FALSE]),
                UNCHANGED <<plugin, remote>>
         PROVE  PluginOK' /\ RemoteOK' /\ JobsOK'
    <3> DEFINE j == [tool |-> tool, arg |-> arg, todo |-> todo, cur |-> None, made |-> FALSE]
    <3>1. j \in Job
      BY <2>s DEF Job
    <3>2. Enter(t, l, j)
      BY <2>11
    <3>3. JobsOK'
      <4> HIDE DEF j
      <4> QED BY <3>1, <3>2, JobOperations DEF Labels
    <3> QED BY <2>11, <3>3 DEF PluginOK, RemoteOK, IsStore
  <2>12. ASSUME NEW t \in Tasks, NEW b \in Binding, pc[t] # "idle", ScanFails(t, b)
         PROVE  PluginOK' /\ JobsOK'
    <3> DEFINE j == [job[t] EXCEPT !.todo = @ \ {b}, !.cur = None]
    <3>1. j \in Job
      BY <2>12, <2>j DEF Job
    <3> HIDE DEF j
    <3>2. CASE Forget(b) /\ Release(b) /\ Enter(t, "scan", j)
      <4>1. JobsOK'
        BY <3>1, <3>2, JobOperations DEF Labels
      <4> QED BY <2>12, <3>2, <4>1, GiveUpTypes DEF ScanFails, PluginOK
    <3>3. CASE Finish(t) /\ UNCHANGED <<bindings, leases>>
      BY <2>12, <3>3, JobEnds DEF ScanFails, PluginOK
    <3> QED BY <2>12, <3>2, <3>3 DEF ScanFails, j
  <2>13. ASSUME NEW t \in Tasks, NEW b \in job[t].todo, pc[t] = "scan", ScanNext(t, b)
         PROVE  PluginOK' /\ RemoteOK' /\ JobsOK'
    <3> DEFINE j == [job[t] EXCEPT !.cur = b]
    <3>1. b \in Binding /\ b.host \in Hosts /\ b.ws \in Workspaces /\ RemoteOK'
      BY <2>13, <2>j DEF Binding, ScanNext, RemoteOK
    <3>2. j \in Job /\ j.cur \in Binding
      BY <2>13, <2>j, <3>1 DEF Job
    <3> HIDE DEF j
    <3>3. CASE leases' = Acquired(leases, b.host, b.ws) /\ Enter(t, "recover", j) /\ UNCHANGED <<bindings, configured>>
      <4>1. JobsOK'
        BY <3>2, <3>3, JobOperations DEF Labels
      <4> QED BY <3>1, <3>3, <4>1, TableOperations DEF PluginOK
    <3>4. CASE ScanFails(t, b)
      BY <2>13, <3>1, <3>4, <2>12
    <3> QED BY <2>13, <3>3, <3>4 DEF ScanNext, j
  <2>14. ASSUME NEW t \in Tasks, NEW r \in Outcomes(job[t].cur), pc[t] = "recover", RecoverDone(t, r)
         PROVE  PluginOK' /\ RemoteOK' /\ JobsOK'
    <3> DEFINE b == job[t].cur
               j == [job[t] EXCEPT !.todo = @ \ {b}, !.cur = None]
    <3>1. b \in Binding /\ job[t] \in Job /\ Recover(b, r) /\ UNCHANGED <<stub, registered>>
      BY <2>14, <2>c DEF RecoverDone
    <3>2. RemoteOK' /\ (r # None => r \in Binding)
      BY <3>1, RecoverTypes DEF RemoteOK
    <3>3. j \in Job
      BY <3>1 DEF Job
    <3>4. CASE ScanFails(t, b)
      BY <2>14, <3>1, <3>2, <3>4, <2>12
    <3>5. CASE r # None /\ (Store(r) \/ UNCHANGED bindings) /\ Enter(t, "scan", j) /\ UNCHANGED <<leases, configured>>
      <4> HIDE DEF j
      <4>1. JobsOK'
        BY <3>3, <3>5, JobOperations DEF Labels
      <4> QED BY <3>2, <3>5, <4>1, StoreOperations DEF PluginOK
    <3> QED BY <2>14, <3>4, <3>5 DEF RecoverDone
  <2>15. ASSUME NEW t \in Tasks, NEW b \in job[t].todo, pc[t] = "drop", Unregister(t, b)
         PROVE  PluginOK' /\ RemoteOK' /\ JobsOK'
    <3> DEFINE j == [job[t] EXCEPT !.todo = @ \ {b}, !.cur = b]
    <3>1. j \in Job /\ j.cur \in Binding
      BY <2>15, <2>j DEF Job
    <3>2. Enter(t, "kill", j) /\ RemoteOK' /\ PluginOK'
      BY <2>15 DEF Unregister, RemoteOK, PluginOK, IsStore
    <3> HIDE DEF j
    <3> QED BY <3>1, <3>2, JobOperations DEF Labels
  <2>16. ASSUME NEW t \in Tasks, KillTunnel(t)
         PROVE  PluginOK' /\ RemoteOK' /\ JobsOK'
    <3>1. PluginOK' /\ RemoteOK' /\ pc[t] = "kill"
      BY <2>16 DEF KillTunnel, PluginOK, RemoteOK, IsStore
    <3>2. Goto(t, "release") \/ Finish(t)
      BY <2>16 DEF KillTunnel
    <3> QED BY <3>1, <3>2, JobContinues, JobEnds DEF Labels
  <2>17. ASSUME NEW t \in Tasks, Drop(t)
         PROVE  PluginOK' /\ RemoteOK' /\ JobsOK'
    <3> DEFINE j == [job[t] EXCEPT !.cur = None]
    <3>1. pc[t] = "release" /\ j \in Job /\ job[t].cur \in Binding
      BY <2>17, <2>c DEF Drop, Job
    <3>2. Enter(t, "drop", j) /\ RemoteOK' /\ leases' \in Tables /\ IsStore(bindings') /\ configured' = configured
      BY <2>17, <3>1, GiveUpTypes DEF Drop, RemoteOK
    <3> HIDE DEF j
    <3>3. JobsOK'
      BY <3>1, <3>2, JobOperations DEF Labels
    <3> QED BY <3>2, <3>3 DEF PluginOK
  <2>18. ASSUME NEW t \in Tasks, ScanEnd(t) \/ DropEnd(t)
         PROVE  PluginOK' /\ RemoteOK' /\ JobsOK'
    BY <2>18, JobEnds DEF ScanEnd, DropEnd, PluginOK, RemoteOK, IsStore
  <2>19. ASSUME NEW t \in Tasks, DoctorCheck(t)
         PROVE  PluginOK' /\ RemoteOK' /\ JobsOK'
    <3> DEFINE j == [job[t] EXCEPT !.todo = {job[t].cur}, !.cur = None]
    <3>a. job[t] \in Job /\ job[t].cur \in Binding
      BY <2>19, <2>c DEF DoctorCheck
    <3>b. j \in Job
      BY <3>a DEF Job
    <3>1. j \in Job /\ (Enter(t, "drop", j) \/ Finish(t))
      BY <2>19, <3>b DEF DoctorCheck
    <3> HIDE DEF j
    <3>2. JobsOK'
      BY <3>1, JobOperations, JobEnds DEF Labels
    <3> QED BY <2>19, <3>2 DEF DoctorCheck, PluginOK, RemoteOK, IsStore
  <2>20. ASSUME NEW w \in Workspaces, NEW arg \in Hosts \cup {None, Unknown}, NEW h \in Hosts, Configure(w, arg, h)
         PROVE  PluginOK' /\ RemoteOK' /\ JobsOK'
    BY <2>20, TableOperations DEF Configure, PluginOK, RemoteOK, JobsOK, IsStore
  <2>21. ASSUME NEW w \in Workspaces, RemoveConfigured(w)
         PROVE  PluginOK' /\ RemoteOK' /\ JobsOK'
    BY <2>21 DEF RemoveConfigured, PluginOK, RemoteOK, JobsOK, IsStore
  <2>22. ASSUME \/ \E n \in Tunnels : TunnelDies(n)
                \/ \E h \in Hosts : Reboot(h)
         PROVE  PluginOK' /\ RemoteOK' /\ JobsOK'
    BY <2>22 DEF TunnelDies, Reboot, PluginOK, RemoteOK, JobsOK, IsStore
  <2>23. CASE Restart
    BY <2>23 DEF Restart, Restored, Tables, PluginOK, RemoteOK, JobsOK, IsStore, Labels
  <2>27. CASE CutOff
    BY <2>27 DEF CutOff, Tables, PluginOK, RemoteOK, JobsOK, IsStore, Labels
  <2>24. CASE UNCHANGED vars
    BY <2>24 DEF vars, PluginOK, RemoteOK, JobsOK, IsStore
  <2>25. ASSUME NEW t \in Tasks, Invoke(t)
         PROVE  PluginOK' /\ RemoteOK' /\ JobsOK'
    <3>1. CASE \E tool \in ToolNames, arg \in Hosts \cup {None, Unknown} : SwitchStart(t, tool, arg)
      BY <3>1, <2>11 DEF SwitchStart
    <3>2. CASE \E tool \in ToolNames, todo \in SUBSET Stored : ScanStart(t, tool, todo)
      BY <3>2, <2>11 DEF ScanStart
    <3>3. CASE \E tool \in ToolNames, todo \in SUBSET Stored : RemoveStart(t, tool, todo)
      BY <3>3, <2>11 DEF RemoveStart
    <3> QED BY <2>25, <2>1, <3>1, <3>2, <3>3 DEF Invoke
  <2>26. ASSUME NEW t \in Tasks, Proceed(t)
         PROVE  PluginOK' /\ RemoteOK' /\ JobsOK'
    BY <2>26, <2>2, <2>3, <2>4, <2>5, <2>6, <2>8, <2>9, <2>10, <2>13, <2>14, <2>15, <2>16, <2>17,
       <2>18, <2>19 DEF Proceed
  <2> QED
    BY <2>20, <2>21, <2>22, <2>23, <2>24, <2>25, <2>26, <2>27 DEF Next
<1> QED
  BY <1>1, <1>2, PTL DEF Spec

-----------------------------------------------------------------------------
(* One workspace to a host.                                                *)

Removing == {"drop", "kill", "release"}

(* For the leases nobody uses: each is its binding's, its creator's, or    *)
(* was taken when the workspace was configured.                            *)
Explained(w, h) ==
  \/ bindings[w] # None /\ bindings[w].host = h
  \/ w \in configured
  \/ \E t \in Tasks : Creating(t) /\ job[t].cur.ws = w /\ job[t].cur.host = h
Account == \A h \in Hosts : leases[h] # None => Explained(leases[h], h)

(* What that takes where invocations overlap: no workspace has two leases, *)
(* and what is being removed, if it is stored at all, is stored with the   *)
(* same host, whose lease goes with it.                                    *)
UseInv ==
  /\ Account
  /\ \A g, h \in Hosts : leases[g] # None /\ leases[g] = leases[h] => g = h
  /\ \A t \in Tasks : pc[t] \in Removing =>
       \A b \in Held(t) : bindings[b.ws] # None => bindings[b.ws].host = b.host

(* A free host, or one's own, is all that is ever selected.                *)
LEMMA LeaseMoves ==
  ASSUME leases \in Tables, NEW h \in Hosts, NEW w \in Workspaces, NEW cands,
         h \in Selectable(leases, w, cands), leases' = Acquired(leases, h, w)
  PROVE  /\ leases'[h] = w
         /\ leases[h] \in {None, w}
         /\ \A g \in Hosts : leases[g] # None => leases'[g] = leases[g]
  BY DEF Tables, Acquired, Selectable

(* A release frees the caller's lease at most.                             *)
LEMMA LeaseReturns ==
  ASSUME leases \in Tables, NEW b \in Binding, Release(b)
  PROVE  /\ \A g \in Hosts : leases[g] # b.ws => leases'[g] = leases[g]
         /\ \A g \in Hosts : leases'[g] \in {leases[g], None}
  BY DEF Tables, Release, Released, Binding

(* A binding in the store is the one under its own workspace.              *)
LEMMA StoredByName ==
  ASSUME TypeOK, NEW b
  PROVE  b \in Stored <=> b \in Binding /\ bindings[b.ws] = b
  BY LifecycleAssumption DEF TypeOK, Stored, Binding

(* The invariant holds what is to be proved: two creators on one host      *)
(* would have one lease, hence one workspace; a creator and a binding too. *)
LEMMA LeaseInvSuffices ==
  ASSUME TypeOK, LeaseInv
  PROVE  BoundIsLeased /\ SoleUser
<1>1. ASSUME NEW t \in Tasks, Creating(t), NEW u \in Tasks \ {t}, Creating(u)
      PROVE  job[u].cur.host # job[t].cur.host
  BY <1>1 DEF LeaseInv
<1>2. ASSUME NEW t \in Tasks, Creating(t), NEW b \in Stored
      PROVE  b.host # job[t].cur.host
  <2>1. b \in Binding /\ bindings[b.ws] = b /\ b # None
    BY <1>2, StoredByName, LifecycleAssumption
  <2>2. leases[b.host] = b.ws
    BY <1>2 DEF LeaseInv, BoundIsLeased
  <2>3. leases[job[t].cur.host] = job[t].cur.ws /\ bindings[job[t].cur.ws] = None
    BY <1>2 DEF LeaseInv
  <2> QED BY <2>1, <2>2, <2>3
<1> QED BY <1>1, <1>2 DEF LeaseInv, SoleUser

(* What an invocation's step does to pc and job.                           *)
LEMMA OneMoves ==
  ASSUME TypeOK, NEW t \in Tasks, NEW l, NEW j, Enter(t, l, j)
  PROVE  /\ pc'[t] = l /\ job'[t] = j
         /\ \A u \in Tasks \ {t} : pc'[u] = pc[u] /\ job'[u] = job[u]
  BY DEF TypeOK, Enter

(* A creation begins for a workspace nobody else has in hand.              *)
LEMMA CreationBegins ==
  ASSUME TypeOK, LeaseInv, NEW t \in Tasks, NEW arg, NEW w \in Workspaces, NEW h \in Hosts,
         pc[t] = "idle", Acquire(t, "create", arg, w, h),
         bindings' = bindings, configured' \subseteq configured, w \notin configured',
         bindings[w] = None,
         \A u \in Tasks : Creating(u) => job[u].cur.ws # w,
         \A u \in Tasks : pc[u] \in {"drop", "kill", "release"} => \A b \in Held(u) : b.ws # w
  PROVE  LeaseInv'
<1> DEFINE j == [tool |-> "create", arg |-> arg, todo |-> {}, cur |-> NewBinding(w, h), made |-> TRUE]
<1>1. /\ pc'[t] = "boot" /\ job'[t] = j
      /\ \A u \in Tasks \ {t} : pc'[u] = pc[u] /\ job'[u] = job[u]
  BY OneMoves DEF Acquire
<1>2. j.cur.ws = w /\ j.cur.host = h /\ j.tool = "create"
  BY DEF NewBinding
<1>3. /\ leases'[h] = w /\ \A g \in Hosts : leases[g] # None => leases'[g] = leases[g]
  BY LeaseMoves DEF TypeOK, Acquire, Tables
<1>4. \A u \in Tasks : Creating(u) => job[u].cur \in Binding /\ job[u].cur.host \in Hosts /\ job[u].cur.ws \in Workspaces
  BY DEF TypeOK, Creating, Binding
<1> HIDE DEF j
<1>5. \A u \in Tasks : Creating(u)' <=> u = t \/ Creating(u)
  BY <1>1 DEF Creating
<1>6. BoundIsLeased'
  BY <1>3, StoredByName, LifecycleAssumption DEF LeaseInv, BoundIsLeased, Stored, TypeOK, Binding
<1>7. \A u \in Tasks : Creating(u)' =>
        /\ job'[u].tool = "create"
        /\ leases'[job'[u].cur.host] = job'[u].cur.ws
        /\ bindings'[job'[u].cur.ws] = None /\ job'[u].cur.ws \notin configured'
  BY <1>1, <1>2, <1>3, <1>4, <1>5, LifecycleAssumption DEF LeaseInv
<1>8. \A u, v \in Tasks : u # v /\ Creating(u)' /\ Creating(v)' => job'[u].cur.ws # job'[v].cur.ws
  BY <1>1, <1>2, <1>5 DEF LeaseInv
<1>9. \A u \in Tasks : pc'[u] \in {"drop", "kill", "release"} =>
        \A b \in Held(u)' : b.ws \notin configured' /\ \A v \in Tasks : Creating(v)' => job'[v].cur.ws # b.ws
  BY <1>1, <1>2, <1>5 DEF LeaseInv, Held
<1>10. \A u \in Tasks : pc'[u] \in {"idle", "boot", "tunnel", "health", "drop", "kill", "release"}
  BY <1>1 DEF LeaseInv
<1>11. \A x \in configured' : bindings'[x] = None
  BY DEF LeaseInv
<1> QED BY <1>6, <1>7, <1>8, <1>9, <1>10, <1>11 DEF LeaseInv

(* The invariant survives a step that leaves the tables alone and gives no *)
(* invocation anything new to create or to remove.                         *)
LEMMA TablesStay ==
  ASSUME TypeOK, LeaseInv, UNCHANGED <<leases, bindings>>, configured' \subseteq configured,
         \A u \in Tasks : pc'[u] \in {"idle", "boot", "tunnel", "health"} \cup Removing,
         \A u \in Tasks : Creating(u)' =>
           /\ Creating(u) /\ job'[u].tool = job[u].tool
           /\ job'[u].cur.ws = job[u].cur.ws /\ job'[u].cur.host = job[u].cur.host,
         \A u \in Tasks : pc'[u] \in Removing =>
           \A b \in Held(u)' : (pc[u] \in Removing /\ b \in Held(u)) \/ b \in Stored
  PROVE  LeaseInv'
<1>1. \A b \in Stored : bindings[b.ws] # None
  BY StoredByName, LifecycleAssumption
<1>2. \A u \in Tasks : pc'[u] \in Removing =>
        \A b \in Held(u)' : b.ws \notin configured' /\ \A v \in Tasks : Creating(v)' => job'[v].cur.ws # b.ws
  BY <1>1 DEF LeaseInv, Removing
<1>3. BoundIsLeased'
  BY DEF LeaseInv, BoundIsLeased, Stored
<1>4. \A u \in Tasks : Creating(u)' =>
        /\ job'[u].tool = "create"
        /\ leases'[job'[u].cur.host] = job'[u].cur.ws
        /\ bindings'[job'[u].cur.ws] = None /\ job'[u].cur.ws \notin configured'
  BY DEF LeaseInv
<1>5. \A u, v \in Tasks : u # v /\ Creating(u)' /\ Creating(v)' => job'[u].cur.ws # job'[v].cur.ws
  BY DEF LeaseInv
<1>6. \A w \in configured' : bindings'[w] = None
  BY DEF LeaseInv
<1> QED BY <1>2, <1>3, <1>4, <1>5, <1>6 DEF LeaseInv, Removing

(* An invocation that creates or removes lets go of its binding: the lease *)
(* goes back, the store has no binding of that workspace, or gets it from  *)
(* the creator, in which case the lease stays.                             *)
LEMMA BindingLeavesHand ==
  ASSUME TypeOK, LeaseInv, NEW t \in Tasks, UNCHANGED configured,
         Creating(t) \/ pc[t] = "release",
         \/ Creating(t) /\ Release(job[t].cur) /\ UNCHANGED bindings
         \/ Creating(t) /\ UNCHANGED leases /\ Store(job[t].cur)
         \/ pc[t] = "release" /\ Release(job[t].cur) /\ Forget(job[t].cur),
         \A u \in Tasks \ {t} : pc'[u] = pc[u] /\ job'[u] = job[u],
         pc'[t] \in {"idle", "drop"},
         pc'[t] = "drop" => pc[t] = "release" /\ Held(t)' \subseteq Held(t)
  PROVE  LeaseInv'
<1> DEFINE b == job[t].cur
<1>1. b \in Binding /\ b.ws \in Workspaces /\ b.host \in Hosts /\ b # None
  BY LifecycleAssumption DEF TypeOK, Creating, Binding
<1>2. \A u \in Tasks : Creating(u) =>
        job[u].cur \in Binding /\ job[u].cur.host \in Hosts /\ job[u].cur.ws \in Workspaces
  BY DEF TypeOK, Creating, Binding
<1>3. \A u \in Tasks \ {t} : Creating(u) => job[u].cur.ws # b.ws
  <2>1. CASE Creating(t)
    BY <2>1 DEF LeaseInv
  <2>2. CASE pc[t] = "release"
    <3>1. b \in Held(t)
      BY <1>1, <2>2, LifecycleAssumption DEF Held, TypeOK
    <3> QED BY <2>2, <3>1 DEF LeaseInv
  <2> QED BY <2>1, <2>2
<1>4. b.ws \notin configured
  <2>1. CASE Creating(t)
    BY <2>1 DEF LeaseInv
  <2>2. CASE pc[t] = "release"
    <3>1. b \in Held(t)
      BY <1>1, <2>2, LifecycleAssumption DEF Held, TypeOK
    <3> QED BY <2>2, <3>1 DEF LeaseInv
  <2> QED BY <2>1, <2>2
<1>5. \A g \in Hosts : leases[g] # b.ws => leases'[g] = leases[g]
  BY <1>1, LeaseReturns DEF TypeOK, Tables
<1>6. \A w \in Workspaces : w # b.ws => bindings'[w] = bindings[w]
  BY <1>1 DEF TypeOK, Store, Forget
<1>7. \A u \in Tasks : Creating(u)' => u # t /\ Creating(u)
  BY DEF Creating
<1> HIDE DEF b
<1>8. BoundIsLeased'
  <2> SUFFICES ASSUME NEW c \in Stored' PROVE leases'[c.host] = c.ws
    BY DEF BoundIsLeased
  <2>1. PICK w \in Workspaces : c = bindings'[w] /\ c # None
    BY DEF Stored
  <2>2. CASE w # b.ws
    <3>1. c = bindings[w] /\ c \in Stored /\ c.ws = w /\ c.host \in Hosts
      BY <1>6, <2>1, <2>2 DEF Stored, TypeOK, Binding
    <3>2. leases[c.host] = c.ws
      BY <3>1 DEF LeaseInv, BoundIsLeased
    <3> QED BY <1>5, <2>2, <3>1, <3>2
  <2>3. CASE w = b.ws
    <3>1. CASE Creating(t) /\ Release(b) /\ UNCHANGED bindings
      BY <2>1, <2>3, <3>1 DEF LeaseInv, b
    <3>2. CASE Creating(t) /\ UNCHANGED leases /\ Store(b)
      BY <1>1, <2>1, <2>3, <3>2 DEF LeaseInv, b, Store, TypeOK
    <3>3. CASE Forget(b)
      BY <1>1, <2>1, <2>3, <3>3 DEF Forget, TypeOK
    <3> QED BY <3>1, <3>2, <3>3 DEF b
  <2> QED BY <2>2, <2>3
<1>9. \A u \in Tasks : Creating(u)' =>
        /\ job'[u].tool = "create"
        /\ leases'[job'[u].cur.host] = job'[u].cur.ws
        /\ bindings'[job'[u].cur.ws] = None /\ job'[u].cur.ws \notin configured'
  BY <1>2, <1>3, <1>5, <1>6, <1>7 DEF LeaseInv
<1>10. \A u, v \in Tasks : u # v /\ Creating(u)' /\ Creating(v)' => job'[u].cur.ws # job'[v].cur.ws
  BY <1>7 DEF LeaseInv
<1>11. \A u \in Tasks : pc'[u] \in {"drop", "kill", "release"} =>
         \A c \in Held(u)' : c.ws \notin configured' /\ \A v \in Tasks : Creating(v)' => job'[v].cur.ws # c.ws
  <2> SUFFICES ASSUME NEW u \in Tasks, pc'[u] \in {"drop", "kill", "release"}, NEW c \in Held(u)'
               PROVE  c.ws \notin configured' /\ \A v \in Tasks : Creating(v)' => job'[v].cur.ws # c.ws
    OBVIOUS
  <2>1. pc[u] \in {"drop", "kill", "release"} /\ c \in Held(u)
    <3>1. CASE u = t
      BY <3>1
    <3>2. CASE u # t
      BY <3>2 DEF Held
    <3> QED BY <3>1, <3>2
  <2> QED BY <1>7, <2>1 DEF LeaseInv
<1>12. \A w \in configured' : bindings'[w] = None
  BY <1>4, <1>6 DEF LeaseInv, TypeOK
<1>13. \A u \in Tasks : pc'[u] \in {"idle", "boot", "tunnel", "health", "drop", "kill", "release"}
  BY DEF LeaseInv
<1> QED BY <1>8, <1>9, <1>10, <1>11, <1>12, <1>13 DEF LeaseInv

-----------------------------------------------------------------------------
(* What a creator is said to have, it holds.                               *)
LEMMA AccountSuffices ==
  ASSUME TypeOK, Account
  PROVE  LeaseAccounted
<1> SUFFICES ASSUME NEW h \in Hosts, leases[h] # None
             PROVE  \/ bindings[leases[h]] # None /\ bindings[leases[h]].host = h
                    \/ leases[h] \in configured
                    \/ \E t \in Tasks : \E b \in Held(t) : b.ws = leases[h] /\ b.host = h
  BY DEF LeaseAccounted
<1>1. Explained(leases[h], h)
  BY DEF Account
<1>2. \A t \in Tasks : Creating(t) => job[t].cur \in Held(t)
  BY LifecycleAssumption DEF Creating, TypeOK, Held
<1> QED BY <1>1, <1>2 DEF Explained

(* The same three kinds of step, and what they do to the use of leases.    *)

(* A lease begins with its use; or the use passes from the configured      *)
(* workspace, whose only lease it is, to the creator.                      *)
LEMMA LeaseAccounts ==
  ASSUME TypeOK, UseInv, NEW w \in Workspaces, NEW h \in Hosts,
         leases' = Acquired(leases, h, w), Explained(w, h)',
         bindings' = bindings, configured \ {w} \subseteq configured',
         \A g \in Hosts : leases[g] = w => g = h,
         \A u \in Tasks : Creating(u) =>
           /\ Creating(u)'
           /\ job'[u].cur.ws = job[u].cur.ws /\ job'[u].cur.host = job[u].cur.host,
         \A u \in Tasks : pc'[u] \in Removing => pc[u] \in Removing /\ Held(u)' \subseteq Held(u)
  PROVE  UseInv'
<1>1. \A g \in Hosts : leases'[g] = IF g = h THEN w ELSE leases[g]
  BY DEF TypeOK, Acquired
<1>2. ASSUME NEW v \in Workspaces, NEW g \in Hosts, v # w, Explained(v, g)
      PROVE  Explained(v, g)'
  <2>1. CASE bindings[v] # None /\ bindings[v].host = g
    BY <2>1 DEF Explained
  <2>2. CASE v \in configured
    BY <1>2, <2>2 DEF Explained
  <2>3. CASE \E u \in Tasks : Creating(u) /\ job[u].cur.ws = v /\ job[u].cur.host = g
    <3>1. PICK u \in Tasks : Creating(u) /\ job[u].cur.ws = v /\ job[u].cur.host = g
      BY <2>3
    <3>2. Creating(u)' /\ job'[u].cur.ws = v /\ job'[u].cur.host = g
      BY <3>1
    <3> QED BY <3>2 DEF Explained
  <2> QED BY <1>2, <2>1, <2>2, <2>3 DEF Explained
<1>3. ASSUME NEW g \in Hosts, NEW v, leases'[g] = v, v # None
      PROVE  Explained(v, g)'
  <2>1. CASE g = h
    BY <1>1, <1>3, <2>1
  <2>2. CASE g # h
    <3>1. v \in Workspaces /\ v # w /\ Explained(v, g)
      BY <1>1, <1>3, <2>2 DEF UseInv, Account, TypeOK
    <3> QED BY <1>2, <3>1
  <2> QED BY <2>1, <2>2
<1>4. \A g, k \in Hosts : leases'[g] # None /\ leases'[g] = leases'[k] => g = k
  BY <1>1 DEF UseInv
<1>5. \A u \in Tasks : pc'[u] \in Removing =>
        \A b \in Held(u)' : bindings'[b.ws] # None => bindings'[b.ws].host = b.host
  BY DEF UseInv
<1>6. Account'
  BY <1>3 DEF Account, Explained
<1> QED BY <1>4, <1>5, <1>6 DEF UseInv

(* Steps that leave the tables alone.                                      *)
LEMMA TablesAccount ==
  ASSUME TypeOK, UseInv, UNCHANGED <<leases, bindings, configured>>,
         \A u \in Tasks : Creating(u) =>
           /\ Creating(u)'
           /\ job'[u].cur.ws = job[u].cur.ws /\ job'[u].cur.host = job[u].cur.host,
         \A u \in Tasks : pc'[u] \in Removing =>
           \A b \in Held(u)' : (pc[u] \in Removing /\ b \in Held(u)) \/ b \in Stored
  PROVE  UseInv'
<1>1. \A b \in Stored : bindings[b.ws] = b
  BY StoredByName
<1>2. \A w, h : Explained(w, h) => Explained(w, h)'
  BY DEF Explained
<1>3. Account'
  BY <1>2 DEF UseInv, Account
<1>4. \A u \in Tasks : pc'[u] \in Removing =>
        \A b \in Held(u)' : bindings'[b.ws] # None => bindings'[b.ws].host = b.host
  BY <1>1 DEF UseInv
<1> QED BY <1>3, <1>4 DEF UseInv

(* A binding leaves an invocation's hand: its lease goes back with it, or  *)
(* is the stored binding's from now on.                                    *)
LEMMA LeavingAccounts ==
  ASSUME TypeOK, LeaseInv, UseInv, NEW t \in Tasks, UNCHANGED configured,
         Creating(t) \/ pc[t] = "release",
         \/ Creating(t) /\ Release(job[t].cur) /\ UNCHANGED bindings
         \/ Creating(t) /\ UNCHANGED leases /\ Store(job[t].cur)
         \/ pc[t] = "release" /\ Release(job[t].cur) /\ Forget(job[t].cur),
         \A u \in Tasks \ {t} : pc'[u] = pc[u] /\ job'[u] = job[u],
         pc'[t] \in {"idle", "drop"},
         pc'[t] = "drop" => pc[t] = "release" /\ Held(t)' \subseteq Held(t)
  PROVE  UseInv'
<1> DEFINE b == job[t].cur
<1>1. b \in Binding /\ b.ws \in Workspaces /\ b.host \in Hosts /\ b # None
  BY LifecycleAssumption DEF TypeOK, Creating, Binding
<1>2. pc[t] = "release" => b \in Held(t)
  BY <1>1, LifecycleAssumption DEF Held, TypeOK
<1>3. /\ \A u \in Tasks \ {t} : Creating(u) => job[u].cur.ws # b.ws /\ Creating(u)' /\ job'[u] = job[u]
      /\ b.ws \notin configured
  BY <1>2 DEF LeaseInv, Creating
<1>4. bindings[b.ws] # None => bindings[b.ws].host = b.host
  BY <1>2 DEF UseInv, LeaseInv, Removing
<1>5. \A w \in Workspaces : w # b.ws => bindings'[w] = bindings[w]
  BY <1>1 DEF TypeOK, Store, Forget
<1>6. \A g \in Hosts : leases'[g] # None => leases'[g] = leases[g]
  BY <1>1, LeaseReturns DEF TypeOK, Tables
<1>7. ASSUME NEW w \in Workspaces, NEW g \in Hosts, w # b.ws, Explained(w, g)
      PROVE  Explained(w, g)'
  <2>1. CASE bindings[w] # None /\ bindings[w].host = g
    BY <1>5, <1>7, <2>1 DEF Explained
  <2>2. CASE w \in configured
    BY <2>2 DEF Explained
  <2>3. CASE \E u \in Tasks : Creating(u) /\ job[u].cur.ws = w /\ job[u].cur.host = g
    <3>1. PICK u \in Tasks : Creating(u) /\ job[u].cur.ws = w /\ job[u].cur.host = g
      BY <2>3
    <3>2. Creating(u)' /\ job'[u].cur.ws = w /\ job'[u].cur.host = g
      BY <1>3, <1>7, <3>1
    <3> QED BY <3>2 DEF Explained
  <2> QED BY <1>7, <2>1, <2>2, <2>3 DEF Explained
<1>8. ASSUME NEW g \in Hosts, NEW w, leases'[g] = w, w # None
      PROVE  Explained(w, g)'
  <2>1. leases[g] = w /\ w \in Workspaces /\ Explained(w, g)
    BY <1>6, <1>8 DEF UseInv, Account, TypeOK
  <2>2. CASE w # b.ws
    BY <1>7, <2>1, <2>2
  <2>3. CASE w = b.ws
    <3>1. g = b.host
      <4>1. ASSUME NEW u \in Tasks, Creating(u), job[u].cur.ws = b.ws, job[u].cur.host = g
            PROVE  g = b.host
        BY <1>3, <4>1
      <4> QED BY <1>3, <1>4, <2>1, <2>3, <4>1 DEF Explained
    <3>2. ~ Release(b)
      BY <1>1, <1>8, <2>3, <3>1 DEF Release, Released, TypeOK
    <3>3. bindings'[b.ws] = b
      BY <1>1, <3>2 DEF Store, TypeOK
    <3> QED BY <1>1, <2>1, <2>3, <3>1, <3>3 DEF Explained
  <2> QED BY <2>2, <2>3
<1>9. \A g, h \in Hosts : leases'[g] # None /\ leases'[g] = leases'[h] => g = h
  BY <1>6 DEF UseInv
<1>10. ASSUME NEW u \in Tasks, pc'[u] \in Removing, NEW c \in Held(u)', bindings'[c.ws] # None
       PROVE  bindings'[c.ws].host = c.host
  <2>1. pc[u] \in Removing /\ c \in Held(u)
    BY <1>10 DEF Held, Removing
  <2>2. c \in Binding /\ c.ws \in Workspaces
    BY <2>1, LifecycleAssumption DEF Held, TypeOK, Job, Binding
  <2>3. CASE c.ws = b.ws
    <3>1. ~ Creating(t)
      BY <2>1, <2>3 DEF LeaseInv, Removing
    <3>2. bindings'[b.ws] = None
      BY <1>1, <3>1 DEF Forget, TypeOK
    <3> QED BY <1>10, <2>3, <3>2
  <2>4. CASE c.ws # b.ws
    BY <1>5, <1>10, <2>1, <2>2, <2>4 DEF UseInv
  <2> QED BY <2>3, <2>4
<1>11. Account'
  BY <1>8 DEF Account, Explained
<1> QED BY <1>9, <1>10, <1>11 DEF UseInv

-----------------------------------------------------------------------------
(* No step breaks the invariant, none takes a lease over, and, unless a    *)
(* configured workspace is given up, none leaves a lease behind.           *)
LEMMA LeaseSteps ==
  ASSUME Tools \subseteq OwnerTools, TypeOK, LeaseInv, [Next]_vars
  PROVE  /\ LeaseInv'
         /\ \A h \in Hosts : leases[h] # None => leases'[h] \in {leases[h], None}
         /\ UseInv /\ "abandon" \notin Tools => UseInv'
<1> DEFINE Uses == UseInv /\ "abandon" \notin Tools => UseInv'
<1> DEFINE Kept == \A h \in Hosts : leases[h] # None => leases'[h] \in {leases[h], None}
<1> USE DEF plugin, remote
<1>t. leases \in Tables
  BY DEF TypeOK, Tables
<1>l. \A t \in Tasks : pc[t] \in {"idle", "boot", "tunnel", "health"} \cup Removing
  BY DEF LeaseInv, Removing
<1>c. \A t \in Tasks : Creating(t) => job[t].cur \in Binding
  BY DEF TypeOK, Creating
<1>0. ASSUME UseInv, NEW t \in Tasks, NEW arg, NEW w \in Workspaces, NEW h \in Hosts,
             pc[t] = "idle", Acquire(t, "create", arg, w, h), bindings' = bindings,
             configured \ {w} \subseteq configured', \A g \in Hosts : leases[g] = w => g = h
      PROVE  UseInv'
  <2> DEFINE j == [tool |-> "create", arg |-> arg, todo |-> {}, cur |-> NewBinding(w, h), made |-> TRUE]
  <2>1. /\ pc'[t] = "boot" /\ job'[t] = j
        /\ \A u \in Tasks \ {t} : pc'[u] = pc[u] /\ job'[u] = job[u]
    BY <1>0, OneMoves DEF Acquire
  <2>2. j.cur.ws = w /\ j.cur.host = h
    BY DEF NewBinding
  <2> HIDE DEF j
  <2>3. Explained(w, h)'
    BY <2>1, <2>2 DEF Explained, Creating
  <2>4. \A u \in Tasks : Creating(u) =>
          /\ Creating(u)'
          /\ job'[u].cur.ws = job[u].cur.ws /\ job'[u].cur.host = job[u].cur.host
    BY <1>0, <2>1 DEF Creating
  <2>5. \A u \in Tasks : pc'[u] \in Removing => pc[u] \in Removing /\ Held(u)' \subseteq Held(u)
    BY <2>1 DEF Removing, Held
  <2>6. leases' = Acquired(leases, h, w)
    BY <1>0 DEF Acquire
  <2> QED BY <1>0, <2>3, <2>4, <2>5, <2>6, LeaseAccounts
<1>1. ASSUME NEW t \in Tasks, NEW arg \in Hosts \cup {None, Unknown}, NEW w \in Workspaces, NEW h \in Hosts,
             CreateStart(t, arg, w, h)
      PROVE  LeaseInv' /\ Kept /\ Uses
  <2>1. \A u \in Tasks : Creating(u) => job[u].cur.ws # w
    BY <1>1, <1>c, LifecycleAssumption DEF CreateStart, Fresh, Held, TypeOK, Creating
  <2>2. LeaseInv'
    BY <1>1, <2>1, CreationBegins DEF CreateStart, Fresh
  <2>3. Kept
    BY <1>1, <1>t, LeaseMoves DEF CreateStart, Acquire
  <2>4. \A g \in Hosts : leases[g] # w
    BY <1>1 DEF CreateStart, Fresh
  <2>5. Uses
    BY <1>1, <2>4, <1>0 DEF CreateStart
  <2> QED BY <2>2, <2>3, <2>5
<1>2. ASSUME NEW t \in Tasks, NEW w \in Workspaces, NEW h \in Hosts, AdapterCreate(t, w, h)
      PROVE  LeaseInv' /\ Kept /\ Uses
  <2>1. /\ bindings[w] = None
        /\ \A u \in Tasks : Creating(u) => job[u].cur.ws # w
        /\ \A u \in Tasks : pc[u] \in {"drop", "kill", "release"} => \A b \in Held(u) : b.ws # w
    BY <1>2 DEF AdapterCreate, LeaseInv
  <2>2. LeaseInv'
    BY <1>2, <2>1, CreationBegins DEF AdapterCreate
  <2>3. Kept
    BY <1>2, <1>t, LeaseMoves DEF AdapterCreate, Acquire
  <2>4. UseInv => \A g \in Hosts : leases[g] = w => g = h
    BY <1>2, LifecycleAssumption DEF AdapterCreate, UseInv
  <2>5. Uses
    BY <1>2, <2>4, <1>0 DEF AdapterCreate
  <2> QED BY <2>2, <2>3, <2>5
<1>3. ASSUME NEW t \in Tasks, Creating(t), BootFails(t)
      PROVE  LeaseInv' /\ Kept /\ Uses
  <2>1. /\ pc'[t] = "idle"
        /\ \A u \in Tasks \ {t} : pc'[u] = pc[u] /\ job'[u] = job[u]
    BY <1>3, OneMoves DEF BootFails, Finish
  <2>2. LeaseInv'
    BY <1>3, <2>1, BindingLeavesHand DEF BootFails
  <2>3. Kept
    BY <1>3, <1>c, <1>t, LeaseReturns DEF BootFails
  <2>4. Uses
    BY <1>3, <2>1, LeavingAccounts DEF BootFails
  <2> QED BY <2>2, <2>3, <2>4
<1>4. ASSUME NEW t \in Tasks, UNCHANGED plugin,
             \A u \in Tasks \ {t} : pc'[u] = pc[u] /\ job'[u] = job[u],
             \/ pc'[t] = "idle" /\ ~ Creating(t)
             \/ /\ pc'[t] \in {"tunnel", "health"} /\ Creating(t) /\ job'[t].tool = job[t].tool
                /\ job'[t].cur.ws = job[t].cur.ws /\ job'[t].cur.host = job[t].cur.host
             \/ /\ pc'[t] \in Removing /\ ~ Creating(t)
                /\ \A b \in Held(t)' : (pc[t] \in Removing /\ b \in Held(t)) \/ b \in Stored
      PROVE  LeaseInv' /\ Kept /\ Uses
  <2>1. \A u \in Tasks : pc'[u] \in {"idle", "boot", "tunnel", "health"} \cup Removing
    BY <1>4, <1>l
  <2>2. \A u \in Tasks : Creating(u)' =>
          /\ Creating(u) /\ job'[u].tool = job[u].tool
          /\ job'[u].cur.ws = job[u].cur.ws /\ job'[u].cur.host = job[u].cur.host
    BY <1>4 DEF Creating, Removing
  <2>3. \A u \in Tasks : pc'[u] \in Removing =>
          \A b \in Held(u)' : (pc[u] \in Removing /\ b \in Held(u)) \/ b \in Stored
    BY <1>4 DEF Held, Removing
  <2>4. LeaseInv'
    BY <1>4, <2>1, <2>2, <2>3, TablesStay
  <2>5. \A u \in Tasks : Creating(u) =>
          /\ Creating(u)'
          /\ job'[u].cur.ws = job[u].cur.ws /\ job'[u].cur.host = job[u].cur.host
    BY <1>4 DEF Creating
  <2>6. Uses
    BY <1>4, <2>3, <2>5, TablesAccount
  <2> QED BY <1>4, <2>4, <2>6
<1>5. ASSUME NEW t \in Tasks, StartStub(t)
      PROVE  LeaseInv' /\ Kept /\ Uses
  <2>1. Creating(t) /\ pc[t] = "boot"
    BY <1>5 DEF StartStub, Creating
  <2>2. CASE BootFails(t)
    BY <2>1, <2>2, <1>3
  <2>3. CASE Goto(t, "tunnel") /\ UNCHANGED plugin
    <3>1. /\ pc'[t] = "tunnel" /\ job'[t] = job[t]
          /\ \A u \in Tasks \ {t} : pc'[u] = pc[u] /\ job'[u] = job[u]
      BY <2>3 DEF Goto, TypeOK
    <3> QED BY <2>1, <2>3, <3>1, <1>4
  <2> QED BY <1>5, <2>2, <2>3 DEF StartStub
<1>6. ASSUME NEW t \in Tasks, OpenTunnel(t)
      PROVE  LeaseInv' /\ Kept /\ Uses
  <2>1. Creating(t) /\ job[t] \in Job /\ job[t].cur \in Binding
    BY <1>6 DEF OpenTunnel, Creating, TypeOK
  <2>2. ASSUME NEW n \in FreeTunnels, UNCHANGED plugin,
               Enter(t, "health", [job[t] EXCEPT !.cur = [@ EXCEPT !.tunnel = n]])
        PROVE  LeaseInv' /\ Kept /\ Uses
    <3> DEFINE j == [job[t] EXCEPT !.cur = [@ EXCEPT !.tunnel = n]]
    <3>1. j.tool = job[t].tool /\ j.cur.ws = job[t].cur.ws /\ j.cur.host = job[t].cur.host
      BY <2>1 DEF Job, Binding
    <3>2. Enter(t, "health", j)
      BY <2>2
    <3> HIDE DEF j
    <3> QED BY <2>1, <2>2, <3>1, <3>2, OneMoves, <1>4
  <2>3. CASE BootFails(t)
    BY <2>1, <2>3, <1>3
  <2> QED BY <1>6, <2>2, <2>3 DEF OpenTunnel
<1>7. ASSUME NEW t \in Tasks, AwaitHealth(t)
      PROVE  LeaseInv' /\ Kept /\ Uses
  <2>1. Creating(t) /\ job[t].tool = "create"
    BY <1>7 DEF AwaitHealth, Creating, LeaseInv
  <2>2. CASE BootFails(t)
    BY <2>1, <2>2, <1>3
  <2>3. CASE Store(job[t].cur) /\ Finish(t) /\ UNCHANGED <<leases, configured>>
    <3>1. /\ pc'[t] = "idle"
          /\ \A u \in Tasks \ {t} : pc'[u] = pc[u] /\ job'[u] = job[u]
      BY <2>3, OneMoves DEF Finish
    <3> QED BY <2>1, <2>3, <3>1, BindingLeavesHand, LeavingAccounts
  <2> QED BY <1>7, <2>1, <2>2, <2>3 DEF AwaitHealth
<1>8. ASSUME NEW t \in Tasks, NEW tool, NEW todo \in SUBSET Stored, RemoveStart(t, tool, todo)
      PROVE  LeaseInv' /\ Kept /\ Uses
  <2> DEFINE j == [tool |-> tool, arg |-> None, todo |-> todo, cur |-> None, made |-> FALSE]
  <2>1. /\ pc'[t] = "drop" /\ job'[t] = j /\ UNCHANGED plugin
        /\ \A u \in Tasks \ {t} : pc'[u] = pc[u] /\ job'[u] = job[u]
    BY <1>8, OneMoves DEF RemoveStart
  <2>2. Held(t)' \subseteq Stored
    BY <2>1 DEF Held
  <2>3. ~ Creating(t)
    BY <1>8 DEF RemoveStart, Creating
  <2> QED BY <2>1, <2>2, <2>3, <1>4 DEF Removing
<1>9. ASSUME NEW t \in Tasks, NEW b \in job[t].todo, pc[t] = "drop", Unregister(t, b)
      PROVE  LeaseInv' /\ Kept /\ Uses
  <2> DEFINE j == [job[t] EXCEPT !.todo = @ \ {b}, !.cur = b]
  <2>1. job[t] \in Job
    BY <1>9 DEF TypeOK
  <2>2. j.todo = job[t].todo \ {b} /\ j.cur = b
    BY <2>1 DEF Job
  <2>3. Enter(t, "kill", j) /\ UNCHANGED plugin
    BY <1>9 DEF Unregister
  <2> HIDE DEF j
  <2>4. /\ pc'[t] = "kill" /\ job'[t] = j
        /\ \A u \in Tasks \ {t} : pc'[u] = pc[u] /\ job'[u] = job[u]
    BY <2>3, OneMoves
  <2>5. Held(t)' \subseteq Held(t)
    BY <1>9, <2>1, <2>2, <2>4, LifecycleAssumption DEF Held
  <2> QED BY <1>9, <2>3, <2>4, <2>5, <1>4 DEF Removing, Creating
<1>10. ASSUME NEW t \in Tasks, KillTunnel(t)
       PROVE  LeaseInv' /\ Kept /\ Uses
  <2>1. pc[t] = "kill" /\ UNCHANGED plugin /\ (Goto(t, "release") \/ Finish(t))
    BY <1>10 DEF KillTunnel
  <2>2. CASE Finish(t)
    BY <2>1, <2>2, OneMoves, <1>4 DEF Finish, Creating
  <2>3. CASE Goto(t, "release")
    <3>1. /\ pc'[t] = "release" /\ job' = job
          /\ \A u \in Tasks \ {t} : pc'[u] = pc[u] /\ job'[u] = job[u]
      BY <2>3 DEF Goto, TypeOK
    <3>2. Held(t)' = Held(t)
      BY <3>1 DEF Held
    <3> QED BY <2>1, <3>1, <3>2, <1>4 DEF Removing, Creating
  <2> QED BY <2>1, <2>2, <2>3
<1>11. ASSUME NEW t \in Tasks, Drop(t)
       PROVE  LeaseInv' /\ Kept /\ Uses
  <2> DEFINE j == [job[t] EXCEPT !.cur = None]
  <2>1. job[t] \in Job /\ job[t].cur \in Binding /\ pc[t] = "release"
    BY <1>11 DEF Drop, TypeOK
  <2>2. j.todo = job[t].todo /\ j.cur = None
    BY <2>1 DEF Job
  <2>3. Enter(t, "drop", j)
    BY <1>11 DEF Drop
  <2> HIDE DEF j
  <2>4. /\ pc'[t] = "drop" /\ job'[t] = j
        /\ \A u \in Tasks \ {t} : pc'[u] = pc[u] /\ job'[u] = job[u]
    BY <2>3, OneMoves
  <2>5. Held(t)' \subseteq Held(t)
    BY <2>1, <2>2, <2>4, LifecycleAssumption DEF Held
  <2>6. LeaseInv'
    BY <1>11, <2>1, <2>4, <2>5, BindingLeavesHand DEF Drop
  <2>7. Kept
    BY <1>11, <1>t, <2>1, LeaseReturns DEF Drop
  <2>8. Uses
    BY <1>11, <2>1, <2>4, <2>5, LeavingAccounts DEF Drop
  <2> QED BY <2>6, <2>7, <2>8
<1>12. ASSUME NEW t \in Tasks, DropEnd(t)
       PROVE  LeaseInv' /\ Kept /\ Uses
  BY <1>12, OneMoves, <1>4 DEF DropEnd, Finish, Creating
<1>13. ASSUME NEW t \in Tasks, Invoke(t)
       PROVE  LeaseInv' /\ Kept /\ Uses
  <2>1. \A tool \in ToolNames, arg \in Hosts \cup {None, Unknown} : ~ SwitchStart(t, tool, arg)
    BY DEF SwitchStart, OwnerTools
  <2>2. \A tool \in ToolNames, todo \in SUBSET Stored : ~ ScanStart(t, tool, todo)
    BY DEF ScanStart, OwnerTools
  <2> QED BY <1>13, <1>1, <1>2, <1>8, <2>1, <2>2 DEF Invoke
<1>14. ASSUME NEW t \in Tasks, Proceed(t)
       PROVE  LeaseInv' /\ Kept /\ Uses
  <2>1. pc[t] \in {"idle", "boot", "tunnel", "health", "drop", "kill", "release"}
    BY DEF LeaseInv
  <2>2. ~ Register(t) /\ ~ MakeSession(t) /\ ~ FindNone(t) /\ ~ ScanEnd(t) /\ ~ DoctorCheck(t)
    BY <2>1 DEF Register, MakeSession, FindNone, ScanEnd, DoctorCheck
  <2> QED BY <1>14, <1>5, <1>6, <1>7, <1>9, <1>10, <1>11, <1>12, <2>1, <2>2 DEF Proceed
<1>15. ASSUME NEW w \in Workspaces, NEW arg \in Hosts \cup {None, Unknown}, NEW h \in Hosts, Configure(w, arg, h)
       PROVE  LeaseInv' /\ Kept /\ Uses
  <2>1. /\ bindings[w] = None
        /\ \A u \in Tasks : \A b \in Held(u) : b.ws # w
    BY <1>15 DEF Configure, Fresh
  <2>2. \A u \in Tasks : Creating(u) => job[u].cur.ws # w /\ job[u].cur.host \in Hosts /\ job[u].cur.ws \in Workspaces
    BY <2>1, <1>c, LifecycleAssumption DEF Held, TypeOK, Creating, Binding
  <2>3. Kept /\ \A g \in Hosts : leases[g] # None => leases'[g] = leases[g]
    BY <1>15, <1>t, LeaseMoves DEF Configure
  <2>4. BoundIsLeased'
    <3>1. \A b \in Stored : b.host \in Hosts /\ b.ws # None
      BY StoredByName, LifecycleAssumption DEF Binding
    <3> QED BY <1>15, <2>3, <3>1 DEF Configure, LeaseInv, BoundIsLeased, Stored
  <2>5. LeaseInv'
    BY <1>15, <2>1, <2>2, <2>3, <2>4, LifecycleAssumption DEF Configure, LeaseInv, Creating, Held
  <2>6. Explained(w, h)'
    BY <1>15 DEF Configure, Explained
  <2>7. \A g \in Hosts : leases[g] # w
    BY <1>15 DEF Configure, Fresh
  <2>8. Uses
    BY <1>15, <2>6, <2>7, LeaseAccounts DEF Configure, Creating, Held
  <2> QED BY <2>3, <2>5, <2>8
<1>16. ASSUME NEW w \in Workspaces, RemoveConfigured(w)
       PROVE  LeaseInv' /\ Kept /\ Uses
  <2>1. UNCHANGED <<leases, bindings, pc, job>> /\ configured' \subseteq configured
    BY <1>16 DEF RemoveConfigured
  <2>2. Uses
    BY <1>16 DEF RemoveConfigured
  <2> QED BY <2>1, <2>2, <1>l, TablesStay DEF Creating, Held
<1>17. CASE \/ \E n \in Tunnels : TunnelDies(n)
            \/ \E h \in Hosts : Reboot(h)
            \/ UNCHANGED vars
  <2>1. UNCHANGED <<leases, bindings, configured, pc, job>>
    BY <1>17 DEF TunnelDies, Reboot, vars
  <2>2. Uses
    BY <2>1, TablesAccount DEF Creating, Held
  <2> QED BY <2>1, <2>2, <1>l, TablesStay DEF Creating, Held
<1>18. CASE Restart
  <2>1. \A b \in Stored : b.host \in Hosts /\ b.ws # None
    BY StoredByName, LifecycleAssumption DEF Binding
  <2>2. ASSUME NEW b \in Stored
        PROVE  \E c \in Stored : c.host = b.host /\ leases'[b.host] = c.ws
    <3> DEFINE ws(h) == {c.ws : c \in {d \in Stored : d.host = h}}
    <3>1. \A h \in Hosts : leases'[h] \in IF ws(h) = {} THEN {None} ELSE ws(h)
      BY <1>18 DEF Restart, Restored
    <3>2. b.ws \in ws(b.host)
      OBVIOUS
    <3>3. leases'[b.host] \in ws(b.host)
      <4> HIDE DEF ws
      <4> QED BY <2>1, <3>1, <3>2
    <3> QED BY <3>3
  <2>3. \A h \in Hosts : leases'[h] = None \/ \E c \in Stored : c.host = h /\ leases'[h] = c.ws
    BY <1>18 DEF Restart, Restored
  <2>4. Kept
    BY <2>3 DEF LeaseInv, BoundIsLeased
  <2>5. BoundIsLeased'
    BY <1>18, <2>2 DEF Restart, LeaseInv, BoundIsLeased, Stored
  <2>6. LeaseInv'
    BY <1>18, <2>5 DEF Restart, LeaseInv, Creating
  <2>7. \A c \in Stored : c.ws \in Workspaces /\ bindings[c.ws] = c /\ c # None
    BY StoredByName, LifecycleAssumption DEF Binding
  <2>8. Account'
    BY <1>18, <2>3, <2>7 DEF Restart, Account, Explained
  <2>9. UseInv'
    BY <1>18, <2>3, <2>7, <2>8 DEF Restart, UseInv, Removing
  <2> QED BY <2>4, <2>6, <2>9
<1>19. CASE CutOff
  <2>1. Kept
    BY <1>19 DEF CutOff
  <2>2. Stored' = {}
    BY <1>19 DEF CutOff, Stored
  <2>3. LeaseInv'
    BY <1>19, <2>2 DEF CutOff, LeaseInv, BoundIsLeased, Creating
  <2>4. UseInv'
    BY <1>19 DEF CutOff, UseInv, Account, Removing
  <2> QED BY <2>1, <2>3, <2>4
<1> QED
  BY <1>13, <1>14, <1>15, <1>16, <1>17, <1>18, <1>19 DEF Next

(* The strengthening holds with any number of invocations in flight: a     *)
(* lease goes unbroken from the invocation that acquires it                *)
(* (acquireResolved) to the binding it stores (setBinding), and whoever    *)
(* removes a binding has none in hand whose id is being created.           *)
THEOREM LeaseInvariant ==
  ASSUME Tools \subseteq OwnerTools
  PROVE  Spec => [](TypeOK /\ LeaseInv)
<1>1. Init => LeaseInv
  BY DEF Init, LeaseInv, BoundIsLeased, Stored, Creating, Held
<1>2. TypeOK /\ LeaseInv /\ [Next]_vars => LeaseInv'
  BY LeaseSteps
<1> QED
  BY <1>1, <1>2, TypeCorrect, PTL DEF Spec

(* Whatever invocations overlap and fail, a stored binding holds its       *)
(* host's lease (acquire, release by its owner alone, rehydrate).          *)
THEOREM BindingsAreLeased ==
  ASSUME Tools \subseteq OwnerTools
  PROVE  Spec => []BoundIsLeased
<1>1. TypeOK /\ LeaseInv => BoundIsLeased
  BY LeaseInvSuffices
<1> QED
  BY <1>1, LeaseInvariant, PTL

(* A creation in progress has its host to itself, from acquireResolved to  *)
(* setBinding or the release in its catch.                                 *)
THEOREM CreatorsAreAlone ==
  ASSUME Tools \subseteq OwnerTools
  PROVE  Spec => []SoleUser
<1>1. TypeOK /\ LeaseInv => SoleUser
  BY LeaseInvSuffices
<1> QED
  BY <1>1, LeaseInvariant, PTL

(* No step hands a lease from one workspace to another, and neither does a *)
(* restart, which rebuilds the table from the bindings.                    *)
THEOREM LeasesAreNotTakenOver ==
  ASSUME Tools \subseteq OwnerTools
  PROVE  Spec => NoTakeover
<1>1. TypeOK /\ LeaseInv /\ [Next]_vars =>
        [\A h \in Hosts : leases[h] # None => leases'[h] \in {leases[h], None}]_vars
  BY LeaseSteps
<1> QED
  BY <1>1, LeaseInvariant, PTL DEF Spec, NoTakeover

(* No lease outlives its use, whatever invocations overlap and fail and    *)
(* whenever OpenCode ends, unless it removes a workspace it has configured *)
(* and not created (the release in every catch, removeBinding, and         *)
(* configureWorkspace, whose lease nothing else would give back).          *)
THEOREM OverlapLeavesNoLease ==
  ASSUME Tools \subseteq OwnerTools \ {"abandon"}
  PROVE  Spec => []LeaseAccounted
<1>1. Init => UseInv
  BY DEF Init, UseInv, Account, Removing
<1>2. TypeOK /\ LeaseInv /\ UseInv /\ [Next]_vars => UseInv'
  BY LeaseSteps
<1>3. TypeOK /\ UseInv => LeaseAccounted
  BY AccountSuffices DEF UseInv
<1>4. Spec => [](TypeOK /\ LeaseInv)
  BY LeaseInvariant
<1> QED
  BY <1>1, <1>2, <1>3, <1>4, PTL DEF Spec
=============================================================================
