----------------------- MODULE PluginSequentialProofs -----------------------
(***************************************************************************)
(* One invocation at a time, with every tool: no lease is lost or left     *)
(* behind, and no binding that works is given up, whatever dies, reboots   *)
(* or restarts between and during invocations, for any number of hosts,    *)
(* workspaces and tunnels.                                                 *)
(*                                                                         *)
(* That invocations do not overlap is a hypothesis and not the code's      *)
(* guarantee: with two in flight the statements are false for the tools    *)
(* that check and reuse bindings (run PluginLifecycle_resurrection).       *)
(***************************************************************************)
EXTENDS PluginLifecycleProofs

Sequential == \A t, u \in Tasks : t = u

-----------------------------------------------------------------------------
(* The strengthening.  No workspace has two leases; a creator has the      *)
(* lease of its host, for a workspace the store does not know; and what an *)
(* invocation read from the store is still there when it comes to use it,  *)
(* but for the tunnel of a binding it has recovered and not yet stored,    *)
(* whose old tunnel is dead, unless the probe only found it stalled.       *)
TableInv ==
  /\ BoundIsLeased
  /\ \A g, h \in Hosts : leases[g] # None /\ leases[g] = leases[h] => g = h
  /\ \A w \in configured : bindings[w] = None

CreatorInv(t) ==
  Creating(t) =>
    /\ leases[job[t].cur.host] = job[t].cur.ws
    /\ bindings[job[t].cur.ws] = None /\ job[t].cur.ws \notin configured

Stalls == "stall" \in Faults
Leads(b) == b.tunnel # None /\ tunnels[b.tunnel] = b.host
Apart(S, b) == \A c \in S : c.ws # b.ws
InHand(t) ==
  /\ pc[t] \in {"find", "reuse", "session", "scan", "recover", "drop", "kill", "release"} =>
       job[t].todo \subseteq Stored
  /\ pc[t] \in {"reuse", "recover", "kill", "release", "check"} => job[t].cur \in Stored
  /\ pc[t] \in {"reuse", "session", "kill", "release"} => Apart(job[t].todo, job[t].cur)
  /\ pc[t] = "session" =>
       LET b == bindings[job[t].cur.ws] IN
       b # None /\ b.host = job[t].cur.host /\ (b = job[t].cur \/ ~ Leads(b) \/ Stalls)

SeqInv == TableInv /\ \A t \in Tasks : CreatorInv(t) /\ InHand(t)

-----------------------------------------------------------------------------
(* What the steps do to the tables, and what follows for them.             *)

(* One binding to a workspace.                                             *)
LEMMA StoredTwice ==
  ASSUME TypeOK, NEW b \in Stored, NEW c \in Stored, b.ws = c.ws
  PROVE  b = c
  BY StoredByName

(* The store without the binding that was deleted.                         *)
LEMMA AfterForget ==
  ASSUME TypeOK, NEW b \in Binding, Forget(b)
  PROVE  /\ bindings'[b.ws] = None
         /\ \A w \in Workspaces : w # b.ws => bindings'[w] = bindings[w]
         /\ Stored' = {c \in Stored : c.ws # b.ws}
<1>1. /\ bindings'[b.ws] = None
      /\ \A w \in Workspaces : w # b.ws => bindings'[w] = bindings[w]
  BY DEF TypeOK, Forget, Binding
<1>2. \A w \in Workspaces : bindings[w] # None => bindings[w].ws = w
  BY DEF TypeOK
<1>3. Stored' = {bindings'[w] : w \in Workspaces} \ {None}
  BY DEF Stored
<1> QED BY <1>1, <1>2, <1>3 DEF Stored, Binding

(* The store with the binding that was stored.                             *)
LEMMA AfterStore ==
  ASSUME TypeOK, NEW b \in Binding, Store(b)
  PROVE  /\ bindings'[b.ws] = b
         /\ \A w \in Workspaces : w # b.ws => bindings'[w] = bindings[w]
         /\ Stored' = {c \in Stored : c.ws # b.ws} \cup {b}
<1>1. /\ bindings'[b.ws] = b /\ b # None /\ b.ws \in Workspaces
      /\ \A w \in Workspaces : w # b.ws => bindings'[w] = bindings[w]
  BY LifecycleAssumption DEF TypeOK, Store, Binding
<1>2. \A w \in Workspaces : bindings[w] # None => bindings[w].ws = w
  BY DEF TypeOK
<1>3. Stored' = {bindings'[w] : w \in Workspaces} \ {None}
  BY DEF Stored
<1> QED BY <1>1, <1>2, <1>3 DEF Stored

(* The tables stay, and a creation goes on or there is none.               *)
LEMMA Unmoved ==
  ASSUME TypeOK, TableInv, UNCHANGED <<leases, bindings, configured>>,
         \A t \in Tasks : Creating(t)' <=> Creating(t),
         \A t \in Tasks : Creating(t) =>
           CreatorInv(t) /\ job'[t].cur.ws = job[t].cur.ws /\ job'[t].cur.host = job[t].cur.host
  PROVE  /\ Stored' = Stored
         /\ TableInv' /\ \A t \in Tasks : CreatorInv(t)'
         /\ Account => Account'
<1>1. Stored' = Stored
  BY DEF Stored
<1>2. TableInv'
  BY <1>1 DEF TableInv, BoundIsLeased
<1>3. \A t \in Tasks : CreatorInv(t)'
  BY DEF CreatorInv
<1>4. ASSUME Account
      PROVE  Account'
  BY <1>4 DEF Account, Explained
<1> QED BY <1>1, <1>2, <1>3, <1>4

(* A lease is taken for a workspace without a binding.                     *)
LEMMA Taken ==
  ASSUME TypeOK, TableInv, NEW w \in Workspaces, NEW h \in Hosts, NEW cands,
         h \in Selectable(leases, w, cands), leases' = Acquired(leases, h, w),
         bindings' = bindings, bindings[w] = None,
         leases[h] = w \/ \A g \in Hosts : leases[g] # w
  PROVE  /\ leases'[h] = w /\ \A g \in Hosts : leases[g] # None => leases'[g] = leases[g]
         /\ \A g \in Hosts \ {h} : leases'[g] = leases[g] /\ leases[g] # w
         /\ BoundIsLeased' /\ Stored' = Stored
         /\ \A f, g \in Hosts : leases'[f] # None /\ leases'[f] = leases'[g] => f = g
<1>1. leases \in Tables
  BY DEF TypeOK, Tables
<1>2. leases'[h] = w /\ \A g \in Hosts : leases[g] # None => leases'[g] = leases[g]
  BY <1>1, LeaseMoves
<1>3. w # None /\ \A g \in Hosts \ {h} : leases'[g] = leases[g]
  BY <1>1, LifecycleAssumption DEF Tables, Acquired
<1>4. \A g \in Hosts \ {h} : leases[g] # w
  BY <1>3 DEF TableInv
<1>5. Stored' = Stored
  BY DEF Stored
<1>6. \A b \in Stored : b.host \in Hosts /\ b.ws # None
  BY StoredByName, LifecycleAssumption DEF Binding
<1>7. BoundIsLeased'
  BY <1>2, <1>5, <1>6 DEF TableInv, BoundIsLeased
<1>8. \A f, g \in Hosts : leases'[f] # None /\ leases'[f] = leases'[g] => f = g
  BY <1>2, <1>3, <1>4 DEF TableInv
<1> QED BY <1>2, <1>3, <1>4, <1>5, <1>7, <1>8

(* A lease goes back and the binding, if there was one, is forgotten.      *)
LEMMA GivenUp ==
  ASSUME TypeOK, TableInv, NEW b \in Binding, leases[b.host] = b.ws,
         Release(b), Forget(b) \/ (bindings' = bindings /\ bindings[b.ws] = None),
         configured' = configured,
         \A t \in Tasks : Creating(t) => job[t].cur.ws = b.ws,
         \A t \in Tasks : ~ Creating(t)'
  PROVE  /\ TableInv' /\ \A t \in Tasks : CreatorInv(t)'
         /\ Account => Account'
<1>1. leases \in Tables /\ b.ws \in Workspaces /\ b.host \in Hosts /\ None \notin Workspaces
  BY LifecycleAssumption DEF TypeOK, Tables, Binding
<1>2. leases'[b.host] = None /\ \A g \in Hosts \ {b.host} : leases'[g] = leases[g] /\ leases[g] # b.ws
  BY <1>1 DEF Release, Released, Tables, TableInv
<1>3. /\ bindings'[b.ws] = None
      /\ \A w \in Workspaces : w # b.ws => bindings'[w] = bindings[w]
      /\ Stored' \subseteq {c \in Stored : c.ws # b.ws}
  <2>1. CASE Forget(b)
    BY <2>1, AfterForget
  <2>2. CASE bindings' = bindings /\ bindings[b.ws] = None
    BY <2>2, StoredByName, LifecycleAssumption DEF Stored
  <2> QED BY <2>1, <2>2
<1>4. BoundIsLeased'
  <2> SUFFICES ASSUME NEW c \in Stored' PROVE leases'[c.host] = c.ws
    BY DEF BoundIsLeased
  <2>1. c \in Binding /\ c.host \in Hosts /\ c.ws # b.ws /\ leases[c.host] = c.ws
    BY <1>3, StoredByName DEF TableInv, BoundIsLeased, Binding
  <2> QED BY <1>2, <2>1
<1>5. \A g, h \in Hosts : leases'[g] # None /\ leases'[g] = leases'[h] => g = h
  BY <1>2 DEF TableInv
<1>6. \A w \in configured' : bindings'[w] = None
  BY <1>3 DEF TableInv, TypeOK
<1>7. ASSUME Account
      PROVE  Account'
  <2> SUFFICES ASSUME NEW h \in Hosts, leases'[h] # None PROVE Explained(leases[h], h)'
    BY <1>2 DEF Account, Explained
  <2>1. leases[h] # None /\ leases[h] # b.ws /\ leases[h] \in Workspaces
    BY <1>1, <1>2 DEF Tables
  <2>2. Explained(leases[h], h)
    BY <1>7, <2>1 DEF Account
  <2> QED BY <1>2, <1>3, <2>1, <2>2 DEF Explained
<1> QED BY <1>4, <1>5, <1>6, <1>7 DEF TableInv, CreatorInv

(* A binding is stored, or stored anew, by whoever holds its lease.        *)
LEMMA Recorded ==
  ASSUME TypeOK, TableInv, NEW b \in Binding, leases[b.host] = b.ws, b.ws \notin configured,
         Store(b), UNCHANGED <<leases, configured>>,
         \A t \in Tasks : Creating(t) => job[t].cur.ws = b.ws,
         \A t \in Tasks : ~ Creating(t)'
  PROVE  /\ TableInv' /\ \A t \in Tasks : CreatorInv(t)'
         /\ Account => Account'
<1>1. b.ws \in Workspaces /\ b.host \in Hosts /\ b # None /\ None \notin Workspaces
  BY LifecycleAssumption DEF Binding
<1>2. /\ bindings'[b.ws] = b
      /\ \A w \in Workspaces : w # b.ws => bindings'[w] = bindings[w]
      /\ Stored' = {c \in Stored : c.ws # b.ws} \cup {b}
  BY AfterStore
<1>3. BoundIsLeased'
  BY <1>2 DEF TableInv, BoundIsLeased
<1>4. \A w \in configured' : bindings'[w] = None
  BY <1>2 DEF TableInv, TypeOK
<1>5. ASSUME Account
      PROVE  Account'
  <2> SUFFICES ASSUME NEW h \in Hosts, leases[h] # None PROVE Explained(leases[h], h)'
    BY DEF Account, Explained
  <2>1. leases[h] \in Workspaces /\ Explained(leases[h], h)
    BY <1>5 DEF Account, TypeOK
  <2>2. CASE leases[h] = b.ws
    <3>1. h = b.host
      BY <1>1, <2>2 DEF TableInv
    <3> QED BY <1>1, <1>2, <2>2, <3>1 DEF Explained
  <2>3. CASE leases[h] # b.ws
    BY <1>2, <2>1, <2>3 DEF Explained
  <2> QED BY <2>2, <2>3
<1> QED BY <1>3, <1>4, <1>5 DEF TableInv, CreatorInv

-----------------------------------------------------------------------------
(* The steps.  There is one invocation, so what it does to pc and job is   *)
(* all that happens there.                                                 *)
Preserved == SeqInv' /\ ("abandon" \notin Tools /\ Account => Account')

(* The invocation that moves is the only one.                              *)
LEMMA Alone ==
  ASSUME Sequential, TypeOK, NEW t \in Tasks, NEW l, NEW j, Enter(t, l, j)
  PROVE  /\ pc'[t] = l /\ job'[t] = j
         /\ \A u \in Tasks : u = t
  BY OneMoves DEF Sequential

(* Outside a creation and with the tables unchanged, there is only what    *)
(* the invocation has in hand to look at.                                  *)
LEMMA MovesOn ==
  ASSUME Sequential, TypeOK, SeqInv, NEW t \in Tasks, NEW l, NEW j, Enter(t, l, j),
         UNCHANGED <<leases, bindings, configured>>, ~ Creating(t),
         l \notin {"boot", "tunnel", "health", "register"},
         Stored' = Stored => InHand(t)'
  PROVE  Preserved
<1>1. pc'[t] = l /\ job'[t] = j /\ \A u \in Tasks : u = t
  BY Alone
<1>2. /\ Stored' = Stored
      /\ TableInv' /\ \A u \in Tasks : CreatorInv(u)'
      /\ Account => Account'
  BY <1>1, Unmoved DEF Creating, SeqInv
<1> QED BY <1>1, <1>2 DEF Preserved, SeqInv

(* A creation begins.                                                      *)
LEMMA Begins ==
  ASSUME Sequential, TypeOK, SeqInv, NEW t \in Tasks, NEW tool, NEW arg,
         NEW w \in Workspaces, NEW h \in Hosts,
         pc[t] \in {"idle", "find"}, Acquire(t, tool, arg, w, h),
         bindings' = bindings, bindings[w] = None, configured' = configured \ {w},
         leases[h] = w \/ \A g \in Hosts : leases[g] # w
  PROVE  Preserved
<1> DEFINE j == [tool |-> tool, arg |-> arg, todo |-> {}, cur |-> NewBinding(w, h), made |-> TRUE]
<1>1. pc'[t] = "boot" /\ job'[t] = j /\ \A u \in Tasks : u = t
  BY Alone DEF Acquire
<1>2. job'[t].cur.ws = w /\ job'[t].cur.host = h
  BY <1>1 DEF NewBinding
<1>3. /\ leases'[h] = w /\ \A g \in Hosts : leases[g] # None => leases'[g] = leases[g]
      /\ \A g \in Hosts \ {h} : leases'[g] = leases[g] /\ leases[g] # w
      /\ BoundIsLeased' /\ Stored' = Stored
      /\ \A f, g \in Hosts : leases'[f] # None /\ leases'[f] = leases'[g] => f = g
  BY Taken DEF Acquire, SeqInv
<1>4. TableInv'
  BY <1>3 DEF TableInv, SeqInv
<1>5. CreatorInv(t)' /\ InHand(t)'
  BY <1>1, <1>2, <1>3 DEF CreatorInv, InHand
<1>6. ASSUME Account
      PROVE  Account'
  <2> SUFFICES ASSUME NEW g \in Hosts, leases'[g] # None PROVE Explained(leases[g], g)'
    BY DEF Account, Explained
  <2>1. CASE g = h
    BY <1>1, <1>2, <1>3, <2>1 DEF Explained, Creating
  <2>2. CASE g # h
    <3>1. leases'[g] = leases[g] /\ leases[g] # w /\ Explained(leases[g], g)
      BY <1>3, <1>6, <2>2 DEF Account
    <3>2. ~ Creating(t)
      BY DEF Creating
    <3> QED BY <1>1, <3>1, <3>2 DEF Explained
  <2> QED BY <2>1, <2>2
<1> QED BY <1>1, <1>4, <1>5, <1>6 DEF Preserved, SeqInv

(* The catch of createConnectedBinding gives back the one lease that       *)
(* covers no binding.                                                      *)
LEMMA BootFailsKeeps ==
  ASSUME Sequential, TypeOK, SeqInv, NEW t \in Tasks, Creating(t), BootFails(t)
  PROVE  Preserved
<1>1. pc'[t] = "idle" /\ \A u \in Tasks : u = t
  BY Alone DEF BootFails, Finish
<1>2. job[t].cur \in Binding
  BY DEF TypeOK, Creating
<1>3. leases[job[t].cur.host] = job[t].cur.ws /\ bindings[job[t].cur.ws] = None
  BY DEF SeqInv, CreatorInv
<1>4. /\ TableInv' /\ \A u \in Tasks : CreatorInv(u)'
      /\ Account => Account'
  BY <1>1, <1>2, <1>3, GivenUp DEF BootFails, SeqInv, Creating
<1>5. InHand(t)'
  BY <1>1 DEF InHand
<1> QED BY <1>1, <1>4, <1>5 DEF Preserved, SeqInv

(* The binding at the end of an invocation's first part is in the store.   *)
LEMMA SettlesInHand ==
  ASSUME Sequential, TypeOK, NEW t \in Tasks, job[t] \in Job, NEW b \in Stored', Settle(t, b)
  PROVE  InHand(t)' /\ \A u \in Tasks : u = t /\ ~ Creating(u)'
<1>1. CASE job[t].tool = "doctor"
  <2> DEFINE j == [job[t] EXCEPT !.cur = b]
  <2>1. Enter(t, "check", j)
    BY <1>1 DEF Settle
  <2>2. j.cur = b
    BY DEF Job
  <2> HIDE DEF j
  <2>3. pc'[t] = "check" /\ job'[t] = j /\ \A u \in Tasks : u = t
    BY <2>1, Alone
  <2> QED BY <2>2, <2>3 DEF InHand, Creating
<1>2. CASE job[t].tool # "doctor"
  BY <1>2, Alone DEF Settle, Finish, InHand, Creating
<1> QED BY <1>1, <1>2

(* Bootstrap, tunnel, health check and setBinding: the creator's lease     *)
(* becomes its binding's.                                                  *)
LEMMA CreatingKeeps ==
  ASSUME Sequential, TypeOK, SeqInv, NEW t \in Tasks,
         StartStub(t) \/ OpenTunnel(t) \/ AwaitHealth(t) \/ Register(t)
  PROVE  Preserved
<1> DEFINE c == job[t].cur
<1> USE DEF plugin
<1>1. Creating(t) /\ job[t] \in Job /\ c \in Binding
  BY DEF StartStub, OpenTunnel, AwaitHealth, Register, Creating, TypeOK
<1>2. leases[c.host] = c.ws /\ bindings[c.ws] = None /\ c.ws \notin configured
  BY <1>1 DEF SeqInv, CreatorInv
<1>3. CASE BootFails(t)
  BY <1>1, <1>3, BootFailsKeeps
<1>4. ASSUME UNCHANGED plugin, pc'[t] \in {"tunnel", "health", "register"},
             job'[t].cur.ws = c.ws, job'[t].cur.host = c.host
      PROVE  Preserved
  <2>1. \A u \in Tasks : u = t
    BY DEF Sequential
  <2>2. /\ TableInv' /\ \A u \in Tasks : CreatorInv(u)'
        /\ Account => Account'
    BY <1>1, <1>4, <2>1, Unmoved DEF SeqInv, Creating
  <2>3. InHand(t)'
    BY <1>4 DEF InHand
  <2> QED BY <2>1, <2>2, <2>3 DEF Preserved, SeqInv
<1>5. ASSUME NEW b \in Binding, b.ws = c.ws, b.host = c.host, Store(b),
             Settle(t, b), UNCHANGED <<leases, configured>>
      PROVE  Preserved
  <2>1. b \in Stored'
    BY <1>5, AfterStore
  <2>2. InHand(t)' /\ \A u \in Tasks : u = t /\ ~ Creating(u)'
    BY <1>1, <1>5, <2>1, SettlesInHand
  <2>3. /\ TableInv' /\ \A u \in Tasks : CreatorInv(u)'
        /\ Account => Account'
    BY <1>2, <1>5, <2>2, Recorded DEF SeqInv
  <2> QED BY <2>2, <2>3 DEF Preserved, SeqInv
<1>6. CASE StartStub(t) /\ Goto(t, "tunnel") /\ UNCHANGED plugin
  BY <1>4, <1>6 DEF Goto, TypeOK
<1>7. CASE OpenTunnel(t) /\ ~ BootFails(t)
  <2>1. PICK n : Enter(t, "health", [job[t] EXCEPT !.cur = [@ EXCEPT !.tunnel = n]]) /\ UNCHANGED plugin
    BY <1>7 DEF OpenTunnel
  <2> DEFINE j == [job[t] EXCEPT !.cur = [@ EXCEPT !.tunnel = n]]
  <2>2. j.cur.ws = c.ws /\ j.cur.host = c.host
    BY <1>1 DEF Job, Binding
  <2>3. Enter(t, "health", j)
    BY <2>1
  <2> HIDE DEF j
  <2>4. pc'[t] = "health" /\ job'[t] = j
    BY <2>3, Alone
  <2> QED BY <1>4, <2>1, <2>2, <2>4
<1>8. CASE AwaitHealth(t) /\ ~ BootFails(t)
  <2>1. CASE Store(c) /\ Finish(t) /\ UNCHANGED <<leases, configured>> /\ job[t].tool = "create"
    <3>1. Settle(t, c)
      BY <2>1 DEF Settle
    <3> QED BY <1>1, <1>5, <2>1, <3>1
  <2>2. CASE Goto(t, "register") /\ UNCHANGED plugin
    BY <1>4, <2>2 DEF Goto, TypeOK
  <2> QED BY <1>8, <2>1, <2>2 DEF AwaitHealth
<1>9. CASE Register(t) /\ ~ BootFails(t)
  <2> DEFINE b == [c EXCEPT !.sess = TRUE]
  <2>1. b \in Binding /\ b.ws = c.ws /\ b.host = c.host
    BY <1>1 DEF Binding
  <2>2. Store(b) /\ Settle(t, b) /\ UNCHANGED <<leases, configured>>
    BY <1>9 DEF Register
  <2> QED BY <1>5, <2>1, <2>2
<1> QED BY <1>3, <1>6, <1>7, <1>8, <1>9 DEF StartStub

(* Recovery returns the binding, or one with a new tunnel in place of a    *)
(* dead one; it fails for a binding that does not answer, and where stubs  *)
(* stall both may happen to one that is well.                              *)
LEMMA RecoverGives ==
  ASSUME TypeOK, NEW b \in Stored, NEW r \in Outcomes(b), Recover(b, r)
  PROVE  /\ r = None => ~ Healthy(b) \/ Stalls
         /\ r # None => /\ r \in Binding /\ r.ws = b.ws /\ r.host = b.host
                        /\ r = b \/ ~ Leads(b)' \/ Stalls
<1>1. b \in Binding /\ b # None
  BY StoredByName, LifecycleAssumption
<1>2. r = None => ~ Healthy(b) \/ Stalls
  BY <1>1 DEF Recover, Stalls
<1>3. ASSUME r # None
      PROVE  r \in Binding /\ r.ws = b.ws /\ r.host = b.host
  BY <1>1, <1>3 DEF Outcomes, Binding
<1>4. ASSUME r # None, r # b, ~ Stalls
      PROVE  ~ Leads(b)'
  <2>1. PICK n \in FreeTunnels : tunnels' = [tunnels EXCEPT ![n] = b.host] /\ stub[b.host] = b.ws
    BY <1>4 DEF Recover
  <2>2. ~ Healthy(b)
    BY <1>4 DEF Recover, Stalls
  <2>3. b.tunnel = None \/ tunnels[b.tunnel] # b.host
    BY <2>1, <2>2 DEF Healthy, Answers
  <2>4. b.tunnel # n
    BY <2>1 DEF FreeTunnels
  <2> QED BY <1>1, <2>1, <2>3, <2>4 DEF Leads, TypeOK, Binding
<1> QED BY <1>2, <1>3, <1>4

(* A binding in the store is forgotten and its lease goes back.            *)
LEMMA GivesUp ==
  ASSUME Sequential, TypeOK, SeqInv, NEW t \in Tasks, ~ Creating(t),
         NEW b \in Binding, leases[b.host] = b.ws, Release(b), Forget(b), configured' = configured,
         NEW l \in {"find", "scan", "drop"}, NEW j \in Job, Enter(t, l, j),
         j.cur = None, j.todo \subseteq {c \in Stored : c.ws # b.ws}
  PROVE  Preserved
<1>1. pc'[t] = l /\ job'[t] = j /\ \A u \in Tasks : u = t
  BY Alone
<1>2. /\ TableInv' /\ \A u \in Tasks : CreatorInv(u)'
      /\ Account => Account'
  BY <1>1, GivenUp DEF SeqInv, Creating
<1>3. j.todo \subseteq Stored'
  BY AfterForget
<1>4. InHand(t)'
  BY <1>1, <1>3 DEF InHand
<1> QED BY <1>1, <1>2, <1>4 DEF Preserved, SeqInv

(* A lease that is there already is acquired once more.                    *)
LEMMA AcquiredAgain ==
  ASSUME TypeOK, NEW h \in Hosts
  PROVE  Acquired(leases, h, leases[h]) = leases
  BY DEF Acquired, TypeOK

(* findReusableBinding takes the next binding of its snapshot: the host it *)
(* resolves is the binding's own, or is given back at once.                *)
LEMMA FindNextKeeps ==
  ASSUME Sequential, TypeOK, SeqInv, NEW t \in Tasks, NEW b \in job[t].todo, FindNext(t, b)
  PROVE  Preserved
<1> DEFINE host == IF job[t].arg = None THEN b.host ELSE job[t].arg
           sel  == Selectable(leases, b.ws, Candidates(host))
           left == [job[t] EXCEPT !.todo = @ \ {b}]
<1>1. /\ job[t] \in Job /\ ~ Creating(t) /\ job[t].todo \subseteq Stored /\ pc[t] = "find"
      /\ b \in Stored /\ b \in Binding /\ leases[b.host] = b.ws /\ b.host \in Hosts
  BY StoredByName DEF FindNext, TypeOK, Creating, SeqInv, TableInv, InHand, BoundIsLeased, Binding
<1>2. left \in Job /\ left.todo = job[t].todo \ {b} /\ left.cur = job[t].cur
  BY <1>1 DEF Job
<1>3. left.todo \subseteq {c \in Stored : c.ws # b.ws}
  BY <1>1, <1>2, StoredTwice
<1>4. configured' = configured
  BY DEF FindNext
<1>5. ASSUME leases' = leases, bindings' = bindings, NEW j, Enter(t, "find", j), j.todo = left.todo
      PROVE  Preserved
  <2>1. Stored' = Stored => InHand(t)'
    BY <1>3, <1>5, Alone DEF InHand
  <2> QED BY <1>1, <1>4, <1>5, <2>1, MovesOn
<1>6. CASE sel = {} /\ Release(b) /\ Forget(b) /\ Enter(t, "find", left)
  <2>1. /\ TableInv' /\ \A u \in Tasks : CreatorInv(u)'
        /\ Account => Account'
    BY <1>1, <1>4, <1>6, Alone, GivenUp DEF SeqInv, Creating
  <2>2. left.todo \subseteq Stored'
    BY <1>1, <1>3, <1>6, AfterForget
  <2>3. pc'[t] = "find" /\ job'[t] = left /\ \A u \in Tasks : u = t
    BY <1>6, Alone
  <2> HIDE DEF left, sel
  <2>4. InHand(t)'
    BY <2>2, <2>3 DEF InHand
  <2> QED BY <2>1, <2>3, <2>4 DEF Preserved, SeqInv
<1>7. CASE /\ leases' = Acquired(leases, b.host, b.ws) /\ bindings' = bindings
           /\ Enter(t, "reuse", [left EXCEPT !.cur = b])
  <2> DEFINE j == [left EXCEPT !.cur = b]
  <2>1. j.todo = left.todo /\ j.cur = b
    BY <1>2 DEF Job
  <2>2. leases' = leases
    BY <1>1, <1>7, AcquiredAgain
  <2>3. Enter(t, "reuse", j)
    BY <1>7
  <2> HIDE DEF j
  <2>4. Stored' = Stored => InHand(t)'
    BY <1>1, <1>3, <2>1, <2>3, Alone DEF InHand, Apart
  <2> QED BY <1>1, <1>4, <1>7, <2>2, <2>3, <2>4, MovesOn
<1>8. ASSUME NEW h \in sel \ {b.host}, leases' = Released(Acquired(leases, h, b.ws), h, b.ws),
             bindings' = bindings, Enter(t, "find", left)
      PROVE  Preserved
  <2>1. h \in Hosts /\ leases[h] \in {None, b.ws}
    BY DEF Selectable, Candidates
  <2>2. leases[h] = None
    BY <1>1, <1>8, <2>1, LifecycleAssumption DEF SeqInv, TableInv, Binding
  <2>3. leases' = leases
    BY <1>8, <2>1, <2>2 DEF Released, Acquired, TypeOK
  <2> HIDE DEF left
  <2> QED BY <1>5, <1>8, <2>3
<1> HIDE DEF left, sel
<1>9. \/ sel = {} /\ Release(b) /\ Forget(b) /\ Enter(t, "find", left)
      \/ /\ leases' = Acquired(leases, b.host, b.ws) /\ bindings' = bindings
         /\ Enter(t, "reuse", [left EXCEPT !.cur = b])
      \/ \E h \in sel \ {b.host} :
           leases' = Released(Acquired(leases, h, b.ws), h, b.ws) /\ bindings' = bindings /\ Enter(t, "find", left)
  BY DEF FindNext, left, sel
<1> QED BY <1>6, <1>7, <1>8, <1>9

(* It recovers the binding, or ends it.                                    *)
LEMMA ReuseKeeps ==
  ASSUME Sequential, TypeOK, SeqInv, NEW t \in Tasks, NEW r \in Outcomes(job[t].cur), Reuse(t, r)
  PROVE  Preserved
<1>b. PICK b : b = job[t].cur
  OBVIOUS
<1>1. /\ job[t] \in Job /\ ~ Creating(t) /\ job[t].todo \subseteq Stored /\ Apart(job[t].todo, b)
      /\ b \in Stored /\ b \in Binding /\ leases[b.host] = b.ws /\ bindings[b.ws] = b /\ b # None
  BY <1>b, StoredByName, LifecycleAssumption
  DEF Reuse, TypeOK, Creating, SeqInv, TableInv, InHand, BoundIsLeased
<1>2. r # None => /\ r \in Binding /\ r.ws = b.ws /\ r.host = b.host
                  /\ r = b \/ ~ Leads(b)' \/ Stalls
  BY <1>b, <1>1, RecoverGives DEF Reuse
<1>3. CASE r = None /\ ReuseFails(t, b)
  <2> DEFINE j == [job[t] EXCEPT !.cur = None]
  <2>1. j \in Job /\ j.todo = job[t].todo /\ j.cur = None
    BY <1>1 DEF Job
  <2>2. Enter(t, "find", j) /\ Release(b) /\ Forget(b) /\ configured' = configured
    BY <1>3 DEF ReuseFails
  <2> HIDE DEF j
  <2> QED BY <1>1, <2>1, <2>2, GivesUp DEF Apart
<1>4. CASE r # None /\ Store(r) /\ Settle(t, r) /\ UNCHANGED <<leases, configured>>
  <2>1. r \in Stored'
    BY <1>2, <1>4, AfterStore
  <2>2. InHand(t)' /\ \A u \in Tasks : u = t /\ ~ Creating(u)'
    BY <1>1, <1>4, <2>1, SettlesInHand
  <2>3. r.ws \notin configured
    BY <1>1, <1>2, <1>4 DEF SeqInv, TableInv
  <2>4. /\ TableInv' /\ \A u \in Tasks : CreatorInv(u)'
        /\ Account => Account'
    BY <1>1, <1>2, <1>4, <2>2, <2>3, Recorded DEF SeqInv
  <2> QED BY <2>2, <2>4 DEF Preserved, SeqInv
<1>5. CASE r # None /\ Enter(t, "session", [job[t] EXCEPT !.cur = r]) /\ UNCHANGED plugin
  <2> DEFINE j == [job[t] EXCEPT !.cur = r]
  <2>1. j.todo = job[t].todo /\ j.cur = r
    BY <1>1 DEF Job
  <2>2. Enter(t, "session", j) /\ UNCHANGED <<leases, bindings, configured>>
    BY <1>5 DEF plugin
  <2> HIDE DEF j
  <2>3. pc'[t] = "session" /\ job'[t] = j
    BY <2>2, Alone
  <2>4. Stored' = Stored => InHand(t)'
    BY <1>1, <1>2, <1>5, <2>1, <2>2, <2>3 DEF InHand, Apart
  <2> QED BY <1>1, <2>2, <2>4, MovesOn
<1> QED BY <1>b, <1>3, <1>4, <1>5 DEF Reuse

(* The session made for it is stored with it.                              *)
LEMMA MakeSessionKeeps ==
  ASSUME Sequential, TypeOK, SeqInv, NEW t \in Tasks, MakeSession(t)
  PROVE  Preserved
<1> DEFINE b == [job[t].cur EXCEPT !.sess = TRUE]
<1>1. /\ job[t] \in Job /\ ~ Creating(t) /\ job[t].cur \in Binding
      /\ job[t].todo \subseteq Stored /\ Apart(job[t].todo, job[t].cur)
      /\ bindings[job[t].cur.ws] # None /\ bindings[job[t].cur.ws].host = job[t].cur.host
  BY DEF MakeSession, TypeOK, Creating, SeqInv, InHand
<1>2. b \in Binding /\ b.ws = job[t].cur.ws /\ b.host = job[t].cur.host
  BY <1>1 DEF Binding
<1>3. leases[b.host] = b.ws /\ b.ws \notin configured
  BY <1>1, <1>2 DEF SeqInv, TableInv, BoundIsLeased, Stored, TypeOK, Binding
<1>4. CASE Store(b) /\ Settle(t, b) /\ UNCHANGED <<leases, configured>>
  <2>1. b \in Stored'
    BY <1>2, <1>4, AfterStore
  <2>2. InHand(t)' /\ \A u \in Tasks : u = t /\ ~ Creating(u)'
    BY <1>1, <1>4, <2>1, SettlesInHand
  <2>3. /\ TableInv' /\ \A u \in Tasks : CreatorInv(u)'
        /\ Account => Account'
    BY <1>1, <1>2, <1>3, <1>4, <2>2, Recorded DEF SeqInv
  <2> QED BY <2>2, <2>3 DEF Preserved, SeqInv
<1>5. CASE ReuseFails(t, b)
  <2> DEFINE j == [job[t] EXCEPT !.cur = None]
  <2>1. j \in Job /\ j.todo = job[t].todo /\ j.cur = None
    BY <1>1 DEF Job
  <2>2. Enter(t, "find", j) /\ Release(b) /\ Forget(b) /\ configured' = configured
    BY <1>5 DEF ReuseFails
  <2>3. j.todo \subseteq {c \in Stored : c.ws # b.ws}
    BY <1>1, <1>2, <2>1 DEF Apart
  <2> HIDE DEF j, b
  <2> QED BY <1>1, <1>2, <1>3, <2>1, <2>2, <2>3, GivesUp
<1> QED BY <1>4, <1>5 DEF MakeSession

(* A check that fails ends the binding with its lease.                     *)
LEMMA ScanFailsKeeps ==
  ASSUME Sequential, TypeOK, SeqInv, NEW t \in Tasks, pc[t] \in {"scan", "recover"},
         NEW b \in Stored, ScanFails(t, b)
  PROVE  Preserved
<1>1. /\ job[t] \in Job /\ ~ Creating(t) /\ job[t].todo \subseteq Stored
      /\ b \in Binding /\ leases[b.host] = b.ws
  BY StoredByName DEF TypeOK, Creating, SeqInv, TableInv, InHand, BoundIsLeased
<1>2. CASE job[t].tool = "status"
  <2> DEFINE j == [job[t] EXCEPT !.todo = @ \ {b}, !.cur = None]
  <2>1. j \in Job /\ j.todo = job[t].todo \ {b} /\ j.cur = None
    BY <1>1 DEF Job
  <2>2. Enter(t, "scan", j) /\ Release(b) /\ Forget(b) /\ configured' = configured
    BY <1>2 DEF ScanFails
  <2>3. j.todo \subseteq {c \in Stored : c.ws # b.ws}
    BY <1>1, <2>1, StoredTwice
  <2> HIDE DEF j
  <2> QED BY <1>1, <2>1, <2>2, <2>3, GivesUp
<1>3. CASE job[t].tool # "status"
  <2>1. Finish(t) /\ UNCHANGED <<leases, bindings, configured>>
    BY <1>3 DEF ScanFails
  <2>2. Stored' = Stored => InHand(t)'
    BY <2>1, Alone DEF Finish, InHand
  <2> QED BY <1>1, <2>1, <2>2, MovesOn DEF Finish
<1> QED BY <1>2, <1>3

(* ensureBindingReady resolves the next binding of the listing.            *)
LEMMA ScanNextKeeps ==
  ASSUME Sequential, TypeOK, SeqInv, NEW t \in Tasks, NEW b \in job[t].todo, ScanNext(t, b)
  PROVE  Preserved
<1>1. /\ job[t] \in Job /\ ~ Creating(t) /\ job[t].todo \subseteq Stored /\ pc[t] = "scan"
      /\ b \in Stored /\ b \in Binding /\ leases[b.host] = b.ws /\ b.host \in Hosts
  BY StoredByName DEF ScanNext, TypeOK, Creating, SeqInv, TableInv, InHand, BoundIsLeased, Binding
<1>2. CASE ScanFails(t, b)
  BY <1>1, <1>2, ScanFailsKeeps
<1>3. CASE /\ leases' = Acquired(leases, b.host, b.ws)
           /\ Enter(t, "recover", [job[t] EXCEPT !.cur = b])
           /\ UNCHANGED <<bindings, configured>>
  <2> DEFINE j == [job[t] EXCEPT !.cur = b]
  <2>1. j.todo = job[t].todo /\ j.cur = b
    BY <1>1 DEF Job
  <2>2. leases' = leases
    BY <1>1, <1>3, AcquiredAgain
  <2>3. Enter(t, "recover", j)
    BY <1>3
  <2> HIDE DEF j
  <2>4. Stored' = Stored => InHand(t)'
    BY <1>1, <2>1, <2>3, Alone DEF InHand
  <2> QED BY <1>1, <1>3, <2>2, <2>3, <2>4, MovesOn
<1> QED BY <1>2, <1>3 DEF ScanNext

(* It stores what the recovery gave, under the same workspace and host.    *)
LEMMA RecoverDoneKeeps ==
  ASSUME Sequential, TypeOK, SeqInv, NEW t \in Tasks, NEW r \in Outcomes(job[t].cur), RecoverDone(t, r)
  PROVE  Preserved
<1>b. PICK b : b = job[t].cur
  OBVIOUS
<1>1. /\ job[t] \in Job /\ ~ Creating(t) /\ job[t].todo \subseteq Stored /\ pc[t] = "recover"
      /\ b \in Stored /\ b \in Binding /\ leases[b.host] = b.ws /\ bindings[b.ws] = b /\ b # None
  BY <1>b, StoredByName, LifecycleAssumption
  DEF RecoverDone, TypeOK, Creating, SeqInv, TableInv, InHand, BoundIsLeased
<1>2. r # None => r \in Binding /\ r.ws = b.ws /\ r.host = b.host
  BY <1>b, <1>1, RecoverGives DEF RecoverDone
<1>3. CASE r = None
  BY <1>b, <1>1, <1>3, ScanFailsKeeps DEF RecoverDone
<1>4. CASE r # None
  <2> DEFINE j == [job[t] EXCEPT !.todo = @ \ {b}, !.cur = None]
  <2>1. j.todo = job[t].todo \ {b} /\ j.cur = None
    BY <1>1 DEF Job
  <2>2. /\ Enter(t, "scan", j) /\ UNCHANGED <<leases, configured>>
        /\ IF r # b THEN Store(r) ELSE UNCHANGED bindings
    BY <1>b, <1>4 DEF RecoverDone
  <2> HIDE DEF j
  <2>3. pc'[t] = "scan" /\ job'[t] = j /\ \A u \in Tasks : u = t
    BY <2>2, Alone
  <2>4. CASE r = b
    <3>1. Stored' = Stored => InHand(t)'
      BY <1>1, <2>1, <2>3 DEF InHand
    <3> QED BY <1>1, <2>2, <2>4, <3>1, MovesOn
  <2>5. CASE r # b
    <3>1. Store(r)
      BY <2>2, <2>5
    <3>2. j.todo \subseteq {c \in Stored : c.ws # r.ws}
      BY <1>1, <1>2, <1>4, <2>1, StoredTwice
    <3>3. InHand(t)'
      BY <1>2, <1>4, <2>3, <3>1, <3>2, AfterStore DEF InHand
    <3>4. r.ws \notin configured
      BY <1>1, <1>2, <1>4 DEF SeqInv, TableInv
    <3>5. \A u \in Tasks : ~ Creating(u) /\ ~ Creating(u)'
      BY <1>1, <2>3 DEF Creating
    <3>6. leases[r.host] = r.ws /\ r \in Binding
      BY <1>1, <1>2, <1>4
    <3>7. /\ TableInv' /\ \A u \in Tasks : CreatorInv(u)'
          /\ Account => Account'
      BY <2>2, <3>1, <3>4, <3>5, <3>6, Recorded DEF SeqInv
    <3> QED BY <2>3, <3>3, <3>7 DEF Preserved, SeqInv
  <2> QED BY <2>4, <2>5
<1> QED BY <1>3, <1>4

(* removeBinding, await by await: the lease goes when the binding does.    *)
LEMMA RemovingKeeps ==
  ASSUME Sequential, TypeOK, SeqInv, NEW t \in Tasks,
         \/ pc[t] = "drop" /\ \E b \in job[t].todo : Unregister(t, b)
         \/ KillTunnel(t) \/ Drop(t) \/ DropEnd(t) \/ DoctorCheck(t)
  PROVE  Preserved
<1> USE DEF plugin
<1>1. job[t] \in Job /\ ~ Creating(t) /\ InHand(t)
  BY DEF Unregister, KillTunnel, Drop, DropEnd, DoctorCheck, TypeOK, Creating, SeqInv
<1>2. ASSUME Finish(t), UNCHANGED plugin
      PROVE  Preserved
  <2>1. Stored' = Stored => InHand(t)'
    BY <1>2, Alone DEF Finish, InHand
  <2> QED BY <1>1, <1>2, <2>1, MovesOn DEF Finish
<1>3. ASSUME NEW b \in job[t].todo, pc[t] = "drop", Unregister(t, b)
      PROVE  Preserved
  <2> DEFINE j == [job[t] EXCEPT !.todo = @ \ {b}, !.cur = b]
  <2>1. j.todo = job[t].todo \ {b} /\ j.cur = b
    BY <1>1 DEF Job
  <2>2. Enter(t, "kill", j) /\ UNCHANGED plugin
    BY <1>3 DEF Unregister
  <2> HIDE DEF j
  <2>3. Stored' = Stored => InHand(t)'
    BY <1>1, <1>3, <2>1, <2>2, Alone, StoredTwice DEF InHand, Apart
  <2> QED BY <1>1, <2>2, <2>3, MovesOn
<1>4. CASE KillTunnel(t)
  <2>1. CASE Goto(t, "release")
    <3>1. Enter(t, "release", job[t]) /\ UNCHANGED plugin /\ pc[t] = "kill"
      BY <1>4, <2>1 DEF KillTunnel, Goto, Enter, TypeOK
    <3>2. Stored' = Stored => InHand(t)'
      BY <1>1, <3>1, Alone DEF InHand
    <3> QED BY <1>1, <3>1, <3>2, MovesOn
  <2> QED BY <1>2, <1>4, <2>1 DEF KillTunnel
<1>5. CASE Drop(t)
  <2> DEFINE j == [job[t] EXCEPT !.cur = None]
             b == job[t].cur
  <2>1. j \in Job /\ j.todo = job[t].todo /\ j.cur = None
    BY <1>1 DEF Job
  <2>2. b \in Stored /\ b \in Binding /\ leases[b.host] = b.ws
        /\ job[t].todo \subseteq Stored /\ Apart(job[t].todo, b)
    BY <1>1, <1>5, StoredByName DEF Drop, InHand, SeqInv, TableInv, BoundIsLeased
  <2>3. Enter(t, "drop", j) /\ Release(b) /\ Forget(b) /\ configured' = configured
    BY <1>5 DEF Drop
  <2>4. j.todo \subseteq {c \in Stored : c.ws # b.ws}
    BY <2>1, <2>2 DEF Apart
  <2> HIDE DEF j, b
  <2> QED BY <1>1, <2>1, <2>2, <2>3, <2>4, GivesUp
<1>6. CASE DropEnd(t)
  BY <1>2, <1>6 DEF DropEnd
<1>7. CASE DoctorCheck(t)
  <2> DEFINE j == [job[t] EXCEPT !.todo = {job[t].cur}, !.cur = None]
  <2>1. CASE Enter(t, "drop", j) /\ UNCHANGED plugin
    <3>1. j.todo = {job[t].cur} /\ job[t].cur \in Stored
      BY <1>1, <1>7 DEF Job, DoctorCheck, InHand
    <3> HIDE DEF j
    <3>2. Stored' = Stored => InHand(t)'
      BY <2>1, <3>1, Alone DEF InHand
    <3> QED BY <1>1, <2>1, <3>2, MovesOn
  <2> QED BY <1>2, <1>7, <2>1 DEF DoctorCheck
<1> QED BY <1>3, <1>4, <1>5, <1>6, <1>7

-----------------------------------------------------------------------------
(* From the beginning of an invocation to its end, and around it.          *)

(* A tool or an adapter call begins.                                       *)
LEMMA InvokeKeeps ==
  ASSUME Sequential, TypeOK, SeqInv, NEW t \in Tasks, Invoke(t)
  PROVE  Preserved
<1> USE DEF plugin
<1>1. ASSUME NEW arg \in Hosts \cup {None, Unknown}, NEW w \in Workspaces, NEW h \in Hosts, CreateStart(t, arg, w, h)
      PROVE  Preserved
  <2>1. configured' = configured \ {w}
    BY <1>1 DEF CreateStart, Fresh
  <2> QED BY <1>1, <2>1, Begins DEF CreateStart, Fresh
<1>2. ASSUME NEW w \in Workspaces, NEW h \in Hosts, AdapterCreate(t, w, h)
      PROVE  Preserved
  <2>1. bindings[w] = None
    BY <1>2 DEF AdapterCreate, SeqInv, TableInv
  <2> QED BY <1>2, <2>1, Begins DEF AdapterCreate
<1>3. ASSUME NEW j, NEW l \in {"find", "scan", "drop"}, j.todo \subseteq Stored,
             pc[t] = "idle", Enter(t, l, j), UNCHANGED plugin
      PROVE  Preserved
  <2>1. Stored' = Stored => InHand(t)'
    BY <1>3, Alone DEF InHand
  <2> QED BY <1>3, <2>1, MovesOn DEF Creating
<1>4. ASSUME NEW tool \in ToolNames, NEW arg \in Hosts \cup {None, Unknown}, SwitchStart(t, tool, arg)
      PROVE  Preserved
  BY <1>3, <1>4 DEF SwitchStart
<1>5. ASSUME NEW tool \in ToolNames, NEW todo \in SUBSET Stored,
             ScanStart(t, tool, todo) \/ RemoveStart(t, tool, todo)
      PROVE  Preserved
  BY <1>3, <1>5 DEF ScanStart, RemoveStart
<1> QED BY <1>1, <1>2, <1>4, <1>5 DEF Invoke

(* Every step of the invocation.                                           *)
LEMMA ProceedKeeps ==
  ASSUME Sequential, TypeOK, SeqInv, NEW t \in Tasks, Proceed(t)
  PROVE  Preserved
<1> USE DEF plugin
<1>1. ASSUME Finish(t), UNCHANGED plugin, pc[t] \in {"find", "scan"}
      PROVE  Preserved
  <2>1. Stored' = Stored => InHand(t)'
    BY <1>1, Alone DEF Finish, InHand
  <2> QED BY <1>1, <2>1, MovesOn DEF Finish, Creating
<1>2. CASE FindNone(t)
  <2>1. ASSUME NEW w \in Workspaces, NEW h \in Hosts, Fresh(w), Acquire(t, job[t].tool, job[t].arg, w, h)
        PROVE  Preserved
    <3>1. configured' = configured \ {w} /\ bindings' = bindings
      BY <1>2, <2>1 DEF FindNone, Fresh
    <3> QED BY <1>2, <2>1, <3>1, Begins DEF FindNone, Fresh
  <2> QED BY <1>1, <1>2, <2>1 DEF FindNone
<1>3. CASE ScanEnd(t)
  BY <1>1, <1>3 DEF ScanEnd
<1> QED
  BY <1>2, <1>3, CreatingKeeps, FindNextKeeps, ReuseKeeps, MakeSessionKeeps, ScanNextKeeps,
     RecoverDoneKeeps, RemovingKeeps DEF Proceed

(* OpenCode configures and removes a workspace, tunnels and hosts die, the *)
(* process restarts with what its file holds.                              *)
LEMMA SurroundingsKeep ==
  ASSUME Sequential, TypeOK, SeqInv,
         \/ \E w \in Workspaces, arg \in Hosts \cup {None, Unknown}, h \in Hosts : Configure(w, arg, h)
         \/ \E w \in Workspaces : RemoveConfigured(w)
         \/ \E n \in Tunnels : TunnelDies(n)
         \/ \E h \in Hosts : Reboot(h)
         \/ Restart \/ CutOff \/ UNCHANGED vars
  PROVE  Preserved
<1> USE DEF plugin, remote, vars
<1>1. ASSUME NEW w \in Workspaces, NEW arg \in Hosts \cup {None, Unknown}, NEW h \in Hosts, Configure(w, arg, h)
      PROVE  Preserved
  <2>1. Fresh(w) /\ UNCHANGED <<bindings, pc, job, remote>> /\ configured' = configured \cup {w}
    BY <1>1 DEF Configure
  <2>2. /\ leases'[h] = w /\ \A g \in Hosts : leases[g] # None => leases'[g] = leases[g]
        /\ \A g \in Hosts \ {h} : leases'[g] = leases[g] /\ leases[g] # w
        /\ BoundIsLeased' /\ Stored' = Stored
        /\ \A f, g \in Hosts : leases'[f] # None /\ leases'[f] = leases'[g] => f = g
    BY <1>1, Taken DEF Configure, Fresh, SeqInv
  <2>3. TableInv'
    BY <2>1, <2>2 DEF TableInv, SeqInv, Fresh
  <2>4. ASSUME NEW t \in Tasks
        PROVE  CreatorInv(t)' /\ InHand(t)'
    <3>1. Creating(t) => /\ job[t].cur.ws # w /\ job[t].cur.host \in Hosts
                         /\ leases[job[t].cur.host] = job[t].cur.ws /\ job[t].cur.ws # None
      BY <2>1, LifecycleAssumption DEF Creating, Fresh, Held, TypeOK, Binding, SeqInv, CreatorInv
    <3>2. CreatorInv(t)'
      BY <2>1, <2>2, <3>1 DEF CreatorInv, Creating, SeqInv
    <3>3. InHand(t)'
      BY <2>1, <2>2 DEF InHand, SeqInv, Leads
    <3> QED BY <3>2, <3>3
  <2>5. ASSUME Account
        PROVE  Account'
    <3> SUFFICES ASSUME NEW g \in Hosts, leases'[g] # None PROVE Explained(leases[g], g)'
      BY DEF Account, Explained
    <3> QED BY <2>1, <2>2, <2>5 DEF Account, Explained, Creating
  <2> QED BY <2>3, <2>4, <2>5 DEF Preserved, SeqInv
<1>2. ASSUME NEW w \in Workspaces, RemoveConfigured(w)
      PROVE  Preserved
  <2>1. UNCHANGED <<leases, bindings, pc, job, remote>> /\ configured' \subseteq configured /\ "abandon" \in Tools
    BY <1>2 DEF RemoveConfigured
  <2>2. Stored' = Stored
    BY <2>1 DEF Stored
  <2> QED BY <2>1, <2>2 DEF Preserved, SeqInv, TableInv, BoundIsLeased, CreatorInv, Creating, InHand, Leads
<1>3. ASSUME UNCHANGED <<plugin, pc, job>>, \A n \in Tunnels : tunnels'[n] \in {tunnels[n], None}
      PROVE  Preserved
  <2>1. /\ Stored' = Stored
        /\ TableInv' /\ \A t \in Tasks : CreatorInv(t)'
        /\ Account => Account'
    BY <1>3, Unmoved DEF SeqInv, Creating
  <2>2. ASSUME NEW t \in Tasks
        PROVE  InHand(t)'
    <3>1. \A b \in Stored : ~ Leads(b) => ~ Leads(b)'
      BY <1>3, StoredByName, LifecycleAssumption DEF Leads, Binding
    <3>2. pc[t] = "session" => bindings[job[t].cur.ws] \in Stored \cup {None}
      BY DEF TypeOK, Stored, Binding
    <3> QED BY <1>3, <2>1, <3>1, <3>2 DEF InHand, SeqInv
  <2> QED BY <2>1, <2>2 DEF Preserved, SeqInv
<1>4. CASE \/ \E n \in Tunnels : TunnelDies(n)
           \/ \E h \in Hosts : Reboot(h)
           \/ UNCHANGED vars
  <2>1. UNCHANGED <<plugin, pc, job>> /\ \A n \in Tunnels : tunnels'[n] \in {tunnels[n], None}
    BY <1>4 DEF TunnelDies, Reboot, TypeOK
  <2> QED BY <1>3, <2>1
<1>5. CASE Restart
  <2>1. \A b \in Stored : b \in Binding /\ b.host \in Hosts /\ bindings[b.ws] = b
    BY StoredByName DEF Binding
  <2>2. \A h \in Hosts : \/ leases'[h] = None /\ ~ \E b \in Stored : b.host = h
                         \/ \E b \in Stored : b.host = h /\ leases'[h] = b.ws
    BY <1>5 DEF Restart, Restored
  <2>3. \A b \in Stored : leases'[b.host] = b.ws
    BY <2>1, <2>2 DEF SeqInv, TableInv, BoundIsLeased
  <2>4. Stored' = Stored /\ configured' = {} /\ \A t \in Tasks : pc'[t] = "idle"
    BY <1>5 DEF Restart, Stored
  <2>5. \A g, h \in Hosts : leases'[g] # None /\ leases'[g] = leases'[h] => g = h
    BY <2>1, <2>2
  <2>6. TableInv' /\ Account'
    <3>1. BoundIsLeased'
      BY <2>3, <2>4 DEF BoundIsLeased
    <3>2. ASSUME NEW h \in Hosts, leases'[h] # None PROVE Explained(leases[h], h)'
      BY <1>5, <2>1, <2>2, <3>2, LifecycleAssumption DEF Explained, Restart
    <3> QED BY <2>4, <2>5, <3>1, <3>2 DEF TableInv, Account
  <2> QED BY <2>4, <2>6 DEF Preserved, SeqInv, CreatorInv, Creating, InHand
<1>6. CASE CutOff
  <2>1. /\ Stored' = {} /\ configured' = {} /\ \A t \in Tasks : pc'[t] = "idle"
        /\ \A h \in Hosts : leases'[h] = None
    BY <1>6 DEF CutOff, Stored
  <2> QED BY <2>1 DEF Preserved, SeqInv, TableInv, BoundIsLeased, Account, CreatorInv, Creating, InHand
<1> QED BY <1>1, <1>2, <1>4, <1>5, <1>6

-----------------------------------------------------------------------------
(* Which binding a step can give up.                                       *)

(* A binding leaves the store by being deleted itself.                     *)
LEMMA OnlyForgotten ==
  ASSUME TypeOK, NEW w \in Workspaces, bindings[w] # None, bindings'[w] = None, NEW b \in Binding
  PROVE  ~ UNCHANGED bindings /\ ~ Store(b) /\ (Forget(b) => b.ws = w)
  BY AfterStore, AfterForget, LifecycleAssumption

(* A binding that answers is not lost by recovering it: to find it or to   *)
(* check it leaves it, and a session fails for want of the workspace, but  *)
(* for a stub that stalls.                                                 *)
LEMMA HealthyStep ==
  ASSUME Sequential, "cut" \notin Faults, TypeOK, SeqInv, [Next]_vars,
         NEW w \in Workspaces, bindings[w] # None, Healthy(bindings[w]), bindings'[w] = None
  PROVE  \E t \in Tasks :
           \/ pc[t] = "release" /\ job[t].cur.ws = w
           \/ pc[t] = "find" /\ job[t].arg \notin {None, bindings[w].host}
           \/ pc[t] = "session" /\ job[t].cur.ws = w /\ w \notin registered
           \/ Stalls /\ pc[t] \in {"reuse", "recover", "session"} /\ job[t].cur.ws = w
<1> DEFINE Goal == \E t \in Tasks :
                     \/ pc[t] = "release" /\ job[t].cur.ws = w
                     \/ pc[t] = "find" /\ job[t].arg \notin {None, bindings[w].host}
                     \/ pc[t] = "session" /\ job[t].cur.ws = w /\ w \notin registered
                     \/ Stalls /\ pc[t] \in {"reuse", "recover", "session"} /\ job[t].cur.ws = w
<1> USE DEF plugin, remote, vars
<1>c. bindings[w] \in Stored
  BY DEF Stored
<1>b. PICK c \in Stored : c = bindings[w]
  BY <1>c
<1>1. /\ c \in Binding /\ c.ws = w /\ c.host \in Hosts /\ leases[c.host] = w
      /\ c # None /\ Healthy(c)
  BY <1>b, StoredByName, LifecycleAssumption DEF SeqInv, TableInv, BoundIsLeased, Binding, TypeOK
<1>2. \A b \in Stored : b \in Binding /\ (b.ws = w => b = c)
  BY <1>1, StoredByName, StoredTwice
<1>3. ~ UNCHANGED bindings
  BY <1>1, OnlyForgotten
<1>4. ASSUME NEW t \in Tasks, Proceed(t)
      PROVE  Goal
  <2> USE <1>4
  <2>1. CASE StartStub(t) \/ OpenTunnel(t) \/ AwaitHealth(t) \/ Register(t)
    <3>1. job[t].cur \in Binding
      BY <2>1 DEF StartStub, OpenTunnel, AwaitHealth, Register, TypeOK
    <3>2. [job[t].cur EXCEPT !.sess = TRUE] \in Binding
      BY <3>1 DEF Binding
    <3>3. ~ Store(job[t].cur) /\ ~ Store([job[t].cur EXCEPT !.sess = TRUE])
      BY <3>1, <3>2, OnlyForgotten
    <3> QED BY <1>3, <2>1, <3>3 DEF StartStub, OpenTunnel, AwaitHealth, Register, BootFails
  <2>2. ASSUME pc[t] = "find", NEW b \in job[t].todo, FindNext(t, b)
        PROVE  Goal
    <3>1. b \in Stored
      BY <2>2 DEF SeqInv, InHand
    <3>2. /\ Forget(b)
          /\ Selectable(leases, b.ws, Candidates(IF job[t].arg = None THEN b.host ELSE job[t].arg)) = {}
      BY <1>3, <2>2 DEF FindNext
    <3>3. b = c
      BY <1>2, <3>1, <3>2, OnlyForgotten
    <3>4. job[t].arg \notin {None, c.host}
      BY <1>1, <3>2, <3>3, LifecycleAssumption DEF Selectable, Candidates
    <3> QED BY <1>b, <2>2, <3>4
  <2>3. ASSUME pc[t] = "reuse", NEW r \in Outcomes(job[t].cur), Reuse(t, r)
        PROVE  Goal
    <3>1. PICK b : b = job[t].cur
      OBVIOUS
    <3>2. b \in Stored /\ b \in Binding
      BY <1>2, <2>3, <3>1 DEF SeqInv, InHand
    <3>3. /\ r = None => ~ Healthy(b) \/ Stalls
          /\ r # None => r \in Binding
      BY <2>3, <3>1, <3>2, RecoverGives DEF Reuse
    <3>4. r = None /\ Forget(b)
      BY <1>3, <2>3, <3>1, <3>3, OnlyForgotten DEF Reuse, ReuseFails
    <3>5. b = c
      BY <1>2, <3>2, <3>4, OnlyForgotten
    <3> QED BY <1>1, <2>3, <3>1, <3>3, <3>4, <3>5
  <2>4. CASE MakeSession(t)
    <3> DEFINE b == [job[t].cur EXCEPT !.sess = TRUE]
    <3>1. job[t].cur \in Binding /\ pc[t] = "session"
      BY <2>4 DEF MakeSession, TypeOK
    <3>2. b \in Binding /\ b.ws = job[t].cur.ws /\ b.host = job[t].cur.host /\ b.tunnel = job[t].cur.tunnel
      BY <3>1 DEF Binding
    <3>3. /\ ~ Healthy(job[t].cur) \/ job[t].cur.ws \notin registered \/ Stalls
          /\ Forget(job[t].cur) \/ Forget(b)
      BY <2>4, <3>2, OnlyForgotten DEF MakeSession, ReuseFails, Stalls, Healthy
    <3>4. job[t].cur.ws = w
      BY <3>1, <3>2, <3>3, OnlyForgotten
    <3>5. c = job[t].cur \/ Stalls
      BY <1>b, <1>1, <3>1, <3>4 DEF SeqInv, InHand, Healthy, Answers, Leads
    <3> QED BY <1>1, <3>1, <3>3, <3>4, <3>5
  <2>5. CASE FindNone(t)
    BY <1>3, <2>5 DEF FindNone
  <2>6. ASSUME pc[t] = "scan", NEW b \in job[t].todo, ScanNext(t, b)
        PROVE  Goal
    <3>1. b \in Stored
      BY <2>6 DEF SeqInv, InHand
    <3>2. Forget(b) /\ Selectable(leases, b.ws, {b.host}) = {}
      BY <1>3, <2>6 DEF ScanNext, ScanFails
    <3>3. b = c
      BY <1>2, <3>1, <3>2, OnlyForgotten
    <3> QED BY <1>1, <3>2, <3>3 DEF Selectable
  <2>7. ASSUME pc[t] = "recover", NEW r \in Outcomes(job[t].cur), RecoverDone(t, r)
        PROVE  Goal
    <3>1. PICK b : b = job[t].cur
      OBVIOUS
    <3>2. b \in Stored /\ b \in Binding
      BY <1>2, <2>7, <3>1 DEF SeqInv, InHand
    <3>3. /\ r = None => ~ Healthy(b) \/ Stalls
          /\ r # None => r \in Binding
      BY <2>7, <3>1, <3>2, RecoverGives DEF RecoverDone
    <3>4. r = None /\ Forget(b)
      BY <1>3, <2>7, <3>1, <3>3, OnlyForgotten DEF RecoverDone, ScanFails
    <3>5. b = c
      BY <1>2, <3>2, <3>4, OnlyForgotten
    <3> QED BY <1>1, <2>7, <3>1, <3>3, <3>4, <3>5
  <2>8. CASE Drop(t)
    <3>1. job[t].cur \in Binding /\ Forget(job[t].cur) /\ pc[t] = "release"
      BY <2>8 DEF Drop, TypeOK
    <3> QED BY <3>1, OnlyForgotten
  <2>9. CASE \/ ScanEnd(t) \/ KillTunnel(t) \/ DropEnd(t) \/ DoctorCheck(t)
             \/ pc[t] = "drop" /\ \E b \in job[t].todo : Unregister(t, b)
    BY <1>3, <2>9 DEF ScanEnd, KillTunnel, DropEnd, DoctorCheck, Unregister
  <2> QED BY <2>1, <2>2, <2>3, <2>4, <2>5, <2>6, <2>7, <2>8, <2>9 DEF Proceed
<1>5. ASSUME NEW t \in Tasks, Invoke(t)
      PROVE  Goal
  BY <1>3, <1>5 DEF Invoke, CreateStart, AdapterCreate, SwitchStart, ScanStart, RemoveStart
<1>6. CASE \/ \E v \in Workspaces, arg \in Hosts \cup {None, Unknown}, h \in Hosts : Configure(v, arg, h)
           \/ \E v \in Workspaces : RemoveConfigured(v)
           \/ \E n \in Tunnels : TunnelDies(n)
           \/ \E h \in Hosts : Reboot(h)
           \/ Restart \/ CutOff \/ UNCHANGED vars
  BY <1>3, <1>6 DEF Configure, RemoveConfigured, TunnelDies, Reboot, Restart, CutOff
<1> QED BY <1>4, <1>5, <1>6 DEF Next

-----------------------------------------------------------------------------
(* Every step.                                                             *)
LEMMA SeqSteps ==
  ASSUME Sequential, TypeOK, SeqInv, [Next]_vars
  PROVE  Preserved
  BY InvokeKeeps, ProceedKeeps, SurroundingsKeep DEF Next

(* Nothing is leased, stored or configured at the start.                   *)
LEMMA SeqInit == Init => SeqInv /\ Account
  BY DEF Init, SeqInv, TableInv, BoundIsLeased, Stored, CreatorInv, Creating, InHand, Account

(* While one invocation follows another, whichever tools they are, the     *)
(* lease table covers the store, no workspace has two leases, and what an  *)
(* invocation has in hand is in the store when it comes to use it          *)
(* (findReusableBinding, ensureBindingReady and the removals, which all    *)
(* read the store before an await and write it after).                     *)
THEOREM SequentialInvariant ==
  ASSUME Sequential
  PROVE  Spec => [](TypeOK /\ SeqInv)
<1>1. TypeOK /\ SeqInv /\ [Next]_vars => SeqInv'
  BY SeqSteps DEF Preserved
<1> QED
  BY <1>1, SeqInit, TypeCorrect, PTL DEF Spec

(* A stored binding holds its host's lease, for every tool                 *)
(* (rehydrateLeasesFromState, the release in every catch, removeBinding).  *)
THEOREM BindingsStayLeased ==
  ASSUME Sequential
  PROVE  Spec => []BoundIsLeased
<1>1. SeqInv => BoundIsLeased
  BY DEF SeqInv, TableInv
<1> QED
  BY <1>1, SequentialInvariant, PTL

(* No lease outlives its use, whatever fails and whenever OpenCode ends,   *)
(* unless OpenCode removes a workspace it has configured and not created   *)
(* (configureWorkspace, whose lease nothing then gives back).              *)
THEOREM LeasesAreAccountedFor ==
  ASSUME Sequential, "abandon" \notin Tools
  PROVE  Spec => []LeaseAccounted
<1>1. TypeOK /\ SeqInv /\ Account /\ [Next]_vars => Account'
  BY SeqSteps DEF Preserved
<1>2. TypeOK /\ Account => LeaseAccounted
  BY AccountSuffices
<1> QED
  BY <1>1, <1>2, SeqInit, SequentialInvariant, PTL DEF Spec

(* A binding that can be reached is given up by its removal only, or where *)
(* the code cannot reuse it (findReusableBinding, ensureBindingReady and   *)
(* the catches around them), as long as the state file is written whole;   *)
(* where stubs may stall, also by a probe or a session of its own that the *)
(* stub left unanswered.                                                   *)
THEOREM ReachableBindingsStay ==
  ASSUME Sequential, "cut" \notin Faults
  PROVE  Spec => HealthyStays
<1>1. TypeOK /\ SeqInv /\ [Next]_vars =>
        [\A w \in Workspaces :
           bindings[w] # None /\ Healthy(bindings[w]) /\ bindings'[w] = None =>
             \E t \in Tasks :
               \/ pc[t] = "release" /\ job[t].cur.ws = w
               \/ pc[t] = "find" /\ job[t].arg \notin {None, bindings[w].host}
               \/ pc[t] = "session" /\ job[t].cur.ws = w /\ w \notin registered
               \/ "stall" \in Faults /\ pc[t] \in {"reuse", "recover", "session"} /\ job[t].cur.ws = w]_vars
  BY HealthyStep DEF Stalls
<1> QED
  BY <1>1, SequentialInvariant, PTL DEF Spec, HealthyStays
=============================================================================
