-------------------------- MODULE SshManagerProofs --------------------------
(***************************************************************************)
(* SSHManager, for any hosts, workspaces, port range and faults: types,    *)
(* the end of every call, that no stored binding faces another workspace's *)
(* stub, that no ssh process drops out of sight, and that a search for a   *)
(* port tries the whole range.                                             *)
(***************************************************************************)
EXTENDS SshManager, TLAPS

(* Type correctness, by the variables that belong together.                *)
JobsOK ==
  /\ pc \in [Workspaces -> Labels]
  /\ job \in [Workspaces -> Job \cup {None}]
  /\ \A w \in Workspaces : (pc[w] = "idle") <=> (job[w] = None)
  /\ \A w \in Workspaces : pc[w] \in {"wait", "health", "cleanup", "closing"} => job[w].pid \in Pids
StoreOK ==
  /\ bound \in [Workspaces -> Binding \cup {None}]
  /\ fresh \subseteq Workspaces /\ lost \subseteq Pids
LocalOK == child \in [Pids -> Child \cup {None}] /\ strangers \subseteq Ports
HostOK ==
  /\ tokenFile \in [Hosts -> Tokens \cup {None}] /\ running \in [Hosts -> Tokens \cup {None}]
  /\ contested \subseteq Hosts

(* The search never leaves the range.                                      *)
LEMMA SearchPortInRange ==
  ASSUME NEW p \in Ports, NEW k \in 0 .. Span - 1
  PROVE  SearchPort(p, k) \in Ports
<1>1. Span \in Nat \ {0} /\ p - First + k \in Nat /\ First \in Int /\ Last \in Int
  BY SshAssumption DEF Span, Ports
<1>2. (p - First + k) % Span \in 0 .. Span - 1
  BY <1>1
<1> QED BY <1>1, <1>2 DEF SearchPort, Span, Ports

(* A search has a port of the range at every attempt.                      *)
LEMMA SearchFromIsJob ==
  ASSUME NEW w \in Workspaces, NEW j \in Job, NEW k \in 0 .. Span - 1
  PROVE  SearchFrom(w, j, k) \in Job /\ SearchFrom(w, j, k).attempt = k
<1>1. SearchPort(InitialPort[w], k) \in Ports
  BY SearchPortInRange, SshAssumption
<1>2. k \in -1 .. Span - 1
  BY SshAssumption DEF Span
<1> QED BY <1>1, <1>2 DEF SearchFrom, Job

(* Moves of a call.                                                        *)
LEMMA Moves ==
  ASSUME JobsOK, NEW w \in Workspaces, NEW l \in Labels \ {"idle"}, NEW j \in Job,
         l \in {"wait", "health", "cleanup", "closing"} => j.pid \in Pids
  PROVE  /\ Enter(w, l, j) => JobsOK'
         /\ Finish(w) => JobsOK'
         /\ pc[w] # "idle" /\ job[w] = j /\ Goto(w, l) => JobsOK'
  BY SshAssumption DEF JobsOK, Enter, Finish, Goto, Labels

(* A call ends.                                                            *)
LEMMA Ends ==
  ASSUME JobsOK, NEW w \in Workspaces, Finish(w)
  PROVE  JobsOK'
  BY DEF JobsOK, Enter, Finish, Labels

(* A call in progress has its job.                                         *)
LEMMA BusyJob ==
  ASSUME JobsOK, NEW w \in Workspaces, pc[w] # "idle"
  PROVE  job[w] \in Job
  BY DEF JobsOK

(* A call fails.                                                           *)
LEMMA ThrowsTypes ==
  ASSUME JobsOK, StoreOK, NEW w \in Workspaces, NEW orphan \in SUBSET Pids, Throws(w, orphan)
  PROVE  JobsOK' /\ StoreOK'
  BY Ends DEF Throws, StoreOK, Live

(* The search goes on, or has tried every port.                            *)
LEMMA NextPortTypes ==
  ASSUME JobsOK, StoreOK, NEW w \in Workspaces, NEW j \in Job, NextPort(w, j)
  PROVE  JobsOK' /\ StoreOK'
<1>1. CASE j.attempt + 1 < Span
  <2>1. j.attempt + 1 \in 0 .. Span - 1
    BY <1>1, SshAssumption DEF Job, Span
  <2> DEFINE k == j.attempt + 1
  <2>2. SearchFrom(w, j, k) \in Job
    BY <2>1, SearchFromIsJob
  <2>3. Enter(w, "probe", SearchFrom(w, j, k)) /\ UNCHANGED <<bound, fresh, lost>>
    BY <1>1 DEF NextPort
  <2>4. JobsOK'
    BY <2>2, <2>3, Moves DEF Labels
  <2> QED BY <2>3, <2>4 DEF StoreOK
<1>2. CASE ~ (j.attempt + 1 < Span)
  BY <1>2, ThrowsTypes DEF NextPort
<1> QED BY <1>1, <1>2

(* An ssh process is told to end.                                          *)
LEMMA CloseTunnelTypes ==
  ASSUME JobsOK, LocalOK, NEW w \in Workspaces, NEW j \in Job, j.pid \in Pids, CloseTunnel(w, j)
  PROVE  JobsOK' /\ child' \in [Pids -> Child \cup {None}]
<1>1. Enter(w, "closing", j) \/ Finish(w)
  BY DEF CloseTunnel
<1>2. JobsOK'
  BY <1>1, Moves, Ends DEF Labels
<1> QED BY <1>2 DEF CloseTunnel, LocalOK

(* Every variable keeps values of its kind: no call goes on without its    *)
(* job, and the ports of jobs and bindings are ports of the range.         *)
THEOREM TypeCorrect == Spec => []TypeOK
<1>1. Init => TypeOK
  BY SshAssumption DEF Init, TypeOK, Tokens, Labels
<1>2. TypeOK /\ [Next]_vars => TypeOK'
  <2> SUFFICES ASSUME JobsOK, StoreOK, LocalOK, HostOK, [Next]_vars
               PROVE  JobsOK' /\ StoreOK' /\ LocalOK' /\ HostOK'
    BY DEF TypeOK, JobsOK, StoreOK, LocalOK, HostOK
  <2> DEFINE Kept == JobsOK' /\ StoreOK' /\ LocalOK' /\ HostOK'
  <2>1. ASSUME NEW w \in Workspaces, BootStart(w) PROVE Kept
    <3> DEFINE j == [kind |-> IF w \in Harness THEN "verify" ELSE "boot",
                     port |-> InitialPort[w], pid |-> None, attempt |-> 0, tried |-> {}]
    <3>1. j \in Job
      BY SshAssumption DEF Job, Kinds, Span, Ports
    <3>2. Enter(w, "install", j)
      BY <2>1 DEF BootStart
    <3> HIDE DEF j
    <3>3. JobsOK'
      BY <3>1, <3>2, Moves DEF Labels
    <3>4. contested' \subseteq Hosts
      BY <2>1, SshAssumption DEF BootStart, HostOK
    <3> QED BY <2>1, <3>3, <3>4 DEF BootStart, StoreOK, LocalOK, HostOK
  <2>2. ASSUME NEW w \in Workspaces, Install(w) PROVE Kept
    <3>1. JobsOK'
      BY <2>2, Moves, BusyJob DEF Install, Labels
    <3> QED BY <2>2, <3>1 DEF Install, StoreOK, LocalOK, HostOK, host, Tokens
  <2>3. ASSUME NEW w \in Workspaces, KillOld(w) PROVE Kept
    <3>1. JobsOK'
      BY <2>3, Moves, BusyJob DEF KillOld, Labels
    <3> QED BY <2>3, <3>1 DEF KillOld, StoreOK, LocalOK, HostOK, host
  <2>4. ASSUME NEW w \in Workspaces, StartStub(w) PROVE Kept
    <3>1. job[w] \in Job
      BY <2>4, BusyJob DEF StartStub
    <3>2. 0 \in 0 .. Span - 1
      BY SshAssumption DEF Span
    <3>3. SearchFrom(w, job[w], 0) \in Job
      BY <3>1, <3>2, SearchFromIsJob
    <3>4. JobsOK'
      BY <2>4, <3>3, Moves DEF StartStub, Labels
    <3> QED BY <2>4, <3>4, SshAssumption DEF StartStub, StoreOK, LocalOK, HostOK, host
  <2>5. ASSUME NEW w \in Workspaces, Probe(w) PROVE Kept
    <3> DEFINE j == [job[w] EXCEPT !.tried = @ \cup {job[w].port}]
    <3>1. job[w] \in Job
      BY <2>5, BusyJob DEF Probe
    <3>2. j \in Job
      BY <3>1 DEF Job
    <3>3. CASE NextPort(w, j) /\ UNCHANGED child
      <4> HIDE DEF j
      <4>1. JobsOK' /\ StoreOK'
        BY <3>2, <3>3, NextPortTypes
      <4> QED BY <2>5, <3>3, <4>1 DEF Probe, LocalOK, HostOK, host
    <3>4. ASSUME NEW n \in FreePids, UNCHANGED <<bound, fresh, lost>>,
                 child' = [child EXCEPT ![n] = [port |-> j.port, host |-> HostOf[w], up |-> FALSE]],
                 Enter(w, "wait", [j EXCEPT !.pid = n])
          PROVE  Kept
      <4>1. n \in Pids /\ [j EXCEPT !.pid = n] \in Job /\ [j EXCEPT !.pid = n].pid = n /\ j.port \in Ports
        BY <3>2 DEF FreePids, Job
      <4>2. JobsOK'
        <5> HIDE DEF j
        <5> QED BY <3>4, <4>1, Moves DEF Labels
      <4>3. LocalOK'
        BY <2>5, <3>4, <4>1, SshAssumption DEF Probe, LocalOK, Child
      <4> QED BY <2>5, <3>4, <4>2, <4>3 DEF Probe, StoreOK, HostOK, host
    <3> QED BY <2>5, <3>3, <3>4 DEF Probe
  <2>6. ASSUME NEW w \in Workspaces, Reached(w) PROVE Kept
    <3>1. JobsOK'
      BY <2>6, Moves, BusyJob DEF Reached, Labels, JobsOK
    <3> QED BY <2>6, <3>1 DEF Reached, StoreOK, LocalOK, HostOK, host
  <2>7. ASSUME NEW w \in Workspaces, TimedOut(w) PROVE Kept
    <3>1. job[w] \in Job
      BY <2>7, BusyJob DEF TimedOut
    <3>2. JobsOK' /\ StoreOK'
      BY <2>7, <3>1, NextPortTypes DEF TimedOut
    <3> QED BY <2>7, <3>2 DEF TimedOut, LocalOK, HostOK, host
  <2>8. ASSUME NEW w \in Workspaces, AwaitHealth(w) PROVE Kept
    <3>1. job[w] \in Job /\ job[w].pid \in Pids
      BY <2>8, BusyJob DEF AwaitHealth, JobsOK
    <3>2. CASE Throws(w, {job[w].pid} \cap Live)
      <4>1. JobsOK' /\ StoreOK'
        BY <3>1, <3>2, ThrowsTypes
      <4> QED BY <2>8, <4>1 DEF AwaitHealth, LocalOK, HostOK, host
    <3>3. CASE ~ Throws(w, {job[w].pid} \cap Live)
      <4>1. Goto(w, "cleanup") \/ Finish(w)
        BY <2>8, <3>3 DEF AwaitHealth
      <4>2. JobsOK'
        BY <2>8, <3>1, <4>1, Moves, Ends DEF AwaitHealth, Labels
      <4>3. [port |-> job[w].port, pid |-> job[w].pid] \in Binding
        BY <3>1 DEF Job, Binding
      <4>4. StoreOK'
        BY <2>8, <3>3, <4>3 DEF AwaitHealth, StoreOK, Live
      <4> QED BY <2>8, <4>2, <4>4 DEF AwaitHealth, LocalOK, HostOK, host
    <3> QED BY <3>2, <3>3
  <2>9. ASSUME NEW w \in Workspaces, NEW kind \in Kinds, bound[w] # None
        PROVE  JobOn(kind, w) \in Job /\ JobOn(kind, w).pid \in Pids
    BY <2>9, SshAssumption DEF JobOn, Job, StoreOK, Binding, Span
  <2>10. ASSUME NEW w \in Workspaces, Recover(w) PROVE Kept
    <3>1. [JobOn("recover", w) EXCEPT !.pid = None] \in Job
      BY <2>9, <2>10 DEF Recover, Job, Kinds
    <3>2. JobsOK'
      BY <2>10, <3>1, Moves DEF Recover, Labels
    <3> QED BY <2>10, <3>2 DEF Recover, StoreOK, LocalOK, HostOK, host
  <2>11. ASSUME NEW w \in Workspaces, Close(w) PROVE Kept
    <3>1. JobsOK' /\ child' \in [Pids -> Child \cup {None}]
      BY <2>9, <2>11, CloseTunnelTypes DEF Close, Kinds
    <3> QED BY <2>11, <3>1 DEF Close, StoreOK, LocalOK, HostOK, host
  <2>12. ASSUME NEW w \in Workspaces, Closed(w) PROVE Kept
    <3>1. JobsOK'
      BY <2>12, Ends DEF Closed
    <3> QED BY <2>12, <3>1 DEF Closed, StoreOK, LocalOK, HostOK, host
  <2>13. ASSUME NEW w \in Workspaces, HarnessCleanup(w) PROVE Kept
    <3>1. job[w] \in Job /\ job[w].pid \in Pids
      BY <2>13, BusyJob DEF HarnessCleanup, JobsOK
    <3>2. JobsOK' /\ child' \in [Pids -> Child \cup {None}]
      BY <2>13, <3>1, CloseTunnelTypes, Ends DEF HarnessCleanup, LocalOK
    <3> QED BY <2>13, <3>2 DEF HarnessCleanup, StoreOK, LocalOK, HostOK, host, Live
  <2>14. ASSUME NEW n \in Pids, Connect(n) \/ TunnelDies(n) PROVE Kept
    <3>1. child' \in [Pids -> Child \cup {None}]
      BY <2>14 DEF Connect, TunnelDies, LocalOK, Child
    <3> QED BY <2>14, <3>1 DEF Connect, TunnelDies, calls, host, JobsOK, StoreOK, LocalOK, HostOK
  <2>15. ASSUME NEW h \in Hosts, StubDies(h) \/ Relaunch(h) PROVE Kept
    BY <2>15 DEF StubDies, Relaunch, calls, JobsOK, StoreOK, LocalOK, HostOK, host
  <2>16. ASSUME NEW p \in Ports, StrangerComes(p) \/ StrangerGoes(p) PROVE Kept
    BY <2>16 DEF StrangerComes, StrangerGoes, calls, host, JobsOK, StoreOK, LocalOK, HostOK
  <2>17. CASE UNCHANGED vars
    BY <2>17 DEF vars, calls, host, JobsOK, StoreOK, LocalOK, HostOK
  <2> QED
    BY <2>1, <2>2, <2>3, <2>4, <2>5, <2>6, <2>7, <2>8, <2>10, <2>11, <2>12, <2>13, <2>14, <2>15,
       <2>16, <2>17 DEF Next, Proceed
<1> QED BY <1>1, <1>2, PTL DEF Spec

-----------------------------------------------------------------------------
(* Every call ends.                                                        *)

(* The rank, label by label.                                               *)
LEMMA RankAt ==
  ASSUME NEW j
  PROVE  /\ Rank("idle", j) = 0 /\ Rank("closing", j) = 1 /\ Rank("cleanup", j) = 2
         /\ Rank("health", j) = 3
         /\ Rank("wait", j) = 2 + 2 * (Span - j.attempt)
         /\ Rank("probe", j) = 3 + 2 * (Span - j.attempt)
         /\ Rank("start", j) = 6 + 2 * Span /\ Rank("kill", j) = 7 + 2 * Span
         /\ Rank("install", j) = 8 + 2 * Span
  BY DEF Rank

(* Attempts are counted from before the first to the last.                 *)
LEMMA JobBounds ==
  ASSUME NEW j \in Job
  PROVE  Span \in Nat \ {0} /\ j.attempt \in Int /\ -1 <= j.attempt /\ j.attempt < Span
  BY SshAssumption DEF Job, Span

(* One call moves, or none.                                                *)
LEMMA OneCall ==
  ASSUME JobsOK, NEW w \in Workspaces, NEW l, NEW j
  PROVE  /\ Enter(w, l, j) => pc'[w] = l /\ job'[w] = j
         /\ Goto(w, l) => pc'[w] = l /\ job'[w] = job[w]
         /\ Finish(w) => pc'[w] = "idle" /\ job'[w] = None
         /\ Enter(w, l, j) \/ Goto(w, l) \/ Finish(w) =>
              \A v \in Workspaces \ {w} : pc'[v] = pc[v] /\ job'[v] = job[v]
  BY DEF JobsOK, Enter, Goto, Finish

Advances(w) ==
  pc[w] # "idle" /\ (pc'[w] # pc[w] \/ job'[w] # job[w]) =>
    Rank(pc'[w], job'[w]) < Rank(pc[w], job[w])
OthersWait(w) == \A v \in Workspaces \ {w} : pc'[v] = pc[v] /\ job'[v] = job[v]

(* To end is progress.                                                     *)
LEMMA EndsIsLess ==
  ASSUME JobsOK, NEW w \in Workspaces, Finish(w)
  PROVE  Advances(w) /\ OthersWait(w)
<1>1. pc'[w] = "idle" /\ OthersWait(w)
  BY OneCall DEF OthersWait
<1>2. CASE pc[w] = "idle"
  BY <1>1, <1>2 DEF Advances
<1>3. CASE pc[w] # "idle"
  <2>1. job[w] \in Job /\ pc[w] \in Labels
    BY <1>3 DEF JobsOK
  <2>2. Rank(pc[w], job[w]) > 0
    BY <1>3, <2>1, RankAt, JobBounds DEF Labels
  <2> QED BY <1>1, <2>2, RankAt DEF Advances
<1> QED BY <1>2, <1>3

(* The next port is progress.                                              *)
LEMMA NextPortIsLess ==
  ASSUME JobsOK, NEW w \in Workspaces, NEW j \in Job, pc[w] \in {"probe", "wait"},
         j.attempt = job[w].attempt, NextPort(w, j)
  PROVE  Advances(w) /\ OthersWait(w)
<1> DEFINE k == j.attempt + 1
           s == SearchFrom(w, j, k)
<1>1. CASE k < Span
  <2>1. k \in 0 .. Span - 1
    BY <1>1, JobBounds
  <2>2. Enter(w, "probe", s)
    BY <1>1 DEF NextPort
  <2>3. s.attempt = k
    BY <2>1, SearchFromIsJob
  <2>4. pc'[w] = "probe" /\ job'[w].attempt = job[w].attempt + 1 /\ OthersWait(w)
    <3> HIDE DEF s
    <3> QED BY <2>2, <2>3, OneCall DEF OthersWait
  <2>5. job[w].attempt \in Int /\ Span \in Int
    BY JobBounds
  <2>6. Rank(pc'[w], job'[w]) = 3 + 2 * (Span - (job[w].attempt + 1))
    BY <2>4, RankAt
  <2>7. Rank(pc[w], job[w]) \in {2 + 2 * (Span - job[w].attempt), 3 + 2 * (Span - job[w].attempt)}
    BY RankAt
  <2>8. Rank(pc'[w], job'[w]) < Rank(pc[w], job[w])
    BY <2>5, <2>6, <2>7
  <2> QED BY <2>4, <2>8 DEF Advances
<1>2. CASE ~ (k < Span)
  BY <1>2, EndsIsLess DEF NextPort, Throws
<1> QED BY <1>1, <1>2

(* To close a tunnel is progress.                                          *)
LEMMA CloseTunnelIsLess ==
  ASSUME JobsOK, NEW w \in Workspaces, NEW j, pc[w] \in {"idle", "cleanup"}, CloseTunnel(w, j)
  PROVE  Advances(w) /\ OthersWait(w)
<1>1. CASE Finish(w)
  BY <1>1, EndsIsLess
<1>2. CASE Enter(w, "closing", j)
  BY <1>2, OneCall, RankAt DEF Advances, OthersWait
<1> QED BY <1>1, <1>2 DEF CloseTunnel

(* A call moves with every step of its own towards its end, and no step of *)
(* the hosts, tunnels and other calls moves it.                            *)
THEOREM CallsAdvance == Spec => CallAdvances
<1>1. TypeOK /\ [Next]_vars => \A w \in Workspaces : Advances(w)
  <2> SUFFICES ASSUME JobsOK, [Next]_vars PROVE \A w \in Workspaces : Advances(w)
    BY DEF TypeOK, JobsOK
  <2>1. ASSUME NEW w \in Workspaces, BootStart(w) \/ Recover(w)
        PROVE  Advances(w) /\ OthersWait(w)
    <3>1. CASE BootStart(w)
      <4> DEFINE j == [kind |-> IF w \in Harness THEN "verify" ELSE "boot",
                       port |-> InitialPort[w], pid |-> None, attempt |-> 0, tried |-> {}]
      <4>1. pc[w] = "idle" /\ Enter(w, "install", j)
        BY <3>1 DEF BootStart, Occupies
      <4> HIDE DEF j
      <4> QED BY <4>1, OneCall DEF Advances, OthersWait
    <3>2. CASE Recover(w)
      <4> DEFINE j == [JobOn("recover", w) EXCEPT !.pid = None]
      <4>1. pc[w] = "idle" /\ Enter(w, "probe", j)
        BY <3>2 DEF Recover
      <4> HIDE DEF j
      <4> QED BY <4>1, OneCall DEF Advances, OthersWait
    <3> QED BY <2>1, <3>1, <3>2
  <2>2. ASSUME NEW w \in Workspaces, Close(w) PROVE Advances(w) /\ OthersWait(w)
    BY <2>2, CloseTunnelIsLess DEF Close
  <2>3. ASSUME NEW w \in Workspaces, Install(w) \/ KillOld(w) PROVE Advances(w) /\ OthersWait(w)
    <3>1. CASE Finish(w)
      BY <3>1, EndsIsLess
    <3>2. CASE ~ Finish(w)
      <4>1. \/ pc[w] = "install" /\ Goto(w, "kill")
            \/ pc[w] = "kill" /\ Goto(w, "start")
        BY <2>3, <3>2 DEF Install, KillOld
      <4>2. Span \in Int
        BY SshAssumption DEF Span
      <4>3. job'[w] = job[w] /\ OthersWait(w)
        BY <4>1, OneCall DEF OthersWait
      <4>4. \/ Rank(pc[w], job[w]) = 8 + 2 * Span /\ Rank(pc'[w], job'[w]) = 7 + 2 * Span
            \/ Rank(pc[w], job[w]) = 7 + 2 * Span /\ Rank(pc'[w], job'[w]) = 6 + 2 * Span
        <5>1. \/ pc[w] = "install" /\ pc'[w] = "kill"
              \/ pc[w] = "kill" /\ pc'[w] = "start"
          BY <4>1, OneCall
        <5> QED BY <5>1, <4>3, RankAt
      <4> QED BY <4>2, <4>3, <4>4 DEF Advances
    <3> QED BY <3>1, <3>2
  <2>4. ASSUME NEW w \in Workspaces, StartStub(w) PROVE Advances(w) /\ OthersWait(w)
    <3>1. CASE Finish(w)
      BY <3>1, EndsIsLess
    <3>2. CASE ~ Finish(w)
      <4> DEFINE s == SearchFrom(w, job[w], 0)
      <4>1. job[w] \in Job /\ pc[w] = "start" /\ Enter(w, "probe", s)
        BY <2>4, <3>2, BusyJob DEF StartStub
      <4>2. s.attempt = 0 /\ Span \in Nat
        BY <4>1, SshAssumption, SearchFromIsJob DEF Span
      <4> HIDE DEF s
      <4>3. pc'[w] = "probe" /\ job'[w] = s /\ OthersWait(w)
        BY <4>1, OneCall DEF OthersWait
      <4>4. Rank(pc'[w], job'[w]) = 3 + 2 * Span /\ Rank(pc[w], job[w]) = 6 + 2 * Span
        BY <4>1, <4>2, <4>3, RankAt
      <4> QED BY <4>2, <4>3, <4>4 DEF Advances
    <3> QED BY <3>1, <3>2
  <2>5. ASSUME NEW w \in Workspaces, Probe(w) PROVE Advances(w) /\ OthersWait(w)
    <3> DEFINE j == [job[w] EXCEPT !.tried = @ \cup {job[w].port}]
    <3>1. job[w] \in Job /\ pc[w] = "probe"
      BY <2>5, BusyJob DEF Probe
    <3>2. j \in Job /\ j.attempt = job[w].attempt
      BY <3>1 DEF Job
    <3>3. CASE NextPort(w, j)
      <4> HIDE DEF j
      <4> QED BY <3>1, <3>2, <3>3, NextPortIsLess
    <3>4. ASSUME NEW n \in Pids, Enter(w, "wait", [j EXCEPT !.pid = n])
          PROVE  Advances(w) /\ OthersWait(w)
      <4> DEFINE g == [j EXCEPT !.pid = n]
      <4>1. g.attempt = job[w].attempt
        BY <3>1 DEF Job
      <4>2. Enter(w, "wait", g)
        BY <3>4
      <4> HIDE DEF g
      <4>3. pc'[w] = "wait" /\ job'[w] = g /\ OthersWait(w)
        BY <4>2, OneCall DEF OthersWait
      <4>4. Span \in Int /\ job[w].attempt \in Int
        BY <3>1, JobBounds
      <4> QED BY <3>1, <4>1, <4>3, <4>4, RankAt DEF Advances
    <3> QED BY <2>5, <3>3, <3>4 DEF Probe, FreePids
  <2>6. ASSUME NEW w \in Workspaces, Reached(w) PROVE Advances(w) /\ OthersWait(w)
    <3>1. job[w] \in Job /\ pc[w] = "wait" /\ Goto(w, "health")
      BY <2>6, BusyJob DEF Reached
    <3>2. pc'[w] = "health" /\ job'[w] = job[w] /\ OthersWait(w)
      BY <3>1, OneCall DEF OthersWait
    <3>3. Rank(pc'[w], job'[w]) = 3 /\ Rank(pc[w], job[w]) = 2 + 2 * (Span - job[w].attempt)
      BY <3>1, <3>2, RankAt
    <3> QED BY <3>1, <3>2, <3>3, JobBounds DEF Advances
  <2>7. ASSUME NEW w \in Workspaces, TimedOut(w) PROVE Advances(w) /\ OthersWait(w)
    BY <2>7, BusyJob, NextPortIsLess DEF TimedOut
  <2>8. ASSUME NEW w \in Workspaces, AwaitHealth(w) PROVE Advances(w) /\ OthersWait(w)
    <3>1. CASE Finish(w)
      BY <3>1, EndsIsLess
    <3>2. CASE ~ Finish(w)
      <4>1. pc[w] = "health" /\ Goto(w, "cleanup")
        BY <2>8, <3>2 DEF AwaitHealth, Throws
      <4> QED BY <4>1, OneCall, RankAt DEF Advances, OthersWait
    <3> QED BY <3>1, <3>2
  <2>9. ASSUME NEW w \in Workspaces, Closed(w) PROVE Advances(w) /\ OthersWait(w)
    BY <2>9, EndsIsLess DEF Closed
  <2>10. ASSUME NEW w \in Workspaces, HarnessCleanup(w) PROVE Advances(w) /\ OthersWait(w)
    BY <2>10, EndsIsLess, CloseTunnelIsLess DEF HarnessCleanup
  <2>11. ASSUME \/ \E n \in Pids : Connect(n) \/ TunnelDies(n)
                \/ \E h \in Hosts : StubDies(h) \/ Relaunch(h)
                \/ \E p \in Ports : StrangerComes(p) \/ StrangerGoes(p)
                \/ UNCHANGED vars
         PROVE  \A w \in Workspaces : Advances(w)
    BY <2>11 DEF Connect, TunnelDies, StubDies, Relaunch, StrangerComes, StrangerGoes, vars, calls, Advances
  <2>12. ASSUME NEW w \in Workspaces, Advances(w), OthersWait(w)
         PROVE  \A v \in Workspaces : Advances(v)
    BY <2>12 DEF Advances, OthersWait
  <2> QED
    BY <2>1, <2>2, <2>3, <2>4, <2>5, <2>6, <2>7, <2>8, <2>9, <2>10, <2>11, <2>12 DEF Next, Proceed
<1>2. TypeOK /\ [Next]_vars =>
        [\A w \in Workspaces : pc[w] # "idle" /\ (pc'[w] # pc[w] \/ job'[w] # job[w]) =>
           Rank(pc'[w], job'[w]) < Rank(pc[w], job[w])]_vars
  BY <1>1 DEF Advances
<1> QED BY <1>2, TypeCorrect, PTL DEF Spec, CallAdvances

-----------------------------------------------------------------------------
(* Bindings face the stub that was started for them.                       *)

(* Steps that leave hosts alone and begin no bootstrap keep the invariant, *)
(* if what they bind was bound, or is served its token.                    *)
LEMMA HostsStay ==
  ASSUME TokenInv, UNCHANGED host,
         \A v \in Workspaces :
           \/ pc'[v] = pc[v] /\ bound'[v] = bound[v]
           \/ /\ Occupies(v) /\ pc[v] # "install" /\ pc'[v] \notin Booting
              /\ bound'[v] # None => bound[v] # None \/ running[HostOf[v]] = v
  PROVE  TokenInv'
<1>1. \A v \in Workspaces : Occupies(v)' => Occupies(v)
  BY DEF Occupies
<1>2. TokenInForce'
  BY DEF TokenInv, TokenInForce, host
<1> QED BY <1>1, <1>2 DEF TokenInv, Quiet, Occupies, host, Booting

(* A call ends.                                                            *)
LEMMA OthersStay ==
  ASSUME JobsOK, NEW w \in Workspaces, NEW l, NEW j, Enter(w, l, j) \/ Goto(w, l) \/ Finish(w)
  PROVE  \A v \in Workspaces \ {w} : pc'[v] = pc[v]
  BY OneCall

(* Neither the search nor its failure touches another call.                *)
LEMMA NextPortStays ==
  ASSUME JobsOK, StoreOK, NEW w \in Workspaces, NEW j, NextPort(w, j) \/ \E o : Throws(w, o)
  PROVE  /\ \A v \in Workspaces \ {w} : pc'[v] = pc[v] /\ bound'[v] = bound[v]
         /\ pc'[w] \in {"probe", "idle"}
         /\ bound'[w] \in {bound[w], None}
<1>1. \/ Enter(w, "probe", SearchFrom(w, j, j.attempt + 1)) /\ UNCHANGED bound
      \/ Finish(w) /\ (UNCHANGED bound \/ bound' = [bound EXCEPT ![w] = None])
  BY DEF NextPort, Throws
<1>2. CASE Enter(w, "probe", SearchFrom(w, j, j.attempt + 1)) /\ UNCHANGED bound
  BY <1>2, OneCall
<1>3. CASE Finish(w) /\ (UNCHANGED bound \/ bound' = [bound EXCEPT ![w] = None])
  BY <1>3, OneCall DEF StoreOK
<1> QED BY <1>1, <1>2, <1>3

(* The absent token is nobody's.                                           *)
LEMMA NoneIsNoWorkspace == None \notin Workspaces
  BY SshAssumption DEF Tokens

(* A step of the call on w keeps what the others have.                     *)
LEMMA TokenSteps == TypeOK /\ TokenInv /\ [Next]_vars => TokenInv'
<1> SUFFICES ASSUME JobsOK, StoreOK, LocalOK, HostOK, TokenInv, [Next]_vars PROVE TokenInv'
  BY DEF TypeOK, JobsOK, StoreOK, LocalOK, HostOK
<1>1. ASSUME NEW w \in Workspaces, BootStart(w) PROVE TokenInv'
  <2>1. /\ \A v \in Workspaces \ {w} : pc'[v] = pc[v]
        /\ pc'[w] = "install" /\ UNCHANGED <<bound, tokenFile, running>> /\ bound[w] = None
        /\ contested' = IF \E v \in Workspaces : HostOf[v] = HostOf[w] /\ Occupies(v)
                        THEN contested \cup {HostOf[w]} ELSE contested
    <3> DEFINE j == [kind |-> IF w \in Harness THEN "verify" ELSE "boot",
                     port |-> InitialPort[w], pid |-> None, attempt |-> 0, tried |-> {}]
    <3>1. Enter(w, "install", j)
      BY <1>1 DEF BootStart
    <3> HIDE DEF j
    <3>2. pc'[w] = "install" /\ \A v \in Workspaces \ {w} : pc'[v] = pc[v]
      BY <3>1, OneCall
    <3> QED BY <1>1, <3>2 DEF BootStart, Occupies
  <2>2. \A v \in Workspaces : Quiet(v)' => Quiet(v)
    BY <2>1 DEF Quiet
  <2>3. \A u, v \in Workspaces : Occupies(u) /\ HostOf[u] = HostOf[w] /\ HostOf[v] = HostOf[w] => ~ Quiet(v)'
    BY <2>1 DEF Quiet
  <2>4. \A v \in Workspaces : Occupies(v)' <=> v = w \/ Occupies(v)
    BY <2>1 DEF Occupies
  <2>5. TokenInForce'
    BY <2>1, <2>2 DEF TokenInv, TokenInForce, Quiet
  <2>6. \A u, v \in Workspaces : Occupies(u)' /\ Occupies(v)' /\ HostOf[u] = HostOf[v] /\ Quiet(v)' => u = v
    BY <2>2, <2>3, <2>4 DEF TokenInv
  <2>7. \A v \in Workspaces : pc'[v] \in Booting => bound'[v] = None
    BY <2>1 DEF TokenInv, Booting
  <2>8. \A v \in Workspaces : Occupies(v)' /\ pc'[v] # "install" /\ Quiet(v)' => tokenFile'[HostOf[v]] = v
    BY <2>1, <2>2, <2>4 DEF TokenInv
  <2> QED BY <2>1, <2>5, <2>6, <2>7, <2>8 DEF TokenInv
<1>2. ASSUME NEW w \in Workspaces, Install(w) PROVE TokenInv'
  <2>1. /\ pc[w] = "install" /\ UNCHANGED <<bound, running, contested>> /\ bound[w] = None
        /\ \A v \in Workspaces \ {w} : pc'[v] = pc[v]
        /\ \/ pc'[w] \in {"kill", "idle"} /\ tokenFile' = [tokenFile EXCEPT ![HostOf[w]] = w]
           \/ pc'[w] = "idle" /\ UNCHANGED tokenFile
    BY <1>2, OneCall DEF Install, TokenInv, Booting
  <2>2. Occupies(w) /\ HostOf[w] \in Hosts
    BY <2>1, SshAssumption DEF Occupies
  <2>3. \A v \in Workspaces \ {w} : Occupies(v) /\ Quiet(v) => HostOf[v] # HostOf[w]
    BY <2>2 DEF TokenInv, Quiet
  <2>4. \A v \in Workspaces : Occupies(v)' => Occupies(v)
    BY <2>1, <2>2 DEF Occupies
  <2>5. TokenInForce'
    BY <2>1 DEF TokenInv, TokenInForce
  <2>6. \A v \in Workspaces : Occupies(v)' /\ pc'[v] # "install" /\ Quiet(v)' => tokenFile'[HostOf[v]] = v
    <3> SUFFICES ASSUME NEW v \in Workspaces, Occupies(v)', pc'[v] # "install", Quiet(v)
                 PROVE  tokenFile'[HostOf[v]] = v
      BY <2>1 DEF Quiet
    <3>1. CASE v = w
      BY <2>1, <2>2, <3>1 DEF Occupies, HostOK
    <3>2. CASE v # w
      BY <2>1, <2>2, <2>3, <2>4, <3>2, SshAssumption DEF TokenInv, HostOK
    <3> QED BY <3>1, <3>2
  <2>7. \A h \in Hosts : tokenFile'[h] \in Workspaces => HostOf[tokenFile'[h]] = h
    <3> SUFFICES ASSUME NEW h \in Hosts, tokenFile'[h] \in Workspaces
                 PROVE  HostOf[tokenFile'[h]] = h
      OBVIOUS
    <3>1. tokenFile'[h] = tokenFile[h] \/ (h = HostOf[w] /\ tokenFile'[h] = w)
      BY <2>1, <2>2 DEF HostOK
    <3> QED BY <3>1 DEF TokenInv
  <2>8. \A u, v \in Workspaces : Occupies(u)' /\ Occupies(v)' /\ HostOf[u] = HostOf[v] /\ Quiet(v)' => u = v
    BY <2>1, <2>4 DEF TokenInv, Quiet
  <2>9. \A v \in Workspaces : pc'[v] \in Booting => bound'[v] = None
    BY <2>1 DEF TokenInv, Booting
  <2>10. \A h \in Hosts : running'[h] \in Workspaces => HostOf[running'[h]] = h
    BY <2>1 DEF TokenInv
  <2> QED BY <2>5, <2>6, <2>7, <2>8, <2>9, <2>10 DEF TokenInv
<1>3. ASSUME NEW w \in Workspaces, KillOld(w) \/ StartStub(w) PROVE TokenInv'
  <2>1. /\ pc[w] \in {"kill", "start"} /\ UNCHANGED <<bound, tokenFile, contested>> /\ bound[w] = None
        /\ \A v \in Workspaces \ {w} : pc'[v] = pc[v]
        /\ pc'[w] \in {"start", "probe", "idle"}
    BY <1>3, OneCall DEF KillOld, StartStub, TokenInv, Booting
  <2>2. running' \in {running, [running EXCEPT ![HostOf[w]] = None],
                      [running EXCEPT ![HostOf[w]] = tokenFile[HostOf[w]]]}
    BY <1>3 DEF KillOld, StartStub
  <2>3. Occupies(w) /\ HostOf[w] \in Hosts
    BY <2>1, SshAssumption DEF Occupies
  <2>4. \A v \in Workspaces \ {w} : Occupies(v) /\ Quiet(v) => HostOf[v] # HostOf[w]
    BY <2>3 DEF TokenInv, Quiet
  <2>5. \A v \in Workspaces : Occupies(v)' => Occupies(v)
    BY <2>1, <2>3 DEF Occupies
  <2>6. TokenInForce'
    BY <2>1, <2>2, <2>3, <2>4, SshAssumption DEF TokenInv, TokenInForce, Quiet, Occupies, HostOK
  <2>7. \A h \in Hosts : running'[h] \in Workspaces => HostOf[running'[h]] = h
    <3> SUFFICES ASSUME NEW h \in Hosts, running'[h] \in Workspaces
                 PROVE  HostOf[running'[h]] = h
      OBVIOUS
    <3>1. running'[h] \in {running[h], tokenFile[h]}
      BY <2>2, <2>3, NoneIsNoWorkspace DEF HostOK
    <3> QED BY <3>1 DEF TokenInv
  <2> QED BY <2>1, <2>5, <2>6, <2>7 DEF TokenInv, Quiet, Booting, Occupies
<1>4. ASSUME NEW w \in Workspaces, Probe(w) PROVE TokenInv'
  <2> DEFINE j == [job[w] EXCEPT !.tried = @ \cup {job[w].port}]
  <2>1. pc[w] = "probe" /\ UNCHANGED host
    BY <1>4 DEF Probe
  <2>2. CASE NextPort(w, j)
    <3> HIDE DEF j
    <3> QED BY <2>1, <2>2, NextPortStays, HostsStay DEF Occupies, Booting
  <2>3. CASE ~ NextPort(w, j)
    <3>1. PICK n \in FreePids : Enter(w, "wait", [j EXCEPT !.pid = n]) /\ UNCHANGED bound
      BY <1>4, <2>3 DEF Probe
    <3>2. pc'[w] = "wait" /\ \A v \in Workspaces \ {w} : pc'[v] = pc[v]
      <4> DEFINE g == [j EXCEPT !.pid = n]
      <4>1. Enter(w, "wait", g)
        BY <3>1
      <4> HIDE DEF g
      <4> QED BY <4>1, OneCall
    <3> QED BY <2>1, <3>1, <3>2, HostsStay DEF Occupies, Booting
  <2> QED BY <2>2, <2>3
<1>5. ASSUME NEW w \in Workspaces, Reached(w) \/ TimedOut(w) PROVE TokenInv'
  <2>1. pc[w] = "wait" /\ UNCHANGED host
    BY <1>5 DEF Reached, TimedOut
  <2>2. CASE TimedOut(w)
    BY <2>1, <2>2, NextPortStays, HostsStay DEF TimedOut, Occupies, Booting
  <2>3. CASE Reached(w)
    <3>1. pc'[w] = "health" /\ UNCHANGED bound /\ \A v \in Workspaces \ {w} : pc'[v] = pc[v]
      BY <2>3, OneCall DEF Reached
    <3> QED BY <2>1, <3>1, HostsStay DEF Occupies, Booting
  <2> QED BY <1>5, <2>2, <2>3
<1>6. ASSUME NEW w \in Workspaces, AwaitHealth(w) PROVE TokenInv'
  <2>1. pc[w] = "health" /\ UNCHANGED host
    BY <1>6 DEF AwaitHealth
  <2>2. CASE Throws(w, {job[w].pid} \cap Live)
    <3>1. \E o : Throws(w, o)
      BY <2>2
    <3> QED BY <2>1, <3>1, NextPortStays, HostsStay DEF Occupies, Booting
  <2>3. CASE ~ Throws(w, {job[w].pid} \cap Live)
    <3>1. /\ Answers(job[w].port, w)
          /\ \/ Goto(w, "cleanup") /\ UNCHANGED bound
             \/ Finish(w) /\ bound' = [bound EXCEPT ![w] = [port |-> job[w].port, pid |-> job[w].pid]]
      BY <1>6, <2>3 DEF AwaitHealth
    <3>2. running[HostOf[w]] = w
      <4>1. PICK n \in Pids : child[n] # None /\ running[child[n].host] = w
        BY <3>1 DEF Answers, Up
      <4>2. child[n].host \in Hosts
        BY <4>1 DEF LocalOK, Child
      <4> QED BY <4>1, <4>2 DEF TokenInv
    <3>3. pc'[w] \in {"cleanup", "idle"} /\ \A v \in Workspaces \ {w} : pc'[v] = pc[v] /\ bound'[v] = bound[v]
      BY <3>1, OneCall DEF StoreOK
    <3> QED BY <2>1, <3>2, <3>3, HostsStay DEF Occupies, Booting
  <2> QED BY <2>2, <2>3
<1>7. ASSUME NEW w \in Workspaces, NEW j, CloseTunnel(w, j)
      PROVE  pc'[w] \in {"closing", "idle"} /\ \A v \in Workspaces \ {w} : pc'[v] = pc[v]
  BY <1>7, OneCall DEF CloseTunnel
<1>8. ASSUME NEW w \in Workspaces, Recover(w) \/ Close(w) PROVE TokenInv'
  <2>1. pc[w] = "idle" /\ bound[w] # None /\ UNCHANGED <<bound, host>>
    BY <1>8 DEF Recover, Close
  <2>2. pc'[w] \in {"probe", "closing", "idle"} /\ \A v \in Workspaces \ {w} : pc'[v] = pc[v]
    <3>1. CASE Close(w)
      BY <1>7, <3>1 DEF Close
    <3>2. CASE Recover(w)
      <4> DEFINE j == [JobOn("recover", w) EXCEPT !.pid = None]
      <4>1. Enter(w, "probe", j)
        BY <3>2 DEF Recover
      <4> HIDE DEF j
      <4> QED BY <4>1, OneCall
    <3> QED BY <1>8, <3>1, <3>2
  <2> QED BY <2>1, <2>2, HostsStay DEF Occupies, Booting
<1>9. ASSUME NEW w \in Workspaces, Closed(w) PROVE TokenInv'
  <2>1. /\ pc[w] = "closing" /\ pc'[w] = "idle" /\ UNCHANGED host
        /\ \A v \in Workspaces \ {w} : pc'[v] = pc[v] /\ bound'[v] = bound[v]
        /\ bound'[w] \in {bound[w], None}
    BY <1>9, OneCall DEF Closed, StoreOK
  <2> QED BY <2>1, HostsStay DEF Occupies, Booting
<1>10. ASSUME NEW w \in Workspaces, HarnessCleanup(w) PROVE TokenInv'
  <2>1. pc[w] = "cleanup" /\ UNCHANGED <<bound, host>>
    BY <1>10 DEF HarnessCleanup
  <2>2. pc'[w] \in {"closing", "idle"} /\ \A v \in Workspaces \ {w} : pc'[v] = pc[v]
    BY <1>7, <1>10, OneCall DEF HarnessCleanup
  <2> QED BY <2>1, <2>2, HostsStay DEF Occupies, Booting
<1>11. ASSUME NEW h \in Hosts, StubDies(h) \/ Relaunch(h) PROVE TokenInv'
  <2>1. UNCHANGED <<calls, tokenFile, contested>>
    BY <1>11 DEF StubDies, Relaunch
  <2>2. \/ running' = [running EXCEPT ![h] = None]
        \/ running' = [running EXCEPT ![h] = tokenFile[h]]
    BY <1>11 DEF StubDies, Relaunch
  <2>3. TokenInForce'
    BY <2>1, <2>2, SshAssumption DEF TokenInv, TokenInForce, Quiet, HostOK, calls, Occupies, Booting
  <2>4. \A g \in Hosts : running'[g] \in Workspaces => HostOf[running'[g]] = g
    <3> SUFFICES ASSUME NEW g \in Hosts, running'[g] \in Workspaces
                 PROVE  HostOf[running'[g]] = g
      OBVIOUS
    <3>1. running'[g] \in {running[g], tokenFile[g]}
      BY <2>2, NoneIsNoWorkspace DEF HostOK
    <3> QED BY <3>1 DEF TokenInv
  <2> QED BY <2>1, <2>3, <2>4 DEF TokenInv, Quiet, calls, Occupies, Booting
<1>12. ASSUME \/ \E n \in Pids : Connect(n) \/ TunnelDies(n)
              \/ \E p \in Ports : StrangerComes(p) \/ StrangerGoes(p)
              \/ UNCHANGED vars
       PROVE  TokenInv'
  <2>1. UNCHANGED <<calls, host>>
    BY <1>12 DEF Connect, TunnelDies, StrangerComes, StrangerGoes, vars
  <2> QED BY <2>1, HostsStay DEF calls
<1> QED
  BY <1>1, <1>2, <1>3, <1>4, <1>5, <1>6, <1>8, <1>9, <1>10, <1>11, <1>12 DEF Next, Proceed

(* The invariant of the tokens, for any number of bootstraps, recoveries   *)
(* and teardowns on any hosts, with every fault and whatever the harness   *)
(* does; of a contested host it says little.                               *)
THEOREM TokenInvariant == Spec => []TokenInv
<1>1. Init => TokenInv
  BY SshAssumption DEF Init, TokenInv, TokenInForce, Occupies, Booting, Tokens
<1> QED BY <1>1, TokenSteps, TypeCorrect, PTL DEF Spec

(* Whatever stub was there before, whatever pkill, the start command and   *)
(* the port probes report, a binding that bootstrap or a recovery stored   *)
(* faces a stub with its token, or none, on every host where no bootstrap  *)
(* began beside another user; what happens on the others does not matter.  *)
THEOREM TokensAreInForce == Spec => []TokenInForce
<1>1. TokenInv => TokenInForce
  BY DEF TokenInv
<1> QED BY <1>1, TokenInvariant, PTL

-----------------------------------------------------------------------------
(* No ssh process is forgotten in passing.                                 *)

(* The inductive strengthening.  A call has no process while it boots the  *)
(* stub or probes a port; one that closes has ended its process, which is  *)
(* its binding's; the harness has no binding.                              *)
Settled(w) ==
  /\ pc[w] \in Booting \cup {"probe"} => job[w].pid = None
  /\ pc[w] = "cleanup" => job[w].kind = "verify"
  /\ pc[w] # "idle" /\ job[w].kind = "verify" => bound[w] = None
  /\ pc[w] = "closing" =>
       /\ child[job[w].pid] = None
       /\ bound[w] # None => bound[w].pid = job[w].pid
AccountInv == Accounted /\ \A w \in Workspaces : Settled(w)

(* Who knows of a process.                                                 *)
Knows(w, n) == \/ bound[w] # None /\ bound[w].pid = n
               \/ job[w] # None /\ job[w].pid = n

(* A step of the call on w: what it started it knows, what it lets go of   *)
(* has ended or is lost, and it lets processes that closed be.             *)
LEMMA AccountStep ==
  ASSUME AccountInv, NEW w \in Workspaces, Settled(w)',
         \A v \in Workspaces \ {w} : pc'[v] = pc[v] /\ job'[v] = job[v] /\ bound'[v] = bound[v],
         \A v \in Workspaces \ {w} : pc[v] = "closing" => child'[job[v].pid] = None,
         \A n \in Pids : child'[n] # None =>
           /\ child[n] # None \/ Knows(w, n)'
           /\ Knows(w, n) => Knows(w, n)' \/ n \in lost'
           /\ n \in lost => n \in lost'
  PROVE  AccountInv'
<1>1. Accounted'
  <2> SUFFICES ASSUME NEW n \in Pids, child'[n] # None
               PROVE  (\E v \in Workspaces : Knows(v, n)') \/ n \in lost'
    BY DEF Accounted, Knows
  <2>1. CASE Knows(w, n) \/ n \in lost
    BY <2>1
  <2>2. ASSUME NEW v \in Workspaces \ {w}, Knows(v, n) PROVE Knows(v, n)'
    BY <2>2 DEF Knows
  <2> QED BY <2>1, <2>2 DEF AccountInv, Accounted, Knows
<1>2. \A v \in Workspaces \ {w} : Settled(v)'
  BY DEF AccountInv, Settled
<1> QED BY <1>1, <1>2 DEF AccountInv

(* An end of the search, or its next port: the process of the port given   *)
(* up, if there was one, has been ended.                                   *)
LEMMA NextPortAccounts ==
  ASSUME JobsOK, StoreOK, LocalOK, AccountInv, NEW w \in Workspaces, NEW j \in Job,
         pc[w] \in {"probe", "wait"}, j.kind = job[w].kind, NextPort(w, j),
         child' = child \/ child' = [child EXCEPT ![job[w].pid] = None],
         child'[job[w].pid] = None \/ job[w].pid = None
  PROVE  AccountInv'
<1>1. /\ \A v \in Workspaces \ {w} : pc'[v] = pc[v] /\ bound'[v] = bound[v]
      /\ bound'[w] \in {bound[w], None}
      /\ pc'[w] \in {"probe", "idle"}
  BY NextPortStays
<1> DEFINE s == SearchFrom(w, j, j.attempt + 1)
<1>2. s.pid = None /\ s.kind = j.kind
  BY DEF SearchFrom, Job
<1>3. \/ Enter(w, "probe", s) /\ UNCHANGED <<bound, lost>>
      \/ /\ Finish(w)
         /\ \/ UNCHANGED bound /\ lost' = lost
            \/ lost' = lost \cup ({bound[w].pid} \cap Live) /\ bound' = [bound EXCEPT ![w] = None]
  BY DEF NextPort, Throws
<1> HIDE DEF s
<1>4. /\ \A v \in Workspaces \ {w} : job'[v] = job[v]
      /\ \/ pc'[w] = "probe" /\ job'[w] = s /\ bound'[w] = bound[w]
         \/ pc'[w] = "idle"
  BY <1>3, OneCall
<1>5. Settled(w)'
  BY <1>1, <1>2, <1>4 DEF Settled, AccountInv, Booting
<1>6. \A v \in Workspaces \ {w} : pc[v] = "closing" => child'[job[v].pid] = None
  BY DEF AccountInv, Settled, LocalOK, JobsOK
<1>7. ASSUME NEW n \in Pids, child'[n] # None
      PROVE  /\ child[n] # None /\ n # job[w].pid
             /\ Knows(w, n) => Knows(w, n)' \/ n \in lost'
             /\ n \in lost => n \in lost'
  <2>1. child[n] # None /\ n # job[w].pid
    BY <1>7, SshAssumption DEF LocalOK
  <2>2. lost \subseteq lost'
    BY <1>3
  <2>3. n = bound[w].pid /\ bound'[w] # bound[w] => n \in lost'
    BY <1>3, <2>1 DEF Live, StoreOK
  <2> QED BY <2>1, <2>2, <2>3, <1>1 DEF Knows
<1> QED BY <1>1, <1>4, <1>5, <1>6, <1>7, AccountStep

(* A call that has no process of its own moves on, or ends.                *)
LEMMA IdleAccounts ==
  ASSUME JobsOK, AccountInv, NEW w \in Workspaces, UNCHANGED <<bound, child, lost>>,
         Settled(w)', job[w] = None \/ job[w].pid \notin Pids \/ child[job[w].pid] = None,
         \A v \in Workspaces \ {w} : pc'[v] = pc[v] /\ job'[v] = job[v]
  PROVE  AccountInv'
<1>1. \A v \in Workspaces \ {w} : pc[v] = "closing" => child'[job[v].pid] = None
  BY DEF AccountInv, Settled
<1>2. \A n \in Pids : child'[n] # None /\ Knows(w, n) => Knows(w, n)'
  BY DEF Knows
<1> QED BY <1>1, <1>2, AccountStep

(* A call that closes a tunnel knows the process until it has ended.       *)
LEMMA CloseTunnelAccounts ==
  ASSUME JobsOK, LocalOK, AccountInv, NEW w \in Workspaces, NEW j, CloseTunnel(w, j),
         UNCHANGED <<bound, lost>>, j \in Job, j.pid \in Pids,
         job[w] = None \/ job[w].pid = j.pid,
         bound[w] # None => bound[w].pid = j.pid /\ j.kind # "verify"
  PROVE  AccountInv'
<1>0. Enter(w, "closing", j) \/ Finish(w)
  BY DEF CloseTunnel
<1>1. /\ \A v \in Workspaces \ {w} : pc'[v] = pc[v] /\ job'[v] = job[v]
      /\ \/ pc'[w] = "closing" /\ job'[w] = j
         \/ pc'[w] = "idle"
      /\ child' = [child EXCEPT ![j.pid] = None]
  <2>1. child' = [child EXCEPT ![j.pid] = None]
    BY DEF CloseTunnel, LocalOK
  <2> QED BY <1>0, <2>1, OneCall
<1>1a. child'[j.pid] = None
  BY <1>1 DEF LocalOK
<1>2. Settled(w)'
  BY <1>1, <1>1a DEF Settled, Booting
<1>3. \A v \in Workspaces \ {w} : pc[v] = "closing" => child'[job[v].pid] = None
  BY <1>1 DEF AccountInv, Settled, LocalOK, JobsOK
<1>4. \A n \in Pids : child'[n] # None => child[n] # None /\ n # j.pid
  BY <1>1 DEF LocalOK
<1>5. \A n \in Pids : child'[n] # None => ~ Knows(w, n)
  BY <1>4 DEF Knows
<1> QED BY <1>1, <1>2, <1>3, <1>4, <1>5, AccountStep

(* No step of a call, a process or a host lets a process drop out of sight *)
(* but into `lost'.                                                        *)
LEMMA AccountSteps == TypeOK /\ AccountInv /\ [Next]_vars => AccountInv'
<1> SUFFICES ASSUME JobsOK, StoreOK, LocalOK, HostOK, AccountInv, [Next]_vars PROVE AccountInv'
  BY DEF TypeOK, JobsOK, StoreOK, LocalOK, HostOK
<1>0. None \notin Pids
  BY SshAssumption
<1>1. ASSUME NEW w \in Workspaces, BootStart(w) PROVE AccountInv'
  <2> DEFINE j == [kind |-> IF w \in Harness THEN "verify" ELSE "boot",
                   port |-> InitialPort[w], pid |-> None, attempt |-> 0, tried |-> {}]
  <2>1. Enter(w, "install", j) /\ UNCHANGED <<bound, child, lost>> /\ bound[w] = None /\ pc[w] = "idle"
    BY <1>1 DEF BootStart, Occupies
  <2>2. j.pid = None
    OBVIOUS
  <2> HIDE DEF j
  <2>3. /\ pc'[w] = "install" /\ job'[w] = j
        /\ \A v \in Workspaces \ {w} : pc'[v] = pc[v] /\ job'[v] = job[v]
    BY <2>1, OneCall
  <2>4. Settled(w)'
    BY <2>1, <2>2, <2>3 DEF Settled
  <2> QED BY <2>1, <2>3, <2>4, IdleAccounts DEF JobsOK
<1>2. ASSUME NEW w \in Workspaces, Install(w) \/ KillOld(w) \/ StartStub(w) PROVE AccountInv'
  <2> DEFINE s == SearchFrom(w, job[w], 0)
  <2>1. /\ pc[w] \in Booting /\ UNCHANGED <<bound, child, lost>>
        /\ (\E l \in Booting : Goto(w, l)) \/ Enter(w, "probe", s) \/ Finish(w)
    BY <1>2 DEF Install, KillOld, StartStub, Booting
  <2>2. job[w] \in Job /\ job[w].pid = None
    BY <2>1, BusyJob DEF AccountInv, Settled, Booting
  <2>3. s.pid = None /\ s.kind = job[w].kind
    BY <2>2 DEF SearchFrom, Job
  <2> HIDE DEF s
  <2>4. /\ \A v \in Workspaces \ {w} : pc'[v] = pc[v] /\ job'[v] = job[v]
        /\ \/ pc'[w] \in Booting /\ job'[w] = job[w]
           \/ pc'[w] = "probe" /\ job'[w] = s
           \/ pc'[w] = "idle"
    BY <2>1, OneCall
  <2>5. Settled(w)'
    BY <2>1, <2>2, <2>3, <2>4 DEF Settled, AccountInv, Booting
  <2> QED BY <1>0, <2>1, <2>2, <2>4, <2>5, IdleAccounts
<1>3. ASSUME NEW w \in Workspaces, Probe(w) PROVE AccountInv'
  <2> DEFINE j == [job[w] EXCEPT !.tried = @ \cup {job[w].port}]
  <2>1. pc[w] = "probe" /\ job[w] \in Job /\ job[w].pid = None
    BY <1>3, BusyJob DEF Probe, AccountInv, Settled
  <2>2. j \in Job /\ j.kind = job[w].kind
    BY <2>1 DEF Job
  <2>3. CASE NextPort(w, j) /\ UNCHANGED child
    <3> HIDE DEF j
    <3> QED BY <2>1, <2>2, <2>3, NextPortAccounts
  <2>4. ASSUME NEW n \in FreePids, UNCHANGED <<bound, lost>>,
               child' = [child EXCEPT ![n] = [port |-> j.port, host |-> HostOf[w], up |-> FALSE]],
               Enter(w, "wait", [j EXCEPT !.pid = n])
        PROVE  AccountInv'
    <3> DEFINE g == [j EXCEPT !.pid = n]
    <3>1. g.pid = n /\ g.kind = job[w].kind /\ g # None
      <4>1. g \in Job
        BY <2>2 DEF FreePids, Job
      <4> QED BY <2>2, <4>1, SshAssumption DEF Job
    <3>2. Enter(w, "wait", g)
      BY <2>4
    <3> HIDE DEF g
    <3>3. /\ pc'[w] = "wait" /\ job'[w] = g
          /\ \A v \in Workspaces \ {w} : pc'[v] = pc[v] /\ job'[v] = job[v]
      BY <3>2, OneCall
    <3>4. Settled(w)'
      BY <2>1, <2>4, <3>1, <3>3 DEF Settled, AccountInv, Booting
    <3>5. \A v \in Workspaces \ {w} : pc[v] = "closing" => child'[job[v].pid] = None
      <4> SUFFICES ASSUME NEW v \in Workspaces, pc[v] = "closing" PROVE child'[job[v].pid] = None
        OBVIOUS
      <4>1. job[v] # None /\ job[v].pid # n /\ child[job[v].pid] = None /\ job[v].pid \in Pids
        BY <2>4 DEF FreePids, AccountInv, Settled, JobsOK
      <4> HIDE DEF j
      <4> QED BY <2>4, <4>1 DEF LocalOK
    <3>6. \A m \in Pids \ {n} : child'[m] = child[m]
      BY <2>4 DEF LocalOK
    <3>7. \A m \in Pids : Knows(w, m) => Knows(w, m)'
      BY <1>0, <2>1, <2>4 DEF Knows
    <3>8. Knows(w, n)'
      BY <3>1, <3>3 DEF Knows
    <3> QED BY <2>4, <3>3, <3>4, <3>5, <3>6, <3>7, <3>8, AccountStep
  <2> QED BY <1>3, <2>3, <2>4 DEF Probe
<1>4. ASSUME NEW w \in Workspaces, Reached(w) PROVE AccountInv'
  <2>1. /\ pc[w] = "wait" /\ pc'[w] = "health" /\ job'[w] = job[w] /\ UNCHANGED <<bound, child, lost>>
        /\ \A v \in Workspaces \ {w} : pc'[v] = pc[v] /\ job'[v] = job[v]
    BY <1>4, OneCall DEF Reached
  <2>2. Settled(w)'
    BY <2>1 DEF Settled, AccountInv, Booting
  <2>3. \A v \in Workspaces \ {w} : pc[v] = "closing" => child'[job[v].pid] = None
    BY <2>1 DEF AccountInv, Settled
  <2>4. \A n \in Pids : Knows(w, n) => Knows(w, n)'
    BY <2>1 DEF Knows
  <2> QED BY <2>1, <2>2, <2>3, <2>4, AccountStep
<1>5. ASSUME NEW w \in Workspaces, TimedOut(w) PROVE AccountInv'
  <2>1. job[w] \in Job /\ job[w].pid \in Pids /\ pc[w] = "wait"
    BY <1>5, BusyJob DEF TimedOut, JobsOK
  <2> QED BY <1>5, <2>1, NextPortAccounts DEF TimedOut, LocalOK
<1>6. ASSUME NEW w \in Workspaces, AwaitHealth(w) PROVE AccountInv'
  <2>1. job[w] \in Job /\ job[w].pid \in Pids /\ pc[w] = "health" /\ UNCHANGED child
    BY <1>6, BusyJob DEF AwaitHealth, JobsOK
  <2>2. \A v \in Workspaces \ {w} : pc[v] = "closing" => child'[job[v].pid] = None
    BY <2>1 DEF AccountInv, Settled
  <2>3. CASE Throws(w, {job[w].pid} \cap Live)
    <3>1. /\ pc'[w] = "idle"
          /\ \A v \in Workspaces \ {w} : pc'[v] = pc[v] /\ job'[v] = job[v] /\ bound'[v] = bound[v]
      BY <2>3, OneCall DEF Throws, StoreOK
    <3>2. Settled(w)'
      BY <3>1 DEF Settled, Booting
    <3>3. \A n \in Live : Knows(w, n) => Knows(w, n)' \/ n \in lost'
      BY <2>3 DEF Throws, Knows
    <3>4. lost \subseteq lost'
      BY <2>3 DEF Throws
    <3> QED BY <2>1, <2>2, <3>1, <3>2, <3>3, <3>4, AccountStep DEF Live
  <2>4. CASE job[w].kind = "verify" /\ Goto(w, "cleanup") /\ UNCHANGED <<bound, lost>>
    <3>1. /\ pc'[w] = "cleanup" /\ job'[w] = job[w]
          /\ \A v \in Workspaces \ {w} : pc'[v] = pc[v] /\ job'[v] = job[v]
      BY <2>4, OneCall
    <3>2. Settled(w)'
      BY <2>1, <2>4, <3>1 DEF Settled, AccountInv, Booting
    <3>3. \A n \in Pids : Knows(w, n) => Knows(w, n)'
      BY <2>4, <3>1 DEF Knows
    <3> QED BY <2>1, <2>2, <2>4, <3>1, <3>2, <3>3, AccountStep
  <2>5. ASSUME bound' = [bound EXCEPT ![w] = [port |-> job[w].port, pid |-> job[w].pid]],
               lost' = lost \cup {n \in Live : bound[w] # None /\ bound[w].pid = n}, Finish(w)
        PROVE  AccountInv'
    <3>1. /\ pc'[w] = "idle"
          /\ \A v \in Workspaces \ {w} : pc'[v] = pc[v] /\ job'[v] = job[v] /\ bound'[v] = bound[v]
      BY <2>5, OneCall DEF StoreOK
    <3>2. Settled(w)'
      BY <3>1 DEF Settled, Booting
    <3>3. bound'[w] # None /\ bound'[w].pid = job[w].pid
      <4>1. [port |-> job[w].port, pid |-> job[w].pid] \in Binding
        BY <2>1 DEF Job, Binding
      <4> QED BY <2>5, <4>1, SshAssumption DEF StoreOK
    <3>4. \A n \in Live : Knows(w, n) => Knows(w, n)' \/ n \in lost'
      BY <2>5, <3>3 DEF Knows
    <3> QED BY <2>1, <2>2, <2>5, <3>1, <3>2, <3>4, AccountStep DEF Live
  <2> QED BY <1>6, <2>3, <2>4, <2>5 DEF AwaitHealth
<1>7. ASSUME NEW w \in Workspaces, bound[w] # None
      PROVE  \A kind \in Kinds : /\ JobOn(kind, w) \in Job /\ JobOn(kind, w).pid = bound[w].pid
                                 /\ JobOn(kind, w).kind = kind /\ bound[w].pid \in Pids
  BY <1>7, SshAssumption DEF JobOn, Job, StoreOK, Binding, Span
<1>8. ASSUME NEW w \in Workspaces, Recover(w) PROVE AccountInv'
  <2> DEFINE j == [JobOn("recover", w) EXCEPT !.pid = None]
  <2>1. Enter(w, "probe", j) /\ UNCHANGED <<bound, child, lost>> /\ pc[w] = "idle" /\ bound[w] # None
    BY <1>8 DEF Recover
  <2>2. j.pid = None /\ j.kind = "recover"
    BY DEF JobOn
  <2> HIDE DEF j
  <2>3. /\ pc'[w] = "probe" /\ job'[w] = j
        /\ \A v \in Workspaces \ {w} : pc'[v] = pc[v] /\ job'[v] = job[v]
    BY <2>1, OneCall
  <2>4. Settled(w)'
    BY <2>2, <2>3 DEF Settled
  <2> QED BY <2>1, <2>3, <2>4, IdleAccounts DEF JobsOK
<1>9. ASSUME NEW w \in Workspaces, Close(w) PROVE AccountInv'
  <2> DEFINE j == JobOn("close", w)
  <2>1. CloseTunnel(w, j) /\ UNCHANGED <<bound, lost>> /\ job[w] = None /\ bound[w] # None
    BY <1>9 DEF Close, JobsOK
  <2>2. j \in Job /\ j.pid = bound[w].pid /\ j.kind = "close" /\ bound[w].pid \in Pids
    BY <1>7, <2>1 DEF Kinds
  <2> HIDE DEF j
  <2> QED BY <2>1, <2>2, CloseTunnelAccounts
<1>10. ASSUME NEW w \in Workspaces, Closed(w) PROVE AccountInv'
  <2>1. /\ pc[w] = "closing" /\ pc'[w] = "idle" /\ UNCHANGED <<child, lost>>
        /\ \A v \in Workspaces \ {w} : pc'[v] = pc[v] /\ job'[v] = job[v] /\ bound'[v] = bound[v]
    BY <1>10, OneCall DEF Closed, StoreOK
  <2>2. Settled(w)'
    BY <2>1 DEF Settled, Booting
  <2>3. \A v \in Workspaces \ {w} : pc[v] = "closing" => child'[job[v].pid] = None
    BY <2>1 DEF AccountInv, Settled
  <2>4. \A n \in Pids : child'[n] # None => ~ Knows(w, n)
    BY <2>1 DEF AccountInv, Settled, Knows
  <2> QED BY <2>1, <2>2, <2>3, <2>4, AccountStep
<1>11. ASSUME NEW w \in Workspaces, HarnessCleanup(w) PROVE AccountInv'
  <2>1. /\ pc[w] = "cleanup" /\ job[w] \in Job /\ job[w].pid \in Pids /\ bound[w] = None
        /\ UNCHANGED bound
    BY <1>11, BusyJob DEF HarnessCleanup, JobsOK, AccountInv, Settled
  <2>2. CASE CloseTunnel(w, job[w]) /\ UNCHANGED lost
    BY <2>1, <2>2, CloseTunnelAccounts
  <2>3. CASE Finish(w) /\ UNCHANGED child /\ lost' = lost \cup ({job[w].pid} \cap Live)
    <3>1. /\ pc'[w] = "idle"
          /\ \A v \in Workspaces \ {w} : pc'[v] = pc[v] /\ job'[v] = job[v]
      BY <2>3, OneCall
    <3>2. Settled(w)'
      BY <3>1 DEF Settled, Booting
    <3>3. \A v \in Workspaces \ {w} : pc[v] = "closing" => child'[job[v].pid] = None
      BY <2>3 DEF AccountInv, Settled
    <3>4. \A n \in Live : Knows(w, n) => n \in lost'
      BY <2>1, <2>3 DEF Knows
    <3> QED BY <2>1, <2>3, <3>1, <3>2, <3>3, <3>4, AccountStep DEF Live
  <2> QED BY <1>11, <2>2, <2>3 DEF HarnessCleanup
<1>12. ASSUME NEW n \in Pids, Connect(n) \/ TunnelDies(n) PROVE AccountInv'
  <2>1. UNCHANGED calls /\ child[n] # None /\ \A m \in Pids \ {n} : child'[m] = child[m]
    BY <1>12 DEF Connect, TunnelDies, LocalOK
  <2>2. lost' = lost \/ (lost' = lost \ {n} /\ child'[n] = None)
    BY <1>12 DEF Connect, TunnelDies, LocalOK
  <2>3. Accounted'
    BY <2>1, <2>2 DEF AccountInv, Accounted, calls
  <2>4. \A w \in Workspaces : pc[w] = "closing" => job[w].pid \in Pids /\ job[w].pid # n
    BY <2>1 DEF AccountInv, Settled, JobsOK
  <2> QED BY <2>1, <2>3, <2>4 DEF AccountInv, Settled, calls
<1>13. ASSUME \/ \E h \in Hosts : StubDies(h) \/ Relaunch(h)
              \/ \E p \in Ports : StrangerComes(p) \/ StrangerGoes(p)
              \/ UNCHANGED vars
       PROVE  AccountInv'
  <2>1. UNCHANGED <<calls, child, lost>>
    BY <1>13 DEF StubDies, Relaunch, StrangerComes, StrangerGoes, vars
  <2> QED BY <2>1 DEF AccountInv, Accounted, Settled, calls
<1> QED
  BY <1>1, <1>2, <1>3, <1>4, <1>5, <1>6, <1>8, <1>9, <1>10, <1>11, <1>12, <1>13 DEF Next, Proceed

(* Whoever starts an ssh process knows it until it has ended, but for the  *)
(* failures and the recoveries over it that `lost' records: for any number *)
(* of calls, processes and ports.                                          *)
THEOREM ProcessesAreAccounted == Spec => []Accounted
<1>1. Init => AccountInv
  BY DEF Init, AccountInv, Accounted, Settled, Booting
<1>2. AccountInv => Accounted
  BY DEF AccountInv
<1> QED BY <1>1, <1>2, AccountSteps, TypeCorrect, PTL DEF Spec

-----------------------------------------------------------------------------
(* A search that fails has tried every port.                               *)

(* Wherever the search begins, Span consecutive attempts visit the range.  *)
LEMMA SearchVisitsAll ==
  ASSUME NEW p \in Ports, NEW q \in Ports
  PROVE  \E k \in 0 .. Span - 1 : SearchPort(p, k) = q
<1>1. /\ First \in Int /\ Last \in Int /\ p \in Int /\ q \in Int
      /\ First <= p /\ p <= Last /\ First <= q /\ q <= Last
      /\ Span = Last - First + 1
  BY SshAssumption DEF Ports, Span
<1> DEFINE k == IF p <= q THEN q - p ELSE q - p + Span
<1>2. k \in 0 .. Span - 1
  BY <1>1
<1>3. CASE p <= q
  <2>1. p - First + k = q - First /\ q - First \in 0 .. Span - 1
    BY <1>1, <1>3
  <2>2. (q - First) % Span = q - First
    BY <1>1, <2>1
  <2>3. First + (q - First) = q
    BY <1>1
  <2>4. SearchPort(p, k) = q
    BY <2>1, <2>2, <2>3 DEF SearchPort
  <2> QED BY <1>2, <2>4
<1>4. CASE ~ (p <= q)
  <2>1. p - First + k = q - First + Span /\ q - First \in 0 .. Span - 1
    BY <1>1, <1>4
  <2>2. (q - First + Span) % Span = q - First
    <3> DEFINE r == q - First
    <3>1. r \in Int /\ Span \in Int /\ 0 <= r /\ r < Span
      BY <1>1
    <3> HIDE DEF r
    <3>2. (r + Span) % Span = r
      BY <3>1
    <3> QED BY <3>2 DEF r
  <2>3. First + (q - First) = q
    BY <1>1
  <2>4. SearchPort(p, k) = q
    BY <2>1, <2>2, <2>3 DEF SearchPort
  <2> QED BY <1>2, <2>4
<1> QED BY <1>3, <1>4

(* Attempt k is at the k-th port from the hashed one, and the ports before *)
(* it have been tried; so has the one whose tunnel is awaited.             *)
Searched(w) ==
  pc[w] \in {"probe", "wait"} =>
    /\ pc[w] = "wait" => job[w].port \in job[w].tried
    /\ job[w].attempt >= 0 =>
         /\ job[w].port = SearchPort(InitialPort[w], job[w].attempt)
         /\ \A i \in 0 .. job[w].attempt - 1 : SearchPort(InitialPort[w], i) \in job[w].tried
SearchInv == \A w \in Workspaces : Searched(w)

(* The last attempt, and those before it.                                  *)
LEMMA LastAttempt ==
  ASSUME SearchInv, JobsOK, NEW w \in Workspaces, pc[w] \in {"probe", "wait"},
         ~ (job[w].attempt + 1 < Span)
  PROVE  job[w].tried \cup {job[w].port} = Ports
<1>1. job[w] \in Job /\ Span \in Nat \ {0} /\ job[w].attempt = Span - 1 /\ job[w].attempt \in Nat
  BY BusyJob, JobBounds
<1>2. ASSUME NEW q \in Ports PROVE q \in job[w].tried \cup {job[w].port}
  <2>1. PICK k \in 0 .. Span - 1 : SearchPort(InitialPort[w], k) = q
    BY SearchVisitsAll, SshAssumption
  <2>2. k = job[w].attempt \/ k \in 0 .. job[w].attempt - 1
    BY <1>1, <2>1
  <2> QED BY <1>1, <2>1, <2>2 DEF SearchInv, Searched
<1> QED BY <1>1, <1>2 DEF Job

(* The next port of a search, when the one it leaves has been tried.       *)
LEMMA NextPortSearches ==
  ASSUME SearchInv, JobsOK, StoreOK, NEW w \in Workspaces, pc[w] \in {"probe", "wait"},
         NEW j \in Job, j.attempt = job[w].attempt, j.port = job[w].port,
         j.tried = job[w].tried \cup {job[w].port}, NextPort(w, j)
  PROVE  /\ Searched(w)' /\ \A v \in Workspaces \ {w} : pc'[v] = pc[v] /\ job'[v] = job[v]
         /\ pc'[w] = "idle" => job[w].tried \cup {job[w].port} = Ports
<1>1. CASE j.attempt + 1 < Span
  <2> DEFINE k == j.attempt + 1
             s == SearchFrom(w, j, k)
  <2>1. k \in 0 .. Span - 1 /\ j.attempt = k - 1 /\ k \in Int
    BY <1>1, JobBounds
  <2>2. Enter(w, "probe", s)
    BY <1>1 DEF NextPort
  <2> HIDE DEF k
  <2>3. /\ s.attempt = k /\ s.port = SearchPort(InitialPort[w], k)
        /\ k # 0 => s.tried = job[w].tried \cup {job[w].port}
    BY <2>1 DEF SearchFrom, Job
  <2> HIDE DEF s
  <2>4. /\ pc'[w] = "probe" /\ job'[w] = s
        /\ \A v \in Workspaces \ {w} : pc'[v] = pc[v] /\ job'[v] = job[v]
    BY <2>2, OneCall
  <2>5. ASSUME NEW i \in 0 .. k - 1 PROVE SearchPort(InitialPort[w], i) \in s.tried
    <3>1. k # 0 /\ job[w].attempt >= 0 /\ (i = job[w].attempt \/ i \in 0 .. job[w].attempt - 1)
      BY <2>1
    <3> QED BY <2>3, <3>1 DEF SearchInv, Searched
  <2> QED BY <2>3, <2>4, <2>5 DEF Searched
<1>2. CASE ~ (j.attempt + 1 < Span)
  <2>1. Finish(w)
    BY <1>2 DEF NextPort, Throws
  <2>2. pc'[w] = "idle" /\ \A v \in Workspaces \ {w} : pc'[v] = pc[v] /\ job'[v] = job[v]
    BY <2>1, OneCall
  <2> QED BY <1>2, <2>2, LastAttempt DEF Searched
<1> QED BY <1>1, <1>2

(* What a step does for the search of each call.                           *)
Exhausts(w) == pc[w] \in {"probe", "wait"} /\ pc'[w] = "idle" => job[w].tried \cup {job[w].port} = Ports

(* The count of a search is that of the ports it has tried, and it gives   *)
(* up only when that is the range.                                         *)
LEMMA SearchSteps ==
  TypeOK /\ SearchInv /\ [Next]_vars => \A w \in Workspaces : Searched(w)' /\ Exhausts(w)
<1> SUFFICES ASSUME JobsOK, StoreOK, SearchInv, [Next]_vars
             PROVE  \A w \in Workspaces : Searched(w)' /\ Exhausts(w)
  BY DEF TypeOK, JobsOK, StoreOK
<1> DEFINE Kept == \A w \in Workspaces : Searched(w)' /\ Exhausts(w)
<1>1. ASSUME NEW w \in Workspaces, Searched(w)', Exhausts(w),
             \A v \in Workspaces \ {w} : pc'[v] = pc[v] /\ job'[v] = job[v]
      PROVE  Kept
  <2>1. \A v \in Workspaces \ {w} : Searched(v)' /\ Exhausts(v)
    BY <1>1 DEF SearchInv, Searched, Exhausts
  <2> QED BY <1>1, <2>1
<1>2. ASSUME NEW w \in Workspaces, pc[w] \notin {"probe", "wait"},
             NEW l \in Labels \ {"probe", "wait"}, NEW j, Enter(w, l, j) \/ Goto(w, l) \/ Finish(w)
      PROVE  Kept
  <2>1. /\ pc'[w] \in {l, "idle"}
        /\ \A v \in Workspaces \ {w} : pc'[v] = pc[v] /\ job'[v] = job[v]
    BY <1>2, OneCall
  <2>2. Searched(w)' /\ Exhausts(w)
    BY <1>2, <2>1 DEF Searched, Exhausts
  <2> QED BY <1>1, <2>1, <2>2
<1>3. ASSUME NEW w \in Workspaces, BootStart(w) PROVE Kept
  <2>1. PICK j : Enter(w, "install", j)
    BY <1>3 DEF BootStart
  <2>2. pc[w] = "idle"
    BY <1>3 DEF BootStart, Occupies
  <2> QED BY <1>2, <2>1, <2>2 DEF Labels
<1>4. ASSUME NEW w \in Workspaces, Install(w) \/ KillOld(w) PROVE Kept
  <2>1. pc[w] \in {"install", "kill"} /\ (Goto(w, "kill") \/ Goto(w, "start") \/ Finish(w))
    BY <1>4 DEF Install, KillOld
  <2> QED BY <1>2, <2>1 DEF Labels
<1>5. ASSUME NEW w \in Workspaces, StartStub(w) PROVE Kept
  <2> DEFINE s == SearchFrom(w, job[w], 0)
  <2>1. pc[w] = "start" /\ (Enter(w, "probe", s) \/ Finish(w))
    BY <1>5 DEF StartStub
  <2>2. s.attempt = 0 /\ s.port = SearchPort(InitialPort[w], 0)
    <3>1. job[w] \in Job
      BY <2>1, BusyJob
    <3> QED BY <3>1 DEF SearchFrom, Job
  <2> HIDE DEF s
  <2>3. /\ \A v \in Workspaces \ {w} : pc'[v] = pc[v] /\ job'[v] = job[v]
        /\ pc'[w] = "idle" \/ (pc'[w] = "probe" /\ job'[w] = s)
    BY <2>1, OneCall
  <2>4. Searched(w)' /\ Exhausts(w)
    BY <2>1, <2>2, <2>3 DEF Searched, Exhausts
  <2> QED BY <1>1, <2>3, <2>4
<1>6. ASSUME NEW w \in Workspaces, Probe(w) PROVE Kept
  <2> DEFINE j == [job[w] EXCEPT !.tried = @ \cup {job[w].port}]
  <2>1. pc[w] = "probe" /\ job[w] \in Job
    BY <1>6, BusyJob DEF Probe
  <2>2. /\ j \in Job /\ j.attempt = job[w].attempt /\ j.port = job[w].port
        /\ j.tried = job[w].tried \cup {job[w].port}
    BY <2>1 DEF Job
  <2>3. CASE NextPort(w, j)
    <3> HIDE DEF j
    <3> QED BY <1>1, <2>1, <2>2, <2>3, NextPortSearches DEF Exhausts
  <2>4. ASSUME NEW n \in Pids, Enter(w, "wait", [j EXCEPT !.pid = n]) PROVE Kept
    <3> DEFINE g == [j EXCEPT !.pid = n]
    <3>1. g.attempt = j.attempt /\ g.port = j.port /\ g.tried = j.tried
      BY <2>2 DEF Job
    <3>2. Enter(w, "wait", g)
      BY <2>4
    <3> HIDE DEF g, j
    <3>3. /\ pc'[w] = "wait" /\ job'[w] = g
          /\ \A v \in Workspaces \ {w} : pc'[v] = pc[v] /\ job'[v] = job[v]
      BY <3>2, OneCall
    <3>4. Searched(w)' /\ Exhausts(w)
      BY <2>1, <2>2, <3>1, <3>3 DEF Searched, SearchInv, Exhausts
    <3> QED BY <1>1, <3>3, <3>4
  <2> QED BY <1>6, <2>3, <2>4 DEF Probe, FreePids
<1>7. ASSUME NEW w \in Workspaces, TimedOut(w) PROVE Kept
  <2>1. pc[w] = "wait" /\ job[w] \in Job /\ NextPort(w, job[w])
    BY <1>7, BusyJob DEF TimedOut
  <2>2. job[w].tried = job[w].tried \cup {job[w].port}
    BY <2>1 DEF SearchInv, Searched
  <2> QED BY <1>1, <2>1, <2>2, NextPortSearches DEF Exhausts
<1>8. ASSUME NEW w \in Workspaces, Reached(w) PROVE Kept
  <2>1. /\ pc'[w] = "health" /\ \A v \in Workspaces \ {w} : pc'[v] = pc[v] /\ job'[v] = job[v]
    BY <1>8, OneCall DEF Reached
  <2>2. Searched(w)' /\ Exhausts(w)
    BY <2>1 DEF Searched, Exhausts
  <2> QED BY <1>1, <2>1, <2>2
<1>9. ASSUME NEW w \in Workspaces, AwaitHealth(w) PROVE Kept
  <2>1. pc[w] = "health" /\ (Goto(w, "cleanup") \/ Finish(w))
    BY <1>9 DEF AwaitHealth, Throws
  <2> QED BY <1>2, <2>1 DEF Labels
<1>10. ASSUME NEW w \in Workspaces, Recover(w) PROVE Kept
  <2> DEFINE j == [JobOn("recover", w) EXCEPT !.pid = None]
  <2>1. pc[w] = "idle" /\ Enter(w, "probe", j)
    BY <1>10 DEF Recover
  <2>2. j.attempt = -1
    BY DEF JobOn
  <2> HIDE DEF j
  <2>3. /\ pc'[w] = "probe" /\ job'[w] = j
        /\ \A v \in Workspaces \ {w} : pc'[v] = pc[v] /\ job'[v] = job[v]
    BY <2>1, OneCall
  <2>4. Searched(w)' /\ Exhausts(w)
    BY <2>1, <2>2, <2>3 DEF Searched, Exhausts
  <2> QED BY <1>1, <2>3, <2>4
<1>11. ASSUME NEW w \in Workspaces, Close(w) \/ Closed(w) \/ HarnessCleanup(w) PROVE Kept
  <2>1. pc[w] \in {"idle", "closing", "cleanup"} /\ ((\E j : Enter(w, "closing", j)) \/ Finish(w))
    BY <1>11 DEF Close, Closed, HarnessCleanup, CloseTunnel
  <2> QED BY <1>2, <2>1 DEF Labels
<1>12. ASSUME \/ \E n \in Pids : Connect(n) \/ TunnelDies(n)
              \/ \E h \in Hosts : StubDies(h) \/ Relaunch(h)
              \/ \E p \in Ports : StrangerComes(p) \/ StrangerGoes(p)
              \/ UNCHANGED vars
       PROVE  Kept
  <2>1. UNCHANGED <<pc, job>>
    BY <1>12 DEF Connect, TunnelDies, StubDies, Relaunch, StrangerComes, StrangerGoes, vars, calls
  <2> QED BY <2>1 DEF SearchInv, Searched, Exhausts
<1> QED
  BY <1>3, <1>4, <1>5, <1>6, <1>7, <1>8, <1>9, <1>10, <1>11, <1>12 DEF Next, Proceed

(* ensureTunnel says there is no port in the range only when it has tried  *)
(* them all, for any range and any start of the search, and so does        *)
(* ensureSpecificOrFallbackTunnel, whose remembered port comes before.     *)
THEOREM SearchIsExhaustive == Spec => EveryPortTried
<1>1. Init => SearchInv
  BY DEF Init, SearchInv, Searched
<1>2. TypeOK /\ SearchInv /\ [Next]_vars => SearchInv'
  BY SearchSteps DEF SearchInv
<1>3. TypeOK /\ SearchInv /\ [Next]_vars =>
        [\A w \in Workspaces : pc[w] \in {"probe", "wait"} /\ pc'[w] = "idle" =>
           job[w].tried \cup {job[w].port} = Ports]_vars
  BY SearchSteps DEF Exhausts
<1> QED BY <1>1, <1>2, <1>3, TypeCorrect, PTL DEF Spec, EveryPortTried
=============================================================================
