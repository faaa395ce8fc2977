------------------------ MODULE StubPermissionProofs ------------------------
(***************************************************************************)
(* Proofs about StubPermission, for any sets of connections, workspaces,   *)
(* sessions and directories, any relation Covers and any clock bound.      *)
(***************************************************************************)
EXTENDS StubPermission, TLAPS

(* What an id stands for: both kinds of record, and the jobs, are built    *)
(* from values of the constants.                                           *)
LEMMA ClockSteps ==
  ASSUME now \in Stamps, Stamp
  PROVE  now' \in Stamps /\ now \in Stamps
  BY StoreAssumption DEF Stamp, Stamps

(* Types: no step of any handler, and no restart, takes a variable out of  *)
(* its set; a busy goroutine always has its request at hand.               *)
THEOREM TypeCorrect == Spec => []TypeOK
<1>1. Init => TypeOK
  BY StoreAssumption DEF Init, TypeOK, Stamps, Labels, Loaded
<1>2. TypeOK /\ [Next]_vars => TypeOK'
  <2> SUFFICES ASSUME TypeOK, [Next]_vars PROVE TypeOK'
    OBVIOUS
  <2> USE StoreAssumption DEF maps, files, history, Labels
  <2>1. ASSUME NEW c \in Conns, NEW s \in Sessions, NEW p \in Paths, ShellStart(c, s, p) PROVE TypeOK'
    <3>1. [sess |-> s, ws |-> sessions[s], path |-> p, id |-> 0, reply |-> "none"] \in Job
      BY <2>1 DEF ShellStart, TypeOK, Job, Stamps
    <3> QED BY <2>1, <3>1 DEF ShellStart, Idle, Begin, TypeOK
  <2>2. ASSUME NEW c \in Conns, NEW i \in Stamps, Authorize(c, i) PROVE TypeOK'
    <3>1. diskApprovals' \in [Stamps -> Approval \cup {None}] /\ approvals' \in [Stamps -> Approval \cup {None}]
      BY <2>2 DEF Authorize, Unlinked, TypeOK
    <3>2. uses' \in [Stamps -> Nat]
      BY <2>2 DEF Authorize, TypeOK
    <3> QED BY <2>2, <3>1, <3>2 DEF Authorize, Goto, TypeOK
  <2>3. ASSUME NEW c \in Conns, Run(c) PROVE TypeOK'
    BY <2>3 DEF Run, Finish, TypeOK
  <2>4. ASSUME NEW c \in Conns, Deny(c) PROVE TypeOK'
    BY <2>4 DEF Deny, Goto, TypeOK
  <2>5. ASSUME NEW c \in Conns, Ask(c) PROVE TypeOK'
    <3>1. job[c] \in Job /\ [job[c] EXCEPT !.id = now] \in Job
      BY <2>5 DEF Ask, TypeOK, Job
    <3>2. now' \in Stamps /\ now \in Stamps
      BY <2>5, ClockSteps DEF Ask, TypeOK
    <3>3. [sess |-> job[c].sess, ws |-> job[c].ws, path |-> job[c].path, status |-> "pending"] \in PermissionRequest
      BY <3>1 DEF Job, PermissionRequest
    <3> QED BY <2>5, <3>1, <3>2, <3>3 DEF Ask, Begin, TypeOK
  <2>6. ASSUME NEW c \in Conns, Announce(c) PROVE TypeOK'
    <3>1. job[c] \in Job
      BY <2>6 DEF Announce, TypeOK
    <3>2. shown' \subseteq [id : Stamps, sess : Sessions, ws : Workspaces, path : Paths]
      BY <2>6, <3>1 DEF Announce, TypeOK, Job
    <3> QED BY <2>6, <3>2 DEF Announce, Finish, TypeOK
  <2>7. ASSUME PermissionList PROVE TypeOK'
    <3>1. shown' \subseteq [id : Stamps, sess : Sessions, ws : Workspaces, path : Paths]
      BY <2>7 DEF PermissionList, TypeOK, PermissionRequest
    <3> QED BY <2>7, <3>1 DEF PermissionList, TypeOK
  <2>8. ASSUME NEW c \in Conns, NEW o \in shown, NEW r \in Replies, Answer(c, o, r) PROVE TypeOK'
    <3>1. o \in [id : Stamps, sess : Sessions, ws : Workspaces, path : Paths]
      BY DEF TypeOK
    <3>2. [sess |-> permissions[o.id].sess, ws |-> permissions[o.id].ws,
           path |-> permissions[o.id].path, id |-> o.id, reply |-> r] \in Job
      BY <2>8, <3>1 DEF Answer, TypeOK, PermissionRequest, Job
    <3>3. granted' \subseteq [id : Stamps, ws : Workspaces, path : Paths, mode : Grants]
      BY <2>8, <3>1 DEF Answer, TypeOK
    <3> QED BY <2>8, <3>2, <3>3 DEF Answer, Idle, Begin, TypeOK, Job
  <2>9. ASSUME NEW c \in Conns, UpdatePermission(c) PROVE TypeOK'
    <3>1. job[c] \in Job
      BY <2>9 DEF UpdatePermission, TypeOK
    <3>2. permissions' \in [Stamps -> PermissionRequest \cup {None}]
      BY <2>9, <3>1 DEF UpdatePermission, TypeOK, Job, PermissionRequest
    <3>3. /\ UNCHANGED <<workspaces, sessions, approvals, files, now, history>>
          /\ \/ pc' = [pc EXCEPT ![c] = "grant"] /\ job' = job /\ job[c].reply \in Grants
             \/ pc' = [pc EXCEPT ![c] = "idle"] /\ job' = [job EXCEPT ![c] = None]
      BY <2>9 DEF UpdatePermission, Goto, Finish
    <3> QED BY <3>1, <3>2, <3>3 DEF TypeOK
  <2>10. ASSUME NEW c \in Conns, CreateApproval(c) PROVE TypeOK'
    <3> DEFINE apr == [ws |-> job[c].ws, path |-> job[c].path, mode |-> job[c].reply]
    <3>1. apr \in Approval
      BY <2>10 DEF CreateApproval, TypeOK, Job, Approval
    <3>2. now' \in Stamps /\ now \in Stamps
      BY <2>10, ClockSteps DEF CreateApproval, TypeOK
    <3>3. approvals' \in [Stamps -> Approval \cup {None}] /\ diskApprovals' \in [Stamps -> Approval \cup {None}]
      BY <2>10, <3>1, <3>2 DEF CreateApproval, TypeOK
    <3>4. acked' \subseteq [ws : Workspaces, path : Paths]
      BY <2>10, <3>1 DEF CreateApproval, TypeOK, Approval
    <3> QED BY <2>10, <3>2, <3>3, <3>4 DEF CreateApproval, Finish, TypeOK
  <2>11. ASSUME NEW w \in Workspaces, CreateWorkspace(w) PROVE TypeOK'
    <3>1. diskWorkspaces' \in [Folders -> Workspaces \cup {None}]
      BY <2>11 DEF CreateWorkspace, TypeOK
    <3> QED BY <2>11, <3>1 DEF CreateWorkspace, TypeOK
  <2>12. ASSUME NEW w \in Workspaces, DeleteWorkspace(w) PROVE TypeOK'
    <3>1. diskWorkspaces' \in [Folders -> Workspaces \cup {None}]
      BY <2>12 DEF DeleteWorkspace, TypeOK
    <3> QED BY <2>12, <3>1 DEF DeleteWorkspace, TypeOK
  <2>13. ASSUME NEW c \in Conns, NEW s \in Sessions, NEW w \in Workspaces, SessionCreate(c, s, w) PROVE TypeOK'
    <3>1. PICK p \in Paths : Begin(c, "create", [sess |-> s, ws |-> w, path |-> p, id |-> 0, reply |-> "none"])
      BY <2>13 DEF SessionCreate
    <3>2. [sess |-> s, ws |-> w, path |-> p, id |-> 0, reply |-> "none"] \in Job
      BY DEF Job, Stamps
    <3> QED BY <2>13, <3>1, <3>2 DEF SessionCreate, Idle, Begin, TypeOK
  <2>14. ASSUME NEW c \in Conns, CreateSession(c) PROVE TypeOK'
    <3>1. job[c].sess \in Sessions /\ job[c].ws \in Workspaces
      BY <2>14 DEF CreateSession, TypeOK, Job
    <3> QED BY <2>14, <3>1 DEF CreateSession, Finish, TypeOK
  <2>15. ASSUME NEW s \in Sessions, DeleteSession(s) PROVE TypeOK'
    BY <2>15 DEF DeleteSession, Unlinked, TypeOK
  <2>16. CASE Restart
    BY <2>16 DEF Restart, TypeOK, Loaded
  <2>17. CASE UNCHANGED vars
    BY <2>17 DEF vars, TypeOK
  <2> QED
    BY <2>1, <2>2, <2>3, <2>4, <2>5, <2>6, <2>7, <2>8, <2>9, <2>10, <2>11, <2>12, <2>13,
       <2>14, <2>15, <2>16, <2>17
       DEF Next, Request, PermissionReply, SessionPermissionReply
<1> QED
  BY <1>1, <1>2, PTL DEF Spec

-----------------------------------------------------------------------------
(* Ids are not shared: what all the theorems on rights assume, for without *)
(* it each of them is false.                                               *)
LEMMA ClockMoves ==
  ASSUME ~SameMilli, TypeOK, Stamp
  PROVE  now' = now + 1 /\ now \in Nat /\ now \in Stamps
  BY StoreAssumption DEF Stamp, Stamps, TypeOK

(* A step of the stub other than these three leaves the approvals, their   *)
(* files and the clock that names them as they are.                        *)
LEMMA ApprovalSteps ==
  ASSUME TypeOK, [Next]_vars
  PROVE  \/ \E c \in Conns, i \in Stamps : Authorize(c, i)
         \/ \E c \in Conns : CreateApproval(c)
         \/ Restart
         \/ /\ UNCHANGED <<approvals, diskApprovals, acked, uses>>
            /\ now' = now \/ Stamp
<1> DEFINE Quiet == UNCHANGED <<approvals, diskApprovals, acked, uses>> /\ (now' = now \/ Stamp)
<1> USE DEF maps, files, history
<1>1. ASSUME NEW c \in Conns,
             \/ \E s \in Sessions, p \in Paths : ShellStart(c, s, p)
             \/ \E s \in Sessions, w \in Workspaces : SessionCreate(c, s, w)
             \/ Run(c) \/ Deny(c) \/ Announce(c) \/ UpdatePermission(c) \/ CreateSession(c)
      PROVE  Quiet
  BY <1>1 DEF ShellStart, SessionCreate, Run, Deny, Announce, UpdatePermission, CreateSession
<1>2. ASSUME NEW c \in Conns, NEW o \in shown, NEW r \in Replies,
             PermissionReply(c, o, r) \/ SessionPermissionReply(c, o, r)
      PROVE  Quiet
  BY <1>2 DEF PermissionReply, SessionPermissionReply, Answer
<1>3. ASSUME NEW c \in Conns, Ask(c)
      PROVE  Quiet
  BY <1>3 DEF Ask
<1>4. ASSUME \/ PermissionList
             \/ \E w \in Workspaces : CreateWorkspace(w) \/ DeleteWorkspace(w)
             \/ \E s \in Sessions : DeleteSession(s)
             \/ UNCHANGED vars
      PROVE  Quiet
  BY <1>4 DEF PermissionList, CreateWorkspace, DeleteWorkspace, DeleteSession, vars
<1> QED
  BY <1>1, <1>2, <1>3, <1>4 DEF Next, Request

(* A "once" approval lets one command through: whatever requests race for  *)
(* it and however often the stub restarts, if removals take effect.        *)
THEOREM OnceInvariant ==
  ASSUME ~SameMilli, ~UnlinkFaults
  PROVE  Spec => []OnceInv
<1>1. Init => OnceInv
  BY DEF Init, OnceInv, OnceIsSingleUse
<1>2. TypeOK /\ OnceInv /\ [Next]_vars => OnceInv'
  <2> SUFFICES ASSUME TypeOK, OnceInv, [Next]_vars PROVE OnceInv'
    OBVIOUS
  <2> USE DEF OnceInv, OnceIsSingleUse
  <2>1. ASSUME NEW c \in Conns, NEW i \in Stamps, Authorize(c, i) PROVE OnceInv'
    <3>1. approvals[i] # None /\ uses[i] = 0 /\ i < now
      BY <2>1 DEF Authorize, Matching, TypeOK, Stamps
    <3>2. CASE approvals[i].mode = "once"
      <4>1. /\ approvals' = [approvals EXCEPT ![i] = None]
            /\ diskApprovals' = [diskApprovals EXCEPT ![i] = None]
            /\ uses' = [uses EXCEPT ![i] = @ + 1]
            /\ now' = now
        BY <2>1, <3>2 DEF Authorize, Unlinked
      <4> QED BY <4>1, <3>1 DEF TypeOK
    <3>3. CASE approvals[i].mode # "once"
      BY <2>1, <3>3 DEF Authorize
    <3> QED BY <3>2, <3>3
  <2>2. ASSUME NEW c \in Conns, CreateApproval(c) PROVE OnceInv'
    <3>1. now' = now + 1 /\ now \in Nat /\ now \in Stamps
      BY <2>2, ClockMoves DEF CreateApproval
    <3>2. /\ uses' = uses /\ uses[now] = 0
          /\ \A i \in Stamps \ {now} : approvals'[i] = approvals[i] /\ diskApprovals'[i] = diskApprovals[i]
      BY <2>2, <3>1 DEF CreateApproval, TypeOK
    <3> QED BY <3>1, <3>2 DEF Stamps, TypeOK
  <2>3. CASE Restart
    BY <2>3 DEF Restart, files, history
  <2>4. CASE UNCHANGED <<approvals, diskApprovals, acked, uses>> /\ (now' = now \/ Stamp)
    <3>1. now' >= now /\ now \in Nat /\ now' \in Nat
      BY <2>4, ClockMoves DEF TypeOK, Stamps
    <3> QED BY <2>4, <3>1 DEF Stamps
  <2> QED BY <2>1, <2>2, <2>3, <2>4, ApprovalSteps
<1> QED
  BY <1>1, <1>2, TypeCorrect, PTL DEF Spec

(* A "once" approval lets at most one command through.                     *)
THEOREM SingleUse ==
  ASSUME ~SameMilli, ~UnlinkFaults
  PROVE  Spec => []OnceIsSingleUse
<1>1. OnceInv => OnceIsSingleUse
  BY DEF OnceInv
<1> QED BY <1>1, OnceInvariant, PTL

-----------------------------------------------------------------------------
(* An acknowledged "always" approval is never lost, even when writes and   *)
(* removals fail, and so no command it covers is turned down.              *)
THEOREM AlwaysInvariant ==
  ASSUME ~SameMilli
  PROVE  Spec => []AlwaysInv
<1>1. Init => AlwaysInv
  BY DEF Init, AlwaysInv
<1>2. TypeOK /\ AlwaysInv /\ [Next]_vars => AlwaysInv'
  <2> SUFFICES ASSUME TypeOK, AlwaysInv, [Next]_vars, NEW a \in acked'
               PROVE  \E i \in Stamps :
                        /\ i < now'
                        /\ approvals'[i] = [ws |-> a.ws, path |-> a.path, mode |-> "always"]
                        /\ diskApprovals'[i] = approvals'[i]
    BY DEF AlwaysInv
  <2> DEFINE right == [ws |-> a.ws, path |-> a.path, mode |-> "always"]
  <2>0. ASSUME a \in acked
        PROVE  \E i \in Stamps : i < now /\ approvals[i] = right /\ diskApprovals[i] = right
    BY <2>0 DEF AlwaysInv
  <2>1. ASSUME NEW c \in Conns, NEW k \in Stamps, Authorize(c, k)
        PROVE  \E i \in Stamps : i < now' /\ approvals'[i] = right /\ diskApprovals'[i] = right
    <3>1. PICK i \in Stamps : i < now /\ approvals[i] = right /\ diskApprovals[i] = right
      BY <2>1, <2>0 DEF Authorize
    <3>2. approvals[k].mode = "once" => i # k
      BY <3>1
    <3>3. now' = now /\ approvals'[i] = right /\ diskApprovals'[i] = right
      BY <2>1, <3>1, <3>2 DEF Authorize, Unlinked, TypeOK
    <3> QED BY <3>1, <3>3
  <2>2. ASSUME NEW c \in Conns, CreateApproval(c)
        PROVE  \E i \in Stamps : i < now' /\ approvals'[i] = right /\ diskApprovals'[i] = right
    <3>1. now' = now + 1 /\ now \in Nat /\ now \in Stamps
      BY <2>2, ClockMoves DEF CreateApproval
    <3>2. CASE a \in acked
      <4>1. PICK i \in Stamps : i < now /\ approvals[i] = right /\ diskApprovals[i] = right
        BY <3>2, <2>0
      <4>2. approvals'[i] = right /\ diskApprovals'[i] = right
        BY <2>2, <3>1, <4>1 DEF CreateApproval, TypeOK
      <4> QED BY <3>1, <4>1, <4>2 DEF Stamps
    <3>3. CASE a \notin acked
      <4>1. approvals'[now] = right /\ diskApprovals'[now] = right
        BY <2>2, <3>1, <3>3 DEF CreateApproval, TypeOK
      <4> QED BY <3>1, <4>1
    <3> QED BY <3>2, <3>3
  <2>3. CASE Restart
    BY <2>3, <2>0 DEF Restart, files, history
  <2>4. CASE UNCHANGED <<approvals, diskApprovals, acked, uses>> /\ (now' = now \/ Stamp)
    <3>1. now' >= now /\ now \in Nat /\ now' \in Nat
      BY <2>4, ClockMoves DEF TypeOK, Stamps
    <3> QED BY <2>4, <2>0, <3>1 DEF Stamps
  <2> QED BY <2>1, <2>2, <2>3, <2>4, ApprovalSteps
<1> QED
  BY <1>1, <1>2, TypeCorrect, PTL DEF Spec

(* A command is turned down only where ConsumeApproval found nothing.      *)
LEMMA OnlyDenyAsks ==
  ASSUME TypeOK, [Next]_vars, NEW c \in Conns, pc[c] = "consume", pc'[c] = "ask"
  PROVE  Deny(c)
<1>1. ASSUME NEW d \in Conns, Request(d)
      PROVE  Deny(d) \/ \E l \in Labels \ {"ask"} : pc' = [pc EXCEPT ![d] = l]
  <2>1. \/ \E s \in Sessions, p \in Paths : ShellStart(d, s, p)
        \/ \E s \in Sessions, w \in Workspaces : SessionCreate(d, s, w)
        \/ Run(d) \/ Announce(d) \/ CreateApproval(d) \/ CreateSession(d)
        => \E l \in Labels \ {"ask"} : pc' = [pc EXCEPT ![d] = l]
    BY DEF ShellStart, SessionCreate, Run, Announce, CreateApproval, CreateSession, Begin, Finish, Labels
  <2>2. \/ \E o \in shown, r \in Replies : PermissionReply(d, o, r) \/ SessionPermissionReply(d, o, r)
        \/ Ask(d) \/ UpdatePermission(d)
        => \E l \in Labels \ {"ask"} : pc' = [pc EXCEPT ![d] = l]
    BY DEF PermissionReply, SessionPermissionReply, Answer, Ask, UpdatePermission, Begin, Goto, Finish, Labels
  <2>3. \A i \in Stamps : Authorize(d, i) => pc' = [pc EXCEPT ![d] = "run"]
    BY DEF Authorize, Goto
  <2> QED BY <1>1, <2>1, <2>2, <2>3 DEF Request, Labels
<1>2. ASSUME ~ \E d \in Conns : Request(d)
      PROVE  pc'[c] # "ask"
  <2>1. UNCHANGED pc \/ pc' = [d \in Conns |-> "idle"]
    BY <1>2 DEF Next, PermissionList, CreateWorkspace, DeleteWorkspace, DeleteSession, Restart, vars
  <2> QED BY <2>1
<1>3. ASSUME NEW d \in Conns, NEW l \in Labels \ {"ask"}, pc' = [pc EXCEPT ![d] = l]
      PROVE  FALSE
  BY <1>3 DEF TypeOK
<1>4. PICK d \in Conns : Request(d)
  BY <1>2
<1>5. Deny(d) => d = c
  BY DEF Deny, Goto, TypeOK
<1> QED BY <1>1, <1>3, <1>4, <1>5

(* No command covered by an acknowledged "always" approval is turned down. *)
THEOREM AlwaysStays ==
  ASSUME ~SameMilli
  PROVE  Spec => NoAskAfterAlways
<1>1. TypeOK /\ AlwaysInv /\ [Next]_vars =>
        [\A c \in Conns : pc[c] = "consume" /\ pc'[c] = "ask" =>
           ~ \E a \in acked : a.ws = job[c].ws /\ job[c].path \in Covers[a.path]]_vars
  <2> SUFFICES ASSUME TypeOK, AlwaysInv, [Next]_vars,
                      NEW c \in Conns, pc[c] = "consume", pc'[c] = "ask",
                      NEW a \in acked, a.ws = job[c].ws, job[c].path \in Covers[a.path]
               PROVE  FALSE
    OBVIOUS
  <2>1. Deny(c)
    BY OnlyDenyAsks
  <2>2. PICK i \in Stamps : approvals[i] = [ws |-> a.ws, path |-> a.path, mode |-> "always"]
    BY DEF AlwaysInv
  <2>3. approvals[i] # None
    <3>1. approvals[i] \in Approval
      BY <2>2 DEF TypeOK, Approval, Grants
    <3> QED BY <3>1, StoreAssumption
  <2>4. i \in Matching(job[c].ws, job[c].path)
    BY <2>2, <2>3 DEF Matching
  <2> QED BY <2>1, <2>4 DEF Deny
<1> QED
  BY <1>1, TypeCorrect, AlwaysInvariant, PTL DEF Spec, NoAskAfterAlways

-----------------------------------------------------------------------------
(* A grant is carried unchanged from the request the user saw, through the *)
(* reply, the approval and its file, to the command it lets through; no    *)
(* failure of the file system and no restart changes what was granted.     *)
THEOREM ConsentInvariant ==
  ASSUME ~SameMilli
  PROVE  Spec => []ConsentInv
<1>1. Init => ConsentInv
  BY DEF Init, ConsentInv, NoRunWithoutConsent
<1>2. TypeOK /\ ConsentInv /\ [Next]_vars => ConsentInv'
  <2> SUFFICES ASSUME TypeOK, ConsentInv, [Next]_vars PROVE ConsentInv'
    OBVIOUS
  <2> USE DEF ConsentInv, NoRunWithoutConsent, Stands, IsGranted, maps, files, history
  <2>1. ASSUME NEW c \in Conns, NEW s \in Sessions, NEW p \in Paths, ShellStart(c, s, p) PROVE ConsentInv'
    BY <2>1 DEF ShellStart, Begin, TypeOK
  <2>2. ASSUME NEW c \in Conns, NEW i \in Stamps, Authorize(c, i) PROVE ConsentInv'
    <3>1. /\ UNCHANGED <<job, permissions, shown, granted, now>>
          /\ pc' = [pc EXCEPT ![c] = "run"]
          /\ \A k \in Stamps : approvals'[k] \in {approvals[k], None}
          /\ \A k \in Stamps : diskApprovals'[k] \in {diskApprovals[k], None}
      BY <2>2 DEF Authorize, Goto, Unlinked, TypeOK
    <3>2. \E g \in granted : g.ws = job[c].ws /\ job[c].path \in Covers[g.path]
      BY <2>2 DEF Authorize, Matching
    <3>3. NoRunWithoutConsent'
      BY <3>1, <3>2 DEF TypeOK
    <3>4. \A d \in Conns : pc'[d] \in {"announce", "update", "grant"} => pc'[d] = pc[d]
      BY <3>1 DEF TypeOK
    <3> QED BY <3>1, <3>3, <3>4
  <2>3. ASSUME NEW c \in Conns, Run(c) PROVE ConsentInv'
    BY <2>3 DEF Run, Finish, TypeOK
  <2>4. ASSUME NEW c \in Conns, Deny(c) PROVE ConsentInv'
    BY <2>4 DEF Deny, Goto, TypeOK
  <2>5. ASSUME NEW c \in Conns, Ask(c) PROVE ConsentInv'
    <3> DEFINE r == [sess |-> job[c].sess, ws |-> job[c].ws, path |-> job[c].path, status |-> "pending"]
    <3>1. now' = now + 1 /\ now \in Nat /\ now \in Stamps
      BY <2>5, ClockMoves DEF Ask
    <3>2. r # None /\ job[c] \in Job
      <4>1. job[c] \in Job
        BY <2>5 DEF Ask, TypeOK
      <4>2. r \in PermissionRequest
        BY <4>1 DEF Job, PermissionRequest
      <4> QED BY <4>1, <4>2, StoreAssumption
    <3>3. /\ permissions' = [permissions EXCEPT ![now] = r]
          /\ pc' = [pc EXCEPT ![c] = "announce"]
          /\ job' = [job EXCEPT ![c] = [job[c] EXCEPT !.id = now]]
          /\ UNCHANGED <<approvals, diskApprovals, shown, granted>>
      BY <2>5 DEF Ask, Begin
    <3>4. \A o \in shown : o.id \in Stamps /\ o.id < now
      BY DEF TypeOK
    <3>5. \A o \in shown : o.id < now' /\ permissions'[o.id] = permissions[o.id]
      BY <3>1, <3>3, <3>4 DEF TypeOK, Stamps
    <3>6. Stands(job[c])'
      <4>1. /\ job'[c].id = now /\ job'[c].ws = job[c].ws /\ job'[c].path = job[c].path
        BY <3>2, <3>3 DEF TypeOK, Job
      <4> QED BY <4>1, <3>1, <3>2, <3>3 DEF TypeOK
    <3>7. ASSUME NEW d \in Conns, d # c
          PROVE  /\ pc'[d] = pc[d] /\ job'[d] = job[d]
                 /\ pc[d] \in {"announce", "update"} => Stands(job[d])'
      <4>1. pc'[d] = pc[d] /\ job'[d] = job[d]
        BY <3>3, <3>7 DEF TypeOK
      <4>2. ASSUME pc[d] \in {"announce", "update"} PROVE job[d].id \in Stamps /\ job[d].id < now
        BY <4>2 DEF TypeOK, Job
      <4> QED BY <4>1, <4>2, <3>1, <3>3 DEF TypeOK, Stamps
    <3>8. pc'[c] = "announce"
      BY <3>3 DEF TypeOK
    <3>9. \A i \in Stamps : permissions'[i] # None => i < now'
      BY <3>1, <3>3 DEF TypeOK, Stamps
    <3>10. /\ NoRunWithoutConsent'
           /\ \A d \in Conns : pc'[d] \in {"update", "grant"} /\ job'[d].reply \in Grants => IsGranted(job[d])'
           /\ \A i \in Stamps : approvals'[i] # None => IsGranted(approvals[i])'
           /\ \A i \in Stamps : diskApprovals'[i] # None => IsGranted(diskApprovals[i])'
      BY <3>3, <3>7, <3>8
    <3> QED BY <3>3, <3>5, <3>6, <3>7, <3>8, <3>9, <3>10
  <2>6. ASSUME NEW c \in Conns, Announce(c) PROVE ConsentInv'
    <3>1. /\ pc' = [pc EXCEPT ![c] = "idle"] /\ job' = [job EXCEPT ![c] = None]
          /\ UNCHANGED <<approvals, diskApprovals, permissions, granted, now>>
      BY <2>6 DEF Announce, Finish
    <3>2. \A o \in shown' : o.id < now /\ (permissions[o.id] # None => Stands(o))
      BY <2>6 DEF Announce
    <3> QED BY <3>1, <3>2 DEF TypeOK
  <2>7. ASSUME PermissionList PROVE ConsentInv'
    <3>1. \A o \in shown' : o.id < now /\ (permissions[o.id] # None => Stands(o))
      BY <2>7 DEF PermissionList
    <3> QED BY <2>7, <3>1 DEF PermissionList
  <2>8. ASSUME NEW c \in Conns, NEW o \in shown, NEW r \in Replies, Answer(c, o, r) PROVE ConsentInv'
    <3>1. Stands(o)
      BY <2>8 DEF Answer
    <3> DEFINE j == [sess |-> permissions[o.id].sess, ws |-> permissions[o.id].ws,
                     path |-> permissions[o.id].path, id |-> o.id, reply |-> r]
    <3>2. /\ pc' = [pc EXCEPT ![c] = "update"] /\ job' = [job EXCEPT ![c] = j]
          /\ UNCHANGED <<approvals, diskApprovals, permissions, shown, now>>
          /\ granted \subseteq granted'
      BY <2>8 DEF Answer, Begin
    <3>3. j.id = o.id /\ j.ws = o.ws /\ j.path = o.path /\ j.reply = r
      BY <3>1
    <3>4. r \in Grants => \E g \in granted' : g.ws = j.ws /\ g.path = j.path
      <4> DEFINE g == [id |-> o.id, ws |-> o.ws, path |-> o.path, mode |-> r]
      <4>1. r \in Grants => g \in granted'
        BY <2>8 DEF Answer
      <4>2. g.ws = o.ws /\ g.path = o.path
        OBVIOUS
      <4> HIDE DEF g, j
      <4> QED BY <3>3, <4>1, <4>2
    <3>5. pc'[c] = "update" /\ job'[c] = j /\ \A d \in Conns \ {c} : pc'[d] = pc[d] /\ job'[d] = job[d]
      BY <3>2 DEF TypeOK
    <3>6. NoRunWithoutConsent'
      BY <3>2, <3>5
    <3> QED BY <3>1, <3>2, <3>3, <3>4, <3>5, <3>6
  <2>9. ASSUME NEW c \in Conns, UpdatePermission(c) PROVE ConsentInv'
    <3> DEFINE r == [sess |-> job[c].sess, ws |-> job[c].ws, path |-> job[c].path, status |-> "answered"]
    <3>1. job[c] \in Job /\ r # None
      <4>1. job[c] \in Job
        BY <2>9 DEF UpdatePermission, TypeOK
      <4>2. r \in PermissionRequest
        BY <4>1 DEF Job, PermissionRequest
      <4> QED BY <4>1, <4>2, StoreAssumption
    <3>2. \A i \in Stamps : /\ permissions[i] # None <=> permissions'[i] # None
                            /\ permissions'[i] # None => /\ permissions'[i].ws = permissions[i].ws
                                                         /\ permissions'[i].path = permissions[i].path
      BY <2>9, <3>1 DEF UpdatePermission, TypeOK, Job
    <3>3. /\ UNCHANGED <<approvals, diskApprovals, shown, granted, now>>
          /\ \A d \in Conns \ {c} : pc'[d] = pc[d] /\ job'[d] = job[d]
          /\ \/ pc'[c] = "grant" /\ job'[c] = job[c] /\ job[c].reply \in Grants
             \/ pc'[c] = "idle"
      BY <2>9 DEF UpdatePermission, Goto, Finish, TypeOK
    <3>4. \A o \in shown : o.id \in Stamps
      BY DEF TypeOK
    <3>5. \A d \in Conns : pc[d] \in {"announce", "update"} => job[d].id \in Stamps
      BY DEF TypeOK, Job
    <3>6. pc[c] = "update"
      BY <2>9 DEF UpdatePermission
    <3>7. NoRunWithoutConsent'
      BY <3>3
    <3>8. \A o \in shown' : o.id < now' /\ (permissions'[o.id] # None => Stands(o)')
      BY <3>2, <3>3, <3>4
    <3>9. \A d \in Conns : pc'[d] \in {"announce", "update"} => Stands(job[d])'
      BY <3>2, <3>3, <3>5
    <3>10. \A i \in Stamps : permissions'[i] # None => i < now'
      BY <3>2, <3>3
    <3> QED BY <3>3, <3>6, <3>7, <3>8, <3>9, <3>10
  <2>10. ASSUME NEW c \in Conns, CreateApproval(c) PROVE ConsentInv'
    <3> DEFINE apr == [ws |-> job[c].ws, path |-> job[c].path, mode |-> job[c].reply]
    <3>1. now' = now + 1 /\ now \in Nat /\ now \in Stamps
      BY <2>10, ClockMoves DEF CreateApproval
    <3>2. IsGranted(job[c])
      BY <2>10 DEF CreateApproval, TypeOK
    <3>3. /\ UNCHANGED <<permissions, shown, granted>>
          /\ pc' = [pc EXCEPT ![c] = "idle"] /\ job' = [job EXCEPT ![c] = None]
          /\ \A i \in Stamps : approvals'[i] \in {approvals[i], apr} /\ diskApprovals'[i] \in {diskApprovals[i], apr, None}
      BY <2>10 DEF CreateApproval, Finish, TypeOK
    <3>4. \A i \in Stamps : approvals'[i] # None => IsGranted(approvals[i])'
      BY <3>2, <3>3
    <3>5. \A i \in Stamps : diskApprovals'[i] # None => IsGranted(diskApprovals[i])'
      BY <3>2, <3>3
    <3>6. \A o \in shown : o.id \in Stamps
      BY DEF TypeOK
    <3>7. \A d \in Conns : pc'[d] # "idle" => pc'[d] = pc[d] /\ job'[d] = job[d] /\ job[d].id \in Stamps
      BY <3>3 DEF TypeOK, Job
    <3>8. \A i \in Stamps : i < now => i < now'
      BY <3>1 DEF Stamps
    <3>9. \A o \in shown' : o.id < now' /\ (permissions'[o.id] # None => Stands(o)')
      BY <3>3, <3>6, <3>8
    <3>10. \A d \in Conns : pc'[d] \in {"announce", "update"} => Stands(job[d])'
      BY <3>3, <3>7, <3>8
    <3>11. NoRunWithoutConsent'
      BY <3>3, <3>7
    <3>12. \A i \in Stamps : permissions'[i] # None => i < now'
      BY <3>3, <3>8
    <3>13. \A d \in Conns : pc'[d] \in {"update", "grant"} /\ job'[d].reply \in Grants => IsGranted(job[d])'
      BY <3>3, <3>7
    <3> HIDE DEF apr
    <3> QED BY <3>3, <3>4, <3>5, <3>9, <3>10, <3>11, <3>12, <3>13
  <2>11. ASSUME NEW w \in Workspaces, CreateWorkspace(w) \/ DeleteWorkspace(w) PROVE ConsentInv'
    BY <2>11 DEF CreateWorkspace, DeleteWorkspace
  <2>12. ASSUME NEW c \in Conns, NEW s \in Sessions, NEW w \in Workspaces, SessionCreate(c, s, w) PROVE ConsentInv'
    BY <2>12 DEF SessionCreate, Begin, TypeOK
  <2>13. ASSUME NEW c \in Conns, CreateSession(c) PROVE ConsentInv'
    BY <2>13 DEF CreateSession, Finish, TypeOK
  <2>14. ASSUME NEW s \in Sessions, DeleteSession(s) PROVE ConsentInv'
    BY <2>14 DEF DeleteSession
  <2>15. CASE Restart
    <3>1. \A o \in shown : o.id \in Stamps
      BY DEF TypeOK
    <3> QED BY <2>15, <3>1 DEF Restart
  <2>16. CASE UNCHANGED vars
    BY <2>16 DEF vars
  <2> QED
    BY <2>1, <2>2, <2>3, <2>4, <2>5, <2>6, <2>7, <2>8, <2>9, <2>10, <2>11, <2>12, <2>13,
       <2>14, <2>15, <2>16
       DEF Next, Request, PermissionReply, SessionPermissionReply
<1> QED
  BY <1>1, <1>2, TypeCorrect, PTL DEF Spec

(* A command only runs where a user, shown a request for that workspace    *)
(* and a directory covering its own, granted it.                           *)
THEOREM Consent ==
  ASSUME ~SameMilli
  PROVE  Spec => []NoRunWithoutConsent
<1>1. ConsentInv => NoRunWithoutConsent
  BY DEF ConsentInv
<1> QED BY <1>1, ConsentInvariant, PTL

-----------------------------------------------------------------------------
(* A workspace's file is only ever written into the folder of its id.      *)
LEMMA FoldersHoldTheirOwn == Spec => []InItsFolder
<1>1. Init => InItsFolder
  BY StoreAssumption DEF Init, InItsFolder
<1>2. TypeOK /\ InItsFolder /\ [Next]_vars => InItsFolder'
  <2> SUFFICES ASSUME TypeOK, InItsFolder, [Next]_vars PROVE InItsFolder'
    OBVIOUS
  <2> USE DEF InItsFolder
  <2>1. ASSUME NEW w \in Workspaces, CreateWorkspace(w) PROVE InItsFolder'
    BY <2>1, StoreAssumption DEF CreateWorkspace, TypeOK
  <2>2. ASSUME NEW w \in Workspaces, DeleteWorkspace(w) PROVE InItsFolder'
    BY <2>2 DEF DeleteWorkspace
  <2>3. CASE UNCHANGED diskWorkspaces
    BY <2>3
  <2>4. ASSUME NEW c \in Conns, Request(c) PROVE UNCHANGED diskWorkspaces
    BY <2>4 DEF Request, ShellStart, SessionCreate, PermissionReply, SessionPermissionReply, Answer, Run, Deny,
                Ask, Announce, UpdatePermission, Authorize, CreateApproval, CreateSession, files
  <2>5. ASSUME PermissionList \/ (\E s \in Sessions : DeleteSession(s)) \/ Restart \/ UNCHANGED vars
        PROVE  UNCHANGED diskWorkspaces
    BY <2>5 DEF PermissionList, DeleteSession, Restart, files, vars
  <2> QED BY <2>1, <2>2, <2>3, <2>4, <2>5 DEF Next
<1> QED
  BY <1>1, <1>2, TypeCorrect, PTL DEF Spec

(* Where files can be removed, nothing that a handler deleted or used up   *)
(* is where a start would load it from, whatever folders the ids of        *)
(* workspaces share, and also when writes fail.                            *)
THEOREM NothingReturns ==
  ASSUME ~UnlinkFaults
  PROVE  Spec => []NothingComesBack
<1>1. Init => NothingComesBack
  BY DEF Init, NothingComesBack
<1>2. TypeOK /\ InItsFolder /\ NothingComesBack /\ [Next]_vars => NothingComesBack'
  <2> SUFFICES ASSUME TypeOK, InItsFolder, NothingComesBack, [Next]_vars PROVE NothingComesBack'
    OBVIOUS
  <2> USE DEF NothingComesBack
  <2>1. ASSUME NEW c \in Conns, NEW i \in Stamps, Authorize(c, i) PROVE NothingComesBack'
    BY <2>1 DEF Authorize, Unlinked, TypeOK
  <2>2. ASSUME NEW c \in Conns, CreateApproval(c) PROVE NothingComesBack'
    <3> DEFINE apr == [ws |-> job[c].ws, path |-> job[c].path, mode |-> job[c].reply]
    <3>1. apr # None
      BY <2>2, StoreAssumption DEF CreateApproval, TypeOK, Job, Approval
    <3>2. /\ approvals' = [approvals EXCEPT ![now] = apr]
          /\ diskApprovals' \in {diskApprovals, [diskApprovals EXCEPT ![now] = apr], [diskApprovals EXCEPT ![now] = None]}
          /\ UNCHANGED <<workspaces, sessions, diskWorkspaces, diskSessions>>
      BY <2>2 DEF CreateApproval
    <3> HIDE DEF apr
    <3> QED BY <3>1, <3>2 DEF TypeOK
  <2>3. ASSUME NEW c \in Conns, CreateSession(c) PROVE NothingComesBack'
    <3>1. job[c].ws # None
      BY <2>3, StoreAssumption DEF CreateSession, TypeOK, Job
    <3> QED BY <2>3, <3>1 DEF CreateSession, TypeOK
  <2>4. ASSUME NEW w \in Workspaces, CreateWorkspace(w) PROVE NothingComesBack'
    <3>1. diskWorkspaces' \in {diskWorkspaces, [diskWorkspaces EXCEPT ![FolderOf[w]] = w],
                               [diskWorkspaces EXCEPT ![FolderOf[w]] = None]}
      BY <2>4 DEF CreateWorkspace
    <3>2. Loaded(diskWorkspaces)' \subseteq Loaded(diskWorkspaces) \cup {w}
      BY <3>1, StoreAssumption DEF Loaded, TypeOK
    <3> QED BY <2>4, <3>2 DEF CreateWorkspace
  <2>5. ASSUME NEW w \in Workspaces, DeleteWorkspace(w) PROVE NothingComesBack'
    <3>1. diskWorkspaces' = [f \in Folders |-> IF f \in Inside[FolderOf[w]] THEN None ELSE diskWorkspaces[f]]
      BY <2>5 DEF DeleteWorkspace
    <3>2. ASSUME NEW f \in Listed, diskWorkspaces'[f] # None
          PROVE  diskWorkspaces'[f] = diskWorkspaces[f] /\ diskWorkspaces[f] # w
      <4>1. f \in Folders /\ FolderOf[w] \in Folders
        BY StoreAssumption
      <4>2. f \notin Inside[FolderOf[w]] /\ diskWorkspaces'[f] = diskWorkspaces[f]
        BY <3>1, <3>2, <4>1
      <4>3. FolderOf[diskWorkspaces[f]] = f
        BY <3>2, <4>1, <4>2 DEF InItsFolder
      <4> QED BY <4>1, <4>2, <4>3, StoreAssumption
    <3>3. Loaded(diskWorkspaces)' \subseteq Loaded(diskWorkspaces) \ {w}
      BY <3>2 DEF Loaded
    <3> QED BY <2>5, <3>3 DEF DeleteWorkspace
  <2>6. ASSUME NEW s \in Sessions, DeleteSession(s) PROVE NothingComesBack'
    BY <2>6 DEF DeleteSession, Unlinked, TypeOK
  <2>7. CASE Restart
    BY <2>7 DEF Restart, files
  <2>8. ASSUME NEW c \in Conns,
               \/ \E s \in Sessions, p \in Paths : ShellStart(c, s, p)
               \/ \E s \in Sessions, w \in Workspaces : SessionCreate(c, s, w)
               \/ \E o \in shown, r \in Replies : PermissionReply(c, o, r) \/ SessionPermissionReply(c, o, r)
               \/ Run(c) \/ Deny(c) \/ Ask(c) \/ Announce(c) \/ UpdatePermission(c)
        PROVE  NothingComesBack'
    <3>1. UNCHANGED <<workspaces, sessions, approvals, files>>
      BY <2>8 DEF ShellStart, SessionCreate, PermissionReply, SessionPermissionReply, Answer, Run, Deny,
                  Ask, Announce, UpdatePermission, maps
    <3> QED BY <3>1 DEF files
  <2>9. CASE PermissionList \/ UNCHANGED vars
    BY <2>9 DEF PermissionList, maps, files, vars
  <2> QED BY <2>1, <2>2, <2>3, <2>4, <2>5, <2>6, <2>7, <2>8, <2>9 DEF Next, Request
<1> QED
  BY <1>1, <1>2, TypeCorrect, FoldersHoldTheirOwn, PTL DEF Spec

-----------------------------------------------------------------------------
(* Where ids are distinct and files can be removed, an approval's file is  *)
(* blank or holds what memory holds.                                       *)
LEMMA FilesOfApprovals ==
  ASSUME ~SameMilli, ~UnlinkFaults
  PROVE  Spec => []FilesAgree
<1>1. Init => FilesAgree
  BY DEF Init, FilesAgree
<1>2. TypeOK /\ OnceInv /\ FilesAgree /\ [Next]_vars => FilesAgree'
  <2> SUFFICES ASSUME TypeOK, OnceInv, FilesAgree, [Next]_vars PROVE FilesAgree'
    OBVIOUS
  <2> USE DEF FilesAgree
  <2>1. ASSUME NEW c \in Conns, NEW i \in Stamps, Authorize(c, i) PROVE FilesAgree'
    BY <2>1 DEF Authorize, Unlinked, TypeOK
  <2>2. ASSUME NEW c \in Conns, CreateApproval(c) PROVE FilesAgree'
    <3>1. now \in Stamps /\ diskApprovals[now] = None
      BY <2>2, ClockMoves DEF CreateApproval, OnceInv, Stamps
    <3> QED BY <2>2, <3>1 DEF CreateApproval, TypeOK
  <2>3. CASE Restart
    BY <2>3 DEF Restart, files
  <2> QED BY <2>1, <2>2, <2>3, ApprovalSteps
<1> QED
  BY <1>1, <1>2, TypeCorrect, OnceInvariant, PTL DEF Spec

(* Under the same conditions the stub implements the ledger: a granted     *)
(* right is entered once, firmly if its file was written, a "once" right   *)
(* is struck out by its one use, and a restart forgets what is not firm.   *)
THEOREM LedgerImplemented ==
  ASSUME ~SameMilli, ~UnlinkFaults
  PROVE  Spec => ImplementsLedger
<1>1. Init => Ledger!Init
  BY DEF Init, Ledger!Init
<1>2. TypeOK /\ OnceInv /\ FilesAgree /\ [Next]_vars => [Ledger!Next]_(Ledger!vars)
  <2> SUFFICES ASSUME TypeOK, OnceInv, FilesAgree, [Next]_vars PROVE [Ledger!Next]_(Ledger!vars)
    OBVIOUS
  <2> DEFINE spent == {i \in Stamps : uses[i] > 0}
             firm == {i \in Stamps : diskApprovals[i] # None}
  <2>1. ASSUME NEW c \in Conns, NEW i \in Stamps, Authorize(c, i) PROVE [Ledger!Next]_(Ledger!vars)
    <3>1. approvals[i] # None
      BY <2>1 DEF Authorize, Matching
    <3>2. CASE approvals[i].mode = "once"
      <4>1. /\ approvals' = [approvals EXCEPT ![i] = None] /\ uses' = [uses EXCEPT ![i] = @ + 1]
            /\ diskApprovals' = [diskApprovals EXCEPT ![i] = None]
        BY <2>1, <3>2 DEF Authorize, Unlinked
      <4>2. spent' = spent \cup {i} /\ firm' = firm \ {i}
        BY <4>1 DEF TypeOK
      <4>3. Ledger!Spend(i)
        BY <3>1, <3>2, <4>1, <4>2 DEF Ledger!Spend
      <4> QED BY <4>3 DEF Ledger!Next
    <3>3. CASE approvals[i].mode # "once"
      BY <2>1, <3>3 DEF Authorize, Ledger!vars
    <3> QED BY <3>2, <3>3
  <2>2. ASSUME NEW c \in Conns, CreateApproval(c) PROVE [Ledger!Next]_(Ledger!vars)
    <3> DEFINE apr == [ws |-> job[c].ws, path |-> job[c].path, mode |-> job[c].reply]
    <3>1. now' = now + 1 /\ now \in Nat /\ now \in Stamps
      BY <2>2, ClockMoves DEF CreateApproval
    <3>2. approvals[now] = None /\ diskApprovals[now] = None /\ now \notin spent
      BY <3>1 DEF OnceInv
    <3>3. apr \in Approval
      BY <2>2 DEF CreateApproval, TypeOK, Job, Approval
    <3>4. approvals' = [approvals EXCEPT ![now] = apr] /\ spent' = spent
      BY <2>2 DEF CreateApproval
    <3>5. diskApprovals' \in {diskApprovals, [diskApprovals EXCEPT ![now] = apr], [diskApprovals EXCEPT ![now] = None]}
      BY <2>2 DEF CreateApproval
    <3>6. firm' \in {firm, firm \cup {now}}
      BY <3>1, <3>2, <3>5 DEF TypeOK
    <3> HIDE DEF apr, spent, firm
    <3>7. \E i \in Stamps, r \in Approval :
            /\ approvals[i] = None /\ i \notin spent
            /\ approvals' = [approvals EXCEPT ![i] = r]
            /\ firm' \in {firm, firm \cup {i}} /\ spent' = spent
      BY <3>1, <3>2, <3>3, <3>4, <3>6
    <3> QED BY <3>7 DEF Ledger!Next, Ledger!Issue, spent, firm
  <2>3. ASSUME Restart PROVE [Ledger!Next]_(Ledger!vars)
    <3>1. approvals' = diskApprovals /\ UNCHANGED <<diskApprovals, uses>>
      BY <2>3 DEF Restart, files, history
    <3>2. approvals' = [i \in Stamps |-> IF i \in firm THEN approvals[i] ELSE None]
      BY <3>1 DEF FilesAgree, TypeOK
    <3>3. Ledger!Forget
      BY <3>1, <3>2 DEF Ledger!Forget
    <3> QED BY <3>3 DEF Ledger!Next
  <2>4. UNCHANGED <<approvals, diskApprovals, acked, uses>> => UNCHANGED Ledger!vars
    BY DEF Ledger!vars
  <2> QED BY <2>1, <2>2, <2>3, <2>4, ApprovalSteps
<1> QED
  BY <1>1, <1>2, TypeCorrect, OnceInvariant, FilesOfApprovals, PTL DEF Spec, ImplementsLedger, Ledger!Spec
=============================================================================
