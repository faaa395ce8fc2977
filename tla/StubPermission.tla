--------------------------- MODULE StubPermission ---------------------------
(***************************************************************************)
(* The remote stub's permission engine: the store of                       *)
(* stub/internal/state/state.go (workspaces, sessions, permission requests *)
(* and approvals, with the files under --state-dir) and the handlers of    *)
(* stub/internal/handler/handler.go that read and change it.               *)
(*                                                                         *)
(* Every method of State holds its mutex from the first read to the last   *)
(* file operation, so a method is one step.  A handler makes several such  *)
(* calls and holds no lock between them: each call is an action of its own *)
(* and other requests, or the end of the process, come in between.         *)
(*                                                                         *)
(* Permission requests and approvals are named by the millisecond at which *)
(* they were made (perm_<ms>, apr_<ms>); `now' is that clock.  A request   *)
(* asks for one directory p and carries the pattern p/**, so a pattern is  *)
(* named by its directory and Covers[p] is the set of directories that     *)
(* matchPattern accepts for it (module PathPattern).                       *)
(*                                                                         *)
(* A workspace id is any text the client sends, and names the folder its   *)
(* file lies in: "a" and "a/" share one, "a/b" lies within that of "a",    *)
(* and the folder of the empty id is the one that holds all the others.    *)
(***************************************************************************)
EXTENDS Integers, FiniteSets

CONSTANTS
  Conns,         \* goroutines serving HTTP requests
  Workspaces,    \* workspace ids the clients use
  Sessions,      \* session ids the clients use
  Paths,         \* directories commands are run in
  Covers,        \* Covers[p]: the directories the pattern p/** matches
  None,          \* an empty slot of a map
  Folders,       \* folders those ids lead to, workspaces/ or below it
  FolderOf,      \* FolderOf[w]: filepath.Join(root, "workspaces", w)
  Inside,        \* Inside[f]: f and the folders in it, which go with it
  Listed,        \* the folders right below workspaces/, which are loaded
  OldFolders,    \* what they hold at the first start
  OldSessions,   \* sessions it holds: [Sessions -> Workspaces \cup {None}]
  Kinds,         \* kinds of request the clients send
  SameMilli,     \* two ids may be stamped within one millisecond
  WriteFaults,   \* os.WriteFile may fail
  UnlinkFaults,  \* os.Remove and os.RemoveAll may fail
  MaxClock       \* bound: ids stamped in a behaviour

-----------------------------------------------------------------------------
Stamps == 0 .. MaxClock
Grants == {"once", "always"}
Replies == Grants \cup {"reject"}          \* "reject": any other word
PermissionRequest == [sess : Sessions, ws : Workspaces, path : Paths,
                      status : {"pending", "answered"}]
Approval == [ws : Workspaces, path : Paths, mode : Grants]
Job == [sess : Sessions, ws : Workspaces, path : Paths, id : Stamps,
        reply : Replies \cup {"none"}]
Labels == {"idle", "consume", "run", "ask", "announce", "update", "grant", "create"}

ASSUME StoreAssumption ==
  /\ None \notin Workspaces \cup PermissionRequest \cup Approval \cup Job
  /\ Covers \in [Paths -> SUBSET Paths]
  /\ \A p \in Paths : p \in Covers[p]
  /\ FolderOf \in [Workspaces -> Folders] /\ Listed \subseteq Folders
  /\ Inside \in [Folders -> SUBSET Folders] /\ \A f \in Folders : f \in Inside[f]
  /\ OldFolders \in [Folders -> Workspaces \cup {None}]
  /\ \A f \in Folders : OldFolders[f] # None => FolderOf[OldFolders[f]] = f
  /\ OldSessions \in [Sessions -> Workspaces \cup {None}]
  /\ SameMilli \in BOOLEAN /\ WriteFaults \in BOOLEAN /\ UnlinkFaults \in BOOLEAN
  /\ MaxClock \in Nat

VARIABLES
  workspaces, sessions, permissions, approvals,  \* the maps of State
  diskWorkspaces, diskSessions, diskApprovals,   \* the files under --state-dir
  now,                                           \* time.Now().UnixMilli()
  pc, job,      \* where each goroutine is, and its local variables
  shown,        \* history: requests a client saw, as it saw them
  granted,      \* history: grants users gave, to the requests they saw
  acked,        \* history: "always" approvals whose reply returned 200
  uses          \* history: commands run under the "once" approval of an id

maps == <<workspaces, sessions, permissions, approvals>>
files == <<diskWorkspaces, diskSessions, diskApprovals>>
history == <<shown, granted, acked, uses>>
vars == <<maps, files, now, pc, job, history>>

-----------------------------------------------------------------------------
(* loadWorkspaces: a file in workspaces/ itself, or deeper down, is not    *)
(* looked for.                                                             *)
Loaded(folders) == {folders[f] : f \in Listed} \ {None}

(* The stub starts on a state directory an earlier one may have left.      *)
Init ==
  /\ workspaces = Loaded(OldFolders) /\ diskWorkspaces = OldFolders
  /\ sessions = OldSessions /\ diskSessions = OldSessions
  /\ permissions = [i \in Stamps |-> None]
  /\ approvals = [i \in Stamps |-> None] /\ diskApprovals = [i \in Stamps |-> None]
  /\ now = 0
  /\ pc = [c \in Conns |-> "idle"] /\ job = [c \in Conns |-> None]
  /\ shown = {} /\ granted = {} /\ acked = {}
  /\ uses = [i \in Stamps |-> 0]

-----------------------------------------------------------------------------
(* Helpers.                                                                *)

(* Time may stand still between two ids only where SameMilli says so.      *)
Stamp ==
  /\ now < MaxClock
  /\ now' \in IF SameMilli THEN {now, now + 1} ELSE {now + 1}

Idle(c, kind) == pc[c] = "idle" /\ kind \in Kinds
Begin(c, l, j) == pc' = [pc EXCEPT ![c] = l] /\ job' = [job EXCEPT ![c] = j]
Goto(c, l) == pc' = [pc EXCEPT ![c] = l] /\ UNCHANGED job
Finish(c) == pc' = [pc EXCEPT ![c] = "idle"] /\ job' = [job EXCEPT ![c] = None]

(* The file of a map's entry after os.Remove: a failure is ignored.        *)
Unlinked(file, gone) == IF UnlinkFaults THEN {file, gone} ELSE {gone}

(* Mutant of Matching: the workspace of the approval is not compared.      *)
Matching_AnyWorkspace(w, p) ==
  {i \in Stamps : approvals[i] # None /\ p \in Covers[approvals[i].path]}

(* The approvals ConsumeApproval may meet first: Go walks a map in any     *)
(* order.                                                                  *)
Matching(w, p) ==
  {i \in Stamps : /\ approvals[i] # None
                  /\ approvals[i].ws = w
                  /\ p \in Covers[approvals[i].path]}

-----------------------------------------------------------------------------
(* POST /session/{s}/shell and /command, up to the reply.                  *)

(* Shell, Command: the session is looked up; p is cwd or its directory.    *)
ShellStart(c, s, p) ==
  /\ Idle(c, "shell") /\ sessions[s] # None
  /\ Begin(c, "consume", [sess |-> s, ws |-> sessions[s], path |-> p, id |-> 0, reply |-> "none"])
  /\ UNCHANGED <<maps, files, now, history>>

(* Mutants of Authorize: the approval's file stays behind; an "always"     *)
(* approval is consumed like a "once" one.                                 *)
Authorize_KeepsFile(c, i) ==
  /\ pc[c] = "consume" /\ i \in Matching(job[c].ws, job[c].path)
  /\ IF approvals[i].mode = "once"
     THEN /\ approvals' = [approvals EXCEPT ![i] = None]
          /\ uses' = [uses EXCEPT ![i] = @ + 1]
     ELSE UNCHANGED <<approvals, uses>>
  /\ Goto(c, "run")
  /\ UNCHANGED <<workspaces, sessions, permissions, files, now, shown, granted, acked>>
Authorize_ConsumesAlways(c, i) ==
  /\ pc[c] = "consume" /\ i \in Matching(job[c].ws, job[c].path)
  /\ approvals' = [approvals EXCEPT ![i] = None]
  /\ diskApprovals' = [diskApprovals EXCEPT ![i] = None]
  /\ uses' = [uses EXCEPT ![i] = @ + 1]
  /\ Goto(c, "run")
  /\ UNCHANGED <<workspaces, sessions, permissions, diskWorkspaces, diskSessions, now, shown, granted, acked>>

(* ConsumeApproval finds i: a "once" approval is gone before the command   *)
(* starts, from memory and, if os.Remove does its work, from the disk.     *)
Authorize(c, i) ==
  /\ pc[c] = "consume" /\ i \in Matching(job[c].ws, job[c].path)
  /\ IF approvals[i].mode = "once"
     THEN /\ approvals' = [approvals EXCEPT ![i] = None]
          /\ diskApprovals' \in Unlinked(diskApprovals, [diskApprovals EXCEPT ![i] = None])
          /\ uses' = [uses EXCEPT ![i] = @ + 1]
     ELSE UNCHANGED <<approvals, diskApprovals, uses>>
  /\ Goto(c, "run")
  /\ UNCHANGED <<workspaces, sessions, permissions, diskWorkspaces, diskSessions, now, shown, granted, acked>>

(* runCommand, and the 200 reply.                                          *)
Run(c) ==
  /\ pc[c] = "run"
  /\ Finish(c)
  /\ UNCHANGED <<maps, files, now, history>>

(* ConsumeApproval returns nil.                                            *)
Deny(c) ==
  /\ pc[c] = "consume" /\ Matching(job[c].ws, job[c].path) = {}
  /\ Goto(c, "ask")
  /\ UNCHANGED <<maps, files, now, history>>

(* CreatePermission: a pending request under the id perm_<now>.            *)
Ask(c) ==
  /\ pc[c] = "ask" /\ Stamp
  /\ permissions' = [permissions EXCEPT ![now] =
       [sess |-> job[c].sess, ws |-> job[c].ws, path |-> job[c].path, status |-> "pending"]]
  /\ Begin(c, "announce", [job[c] EXCEPT !.id = now])
  /\ UNCHANGED <<workspaces, sessions, approvals, files, history>>

(* Publish of permission.asked, which a full or absent subscriber never    *)
(* gets, and the 403.                                                      *)
Announce(c) ==
  /\ pc[c] = "announce"
  /\ shown' \in {shown, shown \cup {[id |-> job[c].id, sess |-> job[c].sess,
                                     ws |-> job[c].ws, path |-> job[c].path]}}
  /\ Finish(c)
  /\ UNCHANGED <<maps, files, now, granted, acked, uses>>

-----------------------------------------------------------------------------
(* GET /permission: the pending requests, in one locked read.              *)
PermissionList ==
  /\ "reply" \in Kinds
  /\ shown' = shown \cup
       {[id |-> i, sess |-> permissions[i].sess, ws |-> permissions[i].ws, path |-> permissions[i].path] :
          i \in {k \in Stamps : permissions[k] # None /\ permissions[k].status = "pending"}}
  /\ UNCHANGED <<maps, files, now, pc, job, granted, acked, uses>>

(* A user answers r to the request o he was shown, which the handler finds *)
(* by its id: whatever the map now holds there is what gets the answer.    *)
Answer(c, o, r) ==
  /\ Idle(c, "reply") /\ permissions[o.id] # None
  /\ granted' = IF r \in Grants
                THEN granted \cup {[id |-> o.id, ws |-> o.ws, path |-> o.path, mode |-> r]}
                ELSE granted
  /\ Begin(c, "update", [sess |-> permissions[o.id].sess, ws |-> permissions[o.id].ws,
                         path |-> permissions[o.id].path, id |-> o.id, reply |-> r])
  /\ UNCHANGED <<maps, files, now, shown, acked, uses>>

(* POST /permission/{id}/reply.                                            *)
PermissionReply(c, o, r) == Answer(c, o, r)

(* POST /session/{s}/permissions/{id}: the session must exist and be the   *)
(* request's.                                                              *)
SessionPermissionReply(c, o, r) ==
  /\ sessions[o.sess] # None
  /\ permissions[o.id] # None /\ permissions[o.id].sess = o.sess
  /\ Answer(c, o, r)

(* Mutant of UpdatePermission: any word but "pending" is taken for a grant. *)
UpdatePermission_GrantsAny(c) ==
  /\ pc[c] = "update"
  /\ permissions' = [permissions EXCEPT ![job[c].id] =
       [sess |-> job[c].sess, ws |-> job[c].ws, path |-> job[c].path, status |-> "answered"]]
  /\ Goto(c, "grant")
  /\ UNCHANGED <<workspaces, sessions, approvals, files, now, history>>

(* applyPermissionReply, first half: the request takes the reply for its   *)
(* status, whatever that was.  Only "pending" is ever asked of it again.   *)
UpdatePermission(c) ==
  /\ pc[c] = "update"
  /\ permissions' = [permissions EXCEPT ![job[c].id] =
       [sess |-> job[c].sess, ws |-> job[c].ws, path |-> job[c].path, status |-> "answered"]]
  /\ IF job[c].reply \in Grants THEN Goto(c, "grant") ELSE Finish(c)
  /\ UNCHANGED <<workspaces, sessions, approvals, files, now, history>>

(* Mutant of CreateApproval: the error of the write is not returned.       *)
CreateApproval_IgnoresError(c) ==
  LET apr == [ws |-> job[c].ws, path |-> job[c].path, mode |-> job[c].reply] IN
  /\ pc[c] = "grant" /\ Stamp
  /\ approvals' = [approvals EXCEPT ![now] = apr]
  /\ \/ diskApprovals' = [diskApprovals EXCEPT ![now] = apr]
     \/ WriteFaults /\ UNCHANGED diskApprovals
  /\ acked' = IF apr.mode = "always" THEN acked \cup {[ws |-> apr.ws, path |-> apr.path]} ELSE acked
  /\ Finish(c)
  /\ UNCHANGED <<workspaces, sessions, permissions, diskWorkspaces, diskSessions, shown, granted, uses>>

(* Second half: CreateApproval under apr_<now>.  When the file cannot be   *)
(* written the reply is an error, yet memory keeps the approval; the file  *)
(* is then as it was, or truncated, which loads as nothing.                *)
CreateApproval(c) ==
  LET apr == [ws |-> job[c].ws, path |-> job[c].path, mode |-> job[c].reply] IN
  /\ pc[c] = "grant" /\ Stamp
  /\ approvals' = [approvals EXCEPT ![now] = apr]
  /\ \/ /\ diskApprovals' = [diskApprovals EXCEPT ![now] = apr]
        /\ acked' = IF apr.mode = "always" THEN acked \cup {[ws |-> apr.ws, path |-> apr.path]} ELSE acked
     \/ /\ WriteFaults
        /\ diskApprovals' \in {diskApprovals, [diskApprovals EXCEPT ![now] = None]}
        /\ UNCHANGED acked
  /\ Finish(c)
  /\ UNCHANGED <<workspaces, sessions, permissions, diskWorkspaces, diskSessions, shown, granted, uses>>

-----------------------------------------------------------------------------
(* Workspaces and sessions.                                                *)

(* POST /experimental/workspace: an entry of the same id is replaced, and  *)
(* so is the file of an id that shares its folder.                         *)
CreateWorkspace(w) ==
  /\ "workspace" \in Kinds
  /\ workspaces' = workspaces \cup {w}
  /\ \/ diskWorkspaces' = [diskWorkspaces EXCEPT ![FolderOf[w]] = w]
     \/ WriteFaults /\ diskWorkspaces' \in {diskWorkspaces, [diskWorkspaces EXCEPT ![FolderOf[w]] = None]}
  /\ UNCHANGED <<sessions, permissions, approvals, diskSessions, diskApprovals, now, pc, job, history>>

(* DELETE /experimental/workspace/{w}: os.RemoveAll takes whatever lies in *)
(* the folder, and may stop halfway; memory loses w alone.  Its sessions   *)
(* and approvals stay.                                                     *)
DeleteWorkspace(w) ==
  /\ "workspace" \in Kinds
  /\ workspaces' = workspaces \ {w}
  /\ \E gone \in SUBSET Inside[FolderOf[w]] :
       /\ UnlinkFaults \/ gone = Inside[FolderOf[w]]
       /\ diskWorkspaces' = [f \in Folders |-> IF f \in gone THEN None ELSE diskWorkspaces[f]]
  /\ UNCHANGED <<sessions, permissions, approvals, diskSessions, diskApprovals, now, pc, job, history>>

(* POST /session: the workspace is looked up first...                      *)
SessionCreate(c, s, w) ==
  /\ Idle(c, "session") /\ w \in workspaces
  /\ \E p \in Paths :
       Begin(c, "create", [sess |-> s, ws |-> w, path |-> p, id |-> 0, reply |-> "none"])
  /\ UNCHANGED <<maps, files, now, history>>

(* ...and the session stored, even if the workspace went in between.       *)
CreateSession(c) ==
  LET stored == [diskSessions EXCEPT ![job[c].sess] = job[c].ws] IN
  /\ pc[c] = "create"
  /\ sessions' = [sessions EXCEPT ![job[c].sess] = job[c].ws]
  /\ \/ diskSessions' = stored
     \/ WriteFaults /\ diskSessions' \in {diskSessions, [diskSessions EXCEPT ![job[c].sess] = None]}
  /\ Finish(c)
  /\ UNCHANGED <<workspaces, permissions, approvals, diskWorkspaces, diskApprovals, now, history>>

(* Mutant of DeleteSession: the session's file stays behind.               *)
DeleteSession_KeepsFile(s) ==
  /\ "session" \in Kinds
  /\ sessions' = [sessions EXCEPT ![s] = None]
  /\ UNCHANGED <<workspaces, permissions, approvals, files, now, pc, job, history>>

(* DELETE /session/{s}.                                                    *)
DeleteSession(s) ==
  /\ "session" \in Kinds
  /\ sessions' = [sessions EXCEPT ![s] = None]
  /\ diskSessions' \in Unlinked(diskSessions, [diskSessions EXCEPT ![s] = None])
  /\ UNCHANGED <<workspaces, permissions, approvals, diskWorkspaces, diskApprovals, now, pc, job, history>>

-----------------------------------------------------------------------------
(* The stub is killed, or told to stop, and started again: requests are    *)
(* cut off, Init loads the directories, pending permissions are lost.      *)
Restart ==
  /\ workspaces' = Loaded(diskWorkspaces)
  /\ sessions' = diskSessions
  /\ permissions' = [i \in Stamps |-> None]
  /\ approvals' = diskApprovals
  /\ pc' = [c \in Conns |-> "idle"] /\ job' = [c \in Conns |-> None]
  /\ UNCHANGED <<files, now, history>>

Request(c) ==
  \/ \E s \in Sessions, p \in Paths : ShellStart(c, s, p)
  \/ \E i \in Stamps : Authorize(c, i)
  \/ Run(c)
  \/ Deny(c)
  \/ Ask(c)
  \/ Announce(c)
  \/ \E o \in shown, r \in Replies : PermissionReply(c, o, r)
  \/ \E o \in shown, r \in Replies : SessionPermissionReply(c, o, r)
  \/ UpdatePermission(c)
  \/ CreateApproval(c)
  \/ \E s \in Sessions, w \in Workspaces : SessionCreate(c, s, w)
  \/ CreateSession(c)

Next ==
  \/ \E c \in Conns : Request(c)
  \/ PermissionList
  \/ \E w \in Workspaces : CreateWorkspace(w)
  \/ \E w \in Workspaces : DeleteWorkspace(w)
  \/ \E s \in Sessions : DeleteSession(s)
  \/ Restart

Spec == Init /\ [][Next]_vars

-----------------------------------------------------------------------------
(* Properties.                                                             *)

(* Every variable holds values of its kind, and a goroutine that is busy   *)
(* has a request to work on.                                               *)
TypeOK ==
  /\ workspaces \subseteq Workspaces /\ diskWorkspaces \in [Folders -> Workspaces \cup {None}]
  /\ sessions \in [Sessions -> Workspaces \cup {None}]
  /\ diskSessions \in [Sessions -> Workspaces \cup {None}]
  /\ permissions \in [Stamps -> PermissionRequest \cup {None}]
  /\ approvals \in [Stamps -> Approval \cup {None}]
  /\ diskApprovals \in [Stamps -> Approval \cup {None}]
  /\ now \in Stamps
  /\ pc \in [Conns -> Labels]
  /\ job \in [Conns -> Job \cup {None}]
  /\ \A c \in Conns : pc[c] # "idle" => job[c] \in Job
  /\ \A c \in Conns : pc[c] = "update" => job[c].reply \in Replies
  /\ \A c \in Conns : pc[c] = "grant" => job[c].reply \in Grants
  /\ shown \subseteq [id : Stamps, sess : Sessions, ws : Workspaces, path : Paths]
  /\ granted \subseteq [id : Stamps, ws : Workspaces, path : Paths, mode : Grants]
  /\ acked \subseteq [ws : Workspaces, path : Paths]
  /\ uses \in [Stamps -> Nat]

(* A "once" approval lets at most one command through, whatever requests   *)
(* race for it and however often the stub restarts                         *)
(* (ConsumeApproval: "allowing it to be used exactly one time").           *)
OnceIsSingleUse == \A i \in Stamps : uses[i] <= 1

(* A command about to run is one whose directory, in its workspace, a user *)
(* granted when shown a request for it: no answer to one request, once or  *)
(* always, opens a directory another request asked for.                    *)
NoRunWithoutConsent ==
  \A c \in Conns : pc[c] = "run" =>
    \E g \in granted : g.ws = job[c].ws /\ job[c].path \in Covers[g.path]

(* Once the reply "always" has been acknowledged, no command the approval  *)
(* covers is ever turned down again, across restarts and deletions.        *)
NoAskAfterAlways ==
  [][\A c \in Conns : pc[c] = "consume" /\ pc'[c] = "ask" =>
       ~ \E a \in acked : a.ws = job[c].ws /\ job[c].path \in Covers[a.path]]_vars

(* What was deleted or used up is not brought back: no file that a start   *)
(* would load names a workspace, a session or an approval that memory has  *)
(* let go of, also where ids share folders and where writes fail.  (The    *)
(* converse is false: the file of the empty id is never loaded, and its    *)
(* deletion takes every workspace's file while memory keeps the rest.)     *)
NothingComesBack ==
  /\ Loaded(diskWorkspaces) \subseteq workspaces
  /\ \A s \in Sessions : diskSessions[s] # None => sessions[s] # None
  /\ \A i \in Stamps : diskApprovals[i] # None => approvals[i] # None

(* The approvals in memory are a ledger of rights; the firm ones are those *)
(* on disk, and a restart loses the others only (module ApprovalLedger).   *)
Ledger == INSTANCE ApprovalLedger WITH
  Ids <- Stamps, Rights <- Approval,
  ledger <- approvals,
  firm <- {i \in Stamps : diskApprovals[i] # None},
  spent <- {i \in Stamps : uses[i] > 0}
ImplementsLedger == Ledger!Spec

(* Inductive strengthenings of the above (StubPermissionProofs).           *)

(* A spent "once" approval is gone from memory and disk for good, for its  *)
(* id lies in the past and ids to come are blank (applyPermissionReply     *)
(* takes a new one for each approval).                                     *)
OnceInv ==
  /\ OnceIsSingleUse
  /\ \A i \in Stamps : uses[i] > 0 =>
       approvals[i] = None /\ diskApprovals[i] = None /\ i < now
  /\ \A i \in Stamps : i >= now => approvals[i] = None /\ diskApprovals[i] = None

(* An acknowledged "always" approval is in memory and on disk under one id *)
(* of the past.                                                            *)
AlwaysInv ==
  \A a \in acked : \E i \in Stamps :
    /\ i < now
    /\ approvals[i] = [ws |-> a.ws, path |-> a.path, mode |-> "always"]
    /\ diskApprovals[i] = approvals[i]

(* A file is that of the approval in memory, and a workspace's file lies   *)
(* in the folder of its id.                                                *)
FilesAgree == \A i \in Stamps : diskApprovals[i] # None => diskApprovals[i] = approvals[i]
InItsFolder == \A f \in Folders : diskWorkspaces[f] # None => FolderOf[diskWorkspaces[f]] = f

(* Every hop of a grant, from the request shown to the command about to    *)
(* run, keeps the workspace and the directory the user saw.                *)
Stands(o) ==
  /\ o.id < now /\ permissions[o.id] # None
  /\ permissions[o.id].ws = o.ws /\ permissions[o.id].path = o.path
IsGranted(r) == \E g \in granted : g.ws = r.ws /\ g.path = r.path
ConsentInv ==
  /\ NoRunWithoutConsent
  /\ \A i \in Stamps : permissions[i] # None => i < now
  /\ \A o \in shown : o.id < now /\ (permissions[o.id] # None => Stands(o))
  /\ \A c \in Conns : pc[c] \in {"announce", "update"} => Stands(job[c])
  /\ \A c \in Conns : pc[c] \in {"update", "grant"} /\ job[c].reply \in Grants => IsGranted(job[c])
  /\ \A i \in Stamps : approvals[i] # None => IsGranted(approvals[i])
  /\ \A i \in Stamps : diskApprovals[i] # None => IsGranted(diskApprovals[i])
=============================================================================
