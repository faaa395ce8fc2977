------------------------------ MODULE EventBus ------------------------------
(***************************************************************************)
(* The stub's event stream: eventBus and Events of                         *)
(* stub/internal/handler/handler.go, with the two events of a permission   *)
(* request and the list a client can poll instead.                         *)
(*                                                                         *)
(* Publish holds the read lock while it walks the listeners, so several    *)
(* can walk at once and none while a listener is added or removed.  The    *)
(* change an event tells of is made before Publish is called, with no lock *)
(* in common.  Clients are external: they keep the set of requests they    *)
(* take to be pending.                                                     *)
(***************************************************************************)
EXTENDS Integers, Sequences, SequencesExt

CONSTANTS
  Requests,    \* permission requests
  Others,      \* events of workspaces and sessions, each published once
  Clients,     \* connections to GET /global/event
  BufSize,     \* places of a listener's channel: ten in the code
  WriteFaults  \* CreateApproval may fail

Asked(r) == <<"permission.asked", r>>
Replied(r) == <<"permission.replied", r>>
Events == {Asked(r) : r \in Requests} \cup {Replied(r) : r \in Requests} \cup Others

ASSUME EventAssumption ==
  /\ BufSize \in Nat \ {0} /\ WriteFaults \in BOOLEAN
  /\ \A r \in Requests : Asked(r) \notin Others /\ Replied(r) \notin Others

VARIABLES
  status,     \* of each request: "none", "pending" or "answered"
  stage,      \* of each Publish: "none", "due", "sending" or "done"
  upTo,       \* upTo[e]: listeners that the Publish of e has visited
  listeners,  \* eventBus.listeners, by the client at the other end
  buf,        \* the channel of each listener
  conn,       \* "off", "on", "gone" (hung up, Events has not noticed) or "left"
  known,      \* known[c]: the requests c takes to be pending
  polled,     \* history: clients that polled after they were subscribed
  missed,     \* history: clients that an event was dropped for
  overtaken,  \* history: requests whose reply was published before, or while, they were
  silent      \* history: requests whose reply failed after it was applied

bus == <<stage, upTo, listeners, buf>>
history == <<polled, missed, overtaken, silent>>
vars == <<status, bus, conn, known, history>>

Init ==
  /\ status = [r \in Requests |-> "none"]
  /\ stage = [e \in Events |-> "none"] /\ upTo = [e \in Events |-> 0]
  /\ listeners = <<>> /\ buf = [c \in Clients |-> <<>>]
  /\ conn = [c \in Clients |-> "off"] /\ known = [c \in Clients |-> {}]
  /\ polled = {} /\ missed = {} /\ overtaken = {} /\ silent = {}

Sending == {e \in Events : stage[e] = "sending"}
Pending == {r \in Requests : status[r] = "pending"}

-----------------------------------------------------------------------------
(* Request handlers.                                                       *)

(* executeCommandLike: CreatePermission, and then Publish.                 *)
Ask(r) ==
  /\ status[r] = "none"
  /\ status' = [status EXCEPT ![r] = "pending"]
  /\ stage' = [stage EXCEPT ![Asked(r)] = "due"]
  /\ UNCHANGED <<upTo, listeners, buf, conn, known, history>>

(* applyPermissionReply, for someone who saw the request in an event or in *)
(* the list; when the approval cannot be stored nothing is published.      *)
(* Bound: one reply to a request.                                          *)
Answer(r) ==
  /\ status[r] = "pending"
  /\ status' = [status EXCEPT ![r] = "answered"]
  /\ \/ stage' = [stage EXCEPT ![Replied(r)] = "due"] /\ UNCHANGED silent
     \/ WriteFaults /\ silent' = silent \cup {r} /\ UNCHANGED stage
  /\ UNCHANGED <<upTo, listeners, buf, conn, known, polled, missed, overtaken>>

(* WorkspaceCreate, SessionCreate, SessionDelete: what they publish tells  *)
(* a client nothing about requests, but takes a place.                     *)
Other(e) ==
  /\ stage[e] = "none"
  /\ stage' = [stage EXCEPT ![e] = "due"]
  /\ UNCHANGED <<status, upTo, listeners, buf, conn, known, history>>

(* Publish takes the read lock; it keeps it until it has visited the last  *)
(* listener.                                                               *)
BeginPublish(e) ==
  /\ stage[e] = "due"
  /\ stage' = [stage EXCEPT ![e] = IF listeners = <<>> THEN "done" ELSE "sending"]
  /\ overtaken' = overtaken \cup {r \in Requests : e = Replied(r) /\ stage[Asked(r)] # "done"}
  /\ UNCHANGED <<status, upTo, listeners, buf, conn, known, polled, missed, silent>>

(* The walk goes on at listener n + 1, or ends.                            *)
Visited(e, n) ==
  IF n < Len(listeners)
  THEN upTo' = [upTo EXCEPT ![e] = n] /\ UNCHANGED stage
  ELSE upTo' = [upTo EXCEPT ![e] = 0] /\ stage' = [stage EXCEPT ![e] = "done"]

(* Mutants of Send: it waits for a place in the channel; it ends at the    *)
(* first channel that has none.                                            *)
Send_Waits(e) ==
  LET c == listeners[upTo[e] + 1] IN
  /\ stage[e] = "sending" /\ Len(buf[c]) < BufSize
  /\ buf' = [buf EXCEPT ![c] = Append(@, e)] /\ Visited(e, upTo[e] + 1)
  /\ UNCHANGED <<status, listeners, conn, known, history>>
Send_Stops(e) ==
  LET c == listeners[upTo[e] + 1] IN
  /\ stage[e] = "sending"
  /\ IF Len(buf[c]) < BufSize
     THEN buf' = [buf EXCEPT ![c] = Append(@, e)] /\ Visited(e, upTo[e] + 1) /\ UNCHANGED missed
     ELSE missed' = missed \cup {c} /\ Visited(e, Len(listeners)) /\ UNCHANGED buf
  /\ UNCHANGED <<status, listeners, conn, known, polled, overtaken, silent>>

(* One turn of its loop: the event goes into the channel, or nowhere.      *)
Send(e) ==
  LET c == listeners[upTo[e] + 1] IN
  /\ stage[e] = "sending"
  /\ IF Len(buf[c]) < BufSize
     THEN buf' = [buf EXCEPT ![c] = Append(@, e)] /\ UNCHANGED missed
     ELSE missed' = missed \cup {c} /\ UNCHANGED buf
  /\ Visited(e, upTo[e] + 1)
  /\ UNCHANGED <<status, listeners, conn, known, polled, overtaken, silent>>

-----------------------------------------------------------------------------
(* Events, and the clients.                                                *)

(* Subscribe, under the write lock, with a new channel.                    *)
Subscribe(c) ==
  /\ conn[c] = "off" /\ Sending = {}
  /\ conn' = [conn EXCEPT ![c] = "on"]
  /\ listeners' = Append(listeners, c)
  /\ UNCHANGED <<status, stage, upTo, buf, known, history>>

(* The loop of Events writes what the channel holds; a client may be slow. *)
Deliver(c) ==
  /\ conn[c] = "on" /\ buf[c] # <<>>
  /\ buf' = [buf EXCEPT ![c] = Tail(@)]
  /\ known' = [known EXCEPT ![c] = {r \in @ \cup {q \in Requests : Head(buf[c]) = Asked(q)} :
                                      Head(buf[c]) # Replied(r)}]
  /\ UNCHANGED <<status, stage, upTo, listeners, conn, history>>

(* GET /permission, by a client that is subscribed.  It cannot tell that   *)
(* it is: Events flushes no header before its first event.                 *)
Poll(c) ==
  /\ conn[c] = "on"
  /\ known' = [known EXCEPT ![c] = Pending]
  /\ polled' = polled \cup {c}
  /\ UNCHANGED <<status, bus, conn, missed, overtaken, silent>>

Disconnect(c) ==
  /\ conn[c] = "on"
  /\ conn' = [conn EXCEPT ![c] = "gone"]
  /\ UNCHANGED <<status, bus, known, history>>

(* Mutants of Unsubscribe: the last listener goes, whoever hung up; the    *)
(* handler returns without it.                                             *)
Unsubscribe_Neighbour(c) ==
  LET Left == IF Len(listeners) < 2 THEN <<>> ELSE SubSeq(listeners, 1, Len(listeners) - 1) IN
  /\ conn[c] = "gone" /\ Sending = {}
  /\ conn' = [conn EXCEPT ![c] = "left"]
  /\ listeners' = Left
  /\ buf' = [buf EXCEPT ![c] = <<>>] /\ known' = [known EXCEPT ![c] = {}]
  /\ polled' = polled \ {c} /\ missed' = missed \ {c}
  /\ UNCHANGED <<status, stage, upTo, overtaken, silent>>
Unsubscribe_Never(c) == FALSE /\ conn[c] = "gone" /\ UNCHANGED vars

(* The deferred Unsubscribe, under the write lock: the listener is looked  *)
(* for, and the slice closed over its place.                               *)
Unsubscribe(c) ==
  /\ conn[c] = "gone" /\ Sending = {}
  /\ conn' = [conn EXCEPT ![c] = "left"]
  /\ \E i \in DOMAIN listeners : listeners[i] = c /\ listeners' = RemoveAt(listeners, i)
  /\ buf' = [buf EXCEPT ![c] = <<>>] /\ known' = [known EXCEPT ![c] = {}]
  /\ polled' = polled \ {c} /\ missed' = missed \ {c}
  /\ UNCHANGED <<status, stage, upTo, overtaken, silent>>

Next ==
  \/ \E r \in Requests : Ask(r) \/ Answer(r)
  \/ \E e \in Others : Other(e)
  \/ \E e \in Events : BeginPublish(e) \/ Send(e)
  \/ \E c \in Clients : Subscribe(c) \/ Deliver(c) \/ Poll(c) \/ Disconnect(c) \/ Unsubscribe(c)

Spec == Init /\ [][Next]_vars

(* Goroutines run, and RWMutex lets a waiting writer in before readers     *)
(* that come later.  Clients owe nothing: they may stop reading for good.  *)
FairSpec ==
  /\ Spec
  /\ \A e \in Events : WF_vars(BeginPublish(e) \/ Send(e))
  /\ \A c \in Clients : SF_vars(Unsubscribe(c))

-----------------------------------------------------------------------------
(* Properties.                                                             *)

(* Every variable holds values of its kind; the listeners are the clients  *)
(* whose handler has not returned, each once, and a walk is at one of them.*)
TypeOK ==
  /\ status \in [Requests -> {"none", "pending", "answered"}]
  /\ stage \in [Events -> {"none", "due", "sending", "done"}]
  /\ upTo \in [Events -> Nat] /\ listeners \in Seq(Clients)
  /\ \A e \in Events : IF stage[e] = "sending" THEN upTo[e] < Len(listeners) ELSE upTo[e] = 0
  /\ conn \in [Clients -> {"off", "on", "gone", "left"}]
  /\ IsInjective(listeners)
  /\ \A c \in Clients : Contains(listeners, c) <=> conn[c] \in {"on", "gone"}
  /\ buf \in [Clients -> Seq(Events)] /\ \A c \in Clients : Len(buf[c]) <= BufSize
  /\ known \in [Clients -> SUBSET Requests]
  /\ polled \cup missed \subseteq Clients /\ overtaken \cup silent \subseteq Requests

(* The event is in the channel of c, or its Publish still has to come by.  *)
ToCome(e, c) ==
  \/ stage[e] = "due"
  \/ stage[e] = "sending" /\ \E i \in upTo[e] + 1 .. Len(listeners) : listeners[i] = c
OnItsWay(e, c) == Contains(buf[c], e) \/ ToCome(e, c)

(* A client that polled once it was subscribed, and whose channel never    *)
(* overflowed, knows of every request it could answer, or will when it     *)
(* reads on: the list and the stream leave no gap between them.            *)
NothingMissed ==
  \A c \in polled \ missed : conn[c] = "on" =>
    \A r \in Pending : r \in known[c] \/ OnItsWay(Asked(r), c)

(* And it does not go on taking for pending what was answered, but for a   *)
(* reply that overtook its question or failed when it was half applied.    *)
NoGhost ==
  \A c \in polled \ missed : conn[c] = "on" =>
    \A r \in known[c] : r \in Pending \cup overtaken \cup silent \/ OnItsWay(Replied(r), c)

(* No client can hold a request handler up: whatever stops reading, each   *)
(* event is published to the end (the default of Publish's select).        *)
PublishEnds == \A e \in Events : stage[e] = "due" ~> stage[e] = "done"

(* A client that hung up is forgotten, however many events are published   *)
(* meanwhile.                                                              *)
GoneForgotten == \A c \in Clients : conn[c] = "gone" ~> ~ Contains(listeners, c)
=============================================================================
