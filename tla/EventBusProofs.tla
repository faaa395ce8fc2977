--------------------------- MODULE EventBusProofs ---------------------------
(***************************************************************************)
(* The event stream, for any number of requests, other events, clients and *)
(* places in a channel: types, and that the list and the stream together   *)
(* neither leave a client without a request nor leave it one too many.     *)
(***************************************************************************)
EXTENDS EventBus, SequenceTheorems, TLAPS

-----------------------------------------------------------------------------
(* The slice of listeners and the kinds of event.                          *)

(* Closing a slice over place i.                                           *)
LEMMA RemoveAtProperties ==
  ASSUME NEW S, NEW s \in Seq(S), NEW i \in 1 .. Len(s)
  PROVE  /\ RemoveAt(s, i) \in Seq(S) /\ Len(RemoveAt(s, i)) = Len(s) - 1
         /\ \A j \in 1 .. Len(s) - 1 : RemoveAt(s, i)[j] = IF j < i THEN s[j] ELSE s[j + 1]
<1> DEFINE a == SubSeq(s, 1, i - 1)
           b == SubSeq(s, i + 1, Len(s))
<1>1. Len(s) \in Nat /\ i \in Int /\ \A j \in 1 .. Len(s) : s[j] \in S
  BY LenProperties, ElementOfSeq
<1>2. a \in Seq(S) /\ Len(a) = i - 1 /\ \A j \in 1 .. i - 1 : a[j] = s[j]
  <2>1. \A j \in 1 .. i - 1 : s[j] \in S
    BY <1>1
  <2>2. /\ a \in Seq(S) /\ Len(a) = IF 1 <= i - 1 THEN i - 1 - 1 + 1 ELSE 0
        /\ \A j \in 1 .. i - 1 - 1 + 1 : a[j] = s[1 + j - 1]
    BY <1>1, <2>1, SubSeqProperties
  <2> QED BY <1>1, <2>2
<1>3. b \in Seq(S) /\ Len(b) = Len(s) - i /\ \A j \in 1 .. Len(s) - i : b[j] = s[i + j]
  <2>1. \A j \in i + 1 .. Len(s) : s[j] \in S
    BY <1>1
  <2>2. /\ b \in Seq(S) /\ Len(b) = IF i + 1 <= Len(s) THEN Len(s) - (i + 1) + 1 ELSE 0
        /\ \A j \in 1 .. Len(s) - (i + 1) + 1 : b[j] = s[i + 1 + j - 1]
    BY <1>1, <2>1, SubSeqProperties
  <2> QED BY <1>1, <2>2
<1> HIDE DEF a, b
<1>4. /\ a \o b \in Seq(S) /\ Len(a \o b) = Len(a) + Len(b)
      /\ \A j \in 1 .. Len(a) + Len(b) : (a \o b)[j] = IF j <= Len(a) THEN a[j] ELSE b[j - Len(a)]
  BY <1>2, <1>3, ConcatProperties
<1>5. RemoveAt(s, i) = a \o b
  BY DEF RemoveAt, a, b
<1>6. ASSUME NEW j \in 1 .. Len(s) - 1
      PROVE  (a \o b)[j] = IF j < i THEN s[j] ELSE s[j + 1]
  <2>1. CASE j < i
    BY <1>1, <1>2, <1>3, <1>4, <2>1
  <2>2. CASE ~ (j < i)
    <3>1. (a \o b)[j] = b[j - (i - 1)] /\ j - (i - 1) \in 1 .. Len(s) - i
      BY <1>1, <1>2, <1>3, <1>4, <2>2
    <3>2. i + (j - (i - 1)) = j + 1
      BY <1>1
    <3> QED BY <1>3, <2>2, <3>1, <3>2
  <2> QED BY <2>1, <2>2
<1> QED BY <1>1, <1>2, <1>3, <1>4, <1>5, <1>6

(* The two events of a request are two, and no other event.                *)
LEMMA EventKinds ==
  ASSUME NEW r \in Requests
  PROVE  /\ Asked(r) \in Events /\ Replied(r) \in Events
         /\ Asked(r) \notin Others /\ Replied(r) \notin Others
         /\ \A q \in Requests : /\ Asked(r) # Replied(q)
                                /\ Asked(r) = Asked(q) => r = q
                                /\ Replied(r) = Replied(q) => r = q
  BY EventAssumption DEF Events, Asked, Replied

(* What a channel holds after a place of it was taken, or given back.      *)
LEMMA Channels ==
  ASSUME TypeOK, NEW c \in Clients
  PROVE  /\ Len(buf[c]) \in Nat /\ \A i \in 1 .. Len(buf[c]) : buf[c][i] \in Events
         /\ \A e \in Events : LET s == Append(buf[c], e) IN
              /\ s \in Seq(Events) /\ Len(s) = Len(buf[c]) + 1 /\ s[Len(buf[c]) + 1] = e
              /\ \A i \in 1 .. Len(buf[c]) : s[i] = buf[c][i]
         /\ buf[c] # <<>> => LET s == Tail(buf[c]) IN
              /\ s \in Seq(Events) /\ Len(s) = Len(buf[c]) - 1 /\ Len(buf[c]) >= 1
              /\ Head(buf[c]) = buf[c][1]
              /\ \A i \in 1 .. Len(s) : s[i] = buf[c][i + 1]
<1>1. buf[c] \in Seq(Events)
  BY DEF TypeOK
<1>2. Len(buf[c]) \in Nat /\ \A i \in 1 .. Len(buf[c]) : buf[c][i] \in Events
  BY <1>1, LenProperties, ElementOfSeq
<1>3. \A e \in Events : LET s == Append(buf[c], e) IN
              /\ s \in Seq(Events) /\ Len(s) = Len(buf[c]) + 1 /\ s[Len(buf[c]) + 1] = e
              /\ \A i \in 1 .. Len(buf[c]) : s[i] = buf[c][i]
  BY <1>1, AppendProperties
<1>4. ASSUME buf[c] # <<>>
      PROVE  LET s == Tail(buf[c]) IN
              /\ s \in Seq(Events) /\ Len(s) = Len(buf[c]) - 1 /\ Len(buf[c]) >= 1
              /\ Head(buf[c]) = buf[c][1]
              /\ \A i \in 1 .. Len(s) : s[i] = buf[c][i + 1]
  <2>1. Len(buf[c]) \in Nat \ {0}
    BY <1>1, <1>4, EmptySeq
  <2>2. Head(buf[c]) = buf[c][1]
    OBVIOUS
  <2>3. /\ Tail(buf[c]) \in Seq(Events) /\ Len(Tail(buf[c])) = Len(buf[c]) - 1
        /\ \A i \in 1 .. Len(Tail(buf[c])) : Tail(buf[c])[i] = buf[c][i + 1]
    BY <1>1, <1>4, HeadTailProperties
  <2> QED BY <2>1, <2>2, <2>3
<1> QED BY <1>2, <1>3, <1>4

(* The listener a walk is at.                                              *)
At(e) == listeners[upTo[e] + 1]
(* A walk is at a listener.                                                *)
LEMMA Walks ==
  ASSUME TypeOK, NEW e \in Events, stage[e] = "sending"
  PROVE  upTo[e] \in Nat /\ Len(listeners) \in Nat /\ upTo[e] + 1 \in 1 .. Len(listeners) /\ At(e) \in Clients
<1>1. upTo[e] \in Nat /\ upTo[e] < Len(listeners) /\ listeners \in Seq(Clients)
  BY DEF TypeOK
<1>2. Len(listeners) \in Nat
  BY <1>1, LenProperties
<1>3. upTo[e] + 1 \in 1 .. Len(listeners)
  BY <1>1, <1>2
<1> QED BY <1>1, <1>2, <1>3, ElementOfSeq DEF At

(* One turn of the loop: the walk goes on, or was at the last listener.    *)
LEMMA Sends ==
  ASSUME TypeOK, NEW e \in Events, Send(e)
  PROVE  /\ stage[e] = "sending" /\ UNCHANGED <<status, listeners, conn, known, polled, overtaken, silent>>
         /\ \/ /\ buf' = [buf EXCEPT ![At(e)] = Append(buf[At(e)], e)] /\ missed' = missed
               /\ Len(buf[At(e)]) < BufSize
            \/ buf' = buf /\ missed' = missed \cup {At(e)}
         /\ \/ /\ upTo[e] + 1 < Len(listeners) /\ stage' = stage
               /\ upTo' = [upTo EXCEPT ![e] = upTo[e] + 1]
            \/ /\ upTo[e] + 1 = Len(listeners) /\ stage' = [stage EXCEPT ![e] = "done"]
               /\ upTo' = [upTo EXCEPT ![e] = 0]
<1>1. stage[e] = "sending"
  BY DEF Send
<1> QED BY <1>1, Walks DEF Send, Visited, At

-----------------------------------------------------------------------------
(* Type correctness: the listeners are the handlers that have not          *)
(* returned, none twice, no walk runs off their end though they come and   *)
(* go between the walks, and no channel is filled beyond its size.  An     *)
(* event is published once because a request is asked and answered once.   *)
Once ==
  \A r \in Requests : /\ stage[Asked(r)] # "none" => status[r] # "none"
                      /\ stage[Replied(r)] # "none" => status[r] = "answered"

(* At the start nobody listens.                                            *)
LEMMA TypeInit == Init => TypeOK /\ Once
<1> SUFFICES ASSUME Init PROVE TypeOK /\ Once
  OBVIOUS
<1>1. listeners = <<>> /\ <<>> \in Seq(Clients) /\ <<>> \in Seq(Events) /\ Len(<<>>) = 0
  BY EmptySeq DEF Init
<1>2. IsInjective(listeners)
  BY <1>1 DEF IsInjective
<1>3. \A c \in Clients : ~ Contains(listeners, c)
  BY <1>1 DEF Contains
<1>4. Once
  BY EventKinds DEF Init, Once
<1> QED BY <1>1, <1>2, <1>3, <1>4, EventAssumption DEF Init, TypeOK

(* No step leaves the types; each client is a listener once, from          *)
(* Subscribe to Unsubscribe.                                               *)
LEMMA TypeStep == TypeOK /\ Once /\ [Next]_vars => TypeOK' /\ Once'
<1> SUFFICES ASSUME TypeOK, Once, [Next]_vars PROVE TypeOK' /\ Once'
  OBVIOUS
<1> USE DEF bus, history
<1>1. ASSUME NEW r \in Requests, Ask(r) PROVE TypeOK' /\ Once'
  <2>1. stage[Asked(r)] = "none" /\ upTo[Asked(r)] = 0
    BY <1>1, EventKinds DEF Ask, Once, TypeOK
  <2>2. Once'
    BY <1>1, EventKinds DEF Ask, Once, TypeOK
  <2> QED BY <1>1, <2>1, <2>2, EventKinds DEF Ask, TypeOK
<1>2. ASSUME NEW r \in Requests, Answer(r) PROVE TypeOK' /\ Once'
  <2>1. stage[Replied(r)] = "none" /\ upTo[Replied(r)] = 0
    BY <1>2, EventKinds DEF Answer, Once, TypeOK
  <2>2. Once'
    BY <1>2, EventKinds DEF Answer, Once, TypeOK
  <2> QED BY <1>2, <2>1, <2>2, EventKinds DEF Answer, TypeOK
<1>3. ASSUME NEW e \in Others, Other(e) PROVE TypeOK' /\ Once'
  <2>1. e \in Events
    BY DEF Events
  <2>2. Once'
    BY <1>3, <2>1, EventKinds DEF Other, Once, TypeOK
  <2> QED BY <1>3, <2>1, <2>2 DEF Other, TypeOK
<1>4. ASSUME NEW e \in Events, BeginPublish(e) PROVE TypeOK' /\ Once'
  <2>1. Once'
    BY <1>4, EventKinds DEF BeginPublish, Once, TypeOK
  <2>2. listeners # <<>> => 0 < Len(listeners)
    BY EmptySeq, LenProperties DEF TypeOK
  <2>3. upTo' = upTo /\ \A d \in Events : IF stage'[d] = "sending" THEN upTo[d] < Len(listeners) ELSE upTo[d] = 0
    BY <1>4, <2>2 DEF BeginPublish, TypeOK
  <2> QED BY <1>4, <2>1, <2>3 DEF BeginPublish, TypeOK
<1>5. ASSUME NEW e \in Events, Send(e) PROVE TypeOK' /\ Once'
  <2>0. /\ At(e) \in Clients
        /\ \/ /\ buf' = [buf EXCEPT ![At(e)] = Append(buf[At(e)], e)] /\ missed' = missed
              /\ Len(buf[At(e)]) < BufSize
           \/ buf' = buf /\ missed' = missed \cup {At(e)}
    BY <1>5, Walks, Sends
  <2>1. Once'
    BY <1>5, Walks, Sends, EventKinds DEF Once, TypeOK
  <2>a. upTo[e] + 1 \in Nat
    BY <1>5, Walks, Sends
  <2>2. \A d \in Events : IF stage'[d] = "sending" THEN upTo'[d] < Len(listeners) ELSE upTo'[d] = 0
    <3>1. CASE stage' = stage /\ upTo' = [upTo EXCEPT ![e] = upTo[e] + 1] /\ upTo[e] + 1 < Len(listeners)
      BY <1>5, <3>1, Sends DEF TypeOK
    <3>2. CASE stage' = [stage EXCEPT ![e] = "done"] /\ upTo' = [upTo EXCEPT ![e] = 0]
      BY <3>2 DEF TypeOK
    <3> QED BY <1>5, <3>1, <3>2, Sends
  <2>3. upTo' \in [Events -> Nat] /\ stage' \in [Events -> {"none", "due", "sending", "done"}]
    <3>1. upTo \in [Events -> Nat] /\ stage \in [Events -> {"none", "due", "sending", "done"}]
      BY DEF TypeOK
    <3> QED BY <1>5, <2>a, <3>1, Sends
  <2>4. buf' \in [Clients -> Seq(Events)] /\ \A c \in Clients : Len(buf'[c]) <= BufSize
    <3>1. CASE buf' = buf
      BY <3>1 DEF TypeOK
    <3>2. CASE buf' = [buf EXCEPT ![At(e)] = Append(buf[At(e)], e)] /\ Len(buf[At(e)]) < BufSize
      <4>1. Append(buf[At(e)], e) \in Seq(Events) /\ Len(Append(buf[At(e)], e)) = Len(buf[At(e)]) + 1 /\ Len(buf[At(e)]) \in Nat
        BY <2>0, Channels
      <4> QED BY <2>0, <3>2, <4>1, EventAssumption DEF TypeOK
    <3> QED BY <2>0, <3>1, <3>2
  <2>5. missed' \subseteq Clients
    BY <2>0 DEF TypeOK
  <2> QED BY <1>5, Sends, <2>1, <2>2, <2>3, <2>4, <2>5 DEF TypeOK
<1>6. ASSUME NEW c \in Clients, Subscribe(c) PROVE TypeOK' /\ Once'
  <2>1. listeners \in Seq(Clients) /\ Len(listeners) \in Nat /\ conn[c] = "off"
    BY <1>6, LenProperties DEF Subscribe, TypeOK
  <2>2. /\ listeners' \in Seq(Clients) /\ Len(listeners') = Len(listeners) + 1 /\ listeners'[Len(listeners) + 1] = c
        /\ \A i \in 1 .. Len(listeners) : listeners'[i] = listeners[i]
    BY <1>6, <2>1, AppendProperties DEF Subscribe
  <2>3. DOMAIN listeners = 1 .. Len(listeners) /\ DOMAIN listeners' = 1 .. Len(listeners) + 1
    BY <2>1, <2>2, LenProperties
  <2>4. \A i \in 1 .. Len(listeners) : listeners[i] # c
    BY <2>1 DEF TypeOK, Contains
  <2>5. IsInjective(listeners')
    <3>1. \A i, j \in 1 .. Len(listeners) : listeners[i] = listeners[j] => i = j
      BY <2>3 DEF TypeOK, IsInjective
    <3>2. ASSUME NEW i \in 1 .. Len(listeners) + 1, NEW j \in 1 .. Len(listeners) + 1, listeners'[i] = listeners'[j]
          PROVE  i = j
      BY <2>1, <2>2, <2>4, <3>1, <3>2
    <3> QED BY <2>3, <3>2 DEF IsInjective
  <2>6. \A d \in Clients : Contains(listeners', d) <=> conn'[d] \in {"on", "gone"}
    <3>1. \A d \in Clients : Contains(listeners', d) <=> Contains(listeners, d) \/ d = c
      BY <2>1, <2>2 DEF Contains
    <3> QED BY <1>6, <3>1 DEF Subscribe, TypeOK
  <2>7. \A e \in Events : IF stage'[e] = "sending" THEN upTo'[e] < Len(listeners') ELSE upTo'[e] = 0
    BY <1>6 DEF Subscribe, Sending, TypeOK
  <2>8. Once'
    BY <1>6 DEF Subscribe, Once
  <2> QED BY <1>6, <2>2, <2>5, <2>6, <2>7, <2>8 DEF Subscribe, TypeOK
<1>7. ASSUME NEW c \in Clients, Deliver(c) PROVE TypeOK' /\ Once'
  <2>1. Tail(buf[c]) \in Seq(Events) /\ Len(Tail(buf[c])) = Len(buf[c]) - 1 /\ Len(buf[c]) \in Nat
    BY <1>7, Channels DEF Deliver
  <2>2. buf' \in [Clients -> Seq(Events)] /\ \A d \in Clients : Len(buf'[d]) <= BufSize
    BY <1>7, <2>1, EventAssumption DEF Deliver, TypeOK
  <2>3. known' \in [Clients -> SUBSET Requests]
    BY <1>7 DEF Deliver, TypeOK
  <2>4. Once'
    BY <1>7 DEF Deliver, Once
  <2> QED BY <1>7, <2>2, <2>3, <2>4 DEF Deliver, TypeOK
<1>8. ASSUME NEW c \in Clients, Poll(c) \/ Disconnect(c) PROVE TypeOK' /\ Once'
  <2>1. known' \in [Clients -> SUBSET Requests]
    <3>1. Pending \in SUBSET Requests
      BY DEF Pending
    <3>2. known \in [Clients -> SUBSET Requests]
      BY DEF TypeOK
    <3>3. CASE Poll(c)
      BY <3>1, <3>2, <3>3 DEF Poll
    <3>4. CASE Disconnect(c)
      BY <3>2, <3>4 DEF Disconnect
    <3> QED BY <1>8, <3>3, <3>4
  <2>2. Once'
    BY <1>8 DEF Poll, Disconnect, Once
  <2>3. conn' \in [Clients -> {"off", "on", "gone", "left"}] /\ listeners' = listeners
        /\ \A d \in Clients : conn'[d] \in {"on", "gone"} <=> conn[d] \in {"on", "gone"}
    BY <1>8 DEF Poll, Disconnect, TypeOK
  <2> QED BY <1>8, <2>1, <2>2, <2>3 DEF Poll, Disconnect, TypeOK
<1>9. ASSUME NEW c \in Clients, Unsubscribe(c) PROVE TypeOK' /\ Once'
  <2>1. PICK i \in DOMAIN listeners : listeners[i] = c /\ listeners' = RemoveAt(listeners, i)
    BY <1>9 DEF Unsubscribe
  <2>2. listeners \in Seq(Clients) /\ Len(listeners) \in Nat /\ DOMAIN listeners = 1 .. Len(listeners)
    BY LenProperties DEF TypeOK
  <2>3. /\ listeners' \in Seq(Clients) /\ Len(listeners') = Len(listeners) - 1
        /\ \A j \in 1 .. Len(listeners) - 1 : listeners'[j] = IF j < i THEN listeners[j] ELSE listeners[j + 1]
    BY <2>1, <2>2, RemoveAtProperties
  <2>4. DOMAIN listeners' = 1 .. Len(listeners) - 1
    BY <2>3, LenProperties
  <2>5. \A k, j \in 1 .. Len(listeners) : listeners[k] = listeners[j] => k = j
    BY <2>2 DEF TypeOK, IsInjective
  <2>6. IsInjective(listeners')
    <3>1. ASSUME NEW k \in 1 .. Len(listeners) - 1, NEW j \in 1 .. Len(listeners) - 1, listeners'[k] = listeners'[j]
          PROVE  k = j
      BY <2>1, <2>2, <2>3, <2>5, <3>1
    <3> QED BY <2>4, <3>1 DEF IsInjective
  <2>7. \A d \in Clients : Contains(listeners', d) <=> conn'[d] \in {"on", "gone"}
    <3>1. ASSUME NEW d \in Clients PROVE Contains(listeners', d) <=> Contains(listeners, d) /\ d # c
      <4>1. ASSUME NEW j \in 1 .. Len(listeners) - 1, listeners'[j] = d
            PROVE  Contains(listeners, d) /\ d # c
        BY <2>1, <2>2, <2>3, <2>5, <4>1 DEF Contains
      <4>2. ASSUME NEW j \in 1 .. Len(listeners), listeners[j] = d, d # c
            PROVE  \E k \in 1 .. Len(listeners) - 1 : listeners'[k] = d
        <5>1. CASE j < i
          <6>1. j \in 1 .. Len(listeners) - 1 /\ listeners'[j] = listeners[j]
            BY <2>1, <2>2, <2>3, <5>1
          <6> QED BY <4>2, <6>1
        <5>2. CASE j > i
          <6>1. j - 1 \in 1 .. Len(listeners) - 1 /\ ~ (j - 1 < i) /\ j - 1 + 1 = j
            BY <2>1, <2>2, <5>2
          <6>2. listeners'[j - 1] = listeners[j]
            BY <2>3, <6>1
          <6> QED BY <4>2, <6>1, <6>2
        <5> QED BY <2>1, <2>2, <4>2, <5>1, <5>2
      <4> QED BY <2>3, <4>1, <4>2 DEF Contains
    <3> QED BY <1>9, <3>1 DEF Unsubscribe, TypeOK
  <2>8. \A e \in Events : IF stage'[e] = "sending" THEN upTo'[e] < Len(listeners') ELSE upTo'[e] = 0
    BY <1>9 DEF Unsubscribe, Sending, TypeOK
  <2>9. Once' /\ buf' \in [Clients -> Seq(Events)] /\ \A d \in Clients : Len(buf'[d]) <= BufSize
    BY <1>9, EmptySeq, EventAssumption DEF Unsubscribe, Once, TypeOK
  <2> QED BY <1>9, <2>3, <2>6, <2>7, <2>8, <2>9 DEF Unsubscribe, TypeOK
<1>10. CASE UNCHANGED vars
  BY <1>10 DEF vars, TypeOK, Once
<1> QED BY <1>1, <1>2, <1>3, <1>4, <1>5, <1>6, <1>7, <1>8, <1>9, <1>10 DEF Next

(* Types: the listeners are the clients whose handler has not returned,    *)
(* each once, no channel holds more than its places, and a walk of Publish *)
(* never goes past the listeners, for they do not change while one is on   *)
(* its way (RLock in Publish, Lock in Subscribe and Unsubscribe).          *)
THEOREM TypeCorrect == Spec => []TypeOK
<1> QED BY TypeInit, TypeStep, PTL DEF Spec

-----------------------------------------------------------------------------
(* What a step does to a client that is and stays subscribed: its channel  *)
(* gains the event a walk brings, loses the one that is delivered, or      *)
(* stays as it is.                                                         *)
LEMMA ChannelSteps ==
  ASSUME TypeOK, [Next]_vars, NEW c \in Clients, conn[c] = "on", conn'[c] = "on"
  PROVE  \/ buf'[c] = buf[c]
         \/ \E e \in Events : Send(e) /\ buf'[c] = Append(buf[c], e) /\ c = At(e)
         \/ Deliver(c) /\ buf'[c] = Tail(buf[c])
<1> USE DEF bus, history
<1>1. ASSUME NEW e \in Events, Send(e)
      PROVE  buf'[c] = buf[c] \/ (buf'[c] = Append(buf[c], e) /\ c = At(e))
  <2>1. CASE buf' = [buf EXCEPT ![At(e)] = Append(buf[At(e)], e)]
    BY <1>1, <2>1, Walks DEF TypeOK
  <2>2. CASE buf' = buf
    BY <2>2
  <2> QED BY <1>1, <2>1, <2>2, Sends
<1>2. ASSUME NEW d \in Clients, Deliver(d)
      PROVE  buf'[c] = buf[c] \/ (Deliver(c) /\ buf'[c] = Tail(buf[c]))
  <2>1. buf' = [buf EXCEPT ![d] = Tail(buf[d])]
    BY <1>2 DEF Deliver
  <2> QED BY <1>2, <2>1 DEF TypeOK
<1>3. ASSUME NEW d \in Clients, Unsubscribe(d) PROVE buf'[c] = buf[c]
  BY <1>3 DEF Unsubscribe, TypeOK
<1>4. CASE \E r \in Requests : Ask(r) \/ Answer(r)
  BY <1>4 DEF Ask, Answer
<1>5. CASE (\E e \in Others : Other(e)) \/ \E e \in Events : BeginPublish(e)
  BY <1>5 DEF Other, BeginPublish
<1>6. CASE \E d \in Clients : Subscribe(d) \/ Poll(d) \/ Disconnect(d)
  BY <1>6 DEF Subscribe, Poll, Disconnect
<1> QED BY <1>1, <1>2, <1>3, <1>4, <1>5, <1>6 DEF Next, vars

(* An event that has still to come by is not lost unless a place is        *)
(* wanting: it is put into the channel, or has still to come.              *)
LEMMA StillToCome ==
  ASSUME TypeOK, [Next]_vars, NEW c \in Clients, conn[c] = "on", conn'[c] = "on", c \notin missed',
         NEW e \in Events, ToCome(e, c)
  PROVE  ToCome(e, c)' \/ buf'[c] = Append(buf[c], e)
<1> USE DEF bus, history
<1>1. CASE stage'[e] = "due" \/ (stage'[e] = stage[e] /\ upTo'[e] = upTo[e] /\ listeners' = listeners)
  BY <1>1 DEF ToCome
<1>2. CASE BeginPublish(e)
  <2>1. PICK i \in 1 .. Len(listeners) : listeners[i] = c
    BY DEF TypeOK, Contains
  <2>2. listeners # <<>> /\ upTo[e] = 0
    BY <1>2, <2>1, EmptySeq DEF BeginPublish, TypeOK
  <2>3. stage'[e] = "sending" /\ upTo'[e] = 0 /\ listeners' = listeners
    BY <1>2, <2>2 DEF BeginPublish, TypeOK
  <2>4. i \in 0 + 1 .. Len(listeners)
    BY <2>1
  <2> QED BY <2>1, <2>3, <2>4 DEF ToCome
<1>3. CASE Send(e)
  <2>1. stage[e] = "sending" /\ listeners' = listeners
    BY <1>3, Sends
  <2>2. PICK i \in upTo[e] + 1 .. Len(listeners) : listeners[i] = c
    BY <2>1 DEF ToCome
  <2>3. /\ upTo[e] \in Nat /\ Len(listeners) \in Nat /\ At(e) \in Clients
        /\ \/ buf' = [buf EXCEPT ![At(e)] = Append(buf[At(e)], e)]
           \/ missed' = missed \cup {At(e)}
        /\ \/ upTo[e] + 1 < Len(listeners) /\ stage' = stage /\ upTo' = [upTo EXCEPT ![e] = upTo[e] + 1]
           \/ upTo[e] + 1 = Len(listeners)
    BY <1>3, <2>1, Walks, Sends
  <2>4. CASE i = upTo[e] + 1
    <3>1. c = At(e)
      BY <2>2, <2>4 DEF At
    <3> QED BY <2>3, <3>1 DEF TypeOK
  <2>5. CASE i # upTo[e] + 1
    <3>1. upTo[e] + 1 < Len(listeners) /\ i \in upTo[e] + 1 + 1 .. Len(listeners)
      BY <2>2, <2>3, <2>5
    <3>2. stage'[e] = "sending" /\ upTo'[e] = upTo[e] + 1
      BY <2>1, <2>3, <3>1 DEF TypeOK
    <3> QED BY <2>1, <2>2, <3>1, <3>2 DEF ToCome
  <2> QED BY <2>4, <2>5
<1>4. CASE \E r \in Requests : Ask(r) \/ Answer(r)
  BY <1>1, <1>4, EventKinds DEF Ask, Answer, TypeOK
<1>5. CASE (\E d \in Others : Other(d)) \/ \E d \in Events \ {e} : BeginPublish(d)
  <2>1. Others \subseteq Events
    BY DEF Events
  <2> QED BY <1>1, <1>5, <2>1 DEF Other, BeginPublish, TypeOK
<1>6. ASSUME NEW d \in Events \ {e}, Send(d) PROVE ToCome(e, c)'
  <2>1. /\ listeners' = listeners
        /\ stage' = stage \/ stage' = [stage EXCEPT ![d] = "done"]
        /\ upTo' = [upTo EXCEPT ![d] = upTo[d] + 1] \/ upTo' = [upTo EXCEPT ![d] = 0]
    BY <1>6, Sends
  <2>2. stage'[e] = stage[e] /\ upTo'[e] = upTo[e]
    BY <2>1 DEF TypeOK
  <2> QED BY <2>1, <2>2 DEF ToCome
<1>7. CASE \E d \in Clients : Subscribe(d) \/ Unsubscribe(d)
  BY <1>1, <1>7 DEF Subscribe, Unsubscribe, Sending, ToCome
<1>8. CASE \E d \in Clients : Deliver(d) \/ Poll(d) \/ Disconnect(d)
  BY <1>1, <1>8 DEF Deliver, Poll, Disconnect
<1>9. CASE UNCHANGED vars
  BY <1>1, <1>9 DEF vars
<1> QED BY <1>2, <1>3, <1>4, <1>5, <1>6, <1>7, <1>8, <1>9 DEF Next

(* What is on its way stays so, or is delivered.                           *)
LEMMA StillOnItsWay ==
  ASSUME TypeOK, [Next]_vars, NEW c \in Clients, conn[c] = "on", conn'[c] = "on", c \notin missed',
         NEW e \in Events, OnItsWay(e, c)
  PROVE  OnItsWay(e, c)' \/ (Deliver(c) /\ Head(buf[c]) = e)
<1>1. ASSUME NEW d \in Events PROVE Contains(Append(buf[c], d), d) /\ (Contains(buf[c], e) => Contains(Append(buf[c], d), e))
  <2> DEFINE s == Append(buf[c], d)
  <2>1. Len(s) = Len(buf[c]) + 1 /\ Len(buf[c]) \in Nat /\ s[Len(buf[c]) + 1] = d
        /\ \A i \in 1 .. Len(buf[c]) : s[i] = buf[c][i]
    BY Channels
  <2> HIDE DEF s
  <2>2. Contains(s, d) /\ (Contains(buf[c], e) => Contains(s, e))
    BY <2>1 DEF Contains
  <2> QED BY <2>2 DEF s
<1>2. CASE ToCome(e, c)
  <2>1. ToCome(e, c)' \/ buf'[c] = Append(buf[c], e)
    BY <1>2, StillToCome
  <2> QED BY <1>1, <2>1 DEF OnItsWay
<1>3. CASE Contains(buf[c], e)
  <2>1. CASE buf'[c] = buf[c]
    BY <1>3, <2>1 DEF OnItsWay
  <2>2. ASSUME NEW d \in Events, buf'[c] = Append(buf[c], d) PROVE OnItsWay(e, c)'
    BY <1>1, <1>3, <2>2 DEF OnItsWay
  <2>3. ASSUME Deliver(c), buf'[c] = Tail(buf[c]), Head(buf[c]) # e PROVE Contains(Tail(buf[c]), e)
    <3> DEFINE s == Tail(buf[c])
    <3>1. Len(s) = Len(buf[c]) - 1 /\ Len(buf[c]) \in Nat /\ Head(buf[c]) = buf[c][1]
          /\ \A i \in 1 .. Len(s) : s[i] = buf[c][i + 1]
      BY <2>3, Channels DEF Deliver
    <3>2. PICK i \in 1 .. Len(buf[c]) : buf[c][i] = e
      BY <1>3 DEF Contains
    <3> HIDE DEF s
    <3>3. i - 1 \in 1 .. Len(s) /\ i - 1 + 1 = i
      BY <2>3, <3>1, <3>2
    <3>4. Contains(s, e)
      BY <3>1, <3>2, <3>3 DEF Contains
    <3> QED BY <3>4 DEF s
  <2> QED BY <2>1, <2>2, <2>3, ChannelSteps DEF OnItsWay
<1> QED BY <1>2, <1>3 DEF OnItsWay

-----------------------------------------------------------------------------
(* The strengthening.                                                      *)

(* What was answered is published, or failed; a reply is not published     *)
(* before the question is, but for those that overtook it; and nobody is   *)
(* told of an answer there was none of.                                    *)
Stages ==
  \A r \in Requests :
    /\ status[r] = "answered" => r \in silent \/ stage[Replied(r)] # "none"
    /\ stage[Replied(r)] \in {"sending", "done"} => r \in overtaken \/ stage[Asked(r)] = "done"
    /\ \A c \in Clients : Contains(buf[c], Replied(r)) => status[r] = "answered"

(* Who is not subscribed has nothing in a channel, and did not poll.       *)
Away == \A c \in Clients : conn[c] \in {"off", "left"} => buf[c] = <<>> /\ c \notin polled

(* The reply to a question that lies in a channel follows it there.        *)
RepliedAfter(c, r, i) == \E j \in i + 1 .. Len(buf[c]) : buf[c][j] = Replied(r)
Settled(r) == r \in Pending \cup overtaken \cup silent
Follows ==
  \A c \in Clients \ missed : conn[c] = "on" =>
    \A r \in Requests, i \in 1 .. Len(buf[c]) :
      buf[c][i] = Asked(r) => Settled(r) \/ ToCome(Replied(r), c) \/ RepliedAfter(c, r, i)

StreamInv == Once /\ Stages /\ Away /\ Follows /\ NothingMissed /\ NoGhost

(* Requests and events only go forward.                                    *)
LEMMA Progress ==
  ASSUME TypeOK, Once, [Next]_vars
  PROVE  /\ overtaken \subseteq overtaken' /\ silent \subseteq silent'
         /\ \A e \in Events :
              /\ stage[e] # "none" => stage'[e] # "none"
              /\ stage[e] = "done" => stage'[e] = "done"
              /\ stage'[e] \in {"sending", "done"} => stage[e] \in {"sending", "done"} \/ BeginPublish(e)
         /\ \A r \in Requests :
              /\ status[r] = "answered" => status'[r] = "answered"
              /\ status[r] = "pending" => status'[r] \in {"pending", "answered"}
              /\ status'[r] = "answered" => status[r] = "answered" \/ r \in silent' \/ stage'[Replied(r)] = "due"
              /\ status'[r] = "pending" => status[r] = "pending" \/ stage'[Asked(r)] = "due"
<1> DEFINE Ahead ==
             /\ overtaken \subseteq overtaken' /\ silent \subseteq silent'
             /\ \A e \in Events :
                  /\ stage[e] # "none" => stage'[e] # "none"
                  /\ stage[e] = "done" => stage'[e] = "done"
                  /\ stage'[e] \in {"sending", "done"} => stage[e] \in {"sending", "done"} \/ BeginPublish(e)
             /\ \A r \in Requests :
                  /\ status[r] = "answered" => status'[r] = "answered"
                  /\ status[r] = "pending" => status'[r] \in {"pending", "answered"}
                  /\ status'[r] = "answered" => status[r] = "answered" \/ r \in silent' \/ stage'[Replied(r)] = "due"
                  /\ status'[r] = "pending" => status[r] = "pending" \/ stage'[Asked(r)] = "due"
<1> USE DEF bus, history
<1>1. ASSUME NEW q \in Requests, Ask(q) PROVE Ahead
  <2>1. stage[Asked(q)] = "none" /\ stage'[Asked(q)] = "due"
    BY <1>1, EventKinds DEF Ask, Once, TypeOK
  <2> QED BY <1>1, <2>1, EventKinds DEF Ask, TypeOK
<1>2. ASSUME NEW q \in Requests, Answer(q) PROVE Ahead
  <2>1. stage[Replied(q)] = "none"
    BY <1>2, EventKinds DEF Answer, Once, TypeOK
  <2> QED BY <1>2, <2>1, EventKinds DEF Answer, TypeOK
<1>3. CASE \E e \in Others : Other(e)
  <2>1. Others \subseteq Events
    BY DEF Events
  <2> QED BY <1>3, <2>1 DEF Other, TypeOK
<1>4. ASSUME NEW e \in Events, BeginPublish(e) PROVE Ahead
  BY <1>4 DEF BeginPublish, TypeOK
<1>5. ASSUME NEW e \in Events, Send(e) PROVE Ahead
  <2>1. /\ stage[e] = "sending" /\ UNCHANGED <<status, overtaken, silent>>
        /\ stage' = stage \/ stage' = [stage EXCEPT ![e] = "done"]
    BY <1>5, Sends
  <2> QED BY <2>1 DEF TypeOK
<1>6. CASE \E c \in Clients : Subscribe(c) \/ Deliver(c) \/ Poll(c) \/ Disconnect(c) \/ Unsubscribe(c)
  BY <1>6 DEF Subscribe, Deliver, Poll, Disconnect, Unsubscribe
<1>7. CASE UNCHANGED vars
  BY <1>7 DEF vars
<1> QED BY <1>1, <1>2, <1>3, <1>4, <1>5, <1>6, <1>7 DEF Next

(* Only a walk puts something into a channel.                              *)
LEMMA NewInChannel ==
  ASSUME TypeOK, [Next]_vars, NEW c \in Clients, NEW e \in Events, Contains(buf'[c], e)
  PROVE  Contains(buf[c], e) \/ Send(e)
<1> USE DEF bus, history
<1>1. CASE buf'[c] = buf[c]
  BY <1>1
<1>2. ASSUME NEW d \in Events, Send(d), buf'[c] # buf[c] PROVE Contains(buf[c], e) \/ Send(e)
  <2>1. buf'[c] = Append(buf[c], d)
    <3>1. buf' = [buf EXCEPT ![At(d)] = Append(buf[At(d)], d)]
      BY <1>2, Sends
    <3> QED BY <1>2, <3>1 DEF TypeOK
  <2> DEFINE s == Append(buf[c], d)
  <2>2. /\ Len(s) = Len(buf[c]) + 1 /\ Len(buf[c]) \in Nat /\ s[Len(buf[c]) + 1] = d
        /\ \A i \in 1 .. Len(buf[c]) : s[i] = buf[c][i]
    BY Channels
  <2> HIDE DEF s
  <2>3. PICK i \in 1 .. Len(s) : s[i] = e
    BY <2>1 DEF Contains, s
  <2>4. i = Len(buf[c]) + 1 \/ i \in 1 .. Len(buf[c])
    BY <2>2, <2>3
  <2> QED BY <1>2, <2>2, <2>3, <2>4 DEF Contains
<1>3. ASSUME NEW d \in Clients, Deliver(d) PROVE Contains(buf[c], e)
  <2>1. CASE d # c
    BY <1>3, <2>1 DEF Deliver, TypeOK
  <2>2. CASE d = c
    <3> DEFINE s == Tail(buf[c])
    <3>1. /\ Len(s) = Len(buf[c]) - 1 /\ Len(buf[c]) \in Nat
          /\ \A i \in 1 .. Len(s) : s[i] = buf[c][i + 1]
      BY <1>3, <2>2, Channels DEF Deliver
    <3>2. buf'[c] = s
      BY <1>3, <2>2 DEF Deliver, TypeOK
    <3> HIDE DEF s
    <3>3. PICK i \in 1 .. Len(s) : s[i] = e
      BY <3>2 DEF Contains
    <3>4. i + 1 \in 1 .. Len(buf[c])
      BY <3>1, <3>3
    <3> QED BY <3>1, <3>3, <3>4 DEF Contains
  <2> QED BY <2>1, <2>2
<1>4. ASSUME NEW d \in Clients, Unsubscribe(d) PROVE Contains(buf[c], e)
  <2>1. ~ Contains(<<>>, e)
    BY DEF Contains
  <2> QED BY <1>4, <2>1 DEF Unsubscribe, TypeOK
<1>5. CASE \E r \in Requests : Ask(r) \/ Answer(r)
  BY <1>1, <1>5 DEF Ask, Answer
<1>6. CASE (\E d \in Others : Other(d)) \/ \E d \in Events : BeginPublish(d)
  BY <1>1, <1>6 DEF Other, BeginPublish
<1>7. CASE \E d \in Clients : Subscribe(d) \/ Poll(d) \/ Disconnect(d)
  BY <1>1, <1>7 DEF Subscribe, Poll, Disconnect
<1> QED BY <1>1, <1>2, <1>3, <1>4, <1>5, <1>6, <1>7 DEF Next, vars

(* Requests and their events advance together: every step of a handler     *)
(* keeps what the status of a request says of its two events.              *)
LEMMA StagesStep == TypeOK /\ Once /\ Stages /\ [Next]_vars => Stages'
<1> SUFFICES ASSUME TypeOK, Once, Stages, [Next]_vars, NEW r \in Requests
             PROVE  /\ status'[r] = "answered" => r \in silent' \/ stage'[Replied(r)] # "none"
                    /\ stage'[Replied(r)] \in {"sending", "done"} => r \in overtaken' \/ stage'[Asked(r)] = "done"
                    /\ \A c \in Clients : Contains(buf'[c], Replied(r)) => status'[r] = "answered"
  BY DEF Stages
<1>1. Asked(r) \in Events /\ Replied(r) \in Events
  BY EventKinds
<1>2. status'[r] = "answered" => r \in silent' \/ stage'[Replied(r)] # "none"
  BY <1>1, Progress DEF Stages
<1>3. stage'[Replied(r)] \in {"sending", "done"} => r \in overtaken' \/ stage'[Asked(r)] = "done"
  <2>1. BeginPublish(Replied(r)) => r \in overtaken' \/ stage[Asked(r)] = "done"
    BY DEF BeginPublish
  <2> QED BY <1>1, <2>1, Progress DEF Stages
<1>4. ASSUME NEW c \in Clients, Contains(buf'[c], Replied(r)) PROVE status'[r] = "answered"
  <2>1. Send(Replied(r)) => status[r] = "answered"
    BY <1>1, Sends DEF Once
  <2>2. Contains(buf[c], Replied(r)) \/ Send(Replied(r))
    BY <1>1, <1>4, NewInChannel
  <2> QED BY <2>1, <2>2, Progress DEF Stages
<1> QED BY <1>2, <1>3, <1>4

(* Who is not subscribed stays with an empty channel and did not poll.     *)
LEMMA AwayStep == TypeOK /\ Away /\ [Next]_vars => Away'
<1> SUFFICES ASSUME TypeOK, Away, [Next]_vars, NEW c \in Clients, conn'[c] \in {"off", "left"}
             PROVE  buf'[c] = <<>> /\ c \notin polled'
  BY DEF Away
<1> USE DEF bus, history
<1>1. ASSUME NEW e \in Events, Send(e) PROVE buf'[c] = <<>> /\ c \notin polled'
  <2>1. conn' = conn /\ polled' = polled
    BY <1>1, Sends
  <2>2. At(e) # c
    <3>1. Contains(listeners, At(e)) /\ At(e) \in Clients
      BY <1>1, Walks, Sends DEF Contains, At
    <3> QED BY <2>1, <3>1 DEF TypeOK
  <2>3. buf' = buf \/ buf' = [buf EXCEPT ![At(e)] = Append(buf[At(e)], e)]
    BY <1>1, Sends
  <2> QED BY <2>1, <2>2, <2>3 DEF Away, TypeOK
<1>2. ASSUME NEW d \in Clients, Unsubscribe(d) PROVE buf'[c] = <<>> /\ c \notin polled'
  BY <1>2 DEF Unsubscribe, Away, TypeOK
<1>3. ASSUME NEW d \in Clients, Subscribe(d) \/ Deliver(d) \/ Poll(d) \/ Disconnect(d)
      PROVE  buf'[c] = <<>> /\ c \notin polled'
  BY <1>3 DEF Subscribe, Deliver, Poll, Disconnect, Away, TypeOK
<1>4. CASE \E r \in Requests : Ask(r) \/ Answer(r)
  BY <1>4 DEF Ask, Answer, Away
<1>5. CASE (\E e \in Others : Other(e)) \/ \E e \in Events : BeginPublish(e)
  BY <1>5 DEF Other, BeginPublish, Away
<1> QED BY <1>1, <1>2, <1>3, <1>4, <1>5 DEF Next, vars, Away

(* A client that is subscribed was, or has just come with an empty         *)
(* channel; and what it has learned since.                                 *)
LEMMA Subscribed ==
  ASSUME TypeOK, Away, [Next]_vars, NEW c \in Clients, conn'[c] = "on"
  PROVE  \/ conn[c] = "off" /\ buf'[c] = <<>> /\ c \notin polled'
         \/ /\ conn[c] = "on" /\ (c \notin missed' => c \notin missed)
            /\ \/ Poll(c)
               \/ (c \in polled' => c \in polled) /\ (known'[c] = known[c] \/ Deliver(c))
<1> DEFINE Came == conn[c] = "off" /\ buf'[c] = <<>> /\ c \notin polled'
           Stayed == /\ conn[c] = "on" /\ (c \notin missed' => c \notin missed)
                     /\ \/ Poll(c)
                        \/ (c \in polled' => c \in polled) /\ (known'[c] = known[c] \/ Deliver(c))
<1> USE DEF bus, history
<1>1. ASSUME NEW e \in Events, Send(e) PROVE Stayed
  <2>1. missed \subseteq missed' /\ UNCHANGED <<conn, known, polled>>
    BY <1>1, Sends
  <2> QED BY <2>1
<1>2. ASSUME NEW d \in Clients, Unsubscribe(d) PROVE Stayed
  BY <1>2 DEF Unsubscribe, TypeOK
<1>3. ASSUME NEW d \in Clients, Subscribe(d) PROVE Came \/ Stayed
  BY <1>3 DEF Subscribe, Away, TypeOK
<1>4. ASSUME NEW d \in Clients, Deliver(d) \/ Poll(d) \/ Disconnect(d) PROVE Stayed
  <2>1. conn[c] = "on" /\ missed' = missed
    BY <1>4 DEF Deliver, Poll, Disconnect, TypeOK
  <2>2. known \in [Clients -> SUBSET Requests]
    BY DEF TypeOK
  <2>3. CASE d = c
    BY <1>4, <2>1, <2>3 DEF Deliver, Poll, Disconnect
  <2>4. CASE d # c
    BY <1>4, <2>1, <2>2, <2>4 DEF Deliver, Poll, Disconnect
  <2> QED BY <2>3, <2>4
<1>5. CASE \E r \in Requests : Ask(r) \/ Answer(r)
  BY <1>5 DEF Ask, Answer
<1>6. CASE (\E e \in Others : Other(e)) \/ \E e \in Events : BeginPublish(e)
  BY <1>6 DEF Other, BeginPublish
<1> QED BY <1>1, <1>2, <1>3, <1>4, <1>5, <1>6 DEF Next, vars

(* What is settled stays so until the event of the reply comes.            *)
LEMMA SettledStays ==
  ASSUME TypeOK, Once, [Next]_vars, NEW r \in Requests, Settled(r), NEW c \in Clients
  PROVE  Settled(r)' \/ ToCome(Replied(r), c)'
BY Progress, TypeStep DEF Settled, Pending, ToCome, TypeOK

-----------------------------------------------------------------------------
(* A client that polled once it was subscribed, and whose channel never    *)
(* overflowed, misses no request that it could answer.                     *)
LEMMA NothingMissedStep ==
  TypeOK /\ Once /\ Stages /\ Away /\ NothingMissed /\ [Next]_vars => NothingMissed'
<1> SUFFICES ASSUME TypeOK, Once, Stages, Away, NothingMissed, [Next]_vars,
                    NEW c \in polled' \ missed', conn'[c] = "on", NEW r \in Requests, status'[r] = "pending"
             PROVE  r \in known'[c] \/ OnItsWay(Asked(r), c)'
  BY DEF NothingMissed, Pending
<1>1. c \in Clients /\ Asked(r) \in Events /\ Replied(r) \in Events /\ Asked(r) # Replied(r)
  BY TypeStep, EventKinds DEF TypeOK
<1>2. CASE Poll(c)
  BY <1>1, <1>2 DEF Poll, Pending, TypeOK
<1>3. CASE conn[c] = "on" /\ c \in polled \ missed /\ (known'[c] = known[c] \/ Deliver(c))
  <2>1. CASE stage'[Asked(r)] = "due"
    BY <2>1 DEF OnItsWay, ToCome
  <2>2. CASE status[r] = "pending"
    <3>1. r \in known[c] \/ OnItsWay(Asked(r), c)
      BY <1>3, <2>2 DEF NothingMissed, Pending
    <3>2. CASE r \in known[c]
      <4>1. Deliver(c) => Head(buf[c]) # Replied(r)
        <5>1. ASSUME Deliver(c), Head(buf[c]) = Replied(r) PROVE Contains(buf[c], Replied(r))
          BY <1>1, <5>1, Channels DEF Deliver, Contains
        <5> QED BY <1>1, <2>2, <5>1 DEF Stages
      <4> QED BY <1>1, <1>3, <3>2, <4>1 DEF Deliver, TypeOK
    <3>3. CASE OnItsWay(Asked(r), c)
      <4>1. OnItsWay(Asked(r), c)' \/ (Deliver(c) /\ Head(buf[c]) = Asked(r))
        BY <1>1, <1>3, <3>3, StillOnItsWay
      <4>2. Deliver(c) /\ Head(buf[c]) = Asked(r) => r \in known'[c]
        BY <1>1 DEF Deliver, TypeOK
      <4> QED BY <4>1, <4>2
    <3> QED BY <3>1, <3>2, <3>3
  <2> QED BY <2>1, <2>2, Progress
<1>4. \/ c \notin polled'
      \/ /\ conn[c] = "on" /\ c \notin missed
         /\ Poll(c) \/ (c \in polled /\ (known'[c] = known[c] \/ Deliver(c)))
  BY <1>1, Subscribed
<1> QED BY <1>2, <1>3, <1>4

(* The channel keeps a question and its reply in their order.              *)
LEMMA FollowsStep ==
  TypeOK /\ Once /\ Stages /\ Away /\ Follows /\ [Next]_vars => Follows'
<1> SUFFICES ASSUME TypeOK, Once, Stages, Away, Follows, [Next]_vars,
                    NEW c \in Clients \ missed', conn'[c] = "on",
                    NEW r \in Requests, NEW i \in 1 .. Len(buf'[c]), buf'[c][i] = Asked(r)
             PROVE  Settled(r)' \/ ToCome(Replied(r), c)' \/ RepliedAfter(c, r, i)'
  <2>1. (\A d \in Clients \ missed' : conn'[d] = "on" =>
          \A q \in Requests, i \in 1 .. Len(buf'[d]) :
            buf'[d][i] = Asked(q) => Settled(q)' \/ ToCome(Replied(q), d)' \/ RepliedAfter(d, q, i)') => Follows'
    BY DEF Follows
  <2> QED BY <2>1
<1>1. Asked(r) \in Events /\ Replied(r) \in Events /\ Asked(r) # Replied(r)
  BY EventKinds
<1>2. CASE buf'[c] = <<>>
  BY <1>2
<1>3. CASE conn[c] = "on" /\ c \notin missed
  <2> DEFINE n == Len(buf[c])
  <2>1. n \in Nat
    BY Channels
  <2>2. CASE buf'[c] = buf[c]
    <3>1. Settled(r) \/ ToCome(Replied(r), c) \/ RepliedAfter(c, r, i)
      BY <1>3, <2>2 DEF Follows
    <3>2. ToCome(Replied(r), c) => ToCome(Replied(r), c)'
      <4>1. Append(buf[c], Replied(r)) # buf[c]
        BY <1>1, <2>1, Channels
      <4> QED BY <1>1, <1>3, <2>2, <4>1, StillToCome
    <3>3. RepliedAfter(c, r, i) => RepliedAfter(c, r, i)'
      BY <2>2 DEF RepliedAfter
    <3> QED BY <3>1, <3>2, <3>3, SettledStays
  <2>3. ASSUME NEW e \in Events, Send(e), buf'[c] = Append(buf[c], e)
        PROVE  Settled(r)' \/ ToCome(Replied(r), c)' \/ RepliedAfter(c, r, i)'
    <3>1. /\ Len(buf'[c]) = n + 1 /\ buf'[c][n + 1] = e
          /\ \A k \in 1 .. n : buf'[c][k] = buf[c][k]
      BY <2>3, Channels
    <3> HIDE DEF n
    <3>2. CASE i \in 1 .. n
      <4>1. Settled(r) \/ ToCome(Replied(r), c) \/ RepliedAfter(c, r, i)
        BY <1>3, <3>1, <3>2 DEF Follows, n
      <4>2. ToCome(Replied(r), c) => ToCome(Replied(r), c)' \/ RepliedAfter(c, r, i)'
        <5>1. buf'[c] = Append(buf[c], Replied(r)) => buf'[c][n + 1] = Replied(r)
          BY <1>1, Channels DEF n
        <5>2. n + 1 \in i + 1 .. Len(buf'[c])
          BY <2>1, <3>1, <3>2
        <5> QED BY <1>1, <1>3, <5>1, <5>2, StillToCome DEF RepliedAfter
      <4>3. RepliedAfter(c, r, i) => RepliedAfter(c, r, i)'
        <5>1. ASSUME NEW j \in i + 1 .. n PROVE j \in i + 1 .. Len(buf'[c]) /\ buf'[c][j] = buf[c][j]
          BY <2>1, <3>1, <3>2
        <5> QED BY <5>1 DEF RepliedAfter, n
      <4> QED BY <4>1, <4>2, <4>3, SettledStays
    <3>3. CASE i = n + 1
      <4>1. e = Asked(r) /\ stage[Asked(r)] = "sending"
        BY <2>3, <3>1, <3>3, Sends
      <4>2. status[r] = "pending" \/ status[r] = "answered"
        BY <1>1, <4>1 DEF Once, TypeOK
      <4>3. Settled(r) \/ stage[Replied(r)] = "due"
        <5>1. stage[Replied(r)] \in {"none", "due", "sending", "done"}
          BY <1>1 DEF TypeOK
        <5> QED BY <4>1, <4>2, <5>1 DEF Stages, Settled, Pending
      <4>4. stage[Replied(r)] = "due" => ToCome(Replied(r), c)'
        <5>1. buf'[c] # Append(buf[c], Replied(r))
          BY <1>1, <3>1, <4>1, Channels DEF n
        <5> QED BY <1>1, <1>3, <5>1, StillToCome DEF ToCome
      <4> QED BY <4>3, <4>4, SettledStays
    <3> QED BY <2>1, <3>1, <3>2, <3>3
  <2>4. ASSUME Deliver(c), buf'[c] = Tail(buf[c])
        PROVE  Settled(r)' \/ ToCome(Replied(r), c)' \/ RepliedAfter(c, r, i)'
    <3>1. /\ Len(buf'[c]) = n - 1 /\ n >= 1
          /\ \A k \in 1 .. Len(buf'[c]) : buf'[c][k] = buf[c][k + 1]
      <4>1. c \in Clients /\ buf[c] # <<>>
        BY <2>4 DEF Deliver
      <4> QED BY <2>4, <4>1, Channels
    <3> HIDE DEF n
    <3>2. i + 1 \in 1 .. n /\ buf[c][i + 1] = Asked(r)
      BY <2>1, <3>1
    <3>3. Settled(r) \/ ToCome(Replied(r), c) \/ RepliedAfter(c, r, i + 1)
      BY <1>3, <3>2 DEF Follows, n
    <3>4. ToCome(Replied(r), c) => ToCome(Replied(r), c)'
      <4>1. buf'[c] # Append(buf[c], Replied(r))
        BY <1>1, <2>1, <3>1, Channels DEF n
      <4> QED BY <1>1, <1>3, <4>1, StillToCome
    <3>5. RepliedAfter(c, r, i + 1) => RepliedAfter(c, r, i)'
      <4>1. ASSUME NEW j \in i + 1 + 1 .. n PROVE j - 1 \in i + 1 .. Len(buf'[c]) /\ buf'[c][j - 1] = buf[c][j]
        <5>1. j - 1 \in 1 .. Len(buf'[c]) /\ j - 1 + 1 = j /\ j - 1 \in i + 1 .. Len(buf'[c])
          BY <2>1, <3>1, <3>2
        <5> QED BY <3>1, <5>1
      <4> QED BY <4>1 DEF RepliedAfter, n
    <3> QED BY <3>3, <3>4, <3>5, SettledStays
  <2> QED BY <1>3, <2>2, <2>3, <2>4, ChannelSteps
<1>4. (conn[c] = "on" /\ c \notin missed) \/ buf'[c] = <<>>
  BY Subscribed
<1> QED BY <1>2, <1>3, <1>4

(* And takes none for pending that was answered.                           *)
LEMMA NoGhostStep ==
  TypeOK /\ Once /\ Stages /\ Away /\ Follows /\ NoGhost /\ [Next]_vars => NoGhost'
<1> SUFFICES ASSUME TypeOK, Once, Stages, Away, Follows, NoGhost, [Next]_vars PROVE NoGhost'
  OBVIOUS
<1>0. TypeOK'
  BY TypeStep
<1> SUFFICES ASSUME NEW c \in polled' \ missed', conn'[c] = "on", NEW r \in Requests, r \in known'[c]
             PROVE  Settled(r)' \/ OnItsWay(Replied(r), c)'
  <2>1. polled' \subseteq Clients /\ \A d \in Clients : known'[d] \subseteq Requests
    BY <1>0 DEF TypeOK
  <2>2. (\A d \in polled' \ missed' : conn'[d] = "on" =>
          \A q \in known'[d] : Settled(q)' \/ OnItsWay(Replied(q), d)') => NoGhost'
    BY DEF NoGhost, Settled
  <2> QED BY <2>1, <2>2
<1>1. c \in Clients /\ Asked(r) \in Events /\ Replied(r) \in Events /\ Asked(r) # Replied(r)
  BY <1>0, EventKinds DEF TypeOK
<1>2. CASE Poll(c)
  BY <1>1, <1>2 DEF Poll, Pending, Settled, TypeOK, bus
<1>3. CASE conn[c] = "on" /\ c \in polled \ missed /\ (known'[c] = known[c] \/ Deliver(c))
  <2>1. CASE Settled(r)
    BY <1>1, <2>1, SettledStays DEF OnItsWay
  <2>2. CASE OnItsWay(Replied(r), c)
    <3>1. OnItsWay(Replied(r), c)' \/ (Deliver(c) /\ Head(buf[c]) = Replied(r))
      BY <1>1, <1>3, <2>2, StillOnItsWay
    <3>2. ~ (Deliver(c) /\ Head(buf[c]) = Replied(r))
      BY <1>1 DEF Deliver, TypeOK
    <3> QED BY <3>1, <3>2
  <2>3. CASE r \in known[c]
    BY <1>3, <2>1, <2>2, <2>3 DEF NoGhost, Settled
  <2>4. CASE r \notin known[c]
    <3>1. Deliver(c) /\ Head(buf[c]) = Asked(r) /\ buf'[c] = Tail(buf[c])
      BY <1>1, <1>3, <2>4, EventKinds DEF Deliver, TypeOK
    <3>2. /\ buf[c][1] = Asked(r) /\ Len(buf[c]) \in Nat /\ Len(buf[c]) >= 1 /\ Len(buf'[c]) = Len(buf[c]) - 1
          /\ \A k \in 1 .. Len(buf'[c]) : buf'[c][k] = buf[c][k + 1]
      <4>1. buf[c] # <<>>
        BY <3>1 DEF Deliver
      <4> QED BY <1>1, <3>1, <4>1, Channels
    <3>3. Settled(r) \/ ToCome(Replied(r), c) \/ RepliedAfter(c, r, 1)
      BY <1>1, <1>3, <3>2 DEF Follows
    <3>4. RepliedAfter(c, r, 1) => Contains(buf'[c], Replied(r))
      <4>1. ASSUME NEW j \in 1 + 1 .. Len(buf[c]) PROVE j - 1 \in 1 .. Len(buf'[c]) /\ buf'[c][j - 1] = buf[c][j]
        <5>1. j - 1 \in 1 .. Len(buf'[c]) /\ j - 1 + 1 = j
          BY <3>2
        <5> QED BY <3>2, <5>1
      <4> QED BY <4>1 DEF RepliedAfter, Contains
    <3> QED BY <2>1, <2>2, <3>3, <3>4 DEF OnItsWay
  <2> QED BY <2>3, <2>4
<1>4. \/ c \notin polled'
      \/ /\ conn[c] = "on" /\ c \notin missed
         /\ Poll(c) \/ (c \in polled /\ (known'[c] = known[c] \/ Deliver(c)))
  BY <1>1, Subscribed
<1> QED BY <1>2, <1>3, <1>4

-----------------------------------------------------------------------------
(* At the start there is nothing to miss.                                  *)
LEMMA StreamInit == Init => StreamInv
<1> SUFFICES ASSUME Init PROVE StreamInv
  OBVIOUS
<1>1. \A c \in Clients : buf[c] = <<>> /\ conn[c] = "off"
  BY DEF Init
<1>2. \A c \in Clients, e \in Events : ~ Contains(buf[c], e)
  BY <1>1 DEF Contains
<1>3. Stages
  BY <1>2, EventKinds DEF Init, Stages
<1> QED BY <1>1, <1>3, TypeInit DEF Init, StreamInv, Away, Follows, NothingMissed, NoGhost

(* The invariant that the next two rest on: how far the events of a        *)
(* request have come fits its status (executeCommandLike and               *)
(* applyPermissionReply change the status first and publish then), and the *)
(* reply to a question that lies in a client's channel lies there behind   *)
(* it or has still to come, unless it overtook the question or failed.     *)
THEOREM StreamInvariant == Spec => []StreamInv
<1>1. TypeOK /\ StreamInv /\ [Next]_vars => StreamInv'
  BY TypeStep, StagesStep, AwayStep, FollowsStep, NothingMissedStep, NoGhostStep DEF StreamInv
<1> QED BY <1>1, StreamInit, TypeCorrect, PTL DEF Spec

(* Whoever polls after it subscribed and reads on without an overflow      *)
(* hears of every request it could answer: the list read and the events    *)
(* behind it leave no gap, however walks, replies and polls interleave.    *)
THEOREM NothingIsMissed == Spec => []NothingMissed
<1> QED BY StreamInvariant, PTL DEF StreamInv

(* And it does not keep an answered one, but for the two exceptions.       *)
THEOREM NoGhostStays == Spec => []NoGhost
<1> QED BY StreamInvariant, PTL DEF StreamInv
=============================================================================
