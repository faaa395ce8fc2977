------------------------ MODULE HostSelectionProofs -------------------------
(***************************************************************************)
(* Host selection, for any config, any number of workspaces and names that *)
(* overlap in any way: leases are what workspaces use and a workspace      *)
(* keeps its host, but for hosts outlived by a binding that was written    *)
(* back after its removal; nobody is refused a host that is free; and in   *)
(* exclusive mode the list of hosts behaves as the set that HostLeases has.*)
(***************************************************************************)
EXTENDS HostSelection, WellFoundedInduction, TLAPS

-----------------------------------------------------------------------------
(* The first of a set of places.                                           *)
LEMMA FirstPlace ==
  ASSUME NEW S, S \subseteq Nat, S # {}
  PROVE  Min(S) \in S
<1> DEFINE less == OpToRel(<, Nat)
<1>1. IsWellFoundedOn(less, Nat)
  BY NatLessThanWellFounded
<1>2. \A y \in S, x \in S : y < x => <<y, x>> \in less
  BY DEF OpToRel
<1> HIDE DEF less
<1>3. PICK x \in S : \A y \in S : <<y, x>> \notin less
  BY <1>1, WFMin
<1>4. \A y \in S : x <= y
  <2>1. ASSUME NEW y \in S PROVE ~ (y < x)
    BY <1>2, <1>3, Zenon
  <2> QED BY <2>1
<1> QED BY <1>4 DEF Min

-----------------------------------------------------------------------------
(* What resolveConfig leaves of the file.                                  *)
ConfigRead == \E input \in Configs : config = ResolveConfig(input)

(* What resolveConfig has read: providers have hosts, all complete.        *)
LEMMA Providers ==
  ASSUME ConfigRead
  PROVE  /\ config.leaseMode \in {"exclusive", "shared"}
         /\ \A p \in DOMAIN config.providers : LET hosts == config.providers[p].hosts IN
              /\ p \in ProviderNames /\ DOMAIN hosts \subseteq Nat /\ DOMAIN hosts # {}
              /\ \A i \in DOMAIN hosts : hosts[i].complete /\ hosts[i].name \in HostNames
<1>1. PICK input \in Configs : config = ResolveConfig(input)
  BY DEF ConfigRead
<1>2. config.leaseMode \in {"exclusive", "shared"}
  BY <1>1, SelectionAssumption DEF ResolveConfig
<1>3. ASSUME NEW p \in DOMAIN config.providers
      PROVE  LET hosts == config.providers[p].hosts IN
              /\ p \in ProviderNames /\ DOMAIN hosts \subseteq Nat /\ DOMAIN hosts # {}
              /\ \A i \in DOMAIN hosts : hosts[i].complete /\ hosts[i].name \in HostNames
  <2> DEFINE given == input.providers[p]
             valid == ValidHosts(given)
  <2>1. /\ p \in DOMAIN input.providers /\ DOMAIN valid # {}
        /\ config.providers[p].hosts = valid
    BY <1>1 DEF ResolveConfig
  <2>2. p \in ProviderNames
    BY <2>1 DEF ProviderNames
  <2>3. DOMAIN valid \subseteq DOMAIN given.hosts /\ DOMAIN given.hosts \subseteq Nat
    BY <2>1, SelectionAssumption DEF ValidHosts
  <2>4. ASSUME NEW i \in DOMAIN valid PROVE valid[i].complete /\ valid[i].name \in HostNames
    <3>1. i \in DOMAIN given.hosts /\ valid[i] = given.hosts[i] /\ given.hosts[i].complete
      BY <2>4 DEF ValidHosts
    <3>2. given \in Range(input.providers) /\ given.hosts[i] \in Range(given.hosts)
      BY <2>1, <3>1 DEF Range
    <3>3. given.hosts[i] \in AllHosts
      BY <3>2 DEF AllHosts
    <3> QED BY <3>1, <3>3 DEF HostNames
  <2> HIDE DEF valid
  <2> QED BY <2>1, <2>2, <2>3, <2>4
<1> QED BY <1>2, <1>3

(* The choice: who has a lease on a candidate gets one of those; else who  *)
(* gets one could acquire it; and an error means that there is none of     *)
(* either.                                                                 *)
HostAt(p, i) == config.providers[p].hosts[i].name
Places(req) == Candidates(config.providers[req.provider], req)
(* What a selection gives: a candidate of the provider that is one's own   *)
(* or can be acquired; or nothing, when there is none of either kind.      *)
LEMMA SelectionProperties ==
  ASSUME ConfigRead, NEW w \in Workspaces, NEW req
  PROVE  /\ Selection(req, w) \in HostNames \cup {None}
         /\ Selection(req, w) # None =>
              /\ req.provider \in DOMAIN config.providers
              /\ \E i \in Places(req) :
                   /\ Selection(req, w) = HostAt(req.provider, i)
                   /\ \/ leases[Selection(req, w)] = w
                      \/ /\ Acquirable(Selection(req, w))
                         /\ \A k \in Places(req) : leases[HostAt(req.provider, k)] # w
         /\ Selection(req, w) = None /\ req.provider \in DOMAIN config.providers =>
              \A i \in Places(req) :
                leases[HostAt(req.provider, i)] # w /\ ~ Acquirable(HostAt(req.provider, i))
<1>1. CASE req.provider \notin DOMAIN config.providers
  BY <1>1 DEF Selection
<1>2. CASE req.provider \in DOMAIN config.providers
  <2> DEFINE hosts == config.providers[req.provider].hosts
             cands == Places(req)
             own == {i \in cands : leases[hosts[i].name] = w}
             free == {i \in cands : Acquirable(hosts[i].name)}
  <2>1. cands \subseteq DOMAIN hosts /\ DOMAIN hosts \subseteq Nat /\ None \notin HostNames
        /\ \A i \in cands : hosts[i].name \in HostNames /\ hosts[i].name = HostAt(req.provider, i)
    BY <1>2, Providers, SelectionAssumption DEF Candidates, HostAt, Places
  <2>2. Selection(req, w) = IF own # {} THEN hosts[Min(own)].name
                            ELSE IF free # {} THEN hosts[Min(free)].name ELSE None
    BY <1>2 DEF Selection, Choice, Places
  <2> HIDE DEF hosts, cands
  <2>3. own # {} => Min(own) \in own
    BY <2>1, FirstPlace
  <2>4. free # {} => Min(free) \in free
    BY <2>1, FirstPlace
  <2>5. CASE own # {}
    BY <1>2, <2>1, <2>2, <2>3, <2>5 DEF cands
  <2>6. CASE own = {} /\ free # {}
    BY <1>2, <2>1, <2>2, <2>4, <2>6 DEF cands
  <2>7. CASE own = {} /\ free = {}
    BY <1>2, <2>1, <2>2, <2>7 DEF cands
  <2> QED BY <2>5, <2>6, <2>7
<1> QED BY <1>1, <1>2

-----------------------------------------------------------------------------
(* Type correctness, and with it: what is used is a host of the config.    *)
Placed ==
  \A w \in Workspaces : \A u \in {chosen[w], bound[w], held[w]} \ {None} :
    /\ u.provider \in DOMAIN config.providers
    /\ \E i \in DOMAIN config.providers[u.provider].hosts : HostAt(u.provider, i) = u.host
BaseInv == ConfigRead /\ TypeOK /\ Placed

(* It holds of the config as it is read, with nothing leased.              *)
LEMMA BaseInit == Init => BaseInv
<1> SUFFICES ASSUME Init PROVE BaseInv
  OBVIOUS
<1>1. ConfigRead
  BY DEF Init, ConfigRead
<1>2. TypeOK
  <2>1. \A p \in DOMAIN config.providers : LET hosts == config.providers[p].hosts IN
          DOMAIN hosts # {} /\ \A h \in Range(hosts) : h.complete
    BY <1>1, Providers DEF Range
  <2> QED BY <1>1, <2>1, Providers DEF Init, TypeOK
<1> QED BY <1>1, <1>2 DEF Init, BaseInv, Placed

(* A workspace takes the host that it was given.                           *)
LEMMA Given ==
  ASSUME BaseInv, NEW w \in Workspaces, NEW req \in Request,
         NEW got, got = Selection(req, w), got # None
  PROVE  /\ got \in HostNames /\ [provider |-> req.provider, host |-> got] \in Use
         /\ req.provider \in DOMAIN config.providers
         /\ \E i \in DOMAIN config.providers[req.provider].hosts : HostAt(req.provider, i) = got
         /\ Acquired(got, w) \in [HostNames -> Workspaces \cup {None}] /\ Acquired(got, w)[got] = w
<1>1. got \in HostNames /\ req.provider \in DOMAIN config.providers
      /\ \E i \in Places(req) : HostAt(req.provider, i) = got
  BY SelectionProperties DEF BaseInv
<1>2. req.provider \in ProviderNames
  BY DEF Request
<1> QED BY <1>1, <1>2 DEF Use, Places, Candidates, Acquired, BaseInv, TypeOK

(* What ensureBindingReady asks for is a request, and names a host.        *)
ForBinding(w) == [provider |-> held[w].provider, host |-> held[w].host, labels |-> {}]
(* A binding's own host can be asked for.                                  *)
LEMMA AsksForBinding ==
  ASSUME BaseInv, NEW w \in Workspaces, held[w] # None
  PROVE  held[w] \in Use /\ ForBinding(w) \in Request /\ held[w].host # None
<1>1. held[w] \in Use /\ held[w].host \in HostNames
  BY DEF BaseInv, TypeOK, Use
<1>2. \E h \in AllHosts : held[w].host \in NamesOf(h)
  BY <1>1 DEF HostNames, NamesOf
<1> QED BY <1>1, <1>2, SelectionAssumption DEF ForBinding, Request, Use

(* The ways a resolution of a binding that was read ends: an error leaves  *)
(* all as it is or ends the binding, another host is given back, or the    *)
(* lease is taken and the tunnel awaited.                                  *)
Asked(w, req, got) ==
  /\ last' = [ws |-> w, req |-> req, got |-> got] /\ UNCHANGED <<config, chosen, held>>
  /\ req.provider = held[w].provider /\ req.host # None
Refused(w, got) ==
  got = None /\ (Ended(w) \/ UNCHANGED <<leases, bound>>) /\ UNCHANGED <<awaiting, outlived>>
GivenBack(w, got) ==
  /\ got # None /\ got # held[w].host /\ leases' = [Acquired(got, w) EXCEPT ![got] = None]
  /\ UNCHANGED <<bound, awaiting, outlived>>
Taken(w, got) ==
  /\ got # None /\ leases' = Acquired(got, w) /\ awaiting' = awaiting \cup {w} /\ UNCHANGED bound
  /\ outlived' = IF bound[w] = None \/ got # held[w].host THEN outlived \cup {got} ELSE outlived
(* Both ways to resolve a stored binding again end in one of these.        *)
LEMMA BindingAsked ==
  ASSUME BaseInv, NEW w \in Workspaces,
         EnsureReady(w) \/ \E req \in Request : FindReusable(w, req)
  PROVE  /\ held[w] # None /\ chosen[w] = None
         /\ \E req \in Request : \E got \in HostNames \cup {None} :
              /\ got = Selection(req, w) /\ Asked(w, req, got)
              /\ \/ Refused(w, got)
                 \/ GivenBack(w, got)
                 \/ Taken(w, got) /\ held[w].host \in {got, req.host}
<1>1. held[w] # None /\ chosen[w] = None
  BY DEF EnsureReady, FindReusable, BaseInv, TypeOK
<1>2. \A req \in Request : Selection(req, w) \in HostNames \cup {None}
  BY SelectionProperties DEF BaseInv
<1>3. CASE EnsureReady(w)
  <2> DEFINE got == Selection(ForBinding(w), w)
  <2>1. ForBinding(w) \in Request /\ held[w].host # None
    BY <1>1, AsksForBinding
  <2>2. Asked(w, ForBinding(w), got)
    BY <1>3, <2>1 DEF EnsureReady, ForBinding, Asked
  <2>3. Refused(w, got) \/ Taken(w, got)
    BY <1>3 DEF EnsureReady, ForBinding, Refused, Taken
  <2>4. ForBinding(w).host = held[w].host
    BY DEF ForBinding
  <2> QED BY <1>1, <1>2, <2>1, <2>2, <2>3, <2>4
<1>4. ASSUME NEW req \in Request, FindReusable(w, req)
      PROVE  LET got == Selection(req, w) IN
              /\ Asked(w, req, got)
              /\ Refused(w, got) \/ GivenBack(w, got) \/ (Taken(w, got) /\ held[w].host \in {got, req.host})
  BY <1>4 DEF FindReusable, Asked, Refused, GivenBack, Taken
<1> QED BY <1>1, <1>2, <1>3, <1>4

(* No resolution, removal or restart disturbs it.                          *)
LEMMA BaseStep == BaseInv /\ [Next]_vars => BaseInv'
<1> SUFFICES ASSUME BaseInv, [Next]_vars PROVE BaseInv'
  OBVIOUS
<1>1. config' = config
  BY DEF Next, vars, Resolve, Bind, GiveUp, Read, FindReusable, EnsureReady, WriteBack, Unbind, Finish, Restart
<1>2. ConfigRead'
  BY <1>1 DEF BaseInv, ConfigRead
<1> DEFINE Kinds == /\ leases' \in [HostNames -> Workspaces \cup {None}]
                    /\ chosen' \in [Workspaces -> Use \cup {None}] /\ bound' \in [Workspaces -> Use \cup {None}]
                    /\ held' \in [Workspaces -> Use \cup {None}] /\ outlived' \subseteq HostNames
                    /\ awaiting' \subseteq {w \in Workspaces : held'[w] # None}
                    /\ \A w \in Workspaces :
                         /\ chosen'[w] = None \/ (bound'[w] = None /\ held'[w] = None)
                         /\ bound'[w] = None \/ held'[w] \in {None, bound'[w]}
                    /\ last' \in Resolution \cup {None}
<1>3. /\ leases \in [HostNames -> Workspaces \cup {None}]
      /\ chosen \in [Workspaces -> Use \cup {None}] /\ bound \in [Workspaces -> Use \cup {None}]
      /\ held \in [Workspaces -> Use \cup {None}] /\ outlived \subseteq HostNames
      /\ awaiting \subseteq {w \in Workspaces : held[w] # None}
      /\ \A w \in Workspaces :
           /\ chosen[w] = None \/ (bound[w] = None /\ held[w] = None)
           /\ bound[w] = None \/ held[w] \in {None, bound[w]}
      /\ last \in Resolution \cup {None}
  BY DEF BaseInv, TypeOK
<1>4. ASSUME \A w \in Workspaces : \A u \in {chosen'[w], bound'[w], held'[w]} :
               u \in {chosen[w], bound[w], held[w], None}
      PROVE  Placed'
  BY <1>1, <1>4 DEF Placed, BaseInv, HostAt
<1>5. ASSUME NEW w \in Workspaces, NEW h PROVE Released(h, w) \in [HostNames -> Workspaces \cup {None}]
  BY <1>3 DEF Released
<1>6. ASSUME NEW w \in Workspaces, NEW req \in Request, Resolve(w, req) PROVE Kinds /\ Placed'
  <2> DEFINE got == Selection(req, w)
  <2>1. /\ got \in HostNames \cup {None} /\ last' = [ws |-> w, req |-> req, got |-> got]
        /\ bound[w] = None /\ held[w] = None /\ UNCHANGED <<bound, held, awaiting, outlived>>
    BY <1>6, SelectionProperties DEF Resolve, Fresh, BaseInv
  <2>2. last' \in Resolution
    BY <2>1 DEF Resolution
  <2>3. CASE got = None
    <3>1. UNCHANGED <<leases, chosen>>
      BY <1>6, <2>3 DEF Resolve
    <3> QED BY <1>3, <1>4, <2>1, <2>2, <3>1
  <2>4. CASE got # None
    <3> HIDE DEF got
    <3>1. leases' = Acquired(got, w) /\ chosen' = [chosen EXCEPT ![w] = [provider |-> req.provider, host |-> got]]
      BY <1>6, <2>4 DEF Resolve, got
    <3>2. /\ got \in HostNames /\ [provider |-> req.provider, host |-> got] \in Use
          /\ req.provider \in DOMAIN config.providers
          /\ \E i \in DOMAIN config.providers[req.provider].hosts : HostAt(req.provider, i) = got
          /\ Acquired(got, w) \in [HostNames -> Workspaces \cup {None}]
      BY <2>4, Given DEF got
    <3>3. Placed'
      BY <1>1, <1>3, <2>1, <3>1, <3>2 DEF Placed, BaseInv, HostAt
    <3> QED BY <1>3, <2>1, <2>2, <3>1, <3>2, <3>3
  <2> QED BY <2>3, <2>4
<1>7. ASSUME NEW w \in Workspaces, Bind(w) PROVE Kinds /\ Placed'
  BY <1>3, <1>4, <1>7 DEF Bind
<1>8. ASSUME NEW w \in Workspaces, GiveUp(w) PROVE Kinds /\ Placed'
  BY <1>3, <1>4, <1>5, <1>8 DEF GiveUp
<1>9. ASSUME NEW w \in Workspaces, Unbind(w) PROVE Kinds /\ Placed'
  BY <1>3, <1>4, <1>5, <1>9 DEF Unbind, Ended
<1>10. ASSUME NEW w \in Workspaces, Read(w) \/ Finish(w) PROVE Kinds /\ Placed'
  <2>1. UNCHANGED <<leases, chosen, bound, outlived>> /\ last' = None
    BY <1>10 DEF Read, Finish
  <2>2. held' \in [Workspaces -> Use \cup {None}] /\ awaiting' \subseteq {v \in Workspaces : held'[v] # None}
    BY <1>3, <1>10 DEF Read, Finish
  <2>3. \A v \in Workspaces : held'[v] \in {held[v], bound[v], None} /\ (held'[v] # None => chosen[v] = None)
    BY <1>3, <1>10 DEF Read, Finish
  <2>4. \A v \in Workspaces : bound[v] = None \/ held'[v] \in {None, bound[v]}
    BY <1>3, <1>10 DEF Read, Finish
  <2>5. Placed'
    BY <1>4, <2>1, <2>3
  <2> QED BY <1>3, <2>1, <2>2, <2>3, <2>4, <2>5
<1>11. ASSUME NEW w \in Workspaces, WriteBack(w) PROVE Kinds /\ Placed'
  <2>1. held[w] \in Use /\ held[w].host \in HostNames /\ held[w] # None
    BY <1>3, <1>11, SelectionAssumption DEF WriteBack, Use
  <2> QED BY <1>3, <1>4, <1>11, <2>1 DEF WriteBack
<1>12. ASSUME NEW w \in Workspaces, EnsureReady(w) \/ \E req \in Request : FindReusable(w, req) PROVE Kinds /\ Placed'
  <2>1. PICK req \in Request, got \in HostNames \cup {None} :
          /\ got = Selection(req, w) /\ Asked(w, req, got)
          /\ Refused(w, got) \/ GivenBack(w, got) \/ Taken(w, got)
    BY <1>12, BindingAsked
  <2>2. last' \in Resolution /\ UNCHANGED <<chosen, held>> /\ held[w] # None
    BY <1>12, <2>1, BindingAsked DEF Asked, Resolution
  <2>3. bound' \in {bound, [bound EXCEPT ![w] = None]}
    BY <2>1 DEF Refused, GivenBack, Taken, Ended
  <2>4. leases' \in [HostNames -> Workspaces \cup {None}]
    BY <1>3, <1>5, <2>1 DEF Refused, GivenBack, Taken, Ended, Acquired
  <2>5. outlived' \subseteq HostNames /\ awaiting' \subseteq awaiting \cup {w}
    BY <1>3, <2>1 DEF Refused, GivenBack, Taken
  <2>6. Placed'
    BY <1>3, <1>4, <2>2, <2>3
  <2> QED BY <1>3, <2>2, <2>3, <2>4, <2>5, <2>6
<1>13. ASSUME Restart PROVE Kinds /\ Placed'
  BY <1>3, <1>4, <1>13 DEF Restart, Shared
<1>14. ASSUME UNCHANGED vars PROVE Kinds /\ Placed'
  <2>1. UNCHANGED <<leases, chosen, bound, held, awaiting, outlived, last>>
    BY <1>14 DEF vars
  <2> QED BY <1>3, <1>4, <2>1
<1> HIDE DEF Kinds
<1>15. Kinds /\ Placed'
  BY <1>6, <1>7, <1>8, <1>9, <1>10, <1>11, <1>12, <1>13, <1>14 DEF Next
<1>16. TypeOK'
  BY <1>1, <1>15 DEF BaseInv, TypeOK, Kinds
<1> QED BY <1>2, <1>15, <1>16 DEF BaseInv

(* Only complete hosts remain, and no workspace has two.                   *)
THEOREM BaseInvariant == Spec => []BaseInv
<1> QED BY BaseInit, BaseStep, PTL DEF Spec

(* Types: what resolveConfig lets through is complete, a selection is a    *)
(* host of the config or none, and no workspace is at once bound and being *)
(* created.                                                                *)
THEOREM TypeCorrect == Spec => []TypeOK
<1> QED BY BaseInvariant, PTL DEF BaseInv

-----------------------------------------------------------------------------
(* In exclusive mode, one's own host is the only one that one gets.        *)
LEMMA OwnHostOrFree ==
  ASSUME BaseInv, Exclusive, NEW w \in Workspaces, NEW req \in Request,
         NEW got, got = Selection(req, w), got # None
  PROVE  got \in HostNames /\ leases[got] \in {w, None}
BY SelectionProperties DEF BaseInv, Exclusive, Acquirable

(* A workspace uses the host it is bound to or created on, or none.        *)
LEMMA UsesOf ==
  ASSUME BaseInv, NEW w \in Workspaces
  PROVE  /\ chosen[w] # None => Uses(w) = {chosen[w].host} /\ bound[w] = None /\ chosen[w].host \in HostNames
         /\ bound[w] # None => Uses(w) = {bound[w].host} /\ chosen[w] = None /\ bound[w].host \in HostNames
         /\ chosen[w] = None /\ bound[w] = None => Uses(w) = {}
         /\ held[w] # None => held[w].host \in HostNames /\ Uses(w) \subseteq {held[w].host} /\ chosen[w] = None
<1>1. held[w] # None => chosen[w] = None /\ bound[w] \in {None, held[w]} /\ held[w].host \in HostNames
  BY DEF BaseInv, TypeOK, Use
<1>2. /\ chosen[w] # None => Uses(w) = {chosen[w].host} /\ bound[w] = None /\ chosen[w].host \in HostNames
      /\ bound[w] # None => Uses(w) = {bound[w].host} /\ chosen[w] = None /\ bound[w].host \in HostNames
      /\ chosen[w] = None /\ bound[w] = None => Uses(w) = {}
  BY DEF BaseInv, TypeOK, Uses, Use
<1> QED BY <1>1, <1>2

(* And whoever asks for its host by any of its names gets it.              *)
LEMMA OwnHost ==
  ASSUME BaseInv, LeasesAreUses, Exclusive, NEW w \in Workspaces, bound[w] # None, bound[w].host \notin outlived,
         NEW req \in Request, req.provider = bound[w].provider,
         NEW i \in Places(req), HostAt(req.provider, i) = bound[w].host
  PROVE  Selection(req, w) = bound[w].host
<1>1. Uses(w) = {bound[w].host} /\ bound[w].host \in HostNames /\ req.provider \in DOMAIN config.providers
  BY UsesOf DEF BaseInv, Placed
<1>2. leases[bound[w].host] = w /\ \A h \in HostNames : leases[h] = w => h = bound[w].host
  BY <1>1 DEF LeasesAreUses
<1>3. Selection(req, w) # None
  BY <1>1, <1>2, SelectionProperties DEF BaseInv
<1>4. Selection(req, w) \in HostNames /\ leases[Selection(req, w)] = w
  BY <1>2, <1>3, SelectionProperties DEF BaseInv
<1> QED BY <1>2, <1>4

(* At the start nothing is leased or used.                                 *)
LEMMA LeasesInit == Init => LeasesAreUses
BY SelectionAssumption DEF Init, LeasesAreUses, Uses

(* What LeasesAreUses says of a workspace and a host.                      *)
Clean(w) == Uses(w) # {} /\ Uses(w) \cap outlived = {}
Agree(w, h) == h \notin outlived \/ Clean(w) => (leases[h] = w <=> h \in Uses(w))

(* Acquire, release and restore change a lease just where a use begins or  *)
(* ends, and a binding that is used after its removal disturbs none but    *)
(* the hosts it is used on.                                                *)
LEMMA LeasesStep == BaseInv /\ LeasesAreUses /\ [Next]_vars => LeasesAreUses'
<1> SUFFICES ASSUME BaseInv, LeasesAreUses, [Next]_vars, Exclusive'
             PROVE  \A v \in Workspaces, h \in HostNames : Agree(v, h)'
  BY DEF LeasesAreUses, Agree, Clean
<1>1. BaseInv' /\ None \notin Workspaces /\ leases \in [HostNames -> Workspaces \cup {None}]
  BY BaseStep, SelectionAssumption DEF BaseInv, TypeOK
<1>2. Exclusive
  BY DEF Next, vars, Resolve, Bind, GiveUp, Read, FindReusable, EnsureReady, WriteBack, Unbind, Finish, Restart, Exclusive
<1>3. \A v \in Workspaces, h \in HostNames : Agree(v, h)
  BY <1>2 DEF LeasesAreUses, Agree, Clean
<1>4. \A v \in Workspaces : chosen'[v] = chosen[v] /\ bound'[v] = bound[v] => Uses(v)' = Uses(v)
  BY DEF Uses
<1> DEFINE Same == \A v \in Workspaces, h \in HostNames : Agree(v, h)'
<1>5. ASSUME NEW v \in Workspaces, NEW h \in HostNames,
             Uses(v)' = Uses(v), outlived \subseteq outlived', leases'[h] = v <=> leases[h] = v
      PROVE  Agree(v, h)'
  BY <1>3, <1>5 DEF Agree, Clean
<1>6. ASSUME NEW w \in Workspaces, NEW req \in Request, Resolve(w, req) PROVE Same
  <2> DEFINE got == Selection(req, w)
  <2>1. Fresh(w) /\ bound' = bound /\ outlived' = outlived
    BY <1>6 DEF Resolve
  <2>2. CASE got = None
    BY <1>4, <1>5, <1>6, <2>1, <2>2 DEF Resolve
  <2>3. CASE got # None
    <3> HIDE DEF got
    <3>1. leases' = Acquired(got, w) /\ chosen' = [chosen EXCEPT ![w] = [provider |-> req.provider, host |-> got]]
      BY <1>6, <2>3 DEF Resolve, got
    <3>2. got \in HostNames /\ leases[got] = None /\ \A h \in HostNames : leases[h] # w
      BY <1>2, <2>1, <2>3, OwnHostOrFree DEF got, Fresh
    <3>3. chosen'[w] # None /\ chosen'[w].host = got
      BY <2>3, <3>1, Given, SelectionAssumption DEF got, BaseInv, TypeOK
    <3>4. Uses(w)' = {got} /\ \A v \in Workspaces \ {w} : Uses(v)' = Uses(v)
      BY <1>4, <2>1, <3>1, <3>3 DEF Uses, BaseInv, TypeOK, Fresh
    <3>5. \A h \in HostNames : leases'[h] = IF h = got THEN w ELSE leases[h]
      BY <1>1, <3>1, <3>2 DEF Acquired
    <3>6. ASSUME NEW h \in HostNames PROVE Agree(w, h)'
      BY <3>2, <3>4, <3>5 DEF Agree
    <3>7. ASSUME NEW v \in Workspaces \ {w}, NEW h \in HostNames PROVE Agree(v, h)'
      BY <1>1, <1>5, <2>1, <3>2, <3>4, <3>5
    <3> QED BY <3>6, <3>7
  <2> QED BY <2>2, <2>3
<1>7. ASSUME NEW w \in Workspaces, Bind(w) PROVE Same
  <2>1. leases' = leases /\ outlived' = outlived /\ \A v \in Workspaces : Uses(v)' = Uses(v)
    BY <1>7 DEF Bind, Uses, BaseInv, TypeOK
  <2> QED BY <1>5, <2>1
<1>8. ASSUME NEW w \in Workspaces, NEW h \in HostNames, Uses(w) \subseteq {h}, leases' = Released(h, w),
             chosen'[w] = None, bound'[w] = None, outlived' = outlived,
             \A v \in Workspaces \ {w} : chosen'[v] = chosen[v] /\ bound'[v] = bound[v]
      PROVE  Same
  <2>1. Uses(w)' = {} /\ \A v \in Workspaces \ {w} : Uses(v)' = Uses(v)
    BY <1>4, <1>8 DEF Uses
  <2>2. \A g \in HostNames : leases'[g] = IF g = h /\ leases[h] = w THEN None ELSE leases[g]
    BY <1>1, <1>8 DEF Released
  <2>3. ASSUME NEW g \in HostNames PROVE Agree(w, g)'
    <3>1. g \notin outlived /\ leases[g] = w => g = h
      BY <1>3, <1>8 DEF Agree
    <3> QED BY <1>1, <1>8, <2>1, <2>2, <3>1 DEF Agree, Clean
  <2>4. ASSUME NEW v \in Workspaces \ {w}, NEW g \in HostNames PROVE Agree(v, g)'
    BY <1>1, <1>5, <1>8, <2>1, <2>2
  <2> QED BY <2>3, <2>4
<1>9. ASSUME NEW w \in Workspaces, GiveUp(w) PROVE Same
  BY <1>8, <1>9, UsesOf DEF GiveUp, BaseInv, TypeOK
<1>10. ASSUME NEW w \in Workspaces, Unbind(w) PROVE Same
  BY <1>8, <1>10, UsesOf DEF Unbind, Ended, BaseInv, TypeOK
<1>11. ASSUME NEW w \in Workspaces, Read(w) \/ Finish(w) PROVE Same
  BY <1>4, <1>5, <1>11 DEF Read, Finish
<1>12. ASSUME NEW w \in Workspaces, WriteBack(w) PROVE Same
  <2>1. /\ held[w] # None /\ chosen[w] = None /\ held[w].host \in HostNames /\ bound[w] \in {None, held[w]}
        /\ leases' = leases /\ chosen' = chosen /\ bound' = [bound EXCEPT ![w] = held[w]] /\ outlived \subseteq outlived'
    BY <1>12, UsesOf DEF WriteBack, BaseInv, TypeOK
  <2>2. \A v \in Workspaces \ {w} : Uses(v)' = Uses(v)
    BY <1>4, <2>1 DEF BaseInv, TypeOK
  <2>3. ASSUME NEW v \in Workspaces \ {w}, NEW h \in HostNames PROVE Agree(v, h)'
    BY <1>5, <2>1, <2>2
  <2>4. CASE bound[w] # None
    <3>1. Uses(w)' = Uses(w)
      BY <1>4, <2>1, <2>4 DEF BaseInv, TypeOK
    <3> QED BY <1>5, <2>1, <2>3, <3>1
  <2>5. CASE bound[w] = None
    <3>1. Uses(w) = {} /\ Uses(w)' = {held[w].host} /\ outlived' = outlived \cup {held[w].host}
      BY <1>12, <2>1, <2>5, UsesOf DEF Uses, WriteBack, BaseInv, TypeOK
    <3>2. ASSUME NEW h \in HostNames PROVE Agree(w, h)'
      BY <1>3, <2>1, <3>1 DEF Agree, Clean
    <3> QED BY <2>3, <3>2
  <2> QED BY <2>4, <2>5
<1>13. ASSUME NEW w \in Workspaces, EnsureReady(w) \/ \E req \in Request : FindReusable(w, req) PROVE Same
  <2>1. PICK req \in Request, got \in HostNames \cup {None} :
          /\ got = Selection(req, w) /\ Asked(w, req, got)
          /\ \/ Refused(w, got)
             \/ GivenBack(w, got)
             \/ Taken(w, got) /\ held[w].host \in {got, req.host}
    BY <1>13, BindingAsked
  <2>2. /\ held[w] # None /\ chosen' = chosen /\ held[w].host \in HostNames /\ chosen[w] = None
        /\ Uses(w) \subseteq {held[w].host} /\ bound[w] \in {None, held[w]}
    BY <1>13, <2>1, BindingAsked, UsesOf DEF Asked, BaseInv, TypeOK
  <2>3. CASE Refused(w, got) /\ UNCHANGED <<leases, bound>>
    BY <1>4, <1>5, <2>2, <2>3 DEF Refused
  <2>4. CASE Refused(w, got) /\ Ended(w)
    BY <1>8, <2>2, <2>4 DEF Refused, Ended, BaseInv, TypeOK
  <2>5. got # None => got \in HostNames /\ leases[got] \in {w, None}
    BY <1>2, <2>1, OwnHostOrFree
  <2>6. CASE GivenBack(w, got)
    <3>1. /\ got # None /\ got # held[w].host /\ outlived' = outlived /\ \A v \in Workspaces : Uses(v)' = Uses(v)
          /\ \A g \in HostNames : leases'[g] = IF g = got THEN None ELSE leases[g]
      BY <1>1, <1>4, <2>2, <2>6 DEF GivenBack, Acquired
    <3>2. ASSUME NEW v \in Workspaces, NEW g \in HostNames, v # w \/ g # got PROVE Agree(v, g)'
      BY <1>1, <1>5, <2>5, <3>1, <3>2
    <3>3. Agree(w, got)'
      BY <1>1, <1>3, <2>2, <2>5, <3>1 DEF Agree, Clean
    <3> QED BY <3>2, <3>3
  <2>7. CASE Taken(w, got) /\ held[w].host \in {got, req.host}
    <3>1. /\ got \in HostNames /\ leases[got] \in {w, None} /\ outlived \subseteq outlived'
          /\ \A v \in Workspaces : Uses(v)' = Uses(v)
          /\ \A g \in HostNames : leases'[g] = IF g = got THEN w ELSE leases[g]
      BY <1>1, <1>4, <2>2, <2>5, <2>7 DEF Taken, Acquired
    <3>2. ASSUME NEW v \in Workspaces, NEW g \in HostNames, g # got PROVE Agree(v, g)'
      BY <1>5, <3>1, <3>2
    <3>3. CASE bound[w] = None \/ got # held[w].host
      <4>1. outlived' = outlived \cup {got}
        BY <2>7, <3>3 DEF Taken
      <4>2. ASSUME NEW v \in Workspaces \ {w} PROVE Agree(v, got)'
        BY <1>1, <3>1, <4>1 DEF Agree, Clean
      <4>3. ~ Clean(w)'
        <5> SUFFICES ASSUME Clean(w)' PROVE FALSE
          OBVIOUS
        <5>1. Clean(w) /\ Uses(w) # {}
          BY <3>1, <4>1 DEF Clean
        <5>2. bound[w] = held[w] /\ bound[w] # None /\ got # held[w].host /\ Uses(w) = {bound[w].host}
          BY <2>2, <3>3, <5>1, UsesOf
        <5>3. PICK i \in DOMAIN config.providers[bound[w].provider].hosts : HostAt(bound[w].provider, i) = bound[w].host
          BY <5>2 DEF BaseInv, Placed
        <5>4. req.provider = bound[w].provider /\ req.host = bound[w].host /\ req.host # None
          BY <2>1, <2>7, <5>2 DEF Asked
        <5>5. i \in Places(req) /\ HostAt(req.provider, i) = bound[w].host
          BY <5>3, <5>4 DEF Places, Candidates, NamesOf, HostAt
        <5> QED BY <1>2, <2>1, <5>1, <5>2, <5>4, <5>5, OwnHost DEF Clean
      <4>4. Agree(w, got)'
        BY <4>1, <4>3 DEF Agree
      <4> QED BY <3>2, <4>2, <4>4
    <3>4. CASE bound[w] # None /\ got = held[w].host
      <4>1. outlived' = outlived /\ Uses(w) = {got}
        BY <2>2, <2>7, <3>4, UsesOf DEF Taken
      <4>2. ASSUME NEW v \in Workspaces \ {w} PROVE Agree(v, got)'
        BY <1>1, <1>5, <3>1, <4>1
      <4>3. Agree(w, got)'
        BY <3>1, <4>1 DEF Agree
      <4> QED BY <3>2, <4>2, <4>3
    <3> QED BY <3>3, <3>4
  <2> QED BY <2>1, <2>3, <2>4, <2>6, <2>7 DEF Refused
<1>14. ASSUME Restart PROVE Same
  <2>1. \A v \in Workspaces : chosen'[v] = None /\ bound'[v] = bound[v]
    BY <1>14 DEF Restart
  <2>2. \A v \in Workspaces, h \in HostNames : h \in Uses(v)' <=> v \in Users(h)
    BY <2>1 DEF Uses, Users
  <2>3. \A h \in HostNames : leases'[h] \in IF Users(h) = {} THEN {None} ELSE Users(h)
    BY <1>14 DEF Restart
  <2>4. \A h \in HostNames : Users(h) \subseteq Workspaces
    BY DEF Users
  <2>5. \A h \in HostNames : h \notin outlived' => \A v, w \in Users(h) : v = w
    BY <1>14 DEF Restart, Shared
  <2>6. ASSUME NEW v \in Workspaces, NEW h \in HostNames PROVE Agree(v, h)'
    <3>1. leases'[h] = v => h \in Uses(v)'
      BY <1>1, <2>2, <2>3, <2>4
    <3>2. h \in Uses(v)' /\ h \notin outlived' => leases'[h] = v
      BY <2>2, <2>3, <2>5
    <3> QED BY <3>1, <3>2 DEF Agree, Clean
  <2> QED BY <2>6
<1>15. ASSUME UNCHANGED vars PROVE Same
  BY <1>4, <1>5, <1>15 DEF vars
<1> HIDE DEF Same
<1>16. Same
  BY <1>6, <1>7, <1>9, <1>10, <1>11, <1>12, <1>13, <1>14, <1>15 DEF Next
<1> QED BY <1>16 DEF Same

(* Leases and uses are the same, whatever names hosts are asked for by and *)
(* whatever invocations are under way, on every host but those that a      *)
(* binding was used on after its removal.                                  *)
THEOREM LeasesInvariant == Spec => []LeasesAreUses
<1> QED BY LeasesInit, LeasesStep, BaseInvariant, PTL DEF Spec

-----------------------------------------------------------------------------
(* In both modes, and at restarts: nobody but a later resolution takes the *)
(* lease of a host that is in use.                                         *)
THEOREM ReleasedByOwners == Spec => OwnersRelease
<1>1. BaseInv /\ [Next]_vars =>
        [\A w \in Workspaces, h \in HostNames :
           leases[h] = w /\ h \in Uses(w)' /\ leases'[h] = None => last' # None]_vars
  <2> SUFFICES ASSUME BaseInv, Next, NEW w \in Workspaces, NEW h \in HostNames,
                      leases[h] = w, h \in Uses(w)', leases'[h] = None, last' = None
               PROVE  FALSE
    BY DEF vars
  <2>1. BaseInv' /\ None \notin Workspaces /\ leases' # leases
    BY BaseStep, SelectionAssumption
  <2>2. bound'[w] # None \/ chosen'[w] # None
    BY <2>1, SelectionAssumption DEF Uses
  <2>3. ASSUME NEW v \in Workspaces, NEW g \in HostNames, leases' = Released(g, v),
               chosen'[v] = None, bound'[v] = None
        PROVE  FALSE
    BY <2>1, <2>2, <2>3 DEF Released, BaseInv, TypeOK
  <2>4. ASSUME NEW v \in Workspaces, GiveUp(v) PROVE FALSE
    BY <2>3, <2>4, UsesOf DEF GiveUp, BaseInv, TypeOK
  <2>5. ASSUME NEW v \in Workspaces, Unbind(v) PROVE FALSE
    BY <2>3, <2>5, UsesOf DEF Unbind, Ended, BaseInv, TypeOK
  <2>6. ASSUME NEW v \in Workspaces, NEW req \in Request, NEW got \in HostNames \cup {None},
               last' = [ws |-> v, req |-> req, got |-> got]
        PROVE  FALSE
    <3>1. last' \in Resolution
      BY <2>6 DEF Resolution
    <3> QED BY <3>1, SelectionAssumption
  <2>7. ASSUME NEW v \in Workspaces, NEW req \in Request, Resolve(v, req) PROVE FALSE
    BY <2>6, <2>7, SelectionProperties DEF Resolve, BaseInv
  <2>8. ASSUME NEW v \in Workspaces, EnsureReady(v) \/ \E req \in Request : FindReusable(v, req) PROVE FALSE
    BY <2>6, <2>8, BindingAsked DEF Asked
  <2>9. CASE Restart
    <3>1. bound[w] # None /\ bound[w].host = h
      BY <2>2, <2>9 DEF Restart, Uses
    <3>2. w \in Users(h) /\ Users(h) \subseteq Workspaces
      BY <3>1 DEF Users
    <3> QED BY <2>1, <2>9, <3>2 DEF Restart
  <2>10. CASE \E v \in Workspaces : Bind(v) \/ Read(v) \/ WriteBack(v) \/ Finish(v)
    BY <2>1, <2>10 DEF Bind, Read, WriteBack, Finish
  <2> QED BY <2>4, <2>5, <2>9, <2>10, <2>7, <2>8 DEF Next
<1> QED BY <1>1, BaseInvariant, PTL DEF Spec, OwnersRelease

(* A resolution that was recorded is the one that was made.                *)
LEMMA Resolved ==
  ASSUME BaseInv, Next, last' # None
  PROVE  \E w \in Workspaces, req \in Request :
           /\ last' = [ws |-> w, req |-> req, got |-> Selection(req, w)]
           /\ \/ bound[w] = None
              \/ req.provider = bound[w].provider /\ req.host # None
<1>1. ASSUME NEW w \in Workspaces, NEW req \in Request, Resolve(w, req)
      PROVE  last' = [ws |-> w, req |-> req, got |-> Selection(req, w)] /\ bound[w] = None
  BY <1>1 DEF Resolve, Fresh
<1>2. ASSUME NEW w \in Workspaces, EnsureReady(w) \/ \E req \in Request : FindReusable(w, req)
      PROVE  \E req \in Request :
               /\ last' = [ws |-> w, req |-> req, got |-> Selection(req, w)]
               /\ bound[w] = None \/ (req.provider = bound[w].provider /\ req.host # None)
  <2>1. bound[w] \in {None, held[w]}
    BY <1>2, BindingAsked DEF BaseInv, TypeOK
  <2> QED BY <1>2, <2>1, BindingAsked DEF Asked
<1>3. ASSUME NEW w \in Workspaces, Bind(w) \/ GiveUp(w) \/ Read(w) \/ WriteBack(w) \/ Unbind(w) \/ Finish(w)
      PROVE  FALSE
  BY <1>3 DEF Bind, GiveUp, Read, WriteBack, Unbind, Finish
<1>4. ~ Restart
  BY DEF Restart
<1> QED BY <1>1, <1>2, <1>3, <1>4 DEF Next

(* A workspace that is bound is found again by any name of its host, on    *)
(* every host but those that a binding was used on after its removal.      *)
THEOREM HostIsKept == Spec => KeepsItsHost
<1>1. BaseInv /\ LeasesAreUses /\ [Next]_vars =>
        [\A w \in Workspaces :
          /\ Exclusive /\ bound[w] # None /\ bound[w].host \notin outlived /\ last' # None /\ last'.ws = w
          /\ last'.req.host \in Named(bound[w].provider, bound[w].host)
          => last'.got = bound[w].host]_vars
  <2> SUFFICES ASSUME BaseInv, LeasesAreUses, Next, NEW w \in Workspaces,
                      Exclusive, bound[w] # None, bound[w].host \notin outlived, last' # None, last'.ws = w,
                      last'.req.host \in Named(bound[w].provider, bound[w].host)
               PROVE  last'.got = bound[w].host
    OBVIOUS
  <2>1. PICK req \in Request : /\ last' = [ws |-> w, req |-> req, got |-> Selection(req, w)]
                               /\ req.provider = bound[w].provider /\ req.host # None
    BY Resolved
  <2>2. PICK i \in DOMAIN config.providers[req.provider].hosts :
          /\ req.host \in NamesOf(config.providers[req.provider].hosts[i])
          /\ HostAt(req.provider, i) = bound[w].host
    BY <2>1 DEF Named, Range, HostAt
  <2>3. i \in Places(req)
    BY <2>1, <2>2 DEF Places, Candidates
  <2> QED BY <2>1, <2>2, <2>3, OwnHost
<1> QED BY <1>1, BaseInvariant, LeasesInvariant, PTL DEF Spec, KeepsItsHost

(* Nobody is refused while a host would do.                                *)
THEOREM RefusedIfTaken == Spec => RefusedOnlyIfTaken
<1>1. BaseInv /\ [Next]_vars =>
        [last' # None /\ last'.got = None =>
          \A p \in DOMAIN config.providers : p = last'.req.provider =>
            \A h \in Range(config.providers[p].hosts) :
              Suits(h, config.providers[p], last'.req) =>
                Exclusive /\ leases[h.name] \notin {None, last'.ws}]_vars
  <2> SUFFICES ASSUME BaseInv, Next, last' # None, last'.got = None,
                      NEW p \in DOMAIN config.providers, p = last'.req.provider,
                      NEW i \in DOMAIN config.providers[p].hosts,
                      Suits(config.providers[p].hosts[i], config.providers[p], last'.req)
               PROVE  Exclusive /\ leases[config.providers[p].hosts[i].name] \notin {None, last'.ws}
    BY DEF Range
  <2>1. PICK w \in Workspaces, req \in Request : last' = [ws |-> w, req |-> req, got |-> Selection(req, w)]
    BY Resolved
  <2>2. i \in Places(req) /\ p = req.provider
    BY <2>1 DEF Places, Candidates, Suits, MatchesLabels
  <2>3. leases[HostAt(p, i)] # w /\ ~ Acquirable(HostAt(p, i))
    BY <2>1, <2>2, SelectionProperties DEF BaseInv
  <2> QED BY <2>1, <2>3 DEF HostAt, Acquirable, Exclusive
<1> QED BY <1>1, BaseInvariant, PTL DEF Spec, RefusedOnlyIfTaken

-----------------------------------------------------------------------------
(* The refinement: in exclusive mode the ordered hosts of a provider, with *)
(* all their names, are the set of hosts of HostLeases.                    *)
TableStep ==
  \/ \E w \in Workspaces, cands \in SUBSET HostNames :
       \E h \in Table!Selectable(leases, w, cands) :
         leases' \in {Table!Acquired(leases, h, w),
                      Table!Released(Table!Acquired(leases, h, w), h, w)}
  \/ \E w \in Workspaces, h \in HostNames : leases' = Table!Released(leases, h, w)
  \/ leases' \in Table!Restored(Bindings)

(* A selection is one that the abstract table allows.                      *)
LEMMA Selects ==
  ASSUME BaseInv, Exclusive, NEW w \in Workspaces, NEW req \in Request,
         NEW got, got = Selection(req, w), got # None
  PROVE  \E cands \in SUBSET HostNames : got \in Table!Selectable(leases, w, cands)
<1> DEFINE cands == {HostAt(req.provider, i) : i \in Places(req)}
<1>1. /\ req.provider \in DOMAIN config.providers
      /\ \E i \in Places(req) :
           /\ got = HostAt(req.provider, i)
           /\ leases[got] = w \/ (Acquirable(got) /\ \A k \in Places(req) : leases[HostAt(req.provider, k)] # w)
  BY SelectionProperties DEF BaseInv
<1>2. cands \in SUBSET HostNames
  BY <1>1, Providers DEF BaseInv, Places, Candidates, HostAt
<1>3. got \in cands /\ (leases[got] = w \/ (leases[got] = None /\ \A h \in cands : leases[h] # w))
  BY <1>1 DEF Acquirable, Exclusive
<1> HIDE DEF cands
<1>4. got \in Table!Selectable(leases, w, cands)
  BY <1>3 DEF Table!Selectable
<1> QED BY <1>2, <1>4

(* In exclusive mode every step of LeaseManager and ProviderRegistry, on   *)
(* the ordered list of hosts with all their names, is an acquisition, a    *)
(* release or a restoration of the set HostLeases describes, or leaves the *)
(* leases as they are.                                                     *)
THEOREM TableImplemented == Spec => ImplementsTable
<1>1. BaseInv /\ [Next]_vars => [Exclusive => TableStep]_leases
  <2> SUFFICES ASSUME BaseInv, [Next]_vars, Exclusive, leases' # leases PROVE TableStep
    OBVIOUS
  <2>1. ASSUME NEW w \in Workspaces, NEW h \in HostNames, leases' = Released(h, w) PROVE TableStep
    BY <2>1 DEF Released, TableStep, Table!Released
  <2>2. ASSUME NEW w \in Workspaces, NEW req \in Request, NEW got, got = Selection(req, w), got # None,
               \/ leases' = Acquired(got, w)
               \/ leases' = [Acquired(got, w) EXCEPT ![got] = None]
        PROVE  TableStep
    <3>1. PICK cands \in SUBSET HostNames : got \in Table!Selectable(leases, w, cands)
      BY <2>2, Selects
    <3>2. Acquired(got, w) = Table!Acquired(leases, got, w) /\ Acquired(got, w)[got] = w
      BY <2>2, Given DEF Acquired, Table!Acquired
    <3>3. [Acquired(got, w) EXCEPT ![got] = None] = Table!Released(Table!Acquired(leases, got, w), got, w)
      BY <3>2 DEF Table!Released
    <3> QED BY <2>2, <3>1, <3>2, <3>3 DEF TableStep
  <2>3. ASSUME NEW w \in Workspaces, NEW req \in Request, Resolve(w, req) PROVE TableStep
    BY <2>2, <2>3 DEF Resolve
  <2>4. ASSUME NEW w \in Workspaces, GiveUp(w) \/ Unbind(w) PROVE TableStep
    BY <2>1, <2>4, UsesOf DEF GiveUp, Unbind, Ended
  <2>5. ASSUME NEW w \in Workspaces, EnsureReady(w) \/ \E req \in Request : FindReusable(w, req) PROVE TableStep
    BY <2>1, <2>2, <2>5, BindingAsked, UsesOf DEF Refused, GivenBack, Taken, Ended
  <2>6. CASE Restart
    <3>1. \A h \in HostNames : {b.ws : b \in {c \in Bindings : c.host = h}} = Users(h)
      <4>1. ASSUME NEW h \in HostNames, NEW v
            PROVE  v \in {b.ws : b \in {c \in Bindings : c.host = h}} <=> v \in Users(h)
        <5>1. ASSUME NEW b \in Bindings, b.host = h PROVE b.ws \in Users(h)
          BY <5>1 DEF Bindings, Users
        <5>2. ASSUME v \in Users(h)
              PROVE  [ws |-> v, host |-> bound[v].host] \in {c \in Bindings : c.host = h}
          BY <5>2 DEF Bindings, Users
        <5> QED BY <5>1, <5>2
      <4> QED BY <4>1
    <3>2. /\ leases' \in [HostNames -> Workspaces \cup {None}]
          /\ \A h \in HostNames : leases'[h] \in IF Users(h) = {} THEN {None} ELSE Users(h)
      BY <2>6 DEF Restart
    <3>3. leases' \in Table!Restored(Bindings)
      BY <3>1, <3>2 DEF Table!Restored
    <3> QED BY <3>3 DEF TableStep
  <2> QED BY <2>3, <2>4, <2>5, <2>6 DEF Next, vars, Bind, Read, WriteBack, Finish
<1> QED BY <1>1, BaseInvariant, PTL DEF Spec, ImplementsTable, TableStep
=============================================================================
