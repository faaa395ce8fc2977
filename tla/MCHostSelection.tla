-------------------------- MODULE MCHostSelection ---------------------------
(* HostSelection on a few configs, in which names overlap in every way.    *)
EXTENDS HostSelection, TLC

Host(name, ssh, aliases, labels) ==
  [name |-> name, ssh |-> ssh, aliases |-> aliases, labels |-> labels, complete |-> TRUE]

Web   == Host("web", "10.0.0.1", {"prod"}, {"gpu"})
Db    == Host("db", "10.0.0.2", {"prod"}, {})           \* shares an alias
Proxy == Host("proxy", "10.0.0.3", {"web", "db"}, {"gpu"})   \* its aliases are names
Alter == Host("db", "10.0.0.1", {}, {"gpu"})              \* same name, another machine
Broken == [Web EXCEPT !.complete = FALSE]

Provider(labels, hosts) == [labels |-> labels, hosts |-> hosts]
MCConfigs ==
  {[leaseMode |-> m, providers |-> [p |-> pq[1], q |-> pq[2]]] :
     m \in {None, "shared"},
     pq \in {<<Provider({}, <<Web, Db>>), Provider({"gpu"}, <<Alter>>)>>,
             <<Provider({}, <<Proxy, Db, Broken>>), Provider({}, <<Broken>>)>>,
             <<Provider({"gpu"}, <<Db, Proxy, Web>>), Provider({}, <<Db>>)>>}}

WorkspaceSymmetry == Permutations(Workspaces)
=============================================================================
