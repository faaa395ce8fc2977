------------------------- MODULE MCPluginLifecycle --------------------------
(* PluginLifecycle on small sets: the values the .cfg files give constants. *)
EXTENDS PluginLifecycle, TLC

AllTools == ToolNames \ {"abandon"}

Interchangeable ==
  Permutations(Tasks) \cup Permutations(Hosts) \cup Permutations(Workspaces) \cup Permutations(Tunnels)
=============================================================================
