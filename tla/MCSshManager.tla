---------------------------- MODULE MCSshManager ----------------------------
(* SshManager on small sets: a workspace of the plugin and one of the      *)
(* harness on one host, another of the plugin on a second; their searches  *)
(* begin at different ports of one range.                                  *)
EXTENDS SshManager, TLC

CONSTANTS w1, w2, w3, h1, h2

MCHostOf == [w \in Workspaces |-> IF w = w3 THEN h2 ELSE h1]
MCInitialPort == [w \in Workspaces |-> IF w = w1 THEN Last ELSE First]
AllFaults == {"tunnel", "stub", "relaunch", "stall"}

PidSymmetry == Permutations(Pids)
=============================================================================
