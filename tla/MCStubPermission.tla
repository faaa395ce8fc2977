-------------------------- MODULE MCStubPermission --------------------------
(* StubPermission on small sets: the values the .cfg files give constants. *)
EXTENDS StubPermission, TLC

CONSTANTS c1, c2, w1, w2, noid, s1, s2

(* A directory and one below it, and what their patterns cover.            *)
Pattern == INSTANCE PathPattern
TextOf == [top |-> <<"/", "a">>, below |-> <<"/", "a", "/", "b">>]
MCPaths == {"top", "below"}
MCCovers == [p \in MCPaths |->
  {q \in MCPaths : Pattern!MatchPattern(Pattern!AskPattern(TextOf[p]), TextOf[q])}]

(* A folder is named by the id that leads to it; that of the empty id      *)
(* holds the others and is not itself among those listed.                  *)
MCFolders == Workspaces
MCFolderOf == [w \in Workspaces |-> w]
MCInside == [f \in MCFolders |-> IF f = noid THEN MCFolders ELSE {f}]
MCListed == MCFolders \ {noid}
MCOldFolders == [f \in MCFolders |-> f]
MCOldSessions == [s \in Sessions |-> IF s = s1 THEN w1 ELSE w2]

ConnSymmetry == Permutations(Conns)

(* With both sessions the two workspaces, each with its session, can be    *)
(* exchanged as well.                                                      *)
Exchange == [x \in {w1, w2, s1, s2} |->
  CASE x = w1 -> w2 [] x = w2 -> w1 [] x = s1 -> s2 [] x = s2 -> s1]
PairSymmetry == ConnSymmetry \cup {Exchange}
=============================================================================
