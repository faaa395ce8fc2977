--------------------------- MODULE DirectoryWalk ----------------------------
(***************************************************************************)
(* The reference for PathPattern.  A directory is written as the names     *)
(* from the root to it; the place it leads to is again a list of names,    *)
(* which "." leaves as it is, ".." shortens, and a link sends elsewhere.   *)
(* A user has approved one directory and a client asks for another: both   *)
(* are walked down from the root, name by name, so that every pair is met. *)
(***************************************************************************)
EXTENDS PathPattern

CONSTANTS
  Chars,      \* what texts are made of
  Names,      \* names of directories
  Links,      \* those that are symbolic links, which here lead to the root
  MaxDepth    \* bound: names in a directory

(* A name has a character, and none that is a slash.                       *)
ASSUME PatternAssumption ==
  /\ {"/", "*"} \subseteq Chars
  /\ Names \subseteq Seq(Chars)
  /\ \A n \in Names : n # <<>> /\ \A k \in 1 .. Len(n) : n[k] # "/"

VARIABLES
  approved, asked,     \* the directories as they are written
  approvedAt, askedAt  \* the places they lead to
vars == <<approved, asked, approvedAt, askedAt>>

Dot == <<".">>
DotDot == <<".", ".">>
Root == [names |-> <<>>, text |-> <<>>]
Below(dir, n) == [names |-> Append(dir.names, n), text |-> dir.text \o <<"/">> \o n]
Spelling(dir) == IF dir = Root THEN <<"/">> ELSE dir.text

(* Where the file system goes from a place by a name.                      *)
Step(place, n) ==
  CASE n = Dot -> place
    [] n = DotDot -> IF place = <<>> THEN <<>> ELSE Front(place)
    [] n \in Links -> <<>>
    [] OTHER -> Append(place, n)

Within(sub, place) == IsPrefix(place, sub)
Plain(dir) == \A k \in 1 .. Len(dir.names) : dir.names[k] \notin {Dot, DotDot} \cup Links

Init ==
  /\ approved = Root /\ asked = Root
  /\ approvedAt = <<>> /\ askedAt = <<>>

Next == \E n \in Names :
  \/ /\ Len(approved.names) < MaxDepth
     /\ approved' = Below(approved, n) /\ approvedAt' = Step(approvedAt, n)
     /\ UNCHANGED <<asked, askedAt>>
  \/ /\ Len(asked.names) < MaxDepth
     /\ asked' = Below(asked, n) /\ askedAt' = Step(askedAt, n)
     /\ UNCHANGED <<approved, approvedAt>>

Spec == Init /\ [][Next]_vars

(* Between directories written without ".", ".." and links, an approval    *)
(* covers the one it was given for and all that lies in it, and nothing    *)
(* else; but approving the root covers the root alone, for its pattern is  *)
(* //** (executeCommandLike adds /** to cwd as it is).  For the rest       *)
(* matchPattern, which reads the text alone, knows no place: /a/.. is      *)
(* covered by /a/**.                                                       *)
CoversSubtree ==
  Plain(approved) /\ Plain(asked) =>
    (MatchPattern(AskPattern(Spelling(approved)), Spelling(asked))
       <=> IF approved = Root THEN asked = Root ELSE Within(askedAt, approvedAt))

(* Written with slashes at the end, either of them, an approval never      *)
(* covers more than the subtree, and always the very text it was given for *)
(* (between directories written so, again).                                *)
SlashesNeverWiden ==
  LET ap == Spelling(approved) \o <<"/">>
      as == Spelling(asked) \o <<"/">>
      inside == Plain(approved) /\ Plain(asked) => Within(askedAt, approvedAt)
  IN /\ MatchPattern(AskPattern(ap), as) => inside
     /\ MatchPattern(AskPattern(ap), Spelling(asked)) => inside
     /\ MatchPattern(AskPattern(Spelling(approved)), as) => inside
     /\ MatchPattern(AskPattern(ap), ap)
=============================================================================
