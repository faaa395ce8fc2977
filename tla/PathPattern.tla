---------------------------- MODULE PathPattern -----------------------------
(***************************************************************************)
(* Which directories an approval covers: matchPattern of                   *)
(* stub/internal/state/state.go, on the patterns executeCommandLike makes. *)
(* A text is the sequence of its characters.  Names are compared as text:  *)
(* no file system is consulted, and ".", ".." and links have no meaning of *)
(* their own here, as in the code.                                         *)
(***************************************************************************)
EXTENDS Integers, Sequences, SequencesExt

Tail3 == <<"/", "*", "*">>

(* The pattern a request for cwd carries: cwd + "/**".                     *)
AskPattern(cwd) == cwd \o Tail3

(* Mutant of MatchPattern: the character after the prefix is not looked at, *)
(* so that /a/** takes /ab for a directory under /a.                       *)
MatchPattern_NoSeparator(pattern, path) ==
  \/ pattern = path
  \/ /\ IsSuffix(Tail3, pattern)
     /\ IsPrefix(SubSeq(pattern, 1, Len(pattern) - 3), path)

(* Mutant of MatchPattern: the directory itself is left out.               *)
MatchPattern_OnlyBelow(pattern, path) ==
  \/ pattern = path
  \/ /\ IsSuffix(Tail3, pattern)
     /\ LET prefix == SubSeq(pattern, 1, Len(pattern) - 3)
        IN  Len(path) > Len(prefix) /\ IsPrefix(Append(prefix, "/"), path)

(* A pattern that ends in /** covers its directory and what lies below; it *)
(* never comes to the last case, where one that ends in * covers whatever  *)
(* begins like it.                                                         *)
MatchPattern(pattern, path) ==
  \/ pattern = path
  \/ /\ IsSuffix(Tail3, pattern)
     /\ LET prefix == SubSeq(pattern, 1, Len(pattern) - 3)
        IN  \/ path = prefix \/ path = Append(prefix, "/")
            \/ IsPrefix(Append(prefix, "/"), path)
  \/ /\ ~ IsSuffix(Tail3, pattern)
     /\ IsSuffix(<<"*">>, pattern)
     /\ IsPrefix(SubSeq(pattern, 1, Len(pattern) - 1), path)
=============================================================================
