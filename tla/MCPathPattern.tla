--------------------------- MODULE MCPathPattern ----------------------------
(* The walk over names that begin like one another, that look like a       *)
(* pattern, that climb, and one that is a link.                            *)
EXTENDS DirectoryWalk

Letters == {"a", "b", "*", ".", "/"}
SomeLinks == {<<"b">>}
SomeNames == {<<"a">>, <<"a", "b">>, <<"*">>, <<"*", "*">>, Dot, DotDot} \cup SomeLinks
=============================================================================
