------------------------- MODULE PathPatternProofs --------------------------
(***************************************************************************)
(* What an approval covers, for texts of any length, any names of          *)
(* directories and any depth.                                              *)
(*                                                                         *)
(* Texts and lists of names are compared position by position.  That two   *)
(* lists of names are one when their texts are is an induction over both   *)
(* lists; here it is an invariant of the walk that builds them, name by    *)
(* name.                                                                   *)
(***************************************************************************)
EXTENDS DirectoryWalk, SequenceTheorems, TLAPS

Texts == Seq(Chars)
Agree(s, t, n) == \A k \in 1 .. n : s[k] = t[k]

(* A prefix is no longer, and has the same elements at its places.         *)
LEMMA PrefixByPosition ==
  ASSUME NEW S, NEW s \in Seq(S), NEW t \in Seq(S)
  PROVE  IsPrefix(s, t) <=> Len(s) <= Len(t) /\ Agree(s, t, Len(s))
<1>1. CASE Len(s) <= Len(t)
  <2>1. /\ SubSeq(s, 1, Len(s)) \in Seq(S) /\ SubSeq(t, 1, Len(s)) \in Seq(S)
        /\ Len(SubSeq(s, 1, Len(s))) = Len(s) /\ Len(SubSeq(t, 1, Len(s))) = Len(s)
        /\ \A k \in 1 .. Len(s) : SubSeq(s, 1, Len(s))[k] = s[k] /\ SubSeq(t, 1, Len(s))[k] = t[k]
    <3>1. Len(s) \in Nat /\ Len(t) \in Nat
      OBVIOUS
    <3>2. /\ \A k \in 1 .. Len(s) : s[k] \in S
          /\ \A k \in 1 .. Len(s) : t[k] \in S
      BY <1>1, ElementOfSeq
    <3> QED BY <3>1, <3>2, SubSeqProperties
  <2> QED BY <1>1, <2>1, SeqEqual DEF IsPrefix, Agree
<1> QED BY <1>1 DEF IsPrefix

(* The end of a pattern.                                                   *)
LEMMA Tail3Text == Tail3 \in Texts /\ Len(Tail3) = 3 /\ Tail3[1] = "/" /\ Tail3[2] = "*" /\ Tail3[3] = "*"
  BY PatternAssumption DEF Tail3, Texts

(* A list turned around, place by place.                                   *)
LEMMA ReverseByPosition ==
  ASSUME NEW S, NEW s \in Seq(S)
  PROVE  /\ Reverse(s) \in Seq(S) /\ Len(Reverse(s)) = Len(s)
         /\ \A i \in 1 .. Len(s) : Reverse(s)[i] = s[(Len(s) - i) + 1]
<1>1. Len(s) \in Nat /\ \A k \in 1 .. Len(s) : s[k] \in S
  BY ElementOfSeq
<1>2. \A i \in 1 .. Len(s) : s[(Len(s) - i) + 1] \in S
  BY <1>1
<1>3. Reverse(s) \in [1 .. Len(s) -> S]
  BY <1>2 DEF Reverse
<1>4. Reverse(s) \in Seq(S)
  BY <1>1, <1>3
<1>5. DOMAIN Reverse(s) = 1 .. Len(s) /\ DOMAIN Reverse(s) = 1 .. Len(Reverse(s)) /\ Len(Reverse(s)) \in Nat
  BY <1>4, LenProperties DEF Reverse
<1>6. Len(Reverse(s)) = Len(s)
  BY <1>1, <1>5
<1> QED BY <1>4, <1>6 DEF Reverse

(* The pattern of a request, place by place: it ends in /** and what comes *)
(* before is the directory.                                                *)
LEMMA AskedPattern ==
  ASSUME NEW cwd \in Texts
  PROVE  /\ AskPattern(cwd) \in Texts /\ Len(AskPattern(cwd)) = Len(cwd) + 3
         /\ Agree(AskPattern(cwd), cwd, Len(cwd))
         /\ AskPattern(cwd)[Len(cwd) + 1] = "/"
         /\ IsSuffix(Tail3, AskPattern(cwd))
         /\ SubSeq(AskPattern(cwd), 1, Len(AskPattern(cwd)) - 3) = cwd
<1> DEFINE p == AskPattern(cwd)
<1>0. Len(cwd) \in Nat
  BY DEF Texts
<1>1. /\ p \in Texts /\ Len(p) = Len(cwd) + 3
      /\ \A k \in 1 .. Len(cwd) + 3 : p[k] = IF k <= Len(cwd) THEN cwd[k] ELSE Tail3[k - Len(cwd)]
  <2>1. cwd \in Seq(Chars) /\ Tail3 \in Seq(Chars) /\ Len(Tail3) = 3
    BY Tail3Text DEF Texts
  <2> HIDE DEF Tail3
  <2>2. /\ cwd \o Tail3 \in Seq(Chars) /\ Len(cwd \o Tail3) = Len(cwd) + Len(Tail3)
        /\ \A k \in 1 .. Len(cwd) + Len(Tail3) :
             (cwd \o Tail3)[k] = IF k <= Len(cwd) THEN cwd[k] ELSE Tail3[k - Len(cwd)]
    BY <2>1, ConcatProperties
  <2> QED BY <2>1, <2>2 DEF AskPattern, Texts
<1> HIDE DEF p
<1>2. Agree(p, cwd, Len(cwd)) /\ p[Len(cwd) + 1] = "/" /\ p[Len(cwd) + 2] = "*" /\ p[Len(cwd) + 3] = "*"
  BY <1>0, <1>1, Tail3Text DEF Agree
<1>3. IsSuffix(Tail3, p)
  <2>1. /\ Reverse(Tail3) \in Texts /\ Len(Reverse(Tail3)) = 3
        /\ Reverse(Tail3)[1] = "*" /\ Reverse(Tail3)[2] = "*" /\ Reverse(Tail3)[3] = "/"
    <3>1. Reverse(Tail3) = <<"*", "*", "/">>
      BY DEF Reverse, Tail3
    <3> QED BY <3>1, PatternAssumption DEF Texts
  <2>2. /\ Reverse(p) \in Texts /\ Len(Reverse(p)) = Len(cwd) + 3
        /\ Reverse(p)[1] = "*" /\ Reverse(p)[2] = "*" /\ Reverse(p)[3] = "/"
    <3>1. /\ Reverse(p) \in Seq(Chars) /\ Len(Reverse(p)) = Len(p)
          /\ \A i \in 1 .. Len(p) : Reverse(p)[i] = p[(Len(p) - i) + 1]
      BY <1>1, ReverseByPosition DEF Texts
    <3>2. \A i \in 1 .. 3 : i \in 1 .. Len(p) /\ (Len(p) - i) + 1 = Len(cwd) + (4 - i)
      BY <1>0, <1>1
    <3>3. \A i \in 1 .. 3 : Reverse(p)[i] = p[Len(cwd) + (4 - i)]
      BY <3>1, <3>2
    <3>4. Reverse(p)[1] = "*" /\ Reverse(p)[2] = "*" /\ Reverse(p)[3] = "/"
      BY <1>2, <3>3
    <3> QED BY <1>1, <3>1, <3>4 DEF Texts
  <2>3. Agree(Reverse(Tail3), Reverse(p), 3)
    BY <2>1, <2>2 DEF Agree
  <2>4. IsPrefix(Reverse(Tail3), Reverse(p))
          <=> Len(Reverse(Tail3)) <= Len(Reverse(p)) /\ Agree(Reverse(Tail3), Reverse(p), Len(Reverse(Tail3)))
    BY <2>1, <2>2, PrefixByPosition DEF Texts
  <2>5. IsPrefix(Reverse(Tail3), Reverse(p))
    BY <1>0, <2>1, <2>2, <2>3, <2>4
  <2> QED BY <2>5 DEF IsSuffix
<1>4. SubSeq(p, 1, Len(p) - 3) = cwd
  <2>1. \A k \in 1 .. Len(cwd) : p[k] \in Chars
    BY <1>0, <1>1, ElementOfSeq DEF Texts
  <2>2. /\ SubSeq(p, 1, Len(cwd)) \in Texts /\ Len(SubSeq(p, 1, Len(cwd))) = Len(cwd)
        /\ \A k \in 1 .. Len(cwd) : SubSeq(p, 1, Len(cwd))[k] = p[k]
    BY <1>0, <2>1, SubSeqProperties DEF Texts
  <2>3. SubSeq(p, 1, Len(cwd)) = cwd
    BY <1>2, <2>2, SeqEqual DEF Texts, Agree
  <2> QED BY <1>0, <1>1, <2>3
<1> QED BY <1>1, <1>2, <1>3, <1>4 DEF p

(* One text goes on from another with a slash.                              *)
Continues(cwd, path) == Len(cwd) < Len(path) /\ Agree(cwd, path, Len(cwd)) /\ path[Len(cwd) + 1] = "/"
(* The pattern of a request covers the directory it was made for, and the  *)
(* texts that go on from it with a slash (matchPattern on cwd + "/**"), for *)
(* whatever text the client sent as its directory.                         *)
THEOREM AskCovers ==
  ASSUME NEW cwd \in Texts, NEW path \in Texts
  PROVE  MatchPattern(AskPattern(cwd), path) <=> path = cwd \/ Continues(cwd, path)
<1>0. Len(cwd) \in Nat /\ Len(path) \in Nat
  BY DEF Texts
<1> DEFINE q == Append(cwd, "/")
<1>1. q \in Texts /\ Len(q) = Len(cwd) + 1 /\ q[Len(cwd) + 1] = "/" /\ \A k \in 1 .. Len(cwd) : q[k] = cwd[k]
  BY PatternAssumption, AppendProperties DEF Texts
<1> HIDE DEF q
<1>2. IsPrefix(q, path) <=> Continues(cwd, path)
  <2>1. IsPrefix(q, path) <=> Len(q) <= Len(path) /\ Agree(q, path, Len(q))
    BY <1>1, PrefixByPosition DEF Texts
  <2>2. Agree(q, path, Len(q)) <=> Agree(cwd, path, Len(cwd)) /\ path[Len(cwd) + 1] = "/"
    BY <1>0, <1>1 DEF Agree
  <2> QED BY <1>0, <1>1, <2>1, <2>2 DEF Continues
<1>3. path = q => Continues(cwd, path)
  BY <1>0, <1>1 DEF Continues, Agree
<1>4. AskPattern(cwd) = path => Continues(cwd, path)
  BY <1>0, AskedPattern DEF Continues, Agree
<1>5. MatchPattern(AskPattern(cwd), path) <=>
        AskPattern(cwd) = path \/ path = cwd \/ path = q \/ IsPrefix(q, path)
  BY AskedPattern DEF MatchPattern, q
<1> QED BY <1>2, <1>3, <1>4, <1>5

-----------------------------------------------------------------------------
(* Directories and their texts: e[i] is where the i-th name ends in the    *)
(* text, and every position of the text is that of a name or its slash.    *)
Dirs == [names : Seq(Names), text : Texts]

Spelled(d, e) ==
  /\ e \in [0 .. Len(d.names) -> Nat]
  /\ e[0] = 0 /\ e[Len(d.names)] = Len(d.text)
  /\ \A i \in 1 .. Len(d.names) :
       /\ e[i] = e[i - 1] + 1 + Len(d.names[i]) /\ e[i] <= Len(d.text)
       /\ d.text[e[i - 1] + 1] = "/"
       /\ \A k \in 1 .. Len(d.names[i]) : d.text[e[i - 1] + 1 + k] = d.names[i][k]
  /\ \A p \in 1 .. Len(d.text) : \E i \in 1 .. Len(d.names) : e[i - 1] < p /\ p <= e[i]

Further(d, e, n) ==
  [i \in 0 .. Len(d.names) + 1 |-> IF i <= Len(d.names) THEN e[i] ELSE Len(d.text) + 1 + Len(n)]

(* The places of a name and of the slash before it lie within the text.    *)
LEMMA PlaceWithin ==
  ASSUME NEW T \in Nat, NEW x \in Nat, NEW y \in Nat, x + 1 + y <= T
  PROVE  x + 1 \in 1 .. T /\ \A k \in 1 .. y : x + 1 + k \in 1 .. T
OBVIOUS

(* A name is a text without a slash, and not an empty one.                 *)
LEMMA NameText ==
  ASSUME NEW n \in Names
  PROVE  n \in Texts /\ Len(n) \in Nat \ {0} /\ \A k \in 1 .. Len(n) : n[k] # "/"
<1>1. n \in Seq(Chars) /\ n # <<>>
  BY PatternAssumption
<1> QED BY <1>1, EmptySeq, PatternAssumption DEF Texts

(* A directory one name further down, place by place.                      *)
LEMMA BelowByPosition ==
  ASSUME NEW d \in Dirs, NEW n \in Names
  PROVE  /\ Below(d, n) \in Dirs
         /\ Len(Below(d, n).names) = Len(d.names) + 1
         /\ Agree(Below(d, n).names, d.names, Len(d.names))
         /\ Below(d, n).names[Len(d.names) + 1] = n
         /\ Len(Below(d, n).text) = Len(d.text) + 1 + Len(n)
         /\ Agree(Below(d, n).text, d.text, Len(d.text))
         /\ Below(d, n).text[Len(d.text) + 1] = "/"
         /\ \A k \in 1 .. Len(n) : Below(d, n).text[Len(d.text) + 1 + k] = n[k]
<1>1. d.names \in Seq(Names) /\ d.text \in Seq(Chars) /\ n \in Seq(Chars)
      /\ Len(d.names) \in Nat /\ Len(d.text) \in Nat /\ Len(n) \in Nat
  BY NameText DEF Dirs, Texts
<1> DEFINE slash == <<"/">>
           u == d.text \o slash
           v == u \o n
           T == Len(d.text)
<1>2. slash \in Seq(Chars) /\ Len(slash) = 1 /\ slash[1] = "/"
  BY PatternAssumption
<1> HIDE DEF slash
<1>3. /\ u \in Seq(Chars) /\ Len(u) = Len(d.text) + 1
      /\ \A k \in 1 .. Len(d.text) + 1 : u[k] = IF k <= Len(d.text) THEN d.text[k] ELSE slash[k - Len(d.text)]
  <2>1. /\ u \in Seq(Chars) /\ Len(u) = Len(d.text) + Len(slash)
        /\ \A k \in 1 .. Len(d.text) + Len(slash) : u[k] = IF k <= Len(d.text) THEN d.text[k] ELSE slash[k - Len(d.text)]
    BY <1>1, <1>2, ConcatProperties
  <2> QED BY <1>2, <2>1
<1>4. Agree(u, d.text, Len(d.text)) /\ u[Len(d.text) + 1] = "/"
  BY <1>1, <1>2, <1>3 DEF Agree
<1> HIDE DEF u
<1>5. /\ v \in Seq(Chars) /\ Len(v) = Len(u) + Len(n)
      /\ \A k \in 1 .. Len(u) + Len(n) : v[k] = IF k <= Len(u) THEN u[k] ELSE n[k - Len(u)]
  <2>1. u \in Seq(Chars) /\ n \in Seq(Chars)
    BY <1>1, <1>3
  <2> QED BY <2>1, ConcatProperties
<1> HIDE DEF v
<1>6. /\ Len(v) = Len(d.text) + 1 + Len(n)
      /\ Agree(v, d.text, Len(d.text))
      /\ v[Len(d.text) + 1] = "/"
      /\ \A k \in 1 .. Len(n) : v[Len(d.text) + 1 + k] = n[k]
  <2>1. /\ Len(u) = T + 1 /\ T \in Nat /\ Len(n) \in Nat
        /\ \A k \in 1 .. T : u[k] = d.text[k]
        /\ u[T + 1] = "/"
    BY <1>1, <1>3, <1>4 DEF Agree
  <2>2. \A k \in 1 .. T + 1 + Len(n) : v[k] = IF k <= T + 1 THEN u[k] ELSE n[k - (T + 1)]
    BY <1>5, <2>1
  <2> HIDE DEF T
  <2>3. \A k \in 1 .. T : v[k] = d.text[k]
    BY <2>1, <2>2
  <2>4. v[T + 1] = "/"
    BY <2>1, <2>2
  <2>5. ASSUME NEW k \in 1 .. Len(n)
        PROVE  v[T + 1 + k] = n[k]
    <3>1. T + 1 + k \in 1 .. T + 1 + Len(n) /\ ~ (T + 1 + k <= T + 1) /\ (T + 1 + k) - (T + 1) = k
      BY <2>1
    <3> QED BY <2>2, <3>1
  <2> QED BY <1>5, <2>1, <2>3, <2>4, <2>5 DEF Agree, T
<1>7. /\ Append(d.names, n) \in Seq(Names) /\ Len(Append(d.names, n)) = Len(d.names) + 1
      /\ Agree(Append(d.names, n), d.names, Len(d.names)) /\ Append(d.names, n)[Len(d.names) + 1] = n
  BY <1>1, AppendProperties DEF Agree
<1>8. Below(d, n) = [names |-> Append(d.names, n), text |-> v]
  BY DEF Below, v, u, slash
<1> QED BY <1>5, <1>6, <1>7, <1>8 DEF Dirs, Texts

(* Its text is spelled by its names if the upper directory's is.           *)
LEMMA SpelledFurther ==
  ASSUME NEW d \in Dirs, NEW e, Spelled(d, e), NEW n \in Names
  PROVE  /\ Spelled(Below(d, n), Further(d, e, n))
         /\ \A i \in 0 .. Len(d.names) : Further(d, e, n)[i] = e[i]
         /\ Further(d, e, n)[Len(d.names) + 1] = Len(d.text) + 1 + Len(n)
<1> DEFINE L == Len(d.names)
           T == Len(d.text)
           b == Below(d, n)
           f == Further(d, e, n)
<1>1. L \in Nat /\ T \in Nat /\ Len(n) \in Nat \ {0} /\ \A i \in 0 .. L : e[i] \in Nat
  <2>1. L \in Nat /\ T \in Nat
    BY DEF Dirs, Texts
  <2>2. Len(n) \in Nat \ {0}
    BY NameText
  <2>3. e \in [0 .. L -> Nat]
    BY DEF Spelled
  <2> QED BY <2>1, <2>2, <2>3
<1>2. /\ Len(b.names) = L + 1 /\ Agree(b.names, d.names, L) /\ b.names[L + 1] = n
      /\ Len(b.text) = T + 1 + Len(n) /\ Agree(b.text, d.text, T) /\ b.text[T + 1] = "/"
      /\ \A k \in 1 .. Len(n) : b.text[T + 1 + k] = n[k]
  BY BelowByPosition
<1>3. /\ f \in [0 .. L + 1 -> Nat]
      /\ \A i \in 0 .. L : f[i] = e[i]
      /\ f[L + 1] = T + 1 + Len(n)
  BY <1>1 DEF Further
<1>4. e[0] = 0 /\ e[L] = T
  BY DEF Spelled
<1>5. ASSUME NEW i \in 1 .. L
      PROVE  /\ Len(d.names[i]) \in Nat /\ e[i] = e[i - 1] + 1 + Len(d.names[i]) /\ e[i] <= T
             /\ d.text[e[i - 1] + 1] = "/"
             /\ \A k \in 1 .. Len(d.names[i]) : d.text[e[i - 1] + 1 + k] = d.names[i][k]
  <2>1. d.names[i] \in Names
    BY <1>5, ElementOfSeq DEF Dirs
  <2> QED BY <1>5, <2>1, NameText DEF Spelled
<1>6. \A p \in 1 .. T : \E i \in 1 .. L : e[i - 1] < p /\ p <= e[i]
  BY DEF Spelled
<1> HIDE DEF L, T, b, f
<1>7. ASSUME NEW i \in 1 .. L + 1
      PROVE  /\ f[i] = f[i - 1] + 1 + Len(b.names[i]) /\ f[i] <= Len(b.text)
             /\ b.text[f[i - 1] + 1] = "/"
             /\ \A k \in 1 .. Len(b.names[i]) : b.text[f[i - 1] + 1 + k] = b.names[i][k]
  <2>1. CASE i \in 1 .. L
    <3>1. b.names[i] = d.names[i] /\ f[i] = e[i] /\ f[i - 1] = e[i - 1] /\ e[i - 1] \in Nat
      <4>1. i - 1 \in 0 .. L /\ i \in 0 .. L
        BY <1>1, <2>1
      <4>2. b.names[i] = d.names[i]
        BY <1>2, <2>1 DEF Agree
      <4> QED BY <1>1, <1>3, <4>1, <4>2
    <3>2. \A k \in 1 .. T : b.text[k] = d.text[k]
      BY <1>2 DEF Agree
    <3>3. b.text[e[i - 1] + 1] = "/"
      <4>1. e[i - 1] \in Nat /\ e[i] \in Nat /\ Len(d.names[i]) \in Nat
            /\ e[i] = e[i - 1] + 1 + Len(d.names[i]) /\ e[i] <= T
        BY <1>1, <1>5, <2>1, <3>1
      <4>2. e[i - 1] + 1 \in 1 .. T
        BY <1>1, <4>1, PlaceWithin
      <4> QED BY <1>5, <2>1, <3>2, <4>2
    <3>4. ASSUME NEW k \in 1 .. Len(d.names[i])
          PROVE  b.text[e[i - 1] + 1 + k] = d.names[i][k]
      <4>1. e[i - 1] + 1 + k \in 1 .. T
        <5>1. e[i - 1] \in Nat /\ e[i] \in Nat /\ Len(d.names[i]) \in Nat
              /\ e[i] = e[i - 1] + 1 + Len(d.names[i]) /\ e[i] <= T
          BY <1>1, <1>5, <2>1, <3>1
        <5> QED BY <1>1, <3>4, <5>1, PlaceWithin
      <4> QED BY <1>5, <2>1, <3>2, <4>1
    <3>5. f[i] = f[i - 1] + 1 + Len(b.names[i]) /\ b.text[f[i - 1] + 1] = "/"
      BY <1>5, <2>1, <3>1, <3>3
    <3>6. f[i] <= Len(b.text)
      <4>1. PICK z \in Nat, y \in Nat : z = e[i] /\ y = Len(n)
        BY <1>1, <2>1
      <4>2. z <= T /\ Len(b.text) = T + 1 + y /\ f[i] = z
        BY <1>2, <1>5, <2>1, <3>1, <4>1
      <4>3. z <= T + 1 + y
        BY <1>1, <4>1, <4>2
      <4> QED BY <4>2, <4>3
    <3>7. \A k \in 1 .. Len(b.names[i]) : b.text[f[i - 1] + 1 + k] = b.names[i][k]
      BY <3>1, <3>4
    <3> QED BY <3>5, <3>6, <3>7
  <2>2. CASE i = L + 1
    <3>1. i - 1 = L /\ f[i - 1] = T
      BY <1>1, <1>3, <1>4, <2>2
    <3>2. b.names[i] = n /\ f[i] = T + 1 + Len(n)
      BY <1>2, <1>3, <2>2
    <3>3. f[i] = f[i - 1] + 1 + Len(b.names[i]) /\ f[i] <= Len(b.text) /\ b.text[f[i - 1] + 1] = "/"
      BY <1>1, <1>2, <3>1, <3>2
    <3> QED BY <1>2, <3>1, <3>2, <3>3
  <2> QED BY <1>1, <2>1, <2>2
<1>8. ASSUME NEW p \in 1 .. Len(b.text)
      PROVE  \E i \in 1 .. L + 1 : f[i - 1] < p /\ p <= f[i]
  <2>1. CASE p \in 1 .. T
    <3>1. PICK i \in 1 .. L : e[i - 1] < p /\ p <= e[i]
      BY <1>6, <2>1
    <3>2. f[i] = e[i] /\ f[i - 1] = e[i - 1] /\ i \in 1 .. L + 1
      BY <1>1, <1>3
    <3> QED BY <3>1, <3>2
  <2>2. CASE p > T
    <3>1. PICK i \in 1 .. L + 1 : i = L + 1
      BY <1>1
    <3>2. i - 1 = L
      BY <1>1, <3>1
    <3>3. f[i - 1] = T /\ f[i] = T + 1 + Len(n)
      BY <1>1, <1>3, <1>4, <3>1, <3>2
    <3>4. f[i - 1] < p /\ p <= f[i]
      BY <1>2, <1>8, <2>2, <3>3
    <3> QED BY <3>4
  <2> QED BY <1>1, <1>2, <1>8, <2>1, <2>2
<1>9. f[0] = 0 /\ f[L + 1] = Len(b.text)
  BY <1>1, <1>2, <1>3, <1>4
<1>10. Spelled(b, f)
  BY <1>2, <1>3, <1>7, <1>8, <1>9 DEF Spelled
<1> QED BY <1>3, <1>10 DEF L, T, b, f

(* Two directories whose texts agree up to the end of a name of each have  *)
(* the same names up to there, and the other way around.                   *)
Pair(a, ea, b, eb) ==
  \A i \in 0 .. Len(a.names), j \in 0 .. Len(b.names) :
    /\ ea[i] = eb[j] /\ Agree(a.text, b.text, ea[i]) => i = j /\ Agree(a.names, b.names, i)
    /\ i = j /\ Agree(a.names, b.names, i) => ea[i] = eb[i] /\ Agree(a.text, b.text, ea[i])

(* The relation does not tell the two directories apart.                   *)
LEMMA PairTurned ==
  ASSUME NEW a, NEW ea, NEW b, NEW eb, Pair(a, ea, b, eb)
  PROVE  Pair(b, eb, a, ea)
<1>1. \A s, t, n : Agree(s, t, n) <=> Agree(t, s, n)
  BY DEF Agree
<1>2. ASSUME NEW j \in 0 .. Len(b.names), NEW i \in 0 .. Len(a.names)
      PROVE  /\ eb[j] = ea[i] /\ Agree(b.text, a.text, eb[j]) => j = i /\ Agree(b.names, a.names, j)
             /\ j = i /\ Agree(b.names, a.names, j) => eb[j] = ea[j] /\ Agree(b.text, a.text, eb[j])
  BY <1>1 DEF Pair
<1> QED BY <1>2 DEF Pair

(* A place is in the text above, the slash, or in the new name.            *)
LEMMA SplitPosition ==
  ASSUME NEW T \in Nat, NEW N \in Nat, NEW k \in 1 .. T + 1 + N
  PROVE  k \in 1 .. T \/ k = T + 1 \/ \E q \in 1 .. N : k = T + 1 + q
<1>1. CASE k > T + 1
  <2>1. k - (T + 1) \in 1 .. N /\ k = T + 1 + (k - (T + 1))
    BY <1>1
  <2> QED BY <2>1
<1> QED BY <1>1

(* A name and its slash take room.                                         *)
LEMMA RoomForName ==
  ASSUME NEW x \in Nat, NEW y \in Nat, NEW w \in Nat, x + 1 + y <= w
  PROVE  x < w
  OBVIOUS

(* Where names end are places of the text.                                 *)
LEMMA SpelledTypes ==
  ASSUME NEW d \in Dirs, NEW e, Spelled(d, e)
  PROVE  /\ Len(d.names) \in Nat /\ Len(d.text) \in Nat
         /\ \A i \in 0 .. Len(d.names) : e[i] \in Nat /\ e[i] <= Len(d.text)
         /\ \A i \in 1 .. Len(d.names) :
              d.names[i] \in Names /\ i - 1 \in 0 .. Len(d.names) /\ e[i - 1] \in Nat
<1>1. Len(d.names) \in Nat /\ Len(d.text) \in Nat
  BY DEF Dirs, Texts
<1>2. \A i \in 0 .. Len(d.names) : e[i] \in Nat
  BY DEF Spelled
<1>3. ASSUME NEW i \in 0 .. Len(d.names)
      PROVE  e[i] <= Len(d.text)
  <2>1. CASE i = 0
    BY <1>1, <2>1 DEF Spelled
  <2>2. CASE i # 0
    <3>1. i \in 1 .. Len(d.names)
      BY <1>1, <1>3, <2>2
    <3> QED BY <3>1 DEF Spelled
  <2> QED BY <2>1, <2>2
<1>4. ASSUME NEW i \in 1 .. Len(d.names)
      PROVE  d.names[i] \in Names /\ i - 1 \in 0 .. Len(d.names)
  BY <1>1, <1>4, ElementOfSeq DEF Dirs
<1> QED BY <1>1, <1>2, <1>3, <1>4

(* The slash before the last name is at one place, if it is to be the only *)
(* one from there on; then the names, too, are one.                        *)
NameAt(s, x, n) == s[x + 1] = "/" /\ \A k \in 1 .. Len(n) : s[x + 1 + k] = n[k]
LEMMA LastName ==
  ASSUME NEW s, NEW t, NEW m \in Names, NEW n \in Names, NEW x \in Nat, NEW y \in Nat,
         NameAt(s, x, m), NameAt(t, y, n),
         x + 1 + Len(m) = y + 1 + Len(n), Agree(s, t, y + 1 + Len(n))
  PROVE  x = y /\ m = n
<1> DEFINE M == Len(m)
           N == Len(n)
<1>1. /\ M \in Nat \ {0} /\ \A k \in 1 .. M : m[k] # "/"
      /\ N \in Nat \ {0} /\ \A k \in 1 .. N : n[k] # "/"
  BY NameText
<1>2. \A k \in 1 .. y + 1 + N : s[k] = t[k]
  BY DEF Agree
<1>3. x + 1 + M = y + 1 + N
  OBVIOUS
<1>4. /\ s[x + 1] = "/" /\ \A k \in 1 .. M : s[x + 1 + k] = m[k]
      /\ t[y + 1] = "/" /\ \A k \in 1 .. N : t[y + 1 + k] = n[k]
  BY DEF NameAt
<1>5. m \in Seq(Chars) /\ n \in Seq(Chars)
  BY NameText DEF Texts
<1>h. M = Len(m) /\ N = Len(n)
  OBVIOUS
<1> HIDE DEF M, N
<1>6. ~ x < y
  <2> SUFFICES ASSUME x < y PROVE FALSE
    OBVIOUS
  <2>1. y - x \in 1 .. M /\ x + 1 + (y - x) = y + 1 /\ y + 1 \in 1 .. y + 1 + N
    BY <1>1, <1>3
  <2>2. s[y + 1] = m[y - x]
    BY <1>4, <2>1
  <2> QED BY <1>1, <1>2, <1>4, <2>1, <2>2
<1>7. ~ y < x
  <2> SUFFICES ASSUME y < x PROVE FALSE
    OBVIOUS
  <2>1. x - y \in 1 .. N /\ y + 1 + (x - y) = x + 1 /\ x + 1 \in 1 .. y + 1 + N
    BY <1>1, <1>3
  <2>2. t[x + 1] = n[x - y]
    BY <1>4, <2>1
  <2> QED BY <1>1, <1>2, <1>4, <2>1, <2>2
<1>8. x = y /\ M = N
  BY <1>1, <1>3, <1>6, <1>7
<1>9. ASSUME NEW k \in 1 .. M
      PROVE  m[k] = n[k]
  <2>1. y + 1 + k \in 1 .. y + 1 + N
    BY <1>1, <1>8, <1>9
  <2> QED BY <1>2, <1>4, <1>8, <2>1
<1>10. m = n
  BY <1>5, <1>8, <1>9, <1>h, SeqEqual
<1> QED BY <1>8, <1>10

(* One name further down keeps two directories so: where the new name ends *)
(* the other's name is the same or its text is not.                        *)
LEMMA PairGrows ==
  ASSUME NEW a \in Dirs, NEW ea, Spelled(a, ea), NEW b \in Dirs, NEW eb, Spelled(b, eb),
         Pair(a, ea, b, eb), NEW n \in Names
  PROVE  Pair(a, ea, Below(b, n), Further(b, eb, n))
<1> DEFINE c == Below(b, n)
           f == Further(b, eb, n)
           A == Len(a.names)
           L == Len(b.names)
           T == Len(b.text)
           N == Len(n)
<1>1. /\ A \in Nat /\ L \in Nat /\ T \in Nat /\ N \in Nat
      /\ \A i \in 0 .. A : ea[i] \in Nat
      /\ \A j \in 0 .. L : eb[j] \in Nat /\ eb[j] <= T
  BY SpelledTypes, NameText
<1>2. /\ Len(c.names) = L + 1 /\ c.names[L + 1] = n /\ c.text[T + 1] = "/"
      /\ \A k \in 1 .. L : c.names[k] = b.names[k]
      /\ \A k \in 1 .. T : c.text[k] = b.text[k]
      /\ \A k \in 1 .. N : c.text[T + 1 + k] = n[k]
  BY BelowByPosition DEF Agree
<1>3. (\A j \in 0 .. L : f[j] = eb[j]) /\ f[L + 1] = T + 1 + N
  BY SpelledFurther
<1>4. /\ ea[0] = 0 /\ eb[L] = T
      /\ \A i \in 1 .. A :
           /\ a.names[i] \in Names /\ i - 1 \in 0 .. A /\ ea[i - 1] \in Nat
           /\ ea[i] = ea[i - 1] + 1 + Len(a.names[i])
           /\ a.text[ea[i - 1] + 1] = "/"
           /\ \A k \in 1 .. Len(a.names[i]) : a.text[ea[i - 1] + 1 + k] = a.names[i][k]
  BY SpelledTypes DEF Spelled
<1>5. \A i \in 0 .. A, j \in 0 .. L :
        /\ ea[i] = eb[j] /\ Agree(a.text, b.text, ea[i]) => i = j /\ Agree(a.names, b.names, i)
        /\ i = j /\ Agree(a.names, b.names, i) => ea[i] = eb[i] /\ Agree(a.text, b.text, ea[i])
  BY DEF Pair
<1>6. SUFFICES ASSUME NEW i \in 0 .. A, NEW j \in 0 .. L + 1
               PROVE  /\ ea[i] = f[j] /\ Agree(a.text, c.text, ea[i]) => i = j /\ Agree(a.names, c.names, i)
                      /\ i = j /\ Agree(a.names, c.names, i) => ea[i] = f[i] /\ Agree(a.text, c.text, ea[i])
  BY <1>2 DEF Pair
<1>h. N = Len(n)
  OBVIOUS
<1> HIDE DEF c, f, A, L, T, N
<1>7. CASE j \in 0 .. L
  <2>1. f[j] = eb[j] /\ eb[j] \in Nat /\ eb[j] <= T /\ ea[i] \in Nat
    BY <1>1, <1>3, <1>6, <1>7
  <2>2. ASSUME ea[i] = eb[j]
        PROVE  Agree(a.text, c.text, ea[i]) <=> Agree(a.text, b.text, ea[i])
    <3>1. \A k \in 1 .. ea[i] : k \in 1 .. T
      BY <1>1, <2>1, <2>2
    <3>2. \A k \in 1 .. ea[i] : c.text[k] = b.text[k]
      BY <1>2, <3>1
    <3> QED BY <3>2 DEF Agree
  <2>3. ASSUME i = j
        PROVE  Agree(a.names, c.names, i) <=> Agree(a.names, b.names, i)
    <3>1. \A k \in 1 .. i : k \in 1 .. L
      BY <1>1, <1>7, <2>3
    <3>2. \A k \in 1 .. i : c.names[k] = b.names[k]
      BY <1>2, <3>1
    <3> QED BY <3>2 DEF Agree
  <2> QED BY <1>5, <1>6, <1>7, <2>1, <2>2, <2>3
<1>8. CASE j = L + 1
  <2>1. ASSUME ea[i] = T + 1 + N, Agree(a.text, c.text, ea[i])
        PROVE  i = j /\ Agree(a.names, c.names, i)
    <3>1. i \in 1 .. A
      BY <1>1, <1>4, <1>6, <2>1
    <3>2. PICK x \in Nat, m \in Names : x = ea[i - 1] /\ m = a.names[i]
      BY <1>4, <3>1
    <3>3. /\ x + 1 + Len(m) = T + 1 + Len(n) /\ Agree(a.text, c.text, T + 1 + Len(n))
          /\ a.text[x + 1] = "/" /\ \A k \in 1 .. Len(m) : a.text[x + 1 + k] = m[k]
          /\ c.text[T + 1] = "/" /\ \A k \in 1 .. Len(n) : c.text[T + 1 + k] = n[k]
      BY <1>2, <1>4, <1>h, <2>1, <3>1, <3>2
    <3>4. x = T /\ m = n
      <4>1. PICK y \in Nat : y = T
        BY <1>1
      <4>2. /\ NameAt(a.text, x, m) /\ NameAt(c.text, y, n)
            /\ x + 1 + Len(m) = y + 1 + Len(n) /\ Agree(a.text, c.text, y + 1 + Len(n))
        BY <3>3, <4>1 DEF NameAt
      <4>3. x = y /\ m = n
        BY <4>2, LastName
      <4> QED BY <4>1, <4>3
    <3>5. ea[i - 1] = eb[L] /\ i - 1 \in 0 .. A /\ L \in 0 .. L
      BY <1>1, <1>4, <3>1, <3>2, <3>4
    <3>6. Agree(a.text, b.text, ea[i - 1])
      <4>1. \A k \in 1 .. T : a.text[k] = c.text[k]
        BY <1>1, <2>1 DEF Agree
      <4>2. Agree(a.text, b.text, T)
        BY <1>2, <4>1 DEF Agree
      <4> QED BY <3>2, <3>4, <4>2
    <3>7. i - 1 = L /\ Agree(a.names, b.names, i - 1)
      BY <1>5, <3>5, <3>6
    <3>8. i = L + 1
      BY <1>1, <3>1, <3>7
    <3>9. ASSUME NEW k \in 1 .. i
          PROVE  a.names[k] = c.names[k]
      <4>1. k \in 1 .. L \/ k = L + 1
        BY <1>1, <3>8, <3>9
      <4>2. CASE k \in 1 .. L
        BY <1>2, <3>7, <4>2 DEF Agree
      <4>3. CASE k = L + 1
        BY <1>2, <3>2, <3>4, <3>8, <4>3
      <4> QED BY <4>1, <4>2, <4>3
    <3> QED BY <1>8, <3>8, <3>9 DEF Agree
  <2>2. ASSUME i = L + 1, Agree(a.names, c.names, i)
        PROVE  ea[i] = T + 1 + N /\ Agree(a.text, c.text, ea[i])
    <3>1. i \in 1 .. A /\ L \in 0 .. A /\ L \in 0 .. L /\ i - 1 = L
      BY <1>1, <1>6, <2>2
    <3>2. a.names[i] = n /\ Agree(a.names, b.names, L)
      BY <1>1, <1>2, <2>2 DEF Agree
    <3>3. ea[L] = T /\ Agree(a.text, b.text, T)
      BY <1>4, <1>5, <3>1, <3>2
    <3>4. /\ ea[i] = T + 1 + N /\ a.text[T + 1] = "/"
          /\ \A k \in 1 .. N : a.text[T + 1 + k] = n[k]
      BY <1>4, <1>h, <3>1, <3>2, <3>3
    <3>5. ASSUME NEW k \in 1 .. T + 1 + N
          PROVE  a.text[k] = c.text[k]
      <4>1. k \in 1 .. T \/ k = T + 1 \/ \E q \in 1 .. N : k = T + 1 + q
        BY <1>1, SplitPosition
      <4>2. CASE k \in 1 .. T
        BY <1>2, <3>3, <4>2 DEF Agree
      <4>3. CASE k = T + 1
        BY <1>2, <3>4, <4>3
      <4>4. CASE \E q \in 1 .. N : k = T + 1 + q
        BY <1>2, <3>4, <4>4
      <4> QED BY <4>1, <4>2, <4>3, <4>4
    <3> QED BY <3>4, <3>5 DEF Agree
  <2>3. f[j] = T + 1 + N
    BY <1>3, <1>8
  <2> QED BY <1>8, <2>1, <2>2, <2>3
<1> QED BY <1>1, <1>6, <1>7, <1>8

-----------------------------------------------------------------------------
(* The walk keeps the two directories so.                                  *)
WalkInv ==
  /\ approved \in Dirs /\ asked \in Dirs
  /\ \E ea, eb : Spelled(approved, ea) /\ Spelled(asked, eb) /\ Pair(approved, ea, asked, eb)

(* At the root there is nothing to compare.                                *)
LEMMA WalkBegins == Init => WalkInv
<1> SUFFICES ASSUME Init PROVE WalkInv
  OBVIOUS
<1> DEFINE e == [i \in 0 .. 0 |-> 0]
<1>1. /\ Root \in Dirs /\ Root.names = <<>> /\ Root.text = <<>>
      /\ Len(Root.names) = 0 /\ Len(Root.text) = 0
  BY DEF Root, Dirs, Texts
<1>2. e[0] = 0 /\ e \in [0 .. 0 -> Nat]
  OBVIOUS
<1> HIDE DEF e
<1>3. Spelled(Root, e)
  BY <1>1, <1>2 DEF Spelled
<1>4. \A i, j \in 0 .. 0 : i = 0 /\ j = 0
  OBVIOUS
<1>5. Pair(Root, e, Root, e)
  BY <1>1, <1>2, <1>4 DEF Pair, Agree
<1> QED BY <1>1, <1>3, <1>5 DEF Init, WalkInv

(* Every step of the walk appends a name to one of the two.                *)
LEMMA WalkGoesOn == WalkInv /\ [Next]_vars => WalkInv'
<1> SUFFICES ASSUME WalkInv, [Next]_vars PROVE WalkInv'
  OBVIOUS
<1>1. PICK a \in Dirs, b \in Dirs : a = approved /\ b = asked
  BY DEF WalkInv
<1>2. PICK ea, eb : Spelled(a, ea) /\ Spelled(b, eb) /\ Pair(a, ea, b, eb)
  BY <1>1 DEF WalkInv
<1>3. ASSUME NEW n \in Names, approved' = Below(a, n), asked' = b
      PROVE  WalkInv'
  <2>1. Pair(b, eb, Below(a, n), Further(a, ea, n))
    BY <1>2, PairTurned, PairGrows
  <2>2. Pair(Below(a, n), Further(a, ea, n), b, eb)
    BY <2>1, PairTurned
  <2>3. Spelled(Below(a, n), Further(a, ea, n)) /\ Below(a, n) \in Dirs
    BY <1>2, SpelledFurther, BelowByPosition
  <2> QED BY <1>2, <1>3, <2>2, <2>3 DEF WalkInv
<1>4. ASSUME NEW n \in Names, approved' = a, asked' = Below(b, n)
      PROVE  WalkInv'
  <2>1. Pair(a, ea, Below(b, n), Further(b, eb, n))
    BY <1>2, PairGrows
  <2>2. Spelled(Below(b, n), Further(b, eb, n)) /\ Below(b, n) \in Dirs
    BY <1>2, SpelledFurther, BelowByPosition
  <2> QED BY <1>2, <1>4, <2>1, <2>2 DEF WalkInv
<1>5. CASE UNCHANGED vars
  BY <1>5 DEF vars, WalkInv
<1> QED BY <1>1, <1>3, <1>4, <1>5 DEF Next

-----------------------------------------------------------------------------
(* What the text of one directory says of it, and the texts of two.        *)

(* A slash in the text of a directory follows the end of a name, or begins *)
(* the text, and a name follows it.                                        *)
LEMMA SlashEndsName ==
  ASSUME NEW d \in Dirs, NEW e, Spelled(d, e), NEW p \in 1 .. Len(d.text), d.text[p] = "/"
  PROVE  /\ \E i \in 0 .. Len(d.names) : e[i] + 1 = p
         /\ p + 1 \in 1 .. Len(d.text) /\ d.text[p + 1] # "/"
<1>1. PICK i \in 1 .. Len(d.names) : e[i - 1] < p /\ p <= e[i]
  BY DEF Spelled
<1>2. PICK x \in Nat, n \in Names : x = e[i - 1] /\ n = d.names[i]
  BY SpelledTypes
<1>3. /\ e[i] = x + 1 + Len(n) /\ e[i] <= Len(d.text)
      /\ \A k \in 1 .. Len(n) : d.text[x + 1 + k] = n[k]
  BY <1>2 DEF Spelled
<1>4. /\ Len(n) \in Nat \ {0} /\ \A k \in 1 .. Len(n) : n[k] # "/"
      /\ Len(d.text) \in Nat
  BY NameText, SpelledTypes
<1>5. p = x + 1
  <2>1. SUFFICES ASSUME p # x + 1 PROVE FALSE
    OBVIOUS
  <2>2. PICK N \in Nat : N = Len(n)
    BY <1>4
  <2>3. p \in Nat /\ x < p /\ p <= x + 1 + N
    BY <1>1, <1>2, <1>3, <2>2
  <2>4. p \in 1 .. x + 1 + N /\ ~ p \in 1 .. x
    BY <2>2, <2>3
  <2>5. PICK q \in 1 .. N : p = x + 1 + q
    BY <2>1, <2>2, <2>4, SplitPosition
  <2> QED BY <1>3, <1>4, <2>2, <2>5
<1>6. p + 1 \in 1 .. Len(d.text) /\ 1 \in 1 .. Len(n) /\ x + 1 + 1 = p + 1
  BY <1>3, <1>4, <1>5
<1>7. d.text[p + 1] = n[1]
  BY <1>3, <1>6
<1>8. i - 1 \in 0 .. Len(d.names)
  BY SpelledTypes
<1> QED BY <1>2, <1>4, <1>5, <1>6, <1>7, <1>8

(* Only the root has an empty text.                                        *)
LEMMA RootText ==
  ASSUME NEW d \in Dirs, NEW e, Spelled(d, e)
  PROVE  /\ d = Root => d.names = <<>> /\ d.text = <<>>
         /\ d # Root => Len(d.text) \in Nat /\ Len(d.text) >= 2 /\ d.text[1] = "/"
<1>1. d = Root => d.names = <<>> /\ d.text = <<>>
  BY DEF Root
<1>2. ASSUME d # Root
      PROVE  Len(d.text) >= 2 /\ d.text[1] = "/"
  <2>1. d.names \in Seq(Names) /\ d.text \in Seq(Chars) /\ d = [names |-> d.names, text |-> d.text]
    BY DEF Dirs, Texts
  <2>2. Len(d.names) # 0
    <3>1. SUFFICES ASSUME Len(d.names) = 0 PROVE FALSE
      OBVIOUS
    <3>2. Len(d.text) = 0
      BY <3>1 DEF Spelled
    <3>3. d.names = <<>> /\ d.text = <<>>
      BY <2>1, <3>1, <3>2, EmptySeq
    <3> QED BY <1>2, <2>1, <3>3 DEF Root
  <2>3. 1 \in 1 .. Len(d.names) /\ 1 - 1 = 0
    BY <2>1, <2>2
  <2>4. /\ e[1] = e[0] + 1 + Len(d.names[1]) /\ e[1] <= Len(d.text) /\ d.text[e[0] + 1] = "/" /\ e[0] = 0
        /\ d.names[1] \in Names
    BY <2>3, SpelledTypes DEF Spelled
  <2> QED BY <2>4, NameText, SpelledTypes
<1> QED BY <1>1, <1>2, SpelledTypes

(* The names of a directory begin with another's just when its text is the *)
(* other's or goes on from it with a slash.                                *)
NamesWithin(sub, dir) == IsPrefix(dir.names, sub.names)
LEMMA Subtree ==
  ASSUME NEW a \in Dirs, NEW ea, Spelled(a, ea), NEW b \in Dirs, NEW eb, Spelled(b, eb),
         Pair(a, ea, b, eb)
  PROVE  NamesWithin(b, a) <=> b.text = a.text \/ Continues(a.text, b.text)
<1> DEFINE A == Len(a.names)
           B == Len(b.names)
<1>1. /\ A \in Nat /\ B \in Nat /\ Len(a.text) \in Nat /\ Len(b.text) \in Nat
      /\ ea[A] = Len(a.text) /\ eb[B] = Len(b.text)
      /\ a.text \in Seq(Chars) /\ b.text \in Seq(Chars)
  BY SpelledTypes DEF Spelled, Dirs, Texts
<1>2. NamesWithin(b, a) <=> A <= B /\ Agree(a.names, b.names, A)
  BY PrefixByPosition DEF NamesWithin, Dirs
<1>3. \A i \in 0 .. A, j \in 0 .. B :
        /\ ea[i] = eb[j] /\ Agree(a.text, b.text, ea[i]) => i = j /\ Agree(a.names, b.names, i)
        /\ i = j /\ Agree(a.names, b.names, i) => ea[i] = eb[i] /\ Agree(a.text, b.text, ea[i])
  BY DEF Pair
<1>4. ASSUME NEW j \in 0 .. B, Len(a.text) = eb[j], Agree(a.text, b.text, Len(a.text))
      PROVE  NamesWithin(b, a)
  <2>1. A \in 0 .. A
    BY <1>1
  <2>2. A = j /\ Agree(a.names, b.names, A)
    BY <1>1, <1>3, <1>4, <2>1
  <2> QED BY <1>1, <1>2, <1>4, <2>2
<1>5. ASSUME b.text = a.text
      PROVE  NamesWithin(b, a)
  <2>1. B \in 0 .. B /\ Len(a.text) = eb[B] /\ Agree(a.text, b.text, Len(a.text))
    BY <1>1, <1>5 DEF Agree
  <2> QED BY <1>4, <2>1
<1>6. ASSUME Continues(a.text, b.text)
      PROVE  NamesWithin(b, a)
  <2>1. /\ Len(a.text) + 1 \in 1 .. Len(b.text) /\ b.text[Len(a.text) + 1] = "/"
        /\ Agree(a.text, b.text, Len(a.text))
    BY <1>1, <1>6 DEF Continues
  <2>2. PICK j \in 0 .. B : eb[j] + 1 = Len(a.text) + 1
    BY <2>1, SlashEndsName
  <2>3. eb[j] = Len(a.text)
    BY <1>1, <2>2, SpelledTypes
  <2> QED BY <1>4, <2>1, <2>3
<1>7. ASSUME NamesWithin(b, a)
      PROVE  b.text = a.text \/ Continues(a.text, b.text)
  <2>1. A \in 0 .. A /\ A \in 0 .. B /\ Agree(a.names, b.names, A)
    BY <1>1, <1>2, <1>7
  <2>2. eb[A] = Len(a.text) /\ Agree(a.text, b.text, Len(a.text))
    BY <1>1, <1>3, <2>1
  <2>3. CASE A = B
    <3>1. Len(b.text) = Len(a.text)
      BY <1>1, <2>2, <2>3
    <3>2. \A k \in 1 .. Len(a.text) : a.text[k] = b.text[k]
      BY <2>2 DEF Agree
    <3> QED BY <1>1, <3>1, <3>2, SeqEqual
  <2>4. CASE A < B
    <3>1. A + 1 \in 1 .. B /\ (A + 1) - 1 = A
      BY <1>1, <2>4
    <3>2. /\ eb[A + 1] = eb[A] + 1 + Len(b.names[A + 1]) /\ eb[A + 1] <= Len(b.text)
          /\ b.text[eb[A] + 1] = "/" /\ b.names[A + 1] \in Names
      BY <3>1, SpelledTypes DEF Spelled
    <3>3. Len(b.names[A + 1]) \in Nat
      BY <3>2, NameText
    <3>4. Len(a.text) < Len(b.text)
      <4>1. PICK x \in Nat, y \in Nat, z \in Nat : x = eb[A] /\ y = Len(b.names[A + 1]) /\ z = eb[A + 1]
        <5>1. eb[A] \in Nat
          BY <1>1, <2>2
        <5>2. A + 1 \in 0 .. B
          BY <1>1, <3>1
        <5>3. eb[A + 1] \in Nat
          BY <5>2, SpelledTypes
        <5> QED BY <3>3, <5>1, <5>3
      <4>2. z = x + 1 + y /\ z <= Len(b.text) /\ x = Len(a.text)
        BY <2>2, <3>2, <4>1
      <4>3. PICK w \in Nat : w = Len(b.text)
        BY <1>1
      <4>4. x < w
        <5>1. x + 1 + y <= w
          BY <4>2, <4>3
        <5> QED BY <5>1, RoomForName
      <4> QED BY <4>2, <4>3, <4>4
    <3> QED BY <2>2, <3>2, <3>4 DEF Continues
  <2> QED BY <1>1, <2>1, <2>3, <2>4
<1> QED BY <1>5, <1>6, <1>7

(* The text of a directory begins with a slash and no two slashes meet in  *)
(* it; but for the root's it does not end with one.                        *)
NoTwoSlashes(s) == \A p \in 1 .. Len(s) : s[p] = "/" /\ p + 1 \in 1 .. Len(s) => s[p + 1] # "/"
LEMMA SpellingFacts ==
  ASSUME NEW d \in Dirs, NEW e, Spelled(d, e)
  PROVE  /\ Spelling(d) \in Texts /\ Len(Spelling(d)) \in Nat
         /\ Spelling(d)[1] = "/" /\ NoTwoSlashes(Spelling(d))
         /\ d = Root => Spelling(d) = <<"/">> /\ Len(Spelling(d)) = 1
         /\ d # Root => /\ Spelling(d) = d.text /\ Len(Spelling(d)) >= 2
                        /\ Spelling(d)[Len(Spelling(d))] # "/"
<1>1. CASE d = Root
  <2>1. Spelling(d) = <<"/">> /\ <<"/">> \in Texts
    BY <1>1, PatternAssumption DEF Spelling, Texts
  <2>2. Len(<<"/">>) = 1 /\ <<"/">>[1] = "/"
    OBVIOUS
  <2>3. NoTwoSlashes(<<"/">>)
    BY <2>2 DEF NoTwoSlashes
  <2> QED BY <1>1, <2>1, <2>2, <2>3
<1>2. CASE d # Root
  <2>1. Spelling(d) = d.text /\ d.text \in Texts
    BY <1>2 DEF Spelling, Dirs
  <2>2. Len(d.text) \in Nat /\ Len(d.text) >= 2 /\ d.text[1] = "/"
    BY <1>2, RootText
  <2>3. NoTwoSlashes(d.text)
    BY SlashEndsName DEF NoTwoSlashes
  <2>4. d.text[Len(d.text)] # "/"
    <3>1. SUFFICES ASSUME d.text[Len(d.text)] = "/" PROVE FALSE
      OBVIOUS
    <3>2. Len(d.text) \in 1 .. Len(d.text)
      BY <2>2
    <3>3. Len(d.text) + 1 \in 1 .. Len(d.text)
      BY <3>1, <3>2, SlashEndsName
    <3> QED BY <2>2, <3>3
  <2> QED BY <1>2, <2>1, <2>2, <2>3, <2>4
<1> QED BY <1>1, <1>2

(* A text with a slash at its end.                                         *)
LEMMA Slashed ==
  ASSUME NEW s \in Texts
  PROVE  /\ s \o <<"/">> \in Texts /\ Len(s) \in Nat /\ Len(s \o <<"/">>) = Len(s) + 1
         /\ Agree(s \o <<"/">>, s, Len(s)) /\ (s \o <<"/">>)[Len(s) + 1] = "/"
<1> DEFINE slash == <<"/">>
<1>1. slash \in Seq(Chars) /\ Len(slash) = 1 /\ slash[1] = "/" /\ s \in Seq(Chars) /\ Len(s) \in Nat
  BY PatternAssumption DEF Texts
<1> HIDE DEF slash
<1>2. /\ s \o slash \in Seq(Chars) /\ Len(s \o slash) = Len(s) + Len(slash)
      /\ \A k \in 1 .. Len(s) + Len(slash) : (s \o slash)[k] = IF k <= Len(s) THEN s[k] ELSE slash[k - Len(s)]
  BY <1>1, ConcatProperties
<1>3. /\ s \o slash \in Texts /\ Len(s) \in Nat /\ Len(s \o slash) = Len(s) + 1
      /\ Agree(s \o slash, s, Len(s)) /\ (s \o slash)[Len(s) + 1] = "/"
  BY <1>1, <1>2 DEF Agree, Texts
<1> QED BY <1>3 DEF slash

-----------------------------------------------------------------------------
(* For any names and any depth: along the walk names and texts of the two  *)
(* directories correspond, so that what matchPattern reads off the texts   *)
(* is about the directories.                                               *)
THEOREM WalkInvariant == Spec => []WalkInv
<1>1. WalkInv /\ [Next]_vars => WalkInv'
  BY WalkGoesOn
<1> QED BY <1>1, WalkBegins, PTL DEF Spec

(* The pattern made for one directory covers another just when the names   *)
(* of that one begin with its names.                                       *)
LEMMA Coverage ==
  ASSUME NEW a \in Dirs, NEW ea, Spelled(a, ea), NEW b \in Dirs, NEW eb, Spelled(b, eb),
         Pair(a, ea, b, eb)
  PROVE  MatchPattern(AskPattern(Spelling(a)), Spelling(b))
           <=> IF a = Root THEN b = Root ELSE NamesWithin(b, a)
<1>0. PICK s, t : s = Spelling(a) /\ t = Spelling(b)
  OBVIOUS
<1>1. /\ s \in Texts /\ Len(s) \in Nat /\ s[1] = "/"
      /\ a = Root => Len(s) = 1
      /\ a # Root => s = a.text /\ Len(s) >= 2
  BY <1>0, SpellingFacts
<1>2. /\ t \in Texts /\ Len(t) \in Nat /\ t[1] = "/" /\ NoTwoSlashes(t)
      /\ b = Root => Len(t) = 1
      /\ b # Root => t = b.text /\ Len(t) >= 2
  BY <1>0, SpellingFacts
<1>3. MatchPattern(AskPattern(s), t) <=> t = s \/ Continues(s, t)
  BY <1>1, <1>2, AskCovers
<1>4. CASE a = Root
  <2>1. ~ Continues(s, t)
    <3>1. SUFFICES ASSUME Continues(s, t) PROVE FALSE
      OBVIOUS
    <3>2. Len(t) > 1 /\ t[2] = "/"
      <4>1. Len(s) = 1
        BY <1>1, <1>4
      <4>2. Len(s) < Len(t) /\ t[Len(s) + 1] = "/"
        BY <3>1 DEF Continues
      <4> QED BY <1>2, <4>1, <4>2
    <3>3. 1 \in 1 .. Len(t) /\ 1 + 1 \in 1 .. Len(t) /\ 1 + 1 = 2
      BY <1>2, <3>2
    <3> QED BY <1>2, <3>2, <3>3 DEF NoTwoSlashes
  <2>2. t = s <=> b = Root
    <3>1. b = Root => t = s
      BY <1>0, <1>4
    <3>2. ASSUME b # Root
          PROVE  t # s
      <4>1. Len(s) = 1 /\ Len(t) >= 2
        BY <1>1, <1>2, <1>4, <3>2
      <4> QED BY <4>1
    <3> QED BY <3>1, <3>2
  <2> QED BY <1>0, <1>3, <1>4, <2>1, <2>2
<1>5. CASE a # Root /\ b = Root
  <2>1. ~ (t = s \/ Continues(s, t))
    <3>1. Len(s) >= 2 /\ Len(t) = 1
      BY <1>1, <1>2, <1>5
    <3>2. t # s
      BY <3>1
    <3>3. ~ Len(s) < Len(t)
      <4>1. PICK x \in Nat : x = Len(s)
        BY <1>1
      <4> QED BY <3>1, <4>1
    <3> QED BY <3>2, <3>3 DEF Continues
  <2>2. b.text = <<>> /\ Len(b.text) = 0
    BY <1>5, RootText
  <2>3. ~ NamesWithin(b, a)
    BY <1>1, <1>5, <2>2, Subtree DEF Continues
  <2> QED BY <1>0, <1>3, <1>5, <2>1, <2>3
<1>6. CASE a # Root /\ b # Root
  BY <1>0, <1>1, <1>2, <1>3, <1>6, Subtree
<1> QED BY <1>4, <1>5, <1>6

(* A directory written with plain names lies at the place they name.       *)
LeadsTo(dir, place) == Plain(dir) => place = dir.names
PlaceInv == LeadsTo(approved, approvedAt) /\ LeadsTo(asked, askedAt)

(* A plain name further down is one name further down on disk.             *)
LEMMA PlainFurther ==
  ASSUME NEW d \in Dirs, NEW place, LeadsTo(d, place), NEW n \in Names
  PROVE  LeadsTo(Below(d, n), Step(place, n))
<1> DEFINE L == Len(d.names)
           b == Below(d, n)
<1>1. SUFFICES ASSUME Plain(b) PROVE Step(place, n) = b.names
  BY DEF LeadsTo
<1>2. L \in Nat /\ Len(b.names) = L + 1 /\ b.names[L + 1] = n /\ \A k \in 1 .. L : b.names[k] = d.names[k]
  <2>1. /\ Len(Below(d, n).names) = Len(d.names) + 1 /\ Below(d, n).names[Len(d.names) + 1] = n
        /\ Agree(Below(d, n).names, d.names, Len(d.names))
    BY BelowByPosition
  <2>2. d.names \in Seq(Names)
    BY DEF Dirs
  <2> QED BY <2>1, <2>2 DEF Agree
<1>3. \A k \in 1 .. L + 1 : b.names[k] \notin {Dot, DotDot} \cup Links
  BY <1>1, <1>2 DEF Plain
<1>4. b.names = Append(d.names, n)
  BY DEF Below
<1> HIDE DEF b
<1>5. L + 1 \in 1 .. L + 1 /\ \A k \in 1 .. L : k \in 1 .. L + 1
  BY <1>2
<1>6. n \notin {Dot, DotDot} \cup Links
  BY <1>2, <1>3, <1>5
<1>7. Plain(d)
  BY <1>2, <1>3, <1>5 DEF Plain
<1>8. place = d.names
  BY <1>7 DEF LeadsTo
<1>9. Step(place, n) = Append(place, n)
  BY <1>6 DEF Step
<1> QED BY <1>4, <1>8, <1>9

(* Every step of the walk goes to the place the new name leads to.         *)
LEMMA PlacesFollow == Spec => []PlaceInv
<1>1. Init => PlaceInv
  BY DEF Init, PlaceInv, LeadsTo, Root
<1>2. WalkInv /\ PlaceInv /\ [Next]_vars => PlaceInv'
  <2> SUFFICES ASSUME WalkInv, PlaceInv, [Next]_vars PROVE PlaceInv'
    OBVIOUS
  <2>1. approved \in Dirs /\ asked \in Dirs /\ LeadsTo(approved, approvedAt) /\ LeadsTo(asked, askedAt)
    BY DEF WalkInv, PlaceInv
  <2>2. ASSUME NEW n \in Names, approved' = Below(approved, n), approvedAt' = Step(approvedAt, n),
               UNCHANGED <<asked, askedAt>>
        PROVE  PlaceInv'
    <3>1. LeadsTo(Below(approved, n), Step(approvedAt, n))
      BY <2>1, PlainFurther
    <3> QED BY <2>1, <2>2, <3>1 DEF PlaceInv, LeadsTo, Plain
  <2>3. ASSUME NEW n \in Names, asked' = Below(asked, n), askedAt' = Step(askedAt, n),
               UNCHANGED <<approved, approvedAt>>
        PROVE  PlaceInv'
    <3>1. LeadsTo(Below(asked, n), Step(askedAt, n))
      BY <2>1, PlainFurther
    <3> QED BY <2>1, <2>3, <3>1 DEF PlaceInv, LeadsTo, Plain
  <2>4. CASE UNCHANGED vars
    BY <2>1, <2>4 DEF vars, PlaceInv, LeadsTo, Plain
  <2> QED BY <2>2, <2>3, <2>4 DEF Next
<1> QED BY <1>1, <1>2, WalkInvariant, PTL DEF Spec

(* For every depth and every plain name: an approval covers the directory  *)
(* it was given for and all that lies in it, and nothing else; the root's  *)
(* covers the root alone.                                                  *)
THEOREM ApprovalsCoverSubtrees == Spec => []CoversSubtree
<1>1. WalkInv /\ PlaceInv => CoversSubtree
  <2> SUFFICES ASSUME WalkInv, PlaceInv, Plain(approved), Plain(asked)
               PROVE  MatchPattern(AskPattern(Spelling(approved)), Spelling(asked))
                        <=> IF approved = Root THEN asked = Root ELSE Within(askedAt, approvedAt)
    BY DEF CoversSubtree
  <2>1. PICK ea, eb : Spelled(approved, ea) /\ Spelled(asked, eb) /\ Pair(approved, ea, asked, eb)
    BY DEF WalkInv
  <2>2. MatchPattern(AskPattern(Spelling(approved)), Spelling(asked))
          <=> IF approved = Root THEN asked = Root ELSE NamesWithin(asked, approved)
    BY <2>1, Coverage DEF WalkInv
  <2>3. approvedAt = approved.names /\ askedAt = asked.names
    BY DEF PlaceInv, LeadsTo
  <2> QED BY <2>2, <2>3 DEF Within, NamesWithin
<1> QED BY <1>1, WalkInvariant, PlacesFollow, PTL

(* Texts that end with a slash, as an approval or as a request.            *)
NotWiderThan(a, b) ==
  LET ap == Spelling(a) \o <<"/">>
      as == Spelling(b) \o <<"/">>
  IN /\ MatchPattern(AskPattern(ap), as) => NamesWithin(b, a)
     /\ MatchPattern(AskPattern(ap), Spelling(b)) => NamesWithin(b, a)
     /\ MatchPattern(AskPattern(Spelling(a)), as) => NamesWithin(b, a)
     /\ MatchPattern(AskPattern(ap), ap)

(* Where a text without two slashes that meet goes on from another and a   *)
(* slash: the other does not end with one.                                 *)
LEMMA NoSlashBefore ==
  ASSUME NEW s \in Texts, NEW t \in Texts, NoTwoSlashes(t), Continues(s, t),
         NEW x \in Nat, Len(s) = x + 1, s[x + 1] = "/"
  PROVE  FALSE
<1>1. Len(t) \in Nat
  BY DEF Texts
<1>2. x + 1 < Len(t) /\ t[x + 1 + 1] = "/" /\ t[x + 1] = s[x + 1]
  BY DEF Continues, Agree
<1>3. x + 1 \in 1 .. Len(t) /\ x + 1 + 1 \in 1 .. Len(t)
  BY <1>1, <1>2
<1> QED BY <1>2, <1>3 DEF NoTwoSlashes

(* Slashes at the end never make an approval wider: two that meet occur in *)
(* no spelling, and a spelling with one more at its end goes on from no    *)
(* other than the texts of the subtree.                                    *)
LEMMA SlashedTexts ==
  ASSUME NEW a \in Dirs, NEW ea, Spelled(a, ea), NEW b \in Dirs, NEW eb, Spelled(b, eb),
         Pair(a, ea, b, eb)
  PROVE  NotWiderThan(a, b)
<1>0. PICK s, t, sa, tb : s = Spelling(a) /\ t = Spelling(b) /\ sa = s \o <<"/">> /\ tb = t \o <<"/">>
  OBVIOUS
<1>1. PICK x \in Nat, y \in Nat : x = Len(s) /\ y = Len(t)
  BY <1>0, SpellingFacts
<1>2. s \in Texts /\ t \in Texts /\ NoTwoSlashes(t) /\ x >= 1 /\ y >= 1
      /\ (b # Root => t[y] # "/") /\ (b = Root => y = 1)
  <2>1. s \in Texts /\ t \in Texts /\ NoTwoSlashes(t) /\ (b # Root => t[y] # "/")
    BY <1>0, <1>1, SpellingFacts
  <2>2. Len(s) = 1 \/ Len(s) >= 2
    BY <1>0, SpellingFacts
  <2>3. Len(t) = 1 \/ Len(t) >= 2
    BY <1>0, SpellingFacts
  <2>4. b = Root => Len(t) = 1
    BY <1>0, SpellingFacts
  <2> QED BY <1>1, <2>1, <2>2, <2>3, <2>4
<1>3. /\ sa \in Texts /\ Len(sa) = x + 1 /\ Agree(sa, s, x) /\ sa[x + 1] = "/"
      /\ tb \in Texts /\ Len(tb) = y + 1 /\ Agree(tb, t, y) /\ tb[y + 1] = "/"
  BY <1>0, <1>1, <1>2, Slashed
<1>4. ASSUME s = t
      PROVE  NamesWithin(b, a)
  <2>1. MatchPattern(AskPattern(s), t) <=> IF a = Root THEN b = Root ELSE NamesWithin(b, a)
    BY <1>0, Coverage
  <2>2. MatchPattern(AskPattern(s), t)
    BY <1>2, <1>4, AskCovers
  <2>3. a = Root => a.names = <<>> /\ b.names = <<>> /\ IsPrefix(<<>>, <<>>)
    BY <2>1, <2>2 DEF Root, IsPrefix
  <2> QED BY <2>1, <2>2, <2>3 DEF NamesWithin
<1>5. ~ Continues(sa, t)
  BY <1>2, <1>3, NoSlashBefore
<1>6. ASSUME sa = tb
      PROVE  s = t
  <2>1. x = y
    BY <1>3, <1>6
  <2>2. \A k \in 1 .. x : s[k] = t[k]
    BY <1>3, <1>6, <2>1 DEF Agree
  <2> QED BY <1>1, <1>2, <2>1, <2>2, SeqEqual DEF Texts
<1>7. ~ Continues(sa, tb)
  <2>1. SUFFICES ASSUME Continues(sa, tb) PROVE FALSE
    OBVIOUS
  <2>2. x + 1 < y + 1 /\ tb[x + 1 + 1] = "/" /\ tb[x + 1] = "/"
    <3>1. x + 1 \in 1 .. x + 1
      BY <1>2
    <3> QED BY <1>3, <2>1, <3>1 DEF Continues, Agree
  <2>3. t[x + 1] = "/"
    <3>1. x + 1 \in 1 .. y
      BY <2>2
    <3> QED BY <1>3, <2>2, <3>1 DEF Agree
  <2>4. CASE x + 1 = y
    BY <1>2, <2>2, <2>3, <2>4
  <2>5. CASE x + 1 # y
    <3>1. x + 1 + 1 \in 1 .. y /\ x + 1 \in 1 .. y
      BY <2>2, <2>5
    <3>2. t[x + 1 + 1] = "/"
      BY <1>3, <2>2, <3>1 DEF Agree
    <3> QED BY <1>1, <1>2, <2>3, <3>1, <3>2 DEF NoTwoSlashes
  <2> QED BY <2>4, <2>5
<1>8. ASSUME sa = t
      PROVE  FALSE
  <2>1. y = x + 1 /\ t[y] = "/"
    BY <1>1, <1>3, <1>8
  <2> QED BY <1>2, <2>1
<1>9. ASSUME s = tb
      PROVE  NamesWithin(b, a)
  <2>1. x = y + 1 /\ s[x] = "/" /\ x >= 2
    BY <1>1, <1>2, <1>3, <1>9
  <2>2. a = Root => Len(s) = 1
    BY <1>0, SpellingFacts
  <2>3. a # Root => s[Len(s)] # "/"
    BY <1>0, SpellingFacts
  <2> QED BY <1>1, <2>1, <2>2, <2>3
<1>10. ASSUME Continues(s, tb)
       PROVE  NamesWithin(b, a)
  <2>1. x < y + 1 /\ Agree(tb, s, x) /\ tb[x + 1] = "/"
    BY <1>1, <1>3, <1>10 DEF Continues, Agree
  <2>2. x <= y
    BY <2>1
  <2>3. \A k \in 1 .. x : s[k] = t[k]
    <3>1. \A k \in 1 .. x : k \in 1 .. y
      BY <2>2
    <3> QED BY <1>3, <2>1, <3>1 DEF Agree
  <2>4. CASE x = y
    <3>1. s = t
      BY <1>1, <1>2, <2>3, <2>4, SeqEqual DEF Texts
    <3> QED BY <1>4, <3>1
  <2>5. CASE x # y
    <3>1. x < y /\ x + 1 \in 1 .. y
      BY <2>2, <2>5
    <3>2. t[x + 1] = "/"
      BY <1>3, <2>1, <3>1 DEF Agree
    <3>3. Continues(s, t)
      BY <1>1, <2>3, <3>1, <3>2 DEF Continues, Agree
    <3>4. MatchPattern(AskPattern(s), t)
      BY <1>2, <3>3, AskCovers
    <3>5. IF a = Root THEN b = Root ELSE NamesWithin(b, a)
      BY <1>0, <3>4, Coverage
    <3>6. a # Root
      <4>1. SUFFICES ASSUME a = Root PROVE FALSE
        OBVIOUS
      <4>2. b = Root
        BY <3>5, <4>1
      <4> QED BY <1>2, <3>1, <4>2
    <3> QED BY <3>5, <3>6
  <2> QED BY <2>4, <2>5
<1>11. /\ MatchPattern(AskPattern(sa), tb) <=> tb = sa \/ Continues(sa, tb)
       /\ MatchPattern(AskPattern(sa), t) <=> t = sa \/ Continues(sa, t)
       /\ MatchPattern(AskPattern(s), tb) <=> tb = s \/ Continues(s, tb)
       /\ MatchPattern(AskPattern(sa), sa)
  BY <1>2, <1>3, AskCovers
<1> QED BY <1>0, <1>4, <1>5, <1>6, <1>7, <1>8, <1>9, <1>10, <1>11 DEF NotWiderThan

(* For every depth and every plain name: a directory written with a slash  *)
(* at its end, in the approval or in the request or in both, is never      *)
(* covered outside the subtree, and the approval covers what it was        *)
(* written for.                                                            *)
THEOREM SlashesDoNotWiden == Spec => []SlashesNeverWiden
<1>1. WalkInv /\ PlaceInv => SlashesNeverWiden
  <2> SUFFICES ASSUME WalkInv, PlaceInv PROVE SlashesNeverWiden
    OBVIOUS
  <2>1. PICK ea, eb : Spelled(approved, ea) /\ Spelled(asked, eb) /\ Pair(approved, ea, asked, eb)
    BY DEF WalkInv
  <2>2. NotWiderThan(approved, asked)
    BY <2>1, SlashedTexts DEF WalkInv
  <2>3. Plain(approved) /\ Plain(asked) /\ NamesWithin(asked, approved) => Within(askedAt, approvedAt)
    BY DEF PlaceInv, LeadsTo, Within, NamesWithin
  <2> QED BY <2>2, <2>3 DEF NotWiderThan, SlashesNeverWiden
<1> QED BY <1>1, WalkInvariant, PlacesFollow, PTL
=============================================================================
