--------------------------- MODULE AnalyzerProofs ---------------------------
(* For every program of every shape the parser builds: no visitor looks for a *)
(* part that is not there, or for a type or a scope that was never put on its *)
(* stack; the stacks the analyzer keeps by hand are as deep as the visitors   *)
(* in progress make them, and the end finds them as the start left them; and  *)
(* the error type is nowhere before an error is reported.                     *)
(* The invariant gives every item of work the depths it finds the stacks at   *)
(* and the depths it leaves them at: a visitor replaces its item by work with *)
(* the same ends, so each action is one local argument about one node.        *)
EXTENDS Analyzer, SequenceLemmas, FiniteSetTheorems

-----------------------------------------------------------------------------
(* Paths.                                                                     *)

\* The walk from the root along a path, m steps of it.
Walk(root, path, f, m) ==
  f = [n \in 0..m |-> IF n = 0 THEN root ELSE f[n - 1].parts[path[n]]]

\* Every path can be walked.
LEMMA WalkExists ==
  ASSUME NEW root, NEW path, NEW m \in Nat
  PROVE  \E f : Walk(root, path, f, m)
<1> DEFINE Bad == {k \in Nat : ~ \E f : Walk(root, path, f, k)}
<1>1. SUFFICES ASSUME Bad # {} PROVE FALSE
  BY DEF Bad
<1>2. PICK k \in Bad : \A i \in Bad : k <= i
  BY <1>1, LeastMember
<1>3. k \in Nat /\ ~ \E f : Walk(root, path, f, k)
  BY <1>2
<1>4. CASE k = 0
  <2> DEFINE g == [n \in 0..0 |-> root]
  <2>1. g = [n \in 0..0 |-> IF n = 0 THEN root ELSE g[n - 1].parts[path[n]]]
    OBVIOUS
  <2> HIDE DEF g
  <2> QED
    BY <1>3, <1>4, <2>1 DEF Walk
<1>5. CASE k # 0
  <2>1. k - 1 \in Nat /\ k - 1 \notin Bad
    BY <1>2, <1>3, <1>5
  <2>2. PICK f : Walk(root, path, f, k - 1)
    BY <2>1
  <2> DEFINE g == [n \in 0..k |-> IF n = k THEN f[k - 1].parts[path[k]] ELSE f[n]]
  <2>3. g = [n \in 0..k |-> IF n = 0 THEN root ELSE g[n - 1].parts[path[n]]]
    <3>1. SUFFICES ASSUME NEW n \in 0..k
                   PROVE  g[n] = IF n = 0 THEN root ELSE g[n - 1].parts[path[n]]
      OBVIOUS
    <3>2. \A i \in 0..(k - 1) : f[i] = IF i = 0 THEN root ELSE f[i - 1].parts[path[i]]
      BY <2>2 DEF Walk
    <3>3. CASE n = k
      BY <3>3, <1>3, <1>5
    <3>4. CASE n # k
      <4>1. n \in 0..(k - 1) /\ g[n] = f[n]
        BY <3>4, <1>3
      <4>2. n # 0 => g[n - 1] = f[n - 1]
        BY <3>4, <1>3
      <4> QED
        BY <4>1, <4>2, <3>2
    <3> QED
      BY <3>3, <3>4
  <2> HIDE DEF g
  <2> QED
    BY <1>3, <2>3 DEF Walk
<1> QED
  BY <1>4, <1>5

\* The node at a path is where the walk along it ends.
LEMMA NodeAtWalk ==
  ASSUME NEW root, NEW path, Len(path) \in Nat
  PROVE  \E f : Walk(root, path, f, Len(path)) /\ NodeAt(root, path) = f[Len(path)]
<1> DEFINE f == CHOOSE g : Walk(root, path, g, Len(path))
<1>1. Walk(root, path, f, Len(path))
  BY WalkExists
<1>2. NodeAt(root, path) = f[Len(path)]
  BY Zenon DEF NodeAt, Walk
<1> QED
  BY <1>1, <1>2

Same(p, q, m) == \A i \in 1..m : p[i] = q[i]

\* Walks along paths that start alike are at the same node after that start.
LEMMA WalksAgree ==
  ASSUME NEW root, NEW p, NEW q, NEW f, NEW g, NEW m \in Nat, NEW k \in Nat, m <= k,
         Walk(root, p, f, m), Walk(root, q, g, k), Same(p, q, m)
  PROVE  f[m] = g[m]
<1> DEFINE Bad == {i \in 0..m : f[i] # g[i]}
<1>1. SUFFICES ASSUME Bad # {} PROVE FALSE
  BY DEF Bad
<1>2. PICK i \in Bad : \A j \in Bad : i <= j
  <2>1. Bad \subseteq Nat
    OBVIOUS
  <2> HIDE DEF Bad
  <2> QED
    BY <1>1, <2>1, LeastMember
<1>3. i \in 0..m /\ f[i] # g[i] /\ i - 1 \notin Bad
  BY <1>2
<1>4. f[i] = IF i = 0 THEN root ELSE f[i - 1].parts[p[i]]
  BY <1>3 DEF Walk
<1>5. g[i] = IF i = 0 THEN root ELSE g[i - 1].parts[q[i]]
  BY <1>3 DEF Walk
<1> QED
  BY <1>3, <1>4, <1>5 DEF Same

\* The empty path leads to the root.
LEMMA NodeAtRoot ==
  ASSUME NEW root
  PROVE  NodeAt(root, <<>>) = root
<1>1. PICK f : Walk(root, <<>>, f, Len(<<>>)) /\ NodeAt(root, <<>>) = f[Len(<<>>)]
  BY NodeAtWalk
<1> QED
  BY <1>1 DEF Walk

\* The path of a part leads to that part.
LEMMA NodeAtPart ==
  ASSUME NEW root, NEW path \in Seq(Nat), NEW i \in Nat
  PROVE  /\ Append(path, i) \in Seq(Nat)
         /\ NodeAt(root, Append(path, i)) = NodeAt(root, path).parts[i]
<1> DEFINE q == Append(path, i)
           m == Len(path)
           k == Len(q)
<1>1. /\ m \in Nat /\ k \in Nat /\ k = m + 1 /\ \A j \in 1..m : path[j] = q[j]
      /\ q[k] = i /\ q \in Seq(Nat)
  OBVIOUS
<1>2. PICK f : Walk(root, path, f, m) /\ NodeAt(root, path) = f[m]
  BY NodeAtWalk
<1>3. PICK g : Walk(root, q, g, k) /\ NodeAt(root, q) = g[k]
  BY <1>1, NodeAtWalk
<1> HIDE DEF q, m, k
<1>4. f[m] = g[m]
  <2>1. m <= k /\ Same(path, q, m)
    BY <1>1 DEF Same
  <2>2. \A a \in Nat, b \in Nat :
          a <= b /\ Walk(root, path, f, a) /\ Walk(root, q, g, b) /\ Same(path, q, a)
            => f[a] = g[a]
    BY WalksAgree
  <2> QED
    BY <1>1, <1>2, <1>3, <2>1, <2>2
<1>5. g[k] = g[m].parts[q[k]]
  <2>1. k \in 0..k /\ k # 0 /\ k - 1 = m
    BY <1>1
  <2> QED
    BY <2>1, <1>3 DEF Walk
<1> QED
  BY <1>1, <1>2, <1>3, <1>4, <1>5 DEF q

\* A part, a part of a part, and one more.
LEMMA PathsBelow ==
  ASSUME NEW root, NEW path \in Seq(Nat), NEW i \in Nat, NEW j \in Nat, NEW k \in Nat
  PROVE  /\ Part(path, i) \in Seq(Nat)
         /\ Part(path, i) \o <<j>> \in Seq(Nat)
         /\ path \o <<i, j>> \in Seq(Nat)
         /\ Part(path, i) \o <<j, k>> \in Seq(Nat)
         /\ NodeAt(root, Part(path, i)) = NodeAt(root, path).parts[i]
         /\ NodeAt(root, Part(path, i) \o <<j>>) = NodeAt(root, path).parts[i].parts[j]
         /\ NodeAt(root, path \o <<i, j>>) = NodeAt(root, path).parts[i].parts[j]
         /\ NodeAt(root, Part(path, i) \o <<j, k>>)
              = NodeAt(root, path).parts[i].parts[j].parts[k]
<1> DEFINE p == Append(path, i)
           q == Append(p, j)
           r == Append(q, k)
<1>1. p \in Seq(Nat) /\ NodeAt(root, p) = NodeAt(root, path).parts[i]
  BY NodeAtPart
<1>2. p \o <<j>> = q
  OBVIOUS
<1>3. path \o <<i, j>> = q
  OBVIOUS
<1>4. p \o <<j, k>> = r
  <2> HIDE DEF p
  <2> QED
    BY <1>1
<1> HIDE DEF p
<1>5. q \in Seq(Nat) /\ NodeAt(root, q) = NodeAt(root, p).parts[j]
  BY <1>1, NodeAtPart
<1> HIDE DEF q
<1>6. r \in Seq(Nat) /\ NodeAt(root, r) = NodeAt(root, q).parts[k]
  BY <1>5, NodeAtPart
<1> QED
  BY <1>1, <1>2, <1>3, <1>4, <1>5, <1>6 DEF p, q, r, Part

\* SelectInSeq and SelectLastInSeq: an index that passes the test, or 0.
LEMMA Extremes ==
  ASSUME NEW n \in Nat, NEW I, I \subseteq 1..n, I # {}
  PROVE  Min(I) \in I /\ Max(I) \in I
<1>1. \E k \in I : \A i \in I : k <= i
  <2>1. I \subseteq Nat
    OBVIOUS
  <2> QED
    BY <2>1, LeastMember
<1>2. \E k \in I : \A i \in I : k >= i
  <2> DEFINE J == {n - i : i \in I}
  <2>1. J \subseteq Nat /\ J # {}
    <3>1. \A i \in I : n - i \in Nat
      OBVIOUS
    <3> QED
      BY <3>1
  <2>2. \A i \in I : n - i \in J
    OBVIOUS
  <2>3. \A j \in J : \E i \in I : j = n - i
    OBVIOUS
  <2> HIDE DEF J
  <2>4. PICK j \in J : \A i \in J : j <= i
    BY <2>1, LeastMember
  <2>5. PICK k \in I : j = n - k
    BY <2>3
  <2> QED
    BY <2>2, <2>4, <2>5
<1> QED
  BY <1>1, <1>2 DEF Min, Max

-----------------------------------------------------------------------------
(* Types.                                                                     *)

\* A set of types with their parameters, and one without the error type.
IsTypeSet(T) ==
  \A t \in T : t = Type(t.kind, t.params, t.name) /\ t.kind \in Kinds /\ t.params \in Seq(T)
IsClean(T) == \A t \in T : t.kind # "Error"
Fine(e, T) == IsTypeSet(T) /\ (e \/ IsClean(T))

\* A type all through, in which no error type stands unless one was reported.
Good(e, t) == \E T : t \in T /\ Fine(e, T)
GoodTypes(e, s) == IsSeq(s) /\ \A i \in DOMAIN s : Good(e, s[i])
GoodOr(e, t) == t = Nothing \/ Good(e, t)

\* A report only allows more.
LEMMA GoodStays ==
  ASSUME NEW e, NEW f, e => f, NEW t, Good(e, t)
  PROVE  Good(f, t)
  BY DEF Good, Fine

\* The types of a sequence are of one set.
LEMMA OneTypeSet ==
  ASSUME NEW e, NEW s, GoodTypes(e, s)
  PROVE  \E T : s \in Seq(T) /\ Fine(e, T)
<1> DEFINE Of1(i) == CHOOSE T : s[i] \in T /\ Fine(e, T)
           T == UNION {Of1(i) : i \in DOMAIN s}
<1>1. \A i \in DOMAIN s : s[i] \in Of1(i) /\ Fine(e, Of1(i))
  BY DEF GoodTypes, Good
<1> HIDE DEF Of1
<1>2. \A t \in T : \E i \in DOMAIN s : t \in Of1(i)
  OBVIOUS
<1>3. \A i \in DOMAIN s : Of1(i) \subseteq T
  OBVIOUS
<1> HIDE DEF T
<1>4. ASSUME NEW t \in T
      PROVE  /\ t = Type(t.kind, t.params, t.name) /\ t.kind \in Kinds /\ t.params \in Seq(T)
             /\ e \/ t.kind # "Error"
  <2>1. PICK i \in DOMAIN s : t \in Of1(i)
    BY <1>2
  <2>2. Of1(i) \subseteq T /\ Fine(e, Of1(i))
    BY <1>1, <1>3
  <2>3. /\ t = Type(t.kind, t.params, t.name) /\ t.kind \in Kinds
        /\ t.params \in Seq(Of1(i)) /\ (e \/ t.kind # "Error")
    BY <2>1, <2>2 DEF Fine, IsTypeSet, IsClean
  <2>4. t.params \in Seq(T)
    BY <2>2, <2>3
  <2> QED
    BY <2>3, <2>4
<1>5. Fine(e, T)
  BY <1>4 DEF Fine, IsTypeSet, IsClean
<1>6. s \in Seq(T)
  <2>1. s \in Seq(Range(s))
    BY DEF GoodTypes, IsSeq
  <2>2. \A i \in DOMAIN s : s[i] \in T
    BY <1>1, <1>3
  <2> QED
    BY <2>1, <2>2
<1> QED
  BY <1>5, <1>6

\* The parts of a type.
LEMMA GoodParts ==
  ASSUME NEW e, NEW t, Good(e, t)
  PROVE  /\ t = Type(t.kind, t.params, t.name) /\ t.kind \in Kinds
         /\ e \/ t.kind # "Error"
         /\ GoodTypes(e, t.params)
<1>1. PICK T : t \in T /\ Fine(e, T)
  BY DEF Good
<1>2. /\ t = Type(t.kind, t.params, t.name) /\ t.kind \in Kinds /\ t.params \in Seq(T)
      /\ e \/ t.kind # "Error"
  BY <1>1 DEF Fine, IsTypeSet, IsClean
<1>3. \A i \in DOMAIN t.params : t.params[i] \in T
  BY <1>2
<1>4. IsSeq(t.params)
  BY <1>2, SeqIn
<1> QED
  BY <1>1, <1>2, <1>3, <1>4 DEF GoodTypes, Good

\* A type is made of a kind, types, and a name.
LEMMA GoodType ==
  ASSUME NEW e, NEW kind \in Kinds, e \/ kind # "Error", NEW s, GoodTypes(e, s), NEW name
  PROVE  Good(e, Type(kind, s, name))
<1>1. PICK T : s \in Seq(T) /\ Fine(e, T)
  BY OneTypeSet
<1> DEFINE t == Type(kind, s, name)
           U == T \cup {t}
<1>2. t.kind = kind /\ t.params = s /\ t.name = name /\ t = Type(t.kind, t.params, t.name)
  BY DEF Type
<1> HIDE DEF t
<1>3. \A u \in T : u.params \in Seq(U)
  <2>1. T \subseteq U
    OBVIOUS
  <2>2. \A u \in T : u.params \in Seq(T)
    BY <1>1 DEF Fine, IsTypeSet
  <2> QED
    BY <2>1, <2>2
<1>4. t.params \in Seq(U)
  BY <1>1, <1>2
<1>5. IsTypeSet(U)
  BY <1>1, <1>2, <1>3, <1>4 DEF Fine, IsTypeSet
<1>6. e \/ IsClean(U)
  BY <1>1, <1>2 DEF Fine, IsClean
<1>7. Good(e, t)
  BY <1>5, <1>6 DEF Good, Fine
<1> QED
  BY <1>7 DEF t

\* No types, one, and two.
LEMMA GoodFew ==
  ASSUME NEW e
  PROVE  /\ GoodTypes(e, <<>>)
         /\ \A t : Good(e, t) => GoodTypes(e, <<t>>)
         /\ \A t, u : Good(e, t) /\ Good(e, u) => GoodTypes(e, <<t, u>>)
<1>1. \A t, u : IsSeq(<<>>) /\ IsSeq(<<t>>) /\ IsSeq(<<t, u>>)
  <2> TAKE t, u
  <2>1. <<>> \in Seq({t, u}) /\ <<t>> \in Seq({t, u}) /\ <<t, u>> \in Seq({t, u})
    OBVIOUS
  <2> QED
    BY <2>1, SeqIn
<1>2. /\ DOMAIN <<>> = {} /\ \A t : DOMAIN <<t>> = {1} /\ <<t>>[1] = t
      /\ \A t, u : DOMAIN <<t, u>> = {1, 2} /\ <<t, u>>[1] = t /\ <<t, u>>[2] = u
  OBVIOUS
<1>3. /\ GoodTypes(e, <<>>)
      /\ \A t : Good(e, t) => GoodTypes(e, <<t>>)
  BY <1>1, <1>2 DEF GoodTypes
<1>4. ASSUME NEW t, NEW u, Good(e, t), Good(e, u)
      PROVE  GoodTypes(e, <<t, u>>)
  <2> DEFINE s == <<t, u>>
  <2>1. IsSeq(s) /\ DOMAIN s = {1, 2} /\ s[1] = t /\ s[2] = u
    BY <1>1, <1>2
  <2> HIDE DEF s
  <2>2. GoodTypes(e, s)
    BY <1>4, <2>1 DEF GoodTypes
  <2> QED
    BY <2>2 DEF s
<1> QED
  BY <1>3, <1>4

\* The types without parameters.
LEMMA GoodOf ==
  ASSUME NEW e
  PROVE  /\ \A kind \in Kinds : e \/ kind # "Error" => Good(e, Of(kind))
         /\ \A name : Good(e, Custom(name)) /\ Good(e, Constant(name))
         /\ Good(e, Unknown)
         /\ e => Good(e, Error)
<1>1. GoodTypes(e, <<>>)
  BY GoodFew
<1>2. \A name : \A kind \in Kinds : e \/ kind # "Error" => Good(e, Type(kind, <<>>, name))
  BY <1>1, GoodType
<1>3. \A kind \in Kinds : e \/ kind # "Error" => Good(e, Of(kind))
  BY <1>2 DEF Of
<1>4. \A name : Good(e, Custom(name)) /\ Good(e, Constant(name))
  BY <1>2 DEF Custom, Constant, Kinds
<1>5. Good(e, Unknown) /\ (e => Good(e, Error))
  BY <1>3 DEF Unknown, Error, Kinds
<1> QED
  BY <1>3, <1>4, <1>5

\* Padding, and a type with other parameters.
LEMMA GoodPadded ==
  ASSUME NEW e, NEW s, GoodTypes(e, s), NEW n \in Nat
  PROVE  GoodTypes(e, Padded(s, n)) /\ Len(Padded(s, n)) >= n
<1>1. Len(s) \in Nat /\ DOMAIN s = 1..Len(s)
  BY SeqLen DEF GoodTypes
<1> DEFINE m == IF n > Len(s) THEN n ELSE Len(s)
           p == Padded(s, n)
<1>2. m \in Nat /\ m >= n /\ p = [i \in 1..m |-> IF i \in DOMAIN s THEN s[i] ELSE Unknown]
  BY <1>1 DEF Padded
<1> HIDE DEF m, p
<1>3. p \in Seq(Range(p)) /\ Len(p) = m /\ DOMAIN p = 1..m
  BY <1>2 DEF Range
<1>4. \A i \in DOMAIN p : Good(e, p[i])
  BY <1>2, GoodOf DEF GoodTypes
<1> QED
  BY <1>2, <1>3, <1>4 DEF GoodTypes, IsSeq, p

\* A type with other parameters is as good as they are.
LEMMA GoodWith ==
  ASSUME NEW e, NEW t, Good(e, t), NEW s, GoodTypes(e, s)
  PROVE  Good(e, [t EXCEPT !.params = s])
<1>1. t = Type(t.kind, t.params, t.name) /\ t.kind \in Kinds /\ (e \/ t.kind # "Error")
  BY GoodParts
<1>2. [t EXCEPT !.params = s] = Type(t.kind, s, t.name)
  BY <1>1 DEF Type
<1> QED
  BY <1>1, <1>2, GoodType

\* Param, FilledFrom, RefineGeneric, MergeExpected and DeduceNumeric.
LEMMA GoodParam ==
  ASSUME NEW e, NEW t, Good(e, t), NEW i
  PROVE  Good(e, Param(t, i))
  BY GoodParts, GoodOf DEF Param, GoodTypes

\* Unknown parameters filled from another type.
LEMMA GoodFilled ==
  ASSUME NEW e, NEW t, Good(e, t), NEW u, Good(e, u), NEW n \in Nat
  PROVE  Good(e, FilledFrom(t, n, u))
<1> DEFINE p == Padded(t.params, n)
           q == [i \in DOMAIN p |-> IF p[i].kind = "Unknown" THEN Param(u, i) ELSE p[i]]
<1>1. GoodTypes(e, p)
  BY GoodParts, GoodPadded
<1> HIDE DEF p
<1>2. \A i \in DOMAIN q : Good(e, q[i])
  BY <1>1, GoodParam DEF GoodTypes
<1>3. IsSeq(q)
  <2>1. Len(p) \in Nat /\ DOMAIN p = 1..Len(p)
    BY <1>1, SeqLen DEF GoodTypes
  <2>2. q \in Seq(Range(q))
    BY <2>1 DEF Range
  <2> QED
    BY <2>2 DEF IsSeq
<1> HIDE DEF q
<1>4. Good(e, [t EXCEPT !.params = q])
  BY <1>2, <1>3, GoodWith DEF GoodTypes
<1>5. FilledFrom(t, n, u) = [t EXCEPT !.params = q]
  <2>1. t = Type(t.kind, t.params, t.name)
    BY GoodParts
  <2> QED
    BY <2>1 DEF FilledFrom, p, q, Type
<1> QED
  BY <1>4, <1>5

\* The longer of two lists of types.
LEMMA LongestIsNat ==
  ASSUME NEW e, NEW s, NEW t, GoodTypes(e, s), GoodTypes(e, t)
  PROVE  Longest(s, t) \in Nat
  BY SeqLen DEF GoodTypes, Longest

\* Two generic types refined into one.
LEMMA GoodRefined ==
  ASSUME NEW e, NEW t, Good(e, t), NEW u, Good(e, u)
  PROVE  Good(e, RefineGeneric(t, u))
<1>1. Longest(t.params, u.params) \in Nat
  BY GoodParts, LongestIsNat
<1> QED
  BY <1>1, GoodFilled DEF RefineGeneric

\* A type merged with the expected one, when there is one.
LEMMA GoodMerged ==
  ASSUME NEW e, NEW t, Good(e, t), NEW u, GoodOr(e, u)
  PROVE  Good(e, MergeExpected(t, u))
<1>1. CASE u = Nothing
  BY <1>1 DEF MergeExpected
<1>2. CASE Good(e, u)
  <2>1. Longest(t.params, u.params) \in Nat
    BY <1>2, GoodParts, LongestIsNat
  <2> QED
    BY <1>2, <2>1, GoodFilled DEF MergeExpected
<1> QED
  BY <1>1, <1>2 DEF GoodOr

\* The type of an operation on numbers is never the error type by itself.
LEMMA GoodDeduced ==
  ASSUME NEW e, NEW t, Good(e, t), NEW u, Good(e, u)
  PROVE  GoodOr(e, DeduceNumeric(t, u))
<1>1. (e \/ t.kind # "Error") /\ (e \/ u.kind # "Error")
  BY GoodParts
<1> QED
  BY <1>1, GoodOf DEF DeduceNumeric, GoodOr

\* A word or a name that stands for a type.
LEMMA GoodNamed ==
  ASSUME NEW e, NEW leaf
  PROVE  Good(e, TypeFromToken(leaf))
<1>1. CASE leaf.kind \in DOMAIN Words
  <2>1. \A t \in DOMAIN Words : Words[t] \in Kinds /\ Words[t] # "Error"
    BY DEF Words, Kinds
  <2> QED
    BY <1>1, <2>1, GoodOf DEF TypeFromToken
<1>2. CASE leaf.kind \notin DOMAIN Words /\ leaf.text \in DOMAIN Names
  <2>1. <<"Option">>[1] = "Option" /\ <<"Result">>[1] = "Result"
    OBVIOUS
  <2>2. Names[leaf.text] \in {"String", "Option", "Result"}
    BY <1>2, <2>1 DEF Names
  <2> QED
    <3>1. Names[leaf.text] \in Kinds /\ Names[leaf.text] # "Error"
      BY <2>2 DEF Kinds
    <3> QED
      BY <1>2, <3>1, GoodOf DEF TypeFromToken
<1>3. CASE leaf.kind \notin DOMAIN Words /\ leaf.text \notin DOMAIN Names
  BY <1>3, GoodOf DEF TypeFromToken
<1> QED
  BY <1>1, <1>2, <1>3

-----------------------------------------------------------------------------
(* The work and the stacks.                                                   *)

\* A path that leads to one of some nodes.
Leads(root, path, nodes) == path \in Seq(Nat) /\ NodeAt(root, path) \in nodes
LeadsTo(root, path, nodes, kinds) ==
  Leads(root, path, nodes) /\ NodeAt(root, path).kind \in kinds

\* What an item of work needs, e telling whether an error was reported.
Fits(root, e, item) ==
  /\ item.do = "visit" => Leads(root, item.at, Stmts \cup Exprs \cup TypeExprs)
  /\ item.do = "eval" => Leads(root, item.at, Exprs) /\ GoodOr(e, item.expects)
  /\ item.do \in {"yield", "assigned", "fit", "annotate"} => Good(e, item.type)
  /\ item.do = "value" => GoodOr(e, item.type)
  /\ item.do \in {"declare", "sign"} => Leads(root, item.at, Stmts)
  /\ item.do = "signed" => LeadsTo(root, item.at, Stmts, {"Function"})
  /\ item.do = "annotate" =>
       item.at \in Seq(Nat) /\ NodeAt(root, item.at).parts[2] \in TypeExprs
  /\ item.do = "value" =>
       item.at \in Seq(Nat) /\ NodeAt(root, item.at).parts[2] \in Exprs
  /\ item.do = "initialize" => LeadsTo(root, item.at, Stmts, {"Var", "Let"})
  /\ item.do = "defineRecord" => LeadsTo(root, item.at, Stmts, {"Record"})
  /\ item.do = "defineEnum" => LeadsTo(root, item.at, Stmts, {"Enum"})
  /\ item.do = "generic" => LeadsTo(root, item.at, TypeExprs, {"GenericType"})
  /\ item.do = "call" => LeadsTo(root, item.at, Exprs, {"Call"})
  /\ item.do = "open" => LeadsTo(root, item.at, Exprs, {"Match"})
  /\ item.do = "arm" => item.at \in Seq(Nat) /\ IsArm(NodeAt(root, item.at))
  /\ item.do = "element" =>
       LeadsTo(root, item.at, Exprs, {"Vector"})
       /\ item.i \in 1..Len(NodeAt(root, item.at).parts[1].parts)

\* How many results an item takes, and how many it leaves when it is done.
Takes(root, item) ==
  LET parts == NodeAt(root, item.at).parts IN
  IF item.do = "signed" THEN Len(parts[3].parts) + 1
  ELSE IF item.do \in {"defineRecord", "defineEnum"} THEN Len(parts[3].parts)
  ELSE IF item.do \in {"generic", "call"} THEN Len(parts[2].parts)
  ELSE IF item.do \in {"bind", "operate", "fit", "element"} THEN 2
  ELSE IF item.do \in {"record", "forget", "parameter", "initialize", "condition", "returned",
                       "aliased", "assigned", "negate", "field", "value", "open", "close"}
       THEN 1 ELSE 0
Puts(root, item) ==
  IF item.do = "visit" THEN (IF NodeAt(root, item.at).kind \in StmtKinds THEN 0 ELSE 1)
  ELSE IF item.do \in {"eval", "yield", "record", "generic", "call", "operate", "fit", "element",
                       "aliased", "assigned", "negate", "field", "value", "open", "conclude"}
       THEN 1 ELSE 0

\* The depths of the stacks that items of work change, without the global scope.
Depths == [results : Nat, scopes : Nat, expected : Nat, returns : Nat, loops : Nat,
           matches : Nat]
Depth(r, s, x, u, l, m) ==
  [results |-> r, scopes |-> s, expected |-> x, returns |-> u, loops |-> l, matches |-> m]

\* An item finds the stacks at depths d, and they are at depths k when it is done.
Moves(root, e, d, item, k) ==
  /\ Fits(root, e, item)
  /\ d \in Depths /\ k \in Depths
  /\ Takes(root, item) \in Nat /\ d.results >= Takes(root, item)
  /\ k.results = (d.results - Takes(root, item)) + Puts(root, item)
  /\ d.scopes = k.scopes + (IF item.do \in {"exit", "leave", "close"} THEN 1 ELSE 0)
  /\ d.expected = k.expected + (IF item.do = "record" THEN 1 ELSE 0)
  /\ d.returns = k.returns + (IF item.do = "leave" THEN 1 ELSE 0)
  /\ d.loops = k.loops + (IF item.do = "leaveLoop" THEN 1
                          ELSE IF item.do = "enterLoop" THEN -1 ELSE 0)
  /\ d.matches = k.matches + (IF item.do = "conclude" THEN 1 ELSE 0)
  /\ item.do \in {"arm", "close"} => d.matches # 0

\* All of some work: the depths in between, from d to k.
Run(root, e, d, s, k) ==
  /\ IsSeq(s) /\ d \in Depths
  /\ \E h : h[0] = d /\ h[Len(s)] = k /\ \A i \in DOMAIN s : Moves(root, e, h[i - 1], s[i], h[i])

\* Depths are depths at the other end too.
LEMMA RunEnd ==
  ASSUME NEW root, NEW e, NEW d, NEW s, NEW k, Run(root, e, d, s, k)
  PROVE  IsSeq(s) /\ d \in Depths /\ k \in Depths
<1>1. PICK h : /\ IsSeq(s) /\ d \in Depths /\ h[0] = d /\ h[Len(s)] = k
               /\ \A i \in DOMAIN s : Moves(root, e, h[i - 1], s[i], h[i])
  BY DEF Run
<1>2. Len(s) \in Nat /\ DOMAIN s = 1..Len(s)
  BY <1>1, SeqLen
<1>3. CASE Len(s) = 0
  BY <1>1, <1>3
<1>4. CASE Len(s) # 0
  <2>1. Moves(root, e, h[Len(s) - 1], s[Len(s)], h[Len(s)])
    BY <1>1, <1>2, <1>4
  <2> QED
    BY <1>1, <2>1 DEF Moves
<1> QED
  BY <1>1, <1>3, <1>4

\* No work leaves the stacks as they are.
LEMMA RunNone ==
  ASSUME NEW root, NEW e, NEW d \in Depths
  PROVE  Run(root, e, d, <<>>, d)
<1> DEFINE h == [i \in {0} |-> d]
<1>1. h[0] = d /\ Len(<<>>) = 0 /\ DOMAIN <<>> = {} /\ IsSeq(<<>>)
  BY GoodFew DEF GoodTypes
<1> HIDE DEF h
<1> QED
  BY <1>1 DEF Run

\* One item.
LEMMA RunOne ==
  ASSUME NEW root, NEW e, NEW d, NEW item, NEW k, Moves(root, e, d, item, k)
  PROVE  Run(root, e, d, <<item>>, k)
<1> DEFINE h == [i \in {0, 1} |-> IF i = 0 THEN d ELSE k]
           s == <<item>>
<1>1. h[0] = d /\ h[1] = k /\ Len(s) = 1 /\ DOMAIN s = {1} /\ s[1] = item
  OBVIOUS
<1>2. IsSeq(s)
  <2>1. s \in Seq({item})
    OBVIOUS
  <2> QED
    BY <2>1, SeqIn
<1> HIDE DEF h, s
<1>3. d \in Depths
  BY DEF Moves
<1>4. \A i \in DOMAIN s : Moves(root, e, h[i - 1], s[i], h[i])
  <2>1. \A i \in DOMAIN s : i = 1 /\ i - 1 = 0
    BY <1>1
  <2> QED
    BY <1>1, <2>1
<1>5. Run(root, e, d, s, k)
  BY <1>1, <1>2, <1>3, <1>4 DEF Run
<1> QED
  BY <1>5 DEF s

\* Some work, then some more.
LEMMA RunCat ==
  ASSUME NEW root, NEW e, NEW s, NEW t, NEW d, NEW m, NEW k,
         Run(root, e, d, s, m), Run(root, e, m, t, k)
  PROVE  Run(root, e, d, s \o t, k)
<1>1. PICK f : /\ IsSeq(s) /\ d \in Depths /\ f[0] = d /\ f[Len(s)] = m
               /\ \A i \in DOMAIN s : Moves(root, e, f[i - 1], s[i], f[i])
  BY DEF Run
<1>2. PICK g : /\ IsSeq(t) /\ m \in Depths /\ g[0] = m /\ g[Len(t)] = k
               /\ \A i \in DOMAIN t : Moves(root, e, g[i - 1], t[i], g[i])
  BY DEF Run
<1>3. /\ Len(s) \in Nat /\ Len(t) \in Nat /\ DOMAIN s = 1..Len(s) /\ DOMAIN t = 1..Len(t)
      /\ Len(s \o t) = Len(s) + Len(t) /\ IsSeq(s \o t)
      /\ DOMAIN (s \o t) = 1..(Len(s) + Len(t))
  BY <1>1, <1>2, SeqLen, SeqCat
<1> DEFINE h == [i \in 0..(Len(s) + Len(t)) |-> IF i <= Len(s) THEN f[i] ELSE g[i - Len(s)]]
<1>4. h[0] = d
  BY <1>1, <1>3
<1>5. h[Len(s) + Len(t)] = k
  <2>1. CASE Len(t) = 0
    BY <1>1, <1>2, <1>3, <2>1
  <2>2. CASE Len(t) # 0
    BY <1>2, <1>3, <2>2
  <2> QED
    BY <2>1, <2>2
<1>6. ASSUME NEW i \in DOMAIN (s \o t)
      PROVE  Moves(root, e, h[i - 1], (s \o t)[i], h[i])
  <2>1. i \in 1..(Len(s) + Len(t))
    BY <1>3
  <2>2. CASE i \in DOMAIN s /\ (s \o t)[i] = s[i]
    <3>1. h[i - 1] = f[i - 1] /\ h[i] = f[i]
      BY <1>3, <2>2
    <3> HIDE DEF h
    <3> QED
      BY <1>1, <2>2, <3>1
  <2>3. CASE i - Len(s) \in DOMAIN t /\ (s \o t)[i] = t[i - Len(s)]
    <3> DEFINE j == i - Len(s)
    <3>1. j \in 1..Len(t) /\ j \in Nat /\ i = Len(s) + j
      BY <1>3, <2>1, <2>3
    <3>2. h[i] = g[j]
      BY <1>3, <2>1, <3>1
    <3>3. h[i - 1] = g[j - 1]
      <4>1. CASE j = 1
        <5>1. i - 1 = Len(s) /\ j - 1 = 0
          BY <1>3, <3>1, <4>1
        <5> QED
          BY <1>1, <1>2, <1>3, <5>1
      <4>2. CASE j # 1
        BY <1>3, <2>1, <3>1, <4>2
      <4> QED
        BY <4>1, <4>2
    <3> HIDE DEF h, j
    <3>4. Moves(root, e, g[j - 1], t[j], g[j])
      BY <1>2, <1>3, <3>1
    <3> USE DEF j
    <3> QED
      BY <2>3, <3>2, <3>3, <3>4
  <2> QED
    BY <1>1, <1>2, <2>2, <2>3, CatAt
<1> HIDE DEF h
<1> QED
  BY <1>1, <1>3, <1>4, <1>5, <1>6 DEF Run

\* What is left after the first item.
LEMMA RunTail ==
  ASSUME NEW root, NEW e, NEW s, s # <<>>, NEW d, NEW k, Run(root, e, d, s, k)
  PROVE  \E m : Moves(root, e, d, s[1], m) /\ Run(root, e, m, Tail(s), k)
<1>1. PICK h : /\ IsSeq(s) /\ d \in Depths /\ h[0] = d /\ h[Len(s)] = k
               /\ \A i \in DOMAIN s : Moves(root, e, h[i - 1], s[i], h[i])
  BY DEF Run
<1>2. /\ 1 \in DOMAIN s /\ IsSeq(Tail(s))
      /\ \A i \in DOMAIN Tail(s) : i + 1 \in DOMAIN s /\ Tail(s)[i] = s[i + 1]
  BY <1>1, HeadAndTail
<1>3. Len(s) \in Nat /\ Len(s) # 0 /\ Len(Tail(s)) = Len(s) - 1
      /\ DOMAIN Tail(s) = 1..(Len(s) - 1)
  <2>1. s \in Seq(Range(s))
    BY <1>1 DEF IsSeq
  <2> QED
    BY <2>1
<1>4. Moves(root, e, d, s[1], h[1])
  BY <1>1, <1>2
<1> DEFINE g == [i \in 0..(Len(s) - 1) |-> h[i + 1]]
<1>5. h[1] \in Depths /\ g[0] = h[1] /\ g[Len(Tail(s))] = k
  <2>1. h[1] \in Depths
    BY <1>4 DEF Moves
  <2>2. g[0] = h[0 + 1]
    BY <1>3
  <2>3. g[Len(s) - 1] = h[(Len(s) - 1) + 1] /\ (Len(s) - 1) + 1 = Len(s)
    BY <1>3
  <2> HIDE DEF g
  <2> QED
    BY <1>1, <1>3, <2>1, <2>2, <2>3
<1>6. ASSUME NEW i \in DOMAIN Tail(s)
      PROVE  Moves(root, e, g[i - 1], Tail(s)[i], g[i])
  <2>1. i \in 1..(Len(s) - 1) /\ g[i] = h[i + 1] /\ g[i - 1] = h[(i - 1) + 1] /\ (i - 1) + 1 = i
    BY <1>3
  <2>2. i + 1 \in DOMAIN s /\ Tail(s)[i] = s[i + 1] /\ (i + 1) - 1 = i
    BY <1>2, <2>1
  <2>3. Moves(root, e, h[(i + 1) - 1], s[i + 1], h[i + 1])
    BY <1>1, <2>2
  <2> HIDE DEF g
  <2> QED
    BY <2>1, <2>2, <2>3
<1> HIDE DEF g
<1>7. Run(root, e, h[1], Tail(s), k)
  BY <1>2, <1>5, <1>6 DEF Run
<1> QED
  BY <1>4, <1>7

\* Work that fits stays fit when something is reported.
LEMMA FitsStays ==
  ASSUME NEW root, NEW e, NEW f, e => f, NEW item, Fits(root, e, item)
  PROVE  Fits(root, f, item)
<1>1. \A t : (Good(e, t) => Good(f, t)) /\ (GoodOr(e, t) => GoodOr(f, t))
  BY GoodStays DEF GoodOr
<1> QED
  BY <1>1 DEF Fits

\* So does all of some work.
LEMMA RunStays ==
  ASSUME NEW root, NEW e, NEW f, e => f, NEW d, NEW s, NEW k, Run(root, e, d, s, k)
  PROVE  Run(root, f, d, s, k)
<1>1. PICK h : /\ IsSeq(s) /\ d \in Depths /\ h[0] = d /\ h[Len(s)] = k
               /\ \A i \in DOMAIN s : Moves(root, e, h[i - 1], s[i], h[i])
  BY DEF Run
<1>2. \A i \in DOMAIN s : Moves(root, f, h[i - 1], s[i], h[i])
  <2> TAKE i \in DOMAIN s
  <2>1. Fits(root, f, s[i])
    BY <1>1, FitsStays DEF Moves
  <2> QED
    BY <1>1, <2>1 DEF Moves
<1> QED
  BY <1>1, <1>2 DEF Run

\* The depths with n results more.
Up(d, n) == [d EXCEPT !.results = @ + n]

\* n results more change no other depth, and add up.
LEMMA UpIsDepth ==
  ASSUME NEW d \in Depths, NEW n \in Nat
  PROVE  /\ Up(d, n) \in Depths /\ Up(d, n).results = d.results + n
         /\ Up(d, n).scopes = d.scopes /\ Up(d, n).expected = d.expected
         /\ Up(d, n).returns = d.returns /\ Up(d, n).loops = d.loops
         /\ Up(d, n).matches = d.matches
         /\ Up(d, 0) = d
         /\ \A m \in Nat : Up(Up(d, n), m) = Up(d, n + m)
         /\ Up(d, n) = Depth(d.results + n, d.scopes, d.expected, d.returns, d.loops, d.matches)
<1>1. d.results \in Nat /\ d = [results |-> d.results, scopes |-> d.scopes,
        expected |-> d.expected, returns |-> d.returns, loops |-> d.loops, matches |-> d.matches]
  BY DEF Depths
<1>2. \A m \in Nat : Up(d, m) = [results |-> d.results + m, scopes |-> d.scopes,
        expected |-> d.expected, returns |-> d.returns, loops |-> d.loops, matches |-> d.matches]
  BY <1>1 DEF Up
<1>3. \A m \in Nat : Up(d, m) \in Depths
  BY <1>2 DEF Depths
<1>4. \A m \in Nat : Up(Up(d, n), m) = Up(d, n + m)
  <2> TAKE m \in Nat
  <2> DEFINE u == Up(d, n)
  <2>0. u = [results |-> d.results + n, scopes |-> d.scopes, expected |-> d.expected,
             returns |-> d.returns, loops |-> d.loops, matches |-> d.matches]
    BY <1>2
  <2> HIDE DEF u
  <2>1. Up(u, m) = [results |-> (d.results + n) + m, scopes |-> d.scopes,
          expected |-> d.expected, returns |-> d.returns, loops |-> d.loops,
          matches |-> d.matches]
    BY <2>0 DEF Up
  <2>2. (d.results + n) + m = d.results + (n + m) /\ n + m \in Nat
    BY <1>1
  <2> QED
    BY <1>2, <2>1, <2>2 DEF u
<1> QED
  BY <1>1, <1>2, <1>3, <1>4 DEF Depth

\* Depths with the same fields are the same.
LEMMA SameDepths ==
  ASSUME NEW d \in Depths, NEW k \in Depths, d.results = k.results, d.scopes = k.scopes,
         d.expected = k.expected, d.returns = k.returns, d.loops = k.loops,
         d.matches = k.matches
  PROVE  d = k
  BY DEF Depths

\* Short sequences, put together.
LEMMA CatFew ==
  ASSUME NEW a, NEW b, NEW c
  PROVE  <<a>> \o <<b>> = <<a, b>> /\ <<a, b>> \o <<c>> = <<a, b, c>>
<1> DEFINE U == {a, b, c}
<1>1. IsSeq(<<a>>) /\ IsSeq(<<b>>) /\ IsSeq(<<c>>) /\ IsSeq(<<a, b>>) /\ IsSeq(<<a, b, c>>)
  <2>1. <<a>> \in Seq(U) /\ <<b>> \in Seq(U) /\ <<c>> \in Seq(U) /\ <<a, b>> \in Seq(U)
        /\ <<a, b, c>> \in Seq(U)
    OBVIOUS
  <2> QED
    BY <2>1, SeqIn
<1>2. /\ Len(<<a>>) = 1 /\ Len(<<b>>) = 1 /\ Len(<<c>>) = 1 /\ Len(<<a, b>>) = 2
      /\ Len(<<a, b, c>>) = 3
      /\ <<a>>[1] = a /\ <<b>>[1] = b /\ <<c>>[1] = c /\ <<a, b>>[1] = a /\ <<a, b>>[2] = b
      /\ <<a, b, c>>[1] = a /\ <<a, b, c>>[2] = b /\ <<a, b, c>>[3] = c
  OBVIOUS
<1>3. <<a>> \o <<b>> = <<a, b>>
  <2> DEFINE s == <<a>>
             t == <<b>>
             u == <<a, b>>
  <2>1. IsSeq(s) /\ IsSeq(t) /\ IsSeq(u) /\ Len(s) = 1 /\ Len(t) = 1 /\ Len(u) = 2
        /\ s[1] = a /\ t[1] = b /\ u[1] = a /\ u[2] = b
    BY <1>1, <1>2
  <2> HIDE DEF s, t, u
  <2>2. IsSeq(s \o t) /\ Len(s \o t) = 2 /\ (s \o t)[1] = a /\ (s \o t)[1 + 1] = b
    BY <2>1, SeqCat
  <2>3. DOMAIN (s \o t) = 1..2 /\ DOMAIN u = 1..2
    BY <2>1, <2>2, SeqLen
  <2>4. \A i \in 1..2 : (s \o t)[i] = u[i]
    BY <2>1, <2>2
  <2>5. s \o t = u
    BY <2>1, <2>2, <2>3, <2>4, SameElements
  <2> QED
    BY <2>5 DEF s, t, u
<1>4. <<a, b>> \o <<c>> = <<a, b, c>>
  <2> DEFINE s == <<a, b>>
             t == <<c>>
             u == <<a, b, c>>
  <2>1. IsSeq(s) /\ IsSeq(t) /\ IsSeq(u) /\ Len(s) = 2 /\ Len(t) = 1 /\ Len(u) = 3
        /\ s[1] = a /\ s[2] = b /\ t[1] = c /\ u[1] = a /\ u[2] = b /\ u[3] = c
    BY <1>1, <1>2
  <2> HIDE DEF s, t, u
  <2>2. IsSeq(s \o t) /\ Len(s \o t) = 3 /\ (s \o t)[1] = a /\ (s \o t)[2] = b
        /\ (s \o t)[2 + 1] = c
    <3>0. IsSeq(s) /\ IsSeq(t)
      BY <2>1
    <3>1. IsSeq(s \o t) /\ Len(s \o t) = Len(s) + Len(t)
          /\ (\A i \in 1..Len(s) : (s \o t)[i] = s[i])
          /\ (\A i \in 1..Len(t) : (s \o t)[Len(s) + i] = t[i])
      BY <3>0, SeqCat
    <3>2. 1 \in 1..Len(s) /\ 2 \in 1..Len(s) /\ 1 \in 1..Len(t)
      BY <2>1
    <3> QED
      BY <2>1, <3>1, <3>2
  <2>3. DOMAIN (s \o t) = 1..3 /\ DOMAIN u = 1..3
    BY <2>1, <2>2, SeqLen
  <2>4. \A i \in 1..3 : (s \o t)[i] = u[i]
    BY <2>1, <2>2
  <2>5. s \o t = u
    BY <2>1, <2>2, <2>3, <2>4, SameElements
  <2> QED
    BY <2>5 DEF s, t, u
<1> QED
  BY <1>3, <1>4

\* Two items, and three.
LEMMA RunTwo ==
  ASSUME NEW root, NEW e, NEW d, NEW a, NEW m, NEW b, NEW k,
         Moves(root, e, d, a, m), Moves(root, e, m, b, k)
  PROVE  Run(root, e, d, <<a, b>>, k)
<1>1. Run(root, e, d, <<a>> \o <<b>>, k)
  BY RunOne, RunCat
<1> QED
  BY <1>1, CatFew

\* Three items.
LEMMA RunThree ==
  ASSUME NEW root, NEW e, NEW d, NEW a, NEW m, NEW b, NEW n, NEW c, NEW k,
         Moves(root, e, d, a, m), Moves(root, e, m, b, n), Moves(root, e, n, c, k)
  PROVE  Run(root, e, d, <<a, b, c>>, k)
<1>1. Run(root, e, d, <<a, b>> \o <<c>>, k)
  BY RunTwo, RunOne, RunCat
<1> QED
  BY <1>1, CatFew

\* Items that each leave n results more.
Each(root, e, s, n) ==
  \A i \in DOMAIN s : \A d \in Depths : Moves(root, e, d, s[i], Up(d, n))

\* n results for each of the items.
LEMMA RunEach ==
  ASSUME NEW root, NEW e, NEW d \in Depths, NEW s, IsSeq(s), NEW n \in {0, 1},
         Each(root, e, s, n)
  PROVE  Run(root, e, d, s, Up(d, n * Len(s)))
<1>1. Len(s) \in Nat /\ DOMAIN s = 1..Len(s)
  BY SeqLen
<1> DEFINE h == [i \in 0..Len(s) |-> Up(d, n * i)]
<1>2. h[0] = d
  <2>1. Up(d, 0) = d /\ n * 0 = 0 /\ 0 \in 0..Len(s)
    BY <1>1, UpIsDepth
  <2> QED
    BY <2>1
<1>3. ASSUME NEW i \in DOMAIN s
      PROVE  Moves(root, e, h[i - 1], s[i], h[i])
  <2>1. /\ i \in 1..Len(s) /\ n * (i - 1) \in Nat /\ n * i \in Nat
        /\ n * i = n * (i - 1) + n /\ i \in 0..Len(s) /\ i - 1 \in 0..Len(s)
    <3>1. i \in 1..Len(s) /\ i \in 0..Len(s) /\ i - 1 \in 0..Len(s) /\ i \in Nat /\ i - 1 \in Nat
      BY <1>1
    <3>2. n = 0 \/ n = 1
      OBVIOUS
    <3> QED
      BY <3>1, <3>2
  <2>2. Up(d, n * (i - 1)) \in Depths /\ Up(Up(d, n * (i - 1)), n) = Up(d, n * i)
    <3> DEFINE p == n * (i - 1)
               q == n * i
    <3>1. p \in Nat /\ n \in Nat /\ p + n = q
      BY <2>1
    <3> HIDE DEF p, q
    <3>2. Up(d, p) \in Depths /\ Up(Up(d, p), n) = Up(d, q)
      BY <3>1, UpIsDepth
    <3> QED
      BY <3>2 DEF p, q
  <2>3. Moves(root, e, Up(d, n * (i - 1)), s[i], Up(d, n * i))
    BY <2>2 DEF Each
  <2>4. h[i - 1] = Up(d, n * (i - 1)) /\ h[i] = Up(d, n * i)
    BY <2>1
  <2> QED
    BY <2>3, <2>4
<1>4. h[Len(s)] = Up(d, n * Len(s))
  BY <1>1
<1> HIDE DEF h
<1> QED
  BY <1>2, <1>3, <1>4 DEF Run

-----------------------------------------------------------------------------
(* The moves of the items that only read and write results.                   *)

IsPlain(item) ==
  item.do \notin {"exit", "leave", "close", "record", "enterLoop", "leaveLoop", "arm",
                  "conclude"}

\* A plain item changes no depth but that of the results.
LEMMA TakingMoves ==
  ASSUME NEW root, NEW e, NEW d \in Depths, NEW item, IsPlain(item), Fits(root, e, item),
         NEW n \in Nat, Takes(root, item) = n, NEW m, Puts(root, item) = m
  PROVE  m \in Nat /\ Moves(root, e, Up(d, n), item, Up(d, m))
<1> DEFINE a == Up(d, n)
           b == Up(d, m)
<1>1. m \in {0, 1}
  BY DEF Puts
<1>2. a \in Depths /\ a.results = d.results + n /\ a.scopes = d.scopes
      /\ a.expected = d.expected /\ a.returns = d.returns /\ a.loops = d.loops
      /\ a.matches = d.matches
  BY UpIsDepth
<1>3. b \in Depths /\ b.results = d.results + m /\ b.scopes = d.scopes
      /\ b.expected = d.expected /\ b.returns = d.returns /\ b.loops = d.loops
      /\ b.matches = d.matches
  BY <1>1, UpIsDepth
<1>4. d.results \in Nat /\ d.scopes \in Nat /\ d.loops \in Nat
      /\ d.expected \in Nat /\ d.returns \in Nat /\ d.matches \in Nat
  BY DEF Depths
<1> HIDE DEF a, b
<1>5. a.results >= n /\ b.results = (a.results - n) + m
  BY <1>1, <1>2, <1>3, <1>4
<1>6. /\ item.do \notin {"exit", "leave", "close"} /\ item.do # "record" /\ item.do # "leave"
      /\ item.do # "enterLoop" /\ item.do # "leaveLoop" /\ item.do # "conclude"
      /\ item.do \notin {"arm", "close"}
  BY DEF IsPlain
<1>7. /\ (IF item.do \in {"exit", "leave", "close"} THEN 1 ELSE 0) = 0
      /\ (IF item.do = "record" THEN 1 ELSE 0) = 0
      /\ (IF item.do = "leave" THEN 1 ELSE 0) = 0
      /\ (IF item.do = "leaveLoop" THEN 1
          ELSE IF item.do = "enterLoop" THEN -1 ELSE 0) = 0
      /\ (IF item.do = "conclude" THEN 1 ELSE 0) = 0
  BY <1>6
<1>8. /\ a.scopes = b.scopes + 0 /\ a.expected = b.expected + 0
      /\ a.returns = b.returns + 0 /\ a.loops = b.loops + 0
      /\ a.matches = b.matches + 0
  BY <1>2, <1>3, <1>4
<1>9. Moves(root, e, a, item, b)
  BY <1>2, <1>3, <1>5, <1>6, <1>7, <1>8 DEF Moves
<1> QED
  BY <1>1, <1>9 DEF a, b

\* One that takes no results leaves as many more as it puts.
LEMMA PlainMoves ==
  ASSUME NEW root, NEW e, NEW d \in Depths, NEW item, IsPlain(item), Fits(root, e, item),
         Takes(root, item) = 0, NEW n, Puts(root, item) = n
  PROVE  n \in Nat /\ Moves(root, e, d, item, Up(d, n))
<1>1. n \in Nat /\ Moves(root, e, Up(d, 0), item, Up(d, n))
  BY TakingMoves
<1> QED
  BY <1>1, UpIsDepth

\* The kinds of statements, expressions and types.
LEMMA KindsOfNodes ==
  /\ \A n \in Stmts : n.kind \in StmtKinds /\ IsStmt(n)
  /\ \A n \in Exprs : n.kind \in ExprKinds /\ n.kind \notin StmtKinds /\ IsExpr(n)
  /\ \A n \in TypeExprs : n.kind \in TypeKinds /\ n.kind \notin StmtKinds /\ IsTypeExpr(n)
<1>1. \A n \in Stmts : n.kind \in StmtKinds /\ IsStmt(n)
  BY TreesAssumption DEF IsStmt
<1>2. \A n \in Exprs : n.kind \in ExprKinds /\ IsExpr(n)
  BY TreesAssumption DEF IsExpr
<1>3. \A n \in TypeExprs : n.kind \in TypeKinds /\ IsTypeExpr(n)
  BY TreesAssumption DEF IsTypeExpr
<1>4. ExprKinds \cap StmtKinds = {} /\ TypeKinds \cap StmtKinds = {}
  BY DEF ExprKinds, StmtKinds, TypeKinds
<1> QED
  BY <1>1, <1>2, <1>3, <1>4

\* A statement leaves no result, an expression and a type leave one.
LEMMA VisitMoves ==
  ASSUME NEW root, NEW e, NEW d \in Depths, NEW path
  PROVE  /\ Leads(root, path, Stmts) => Moves(root, e, d, Visit(path), Up(d, 0))
         /\ Leads(root, path, Exprs \cup TypeExprs) => Moves(root, e, d, Visit(path), Up(d, 1))
<1> DEFINE item == Visit(path)
<1>1. item.do = "visit" /\ item.at = path
  BY DEF Visit, Then
<1> HIDE DEF item
<1>2. IsPlain(item) /\ Takes(root, item) = 0
  BY <1>1 DEF IsPlain, Takes
<1>3. CASE Leads(root, path, Stmts)
  <2>1. Fits(root, e, item)
    BY <1>1, <1>3 DEF Fits, Leads
  <2>2. Puts(root, item) = 0 /\ ~Leads(root, path, Exprs \cup TypeExprs)
    BY <1>1, <1>3, KindsOfNodes DEF Puts, Leads
  <2> QED
    BY <1>2, <2>1, <2>2, PlainMoves DEF item
<1>4. CASE Leads(root, path, Exprs \cup TypeExprs)
  <2>1. Fits(root, e, item)
    BY <1>1, <1>4 DEF Fits, Leads
  <2>2. Puts(root, item) = 1 /\ ~Leads(root, path, Stmts)
    BY <1>1, <1>4, KindsOfNodes DEF Puts, Leads
  <2> QED
    BY <1>2, <2>1, <2>2, PlainMoves DEF item
<1> QED
  BY <1>3, <1>4

\* An evaluation leaves one result.
LEMMA EvalMoves ==
  ASSUME NEW root, NEW e, NEW d \in Depths, NEW path, Leads(root, path, Exprs),
         NEW type, GoodOr(e, type)
  PROVE  Moves(root, e, d, Eval(path, type), Up(d, 1))
<1> DEFINE item == Eval(path, type)
<1>1. item.do = "eval" /\ item.at = path /\ item.expects = type
  BY DEF Eval
<1> HIDE DEF item
<1>2. IsPlain(item) /\ Takes(root, item) = 0 /\ Puts(root, item) = 1
  BY <1>1 DEF IsPlain, Takes, Puts
<1>3. Fits(root, e, item)
  BY <1>1 DEF Fits
<1> QED
  BY <1>2, <1>3, PlainMoves DEF item

\* A type in place of one that is written leaves one result.
LEMMA YieldMoves ==
  ASSUME NEW root, NEW e, NEW d \in Depths, NEW type, Good(e, type)
  PROVE  Moves(root, e, d, Yield(type), Up(d, 1))
<1> DEFINE item == Yield(type)
<1>1. item.do = "yield" /\ item.type = type
  BY DEF Yield
<1> HIDE DEF item
<1>2. IsPlain(item) /\ Takes(root, item) = 0 /\ Puts(root, item) = 1
  BY <1>1 DEF IsPlain, Takes, Puts
<1>3. Fits(root, e, item)
  BY <1>1 DEF Fits
<1> QED
  BY <1>2, <1>3, PlainMoves DEF item

\* The items that are a step and a path, and need nothing of the node there.
LEMMA ThenMoves ==
  ASSUME NEW root, NEW e, NEW d \in Depths, NEW path
  PROVE  /\ \A what \in {"forget", "parameter", "condition", "returned"} :
              Moves(root, e, Up(d, 1), Then(what, path), Up(d, 0))
         /\ \A what \in {"aliased", "negate", "field"} :
              Moves(root, e, Up(d, 1), Then(what, path), Up(d, 1))
         /\ Moves(root, e, Up(d, 2), Then("bind", path), Up(d, 0))
         /\ Moves(root, e, Up(d, 2), Then("operate", path), Up(d, 1))
<1>1. ASSUME NEW what \in {"forget", "parameter", "condition", "returned", "aliased", "negate",
                           "field", "bind", "operate"}
      PROVE  Moves(root, e, Up(d, IF what \in {"bind", "operate"} THEN 2 ELSE 1),
                   Then(what, path),
                   Up(d, IF what \in {"aliased", "negate", "field", "operate"} THEN 1 ELSE 0))
  <2> DEFINE item == Then(what, path)
             n == IF what \in {"bind", "operate"} THEN 2 ELSE 1
  <2>1. item.do = what /\ n \in Nat
    BY DEF Then
  <2> HIDE DEF item
  <2>2. /\ IsPlain(item) /\ Takes(root, item) = n
        /\ Puts(root, item) = IF what \in {"aliased", "negate", "field", "operate"} THEN 1 ELSE 0
    BY <2>1 DEF IsPlain, Takes, Puts
  <2>3. Fits(root, e, item)
    BY <2>1 DEF Fits
  <2> HIDE DEF n
  <2>4. Moves(root, e, Up(d, n), item,
              Up(d, IF what \in {"aliased", "negate", "field", "operate"} THEN 1 ELSE 0))
    BY <2>1, <2>2, <2>3, TakingMoves
  <2> QED
    BY <2>4 DEF n, item
<1> QED
  BY <1>1

\* The items that change other stacks, each from depths to depths.
LEMMA StackMoves ==
  ASSUME NEW root, NEW e, NEW path, NEW r \in Nat, NEW s \in Nat, NEW x \in Nat, NEW u \in Nat,
         NEW l \in Nat, NEW m \in Nat
  PROVE
    /\ Moves(root, e, Depth(r, s + 1, x, u, l, m), Then("exit", path), Depth(r, s, x, u, l, m))
    /\ Moves(root, e, Depth(r, s + 1, x, u + 1, l, m), Then("leave", path), Depth(r, s, x, u, l, m))
    /\ Moves(root, e, Depth(r + 1, s, x + 1, u, l, m), Then("record", path),
             Depth(r + 1, s, x, u, l, m))
    /\ Moves(root, e, Depth(r, s, x, u, l, m), Then("enterLoop", path), Depth(r, s, x, u, l + 1, m))
    /\ Moves(root, e, Depth(r, s, x, u, l + 1, m), Then("leaveLoop", path), Depth(r, s, x, u, l, m))
    /\ Moves(root, e, Depth(r, s, x, u, l, m + 1), Then("conclude", path),
             Depth(r + 1, s, x, u, l, m))
    /\ m # 0 => 
         Moves(root, e, Depth(r + 1, s + 1, x, u, l, m), Then("close", path),
               Depth(r, s, x, u, l, m))
<1>1. ASSUME NEW what \in {"exit", "leave", "record", "enterLoop", "leaveLoop", "conclude",
                           "close"}
      PROVE  /\ Then(what, path).do = what /\ Fits(root, e, Then(what, path))
             /\ Takes(root, Then(what, path)) = IF what \in {"record", "close"} THEN 1 ELSE 0
             /\ Puts(root, Then(what, path)) = IF what \in {"record", "conclude"} THEN 1 ELSE 0
  <2> DEFINE item == Then(what, path)
  <2>1. item.do = what
    BY DEF Then
  <2> HIDE DEF item
  <2>2. Fits(root, e, item)
    BY <2>1 DEF Fits
  <2>3. /\ Takes(root, item) = IF what \in {"record", "close"} THEN 1 ELSE 0
        /\ Puts(root, item) = IF what \in {"record", "conclude"} THEN 1 ELSE 0
    BY <2>1 DEF Takes, Puts
  <2> QED
    BY <2>1, <2>2, <2>3 DEF item
<1>3. Moves(root, e, Depth(r, s + 1, x, u, l, m), Then("exit", path),
            Depth(r, s, x, u, l, m))
  <2> DEFINE item == Then("exit", path)
             d == Depth(r, s + 1, x, u, l, m)
             k == Depth(r, s, x, u, l, m)
  <2>1. item.do = "exit" /\ Fits(root, e, item) /\ Takes(root, item) = 0
        /\ Puts(root, item) = 0
    BY <1>1
  <2>2. /\ d \in Depths /\ k \in Depths
        /\ d.results = r /\ k.results = r /\ d.scopes = s + 1 /\ k.scopes = s
        /\ d.expected = x /\ k.expected = x /\ d.returns = u /\ k.returns = u
        /\ d.loops = l /\ k.loops = l /\ d.matches = m /\ k.matches = m
    BY DEF Depth, Depths
  <2> HIDE DEF item, d, k
  <2>3. Moves(root, e, d, item, k)
    BY <2>1, <2>2 DEF Moves
  <2> QED
    BY <2>3 DEF item, d, k
<1>4. Moves(root, e, Depth(r, s + 1, x, u + 1, l, m), Then("leave", path),
            Depth(r, s, x, u, l, m))
  <2> DEFINE item == Then("leave", path)
             d == Depth(r, s + 1, x, u + 1, l, m)
             k == Depth(r, s, x, u, l, m)
  <2>1. item.do = "leave" /\ Fits(root, e, item) /\ Takes(root, item) = 0
        /\ Puts(root, item) = 0
    BY <1>1
  <2>2. /\ d \in Depths /\ k \in Depths
        /\ d.results = r /\ k.results = r /\ d.scopes = s + 1 /\ k.scopes = s
        /\ d.expected = x /\ k.expected = x /\ d.returns = u + 1 /\ k.returns = u
        /\ d.loops = l /\ k.loops = l /\ d.matches = m /\ k.matches = m
    BY DEF Depth, Depths
  <2> HIDE DEF item, d, k
  <2>3. Moves(root, e, d, item, k)
    BY <2>1, <2>2 DEF Moves
  <2> QED
    BY <2>3 DEF item, d, k
<1>5. Moves(root, e, Depth(r + 1, s, x + 1, u, l, m), Then("record", path),
            Depth(r + 1, s, x, u, l, m))
  <2> DEFINE item == Then("record", path)
             d == Depth(r + 1, s, x + 1, u, l, m)
             k == Depth(r + 1, s, x, u, l, m)
  <2>1. item.do = "record" /\ Fits(root, e, item) /\ Takes(root, item) = 1
        /\ Puts(root, item) = 1
    BY <1>1
  <2>2. /\ d \in Depths /\ k \in Depths
        /\ d.results = r + 1 /\ k.results = r + 1 /\ d.scopes = s /\ k.scopes = s
        /\ d.expected = x + 1 /\ k.expected = x /\ d.returns = u /\ k.returns = u
        /\ d.loops = l /\ k.loops = l /\ d.matches = m /\ k.matches = m
    BY DEF Depth, Depths
  <2> HIDE DEF item, d, k
  <2>3. Moves(root, e, d, item, k)
    BY <2>1, <2>2 DEF Moves
  <2> QED
    BY <2>3 DEF item, d, k
<1>6. Moves(root, e, Depth(r, s, x, u, l, m), Then("enterLoop", path),
            Depth(r, s, x, u, l + 1, m))
  <2> DEFINE item == Then("enterLoop", path)
             d == Depth(r, s, x, u, l, m)
             k == Depth(r, s, x, u, l + 1, m)
  <2>1. item.do = "enterLoop" /\ Fits(root, e, item) /\ Takes(root, item) = 0
        /\ Puts(root, item) = 0
    BY <1>1
  <2>2. /\ d \in Depths /\ k \in Depths
        /\ d.results = r /\ k.results = r /\ d.scopes = s /\ k.scopes = s
        /\ d.expected = x /\ k.expected = x /\ d.returns = u /\ k.returns = u
        /\ d.loops = l /\ k.loops = l + 1 /\ d.matches = m /\ k.matches = m
    BY DEF Depth, Depths
  <2> HIDE DEF item, d, k
  <2>3. Moves(root, e, d, item, k)
    BY <2>1, <2>2 DEF Moves
  <2> QED
    BY <2>3 DEF item, d, k
<1>7. Moves(root, e, Depth(r, s, x, u, l + 1, m), Then("leaveLoop", path),
            Depth(r, s, x, u, l, m))
  <2> DEFINE item == Then("leaveLoop", path)
             d == Depth(r, s, x, u, l + 1, m)
             k == Depth(r, s, x, u, l, m)
  <2>1. item.do = "leaveLoop" /\ Fits(root, e, item) /\ Takes(root, item) = 0
        /\ Puts(root, item) = 0
    BY <1>1
  <2>2. /\ d \in Depths /\ k \in Depths
        /\ d.results = r /\ k.results = r /\ d.scopes = s /\ k.scopes = s
        /\ d.expected = x /\ k.expected = x /\ d.returns = u /\ k.returns = u
        /\ d.loops = l + 1 /\ k.loops = l /\ d.matches = m /\ k.matches = m
    BY DEF Depth, Depths
  <2> HIDE DEF item, d, k
  <2>3. Moves(root, e, d, item, k)
    BY <2>1, <2>2 DEF Moves
  <2> QED
    BY <2>3 DEF item, d, k
<1>8. Moves(root, e, Depth(r, s, x, u, l, m + 1), Then("conclude", path),
            Depth(r + 1, s, x, u, l, m))
  <2> DEFINE item == Then("conclude", path)
             d == Depth(r, s, x, u, l, m + 1)
             k == Depth(r + 1, s, x, u, l, m)
  <2>1. item.do = "conclude" /\ Fits(root, e, item) /\ Takes(root, item) = 0
        /\ Puts(root, item) = 1
    BY <1>1
  <2>2. /\ d \in Depths /\ k \in Depths
        /\ d.results = r /\ k.results = r + 1 /\ d.scopes = s /\ k.scopes = s
        /\ d.expected = x /\ k.expected = x /\ d.returns = u /\ k.returns = u
        /\ d.loops = l /\ k.loops = l /\ d.matches = m + 1 /\ k.matches = m
    BY DEF Depth, Depths
  <2> HIDE DEF item, d, k
  <2>3. Moves(root, e, d, item, k)
    BY <2>1, <2>2 DEF Moves
  <2> QED
    BY <2>3 DEF item, d, k
<1>9. m # 0 => Moves(root, e, Depth(r + 1, s + 1, x, u, l, m), Then("close", path),
                     Depth(r, s, x, u, l, m))
  <2> DEFINE item == Then("close", path)
             d == Depth(r + 1, s + 1, x, u, l, m)
             k == Depth(r, s, x, u, l, m)
  <2>1. item.do = "close" /\ Fits(root, e, item) /\ Takes(root, item) = 1
        /\ Puts(root, item) = 0
    BY <1>1
  <2>2. /\ d \in Depths /\ k \in Depths
        /\ d.results = r + 1 /\ k.results = r /\ d.scopes = s + 1 /\ k.scopes = s
        /\ d.expected = x /\ k.expected = x /\ d.returns = u /\ k.returns = u
        /\ d.loops = l /\ k.loops = l /\ d.matches = m /\ k.matches = m
    BY DEF Depth, Depths
  <2> HIDE DEF item, d, k
  <2>3. m # 0 => Moves(root, e, d, item, k)
    BY <2>1, <2>2 DEF Moves
  <2> QED
    BY <2>3 DEF item, d, k
<1> QED
  BY <1>3, <1>4, <1>5, <1>6, <1>7, <1>8, <1>9

-----------------------------------------------------------------------------
(* The invariant.                                                             *)

\* The depths the stacks are at, and where the work is to leave them.
Deep == Depth(Len(results), Len(symbols) - 1, Len(expected), Len(returns), Len(open_loops),
              Len(matching))
Ground == Depth(0, 0, 0, 0, 0, 0)

IsSymbol(e, s) ==
  /\ s = [kind |-> s.kind, type |-> s.type, params |-> s.params, effectful |-> s.effectful,
          declared |-> s.declared]
  /\ Good(e, s.type) /\ GoodTypes(e, s.params)
IsScope(e, scope) == \A name \in DOMAIN scope : IsSymbol(e, scope[name])
ScopesFit(e, scopes) == IsSeq(scopes) /\ \A i \in DOMAIN scopes : IsScope(e, scopes[i])
ExpectedFit(e, s) == IsSeq(s) /\ \A i \in DOMAIN s : GoodOr(e, s[i])

\* The declared types are good, and an alias leads to a type.
IsRecord(e, record) == \A f \in DOMAIN record : Good(e, record[f])
AreVariants(e, variants) ==
  IsSeq(variants) /\ \A i \in DOMAIN variants : GoodOr(e, variants[i].payload)
TablesFit(root, e, t) ==
  /\ t = [records |-> t.records, enums |-> t.enums, aliases |-> t.aliases,
          arities |-> t.arities, generics |-> t.generics, module |-> t.module,
          imports |-> t.imports, next_enum |-> t.next_enum]
  /\ \A n \in DOMAIN t.records : IsRecord(e, t.records[n])
  /\ \A n \in DOMAIN t.enums : AreVariants(e, t.enums[n].variants)
  /\ \A n \in DOMAIN t.aliases : Leads(root, t.aliases[n].at, TypeExprs)

\* A match in progress knows the variants of what it matches.
HasVariants(t, type) ==
  type.kind \in {"Option", "Result"} \/ (type.kind = "Custom" /\ type.name \in DOMAIN t.enums)
IsFrame(e, t, f) ==
  /\ f = [scrutinee |-> f.scrutinee, result |-> f.result, valid |-> f.valid, seen |-> f.seen,
          unguarded |-> f.unguarded, arms |-> f.arms]
  /\ Good(e, f.scrutinee) /\ Good(e, f.result) /\ HasVariants(t, f.scrutinee)
  /\ f.valid \/ e
FramesFit(e, t, s) == IsSeq(s) /\ \A i \in DOMAIN s : IsFrame(e, t, s[i])

FactsFit(e, f) ==
  /\ f = [types |-> f.types, matches |-> f.matches, loops |-> f.loops, vectors |-> f.vectors]
  /\ \A path \in DOMAIN f.types : Good(e, f.types[path])

StacksFit(e) ==
  /\ ScopesFit(e, symbols) /\ ExpectedFit(e, expected) /\ GoodTypes(e, returns)
  /\ IsSeq(effects) /\ Len(effects) = Len(returns) /\ IsSeq(open_loops)
  /\ FramesFit(e, tables, matching)

\* Every item of work finds what it needs, and leaves the stacks as they are to
\* be left; no error type stands anywhere before an error was reported.
AnalyzerInv ==
  /\ had_error \in BOOLEAN
  /\ Run(tree, had_error, Deep, todo, Ground)
  /\ GoodTypes(had_error, results) /\ StacksFit(had_error)
  /\ TablesFit(tree, had_error, tables) /\ FactsFit(had_error, facts)

\* The tree stays, and an error that was reported stays reported.
Goes == tree' = tree /\ had_error' \in BOOLEAN /\ (had_error => had_error')

\* A check keeps an earlier report, and a failed one is a report.
LEMMA ChecksGoes ==
  ASSUME AnalyzerInv, tree' = tree, NEW ok, Checks(ok)
  PROVE  Goes /\ (~ok => had_error')
<1>1. had_error \in BOOLEAN
  BY DEF AnalyzerInv
<1> QED
  BY <1>1, Zenon DEF Checks, Goes

\* So does a step that reports nothing.
LEMMA SilenceGoes ==
  ASSUME AnalyzerInv, tree' = tree, had_error' = had_error
  PROVE  Goes
  BY Zenon DEF AnalyzerInv, Goes

\* What fits goes on fitting.
LEMMA TypesStay ==
  ASSUME NEW e, NEW f, e => f
  PROVE  /\ \A t : Good(e, t) => Good(f, t)
         /\ \A t : GoodOr(e, t) => GoodOr(f, t)
         /\ \A s : GoodTypes(e, s) => GoodTypes(f, s)
<1>1. \A t : Good(e, t) => Good(f, t)
  BY GoodStays
<1> QED
  BY <1>1 DEF GoodOr, GoodTypes

\* The stacks and the tables go on fitting.
LEMMA FitStays ==
  ASSUME NEW e, NEW f, e => f
  PROVE  /\ \A s : ScopesFit(e, s) => ScopesFit(f, s)
         /\ \A s : ExpectedFit(e, s) => ExpectedFit(f, s)
         /\ \A r, t : TablesFit(r, e, t) => TablesFit(r, f, t)
         /\ \A t, s : FramesFit(e, t, s) => FramesFit(f, t, s)
         /\ \A s : FactsFit(e, s) => FactsFit(f, s)
<1>1. /\ \A t : Good(e, t) => Good(f, t)
      /\ \A t : GoodOr(e, t) => GoodOr(f, t)
      /\ \A s : GoodTypes(e, s) => GoodTypes(f, s)
  BY TypesStay
<1>2. \A s : IsSymbol(e, s) => IsSymbol(f, s)
  BY <1>1 DEF IsSymbol
<1>3. \A s : ScopesFit(e, s) => ScopesFit(f, s)
  BY <1>2 DEF ScopesFit, IsScope
<1>4. \A s : ExpectedFit(e, s) => ExpectedFit(f, s)
  BY <1>1 DEF ExpectedFit
<1>5. \A r, t : TablesFit(r, e, t) => TablesFit(r, f, t)
  <2> TAKE r, t
  <2> HAVE TablesFit(r, e, t)
  <2>1. \A n \in DOMAIN t.records : IsRecord(f, t.records[n])
    BY <1>1 DEF TablesFit, IsRecord
  <2>2. \A n \in DOMAIN t.enums : AreVariants(f, t.enums[n].variants)
    BY <1>1 DEF TablesFit, AreVariants
  <2> QED
    BY <2>1, <2>2 DEF TablesFit
<1>6. \A t, g : IsFrame(e, t, g) => IsFrame(f, t, g)
  BY <1>1 DEF IsFrame
<1>7. \A t, s : FramesFit(e, t, s) => FramesFit(f, t, s)
  BY <1>6 DEF FramesFit
<1>8. \A s : FactsFit(e, s) => FactsFit(f, s)
  BY <1>1 DEF FactsFit
<1> QED
  BY <1>3, <1>4, <1>5, <1>7, <1>8

\* What is not touched fits after the step.
LEMMA KeptFits ==
  ASSUME AnalyzerInv, Goes
  PROVE  /\ results' = results => GoodTypes(had_error', results')
         /\ symbols' = symbols => ScopesFit(had_error', symbols')
         /\ expected' = expected => ExpectedFit(had_error', expected')
         /\ returns' = returns => GoodTypes(had_error', returns')
         /\ tables' = tables => TablesFit(tree, had_error', tables')
         /\ tables' = tables /\ matching' = matching =>
              FramesFit(had_error', tables', matching')
         /\ facts' = facts => FactsFit(had_error', facts')
         /\ UNCHANGED <<stacks, tables>> => StacksFit(had_error)'
<1>1. had_error => had_error'
  BY DEF Goes
<1>2. /\ ScopesFit(had_error', symbols) /\ ExpectedFit(had_error', expected)
      /\ TablesFit(tree, had_error', tables) /\ FramesFit(had_error', tables, matching)
      /\ FactsFit(had_error', facts)
  BY <1>1, FitStays DEF AnalyzerInv, StacksFit
<1>3. GoodTypes(had_error', results) /\ GoodTypes(had_error', returns)
  BY <1>1, TypesStay DEF AnalyzerInv, StacksFit
<1>4. IsSeq(effects) /\ Len(effects) = Len(returns) /\ IsSeq(open_loops)
  BY DEF AnalyzerInv, StacksFit
<1> QED
  BY <1>2, <1>3, <1>4 DEF StacksFit, stacks

\* The step at hand: the item is replaced by items of its own.
LEMMA Replaces ==
  ASSUME AnalyzerInv, Goes, NEW items, Leaves(items), NEW m,
         Run(tree, had_error, m, Tail(todo), Ground), Run(tree, had_error', Deep', items, m),
         GoodTypes(had_error', results'), StacksFit(had_error)',
         TablesFit(tree, had_error', tables'), FactsFit(had_error', facts')
  PROVE  AnalyzerInv'
<1>1. had_error' \in BOOLEAN /\ (had_error => had_error') /\ tree' = tree
  BY DEF Goes
<1>2. Run(tree, had_error', m, Tail(todo), Ground)
  BY <1>1, RunStays
<1>3. Run(tree, had_error', Deep', items \o Tail(todo), Ground)
  BY <1>2, RunCat
<1>4. todo' = items \o Tail(todo) /\ Ground' = Ground
  BY DEF Leaves, Ground, Depth
<1>5. Run(tree, had_error, Deep, todo, Ground)'
  BY <1>1, <1>3, <1>4
<1> QED
  BY <1>1, <1>5 DEF AnalyzerInv

\* The depths are depths, and the item at the head moves them.
LEMMA HeadMoves ==
  ASSUME AnalyzerInv, todo # <<>>
  PROVE  /\ Deep \in Depths
         /\ \E m : Moves(tree, had_error, Deep, Item, m)
                   /\ Run(tree, had_error, m, Tail(todo), Ground)
<1>1. Run(tree, had_error, Deep, todo, Ground)
  BY DEF AnalyzerInv
<1> QED
  BY <1>1, RunEnd, RunTail DEF Item

\* Of a plain item: the depths without what it takes, and what it will put.
LEMMA HeadPlain ==
  ASSUME AnalyzerInv, todo # <<>>, IsPlain(Item)
  PROVE  /\ Fits(tree, had_error, Item) /\ Takes(tree, Item) \in Nat
         /\ Takes(tree, Item) <= Len(results)
         /\ \E b \in Depths :
              /\ Deep = Up(b, Takes(tree, Item))
              /\ Run(tree, had_error, Up(b, Puts(tree, Item)), Tail(todo), Ground)
<1>1. PICK m : Moves(tree, had_error, Deep, Item, m)
               /\ Run(tree, had_error, m, Tail(todo), Ground)
  BY HeadMoves
<1> DEFINE n == Takes(tree, Item)
           p == Puts(tree, Item)
           b == Depth(Deep.results - n, Deep.scopes, Deep.expected, Deep.returns, Deep.loops,
                      Deep.matches)
<1>2. Deep \in Depths /\ m \in Depths /\ Fits(tree, had_error, Item)
      /\ n \in Nat /\ Deep.results >= n /\ m.results = (Deep.results - n) + p
  BY <1>1 DEF Moves
<1>3. p \in {0, 1}
  BY DEF Puts
<1>4. /\ m.scopes = Deep.scopes /\ m.expected = Deep.expected /\ m.returns = Deep.returns
      /\ m.loops = Deep.loops /\ m.matches = Deep.matches
  <2>1. /\ Item.do \notin {"exit", "leave", "close"} /\ Item.do # "record" /\ Item.do # "leave"
        /\ Item.do # "enterLoop" /\ Item.do # "leaveLoop" /\ Item.do # "conclude"
    BY DEF IsPlain
  <2>2. /\ m.scopes \in Nat /\ m.expected \in Nat /\ m.returns \in Nat /\ m.loops \in Nat
        /\ m.matches \in Nat
    BY <1>2 DEF Depths
  <2> QED
    BY <1>1, <2>1, <2>2 DEF Moves
<1>5. Deep.results = Len(results) /\ Deep.results \in Nat
  BY <1>2 DEF Deep, Depth, Depths
<1> HIDE DEF n, p
<1>6. b \in Depths /\ b.results = Deep.results - n /\ b.scopes = Deep.scopes
      /\ b.expected = Deep.expected /\ b.returns = Deep.returns /\ b.loops = Deep.loops
      /\ b.matches = Deep.matches
  BY <1>2, <1>5 DEF Depth, Depths
<1> HIDE DEF b
<1>7. Deep = Up(b, n)
  <2> DEFINE u == Up(b, n)
  <2>1. u \in Depths /\ u.results = b.results + n /\ u.scopes = b.scopes
        /\ u.expected = b.expected /\ u.returns = b.returns /\ u.loops = b.loops
        /\ u.matches = b.matches
    BY <1>2, <1>6, UpIsDepth
  <2> HIDE DEF u
  <2>2. u.results = Deep.results
    BY <1>2, <1>5, <1>6, <2>1
  <2>3. Deep = u
    BY <1>2, <1>6, <2>1, <2>2, SameDepths
  <2> QED
    BY <2>3 DEF u
<1>8. m = Up(b, p)
  <2> DEFINE u == Up(b, p)
  <2>1. u \in Depths /\ u.results = b.results + p /\ u.scopes = b.scopes
        /\ u.expected = b.expected /\ u.returns = b.returns /\ u.loops = b.loops
        /\ u.matches = b.matches
    <3>1. p \in Nat
      BY <1>3
    <3> QED
      BY <3>1, <1>6, UpIsDepth
  <2> HIDE DEF u
  <2>2. u.results = m.results
    BY <1>2, <1>3, <1>5, <1>6, <2>1
  <2>3. m = u
    BY <1>2, <1>4, <1>6, <2>1, <2>2, SameDepths
  <2> QED
    BY <2>3 DEF u
<1> QED
  BY <1>1, <1>2, <1>5, <1>6, <1>7, <1>8 DEF n, p

\* The depths after a step that gives n results in place of what the item takes.
LEMMA DeepAgain ==
  ASSUME NEW b \in Depths, NEW n \in Nat, Deep = Up(b, n), NEW j \in Nat,
         Len(results) \in Nat, Len(results') = (Len(results) - n) + j,
         Len(symbols') = Len(symbols), Len(expected') = Len(expected),
         Len(returns') = Len(returns), Len(open_loops') = Len(open_loops),
         Len(matching') = Len(matching)
  PROVE  Deep' = Up(b, j)
<1>1. Deep = Depth(Len(results), Len(symbols) - 1, Len(expected), Len(returns),
                   Len(open_loops), Len(matching))
  BY DEF Deep
<1>2. Deep' = Depth(Len(results'), Len(symbols) - 1, Len(expected), Len(returns),
                    Len(open_loops), Len(matching))
  BY DEF Deep
<1>3. b.results \in Nat /\ b = Depth(b.results, b.scopes, b.expected, b.returns, b.loops,
                                     b.matches)
  BY DEF Depths, Depth
<1>4. \A i \in Nat : Up(b, i) = Depth(b.results + i, b.scopes, b.expected, b.returns, b.loops,
                                     b.matches)
  BY UpIsDepth
<1>5. Depth(Len(results), Len(symbols) - 1, Len(expected), Len(returns), Len(open_loops),
            Len(matching))
        = Depth(b.results + n, b.scopes, b.expected, b.returns, b.loops, b.matches)
  BY <1>1, <1>4
<1>6. /\ b.results + n = Len(results) /\ b.scopes = Len(symbols) - 1
      /\ b.expected = Len(expected) /\ b.returns = Len(returns) /\ b.loops = Len(open_loops)
      /\ b.matches = Len(matching)
  BY <1>5 DEF Depth
<1>7. Len(results') = b.results + j
  <2> DEFINE r == b.results
             q == Len(results)
             q1 == Len(results')
  <2>1. r \in Nat /\ q \in Nat /\ r + n = q /\ q1 = (q - n) + j
    BY <1>3, <1>6
  <2> HIDE DEF r, q, q1
  <2>2. q1 = r + j
    BY <2>1
  <2> QED
    BY <2>2 DEF r, q1
<1> QED
  BY <1>2, <1>4, <1>6, <1>7

-----------------------------------------------------------------------------
(* Steps of the common forms.                                                 *)

\* A part of a sequence.
LEMMA SubSeqIs ==
  ASSUME NEW s, IsSeq(s), NEW a \in Nat, a >= 1, NEW b \in Nat, b <= Len(s), a <= b + 1
  PROVE  /\ IsSeq(SubSeq(s, a, b)) /\ Len(SubSeq(s, a, b)) = (b - a) + 1
         /\ \A i \in DOMAIN SubSeq(s, a, b) :
              (i - 1) + a \in DOMAIN s /\ SubSeq(s, a, b)[i] = s[(i - 1) + a]
<1> DEFINE t == SubSeq(s, a, b)
<1>1. s \in Seq(Range(s)) /\ Len(s) \in Nat /\ DOMAIN s = 1..Len(s)
  BY SeqLen DEF IsSeq
<1>2. t = [i \in 1..((b - a) + 1) |-> s[(i - 1) + a]]
  BY <1>1
<1> DEFINE n == (b - a) + 1
<1>3. n \in Nat /\ \A i \in 1..n : (i - 1) + a \in 1..Len(s)
  BY <1>1
<1>4. t = [i \in 1..n |-> s[(i - 1) + a]]
  BY <1>2
<1> HIDE DEF t, n
<1>5. t \in Seq(Range(t)) /\ Len(t) = n /\ DOMAIN t = 1..n
  <2> DEFINE R == Range(t)
  <2>1. DOMAIN t = 1..n
    BY <1>4
  <2>2. \A i \in 1..n : s[(i - 1) + a] \in R
    BY <1>4 DEF Range
  <2> HIDE DEF R
  <2>3. t \in [1..n -> R]
    BY <1>4, <2>2
  <2>4. t \in Seq(R) /\ Len(t) = n
    BY <1>3, <2>3
  <2> QED
    BY <2>1, <2>4 DEF R
<1>6. \A i \in DOMAIN t : (i - 1) + a \in DOMAIN s /\ t[i] = s[(i - 1) + a]
  BY <1>1, <1>3, <1>4, <1>5
<1> QED
  BY <1>5, <1>6 DEF IsSeq, t, n

\* The first elements of a sequence of types with others in place of its last.
LEMMA GoodGiven ==
  ASSUME NEW e, NEW s, GoodTypes(e, s), NEW t, GoodTypes(e, t), NEW n \in Nat, n <= Len(s)
  PROVE  /\ GoodTypes(e, SubSeq(s, 1, Len(s) - n) \o t)
         /\ Len(SubSeq(s, 1, Len(s) - n) \o t) = (Len(s) - n) + Len(t)
<1> DEFINE r == SubSeq(s, 1, Len(s) - n)
<1>1. IsSeq(s) /\ IsSeq(t) /\ Len(s) \in Nat
  BY SeqLen DEF GoodTypes
<1>2. IsSeq(r) /\ Len(r) = Len(s) - n
      /\ \A i \in DOMAIN r : (i - 1) + 1 \in DOMAIN s /\ r[i] = s[(i - 1) + 1]
  <2> DEFINE b == Len(s) - n
  <2>1. b \in Nat /\ b <= Len(s) /\ 1 <= b + 1 /\ (b - 1) + 1 = b
    BY <1>1
  <2> HIDE DEF b
  <2>2. IsSeq(SubSeq(s, 1, b)) /\ Len(SubSeq(s, 1, b)) = (b - 1) + 1
        /\ \A i \in DOMAIN SubSeq(s, 1, b) :
             (i - 1) + 1 \in DOMAIN s /\ SubSeq(s, 1, b)[i] = s[(i - 1) + 1]
    BY <1>1, <2>1, SubSeqIs
  <2> QED
    BY <2>1, <2>2 DEF b
<1> HIDE DEF r
<1>3. \A i \in DOMAIN r : Good(e, r[i])
  BY <1>2 DEF GoodTypes
<1>4. \A i \in DOMAIN (r \o t) : Good(e, (r \o t)[i])
  BY <1>1, <1>2, <1>3, CatAt DEF GoodTypes
<1>5. IsSeq(r \o t) /\ Len(r \o t) = (Len(s) - n) + Len(t)
  BY <1>1, <1>2, SeqCat
<1> QED
  BY <1>4, <1>5 DEF GoodTypes, r

\* The results that an item of work takes.
LEMMA TakenAreGood ==
  ASSUME AnalyzerInv, NEW n \in Nat, n <= Len(results)
  PROVE  /\ GoodTypes(had_error, Args(n)) /\ Len(Args(n)) = n
         /\ n >= 1 => Good(had_error, Result(0))
         /\ n >= 2 => Good(had_error, Result(1))
<1>1. GoodTypes(had_error, results) /\ IsSeq(results) /\ Len(results) \in Nat
      /\ DOMAIN results = 1..Len(results)
  BY SeqLen DEF AnalyzerInv, GoodTypes
<1> DEFINE a == (Len(results) - n) + 1
<1>2. a \in Nat /\ a >= 1 /\ a <= Len(results) + 1 /\ (Len(results) - a) + 1 = n
      /\ Args(n) = SubSeq(results, a, Len(results))
  BY <1>1 DEF Args
<1> HIDE DEF a
<1>3. IsSeq(Args(n)) /\ Len(Args(n)) = n
      /\ \A i \in DOMAIN Args(n) : (i - 1) + a \in DOMAIN results
                                   /\ Args(n)[i] = results[(i - 1) + a]
  <2> DEFINE b == Len(results)
  <2>1. b \in Nat /\ b <= Len(results) /\ a <= b + 1 /\ (b - a) + 1 = n
        /\ Args(n) = SubSeq(results, a, b)
    BY <1>1, <1>2
  <2> HIDE DEF b
  <2>2. IsSeq(SubSeq(results, a, b)) /\ Len(SubSeq(results, a, b)) = (b - a) + 1
        /\ \A i \in DOMAIN SubSeq(results, a, b) :
             (i - 1) + a \in DOMAIN results
             /\ SubSeq(results, a, b)[i] = results[(i - 1) + a]
    BY <1>1, <1>2, <2>1, SubSeqIs
  <2> QED
    BY <2>1, <2>2
<1>4. GoodTypes(had_error, Args(n))
  BY <1>1, <1>3 DEF GoodTypes
<1>5. n >= 1 => Good(had_error, Result(0))
  BY <1>1 DEF Result, GoodTypes
<1>6. n >= 2 => Good(had_error, Result(1))
  BY <1>1 DEF Result, GoodTypes
<1> QED
  BY <1>3, <1>4, <1>5, <1>6

\* A step that gives types for the results it takes and leaves no work.
LEMMA Settles ==
  ASSUME AnalyzerInv, Goes, todo # <<>>, IsPlain(Item), Leaves(<<>>),
         NEW n, Takes(tree, Item) = n, NEW types, Puts(tree, Item) = Len(types),
         Gives(n, types), GoodTypes(had_error', types), StacksFit(had_error)',
         Len(symbols') = Len(symbols), Len(expected') = Len(expected),
         Len(returns') = Len(returns), Len(open_loops') = Len(open_loops),
         Len(matching') = Len(matching),
         TablesFit(tree, had_error', tables'), FactsFit(had_error', facts')
  PROVE  AnalyzerInv'
<1>1. PICK b \in Depths : /\ n \in Nat /\ n <= Len(results) /\ Deep = Up(b, n)
                          /\ Run(tree, had_error, Up(b, Len(types)), Tail(todo), Ground)
  BY HeadPlain
<1>2. had_error => had_error'
  BY DEF Goes
<1>3. GoodTypes(had_error', results) /\ IsSeq(results) /\ IsSeq(types)
  BY <1>2, TypesStay DEF AnalyzerInv, GoodTypes
<1>4. Len(results) \in Nat /\ Len(types) \in Nat
  BY <1>3, SeqLen
<1>5. GoodTypes(had_error', results') /\ Len(results') = (Len(results) - n) + Len(types)
  BY <1>1, <1>3, GoodGiven DEF Gives
<1>6. Deep' = Up(b, Len(types))
  BY <1>1, <1>4, <1>5, DeepAgain
<1>7. Run(tree, had_error', Deep', <<>>, Up(b, Len(types)))
  BY <1>1, <1>4, <1>6, UpIsDepth, RunNone
<1> QED
  BY <1>1, <1>5, <1>7, Replaces

\* The step that does nothing else.
LEMMA Judged ==
  ASSUME AnalyzerInv, todo # <<>>, IsPlain(Item), NEW n, Takes(tree, Item) = n,
         NEW types, Puts(tree, Item) = Len(types), NEW ok, Judges(n, types, ok),
         GoodTypes(had_error', types)
  PROVE  AnalyzerInv'
<1>1. tree' = tree /\ Checks(ok) /\ Leaves(<<>>) /\ Gives(n, types)
      /\ UNCHANGED <<stacks, tables, facts>>
  BY DEF Judges
<1>2. Goes
  BY <1>1, ChecksGoes
<1>3. StacksFit(had_error)' /\ TablesFit(tree, had_error', tables')
      /\ FactsFit(had_error', facts')
  BY <1>1, <1>2, KeptFits DEF stacks
<1>4. Len(symbols') = Len(symbols) /\ Len(expected') = Len(expected)
      /\ Len(returns') = Len(returns) /\ Len(open_loops') = Len(open_loops)
      /\ Len(matching') = Len(matching)
  BY <1>1 DEF stacks
<1> QED
  BY <1>1, <1>2, <1>3, <1>4, Settles

\* One type, or none.
LEMMA JudgedOne ==
  ASSUME AnalyzerInv, todo # <<>>, IsPlain(Item), NEW n, Takes(tree, Item) = n,
         Puts(tree, Item) = 1, NEW type, NEW ok, Judges(n, <<type>>, ok),
         Good(had_error', type)
  PROVE  AnalyzerInv'
<1>1. GoodTypes(had_error', <<type>>) /\ Len(<<type>>) = 1
  BY GoodFew
<1> QED
  BY <1>1, Judged

\* A visitor that only takes results.
LEMMA JudgedNone ==
  ASSUME AnalyzerInv, todo # <<>>, IsPlain(Item), NEW n, Takes(tree, Item) = n,
         Puts(tree, Item) = 0, NEW ok, Judges(n, <<>>, ok)
  PROVE  AnalyzerInv'
<1>1. GoodTypes(had_error', <<>>) /\ Len(<<>>) = 0
  BY GoodFew
<1> QED
  BY <1>1, Judged

\* A type is given, or the error type with a report.
LEMMA JudgedOr ==
  ASSUME AnalyzerInv, todo # <<>>, IsPlain(Item), NEW n, Takes(tree, Item) = n,
         Puts(tree, Item) = 1, NEW type, JudgesOr(n, type), GoodOr(had_error, type)
  PROVE  AnalyzerInv'
<1> DEFINE t == IF type = Nothing THEN Error ELSE type
<1>1. Judges(n, <<t>>, type # Nothing)
  BY DEF JudgesOr
<1>2. Goes /\ (~(type # Nothing) => had_error')
  <2>1. tree' = tree /\ Checks(type # Nothing)
    BY <1>1 DEF Judges
  <2> QED
    BY <2>1, ChecksGoes
<1>3. Good(had_error', t)
  <2>1. CASE type = Nothing
    BY <1>2, <2>1, GoodOf
  <2>2. CASE type # Nothing
    BY <1>2, <2>2, TypesStay DEF GoodOr, Goes
  <2> QED
    BY <2>1, <2>2
<1> HIDE DEF t
<1> QED
  BY <1>1, <1>3, JudgedOne

\* A step that puts items in place of one and touches nothing else.
LEMMA Expanded ==
  ASSUME AnalyzerInv, Goes, NEW items, Leaves(items),
         UNCHANGED <<results, stacks, tables, facts>>,
         NEW m, Run(tree, had_error, m, Tail(todo), Ground),
         Run(tree, had_error', Deep, items, m)
  PROVE  AnalyzerInv'
<1>1. Deep' = Deep
  BY DEF Deep, stacks
<1>2. GoodTypes(had_error', results') /\ StacksFit(had_error)'
      /\ TablesFit(tree, had_error', tables') /\ FactsFit(had_error', facts')
  BY KeptFits
<1>3. Run(tree, had_error', Deep', items, m)
  BY <1>1
<1> QED
  BY <1>2, <1>3, Replaces

\* A visitor that replaces itself by work with the same ends.
LEMMA ExpandedSilently ==
  ASSUME AnalyzerInv, NEW items, Expands(items),
         NEW m, Run(tree, had_error, m, Tail(todo), Ground),
         Run(tree, had_error, Deep, items, m)
  PROVE  AnalyzerInv'
<1>1. /\ Leaves(items) /\ tree' = tree /\ had_error' = had_error
      /\ UNCHANGED <<results, stacks, tables, facts>>
  BY DEF Expands
<1>2. Goes
  BY <1>1, SilenceGoes
<1>3. Run(tree, had_error', Deep, items, m)
  BY <1>1
<1> QED
  BY <1>1, <1>2, <1>3, Expanded

\* A visit: what it is of, and what it is to leave.
LEMMA Visited ==
  ASSUME AnalyzerInv, NEW kind, Visiting(kind)
  PROVE  /\ todo # <<>> /\ IsPlain(Item) /\ Takes(tree, Item) = 0
         /\ Item.at \in Seq(Nat) /\ At(Item.at) = NodeAt(tree, Item.at)
         /\ At(Item.at).kind = kind /\ Here = At(Item.at).parts /\ Deep \in Depths
         /\ kind \in StmtKinds =>
              /\ At(Item.at) \in Stmts /\ IsStmt(At(Item.at)) /\ Puts(tree, Item) = 0
              /\ Run(tree, had_error, Deep, Tail(todo), Ground)
         /\ kind \in ExprKinds =>
              /\ At(Item.at) \in Exprs /\ IsExpr(At(Item.at)) /\ Puts(tree, Item) = 1
              /\ Run(tree, had_error, Up(Deep, 1), Tail(todo), Ground)
         /\ kind \in TypeKinds =>
              /\ At(Item.at) \in TypeExprs /\ IsTypeExpr(At(Item.at)) /\ Puts(tree, Item) = 1
              /\ Run(tree, had_error, Up(Deep, 1), Tail(todo), Ground)
<1>1. todo # <<>> /\ Item.do = "visit" /\ At(Item.at).kind = kind
  BY DEF Visiting, Doing
<1>2. IsPlain(Item) /\ Takes(tree, Item) = 0
  BY <1>1 DEF IsPlain, Takes
<1>3. PICK b \in Depths : /\ Fits(tree, had_error, Item) /\ Deep = Up(b, 0)
                          /\ Run(tree, had_error, Up(b, Puts(tree, Item)), Tail(todo), Ground)
  BY <1>1, <1>2, HeadPlain
<1>4. b = Deep /\ Deep \in Depths
  BY <1>3, UpIsDepth
<1>5. Item.at \in Seq(Nat) /\ At(Item.at) \in Stmts \cup Exprs \cup TypeExprs
      /\ At(Item.at) = NodeAt(tree, Item.at)
  BY <1>1, <1>3 DEF Fits, Leads, At
<1>6. Puts(tree, Item) = IF kind \in StmtKinds THEN 0 ELSE 1
  BY <1>1, <1>5 DEF Puts
<1>7. /\ ExprKinds \cap StmtKinds = {} /\ TypeKinds \cap StmtKinds = {}
      /\ ExprKinds \cap TypeKinds = {}
  BY DEF ExprKinds, StmtKinds, TypeKinds
<1>8. CASE kind \in StmtKinds
  <2>1. At(Item.at) \in Stmts /\ IsStmt(At(Item.at))
    BY <1>1, <1>5, <1>8, KindsOfNodes
  <2> QED
    BY <1>1, <1>2, <1>3, <1>4, <1>5, <1>6, <1>7, <1>8, <2>1, UpIsDepth DEF Here
<1>9. CASE kind \in ExprKinds
  <2>1. At(Item.at) \in Exprs /\ IsExpr(At(Item.at))
    BY <1>1, <1>5, <1>7, <1>9, KindsOfNodes
  <2> QED
    BY <1>1, <1>2, <1>3, <1>4, <1>5, <1>6, <1>7, <1>9, <2>1 DEF Here
<1>10. CASE kind \in TypeKinds
  <2>1. At(Item.at) \in TypeExprs /\ IsTypeExpr(At(Item.at))
    BY <1>1, <1>5, <1>7, <1>10, KindsOfNodes
  <2> QED
    BY <1>1, <1>2, <1>3, <1>4, <1>5, <1>6, <1>7, <1>10, <2>1 DEF Here
<1>11. kind \in StmtKinds \cup ExprKinds \cup TypeKinds
  BY <1>1, <1>5, KindsOfNodes
<1> QED
  BY <1>8, <1>9, <1>10, <1>11

\* The parts of the node at hand.
LEMMA PartsBelow ==
  ASSUME Item.at \in Seq(Nat), NEW i \in Nat, NEW j \in Nat, NEW k \in Nat, NEW nodes
  PROVE  /\ Here[i] \in nodes => Leads(tree, Below(i), nodes)
         /\ Here[i].parts[j] \in nodes => Leads(tree, Below(i) \o <<j>>, nodes)
         /\ Here[i].parts[j] \in nodes => Leads(tree, Item.at \o <<i, j>>, nodes)
         /\ Here[i].parts[j].parts[k] \in nodes => Leads(tree, Below(i) \o <<j, k>>, nodes)
         /\ Below(i) \in Seq(Nat) /\ At(Below(i)) = Here[i]
         /\ Below(i) \o <<j>> \in Seq(Nat)
         /\ NodeAt(tree, Below(i) \o <<j>>) = Here[i].parts[j]
<1>1. /\ Part(Item.at, i) \in Seq(Nat)
      /\ Part(Item.at, i) \o <<j>> \in Seq(Nat)
      /\ Item.at \o <<i, j>> \in Seq(Nat)
      /\ Part(Item.at, i) \o <<j, k>> \in Seq(Nat)
      /\ NodeAt(tree, Part(Item.at, i)) = NodeAt(tree, Item.at).parts[i]
      /\ NodeAt(tree, Part(Item.at, i) \o <<j>>) = NodeAt(tree, Item.at).parts[i].parts[j]
      /\ NodeAt(tree, Item.at \o <<i, j>>) = NodeAt(tree, Item.at).parts[i].parts[j]
      /\ NodeAt(tree, Part(Item.at, i) \o <<j, k>>)
           = NodeAt(tree, Item.at).parts[i].parts[j].parts[k]
  BY PathsBelow
<1>2. Below(i) = Part(Item.at, i) /\ Here = NodeAt(tree, Item.at).parts
      /\ At(Below(i)) = NodeAt(tree, Part(Item.at, i))
  BY DEF Here, At, Below
<1> QED
  BY <1>1, <1>2 DEF Leads

-----------------------------------------------------------------------------
(* Stacks and scopes.                                                         *)

\* The last element of a stack, and the stack without it, with one more, and
\* with another in place of one.
LEMMA LastIs ==
  ASSUME NEW s, IsSeq(s), s # <<>>
  PROVE  Len(s) \in DOMAIN s /\ Len(s) >= 1 /\ Last(s) = s[Len(s)]
<1>1. Len(s) \in Nat /\ DOMAIN s = 1..Len(s) /\ s \in Seq(Range(s))
  BY SeqLen DEF IsSeq
<1>2. Len(s) # 0
  BY <1>1
<1> QED
  BY <1>1, <1>2 DEF Last

\* A stack without its top.
LEMMA FrontIs ==
  ASSUME NEW s, IsSeq(s), Len(s) # 0
  PROVE  /\ IsSeq(Front(s)) /\ Len(Front(s)) = Len(s) - 1
         /\ \A i \in DOMAIN Front(s) : i \in DOMAIN s /\ Front(s)[i] = s[i]
<1> DEFINE b == Len(s) - 1
<1>1. Len(s) \in Nat
  BY SeqLen
<1>2. b \in Nat /\ b <= Len(s) /\ 1 <= b + 1 /\ (b - 1) + 1 = b /\ Front(s) = SubSeq(s, 1, b)
  BY <1>1 DEF Front
<1> HIDE DEF b
<1>3. IsSeq(SubSeq(s, 1, b)) /\ Len(SubSeq(s, 1, b)) = (b - 1) + 1
      /\ \A i \in DOMAIN SubSeq(s, 1, b) :
           (i - 1) + 1 \in DOMAIN s /\ SubSeq(s, 1, b)[i] = s[(i - 1) + 1]
  BY <1>2, SubSeqIs
<1>4. \A i \in DOMAIN Front(s) : (i - 1) + 1 = i
  <2>1. DOMAIN Front(s) = 1..Len(Front(s)) /\ Len(Front(s)) \in Nat
    BY <1>2, <1>3, SeqLen
  <2> QED
    BY <2>1
<1>5. Len(Front(s)) = b
  BY <1>2, <1>3
<1> QED
  BY <1>2, <1>3, <1>4, <1>5 DEF b

\* A stack with one more.
LEMMA AppendIs ==
  ASSUME NEW s, IsSeq(s), NEW x
  PROVE  /\ IsSeq(Append(s, x)) /\ Len(Append(s, x)) = Len(s) + 1
         /\ \A i \in DOMAIN Append(s, x) :
              (i \in DOMAIN s /\ Append(s, x)[i] = s[i]) \/ Append(s, x)[i] = x
<1>1. IsSeq(Append(s, x)) /\ Len(Append(s, x)) = Len(s) + 1
  BY SeqAppend
<1>2. Len(s) \in Nat /\ DOMAIN s = 1..Len(s) /\ s \in Seq(Range(s) \cup {x})
  BY SeqLen DEF IsSeq
<1>3. DOMAIN Append(s, x) = 1..(Len(s) + 1)
  BY <1>1, SeqLen
<1> QED
  BY <1>1, <1>2, <1>3

\* A sequence made of the places of another.
LEMMA MadeIs ==
  ASSUME NEW s, IsSeq(s), NEW f, f = [i \in DOMAIN s |-> f[i]]
  PROVE  IsSeq(f) /\ Len(f) = Len(s) /\ DOMAIN f = DOMAIN s
<1>1. Len(s) \in Nat /\ DOMAIN s = 1..Len(s) /\ DOMAIN f = 1..Len(s)
  BY SeqLen
<1> DEFINE R == Range(f)
           n == Len(s)
<1>2. \A i \in 1..n : f[i] \in R
  BY <1>1 DEF Range
<1> HIDE DEF R, n
<1>3. f \in [1..n -> R] /\ n \in Nat
  BY <1>1, <1>2 DEF n
<1>4. f \in Seq(R) /\ Len(f) = n
  BY <1>3
<1> QED
  BY <1>1, <1>4 DEF R, n, IsSeq

\* One with another element in place of one.
LEMMA ExceptIs ==
  ASSUME NEW s, IsSeq(s), NEW k, NEW x
  PROVE  /\ IsSeq([s EXCEPT ![k] = x]) /\ Len([s EXCEPT ![k] = x]) = Len(s)
         /\ DOMAIN [s EXCEPT ![k] = x] = DOMAIN s
         /\ \A i \in DOMAIN s : [s EXCEPT ![k] = x][i] = IF i = k THEN x ELSE s[i]
<1> DEFINE f == [s EXCEPT ![k] = x]
<1>1. f = [i \in DOMAIN s |-> IF i = k THEN x ELSE s[i]]
  OBVIOUS
<1> HIDE DEF f
<1>2. f = [i \in DOMAIN s |-> f[i]]
  BY <1>1
<1>3. IsSeq(f) /\ Len(f) = Len(s) /\ DOMAIN f = DOMAIN s
  BY <1>2, MadeIs
<1> QED
  BY <1>1, <1>3 DEF f

\* The scopes: one there is at least.
LEMMA SomeScope ==
  ASSUME AnalyzerInv
  PROVE  /\ Deep \in Depths /\ Len(symbols) \in Nat /\ Len(symbols) >= 1
         /\ Len(symbols) \in DOMAIN symbols /\ symbols # <<>>
         /\ Last(symbols) = symbols[Len(symbols)]
<1>1. Deep \in Depths /\ IsSeq(symbols)
  BY RunEnd DEF AnalyzerInv, StacksFit, ScopesFit
<1>2. Len(symbols) - 1 \in Nat /\ Len(symbols) \in Nat /\ DOMAIN symbols = 1..Len(symbols)
  BY <1>1, SeqLen DEF Deep, Depth, Depths
<1>3. Len(symbols) >= 1 /\ Len(symbols) \in DOMAIN symbols
  BY <1>2
<1>4. symbols # <<>>
  BY <1>3
<1> QED
  BY <1>1, <1>2, <1>3, <1>4 DEF Last

\* The symbols of variables and functions have the types they are given.
LEMMA NewSymbols ==
  ASSUME NEW e, NEW path, NEW type, Good(e, type)
  PROVE  IsSymbol(e, VariableSymbol(path, type)) /\ IsSymbol(e, FunctionSymbol(path))
<1>1. GoodTypes(e, <<>>) /\ Good(e, Unknown)
  BY GoodFew, GoodOf
<1>2. \A kind, t, b : Good(e, t) =>
        IsSymbol(e, [kind |-> kind, type |-> t, params |-> <<>>, effectful |-> b,
                     declared |-> path])
  BY <1>1 DEF IsSymbol
<1>3. PICK no : no = FALSE
  OBVIOUS
<1>4. \A t : VariableSymbol(path, t) = [kind |-> "Variable", type |-> t, params |-> <<>>,
                                       effectful |-> no, declared |-> path]
  BY <1>3, Zenon DEF VariableSymbol
<1>5. \A v : v = [kind |-> "Variable", type |-> Unknown, params |-> <<>>, effectful |-> no,
                 declared |-> path]
        => [v EXCEPT !.kind = "Function"]
             = [kind |-> "Function", type |-> Unknown, params |-> <<>>, effectful |-> no,
                declared |-> path]
  OBVIOUS
<1>6. FunctionSymbol(path) = [kind |-> "Function", type |-> Unknown, params |-> <<>>,
                              effectful |-> no, declared |-> path]
  BY <1>4, <1>5 DEF FunctionSymbol
<1> QED
  BY <1>1, <1>2, <1>4, <1>6

\* A definition in the innermost scope.
LEMMA DefineFits ==
  ASSUME NEW e, NEW scopes, ScopesFit(e, scopes), NEW name, NEW symbol, IsSymbol(e, symbol)
  PROVE  /\ ScopesFit(e, Define(scopes, name, symbol))
         /\ Len(Define(scopes, name, symbol)) = Len(scopes)
<1> DEFINE k == Len(scopes)
           x == Extended(scopes[k], name, symbol)
<1>1. IsSeq(scopes)
  BY DEF ScopesFit
<1>2. k \in DOMAIN scopes => IsScope(e, x)
  BY DEF ScopesFit, IsScope, Extended
<1>3. Define(scopes, name, symbol) = [scopes EXCEPT ![k] = x]
  BY DEF Define
<1> HIDE DEF k, x
<1>4. /\ IsSeq([scopes EXCEPT ![k] = x]) /\ Len([scopes EXCEPT ![k] = x]) = Len(scopes)
      /\ DOMAIN [scopes EXCEPT ![k] = x] = DOMAIN scopes
      /\ \A i \in DOMAIN scopes : [scopes EXCEPT ![k] = x][i] = IF i = k THEN x ELSE scopes[i]
  BY <1>1, ExceptIs
<1> QED
  BY <1>2, <1>3, <1>4 DEF ScopesFit

\* One scope more.
LEMMA ScopeEnters ==
  ASSUME NEW e, NEW scopes, ScopesFit(e, scopes), NEW scope, IsScope(e, scope)
  PROVE  ScopesFit(e, Append(scopes, scope)) /\ Len(Append(scopes, scope)) = Len(scopes) + 1
  BY AppendIs DEF ScopesFit

\* One scope less.
LEMMA ScopeLeaves ==
  ASSUME NEW e, NEW scopes, ScopesFit(e, scopes), Len(scopes) # 0
  PROVE  ScopesFit(e, Front(scopes)) /\ Len(Front(scopes)) = Len(scopes) - 1
  BY FrontIs DEF ScopesFit

\* A new scope has no names.
LEMMA EmptyScope ==
  ASSUME NEW e
  PROVE  IsScope(e, Empty)
  BY DEF IsScope, Empty

\* A name that is defined is in the scope it resolves to.
LEMMA Resolved ==
  ASSUME AnalyzerInv, NEW name, IsDefined(name)
  PROVE  /\ Scope(name) \in DOMAIN symbols /\ name \in DOMAIN symbols[Scope(name)]
         /\ IsSymbol(had_error, Resolve(name))
         /\ Good(had_error, Resolve(name).type) /\ GoodTypes(had_error, Resolve(name).params)
<1> DEFINE I == {i \in 1..Len(symbols) : name \in DOMAIN symbols[i]}
<1>1. Len(symbols) \in Nat /\ DOMAIN symbols = 1..Len(symbols)
  BY SeqLen DEF AnalyzerInv, StacksFit, ScopesFit
<1>2. Scope(name) = IF I # {} THEN Max(I) ELSE 0
  BY DEF Scope, SelectLastInSeq
<1>3. I # {} /\ Scope(name) = Max(I)
  BY <1>2 DEF IsDefined
<1>4. Max(I) \in I
  <2>1. I \subseteq 1..Len(symbols)
    OBVIOUS
  <2> HIDE DEF I
  <2> QED
    BY <1>1, <1>3, <2>1, Extremes
<1>5. Scope(name) \in DOMAIN symbols /\ name \in DOMAIN symbols[Scope(name)]
  BY <1>1, <1>3, <1>4
<1>6. IsSymbol(had_error, Resolve(name))
  BY <1>5 DEF AnalyzerInv, StacksFit, ScopesFit, IsScope, Resolve
<1> QED
  BY <1>5, <1>6 DEF IsSymbol

\* The type that is expected.
LEMMA WantedIsGood ==
  ASSUME AnalyzerInv
  PROVE  GoodOr(had_error, Wanted)
<1>1. IsSeq(expected) /\ \A i \in DOMAIN expected : GoodOr(had_error, expected[i])
  BY DEF AnalyzerInv, StacksFit, ExpectedFit
<1>2. CASE expected = <<>>
  BY <1>2 DEF Wanted, GoodOr
<1>3. CASE expected # <<>>
  BY <1>1, <1>3, LastIs DEF Wanted
<1> QED
  BY <1>2, <1>3

\* The variant of a name is one of the variants.
LEMMA VariantIs ==
  ASSUME NEW variants, IsSeq(variants), NEW name, VariantOf(variants, name) # 0
  PROVE  VariantOf(variants, name) \in DOMAIN variants
<1> DEFINE I == {i \in 1..Len(variants) : variants[i].name = name}
<1>1. Len(variants) \in Nat /\ DOMAIN variants = 1..Len(variants)
  BY SeqLen
<1>2. VariantOf(variants, name) = IF I # {} THEN Min(I) ELSE 0
  BY DEF VariantOf, SelectInSeq
<1>3. I # {} => Min(I) \in I
  <2>1. I \subseteq 1..Len(variants)
    OBVIOUS
  <2> HIDE DEF I
  <2> QED
    BY <1>1, <2>1, Extremes
<1> QED
  BY <1>1, <1>2, <1>3

\* The first and the last place of a value in a sequence that has it.
LEMMA Places ==
  ASSUME NEW s, IsSeq(s), NEW x \in Range(s)
  PROVE  /\ SelectInSeq(s, LAMBDA n : n = x) \in DOMAIN s
         /\ SelectLastInSeq(s, LAMBDA n : n = x) \in DOMAIN s
<1> DEFINE I == {i \in 1..Len(s) : s[i] = x}
<1>1. Len(s) \in Nat /\ DOMAIN s = 1..Len(s)
  BY SeqLen
<1>2. I # {}
  BY <1>1 DEF Range
<1>3. SelectInSeq(s, LAMBDA n : n = x) = Min(I) /\ SelectLastInSeq(s, LAMBDA n : n = x) = Max(I)
  BY <1>2 DEF SelectInSeq, SelectLastInSeq
<1>4. Min(I) \in I /\ Max(I) \in I
  <2>1. I \subseteq 1..Len(s)
    OBVIOUS
  <2> HIDE DEF I
  <2> QED
    BY <1>1, <1>2, <2>1, Extremes
<1> QED
  BY <1>1, <1>3, <1>4

-----------------------------------------------------------------------------
(* More forms of work.                                                        *)

\* Items that leave nothing, and items that leave a result each.
LEMMA RunSilent ==
  ASSUME NEW root, NEW e, NEW d \in Depths, NEW s, IsSeq(s), Each(root, e, s, 0)
  PROVE  Run(root, e, d, s, d)
<1>1. Len(s) \in Nat
  BY SeqLen
<1>2. Run(root, e, d, s, Up(d, 0 * Len(s)))
  BY RunEach
<1>3. 0 * Len(s) = 0
  BY <1>1
<1> QED
  BY <1>2, <1>3, UpIsDepth

\* One result for each of the items.
LEMMA RunGiving ==
  ASSUME NEW root, NEW e, NEW d \in Depths, NEW s, IsSeq(s), Each(root, e, s, 1)
  PROVE  Run(root, e, d, s, Up(d, Len(s)))
<1>1. Len(s) \in Nat
  BY SeqLen
<1>2. Run(root, e, d, s, Up(d, 1 * Len(s)))
  BY RunEach
<1>3. 1 * Len(s) = Len(s)
  BY <1>1
<1> QED
  BY <1>2, <1>3

\* The nodes of a list below the node at hand.
LEMMA RunVisits ==
  ASSUME NEW e, Item.at \in Seq(Nat), NEW i \in Nat, ListOf(Here[i], Stmts), NEW d \in Depths
  PROVE  Run(tree, e, d, VisitAll(Below(i)), d) /\ IsSeq(VisitAll(Below(i)))
<1> DEFINE s == VisitAll(Below(i))
           parts == Here[i].parts
<1>1. IsSeq(parts) /\ \A j \in DOMAIN parts : parts[j] \in Stmts /\ j \in Nat
  <2>1. parts \in Seq(Stmts)
    BY DEF ListOf
  <2> HIDE DEF parts
  <2> QED
    BY <2>1, SeqIn
<1>2. s = [j \in DOMAIN parts |-> Visit(Part(Below(i), j))]
  <2>1. At(Below(i)) = Here[i]
    BY PartsBelow
  <2> QED
    BY <2>1 DEF VisitAll
<1>3. \A j \in DOMAIN parts : Leads(tree, Part(Below(i), j), Stmts)
  <2> TAKE j \in DOMAIN parts
  <2>1. Below(i) \in Seq(Nat) /\ At(Below(i)) = Here[i] /\ j \in Nat
    BY <1>1, PartsBelow
  <2>2. Append(Below(i), j) \in Seq(Nat) /\ NodeAt(tree, Append(Below(i), j)) = Here[i].parts[j]
    BY <2>1, NodeAtPart DEF At
  <2> QED
    BY <1>1, <2>2 DEF Leads, Part
<1> HIDE DEF s, parts
<1>4. IsSeq(s) /\ DOMAIN s = DOMAIN parts
  <2>1. s = [j \in DOMAIN parts |-> s[j]]
    BY <1>2
  <2> QED
    BY <1>1, <2>1, MadeIs
<1>5. Each(tree, e, s, 0)
  BY <1>2, <1>3, <1>4, VisitMoves DEF Each
<1> QED
  BY <1>4, <1>5, RunSilent DEF s

\* The expressions of a list below the node at hand.
LEMMA RunEvals ==
  ASSUME NEW e, Item.at \in Seq(Nat), NEW i \in Nat, ListOf(Here[i], Exprs), NEW d \in Depths
  PROVE  Run(tree, e, d, EvalAll(Below(i)), Up(d, Len(Here[i].parts)))
<1> DEFINE s == EvalAll(Below(i))
           parts == Here[i].parts
<1>1. IsSeq(parts) /\ \A j \in DOMAIN parts : parts[j] \in Exprs /\ j \in Nat
  <2>1. parts \in Seq(Exprs)
    BY DEF ListOf
  <2> HIDE DEF parts
  <2> QED
    BY <2>1, SeqIn
<1>2. s = [j \in DOMAIN parts |-> Eval(Part(Below(i), j), Nothing)]
  <2>1. At(Below(i)) = Here[i]
    BY PartsBelow
  <2> QED
    BY <2>1 DEF EvalAll
<1>3. \A j \in DOMAIN parts : Leads(tree, Part(Below(i), j), Exprs)
  <2> TAKE j \in DOMAIN parts
  <2>1. Below(i) \in Seq(Nat) /\ At(Below(i)) = Here[i] /\ j \in Nat
    BY <1>1, PartsBelow
  <2>2. Append(Below(i), j) \in Seq(Nat) /\ NodeAt(tree, Append(Below(i), j)) = Here[i].parts[j]
    BY <2>1, NodeAtPart DEF At
  <2> QED
    BY <1>1, <2>2 DEF Leads, Part
<1> HIDE DEF s, parts
<1>4. IsSeq(s) /\ DOMAIN s = DOMAIN parts /\ Len(s) = Len(parts)
  <2>1. s = [j \in DOMAIN parts |-> s[j]]
    BY <1>2
  <2> QED
    BY <1>1, <2>1, MadeIs
<1>5. Each(tree, e, s, 1)
  BY <1>2, <1>3, <1>4, EvalMoves DEF Each, GoodOr
<1>6. Run(tree, e, d, s, Up(d, Len(parts)))
  BY <1>4, <1>5, RunGiving
<1> QED
  BY <1>6 DEF s, parts

\* A type that may be left out.
LEMMA TypeOrMoves ==
  ASSUME NEW e, NEW d \in Depths, Item.at \in Seq(Nat), NEW i \in Nat,
         Here[i] \in OrAbsent(TypeExprs), NEW type, Good(e, type)
  PROVE  Moves(tree, e, d, TypeOr(i, type), Up(d, 1))
<1>1. CASE Here[i] = Absent
  BY <1>1, YieldMoves DEF TypeOr
<1>2. CASE Here[i] # Absent
  <2>1. Leads(tree, Below(i), Exprs \cup TypeExprs)
    BY <1>2, PartsBelow DEF OrAbsent
  <2> QED
    BY <1>2, <2>1, VisitMoves DEF TypeOr
<1> QED
  BY <1>1, <1>2

\* The depths at hand.
LEMMA DeepIs ==
  ASSUME AnalyzerInv
  PROVE  /\ Deep \in Depths
         /\ Len(results) \in Nat /\ Len(symbols) - 1 \in Nat /\ Len(expected) \in Nat
         /\ Len(returns) \in Nat /\ Len(open_loops) \in Nat /\ Len(matching) \in Nat
         /\ Deep = Depth(Len(results), Len(symbols) - 1, Len(expected), Len(returns),
                         Len(open_loops), Len(matching))
         /\ Up(Deep, 1) = Depth(Len(results) + 1, Len(symbols) - 1, Len(expected), Len(returns),
                         Len(open_loops), Len(matching))
<1>1. Deep \in Depths
  BY RunEnd DEF AnalyzerInv
<1>2. Deep = Depth(Len(results), Len(symbols) - 1, Len(expected), Len(returns),
                         Len(open_loops), Len(matching))
  BY DEF Deep
<1>3. /\ Len(results) \in Nat /\ Len(symbols) - 1 \in Nat /\ Len(expected) \in Nat
      /\ Len(returns) \in Nat /\ Len(open_loops) \in Nat /\ Len(matching) \in Nat
      /\ Deep.results = Len(results) /\ Deep.scopes = Len(symbols) - 1
      /\ Deep.expected = Len(expected) /\ Deep.returns = Len(returns)
      /\ Deep.loops = Len(open_loops) /\ Deep.matches = Len(matching)
  BY <1>1, <1>2 DEF Depth, Depths
<1>4. Up(Deep, 1) = Depth(Deep.results + 1, Deep.scopes, Deep.expected, Deep.returns, Deep.loops,
                          Deep.matches)
  BY <1>1, UpIsDepth
<1> QED
  BY <1>1, <1>2, <1>3, <1>4

\* An item at the head that changes another stack than the results.
LEMMA HeadStack ==
  ASSUME AnalyzerInv, NEW what \in {"exit", "leave", "close", "record", "enterLoop", "leaveLoop",
                                    "conclude"}, Doing(what)
  PROVE  /\ Fits(tree, had_error, Item)
         /\ what \in {"exit", "leave", "close"} => Len(symbols) - 1 # 0
         /\ what = "record" => Len(expected) # 0
         /\ what = "leave" => Len(returns) # 0
         /\ what = "leaveLoop" => Len(open_loops) # 0
         /\ what \in {"conclude", "close"} => Len(matching) # 0
         /\ what \in {"record", "close"} => Len(results) # 0
         /\ \E m : /\ Run(tree, had_error, m, Tail(todo), Ground)
                   /\ m = Depth((Len(results) - (IF what \in {"record", "close"} THEN 1 ELSE 0))
                                  + (IF what \in {"record", "conclude"} THEN 1 ELSE 0),
                                Len(symbols) - 1
                                  - (IF what \in {"exit", "leave", "close"} THEN 1 ELSE 0),
                                Len(expected) - (IF what = "record" THEN 1 ELSE 0),
                                Len(returns) - (IF what = "leave" THEN 1 ELSE 0),
                                Len(open_loops) - (IF what = "leaveLoop" THEN 1
                                                   ELSE IF what = "enterLoop" THEN -1 ELSE 0),
                                Len(matching) - (IF what = "conclude" THEN 1 ELSE 0))
<1>1. PICK m : Moves(tree, had_error, Deep, Item, m)
               /\ Run(tree, had_error, m, Tail(todo), Ground)
  BY HeadMoves DEF Doing
<1>2. Item.do = what
  BY DEF Doing
<1>3. /\ Takes(tree, Item) = (IF what \in {"record", "close"} THEN 1 ELSE 0)
      /\ Puts(tree, Item) = (IF what \in {"record", "conclude"} THEN 1 ELSE 0)
  BY <1>2 DEF Takes, Puts
<1>4. /\ Deep.results = Len(results) /\ Deep.scopes = Len(symbols) - 1
      /\ Deep.expected = Len(expected) /\ Deep.returns = Len(returns)
      /\ Deep.loops = Len(open_loops) /\ Deep.matches = Len(matching)
      /\ Len(results) \in Nat /\ Len(symbols) - 1 \in Nat /\ Len(expected) \in Nat
      /\ Len(returns) \in Nat /\ Len(open_loops) \in Nat /\ Len(matching) \in Nat
  BY DeepIs DEF Depth
<1>5. /\ m \in Depths
      /\ m.results \in Nat /\ m.scopes \in Nat /\ m.expected \in Nat /\ m.returns \in Nat
      /\ m.loops \in Nat /\ m.matches \in Nat
      /\ m = Depth(m.results, m.scopes, m.expected, m.returns, m.loops, m.matches)
  BY <1>1 DEF Moves, Depths, Depth
<1>6. /\ Fits(tree, had_error, Item)
      /\ Len(results) >= (IF what \in {"record", "close"} THEN 1 ELSE 0)
      /\ m.results = (Len(results) - (IF what \in {"record", "close"} THEN 1 ELSE 0))
                       + (IF what \in {"record", "conclude"} THEN 1 ELSE 0)
      /\ Len(symbols) - 1 = m.scopes + (IF what \in {"exit", "leave", "close"} THEN 1 ELSE 0)
      /\ Len(expected) = m.expected + (IF what = "record" THEN 1 ELSE 0)
      /\ Len(returns) = m.returns + (IF what = "leave" THEN 1 ELSE 0)
      /\ Len(open_loops) = m.loops + (IF what = "leaveLoop" THEN 1
                                      ELSE IF what = "enterLoop" THEN -1 ELSE 0)
      /\ Len(matching) = m.matches + (IF what = "conclude" THEN 1 ELSE 0)
      /\ what = "close" => Len(matching) # 0
  BY <1>1, <1>2, <1>3, <1>4 DEF Moves
<1> DEFINE R == Len(results)
           S == Len(symbols) - 1
           X == Len(expected)
           U == Len(returns)
           L == Len(open_loops)
           M == Len(matching)
<1>7. R \in Nat /\ S \in Nat /\ X \in Nat /\ U \in Nat /\ L \in Nat /\ M \in Nat
  BY <1>4
<1>8. /\ what \in {"exit", "leave", "close"} => S # 0
      /\ what = "record" => X # 0
      /\ what = "leave" => U # 0
      /\ what = "leaveLoop" => L # 0
      /\ what \in {"conclude", "close"} => M # 0
      /\ what \in {"record", "close"} => R # 0
      /\ m.scopes = S - (IF what \in {"exit", "leave", "close"} THEN 1 ELSE 0)
      /\ m.expected = X - (IF what = "record" THEN 1 ELSE 0)
      /\ m.returns = U - (IF what = "leave" THEN 1 ELSE 0)
      /\ m.loops = L - (IF what = "leaveLoop" THEN 1 ELSE IF what = "enterLoop" THEN -1 ELSE 0)
      /\ m.matches = M - (IF what = "conclude" THEN 1 ELSE 0)
  <2> HIDE DEF R, S, X, U, L, M
  <2>1. /\ R >= (IF what \in {"record", "close"} THEN 1 ELSE 0)
        /\ S = m.scopes + (IF what \in {"exit", "leave", "close"} THEN 1 ELSE 0)
        /\ X = m.expected + (IF what = "record" THEN 1 ELSE 0)
        /\ U = m.returns + (IF what = "leave" THEN 1 ELSE 0)
        /\ L = m.loops + (IF what = "leaveLoop" THEN 1 ELSE IF what = "enterLoop" THEN -1 ELSE 0)
        /\ M = m.matches + (IF what = "conclude" THEN 1 ELSE 0)
        /\ what = "close" => M # 0
    BY <1>6 DEF R, S, X, U, L, M
  <2> QED
    BY <1>5, <1>7, <2>1
<1> QED
  BY <1>1, <1>5, <1>6, <1>8

\* A plain item that takes nothing is replaced, silently or with a report.
LEMMA ExpandedPlain ==
  ASSUME AnalyzerInv, todo # <<>>, IsPlain(Item), Takes(tree, Item) = 0, NEW items,
         Leaves(items), NEW ok, Checks(ok),
         UNCHANGED <<tree, results, stacks, tables, facts>>,
         Run(tree, had_error', Deep, items, Up(Deep, Puts(tree, Item)))
  PROVE  AnalyzerInv'
<1>1. PICK b \in Depths : Deep = Up(b, 0)
                          /\ Run(tree, had_error, Up(b, Puts(tree, Item)), Tail(todo), Ground)
  BY HeadPlain
<1>2. b = Deep
  BY <1>1, UpIsDepth
<1>3. Goes
  BY ChecksGoes
<1> QED
  BY <1>1, <1>2, <1>3, Expanded

\* A visitor that arranges what comes next, with nothing to take.
LEMMA ExpandedQuietly ==
  ASSUME AnalyzerInv, todo # <<>>, IsPlain(Item), Takes(tree, Item) = 0, NEW items,
         Expands(items), Run(tree, had_error, Deep, items, Up(Deep, Puts(tree, Item)))
  PROVE  AnalyzerInv'
<1>1. PICK b \in Depths : Deep = Up(b, 0)
                          /\ Run(tree, had_error, Up(b, Puts(tree, Item)), Tail(todo), Ground)
  BY HeadPlain
<1>2. b = Deep
  BY <1>1, UpIsDepth
<1> QED
  BY <1>1, <1>2, ExpandedSilently

\* One type that is good, unless it is the error type that is reported.
LEMMA JudgedGood ==
  ASSUME AnalyzerInv, todo # <<>>, IsPlain(Item), NEW n, Takes(tree, Item) = n,
         Puts(tree, Item) = 1, NEW type, NEW ok, Judges(n, <<type>>, ok),
         Good(had_error, type) \/ (~ok /\ type = Error)
  PROVE  AnalyzerInv'
<1>1. Goes /\ (~ok => had_error')
  <2>1. tree' = tree /\ Checks(ok)
    BY DEF Judges
  <2> QED
    BY <2>1, ChecksGoes
<1>2. Good(had_error', type)
  BY <1>1, GoodOf, TypesStay DEF Goes
<1> QED
  BY <1>2, JudgedOne

\* A sequence of types and one more.
LEMMA GoodAppend ==
  ASSUME NEW e, NEW s, GoodTypes(e, s), NEW t, Good(e, t)
  PROVE  GoodTypes(e, Append(s, t)) /\ Len(Append(s, t)) = Len(s) + 1
  BY AppendIs DEF GoodTypes

\* A list of types without the last.
LEMMA GoodFront ==
  ASSUME NEW e, NEW s, GoodTypes(e, s), Len(s) # 0
  PROVE  GoodTypes(e, Front(s)) /\ Len(Front(s)) = Len(s) - 1
  BY FrontIs DEF GoodTypes

\* The results stay when none is taken and none given.
LEMMA GivesNone ==
  ASSUME AnalyzerInv, results' = results
  PROVE  Gives(0, <<>>)
<1>1. results \in Seq(Range(results)) /\ Len(results) \in Nat
  BY SeqLen DEF AnalyzerInv, GoodTypes, IsSeq
<1>2. Len(results) - 0 = Len(results)
  BY <1>1
<1>3. SubSeq(results, 1, Len(results)) \o <<>> = results
  BY <1>1
<1> QED
  BY <1>2, <1>3 DEF Gives

-----------------------------------------------------------------------------
(* The work and the functions.                                                *)

\* The step of an item of work preserves the invariant.
LEMMA YieldedFits ==
  ASSUME AnalyzerInv, Yielded
  PROVE  AnalyzerInv'
<1>1. /\ todo # <<>> /\ Item.do = "yield" /\ IsPlain(Item) /\ Takes(tree, Item) = 0
      /\ Puts(tree, Item) = 1 /\ Judges(0, <<Item.type>>, TRUE)
  BY DEF Yielded, Doing, IsPlain, Takes, Puts
<1>2. Good(had_error, Item.type)
  BY <1>1, HeadPlain DEF Fits
<1> QED
  BY <1>1, <1>2, JudgedGood

\* An expression statement drops the type of its expression.
LEMMA ForgetFits ==
  ASSUME AnalyzerInv, Forget
  PROVE  AnalyzerInv'
<1>1. /\ todo # <<>> /\ IsPlain(Item) /\ Takes(tree, Item) = 1
      /\ Puts(tree, Item) = 0 /\ Judges(1, <<>>, TRUE)
  BY DEF Forget, Doing, IsPlain, Takes, Puts
<1> QED
  BY <1>1, JudgedNone

\* An evaluation pushes the expected type that its record pops.
LEMMA EvaluateFits ==
  ASSUME AnalyzerInv, Evaluate
  PROVE  AnalyzerInv'
<1>1. /\ todo # <<>> /\ Item.do = "eval" /\ IsPlain(Item) /\ Takes(tree, Item) = 0
      /\ Puts(tree, Item) = 1
  BY DEF Evaluate, Doing, IsPlain, Takes, Puts
<1>2. PICK b \in Depths : /\ Fits(tree, had_error, Item) /\ Deep = Up(b, 0)
                          /\ Run(tree, had_error, Up(b, 1), Tail(todo), Ground)
  BY <1>1, HeadPlain
<1>3. Deep = b /\ Leads(tree, Item.at, Exprs \cup TypeExprs) /\ GoodOr(had_error, Item.expects)
  BY <1>1, <1>2, UpIsDepth DEF Fits, Leads
<1> DEFINE items == <<Visit(Item.at), Then("record", Item.at)>>
<1>4. /\ expected' = Append(expected, Item.expects) /\ Leaves(items) /\ tree' = tree
      /\ had_error' = had_error /\ results' = results /\ symbols' = symbols
      /\ returns' = returns /\ effects' = effects /\ open_loops' = open_loops
      /\ matching' = matching /\ tables' = tables /\ facts' = facts
  BY DEF Evaluate
<1>5. Goes
  BY <1>4, SilenceGoes
<1>6. IsSeq(expected') /\ Len(expected') = Len(expected) + 1
      /\ \A i \in DOMAIN expected' : GoodOr(had_error, expected'[i])
  BY <1>3, <1>4, AppendIs DEF AnalyzerInv, StacksFit, ExpectedFit
<1>7. StacksFit(had_error)'
  <2>1. /\ ScopesFit(had_error', symbols') /\ GoodTypes(had_error', returns')
        /\ FramesFit(had_error', tables', matching')
    BY <1>4, <1>5, KeptFits
  <2>2. IsSeq(effects) /\ Len(effects) = Len(returns) /\ IsSeq(open_loops)
    BY DEF AnalyzerInv, StacksFit
  <2> QED
    BY <1>4, <1>6, <2>1, <2>2 DEF StacksFit, ExpectedFit
<1>8. Run(tree, had_error, Deep', items, Up(Deep, 1))
  <2> DEFINE R == Len(results)
             S == Len(symbols) - 1
             X == Len(expected)
             U == Len(returns)
             L == Len(open_loops)
             M == Len(matching)
  <2>1. /\ R \in Nat /\ S \in Nat /\ X \in Nat /\ U \in Nat /\ L \in Nat /\ M \in Nat
        /\ Deep' = Depth(R, S, X + 1, U, L, M) /\ Up(Deep, 1) = Depth(R + 1, S, X, U, L, M)
    BY <1>4, <1>6, DeepIs DEF Deep
  <2> HIDE DEF R, S, X, U, L, M
  <2>2. /\ Depth(R, S, X + 1, U, L, M) \in Depths
        /\ Up(Depth(R, S, X + 1, U, L, M), 1) = Depth(R + 1, S, X + 1, U, L, M)
    <3>1. /\ Depth(R, S, X + 1, U, L, M) \in Depths
          /\ Depth(R, S, X + 1, U, L, M).results = R
          /\ Depth(R, S, X + 1, U, L, M).scopes = S
          /\ Depth(R, S, X + 1, U, L, M).expected = X + 1
          /\ Depth(R, S, X + 1, U, L, M).returns = U
          /\ Depth(R, S, X + 1, U, L, M).loops = L
          /\ Depth(R, S, X + 1, U, L, M).matches = M
      BY <2>1 DEF Depth, Depths
    <3> QED
      BY <3>1, UpIsDepth
  <2>3. Moves(tree, had_error, Depth(R, S, X + 1, U, L, M), Visit(Item.at),
              Depth(R + 1, S, X + 1, U, L, M))
    BY <1>3, <2>2, VisitMoves
  <2>4. Moves(tree, had_error, Depth(R + 1, S, X + 1, U, L, M), Then("record", Item.at),
              Depth(R + 1, S, X, U, L, M))
    BY <2>1, StackMoves
  <2> QED
    BY <2>1, <2>3, <2>4, RunTwo
<1>9. GoodTypes(had_error', results') /\ TablesFit(tree, had_error', tables')
      /\ FactsFit(had_error', facts')
  BY <1>4, <1>5, KeptFits
<1> HIDE DEF items
<1>10. Run(tree, had_error', Deep', items, Up(Deep, 1))
  BY <1>4, <1>8
<1> QED
  BY <1>2, <1>3, <1>4, <1>5, <1>7, <1>9, <1>10, Replaces

\* The type that is recorded for an expression is the one its visitor left.
LEMMA RecordFits ==
  ASSUME AnalyzerInv, Record
  PROVE  AnalyzerInv'
<1>1. Doing("record")
  BY DEF Record
<1>2. PICK m : /\ Run(tree, had_error, m, Tail(todo), Ground)
               /\ Len(expected) # 0 /\ Len(results) # 0
               /\ m = Depth((Len(results) - 1) + 1, Len(symbols) - 1 - 0, Len(expected) - 1,
                            Len(returns) - 0, Len(open_loops) - 0, Len(matching) - 0)
  BY <1>1, HeadStack
<1>3. /\ expected' = Front(expected) /\ Leaves(<<>>) /\ tree' = tree
      /\ had_error' = had_error /\ results' = results /\ symbols' = symbols
      /\ returns' = returns /\ effects' = effects /\ open_loops' = open_loops
      /\ matching' = matching /\ tables' = tables
      /\ facts' = [facts EXCEPT !.types = Extended(@, Item.at, Result(0))]
  BY DEF Record
<1>4. Goes
  BY <1>3, SilenceGoes
<1>5. IsSeq(expected') /\ Len(expected') = Len(expected) - 1
      /\ \A i \in DOMAIN expected' : GoodOr(had_error, expected'[i])
  BY <1>2, <1>3, FrontIs DEF AnalyzerInv, StacksFit, ExpectedFit
<1>6. StacksFit(had_error)'
  <2>1. /\ ScopesFit(had_error', symbols') /\ GoodTypes(had_error', returns')
        /\ FramesFit(had_error', tables', matching')
    BY <1>3, <1>4, KeptFits
  <2>2. IsSeq(effects) /\ Len(effects) = Len(returns) /\ IsSeq(open_loops)
    BY DEF AnalyzerInv, StacksFit
  <2> QED
    BY <1>3, <1>5, <2>1, <2>2 DEF StacksFit, ExpectedFit
<1>7. Deep' = m /\ Deep' \in Depths
  <2>1. /\ Len(results) \in Nat /\ Len(symbols) - 1 \in Nat /\ Len(expected) \in Nat
        /\ Len(returns) \in Nat /\ Len(open_loops) \in Nat /\ Len(matching) \in Nat
    BY DeepIs
  <2>2. /\ (Len(results) - 1) + 1 = Len(results) /\ Len(symbols) - 1 - 0 = Len(symbols) - 1
        /\ Len(returns) - 0 = Len(returns) /\ Len(open_loops) - 0 = Len(open_loops)
        /\ Len(matching) - 0 = Len(matching) /\ Len(expected) - 1 \in Nat
    BY <1>2, <2>1
  <2>3. Deep' = Depth(Len(results), Len(symbols) - 1, Len(expected) - 1, Len(returns),
                      Len(open_loops), Len(matching))
    BY <1>3, <1>5 DEF Deep
  <2>4. Deep' = m
    BY <1>2, <2>2, <2>3
  <2> QED
    BY <2>1, <2>2, <2>3, <2>4 DEF Depth, Depths
<1>8. Good(had_error, Result(0))
  <2>1. Len(results) \in Nat /\ Len(results) >= 1
    BY <1>2, DeepIs
  <2>2. 1 \in Nat /\ 1 <= Len(results)
    BY <2>1
  <2> QED
    BY <2>2, TakenAreGood
<1>9. FactsFit(had_error, facts')
  <2>1. FactsFit(had_error, facts)
    BY DEF AnalyzerInv
  <2> DEFINE types == Extended(facts.types, Item.at, Result(0))
  <2>2. \A path \in DOMAIN types : Good(had_error, types[path])
    BY <1>8, <2>1 DEF Extended, FactsFit
  <2> HIDE DEF types
  <2>3. facts' = [types |-> types, matches |-> facts.matches, loops |-> facts.loops,
                  vectors |-> facts.vectors]
    BY <1>3, <2>1 DEF FactsFit, types
  <2> QED
    BY <2>2, <2>3 DEF FactsFit
<1>10. GoodTypes(had_error', results') /\ TablesFit(tree, had_error', tables')
  BY <1>3, <1>4, KeptFits
<1>11. Run(tree, had_error', Deep', <<>>, m)
  BY <1>7, RunNone
<1> QED
  BY <1>2, <1>3, <1>4, <1>6, <1>9, <1>10, <1>11, Replaces

\* The steps of the work itself.
LEMMA WorkFits ==
  ASSUME AnalyzerInv, WorkStep
  PROVE  AnalyzerInv'
  BY YieldedFits, ForgetFits, EvaluateFits, RecordFits DEF WorkStep

\* The stacks fit when only scopes have changed.
LEMMA KeptButScopes ==
  ASSUME AnalyzerInv, Goes, ScopesFit(had_error', symbols'),
         UNCHANGED <<expected, returns, effects, open_loops, matching, tables>>
  PROVE  StacksFit(had_error)'
<1>1. /\ ExpectedFit(had_error', expected') /\ GoodTypes(had_error', returns')
      /\ FramesFit(had_error', tables', matching')
  BY KeptFits
<1>2. IsSeq(effects) /\ Len(effects) = Len(returns) /\ IsSeq(open_loops)
  BY DEF AnalyzerInv, StacksFit
<1> QED
  BY <1>1, <1>2 DEF StacksFit

\* The passes over functions skip other statements.
LEMMA SkipFits ==
  ASSUME AnalyzerInv, SkipStatement
  PROVE  AnalyzerInv'
<1>1. /\ todo # <<>> /\ IsPlain(Item) /\ Takes(tree, Item) = 0
      /\ Puts(tree, Item) = 0 /\ Expands(<<>>)
  BY DEF SkipStatement, PassesOver, Doing, IsPlain, Takes, Puts
<1>2. Run(tree, had_error, Deep, <<>>, Up(Deep, 0))
  BY DeepIs, UpIsDepth, RunNone
<1> QED
  BY <1>1, <1>2, ExpandedQuietly

\* A symbol is defined, or it is there already.
LEMMA DefinedFits ==
  ASSUME AnalyzerInv, Goes, todo # <<>>, IsPlain(Item), Leaves(<<>>),
         NEW n, Takes(tree, Item) = n, Puts(tree, Item) = 0, Gives(n, <<>>),
         NEW name, NEW symbol, IsSymbol(had_error', symbol),
         symbols' = symbols \/ symbols' = Define(symbols, name, symbol),
         UNCHANGED <<expected, returns, effects, open_loops, matching, tables, facts>>
  PROVE  AnalyzerInv'
<1>1. ScopesFit(had_error', symbols)
  BY FitStays DEF AnalyzerInv, StacksFit, Goes
<1>2. ScopesFit(had_error', symbols') /\ Len(symbols') = Len(symbols)
  BY <1>1, DefineFits
<1>3. StacksFit(had_error)'
  BY <1>2, KeptButScopes
<1>4. TablesFit(tree, had_error', tables') /\ FactsFit(had_error', facts')
  BY KeptFits
<1>5. GoodTypes(had_error', <<>>) /\ Len(<<>>) = 0
  BY GoodFew
<1>6. Len(expected') = Len(expected) /\ Len(returns') = Len(returns)
      /\ Len(open_loops') = Len(open_loops) /\ Len(matching') = Len(matching)
  OBVIOUS
<1> QED
  BY <1>2, <1>3, <1>4, <1>5, <1>6, Settles

\* A function is declared before its signature is known.
LEMMA DeclareFunctionFits ==
  ASSUME AnalyzerInv, DeclareFunction
  PROVE  AnalyzerInv'
<1>1. /\ todo # <<>> /\ IsPlain(Item) /\ Takes(tree, Item) = 0 /\ Puts(tree, Item) = 0
  BY DEF DeclareFunction, Doing, IsPlain, Takes, Puts
<1>2. /\ Leaves(<<>>) /\ Checks(~IsDefinedHere(NameHere(2)))
      /\ symbols' = symbols \/ symbols' = Define(symbols, NameHere(2), FunctionSymbol(Item.at))
      /\ UNCHANGED <<expected, returns, effects, open_loops, matching, tables, facts>>
      /\ tree' = tree /\ results' = results
  BY DEF DeclareFunction
<1>3. Goes /\ Gives(0, <<>>)
  BY <1>2, ChecksGoes, GivesNone
<1>4. IsSymbol(had_error', FunctionSymbol(Item.at))
  BY GoodOf, NewSymbols
<1> QED
  BY <1>1, <1>2, <1>3, <1>4, DefinedFits

\* A parameter is bound to the type its annotation left.
LEMMA ParameterFits ==
  ASSUME AnalyzerInv, Parameter
  PROVE  AnalyzerInv'
<1>1. /\ todo # <<>> /\ IsPlain(Item) /\ Takes(tree, Item) = 1 /\ Puts(tree, Item) = 0
  BY DEF Parameter, Doing, IsPlain, Takes, Puts
<1>2. /\ Leaves(<<>>) /\ Checks(~IsDefinedHere(NameHere(1))) /\ Gives(1, <<>>)
      /\ symbols' = symbols
           \/ symbols' = Define(symbols, NameHere(1), VariableSymbol(Item.at, Result(0)))
      /\ UNCHANGED <<expected, returns, effects, open_loops, matching, tables, facts>>
      /\ tree' = tree
  BY DEF Parameter
<1>3. Goes
  BY <1>2, ChecksGoes
<1>4. Good(had_error', Result(0))
  <2>1. 1 \in Nat /\ 1 <= Len(results)
    BY <1>1, HeadPlain
  <2> QED
    BY <1>3, <2>1, TakenAreGood, TypesStay DEF Goes
<1>5. IsSymbol(had_error', VariableSymbol(Item.at, Result(0)))
  BY <1>4, NewSymbols
<1> QED
  BY <1>1, <1>2, <1>3, <1>5, DefinedFits

\* The signature: a type for each parameter, and one to return.
LEMMA SignFits ==
  ASSUME AnalyzerInv, Sign
  PROVE  AnalyzerInv'
<1>1. /\ todo # <<>> /\ Item.do = "sign" /\ IsPlain(Item) /\ Takes(tree, Item) = 0
      /\ Puts(tree, Item) = 0 /\ At(Item.at).kind = "Function"
  BY DEF Sign, Doing, IsPlain, Takes, Puts
<1>2. LeadsTo(tree, Item.at, Stmts, {"Function"})
  BY <1>1, HeadPlain DEF Fits, LeadsTo, Leads, At
<1>3. /\ Item.at \in Seq(Nat) /\ IsStmt(At(Item.at)) /\ Here = At(Item.at).parts
      /\ At(Item.at) = NodeAt(tree, Item.at)
  BY <1>2, KindsOfNodes DEF LeadsTo, Leads, At, Here
<1>4. Pairs(Here[3], TypeExprs) /\ Here[4] \in OrAbsent(TypeExprs)
  BY <1>1, <1>3 DEF IsStmt
<1> DEFINE parts == Here[3].parts
           s == [i \in DOMAIN parts |-> Visit(Below(3) \o <<i, 2>>)]
           t == <<TypeOr(4, Of("Void")), Then("signed", Item.at)>>
           n == Len(parts)
<1>5. IsSeq(parts) /\ n \in Nat /\ DOMAIN parts = 1..n
      /\ \A i \in DOMAIN parts : parts[i].parts[2] \in TypeExprs
  BY <1>4, SeqLen DEF Pairs, IsList
<1>6. \A i \in DOMAIN parts : Leads(tree, Below(3) \o <<i, 2>>, Exprs \cup TypeExprs)
  <2> TAKE i \in DOMAIN parts
  <2>1. i \in Nat /\ 2 \in Nat /\ 3 \in Nat /\ Here[3].parts[i].parts[2] \in Exprs \cup TypeExprs
    BY <1>5
  <2> QED
    BY <1>3, <2>1, PartsBelow
<1> HIDE DEF parts
<1>7. IsSeq(s) /\ Len(s) = n /\ DOMAIN s = DOMAIN parts
  <2>1. s = [i \in DOMAIN parts |-> s[i]]
    OBVIOUS
  <2> HIDE DEF s
  <2> QED
    BY <1>5, <2>1, MadeIs
<1>8. Each(tree, had_error, s, 1)
  BY <1>6, <1>7, VisitMoves DEF Each
<1>9. Run(tree, had_error, Deep, s, Up(Deep, n)) /\ Up(Deep, n) \in Depths
      /\ Up(Up(Deep, n), 1) = Up(Deep, n + 1)
  <2> HIDE DEF s
  <2>1. Deep \in Depths
    BY DeepIs
  <2>2. Run(tree, had_error, Deep, s, Up(Deep, Len(s)))
    BY <1>7, <1>8, <2>1, RunGiving
  <2> HIDE DEF n
  <2>3. n \in Nat /\ 1 \in Nat /\ Run(tree, had_error, Deep, s, Up(Deep, n))
    BY <1>5, <1>7, <2>2
  <2> QED
    BY <2>1, <2>3, UpIsDepth
<1>10. Moves(tree, had_error, Up(Deep, n), TypeOr(4, Of("Void")), Up(Deep, n + 1))
  <2>1. Good(had_error, Of("Void"))
    <3>1. "Void" \in Kinds /\ "Void" # "Error"
      BY DEF Kinds
    <3> QED
      BY <3>1, GoodOf
  <2>2. 4 \in Nat
    OBVIOUS
  <2>3. Moves(tree, had_error, Up(Deep, n), TypeOr(4, Of("Void")), Up(Up(Deep, n), 1))
    BY <1>3, <1>4, <1>9, <2>1, <2>2, TypeOrMoves
  <2> QED
    BY <1>9, <2>3
<1>11. Moves(tree, had_error, Up(Deep, n + 1), Then("signed", Item.at), Up(Deep, 0))
  <2> DEFINE item == Then("signed", Item.at)
             k == n + 1
  <2>1. item.do = "signed" /\ item.at = Item.at /\ k \in Nat
    BY <1>5 DEF Then
  <2> HIDE DEF item
  <2>2. Takes(tree, item) = k
    BY <1>3, <2>1 DEF Takes, parts
  <2>3. Puts(tree, item) = 0 /\ IsPlain(item) /\ Fits(tree, had_error, item)
    BY <1>2, <2>1 DEF Puts, IsPlain, Fits
  <2> HIDE DEF k
  <2>4. Moves(tree, had_error, Up(Deep, k), item, Up(Deep, 0))
    BY <2>1, <2>2, <2>3, DeepIs, TakingMoves
  <2> QED
    BY <2>4 DEF item, k
<1>12. Run(tree, had_error, Deep, s \o t, Up(Deep, 0))
  <2>1. Run(tree, had_error, Up(Deep, n), t, Up(Deep, 0))
    BY <1>10, <1>11, RunTwo
  <2> HIDE DEF s, t
  <2> QED
    BY <1>9, <2>1, RunCat
<1>13. Expands(s \o t)
  BY DEF Sign, parts
<1> HIDE DEF s, t
<1> QED
  BY <1>1, <1>12, <1>13, ExpandedQuietly

\* A signature takes the types of the parameters and the result.
LEMMA SignedFits ==
  ASSUME AnalyzerInv, Signed
  PROVE  AnalyzerInv'
<1> DEFINE n == Len(Here[3].parts) + 1
           k == Scope(NameHere(2))
           x == NameHere(2)
           f == [symbols[k][x] EXCEPT !.type = Result(0), !.params = Front(Args(n)),
                                      !.effectful = IsEffectful(At(Item.at))]
<1>1. /\ todo # <<>> /\ Item.do = "signed" /\ IsPlain(Item) /\ Puts(tree, Item) = 0
      /\ Takes(tree, Item) = Len(NodeAt(tree, Item.at).parts[3].parts) + 1
  BY DEF Signed, Doing, IsPlain, Takes, Puts
<1>2. Takes(tree, Item) = n /\ n \in Nat /\ n <= Len(results)
  BY <1>1, HeadPlain DEF Here, At
<1>3. /\ symbols' = [symbols EXCEPT ![k] = [symbols[k] EXCEPT ![x] = f]]
      /\ Gives(n, <<>>) /\ Leaves(<<>>) /\ tree' = tree /\ had_error' = had_error
      /\ UNCHANGED <<expected, returns, effects, open_loops, matching, tables, facts>>
  BY DEF Signed
<1>4. n >= 1
  <2>1. Fits(tree, had_error, Item) /\ LeadsTo(tree, Item.at, Stmts, {"Function"})
    BY <1>1, HeadPlain DEF Fits
  <2>2. IsStmt(At(Item.at)) /\ Here = At(Item.at).parts /\ At(Item.at).kind = "Function"
    BY <2>1, KindsOfNodes DEF LeadsTo, Leads, At, Here
  <2>3. IsSeq(Here[3].parts)
    BY <2>2 DEF IsStmt, Pairs, IsList
  <2>4. Len(Here[3].parts) \in Nat
    BY <2>3, SeqLen
  <2> QED
    BY <2>4
<1>5. Good(had_error, Result(0)) /\ GoodTypes(had_error, Front(Args(n)))
  <2> HIDE DEF n
  <2>1. Good(had_error, Result(0)) /\ GoodTypes(had_error, Args(n)) /\ Len(Args(n)) = n
    BY <1>2, <1>4, TakenAreGood
  <2>2. n # 0
    BY <1>2, <1>4
  <2> QED
    BY <2>1, <2>2, GoodFront
<1>6. IsDefined(x) => IsSymbol(had_error, f)
  <2>1. SUFFICES ASSUME IsDefined(x) PROVE IsSymbol(had_error, f)
    OBVIOUS
  <2> DEFINE s == symbols[k][x]
  <2>2. IsSymbol(had_error, s)
    BY <2>1, Resolved DEF Resolve
  <2>3. PICK b : b = IsEffectful(At(Item.at))
    OBVIOUS
  <2>4. \A p, r : [s EXCEPT !.type = r, !.params = p, !.effectful = b]
                = [kind |-> s.kind, type |-> r, params |-> p, effectful |-> b,
                   declared |-> s.declared]
    <3>1. s = [kind |-> s.kind, type |-> s.type, params |-> s.params, effectful |-> s.effectful,
               declared |-> s.declared]
      BY <2>2 DEF IsSymbol
    <3> TAKE p, r
    <3> DEFINE s1 == [s EXCEPT !.type = r]
               s2 == [s1 EXCEPT !.params = p]
               s3 == [s2 EXCEPT !.effectful = b]
    <3>2. [s EXCEPT !.type = r, !.params = p, !.effectful = b] = s3
      OBVIOUS
    <3> HIDE DEF s
    <3>3. s1 = [kind |-> s.kind, type |-> r, params |-> s.params,
                 effectful |-> s.effectful, declared |-> s.declared]
      BY <3>1
    <3> HIDE DEF s1
    <3>4. s2 = [kind |-> s.kind, type |-> r, params |-> p,
                 effectful |-> s.effectful, declared |-> s.declared]
      BY <3>3
    <3> HIDE DEF s2
    <3>5. s3 = [kind |-> s.kind, type |-> r, params |-> p, effectful |-> b,
                declared |-> s.declared]
      BY <3>4
    <3> HIDE DEF s3
    <3> QED
      BY <3>2, <3>5 DEF s
  <2>5. f = [kind |-> s.kind, type |-> Result(0), params |-> Front(Args(n)), effectful |-> b,
             declared |-> s.declared]
    BY <2>3, <2>4, Zenon
  <2> HIDE DEF f, s, n
  <2> QED
    BY <1>5, <2>5 DEF IsSymbol
<1> HIDE DEF f, n
<1>7. ScopesFit(had_error, symbols') /\ Len(symbols') = Len(symbols)
  <2> DEFINE y == [symbols[k] EXCEPT ![x] = f]
  <2>1. IsSeq(symbols) /\ ScopesFit(had_error, symbols)
    BY DEF AnalyzerInv, StacksFit, ScopesFit
  <2>2. IsDefined(x) => IsScope(had_error, y)
    <3>1. SUFFICES ASSUME IsDefined(x) PROVE IsScope(had_error, y)
      OBVIOUS
    <3>2. k \in DOMAIN symbols
      BY <3>1, Resolved
    <3>3. IsScope(had_error, symbols[k])
      BY <2>1, <3>2 DEF ScopesFit
    <3> QED
      BY <1>6, <3>1, <3>3 DEF IsScope
  <2>3. k \in DOMAIN symbols => IsDefined(x)
    <3>1. DOMAIN symbols = 1..Len(symbols) /\ Len(symbols) \in Nat
      BY <2>1, SeqLen
    <3>2. k \in DOMAIN symbols => k # 0
      BY <3>1
    <3> QED
      BY <3>2 DEF IsDefined
  <2> HIDE DEF k, x, y
  <2>4. /\ IsSeq([symbols EXCEPT ![k] = y]) /\ Len([symbols EXCEPT ![k] = y]) = Len(symbols)
        /\ DOMAIN [symbols EXCEPT ![k] = y] = DOMAIN symbols
        /\ \A i \in DOMAIN symbols : [symbols EXCEPT ![k] = y][i] = IF i = k THEN y ELSE symbols[i]
    BY <2>1, ExceptIs
  <2>5. symbols' = [symbols EXCEPT ![k] = y]
    BY <1>3 DEF y
  <2> QED
    BY <2>1, <2>2, <2>3, <2>4, <2>5 DEF ScopesFit
<1>8. Goes /\ had_error' = had_error
  BY <1>3, SilenceGoes
<1>9. StacksFit(had_error)'
  BY <1>3, <1>7, <1>8, KeptButScopes
<1>10. TablesFit(tree, had_error', tables') /\ FactsFit(had_error', facts')
  BY <1>3, <1>8, KeptFits
<1>11. GoodTypes(had_error', <<>>) /\ Len(<<>>) = 0
  BY GoodFew
<1>12. Len(expected') = Len(expected) /\ Len(returns') = Len(returns)
      /\ Len(open_loops') = Len(open_loops) /\ Len(matching') = Len(matching)
  BY <1>3
<1> QED
  BY <1>1, <1>2, <1>3, <1>7, <1>8, <1>9, <1>10, <1>11, <1>12, Settles

\* A scope is entered with what a function returns, and left when its body is done.
LEMMA FunctionFits ==
  ASSUME AnalyzerInv, Function
  PROVE  AnalyzerInv'
<1> DEFINE name == NameHere(2)
           symbol == IF IsDefined(name) THEN Resolve(name) ELSE FunctionSymbol(Item.at)
           known(i) == IF i \in DOMAIN symbol.params THEN symbol.params[i] ELSE Unknown
           parameter(i) == [do |-> "annotate", at |-> Below(3) \o <<i>>, type |-> known(i)]
           parts == Here[3].parts
           s == [i \in DOMAIN parts |-> parameter(i)]
           body == VisitAll(Below(5))
           t == <<Then("leave", Item.at)>>
           defined == IF IsDefined(name) THEN symbols ELSE Define(symbols, name, symbol)
           ok == Len(symbol.params) = Len(parts)
<1>1. Visiting("Function") /\ "Function" \in StmtKinds
  BY DEF Function, StmtKinds
<1>2. /\ todo # <<>> /\ Item.at \in Seq(Nat) /\ At(Item.at).kind = "Function"
      /\ IsStmt(At(Item.at)) /\ Here = At(Item.at).parts /\ Deep \in Depths
      /\ Run(tree, had_error, Deep, Tail(todo), Ground)
  BY <1>1, Visited
<1>3. Pairs(Here[3], TypeExprs) /\ ListOf(Here[5], Stmts)
  BY <1>2 DEF IsStmt
<1>4. /\ symbols' = Append(defined, Empty) /\ returns' = Append(returns, symbol.type)
      /\ effects' = Append(effects, IsEffectful(At(Item.at))) /\ Checks(ok)
      /\ Leaves(s \o body \o t) /\ tree' = tree /\ results' = results
      /\ expected' = expected /\ open_loops' = open_loops /\ matching' = matching
      /\ tables' = tables /\ facts' = facts
  BY DEF Function
<1>5. Goes
  BY <1>4, ChecksGoes
<1>6. IsSymbol(had_error, symbol) /\ Good(had_error, symbol.type)
      /\ GoodTypes(had_error, symbol.params)
  BY Resolved, GoodOf, NewSymbols DEF IsSymbol
<1> HIDE DEF symbol, name, ok
<1>7. ScopesFit(had_error', symbols') /\ Len(symbols') = Len(symbols) + 1
  <2>1. ScopesFit(had_error, symbols)
    BY DEF AnalyzerInv, StacksFit
  <2>2. ScopesFit(had_error, defined) /\ Len(defined) = Len(symbols)
    BY <1>6, <2>1, DefineFits
  <2> HIDE DEF defined
  <2>3. ScopesFit(had_error, symbols') /\ Len(symbols') = Len(symbols) + 1
    BY <1>4, <2>2, EmptyScope, ScopeEnters
  <2> QED
    BY <1>5, <2>3, FitStays DEF Goes
<1>8. GoodTypes(had_error', returns') /\ Len(returns') = Len(returns) + 1
  <2>1. GoodTypes(had_error, returns') /\ Len(returns') = Len(returns) + 1
    BY <1>4, <1>6, GoodAppend DEF AnalyzerInv, StacksFit
  <2> QED
    BY <1>5, <2>1, TypesStay DEF Goes
<1>9. IsSeq(effects') /\ Len(effects') = Len(returns')
  <2>1. IsSeq(effects) /\ Len(effects) = Len(returns)
    BY DEF AnalyzerInv, StacksFit
  <2> QED
    BY <1>4, <1>8, <2>1, AppendIs
<1>10. StacksFit(had_error)'
  <2>1. ExpectedFit(had_error', expected') /\ FramesFit(had_error', tables', matching')
    BY <1>4, <1>5, KeptFits
  <2>2. IsSeq(open_loops)
    BY DEF AnalyzerInv, StacksFit
  <2> QED
    BY <1>4, <1>7, <1>8, <1>9, <2>1, <2>2 DEF StacksFit
<1>11. GoodTypes(had_error', results') /\ TablesFit(tree, had_error', tables')
       /\ FactsFit(had_error', facts')
  BY <1>4, <1>5, KeptFits
<1>12. Deep' \in Depths /\ Run(tree, had_error', Deep', t, Deep)
  <2> DEFINE R == Len(results)
             S == Len(symbols) - 1
             X == Len(expected)
             U == Len(returns)
             L == Len(open_loops)
             M == Len(matching)
  <2>1. /\ R \in Nat /\ S \in Nat /\ X \in Nat /\ U \in Nat /\ L \in Nat /\ M \in Nat
        /\ Deep = Depth(R, S, X, U, L, M)
    BY DeepIs
  <2>2. Deep' = Depth(R, S + 1, X, U + 1, L, M)
    <3>1. Len(symbols) \in Nat
      BY SomeScope
    <3>2. (Len(symbols) + 1) - 1 = S + 1
      BY <3>1
    <3> QED
      BY <1>4, <1>7, <1>8, <3>2 DEF Deep
  <2> HIDE DEF R, S, X, U, L, M
  <2>3. Moves(tree, had_error', Depth(R, S + 1, X, U + 1, L, M), Then("leave", Item.at),
              Depth(R, S, X, U, L, M))
    BY <2>1, StackMoves
  <2>4. Deep' \in Depths
    BY <2>1, <2>2 DEF Depth, Depths
  <2> QED
    BY <2>1, <2>2, <2>3, <2>4, RunOne
<1>13. Run(tree, had_error', Deep', s, Deep') /\ IsSeq(s)
  <2>1. IsSeq(parts) /\ DOMAIN parts = 1..Len(parts) /\ Len(parts) \in Nat
    BY <1>3, SeqLen DEF Pairs, IsList
  <2>2. IsSeq(s) /\ DOMAIN s = DOMAIN parts
    <3>1. s = [i \in DOMAIN parts |-> s[i]]
      OBVIOUS
    <3> HIDE DEF s, parts
    <3> QED
      BY <2>1, <3>1, MadeIs
  <2>3. ASSUME NEW i \in DOMAIN parts, NEW d \in Depths
        PROVE  Moves(tree, had_error', d, s[i], Up(d, 0))
    <3> DEFINE item == parameter(i)
    <3>1. item.do = "annotate" /\ item.at = Below(3) \o <<i>> /\ item.type = known(i)
      OBVIOUS
    <3>2. s[i] = item
      OBVIOUS
    <3>3. Good(had_error', known(i))
      <4>1. Good(had_error, known(i))
        BY <1>6, GoodOf DEF GoodTypes
      <4> QED
        BY <1>5, <4>1, TypesStay DEF Goes
    <3> HIDE DEF item, s, known
    <3>4. item.at \in Seq(Nat) /\ NodeAt(tree, item.at).parts[2] \in TypeExprs
      <4>1. i \in Nat /\ 3 \in Nat
        BY <2>1
      <4>2. item.at \in Seq(Nat) /\ NodeAt(tree, item.at) = Here[3].parts[i]
        BY <1>2, <3>1, <4>1, PartsBelow
      <4> QED
        BY <1>3, <4>2 DEF Pairs
    <3>5. Fits(tree, had_error', item)
      BY <3>1, <3>3, <3>4 DEF Fits
    <3>6. IsPlain(item) /\ Takes(tree, item) = 0 /\ Puts(tree, item) = 0
      BY <3>1 DEF IsPlain, Takes, Puts
    <3> QED
      BY <3>2, <3>5, <3>6, PlainMoves
  <2>4. Each(tree, had_error', s, 0)
    BY <2>2, <2>3 DEF Each
  <2> HIDE DEF s
  <2> QED
    BY <1>12, <2>2, <2>4, RunSilent
<1>14. Run(tree, had_error', Deep', body, Deep')
  <2>1. 5 \in Nat
    OBVIOUS
  <2> QED
    BY <1>2, <1>3, <1>12, <2>1, RunVisits
<1> HIDE DEF s, body, t
<1>15. Run(tree, had_error', Deep', s \o body \o t, Deep)
  <2>1. Run(tree, had_error', Deep', s \o body, Deep')
    BY <1>13, <1>14, RunCat
  <2> QED
    BY <1>12, <2>1, RunCat
<1> QED
  BY <1>2, <1>4, <1>5, <1>10, <1>11, <1>15, Replaces

\* A parameter whose type is not known yet is analyzed again.
LEMMA AnnotateFits ==
  ASSUME AnalyzerInv, Annotate
  PROVE  AnalyzerInv'
<1> DEFINE first == IF Item.type.kind = "Unknown" THEN Visit(Below(2)) ELSE Yield(Item.type)
<1>1. /\ todo # <<>> /\ Item.do = "annotate" /\ IsPlain(Item) /\ Takes(tree, Item) = 0
      /\ Puts(tree, Item) = 0
  BY DEF Annotate, Doing, IsPlain, Takes, Puts
<1>2. Item.at \in Seq(Nat) /\ NodeAt(tree, Item.at).parts[2] \in TypeExprs
      /\ Good(had_error, Item.type)
  BY <1>1, HeadPlain DEF Fits
<1>3. Deep \in Depths
  BY DeepIs
<1>4. Moves(tree, had_error, Deep, first, Up(Deep, 1))
  <2>1. Leads(tree, Below(2), Exprs \cup TypeExprs)
    <3>1. Here[2] \in Exprs \cup TypeExprs /\ 2 \in Nat
      BY <1>2 DEF Here, At
    <3> QED
      BY <1>2, <3>1, PartsBelow
  <2> QED
    BY <1>2, <1>3, <2>1, VisitMoves, YieldMoves
<1>5. Moves(tree, had_error, Up(Deep, 1), Then("parameter", Item.at), Up(Deep, 0))
  BY <1>3, ThenMoves
<1>6. Expands(<<first, Then("parameter", Item.at)>>)
  BY DEF Annotate
<1> HIDE DEF first
<1>7. Run(tree, had_error, Deep, <<first, Then("parameter", Item.at)>>, Up(Deep, 0))
  BY <1>4, <1>5, RunTwo
<1> QED
  BY <1>1, <1>6, <1>7, ExpandedQuietly

\* A function leaves its scope, its return type and its effect.
LEMMA LeaveFits ==
  ASSUME AnalyzerInv, Leave
  PROVE  AnalyzerInv'
<1>1. Doing("leave")
  BY DEF Leave
<1>2. PICK m : /\ Run(tree, had_error, m, Tail(todo), Ground)
               /\ Len(symbols) - 1 # 0 /\ Len(returns) # 0
               /\ m = Depth((Len(results) - 0) + 0, Len(symbols) - 1 - 1, Len(expected) - 0,
                            Len(returns) - 1, Len(open_loops) - 0, Len(matching) - 0)
  BY <1>1, HeadStack
<1>3. /\ symbols' = Front(symbols) /\ returns' = Front(returns) /\ effects' = Front(effects)
      /\ Leaves(<<>>) /\ tree' = tree /\ had_error' = had_error /\ results' = results
      /\ expected' = expected /\ open_loops' = open_loops
      /\ matching' = matching /\ tables' = tables /\ facts' = facts
  BY DEF Leave
<1>4. Goes
  BY <1>3, SilenceGoes
<1>5. Len(symbols) \in Nat /\ Len(symbols) >= 1
  BY SomeScope
<1>6. ScopesFit(had_error', symbols') /\ Len(symbols') = Len(symbols) - 1
  <2>1. ScopesFit(had_error, symbols) /\ Len(symbols) # 0
    BY <1>5 DEF AnalyzerInv, StacksFit
  <2> QED
    BY <1>3, <2>1, ScopeLeaves
<1>7. GoodTypes(had_error', returns') /\ Len(returns') = Len(returns) - 1
  BY <1>2, <1>3, GoodFront DEF AnalyzerInv, StacksFit
<1>8. IsSeq(effects') /\ Len(effects') = Len(returns')
  <2>1. IsSeq(effects) /\ Len(effects) = Len(returns)
    BY DEF AnalyzerInv, StacksFit
  <2> QED
    BY <1>2, <1>3, <1>7, <2>1, FrontIs
<1>9. StacksFit(had_error)'
  <2>1. ExpectedFit(had_error', expected') /\ FramesFit(had_error', tables', matching')
    BY <1>3, <1>4, KeptFits
  <2>2. IsSeq(open_loops)
    BY DEF AnalyzerInv, StacksFit
  <2> QED
    BY <1>3, <1>6, <1>7, <1>8, <2>1, <2>2 DEF StacksFit
<1>10. Deep' = m /\ Deep' \in Depths
  <2>1. /\ Len(results) \in Nat /\ Len(symbols) - 1 \in Nat /\ Len(expected) \in Nat
        /\ Len(returns) \in Nat /\ Len(open_loops) \in Nat /\ Len(matching) \in Nat
    BY DeepIs
  <2>2. /\ (Len(results) - 0) + 0 = Len(results) /\ Len(symbols) - 1 - 1 \in Nat
        /\ Len(expected) - 0 = Len(expected) /\ Len(open_loops) - 0 = Len(open_loops)
        /\ Len(matching) - 0 = Len(matching) /\ Len(returns) - 1 \in Nat
    <3>1. \A a \in Nat : a - 0 = a /\ (a - 0) + 0 = a /\ (a # 0 => a - 1 \in Nat)
      OBVIOUS
    <3> QED
      BY <1>2, <2>1, <3>1
  <2>3. Deep' = Depth(Len(results), Len(symbols) - 1 - 1, Len(expected), Len(returns) - 1,
                      Len(open_loops), Len(matching))
    BY <1>3, <1>6, <1>7 DEF Deep
  <2>4. Deep' = m
    BY <1>2, <2>2, <2>3
  <2> QED
    BY <2>1, <2>2, <2>3, <2>4 DEF Depth, Depths
<1>11. GoodTypes(had_error', results') /\ TablesFit(tree, had_error', tables')
       /\ FactsFit(had_error', facts')
  BY <1>3, <1>4, KeptFits
<1>12. Run(tree, had_error', Deep', <<>>, m)
  BY <1>10, RunNone
<1> QED
  BY <1>2, <1>3, <1>4, <1>9, <1>11, <1>12, Replaces

\* The steps of functions.
LEMMA FunctionStepFits ==
  ASSUME AnalyzerInv, FunctionStep
  PROVE  AnalyzerInv'
  BY SkipFits, DeclareFunctionFits, SignFits, SignedFits, FunctionFits, AnnotateFits,
     ParameterFits, LeaveFits DEF FunctionStep

-----------------------------------------------------------------------------
(* Statements.                                                                *)

\* An expression, and a statement, below the node at hand.
LEMMA EvalBelow ==
  ASSUME NEW e, NEW d \in Depths, Item.at \in Seq(Nat), NEW i \in Nat, Here[i] \in Exprs,
         NEW type, GoodOr(e, type)
  PROVE  Moves(tree, e, d, Eval(Below(i), type), Up(d, 1))
<1>1. Leads(tree, Below(i), Exprs)
  BY PartsBelow
<1> QED
  BY <1>1, EvalMoves

\* A statement below the node at hand.
LEMMA VisitBelow ==
  ASSUME NEW e, NEW d \in Depths, Item.at \in Seq(Nat), NEW i \in Nat, Here[i] \in Stmts
  PROVE  Moves(tree, e, d, Visit(Below(i)), d)
<1>1. Leads(tree, Below(i), Stmts)
  BY PartsBelow
<1> QED
  BY <1>1, VisitMoves, UpIsDepth

\* A condition is evaluated and taken.
LEMMA ConditionRuns ==
  ASSUME NEW e, NEW d \in Depths, NEW path, Leads(tree, path, Exprs), NEW at
  PROVE  Run(tree, e, d, <<Eval(path, Nothing), Then("condition", at)>>, d)
<1>1. Moves(tree, e, d, Eval(path, Nothing), Up(d, 1))
  BY EvalMoves DEF GoodOr
<1>2. Moves(tree, e, Up(d, 1), Then("condition", at), d)
  BY ThenMoves, UpIsDepth
<1> QED
  BY <1>1, <1>2, RunTwo

\* A condition below the node at hand.
LEMMA ConditionBelow ==
  ASSUME NEW e, NEW d \in Depths, Item.at \in Seq(Nat), NEW i \in Nat, Here[i] \in Exprs
  PROVE  Run(tree, e, d, Condition(i), d)
<1>1. Leads(tree, Below(i), Exprs)
  BY PartsBelow
<1> QED
  BY <1>1, ConditionRuns DEF Condition

\* An expression statement.
LEMMA ExpressionStatementFits ==
  ASSUME AnalyzerInv, ExpressionStatement
  PROVE  AnalyzerInv'
<1>1. Visiting("Expression") /\ "Expression" \in StmtKinds
      /\ Expands(<<Eval(Below(1), Nothing), Then("forget", Item.at)>>)
  BY DEF ExpressionStatement, StmtKinds
<1>2. /\ todo # <<>> /\ IsPlain(Item) /\ Takes(tree, Item) = 0 /\ Puts(tree, Item) = 0
      /\ Item.at \in Seq(Nat) /\ Deep \in Depths /\ Here[1] \in Exprs
  BY <1>1, Visited DEF IsStmt
<1>3. Moves(tree, had_error, Deep, Eval(Below(1), Nothing), Up(Deep, 1))
  BY <1>2, EvalBelow DEF GoodOr
<1>4. Moves(tree, had_error, Up(Deep, 1), Then("forget", Item.at), Up(Deep, 0))
  BY <1>2, ThenMoves
<1> QED
  BY <1>1, <1>2, <1>3, <1>4, RunTwo, ExpandedQuietly

\* A declaration arranges its annotation, its initializer and its binding.
LEMMA DeclareFits ==
  ASSUME AnalyzerInv, Declare
  PROVE  AnalyzerInv'
<1> DEFINE more == <<TypeOr(2, Unknown), Then("initialize", Item.at)>>
           items == IF IsDefinedHere(NameHere(1)) THEN <<>> ELSE more
<1>1. PICK kind \in {"Var", "Let"} : Visiting(kind)
  BY DEF Declare
<1>2. kind \in StmtKinds
  BY DEF StmtKinds
<1>3. /\ todo # <<>> /\ IsPlain(Item) /\ Takes(tree, Item) = 0 /\ Puts(tree, Item) = 0
      /\ Item.at \in Seq(Nat) /\ Deep \in Depths /\ At(Item.at).kind = kind
      /\ At(Item.at) \in Stmts /\ IsStmt(At(Item.at)) /\ Here = At(Item.at).parts
      /\ At(Item.at) = NodeAt(tree, Item.at)
  BY <1>1, <1>2, Visited
<1>4. Here[2] \in OrAbsent(TypeExprs)
  BY <1>3 DEF IsStmt
<1>5. Leaves(items) /\ Checks(~IsDefinedHere(NameHere(1)))
      /\ UNCHANGED <<tree, results, stacks, tables, facts>>
  BY DEF Declare
<1>6. Moves(tree, had_error', Deep, TypeOr(2, Unknown), Up(Deep, 1))
  BY <1>3, <1>4, GoodOf, TypeOrMoves
<1>7. Moves(tree, had_error', Up(Deep, 1), Then("initialize", Item.at), Up(Deep, 0))
  <2> DEFINE item == Then("initialize", Item.at)
  <2>1. item.do = "initialize" /\ item.at = Item.at
    BY DEF Then
  <2> HIDE DEF item
  <2>2. Takes(tree, item) = 1 /\ Puts(tree, item) = 0 /\ IsPlain(item)
    BY <2>1 DEF Takes, Puts, IsPlain
  <2>3. Fits(tree, had_error', item)
    BY <1>3, <2>1 DEF Fits, LeadsTo, Leads
  <2> QED
    BY <1>3, <2>2, <2>3, TakingMoves DEF item
<1>8. Run(tree, had_error', Deep, items, Up(Deep, 0))
  <2>1. Run(tree, had_error', Deep, more, Up(Deep, 0))
    BY <1>6, <1>7, RunTwo
  <2>2. Run(tree, had_error', Deep, <<>>, Up(Deep, 0))
    BY <1>3, UpIsDepth, RunNone
  <2> HIDE DEF more
  <2> QED
    BY <2>1, <2>2
<1> HIDE DEF items
<1> QED
  BY <1>3, <1>5, <1>8, ExpandedPlain

\* An initializer is evaluated against the annotation, which stays a result.
LEMMA InitializeFits ==
  ASSUME AnalyzerInv, Initialize
  PROVE  AnalyzerInv'
<1> DEFINE first == IF Here[3] = Absent THEN Yield(Unknown) ELSE Eval(Below(3), Result(0))
<1>1. /\ todo # <<>> /\ Item.do = "initialize" /\ IsPlain(Item) /\ Takes(tree, Item) = 1
      /\ Puts(tree, Item) = 0 /\ Expands(<<first, Then("bind", Item.at)>>)
  BY DEF Initialize, Doing, IsPlain, Takes, Puts
<1>2. PICK b \in Depths : /\ Fits(tree, had_error, Item) /\ Deep = Up(b, 1) /\ 1 <= Len(results)
                          /\ Run(tree, had_error, Up(b, 0), Tail(todo), Ground)
  BY <1>1, HeadPlain
<1>3. /\ Item.at \in Seq(Nat) /\ IsStmt(At(Item.at)) /\ Here = At(Item.at).parts
      /\ At(Item.at).kind \in {"Var", "Let"}
  BY <1>1, <1>2, KindsOfNodes DEF Fits, LeadsTo, Leads, At, Here
<1>4. Here[3] \in OrAbsent(Exprs)
  BY <1>3 DEF IsStmt
<1>5. GoodOr(had_error, Result(0))
  <2>1. 1 \in Nat
    OBVIOUS
  <2> QED
    BY <1>2, <2>1, TakenAreGood DEF GoodOr
<1>6. Deep \in Depths /\ Up(Deep, 1) = Up(b, 2)
  <2>1. 1 \in Nat /\ 1 + 1 = 2
    OBVIOUS
  <2> QED
    BY <1>2, <2>1, UpIsDepth
<1>7. Moves(tree, had_error, Deep, first, Up(b, 2))
  <2>1. CASE Here[3] = Absent
    BY <1>6, <2>1, GoodOf, YieldMoves
  <2>2. CASE Here[3] # Absent
    <3>1. Here[3] \in Exprs /\ 3 \in Nat
      BY <1>4, <2>2 DEF OrAbsent
    <3> QED
      BY <1>3, <1>5, <1>6, <2>2, <3>1, EvalBelow
  <2> QED
    BY <2>1, <2>2
<1>8. Moves(tree, had_error, Up(b, 2), Then("bind", Item.at), Up(b, 0))
  BY ThenMoves
<1> HIDE DEF first
<1>9. Run(tree, had_error, Deep, <<first, Then("bind", Item.at)>>, Up(b, 0))
  BY <1>7, <1>8, RunTwo
<1> QED
  BY <1>1, <1>2, <1>9, ExpandedSilently

\* The type of a variable is as declared, refined or taken from its initializer.
LEMMA BindFits ==
  ASSUME AnalyzerInv, Bind
  PROVE  AnalyzerInv'
<1> DEFINE declared == Result(1)
           init == Result(0)
           both == "Unknown" \notin {declared.kind, init.kind}
           checked == IF both THEN RefineGeneric(declared, init) ELSE declared
           type == IF declared.kind = "Unknown" THEN init ELSE checked
           ok == /\ {declared.kind, init.kind} # {"Unknown"}
                 /\ both => IsAssignable(checked, init)
<1>1. /\ todo # <<>> /\ IsPlain(Item) /\ Takes(tree, Item) = 2 /\ Puts(tree, Item) = 0
  BY DEF Bind, Doing, IsPlain, Takes, Puts
<1>2. /\ symbols' = Define(symbols, NameHere(1), VariableSymbol(Item.at, type))
      /\ Checks(ok) /\ Gives(2, <<>>) /\ Leaves(<<>>) /\ tree' = tree
      /\ UNCHANGED <<expected, returns, effects, open_loops, matching, tables, facts>>
  BY DEF Bind
<1>3. Good(had_error, declared) /\ Good(had_error, init)
  <2>1. 2 \in Nat /\ 2 <= Len(results)
    BY <1>1, HeadPlain
  <2> QED
    BY <2>1, TakenAreGood
<1> HIDE DEF declared, init, ok, both
<1>4. Good(had_error, type)
  BY <1>3, GoodRefined
<1> HIDE DEF type
<1>5. Goes
  BY <1>2, ChecksGoes
<1>6. IsSymbol(had_error', VariableSymbol(Item.at, type))
  BY <1>4, <1>5, TypesStay, NewSymbols DEF Goes
<1> QED
  BY <1>1, <1>2, <1>5, <1>6, DefinedFits

\* A block enters a scope, which its exit leaves.
LEMMA BlockFits ==
  ASSUME AnalyzerInv, Block
  PROVE  AnalyzerInv'
<1> DEFINE body == VisitAll(Below(1))
           t == <<Then("exit", Item.at)>>
<1>1. Visiting("Block") /\ "Block" \in StmtKinds
  BY DEF Block, StmtKinds
<1>2. /\ todo # <<>> /\ Item.at \in Seq(Nat) /\ ListOf(Here[1], Stmts) /\ Deep \in Depths
      /\ Run(tree, had_error, Deep, Tail(todo), Ground)
  BY <1>1, Visited DEF IsStmt
<1>3. /\ symbols' = Append(symbols, Empty) /\ Leaves(body \o t) /\ tree' = tree
      /\ had_error' = had_error /\ results' = results /\ facts' = facts
      /\ UNCHANGED <<expected, returns, effects, open_loops, matching, tables>>
  BY DEF Block
<1>4. Goes
  BY <1>3, SilenceGoes
<1>5. ScopesFit(had_error', symbols') /\ Len(symbols') = Len(symbols) + 1
  <2>1. ScopesFit(had_error, symbols)
    BY DEF AnalyzerInv, StacksFit
  <2> QED
    BY <1>3, <2>1, EmptyScope, ScopeEnters
<1>6. StacksFit(had_error)'
  BY <1>3, <1>4, <1>5, KeptButScopes
<1>7. GoodTypes(had_error', results') /\ TablesFit(tree, had_error', tables')
       /\ FactsFit(had_error', facts')
  BY <1>3, <1>4, KeptFits
<1>8. Deep' \in Depths /\ Run(tree, had_error', Deep', t, Deep)
  <2> DEFINE R == Len(results)
             S == Len(symbols) - 1
             X == Len(expected)
             U == Len(returns)
             L == Len(open_loops)
             M == Len(matching)
  <2>1. /\ R \in Nat /\ S \in Nat /\ X \in Nat /\ U \in Nat /\ L \in Nat /\ M \in Nat
        /\ Deep = Depth(R, S, X, U, L, M)
    BY DeepIs
  <2>2. Deep' = Depth(R, S + 1, X, U, L, M)
    <3>1. Len(symbols) \in Nat
      BY SomeScope
    <3>2. (Len(symbols) + 1) - 1 = S + 1
      BY <3>1
    <3> QED
      BY <1>3, <1>5, <3>2 DEF Deep
  <2> HIDE DEF R, S, X, U, L, M
  <2>3. Moves(tree, had_error', Depth(R, S + 1, X, U, L, M), Then("exit", Item.at),
              Depth(R, S, X, U, L, M))
    BY <2>1, StackMoves
  <2>4. Deep' \in Depths
    BY <2>1, <2>2 DEF Depth, Depths
  <2> QED
    BY <2>1, <2>2, <2>3, <2>4, RunOne
<1>9. Run(tree, had_error', Deep', body, Deep')
  <2>1. 1 \in Nat
    OBVIOUS
  <2> QED
    BY <1>2, <1>8, <2>1, RunVisits
<1> HIDE DEF body, t
<1>10. Run(tree, had_error', Deep', body \o t, Deep)
  BY <1>8, <1>9, RunCat
<1> QED
  BY <1>2, <1>3, <1>4, <1>6, <1>7, <1>10, Replaces

\* The scope of a block is left.
LEMMA ExitFits ==
  ASSUME AnalyzerInv, Exit
  PROVE  AnalyzerInv'
<1>1. Doing("exit")
  BY DEF Exit
<1>2. PICK m : /\ Run(tree, had_error, m, Tail(todo), Ground)
               /\ Len(symbols) - 1 # 0
               /\ m = Depth((Len(results) - 0) + 0, Len(symbols) - 1 - 1, Len(expected) - 0,
                            Len(returns) - 0, Len(open_loops) - 0, Len(matching) - 0)
  BY <1>1, HeadStack
<1>3. /\ symbols' = Front(symbols) /\ Leaves(<<>>) /\ tree' = tree /\ had_error' = had_error
      /\ results' = results /\ facts' = facts
      /\ UNCHANGED <<expected, returns, effects, open_loops, matching, tables>>
  BY DEF Exit
<1>4. Goes
  BY <1>3, SilenceGoes
<1>5. Len(symbols) \in Nat /\ Len(symbols) >= 1
  BY SomeScope
<1>6. ScopesFit(had_error', symbols') /\ Len(symbols') = Len(symbols) - 1
  <2>1. ScopesFit(had_error, symbols) /\ Len(symbols) # 0
    BY <1>5 DEF AnalyzerInv, StacksFit
  <2> QED
    BY <1>3, <2>1, ScopeLeaves
<1>7. StacksFit(had_error)'
  BY <1>3, <1>4, <1>6, KeptButScopes
<1>8. Deep' = m /\ Deep' \in Depths
  <2>1. /\ Len(results) \in Nat /\ Len(symbols) - 1 \in Nat /\ Len(expected) \in Nat
        /\ Len(returns) \in Nat /\ Len(open_loops) \in Nat /\ Len(matching) \in Nat
    BY DeepIs
  <2>2. /\ (Len(results) - 0) + 0 = Len(results) /\ Len(symbols) - 1 - 1 \in Nat
        /\ Len(expected) - 0 = Len(expected) /\ Len(open_loops) - 0 = Len(open_loops)
        /\ Len(matching) - 0 = Len(matching) /\ Len(returns) - 0 = Len(returns)
    <3>1. \A a \in Nat : a - 0 = a /\ (a - 0) + 0 = a /\ (a # 0 => a - 1 \in Nat)
      OBVIOUS
    <3> QED
      BY <1>2, <2>1, <3>1
  <2>3. Deep' = Depth(Len(results), Len(symbols) - 1 - 1, Len(expected), Len(returns),
                      Len(open_loops), Len(matching))
    BY <1>3, <1>6 DEF Deep
  <2>4. Deep' = m
    BY <1>2, <2>2, <2>3
  <2> QED
    BY <2>1, <2>2, <2>3, <2>4 DEF Depth, Depths
<1>9. GoodTypes(had_error', results') /\ TablesFit(tree, had_error', tables')
       /\ FactsFit(had_error', facts')
  BY <1>3, <1>4, KeptFits
<1>10. Run(tree, had_error', Deep', <<>>, m)
  BY <1>8, RunNone
<1> QED
  BY <1>2, <1>3, <1>4, <1>7, <1>9, <1>10, Replaces

\* An if evaluates its condition and visits its branches.
LEMMA IfFits ==
  ASSUME AnalyzerInv, If
  PROVE  AnalyzerInv'
<1> DEFINE first == Condition(1) \o <<Visit(Below(2))>>
           last == IF Here[3] = Absent THEN <<>> ELSE <<Visit(Below(3))>>
<1>1. Visiting("If") /\ "If" \in StmtKinds /\ Expands(first \o last)
  BY DEF If, StmtKinds
<1>2. /\ todo # <<>> /\ IsPlain(Item) /\ Takes(tree, Item) = 0 /\ Puts(tree, Item) = 0
      /\ Item.at \in Seq(Nat) /\ Deep \in Depths /\ Here[1] \in Exprs /\ Here[2] \in Stmts
      /\ Here[3] \in OrAbsent(Stmts)
  BY <1>1, Visited DEF IsStmt
<1>3. Run(tree, had_error, Deep, first, Deep)
  <2>1. Run(tree, had_error, Deep, Condition(1), Deep)
    BY <1>2, ConditionBelow
  <2>2. Run(tree, had_error, Deep, <<Visit(Below(2))>>, Deep)
    BY <1>2, VisitBelow, RunOne
  <2> QED
    BY <2>1, <2>2, RunCat
<1>4. Run(tree, had_error, Deep, last, Deep)
  <2>1. CASE Here[3] = Absent
    BY <1>2, <2>1, RunNone
  <2>2. CASE Here[3] # Absent
    <3>1. Here[3] \in Stmts /\ 3 \in Nat
      BY <1>2, <2>2 DEF OrAbsent
    <3>2. Run(tree, had_error, Deep, <<Visit(Below(3))>>, Deep)
      BY <1>2, <3>1, VisitBelow, RunOne
    <3> QED
      BY <2>2, <3>2
  <2> QED
    BY <2>1, <2>2
<1> HIDE DEF first, last
<1>5. Run(tree, had_error, Deep, first \o last, Up(Deep, 0))
  BY <1>2, <1>3, <1>4, RunCat, UpIsDepth
<1> QED
  BY <1>1, <1>2, <1>5, ExpandedQuietly

\* A condition is taken, Boolean or not.
LEMMA ConditionFits ==
  ASSUME AnalyzerInv, ConditionIsBool
  PROVE  AnalyzerInv'
<1>1. /\ todo # <<>> /\ IsPlain(Item) /\ Takes(tree, Item) = 1 /\ Puts(tree, Item) = 0
      /\ Judges(1, <<>>, IsAssignable(Of("Bool"), Result(0)))
  BY DEF ConditionIsBool, Doing, IsPlain, Takes, Puts
<1> QED
  BY <1>1, JudgedNone

\* The depths within a loop.
Within == Depth(Len(results), Len(symbols) - 1, Len(expected), Len(returns),
                Len(open_loops) + 1, Len(matching))

\* A loop in progress is one loop deeper.
LEMMA LoopMoves ==
  ASSUME AnalyzerInv, NEW e, NEW path
  PROVE  /\ Within \in Depths
         /\ Moves(tree, e, Deep, Then("enterLoop", path), Within)
         /\ Moves(tree, e, Within, Then("leaveLoop", path), Deep)
<1> DEFINE R == Len(results)
           S == Len(symbols) - 1
           X == Len(expected)
           U == Len(returns)
           L == Len(open_loops)
           M == Len(matching)
<1>1. /\ R \in Nat /\ S \in Nat /\ X \in Nat /\ U \in Nat /\ L \in Nat /\ M \in Nat
      /\ Deep = Depth(R, S, X, U, L, M)
  BY DeepIs
<1>2. Within = Depth(R, S, X, U, L + 1, M)
  BY DEF Within
<1> HIDE DEF R, S, X, U, L, M
<1>3. /\ Moves(tree, e, Depth(R, S, X, U, L, M), Then("enterLoop", path),
               Depth(R, S, X, U, L + 1, M))
      /\ Moves(tree, e, Depth(R, S, X, U, L + 1, M), Then("leaveLoop", path),
               Depth(R, S, X, U, L, M))
  BY <1>1, StackMoves
<1>4. Within \in Depths
  BY <1>1, <1>2 DEF Depth, Depths
<1> QED
  BY <1>1, <1>2, <1>3, <1>4

\* A while visits its body inside a loop.
LEMMA WhileFits ==
  ASSUME AnalyzerInv, While
  PROVE  AnalyzerInv'
<1> DEFINE t == <<Then("enterLoop", Item.at), Visit(Below(2)), Then("leaveLoop", Item.at)>>
<1>1. Visiting("While") /\ "While" \in StmtKinds /\ Expands(Condition(1) \o t)
  BY DEF While, StmtKinds
<1>2. /\ todo # <<>> /\ IsPlain(Item) /\ Takes(tree, Item) = 0 /\ Puts(tree, Item) = 0
      /\ Item.at \in Seq(Nat) /\ Deep \in Depths /\ Here[1] \in Exprs /\ Here[2] \in Stmts
  BY <1>1, Visited DEF IsStmt
<1>3. Run(tree, had_error, Deep, t, Deep)
  <2>1. Moves(tree, had_error, Within, Visit(Below(2)), Within)
    BY <1>2, LoopMoves, VisitBelow
  <2> QED
    BY <2>1, LoopMoves, RunThree
<1> HIDE DEF t
<1>4. Run(tree, had_error, Deep, Condition(1), Deep)
  BY <1>2, ConditionBelow
<1>5. Run(tree, had_error, Deep, Condition(1) \o t, Up(Deep, 0))
  BY <1>2, <1>3, <1>4, RunCat, UpIsDepth
<1> QED
  BY <1>1, <1>2, <1>5, ExpandedQuietly

\* A loop evaluates its guard, and visits its body between entering and leaving it.
LEMMA LoopFits ==
  ASSUME AnalyzerInv, Loop
  PROVE  AnalyzerInv'
<1> DEFINE bound == Here[1]
           a == IF bound.kind # "Guarded" THEN <<>>
                ELSE <<Eval(Below(1) \o <<1>>, Nothing), Then("condition", Item.at)>>
           b == <<Then("enterLoop", Item.at)>>
           c == VisitAll(Below(2))
           d == <<Then("leaveLoop", Item.at)>>
           ok == /\ bound.kind # "NoBound"
                 /\ bound.kind = "Static" => ~IsZero(bound.parts[1])
<1>1. Visiting("Loop") /\ "Loop" \in StmtKinds
  BY DEF Loop, StmtKinds
<1>2. /\ Leaves(a \o b \o c \o d) /\ Checks(ok)
      /\ UNCHANGED <<tree, results, stacks, tables, facts>>
  BY DEF Loop
<1>3. /\ todo # <<>> /\ IsPlain(Item) /\ Takes(tree, Item) = 0 /\ Puts(tree, Item) = 0
      /\ Item.at \in Seq(Nat) /\ Deep \in Depths
      /\ bound.kind = "Guarded" => bound.parts[1] \in Exprs
      /\ ListOf(Here[2], Stmts)
  BY <1>1, Visited DEF IsStmt
<1>4. Run(tree, had_error', Deep, a, Deep)
  <2>1. CASE bound.kind # "Guarded"
    BY <1>3, <2>1, RunNone
  <2>2. CASE bound.kind = "Guarded"
    <3>1. Leads(tree, Below(1) \o <<1>>, Exprs)
      <4>1. 1 \in Nat /\ Here[1].parts[1] \in Exprs
        BY <1>3, <2>2
      <4> QED
        BY <1>3, <4>1, PartsBelow
    <3>2. Run(tree, had_error', Deep, <<Eval(Below(1) \o <<1>>, Nothing),
                                        Then("condition", Item.at)>>, Deep)
      BY <1>3, <3>1, ConditionRuns
    <3> QED
      BY <2>2, <3>2
  <2> QED
    BY <2>1, <2>2
<1>5. Run(tree, had_error', Deep, b, Within) /\ Run(tree, had_error', Within, d, Deep)
  BY LoopMoves, RunOne
<1>6. Run(tree, had_error', Within, c, Within)
  <2>1. 2 \in Nat
    OBVIOUS
  <2> QED
    BY <1>3, <2>1, LoopMoves, RunVisits
<1> HIDE DEF a, b, c, d, ok
<1>7. Run(tree, had_error', Deep, a \o b \o c \o d, Deep)
  <2>1. Run(tree, had_error', Deep, a \o b, Within)
    BY <1>4, <1>5, RunCat
  <2>2. Run(tree, had_error', Deep, a \o b \o c, Within)
    BY <1>6, <2>1, RunCat
  <2> QED
    BY <1>5, <2>2, RunCat
<1> QED
  BY <1>2, <1>3, <1>7, UpIsDepth, ExpandedPlain

\* The stacks fit when only the loops have changed.
LEMMA KeptButLoops ==
  ASSUME AnalyzerInv, Goes, IsSeq(open_loops'),
         UNCHANGED <<symbols, expected, returns, effects, matching, tables>>
  PROVE  StacksFit(had_error)'
<1>1. /\ ExpectedFit(had_error', expected') /\ GoodTypes(had_error', returns')
      /\ FramesFit(had_error', tables', matching') /\ ScopesFit(had_error', symbols')
  BY KeptFits
<1>2. IsSeq(effects) /\ Len(effects) = Len(returns)
  BY DEF AnalyzerInv, StacksFit
<1> QED
  BY <1>1, <1>2 DEF StacksFit

\* A loop is entered.
LEMMA EnterLoopFits ==
  ASSUME AnalyzerInv, EnterLoop
  PROVE  AnalyzerInv'
<1>1. Doing("enterLoop")
  BY DEF EnterLoop
<1>2. PICK m : /\ Run(tree, had_error, m, Tail(todo), Ground)
               /\ m = Depth((Len(results) - 0) + 0, Len(symbols) - 1 - 0, Len(expected) - 0,
                            Len(returns) - 0, Len(open_loops) - (-1), Len(matching) - 0)
  BY <1>1, HeadStack
<1>3. /\ open_loops' = Append(open_loops, Item.at) /\ Leaves(<<>>) /\ tree' = tree
      /\ had_error' = had_error /\ results' = results
      /\ UNCHANGED <<symbols, expected, returns, effects, matching, tables>>
  BY DEF EnterLoop
<1>4. Goes
  BY <1>3, SilenceGoes
<1>5. IsSeq(open_loops') /\ Len(open_loops') = Len(open_loops) + 1
  BY <1>3, AppendIs DEF AnalyzerInv, StacksFit
<1>6. StacksFit(had_error)'
  BY <1>3, <1>4, <1>5, KeptButLoops
<1>7. FactsFit(had_error', facts')
  <2>1. FactsFit(had_error, facts)
    BY DEF AnalyzerInv
  <2>2. facts' = facts \/ \E loops : facts' = [facts EXCEPT !.loops = loops]
    BY DEF EnterLoop
  <2>3. ASSUME NEW loops, facts' = [facts EXCEPT !.loops = loops]
        PROVE  FactsFit(had_error, facts')
    <3>1. facts' = [types |-> facts.types, matches |-> facts.matches, loops |-> loops,
                    vectors |-> facts.vectors]
      BY <2>1, <2>3 DEF FactsFit
    <3> QED
      BY <2>1, <3>1 DEF FactsFit
  <2> QED
    BY <1>3, <2>1, <2>2, <2>3
<1>8. Deep' = m /\ Deep' \in Depths
  <2>1. /\ Len(results) \in Nat /\ Len(symbols) - 1 \in Nat /\ Len(expected) \in Nat
        /\ Len(returns) \in Nat /\ Len(open_loops) \in Nat /\ Len(matching) \in Nat
    BY DeepIs
  <2>2. /\ (Len(results) - 0) + 0 = Len(results) /\ Len(symbols) - 1 - 0 = Len(symbols) - 1
        /\ Len(expected) - 0 = Len(expected) /\ Len(open_loops) - (-1) = Len(open_loops) + 1
        /\ Len(matching) - 0 = Len(matching) /\ Len(returns) - 0 = Len(returns)
        /\ Len(open_loops) + 1 \in Nat
    <3>1. \A a \in Nat : a - 0 = a /\ (a - 0) + 0 = a /\ a - (-1) = a + 1 /\ a + 1 \in Nat
      OBVIOUS
    <3> QED
      BY <1>2, <2>1, <3>1
  <2>3. Deep' = Depth(Len(results), Len(symbols) - 1, Len(expected), Len(returns),
                      Len(open_loops) + 1, Len(matching))
    BY <1>3, <1>5 DEF Deep
  <2>4. Deep' = m
    BY <1>2, <2>2, <2>3
  <2> QED
    BY <2>1, <2>2, <2>3, <2>4 DEF Depth, Depths
<1>9. GoodTypes(had_error', results') /\ TablesFit(tree, had_error', tables')
  BY <1>3, <1>4, KeptFits
<1>10. Run(tree, had_error', Deep', <<>>, m)
  BY <1>8, RunNone
<1> QED
  BY <1>2, <1>3, <1>4, <1>6, <1>7, <1>9, <1>10, Replaces

\* A loop is left.
LEMMA LeaveLoopFits ==
  ASSUME AnalyzerInv, LeaveLoop
  PROVE  AnalyzerInv'
<1>1. Doing("leaveLoop")
  BY DEF LeaveLoop
<1>2. PICK m : /\ Run(tree, had_error, m, Tail(todo), Ground)
               /\ Len(open_loops) # 0
               /\ m = Depth((Len(results) - 0) + 0, Len(symbols) - 1 - 0, Len(expected) - 0,
                            Len(returns) - 0, Len(open_loops) - 1, Len(matching) - 0)
  BY <1>1, HeadStack
<1>3. /\ open_loops' = Front(open_loops) /\ Leaves(<<>>) /\ tree' = tree
      /\ had_error' = had_error /\ results' = results /\ facts' = facts
      /\ UNCHANGED <<symbols, expected, returns, effects, matching, tables>>
  BY DEF LeaveLoop
<1>4. Goes
  BY <1>3, SilenceGoes
<1>5. IsSeq(open_loops') /\ Len(open_loops') = Len(open_loops) - 1
  BY <1>2, <1>3, FrontIs DEF AnalyzerInv, StacksFit
<1>6. StacksFit(had_error)'
  BY <1>3, <1>4, <1>5, KeptButLoops
<1>8. Deep' = m /\ Deep' \in Depths
  <2>1. /\ Len(results) \in Nat /\ Len(symbols) - 1 \in Nat /\ Len(expected) \in Nat
        /\ Len(returns) \in Nat /\ Len(open_loops) \in Nat /\ Len(matching) \in Nat
    BY DeepIs
  <2>2. /\ (Len(results) - 0) + 0 = Len(results) /\ Len(symbols) - 1 - 0 = Len(symbols) - 1
        /\ Len(expected) - 0 = Len(expected) /\ Len(open_loops) - 1 \in Nat
        /\ Len(matching) - 0 = Len(matching) /\ Len(returns) - 0 = Len(returns)
    <3>1. \A a \in Nat : a - 0 = a /\ (a - 0) + 0 = a /\ (a # 0 => a - 1 \in Nat)
      OBVIOUS
    <3> QED
      BY <1>2, <2>1, <3>1
  <2>3. Deep' = Depth(Len(results), Len(symbols) - 1, Len(expected), Len(returns),
                      Len(open_loops) - 1, Len(matching))
    BY <1>3, <1>5 DEF Deep
  <2>4. Deep' = m
    BY <1>2, <2>2, <2>3
  <2> QED
    BY <2>1, <2>2, <2>3, <2>4 DEF Depth, Depths
<1>9. GoodTypes(had_error', results') /\ TablesFit(tree, had_error', tables')
      /\ FactsFit(had_error', facts')
  BY <1>3, <1>4, KeptFits
<1>10. Run(tree, had_error', Deep', <<>>, m)
  BY <1>8, RunNone
<1> QED
  BY <1>2, <1>3, <1>4, <1>6, <1>9, <1>10, Replaces

\* A break or a continue, inside a loop or not.
LEMMA JumpFits ==
  ASSUME AnalyzerInv, Jump
  PROVE  AnalyzerInv'
<1>1. PICK kind \in {"Break", "Continue"} : Visiting(kind)
  BY DEF Jump
<1>2. kind \in StmtKinds
  BY DEF StmtKinds
<1>3. /\ todo # <<>> /\ IsPlain(Item) /\ Takes(tree, Item) = 0 /\ Puts(tree, Item) = 0
  BY <1>1, <1>2, Visited
<1>4. Judges(0, <<>>, open_loops # <<>>)
  BY DEF Jump
<1> QED
  BY <1>3, <1>4, JudgedNone

\* A return evaluates its value against the type of the function.
LEMMA ReturnFits ==
  ASSUME AnalyzerInv, Return
  PROVE  AnalyzerInv'
<1> DEFINE bare == Here[1] = Absent
           more == <<Eval(Below(1), Last(returns)), Then("returned", Item.at)>>
           items == IF bare \/ returns = <<>> THEN <<>> ELSE more
           ok == returns # <<>> /\ (bare => Last(returns).kind = "Void")
<1>1. Visiting("Return") /\ "Return" \in StmtKinds
  BY DEF Return, StmtKinds
<1>2. Leaves(items) /\ Checks(ok) /\ UNCHANGED <<tree, results, stacks, tables, facts>>
  BY DEF Return
<1>3. /\ todo # <<>> /\ IsPlain(Item) /\ Takes(tree, Item) = 0 /\ Puts(tree, Item) = 0
      /\ Item.at \in Seq(Nat) /\ Deep \in Depths /\ Here[1] \in OrAbsent(Exprs)
  BY <1>1, Visited DEF IsStmt
<1>4. Goes
  BY <1>2, ChecksGoes
<1>5. Run(tree, had_error', Deep, items, Up(Deep, 0))
  <2>1. CASE bare \/ returns = <<>>
    <3>1. Run(tree, had_error', Deep, <<>>, Up(Deep, 0))
      BY <1>3, UpIsDepth, RunNone
    <3> QED
      BY <2>1, <3>1
  <2>2. CASE ~bare /\ returns # <<>>
    <3>1. Here[1] \in Exprs
      BY <1>3, <2>2 DEF OrAbsent
    <3>2. GoodOr(had_error', Last(returns))
      <4>1. GoodTypes(had_error, returns) /\ IsSeq(returns)
        BY DEF AnalyzerInv, StacksFit, GoodTypes
      <4>2. Good(had_error, Last(returns))
        BY <2>2, <4>1, LastIs DEF GoodTypes
      <4> QED
        BY <1>4, <4>2, TypesStay DEF Goes, GoodOr
    <3>3. Moves(tree, had_error', Deep, Eval(Below(1), Last(returns)), Up(Deep, 1))
      BY <1>3, <3>1, <3>2, EvalBelow
    <3>4. Moves(tree, had_error', Up(Deep, 1), Then("returned", Item.at), Up(Deep, 0))
      BY <1>3, ThenMoves
    <3>5. Run(tree, had_error', Deep, more, Up(Deep, 0))
      BY <3>3, <3>4, RunTwo
    <3> HIDE DEF more
    <3> QED
      BY <2>2, <3>5
  <2> QED
    BY <2>1, <2>2
<1> HIDE DEF items, ok
<1> QED
  BY <1>2, <1>3, <1>5, ExpandedPlain

\* The value of a return is taken.
LEMMA ReturnedFits ==
  ASSUME AnalyzerInv, Returned
  PROVE  AnalyzerInv'
<1>1. /\ todo # <<>> /\ IsPlain(Item) /\ Takes(tree, Item) = 1 /\ Puts(tree, Item) = 0
      /\ Judges(1, <<>>, IsAssignable(Last(returns), Result(0)))
  BY DEF Returned, Doing, IsPlain, Takes, Puts
<1> QED
  BY <1>1, JudgedNone

\* The steps of statements.
LEMMA StatementStepFits ==
  ASSUME AnalyzerInv, StatementStep
  PROVE  AnalyzerInv'
  BY ExpressionStatementFits, DeclareFits, InitializeFits, BindFits, BlockFits, ExitFits, IfFits,
     ConditionFits, WhileFits, LoopFits, EnterLoopFits, LeaveLoopFits, JumpFits, ReturnFits,
     ReturnedFits DEF StatementStep

-----------------------------------------------------------------------------
(* Declarations.                                                              *)

\* One table is replaced.
LEMMA TableChanges ==
  ASSUME NEW t, t = [records |-> t.records, enums |-> t.enums, aliases |-> t.aliases,
                     arities |-> t.arities, generics |-> t.generics, module |-> t.module,
                     imports |-> t.imports, next_enum |-> t.next_enum],
         NEW x
  PROVE  /\ [t EXCEPT !.records = x] =
              [records |-> x, enums |-> t.enums, aliases |-> t.aliases, arities |-> t.arities,
               generics |-> t.generics, module |-> t.module, imports |-> t.imports,
               next_enum |-> t.next_enum]
         /\ [t EXCEPT !.enums = x] =
              [records |-> t.records, enums |-> x, aliases |-> t.aliases, arities |-> t.arities,
               generics |-> t.generics, module |-> t.module, imports |-> t.imports,
               next_enum |-> t.next_enum]
         /\ [t EXCEPT !.aliases = x] =
              [records |-> t.records, enums |-> t.enums, aliases |-> x, arities |-> t.arities,
               generics |-> t.generics, module |-> t.module, imports |-> t.imports,
               next_enum |-> t.next_enum]
         /\ [t EXCEPT !.arities = x] =
              [records |-> t.records, enums |-> t.enums, aliases |-> t.aliases, arities |-> x,
               generics |-> t.generics, module |-> t.module, imports |-> t.imports,
               next_enum |-> t.next_enum]
         /\ [t EXCEPT !.generics = x] =
              [records |-> t.records, enums |-> t.enums, aliases |-> t.aliases,
               arities |-> t.arities, generics |-> x, module |-> t.module,
               imports |-> t.imports, next_enum |-> t.next_enum]
         /\ [t EXCEPT !.module = x] =
              [records |-> t.records, enums |-> t.enums, aliases |-> t.aliases,
               arities |-> t.arities, generics |-> t.generics, module |-> x,
               imports |-> t.imports, next_enum |-> t.next_enum]
         /\ [t EXCEPT !.imports = x] =
              [records |-> t.records, enums |-> t.enums, aliases |-> t.aliases,
               arities |-> t.arities, generics |-> t.generics, module |-> t.module,
               imports |-> x, next_enum |-> t.next_enum]
         /\ [t EXCEPT !.next_enum = x] =
              [records |-> t.records, enums |-> t.enums, aliases |-> t.aliases,
               arities |-> t.arities, generics |-> t.generics, module |-> t.module,
               imports |-> t.imports, next_enum |-> x]
  OBVIOUS

\* Tables in which the types and the aliases are those of others.
LEMMA TablesAlike ==
  ASSUME NEW root, NEW e, NEW t, TablesFit(root, e, t),
         NEW u, NEW r, NEW g, NEW m, NEW i, NEW n,
         u = [records |-> t.records, enums |-> t.enums, aliases |-> t.aliases,
              arities |-> r, generics |-> g, module |-> m, imports |-> i, next_enum |-> n]
  PROVE  /\ TablesFit(root, e, u)
         /\ u.records = t.records /\ u.enums = t.enums /\ u.aliases = t.aliases
  BY DEF TablesFit

\* A record, an enum or an alias more.
LEMMA RecordExtends ==
  ASSUME NEW root, NEW e, NEW t, TablesFit(root, e, t), NEW name, NEW x, IsRecord(e, x),
         NEW u, u = [t EXCEPT !.records = Extended(t.records, name, x)]
  PROVE  TablesFit(root, e, u) /\ u.enums = t.enums
<1> DEFINE f == Extended(t.records, name, x)
<1>1. /\ \A n \in DOMAIN f : f[n] = x \/ (n \in DOMAIN t.records /\ f[n] = t.records[n])
      /\ DOMAIN t.records \subseteq DOMAIN f
  BY DEF Extended
<1>2. u = [t EXCEPT !.records = f]
  OBVIOUS
<1> HIDE DEF f
<1>3. u = [records |-> f, enums |-> t.enums, aliases |-> t.aliases,
              arities |-> t.arities, generics |-> t.generics, module |-> t.module,
              imports |-> t.imports, next_enum |-> t.next_enum]
  BY <1>2, TableChanges DEF TablesFit
<1>4. \A n \in DOMAIN f : IsRecord(e, f[n])
  BY <1>1 DEF TablesFit
<1> QED
  BY <1>1, <1>3, <1>4 DEF TablesFit

\* One more enum.
LEMMA EnumExtends ==
  ASSUME NEW root, NEW e, NEW t, TablesFit(root, e, t), NEW name, NEW x, AreVariants(e, x.variants),
         NEW u, u = [t EXCEPT !.enums = Extended(t.enums, name, x)]
  PROVE  TablesFit(root, e, u) /\ u.enums = Extended(t.enums, name, x)
<1> DEFINE f == Extended(t.enums, name, x)
<1>1. /\ \A n \in DOMAIN f : f[n] = x \/ (n \in DOMAIN t.enums /\ f[n] = t.enums[n])
      /\ DOMAIN t.enums \subseteq DOMAIN f
  BY DEF Extended
<1>2. u = [t EXCEPT !.enums = f]
  OBVIOUS
<1> HIDE DEF f
<1>3. u = [records |-> t.records, enums |-> f, aliases |-> t.aliases,
              arities |-> t.arities, generics |-> t.generics, module |-> t.module,
              imports |-> t.imports, next_enum |-> t.next_enum]
  BY <1>2, TableChanges DEF TablesFit
<1>4. \A n \in DOMAIN f : AreVariants(e, f[n].variants)
  BY <1>1 DEF TablesFit
<1>5. TablesFit(root, e, u) /\ u.enums = f
  BY <1>3, <1>4 DEF TablesFit
<1> QED
  BY <1>5 DEF f

\* One more alias.
LEMMA AliasExtends ==
  ASSUME NEW root, NEW e, NEW t, TablesFit(root, e, t), NEW name, NEW x,
         Leads(root, x.at, TypeExprs),
         NEW u, u = [t EXCEPT !.aliases = Extended(t.aliases, name, x)]
  PROVE  TablesFit(root, e, u) /\ u.enums = t.enums
<1> DEFINE f == Extended(t.aliases, name, x)
<1>1. /\ \A n \in DOMAIN f : f[n] = x \/ (n \in DOMAIN t.aliases /\ f[n] = t.aliases[n])
      /\ DOMAIN t.aliases \subseteq DOMAIN f
  BY DEF Extended
<1>2. u = [t EXCEPT !.aliases = f]
  OBVIOUS
<1> HIDE DEF f
<1>3. u = [records |-> t.records, enums |-> t.enums, aliases |-> f,
              arities |-> t.arities, generics |-> t.generics, module |-> t.module,
              imports |-> t.imports, next_enum |-> t.next_enum]
  BY <1>2, TableChanges DEF TablesFit
<1>4. \A n \in DOMAIN f : Leads(root, f[n].at, TypeExprs)
  BY <1>1 DEF TablesFit
<1> QED
  BY <1>1, <1>3, <1>4 DEF TablesFit

\* The stacks fit when the tables have changed, and no enum is lost.
LEMMA KeptButTables ==
  ASSUME AnalyzerInv, Goes, UNCHANGED stacks, DOMAIN tables.enums \subseteq DOMAIN tables'.enums
  PROVE  StacksFit(had_error)'
<1>1. /\ symbols' = symbols /\ expected' = expected /\ returns' = returns
      /\ effects' = effects /\ open_loops' = open_loops /\ matching' = matching
  BY DEF stacks
<1>2. /\ ScopesFit(had_error', symbols') /\ ExpectedFit(had_error', expected')
      /\ GoodTypes(had_error', returns')
  BY <1>1, KeptFits
<1>3. IsSeq(effects) /\ Len(effects) = Len(returns) /\ IsSeq(open_loops)
  BY DEF AnalyzerInv, StacksFit
<1>4. FramesFit(had_error', tables, matching)
  BY FitStays DEF AnalyzerInv, StacksFit, Goes
<1>5. FramesFit(had_error', tables', matching')
  <2>1. \A type : HasVariants(tables, type) => HasVariants(tables', type)
    BY DEF HasVariants
  <2> QED
    BY <1>1, <1>4, <2>1 DEF FramesFit, IsFrame
<1> QED
  BY <1>1, <1>2, <1>3, <1>5 DEF StacksFit

\* A step that gives types for the results it takes, and may change the tables.
LEMMA TablesSettle ==
  ASSUME AnalyzerInv, Goes, todo # <<>>, IsPlain(Item), Leaves(<<>>),
         NEW n, Takes(tree, Item) = n, NEW types, Puts(tree, Item) = Len(types),
         Gives(n, types), GoodTypes(had_error', types),
         TablesFit(tree, had_error', tables'), DOMAIN tables.enums \subseteq DOMAIN tables'.enums,
         UNCHANGED <<stacks, facts>>
  PROVE  AnalyzerInv'
<1>1. StacksFit(had_error)'
  BY KeptButTables
<1>2. /\ Len(symbols') = Len(symbols) /\ Len(expected') = Len(expected)
      /\ Len(returns') = Len(returns) /\ Len(open_loops') = Len(open_loops)
      /\ Len(matching') = Len(matching)
  BY DEF stacks
<1>3. FactsFit(had_error', facts')
  BY KeptFits
<1> QED
  BY <1>1, <1>2, <1>3, Settles

\* A step of a plain item that takes nothing, puts items and may change the tables.
LEMMA TablesExpand ==
  ASSUME AnalyzerInv, Goes, todo # <<>>, IsPlain(Item), Takes(tree, Item) = 0,
         NEW items, Leaves(items), Run(tree, had_error', Deep, items, Up(Deep, Puts(tree, Item))),
         TablesFit(tree, had_error', tables'), DOMAIN tables.enums \subseteq DOMAIN tables'.enums,
         UNCHANGED <<results, stacks, facts>>
  PROVE  AnalyzerInv'
<1>1. PICK b \in Depths : Deep = Up(b, 0)
                          /\ Run(tree, had_error, Up(b, Puts(tree, Item)), Tail(todo), Ground)
  BY HeadPlain
<1>2. b = Deep
  BY <1>1, UpIsDepth
<1>3. Deep' = Deep
  BY DEF Deep, stacks
<1>4. StacksFit(had_error)'
  BY KeptButTables
<1>5. GoodTypes(had_error', results') /\ FactsFit(had_error', facts')
  BY KeptFits
<1>6. Run(tree, had_error', Deep', items, Up(Deep, Puts(tree, Item)))
  BY <1>3
<1> QED
  BY <1>1, <1>2, <1>4, <1>5, <1>6, Replaces

\* The tables fit after the step as they did before it.
LEMMA TablesStay ==
  ASSUME AnalyzerInv, Goes
  PROVE  TablesFit(tree, had_error', tables)
  BY FitStays DEF AnalyzerInv, Goes

\* A module declaration.
LEMMA ModuleFits ==
  ASSUME AnalyzerInv, Module
  PROVE  AnalyzerInv'
<1>1. Visiting("Module") /\ "Module" \in StmtKinds /\ Checks(tables.module = Nothing)
      /\ (tables' = tables \/ tables' = [tables EXCEPT !.module = NameHere(1)])
      /\ Leaves(<<>>) /\ tree' = tree /\ results' = results /\ UNCHANGED <<stacks, facts>>
  BY DEF Module, StmtKinds
<1>2. /\ todo # <<>> /\ IsPlain(Item) /\ Takes(tree, Item) = 0 /\ Puts(tree, Item) = 0
  BY <1>1, Visited
<1>3. Goes /\ Gives(0, <<>>)
  BY <1>1, ChecksGoes, GivesNone
<1>4. TablesFit(tree, had_error', tables') /\ DOMAIN tables.enums \subseteq DOMAIN tables'.enums
  <2>1. TablesFit(tree, had_error', tables)
    BY <1>3, TablesStay
  <2>2. CASE tables' = tables
    BY <2>1, <2>2
  <2>3. ASSUME NEW x, tables' = [tables EXCEPT !.module = x]
        PROVE  TablesFit(tree, had_error', tables') /\ tables'.enums = tables.enums
    <3>1. tables' = [records |-> tables.records, enums |-> tables.enums,
                     aliases |-> tables.aliases, arities |-> tables.arities,
                     generics |-> tables.generics, module |-> x, imports |-> tables.imports,
                     next_enum |-> tables.next_enum]
      BY <2>1, <2>3, TableChanges DEF TablesFit
    <3> QED
      BY <2>1, <3>1, TablesAlike
  <2> QED
    BY <1>1, <2>2, <2>3
<1>5. GoodTypes(had_error', <<>>) /\ Len(<<>>) = 0
  BY GoodFew
<1> QED
  BY <1>1, <1>2, <1>3, <1>4, <1>5, TablesSettle

\* An import.
LEMMA ImportFits ==
  ASSUME AnalyzerInv, Import
  PROVE  AnalyzerInv'
<1>1. /\ Visiting("Import") /\ "Import" \in StmtKinds
      /\ Checks(NameHere(1) \notin tables.imports \cup {tables.module})
      /\ (tables' = tables
          \/ tables' = [tables EXCEPT !.imports = tables.imports \cup {NameHere(1)}])
      /\ Leaves(<<>>) /\ tree' = tree /\ results' = results /\ UNCHANGED <<stacks, facts>>
  BY DEF Import, StmtKinds
<1>2. /\ todo # <<>> /\ IsPlain(Item) /\ Takes(tree, Item) = 0 /\ Puts(tree, Item) = 0
  BY <1>1, Visited
<1>3. Goes /\ Gives(0, <<>>)
  BY <1>1, ChecksGoes, GivesNone
<1>4. TablesFit(tree, had_error', tables') /\ DOMAIN tables.enums \subseteq DOMAIN tables'.enums
  <2>1. TablesFit(tree, had_error', tables)
    BY <1>3, TablesStay
  <2>2. CASE tables' = tables
    BY <2>1, <2>2
  <2>3. ASSUME NEW x, tables' = [tables EXCEPT !.imports = x]
        PROVE  TablesFit(tree, had_error', tables') /\ tables'.enums = tables.enums
    <3>1. tables' = [records |-> tables.records, enums |-> tables.enums,
                     aliases |-> tables.aliases, arities |-> tables.arities,
                     generics |-> tables.generics, module |-> tables.module, imports |-> x,
                     next_enum |-> tables.next_enum]
      BY <2>1, <2>3, TableChanges DEF TablesFit
    <3> QED
      BY <2>1, <3>1, TablesAlike
  <2> QED
    BY <1>1, <2>2, <2>3
<1>5. GoodTypes(had_error', <<>>) /\ Len(<<>>) = 0
  BY GoodFew
<1> QED
  BY <1>1, <1>2, <1>3, <1>4, <1>5, TablesSettle

\* An alias is recorded with the path of its type, which is analyzed at each use.
LEMMA AliasFits ==
  ASSUME AnalyzerInv, Alias
  PROVE  AnalyzerInv'
<1> DEFINE name == NameHere(1)
           arity == Len(Here[2].parts)
           ok == /\ name \notin tables.generics
                 /\ name \in DOMAIN tables.arities => tables.arities[name] = arity
           a == IF name \in DOMAIN tables.arities THEN tables.arities
                ELSE Extended(tables.arities, name, arity)
           g == tables.generics \cup {name}
           x == [arity |-> arity, at |-> Below(3)]
           items == <<Visit(Below(3)), Then("forget", Item.at)>>
<1>1. /\ Visiting("Type") /\ "Type" \in StmtKinds /\ Checks(ok)
      /\ tables' = [tables EXCEPT !.arities = a, !.generics = g,
                                  !.aliases = Extended(tables.aliases, name, x)]
      /\ Leaves(items) /\ tree' = tree /\ UNCHANGED <<results, stacks, facts>>
  BY DEF Alias, StmtKinds
<1>2. /\ todo # <<>> /\ IsPlain(Item) /\ Takes(tree, Item) = 0 /\ Puts(tree, Item) = 0
      /\ Item.at \in Seq(Nat) /\ Deep \in Depths /\ Here[3] \in TypeExprs
  BY <1>1, Visited DEF IsStmt
<1>3. Goes
  BY <1>1, ChecksGoes
<1>4. Leads(tree, Below(3), TypeExprs) /\ Leads(tree, Below(3), Exprs \cup TypeExprs)
  <2>1. 3 \in Nat /\ Here[3] \in Exprs \cup TypeExprs
    BY <1>2
  <2> QED
    BY <1>2, <2>1, PartsBelow
<1>5. Run(tree, had_error', Deep, items, Up(Deep, 0))
  <2>1. Moves(tree, had_error', Deep, Visit(Below(3)), Up(Deep, 1))
    BY <1>2, <1>4, VisitMoves
  <2>2. Moves(tree, had_error', Up(Deep, 1), Then("forget", Item.at), Up(Deep, 0))
    BY <1>2, ThenMoves
  <2> QED
    BY <2>1, <2>2, RunTwo
<1>6. TablesFit(tree, had_error', tables') /\ DOMAIN tables.enums \subseteq DOMAIN tables'.enums
  <2> DEFINE y == Extended(tables.aliases, name, x)
             t1 == [records |-> tables.records, enums |-> tables.enums,
                    aliases |-> tables.aliases, arities |-> a, generics |-> g,
                    module |-> tables.module, imports |-> tables.imports,
                    next_enum |-> tables.next_enum]
  <2>1. TablesFit(tree, had_error', tables)
    BY <1>3, TablesStay
  <2>2. x.at = Below(3)
    OBVIOUS
  <2> HIDE DEF a, g, x, name, y
  <2>3. tables' = [t1 EXCEPT !.aliases = y]
    <3>1. tables = [records |-> tables.records, enums |-> tables.enums,
                    aliases |-> tables.aliases, arities |-> tables.arities,
                    generics |-> tables.generics, module |-> tables.module,
                    imports |-> tables.imports, next_enum |-> tables.next_enum]
      BY <2>1 DEF TablesFit
    <3>2. tables' = [tables EXCEPT !.arities = a, !.generics = g, !.aliases = y]
      BY <1>1 DEF y
    <3> DEFINE u1 == [tables EXCEPT !.arities = a]
               u2 == [u1 EXCEPT !.generics = g]
    <3>3. [tables EXCEPT !.arities = a, !.generics = g, !.aliases = y] = [u2 EXCEPT !.aliases = y]
      OBVIOUS
    <3>4. u1 = [records |-> tables.records, enums |-> tables.enums,
                aliases |-> tables.aliases, arities |-> a,
                generics |-> tables.generics, module |-> tables.module,
                imports |-> tables.imports, next_enum |-> tables.next_enum]
      BY <3>1, TableChanges
    <3> HIDE DEF u1
    <3>5. u2 = t1
      BY <3>4, TableChanges
    <3> HIDE DEF u2
    <3> QED
      BY <3>2, <3>3, <3>5
  <2>4. TablesFit(tree, had_error', t1) /\ t1.enums = tables.enums /\ t1.aliases = tables.aliases
    BY <2>1, TablesAlike
  <2> HIDE DEF t1
  <2>5. y = Extended(t1.aliases, name, x) /\ Leads(tree, x.at, TypeExprs)
    BY <1>4, <2>2, <2>4 DEF y
  <2>6. tables' = [t1 EXCEPT !.aliases = Extended(t1.aliases, name, x)]
    BY <2>3, <2>5
  <2> QED
    BY <2>4, <2>5, <2>6, AliasExtends
<1> HIDE DEF items
<1> QED
  BY <1>1, <1>2, <1>3, <1>5, <1>6, TablesExpand

\* The types of a list of pairs, and the names, of which there are as many.
LEMMA RunPairTypes ==
  ASSUME NEW e, Item.at \in Seq(Nat), Pairs(Here[3], OrAbsent(TypeExprs)), NEW d \in Depths
  PROVE  Run(tree, e, d, PairTypes(Below(3)), Up(d, Len(Here[3].parts)))
<1> DEFINE parts == Here[3].parts
           s == PairTypes(Below(3))
<1>1. IsSeq(parts) /\ DOMAIN parts = 1..Len(parts) /\ Len(parts) \in Nat
  BY SeqLen DEF Pairs, IsList
<1>2. At(Below(3)) = Here[3] /\ Below(3) \in Seq(Nat)
  <2>1. 3 \in Nat
    OBVIOUS
  <2> QED
    BY <2>1, PartsBelow
<1>3. IsSeq(s) /\ Len(s) = Len(parts) /\ DOMAIN s = DOMAIN parts
      /\ \A i \in DOMAIN parts : s[i] = PairType(Below(3), i)
  <2>1. s = [i \in DOMAIN parts |-> s[i]] /\ \A i \in DOMAIN parts : s[i] = PairType(Below(3), i)
    BY <1>2 DEF PairTypes
  <2> HIDE DEF s, parts
  <2> QED
    BY <1>1, <2>1, MadeIs
<1>4. ASSUME NEW i \in DOMAIN parts, NEW b \in Depths
      PROVE  Moves(tree, e, b, s[i], Up(b, 1))
  <2>1. i \in Nat /\ 2 \in Nat /\ 3 \in Nat
    BY <1>1
  <2>2. s[i] = Yield(Unknown) \/ (s[i] = Visit(Below(3) \o <<i, 2>>)
                                  /\ Here[3].parts[i].parts[2] # Absent)
    BY <1>2, <1>3, <1>4 DEF PairType
  <2>3. CASE s[i] = Yield(Unknown)
    BY <2>3, GoodOf, YieldMoves
  <2>4. CASE s[i] = Visit(Below(3) \o <<i, 2>>) /\ Here[3].parts[i].parts[2] # Absent
    <3>1. Here[3].parts[i].parts[2] \in Exprs \cup TypeExprs
      BY <1>4, <2>4 DEF Pairs, OrAbsent
    <3>2. Leads(tree, Below(3) \o <<i, 2>>, Exprs \cup TypeExprs)
      BY <2>1, <3>1, PartsBelow
    <3> QED
      BY <2>4, <3>2, VisitMoves
  <2> QED
    BY <2>2, <2>3, <2>4
<1> HIDE DEF s
<1>5. Each(tree, e, s, 1)
  BY <1>3, <1>4 DEF Each
<1>6. Run(tree, e, d, s, Up(d, Len(s)))
  BY <1>3, <1>5, RunGiving
<1> QED
  BY <1>3, <1>6 DEF s

\* The names of a list of pairs are as many as the pairs.
LEMMA PairNamesIs ==
  ASSUME NEW list, IsList(list)
  PROVE  /\ IsSeq(PairNames(list)) /\ Len(PairNames(list)) = Len(list.parts)
         /\ DOMAIN PairNames(list) = DOMAIN list.parts
<1> DEFINE s == PairNames(list)
<1>1. s = [i \in DOMAIN list.parts |-> s[i]]
  BY DEF PairNames
<1> HIDE DEF s
<1>2. IsSeq(s) /\ Len(s) = Len(list.parts) /\ DOMAIN s = DOMAIN list.parts
  BY <1>1, MadeIs DEF IsList
<1> QED
  BY <1>2 DEF s

\* Their definition takes as many results.
LEMMA DefineMoves ==
  ASSUME NEW e, Leads(tree, Item.at, Stmts), NEW d \in Depths, NEW item,
         item.at = Item.at, Pairs(Here[3], OrAbsent(TypeExprs)),
         \/ item.do = "defineRecord" /\ At(Item.at).kind = "Record"
         \/ item.do = "defineEnum" /\ At(Item.at).kind = "Enum"
  PROVE  Moves(tree, e, Up(d, Len(Here[3].parts)), item, Up(d, 0))
<1>1. Len(Here[3].parts) \in Nat
  BY SeqLen DEF Pairs, IsList
<1>2. Fits(tree, e, item) /\ IsPlain(item) /\ Puts(tree, item) = 0
  BY DEF Fits, IsPlain, Puts, At, LeadsTo
<1>3. Takes(tree, item) = Len(Here[3].parts)
  BY DEF Takes, Here, At
<1> QED
  BY <1>1, <1>2, <1>3, TakingMoves

\* A record is declared before its fields are analyzed.
LEMMA DeclareRecordFits ==
  ASSUME AnalyzerInv, DeclareRecord
  PROVE  AnalyzerInv'
<1> DEFINE defined == NameHere(2) \in DOMAIN tables.records
           ok == ~defined /\ ~HasRepeated(PairNames(Here[3]))
           s == PairTypes(Below(3))
           t == <<Then("defineRecord", Item.at)>>
           items == IF defined THEN <<>> ELSE s \o t
<1>1. /\ Visiting("Record") /\ "Record" \in StmtKinds /\ Checks(ok) /\ Leaves(items)
      /\ UNCHANGED <<tree, results, stacks, tables, facts>>
  BY DEF DeclareRecord, StmtKinds
<1>2. /\ todo # <<>> /\ IsPlain(Item) /\ Takes(tree, Item) = 0 /\ Puts(tree, Item) = 0
      /\ Item.at \in Seq(Nat) /\ Deep \in Depths /\ At(Item.at).kind = "Record"
      /\ Leads(tree, Item.at, Stmts) /\ Pairs(Here[3], OrAbsent(TypeExprs))
  BY <1>1, Visited DEF IsStmt, Leads, Pairs, OrAbsent
<1>3. Run(tree, had_error', Deep, items, Up(Deep, 0))
  <2>1. Run(tree, had_error', Deep, s, Up(Deep, Len(Here[3].parts)))
    BY <1>2, RunPairTypes
  <2>2. Run(tree, had_error', Up(Deep, Len(Here[3].parts)), t, Up(Deep, 0))
    <3> DEFINE item == Then("defineRecord", Item.at)
    <3>1. item.do = "defineRecord" /\ item.at = Item.at
      BY DEF Then
    <3> HIDE DEF item
    <3>2. Moves(tree, had_error', Up(Deep, Len(Here[3].parts)), item, Up(Deep, 0))
      BY <1>2, <3>1, DefineMoves
    <3>3. t = <<item>>
      BY DEF item
    <3> QED
      BY <3>2, <3>3, RunOne
  <2>3. Run(tree, had_error', Deep, <<>>, Up(Deep, 0))
    BY <1>2, RunNone, UpIsDepth
  <2> HIDE DEF s, t
  <2>4. Run(tree, had_error', Deep, s \o t, Up(Deep, 0))
    BY <2>1, <2>2, RunCat
  <2> QED
    BY <2>3, <2>4
<1> HIDE DEF items, ok
<1> QED
  BY <1>1, <1>2, <1>3, ExpandedPlain

\* The item that defines what a list of pairs declares: the names, and the
\* types it takes.
LEMMA PairsTaken ==
  ASSUME AnalyzerInv, NEW what \in {"defineRecord", "defineEnum"}, Doing(what)
  PROVE  /\ todo # <<>> /\ IsPlain(Item) /\ Puts(tree, Item) = 0
         /\ Takes(tree, Item) = Len(PairNames(Here[3]))
         /\ IsSeq(PairNames(Here[3]))
         /\ GoodTypes(had_error, Args(Len(PairNames(Here[3]))))
         /\ DOMAIN Args(Len(PairNames(Here[3]))) = DOMAIN PairNames(Here[3])
         /\ Len(PairNames(Here[3])) \in Nat
<1>1. todo # <<>> /\ Item.do = what /\ IsPlain(Item) /\ Puts(tree, Item) = 0
  BY DEF Doing, IsPlain, Puts
<1>2. /\ LeadsTo(tree, Item.at, Stmts, {"Record", "Enum"})
      /\ Takes(tree, Item) \in Nat /\ Takes(tree, Item) <= Len(results)
  BY <1>1, HeadPlain DEF Fits, LeadsTo
<1>3. IsStmt(At(Item.at)) /\ At(Item.at).kind \in {"Record", "Enum"}
  BY <1>2, KindsOfNodes DEF At, LeadsTo, Leads
<1>4. IsList(Here[3])
  BY <1>3 DEF IsStmt, Pairs, Here
<1> DEFINE names == PairNames(Here[3])
<1>5. IsSeq(names) /\ Len(names) = Len(Here[3].parts)
  BY <1>4, PairNamesIs
<1>6. Takes(tree, Item) = Len(Here[3].parts)
  BY <1>1 DEF Takes, Here, At
<1> HIDE DEF names
<1>7. Len(names) \in Nat /\ Len(names) <= Len(results) /\ DOMAIN names = 1..Len(names)
  BY <1>2, <1>5, <1>6, SeqLen
<1>8. GoodTypes(had_error, Args(Len(names))) /\ Len(Args(Len(names))) = Len(names)
  BY <1>7, TakenAreGood
<1>9. DOMAIN Args(Len(names)) = DOMAIN names
  BY <1>7, <1>8, SeqLen DEF GoodTypes
<1> QED
  BY <1>1, <1>5, <1>6, <1>7, <1>8, <1>9 DEF names

\* The fields of a record take the types that were left for them.
LEMMA DefineRecordFits ==
  ASSUME AnalyzerInv, DefineRecord
  PROVE  AnalyzerInv'
<1> DEFINE names == PairNames(Here[3])
           types == Args(Len(names))
           record == [f \in Range(names) |-> types[SelectInSeq(names, LAMBDA n : n = f)]]
<1>1. /\ Doing("defineRecord") /\ Leaves(<<>>) /\ UNCHANGED <<stacks, facts>>
      /\ tree' = tree /\ had_error' = had_error /\ Gives(Len(names), <<>>)
      /\ (tables' = tables
          \/ tables' = [tables EXCEPT !.records = Extended(tables.records, NameHere(2), record)])
  BY DEF DefineRecord
<1>2. /\ todo # <<>> /\ IsPlain(Item) /\ Puts(tree, Item) = 0 /\ Takes(tree, Item) = Len(names)
      /\ IsSeq(names) /\ GoodTypes(had_error, types) /\ DOMAIN types = DOMAIN names
  BY <1>1, PairsTaken
<1>3. Goes
  BY <1>1, SilenceGoes
<1>4. IsRecord(had_error', record)
  <2> HIDE DEF names, types
  <2>1. ASSUME NEW f \in Range(names)
        PROVE  Good(had_error', record[f])
    <3>1. SelectInSeq(names, LAMBDA n : n = f) \in DOMAIN names
      BY <1>2, <2>1, Places
    <3> DEFINE k == SelectInSeq(names, LAMBDA n : n = f)
    <3>2. record[f] = types[k]
      BY <2>1
    <3> HIDE DEF k
    <3>3. k \in DOMAIN names
      BY <3>1 DEF k
    <3> QED
      BY <1>1, <1>2, <3>2, <3>3 DEF GoodTypes
  <2>2. DOMAIN record = Range(names)
    OBVIOUS
  <2> HIDE DEF record
  <2> QED
    BY <2>1, <2>2 DEF IsRecord
<1> HIDE DEF record
<1>5. TablesFit(tree, had_error', tables') /\ DOMAIN tables.enums \subseteq DOMAIN tables'.enums
  <2>1. TablesFit(tree, had_error', tables)
    BY <1>3, TablesStay
  <2>2. CASE tables' = tables
    BY <2>1, <2>2
  <2>3. ASSUME NEW name,
              tables' = [tables EXCEPT !.records = Extended(tables.records, name, record)]
        PROVE  TablesFit(tree, had_error', tables') /\ tables'.enums = tables.enums
    BY <1>4, <2>1, <2>3, RecordExtends
  <2> QED
    BY <1>1, <2>2, <2>3
<1>6. GoodTypes(had_error', <<>>) /\ Len(<<>>) = 0
  BY GoodFew
<1> HIDE DEF names, types
<1> QED
  BY <1>1, <1>2, <1>3, <1>5, <1>6, TablesSettle

\* An enum is declared before its payloads are analyzed.
LEMMA DeclareEnumFits ==
  ASSUME AnalyzerInv, DeclareEnum
  PROVE  AnalyzerInv'
<1> DEFINE defined == NameHere(2) \in DOMAIN tables.enums
           ok == ~defined /\ ~HasRepeated(PairNames(Here[3]))
           s == PairTypes(Below(3))
           t == <<DefineEnumWith(tables.next_enum)>>
           items == IF defined THEN <<>> ELSE s \o t
<1>1. /\ Visiting("Enum") /\ "Enum" \in StmtKinds /\ Checks(ok) /\ Leaves(items)
      /\ (tables' = tables \/ tables' = [tables EXCEPT !.next_enum = tables.next_enum + 1])
      /\ tree' = tree /\ UNCHANGED <<results, stacks, facts>>
  BY DEF DeclareEnum, StmtKinds
<1>2. /\ todo # <<>> /\ IsPlain(Item) /\ Takes(tree, Item) = 0 /\ Puts(tree, Item) = 0
      /\ Item.at \in Seq(Nat) /\ Deep \in Depths /\ At(Item.at).kind = "Enum"
      /\ Leads(tree, Item.at, Stmts) /\ Pairs(Here[3], OrAbsent(TypeExprs))
  BY <1>1, Visited DEF IsStmt, Leads, Pairs, OrAbsent
<1>3. Goes
  BY <1>1, ChecksGoes
<1>4. Run(tree, had_error', Deep, items, Up(Deep, 0))
  <2>1. Run(tree, had_error', Deep, s, Up(Deep, Len(Here[3].parts)))
    BY <1>2, RunPairTypes
  <2>2. Run(tree, had_error', Up(Deep, Len(Here[3].parts)), t, Up(Deep, 0))
    <3> DEFINE item == DefineEnumWith(tables.next_enum)
    <3>1. item.do = "defineEnum" /\ item.at = Item.at
      BY DEF DefineEnumWith
    <3> HIDE DEF item
    <3>2. Moves(tree, had_error', Up(Deep, Len(Here[3].parts)), item, Up(Deep, 0))
      BY <1>2, <3>1, DefineMoves
    <3>3. t = <<item>>
      BY DEF item
    <3> QED
      BY <3>2, <3>3, RunOne
  <2>3. Run(tree, had_error', Deep, <<>>, Up(Deep, 0))
    BY <1>2, RunNone, UpIsDepth
  <2> HIDE DEF s, t
  <2>4. Run(tree, had_error', Deep, s \o t, Up(Deep, 0))
    BY <2>1, <2>2, RunCat
  <2> QED
    BY <2>3, <2>4
<1>5. TablesFit(tree, had_error', tables') /\ DOMAIN tables.enums \subseteq DOMAIN tables'.enums
  <2>1. TablesFit(tree, had_error', tables)
    BY <1>3, TablesStay
  <2>2. CASE tables' = tables
    BY <2>1, <2>2
  <2>3. ASSUME NEW x, tables' = [tables EXCEPT !.next_enum = x]
        PROVE  TablesFit(tree, had_error', tables') /\ tables'.enums = tables.enums
    <3>1. tables' = [records |-> tables.records, enums |-> tables.enums,
                     aliases |-> tables.aliases, arities |-> tables.arities,
                     generics |-> tables.generics, module |-> tables.module,
                     imports |-> tables.imports, next_enum |-> x]
      BY <2>1, <2>3, TableChanges DEF TablesFit
    <3> QED
      BY <2>1, <3>1, TablesAlike
  <2> QED
    BY <1>1, <2>2, <2>3
<1> HIDE DEF items, ok
<1> QED
  BY <1>1, <1>2, <1>3, <1>4, <1>5, TablesExpand

\* The variants of an enum take the types that were left for them.
LEMMA DefineEnumFits ==
  ASSUME AnalyzerInv, DefineEnum
  PROVE  AnalyzerInv'
<1> DEFINE pairs == Here[3].parts
           names == PairNames(Here[3])
           types == Args(Len(names))
           payload(i) == IF pairs[i].parts[2] = Absent THEN Nothing ELSE types[i]
           variants == [i \in DOMAIN names |-> [name |-> names[i], payload |-> payload(i)]]
           x == [id |-> Item.id, variants |-> variants]
<1>1. /\ Doing("defineEnum") /\ Leaves(<<>>) /\ UNCHANGED <<stacks, facts>>
      /\ tree' = tree /\ had_error' = had_error /\ Gives(Len(names), <<>>)
      /\ (tables' = tables
          \/ tables' = [tables EXCEPT !.enums = Extended(tables.enums, NameHere(2), x)])
  BY DEF DefineEnum
<1>2. /\ todo # <<>> /\ IsPlain(Item) /\ Puts(tree, Item) = 0 /\ Takes(tree, Item) = Len(names)
      /\ IsSeq(names) /\ GoodTypes(had_error, types) /\ DOMAIN types = DOMAIN names
  BY <1>1, PairsTaken
<1>3. Goes
  BY <1>1, SilenceGoes
<1>4. AreVariants(had_error', variants)
  <2>1. \A i \in DOMAIN names : variants[i].payload = Nothing \/ variants[i].payload = types[i]
    OBVIOUS
  <2>2. variants = [i \in DOMAIN names |-> variants[i]]
    OBVIOUS
  <2> HIDE DEF names, types, variants
  <2>3. IsSeq(variants) /\ DOMAIN variants = DOMAIN names
    BY <1>2, <2>2, MadeIs
  <2> QED
    BY <1>1, <1>2, <2>1, <2>3 DEF AreVariants, GoodOr, GoodTypes
<1>5. x.variants = variants
  OBVIOUS
<1> HIDE DEF x
<1>6. TablesFit(tree, had_error', tables') /\ DOMAIN tables.enums \subseteq DOMAIN tables'.enums
  <2>1. TablesFit(tree, had_error', tables)
    BY <1>3, TablesStay
  <2>2. AreVariants(had_error', x.variants)
    BY <1>4, <1>5
  <2>3. CASE tables' = tables
    BY <2>1, <2>3
  <2>4. ASSUME NEW name, tables' = [tables EXCEPT !.enums = Extended(tables.enums, name, x)]
        PROVE  /\ TablesFit(tree, had_error', tables')
               /\ DOMAIN tables.enums \subseteq DOMAIN tables'.enums
    <3> DEFINE u == tables'
               t == tables
               e == had_error'
    <3>1. TablesFit(tree, e, t) /\ u = [t EXCEPT !.enums = Extended(t.enums, name, x)]
          /\ AreVariants(e, x.variants)
      BY <2>1, <2>2, <2>4
    <3> HIDE DEF u, t, e
    <3>2. TablesFit(tree, e, u) /\ u.enums = Extended(t.enums, name, x)
      BY <3>1, EnumExtends
    <3> QED
      BY <3>2 DEF u, t, e, Extended
  <2> QED
    BY <1>1, <2>3, <2>4
<1>7. GoodTypes(had_error', <<>>) /\ Len(<<>>) = 0
  BY GoodFew
<1> HIDE DEF names, types
<1> QED
  BY <1>1, <1>2, <1>3, <1>6, <1>7, TablesSettle

\* The steps of declarations.
LEMMA DeclarationStepFits ==
  ASSUME AnalyzerInv, DeclarationStep
  PROVE  AnalyzerInv'
  BY ModuleFits, ImportFits, AliasFits, DeclareRecordFits, DefineRecordFits, DeclareEnumFits,
     DefineEnumFits DEF DeclarationStep

-----------------------------------------------------------------------------
(* Types written in the program.                                              *)

\* A type name gives its type, or the error type and a report.
LEMMA SimpleTypeFits ==
  ASSUME AnalyzerInv, SimpleType
  PROVE  AnalyzerInv'
<1>1. Visiting("SimpleType") /\ "SimpleType" \in TypeKinds
      /\ Judges(0, <<TypeFromToken(Here[1])>>, TRUE)
  BY DEF SimpleType, TypeKinds
<1>2. todo # <<>> /\ IsPlain(Item) /\ Takes(tree, Item) = 0 /\ Puts(tree, Item) = 1
  BY <1>1, Visited
<1>3. Good(had_error, TypeFromToken(Here[1]))
  BY GoodNamed
<1> QED
  BY <1>1, <1>2, <1>3, JudgedGood

\* A generic type visits its parameters.
LEMMA GenericTypeFits ==
  ASSUME AnalyzerInv, GenericType
  PROVE  AnalyzerInv'
<1> DEFINE params == Here[2].parts
           fits(i) == IsType(params[i]) \/ (i > 1 /\ IsConstant(params[i]))
           param(i) == IF IsType(params[i]) THEN Visit(Below(2) \o <<i>>)
                       ELSE Yield(IF fits(i) THEN Constant(params[i].parts[1].text) ELSE Error)
           ok == \A i \in DOMAIN params : fits(i)
           s == [i \in DOMAIN params |-> param(i)]
           t == <<Then("generic", Item.at)>>
<1>1. /\ Visiting("GenericType") /\ "GenericType" \in TypeKinds /\ Checks(ok) /\ Leaves(s \o t)
      /\ UNCHANGED <<tree, results, stacks, tables, facts>>
  BY DEF GenericType, TypeKinds
<1>2. /\ todo # <<>> /\ IsPlain(Item) /\ Takes(tree, Item) = 0 /\ Puts(tree, Item) = 1
      /\ Item.at \in Seq(Nat) /\ Deep \in Depths /\ At(Item.at).kind = "GenericType"
      /\ Leads(tree, Item.at, TypeExprs) /\ ListOf(Here[2], TypeExprs \cup Exprs)
  BY <1>1, Visited DEF IsTypeExpr, Leads
<1>3. IsSeq(params) /\ DOMAIN params = 1..Len(params) /\ Len(params) \in Nat
      /\ \A i \in DOMAIN params : params[i] \in Exprs \cup TypeExprs
  BY <1>2, SeqIn, SeqLen DEF ListOf
<1>4. ~ok => had_error'
  <2> HIDE DEF ok
  <2>1. tree' = tree
    BY <1>1
  <2> QED
    BY <1>1, <2>1, ChecksGoes
<1>5. IsSeq(s) /\ Len(s) = Len(params) /\ DOMAIN s = DOMAIN params
      /\ \A i \in DOMAIN params : s[i] = param(i)
  <2>1. s = [i \in DOMAIN params |-> s[i]] /\ \A i \in DOMAIN params : s[i] = param(i)
    OBVIOUS
  <2> HIDE DEF s, params
  <2> QED
    BY <1>3, <2>1, MadeIs
<1>6. ASSUME NEW i \in DOMAIN params, NEW d \in Depths
      PROVE  Moves(tree, had_error', d, s[i], Up(d, 1))
  <2>1. i \in Nat /\ 2 \in Nat
    BY <1>3
  <2>2. CASE s[i] = Visit(Below(2) \o <<i>>)
    <3>1. Leads(tree, Below(2) \o <<i>>, Exprs \cup TypeExprs)
      BY <1>2, <1>3, <2>1, PartsBelow
    <3> QED
      BY <2>2, <3>1, VisitMoves
  <2>3. ASSUME NEW text, s[i] = Yield(Constant(text))
        PROVE  Moves(tree, had_error', d, s[i], Up(d, 1))
    BY <2>3, GoodOf, YieldMoves
  <2>4. CASE s[i] = Yield(Error) /\ ~fits(i)
    <3>1. had_error'
      BY <1>4, <2>4
    <3>2. Good(had_error', Error)
      BY <3>1, GoodOf
    <3> QED
      BY <2>4, <3>2, YieldMoves
  <2>5. s[i] = param(i)
    BY <1>5
  <2> HIDE DEF s, params
  <2>6. \/ s[i] = Visit(Below(2) \o <<i>>)
        \/ s[i] = Yield(Constant(params[i].parts[1].text))
        \/ s[i] = Yield(Error) /\ ~fits(i)
    BY <2>5
  <2> QED
    BY <2>2, <2>3, <2>4, <2>6
<1> HIDE DEF s, ok
<1>7. Run(tree, had_error', Deep, s, Up(Deep, Len(params)))
  <2>1. Each(tree, had_error', s, 1)
    BY <1>5, <1>6 DEF Each
  <2> QED
    BY <1>2, <1>5, <2>1, RunGiving
<1>8. Run(tree, had_error', Up(Deep, Len(params)), t, Up(Deep, 1))
  <2> DEFINE item == Then("generic", Item.at)
  <2>1. item.do = "generic" /\ item.at = Item.at
    BY DEF Then
  <2>2. t = <<item>>
    OBVIOUS
  <2> HIDE DEF item
  <2>3. Fits(tree, had_error', item) /\ IsPlain(item) /\ Puts(tree, item) = 1
    BY <1>2, <2>1 DEF Fits, IsPlain, Puts, At, LeadsTo
  <2>4. Takes(tree, item) = Len(params)
    BY <2>1 DEF Takes, Here, At
  <2>5. Moves(tree, had_error', Up(Deep, Len(params)), item, Up(Deep, 1))
    <3> HIDE DEF params
    <3> QED
      BY <1>2, <1>3, <2>3, <2>4, TakingMoves
  <2> QED
    BY <2>2, <2>5, RunOne
<1> HIDE DEF t, params
<1>9. Run(tree, had_error', Deep, s \o t, Up(Deep, 1))
  BY <1>7, <1>8, RunCat
<1> QED
  BY <1>1, <1>2, <1>9, ExpandedPlain

\* A type is instantiated in place of the results that are taken.
LEMMA Instantiated ==
  ASSUME AnalyzerInv, todo # <<>>, IsPlain(Item), NEW n, Takes(tree, Item) = n,
         Puts(tree, Item) = 1, NEW type, Good(had_error, type), NEW ok,
         Instantiates(n, type, ok)
  PROVE  AnalyzerInv'
<1> DEFINE merged == MergeExpected(type, Wanted)
           arity == Len(merged.params)
           known == merged.kind = "Custom" /\ merged.name \in DOMAIN tables.arities
           fine == ok /\ (known => tables.arities[merged.name] = arity)
<1>1. /\ Leaves(<<>>) /\ Gives(n, <<merged>>) /\ Checks(fine)
      /\ (tables' = tables
          \/ tables' = [tables EXCEPT !.arities = Extended(tables.arities, merged.name, arity)])
      /\ tree' = tree /\ UNCHANGED <<stacks, facts>>
  BY DEF Instantiates
<1>2. Good(had_error, merged)
  BY WantedIsGood, GoodMerged
<1> HIDE DEF merged
<1>3. Goes
  <2> HIDE DEF fine
  <2> QED
    BY <1>1, ChecksGoes
<1>4. GoodTypes(had_error', <<merged>>) /\ Len(<<merged>>) = 1
  <2>1. Good(had_error', merged)
    BY <1>2, <1>3, TypesStay DEF Goes
  <2> QED
    BY <2>1, GoodFew
<1>5. TablesFit(tree, had_error', tables') /\ DOMAIN tables.enums \subseteq DOMAIN tables'.enums
  <2>1. TablesFit(tree, had_error', tables)
    BY <1>3, TablesStay
  <2>2. CASE tables' = tables
    BY <2>1, <2>2
  <2>3. ASSUME NEW x, tables' = [tables EXCEPT !.arities = x]
        PROVE  TablesFit(tree, had_error', tables') /\ tables'.enums = tables.enums
    <3>1. tables' = [records |-> tables.records, enums |-> tables.enums,
                     aliases |-> tables.aliases, arities |-> x,
                     generics |-> tables.generics, module |-> tables.module,
                     imports |-> tables.imports, next_enum |-> tables.next_enum]
      BY <2>1, <2>3, TableChanges DEF TablesFit
    <3> QED
      BY <2>1, <3>1, TablesAlike
  <2> QED
    BY <1>1, <2>2, <2>3
<1> QED
  BY <1>1, <1>3, <1>4, <1>5, TablesSettle

\* The parameters a generic type takes: one at least.
LEMMA GenericTaken ==
  ASSUME AnalyzerInv, Doing("generic")
  PROVE  /\ todo # <<>> /\ IsPlain(Item) /\ Puts(tree, Item) = 1
         /\ Takes(tree, Item) = Len(Here[2].parts)
         /\ Len(Here[2].parts) \in Nat /\ Len(Here[2].parts) >= 1
         /\ Len(Here[2].parts) <= Len(results)
         /\ GoodTypes(had_error, Args(Len(Here[2].parts)))
         /\ Len(Args(Len(Here[2].parts))) = Len(Here[2].parts)
         /\ DOMAIN Args(Len(Here[2].parts)) = 1..Len(Here[2].parts)
<1> DEFINE n == Len(Here[2].parts)
<1>1. todo # <<>> /\ Item.do = "generic" /\ IsPlain(Item) /\ Puts(tree, Item) = 1
  BY DEF Doing, IsPlain, Puts
<1>2. /\ LeadsTo(tree, Item.at, TypeExprs, {"GenericType"})
      /\ Takes(tree, Item) \in Nat /\ Takes(tree, Item) <= Len(results)
  BY <1>1, HeadPlain DEF Fits, LeadsTo
<1>3. IsTypeExpr(At(Item.at)) /\ At(Item.at).kind = "GenericType"
  BY <1>2, KindsOfNodes DEF At, LeadsTo, Leads
<1>4. Here[2].parts \in Seq(TypeExprs \cup Exprs) /\ Here[2].parts # <<>>
  BY <1>3 DEF IsTypeExpr, ListOf, Here
<1>5. n \in Nat /\ n >= 1
  BY <1>4
<1>6. Takes(tree, Item) = n
  BY <1>1 DEF Takes, Here, At
<1> HIDE DEF n
<1>7. GoodTypes(had_error, Args(n)) /\ Len(Args(n)) = n
  BY <1>2, <1>5, <1>6, TakenAreGood
<1>8. DOMAIN Args(n) = 1..n
  BY <1>7, SeqLen DEF GoodTypes
<1> QED
  BY <1>1, <1>2, <1>5, <1>6, <1>7, <1>8 DEF n

\* A generic type takes the types of its parameters.
LEMMA GenericFits ==
  ASSUME AnalyzerInv, Generic
  PROVE  AnalyzerInv'
<1> DEFINE name == NameHere(1)
           n == Len(Here[2].parts)
           params == Args(n)
           second == IF n > 1 THEN params[2] ELSE Unknown
<1>1. Doing("generic")
  BY DEF Generic
<1>2. /\ todo # <<>> /\ IsPlain(Item) /\ Puts(tree, Item) = 1 /\ Takes(tree, Item) = n
      /\ n \in Nat /\ n >= 1 /\ GoodTypes(had_error, params) /\ DOMAIN params = 1..n
  BY <1>1, GenericTaken
<1>3. \/ Instantiates(n, OptionOf(params[1]), n = 1)
      \/ Instantiates(n, ResultOf(params[1], second), n = 2)
      \/ Judges(n, <<Error>>, FALSE)
      \/ Instantiates(n, [TypeFromToken(Here[1]) EXCEPT !.params = params], TRUE)
  BY DEF Generic
<1> HIDE DEF n, params
<1>4. Good(had_error, params[1]) /\ Good(had_error, second)
  <2>1. 1 \in DOMAIN params /\ (n > 1 => 2 \in DOMAIN params)
    BY <1>2
  <2> QED
    BY <1>2, <2>1, GoodOf DEF GoodTypes
<1>5. "Option" \in Kinds /\ "Result" \in Kinds
  BY DEF Kinds
<1>6. Good(had_error, OptionOf(params[1]))
  <2>1. GoodTypes(had_error, <<params[1]>>)
    BY <1>4, GoodFew
  <2> QED
    BY <1>5, <2>1, GoodType DEF OptionOf
<1>7. Good(had_error, ResultOf(params[1], second))
  <2> HIDE DEF second
  <2>1. GoodTypes(had_error, <<params[1], second>>)
    BY <1>4, GoodFew
  <2> QED
    BY <1>5, <2>1, GoodType DEF ResultOf
<1>8. Good(had_error, [TypeFromToken(Here[1]) EXCEPT !.params = params])
  BY <1>2, GoodNamed, GoodWith
<1> HIDE DEF second
<1>9. CASE Judges(n, <<Error>>, FALSE)
  BY <1>2, <1>9, JudgedGood
<1>10. ASSUME NEW type, Good(had_error, type), NEW ok, Instantiates(n, type, ok)
       PROVE  AnalyzerInv'
  BY <1>2, <1>10, Instantiated
<1> QED
  BY <1>3, <1>6, <1>7, <1>8, <1>9, <1>10

\* Some results are taken, and types given.
LEMMA Given ==
  ASSUME AnalyzerInv, NEW n \in Nat, n <= Len(results), NEW types, GoodTypes(had_error, types),
         Gives(n, types)
  PROVE  GoodTypes(had_error, results') /\ Len(results') = (Len(results) - n) + Len(types)
<1>1. GoodTypes(had_error, results)
  BY DEF AnalyzerInv
<1> QED
  BY <1>1, GoodGiven DEF Gives

\* A generic alias drops the types of its parameters and analyzes what it stands for.
LEMMA GenericAliasFits ==
  ASSUME AnalyzerInv, GenericAlias
  PROVE  AnalyzerInv'
<1> DEFINE name == NameHere(1)
           n == Len(Here[2].parts)
           path == tables.aliases[name].at
           items == <<Visit(path), Then("aliased", Item.at)>>
<1>1. /\ Doing("generic") /\ name \in DOMAIN tables.aliases /\ Gives(n, <<>>) /\ Leaves(items)
      /\ tree' = tree /\ had_error' = had_error /\ UNCHANGED <<stacks, tables, facts>>
  BY DEF GenericAlias, IsAlias
<1>2. /\ todo # <<>> /\ IsPlain(Item) /\ Puts(tree, Item) = 1 /\ Takes(tree, Item) = n
      /\ n \in Nat /\ n <= Len(results)
  BY <1>1, GenericTaken
<1>3. Goes
  BY <1>1, SilenceGoes
<1> HIDE DEF n
<1>4. PICK b \in Depths : Deep = Up(b, n) /\ Run(tree, had_error, Up(b, 1), Tail(todo), Ground)
  BY <1>2, HeadPlain
<1>5. GoodTypes(had_error', results') /\ Len(results') = (Len(results) - n) + 0
      /\ Len(results) \in Nat
  <2>1. GoodTypes(had_error, results') /\ Len(results') = (Len(results) - n) + 0
    <3>1. GoodTypes(had_error, <<>>) /\ Len(<<>>) = 0
      BY GoodFew
    <3> QED
      BY <1>1, <1>2, <3>1, Given
  <2>3. Len(results) \in Nat
    BY DeepIs
  <2> QED
    BY <1>1, <2>1, <2>3
<1>6. Deep' = Up(b, 0)
  <2>1. /\ Len(symbols') = Len(symbols) /\ Len(expected') = Len(expected)
        /\ Len(returns') = Len(returns) /\ Len(open_loops') = Len(open_loops)
        /\ Len(matching') = Len(matching)
    BY <1>1 DEF stacks
  <2>2. 0 \in Nat
    OBVIOUS
  <2> QED
    BY <1>2, <1>4, <1>5, <2>1, <2>2, DeepAgain
<1>7. Deep' = b
  BY <1>6, UpIsDepth
<1>8. Run(tree, had_error', Deep', items, Up(b, 1))
  <2>1. Leads(tree, path, Exprs \cup TypeExprs)
    <3>1. Leads(tree, path, TypeExprs)
      BY <1>1 DEF AnalyzerInv, TablesFit
    <3> QED
      BY <3>1 DEF Leads
  <2> HIDE DEF path
  <2>2. Moves(tree, had_error', b, Visit(path), Up(b, 1))
    BY <2>1, VisitMoves
  <2>3. Moves(tree, had_error', Up(b, 1), Then("aliased", Item.at), Up(b, 1))
    BY ThenMoves
  <2>4. Run(tree, had_error', b, items, Up(b, 1))
    BY <2>2, <2>3, RunTwo
  <2> QED
    BY <1>7, <2>4
<1>9. StacksFit(had_error)' /\ TablesFit(tree, had_error', tables') /\ FactsFit(had_error', facts')
  BY <1>1, <1>3, KeptFits
<1> HIDE DEF items
<1> QED
  BY <1>1, <1>3, <1>4, <1>5, <1>8, <1>9, Replaces

\* A use of an alias gives the type that was left for what it stands for.
LEMMA AliasedFits ==
  ASSUME AnalyzerInv, Aliased
  PROVE  AnalyzerInv'
<1>1. /\ todo # <<>> /\ Item.do = "aliased" /\ IsPlain(Item) /\ Takes(tree, Item) = 1
      /\ Puts(tree, Item) = 1 /\ Instantiates(1, Result(0), TRUE)
  BY DEF Aliased, Doing, IsPlain, Takes, Puts
<1>2. 1 <= Len(results) /\ 1 \in Nat /\ 1 >= 1
  BY <1>1, HeadPlain
<1>3. Good(had_error, Result(0))
  BY <1>2, TakenAreGood
<1> QED
  BY <1>1, <1>3, Instantiated

\* The steps of types.
LEMMA TypeStepFits ==
  ASSUME AnalyzerInv, TypeStep
  PROVE  AnalyzerInv'
  BY SimpleTypeFits, GenericTypeFits, GenericFits, GenericAliasFits, AliasedFits DEF TypeStep

-----------------------------------------------------------------------------
(* Expressions.                                                               *)

\* The item at the head takes results that are there, and are good.
LEMMA ItemTakes ==
  ASSUME AnalyzerInv, todo # <<>>, IsPlain(Item), NEW n, Takes(tree, Item) = n
  PROVE  /\ n \in Nat /\ n <= Len(results)
         /\ n >= 1 => Good(had_error, Result(0))
         /\ n >= 2 => Good(had_error, Result(1))
<1>1. n \in Nat /\ n <= Len(results)
  BY HeadPlain
<1> QED
  BY <1>1, TakenAreGood

\* The fields of a type, and one of them.
LEMMA FieldsAreGood ==
  ASSUME AnalyzerInv, NEW type
  PROVE  /\ IsRecord(had_error, FieldsOf(type))
         /\ \A field : GoodOr(had_error, FieldType(type, field))
<1>1. \A n \in DOMAIN tables.records : IsRecord(had_error, tables.records[n])
  BY DEF AnalyzerInv, TablesFit
<1>2. IsRecord(had_error, Empty)
  BY DEF IsRecord, Empty
<1>3. IsRecord(had_error, FieldsOf(type))
  BY <1>1, <1>2 DEF FieldsOf
<1> QED
  BY <1>3 DEF FieldType, IsRecord, GoodOr

\* A literal.
LEMMA LiteralFits ==
  ASSUME AnalyzerInv, Literal
  PROVE  AnalyzerInv'
<1>1. Visiting("Literal") /\ "Literal" \in ExprKinds /\ Judges(0, <<LiteralType(Here[1])>>, TRUE)
  BY DEF Literal, ExprKinds
<1>2. todo # <<>> /\ IsPlain(Item) /\ Takes(tree, Item) = 0 /\ Puts(tree, Item) = 1
  BY <1>1, Visited
<1>3. Good(had_error, LiteralType(Here[1]))
  <2>1. PICK kind \in {"Bool", "I32", "Float", "String"} : LiteralType(Here[1]) = Of(kind)
    BY DEF LiteralType
  <2>2. kind \in Kinds /\ kind # "Error"
    BY DEF Kinds
  <2> QED
    BY <2>1, <2>2, GoodOf
<1> QED
  BY <1>1, <1>2, <1>3, JudgedGood

\* A grouping has the type of what is in it.
LEMMA GroupingFits ==
  ASSUME AnalyzerInv, Grouping
  PROVE  AnalyzerInv'
<1> DEFINE items == <<Eval(Below(1), Nothing)>>
<1>1. Visiting("Grouping") /\ "Grouping" \in ExprKinds /\ Expands(items)
  BY DEF Grouping, ExprKinds
<1>2. /\ todo # <<>> /\ IsPlain(Item) /\ Takes(tree, Item) = 0 /\ Puts(tree, Item) = 1
      /\ Item.at \in Seq(Nat) /\ Deep \in Depths /\ Here[1] \in Exprs
  BY <1>1, Visited DEF IsExpr
<1>3. Run(tree, had_error, Deep, items, Up(Deep, 1))
  BY <1>2, EvalBelow, RunOne DEF GoodOr
<1> HIDE DEF items
<1> QED
  BY <1>1, <1>2, <1>3, ExpandedQuietly

\* A name has the type of its symbol, or the error type and a report.
LEMMA VariableFits ==
  ASSUME AnalyzerInv, Variable
  PROVE  AnalyzerInv'
<1> DEFINE name == NameHere(1)
           type == VariableType(name)
<1>1. Visiting("Variable") /\ "Variable" \in ExprKinds /\ JudgesOr(0, type)
  BY DEF Variable, ExprKinds
<1>2. todo # <<>> /\ IsPlain(Item) /\ Takes(tree, Item) = 0 /\ Puts(tree, Item) = 1
  BY <1>1, Visited
<1>3. GoodOr(had_error, type)
  <2> HIDE DEF name
  <2>1. GoodOr(had_error, Unknown) /\ GoodOr(had_error, Nothing)
    BY GoodOf DEF GoodOr
  <2>2. ASSUME IsDefined(name)
        PROVE  GoodOr(had_error, Resolve(name).type)
    BY <2>2, Resolved DEF GoodOr
  <2>3. GoodOr(had_error, FieldType(Resolve(BeforeDot(name)).type, AfterDot(name)))
    BY FieldsAreGood
  <2> QED
    BY <2>1, <2>2, <2>3 DEF VariableType
<1> HIDE DEF type
<1> QED
  BY <1>1, <1>2, <1>3, JudgedOr

\* Two items that hold a type to compare a result with.
LEMMA TypedMoves ==
  ASSUME NEW root, NEW e, NEW d \in Depths, NEW type, Good(e, type)
  PROVE  /\ Moves(root, e, Up(d, 1), [do |-> "assigned", type |-> type], Up(d, 1))
         /\ Moves(root, e, Up(d, 2), [do |-> "fit", type |-> type], Up(d, 1))
<1>1. ASSUME NEW item, item.type = type, item.do = "assigned"
      PROVE  Moves(root, e, Up(d, 1), item, Up(d, 1))
  <2>1. Fits(root, e, item) /\ IsPlain(item) /\ Takes(root, item) = 1 /\ Puts(root, item) = 1
    BY <1>1 DEF Fits, IsPlain, Takes, Puts
  <2> QED
    BY <2>1, TakingMoves
<1>4. ASSUME NEW item, item.type = type, item.do = "fit"
      PROVE  Moves(root, e, Up(d, 2), item, Up(d, 1))
  <2>1. Fits(root, e, item) /\ IsPlain(item) /\ Takes(root, item) = 2 /\ Puts(root, item) = 1
    BY <1>4 DEF Fits, IsPlain, Takes, Puts
  <2> QED
    BY <2>1, TakingMoves
<1>2. Moves(root, e, Up(d, 1), [do |-> "assigned", type |-> type], Up(d, 1))
  <2> DEFINE item == [do |-> "assigned", type |-> type]
  <2>1. item.do = "assigned" /\ item.type = type
    OBVIOUS
  <2> HIDE DEF item
  <2>2. Moves(root, e, Up(d, 1), item, Up(d, 1))
    BY <1>1, <2>1
  <2> QED
    BY <2>2 DEF item
<1>3. Moves(root, e, Up(d, 2), [do |-> "fit", type |-> type], Up(d, 1))
  <2> DEFINE item == [do |-> "fit", type |-> type]
  <2>1. item.do = "fit" /\ item.type = type
    OBVIOUS
  <2> HIDE DEF item
  <2>2. Moves(root, e, Up(d, 2), item, Up(d, 1))
    BY <1>4, <2>1
  <2> QED
    BY <2>2 DEF item
<1> QED
  BY <1>2, <1>3

\* An assignment evaluates its value against the type of the name it sets.
LEMMA AssignFits ==
  ASSUME AnalyzerInv, Assign
  PROVE  AnalyzerInv'
<1> DEFINE name == NameHere(1)
           type == Resolve(name).type
           known == <<Eval(Below(2), type), [do |-> "assigned", type |-> type]>>
           unknown == <<Eval(Below(2), Nothing), Then("forget", Item.at), Yield(Error)>>
           ok == IsDefined(name) /\ Resolve(name).kind = "Variable"
           items == IF IsDefined(name) THEN known ELSE unknown
<1>1. /\ Visiting("Assign") /\ "Assign" \in ExprKinds /\ Checks(ok) /\ Leaves(items)
      /\ UNCHANGED <<tree, results, stacks, tables, facts>>
  BY DEF Assign, ExprKinds
<1>2. /\ todo # <<>> /\ IsPlain(Item) /\ Takes(tree, Item) = 0 /\ Puts(tree, Item) = 1
      /\ Item.at \in Seq(Nat) /\ Deep \in Depths /\ Here[2] \in Exprs
  BY <1>1, Visited DEF IsExpr
<1>3. Goes /\ (~ok => had_error')
  <2> HIDE DEF ok
  <2> QED
    BY <1>1, ChecksGoes
<1>4. ASSUME IsDefined(name)
      PROVE  Run(tree, had_error', Deep, known, Up(Deep, 1))
  <2>1. Good(had_error', type)
    <3>1. Good(had_error, type)
      BY <1>4, Resolved
    <3> QED
      BY <1>3, <3>1, TypesStay DEF Goes
  <2> HIDE DEF type
  <2>2. Moves(tree, had_error', Deep, Eval(Below(2), type), Up(Deep, 1))
    BY <1>2, <2>1, EvalBelow DEF GoodOr
  <2>3. Moves(tree, had_error', Up(Deep, 1), [do |-> "assigned", type |-> type], Up(Deep, 1))
    BY <1>2, <2>1, TypedMoves
  <2> QED
    BY <2>2, <2>3, RunTwo
<1>5. ASSUME ~IsDefined(name)
      PROVE  Run(tree, had_error', Deep, unknown, Up(Deep, 1))
  <2>1. had_error'
    BY <1>3, <1>5
  <2>2. Moves(tree, had_error', Deep, Eval(Below(2), Nothing), Up(Deep, 1))
    BY <1>2, EvalBelow DEF GoodOr
  <2>3. Moves(tree, had_error', Up(Deep, 1), Then("forget", Item.at), Deep)
    BY <1>2, ThenMoves, UpIsDepth
  <2>4. Moves(tree, had_error', Deep, Yield(Error), Up(Deep, 1))
    BY <1>2, <2>1, GoodOf, YieldMoves
  <2> QED
    BY <2>2, <2>3, <2>4, RunThree
<1>6. Run(tree, had_error', Deep, items, Up(Deep, 1))
  BY <1>4, <1>5
<1> HIDE DEF items, ok
<1> QED
  BY <1>1, <1>2, <1>6, ExpandedPlain

\* An assignment gives the type of its target, and reports a value that does not fit.
LEMMA AssignedFits ==
  ASSUME AnalyzerInv, Assigned
  PROVE  AnalyzerInv'
<1>1. /\ todo # <<>> /\ Item.do = "assigned" /\ IsPlain(Item) /\ Takes(tree, Item) = 1
      /\ Puts(tree, Item) = 1
      /\ Judges(1, <<Item.type>>, IsAssignable(Item.type, Result(0)))
  BY DEF Assigned, Doing, IsPlain, Takes, Puts
<1>2. Good(had_error, Item.type)
  BY <1>1, HeadPlain DEF Fits
<1> QED
  BY <1>1, <1>2, JudgedGood

\* A binary expression evaluates both sides.
LEMMA BinaryFits ==
  ASSUME AnalyzerInv, Binary
  PROVE  AnalyzerInv'
<1> DEFINE items == <<Eval(Below(1), Nothing), Eval(Below(3), Nothing), Then("operate", Item.at)>>
<1>1. Visiting("Binary") /\ "Binary" \in ExprKinds /\ Expands(items)
  BY DEF Binary, ExprKinds
<1>2. /\ todo # <<>> /\ IsPlain(Item) /\ Takes(tree, Item) = 0 /\ Puts(tree, Item) = 1
      /\ Item.at \in Seq(Nat) /\ Deep \in Depths /\ Here[1] \in Exprs /\ Here[3] \in Exprs
  BY <1>1, Visited DEF IsExpr
<1>3. Run(tree, had_error, Deep, items, Up(Deep, 1))
  <2>1. Up(Deep, 1) \in Depths /\ Up(Up(Deep, 1), 1) = Up(Deep, 2)
    <3>1. 1 \in Nat /\ 1 + 1 = 2
      OBVIOUS
    <3>2. Up(Deep, 1) \in Depths /\ Up(Up(Deep, 1), 1) = Up(Deep, 1 + 1)
      BY <1>2, <3>1, UpIsDepth
    <3> QED
      BY <3>1, <3>2
  <2>2. Moves(tree, had_error, Deep, Eval(Below(1), Nothing), Up(Deep, 1))
    BY <1>2, EvalBelow DEF GoodOr
  <2>3. Moves(tree, had_error, Up(Deep, 1), Eval(Below(3), Nothing), Up(Deep, 2))
    BY <1>2, <2>1, EvalBelow DEF GoodOr
  <2>4. Moves(tree, had_error, Up(Deep, 2), Then("operate", Item.at), Up(Deep, 1))
    BY <1>2, ThenMoves
  <2> QED
    BY <2>2, <2>3, <2>4, RunThree
<1> HIDE DEF items
<1> QED
  BY <1>1, <1>2, <1>3, ExpandedQuietly

\* The type of an operation.
LEMMA OperationIsGood ==
  ASSUME NEW e, NEW op, NEW left, Good(e, left), NEW right, Good(e, right)
  PROVE  GoodOr(e, BinaryType(op, left, right))
<1>1. GoodOr(e, Of("Bool")) /\ GoodOr(e, Of("String")) /\ GoodOr(e, Nothing)
  <2>1. "Bool" \in Kinds /\ "String" \in Kinds /\ "Bool" # "Error" /\ "String" # "Error"
    BY DEF Kinds
  <2> QED
    BY <2>1, GoodOf DEF GoodOr
<1>2. GoodOr(e, DeduceNumeric(left, right))
  BY GoodDeduced
<1>3. GoodOr(e, Widen(op, left, right))
  BY <1>1, <1>2 DEF Widen
<1>4. BinaryType(op, left, right) \in {Of("Bool"), Of("String"), Nothing, Widen(op, left, right)}
  BY DEF BinaryType
<1> QED
  BY <1>1, <1>3, <1>4

\* An operator takes two types and gives one.
LEMMA OperateFits ==
  ASSUME AnalyzerInv, Operate
  PROVE  AnalyzerInv'
<1>1. /\ todo # <<>> /\ Item.do = "operate" /\ IsPlain(Item) /\ Takes(tree, Item) = 2
      /\ Puts(tree, Item) = 1 /\ JudgesOr(2, BinaryType(Here[2].kind, Result(1), Result(0)))
  BY DEF Operate, Doing, IsPlain, Takes, Puts
<1>2. Good(had_error, Result(0)) /\ Good(had_error, Result(1))
  BY <1>1, ItemTakes
<1>3. GoodOr(had_error, BinaryType(Here[2].kind, Result(1), Result(0)))
  BY <1>2, OperationIsGood
<1> QED
  BY <1>1, <1>3, JudgedOr

\* A unary expression evaluates its operand.
LEMMA UnaryFits ==
  ASSUME AnalyzerInv, Unary
  PROVE  AnalyzerInv'
<1> DEFINE items == <<Eval(Below(2), Nothing), Then("negate", Item.at)>>
<1>1. Visiting("Unary") /\ "Unary" \in ExprKinds /\ Expands(items)
  BY DEF Unary, ExprKinds
<1>2. /\ todo # <<>> /\ IsPlain(Item) /\ Takes(tree, Item) = 0 /\ Puts(tree, Item) = 1
      /\ Item.at \in Seq(Nat) /\ Deep \in Depths /\ Here[2] \in Exprs
  BY <1>1, Visited DEF IsExpr
<1>3. Run(tree, had_error, Deep, items, Up(Deep, 1))
  <2>1. Moves(tree, had_error, Deep, Eval(Below(2), Nothing), Up(Deep, 1))
    BY <1>2, EvalBelow DEF GoodOr
  <2>2. Moves(tree, had_error, Up(Deep, 1), Then("negate", Item.at), Up(Deep, 1))
    BY <1>2, ThenMoves
  <2> QED
    BY <2>1, <2>2, RunTwo
<1> HIDE DEF items
<1> QED
  BY <1>1, <1>2, <1>3, ExpandedQuietly

\* A unary operator takes a type and gives one.
LEMMA NegateFits ==
  ASSUME AnalyzerInv, Negate
  PROVE  AnalyzerInv'
<1> DEFINE type == IF Here[1].kind = "Minus"
                   THEN IF IsNumeric(Result(0)) THEN Result(0) ELSE Nothing
                   ELSE IF IsAssignable(Of("Bool"), Result(0)) THEN Of("Bool") ELSE Nothing
<1>1. /\ todo # <<>> /\ Item.do = "negate" /\ IsPlain(Item) /\ Takes(tree, Item) = 1
      /\ Puts(tree, Item) = 1 /\ JudgesOr(1, type)
  BY DEF Negate, Doing, IsPlain, Takes, Puts
<1>2. Good(had_error, Result(0))
  BY <1>1, ItemTakes
<1>3. Good(had_error, Of("Bool"))
  <2>1. "Bool" \in Kinds /\ "Bool" # "Error"
    BY DEF Kinds
  <2> QED
    BY <2>1, GoodOf
<1>4. GoodOr(had_error, type)
  BY <1>2, <1>3 DEF GoodOr
<1> HIDE DEF type
<1> QED
  BY <1>1, <1>4, JudgedOr

\* A field access evaluates what the field is of.
LEMMA FieldAccessFits ==
  ASSUME AnalyzerInv, FieldAccess
  PROVE  AnalyzerInv'
<1> DEFINE items == <<Eval(Below(1), Nothing), Then("field", Item.at)>>
<1>1. Visiting("FieldAccess") /\ "FieldAccess" \in ExprKinds /\ Expands(items)
  BY DEF FieldAccess, ExprKinds
<1>2. /\ todo # <<>> /\ IsPlain(Item) /\ Takes(tree, Item) = 0 /\ Puts(tree, Item) = 1
      /\ Item.at \in Seq(Nat) /\ Deep \in Depths /\ Here[1] \in Exprs
  BY <1>1, Visited DEF IsExpr
<1>3. Run(tree, had_error, Deep, items, Up(Deep, 1))
  <2>1. Moves(tree, had_error, Deep, Eval(Below(1), Nothing), Up(Deep, 1))
    BY <1>2, EvalBelow DEF GoodOr
  <2>2. Moves(tree, had_error, Up(Deep, 1), Then("field", Item.at), Up(Deep, 1))
    BY <1>2, ThenMoves
  <2> QED
    BY <2>1, <2>2, RunTwo
<1> HIDE DEF items
<1> QED
  BY <1>1, <1>2, <1>3, ExpandedQuietly

\* A field has its declared type, or the error type and a report.
LEMMA FieldFits ==
  ASSUME AnalyzerInv, Field
  PROVE  AnalyzerInv'
<1>1. /\ todo # <<>> /\ Item.do = "field" /\ IsPlain(Item) /\ Takes(tree, Item) = 1
      /\ Puts(tree, Item) = 1 /\ JudgesOr(1, FieldType(Result(0), NameHere(2)))
  BY DEF Field, Doing, IsPlain, Takes, Puts
<1>2. GoodOr(had_error, FieldType(Result(0), NameHere(2)))
  BY FieldsAreGood
<1> QED
  BY <1>1, <1>2, JudgedOr

\* Items each of which leaves the depths as they are.
LEMMA RunStill ==
  ASSUME NEW root, NEW e, NEW d \in Depths, NEW s, IsSeq(s),
         \A i \in DOMAIN s : Moves(root, e, d, s[i], d)
  PROVE  Run(root, e, d, s, d)
<1> DEFINE h == [i \in 0..Len(s) |-> d]
<1>1. Len(s) \in Nat /\ DOMAIN s = 1..Len(s)
  BY SeqLen
<1>2. h[0] = d /\ h[Len(s)] = d /\ \A i \in DOMAIN s : h[i - 1] = d /\ h[i] = d
  <2>1. \A i \in 0..Len(s) : h[i] = d
    OBVIOUS
  <2> HIDE DEF h
  <2>2. 0 \in 0..Len(s) /\ Len(s) \in 0..Len(s)
        /\ \A i \in DOMAIN s : i - 1 \in 0..Len(s) /\ i \in 0..Len(s)
    BY <1>1
  <2> QED
    BY <2>1, <2>2
<1> HIDE DEF h
<1> QED
  BY <1>2 DEF Run

\* Types given in place of results, after a step that may report.
LEMMA GivenGood ==
  ASSUME AnalyzerInv, Goes, NEW n \in Nat, n <= Len(results), NEW types,
         GoodTypes(had_error', types), Gives(n, types)
  PROVE  GoodTypes(had_error', results') /\ Len(results') = (Len(results) - n) + Len(types)
<1>1. GoodTypes(had_error', results)
  BY TypesStay DEF AnalyzerInv, Goes
<1> QED
  BY <1>1, GoodGiven DEF Gives

\* A type is given in place of the results that are taken, and items are left
\* that work on it.
LEMMA GivenFirst ==
  ASSUME AnalyzerInv, Goes, todo # <<>>, IsPlain(Item), NEW n, Takes(tree, Item) = n,
         Puts(tree, Item) = 1, NEW type, Good(had_error', type), Gives(n, <<type>>),
         NEW items, Leaves(items),
         \A b \in Depths : Run(tree, had_error', Up(b, 1), items, Up(b, 1)),
         UNCHANGED <<stacks, tables, facts>>
  PROVE  AnalyzerInv'
<1>1. n \in Nat /\ n <= Len(results)
  BY ItemTakes
<1>2. PICK b \in Depths : Deep = Up(b, n) /\ Run(tree, had_error, Up(b, 1), Tail(todo), Ground)
  BY HeadPlain
<1>3. GoodTypes(had_error', results') /\ Len(results') = (Len(results) - n) + 1
  <2>1. GoodTypes(had_error', <<type>>) /\ Len(<<type>>) = 1
    BY GoodFew
  <2> QED
    BY <1>1, <2>1, GivenGood
<1>4. Deep' = Up(b, 1)
  <2>1. /\ Len(symbols') = Len(symbols) /\ Len(expected') = Len(expected)
        /\ Len(returns') = Len(returns) /\ Len(open_loops') = Len(open_loops)
        /\ Len(matching') = Len(matching)
    BY DEF stacks
  <2>2. 1 \in Nat /\ Len(results) \in Nat
    BY DeepIs
  <2> QED
    BY <1>1, <1>2, <1>3, <2>1, <2>2, DeepAgain
<1>5. Run(tree, had_error', Deep', items, Up(b, 1))
  BY <1>4
<1>6. StacksFit(had_error)' /\ TablesFit(tree, had_error', tables') /\ FactsFit(had_error', facts')
  BY KeptFits
<1> QED
  BY <1>2, <1>3, <1>5, <1>6, Replaces

\* A record literal gives its type before its fields are evaluated.
LEMMA RecordLiteralFits ==
  ASSUME AnalyzerInv, RecordLiteral
  PROVE  AnalyzerInv'
<1> DEFINE fields == FieldsOf(Custom(NameHere(1)))
           names == PairNames(Here[2])
           fits == /\ NameHere(1) \in DOMAIN tables.records
                   /\ Range(names) = DOMAIN fields
                   /\ Len(names) = Cardinality(DOMAIN fields)
           wanted(i) == IF names[i] \in DOMAIN fields THEN fields[names[i]] ELSE Nothing
           value(i) == [do |-> "value", at |-> Below(2) \o <<i>>, type |-> wanted(i)]
           type == IF fits THEN Custom(NameHere(1)) ELSE Error
           items == [i \in DOMAIN names |-> value(i)]
<1>1. /\ Visiting("RecordLiteral") /\ "RecordLiteral" \in ExprKinds /\ Checks(fits)
      /\ Gives(0, <<type>>) /\ Leaves(items)
      /\ tree' = tree /\ UNCHANGED <<stacks, tables, facts>>
  BY DEF RecordLiteral, ExprKinds
<1>2. /\ todo # <<>> /\ IsPlain(Item) /\ Takes(tree, Item) = 0 /\ Puts(tree, Item) = 1
      /\ Item.at \in Seq(Nat) /\ Deep \in Depths /\ Pairs(Here[2], Exprs)
  BY <1>1, Visited DEF IsExpr
<1>3. Goes /\ (~fits => had_error')
  <2> HIDE DEF fits
  <2> QED
    BY <1>1, ChecksGoes
<1>4. Good(had_error', type)
  BY <1>3, GoodOf
<1>5. IsSeq(names) /\ DOMAIN names = DOMAIN Here[2].parts /\ DOMAIN names = 1..Len(names)
      /\ Len(names) \in Nat
  BY <1>2, PairNamesIs, SeqLen DEF Pairs
<1>6. \A i \in DOMAIN names : GoodOr(had_error', wanted(i))
  <2>1. IsRecord(had_error, fields)
    BY FieldsAreGood
  <2>2. \A i \in DOMAIN names : GoodOr(had_error, wanted(i))
    <3> HIDE DEF fields, names
    <3> QED
      BY <2>1 DEF IsRecord, GoodOr
  <2> HIDE DEF wanted, names
  <2> QED
    BY <1>3, <2>2, TypesStay DEF Goes
<1>7. IsSeq(items) /\ DOMAIN items = DOMAIN names /\ \A i \in DOMAIN names : items[i] = value(i)
  <2>1. items = [i \in DOMAIN names |-> items[i]] /\ \A i \in DOMAIN names : items[i] = value(i)
    OBVIOUS
  <2> HIDE DEF items, names
  <2> QED
    BY <1>5, <2>1, MadeIs
<1>8. ASSUME NEW b \in Depths, NEW i \in DOMAIN names
      PROVE  Moves(tree, had_error', Up(b, 1), items[i], Up(b, 1))
  <2> DEFINE item == items[i]
  <2>1. item.do = "value" /\ item.at = Below(2) \o <<i>> /\ item.type = wanted(i)
    BY <1>7
  <2> HIDE DEF items, wanted, names
  <2>2. i \in Nat /\ 2 \in Nat
    BY <1>5
  <2>3. item.at \in Seq(Nat) /\ NodeAt(tree, item.at) = Here[2].parts[i]
    BY <1>2, <2>1, <2>2, PartsBelow
  <2>4. NodeAt(tree, item.at).parts[2] \in Exprs
    BY <1>2, <1>5, <2>3 DEF Pairs
  <2> HIDE DEF item
  <2>5. Fits(tree, had_error', item)
    BY <1>6, <2>1, <2>3, <2>4 DEF Fits
  <2>6. IsPlain(item) /\ Takes(tree, item) = 1 /\ Puts(tree, item) = 1
    BY <2>1 DEF IsPlain, Takes, Puts
  <2>7. Moves(tree, had_error', Up(b, 1), item, Up(b, 1))
    BY <2>5, <2>6, TakingMoves
  <2> QED
    BY <2>7 DEF item
<1> HIDE DEF items, names, fits, type
<1>9. ASSUME NEW b \in Depths
      PROVE  Run(tree, had_error', Up(b, 1), items, Up(b, 1))
  <2>1. Up(b, 1) \in Depths
    <3>1. 1 \in Nat
      OBVIOUS
    <3> QED
      BY <3>1, UpIsDepth
  <2>2. \A i \in DOMAIN items : Moves(tree, had_error', Up(b, 1), items[i], Up(b, 1))
    BY <1>7, <1>8
  <2> QED
    BY <1>7, <2>1, <2>2, RunStill
<1> QED
  BY <1>1, <1>2, <1>3, <1>4, <1>9, GivenFirst

\* An expression is evaluated and compared with a type.
LEMMA FittingRuns ==
  ASSUME NEW e, NEW d \in Depths, Item.at \in Seq(Nat), NEW i \in Nat, Here[i] \in Exprs,
         NEW type, Good(e, type)
  PROVE  Run(tree, e, Up(d, 1), <<Eval(Below(i), type), [do |-> "fit", type |-> type]>>, Up(d, 1))
<1>1. Up(d, 1) \in Depths /\ Up(Up(d, 1), 1) = Up(d, 2)
  <2>1. 1 \in Nat /\ 1 + 1 = 2
    OBVIOUS
  <2>2. Up(d, 1) \in Depths /\ Up(Up(d, 1), 1) = Up(d, 1 + 1)
    BY <2>1, UpIsDepth
  <2> QED
    BY <2>1, <2>2
<1>2. Moves(tree, e, Up(d, 1), Eval(Below(i), type), Up(d, 2))
  BY <1>1, EvalBelow DEF GoodOr
<1>3. Moves(tree, e, Up(d, 2), [do |-> "fit", type |-> type], Up(d, 1))
  BY TypedMoves
<1> QED
  BY <1>2, <1>3, RunTwo

\* A field of a literal is evaluated against its declared type.
LEMMA FieldValueFits ==
  ASSUME AnalyzerInv, FieldValue
  PROVE  AnalyzerInv'
<1> DEFINE both == <<Eval(Below(2), Item.type), [do |-> "fit", type |-> Item.type]>>
           items == IF Item.type = Nothing THEN <<>> ELSE both
<1>1. /\ todo # <<>> /\ Item.do = "value" /\ IsPlain(Item) /\ Takes(tree, Item) = 1
      /\ Puts(tree, Item) = 1 /\ Expands(items)
  BY DEF FieldValue, Doing, IsPlain, Takes, Puts
<1>2. /\ GoodOr(had_error, Item.type) /\ Item.at \in Seq(Nat) /\ Here[2] \in Exprs
  BY <1>1, HeadPlain DEF Fits, Here, At
<1>3. PICK b \in Depths : Deep = Up(b, 1) /\ Run(tree, had_error, Up(b, 1), Tail(todo), Ground)
  BY <1>1, HeadPlain
<1>4. Run(tree, had_error, Deep, items, Up(b, 1))
  <2>1. Run(tree, had_error, Deep, <<>>, Up(b, 1))
    <3>1. Deep \in Depths
      BY DeepIs
    <3> QED
      BY <1>3, <3>1, RunNone
  <2>2. Item.type # Nothing => Run(tree, had_error, Deep, both, Up(b, 1))
    <3>1. 2 \in Nat
      OBVIOUS
    <3> QED
      BY <1>2, <1>3, <3>1, FittingRuns DEF GoodOr
  <2> HIDE DEF both
  <2> QED
    BY <2>1, <2>2
<1> HIDE DEF items
<1> QED
  BY <1>1, <1>3, <1>4, ExpandedSilently

\* A field that does not fit makes the literal an error, which is reported.
LEMMA FitFits ==
  ASSUME AnalyzerInv, Fit
  PROVE  AnalyzerInv'
<1> DEFINE fits == IsAssignable(Item.type, Result(0))
           type == IF fits THEN Result(1) ELSE Error
<1>1. /\ todo # <<>> /\ Item.do = "fit" /\ IsPlain(Item) /\ Takes(tree, Item) = 2
      /\ Puts(tree, Item) = 1 /\ Judges(2, <<type>>, fits)
  BY DEF Fit, Doing, IsPlain, Takes, Puts
<1>2. Good(had_error, Result(1))
  BY <1>1, ItemTakes
<1>3. Good(had_error, type) \/ (~fits /\ type = Error)
  BY <1>2
<1> HIDE DEF type, fits
<1> QED
  BY <1>1, <1>3, JudgedGood

\* The payload of a variant.
LEMMA PayloadIsGood ==
  ASSUME AnalyzerInv, NEW enum, NEW variant
  PROVE  PayloadOf(enum, variant) = Absent \/ GoodOr(had_error, PayloadOf(enum, variant))
<1> DEFINE variants == tables.enums[enum].variants
           i == VariantOf(variants, variant)
<1>1. enum \in DOMAIN tables.enums => AreVariants(had_error, variants)
  BY DEF AnalyzerInv, TablesFit
<1>2. \/ PayloadOf(enum, variant) = Absent
      \/ enum \in DOMAIN tables.enums /\ i # 0 /\ PayloadOf(enum, variant) = variants[i].payload
  BY DEF PayloadOf
<1> HIDE DEF variants
<1>3. enum \in DOMAIN tables.enums /\ i # 0 => i \in DOMAIN variants
  BY <1>1, VariantIs DEF AreVariants
<1> QED
  BY <1>1, <1>2, <1>3 DEF AreVariants

\* An enum literal evaluates its payload, and is of its enum.
LEMMA EnumLiteralFits ==
  ASSUME AnalyzerInv, EnumLiteral
  PROVE  AnalyzerInv'
<1> DEFINE enum == BeforeDot(NameHere(1))
           payload == PayloadOf(enum, AfterDot(NameHere(1)))
           fits == payload # Absent /\ (payload = Nothing <=> Here[2] = Absent)
           type == IF fits THEN Custom(enum) ELSE Error
           both == <<Eval(Below(2), payload), [do |-> "fit", type |-> payload]>>
           items == IF ~fits \/ payload = Nothing THEN <<>> ELSE both
<1>1. /\ Visiting("EnumLiteral") /\ "EnumLiteral" \in ExprKinds /\ Checks(fits)
      /\ Gives(0, <<type>>) /\ Leaves(items)
      /\ tree' = tree /\ UNCHANGED <<stacks, tables, facts>>
  BY DEF EnumLiteral, ExprKinds
<1>2. /\ todo # <<>> /\ IsPlain(Item) /\ Takes(tree, Item) = 0 /\ Puts(tree, Item) = 1
      /\ Item.at \in Seq(Nat) /\ Deep \in Depths /\ Here[2] \in OrAbsent(Exprs)
  BY <1>1, Visited DEF IsExpr
<1>3. Goes /\ (~fits => had_error')
  <2> HIDE DEF fits
  <2> QED
    BY <1>1, ChecksGoes
<1>4. Good(had_error', type)
  <2> HIDE DEF fits, enum
  <2> QED
    BY <1>3, GoodOf
<1>5. payload = Absent \/ GoodOr(had_error', payload)
  <2>1. payload = Absent \/ GoodOr(had_error, payload)
    BY PayloadIsGood
  <2> HIDE DEF payload
  <2> QED
    BY <1>3, <2>1, TypesStay DEF Goes
<1> HIDE DEF payload
<1>6. ASSUME NEW b \in Depths
      PROVE  Run(tree, had_error', Up(b, 1), items, Up(b, 1))
  <2>1. Run(tree, had_error', Up(b, 1), <<>>, Up(b, 1))
    <3>1. 1 \in Nat
      OBVIOUS
    <3>2. Up(b, 1) \in Depths
      BY <3>1, UpIsDepth
    <3> QED
      BY <3>2, RunNone
  <2>2. ASSUME fits, payload # Nothing
        PROVE  Run(tree, had_error', Up(b, 1), both, Up(b, 1))
    <3>1. Here[2] \in Exprs /\ 2 \in Nat
      BY <1>2, <2>2 DEF OrAbsent
    <3>2. Good(had_error', payload)
      BY <1>5, <2>2 DEF GoodOr
    <3> QED
      BY <1>2, <3>1, <3>2, FittingRuns
  <2> HIDE DEF both, fits
  <2> QED
    BY <2>1, <2>2
<1> HIDE DEF items, fits, type
<1> QED
  BY <1>1, <1>2, <1>3, <1>4, <1>6, GivenFirst

-----------------------------------------------------------------------------
(* Vectors.                                                                   *)

\* A vector of a good type.
LEMMA VectorIsGood ==
  ASSUME NEW e, NEW type, Good(e, type)
  PROVE  Good(e, VectorOf(type))
<1>1. "Vector" \in Kinds /\ "Vector" # "Error"
  BY DEF Kinds
<1>2. GoodTypes(e, <<type>>)
  BY GoodFew
<1> QED
  BY <1>1, <1>2, GoodType DEF VectorOf

\* A type is given and the vector recorded.
LEMMA HoldsFits ==
  ASSUME AnalyzerInv, todo # <<>>, IsPlain(Item), NEW n, Takes(tree, Item) = n,
         Puts(tree, Item) = 1, NEW type, Good(had_error, type), Leaves(<<>>), Gives(n, <<type>>),
         NEW x, facts' = [facts EXCEPT !.vectors = x],
         UNCHANGED <<tree, stacks, tables, had_error>>
  PROVE  AnalyzerInv'
<1>1. Goes /\ had_error' = had_error
  BY SilenceGoes
<1>2. GoodTypes(had_error', <<type>>) /\ Len(<<type>>) = 1
  BY <1>1, GoodFew
<1>3. StacksFit(had_error)' /\ TablesFit(tree, had_error', tables')
  BY <1>1, KeptFits
<1>4. /\ Len(symbols') = Len(symbols) /\ Len(expected') = Len(expected)
      /\ Len(returns') = Len(returns) /\ Len(open_loops') = Len(open_loops)
      /\ Len(matching') = Len(matching)
  BY DEF stacks
<1>5. FactsFit(had_error', facts')
  <2>1. /\ facts = [types |-> facts.types, matches |-> facts.matches, loops |-> facts.loops,
                    vectors |-> facts.vectors]
        /\ \A path \in DOMAIN facts.types : Good(had_error, facts.types[path])
    BY DEF AnalyzerInv, FactsFit
  <2>2. facts' = [types |-> facts.types, matches |-> facts.matches, loops |-> facts.loops,
                  vectors |-> x]
    BY <2>1
  <2> QED
    BY <1>1, <2>1, <2>2 DEF FactsFit
<1> QED
  BY <1>1, <1>2, <1>3, <1>4, <1>5, Settles

\* A vector literal without elements.
LEMMA EmptyVectorFits ==
  ASSUME AnalyzerInv, EmptyVector
  PROVE  AnalyzerInv'
<1> DEFINE kind == IF Wanted = Nothing THEN "Unknown" ELSE Wanted.kind
<1>1. /\ Visiting("Vector") /\ "Vector" \in ExprKinds
      /\ \/ kind = "Vector" /\ Holds(Item.at, Wanted)
         \/ kind = "Tensor" /\ Holds(Item.at, VectorOf(Param(Wanted, 1)))
         \/ Judges(0, <<Error>>, FALSE)
  BY DEF EmptyVector, ExprKinds
<1>2. todo # <<>> /\ IsPlain(Item) /\ Takes(tree, Item) = 0 /\ Puts(tree, Item) = 1
  BY <1>1, Visited
<1>3. kind \in {"Vector", "Tensor"} => Good(had_error, Wanted)
  BY WantedIsGood DEF GoodOr
<1>4. kind \in {"Vector", "Tensor"} => Good(had_error, VectorOf(Param(Wanted, 1)))
  BY <1>3, GoodParam, VectorIsGood
<1> HIDE DEF kind
<1>5. ASSUME NEW type, Good(had_error, type), Holds(Item.at, type)
      PROVE  AnalyzerInv'
  <2>1. /\ Leaves(<<>>) /\ Gives(0, <<type>>)
        /\ facts' = [facts EXCEPT !.vectors = facts.vectors \cup {Item.at}]
        /\ UNCHANGED <<tree, stacks, tables, had_error>>
    BY <1>5 DEF Holds
  <2> DEFINE x == facts.vectors \cup {Item.at}
  <2>2. facts' = [facts EXCEPT !.vectors = x]
    BY <2>1
  <2> HIDE DEF x
  <2> QED
    BY <1>2, <1>5, <2>1, <2>2, HoldsFits
<1>6. CASE Judges(0, <<Error>>, FALSE)
  BY <1>2, <1>6, JudgedGood
<1> QED
  BY <1>1, <1>3, <1>4, <1>5, <1>6

\* An element is evaluated and added to what the elements before it left.
LEMMA ElementRuns ==
  ASSUME NEW e, NEW d \in Depths, LeadsTo(tree, Item.at, Exprs, {"Vector"}),
         NEW i \in 1..Len(Here[1].parts)
  PROVE  Run(tree, e, Up(d, 1), NextElement(Item.at, i), Up(d, 1))
<1>1. ListOf(Here[1], Exprs) /\ Item.at \in Seq(Nat)
  BY KindsOfNodes DEF LeadsTo, Leads, IsExpr, Here, At
<1>2. Here[1].parts[i] \in Exprs /\ i \in Nat /\ 1 \in Nat
  BY <1>1 DEF ListOf
<1>3. Leads(tree, Item.at \o <<1, i>>, Exprs)
  BY <1>1, <1>2, PartsBelow
<1>4. Up(d, 1) \in Depths /\ Up(Up(d, 1), 1) = Up(d, 2)
  <2>1. 1 \in Nat /\ 1 + 1 = 2
    OBVIOUS
  <2>2. Up(d, 1) \in Depths /\ Up(Up(d, 1), 1) = Up(d, 1 + 1)
    BY <2>1, UpIsDepth
  <2> QED
    BY <2>1, <2>2
<1>5. Moves(tree, e, Up(d, 1), Eval(Item.at \o <<1, i>>, Nothing), Up(d, 2))
  BY <1>3, <1>4, EvalMoves DEF GoodOr
<1>6. Moves(tree, e, Up(d, 2), Element(Item.at, i), Up(d, 1))
  <2> DEFINE item == Element(Item.at, i)
  <2>1. item.do = "element" /\ item.at = Item.at /\ item.i = i
    BY DEF Element
  <2> HIDE DEF item
  <2>2. i \in 1..Len(NodeAt(tree, item.at).parts[1].parts)
    BY <2>1 DEF Here, At
  <2>3. Fits(tree, e, item) /\ IsPlain(item) /\ Takes(tree, item) = 2 /\ Puts(tree, item) = 1
    BY <2>1, <2>2 DEF Fits, IsPlain, Takes, Puts
  <2>4. Moves(tree, e, Up(d, 2), item, Up(d, 1))
    BY <2>3, TakingMoves
  <2> QED
    BY <2>4 DEF item
<1> QED
  BY <1>5, <1>6, RunTwo DEF NextElement

\* A vector literal evaluates its first element.
LEMMA VectorFits ==
  ASSUME AnalyzerInv, Vector
  PROVE  AnalyzerInv'
<1> DEFINE s == <<Yield(Unknown)>>
           t == NextElement(Item.at, 1)
<1>1. Visiting("Vector") /\ "Vector" \in ExprKinds /\ Here[1].parts # <<>> /\ Expands(s \o t)
  BY DEF Vector, ExprKinds
<1>2. /\ todo # <<>> /\ IsPlain(Item) /\ Takes(tree, Item) = 0 /\ Puts(tree, Item) = 1
      /\ Deep \in Depths /\ LeadsTo(tree, Item.at, Exprs, {"Vector"})
      /\ ListOf(Here[1], Exprs)
  BY <1>1, Visited DEF IsExpr, LeadsTo, Leads
<1>3. Run(tree, had_error, Deep, s, Up(Deep, 1))
  BY <1>2, GoodOf, YieldMoves, RunOne
<1>4. Run(tree, had_error, Up(Deep, 1), t, Up(Deep, 1))
  <2>1. 1 \in 1..Len(Here[1].parts)
    BY <1>1, <1>2 DEF ListOf
  <2> QED
    BY <1>2, <2>1, ElementRuns
<1> HIDE DEF s, t
<1>5. Run(tree, had_error, Deep, s \o t, Up(Deep, 1))
  BY <1>3, <1>4, RunCat
<1> QED
  BY <1>1, <1>2, <1>5, ExpandedQuietly

\* The head is an element.
LEMMA ElementTaken ==
  ASSUME AnalyzerInv, Doing("element")
  PROVE  /\ todo # <<>> /\ IsPlain(Item) /\ Takes(tree, Item) = 2 /\ Puts(tree, Item) = 1
         /\ LeadsTo(tree, Item.at, Exprs, {"Vector"}) /\ Item.i \in 1..Len(Here[1].parts)
         /\ Good(had_error, Result(0)) /\ Good(had_error, Result(1))
<1>1. /\ todo # <<>> /\ Item.do = "element" /\ IsPlain(Item) /\ Takes(tree, Item) = 2
      /\ Puts(tree, Item) = 1
  BY DEF Doing, IsPlain, Takes, Puts
<1>2. LeadsTo(tree, Item.at, Exprs, {"Vector"}) /\ Item.i \in 1..Len(Here[1].parts)
  BY <1>1, HeadPlain DEF Fits, Here, At
<1>3. Good(had_error, Result(0)) /\ Good(had_error, Result(1))
  BY <1>1, ItemTakes
<1> QED
  BY <1>1, <1>2, <1>3

\* An element that is none makes the vector an error, which is or was reported.
LEMMA FailElementFits ==
  ASSUME AnalyzerInv, FailElement
  PROVE  AnalyzerInv'
<1> DEFINE ok == Result(0).kind = "Error"
<1>1. Doing("element") /\ Judges(2, <<Error>>, ok)
  BY DEF FailElement
<1>2. /\ todo # <<>> /\ IsPlain(Item) /\ Takes(tree, Item) = 2 /\ Puts(tree, Item) = 1
      /\ Good(had_error, Result(0))
  BY <1>1, ElementTaken
<1>3. Good(had_error, Error) \/ ~ok
  BY <1>2, GoodParts, GoodOf
<1> HIDE DEF ok
<1> QED
  BY <1>1, <1>2, <1>3, JudgedGood

\* An element that fits goes on to the next, or gives the vector.
LEMMA AddElementFits ==
  ASSUME AnalyzerInv, AddElement
  PROVE  AnalyzerInv'
<1> DEFINE type == Common(Result(1), Result(0))
           merged == MergeExpected(VectorOf(type), Wanted)
           next == NextElement(Item.at, Item.i + 1)
           x == facts.vectors \cup {Item.at}
<1>1. /\ Doing("element") /\ type # Nothing
      /\ \/ /\ Item.i < Len(Here[1].parts) /\ Leaves(next) /\ Gives(2, <<type>>)
            /\ UNCHANGED facts
         \/ /\ Leaves(<<>>) /\ Gives(2, <<merged>>)
            /\ facts' = [facts EXCEPT !.vectors = x]
      /\ UNCHANGED <<tree, stacks, tables, had_error>>
  BY DEF AddElement, IsElement
<1>2. /\ todo # <<>> /\ IsPlain(Item) /\ Takes(tree, Item) = 2 /\ Puts(tree, Item) = 1
      /\ LeadsTo(tree, Item.at, Exprs, {"Vector"}) /\ Item.i \in 1..Len(Here[1].parts)
      /\ Good(had_error, Result(0)) /\ Good(had_error, Result(1))
  BY <1>1, ElementTaken
<1>3. Good(had_error, type)
  <2>1. GoodOr(had_error, type)
    BY <1>2, GoodDeduced DEF Common, GoodOr
  <2> QED
    BY <1>1, <2>1 DEF GoodOr
<1> HIDE DEF type
<1>4. Good(had_error, merged)
  BY <1>3, VectorIsGood, WantedIsGood, GoodMerged
<1>5. Goes /\ had_error' = had_error
  BY <1>1, SilenceGoes
<1>6. ASSUME Item.i < Len(Here[1].parts), Leaves(next), Gives(2, <<type>>), UNCHANGED facts
      PROVE  AnalyzerInv'
  <2>1. Item.i + 1 \in 1..Len(Here[1].parts)
    <3>1. Len(Here[1].parts) \in Nat
      <4>1. Here[1].parts \in Seq(Exprs)
        BY <1>2, KindsOfNodes DEF LeadsTo, Leads, IsExpr, ListOf, Here, At
      <4> QED
        BY <4>1
    <3> QED
      BY <1>2, <1>6, <3>1
  <2>2. \A b \in Depths : Run(tree, had_error', Up(b, 1), next, Up(b, 1))
    BY <1>2, <2>1, ElementRuns
  <2> HIDE DEF next
  <2> QED
    BY <1>1, <1>2, <1>3, <1>5, <1>6, <2>2, GivenFirst
<1>7. ASSUME Leaves(<<>>), Gives(2, <<merged>>), facts' = [facts EXCEPT !.vectors = x]
      PROVE  AnalyzerInv'
  <2> HIDE DEF merged, x
  <2> QED
    BY <1>1, <1>2, <1>4, <1>7, HoldsFits
<1> QED
  BY <1>1, <1>6, <1>7

-----------------------------------------------------------------------------
(* Calls.                                                                     *)

\* A call evaluates its arguments.
LEMMA CallFits ==
  ASSUME AnalyzerInv, Call
  PROVE  AnalyzerInv'
<1> DEFINE s == EvalAll(Below(2))
           t == <<Then("call", Item.at)>>
           n == Len(Here[2].parts)
<1>1. Visiting("Call") /\ "Call" \in ExprKinds /\ Expands(s \o t)
  BY DEF Call, ExprKinds
<1>2. /\ todo # <<>> /\ IsPlain(Item) /\ Takes(tree, Item) = 0 /\ Puts(tree, Item) = 1
      /\ Deep \in Depths /\ LeadsTo(tree, Item.at, Exprs, {"Call"})
      /\ ListOf(Here[2], Exprs) /\ Item.at \in Seq(Nat)
  BY <1>1, Visited DEF IsExpr, LeadsTo, Leads
<1>3. Run(tree, had_error, Deep, s, Up(Deep, n))
  <2>1. 2 \in Nat
    OBVIOUS
  <2> QED
    BY <1>2, <2>1, RunEvals
<1>4. Run(tree, had_error, Up(Deep, n), t, Up(Deep, 1))
  <2> DEFINE item == Then("call", Item.at)
  <2>1. item.do = "call" /\ item.at = Item.at
    BY DEF Then
  <2>2. t = <<item>>
    OBVIOUS
  <2> HIDE DEF item
  <2>3. Fits(tree, had_error, item) /\ IsPlain(item) /\ Puts(tree, item) = 1
    BY <1>2, <2>1 DEF Fits, IsPlain, Puts
  <2>4. Takes(tree, item) = n /\ n \in Nat
    BY <1>2, <2>1 DEF Takes, Here, At, ListOf
  <2>5. Moves(tree, had_error, Up(Deep, n), item, Up(Deep, 1))
    <3> HIDE DEF n
    <3> QED
      BY <1>2, <2>3, <2>4, TakingMoves
  <2> QED
    BY <2>2, <2>5, RunOne
<1> HIDE DEF s, t
<1>5. Run(tree, had_error, Deep, s \o t, Up(Deep, 1))
  BY <1>3, <1>4, RunCat
<1> QED
  BY <1>1, <1>2, <1>5, ExpandedQuietly

\* The outcome of a call: a good type, or the error type and a report.
IsOutcome(e, o) == Good(e, o.type) \/ (~o.ok /\ o.type = Error)

\* The type of a call and whether it is right.
LEMMA OutcomeIs ==
  ASSUME NEW e
  PROVE  /\ \A type, ok : Good(e, type) => IsOutcome(e, Outcome(type, ok))
         /\ IsOutcome(e, Refused)
<1>1. \A type, ok : Outcome(type, ok).type = type
  BY DEF Outcome
<1>2. Refused.type = Error /\ ~Refused.ok
  BY DEF Refused, Outcome
<1> QED
  BY <1>1, <1>2 DEF IsOutcome

\* A call of Some.
LEMMA SomeIsGood ==
  ASSUME AnalyzerInv, NEW args, GoodTypes(had_error, args)
  PROVE  IsOutcome(had_error, SomeOf(args))
<1> DEFINE want == IF WantedIs("Option") THEN Param(Wanted, 1) ELSE Unknown
           fits == IsAssignable(want, args[1])
           payload == IF want.kind # "Unknown" /\ fits THEN want ELSE args[1]
           type == MergeExpected(OptionOf(payload), Wanted)
<1>1. Good(had_error, want)
  BY WantedIsGood, GoodParam, GoodOf DEF WantedIs, GoodOr
<1> HIDE DEF want
<1>2. ASSUME Len(args) = 1
      PROVE  Good(had_error, type)
  <2>1. Good(had_error, args[1])
    <3>1. 1 \in DOMAIN args
      BY <1>2, SeqLen DEF GoodTypes
    <3> QED
      BY <3>1 DEF GoodTypes
  <2>2. Good(had_error, payload)
    BY <1>1, <2>1
  <2> HIDE DEF payload
  <2>3. "Option" \in Kinds /\ "Option" # "Error"
    BY DEF Kinds
  <2>4. Good(had_error, OptionOf(payload))
    BY <2>2, <2>3, GoodFew, GoodType DEF OptionOf
  <2> QED
    BY <2>4, WantedIsGood, GoodMerged
<1>3. SomeOf(args) = Refused \/ (Len(args) = 1 /\ SomeOf(args) = Outcome(type, fits))
  BY DEF SomeOf, want
<1> HIDE DEF type, fits
<1> QED
  BY <1>2, <1>3, OutcomeIs

\* A call of None.
LEMMA NoneIsGood ==
  ASSUME AnalyzerInv, NEW args
  PROVE  IsOutcome(had_error, NoneOf(args))
<1> DEFINE type == [Wanted EXCEPT !.params = Padded(Wanted.params, 1)]
           ok == args = <<>>
<1>1. ASSUME WantedIs("Option")
      PROVE  Good(had_error, type)
  <2>1. Good(had_error, Wanted)
    BY <1>1, WantedIsGood DEF WantedIs, GoodOr
  <2>2. GoodTypes(had_error, Padded(Wanted.params, 1))
    <3>1. 1 \in Nat
      OBVIOUS
    <3> QED
      BY <2>1, <3>1, GoodParts, GoodPadded
  <2> QED
    BY <2>1, <2>2, GoodWith
<1>2. NoneOf(args) = Refused \/ (WantedIs("Option") /\ NoneOf(args) = Outcome(type, ok))
  BY DEF NoneOf
<1> HIDE DEF type, ok
<1> QED
  BY <1>1, <1>2, OutcomeIs

\* Types with another in one place.
LEMMA GoodExcept ==
  ASSUME NEW e, NEW s, GoodTypes(e, s), NEW i, NEW t, Good(e, t)
  PROVE  GoodTypes(e, [s EXCEPT ![i] = t])
<1> DEFINE u == [s EXCEPT ![i] = t]
<1>1. IsSeq(u) /\ DOMAIN u = DOMAIN s /\ \A j \in DOMAIN s : u[j] = t \/ u[j] = s[j]
  BY ExceptIs DEF GoodTypes
<1> HIDE DEF u
<1>2. GoodTypes(e, u)
  BY <1>1 DEF GoodTypes
<1> QED
  BY <1>2 DEF u

\* A call of Ok and of Err.
LEMMA ResultIsGood ==
  ASSUME AnalyzerInv, NEW args, GoodTypes(had_error, args), NEW i \in {1, 2}
  PROVE  IsOutcome(had_error, ResultOfCall(args, i))
<1> DEFINE template == [Wanted EXCEPT !.params = Padded(Wanted.params, 2)]
           want == template.params[i]
           given == IF want.kind = "Unknown" THEN args[1] ELSE want
           type == MergeExpected([template EXCEPT !.params[i] = given], Wanted)
           ok == IsAssignable(want, args[1])
<1>1. ASSUME Len(args) = 1, WantedIs("Result")
      PROVE  Good(had_error, type)
  <2>1. Good(had_error, Wanted)
    BY <1>1, WantedIsGood DEF WantedIs, GoodOr
  <2>2. GoodTypes(had_error, Padded(Wanted.params, 2)) /\ Len(Padded(Wanted.params, 2)) >= 2
    <3>1. 2 \in Nat
      OBVIOUS
    <3> QED
      BY <2>1, <3>1, GoodParts, GoodPadded
  <2>3. Good(had_error, template)
    BY <2>1, <2>2, GoodWith
  <2>4. template.params = Padded(Wanted.params, 2)
    <3>1. Wanted = Type(Wanted.kind, Wanted.params, Wanted.name)
      BY <2>1, GoodParts
    <3> QED
      BY <3>1 DEF Type
  <2> HIDE DEF template
  <2>5. Good(had_error, want)
    <3>1. i \in DOMAIN template.params
      BY <2>2, <2>4, SeqLen DEF GoodTypes
    <3> QED
      BY <2>2, <2>4, <3>1 DEF GoodTypes
  <2>6. Good(had_error, args[1])
    <3>1. 1 \in DOMAIN args
      BY <1>1, SeqLen DEF GoodTypes
    <3> QED
      BY <3>1 DEF GoodTypes
  <2>7. Good(had_error, given)
    BY <2>5, <2>6
  <2> HIDE DEF given, want
  <2>8. [template EXCEPT !.params[i] = given]
          = [template EXCEPT !.params = [template.params EXCEPT ![i] = given]]
    OBVIOUS
  <2>9. GoodTypes(had_error, [template.params EXCEPT ![i] = given])
    BY <2>2, <2>4, <2>7, GoodExcept
  <2>10. Good(had_error, [template EXCEPT !.params[i] = given])
    BY <2>3, <2>8, <2>9, GoodWith
  <2> QED
    BY <2>10, WantedIsGood, GoodMerged
<1>2. \/ ResultOfCall(args, i) = Refused
      \/ Len(args) = 1 /\ WantedIs("Result") /\ ResultOfCall(args, i) = Outcome(type, ok)
  BY DEF ResultOfCall
<1> HIDE DEF type, ok
<1> QED
  BY <1>1, <1>2, OutcomeIs

\* A call of a constructor of the language.
LEMMA BuiltinIsGood ==
  ASSUME NEW e, NEW args, NEW type, Good(e, type), NEW ok
  PROVE  IsOutcome(e, Builtin(args, type, ok))
<1>1. Builtin(args, type, ok) = Refused \/ Builtin(args, type, ok) = Outcome(type, TRUE)
  BY DEF Builtin
<1> QED
  BY <1>1, OutcomeIs

\* A call of any name: its type is good when it is right, and reported otherwise.
LEMMA CallIsGood ==
  ASSUME AnalyzerInv, NEW name, NEW args
  PROVE  IsOutcome(had_error, CallOf(name, args))
<1> DEFINE function == Resolve(name)
           ok == /\ function.effectful => effects # <<>> /\ Last(effects)
                 /\ Len(function.params) = Len(args)
                 /\ \A i \in DOMAIN args : IsAssignable(function.params[i], args[i])
<1>1. CallOf(name, args) = Refused
      \/ (IsDefined(name) /\ CallOf(name, args) = Outcome(function.type, ok))
  BY DEF CallOf
<1>2. IsDefined(name) => Good(had_error, function.type)
  BY Resolved
<1> HIDE DEF ok, function
<1> QED
  BY <1>1, <1>2, OutcomeIs

\* A call takes its arguments and gives its type.
LEMMA CalledFits ==
  ASSUME AnalyzerInv, Called
  PROVE  AnalyzerInv'
<1> DEFINE name == Here[1].parts[1].text
           n == Len(Here[2].parts)
           args == Args(n)
           literal == Here[2].parts[1].kind = "Literal"
           outcome ==
               IF name = <<"Some">> THEN SomeOf(args)
               ELSE IF name = <<"None">> THEN NoneOf(args)
               ELSE IF name = <<"Ok">> THEN ResultOfCall(args, 1)
               ELSE IF name = <<"Err">> THEN ResultOfCall(args, 2)
               ELSE IF name = <<"print">> THEN Builtin(args, Of("Void"), TRUE)
               ELSE IF name = <<"weights", ".", "load">>
                    THEN Builtin(args, Of("I32"), literal)
               ELSE CallOf(name, args)
<1>1. /\ todo # <<>> /\ Item.do = "call" /\ IsPlain(Item) /\ Puts(tree, Item) = 1
      /\ Judges(n, <<outcome.type>>, outcome.ok)
  BY DEF Called, Doing, IsPlain, Puts
<1>2. Takes(tree, Item) = n
  BY <1>1 DEF Takes, Here, At
<1> HIDE DEF n
<1>3. GoodTypes(had_error, args)
  BY <1>1, <1>2, ItemTakes, TakenAreGood
<1> HIDE DEF args, literal, name
<1>4. Good(had_error, Of("Void")) /\ Good(had_error, Of("I32"))
  <2>1. "Void" \in Kinds /\ "I32" \in Kinds /\ "Void" # "Error" /\ "I32" # "Error"
    BY DEF Kinds
  <2> QED
    BY <2>1, GoodOf
<1>5. IsOutcome(had_error, outcome)
  <2>1. IsOutcome(had_error, SomeOf(args)) /\ IsOutcome(had_error, NoneOf(args))
        /\ IsOutcome(had_error, CallOf(name, args))
    BY <1>3, SomeIsGood, NoneIsGood, CallIsGood
  <2>2. IsOutcome(had_error, ResultOfCall(args, 1)) /\ IsOutcome(had_error, ResultOfCall(args, 2))
    BY <1>3, ResultIsGood
  <2>3. IsOutcome(had_error, Builtin(args, Of("Void"), TRUE))
        /\ IsOutcome(had_error, Builtin(args, Of("I32"), literal))
    BY <1>4, BuiltinIsGood
  <2> QED
    BY <2>1, <2>2, <2>3
<1> HIDE DEF outcome
<1> QED
  BY <1>1, <1>2, <1>5, JudgedGood DEF IsOutcome

\* The steps of expressions.
LEMMA ExpressionStepFits ==
  ASSUME AnalyzerInv, ExpressionStep
  PROVE  AnalyzerInv'
  BY LiteralFits, GroupingFits, VariableFits, AssignFits, AssignedFits, BinaryFits, OperateFits,
     UnaryFits, NegateFits, FieldAccessFits, FieldFits, RecordLiteralFits, FieldValueFits,
     FitFits, EnumLiteralFits, EmptyVectorFits, VectorFits, FailElementFits, AddElementFits,
     CallFits, CalledFits DEF ExpressionStep

-----------------------------------------------------------------------------
(* Matches.                                                                   *)

\* A match evaluates what it matches.
LEMMA MatchFits ==
  ASSUME AnalyzerInv, Match
  PROVE  AnalyzerInv'
<1> DEFINE items == <<Eval(Below(1), Nothing), Then("open", Item.at)>>
<1>1. Visiting("Match") /\ "Match" \in ExprKinds /\ Expands(items)
  BY DEF Match, ExprKinds
<1>2. /\ todo # <<>> /\ IsPlain(Item) /\ Takes(tree, Item) = 0 /\ Puts(tree, Item) = 1
      /\ Item.at \in Seq(Nat) /\ Deep \in Depths /\ Here[1] \in Exprs
      /\ LeadsTo(tree, Item.at, Exprs, {"Match"})
  BY <1>1, Visited DEF IsExpr, LeadsTo, Leads
<1>3. Run(tree, had_error, Deep, items, Up(Deep, 1))
  <2>1. Moves(tree, had_error, Deep, Eval(Below(1), Nothing), Up(Deep, 1))
    BY <1>2, EvalBelow DEF GoodOr
  <2>2. Moves(tree, had_error, Up(Deep, 1), Then("open", Item.at), Up(Deep, 1))
    <3> DEFINE item == Then("open", Item.at)
    <3>1. item.do = "open" /\ item.at = Item.at
      BY DEF Then
    <3> HIDE DEF item
    <3>2. Fits(tree, had_error, item) /\ IsPlain(item) /\ Takes(tree, item) = 1
          /\ Puts(tree, item) = 1
      BY <1>2, <3>1 DEF Fits, IsPlain, Takes, Puts
    <3>3. Moves(tree, had_error, Up(Deep, 1), item, Up(Deep, 1))
      BY <1>2, <3>2, TakingMoves
    <3> QED
      BY <3>3 DEF item
  <2> QED
    BY <2>1, <2>2, RunTwo
<1> HIDE DEF items
<1> QED
  BY <1>1, <1>2, <1>3, ExpandedQuietly

\* The stacks fit when the scopes and the matches do, and the others stay.
LEMMA KeptButFrames ==
  ASSUME AnalyzerInv, Goes, ScopesFit(had_error', symbols'),
         FramesFit(had_error', tables', matching'),
         UNCHANGED <<expected, returns, effects, open_loops>>
  PROVE  StacksFit(had_error)'
<1>1. ExpectedFit(had_error', expected') /\ GoodTypes(had_error', returns')
  BY KeptFits
<1>2. IsSeq(effects) /\ Len(effects) = Len(returns) /\ IsSeq(open_loops)
  BY DEF AnalyzerInv, StacksFit
<1> QED
  BY <1>1, <1>2 DEF StacksFit

\* The match at hand.
LEMMA FrameIs ==
  ASSUME AnalyzerInv, Goes, Len(matching) # 0
  PROVE  /\ IsFrame(had_error, tables, Frame) /\ IsFrame(had_error', tables, Frame)
         /\ IsSeq(matching) /\ Len(matching) \in Nat /\ matching # <<>>
<1>1. FramesFit(had_error, tables, matching) /\ FramesFit(had_error', tables, matching)
  BY FitStays DEF AnalyzerInv, StacksFit, Goes
<1>2. IsSeq(matching) /\ Len(matching) \in Nat
  BY <1>1, SeqLen DEF FramesFit
<1>3. matching # <<>>
  <2>1. Len(<<>>) = 0
    OBVIOUS
  <2> QED
    BY <2>1
<1>4. Len(matching) \in DOMAIN matching /\ Frame = matching[Len(matching)]
  BY <1>2, <1>3, LastIs DEF Frame
<1> QED
  BY <1>1, <1>2, <1>3, <1>4 DEF FramesFit

\* One match more.
LEMMA FrameEnters ==
  ASSUME NEW e, NEW t, NEW s, FramesFit(e, t, s), NEW f, IsFrame(e, t, f)
  PROVE  FramesFit(e, t, Append(s, f)) /\ Len(Append(s, f)) = Len(s) + 1
<1>1. /\ IsSeq(Append(s, f)) /\ Len(Append(s, f)) = Len(s) + 1
      /\ \A i \in DOMAIN Append(s, f) :
           (i \in DOMAIN s /\ Append(s, f)[i] = s[i]) \/ Append(s, f)[i] = f
  BY AppendIs DEF FramesFit
<1> QED
  BY <1>1 DEF FramesFit

\* One match less.
LEMMA FrameLeaves ==
  ASSUME NEW e, NEW t, NEW s, FramesFit(e, t, s), Len(s) # 0
  PROVE  FramesFit(e, t, Front(s)) /\ Len(Front(s)) = Len(s) - 1
<1>1. /\ IsSeq(Front(s)) /\ Len(Front(s)) = Len(s) - 1
      /\ \A i \in DOMAIN Front(s) : i \in DOMAIN s /\ Front(s)[i] = s[i]
  BY FrontIs DEF FramesFit
<1> QED
  BY <1>1 DEF FramesFit

\* The match in progress with something changed.
LEMMA ReframedFits ==
  ASSUME AnalyzerInv, Goes, UNCHANGED tables, NEW f, IsFrame(had_error', tables, f)
  PROVE  FramesFit(had_error', tables', Reframed(f)) /\ Len(Reframed(f)) = Len(matching)
<1>1. FramesFit(had_error', tables, matching)
  BY FitStays DEF AnalyzerInv, StacksFit, Goes
<1> DEFINE s == Reframed(f)
<1>2. IsSeq(s) /\ Len(s) = Len(matching) /\ DOMAIN s = DOMAIN matching
      /\ \A i \in DOMAIN matching : s[i] = f \/ s[i] = matching[i]
  BY <1>1, ExceptIs DEF Reframed, FramesFit
<1> HIDE DEF s
<1>3. FramesFit(had_error', tables, s)
  BY <1>1, <1>2 DEF FramesFit
<1> QED
  BY <1>2, <1>3 DEF s

\* The variants a value may be.
LEMMA VariantsAreGood ==
  ASSUME AnalyzerInv, NEW type, Good(had_error, type)
  PROVE  /\ VariantsOf(type) # Nothing => HasVariants(tables, type)
         /\ HasVariants(tables, type) => AreVariants(had_error, VariantsOf(type))
<1>1. VariantsOf(type) # Nothing => HasVariants(tables, type)
  BY DEF VariantsOf, HasVariants
<1>2. ASSUME NEW a, NEW b, GoodOr(had_error, a.payload), GoodOr(had_error, b.payload)
      PROVE  AreVariants(had_error, <<a, b>>)
  <2> DEFINE s == <<a, b>>
  <2>1. IsSeq(s)
    <3>1. s \in Seq({a, b})
      OBVIOUS
    <3> QED
      BY <3>1, SeqIn
  <2>2. \A i \in DOMAIN s : s[i] = a \/ s[i] = b
    OBVIOUS
  <2> HIDE DEF s
  <2>3. AreVariants(had_error, s)
    BY <1>2, <2>1, <2>2 DEF AreVariants
  <2> QED
    BY <2>3 DEF s
<1>3. \A name, payload : Variant(name, payload).payload = payload
  BY DEF Variant
<1>4. GoodOr(had_error, Param(type, 1)) /\ GoodOr(had_error, Param(type, 2))
      /\ GoodOr(had_error, Nothing)
  BY GoodParam DEF GoodOr
<1>5. CASE type.kind = "Option"
  <2>1. VariantsOf(type) = <<Variant(<<"Some">>, Param(type, 1)), Variant(<<"None">>, Nothing)>>
    BY <1>5 DEF VariantsOf
  <2> QED
    BY <1>1, <1>2, <1>3, <1>4, <2>1
<1>6. CASE type.kind = "Result"
  <2>1. VariantsOf(type)
          = <<Variant(<<"Ok">>, Param(type, 1)), Variant(<<"Err">>, Param(type, 2))>>
    BY <1>6 DEF VariantsOf
  <2> QED
    BY <1>1, <1>2, <1>3, <1>4, <2>1
<1>7. CASE type.kind = "Custom" /\ type.name \in DOMAIN tables.enums
  <2>1. VariantsOf(type) = tables.enums[type.name].variants
    BY <1>7 DEF VariantsOf
  <2>2. AreVariants(had_error, tables.enums[type.name].variants)
    BY <1>7 DEF AnalyzerInv, TablesFit
  <2> QED
    BY <1>1, <2>1, <2>2
<1> QED
  BY <1>1, <1>5, <1>6, <1>7 DEF HasVariants

\* The types of what a pattern binds.
AreBindings(e, b) ==
  IsSeq(b.names) /\ \A i \in DOMAIN b.names : Good(e, b.types[i])

\* What a pattern binds.
LEMMA BoundIs ==
  ASSUME NEW names, NEW types
  PROVE  /\ Bound(names, types).names = names /\ Bound(names, types).types = types
         /\ ~Unbound.fits
  BY DEF Bound, Unbound

\* A pattern binds as many names as types, and types that are good.
LEMMA PayloadBindingsFit ==
  ASSUME AnalyzerInv, NEW pattern, IsPattern(pattern), NEW payload, Good(had_error, payload),
         PayloadBindings(pattern, payload).fits
  PROVE  AreBindings(had_error, PayloadBindings(pattern, payload))
<1> DEFINE list == pattern.parts[1]
           fields == FieldsOf(payload)
           names == [i \in DOMAIN list.parts |-> list.parts[i].parts[2].text]
           types == [i \in DOMAIN list.parts |-> fields[PairNames(list)[i]]]
<1>1. \/ PayloadBindings(pattern, payload) = Bound(<<list.text>>, <<payload>>)
      \/ /\ pattern.kind = "Tuple" /\ Len(payload.params) = Len(list.parts)
         /\ PayloadBindings(pattern, payload) = Bound(Texts(list), payload.params)
      \/ /\ pattern.kind = "RecordPattern" /\ Range(PairNames(list)) \subseteq DOMAIN fields
         /\ PayloadBindings(pattern, payload) = Bound(names, types)
      \/ PayloadBindings(pattern, payload) = Unbound
  BY DEF PayloadBindings
<1>2. ASSUME NEW n, NEW t, IsSeq(n), \A i \in DOMAIN n : Good(had_error, t[i])
      PROVE  AreBindings(had_error, Bound(n, t))
  BY <1>2, BoundIs DEF AreBindings
<1>3. AreBindings(had_error, Bound(<<list.text>>, <<payload>>))
  <2> DEFINE n == <<list.text>>
             t == <<payload>>
  <2>1. IsSeq(n)
    <3>1. n \in Seq({list.text})
      OBVIOUS
    <3> QED
      BY <3>1, SeqIn
  <2>2. DOMAIN n = {1} /\ t[1] = payload
    OBVIOUS
  <2> HIDE DEF n, t
  <2> QED
    BY <1>2, <2>1, <2>2 DEF n, t
<1>4. ASSUME pattern.kind = "Tuple", Len(payload.params) = Len(list.parts)
      PROVE  AreBindings(had_error, Bound(Texts(list), payload.params))
  <2>1. IsSeq(list.parts)
    BY <1>4 DEF IsPattern, IsList
  <2>2. GoodTypes(had_error, payload.params)
    BY GoodParts
  <2>3. Texts(list) = [i \in DOMAIN list.parts |-> Texts(list)[i]]
    BY DEF Texts
  <2>4. IsSeq(Texts(list)) /\ DOMAIN Texts(list) = DOMAIN list.parts
    <3> HIDE DEF list
    <3> QED
      BY <2>1, <2>3, MadeIs
  <2>5. DOMAIN list.parts = DOMAIN payload.params
    BY <1>4, <2>1, <2>2, SeqLen DEF GoodTypes
  <2> QED
    BY <1>2, <2>2, <2>4, <2>5 DEF GoodTypes
<1>5. ASSUME pattern.kind = "RecordPattern", Range(PairNames(list)) \subseteq DOMAIN fields
      PROVE  AreBindings(had_error, Bound(names, types))
  <2>1. IsList(list)
    BY <1>5 DEF IsPattern
  <2>2. IsRecord(had_error, fields)
    BY FieldsAreGood
  <2>3. names = [i \in DOMAIN list.parts |-> names[i]]
        /\ \A i \in DOMAIN list.parts : types[i] = fields[PairNames(list)[i]]
    OBVIOUS
  <2>4. \A i \in DOMAIN list.parts : PairNames(list)[i] \in DOMAIN fields
    <3>1. DOMAIN PairNames(list) = DOMAIN list.parts
      BY <2>1, PairNamesIs
    <3> HIDE DEF list, fields
    <3> QED
      BY <1>5, <3>1 DEF Range
  <2> HIDE DEF names, types, list, fields
  <2>5. IsSeq(names) /\ DOMAIN names = DOMAIN list.parts
    BY <2>1, <2>3, MadeIs DEF IsList
  <2> QED
    BY <1>2, <2>2, <2>3, <2>4, <2>5 DEF IsRecord
<1> HIDE DEF list, fields, names, types
<1> QED
  BY <1>1, <1>3, <1>4, <1>5, BoundIs

\* So does a pattern with a variant inside.
LEMMA BindingsFit ==
  ASSUME AnalyzerInv, NEW arm, IsArm(arm), NEW payload, Good(had_error, payload),
         Bindings(arm.parts[2], payload).fits
  PROVE  AreBindings(had_error, Bindings(arm.parts[2], payload))
<1> DEFINE pattern == arm.parts[2]
           inner == IF payload.kind = "Custom"
                    THEN PayloadOf(payload.name, pattern.parts[1].text) ELSE Absent
<1>1. \/ Bindings(pattern, payload) = PayloadBindings(pattern, payload)
      \/ /\ pattern.kind = "Variant" /\ inner # Absent /\ inner # Nothing
         /\ Bindings(pattern, payload) = PayloadBindings(pattern.parts[2], inner)
      \/ Bindings(pattern, payload) = Unbound
  BY DEF Bindings
<1>2. IsPattern(pattern) /\ (pattern.kind = "Variant" => IsPattern(pattern.parts[2]))
  BY DEF IsArm
<1>3. inner # Absent /\ inner # Nothing => Good(had_error, inner)
  BY PayloadIsGood DEF GoodOr
<1> HIDE DEF inner, pattern
<1>4. Bindings(pattern, payload).fits
  BY DEF pattern
<1>5. AreBindings(had_error, Bindings(pattern, payload))
  BY <1>1, <1>2, <1>3, <1>4, PayloadBindingsFit, BoundIs
<1> QED
  BY <1>5 DEF pattern

\* So does the pattern of an arm.
LEMMA ArmBindingsFit ==
  ASSUME AnalyzerInv, NEW arm, IsArm(arm), NEW variants, AreVariants(had_error, variants),
         ArmBindings(arm, variants).fits
  PROVE  AreBindings(had_error, ArmBindings(arm, variants))
<1> DEFINE i == VariantOf(variants, arm.parts[1].text)
           payload == variants[i].payload
<1>1. \/ ArmBindings(arm, variants) = Unbound
      \/ ArmBindings(arm, variants) = Bound(<<>>, <<>>)
      \/ /\ i # 0 /\ payload # Nothing
         /\ ArmBindings(arm, variants) = Bindings(arm.parts[2], payload)
  BY DEF ArmBindings
<1>2. i # 0 => i \in DOMAIN variants
  BY VariantIs DEF AreVariants
<1>3. i # 0 /\ payload # Nothing => Good(had_error, payload)
  BY <1>2 DEF AreVariants, GoodOr
<1>4. AreBindings(had_error, Bound(<<>>, <<>>))
  <2>1. IsSeq(<<>>) /\ DOMAIN <<>> = {}
    BY GoodFew DEF GoodTypes
  <2> QED
    BY <2>1, BoundIs DEF AreBindings
<1> HIDE DEF i, payload
<1> QED
  BY <1>1, <1>3, <1>4, BoundIs, BindingsFit

\* The scope of an arm.
LEMMA ArmScope ==
  ASSUME NEW e, NEW path, NEW b, AreBindings(e, b)
  PROVE  IsScope(e, ScopeOf(path, b))
<1> DEFINE names == b.names
           scope == ScopeOf(path, b)
           place(name) == SelectLastInSeq(names, LAMBDA n : n = name)
<1>1. /\ DOMAIN scope \subseteq Range(names)
      /\ \A name \in DOMAIN scope :
           scope[name] = VariableSymbol(path, b.types[place(name)])
  BY DEF ScopeOf
<1>2. ASSUME NEW name \in DOMAIN scope
      PROVE  IsSymbol(e, scope[name])
  <2>1. name \in Range(names) /\ IsSeq(names)
    BY <1>1 DEF AreBindings
  <2> HIDE DEF names
  <2>2. SelectLastInSeq(names, LAMBDA n : n = name) \in DOMAIN names
    BY <2>1, Places
  <2>3. place(name) \in DOMAIN names
    BY <2>2
  <2> DEFINE k == place(name)
  <2>4. scope[name] = VariableSymbol(path, b.types[k])
    BY <1>1
  <2>5. k \in DOMAIN names
    BY <2>3
  <2> HIDE DEF k, scope
  <2>6. Good(e, b.types[k])
    BY <2>5 DEF AreBindings, names
  <2> QED
    BY <2>4, <2>6, NewSymbols
<1> HIDE DEF scope
<1>3. IsScope(e, scope)
  BY <1>2 DEF IsScope
<1> QED
  BY <1>3 DEF scope

\* The arm at the head.
LEMMA ArmTaken ==
  ASSUME AnalyzerInv, Doing("arm")
  PROVE  /\ IsArm(At(Item.at)) /\ Item.at \in Seq(Nat) /\ Len(matching) # 0
         /\ Run(tree, had_error, Deep, Tail(todo), Ground)
<1>1. todo # <<>> /\ Item.do = "arm"
  BY DEF Doing
<1>2. PICK m : Moves(tree, had_error, Deep, Item, m) /\ Run(tree, had_error, m, Tail(todo), Ground)
  BY <1>1, HeadMoves
<1>3. Takes(tree, Item) = 0 /\ Puts(tree, Item) = 0
  BY <1>1 DEF Takes, Puts
<1>4. IsArm(At(Item.at)) /\ Item.at \in Seq(Nat)
  BY <1>1, <1>2 DEF Moves, Fits, At
<1>5. /\ Deep \in Depths /\ m \in Depths /\ m.results = (Deep.results - 0) + 0
      /\ Deep.scopes = m.scopes + 0 /\ Deep.expected = m.expected + 0
      /\ Deep.returns = m.returns + 0 /\ Deep.loops = m.loops + 0
      /\ Deep.matches = m.matches + 0 /\ Deep.matches # 0
  BY <1>1, <1>2, <1>3 DEF Moves
<1>6. m = Deep
  <2>1. /\ m.results = Deep.results /\ m.scopes = Deep.scopes /\ m.expected = Deep.expected
        /\ m.returns = Deep.returns /\ m.loops = Deep.loops /\ m.matches = Deep.matches
    BY <1>5 DEF Depths
  <2> QED
    BY <1>5, <2>1, SameDepths
<1>7. Deep.matches = Len(matching)
  BY DEF Deep, Depth
<1> QED
  BY <1>2, <1>4, <1>5, <1>6, <1>7

\* A match of something that has variants opens a frame, any other is an error.
LEMMA OpenFits ==
  ASSUME AnalyzerInv, Open
  PROVE  AnalyzerInv'
<1> DEFINE frame == [scrutinee |-> Result(0),
                     result |-> IF Wanted = Nothing THEN Unknown ELSE Wanted,
                     valid |-> TRUE, seen |-> {}, unguarded |-> {}, arms |-> <<>>]
           s == [i \in DOMAIN Here[2].parts |-> Then("arm", Below(2) \o <<i>>)]
           t == <<Then("conclude", Item.at)>>
<1>1. /\ todo # <<>> /\ Item.do = "open" /\ IsPlain(Item) /\ Takes(tree, Item) = 1
      /\ Puts(tree, Item) = 1
  BY DEF Open, Doing, IsPlain, Takes, Puts
<1>2. \/ Judges(1, <<Error>>, FALSE)
      \/ /\ VariantsOf(Result(0)) # Nothing /\ matching' = Append(matching, frame)
         /\ Gives(1, <<>>) /\ Leaves(s \o t)
         /\ UNCHANGED <<tree, symbols, expected, returns, effects, open_loops, tables, facts,
                        had_error>>
  BY DEF Open
<1>3. CASE Judges(1, <<Error>>, FALSE)
  BY <1>1, <1>3, JudgedGood
<1>4. ASSUME VariantsOf(Result(0)) # Nothing, matching' = Append(matching, frame),
             Gives(1, <<>>), Leaves(s \o t),
             UNCHANGED <<tree, symbols, expected, returns, effects, open_loops, tables, facts,
                         had_error>>
      PROVE  AnalyzerInv'
  <2>1. LeadsTo(tree, Item.at, Exprs, {"Match"}) /\ Good(had_error, Result(0))
        /\ 1 <= Len(results)
    BY <1>1, HeadPlain, ItemTakes DEF Fits
  <2>2. Goes /\ had_error' = had_error
    BY <1>4, SilenceGoes
  <2>3. PICK b \in Depths : Deep = Up(b, 1) /\ Run(tree, had_error, Up(b, 1), Tail(todo), Ground)
    BY <1>1, HeadPlain
  <2>4. GoodTypes(had_error', results') /\ Len(results') = (Len(results) - 1) + 0
    <3>1. GoodTypes(had_error', <<>>) /\ Len(<<>>) = 0 /\ 1 \in Nat
      BY GoodFew
    <3> QED
      BY <1>4, <2>1, <2>2, <3>1, GivenGood
  <2>5. IsFrame(had_error', tables, frame)
    <3> DEFINE result == IF Wanted = Nothing THEN Unknown ELSE Wanted
    <3>1. Good(had_error, result)
      BY WantedIsGood, GoodOf DEF GoodOr
    <3>2. HasVariants(tables, Result(0))
      BY <1>4, <2>1, VariantsAreGood
    <3> HIDE DEF result
    <3>3. frame = [scrutinee |-> Result(0), result |-> result, valid |-> TRUE, seen |-> {},
                   unguarded |-> {}, arms |-> <<>>]
      BY DEF result
    <3> HIDE DEF frame
    <3> QED
      BY <2>1, <2>2, <3>1, <3>2, <3>3 DEF IsFrame
  <2> HIDE DEF frame
  <2>6. FramesFit(had_error', tables', matching') /\ Len(matching') = Len(matching) + 1
    <3>1. FramesFit(had_error', tables, matching)
      BY <2>2 DEF AnalyzerInv, StacksFit
    <3> QED
      BY <1>4, <2>5, <3>1, FrameEnters
  <2>7. StacksFit(had_error)'
    <3>1. ScopesFit(had_error', symbols')
      BY <1>4, <2>2, KeptFits
    <3> QED
      BY <1>4, <2>2, <2>6, <3>1, KeptButFrames
  <2>8. TablesFit(tree, had_error', tables') /\ FactsFit(had_error', facts')
    BY <1>4, <2>2, KeptFits
  <2> DEFINE r == b.results
             S == b.scopes
             x == b.expected
             u == b.returns
             l == b.loops
             m == b.matches
  <2>9. /\ r \in Nat /\ S \in Nat /\ x \in Nat /\ u \in Nat /\ l \in Nat /\ m \in Nat
        /\ Up(b, 1) = Depth(r + 1, S, x, u, l, m)
    <3>1. 1 \in Nat
      OBVIOUS
    <3> QED
      BY <3>1, UpIsDepth DEF Depths
  <2>10. /\ Len(results) = r + 1 /\ Len(symbols) - 1 = S /\ Len(expected) = x
         /\ Len(returns) = u /\ Len(open_loops) = l /\ Len(matching) = m
    BY <2>3, <2>9 DEF Deep, Depth
  <2>11. Deep' = Depth(r, S, x, u, l, m + 1)
    <3>1. (Len(results) - 1) + 0 = r
      BY <2>9, <2>10
    <3> QED
      BY <1>4, <2>4, <2>6, <2>10, <3>1 DEF Deep
  <2>12. Deep' \in Depths /\ Deep'.matches # 0
    <3> HIDE DEF r, S, x, u, l, m
    <3>1. m + 1 \in Nat /\ m + 1 # 0
      BY <2>9
    <3> QED
      BY <2>9, <2>11, <3>1 DEF Depth, Depths
  <2>13. Run(tree, had_error', Deep', t, Up(b, 1))
    <3> HIDE DEF r, S, x, u, l, m
    <3>1. Moves(tree, had_error', Depth(r, S, x, u, l, m + 1), Then("conclude", Item.at),
                Depth(r + 1, S, x, u, l, m))
      BY <2>9, StackMoves
    <3> QED
      BY <2>9, <2>11, <3>1, RunOne
  <2> HIDE DEF r, S, x, u, l, m
  <2>14. Run(tree, had_error', Deep', s, Deep')
    <3>1. /\ IsSeq(Here[2].parts) /\ \A i \in DOMAIN Here[2].parts : IsArm(Here[2].parts[i])
          /\ Item.at \in Seq(Nat)
      BY <2>1, KindsOfNodes DEF LeadsTo, Leads, IsExpr, IsList, Here, At
    <3> DEFINE parts == Here[2].parts
    <3>2. IsSeq(s) /\ DOMAIN s = DOMAIN parts
      <4>1. s = [i \in DOMAIN parts |-> s[i]]
        OBVIOUS
      <4> HIDE DEF s, parts
      <4> QED
        BY <3>1, <4>1, MadeIs DEF parts
    <3>3. ASSUME NEW i \in DOMAIN parts
          PROVE  Moves(tree, had_error', Deep', s[i], Deep')
      <4> DEFINE item == s[i]
      <4>1. item.do = "arm" /\ item.at = Below(2) \o <<i>>
        BY DEF Then
      <4> HIDE DEF item, s
      <4>2. i \in Nat /\ 2 \in Nat
        BY <3>1, SeqLen
      <4>3. IsArm(NodeAt(tree, item.at)) /\ item.at \in Seq(Nat)
        <5>1. item.at \in Seq(Nat) /\ NodeAt(tree, item.at) = Here[2].parts[i]
          BY <3>1, <4>1, <4>2, PartsBelow
        <5> QED
          BY <3>1, <5>1
      <4>4. Fits(tree, had_error', item)
        BY <4>1, <4>3 DEF Fits
      <4>5. Takes(tree, item) = 0 /\ Puts(tree, item) = 0
        BY <4>1 DEF Takes, Puts
      <4> DEFINE d == Deep'
      <4>6. d \in Depths /\ d.matches # 0
        BY <2>12
      <4> HIDE DEF d
      <4>7. /\ d.results \in Nat /\ d.scopes \in Nat /\ d.expected \in Nat /\ d.returns \in Nat
            /\ d.loops \in Nat /\ d.matches \in Nat
        BY <4>6 DEF Depths
      <4>8. Moves(tree, had_error', d, item, d)
        BY <4>1, <4>4, <4>5, <4>6, <4>7 DEF Moves
      <4> QED
        BY <4>8 DEF item, d
    <3> HIDE DEF s
    <3> QED
      BY <2>12, <3>2, <3>3, RunStill
  <2> HIDE DEF s, t
  <2>15. Run(tree, had_error', Deep', s \o t, Up(b, 1))
    BY <2>13, <2>14, RunCat
  <2> QED
    BY <1>4, <2>2, <2>3, <2>4, <2>7, <2>8, <2>15, Replaces
<1> QED
  BY <1>2, <1>3, <1>4

\* A match in progress with other fields in place of some.
LEMMA FrameChanges ==
  ASSUME NEW f, f = [scrutinee |-> f.scrutinee, result |-> f.result, valid |-> f.valid,
                 seen |-> f.seen, unguarded |-> f.unguarded, arms |-> f.arms],
         NEW x
  PROVE  /\ [f EXCEPT !.result = x] =
                [scrutinee |-> f.scrutinee, result |-> x, valid |-> f.valid,
                 seen |-> f.seen, unguarded |-> f.unguarded, arms |-> f.arms]
         /\ [f EXCEPT !.valid = x] =
                [scrutinee |-> f.scrutinee, result |-> f.result, valid |-> x,
                 seen |-> f.seen, unguarded |-> f.unguarded, arms |-> f.arms]
         /\ [f EXCEPT !.seen = x] =
                [scrutinee |-> f.scrutinee, result |-> f.result, valid |-> f.valid,
                 seen |-> x, unguarded |-> f.unguarded, arms |-> f.arms]
         /\ [f EXCEPT !.unguarded = x] =
                [scrutinee |-> f.scrutinee, result |-> f.result, valid |-> f.valid,
                 seen |-> f.seen, unguarded |-> x, arms |-> f.arms]
         /\ [f EXCEPT !.arms = x] =
                [scrutinee |-> f.scrutinee, result |-> f.result, valid |-> f.valid,
                 seen |-> f.seen, unguarded |-> f.unguarded, arms |-> x]
  OBVIOUS

\* A frame that has seen one arm more.
LEMMA FrameSeen ==
  ASSUME NEW f, f = [scrutinee |-> f.scrutinee, result |-> f.result, valid |-> f.valid,
                 seen |-> f.seen, unguarded |-> f.unguarded, arms |-> f.arms],
         NEW a, NEW b, NEW c
  PROVE  [f EXCEPT !.seen = a, !.unguarded = b, !.valid = c] =
                [scrutinee |-> f.scrutinee, result |-> f.result, valid |-> c,
                 seen |-> a, unguarded |-> b, arms |-> f.arms]
<1> DEFINE f1 == [f EXCEPT !.seen = a]
           f2 == [f1 EXCEPT !.unguarded = b]
           f3 == [f2 EXCEPT !.valid = c]
<1>1. [f EXCEPT !.seen = a, !.unguarded = b, !.valid = c] = f3
  OBVIOUS
<1>2. f1 = [scrutinee |-> f.scrutinee, result |-> f.result, valid |-> f.valid,
                 seen |-> a, unguarded |-> f.unguarded, arms |-> f.arms]
  BY FrameChanges
<1> HIDE DEF f1
<1>3. f2 = [scrutinee |-> f.scrutinee, result |-> f.result, valid |-> f.valid,
                 seen |-> a, unguarded |-> b, arms |-> f.arms]
  BY <1>2, FrameChanges
<1> HIDE DEF f2
<1>4. f3 = [scrutinee |-> f.scrutinee, result |-> f.result, valid |-> c,
                 seen |-> a, unguarded |-> b, arms |-> f.arms]
  BY <1>3, FrameChanges
<1> QED
  BY <1>1, <1>4

\* An arm that is seen.
LEMMA SeeingIs ==
  ASSUME AnalyzerInv, Goes, Len(matching) # 0, NEW arm
  PROVE  /\ Seeing(arm).scrutinee = Frame.scrutinee /\ Seeing(arm).result = Frame.result
         /\ Frame.valid /\ ~Repeats(arm) => Seeing(arm).valid
         /\ Seeing(arm) = [scrutinee |-> Seeing(arm).scrutinee, result |-> Seeing(arm).result,
                           valid |-> Seeing(arm).valid, seen |-> Seeing(arm).seen,
                           unguarded |-> Seeing(arm).unguarded, arms |-> Seeing(arm).arms]
<1>1. Frame = [scrutinee |-> Frame.scrutinee, result |-> Frame.result, valid |-> Frame.valid,
               seen |-> Frame.seen, unguarded |-> Frame.unguarded, arms |-> Frame.arms]
  BY FrameIs DEF IsFrame
<1> DEFINE name == arm.parts[1].text
           a == Frame.seen \cup {name}
           b == IF IsGuarded(arm) THEN Frame.unguarded ELSE Frame.unguarded \cup {name}
<1>2. PICK c : c = (Frame.valid /\ ~Repeats(arm))
  OBVIOUS
<1>3. Seeing(arm) = [Frame EXCEPT !.seen = a, !.unguarded = b, !.valid = c]
  BY <1>2 DEF Seeing
<1>4. Frame.valid /\ ~Repeats(arm) => c
  BY <1>2, Zenon
<1> HIDE DEF a, b
<1>5. Seeing(arm) = [scrutinee |-> Frame.scrutinee, result |-> Frame.result, valid |-> c,
                     seen |-> a, unguarded |-> b, arms |-> Frame.arms]
  BY <1>1, <1>3, FrameSeen
<1>6. /\ Seeing(arm).scrutinee = Frame.scrutinee /\ Seeing(arm).result = Frame.result
      /\ Seeing(arm).valid = c /\ Seeing(arm).seen = a /\ Seeing(arm).unguarded = b
      /\ Seeing(arm).arms = Frame.arms
  BY <1>5
<1>7. Frame.valid /\ ~Repeats(arm) => Seeing(arm).valid
  BY <1>4, <1>6, Zenon
<1> QED
  BY <1>5, <1>6, <1>7

\* A frame that is no longer valid, once an error was reported.
LEMMA InvalidFits ==
  ASSUME NEW t, NEW f, Good(TRUE, f.scrutinee), Good(TRUE, f.result), HasVariants(t, f.scrutinee),
         f = [scrutinee |-> f.scrutinee, result |-> f.result, valid |-> f.valid,
              seen |-> f.seen, unguarded |-> f.unguarded, arms |-> f.arms]
  PROVE  IsFrame(TRUE, t, [f EXCEPT !.valid = FALSE])
<1> DEFINE u == [f EXCEPT !.valid = FALSE]
<1>1. PICK c : c = FALSE
  OBVIOUS
<1>2. u = [f EXCEPT !.valid = c]
  BY <1>1
<1> HIDE DEF u
<1>3. u = [scrutinee |-> f.scrutinee, result |-> f.result, valid |-> c,
           seen |-> f.seen, unguarded |-> f.unguarded, arms |-> f.arms]
  BY <1>2, FrameChanges
<1>4. IsFrame(TRUE, t, u)
  BY <1>3 DEF IsFrame
<1> QED
  BY <1>4 DEF u

\* An arm that does not fit is reported, and its match is valid no more.
LEMMA RefuseArmFits ==
  ASSUME AnalyzerInv, RefuseArm
  PROVE  AnalyzerInv'
<1> DEFINE arm == At(Item.at)
           variants == VariantsOf(Frame.scrutinee)
           before == IF VariantOf(variants, arm.parts[1].text) = 0 THEN Frame ELSE Seeing(arm)
           frame == [before EXCEPT !.valid = FALSE]
<1>1. /\ Doing("arm") /\ matching' = Reframed(frame) /\ Leaves(<<>>) /\ Checks(FALSE)
      /\ UNCHANGED <<tree, results, symbols, expected, returns, effects, open_loops, tables,
                     facts>>
  BY DEF RefuseArm
<1>2. Len(matching) # 0 /\ Run(tree, had_error, Deep, Tail(todo), Ground)
  BY <1>1, ArmTaken
<1>3. Goes /\ had_error'
  <2>1. tree' = tree
    BY <1>1
  <2> QED
    BY <1>1, <2>1, ChecksGoes
<1>4. had_error' = TRUE
  BY <1>3 DEF Goes
<1>5. IsFrame(had_error', tables, Frame)
  BY <1>2, <1>3, FrameIs
<1>6. before.scrutinee = Frame.scrutinee /\ before.result = Frame.result
      /\ before = [scrutinee |-> before.scrutinee, result |-> before.result,
                   valid |-> before.valid, seen |-> before.seen,
                   unguarded |-> before.unguarded, arms |-> before.arms]
  BY <1>2, <1>3, <1>5, SeeingIs DEF IsFrame
<1> HIDE DEF before
<1>7. IsFrame(had_error', tables, frame)
  BY <1>4, <1>5, <1>6, InvalidFits DEF IsFrame
<1> HIDE DEF frame
<1>8. FramesFit(had_error', tables', matching') /\ Len(matching') = Len(matching)
  BY <1>1, <1>3, <1>7, ReframedFits
<1>9. StacksFit(had_error)'
  <2>1. ScopesFit(had_error', symbols')
    BY <1>1, <1>3, KeptFits
  <2> QED
    BY <1>1, <1>3, <1>8, <2>1, KeptButFrames
<1>10. GoodTypes(had_error', results') /\ TablesFit(tree, had_error', tables')
       /\ FactsFit(had_error', facts')
  BY <1>1, <1>3, KeptFits
<1>11. Deep' = Deep /\ Deep \in Depths
  <2>1. Deep' = Deep
    BY <1>1, <1>8 DEF Deep
  <2> QED
    BY <2>1, DeepIs
<1>12. Run(tree, had_error', Deep', <<>>, Deep)
  BY <1>11, RunNone
<1> QED
  BY <1>1, <1>2, <1>3, <1>9, <1>10, <1>12, Replaces

\* An arm that fits enters a scope, which its close leaves.
LEMMA EnterArmFits ==
  ASSUME AnalyzerInv, EnterArm
  PROVE  AnalyzerInv'
<1> DEFINE arm == At(Item.at)
           bound == ArmBindings(arm, VariantsOf(Frame.scrutinee))
           wanted == IF Frame.result.kind = "Unknown" THEN Nothing ELSE Frame.result
           ok == ~Repeats(arm)
           scope == ScopeOf(Item.at, bound)
           frame == Seeing(arm)
           s == IF IsGuarded(arm) THEN Condition(3) ELSE <<>>
           t == <<Eval(Below(4), wanted), Then("close", Item.at)>>
<1>1. /\ Doing("arm") /\ bound.fits /\ symbols' = Append(symbols, scope)
      /\ matching' = Reframed(frame) /\ Checks(ok) /\ Leaves(s \o t)
      /\ UNCHANGED <<tree, results, expected, returns, effects, open_loops, tables, facts>>
  BY DEF EnterArm
<1>2. /\ Len(matching) # 0 /\ Run(tree, had_error, Deep, Tail(todo), Ground)
      /\ IsArm(arm) /\ Item.at \in Seq(Nat)
  BY <1>1, ArmTaken
<1>3. Goes /\ (~ok => had_error')
  <2> HIDE DEF ok
  <2>1. tree' = tree
    BY <1>1
  <2> QED
    BY <1>1, <2>1, ChecksGoes
<1>4. IsFrame(had_error, tables, Frame) /\ IsFrame(had_error', tables, Frame)
      /\ Len(matching) \in Nat
  BY <1>2, <1>3, FrameIs
<1>5. IsFrame(had_error', tables, frame)
  <2>1. /\ frame.scrutinee = Frame.scrutinee /\ frame.result = Frame.result
        /\ Frame.valid /\ ok => frame.valid
        /\ frame = [scrutinee |-> frame.scrutinee, result |-> frame.result,
                    valid |-> frame.valid, seen |-> frame.seen,
                    unguarded |-> frame.unguarded, arms |-> frame.arms]
    BY <1>2, <1>3, SeeingIs
  <2> HIDE DEF frame, ok
  <2>2. frame.valid \/ had_error'
    <3>1. Frame.valid \/ had_error'
      BY <1>4 DEF IsFrame
    <3> QED
      BY <1>3, <2>1, <3>1
  <2> QED
    BY <1>4, <2>1, <2>2 DEF IsFrame
<1>6. IsScope(had_error', scope)
  <2>1. AreVariants(had_error, VariantsOf(Frame.scrutinee))
    BY <1>4, VariantsAreGood DEF IsFrame
  <2>2. AreBindings(had_error, bound)
    BY <1>1, <1>2, <2>1, ArmBindingsFit
  <2> HIDE DEF bound
  <2>3. IsScope(had_error, scope)
    BY <2>2, ArmScope
  <2> HIDE DEF scope
  <2>4. had_error => had_error'
    BY <1>3 DEF Goes
  <2> QED
    BY <2>3, <2>4, TypesStay DEF IsScope, IsSymbol
<1> HIDE DEF frame, scope, bound, ok
<1>7. FramesFit(had_error', tables', matching') /\ Len(matching') = Len(matching)
  BY <1>1, <1>3, <1>5, ReframedFits
<1>8. ScopesFit(had_error', symbols') /\ Len(symbols') = Len(symbols) + 1
  <2>1. ScopesFit(had_error', symbols)
    BY <1>3, FitStays DEF AnalyzerInv, StacksFit, Goes
  <2> QED
    BY <1>1, <1>6, <2>1, ScopeEnters
<1>9. StacksFit(had_error)'
  BY <1>1, <1>3, <1>7, <1>8, KeptButFrames
<1>10. GoodTypes(had_error', results') /\ TablesFit(tree, had_error', tables')
       /\ FactsFit(had_error', facts')
  BY <1>1, <1>3, KeptFits
<1> DEFINE r == Len(results)
           S == Len(symbols) - 1
           x == Len(expected)
           u == Len(returns)
           l == Len(open_loops)
           m == Len(matching)
<1>11. /\ r \in Nat /\ S \in Nat /\ x \in Nat /\ u \in Nat /\ l \in Nat /\ m \in Nat /\ m # 0
       /\ Deep = Depth(r, S, x, u, l, m)
  BY <1>2, DeepIs
<1>12. Deep' = Depth(r, S + 1, x, u, l, m)
  <2>1. (Len(symbols) + 1) - 1 = S + 1
    <3>1. Len(symbols) \in Nat
      BY SomeScope
    <3> QED
      BY <3>1
  <2> QED
    BY <1>1, <1>7, <1>8, <2>1 DEF Deep
<1> HIDE DEF r, S, x, u, l, m
<1>13. /\ Deep' \in Depths
       /\ Up(Deep', 1) = Depth(r + 1, S + 1, x, u, l, m)
  <2> DEFINE d == Deep'
  <2>1. d \in Depths /\ d.results = r /\ d.scopes = S + 1 /\ d.expected = x /\ d.returns = u
        /\ d.loops = l /\ d.matches = m
    BY <1>11, <1>12 DEF Depth, Depths
  <2> HIDE DEF d
  <2>2. Up(d, 1) = Depth(d.results + 1, d.scopes, d.expected, d.returns, d.loops, d.matches)
    <3>1. 1 \in Nat
      OBVIOUS
    <3> QED
      BY <2>1, <3>1, UpIsDepth
  <2> QED
    BY <2>1, <2>2 DEF d
<1>14. Run(tree, had_error', Deep', t, Deep)
  <2>1. GoodOr(had_error', wanted)
    BY <1>4 DEF IsFrame, GoodOr
  <2>2. Here[4] \in Exprs /\ 4 \in Nat
    BY <1>2 DEF IsArm, Here
  <2> HIDE DEF wanted
  <2>3. Moves(tree, had_error', Deep', Eval(Below(4), wanted), Up(Deep', 1))
    BY <1>2, <1>13, <2>1, <2>2, EvalBelow
  <2>4. Moves(tree, had_error', Up(Deep', 1), Then("close", Item.at), Deep)
    BY <1>11, <1>13, StackMoves
  <2> QED
    BY <2>3, <2>4, RunTwo
<1>15. Run(tree, had_error', Deep', s, Deep')
  <2>1. CASE IsGuarded(arm)
    <3>1. Here[3] \in Exprs /\ 3 \in Nat
      BY <1>2, <2>1 DEF IsArm, IsGuarded, Here, OrAbsent
    <3>2. Run(tree, had_error', Deep', Condition(3), Deep')
      BY <1>2, <1>13, <3>1, ConditionBelow
    <3> QED
      BY <2>1, <3>2
  <2>2. CASE ~IsGuarded(arm)
    BY <1>13, <2>2, RunNone
  <2> QED
    BY <2>1, <2>2
<1> HIDE DEF s, t
<1>16. Run(tree, had_error', Deep', s \o t, Deep)
  BY <1>14, <1>15, RunCat
<1> QED
  BY <1>1, <1>2, <1>3, <1>9, <1>10, <1>16, Replaces

\* The type of an arm is taken into the frame.
LEMMA CloseArmFits ==
  ASSUME AnalyzerInv, CloseArm
  PROVE  AnalyzerInv'
<1> DEFINE type == Result(0)
           result == IF Frame.result.kind = "Unknown" THEN type ELSE Frame.result
           fits == type.kind = "Unknown" \/ IsAssignable(result, type)
           arms == Append(Frame.arms, ArmInfo(At(Item.at), type))
<1>1. PICK valid : valid = (Frame.valid /\ fits)
  OBVIOUS
<1> DEFINE frame == [Frame EXCEPT !.result = result, !.valid = valid, !.arms = arms]
<1>2. /\ Doing("close") /\ matching' = Reframed(frame) /\ Checks(fits)
      /\ symbols' = Front(symbols) /\ Gives(1, <<>>) /\ Leaves(<<>>)
      /\ UNCHANGED <<tree, expected, returns, effects, open_loops, tables, facts>>
  BY <1>1 DEF CloseArm
<1>3. PICK m : /\ Run(tree, had_error, m, Tail(todo), Ground)
               /\ Len(symbols) - 1 # 0 /\ Len(matching) # 0 /\ Len(results) # 0
               /\ m = Depth((Len(results) - 1) + 0, Len(symbols) - 1 - 1, Len(expected) - 0,
                            Len(returns) - 0, Len(open_loops) - 0, Len(matching) - 0)
  BY <1>2, HeadStack
<1>4. Goes /\ (~fits => had_error')
  <2> HIDE DEF fits, frame
  <2>1. tree' = tree
    BY <1>2
  <2> QED
    BY <1>2, <2>1, ChecksGoes
<1>5. IsFrame(had_error, tables, Frame) /\ IsFrame(had_error', tables, Frame)
  BY <1>3, <1>4, FrameIs
<1>6. Len(results) \in Nat /\ Len(symbols) \in Nat /\ Len(symbols) >= 1
  BY DeepIs, SomeScope
<1>7. Good(had_error', type)
  <2>1. 1 <= Len(results) /\ 1 \in Nat /\ 1 >= 1
    BY <1>3, <1>6
  <2>2. Good(had_error, type)
    BY <2>1, TakenAreGood
  <2> HIDE DEF type
  <2> QED
    BY <1>4, <2>2, TypesStay DEF Goes
<1>8. Good(had_error', result)
  BY <1>5, <1>7 DEF IsFrame
<1>9. valid \/ had_error'
  <2>1. Frame.valid \/ had_error'
    BY <1>5 DEF IsFrame
  <2>2. fits \/ had_error'
    BY <1>4
  <2> HIDE DEF fits
  <2> QED
    BY <1>1, <2>1, <2>2, Zenon
<1> HIDE DEF fits, result, type, arms
<1>10. IsFrame(had_error', tables, frame)
  <2>1. Frame = [scrutinee |-> Frame.scrutinee, result |-> Frame.result, valid |-> Frame.valid,
                 seen |-> Frame.seen, unguarded |-> Frame.unguarded, arms |-> Frame.arms]
    BY <1>5 DEF IsFrame
  <2>2. frame = [scrutinee |-> Frame.scrutinee, result |-> result, valid |-> valid,
                 seen |-> Frame.seen, unguarded |-> Frame.unguarded, arms |-> arms]
    <3>1. PICK f : f = Frame
      OBVIOUS
    <3>2. f = [scrutinee |-> f.scrutinee, result |-> f.result, valid |-> f.valid,
               seen |-> f.seen, unguarded |-> f.unguarded, arms |-> f.arms]
      BY <2>1, <3>1
    <3> DEFINE f1 == [f EXCEPT !.result = result]
               f2 == [f1 EXCEPT !.valid = valid]
               f3 == [f2 EXCEPT !.arms = arms]
    <3>3. frame = f3
      BY <3>1
    <3>4. f1 = [scrutinee |-> f.scrutinee, result |-> result, valid |-> f.valid,
                seen |-> f.seen, unguarded |-> f.unguarded, arms |-> f.arms]
      BY <3>2, FrameChanges
    <3> HIDE DEF f1, frame
    <3>5. f2 = [scrutinee |-> f.scrutinee, result |-> result, valid |-> valid,
                seen |-> f.seen, unguarded |-> f.unguarded, arms |-> f.arms]
      BY <3>4, FrameChanges
    <3> HIDE DEF f2
    <3>6. /\ f2.scrutinee = f.scrutinee /\ f2.result = result /\ f2.valid = valid
          /\ f2.seen = f.seen /\ f2.unguarded = f.unguarded /\ f2.arms = f.arms
      BY <3>5
    <3>7. f2 = [scrutinee |-> f2.scrutinee, result |-> f2.result, valid |-> f2.valid,
                seen |-> f2.seen, unguarded |-> f2.unguarded, arms |-> f2.arms]
      BY <3>5, <3>6
    <3>8. f3 = [scrutinee |-> f2.scrutinee, result |-> f2.result, valid |-> f2.valid,
                seen |-> f2.seen, unguarded |-> f2.unguarded, arms |-> arms]
      BY <3>7, FrameChanges
    <3>9. f3 = [scrutinee |-> f.scrutinee, result |-> result, valid |-> valid,
                seen |-> f.seen, unguarded |-> f.unguarded, arms |-> arms]
      BY <3>6, <3>8
    <3> QED
      BY <3>1, <3>3, <3>9
  <2> HIDE DEF frame
  <2> QED
    BY <1>5, <1>8, <1>9, <2>2 DEF IsFrame
<1> HIDE DEF frame
<1>11. FramesFit(had_error', tables', matching') /\ Len(matching') = Len(matching)
  BY <1>2, <1>4, <1>10, ReframedFits
<1>12. ScopesFit(had_error', symbols') /\ Len(symbols') = Len(symbols) - 1
  <2>1. ScopesFit(had_error', symbols)
    BY <1>4, FitStays DEF AnalyzerInv, StacksFit, Goes
  <2>2. Len(symbols) # 0
    BY <1>6
  <2> QED
    BY <1>2, <2>1, <2>2, ScopeLeaves
<1>13. StacksFit(had_error)'
  BY <1>2, <1>4, <1>11, <1>12, KeptButFrames
<1>14. GoodTypes(had_error', results') /\ Len(results') = (Len(results) - 1) + 0
  <2>1. GoodTypes(had_error', <<>>) /\ Len(<<>>) = 0 /\ 1 \in Nat /\ 1 <= Len(results)
    BY <1>3, <1>6, GoodFew
  <2> QED
    BY <1>2, <1>4, <2>1, GivenGood
<1>15. TablesFit(tree, had_error', tables') /\ FactsFit(had_error', facts')
  BY <1>2, <1>4, KeptFits
<1>16. Deep' = m /\ Deep' \in Depths
  <2>1. /\ Len(results) \in Nat /\ Len(symbols) - 1 \in Nat /\ Len(expected) \in Nat
        /\ Len(returns) \in Nat /\ Len(open_loops) \in Nat /\ Len(matching) \in Nat
    BY DeepIs
  <2>2. /\ Len(symbols) - 1 - 1 \in Nat /\ Len(expected) - 0 = Len(expected)
        /\ Len(open_loops) - 0 = Len(open_loops) /\ Len(returns) - 0 = Len(returns)
        /\ Len(matching) - 0 = Len(matching) /\ (Len(results) - 1) + 0 \in Nat
    <3>1. \A a \in Nat : a - 0 = a /\ (a # 0 => a - 1 \in Nat /\ (a - 1) + 0 \in Nat)
      OBVIOUS
    <3> QED
      BY <1>3, <2>1, <3>1
  <2>3. Deep' = Depth((Len(results) - 1) + 0, Len(symbols) - 1 - 1, Len(expected), Len(returns),
                      Len(open_loops), Len(matching))
    BY <1>2, <1>11, <1>12, <1>14 DEF Deep
  <2>4. Deep' = m
    BY <1>3, <2>2, <2>3
  <2> QED
    BY <2>1, <2>2, <2>3, <2>4 DEF Depth, Depths
<1>17. Run(tree, had_error', Deep', <<>>, m)
  BY <1>16, RunNone
<1> QED
  BY <1>2, <1>3, <1>4, <1>13, <1>14, <1>15, <1>17, Replaces

\* A match leaves its frame, and is an error unless it is valid and covered.
LEMMA ConcludeFits ==
  ASSUME AnalyzerInv, Conclude
  PROVE  AnalyzerInv'
<1> DEFINE variants == VariantsOf(Frame.scrutinee)
           covered == \A i \in DOMAIN variants : variants[i].name \in Frame.seen
           type == IF Frame.valid /\ covered THEN Frame.result ELSE Error
           x == Extended(facts.matches, Item.at,
                         [kind |-> Frame.scrutinee.kind, result |-> Frame.result,
                          seen |-> Frame.seen, arms |-> Frame.arms])
<1>1. /\ Doing("conclude") /\ facts' = [facts EXCEPT !.matches = x] /\ Checks(covered)
      /\ Gives(0, <<type>>) /\ matching' = Front(matching) /\ Leaves(<<>>)
      /\ UNCHANGED <<tree, symbols, expected, returns, effects, open_loops, tables>>
  BY DEF Conclude
<1>2. PICK m : /\ Run(tree, had_error, m, Tail(todo), Ground)
               /\ Len(matching) # 0
               /\ m = Depth((Len(results) - 0) + 1, Len(symbols) - 1 - 0, Len(expected) - 0,
                            Len(returns) - 0, Len(open_loops) - 0, Len(matching) - 1)
  BY <1>1, HeadStack
<1> HIDE DEF x
<1>3. Goes /\ (~covered => had_error')
  <2> HIDE DEF covered, type
  <2>1. tree' = tree
    BY <1>1
  <2> QED
    BY <1>1, <2>1, ChecksGoes
<1>4. IsFrame(had_error', tables, Frame)
  BY <1>2, <1>3, FrameIs
<1>5. Good(had_error', type)
  <2> HIDE DEF covered
  <2>1. CASE Frame.valid /\ covered
    BY <1>4, <2>1 DEF IsFrame
  <2>2. CASE ~(Frame.valid /\ covered)
    <3>1. had_error'
      BY <1>3, <1>4, <2>2 DEF IsFrame
    <3> QED
      BY <2>2, <3>1, GoodOf
  <2> QED
    BY <2>1, <2>2
<1> HIDE DEF covered, type
<1>6. FramesFit(had_error', tables', matching') /\ Len(matching') = Len(matching) - 1
  <2>1. FramesFit(had_error', tables, matching)
    BY <1>3, FitStays DEF AnalyzerInv, StacksFit, Goes
  <2> QED
    BY <1>1, <1>2, <2>1, FrameLeaves
<1>7. StacksFit(had_error)'
  <2>1. ScopesFit(had_error', symbols')
    BY <1>1, <1>3, KeptFits
  <2> QED
    BY <1>1, <1>3, <1>6, <2>1, KeptButFrames
<1>8. GoodTypes(had_error', results') /\ Len(results') = (Len(results) - 0) + 1
  <2>1. GoodTypes(had_error', <<type>>) /\ Len(<<type>>) = 1 /\ 0 \in Nat /\ 0 <= Len(results)
    BY <1>5, GoodFew, DeepIs
  <2> QED
    BY <1>1, <1>3, <2>1, GivenGood
<1>9. TablesFit(tree, had_error', tables')
  BY <1>1, <1>3, KeptFits
<1>10. FactsFit(had_error', facts')
  <2>1. FactsFit(had_error', facts)
    BY <1>3, FitStays DEF AnalyzerInv, Goes
  <2>2. facts' = [types |-> facts.types, matches |-> x, loops |-> facts.loops,
                  vectors |-> facts.vectors]
    BY <1>1, <2>1 DEF FactsFit
  <2> QED
    BY <2>1, <2>2 DEF FactsFit
<1>11. Deep' = m /\ Deep' \in Depths
  <2>1. /\ Len(results) \in Nat /\ Len(symbols) - 1 \in Nat /\ Len(expected) \in Nat
        /\ Len(returns) \in Nat /\ Len(open_loops) \in Nat /\ Len(matching) \in Nat
    BY DeepIs
  <2>2. /\ Len(symbols) - 1 - 0 = Len(symbols) - 1 /\ Len(expected) - 0 = Len(expected)
        /\ Len(open_loops) - 0 = Len(open_loops) /\ Len(returns) - 0 = Len(returns)
        /\ Len(matching) - 1 \in Nat /\ (Len(results) - 0) + 1 \in Nat
    <3>1. \A a \in Nat : a - 0 = a /\ (a - 0) + 1 \in Nat /\ (a # 0 => a - 1 \in Nat)
      OBVIOUS
    <3> QED
      BY <1>2, <2>1, <3>1
  <2>3. Deep' = Depth((Len(results) - 0) + 1, Len(symbols) - 1, Len(expected), Len(returns),
                      Len(open_loops), Len(matching) - 1)
    BY <1>1, <1>6, <1>8 DEF Deep
  <2>4. Deep' = m
    BY <1>2, <2>2, <2>3
  <2> QED
    BY <2>1, <2>2, <2>3, <2>4 DEF Depth, Depths
<1>12. Run(tree, had_error', Deep', <<>>, m)
  BY <1>11, RunNone
<1> QED
  BY <1>1, <1>2, <1>3, <1>7, <1>8, <1>9, <1>10, <1>12, Replaces

\* The steps of matches.
LEMMA MatchStepFits ==
  ASSUME AnalyzerInv, MatchStep
  PROVE  AnalyzerInv'
  BY MatchFits, OpenFits, RefuseArmFits, EnterArmFits, CloseArmFits, ConcludeFits DEF MatchStep

-----------------------------------------------------------------------------
(* The start, and every step.                                                 *)

\* One of the three passes over the statements of a program.
LEMMA PassRuns ==
  ASSUME tree \in Sources, NEW e, NEW d \in Depths,
         NEW what \in {"declare", "sign", "visit"},
         NEW s, s = [i \in DOMAIN tree.parts |-> Then(what, <<i>>)]
  PROVE  Run(tree, e, d, s, d)
<1> DEFINE parts == tree.parts
<1>1. IsSeq(parts) /\ \A i \in DOMAIN parts : parts[i] \in Stmts /\ i \in Nat
  <2>1. parts \in Seq(Stmts)
    BY SourcesAssumption DEF ListOf
  <2> HIDE DEF parts
  <2> QED
    BY <2>1, SeqIn
<1>2. \A i \in DOMAIN parts : Leads(tree, <<i>>, Stmts)
  <2> TAKE i \in DOMAIN parts
  <2>1. <<>> \in Seq(Nat) /\ i \in Nat /\ Append(<<>>, i) = <<i>>
    BY <1>1
  <2>2. <<i>> \in Seq(Nat) /\ NodeAt(tree, <<i>>) = NodeAt(tree, <<>>).parts[i]
    BY <2>1, NodeAtPart
  <2>3. NodeAt(tree, <<i>>) = parts[i]
    BY <2>2, NodeAtRoot
  <2> HIDE DEF parts
  <2> QED
    BY <1>1, <2>2, <2>3 DEF Leads
<1>3. s = [i \in DOMAIN parts |-> Then(what, <<i>>)]
  OBVIOUS
<1> HIDE DEF parts
<1>4. IsSeq(s) /\ DOMAIN s = DOMAIN parts
  <2>1. s = [i \in DOMAIN parts |-> s[i]]
    BY <1>3
  <2> QED
    BY <1>1, <2>1, MadeIs
<1>5. ASSUME NEW i \in DOMAIN s, NEW k \in Depths
      PROVE  Moves(tree, e, k, s[i], Up(k, 0))
  <2>1. s[i] = Then(what, <<i>>) /\ Leads(tree, <<i>>, Stmts)
    BY <1>2, <1>3, <1>4
  <2>2. CASE what = "visit"
    <3>1. s[i] = Visit(<<i>>)
      BY <2>1, <2>2 DEF Visit
    <3> QED
      BY <2>1, <3>1, VisitMoves
  <2>3. CASE what \in {"declare", "sign"}
    <3> DEFINE item == s[i]
    <3>1. item.do = what /\ item.at = <<i>>
      BY <2>1 DEF Then
    <3> HIDE DEF item
    <3>2. IsPlain(item) /\ Takes(tree, item) = 0 /\ Puts(tree, item) = 0
      BY <2>3, <3>1 DEF IsPlain, Takes, Puts
    <3>3. Fits(tree, e, item)
      BY <2>1, <2>3, <3>1 DEF Fits
    <3>4. Moves(tree, e, k, item, Up(k, 0))
      BY <3>2, <3>3, PlainMoves
    <3> QED
      BY <3>4 DEF item
  <2> QED
    BY <2>2, <2>3
<1>6. Each(tree, e, s, 0)
  BY <1>5 DEF Each
<1> QED
  BY <1>4, <1>6, RunSilent

\* The invariant at the start.
LEMMA StartFits ==
  ASSUME AnalyzerInit
  PROVE  AnalyzerInv
<1> DEFINE a == [i \in DOMAIN tree.parts |-> Then("declare", <<i>>)]
           b == [i \in DOMAIN tree.parts |-> Then("sign", <<i>>)]
           c == [i \in DOMAIN tree.parts |-> Then("visit", <<i>>)]
<1>1. /\ tree \in Sources /\ todo = a \o b \o c
      /\ results = <<>> /\ symbols = <<Empty>> /\ expected = <<>> /\ returns = <<>>
      /\ effects = <<>> /\ open_loops = <<>> /\ matching = <<>>
      /\ tables = [records |-> Empty, enums |-> Empty, aliases |-> Empty, arities |-> Empty,
                   generics |-> {}, module |-> Nothing, imports |-> {}, next_enum |-> 0]
      /\ facts = [types |-> Empty, matches |-> Empty, loops |-> Empty, vectors |-> {}]
      /\ had_error = FALSE
  BY DEF AnalyzerInit
<1>2. DOMAIN Empty = {}
  BY DEF Empty
<1>3. Ground \in Depths /\ Deep = Ground
  <2>1. Len(<<>>) = 0 /\ Len(<<Empty>>) - 1 = 0
    OBVIOUS
  <2> QED
    BY <1>1, <2>1 DEF Ground, Deep, Depths, Depth
<1>4. Run(tree, had_error, Ground, todo, Ground)
  <2>1. /\ Run(tree, had_error, Ground, a, Ground) /\ Run(tree, had_error, Ground, b, Ground)
        /\ Run(tree, had_error, Ground, c, Ground)
    BY <1>1, <1>3, PassRuns
  <2> HIDE DEF a, b, c
  <2>2. Run(tree, had_error, Ground, a \o b, Ground)
    BY <2>1, RunCat
  <2> QED
    BY <1>1, <2>1, <2>2, RunCat
<1>5. /\ GoodTypes(had_error, <<>>) /\ IsSeq(<<>>) /\ DOMAIN <<>> = {}
  BY GoodFew DEF GoodTypes
<1>6. ScopesFit(had_error, symbols)
  <2>1. <<Empty>> \in Seq({Empty}) /\ \A i \in DOMAIN <<Empty>> : <<Empty>>[i] = Empty
    OBVIOUS
  <2>2. IsSeq(<<Empty>>)
    BY <2>1, SeqIn
  <2> QED
    BY <1>1, <1>2, <2>1, <2>2 DEF ScopesFit, IsScope
<1>7. StacksFit(had_error)
  BY <1>1, <1>5, <1>6 DEF StacksFit, ExpectedFit, FramesFit
<1>8. TablesFit(tree, had_error, tables)
  BY <1>1, <1>2 DEF TablesFit
<1>9. FactsFit(had_error, facts)
  BY <1>1, <1>2 DEF FactsFit
<1> QED
  BY <1>1, <1>3, <1>4, <1>5, <1>7, <1>8, <1>9 DEF AnalyzerInv

\* The invariant over every step.
LEMMA NextFits ==
  ASSUME AnalyzerInv, [AnalyzerNext]_analyzerVars
  PROVE  AnalyzerInv'
<1>1. CASE AnalyzerNext
  BY <1>1, WorkFits, FunctionStepFits, StatementStepFits, DeclarationStepFits, TypeStepFits,
     ExpressionStepFits, MatchStepFits DEF AnalyzerNext
<1>2. CASE UNCHANGED analyzerVars
  BY <1>2 DEF analyzerVars, stacks, AnalyzerInv, StacksFit, Deep
<1> QED
  BY <1>1, <1>2

\* The invariant of the analyzer.
THEOREM AnalyzerInvariant == AnalyzerSpec => []AnalyzerInv
<1>1. AnalyzerInit => AnalyzerInv
  BY StartFits
<1>2. AnalyzerInv /\ [AnalyzerNext]_analyzerVars => AnalyzerInv'
  BY NextFits
<1> QED
  BY <1>1, <1>2, PTL DEF AnalyzerSpec

\* What is on the stacks and in the tables is no error type before the first report.
LEMMA InvReports ==
  ASSUME AnalyzerInv
  PROVE  ErrorsAreReported
<1>1. CASE had_error
  BY <1>1 DEF ErrorsAreReported
<1>2. CASE ~had_error
  <2>1. \A t : Good(had_error, t) => ~IsErroneous(t)
    <3> TAKE t
    <3>1. SUFFICES ASSUME Good(had_error, t) PROVE ~IsErroneous(t)
      OBVIOUS
    <3>2. t.kind # "Error" /\ GoodTypes(had_error, t.params)
      BY <1>2, <3>1, GoodParts
    <3>3. \A i \in DOMAIN t.params : Good(had_error, t.params[i])
      BY <3>2 DEF GoodTypes
    <3>4. \A i \in DOMAIN t.params : t.params[i].kind # "Error"
      BY <1>2, <3>3, GoodParts
    <3> QED
      BY <3>2, <3>4 DEF IsErroneous
  <2>2. \A i \in DOMAIN results : ~IsErroneous(results[i])
    BY <2>1 DEF AnalyzerInv, GoodTypes
  <2>3. \A path \in DOMAIN facts.types : ~IsErroneous(facts.types[path])
    BY <2>1 DEF AnalyzerInv, FactsFit
  <2>4. \A i \in DOMAIN symbols : \A name \in DOMAIN symbols[i] :
          ~IsErroneous(symbols[i][name].type)
    <3>1. \A i \in DOMAIN symbols : \A name \in DOMAIN symbols[i] :
            Good(had_error, symbols[i][name].type)
      BY DEF AnalyzerInv, StacksFit, ScopesFit, IsScope, IsSymbol
    <3> QED
      BY <2>1, <3>1
  <2> QED
    BY <2>2, <2>3, <2>4 DEF ErrorsAreReported
<1> QED
  BY <1>1, <1>2

\* The analyzer never goes on with the error type unless it has reported an error:
\* the types its visitors hold, those it records and those of its symbols are none.
THEOREM ErrorsAreReportedHolds == AnalyzerSpec => []ErrorsAreReported
<1>1. AnalyzerInv => ErrorsAreReported
  BY InvReports
<1> QED
  BY <1>1, AnalyzerInvariant, PTL

-----------------------------------------------------------------------------
(* Counting the work.                                                         *)

\* Indices, and two sets of them that share none.
AreBelow(K, n) == K \subseteq 1..n
Apart(I, J) == I \cap J = {}
UpTo(K, k) == Cardinality({i \in K : i <= k})

\* The members of a set of indices up to one more index.
LEMMA OneMore ==
  ASSUME NEW n \in Nat, NEW K, AreBelow(K, n)
  PROVE  /\ UpTo(K, 0) = 0 /\ UpTo(K, n) = Cardinality(K) /\ Cardinality(K) \in Nat
         /\ \A k \in 1..n : /\ UpTo(K, k) \in Nat /\ UpTo(K, k - 1) \in Nat
                            /\ UpTo(K, k) = UpTo(K, k - 1) + (IF k \in K THEN 1 ELSE 0)
<1>1. IsFiniteSet(K) /\ Cardinality(K) \in Nat
  <2>1. IsFiniteSet(1..n)
    BY FS_Interval
  <2>2. IsFiniteSet(K)
    BY <2>1, FS_Subset DEF AreBelow
  <2> QED
    BY <2>2, FS_CardinalityType
<1>2. \A i \in K : i \in 1..n /\ i \in Nat /\ i >= 1 /\ i <= n
  BY DEF AreBelow
<1>3. UpTo(K, 0) = 0
  <2>1. \A i \in K : ~(i <= 0)
    BY <1>2
  <2>2. {i \in K : i <= 0} = {}
    BY <2>1
  <2> QED
    BY <2>2, FS_EmptySet DEF UpTo
<1>4. UpTo(K, n) = Cardinality(K)
  <2>1. {i \in K : i <= n} = K
    BY <1>2
  <2> QED
    BY <2>1 DEF UpTo
<1>5. ASSUME NEW k \in 1..n
      PROVE  /\ UpTo(K, k) \in Nat /\ UpTo(K, k - 1) \in Nat
             /\ UpTo(K, k) = UpTo(K, k - 1) + (IF k \in K THEN 1 ELSE 0)
  <2> DEFINE S == {i \in K : i <= k - 1}
             T == {i \in K : i <= k}
  <2>1. S \subseteq K /\ T \subseteq K /\ k \notin S
    BY <1>2
  <2>2. T = IF k \in K THEN S \cup {k} ELSE S
    <3>1. \A i \in K : i <= k <=> (i <= k - 1 \/ i = k)
      BY <1>2
    <3>2. \A i : i \in T <=> (i \in S \/ (i = k /\ k \in K))
      BY <3>1
    <3> HIDE DEF S, T
    <3> QED
      BY <3>2
  <2>3. UpTo(K, k) = Cardinality(T) /\ UpTo(K, k - 1) = Cardinality(S)
    BY DEF UpTo
  <2> HIDE DEF S, T
  <2>4. IsFiniteSet(S) /\ IsFiniteSet(T) /\ Cardinality(S) \in Nat /\ Cardinality(T) \in Nat
    BY <1>1, <2>1, FS_Subset, FS_CardinalityType
  <2>5. Cardinality(S \cup {k}) = Cardinality(S) + 1
    BY <2>1, <2>4, FS_AddElement
  <2> QED
    BY <2>2, <2>3, <2>4, <2>5
<1> QED
  BY <1>1, <1>3, <1>4, <1>5

\* f falls by one at the indices in I, and rises by one at those in J.
FallsAt(f, n, I, J) ==
  \A i \in 1..n : f[i - 1] = f[i] + (IF i \in I THEN 1 ELSE IF i \in J THEN -1 ELSE 0)
AreNumbers(f, n) == \A i \in 0..n : f[i] \in Int

\* A number that falls by one at each index of one set and rises by one at each of
\* another falls by as much as the first set has more indices.
LEMMA Falls ==
  ASSUME NEW n \in Nat, NEW f, AreNumbers(f, n), NEW I, AreBelow(I, n),
         NEW J, AreBelow(J, n), Apart(I, J), FallsAt(f, n, I, J)
  PROVE  f[0] = f[n] + (Cardinality(I) - Cardinality(J))
<1> DEFINE Bad == {k \in 0..n : f[0] # f[k] + (UpTo(I, k) - UpTo(J, k))}
<1>1. 0 \notin Bad
  <2>1. UpTo(I, 0) = 0 /\ UpTo(J, 0) = 0
    BY OneMore
  <2> QED
    BY <2>1 DEF AreNumbers
<1>2. Bad = {}
  <2>1. SUFFICES ASSUME Bad # {} PROVE FALSE
    OBVIOUS
  <2>2. Bad \subseteq Nat
    OBVIOUS
  <2>3. PICK k \in Bad : \A i \in Bad : k <= i
    <3> HIDE DEF Bad
    <3> QED
      BY <2>1, <2>2, LeastMember
  <2>4. k \in 1..n /\ k - 1 \in 0..n /\ k - 1 \notin Bad
    BY <1>1, <2>3
  <2>5. f[0] = f[k - 1] + (UpTo(I, k - 1) - UpTo(J, k - 1))
    BY <2>4
  <2>6. /\ UpTo(I, k) = UpTo(I, k - 1) + (IF k \in I THEN 1 ELSE 0)
        /\ UpTo(J, k) = UpTo(J, k - 1) + (IF k \in J THEN 1 ELSE 0)
        /\ UpTo(I, k) \in Nat /\ UpTo(I, k - 1) \in Nat
        /\ UpTo(J, k) \in Nat /\ UpTo(J, k - 1) \in Nat
    <3> HIDE DEF Bad
    <3>1. \A K : AreBelow(K, n) =>
            /\ UpTo(K, k) = UpTo(K, k - 1) + (IF k \in K THEN 1 ELSE 0)
            /\ UpTo(K, k) \in Nat /\ UpTo(K, k - 1) \in Nat
      <4> TAKE K
      <4>1. SUFFICES ASSUME AreBelow(K, n)
                     PROVE  /\ UpTo(K, k) = UpTo(K, k - 1) + (IF k \in K THEN 1 ELSE 0)
                            /\ UpTo(K, k) \in Nat /\ UpTo(K, k - 1) \in Nat
        OBVIOUS
      <4> QED
        BY <2>4, <4>1, OneMore
    <3> QED
      BY <3>1
  <2>7. /\ f[k - 1] = f[k] + (IF k \in I THEN 1 ELSE IF k \in J THEN -1 ELSE 0)
        /\ f[k] \in Int /\ f[k - 1] \in Int /\ ~(k \in I /\ k \in J)
    BY <2>4 DEF AreNumbers, FallsAt, Apart
  <2>8. f[0] # f[k] + (UpTo(I, k) - UpTo(J, k))
    BY <2>3
  <2> HIDE DEF Bad
  <2> QED
    BY <2>5, <2>6, <2>7, <2>8
<1>3. f[0] = f[n] + (UpTo(I, n) - UpTo(J, n))
  BY <1>2
<1> QED
  BY <1>3, OneMore

\* The items of some steps in some work.
Spots(s, kinds) == {i \in DOMAIN s : s[i].do \in kinds}

\* How far apart the ends of a run are: the items that leave a scope, an expected
\* type, a function, a loop or a match are as many as there are of each to leave.
LEMMA RunCounts ==
  ASSUME NEW root, NEW e, NEW d, NEW s, NEW k, Run(root, e, d, s, k)
  PROVE  /\ d.scopes = k.scopes + Cardinality(Spots(s, {"exit", "leave", "close"}))
         /\ d.expected = k.expected + Cardinality(Spots(s, {"record"}))
         /\ d.returns = k.returns + Cardinality(Spots(s, {"leave"}))
         /\ d.loops = k.loops + (Cardinality(Spots(s, {"leaveLoop"}))
                                   - Cardinality(Spots(s, {"enterLoop"})))
         /\ d.matches = k.matches + Cardinality(Spots(s, {"conclude"}))
<1>1. PICK h : /\ IsSeq(s) /\ d \in Depths /\ h[0] = d /\ h[Len(s)] = k
               /\ \A i \in DOMAIN s : Moves(root, e, h[i - 1], s[i], h[i])
  BY DEF Run
<1> DEFINE n == Len(s)
<1>2. n \in Nat /\ DOMAIN s = 1..n
  BY <1>1, SeqLen
<1>3. \A what : AreBelow(Spots(s, what), n)
  BY <1>2 DEF Spots, AreBelow
<1>4. \A i \in 0..n : h[i] \in Depths
  <2> TAKE i \in 0..n
  <2>1. CASE i = 0
    BY <1>1, <2>1
  <2>2. CASE i # 0
    <3>1. Moves(root, e, h[i - 1], s[i], h[i])
      BY <1>1, <1>2, <2>2
    <3> QED
      BY <3>1 DEF Moves
  <2> QED
    BY <2>1, <2>2
<1>5. \A i \in 0..n : /\ h[i].scopes \in Int /\ h[i].expected \in Int /\ h[i].returns \in Int
                      /\ h[i].loops \in Int /\ h[i].matches \in Int
  <2>1. \A x \in Depths : /\ x.scopes \in Int /\ x.expected \in Int /\ x.returns \in Int
                          /\ x.loops \in Int /\ x.matches \in Int
    BY DEF Depths
  <2> QED
    BY <1>4, <2>1
<1>6. \A i \in 1..n : Moves(root, e, h[i - 1], s[i], h[i])
  BY <1>1, <1>2
<1>7. h[0] = d /\ h[n] = k
  BY <1>1
<1>8. ASSUME NEW f, \A i \in 0..n : f[i] \in Int, NEW kinds,
             \A i \in 1..n : f[i - 1] = f[i] + (IF s[i].do \in kinds THEN 1 ELSE 0)
      PROVE  f[0] = f[n] + Cardinality(Spots(s, kinds))
  <2> DEFINE I == Spots(s, kinds)
  <2>1. \A i \in 1..n : i \in I <=> s[i].do \in kinds
    BY <1>2 DEF Spots
  <2>2. AreBelow(I, n)
    BY <1>3
  <2> HIDE DEF I, n
  <2>3. \A i \in 1..n :
          f[i - 1] = f[i] + (IF i \in I THEN 1 ELSE IF i \in {} THEN -1 ELSE 0)
    BY <1>8, <2>1
  <2>4. f[0] = f[n] + (Cardinality(I) - Cardinality({}))
    <3>1. AreBelow({}, n) /\ Apart(I, {})
      BY DEF AreBelow, Apart
    <3>2. AreNumbers(f, n) /\ FallsAt(f, n, I, {})
      BY <1>8, <2>3 DEF AreNumbers, FallsAt
    <3> QED
      BY <1>2, <2>2, <3>1, <3>2, Falls
  <2>5. Cardinality({}) = 0 /\ Cardinality(I) \in Nat
    BY <1>2, <2>2, FS_EmptySet, OneMore
  <2> QED
    BY <2>4, <2>5 DEF I
<1>9. d.scopes = k.scopes + Cardinality(Spots(s, {"exit", "leave", "close"}))
  <2> DEFINE f == [i \in 0..n |-> h[i].scopes]
  <2>1. \A i \in 1..n :
          f[i - 1] = f[i] + (IF s[i].do \in {"exit", "leave", "close"} THEN 1 ELSE 0)
    <3> TAKE i \in 1..n
    <3>1. Moves(root, e, h[i - 1], s[i], h[i]) /\ i \in 0..n /\ i - 1 \in 0..n
      BY <1>2, <1>6
    <3> QED
      BY <3>1 DEF Moves
  <2>2. \A i \in 0..n : f[i] \in Int
    BY <1>5
  <2>3. f[0] = d.scopes /\ f[n] = k.scopes
    BY <1>2, <1>7
  <2> HIDE DEF f, n
  <2> QED
    BY <1>8, <2>1, <2>2, <2>3
<1>10. d.expected = k.expected + Cardinality(Spots(s, {"record"}))
  <2> DEFINE f == [i \in 0..n |-> h[i].expected]
  <2>1. \A i \in 1..n : f[i - 1] = f[i] + (IF s[i].do \in {"record"} THEN 1 ELSE 0)
    <3> TAKE i \in 1..n
    <3>1. Moves(root, e, h[i - 1], s[i], h[i]) /\ i \in 0..n /\ i - 1 \in 0..n
      BY <1>2, <1>6
    <3> QED
      BY <3>1 DEF Moves
  <2>2. \A i \in 0..n : f[i] \in Int
    BY <1>5
  <2>3. f[0] = d.expected /\ f[n] = k.expected
    BY <1>2, <1>7
  <2> HIDE DEF f, n
  <2> QED
    BY <1>8, <2>1, <2>2, <2>3
<1>11. d.returns = k.returns + Cardinality(Spots(s, {"leave"}))
  <2> DEFINE f == [i \in 0..n |-> h[i].returns]
  <2>1. \A i \in 1..n : f[i - 1] = f[i] + (IF s[i].do \in {"leave"} THEN 1 ELSE 0)
    <3> TAKE i \in 1..n
    <3>1. Moves(root, e, h[i - 1], s[i], h[i]) /\ i \in 0..n /\ i - 1 \in 0..n
      BY <1>2, <1>6
    <3> QED
      BY <3>1 DEF Moves
  <2>2. \A i \in 0..n : f[i] \in Int
    BY <1>5
  <2>3. f[0] = d.returns /\ f[n] = k.returns
    BY <1>2, <1>7
  <2> HIDE DEF f, n
  <2> QED
    BY <1>8, <2>1, <2>2, <2>3
<1>12. d.matches = k.matches + Cardinality(Spots(s, {"conclude"}))
  <2> DEFINE f == [i \in 0..n |-> h[i].matches]
  <2>1. \A i \in 1..n : f[i - 1] = f[i] + (IF s[i].do \in {"conclude"} THEN 1 ELSE 0)
    <3> TAKE i \in 1..n
    <3>1. Moves(root, e, h[i - 1], s[i], h[i]) /\ i \in 0..n /\ i - 1 \in 0..n
      BY <1>2, <1>6
    <3> QED
      BY <3>1 DEF Moves
  <2>2. \A i \in 0..n : f[i] \in Int
    BY <1>5
  <2>3. f[0] = d.matches /\ f[n] = k.matches
    BY <1>2, <1>7
  <2> HIDE DEF f, n
  <2> QED
    BY <1>8, <2>1, <2>2, <2>3
<1>13. d.loops = k.loops + (Cardinality(Spots(s, {"leaveLoop"}))
                              - Cardinality(Spots(s, {"enterLoop"})))
  <2> DEFINE f == [i \in 0..n |-> h[i].loops]
             I == Spots(s, {"leaveLoop"})
             J == Spots(s, {"enterLoop"})
  <2>1. \A i \in 1..n : f[i - 1] = f[i] + (IF i \in I THEN 1 ELSE IF i \in J THEN -1 ELSE 0)
    <3> TAKE i \in 1..n
    <3>1. Moves(root, e, h[i - 1], s[i], h[i]) /\ i \in 0..n /\ i - 1 \in 0..n
      BY <1>2, <1>6
    <3>2. (i \in I <=> s[i].do = "leaveLoop") /\ (i \in J <=> s[i].do = "enterLoop")
      BY <1>2 DEF Spots
    <3> HIDE DEF I, J
    <3> QED
      BY <3>1, <3>2 DEF Moves
  <2>2. \A i \in 0..n : f[i] \in Int
    BY <1>5
  <2>3. f[0] = d.loops /\ f[n] = k.loops
    BY <1>2, <1>7
  <2>4. AreBelow(I, n) /\ AreBelow(J, n)
    BY <1>3
  <2>5. Apart(I, J)
    BY DEF Spots, Apart
  <2> HIDE DEF f, n, I, J
  <2>6. f[0] = f[n] + (Cardinality(I) - Cardinality(J))
    <3>1. AreNumbers(f, n) /\ FallsAt(f, n, I, J)
      BY <2>1, <2>2 DEF AreNumbers, FallsAt
    <3> QED
      BY <1>2, <2>4, <2>5, <3>1, Falls
  <2> QED
    BY <2>3, <2>6 DEF I, J
<1> QED
  BY <1>9, <1>10, <1>11, <1>12, <1>13

\* The depths of the stacks, from the work that is left.
LEMMA InvTypes ==
  ASSUME AnalyzerInv
  PROVE  AnalyzerTypeOK
<1>1. Run(tree, had_error, Deep, todo, Ground)
  BY DEF AnalyzerInv
<1>2. \A kinds : HowMany(kinds) = Cardinality(Spots(todo, kinds))
  BY DEF HowMany, Spots
<1>3. /\ Deep.results = Len(results) /\ Deep.scopes = Len(symbols) - 1
      /\ Deep.expected = Len(expected) /\ Deep.returns = Len(returns)
      /\ Deep.loops = Len(open_loops) /\ Deep.matches = Len(matching)
  BY DEF Deep, Depth
<1>4. /\ Ground.results = 0 /\ Ground.scopes = 0 /\ Ground.expected = 0
      /\ Ground.returns = 0 /\ Ground.loops = 0 /\ Ground.matches = 0
  BY DEF Ground, Depth
<1>5. /\ Len(symbols) - 1 = 0 + HowMany({"exit", "leave", "close"})
      /\ Len(expected) = 0 + HowMany({"record"})
      /\ Len(returns) = 0 + HowMany({"leave"})
      /\ Len(open_loops) = 0 + (HowMany({"leaveLoop"}) - HowMany({"enterLoop"}))
      /\ Len(matching) = 0 + HowMany({"conclude"})
  BY <1>1, <1>2, <1>3, <1>4, RunCounts
<1>6. \A kinds : HowMany(kinds) \in Nat
  <2> TAKE kinds
  <2>1. Len(todo) \in Nat /\ DOMAIN todo = 1..Len(todo)
    BY <1>1, RunEnd, SeqLen
  <2>2. AreBelow(Spots(todo, kinds), Len(todo))
    BY <2>1 DEF Spots, AreBelow
  <2> QED
    BY <1>2, <2>1, <2>2, OneMore
<1>7. \A i \in DOMAIN results : results[i].kind \in Kinds
  BY GoodParts DEF AnalyzerInv, GoodTypes
<1>8. Analyzed => results = <<>>
  <2>1. SUFFICES ASSUME Analyzed PROVE results = <<>>
    OBVIOUS
  <2>2. PICK h : h[0] = Deep /\ h[Len(todo)] = Ground
    BY <1>1 DEF Run
  <2>3. Len(todo) = 0
    BY <2>1 DEF Analyzed
  <2>4. Len(results) = 0
    BY <1>3, <1>4, <2>2, <2>3
  <2>5. results \in Seq(Range(results))
    BY DEF AnalyzerInv, GoodTypes, IsSeq
  <2> QED
    BY <2>4, <2>5
<1>9. Len(symbols) \in Nat
  BY SomeScope
<1> QED
  BY <1>5, <1>6, <1>7, <1>8, <1>9 DEF AnalyzerTypeOK, AnalyzerInv, StacksFit

\* The stacks the analyzer keeps by hand are as deep as the work left says, whatever
\* error paths it took, and what is on them when it ends is what it started with.
THEOREM StacksAreBalanced == AnalyzerSpec => []AnalyzerTypeOK
<1>1. AnalyzerInv => AnalyzerTypeOK
  BY InvTypes
<1> QED
  BY <1>1, AnalyzerInvariant, PTL
=============================================================================
