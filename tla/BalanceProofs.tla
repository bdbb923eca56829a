---------------------------- MODULE BalanceProofs ----------------------------
(* What the visitors push and pop (Lowering), for every program: results of    *)
(* expressions (vals), open loops (loops) and pattern scopes (scopes).  Each   *)
(* item of work is known to take and to give; BalanceInv says that the work    *)
(* that is left takes back exactly what is there.                              *)
EXTENDS LoweringProofs

\* The items that take some of the results, or of the open pattern scopes, and
\* what each leaves there once it is done, whatever it is replaced by.
Takes(which, item) ==
  IF which = "scopes"
  THEN IF item.do = "exitScope" THEN 1 ELSE 0
  ELSE CASE item.do = "forget" -> item.n
         [] item.do = "call" -> Len(item.node.args)
         [] item.do = "variant" -> IF item.node.payload = Nil THEN 0 ELSE 1
         [] item.do = "operate" -> 2
         [] item.do \in {"jumpOn", "bindTo", "branch", "toR0", "require", "negate", "assignTo",
                         "make", "note", "dispatch", "copyTo"} -> 1
         [] OTHER -> 0

Gives(which, item) ==
  IF /\ which = "vals"
     /\ \/ item.do = "visit" /\ item.node \in Exprs
        \/ item.do \in {"yield", "operate", "require", "negate", "assignTo", "make", "zero",
                        "call", "fresh", "variant", "dispatch"}
  THEN 1 ELSE 0

\* An item takes what is there and leaves a height of m.
Moves(which, n, item, m) ==
  /\ n \in Nat /\ m \in Nat /\ Takes(which, item) \in Nat
  /\ Takes(which, item) <= n
  /\ m = n - Takes(which, item) + Gives(which, item)

\* From a height of n the items, done in order, lead to a height of m.
Heights(which, n, items, m) ==
  \E h : /\ n \in Nat /\ h[0] = n /\ h[Len(items)] = m
         /\ \A i \in DOMAIN items : Moves(which, h[i - 1], items[i], h[i])

\* What an item leaves of the open loops.
After(ls, item) ==
  CASE item.do = "pushLoop" -> Append(ls, item.info)
    [] item.do = "popLoop" -> Front(ls)
    [] OTHER -> ls

\* An item that closes a loop finds one.
Turns(a, item, b) ==
  /\ IsSeq(a) /\ b = After(a, item)
  /\ item.do = "popLoop" => a # <<>>

\* From the open loops a the items lead to b; a loop is closed right behind the
\* LABEL of its exit.
Nests(a, items, b) ==
  \E st : /\ IsSeq(a) /\ st[0] = a /\ st[Len(items)] = b
          /\ \A i \in DOMAIN items :
               /\ Turns(st[i - 1], items[i], st[i])
               /\ i > 1 /\ items[i].do = "popLoop" =>
                    items[i - 1] = EmitLabel(Last(st[i - 1]).exit)

\* The inductive invariant of the balance.
BalanceInv ==
  /\ IsSeq(vals) /\ IsSeq(scopes)
  /\ Heights("vals", Len(vals), work, 0)
  /\ Heights("scopes", Len(scopes), work, 0)
  /\ Nests(loops, work, <<>>)
  /\ work # <<>> /\ Head(work).do = "popLoop" =>
       code # <<>> /\ code[Len(code)] = LabelInsn(Last(loops).exit)
  /\ status = "done" => work = <<>>

\* Heights are numbers at both ends.
LEMMA HeightsEnd ==
  ASSUME NEW which, NEW n, NEW s, IsSeq(s), NEW m, Heights(which, n, s, m)
  PROVE  n \in Nat /\ m \in Nat
<1>1. PICK h : /\ n \in Nat /\ h[0] = n /\ h[Len(s)] = m
               /\ \A i \in DOMAIN s : Moves(which, h[i - 1], s[i], h[i])
  BY DEF Heights
<1>2. CASE Len(s) = 0
  BY <1>1, <1>2
<1>3. CASE Len(s) # 0
  <2>1. Len(s) \in DOMAIN s
    BY <1>3, SeqLen
  <2> QED
    BY <1>1, <2>1 DEF Moves
<1> QED
  BY <1>2, <1>3

\* Nothing to do leaves the height as it is.
LEMMA HeightsNone ==
  ASSUME NEW which, NEW n \in Nat
  PROVE  Heights(which, n, <<>>, n)
<1> DEFINE h == [i \in {0} |-> n]
<1>1. h[0] = n /\ Len(<<>>) = 0 /\ DOMAIN <<>> = {}
  OBVIOUS
<1> HIDE DEF h
<1> QED
  BY <1>1 DEF Heights

\* One item moves the height as it says.
LEMMA HeightsOne ==
  ASSUME NEW which, NEW n, NEW item, NEW m, Moves(which, n, item, m)
  PROVE  Heights(which, n, <<item>>, m)
<1> DEFINE h == [i \in {0, 1} |-> IF i = 0 THEN n ELSE m]
<1>1. h[0] = n /\ h[1] = m /\ Len(<<item>>) = 1 /\ DOMAIN <<item>> = {1} /\ <<item>>[1] = item
  OBVIOUS
<1> HIDE DEF h
<1>2. n \in Nat /\ \A i \in DOMAIN <<item>> : Moves(which, h[i - 1], <<item>>[i], h[i])
  BY <1>1 DEF Moves
<1> QED
  BY <1>1, <1>2 DEF Heights

\* Two lists of items, one after the other.
LEMMA HeightsCat ==
  ASSUME NEW which, NEW s, NEW t, IsSeq(s), IsSeq(t), NEW n, NEW m, NEW k,
         Heights(which, n, s, m), Heights(which, m, t, k)
  PROVE  Heights(which, n, s \o t, k)
<1>1. PICK f : /\ n \in Nat /\ f[0] = n /\ f[Len(s)] = m
               /\ \A i \in DOMAIN s : Moves(which, f[i - 1], s[i], f[i])
  BY DEF Heights
<1>2. PICK g : /\ m \in Nat /\ g[0] = m /\ g[Len(t)] = k
               /\ \A i \in DOMAIN t : Moves(which, g[i - 1], t[i], g[i])
  BY DEF Heights
<1>3. /\ Len(s) \in Nat /\ Len(t) \in Nat /\ DOMAIN s = 1..Len(s) /\ DOMAIN t = 1..Len(t)
      /\ Len(s \o t) = Len(s) + Len(t)
  BY SeqLen, SeqCat
<1> DEFINE h == [i \in 0..(Len(s) + Len(t)) |-> IF i <= Len(s) THEN f[i] ELSE g[i - Len(s)]]
<1>4. h[0] = n
  BY <1>1, <1>3
<1>5. h[Len(s) + Len(t)] = k
  <2>1. CASE Len(t) = 0
    BY <1>1, <1>2, <1>3, <2>1
  <2>2. CASE Len(t) # 0
    BY <1>2, <1>3, <2>2
  <2> QED
    BY <2>1, <2>2
<1>6. ASSUME NEW i \in DOMAIN (s \o t)
      PROVE  Moves(which, h[i - 1], (s \o t)[i], h[i])
  <2>1. i \in 1..(Len(s) + Len(t))
    BY <1>3, SeqLen, SeqCat
  <2>2. CASE i \in DOMAIN s /\ (s \o t)[i] = s[i]
    <3>1. h[i - 1] = f[i - 1] /\ h[i] = f[i]
      BY <1>3, <2>2
    <3> HIDE DEF h
    <3> QED
      BY <1>1, <2>2, <3>1
  <2>3. CASE i - Len(s) \in DOMAIN t /\ (s \o t)[i] = t[i - Len(s)]
    <3> DEFINE j == i - Len(s)
    <3>1. j \in 1..Len(t) /\ j \in Nat /\ i = Len(s) + j
      BY <1>3, <2>1, <2>3
    <3>2. h[i] = g[j]
      BY <1>3, <2>1, <3>1
    <3>3. h[i - 1] = g[j - 1]
      <4>1. CASE j = 1
        <5>1. i - 1 = Len(s) /\ j - 1 = 0
          BY <1>3, <3>1, <4>1
        <5> QED
          BY <1>1, <1>2, <1>3, <5>1
      <4>2. CASE j # 1
        BY <1>3, <2>1, <3>1, <4>2
      <4> QED
        BY <4>1, <4>2
    <3> HIDE DEF h, j
    <3>4. Moves(which, g[j - 1], t[j], g[j])
      BY <1>2, <1>3, <3>1
    <3> USE DEF j
    <3> QED
      BY <2>3, <3>2, <3>3, <3>4
  <2> QED
    BY <2>2, <2>3, CatAt
<1> HIDE DEF h
<1> QED
  BY <1>1, <1>3, <1>4, <1>5, <1>6 DEF Heights

\* What is left after the first item.
LEMMA HeightsTail ==
  ASSUME NEW which, NEW s, IsSeq(s), s # <<>>, NEW n, NEW m, Heights(which, n, s, m)
  PROVE  \E k : Moves(which, n, Head(s), k) /\ Heights(which, k, Tail(s), m)
<1>1. PICK h : /\ n \in Nat /\ h[0] = n /\ h[Len(s)] = m
               /\ \A i \in DOMAIN s : Moves(which, h[i - 1], s[i], h[i])
  BY DEF Heights
<1>2. /\ 1 \in DOMAIN s /\ Head(s) = s[1] /\ IsSeq(Tail(s))
      /\ \A i \in DOMAIN Tail(s) : i + 1 \in DOMAIN s /\ Tail(s)[i] = s[i + 1]
  BY HeadAndTail
<1>3. Len(s) \in Nat /\ Len(s) # 0 /\ Len(Tail(s)) = Len(s) - 1
      /\ DOMAIN Tail(s) = 1..(Len(s) - 1)
  <2>1. s \in Seq(Range(s))
    BY DEF IsSeq
  <2> QED
    BY <2>1
<1>4. Moves(which, n, Head(s), h[1])
  BY <1>1, <1>2
<1> DEFINE g == [i \in 0..(Len(s) - 1) |-> h[i + 1]]
<1>5. h[1] \in Nat /\ g[0] = h[1] /\ g[Len(Tail(s))] = m
  <2>1. h[1] \in Nat
    BY <1>4 DEF Moves
  <2>2. g[0] = h[0 + 1]
    BY <1>3
  <2>3. g[Len(s) - 1] = h[(Len(s) - 1) + 1] /\ (Len(s) - 1) + 1 = Len(s)
    BY <1>3
  <2> HIDE DEF g
  <2> QED
    BY <1>1, <1>3, <2>1, <2>2, <2>3
<1>6. ASSUME NEW i \in DOMAIN Tail(s)
      PROVE  Moves(which, g[i - 1], Tail(s)[i], g[i])
  <2>1. i \in 1..(Len(s) - 1) /\ g[i] = h[i + 1] /\ g[i - 1] = h[(i - 1) + 1] /\ (i - 1) + 1 = i
    BY <1>3
  <2>2. i + 1 \in DOMAIN s /\ Tail(s)[i] = s[i + 1] /\ (i + 1) - 1 = i
    BY <1>2, <2>1
  <2>3. Moves(which, h[(i + 1) - 1], s[i + 1], h[i + 1])
    BY <1>1, <2>2
  <2> HIDE DEF g
  <2> QED
    BY <2>1, <2>2, <2>3
<1> HIDE DEF g
<1>7. Heights(which, h[1], Tail(s), m)
  BY <1>5, <1>6 DEF Heights
<1> QED
  BY <1>4, <1>7

\* Nothing to do leaves the open loops as they are.
LEMMA NestsNone ==
  ASSUME NEW a, IsSeq(a)
  PROVE  Nests(a, <<>>, a)
<1> DEFINE st == [i \in {0} |-> a]
<1>1. st[0] = a /\ Len(<<>>) = 0 /\ DOMAIN <<>> = {}
  OBVIOUS
<1> HIDE DEF st
<1> QED
  BY <1>1 DEF Nests

\* Two lists of items, the second one not closing a loop at once.
LEMMA NestsCat ==
  ASSUME NEW s, NEW t, IsSeq(s), IsSeq(t), NEW a, NEW b, NEW c,
         Nests(a, s, b), Nests(b, t, c),
         s = <<>> \/ t = <<>> \/ t[1].do # "popLoop"
  PROVE  Nests(a, s \o t, c)
<1>1. PICK f : /\ IsSeq(a) /\ f[0] = a /\ f[Len(s)] = b
               /\ \A i \in DOMAIN s :
                    /\ Turns(f[i - 1], s[i], f[i])
                    /\ i > 1 /\ s[i].do = "popLoop" => s[i - 1] = EmitLabel(Last(f[i - 1]).exit)
  BY DEF Nests
<1>2. PICK g : /\ IsSeq(b) /\ g[0] = b /\ g[Len(t)] = c
               /\ \A i \in DOMAIN t :
                    /\ Turns(g[i - 1], t[i], g[i])
                    /\ i > 1 /\ t[i].do = "popLoop" => t[i - 1] = EmitLabel(Last(g[i - 1]).exit)
  BY DEF Nests
<1>3. /\ Len(s) \in Nat /\ Len(t) \in Nat /\ DOMAIN s = 1..Len(s) /\ DOMAIN t = 1..Len(t)
      /\ Len(s \o t) = Len(s) + Len(t)
  BY SeqLen, SeqCat
<1> DEFINE h == [i \in 0..(Len(s) + Len(t)) |-> IF i <= Len(s) THEN f[i] ELSE g[i - Len(s)]]
<1>4. h[0] = a
  BY <1>1, <1>3
<1>5. h[Len(s) + Len(t)] = c
  <2>1. CASE Len(t) = 0
    BY <1>1, <1>2, <1>3, <2>1
  <2>2. CASE Len(t) # 0
    BY <1>2, <1>3, <2>2
  <2> QED
    BY <2>1, <2>2
<1>6. ASSUME NEW i \in DOMAIN (s \o t)
      PROVE  /\ Turns(h[i - 1], (s \o t)[i], h[i])
             /\ i > 1 /\ (s \o t)[i].do = "popLoop" =>
                  (s \o t)[i - 1] = EmitLabel(Last(h[i - 1]).exit)
  <2>1. i \in 1..(Len(s) + Len(t))
    BY <1>3, SeqLen, SeqCat
  <2>2. CASE i \in DOMAIN s /\ (s \o t)[i] = s[i]
    <3>1. h[i - 1] = f[i - 1] /\ h[i] = f[i]
      BY <1>3, <2>2
    <3>2. i > 1 => (s \o t)[i - 1] = s[i - 1]
      BY <1>3, <2>2, OldAt
    <3> HIDE DEF h
    <3> QED
      BY <1>1, <2>2, <3>1, <3>2
  <2>3. CASE i - Len(s) \in DOMAIN t /\ (s \o t)[i] = t[i - Len(s)]
    <3> DEFINE j == i - Len(s)
    <3>1. j \in 1..Len(t) /\ j \in Nat /\ i = Len(s) + j
      BY <1>3, <2>1, <2>3
    <3>2. h[i] = g[j]
      BY <1>3, <2>1, <3>1
    <3>3. h[i - 1] = g[j - 1]
      <4>1. CASE j = 1
        <5>1. i - 1 = Len(s) /\ j - 1 = 0
          BY <1>3, <3>1, <4>1
        <5> QED
          BY <1>1, <1>2, <1>3, <5>1
      <4>2. CASE j # 1
        BY <1>3, <2>1, <3>1, <4>2
      <4> QED
        BY <4>1, <4>2
    <3>4. j > 1 => (s \o t)[i - 1] = t[j - 1]
      <4> SUFFICES ASSUME j > 1
                   PROVE  (s \o t)[i - 1] = t[j - 1]
        OBVIOUS
      <4>1. j - 1 \in DOMAIN t /\ i - 1 = Len(s) + (j - 1)
        BY <1>3, <3>1
      <4> HIDE DEF j
      <4> QED
        BY <4>1, OldAt
    <3>5. j = 1 /\ t[j].do = "popLoop" => i = 1
      <4>1. j = 1 /\ t[j].do = "popLoop" => s = <<>>
        BY <1>3, <3>1
      <4> QED
        BY <1>3, <3>1, <4>1
    <3> HIDE DEF h, j
    <3>6. /\ Turns(g[j - 1], t[j], g[j])
          /\ j > 1 /\ t[j].do = "popLoop" => t[j - 1] = EmitLabel(Last(g[j - 1]).exit)
      BY <1>2, <1>3, <3>1
    <3>7. (s \o t)[i] = t[j] /\ (i > 1 /\ t[j].do = "popLoop" => j > 1)
      BY <2>3, <3>1, <3>5 DEF j
    <3> QED
      BY <3>2, <3>3, <3>4, <3>6, <3>7
  <2> QED
    BY <2>2, <2>3, CatAt
<1> HIDE DEF h
<1> QED
  BY <1>1, <1>3, <1>4, <1>5, <1>6 DEF Nests

\* After the first item.  If the next one closes a loop, the first was the LABEL of its
\* exit.
LEMMA NestsTail ==
  ASSUME NEW s, IsSeq(s), s # <<>>, NEW a, NEW b, Nests(a, s, b)
  PROVE  /\ Turns(a, Head(s), After(a, Head(s)))
         /\ IsSeq(After(a, Head(s)))
         /\ Nests(After(a, Head(s)), Tail(s), b)
         /\ Tail(s) # <<>> /\ Tail(s)[1].do = "popLoop" =>
              Head(s) = EmitLabel(Last(After(a, Head(s))).exit)
<1>1. PICK f : /\ IsSeq(a) /\ f[0] = a /\ f[Len(s)] = b
               /\ \A i \in DOMAIN s :
                    /\ Turns(f[i - 1], s[i], f[i])
                    /\ i > 1 /\ s[i].do = "popLoop" => s[i - 1] = EmitLabel(Last(f[i - 1]).exit)
  BY DEF Nests
<1>2. /\ 1 \in DOMAIN s /\ Head(s) = s[1] /\ IsSeq(Tail(s))
      /\ \A i \in DOMAIN Tail(s) : i + 1 \in DOMAIN s /\ Tail(s)[i] = s[i + 1]
  BY HeadAndTail
<1>3. Len(s) \in Nat /\ Len(s) # 0 /\ Len(Tail(s)) = Len(s) - 1
      /\ DOMAIN Tail(s) = 1..(Len(s) - 1)
  <2>1. s \in Seq(Range(s))
    BY DEF IsSeq
  <2> QED
    BY <2>1
<1>4. Turns(a, Head(s), f[1]) /\ f[1] = After(a, Head(s))
  BY <1>1, <1>2 DEF Turns
<1>5. IsSeq(f[1])
  <2>1. CASE Head(s).do = "pushLoop"
    <3>1. f[1] = Append(a, Head(s).info)
      BY <1>4, <2>1 DEF After
    <3>2. a \in Seq(Range(a) \cup {Head(s).info})
      BY <1>1 DEF IsSeq
    <3>3. f[1] \in Seq(Range(a) \cup {Head(s).info})
      BY <3>1, <3>2
    <3> QED
      BY <3>3, SeqIn
  <2>2. CASE Head(s).do = "popLoop"
    <3>1. f[1] = Front(a) /\ a # <<>> /\ a \in Seq(Range(a))
      BY <1>1, <1>4, <2>2 DEF After, Turns, IsSeq
    <3>2. f[1] \in Seq(Range(a))
      BY <3>1 DEF Front
    <3> QED
      BY <3>2, SeqIn
  <2>3. CASE Head(s).do \notin {"pushLoop", "popLoop"}
    BY <1>1, <1>4, <2>3 DEF After
  <2> QED
    BY <2>1, <2>2, <2>3
<1> DEFINE g == [i \in 0..(Len(s) - 1) |-> f[i + 1]]
<1>6. g[0] = f[1] /\ g[Len(Tail(s))] = b
  <2>1. g[0] = f[0 + 1]
    BY <1>3
  <2>2. g[Len(s) - 1] = f[(Len(s) - 1) + 1] /\ (Len(s) - 1) + 1 = Len(s)
    BY <1>3
  <2> HIDE DEF g
  <2> QED
    BY <1>1, <1>3, <2>1, <2>2
<1>7. ASSUME NEW i \in DOMAIN Tail(s)
      PROVE  /\ Turns(g[i - 1], Tail(s)[i], g[i])
             /\ i > 1 /\ Tail(s)[i].do = "popLoop" =>
                  Tail(s)[i - 1] = EmitLabel(Last(g[i - 1]).exit)
  <2>1. i \in 1..(Len(s) - 1) /\ g[i] = f[i + 1] /\ g[i - 1] = f[(i - 1) + 1] /\ (i - 1) + 1 = i
    BY <1>3
  <2>2. i + 1 \in DOMAIN s /\ Tail(s)[i] = s[i + 1] /\ (i + 1) - 1 = i /\ i + 1 > 1
    BY <1>2, <2>1
  <2>3. i > 1 => Tail(s)[i - 1] = s[i]
    <3> SUFFICES ASSUME i > 1
                 PROVE  Tail(s)[i - 1] = s[i]
      OBVIOUS
    <3>1. i - 1 \in DOMAIN Tail(s) /\ (i - 1) + 1 = i
      BY <1>3, <2>1
    <3> QED
      BY <1>2, <3>1
  <2>4. /\ Turns(f[(i + 1) - 1], s[i + 1], f[i + 1])
        /\ i + 1 > 1 /\ s[i + 1].do = "popLoop" =>
             s[(i + 1) - 1] = EmitLabel(Last(f[(i + 1) - 1]).exit)
    BY <1>1, <2>2
  <2> HIDE DEF g
  <2> QED
    BY <2>1, <2>2, <2>3, <2>4
<1> HIDE DEF g
<1>8. Nests(f[1], Tail(s), b)
  BY <1>5, <1>6, <1>7 DEF Nests
<1>9. Tail(s) # <<>> /\ Tail(s)[1].do = "popLoop" => Head(s) = EmitLabel(Last(f[1]).exit)
  <2> SUFFICES ASSUME Tail(s) # <<>>, Tail(s)[1].do = "popLoop"
               PROVE  Head(s) = EmitLabel(Last(f[1]).exit)
    OBVIOUS
  <2>1. 1 \in DOMAIN Tail(s) /\ 1 + 1 = 2 /\ 2 - 1 = 1 /\ 2 > 1
    BY <1>2, HeadAndTail
  <2>2. 2 \in DOMAIN s /\ Tail(s)[1] = s[2]
    BY <1>2, <2>1
  <2>3. 2 > 1 /\ s[2].do = "popLoop" => s[2 - 1] = EmitLabel(Last(f[2 - 1]).exit)
    BY <1>1, <2>2
  <2> QED
    BY <1>2, <2>1, <2>2, <2>3
<1> QED
  BY <1>4, <1>5, <1>8, <1>9

\* Items that open and close nothing.
Calm(items) ==
  /\ IsSeq(items)
  /\ \A i \in DOMAIN items : items[i].do \notin {"exitScope", "pushLoop", "popLoop"}

\* Calm items leave the open loops as they are
LEMMA CalmNests ==
  ASSUME NEW a, IsSeq(a), NEW items, Calm(items)
  PROVE  Nests(a, items, a)
<1> DEFINE st == [i \in 0..Len(items) |-> a]
<1>1. Len(items) \in Nat /\ DOMAIN items = 1..Len(items)
  BY SeqLen DEF Calm
<1>2. st[0] = a /\ st[Len(items)] = a
      /\ \A i \in DOMAIN items : st[i] = a /\ st[i - 1] = a
  BY <1>1
<1> HIDE DEF st
<1>3. ASSUME NEW i \in DOMAIN items
      PROVE  Turns(st[i - 1], items[i], st[i]) /\ items[i].do # "popLoop"
  BY <1>2 DEF Calm, Turns, After
<1> QED
  BY <1>2, <1>3 DEF Nests

\* Items that take and give nothing leave the height as it is.
LEMMA StillHeights ==
  ASSUME NEW which, NEW n \in Nat, NEW items, IsSeq(items),
         \A i \in DOMAIN items : Takes(which, items[i]) = 0 /\ Gives(which, items[i]) = 0
  PROVE  Heights(which, n, items, n)
<1> DEFINE h == [i \in 0..Len(items) |-> n]
<1>1. Len(items) \in Nat /\ DOMAIN items = 1..Len(items)
  BY SeqLen
<1>2. h[0] = n /\ h[Len(items)] = n
      /\ \A i \in DOMAIN items : h[i] = n /\ h[i - 1] = n
  BY <1>1
<1> HIDE DEF h
<1>3. ASSUME NEW i \in DOMAIN items
      PROVE  Moves(which, h[i - 1], items[i], h[i])
  BY <1>2 DEF Moves
<1> QED
  BY <1>2, <1>3 DEF Heights

\* and the open scopes, too.
LEMMA CalmScopes ==
  ASSUME NEW n \in Nat, NEW items, Calm(items)
  PROVE  Heights("scopes", n, items, n)
<1>1. \A i \in DOMAIN items : Takes("scopes", items[i]) = 0 /\ Gives("scopes", items[i]) = 0
  BY DEF Calm, Takes, Gives
<1> QED
  BY <1>1, StillHeights DEF Calm

\* The general step: what replaces the item at hand leads to where the item
\* itself would have led.
LEMMA Rebalanced ==
  ASSUME LabelInv, BalanceInv, NEW items, work # <<>>, IsSeq(items), Leaves(items),
         items # <<>> => Head(work).do # "emit" /\ items[1].do # "popLoop",
         Head(work).do = "emit" => code' = code \o <<Head(work).insn>>,
         IsSeq(vals'), IsSeq(scopes'), status' # "done",
         \A m : Moves("vals", Len(vals), Head(work), m) => Heights("vals", Len(vals'), items, m),
         \A m : Moves("scopes", Len(scopes), Head(work), m)
                 => Heights("scopes", Len(scopes'), items, m),
         Turns(loops, Head(work), After(loops, Head(work))) =>
           Nests(loops', items, After(loops, Head(work)))
  PROVE  BalanceInv'
<1>1. IsSeq(work) /\ IsSeq(Tail(work)) /\ work' = items \o Tail(work)
  BY HeadAndTail DEF LabelInv, Leaves
<1>2. ASSUME NEW which, NEW n, NEW n2, Heights(which, n, work, 0),
             \A m : Moves(which, n, Head(work), m) => Heights(which, n2, items, m)
      PROVE  Heights(which, n2, items \o Tail(work), 0)
  <2>1. PICK k : Moves(which, n, Head(work), k) /\ Heights(which, k, Tail(work), 0)
    BY <1>1, <1>2, HeightsTail
  <2>2. Heights(which, n2, items, k)
    BY <1>2, <2>1
  <2> QED
    BY <1>1, <2>1, <2>2, HeightsCat
<1>3. Heights("vals", Len(vals'), work', 0) /\ Heights("scopes", Len(scopes'), work', 0)
  BY <1>1, <1>2 DEF BalanceInv
<1>4. Nests(loops', work', <<>>)
  <2> DEFINE mid == After(loops, Head(work))
  <2>1. /\ Turns(loops, Head(work), mid) /\ Nests(mid, Tail(work), <<>>)
        /\ Tail(work) # <<>> /\ Tail(work)[1].do = "popLoop"
              => Head(work) = EmitLabel(Last(mid).exit)
    BY <1>1, NestsTail DEF BalanceInv
  <2>2. Nests(loops', items, mid)
    BY <2>1
  <2>3. items = <<>> \/ Tail(work) = <<>> \/ Tail(work)[1].do # "popLoop"
    BY <2>1 DEF EmitLabel, Emit
  <2> HIDE DEF mid
  <2> QED
    BY <1>1, <2>1, <2>2, <2>3, NestsCat
<1>5. ASSUME work' # <<>>, Head(work').do = "popLoop"
      PROVE  code' # <<>> /\ code'[Len(code')] = LabelInsn(Last(loops').exit)
  <2> DEFINE mid == After(loops, Head(work))
  <2>1. items = <<>>
    <3> SUFFICES ASSUME items # <<>>
                 PROVE  Head(work').do # "popLoop"
      BY <1>5
    <3>1. 1 \in DOMAIN items /\ 1 \in DOMAIN (items \o Tail(work))
          /\ (items \o Tail(work))[1] = items[1]
      BY <1>1, HeadAndTail, OldAt
    <3>2. IsSeq(work')
      BY <1>1, SeqCat
    <3> QED
      BY <1>1, <1>5, <3>1, <3>2, HeadAndTail
  <2>2. work' = Tail(work)
    <3>1. Tail(work) \in Seq(Range(Tail(work)))
      BY <1>1 DEF IsSeq
    <3>2. <<>> \o Tail(work) = Tail(work)
      BY <3>1
    <3> QED
      BY <1>1, <2>1, <3>2
  <2>3. Tail(work) # <<>> /\ Tail(work)[1].do = "popLoop"
    BY <1>1, <1>5, <2>2, HeadAndTail
  <2>4. Head(work) = EmitLabel(Last(mid).exit) /\ Turns(loops, Head(work), mid)
    BY <1>1, <2>3, NestsTail DEF BalanceInv
  <2>5. Head(work).do = "emit" /\ Head(work).insn = LabelInsn(Last(mid).exit)
    BY <2>4 DEF EmitLabel, Emit
  <2>6. loops' = mid
    <3>1. Nests(loops', <<>>, mid)
      BY <2>1, <2>4
    <3> QED
      BY <3>1 DEF Nests
  <2>7. code' = code \o <<LabelInsn(Last(mid).exit)>>
    BY <2>5
  <2> HIDE DEF mid
  <2>8. code \in Seq(Range(code) \cup {LabelInsn(Last(mid).exit)})
    BY DEF LabelInv, IsSeq
  <2>9. code' # <<>> /\ code'[Len(code')] = LabelInsn(Last(mid).exit)
    BY <2>7, <2>8
  <2> QED
    BY <2>6, <2>9
<1> QED
  BY <1>3, <1>4, <1>5 DEF BalanceInv

\* Where the item at hand takes the results to.
LEMMA CalmStep ==
  ASSUME LabelInv, BalanceInv, NEW items, work # <<>>, Calm(items), Leaves(items),
         Head(work).do \notin {"emit", "exitScope", "pushLoop", "popLoop"},
         IsSeq(vals'), UNCHANGED <<scopes, loops>>, status' # "done",
         \A m : Moves("vals", Len(vals), Head(work), m) => Heights("vals", Len(vals'), items, m)
  PROVE  BalanceInv'
<1>1. IsSeq(items) /\ IsSeq(scopes') /\ IsSeq(loops)
  BY DEF Calm, BalanceInv, LabelInv
<1>2. ASSUME NEW m, Moves("scopes", Len(scopes), Head(work), m)
      PROVE  Heights("scopes", Len(scopes'), items, m)
  <2>1. m = Len(scopes) /\ m \in Nat
    <3>1. Takes("scopes", Head(work)) = 0 /\ Gives("scopes", Head(work)) = 0
      BY DEF Takes, Gives
    <3> QED
      BY <1>2, <3>1 DEF Moves
  <2> QED
    BY <2>1, CalmScopes
<1>3. After(loops, Head(work)) = loops
  BY DEF After
<1>4. Nests(loops', items, loops)
  BY <1>1, CalmNests
<1>5. items # <<>> => items[1].do # "popLoop"
  BY <1>1, HeadAndTail DEF Calm
<1> QED
  BY <1>1, <1>2, <1>3, <1>4, <1>5, Rebalanced

\* The same for an item that is done at once.
LEMMA DoneStep ==
  ASSUME LabelInv, BalanceInv, work # <<>>, Leaves(<<>>),
         Head(work).do \notin {"exitScope", "pushLoop", "popLoop"},
         Head(work).do = "emit" => code' = code \o <<Head(work).insn>>,
         IsSeq(vals'), UNCHANGED <<scopes, loops>>, status' # "done",
         Len(vals') = Len(vals) - Takes("vals", Head(work)) + Gives("vals", Head(work))
  PROVE  BalanceInv'
<1>1. IsSeq(<<>>) /\ IsSeq(scopes') /\ IsSeq(loops)
  BY DEF BalanceInv, LabelInv, IsSeq
<1>2. ASSUME NEW m, Moves("scopes", Len(scopes), Head(work), m)
      PROVE  Heights("scopes", Len(scopes'), <<>>, m)
  <2>1. m = Len(scopes) /\ m \in Nat
    <3>1. Takes("scopes", Head(work)) = 0 /\ Gives("scopes", Head(work)) = 0
      BY DEF Takes, Gives
    <3> QED
      BY <1>2, <3>1 DEF Moves
  <2> QED
    BY <2>1, HeightsNone
<1>3. ASSUME NEW m, Moves("vals", Len(vals), Head(work), m)
      PROVE  Heights("vals", Len(vals'), <<>>, m)
  <2>1. m = Len(vals') /\ m \in Nat
    BY <1>3 DEF Moves
  <2> QED
    BY <2>1, HeightsNone
<1>4. After(loops, Head(work)) = loops
  BY DEF After
<1>5. Nests(loops', <<>>, loops)
  BY <1>1, NestsNone
<1> QED
  BY <1>1, <1>2, <1>3, <1>4, <1>5, Rebalanced

\* Enough results lie there for the item at hand, and taking some away or
\* adding one is what it looks like.
LEMMA EnoughResults ==
  ASSUME LabelInv, BalanceInv, work # <<>>
  PROVE  /\ Len(vals) \in Nat /\ Takes("vals", Head(work)) \in Nat
         /\ Takes("vals", Head(work)) <= Len(vals)
         /\ \A n \in 0..Len(vals) : IsSeq(Without(n)) /\ Len(Without(n)) = Len(vals) - n
<1>1. vals \in Seq(Range(vals)) /\ IsSeq(work)
  BY DEF BalanceInv, LabelInv, IsSeq
<1>2. PICK k : Moves("vals", Len(vals), Head(work), k)
  BY <1>1, HeightsTail DEF BalanceInv
<1>3. ASSUME NEW n \in 0..Len(vals)
      PROVE  IsSeq(Without(n)) /\ Len(Without(n)) = Len(vals) - n
  <2>1. Without(n) \in Seq(Range(vals)) /\ Len(Without(n)) = Len(vals) - n
    BY <1>1 DEF Without
  <2> QED
    BY <2>1, SeqIn
<1> QED
  BY <1>1, <1>2, <1>3 DEF Moves

\* A statement leaves no result and an expression leaves one.
LEMMA VisitGives ==
  ASSUME LabelInv, NEW kind, Visiting(kind)
  PROVE  /\ Takes("vals", Head(work)) = 0
         /\ kind \in {"expr", "block", "bind", "if", "while", "loop", "return", "break",
                      "continue", "fn", "declaration"} => Gives("vals", Head(work)) = 0
         /\ kind \in {"logical", "binary", "literal", "group", "unary", "var", "assign",
                      "call", "callAny", "record", "vector", "enum", "match"}
              => Gives("vals", Head(work)) = 1
<1>1. Head(work).do = "visit" /\ Head(work).node = Node /\ Node.k = kind
  BY DEF Visiting, Doing, Node
<1>2. Takes("vals", Head(work)) = 0
  BY <1>1 DEF Takes
<1>3. (Node \in Stmts /\ IsStmt(Node)) \/ (Node \in Exprs /\ IsExpr(Node))
  BY NodeAtHand
<1>4. Node \in Exprs => IsExpr(Node)
  BY SyntaxAssumption
<1>5. kind \in {"expr", "block", "bind", "if", "while", "loop", "return", "break",
                "continue", "fn", "declaration"} => Node \notin Exprs
  BY <1>1, <1>4 DEF IsExpr
<1>6. kind \in {"logical", "binary", "literal", "group", "unary", "var", "assign",
                "call", "callAny", "record", "vector", "enum", "match"} => Node \in Exprs
  BY <1>1, <1>3 DEF IsStmt
<1> QED
  BY <1>1, <1>2, <1>5, <1>6 DEF Gives

\* The steps that only take results.
LEMMA TakenOnly ==
  ASSUME LabelInv, BalanceInv, JumpOnCondition \/ Forget \/ BindTo \/ ReturnValue \/ NotePayload
                               \/ CopyResult
  PROVE  BalanceInv'
<1>1. /\ work # <<>> /\ Leaves(<<>>) /\ UNCHANGED <<scopes, loops>> /\ status' # "done"
      /\ Head(work).do \in {"jumpOn", "forget", "bindTo", "toR0", "note", "copyTo"}
      /\ vals' = Without(IF Head(work).do = "forget" THEN Head(work).n ELSE 1)
  BY DEF JumpOnCondition, Forget, BindTo, ReturnValue, NotePayload, CopyResult, Doing, fixed
<1> DEFINE n == IF Head(work).do = "forget" THEN Head(work).n ELSE 1
<1>2. Takes("vals", Head(work)) = n /\ Gives("vals", Head(work)) = 0
  BY <1>1 DEF Takes, Gives
<1>3. n \in 0..Len(vals) /\ Len(vals) \in Nat
  BY <1>1, <1>2, EnoughResults
<1>4. IsSeq(vals') /\ Len(vals') = Len(vals) - n
  BY <1>1, <1>3, EnoughResults
<1>5. Len(vals') = Len(vals) - Takes("vals", Head(work)) + Gives("vals", Head(work))
  BY <1>2, <1>3, <1>4
<1> QED
  BY <1>1, <1>4, <1>5, DoneStep

\* One result for those taken, if any.
LEMMA ReplacedOne ==
  ASSUME LabelInv, BalanceInv, NEW r, NEW n, work # <<>>, Leaves(<<>>),
         UNCHANGED <<scopes, loops>>, status' # "done",
         Head(work).do \notin {"emit", "exitScope", "pushLoop", "popLoop"},
         Takes("vals", Head(work)) = n, Gives("vals", Head(work)) = 1,
         vals' = Append(Without(n), r)
  PROVE  BalanceInv'
<1>1. n \in 0..Len(vals) /\ Len(vals) \in Nat
  BY EnoughResults
<1>2. IsSeq(Without(n)) /\ Len(Without(n)) = Len(vals) - n
  BY <1>1, EnoughResults
<1>3. IsSeq(vals') /\ Len(vals') = Len(vals) - n + 1
  BY <1>2, SeqAppend
<1> QED
  BY <1>3, DoneStep

\* Operate, Negate and Make give one result for those they take,
LEMMA OperateBalance ==
  ASSUME LabelInv, BalanceInv, Operate \/ Negate \/ Make
  PROVE  BalanceInv'
<1>1. /\ work # <<>> /\ Leaves(<<>>) /\ UNCHANGED <<scopes, loops>> /\ status' # "done"
      /\ Head(work).do \in {"operate", "negate", "make"}
      /\ \E r : vals' = Append(Without(IF Head(work).do = "operate" THEN 2 ELSE 1), r)
  BY DEF Operate, Negate, Make, Doing, fixed
<1>2. /\ Takes("vals", Head(work)) = (IF Head(work).do = "operate" THEN 2 ELSE 1)
      /\ Gives("vals", Head(work)) = 1
  BY <1>1 DEF Takes, Gives
<1> QED
  BY <1>1, <1>2, ReplacedOne

\* and so do a call and a variant, for all their arguments.
LEMMA EmitCallBalance ==
  ASSUME LabelInv, BalanceInv, EmitCall \/ MakeVariant
  PROVE  BalanceInv'
<1>1. CASE EmitCall
  <2>1. /\ work # <<>> /\ Leaves(<<>>) /\ UNCHANGED <<scopes, loops>> /\ status' # "done"
        /\ Head(work).do = "call" /\ \E r : vals' = Append(Without(Len(Node.args)), r)
    BY <1>1 DEF EmitCall, Doing
  <2>2. Takes("vals", Head(work)) = Len(Node.args) /\ Gives("vals", Head(work)) = 1
    BY <2>1 DEF Takes, Gives, Node
  <2> QED
    BY <2>1, <2>2, ReplacedOne
<1>2. CASE MakeVariant
  <2> DEFINE carried == IF Node.payload = Nil THEN 0 ELSE 1
  <2>1. /\ work # <<>> /\ Leaves(<<>>) /\ UNCHANGED <<scopes, loops>> /\ status' # "done"
        /\ Head(work).do = "variant" /\ \E r : vals' = Append(Without(carried), r)
    BY <1>2 DEF MakeVariant, Doing, fixed
  <2>2. Takes("vals", Head(work)) = carried /\ Gives("vals", Head(work)) = 1
    BY <2>1 DEF Takes, Gives, Node
  <2> HIDE DEF carried
  <2> QED
    BY <2>1, <2>2, ReplacedOne
<1> QED
  BY <1>1, <1>2

\* The steps that give a result and take none.
LEMMA AddedOne ==
  ASSUME LabelInv, BalanceInv,
         \/ YieldRegister \/ Literal \/ Handle \/ Zero \/ Fresh \/ VectorLiteral \/ Variable
  PROVE  BalanceInv'
<1>1. /\ work # <<>> /\ Leaves(<<>>) /\ UNCHANGED <<scopes, loops>> /\ status' # "done"
      /\ Head(work).do \in {"yield", "visit", "zero", "fresh"}
      /\ \E r : vals' = Append(vals, r)
  BY DEF YieldRegister, Literal, Handle, Zero, Fresh, VectorLiteral, Variable,
     Visiting, Doing, fixed
<1>2. Takes("vals", Head(work)) = 0
  BY <1>1 DEF Takes
<1>3. Gives("vals", Head(work)) = 1
  <2>1. CASE YieldRegister \/ Zero \/ Fresh
    BY <2>1 DEF Gives, YieldRegister, Zero, Fresh, Doing
  <2>2. CASE Literal \/ Handle \/ VectorLiteral \/ Variable
    BY <2>2, VisitGives DEF Literal, Handle, VectorLiteral, Variable
  <2> QED
    BY <2>1, <2>2
<1>4. IsSeq(vals') /\ Len(vals') = Len(vals) + 1 /\ Len(vals) \in Nat
  BY <1>1, SeqAppend, SeqLen DEF BalanceInv
<1>5. Len(vals') = Len(vals) - Takes("vals", Head(work)) + Gives("vals", Head(work))
  BY <1>2, <1>3, <1>4
<1> QED
  BY <1>1, <1>4, <1>5, DoneStep

\* The steps that leave the results as they are.
LEMMA KeptResults ==
  ASSUME LabelInv, BalanceInv, EmitNext \/ Declaration \/ Require
  PROVE  BalanceInv'
<1>1. /\ work # <<>> /\ Leaves(<<>>) /\ UNCHANGED <<vals, scopes, loops>> /\ status' # "done"
      /\ Head(work).do \in {"emit", "visit", "require"}
      /\ Head(work).do = "emit" => code' = code \o <<Head(work).insn>>
  BY DEF EmitNext, Emits, Declaration, Require, Expands, others, Visiting, Doing, fixed
<1>2. Takes("vals", Head(work)) = Gives("vals", Head(work))
  <2>1. CASE EmitNext \/ Require
    BY <2>1 DEF Takes, Gives, EmitNext, Require, Doing
  <2>2. CASE Declaration
    BY <2>2, VisitGives DEF Declaration
  <2> QED
    BY <2>1, <2>2
<1>3. Len(vals) \in Nat /\ Takes("vals", Head(work)) \in Nat /\ IsSeq(vals')
  BY <1>1, EnoughResults DEF BalanceInv
<1>4. Len(vals') = Len(vals) - Takes("vals", Head(work)) + Gives("vals", Head(work))
  BY <1>1, <1>2, <1>3
<1> QED
  BY <1>1, <1>3, <1>4, DoneStep

\* An assignment hands its value on or copies it.
LEMMA AssignToBalance ==
  ASSUME LabelInv, BalanceInv, AssignTo
  PROVE  BalanceInv'
<1>1. /\ work # <<>> /\ Leaves(<<>>) /\ UNCHANGED <<scopes, loops>> /\ status' # "done"
      /\ Head(work).do = "assignTo"
      /\ vals' = vals \/ \E r : vals' = Append(Without(1), r)
  BY DEF AssignTo, Doing, fixed
<1>2. Takes("vals", Head(work)) = 1 /\ Gives("vals", Head(work)) = 1
  BY <1>1 DEF Takes, Gives
<1>3. CASE vals' = vals
  <2>1. IsSeq(vals') /\ Len(vals') = Len(vals) - 1 + 1
    BY <1>3, EnoughResults DEF BalanceInv
  <2> QED
    BY <1>1, <1>2, <2>1, DoneStep
<1>4. CASE \E r : vals' = Append(Without(1), r)
  BY <1>1, <1>2, <1>4, ReplacedOne
<1> QED
  BY <1>1, <1>3, <1>4

\* Items that open and close nothing and take n results to m.
Span(n, items, m) == Calm(items) /\ Heights("vals", n, items, m)

\* Spans compose: no item,
LEMMA SpanNone ==
  ASSUME NEW n \in Nat
  PROVE  Span(n, <<>>, n)
<1>1. Calm(<<>>)
  BY DEF Calm, IsSeq
<1> QED
  BY <1>1, HeightsNone DEF Span

\* two lists of items,
LEMMA SpanCat ==
  ASSUME NEW s, NEW t, NEW n, NEW m, NEW k, Span(n, s, m), Span(m, t, k)
  PROVE  Span(n, s \o t, k)
<1>1. IsSeq(s) /\ IsSeq(t)
  BY DEF Span, Calm
<1>2. Calm(s \o t)
  <2>1. IsSeq(s \o t)
    BY <1>1, SeqCat
  <2>2. ASSUME NEW i \in DOMAIN (s \o t)
        PROVE  (s \o t)[i].do \notin {"exitScope", "pushLoop", "popLoop"}
    BY <1>1, CatAt DEF Span, Calm
  <2> QED
    BY <2>1, <2>2 DEF Calm
<1>3. Heights("vals", n, s \o t, k)
  BY <1>1, HeightsCat DEF Span
<1> QED
  BY <1>2, <1>3 DEF Span

\* one item,
LEMMA SpanOne ==
  ASSUME NEW n, NEW m, NEW item, item.do \notin {"exitScope", "pushLoop", "popLoop"},
         Moves("vals", n, item, m)
  PROVE  Span(n, <<item>>, m)
<1>1. IsSeq(<<item>>)
  BY SeqIn, <<item>> \in Seq({item})
<1>2. DOMAIN <<item>> = {1} /\ <<item>>[1] = item
  OBVIOUS
<1> QED
  BY <1>1, <1>2, HeightsOne DEF Span, Calm

\* two items,
LEMMA SpanTwo ==
  ASSUME NEW a, NEW b, NEW n, NEW m, NEW k, Span(n, <<a>>, m), Span(m, <<b>>, k)
  PROVE  Span(n, <<a, b>>, k)
<1>1. Span(n, <<a>> \o <<b>>, k)
  BY SpanCat
<1>2. <<a, b>> = <<a>> \o <<b>>
  <2> DEFINE s == <<a>> \o <<b>>
  <2>1. s \in Seq({a, b}) /\ Len(s) = 2 /\ s[1] = a /\ s[2] = b
    OBVIOUS
  <2>2. s = <<s[1], s[2]>>
    <3> HIDE DEF s
    <3> QED
      BY <2>1
  <2> QED
    BY <2>1, <2>2
<1> QED
  BY <1>1, <1>2

\* three items.
LEMMA SpanThree ==
  ASSUME NEW a, NEW b, NEW c, NEW n, NEW m, NEW k, NEW l,
         Span(n, <<a>>, m), Span(m, <<b>>, k), Span(k, <<c>>, l)
  PROVE  Span(n, <<a, b, c>>, l)
<1>1. Span(n, <<a, b>>, k)
  BY SpanTwo
<1>2. Span(n, <<a, b>> \o <<c>>, l)
  BY <1>1, SpanCat
<1>3. <<a, b, c>> = <<a, b>> \o <<c>>
  OBVIOUS
<1> QED
  BY <1>2, <1>3

\* No node is both a statement and an expression.
LEMMA KindsApart ==
  ASSUME NEW s \in Stmts
  PROVE  s \notin Exprs
<1>1. IsStmt(s) /\ (s \in Exprs => IsExpr(s))
  BY SyntaxAssumption
<1> QED
  BY <1>1 DEF IsStmt, IsExpr

\* Visiting an expression adds a result and visiting a statement does not;
LEMMA SpanVisit ==
  ASSUME NEW n \in Nat
  PROVE  /\ \A e \in Exprs : Span(n, <<Visit(e)>>, n + 1)
         /\ \A s \in Stmts : Span(n, <<Visit(s)>>, n)
<1>1. \A x : Takes("vals", Visit(x)) = 0 /\ Visit(x).do = "visit"
  BY DEF Takes, Visit
<1>2. \A x : Gives("vals", Visit(x)) = IF x \in Exprs THEN 1 ELSE 0
  BY DEF Gives, Visit
<1>3. ASSUME NEW e \in Exprs PROVE Span(n, <<Visit(e)>>, n + 1)
  <2>1. Moves("vals", n, Visit(e), n + 1)
    BY <1>1, <1>2 DEF Moves
  <2> QED
    BY <1>1, <2>1, SpanOne
<1>4. ASSUME NEW s \in Stmts PROVE Span(n, <<Visit(s)>>, n)
  <2>1. Moves("vals", n, Visit(s), n)
    BY <1>1, <1>2, KindsApart DEF Moves
  <2> QED
    BY <1>1, <2>1, SpanOne
<1> QED
  BY <1>3, <1>4

\* the same for all the nodes of a list.
LEMMA SpanVisitAll ==
  ASSUME NEW n \in Nat
  PROVE  /\ \A es \in Seq(Exprs) : Span(n, VisitAll(es), n + Len(es))
         /\ \A ss \in Seq(Stmts) : Span(n, VisitAll(ss), n)
<1>1. ASSUME NEW S, NEW nodes \in Seq(S)
      PROVE  /\ Len(nodes) \in Nat /\ DOMAIN VisitAll(nodes) = 1..Len(nodes)
             /\ Len(VisitAll(nodes)) = Len(nodes)
             /\ \A i \in 1..Len(nodes) : nodes[i] \in S /\ VisitAll(nodes)[i] = Visit(nodes[i])
             /\ Calm(VisitAll(nodes))
  <2>1. DOMAIN VisitAll(nodes) = 1..Len(nodes) /\ Len(nodes) \in Nat
    BY DEF VisitAll
  <2>2. IsSeq(VisitAll(nodes))
    BY <2>1 DEF IsSeq, Range, VisitAll
  <2>3. \A i \in 1..Len(nodes) : nodes[i] \in S /\ VisitAll(nodes)[i] = Visit(nodes[i])
    BY <2>1 DEF VisitAll
  <2>4. \A x : Visit(x).do = "visit"
    BY DEF Visit
  <2>5. Calm(VisitAll(nodes))
    BY <2>1, <2>2, <2>3, <2>4 DEF Calm
  <2> QED
    BY <2>1, <2>2, <2>3, <2>5, SeqLen
<1>2. /\ \A x : Takes("vals", Visit(x)) = 0
      /\ \A x : Gives("vals", Visit(x)) = IF x \in Exprs THEN 1 ELSE 0
  BY DEF Takes, Gives, Visit
<1>3. ASSUME NEW es \in Seq(Exprs)
      PROVE  Span(n, VisitAll(es), n + Len(es))
  <2> DEFINE h == [i \in 0..Len(es) |-> n + i]
             items == VisitAll(es)
  <2>1. /\ Len(es) \in Nat /\ DOMAIN items = 1..Len(es) /\ Len(items) = Len(es) /\ Calm(items)
        /\ \A i \in 1..Len(es) : es[i] \in Exprs /\ items[i] = Visit(es[i])
    BY <1>1
  <2>2. h[0] = n /\ h[Len(es)] = n + Len(es)
        /\ \A i \in 1..Len(es) : h[i] = n + i /\ h[i - 1] = n + (i - 1)
    BY <2>1
  <2> HIDE DEF h, items
  <2>3. ASSUME NEW i \in DOMAIN items
        PROVE  Moves("vals", h[i - 1], items[i], h[i])
    <3>1. Takes("vals", items[i]) = 0 /\ Gives("vals", items[i]) = 1 /\ i \in 1..Len(es)
      BY <1>2, <2>1
    <3> QED
      BY <2>1, <2>2, <3>1 DEF Moves
  <2>4. Heights("vals", n, items, n + Len(es))
    BY <2>1, <2>2, <2>3 DEF Heights
  <2> QED
    BY <2>1, <2>4 DEF Span, items
<1>4. ASSUME NEW ss \in Seq(Stmts)
      PROVE  Span(n, VisitAll(ss), n)
  <2> DEFINE items == VisitAll(ss)
  <2>1. /\ DOMAIN items = 1..Len(ss) /\ Calm(items)
        /\ \A i \in 1..Len(ss) : ss[i] \in Stmts /\ items[i] = Visit(ss[i])
    BY <1>1
  <2>2. \A i \in DOMAIN items : Takes("vals", items[i]) = 0 /\ Gives("vals", items[i]) = 0
    BY <1>2, <2>1, KindsApart
  <2> HIDE DEF items
  <2>3. Heights("vals", n, items, n)
    BY <2>1, <2>2, StillHeights DEF Calm
  <2> QED
    BY <2>1, <2>3 DEF Span, items
<1> QED
  BY <1>3, <1>4

\* The items that change nothing, take one, take one and give one, or give one.
LEMMA SpanItem ==
  ASSUME NEW n \in Nat, NEW item
  PROVE  /\ item.do \in {"emit", "testVariant", "arm"} => Span(n, <<item>>, n)
         /\ item.do \in {"jumpOn", "bindTo", "branch", "toR0", "note", "copyTo"}
              => Span(n + 1, <<item>>, n)
         /\ item.do \in {"require", "negate", "assignTo", "make", "dispatch"}
              => Span(n + 1, <<item>>, n + 1)
         /\ item.do \in {"yield", "zero", "fresh"} => Span(n, <<item>>, n + 1)
         /\ item.do = "operate" => Span(n + 1 + 1, <<item>>, n + 1)
         /\ item.do = "forget" /\ item.n \in Nat => Span(n + item.n, <<item>>, n)
         /\ item.do = "call" /\ Len(item.node.args) \in Nat
              => Span(n + Len(item.node.args), <<item>>, n + 1)
         /\ item.do = "variant" /\ item.node.payload = Nil => Span(n, <<item>>, n + 1)
         /\ item.do = "variant" /\ item.node.payload # Nil => Span(n + 1, <<item>>, n + 1)
<1> DEFINE t == Takes("vals", item)
           g == Gives("vals", item)
<1>1. ASSUME NEW a \in Nat, t \in Nat, t <= a, NEW b \in Nat, b = a - t + g,
             item.do \notin {"exitScope", "pushLoop", "popLoop"}
      PROVE  Span(a, <<item>>, b)
  <2>1. Moves("vals", a, item, b)
    BY <1>1 DEF Moves
  <2> QED
    BY <1>1, <2>1, SpanOne
<1>2. item.do \in {"emit", "testVariant", "arm"} => t = 0 /\ g = 0
  BY DEF Takes, Gives
<1>3. item.do \in {"jumpOn", "bindTo", "branch", "toR0", "note", "copyTo"} => t = 1 /\ g = 0
  BY DEF Takes, Gives
<1>4. item.do \in {"require", "negate", "assignTo", "make", "dispatch"} => t = 1 /\ g = 1
  BY DEF Takes, Gives
<1>5. item.do \in {"yield", "zero", "fresh"} => t = 0 /\ g = 1
  BY DEF Takes, Gives
<1>6. item.do = "operate" => t = 2 /\ g = 1
  BY DEF Takes, Gives
<1>7. item.do = "forget" => t = item.n /\ g = 0
  BY DEF Takes, Gives
<1>8. item.do = "call" => t = Len(item.node.args) /\ g = 1
  BY DEF Takes, Gives
<1>9. item.do = "variant" => t = (IF item.node.payload = Nil THEN 0 ELSE 1) /\ g = 1
  BY DEF Takes, Gives
<1> HIDE DEF t, g
<1>10. item.do \in {"emit", "testVariant", "arm"} => Span(n, <<item>>, n)
  BY <1>1, <1>2
<1>11. item.do \in {"jumpOn", "bindTo", "branch", "toR0", "note", "copyTo"}
         => Span(n + 1, <<item>>, n)
  BY <1>1, <1>3
<1>12. item.do \in {"require", "negate", "assignTo", "make", "dispatch"}
         => Span(n + 1, <<item>>, n + 1)
  BY <1>1, <1>4
<1>13. item.do \in {"yield", "zero", "fresh"} => Span(n, <<item>>, n + 1)
  BY <1>1, <1>5
<1>14. item.do = "operate" => Span(n + 1 + 1, <<item>>, n + 1)
  BY <1>1, <1>6
<1>15. item.do = "forget" /\ item.n \in Nat => Span(n + item.n, <<item>>, n)
  BY <1>1, <1>7
<1>16. item.do = "call" /\ Len(item.node.args) \in Nat
         => Span(n + Len(item.node.args), <<item>>, n + 1)
  <2> DEFINE l == Len(item.node.args)
  <2>1. item.do = "call" => t = l /\ g = 1
    BY <1>8
  <2> HIDE DEF l
  <2>2. item.do = "call" /\ l \in Nat => Span(n + l, <<item>>, n + 1)
    BY <1>1, <2>1
  <2> USE DEF l
  <2> QED
    BY <2>2
<1>17. item.do = "variant" /\ item.node.payload = Nil => Span(n, <<item>>, n + 1)
  BY <1>1, <1>9
<1>18. item.do = "variant" /\ item.node.payload # Nil => Span(n + 1, <<item>>, n + 1)
  BY <1>1, <1>9
<1> QED
  BY <1>10, <1>11, <1>12, <1>13, <1>14, <1>15, <1>16, <1>17, <1>18

\* A visitor that only arranges what comes next, and may take some results.
LEMMA SpanStep ==
  ASSUME LabelInv, BalanceInv, NEW items, work # <<>>, Leaves(items),
         Head(work).do \notin {"emit", "exitScope", "pushLoop", "popLoop"},
         IsSeq(vals'), UNCHANGED <<scopes, loops>>, status' # "done",
         Len(vals') = Len(vals) - Takes("vals", Head(work)),
         Span(Len(vals'), items, Len(vals') + Gives("vals", Head(work)))
  PROVE  BalanceInv'
<1>1. ASSUME NEW m, Moves("vals", Len(vals), Head(work), m)
      PROVE  Heights("vals", Len(vals'), items, m)
  <2>1. m = Len(vals') + Gives("vals", Head(work))
    BY <1>1 DEF Moves
  <2> QED
    BY <2>1 DEF Span
<1>2. Calm(items)
  BY DEF Span
<1> QED
  BY <1>1, <1>2, CalmStep

\* Instructions, tests and arms add and take nothing.
LEMMA SpanStill ==
  ASSUME NEW n \in Nat, NEW items, IsSeq(items),
         \A i \in DOMAIN items : items[i].do \in {"emit", "testVariant", "arm"}
  PROVE  Span(n, items, n)
<1>1. \A i \in DOMAIN items : Takes("vals", items[i]) = 0 /\ Gives("vals", items[i]) = 0
  BY DEF Takes, Gives
<1>2. Calm(items)
  BY DEF Calm
<1> QED
  BY <1>1, <1>2, StillHeights DEF Span

\* The step of a visitor that takes nothing,
LEMMA VisitStep ==
  ASSUME LabelInv, BalanceInv, NEW items, NEW kind, Visiting(kind), Leaves(items),
         UNCHANGED <<vals, scopes, loops, status>>,
         Span(Len(vals), items, Len(vals) + Gives("vals", Head(work)))
  PROVE  BalanceInv'
<1>1. work # <<>> /\ Head(work).do = "visit" /\ status' # "done"
  BY DEF Visiting, Doing
<1>2. Takes("vals", Head(work)) = 0
  BY VisitGives
<1>3. IsSeq(vals') /\ Len(vals') = Len(vals) - Takes("vals", Head(work)) /\ vals' = vals
  BY <1>2, EnoughResults, <1>1 DEF BalanceInv
<1> QED
  BY <1>1, <1>3, SpanStep

\* of a statement,
LEMMA VisitStatement ==
  ASSUME LabelInv, BalanceInv, NEW items, NEW kind, Visiting(kind), Leaves(items),
         UNCHANGED <<vals, scopes, loops, status>>,
         kind \in {"expr", "block", "bind", "if", "return", "break", "continue", "fn"},
         \A n \in Nat : Span(n, items, n)
  PROVE  BalanceInv'
<1>1. Gives("vals", Head(work)) = 0
  BY VisitGives
<1>2. Len(vals) \in Nat
  BY SeqLen DEF BalanceInv
<1>3. Span(Len(vals), items, Len(vals) + Gives("vals", Head(work)))
  BY <1>1, <1>2
<1> QED
  BY <1>3, VisitStep

\* of an expression.
LEMMA VisitExpression ==
  ASSUME LabelInv, BalanceInv, NEW items, NEW kind, Visiting(kind), Leaves(items),
         UNCHANGED <<vals, scopes, loops, status>>,
         kind \in {"logical", "binary", "group", "unary", "assign", "call", "callAny",
                   "record", "enum", "match"},
         \A n \in Nat : Span(n, items, n + 1)
  PROVE  BalanceInv'
<1>1. Gives("vals", Head(work)) = 1
  BY VisitGives
<1>2. Len(vals) \in Nat
  BY SeqLen DEF BalanceInv
<1>3. Span(Len(vals), items, Len(vals) + Gives("vals", Head(work)))
  BY <1>1, <1>2
<1> QED
  BY <1>3, VisitStep

\* An operand, and what is made of it.
LEMMA SpanThen ==
  ASSUME NEW n \in Nat, NEW e \in Exprs, NEW item, NEW m, Span(n + 1, <<item>>, m)
  PROVE  Span(n, <<Visit(e), item>>, m)
  BY SpanVisit, SpanTwo

\* The items of the work stack, by the operators that make them.
LEMMA EmitIsEmit ==
  ASSUME NEW n \in Nat
  PROVE  /\ \A insn : Span(n, <<Emit(insn)>>, n)
         /\ \A l : Span(n, <<EmitJump(l)>>, n) /\ Span(n, <<EmitLabel(l)>>, n)
         /\ \A op, l : Span(n + 1, <<JumpOn(op, l)>>, n)
         /\ \A r : Span(n, <<Yield(r)>>, n + 1)
<1>1. \A insn : Emit(insn).do = "emit"
  BY DEF Emit
<1>2. \A op, l : JumpOn(op, l).do = "jumpOn"
  BY DEF JumpOn
<1>3. \A r : Yield(r).do = "yield"
  BY DEF Yield
<1>4. \A insn : Span(n, <<Emit(insn)>>, n)
  BY <1>1, SpanItem
<1>5. \A op, l : Span(n + 1, <<JumpOn(op, l)>>, n)
  BY <1>2, SpanItem
<1>6. \A r : Span(n, <<Yield(r)>>, n + 1)
  BY <1>3, SpanItem
<1> QED
  BY <1>4, <1>5, <1>6 DEF EmitJump, EmitLabel

\* The statements that leave no more than an item, a body or a jump.
LEMMA SimpleStatements ==
  ASSUME LabelInv, BalanceInv, ExpressionStatement \/ Block \/ Function \/ Break \/ Continue
  PROVE  BalanceInv'
<1>1. CASE ExpressionStatement
  <2> DEFINE forget == [do |-> "forget", n |-> 1]
             items == <<Visit(Node.e), forget>>
  <2>1. Node.e \in Exprs /\ Visiting("expr") /\ Leaves(items)
        /\ UNCHANGED <<vals, scopes, loops, status>>
    BY <1>1, StatementParts DEF ExpressionStatement, Expands, others, fixed
  <2>2. ASSUME NEW n \in Nat PROVE Span(n, items, n)
    <3>1. forget.do = "forget" /\ forget.n = 1
      OBVIOUS
    <3> HIDE DEF forget
    <3>2. Span(n + 1, <<forget>>, n)
      BY <3>1, SpanItem
    <3> QED
      BY <2>1, <3>2, SpanThen
  <2> HIDE DEF items
  <2> QED
    BY <2>1, <2>2, VisitStatement
<1>2. CASE Block
  <2> DEFINE items == VisitAll(Node.body)
  <2>1. Node.body \in Seq(Stmts) /\ Visiting("block") /\ Leaves(items)
        /\ UNCHANGED <<vals, scopes, loops, status>>
    BY <1>2, StatementParts DEF Block, Expands, others, fixed
  <2>2. \A n \in Nat : Span(n, items, n)
    BY <2>1, SpanVisitAll
  <2> HIDE DEF items
  <2> QED
    BY <2>1, <2>2, VisitStatement
<1>3. CASE Function
  <2> DEFINE items == IF Node.name = "main" THEN VisitAll(Node.body) ELSE <<>>
  <2>1. Node.body \in Seq(Stmts) /\ Visiting("fn") /\ Leaves(items)
        /\ UNCHANGED <<vals, scopes, loops, status>>
    BY <1>3, StatementParts DEF Function
  <2>2. \A n \in Nat : Span(n, items, n)
    BY <2>1, SpanVisitAll, SpanNone
  <2> HIDE DEF items
  <2> QED
    BY <2>1, <2>2, VisitStatement
<1>4. CASE Break \/ Continue
  <2>1. \E items :
          /\ Leaves(items)
          /\ items = <<>> \/ \E l : items = <<EmitJump(l)>>
    BY <1>4 DEF Break, Continue, Expands
  <2>2. PICK items : Leaves(items) /\ \A n \in Nat : Span(n, items, n)
    BY <2>1, EmitIsEmit, SpanNone
  <2>3. (Visiting("break") \/ Visiting("continue")) /\ UNCHANGED <<vals, scopes, loops, status>>
    BY <1>4 DEF Break, Continue, Expands, others, fixed
  <2> QED
    BY <2>2, <2>3, VisitStatement
<1> QED
  BY <1>1, <1>2, <1>3, <1>4

\* A declaration binds the result of its initializer.
LEMMA DeclareBalance ==
  ASSUME LabelInv, BalanceInv, Declare
  PROVE  BalanceInv'
<1>1. Node.init \in Exprs \cup {Nil} /\ Visiting("bind")
      /\ UNCHANGED <<vals, scopes, loops, status>>
  BY StatementParts DEF Declare, fixed
<1>2. CASE Node.init = Nil
  <2>1. Leaves(<<>>)
    BY <1>2 DEF Declare
  <2> QED
    BY <1>1, <2>1, SpanNone, VisitStatement
<1>3. CASE Node.init # Nil
  <2> DEFINE items == <<Visit(Node.init), Then("bindTo", Node)>>
  <2>1. Leaves(items)
    BY <1>3 DEF Declare
  <2>2. Then("bindTo", Node).do = "bindTo"
    BY DEF Then
  <2>3. \A n \in Nat : Span(n + 1, <<Then("bindTo", Node)>>, n)
    BY <2>2, SpanItem
  <2>4. \A n \in Nat : Span(n, items, n)
    BY <1>1, <1>3, <2>3, SpanThen
  <2> HIDE DEF items
  <2> QED
    BY <1>1, <2>1, <2>4, VisitStatement
<1> QED
  BY <1>2, <1>3

\* If takes its condition's result before its branches are visited.
LEMMA IfBalance ==
  ASSUME LabelInv, BalanceInv, If
  PROVE  BalanceInv'
<1> DEFINE branch == [do |-> "branch", node |-> Node, end |-> labels]
           items == <<Visit(Node.cond), branch, EmitLabel(labels)>>
<1>1. Node.cond \in Exprs /\ Visiting("if") /\ Leaves(items)
      /\ UNCHANGED <<vals, scopes, loops, status>>
  BY StatementParts DEF If, fixed
<1>2. branch.do = "branch"
  OBVIOUS
<1> HIDE DEF branch
<1>3. ASSUME NEW n \in Nat PROVE Span(n, items, n)
  <2>1. Span(n, <<Visit(Node.cond)>>, n + 1) /\ Span(n + 1, <<branch>>, n)
        /\ Span(n, <<EmitLabel(labels)>>, n)
    BY <1>1, <1>2, SpanVisit, SpanItem, EmitIsEmit
  <2> QED
    BY <2>1, SpanThree
<1> HIDE DEF items
<1> QED
  BY <1>1, <1>3, VisitStatement

\* A return takes the result of its value.
LEMMA ReturnBalance ==
  ASSUME LabelInv, BalanceInv, Return
  PROVE  BalanceInv'
<1> DEFINE toR0 == [do |-> "toR0"]
           value == IF Node.value = Nil THEN <<>> ELSE <<Visit(Node.value), toR0>>
           halt == <<Emit(Insn("HALT", <<>>))>>
<1>1. Node.value \in Exprs \cup {Nil} /\ Visiting("return") /\ Leaves(value \o halt)
      /\ UNCHANGED <<vals, scopes, loops, status>>
  BY StatementParts DEF Return, Expands, others, fixed
<1>2. toR0.do = "toR0"
  OBVIOUS
<1> HIDE DEF toR0
<1>3. ASSUME NEW n \in Nat PROVE Span(n, value \o halt, n)
  <2>1. Span(n, value, n)
    <3>1. Span(n + 1, <<toR0>>, n)
      BY <1>2, SpanItem
    <3> QED
      BY <1>1, <3>1, SpanThen, SpanNone
  <2>2. Span(n, halt, n)
    BY EmitIsEmit
  <2> HIDE DEF value, halt
  <2> QED
    BY <2>1, <2>2, SpanCat
<1> HIDE DEF value, halt
<1> QED
  BY <1>1, <1>3, VisitStatement

\* The expressions with one operand, and what is made of it.
LEMMA OperandBalance ==
  ASSUME LabelInv, BalanceInv, \/ Grouping \/ Unary \/ Assign \/ Construct \/ Match
  PROVE  BalanceInv'
<1>1. \E e, item :
         /\ e \in Exprs
         /\ Leaves(<<Visit(e), item>>)
         /\ item.do \in {"require", "negate", "assignTo", "make", "dispatch"}
  <2>1. CASE Grouping
    BY <2>1, ExpressionParts DEF Grouping, Expands
  <2>2. CASE Unary
    BY <2>2, ExpressionParts DEF Unary, Expands, Then
  <2>3. CASE Assign
    BY <2>3, ExpressionParts DEF Assign, Expands, Then
  <2>4. CASE Construct
    <3>1. Head(Node.args) \in Exprs
      BY <2>4, ExpressionParts DEF Construct
    <3>2. Leaves(<<Visit(Head(Node.args)), Then("make", Node)>>)
      BY <2>4 DEF Construct, Expands
    <3>3. Then("make", Node).do = "make"
      BY DEF Then
    <3> QED
      BY <3>1, <3>2, <3>3
  <2>5. CASE Match
    BY <2>5, ExpressionParts DEF Match, Expands, Then
  <2> QED
    BY <2>1, <2>2, <2>3, <2>4, <2>5
<1>2. PICK items : Leaves(items) /\ \A n \in Nat : Span(n, items, n + 1)
  <2>1. PICK e, item :
           /\ e \in Exprs
           /\ Leaves(<<Visit(e), item>>)
           /\ item.do \in {"require", "negate", "assignTo", "make", "dispatch"}
    BY <1>1
  <2>2. \A n \in Nat : Span(n + 1, <<item>>, n + 1)
    BY <2>1, SpanItem
  <2>3. \A n \in Nat : Span(n, <<Visit(e), item>>, n + 1)
    BY <2>1, <2>2, SpanThen
  <2> QED
    BY <2>1, <2>3
<1>3. /\ UNCHANGED <<vals, scopes, loops, status>>
      /\ \E kind \in {"group", "unary", "assign", "call", "match"} : Visiting(kind)
  BY DEF Grouping, Unary, Assign, Construct, Match, Expands, others, fixed
<1> QED
  BY <1>2, <1>3, VisitExpression

\* The expressions with two operands, and print.
LEMMA BinaryBalance ==
  ASSUME LabelInv, BalanceInv, Binary \/ CallPrint
  PROVE  BalanceInv'
<1>1. CASE Binary
  <2> DEFINE op == Then("operate", Node)
             items == <<Visit(Node.left), Visit(Node.right), op>>
  <2>1. /\ Node.left \in Exprs /\ Node.right \in Exprs /\ Visiting("binary") /\ Leaves(items)
        /\ UNCHANGED <<vals, scopes, loops, status>>
    BY <1>1, ExpressionParts DEF Binary, Expands, others, fixed
  <2>2. op.do = "operate"
    BY DEF Then
  <2> HIDE DEF op
  <2>3. ASSUME NEW n \in Nat PROVE Span(n, items, n + 1)
    <3>1. Span(n, <<Visit(Node.left)>>, n + 1)
      BY <2>1, SpanVisit
    <3>2. n + 1 \in Nat
      OBVIOUS
    <3>3. Span(n + 1, <<Visit(Node.right)>>, n + 1 + 1)
      BY <2>1, <3>2, SpanVisit
    <3>4. Span(n + 1 + 1, <<op>>, n + 1)
      BY <2>2, SpanItem
    <3> QED
      BY <3>1, <3>3, <3>4, SpanThree
  <2> HIDE DEF items
  <2> QED
    BY <2>1, <2>3, VisitExpression
<1>2. CASE CallPrint
  <2> DEFINE note == [do |-> "note"]
             zero == [do |-> "zero"]
             items == <<Visit(Node.args[1]), note, zero>>
  <2>1. /\ Node.args[1] \in Exprs /\ Visiting("call") /\ Leaves(items)
        /\ UNCHANGED <<vals, scopes, loops, status>>
    BY <1>2, ExpressionParts DEF CallPrint, Expands, others, fixed
  <2>2. note.do = "note" /\ zero.do = "zero"
    OBVIOUS
  <2> HIDE DEF note, zero
  <2>3. ASSUME NEW n \in Nat PROVE Span(n, items, n + 1)
    <3>1. /\ Span(n, <<Visit(Node.args[1])>>, n + 1) /\ Span(n + 1, <<note>>, n)
          /\ Span(n, <<zero>>, n + 1)
      BY <2>1, <2>2, SpanVisit, SpanItem
    <3> QED
      BY <3>1, SpanThree
  <2> HIDE DEF items
  <2> QED
    BY <2>1, <2>3, VisitExpression
<1> QED
  BY <1>1, <1>2

\* The expressions that visit a list and take all its results.
LEMMA ListBalance ==
  ASSUME LabelInv, BalanceInv, CallAnything \/ RecordLiteral \/ CallFunction \/ EnumLiteral
  PROVE  BalanceInv'
<1>1. ASSUME NEW es \in Seq(Exprs), NEW n \in Nat
      PROVE  Span(n, VisitAll(es), n + Len(es)) /\ Len(es) \in Nat
  BY <1>1, SpanVisitAll
<1>2. CASE CallAnything \/ RecordLiteral
  <2>1. ASSUME NEW es \in Seq(Exprs), NEW drop, drop.do = "forget", drop.n = Len(es),
               NEW item, item.do \in {"zero", "fresh"}, NEW n \in Nat
        PROVE  Span(n, VisitAll(es) \o <<drop, item>>, n + 1)
    <3>1. Span(n, VisitAll(es), n + Len(es)) /\ Len(es) \in Nat
      BY <1>1
    <3>2. Span(n + Len(es), <<drop>>, n)
      <4>1. drop.do = "forget" /\ drop.n \in Nat => Span(n + drop.n, <<drop>>, n)
        BY SpanItem
      <4> QED
        BY <2>1, <3>1, <4>1
    <3>3. Span(n, <<item>>, n + 1)
      BY <2>1, SpanItem
    <3>4. Span(n + Len(es), <<drop, item>>, n + 1)
      BY <3>2, <3>3, SpanTwo
    <3> QED
      BY <3>1, <3>4, SpanCat
  <2>2. CASE CallAnything
    <3> DEFINE drop == [do |-> "forget", n |-> Len(Node.args)]
               item == [do |-> "zero"]
               items == VisitAll(Node.args) \o <<drop, item>>
    <3>1. /\ Node.args \in Seq(Exprs) /\ Visiting("callAny") /\ Leaves(items)
          /\ UNCHANGED <<vals, scopes, loops, status>>
      BY <2>2, ExpressionParts DEF CallAnything, Expands, others, fixed
    <3>2. drop.do = "forget" /\ drop.n = Len(Node.args) /\ item.do = "zero"
      OBVIOUS
    <3> HIDE DEF drop, item
    <3>3. \A n \in Nat : Span(n, items, n + 1)
      BY <2>1, <3>1, <3>2
    <3> HIDE DEF items
    <3> QED
      BY <3>1, <3>3, VisitExpression
  <2>3. CASE RecordLiteral
    <3> DEFINE drop == [do |-> "forget", n |-> Len(Node.fields)]
               item == [do |-> "fresh", primitive |-> PrimitiveOr(Node.ty, "Integer")]
               items == VisitAll(Node.fields) \o <<drop, item>>
    <3>1. /\ Node.fields \in Seq(Exprs) /\ Visiting("record") /\ Leaves(items)
          /\ UNCHANGED <<vals, scopes, loops, status>>
      BY <2>3, ExpressionParts DEF RecordLiteral, Expands, others, fixed
    <3>2. drop.do = "forget" /\ drop.n = Len(Node.fields) /\ item.do = "fresh"
      OBVIOUS
    <3> HIDE DEF drop, item
    <3>3. \A n \in Nat : Span(n, items, n + 1)
      BY <2>1, <3>1, <3>2
    <3> HIDE DEF items
    <3> QED
      BY <3>1, <3>3, VisitExpression
  <2> QED
    BY <1>2, <2>2, <2>3
<1>3. CASE CallFunction
  <2> DEFINE call == Then("call", Node)
             items == VisitAll(Node.args) \o <<call>>
  <2>1. /\ Node.args \in Seq(Exprs) /\ Visiting("call") /\ Leaves(items)
        /\ UNCHANGED <<vals, scopes, loops, status>>
    BY <1>3, ExpressionParts DEF CallFunction, Expands, others, fixed
  <2>2. call.do = "call" /\ call.node = Node
    BY DEF Then
  <2> HIDE DEF call
  <2>3. ASSUME NEW n \in Nat PROVE Span(n, items, n + 1)
    <3>1. Span(n, VisitAll(Node.args), n + Len(Node.args)) /\ Len(Node.args) \in Nat
      BY <1>1, <2>1
    <3>2. Span(n + Len(call.node.args), <<call>>, n + 1)
      BY <2>2, <3>1, SpanItem
    <3> QED
      BY <2>2, <3>1, <3>2, SpanCat
  <2> HIDE DEF items
  <2> QED
    BY <2>1, <2>3, VisitExpression
<1>4. CASE EnumLiteral
  <2> DEFINE make == Then("variant", Node)
             payload == IF Node.payload = Nil THEN <<>> ELSE <<Visit(Node.payload)>>
             items == payload \o <<make>>
  <2>1. /\ Node.payload \in Exprs \cup {Nil} /\ Visiting("enum") /\ Leaves(items)
        /\ UNCHANGED <<vals, scopes, loops, status>>
    BY <1>4, ExpressionParts DEF EnumLiteral, Expands, others, fixed
  <2>2. make.do = "variant" /\ make.node = Node
    BY DEF Then
  <2> HIDE DEF make
  <2>3. ASSUME NEW n \in Nat PROVE Span(n, items, n + 1)
    <3>1. CASE Node.payload = Nil
      <4>1. Span(n, payload, n) /\ Span(n, <<make>>, n + 1)
        BY <2>2, <3>1, SpanNone, SpanItem
      <4> HIDE DEF payload
      <4> QED
        BY <4>1, SpanCat
    <3>2. CASE Node.payload # Nil
      <4>1. Span(n, payload, n + 1) /\ Span(n + 1, <<make>>, n + 1)
        BY <2>1, <2>2, <3>2, SpanVisit, SpanItem
      <4> HIDE DEF payload
      <4> QED
        BY <4>1, SpanCat
    <3> QED
      BY <3>1, <3>2
  <2> HIDE DEF items
  <2> QED
    BY <2>1, <2>3, VisitExpression
<1> QED
  BY <1>2, <1>3, <1>4

\* Branch takes the condition and leaves two statements.
LEMMA BranchBalance ==
  ASSUME LabelInv, BalanceInv, Branch
  PROVE  BalanceInv'
<1>1. /\ work # <<>> /\ Head(work).do = "branch" /\ vals' = Without(1)
      /\ UNCHANGED <<scopes, loops>> /\ status' # "done"
  BY DEF Branch, Doing, fixed
<1>2. Takes("vals", Head(work)) = 1 /\ Gives("vals", Head(work)) = 0
  BY <1>1 DEF Takes, Gives
<1>3. 1 \in 0..Len(vals) /\ Len(vals) \in Nat
  BY <1>1, <1>2, EnoughResults
<1>4. IsSeq(vals') /\ Len(vals') = Len(vals) - 1 /\ Len(vals') \in Nat
  BY <1>1, <1>3, EnoughResults
<1>5. Node.then \in Stmts /\ (Node.otherwise # Nil => Node.otherwise \in Stmts)
  <2>1. Node \in Stmts /\ Node.k = "if"
    BY <1>1, AtHand DEF IsItem, Node
  <2> QED
    BY <2>1, SyntaxAssumption DEF IsStmt
<1>6. PICK items : Leaves(items) /\ \A n \in Nat : Span(n, items, n)
  <2>1. CASE Node.otherwise # Nil
    <3> DEFINE end == Head(work).end
               a == <<Visit(Node.then), EmitJump(end)>>
               b == <<EmitLabel(labels), Visit(Node.otherwise)>>
               items == <<Visit(Node.then), EmitJump(end), EmitLabel(labels),
                          Visit(Node.otherwise)>>
    <3>1. Leaves(items)
      BY <2>1 DEF Branch
    <3>2. ASSUME NEW n \in Nat PROVE Span(n, items, n)
      <4>1. /\ Span(n, <<Visit(Node.then)>>, n) /\ Span(n, <<EmitJump(end)>>, n)
            /\ Span(n, <<EmitLabel(labels)>>, n) /\ Span(n, <<Visit(Node.otherwise)>>, n)
        BY <1>5, <2>1, SpanVisit, EmitIsEmit
      <4> HIDE DEF end
      <4>2. Span(n, a, n) /\ Span(n, b, n)
        BY <4>1, SpanTwo
      <4>3. items = a \o b
        OBVIOUS
      <4> HIDE DEF a, b, items
      <4>4. Span(n, a \o b, n)
        BY <4>2, SpanCat
      <4> QED
        BY <4>3, <4>4
    <3> HIDE DEF items
    <3> QED
      BY <3>1, <3>2
  <2>2. CASE Node.otherwise = Nil
    <3>1. Leaves(<<Visit(Node.then)>>)
      BY <2>2 DEF Branch
    <3>2. \A n \in Nat : Span(n, <<Visit(Node.then)>>, n)
      BY <1>5, SpanVisit
    <3> QED
      BY <3>1, <3>2
  <2> QED
    BY <2>1, <2>2
<1>7. Len(vals') = Len(vals) - Takes("vals", Head(work))
      /\ Span(Len(vals'), items, Len(vals') + Gives("vals", Head(work)))
  BY <1>2, <1>4, <1>6
<1> QED
  BY <1>1, <1>4, <1>6, <1>7, SpanStep

\* Logical takes both conditions and yields one result.
LEMMA LogicalBalance ==
  ASSUME LabelInv, BalanceInv, Logical
  PROVE  BalanceInv'
<1> DEFINE end == labels
           right == labels + 1
           false == labels + 2
           true == labels + 3
           dest == Typed(regs, "Boolean")
           short == IF Node.op = "&&" THEN JumpOn("JZ", false) ELSE JumpOn("JNZ", true)
           zero == Emit(LoadImm(dest, 0))
           one == Emit(LoadImm(dest, 1))
           items == <<Visit(Node.left), short, EmitJump(right), EmitLabel(right), Visit(Node.right),
                      JumpOn("JZ", false), EmitJump(true), EmitLabel(false), zero, EmitJump(end),
                      EmitLabel(true), one, EmitLabel(end), Yield(dest)>>
           a == <<Visit(Node.left), short, EmitJump(right)>>
           b == <<EmitLabel(right), Visit(Node.right), JumpOn("JZ", false)>>
           c == <<EmitJump(true), EmitLabel(false), zero>>
           d == <<EmitJump(end), EmitLabel(true), one>>
           e == <<EmitLabel(end), Yield(dest)>>
<1>1. /\ Node.left \in Exprs /\ Node.right \in Exprs /\ Visiting("logical") /\ Leaves(items)
      /\ UNCHANGED <<vals, scopes, loops, status>>
  BY ExpressionParts DEF Logical, fixed
<1> HIDE DEF end, right, false, true, dest
<1>2. \A n \in Nat : Span(n, <<zero>>, n) /\ Span(n, <<one>>, n) /\ Span(n + 1, <<short>>, n)
  BY EmitIsEmit
<1> HIDE DEF short, zero, one
<1>3. items = a \o (b \o (c \o (d \o e)))
  <2> DEFINE de == <<EmitJump(end), EmitLabel(true), one, EmitLabel(end), Yield(dest)>>
             cde == <<EmitJump(true), EmitLabel(false), zero, EmitJump(end), EmitLabel(true), one,
                      EmitLabel(end), Yield(dest)>>
             bcde == <<EmitLabel(right), Visit(Node.right), JumpOn("JZ", false), EmitJump(true),
                       EmitLabel(false), zero, EmitJump(end), EmitLabel(true), one,
                       EmitLabel(end), Yield(dest)>>
  <2>1. de = d \o e
    OBVIOUS
  <2>2. cde = c \o de
    OBVIOUS
  <2>3. bcde = b \o cde
    OBVIOUS
  <2>4. items = a \o bcde
    OBVIOUS
  <2> QED
    BY ONLY <2>1, <2>2, <2>3, <2>4
<1>4. ASSUME NEW n \in Nat PROVE Span(n, items, n + 1)
  <2>1. /\ Span(n, <<Visit(Node.left)>>, n + 1) /\ Span(n, <<Visit(Node.right)>>, n + 1)
        /\ Span(n + 1, <<short>>, n) /\ Span(n + 1, <<JumpOn("JZ", false)>>, n)
        /\ Span(n, <<zero>>, n) /\ Span(n, <<one>>, n) /\ Span(n, <<Yield(dest)>>, n + 1)
        /\ \A l : Span(n, <<EmitJump(l)>>, n) /\ Span(n, <<EmitLabel(l)>>, n)
    BY <1>1, <1>2, SpanVisit, EmitIsEmit
  <2>2. Span(n, a, n)
    BY <2>1, SpanThree
  <2>3. Span(n, b, n)
    BY <2>1, SpanThree
  <2>4. Span(n, c, n)
    BY <2>1, SpanThree
  <2>5. Span(n, d, n)
    BY <2>1, SpanThree
  <2>6. Span(n, e, n + 1)
    BY <2>1, SpanTwo
  <2> HIDE DEF a, b, c, d, e, items
  <2>7. Span(n, d \o e, n + 1)
    BY <2>5, <2>6, SpanCat
  <2>8. Span(n, c \o (d \o e), n + 1)
    BY <2>4, <2>7, SpanCat
  <2>9. Span(n, b \o (c \o (d \o e)), n + 1)
    BY <2>3, <2>8, SpanCat
  <2>10. Span(n, a \o (b \o (c \o (d \o e))), n + 1)
    BY <2>2, <2>9, SpanCat
  <2> QED
    BY <1>3, <2>10
<1> HIDE DEF items
<1> QED
  BY <1>1, <1>4, VisitExpression

\* Dispatch takes the scrutinee and yields the match's register at the end.
LEMMA DispatchBalance ==
  ASSUME LabelInv, BalanceInv, Dispatch
  PROVE  BalanceInv'
<1> DEFINE dest == Typed(regs, PrimitiveOr(Node.ty, "Integer"))
           end == labels
           trap == labels + 1
           m == [node |-> Node, scrutinee |-> Result(0), dest |-> dest,
                 flag |-> Typed(regs + 1, "Boolean"),
                 payload |-> Typed(regs + 2, "Integer"),
                 end |-> end, trap |-> trap, heads |-> VariantHeads(Node.arms)]
           tests == [v \in DOMAIN m.heads |-> [do |-> "testVariant", match |-> m, v |-> v]]
           halt == Emit(Insn("TRAP", <<>>))
           nop == Emit(Insn("NOP", <<>>))
           a == <<EmitLabel(trap), halt, EmitLabel(end)>>
           b == <<nop, Yield(dest)>>
           rest == <<EmitLabel(trap), halt, EmitLabel(end), nop, Yield(dest)>>
           items == tests \o rest
<1>1. /\ work # <<>> /\ Head(work).do = "dispatch" /\ vals' = Without(1) /\ Leaves(items)
      /\ UNCHANGED <<scopes, loops>> /\ status' # "done"
  BY DEF Dispatch, Doing, fixed
<1>2. Takes("vals", Head(work)) = 1 /\ Gives("vals", Head(work)) = 1
  BY <1>1 DEF Takes, Gives
<1>3. 1 \in 0..Len(vals) /\ Len(vals) \in Nat
  BY <1>2, <1>1, EnoughResults
<1>4. IsSeq(vals') /\ Len(vals') = Len(vals) - 1 /\ Len(vals') \in Nat
  BY <1>1, <1>3, EnoughResults
<1>5. IsSeq(tests) /\ \A v \in DOMAIN tests : tests[v].do = "testVariant"
  <2>1. IsMatch(Node)
    BY <1>1, AtHand DEF IsItem, Node
  <2>2. IsSeq(Node.arms)
    BY <2>1, SyntaxAssumption DEF IsMatch, IsExpr
  <2>3. m.heads \in Seq(DOMAIN Node.arms)
    BY <2>2, ArmsAreListed
  <2>4. Len(m.heads) \in Nat /\ DOMAIN tests = 1..Len(m.heads)
    BY <2>3
  <2> HIDE DEF m
  <2>5. tests \in Seq({tests[v] : v \in DOMAIN tests})
    BY <2>4
  <2> QED
    BY <2>5, SeqIn
<1>6. ASSUME NEW n \in Nat PROVE Span(n, items, n + 1)
  <2> HIDE DEF tests
  <2>1. Span(n, tests, n)
    BY <1>5, SpanStill
  <2>2. /\ Span(n, <<EmitLabel(trap)>>, n) /\ Span(n, <<halt>>, n) /\ Span(n, <<EmitLabel(end)>>, n)
        /\ Span(n, <<nop>>, n) /\ Span(n, <<Yield(dest)>>, n + 1)
    BY EmitIsEmit
  <2> HIDE DEF trap, end, halt, nop, dest
  <2>3. Span(n, a, n) /\ Span(n, b, n + 1)
    BY <2>2, SpanTwo, SpanThree
  <2>4. rest = a \o b
    OBVIOUS
  <2> HIDE DEF a, b, rest
  <2>5. Span(n, rest, n + 1)
    BY <2>3, <2>4, SpanCat
  <2> QED
    BY <2>1, <2>5, SpanCat
<1> HIDE DEF items
<1>7. Len(vals') = Len(vals) - Takes("vals", Head(work))
      /\ Span(Len(vals'), items, Len(vals') + Gives("vals", Head(work)))
  BY <1>2, <1>4, <1>6
<1> QED
  BY <1>1, <1>4, <1>7, SpanStep

\* TestVariant leaves arms and jumps.
LEMMA TestVariantBalance ==
  ASSUME LabelInv, BalanceInv, TestVariant
  PROVE  BalanceInv'
<1> DEFINE m == Head(work).match
           v == Head(work).v
           arms == ArmsOf(m.node.arms, m.heads[v])
           last == v = Len(m.heads)
           next == IF last THEN m.trap ELSE labels
           test == EmitAll(VariantTest(m, arms, next))
           each == [a \in DOMAIN arms |->
                      [do |-> "arm", match |-> m, arms |-> arms, a |-> a, next |-> next]]
           label == IF last THEN <<>> ELSE <<EmitLabel(next)>>
           items == test \o each \o label
<1>1. /\ work # <<>> /\ Head(work).do = "testVariant" /\ Leaves(items)
      /\ UNCHANGED <<vals, scopes, loops>> /\ status' # "done"
  BY DEF TestVariant, Doing, fixed
<1>2. Takes("vals", Head(work)) = 0 /\ Gives("vals", Head(work)) = 0
  BY <1>1 DEF Takes, Gives
<1>3. IsSeq(test) /\ \A i \in DOMAIN test : test[i].do = "emit"
  <2> HIDE DEF next, arms
  <2>1. IsSeq(test)
    BY VariantTestShape, EmitAllCat
  <2>2. \A i \in DOMAIN test : test[i].do = "emit"
    BY DEF EmitAll, Emit
  <2> QED
    BY <2>1, <2>2
<1>4. IsSeq(each) /\ \A i \in DOMAIN each : each[i].do = "arm"
  <2>1. IsMatch(m.node)
    BY <1>1, AtHand DEF IsItem
  <2>2. IsSeq(m.node.arms)
    BY <2>1, SyntaxAssumption DEF IsMatch, IsExpr
  <2>3. arms \in Seq(DOMAIN m.node.arms)
    BY <2>2, ArmsAreListed
  <2>4. Len(arms) \in Nat /\ DOMAIN each = 1..Len(arms)
    BY <2>3
  <2> HIDE DEF arms, m, next
  <2>5. each \in Seq({each[a] : a \in DOMAIN each})
    BY <2>4
  <2>6. IsSeq(each)
    BY <2>5, SeqIn
  <2> QED
    BY <2>6
<1>5. ASSUME NEW n \in Nat PROVE Span(n, items, n)
  <2>1. Span(n, label, n)
    BY SpanNone, EmitIsEmit
  <2> HIDE DEF test, each, label
  <2>2. Span(n, test, n)
    BY <1>3, SpanStill
  <2>3. Span(n, each, n)
    BY <1>4, SpanStill
  <2>4. Span(n, test \o each, n)
    BY <2>2, <2>3, SpanCat
  <2> QED
    BY <2>1, <2>4, SpanCat
<1> HIDE DEF items
<1>6. IsSeq(vals') /\ Len(vals') \in Nat /\ Len(vals') = Len(vals) - Takes("vals", Head(work))
      /\ Span(Len(vals'), items, Len(vals') + Gives("vals", Head(work)))
  BY <1>1, <1>2, <1>5, SeqLen DEF BalanceInv
<1> QED
  BY <1>1, <1>6, SpanStep

\* Arm opens a scope and leaves the item that closes it, after guard and body.
LEMMA ArmBalance ==
  ASSUME LabelInv, BalanceInv, Arm
  PROVE  BalanceInv'
<1> DEFINE m == Head(work).match
           arms == Head(work).arms
           a == Head(work).a
           arm == m.node.arms[arms[a]]
           last == a = Len(arms)
           nextArm == IF last THEN Head(work).next ELSE labels
           guard == IF arm.guard = Nil \/ m.node.meta = Nil
                    THEN <<>>
                    ELSE <<Emit(Note(<<>>)), Visit(arm.guard), JumpOn("JZ", nextArm)>>
           copy == [do |-> "copyTo", reg |-> m.dest]
           body == <<Visit(arm.body), copy, EmitJump(m.end)>>
           label == IF last THEN <<>> ELSE <<EmitLabel(nextArm)>>
           exit == [do |-> "exitScope"]
           calm == guard \o body \o label
           items == calm \o <<exit>>
<1>1. /\ work # <<>> /\ Head(work).do = "arm" /\ Leaves(items)
      /\ UNCHANGED <<vals, loops>> /\ status' # "done"
      /\ \E x : scopes' = Append(scopes, x)
  BY DEF Arm, Doing
<1>2. /\ Takes("vals", Head(work)) = 0 /\ Gives("vals", Head(work)) = 0
      /\ Takes("scopes", Head(work)) = 0 /\ Gives("scopes", Head(work)) = 0
      /\ After(loops, Head(work)) = loops
  BY <1>1 DEF Takes, Gives, After
<1>3. arm.guard \in Exprs \cup {Nil} /\ arm.body \in Exprs
  <2>1. /\ IsMatch(m.node) /\ arms \in Seq(DOMAIN m.node.arms) /\ a \in DOMAIN arms
    BY <1>1, AtHand DEF IsItem
  <2>2. arms[a] \in DOMAIN m.node.arms
    BY <2>1
  <2> QED
    BY <2>1, <2>2, SyntaxAssumption DEF IsMatch, IsExpr
<1>4. ASSUME NEW n \in Nat PROVE Span(n, calm, n)
  <2>1. Span(n, guard, n)
    <3>1. CASE arm.guard = Nil \/ m.node.meta = Nil
      BY <3>1, SpanNone
    <3>2. CASE ~(arm.guard = Nil \/ m.node.meta = Nil)
      <4>1. /\ Span(n, <<Emit(Note(<<>>))>>, n) /\ Span(n, <<Visit(arm.guard)>>, n + 1)
            /\ Span(n + 1, <<JumpOn("JZ", nextArm)>>, n)
        BY <1>3, <3>2, SpanVisit, EmitIsEmit
      <4>2. guard = <<Emit(Note(<<>>)), Visit(arm.guard), JumpOn("JZ", nextArm)>>
        BY <3>2
      <4> HIDE DEF nextArm, arm, guard
      <4>3. Span(n, <<Emit(Note(<<>>)), Visit(arm.guard), JumpOn("JZ", nextArm)>>, n)
        BY <4>1, SpanThree
      <4> QED
        BY <4>2, <4>3
    <3> QED
      BY <3>1, <3>2
  <2>2. Span(n, body, n)
    <3>1. Span(n, <<Visit(arm.body)>>, n + 1) /\ Span(n, <<EmitJump(m.end)>>, n)
      BY <1>3, SpanVisit, EmitIsEmit
    <3>2. copy.do = "copyTo"
      OBVIOUS
    <3> HIDE DEF copy, arm, m
    <3>3. Span(n + 1, <<copy>>, n)
      BY <3>2, SpanItem
    <3> QED
      BY <3>1, <3>3, SpanThree
  <2>3. Span(n, label, n)
    BY SpanNone, EmitIsEmit
  <2> HIDE DEF guard, body, label
  <2>4. Span(n, guard \o body, n)
    BY <2>1, <2>2, SpanCat
  <2> QED
    BY <2>3, <2>4, SpanCat
<1>5. exit.do = "exitScope"
  OBVIOUS
<1> HIDE DEF calm, exit
<1>6. Calm(calm) /\ IsSeq(calm) /\ IsSeq(<<exit>>) /\ IsSeq(items)
  <2>1. Calm(calm)
    BY <1>4 DEF Span
  <2>2. IsSeq(<<exit>>)
    BY SeqIn, <<exit>> \in Seq({exit})
  <2> QED
    BY <2>1, <2>2, SeqCat DEF Calm
<1>7. Len(vals) \in Nat /\ Len(scopes) \in Nat /\ IsSeq(vals') /\ IsSeq(scopes')
      /\ Len(scopes') = Len(scopes) + 1
  BY <1>1, SeqLen, SeqAppend DEF BalanceInv
<1>8. ASSUME NEW n \in Nat
      PROVE  Heights("vals", n, items, n) /\ Heights("scopes", n + 1, items, n)
  <2>1. Moves("vals", n, exit, n) /\ Moves("scopes", n + 1, exit, n)
    <3>1. /\ Takes("vals", exit) = 0 /\ Gives("vals", exit) = 0
          /\ Takes("scopes", exit) = 1 /\ Gives("scopes", exit) = 0
      BY <1>5 DEF Takes, Gives
    <3> QED
      BY <3>1 DEF Moves
  <2>2. Heights("vals", n, <<exit>>, n) /\ Heights("scopes", n + 1, <<exit>>, n)
    BY <2>1, HeightsOne
  <2>3. Heights("vals", n, calm, n)
    BY <1>4 DEF Span
  <2>4. n + 1 \in Nat
    OBVIOUS
  <2>5. Heights("scopes", n + 1, calm, n + 1)
    BY <1>6, <2>4, CalmScopes
  <2> QED
    BY <1>6, <2>2, <2>3, <2>5, HeightsCat
<1>9. Nests(loops', items, loops)
  <2>1. IsSeq(loops) /\ loops' = loops
    BY <1>1 DEF LabelInv
  <2>2. Nests(loops, calm, loops)
    BY <1>6, <2>1, CalmNests
  <2>3. Nests(loops, <<exit>>, loops)
    <3> DEFINE st == [i \in {0, 1} |-> loops]
    <3>1. /\ st[0] = loops /\ st[1] = loops /\ Len(<<exit>>) = 1 /\ DOMAIN <<exit>> = {1}
          /\ <<exit>>[1] = exit
      OBVIOUS
    <3>2. Turns(loops, exit, loops)
      BY <1>5, <2>1 DEF Turns, After
    <3> HIDE DEF st
    <3> QED
      BY <1>5, <2>1, <3>1, <3>2 DEF Nests
  <2>4. <<exit>>[1].do # "popLoop"
    BY <1>5
  <2> QED
    BY <1>6, <2>1, <2>2, <2>3, <2>4, NestsCat
<1>12. items # <<>> => items[1].do # "popLoop"
  <2>1. ASSUME NEW i \in DOMAIN items PROVE items[i].do # "popLoop"
    <3>1. CASE i \in DOMAIN calm /\ items[i] = calm[i]
      BY <1>6, <3>1 DEF Calm
    <3>2. CASE i - Len(calm) \in DOMAIN <<exit>> /\ items[i] = <<exit>>[i - Len(calm)]
      BY <1>5, <3>2
    <3> QED
      BY <1>6, <3>1, <3>2, CatAt
  <2> HIDE DEF items
  <2> QED
    BY <1>6, <2>1, HeadAndTail
<1> HIDE DEF items
<1>10. ASSUME NEW k, Moves("vals", Len(vals), Head(work), k)
       PROVE  Heights("vals", Len(vals'), items, k)
  <2>1. k = Len(vals)
    BY <1>2, <1>7, <1>10 DEF Moves
  <2> QED
    BY <1>1, <1>7, <1>8, <2>1
<1>11. ASSUME NEW k, Moves("scopes", Len(scopes), Head(work), k)
       PROVE  Heights("scopes", Len(scopes'), items, k)
  <2>1. k = Len(scopes)
    BY <1>2, <1>7, <1>11 DEF Moves
  <2> QED
    BY <1>7, <1>8, <2>1
<1> QED
  BY <1>1, <1>2, <1>6, <1>7, <1>9, <1>10, <1>11, <1>12, Rebalanced

\* Items that leave the results and the scopes as they were, and lead from the
\* open loops a to b.
Ring(a, items, b) ==
  /\ IsSeq(items)
  /\ \A n \in Nat : Heights("vals", n, items, n) /\ Heights("scopes", n, items, n)
  /\ Nests(a, items, b)

\* Appending a loop and closing the last one undo each other.
LEMMA LastAppended ==
  ASSUME NEW s, IsSeq(s), NEW x
  PROVE  Front(Append(s, x)) = s /\ Last(Append(s, x)) = x /\ Append(s, x) # <<>>
<1> DEFINE S == Range(s) \cup {x}
           t == Append(s, x)
<1>1. s \in Seq(S) /\ x \in S
  BY DEF IsSeq
<1> HIDE DEF S
<1>2. t \in Seq(S) /\ Len(t) = Len(s) + 1 /\ t[Len(t)] = x /\ Len(s) \in Nat
      /\ \A i \in 1..Len(s) : t[i] = s[i]
  BY <1>1
<1> HIDE DEF t
<1>3. SubSeq(t, 1, Len(t) - 1) \in Seq(S) /\ Len(SubSeq(t, 1, Len(t) - 1)) = Len(s)
      /\ \A i \in 1..Len(s) : SubSeq(t, 1, Len(t) - 1)[i] = s[i]
  BY <1>2
<1>4. SubSeq(t, 1, Len(t) - 1) = s
  BY <1>1, <1>3
<1>5. t # <<>>
  BY <1>2
<1> USE DEF t
<1> QED
  BY <1>2, <1>4, <1>5 DEF Front, Last

\* Calm items that leave the results as they were;
LEMMA RingSpan ==
  ASSUME NEW a, IsSeq(a), NEW items, \A n \in Nat : Span(n, items, n)
  PROVE  Ring(a, items, a)
<1>1. Calm(items)
  BY DEF Span
<1>2. Nests(a, items, a)
  BY <1>1, CalmNests
<1>3. \A n \in Nat : Heights("scopes", n, items, n)
  BY <1>1, CalmScopes
<1> QED
  BY <1>1, <1>2, <1>3 DEF Ring, Span, Calm

\* two lists of items;
LEMMA RingCat ==
  ASSUME NEW a, NEW b, NEW c, NEW s, NEW t, Ring(a, s, b), Ring(b, t, c),
         s = <<>> \/ t = <<>> \/ t[1].do # "popLoop"
  PROVE  Ring(a, s \o t, c)
<1>1. IsSeq(s) /\ IsSeq(t) /\ IsSeq(s \o t)
  BY SeqCat DEF Ring
<1>2. Nests(a, s \o t, c)
  BY <1>1, NestsCat DEF Ring
<1>3. \A n \in Nat : Heights("vals", n, s \o t, n) /\ Heights("scopes", n, s \o t, n)
  BY <1>1, HeightsCat DEF Ring
<1> QED
  BY <1>1, <1>2, <1>3 DEF Ring

\* An item alone that moves neither results nor scopes.
LEMMA RingOne ==
  ASSUME NEW a, IsSeq(a), NEW item, item.do \in {"emit", "pushLoop", "popLoop"},
         item.do = "popLoop" => a # <<>>
  PROVE  Ring(a, <<item>>, After(a, item))
<1> DEFINE st == [i \in {0, 1} |-> IF i = 0 THEN a ELSE After(a, item)]
<1>1. IsSeq(<<item>>)
  BY SeqIn, <<item>> \in Seq({item})
<1>2. /\ st[0] = a /\ st[1] = After(a, item) /\ Len(<<item>>) = 1 /\ DOMAIN <<item>> = {1}
      /\ <<item>>[1] = item
  OBVIOUS
<1>3. Turns(a, item, After(a, item))
  BY DEF Turns
<1> HIDE DEF st
<1>4. Nests(a, <<item>>, After(a, item))
  BY <1>2, <1>3 DEF Nests
<1>5. \A which \in {"vals", "scopes"} : Takes(which, item) = 0 /\ Gives(which, item) = 0
  BY DEF Takes, Gives
<1>6. \A n \in Nat : Moves("vals", n, item, n) /\ Moves("scopes", n, item, n)
  BY <1>5 DEF Moves
<1>7. \A n \in Nat : Heights("vals", n, <<item>>, n) /\ Heights("scopes", n, <<item>>, n)
  BY <1>6, HeightsOne
<1> QED
  BY <1>1, <1>4, <1>7 DEF Ring

\* A loop is closed by its exit's label and the item that pops it.
LEMMA RingClose ==
  ASSUME NEW a, IsSeq(a), NEW info, NEW pop, pop.do = "popLoop"
  PROVE  Ring(Append(a, info), <<EmitLabel(info.exit), pop>>, a)
<1> DEFINE b == Append(a, info)
           label == EmitLabel(info.exit)
           items == <<label, pop>>
           st == [i \in {0, 1, 2} |-> IF i = 2 THEN a ELSE b]
<1>1. IsSeq(b) /\ Front(b) = a /\ Last(b) = info /\ b # <<>>
  BY SeqAppend, LastAppended
<1>2. label.do = "emit" /\ label = EmitLabel(Last(b).exit)
  BY <1>1 DEF EmitLabel, Emit
<1> HIDE DEF b, label
<1>3. /\ st[0] = b /\ st[1] = b /\ st[2] = a /\ Len(items) = 2 /\ DOMAIN items = {1, 2}
      /\ items[1] = label /\ items[2] = pop
  OBVIOUS
<1>4. Turns(b, label, b) /\ Turns(b, pop, a)
  BY <1>1, <1>2 DEF Turns, After
<1> HIDE DEF st, items
<1>5. ASSUME NEW i \in DOMAIN items
      PROVE  /\ Turns(st[i - 1], items[i], st[i])
             /\ i > 1 /\ items[i].do = "popLoop" =>
                  items[i - 1] = EmitLabel(Last(st[i - 1]).exit)
  <2>1. CASE i = 1
    BY <1>3, <1>4, <2>1
  <2>2. CASE i = 2
    BY <1>2, <1>3, <1>4, <2>2
  <2> QED
    BY <1>3, <2>1, <2>2
<1>6. Nests(b, items, a)
  BY <1>1, <1>3, <1>5 DEF Nests
<1>7. Ring(b, <<label>>, b) /\ Ring(b, <<pop>>, a)
  <2>1. After(b, label) = b /\ After(b, pop) = a
    BY <1>1, <1>2 DEF After
  <2> QED
    BY <1>1, <1>2, <2>1, RingOne
<1>8. IsSeq(<<label>>) /\ IsSeq(<<pop>>) /\ IsSeq(<<label>> \o <<pop>>)
  BY <1>7, SeqCat DEF Ring
<1>9. \A n \in Nat : /\ Heights("vals", n, <<label>> \o <<pop>>, n)
                     /\ Heights("scopes", n, <<label>> \o <<pop>>, n)
  BY <1>7, <1>8, HeightsCat DEF Ring
<1>10. items = <<label>> \o <<pop>>
  BY DEF items
<1>11. Ring(b, items, a)
  BY <1>6, <1>8, <1>9, <1>10 DEF Ring
<1> QED
  BY <1>11 DEF b, label, items

\* A loop's visitor: whatever it opens it has work left to close.
LEMMA RingStep ==
  ASSUME LabelInv, BalanceInv, NEW items, NEW kind \in {"while", "loop"}, Visiting(kind),
         Leaves(items), UNCHANGED <<vals, scopes, status>>, Ring(loops', items, loops),
         items[1].do # "popLoop"
  PROVE  BalanceInv'
<1>1. work # <<>> /\ Head(work).do = "visit" /\ status' # "done" /\ IsSeq(items)
  BY DEF Visiting, Doing, Ring
<1>2. /\ Takes("vals", Head(work)) = 0 /\ Gives("vals", Head(work)) = 0
      /\ Takes("scopes", Head(work)) = 0 /\ Gives("scopes", Head(work)) = 0
      /\ After(loops, Head(work)) = loops
  BY <1>1, VisitGives DEF Takes, Gives, After
<1>3. Len(vals) \in Nat /\ Len(scopes) \in Nat /\ IsSeq(vals') /\ IsSeq(scopes')
  BY SeqLen DEF BalanceInv
<1>4. ASSUME NEW m, Moves("vals", Len(vals), Head(work), m)
      PROVE  Heights("vals", Len(vals'), items, m)
  <2>1. m = Len(vals) /\ vals' = vals
    BY <1>2, <1>3, <1>4 DEF Moves
  <2> QED
    BY <1>3, <2>1 DEF Ring
<1>5. ASSUME NEW m, Moves("scopes", Len(scopes), Head(work), m)
      PROVE  Heights("scopes", Len(scopes'), items, m)
  <2>1. m = Len(scopes) /\ scopes' = scopes
    BY <1>2, <1>3, <1>5 DEF Moves
  <2> QED
    BY <1>3, <2>1 DEF Ring
<1>6. Nests(loops', items, After(loops, Head(work)))
  BY <1>2 DEF Ring
<1> QED
  BY <1>1, <1>3, <1>4, <1>5, <1>6, Rebalanced

\* While opens its loop at once and leaves the item that closes it.
LEMMA WhileBalance ==
  ASSUME LabelInv, BalanceInv, While
  PROVE  BalanceInv'
<1> DEFINE info == LoopInfo(labels, labels + 1)
           pop == [do |-> "popLoop", record |-> FALSE]
           cond == <<EmitLabel(labels), Visit(Node.cond), JumpOn("JZ", labels + 1)>>
           body == <<Visit(Node.body), EmitJump(labels)>>
           close == <<EmitLabel(info.exit), pop>>
           items == <<EmitLabel(labels), Visit(Node.cond), JumpOn("JZ", labels + 1),
                      Visit(Node.body), EmitJump(labels), EmitLabel(labels + 1), pop>>
<1>1. /\ Node.cond \in Exprs /\ Node.body \in Stmts /\ Visiting("while") /\ Leaves(items)
      /\ loops' = Append(loops, info) /\ UNCHANGED <<vals, scopes, status>> /\ IsSeq(loops)
  BY StatementParts DEF While, LabelInv
<1>2. ASSUME NEW n \in Nat PROVE Span(n, cond \o body, n)
  <2>1. /\ Span(n, <<EmitLabel(labels)>>, n) /\ Span(n, <<Visit(Node.cond)>>, n + 1)
        /\ Span(n + 1, <<JumpOn("JZ", labels + 1)>>, n)
        /\ Span(n, <<Visit(Node.body)>>, n) /\ Span(n, <<EmitJump(labels)>>, n)
    BY <1>1, SpanVisit, EmitIsEmit
  <2>2. Span(n, cond, n) /\ Span(n, body, n)
    BY <2>1, SpanTwo, SpanThree
  <2> HIDE DEF cond, body
  <2> QED
    BY <2>2, SpanCat
<1>3. pop.do = "popLoop" /\ info.exit = labels + 1
  BY DEF LoopInfo
<1>4. close[1].do # "popLoop"
  BY DEF EmitLabel, Emit
<1>5. items = (cond \o body) \o close
  <2> HIDE DEF pop, info
  <2> DEFINE front == <<EmitLabel(labels), Visit(Node.cond), JumpOn("JZ", labels + 1),
                        Visit(Node.body), EmitJump(labels)>>
  <2>1. front = cond \o body
    OBVIOUS
  <2>2. items = front \o close
    BY <1>3
  <2> QED
    BY ONLY <2>1, <2>2
<1> HIDE DEF info, pop
<1>6. IsSeq(loops') /\ Ring(loops', close, loops)
  BY <1>1, <1>3, SeqAppend, RingClose
<1> HIDE DEF cond, body, close, items
<1>7. Ring(loops', cond \o body, loops')
  BY <1>2, <1>6, RingSpan
<1>8. Ring(loops', items, loops)
  BY <1>4, <1>5, <1>6, <1>7, RingCat
<1>9. items[1].do # "popLoop"
  BY DEF items, EmitLabel, Emit
<1> QED
  BY <1>1, <1>8, <1>9, RingStep

\* Loop opens its loop behind the guard and leaves the item that closes it.
LEMMA LoopBalance ==
  ASSUME LabelInv, BalanceInv, Loop
  PROVE  BalanceInv'
<1> DEFINE entry == labels
           exit == labels + 1
           guarded == Node.guard # Nil
           again == IF guarded THEN labels + 2 ELSE entry
           info == LoopInfo(again, exit)
           open == [do |-> "pushLoop", info |-> info]
           pop == [do |-> "popLoop", record |-> TRUE]
           guard == <<EmitLabel(again), Visit(Node.guard), JumpOn("JZ", exit), EmitLabel(entry)>>
           before == IF guarded THEN guard ELSE <<EmitLabel(entry)>>
           first == IF guarded
                    THEN <<EmitLabel(again), Visit(Node.guard), JumpOn("JZ", exit),
                           EmitLabel(entry), open>>
                    ELSE <<EmitLabel(entry), open>>
           close == <<EmitLabel(exit), pop>>
           last == <<EmitJump(again), EmitLabel(exit), pop>>
           body == VisitAll(Node.body)
           inside == Append(loops, info)
<1>1. /\ Node.guard \in Exprs \cup {Nil} /\ Node.body \in Seq(Stmts) /\ Visiting("loop")
      /\ Leaves(first \o body \o last)
      /\ UNCHANGED <<vals, scopes, loops, status>> /\ IsSeq(loops)
  BY StatementParts DEF Loop, fixed, LabelInv
<1>2. open.do = "pushLoop" /\ open.info = info /\ pop.do = "popLoop" /\ info.exit = exit
  BY DEF LoopInfo
<1> HIDE DEF info, pop, open
<1>3. ASSUME NEW n \in Nat PROVE Span(n, before, n)
  <2>1. CASE guarded
    <3> DEFINE a == <<EmitLabel(again), Visit(Node.guard), JumpOn("JZ", exit)>>
    <3>1. /\ Span(n, <<EmitLabel(again)>>, n) /\ Span(n, <<Visit(Node.guard)>>, n + 1)
          /\ Span(n + 1, <<JumpOn("JZ", exit)>>, n) /\ Span(n, <<EmitLabel(entry)>>, n)
      BY <1>1, <2>1, SpanVisit, EmitIsEmit
    <3> HIDE DEF again, exit, entry
    <3>2. Span(n, a, n)
      BY <3>1, SpanThree
    <3>3. guard = a \o <<EmitLabel(entry)>>
      OBVIOUS
    <3> HIDE DEF a, guard
    <3>4. Span(n, guard, n)
      BY <3>1, <3>2, <3>3, SpanCat
    <3> QED
      BY <2>1, <3>4
  <2>2. CASE ~guarded
    BY <2>2, EmitIsEmit
  <2> QED
    BY <2>1, <2>2
<1>4. \A n \in Nat : Span(n, body, n) /\ Span(n, <<EmitJump(again)>>, n)
  BY <1>1, SpanVisitAll, EmitIsEmit
<1>5. first = before \o <<open>>
  <2> HIDE DEF again, exit, entry
  <2>1. CASE guarded
    <3>1. <<EmitLabel(again), Visit(Node.guard), JumpOn("JZ", exit), EmitLabel(entry), open>>
            = guard \o <<open>>
      OBVIOUS
    <3> QED
      BY <2>1, <3>1
  <2>2. CASE ~guarded
    BY <2>2
  <2> QED
    BY <2>1, <2>2
<1>6. last = <<EmitJump(again)>> \o close
  <2> HIDE DEF again, exit
  <2> QED
    OBVIOUS
<1>7. close[1].do # "popLoop" /\ <<open>>[1].do # "popLoop" /\ <<EmitJump(again)>>[1].do # "popLoop"
  BY <1>2 DEF EmitLabel, EmitJump, Emit
<1>8. body = <<>> \/ body[1].do # "popLoop"
  <2>1. Calm(body) /\ IsSeq(body)
    BY <1>4, 0 \in Nat DEF Span, Calm
  <2>2. body # <<>> => 1 \in DOMAIN body
    BY <2>1, HeadAndTail
  <2> QED
    BY <2>1, <2>2 DEF Calm
<1>9. IsSeq(inside) /\ Ring(inside, close, loops) /\ After(loops, open) = inside
      /\ Ring(loops, <<open>>, inside)
  <2>1. IsSeq(inside) /\ Ring(inside, close, loops)
    BY <1>1, <1>2, SeqAppend, RingClose
  <2>2. After(loops, open) = inside
    BY <1>2 DEF After
  <2>3. Ring(loops, <<open>>, After(loops, open))
    BY <1>1, <1>2, RingOne
  <2> QED
    BY <2>1, <2>2, <2>3
<1> HIDE DEF before, first, body, last, close, inside, again, exit
<1>10. Ring(loops, before, loops) /\ Ring(inside, body, inside)
       /\ Ring(inside, <<EmitJump(again)>>, inside)
  BY <1>1, <1>3, <1>4, <1>9, RingSpan
<1>11. Ring(loops, first, inside)
  BY <1>5, <1>7, <1>9, <1>10, RingCat
<1>12. Ring(inside, last, loops)
  BY <1>6, <1>7, <1>9, <1>10, RingCat
<1>13. Ring(loops, first \o body, inside)
  BY <1>8, <1>10, <1>11, RingCat
<1>14. last[1].do # "popLoop"
  <2>1. last[1] = EmitJump(again)
    BY DEF last
  <2> QED
    BY <2>1 DEF EmitJump, Emit
<1>15. Ring(loops, first \o body \o last, loops)
  BY <1>12, <1>13, <1>14, RingCat
<1>16. (first \o body \o last)[1].do # "popLoop"
  <2>1. first # <<>> /\ first[1].do # "popLoop"
    BY DEF first, EmitLabel, Emit
  <2>2. IsSeq(first) /\ IsSeq(body) /\ IsSeq(last) /\ IsSeq(first \o body)
    BY <1>10, <1>11, <1>12, <1>13 DEF Ring
  <2>3. 1 \in DOMAIN first
    BY <2>1, <2>2, HeadAndTail
  <2>4. 1 \in DOMAIN (first \o body) /\ (first \o body)[1] = first[1]
    BY <2>2, <2>3, OldAt
  <2>5. (first \o body \o last)[1] = (first \o body)[1]
    BY <2>2, <2>4, OldAt
  <2> QED
    BY <2>1, <2>4, <2>5
<1> QED
  BY <1>1, <1>15, <1>16, RingStep

\* Opening and closing a loop is what the items were counted for.
LEMMA PushAndPopBalance ==
  ASSUME LabelInv, BalanceInv, PushLoop \/ PopLoop
  PROVE  BalanceInv'
<1>1. /\ work # <<>> /\ Head(work).do \in {"pushLoop", "popLoop"} /\ Leaves(<<>>)
      /\ UNCHANGED <<vals, scopes>> /\ status' # "done" /\ loops' = After(loops, Head(work))
  BY DEF PushLoop, PopLoop, Doing, After
<1>2. \A which \in {"vals", "scopes"} : Takes(which, Head(work)) = 0 /\ Gives(which, Head(work)) = 0
  BY <1>1 DEF Takes, Gives
<1>3. IsSeq(vals') /\ IsSeq(scopes') /\ Len(vals) \in Nat /\ Len(scopes) \in Nat /\ IsSeq(<<>>)
  BY <1>1, SeqLen DEF BalanceInv, IsSeq
<1>4. \A m : Moves("vals", Len(vals), Head(work), m) => Heights("vals", Len(vals'), <<>>, m)
  BY <1>1, <1>2, <1>3, HeightsNone DEF Moves
<1>5. \A m : Moves("scopes", Len(scopes), Head(work), m) => Heights("scopes", Len(scopes'), <<>>, m)
  BY <1>1, <1>2, <1>3, HeightsNone DEF Moves
<1>6. IsSeq(After(loops, Head(work)))
  BY <1>1, NestsTail DEF LabelInv, BalanceInv
<1>7. Nests(loops', <<>>, After(loops, Head(work)))
  BY <1>1, <1>6, NestsNone
<1> QED
  BY <1>1, <1>3, <1>4, <1>5, <1>7, Rebalanced

\* ExitScope closes a scope that is open.
LEMMA ExitScopeBalance ==
  ASSUME LabelInv, BalanceInv, ExitScope
  PROVE  BalanceInv'
<1>1. /\ work # <<>> /\ Head(work).do = "exitScope" /\ Leaves(<<>>)
      /\ UNCHANGED <<vals, loops>> /\ status' # "done" /\ scopes' = Front(scopes)
  BY DEF ExitScope, Doing
<1>2. /\ Takes("vals", Head(work)) = 0 /\ Gives("vals", Head(work)) = 0
      /\ Takes("scopes", Head(work)) = 1 /\ Gives("scopes", Head(work)) = 0
      /\ After(loops, Head(work)) = loops
  BY <1>1 DEF Takes, Gives, After
<1>3. /\ scopes \in Seq(Range(scopes)) /\ IsSeq(scopes) /\ Len(scopes) \in Nat
      /\ IsSeq(vals) /\ Len(vals) \in Nat /\ IsSeq(<<>>) /\ IsSeq(loops)
  BY SeqLen DEF BalanceInv, LabelInv, IsSeq
<1>4. PICK k : Moves("scopes", Len(scopes), Head(work), k)
  BY <1>1, HeightsTail DEF BalanceInv, LabelInv
<1>5. Len(scopes) # 0
  BY <1>2, <1>4 DEF Moves
<1>6. IsSeq(scopes') /\ Len(scopes') = Len(scopes) - 1 /\ Len(scopes') \in Nat
  <2> DEFINE S == Range(scopes)
             n == Len(scopes) - 1
  <2>1. scopes \in Seq(S) /\ n \in Nat /\ Len(scopes) = n + 1
    BY <1>3, <1>5
  <2> HIDE DEF S, n
  <2>2. SubSeq(scopes, 1, n) \in Seq(S) /\ Len(SubSeq(scopes, 1, n)) = n
    BY <2>1
  <2>3. Front(scopes) = SubSeq(scopes, 1, n)
    BY DEF Front, n
  <2> QED
    BY <1>1, <2>1, <2>2, <2>3, SeqIn DEF n
<1>7. \A m : Moves("vals", Len(vals), Head(work), m) => Heights("vals", Len(vals'), <<>>, m)
  BY <1>1, <1>2, <1>3, HeightsNone DEF Moves
<1>8. \A m : Moves("scopes", Len(scopes), Head(work), m) => Heights("scopes", Len(scopes'), <<>>, m)
  BY <1>1, <1>2, <1>3, <1>6, HeightsNone DEF Moves
<1>9. Nests(loops', <<>>, After(loops, Head(work)))
  BY <1>1, <1>2, <1>3, NestsNone
<1> QED
  BY <1>1, <1>3, <1>6, <1>7, <1>8, <1>9, Rebalanced

\* At first nothing is open and only statements are to be visited.
LEMMA InitBalance ==
  ASSUME Init
  PROVE  BalanceInv
<1>1. program \in Seq(Stmts) /\ work = VisitAll(program)
  BY SyntaxAssumption DEF Init
<1>2. vals = <<>> /\ scopes = <<>> /\ loops = <<>> /\ status = "running"
  BY DEF Init
<1>3. IsSeq(<<>>) /\ Len(<<>>) = 0
  BY DEF IsSeq
<1>4. Span(0, work, 0) /\ Calm(work)
  BY <1>1, SpanVisitAll, 0 \in Nat DEF Span
<1>5. Heights("vals", 0, work, 0) /\ Heights("scopes", 0, work, 0)
  BY <1>4, CalmScopes, 0 \in Nat DEF Span
<1>6. Nests(<<>>, work, <<>>)
  BY <1>3, <1>4, CalmNests
<1>7. work # <<>> => Head(work).do # "popLoop"
  BY <1>4, HeadAndTail DEF Calm
<1> QED
  BY <1>2, <1>3, <1>5, <1>6, <1>7 DEF BalanceInv

\* Every step keeps the balance.
LEMMA BalanceInvStep ==
  ASSUME LabelInv, BalanceInv, [Next]_vars
  PROVE  BalanceInv'
<1>1. CASE StatementStep
  BY <1>1, KeptResults, TakenOnly, SimpleStatements, DeclareBalance, IfBalance, BranchBalance,
     WhileBalance, LoopBalance, PushAndPopBalance, ReturnBalance DEF StatementStep
<1>2. CASE ExpressionStep
  BY <1>2, AddedOne, LogicalBalance, BinaryBalance, OperateBalance, OperandBalance, KeptResults,
     AssignToBalance DEF ExpressionStep
<1>3. CASE CallStep
  BY <1>3, OperandBalance, OperateBalance, AddedOne, BinaryBalance, TakenOnly, ListBalance,
     EmitCallBalance DEF CallStep
<1>4. CASE MatchStep
  BY <1>4, OperandBalance, DispatchBalance, TestVariantBalance, ArmBalance, TakenOnly,
     ExitScopeBalance DEF MatchStep
<1>5. CASE MissingResult \/ Unsupported \/ Finish \/ UNCHANGED vars
  <2>1. UNCHANGED <<work, code, vals, loops, scopes>>
    BY <1>5 DEF MissingResult, Unsupported, Throws, Finish, vars
  <2>2. status' = "done" => work' = <<>>
    BY <1>5, <2>1 DEF MissingResult, Unsupported, Throws, Finish, vars, BalanceInv
  <2> QED
    BY <2>1, <2>2 DEF BalanceInv
<1> QED
  BY <1>1, <1>2, <1>3, <1>4, <1>5 DEF Next

\* In every state of the generator the work that is left takes back exactly the results,
\* the scopes and the loops that are there.
THEOREM BalanceInvariant == Spec => [](LabelInv /\ BalanceInv)
<1>1. Init => LabelInv /\ BalanceInv
  BY InitLabels, InitBalance
<1>2. LabelInv /\ BalanceInv /\ [Next]_vars => (LabelInv /\ BalanceInv)'
  BY LabelInvStep, BalanceInvStep
<1> QED
  BY <1>1, <1>2, PTL DEF Spec

\* When no work is left, nothing is open.
LEMMA NothingIsLeft ==
  ASSUME BalanceInv
  PROVE  EverythingIsPopped
<1> SUFFICES ASSUME status = "done"
             PROVE  vals = <<>> /\ loops = <<>> /\ scopes = <<>>
  BY DEF EverythingIsPopped
<1>1. work = <<>> /\ Len(<<>>) = 0
  BY DEF BalanceInv
<1>2. ASSUME NEW which, NEW n, Heights(which, n, <<>>, 0)
      PROVE  n = 0
  BY <1>2 DEF Heights
<1>3. Len(vals) = 0 /\ Len(scopes) = 0
  BY <1>1, <1>2 DEF BalanceInv
<1>4. loops = <<>>
  BY <1>1 DEF BalanceInv, Nests
<1>5. vals \in Seq(Range(vals)) /\ scopes \in Seq(Range(scopes))
  BY DEF BalanceInv, IsSeq
<1> QED
  BY <1>3, <1>4, <1>5

\* When generate() returns, no result is left over and no loop and no pattern scope is
\* open, whatever the program.
THEOREM EverythingGetsPopped == Spec => []EverythingIsPopped
<1>1. BalanceInv => EverythingIsPopped
  BY NothingIsLeft
<1> QED
  BY <1>1, BalanceInvariant, PTL

\* An item opens one loop, closes the innermost one or leaves them as they are.
LEMMA TurnKeeps ==
  ASSUME NEW a, IsSeq(a), NEW item, NEW b, Turns(a, item, b)
  PROVE  /\ IsSeq(b) /\ Len(b) \in Nat
         /\ item.do # "popLoop" => Len(b) >= Len(a)
         /\ item.do = "popLoop" => Len(b) = Len(a) - 1
         /\ \A k \in DOMAIN a : k <= Len(b) => b[k] = a[k]
<1>1. Len(a) \in Nat /\ DOMAIN a = 1..Len(a) /\ a \in Seq(Range(a))
  BY SeqLen DEF IsSeq
<1>2. CASE item.do = "pushLoop"
  <2>1. b = Append(a, item.info)
    BY <1>2 DEF Turns, After
  <2>2. IsSeq(b) /\ Len(b) = Len(a) + 1
    BY <2>1, SeqAppend
  <2>3. \A k \in 1..Len(a) : b[k] = a[k]
    BY <1>1, <2>1
  <2> QED
    BY <1>1, <1>2, <2>2, <2>3
<1>3. CASE item.do = "popLoop"
  <2> DEFINE S == Range(a)
             n == Len(a) - 1
  <2>1. b = SubSeq(a, 1, n) /\ a # <<>>
    BY <1>3 DEF Turns, After, Front
  <2>2. n \in Nat /\ a \in Seq(S) /\ Len(a) = n + 1
    BY <1>1, <2>1
  <2> HIDE DEF S, n
  <2>3. b \in Seq(S) /\ Len(b) = n /\ \A k \in 1..n : b[k] = a[k]
    BY <2>1, <2>2
  <2>4. IsSeq(b)
    BY <2>3, SeqIn
  <2> QED
    BY <1>1, <1>3, <2>2, <2>3, <2>4 DEF n
<1>4. CASE item.do \notin {"pushLoop", "popLoop"}
  <2>1. b = a
    BY <1>4 DEF Turns, After
  <2>2. Len(a) \in Nat => Len(a) >= Len(a)
    OBVIOUS
  <2>3. Len(b) >= Len(a) /\ IsSeq(b) /\ Len(b) \in Nat
    BY <1>1, <2>1, <2>2
  <2> QED
    BY <1>4, <2>1, <2>3
<1> QED
  BY <1>2, <1>3, <1>4

\* Along the work ahead, st[i] being the loops open after i items: the k-th
\* loop is there, unchanged, until the item p that closes it.
ClosedAt(st, k, p) ==
  /\ p \in DOMAIN work /\ work[p].do = "popLoop"
  /\ Len(st[p - 1]) = k /\ Len(st[p]) = k - 1 /\ st[p - 1][k] = loops[k]
  /\ \A i \in 0..(p - 1) : Len(st[i]) >= k

\* Every open loop has an item ahead that closes it.
LEMMA EachIsClosed ==
  ASSUME IsSeq(work), IsSeq(loops), NEW st, st[0] = loops, st[Len(work)] = <<>>,
         \A i \in DOMAIN work : Turns(st[i - 1], work[i], st[i]),
         NEW k \in DOMAIN loops
  PROVE  \E p : ClosedAt(st, k, p)
<1> DEFINE n == Len(work)
<1>1. n \in Nat /\ DOMAIN work = 1..n /\ Len(loops) \in Nat /\ k \in 1..Len(loops)
  BY SeqLen
<1>2. \A i \in 0..n : IsSeq(st[i]) /\ Len(st[i]) \in Nat
  <2> SUFFICES ASSUME NEW i \in 0..n
               PROVE  IsSeq(st[i])
    BY SeqLen
  <2> DEFINE Bad == {j \in 0..n : ~IsSeq(st[j])}
  <2>1. CASE Bad = {}
    BY <2>1
  <2>2. CASE Bad # {}
    <3>1. Bad \subseteq Nat
      BY <1>1
    <3>2. PICK j \in Bad : \A m \in Bad : j <= m
      BY <2>2, <3>1, LeastMember
    <3>3. j # 0 /\ j \in 1..n /\ j - 1 \in 0..n
      BY <1>1, <3>2
    <3>4. IsSeq(st[j - 1])
      BY <3>2, <3>3
    <3>5. IsSeq(st[j])
      BY <1>1, <3>3, <3>4, TurnKeeps
    <3> QED
      BY <3>2, <3>5
  <2> QED
    BY <2>1, <2>2
<1> DEFINE Under == {i \in 0..n : Len(st[i]) < k}
<1>3. n \in Under /\ Under \subseteq Nat
  <2>1. st[n] = <<>> /\ Len(<<>>) = 0
    OBVIOUS
  <2> HIDE DEF n
  <2> QED
    BY <1>1, <2>1
<1>4. PICK p \in Under : \A i \in Under : p <= i
  BY <1>3, LeastMember
<1>5. p \in 1..n /\ p - 1 \in 0..n /\ \A i \in 0..(p - 1) : Len(st[i]) >= k
  <2>1. p # 0
    BY <1>1, <1>4
  <2>2. p \in 1..n /\ p - 1 \in 0..n
    BY <1>1, <1>4, <2>1
  <2>3. ASSUME NEW i \in 0..(p - 1) PROVE Len(st[i]) >= k
    <3>1. i \in 0..n /\ ~(p <= i)
      BY <1>1, <2>2
    <3>2. i \notin Under
      BY <1>4, <3>1
    <3> QED
      BY <1>1, <1>2, <3>1, <3>2
  <2> QED
    BY <2>2, <2>3
<1>6. Turns(st[p - 1], work[p], st[p]) /\ IsSeq(st[p - 1]) /\ Len(st[p - 1]) >= k /\ Len(st[p]) < k
  <2>1. p - 1 \in 0..(p - 1)
    BY <1>5
  <2> QED
    BY <1>1, <1>2, <1>4, <1>5, <2>1
<1>7. work[p].do = "popLoop" /\ Len(st[p - 1]) = k /\ Len(st[p]) = k - 1
  <2>1. Len(st[p - 1]) \in Nat /\ Len(st[p]) \in Nat
    BY <1>2, <1>4, <1>5
  <2>2. /\ work[p].do # "popLoop" => Len(st[p]) >= Len(st[p - 1])
        /\ work[p].do = "popLoop" => Len(st[p]) = Len(st[p - 1]) - 1
    BY <1>6, TurnKeeps
  <2> QED
    BY <1>1, <1>6, <2>1, <2>2
<1>8. st[p - 1][k] = loops[k]
  <2> DEFINE Bad == {i \in 0..(p - 1) : st[i][k] # loops[k]}
  <2>1. CASE Bad = {}
    <3>1. p - 1 \in 0..(p - 1)
      BY <1>5
    <3> QED
      BY <2>1, <3>1
  <2>2. CASE Bad # {}
    <3>1. Bad \subseteq Nat
      BY <1>5
    <3>2. PICK j \in Bad : \A m \in Bad : j <= m
      BY <2>2, <3>1, LeastMember
    <3>3. j # 0 /\ j \in 1..n /\ j - 1 \in 0..(p - 1) /\ j - 1 \in 0..n /\ j \in 0..(p - 1)
      BY <1>1, <1>5, <3>2
    <3>4. st[j - 1][k] = loops[k]
      BY <3>2, <3>3
    <3>5. Len(st[j - 1]) >= k /\ Len(st[j]) >= k /\ IsSeq(st[j - 1])
      BY <1>2, <1>5, <3>3
    <3>6. k \in DOMAIN st[j - 1]
      BY <1>1, <3>5, SeqLen
    <3>7. st[j][k] = st[j - 1][k]
      <4>1. Turns(st[j - 1], work[j], st[j])
        BY <1>1, <3>3
      <4> QED
        BY <1>1, <3>5, <3>6, <4>1, TurnKeeps
    <3> QED
      BY <3>2, <3>4, <3>7
  <2> QED
    BY <2>1, <2>2
<1>9. ClosedAt(st, k, p)
  BY <1>1, <1>5, <1>7, <1>8 DEF ClosedAt
<1> QED
  BY <1>9

\* Where the exits of the open loops are.
LEMMA ExitsAhead ==
  ASSUME LabelInv, NEW i \in DOMAIN work, NEW l, work[i] = EmitLabel(l)
  PROVE  \A j \in DOMAIN work : DefinesLabel(work[j]) /\ Defined(work[j]) = l <=> j = i
<1>1. DefinesLabel(work[i]) /\ Defined(work[i]) = l
  BY DEF EmitLabel, Emit, LabelInsn, Insn, Lab, DefinesLabel, Defined
<1>2. IsSeq(EmitAll(code)) /\ IsSeq(work)
  BY EmitAllCat DEF LabelInv
<1>3. Once(work)
  BY <1>2, CatLabels DEF LabelInv, Image
<1> QED
  BY <1>1, <1>3 DEF Once, Def

\* A LABEL that was emitted last is not ahead any more.
LEMMA EmittedIsBehind ==
  ASSUME LabelInv, code # <<>>, NEW l, code[Len(code)] = LabelInsn(l)
  PROVE  \A j \in DOMAIN work : ~(DefinesLabel(work[j]) /\ Defined(work[j]) = l)
<1> DEFINE done == EmitAll(code)
<1>1. IsSeq(done) /\ IsSeq(work) /\ IsSeq(code)
  BY EmitAllCat DEF LabelInv
<1>2. Defs(done) \cap Defs(work) = {}
  BY <1>1, CatLabels DEF LabelInv, Image
<1>3. Len(code) \in DOMAIN code
  <2>1. code \in Seq(Range(code))
    BY <1>1 DEF IsSeq
  <2> QED
    BY <2>1
<1>4. Len(code) \in DOMAIN done /\ done[Len(code)] = Emit(LabelInsn(l))
  BY <1>3 DEF EmitAll
<1>5. l \in Defs(done)
  <2>1. l \in Def(done[Len(code)])
    BY <1>4 DEF Def, DefinesLabel, Defined, Emit, LabelInsn, Insn, Lab
  <2> QED
    BY <1>4, <2>1 DEF Defs
<1>6. ASSUME NEW j \in DOMAIN work, DefinesLabel(work[j]), Defined(work[j]) = l
      PROVE  FALSE
  <2>1. l \in Def(work[j])
    BY <1>6 DEF Def
  <2>2. l \in Defs(work)
    BY <1>6, <2>1 DEF Defs
  <2> QED
    BY <1>2, <1>5, <2>2
<1> QED
  BY <1>6

\* The balance puts the exits of the open loops ahead, the innermost first.
LEMMA BreaksGoForward ==
  ASSUME LabelInv, BalanceInv
  PROVE  BreakLeavesInnermost
<1> DEFINE ahead(l) == {i \in DOMAIN work : DefinesLabel(work[i]) /\ Defined(work[i]) = l}
           closing(k) == k = Len(loops) /\ Head(work).do = "popLoop"
<1>1. IsSeq(work) /\ IsSeq(loops) /\ Len(loops) \in Nat /\ DOMAIN loops = 1..Len(loops)
      /\ DOMAIN work = 1..Len(work) /\ Len(work) \in Nat
  BY SeqLen DEF LabelInv
<1>2. PICK st : /\ st[0] = loops /\ st[Len(work)] = <<>>
                /\ \A i \in DOMAIN work :
                     /\ Turns(st[i - 1], work[i], st[i])
                     /\ i > 1 /\ work[i].do = "popLoop" =>
                          work[i - 1] = EmitLabel(Last(st[i - 1]).exit)
  BY DEF BalanceInv, Nests
<1>3. \A k \in DOMAIN loops : \E p : ClosedAt(st, k, p)
  BY <1>1, <1>2, EachIsClosed
\* The exit of the k-th loop is right before the item p that closes it.
<1>4. ASSUME NEW k \in DOMAIN loops, NEW p, ClosedAt(st, k, p)
      PROVE  /\ p > 1 => ahead(loops[k].exit) = {p - 1}
             /\ p = 1 => closing(k) /\ ahead(loops[k].exit) = {}
  <2>1. /\ p \in 1..Len(work) /\ work[p].do = "popLoop"
        /\ Len(st[p - 1]) = k /\ st[p - 1][k] = loops[k]
    BY <1>1, <1>4 DEF ClosedAt
  <2>2. CASE p > 1
    <3>1. work[p - 1] = EmitLabel(loops[k].exit)
      BY <1>1, <1>2, <2>1, <2>2 DEF Last
    <3>2. p - 1 \in DOMAIN work
      BY <1>1, <2>1, <2>2
    <3> QED
      BY <2>2, <3>1, <3>2, ExitsAhead
  <2>3. CASE p = 1
    <3>1. k = Len(loops)
      BY <1>1, <1>2, <2>1, <2>3
    <3>2. work # <<>> /\ Head(work).do = "popLoop"
      BY <1>1, <2>1, <2>3, HeadAndTail
    <3>3. code # <<>> /\ code[Len(code)] = LabelInsn(loops[k].exit)
      BY <3>1, <3>2 DEF BalanceInv, Last
    <3> QED
      BY <2>3, <3>1, <3>2, <3>3, EmittedIsBehind
  <2> QED
    BY <2>1, <2>2, <2>3
\* An outer loop is closed after an inner one.
<1>5. ASSUME NEW k \in DOMAIN loops, NEW m \in 1..(k - 1), NEW p, NEW q,
             ClosedAt(st, k, p), ClosedAt(st, m, q)
      PROVE  p < q
  <2>1. /\ p \in Nat /\ q \in Nat /\ Len(st[q]) = m - 1
        /\ Len(st[p]) = k - 1 /\ m < k /\ k \in Nat /\ m \in Nat
        /\ \A i \in 0..(p - 1) : Len(st[i]) >= k
    BY <1>1, <1>5 DEF ClosedAt
  <2>2. p # q
    BY <2>1
  <2>3. CASE q < p
    <3>1. q \in 0..(p - 1)
      BY <2>1, <2>3
    <3>2. Len(st[q]) >= k
      BY <2>1, <3>1
    <3> QED
      BY <2>1, <3>2
  <2> QED
    BY <2>1, <2>2, <2>3
<1>6. ASSUME NEW k \in DOMAIN loops
      PROVE  /\ closing(k) \/ ahead(loops[k].exit) # {}
             /\ \A m \in 1..(k - 1) :
                  \A i \in ahead(loops[k].exit), j \in ahead(loops[m].exit) : i < j
  <2>1. PICK p : ClosedAt(st, k, p)
    BY <1>3
  <2>2. p \in Nat /\ p >= 1
    BY <1>1, <2>1 DEF ClosedAt
  <2>3. closing(k) \/ ahead(loops[k].exit) # {}
    <3> HIDE DEF ahead, closing
    <3> QED
      BY <1>4, <2>1, <2>2
  <2>4. ASSUME NEW m \in 1..(k - 1), NEW i \in ahead(loops[k].exit), NEW j \in ahead(loops[m].exit)
        PROVE  i < j
    <3>1. m \in DOMAIN loops
      BY <1>1
    <3>2. PICK q : ClosedAt(st, m, q)
      BY <1>3, <3>1
    <3> HIDE DEF ahead, closing
    <3>3. p < q /\ q \in Nat
      <4>1. p < q
        BY <1>5, <2>1, <3>2
      <4> QED
        BY <1>1, <3>2, <4>1 DEF ClosedAt
    <3>4. p > 1 => ahead(loops[k].exit) = {p - 1}
      BY <1>4, <2>1
    <3>5. p = 1 => ahead(loops[k].exit) = {}
      BY <1>4, <2>1
    <3>6. q > 1 => ahead(loops[m].exit) = {q - 1}
      BY <1>4, <3>1, <3>2
    <3>7. p # 1 /\ i \in ahead(loops[k].exit) /\ j \in ahead(loops[m].exit)
      BY <2>4, <3>5
    <3>8. p > 1 /\ q > 1
      BY <2>2, <3>3, <3>7
    <3>9. i = p - 1 /\ j = q - 1
      BY <3>4, <3>6, <3>7, <3>8
    <3> QED
      BY <2>2, <3>3, <3>9
  <2> QED
    BY <2>3, <2>4
<1> QED
  BY <1>6 DEF BreakLeavesInnermost

\* Whatever the program, the exit of every open loop is ahead, inner loops' exits before
\* outer ones': a break leaves the innermost loop and leaves it forwards.
THEOREM BreaksLeaveTheInnermost == Spec => []BreakLeavesInnermost
<1>1. LabelInv /\ BalanceInv => BreakLeavesInnermost
  BY BreaksGoForward
<1> QED
  BY <1>1, BalanceInvariant, PTL
=============================================================================
