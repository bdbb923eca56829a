--------------------------- MODULE LoweringProofs ---------------------------
(* The labels of the generated program (Lowering), for every program.  The     *)
(* work that is left and the code so far are looked at as one list, the image  *)
(* of the program: LabelInv says that it defines each label once and all that  *)
(* it refers to.  A step replaces the item at hand by a Piece, a list of items *)
(* whose labels are known.                                                     *)
EXTENDS Lowering, SequenceLemmas, FiniteSetTheorems

\* The labels an item defines, those a list of items defines and refers to,
\* whether each is defined once, and the labels of the open loops.
Def(item) == IF DefinesLabel(item) THEN {Defined(item)} ELSE {}
Defs(s) == UNION {Def(s[i]) : i \in DOMAIN s}
Refs(s) == UNION {Refers(s[i]) : i \in DOMAIN s}
Once(s) == \A i, j \in DOMAIN s : i # j => Def(s[i]) \cap Def(s[j]) = {}
LoopLabels(ls) == UNION {{ls[i].entry, ls[i].exit} : i \in DOMAIN ls}

\* What encode_program asks of an instruction.
WellFormed(insn) ==
  /\ Len(insn.args) <= 3
  /\ insn.op = "LABEL" => insn = LabelInsn(insn.args[1].v)

\* What each kind of item carries.
IsMatch(n) == n \in Exprs /\ n.k = "match"
IsItem(item) ==
  /\ item.do = "emit" => item = Emit(item.insn) /\ WellFormed(item.insn)
  /\ item.do = "visit" => item.node \in Stmts \cup Exprs
  /\ item.do = "make" => item.node.name \in DOMAIN Makers
  /\ item.do = "jumpOn" => item.op \in {"JZ", "JNZ"}
  /\ item.do = "branch" => item.node \in Stmts /\ item.node.k = "if"
  /\ item.do = "operate" => item.node \in Exprs /\ item.node.k = "binary"
  /\ item.do = "call" => item.node \in Exprs /\ item.node.k = "call"
  /\ item.do = "dispatch" => IsMatch(item.node)
  /\ item.do \in {"testVariant", "arm"} => IsMatch(item.match.node)
  /\ item.do = "arm" => /\ item.arms \in Seq(DOMAIN item.match.node.arms)
                        /\ item.a \in DOMAIN item.arms

\* A list of items that defines the labels D, each once, and refers to some of R.
Piece(s, D, R) ==
  /\ IsSeq(s)
  /\ \A i \in DOMAIN s : IsItem(s[i])
  /\ Once(s)
  /\ Defs(s) = D
  /\ Refs(s) \subseteq R

\* The inductive invariant of the labels.
LabelInv ==
  /\ labels \in Nat
  /\ IsSeq(code) /\ IsSeq(loops) /\ IsSeq(work)
  /\ \A i \in DOMAIN work : IsItem(work[i])
  /\ \A i \in DOMAIN code : WellFormed(code[i])
  /\ Once(Image)
  /\ Defs(Image) \subseteq 0..(labels - 1)
  /\ Refs(Image) \cup LoopLabels(loops) \subseteq Defs(Image)

\* What s \o t defines and refers to, and when it defines each label once.
LEMMA CatLabels ==
  ASSUME NEW s, NEW t, IsSeq(s), IsSeq(t)
  PROVE  /\ Defs(s \o t) = Defs(s) \cup Defs(t)
         /\ Refs(s \o t) = Refs(s) \cup Refs(t)
         /\ Once(s \o t) <=> Once(s) /\ Once(t) /\ Defs(s) \cap Defs(t) = {}
<1>1. Defs(s \o t) = Defs(s) \cup Defs(t)
  <2>1. ASSUME NEW l \in Defs(s \o t) PROVE l \in Defs(s) \cup Defs(t)
    BY CatAt DEF Defs
  <2>2. ASSUME NEW l \in Defs(s) PROVE l \in Defs(s \o t)
    <3>1. PICK i \in DOMAIN s : l \in Def(s[i])
      BY DEF Defs
    <3>2. i \in DOMAIN (s \o t) /\ (s \o t)[i] = s[i]
      BY OldAt
    <3> QED
      BY <3>1, <3>2 DEF Defs
  <2>3. ASSUME NEW l \in Defs(t) PROVE l \in Defs(s \o t)
    <3>1. PICK i \in DOMAIN t : l \in Def(t[i])
      BY DEF Defs
    <3>2. Len(s) + i \in DOMAIN (s \o t) /\ (s \o t)[Len(s) + i] = t[i]
      BY OldAt
    <3> QED
      BY <3>1, <3>2 DEF Defs
  <2> QED
    BY <2>1, <2>2, <2>3
<1>2. Refs(s \o t) = Refs(s) \cup Refs(t)
  <2>1. ASSUME NEW l \in Refs(s \o t) PROVE l \in Refs(s) \cup Refs(t)
    BY CatAt DEF Refs
  <2>2. ASSUME NEW l \in Refs(s) PROVE l \in Refs(s \o t)
    <3>1. PICK i \in DOMAIN s : l \in Refers(s[i])
      BY DEF Refs
    <3>2. i \in DOMAIN (s \o t) /\ (s \o t)[i] = s[i]
      BY OldAt
    <3> QED
      BY <3>1, <3>2 DEF Refs
  <2>3. ASSUME NEW l \in Refs(t) PROVE l \in Refs(s \o t)
    <3>1. PICK i \in DOMAIN t : l \in Refers(t[i])
      BY DEF Refs
    <3>2. Len(s) + i \in DOMAIN (s \o t) /\ (s \o t)[Len(s) + i] = t[i]
      BY OldAt
    <3> QED
      BY <3>1, <3>2 DEF Refs
  <2> QED
    BY <2>1, <2>2, <2>3
<1>3. ASSUME Once(s), Once(t), Defs(s) \cap Defs(t) = {} PROVE Once(s \o t)
  <2> SUFFICES ASSUME NEW i \in DOMAIN (s \o t), NEW j \in DOMAIN (s \o t), i # j
               PROVE  Def((s \o t)[i]) \cap Def((s \o t)[j]) = {}
    BY DEF Once
  <2>0. Len(s) \in Nat /\ DOMAIN s = 1..Len(s) /\ DOMAIN t = 1..Len(t) /\ i \in Nat /\ j \in Nat
     BY SeqLen, SeqCat
  <2>1. \A k \in DOMAIN s : Def(s[k]) \subseteq Defs(s)
    BY DEF Defs
  <2>2. \A k \in DOMAIN t : Def(t[k]) \subseteq Defs(t)
    BY DEF Defs
  <2>3. CASE i \in DOMAIN s /\ j \in DOMAIN s
    BY <2>3, <1>3, OldAt DEF Once
  <2>4. CASE i \notin DOMAIN s /\ j \notin DOMAIN s
     <3>1. i - Len(s) # j - Len(s)
       BY <2>0
     <3> QED
       BY <2>4, <1>3, <3>1, CatAt DEF Once
  <2>5. CASE (i \in DOMAIN s) # (j \in DOMAIN s)
    BY <2>5, <1>3, <2>1, <2>2, CatAt
  <2> QED
    BY <2>3, <2>4, <2>5
<1>4. ASSUME Once(s \o t) PROVE Once(s) /\ Once(t) /\ Defs(s) \cap Defs(t) = {}
  <2>0. Len(s) \in Nat /\ DOMAIN s = 1..Len(s) /\ DOMAIN t = 1..Len(t) /\ Len(t) \in Nat
     BY SeqLen, SeqCat
  <2>1. Once(s)
    <3> SUFFICES ASSUME NEW i \in DOMAIN s, NEW j \in DOMAIN s, i # j
                 PROVE  Def(s[i]) \cap Def(s[j]) = {}
      BY DEF Once
    <3>1. /\ i \in DOMAIN (s \o t) /\ (s \o t)[i] = s[i]
          /\ j \in DOMAIN (s \o t) /\ (s \o t)[j] = s[j]
      BY OldAt
    <3> QED
      BY <1>4, <3>1 DEF Once
  <2>2. Once(t)
    <3> SUFFICES ASSUME NEW i \in DOMAIN t, NEW j \in DOMAIN t, i # j
                 PROVE  Def(t[i]) \cap Def(t[j]) = {}
      BY DEF Once
    <3>1. /\ Len(s) + i \in DOMAIN (s \o t) /\ (s \o t)[Len(s) + i] = t[i]
          /\ Len(s) + j \in DOMAIN (s \o t) /\ (s \o t)[Len(s) + j] = t[j]
      BY OldAt
    <3>2. Len(s) + i # Len(s) + j
      BY <2>0
    <3>3. Def((s \o t)[Len(s) + i]) \cap Def((s \o t)[Len(s) + j]) = {}
      BY <1>4, <3>1, <3>2 DEF Once
    <3> QED
      BY <3>1, <3>3
  <2>3. ASSUME NEW l \in Defs(s), l \in Defs(t) PROVE FALSE
    <3>1. PICK i \in DOMAIN s : l \in Def(s[i])
      BY DEF Defs
    <3>2. PICK j \in DOMAIN t : l \in Def(t[j])
      BY <2>3 DEF Defs
    <3>3. /\ i \in DOMAIN (s \o t) /\ (s \o t)[i] = s[i]
          /\ Len(s) + j \in DOMAIN (s \o t) /\ (s \o t)[Len(s) + j] = t[j]
      BY OldAt
    <3>4. i # Len(s) + j
      BY <2>0
    <3>5. Def((s \o t)[i]) \cap Def((s \o t)[Len(s) + j]) = {}
      BY <1>4, <3>3, <3>4 DEF Once
    <3> QED
      BY <3>1, <3>2, <3>3, <3>5
  <2> QED
    BY <2>1, <2>2, <2>3
<1> QED
  BY <1>1, <1>2, <1>3, <1>4

\* Two pieces that define different labels, one after the other.
LEMMA PieceCat ==
  ASSUME NEW s, NEW t, NEW D, NEW E, NEW R, Piece(s, D, R), Piece(t, E, R), D \cap E = {}
  PROVE  Piece(s \o t, D \cup E, R)
<1>1. IsSeq(s) /\ IsSeq(t)
  BY DEF Piece
<1>2. \A i \in DOMAIN (s \o t) : IsItem((s \o t)[i])
  <2> TAKE i \in DOMAIN (s \o t)
  <2>1. CASE i \in DOMAIN s /\ (s \o t)[i] = s[i]
    BY <2>1 DEF Piece
  <2>2. CASE i - Len(s) \in DOMAIN t /\ (s \o t)[i] = t[i - Len(s)]
    BY <2>2 DEF Piece
  <2> QED
    BY <1>1, <2>1, <2>2, CatAt
<1>3. IsSeq(s \o t)
  BY <1>1, SeqCat
<1>4. Once(s \o t) /\ Defs(s \o t) = D \cup E /\ Refs(s \o t) \subseteq R
  BY <1>1, CatLabels DEF Piece
<1> QED
  BY <1>2, <1>3, <1>4 DEF Piece

\* The empty piece.
LEMMA PieceNone ==
  ASSUME NEW R
  PROVE  Piece(<<>>, {}, R)
  BY DEF Piece, IsSeq, Once, Defs, Refs, Range

\* A piece of one item.
LEMMA PieceOne ==
  ASSUME NEW item, NEW D, NEW R, IsItem(item), Def(item) = D, Refers(item) \subseteq R
  PROVE  Piece(<<item>>, D, R)
<1>1. IsSeq(<<item>>)
  BY SeqIn, <<item>> \in Seq({item})
<1>2. DOMAIN <<item>> = {1} /\ <<item>>[1] = item
  OBVIOUS
<1>3. Defs(<<item>>) = D /\ Refs(<<item>>) = Refers(item)
  BY <1>2 DEF Defs, Refs
<1> QED
  BY <1>1, <1>2, <1>3 DEF Piece, Once

\* Items that define nothing are a piece.
LEMMA PieceEach ==
  ASSUME NEW s, NEW R, IsSeq(s),
         \A i \in DOMAIN s : IsItem(s[i]) /\ Def(s[i]) = {} /\ Refers(s[i]) \subseteq R
  PROVE  Piece(s, {}, R)
  BY DEF Piece, Once, Defs, Refs

\* A visit defines and names no label yet.
LEMMA PieceVisit ==
  ASSUME NEW n \in Stmts \cup Exprs, NEW R
  PROVE  Piece(<<Visit(n)>>, {}, R)
<1>1. IsItem(Visit(n))
  BY DEF IsItem, Visit
<1>2. Def(Visit(n)) = {} /\ Refers(Visit(n)) = {}
  BY DEF Def, DefinesLabel, Refers, Visit
<1> QED
  BY <1>1, <1>2, PieceOne

\* Nor do the visits of a list of nodes.
LEMMA PieceVisitAll ==
  ASSUME NEW nodes, nodes \in Seq(Stmts) \/ nodes \in Seq(Exprs), NEW R
  PROVE  Piece(VisitAll(nodes), {}, R)
<1>1. DOMAIN VisitAll(nodes) = 1..Len(nodes) /\ Len(nodes) \in Nat
  BY DEF VisitAll
<1>2. \A i \in DOMAIN VisitAll(nodes) :
         nodes[i] \in Stmts \cup Exprs /\ VisitAll(nodes)[i] = Visit(nodes[i])
  BY DEF VisitAll
<1>3. IsSeq(VisitAll(nodes))
  BY <1>1 DEF IsSeq, Range, VisitAll
<1>4. \A n \in Stmts \cup Exprs : IsItem(Visit(n)) /\ Def(Visit(n)) = {} /\ Refers(Visit(n)) = {}
  BY DEF IsItem, Visit, Def, DefinesLabel, Refers
<1> QED
  BY <1>2, <1>3, <1>4, PieceEach

\* A LABEL to be emitted defines its label.
LEMMA PieceLabel ==
  ASSUME NEW R, NEW l \in R
  PROVE  Piece(<<EmitLabel(l)>>, {l}, R)
<1>1. IsItem(EmitLabel(l))
  <2>1. WellFormed(LabelInsn(l))
    BY DEF WellFormed, LabelInsn, Insn, Lab
  <2> QED
    BY <2>1 DEF IsItem, EmitLabel, Emit
<1>2. Def(EmitLabel(l)) = {l}
  BY DEF Def, DefinesLabel, Defined, EmitLabel, Emit, LabelInsn, Insn, Lab
<1>3. Refers(EmitLabel(l)) = {l}
  BY DEF Refers, EmitLabel, Emit, LabelInsn, Insn, Lab
<1> QED
  BY <1>1, <1>2, <1>3, PieceOne

\* An instruction other than LABEL, with the labels it names.
Names(insn, R) ==
  /\ insn.op # "LABEL"
  /\ Len(insn.args) <= 3
  /\ \A i \in DOMAIN insn.args : insn.args[i].kind = "label" => insn.args[i].v \in R

\* Any other instruction to be emitted refers to the labels it names.
LEMMA PieceEmit ==
  ASSUME NEW insn, NEW R, Names(insn, R)
  PROVE  Piece(<<Emit(insn)>>, {}, R)
<1>1. IsItem(Emit(insn)) /\ Def(Emit(insn)) = {} /\ Refers(Emit(insn)) \subseteq R
  BY DEF IsItem, WellFormed, Emit, Def, DefinesLabel, Refers, Names
<1> QED
  BY <1>1, PieceOne

\* A jump to be emitted refers to its target.
LEMMA PieceJump ==
  ASSUME NEW R, NEW l \in R
  PROVE  Piece(<<EmitJump(l)>>, {}, R)
<1>1. Names(Jump(l), R)
  BY DEF Names, Jump, Insn, Lab
<1> QED
  BY <1>1, PieceEmit DEF EmitJump

\* So does a jump that waits for its condition.
LEMMA PieceJumpOn ==
  ASSUME NEW op \in {"JZ", "JNZ"}, NEW R, NEW l \in R
  PROVE  Piece(<<JumpOn(op, l)>>, {}, R)
<1>1. IsItem(JumpOn(op, l)) /\ Def(JumpOn(op, l)) = {} /\ Refers(JumpOn(op, l)) \subseteq R
  BY DEF IsItem, JumpOn, Def, DefinesLabel, Refers
<1> QED
  BY <1>1, PieceOne

\* The items of work that name no label.
Plain == {"expr", "forget", "bindTo", "toR0", "yield", "require", "negate", "assignTo",
          "note", "zero", "fresh", "variant", "copyTo", "exitScope", "popLoop"}

\* The items that never name a label.
LEMMA PiecePlain ==
  ASSUME NEW item, item.do \in Plain, NEW R
  PROVE  Piece(<<item>>, {}, R)
<1>1. IsItem(item) /\ Def(item) = {} /\ Refers(item) = {}
  BY DEF IsItem, Def, DefinesLabel, Refers, Plain
<1> QED
  BY <1>1, PieceOne

\* Emitting two lists of instructions, one after the other.
LEMMA EmitAllCat ==
  ASSUME NEW s, NEW t, IsSeq(s), IsSeq(t)
  PROVE  /\ IsSeq(EmitAll(s))
         /\ EmitAll(s \o t) = EmitAll(s) \o EmitAll(t)
<1>1. ASSUME NEW u, IsSeq(u)
      PROVE  IsSeq(EmitAll(u)) /\ Len(EmitAll(u)) = Len(u) /\ DOMAIN EmitAll(u) = 1..Len(u)
  <2>1. DOMAIN EmitAll(u) = 1..Len(u) /\ Len(u) \in Nat
    BY <1>1, SeqLen DEF EmitAll
  <2> QED
    BY <2>1 DEF IsSeq, Range, EmitAll
<1>2. IsSeq(EmitAll(s)) /\ IsSeq(EmitAll(t)) /\ IsSeq(s \o t) /\ IsSeq(EmitAll(s \o t))
      /\ IsSeq(EmitAll(s) \o EmitAll(t))
  BY <1>1, SeqCat
<1>3. /\ Len(s) \in Nat /\ Len(t) \in Nat /\ DOMAIN s = 1..Len(s) /\ DOMAIN t = 1..Len(t)
      /\ Len(EmitAll(s)) = Len(s) /\ Len(EmitAll(t)) = Len(t)
      /\ DOMAIN EmitAll(s \o t) = 1..(Len(s) + Len(t))
      /\ DOMAIN (EmitAll(s) \o EmitAll(t)) = 1..(Len(s) + Len(t))
  <2>1. /\ Len(s) \in Nat /\ Len(t) \in Nat /\ DOMAIN s = 1..Len(s) /\ DOMAIN t = 1..Len(t)
        /\ Len(EmitAll(s)) = Len(s) /\ Len(EmitAll(t)) = Len(t)
    BY <1>1, SeqLen
  <2>2. Len(s \o t) = Len(s) + Len(t)
    BY SeqCat
  <2>3. DOMAIN EmitAll(s \o t) = 1..(Len(s) + Len(t))
    BY <2>2, <1>1, <1>2
  <2>4. Len(EmitAll(s) \o EmitAll(t)) = Len(EmitAll(s)) + Len(EmitAll(t))
    BY <1>2, SeqCat
  <2> QED
    BY <2>1, <2>3, <2>4, <1>2, SeqLen
<1>4. ASSUME NEW i \in 1..(Len(s) + Len(t))
      PROVE  EmitAll(s \o t)[i] = (EmitAll(s) \o EmitAll(t))[i]
  <2>1. EmitAll(s \o t)[i] = Emit((s \o t)[i])
    BY <1>3 DEF EmitAll
  <2>2. CASE i \in DOMAIN s
    <3>1. (s \o t)[i] = s[i] /\ (EmitAll(s) \o EmitAll(t))[i] = EmitAll(s)[i]
      BY <2>2, <1>2, <1>3, SeqCat
    <3> QED
      BY <2>1, <2>2, <3>1 DEF EmitAll
  <2>3. CASE i - Len(s) \in DOMAIN t
    <3> DEFINE j == i - Len(s)
    <3>1. j \in 1..Len(t) /\ Len(s) + j = i
      BY <2>3, <1>3
    <3>2. (s \o t)[Len(s) + j] = t[j]
      BY <3>1, SeqCat
    <3>3. (EmitAll(s) \o EmitAll(t))[Len(s) + j] = EmitAll(t)[j]
      BY <3>1, <1>2, <1>3, SeqCat
    <3>4. EmitAll(t)[j] = Emit(t[j])
      BY <3>1, <1>3 DEF EmitAll
    <3> QED
      BY <2>1, <3>1, <3>2, <3>3, <3>4
  <2> QED
    BY <1>3, <2>2, <2>3
<1>5. EmitAll(s \o t) = (EmitAll(s) \o EmitAll(t))
  <2> DEFINE whole == EmitAll(s \o t)
             halves == EmitAll(s) \o EmitAll(t)
  <2>1. /\ IsSeq(whole) /\ IsSeq(halves) /\ DOMAIN whole = DOMAIN halves
        /\ \A i \in DOMAIN whole : whole[i] = halves[i]
    BY <1>2, <1>3, <1>4
  <2> HIDE DEF whole, halves
  <2>2. whole = halves
    BY <2>1, SameElements
  <2> QED
    BY <2>2 DEF whole, halves
<1> QED
  BY <1>1, <1>5

\* The labels handed out so far, and those of one step, are below the next one.
LEMMA RangesGrow ==
  ASSUME NEW m \in Nat, NEW n \in Nat, n >= m
  PROVE  0..(m - 1) \subseteq 0..(n - 1) /\ m..(n - 1) \subseteq 0..(n - 1)
  OBVIOUS

\* The general step: the item at hand is replaced by instructions and items of its
\* own, which define fresh labels and refer to those, to what the item referred to
\* and to the loops around.
LEMMA Rewritten ==
  ASSUME LabelInv, NEW insns, NEW items, NEW D, NEW R,
         work # <<>>, Def(Head(work)) = {},
         R = Refers(Head(work)) \cup LoopLabels(loops) \cup D,
         IsSeq(insns), Piece(EmitAll(insns), {}, R), Piece(items, D, R),
         code' = code \o insns, work' = items \o Tail(work),
         D \subseteq labels..(labels' - 1), labels' \in Nat, labels' >= labels,
         IsSeq(loops'), LoopLabels(loops') \subseteq R
  PROVE  LabelInv'
<1> DEFINE A == EmitAll(code)
           B == EmitAll(insns)
           T == Tail(work)
<1>1. IsSeq(code) /\ IsSeq(work) /\ IsSeq(T) /\ IsSeq(A) /\ IsSeq(B) /\ IsSeq(items)
      /\ work = <<Head(work)>> \o T /\ IsSeq(<<Head(work)>>)
  <2>1. IsSeq(<<Head(work)>>)
    BY SeqIn, <<Head(work)>> \in Seq({Head(work)})
  <2> QED
    BY <2>1, HeadAndTail, EmitAllCat DEF LabelInv, Piece
<1>2. IsSeq(work') /\ \A i \in DOMAIN work' : IsItem(work'[i])
  <2>1. \A i \in DOMAIN T : IsItem(T[i])
    BY <1>1, HeadAndTail DEF LabelInv
  <2>2. \A i \in DOMAIN items : IsItem(items[i])
    BY DEF Piece
  <2> QED
    BY <1>1, <2>1, <2>2, SeqCat, CatAt
<1>3. IsSeq(code') /\ Image' = (A \o B) \o (items \o T)
      /\ \A i \in DOMAIN code' : WellFormed(code'[i])
  <2>1. ASSUME NEW i \in DOMAIN insns
        PROVE  WellFormed(insns[i])
    <3>1. i \in DOMAIN B /\ B[i] = Emit(insns[i])
      BY DEF EmitAll
    <3>2. IsItem(Emit(insns[i]))
      BY <3>1 DEF Piece
    <3> QED
      BY <3>2 DEF IsItem, Emit
  <2>2. \A i \in DOMAIN code' : WellFormed(code'[i])
    BY <1>1, <2>1, CatAt DEF LabelInv
  <2> QED
    BY <1>1, <2>2, EmitAllCat, SeqCat DEF Image
<1>4. /\ Defs(<<Head(work)>>) = {} /\ Refs(<<Head(work)>>) = Refers(Head(work))
  BY DEF Defs, Refs
<1> HIDE DEF A, B, T
<1>5. IsSeq(A \o B) /\ IsSeq(items \o T)
  BY <1>1, SeqCat
<1>6. Defs(work) = Defs(T) /\ Refs(work) = Refers(Head(work)) \cup Refs(T) /\ Once(T)
  <2>1. Once(A \o work)
    BY DEF LabelInv, Image, A
  <2>2. Once(work)
    BY <2>1, <1>1, CatLabels
  <2>3. Once(<<Head(work)>> \o T)
    BY <2>2, <1>1
  <2>4. /\ Defs(<<Head(work)>> \o T) = Defs(<<Head(work)>>) \cup Defs(T)
        /\ Refs(<<Head(work)>> \o T) = Refs(<<Head(work)>>) \cup Refs(T)
        /\ Once(T)
    BY <2>3, <1>1, CatLabels
  <2> QED
    BY <2>4, <1>1, <1>4
<1>7. /\ Defs(Image) = Defs(A) \cup Defs(T)
      /\ Refs(Image) = Refs(A) \cup Refers(Head(work)) \cup Refs(T)
      /\ Once(A) /\ Defs(A) \cap Defs(T) = {}
  BY <1>1, <1>6, CatLabels DEF LabelInv, Image, A
<1>8. /\ Once(B) /\ Defs(B) = {} /\ Refs(B) \subseteq R
      /\ Once(items) /\ Defs(items) = D /\ Refs(items) \subseteq R
  BY DEF Piece, B
<1>9. /\ Defs(A \o B) = Defs(A) /\ Refs(A \o B) = Refs(A) \cup Refs(B)
      /\ Defs(items \o T) = D \cup Defs(T) /\ Refs(items \o T) = Refs(items) \cup Refs(T)
  <2>1. Defs(A \o B) = Defs(A) \cup Defs(B) /\ Refs(A \o B) = Refs(A) \cup Refs(B)
    BY <1>1, CatLabels
  <2>2. Defs(items \o T) = Defs(items) \cup Defs(T) /\ Refs(items \o T) = Refs(items) \cup Refs(T)
    BY <1>1, CatLabels
  <2> QED
    BY <2>1, <2>2, <1>8
<1>10. /\ Defs(Image') = Defs(Image) \cup D
       /\ Refs(Image') = Refs(A) \cup Refs(B) \cup Refs(items) \cup Refs(T)
  BY <1>3, <1>5, <1>7, <1>9, CatLabels
<1>11. Refs(Image') \cup LoopLabels(loops') \subseteq Defs(Image')
  <2>1. Refs(Image) \cup LoopLabels(loops) \subseteq Defs(Image)
    BY DEF LabelInv
  <2>2. R \subseteq Defs(Image')
    BY <2>1, <1>7, <1>10
  <2>3. Refs(A) \cup Refs(T) \subseteq Defs(Image')
    BY <2>1, <1>7, <1>10
  <2> QED
    BY <2>2, <2>3, <1>8, <1>10
<1>12. Defs(Image') \subseteq 0..(labels' - 1)
  <2>1. labels \in Nat /\ Defs(Image) \subseteq 0..(labels - 1)
    BY DEF LabelInv
  <2>2. /\ 0..(labels - 1) \subseteq 0..(labels' - 1)
        /\ labels..(labels' - 1) \subseteq 0..(labels' - 1)
    BY <2>1, RangesGrow
  <2> QED
    BY <2>1, <2>2, <1>10
<1>13. Once(Image')
  <2>1. D \cap Defs(Image) = {}
    <3>1. labels \in Nat
      BY DEF LabelInv
    <3>2. \A l \in labels..(labels' - 1) : l \notin 0..(labels - 1)
      BY <3>1
    <3>3. \A l \in D : l \notin 0..(labels - 1)
      BY <3>2
    <3> QED
      BY <3>3 DEF LabelInv
  <2>2. Once(A \o B)
    BY <1>1, <1>7, <1>8, CatLabels
  <2>3. Once(items \o T)
    BY <2>1, <1>1, <1>6, <1>7, <1>8, CatLabels
  <2>4. Defs(A \o B) \cap Defs(items \o T) = {}
    BY <2>1, <1>7, <1>9
  <2> QED
    BY <2>2, <2>3, <2>4, <1>3, <1>5, CatLabels
<1> QED
  BY <1>2, <1>3, <1>11, <1>12, <1>13 DEF LabelInv

\* A step that is done with its item: it emits instructions but no LABEL.
LEMMA QuietStep ==
  ASSUME LabelInv, NEW insns, work # <<>>, Head(work).do # "emit",
         IsSeq(insns), \A i \in DOMAIN insns : Names(insns[i], Refers(Head(work))),
         code' = code \o insns, Leaves(<<>>),
         labels' = labels, IsSeq(loops'),
         LoopLabels(loops') \subseteq Refers(Head(work)) \cup LoopLabels(loops)
  PROVE  LabelInv'
<1> DEFINE R == Refers(Head(work)) \cup LoopLabels(loops) \cup {}
<1>1. Def(Head(work)) = {}
  BY DEF Def, DefinesLabel
<1>2. Piece(EmitAll(insns), {}, R)
  <2>1. IsSeq(EmitAll(insns)) /\ DOMAIN EmitAll(insns) = DOMAIN insns
    BY EmitAllCat DEF EmitAll
  <2>2. \A i \in DOMAIN EmitAll(insns) :
           /\ EmitAll(insns)[i] = Emit(insns[i]) /\ Names(insns[i], R)
    BY <2>1 DEF EmitAll, Names
  <2>3. \A i \in DOMAIN EmitAll(insns) :
           LET item == EmitAll(insns)[i]
           IN IsItem(item) /\ Def(item) = {} /\ Refers(item) \subseteq R
    <3> HIDE DEF R
    <3> SUFFICES ASSUME NEW insn, Names(insn, R)
                 PROVE  IsItem(Emit(insn)) /\ Def(Emit(insn)) = {} /\ Refers(Emit(insn)) \subseteq R
      BY <2>2
    <3> QED
      BY DEF IsItem, WellFormed, Emit, Def, DefinesLabel, Refers, Names
  <2> QED
    BY <2>1, <2>3, PieceEach
<1>3. Piece(<<>>, {}, R)
  BY PieceNone
<1>4. labels \in Nat /\ {} \subseteq labels..(labels' - 1) /\ labels' \in Nat /\ labels' >= labels
  BY DEF LabelInv
<1>5. work' = <<>> \o Tail(work)
  BY DEF Leaves
<1>6. R = Refers(Head(work)) \cup LoopLabels(loops) \cup {} /\ LoopLabels(loops') \subseteq R
  OBVIOUS
<1> HIDE DEF R
<1> QED
  BY <1>1, <1>2, <1>3, <1>4, <1>5, <1>6, Rewritten

\* A step that emits nothing and leaves items that define fresh labels.
LEMMA ExpandingStep ==
  ASSUME LabelInv, NEW items, NEW D, work # <<>>, Head(work).do # "emit",
         Piece(items, D, Refers(Head(work)) \cup LoopLabels(loops) \cup D),
         code' = code, Leaves(items),
         D \subseteq labels..(labels' - 1), labels' \in Nat, labels' >= labels,
         loops' = loops
  PROVE  LabelInv'
<1> DEFINE R == Refers(Head(work)) \cup LoopLabels(loops) \cup D
<1>1. Def(Head(work)) = {}
  BY DEF Def, DefinesLabel
<1>2. IsSeq(<<>>) /\ EmitAll(<<>>) = <<>> /\ Piece(EmitAll(<<>>), {}, R)
  BY PieceNone DEF EmitAll, Piece
<1>3. code' = code \o <<>>
  BY DEF LabelInv, IsSeq
<1>4. work' = items \o Tail(work)
  BY DEF Leaves
<1>5. /\ IsSeq(loops') /\ LoopLabels(loops') \subseteq R
      /\ R = Refers(Head(work)) \cup LoopLabels(loops) \cup D
      /\ Piece(items, D, R)
  BY DEF LabelInv
<1> HIDE DEF R
<1> QED
  BY <1>1, <1>2, <1>3, <1>4, <1>5, Rewritten

\* An instruction other than LABEL names the labels among its operands.
LEMMA InstructionNames ==
  ASSUME NEW op, op # "LABEL", NEW args, Len(args) <= 3, NEW R,
         \A i \in DOMAIN args : args[i].kind = "label" => args[i].v \in R
  PROVE  Names(Insn(op, args), R)
  BY DEF Names, Insn

\* A piece of two items.
LEMMA PieceTwo ==
  ASSUME NEW a, NEW b, NEW D, NEW E, NEW R,
         Piece(<<a>>, D, R), Piece(<<b>>, E, R), D \cap E = {}
  PROVE  Piece(<<a, b>>, D \cup E, R)
<1>1. Piece(<<a>> \o <<b>>, D \cup E, R)
  BY PieceCat
<1>2. <<a, b>> = <<a>> \o <<b>>
  <2> DEFINE s == <<a>> \o <<b>>
  <2>1. s \in Seq({a, b}) /\ Len(s) = 2 /\ s[1] = a /\ s[2] = b
    OBVIOUS
  <2>2. s = <<s[1], s[2]>>
    <3> HIDE DEF s
    <3> QED
      BY <2>1
  <2> QED
    BY <2>1, <2>2
<1> QED
  BY <1>1, <1>2

\* A piece of three items.
LEMMA PieceThree ==
  ASSUME NEW a, NEW b, NEW c, NEW D, NEW E, NEW F, NEW R,
         Piece(<<a>>, D, R), Piece(<<b>>, E, R), Piece(<<c>>, F, R),
         D \cap E = {}, D \cap F = {}, E \cap F = {}
  PROVE  Piece(<<a, b, c>>, D \cup E \cup F, R)
<1>1. Piece(<<a, b>>, D \cup E, R)
  BY PieceTwo
<1>2. Piece(<<a, b>> \o <<c>>, D \cup E \cup F, R)
  BY <1>1, PieceCat
<1>3. <<a, b, c>> = <<a, b>> \o <<c>>
  OBVIOUS
<1> QED
  BY <1>2, <1>3

\* The item at hand has the form its step relies on.
LEMMA AtHand ==
  ASSUME LabelInv, work # <<>>
  PROVE  IsItem(Head(work))
  BY HeadAndTail DEF LabelInv

\* The node at hand is a statement or an expression of its kind.
LEMMA NodeAtHand ==
  ASSUME LabelInv, NEW kind, Visiting(kind)
  PROVE  /\ Node.k = kind
         /\ (Node \in Stmts /\ IsStmt(Node)) \/ (Node \in Exprs /\ IsExpr(Node))
<1>1. Node \in Stmts \cup Exprs /\ Node.k = kind
  BY AtHand DEF Visiting, Doing, IsItem, Node
<1>2. Node \in Stmts => IsStmt(Node)
  BY SyntaxAssumption
<1>3. Node \in Exprs => IsExpr(Node)
  BY SyntaxAssumption
<1> QED
  BY <1>1, <1>2, <1>3

\* What the node at hand is made of.
LEMMA StatementParts ==
  ASSUME LabelInv
  PROVE  /\ Visiting("expr") => Node.e \in Exprs
         /\ Visiting("block") => Node.body \in Seq(Stmts)
         /\ Visiting("bind") => Node.init \in Exprs \cup {Nil}
         /\ Visiting("if") => /\ Node \in Stmts /\ Node.k = "if" /\ Node.cond \in Exprs
                              /\ Node.then \in Stmts /\ Node.otherwise \in Stmts \cup {Nil}
         /\ Visiting("while") => Node.cond \in Exprs /\ Node.body \in Stmts
         /\ Visiting("loop") => Node.guard \in Exprs \cup {Nil} /\ Node.body \in Seq(Stmts)
         /\ Visiting("return") => Node.value \in Exprs \cup {Nil}
         /\ Visiting("fn") => Node.body \in Seq(Stmts)
<1> SUFFICES ASSUME NEW kind \in {"expr", "block", "bind", "if", "while", "loop", "return", "fn"},
                    Visiting(kind)
             PROVE  Node.k = kind /\ Node \in Stmts /\ IsStmt(Node)
  BY DEF IsStmt
<1> QED
  BY NodeAtHand DEF IsExpr

\* The parts of the expression at hand are expressions.
LEMMA ExpressionParts ==
  ASSUME LabelInv
  PROVE  /\ Visiting("logical") => Node.left \in Exprs /\ Node.right \in Exprs
         /\ Visiting("binary") => /\ Node \in Exprs /\ Node.k = "binary"
                                  /\ Node.left \in Exprs /\ Node.right \in Exprs
         /\ Visiting("group") => Node.e \in Exprs
         /\ Visiting("unary") => Node.right \in Exprs
         /\ Visiting("assign") => Node.value \in Exprs
         /\ Visiting("call") => Node \in Exprs /\ Node.k = "call" /\ Node.args \in Seq(Exprs)
         /\ Visiting("callAny") => Node.args \in Seq(Exprs)
         /\ Visiting("record") => Node.fields \in Seq(Exprs)
         /\ Visiting("enum") => Node.payload \in Exprs \cup {Nil}
         /\ Visiting("match") => IsMatch(Node) /\ Node.scrutinee \in Exprs
<1> SUFFICES ASSUME NEW kind \in {"logical", "binary", "group", "unary", "assign", "call",
                                  "callAny", "record", "enum", "match"},
                    Visiting(kind)
             PROVE  Node.k = kind /\ Node \in Exprs /\ IsExpr(Node)
  BY DEF IsExpr, IsMatch
<1> QED
  BY NodeAtHand DEF IsStmt

\* EmitNext moves an instruction from the work to the code: the image is the same.
LEMMA EmitNextLabels ==
  ASSUME LabelInv, EmitNext
  PROVE  LabelInv'
<1> DEFINE h == Head(work)
           U == Range(EmitAll(code)) \cup Range(work) \cup Range(<<h.insn>>)
<1>1. h = Emit(h.insn) /\ work # <<>>
  BY AtHand DEF EmitNext, Doing, IsItem
<1>2. code' = code \o <<h.insn>> /\ work' = Tail(work) /\ UNCHANGED <<loops, labels>>
  <2>1. work' = <<>> \o Tail(work)
    BY DEF EmitNext, Leaves
  <2>2. Tail(work) \in Seq(Range(Tail(work)))
    BY <1>1, HeadAndTail DEF LabelInv, IsSeq
  <2> QED
    BY <2>1, <2>2 DEF EmitNext, Emits, fixed
<1>3. EmitAll(<<h.insn>>) = <<h>>
  BY <1>1 DEF EmitAll
<1>4. IsSeq(<<h.insn>>) /\ IsSeq(code) /\ IsSeq(work)
  BY SeqIn, <<h.insn>> \in Seq({h.insn}) DEF LabelInv
<1>5. Image' = (EmitAll(code) \o <<h>>) \o Tail(work)
  BY <1>2, <1>3, <1>4, EmitAllCat DEF Image
<1>6. Image = EmitAll(code) \o (<<h>> \o Tail(work))
  BY <1>1, <1>4, HeadAndTail DEF Image
<1>7. Image' = Image
  <2>1. EmitAll(code) \in Seq(U)
    <3>1. EmitAll(code) \in Seq(Range(EmitAll(code)))
      BY <1>4, EmitAllCat DEF IsSeq
    <3> QED
      BY <3>1
  <2>2. <<h>> \in Seq(U) /\ Tail(work) \in Seq(U)
    <3>1. work \in Seq(U)
      BY <1>4 DEF IsSeq
    <3> HIDE DEF U
    <3> QED
      BY <3>1, <1>1
  <2> HIDE DEF U, h
  <2> QED
    BY <1>5, <1>6, <2>1, <2>2, ConcatAssociative
<1>8. IsSeq(work') /\ \A i \in DOMAIN work' : IsItem(work'[i])
  BY <1>1, <1>2, HeadAndTail DEF LabelInv
<1>9. IsSeq(code') /\ \A i \in DOMAIN code' : WellFormed(code'[i])
  <2>1. WellFormed(h.insn)
    BY AtHand DEF EmitNext, Doing, IsItem
  <2>2. \A i \in DOMAIN <<h.insn>> : WellFormed(<<h.insn>>[i])
    BY <2>1
  <2> QED
    BY <1>2, <1>4, <2>2, SeqCat, CatAt DEF LabelInv
<1> QED
  BY <1>2, <1>7, <1>8, <1>9 DEF LabelInv

\* If takes one label for its end, and defines it.
LEMMA IfLabels ==
  ASSUME LabelInv, If
  PROVE  LabelInv'
<1> DEFINE branch == [do |-> "branch", node |-> Node, end |-> labels]
           items == <<Visit(Node.cond), branch, EmitLabel(labels)>>
           D == {labels}
           R == Refers(Head(work)) \cup LoopLabels(loops) \cup D
<1>1. Node \in Stmts /\ Node.k = "if" /\ Node.cond \in Exprs
  BY StatementParts DEF If
<1>2. Piece(items, D, R)
  <2>1. Piece(<<Visit(Node.cond)>>, {}, R)
    BY <1>1, PieceVisit
  <2>2. Piece(<<branch>>, {}, R)
    <3>1. IsItem(branch) /\ Def(branch) = {} /\ Refers(branch) \subseteq R
      BY <1>1 DEF IsItem, Def, DefinesLabel, Refers
    <3> QED
      BY <3>1, PieceOne
  <2>3. Piece(<<EmitLabel(labels)>>, D, R)
    BY PieceLabel
  <2> HIDE DEF R, branch
  <2> QED
    BY <2>1, <2>2, <2>3, PieceThree, {} \cup {} \cup D = D
<1>3. labels \in Nat /\ labels' = labels + 1 /\ D \subseteq labels..(labels' - 1)
  BY DEF LabelInv, If
<1>4. work # <<>> /\ Head(work).do # "emit" /\ Leaves(items) /\ code' = code /\ loops' = loops
  BY DEF If, Visiting, Doing, fixed
<1>5. /\ Piece(items, D, Refers(Head(work)) \cup LoopLabels(loops) \cup D)
      /\ labels' \in Nat /\ labels' >= labels
  BY <1>2, <1>3
<1> HIDE DEF D, items
<1> QED
  BY <1>3, <1>4, <1>5, ExpandingStep

\* Some instructions other than LABEL are appended, with labels that the item
\* at hand refers to.
EmitsQuietly ==
  \E insns : /\ code' = code \o insns /\ IsSeq(insns)
             /\ \A i \in DOMAIN insns : Names(insns[i], Refers(Head(work)))

\* A step that is done with its item and emits quietly.
LEMMA QuietLabels ==
  ASSUME LabelInv, work # <<>>, Head(work).do # "emit", EmitsQuietly,
         Leaves(<<>>), labels' = labels, loops' = loops
  PROVE  LabelInv'
<1>1. PICK insns : /\ code' = code \o insns /\ IsSeq(insns)
                   /\ \A i \in DOMAIN insns : Names(insns[i], Refers(Head(work)))
  BY DEF EmitsQuietly
<1>2. IsSeq(loops') /\ LoopLabels(loops') \subseteq Refers(Head(work)) \cup LoopLabels(loops)
  BY DEF LabelInv
<1> QED
  BY <1>1, <1>2, QuietStep

\* No instruction,
LEMMA NoneEmitted ==
  ASSUME LabelInv, code' = code
  PROVE  EmitsQuietly
<1>1. IsSeq(<<>>) /\ code' = code \o <<>> /\ DOMAIN <<>> = {}
  BY DEF LabelInv, IsSeq
<1> QED
  BY <1>1 DEF EmitsQuietly

\* one instruction
LEMMA OneEmitted ==
  ASSUME LabelInv, NEW insn, Names(insn, Refers(Head(work))), code' = code \o <<insn>>
  PROVE  EmitsQuietly
<1>1. IsSeq(<<insn>>)
  BY SeqIn, <<insn>> \in Seq({insn})
<1>2. DOMAIN <<insn>> = {1} /\ <<insn>>[1] = insn
  OBVIOUS
<1> QED
  BY <1>1, <1>2 DEF EmitsQuietly

\* or two instructions that name only labels the item refers to.
LEMMA TwoEmitted ==
  ASSUME LabelInv, NEW insn1, NEW insn2,
         Names(insn1, Refers(Head(work))), Names(insn2, Refers(Head(work))),
         code' = code \o <<insn1, insn2>>
  PROVE  EmitsQuietly
<1>1. IsSeq(<<insn1, insn2>>)
  BY SeqIn, <<insn1, insn2>> \in Seq({insn1, insn2})
<1>2. DOMAIN <<insn1, insn2>> = {1, 2} /\ <<insn1, insn2>>[1] = insn1 /\ <<insn1, insn2>>[2] = insn2
  OBVIOUS
<1> QED
  BY <1>1, <1>2 DEF EmitsQuietly

\* Instructions on registers and numbers.
LEMMA NamesNone ==
  ASSUME NEW op, op # "LABEL", NEW R
  PROVE  /\ Names(Insn(op, <<>>), R)
         /\ \A a : a.kind # "label" => Names(Insn(op, <<a>>), R)
         /\ \A a, b : a.kind # "label" /\ b.kind # "label" => Names(Insn(op, <<a, b>>), R)
         /\ \A a, b, c : a.kind # "label" /\ b.kind # "label" /\ c.kind # "label"
                          => Names(Insn(op, <<a, b, c>>), R)
  BY DEF Names, Insn

\* What an instruction says of kinds and relations names no label.
LEMMA NamesKept ==
  ASSUME NEW insn, NEW R, Names(insn, R), NEW op, NEW args, insn = Insn(op, args), NEW x
  PROVE  /\ Names(OfKind(insn, x), R)
         /\ Names([insn EXCEPT !.literal = x], R)
         /\ Names([insn EXCEPT !.relation = x], R)
  BY DEF Names, Insn, OfKind

\* The steps that only take or leave values and names.
LEMMA SilentLabels ==
  ASSUME LabelInv,
         \/ Forget \/ BindTo \/ Declaration \/ YieldRegister \/ Require \/ Fresh \/ ExitScope
  PROVE  LabelInv'
<1>1. /\ work # <<>> /\ Head(work).do # "emit" /\ Leaves(<<>>)
      /\ UNCHANGED <<code, labels, loops>>
  BY DEF Forget, BindTo, Declaration, YieldRegister, Require, Fresh, ExitScope, Visiting, Doing,
         fixed, others, Expands
<1> QED
  BY <1>1, NoneEmitted, QuietLabels

\* A copy is a MOV or nothing.
LEMMA CopyIsQuiet ==
  ASSUME LabelInv, NEW dest, NEW r, Emits(CopyTo(dest, r))
  PROVE  EmitsQuietly
<1>1. CASE r.reg = dest.reg
  <2>1. code' = code
    BY <1>1 DEF Emits, CopyTo, LabelInv, IsSeq
  <2> QED
    BY <2>1, NoneEmitted
<1>2. CASE r.reg # dest.reg
  <2> DEFINE insn == OfKind(Insn("MOV", <<Reg(dest), Reg(r)>>), dest.primitive)
  <2>1. code' = code \o <<insn>>
    BY <1>2 DEF Emits, CopyTo
  <2>2. Names(insn, Refers(Head(work)))
    BY NamesNone, NamesKept DEF Reg
  <2> QED
    BY <2>1, <2>2, OneEmitted
<1> QED
  BY <1>1, <1>2

\* The steps that end in a copy.
LEMMA CopyLabels ==
  ASSUME LabelInv, ReturnValue \/ AssignTo \/ CopyResult
  PROVE  LabelInv'
<1>1. /\ work # <<>> /\ Head(work).do # "emit" /\ Leaves(<<>>)
      /\ UNCHANGED <<labels, loops>>
  BY DEF ReturnValue, AssignTo, CopyResult, Doing, fixed
<1>2. (\E dest, r : Emits(CopyTo(dest, r))) \/ code' = code
  BY DEF ReturnValue, AssignTo, CopyResult
<1> QED
  BY <1>1, <1>2, CopyIsQuiet, NoneEmitted, QuietLabels

\* The steps that emit one instruction on registers and numbers.
LEMMA PlainInstructionLabels ==
  ASSUME LabelInv,
         \/ JumpOnCondition \/ Literal \/ Negate \/ Make \/ Handle \/ NotePayload \/ Zero
         \/ VectorLiteral \/ MakeVariant
  PROVE  LabelInv'
<1> DEFINE R == Refers(Head(work))
<1>1. /\ work # <<>> /\ Head(work).do # "emit" /\ Leaves(<<>>)
      /\ UNCHANGED <<labels, loops>>
  BY DEF JumpOnCondition, Literal, Negate, Make, Handle, NotePayload, Zero, VectorLiteral,
         MakeVariant, Visiting, Doing, fixed
<1>2. ASSUME JumpOnCondition PROVE EmitsQuietly
  <2>1. Head(work).label \in R /\ Head(work).op \in {"JZ", "JNZ"}
    BY <1>1, <1>2, AtHand DEF JumpOnCondition, Doing, Refers, IsItem
  <2>2. Names(JumpIf(Head(work).op, Head(work).label, Result(0)), R)
    BY <2>1 DEF Names, JumpIf, Insn, Lab, Reg
  <2> QED
    BY <1>2, <2>2, OneEmitted DEF JumpOnCondition, Emits
<1>3. ASSUME Literal PROVE EmitsQuietly
  <2> DEFINE kind == IF Node.of = "bool" THEN "Boolean" ELSE "Integer"
             dest == Typed(regs, kind)
             symbol == [OfKind(Insn("LOADI", <<Reg(dest)>>), kind) EXCEPT !.literal = "Symbol"]
  <2>1. code' = code \o <<symbol>> \/ code' = code \o <<LoadImm(dest, Node.whole)>>
    BY <1>3 DEF Literal, Emits
  <2>2. Names(symbol, R) /\ Names(LoadImm(dest, Node.whole), R)
    BY DEF Names, OfKind, Insn, Reg, LoadImm, Imm
  <2> QED
    BY <2>1, <2>2, OneEmitted
<1>4. ASSUME Negate PROVE EmitsQuietly
  <2> DEFINE dest == Typed(regs, Result(0).primitive)
             insn == OfKind(Insn("NEG", <<Reg(dest), Reg(Result(0))>>), dest.primitive)
  <2>1. code' = code \o <<insn>>
    BY <1>4 DEF Negate, Emits
  <2>2. Names(insn, R)
    BY DEF Names, OfKind, Insn, Reg
  <2> QED
    BY <2>1, <2>2, OneEmitted
<1>5. ASSUME Make PROVE EmitsQuietly
  <2> DEFINE insn == Insn(Makers[Node.name], <<Reg(Typed(regs, "Integer")), Reg(Result(0))>>)
  <2>1. code' = code \o <<insn>>
    BY <1>5 DEF Make, Emits
  <2>2. Node.name \in DOMAIN Makers
    BY <1>1, <1>5, AtHand DEF Make, Doing, IsItem, Node
  <2>3. Names(insn, R)
    BY <2>2 DEF Names, Insn, Reg, Makers
  <2> QED
    BY <2>1, <2>3, OneEmitted
<1>6. ASSUME Handle PROVE EmitsQuietly
  <2> DEFINE dest == Typed(regs, "Integer")
             none == Insn("MAKE_OPTION_NONE", <<Reg(dest)>>)
             weights == [Insn("WEIGHTS_LOAD", <<Reg(dest)>>) EXCEPT !.literal = "Symbol"]
  <2>1. code' = code \o <<none>> \/ code' = code \o <<weights>>
    BY <1>6 DEF Handle, Emits
  <2>2. Names(none, R) /\ Names(weights, R)
    BY DEF Names, Insn, Reg
  <2> QED
    BY <2>1, <2>2, OneEmitted
<1>7. ASSUME NotePayload PROVE EmitsQuietly
  <2>1. Names(Note(<<Reg(Result(0))>>), R)
    BY DEF Names, Note, Insn, Reg
  <2> QED
    BY <1>7, <2>1, OneEmitted DEF NotePayload, Emits
<1>8. ASSUME Zero PROVE EmitsQuietly
  <2> DEFINE insn == Insn("LOADI", <<Reg(Typed(regs, "Integer")), Imm(0)>>)
  <2>1. code' = code \o <<insn>>
    BY <1>8 DEF Zero, Emits
  <2>2. Names(insn, R)
    BY DEF Names, Insn, Reg, Imm
  <2> QED
    BY <2>1, <2>2, OneEmitted
<1>9. ASSUME VectorLiteral PROVE EmitsQuietly
  <2> DEFINE insn == [Insn("LOADI", <<Reg(Typed(regs, "Integer")), Imm(pools.tensors + 1)>>)
                        EXCEPT !.literal = "Tensor"]
  <2>1. code' = code \o <<insn>>
    BY <1>9 DEF VectorLiteral, Emits
  <2>2. Names(insn, R)
    BY DEF Names, Insn, Reg, Imm
  <2> QED
    BY <2>1, <2>2, OneEmitted
<1>10. ASSUME MakeVariant PROVE EmitsQuietly
  <2> DEFINE dest == Typed(regs, PrimitiveOr(Node.ty, "Integer"))
             id == Imm(GlobalVariantId(Node.enumId, Node.variantId))
             trap == Insn("TRAP", <<>>)
             full == Insn("MAKE_ENUM_VARIANT_PAYLOAD", <<Reg(dest), Reg(Result(0)), id>>)
             bare == Insn("MAKE_ENUM_VARIANT", <<Reg(dest), id>>)
  <2>1. \/ code' = code \o <<trap>> \/ code' = code \o <<full>> \/ code' = code \o <<bare>>
    BY <1>10 DEF MakeVariant, Emits
  <2>2. id.kind # "label" /\ Reg(dest).kind # "label" /\ Reg(Result(0)).kind # "label"
    BY DEF Reg, Imm
  <2>3. Names(trap, R) /\ Names(full, R) /\ Names(bare, R)
    <3> HIDE DEF id
    <3> QED
      BY <2>2, NamesNone
  <2> HIDE DEF trap, full, bare
  <2> QED
    BY <2>1, <2>3, OneEmitted
<1>11. EmitsQuietly
  BY <1>2, <1>3, <1>4, <1>5, <1>6, <1>7, <1>8, <1>9, <1>10
<1> QED
  BY <1>1, <1>11, QuietLabels

\* A conversion is at most one instruction, on registers alone.
LEMMA ConversionShape ==
  ASSUME NEW r, NEW kind, NEW n
  PROVE  \/ Conversion(r, kind, n) = <<>>
         \/ \E insn : Conversion(r, kind, n) = <<insn>> /\ \A R : Names(insn, R)
<1> DEFINE insn == OfKind(Insn(IF kind = "Float" THEN "I2F" ELSE "I2FRAC",
                               <<Reg(Typed(n, kind)), Reg(r)>>), kind)
<1>1. Conversion(r, kind, n) = <<>> \/ Conversion(r, kind, n) = <<insn>>
  BY DEF Conversion
<1>2. \A R : Names(insn, R)
  BY DEF Names, OfKind, Insn, Reg
<1> HIDE DEF insn
<1> QED
  BY <1>1, <1>2

\* Operate emits up to two conversions and one instruction on registers.
LEMMA OperateLabels ==
  ASSUME LabelInv, Operate
  PROVE  LabelInv'
<1> DEFINE R == Refers(Head(work))
           kind == OperandKind(Node, Result(1))
           atRight == regs + Taken(Result(1), kind)
           atDest == atRight + Taken(Result(0), kind)
           left == Converted(Result(1), kind, regs)
           right == Converted(Result(0), kind, atRight)
           dest == Typed(atDest, IF Comparing(Node) THEN "Boolean" ELSE kind)
           args == <<Reg(dest), Reg(left), Reg(right)>>
           compare == [Insn("CMP", args) EXCEPT !.relation = Relations[Node.op]]
           compute == Insn(Opcode(Node.op, Category(Node.ty)), args)
           insn == OfKind(IF Comparing(Node) THEN compare ELSE compute, dest.primitive)
           c1 == Conversion(Result(1), kind, regs)
           c2 == Conversion(Result(0), kind, atRight)
           insns == c1 \o c2 \o <<insn>>
<1>1. /\ work # <<>> /\ Head(work).do # "emit" /\ Leaves(<<>>)
      /\ UNCHANGED <<labels, loops>> /\ code' = code \o insns
  BY DEF Operate, Doing, fixed, Emits
<1>2. Names(insn, R)
  <2>1. Reg(dest).kind # "label" /\ Reg(left).kind # "label" /\ Reg(right).kind # "label"
    BY DEF Reg
  <2>2. ~Comparing(Node) => Opcode(Node.op, Category(Node.ty)) # "LABEL"
    <3>1. Node \in Exprs /\ Node.k = "binary"
      BY AtHand DEF Operate, Doing, IsItem, Node
    <3>2. Node.op \in ArithmeticOps \/ Comparing(Node)
      BY <3>1, SyntaxAssumption DEF IsExpr, ArithmeticOps, Comparing, Relations
    <3> QED
      BY <3>2 DEF Opcode, Opcodes, ArithmeticOps
  <2>3. Names(compare, R) /\ (~Comparing(Node) => Names(compute, R))
    BY <2>1, <2>2 DEF Names, Insn
  <2> QED
    BY <2>3 DEF Names, OfKind
<1> HIDE DEF kind, atRight, c1, c2, insn
<1>3. IsSeq(insns) /\ \A i \in DOMAIN insns : Names(insns[i], R)
  <2>1. \A s : (s = <<>> \/ \E x : s = <<x>> /\ Names(x, R))
                 => IsSeq(s) /\ \A i \in DOMAIN s : Names(s[i], R)
    <3>1. IsSeq(<<>>) /\ DOMAIN <<>> = {}
      BY DEF IsSeq
    <3>2. \A x : IsSeq(<<x>>) /\ DOMAIN <<x>> = {1} /\ <<x>>[1] = x
      <4> TAKE x
      <4>1. IsSeq(<<x>>)
        BY SeqIn, <<x>> \in Seq({x})
      <4> QED
        BY <4>1
    <3> QED
      BY <3>1, <3>2
  <2>2. /\ IsSeq(c1) /\ \A i \in DOMAIN c1 : Names(c1[i], R)
        /\ IsSeq(c2) /\ \A i \in DOMAIN c2 : Names(c2[i], R)
        /\ IsSeq(<<insn>>) /\ \A i \in DOMAIN <<insn>> : Names(<<insn>>[i], R)
    BY <2>1, <1>2, ConversionShape DEF c1, c2
  <2>3. IsSeq(c1 \o c2) /\ \A i \in DOMAIN (c1 \o c2) : Names((c1 \o c2)[i], R)
    BY <2>2, SeqCat, CatAt
  <2> QED
    BY <2>2, <2>3, SeqCat, CatAt
<1> QED
  BY <1>1, <1>3, QuietLabels DEF EmitsQuietly

\* Variable emits at most a MAKE_OPTION_NONE.
LEMMA VariableLabels ==
  ASSUME LabelInv, Variable
  PROVE  LabelInv'
<1> DEFINE insn == Insn("MAKE_OPTION_NONE", <<Reg(Typed(regs, "Integer"))>>)
<1>1. /\ work # <<>> /\ Head(work).do # "emit" /\ Leaves(<<>>)
      /\ UNCHANGED <<labels, loops>>
      /\ code' = code \/ code' = code \o <<insn>>
  BY DEF Variable, Visiting, Doing, fixed, Emits
<1>2. Names(insn, Refers(Head(work)))
  BY NamesNone DEF Reg
<1> QED
  BY <1>1, <1>2, NoneEmitted, OneEmitted, QuietLabels

\* A call has at most three operands, its function and two arguments.
LEMMA EmitCallLabels ==
  ASSUME LabelInv, EmitCall
  PROVE  LabelInv'
<1> DEFINE R == Refers(Head(work))
           n == Len(Node.args)
           rest == SubSeq(vals, Len(vals) - n + 1, Len(vals))
           move == Insn("MOV", <<Reg(Typed(regs, "Integer")), Reg(Typed(0, "Integer"))>>)
<1>1. PICK id :
        code' = code \o <<Insn("CALL", <<Imm(id)>> \o
                                       [i \in 1..(IF n < 2 THEN n ELSE 2) |-> Reg(rest[i])]), move>>
  BY DEF EmitCall, Emits
<1> DEFINE passed == [i \in 1..(IF n < 2 THEN n ELSE 2) |-> Reg(rest[i])]
           insn == Insn("CALL", <<Imm(id)>> \o passed)
<1>2. n \in Nat
  <2>1. Node \in Exprs /\ Node.k = "call"
    BY AtHand DEF EmitCall, Doing, IsItem, Node
  <2> QED
    BY <2>1, SyntaxAssumption DEF IsExpr
<1>3. Names(insn, R)
  <2>1. IsSeq(<<Imm(id)>>) /\ IsSeq(passed)
    <3>1. IsSeq(<<Imm(id)>>)
      BY SeqIn, <<Imm(id)>> \in Seq({Imm(id)})
    <3> DEFINE m == IF n < 2 THEN n ELSE 2
    <3>2. passed \in Seq({Reg(rest[i]) : i \in 1..m})
      <4>1. m \in Nat
        BY <1>2
      <4>2. passed = [i \in 1..m |-> Reg(rest[i])]
        OBVIOUS
      <4> HIDE DEF m, rest, passed
      <4> QED
        BY <4>1, <4>2
    <3>3. IsSeq(passed)
      BY <3>2, SeqIn
    <3> QED
      BY <3>1, <3>3
  <2>2. \A i \in DOMAIN (<<Imm(id)>> \o passed) : (<<Imm(id)>> \o passed)[i].kind # "label"
    <3>1. \A i \in DOMAIN <<Imm(id)>> : <<Imm(id)>>[i].kind # "label"
      BY DEF Imm
    <3>2. \A i \in DOMAIN passed : passed[i].kind # "label"
      BY DEF Reg
    <3> HIDE DEF passed
    <3> QED
      BY <2>1, <3>1, <3>2, CatAt
  <2>3. Len(<<Imm(id)>> \o passed) <= 3
    <3> DEFINE m == IF n < 2 THEN n ELSE 2
    <3>1. m \in 0..2 /\ DOMAIN passed = 1..m
      <4>1. m \in 0..2
        <5> HIDE DEF n
        <5> QED
          BY <1>2
      <4>2. DOMAIN passed = 1..m
        OBVIOUS
      <4> QED
        BY <4>1, <4>2
    <3> HIDE DEF passed, m
    <3>2. Len(passed) = m /\ Len(passed) \in Nat /\ Len(<<Imm(id)>>) = 1
      BY <2>1, <3>1, SeqLen
    <3> QED
      BY <2>1, <3>1, <3>2, SeqCat
  <2> HIDE DEF passed
  <2> QED
    BY <2>2, <2>3, InstructionNames
<1>4. Names(move, R)
  BY NamesNone DEF Reg
<1>5. /\ work # <<>> /\ Head(work).do # "emit" /\ Leaves(<<>>)
      /\ UNCHANGED <<labels, loops>>
  BY DEF EmitCall, Doing
<1> HIDE DEF insn, move, R
<1>6. EmitsQuietly
  BY <1>1, <1>3, <1>4, TwoEmitted DEF insn, R
<1> QED
  BY <1>5, <1>6, QuietLabels

\* A loop that is opened adds its labels
LEMMA LoopLabelsAppend ==
  ASSUME NEW ls, IsSeq(ls), NEW info
  PROVE  /\ IsSeq(Append(ls, info))
         /\ LoopLabels(Append(ls, info)) = LoopLabels(ls) \cup {info.entry, info.exit}
<1>1. ls \in Seq(Range(ls) \cup {info})
  BY DEF IsSeq
<1>2. Append(ls, info) \in Seq(Range(ls) \cup {info})
  BY <1>1
<1>3. /\ Len(ls) \in Nat /\ DOMAIN ls = 1..Len(ls) /\ DOMAIN Append(ls, info) = 1..(Len(ls) + 1)
      /\ \A i \in 1..Len(ls) : Append(ls, info)[i] = ls[i]
      /\ Append(ls, info)[Len(ls) + 1] = info
  BY <1>1
<1>4. ASSUME NEW l \in LoopLabels(Append(ls, info))
      PROVE  l \in LoopLabels(ls) \cup {info.entry, info.exit}
  <2>1. PICK i \in DOMAIN Append(ls, info) :
               l \in {Append(ls, info)[i].entry, Append(ls, info)[i].exit}
    BY <1>4 DEF LoopLabels
  <2>2. i \in 1..Len(ls) \/ i = Len(ls) + 1
    BY <1>3
  <2> QED
    BY <1>3, <2>1, <2>2 DEF LoopLabels
<1>5. ASSUME NEW l \in LoopLabels(ls)
      PROVE  l \in LoopLabels(Append(ls, info))
  <2>1. PICK i \in DOMAIN ls : l \in {ls[i].entry, ls[i].exit}
    BY <1>5 DEF LoopLabels
  <2>2. i \in DOMAIN Append(ls, info) /\ Append(ls, info)[i] = ls[i]
    BY <1>3
  <2> QED
    BY <2>1, <2>2 DEF LoopLabels
<1>6. {info.entry, info.exit} \subseteq LoopLabels(Append(ls, info))
  <2>1. Len(ls) + 1 \in DOMAIN Append(ls, info)
    BY <1>3
  <2> QED
    BY <1>3, <2>1 DEF LoopLabels
<1>7. IsSeq(Append(ls, info))
  BY <1>2, SeqIn
<1> QED
  BY <1>4, <1>5, <1>6, <1>7

\* and one that is closed takes them away.
LEMMA LoopLabelsFront ==
  ASSUME NEW ls, IsSeq(ls)
  PROVE  IsSeq(Front(ls)) /\ LoopLabels(Front(ls)) \subseteq LoopLabels(ls)
<1>1. ls \in Seq(Range(ls)) /\ Len(ls) \in Nat /\ DOMAIN ls = 1..Len(ls)
  BY DEF IsSeq
<1>2. /\ DOMAIN Front(ls) \subseteq DOMAIN ls
      /\ \A i \in DOMAIN Front(ls) : Front(ls)[i] = ls[i]
  BY <1>1 DEF Front
<1>3. IsSeq(Front(ls))
  <2>1. Front(ls) \in Seq(Range(ls))
    BY <1>1 DEF Front
  <2> QED
    BY <2>1, SeqIn
<1> QED
  BY <1>2, <1>3 DEF LoopLabels

\* The labels of a guarded loop were the item's that opens it.
LEMMA PushAndPopLabels ==
  ASSUME LabelInv, PushLoop \/ PopLoop
  PROVE  LabelInv'
<1>1. /\ work # <<>> /\ Head(work).do # "emit" /\ Leaves(<<>>)
      /\ UNCHANGED <<labels, code>>
  BY DEF PushLoop, PopLoop, Doing
<1>2. IsSeq(loops') /\ LoopLabels(loops') \subseteq Refers(Head(work)) \cup LoopLabels(loops)
  <2>1. CASE PushLoop
    <3>1. {Head(work).info.entry, Head(work).info.exit} = Refers(Head(work))
      BY <2>1 DEF PushLoop, Doing, Refers
    <3>2. loops' = Append(loops, Head(work).info)
      BY <2>1 DEF PushLoop
    <3> QED
      BY <3>1, <3>2, LoopLabelsAppend DEF LabelInv
  <2>2. CASE PopLoop
    <3>1. loops' = Front(loops)
      BY <2>2 DEF PopLoop
    <3> QED
      BY <3>1, LoopLabelsFront DEF LabelInv
  <2> QED
    BY <2>1, <2>2
<1>3. /\ IsSeq(<<>>) /\ code' = code \o <<>>
      /\ \A i \in DOMAIN <<>> : Names(<<>>[i], Refers(Head(work)))
  BY <1>1 DEF LabelInv, IsSeq
<1> QED
  BY <1>1, <1>2, <1>3, QuietStep

\* The steps that only replace a node by what its visitor does, without a label.
LEMMA PlainExpansion ==
  ASSUME LabelInv, NEW items, work # <<>>, Head(work).do # "emit",
         \A R : Refers(Head(work)) \cup LoopLabels(loops) \subseteq R => Piece(items, {}, R),
         Leaves(items), UNCHANGED <<code, labels, loops>>
  PROVE  LabelInv'
<1>1. labels \in Nat /\ {} \subseteq labels..(labels' - 1) /\ labels' \in Nat /\ labels' >= labels
  BY DEF LabelInv
<1>2. Piece(items, {}, Refers(Head(work)) \cup LoopLabels(loops) \cup {})
  OBVIOUS
<1> QED
  BY <1>1, <1>2, ExpandingStep

\* Two items without label,
LEMMA TwoPlain ==
  ASSUME NEW a, NEW b, NEW R, Piece(<<a>>, {}, R), Piece(<<b>>, {}, R)
  PROVE  Piece(<<a, b>>, {}, R)
  BY PieceTwo, {} \cup {} = {}

\* three of them,
LEMMA ThreePlain ==
  ASSUME NEW a, NEW b, NEW c, NEW R, Piece(<<a>>, {}, R), Piece(<<b>>, {}, R), Piece(<<c>>, {}, R)
  PROVE  Piece(<<a, b, c>>, {}, R)
  BY PieceThree, {} \cup {} \cup {} = {}

\* and two lists of them.
LEMMA PlainCat ==
  ASSUME NEW s, NEW t, NEW R, Piece(s, {}, R), Piece(t, {}, R)
  PROVE  Piece(s \o t, {}, R)
  BY PieceCat, {} \cup {} = {}

\* An expression statement is visited and forgotten.
LEMMA ExpressionStatementLabels ==
  ASSUME LabelInv, ExpressionStatement
  PROVE  LabelInv'
<1> DEFINE forget == [do |-> "forget", n |-> 1]
<1>1. Node.e \in Exprs
  BY StatementParts DEF ExpressionStatement
<1>2. ASSUME NEW R PROVE Piece(<<Visit(Node.e), forget>>, {}, R)
  <2>1. Piece(<<Visit(Node.e)>>, {}, R) /\ Piece(<<forget>>, {}, R)
    BY <1>1, PieceVisit, PiecePlain DEF Plain
  <2> QED
    BY <2>1, TwoPlain
<1>3. /\ work # <<>> /\ Head(work).do # "emit" /\ Leaves(<<Visit(Node.e), forget>>)
      /\ UNCHANGED <<code, labels, loops>>
  BY DEF ExpressionStatement, Visiting, Doing, Expands, others, fixed
<1> QED
  BY <1>2, <1>3, PlainExpansion

\* A block and a function leave the visits of their bodies.
LEMMA BodyLabels ==
  ASSUME LabelInv, Block \/ Function
  PROVE  LabelInv'
<1>1. Node.body \in Seq(Stmts)
  <2>1. CASE Block
    BY <2>1, StatementParts DEF Block
  <2>2. CASE Function
    BY <2>2, StatementParts DEF Function
  <2> QED
    BY <2>1, <2>2
<1>2. \A R : Piece(VisitAll(Node.body), {}, R) /\ Piece(<<>>, {}, R)
  BY <1>1, PieceVisitAll, PieceNone
<1>3. /\ work # <<>> /\ Head(work).do # "emit" /\ UNCHANGED <<code, labels, loops>>
      /\ Leaves(VisitAll(Node.body)) \/ Leaves(<<>>)
  BY DEF Block, Function, Visiting, Doing, Expands, others, fixed
<1> QED
  BY <1>2, <1>3, PlainExpansion

\* A declaration leaves its initializer, if it has one.
LEMMA DeclareLabels ==
  ASSUME LabelInv, Declare
  PROVE  LabelInv'
<1>1. Node.init \in Exprs \cup {Nil}
  BY StatementParts DEF Declare
<1>2. CASE Leaves(<<>>)
  BY <1>2, NoneEmitted, QuietLabels DEF Declare, Visiting, Doing, fixed
<1>3. CASE Node.init # Nil /\ Leaves(<<Visit(Node.init), Then("bindTo", Node)>>)
  <2>1. ASSUME NEW R PROVE Piece(<<Visit(Node.init), Then("bindTo", Node)>>, {}, R)
    <3>1. Piece(<<Visit(Node.init)>>, {}, R) /\ Piece(<<Then("bindTo", Node)>>, {}, R)
      BY <1>1, <1>3, PieceVisit, PiecePlain DEF Plain, Then
    <3> QED
      BY <3>1, TwoPlain
  <2>2. work # <<>> /\ Head(work).do # "emit" /\ UNCHANGED <<code, labels, loops>>
    BY DEF Declare, Visiting, Doing, fixed
  <2> QED
    BY <1>3, <2>1, <2>2, PlainExpansion
<1> QED
  BY <1>2, <1>3 DEF Declare

\* A return leaves its value and a HALT.
LEMMA ReturnLabels ==
  ASSUME LabelInv, Return
  PROVE  LabelInv'
<1> DEFINE halt == <<Emit(Insn("HALT", <<>>))>>
           answer == <<Visit(Node.value), [do |-> "toR0"]>>
           items == (IF Node.value = Nil THEN <<>> ELSE answer) \o halt
<1>1. Node.value \in Exprs \cup {Nil}
  BY StatementParts DEF Return
<1>2. ASSUME NEW R PROVE Piece(items, {}, R)
  <2>1. Piece(halt, {}, R)
    BY PieceEmit, NamesNone
  <2>2. Node.value # Nil => Piece(answer, {}, R)
    <3>1. ASSUME Node.value # Nil
          PROVE  Piece(<<Visit(Node.value)>>, {}, R) /\ Piece(<<[do |-> "toR0"]>>, {}, R)
      BY <1>1, <3>1, PieceVisit, PiecePlain DEF Plain
    <3> QED
      BY <3>1, TwoPlain
  <2>3. Piece(IF Node.value = Nil THEN <<>> ELSE answer, {}, R)
    BY <2>2, PieceNone
  <2> QED
    BY <2>1, <2>3, PlainCat
<1>3. work # <<>> /\ Head(work).do # "emit" /\ Leaves(items) /\ UNCHANGED <<code, labels, loops>>
  BY DEF Return, Visiting, Doing, Expands, others, fixed
<1> HIDE DEF items
<1> QED
  BY <1>2, <1>3, PlainExpansion

\* Break and Continue name labels of the innermost open loop.
LEMMA LeaveLoopLabels ==
  ASSUME LabelInv, Break \/ Continue
  PROVE  LabelInv'
<1> DEFINE R == Refers(Head(work)) \cup LoopLabels(loops)
<1>1. loops # <<>> => /\ Last(loops).exit \in LoopLabels(loops)
                      /\ Last(loops).entry \in LoopLabels(loops)
  <2>1. loops # <<>> => Len(loops) \in DOMAIN loops
    BY DEF LabelInv, IsSeq
  <2> QED
    BY <2>1 DEF LoopLabels, Last
<1>2. ASSUME NEW S, LoopLabels(loops) \subseteq S
      PROVE  /\ Piece(<<>>, {}, S)
             /\ loops # <<>> => /\ Piece(<<EmitJump(Last(loops).exit)>>, {}, S)
                                /\ Piece(<<EmitJump(Last(loops).entry)>>, {}, S)
  BY <1>1, <1>2, PieceNone, PieceJump
<1>3. /\ work # <<>> /\ Head(work).do # "emit" /\ UNCHANGED <<code, labels, loops>>
      /\ \/ Leaves(<<>>)
         \/ loops # <<>> /\ Leaves(<<EmitJump(Last(loops).exit)>>)
         \/ loops # <<>> /\ Leaves(<<EmitJump(Last(loops).entry)>>)
  BY DEF Break, Continue, Visiting, Doing, Expands, others, fixed
<1>4. CASE Leaves(<<>>)
  BY <1>2, <1>3, <1>4, PlainExpansion
<1>5. CASE loops # <<>> /\ Leaves(<<EmitJump(Last(loops).exit)>>)
  BY <1>2, <1>3, <1>5, PlainExpansion
<1>6. CASE loops # <<>> /\ Leaves(<<EmitJump(Last(loops).entry)>>)
  BY <1>2, <1>3, <1>6, PlainExpansion
<1> QED
  BY <1>3, <1>4, <1>5, <1>6

\* An operand, and an item without label that works on it.
LEMMA VisitThen ==
  ASSUME NEW n \in Exprs, NEW item, item.do \in Plain, NEW R
  PROVE  Piece(<<Visit(n), item>>, {}, R)
<1>1. Piece(<<Visit(n)>>, {}, R) /\ Piece(<<item>>, {}, R)
  BY PieceVisit, PiecePlain
<1> QED
  BY <1>1, TwoPlain

\* The steps of expressions that visit operands and then come back.
LEMMA OperandLabels ==
  ASSUME LabelInv,
         \/ Binary \/ Grouping \/ Unary \/ Assign \/ Construct \/ CallPrint \/ Match
  PROVE  LabelInv'
<1> DEFINE require == [do |-> "require"]
           note == [do |-> "note"]
           zero == [do |-> "zero"]
<1>1. /\ work # <<>> /\ Head(work).do # "emit" /\ UNCHANGED <<code, labels, loops>>
  BY DEF Binary, Grouping, Unary, Assign, Construct, CallPrint, Match,
         Visiting, Doing, Expands, others, fixed
<1>2. CASE Binary
  <2>1. Leaves(<<Visit(Node.left), Visit(Node.right), Then("operate", Node)>>)
    BY <1>2 DEF Binary, Expands
  <2>2. /\ Node.left \in Exprs /\ Node.right \in Exprs
        /\ Node \in Exprs /\ Node.k = "binary"
    BY <1>2, ExpressionParts DEF Binary
  <2>3. IsItem(Then("operate", Node)) /\ Def(Then("operate", Node)) = {}
        /\ Refers(Then("operate", Node)) = {}
    BY <2>2 DEF IsItem, Then, Def, DefinesLabel, Refers
  <2>4. ASSUME NEW R
        PROVE  Piece(<<Visit(Node.left), Visit(Node.right), Then("operate", Node)>>, {}, R)
    BY <2>2, <2>3, PieceVisit, PieceOne, ThreePlain
  <2> QED
    BY <1>1, <2>1, <2>4, PlainExpansion
<1>3. CASE Grouping
  <2>1. Leaves(<<Visit(Node.e), require>>) /\ Node.e \in Exprs
    BY <1>3, ExpressionParts DEF Grouping, Expands
  <2>2. require.do \in Plain
    BY DEF Plain
  <2>3. ASSUME NEW R PROVE Piece(<<Visit(Node.e), require>>, {}, R)
    BY <2>1, <2>2, VisitThen
  <2> QED
    BY <1>1, <2>1, <2>3, PlainExpansion
<1>4. CASE Unary
  <2>1. Leaves(<<Visit(Node.right), Then("negate", Node)>>) /\ Node.right \in Exprs
    BY <1>4, ExpressionParts DEF Unary, Expands
  <2>2. Then("negate", Node).do \in Plain
    BY DEF Plain, Then
  <2>3. ASSUME NEW R PROVE Piece(<<Visit(Node.right), Then("negate", Node)>>, {}, R)
    BY <2>1, <2>2, VisitThen
  <2> QED
    BY <1>1, <2>1, <2>3, PlainExpansion
<1>5. CASE Assign
  <2>1. Leaves(<<Visit(Node.value), Then("assignTo", Node)>>) /\ Node.value \in Exprs
    BY <1>5, ExpressionParts DEF Assign, Expands
  <2>2. Then("assignTo", Node).do \in Plain
    BY DEF Plain, Then
  <2>3. ASSUME NEW R PROVE Piece(<<Visit(Node.value), Then("assignTo", Node)>>, {}, R)
    BY <2>1, <2>2, VisitThen
  <2> QED
    BY <1>1, <2>1, <2>3, PlainExpansion
<1>6. CASE Construct
  <2>1. Leaves(<<Visit(Head(Node.args)), Then("make", Node)>>) /\ Node.name \in DOMAIN Makers
    BY <1>6 DEF Construct, Expands
  <2>2. Head(Node.args) \in Exprs
    <3>1. Node.args \in Seq(Exprs) /\ Node.args # <<>>
      BY <1>6, ExpressionParts DEF Construct
    <3> QED
      BY <3>1
  <2>3. /\ IsItem(Then("make", Node))
        /\ Def(Then("make", Node)) = {} /\ Refers(Then("make", Node)) = {}
    BY <2>1 DEF IsItem, Then, Def, DefinesLabel, Refers
  <2>4. ASSUME NEW R PROVE Piece(<<Visit(Head(Node.args)), Then("make", Node)>>, {}, R)
    BY <2>2, <2>3, PieceVisit, PieceOne, TwoPlain
  <2> QED
    BY <1>1, <2>1, <2>4, PlainExpansion
<1>7. CASE CallPrint
  <2>1. Leaves(<<Visit(Node.args[1]), note, zero>>)
    BY <1>7 DEF CallPrint, Expands
  <2>2. Node.args[1] \in Exprs
    <3>1. Node.args \in Seq(Exprs) /\ Len(Node.args) = 1
      BY <1>7, ExpressionParts DEF CallPrint
    <3> QED
      BY <3>1
  <2>3. ASSUME NEW R PROVE Piece(<<Visit(Node.args[1]), note, zero>>, {}, R)
    <3>1. Piece(<<note>>, {}, R) /\ Piece(<<zero>>, {}, R) /\ Piece(<<Visit(Node.args[1])>>, {}, R)
      BY <2>2, PieceVisit, PiecePlain DEF Plain
    <3> QED
      BY <3>1, ThreePlain
  <2> QED
    BY <1>1, <2>1, <2>3, PlainExpansion
<1>8. CASE Match
  <2>1. Leaves(<<Visit(Node.scrutinee), Then("dispatch", Node)>>)
        /\ IsMatch(Node) /\ Node.scrutinee \in Exprs
    BY <1>8, ExpressionParts DEF Match, Expands
  <2>2. IsItem(Then("dispatch", Node)) /\ Def(Then("dispatch", Node)) = {}
        /\ Refers(Then("dispatch", Node)) = {}
    BY <2>1 DEF IsItem, Then, Def, DefinesLabel, Refers
  <2>3. ASSUME NEW R PROVE Piece(<<Visit(Node.scrutinee), Then("dispatch", Node)>>, {}, R)
    BY <2>1, <2>2, PieceVisit, PieceOne, TwoPlain
  <2> QED
    BY <1>1, <2>1, <2>3, PlainExpansion
<1> QED
  BY <1>2, <1>3, <1>4, <1>5, <1>6, <1>7, <1>8

\* The steps that visit a whole list of expressions.
LEMMA ListLabels ==
  ASSUME LabelInv, CallAnything \/ CallFunction \/ RecordLiteral \/ EnumLiteral
  PROVE  LabelInv'
<1> DEFINE zero == [do |-> "zero"]
<1>1. /\ work # <<>> /\ Head(work).do # "emit" /\ UNCHANGED <<code, labels, loops>>
  BY DEF CallAnything, CallFunction, RecordLiteral, EnumLiteral, Visiting, Doing, Expands, others,
         fixed
<1>2. CASE CallAnything
  <2> DEFINE forget == [do |-> "forget", n |-> Len(Node.args)]
             items == VisitAll(Node.args) \o <<forget, zero>>
  <2>1. Leaves(items) /\ Node.args \in Seq(Exprs)
    BY <1>2, ExpressionParts DEF CallAnything, Expands
  <2>2. ASSUME NEW R PROVE Piece(items, {}, R)
    <3>1. Piece(<<forget>>, {}, R) /\ Piece(<<zero>>, {}, R)
      BY PiecePlain DEF Plain
    <3>2. Piece(<<forget, zero>>, {}, R)
      BY <3>1, TwoPlain
    <3> QED
      BY <2>1, <3>2, PieceVisitAll, PlainCat
  <2> HIDE DEF items
  <2> QED
    BY <1>1, <2>1, <2>2, PlainExpansion
<1>3. CASE CallFunction
  <2> DEFINE items == VisitAll(Node.args) \o <<Then("call", Node)>>
  <2>1. Leaves(items) /\ Node.args \in Seq(Exprs) /\ Node \in Exprs /\ Node.k = "call"
    BY <1>3, ExpressionParts DEF CallFunction, Expands
  <2>2. ASSUME NEW R PROVE Piece(items, {}, R)
    <3>1. /\ IsItem(Then("call", Node))
          /\ Def(Then("call", Node)) = {} /\ Refers(Then("call", Node)) = {}
      BY <2>1 DEF IsItem, Then, Def, DefinesLabel, Refers
    <3>2. Piece(<<Then("call", Node)>>, {}, R)
      BY <3>1, PieceOne
    <3> QED
      BY <2>1, <3>2, PieceVisitAll, PlainCat
  <2> HIDE DEF items
  <2> QED
    BY <1>1, <2>1, <2>2, PlainExpansion
<1>4. CASE RecordLiteral
  <2> DEFINE forget == [do |-> "forget", n |-> Len(Node.fields)]
             fresh == [do |-> "fresh", primitive |-> PrimitiveOr(Node.ty, "Integer")]
             items == VisitAll(Node.fields) \o <<forget, fresh>>
  <2>1. Leaves(items) /\ Node.fields \in Seq(Exprs)
    BY <1>4, ExpressionParts DEF RecordLiteral, Expands
  <2>2. ASSUME NEW R PROVE Piece(items, {}, R)
    <3>1. Piece(<<forget>>, {}, R) /\ Piece(<<fresh>>, {}, R)
      BY PiecePlain DEF Plain
    <3>2. Piece(<<forget, fresh>>, {}, R)
      BY <3>1, TwoPlain
    <3> QED
      BY <2>1, <3>2, PieceVisitAll, PlainCat
  <2> HIDE DEF items
  <2> QED
    BY <1>1, <2>1, <2>2, PlainExpansion
<1>5. CASE EnumLiteral
  <2> DEFINE first == IF Node.payload = Nil THEN <<>> ELSE <<Visit(Node.payload)>>
             items == first \o <<Then("variant", Node)>>
  <2>1. Leaves(items) /\ Node.payload \in Exprs \cup {Nil}
    BY <1>5, ExpressionParts DEF EnumLiteral, Expands
  <2>2. ASSUME NEW R PROVE Piece(items, {}, R)
    <3>1. Piece(first, {}, R)
      BY <2>1, PieceVisit, PieceNone
    <3>2. Piece(<<Then("variant", Node)>>, {}, R)
      BY PiecePlain DEF Plain, Then
    <3> QED
      BY <3>1, <3>2, PlainCat
  <2> HIDE DEF items
  <2> QED
    BY <1>1, <2>1, <2>2, PlainExpansion
<1> QED
  BY <1>2, <1>3, <1>4, <1>5

\* While takes two labels, for its entry and its exit, and defines both.
LEMMA WhileLabels ==
  ASSUME LabelInv, While
  PROVE  LabelInv'
<1> DEFINE entry == labels
           exit == labels + 1
           D == {entry, exit}
           R == Refers(Head(work)) \cup LoopLabels(loops) \cup D
           pop == [do |-> "popLoop", record |-> FALSE]
           items == <<EmitLabel(entry), Visit(Node.cond), JumpOn("JZ", exit), Visit(Node.body),
                      EmitJump(entry), EmitLabel(exit), pop>>
<1>1. labels \in Nat /\ entry # exit
  BY DEF LabelInv
<1>2. Piece(items, D, R)
  <2>1. Node.cond \in Exprs /\ Node.body \in Stmts
    BY StatementParts DEF While
  <2>2. /\ Piece(<<EmitLabel(entry)>>, {entry}, R) /\ Piece(<<Visit(Node.cond)>>, {}, R)
        /\ Piece(<<JumpOn("JZ", exit)>>, {}, R) /\ Piece(<<Visit(Node.body)>>, {}, R)
        /\ Piece(<<EmitJump(entry)>>, {}, R) /\ Piece(<<EmitLabel(exit)>>, {exit}, R)
        /\ Piece(<<pop>>, {}, R)
    BY <2>1, PieceLabel, PieceVisit, PieceJump, PieceJumpOn, PiecePlain DEF Plain
  <2> HIDE DEF R, entry, exit, pop, D
  <2>3. Piece(<<EmitLabel(entry), Visit(Node.cond), JumpOn("JZ", exit)>>, {entry}, R)
    BY <2>2, PieceThree, {entry} \cup {} \cup {} = {entry}
  <2>4. Piece(<<Visit(Node.body), EmitJump(entry)>>, {}, R)
    BY <2>2, TwoPlain
  <2>5. Piece(<<EmitLabel(exit), pop>>, {exit}, R)
    BY <2>2, PieceTwo, {exit} \cup {} = {exit}
  <2>6. Piece(<<Visit(Node.body), EmitJump(entry)>> \o <<EmitLabel(exit), pop>>, {exit}, R)
    BY <2>4, <2>5, PieceCat, {} \cup {exit} = {exit}
  <2>7. Piece(<<EmitLabel(entry), Visit(Node.cond), JumpOn("JZ", exit)>>
              \o (<<Visit(Node.body), EmitJump(entry)>> \o <<EmitLabel(exit), pop>>),
              {entry} \cup {exit}, R)
    BY <1>1, <2>3, <2>6, PieceCat
  <2>8. items = <<EmitLabel(entry), Visit(Node.cond), JumpOn("JZ", exit)>>
                \o (<<Visit(Node.body), EmitJump(entry)>> \o <<EmitLabel(exit), pop>>)
    OBVIOUS
  <2>9. D = {entry} \cup {exit}
    BY DEF D
  <2> QED
    BY <2>7, <2>8, <2>9
<1>3. /\ D \subseteq labels..(labels' - 1) /\ labels' \in Nat /\ labels' >= labels
  BY <1>1 DEF While
<1>4. /\ work # <<>> /\ Def(Head(work)) = {} /\ work' = items \o Tail(work) /\ code' = code \o <<>>
  BY DEF While, Visiting, Doing, Leaves, Def, DefinesLabel, LabelInv, IsSeq
<1>5. IsSeq(loops') /\ LoopLabels(loops') \subseteq R
  <2>1. loops' = Append(loops, LoopInfo(entry, exit))
    BY DEF While
  <2>2. LoopLabels(loops') = LoopLabels(loops) \cup {entry, exit}
    BY <2>1, LoopLabelsAppend DEF LabelInv, LoopInfo
  <2> QED
    BY <2>1, <2>2, LoopLabelsAppend DEF LabelInv
<1>6. IsSeq(<<>>) /\ EmitAll(<<>>) = <<>> /\ Piece(EmitAll(<<>>), {}, R)
      /\ R = Refers(Head(work)) \cup LoopLabels(loops) \cup D
  BY PieceNone DEF EmitAll, Piece
<1> HIDE DEF items, R, D
<1> QED
  BY <1>2, <1>3, <1>4, <1>5, <1>6, Rewritten
-----------------------------------------------------------------------------
(* The order in which the arms of a match are taken. *)

\* A larger member of a finite set of integers has a larger rank.
LEMMA RankGrows ==
  ASSUME NEW S \in SUBSET Int, IsFiniteSet(S), NEW m \in S, NEW n \in S, m < n
  PROVE  Rank(m, S) < Rank(n, S)
<1> DEFINE M == {x \in S : x <= m}
           N == {x \in S : x <= n}
<1>1. IsFiniteSet(M) /\ IsFiniteSet(N) /\ Cardinality(M) \in Nat /\ Cardinality(N) \in Nat
  BY FS_Subset, FS_CardinalityType, M \in SUBSET S, N \in SUBSET S
<1>2. M \in SUBSET N /\ n \in N /\ n \notin M
  <2>1. m \in Int /\ n \in Int /\ m < n
    OBVIOUS
  <2>2. \A x \in Int : x <= m => x <= n
    BY <2>1
  <2>3. n <= n /\ ~(n <= m)
    BY <2>1
  <2> QED
    BY <2>2, <2>3
<1>3. Cardinality(M) <= Cardinality(N) /\ (Cardinality(N) = Cardinality(M) => N = M)
  BY <1>1, <1>2, FS_Subset
<1>4. Cardinality(M) < Cardinality(N)
  BY <1>1, <1>2, <1>3
<1> QED
  BY <1>4 DEF Rank

\* InOrder lists the members of a finite set of integers, each once and
\* smallest first.
LEMMA InOrderLists ==
  ASSUME NEW S \in SUBSET Int, IsFiniteSet(S)
  PROVE  /\ InOrder(S) \in Seq(S)
         /\ Len(InOrder(S)) = Cardinality(S)
         /\ \A i, j \in DOMAIN InOrder(S) : i < j => InOrder(S)[i] < InOrder(S)[j]
<1> DEFINE C == Cardinality(S)
           rank == [n \in S |-> Rank(n, S)]
<1>1. C \in Nat
  BY FS_CardinalityType
<1>2. ASSUME NEW n \in S PROVE Rank(n, S) \in 1..C
  <2> DEFINE N == {x \in S : x <= n}
  <2>1. N \in SUBSET S /\ n \in N
    OBVIOUS
  <2>2. IsFiniteSet(N) /\ Cardinality(N) <= C /\ Cardinality(N) \in Nat
    BY <2>1, FS_Subset, FS_CardinalityType
  <2>3. Cardinality(N) # 0
    BY <2>1, <2>2, FS_EmptySet
  <2> QED
    BY <2>2, <2>3, <1>1 DEF Rank
<1>3. rank \in Injection(S, 1..C)
  <2>1. \A m, n \in S : m # n => rank[m] # rank[n]
    <3> SUFFICES ASSUME NEW m \in S, NEW n \in S, m < n PROVE rank[m] # rank[n]
      OBVIOUS
    <3> QED
      BY <1>2, RankGrows
  <2> QED
    BY <1>2, <2>1 DEF Injection, IsInjective
<1>4. rank \in Surjection(S, 1..C)
  <2>1. IsFiniteSet(1..C) /\ Cardinality(1..C) = C
    BY <1>1, FS_Interval
  <2> QED
    BY <1>3, <2>1, FS_Injection
<1>5. ASSUME NEW i \in 1..C
      PROVE  InOrder(S)[i] \in S /\ Rank(InOrder(S)[i], S) = i
  <2>1. \E n \in S : Rank(n, S) = i
    BY <1>4 DEF Surjection
  <2>2. InOrder(S)[i] = CHOOSE n \in S : Rank(n, S) = i
    BY DEF InOrder
  <2> QED
    BY <2>1, <2>2
<1>6. DOMAIN InOrder(S) = 1..C /\ InOrder(S) \in [1..C -> S]
  BY <1>5 DEF InOrder
<1>7. ASSUME NEW i \in 1..C, NEW j \in 1..C, i < j
      PROVE  InOrder(S)[i] < InOrder(S)[j]
  <2> DEFINE m == InOrder(S)[i]
             n == InOrder(S)[j]
  <2>1. m \in S /\ n \in S /\ Rank(m, S) = i /\ Rank(n, S) = j
    BY <1>5
  <2> HIDE DEF m, n
  <2>2. m \in Int /\ n \in Int
    BY <2>1
  <2>3. m # n
    BY <2>1, <1>7
  <2>4. ASSUME n < m PROVE FALSE
    <3>1. Rank(n, S) < Rank(m, S)
      BY <2>1, <2>4, RankGrows
    <3> QED
      BY <2>1, <3>1, <1>7
  <2>5. m < n
    BY <2>2, <2>3, <2>4
  <2> QED
    BY <2>5 DEF m, n
<1> QED
  BY <1>1, <1>6, <1>7

\* The arms of a variant, and the first arms of the variants, are arms.
LEMMA ArmsAreListed ==
  ASSUME NEW arms, IsSeq(arms)
  PROVE  /\ \A i : ArmsOf(arms, i) \in Seq(DOMAIN arms)
         /\ VariantHeads(arms) \in Seq(DOMAIN arms)
<1>1. ASSUME NEW S \in SUBSET DOMAIN arms PROVE InOrder(S) \in Seq(DOMAIN arms)
  <2>1. DOMAIN arms = 1..Len(arms) /\ Len(arms) \in Nat
    BY SeqLen
  <2>2. IsFiniteSet(1..Len(arms)) /\ S \in SUBSET (1..Len(arms))
    BY <2>1, FS_Interval
  <2>3. S \in SUBSET Int /\ IsFiniteSet(S)
    BY <2>1, <2>2, FS_Subset
  <2>4. InOrder(S) \in Seq(S)
    BY <2>3, InOrderLists
  <2> QED
    BY <2>4
<1> QED
  BY <1>1 DEF ArmsOf, VariantHeads
-----------------------------------------------------------------------------
(* The steps that hand out labels. *)

\* Branch takes a label for the else branch, if there is one, and defines it.
LEMMA BranchLabels ==
  ASSUME LabelInv, Branch
  PROVE  LabelInv'
<1> DEFINE end == Head(work).end
<1>1. /\ Node \in Stmts /\ Node.k = "if" /\ work # <<>> /\ Head(work).do = "branch"
      /\ loops' = loops /\ labels \in Nat
  BY AtHand DEF Branch, Doing, IsItem, Node, fixed, LabelInv
<1>2. Node.then \in Stmts /\ Node.otherwise \in Stmts \cup {Nil}
  BY <1>1, SyntaxAssumption DEF IsStmt
<1>3. Refers(Head(work)) = {end} /\ Def(Head(work)) = {}
  BY <1>1 DEF Refers, Def, DefinesLabel
<1>4. ASSUME NEW l, NEW R, l \in R
      PROVE  /\ IsSeq(<<JumpIf("JZ", l, Result(0))>>)
             /\ Piece(EmitAll(<<JumpIf("JZ", l, Result(0))>>), {}, R)
  <2> DEFINE insn == JumpIf("JZ", l, Result(0))
  <2>1. Names(insn, R)
    BY <1>4 DEF Names, JumpIf, Insn, Lab, Reg
  <2> HIDE DEF insn
  <2>2. EmitAll(<<insn>>) = <<Emit(insn)>>
    BY DEF EmitAll
  <2>3. IsSeq(<<insn>>)
    BY SeqIn, <<insn>> \in Seq({insn})
  <2> QED
    BY <2>1, <2>2, <2>3, PieceEmit DEF insn
<1>5. CASE Node.otherwise # Nil
  <2> DEFINE D == {labels}
             R == Refers(Head(work)) \cup LoopLabels(loops) \cup D
             insns == <<JumpIf("JZ", labels, Result(0))>>
             items == <<Visit(Node.then), EmitJump(end), EmitLabel(labels), Visit(Node.otherwise)>>
  <2>1. code' = code \o insns /\ work' = items \o Tail(work) /\ labels' = labels + 1
    BY <1>5 DEF Branch, Emits, Leaves
  <2>2. IsSeq(insns) /\ Piece(EmitAll(insns), {}, R)
    BY <1>4
  <2>3. Piece(items, D, R)
    <3>1. /\ Piece(<<Visit(Node.then)>>, {}, R) /\ Piece(<<EmitJump(end)>>, {}, R)
          /\ Piece(<<EmitLabel(labels)>>, D, R) /\ Piece(<<Visit(Node.otherwise)>>, {}, R)
      BY <1>2, <1>3, <1>5, PieceVisit, PieceJump, PieceLabel
    <3> HIDE DEF D, R, end
    <3>2. Piece(<<Visit(Node.then), EmitJump(end)>>, {}, R)
      BY <3>1, TwoPlain
    <3>3. Piece(<<EmitLabel(labels), Visit(Node.otherwise)>>, D, R)
      BY <3>1, PieceTwo, D \cup {} = D
    <3>4. Piece(<<Visit(Node.then), EmitJump(end)>> \o <<EmitLabel(labels), Visit(Node.otherwise)>>,
                D, R)
      BY <3>2, <3>3, PieceCat, {} \cup D = D
    <3>5. items = <<Visit(Node.then), EmitJump(end)>>
                  \o <<EmitLabel(labels), Visit(Node.otherwise)>>
      OBVIOUS
    <3> QED
      BY <3>4, <3>5
  <2>4. D \subseteq labels..(labels' - 1) /\ labels' \in Nat /\ labels' >= labels
    BY <1>1, <2>1
  <2>5. IsSeq(loops') /\ LoopLabels(loops') \subseteq R
        /\ R = Refers(Head(work)) \cup LoopLabels(loops) \cup D
    BY <1>1 DEF LabelInv
  <2> HIDE DEF D, R, insns, items
  <2> QED
    BY <1>1, <1>3, <2>1, <2>2, <2>3, <2>4, <2>5, Rewritten
<1>6. CASE Node.otherwise = Nil
  <2> DEFINE D == {}
             R == Refers(Head(work)) \cup LoopLabels(loops) \cup D
             insns == <<JumpIf("JZ", end, Result(0))>>
             items == <<Visit(Node.then)>>
  <2>1. code' = code \o insns /\ work' = items \o Tail(work) /\ labels' = labels
    BY <1>6 DEF Branch, Emits, Leaves
  <2>2. IsSeq(insns) /\ Piece(EmitAll(insns), {}, R)
    BY <1>3, <1>4
  <2>3. Piece(items, D, R)
    BY <1>2, PieceVisit
  <2>4. D \subseteq labels..(labels' - 1) /\ labels' \in Nat /\ labels' >= labels
    BY <1>1, <2>1
  <2>5. IsSeq(loops') /\ LoopLabels(loops') \subseteq R
        /\ R = Refers(Head(work)) \cup LoopLabels(loops) \cup D
    BY <1>1 DEF LabelInv
  <2> HIDE DEF D, R, insns, items
  <2> QED
    BY <1>1, <1>3, <2>1, <2>2, <2>3, <2>4, <2>5, Rewritten
<1> QED
  BY <1>5, <1>6

\* Loop takes two labels, and a third one in front of a guard.
LEMMA LoopStepLabels ==
  ASSUME LabelInv, Loop
  PROVE  LabelInv'
<1> DEFINE entry == labels
           exit == labels + 1
           guarded == Node.guard # Nil
           again == IF guarded THEN labels + 2 ELSE entry
           D == {entry, exit, again}
           R == Refers(Head(work)) \cup LoopLabels(loops) \cup D
           open == [do |-> "pushLoop", info |-> LoopInfo(again, exit)]
           pop == [do |-> "popLoop", record |-> TRUE]
           first == IF guarded
                    THEN <<EmitLabel(again), Visit(Node.guard), JumpOn("JZ", exit),
                           EmitLabel(entry), open>>
                    ELSE <<EmitLabel(entry), open>>
           last == <<EmitJump(again), EmitLabel(exit), pop>>
           items == first \o VisitAll(Node.body) \o last
<1>1. labels \in Nat
  BY DEF LabelInv
<1>2. /\ work # <<>> /\ Head(work).do # "emit" /\ UNCHANGED <<code, loops>> /\ Leaves(items)
      /\ labels' = labels + (IF guarded THEN 3 ELSE 2)
  BY DEF Loop, Visiting, Doing, fixed
<1>3. Node.guard \in Exprs \cup {Nil} /\ Node.body \in Seq(Stmts)
  BY StatementParts DEF Loop
<1>4. Piece(<<open>>, {}, R)
  <2>1. IsItem(open) /\ Def(open) = {} /\ Refers(open) = {again, exit}
    BY DEF IsItem, Def, DefinesLabel, Refers, LoopInfo
  <2> QED
    BY <2>1, PieceOne
<1>5. /\ Piece(<<EmitLabel(entry)>>, {entry}, R) /\ Piece(<<EmitLabel(exit)>>, {exit}, R)
      /\ Piece(<<EmitLabel(again)>>, {again}, R) /\ Piece(<<JumpOn("JZ", exit)>>, {}, R)
      /\ Piece(<<EmitJump(again)>>, {}, R) /\ Piece(<<pop>>, {}, R)
  BY PieceLabel, PieceJump, PieceJumpOn, PiecePlain DEF Plain
<1>6. entry # exit /\ again # exit /\ (guarded => again # entry)
  BY <1>1
<1>7. D \subseteq labels..(labels' - 1) /\ labels' \in Nat /\ labels' >= labels
  BY <1>1, <1>2
<1> HIDE DEF R, open, pop
<1>8. Piece(first, {entry, again}, R)
  <2>1. CASE guarded
    <3>1. Piece(<<EmitLabel(again), Visit(Node.guard), JumpOn("JZ", exit)>>, {again}, R)
      <4>1. Piece(<<Visit(Node.guard)>>, {}, R)
        BY <1>3, <2>1, PieceVisit
      <4> HIDE DEF again, exit
      <4>2. Piece(<<EmitLabel(again), Visit(Node.guard), JumpOn("JZ", exit)>>,
                  {again} \cup {} \cup {}, R)
        BY <1>5, <4>1, PieceThree
      <4> QED
        BY <4>2
    <3>2. Piece(<<EmitLabel(entry), open>>, {entry}, R)
      BY <1>4, <1>5, PieceTwo, {entry} \cup {} = {entry}
    <3> HIDE DEF again, entry, exit
    <3>3. Piece(<<EmitLabel(again), Visit(Node.guard), JumpOn("JZ", exit)>>
                  \o <<EmitLabel(entry), open>>,
                {again} \cup {entry}, R)
      BY <1>6, <2>1, <3>1, <3>2, PieceCat
    <3>4. first = <<EmitLabel(again), Visit(Node.guard), JumpOn("JZ", exit)>>
                  \o <<EmitLabel(entry), open>>
      BY <2>1
    <3>5. {again} \cup {entry} = {entry, again}
      OBVIOUS
    <3> QED
      BY <3>3, <3>4, <3>5
  <2>2. CASE ~guarded
    <3>1. Piece(<<EmitLabel(entry), open>>, {entry}, R)
      BY <1>4, <1>5, PieceTwo, {entry} \cup {} = {entry}
    <3>2. first = <<EmitLabel(entry), open>> /\ {entry, again} = {entry}
      BY <2>2
    <3> QED
      BY <3>1, <3>2
  <2> QED
    BY <2>1, <2>2
<1>9. Piece(last, {exit}, R)
  BY <1>5, PieceThree, {} \cup {exit} \cup {} = {exit}
<1>10. Piece(VisitAll(Node.body), {}, R)
  BY <1>3, PieceVisitAll
<1> HIDE DEF first, last, again, exit, entry
<1>11. Piece(first \o VisitAll(Node.body), {entry, again}, R)
  BY <1>8, <1>10, PieceCat, {entry, again} \cup {} = {entry, again}
<1>12. Piece(items, {entry, again} \cup {exit}, R)
  BY <1>6, <1>9, <1>11, PieceCat
<1>13. {entry, again} \cup {exit} = D
  OBVIOUS
<1> HIDE DEF D, items
<1>14. Piece(items, D, R)
  BY <1>12, <1>13
<1> QED
  BY <1>2, <1>7, <1>14, ExpandingStep DEF R

\* Logical takes four labels and defines each.
LEMMA LogicalLabels ==
  ASSUME LabelInv, Logical
  PROVE  LabelInv'
<1> DEFINE end == labels
           right == labels + 1
           false == labels + 2
           true == labels + 3
           dest == Typed(regs, "Boolean")
           short == IF Node.op = "&&" THEN JumpOn("JZ", false) ELSE JumpOn("JNZ", true)
           zero == Emit(LoadImm(dest, 0))
           one == Emit(LoadImm(dest, 1))
           D == {end, right, false, true}
           R == Refers(Head(work)) \cup LoopLabels(loops) \cup D
           items == <<Visit(Node.left), short, EmitJump(right), EmitLabel(right), Visit(Node.right),
                      JumpOn("JZ", false), EmitJump(true), EmitLabel(false), zero, EmitJump(end),
                      EmitLabel(true), one, EmitLabel(end), Yield(dest)>>
<1>1. labels \in Nat
  BY DEF LabelInv
<1>2. /\ work # <<>> /\ Head(work).do # "emit" /\ UNCHANGED <<code, loops>>
      /\ labels' = labels + 4 /\ Leaves(items)
  BY DEF Logical, Visiting, Doing, fixed
<1>3. Node.left \in Exprs /\ Node.right \in Exprs
  BY ExpressionParts DEF Logical
<1>4. /\ end # right /\ end # false /\ end # true /\ right # false /\ right # true /\ false # true
      /\ D \subseteq labels..(labels' - 1) /\ labels' \in Nat /\ labels' >= labels
  BY <1>1, <1>2
<1>5. Piece(<<zero>>, {}, R) /\ Piece(<<one>>, {}, R)
  <2>1. Names(LoadImm(dest, 0), R) /\ Names(LoadImm(dest, 1), R)
    BY DEF Names, LoadImm, OfKind, Insn, Reg, Imm
  <2> QED
    BY <2>1, PieceEmit
<1>6. /\ Piece(<<Visit(Node.left)>>, {}, R) /\ Piece(<<Visit(Node.right)>>, {}, R)
      /\ Piece(<<short>>, {}, R) /\ Piece(<<JumpOn("JZ", false)>>, {}, R)
  BY <1>3, PieceVisit, PieceJumpOn
<1>7. /\ Piece(<<EmitJump(right)>>, {}, R) /\ Piece(<<EmitJump(true)>>, {}, R)
      /\ Piece(<<EmitJump(end)>>, {}, R)
  BY PieceJump
<1>8. /\ Piece(<<EmitLabel(right)>>, {right}, R) /\ Piece(<<EmitLabel(false)>>, {false}, R)
      /\ Piece(<<EmitLabel(true)>>, {true}, R) /\ Piece(<<EmitLabel(end)>>, {end}, R)
  BY PieceLabel
<1>9. Piece(<<Yield(dest)>>, {}, R)
  BY PiecePlain DEF Plain, Yield
<1> DEFINE a == <<Visit(Node.left), short, EmitJump(right)>>
           b == <<EmitLabel(right), Visit(Node.right), JumpOn("JZ", false)>>
           c == <<EmitJump(true), EmitLabel(false), zero>>
           d == <<EmitJump(end), EmitLabel(true), one>>
           e == <<EmitLabel(end), Yield(dest)>>
<1>10. items = a \o (b \o (c \o (d \o e)))
  <2> HIDE DEF short, zero, one, end, right, false, true, dest
  <2> DEFINE de == <<EmitJump(end), EmitLabel(true), one, EmitLabel(end), Yield(dest)>>
             cde == <<EmitJump(true), EmitLabel(false), zero, EmitJump(end), EmitLabel(true), one,
                      EmitLabel(end), Yield(dest)>>
             bcde == <<EmitLabel(right), Visit(Node.right), JumpOn("JZ", false), EmitJump(true),
                       EmitLabel(false), zero, EmitJump(end), EmitLabel(true), one,
                       EmitLabel(end), Yield(dest)>>
  <2>1. de = d \o e
    OBVIOUS
  <2>2. cde = c \o de
    OBVIOUS
  <2>3. bcde = b \o cde
    OBVIOUS
  <2>4. items = a \o bcde
    OBVIOUS
  <2> QED
    BY ONLY <2>1, <2>2, <2>3, <2>4
<1> HIDE DEF items, short, zero, one, R, dest
<1>11. /\ Piece(a, {}, R) /\ Piece(b, {right}, R) /\ Piece(c, {false}, R)
       /\ Piece(d, {true}, R) /\ Piece(e, {end}, R)
  <2> HIDE DEF end, right, false, true
  <2>1. Piece(a, {} \cup {} \cup {}, R)
    BY <1>6, <1>7, PieceThree
  <2>2. Piece(b, {right} \cup {} \cup {}, R)
    BY <1>6, <1>8, PieceThree
  <2>3. Piece(c, {} \cup {false} \cup {}, R)
    BY <1>5, <1>7, <1>8, PieceThree
  <2>4. Piece(d, {} \cup {true} \cup {}, R)
    BY <1>5, <1>7, <1>8, PieceThree
  <2>5. Piece(e, {end} \cup {}, R)
    BY <1>8, <1>9, PieceTwo
  <2> QED
    BY <2>1, <2>2, <2>3, <2>4, <2>5
<1> HIDE DEF a, b, c, d, e, end, right, false, true
<1>12. Piece(d \o e, {true} \cup {end}, R)
  BY <1>4, <1>11, PieceCat
<1>13. Piece(c \o (d \o e), {false} \cup ({true} \cup {end}), R)
  BY <1>4, <1>11, <1>12, PieceCat
<1>14. Piece(b \o (c \o (d \o e)), {right} \cup ({false} \cup ({true} \cup {end})), R)
  BY <1>4, <1>11, <1>13, PieceCat
<1>15. Piece(items, {} \cup ({right} \cup ({false} \cup ({true} \cup {end}))), R)
  BY <1>10, <1>11, <1>14, PieceCat
<1>16. {} \cup ({right} \cup ({false} \cup ({true} \cup {end}))) = D
  OBVIOUS
<1> HIDE DEF D
<1>17. Piece(items, D, R)
  BY <1>15, <1>16
<1> QED
  BY <1>2, <1>4, <1>17, ExpandingStep DEF R

\* Dispatch takes the labels of the trap and of the end, and defines both.
LEMMA DispatchLabels ==
  ASSUME LabelInv, Dispatch
  PROVE  LabelInv'
<1> DEFINE dest == Typed(regs, PrimitiveOr(Node.ty, "Integer"))
           end == labels
           trap == labels + 1
           m == [node |-> Node, scrutinee |-> Result(0), dest |-> dest,
                 flag |-> Typed(regs + 1, "Boolean"),
                 payload |-> Typed(regs + 2, "Integer"),
                 end |-> end, trap |-> trap, heads |-> VariantHeads(Node.arms)]
           tests == [v \in DOMAIN m.heads |-> [do |-> "testVariant", match |-> m, v |-> v]]
           halt == Emit(Insn("TRAP", <<>>))
           nop == Emit(Insn("NOP", <<>>))
           a == <<EmitLabel(trap), halt, EmitLabel(end)>>
           b == <<nop, Yield(dest)>>
           rest == <<EmitLabel(trap), halt, EmitLabel(end), nop, Yield(dest)>>
           D == {trap, end}
           R == Refers(Head(work)) \cup LoopLabels(loops) \cup D
           items == tests \o rest
<1>1. /\ work # <<>> /\ Head(work).do # "emit" /\ UNCHANGED <<code, loops>>
      /\ labels' = labels + 2 /\ Leaves(items) /\ labels \in Nat
  BY DEF Dispatch, Doing, fixed, LabelInv
<1>2. IsMatch(Node)
  BY AtHand DEF Dispatch, Doing, IsItem, Node
<1>3. trap # end /\ D \subseteq labels..(labels' - 1) /\ labels' \in Nat /\ labels' >= labels
  BY <1>1
<1>4. Piece(tests, {}, R)
  <2>1. IsSeq(Node.arms)
    BY <1>2, SyntaxAssumption DEF IsMatch, IsExpr
  <2>2. m.heads \in Seq(DOMAIN Node.arms)
    BY <2>1, ArmsAreListed
  <2>3. Len(m.heads) \in Nat /\ DOMAIN tests = 1..Len(m.heads)
    BY <2>2
  <2>4. \A v \in DOMAIN tests :
           IsItem(tests[v]) /\ Def(tests[v]) = {} /\ Refers(tests[v]) \subseteq R
    <3>1. ASSUME NEW v, NEW test, test = [do |-> "testVariant", match |-> m, v |-> v]
          PROVE  IsItem(test) /\ Def(test) = {} /\ Refers(test) = {trap, end}
      BY <1>2, <3>1 DEF IsItem, Def, DefinesLabel, Refers
    <3> QED
      BY <3>1
  <2>5. IsSeq(tests)
    <3> HIDE DEF m
    <3>1. tests \in Seq({tests[v] : v \in DOMAIN tests})
      BY <2>3
    <3> QED
      BY <3>1, SeqIn
  <2> QED
    BY <2>4, <2>5, PieceEach
<1>5. /\ Piece(<<EmitLabel(trap)>>, {trap}, R) /\ Piece(<<EmitLabel(end)>>, {end}, R)
      /\ Piece(<<halt>>, {}, R) /\ Piece(<<nop>>, {}, R) /\ Piece(<<Yield(dest)>>, {}, R)
  BY PieceLabel, PieceEmit, NamesNone, PiecePlain DEF Plain, Yield
<1>6. rest = a \o b
  <2> HIDE DEF trap, end, halt, nop, dest
  <2> QED
    OBVIOUS
<1> HIDE DEF m, tests, halt, nop, dest, R
<1>7. Piece(a, {trap} \cup {} \cup {end}, R)
  <2> HIDE DEF trap, end
  <2> QED
    BY <1>3, <1>5, PieceThree
<1>8. Piece(b, {}, R)
  BY <1>5, TwoPlain
<1> HIDE DEF a, b, rest, trap, end
<1>9. Piece(rest, ({trap} \cup {} \cup {end}) \cup {}, R)
  BY <1>6, <1>7, <1>8, PieceCat
<1>10. Piece(items, {} \cup (({trap} \cup {} \cup {end}) \cup {}), R)
  BY <1>4, <1>9, PieceCat
<1>11. {} \cup (({trap} \cup {} \cup {end}) \cup {}) = D
  OBVIOUS
<1> HIDE DEF D, items
<1>12. Piece(items, D, R)
  BY <1>10, <1>11
<1> QED
  BY <1>1, <1>3, <1>12, ExpandingStep DEF R

\* The test of a variant: a jump, or an instruction that sets the flag and a jump
\* on the flag.
LEMMA VariantTestForms ==
  ASSUME NEW m, NEW arms, NEW next
  PROVE  \/ VariantTest(m, arms, next) = <<Jump(next)>>
         \/ \E op \in {"OPTION_IS_SOME", "RESULT_IS_OK"}, jump \in {"JZ", "JNZ"} :
              VariantTest(m, arms, next)
                = <<Insn(op, <<Reg(m.flag), Reg(m.scrutinee)>>), JumpIf(jump, next, m.flag)>>
         \/ \E id :
              VariantTest(m, arms, next)
                = <<Insn("ENUM_IS_VARIANT", <<Reg(m.flag), Reg(m.scrutinee), Imm(id)>>),
                    JumpIf("JZ", next, m.flag)>>
<1> DEFINE test == VariantTest(m, arms, next)
           name == m.node.arms[arms[1]].variant
           ids == SelectSeq(arms, LAMBDA a : m.node.arms[a].variantId >= 0)
           enum == IsEnum(m.node) /\ ids # <<>>
           arm == m.node.arms[ids[1]]
<1>1. CASE name \in {"Some", "None", "Ok", "Err"}
  BY <1>1 DEF VariantTest
<1>2. CASE name \notin {"Some", "None", "Ok", "Err"} /\ enum
  <2>1. test = <<Insn("ENUM_IS_VARIANT", <<Reg(m.flag), Reg(m.scrutinee),
                                           Imm(GlobalVariantId(arm.enumId, arm.variantId))>>),
                 JumpIf("JZ", next, m.flag)>>
    BY <1>2 DEF VariantTest
  <2> QED
    BY <2>1
<1>3. CASE name \notin {"Some", "None", "Ok", "Err"} /\ ~enum
  BY <1>3 DEF VariantTest
<1> QED
  BY <1>1, <1>2, <1>3

\* The test of a variant is one or two instructions, and the only label they
\* name is that of the next variant.
LEMMA VariantTestShape ==
  ASSUME NEW m, NEW arms, NEW next
  PROVE  /\ IsSeq(VariantTest(m, arms, next))
         /\ \A i \in DOMAIN VariantTest(m, arms, next) :
              Names(VariantTest(m, arms, next)[i], {next})
<1> DEFINE test == VariantTest(m, arms, next)
<1>1. \/ \E insn : Names(insn, {next}) /\ test = <<insn>>
      \/ \E insn1, insn2 : Names(insn1, {next}) /\ Names(insn2, {next}) /\ test = <<insn1, insn2>>
  <2>1. Names(Jump(next), {next})
    BY DEF Names, Jump, Insn, Lab
  <2>2. \A op \in {"JZ", "JNZ"} : Names(JumpIf(op, next, m.flag), {next})
    BY DEF Names, JumpIf, Insn, Lab, Reg
  <2>3. \A op \in {"OPTION_IS_SOME", "RESULT_IS_OK"} :
          Names(Insn(op, <<Reg(m.flag), Reg(m.scrutinee)>>), {next})
    BY DEF Names, Insn, Reg
  <2>4. \A id : Names(Insn("ENUM_IS_VARIANT", <<Reg(m.flag), Reg(m.scrutinee), Imm(id)>>), {next})
    BY DEF Names, Insn, Reg, Imm
  <2>5. \/ test = <<Jump(next)>>
        \/ \E op \in {"OPTION_IS_SOME", "RESULT_IS_OK"}, jump \in {"JZ", "JNZ"} :
             test = <<Insn(op, <<Reg(m.flag), Reg(m.scrutinee)>>), JumpIf(jump, next, m.flag)>>
        \/ \E id :
             test = <<Insn("ENUM_IS_VARIANT", <<Reg(m.flag), Reg(m.scrutinee), Imm(id)>>),
                      JumpIf("JZ", next, m.flag)>>
    BY VariantTestForms
  <2> HIDE DEF test
  <2> QED
    BY <2>1, <2>2, <2>3, <2>4, <2>5
<1> HIDE DEF test
<1>2. IsSeq(test) /\ \A i \in DOMAIN test : Names(test[i], {next})
  <2>1. ASSUME NEW insn, Names(insn, {next}), test = <<insn>>
        PROVE  IsSeq(test) /\ \A i \in DOMAIN test : Names(test[i], {next})
    <3>1. IsSeq(<<insn>>)
      BY SeqIn, <<insn>> \in Seq({insn})
    <3> QED
      BY <2>1, <3>1
  <2>2. ASSUME NEW insn1, NEW insn2, Names(insn1, {next}), Names(insn2, {next}),
               test = <<insn1, insn2>>
        PROVE  IsSeq(test) /\ \A i \in DOMAIN test : Names(test[i], {next})
    <3>1. IsSeq(<<insn1, insn2>>)
      BY SeqIn, <<insn1, insn2>> \in Seq({insn1, insn2})
    <3> QED
      BY <2>2, <3>1
  <2> QED
    BY <1>1, <2>1, <2>2
<1> QED
  BY <1>2 DEF test

\* TestVariant takes the label of the next variant and defines it, unless it is the last.
LEMMA TestVariantLabels ==
  ASSUME LabelInv, TestVariant
  PROVE  LabelInv'
<1> DEFINE m == Head(work).match
           v == Head(work).v
           arms == ArmsOf(m.node.arms, m.heads[v])
           last == v = Len(m.heads)
           next == IF last THEN m.trap ELSE labels
           D == IF last THEN {} ELSE {labels}
           R == Refers(Head(work)) \cup LoopLabels(loops) \cup D
           test == EmitAll(VariantTest(m, arms, next))
           each == [a \in DOMAIN arms |->
                      [do |-> "arm", match |-> m, arms |-> arms, a |-> a, next |-> next]]
           label == IF last THEN <<>> ELSE <<EmitLabel(next)>>
           items == test \o each \o label
<1>1. /\ work # <<>> /\ Head(work).do = "testVariant" /\ UNCHANGED <<code, loops>>
      /\ Leaves(items) /\ labels' = (IF last THEN labels ELSE labels + 1) /\ labels \in Nat
  BY DEF TestVariant, Doing, fixed, LabelInv
<1>2. IsMatch(m.node) /\ Refers(Head(work)) = {m.trap, m.end}
  BY <1>1, AtHand DEF IsItem, Refers
<1>3. D \subseteq labels..(labels' - 1) /\ labels' \in Nat /\ labels' >= labels /\ next \in R
  BY <1>1, <1>2
<1>4. Piece(test, {}, R)
  <2> HIDE DEF R, next, arms
  <2>1. IsSeq(VariantTest(m, arms, next))
    BY VariantTestShape
  <2>2. \A i \in DOMAIN VariantTest(m, arms, next) : Names(VariantTest(m, arms, next)[i], R)
    BY <1>3, VariantTestShape DEF Names
  <2>3. IsSeq(test) /\ DOMAIN test = DOMAIN VariantTest(m, arms, next)
    BY <2>1, EmitAllCat DEF EmitAll
  <2>4. ASSUME NEW i \in DOMAIN test
        PROVE  IsItem(test[i]) /\ Def(test[i]) = {} /\ Refers(test[i]) \subseteq R
    <3> DEFINE insn == VariantTest(m, arms, next)[i]
    <3>1. test[i] = Emit(insn) /\ Names(insn, R)
      BY <2>2, <2>3 DEF EmitAll
    <3> HIDE DEF insn
    <3>2. IsItem(Emit(insn)) /\ Def(Emit(insn)) = {} /\ Refers(Emit(insn)) \subseteq R
      BY <3>1 DEF IsItem, WellFormed, Emit, Def, DefinesLabel, Refers, Names
    <3> QED
      BY <3>1, <3>2
  <2> QED
    BY <2>3, <2>4, PieceEach
<1>5. Piece(each, {}, R)
  <2>1. IsSeq(m.node.arms)
    BY <1>2, SyntaxAssumption DEF IsMatch, IsExpr
  <2>2. arms \in Seq(DOMAIN m.node.arms)
    BY <2>1, ArmsAreListed
  <2>3. Len(arms) \in Nat /\ DOMAIN each = 1..Len(arms) /\ DOMAIN arms = 1..Len(arms)
    BY <2>2
  <2>4. m.end \in R
    BY <1>2
  <2> HIDE DEF R, next, arms, m
  <2>5. \A a \in DOMAIN each : IsItem(each[a]) /\ Def(each[a]) = {} /\ Refers(each[a]) \subseteq R
    <3>1. ASSUME NEW a \in DOMAIN arms, NEW arm,
                 arm = [do |-> "arm", match |-> m, arms |-> arms, a |-> a, next |-> next]
          PROVE  IsItem(arm) /\ Def(arm) = {} /\ Refers(arm) \subseteq R
      BY <1>2, <1>3, <2>2, <2>4, <3>1 DEF IsItem, Def, DefinesLabel, Refers
    <3> QED
      BY <2>3, <3>1
  <2>6. IsSeq(each)
    <3>1. each \in Seq({each[a] : a \in DOMAIN each})
      BY <2>3
    <3> QED
      BY <3>1, SeqIn
  <2> QED
    BY <2>5, <2>6, PieceEach
<1>6. Piece(label, D, R)
  BY <1>3, PieceLabel, PieceNone
<1> HIDE DEF test, each, label, R, D
<1>7. Piece(test \o each, {}, R)
  BY <1>4, <1>5, PlainCat
<1>8. Piece(items, {} \cup D, R)
  BY <1>6, <1>7, PieceCat
<1> HIDE DEF items
<1>9. Piece(items, D, R)
  BY <1>8
<1> QED
  BY <1>1, <1>3, <1>9, ExpandingStep DEF R
\* What an arm emits at once: nothing, or one instruction that reads the payload
\* out of the scrutinee.
LEMMA UnwrapForms ==
  ASSUME NEW m, NEW arm
  PROVE  \/ Unwrap(m, arm) = <<>>
         \/ \E op \in {"OPTION_UNWRAP", "RESULT_UNWRAP_OK", "RESULT_UNWRAP_ERR",
                       "ENUM_UNWRAP_PAYLOAD"} :
              Unwrap(m, arm) = <<Insn(op, <<Reg(m.payload), Reg(m.scrutinee)>>)>>
<1>1. CASE arm.variant \in {"Some", "Ok", "Err"}
  BY <1>1 DEF Unwrap
<1>2. CASE arm.variant \notin {"Some", "Ok", "Err"} /\ IsEnum(m.node) /\ arm.payload
  BY <1>2 DEF Unwrap
<1>3. CASE arm.variant \notin {"Some", "Ok", "Err"} /\ ~(IsEnum(m.node) /\ arm.payload)
  BY <1>3 DEF Unwrap
<1> QED
  BY <1>1, <1>2, <1>3

\* That instruction names no label.
LEMMA UnwrapShape ==
  ASSUME NEW m, NEW arm
  PROVE  \/ Unwrap(m, arm) = <<>>
         \/ \E insn : Unwrap(m, arm) = <<insn>> /\ \A R : Names(insn, R)
<1>1. \A op \in {"OPTION_UNWRAP", "RESULT_UNWRAP_OK", "RESULT_UNWRAP_ERR", "ENUM_UNWRAP_PAYLOAD"} :
         \A R : Names(Insn(op, <<Reg(m.payload), Reg(m.scrutinee)>>), R)
  BY DEF Names, Insn, Reg
<1> QED
  BY <1>1, UnwrapForms

\* Arm takes the label of the next arm and defines it, unless it is the last.
LEMMA ArmLabels ==
  ASSUME LabelInv, Arm
  PROVE  LabelInv'
<1> DEFINE m == Head(work).match
           arms == Head(work).arms
           a == Head(work).a
           arm == m.node.arms[arms[a]]
           last == a = Len(arms)
           nextArm == IF last THEN Head(work).next ELSE labels
           insns == Unwrap(m, arm)
           D == IF last THEN {} ELSE {labels}
           R == Refers(Head(work)) \cup LoopLabels(loops) \cup D
           guard == IF arm.guard = Nil \/ m.node.meta = Nil
                    THEN <<>>
                    ELSE <<Emit(Note(<<>>)), Visit(arm.guard), JumpOn("JZ", nextArm)>>
           copy == [do |-> "copyTo", reg |-> m.dest]
           body == <<Visit(arm.body), copy, EmitJump(m.end)>>
           label == IF last THEN <<>> ELSE <<EmitLabel(nextArm)>>
           exit == [do |-> "exitScope"]
           items == guard \o body \o label \o <<exit>>
<1>1. /\ work # <<>> /\ Head(work).do = "arm" /\ loops' = loops /\ code' = code \o insns
      /\ work' = items \o Tail(work)
      /\ labels' = (IF last THEN labels ELSE labels + 1) /\ labels \in Nat
  BY DEF Arm, Doing, Emits, Leaves, LabelInv
<1>2. /\ IsMatch(m.node) /\ Refers(Head(work)) = {Head(work).next, m.end}
      /\ arms \in Seq(DOMAIN m.node.arms) /\ a \in DOMAIN arms
  BY <1>1, AtHand DEF IsItem, Refers
<1>3. /\ D \subseteq labels..(labels' - 1) /\ labels' \in Nat /\ labels' >= labels
      /\ nextArm \in R /\ m.end \in R
  <2>1. labels' = (IF last THEN labels ELSE labels + 1) /\ labels \in Nat
    BY <1>1
  <2>2. D \subseteq labels..(labels' - 1) /\ labels' \in Nat /\ labels' >= labels
    BY <2>1
  <2>3. nextArm \in R /\ m.end \in R
    <3>1. Refers(Head(work)) = {Head(work).next, m.end}
      BY <1>2
    <3> QED
      BY <3>1
  <2> QED
    BY <2>2, <2>3
<1>4. arm.guard \in Exprs \cup {Nil} /\ arm.body \in Exprs
  <2>1. arms[a] \in DOMAIN m.node.arms
    BY <1>2
  <2> QED
    BY <1>2, <2>1, SyntaxAssumption DEF IsMatch, IsExpr
<1>5. Def(Head(work)) = {}
  BY <1>1 DEF Def, DefinesLabel
<1>6. IsSeq(insns) /\ Piece(EmitAll(insns), {}, R)
  <2>1. CASE insns = <<>>
    <3> HIDE DEF R, insns
    <3>1. EmitAll(<<>>) = <<>> /\ IsSeq(<<>>) /\ Piece(<<>>, {}, R)
      BY PieceNone DEF EmitAll, IsSeq
    <3> QED
      BY <2>1, <3>1
  <2>2. ASSUME NEW insn, insns = <<insn>>, \A S : Names(insn, S)
        PROVE  IsSeq(insns) /\ Piece(EmitAll(insns), {}, R)
    <3> HIDE DEF R, insns
    <3>1. IsSeq(<<insn>>)
      BY SeqIn, <<insn>> \in Seq({insn})
    <3>2. EmitAll(<<insn>>) = <<Emit(insn)>>
      BY DEF EmitAll
    <3>3. Piece(<<Emit(insn)>>, {}, R)
      BY <2>2, PieceEmit
    <3> QED
      BY <2>2, <3>1, <3>2, <3>3
  <2> HIDE DEF insns, R
  <2>3. insns = <<>> \/ \E insn : insns = <<insn>> /\ \A S : Names(insn, S)
    BY UnwrapShape DEF insns
  <2> QED
    BY <2>1, <2>2, <2>3
<1>7. Piece(guard, {}, R)
  <2>1. CASE arm.guard = Nil \/ m.node.meta = Nil
    BY <2>1, PieceNone
  <2>2. CASE ~(arm.guard = Nil \/ m.node.meta = Nil)
    <3>1. Names(Note(<<>>), R)
      BY DEF Names, Note, Insn
    <3>2. /\ Piece(<<Emit(Note(<<>>))>>, {}, R) /\ Piece(<<Visit(arm.guard)>>, {}, R)
          /\ Piece(<<JumpOn("JZ", nextArm)>>, {}, R)
      BY <1>3, <1>4, <2>2, <3>1, PieceEmit, PieceVisit, PieceJumpOn
    <3>3. guard = <<Emit(Note(<<>>)), Visit(arm.guard), JumpOn("JZ", nextArm)>>
      BY <2>2
    <3> HIDE DEF R, nextArm, arm, guard
    <3>4. Piece(<<Emit(Note(<<>>)), Visit(arm.guard), JumpOn("JZ", nextArm)>>, {}, R)
      BY <3>2, ThreePlain
    <3> QED
      BY <3>3, <3>4
  <2> QED
    BY <2>1, <2>2
<1>8. Piece(body, {}, R)
  <2>1. Piece(<<Visit(arm.body)>>, {}, R)
    BY <1>4, PieceVisit
  <2>2. Piece(<<copy>>, {}, R)
    BY PiecePlain DEF Plain
  <2>3. Piece(<<EmitJump(m.end)>>, {}, R)
    BY <1>3, PieceJump
  <2> HIDE DEF R, arm, copy, m
  <2> QED
    BY <2>1, <2>2, <2>3, ThreePlain
<1>9. Piece(label, D, R)
  BY <1>3, PieceLabel, PieceNone
<1>10. Piece(<<exit>>, {}, R)
  BY PiecePlain DEF Plain
<1> HIDE DEF guard, body, label, exit, R, D, insns
<1>11. Piece(guard \o body, {}, R)
  BY <1>7, <1>8, PlainCat
<1>12. Piece(guard \o body \o label, {} \cup D, R)
  BY <1>9, <1>11, PieceCat
<1>13. Piece(items, ({} \cup D) \cup {}, R)
  BY <1>10, <1>12, PieceCat
<1> HIDE DEF items
<1>14. Piece(items, D, R) /\ R = Refers(Head(work)) \cup LoopLabels(loops) \cup D
  BY <1>13 DEF R
<1>15. IsSeq(loops') /\ LoopLabels(loops') \subseteq R
  BY <1>1 DEF R, LabelInv
<1> QED
  BY <1>1, <1>3, <1>5, <1>6, <1>14, <1>15, Rewritten

\* At first there is nothing but visits.
LEMMA InitLabels ==
  ASSUME Init
  PROVE  LabelInv
<1>1. program \in Seq(Stmts) /\ work = VisitAll(program)
  BY SyntaxAssumption DEF Init
<1>2. Piece(work, {}, {})
  BY <1>1, PieceVisitAll
<1>3. code = <<>> /\ loops = <<>> /\ labels = 0
  BY DEF Init
<1>4. IsSeq(<<>>) /\ EmitAll(<<>>) = <<>> /\ LoopLabels(<<>>) = {}
  BY DEF IsSeq, EmitAll, LoopLabels
<1>5. Image = work
  <2>1. work \in Seq(Range(work))
    BY <1>2 DEF Piece, IsSeq
  <2>2. <<>> \o work = work
    BY <2>1
  <2> QED
    BY <1>3, <1>4, <2>2 DEF Image
<1> QED
  BY <1>2, <1>3, <1>4, <1>5 DEF LabelInv, Piece

\* Each step keeps the labels in order: the ways out change the status alone.
LEMMA LabelInvStep ==
  ASSUME LabelInv, [Next]_vars
  PROVE  LabelInv'
<1>1. CASE StatementStep
  BY <1>1, EmitNextLabels, PlainInstructionLabels, ExpressionStatementLabels, SilentLabels,
     BodyLabels, DeclareLabels, IfLabels, BranchLabels, WhileLabels, LoopStepLabels,
     PushAndPopLabels, ReturnLabels, CopyLabels, LeaveLoopLabels DEF StatementStep
<1>2. CASE ExpressionStep
  BY <1>2, SilentLabels, LogicalLabels, OperandLabels, OperateLabels, PlainInstructionLabels,
     VariableLabels, CopyLabels DEF ExpressionStep
<1>3. CASE CallStep
  BY <1>3, OperandLabels, PlainInstructionLabels, ListLabels, EmitCallLabels, SilentLabels
     DEF CallStep
<1>4. CASE MatchStep
  BY <1>4, OperandLabels, DispatchLabels, TestVariantLabels, ArmLabels, CopyLabels, SilentLabels
     DEF MatchStep
<1>5. CASE MissingResult \/ Unsupported \/ Finish \/ UNCHANGED vars
  <2>1. UNCHANGED <<work, code, labels, loops>>
    BY <1>5 DEF MissingResult, Unsupported, Throws, Finish, vars
  <2>2. Image' = Image
    BY <2>1 DEF Image
  <2> QED
    BY <2>1, <2>2 DEF LabelInv
<1> QED
  BY <1>1, <1>2, <1>3, <1>4, <1>5 DEF Next

\* LabelInv holds in every state of the generator: what is emitted and what is still
\* to do define every label once and define every label anything refers to.
THEOREM LabelInvariant == Spec => []LabelInv
<1>1. Init => LabelInv
  BY InitLabels
<1>2. LabelInv /\ [Next]_vars => LabelInv'
  BY LabelInvStep
<1> QED
  BY <1>1, <1>2, PTL DEF Spec

\* LabelInv says that no label is defined twice.
LEMMA DefinedOnce ==
  ASSUME LabelInv
  PROVE  LabelsAreUnique
<1> DEFINE image == Image
           places == {i \in DOMAIN image : DefinesLabel(image[i])}
<1>1. \A i, j \in DOMAIN image : i # j => Def(image[i]) \cap Def(image[j]) = {}
  BY DEF LabelInv, Once
<1>2. \A i \in places : Defined(image[i]) \in Def(image[i])
  BY DEF Def
<1>3. \A i, j \in places : Defined(image[i]) = Defined(image[j]) => i = j
  <2> HIDE DEF image
  <2> QED
    BY <1>1, <1>2
<1> QED
  BY <1>3 DEF LabelsAreUnique

\* Defines (Lowering) and Defs are the same set.
LEMMA DefinedIsDefs ==
  ASSUME NEW s
  PROVE  Defines(s) = Defs(s)
<1>1. ASSUME NEW l \in Defines(s) PROVE l \in Defs(s)
  BY DEF Defines, Defs, Def
<1>2. ASSUME NEW l \in Defs(s) PROVE l \in Defines(s)
  <2>1. PICK i \in DOMAIN s : l \in Def(s[i])
    BY DEF Defs
  <2>2. DefinesLabel(s[i]) /\ l = Defined(s[i])
    BY <2>1 DEF Def
  <2> QED
    BY <2>1, <2>2 DEF Defines
<1> QED
  BY <1>1, <1>2

\* LabelInv says that every label referred to is defined.
LEMMA ReferredAreDefined ==
  ASSUME LabelInv
  PROVE  JumpsHaveTargets
<1> DEFINE image == Image
<1>1. Refs(image) \cup LoopLabels(loops) \subseteq Defs(image)
  BY DEF LabelInv
<1>2. \A i \in DOMAIN image : Refers(image[i]) \subseteq Defs(image)
  BY <1>1 DEF Refs
<1>3. \A i \in DOMAIN loops : {loops[i].entry, loops[i].exit} \subseteq Defs(image)
  BY <1>1 DEF LoopLabels
<1> HIDE DEF image
<1>4. Defines(image) = Defs(image)
  BY DefinedIsDefs
<1>5. /\ \A i \in DOMAIN image : Refers(image[i]) \subseteq Defines(image)
      /\ \A i \in DOMAIN loops : {loops[i].entry, loops[i].exit} \subseteq Defines(image)
  BY <1>2, <1>3, <1>4
<1> USE DEF image
<1> QED
  BY <1>5 DEF JumpsHaveTargets

\* No label is ever defined twice, whatever the program: encode_program, which keeps
\* the last place of a label, finds only one.
THEOREM LabelsStayUnique == Spec => []LabelsAreUnique
<1>1. LabelInv => LabelsAreUnique
  BY DefinedOnce
<1> QED
  BY <1>1, LabelInvariant, PTL

\* Every label that a jump names, a visitor holds or an open loop offers has its
\* LABEL, emitted or certain to be.
THEOREM JumpsAlwaysHaveTargets == Spec => []JumpsHaveTargets
<1>1. LabelInv => JumpsHaveTargets
  BY ReferredAreDefined
<1> QED
  BY <1>1, LabelInvariant, PTL
=============================================================================
