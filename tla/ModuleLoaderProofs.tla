------------------------- MODULE ModuleLoaderProofs -------------------------
(***************************************************************************)
(* What ModuleLoader guarantees for every set of files, every content they *)
(* may have and every number of edits.                                     *)
(***************************************************************************)
EXTENDS ModuleLoader, SequenceLemmas

(***************************************************************************)
(* How each operation on the stack of frames changes it.                   *)
(***************************************************************************)

\* The top of a nonempty stack is a frame, of a key and a unit.
LEMMA TopIsFrame ==
  ASSUME stack \in Seq(Frame), stack # <<>>
  PROVE  /\ Len(stack) \in Nat \ {0}
         /\ Top \in Frame
         /\ Top.key \in File /\ Top.unit \in Content
         /\ Top.todo \in Seq(Seq(Segment))
<1>1. Len(stack) \in Nat \ {0}
  BY EmptySeq
<1>2. Top \in Frame
  BY <1>1, ElementOfSeq DEF Top
<1> QED
  BY <1>1, <1>2 DEF Frame

\* Taking an import off the top frame leaves the keys of the stack alone.
LEMMA AdvanceShape ==
  ASSUME stack \in Seq(Frame), stack # <<>>, Top.todo # <<>>, Advance
  PROVE  /\ stack' \in Seq(Frame)
         /\ Len(stack') = Len(stack)
         /\ \A i \in 1 .. Len(stack) : stack'[i].key = stack[i].key
<1> DEFINE n == Len(stack)
           t == [stack[n] EXCEPT !.todo = Tail(@)]
<1>1. n \in 1 .. n /\ n \in Nat
  BY TopIsFrame
<1>2. t \in Frame /\ t.key = stack[n].key
  <2>1. Tail(Top.todo) \in Seq(Seq(Segment))
    BY TopIsFrame, HeadTailProperties
  <2> QED
    BY <2>1, TopIsFrame DEF Top, Frame
<1>3. stack' = [stack EXCEPT ![n] = t]
  BY DEF Advance
<1> HIDE DEF t
<1> QED
  BY <1>1, <1>2, <1>3, ExceptSeq

\* A push puts the frame above the others, which stay.
LEMMA PushShape ==
  ASSUME stack \in Seq(Frame), NEW fr \in Frame, stack' = Append(stack, fr)
  PROVE  /\ stack' \in Seq(Frame)
         /\ Len(stack') = Len(stack) + 1
         /\ \A i \in 1 .. Len(stack) : stack'[i] = stack[i]
         /\ stack'[Len(stack) + 1] = fr
  BY AppendProperties

\* A pop leaves the frames below.
LEMMA PopShape ==
  ASSUME stack \in Seq(Frame), stack # <<>>,
         stack' = SubSeq(stack, 1, Len(stack) - 1)
  PROVE  /\ stack' \in Seq(Frame)
         /\ Len(stack') = Len(stack) - 1
         /\ \A i \in 1 .. Len(stack) - 1 : stack'[i] = stack[i]
<1>1. Len(stack) \in Nat \ {0}
  BY TopIsFrame
<1> DEFINE m == Len(stack) - 1
<1>2. \A i \in 1 .. m : stack[i] \in Frame
  BY <1>1, ElementOfSeq
<1>3. /\ SubSeq(stack, 1, m) \in Seq(Frame)
      /\ Len(SubSeq(stack, 1, m)) = IF 1 <= m THEN m - 1 + 1 ELSE 0
      /\ \A i \in 1 .. m - 1 + 1 : SubSeq(stack, 1, m)[i] = stack[1 + i - 1]
  <2>1. m \in Int /\ 1 \in Int
    BY <1>1
  <2> HIDE DEF m
  <2> QED
    BY <1>2, <2>1, SubSeqProperties, SMT
<1>4. m \in Nat /\ stack' = SubSeq(stack, 1, m)
  BY <1>1
<1> HIDE DEF m
<1>5. /\ stack' \in Seq(Frame)
      /\ Len(stack') = m
      /\ \A i \in 1 .. m : stack'[i] = stack[i]
  <2>1. m - 1 + 1 = m /\ \A i \in 1 .. m : 1 + i - 1 = i
    BY <1>4
  <2> QED
    BY <1>3, <1>4, <2>1
<1> QED
  BY <1>5 DEF m

-----------------------------------------------------------------------------
(* Type correctness. *)

\* What a file may hold has the fields that the loader reads.
LEMMA UnitFields ==
  ASSUME NEW c \in Content
  PROVE  /\ c.parses \in BOOLEAN /\ c.sound \in BOOLEAN
         /\ c.imports \in Seq(Seq(Segment))
  BY GraphAssumption DEF UnitType

\* The first state is of its type,
LEMMA TypeInit ==
  ASSUME Init
  PROVE  TypeOK
<1>1. <<>> \in Seq(Frame) /\ <<>> \in Seq(File)
  BY EmptySeq
<1>2. 0 \in 0 .. MaxEdits
  BY LoaderAssumption
<1> QED
  BY <1>1, <1>2 DEF Init, TypeOK, Disk, VisitState

\* and each step keeps it so.
LEMMA TypeStep ==
  ASSUME TypeOK, [Next]_vars
  PROVE  TypeOK'
<1> USE DEF TypeOK, Disk, VisitState
<1>1. CASE EntryMissing
  BY <1>1 DEF EntryMissing, loaderVars
<1>2. CASE Start
  BY <1>2, GraphAssumption DEF Start
<1>3. CASE AlreadyLoaded
  BY <1>3 DEF AlreadyLoaded
<1>4. CASE CycleDetected
  BY <1>4 DEF CycleDetected
<1>5. CASE ParseFailed
  BY <1>5 DEF ParseFailed
<1>6. CASE Open
  <2> DEFINE fr == [key |-> call, unit |-> disk[call], todo |-> disk[call].imports]
  <2>1. call \in File /\ disk[call] \in Content
    BY <1>6 DEF Open, Parsed, Exists
  <2>2. fr \in Frame
    BY <2>1, UnitFields DEF Frame
  <2>3. stack' \in Seq(Frame)
    BY <1>6, <2>2, PushShape DEF Open
  <2> QED
    BY <1>6, <2>1, <2>3 DEF Open
<1>7. CASE MissingImport
  <2>1. stack' \in Seq(Frame)
    BY <1>7, AdvanceShape DEF MissingImport, Importing
  <2> QED
    BY <1>7, <2>1 DEF MissingImport
<1>8. CASE Import
  <2>1. stack' \in Seq(Frame) /\ Top.key \in File
    BY <1>8, AdvanceShape, TopIsFrame DEF Import, Importing
  <2>2. Dependency \in File
    BY <1>8 DEF Import, Exists
  <2> QED
    BY <1>8, <2>1, <2>2 DEF Import
<1>9. CASE Finish
  <2>1. stack' \in Seq(Frame) /\ Top.key \in File /\ Top.unit \in Content
    BY <1>9, PopShape, TopIsFrame DEF Finish
  <2>2. finished' \in Seq(File)
    BY <1>9, <2>1, AppendProperties DEF Finish
  <2> QED
    BY <1>9, <2>1, <2>2 DEF Finish
<1>10. CASE Loaded
  <2>1. FinishedKeys \subseteq File
    BY ElementOfSeq DEF FinishedKeys
  <2> QED
    BY <1>10, <2>1 DEF Loaded, loaderVars
<1>11. ASSUME NEW f \in File, Analyse(f) PROVE TypeOK'
  BY <1>11 DEF Analyse, loaderVars
<1>12. CASE Return
  BY <1>12 DEF Return, loaderVars
<1>13. ASSUME NEW f \in File, NEW c \in Content \cup {Absent}, Edit(f, c)
       PROVE TypeOK'
  BY <1>13, LoaderAssumption DEF Edit, loaderVars
<1>14. CASE UNCHANGED vars
  BY <1>14 DEF vars
<1> QED
  BY <1>1, <1>2, <1>3, <1>4, <1>5, <1>6, <1>7, <1>8, <1>9, <1>10, <1>11,
     <1>12, <1>13, <1>14 DEF Next, Check, Load

\* Every variable of the loader keeps its type.
THEOREM TypeCorrect == Spec => []TypeOK
<1>1. Init => TypeOK
  BY TypeInit
<1>2. TypeOK /\ [Next]_vars => TypeOK'
  BY TypeStep
<1> QED
  BY <1>1, <1>2, PTL DEF Spec

-----------------------------------------------------------------------------
(* The inductive invariant, one conjunct at a time. *)

\* The steps that touch neither the frames nor what was followed.
LEMMA QuietSteps ==
  ASSUME \/ EntryMissing \/ Loaded \/ Return \/ UNCHANGED vars
         \/ \E f \in File : Analyse(f)
         \/ \E f \in File, c \in Content \cup {Absent} : Edit(f, c)
  PROVE  UNCHANGED loaderVars
  BY DEF EntryMissing, Loaded, Return, Analyse, Edit, loaderVars, vars

\* Each step keeps the stack a chain of imports of keys being visited.
LEMMA ChainStep ==
  ASSUME TypeOK, StackIsImportChain, CallIsImported, [Next]_vars
  PROVE  StackIsImportChain'
<1> USE DEF StackIsImportChain
<1>0. /\ stack \in Seq(Frame) /\ Len(stack) \in Nat
      /\ state \in [File -> VisitState] /\ call \in File \cup {None}
  BY EmptySeq DEF TypeOK
<1>1. CASE UNCHANGED <<stack, state, edge>>
  <2>1. Keys' = Keys
    BY <1>1 DEF Keys
  <2> QED
    BY <1>1, <2>1
<1>2. CASE ParseFailed
  <2>1. Keys' = Keys /\ stack' = stack /\ edge' = edge
    BY <1>2 DEF ParseFailed, Keys
  <2>2. /\ call \in File /\ state[call] = "Unseen"
        /\ state' = [state EXCEPT ![call] = "Done"]
    BY <1>0, <1>2 DEF ParseFailed
  <2>3. {f \in File : state'[f] = "Visiting"} = {f \in File : state[f] = "Visiting"}
    BY <1>0, <2>2
  <2> QED
    BY <2>1, <2>3
<1>6. CASE Open
  <2> DEFINE n  == Len(stack)
             fr == [key |-> call, unit |-> disk[call], todo |-> disk[call].imports]
  <2>1. call \in File /\ disk[call] \in Content /\ state[call] = "Unseen"
    BY <1>6 DEF Open, Parsed, Exists, TypeOK, Disk
  <2>2. fr \in Frame /\ fr.key = call
    BY <2>1, UnitFields DEF Frame
  <2> HIDE DEF fr
  <2>3. /\ Len(stack') = n + 1
        /\ \A i \in 1 .. n : stack'[i] = stack[i]
        /\ stack'[n + 1] = fr
    BY <1>6, <2>2, PushShape DEF Open, fr
  <2>4. \A i \in 1 .. n : stack[i].key # call
    BY <2>1 DEF Keys
  <2>5. state' = [state EXCEPT ![call] = "Visiting"] /\ edge' = edge
    BY <1>6 DEF Open
  <2>6. Keys' = Keys \cup {call}
    <3>1. ASSUME NEW k, k \in Keys' PROVE k \in Keys \cup {call}
      <4>1. PICK i \in 1 .. n + 1 : k = stack'[i].key
        BY <2>3, <3>1 DEF Keys
      <4> QED
        BY <1>0, <4>1, <2>2, <2>3 DEF Keys
    <3>2. ASSUME NEW k, k \in Keys PROVE k \in Keys'
      <4>1. PICK i \in 1 .. n : k = stack[i].key
        BY <3>2 DEF Keys
      <4>2. i \in 1 .. n + 1 /\ k = stack'[i].key
        BY <1>0, <4>1, <2>3
      <4> QED
        BY <4>2, <2>3 DEF Keys
    <3>3. call \in Keys'
      <4>1. n + 1 \in 1 .. n + 1
        BY <1>0
      <4> QED
        BY <4>1, <2>2, <2>3 DEF Keys
    <3> QED
      BY <3>1, <3>2, <3>3
  <2>7. Keys' = {f \in File : state'[f] = "Visiting"}
    BY <1>0, <2>1, <2>5, <2>6
  <2>8. \A i, j \in 1 .. Len(stack') : stack'[i].key = stack'[j].key => i = j
    BY <1>0, <2>2, <2>3, <2>4
  <2>9. \A i \in 1 .. Len(stack') - 1 :
          <<stack'[i].key, stack'[i+1].key>> \in edge'
    <3> SUFFICES ASSUME NEW i \in 1 .. n
                 PROVE  <<stack'[i].key, stack'[i+1].key>> \in edge
      BY <1>0, <2>3, <2>5
    <3>1. CASE i < n
      <4>1. i \in 1 .. n - 1 /\ i + 1 \in 1 .. n
        BY <1>0, <3>1
      <4> QED
        BY <4>1, <2>3
    <3>2. CASE i = n
      <4>1. stack # <<>>
        BY <3>2, EmptySeq
      <4>2. <<Top.key, call>> \in edge
        BY <4>1, <2>1, LoaderAssumption DEF CallIsImported
      <4> QED
        BY <3>2, <4>2, <2>2, <2>3 DEF Top
    <3> QED
      BY <1>0, <3>1, <3>2
  <2> QED
    BY <2>7, <2>8, <2>9
<1>7. CASE MissingImport \/ Import
  <2>1. /\ stack # <<>> /\ Top.todo # <<>> /\ Advance
        /\ state' = state /\ edge \subseteq edge'
    BY <1>7 DEF MissingImport, Import, Importing
  <2>2. /\ Len(stack') = Len(stack)
        /\ \A i \in 1 .. Len(stack) : stack'[i].key = stack[i].key
    BY <1>0, <2>1, AdvanceShape
  <2>3. \A i \in 1 .. Len(stack) - 1 : i \in 1 .. Len(stack) /\ i + 1 \in 1 .. Len(stack)
    BY <1>0
  <2>4. Keys' = Keys
    BY <2>2 DEF Keys
  <2>5. \A i, j \in 1 .. Len(stack') : stack'[i].key = stack'[j].key => i = j
    BY <2>2
  <2>6. \A i \in 1 .. Len(stack') - 1 :
          <<stack'[i].key, stack'[i+1].key>> \in edge'
    BY <2>1, <2>2, <2>3
  <2> QED
    BY <2>1, <2>4, <2>5, <2>6
<1>8. CASE Finish
  <2> DEFINE n == Len(stack)
  <2>1. /\ n \in Nat \ {0} /\ Len(stack') = n - 1
        /\ \A i \in 1 .. n - 1 : stack'[i] = stack[i]
        /\ state' = [state EXCEPT ![stack[n].key] = "Done"] /\ edge' = edge
        /\ stack[n].key \in File
    BY <1>0, <1>8, PopShape, TopIsFrame DEF Finish, Top
  <2>2. \A i \in 1 .. n - 1 : stack[i].key # stack[n].key
    BY <2>1
  <2>3. Keys' = Keys \ {stack[n].key}
    <3>1. ASSUME NEW k, k \in Keys' PROVE k \in Keys \ {stack[n].key}
      <4>1. PICK i \in 1 .. n - 1 : k = stack'[i].key
        BY <2>1, <3>1 DEF Keys
      <4> QED
        BY <2>1, <2>2, <4>1 DEF Keys
    <3>2. ASSUME NEW k, k \in Keys \ {stack[n].key} PROVE k \in Keys'
      <4>1. PICK i \in 1 .. n : k = stack[i].key
        BY <3>2 DEF Keys
      <4>2. i \in 1 .. n - 1
        BY <2>1, <3>2, <4>1
      <4> QED
        BY <2>1, <4>1, <4>2 DEF Keys
    <3> QED
      BY <3>1, <3>2
  <2>4. Keys' = {f \in File : state'[f] = "Visiting"}
    BY <1>0, <2>1, <2>3
  <2>5. \A i, j \in 1 .. Len(stack') : stack'[i].key = stack'[j].key => i = j
    BY <2>1
  <2>6. \A i \in 1 .. Len(stack') - 1 :
          <<stack'[i].key, stack'[i+1].key>> \in edge'
    BY <2>1
  <2> QED
    BY <2>4, <2>5, <2>6
<1> QED
  BY <1>1, <1>2, <1>6, <1>7, <1>8, QuietSteps
     DEF Next, Check, Load, Start, AlreadyLoaded, CycleDetected, loaderVars

\* Each step keeps a pending call one that the top frame asked for.
LEMMA CallStep ==
  ASSUME TypeOK, CallIsImported, PhaseFacts, [Next]_vars
  PROVE  CallIsImported'
<1> USE DEF CallIsImported
<1>1. CASE UNCHANGED loaderVars
  BY <1>1 DEF loaderVars, Top
<1>2. CASE Import
  <2>1. /\ stack # <<>> /\ Top.todo # <<>> /\ Advance
        /\ call' = Dependency /\ edge' = edge \cup {<<Top.key, Dependency>>}
    BY <1>2 DEF Import, Importing
  <2>2. stack' # <<>> /\ Top'.key = Top.key
    <3>1. /\ Len(stack') = Len(stack) /\ stack' \in Seq(Frame)
          /\ \A i \in 1 .. Len(stack) : stack'[i].key = stack[i].key
      BY <2>1, AdvanceShape DEF TypeOK
    <3>2. Len(stack) \in 1 .. Len(stack) /\ Len(stack) # 0
      BY <2>1, TopIsFrame DEF TypeOK
    <3>3. stack' # <<>>
      BY <3>1, <3>2, EmptySeq
    <3> QED
      BY <3>1, <3>2, <3>3 DEF Top
  <2> QED
    BY <2>1, <2>2
<1>3. CASE Start
  <2>1. stack = <<>> /\ stack' = stack /\ call' = Entry
    BY <1>3 DEF Start, PhaseFacts
  <2> QED
    BY <2>1
<1>4. CASE AlreadyLoaded \/ CycleDetected \/ ParseFailed \/ Open \/ MissingImport \/ Finish
  <2>1. call' = None
    BY <1>4 DEF AlreadyLoaded, CycleDetected, ParseFailed, Open, MissingImport,
                Finish, Importing
  <2> QED
    BY <2>1
<1> QED
  BY <1>1, <1>2, <1>3, <1>4, QuietSteps DEF Next, Check, Load

\* Where an import that was followed leads while no cycle has been met.
Leads(e) ==
  \/ state[e[2]] = "Done"
  \/ stack # <<>> /\ Top.key = e[1] /\ call = e[2]
  \/ \E i \in 1 .. Len(stack) - 1 : stack[i].key = e[1] /\ stack[i+1].key = e[2]

\* But for CycleDetected, a step keeps followed imports leading to a key that is
\* done, to the pending call or to the next frame.
LEMMA LeadsStep ==
  ASSUME TypeOK, StackIsImportChain, CallIsImported, PhaseFacts,
         \A e \in edge : state[e[1]] # "Unseen" /\ Leads(e),
         [Next]_vars, ~CycleDetected
  PROVE  \A e \in edge' : state'[e[1]] # "Unseen" /\ Leads(e)'
<1> USE DEF Leads
<1>0. /\ stack \in Seq(Frame) /\ Len(stack) \in Nat /\ edge \subseteq File \X File
      /\ state \in [File -> VisitState] /\ call \in File \cup {None}
  BY EmptySeq DEF TypeOK
<1>1. \A e \in edge : state[e[1]] # "Unseen" /\ Leads(e)
  OBVIOUS
<1> SUFFICES ASSUME NEW e \in edge'
             PROVE  state'[e[1]] # "Unseen" /\ Leads(e)'
  OBVIOUS
<1>2. CASE UNCHANGED <<stack, state, edge, call>>
  BY <1>1, <1>2 DEF Top
<1>3. CASE Start
  <2>1. stack = <<>> /\ call = None /\ UNCHANGED <<stack, state, edge>>
    BY <1>3 DEF Start, PhaseFacts
  <2> QED
    BY <1>0, <1>1, <2>1
<1>4. CASE AlreadyLoaded
  BY <1>1, <1>4 DEF AlreadyLoaded
<1>5. CASE Open
  <2> DEFINE n  == Len(stack)
             fr == [key |-> call, unit |-> disk[call], todo |-> disk[call].imports]
  <2>1. call \in File /\ disk[call] \in Content /\ state[call] = "Unseen"
    BY <1>5 DEF Open, Parsed, Exists, TypeOK, Disk
  <2>2. fr \in Frame /\ fr.key = call
    BY <2>1, UnitFields DEF Frame
  <2> HIDE DEF fr
  <2>3. /\ Len(stack') = n + 1
        /\ \A i \in 1 .. n : stack'[i] = stack[i]
        /\ stack'[n + 1] = fr
    BY <1>0, <1>5, <2>2, PushShape DEF Open, fr
  <2>4. state' = [state EXCEPT ![call] = "Visiting"] /\ e \in edge
    BY <1>5 DEF Open
  <2>5. state'[e[1]] # "Unseen"
    BY <1>0, <1>1, <2>1, <2>4
  <2>6. CASE state[e[2]] = "Done"
    BY <1>0, <2>1, <2>4, <2>5, <2>6
  <2>7. CASE stack # <<>> /\ Top.key = e[1] /\ call = e[2]
    <3>1. n \in 1 .. Len(stack') - 1
      BY <1>0, <2>3, <2>7, EmptySeq
    <3>2. stack'[n].key = e[1] /\ stack'[n+1].key = e[2]
      BY <1>0, <2>2, <2>3, <2>7, <3>1 DEF Top
    <3> QED
      BY <2>5, <3>1, <3>2
  <2>8. CASE \E i \in 1 .. n - 1 : stack[i].key = e[1] /\ stack[i+1].key = e[2]
    <3>1. PICK i \in 1 .. n - 1 : stack[i].key = e[1] /\ stack[i+1].key = e[2]
      BY <2>8
    <3>2. i \in 1 .. n /\ i + 1 \in 1 .. n /\ i \in 1 .. Len(stack') - 1
      BY <1>0, <2>3
    <3> QED
      BY <2>3, <2>5, <3>1, <3>2
  <2> QED
    BY <1>1, <2>4, <2>6, <2>7, <2>8
<1>6. CASE Import
  <2>1. /\ stack # <<>> /\ Top.todo # <<>> /\ Advance /\ call = None
        /\ state' = state /\ call' = Dependency
        /\ edge' = edge \cup {<<Top.key, Dependency>>}
    BY <1>6 DEF Import, Importing
  <2>2. /\ Len(stack') = Len(stack) /\ stack' \in Seq(Frame)
        /\ \A i \in 1 .. Len(stack) : stack'[i].key = stack[i].key
    BY <1>0, <2>1, AdvanceShape
  <2>3. CASE e \in edge
    <3>1. CASE state[e[2]] = "Done"
      BY <1>1, <2>1, <2>3, <3>1
    <3>2. CASE \E i \in 1 .. Len(stack) - 1 : stack[i].key = e[1] /\ stack[i+1].key = e[2]
      <4>1. PICK i \in 1 .. Len(stack) - 1 : stack[i].key = e[1] /\ stack[i+1].key = e[2]
        BY <3>2
      <4>2. i \in 1 .. Len(stack) /\ i + 1 \in 1 .. Len(stack)
        BY <1>0
      <4> QED
        BY <1>1, <2>1, <2>2, <2>3, <4>1, <4>2
    <3> QED
      BY <1>0, <1>1, <2>1, <2>3, <3>1, <3>2, LoaderAssumption
  <2>4. CASE e = <<Top.key, Dependency>>
    <3>1. Len(stack) \in 1 .. Len(stack) /\ Len(stack) # 0
      BY <1>0, <2>1, TopIsFrame
    <3>2. stack' # <<>> /\ Top'.key = Top.key
      BY <2>2, <3>1, EmptySeq DEF Top
    <3>3. Top.key \in Keys /\ Top.key \in File
      BY <1>0, <2>1, <3>1, TopIsFrame DEF Keys, Top
    <3>4. state[Top.key] = "Visiting"
      BY <3>3 DEF StackIsImportChain
    <3> QED
      BY <2>1, <2>4, <3>2, <3>4
  <2> QED
    BY <2>1, <2>3, <2>4
<1>7. CASE Finish
  <2> DEFINE n == Len(stack)
  <2>1. /\ n \in Nat \ {0} /\ Len(stack') = n - 1 /\ stack' \in Seq(Frame)
        /\ \A i \in 1 .. n - 1 : stack'[i] = stack[i]
        /\ state' = [state EXCEPT ![stack[n].key] = "Done"] /\ e \in edge
        /\ stack[n].key \in File /\ call = None /\ call' = None
    BY <1>0, <1>7, PopShape, TopIsFrame DEF Finish, Top
  <2>2. state'[e[1]] # "Unseen"
    BY <1>0, <1>1, <2>1
  <2>3. CASE state[e[2]] = "Done"
    BY <1>0, <2>1, <2>2, <2>3
  <2>4. CASE \E i \in 1 .. n - 1 : stack[i].key = e[1] /\ stack[i+1].key = e[2]
    <3>1. PICK i \in 1 .. n - 1 : stack[i].key = e[1] /\ stack[i+1].key = e[2]
      BY <2>4
    <3>2. CASE i + 1 = n
      BY <1>0, <2>1, <2>2, <3>1, <3>2
    <3>3. CASE i + 1 < n
      <4>1. i \in 1 .. Len(stack') - 1 /\ i + 1 \in 1 .. n - 1
        BY <2>1, <3>3
      <4> QED
        BY <2>1, <2>2, <3>1, <4>1
    <3> QED
      BY <2>1, <3>2, <3>3
  <2> QED
    BY <1>0, <1>1, <2>1, <2>3, <2>4, LoaderAssumption
<1>8. CASE ParseFailed
  <2>1. /\ UNCHANGED <<stack, edge>> /\ call \in File
        /\ state' = [state EXCEPT ![call] = "Done"]
    BY <1>0, <1>8 DEF ParseFailed
  <2>2. state'[e[1]] # "Unseen" /\ e[2] \in File
    BY <1>0, <1>1, <2>1
  <2>3. CASE state[e[2]] = "Done" \/ call = e[2]
    BY <1>0, <2>1, <2>2, <2>3
  <2>4. CASE \E i \in 1 .. Len(stack) - 1 : stack[i].key = e[1] /\ stack[i+1].key = e[2]
    BY <2>1, <2>2, <2>4
  <2> QED
    BY <1>1, <2>1, <2>3, <2>4
<1>9. CASE MissingImport
  <2>1. /\ stack # <<>> /\ Top.todo # <<>> /\ Advance /\ call = None
        /\ UNCHANGED <<state, edge>>
    BY <1>9 DEF MissingImport, Importing
  <2>2. /\ Len(stack') = Len(stack)
        /\ \A i \in 1 .. Len(stack) : stack'[i].key = stack[i].key
    BY <1>0, <2>1, AdvanceShape
  <2>3. e[2] # None
    BY <1>0, <2>1, LoaderAssumption
  <2>4. \A i \in 1 .. Len(stack) - 1 : i \in 1 .. Len(stack) /\ i + 1 \in 1 .. Len(stack)
    BY <1>0
  <2> QED
    BY <1>1, <2>1, <2>2, <2>3, <2>4
<1> QED
  BY <1>2, <1>3, <1>4, <1>5, <1>6, <1>7, <1>8, <1>9, QuietSteps
     DEF Next, Check, Load, loaderVars

\* Without an error, each step keeps the followed imports accounted for.
LEMMA EdgeStep ==
  ASSUME TypeOK, StackIsImportChain, CallIsImported, EdgesAccounted, PhaseFacts,
         [Next]_vars, ~graph_error'
  PROVE  EdgesAccounted'
<1>1. ~graph_error /\ ~CycleDetected
  BY DEF TypeOK, Next, Check, Load, EntryMissing, Start, AlreadyLoaded,
         CycleDetected, ParseFailed, Open, MissingImport, Import, Finish,
         Loaded, Analyse, Return, Edit, vars, loaderVars
<1>2. \A e \in edge : state[e[1]] # "Unseen" /\ Leads(e)
  BY <1>1 DEF EdgesAccounted, Leads
<1>3. \A e \in edge' : state'[e[1]] # "Unseen" /\ Leads(e)'
  BY <1>1, <1>2, LeadsStep
<1> QED
  BY <1>3 DEF EdgesAccounted, Leads

\* Each step keeps the emplaced units done, each once, with their content.
LEMMA FinishedStep ==
  ASSUME TypeOK, StackIsImportChain, FinishedIsDone, [Next]_vars
  PROVE  FinishedIsDone'
<1>0. /\ stack \in Seq(Frame) /\ state \in [File -> VisitState]
      /\ finished \in Seq(File) /\ units \in [File -> Content \cup {Absent}]
      /\ call \in File \cup {None}
  BY DEF TypeOK, Disk
<1>1. CASE UNCHANGED <<state, finished, units>> /\ (graph_error' = graph_error \/ graph_error')
  <2>1. FinishedKeys' = FinishedKeys
    BY <1>1 DEF FinishedKeys
  <2> QED
    BY <1>1, <2>1 DEF FinishedIsDone
<1>2. CASE ParseFailed
  <2>1. FinishedKeys' = FinishedKeys /\ units' = units /\ graph_error'
    BY <1>2 DEF ParseFailed, FinishedKeys
  <2>2. call \in File /\ state' = [state EXCEPT ![call] = "Done"]
    BY <1>0, <1>2 DEF ParseFailed
  <2>3. FinishedKeys \subseteq File
    BY <1>0, ElementOfSeq DEF FinishedKeys
  <2> QED
    BY <1>0, <2>1, <2>2, <2>3 DEF FinishedIsDone
<1>3. CASE Open
  <2>1. FinishedKeys' = FinishedKeys /\ units' = units /\ graph_error' = graph_error
    BY <1>3 DEF Open, FinishedKeys
  <2>2. /\ call \in File /\ state[call] = "Unseen"
        /\ state' = [state EXCEPT ![call] = "Visiting"]
    BY <1>0, <1>3 DEF Open
  <2>3. FinishedKeys \subseteq File
    BY <1>0, ElementOfSeq DEF FinishedKeys
  <2> QED
    BY <1>0, <2>1, <2>2, <2>3 DEF FinishedIsDone
<1>4. CASE Finish
  <2>1. /\ Top.key \in File /\ Top.unit \in Content
        /\ state' = [state EXCEPT ![Top.key] = "Done"]
        /\ units' = [units EXCEPT ![Top.key] = Top.unit]
        /\ finished' = Append(finished, Top.key) /\ graph_error' = graph_error
    BY <1>0, <1>4, TopIsFrame DEF Finish
  <2>2. FinishedKeys' = FinishedKeys \cup {Top.key}
    <3> HIDE DEF FinishedIsDone
    <3>1. /\ Len(finished') = Len(finished) + 1 /\ Len(finished) \in Nat
          /\ \A i \in 1 .. Len(finished) : finished'[i] = finished[i]
          /\ finished'[Len(finished) + 1] = Top.key
      BY <1>0, <2>1, AppendProperties, EmptySeq
    <3>2. ASSUME NEW k, k \in FinishedKeys' PROVE k \in FinishedKeys \cup {Top.key}
      BY <3>1, <3>2 DEF FinishedKeys
    <3>3. ASSUME NEW k, k \in FinishedKeys PROVE k \in FinishedKeys'
      <4>1. PICK i \in 1 .. Len(finished) : k = finished[i]
        BY <3>3 DEF FinishedKeys
      <4>2. i \in 1 .. Len(finished') /\ k = finished'[i]
        BY <3>1, <4>1
      <4> QED
        BY <4>2 DEF FinishedKeys
    <3>4. Top.key \in FinishedKeys'
      <4>1. Len(finished) + 1 \in 1 .. Len(finished')
        BY <3>1
      <4> QED
        BY <3>1, <4>1 DEF FinishedKeys
    <3> QED
      BY <3>2, <3>3, <3>4
  <2>3. FinishedKeys \subseteq File
    BY <1>0, ElementOfSeq DEF FinishedKeys
  <2> QED
    BY <1>0, <2>1, <2>2, <2>3 DEF FinishedIsDone
<1> QED
  BY <1>1, <1>2, <1>3, <1>4, QuietSteps
     DEF Next, Check, Load, Start, AlreadyLoaded, CycleDetected, MissingImport,
         Import, loaderVars

\* Each step keeps what each phase says of the stack, the call and the exit code.
LEMMA PhaseStep ==
  ASSUME TypeOK, StackIsImportChain, FinishedIsDone, PhaseFacts, [Next]_vars
  PROVE  PhaseFacts'
<1> USE DEF PhaseFacts
<1>0. /\ state \in [File -> VisitState] /\ Entry \in File /\ call \in File \cup {None}
      /\ None \notin {0, 1} /\ None \notin File
  BY GraphAssumption, LoaderAssumption DEF TypeOK
<1>1. CASE EntryMissing \/ Start
  <2>1. /\ phase = "start" /\ UNCHANGED <<stack, state>>
        /\ \/ phase' = "exit" /\ exit_code' = 1 /\ call' = call
           \/ phase' = "load" /\ exit_code' = exit_code /\ call' = Entry
    BY <1>1 DEF EntryMissing, Start, loaderVars
  <2> QED
    BY <1>0, <2>1
<1>8. CASE AlreadyLoaded \/ CycleDetected
  <2>1. /\ phase = "load" /\ phase' = "load" /\ state' = state
        /\ call # None /\ state[call] # "Unseen" /\ exit_code' = exit_code
    BY <1>8 DEF AlreadyLoaded, CycleDetected
  <2> QED
    BY <1>0, <2>1
<1>9. CASE MissingImport \/ Import
  <2>1. /\ phase = "load" /\ phase' = "load" /\ state' = state
        /\ call = None /\ exit_code' = exit_code
    BY <1>9 DEF MissingImport, Import, Importing
  <2> QED
    BY <1>0, <2>1
<1>2. CASE ParseFailed \/ Open
  <2>1. /\ call \in File /\ phase = "load" /\ phase' = "load"
        /\ exit_code' = exit_code
        /\ \/ state' = [state EXCEPT ![call] = "Done"]
           \/ state' = [state EXCEPT ![call] = "Visiting"]
    BY <1>0, <1>2 DEF ParseFailed, Open
  <2>2. state'[Entry] # "Unseen"
    BY <1>0, <2>1
  <2> QED
    BY <1>0, <2>1, <2>2
<1>3. CASE Finish
  <2>1. /\ Top.key \in File /\ phase = "load" /\ phase' = "load"
        /\ exit_code' = exit_code /\ call = None
        /\ state' = [state EXCEPT ![Top.key] = "Done"]
    BY <1>3, TopIsFrame DEF Finish, TypeOK
  <2>2. state'[Entry] # "Unseen"
    BY <1>0, <2>1
  <2> QED
    BY <1>0, <2>1, <2>2
<1>4. CASE Loaded
  <2>1. /\ phase = "load" /\ stack = <<>> /\ call = None
        /\ UNCHANGED <<stack, call, state, graph_error, finished, units>>
        /\ phase' \in {"analyse", "exit"}
        /\ phase' = "analyse" => ~graph_error /\ pending' = FinishedKeys /\ exit_code' = None
        /\ phase' = "exit" => exit_code' = 1
    BY <1>4 DEF Loaded, loaderVars
  <2>2. Keys = {}
    BY <2>1 DEF Keys
  <2>3. state[Entry] = "Done"
    BY <1>0, <2>1, <2>2 DEF StackIsImportChain, VisitState
  <2>4. FinishedKeys' = FinishedKeys
    BY <2>1 DEF FinishedKeys
  <2> QED
    BY <1>0, <2>1, <2>3, <2>4
<1>5. ASSUME NEW f \in File, Analyse(f) PROVE PhaseFacts'
  <2>1. /\ phase = "analyse" /\ phase' = "analyse" /\ exit_code' = exit_code
        /\ pending' = pending \ {f}
        /\ semantic_error' = (semantic_error \/ ~units[f].sound)
        /\ UNCHANGED <<stack, call, state, graph_error, finished, units>>
    BY <1>5 DEF Analyse, loaderVars
  <2>2. FinishedKeys' = FinishedKeys
    BY <2>1 DEF FinishedKeys
  <2> QED
    BY <1>0, <2>1, <2>2
<1>6. CASE Return
  <2>1. /\ phase = "analyse" /\ phase' = "exit" /\ pending = {}
        /\ exit_code' = (IF semantic_error THEN 1 ELSE 0)
        /\ UNCHANGED <<stack, call, state, graph_error, finished, units>>
    BY <1>6 DEF Return, loaderVars
  <2>2. FinishedKeys' = FinishedKeys
    BY <2>1 DEF FinishedKeys
  <2> QED
    BY <1>0, <2>1, <2>2
<1>7. CASE UNCHANGED vars \/ \E f \in File, c \in Content \cup {Absent} : Edit(f, c)
  <2>1. UNCHANGED <<phase, stack, call, state, graph_error, finished, units,
                    pending, semantic_error, exit_code>>
    BY <1>7 DEF vars, Edit, loaderVars
  <2>2. FinishedKeys' = FinishedKeys
    BY <2>1 DEF FinishedKeys
  <2> QED
    BY <2>1, <2>2
<1> QED
  BY <1>1, <1>2, <1>3, <1>4, <1>5, <1>6, <1>7, <1>8, <1>9 DEF Next, Check, Load

\* Without an error, each step keeps a unit after the units it imports.
LEMMA OrderStep ==
  ASSUME TypeOK, StackIsImportChain, CallIsImported, EdgesAccounted,
         FinishedIsDone, PhaseFacts, DependenciesFirst, [Next]_vars, ~graph_error'
  PROVE  DependenciesFirst'
<1>0. /\ stack \in Seq(Frame) /\ finished \in Seq(File) /\ Len(finished) \in Nat
      /\ edge \subseteq File \X File /\ state \in [File -> VisitState]
  BY EmptySeq DEF TypeOK
<1>1. ~graph_error
  BY DEF TypeOK, Next, Check, Load, EntryMissing, Start, AlreadyLoaded,
         CycleDetected, ParseFailed, Open, MissingImport, Import, Finish,
         Loaded, Analyse, Return, Edit, vars, loaderVars
<1>2. \A i \in 1 .. Len(finished) : finished[i] \in FinishedKeys
  BY DEF FinishedKeys
<1>3. CASE UNCHANGED <<finished, edge>>
  BY <1>1, <1>3 DEF DependenciesFirst
<1>4. CASE Import
  <2>1. /\ stack # <<>> /\ finished' = finished
        /\ edge' = edge \cup {<<Top.key, Dependency>>}
    BY <1>4 DEF Import, Importing
  <2>2. state[Top.key] = "Visiting"
    <3>1. Top.key \in File /\ Len(stack) \in 1 .. Len(stack)
      BY <1>0, <2>1, TopIsFrame
    <3> QED
      BY <3>1 DEF StackIsImportChain, Keys, Top
  <2>3. \A i \in 1 .. Len(finished) : finished[i] # Top.key
    BY <1>2, <2>2 DEF FinishedIsDone
  <2> QED
    BY <1>1, <2>1, <2>3 DEF DependenciesFirst
<1>5. CASE Finish
  <2> DEFINE n == Len(stack)
             m == Len(finished)
  <2>1. /\ stack # <<>> /\ call = None /\ edge' = edge
        /\ finished' = Append(finished, Top.key) /\ Top.key \in File
        /\ n \in Nat \ {0} /\ Top.key = stack[n].key
    BY <1>0, <1>5, TopIsFrame DEF Finish, Top
  <2>2. /\ Len(finished') = m + 1
        /\ \A i \in 1 .. m : finished'[i] = finished[i]
        /\ finished'[m + 1] = Top.key
    BY <1>0, <2>1, AppendProperties
  <2>3. ASSUME NEW f \in File, <<Top.key, f>> \in edge
        PROVE  \E j \in 1 .. m : finished[j] = f
    <3>1. ~ \E i \in 1 .. n - 1 : stack[i].key = Top.key
      BY <2>1 DEF StackIsImportChain
    <3>2. f # None
      BY LoaderAssumption
    <3>3. state[f] = "Done"
      BY <1>1, <2>1, <2>3, <3>1, <3>2 DEF EdgesAccounted
    <3> QED
      BY <1>1, <3>3 DEF FinishedIsDone, FinishedKeys
  <2>4. SUFFICES ASSUME NEW i \in 1 .. m + 1, NEW f \in File,
                        <<finished'[i], f>> \in edge
                 PROVE  \E j \in 1 .. i - 1 : finished'[j] = f
    BY <2>1, <2>2 DEF DependenciesFirst
  <2>5. CASE i = m + 1
    <3>1. PICK j \in 1 .. m : finished[j] = f
      BY <2>2, <2>3, <2>4, <2>5
    <3>2. finished'[j] = f /\ j \in 1 .. i - 1
      BY <1>0, <2>2, <2>5, <3>1
    <3> QED
      BY <3>2
  <2>6. CASE i \in 1 .. m
    <3>1. PICK j \in 1 .. i - 1 : finished[j] = f
      BY <1>1, <2>2, <2>4, <2>6 DEF DependenciesFirst
    <3>2. j \in 1 .. m
      BY <1>0, <2>6
    <3> QED
      BY <2>2, <3>1, <3>2
  <2> QED
    BY <1>0, <2>5, <2>6
<1> QED
  BY <1>3, <1>4, <1>5, QuietSteps
     DEF Next, Check, Load, Start, AlreadyLoaded, CycleDetected, ParseFailed,
         Open, MissingImport, loaderVars

-----------------------------------------------------------------------------
(* The theorems. *)

\* The inductive invariant holds at the start,
LEMMA LoaderInvInit ==
  ASSUME Init
  PROVE  LoaderInv
<1>1. Keys = {} /\ FinishedKeys = {}
  BY DEF Init, Keys, FinishedKeys
<1>2. \A f \in File : state[f] = "Unseen"
  BY DEF Init
<1>3. StackIsImportChain /\ CallIsImported /\ EdgesAccounted /\ DependenciesFirst
  BY <1>1, <1>2 DEF Init, StackIsImportChain, CallIsImported, EdgesAccounted,
                    DependenciesFirst
<1>4. FinishedIsDone
  BY <1>1, <1>2 DEF FinishedIsDone
<1>5. PhaseFacts
  BY LoaderAssumption DEF Init, PhaseFacts
<1> QED
  BY <1>3, <1>4, <1>5 DEF LoaderInv

\* and each step keeps it.
LEMMA LoaderInvStep ==
  ASSUME TypeOK, LoaderInv, [Next]_vars
  PROVE  LoaderInv'
<1>1. StackIsImportChain' /\ CallIsImported' /\ FinishedIsDone' /\ PhaseFacts'
  BY ChainStep, CallStep, FinishedStep, PhaseStep DEF LoaderInv
<1>2. EdgesAccounted'
  BY EdgeStep DEF LoaderInv, EdgesAccounted
<1>3. DependenciesFirst'
  BY OrderStep DEF LoaderInv, DependenciesFirst
<1> QED
  BY <1>1, <1>2, <1>3 DEF LoaderInv

\* The loader's invariants hold of every run on every set of files, whatever
\* is edited meanwhile.
THEOREM LoaderInvariant == Spec => []LoaderInv
<1>1. Init => LoaderInv
  BY LoaderInvInit
<1>2. TypeOK /\ LoaderInv /\ [Next]_vars => LoaderInv'
  BY LoaderInvStep
<1> QED
  BY <1>1, <1>2, TypeCorrect, PTL DEF Spec

\* The frames of load_module are a duplicate-free import chain.
THEOREM ChainHolds == Spec => []StackIsImportChain
<1>1. LoaderInv => StackIsImportChain
  BY DEF LoaderInv
<1> QED
  BY <1>1, LoaderInvariant, PTL

\* Units are emplaced in dependency order.
THEOREM OrderHolds == Spec => []DependenciesFirst
<1>1. LoaderInv => DependenciesFirst
  BY DEF LoaderInv
<1> QED
  BY <1>1, LoaderInvariant, PTL

\* A relation whose sources are all in a sequence, each after its targets,
\* has no cycle: in any set take the member that occurs first.
LEMMA OrderedIsAcyclic ==
  ASSUME TypeOK, ~graph_error, DependenciesFirst,
         \A e \in edge : e[1] \in FinishedKeys
  PROVE  Acyclic(edge)
<1> SUFFICES ASSUME NEW S \in SUBSET File, S # {}
             PROVE  \E a \in S : \A b \in S : <<a, b>> \notin edge
  BY DEF Acyclic
<1>0. finished \in Seq(File) /\ Len(finished) \in Nat
  BY EmptySeq DEF TypeOK
<1>1. CASE S \cap FinishedKeys = {}
  <2>1. PICK a \in S : TRUE
    OBVIOUS
  <2>2. \A b \in S : <<a, b>> \notin edge
    <3> SUFFICES ASSUME NEW b \in S, <<a, b>> \in edge PROVE FALSE
      OBVIOUS
    <3>1. <<a, b>>[1] = a
      OBVIOUS
    <3> QED
      BY <1>1, <3>1
  <2> QED
    BY <2>2
<1>2. CASE S \cap FinishedKeys # {}
  <2> DEFINE I == {i \in 1 .. Len(finished) : finished[i] \in S}
  <2>1. I # {} /\ I \subseteq Nat
    BY <1>0, <1>2 DEF FinishedKeys
  <2>2. PICK k \in I : \A i \in I : k <= i
    BY <2>1, LeastMember
  <2>3. finished[k] \in S /\ k \in 1 .. Len(finished)
    BY <2>2
  <2>4. ASSUME NEW b \in S, <<finished[k], b>> \in edge PROVE FALSE
    <3>1. PICK j \in 1 .. k - 1 : finished[j] = b
      BY <2>3, <2>4 DEF DependenciesFirst
    <3>2. j \in 1 .. Len(finished) /\ j < k
      BY <1>0, <2>3
    <3>3. j \in I
      BY <2>4, <3>1, <3>2
    <3> QED
      BY <1>0, <2>2, <2>3, <3>2, <3>3
  <2> QED
    BY <2>3, <2>4
<1> QED
  BY <1>1, <1>2

\* In a state of the invariant, exit code 0 stands for a well-formed graph.
LEMMA AcceptanceFollows ==
  ASSUME TypeOK, LoaderInv
  PROVE  AcceptedMeansWellFormed
<1> SUFFICES ASSUME exit_code = 0
             PROVE  /\ Entry \in FinishedKeys
                    /\ \A e \in edge : {e[1], e[2]} \subseteq FinishedKeys
                    /\ Acyclic(edge)
                    /\ \A f \in FinishedKeys : units[f] \in Content /\ units[f].sound
  BY DEF AcceptedMeansWellFormed
<1> USE DEF LoaderInv
<1>1. /\ phase = "exit" /\ stack = <<>> /\ call = None /\ ~graph_error
      /\ state[Entry] = "Done" /\ \A f \in FinishedKeys : units[f].sound
  BY LoaderAssumption DEF PhaseFacts, TypeOK
<1>2. Entry \in FinishedKeys /\ \A f \in FinishedKeys : units[f] \in Content
  BY <1>1, GraphAssumption DEF FinishedIsDone
<1>3. Keys = {}
  BY <1>1 DEF Keys
<1>4. \A e \in edge : e[1] \in FinishedKeys /\ e[2] \in FinishedKeys
  <2> TAKE e \in edge
  <2>1. e[1] \in File /\ e[2] \in File
    BY DEF TypeOK
  <2>2. state[e[1]] = "Done"
    <3>1. state[e[1]] # "Unseen"
      BY <1>1 DEF EdgesAccounted
    <3>2. state[e[1]] # "Visiting"
      BY <1>3, <2>1 DEF StackIsImportChain
    <3> QED
      BY <2>1, <3>1, <3>2 DEF TypeOK, VisitState
  <2>3. state[e[2]] = "Done"
    BY <1>1 DEF EdgesAccounted
  <2> QED
    BY <1>1, <2>1, <2>2, <2>3 DEF FinishedIsDone
<1>5. Acyclic(edge)
  BY <1>1, <1>4, OrderedIsAcyclic
<1> QED
  BY <1>1, <1>2, <1>4, <1>5

\* Exit code 0 is never given to a graph with a cycle, with an import that
\* was not loaded, or with a unit that analysis rejects.
THEOREM AcceptanceHolds == Spec => []AcceptedMeansWellFormed
<1>1. TypeOK /\ LoaderInv => AcceptedMeansWellFormed
  BY AcceptanceFollows
<1> QED
  BY <1>1, TypeCorrect, LoaderInvariant, PTL
=============================================================================
