---------------------------- MODULE VerdictProofs ----------------------------
(***************************************************************************)
(* The loader gives the files the verdict they deserve: when nobody edits  *)
(* them, exit code 0 means that they are, as Accepts defines it without    *)
(* any traversal, a well-formed program, and exit code 1 that they are     *)
(* not.  AcceptanceHolds is about what the loader followed; this is about  *)
(* what it should have followed, and it is the safety half of the          *)
(* refinement of CheckVerdict.  The second half of the module is about     *)
(* what the loader says of the files it refuses, the third about what a    *)
(* whole command of t81-lang guarantees, for all files, edits, kills and   *)
(* failures of the output device, given what is known of its check.        *)
(***************************************************************************)
EXTENDS Driver, ModuleLoaderProofs

AsOnDisk(f, unit) == Parsed(disk, f) /\ unit = disk[f]

\* Each import of a live frame is still to come or has been followed.
Follows(files, edges, frame) ==
  \A k \in DOMAIN frame.unit.imports :
    \/ \E m \in 1 .. Len(frame.todo) : frame.todo[m] = frame.unit.imports[k]
    \/ <<frame.key, Resolve(files, frame.key, frame.unit, frame.unit.imports[k])>> \in edges

\* Without edits, what was read is what the files hold ...
ReadFromDisk ==
  edits = 0 =>
    /\ \A i \in 1 .. Len(stack) : AsOnDisk(stack[i].key, stack[i].unit)
    /\ \A f \in FinishedKeys : AsOnDisk(f, units[f])

\* ... and, without errors, no import of it was passed over.
ImportsFollowed ==
  edits = 0 /\ ~graph_error =>
    /\ \A i \in 1 .. Len(stack) : Follows(disk, edge, stack[i])
    /\ \A f \in FinishedKeys : \A t \in Targets(disk, f) : <<f, t>> \in edge

VerdictInv == ReadFromDisk /\ ImportsFollowed

-----------------------------------------------------------------------------
(* Steps. *)

\* Taking an import off the top frame changes nothing else of the stack.
LEMMA AdvanceFrames ==
  ASSUME stack \in Seq(Frame), stack # <<>>, Top.todo # <<>>, Advance
  PROVE  /\ Len(stack') = Len(stack)
         /\ \A i \in 1 .. Len(stack) :
              /\ stack'[i].key = stack[i].key /\ stack'[i].unit = stack[i].unit
              /\ i # Len(stack) => stack'[i] = stack[i]
         /\ stack'[Len(stack)].todo = Tail(Top.todo)
<1> DEFINE n == Len(stack)
           t == [stack[n] EXCEPT !.todo = Tail(@)]
<1>1. n \in 1 .. n /\ n \in Nat
  BY TopIsFrame
<1>2. /\ t \in Frame /\ t.key = stack[n].key /\ t.unit = stack[n].unit
      /\ t.todo = Tail(Top.todo)
  <2>1. Tail(Top.todo) \in Seq(Seq(Segment))
    BY TopIsFrame, HeadTailProperties
  <2> QED
    BY <2>1, TopIsFrame DEF Top, Frame
<1>3. stack' = [stack EXCEPT ![n] = t]
  BY DEF Advance
<1> HIDE DEF t
<1> QED
  BY <1>1, <1>2, <1>3, ExceptSeq

\* A frame that has taken its first import from the list and followed it.
LEMMA FollowsOn ==
  ASSUME NEW files, NEW edges, NEW more, edges \subseteq more,
         NEW old \in Frame, NEW new \in Frame, Follows(files, edges, old),
         old.todo # <<>>, new.todo = Tail(old.todo),
         new.key = old.key, new.unit = old.unit,
         <<old.key, Resolve(files, old.key, old.unit, Head(old.todo))>> \in more
  PROVE  Follows(files, more, new)
<1>0. old.todo \in Seq(Seq(Segment))
  BY DEF Frame
<1>1. SUFFICES ASSUME NEW k \in DOMAIN old.unit.imports
      PROVE \/ \E m \in 1 .. Len(new.todo) : new.todo[m] = old.unit.imports[k]
            \/ <<old.key, Resolve(files, old.key, old.unit, old.unit.imports[k])>> \in more
  BY DEF Follows
<1>2. CASE \E m \in 1 .. Len(old.todo) : old.todo[m] = old.unit.imports[k]
  <2>1. PICK m \in 1 .. Len(old.todo) : old.todo[m] = old.unit.imports[k]
    BY <1>2
  <2>2. CASE m = 1
    <3>1. Head(old.todo) = old.unit.imports[k]
      BY <1>0, <2>1, <2>2, HeadTailProperties
    <3> QED
      BY <3>1
  <2>3. CASE m # 1
    <3>1. /\ Len(new.todo) = Len(old.todo) - 1 /\ Len(old.todo) \in Nat
          /\ \A i \in 1 .. Len(new.todo) : new.todo[i] = old.todo[i + 1]
      BY <1>0, HeadTailProperties
    <3>2. m - 1 \in 1 .. Len(new.todo) /\ new.todo[m - 1] = old.todo[m]
      BY <2>1, <2>3, <3>1
    <3> QED
      BY <2>1, <3>2
  <2> QED
    BY <2>2, <2>3
<1>3. CASE <<old.key, Resolve(files, old.key, old.unit, old.unit.imports[k])>> \in edges
  BY <1>3
<1> QED
  BY <1>2, <1>3 DEF Follows

\* The steps after which nothing the invariant looks at has changed, unless an
\* edit or an error has ended what it says.
LEMMA VerdictQuiet ==
  ASSUME TypeOK, VerdictInv,
         \/ UNCHANGED <<disk, edits, stack, units, edge, finished>>
            /\ (graph_error' = graph_error \/ graph_error')
         \/ edits' = edits + 1
  PROVE  VerdictInv'
<1>1. CASE edits' = edits + 1
  <2>1. edits' # 0
    BY <1>1, LoaderAssumption DEF TypeOK
  <2> QED
    BY <2>1 DEF VerdictInv, ReadFromDisk, ImportsFollowed
<1>2. CASE /\ UNCHANGED <<disk, edits, stack, units, edge, finished>>
           /\ (graph_error' = graph_error \/ graph_error')
  <2>1. FinishedKeys' = FinishedKeys
    BY <1>2 DEF FinishedKeys
  <2>2. ReadFromDisk'
    BY <1>2, <2>1 DEF VerdictInv, ReadFromDisk, AsOnDisk, Parsed, Exists
  <2>3. ASSUME edits = 0, ~graph_error PROVE ImportsFollowed'
    BY <1>2, <2>1, <2>3 DEF VerdictInv, ImportsFollowed
  <2>4. CASE edits # 0 \/ graph_error
    BY <1>2, <2>2, <2>4 DEF VerdictInv, ImportsFollowed
  <2> QED
    BY <2>2, <2>3, <2>4 DEF VerdictInv, TypeOK
<1> QED
  BY <1>1, <1>2

\* The frame that Open pushes holds what is on disk, with all imports to come.
LEMMA VerdictOpen ==
  ASSUME TypeOK, VerdictInv, Open
  PROVE  VerdictInv'
<1> DEFINE n  == Len(stack)
           fr == [key |-> call, unit |-> disk[call], todo |-> disk[call].imports]
<1>0. stack \in Seq(Frame) /\ n \in Nat
  BY EmptySeq DEF TypeOK
<1>1. /\ call \in File /\ disk[call] \in Content /\ Parsed(disk, call)
      /\ UNCHANGED <<disk, edits, units, edge, finished, graph_error>>
  BY DEF Open, Parsed, Exists, TypeOK, Disk
<1>2. fr \in Frame
  BY <1>1, UnitFields DEF Frame
<1>3. /\ fr.key = call /\ fr.unit = disk[call] /\ fr.todo = fr.unit.imports
      /\ fr.todo \in Seq(Seq(Segment))
  BY <1>1, UnitFields
<1> HIDE DEF fr
<1>4. /\ Len(stack') = n + 1 /\ stack'[n + 1] = fr
      /\ \A i \in 1 .. n : stack'[i] = stack[i]
  BY <1>0, <1>2, PushShape DEF Open, fr
<1>9. AsOnDisk(fr.key, fr.unit) /\ Follows(disk, edge, fr)
  <2>1. DOMAIN fr.unit.imports = 1 .. Len(fr.todo)
    BY <1>3
  <2>2. Follows(disk, edge, fr)
    BY <1>3, <2>1 DEF Follows
  <2> QED
    BY <1>1, <1>3, <2>2 DEF AsOnDisk
<1>5. FinishedKeys' = FinishedKeys
  BY <1>1 DEF FinishedKeys
<1>6. ReadFromDisk'
  BY <1>0, <1>1, <1>4, <1>5, <1>9 DEF VerdictInv, ReadFromDisk, AsOnDisk, Parsed, Exists
<1>7. ASSUME edits = 0, ~graph_error PROVE ImportsFollowed'
  <2>1. \A i \in 1 .. n + 1 : Follows(disk, edge, stack'[i])
    BY <1>0, <1>4, <1>7, <1>9 DEF VerdictInv, ImportsFollowed
  <2> QED
    BY <1>1, <1>4, <1>5, <1>7, <2>1 DEF VerdictInv, ImportsFollowed
<1>8. ASSUME edits # 0 \/ graph_error PROVE ImportsFollowed'
  <2>1. edits' # 0 \/ graph_error'
    BY <1>1, <1>8
  <2> QED
    BY <2>1 DEF ImportsFollowed
<1> QED
  BY <1>6, <1>7, <1>8 DEF VerdictInv, TypeOK

\* Import follows the import that it takes off the top frame.
LEMMA VerdictImport ==
  ASSUME TypeOK, VerdictInv, Import
  PROVE  VerdictInv'
<1> DEFINE n == Len(stack)
<1>0. stack \in Seq(Frame) /\ n \in 1 .. n /\ n \in Nat
  BY TopIsFrame DEF TypeOK, Import, Importing
<1>1. /\ stack # <<>> /\ Top.todo # <<>> /\ Advance
      /\ UNCHANGED <<disk, edits, units, finished, graph_error>>
      /\ edge' = edge \cup {<<Top.key, Dependency>>}
  BY DEF Import, Importing
<1>2. /\ Len(stack') = n /\ stack' \in Seq(Frame)
      /\ \A i \in 1 .. n : /\ stack'[i].key = stack[i].key
                           /\ stack'[i].unit = stack[i].unit
                           /\ i # n => stack'[i] = stack[i]
      /\ stack'[n].todo = Tail(Top.todo)
  BY <1>0, <1>1, AdvanceFrames, AdvanceShape
<1>3. FinishedKeys' = FinishedKeys
  BY <1>1 DEF FinishedKeys
<1>4. ReadFromDisk'
  BY <1>1, <1>2, <1>3 DEF VerdictInv, ReadFromDisk, AsOnDisk, Parsed, Exists
<1>5. ASSUME edits = 0, ~graph_error PROVE ImportsFollowed'
  <2>1. \A i \in 1 .. n : Follows(disk, edge, stack[i])
    BY <1>5 DEF VerdictInv, ImportsFollowed
  <2> DEFINE old == stack[n]
             new == stack'[n]
  <2>2. Follows(disk, edge', new)
    <3>1. old \in Frame /\ new \in Frame
      BY <1>0, <1>2, ElementOfSeq
    <3>2. <<old.key, Resolve(disk, old.key, old.unit, Head(old.todo))>> \in edge'
      BY <1>1 DEF Dependency, Top
    <3>3. edge \subseteq edge' /\ Follows(disk, edge, old)
      BY <1>0, <1>1, <2>1
    <3>4. /\ old.todo # <<>> /\ new.key = old.key /\ new.unit = old.unit
          /\ new.todo = Tail(old.todo)
      BY <1>0, <1>1, <1>2 DEF Top
    <3> HIDE DEF old, new
    <3> QED
      BY <3>1, <3>2, <3>3, <3>4, FollowsOn
  <2>3. ASSUME NEW i \in 1 .. n, i # n PROVE Follows(disk, edge', stack'[i])
    BY <1>1, <1>2, <2>1, <2>3 DEF Follows
  <2> QED
    BY <1>1, <1>2, <1>3, <1>5, <2>2, <2>3 DEF VerdictInv, ImportsFollowed
<1>6. ASSUME edits # 0 \/ graph_error PROVE ImportsFollowed'
  <2>1. edits' # 0 \/ graph_error'
    BY <1>1, <1>6
  <2> QED
    BY <2>1 DEF ImportsFollowed
<1> QED
  BY <1>4, <1>5, <1>6 DEF VerdictInv, TypeOK

\* Finish emplaces a unit as it is on disk, with its imports followed.
LEMMA VerdictFinish ==
  ASSUME TypeOK, VerdictInv, Finish
  PROVE  VerdictInv'
<1> DEFINE n   == Len(stack)
           key == Top.key
<1>0. stack \in Seq(Frame) /\ n \in Nat \ {0} /\ n \in 1 .. n /\ key \in File
  BY TopIsFrame DEF TypeOK, Finish
<1>1. /\ UNCHANGED <<disk, edits, edge, graph_error>> /\ Top.todo = <<>>
      /\ units' = [units EXCEPT ![key] = Top.unit]
      /\ finished' = Append(finished, key) /\ finished \in Seq(File)
      /\ units \in [File -> Content \cup {Absent}]
  BY DEF Finish, TypeOK, Disk
<1>2. /\ Len(stack') = n - 1
      /\ \A i \in 1 .. n - 1 : stack'[i] = stack[i]
  BY <1>0, PopShape DEF Finish
<1>3. FinishedKeys' = FinishedKeys \cup {key} /\ FinishedKeys \subseteq File
  <2>1. /\ Len(finished') = Len(finished) + 1 /\ Len(finished) \in Nat
        /\ \A i \in 1 .. Len(finished) : finished'[i] = finished[i]
        /\ finished'[Len(finished) + 1] = key
    BY <1>1, AppendProperties, EmptySeq
  <2>2. \A k \in FinishedKeys' : k \in FinishedKeys \cup {key}
    BY <2>1 DEF FinishedKeys
  <2>3. \A k \in FinishedKeys : k \in FinishedKeys'
    <3> TAKE k \in FinishedKeys
    <3>1. PICK i \in 1 .. Len(finished) : k = finished[i]
      BY DEF FinishedKeys
    <3>2. i \in 1 .. Len(finished') /\ k = finished'[i]
      BY <2>1, <3>1
    <3> QED
      BY <3>2 DEF FinishedKeys
  <2>4. key \in FinishedKeys'
    <3>1. Len(finished) + 1 \in 1 .. Len(finished')
      BY <2>1
    <3> QED
      BY <2>1, <3>1 DEF FinishedKeys
  <2>5. FinishedKeys \subseteq File
    BY <1>1, ElementOfSeq DEF FinishedKeys
  <2> QED
    BY <2>2, <2>3, <2>4, <2>5
<1> HIDE DEF key
<1>4. ASSUME edits = 0 PROVE ReadFromDisk'
  <2>1. /\ \A i \in 1 .. n : AsOnDisk(stack[i].key, stack[i].unit)
        /\ \A f \in FinishedKeys : AsOnDisk(f, units[f])
    BY <1>4 DEF VerdictInv, ReadFromDisk
  <2>2. AsOnDisk(key, Top.unit)
    BY <1>0, <2>1 DEF Top, key
  <2>3. \A f \in FinishedKeys' : AsOnDisk(f, units'[f])
    BY <1>0, <1>1, <1>3, <2>1, <2>2 DEF AsOnDisk
  <2>4. \A i \in 1 .. n - 1 : AsOnDisk(stack'[i].key, stack'[i].unit)
    BY <1>0, <1>2, <2>1
  <2> QED
    BY <1>1, <1>2, <2>3, <2>4 DEF ReadFromDisk, AsOnDisk, Parsed, Exists
<1>5. ASSUME edits = 0, ~graph_error PROVE ImportsFollowed'
  <2>1. \A i \in 1 .. n : Follows(disk, edge, stack[i])
    BY <1>5 DEF VerdictInv, ImportsFollowed
  <2>2. Follows(disk, edge, Top) /\ AsOnDisk(key, Top.unit)
    BY <1>0, <1>5, <2>1 DEF Top, key, VerdictInv, ReadFromDisk
  <2>3. \A t \in Targets(disk, key) : <<key, t>> \in edge
    <3>1. Len(Top.todo) = 0
      BY <1>1, EmptySeq
    <3>2. Top.key = key /\ Top.unit = disk[key]
      BY <2>2 DEF AsOnDisk, key
    <3>3. \A k \in DOMAIN disk[key].imports :
            <<key, Resolve(disk, key, disk[key], disk[key].imports[k])>> \in edge
      BY <2>2, <3>1, <3>2 DEF Follows
    <3> QED
      BY <3>3 DEF Targets
  <2>4. \A f \in FinishedKeys' : \A t \in Targets(disk, f) : <<f, t>> \in edge
    BY <1>3, <1>5, <2>3 DEF VerdictInv, ImportsFollowed
  <2>5. \A i \in 1 .. n - 1 : Follows(disk, edge, stack'[i])
    BY <1>0, <1>2, <2>1
  <2> QED
    BY <1>1, <1>2, <2>4, <2>5 DEF ImportsFollowed
<1>6. ASSUME edits # 0 PROVE VerdictInv'
  BY <1>1, <1>6 DEF VerdictInv, ReadFromDisk, ImportsFollowed
<1>7. ASSUME edits = 0, graph_error PROVE ImportsFollowed'
  BY <1>1, <1>7 DEF ImportsFollowed
<1> QED
  BY <1>4, <1>5, <1>6, <1>7 DEF VerdictInv, TypeOK

\* MissingImport passes an import over, but sets the error flag.
LEMMA VerdictMissing ==
  ASSUME TypeOK, VerdictInv, MissingImport
  PROVE  VerdictInv'
<1>1. /\ UNCHANGED <<disk, edits, units, finished>> /\ graph_error' = TRUE
      /\ stack \in Seq(Frame) /\ stack # <<>> /\ Top.todo # <<>> /\ Advance
  BY DEF MissingImport, Importing, TypeOK
<1>2. /\ Len(stack') = Len(stack)
      /\ \A i \in 1 .. Len(stack) : stack'[i].key = stack[i].key
                                   /\ stack'[i].unit = stack[i].unit
  BY <1>1, AdvanceFrames
<1>3. FinishedKeys' = FinishedKeys
  BY <1>1 DEF FinishedKeys
<1> QED
  BY <1>1, <1>2, <1>3
     DEF VerdictInv, ReadFromDisk, ImportsFollowed, AsOnDisk, Parsed, Exists

\* Each step keeps what was read as it is on disk, and its imports followed.
LEMMA VerdictInvStep ==
  ASSUME TypeOK, VerdictInv, [Next]_vars
  PROVE  VerdictInv'
<1>1. ASSUME NEW f \in File, Analyse(f) PROVE VerdictInv'
  BY <1>1, VerdictQuiet DEF Analyse, loaderVars
<1>2. ASSUME NEW f \in File, NEW c \in Content \cup {Absent}, Edit(f, c)
      PROVE  VerdictInv'
  BY <1>2, VerdictQuiet DEF Edit
<1>3. CASE EntryMissing \/ Start \/ AlreadyLoaded \/ CycleDetected \/ ParseFailed
           \/ Loaded \/ Return \/ UNCHANGED vars
  BY <1>3, VerdictQuiet DEF EntryMissing, Start, AlreadyLoaded, CycleDetected,
     ParseFailed, Loaded, Return, vars, loaderVars
<1> QED
  BY <1>1, <1>2, <1>3, VerdictOpen, VerdictMissing, VerdictImport, VerdictFinish
     DEF Next, Check, Load

\* Nothing has been read at the start.
LEMMA VerdictInvInit ==
  ASSUME Init
  PROVE  VerdictInv
  BY DEF Init, VerdictInv, ReadFromDisk, ImportsFollowed, FinishedKeys

\* Without edits, what was loaded is what the files hold, and no import of it
\* was passed over.
THEOREM VerdictInvariant == Spec => []VerdictInv
<1>1. Init => VerdictInv
  BY VerdictInvInit
<1>2. TypeOK /\ VerdictInv /\ [Next]_vars => VerdictInv'
  BY VerdictInvStep
<1> QED
  BY <1>1, <1>2, TypeCorrect, PTL DEF Spec
\* Exit code 0, without edits, is deserved.
LEMMA AcceptedIsDeserved ==
  ASSUME TypeOK, VerdictInv, AcceptedMeansWellFormed, LoaderInv,
         edits = 0, exit_code = 0
  PROVE  Accepts(disk)
<1>1. /\ \A f \in FinishedKeys : AsOnDisk(f, units[f]) /\ units[f].sound
      /\ \A e \in edge : {e[1], e[2]} \subseteq FinishedKeys
      /\ Acyclic(edge) /\ Entry \in FinishedKeys
  BY DEF AcceptedMeansWellFormed, VerdictInv, ReadFromDisk
<1>2. \A f \in FinishedKeys : \A t \in Targets(disk, f) : <<f, t>> \in edge
  BY DEF LoaderInv, PhaseFacts, VerdictInv, ImportsFollowed
<1>3. FinishedKeys \in SUBSET File
  BY ElementOfSeq DEF FinishedKeys, TypeOK
<1>4. \A f \in FinishedKeys : \A t \in Targets(disk, f) : t \in FinishedKeys
  <2> TAKE f \in FinishedKeys
  <2> TAKE t \in Targets(disk, f)
  <2>1. <<f, t>> \in edge /\ <<f, t>>[2] = t
    BY <1>2
  <2> QED
    BY <1>1, <2>1
<1>5. Reachable(disk) \subseteq FinishedKeys
  BY <1>1, <1>3, <1>4 DEF Reachable, Closed
<1>6. \A f \in Reachable(disk) :
        Parsed(disk, f) /\ disk[f].sound /\ \A t \in Targets(disk, f) : Exists(disk, t)
  BY <1>1, <1>4, <1>5 DEF AsOnDisk, Parsed
<1>7. Acyclic(ImportEdges(disk))
  <2>1. \A a, b \in File : <<a, b>> \in ImportEdges(disk) => <<a, b>> \in edge
    BY <1>2, <1>5 DEF ImportEdges
  <2> QED
    BY <1>1, <2>1 DEF Acyclic
<1> QED
  BY <1>6, <1>7 DEF Accepts, WellFormedGraph

-----------------------------------------------------------------------------
(* Exit code 1 is deserved. *)

\* The entry is reachable, and so is all that a reachable file imports.
LEMMA EntryIsReachable ==
  ASSUME NEW files
  PROVE  Entry \in Reachable(files)
  BY GraphAssumption DEF Reachable

\* The target of an import of a reachable file is reachable.
LEMMA TargetIsReachable ==
  ASSUME NEW files, NEW f \in Reachable(files), NEW t \in Targets(files, f), t \in File
  PROVE  t \in Reachable(files)
  BY DEF Reachable, Closed

\* What is visited is reachable, and what is to be imported is imported ...
VisitsAreReachable ==
  edits = 0 =>
    /\ call # None => call \in Reachable(disk)
    /\ \A i \in 1 .. Len(stack) : stack[i].key \in Reachable(disk)
    /\ FinishedKeys \subseteq Reachable(disk)
    /\ pending \subseteq FinishedKeys
    /\ \A i \in 1 .. Len(stack) : \A m \in 1 .. Len(stack[i].todo) :
         \E k \in DOMAIN stack[i].unit.imports :
           stack[i].todo[m] = stack[i].unit.imports[k]
    /\ edge \subseteq ImportEdges(disk)

\* ... and each error is one of the files.
ErrorsAreReal ==
  edits = 0 =>
    /\ graph_error => ~WellFormedGraph(disk)
    /\ semantic_error => \E f \in Reachable(disk) : ~disk[f].sound
    /\ exit_code = 1 => ~Accepts(disk)

\* The target of the next import is a target of its file.
LEMMA DependencyIsTarget ==
  ASSUME TypeOK, VerdictInv, VisitsAreReachable, edits = 0, Importing
  PROVE  /\ Dependency \in Targets(disk, Top.key)
         /\ Top.key \in Reachable(disk) /\ Top.key \in File
<1> DEFINE n == Len(stack)
<1>1. /\ n \in 1 .. n /\ stack[n] = Top /\ Top.key \in File
      /\ Top.todo \in Seq(Seq(Segment)) /\ Top.todo # <<>>
  BY TopIsFrame DEF TypeOK, Importing, Top
<1>2. 1 \in 1 .. Len(Top.todo) /\ Head(Top.todo) = Top.todo[1]
  BY <1>1, HeadTailProperties, EmptySeq
<1>3. PICK k \in DOMAIN Top.unit.imports : Head(Top.todo) = Top.unit.imports[k]
  BY <1>1, <1>2 DEF VisitsAreReachable
<1>4. AsOnDisk(Top.key, Top.unit)
  BY <1>1 DEF VerdictInv, ReadFromDisk
<1> QED
  BY <1>1, <1>3, <1>4 DEF Targets, Dependency, AsOnDisk, VisitsAreReachable

\* Each step keeps visited, emplaced and called keys reachable.
LEMMA VisitsStep ==
  ASSUME TypeOK, LoaderInv, VerdictInv, VisitsAreReachable, [Next]_vars
  PROVE  VisitsAreReachable'
<1>0. /\ stack \in Seq(Frame) /\ edits \in Nat /\ Entry \in Reachable(disk)
      /\ Len(stack) \in Nat /\ call \in File \cup {None}
  BY EntryIsReachable, LoaderAssumption, EmptySeq DEF TypeOK
<1>1. CASE edits # 0 \/ \E f \in File, c \in Content \cup {Absent} : Edit(f, c)
  <2>1. /\ edits' = edits \/ edits' = edits + 1
        /\ (\E f \in File, c \in Content \cup {Absent} : Edit(f, c)) => edits' = edits + 1
    BY DEF Next, Check, Load, EntryMissing, Start, AlreadyLoaded,
       CycleDetected, ParseFailed, Open, MissingImport, Import, Finish, Loaded,
       Analyse, Return, Edit, vars
  <2>2. edits' # 0
    BY <1>0, <1>1, <2>1
  <2> QED
    BY <2>2 DEF VisitsAreReachable
<1> SUFFICES ASSUME edits = 0,
                    ~ \E f \in File, c \in Content \cup {Absent} : Edit(f, c)
             PROVE  VisitsAreReachable'
  BY <1>1
<1>2. CASE /\ UNCHANGED <<disk, edits, stack, edge, finished>>
           /\ call' \in {call, None, Entry}
           /\ pending' \subseteq pending \/ pending' = FinishedKeys
  <2>1. FinishedKeys' = FinishedKeys
    BY <1>2 DEF FinishedKeys
  <2> QED
    BY <1>0, <1>2, <2>1 DEF VisitsAreReachable
<1>3. CASE EntryMissing \/ Start \/ AlreadyLoaded \/ CycleDetected \/ ParseFailed
           \/ Loaded \/ Return \/ UNCHANGED vars \/ \E f \in File : Analyse(f)
  <2>1. /\ UNCHANGED <<disk, edits, stack, edge, finished>>
        /\ call' \in {call, None, Entry}
        /\ pending' \subseteq pending \/ pending' = FinishedKeys
    BY <1>3 DEF EntryMissing, Start, AlreadyLoaded, CycleDetected, ParseFailed,
       Loaded, Return, Analyse, vars, loaderVars
  <2> QED
    BY <1>2, <2>1
<1>4. CASE Open
  <2> DEFINE n  == Len(stack)
             fr == [key |-> call, unit |-> disk[call], todo |-> disk[call].imports]
  <2>1. /\ UNCHANGED <<disk, edits, edge, finished, pending>> /\ call' = None
        /\ call \in File /\ disk[call] \in Content /\ call # None
    BY <1>4 DEF Open, Parsed, Exists, TypeOK, Disk
  <2>2. /\ fr \in Frame /\ fr.key = call /\ fr.todo = fr.unit.imports
        /\ fr.todo \in Seq(Seq(Segment))
    BY <2>1, UnitFields DEF Frame
  <2> HIDE DEF fr
  <2>3. /\ Len(stack') = n + 1 /\ stack'[n + 1] = fr
        /\ \A i \in 1 .. n : stack'[i] = stack[i]
    BY <1>0, <1>4, <2>2, PushShape DEF Open, fr
  <2>4. FinishedKeys' = FinishedKeys
    BY <2>1 DEF FinishedKeys
  <2>5. \A m \in 1 .. Len(fr.todo) : \E k \in DOMAIN fr.unit.imports :
          fr.todo[m] = fr.unit.imports[k]
    BY <2>2
  <2>6. \A i \in 1 .. n + 1 :
          /\ stack'[i].key \in Reachable(disk)
          /\ \A m \in 1 .. Len(stack'[i].todo) : \E k \in DOMAIN stack'[i].unit.imports :
               stack'[i].todo[m] = stack'[i].unit.imports[k]
    <3> TAKE i \in 1 .. n + 1
    <3>1. CASE i = n + 1
      BY <2>1, <2>2, <2>3, <2>5, <3>1 DEF VisitsAreReachable
    <3>2. CASE i \in 1 .. n
      BY <2>3, <3>2 DEF VisitsAreReachable
    <3> QED
      BY <1>0, <3>1, <3>2
  <2> QED
    BY <2>1, <2>3, <2>4, <2>6 DEF VisitsAreReachable
<1>5. CASE MissingImport \/ Import
  <2> DEFINE n == Len(stack)
  <2>1. /\ Importing /\ Advance /\ stack # <<>> /\ Top.todo # <<>>
        /\ UNCHANGED <<disk, edits, finished, pending>> /\ call = None
        /\ \/ call' = None /\ edge' = edge
           \/ /\ call' = Dependency /\ Dependency \in File
              /\ edge' = edge \cup {<<Top.key, Dependency>>}
    BY <1>5 DEF MissingImport, Import, Importing, Exists
  <2>2. /\ Len(stack') = n /\ n \in 1 .. n
        /\ \A i \in 1 .. n : /\ stack'[i].key = stack[i].key
                             /\ stack'[i].unit = stack[i].unit
                             /\ i # n => stack'[i] = stack[i]
        /\ stack'[n].todo = Tail(Top.todo) /\ Top = stack[n]
    BY <1>0, <2>1, AdvanceFrames, TopIsFrame DEF Top
  <2>3. FinishedKeys' = FinishedKeys
    BY <2>1 DEF FinishedKeys
  <2>4. /\ Dependency \in Targets(disk, Top.key)
        /\ Top.key \in Reachable(disk) /\ Top.key \in File
    BY <2>1, DependencyIsTarget
  <2>5. Dependency \in File => Dependency \in Reachable(disk)
    BY <2>4, TargetIsReachable
  <2>6. edge' \subseteq ImportEdges(disk)
    BY <2>1, <2>4 DEF ImportEdges, VisitsAreReachable
  <2>7. \A m \in 1 .. Len(Tail(Top.todo)) : \E k \in DOMAIN Top.unit.imports :
          Tail(Top.todo)[m] = Top.unit.imports[k]
    <3>1. /\ Top.todo \in Seq(Seq(Segment)) /\ Len(Top.todo) \in Nat
          /\ Len(Tail(Top.todo)) = Len(Top.todo) - 1
          /\ \A m \in 1 .. Len(Tail(Top.todo)) : Tail(Top.todo)[m] = Top.todo[m + 1]
      BY <1>0, <2>1, TopIsFrame, HeadTailProperties
    <3> TAKE m \in 1 .. Len(Tail(Top.todo))
    <3>2. m + 1 \in 1 .. Len(Top.todo)
      BY <3>1
    <3> QED
      BY <2>2, <3>1, <3>2 DEF VisitsAreReachable
  <2>8. \A i \in 1 .. n :
          /\ stack'[i].key \in Reachable(disk)
          /\ \A m \in 1 .. Len(stack'[i].todo) : \E k \in DOMAIN stack'[i].unit.imports :
               stack'[i].todo[m] = stack'[i].unit.imports[k]
    <3> TAKE i \in 1 .. n
    <3>1. stack'[i].key \in Reachable(disk)
      BY <2>2 DEF VisitsAreReachable
    <3>2. CASE i = n
      <4>1. stack'[i].todo = Tail(Top.todo) /\ stack'[i].unit = Top.unit
        BY <2>2, <3>2
      <4> QED
        BY <2>7, <3>1, <4>1
    <3>3. CASE i # n
      <4>1. stack'[i] = stack[i]
        BY <2>2, <3>3
      <4> QED
        BY <4>1 DEF VisitsAreReachable
    <3> QED
      BY <3>2, <3>3
  <2> QED
    BY <2>1, <2>2, <2>3, <2>5, <2>6, <2>8 DEF VisitsAreReachable
<1>6. CASE Finish
  <2> DEFINE n == Len(stack)
  <2>1. /\ UNCHANGED <<disk, edits, call, edge, pending>> /\ n \in 1 .. n
        /\ finished' = Append(finished, Top.key) /\ finished \in Seq(File)
        /\ Len(stack') = n - 1 /\ \A i \in 1 .. n - 1 : stack'[i] = stack[i]
        /\ Top.key \in File /\ Top = stack[n]
    BY <1>0, <1>6, PopShape, TopIsFrame DEF Finish, TypeOK, Top
  <2>2. FinishedKeys' = FinishedKeys \cup {Top.key}
    <3>1. /\ Len(finished') = Len(finished) + 1 /\ Len(finished) \in Nat
          /\ \A i \in 1 .. Len(finished) : finished'[i] = finished[i]
          /\ finished'[Len(finished) + 1] = Top.key
      BY <2>1, AppendProperties, EmptySeq
    <3>2. \A k \in FinishedKeys' : k \in FinishedKeys \cup {Top.key}
      BY <3>1 DEF FinishedKeys
    <3>3. \A i \in 1 .. Len(finished) : i \in 1 .. Len(finished')
      BY <3>1
    <3>4. \A k \in FinishedKeys \cup {Top.key} : k \in FinishedKeys'
      BY <3>1, <3>3 DEF FinishedKeys
    <3> QED
      BY <3>2, <3>4
  <2>3. \A i \in 1 .. n - 1 : i \in 1 .. n
    BY <1>0
  <2>4. \A i \in 1 .. n - 1 :
          /\ stack'[i].key \in Reachable(disk)
          /\ \A m \in 1 .. Len(stack'[i].todo) : \E k \in DOMAIN stack'[i].unit.imports :
               stack'[i].todo[m] = stack'[i].unit.imports[k]
    <3> TAKE i \in 1 .. n - 1
    <3>1. stack'[i] = stack[i] /\ i \in 1 .. n
      BY <2>1, <2>3
    <3> QED
      BY <3>1 DEF VisitsAreReachable
  <2>5. FinishedKeys' \subseteq Reachable(disk)
    BY <2>1, <2>2 DEF VisitsAreReachable
  <2> QED
    BY <2>1, <2>2, <2>4, <2>5 DEF VisitsAreReachable
<1> QED
  BY <1>3, <1>4, <1>5, <1>6 DEF Next, Check, Load

\* A pending call on a live key closes a cycle of the files.
LEMMA CycleIsReal ==
  ASSUME TypeOK, LoaderInv, VisitsAreReachable, edits = 0, CycleDetected
  PROVE  ~Acyclic(ImportEdges(disk))
<1> DEFINE n == Len(stack)
           E == ImportEdges(disk)
<1>0. stack \in Seq(Frame) /\ n \in Nat /\ call \in File /\ call # None
  BY EmptySeq DEF TypeOK, CycleDetected
<1>1. PICK j \in 1 .. n : stack[j].key = call
  BY <1>0 DEF CycleDetected, LoaderInv, StackIsImportChain, Keys
<1>2. stack # <<>> /\ <<stack[n].key, stack[j].key>> \in E
  BY <1>0, <1>1, EmptySeq DEF LoaderInv, CallIsImported, Top, VisitsAreReachable
<1>3. \A i \in 1 .. n - 1 : <<stack[i].key, stack[i+1].key>> \in E
  BY DEF LoaderInv, StackIsImportChain, VisitsAreReachable
<1>4. \A i \in 1 .. n : stack[i].key \in File
  <2>1. \A i \in 1 .. n : stack[i] \in Frame
    BY <1>0, ElementOfSeq
  <2> QED
    BY <2>1 DEF Frame
<1> DEFINE S == {stack[i].key : i \in j .. n}
<1>5. S # {} /\ S \in SUBSET File
  BY <1>0, <1>1, <1>4
<1>6. ASSUME NEW a \in S PROVE \E b \in S : <<a, b>> \in E
  <2> HIDE DEF E
  <2>1. PICK i \in j .. n : a = stack[i].key
    OBVIOUS
  <2>2. CASE i = n
    <3>1. stack[j].key \in S
      BY <1>0, <1>1
    <3> QED
      BY <1>2, <2>1, <2>2, <3>1
  <2>3. CASE i # n
    <3>1. i \in 1 .. n - 1 /\ i + 1 \in j .. n
      BY <1>0, <1>1, <2>1, <2>3
    <3>2. stack[i+1].key \in S
      BY <3>1
    <3> QED
      BY <1>3, <2>1, <3>1, <3>2
  <2> QED
    BY <2>2, <2>3
<1> HIDE DEF S
<1> QED
  BY <1>5, <1>6 DEF Acyclic

\* A step that sets the error flag has met a defect of the files.
LEMMA ErrorsStep ==
  ASSUME TypeOK, LoaderInv, VerdictInv, VisitsAreReachable, ErrorsAreReal, [Next]_vars
  PROVE  ErrorsAreReal'
<1>0. edits \in Nat /\ Entry \in Reachable(disk) /\ call \in File \cup {None}
  BY EntryIsReachable, LoaderAssumption DEF TypeOK
<1>1. CASE edits # 0 \/ \E f \in File, c \in Content \cup {Absent} : Edit(f, c)
  <2>1. /\ edits' = edits \/ edits' = edits + 1
        /\ (\E f \in File, c \in Content \cup {Absent} : Edit(f, c)) => edits' = edits + 1
    BY DEF Next, Check, Load, EntryMissing, Start, AlreadyLoaded,
       CycleDetected, ParseFailed, Open, MissingImport, Import, Finish, Loaded,
       Analyse, Return, Edit, vars
  <2>2. edits' # 0
    BY <1>0, <1>1, <2>1
  <2> QED
    BY <2>2 DEF ErrorsAreReal
<1> SUFFICES ASSUME edits = 0,
                    ~ \E f \in File, c \in Content \cup {Absent} : Edit(f, c)
             PROVE  ErrorsAreReal'
  BY <1>1
<1>2. CASE UNCHANGED <<disk, edits, graph_error, semantic_error, exit_code>>
  BY <1>2 DEF ErrorsAreReal
<1>3. CASE EntryMissing
  <2>1. /\ UNCHANGED <<disk, graph_error, semantic_error>>
        /\ exit_code' = 1 /\ ~Parsed(disk, Entry)
    BY <1>3 DEF EntryMissing, loaderVars, Parsed
  <2>2. ~Accepts(disk)
    BY <1>0, <2>1 DEF Accepts, WellFormedGraph
  <2> QED
    BY <2>1, <2>2 DEF ErrorsAreReal
<1>4. CASE CycleDetected \/ ParseFailed \/ MissingImport
  <2>1. UNCHANGED <<disk, semantic_error, exit_code>>
    BY <1>4 DEF CycleDetected, ParseFailed, MissingImport
  <2>2. ~WellFormedGraph(disk)
    <3>1. CASE CycleDetected
      BY <3>1, CycleIsReal DEF WellFormedGraph
    <3>2. CASE ParseFailed
      BY <3>2 DEF ParseFailed, VisitsAreReachable, WellFormedGraph
    <3>3. CASE MissingImport
      BY <3>3, DependencyIsTarget DEF MissingImport, WellFormedGraph
    <3> QED
      BY <1>4, <3>1, <3>2, <3>3
  <2> QED
    BY <2>1, <2>2 DEF ErrorsAreReal
<1>5. CASE Loaded
  <2>1. /\ UNCHANGED <<disk, graph_error, semantic_error>>
        /\ exit_code' = 1 => graph_error
    BY <1>5, LoaderAssumption DEF Loaded, loaderVars
  <2> QED
    BY <2>1 DEF ErrorsAreReal, Accepts
<1>6. ASSUME NEW f \in File, Analyse(f) PROVE ErrorsAreReal'
  <2>1. /\ UNCHANGED <<disk, graph_error, exit_code>> /\ f \in FinishedKeys
        /\ semantic_error' = (semantic_error \/ ~units[f].sound)
    BY <1>6 DEF Analyse, loaderVars, VisitsAreReachable
  <2>2. f \in Reachable(disk) /\ units[f] = disk[f]
    BY <2>1 DEF VisitsAreReachable, VerdictInv, ReadFromDisk, AsOnDisk
  <2> QED
    BY <2>1, <2>2 DEF ErrorsAreReal
<1>7. CASE Return
  <2>1. /\ UNCHANGED <<disk, graph_error, semantic_error>>
        /\ exit_code' = 1 => semantic_error
    BY <1>7 DEF Return, loaderVars
  <2> QED
    BY <2>1 DEF ErrorsAreReal, Accepts
<1> QED
  BY <1>2, <1>3, <1>4, <1>5, <1>6, <1>7
     DEF Next, Check, Load, Start, AlreadyLoaded, Open, Import, Finish, vars

-----------------------------------------------------------------------------
(* The theorems. *)

\* Every error of an undisturbed check is an error of the files.
THEOREM ErrorsInvariant == Spec => [](VisitsAreReachable /\ ErrorsAreReal)
<1>1. Init => VisitsAreReachable /\ ErrorsAreReal
  <2> SUFFICES ASSUME Init PROVE VisitsAreReachable /\ ErrorsAreReal
    OBVIOUS
  <2>1. /\ call = None /\ Len(stack) = 0 /\ FinishedKeys = {} /\ pending = {}
        /\ edge = {} /\ ~graph_error /\ ~semantic_error /\ exit_code # 1
    BY LoaderAssumption DEF Init, FinishedKeys
  <2> QED
    BY <2>1 DEF VisitsAreReachable, ErrorsAreReal
<1>2. TypeOK /\ LoaderInv /\ VerdictInv /\ VisitsAreReachable /\ ErrorsAreReal /\ [Next]_vars
        => (VisitsAreReachable /\ ErrorsAreReal)'
  BY VisitsStep, ErrorsStep
<1> QED
  BY <1>1, <1>2, TypeCorrect, LoaderInvariant, VerdictInvariant, PTL DEF Spec

\* The exit code of a check that no edit disturbs.
Deserved == edits = 0 /\ exit_code # None => exit_code = (IF Accepts(disk) THEN 0 ELSE 1)

\* The exit code is 0 exactly when the files, whatever they are, form a
\* well-formed program of sound units.
THEOREM VerdictIsDeserved == Spec => []Deserved
<1>1. TypeOK /\ LoaderInv /\ AcceptedMeansWellFormed /\ VerdictInv /\ ErrorsAreReal
        => Deserved
  BY AcceptedIsDeserved DEF Deserved, ErrorsAreReal, TypeOK
<1> QED
  BY <1>1, TypeCorrect, LoaderInvariant, AcceptanceHolds, VerdictInvariant,
     ErrorsInvariant, PTL

\* The two specifications mean the same by an acceptable graph and by a disk.
LEMMA SameMeaning ==
  ASSUME NEW files
  PROVE  Verdict!Accepts(files) = Accepts(files) /\ Verdict!Disk = Disk
  BY DEF Accepts, WellFormedGraph, Acyclic, ImportEdges, Reachable, Closed, Targets,
     Parsed, Resolve, Exists, ModuleRoot, Parent, Disk,
     Verdict!Accepts, Verdict!WellFormedGraph, Verdict!Acyclic, Verdict!ImportEdges,
     Verdict!Reachable, Verdict!Closed, Verdict!Targets, Verdict!Parsed,
     Verdict!Resolve, Verdict!Exists, Verdict!ModuleRoot, Verdict!Parent, Verdict!Disk

\* The safety half of ImplementsVerdict: a check that is never disturbed starts
\* as CheckVerdict does, and each of its steps is CheckVerdict's or none.
THEOREM SafelyImplementsVerdict ==
  Spec /\ [](edits = 0) => Verdict!Init /\ [][Verdict!Decide]_<<disk, exit_code>>
<1>1. Init => Verdict!Init
  BY SameMeaning DEF Init, Verdict!Init
<1>2. ASSUME TypeOK, LoaderInv, edits = 0, edits' = 0, Deserved', [Next]_vars
      PROVE  [Verdict!Decide]_<<disk, exit_code>>
  <2>1. disk' = disk
    <3>1. disk' = disk \/ edits' = edits + 1
      BY <1>2 DEF Next, Check, Load, EntryMissing, Start, AlreadyLoaded,
         CycleDetected, ParseFailed, Open, MissingImport, Import, Finish, Loaded,
         Analyse, Return, Edit, vars
    <3> QED
      BY <1>2, <3>1
  <2>2. exit_code' = exit_code \/ exit_code = None
    BY <1>2 DEF LoaderInv, PhaseFacts, Next, Check, Load, EntryMissing, Start,
       AlreadyLoaded, CycleDetected, ParseFailed, Open, MissingImport, Import,
       Importing, Finish, Loaded, Analyse, Return, Edit, vars
  <2>3. CASE exit_code' = exit_code
    BY <2>1, <2>3
  <2>4. CASE exit_code' # exit_code
    <3>1. exit_code = None /\ exit_code' = (IF Accepts(disk) THEN 0 ELSE 1)
      BY <1>2, <2>1, <2>2, <2>4 DEF Deserved
    <3> QED
      BY <2>1, <3>1, SameMeaning DEF Verdict!Decide
  <2> QED
    BY <2>3, <2>4
<1>3. /\ TypeOK /\ LoaderInv /\ edits = 0 /\ (edits = 0)' /\ Deserved' /\ [Next]_vars
        => [Verdict!Decide]_<<disk, exit_code>>
  BY <1>2
<1> QED
  BY <1>1, <1>3, TypeCorrect, LoaderInvariant, VerdictIsDeserved, PTL DEF Spec

-----------------------------------------------------------------------------
(* What run_check says is true, and it says everything: a cycle that is      *)
(* printed is one, and when nobody edits the files each defect of the graph  *)
(* is named, whatever other defects the loader has met before it.  LoaderInv *)
(* and ImportsFollowed speak of runs without an error; what the loader still *)
(* does after an error is the subject here.                                  *)

Diagnostic ==
  [kind : {"no entry", "unparsed", "semantic"}, file : File]
  \cup [kind : {"missing"}, file : File, import : Seq(Segment)]
  \cup [kind : {"cycle"}, file : File, path : Seq(File)]

DiagnosticsType == diagnostics \in Seq(Diagnostic)

Says(ds, kind, f) ==
  \E n \in 1 .. Len(ds) : ds[n].kind = kind /\ ds[n].file = f

CycleSaid == \E f \in File : Diagnosed("cycle", f)

\* The target of an import that has been looked at was followed, or is missing
\* and its importer is named.
Met(files, edges, ds, f, t) ==
  IF Exists(files, t) THEN <<f, t>> \in edges ELSE Says(ds, "missing", f)

\* Each import of a live frame is still to come or has been met.
Meets(files, edges, ds, frame) ==
  \A k \in DOMAIN frame.unit.imports :
    \/ \E m \in 1 .. Len(frame.todo) : frame.todo[m] = frame.unit.imports[k]
    \/ Met(files, edges, ds, frame.key,
           Resolve(files, frame.key, frame.unit, frame.unit.imports[k]))

\* With or without errors: what has been followed is entered or is about to be,
EdgesEntered ==
  \A e \in edge : /\ state[e[1]] # "Unseen"
                  /\ state[e[2]] # "Unseen" \/ call = e[2]

\* what is done was emplaced, or does not parse and is named,
DoneIsSaid ==
  edits = 0 =>
    \A f \in File : state[f] = "Done" =>
      f \in FinishedKeys \/ (~Parsed(disk, f) /\ Diagnosed("unparsed", f))

\* every import has been met,
ImportsMet ==
  edits = 0 =>
    /\ \A i \in 1 .. Len(stack) : Meets(disk, edge, diagnostics, stack[i])
    /\ \A f \in FinishedKeys : \A t \in Targets(disk, f) :
         Met(disk, edge, diagnostics, f, t)

\* until a cycle is printed, an import leads to a key that is done, to the
\* pending call, or to the next frame,
StraightUntilSaid ==
  ~CycleSaid => \A e \in edge : Leads(e)

\* and units are emplaced after the parsed ones that they import,
OrderedUntilSaid ==
  edits = 0 /\ ~CycleSaid =>
    \A i \in 1 .. Len(finished) : \A f \in File :
      <<finished[i], f>> \in edge =>
        ~Parsed(disk, f) \/ \E j \in 1 .. i - 1 : finished[j] = f

\* a printed cycle is one of the files,
CycleSaidIsThere == edits = 0 /\ CycleSaid => ~Acyclic(ImportEdges(disk))

\* and the entry has been entered when loading is over.
EntryEntered ==
  edits = 0 /\ phase \in {"analyse", "exit"} /\ Exists(disk, Entry) =>
    state[Entry] # "Unseen"

DefectInv ==
  /\ EdgesEntered
  /\ DoneIsSaid
  /\ ImportsMet
  /\ StraightUntilSaid
  /\ OrderedUntilSaid
  /\ CycleSaidIsThere
  /\ EntryEntered

-----------------------------------------------------------------------------
(* What is printed stays printed, and is of its type. *)

\* A printed list with one more message is a longer list of messages that says
\* what it said and the new message, and nothing else.
LEMMA SaidAfter ==
  ASSUME NEW ds \in Seq(Diagnostic), NEW d \in Diagnostic
  PROVE  /\ Append(ds, d) \in Seq(Diagnostic)
         /\ Len(Append(ds, d)) = Len(ds) + 1 /\ Len(ds) \in Nat
         /\ \A n \in 1 .. Len(ds) : Append(ds, d)[n] = ds[n]
         /\ Append(ds, d)[Len(ds) + 1] = d
         /\ \A kind, f : Says(ds, kind, f) => Says(Append(ds, d), kind, f)
         /\ Says(Append(ds, d), d.kind, d.file)
         /\ \A kind, f : Says(Append(ds, d), kind, f)
                          => Says(ds, kind, f) \/ (kind = d.kind /\ f = d.file)
<1> DEFINE more == Append(ds, d)
           m == Len(ds)
<1>1. /\ more \in Seq(Diagnostic) /\ Len(more) = m + 1 /\ m \in Nat
      /\ \A n \in 1 .. m : more[n] = ds[n]
      /\ more[m + 1] = d
  BY AppendProperties, EmptySeq
<1>2. \A n \in 1 .. m : n \in 1 .. m + 1
  BY <1>1
<1>3. m + 1 \in 1 .. m + 1
  BY <1>1
<1>4. \A n \in 1 .. m + 1 : n = m + 1 \/ n \in 1 .. m
  BY <1>1
<1> HIDE DEF more, m
<1>5. \A kind, f : Says(ds, kind, f) => Says(more, kind, f)
  BY <1>1, <1>2 DEF Says, m
<1>6. Says(more, d.kind, d.file)
  BY <1>1, <1>3 DEF Says
<1>7. ASSUME NEW kind, NEW f, Says(more, kind, f)
      PROVE  Says(ds, kind, f) \/ (kind = d.kind /\ f = d.file)
  <2>1. PICK n \in 1 .. m + 1 : more[n].kind = kind /\ more[n].file = f
    BY <1>1, <1>7 DEF Says
  <2> QED
    BY <1>1, <1>4, <2>1 DEF Says, m
<1> QED
  BY <1>1, <1>5, <1>6, <1>7 DEF more, m

\* Consecutive members of the chain from the frame that has the key to the
\* innermost one, and the key again.
LEMMA CycleShape ==
  ASSUME TypeOK, LoaderInv, CycleDetected
  PROVE  /\ Cycle(call) \in Seq(File)
         /\ Len(Cycle(call)) > 1
         /\ Cycle(call)[1] = Cycle(call)[Len(Cycle(call))]
         /\ \A i \in 1 .. Len(Cycle(call)) - 1 :
              <<Cycle(call)[i], Cycle(call)[i+1]>> \in edge
<1> DEFINE n == Len(stack)
           from == CHOOSE i \in 1 .. n : stack[i].key = call
           m == n - from + 1
           keys == [i \in 1 .. m |-> stack[from + i - 1].key]
           path == Cycle(call)
<1>0. stack \in Seq(Frame) /\ n \in Nat /\ call \in File /\ call # None
  BY EmptySeq DEF TypeOK, CycleDetected
<1>1. \E i \in 1 .. n : stack[i].key = call
  BY <1>0 DEF CycleDetected, LoaderInv, StackIsImportChain, Keys
<1>2. from \in 1 .. n /\ stack[from].key = call
  BY <1>1
<1>3. path = Append(keys, call)
  BY DEF Cycle
<1> HIDE DEF from
<1>4. m \in Nat \ {0} /\ \A i \in 1 .. m : from + i - 1 \in 1 .. n
  BY <1>0, <1>2
<1>5. \A i \in 1 .. n : stack[i].key \in File
  <2>1. \A i \in 1 .. n : stack[i] \in Frame
    BY <1>0, ElementOfSeq
  <2> QED
    BY <2>1 DEF Frame
<1>6. keys \in Seq(File) /\ Len(keys) = m
  BY <1>4, <1>5
<1>7. \A i \in 1 .. m : keys[i] = stack[from + i - 1].key
  OBVIOUS
<1> HIDE DEF keys, path, m, n
<1>8. /\ path \in Seq(File) /\ Len(path) = m + 1 /\ path[m + 1] = call
      /\ \A i \in 1 .. m : path[i] = stack[from + i - 1].key
  BY <1>0, <1>3, <1>6, <1>7, AppendProperties
<1>9. path[1] = call
  <2>1. 1 \in 1 .. m /\ from + 1 - 1 = from
    BY <1>0, <1>2, <1>4 DEF n
  <2> QED
    BY <1>2, <1>8, <2>1
<1>10. ASSUME NEW i \in 1 .. m PROVE <<path[i], path[i + 1]>> \in edge
  <2>1. CASE i = m
    <3>1. from + i - 1 = n /\ n \in 1 .. n
      BY <1>0, <1>2, <2>1 DEF m
    <3>2. stack # <<>> /\ Top = stack[n]
      BY <3>1, EmptySeq DEF Top, n
    <3>3. <<Top.key, call>> \in edge
      BY <1>0, <3>2 DEF LoaderInv, CallIsImported
    <3> QED
      BY <1>8, <2>1, <3>1, <3>2, <3>3
  <2>2. CASE i # m
    <3>1. /\ i + 1 \in 1 .. m /\ from + i - 1 \in 1 .. n - 1
          /\ from + (i + 1) - 1 = (from + i - 1) + 1
      BY <1>0, <1>2, <1>4, <2>2 DEF m
    <3>2. /\ path[i] = stack[from + i - 1].key
          /\ path[i + 1] = stack[(from + i - 1) + 1].key
      BY <1>8, <3>1
    <3> QED
      BY <3>1, <3>2 DEF LoaderInv, StackIsImportChain, n
  <2> QED
    BY <2>1, <2>2
<1>11. Len(path) > 1 /\ Len(path) - 1 = m
  BY <1>4, <1>8
<1> QED
  BY <1>8, <1>9, <1>10, <1>11 DEF path

\* What each step prints: nothing, or one diagnostic.
LEMMA PrintedStep ==
  ASSUME TypeOK, LoaderInv, [Next]_vars
  PROVE  \/ UNCHANGED diagnostics
         \/ \E d \in Diagnostic :
              /\ diagnostics' = Append(diagnostics, d)
              /\ d.kind = "cycle" => /\ CycleDetected /\ d.file = call
                                     /\ d.path = Cycle(call)
<1>1. CASE CycleDetected
  <2> DEFINE d == [kind |-> "cycle", file |-> call, path |-> Cycle(call)]
  <2>1. Cycle(call) \in Seq(File) /\ call \in File
    BY <1>1, CycleShape DEF CycleDetected, TypeOK
  <2>2. d \in Diagnostic /\ d.file = call /\ d.path = Cycle(call)
    BY <2>1 DEF Diagnostic
  <2>3. diagnostics' = Append(diagnostics, d)
    BY <1>1 DEF CycleDetected, Report
  <2> HIDE DEF d
  <2> QED
    BY <1>1, <2>2, <2>3
<1>2. CASE ParseFailed
  <2> DEFINE d == [kind |-> "unparsed", file |-> call]
  <2>1. d \in Diagnostic /\ d.kind = "unparsed"
    BY <1>2 DEF ParseFailed, TypeOK, Diagnostic
  <2>2. diagnostics' = Append(diagnostics, d)
    BY <1>2 DEF ParseFailed, Report
  <2> HIDE DEF d
  <2> QED
    BY <2>1, <2>2
<1>3. CASE MissingImport
  <2> DEFINE d == [kind |-> "missing", file |-> Top.key, import |-> Head(Top.todo)]
  <2>1. Top.key \in File /\ Head(Top.todo) \in Seq(Segment)
    BY <1>3, TopIsFrame, HeadTailProperties DEF MissingImport, Importing, TypeOK
  <2>2. d \in Diagnostic /\ d.kind = "missing"
    BY <2>1 DEF Diagnostic
  <2>3. diagnostics' = Append(diagnostics, d)
    BY <1>3 DEF MissingImport, Report
  <2> HIDE DEF d
  <2> QED
    BY <2>2, <2>3
<1>4. CASE EntryMissing
  <2> DEFINE d == [kind |-> "no entry", file |-> Entry]
  <2>1. d \in Diagnostic /\ d.kind = "no entry"
    BY GraphAssumption DEF Diagnostic
  <2>2. diagnostics' = Append(diagnostics, d)
    BY <1>4 DEF EntryMissing, Report
  <2> HIDE DEF d
  <2> QED
    BY <2>1, <2>2
<1>5. ASSUME NEW f \in File, Analyse(f)
      PROVE  \/ UNCHANGED diagnostics
             \/ \E d \in Diagnostic : /\ diagnostics' = Append(diagnostics, d)
                                      /\ d.kind # "cycle"
  <2> DEFINE d == [kind |-> "semantic", file |-> f]
  <2>1. d \in Diagnostic /\ d.kind = "semantic"
    BY DEF Diagnostic
  <2>2. UNCHANGED diagnostics \/ diagnostics' = Append(diagnostics, d)
    BY <1>5 DEF Analyse, Report
  <2> HIDE DEF d
  <2> QED
    BY <2>1, <2>2
<1>6. CASE \/ Start \/ AlreadyLoaded \/ Open \/ Import \/ Finish \/ Loaded \/ Return
           \/ UNCHANGED vars
           \/ \E f \in File, c \in Content \cup {Absent} : Edit(f, c)
  BY <1>6 DEF Start, AlreadyLoaded, Open, Import, Finish, Loaded, Return, Edit, vars
<1> QED
  BY <1>1, <1>2, <1>3, <1>4, <1>5, <1>6 DEF Next, Check, Load

\* What is printed stays printed, and every message is of its type.
LEMMA PrintedTypeStep ==
  ASSUME TypeOK, LoaderInv, DiagnosticsType, [Next]_vars
  PROVE  /\ DiagnosticsType'
         /\ \A kind, f : Says(diagnostics, kind, f) => Says(diagnostics', kind, f)
<1>1. CASE diagnostics' = diagnostics
  BY <1>1 DEF DiagnosticsType
<1>2. ASSUME NEW d \in Diagnostic, diagnostics' = Append(diagnostics, d)
      PROVE  /\ DiagnosticsType'
             /\ \A kind, f : Says(diagnostics, kind, f) => Says(diagnostics', kind, f)
  <2>1. /\ Append(diagnostics, d) \in Seq(Diagnostic)
        /\ \A kind, f : Says(diagnostics, kind, f) => Says(Append(diagnostics, d), kind, f)
    BY SaidAfter DEF DiagnosticsType
  <2> QED
    BY <1>2, <2>1 DEF DiagnosticsType
<1> QED
  BY <1>1, <1>2, PrintedStep

\* Nothing is printed before the command starts.
LEMMA PrintedTypeInit ==
  ASSUME Init
  PROVE  DiagnosticsType /\ PrintedCycleIsReal
<1>1. diagnostics = <<>> /\ Len(diagnostics) = 0
  BY DEF Init
<1> QED
  BY <1>1 DEF DiagnosticsType, PrintedCycleIsReal

\* No step forgets an import that the loader has followed.
LEMMA EdgesGrow ==
  ASSUME [Next]_vars
  PROVE  edge \subseteq edge'
  BY DEF Next, Check, Load, EntryMissing, Start, AlreadyLoaded, CycleDetected,
     ParseFailed, Open, MissingImport, Import, Finish, Loaded, Analyse, Return,
     Edit, vars, loaderVars

\* A cycle that is printed runs along imports that have been followed.
LEMMA PrintedCycleStep ==
  ASSUME TypeOK, LoaderInv, DiagnosticsType, PrintedCycleIsReal, [Next]_vars
  PROVE  PrintedCycleIsReal'
<1> DEFINE Closes(path, edges) ==
             /\ Len(path) > 1 /\ path[1] = path[Len(path)]
             /\ \A i \in 1 .. Len(path) - 1 : <<path[i], path[i+1]>> \in edges
<1>1. edge \subseteq edge'
  BY EdgesGrow
<1>2. SUFFICES ASSUME NEW n \in 1 .. Len(diagnostics'), diagnostics'[n].kind = "cycle"
      PROVE Closes(diagnostics'[n].path, edge')
  BY DEF PrintedCycleIsReal
<1>3. CASE diagnostics'[n] = diagnostics[n] /\ n \in 1 .. Len(diagnostics)
  BY <1>1, <1>2, <1>3 DEF PrintedCycleIsReal
<1>4. CASE CycleDetected /\ diagnostics'[n].path = Cycle(call)
  BY <1>1, <1>4, CycleShape
<1>5. CASE UNCHANGED diagnostics
  BY <1>3, <1>5
<1>6. ASSUME NEW d \in Diagnostic, diagnostics' = Append(diagnostics, d),
             d.kind = "cycle" => /\ CycleDetected /\ d.file = call
                                 /\ d.path = Cycle(call)
      PROVE  Closes(diagnostics'[n].path, edge')
  <2>1. /\ Len(diagnostics') = Len(diagnostics) + 1 /\ Len(diagnostics) \in Nat
        /\ \A k \in 1 .. Len(diagnostics) : diagnostics'[k] = diagnostics[k]
        /\ diagnostics'[Len(diagnostics) + 1] = d
    BY <1>6, SaidAfter DEF DiagnosticsType
  <2>2. n = Len(diagnostics) + 1 \/ n \in 1 .. Len(diagnostics)
    BY <2>1
  <2> HIDE DEF Closes
  <2> QED
    BY <1>2, <1>3, <1>4, <1>6, <2>1, <2>2
<1> HIDE DEF Closes
<1> QED
  BY <1>5, <1>6, PrintedStep

\* A cycle that load_module prints is one, for every set of files and however
\* they are edited meanwhile: each file of it imports the next.
THEOREM PrintedCyclesAreReal == Spec => []PrintedCycleIsReal
<1>1. Init => DiagnosticsType /\ PrintedCycleIsReal
  BY PrintedTypeInit
<1>2. TypeOK /\ LoaderInv /\ DiagnosticsType /\ PrintedCycleIsReal /\ [Next]_vars
        => (DiagnosticsType /\ PrintedCycleIsReal)'
  BY PrintedTypeStep, PrintedCycleStep
<1> QED
  BY <1>1, <1>2, TypeCorrect, LoaderInvariant, PTL DEF Spec

-----------------------------------------------------------------------------
(* The inductive invariant, one conjunct at a time. *)

\* A step after which nobody has edited anything found the files as they are.
LEMMA Undisturbed ==
  ASSUME TypeOK, [Next]_vars, edits' = 0
  PROVE  edits = 0 /\ disk' = disk
<1>1. \/ edits' = edits /\ disk' = disk
      \/ edits' = edits + 1
  BY DEF Next, Check, Load, EntryMissing, Start, AlreadyLoaded, CycleDetected,
     ParseFailed, Open, MissingImport, Import, Finish, Loaded, Analyse, Return,
     Edit, vars
<1>2. edits \in Nat
  BY LoaderAssumption DEF TypeOK
<1> QED
  BY <1>1, <1>2

\* The steps that only look at the walk or are not part of it.
LEMMA WalkStands ==
  ASSUME TypeOK, LoaderInv, [Next]_vars,
         ~(ParseFailed \/ Open \/ Import \/ MissingImport \/ Finish)
  PROVE  /\ UNCHANGED <<state, stack, edge, finished>>
         /\ \/ call' = call
            \/ call = None
            \/ call \in File /\ state[call] # "Unseen"
<1>1. CASE Start
  BY <1>1 DEF Start, LoaderInv, PhaseFacts
<1>2. CASE AlreadyLoaded \/ CycleDetected
  BY <1>2 DEF AlreadyLoaded, CycleDetected, TypeOK
<1> QED
  BY <1>1, <1>2, QuietSteps DEF Next, Check, Load, loaderVars

\* Finish emplaces the unit of the top frame after the others.
LEMMA FinishedGrows ==
  ASSUME TypeOK, Finish
  PROVE  /\ FinishedKeys' = FinishedKeys \cup {Top.key}
         /\ Top.key \in File /\ Len(finished) \in Nat
         /\ Len(finished') = Len(finished) + 1
         /\ \A i \in 1 .. Len(finished) : finished'[i] = finished[i]
         /\ finished'[Len(finished) + 1] = Top.key
<1>1. Top.key \in File /\ finished' = Append(finished, Top.key) /\ finished \in Seq(File)
  BY TopIsFrame DEF Finish, TypeOK
<1>2. /\ Len(finished') = Len(finished) + 1 /\ Len(finished) \in Nat
      /\ \A i \in 1 .. Len(finished) : finished'[i] = finished[i]
      /\ finished'[Len(finished) + 1] = Top.key
  BY <1>1, AppendProperties, EmptySeq
<1>3. \A k \in FinishedKeys' : k \in FinishedKeys \cup {Top.key}
  BY <1>2 DEF FinishedKeys
<1>4. \A i \in 1 .. Len(finished) : i \in 1 .. Len(finished')
  BY <1>2
<1>5. \A k \in FinishedKeys \cup {Top.key} : k \in FinishedKeys'
  BY <1>2, <1>4 DEF FinishedKeys
<1> QED
  BY <1>1, <1>2, <1>3, <1>5

\* Each step keeps followed imports entered, or about to be.
LEMMA EnteredStep ==
  ASSUME TypeOK, LoaderInv, EdgesEntered, [Next]_vars
  PROVE  EdgesEntered'
<1>0. /\ edge \subseteq File \X File /\ state \in [File -> VisitState]
      /\ call \in File \cup {None}
  BY DEF TypeOK
<1> SUFFICES ASSUME NEW e \in edge'
             PROVE  state'[e[1]] # "Unseen" /\ (state'[e[2]] # "Unseen" \/ call' = e[2])
  BY DEF EdgesEntered
<1>1. CASE ~(ParseFailed \/ Open \/ Import \/ MissingImport \/ Finish)
  <2>1. e \in edge /\ e[2] \in File /\ e[2] # None
    BY <1>0, <1>1, WalkStands, LoaderAssumption
  <2> QED
    BY <1>1, <2>1, WalkStands DEF EdgesEntered
<1>2. CASE ParseFailed \/ Open
  <2>1. /\ edge' = edge /\ call \in File
        /\ \/ state' = [state EXCEPT ![call] = "Done"]
           \/ state' = [state EXCEPT ![call] = "Visiting"]
    BY <1>0, <1>2 DEF ParseFailed, Open
  <2>2. e \in edge /\ e[1] \in File /\ e[2] \in File
    BY <1>0, <2>1
  <2> QED
    BY <1>0, <2>1, <2>2 DEF EdgesEntered
<1>3. CASE MissingImport
  BY <1>3 DEF MissingImport, EdgesEntered
<1>4. CASE Import
  <2>1. /\ stack # <<>> /\ call = None /\ state' = state
        /\ call' = Dependency /\ edge' = edge \cup {<<Top.key, Dependency>>}
    BY <1>4 DEF Import, Importing
  <2>2. state[Top.key] # "Unseen"
    <3>1. Top.key \in File /\ Len(stack) \in 1 .. Len(stack)
      BY <2>1, TopIsFrame DEF TypeOK
    <3> QED
      BY <3>1 DEF LoaderInv, StackIsImportChain, Keys, Top
  <2>3. CASE e \in edge
    <3>1. e[2] # None
      BY <1>0, <2>3, LoaderAssumption
    <3> QED
      BY <2>1, <2>3, <3>1 DEF EdgesEntered
  <2>4. CASE e = <<Top.key, Dependency>>
    BY <2>1, <2>2, <2>4
  <2> QED
    BY <2>1, <2>3, <2>4
<1>5. CASE Finish
  <2>1. /\ edge' = edge /\ call' = call /\ Top.key \in File
        /\ state' = [state EXCEPT ![Top.key] = "Done"]
    BY <1>5, FinishedGrows DEF Finish
  <2>2. e \in edge /\ e[1] \in File /\ e[2] \in File
    BY <1>0, <2>1
  <2> QED
    BY <1>0, <2>1, <2>2 DEF EdgesEntered
<1> QED
  BY <1>1, <1>2, <1>3, <1>4, <1>5

\* A key becomes done by being emplaced, or by a parse error that names it.
LEMMA DoneStep ==
  ASSUME TypeOK, LoaderInv, DiagnosticsType, DoneIsSaid, [Next]_vars
  PROVE  DoneIsSaid'
<1> SUFFICES ASSUME edits' = 0, NEW f \in File, state'[f] = "Done"
             PROVE  \/ f \in FinishedKeys'
                    \/ ~Parsed(disk', f) /\ Says(diagnostics', "unparsed", f)
  BY DEF DoneIsSaid, Diagnosed, Says
<1>0. /\ edits = 0 /\ disk' = disk /\ state \in [File -> VisitState]
      /\ Says(diagnostics, "unparsed", f) => Says(diagnostics', "unparsed", f)
  BY Undisturbed, PrintedTypeStep DEF TypeOK
<1>1. state[f] = "Done" =>
        f \in FinishedKeys \/ (~Parsed(disk, f) /\ Says(diagnostics, "unparsed", f))
  BY <1>0 DEF DoneIsSaid, Diagnosed, Says
<1>2. CASE state[f] = "Done" /\ FinishedKeys \subseteq FinishedKeys'
  BY <1>0, <1>1, <1>2
<1>3. CASE ~(ParseFailed \/ Open \/ Import \/ MissingImport \/ Finish)
  <2>1. state' = state /\ FinishedKeys' = FinishedKeys
    BY <1>3, WalkStands DEF FinishedKeys
  <2> QED
    BY <1>2, <2>1
<1>4. CASE Import \/ MissingImport
  <2>1. state' = state /\ FinishedKeys' = FinishedKeys
    BY <1>4 DEF Import, MissingImport, FinishedKeys
  <2> QED
    BY <1>2, <2>1
<1>5. CASE Open
  <2>1. /\ state' = [state EXCEPT ![call] = "Visiting"] /\ call \in File
        /\ FinishedKeys' = FinishedKeys
    BY <1>5 DEF Open, TypeOK, FinishedKeys
  <2> QED
    BY <1>0, <1>2, <2>1
<1>6. CASE ParseFailed
  <2> DEFINE d == [kind |-> "unparsed", file |-> call]
  <2>1. /\ state' = [state EXCEPT ![call] = "Done"] /\ call \in File
        /\ FinishedKeys' = FinishedKeys /\ ~Parsed(disk, call)
        /\ diagnostics' = Append(diagnostics, d)
    BY <1>6 DEF ParseFailed, TypeOK, FinishedKeys, Report
  <2>2. d \in Diagnostic /\ d.kind = "unparsed" /\ d.file = call
    BY <2>1 DEF Diagnostic
  <2> HIDE DEF d
  <2>3. Says(Append(diagnostics, d), d.kind, d.file)
    BY <2>2, SaidAfter DEF DiagnosticsType
  <2>4. CASE f = call
    BY <1>0, <2>1, <2>2, <2>3, <2>4
  <2>5. CASE f # call
    BY <1>0, <1>2, <2>1, <2>5
  <2> QED
    BY <2>4, <2>5
<1>7. CASE Finish
  <2>1. /\ state' = [state EXCEPT ![Top.key] = "Done"]
        /\ FinishedKeys' = FinishedKeys \cup {Top.key}
    BY <1>7, FinishedGrows DEF Finish
  <2> QED
    BY <1>0, <1>2, <2>1
<1> QED
  BY <1>3, <1>4, <1>5, <1>6, <1>7

\* What has been met stays met.
LEMMA MeetsStill ==
  ASSUME NEW files, NEW edges, NEW more, edges \subseteq more, NEW ds, NEW es,
         \A kind, f : Says(ds, kind, f) => Says(es, kind, f),
         NEW frame, Meets(files, edges, ds, frame)
  PROVE  Meets(files, more, es, frame)
  BY DEF Meets, Met

\* A frame that has taken its first import from the list and met it.
LEMMA MeetsOn ==
  ASSUME NEW files, NEW edges, NEW ds,
         NEW old \in Frame, NEW new \in Frame, Meets(files, edges, ds, old),
         old.todo # <<>>, new.todo = Tail(old.todo),
         new.key = old.key, new.unit = old.unit,
         Met(files, edges, ds, old.key,
             Resolve(files, old.key, old.unit, Head(old.todo)))
  PROVE  Meets(files, edges, ds, new)
<1>0. old.todo \in Seq(Seq(Segment))
  BY DEF Frame
<1>1. SUFFICES ASSUME NEW k \in DOMAIN old.unit.imports
      PROVE \/ \E m \in 1 .. Len(new.todo) : new.todo[m] = old.unit.imports[k]
            \/ Met(files, edges, ds, old.key,
                   Resolve(files, old.key, old.unit, old.unit.imports[k]))
  BY DEF Meets
<1>2. CASE \E m \in 1 .. Len(old.todo) : old.todo[m] = old.unit.imports[k]
  <2>1. PICK m \in 1 .. Len(old.todo) : old.todo[m] = old.unit.imports[k]
    BY <1>2
  <2>2. CASE m = 1
    <3>1. Head(old.todo) = old.unit.imports[k]
      BY <1>0, <2>1, <2>2, HeadTailProperties
    <3> QED
      BY <3>1
  <2>3. CASE m # 1
    <3>1. /\ Len(new.todo) = Len(old.todo) - 1 /\ Len(old.todo) \in Nat
          /\ \A i \in 1 .. Len(new.todo) : new.todo[i] = old.todo[i + 1]
      BY <1>0, HeadTailProperties
    <3>2. m - 1 \in 1 .. Len(new.todo) /\ new.todo[m - 1] = old.todo[m]
      BY <2>1, <2>3, <3>1
    <3> QED
      BY <2>1, <3>2
  <2> QED
    BY <2>2, <2>3
<1>3. CASE Met(files, edges, ds, old.key,
               Resolve(files, old.key, old.unit, old.unit.imports[k]))
  BY <1>3
<1> QED
  BY <1>2, <1>3 DEF Meets

\* The import that Import and MissingImport take from the list has been met.
LEMMA DependencyIsMet ==
  ASSUME TypeOK, DiagnosticsType, Import \/ MissingImport
  PROVE  Met(disk, edge', diagnostics', Top.key, Dependency)
<1>1. CASE Import
  <2>1. Exists(disk, Dependency) /\ edge' = edge \cup {<<Top.key, Dependency>>}
    BY <1>1 DEF Import
  <2> QED
    BY <2>1 DEF Met
<1>2. CASE MissingImport
  <2> DEFINE d == [kind |-> "missing", file |-> Top.key, import |-> Head(Top.todo)]
  <2>1. Top.key \in File /\ Head(Top.todo) \in Seq(Segment)
    BY <1>2, TopIsFrame, HeadTailProperties DEF MissingImport, Importing, TypeOK
  <2>2. d \in Diagnostic /\ d.kind = "missing" /\ d.file = Top.key
    BY <2>1 DEF Diagnostic
  <2>3. diagnostics' = Append(diagnostics, d) /\ ~Exists(disk, Dependency)
    BY <1>2 DEF MissingImport, Report
  <2> HIDE DEF d
  <2>4. Says(Append(diagnostics, d), d.kind, d.file)
    BY <2>2, SaidAfter DEF DiagnosticsType
  <2> QED
    BY <2>2, <2>3, <2>4 DEF Met
<1> QED
  BY <1>1, <1>2

\* A frame takes an import off its list only when it follows the import or
\* names the importer of a missing one.
LEMMA MetStep ==
  ASSUME TypeOK, LoaderInv, VerdictInv, DiagnosticsType, ImportsMet, [Next]_vars
  PROVE  ImportsMet'
<1> DEFINE n == Len(stack)
<1> SUFFICES ASSUME edits' = 0
             PROVE  /\ \A i \in 1 .. Len(stack') :
                         Meets(disk', edge', diagnostics', stack'[i])
                    /\ \A f \in FinishedKeys' : \A t \in Targets(disk', f) :
                         Met(disk', edge', diagnostics', f, t)
  BY DEF ImportsMet
<1>0. /\ edits = 0 /\ disk' = disk /\ edge \subseteq edge'
      /\ \A kind, f : Says(diagnostics, kind, f) => Says(diagnostics', kind, f)
      /\ stack \in Seq(Frame) /\ n \in Nat
  BY Undisturbed, PrintedTypeStep, EdgesGrow, EmptySeq DEF TypeOK
<1>1. \A i \in 1 .. n : Meets(disk, edge', diagnostics', stack[i])
  BY <1>0, MeetsStill DEF ImportsMet
<1>2. \A f \in FinishedKeys : \A t \in Targets(disk, f) :
        Met(disk, edge', diagnostics', f, t)
  BY <1>0 DEF ImportsMet, Met
<1>3. CASE stack' = stack /\ finished' = finished
  BY <1>0, <1>1, <1>2, <1>3 DEF FinishedKeys
<1>4. CASE Open
  <2> DEFINE fr == [key |-> call, unit |-> disk[call], todo |-> disk[call].imports]
  <2>1. call \in File /\ disk[call] \in Content /\ FinishedKeys' = FinishedKeys
    BY <1>4 DEF Open, Parsed, Exists, TypeOK, Disk, FinishedKeys
  <2>2. /\ fr \in Frame /\ fr.todo = fr.unit.imports
        /\ fr.todo \in Seq(Seq(Segment))
    BY <2>1, UnitFields DEF Frame
  <2> HIDE DEF fr
  <2>3. /\ Len(stack') = n + 1 /\ stack'[n + 1] = fr
        /\ \A i \in 1 .. n : stack'[i] = stack[i]
    BY <1>0, <1>4, <2>2, PushShape DEF Open, fr
  <2>4. Meets(disk, edge', diagnostics', fr)
    <3>1. DOMAIN fr.unit.imports = 1 .. Len(fr.todo)
      BY <2>2
    <3> QED
      BY <2>2, <3>1 DEF Meets
  <2>5. \A i \in 1 .. n + 1 : Meets(disk, edge', diagnostics', stack'[i])
    BY <1>0, <1>1, <2>3, <2>4
  <2> QED
    BY <1>0, <1>2, <2>1, <2>3, <2>5
<1>5. CASE Import \/ MissingImport
  <2>1. Importing /\ Advance /\ stack # <<>> /\ Top.todo # <<>> /\ finished' = finished
    BY <1>5 DEF Import, MissingImport, Importing
  <2>2. /\ Len(stack') = n /\ n \in 1 .. n /\ stack' \in Seq(Frame)
        /\ \A i \in 1 .. n : /\ stack'[i].key = stack[i].key
                             /\ stack'[i].unit = stack[i].unit
                             /\ i # n => stack'[i] = stack[i]
        /\ stack'[n].todo = Tail(Top.todo) /\ Top = stack[n]
    BY <1>0, <2>1, AdvanceFrames, AdvanceShape, TopIsFrame DEF Top
  <2> DEFINE old == stack[n]
             new == stack'[n]
  <2>3. Meets(disk, edge', diagnostics', new)
    <3>1. old \in Frame /\ new \in Frame
      BY <1>0, <2>2, ElementOfSeq
    <3>2. Met(disk, edge', diagnostics', old.key,
              Resolve(disk, old.key, old.unit, Head(old.todo)))
      BY <1>5, <2>2, DependencyIsMet DEF Dependency
    <3>3. Meets(disk, edge', diagnostics', old)
      BY <1>1, <2>2
    <3>4. /\ old.todo # <<>> /\ new.key = old.key /\ new.unit = old.unit
          /\ new.todo = Tail(old.todo)
      BY <2>1, <2>2
    <3> HIDE DEF old, new
    <3> QED
      BY <3>1, <3>2, <3>3, <3>4, MeetsOn
  <2>4. ASSUME NEW i \in 1 .. n PROVE Meets(disk, edge', diagnostics', stack'[i])
    BY <1>1, <2>2, <2>3
  <2>5. FinishedKeys' = FinishedKeys
    BY <2>1 DEF FinishedKeys
  <2> QED
    BY <1>0, <1>2, <2>2, <2>4, <2>5
<1>6. CASE Finish
  <2>1. /\ Len(stack') = n - 1 /\ n \in 1 .. n
        /\ \A i \in 1 .. n - 1 : stack'[i] = stack[i]
        /\ Top = stack[n] /\ Len(Top.todo) = 0
    BY <1>0, <1>6, PopShape, TopIsFrame, EmptySeq DEF Finish, Top
  <2>2. FinishedKeys' = FinishedKeys \cup {Top.key}
    BY <1>6, FinishedGrows
  <2>3. Meets(disk, edge', diagnostics', Top) /\ AsOnDisk(Top.key, Top.unit)
    BY <1>0, <1>1, <2>1 DEF VerdictInv, ReadFromDisk
  <2>4. \A t \in Targets(disk, Top.key) : Met(disk, edge', diagnostics', Top.key, t)
    <3>1. \A k \in DOMAIN disk[Top.key].imports :
            Met(disk, edge', diagnostics', Top.key,
                Resolve(disk, Top.key, disk[Top.key], disk[Top.key].imports[k]))
      BY <2>1, <2>3 DEF Meets, AsOnDisk
    <3> QED
      BY <3>1 DEF Targets
  <2>5. \A i \in 1 .. n - 1 : Meets(disk, edge', diagnostics', stack'[i])
    BY <1>0, <1>1, <2>1
  <2> QED
    BY <1>0, <1>2, <2>1, <2>2, <2>4, <2>5
<1>7. ParseFailed => stack' = stack /\ finished' = finished
  BY DEF ParseFailed
<1> QED
  BY <1>3, <1>4, <1>5, <1>6, <1>7, WalkStands

\* Whether a cycle has been printed changes with CycleDetected alone.
LEMMA CycleSaidStep ==
  ASSUME TypeOK, LoaderInv, DiagnosticsType, [Next]_vars
  PROVE  /\ CycleSaid => CycleSaid'
         /\ ~CycleDetected /\ CycleSaid' => CycleSaid
         /\ CycleDetected => CycleSaid'
<1>1. CycleSaid => CycleSaid'
  BY PrintedTypeStep DEF CycleSaid, Diagnosed, Says
<1>2. ASSUME ~CycleDetected, CycleSaid' PROVE CycleSaid
  <2>1. PICK f \in File : Says(diagnostics', "cycle", f)
    BY <1>2 DEF CycleSaid, Diagnosed, Says
  <2>2. CASE UNCHANGED diagnostics
    BY <2>1, <2>2 DEF CycleSaid, Diagnosed, Says
  <2>3. ASSUME NEW d \in Diagnostic, diagnostics' = Append(diagnostics, d),
               d.kind # "cycle"
        PROVE  CycleSaid
    <3>1. Says(diagnostics, "cycle", f)
      BY <2>1, <2>3, SaidAfter DEF DiagnosticsType
    <3> QED
      BY <3>1 DEF CycleSaid, Diagnosed, Says
  <2> QED
    BY <1>2, <2>2, <2>3, PrintedStep
<1>3. ASSUME CycleDetected PROVE CycleSaid'
  <2> DEFINE d == [kind |-> "cycle", file |-> call, path |-> Cycle(call)]
  <2>1. Cycle(call) \in Seq(File) /\ call \in File
    BY <1>3, CycleShape DEF CycleDetected, TypeOK
  <2>2. d \in Diagnostic /\ d.kind = "cycle" /\ d.file = call
    BY <2>1 DEF Diagnostic
  <2>3. diagnostics' = Append(diagnostics, d)
    BY <1>3 DEF CycleDetected, Report
  <2> HIDE DEF d
  <2>4. Says(Append(diagnostics, d), d.kind, d.file)
    BY <2>2, SaidAfter DEF DiagnosticsType
  <2> QED
    BY <2>1, <2>2, <2>3, <2>4 DEF CycleSaid, Diagnosed, Says
<1> QED
  BY <1>1, <1>2, <1>3

\* Until a cycle is printed, each import leads on; a step that would close the
\* walk prints the cycle.
LEMMA StraightStep ==
  ASSUME TypeOK, LoaderInv, DiagnosticsType, EdgesEntered, StraightUntilSaid,
         [Next]_vars
  PROVE  StraightUntilSaid'
<1> SUFFICES ASSUME ~CycleSaid'
             PROVE  \A e \in edge' : Leads(e)'
  BY DEF StraightUntilSaid
<1>1. ~CycleSaid /\ ~CycleDetected
  BY CycleSaidStep
<1>2. \A e \in edge : state[e[1]] # "Unseen" /\ Leads(e)
  BY <1>1 DEF StraightUntilSaid, EdgesEntered
<1> QED
  BY <1>1, <1>2, LeadsStep DEF LoaderInv

\* Until a cycle is printed, a unit is emplaced after the parsed ones it imports.
LEMMA OrderedStep ==
  ASSUME TypeOK, LoaderInv, VerdictInv, DiagnosticsType, DoneIsSaid,
         StraightUntilSaid, OrderedUntilSaid, [Next]_vars
  PROVE  OrderedUntilSaid'
<1> DEFINE m == Len(finished)
<1> SUFFICES ASSUME edits' = 0, ~CycleSaid',
                    NEW i \in 1 .. Len(finished'), NEW f \in File,
                    <<finished'[i], f>> \in edge', Parsed(disk', f)
             PROVE  \E j \in 1 .. i - 1 : finished'[j] = f
  BY DEF OrderedUntilSaid
<1>0. /\ edits = 0 /\ disk' = disk /\ ~CycleSaid /\ m \in Nat
      /\ stack \in Seq(Frame) /\ f # None
  BY Undisturbed, CycleSaidStep, EmptySeq, LoaderAssumption DEF TypeOK
<1>1. \A k \in 1 .. m : <<finished[k], f>> \in edge =>
        \E j \in 1 .. k - 1 : finished[j] = f
  BY <1>0 DEF OrderedUntilSaid
<1>2. CASE finished' = finished /\ edge' = edge
  BY <1>1, <1>2
<1>3. CASE Import
  <2>1. /\ stack # <<>> /\ finished' = finished
        /\ edge' = edge \cup {<<Top.key, Dependency>>}
    BY <1>3 DEF Import, Importing
  <2>2. state[Top.key] = "Visiting"
    <3>1. Top.key \in File /\ Len(stack) \in 1 .. Len(stack)
      BY <1>0, <2>1, TopIsFrame
    <3> QED
      BY <3>1 DEF LoaderInv, StackIsImportChain, Keys, Top
  <2>3. finished[i] # Top.key
    BY <2>1, <2>2 DEF LoaderInv, FinishedIsDone, FinishedKeys
  <2> QED
    BY <1>1, <2>1, <2>3
<1>4. CASE Finish
  <2>1. /\ Len(finished') = m + 1 /\ finished'[m + 1] = Top.key
        /\ \A k \in 1 .. m : finished'[k] = finished[k]
        /\ edge' = edge /\ call = None /\ stack # <<>>
    BY <1>4, FinishedGrows DEF Finish
  <2>2. CASE i = m + 1
    <3>1. <<Top.key, f>> \in edge /\ <<Top.key, f>>[1] = Top.key /\ <<Top.key, f>>[2] = f
      BY <2>1, <2>2
    <3>2. ~ \E k \in 1 .. Len(stack) - 1 : stack[k].key = Top.key
      <4>1. Len(stack) \in 1 .. Len(stack) /\ Len(stack) \in Nat
        BY <1>0, <2>1, TopIsFrame
      <4> QED
        BY <4>1 DEF LoaderInv, StackIsImportChain, Top
    <3>3. state[f] = "Done"
      BY <1>0, <2>1, <3>1, <3>2 DEF StraightUntilSaid, Leads
    <3>4. f \in FinishedKeys
      BY <1>0, <3>3 DEF DoneIsSaid
    <3>5. PICK j \in 1 .. m : finished[j] = f
      BY <3>4 DEF FinishedKeys
    <3>6. j \in 1 .. i - 1
      BY <1>0, <2>2
    <3> QED
      BY <2>1, <3>5, <3>6
  <2>3. CASE i \in 1 .. m
    <3>1. PICK j \in 1 .. i - 1 : finished[j] = f
      BY <1>1, <2>1, <2>3
    <3>2. j \in 1 .. m
      BY <1>0, <2>3
    <3> QED
      BY <2>1, <3>1, <3>2
  <2> QED
    BY <1>0, <2>1, <2>2, <2>3
<1>5. ParseFailed \/ Open \/ MissingImport => finished' = finished /\ edge' = edge
  BY DEF ParseFailed, Open, MissingImport
<1> QED
  BY <1>2, <1>3, <1>4, <1>5, WalkStands

\* CycleDetected closes a walk along imports of files on disk.
LEMMA CycleThereStep ==
  ASSUME TypeOK, LoaderInv, VisitsAreReachable, DiagnosticsType, CycleSaidIsThere,
         [Next]_vars
  PROVE  CycleSaidIsThere'
<1> SUFFICES ASSUME edits' = 0, CycleSaid'
             PROVE  ~Acyclic(ImportEdges(disk'))
  BY DEF CycleSaidIsThere
<1>1. edits = 0 /\ disk' = disk
  BY Undisturbed
<1>2. CASE CycleDetected
  BY <1>1, <1>2, CycleIsReal
<1>3. CASE CycleSaid
  BY <1>1, <1>3 DEF CycleSaidIsThere
<1> QED
  BY <1>2, <1>3, CycleSaidStep

\* Loading is over only after the entry has been entered, when there is one.
LEMMA EntryStep ==
  ASSUME TypeOK, LoaderInv, EntryEntered, [Next]_vars
  PROVE  EntryEntered'
<1> SUFFICES ASSUME edits' = 0, phase' \in {"analyse", "exit"}, Exists(disk', Entry)
             PROVE  state'[Entry] # "Unseen"
  BY DEF EntryEntered
<1>1. edits = 0 /\ disk' = disk
  BY Undisturbed
<1>2. CASE phase \in {"analyse", "exit"} /\ state' = state
  BY <1>1, <1>2 DEF EntryEntered
<1>3. CASE EntryMissing
  BY <1>1, <1>3 DEF EntryMissing
<1>4. CASE Loaded
  <2>1. phase = "load" /\ call = None /\ state' = state
    BY <1>4 DEF Loaded, loaderVars
  <2> QED
    BY <2>1, GraphAssumption, LoaderAssumption DEF LoaderInv, PhaseFacts
<1>5. CASE Start \/ AlreadyLoaded \/ CycleDetected \/ ParseFailed \/ Open
           \/ MissingImport \/ Import \/ Finish
  <2>1. phase' = "load"
    BY <1>5 DEF Start, AlreadyLoaded, CycleDetected, ParseFailed, Open,
       MissingImport, Import, Importing, Finish
  <2> QED
    BY <2>1
<1>6. CASE Return \/ UNCHANGED vars \/ \E f \in File : Analyse(f)
  <2>1. phase \in {"analyse", "exit"} /\ state' = state
    BY <1>6 DEF Return, Analyse, vars, loaderVars
  <2> QED
    BY <1>2, <2>1
<1>7. CASE \E f \in File, c \in Content \cup {Absent} : Edit(f, c)
  <2>1. UNCHANGED <<phase, state>>
    BY <1>7 DEF Edit, loaderVars
  <2> QED
    BY <1>2, <2>1
<1> QED
  BY <1>3, <1>4, <1>5, <1>6, <1>7 DEF Next, Check, Load

\* The invariant of the reports holds at the start,
LEMMA DefectInvInit ==
  ASSUME Init
  PROVE  DefectInv
<1>1. /\ FinishedKeys = {} /\ edge = {} /\ Len(stack) = 0 /\ Len(finished) = 0
      /\ Len(diagnostics) = 0 /\ phase = "start"
      /\ \A f \in File : state[f] = "Unseen"
  BY DEF Init, FinishedKeys
<1>2. ~CycleSaid
  BY <1>1 DEF CycleSaid, Diagnosed
<1> QED
  BY <1>1, <1>2 DEF DefectInv, EdgesEntered, DoneIsSaid, ImportsMet,
     StraightUntilSaid, OrderedUntilSaid, CycleSaidIsThere, EntryEntered

\* and each step keeps it.
LEMMA DefectInvStep ==
  ASSUME TypeOK, LoaderInv, VerdictInv, VisitsAreReachable, DiagnosticsType,
         DefectInv, [Next]_vars
  PROVE  DefectInv'
<1> USE DEF DefectInv
<1>1. EdgesEntered' /\ DoneIsSaid' /\ ImportsMet'
  BY EnteredStep, DoneStep, MetStep
<1>2. StraightUntilSaid' /\ OrderedUntilSaid'
  BY StraightStep, OrderedStep
<1>3. CycleSaidIsThere' /\ EntryEntered'
  BY CycleThereStep, EntryStep
<1> QED
  BY <1>1, <1>2, <1>3

-----------------------------------------------------------------------------
(* What the invariant comes to when loading is over. *)

\* Every reachable file has been dealt with, or is not there.
LEMMA ReachableIsDone ==
  ASSUME TypeOK, LoaderInv, DefectInv, edits = 0,
         phase \in {"analyse", "exit"}, Exists(disk, Entry)
  PROVE  \A f \in Reachable(disk) : state[f] = "Done" \/ ~Exists(disk, f)
<1> DEFINE S == {f \in File : state[f] = "Done" \/ ~Exists(disk, f)}
<1>1. stack = <<>> /\ call = None /\ state \in [File -> VisitState]
  BY DEF TypeOK, LoaderInv, PhaseFacts
<1>2. Keys = {}
  BY <1>1 DEF Keys
<1>3. \A f \in File : state[f] # "Unseen" => state[f] = "Done"
  BY <1>1, <1>2 DEF LoaderInv, StackIsImportChain, VisitState
<1>4. Entry \in S
  BY <1>3, GraphAssumption DEF DefectInv, EntryEntered
<1>5. Closed(disk, S)
  <2> SUFFICES ASSUME NEW f \in S, NEW t \in Targets(disk, f), t \in File, Exists(disk, t)
               PROVE  state[t] = "Done"
    BY DEF Closed
  <2>1. Parsed(disk, f)
    BY DEF Targets
  <2>2. f \in FinishedKeys
    BY <2>1 DEF DefectInv, DoneIsSaid, Parsed
  <2>3. <<f, t>> \in edge
    BY <2>2 DEF DefectInv, ImportsMet, Met
  <2>4. state[t] # "Unseen"
    <3>1. <<f, t>>[2] = t /\ t # None
      BY LoaderAssumption
    <3> QED
      BY <1>1, <2>3, <3>1 DEF DefectInv, EdgesEntered
  <2> QED
    BY <1>3, <2>4
<1>6. S \in SUBSET File
  OBVIOUS
<1>7. Reachable(disk) \subseteq S
  <2> HIDE DEF S
  <2> QED
    BY <1>4, <1>5, <1>6 DEF Reachable
<1> QED
  BY <1>7

\* Where no cycle is printed there is none: of any set of files take one that
\* imports nothing or, if all are loaded, the one that was emplaced first.
LEMMA UnsaidIsAcyclic ==
  ASSUME TypeOK, LoaderInv, DefectInv, edits = 0, ~CycleSaid,
         phase \in {"analyse", "exit"}, Exists(disk, Entry)
  PROVE  Acyclic(ImportEdges(disk))
<1> DEFINE Loadable(f) == f \in Reachable(disk) /\ Parsed(disk, f)
<1> SUFFICES ASSUME NEW S \in SUBSET File, S # {}
             PROVE  \E a \in S : \A b \in S : <<a, b>> \notin ImportEdges(disk)
  BY DEF Acyclic
<1>0. finished \in Seq(File) /\ Len(finished) \in Nat
  BY EmptySeq DEF TypeOK
<1>1. \A a, b \in File : <<a, b>> \in ImportEdges(disk) =>
        Loadable(a) /\ b \in Targets(disk, a)
  BY DEF ImportEdges, Targets
<1>2. \A f \in File : Loadable(f) => f \in FinishedKeys
  BY ReachableIsDone DEF DefectInv, DoneIsSaid, Parsed
<1>3. CASE \E a \in S : ~Loadable(a)
  <2> HIDE DEF Loadable
  <2> QED
    BY <1>1, <1>3
<1>4. CASE \A a \in S : Loadable(a)
  <2> DEFINE I == {i \in 1 .. Len(finished) : finished[i] \in S}
  <2>1. I # {} /\ I \subseteq Nat
    BY <1>0, <1>2, <1>4 DEF FinishedKeys
  <2>2. PICK k \in I : \A i \in I : k <= i
    BY <2>1, LeastMember
  <2>3. finished[k] \in S /\ k \in 1 .. Len(finished)
    BY <2>2
  <2>4. ASSUME NEW b \in S, <<finished[k], b>> \in ImportEdges(disk) PROVE FALSE
    <3>1. b \in Targets(disk, finished[k]) /\ finished[k] \in FinishedKeys
      BY <1>1, <2>3, <2>4 DEF FinishedKeys
    <3>2. Parsed(disk, b)
      BY <1>4
    <3>3. <<finished[k], b>> \in edge
      BY <3>1, <3>2 DEF DefectInv, ImportsMet, Met, Parsed
    <3>4. PICK j \in 1 .. k - 1 : finished[j] = b
      BY <2>3, <3>2, <3>3 DEF DefectInv, OrderedUntilSaid
    <3>5. j \in 1 .. Len(finished) /\ j < k
      BY <1>0, <2>3
    <3>6. j \in I
      BY <3>4, <3>5
    <3> QED
      BY <1>0, <2>2, <2>3, <3>5, <3>6
  <2> QED
    BY <2>3, <2>4
<1> HIDE DEF Loadable
<1> QED
  BY <1>3, <1>4

\* When loading is over the invariant says that each defect has been named: the
\* reachable files were all met, and files without a cycle message are ordered.
LEMMA DefectsAreReported ==
  ASSUME TypeOK, LoaderInv, VerdictInv, DefectInv, edits = 0
  PROVE  EveryGraphDefectReported
<1> SUFFICES ASSUME phase \in {"analyse", "exit"}, Exists(disk, Entry)
             PROVE  /\ \A f \in Reachable(disk) :
                         /\ ~Parsed(disk, f) /\ Exists(disk, f) => Diagnosed("unparsed", f)
                         /\ (\E t \in Targets(disk, f) : ~Exists(disk, t))
                              => Diagnosed("missing", f)
                    /\ CycleSaid <=> ~Acyclic(ImportEdges(disk))
  BY DEF EveryGraphDefectReported, CycleSaid
<1>1. \A f \in Reachable(disk) : f \in File /\ (state[f] = "Done" \/ ~Exists(disk, f))
  BY ReachableIsDone DEF Reachable
<1>2. ASSUME NEW f \in Reachable(disk), NEW t \in Targets(disk, f), ~Exists(disk, t)
      PROVE  Diagnosed("missing", f)
  <2>1. Parsed(disk, f)
    BY <1>2 DEF Targets
  <2>2. f \in FinishedKeys
    BY <1>1, <2>1 DEF DefectInv, DoneIsSaid, Parsed
  <2> QED
    BY <1>2, <2>2 DEF DefectInv, ImportsMet, Met, Diagnosed, Says
<1>3. CycleSaid <=> ~Acyclic(ImportEdges(disk))
  BY UnsaidIsAcyclic DEF DefectInv, CycleSaidIsThere
<1>4. ASSUME NEW f \in Reachable(disk), ~Parsed(disk, f), Exists(disk, f)
      PROVE  Diagnosed("unparsed", f)
  BY <1>1, <1>4 DEF DefectInv, DoneIsSaid, VerdictInv, ReadFromDisk, AsOnDisk
<1> QED
  BY <1>1, <1>2, <1>3, <1>4

\* One bad module does not hide the others: of files that nobody edits, every
\* reachable one that does not parse and every importer of a missing one is
\* named, and a cycle is printed exactly when there is one.
THEOREM EveryDefectIsReported == Spec => [](edits = 0 => EveryGraphDefectReported)
<1>1. Init => DiagnosticsType /\ DefectInv
  BY PrintedTypeInit, DefectInvInit
<1>2. TypeOK /\ LoaderInv /\ VerdictInv /\ VisitsAreReachable /\ DiagnosticsType
        /\ DefectInv /\ [Next]_vars => (DiagnosticsType /\ DefectInv)'
  BY PrintedTypeStep, DefectInvStep
<1>3. TypeOK /\ LoaderInv /\ VerdictInv /\ DefectInv
        => (edits = 0 => EveryGraphDefectReported)
  BY DefectsAreReported
<1> QED
  BY <1>1, <1>2, <1>3, TypeCorrect, LoaderInvariant, VerdictInvariant,
     ErrorsInvariant, PTL DEF Spec

-----------------------------------------------------------------------------
(* A whole command of the driver.                                          *)


\* What the text that was read a second time is known to be at each step.
TextFacts ==
  /\ step \in {"lower", "encode", "write", "insert", "close"} =>
       text \in Content /\ text.parses /\ text.sound
  /\ step \in {"encode", "write", "insert", "close"} => text \in Lowers
  /\ step \in {"write", "insert", "close"} /\ command = "emit-bytecode" => text \in Encodes
  /\ step \in {"lower", "encode", "write", "insert", "close"} /\ edits = 0 => text = disk[Entry]

\* Past the check, the check has returned 0, without an error of either kind.
CheckFacts ==
  /\ exit_code = 0 => phase = "exit" /\ ~semantic_error
  /\ step # "check" => exit_code = 0 /\ command # "check"

\* The inductive strengthening of the driver's safety properties.
DriverInv ==
  /\ DriverTypeOK
  /\ TextFacts
  /\ CheckFacts
  /\ step \in {"insert", "close"} => to_file
  /\ output # "old" => step \in {"insert", "close"}
  /\ result = 0 /\ command # "check" => step \in {"write", "close"}

-----------------------------------------------------------------------------
(* The check inside the command is the module loader. *)

\* Each step of the command is a step of the loader or leaves it alone.
LEMMA DriverStepIsLoaderStep ==
  ASSUME [DriverNext]_allVars
  PROVE  [Next]_vars
  BY DEF DriverNext, Run, CheckStep, CheckReturned, ReadAgain, Lower, Encode,
         PrintText, OpenOutput, Insert, CloseOutput, Kill, EditSource, allVars, Next

\* Whatever the loader keeps, the command keeps.
THEOREM CheckIsTheLoader == DriverSpec => [](TypeOK /\ LoaderInv /\ VerdictInv)
<1>1. DriverInit => TypeOK /\ LoaderInv /\ VerdictInv
  BY TypeInit, LoaderInvInit, VerdictInvInit DEF DriverInit
<1>2. TypeOK /\ LoaderInv /\ VerdictInv /\ [DriverNext]_allVars
        => (TypeOK /\ LoaderInv /\ VerdictInv)'
  BY DriverStepIsLoaderStep, TypeStep, LoaderInvStep, VerdictInvStep
<1> QED
  BY <1>1, <1>2, PTL DEF DriverSpec

-----------------------------------------------------------------------------
(* The inductive invariant. *)

\* Until the files are edited they stay as they are.
LEMMA FilesStay ==
  ASSUME TypeOK, [Next]_vars, edits' = 0
  PROVE  edits = 0 /\ disk' = disk
<1>1. edits \in Nat
  BY LoaderAssumption DEF TypeOK
<1>2. (edits' = edits /\ disk' = disk) \/ edits' = edits + 1
  BY DEF Next, Check, Load, EntryMissing, Start, AlreadyLoaded, CycleDetected,
     ParseFailed, Open, MissingImport, Import, Finish, Loaded, Analyse, Return,
     Edit, vars
<1> QED
  BY <1>1, <1>2

\* The invariant of the driver holds at the start,
LEMMA DriverInvInit ==
  ASSUME DriverInit
  PROVE  DriverInv
  BY LoaderAssumption
     DEF DriverInit, Init, DriverInv, DriverTypeOK, TextFacts, CheckFacts

\* The loader's own steps give exit code 0 only where no unit was unsound.
LEMMA CheckKeepsVerdict ==
  ASSUME TypeOK, LoaderInv, CheckFacts, Check
  PROVE  exit_code' = 0 => phase' = "exit" /\ ~semantic_error'
<1>1. phase # "exit" /\ exit_code = None /\ None # 0
  <2>1. phase # "exit"
    <3>1. CASE call # None \/ stack # <<>>
      BY <3>1 DEF LoaderInv, PhaseFacts
    <3>2. CASE call = None /\ stack = <<>>
      BY <3>2 DEF Check, Load, EntryMissing, Start, AlreadyLoaded, CycleDetected,
                  ParseFailed, Open, MissingImport, Import, Importing, Finish,
                  Loaded, Analyse, Return
    <3> QED
      BY <3>1, <3>2
  <2> QED
    BY <2>1, LoaderAssumption DEF LoaderInv, PhaseFacts
<1>2. CASE EntryMissing \/ Loaded
  BY <1>1, <1>2 DEF EntryMissing, Loaded
<1>3. CASE Return
  BY <1>3 DEF Return
<1>4. CASE ~(EntryMissing \/ Loaded \/ Return)
  <2>1. exit_code' = exit_code
    BY <1>4 DEF Check, Load, Start, AlreadyLoaded, CycleDetected, ParseFailed, Open,
                MissingImport, Import, Finish, Analyse
  <2> QED
    BY <1>1, <2>1
<1> QED
  BY <1>2, <1>3, <1>4

\* and each step of the driver or of the loader keeps it.
LEMMA DriverInvStep ==
  ASSUME TypeOK, LoaderInv, DriverInv, [DriverNext]_allVars
  PROVE  DriverInv'
<1> USE DEF DriverInv
<1>0. /\ None \notin {0, 1} /\ Lowers \subseteq Content /\ Encodes \subseteq Lowers
      /\ Aborted \notin {None, 0, 1} /\ Killed \notin {None, 0, 1}
      /\ edits' = 0 => edits = 0 /\ disk' = disk
  BY LoaderAssumption, DriverAssumption, DriverStepIsLoaderStep, FilesStay
<1>1. CASE CheckStep
  <2>1. /\ step = "check" /\ UNCHANGED <<command, to_file, step, text, output, result>>
        /\ exit_code' = 0 => phase' = "exit" /\ ~semantic_error'
    BY <1>1, CheckKeepsVerdict DEF CheckStep, driverVars
  <2> QED
    BY <1>0, <2>1 DEF DriverTypeOK, TextFacts, CheckFacts
<1>2. CASE CheckReturned
  <2>1. /\ step = "check" /\ result = None /\ UNCHANGED <<command, to_file, text, output, exit_code,
                                        phase, semantic_error>>
        /\ \/ result' = exit_code /\ step' = step /\ (command = "check" \/ exit_code # 0)
           \/ result' = result /\ step' = "compile" /\ command # "check" /\ exit_code = 0
    BY <1>2 DEF CheckReturned, vars, Running
  <2>2. exit_code \in {None, 0, 1}
    BY DEF TypeOK
  <2> QED
    BY <1>0, <2>1, <2>2 DEF DriverTypeOK, TextFacts, CheckFacts
<1>3. CASE ReadAgain
  <2>1. /\ step = "compile" /\ result = None
        /\ UNCHANGED <<command, to_file, output, exit_code, phase, semantic_error>>
        /\ text' = disk[Entry]
        /\ \/ /\ step' = "lower" /\ result' = result
              /\ text' # Absent /\ text'.parses /\ text'.sound
           \/ step' = step /\ result' = 1
    BY <1>3 DEF ReadAgain, vars, Running
  <2>2. text' \in Content \cup {Absent}
    BY <2>1, GraphAssumption DEF TypeOK, Disk
  <2> QED
    BY <1>0, <2>1, <2>2 DEF DriverTypeOK, TextFacts, CheckFacts
<1>4. CASE Lower \/ Encode
  <2>1. /\ UNCHANGED <<command, to_file, text, output, exit_code, phase, semantic_error>>
        /\ step \in {"lower", "encode"} /\ result = None
        /\ \/ step' = step /\ result' \in {1, Aborted}
           \/ /\ result' = result /\ text \in Lowers
              /\ step' \in {"encode", "write"}
              /\ step' = "write" /\ command = "emit-bytecode" => text \in Encodes
    BY <1>0, <1>4 DEF Lower, Encode, vars, TextFacts, Running
  <2> QED
    BY <1>0, <2>1 DEF DriverTypeOK, TextFacts, CheckFacts
<1>5. CASE PrintText \/ OpenOutput \/ Insert \/ CloseOutput
  <2>1. /\ UNCHANGED <<command, to_file, text, exit_code, phase, semantic_error>>
        /\ step \in {"write", "insert", "close"} /\ step' \in {step, "insert", "close"}
        /\ result' \in {result, 0, 1} /\ output' \in {output, "partial", "new"}
        /\ step' # "write" => to_file
        /\ output' # "old" => step' # "write"
        /\ result = None /\ (result' = 0 => step' \in {"write", "close"})
    BY <1>0, <1>5 DEF PrintText, OpenOutput, Insert, CloseOutput, vars, DriverTypeOK,
       Running
  <2> QED
    BY <1>0, <2>1 DEF DriverTypeOK, TextFacts, CheckFacts
<1>6. CASE Kill
  <2>1. /\ UNCHANGED <<command, to_file, step, text, output, exit_code, phase,
                       semantic_error>>
        /\ result' = Killed
    BY <1>6 DEF Kill, vars
  <2> QED
    BY <1>0, <2>1 DEF DriverTypeOK, TextFacts, CheckFacts
<1>7. CASE EditSource \/ UNCHANGED allVars
  <2>1. UNCHANGED <<command, to_file, step, text, output, result, exit_code, phase,
                    semantic_error>>
    BY <1>7 DEF EditSource, Edit, driverVars, allVars, vars
  <2> QED
    BY <1>0, <2>1 DEF DriverTypeOK, TextFacts, CheckFacts
<1> QED
  BY <1>1, <1>2, <1>3, <1>4, <1>5, <1>6, <1>7 DEF DriverNext, Run

\* The command's second text, exit code and output agree with its step.
THEOREM DriverInvariant == DriverSpec => []DriverInv
<1>1. DriverInit => DriverInv
  BY DriverInvInit
<1>2. TypeOK /\ LoaderInv /\ DriverInv /\ [DriverNext]_allVars => DriverInv'
  BY DriverInvStep
<1> QED
  BY <1>1, <1>2, CheckIsTheLoader, PTL DEF DriverSpec

-----------------------------------------------------------------------------
(* The theorems. *)

\* Every variable of the command keeps its type.
THEOREM DriverTypeCorrect == DriverSpec => []DriverTypeOK
<1>1. DriverInv => DriverTypeOK
  BY DEF DriverInv
<1> QED
  BY <1>1, DriverInvariant, PTL

\* The output is touched only for a graph that was accepted and for a text
\* that itself was parsed, analysed, lowered and, as bytecode, encoded.
THEOREM OutputHolds == DriverSpec => []OutputIsOfAcceptedProgram
<1>1. LoaderInv /\ DriverInv => OutputIsOfAcceptedProgram
  BY DEF DriverInv, TextFacts, CheckFacts, LoaderInv, PhaseFacts,
         OutputIsOfAcceptedProgram
<1> QED
  BY <1>1, CheckIsTheLoader, DriverInvariant, PTL

\* Without edits, what a command emits with exit code 0 is the unit its check
\* loaded, and the files are a well-formed program.
THEOREM EmissionHolds == DriverSpec => []EmitsWhatWasChecked
<1>1. TypeOK /\ LoaderInv /\ VerdictInv /\ DriverInv => EmitsWhatWasChecked
  <2> SUFFICES ASSUME TypeOK, LoaderInv, VerdictInv, DriverInv,
                      result = 0, edits = 0, command # "check"
               PROVE  text = units[Entry] /\ Accepts(disk)
    BY DEF EmitsWhatWasChecked
  <2>1. exit_code = 0 /\ text = disk[Entry]
    BY DEF DriverInv, TextFacts, CheckFacts
  <2>2. AcceptedMeansWellFormed /\ Accepts(disk)
    BY <2>1, AcceptanceFollows, AcceptedIsDeserved
  <2>3. units[Entry] = disk[Entry]
    BY <2>1, <2>2 DEF AcceptedMeansWellFormed, VerdictInv, ReadFromDisk, AsOnDisk
  <2> QED
    BY <2>1, <2>2, <2>3
<1> QED
  BY <1>1, CheckIsTheLoader, DriverInvariant, PTL

\* A command that does not write never leaves half a file, and one that writes
\* leaves it only from the opening of the file on.
THEOREM PartialHolds == DriverSpec => []PartialOnlyByWriting
<1>1. DriverInv => PartialOnlyByWriting
  BY DEF DriverInv, CheckFacts, PartialOnlyByWriting
<1> QED
  BY <1>1, DriverInvariant, PTL
=============================================================================
