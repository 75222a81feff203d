---------------------------- MODULE WorkspaceProofs ----------------------------
(***************************************************************************)
(* Proofs about Workspace, for any places, trees, replies and limits.      *)
(***************************************************************************)
EXTENDS Workspace, FiniteSetTheorems, SequenceTheorems, TLAPS

Path == Seq(STRING)

-----------------------------------------------------------------------------
(* Paths and texts.                                                        *)

\* A prefix, component by component.
LEMMA PrefixIs ==
  ASSUME NEW S, NEW s \in Seq(S), NEW t \in Seq(S)
  PROVE  IsPrefix(s, t) <=> Len(s) <= Len(t) /\ \A i \in 1..Len(s) : s[i] = t[i]
<1>1. Len(s) \in Nat /\ Len(t) \in Nat
  BY LenProperties
<1>2. ASSUME Len(s) <= Len(t)
      PROVE  SubSeq(s, 1, Len(s)) = SubSeq(t, 1, Len(s)) <=> \A i \in 1..Len(s) : s[i] = t[i]
  <2>1. /\ SubSeq(s, 1, Len(s)) \in Seq(S) /\ Len(SubSeq(s, 1, Len(s))) = Len(s)
        /\ \A i \in 1..Len(s) : SubSeq(s, 1, Len(s))[i] = s[i]
    BY <1>1
  <2>2. /\ SubSeq(t, 1, Len(s)) \in Seq(S) /\ Len(SubSeq(t, 1, Len(s))) = Len(s)
        /\ \A i \in 1..Len(s) : SubSeq(t, 1, Len(s))[i] = t[i]
    BY <1>1, <1>2
  <2>3. QED
    BY <1>1, <2>1, <2>2, SeqEqual
<1>3. QED
  BY <1>2 DEF IsPrefix

LEMMA PrefixOrder ==
  ASSUME NEW S, NEW s \in Seq(S), NEW t \in Seq(S), NEW u \in Seq(S)
  PROVE  /\ IsPrefix(s, s)
         /\ IsPrefix(s, t) /\ IsPrefix(t, u) => IsPrefix(s, u)
         /\ IsPrefix(s, t) /\ IsPrefix(t, s) => s = t
         /\ IsPrefix(s, u) /\ IsPrefix(t, u) /\ Len(s) <= Len(t) => IsPrefix(s, t)
<1>1. Len(s) \in Nat /\ Len(t) \in Nat /\ Len(u) \in Nat
  BY LenProperties
<1>2. IsPrefix(s, s)
  BY <1>1, PrefixIs
<1>3. IsPrefix(s, t) /\ IsPrefix(t, u) => IsPrefix(s, u)
  BY <1>1, PrefixIs
<1>4. IsPrefix(s, t) /\ IsPrefix(t, s) => s = t
  BY <1>1, PrefixIs, SeqEqual
<1>5. IsPrefix(s, u) /\ IsPrefix(t, u) /\ Len(s) <= Len(t) => IsPrefix(s, t)
  BY <1>1, PrefixIs
<1>6. QED
  BY <1>2, <1>3, <1>4, <1>5

\* Everything above p is above or at its directory.
LEMMA FrontIs ==
  ASSUME NEW S, NEW p \in Seq(S), Len(p) > 0
  PROVE  /\ Front(p) \in Seq(S) /\ Len(Front(p)) = Len(p) - 1
         /\ IsPrefix(Front(p), p) /\ Front(p) # p
         /\ \A q \in Seq(S) : IsPrefix(q, p) /\ q # p => IsPrefix(q, Front(p))
<1>1. Len(p) \in Nat /\ Len(p) - 1 \in Nat
  BY LenProperties
<1>2. /\ Front(p) \in Seq(S) /\ Len(Front(p)) = Len(p) - 1
      /\ \A i \in 1..(Len(p) - 1) : Front(p)[i] = p[i]
  BY <1>1 DEF Front
<1>3. IsPrefix(Front(p), p) /\ Front(p) # p
  BY <1>1, <1>2, PrefixIs
<1>4. ASSUME NEW q \in Seq(S), IsPrefix(q, p), q # p PROVE IsPrefix(q, Front(p))
  <2>1. Len(q) \in Nat /\ Len(q) <= Len(p) /\ \A i \in 1..Len(q) : q[i] = p[i]
    BY <1>4, PrefixIs, LenProperties
  <2>2. Len(q) # Len(p)
    BY <1>1, <1>4, <2>1, SeqEqual
  <2>3. QED
    BY <1>1, <1>2, <2>1, <2>2, PrefixIs
<1>5. QED
  BY <1>2, <1>3, <1>4

LEMMA TextIs ==
  ASSUME NEW t
  PROVE  t \in Texts <=> t \in Seq(Unit) /\ Len(t) <= MaxLen
<1>1. MaxLen \in Nat
  BY WorkspaceAssumption
<1>2. ASSUME t \in Texts PROVE t \in Seq(Unit) /\ Len(t) <= MaxLen
  <2>1. PICK n \in 0..MaxLen : t \in [1..n -> Unit]
    BY <1>2 DEF Texts
  <2>2. n \in Nat
    OBVIOUS
  <2>3. t \in Seq(Unit) /\ Len(t) = n
    BY <2>1, <2>2
  <2>4. QED
    BY <1>1, <2>3
<1>3. ASSUME t \in Seq(Unit), Len(t) <= MaxLen PROVE t \in Texts
  <2>1. Len(t) \in 0..MaxLen /\ t \in [1..Len(t) -> Unit]
    BY <1>1, <1>3, LenProperties
  <2>2. QED
    BY <2>1 DEF Texts
<1>4. QED
  BY <1>2, <1>3

LEMMA NodeIs ==
  ASSUME NEW n \in Node
  PROVE  /\ n.kind \in {"none", "dir", "file"}
         /\ n.text \in Seq(Unit) /\ Len(n.text) \in Nat /\ Len(n.text) <= MaxLen
         /\ n.kind = "none" => n = None
         /\ n.kind = "file" => n = File(n.text)
<1>1. MaxLen \in Nat /\ <<>> \in Seq(Unit) /\ Len(<<>>) = 0
  BY WorkspaceAssumption, EmptySeq
<1>2. CASE n = None
  <2>1. n.kind = "none" /\ n.text = <<>>
    BY <1>2 DEF None
  <2>2. QED
    BY <1>1, <1>2, <2>1
<1>3. CASE n = Dir
  <2>1. n.kind = "dir" /\ n.text = <<>>
    BY <1>3 DEF Dir
  <2>2. QED
    BY <1>1, <2>1
<1>4. ASSUME NEW t \in Texts, n = File(t)
      PROVE  n.kind = "file" /\ n.text = t /\ t \in Seq(Unit) /\ Len(t) \in Nat /\ Len(t) <= MaxLen
  BY <1>4, TextIs, LenProperties DEF File
<1>5. QED
  BY <1>2, <1>3, <1>4 DEF Node

LEMMA FileIsNode ==
  ASSUME NEW t \in Seq(Unit), Len(t) <= MaxLen
  PROVE  File(t) \in Node /\ File(t).kind = "file" /\ File(t).text = t
BY TextIs DEF Node, File

-----------------------------------------------------------------------------
(* Trees of files.                                                         *)

LEMMA PlaceIsPath == Place \subseteq Path
BY PathsAssumption DEF Path

LEMMA AboveIs ==
  ASSUME NEW p \in Place, NEW q
  PROVE  q \in Above(p) <=> q \in Place /\ IsPrefix(q, p) /\ q # p
BY DEF Above, Within

LEMMA AboveAbove ==
  ASSUME NEW p \in Place, NEW q \in Above(p)
  PROVE  /\ q \in Place /\ p \notin Above(q) /\ Above(q) \subseteq Above(p)
         /\ p \notin Above(p)
<1>1. q \in Place /\ IsPrefix(q, p) /\ q # p /\ p \in Path /\ q \in Path
  BY AboveIs, PlaceIsPath
<1>2. p \notin Above(q) /\ p \notin Above(p)
  BY <1>1, AboveIs, PrefixOrder DEF Path
<1>3. ASSUME NEW r \in Above(q) PROVE r \in Above(p)
  <2>1. r \in Place /\ IsPrefix(r, q) /\ r # q /\ r \in Path
    BY <1>1, AboveIs, PlaceIsPath
  <2>2. IsPrefix(r, p)
    BY <1>1, <2>1, PrefixOrder DEF Path
  <2>3. r # p
    BY <1>1, <2>1, PrefixOrder DEF Path
  <2>4. QED
    BY <2>1, <2>2, <2>3, AboveIs
<1>4. QED
  BY <1>1, <1>2, <1>3

\* The directory of a place that has anything above it.
LEMMA FrontAbove ==
  ASSUME NEW p \in Place, Above(p) # {}
  PROVE  /\ Front(p) \in Above(p) /\ Len(Front(p)) = Len(p) - 1 /\ Len(p) \in Nat \ {0}
         /\ \A q \in Above(p) : q = Front(p) \/ q \in Above(Front(p))
<1>1. p \in Path /\ Front(p) \in Place
  BY PlaceIsPath, PathsAssumption
<1>2. PICK q \in Place : IsPrefix(q, p) /\ q # p
  BY AboveIs
<1>3. Len(p) > 0 /\ Len(p) \in Nat
  <2>0. Len(p) \in Nat
    BY <1>1, LenProperties DEF Path
  <2>1. q \in Path
    BY PlaceIsPath
  <2>2. SUFFICES ASSUME Len(p) = 0 PROVE FALSE
    BY <2>0
  <2>3. Len(q) = 0
    <3>1. Len(q) \in Nat
      BY <2>1, LenProperties DEF Path
    <3>2. Len(q) <= Len(p)
      BY <1>1, <1>2, <2>1, PrefixIs DEF Path
    <3>3. QED
      BY <2>2, <3>1, <3>2
  <2>4. QED
    BY <1>1, <1>2, <2>1, <2>2, <2>3, SeqEqual DEF Path
<1>4. /\ Len(Front(p)) = Len(p) - 1 /\ IsPrefix(Front(p), p) /\ Front(p) # p
      /\ \A r \in Path : IsPrefix(r, p) /\ r # p => IsPrefix(r, Front(p))
  BY <1>1, <1>3, FrontIs DEF Path
<1>5. Front(p) \in Above(p)
  BY <1>1, <1>4, AboveIs
<1>6. \A r \in Above(p) : r = Front(p) \/ r \in Above(Front(p))
  BY <1>1, <1>4, AboveIs, PlaceIsPath
<1>7. QED
  BY <1>3, <1>4, <1>5, <1>6

\* An entry of a directory is below it.
LEMMA EntryBelow ==
  ASSUME NEW d \in Place, NEW p \in Place, p # d, Front(p) = d
  PROVE  d \in Above(p) /\ Len(p) = Len(d) + 1
<1>1. p \in Path /\ d \in Path /\ Len(p) \in Nat
  BY PlaceIsPath, LenProperties DEF Path
<1>2. Len(p) # 0
  <2>1. SUFFICES ASSUME Len(p) = 0 PROVE FALSE
    OBVIOUS
  <2>2. p = <<>>
    BY <1>1, <2>1 DEF Path
  <2>3. Front(<<>>) = <<>>
    BY DEF Front
  <2>4. QED
    BY <2>2, <2>3
<1>3. Len(d) = Len(p) - 1 /\ IsPrefix(d, p)
  BY <1>1, <1>2, FrontIs DEF Path
<1>4. QED
  BY <1>1, <1>3, AboveIs

\* A file comes or goes where there is a directory and none in its way.
LEMMA PutFile ==
  ASSUME FileTree(fs), NEW p \in Place, NEW n \in Node, n.kind # "dir", ~IsDir(p),
         n.kind = "none" \/ \A q \in Above(p) : IsDir(q)
  PROVE  FileTree([fs EXCEPT ![p] = n])
<1> DEFINE g == [fs EXCEPT ![p] = n]
<1>1. g \in [Place -> Node] /\ \A q \in Place : g[q] = IF q = p THEN n ELSE fs[q]
  BY DEF FileTree
<1>2. ASSUME NEW r \in Place, g[r].kind # "none", NEW q \in Above(r) PROVE g[q].kind = "dir"
  <2>1. q \in Place
    BY AboveAbove
  <2>2. CASE r = p
    BY <1>1, <1>2, <2>1, <2>2, AboveAbove DEF IsDir
  <2>3. CASE r # p
    <3>1. IsDir(q)
      BY <1>1, <1>2, <2>3 DEF FileTree, IsDir
    <3>2. q # p
      BY <3>1
    <3>3. QED
      BY <1>1, <2>1, <3>1, <3>2 DEF IsDir
  <2>4. QED
    BY <2>2, <2>3
<1> HIDE DEF g
<1>3. FileTree(g)
  BY <1>1, <1>2 DEF FileTree
<1>4. QED
  BY <1>3 DEF g

\* create_dir_all makes all that was missing above p.
LEMMA MakeDirs ==
  ASSUME FileTree(fs), NEW p \in Place, ~\E q \in Above(p) : IsFile(q),
         NEW g, g = [q \in Place |-> IF q \in MissingParents(p) THEN Dir ELSE fs[q]]
  PROVE  /\ FileTree(g) /\ \A q \in Above(p) : g[q].kind = "dir"
         /\ \A q \in Place : Exists(q) => g[q] = fs[q]
         /\ \A q \in Place : g[q] # fs[q] => q \in MissingParents(p) /\ g[q] = Dir
<1>1. \A q \in Place : g[q] = IF q \in MissingParents(p) THEN Dir ELSE fs[q]
  OBVIOUS
<1>2. Dir \in Node /\ Dir.kind = "dir"
  BY DEF Node, Dir
<1>3. g \in [Place -> Node]
  BY <1>1, <1>2 DEF FileTree
<1>4. ASSUME NEW q \in Above(p) PROVE g[q].kind = "dir"
  <2>1. q \in Place
    BY AboveAbove
  <2>2. fs[q].kind \in {"none", "dir", "file"}
    BY <2>1, NodeIs DEF FileTree
  <2>3. QED
    BY <1>1, <1>2, <2>1, <2>2 DEF MissingParents, Exists, IsFile
<1>5. ASSUME NEW r \in Place, g[r].kind # "none", NEW q \in Above(r) PROVE g[q].kind = "dir"
  <2>1. q \in Place
    BY AboveAbove
  <2>2. CASE r \in MissingParents(p)
    <3>1. q \in Above(p)
      BY <2>2, AboveAbove DEF MissingParents
    <3>2. QED
      BY <1>4, <3>1
  <2>3. CASE r \notin MissingParents(p)
    <3>1. fs[q].kind = "dir"
      BY <1>1, <1>5, <2>3 DEF FileTree
    <3>2. q \notin MissingParents(p)
      BY <3>1 DEF MissingParents, Exists
    <3>3. QED
      BY <1>1, <2>1, <3>1, <3>2
  <2>4. QED
    BY <2>2, <2>3
<1>6. \A q \in Place : Exists(q) => q \notin MissingParents(p)
  BY DEF MissingParents
<1>7. QED
  BY <1>1, <1>3, <1>4, <1>5, <1>6 DEF FileTree

-----------------------------------------------------------------------------
(* The answer a step carries out.                                          *)

LEMMA TargetIsPlace == Decoded(said) => Target \in Place
<1> SUFFICES ASSUME Decoded(said) PROVE Target \in Place
  OBVIOUS
<1>1. At(<<>>) \in Place
  BY WorkspaceAssumption DEF At, Reached, Resolve
<1>2. \A f \in {"path", "root"} \cap DOMAIN said : At(said[f]) \in Place
  BY DEF Decoded
<1>3. \A f \in {"path", "root"} : \A d : At(d) \in Place => At(Arg(f, d)) \in Place
  BY <1>2 DEF Arg
<1>4. /\ At(Arg("root", <<>>)) \in Place /\ At(Arg("path", <<>>)) \in Place
      /\ At(Arg("path", <<"retina-output.txt">>)) \in Place
  BY <1>1, <1>3, RepliesAssumption
<1>5. \/ Named = Arg("root", <<>>) \/ Named = Arg("path", <<>>)
      \/ Named = Arg("path", <<"retina-output.txt">>)
  BY DEF Named
<1>6. QED
  BY <1>4, <1>5 DEF Target

LEMMA Arguments ==
  ASSUME Decoded(said)
  PROVE  /\ Arg("content", <<>>) \in Seq(Unit)
         /\ \A f \in Numbers : \A d \in Nat : Arg(f, d) \in Nat
<1>1. Arg("content", <<>>) \in Seq(Unit)
  BY EmptySeq DEF Decoded, Arg
<1>2. \A f \in Numbers : \A d \in Nat : Arg(f, d) \in Nat
  BY DEF Decoded, Arg
<1>3. QED
  BY <1>1, <1>2

\* Everything that is read off the answer stays while the answer does.
LEMMA SameAnswer ==
  ASSUME UNCHANGED said
  PROVE  /\ Op' = Op /\ Named' = Named /\ Target' = Target /\ Tracked' = Tracked
         /\ WithContent' = WithContent /\ ExpectsChange' = ExpectsChange
         /\ Overwrite' = Overwrite /\ Cap' = Cap
         /\ \A f, d : Arg(f, d)' = Arg(f, d)
<1>1. Op' = Op
  BY DEF Op
<1>2. \A f, d : Arg(f, d)' = Arg(f, d)
  BY DEF Arg
<1>3. Named' = Named
  BY <1>1, <1>2 DEF Named, Arg
<1>4. Target' = Target
  BY <1>3 DEF Target
<1>5. Tracked' = Tracked
  BY <1>1, <1>3 DEF Tracked, Given
<1>6. /\ WithContent' = WithContent /\ ExpectsChange' = ExpectsChange
      /\ Overwrite' = Overwrite
  BY <1>1 DEF WithContent, ExpectsChange, Overwrite, Arg, Given
<1>7. Cap' = Cap
  BY <1>1 DEF Cap, Arg
<1>8. QED
  BY <1>1, <1>2, <1>3, <1>4, <1>5, <1>6, <1>7

LEMMA TrackedIs == Tracked = {} \/ Tracked = {Named}
BY DEF Tracked

\* What a visit can find: the place itself, or lines of its file.
LEMMA HitsAtPlace ==
  ASSUME FileTree(fs), NEW p \in Place
  PROVE  Hits(p) \subseteq {p} \X (0..MaxLen)
<1>1. /\ MaxLen \in Nat /\ fs[p].text \in Seq(Unit) /\ Len(fs[p].text) \in Nat
      /\ Len(fs[p].text) <= MaxLen
  BY NodeIs, WorkspaceAssumption DEF FileTree
<1>2. DOMAIN fs[p].text \subseteq 0..MaxLen
  BY <1>1, LenProperties
<1>3. 0 \in 0..MaxLen
  BY <1>1
<1>4. \A i \in 0..MaxLen : <<p, i>> \in {p} \X (0..MaxLen)
  OBVIOUS
<1>5. CASE Op \in {"list_directory", "find_files"}
  BY <1>3, <1>4, <1>5 DEF Hits
<1>6. CASE Op \notin {"list_directory", "find_files"}
  <2>1. Hits(p) = {} \/ Hits(p) = {<<p, i>> : i \in {i \in DOMAIN fs[p].text : fs[p].text[i] = "x"}}
    BY <1>6 DEF Hits
  <2>2. QED
    BY <1>2, <1>4, <2>1
<1>7. QED
  BY <1>5, <1>6

-----------------------------------------------------------------------------
(* Types, and where a step is.                                             *)

PathState ==
  [exists : BOOLEAN, size : Nat, modified : BOOLEAN, hash : SUBSET Seq(Unit)]

TypeInv ==
  /\ FileTree(fs) /\ authority \in Authorities /\ Decoded(said)
  /\ pc \in Places
  /\ pre \cup post \subseteq PathState
  /\ pre = {} \/ \E s : pre = {s}
  /\ post = {} \/ \E s : post = {s}
  /\ last \in 0..1 /\ lastPre \in 0..1 /\ existed \in BOOLEAN
  /\ todo \cup touched \subseteq Place /\ meddled \in BOOLEAN
  /\ found \subseteq Place \X (0..MaxLen)
  /\ delta.kind \in {"none", "unchanged", "as_expected", "unexpected"}

\* After the first capture the tracked path is within the authority; a write is
\* opened with its directories made, and over a file that was there only when
\* the answer says so; a traversal stays below its root.
StepInv ==
  /\ pc \notin {"idle", "capture"} => \A n \in Tracked : PathAllowed(n)
  /\ pc = "walk" => Op \in Walks
  /\ pc \in {"parents", "open"} => Op \in Writes
  /\ pc = "open" => /\ \A q \in Above(Target) : IsDir(q)
                    /\ Op = "write_file" /\ existed => Overwrite
  /\ pc \notin {"walk", "recapture"} => todo = {} /\ found = {}
  /\ \A p \in todo : Target \in Above(p)
  /\ \A h \in found : Op \in Walks /\ Target \in Above(h[1])

\* The operations of the shell but opening and writing a file, and commands.
Passes ==
  /\ Still /\ UNCHANGED <<said, capture, delta, history>>
  /\ \/ pc \in {"execute", "walk"} /\ pc' = "walk" /\ Op \in Walks
     \/ pc = "execute" /\ pc' = "parents" /\ Op \in Writes /\ todo' = {} /\ found' = {}
     \/ pc \in {"execute", "walk"} /\ pc' = "recapture" /\ Op \notin Writes \cup {"run_command"}
  /\ existed' \in BOOLEAN
  /\ todo' \subseteq Place /\ found' \subseteq Place \X (0..MaxLen)
  /\ \A p \in todo' : Target \in Above(p)
  /\ \A h \in found' : Op \in Walks /\ Target \in Above(h[1])

Ends == Over /\ FileTree(fs')

LEMMA ReadsPass ==
  ASSUME TypeInv, StepInv, ReadFile \/ Ingest \/ Extract \/ Inspect
  PROVE  Ends \/ Passes
<1> DEFINE Reads == /\ pc = "execute" /\ Still /\ Op \notin Writes \cup {"run_command"}
                    /\ \E r : Answered(r)
<1>1. CASE ReadFile
  <2>1. Fail \/ Reads
    BY <1>1 DEF ReadFile, Executing, Writes
  <2>2. QED
    BY <2>1 DEF Fail, Ends, Passes, Answered, TypeInv, StepInv
<1>2. CASE Ingest
  <2>1. Fail \/ Reads
    BY <1>2 DEF Ingest, Executing, Writes
  <2>2. QED
    BY <2>1 DEF Fail, Ends, Passes, Answered, TypeInv, StepInv
<1>3. CASE Extract
  <2>1. Fail \/ Reads
    BY <1>3 DEF Extract, Executing, Writes
  <2>2. QED
    BY <2>1 DEF Fail, Ends, Passes, Answered, TypeInv, StepInv
<1>4. CASE Inspect
  <2>1. Reads
    BY <1>4 DEF Inspect, Writes
  <2>2. QED
    BY <2>1 DEF Fail, Ends, Passes, Answered, TypeInv, StepInv
<1>5. QED
  BY <1>1, <1>2, <1>3, <1>4

LEMMA ChildrenBelow ==
  ASSUME NEW d \in Place
  PROVE  Children(d) \subseteq Place /\ \A p \in Children(d) : d \in Above(p)
BY EntryBelow DEF Children

LEMMA WalksPass ==
  ASSUME TypeInv, StepInv, StartWalk \/ Visit \/ EndWalk
  PROVE  Ends \/ Passes
<1>1. Target \in Place
  BY TargetIsPlace DEF TypeInv
<1>2. CASE StartWalk
  <2>1. CASE IsDir(Target)
    <3>1. /\ pc = "execute" /\ Op \in Walks /\ pc' = "walk"
          /\ todo' = Children(Target) /\ found' = {}
          /\ Still /\ UNCHANGED <<said, capture, existed, result, delta, history>>
      BY <1>2, <2>1 DEF StartWalk
    <3>2. QED
      BY <1>1, <3>1, ChildrenBelow DEF Passes, TypeInv
  <2>2. CASE ~IsDir(Target)
    BY <1>2, <2>2 DEF StartWalk, Fail, Ends, TypeInv
  <2>3. QED
    BY <2>1, <2>2
<1>3. CASE Visit
  <2>1. PICK p \in todo :
          IF Exists(p)
          THEN \E h \in SUBSET Hits(p) :
                 /\ found' = found \cup h /\ todo' = Entries(p) /\ Still
                 /\ UNCHANGED <<pc, said, capture, existed, result, delta, history>>
          ELSE Fail
    BY <1>3 DEF Visit
  <2>2. CASE ~Exists(p)
    BY <2>1, <2>2 DEF Fail, Ends, TypeInv
  <2>3. CASE Exists(p)
    <3>1. PICK h \in SUBSET Hits(p) :
            /\ found' = found \cup h /\ todo' = Entries(p) /\ Still
            /\ UNCHANGED <<pc, said, capture, existed, result, delta, history>>
      BY <2>1, <2>3
    <3>2. p \in Place /\ Target \in Above(p)
      BY DEF TypeInv, StepInv
    <3>3. \A q \in Children(p) : q \in Place /\ Target \in Above(q)
      BY <3>2, ChildrenBelow, AboveAbove
    <3>4. todo' \subseteq Place /\ \A q \in todo' : Target \in Above(q)
      BY <3>1, <3>3 DEF Entries, TypeInv, StepInv
    <3>5. h \subseteq {p} \X (0..MaxLen)
      BY <3>2, HitsAtPlace DEF TypeInv
    <3>6. found' \subseteq Place \X (0..MaxLen) /\ \A e \in found' : Target \in Above(e[1])
      BY <3>1, <3>2, <3>5 DEF TypeInv, StepInv
    <3>7. pc = "walk" /\ Op \in Walks
      BY <1>3 DEF Visit, StepInv
    <3>8. QED
      BY <3>1, <3>4, <3>6, <3>7 DEF Passes, TypeInv
  <2>4. QED
    BY <2>2, <2>3
<1>4. CASE EndWalk
  <2>1. /\ pc = "walk" /\ pc' = "recapture" /\ Still
        /\ UNCHANGED <<said, capture, existed, todo, found, delta, history>>
    BY <1>4 DEF EndWalk, Answered
  <2>2. Op \in Walks /\ Op \notin Writes \cup {"run_command"}
    BY <2>1 DEF StepInv, Walks, Writes
  <2>3. QED
    BY <2>1, <2>2 DEF Passes, TypeInv, StepInv
<1>5. QED
  BY <1>2, <1>3, <1>4

\* Only four operations of a step change files.
LEMMA FilesKept ==
  ASSUME Step
  PROVE  \/ UNCHANGED fs
         \/ MakeParents \/ WriteContent \/ WriteFails \/ RunCommand
<1> USE DEF Fail, Still, Answered, world
<1>1. CASE \E task \in Task, r \in Reply : Reason(task, r) \/ ReasonFails(task, r)
  BY <1>1 DEF Reason, ReasonFails
<1>2. CASE CapturePre \/ HashPre \/ Refuse
  BY <1>2 DEF CapturePre, HashPre, Refuse
<1>3. CASE ReadFile \/ Ingest \/ Inspect
  BY <1>3 DEF ReadFile, Ingest, Inspect
<1>4. CASE Extract
  BY <1>4 DEF Extract
<1>5. CASE StartWalk \/ Visit \/ EndWalk
  BY <1>5 DEF StartWalk, Visit, EndWalk
<1>6. CASE CheckTarget \/ ParentsFail \/ CommandFails \/ Return
  BY <1>6 DEF CheckTarget, ParentsFail, CommandFails, Return
<1>7. CASE CapturePost \/ HashPost \/ Compare
  BY <1>7 DEF CapturePost, HashPost, Compare
<1>8. QED
  BY <1>1, <1>2, <1>3, <1>4, <1>5, <1>6, <1>7 DEF Step

LEMMA WriteFileTree ==
  ASSUME TypeInv, StepInv, pc = "open", ~IsDir(Target),
         NEW t \in Seq(Unit), Len(t) <= MaxLen
  PROVE  FileTree([fs EXCEPT ![Target] = File(t)])
<1>1. Target \in Place /\ FileTree(fs) /\ \A q \in Above(Target) : IsDir(q)
  BY TargetIsPlace DEF TypeInv, StepInv
<1>2. File(t) \in Node /\ File(t).kind = "file"
  BY FileIsNode
<1>3. QED
  BY <1>1, <1>2, PutFile

\* The text a write leaves, and the one a failed write leaves.
LEMMA NewTextIs ==
  ASSUME TypeInv
  PROVE  /\ NewText(fs[Target].text) \in Seq(Unit)
         /\ fs[Target].text \in Seq(Unit) /\ Len(fs[Target].text) <= MaxLen
         /\ <<>> \in Seq(Unit) /\ Len(<<>>) <= MaxLen
<1>1. /\ fs[Target].text \in Seq(Unit) /\ Len(fs[Target].text) \in Nat
      /\ Len(fs[Target].text) <= MaxLen
  BY TargetIsPlace, NodeIs DEF TypeInv, FileTree
<1>2. Arg("content", <<>>) \in Seq(Unit)
  BY Arguments DEF TypeInv
<1>3. fs[Target].text \o Arg("content", <<>>) \in Seq(Unit)
  BY <1>1, <1>2
<1>4. <<>> \in Seq(Unit) /\ Len(<<>>) <= MaxLen
  BY EmptySeq, WorkspaceAssumption
<1>5. QED
  BY <1>1, <1>2, <1>3, <1>4 DEF NewText

\* What other processes and commands write leaves a tree of files.
LEMMA ForeignFileTree ==
  ASSUME FileTree(fs), NEW p \in Foreign, ~IsDir(p),
         NEW n \in {None} \cup {File(t) : t \in ForeignText},
         n = None \/ IsDir(Front(p))
  PROVE  FileTree([fs EXCEPT ![p] = n])
<1>1. p \in Place /\ Above(p) # {}
  BY WorkspaceAssumption, PathsAssumption
<1>2. n \in Node /\ n.kind # "dir" /\ (n.kind = "none" <=> n = None)
  BY TreesAssumption DEF Node, None, File
<1>3. ASSUME IsDir(Front(p)), NEW q \in Above(p) PROVE IsDir(q)
  <2>1. q = Front(p) \/ q \in Above(Front(p))
    BY <1>1, FrontAbove
  <2>2. Front(p) \in Place
    BY <1>1, PathsAssumption
  <2>3. QED
    BY <1>3, <2>1, <2>2 DEF FileTree, IsDir
<1>4. QED
  BY <1>1, <1>2, <1>3, PutFile

\* A write or its preparation: directories and files stay a tree.
LEMMA WritesEnd ==
  ASSUME TypeInv, StepInv, CheckTarget \/ MakeParents \/ ParentsFail \/ WriteFails
  PROVE  Ends \/ Passes \/ (MakeParents /\ pc' = "open")
<1>1. CASE CheckTarget
  <2>1. /\ pc = "execute" /\ Op \in Writes /\ existed' = Exists(Target) /\ pc' = "parents"
        /\ Still /\ UNCHANGED <<said, capture, todo, found, result, delta, history>>
    BY <1>1 DEF CheckTarget
  <2>2. existed' \in BOOLEAN
    BY <2>1 DEF Exists
  <2>3. todo' = {} /\ found' = {}
    BY <2>1 DEF StepInv
  <2>4. QED
    BY <2>1, <2>2, <2>3 DEF Passes
<1>2. CASE MakeParents
  <2>1. CASE Op = "write_file" /\ existed /\ ~Overwrite
    <3> DEFINE g == [q \in Place |-> IF q \in MissingParents(Target) THEN Dir ELSE fs[q]]
    <3>1. fs' = g /\ Over /\ ~\E q \in Above(Target) : IsFile(q)
      BY <1>2, <2>1 DEF MakeParents
    <3>2. FileTree(g)
      BY <3>1, MakeDirs, TargetIsPlace DEF TypeInv
    <3>3. QED
      BY <3>1, <3>2 DEF Ends
  <2>2. CASE ~(Op = "write_file" /\ existed /\ ~Overwrite)
    BY <1>2, <2>2 DEF MakeParents, Goto
  <2>3. QED
    BY <2>1, <2>2
<1>3. CASE ParentsFail
  BY <1>3 DEF ParentsFail, Fail, Ends, TypeInv
<1>4. CASE WriteFails
  <2>1. CASE IsDir(Target)
    BY <1>4, <2>1 DEF WriteFails, Ends, TypeInv
  <2>2. CASE ~IsDir(Target)
    <3>1. PICK t : /\ fs' = [fs EXCEPT ![Target] = File(t)]
                   /\ t = fs[Target].text \/ t = <<>>
      BY <1>4, <2>2 DEF WriteFails
    <3>2. t \in Seq(Unit) /\ Len(t) <= MaxLen
      BY <3>1, NewTextIs
    <3>3. pc = "open" /\ Over
      BY <1>4 DEF WriteFails
    <3>4. FileTree(fs')
      BY <2>2, <3>1, <3>2, <3>3, WriteFileTree
    <3>5. QED
      BY <3>3, <3>4 DEF Ends
  <2>3. QED
    BY <2>1, <2>2
<1>5. QED
  BY <1>1, <1>2, <1>3, <1>4

\* The steps, grouped by what they do.
LEMMA StepCases ==
  ASSUME TypeInv, StepInv, Step
  PROVE  \/ Ends \/ Passes
         \/ \E task \in Task, r \in Reply : Reason(task, r)
         \/ CapturePre /\ \A n \in Tracked : PathAllowed(n)
         \/ HashPre /\ IsFile(Target)
         \/ MakeParents /\ pc' = "open"
         \/ WriteContent \/ RunCommand \/ CapturePost
         \/ HashPost /\ IsFile(Target)
         \/ Compare
<1>1. Fail => Ends
  BY DEF Fail, Ends, TypeInv
<1>2. CASE \E task \in Task, r \in Reply : ReasonFails(task, r)
  BY <1>1, <1>2 DEF ReasonFails
<1>3. CASE Refuse \/ CommandFails \/ Return
  BY <1>1, <1>3 DEF Refuse, CommandFails, Return
<1>4. CASE CapturePre /\ ~\A n \in Tracked : PathAllowed(n)
  BY <1>1, <1>4 DEF CapturePre
<1>5. CASE (HashPre \/ HashPost) /\ ~IsFile(Target)
  BY <1>1, <1>5 DEF HashPre, HashPost
<1>6. CASE ReadFile \/ Ingest \/ Extract \/ Inspect
  BY <1>6, ReadsPass
<1>7. CASE StartWalk \/ Visit \/ EndWalk
  BY <1>7, WalksPass
<1>8. CASE CheckTarget \/ MakeParents \/ ParentsFail \/ WriteFails
  BY <1>8, WritesEnd
<1>9. QED
  BY <1>2, <1>3, <1>4, <1>5, <1>6, <1>7, <1>8 DEF Step

LEMMA WordsDecoded == Decoded([type |-> "respond"])
<1>1. DOMAIN [type |-> "respond"] = {"type"}
  OBVIOUS
<1>2. {"path", "root"} \cap {"type"} = {} /\ "content" \notin {"type"}
  OBVIOUS
<1>3. Numbers \cap {"type"} = {}
  BY DEF Numbers
<1>4. QED
  BY <1>1, <1>2, <1>3 DEF Decoded

LEMMA TypeInit == Init => TypeInv /\ StepInv
<1> SUFFICES ASSUME Init PROVE TypeInv /\ StepInv
  OBVIOUS
<1>1. FileTree(fs) /\ authority \in Authorities
  BY TreesAssumption DEF Init
<1>2. Decoded(said)
  BY WordsDecoded DEF Init, Silence
<1>3. /\ pc = "idle" /\ pre = {} /\ post = {} /\ last = 0 /\ lastPre = 0 /\ existed = FALSE
      /\ todo = {} /\ found = {} /\ touched = {} /\ meddled = FALSE /\ delta.kind = "none"
  BY DEF Init, NoDelta
<1>4. TypeInv
  <2>0. existed \in BOOLEAN /\ meddled \in BOOLEAN
    BY <1>3, Zenon
  <2>1. last \in 0..1 /\ lastPre \in 0..1
    BY <1>3
  <2>2. pre \cup post \subseteq PathState /\ todo \cup touched \subseteq Place /\ pc \in Places
    BY <1>3 DEF Places
  <2>3. QED
    BY <1>1, <1>2, <1>3, <2>0, <2>1, <2>2 DEF TypeInv
<1>5. StepInv
  BY <1>3 DEF StepInv
<1>6. QED
  BY <1>4, <1>5

LEMMA EndsType ==
  ASSUME TypeInv, Ends
  PROVE  TypeInv' /\ StepInv'
<1>1. FileTree(fs') /\ authority' \in Authorities /\ last' \in 0..1
  BY DEF Ends, Over, TypeInv
<1>2. Decoded(said')
  BY WordsDecoded DEF Ends, Over, Silence
<1>3. /\ pc' = "idle" /\ pre' = {} /\ post' = {} /\ lastPre' = 0 /\ existed' = FALSE
      /\ todo' = {} /\ found' = {} /\ touched' = {} /\ meddled' = FALSE /\ delta'.kind = "none"
  BY DEF Ends, Over, NoDelta
<1>4. TypeInv'
  <2>0. existed' \in BOOLEAN /\ meddled' \in BOOLEAN
    BY <1>3, Zenon
  <2>1. lastPre' \in 0..1
    BY <1>3
  <2>2. /\ pre' \cup post' \subseteq PathState /\ todo' \cup touched' \subseteq Place
        /\ pc' \in Places
    BY <1>3 DEF Places
  <2>3. QED
    BY <1>1, <1>2, <1>3, <2>0, <2>1, <2>2 DEF TypeInv
<1>5. StepInv'
  BY <1>3 DEF StepInv
<1>6. QED
  BY <1>4, <1>5

LEMMA SameScope ==
  ASSUME UNCHANGED <<said, authority>>
  PROVE  (\A n \in Tracked : PathAllowed(n)) => (\A n \in Tracked : PathAllowed(n))'
<1>1. Tracked' = Tracked
  BY SameAnswer
<1>2. \A n : PathAllowed(n)' <=> PathAllowed(n)
  BY DEF PathAllowed
<1>3. QED
  BY <1>1, <1>2

LEMMA PassesType ==
  ASSUME TypeInv, StepInv, Passes
  PROVE  TypeInv' /\ StepInv'
<1>1. TypeInv'
  BY DEF Passes, TypeInv, Still, world, capture, Places
<1>2. UNCHANGED <<said, authority>> /\ Op' = Op /\ Target' = Target
  BY SameAnswer DEF Passes, Still, world
<1>3. (\A n \in Tracked : PathAllowed(n))'
  BY <1>2, SameScope DEF Passes, StepInv
<1>4. StepInv'
  BY <1>2, <1>3 DEF Passes, StepInv, Writes, Walks
<1>5. QED
  BY <1>1, <1>4

LEMMA ReasonType ==
  ASSUME TypeInv, StepInv, NEW task \in Task, NEW r \in Reply, Reason(task, r)
  PROVE  TypeInv' /\ StepInv'
<1>1. /\ pc = "idle" /\ said' \in Answers(task, r) /\ pc' = "capture"
      /\ UNCHANGED <<world, capture, existed, walk, result, delta, touched, meddled, history>>
  BY DEF Reason
<1>2. said' = [type |-> "respond"] \/ said' = r.answer
  BY <1>1 DEF Answers, Planned
<1>3. Decoded(said')
  BY <1>2, WordsDecoded, RepliesAssumption
<1>4. todo' = {} /\ found' = {}
  BY <1>1 DEF StepInv, walk
<1>5. TypeInv'
  BY <1>1, <1>3, <1>4 DEF TypeInv, world, capture, Places
<1>6. StepInv'
  BY <1>1, <1>4 DEF StepInv
<1>7. QED
  BY <1>5, <1>6

\* What a capture stores.
LEMMA StatIs ==
  ASSUME FileTree(fs), NEW p \in Place, NEW m \in BOOLEAN
  PROVE  /\ Stat(p, m) \in PathState
         /\ Stat(p, m).modified = m /\ Stat(p, m).hash = {}
<1>1. Len(fs[p].text) \in Nat
  BY NodeIs DEF FileTree
<1>2. Exists(p) \in BOOLEAN
  BY DEF Exists
<1>3. QED
  BY <1>1, <1>2 DEF Stat, PathState

LEMMA HashIs ==
  ASSUME NEW s \in PathState, NEW t \in Seq(Unit)
  PROVE  [s EXCEPT !.hash = {t}] \in PathState
<1>1. {t} \in SUBSET Seq(Unit)
  OBVIOUS
<1>2. QED
  BY <1>1 DEF PathState

LEMMA CapturesType ==
  ASSUME TypeInv, StepInv,
         \/ CapturePre /\ \A n \in Tracked : PathAllowed(n)
         \/ CapturePost
  PROVE  TypeInv' /\ StepInv'
<1>1. Target \in Place /\ Target = At(Named) /\ FileTree(fs)
  BY TargetIsPlace DEF Target, TypeInv
<1>2. \A m \in BOOLEAN : Stat(Target, m) \in PathState
  BY <1>1, StatIs
<1>3. CASE CapturePre /\ \A n \in Tracked : PathAllowed(n)
  <2>1. /\ pc = "capture" /\ pc' \in {"hash", "execute"}
        /\ pre' = {Stat(At(n), FALSE) : n \in Tracked}
        /\ lastPre' = (IF Op = "run_command" THEN last ELSE 0)
        /\ touched' = {} /\ meddled' = FALSE
        /\ UNCHANGED <<world, said, post, existed, walk, result, delta, final>>
    BY <1>3 DEF CapturePre
  <2>2. pre' = {} \/ pre' = {Stat(Target, FALSE)}
    BY <1>1, <2>1, TrackedIs
  <2>3. pre' \subseteq PathState /\ (pre' = {} \/ \E s : pre' = {s})
    BY <1>2, <2>2
  <2>4. lastPre' \in 0..1
    BY <2>1 DEF TypeInv
  <2>5. meddled' \in BOOLEAN
    BY <2>1, Zenon
  <2>6. TypeInv'
    BY <2>1, <2>3, <2>4, <2>5 DEF TypeInv, world, walk, Places
  <2>7. UNCHANGED <<said, authority, todo, found>>
    BY <2>1 DEF world, walk
  <2>8. (\A n \in Tracked : PathAllowed(n))'
    BY <1>3, <2>7, SameScope
  <2>9. todo' = {} /\ found' = {}
    BY <2>1, <2>7 DEF StepInv
  <2>10. StepInv'
    BY <2>1, <2>8, <2>9 DEF StepInv
  <2>11. QED
    BY <2>6, <2>10
<1>4. CASE CapturePost
  <2>1. /\ pc = "recapture" /\ pc' \in {"rehash", "compare"}
        /\ post' = {Stat(At(n), At(n) \in touched) : n \in Tracked}
        /\ found' = {} /\ todo' = {} /\ Still
        /\ UNCHANGED <<said, pre, lastPre, existed, result, delta, base>>
    BY <1>4 DEF CapturePost
  <2>2. post' = {} \/ post' = {Stat(Target, Target \in touched)}
    <3>1. CASE Tracked = {}
      BY <2>1, <3>1, Zenon
    <3>2. CASE Tracked = {Named}
      BY <1>1, <2>1, <3>2, Zenon
    <3>3. QED
      BY <3>1, <3>2, TrackedIs
  <2>3. post' \subseteq PathState /\ (post' = {} \/ \E s : post' = {s})
    <3>0. (Target \in touched) \in BOOLEAN
      OBVIOUS
    <3>1. Stat(Target, Target \in touched) \in PathState
      BY <1>2, <3>0, Zenon
    <3>2. QED
      BY <2>2, <3>1, Zenon
  <2>4. TypeInv'
    BY <2>1, <2>3 DEF TypeInv, Still, world, Places
  <2>5. UNCHANGED <<said, authority>>
    BY <2>1 DEF Still, world
  <2>6. (\A n \in Tracked : PathAllowed(n))'
    BY <2>1, <2>5, SameScope DEF StepInv
  <2>7. StepInv'
    BY <2>1, <2>6 DEF StepInv
  <2>8. QED
    BY <2>4, <2>7
<1>5. QED
  BY <1>3, <1>4

LEMMA HashesType ==
  ASSUME TypeInv, StepInv, IsFile(Target), HashPre \/ HashPost
  PROVE  TypeInv' /\ StepInv'
<1>1. fs[Target].text \in Seq(Unit)
  BY TargetIsPlace, NodeIs DEF TypeInv, FileTree
<1>2. \A s \in PathState : [s EXCEPT !.hash = {fs[Target].text}] \in PathState
  BY <1>1, HashIs
<1>3. CASE HashPre
  <2>1. /\ pc = "hash" /\ pc' = "execute" /\ Still
        /\ pre' = {[s EXCEPT !.hash = {fs[Target].text}] : s \in pre}
        /\ UNCHANGED <<said, post, lastPre, existed, todo, found, result, delta, final>>
    BY <1>3 DEF HashPre
  <2>2. pre' \subseteq PathState
    BY <1>2, <2>1 DEF TypeInv
  <2>3. pre' = {} \/ \E s : pre' = {s}
    <3>1. CASE pre = {}
      BY <2>1, <3>1
    <3>2. ASSUME NEW s, pre = {s} PROVE pre' = {[s EXCEPT !.hash = {fs[Target].text}]}
      BY <2>1, <3>2
    <3>3. QED
      BY <3>1, <3>2 DEF TypeInv
  <2>4. TypeInv'
    BY <2>1, <2>2, <2>3 DEF TypeInv, Still, world, Places
  <2>5. UNCHANGED <<said, authority>>
    BY <2>1 DEF Still, world
  <2>6. (\A n \in Tracked : PathAllowed(n))'
    BY <2>1, <2>5, SameScope DEF StepInv
  <2>7. StepInv'
    BY <2>1, <2>6 DEF StepInv
  <2>8. QED
    BY <2>4, <2>7
<1>4. CASE HashPost
  <2>1. /\ pc = "rehash" /\ pc' = "compare" /\ Still
        /\ post' = {[s EXCEPT !.hash = {fs[Target].text}] : s \in post}
        /\ UNCHANGED <<said, pre, lastPre, existed, todo, found, result, delta, history>>
    BY <1>4 DEF HashPost
  <2>2. post' \subseteq PathState
    BY <1>2, <2>1 DEF TypeInv
  <2>3. post' = {} \/ \E s : post' = {s}
    <3>1. CASE post = {}
      BY <2>1, <3>1
    <3>2. ASSUME NEW s, post = {s} PROVE post' = {[s EXCEPT !.hash = {fs[Target].text}]}
      BY <2>1, <3>2
    <3>3. QED
      BY <3>1, <3>2 DEF TypeInv
  <2>4. TypeInv'
    BY <2>1, <2>2, <2>3 DEF TypeInv, Still, world, Places
  <2>5. UNCHANGED <<said, authority>>
    BY <2>1 DEF Still, world
  <2>6. (\A n \in Tracked : PathAllowed(n))'
    BY <2>1, <2>5, SameScope DEF StepInv
  <2>7. StepInv'
    BY <2>1, <2>6 DEF StepInv
  <2>8. QED
    BY <2>4, <2>7
<1>5. QED
  BY <1>3, <1>4

LEMMA CompareType ==
  ASSUME TypeInv, StepInv, Compare
  PROVE  TypeInv' /\ StepInv'
<1>1. /\ pc = "compare" /\ pc' = "compared" /\ Still
      /\ delta' = [kind |-> DeltaKind, changed |-> ChangedPaths]
      /\ UNCHANGED <<said, capture, existed, todo, found, result, history>>
  BY DEF Compare
<1>2. delta'.kind \in {"none", "unchanged", "as_expected", "unexpected"}
  BY <1>1 DEF DeltaKind
<1>3. TypeInv'
  BY <1>1, <1>2 DEF TypeInv, Still, world, capture, Places
<1>4. UNCHANGED <<said, authority>>
  BY <1>1 DEF Still, world
<1>5. (\A n \in Tracked : PathAllowed(n))'
  BY <1>1, <1>4, SameScope DEF StepInv
<1>6. StepInv'
  BY <1>1, <1>5 DEF StepInv
<1>7. QED
  BY <1>3, <1>6

LEMMA MakesParentsType ==
  ASSUME TypeInv, StepInv, MakeParents, pc' = "open"
  PROVE  TypeInv' /\ StepInv'
<1> DEFINE new == MissingParents(Target)
           g   == [q \in Place |-> IF q \in new THEN Dir ELSE fs[q]]
<1>1. Target \in Place
  BY TargetIsPlace DEF TypeInv
<1>2. /\ pc = "parents" /\ ~\E q \in Above(Target) : IsFile(q)
      /\ ~(Op = "write_file" /\ existed /\ ~Overwrite)
      /\ Become(g, new) /\ Goto("open") /\ UNCHANGED last
  <2>1. ~Over
    BY DEF Over
  <2>2. QED
    BY <2>1 DEF MakeParents
<1>3. FileTree(g) /\ \A q \in Above(Target) : g[q].kind = "dir"
  BY <1>1, <1>2, MakeDirs DEF TypeInv
<1>4. /\ fs' = g /\ touched' = touched \cup Modified(g, new)
      /\ UNCHANGED <<authority, meddled, said, capture, existed, todo, found, result, delta,
                     history, last>>
  BY <1>2 DEF Become, Goto
<1>5. Modified(g, new) \subseteq Place
  BY AboveAbove, <1>1 DEF Modified, MissingParents
<1> HIDE DEF g, new
<1>6. TypeInv'
  BY <1>2, <1>3, <1>4, <1>5 DEF TypeInv, Goto, Places, capture
<1>7. /\ Op' = Op /\ Target' = Target /\ Overwrite' = Overwrite
      /\ (\A n \in Tracked : PathAllowed(n))'
  BY <1>2, <1>4, SameAnswer, SameScope DEF StepInv
<1>8. \A q \in Above(Target) : IsDir(q)'
  BY <1>3, <1>4 DEF IsDir
<1>9. StepInv'
  BY <1>2, <1>4, <1>7, <1>8 DEF StepInv
<1>10. QED
  BY <1>6, <1>9

LEMMA WriteContentType ==
  ASSUME TypeInv, StepInv, WriteContent
  PROVE  TypeInv' /\ StepInv'
<1> DEFINE new == NewText(fs[Target].text)
           g   == [fs EXCEPT ![Target] = File(new)]
           P   == IF NoWrite THEN {} ELSE {Target}
<1>1. Target \in Place
  BY TargetIsPlace DEF TypeInv
<1>2. /\ pc = "open" /\ ~IsDir(Target) /\ Len(new) <= MaxLen /\ Become(g, P)
      /\ Answered(Done) /\ UNCHANGED last
  BY DEF WriteContent
<1>3. FileTree(g)
  BY <1>2, NewTextIs, WriteFileTree
<1>4. /\ fs' = g /\ touched' = touched \cup Modified(g, P) /\ pc' = "recapture"
      /\ UNCHANGED <<authority, meddled, said, capture, existed, todo, found, delta,
                     history, last>>
  BY <1>2 DEF Become, Answered
<1>5. Modified(g, P) \subseteq Place
  BY <1>1 DEF Modified
<1> HIDE DEF g, new, P
<1>6. TypeInv'
  BY <1>3, <1>4, <1>5 DEF TypeInv, Places, capture
<1>7. (\A n \in Tracked : PathAllowed(n))'
  BY <1>2, <1>4, SameScope DEF StepInv
<1>8. StepInv'
  BY <1>2, <1>4, <1>7 DEF StepInv
<1>9. QED
  BY <1>6, <1>8

LEMMA CommandType ==
  ASSUME TypeInv, StepInv, RunCommand
  PROVE  TypeInv' /\ StepInv'
<1>1. /\ pc = "execute" /\ pc' = "recapture" /\ last' \in {0, 1}
      /\ UNCHANGED <<said, capture, existed, todo, found, delta, history>>
  BY DEF RunCommand, Executing, Answered
<1>2. FileTree(fs') /\ touched' \subseteq Place /\ UNCHANGED <<authority, meddled>>
  <2>1. CASE UNCHANGED <<fs, authority, touched, meddled>>
    BY <2>1 DEF TypeInv
  <2>2. ASSUME NEW p \in Foreign, NEW t \in ForeignText, IsDir(Front(p)), ~IsDir(p),
               Become([fs EXCEPT ![p] = File(t)], {p})
        PROVE  FileTree(fs') /\ touched' \subseteq Place /\ UNCHANGED <<authority, meddled>>
    <3>1. FileTree([fs EXCEPT ![p] = File(t)])
      BY <2>2, ForeignFileTree DEF TypeInv
    <3>2. QED
      BY <2>2, <3>1, WorkspaceAssumption DEF Become, Modified, TypeInv
  <2>3. ASSUME NEW p \in Foreign, IsFile(p), Become([fs EXCEPT ![p] = None], {p})
        PROVE  FileTree(fs') /\ touched' \subseteq Place /\ UNCHANGED <<authority, meddled>>
    <3>1. FileTree([fs EXCEPT ![p] = None])
      BY <2>3, ForeignFileTree DEF TypeInv, IsFile, IsDir
    <3>2. QED
      BY <2>3, <3>1, WorkspaceAssumption DEF Become, Modified, TypeInv
  <2>4. QED
    BY <2>1, <2>2, <2>3 DEF RunCommand, Still, world
<1>3. last' \in 0..1
  BY <1>1
<1>4. TypeInv'
  BY <1>1, <1>2, <1>3 DEF TypeInv, Places, capture
<1>5. (\A n \in Tracked : PathAllowed(n))'
  BY <1>1, <1>2, SameScope DEF StepInv
<1>6. StepInv'
  BY <1>1, <1>5 DEF StepInv
<1>7. QED
  BY <1>4, <1>6

LEMMA MeddleIs ==
  ASSUME TypeInv, Meddle
  PROVE  /\ FileTree(fs') /\ touched' \subseteq Place /\ touched \subseteq touched'
         /\ meddled' = TRUE /\ pc \notin {"idle", "capture", "compared"}
         /\ \A q \in Place : fs'[q] # fs[q] => q \in touched' /\ q \in Foreign
         /\ \A q \in Place : IsDir(q) => fs'[q] = fs[q]
         /\ UNCHANGED <<authority, last, pc, said, capture, existed, todo, found,
                        result, delta, history>>
<1>1. PICK p \in Foreign, n \in {None} \cup {File(t) : t \in ForeignText} :
        /\ ~IsDir(p) /\ IsDir(Front(p)) /\ fs' = [fs EXCEPT ![p] = n]
        /\ touched' = touched \cup Modified(fs', {p}) /\ meddled' = TRUE
  BY DEF Meddle
<1>2. p \in Place /\ FileTree(fs')
  BY <1>1, ForeignFileTree, WorkspaceAssumption DEF TypeInv
<1>3. \A q \in Place : fs'[q] # fs[q] => q = p
  BY <1>1, <1>2 DEF TypeInv, FileTree
<1>4. p \in touched' /\ touched' \subseteq Place /\ touched \subseteq touched'
  BY <1>1, <1>2 DEF Modified, TypeInv
<1>5. QED
  BY <1>1, <1>2, <1>3, <1>4 DEF Meddle, IsDir

LEMMA MeddleType ==
  ASSUME TypeInv, StepInv, Meddle
  PROVE  TypeInv' /\ StepInv'
<1>1. /\ FileTree(fs') /\ touched' \subseteq Place /\ meddled' = TRUE
      /\ \A q \in Place : IsDir(q) => fs'[q] = fs[q]
      /\ UNCHANGED <<authority, last, pc, said, capture, existed, todo, found,
                     result, delta, history>>
  BY MeddleIs
<1>2. meddled' \in BOOLEAN
  BY <1>1, Zenon
<1>3. TypeInv'
  BY <1>1, <1>2 DEF TypeInv, capture
<1>4. /\ Op' = Op /\ Target' = Target /\ Overwrite' = Overwrite
      /\ (\A n \in Tracked : PathAllowed(n)) => (\A n \in Tracked : PathAllowed(n))'
  BY <1>1, SameAnswer, SameScope
<1>5. \A q \in Above(Target) : IsDir(q) => IsDir(q)'
  BY <1>1, TargetIsPlace, AboveAbove DEF IsDir, TypeInv
<1>6. StepInv'
  BY <1>1, <1>4, <1>5 DEF StepInv
<1>7. QED
  BY <1>3, <1>6

LEMMA Inductive == TypeInv /\ StepInv /\ [Next]_vars => TypeInv' /\ StepInv'
<1> SUFFICES ASSUME TypeInv, StepInv, [Next]_vars PROVE TypeInv' /\ StepInv'
  OBVIOUS
<1>1. CASE Step
  BY <1>1, StepCases, EndsType, PassesType, ReasonType, CapturesType, HashesType,
     MakesParentsType, WriteContentType, CommandType, CompareType
<1>2. CASE Meddle
  BY <1>2, MeddleType
<1>3. CASE UNCHANGED vars
  <2>1. UNCHANGED <<fs, authority, pc, said, pre, post, last, lastPre, existed, todo, found,
                    result, delta, touched, meddled, base, final>>
    BY <1>3 DEF vars, world, capture, walk, history
  <2>2. TypeInv'
    BY <2>1 DEF TypeInv
  <2>3. /\ Op' = Op /\ Target' = Target /\ Overwrite' = Overwrite
        /\ (\A n \in Tracked : PathAllowed(n)) => (\A n \in Tracked : PathAllowed(n))'
    BY <2>1, SameAnswer, SameScope
  <2>4. StepInv'
    BY <2>1, <2>3 DEF StepInv, IsDir
  <2>5. QED
    BY <2>2, <2>4
<1>4. QED
  BY <1>1, <1>2, <1>3 DEF Next

LEMMA StepsInvariant == Spec => [](TypeInv /\ StepInv)
BY TypeInit, Inductive, PTL DEF Spec

\* Every variable has its type and every file is in a directory, whatever the
\* answers of the model and whoever else changes files meanwhile.
THEOREM WorkspaceTypes == Spec => []TypeOK
<1>1. TypeInv => TypeOK
  <2> SUFFICES ASSUME TypeInv PROVE TypeOK
    OBVIOUS
  <2>1. Cardinality(pre) <= 1 /\ Cardinality(post) <= 1
    <3>1. \A S : S = {} \/ (\E s : S = {s}) => Cardinality(S) = 0 \/ Cardinality(S) = 1
      BY FS_EmptySet, FS_Singleton
    <3>2. (pre = {} \/ \E s : pre = {s}) /\ (post = {} \/ \E s : post = {s})
      BY DEF TypeInv
    <3>3. QED
      BY <3>1, <3>2
  <2>2. \A s \in pre \cup post : s.exists \in BOOLEAN /\ s.modified \in BOOLEAN
    BY DEF TypeInv, PathState
  <2>3. QED
    BY <2>1, <2>2 DEF TypeInv, TypeOK
<1>2. QED
  BY <1>1, StepsInvariant, PTL

-----------------------------------------------------------------------------
(* What a step may do to the files.                                        *)

LEMMA OnlyTarget ==
  ASSUME TypeInv, WriteContent \/ WriteFails, NEW p \in Place, fs'[p] # fs[p]
  PROVE  p = Target
<1>1. fs \in [Place -> Node]
  BY DEF TypeInv, FileTree
<1>2. \A t : [fs EXCEPT ![Target] = File(t)][p] # fs[p] => p = Target
  BY <1>1
<1>3. \E t : fs' = fs \/ fs' = [fs EXCEPT ![Target] = File(t)]
  <2>1. CASE WriteContent
    BY <2>1 DEF WriteContent, Become
  <2>2. CASE WriteFails
    BY <2>2 DEF WriteFails
  <2>3. QED
    BY <2>1, <2>2
<1>4. QED
  BY <1>2, <1>3

LEMMA OnlyMissing ==
  ASSUME TypeInv, MakeParents, NEW p \in Place, fs'[p] # fs[p]
  PROVE  fs'[p] = Dir /\ ~Exists(p)
<1>1. fs' = [q \in Place |-> IF q \in MissingParents(Target) THEN Dir ELSE fs[q]]
  BY DEF MakeParents, Become
<1>2. QED
  BY <1>1 DEF MissingParents

\* A write keeps what was in the file unless it is write_file.
LEMMA AppendKeeps ==
  ASSUME TypeInv, WriteContent \/ WriteFails, Op = "append_file"
  PROVE  IsPrefix(fs[Target].text, fs'[Target].text)
<1> DEFINE old == fs[Target].text
<1>1. /\ old \in Seq(Unit) /\ Arg("content", <<>>) \in Seq(Unit)
      /\ Target \in Place /\ fs \in [Place -> Node]
  BY TargetIsPlace, Arguments, NewTextIs DEF TypeInv, FileTree
<1>2. \A t : [fs EXCEPT ![Target] = File(t)][Target].text = t
  BY <1>1 DEF File
<1>3. IsPrefix(old, old)
  BY <1>1, PrefixOrder
<1>4. IsPrefix(old, old \o Arg("content", <<>>))
  <2>1. /\ old \o Arg("content", <<>>) \in Seq(Unit) /\ Len(old) \in Nat
        /\ Len(old) <= Len(old \o Arg("content", <<>>))
        /\ \A i \in 1..Len(old) : (old \o Arg("content", <<>>))[i] = old[i]
    BY <1>1
  <2>2. QED
    BY <1>1, <2>1, PrefixIs
<1>5. CASE WriteContent
  <2>1. fs' = [fs EXCEPT ![Target] = File(old \o Arg("content", <<>>))]
    BY <1>5 DEF WriteContent, Become, NewText
  <2>2. fs'[Target].text = old \o Arg("content", <<>>)
    BY <1>2, <2>1
  <2>3. QED
    BY <1>4, <2>2
<1>6. CASE WriteFails
  <2>1. fs' = fs \/ fs' = [fs EXCEPT ![Target] = File(old)]
    BY <1>6 DEF WriteFails
  <2>2. fs'[Target].text = old
    BY <1>2, <2>1
  <2>3. QED
    BY <1>3, <2>2
<1>7. QED
  BY <1>5, <1>6

\* The agent's own file operations take nothing away from a file that was there
\* when the write was checked unless the answer itself says overwrite.
THEOREM OnlyMeantIsOverwritten == Spec => OverwriteMeant
<1>1. ASSUME TypeInv, StepInv, [Next]_vars, pc' # pc, Op \in Writes, NEW p \in Place,
             IsFile(p), ~IsPrefix(fs[p].text, fs'[p].text)
      PROVE  /\ Op = "write_file"
             /\ ~existed \/ (Given("overwrite") /\ said.overwrite)
  <2>1. fs'[p] # fs[p]
    <3>1. fs[p].text \in Seq(Unit)
      BY <1>1, NodeIs DEF TypeInv, FileTree
    <3>2. IsPrefix(fs[p].text, fs[p].text)
      BY <3>1, PrefixOrder
    <3>3. QED
      BY <1>1, <3>2
  <2>2. Step
    BY <1>1 DEF Next, Meddle, vars
  <2>3. ~MakeParents
    BY <1>1, <2>1, OnlyMissing DEF IsFile, Exists
  <2>4. ~RunCommand
    BY <1>1 DEF RunCommand, Executing, Writes
  <2>5. WriteContent \/ WriteFails
    BY <2>1, <2>2, <2>3, <2>4, FilesKept
  <2>6. p = Target /\ pc = "open"
    BY <1>1, <2>1, <2>5, OnlyTarget DEF WriteContent, WriteFails
  <2>7. Op = "write_file"
    BY <1>1, <2>5, <2>6, AppendKeeps DEF Writes
  <2>8. existed => Overwrite
    BY <1>1, <2>6, <2>7 DEF StepInv
  <2>9. Overwrite => Given("overwrite") /\ said.overwrite
    BY DEF Overwrite, Arg, Given
  <2>10. QED
    BY <2>7, <2>8, <2>9
<1>2. TypeInv /\ StepInv /\ [Next]_vars =>
        [ (pc' # pc /\ Op \in Writes) =>
            \A p \in Place :
              IsFile(p) /\ ~IsPrefix(fs[p].text, fs'[p].text) =>
                /\ Op = "write_file"
                /\ ~existed \/ (Given("overwrite") /\ said.overwrite) ]_vars
  BY <1>1
<1>3. QED
  BY <1>2, StepsInvariant, PTL DEF Spec, OverwriteMeant

LEMMA ResolveIsPath ==
  ASSUME NEW n \in Seq(STRING)
  PROVE  Resolve(n) \in Path
<1>1. Place \cup {Home} \cup {Folder[f] : f \in DOMAIN Folder} \subseteq Seq(STRING)
  BY PathsAssumption
<1>2. Cwd \in Seq(STRING) /\ Home \in Seq(STRING)
  BY <1>1, WorkspaceAssumption
<1>3. \A f \in DOMAIN Folder : Folder[f] \in Seq(STRING)
  BY <1>1
<1>4. /\ \A k \in Seq(STRING) : k # <<>> => Tail(k) \in Seq(STRING)
      /\ \A j, k \in Seq(STRING) : j \o k \in Seq(STRING)
  OBVIOUS
<1> DEFINE m == IF n # <<>> /\ Head(n) = "~" THEN Tail(n) ELSE n
<1>5. m \in Seq(STRING) /\ (m # <<>> => Tail(m) \in Seq(STRING))
  BY <1>4
<1>6. \/ Resolve(n) = Cwd
      \/ m # <<>> /\ Head(m) \in DOMAIN Folder /\ Resolve(n) = Folder[Head(m)] \o Tail(m)
      \/ Resolve(n) = Home \o m
      \/ Resolve(n) = n
      \/ Resolve(n) = Cwd \o n
  BY DEF Resolve
<1> HIDE DEF m
<1>7. QED
  <2>1. /\ Home \o m \in Seq(STRING) /\ Cwd \o n \in Seq(STRING)
        /\ m # <<>> /\ Head(m) \in DOMAIN Folder =>
             Folder[Head(m)] \o Tail(m) \in Seq(STRING)
    BY <1>2, <1>3, <1>4, <1>5
  <2>2. QED
    BY <1>2, <1>6, <2>1 DEF Path

\* What is reached along a path that is allowed, or below it, is within the scope
\* unless the system does not take the path as it stands.
LEMMA BelowAllowed ==
  ASSUME TypeInv, PathAllowed(Named), NEW p \in Place, p = Target \/ Target \in Above(p)
  PROVE  InScope(p) \/ Diverted(p)
<1> DEFINE path == Resolve(Named)
<1>1. Target \in Path /\ p \in Path
  BY TargetIsPlace, PlaceIsPath DEF TypeInv
<1>2. IsPrefix(Target, p)
  BY <1>1, AboveIs, PrefixOrder DEF Path
<1>3. InScope(path)
  BY DEF InScope, PathAllowed
<1>4. CASE path \in DOMAIN Leads
  <2>1. Target = Leads[path]
    BY <1>4 DEF Target, At, Reached
  <2>2. Diverted(p)
    BY <1>2, <1>3, <1>4, <2>1 DEF Diverted, Within
  <2>3. QED
    BY <2>2
<1>5. CASE path \notin DOMAIN Leads
  <2>1. Target = path
    BY <1>5 DEF Target, At, Reached
  <2>2. CASE authority.roots = {}
    BY <2>2 DEF InScope
  <2>3. CASE authority.roots # {}
    <3>1. PICK r \in authority.roots : IsPrefix(Resolve(r), Target)
      BY <1>3, <2>1, <2>3 DEF InScope, Within
    <3>2. Resolve(r) \in Path
      BY ResolveIsPath, PathsAssumption DEF TypeInv
    <3>3. IsPrefix(Resolve(r), p)
      BY <1>1, <1>2, <3>1, <3>2, PrefixOrder DEF Path
    <3>4. QED
      BY <3>3 DEF InScope, Within
  <2>4. QED
    BY <2>2, <2>3
<1>6. QED
  BY <1>4, <1>5

LEMMA AllowedPastCapture ==
  ASSUME TypeInv, StepInv, pc \notin {"idle", "capture"}, Op \in Writes \cup Walks
  PROVE  PathAllowed(Named)
<1>1. Tracked = {Named}
  BY DEF Tracked, Writes, Walks
<1>2. QED
  BY <1>1 DEF StepInv

LEMMA FoundInScope ==
  ASSUME TypeInv, StepInv, NEW h \in found
  PROVE  InScope(h[1]) \/ Diverted(h[1])
<1>1. pc \in {"walk", "recapture"} /\ Op \in Walks /\ Target \in Above(h[1])
  BY DEF StepInv
<1>2. h[1] \in Place
  BY DEF TypeInv
<1>3. PathAllowed(Named)
  BY <1>1, AllowedPastCapture
<1>4. QED
  BY <1>1, <1>2, <1>3, BelowAllowed

FoundInv == \A h \in found : InScope(h[1]) \/ Diverted(h[1])

LEMMA AuthorityKept ==
  ASSUME TypeInv, StepInv, [Next]_vars
  PROVE  UNCHANGED authority
<1>1. CASE Step
  <2>1. Ends \/ Passes => UNCHANGED authority
    BY DEF Ends, Over, Passes, Still, world
  <2>2. CASE \E task \in Task, r \in Reply : Reason(task, r)
    BY <2>2 DEF Reason, world
  <2>3. CASE CapturePre /\ \A n \in Tracked : PathAllowed(n)
    BY <2>3 DEF CapturePre, world
  <2>4. CASE IsFile(Target) /\ (HashPre \/ HashPost)
    BY <2>4 DEF HashPre, HashPost, Still, world
  <2>5. CASE MakeParents /\ pc' = "open"
    BY <2>5 DEF MakeParents, Over, Become
  <2>6. CASE WriteContent \/ RunCommand
    BY <2>6 DEF WriteContent, RunCommand, Become, Still, world
  <2>7. CASE CapturePost \/ Compare
    BY <2>7 DEF CapturePost, Compare, Still, world
  <2>8. QED
    BY <1>1, <2>1, <2>2, <2>3, <2>4, <2>5, <2>6, <2>7, StepCases
<1>2. CASE Meddle \/ UNCHANGED vars
  BY <1>2 DEF Meddle, vars, world
<1>3. QED
  BY <1>1, <1>2 DEF Next

\* While something is found the answer stays.
LEMMA FindingKeepsAnswer ==
  ASSUME TypeInv, StepInv, StepInv', [Next]_vars, NEW h \in found'
  PROVE  UNCHANGED said
<1>1. pc' \in {"walk", "recapture"}
  BY DEF StepInv
<1>2. CASE Step
  <2>1. ~Ends
    BY <1>1 DEF Ends, Over
  <2>2. ~\E task \in Task, r \in Reply : Reason(task, r)
    BY <1>1 DEF Reason
  <2>3. Passes => UNCHANGED said
    BY DEF Passes
  <2>4. CapturePre /\ (\A n \in Tracked : PathAllowed(n)) => UNCHANGED said
    BY DEF CapturePre
  <2>5. IsFile(Target) /\ (HashPre \/ HashPost) => UNCHANGED said
    BY DEF HashPre, HashPost
  <2>6. MakeParents /\ pc' = "open" => UNCHANGED said
    BY DEF MakeParents, Over, Goto
  <2>7. WriteContent \/ RunCommand => UNCHANGED said
    BY DEF WriteContent, RunCommand, Answered
  <2>8. CapturePost \/ Compare => UNCHANGED said
    BY DEF CapturePost, Compare
  <2>9. QED
    BY <1>2, <2>1, <2>2, <2>3, <2>4, <2>5, <2>6, <2>7, <2>8, StepCases
<1>3. CASE Meddle \/ UNCHANGED vars
  BY <1>3 DEF Meddle, vars
<1>4. QED
  BY <1>2, <1>3 DEF Next

\* An agent confined to some roots changes and finds nothing outside them,
\* whether its answer names the path by a known folder, below the home directory,
\* absolutely or relatively; with a path that has `..` in it or goes through a
\* symbolic link it works on what the path leads to, which may be elsewhere.
THEOREM StepsKeepToScope == Spec => ScopeKept
<1>1. ASSUME TypeInv, StepInv, [Next]_vars, Op # "run_command", pc' # pc,
             NEW p \in Place, fs'[p] # fs[p], fs'[p] # Dir
      PROVE  InScope(p) \/ Diverted(p)
  <2>1. Step
    BY <1>1 DEF Next, Meddle, vars
  <2>2. ~MakeParents
    BY <1>1, OnlyMissing
  <2>3. ~RunCommand
    BY <1>1 DEF RunCommand, Executing
  <2>4. WriteContent \/ WriteFails
    BY <1>1, <2>1, <2>2, <2>3, FilesKept
  <2>5. p = Target /\ pc = "open" /\ Op \in Writes
    BY <1>1, <2>4, OnlyTarget DEF WriteContent, WriteFails, StepInv
  <2>6. PathAllowed(Named)
    BY <1>1, <2>5, AllowedPastCapture
  <2>7. QED
    BY <1>1, <2>5, <2>6, BelowAllowed
<1>2. TypeInv /\ StepInv => FoundInv
  BY FoundInScope DEF FoundInv
<1>3. ASSUME TypeInv, StepInv, StepInv', [Next]_vars, FoundInv', NEW h \in found'
      PROVE  InScope(h[1]) \/ Diverted(h[1])
  <2>1. UNCHANGED authority
    BY <1>3, AuthorityKept
  <2>2. UNCHANGED said
    BY <1>3, FindingKeepsAnswer
  <2>3. Named' = Named
    BY <2>2, SameAnswer
  <2>4. QED
    BY <1>3, <2>1, <2>3 DEF FoundInv, InScope, Diverted
<1>4. TypeInv /\ StepInv /\ StepInv' /\ [Next]_vars /\ FoundInv' =>
        [ Op # "run_command" =>
            /\ pc' # pc =>
                 \A p \in Place :
                   fs'[p] # fs[p] /\ fs'[p] # Dir => InScope(p) \/ Diverted(p)
            /\ \A h \in found' : InScope(h[1]) \/ Diverted(h[1]) ]_vars
  BY <1>1, <1>3
<1>5. QED
  BY <1>2, <1>4, StepsInvariant, PTL DEF Spec, ScopeKept

-----------------------------------------------------------------------------
(* What the verification of a step sees.                                   *)

Between == {"hash", "execute", "walk", "parents", "open", "recapture"}
After   == {"rehash", "compare"}

\* From the first capture to the second one, a tracked file that is not as it
\* was captured has been touched, and the second snapshot says so.
SeenInv ==
  /\ pc \in Between \cup After /\ Tracked # {} => \E s : pre = {s} /\ ~s.modified
  /\ pc = "hash" => Tracked # {}
  /\ pc \in Between => IF Tracked = {} THEN base = None
                       ELSE fs[Target] # base => Target \in touched
  /\ pc \in After => IF Tracked = {} THEN base = final
                     ELSE \E s : post = {s} /\ (base # final => s.modified)
  /\ pc = "compared" /\ base # final => delta.changed = Tracked

\* A write that changes the file touches it.
Changing ==
  Op \in Writes /\ ~(Op = "append_file" /\ Arg("content", <<>>) = <<>>)

WroteInv ==
  Changing =>
    /\ pc = "recapture" => Target \in touched
    /\ pc \in After => \E s : post = {s} /\ s.modified
    /\ pc = "compared" => delta = [kind |-> "as_expected", changed |-> {Named}]

\* What a capture of the tracked file yields while nobody changes it.
Shot ==
  [Stat(Target, FALSE) EXCEPT
     !.hash = IF WithContent /\ IsFile(Target) THEN {fs[Target].text} ELSE {}]

Quiet == Op \notin Writes /\ Op # "run_command"

\* Left alone, an operation that only reads touches nothing, and both snapshots
\* are the same.
QuietInv ==
  Quiet /\ ~meddled =>
    /\ pc \in Between \cup After => touched = {}
    /\ Tracked # {} =>
         /\ pc = "hash" => pre = {Stat(Target, FALSE)} /\ WithContent /\ IsFile(Target)
         /\ pc \in (Between \cup After) \ {"hash"} => pre = {Shot}
         /\ pc = "rehash" => post = {Stat(Target, FALSE)} /\ WithContent /\ IsFile(Target)
         /\ pc = "compare" => post = {Shot}
    /\ pc = "compared" => delta = [kind |-> "unchanged", changed |-> {}]

SameView ==
  /\ Op' = Op /\ Named' = Named /\ Target' = Target /\ Tracked' = Tracked
  /\ (Changing' <=> Changing) /\ (Quiet' <=> Quiet) /\ (WithContent' <=> WithContent)

LEMMA SaidView == UNCHANGED said => SameView
<1> SUFFICES ASSUME UNCHANGED said PROVE SameView
  OBVIOUS
<1>1. /\ Op' = Op /\ Named' = Named /\ Target' = Target /\ Tracked' = Tracked
      /\ WithContent' = WithContent /\ \A f, d : Arg(f, d)' = Arg(f, d)
  BY SameAnswer
<1>2. Arg("content", <<>>)' = Arg("content", <<>>)
  BY <1>1
<1>3. (Changing' <=> Changing) /\ (Quiet' <=> Quiet)
  BY <1>1, <1>2 DEF Changing, Quiet
<1>4. QED
  BY <1>1, <1>3 DEF SameView

\* Whatever changes during a step is touched.
Touching ==
  /\ touched \subseteq touched'
  /\ \A q \in Place : fs'[q] # fs[q] => q \in touched'

LEMMA ChangesTouch ==
  ASSUME TypeInv, StepInv,
         Still \/ WriteContent \/ RunCommand \/ (MakeParents /\ pc' = "open") \/ Meddle
  PROVE  Touching
<1>1. fs \in [Place -> Node]
  BY DEF TypeInv, FileTree
<1>2. CASE Still
  BY <1>2 DEF Still, world, Touching
<1>3. CASE Meddle
  BY <1>3, MeddleIs DEF Touching
<1>4. CASE MakeParents /\ pc' = "open"
  <2>1. Become([q \in Place |-> IF q \in MissingParents(Target) THEN Dir ELSE fs[q]],
               MissingParents(Target))
    BY <1>4 DEF MakeParents, Over
  <2>2. QED
    BY <2>1 DEF Become, Modified, Touching
<1>5. CASE WriteContent
  <2> DEFINE g == [fs EXCEPT ![Target] = File(NewText(fs[Target].text))]
             P == IF NoWrite THEN {} ELSE {Target}
  <2>1. fs' = g /\ touched' = touched \cup Modified(g, P)
    BY <1>5 DEF WriteContent, Become
  <2>2. P \subseteq Modified(g, P)
    BY DEF Modified
  <2>3. \A q \in Place : q # Target => g[q] = fs[q]
    BY <1>1
  <2>4. CASE NoWrite
    <3>1. Target \in Place /\ fs[Target] \in Node /\ fs[Target].kind = "file"
      BY <1>1, <2>4, TargetIsPlace DEF TypeInv, NoWrite, IsFile
    <3>2. fs[Target] = File(fs[Target].text) /\ fs[Target].text \in Seq(Unit)
      BY <3>1, NodeIs
    <3>3. NewText(fs[Target].text) = fs[Target].text
      BY <2>4, <3>2 DEF NoWrite, NewText
    <3>4. g[Target] = fs[Target]
      BY <1>1, <3>1, <3>2, <3>3
    <3>5. QED
      BY <2>1, <2>3, <3>4 DEF Touching
  <2>5. CASE ~NoWrite
    BY <2>1, <2>2, <2>3, <2>5 DEF Touching
  <2>6. QED
    BY <2>4, <2>5
<1>6. CASE RunCommand
  <2>1. \/ Still
        \/ \E p \in Foreign : \E n : Become([fs EXCEPT ![p] = n], {p})
    BY <1>6 DEF RunCommand
  <2>2. ASSUME NEW p \in Foreign, NEW n, Become([fs EXCEPT ![p] = n], {p})
        PROVE  Touching
    BY <1>1, <2>2 DEF Become, Modified, Touching
  <2>3. QED
    BY <2>1, <2>2 DEF Still, world, Touching
<1>7. QED
  BY <1>2, <1>3, <1>4, <1>5, <1>6

LEMMA ChangedIs ==
  ASSUME NEW s, NEW t, pre = {s}, post = {t}
  PROVE  /\ ~s.modified /\ t.modified => ChangedPaths = Tracked
         /\ s = t => ChangedPaths = {}
<1>1. /\ {Fingerprint(u) : u \in pre} = {Fingerprint(s)}
      /\ {Fingerprint(u) : u \in post} = {Fingerprint(t)}
  OBVIOUS
<1>2. ASSUME ~s.modified, t.modified PROVE Fingerprint(s) # Fingerprint(t)
  <2>1. Fingerprint(s)[3] = s.modified /\ Fingerprint(t)[3] = t.modified
    BY DEF Fingerprint
  <2>2. QED
    BY <1>2, <2>1
<1>3. QED
  BY <1>1, <1>2 DEF ChangedPaths

\* A step between the captures that leaves the snapshot alone.
LEMMA BetweenSeen ==
  ASSUME SeenInv, Target \in Place, Touching, pc \in Between, pc' \in Between,
         pc' # "hash", UNCHANGED <<said, pre, base>>
  PROVE  SeenInv'
<1>1. Target' = Target /\ Tracked' = Tracked
  BY SameAnswer
<1>2. pc' \notin After /\ pc' # "compared"
  BY DEF Between, After
<1>3. (Tracked # {} => \E s : pre = {s} /\ ~s.modified)'
  BY <1>1 DEF SeenInv
<1>4. (IF Tracked = {} THEN base = None ELSE fs[Target] # base => Target \in touched)'
  BY <1>1 DEF SeenInv, Touching
<1>5. QED
  BY <1>2, <1>3, <1>4 DEF SeenInv

SightInv == SeenInv /\ WroteInv /\ QuietInv

LEMMA OutsideSight ==
  ASSUME pc' \in {"idle", "capture"}
  PROVE  SightInv'
<1>1. pc' \notin Between \cup After /\ pc' # "compared"
  BY DEF Between, After
<1>2. pc' \notin {"hash", "rehash", "compare", "recapture"}
  OBVIOUS
<1>3. SeenInv'
  BY <1>1, <1>2 DEF SeenInv
<1>4. WroteInv'
  BY <1>1, <1>2 DEF WroteInv
<1>5. QuietInv'
  BY <1>1, <1>2 DEF QuietInv
<1>6. QED
  BY <1>3, <1>4, <1>5 DEF SightInv

LEMMA SameShot ==
  ASSUME UNCHANGED <<said, fs>>
  PROVE  /\ Shot' = Shot /\ Stat(Target, FALSE)' = Stat(Target, FALSE)
         /\ (IsFile(Target)' <=> IsFile(Target))
<1>1. Target' = Target /\ (WithContent' <=> WithContent)
  BY SaidView DEF SameView
<1>2. Stat(Target, FALSE)' = Stat(Target, FALSE) /\ (IsFile(Target)' <=> IsFile(Target))
  BY <1>1 DEF Stat, Exists, IsFile
<1>3. Shot' = Shot
  BY <1>1, <1>2 DEF Shot
<1>4. QED
  BY <1>2, <1>3

LEMMA PassesSight ==
  ASSUME TypeInv, StepInv, SightInv, Passes
  PROVE  SightInv'
<1>1. UNCHANGED <<said, pre, base, fs, meddled, touched, delta>> /\ Still
  BY DEF Passes, Still, world, capture, history
<1>2. /\ pc \in {"execute", "walk"} /\ pc' \in {"walk", "parents", "recapture"}
      /\ pc' = "recapture" => ~Changing
  BY DEF Passes, Changing
<1>3. pc \in Between \ {"hash"} /\ pc' \in Between \ {"hash"}
  BY <1>2 DEF Between
<1>4. SameView
  BY <1>1, SaidView
<1>5. SeenInv'
  <2>1. Touching
    BY <1>1, ChangesTouch
  <2>2. Target \in Place
    BY TargetIsPlace DEF TypeInv
  <2>3. QED
    BY <1>1, <1>3, <2>1, <2>2, BetweenSeen DEF SightInv
<1>6. WroteInv'
  BY <1>2, <1>4 DEF WroteInv, SameView, After
<1>7. QuietInv'
  <2>1. Shot' = Shot
    BY <1>1, SameShot
  <2>2. pc' \notin {"hash", "rehash", "compare", "compared"}
    BY <1>2
  <2>3. SUFFICES ASSUME Quiet, ~meddled
                 PROVE  touched = {} /\ (Tracked # {} => pre = {Shot})
    BY <1>1, <1>4, <2>1, <2>2 DEF QuietInv, SameView
  <2>4. QED
    BY <1>3, <2>3 DEF SightInv, QuietInv
<1>8. QED
  BY <1>5, <1>6, <1>7 DEF SightInv

\* Making directories, writing and running a command.
LEMMA WritesSight ==
  ASSUME TypeInv, StepInv, SightInv,
         WriteContent \/ RunCommand \/ (MakeParents /\ pc' = "open")
  PROVE  SightInv'
<1>1. /\ UNCHANGED <<said, pre, base>>
      /\ pc \in {"execute", "parents", "open"} /\ pc' \in {"open", "recapture"}
      /\ ~Quiet
      /\ WriteContent \/ pc' = "open" \/ ~Changing
  <2>1. CASE WriteContent
    BY <2>1 DEF WriteContent, Answered, capture, history, Quiet, StepInv
  <2>2. CASE RunCommand
    BY <2>2 DEF RunCommand, Executing, Answered, capture, history, Quiet, Changing, Writes
  <2>3. CASE MakeParents /\ pc' = "open"
    BY <2>3 DEF MakeParents, Over, Goto, capture, history, Quiet, StepInv
  <2>4. QED
    BY <2>1, <2>2, <2>3
<1>2. Target \in Place /\ SameView /\ Touching
  BY <1>1, TargetIsPlace, SaidView, ChangesTouch DEF TypeInv
<1>3. pc \in Between /\ pc' \in Between /\ pc' # "hash" /\ pc' \notin After /\ pc' # "compared"
  BY <1>1 DEF Between, After
<1>4. SeenInv'
  BY <1>1, <1>2, <1>3, BetweenSeen DEF SightInv
<1>5. ASSUME WriteContent, Changing PROVE Target \in touched'
  <2>1. ~NoWrite
    BY <1>5 DEF Changing, NoWrite
  <2>2. QED
    BY <1>5, <2>1 DEF WriteContent, Become, Modified
<1>6. WroteInv'
  BY <1>1, <1>2, <1>3, <1>5 DEF WroteInv, SameView
<1>7. QuietInv'
  BY <1>1, <1>2 DEF QuietInv, SameView
<1>8. QED
  BY <1>4, <1>6, <1>7 DEF SightInv

LEMMA MeddleSight ==
  ASSUME TypeInv, StepInv, SightInv, Meddle
  PROVE  SightInv'
<1>1. /\ UNCHANGED <<pc, said, pre, post, base, final, delta>> /\ meddled'
  BY MeddleIs DEF capture, history
<1>2. Target \in Place /\ SameView /\ Touching
  BY <1>1, TargetIsPlace, SaidView, ChangesTouch DEF TypeInv
<1>3. SeenInv'
  BY <1>1, <1>2 DEF SightInv, SeenInv, SameView, Touching
<1>4. WroteInv'
  BY <1>1, <1>2 DEF SightInv, WroteInv, SameView, Touching
<1>5. QuietInv'
  BY <1>1 DEF QuietInv
<1>6. QED
  BY <1>3, <1>4, <1>5 DEF SightInv

\* A file without content, or whose content is not asked for, is captured in one go.
LEMMA ShotIs ==
  ASSUME TypeInv
  PROVE  /\ ~(WithContent /\ IsFile(Target)) => Shot = Stat(Target, FALSE)
         /\ WithContent /\ IsFile(Target) =>
              Shot = [Stat(Target, FALSE) EXCEPT !.hash = {fs[Target].text}]
<1>1. Stat(Target, FALSE) \in PathState /\ Stat(Target, FALSE).hash = {}
  BY TargetIsPlace, StatIs DEF TypeInv
<1>2. [Stat(Target, FALSE) EXCEPT !.hash = {}] = Stat(Target, FALSE)
  BY <1>1 DEF PathState
<1>3. QED
  BY <1>2 DEF Shot

LEMMA CapturePreSight ==
  ASSUME TypeInv, StepInv, CapturePre, \A n \in Tracked : PathAllowed(n)
  PROVE  SightInv'
<1>1. /\ pre' = {Stat(At(n), FALSE) : n \in Tracked}
      /\ pc' = (IF \E n \in Tracked : WithContent /\ IsFile(At(n)) THEN "hash" ELSE "execute")
      /\ base' = (IF Tracked = {} THEN None ELSE fs[Target])
      /\ touched' = {} /\ UNCHANGED <<said, fs>>
  BY DEF CapturePre, world
<1>2. SameView /\ Shot' = Shot /\ Stat(Target, FALSE)' = Stat(Target, FALSE)
      /\ (IsFile(Target)' <=> IsFile(Target))
  BY <1>1, SaidView, SameShot
<1>3. Target = At(Named)
  BY DEF Target
<1>4. Tracked # {} => pre' = {Stat(Target, FALSE)}
  BY <1>1, <1>3, TrackedIs
<1>5. pc' = IF Tracked # {} /\ WithContent /\ IsFile(Target) THEN "hash" ELSE "execute"
  BY <1>1, <1>3, TrackedIs
<1>6. Tracked # {} => \E s : pre' = {s} /\ ~s.modified
  <2>1. ~Stat(Target, FALSE).modified
    BY DEF Stat
  <2>2. QED
    BY <1>4, <2>1
<1>7. pc' \notin After /\ pc' \notin {"compared", "recapture", "rehash", "compare"}
  BY <1>5 DEF After
<1>8. SeenInv'
  BY <1>1, <1>2, <1>5, <1>6, <1>7 DEF SeenInv, SameView
<1>9. WroteInv'
  BY <1>7 DEF WroteInv
<1>10. Tracked # {} /\ pc' # "hash" => pre' = {Shot}
  BY <1>4, <1>5, ShotIs
<1>11. QuietInv'
  BY <1>1, <1>2, <1>4, <1>5, <1>7, <1>10 DEF QuietInv, SameView
<1>12. QED
  BY <1>8, <1>9, <1>11 DEF SightInv

LEMMA HashPreSight ==
  ASSUME TypeInv, StepInv, SightInv, HashPre, IsFile(Target)
  PROVE  SightInv'
<1>1. /\ pc = "hash" /\ pc' = "execute"
      /\ pre' = {[s EXCEPT !.hash = {fs[Target].text}] : s \in pre}
      /\ base' = fs[Target] /\ UNCHANGED <<said, fs, touched, meddled>>
  BY DEF HashPre, Still, world
<1>2. SameView /\ Shot' = Shot
  BY <1>1, SaidView, SameShot
<1>3. Tracked # {} /\ \E s : pre = {s} /\ ~s.modified
  BY <1>1 DEF SightInv, SeenInv, Between
<1>4. PICK s : pre = {s} /\ ~s.modified
  BY <1>3
<1>5. s \in PathState
  BY <1>4 DEF TypeInv
<1>6. pre' = {[s EXCEPT !.hash = {fs[Target].text}]}
  BY <1>1, <1>4
<1>7. ~[s EXCEPT !.hash = {fs[Target].text}].modified
  BY <1>4, <1>5 DEF PathState
<1>8. pc' \notin After
  BY <1>1 DEF After
<1>9. SeenInv'
  BY <1>1, <1>2, <1>3, <1>6, <1>7, <1>8 DEF SeenInv, SameView
<1>10. WroteInv'
  BY <1>1, <1>8 DEF WroteInv
<1>11. QuietInv'
  <2>1. SUFFICES ASSUME Quiet, ~meddled
                 PROVE  touched = {} /\ pre' = {Shot}
    BY <1>1, <1>2, <1>3 DEF QuietInv, SameView
  <2>2. /\ touched = {} /\ pre = {Stat(Target, FALSE)} /\ WithContent
    BY <1>1, <1>3, <2>1 DEF SightInv, QuietInv, Between
  <2>3. s = Stat(Target, FALSE)
    BY <1>4, <2>2
  <2>4. QED
    BY <1>6, <2>2, <2>3, ShotIs
<1>12. QED
  BY <1>9, <1>10, <1>11 DEF SightInv

LEMMA CapturePostSight ==
  ASSUME TypeInv, StepInv, SightInv, CapturePost
  PROVE  SightInv'
<1> DEFINE m == Target \in touched
<1>1. /\ pc = "recapture"
      /\ post' = {Stat(At(n), At(n) \in touched) : n \in Tracked}
      /\ pc' = (IF \E n \in Tracked : WithContent /\ IsFile(At(n))
                THEN "rehash" ELSE "compare")
      /\ final' = (IF Tracked = {} THEN None ELSE fs[Target])
      /\ UNCHANGED <<said, fs, pre, base, touched, meddled>>
  BY DEF CapturePost, Still, world
<1>2. SameView /\ Shot' = Shot /\ Stat(Target, FALSE)' = Stat(Target, FALSE)
      /\ (IsFile(Target)' <=> IsFile(Target))
  BY <1>1, SaidView, SameShot
<1>3. Target = At(Named) /\ pc \in Between /\ pc' \in After /\ pc' \notin Between
      /\ pc' \notin {"compared", "recapture", "hash"}
  BY <1>1 DEF Target, Between, After
<1>4. Tracked # {} => post' = {Stat(Target, m)}
  <2>1. CASE Tracked = {Named}
    BY <1>1, <1>3, <2>1, Zenon
  <2>2. QED
    BY <2>1, TrackedIs
<1>5. Stat(Target, m).modified <=> m
  BY DEF Stat
<1>6. pc' = IF Tracked # {} /\ WithContent /\ IsFile(Target) THEN "rehash" ELSE "compare"
  BY <1>1, <1>3, TrackedIs
<1>7. SeenInv'
  <2>1. CASE Tracked = {}
    BY <1>1, <1>2, <1>3, <2>1 DEF SightInv, SeenInv, SameView
  <2>2. CASE Tracked # {}
    <3>1. base # fs[Target] => m
      BY <1>3, <2>2 DEF SightInv, SeenInv
    <3>2. \E s : post' = {s} /\ (base' # final' => s.modified)
      BY <1>1, <1>4, <1>5, <2>2, <3>1
    <3>3. \E s : pre' = {s} /\ ~s.modified
      BY <1>1, <1>3, <2>2 DEF SightInv, SeenInv
    <3>4. QED
      BY <1>2, <1>3, <2>2, <3>2, <3>3 DEF SeenInv, SameView
  <2>3. QED
    BY <2>1, <2>2
<1>8. WroteInv'
  <2>1. SUFFICES ASSUME Changing PROVE \E s : post' = {s} /\ s.modified
    BY <1>2, <1>3 DEF WroteInv, SameView
  <2>2. m /\ Tracked # {}
    BY <1>1, <2>1 DEF SightInv, WroteInv, Changing, Tracked, Writes
  <2>3. QED
    BY <1>4, <1>5, <2>2
<1>9. QuietInv'
  <2>1. SUFFICES ASSUME Quiet, ~meddled
                 PROVE  /\ touched = {}
                        /\ Tracked # {} => pre = {Shot} /\ post' = {Stat(Target, FALSE)}
    BY <1>1, <1>2, <1>3, <1>6, ShotIs DEF QuietInv, SameView
  <2>2. touched = {} /\ (Tracked # {} => pre = {Shot})
    BY <1>1, <1>3, <2>1 DEF SightInv, QuietInv
  <2>3. m = FALSE
    BY <2>2
  <2>4. QED
    BY <1>4, <2>2, <2>3, Zenon
<1>10. QED
  BY <1>7, <1>8, <1>9 DEF SightInv

LEMMA HashPostSight ==
  ASSUME TypeInv, StepInv, SightInv, HashPost, IsFile(Target)
  PROVE  SightInv'
<1>1. /\ pc = "rehash" /\ pc' = "compare"
      /\ post' = {[s EXCEPT !.hash = {fs[Target].text}] : s \in post}
      /\ UNCHANGED <<said, fs, pre, base, final, touched, meddled>>
  BY DEF HashPost, Still, world, history
<1>2. SameView /\ Shot' = Shot
  BY <1>1, SaidView, SameShot
<1>3. /\ pc \in After /\ pc' \in After /\ pc' \notin Between
      /\ pc' \notin {"compared", "hash", "rehash", "recapture"}
  BY <1>1 DEF After, Between
<1>4. ASSUME NEW s, post = {s}
      PROVE  /\ post' = {[s EXCEPT !.hash = {fs[Target].text}]}
             /\ [s EXCEPT !.hash = {fs[Target].text}].modified <=> s.modified
  <2>1. s \in PathState
    BY <1>4 DEF TypeInv
  <2>2. post' = {[s EXCEPT !.hash = {fs[Target].text}]}
    BY <1>1, <1>4
  <2>3. [s EXCEPT !.hash = {fs[Target].text}].modified <=> s.modified
    BY <2>1 DEF PathState
  <2>4. QED
    BY <2>2, <2>3
<1>5. SeenInv'
  <2>1. Tracked # {} => \E s : post' = {s} /\ (base # final => s.modified)
    BY <1>3, <1>4 DEF SightInv, SeenInv
  <2>2. QED
    BY <1>1, <1>2, <1>3, <2>1 DEF SightInv, SeenInv, SameView
<1>6. WroteInv'
  <2>1. Changing => \E s : post' = {s} /\ s.modified
    BY <1>3, <1>4 DEF SightInv, WroteInv
  <2>2. QED
    BY <1>2, <1>3, <2>1 DEF WroteInv, SameView
<1>7. QuietInv'
  <2>1. SUFFICES ASSUME Quiet, ~meddled
                 PROVE  /\ touched = {}
                        /\ Tracked # {} => pre = {Shot} /\ post' = {Shot}
    BY <1>1, <1>2, <1>3 DEF QuietInv, SameView
  <2>2. /\ touched = {}
        /\ Tracked # {} => pre = {Shot} /\ post = {Stat(Target, FALSE)} /\ WithContent
    BY <1>1, <1>3, <2>1 DEF SightInv, QuietInv
  <2>3. QED
    BY <1>4, <2>2, ShotIs
<1>8. QED
  BY <1>5, <1>6, <1>7 DEF SightInv

LEMMA CompareSight ==
  ASSUME TypeInv, StepInv, SightInv, Compare
  PROVE  SightInv'
<1>1. /\ pc = "compare" /\ pc' = "compared"
      /\ delta' = [kind |-> DeltaKind, changed |-> ChangedPaths]
      /\ UNCHANGED <<said, pre, post, base, final, touched, meddled>>
  BY DEF Compare, Still, capture, history
<1>2. SameView
  BY <1>1, SaidView
<1>3. /\ pc \in After /\ pc' \notin Between \cup After
      /\ pc' \notin {"hash", "rehash", "compare", "recapture"}
  BY <1>1 DEF After, Between
<1>4. Tracked # {} => \E s : pre = {s} /\ ~s.modified
  BY <1>3 DEF SightInv, SeenInv
<1>5. SeenInv'
  <2>1. ASSUME base # final PROVE ChangedPaths = Tracked
    <3>1. Tracked # {} /\ \E t : post = {t} /\ t.modified
      BY <1>3, <2>1 DEF SightInv, SeenInv
    <3>2. QED
      BY <1>4, <3>1, ChangedIs
  <2>2. QED
    BY <1>1, <1>2, <1>3, <2>1 DEF SeenInv, SameView
<1>6. WroteInv'
  <2>1. SUFFICES ASSUME Changing
                 PROVE  DeltaKind = "as_expected" /\ ChangedPaths = {Named}
    BY <1>1, <1>2, <1>3 DEF WroteInv, SameView
  <2>2. Tracked = {Named} /\ ExpectsChange
    BY <2>1 DEF Changing, Tracked, ExpectsChange, Writes
  <2>3. \E t : post = {t} /\ t.modified
    BY <1>3, <2>1 DEF SightInv, WroteInv
  <2>4. ChangedPaths = {Named}
    BY <1>4, <2>2, <2>3, ChangedIs
  <2>5. QED
    BY <2>2, <2>4 DEF DeltaKind
<1>7. QuietInv'
  <2>1. SUFFICES ASSUME Quiet, ~meddled
                 PROVE  DeltaKind = "unchanged" /\ ChangedPaths = {}
    BY <1>1, <1>2, <1>3 DEF QuietInv, SameView
  <2>2. Tracked # {} => pre = {Shot} /\ post = {Shot}
    BY <1>1, <1>3, <2>1 DEF SightInv, QuietInv
  <2>3. ChangedPaths = {}
    <3>1. CASE Tracked = {}
      BY <3>1 DEF ChangedPaths
    <3>2. CASE Tracked # {}
      BY <2>2, <3>2, ChangedIs
    <3>3. QED
      BY <3>1, <3>2
  <2>4. ~CommandChanged
    BY <2>1 DEF Quiet, CommandChanged
  <2>5. QED
    BY <2>3, <2>4 DEF DeltaKind
<1>8. QED
  BY <1>5, <1>6, <1>7 DEF SightInv

LEMMA SightInvariant == Spec => []SightInv
<1>1. Init => SightInv
  <2> SUFFICES ASSUME Init PROVE SightInv
    OBVIOUS
  <2>1. pc = "idle"
    BY DEF Init
  <2>2. QED
    BY <2>1 DEF SightInv, SeenInv, WroteInv, QuietInv, Between, After
<1>2. ASSUME TypeInv, StepInv, SightInv, [Next]_vars PROVE SightInv'
  <2>1. CASE Step
    <3>1. CASE Ends \/ \E task \in Task, r \in Reply : Reason(task, r)
      <4>1. pc' \in {"idle", "capture"}
        BY <3>1 DEF Ends, Over, Reason
      <4>2. QED
        BY <4>1, OutsideSight
    <3>2. QED
      BY <1>2, <2>1, <3>1, StepCases, PassesSight, WritesSight, CapturePreSight,
         HashPreSight, CapturePostSight, HashPostSight, CompareSight
  <2>2. CASE Meddle
    BY <1>2, <2>2, MeddleSight
  <2>3. CASE UNCHANGED vars
    <3>1. UNCHANGED <<fs, pc, said, pre, post, delta, touched, meddled, base, final>>
      BY <2>3 DEF vars, world, capture, history
    <3>2. SameView /\ Shot' = Shot /\ Stat(Target, FALSE)' = Stat(Target, FALSE)
          /\ (IsFile(Target)' <=> IsFile(Target))
      BY <3>1, SaidView, SameShot
    <3>3. SeenInv' /\ WroteInv'
      BY <1>2, <3>1, <3>2 DEF SightInv, SeenInv, WroteInv, SameView
    <3>4. QuietInv'
      BY <1>2, <3>1, <3>2 DEF SightInv, QuietInv, SameView
    <3>5. QED
      BY <3>3, <3>4 DEF SightInv
  <2>4. QED
    BY <1>2, <2>1, <2>2, <2>3 DEF Next
<1>3. QED
  BY <1>1, <1>2, StepsInvariant, PTL DEF Spec

\* A change of the tracked file between the captures is never judged
\* "unchanged", whoever made it.
THEOREM NoChangeIsMissed == Spec => []ChangesSeen
<1>1. SightInv => ChangesSeen
  BY DEF SightInv, SeenInv, ChangesSeen
<1>2. QED
  BY <1>1, SightInvariant, PTL

\* While nobody else interferes, the verification of file operations is right.
THEOREM VerificationIsRight == Spec => []WritesVerified
<1>1. SightInv => WritesVerified
  BY DEF SightInv, WroteInv, QuietInv, WritesVerified, Changing, Quiet
<1>2. QED
  BY <1>1, SightInvariant, PTL

-----------------------------------------------------------------------------
(* Traversals.                                                             *)

\* What a traversal should find.
Wanted(p) ==
  /\ Exists(p) /\ Target \in Above(p)
  /\ Op = "list_directory" /\ ~Arg("recursive", FALSE) => Front(p) = Target

Walking == pc = "walk" \/ (pc = "recapture" /\ Op \in Walks)

\* What is still to be visited lies side by side, and nothing found lies there;
\* below the cap, what is wanted and was left alone is found or lies there.
WalkInv ==
  Walking =>
    /\ IsFiniteSet(found) /\ Cardinality(found) <= Cap
    /\ \A q \in todo : \A r \in todo : q \notin Above(r)
    /\ \A q \in todo : \A h \in found : q # h[1] /\ q \notin Above(h[1])
    /\ Cardinality(found) < Cap =>
         \A p \in Place \ touched : Wanted(p) =>
           \/ Hits(p) \subseteq found
           \/ pc = "walk" /\ \E q \in todo : q = p \/ q \in Above(p)

LEMMA LeastNumber ==
  ASSUME NEW T, T \subseteq Nat, T # {}
  PROVE  \E n \in T : \A m \in T : n <= m
<1>1. PICK n \in T : \A m \in T : <<m, n>> \notin OpToRel(<, Nat)
  BY NatLessThanWellFounded, WFMin
<1>2. \A m \in T : ~ (m < n)
  BY <1>1 DEF OpToRel
<1>3. QED
  BY <1>2

\* The entry of a directory that leads to a place below it.
LEMMA StepDown ==
  ASSUME NEW p \in Place, NEW d \in Above(p)
  PROVE  \E q \in Place : (q = p \/ q \in Above(p)) /\ d \in Above(q) /\ Front(q) = d
<1> DEFINE S == {q \in Place : (q = p \/ q \in Above(p)) /\ d \in Above(q)}
           T == {Len(q) : q \in S}
<1>1. p \in S
  OBVIOUS
<1>2. T \subseteq Nat /\ T # {}
  <2>1. \A q \in Place : q \in Seq(STRING)
    BY PlaceIsPath DEF Path
  <2>2. \A q \in Place : Len(q) \in Nat
    BY <2>1, LenProperties
  <2>3. QED
    BY <1>1, <2>2
<1>3. PICK n \in T : \A m \in T : n <= m
  BY <1>2, LeastNumber
<1>4. PICK q \in S : Len(q) = n
  OBVIOUS
<1>5. /\ Front(q) \in Above(q) /\ Len(Front(q)) = Len(q) - 1 /\ Len(q) \in Nat \ {0}
      /\ d = Front(q) \/ d \in Above(Front(q))
  BY FrontAbove
<1>6. Front(q) \in Place /\ Front(q) \in Above(p)
  BY <1>5, AboveAbove
<1>7. ASSUME d \in Above(Front(q)) PROVE FALSE
  <2>1. Front(q) \in S
    BY <1>6, <1>7
  <2>2. Len(q) <= Len(q) - 1
    BY <1>3, <1>4, <1>5, <2>1
  <2>3. QED
    BY <1>5, <2>2
<1>8. Front(q) = d
  BY <1>5, <1>7
<1>9. QED
  BY <1>8

LEMMA CapIsNumber == TypeInv => Cap \in Nat \ {0}
<1> SUFFICES ASSUME TypeInv PROVE Cap \in Nat \ {0}
  OBVIOUS
<1>1. ListLimit \in Nat /\ SearchLimit \in Nat
  BY WorkspaceAssumption
<1>2. Arg("max_entries", ListLimit) \in Nat /\ Arg("max_results", SearchLimit) \in Nat
  BY <1>1, Arguments DEF TypeInv, Numbers
<1>3. QED
  BY <1>1, <1>2 DEF Cap, Most, Least

LEMMA HitsFinite ==
  ASSUME FileTree(fs), NEW p \in Place
  PROVE  IsFiniteSet(Hits(p))
<1>1. MaxLen \in Nat
  BY WorkspaceAssumption
<1>2. IsFiniteSet({p}) /\ IsFiniteSet(0..MaxLen)
  <2>1. 0 \in Int /\ MaxLen \in Int
    BY <1>1
  <2>2. IsFiniteSet(0..MaxLen)
    BY <2>1, FS_Interval
  <2>3. QED
    BY <2>2, FS_Singleton
<1>3. IsFiniteSet({p} \X (0..MaxLen))
  BY <1>2, FS_Product
<1>4. QED
  BY <1>3, HitsAtPlace, FS_Subset

\* A file that is there has all its directories.
LEMMA AllDirsThere ==
  ASSUME FileTree(fs), NEW p \in Place, Exists(p), NEW q \in Above(p)
  PROVE  IsDir(q) /\ Exists(q)
<1>1. fs[q].kind = "dir"
  BY DEF FileTree, Exists
<1>2. QED
  BY <1>1 DEF IsDir, Exists

\* Nothing in a directory's entries lies above another one.
LEMMA ChildrenApart ==
  ASSUME NEW d \in Place, NEW q \in Children(d)
  PROVE  /\ q \in Place /\ d \in Above(q) /\ q # d
         /\ \A r \in Above(q) : r = d \/ r \in Above(d)
<1>1. q \in Place /\ Front(q) = d /\ d \in Above(q) /\ q # d
  BY ChildrenBelow DEF Children
<1>2. QED
  BY <1>1, FrontAbove

LEMMA WalksOnly ==
  ASSUME TypeInv, StepInv, Step, Walking'
  PROVE  StartWalk \/ Visit \/ EndWalk
<1>1. pc' \in {"walk", "recapture"} /\ (pc' = "recapture" => Op' \in Walks)
  BY DEF Walking
<1>2. ~Over
  BY <1>1 DEF Over
<1>3. ~Fail
  BY <1>2 DEF Fail
<1>4. ASSUME pc' = "recapture", UNCHANGED said PROVE Op \in Walks
  BY <1>1, <1>4, SameAnswer
<1>5. ~\E task \in Task, r \in Reply : Reason(task, r) \/ ReasonFails(task, r)
  BY <1>1, <1>3 DEF Reason, ReasonFails
<1>6. ~CapturePre /\ ~HashPre /\ ~Refuse /\ ~ParentsFail /\ ~CommandFails /\ ~Return
  BY <1>1, <1>3 DEF CapturePre, HashPre, Refuse, ParentsFail, CommandFails, Return
<1>7. ~CapturePost /\ ~HashPost /\ ~Compare /\ ~CheckTarget /\ ~MakeParents /\ ~WriteFails
  BY <1>1, <1>2, <1>3
  DEF CapturePost, HashPost, Compare, CheckTarget, MakeParents, WriteFails, Goto
<1>8. ~ReadFile /\ ~Ingest /\ ~Inspect
  BY <1>3, <1>4 DEF ReadFile, Ingest, Inspect, Executing, Answered, Walks
<1>9. ~Extract
  <2>1. SUFFICES ASSUME Extract PROVE FALSE
    OBVIOUS
  <2>2. Op = "extract_document_text" /\ \E r : Answered(r)
    BY <1>3, <2>1 DEF Extract, Executing
  <2>3. QED
    BY <1>4, <2>2 DEF Answered, Walks
<1>10. ~WriteContent
  BY <1>4 DEF WriteContent, Answered, StepInv, Walks, Writes
<1>11. ~RunCommand
  BY <1>4 DEF RunCommand, Executing, Answered, Walks
<1>12. QED
  BY <1>5, <1>6, <1>7, <1>8, <1>9, <1>10, <1>11 DEF Step

LEMMA SameWanted ==
  ASSUME UNCHANGED said, NEW p, fs'[p] = fs[p]
  PROVE  Hits(p)' = Hits(p) /\ (Wanted(p)' <=> Wanted(p))
<1>1. Op' = Op /\ Target' = Target /\ \A f, d : Arg(f, d)' = Arg(f, d)
  BY SameAnswer
<1>2. Hits(p)' = Hits(p)
  BY <1>1 DEF Hits, IsFile
<1>3. Wanted(p)' <=> Wanted(p)
  BY <1>1 DEF Wanted, Exists
<1>4. QED
  BY <1>2, <1>3

\* What is left to visit after a visit lies side by side as well.
LEMMA VisitApart ==
  ASSUME TypeInv, WalkInv, Walking, NEW p \in todo,
         NEW E, E \subseteq (todo \ {p}) \cup Children(p)
  PROVE  /\ \A q \in E : \A r \in E : q \notin Above(r)
         /\ \A q \in E : q # p /\ q \notin Above(p)
         /\ \A q \in E : \A h \in found : q # h[1] /\ q \notin Above(h[1])
<1>1. /\ todo \subseteq Place /\ p \in Place
      /\ \A q \in todo : \A r \in todo : q \notin Above(r)
      /\ \A q \in todo : \A h \in found : h[1] \in Place /\ q # h[1] /\ q \notin Above(h[1])
  BY DEF TypeInv, WalkInv
<1>2. \A q \in Children(p) :
        /\ q \in Place /\ p \in Above(q) /\ q # p /\ q \notin Above(p)
        /\ \A r \in Above(q) : r = p \/ r \in Above(p)
  BY <1>1, ChildrenApart, AboveAbove
<1>3. \A q \in E : q \in Place /\ q # p /\ q \notin Above(p)
  BY <1>1, <1>2
<1>4. ASSUME NEW q \in E, NEW h \in found PROVE q # h[1] /\ q \notin Above(h[1])
  <2>1. CASE q \in Children(p)
    <3>1. p \in Above(q) /\ h[1] \in Place /\ p # h[1] /\ p \notin Above(h[1])
      BY <1>1, <1>2, <2>1
    <3>2. q \in Above(h[1]) => Above(q) \subseteq Above(h[1])
      BY <3>1, AboveAbove
    <3>3. QED
      BY <3>1, <3>2
  <2>2. CASE q \in todo
    BY <1>1, <2>2
  <2>3. QED
    BY <2>1, <2>2
<1>5. ASSUME NEW q \in E, NEW r \in E PROVE q \notin Above(r)
  <2>1. CASE r \in Children(p)
    BY <1>2, <1>3, <2>1
  <2>2. CASE q \in Children(p) /\ r \in todo
    <3>1. p \in Above(q) /\ r \in Place /\ p \notin Above(r)
      BY <1>1, <1>2, <2>2
    <3>2. q \in Above(r) => Above(q) \subseteq Above(r)
      BY <3>1, AboveAbove
    <3>3. QED
      BY <3>1, <3>2
  <2>3. CASE q \in todo /\ r \in todo
    BY <1>1, <2>3
  <2>4. QED
    BY <2>1, <2>2, <2>3
<1>6. QED
  BY <1>3, <1>4, <1>5

LEMMA StartWalkKeeps ==
  ASSUME TypeInv, StepInv, StartWalk, Walking'
  PROVE  WalkInv'
<1>1. /\ IsDir(Target) /\ pc' = "walk" /\ todo' = Children(Target) /\ found' = {}
      /\ UNCHANGED <<fs, touched, said>>
  <2>1. ~Fail
    BY DEF Fail, Over, Walking
  <2>2. QED
    BY <2>1 DEF StartWalk, Still, world
<1>2. Target \in Place /\ FileTree(fs) /\ Cap \in Nat \ {0}
  BY TargetIsPlace, CapIsNumber DEF TypeInv
<1>3. Target' = Target /\ Cap' = Cap
  BY <1>1, SameAnswer
<1>4. IsFiniteSet(found') /\ Cardinality(found') = 0
  BY <1>1, FS_EmptySet
<1>5. \A q \in todo' : \A r \in todo' : q \notin Above(r)
  BY <1>1, <1>2, ChildrenApart, AboveAbove
<1>6. ASSUME NEW p \in Place, Wanted(p) PROVE \E q \in todo' : q = p \/ q \in Above(p)
  <2>1. Exists(p) /\ Target \in Above(p)
    BY <1>6 DEF Wanted
  <2>2. PICK q \in Place : (q = p \/ q \in Above(p)) /\ Target \in Above(q) /\ Front(q) = Target
    BY <2>1, StepDown
  <2>3. Exists(q) /\ q # Target
    BY <1>2, <2>1, <2>2, AllDirsThere, AboveAbove
  <2>4. q \in Children(Target)
    BY <2>2, <2>3 DEF Children
  <2>5. QED
    BY <1>1, <2>2, <2>4
<1>7. \A p \in Place : Wanted(p)' <=> Wanted(p)
  BY <1>1, SameWanted
<1>8. Cardinality(found') <= Cap'
  BY <1>2, <1>3, <1>4
<1>9. \A q \in todo' : \A h \in found' : q # h[1] /\ q \notin Above(h[1])
  BY <1>1
<1>10. QED
  BY <1>1, <1>4, <1>5, <1>6, <1>7, <1>8, <1>9 DEF WalkInv, Above, Within

LEMMA VisitKeeps ==
  ASSUME TypeInv, StepInv, WalkInv, Visit, Walking'
  PROVE  WalkInv'
<1>1. ~Fail
  BY DEF Fail, Over, Walking
<1>2. PICK p \in todo : Exists(p) /\ \E h \in SUBSET Hits(p) :
              /\ Cardinality(h) = Least(Cardinality(Hits(p)), Cap - Cardinality(found))
              /\ found' = found \cup h
              /\ todo' = Entries(p)
              /\ Still
              /\ UNCHANGED <<pc, said, capture, existed, result, delta, history>>
  BY <1>1 DEF Visit
<1>3. PICK h \in SUBSET Hits(p) :
              /\ Cardinality(h) = Least(Cardinality(Hits(p)), Cap - Cardinality(found))
              /\ found' = found \cup h /\ todo' = Entries(p)
              /\ UNCHANGED <<fs, touched, pc, said>>
  BY <1>2 DEF Still, world
<1>4. /\ pc = "walk" /\ Cardinality(found) < Cap /\ Op \in Walks
      /\ p \in Place /\ Target \in Above(p) /\ Target \in Place /\ FileTree(fs) /\ Cap \in Nat
      /\ todo' \subseteq (todo \ {p}) \cup Children(p)
  BY <1>3, TargetIsPlace, CapIsNumber DEF Visit, TypeInv, StepInv, Entries
<1>5. /\ Walking /\ IsFiniteSet(found) /\ Cardinality(found) \in Nat
      /\ \A e \in found : p # e[1]
      /\ \A w \in Place \ touched : Wanted(w) =>
           Hits(w) \subseteq found \/ \E q \in todo : q = w \/ q \in Above(w)
  BY <1>4, FS_CardinalityType DEF WalkInv, Walking
<1>6. /\ Hits(p) \subseteq {p} \X (0..MaxLen) /\ IsFiniteSet(Hits(p)) /\ IsFiniteSet(h)
      /\ Cardinality(h) \in Nat /\ Cardinality(Hits(p)) \in Nat
      /\ Cardinality(h) = Cardinality(Hits(p)) => h = Hits(p)
  BY <1>4, HitsAtPlace, HitsFinite, FS_Subset, FS_CardinalityType
<1>7. IsFiniteSet(found') /\ Cardinality(found') = Cardinality(found) + Cardinality(h)
  <2>1. found \cap h = {}
    BY <1>5, <1>6
  <2>2. Cardinality(found \cap h) = 0
    BY <2>1, FS_EmptySet
  <2>3. /\ IsFiniteSet(found \cup h)
        /\ Cardinality(found \cup h)
             = Cardinality(found) + Cardinality(h) - Cardinality(found \cap h)
    BY <1>5, <1>6, FS_Union
  <2>4. QED
    BY <1>3, <1>5, <1>6, <2>2, <2>3
<1>8. Cardinality(found') <= Cap /\ (Cardinality(found') < Cap => h = Hits(p))
  BY <1>3, <1>4, <1>5, <1>6, <1>7 DEF Least
<1>9. /\ \A q \in todo' : \A r \in todo' : q \notin Above(r)
      /\ \A q \in todo' : \A e \in found' : q # e[1] /\ q \notin Above(e[1])
  <2>1. /\ \A q \in todo' : \A r \in todo' : q \notin Above(r)
        /\ \A q \in todo' : q # p /\ q \notin Above(p)
        /\ \A q \in todo' : \A e \in found : q # e[1] /\ q \notin Above(e[1])
    BY <1>4, <1>5, VisitApart
  <2>2. \A e \in h : e[1] = p
    BY <1>6
  <2>3. QED
    BY <1>3, <2>1, <2>2
<1>10. ASSUME Cardinality(found') < Cap, NEW w \in Place \ touched, Wanted(w)
       PROVE  Hits(w) \subseteq found' \/ \E q \in todo' : q = w \/ q \in Above(w)
  <2>1. CASE Hits(w) \subseteq found
    BY <1>3, <2>1
  <2>2. ASSUME NEW q \in todo, q # p, q = w \/ q \in Above(w)
        PROVE  \E r \in todo' : r = w \/ r \in Above(w)
    BY <1>3, <2>2 DEF Entries
  <2>3. CASE p = w
    BY <1>3, <1>8, <1>10, <2>3
  <2>4. CASE p \in Above(w)
    <3>1. Exists(w) /\ Target \in Above(w)
      BY <1>10 DEF Wanted
    <3>2. IsDir(p)
      BY <1>4, <2>4, <3>1, AllDirsThere
    <3>3. Op = "list_directory" => Arg("recursive", FALSE)
      <4>1. SUFFICES ASSUME Front(w) = Target PROVE FALSE
        BY <1>10 DEF Wanted
      <4>2. p = Target \/ p \in Above(Target)
        BY <2>4, <4>1, FrontAbove
      <4>3. QED
        BY <1>4, <4>2, AboveAbove
    <3>4. PICK q \in Place : (q = w \/ q \in Above(w)) /\ p \in Above(q) /\ Front(q) = p
      BY <2>4, StepDown
    <3>5. Exists(q) /\ q # p
      BY <1>4, <3>1, <3>4, AllDirsThere, AboveAbove
    <3>6. q \in todo'
      BY <1>3, <3>2, <3>3, <3>4, <3>5 DEF Entries, Descends, Children
    <3>7. QED
      BY <3>4, <3>6
  <2>5. QED
    BY <1>5, <1>10, <2>1, <2>2, <2>3, <2>4
<1>11. Cap' = Cap /\ \A w \in Place : Hits(w)' = Hits(w) /\ (Wanted(w)' <=> Wanted(w))
  BY <1>3, SameAnswer, SameWanted
<1>12. pc' = "walk" /\ touched' = touched
  BY <1>3, <1>4
<1>13. \A w \in Place \ touched' : Wanted(w)' /\ Cardinality(found') < Cap' =>
         Hits(w)' \subseteq found' \/ \E q \in todo' : q = w \/ q \in Above(w)
  BY <1>10, <1>11, <1>12
<1>14. QED
  BY <1>7, <1>8, <1>9, <1>11, <1>12, <1>13 DEF WalkInv, Above, Within

LEMMA EndWalkKeeps ==
  ASSUME TypeInv, WalkInv, EndWalk
  PROVE  WalkInv'
<1>1. /\ pc = "walk"
      /\ todo = {} \/ Cardinality(found) >= Cap
      /\ UNCHANGED <<said, todo, found, fs, touched>>
  BY DEF EndWalk, Answered, Still, world
<1>2. Walking
  BY <1>1 DEF Walking
<1>3. Cap' = Cap /\ \A p \in Place : Hits(p)' = Hits(p) /\ (Wanted(p)' <=> Wanted(p))
  BY <1>1, SameAnswer, SameWanted
<1>4. /\ IsFiniteSet(found) /\ Cardinality(found) <= Cap /\ Cardinality(found) \in Nat
      /\ Cap \in Nat
  BY <1>2, FS_CardinalityType, CapIsNumber DEF WalkInv
<1>5. ASSUME Cardinality(found) < Cap, NEW p \in Place \ touched, Wanted(p)
      PROVE  Hits(p) \subseteq found
  <2>1. todo = {}
    BY <1>1, <1>4, <1>5
  <2>2. QED
    BY <1>2, <1>5, <2>1 DEF WalkInv
<1>6. /\ \A q \in todo : \A r \in todo : q \notin Above(r)
      /\ \A q \in todo : \A h \in found : q # h[1] /\ q \notin Above(h[1])
  BY <1>2 DEF WalkInv
<1>7. QED
  BY <1>1, <1>3, <1>4, <1>5, <1>6 DEF WalkInv, Above, Within

LEMMA MeddleWalk ==
  ASSUME TypeInv, WalkInv, Meddle
  PROVE  WalkInv'
<1>1. /\ UNCHANGED <<pc, said, todo, found>> /\ touched \subseteq touched'
      /\ \A p \in Place \ touched' : fs'[p] = fs[p]
  BY MeddleIs
<1>2. Cap' = Cap /\ (Walking' <=> Walking)
  BY <1>1, SameAnswer DEF Walking
<1>3. \A p \in Place \ touched' : Hits(p)' = Hits(p) /\ (Wanted(p)' <=> Wanted(p))
  BY <1>1, SameWanted
<1>4. SUFFICES ASSUME Walking PROVE WalkInv'
  BY <1>2 DEF WalkInv
<1>5. \A p \in Place \ touched' : Wanted(p)' /\ Cardinality(found) < Cap =>
        Hits(p)' \subseteq found \/ (pc = "walk" /\ \E q \in todo : q = p \/ q \in Above(p))
  BY <1>1, <1>3, <1>4 DEF WalkInv
<1>6. /\ IsFiniteSet(found) /\ Cardinality(found) <= Cap
      /\ \A q \in todo : \A r \in todo : q \notin Above(r)
      /\ \A q \in todo : \A h \in found : q # h[1] /\ q \notin Above(h[1])
  BY <1>4 DEF WalkInv
<1>7. QED
  BY <1>1, <1>2, <1>5, <1>6 DEF WalkInv, Above, Within

LEMMA WalkInvariant == Spec => []WalkInv
<1>1. Init => WalkInv
  BY DEF Init, WalkInv, Walking
<1>2. ASSUME TypeInv, StepInv, WalkInv, [Next]_vars PROVE WalkInv'
  <2>1. CASE ~Walking'
    BY <2>1 DEF WalkInv
  <2>2. CASE Step /\ Walking'
    BY <1>2, <2>2, WalksOnly, StartWalkKeeps, VisitKeeps, EndWalkKeeps
  <2>3. CASE Meddle
    BY <1>2, <2>3, MeddleWalk
  <2>4. CASE UNCHANGED vars
    <3>1. UNCHANGED <<pc, said, todo, found, fs, touched>>
      BY <2>4 DEF vars, world, walk
    <3>2. /\ Cap' = Cap /\ (Walking' <=> Walking)
          /\ \A p \in Place : Hits(p)' = Hits(p) /\ (Wanted(p)' <=> Wanted(p))
      BY <3>1, SameAnswer, SameWanted DEF Walking
    <3>3. QED
      BY <1>2, <3>1, <3>2 DEF WalkInv, Above, Within
  <2>5. QED
    BY <1>2, <2>1, <2>2, <2>3, <2>4 DEF Next
<1>3. QED
  BY <1>1, <1>2, StepsInvariant, PTL DEF Spec

\* A listing or a search that is shown whole and stays below its cap has found
\* everything that was there all the time, below a root and in a tree of any
\* shape, while files come and go.
THEOREM TraversalsAreComplete == Spec => []TraversalComplete
<1>1. TypeInv /\ WalkInv => TraversalComplete
  <2> SUFFICES ASSUME TypeInv, WalkInv, pc = "recapture", Op \in Walks
               PROVE  LET shown == Shown(result, found)
                      IN  /\ shown.count <= Cap
                          /\ shown.entries = shown.count /\ shown.count < Cap =>
                               \A p \in Place \ touched :
                                 /\ Exists(p) /\ Target \in Above(p)
                                 /\ Op = "list_directory" /\ ~Arg("recursive", FALSE)
                                      => Front(p) = Target
                                 => Hits(p) \subseteq found
    BY DEF TraversalComplete
  <2>1. Shown(result, found).count = Cardinality(found)
    BY DEF Shown
  <2>2. Walking
    BY DEF Walking
  <2>3. Cardinality(found) <= Cap
    BY <2>2 DEF WalkInv
  <2>4. ASSUME Cardinality(found) < Cap, NEW p \in Place \ touched, Wanted(p)
        PROVE  Hits(p) \subseteq found
    BY <2>2, <2>4 DEF WalkInv
  <2>5. QED
    BY <2>1, <2>3, <2>4 DEF Wanted
<1>2. QED
  BY <1>1, WalkInvariant, StepsInvariant, PTL

-----------------------------------------------------------------------------
(* Reading.                                                                *)

LEMMA PrefixCut ==
  ASSUME NEW S, NEW t \in Seq(S), NEW n \in Nat
  PROVE  /\ Prefix(t, n) \in Seq(S) /\ IsPrefix(Prefix(t, n), t)
         /\ Len(Prefix(t, n)) = Least(Len(t), n)
         /\ Prefix(t, n) = t <=> Len(t) <= n
<1> DEFINE k == Least(Len(t), n)
<1>1. Len(t) \in Nat /\ k \in Nat /\ k <= Len(t) /\ (k = Len(t) <=> Len(t) <= n)
  BY LenProperties DEF Least
<1>2. /\ SubSeq(t, 1, k) \in Seq(S) /\ Len(SubSeq(t, 1, k)) = k
      /\ \A i \in 1..k : SubSeq(t, 1, k)[i] = t[i]
  BY <1>1
<1>3. Prefix(t, n) = SubSeq(t, 1, k)
  BY DEF Prefix
<1> HIDE DEF k
<1>4. IsPrefix(SubSeq(t, 1, k), t)
  BY <1>1, <1>2, PrefixIs
<1>5. k = Len(t) => SubSeq(t, 1, k) = t
  BY <1>1, <1>2, SeqEqual
<1>6. SubSeq(t, 1, k) = t => k = Len(t)
  BY <1>2
<1>7. QED
  BY <1>1, <1>2, <1>3, <1>4, <1>5, <1>6 DEF k

\* A text that is cut and marked so, and then cut again for the reasoner.
LEMMA ShownWhole ==
  ASSUME NEW t \in Seq(Unit), NEW r, NEW limit \in Nat,
         r.text = Prefix(t, limit), r.truncated <=> Len(t) > limit
  PROVE  LET shown == Shown(r, {})
         IN  IsPrefix(shown.text, t) /\ (shown.marked \/ shown.text = t)
<1> DEFINE s == IF Op = "ingest_structured_data" THEN r.text ELSE Prefix(r.text, TextShown)
<1>1. /\ r.text \in Seq(Unit) /\ IsPrefix(r.text, t) /\ (r.text = t <=> Len(t) <= limit)
      /\ Len(t) \in Nat
  BY PrefixCut, LenProperties
<1>2. s \in Seq(Unit) /\ IsPrefix(s, r.text)
  <2>1. TextShown \in Nat
    BY WorkspaceAssumption
  <2>2. Prefix(r.text, TextShown) \in Seq(Unit) /\ IsPrefix(Prefix(r.text, TextShown), r.text)
    BY <1>1, <2>1, PrefixCut
  <2>3. IsPrefix(r.text, r.text)
    BY <1>1, PrefixOrder
  <2>4. QED
    BY <1>1, <2>2, <2>3
<1>3. Shown(r, {}).text = s /\ (Shown(r, {}).marked <=> r.truncated \/ s # r.text)
  BY DEF Shown
<1> HIDE DEF s
<1>4. IsPrefix(s, t)
  BY <1>1, <1>2, PrefixOrder
<1>5. r.truncated \/ s # r.text \/ s = t
  BY <1>1
<1>6. QED
  BY <1>3, <1>4, <1>5

\* read_file sees one unit more than its limit, and so whether there is more.
LEMMA ReadTextIs ==
  ASSUME NEW t \in Seq(Unit), NEW limit \in Nat
  PROVE  /\ ReadText(t, limit).text = Prefix(t, limit)
         /\ ReadText(t, limit).truncated <=> Len(t) > limit
<1> DEFINE b == Prefix(t, limit + 1)
<1>1. limit + 1 \in Nat /\ Len(t) \in Nat
  BY LenProperties
<1>2. b \in Seq(Unit) /\ Len(b) = Least(Len(t), limit + 1) /\ IsPrefix(b, t)
  BY <1>1, PrefixCut
<1>3. Len(b) > limit <=> Len(t) > limit
  BY <1>1, <1>2 DEF Least
<1>4. Prefix(b, limit) = Prefix(t, limit)
  <2>1. /\ Prefix(b, limit) \in Seq(Unit) /\ IsPrefix(Prefix(b, limit), b)
        /\ Len(Prefix(b, limit)) = Least(Len(b), limit)
        /\ Prefix(t, limit) \in Seq(Unit) /\ IsPrefix(Prefix(t, limit), t)
        /\ Len(Prefix(t, limit)) = Least(Len(t), limit)
    BY <1>2, PrefixCut
  <2>2. IsPrefix(Prefix(b, limit), t)
    BY <1>2, <2>1, PrefixOrder
  <2>3. Len(Prefix(b, limit)) = Len(Prefix(t, limit))
    BY <1>1, <1>2, <2>1 DEF Least
  <2>4. \A i \in 1..Len(Prefix(t, limit)) : Prefix(b, limit)[i] = Prefix(t, limit)[i]
    BY <2>1, <2>2, <2>3, PrefixIs
  <2>5. QED
    BY <2>1, <2>3, <2>4, SeqEqual
<1>5. QED
  BY <1>3, <1>4 DEF ReadText

\* The pages that are extracted, also when a range lies beyond the last one.
LEMMA PagesAreText ==
  ASSUME TypeInv, NEW t \in Seq(Unit)
  PROVE  Pages(t) \in Seq(Unit)
<1>1. CASE PageRange = {}
  BY <1>1 DEF Pages
<1>2. CASE PageRange # {}
  <2> DEFINE given == {said[f] : f \in {"page_start", "page_end"} \cap DOMAIN said}
             lo == Arg("page_start", Arg("page_end", 0))
             hi == Arg("page_end", lo)
  <2>1. lo \in Nat /\ hi \in Nat
    BY Arguments DEF TypeInv, Numbers
  <2>2. /\ given # {}
        /\ PageRange = IF 0 \in given \/ hi < lo THEN {<<1, 0>>} ELSE {<<lo, hi>>}
    BY <1>2 DEF PageRange
  <2>3. lo \in given
    BY <2>2 DEF Arg
  <2> HIDE DEF given, lo, hi
  <2>4. \E r : PageRange = {r} /\ r[1] \in Nat \ {0} /\ r[2] \in Nat
    <3>1. CASE 0 \in given \/ hi < lo
      <4>1. PageRange = {<<1, 0>>} /\ <<1, 0>>[1] \in Nat \ {0} /\ <<1, 0>>[2] \in Nat
        BY <2>2, <3>1
      <4>2. QED
        BY <4>1
    <3>2. CASE ~(0 \in given \/ hi < lo)
      <4>1. PageRange = {<<lo, hi>>} /\ <<lo, hi>>[1] \in Nat \ {0} /\ <<lo, hi>>[2] \in Nat
        BY <2>1, <2>2, <2>3, <3>2
      <4>2. QED
        BY <4>1
    <3>3. QED
      BY <3>1, <3>2
  <2>5. PICK r : PageRange = {r} /\ r[1] \in Nat \ {0} /\ r[2] \in Nat
    BY <2>4
  <2>6. Pages(t) = SubSeq(t, r[1], Least(r[2], Len(t)))
    <3>1. (CHOOSE q \in PageRange : TRUE) = r
      BY <2>5
    <3>2. QED
      BY <1>2, <3>1 DEF Pages
  <2>7. /\ r[1] \in Int /\ Least(r[2], Len(t)) \in Int
        /\ \A i \in r[1]..Least(r[2], Len(t)) : t[i] \in Unit
    <3>1. Len(t) \in Nat /\ \A i \in 1..Len(t) : t[i] \in Unit
      BY LenProperties, ElementOfSeq
    <3>2. QED
      BY <2>5, <3>1 DEF Least
  <2>8. QED
    BY <2>6, <2>7, SubSeqProperties
<1>3. QED
  BY <1>1, <1>2

Reading == {"read_file", "ingest_structured_data", "extract_document_text"}

LEMMA ReadIsHonest ==
  ASSUME TypeInv, Step, pc = "execute", pc' = "recapture", Op \in Reading
  PROVE  LET shown == Shown(result', {})
         IN  /\ IsPrefix(shown.text, Asked)
             /\ \/ shown.marked
                \/ shown.text = Asked
                \/ /\ Op = "extract_document_text" /\ Suffix = "text"
                   /\ Len(fs[Target].text) > ReadLimit
<1> DEFINE text == fs[Target].text
<1>1. /\ text \in Seq(Unit) /\ Len(text) \in Nat
      /\ {ReadLimit, RowLimit} \subseteq Nat
  BY NewTextIs, LenProperties, WorkspaceAssumption
<1>2. /\ Arg("max_bytes", ReadLimit) \in Nat /\ Arg("max_chars", ReadLimit) \in Nat
      /\ Arg("max_rows", RowLimit) \in Nat
  BY <1>1, Arguments DEF TypeInv, Numbers
<1>3. ~Fail
  BY DEF Fail, Over
<1>4. ReadFile \/ Ingest \/ Extract
  <2>1. ~\E task \in Task, r \in Reply : Reason(task, r) \/ ReasonFails(task, r)
    BY DEF Reason, ReasonFails
  <2>2. /\ ~CapturePre /\ ~HashPre /\ ~Refuse /\ ~CapturePost /\ ~HashPost /\ ~Compare /\ ~Return
    BY <1>3 DEF CapturePre, HashPre, Refuse, CapturePost, HashPost, Compare, Return
  <2>3. /\ ~StartWalk /\ ~Visit /\ ~EndWalk /\ ~CheckTarget /\ ~MakeParents /\ ~ParentsFail
        /\ ~WriteContent /\ ~WriteFails
    BY DEF StartWalk, Visit, EndWalk, CheckTarget, MakeParents, ParentsFail, WriteContent,
           WriteFails, Reading, Walks
  <2>4. ~RunCommand /\ ~CommandFails /\ ~Inspect
    BY DEF RunCommand, CommandFails, Inspect, Executing, Reading
  <2>5. QED
    BY <2>1, <2>2, <2>3, <2>4 DEF Step
<1>5. CASE ReadFile
  <2> DEFINE limit == Arg("max_bytes", ReadLimit)
  <2>1. Op = "read_file" /\ result' = ReadText(text, limit)
    BY <1>3, <1>5 DEF ReadFile, Executing, Answered
  <2>2. Asked = text
    BY <2>1 DEF Asked
  <2> HIDE DEF limit
  <2>3. /\ ReadText(text, limit).text = Prefix(text, limit)
        /\ ReadText(text, limit).truncated <=> Len(text) > limit
    BY <1>1, <1>2, ReadTextIs DEF limit
  <2>4. limit \in Nat
    BY <1>2 DEF limit
  <2>5. QED
    BY <1>1, <2>1, <2>2, <2>3, <2>4, ShownWhole
<1>6. CASE Ingest
  <2>1. /\ Op = "ingest_structured_data"
        /\ result' = IF text = <<>> THEN Done
                     ELSE IngestRows(text, Most(1, Arg("max_rows", RowLimit)))
    BY <1>3, <1>6 DEF Ingest, Executing, Answered
  <2>2. Asked = IF text = <<>> THEN <<>> ELSE Tail(text)
    BY <2>1 DEF Asked
  <2>3. CASE text = <<>>
    <3>1. Done.text = <<>> /\ Done.truncated = FALSE
      BY DEF Done, Nothing
    <3>2. Shown(Done, {}).text = <<>>
      BY <2>1, <3>1 DEF Shown
    <3>3. IsPrefix(<<>>, <<>>)
      BY <1>1, <2>3, PrefixOrder
    <3>4. QED
      BY <2>1, <2>2, <2>3, <3>2, <3>3
  <2>4. CASE text # <<>>
    <3> DEFINE limit == Most(1, Arg("max_rows", RowLimit))
               r == IngestRows(text, limit)
    <3>1. limit \in Nat
      BY <1>2 DEF Most
    <3>2. Tail(text) \in Seq(Unit)
      BY <1>1, <2>4
    <3>3. r.text = Prefix(Tail(text), limit) /\ (r.truncated <=> Len(Tail(text)) > limit)
      BY DEF IngestRows
    <3>4. result' = r /\ Asked = Tail(text)
      BY <2>1, <2>2, <2>4
    <3> HIDE DEF r, limit
    <3>5. QED
      BY <3>1, <3>2, <3>3, <3>4, ShownWhole
  <2>5. QED
    BY <2>3, <2>4
<1>7. CASE Extract
  <2> DEFINE limit == Arg("max_chars", ReadLimit)
  <2>1. /\ Op = "extract_document_text"
        /\ \/ result' = ExtractText(Pages(text), limit)
           \/ /\ Suffix = "text" /\ PageRange = {}
              /\ result' = ExtractText(ReadText(text, ReadLimit).text, limit)
    BY <1>3, <1>7 DEF Extract, Executing, Answered
  <2>2. Asked = Pages(text) /\ Pages(text) \in Seq(Unit) /\ limit \in Nat
    BY <1>1, <1>2, <2>1, PagesAreText DEF Asked
  <2> HIDE DEF limit
  <2>3. ASSUME NEW t \in Seq(Unit)
        PROVE  LET shown == Shown(ExtractText(t, limit), {})
               IN  IsPrefix(shown.text, t) /\ (shown.marked \/ shown.text = t)
    <3> DEFINE r == ExtractText(t, limit)
    <3>1. r.text = Prefix(t, limit) /\ (r.truncated <=> Len(t) > limit)
      BY DEF ExtractText
    <3> HIDE DEF r
    <3>2. LET shown == Shown(r, {})
          IN  IsPrefix(shown.text, t) /\ (shown.marked \/ shown.text = t)
      BY <2>2, <3>1, ShownWhole
    <3>3. QED
      BY <3>2 DEF r
  <2>4. CASE result' = ExtractText(Pages(text), limit)
    BY <2>2, <2>3, <2>4
  <2>5. CASE /\ Suffix = "text" /\ PageRange = {}
             /\ result' = ExtractText(ReadText(text, ReadLimit).text, limit)
    <3> DEFINE t == Prefix(text, ReadLimit)
    <3>1. Pages(text) = text
      BY <2>5 DEF Pages
    <3>2. ReadText(text, ReadLimit).text = t
      BY <1>1, ReadTextIs
    <3>3. t \in Seq(Unit) /\ IsPrefix(t, text) /\ (t = text <=> Len(text) <= ReadLimit)
      BY <1>1, PrefixCut
    <3> HIDE DEF t
    <3> DEFINE shown == Shown(ExtractText(t, limit), {})
    <3>4. IsPrefix(shown.text, t) /\ (shown.marked \/ shown.text = t)
      BY <2>3, <3>3
    <3>5. shown.text \in Seq(Unit)
      <4>1. Prefix(t, limit) \in Seq(Unit)
        BY <2>2, <3>3, PrefixCut
      <4>2. TextShown \in Nat
        BY WorkspaceAssumption
      <4>3. Prefix(Prefix(t, limit), TextShown) \in Seq(Unit)
        BY <4>1, <4>2, PrefixCut
      <4>4. ExtractText(t, limit).text = Prefix(t, limit)
        BY DEF ExtractText
      <4>5. QED
        BY <4>1, <4>3, <4>4 DEF Shown
    <3> HIDE DEF shown
    <3>6. IsPrefix(shown.text, text)
      BY <1>1, <3>3, <3>4, <3>5, PrefixOrder
    <3>7. shown.marked \/ shown.text = text \/ Len(text) > ReadLimit
      BY <1>1, <3>3, <3>4
    <3>8. QED
      BY <2>1, <2>2, <2>5, <3>1, <3>2, <3>6, <3>7 DEF shown
  <2>6. QED
    BY <2>1, <2>4, <2>5
<1>8. QED
  BY <1>4, <1>5, <1>6, <1>7

\* A text the reasoner is shown without a mark is all there was to read, for
\* every limit; the exception is the extraction of a text file that is longer
\* than the read limit.
THEOREM ReadsAreHonest == Spec => ReadHonest
<1>1. ASSUME TypeInv, [Next]_vars, pc = "execute", pc' = "recapture" PROVE Step
  BY <1>1 DEF Next, Meddle, vars
<1>2. TypeInv /\ StepInv /\ [Next]_vars =>
        [ (pc = "execute" /\ pc' = "recapture"
           /\ Op \in {"read_file", "ingest_structured_data", "extract_document_text"})
          => LET shown == Shown(result', {})
             IN  /\ IsPrefix(shown.text, Asked)
                 /\ \/ shown.marked
                    \/ shown.text = Asked
                    \/ /\ Op = "extract_document_text" /\ Suffix = "text"
                       /\ Len(fs[Target].text) > ReadLimit ]_vars
  BY <1>1, ReadIsHonest DEF Reading
<1>3. QED
  BY <1>2, StepsInvariant, PTL DEF Spec, ReadHonest
=============================================================================
