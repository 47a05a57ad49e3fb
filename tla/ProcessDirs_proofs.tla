-------------------------- MODULE ProcessDirs_proofs --------------------------
(***************************************************************************)
(* Proofs about ProcessDirs, for any set of processes, features, consents  *)
(* and files, any names and any number of incidents. Types: what a process *)
(* holds at each of its steps. Held: whoever works on a directory that     *)
(* exists has the one lock file that leads to it. Kept: hence nobody       *)
(* removes a directory under the one who fills it, and no batch is lost.   *)
(* Listing: a conflict costs the file of the dead process. Alone and       *)
(* Comes: a process that is alone leaves nothing behind.                   *)
(***************************************************************************)
EXTENDS ProcessDirs, FiniteSetTheorems, TLAPS

PC == {"off", "open", "lock", "failed", "list", "scan", "mkdir", "try", "stat", "rename",
       "features", "feature", "consent", "file", "move", "rmFeature", "rmProcess",
       "close", "unlink", "running"}

Process == [pc : PC, own : Inode \cup {NoInode}, owns : BOOLEAN,
            fd : Inode \cup {NoInode}, locked : BOOLEAN, src : SUBSET Pid,
            pass : {"rename", "move"}, subdirs : SUBSET Pid,
            features : SUBSET Feature, consents : SUBSET Consent, files : SUBSET File,
            feature : SUBSET Feature, consent : SUBSET Consent, alone : BOOLEAN]

\* A process has no lock of its own yet; it has that of an abandoned directory; it
\* has opened that lock file; it is not done with that directory.
Outside == {"off", "open", "lock", "failed"}
Locking == {"stat", "rename", "features", "feature", "consent", "file", "move",
            "rmFeature", "rmProcess", "close"}
Holding == Locking \cup {"try"}
Engaged == Holding \cup {"unlink"}
Filling == {"consent", "file", "move"}
Moving  == Filling \cup {"features", "feature", "rmFeature", "rmProcess", "running"}

\* What a process p holds and remembers at each of its steps.
ShapeOf(p, s) ==
  /\ p \notin s.src \cup s.subdirs
  /\ s.pc = "off" => ~s.alone
  /\ s.pc \in Engaged => \E q \in Pid : s.src = {q}
  /\ s.pc \notin Engaged => s.src = {}
  /\ (s.pc \in Holding) <=> (s.fd # NoInode)
  /\ (s.pc \in Locking) <=> s.locked
  /\ s.pc \notin Outside => s.owns
  /\ s.pc \in {"off", "open", "lock"} => ~s.owns
  /\ (s.pc = "lock" \/ s.owns) <=> (s.own # NoInode)
  /\ s.pc \in {"open", "lock", "stat", "rename", "mkdir"} => s.pass = "rename"
  /\ s.pc \in Moving => s.pass = "move"
  /\ s.pc \in Filling \cup {"rmFeature"} => \E f \in Feature : s.feature = {f}
  /\ s.pc \notin Filling \cup {"rmFeature"} => s.feature = {}
  /\ s.pc \in {"file", "move"} => \E c \in Consent : s.consent = {c}
  /\ s.pc \notin {"file", "move"} => s.consent = {}
  /\ s.pc = "move" => s.files # {}

Shape == \A p \in Pid : ShapeOf(p, proc[p])

Types ==
  /\ dirs \in SUBSET Path
  /\ at \in [File -> Path \cup {Nowhere}]
  /\ lockFile \in [Pid -> Inode \cup {NoInode}]
  /\ proc \in [Pid -> Process]
  /\ fate \in [File -> {"none", "kept", "finished", "conflict", "swept"}]
  /\ incidents \in 0 .. MaxIncidents
  /\ Shape

-----------------------------------------------------------------------------
\* Nobody owns q's directory, nobody will as long as somebody is engaged with it,
\* and it is gone.
Vacant(q) == proc[q].pc \in {"off", "failed"} /\ ~proc[q].owns /\ <<q>> \notin dirs

\* Two processes never have the lock of one file, by whichever name.
OneHolder ==
  /\ \A p, q \in Pid : lockFile[p] = lockFile[q] /\ lockFile[p] # NoInode => p = q
  /\ \A p \in Pid : proc[p].own # NoInode => proc[p].own = lockFile[p]
  /\ \A p, r \in Pid : proc[p].owns /\ proc[r].locked => proc[p].own # proc[r].fd
  /\ \A p, r \in Pid : proc[p].locked /\ proc[r].locked /\ proc[p].fd = proc[r].fd => p = r

\* What is known of q while r is engaged with its directory.
Knows(r, q) ==
  /\ proc[r].pc \in Locking \cup {"unlink"} => ~proc[q].owns
  /\ proc[r].pc \in Holding => proc[r].fd = lockFile[q] \/ Vacant(q)
  /\ proc[r].pc \in {"close", "unlink"} => <<q>> \notin dirs
  /\ proc[r].pc = "unlink" => proc[q].pc \in {"off", "failed"}

Engagement == \A r \in Pid : \A q \in proc[r].src : Knows(r, q)

\* The own directory, from its creation on.
Rooted ==
  \A p \in Pid : /\ proc[p].pc \notin Outside
                 /\ proc[p].pass = "move" \/ proc[p].pc \in {"close", "unlink"}
                 => <<p>> \in dirs

Held == OneHolder /\ Engagement /\ Rooted

-----------------------------------------------------------------------------
\* A directory is in one.
Closed ==
  /\ \A q \in Pid, f \in Feature : <<q, f>> \in dirs => <<q>> \in dirs
  /\ \A q \in Pid, f \in Feature, c \in Consent : <<q, f, c>> \in dirs => <<q, f>> \in dirs

\* The directories that the migration of p fills ...
Filled(p) ==
  \A f \in proc[p].feature :
    /\ proc[p].pc \in Filling => <<p, f>> \in dirs
    /\ proc[p].pc \in {"file", "move"} => \A c \in proc[p].consent : <<p, f, c>> \in dirs

\* ... and no batch is in the way of the file it is about to move.
Clear(p) ==
  proc[p].pc = "move" =>
    \A y \in Batch : at[y] = DstConsent(p) =>
      NameOf[y] # NameOf[CHOOSE x \in proc[p].files : TRUE]

Batches == Pid \X Feature \X Consent

Placed ==
  /\ \A x \in File : fate[x] = "none" => at[x] = Nowhere
  /\ \A x \in Batch : fate[x] = "kept" => at[x] \in dirs /\ at[x] \in Batches

Kept == Closed /\ Placed /\ \A p \in Pid : Filled(p) /\ Clear(p)

-----------------------------------------------------------------------------
\* A process that was alone is.
Alone == \A p, r \in Pid : proc[p].alone /\ r # p => proc[r].pc = "off"

\* A batch that the second pass of p has still to come to.
Ahead(p, q, f, c, x) ==
  \/ q \in proc[p].subdirs
  \/ /\ q \in proc[p].src
     /\ \/ proc[p].pc \in {"try", "features"}
        \/ f \in proc[p].features
        \/ f \in proc[p].feature /\ c \in proc[p].consents
        \/ f \in proc[p].feature /\ c \in proc[p].consent /\ x \in proc[p].files

Passing == Engaged \cup {"scan", "running"}

Nothing(p) ==
  /\ proc[p].pc = "running" => proc[p].subdirs = {}
  /\ proc[p].pc \in {"rmProcess", "close", "unlink"} => proc[p].features = {}
  /\ proc[p].pc = "rmFeature" => proc[p].consents = {}

\* What a process that is alone knows of the directory it empties.
Source(p) ==
  \A q \in proc[p].src :
    /\ proc[p].pc \in Filling \cup {"feature", "rmFeature"} =>
         \A f \in proc[p].features : <<q, f>> \in dirs
    /\ \A f \in proc[p].feature :
         /\ f \notin proc[p].features /\ <<q, f>> \in dirs
         /\ \A c \in proc[p].consents : <<q, f, c>> \in dirs
         /\ \A c \in Consent : <<q, f, c>> \in dirs =>
              c \in proc[p].consents \cup proc[p].consent
         /\ \A c \in proc[p].consent :
              /\ c \notin proc[p].consents
              /\ <<q, f, c>> \in dirs
              /\ proc[p].files = FilesIn(<<q, f, c>>)
         /\ proc[p].pc = "rmFeature" => FilesIn(<<q, f>>) = {}

Left(p) ==
  \A x \in Batch : \A q \in Pid, f \in Feature, c \in Consent :
    fate[x] = "kept" /\ at[x] = <<q, f, c>> => q = p \/ Ahead(p, q, f, c, x)

Comes(p) ==
  proc[p].pass = "move" /\ proc[p].pc \in Passing => Nothing(p) /\ Source(p) /\ Left(p)

Adopting == Types /\ Held /\ Kept /\ Alone /\ \A p \in Pid : proc[p].alone => Comes(p)
-----------------------------------------------------------------------------
(* Types *)

LEMMA Engaging ==
  ASSUME NEW p \in Pid, Types, proc[p].pc \in Engaged
  PROVE  Src(p) \in Pid /\ Src(p) # p /\ proc[p].src = {Src(p)}
<1>1. PICK q \in Pid : proc[p].src = {q}
  BY DEF Types, Shape, ShapeOf
<1>2. Src(p) = q
  BY <1>1 DEF Src
<1> QED
  BY <1>1, <1>2 DEF Types, Shape, ShapeOf

\* 3 * Cardinality(Pid) inodes are enough.
LEMMA Enough ==
  ASSUME NEW N \in Nat, NEW A, NEW B, NEW C, IsFiniteSet(A), IsFiniteSet(B), IsFiniteSet(C),
         Cardinality(A) + Cardinality(B) + Cardinality(C) < N
  PROVE  \E i \in 1 .. N : i \notin A /\ i \notin B /\ i \notin C
<1>1. IsFiniteSet(A \cup B) /\ Cardinality(A \cup B) <= Cardinality(A) + Cardinality(B)
  <2>1. /\ IsFiniteSet(A \cup B) /\ IsFiniteSet(A \cap B)
        /\ Cardinality(A \cup B) = Cardinality(A) + Cardinality(B) - Cardinality(A \cap B)
    BY FS_Union, FS_Intersection
  <2>2. /\ Cardinality(A \cap B) \in Nat /\ Cardinality(A) \in Nat /\ Cardinality(B) \in Nat
    BY <2>1, FS_CardinalityType
  <2> QED
    BY <2>1, <2>2
<1>2. /\ IsFiniteSet((A \cup B) \cup C)
      /\ Cardinality((A \cup B) \cup C) <= Cardinality(A) + Cardinality(B) + Cardinality(C)
  <2>1. /\ IsFiniteSet((A \cup B) \cup C) /\ IsFiniteSet((A \cup B) \cap C)
        /\ Cardinality((A \cup B) \cup C)
             = Cardinality(A \cup B) + Cardinality(C) - Cardinality((A \cup B) \cap C)
    BY <1>1, FS_Union, FS_Intersection
  <2>2. /\ Cardinality((A \cup B) \cap C) \in Nat /\ Cardinality(A) \in Nat
        /\ Cardinality(B) \in Nat /\ Cardinality(C) \in Nat /\ Cardinality(A \cup B) \in Nat
    BY <1>1, <2>1, FS_CardinalityType
  <2> QED
    BY <1>1, <2>1, <2>2
<1>3. Cardinality(1 .. N) = N
  BY FS_Interval
<1>4. SUFFICES ASSUME 1 .. N \subseteq (A \cup B) \cup C PROVE FALSE
  OBVIOUS
<1>5. Cardinality(1 .. N) <= Cardinality((A \cup B) \cup C)
  BY <1>2, <1>4, FS_Subset
<1>6. /\ Cardinality((A \cup B) \cup C) \in Nat /\ Cardinality(A) \in Nat
      /\ Cardinality(B) \in Nat /\ Cardinality(C) \in Nat
  BY <1>2, FS_CardinalityType
<1> QED
  BY <1>2, <1>3, <1>5, <1>6

\* The images of all processes but one.
LEMMA Images ==
  ASSUME NEW S \in SUBSET Pid, NEW f
  PROVE  /\ IsFiniteSet({f[q] : q \in S})
         /\ Cardinality({f[q] : q \in S}) <= Cardinality(S)
         /\ Cardinality({f[q] : q \in S}) \in Nat /\ Cardinality(S) \in Nat
<1>1. IsFiniteSet(S)
  BY ProcessDirsAssumption, FS_Subset
<1> DEFINE g == [q \in S |-> f[q]]
<1>2. {f[q] : q \in S} = {g[q] : q \in S}
  OBVIOUS
<1>3. g \in Surjection(S, {g[q] : q \in S})
  BY DEF Surjection
<1> HIDE DEF g
<1>4. /\ IsFiniteSet({g[q] : q \in S})
      /\ Cardinality({g[q] : q \in S}) <= Cardinality(S)
  BY <1>1, <1>3, FS_Surjection
<1> QED
  BY <1>1, <1>2, <1>4, FS_CardinalityType

LEMMA FreshExists ==
  ASSUME NEW p \in Pid, Types, proc[p].own = NoInode \/ proc[p].fd = NoInode
  PROVE  /\ FreshInode \in Inode
         /\ \A q \in Pid : lockFile[q] # FreshInode
         /\ \A q \in Pid : proc[q].own # FreshInode /\ proc[q].fd # FreshInode
<1> DEFINE own == [q \in Pid |-> proc[q].own]
           fd == [q \in Pid |-> proc[q].fd]
           But == Pid \ {p}
           Good(i) == /\ \A q \in Pid : lockFile[q] # i
                      /\ \A q \in Pid : ~Open(q, i)
<1>1. Cardinality(Pid) \in Nat /\ Cardinality(But) = Cardinality(Pid) - 1 /\ Cardinality(Pid) > 0
  <2>1. Cardinality(Pid) \in Nat /\ Cardinality(But) \in Nat
    BY ProcessDirsAssumption, FS_CardinalityType, FS_RemoveElement
  <2>2. Cardinality(But) = Cardinality(Pid) - 1
    BY ProcessDirsAssumption, FS_RemoveElement
  <2> QED
    BY <2>1, <2>2
<1> DEFINE N == 3 * Cardinality(Pid)
<1> HIDE DEF own, fd
<1>2. \E i \in 1 .. N : Good(i)
  <2>1. CASE proc[p].own = NoInode
    <3> DEFINE A == {lockFile[q] : q \in Pid}  B == {own[q] : q \in But}  C == {fd[q] : q \in Pid}
    <3>1. /\ IsFiniteSet(A) /\ Cardinality(A) <= Cardinality(Pid) /\ Cardinality(A) \in Nat
      BY Images
    <3>2. /\ IsFiniteSet(B) /\ Cardinality(B) <= Cardinality(But) /\ Cardinality(B) \in Nat
      BY Images
    <3>3. /\ IsFiniteSet(C) /\ Cardinality(C) <= Cardinality(Pid) /\ Cardinality(C) \in Nat
      BY Images
    <3> HIDE DEF A, B, C
    <3>4. Cardinality(A) + Cardinality(B) + Cardinality(C) < N
      BY <1>1, <3>1, <3>2, <3>3
    <3>5. PICK i \in 1 .. N : i \notin A /\ i \notin B /\ i \notin C
      <4>1. N \in Nat
        BY <1>1
      <4> QED
        BY <3>1, <3>2, <3>3, <3>4, <4>1, Enough
    <3> QED
      BY <2>1, <3>5 DEF A, B, C, Open, NoInode, own, fd
  <2>2. CASE proc[p].fd = NoInode
    <3> DEFINE A == {lockFile[q] : q \in Pid}  B == {own[q] : q \in Pid}  C == {fd[q] : q \in But}
    <3>1. /\ IsFiniteSet(A) /\ Cardinality(A) <= Cardinality(Pid) /\ Cardinality(A) \in Nat
      BY Images
    <3>2. /\ IsFiniteSet(B) /\ Cardinality(B) <= Cardinality(Pid) /\ Cardinality(B) \in Nat
      BY Images
    <3>3. /\ IsFiniteSet(C) /\ Cardinality(C) <= Cardinality(But) /\ Cardinality(C) \in Nat
      BY Images
    <3> HIDE DEF A, B, C
    <3>4. Cardinality(A) + Cardinality(B) + Cardinality(C) < N
      BY <1>1, <3>1, <3>2, <3>3
    <3>5. PICK i \in 1 .. N : i \notin A /\ i \notin B /\ i \notin C
      <4>1. N \in Nat
        BY <1>1
      <4> QED
        BY <3>1, <3>2, <3>3, <3>4, <4>1, Enough
    <3> QED
      BY <2>2, <3>5 DEF A, B, C, Open, NoInode, own, fd
  <2> QED
    BY <2>1, <2>2
<1>3. FreshInode \in Inode /\ Good(FreshInode)
  BY <1>2 DEF FreshInode, Inode
<1> QED
  BY <1>3 DEF Open

\* What a listing of a directory shows.
LEMMA Paths ==
  ASSUME NEW d \in Path
  PROVE  \/ \E q \in Pid : d = <<q>> /\ Len(d) = 1
         \/ \E q \in Pid, f \in Feature : d = <<q, f>> /\ Len(d) = 2
         \/ \E q \in Pid, f \in Feature, c \in Consent : d = <<q, f, c>> /\ Len(d) = 3
<1>1. CASE d \in {<<q>> : q \in Pid}
  BY <1>1
<1>2. CASE d \in Pid \X Feature
  BY <1>2
<1>3. CASE d \in Pid \X Feature \X Consent
  BY <1>3
<1> QED
  BY <1>1, <1>2, <1>3 DEF Path

LEMMA Subdirs ==
  ASSUME Types
  PROVE  /\ SubdirsOf(<<>>) = {q \in Pid : <<q>> \in dirs}
         /\ \A q \in Pid : SubdirsOf(<<q>>) = {f \in Feature : <<q, f>> \in dirs}
         /\ \A q \in Pid, f \in Feature :
              SubdirsOf(<<q, f>>) = {c \in Consent : <<q, f, c>> \in dirs}
         /\ \A q \in Pid, f \in Feature, c \in Consent : SubdirsOf(<<q, f, c>>) = {}
<1>0. \A d, x : x \in SubdirsOf(d) <=>
                  \E e \in dirs : Len(e) = Len(d) + 1 /\ IsPrefix(d, e) /\ x = Last(e)
  BY DEF SubdirsOf
<1>1. \A q : Len(<<q>>) = 1 /\ Last(<<q>>) = q /\ IsPrefix(<<>>, <<q>>)
  BY DEF Last, IsPrefix
<1>2. \A q, f : Len(<<q, f>>) = 2 /\ Last(<<q, f>>) = f
  BY DEF Last
<1>3. \A q, f, c : Len(<<q, f, c>>) = 3 /\ Last(<<q, f, c>>) = c
  BY DEF Last
<1>4. \A q, r, f : IsPrefix(<<r>>, <<q, f>>) <=> q = r
  BY DEF IsPrefix
<1>5. \A q, r, f, g, c : IsPrefix(<<r, g>>, <<q, f, c>>) <=> q = r /\ f = g
  BY DEF IsPrefix
<1>6. \A d \in dirs : d \in Path
  BY DEF Types
<1>7. SubdirsOf(<<>>) = {q \in Pid : <<q>> \in dirs}
  <2>1. ASSUME NEW x \in SubdirsOf(<<>>) PROVE x \in Pid /\ <<x>> \in dirs
    <3>1. PICK e \in dirs : Len(e) = Len(<<>>) + 1 /\ x = Last(e)
      BY <2>1 DEF SubdirsOf
    <3>2. PICK q \in Pid : e = <<q>>
      BY <1>6, <3>1, Paths
    <3> QED
      BY <1>1, <3>1, <3>2
  <2>2. ASSUME NEW q \in Pid, <<q>> \in dirs PROVE q \in SubdirsOf(<<>>)
    <3>1. /\ Len(<<q>>) = Len(<<>>) + 1 /\ IsPrefix(<<>>, <<q>>) /\ q = Last(<<q>>)
      BY <1>1
    <3> QED
      BY <1>0, <2>2, <3>1
  <2> QED
    BY <2>1, <2>2
<1>8. ASSUME NEW q \in Pid PROVE SubdirsOf(<<q>>) = {f \in Feature : <<q, f>> \in dirs}
  <2>1. ASSUME NEW x \in SubdirsOf(<<q>>) PROVE x \in Feature /\ <<q, x>> \in dirs
    <3>1. PICK e \in dirs : Len(e) = Len(<<q>>) + 1 /\ x = Last(e) /\ IsPrefix(<<q>>, e)
      BY <2>1 DEF SubdirsOf
    <3>2. PICK r \in Pid, f \in Feature : e = <<r, f>>
      BY <1>6, <3>1, Paths
    <3> QED
      BY <1>2, <1>4, <3>1, <3>2
  <2>2. ASSUME NEW f \in Feature, <<q, f>> \in dirs PROVE f \in SubdirsOf(<<q>>)
    <3>1. Len(<<q, f>>) = Len(<<q>>) + 1 /\ IsPrefix(<<q>>, <<q, f>>) /\ f = Last(<<q, f>>)
      BY <1>1, <1>2, <1>4
    <3> QED
      BY <1>0, <2>2, <3>1
  <2> QED
    BY <2>1, <2>2
<1>9. ASSUME NEW q \in Pid, NEW f \in Feature
      PROVE  SubdirsOf(<<q, f>>) = {c \in Consent : <<q, f, c>> \in dirs}
  <2>1. ASSUME NEW x \in SubdirsOf(<<q, f>>) PROVE x \in Consent /\ <<q, f, x>> \in dirs
    <3>1. PICK e \in dirs : Len(e) = Len(<<q, f>>) + 1 /\ x = Last(e) /\ IsPrefix(<<q, f>>, e)
      BY <2>1 DEF SubdirsOf
    <3>2. PICK r \in Pid, g \in Feature, c \in Consent : e = <<r, g, c>>
      BY <1>6, <3>1, Paths
    <3> QED
      BY <1>3, <1>5, <3>1, <3>2
  <2>2. ASSUME NEW c \in Consent, <<q, f, c>> \in dirs PROVE c \in SubdirsOf(<<q, f>>)
    <3>1. /\ Len(<<q, f, c>>) = Len(<<q, f>>) + 1 /\ IsPrefix(<<q, f>>, <<q, f, c>>)
          /\ c = Last(<<q, f, c>>)
      BY <1>2, <1>3, <1>5
    <3> QED
      BY <1>0, <2>2, <3>1
  <2> QED
    BY <2>1, <2>2
<1>10. ASSUME NEW q \in Pid, NEW f \in Feature, NEW c \in Consent
       PROVE  SubdirsOf(<<q, f, c>>) = {}
  BY <1>0, <1>1, <1>2, <1>3, <1>6, Paths
<1> QED
  BY <1>7, <1>8, <1>9, <1>10

LEMMA SetTypes ==
  ASSUME NEW p \in Pid, NEW s \in Process, Types, Set(p, s), ShapeOf(p, s)
  PROVE  /\ proc' \in [Pid -> Process] /\ Shape'
         /\ proc'[p] = s /\ \A r \in Pid : r # p => proc'[r] = proc[r]
<1>1. proc' = [proc EXCEPT ![p] = s] /\ proc \in [Pid -> Process]
  BY DEF Set, Types
<1>2. proc' \in [Pid -> Process] /\ proc'[p] = s /\ \A r \in Pid : r # p => proc'[r] = proc[r]
  BY <1>1
<1>3. ASSUME NEW r \in Pid PROVE ShapeOf(r, proc'[r])
  BY <1>2 DEF Types, Shape
<1> QED
  BY <1>2, <1>3 DEF Shape

\* The directories that the second pass is concerned with.
LEMMA Ways ==
  ASSUME NEW p \in Pid, Types
  PROVE  /\ proc[p].pc \in Filling \cup {"rmFeature"} =>
              /\ Current(p) \in Feature /\ proc[p].feature = {Current(p)}
              /\ SrcFeature(p) = <<Src(p), Current(p)>>
         /\ proc[p].pc \in {"file", "move"} =>
              \E c \in Consent :
                /\ proc[p].consent = {c}
                /\ SrcConsent(p) = <<Src(p), Current(p), c>>
                /\ DstConsent(p) = <<p, Current(p), c>>
<1>1. ASSUME proc[p].pc \in Filling \cup {"rmFeature"}
      PROVE  Current(p) \in Feature /\ proc[p].feature = {Current(p)}
  <2>1. PICK f \in Feature : proc[p].feature = {f}
    BY <1>1 DEF Types, Shape, ShapeOf
  <2>2. Current(p) = f
    BY <2>1 DEF Current
  <2> QED
    BY <2>1, <2>2
<1>2. ASSUME proc[p].pc \in {"file", "move"}
      PROVE  \E c \in Consent :
                /\ proc[p].consent = {c}
                /\ SrcConsent(p) = <<Src(p), Current(p), c>>
                /\ DstConsent(p) = <<p, Current(p), c>>
  <2>1. PICK c \in Consent : proc[p].consent = {c}
    BY <1>2 DEF Types, Shape, ShapeOf
  <2>2. Entered(p) = c
    BY <2>1 DEF Entered
  <2> QED
    BY <2>1, <2>2 DEF SrcConsent, DstConsent
<1> QED
  BY <1>1, <1>2 DEF SrcFeature

-----------------------------------------------------------------------------
(* Every step keeps the types *)

LEMMA TypesOpenOwnLock ==
  ASSUME NEW p \in Pid, Types, OpenOwnLock(p)
  PROVE  Types'
<1>0. proc[p] \in Process /\ ShapeOf(p, proc[p])
  BY DEF Types, Shape
<1>1. FreshInode \in Inode /\ FreshInode # NoInode
  BY <1>0, FreshExists DEF OpenOwnLock, ShapeOf, Inode, NoInode
<1>2. Opened(p) \in Inode /\ Opened(p) # NoInode
  BY <1>1 DEF Opened, Types, Inode, NoInode
<1>3. ASSUME Set(p, [proc[p] EXCEPT !.pc = "lock", !.own = Opened(p)])
      PROVE  proc' \in [Pid -> Process] /\ Shape'
  <2> DEFINE s == [proc[p] EXCEPT !.pc = "lock", !.own = Opened(p)]
  <2>1. s \in Process
    BY <1>0, <1>1, <1>2, <1>3 DEF OpenOwnLock, Process, PC, Fail
  <2>2. ShapeOf(p, s)
    BY <1>0, <1>1, <1>2, <1>3 DEF OpenOwnLock, ShapeOf, Process, Outside, Locking, Holding, Engaged, Filling, Moving, Fail
  <2> QED
    BY <1>3, <2>1, <2>2, SetTypes
<1>4. ASSUME Set(p, Fail(p))
      PROVE  proc' \in [Pid -> Process] /\ Shape'
  <2> DEFINE s == Fail(p)
  <2>1. s \in Process
    BY <1>0, <1>1, <1>2, <1>4 DEF OpenOwnLock, Process, PC, Fail
  <2>2. ShapeOf(p, s)
    BY <1>0, <1>1, <1>2, <1>4 DEF OpenOwnLock, ShapeOf, Process, Outside, Locking, Holding, Engaged, Filling, Moving, Fail
  <2> QED
    BY <1>4, <2>1, <2>2, SetTypes
<1>5. proc' \in [Pid -> Process] /\ Shape'
  BY <1>0, <1>1, <1>2, <1>3, <1>4 DEF OpenOwnLock
<1>6. incidents' \in 0 .. MaxIncidents
  BY ProcessDirsAssumption DEF Types, OpenOwnLock, Works, Fails, Incident
<1>7. /\ dirs' \in SUBSET Path /\ at' \in [File -> Path \cup {Nowhere}]
      /\ lockFile' \in [Pid -> Inode \cup {NoInode}]
      /\ fate' \in [File -> {"none", "kept", "finished", "conflict", "swept"}]
  BY <1>0, <1>1, <1>2 DEF Types, OpenOwnLock
<1> QED
  BY <1>5, <1>6, <1>7 DEF Types

LEMMA TypesTakeOwnLock ==
  ASSUME NEW p \in Pid, Types, TakeOwnLock(p)
  PROVE  Types'
<1>0. proc[p] \in Process /\ ShapeOf(p, proc[p])
  BY DEF Types, Shape
<1>1. ASSUME Set(p, [proc[p] EXCEPT !.pc = "list", !.owns = TRUE])
      PROVE  proc' \in [Pid -> Process] /\ Shape'
  <2> DEFINE s == [proc[p] EXCEPT !.pc = "list", !.owns = TRUE]
  <2>1. s \in Process
    BY <1>0, <1>1 DEF TakeOwnLock, Process, PC, Fail
  <2>2. ShapeOf(p, s)
    BY <1>0, <1>1 DEF TakeOwnLock, ShapeOf, Process, Outside, Locking, Holding, Engaged, Filling, Moving, Fail
  <2> QED
    BY <1>1, <2>1, <2>2, SetTypes
<1>2. ASSUME Set(p, [Fail(p) EXCEPT !.own = NoInode])
      PROVE  proc' \in [Pid -> Process] /\ Shape'
  <2> DEFINE s == [Fail(p) EXCEPT !.own = NoInode]
  <2>1. s \in Process
    BY <1>0, <1>2 DEF TakeOwnLock, Process, PC, Fail
  <2>2. ShapeOf(p, s)
    BY <1>0, <1>2 DEF TakeOwnLock, ShapeOf, Process, Outside, Locking, Holding, Engaged, Filling, Moving, Fail
  <2> QED
    BY <1>2, <2>1, <2>2, SetTypes
<1>3. proc' \in [Pid -> Process] /\ Shape'
  BY <1>0, <1>1, <1>2 DEF TakeOwnLock
<1>4. incidents' \in 0 .. MaxIncidents
  BY ProcessDirsAssumption DEF Types, TakeOwnLock, Works, Fails, Incident
<1>5. /\ dirs' \in SUBSET Path /\ at' \in [File -> Path \cup {Nowhere}]
      /\ lockFile' \in [Pid -> Inode \cup {NoInode}]
      /\ fate' \in [File -> {"none", "kept", "finished", "conflict", "swept"}]
  BY <1>0 DEF Types, TakeOwnLock
<1> QED
  BY <1>3, <1>4, <1>5 DEF Types

LEMMA TypesListProcessDirs ==
  ASSUME NEW p \in Pid, Types, ListProcessDirs(p)
  PROVE  Types'
<1>0. proc[p] \in Process /\ ShapeOf(p, proc[p])
  BY DEF Types, Shape
<1>1. SubdirsOf(<<>>) \subseteq Pid
  BY Subdirs
<1>2. ASSUME proc[p].pass = "rename", Set(p, [proc[p] EXCEPT !.pass = "move"])
      PROVE  proc' \in [Pid -> Process] /\ Shape'
  <2> DEFINE s == [proc[p] EXCEPT !.pass = "move"]
  <2>1. s \in Process
    BY <1>0, <1>1, <1>2 DEF ListProcessDirs, Process, PC
  <2>2. ShapeOf(p, s)
    BY <1>0, <1>1, <1>2 DEF ListProcessDirs, ShapeOf, Process, Outside, Locking, Holding, Engaged, Filling, Moving
  <2> QED
    BY <1>2, <2>1, <2>2, SetTypes
<1>3. ASSUME Set(p, [proc[p] EXCEPT !.pc = "scan", !.subdirs = SubdirsOf(<<>>) \ {p}])
      PROVE  proc' \in [Pid -> Process] /\ Shape'
  <2> DEFINE s == [proc[p] EXCEPT !.pc = "scan", !.subdirs = SubdirsOf(<<>>) \ {p}]
  <2>1. s \in Process
    BY <1>0, <1>1, <1>3 DEF ListProcessDirs, Process, PC
  <2>2. ShapeOf(p, s)
    BY <1>0, <1>1, <1>3 DEF ListProcessDirs, ShapeOf, Process, Outside, Locking, Holding, Engaged, Filling, Moving
  <2> QED
    BY <1>3, <2>1, <2>2, SetTypes
<1>4. ASSUME Set(p, [proc[p] EXCEPT !.pc = IF proc[p].pass = "rename" THEN "mkdir" ELSE "running", !.alone = FALSE])
      PROVE  proc' \in [Pid -> Process] /\ Shape'
  <2> DEFINE s == [proc[p] EXCEPT !.pc = IF proc[p].pass = "rename" THEN "mkdir" ELSE "running", !.alone = FALSE]
  <2>1. s \in Process
    BY <1>0, <1>1, <1>4 DEF ListProcessDirs, Process, PC
  <2>2. ShapeOf(p, s)
    BY <1>0, <1>1, <1>4 DEF ListProcessDirs, ShapeOf, Process, Outside, Locking, Holding, Engaged, Filling, Moving
  <2> QED
    BY <1>4, <2>1, <2>2, SetTypes
<1>5. proc' \in [Pid -> Process] /\ Shape'
  BY <1>0, <1>1, <1>2, <1>3, <1>4 DEF ListProcessDirs
<1>6. incidents' \in 0 .. MaxIncidents
  BY ProcessDirsAssumption DEF Types, ListProcessDirs, Works, Fails, Incident
<1>7. /\ dirs' \in SUBSET Path /\ at' \in [File -> Path \cup {Nowhere}]
      /\ lockFile' \in [Pid -> Inode \cup {NoInode}]
      /\ fate' \in [File -> {"none", "kept", "finished", "conflict", "swept"}]
  BY <1>0, <1>1 DEF Types, ListProcessDirs
<1> QED
  BY <1>5, <1>6, <1>7 DEF Types

LEMMA TypesScanEnds ==
  ASSUME NEW p \in Pid, Types, ScanEnds(p)
  PROVE  Types'
<1>0. proc[p] \in Process /\ ShapeOf(p, proc[p])
  BY DEF Types, Shape
<1>1. ASSUME Set(p, [proc[p] EXCEPT !.pc = IF proc[p].pass = "rename" THEN "mkdir" ELSE "running"])
      PROVE  proc' \in [Pid -> Process] /\ Shape'
  <2> DEFINE s == [proc[p] EXCEPT !.pc = IF proc[p].pass = "rename" THEN "mkdir" ELSE "running"]
  <2>1. s \in Process
    BY <1>0, <1>1 DEF ScanEnds, Process, PC
  <2>2. ShapeOf(p, s)
    BY <1>0, <1>1 DEF ScanEnds, ShapeOf, Process, Outside, Locking, Holding, Engaged, Filling, Moving
  <2> QED
    BY <1>1, <2>1, <2>2, SetTypes
<1>2. proc' \in [Pid -> Process] /\ Shape'
  BY <1>0, <1>1 DEF ScanEnds
<1>3. incidents' \in 0 .. MaxIncidents
  BY ProcessDirsAssumption DEF Types, ScanEnds, Works, Fails, Incident
<1>4. /\ dirs' \in SUBSET Path /\ at' \in [File -> Path \cup {Nowhere}]
      /\ lockFile' \in [Pid -> Inode \cup {NoInode}]
      /\ fate' \in [File -> {"none", "kept", "finished", "conflict", "swept"}]
  BY <1>0 DEF Types, ScanEnds
<1> QED
  BY <1>2, <1>3, <1>4 DEF Types

LEMMA TypesCreateProcessRoot ==
  ASSUME NEW p \in Pid, Types, CreateProcessRoot(p)
  PROVE  Types'
<1>0. proc[p] \in Process /\ ShapeOf(p, proc[p])
  BY DEF Types, Shape
<1>1. <<p>> \in Path
  BY DEF Path
<1>2. ASSUME Set(p, [proc[p] EXCEPT !.pc = "list", !.pass = "move"])
      PROVE  proc' \in [Pid -> Process] /\ Shape'
  <2> DEFINE s == [proc[p] EXCEPT !.pc = "list", !.pass = "move"]
  <2>1. s \in Process
    BY <1>0, <1>1, <1>2 DEF CreateProcessRoot, Process, PC, Fail
  <2>2. ShapeOf(p, s)
    BY <1>0, <1>1, <1>2 DEF CreateProcessRoot, ShapeOf, Process, Outside, Locking, Holding, Engaged, Filling, Moving, Fail
  <2> QED
    BY <1>2, <2>1, <2>2, SetTypes
<1>3. ASSUME Set(p, Fail(p))
      PROVE  proc' \in [Pid -> Process] /\ Shape'
  <2> DEFINE s == Fail(p)
  <2>1. s \in Process
    BY <1>0, <1>1, <1>3 DEF CreateProcessRoot, Process, PC, Fail
  <2>2. ShapeOf(p, s)
    BY <1>0, <1>1, <1>3 DEF CreateProcessRoot, ShapeOf, Process, Outside, Locking, Holding, Engaged, Filling, Moving, Fail
  <2> QED
    BY <1>3, <2>1, <2>2, SetTypes
<1>4. proc' \in [Pid -> Process] /\ Shape'
  BY <1>0, <1>1, <1>2, <1>3 DEF CreateProcessRoot
<1>5. incidents' \in 0 .. MaxIncidents
  BY ProcessDirsAssumption DEF Types, CreateProcessRoot, Works, Fails, Incident
<1>6. /\ dirs' \in SUBSET Path /\ at' \in [File -> Path \cup {Nowhere}]
      /\ lockFile' \in [Pid -> Inode \cup {NoInode}]
      /\ fate' \in [File -> {"none", "kept", "finished", "conflict", "swept"}]
  BY <1>0, <1>1 DEF Types, CreateProcessRoot
<1> QED
  BY <1>4, <1>5, <1>6 DEF Types

LEMMA TypesTakeAbandonedLock ==
  ASSUME NEW p \in Pid, Types, TakeAbandonedLock(p)
  PROVE  Types'
<1>0. proc[p] \in Process /\ ShapeOf(p, proc[p])
  BY DEF Types, Shape
<1>1. ASSUME Set(p, [proc[p] EXCEPT !.locked = TRUE, !.pc = IF proc[p].pass = "rename" THEN "stat" ELSE "features"])
      PROVE  proc' \in [Pid -> Process] /\ Shape'
  <2> DEFINE s == [proc[p] EXCEPT !.locked = TRUE, !.pc = IF proc[p].pass = "rename" THEN "stat" ELSE "features"]
  <2>1. s \in Process
    BY <1>0, <1>1 DEF TakeAbandonedLock, Process, PC, Leave
  <2>2. ShapeOf(p, s)
    BY <1>0, <1>1 DEF TakeAbandonedLock, ShapeOf, Process, Outside, Locking, Holding, Engaged, Filling, Moving, Leave
  <2> QED
    BY <1>1, <2>1, <2>2, SetTypes
<1>2. ASSUME Set(p, Leave(p))
      PROVE  proc' \in [Pid -> Process] /\ Shape'
  <2> DEFINE s == Leave(p)
  <2>1. s \in Process
    BY <1>0, <1>2 DEF TakeAbandonedLock, Process, PC, Leave
  <2>2. ShapeOf(p, s)
    BY <1>0, <1>2 DEF TakeAbandonedLock, ShapeOf, Process, Outside, Locking, Holding, Engaged, Filling, Moving, Leave
  <2> QED
    BY <1>2, <2>1, <2>2, SetTypes
<1>3. proc' \in [Pid -> Process] /\ Shape'
  BY <1>0, <1>1, <1>2 DEF TakeAbandonedLock
<1>4. incidents' \in 0 .. MaxIncidents
  BY ProcessDirsAssumption DEF Types, TakeAbandonedLock, Works, Fails, Incident
<1>5. /\ dirs' \in SUBSET Path /\ at' \in [File -> Path \cup {Nowhere}]
      /\ lockFile' \in [Pid -> Inode \cup {NoInode}]
      /\ fate' \in [File -> {"none", "kept", "finished", "conflict", "swept"}]
  BY <1>0 DEF Types, TakeAbandonedLock
<1> QED
  BY <1>3, <1>4, <1>5 DEF Types

LEMMA TypesCloseLock ==
  ASSUME NEW p \in Pid, Types, CloseLock(p)
  PROVE  Types'
<1>0. proc[p] \in Process /\ ShapeOf(p, proc[p])
  BY DEF Types, Shape
<1>1. ASSUME Set(p, [proc[p] EXCEPT !.pc = "unlink", !.fd = NoInode, !.locked = FALSE])
      PROVE  proc' \in [Pid -> Process] /\ Shape'
  <2> DEFINE s == [proc[p] EXCEPT !.pc = "unlink", !.fd = NoInode, !.locked = FALSE]
  <2>1. s \in Process
    BY <1>0, <1>1 DEF CloseLock, Process, PC
  <2>2. ShapeOf(p, s)
    BY <1>0, <1>1 DEF CloseLock, ShapeOf, Process, Outside, Locking, Holding, Engaged, Filling, Moving
  <2> QED
    BY <1>1, <2>1, <2>2, SetTypes
<1>2. proc' \in [Pid -> Process] /\ Shape'
  BY <1>0, <1>1 DEF CloseLock
<1>3. incidents' \in 0 .. MaxIncidents
  BY ProcessDirsAssumption DEF Types, CloseLock, Works, Fails, Incident
<1>4. /\ dirs' \in SUBSET Path /\ at' \in [File -> Path \cup {Nowhere}]
      /\ lockFile' \in [Pid -> Inode \cup {NoInode}]
      /\ fate' \in [File -> {"none", "kept", "finished", "conflict", "swept"}]
  BY <1>0 DEF Types, CloseLock
<1> QED
  BY <1>2, <1>3, <1>4 DEF Types

LEMMA TypesDeleteLock ==
  ASSUME NEW p \in Pid, Types, DeleteLock(p)
  PROVE  Types'
<1>0. proc[p] \in Process /\ ShapeOf(p, proc[p])
  BY DEF Types, Shape
<1>1. proc[p].pc \in Engaged
  BY DEF DeleteLock, Engaged, Holding, Locking
<1>2. Src(p) \in Pid /\ Src(p) # p /\ proc[p].src = {Src(p)}
  BY <1>1, Engaging
<1>3. ASSUME Set(p, [Leave(p) EXCEPT !.pc = "list", !.pass = "move", !.subdirs = {}])
      PROVE  proc' \in [Pid -> Process] /\ Shape'
  <2> DEFINE s == [Leave(p) EXCEPT !.pc = "list", !.pass = "move", !.subdirs = {}]
  <2>1. s \in Process
    BY <1>0, <1>1, <1>2, <1>3 DEF DeleteLock, Process, PC, Leave
  <2>2. ShapeOf(p, s)
    BY <1>0, <1>1, <1>2, <1>3 DEF DeleteLock, ShapeOf, Process, Outside, Locking, Holding, Engaged, Filling, Moving, Leave
  <2> QED
    BY <1>3, <2>1, <2>2, SetTypes
<1>4. ASSUME proc[p].pass # "rename", Set(p, Leave(p))
      PROVE  proc' \in [Pid -> Process] /\ Shape'
  <2> DEFINE s == Leave(p)
  <2>1. s \in Process
    BY <1>0, <1>1, <1>2, <1>4 DEF DeleteLock, Process, PC, Leave
  <2>2. ShapeOf(p, s)
    BY <1>0, <1>1, <1>2, <1>4 DEF DeleteLock, ShapeOf, Process, Outside, Locking, Holding, Engaged, Filling, Moving, Leave
  <2> QED
    BY <1>4, <2>1, <2>2, SetTypes
<1>5. proc' \in [Pid -> Process] /\ Shape'
  BY <1>0, <1>1, <1>2, <1>3, <1>4 DEF DeleteLock
<1>6. incidents' \in 0 .. MaxIncidents
  BY ProcessDirsAssumption DEF Types, DeleteLock, Works, Fails, Incident
<1>7. /\ dirs' \in SUBSET Path /\ at' \in [File -> Path \cup {Nowhere}]
      /\ lockFile' \in [Pid -> Inode \cup {NoInode}]
      /\ fate' \in [File -> {"none", "kept", "finished", "conflict", "swept"}]
  BY <1>0, <1>1, <1>2 DEF Types, DeleteLock
<1> QED
  BY <1>5, <1>6, <1>7 DEF Types

LEMMA TypesLookForRoot ==
  ASSUME NEW p \in Pid, Types, LookForRoot(p)
  PROVE  Types'
<1>0. proc[p] \in Process /\ ShapeOf(p, proc[p])
  BY DEF Types, Shape
<1>1. ASSUME Set(p, Leave(p))
      PROVE  proc' \in [Pid -> Process] /\ Shape'
  <2> DEFINE s == Leave(p)
  <2>1. s \in Process
    BY <1>0, <1>1 DEF LookForRoot, Process, PC, Leave
  <2>2. ShapeOf(p, s)
    BY <1>0, <1>1 DEF LookForRoot, ShapeOf, Process, Outside, Locking, Holding, Engaged, Filling, Moving, Leave
  <2> QED
    BY <1>1, <2>1, <2>2, SetTypes
<1>2. ASSUME Set(p, [proc[p] EXCEPT !.pc = "rename"])
      PROVE  proc' \in [Pid -> Process] /\ Shape'
  <2> DEFINE s == [proc[p] EXCEPT !.pc = "rename"]
  <2>1. s \in Process
    BY <1>0, <1>2 DEF LookForRoot, Process, PC, Leave
  <2>2. ShapeOf(p, s)
    BY <1>0, <1>2 DEF LookForRoot, ShapeOf, Process, Outside, Locking, Holding, Engaged, Filling, Moving, Leave
  <2> QED
    BY <1>2, <2>1, <2>2, SetTypes
<1>3. proc' \in [Pid -> Process] /\ Shape'
  BY <1>0, <1>1, <1>2 DEF LookForRoot
<1>4. incidents' \in 0 .. MaxIncidents
  BY ProcessDirsAssumption DEF Types, LookForRoot, Works, Fails, Incident
<1>5. /\ dirs' \in SUBSET Path /\ at' \in [File -> Path \cup {Nowhere}]
      /\ lockFile' \in [Pid -> Inode \cup {NoInode}]
      /\ fate' \in [File -> {"none", "kept", "finished", "conflict", "swept"}]
  BY <1>0 DEF Types, LookForRoot
<1> QED
  BY <1>3, <1>4, <1>5 DEF Types

LEMMA TypesListFeatures ==
  ASSUME NEW p \in Pid, Types, ListFeatures(p)
  PROVE  Types'
<1>0. proc[p] \in Process /\ ShapeOf(p, proc[p])
  BY DEF Types, Shape
<1>1. proc[p].pc \in Engaged
  BY DEF ListFeatures, Engaged, Holding, Locking
<1>2. Src(p) \in Pid /\ Src(p) # p /\ proc[p].src = {Src(p)}
  BY <1>1, Engaging
<1>3. SubdirsOf(<<Src(p)>>) \subseteq Feature
  BY <1>2, Subdirs
<1>4. ASSUME Set(p, [proc[p] EXCEPT !.pc = "feature", !.features = SubdirsOf(<<Src(p)>>)])
      PROVE  proc' \in [Pid -> Process] /\ Shape'
  <2> DEFINE s == [proc[p] EXCEPT !.pc = "feature", !.features = SubdirsOf(<<Src(p)>>)]
  <2>1. s \in Process
    BY <1>0, <1>1, <1>2, <1>3, <1>4 DEF ListFeatures, Process, PC, Leave, LeaveDisturbed, GiveUp
  <2>2. ShapeOf(p, s)
    BY <1>0, <1>1, <1>2, <1>3, <1>4 DEF ListFeatures, ShapeOf, Process, Outside, Locking, Holding, Engaged, Filling, Moving, Leave, LeaveDisturbed, GiveUp
  <2> QED
    BY <1>4, <2>1, <2>2, SetTypes
<1>5. ASSUME Set(p, LeaveDisturbed(p))
      PROVE  proc' \in [Pid -> Process] /\ Shape'
  <2> DEFINE s == LeaveDisturbed(p)
  <2>1. s \in Process
    BY <1>0, <1>1, <1>2, <1>3, <1>5 DEF ListFeatures, Process, PC, Leave, LeaveDisturbed, GiveUp
  <2>2. ShapeOf(p, s)
    BY <1>0, <1>1, <1>2, <1>3, <1>5 DEF ListFeatures, ShapeOf, Process, Outside, Locking, Holding, Engaged, Filling, Moving, Leave, LeaveDisturbed, GiveUp
  <2> QED
    BY <1>5, <2>1, <2>2, SetTypes
<1>6. ASSUME Set(p, Leave(p))
      PROVE  proc' \in [Pid -> Process] /\ Shape'
  <2> DEFINE s == Leave(p)
  <2>1. s \in Process
    BY <1>0, <1>1, <1>2, <1>3, <1>6 DEF ListFeatures, Process, PC, Leave, LeaveDisturbed, GiveUp
  <2>2. ShapeOf(p, s)
    BY <1>0, <1>1, <1>2, <1>3, <1>6 DEF ListFeatures, ShapeOf, Process, Outside, Locking, Holding, Engaged, Filling, Moving, Leave, LeaveDisturbed, GiveUp
  <2> QED
    BY <1>6, <2>1, <2>2, SetTypes
<1>7. proc' \in [Pid -> Process] /\ Shape'
  BY <1>0, <1>1, <1>2, <1>3, <1>4, <1>5, <1>6 DEF ListFeatures, GiveUp
<1>8. incidents' \in 0 .. MaxIncidents
  BY ProcessDirsAssumption DEF Types, ListFeatures, Works, Fails, Incident, GiveUp
<1>9. /\ dirs' \in SUBSET Path /\ at' \in [File -> Path \cup {Nowhere}]
      /\ lockFile' \in [Pid -> Inode \cup {NoInode}]
      /\ fate' \in [File -> {"none", "kept", "finished", "conflict", "swept"}]
  BY <1>0, <1>1, <1>2, <1>3 DEF Types, ListFeatures, GiveUp
<1> QED
  BY <1>7, <1>8, <1>9 DEF Types

LEMMA TypesSweepFeature ==
  ASSUME NEW p \in Pid, Types, SweepFeature(p)
  PROVE  Types'
<1>0. proc[p] \in Process /\ ShapeOf(p, proc[p])
  BY DEF Types, Shape
<1>1. ASSUME Set(p, [proc[p] EXCEPT !.pc = "rmFeature"])
      PROVE  proc' \in [Pid -> Process] /\ Shape'
  <2> DEFINE s == [proc[p] EXCEPT !.pc = "rmFeature"]
  <2>1. s \in Process
    BY <1>0, <1>1 DEF SweepFeature, Process, PC, Leave, LeaveDisturbed, GiveUp, SweepLoose
  <2>2. ShapeOf(p, s)
    BY <1>0, <1>1 DEF SweepFeature, ShapeOf, Process, Outside, Locking, Holding, Engaged, Filling, Moving, Leave, LeaveDisturbed, GiveUp, SweepLoose
  <2> QED
    BY <1>1, <2>1, <2>2, SetTypes
<1>2. ASSUME Set(p, LeaveDisturbed(p))
      PROVE  proc' \in [Pid -> Process] /\ Shape'
  <2> DEFINE s == LeaveDisturbed(p)
  <2>1. s \in Process
    BY <1>0, <1>2 DEF SweepFeature, Process, PC, Leave, LeaveDisturbed, GiveUp, SweepLoose
  <2>2. ShapeOf(p, s)
    BY <1>0, <1>2 DEF SweepFeature, ShapeOf, Process, Outside, Locking, Holding, Engaged, Filling, Moving, Leave, LeaveDisturbed, GiveUp, SweepLoose
  <2> QED
    BY <1>2, <2>1, <2>2, SetTypes
<1>3. proc' \in [Pid -> Process] /\ Shape'
  BY <1>0, <1>1, <1>2 DEF SweepFeature, GiveUp, SweepLoose, Path
<1>4. incidents' \in 0 .. MaxIncidents
  BY ProcessDirsAssumption DEF Types, SweepFeature, Works, Fails, Incident, GiveUp, SweepLoose, Path
<1>5. /\ dirs' \in SUBSET Path /\ at' \in [File -> Path \cup {Nowhere}]
      /\ lockFile' \in [Pid -> Inode \cup {NoInode}]
      /\ fate' \in [File -> {"none", "kept", "finished", "conflict", "swept"}]
  BY <1>0 DEF Types, SweepFeature, GiveUp, SweepLoose, Path
<1> QED
  BY <1>3, <1>4, <1>5 DEF Types

LEMMA TypesSweepProcess ==
  ASSUME NEW p \in Pid, Types, SweepProcess(p)
  PROVE  Types'
<1>0. proc[p] \in Process /\ ShapeOf(p, proc[p])
  BY DEF Types, Shape
<1>1. ASSUME Set(p, [proc[p] EXCEPT !.pc = "rmProcess"])
      PROVE  proc' \in [Pid -> Process] /\ Shape'
  <2> DEFINE s == [proc[p] EXCEPT !.pc = "rmProcess"]
  <2>1. s \in Process
    BY <1>0, <1>1 DEF SweepProcess, Process, PC, Leave, LeaveDisturbed, GiveUp, SweepLoose
  <2>2. ShapeOf(p, s)
    BY <1>0, <1>1 DEF SweepProcess, ShapeOf, Process, Outside, Locking, Holding, Engaged, Filling, Moving, Leave, LeaveDisturbed, GiveUp, SweepLoose
  <2> QED
    BY <1>1, <2>1, <2>2, SetTypes
<1>2. ASSUME Set(p, LeaveDisturbed(p))
      PROVE  proc' \in [Pid -> Process] /\ Shape'
  <2> DEFINE s == LeaveDisturbed(p)
  <2>1. s \in Process
    BY <1>0, <1>2 DEF SweepProcess, Process, PC, Leave, LeaveDisturbed, GiveUp, SweepLoose
  <2>2. ShapeOf(p, s)
    BY <1>0, <1>2 DEF SweepProcess, ShapeOf, Process, Outside, Locking, Holding, Engaged, Filling, Moving, Leave, LeaveDisturbed, GiveUp, SweepLoose
  <2> QED
    BY <1>2, <2>1, <2>2, SetTypes
<1>3. proc' \in [Pid -> Process] /\ Shape'
  BY <1>0, <1>1, <1>2 DEF SweepProcess, GiveUp, SweepLoose
<1>4. incidents' \in 0 .. MaxIncidents
  BY ProcessDirsAssumption DEF Types, SweepProcess, Works, Fails, Incident, GiveUp, SweepLoose
<1>5. /\ dirs' \in SUBSET Path /\ at' \in [File -> Path \cup {Nowhere}]
      /\ lockFile' \in [Pid -> Inode \cup {NoInode}]
      /\ fate' \in [File -> {"none", "kept", "finished", "conflict", "swept"}]
  BY <1>0 DEF Types, SweepProcess, GiveUp, SweepLoose
<1> QED
  BY <1>3, <1>4, <1>5 DEF Types

LEMMA TypesLeaveConsent ==
  ASSUME NEW p \in Pid, Types, LeaveConsent(p)
  PROVE  Types'
<1>0. proc[p] \in Process /\ ShapeOf(p, proc[p])
  BY DEF Types, Shape
<1>1. ASSUME Set(p, [proc[p] EXCEPT !.pc = "consent", !.consent = {}])
      PROVE  proc' \in [Pid -> Process] /\ Shape'
  <2> DEFINE s == [proc[p] EXCEPT !.pc = "consent", !.consent = {}]
  <2>1. s \in Process
    BY <1>0, <1>1 DEF LeaveConsent, Process, PC, Leave, LeaveDisturbed, GiveUp, RemoveDir
  <2>2. ShapeOf(p, s)
    BY <1>0, <1>1 DEF LeaveConsent, ShapeOf, Process, Outside, Locking, Holding, Engaged, Filling, Moving, Leave, LeaveDisturbed, GiveUp, RemoveDir
  <2> QED
    BY <1>1, <2>1, <2>2, SetTypes
<1>2. ASSUME Set(p, LeaveDisturbed(p))
      PROVE  proc' \in [Pid -> Process] /\ Shape'
  <2> DEFINE s == LeaveDisturbed(p)
  <2>1. s \in Process
    BY <1>0, <1>2 DEF LeaveConsent, Process, PC, Leave, LeaveDisturbed, GiveUp, RemoveDir
  <2>2. ShapeOf(p, s)
    BY <1>0, <1>2 DEF LeaveConsent, ShapeOf, Process, Outside, Locking, Holding, Engaged, Filling, Moving, Leave, LeaveDisturbed, GiveUp, RemoveDir
  <2> QED
    BY <1>2, <2>1, <2>2, SetTypes
<1>3. ASSUME Set(p, Leave(p))
      PROVE  proc' \in [Pid -> Process] /\ Shape'
  <2> DEFINE s == Leave(p)
  <2>1. s \in Process
    BY <1>0, <1>3 DEF LeaveConsent, Process, PC, Leave, LeaveDisturbed, GiveUp, RemoveDir
  <2>2. ShapeOf(p, s)
    BY <1>0, <1>3 DEF LeaveConsent, ShapeOf, Process, Outside, Locking, Holding, Engaged, Filling, Moving, Leave, LeaveDisturbed, GiveUp, RemoveDir
  <2> QED
    BY <1>3, <2>1, <2>2, SetTypes
<1>4. proc' \in [Pid -> Process] /\ Shape'
  BY <1>0, <1>1, <1>2, <1>3 DEF LeaveConsent, GiveUp, RemoveDir
<1>5. incidents' \in 0 .. MaxIncidents
  BY ProcessDirsAssumption DEF Types, LeaveConsent, Works, Fails, Incident, GiveUp, RemoveDir
<1>6. /\ dirs' \in SUBSET Path /\ at' \in [File -> Path \cup {Nowhere}]
      /\ lockFile' \in [Pid -> Inode \cup {NoInode}]
      /\ fate' \in [File -> {"none", "kept", "finished", "conflict", "swept"}]
  BY <1>0 DEF Types, LeaveConsent, GiveUp, RemoveDir
<1> QED
  BY <1>4, <1>5, <1>6 DEF Types

LEMMA TypesLeaveFeature ==
  ASSUME NEW p \in Pid, Types, LeaveFeature(p)
  PROVE  Types'
<1>0. proc[p] \in Process /\ ShapeOf(p, proc[p])
  BY DEF Types, Shape
<1>1. ASSUME Set(p, [proc[p] EXCEPT !.pc = "feature", !.feature = {}])
      PROVE  proc' \in [Pid -> Process] /\ Shape'
  <2> DEFINE s == [proc[p] EXCEPT !.pc = "feature", !.feature = {}]
  <2>1. s \in Process
    BY <1>0, <1>1 DEF LeaveFeature, Process, PC, Leave, LeaveDisturbed, GiveUp, RemoveDir
  <2>2. ShapeOf(p, s)
    BY <1>0, <1>1 DEF LeaveFeature, ShapeOf, Process, Outside, Locking, Holding, Engaged, Filling, Moving, Leave, LeaveDisturbed, GiveUp, RemoveDir
  <2> QED
    BY <1>1, <2>1, <2>2, SetTypes
<1>2. ASSUME Set(p, LeaveDisturbed(p))
      PROVE  proc' \in [Pid -> Process] /\ Shape'
  <2> DEFINE s == LeaveDisturbed(p)
  <2>1. s \in Process
    BY <1>0, <1>2 DEF LeaveFeature, Process, PC, Leave, LeaveDisturbed, GiveUp, RemoveDir
  <2>2. ShapeOf(p, s)
    BY <1>0, <1>2 DEF LeaveFeature, ShapeOf, Process, Outside, Locking, Holding, Engaged, Filling, Moving, Leave, LeaveDisturbed, GiveUp, RemoveDir
  <2> QED
    BY <1>2, <2>1, <2>2, SetTypes
<1>3. ASSUME Set(p, Leave(p))
      PROVE  proc' \in [Pid -> Process] /\ Shape'
  <2> DEFINE s == Leave(p)
  <2>1. s \in Process
    BY <1>0, <1>3 DEF LeaveFeature, Process, PC, Leave, LeaveDisturbed, GiveUp, RemoveDir
  <2>2. ShapeOf(p, s)
    BY <1>0, <1>3 DEF LeaveFeature, ShapeOf, Process, Outside, Locking, Holding, Engaged, Filling, Moving, Leave, LeaveDisturbed, GiveUp, RemoveDir
  <2> QED
    BY <1>3, <2>1, <2>2, SetTypes
<1>4. proc' \in [Pid -> Process] /\ Shape'
  BY <1>0, <1>1, <1>2, <1>3 DEF LeaveFeature, GiveUp, RemoveDir
<1>5. incidents' \in 0 .. MaxIncidents
  BY ProcessDirsAssumption DEF Types, LeaveFeature, Works, Fails, Incident, GiveUp, RemoveDir
<1>6. /\ dirs' \in SUBSET Path /\ at' \in [File -> Path \cup {Nowhere}]
      /\ lockFile' \in [Pid -> Inode \cup {NoInode}]
      /\ fate' \in [File -> {"none", "kept", "finished", "conflict", "swept"}]
  BY <1>0 DEF Types, LeaveFeature, GiveUp, RemoveDir
<1> QED
  BY <1>4, <1>5, <1>6 DEF Types

LEMMA TypesLeaveProcess ==
  ASSUME NEW p \in Pid, Types, LeaveProcess(p)
  PROVE  Types'
<1>0. proc[p] \in Process /\ ShapeOf(p, proc[p])
  BY DEF Types, Shape
<1>1. ASSUME Set(p, [proc[p] EXCEPT !.pc = "close"])
      PROVE  proc' \in [Pid -> Process] /\ Shape'
  <2> DEFINE s == [proc[p] EXCEPT !.pc = "close"]
  <2>1. s \in Process
    BY <1>0, <1>1 DEF LeaveProcess, Process, PC, Leave, LeaveDisturbed, GiveUp, RemoveDir
  <2>2. ShapeOf(p, s)
    BY <1>0, <1>1 DEF LeaveProcess, ShapeOf, Process, Outside, Locking, Holding, Engaged, Filling, Moving, Leave, LeaveDisturbed, GiveUp, RemoveDir
  <2> QED
    BY <1>1, <2>1, <2>2, SetTypes
<1>2. ASSUME Set(p, LeaveDisturbed(p))
      PROVE  proc' \in [Pid -> Process] /\ Shape'
  <2> DEFINE s == LeaveDisturbed(p)
  <2>1. s \in Process
    BY <1>0, <1>2 DEF LeaveProcess, Process, PC, Leave, LeaveDisturbed, GiveUp, RemoveDir
  <2>2. ShapeOf(p, s)
    BY <1>0, <1>2 DEF LeaveProcess, ShapeOf, Process, Outside, Locking, Holding, Engaged, Filling, Moving, Leave, LeaveDisturbed, GiveUp, RemoveDir
  <2> QED
    BY <1>2, <2>1, <2>2, SetTypes
<1>3. ASSUME Set(p, Leave(p))
      PROVE  proc' \in [Pid -> Process] /\ Shape'
  <2> DEFINE s == Leave(p)
  <2>1. s \in Process
    BY <1>0, <1>3 DEF LeaveProcess, Process, PC, Leave, LeaveDisturbed, GiveUp, RemoveDir
  <2>2. ShapeOf(p, s)
    BY <1>0, <1>3 DEF LeaveProcess, ShapeOf, Process, Outside, Locking, Holding, Engaged, Filling, Moving, Leave, LeaveDisturbed, GiveUp, RemoveDir
  <2> QED
    BY <1>3, <2>1, <2>2, SetTypes
<1>4. proc' \in [Pid -> Process] /\ Shape'
  BY <1>0, <1>1, <1>2, <1>3 DEF LeaveProcess, GiveUp, RemoveDir
<1>5. incidents' \in 0 .. MaxIncidents
  BY ProcessDirsAssumption DEF Types, LeaveProcess, Works, Fails, Incident, GiveUp, RemoveDir
<1>6. /\ dirs' \in SUBSET Path /\ at' \in [File -> Path \cup {Nowhere}]
      /\ lockFile' \in [Pid -> Inode \cup {NoInode}]
      /\ fate' \in [File -> {"none", "kept", "finished", "conflict", "swept"}]
  BY <1>0 DEF Types, LeaveProcess, GiveUp, RemoveDir
<1> QED
  BY <1>4, <1>5, <1>6 DEF Types

\* What a rename of q's directory to p's makes of a path.
LEMMA RenamedRoot ==
  ASSUME NEW p \in Pid, NEW q \in Pid, NEW r \in Pid
  PROVE  Moved(<<r>>, q, p) = IF r = q THEN <<p>> ELSE <<r>>
<1>1. Under(q, <<r>>) <=> r = q
  BY DEF Under, Nowhere
<1> QED
  BY <1>1 DEF Moved

LEMMA RenamedFeature ==
  ASSUME NEW p \in Pid, NEW q \in Pid, NEW r \in Pid, NEW f \in Feature
  PROVE  Moved(<<r, f>>, q, p) = IF r = q THEN <<p, f>> ELSE <<r, f>>
<1>1. Under(q, <<r, f>>) <=> r = q
  BY DEF Under, Nowhere
<1> QED
  BY <1>1 DEF Moved

LEMMA RenamedConsent ==
  ASSUME NEW p \in Pid, NEW q \in Pid, NEW r \in Pid, NEW f \in Feature, NEW c \in Consent
  PROVE  Moved(<<r, f, c>>, q, p) = IF r = q THEN <<p, f, c>> ELSE <<r, f, c>>
<1>1. Under(q, <<r, f, c>>) <=> r = q
  BY DEF Under, Nowhere
<1> QED
  BY <1>1 DEF Moved

LEMMA Renaming ==
  ASSUME NEW p \in Pid, NEW q \in Pid
  PROVE  /\ Moved(Nowhere, q, p) = Nowhere
         /\ \A r \in Pid : Moved(<<r>>, q, p) = IF r = q THEN <<p>> ELSE <<r>>
         /\ \A r \in Pid, f \in Feature :
              Moved(<<r, f>>, q, p) = IF r = q THEN <<p, f>> ELSE <<r, f>>
         /\ \A r \in Pid, f \in Feature, c \in Consent :
              Moved(<<r, f, c>>, q, p) = IF r = q THEN <<p, f, c>> ELSE <<r, f, c>>
         /\ \A d \in Path : Moved(d, q, p) \in Path
<1>1. Moved(Nowhere, q, p) = Nowhere
  BY DEF Moved, Under
<1>2. \A r \in Pid : Moved(<<r>>, q, p) = IF r = q THEN <<p>> ELSE <<r>>
  BY RenamedRoot
<1>3. \A r \in Pid, f \in Feature :
        Moved(<<r, f>>, q, p) = IF r = q THEN <<p, f>> ELSE <<r, f>>
  BY RenamedFeature
<1>4. \A r \in Pid, f \in Feature, c \in Consent :
        Moved(<<r, f, c>>, q, p) = IF r = q THEN <<p, f, c>> ELSE <<r, f, c>>
  BY RenamedConsent
<1>5. ASSUME NEW d \in Path PROVE Moved(d, q, p) \in Path
  <2>1. CASE \E r \in Pid : d = <<r>>
    BY <2>1, <1>2 DEF Path
  <2>2. CASE \E r \in Pid, f \in Feature : d = <<r, f>>
    <3>1. PICK r \in Pid, f \in Feature : d = <<r, f>>
      BY <2>2
    <3>2. Moved(d, q, p) = <<p, f>> \/ Moved(d, q, p) = <<r, f>>
      BY <3>1, <1>3
    <3> QED
      BY <3>2 DEF Path
  <2>3. CASE \E r \in Pid, f \in Feature, c \in Consent : d = <<r, f, c>>
    <3>1. PICK r \in Pid, f \in Feature, c \in Consent : d = <<r, f, c>>
      BY <2>3
    <3>2. Moved(d, q, p) = <<p, f, c>> \/ Moved(d, q, p) = <<r, f, c>>
      BY <3>1, <1>4
    <3> QED
      BY <3>2 DEF Path
  <2> QED
    BY <2>1, <2>2, <2>3, Paths
<1> QED
  BY <1>1, <1>2, <1>3, <1>4, <1>5

LEMMA TypesRenameRoot ==
  ASSUME NEW p \in Pid, Types, RenameRoot(p)
  PROVE  Types'
<1>0. proc[p] \in Process /\ ShapeOf(p, proc[p])
  BY DEF Types, Shape
<1>1. proc[p].pc \in Engaged
  BY DEF RenameRoot, Engaged, Holding, Locking
<1>2. Src(p) \in Pid /\ Src(p) # p /\ proc[p].src = {Src(p)}
  BY <1>1, Engaging
<1>3. \A d \in Path \cup {Nowhere} : Moved(d, Src(p), p) \in Path \cup {Nowhere} /\ (d \in Path => Moved(d, Src(p), p) \in Path)
  BY <1>2, Renaming
<1>4. ASSUME Set(p, [proc[p] EXCEPT !.pc = "close"])
      PROVE  proc' \in [Pid -> Process] /\ Shape'
  <2> DEFINE s == [proc[p] EXCEPT !.pc = "close"]
  <2>1. s \in Process
    BY <1>0, <1>1, <1>2, <1>3, <1>4 DEF RenameRoot, Process, PC, Leave, LeaveDisturbed, GiveUp
  <2>2. ShapeOf(p, s)
    BY <1>0, <1>1, <1>2, <1>3, <1>4 DEF RenameRoot, ShapeOf, Process, Outside, Locking, Holding, Engaged, Filling, Moving, Leave, LeaveDisturbed, GiveUp
  <2> QED
    BY <1>4, <2>1, <2>2, SetTypes
<1>5. ASSUME Set(p, LeaveDisturbed(p))
      PROVE  proc' \in [Pid -> Process] /\ Shape'
  <2> DEFINE s == LeaveDisturbed(p)
  <2>1. s \in Process
    BY <1>0, <1>1, <1>2, <1>3, <1>5 DEF RenameRoot, Process, PC, Leave, LeaveDisturbed, GiveUp
  <2>2. ShapeOf(p, s)
    BY <1>0, <1>1, <1>2, <1>3, <1>5 DEF RenameRoot, ShapeOf, Process, Outside, Locking, Holding, Engaged, Filling, Moving, Leave, LeaveDisturbed, GiveUp
  <2> QED
    BY <1>5, <2>1, <2>2, SetTypes
<1>6. ASSUME Set(p, Leave(p))
      PROVE  proc' \in [Pid -> Process] /\ Shape'
  <2> DEFINE s == Leave(p)
  <2>1. s \in Process
    BY <1>0, <1>1, <1>2, <1>3, <1>6 DEF RenameRoot, Process, PC, Leave, LeaveDisturbed, GiveUp
  <2>2. ShapeOf(p, s)
    BY <1>0, <1>1, <1>2, <1>3, <1>6 DEF RenameRoot, ShapeOf, Process, Outside, Locking, Holding, Engaged, Filling, Moving, Leave, LeaveDisturbed, GiveUp
  <2> QED
    BY <1>6, <2>1, <2>2, SetTypes
<1>7. proc' \in [Pid -> Process] /\ Shape'
  BY <1>0, <1>1, <1>2, <1>3, <1>4, <1>5, <1>6 DEF RenameRoot, GiveUp
<1>8. incidents' \in 0 .. MaxIncidents
  BY ProcessDirsAssumption DEF Types, RenameRoot, Works, Fails, Incident, GiveUp
<1>9. /\ dirs' \in SUBSET Path /\ at' \in [File -> Path \cup {Nowhere}]
      /\ lockFile' \in [Pid -> Inode \cup {NoInode}]
      /\ fate' \in [File -> {"none", "kept", "finished", "conflict", "swept"}]
  BY <1>0, <1>1, <1>2, <1>3 DEF Types, RenameRoot, GiveUp
<1> QED
  BY <1>7, <1>8, <1>9 DEF Types

LEMMA TypesLookForFile ==
  ASSUME NEW p \in Pid, Types, LookForFile(p)
  PROVE  Types'
<1>0. proc[p] \in Process /\ ShapeOf(p, proc[p])
  BY DEF Types, Shape
<1>1. ASSUME Set(p, [proc[p] EXCEPT !.files = proc[p].files \ {CHOOSE x \in proc[p].files : TRUE}])
      PROVE  proc' \in [Pid -> Process] /\ Shape'
  <2> DEFINE s == [proc[p] EXCEPT !.files = proc[p].files \ {CHOOSE x \in proc[p].files : TRUE}]
  <2>1. s \in Process
    BY <1>0, <1>1 DEF LookForFile, Process, PC, Leave, LeaveDisturbed, GiveUp
  <2>2. ShapeOf(p, s)
    BY <1>0, <1>1 DEF LookForFile, ShapeOf, Process, Outside, Locking, Holding, Engaged, Filling, Moving, Leave, LeaveDisturbed, GiveUp
  <2> QED
    BY <1>1, <2>1, <2>2, SetTypes
<1>2. ASSUME Set(p, LeaveDisturbed(p))
      PROVE  proc' \in [Pid -> Process] /\ Shape'
  <2> DEFINE s == LeaveDisturbed(p)
  <2>1. s \in Process
    BY <1>0, <1>2 DEF LookForFile, Process, PC, Leave, LeaveDisturbed, GiveUp
  <2>2. ShapeOf(p, s)
    BY <1>0, <1>2 DEF LookForFile, ShapeOf, Process, Outside, Locking, Holding, Engaged, Filling, Moving, Leave, LeaveDisturbed, GiveUp
  <2> QED
    BY <1>2, <2>1, <2>2, SetTypes
<1>3. ASSUME proc[p].files # {}, Set(p, [proc[p] EXCEPT !.pc = "move"])
      PROVE  proc' \in [Pid -> Process] /\ Shape'
  <2> DEFINE s == [proc[p] EXCEPT !.pc = "move"]
  <2>1. s \in Process
    BY <1>0, <1>3 DEF LookForFile, Process, PC, Leave, LeaveDisturbed, GiveUp
  <2>2. ShapeOf(p, s)
    BY <1>0, <1>3 DEF LookForFile, ShapeOf, Process, Outside, Locking, Holding, Engaged, Filling, Moving, Leave, LeaveDisturbed, GiveUp
  <2> QED
    BY <1>3, <2>1, <2>2, SetTypes
<1>4. proc' \in [Pid -> Process] /\ Shape'
  BY <1>0, <1>1, <1>2, <1>3 DEF LookForFile, GiveUp
<1>5. incidents' \in 0 .. MaxIncidents
  BY ProcessDirsAssumption DEF Types, LookForFile, Works, Fails, Incident, GiveUp
<1>6. /\ dirs' \in SUBSET Path /\ at' \in [File -> Path \cup {Nowhere}]
      /\ lockFile' \in [Pid -> Inode \cup {NoInode}]
      /\ fate' \in [File -> {"none", "kept", "finished", "conflict", "swept"}]
  BY <1>0 DEF Types, LookForFile, GiveUp
<1> QED
  BY <1>4, <1>5, <1>6 DEF Types

LEMMA TypesMoveFile ==
  ASSUME NEW p \in Pid, Types, MoveFile(p)
  PROVE  Types'
<1>0. proc[p] \in Process /\ ShapeOf(p, proc[p])
  BY DEF Types, Shape
<1>1. proc[p].pc \in Engaged
  BY DEF MoveFile, Engaged, Holding, Locking
<1>2. Src(p) \in Pid /\ Src(p) # p /\ proc[p].src = {Src(p)}
  BY <1>1, Engaging
<1>3. /\ Current(p) \in Feature /\ proc[p].feature = {Current(p)}
      /\ SrcFeature(p) = <<Src(p), Current(p)>>
  BY Ways DEF MoveFile, Filling
<1>4. \E c \in Consent : /\ proc[p].consent = {c}
                       /\ SrcConsent(p) = <<Src(p), Current(p), c>>
                       /\ DstConsent(p) = <<p, Current(p), c>>
  BY Ways DEF MoveFile
<1>5. DstConsent(p) \in Path
  BY <1>3, <1>4 DEF Path
<1>6. ASSUME Set(p, [proc[p] EXCEPT !.pc = "file", !.files = proc[p].files \ {CHOOSE x \in proc[p].files : TRUE}])
      PROVE  proc' \in [Pid -> Process] /\ Shape'
  <2> DEFINE s == [proc[p] EXCEPT !.pc = "file", !.files = proc[p].files \ {CHOOSE x \in proc[p].files : TRUE}]
  <2>1. s \in Process
    BY <1>0, <1>1, <1>2, <1>3, <1>4, <1>5, <1>6 DEF MoveFile, Process, PC, Leave, LeaveDisturbed, GiveUp
  <2>2. ShapeOf(p, s)
    BY <1>0, <1>1, <1>2, <1>3, <1>4, <1>5, <1>6 DEF MoveFile, ShapeOf, Process, Outside, Locking, Holding, Engaged, Filling, Moving, Leave, LeaveDisturbed, GiveUp
  <2> QED
    BY <1>6, <2>1, <2>2, SetTypes
<1>7. ASSUME Set(p, LeaveDisturbed(p))
      PROVE  proc' \in [Pid -> Process] /\ Shape'
  <2> DEFINE s == LeaveDisturbed(p)
  <2>1. s \in Process
    BY <1>0, <1>1, <1>2, <1>3, <1>4, <1>5, <1>7 DEF MoveFile, Process, PC, Leave, LeaveDisturbed, GiveUp
  <2>2. ShapeOf(p, s)
    BY <1>0, <1>1, <1>2, <1>3, <1>4, <1>5, <1>7 DEF MoveFile, ShapeOf, Process, Outside, Locking, Holding, Engaged, Filling, Moving, Leave, LeaveDisturbed, GiveUp
  <2> QED
    BY <1>7, <2>1, <2>2, SetTypes
<1>8. ASSUME Set(p, Leave(p))
      PROVE  proc' \in [Pid -> Process] /\ Shape'
  <2> DEFINE s == Leave(p)
  <2>1. s \in Process
    BY <1>0, <1>1, <1>2, <1>3, <1>4, <1>5, <1>8 DEF MoveFile, Process, PC, Leave, LeaveDisturbed, GiveUp
  <2>2. ShapeOf(p, s)
    BY <1>0, <1>1, <1>2, <1>3, <1>4, <1>5, <1>8 DEF MoveFile, ShapeOf, Process, Outside, Locking, Holding, Engaged, Filling, Moving, Leave, LeaveDisturbed, GiveUp
  <2> QED
    BY <1>8, <2>1, <2>2, SetTypes
<1>9. proc' \in [Pid -> Process] /\ Shape'
  BY <1>0, <1>1, <1>2, <1>3, <1>4, <1>5, <1>6, <1>7, <1>8 DEF MoveFile, GiveUp
<1>10. incidents' \in 0 .. MaxIncidents
  BY ProcessDirsAssumption DEF Types, MoveFile, Works, Fails, Incident, GiveUp
<1>11. /\ dirs' \in SUBSET Path /\ at' \in [File -> Path \cup {Nowhere}]
      /\ lockFile' \in [Pid -> Inode \cup {NoInode}]
      /\ fate' \in [File -> {"none", "kept", "finished", "conflict", "swept"}]
  BY <1>0, <1>1, <1>2, <1>3, <1>4, <1>5 DEF Types, MoveFile, GiveUp
<1> QED
  BY <1>9, <1>10, <1>11 DEF Types

LEMMA TypesOpenAbandonedLock ==
  ASSUME NEW p \in Pid, Types, OpenAbandonedLock(p)
  PROVE  Types'
<1>0. proc[p] \in Process /\ ShapeOf(p, proc[p])
  BY DEF Types, Shape
<1>1. proc[p].subdirs \subseteq Pid
  BY <1>0 DEF Process
<1>2. FreshInode \in Inode /\ FreshInode # NoInode
  BY <1>0, FreshExists DEF OpenAbandonedLock, ShapeOf, Inode, NoInode, Holding, Locking
<1>3. \A q \in proc[p].subdirs : Opened(q) \in Inode /\ Opened(q) # NoInode
  BY <1>1, <1>2 DEF Opened, Types, Inode, NoInode
<1>4. ASSUME NEW q \in proc[p].subdirs, Set(p, [proc[p] EXCEPT !.pc = "try", !.subdirs = proc[p].subdirs \ {q}, !.src = {q}, !.fd = Opened(q)])
      PROVE  proc' \in [Pid -> Process] /\ Shape'
  <2> DEFINE s == [proc[p] EXCEPT !.pc = "try", !.subdirs = proc[p].subdirs \ {q}, !.src = {q}, !.fd = Opened(q)]
  <2>1. s \in Process
    BY <1>0, <1>1, <1>2, <1>3, <1>4, Subdirs DEF OpenAbandonedLock, Process, PC, FilesIn, Leave, LeaveDisturbed
  <2>2. ShapeOf(p, s)
    BY <1>0, <1>1, <1>2, <1>3, <1>4 DEF OpenAbandonedLock, ShapeOf, Process, Outside, Locking, Holding, Engaged, Filling, Moving, Leave, LeaveDisturbed
  <2> QED
    BY <1>4, <2>1, <2>2, SetTypes
<1>5. ASSUME NEW q \in proc[p].subdirs, Set(p, [proc[p] EXCEPT !.subdirs = proc[p].subdirs \ {q}, !.alone = FALSE])
      PROVE  proc' \in [Pid -> Process] /\ Shape'
  <2> DEFINE s == [proc[p] EXCEPT !.subdirs = proc[p].subdirs \ {q}, !.alone = FALSE]
  <2>1. s \in Process
    BY <1>0, <1>1, <1>2, <1>3, <1>5, Subdirs DEF OpenAbandonedLock, Process, PC, FilesIn, Leave, LeaveDisturbed
  <2>2. ShapeOf(p, s)
    BY <1>0, <1>1, <1>2, <1>3, <1>5 DEF OpenAbandonedLock, ShapeOf, Process, Outside, Locking, Holding, Engaged, Filling, Moving, Leave, LeaveDisturbed
  <2> QED
    BY <1>5, <2>1, <2>2, SetTypes
<1>6. proc' \in [Pid -> Process] /\ Shape'
  BY <1>0, <1>1, <1>2, <1>3, <1>4, <1>5 DEF OpenAbandonedLock, GiveUp
<1>7. incidents' \in 0 .. MaxIncidents
  BY ProcessDirsAssumption DEF Types, OpenAbandonedLock, Works, Fails, Incident, GiveUp
<1>8. /\ dirs' \in SUBSET Path /\ at' \in [File -> Path \cup {Nowhere}]
      /\ lockFile' \in [Pid -> Inode \cup {NoInode}]
      /\ fate' \in [File -> {"none", "kept", "finished", "conflict", "swept"}]
  BY <1>0, <1>1, <1>2, <1>3 DEF Types, OpenAbandonedLock, GiveUp, Path, Process
<1> QED
  BY <1>6, <1>7, <1>8 DEF Types

LEMMA TypesEnterFeature ==
  ASSUME NEW p \in Pid, Types, EnterFeature(p)
  PROVE  Types'
<1>0. proc[p] \in Process /\ ShapeOf(p, proc[p])
  BY DEF Types, Shape
<1>1. proc[p].pc \in Engaged
  BY DEF EnterFeature, Engaged, Holding, Locking
<1>2. Src(p) \in Pid /\ Src(p) # p /\ proc[p].src = {Src(p)}
  BY <1>1, Engaging
<1>3. proc[p].features \subseteq Feature
  BY <1>0 DEF Process
<1>4. \A f \in proc[p].features : SubdirsOf(<<Src(p), f>>) \subseteq Consent
  BY <1>2, <1>3, Subdirs
<1>5. ASSUME NEW f \in proc[p].features, Set(p, [proc[p] EXCEPT !.pc = "consent", !.feature = {f}, !.features = proc[p].features \ {f}, !.consents = SubdirsOf(<<Src(p), f>>)])
      PROVE  proc' \in [Pid -> Process] /\ Shape'
  <2> DEFINE s == [proc[p] EXCEPT !.pc = "consent", !.feature = {f}, !.features = proc[p].features \ {f}, !.consents = SubdirsOf(<<Src(p), f>>)]
  <2>1. s \in Process
    BY <1>0, <1>1, <1>2, <1>3, <1>4, <1>5, Subdirs DEF EnterFeature, Process, PC, FilesIn, Leave, LeaveDisturbed
  <2>2. ShapeOf(p, s)
    BY <1>0, <1>1, <1>2, <1>3, <1>4, <1>5 DEF EnterFeature, ShapeOf, Process, Outside, Locking, Holding, Engaged, Filling, Moving, Leave, LeaveDisturbed
  <2> QED
    BY <1>5, <2>1, <2>2, SetTypes
<1>6. ASSUME NEW f \in proc[p].features, Set(p, LeaveDisturbed(p))
      PROVE  proc' \in [Pid -> Process] /\ Shape'
  <2> DEFINE s == LeaveDisturbed(p)
  <2>1. s \in Process
    BY <1>0, <1>1, <1>2, <1>3, <1>4, <1>6, Subdirs DEF EnterFeature, Process, PC, FilesIn, Leave, LeaveDisturbed
  <2>2. ShapeOf(p, s)
    BY <1>0, <1>1, <1>2, <1>3, <1>4, <1>6 DEF EnterFeature, ShapeOf, Process, Outside, Locking, Holding, Engaged, Filling, Moving, Leave, LeaveDisturbed
  <2> QED
    BY <1>6, <2>1, <2>2, SetTypes
<1>7. proc' \in [Pid -> Process] /\ Shape'
  BY <1>0, <1>1, <1>2, <1>3, <1>4, <1>5, <1>6 DEF EnterFeature, GiveUp
<1>8. incidents' \in 0 .. MaxIncidents
  BY ProcessDirsAssumption DEF Types, EnterFeature, Works, Fails, Incident, GiveUp
<1>9. /\ dirs' \in SUBSET Path /\ at' \in [File -> Path \cup {Nowhere}]
      /\ lockFile' \in [Pid -> Inode \cup {NoInode}]
      /\ fate' \in [File -> {"none", "kept", "finished", "conflict", "swept"}]
  BY <1>0, <1>1, <1>2, <1>3, <1>4 DEF Types, EnterFeature, GiveUp, Path, Process
<1> QED
  BY <1>7, <1>8, <1>9 DEF Types

LEMMA TypesEnterConsent ==
  ASSUME NEW p \in Pid, Types, EnterConsent(p)
  PROVE  Types'
<1>0. proc[p] \in Process /\ ShapeOf(p, proc[p])
  BY DEF Types, Shape
<1>1. proc[p].pc \in Engaged
  BY DEF EnterConsent, Engaged, Holding, Locking
<1>2. Src(p) \in Pid /\ Src(p) # p /\ proc[p].src = {Src(p)}
  BY <1>1, Engaging
<1>3. /\ Current(p) \in Feature /\ proc[p].feature = {Current(p)}
      /\ SrcFeature(p) = <<Src(p), Current(p)>>
  BY Ways DEF EnterConsent, Filling
<1>4. proc[p].consents \subseteq Consent
  BY <1>0 DEF Process
<1>5. ASSUME NEW c \in proc[p].consents, Set(p, [proc[p] EXCEPT !.pc = "file", !.consent = {c}, !.consents = proc[p].consents \ {c}, !.files = FilesIn(<<Src(p), Current(p), c>>)])
      PROVE  proc' \in [Pid -> Process] /\ Shape'
  <2> DEFINE s == [proc[p] EXCEPT !.pc = "file", !.consent = {c}, !.consents = proc[p].consents \ {c}, !.files = FilesIn(<<Src(p), Current(p), c>>)]
  <2>1. s \in Process
    BY <1>0, <1>1, <1>2, <1>3, <1>4, <1>5, Subdirs DEF EnterConsent, Process, PC, FilesIn, Leave, LeaveDisturbed
  <2>2. ShapeOf(p, s)
    BY <1>0, <1>1, <1>2, <1>3, <1>4, <1>5 DEF EnterConsent, ShapeOf, Process, Outside, Locking, Holding, Engaged, Filling, Moving, Leave, LeaveDisturbed
  <2> QED
    BY <1>5, <2>1, <2>2, SetTypes
<1>6. ASSUME NEW c \in proc[p].consents, Set(p, LeaveDisturbed(p))
      PROVE  proc' \in [Pid -> Process] /\ Shape'
  <2> DEFINE s == LeaveDisturbed(p)
  <2>1. s \in Process
    BY <1>0, <1>1, <1>2, <1>3, <1>4, <1>6, Subdirs DEF EnterConsent, Process, PC, FilesIn, Leave, LeaveDisturbed
  <2>2. ShapeOf(p, s)
    BY <1>0, <1>1, <1>2, <1>3, <1>4, <1>6 DEF EnterConsent, ShapeOf, Process, Outside, Locking, Holding, Engaged, Filling, Moving, Leave, LeaveDisturbed
  <2> QED
    BY <1>6, <2>1, <2>2, SetTypes
<1>7. proc' \in [Pid -> Process] /\ Shape'
  BY <1>0, <1>1, <1>2, <1>3, <1>4, <1>5, <1>6 DEF EnterConsent, GiveUp
<1>8. incidents' \in 0 .. MaxIncidents
  BY ProcessDirsAssumption DEF Types, EnterConsent, Works, Fails, Incident, GiveUp
<1>9. /\ dirs' \in SUBSET Path /\ at' \in [File -> Path \cup {Nowhere}]
      /\ lockFile' \in [Pid -> Inode \cup {NoInode}]
      /\ fate' \in [File -> {"none", "kept", "finished", "conflict", "swept"}]
  BY <1>0, <1>1, <1>2, <1>3, <1>4 DEF Types, EnterConsent, GiveUp, Path, Process
<1> QED
  BY <1>7, <1>8, <1>9 DEF Types

LEMMA TypesBegin ==
  ASSUME NEW p \in Pid, Types, Begin(p)
  PROVE  Types'
<1> DEFINE s == [Idle EXCEPT !.pc = "open", !.alone = \A r \in Pid : proc[r].pc = "off"]
<1>1. s \in Process /\ ShapeOf(p, s)
  BY DEF Process, ShapeOf, Idle, PC, NoInode, Outside, Locking, Holding, Engaged, Filling, Moving
<1>2. ASSUME NEW q \in Pid
      PROVE  LET t == [proc[q] EXCEPT !.alone = FALSE] IN t \in Process /\ ShapeOf(q, t)
  <2>1. proc[q] \in Process /\ ShapeOf(q, proc[q])
    BY DEF Types, Shape
  <2>2. [proc[q] EXCEPT !.alone = FALSE] \in Process
    BY <2>1 DEF Process
  <2>3. ShapeOf(q, [proc[q] EXCEPT !.alone = FALSE])
    BY <2>1 DEF Process, ShapeOf
  <2> QED
    BY <2>1, <2>2, <2>3
<1>3. proc' \in [Pid -> Process] /\ Shape'
  BY <1>1, <1>2 DEF Begin, Shape
<1>4. Incident
  BY DEF Begin
<1>5. incidents' \in 0 .. MaxIncidents
  BY <1>4, ProcessDirsAssumption DEF Types, Incident
<1> QED
  BY <1>3, <1>5 DEF Types, Begin

LEMMA TypesDropLoose ==
  ASSUME NEW x \in Loose, Types, DropLoose(x)
  PROVE  Types'
<1>1. ASSUME NEW q \in Pid
      PROVE  LET t == [proc[q] EXCEPT !.alone = FALSE] IN
               t \in Process /\ ShapeOf(q, t) /\ proc[q] \in Process /\ ShapeOf(q, proc[q])
  <2>1. proc[q] \in Process /\ ShapeOf(q, proc[q])
    BY DEF Types, Shape
  <2>2. [proc[q] EXCEPT !.alone = FALSE] \in Process
    BY <2>1 DEF Process
  <2>3. ShapeOf(q, [proc[q] EXCEPT !.alone = FALSE])
    BY <2>1 DEF Process, ShapeOf
  <2> QED
    BY <2>1, <2>2, <2>3
<1>2. proc' \in [Pid -> Process] /\ Shape'
  BY <1>1 DEF DropLoose, Shape
<1>3. x \in File
  BY DEF File
<1> QED
  BY <1>2, <1>3, ProcessDirsAssumption DEF Types, DropLoose, Incident

LEMMA TypesExit ==
  ASSUME NEW p \in Pid, Types, Exit(p)
  PROVE  Types'
<1>1. Idle \in Process /\ ShapeOf(p, Idle)
  BY DEF Process, ShapeOf, Idle, PC, NoInode, Outside, Locking, Holding, Engaged, Filling, Moving
<1>2. proc' \in [Pid -> Process] /\ Shape'
  BY <1>1, SetTypes DEF Exit
<1> QED
  BY <1>2 DEF Types, Exit

LEMMA TypesRunning ==
  ASSUME NEW p \in Pid, Types, RunningStep(p)
  PROVE  Types' /\ proc' = proc /\ lockFile' = lockFile /\ proc[p].pc = "running"
<1>1. ASSUME NEW f \in Feature, RegisterFeature(p, f)
      PROVE  Types' /\ proc' = proc /\ lockFile' = lockFile /\ proc[p].pc = "running"
  BY <1>1 DEF RegisterFeature, Types, Shape, Path
<1>2. ASSUME NEW x \in Batch, WriteBatch(p, x)
      PROVE  Types' /\ proc' = proc /\ lockFile' = lockFile /\ proc[p].pc = "running"
  BY <1>2 DEF WriteBatch, Types, Shape, Tree, Works, File
<1>3. ASSUME NEW x \in Batch, FinishBatch(p, x)
      PROVE  Types' /\ proc' = proc /\ lockFile' = lockFile /\ proc[p].pc = "running"
  BY <1>3 DEF FinishBatch, Types, Shape, Works, File
<1> QED
  BY <1>1, <1>2, <1>3 DEF RunningStep

LEMMA TypesStep ==
  ASSUME Types, [Next]_vars
  PROVE  Types'
<1>1. ASSUME NEW p \in Pid, InitializeStep(p) PROVE Types'
  BY <1>1, TypesOpenOwnLock, TypesTakeOwnLock, TypesListProcessDirs, TypesScanEnds,
     TypesCreateProcessRoot, TypesOpenAbandonedLock, TypesTakeAbandonedLock, TypesCloseLock,
     TypesDeleteLock, TypesLookForRoot, TypesRenameRoot, TypesListFeatures, TypesEnterFeature,
     TypesEnterConsent, TypesLookForFile, TypesMoveFile, TypesLeaveConsent, TypesSweepFeature,
     TypesLeaveFeature, TypesSweepProcess, TypesLeaveProcess DEF InitializeStep
<1>2. ASSUME UNCHANGED vars PROVE Types'
  BY <1>2 DEF vars, Types, Shape
<1> QED
  BY <1>1, <1>2, TypesBegin, TypesRunning, TypesExit, TypesDropLoose DEF Next

-----------------------------------------------------------------------------
(* Locks: most steps change nothing of what others can see of a lock *)

SameLocks(r) ==
  /\ proc'[r].pc = proc[r].pc /\ proc'[r].pass = proc[r].pass /\ proc'[r].src = proc[r].src
  /\ proc'[r].own = proc[r].own /\ proc'[r].owns = proc[r].owns
  /\ proc'[r].fd = proc[r].fd /\ proc'[r].locked = proc[r].locked

Others(p)  == \A r \in Pid : r # p => proc'[r] = proc[r]
SameRoots  == \A q \in Pid : <<q>> \in dirs' <=> <<q>> \in dirs

LEMMA Unmoved ==
  ASSUME Held, Types, lockFile' = lockFile, SameRoots, \A r \in Pid : SameLocks(r)
  PROVE  Held'
<1>1. OneHolder'
  BY DEF Held, OneHolder, SameLocks
<1>2. Engagement'
  <2> SUFFICES ASSUME NEW r \in Pid, NEW q \in proc[r].src
               PROVE  Knows(r, q)'
    BY DEF Engagement, SameLocks
  <2>1. q \in Pid
    BY DEF Types, Process
  <2> QED
    BY <2>1 DEF Held, Engagement, Knows, SameLocks, SameRoots, Vacant
<1>3. Rooted'
  BY DEF Held, Rooted, SameLocks, SameRoots
<1> QED
  BY <1>1, <1>2, <1>3 DEF Held

\* A step of p on what nobody else looks at, or after which it has less.
Quietly(p) ==
  /\ Others(p) /\ SameRoots /\ lockFile' = lockFile
  /\ proc[p].pc \in {"off", "failed"} => proc'[p].pc \in {"off", "failed"}
  /\ proc'[p].pc \notin {"close", "unlink"}
  /\ \/ proc'[p].own = proc[p].own /\ proc'[p].owns = proc[p].owns
     \/ proc'[p].own = NoInode /\ proc'[p].owns = FALSE
  /\ \/ /\ proc'[p].fd = proc[p].fd /\ proc'[p].locked = proc[p].locked
        /\ proc'[p].src = proc[p].src
     \/ /\ proc'[p].fd = NoInode /\ proc'[p].locked = FALSE
        /\ proc'[p].src = {}
  /\ proc'[p].pass = "move" => proc[p].pass = "move" \/ <<p>> \in dirs'

LEMMA Quiet ==
  ASSUME NEW p \in Pid, Held, Types, Types', Quietly(p)
  PROVE  Held'
<1>1. OneHolder'
  <2>1. \A r \in Pid : /\ proc'[r].own # NoInode => proc'[r].own = proc[r].own
                       /\ proc'[r].owns => proc[r].owns /\ proc'[r].own = proc[r].own
    BY DEF Quietly, Others
  <2>2. \A r \in Pid : proc'[r].locked => proc[r].locked /\ proc'[r].fd = proc[r].fd
    BY DEF Quietly, Others
  <2>3. lockFile' = lockFile
    BY DEF Quietly
  <2>4. OneHolder
    BY DEF Held
  <2>5. \A q, r \in Pid : lockFile'[q] = lockFile'[r] /\ lockFile'[q] # NoInode => q = r
    BY <2>3, <2>4 DEF OneHolder
  <2>6. \A r \in Pid : proc'[r].own # NoInode => proc'[r].own = lockFile'[r]
    <3> SUFFICES ASSUME NEW r \in Pid, proc'[r].own # NoInode
                 PROVE  proc'[r].own = lockFile'[r]
      OBVIOUS
    <3>1. proc'[r].own = proc[r].own
      BY <2>1
    <3>2. proc[r].own # NoInode => proc[r].own = lockFile[r]
      BY <2>4 DEF OneHolder
    <3> QED
      BY <3>1, <3>2, <2>3
  <2>7. \A q, r \in Pid : proc'[q].owns /\ proc'[r].locked => proc'[q].own # proc'[r].fd
    <3> SUFFICES ASSUME NEW q \in Pid, NEW r \in Pid, proc'[q].owns, proc'[r].locked
                 PROVE  proc'[q].own # proc'[r].fd
      OBVIOUS
    <3>1. proc[q].owns /\ proc'[q].own = proc[q].own
      BY <2>1
    <3>2. proc[r].locked /\ proc'[r].fd = proc[r].fd
      BY <2>2
    <3> QED
      BY <3>1, <3>2, <2>4 DEF OneHolder
  <2>8. \A q, r \in Pid :
          proc'[q].locked /\ proc'[r].locked /\ proc'[q].fd = proc'[r].fd => q = r
    BY <2>2, <2>4 DEF OneHolder
  <2> QED
    BY <2>5, <2>6, <2>7, <2>8 DEF OneHolder
<1>2. Engagement'
  <2> SUFFICES ASSUME NEW r \in Pid, NEW q \in proc'[r].src
               PROVE  Knows(r, q)'
    BY DEF Engagement
  <2>1. q \in Pid /\ q \in proc[r].src /\ proc'[r].src = proc[r].src /\ Knows(r, q)
    BY DEF Quietly, Others, Types, Process, Held, Engagement
  <2>2. (proc'[q].owns => proc[q].owns) /\ (Vacant(q) => Vacant(q)')
    BY <2>1 DEF Quietly, Others, Vacant, SameRoots
  <2>3. proc[q].pc \in {"off", "failed"} => proc'[q].pc \in {"off", "failed"}
    BY <2>1 DEF Quietly, Others
  <2>4. CASE r # p
    <3>1. proc'[r] = proc[r]
      BY <2>4 DEF Quietly, Others
    <3> QED
      BY <2>1, <2>2, <2>3, <3>1 DEF Knows, Quietly, SameRoots
  <2>5. CASE r = p
    <3>1. proc'[p].fd = proc[p].fd /\ proc'[p].locked = proc[p].locked
      BY <2>1, <2>5 DEF Quietly
    <3>2. /\ proc'[p].pc \in Locking <=> proc[p].pc \in Locking
          /\ proc'[p].pc \in Holding <=> proc[p].pc \in Holding
      BY <3>1 DEF Types, Shape, ShapeOf
    <3> QED
      BY <2>1, <2>2, <2>5, <3>1, <3>2 DEF Knows, Quietly
  <2> QED
    BY <2>4, <2>5
<1>3. Rooted'
  <2> SUFFICES ASSUME NEW r \in Pid, proc'[r].pc \notin Outside,
                      proc'[r].pass = "move" \/ proc'[r].pc \in {"close", "unlink"}
               PROVE  <<r>> \in dirs'
    BY DEF Rooted
  <2>1. CASE r # p
    BY <2>1 DEF Held, Rooted, Quietly, Others, SameRoots
  <2>2. CASE r = p
    <3>1. proc'[p].owns
      BY <2>2 DEF Types, Shape, ShapeOf
    <3>2. proc[p].pc \notin Outside
      BY <2>2, <3>1 DEF Quietly, Types, Shape, ShapeOf, Outside
    <3> QED
      BY <2>2, <3>2 DEF Held, Rooted, Quietly, SameRoots
  <2> QED
    BY <2>1, <2>2
<1> QED
  BY <1>1, <1>2, <1>3 DEF Held

LEMMA Setting ==
  ASSUME NEW p \in Pid, NEW s, Types, Set(p, s)
  PROVE  proc'[p] = s /\ Others(p)
  BY DEF Types, Set, Others

LEMMA Lengths ==
  /\ \A q, r, f : <<q>> # <<r, f>>
  /\ \A q, r, f, c : <<q>> # <<r, f, c>> /\ <<q, f>> # <<r, f, c>>
<1>1. \A q, r, f : Len(<<q>>) = 1 /\ Len(<<r, f>>) = 2
  OBVIOUS
<1>2. \A r, f, c : Len(<<r, f, c>>) = 3
  OBVIOUS
<1> QED
  BY <1>1, <1>2

LEMMA HeldListProcessDirs ==
  ASSUME NEW p \in Pid, Held, Types, Types', ListProcessDirs(p)
  PROVE  Held'
<1>0. proc[p] \in Process /\ ShapeOf(p, proc[p])
  BY DEF Types, Shape
<1>1. p \in SubdirsOf(<<>>) => <<p>> \in dirs
  BY Subdirs
<1>2. SameRoots /\ lockFile' = lockFile
  BY <1>0, <1>1, Lengths DEF ListProcessDirs, SameRoots
<1>3. ASSUME p \in SubdirsOf(<<>>), Set(p, [proc[p] EXCEPT !.pass = "move"])
      PROVE  Held'
  <2>1. proc'[p] = [proc[p] EXCEPT !.pass = "move"] /\ Others(p)
    BY <1>3, Setting
  <2>2. Quietly(p)
    BY <1>0, <1>1, <1>2, <1>3, <2>1 DEF Quietly, ListProcessDirs, Process, ShapeOf, Holding, Locking
  <2> QED
    BY <2>2, Quiet
<1>4. ASSUME Set(p, [proc[p] EXCEPT !.pc = "scan", !.subdirs = SubdirsOf(<<>>) \ {p}])
      PROVE  Held'
  <2>1. proc'[p] = [proc[p] EXCEPT !.pc = "scan", !.subdirs = SubdirsOf(<<>>) \ {p}] /\ Others(p)
    BY <1>4, Setting
  <2>2. Quietly(p)
    BY <1>0, <1>1, <1>2, <1>4, <2>1 DEF Quietly, ListProcessDirs, Process, ShapeOf, Holding, Locking
  <2> QED
    BY <2>2, Quiet
<1>5. ASSUME Set(p, [proc[p] EXCEPT !.pc = IF proc[p].pass = "rename" THEN "mkdir" ELSE "running", !.alone = FALSE])
      PROVE  Held'
  <2>1. proc'[p] = [proc[p] EXCEPT !.pc = IF proc[p].pass = "rename" THEN "mkdir" ELSE "running", !.alone = FALSE] /\ Others(p)
    BY <1>5, Setting
  <2>2. Quietly(p)
    BY <1>0, <1>1, <1>2, <1>5, <2>1 DEF Quietly, ListProcessDirs, Process, ShapeOf, Holding, Locking
  <2> QED
    BY <2>2, Quiet
<1> QED
  BY <1>0, <1>1, <1>3, <1>4, <1>5 DEF ListProcessDirs

LEMMA HeldScanEnds ==
  ASSUME NEW p \in Pid, Held, Types, Types', ScanEnds(p)
  PROVE  Held'
<1>0. proc[p] \in Process /\ ShapeOf(p, proc[p])
  BY DEF Types, Shape
<1>1. SameRoots /\ lockFile' = lockFile
  BY <1>0, Lengths DEF ScanEnds, SameRoots
<1>2. ASSUME Set(p, [proc[p] EXCEPT !.pc = IF proc[p].pass = "rename" THEN "mkdir" ELSE "running"])
      PROVE  Held'
  <2>1. proc'[p] = [proc[p] EXCEPT !.pc = IF proc[p].pass = "rename" THEN "mkdir" ELSE "running"] /\ Others(p)
    BY <1>2, Setting
  <2>2. Quietly(p)
    BY <1>0, <1>1, <1>2, <2>1 DEF Quietly, ScanEnds, Process, ShapeOf, Holding, Locking
  <2> QED
    BY <2>2, Quiet
<1> QED
  BY <1>0, <1>2 DEF ScanEnds

LEMMA HeldLookForRoot ==
  ASSUME NEW p \in Pid, Held, Types, Types', LookForRoot(p)
  PROVE  Held'
<1>0. proc[p] \in Process /\ ShapeOf(p, proc[p])
  BY DEF Types, Shape
<1>1. SameRoots /\ lockFile' = lockFile
  BY <1>0, Lengths DEF LookForRoot, SameRoots
<1>2. ASSUME Set(p, Leave(p))
      PROVE  Held'
  <2>1. proc'[p] = Leave(p) /\ Others(p)
    BY <1>2, Setting
  <2>2. Quietly(p)
    BY <1>0, <1>1, <1>2, <2>1 DEF Quietly, LookForRoot, Process, ShapeOf, Holding, Locking, Leave
  <2> QED
    BY <2>2, Quiet
<1>3. ASSUME Set(p, [proc[p] EXCEPT !.pc = "rename"])
      PROVE  Held'
  <2>1. proc'[p] = [proc[p] EXCEPT !.pc = "rename"] /\ Others(p)
    BY <1>3, Setting
  <2>2. Quietly(p)
    BY <1>0, <1>1, <1>3, <2>1 DEF Quietly, LookForRoot, Process, ShapeOf, Holding, Locking, Leave
  <2> QED
    BY <2>2, Quiet
<1> QED
  BY <1>0, <1>2, <1>3 DEF LookForRoot

LEMMA HeldListFeatures ==
  ASSUME NEW p \in Pid, Held, Types, Types', ListFeatures(p)
  PROVE  Held'
<1>0. proc[p] \in Process /\ ShapeOf(p, proc[p])
  BY DEF Types, Shape
<1>1. SameRoots /\ lockFile' = lockFile
  BY <1>0, Lengths DEF ListFeatures, SameRoots
<1>2. ASSUME Set(p, [proc[p] EXCEPT !.pc = "feature", !.features = SubdirsOf(<<Src(p)>>)])
      PROVE  Held'
  <2>1. proc'[p] = [proc[p] EXCEPT !.pc = "feature", !.features = SubdirsOf(<<Src(p)>>)] /\ Others(p)
    BY <1>2, Setting
  <2>2. Quietly(p)
    BY <1>0, <1>1, <1>2, <2>1 DEF Quietly, ListFeatures, Process, ShapeOf, Holding, Locking, Leave, LeaveDisturbed, GiveUp
  <2> QED
    BY <2>2, Quiet
<1>3. ASSUME Set(p, LeaveDisturbed(p))
      PROVE  Held'
  <2>1. proc'[p] = LeaveDisturbed(p) /\ Others(p)
    BY <1>3, Setting
  <2>2. Quietly(p)
    BY <1>0, <1>1, <1>3, <2>1 DEF Quietly, ListFeatures, Process, ShapeOf, Holding, Locking, Leave, LeaveDisturbed, GiveUp
  <2> QED
    BY <2>2, Quiet
<1>4. ASSUME Set(p, Leave(p))
      PROVE  Held'
  <2>1. proc'[p] = Leave(p) /\ Others(p)
    BY <1>4, Setting
  <2>2. Quietly(p)
    BY <1>0, <1>1, <1>4, <2>1 DEF Quietly, ListFeatures, Process, ShapeOf, Holding, Locking, Leave, LeaveDisturbed, GiveUp
  <2> QED
    BY <2>2, Quiet
<1> QED
  BY <1>0, <1>2, <1>3, <1>4 DEF ListFeatures, GiveUp

LEMMA HeldLookForFile ==
  ASSUME NEW p \in Pid, Held, Types, Types', LookForFile(p)
  PROVE  Held'
<1>0. proc[p] \in Process /\ ShapeOf(p, proc[p])
  BY DEF Types, Shape
<1>1. SameRoots /\ lockFile' = lockFile
  BY <1>0, Lengths DEF LookForFile, SameRoots
<1>2. ASSUME Set(p, [proc[p] EXCEPT !.files = proc[p].files \ {CHOOSE x \in proc[p].files : TRUE}])
      PROVE  Held'
  <2>1. proc'[p] = [proc[p] EXCEPT !.files = proc[p].files \ {CHOOSE x \in proc[p].files : TRUE}] /\ Others(p)
    BY <1>2, Setting
  <2>2. Quietly(p)
    BY <1>0, <1>1, <1>2, <2>1 DEF Quietly, LookForFile, Process, ShapeOf, Holding, Locking, Leave, LeaveDisturbed, GiveUp
  <2> QED
    BY <2>2, Quiet
<1>3. ASSUME Set(p, LeaveDisturbed(p))
      PROVE  Held'
  <2>1. proc'[p] = LeaveDisturbed(p) /\ Others(p)
    BY <1>3, Setting
  <2>2. Quietly(p)
    BY <1>0, <1>1, <1>3, <2>1 DEF Quietly, LookForFile, Process, ShapeOf, Holding, Locking, Leave, LeaveDisturbed, GiveUp
  <2> QED
    BY <2>2, Quiet
<1>4. ASSUME Set(p, [proc[p] EXCEPT !.pc = "move"])
      PROVE  Held'
  <2>1. proc'[p] = [proc[p] EXCEPT !.pc = "move"] /\ Others(p)
    BY <1>4, Setting
  <2>2. Quietly(p)
    BY <1>0, <1>1, <1>4, <2>1 DEF Quietly, LookForFile, Process, ShapeOf, Holding, Locking, Leave, LeaveDisturbed, GiveUp
  <2> QED
    BY <2>2, Quiet
<1> QED
  BY <1>0, <1>2, <1>3, <1>4 DEF LookForFile, GiveUp

LEMMA HeldMoveFile ==
  ASSUME NEW p \in Pid, Held, Types, Types', MoveFile(p)
  PROVE  Held'
<1>0. proc[p] \in Process /\ ShapeOf(p, proc[p])
  BY DEF Types, Shape
<1>1. SameRoots /\ lockFile' = lockFile
  BY <1>0, Lengths DEF MoveFile, SameRoots
<1>2. ASSUME Set(p, [proc[p] EXCEPT !.pc = "file", !.files = proc[p].files \ {CHOOSE x \in proc[p].files : TRUE}])
      PROVE  Held'
  <2>1. proc'[p] = [proc[p] EXCEPT !.pc = "file", !.files = proc[p].files \ {CHOOSE x \in proc[p].files : TRUE}] /\ Others(p)
    BY <1>2, Setting
  <2>2. Quietly(p)
    BY <1>0, <1>1, <1>2, <2>1 DEF Quietly, MoveFile, Process, ShapeOf, Holding, Locking, Leave, LeaveDisturbed, GiveUp
  <2> QED
    BY <2>2, Quiet
<1>3. ASSUME Set(p, LeaveDisturbed(p))
      PROVE  Held'
  <2>1. proc'[p] = LeaveDisturbed(p) /\ Others(p)
    BY <1>3, Setting
  <2>2. Quietly(p)
    BY <1>0, <1>1, <1>3, <2>1 DEF Quietly, MoveFile, Process, ShapeOf, Holding, Locking, Leave, LeaveDisturbed, GiveUp
  <2> QED
    BY <2>2, Quiet
<1>4. ASSUME Set(p, Leave(p))
      PROVE  Held'
  <2>1. proc'[p] = Leave(p) /\ Others(p)
    BY <1>4, Setting
  <2>2. Quietly(p)
    BY <1>0, <1>1, <1>4, <2>1 DEF Quietly, MoveFile, Process, ShapeOf, Holding, Locking, Leave, LeaveDisturbed, GiveUp
  <2> QED
    BY <2>2, Quiet
<1> QED
  BY <1>0, <1>2, <1>3, <1>4 DEF MoveFile, GiveUp

LEMMA HeldSweepFeature ==
  ASSUME NEW p \in Pid, Held, Types, Types', SweepFeature(p)
  PROVE  Held'
<1>0. proc[p] \in Process /\ ShapeOf(p, proc[p])
  BY DEF Types, Shape
<1>1. SameRoots /\ lockFile' = lockFile
  BY <1>0, Lengths DEF SweepFeature, SameRoots
<1>2. ASSUME Set(p, [proc[p] EXCEPT !.pc = "rmFeature"])
      PROVE  Held'
  <2>1. proc'[p] = [proc[p] EXCEPT !.pc = "rmFeature"] /\ Others(p)
    BY <1>2, Setting
  <2>2. Quietly(p)
    BY <1>0, <1>1, <1>2, <2>1 DEF Quietly, SweepFeature, Process, ShapeOf, Holding, Locking, Leave, LeaveDisturbed, GiveUp, SweepLoose
  <2> QED
    BY <2>2, Quiet
<1>3. ASSUME Set(p, LeaveDisturbed(p))
      PROVE  Held'
  <2>1. proc'[p] = LeaveDisturbed(p) /\ Others(p)
    BY <1>3, Setting
  <2>2. Quietly(p)
    BY <1>0, <1>1, <1>3, <2>1 DEF Quietly, SweepFeature, Process, ShapeOf, Holding, Locking, Leave, LeaveDisturbed, GiveUp, SweepLoose
  <2> QED
    BY <2>2, Quiet
<1> QED
  BY <1>0, <1>2, <1>3 DEF SweepFeature, GiveUp, SweepLoose

LEMMA HeldSweepProcess ==
  ASSUME NEW p \in Pid, Held, Types, Types', SweepProcess(p)
  PROVE  Held'
<1>0. proc[p] \in Process /\ ShapeOf(p, proc[p])
  BY DEF Types, Shape
<1>1. SameRoots /\ lockFile' = lockFile
  BY <1>0, Lengths DEF SweepProcess, SameRoots
<1>2. ASSUME Set(p, [proc[p] EXCEPT !.pc = "rmProcess"])
      PROVE  Held'
  <2>1. proc'[p] = [proc[p] EXCEPT !.pc = "rmProcess"] /\ Others(p)
    BY <1>2, Setting
  <2>2. Quietly(p)
    BY <1>0, <1>1, <1>2, <2>1 DEF Quietly, SweepProcess, Process, ShapeOf, Holding, Locking, Leave, LeaveDisturbed, GiveUp, SweepLoose
  <2> QED
    BY <2>2, Quiet
<1>3. ASSUME Set(p, LeaveDisturbed(p))
      PROVE  Held'
  <2>1. proc'[p] = LeaveDisturbed(p) /\ Others(p)
    BY <1>3, Setting
  <2>2. Quietly(p)
    BY <1>0, <1>1, <1>3, <2>1 DEF Quietly, SweepProcess, Process, ShapeOf, Holding, Locking, Leave, LeaveDisturbed, GiveUp, SweepLoose
  <2> QED
    BY <2>2, Quiet
<1> QED
  BY <1>0, <1>2, <1>3 DEF SweepProcess, GiveUp, SweepLoose

LEMMA HeldLeaveConsent ==
  ASSUME NEW p \in Pid, Held, Types, Types', LeaveConsent(p)
  PROVE  Held'
<1>0. proc[p] \in Process /\ ShapeOf(p, proc[p])
  BY DEF Types, Shape
<1>1. \E c \in Consent : /\ SrcConsent(p) = <<Src(p), Current(p), c>>
                       /\ DstConsent(p) = <<p, Current(p), c>>
  BY Ways DEF LeaveConsent
<1>2. SameRoots /\ lockFile' = lockFile
  BY <1>0, <1>1, Lengths DEF LeaveConsent, SameRoots, RemoveDir
<1>3. ASSUME Set(p, [proc[p] EXCEPT !.pc = "consent", !.consent = {}])
      PROVE  Held'
  <2>1. proc'[p] = [proc[p] EXCEPT !.pc = "consent", !.consent = {}] /\ Others(p)
    BY <1>3, Setting
  <2>2. Quietly(p)
    BY <1>0, <1>1, <1>2, <1>3, <2>1 DEF Quietly, LeaveConsent, Process, ShapeOf, Holding, Locking, Leave, LeaveDisturbed, GiveUp, RemoveDir
  <2> QED
    BY <2>2, Quiet
<1>4. ASSUME Set(p, LeaveDisturbed(p))
      PROVE  Held'
  <2>1. proc'[p] = LeaveDisturbed(p) /\ Others(p)
    BY <1>4, Setting
  <2>2. Quietly(p)
    BY <1>0, <1>1, <1>2, <1>4, <2>1 DEF Quietly, LeaveConsent, Process, ShapeOf, Holding, Locking, Leave, LeaveDisturbed, GiveUp, RemoveDir
  <2> QED
    BY <2>2, Quiet
<1>5. ASSUME Set(p, Leave(p))
      PROVE  Held'
  <2>1. proc'[p] = Leave(p) /\ Others(p)
    BY <1>5, Setting
  <2>2. Quietly(p)
    BY <1>0, <1>1, <1>2, <1>5, <2>1 DEF Quietly, LeaveConsent, Process, ShapeOf, Holding, Locking, Leave, LeaveDisturbed, GiveUp, RemoveDir
  <2> QED
    BY <2>2, Quiet
<1> QED
  BY <1>0, <1>1, <1>3, <1>4, <1>5 DEF LeaveConsent, GiveUp, RemoveDir

LEMMA HeldLeaveFeature ==
  ASSUME NEW p \in Pid, Held, Types, Types', LeaveFeature(p)
  PROVE  Held'
<1>0. proc[p] \in Process /\ ShapeOf(p, proc[p])
  BY DEF Types, Shape
<1>1. SrcFeature(p) = <<Src(p), Current(p)>>
  BY Ways DEF LeaveFeature, Filling
<1>2. SameRoots /\ lockFile' = lockFile
  BY <1>0, <1>1, Lengths DEF LeaveFeature, SameRoots, RemoveDir
<1>3. ASSUME Set(p, [proc[p] EXCEPT !.pc = "feature", !.feature = {}])
      PROVE  Held'
  <2>1. proc'[p] = [proc[p] EXCEPT !.pc = "feature", !.feature = {}] /\ Others(p)
    BY <1>3, Setting
  <2>2. Quietly(p)
    BY <1>0, <1>1, <1>2, <1>3, <2>1 DEF Quietly, LeaveFeature, Process, ShapeOf, Holding, Locking, Leave, LeaveDisturbed, GiveUp, RemoveDir
  <2> QED
    BY <2>2, Quiet
<1>4. ASSUME Set(p, LeaveDisturbed(p))
      PROVE  Held'
  <2>1. proc'[p] = LeaveDisturbed(p) /\ Others(p)
    BY <1>4, Setting
  <2>2. Quietly(p)
    BY <1>0, <1>1, <1>2, <1>4, <2>1 DEF Quietly, LeaveFeature, Process, ShapeOf, Holding, Locking, Leave, LeaveDisturbed, GiveUp, RemoveDir
  <2> QED
    BY <2>2, Quiet
<1>5. ASSUME Set(p, Leave(p))
      PROVE  Held'
  <2>1. proc'[p] = Leave(p) /\ Others(p)
    BY <1>5, Setting
  <2>2. Quietly(p)
    BY <1>0, <1>1, <1>2, <1>5, <2>1 DEF Quietly, LeaveFeature, Process, ShapeOf, Holding, Locking, Leave, LeaveDisturbed, GiveUp, RemoveDir
  <2> QED
    BY <2>2, Quiet
<1> QED
  BY <1>0, <1>1, <1>3, <1>4, <1>5 DEF LeaveFeature, GiveUp, RemoveDir

LEMMA HeldEnterFeature ==
  ASSUME NEW p \in Pid, Held, Types, Types', EnterFeature(p)
  PROVE  Held'
<1>0. proc[p] \in Process /\ ShapeOf(p, proc[p])
  BY DEF Types, Shape
<1>1. SameRoots /\ lockFile' = lockFile
  BY <1>0, Lengths DEF EnterFeature, SameRoots
<1>2. ASSUME NEW f \in proc[p].features, Set(p, [proc[p] EXCEPT !.pc = "consent", !.feature = {f}, !.features = proc[p].features \ {f}, !.consents = SubdirsOf(<<Src(p), f>>)])
      PROVE  Held'
  <2>1. proc'[p] = [proc[p] EXCEPT !.pc = "consent", !.feature = {f}, !.features = proc[p].features \ {f}, !.consents = SubdirsOf(<<Src(p), f>>)] /\ Others(p)
    BY <1>2, Setting
  <2>2. Quietly(p)
    BY <1>0, <1>1, <1>2, <2>1 DEF Quietly, EnterFeature, Process, ShapeOf, Holding, Locking, Leave, LeaveDisturbed, GiveUp
  <2> QED
    BY <2>2, Quiet
<1>3. ASSUME NEW f \in proc[p].features, Set(p, LeaveDisturbed(p))
      PROVE  Held'
  <2>1. proc'[p] = LeaveDisturbed(p) /\ Others(p)
    BY <1>3, Setting
  <2>2. Quietly(p)
    BY <1>0, <1>1, <1>3, <2>1 DEF Quietly, EnterFeature, Process, ShapeOf, Holding, Locking, Leave, LeaveDisturbed, GiveUp
  <2> QED
    BY <2>2, Quiet
<1> QED
  BY <1>0, <1>2, <1>3 DEF EnterFeature, GiveUp

LEMMA HeldEnterConsent ==
  ASSUME NEW p \in Pid, Held, Types, Types', EnterConsent(p)
  PROVE  Held'
<1>0. proc[p] \in Process /\ ShapeOf(p, proc[p])
  BY DEF Types, Shape
<1>1. SameRoots /\ lockFile' = lockFile
  BY <1>0, Lengths DEF EnterConsent, SameRoots
<1>2. ASSUME NEW c \in proc[p].consents, Set(p, [proc[p] EXCEPT !.pc = "file", !.consent = {c}, !.consents = proc[p].consents \ {c}, !.files = FilesIn(<<Src(p), Current(p), c>>)])
      PROVE  Held'
  <2>1. proc'[p] = [proc[p] EXCEPT !.pc = "file", !.consent = {c}, !.consents = proc[p].consents \ {c}, !.files = FilesIn(<<Src(p), Current(p), c>>)] /\ Others(p)
    BY <1>2, Setting
  <2>2. Quietly(p)
    BY <1>0, <1>1, <1>2, <2>1 DEF Quietly, EnterConsent, Process, ShapeOf, Holding, Locking, Leave, LeaveDisturbed, GiveUp
  <2> QED
    BY <2>2, Quiet
<1>3. ASSUME NEW c \in proc[p].consents, Set(p, LeaveDisturbed(p))
      PROVE  Held'
  <2>1. proc'[p] = LeaveDisturbed(p) /\ Others(p)
    BY <1>3, Setting
  <2>2. Quietly(p)
    BY <1>0, <1>1, <1>3, <2>1 DEF Quietly, EnterConsent, Process, ShapeOf, Holding, Locking, Leave, LeaveDisturbed, GiveUp
  <2> QED
    BY <2>2, Quiet
<1> QED
  BY <1>0, <1>2, <1>3 DEF EnterConsent, GiveUp

-----------------------------------------------------------------------------
(* Locks: the steps that take one or give it back, and that make or remove a root *)

LEMMA Basics ==
  ASSUME NEW r \in Pid, Types
  PROVE  /\ proc[r].src \subseteq Pid /\ r \notin proc[r].src
         /\ proc[r].pc \notin Engaged => proc[r].src = {}
         /\ proc[r].pc \in Holding <=> proc[r].fd # NoInode
         /\ proc[r].pc \in Locking <=> proc[r].locked
         /\ proc[r].pc \notin Outside => proc[r].owns
         /\ proc[r].pc \in {"off", "open", "lock"} => ~proc[r].owns
         /\ proc[r].owns => proc[r].own # NoInode
         /\ proc[r].pc = "lock" => proc[r].own # NoInode
         /\ proc[r].pc \notin {"lock"} /\ ~proc[r].owns => proc[r].own = NoInode
  BY DEF Types, Shape, ShapeOf, Process

LEMMA QuietFailure ==
  ASSUME NEW p \in Pid, NEW s, Held, Types, Types', Set(p, s), SameRoots, lockFile' = lockFile,
         s \in {Fail(p), Leave(p), LeaveDisturbed(p)}, proc[p].pc \notin {"off", "failed"}
  PROVE  Held'
<1>1. proc[p] \in Process
  BY DEF Types
<1>2. proc'[p] = s /\ Others(p)
  BY Setting
<1>3. s = Fail(p) => Quietly(p)
  BY <1>1, <1>2 DEF Quietly, Fail, Process
<1>4. s = Leave(p) => Quietly(p)
  BY <1>1, <1>2 DEF Quietly, Leave, Process
<1>5. s = LeaveDisturbed(p) => Quietly(p)
  BY <1>1, <1>2 DEF Quietly, Leave, LeaveDisturbed, Process
<1> QED
  BY <1>3, <1>4, <1>5, Quiet

LEMMA HeldOpenOwnLock ==
  ASSUME NEW p \in Pid, Held, Types, Types', OpenOwnLock(p)
  PROVE  Held'
<1> DEFINE s == [proc[p] EXCEPT !.pc = "lock", !.own = Opened(p)]
<1>1. CASE Fails /\ Set(p, Fail(p)) /\ UNCHANGED lockFile
  <2>1. SameRoots /\ proc[p].pc \notin {"off", "failed"}
    BY DEF OpenOwnLock, SameRoots
  <2> QED
    BY <1>1, <2>1, QuietFailure
<1>2. CASE lockFile' = [lockFile EXCEPT ![p] = Opened(p)] /\ Set(p, s)
  <2>1. proc'[p] = s /\ Others(p)
    BY <1>2, Setting
  <2>2. proc[p] \in Process
    BY DEF Types
  <2>3. /\ proc'[p].pc = "lock" /\ proc'[p].own = Opened(p) /\ proc'[p].src = proc[p].src
        /\ proc'[p].owns = proc[p].owns /\ proc'[p].fd = proc[p].fd /\ proc'[p].locked = proc[p].locked
    BY <2>1, <2>2 DEF Process
  <2> HIDE DEF s
  <2>4. /\ proc[p].pc = "open" /\ ~proc[p].owns /\ proc[p].src = {} /\ ~proc[p].locked
        /\ proc[p].own = NoInode
    BY Basics DEF OpenOwnLock, Engaged, Holding, Locking
  <2>5. /\ lockFile[p] # NoInode => Opened(p) = lockFile[p]
        /\ Opened(p) # NoInode
        /\ \A q \in Pid : lockFile[q] = Opened(p) => q = p
    BY <2>4, FreshExists DEF Opened, Held, OneHolder, Inode, NoInode
  <2>6. /\ lockFile'[p] = Opened(p) /\ \A q \in Pid : q # p => lockFile'[q] = lockFile[q]
    BY <1>2 DEF Types
  <2>7. OneHolder'
    <3>1. \A q, r \in Pid : lockFile'[q] = lockFile'[r] /\ lockFile'[q] # NoInode => q = r
      BY <2>5, <2>6 DEF Held, OneHolder
    <3>2. \A r \in Pid : proc'[r].own # NoInode => proc'[r].own = lockFile'[r]
      BY <2>1, <2>3, <2>6 DEF Others, Held, OneHolder
    <3>3. \A q, r \in Pid : proc'[q].owns /\ proc'[r].locked => proc'[q].own # proc'[r].fd
      BY <2>1, <2>3, <2>4 DEF Others, Held, OneHolder
    <3>4. \A q, r \in Pid :
            proc'[q].locked /\ proc'[r].locked /\ proc'[q].fd = proc'[r].fd => q = r
      BY <2>1, <2>3, <2>4 DEF Others, Held, OneHolder
    <3> QED
      BY <3>1, <3>2, <3>3, <3>4 DEF OneHolder
  <2>8. Engagement'
    <3> SUFFICES ASSUME NEW r \in Pid, NEW q \in proc'[r].src PROVE Knows(r, q)'
      BY DEF Engagement
    <3>1. r # p /\ proc'[r] = proc[r] /\ q \in Pid /\ Knows(r, q) /\ dirs' = dirs
      BY <2>1, <2>3, <2>4, Basics DEF Others, Held, Engagement, OpenOwnLock
    <3>2. proc[r].pc \in Holding => proc[r].fd # NoInode
      BY Basics
    <3>3. CASE q = p
      BY <2>3, <2>4, <2>5, <2>6, <3>1, <3>2, <3>3 DEF Knows, Vacant
    <3>4. CASE q # p
      BY <2>1, <2>6, <3>1, <3>4 DEF Knows, Vacant, Others
    <3> QED
      BY <3>3, <3>4
  <2>9. Rooted'
    BY <2>1, <2>3 DEF Rooted, Held, Others, OpenOwnLock, Outside
  <2> QED
    BY <2>7, <2>8, <2>9 DEF Held
<1> QED
  BY <1>1, <1>2 DEF OpenOwnLock

LEMMA HeldTakeOwnLock ==
  ASSUME NEW p \in Pid, Held, Types, Types', TakeOwnLock(p)
  PROVE  Held'
<1> DEFINE s == [proc[p] EXCEPT !.pc = "list", !.owns = TRUE]
<1>0. /\ proc[p].pc = "lock" /\ ~proc[p].owns /\ proc[p].src = {} /\ ~proc[p].locked
      /\ proc[p].own = lockFile[p] /\ lockFile' = lockFile /\ dirs' = dirs /\ proc[p] \in Process
  BY Basics DEF TakeOwnLock, Engaged, Holding, Locking, Held, OneHolder, Types
<1>1. CASE Set(p, [Fail(p) EXCEPT !.own = NoInode])
  <2>1. SameRoots
    BY <1>0 DEF SameRoots
  <2>2. proc'[p] = [Fail(p) EXCEPT !.own = NoInode] /\ Others(p)
    BY <1>1, Setting
  <2>3. Quietly(p)
    BY <1>0, <2>1, <2>2 DEF Quietly, Fail, Process
  <2> QED
    BY <2>3, Quiet
<1>2. CASE Free(proc[p].own) /\ Set(p, s)
  <2>1. proc'[p] = s /\ Others(p)
    BY <1>2, Setting
  <2>2. /\ proc'[p].pc = "list" /\ proc'[p].own = proc[p].own /\ proc'[p].src = proc[p].src
        /\ proc'[p].owns /\ proc'[p].locked = proc[p].locked /\ proc'[p].pass = proc[p].pass
    BY <1>0, <2>1 DEF Process
  <2> HIDE DEF s
  <2>3. \A r \in Pid : proc[r].locked => proc[r].fd # lockFile[p]
    BY <1>0, <1>2 DEF Free, LockedBy
  <2>4. OneHolder'
    <3>1. \A q, r \in Pid : lockFile'[q] = lockFile'[r] /\ lockFile'[q] # NoInode => q = r
      BY <1>0 DEF Held, OneHolder
    <3>2. \A r \in Pid : proc'[r].own # NoInode => proc'[r].own = lockFile'[r]
      BY <1>0, <2>1, <2>2 DEF Others, Held, OneHolder
    <3>3. \A q, r \in Pid : proc'[q].owns /\ proc'[r].locked => proc'[q].own # proc'[r].fd
      BY <1>0, <2>1, <2>2, <2>3 DEF Others, Held, OneHolder
    <3>4. \A q, r \in Pid :
            proc'[q].locked /\ proc'[r].locked /\ proc'[q].fd = proc'[r].fd => q = r
      BY <1>0, <2>1, <2>2 DEF Others, Held, OneHolder
    <3> QED
      BY <3>1, <3>2, <3>3, <3>4 DEF OneHolder
  <2>5. Engagement'
    <3> SUFFICES ASSUME NEW r \in Pid, NEW q \in proc'[r].src PROVE Knows(r, q)'
      BY DEF Engagement
    <3>1. r # p /\ proc'[r] = proc[r] /\ q \in Pid /\ Knows(r, q)
      BY <1>0, <2>1, <2>2, Basics DEF Others, Held, Engagement
    <3>2. CASE q = p
      <4>1. ~Vacant(p)
        BY <1>0 DEF Vacant
      <4>2. proc[r].pc \notin Locking
        BY <2>3, <3>1, <3>2, <4>1, Basics DEF Knows, Holding
      <4>3. proc[r].pc # "unlink"
        BY <1>0, <3>1, <3>2 DEF Knows
      <4> QED
        BY <1>0, <3>1, <3>2, <4>1, <4>2, <4>3 DEF Knows, Locking
    <3>3. CASE q # p
      BY <1>0, <2>1, <3>1, <3>3 DEF Knows, Vacant, Others
    <3> QED
      BY <3>2, <3>3
  <2>6. Rooted'
    <3>1. proc[p].pass = "rename"
      BY <1>0 DEF Types, Shape, ShapeOf
    <3> QED
      BY <1>0, <2>1, <2>2, <3>1 DEF Rooted, Held, Others
  <2> QED
    BY <2>4, <2>5, <2>6 DEF Held
<1> QED
  BY <1>1, <1>2 DEF TakeOwnLock

LEMMA HeldCreateProcessRoot ==
  ASSUME NEW p \in Pid, Held, Types, Types', CreateProcessRoot(p)
  PROVE  Held'
<1> DEFINE s == [proc[p] EXCEPT !.pc = "list", !.pass = "move"]
<1>0. /\ proc[p].pc = "mkdir" /\ proc[p].owns /\ proc[p].src = {}
      /\ lockFile' = lockFile /\ proc[p] \in Process
  BY Basics DEF CreateProcessRoot, Engaged, Holding, Locking, Outside, Types
<1>1. CASE Set(p, Fail(p)) /\ UNCHANGED dirs
  <2>1. SameRoots
    BY <1>1 DEF SameRoots
  <2> QED
    BY <1>0, <1>1, <2>1, QuietFailure
<1>2. CASE dirs' = dirs \cup {<<p>>} /\ Set(p, s)
  <2>1. proc'[p] = s /\ Others(p)
    BY <1>2, Setting
  <2>2. /\ proc'[p].pc = "list" /\ proc'[p].own = proc[p].own /\ proc'[p].src = proc[p].src
        /\ proc'[p].fd = proc[p].fd
    BY <1>0, <2>1 DEF Process
  <2>8. proc'[p].owns = proc[p].owns
    BY <1>0, <2>1 DEF Process
  <2>9. proc'[p].locked = proc[p].locked
    BY <1>0, <2>1 DEF Process
  <2> HIDE DEF s
  <2>3. \A q \in Pid : q # p => (<<q>> \in dirs' <=> <<q>> \in dirs)
    BY <1>2
  <2>4. \A r \in Pid : /\ proc'[r].own = proc[r].own /\ proc'[r].owns = proc[r].owns
                       /\ proc'[r].locked = proc[r].locked /\ proc'[r].fd = proc[r].fd
    BY <2>1, <2>2, <2>8, <2>9 DEF Others
  <2>5. OneHolder'
    BY <1>0, <2>4 DEF Held, OneHolder
  <2>6. Engagement'
    <3> SUFFICES ASSUME NEW r \in Pid, NEW q \in proc'[r].src PROVE Knows(r, q)'
      BY DEF Engagement
    <3>1. r # p /\ proc'[r] = proc[r] /\ q \in Pid /\ Knows(r, q)
      BY <1>0, <2>1, <2>2, Basics DEF Others, Held, Engagement
    <3>2. CASE q = p
      <4>1. ~Vacant(p)
        BY <1>0 DEF Vacant
      <4>2. proc[r].pc \notin Locking \cup {"unlink"}
        BY <1>0, <3>1, <3>2 DEF Knows
      <4> QED
        BY <1>0, <3>1, <3>2, <4>1, <4>2 DEF Knows, Locking
    <3>3. CASE q # p
      BY <1>0, <2>1, <2>3, <3>1, <3>3 DEF Knows, Vacant, Others
    <3> QED
      BY <3>2, <3>3
  <2>7. Rooted'
    BY <1>2, <2>1, <2>3 DEF Rooted, Held, Others
  <2> QED
    BY <2>5, <2>6, <2>7 DEF Held
<1> QED
  BY <1>1, <1>2 DEF CreateProcessRoot

LEMMA HeldOpenAbandonedLock ==
  ASSUME NEW p \in Pid, Held, Types, Types', OpenAbandonedLock(p)
  PROVE  Held'
<1>0. /\ proc[p].pc = "scan" /\ proc[p].src = {} /\ ~proc[p].locked /\ proc[p].fd = NoInode
      /\ dirs' = dirs /\ proc[p] \in Process /\ proc[p].subdirs \subseteq Pid
      /\ p \notin proc[p].subdirs
  BY Basics DEF OpenAbandonedLock, Engaged, Holding, Locking, Types, Process, Shape, ShapeOf
<1>1. ASSUME NEW q0 \in proc[p].subdirs, UNCHANGED lockFile,
             Set(p, [proc[p] EXCEPT !.subdirs = proc[p].subdirs \ {q0}, !.alone = FALSE])
      PROVE  Held'
  <2>1. proc'[p] = [proc[p] EXCEPT !.subdirs = proc[p].subdirs \ {q0}, !.alone = FALSE] /\ Others(p)
    BY <1>1, Setting
  <2>2. SameRoots
    BY <1>0 DEF SameRoots
  <2>3. Quietly(p)
    BY <1>0, <1>1, <2>1, <2>2 DEF Quietly, Process
  <2> QED
    BY <2>3, Quiet
<1>2. ASSUME NEW q0 \in proc[p].subdirs, lockFile' = [lockFile EXCEPT ![q0] = Opened(q0)],
             Set(p, [proc[p] EXCEPT !.pc = "try", !.subdirs = proc[p].subdirs \ {q0},
                                    !.src = {q0}, !.fd = Opened(q0)])
      PROVE  Held'
  <2> DEFINE s == [proc[p] EXCEPT !.pc = "try", !.subdirs = proc[p].subdirs \ {q0},
                                  !.src = {q0}, !.fd = Opened(q0)]
  <2>1. proc'[p] = s /\ Others(p)
    BY <1>2, Setting
  <2>2. /\ proc'[p].pc = "try" /\ proc'[p].own = proc[p].own /\ proc'[p].src = {q0}
        /\ proc'[p].fd = Opened(q0) /\ proc'[p].pass = proc[p].pass
    BY <1>0, <2>1 DEF Process
  <2>3. proc'[p].owns = proc[p].owns
    BY <1>0, <2>1 DEF Process
  <2>4. ~proc'[p].locked
    BY <1>0, <2>1 DEF Process
  <2> HIDE DEF s
  <2>5. q0 \in Pid /\ q0 # p
    BY <1>0
  <2>6. /\ lockFile[q0] # NoInode => Opened(q0) = lockFile[q0]
        /\ Opened(q0) # NoInode
        /\ \A q \in Pid : lockFile[q] = Opened(q0) => q = q0
    BY <1>0, <2>5, FreshExists DEF Opened, Held, OneHolder, Inode, NoInode
  <2>7. /\ lockFile'[q0] = Opened(q0) /\ \A q \in Pid : q # q0 => lockFile'[q] = lockFile[q]
    BY <1>2, <2>5 DEF Types
  <2>8. OneHolder'
    <3>1. \A q, r \in Pid : lockFile'[q] = lockFile'[r] /\ lockFile'[q] # NoInode => q = r
      BY <2>6, <2>7 DEF Held, OneHolder
    <3>2. \A r \in Pid : proc'[r].own # NoInode => proc'[r].own = lockFile'[r]
      BY <2>1, <2>2, <2>6, <2>7 DEF Others, Held, OneHolder
    <3>3. \A q, r \in Pid : proc'[q].owns /\ proc'[r].locked => proc'[q].own # proc'[r].fd
      BY <2>1, <2>2, <2>3, <2>4 DEF Others, Held, OneHolder
    <3>4. \A q, r \in Pid :
            proc'[q].locked /\ proc'[r].locked /\ proc'[q].fd = proc'[r].fd => q = r
      BY <2>1, <2>4 DEF Others, Held, OneHolder
    <3> QED
      BY <3>1, <3>2, <3>3, <3>4 DEF OneHolder
  <2>9. Engagement'
    <3> SUFFICES ASSUME NEW r \in Pid, NEW q \in proc'[r].src PROVE Knows(r, q)'
      BY DEF Engagement
    <3>1. CASE r = p
      BY <2>2, <2>7, <3>1 DEF Knows, Locking
    <3>2. CASE r # p
      <4>1. proc'[r] = proc[r] /\ q \in Pid /\ Knows(r, q)
        BY <2>1, <3>2, Basics DEF Others, Held, Engagement
      <4>2. proc[r].pc \in Holding => proc[r].fd # NoInode
        BY Basics
      <4>3. CASE q = p
        BY <1>0, <2>2, <2>3, <2>5, <2>7, <4>1, <4>3 DEF Knows, Vacant
      <4>4. CASE q # p
        <5>1. proc'[q] = proc[q] /\ (Vacant(q) => Vacant(q)')
          BY <1>0, <2>1, <4>1, <4>4 DEF Others, Vacant
        <5>2. proc[r].pc \in Holding => proc[r].fd = lockFile'[q] \/ Vacant(q)'
          BY <2>6, <2>7, <4>1, <4>2, <5>1 DEF Knows
        <5> QED
          BY <1>0, <4>1, <5>1, <5>2 DEF Knows
      <4> QED
        BY <4>3, <4>4
    <3> QED
      BY <3>1, <3>2
  <2>10. Rooted'
    BY <1>0, <2>1, <2>2 DEF Rooted, Held, Others, Outside
  <2> QED
    BY <2>8, <2>9, <2>10 DEF Held
<1> QED
  BY <1>1, <1>2 DEF OpenAbandonedLock

LEMMA HeldTakeAbandonedLock ==
  ASSUME NEW p \in Pid, Held, Types, Types', TakeAbandonedLock(p)
  PROVE  Held'
<1>0. /\ proc[p].pc = "try" /\ ~proc[p].locked /\ proc[p].fd # NoInode
      /\ lockFile' = lockFile /\ dirs' = dirs /\ proc[p] \in Process
  BY Basics DEF TakeAbandonedLock, Holding, Locking, Types
<1>1. CASE Set(p, Leave(p))
  <2>1. SameRoots
    BY <1>0 DEF SameRoots
  <2> QED
    BY <1>0, <1>1, <2>1, QuietFailure
<1> DEFINE s == [proc[p] EXCEPT !.locked = TRUE,
                                !.pc = IF proc[p].pass = "rename" THEN "stat" ELSE "features"]
<1>2. CASE Free(proc[p].fd) /\ Set(p, s)
  <2>1. proc'[p] = s /\ Others(p)
    BY <1>2, Setting
  <2>2. /\ proc'[p].pc \in {"stat", "features"} /\ proc'[p].own = proc[p].own
        /\ proc'[p].src = proc[p].src /\ proc'[p].fd = proc[p].fd /\ proc'[p].pass = proc[p].pass
    BY <1>0, <2>1 DEF Process
  <2>3. proc'[p].owns = proc[p].owns
    BY <1>0, <2>1 DEF Process
  <2> HIDE DEF s
  <2>4. \A r \in Pid : /\ proc[r].locked => proc[r].fd # proc[p].fd
                       /\ proc[r].owns => proc[r].own # proc[p].fd
    BY <1>0, <1>2 DEF Free, LockedBy
  <2>5. OneHolder'
    <3>1. \A q, r \in Pid : lockFile'[q] = lockFile'[r] /\ lockFile'[q] # NoInode => q = r
      BY <1>0 DEF Held, OneHolder
    <3>2. \A r \in Pid : proc'[r].own # NoInode => proc'[r].own = lockFile'[r]
      BY <1>0, <2>1, <2>2 DEF Others, Held, OneHolder
    <3>3. \A q, r \in Pid : proc'[q].owns /\ proc'[r].locked => proc'[q].own # proc'[r].fd
      <4> SUFFICES ASSUME NEW q \in Pid, NEW r \in Pid, proc'[q].owns, proc'[r].locked
                   PROVE  proc'[q].own # proc'[r].fd
        OBVIOUS
      <4>1. proc[q].owns /\ proc'[q].own = proc[q].own /\ proc'[r].fd = proc[r].fd
        BY <2>1, <2>2, <2>3 DEF Others
      <4>2. r = p \/ proc[r].locked
        BY <2>1 DEF Others
      <4> QED
        BY <2>4, <4>1, <4>2 DEF Held, OneHolder
    <3>4. \A q, r \in Pid :
            proc'[q].locked /\ proc'[r].locked /\ proc'[q].fd = proc'[r].fd => q = r
      BY <2>1, <2>2, <2>4 DEF Others, Held, OneHolder
    <3> QED
      BY <3>1, <3>2, <3>3, <3>4 DEF OneHolder
  <2>6. Engagement'
    <3> SUFFICES ASSUME NEW r \in Pid, NEW q \in proc'[r].src PROVE Knows(r, q)'
      BY DEF Engagement
    <3>1. q \in Pid /\ q # r /\ q \in proc[r].src /\ Knows(r, q)
      BY <2>1, <2>2, Basics DEF Others, Held, Engagement
    <3>2. (proc'[q].owns => proc[q].owns) /\ (Vacant(q) => Vacant(q)') /\ (Vacant(q) => ~proc[q].owns)
      BY <1>0, <2>1, <2>3, <3>1 DEF Others, Vacant
    <3>3. CASE r = p
      <4>1. proc[p].fd = lockFile[q] \/ Vacant(q)
        BY <1>0, <3>1, <3>3 DEF Knows, Holding
      <4>2. ~proc[q].owns
        <5>1. proc[q].owns => proc[q].own = lockFile[q]
          BY <3>1, Basics DEF Held, OneHolder
        <5> QED
          BY <2>4, <3>1, <3>2, <4>1, <5>1
      <4> QED
        BY <1>0, <2>2, <3>2, <3>3, <4>1, <4>2 DEF Knows
    <3>4. CASE r # p
      <4>1. proc'[r] = proc[r]
        BY <2>1, <3>4 DEF Others
      <4>2. proc[r].pc = "unlink" => q # p
        BY <1>0, <3>1 DEF Knows
      <4>3. proc'[r].pc = "unlink" => proc'[q].pc \in {"off", "failed"}
        BY <2>1, <3>1, <4>1, <4>2 DEF Others, Knows
      <4> QED
        BY <1>0, <3>1, <3>2, <4>1, <4>3 DEF Knows
    <3> QED
      BY <3>3, <3>4
  <2>7. Rooted'
    BY <1>0, <2>1, <2>2 DEF Rooted, Held, Others, Outside
  <2> QED
    BY <2>5, <2>6, <2>7 DEF Held
<1> QED
  BY <1>1, <1>2 DEF TakeAbandonedLock

LEMMA HeldCloseLock ==
  ASSUME NEW p \in Pid, ReusedInPeace, Held, Types, Types', CloseLock(p)
  PROVE  Held'
<1> DEFINE s == [proc[p] EXCEPT !.pc = "unlink", !.fd = NoInode, !.locked = FALSE]
<1>0. /\ proc[p].pc = "close" /\ proc[p].src = {Src(p)} /\ Src(p) \in Pid /\ Src(p) # p
      /\ lockFile' = lockFile /\ dirs' = dirs /\ proc[p] \in Process
      /\ proc[Src(p)].pc \notin {"open", "lock"}
  BY Engaging DEF CloseLock, ReleaseAtPeace, Engaged, Holding, Locking, Types
<1>1. proc'[p] = s /\ Others(p)
  BY Setting DEF CloseLock
<1>2. /\ proc'[p].pc = "unlink" /\ proc'[p].own = proc[p].own /\ proc'[p].src = proc[p].src
      /\ proc'[p].fd = NoInode /\ proc'[p].pass = proc[p].pass
  BY <1>0, <1>1 DEF Process
<1>3. proc'[p].owns = proc[p].owns
  BY <1>0, <1>1 DEF Process
<1>4. ~proc'[p].locked
  BY <1>0, <1>1 DEF Process
<1> HIDE DEF s
<1>5. OneHolder'
  <2>1. \A q, r \in Pid : lockFile'[q] = lockFile'[r] /\ lockFile'[q] # NoInode => q = r
    BY <1>0 DEF Held, OneHolder
  <2>2. \A r \in Pid : proc'[r].own # NoInode => proc'[r].own = lockFile'[r]
    BY <1>0, <1>1, <1>2 DEF Others, Held, OneHolder
  <2>3. \A q, r \in Pid : proc'[q].owns /\ proc'[r].locked => proc'[q].own # proc'[r].fd
    BY <1>1, <1>2, <1>3, <1>4 DEF Others, Held, OneHolder
  <2>4. \A q, r \in Pid :
          proc'[q].locked /\ proc'[r].locked /\ proc'[q].fd = proc'[r].fd => q = r
    BY <1>1, <1>4 DEF Others, Held, OneHolder
  <2> QED
    BY <2>1, <2>2, <2>3, <2>4 DEF OneHolder
<1>6. Engagement'
  <2> SUFFICES ASSUME NEW r \in Pid, NEW q \in proc'[r].src PROVE Knows(r, q)'
    BY DEF Engagement
  <2>1. q \in Pid /\ q # r /\ q \in proc[r].src /\ Knows(r, q)
    BY <1>1, <1>2, Basics DEF Others, Held, Engagement
  <2>2. (proc'[q].owns => proc[q].owns) /\ (Vacant(q) => Vacant(q)')
    BY <1>0, <1>1, <1>3, <2>1 DEF Others, Vacant
  <2>3. CASE r = p
    <3>1. q = Src(p) /\ proc'[q] = proc[q]
      BY <1>0, <1>1, <2>1, <2>3 DEF Others
    <3>2. ~proc[q].owns /\ <<q>> \notin dirs
      BY <1>0, <2>1, <2>3 DEF Knows, Locking
    <3>3. proc[q].pc \in {"off", "failed"}
      BY <1>0, <2>1, <3>1, <3>2, Basics DEF Outside
    <3> QED
      BY <1>0, <1>2, <2>3, <3>1, <3>2, <3>3 DEF Knows, Holding, Locking
  <2>4. CASE r # p
    <3>1. proc'[r] = proc[r]
      BY <1>1, <2>4 DEF Others
    <3>2. proc[r].pc = "unlink" => q # p
      BY <1>0, <2>1 DEF Knows
    <3>3. proc'[r].pc = "unlink" => proc'[q].pc \in {"off", "failed"}
      BY <1>1, <2>1, <3>1, <3>2 DEF Others, Knows
    <3> QED
      BY <1>0, <2>1, <2>2, <3>1, <3>3 DEF Knows
  <2> QED
    BY <2>3, <2>4
<1>7. Rooted'
  BY <1>0, <1>1, <1>2 DEF Rooted, Held, Others, Outside
<1> QED
  BY <1>5, <1>6, <1>7 DEF Held

LEMMA HeldDeleteLock ==
  ASSUME NEW p \in Pid, Held, Types, Types', DeleteLock(p)
  PROVE  Held'
<1> DEFINE s == IF proc[p].pass = "rename"
                  THEN [Leave(p) EXCEPT !.pc = "list", !.pass = "move", !.subdirs = {}]
                  ELSE Leave(p)
<1>0. /\ proc[p].pc = "unlink" /\ proc[p].src = {Src(p)} /\ Src(p) \in Pid /\ Src(p) # p
      /\ dirs' = dirs /\ proc[p] \in Process /\ proc[p].owns /\ ~proc[p].locked
  BY Engaging, Basics DEF DeleteLock, Engaged, Holding, Locking, Outside, Types
<1>1. proc'[p] = s /\ Others(p)
  BY Setting DEF DeleteLock
<1>2. /\ proc'[p].pc \in {"list", "scan"} /\ proc'[p].own = proc[p].own /\ proc'[p].src = {}
      /\ proc'[p].fd = NoInode
  BY <1>0, <1>1 DEF Leave, Process
<1>3. proc'[p].owns = proc[p].owns
  BY <1>0, <1>1 DEF Leave, Process
<1>4. ~proc'[p].locked
  BY <1>0, <1>1 DEF Leave, Process
<1> HIDE DEF s
<1>5. /\ \A q \in Pid : lockFile'[q] = lockFile[q] \/ lockFile'[q] = NoInode
      /\ \A q \in Pid : q # Src(p) => lockFile'[q] = lockFile[q]
  BY <1>0 DEF DeleteLock, Types
<1>6. /\ <<p>> \in dirs /\ ~proc[Src(p)].owns /\ proc[Src(p)].pc \in {"off", "failed"}
      /\ <<Src(p)>> \notin dirs
  BY <1>0 DEF Held, Engagement, Knows, Rooted, Outside
<1>7. OneHolder'
  <2>1. \A q, r \in Pid : lockFile'[q] = lockFile'[r] /\ lockFile'[q] # NoInode => q = r
    BY <1>5 DEF Held, OneHolder
  <2>2. ASSUME NEW r \in Pid, proc'[r].own # NoInode PROVE proc'[r].own = lockFile'[r]
    <3>1. proc'[r].own = proc[r].own /\ proc[r].own = lockFile[r]
      BY <1>1, <1>2, <2>2 DEF Others, Held, OneHolder
    <3>2. r # Src(p)
      BY <1>0, <1>6, <2>2, <3>1, Basics
    <3> QED
      BY <1>5, <3>1, <3>2
  <2>3. \A q, r \in Pid : proc'[q].owns /\ proc'[r].locked => proc'[q].own # proc'[r].fd
    BY <1>1, <1>2, <1>3, <1>4 DEF Others, Held, OneHolder
  <2>4. \A q, r \in Pid :
          proc'[q].locked /\ proc'[r].locked /\ proc'[q].fd = proc'[r].fd => q = r
    BY <1>1, <1>4 DEF Others, Held, OneHolder
  <2> QED
    BY <2>1, <2>2, <2>3, <2>4 DEF OneHolder
<1>8. Engagement'
  <2> SUFFICES ASSUME NEW r \in Pid, NEW q \in proc'[r].src PROVE Knows(r, q)'
    BY DEF Engagement
  <2>1. r # p /\ proc'[r] = proc[r] /\ q \in Pid /\ Knows(r, q)
    BY <1>1, <1>2, Basics DEF Others, Held, Engagement
  <2>2. CASE q = p
    <3>1. proc[r].pc \notin Locking \cup {"unlink"} /\ ~Vacant(p) /\ lockFile'[p] = lockFile[p]
      BY <1>0, <1>5, <2>1, <2>2 DEF Knows, Vacant
    <3> QED
      BY <1>0, <2>1, <2>2, <3>1 DEF Knows, Locking
  <2>3. CASE q # p
    <3>1. proc'[q] = proc[q] /\ (Vacant(q)' <=> Vacant(q)) /\ (q = Src(p) => Vacant(q))
      BY <1>0, <1>1, <1>6, <2>1, <2>3 DEF Others, Vacant
    <3>2. proc[r].pc \in Holding => proc[r].fd = lockFile'[q] \/ Vacant(q)'
      BY <1>5, <2>1, <3>1 DEF Knows
    <3> QED
      BY <1>0, <2>1, <3>1, <3>2 DEF Knows
  <2> QED
    BY <2>2, <2>3
<1>9. Rooted'
  BY <1>0, <1>1, <1>2, <1>6 DEF Rooted, Held, Others
<1> QED
  BY <1>7, <1>8, <1>9 DEF Held

\* The roots after a step that only makes and removes them.
LEMMA HeldRoots ==
  ASSUME NEW p \in Pid, Held, Types, Types', lockFile' = lockFile,
         proc[p].src = {Src(p)}, Src(p) \in Pid, Src(p) # p, proc[p].pc \in Locking,
         Set(p, [proc[p] EXCEPT !.pc = "close"]),
         <<p>> \in dirs', <<Src(p)>> \notin dirs',
         \A q \in Pid : q \notin {p, Src(p)} => (<<q>> \in dirs' <=> <<q>> \in dirs)
  PROVE  Held'
<1> DEFINE s == [proc[p] EXCEPT !.pc = "close"]
<1>0. proc[p] \in Process /\ proc[p].owns
  BY Basics DEF Types, Locking, Outside
<1>1. proc'[p] = s /\ Others(p)
  BY Setting
<1>2. /\ proc'[p].pc = "close" /\ proc'[p].own = proc[p].own /\ proc'[p].src = proc[p].src
      /\ proc'[p].fd = proc[p].fd /\ proc'[p].pass = proc[p].pass
  BY <1>0, <1>1 DEF Process
<1>3. proc'[p].owns = proc[p].owns
  BY <1>0, <1>1 DEF Process
<1>4. proc'[p].locked = proc[p].locked
  BY <1>0, <1>1 DEF Process
<1> HIDE DEF s
<1>5. OneHolder'
  <2>1. \A r \in Pid : /\ proc'[r].own = proc[r].own /\ proc'[r].owns = proc[r].owns
                       /\ proc'[r].locked = proc[r].locked /\ proc'[r].fd = proc[r].fd
    BY <1>1, <1>2, <1>3, <1>4 DEF Others
  <2> QED
    BY <2>1 DEF Held, OneHolder
<1>6. ~proc[Src(p)].owns
  BY DEF Held, Engagement, Knows
<1>7. Engagement'
  <2> SUFFICES ASSUME NEW r \in Pid, NEW q \in proc'[r].src PROVE Knows(r, q)'
    BY DEF Engagement
  <2>1. q \in Pid /\ q # r /\ q \in proc[r].src /\ Knows(r, q)
    BY <1>1, <1>2, Basics DEF Others, Held, Engagement
  <2>2. CASE r = p
    <3>1. q = Src(p) /\ proc'[q] = proc[q]
      BY <1>1, <2>1, <2>2 DEF Others
    <3>2. proc[p].fd = lockFile[q] \/ Vacant(q)'
      BY <2>1, <2>2, <3>1 DEF Knows, Holding, Vacant
    <3> QED
      BY <1>2, <1>6, <2>2, <3>1, <3>2 DEF Knows
  <2>3. CASE r # p
    <3>1. proc'[r] = proc[r]
      BY <1>1, <2>3 DEF Others
    <3>2. CASE q = p
      <4>1. proc[r].pc \notin Locking \cup {"unlink"}
        BY <1>0, <2>1, <3>2 DEF Knows
      <4>2. ~Vacant(p)
        BY <1>0 DEF Vacant
      <4> QED
        BY <2>1, <3>1, <3>2, <4>1, <4>2 DEF Knows, Locking
    <3>3. CASE q # p
      <4>1. proc'[q] = proc[q] /\ (<<q>> \notin dirs => <<q>> \notin dirs')
        BY <1>1, <2>1, <3>3 DEF Others
      <4> QED
        BY <2>1, <3>1, <4>1 DEF Knows, Vacant
    <3> QED
      BY <3>2, <3>3
  <2> QED
    BY <2>2, <2>3
<1>8. Rooted'
  <2> SUFFICES ASSUME NEW r \in Pid, r # p, proc[r].pc \notin Outside,
                      proc[r].pass = "move" \/ proc[r].pc \in {"close", "unlink"}
               PROVE  <<r>> \in dirs'
    BY <1>1 DEF Rooted, Others
  <2>1. r # Src(p)
    BY <1>6, Basics
  <2> QED
    BY <2>1 DEF Held, Rooted
<1> QED
  BY <1>5, <1>7, <1>8 DEF Held

LEMMA HeldRenameRoot ==
  ASSUME NEW p \in Pid, Held, Types, Types', RenameRoot(p)
  PROVE  Held'
<1>0. /\ proc[p].pc = "rename" /\ proc[p].src = {Src(p)} /\ Src(p) \in Pid /\ Src(p) # p
      /\ lockFile' = lockFile
  BY Engaging DEF RenameRoot, Engaged, Holding, Locking
<1>1. CASE UNCHANGED dirs /\ (Set(p, Leave(p)) \/ Set(p, LeaveDisturbed(p)))
  <2>1. SameRoots
    BY <1>1 DEF SameRoots
  <2> QED
    BY <1>0, <1>1, <2>1, QuietFailure
<1>2. CASE /\ <<Src(p)>> \in dirs
           /\ dirs' = {Moved(d, Src(p), p) : d \in dirs}
           /\ Set(p, [proc[p] EXCEPT !.pc = "close"])
  <2>1. Moved(<<Src(p)>>, Src(p), p) = <<p>>
    BY <1>0, Renaming
  <2>2. <<p>> \in dirs'
    BY <1>2, <2>1
  <2>3. \A q \in Pid : q \notin {p, Src(p)} /\ <<q>> \in dirs => <<q>> \in dirs'
    <3>1. \A q \in Pid : q # Src(p) => Moved(<<q>>, Src(p), p) = <<q>>
      <4>1. \A q \in Pid : Moved(<<q>>, Src(p), p) = IF q = Src(p) THEN <<p>> ELSE <<q>>
        BY <1>0, Renaming
      <4> QED
        BY <4>1
    <3> QED
      BY <1>2, <3>1
  <2>4. ASSUME NEW q \in Pid, q # p, <<q>> \in dirs'
        PROVE  q # Src(p) /\ <<q>> \in dirs
    <3>1. PICK d \in dirs : <<q>> = Moved(d, Src(p), p)
      BY <1>2, <2>4
    <3>2. CASE \E r \in Pid : d = <<r>>
      <4>1. PICK r \in Pid : d = <<r>>
        BY <3>2
      <4>2. <<q>> = IF r = Src(p) THEN <<p>> ELSE <<r>>
        BY <1>0, <3>1, <4>1, Renaming
      <4> QED
        BY <2>4, <4>1, <4>2
    <3>3. CASE \E r \in Pid, f \in Feature : d = <<r, f>>
      <4>1. PICK r \in Pid, f \in Feature : d = <<r, f>>
        BY <3>3
      <4>2. Moved(<<r, f>>, Src(p), p) = IF r = Src(p) THEN <<p, f>> ELSE <<r, f>>
        BY <1>0, RenamedFeature
      <4> QED
        BY <3>1, <4>1, <4>2, Lengths
    <3>4. CASE \E r \in Pid, f \in Feature, c \in Consent : d = <<r, f, c>>
      <4>1. PICK r \in Pid, f \in Feature, c \in Consent : d = <<r, f, c>>
        BY <3>4
      <4>2. Moved(<<r, f, c>>, Src(p), p)
              = IF r = Src(p) THEN <<p, f, c>> ELSE <<r, f, c>>
        BY <1>0, RenamedConsent
      <4> QED
        BY <3>1, <4>1, <4>2, Lengths
    <3> QED
      BY <3>2, <3>3, <3>4, Paths DEF Types
  <2>5. \A q \in Pid : q \notin {p, Src(p)} => (<<q>> \in dirs' <=> <<q>> \in dirs)
    BY <2>3, <2>4
  <2>6. <<Src(p)>> \notin dirs'
    BY <1>0, <2>4
  <2>7. proc[p].pc \in Locking
    BY <1>0 DEF Locking
  <2> QED
    BY <1>0, <1>2, <2>2, <2>5, <2>6, <2>7, HeldRoots
<1> QED
  BY <1>1, <1>2 DEF RenameRoot, GiveUp

LEMMA HeldLeaveProcess ==
  ASSUME NEW p \in Pid, Held, Types, Types', LeaveProcess(p)
  PROVE  Held'
<1>0. /\ proc[p].pc = "rmProcess" /\ proc[p].src = {Src(p)} /\ Src(p) \in Pid /\ Src(p) # p
      /\ lockFile' = lockFile
  BY Engaging DEF LeaveProcess, Engaged, Holding, Locking
<1>1. CASE UNCHANGED dirs /\ (Set(p, Leave(p)) \/ Set(p, LeaveDisturbed(p)))
  <2>1. SameRoots
    BY <1>1 DEF SameRoots
  <2> QED
    BY <1>0, <1>1, <2>1, QuietFailure
<1>2. CASE dirs' = dirs \ {<<Src(p)>>} /\ Set(p, [proc[p] EXCEPT !.pc = "close"])
  <2>1. \A q \in Pid : q # Src(p) => (<<q>> \in dirs' <=> <<q>> \in dirs)
    BY <1>2
  <2>2. <<p>> \in dirs
    <3>1. proc[p].pass = "move"
      BY <1>0 DEF Types, Shape, ShapeOf, Moving
    <3> QED
      BY <1>0, <3>1 DEF Held, Rooted, Outside
  <2>3. <<p>> \in dirs' /\ <<Src(p)>> \notin dirs' /\ proc[p].pc \in Locking
    BY <1>0, <1>2, <2>1, <2>2 DEF Locking
  <2> QED
    BY <1>0, <1>2, <2>1, <2>3, HeldRoots
<1> QED
  BY <1>1, <1>2 DEF LeaveProcess, RemoveDir, GiveUp

LEMMA HeldBegin ==
  ASSUME NEW p \in Pid, ReusedInPeace, Held, Types, Types', Begin(p)
  PROVE  Held'
<1> DEFINE s == [Idle EXCEPT !.pc = "open", !.alone = \A r \in Pid : proc[r].pc = "off"]
<1>0. /\ proc[p].pc = "off" /\ ~proc[p].owns /\ lockFile' = lockFile /\ dirs' = dirs
      /\ \A r \in Pid : p \notin proc[r].src
  BY Basics DEF Begin, PidAtPeace
<1>1. proc'[p] = s
  BY DEF Begin
<1>2. /\ proc'[p].pc = "open" /\ proc'[p].own = NoInode /\ proc'[p].src = {}
      /\ proc'[p].fd = NoInode /\ ~proc'[p].owns /\ ~proc'[p].locked
  BY <1>1 DEF Idle
<1>3. ASSUME NEW r \in Pid, r # p PROVE SameLocks(r)
  <2>1. proc'[r] = [proc[r] EXCEPT !.alone = FALSE] /\ proc[r] \in Process
    BY <1>3 DEF Begin, Types
  <2>2. proc'[r].owns = proc[r].owns
    BY <2>1 DEF Process
  <2>3. proc'[r].locked = proc[r].locked
    BY <2>1 DEF Process
  <2> QED
    BY <2>1, <2>2, <2>3 DEF SameLocks, Process
<1> HIDE DEF s
<1>4. OneHolder'
  <2>1. \A q, r \in Pid : lockFile'[q] = lockFile'[r] /\ lockFile'[q] # NoInode => q = r
    BY <1>0 DEF Held, OneHolder
  <2>2. \A r \in Pid : proc'[r].own # NoInode => proc'[r].own = lockFile'[r]
    BY <1>0, <1>2, <1>3 DEF SameLocks, Held, OneHolder
  <2>3. \A q, r \in Pid : proc'[q].owns /\ proc'[r].locked => proc'[q].own # proc'[r].fd
    BY <1>2, <1>3 DEF SameLocks, Held, OneHolder
  <2>4. \A q, r \in Pid :
          proc'[q].locked /\ proc'[r].locked /\ proc'[q].fd = proc'[r].fd => q = r
    BY <1>2, <1>3 DEF SameLocks, Held, OneHolder
  <2> QED
    BY <2>1, <2>2, <2>3, <2>4 DEF OneHolder
<1>5. Engagement'
  <2> SUFFICES ASSUME NEW r \in Pid, NEW q \in proc'[r].src PROVE Knows(r, q)'
    BY DEF Engagement
  <2>1. r # p /\ SameLocks(r)
    BY <1>2, <1>3
  <2>2. q \in Pid /\ q # p /\ q \in proc[r].src /\ Knows(r, q)
    BY <1>0, <2>1, Basics DEF SameLocks, Held, Engagement
  <2>3. SameLocks(q)
    BY <1>3, <2>2
  <2> QED
    BY <1>0, <2>1, <2>2, <2>3 DEF Knows, SameLocks, Vacant
<1>6. Rooted'
  BY <1>0, <1>2, <1>3 DEF Held, Rooted, SameLocks, Outside
<1> QED
  BY <1>4, <1>5, <1>6 DEF Held

LEMMA HeldDropLoose ==
  ASSUME NEW x \in Loose, Held, Types, DropLoose(x)
  PROVE  Held'
<1>1. SameRoots /\ lockFile' = lockFile
  BY DEF DropLoose, SameRoots
<1>2. ASSUME NEW r \in Pid PROVE SameLocks(r)
  <2>1. /\ proc'[r] = proc[r] \/ proc'[r] = [proc[r] EXCEPT !.alone = FALSE]
        /\ proc[r] \in Process
    BY DEF DropLoose, Types
  <2>2. proc'[r].owns = proc[r].owns
    BY <2>1 DEF Process
  <2>3. proc'[r].locked = proc[r].locked
    BY <2>1 DEF Process
  <2> QED
    BY <2>1, <2>2, <2>3 DEF SameLocks, Process
<1> QED
  BY <1>1, <1>2, Unmoved

LEMMA HeldExit ==
  ASSUME NEW p \in Pid, Held, Types, Types', Exit(p)
  PROVE  Held'
<1>1. proc'[p] = Idle /\ Others(p)
  BY Setting DEF Exit
<1>2. Quietly(p)
  BY <1>1 DEF Quietly, Idle, Exit, SameRoots
<1> QED
  BY <1>2, Quiet

LEMMA HeldRunning ==
  ASSUME NEW p \in Pid, Held, Types, RunningStep(p)
  PROVE  Held'
<1>1. proc' = proc /\ lockFile' = lockFile
  BY TypesRunning
<1>2. SameRoots
  BY Lengths DEF RunningStep, RegisterFeature, WriteBatch, FinishBatch, SameRoots
<1> QED
  BY <1>1, <1>2, Unmoved DEF SameLocks

LEMMA HeldStep ==
  ASSUME ReusedInPeace, Held, Types, Types', [Next]_vars
  PROVE  Held'
<1>1. ASSUME NEW p \in Pid, InitializeStep(p) PROVE Held'
  BY <1>1, HeldOpenOwnLock, HeldTakeOwnLock, HeldListProcessDirs, HeldScanEnds,
     HeldCreateProcessRoot, HeldOpenAbandonedLock, HeldTakeAbandonedLock, HeldCloseLock,
     HeldDeleteLock, HeldLookForRoot, HeldRenameRoot, HeldListFeatures, HeldEnterFeature,
     HeldEnterConsent, HeldLookForFile, HeldMoveFile, HeldLeaveConsent, HeldSweepFeature,
     HeldLeaveFeature, HeldSweepProcess, HeldLeaveProcess DEF InitializeStep
<1>2. ASSUME UNCHANGED vars PROVE Held'
  BY <1>2, Unmoved DEF vars, SameRoots, SameLocks
<1> QED
  BY <1>1, <1>2, HeldBegin, HeldRunning, HeldExit, HeldDropLoose DEF Next

LEMMA Start == Init => Types /\ Held
<1> SUFFICES ASSUME Init PROVE Types /\ Held
  OBVIOUS
<1>1. \A p \in Pid : proc[p] = Idle
  BY DEF Init
<1>2. \A p \in Pid : Idle \in Process /\ ShapeOf(p, Idle)
  BY DEF Process, ShapeOf, Idle, PC, NoInode, Outside, Locking, Holding, Engaged, Filling, Moving
<1>3. Types
  BY <1>1, <1>2, ProcessDirsAssumption DEF Types, Init, Shape
<1>4. Held
  BY <1>1 DEF Init, Held, OneHolder, Engagement, Rooted, Idle, Outside
<1> QED
  BY <1>3, <1>4

\* A process that runs has a directory of its own that no other works on, and
\* holds the lock of the file that leads to it (SdkStorage::Initialize,
\* AcquireAbandonedProcessDirectory) - provided that a pid is not given away
\* while its lock file is being released.
THEOREM RootsAreOwned == ASSUME ReusedInPeace PROVE Spec => []RootsOwned
<1>1. Init => Types /\ Held
  BY Start
<1>2. Types /\ Held /\ [Next]_vars => (Types /\ Held)'
  BY TypesStep, HeldStep
<1>3. Types /\ Held => RootsOwned
  <2> SUFFICES ASSUME Types, Held PROVE RootsOwned
    OBVIOUS
  <2>1. TypeOK
    BY DEF Types, TypeOK, Shape, ShapeOf, Process, PC
  <2>2. OwnsItsRoot
    <3> SUFFICES ASSUME NEW p \in Pid, proc[p].pc = "running"
                 PROVE  /\ <<p>> \in dirs
                        /\ lockFile[p] # NoInode /\ LockedBy(p, lockFile[p])
      BY DEF OwnsItsRoot, Ready
    <3>1. <<p>> \in dirs
      BY DEF Held, Rooted, Outside, Types, Shape, ShapeOf, Moving
    <3>2. proc[p].owns /\ proc[p].own # NoInode /\ proc[p].own = lockFile[p]
      BY Basics DEF Outside, Held, OneHolder
    <3> QED
      BY <3>1, <3>2 DEF LockedBy
  <2>3. ExclusiveClaims
    <3> SUFFICES ASSUME NEW p \in Pid, NEW r \in Pid, p # r,
                        NEW q \in Claims(p), q \in Claims(r)
                 PROVE  FALSE
      BY DEF ExclusiveClaims
    <3>1. ASSUME NEW a \in Pid, NEW b \in Pid, a # b, q = a /\ proc[a].owns,
                 proc[b].locked /\ q \in proc[b].src
          PROVE  FALSE
      BY <3>1, Basics DEF Held, Engagement, Knows
    <3>2. ASSUME proc[p].locked /\ q \in proc[p].src, proc[r].locked /\ q \in proc[r].src,
                 <<q>> \in dirs
          PROVE  FALSE
      <4>1. proc[p].fd = lockFile[q] /\ proc[r].fd = lockFile[q]
        BY <3>2, Basics DEF Held, Engagement, Knows, Vacant, Holding
      <4> QED
        BY <3>2, <4>1 DEF Held, OneHolder
    <3> QED
      BY <3>1, <3>2 DEF Claims
  <2> QED
    BY <2>1, <2>2, <2>3 DEF RootsOwned
<1> QED
  BY <1>1, <1>2, <1>3, PTL DEF Spec

-----------------------------------------------------------------------------
(* Files *)

\* Nobody works on the directory of a process that has the lock of its own.
LEMMA Spared ==
  ASSUME NEW p \in Pid, NEW r \in Pid, Types, Held, proc[p].pc \in Locking,
         proc[r].pc \notin Outside
  PROVE  Src(p) # r
<1>1. Src(p) \in proc[p].src
  BY Engaging DEF Locking, Engaged, Holding
<1>2. ~proc[Src(p)].owns
  BY <1>1 DEF Held, Engagement, Knows
<1> QED
  BY <1>2, Basics

\* What p does elsewhere does not disturb r.
LEMMA Undisturbed ==
  ASSUME NEW r \in Pid, Types, Filled(r), Clear(r),
         proc'[r] = proc[r] \/ proc'[r] = [proc[r] EXCEPT !.alone = FALSE],
         proc[r].pc \in Filling =>
           /\ \A f \in Feature : <<r, f>> \in dirs => <<r, f>> \in dirs'
           /\ \A f \in Feature, c \in Consent : <<r, f, c>> \in dirs => <<r, f, c>> \in dirs'
           /\ \A y \in Batch, f \in Feature, c \in Consent :
                at'[y] = <<r, f, c>> => at[y] = <<r, f, c>>
  PROVE  Filled(r)' /\ Clear(r)'
<1>1. /\ proc'[r].pc = proc[r].pc /\ proc'[r].feature = proc[r].feature
      /\ proc'[r].consent = proc[r].consent /\ proc'[r].files = proc[r].files
      /\ proc'[r].src = proc[r].src
      /\ proc[r].feature \subseteq Feature /\ proc[r].consent \subseteq Consent
  BY DEF Types, Process
<1>2. Filled(r)'
  BY <1>1 DEF Filled, Filling
<1>3. Clear(r)'
  <2> SUFFICES ASSUME proc[r].pc = "move", NEW y \in Batch, at'[y] = DstConsent(r)'
               PROVE  NameOf[y] # NameOf[CHOOSE x \in proc[r].files : TRUE]
    BY <1>1 DEF Clear
  <2>1. DstConsent(r)' = DstConsent(r)
    BY <1>1 DEF DstConsent, Current, Entered
  <2>2. Current(r) \in Feature /\ \E c \in Consent : DstConsent(r) = <<r, Current(r), c>>
    BY Ways DEF Filling
  <2>3. at[y] = DstConsent(r)
    BY <2>1, <2>2 DEF Filling
  <2> QED
    BY <2>3 DEF Clear
<1> QED
  BY <1>2, <1>3

\* A step of p that leaves directories and files alone, and does not fill.
LEMMA Elsewhere ==
  ASSUME NEW p \in Pid, Types, Kept, Others(p), UNCHANGED <<dirs, at, fate>>,
         proc'[p].pc \notin Filling
  PROVE  Kept'
<1>1. Closed' /\ Placed'
  BY DEF Kept, Closed, Placed
<1>2. ASSUME NEW r \in Pid PROVE Filled(r)' /\ Clear(r)'
  <2>1. CASE r = p
    BY <2>1 DEF Filled, Clear, Filling
  <2>2. CASE r # p
    BY <2>2, Undisturbed DEF Kept, Others
  <2> QED
    BY <2>1, <2>2
<1> QED
  BY <1>1, <1>2 DEF Kept

LEMMA KeptLeaving ==
  ASSUME NEW p \in Pid, Types, Kept, UNCHANGED <<dirs, at, fate>>,
         Set(p, Leave(p)) \/ Set(p, LeaveDisturbed(p)) \/ Set(p, Fail(p))
  PROVE  Kept'
<1>1. proc[p] \in Process
  BY DEF Types
<1>2. Others(p) /\ proc'[p] \in {Leave(p), LeaveDisturbed(p), Fail(p)}
  BY Setting
<1>3. proc'[p].pc \in {"scan", "failed"}
  BY <1>1, <1>2 DEF Leave, LeaveDisturbed, Fail, Process
<1> QED
  BY <1>2, <1>3, Elsewhere DEF Filling

LEMMA NotFilling ==
  ASSUME NEW p \in Pid, Types,
         \/ OpenOwnLock(p) \/ TakeOwnLock(p) \/ ListProcessDirs(p) \/ ScanEnds(p)
         \/ OpenAbandonedLock(p) \/ TakeAbandonedLock(p) \/ CloseLock(p) \/ DeleteLock(p)
         \/ LookForRoot(p) \/ ListFeatures(p) \/ Exit(p)
  PROVE  UNCHANGED <<dirs, at, fate>> /\ Others(p) /\ proc'[p].pc \notin Filling
<1>1. UNCHANGED <<dirs, at, fate>> /\ proc[p] \in Process
  BY DEF OpenOwnLock, TakeOwnLock, ListProcessDirs, ScanEnds, OpenAbandonedLock,
         TakeAbandonedLock, CloseLock, DeleteLock, LookForRoot, ListFeatures, Exit, Types
<1>2. proc \in [Pid -> Process]
  BY DEF Types
<1>3. ASSUME OpenOwnLock(p) PROVE Others(p) /\ proc'[p].pc \notin Filling
  <2>1. CASE Set(p, Fail(p))
    BY <1>1, <1>2, <2>1 DEF Set, Others, Process, Filling, Fail
  <2>2. CASE Set(p, [proc[p] EXCEPT !.pc = "lock", !.own = Opened(p)])
    BY <1>1, <1>2, <2>2 DEF Set, Others, Process, Filling
  <2> QED
    BY <1>3, <2>1, <2>2 DEF OpenOwnLock
<1>4. TakeOwnLock(p) => Others(p) /\ proc'[p].pc \notin Filling
  BY <1>1, <1>2 DEF TakeOwnLock, Set, Others, Process, Filling, Fail
<1>5. ASSUME ListProcessDirs(p) PROVE Others(p) /\ proc'[p].pc \notin Filling
  <2>1. CASE Set(p, [proc[p] EXCEPT !.pass = "move"]) /\ proc[p].pc = "list"
    BY <1>1, <1>2, <2>1 DEF Set, Others, Process, Filling
  <2>2. CASE Set(p, [proc[p] EXCEPT !.pc = "scan", !.subdirs = SubdirsOf(<<>>) \ {p}])
    BY <1>1, <1>2, <2>2 DEF Set, Others, Process, Filling
  <2>3. CASE Set(p, [proc[p] EXCEPT !.pc = IF proc[p].pass = "rename" THEN "mkdir"
                                                                     ELSE "running",
                                    !.alone = FALSE])
    BY <1>1, <1>2, <2>3 DEF Set, Others, Process, Filling
  <2> QED
    BY <1>5, <2>1, <2>2, <2>3 DEF ListProcessDirs
<1>6. ScanEnds(p) => Others(p) /\ proc'[p].pc \notin Filling
  BY <1>1, <1>2 DEF ScanEnds, Set, Others, Process, Filling
<1>7. ASSUME OpenAbandonedLock(p) PROVE Others(p) /\ proc'[p].pc \notin Filling
  <2>1. PICK q \in proc[p].subdirs :
          \/ Set(p, [proc[p] EXCEPT !.pc = "try", !.subdirs = proc[p].subdirs \ {q},
                                    !.src = {q}, !.fd = Opened(q)])
          \/ Set(p, [proc[p] EXCEPT !.subdirs = proc[p].subdirs \ {q}, !.alone = FALSE])
    BY <1>7 DEF OpenAbandonedLock
  <2>2. CASE Set(p, [proc[p] EXCEPT !.pc = "try", !.subdirs = proc[p].subdirs \ {q},
                                    !.src = {q}, !.fd = Opened(q)])
    BY <1>1, <1>2, <2>2 DEF Set, Others, Process, Filling
  <2>3. CASE Set(p, [proc[p] EXCEPT !.subdirs = proc[p].subdirs \ {q}, !.alone = FALSE])
    BY <1>1, <1>2, <1>7, <2>3 DEF OpenAbandonedLock, Set, Others, Process, Filling
  <2> QED
    BY <2>1, <2>2, <2>3
<1>8. TakeAbandonedLock(p) => Others(p) /\ proc'[p].pc \notin Filling
  BY <1>1, <1>2 DEF TakeAbandonedLock, Set, Others, Process, Filling, Leave
<1>9. CloseLock(p) => Others(p) /\ proc'[p].pc \notin Filling
  BY <1>1, <1>2 DEF CloseLock, Set, Others, Process, Filling
<1>10. DeleteLock(p) => Others(p) /\ proc'[p].pc \notin Filling
  BY <1>1, <1>2 DEF DeleteLock, Set, Others, Process, Filling, Leave
<1>11. LookForRoot(p) => Others(p) /\ proc'[p].pc \notin Filling
  BY <1>1, <1>2 DEF LookForRoot, Set, Others, Process, Filling, Leave
<1>12. ASSUME ListFeatures(p) PROVE Others(p) /\ proc'[p].pc \notin Filling
  <2>1. CASE Set(p, Leave(p))
    BY <1>1, <1>2, <2>1 DEF Set, Others, Process, Filling, Leave
  <2>3. CASE Set(p, LeaveDisturbed(p))
    BY <1>1, <1>2, <2>3 DEF Set, Others, Process, Filling, Leave, LeaveDisturbed
  <2>2. CASE Set(p, [proc[p] EXCEPT !.pc = "feature", !.features = SubdirsOf(<<Src(p)>>)])
    BY <1>1, <1>2, <2>2 DEF Set, Others, Process, Filling
  <2> QED
    BY <1>12, <2>1, <2>2, <2>3 DEF ListFeatures, GiveUp
<1>13. Exit(p) => Others(p) /\ proc'[p].pc \notin Filling
  BY <1>1, <1>2 DEF Exit, Set, Others, Process, Filling, Idle
<1> QED
  BY <1>1, <1>3, <1>4, <1>5, <1>6, <1>7, <1>8, <1>9, <1>10, <1>11, <1>12, <1>13

LEMMA KeptLocks ==
  ASSUME NEW p \in Pid, Types, Kept,
         \/ OpenOwnLock(p) \/ TakeOwnLock(p) \/ ListProcessDirs(p) \/ ScanEnds(p)
         \/ OpenAbandonedLock(p) \/ TakeAbandonedLock(p) \/ CloseLock(p) \/ DeleteLock(p)
         \/ LookForRoot(p) \/ ListFeatures(p) \/ Exit(p)
  PROVE  Kept'
  BY NotFilling, Elsewhere

\* Directories appear.
LEMMA Growing ==
  ASSUME NEW p \in Pid, Types, Kept, dirs \subseteq dirs', UNCHANGED <<at, fate>>, Others(p)
  PROVE  Placed' /\ \A r \in Pid : r # p => Filled(r)' /\ Clear(r)'
<1>1. Placed'
  BY DEF Kept, Placed
<1>2. ASSUME NEW r \in Pid, r # p PROVE Filled(r)' /\ Clear(r)'
  BY <1>2, Undisturbed DEF Kept, Others
<1> QED
  BY <1>1, <1>2

LEMMA KeptCreateProcessRoot ==
  ASSUME NEW p \in Pid, Types, Kept, CreateProcessRoot(p)
  PROVE  Kept'
<1>1. CASE Set(p, Fail(p)) /\ UNCHANGED dirs
  BY <1>1, KeptLeaving DEF CreateProcessRoot
<1> DEFINE s == [proc[p] EXCEPT !.pc = "list", !.pass = "move"]
<1>2. CASE dirs' = dirs \cup {<<p>>} /\ Set(p, s)
  <2>1. Others(p) /\ proc'[p] = s /\ proc[p] \in Process
    BY <1>2, Setting DEF Types
  <2>2. proc'[p].pc = "list"
    BY <2>1 DEF Process
  <2>3. Closed'
    BY <1>2, Lengths DEF Kept, Closed
  <2> HIDE DEF s
  <2>4. Placed' /\ \A r \in Pid : r # p => Filled(r)' /\ Clear(r)'
    BY <1>2, <2>1, Growing DEF CreateProcessRoot
  <2>5. Filled(p)' /\ Clear(p)'
    BY <2>2 DEF Filled, Clear, Filling
  <2> QED
    BY <2>3, <2>4, <2>5 DEF Kept
<1> QED
  BY <1>1, <1>2 DEF CreateProcessRoot

LEMMA KeptEnterFeature ==
  ASSUME NEW p \in Pid, Types, Held, Kept, EnterFeature(p)
  PROVE  Kept'
<1>1. proc[p] \in Process /\ proc[p].features \subseteq Feature /\ <<p>> \in dirs
  BY DEF Types, Process, Shape, ShapeOf, Moving, Held, Rooted, Outside, EnterFeature
<1>2. PICK f \in proc[p].features :
        \/ /\ dirs' = dirs \cup {<<p, f>>}
           /\ Set(p, [proc[p] EXCEPT !.pc = "consent", !.feature = {f},
                                     !.features = proc[p].features \ {f},
                                     !.consents = SubdirsOf(<<Src(p), f>>)])
        \/ Set(p, LeaveDisturbed(p)) /\ dirs' \in {dirs, dirs \cup {<<p, f>>}}
  BY DEF EnterFeature, GiveUp
<1>3. Others(p) /\ dirs \subseteq dirs'
  BY <1>2, Setting
<1>4. Closed'
  BY <1>1, <1>2, Lengths DEF Kept, Closed
<1>5. Placed' /\ \A r \in Pid : r # p => Filled(r)' /\ Clear(r)'
  BY <1>3, Growing DEF EnterFeature
<1>6. Filled(p)' /\ Clear(p)'
  <2>1. CASE Set(p, LeaveDisturbed(p))
    <3>0. proc'[p] = LeaveDisturbed(p)
      BY <2>1, Setting
    <3>1. proc'[p].pc = "scan"
      BY <1>1, <3>0 DEF Leave, LeaveDisturbed, Process
    <3> QED
      BY <3>1 DEF Filled, Clear, Filling
  <2>2. CASE /\ dirs' = dirs \cup {<<p, f>>}
             /\ Set(p, [proc[p] EXCEPT !.pc = "consent", !.feature = {f},
                                       !.features = proc[p].features \ {f},
                                       !.consents = SubdirsOf(<<Src(p), f>>)])
    <3>0. proc'[p] = [proc[p] EXCEPT !.pc = "consent", !.feature = {f},
                                    !.features = proc[p].features \ {f},
                                    !.consents = SubdirsOf(<<Src(p), f>>)]
      BY <2>2, Setting
    <3>1. proc'[p].pc = "consent" /\ proc'[p].feature = {f}
      BY <1>1, <3>0 DEF Process
    <3> QED
      BY <2>2, <3>1 DEF Filled, Clear
  <2> QED
    BY <1>2, <2>1, <2>2
<1> QED
  BY <1>4, <1>5, <1>6 DEF Kept

LEMMA KeptEnterConsent ==
  ASSUME NEW p \in Pid, Types, Held, Kept, EnterConsent(p)
  PROVE  Kept'
<1>1. /\ proc[p] \in Process /\ proc[p].consents \subseteq Consent /\ proc[p].pc = "consent"
      /\ Current(p) \in Feature /\ proc[p].feature = {Current(p)}
  BY Ways DEF Types, Process, EnterConsent, Filling
<1>2. <<p, Current(p)>> \in dirs
  BY <1>1 DEF Kept, Filled, Filling
<1>3. PICK c \in proc[p].consents :
        \/ /\ dirs' = dirs \cup {<<p, Current(p), c>>}
           /\ Set(p, [proc[p] EXCEPT !.pc = "file", !.consent = {c},
                                     !.consents = proc[p].consents \ {c},
                                     !.files = FilesIn(<<Src(p), Current(p), c>>)])
        \/ Set(p, LeaveDisturbed(p)) /\ dirs' \in {dirs, dirs \cup {<<p, Current(p), c>>}}
  BY DEF EnterConsent, GiveUp
<1>4. Others(p) /\ dirs \subseteq dirs'
  BY <1>3, Setting
<1>5. Closed'
  <2>1. \A q \in Pid, g \in Feature : <<q, g>> \in dirs' => <<q>> \in dirs'
    BY <1>3, Lengths DEF Kept, Closed
  <2>2. \A q \in Pid, g \in Feature, k \in Consent : <<q, g, k>> \in dirs' => <<q, g>> \in dirs'
    BY <1>2, <1>3 DEF Kept, Closed
  <2> QED
    BY <2>1, <2>2 DEF Closed
<1>6. Placed' /\ \A r \in Pid : r # p => Filled(r)' /\ Clear(r)'
  BY <1>4, Growing DEF EnterConsent
<1>7. Filled(p)' /\ Clear(p)'
  <2>1. CASE Set(p, LeaveDisturbed(p))
    <3>0. proc'[p] = LeaveDisturbed(p)
      BY <2>1, Setting
    <3>1. proc'[p].pc = "scan"
      BY <1>1, <3>0 DEF Leave, LeaveDisturbed, Process
    <3> QED
      BY <3>1 DEF Filled, Clear, Filling
  <2>2. CASE /\ dirs' = dirs \cup {<<p, Current(p), c>>}
             /\ Set(p, [proc[p] EXCEPT !.pc = "file", !.consent = {c},
                                       !.consents = proc[p].consents \ {c},
                                       !.files = FilesIn(<<Src(p), Current(p), c>>)])
    <3>0. proc'[p] = [proc[p] EXCEPT !.pc = "file", !.consent = {c},
                                    !.consents = proc[p].consents \ {c},
                                    !.files = FilesIn(<<Src(p), Current(p), c>>)]
      BY <2>2, Setting
    <3>1. /\ proc'[p].pc = "file" /\ proc'[p].consent = {c}
          /\ proc'[p].feature = proc[p].feature
      BY <1>1, <3>0 DEF Process
    <3> QED
      BY <1>1, <1>2, <2>2, <3>1 DEF Filled, Clear
  <2> QED
    BY <1>3, <2>1, <2>2
<1> QED
  BY <1>5, <1>6, <1>7 DEF Kept

\* An empty directory that p has the lock of goes.
LEMMA Removing ==
  ASSUME NEW p \in Pid, NEW d, Types, Held, Kept, proc[p].pc \in Locking,
         \/ d = <<Src(p)>>
         \/ \E f \in Feature : d = <<Src(p), f>>
         \/ \E f \in Feature, c \in Consent : d = <<Src(p), f, c>>,
         FilesIn(d) = {}, SubdirsOf(d) = {},
         dirs' = dirs \ {d}, UNCHANGED <<at, fate>>, Others(p)
  PROVE  /\ Closed' /\ Placed'
         /\ \A r \in Pid : r # p => Filled(r)' /\ Clear(r)'
         /\ \A f \in Feature : <<p, f>> \in dirs => <<p, f>> \in dirs'
<1>1. Src(p) \in Pid /\ Src(p) # p
  BY Engaging DEF Locking, Engaged, Holding
<1>2. Placed'
  BY DEF Kept, Placed, FilesIn, File
<1>3. \A r \in Pid : r # Src(p) =>
        /\ \A f \in Feature : <<r, f>> \in dirs => <<r, f>> \in dirs'
        /\ \A f \in Feature, c \in Consent : <<r, f, c>> \in dirs => <<r, f, c>> \in dirs'
  BY Lengths
<1>4. ASSUME NEW r \in Pid, r # p PROVE Filled(r)' /\ Clear(r)'
  <2>1. proc[r].pc \in Filling => r # Src(p)
    BY Spared DEF Filling, Outside
  <2> QED
    BY <1>3, <1>4, <2>1, Undisturbed DEF Kept, Others
<1>5. Closed'
  <2>1. ASSUME NEW q \in Pid, NEW f \in Feature, <<q, f>> \in dirs' PROVE <<q>> \in dirs'
    <3>1. <<q, f>> \in dirs /\ <<q>> \in dirs
      BY <2>1 DEF Kept, Closed
    <3>2. <<q>> # d
      BY <1>1, <3>1, Lengths, Subdirs
    <3> QED
      BY <3>1, <3>2
  <2>2. ASSUME NEW q \in Pid, NEW f \in Feature, NEW c \in Consent, <<q, f, c>> \in dirs'
        PROVE  <<q, f>> \in dirs'
    <3>1. <<q, f, c>> \in dirs /\ <<q, f>> \in dirs
      BY <2>2 DEF Kept, Closed
    <3>2. <<q, f>> # d
      BY <1>1, <3>1, Lengths, Subdirs
    <3> QED
      BY <3>1, <3>2
  <2> QED
    BY <2>1, <2>2 DEF Closed
<1> QED
  BY <1>1, <1>2, <1>3, <1>4, <1>5

LEMMA KeptLeaveConsent ==
  ASSUME NEW p \in Pid, Types, Held, Kept, LeaveConsent(p)
  PROVE  Kept'
<1> DEFINE s == [proc[p] EXCEPT !.pc = "consent", !.consent = {}]
<1>1. CASE UNCHANGED dirs /\ (Set(p, Leave(p)) \/ Set(p, LeaveDisturbed(p)))
  BY <1>1, KeptLeaving DEF LeaveConsent
<1>2. CASE /\ FilesIn(SrcConsent(p)) = {} /\ SubdirsOf(SrcConsent(p)) = {}
           /\ dirs' = dirs \ {SrcConsent(p)} /\ Set(p, s)
  <2>1. proc[p].pc = "file" /\ proc[p] \in Process /\ Others(p) /\ proc'[p] = s
    BY <1>2, Setting DEF LeaveConsent, Types
  <2>2. proc'[p].pc = "consent" /\ proc'[p].feature = proc[p].feature
    BY <2>1 DEF Process
  <2>3. /\ Current(p) \in Feature /\ proc[p].feature = {Current(p)}
        /\ \E c \in Consent : SrcConsent(p) = <<Src(p), Current(p), c>>
    BY <2>1, Ways DEF Filling
  <2> HIDE DEF s
  <2>4. /\ Closed' /\ Placed'
        /\ \A r \in Pid : r # p => Filled(r)' /\ Clear(r)'
        /\ \A f \in Feature : <<p, f>> \in dirs => <<p, f>> \in dirs'
    BY <1>2, <2>1, <2>3, Removing DEF LeaveConsent, Locking
  <2>5. <<p, Current(p)>> \in dirs
    BY <2>1, <2>3 DEF Kept, Filled, Filling
  <2>6. Filled(p)' /\ Clear(p)'
    BY <2>2, <2>3, <2>4, <2>5 DEF Filled, Clear
  <2> QED
    BY <2>4, <2>6 DEF Kept
<1> QED
  BY <1>1, <1>2 DEF LeaveConsent, RemoveDir, GiveUp

LEMMA KeptLeaveFeature ==
  ASSUME NEW p \in Pid, Types, Held, Kept, LeaveFeature(p)
  PROVE  Kept'
<1> DEFINE s == [proc[p] EXCEPT !.pc = "feature", !.feature = {}]
<1>1. CASE UNCHANGED dirs /\ (Set(p, Leave(p)) \/ Set(p, LeaveDisturbed(p)))
  BY <1>1, KeptLeaving DEF LeaveFeature
<1>2. CASE /\ FilesIn(SrcFeature(p)) = {} /\ SubdirsOf(SrcFeature(p)) = {}
           /\ dirs' = dirs \ {SrcFeature(p)} /\ Set(p, s)
  <2>1. proc[p].pc = "rmFeature" /\ proc[p] \in Process /\ Others(p) /\ proc'[p] = s
    BY <1>2, Setting DEF LeaveFeature, Types
  <2>2. proc'[p].pc = "feature"
    BY <2>1 DEF Process
  <2>3. \E f \in Feature : SrcFeature(p) = <<Src(p), f>>
    BY <2>1, Ways
  <2> HIDE DEF s
  <2>4. Closed' /\ Placed' /\ \A r \in Pid : r # p => Filled(r)' /\ Clear(r)'
    BY <1>2, <2>1, <2>3, Removing DEF LeaveFeature, Locking
  <2>5. Filled(p)' /\ Clear(p)'
    BY <2>2 DEF Filled, Clear, Filling
  <2> QED
    BY <2>4, <2>5 DEF Kept
<1> QED
  BY <1>1, <1>2 DEF LeaveFeature, RemoveDir, GiveUp

LEMMA KeptLeaveProcess ==
  ASSUME NEW p \in Pid, Types, Held, Kept, LeaveProcess(p)
  PROVE  Kept'
<1> DEFINE s == [proc[p] EXCEPT !.pc = "close"]
<1>1. CASE UNCHANGED dirs /\ (Set(p, Leave(p)) \/ Set(p, LeaveDisturbed(p)))
  BY <1>1, KeptLeaving DEF LeaveProcess
<1>2. CASE /\ FilesIn(<<Src(p)>>) = {} /\ SubdirsOf(<<Src(p)>>) = {}
           /\ dirs' = dirs \ {<<Src(p)>>} /\ Set(p, s)
  <2>1. proc[p].pc = "rmProcess" /\ proc[p] \in Process /\ Others(p) /\ proc'[p] = s
    BY <1>2, Setting DEF LeaveProcess, Types
  <2>2. proc'[p].pc = "close"
    BY <2>1 DEF Process
  <2> HIDE DEF s
  <2>3. Closed' /\ Placed' /\ \A r \in Pid : r # p => Filled(r)' /\ Clear(r)'
    BY <1>2, <2>1, Removing DEF LeaveProcess, Locking
  <2>4. Filled(p)' /\ Clear(p)'
    BY <2>2 DEF Filled, Clear, Filling
  <2> QED
    BY <2>3, <2>4 DEF Kept
<1> QED
  BY <1>1, <1>2 DEF LeaveProcess, RemoveDir, GiveUp

LEMMA Somewhere ==
  /\ \A q, f, c : <<q, f, c>> # Nowhere
  /\ \A q, f : <<q, f>> # Nowhere
  /\ \A q : <<q>> # Nowhere
<1>1. \A q, f, c : Len(<<q, f, c>>) = 3
  OBVIOUS
<1>2. \A q, f : Len(<<q, f>>) = 2
  OBVIOUS
<1>3. \A q : Len(<<q>>) = 1
  OBVIOUS
<1> QED
  BY <1>1, <1>2, <1>3 DEF Nowhere

\* Files go, by a step that leaves directories alone.
LEMMA Losing ==
  ASSUME NEW p \in Pid, Types, Kept, dirs' = dirs, Others(p),
         \A x \in File : \/ at'[x] = at[x] /\ fate'[x] = fate[x]
                         \/ at'[x] = Nowhere /\ fate'[x] \notin {"none", "kept"}
  PROVE  Closed' /\ Placed' /\ \A r \in Pid : r # p => Filled(r)' /\ Clear(r)'
<1>1. Closed' /\ Placed'
  BY DEF Kept, Closed, Placed, File
<1>2. ASSUME NEW r \in Pid, r # p PROVE Filled(r)' /\ Clear(r)'
  BY <1>2, Somewhere, Undisturbed DEF Kept, Others, File
<1> QED
  BY <1>1, <1>2

LEMMA KeptLookForFile ==
  ASSUME NEW p \in Pid, Types, Held, Kept, LookForFile(p)
  PROVE  Kept'
<1> DEFINE x == CHOOSE x \in proc[p].files : TRUE
<1>1. /\ proc[p].pc = "file" /\ proc[p] \in Process /\ proc[p].files \subseteq File
      /\ x \in proc[p].files /\ dirs' = dirs
  BY DEF LookForFile, Types, Process
<1> HIDE DEF x
<1>2. CASE UNCHANGED <<at, fate>> /\ Set(p, LeaveDisturbed(p))
  BY <1>1, <1>2, KeptLeaving
<1>3. CASE /\ at' = [at EXCEPT ![x] = Nowhere] /\ fate' = [fate EXCEPT ![x] = "conflict"]
           /\ Set(p, [proc[p] EXCEPT !.files = proc[p].files \ {x}])
  <2>0. proc'[p] = [proc[p] EXCEPT !.files = proc[p].files \ {x}] /\ Others(p)
    BY <1>3, Setting
  <2>1. /\ proc'[p].pc = "file" /\ proc'[p].feature = proc[p].feature
        /\ proc'[p].consent = proc[p].consent
    BY <1>1, <2>0 DEF Process
  <2>2. \A y \in File : \/ at'[y] = at[y] /\ fate'[y] = fate[y]
                        \/ at'[y] = Nowhere /\ fate'[y] \notin {"none", "kept"}
    BY <1>1, <1>3 DEF Types
  <2>3. Closed' /\ Placed' /\ \A r \in Pid : r # p => Filled(r)' /\ Clear(r)'
    BY <1>1, <2>0, <2>2, Losing
  <2>4. Filled(p)' /\ Clear(p)'
    BY <1>1, <2>1 DEF Kept, Filled, Clear
  <2> QED
    BY <2>3, <2>4 DEF Kept
<1>4. CASE /\ ~Taken(DstConsent(p), NameOf[x]) /\ UNCHANGED <<at, fate>>
           /\ Set(p, [proc[p] EXCEPT !.pc = "move"])
  <2>0. proc'[p] = [proc[p] EXCEPT !.pc = "move"] /\ Others(p)
    BY <1>4, Setting
  <2>1. /\ proc'[p].pc = "move" /\ proc'[p].feature = proc[p].feature
        /\ proc'[p].consent = proc[p].consent /\ proc'[p].files = proc[p].files
        /\ proc'[p].src = proc[p].src
    BY <1>1, <2>0 DEF Process
  <2>2. \A y \in File : at'[y] = at[y] /\ fate'[y] = fate[y]
    BY <1>4
  <2>3. Closed' /\ Placed' /\ \A r \in Pid : r # p => Filled(r)' /\ Clear(r)'
    BY <1>1, <2>0, <2>2, Losing
  <2>4. Filled(p)'
    BY <1>1, <2>1 DEF Kept, Filled, Filling
  <2>5. Clear(p)'
    <3>1. DstConsent(p)' = DstConsent(p)
      BY <2>1 DEF DstConsent, Current, Entered
    <3>2. \A y \in File : at[y] = DstConsent(p) => NameOf[y] # NameOf[x]
      BY <1>4 DEF Taken, FilesIn
    <3> QED
      BY <1>4, <2>1, <3>1, <3>2 DEF Clear, File, x
  <2> QED
    BY <2>3, <2>4, <2>5 DEF Kept
<1> QED
  BY <1>2, <1>3, <1>4 DEF LookForFile, GiveUp, x

LEMMA KeptMoveFile ==
  ASSUME NEW p \in Pid, Types, Held, Kept, MoveFile(p)
  PROVE  Kept'
<1> DEFINE x == CHOOSE x \in proc[p].files : TRUE
<1>1. /\ proc[p].pc = "move" /\ proc[p] \in Process /\ proc[p].files \subseteq File
      /\ x \in proc[p].files /\ dirs' = dirs /\ fate' = fate
  BY DEF MoveFile, Types, Process, Shape, ShapeOf
<1> HIDE DEF x
<1>2. CASE UNCHANGED at /\ (Set(p, LeaveDisturbed(p)) \/ Set(p, Leave(p)))
  BY <1>1, <1>2, KeptLeaving
<1>3. CASE /\ at[x] = SrcConsent(p)
           /\ at' = [y \in File |-> IF y = x THEN DstConsent(p)
                                    ELSE IF at[y] = DstConsent(p) /\ NameOf[y] = NameOf[x]
                                      THEN Nowhere ELSE at[y]]
           /\ Set(p, [proc[p] EXCEPT !.pc = "file", !.files = proc[p].files \ {x}])
  <2>0. proc'[p] = [proc[p] EXCEPT !.pc = "file", !.files = proc[p].files \ {x}] /\ Others(p)
    BY <1>3, Setting
  <2>1. /\ proc'[p].pc = "file" /\ proc'[p].feature = proc[p].feature
        /\ proc'[p].consent = proc[p].consent
    BY <1>1, <2>0 DEF Process
  <2>2. Filled(p)' /\ Clear(p)'
    BY <1>1, <2>1 DEF Kept, Filled, Clear, Filling
  <2>3. PICK c \in Consent : /\ proc[p].consent = {c}
                             /\ SrcConsent(p) = <<Src(p), Current(p), c>>
                             /\ DstConsent(p) = <<p, Current(p), c>>
    BY <1>1, Ways
  <2>4. Current(p) \in Feature /\ proc[p].feature = {Current(p)}
    BY <1>1, Ways DEF Filling
  <2>5. DstConsent(p) \in dirs /\ DstConsent(p) \in Batches
    <3>1. <<p, Current(p), c>> \in Batches
      BY <2>4 DEF Batches
    <3>2. Filled(p)
      BY DEF Kept
    <3>3. <<p, Current(p), c>> \in dirs
      BY <1>1, <2>3, <2>4, <3>2 DEF Filled
    <3> QED
      BY <2>3, <3>1, <3>3
  <2>6. /\ at'[x] = DstConsent(p) /\ x \in File
        /\ \A y \in File : y # x => \/ at'[y] = at[y]
                                    \/ /\ at'[y] = Nowhere
                                       /\ at[y] = DstConsent(p) /\ NameOf[y] = NameOf[x]
    BY <1>1, <1>3
  <2>7. \A y \in Batch : y # x => at'[y] = at[y]
    BY <1>1, <2>6 DEF Kept, Clear, File, x
  <2>8. Placed'
    <3>1. ASSUME NEW y \in File, fate[y] = "none" PROVE at'[y] = Nowhere
      <4>1. at[y] = Nowhere
        BY <3>1 DEF Kept, Placed
      <4>2. y # x
        BY <1>3, <2>3, <4>1, Somewhere
      <4> QED
        BY <2>6, <4>1, <4>2
    <3>2. ASSUME NEW y \in Batch, fate[y] = "kept" PROVE at'[y] \in dirs /\ at'[y] \in Batches
      BY <2>5, <2>6, <2>7, <3>2 DEF Kept, Placed
    <3> QED
      BY <1>1, <3>1, <3>2 DEF Placed
  <2>9. ASSUME NEW r \in Pid, r # p PROVE Filled(r)' /\ Clear(r)'
    <3>1. \A y \in Batch, f \in Feature, k \in Consent :
            at'[y] = <<r, f, k>> => at[y] = <<r, f, k>>
      BY <2>3, <2>6, <2>7, <2>9
    <3> QED
      BY <1>1, <2>0, <2>9, <3>1, Undisturbed DEF Kept, Others
  <2>10. Closed'
    BY <1>1 DEF Kept, Closed
  <2> QED
    BY <2>2, <2>8, <2>9, <2>10 DEF Kept
<1> QED
  BY <1>2, <1>3 DEF MoveFile, GiveUp, x

LEMMA KeptSweep ==
  ASSUME NEW p \in Pid, Types, Held, Kept, SweepFeature(p) \/ SweepProcess(p)
  PROVE  Kept'
<1>1. proc[p] \in Process /\ dirs' = dirs
  BY DEF Types, SweepFeature, SweepProcess
<1>2. CASE UNCHANGED <<at, fate>> /\ Set(p, LeaveDisturbed(p))
  BY <1>1, <1>2, KeptLeaving
<1>3. ASSUME NEW d, NEW s,
             at' = [x \in File |-> IF at[x] = d THEN Nowhere ELSE at[x]],
             fate' = [x \in File |-> IF at[x] = d THEN "swept" ELSE fate[x]],
             Set(p, s), s.pc \notin Filling
      PROVE  Kept'
  <2>1. proc'[p] = s /\ Others(p)
    BY <1>3, Setting
  <2>2. \A y \in File : \/ at'[y] = at[y] /\ fate'[y] = fate[y]
                        \/ at'[y] = Nowhere /\ fate'[y] \notin {"none", "kept"}
    BY <1>3
  <2>3. Closed' /\ Placed' /\ \A r \in Pid : r # p => Filled(r)' /\ Clear(r)'
    BY <1>1, <2>1, <2>2, Losing
  <2>4. Filled(p)' /\ Clear(p)'
    BY <1>3, <2>1 DEF Filled, Clear, Filling
  <2> QED
    BY <2>3, <2>4 DEF Kept
<1>4. /\ [proc[p] EXCEPT !.pc = "rmFeature"].pc \notin Filling
      /\ [proc[p] EXCEPT !.pc = "rmProcess"].pc \notin Filling
  BY <1>1 DEF Process, Filling
<1>5. CASE SweepFeature(p)
  BY <1>2, <1>3, <1>4, <1>5 DEF SweepFeature, SweepLoose, GiveUp
<1>6. CASE SweepProcess(p)
  BY <1>2, <1>3, <1>4, <1>6 DEF SweepProcess, SweepLoose, GiveUp
<1> QED
  BY <1>5, <1>6

LEMMA KeptRunning ==
  ASSUME NEW p \in Pid, Types, Held, Kept, RunningStep(p)
  PROVE  Kept'
<1>1. proc' = proc /\ proc[p].pc = "running" /\ Others(p)
  BY TypesRunning DEF Others
<1>2. Filled(p)' /\ Clear(p)'
  BY <1>1 DEF Filled, Clear, Filling
<1>3. ASSUME NEW f \in Feature, RegisterFeature(p, f) PROVE Kept'
  <2>1. <<p>> \in dirs
    BY <1>1 DEF Types, Shape, ShapeOf, Moving, Held, Rooted, Outside
  <2>2. Placed' /\ \A r \in Pid : r # p => Filled(r)' /\ Clear(r)'
    BY <1>1, <1>3, Growing DEF RegisterFeature
  <2>3. dirs' = dirs \cup {<<p, f>>} \cup {<<p, f, c>> : c \in Consent}
    BY <1>3 DEF RegisterFeature
  <2>4. \A q \in Pid, g \in Feature : <<q, g>> \in dirs' => <<q>> \in dirs'
    BY <2>1, <2>3, Lengths DEF Kept, Closed
  <2>5. \A q \in Pid, g \in Feature, k \in Consent : <<q, g, k>> \in dirs' => <<q, g>> \in dirs'
    BY <2>3, Lengths DEF Kept, Closed
  <2> QED
    BY <1>2, <2>2, <2>4, <2>5 DEF Kept, Closed
<1>4. ASSUME NEW x \in Batch, WriteBatch(p, x) PROVE Kept'
  <2>1. PICK d \in Tree(p) : Len(d) = 3 /\ at' = [at EXCEPT ![x] = d]
    BY <1>4 DEF WriteBatch
  <2>2. d \in dirs /\ d[1] = p
    BY DEF Tree, Under
  <2>3. PICK q \in Pid, f \in Feature, c \in Consent : d = <<q, f, c>>
    BY <2>1, <2>2, Paths DEF Types
  <2>4. /\ \A y \in File : y # x => at'[y] = at[y] /\ fate'[y] = fate[y]
        /\ x \in File /\ at'[x] = d /\ fate'[x] = "kept" /\ dirs' = dirs
    BY <1>4, <2>1 DEF WriteBatch, Types, File
  <2>5. Placed'
    BY <2>2, <2>3, <2>4 DEF Kept, Placed, Batches, File
  <2>6. Closed'
    BY <2>4 DEF Kept, Closed
  <2>7. ASSUME NEW r \in Pid, r # p PROVE Filled(r)' /\ Clear(r)'
    <3>1. \A y \in Batch, g \in Feature, k \in Consent :
            at'[y] = <<r, g, k>> => at[y] = <<r, g, k>>
      BY <2>2, <2>3, <2>4, <2>7 DEF File
    <3> QED
      BY <1>1, <2>4, <3>1, Undisturbed DEF Kept
  <2> QED
    BY <1>2, <2>5, <2>6, <2>7 DEF Kept
<1>5. ASSUME NEW x \in Batch, FinishBatch(p, x) PROVE Kept'
  <2>1. \A y \in File : \/ at'[y] = at[y] /\ fate'[y] = fate[y]
                        \/ at'[y] = Nowhere /\ fate'[y] \notin {"none", "kept"}
    BY <1>5 DEF FinishBatch, Types, File
  <2> QED
    BY <1>1, <1>2, <1>5, <2>1, Losing DEF FinishBatch, Kept
<1> QED
  BY <1>3, <1>4, <1>5 DEF RunningStep

LEMMA KeptBegin ==
  ASSUME NEW p \in Pid, Types, Kept, Begin(p)
  PROVE  Kept'
<1>1. UNCHANGED <<dirs, at, fate>> /\ proc'[p].pc = "open"
      /\ \A r \in Pid : r # p => proc'[r] = [proc[r] EXCEPT !.alone = FALSE]
  BY DEF Begin, Idle
<1>2. Closed' /\ Placed'
  BY <1>1 DEF Kept, Closed, Placed
<1>3. Filled(p)' /\ Clear(p)'
  BY <1>1 DEF Filled, Clear, Filling
<1>4. ASSUME NEW r \in Pid, r # p PROVE Filled(r)' /\ Clear(r)'
  BY <1>1, <1>4, Undisturbed DEF Kept
<1> QED
  BY <1>2, <1>3, <1>4 DEF Kept

LEMMA KeptDropLoose ==
  ASSUME NEW x \in Loose, Types, Kept, DropLoose(x)
  PROVE  Kept'
<1>1. /\ \A y \in File : y # x => at'[y] = at[y] /\ fate'[y] = fate[y]
      /\ x \in File /\ fate'[x] = "kept" /\ dirs' = dirs
      /\ \A y \in Batch : y # x
      /\ \A r \in Pid : proc'[r] = proc[r] \/ proc'[r] = [proc[r] EXCEPT !.alone = FALSE]
  BY ProcessDirsAssumption DEF DropLoose, Types, File
<1>2. Closed' /\ Placed'
  BY <1>1 DEF Kept, Closed, Placed, File
<1>3. ASSUME NEW r \in Pid PROVE Filled(r)' /\ Clear(r)'
  BY <1>1, Undisturbed DEF Kept, File
<1> QED
  BY <1>2, <1>3 DEF Kept

\* Where a path comes from that is there after a rename.
LEMMA Renamed ==
  ASSUME NEW p \in Pid, NEW q \in Pid, NEW d \in Path \cup {Nowhere}
  PROVE  /\ \A r \in Pid, f \in Feature : Moved(d, q, p) = <<r, f>> =>
              (d = <<r, f>> /\ r # q) \/ (d = <<q, f>> /\ r = p)
         /\ \A r \in Pid, f \in Feature, c \in Consent : Moved(d, q, p) = <<r, f, c>> =>
              (d = <<r, f, c>> /\ r # q) \/ (d = <<q, f, c>> /\ r = p)
<1>1. CASE d = Nowhere
  <2>1. Moved(d, q, p) = Nowhere
    BY <1>1 DEF Moved, Under
  <2> QED
    BY <2>1, Somewhere
<1>2. CASE d \in Path
  <2>1. CASE \E s \in Pid : d = <<s>>
    <3>1. PICK s \in Pid : d = <<s>>
      BY <2>1
    <3>2. Moved(d, q, p) = IF s = q THEN <<p>> ELSE <<s>>
      BY <3>1, RenamedRoot
    <3> QED
      BY <3>2, Lengths
  <2>2. CASE \E s \in Pid, g \in Feature : d = <<s, g>>
    <3>1. PICK s \in Pid, g \in Feature : d = <<s, g>>
      BY <2>2
    <3>2. Moved(<<s, g>>, q, p) = IF s = q THEN <<p, g>> ELSE <<s, g>>
      BY RenamedFeature
    <3>3. CASE s = q
      <4>1. Moved(d, q, p) = <<p, g>> /\ d = <<q, g>>
        BY <3>1, <3>2, <3>3
      <4> QED
        BY <4>1, Lengths
    <3>4. CASE s # q
      <4>1. Moved(d, q, p) = <<s, g>> /\ d = <<s, g>>
        BY <3>1, <3>2, <3>4
      <4>2. ASSUME NEW r \in Pid, NEW f \in Feature, Moved(d, q, p) = <<r, f>>
            PROVE  d = <<r, f>> /\ r # q
        <5>1. <<s, g>> = <<r, f>>
          BY <4>1, <4>2
        <5> QED
          BY <3>4, <4>1, <5>1
      <4>3. ASSUME NEW r \in Pid, NEW f \in Feature, NEW c \in Consent,
                   Moved(d, q, p) = <<r, f, c>>
            PROVE  d = <<r, f, c>> /\ r # q
        <5>1. <<s, g>> = <<r, f, c>>
          BY <4>1, <4>3
        <5> QED
          BY <3>4, <4>1, <5>1
      <4> QED
        BY <4>2, <4>3
    <3> QED
      BY <3>3, <3>4
  <2>3. CASE \E s \in Pid, g \in Feature, k \in Consent : d = <<s, g, k>>
    <3>1. PICK s \in Pid, g \in Feature, k \in Consent : d = <<s, g, k>>
      BY <2>3
    <3>2. Moved(<<s, g, k>>, q, p) = IF s = q THEN <<p, g, k>> ELSE <<s, g, k>>
      BY RenamedConsent
    <3>3. CASE s = q
      <4>1. Moved(d, q, p) = <<p, g, k>> /\ d = <<q, g, k>>
        BY <3>1, <3>2, <3>3
      <4> QED
        BY <4>1, Lengths
    <3>4. CASE s # q
      <4>1. Moved(d, q, p) = <<s, g, k>> /\ d = <<s, g, k>>
        BY <3>1, <3>2, <3>4
      <4>2. ASSUME NEW r \in Pid, NEW f \in Feature, Moved(d, q, p) = <<r, f>>
            PROVE  d = <<r, f>> /\ r # q
        <5>1. <<s, g, k>> = <<r, f>>
          BY <4>1, <4>2
        <5> QED
          BY <3>4, <4>1, <5>1
      <4>3. ASSUME NEW r \in Pid, NEW f \in Feature, NEW c \in Consent,
                   Moved(d, q, p) = <<r, f, c>>
            PROVE  d = <<r, f, c>> /\ r # q
        <5>1. <<s, g, k>> = <<r, f, c>>
          BY <4>1, <4>3
        <5> QED
          BY <3>4, <4>1, <5>1
      <4> QED
        BY <4>2, <4>3
    <3> QED
      BY <3>3, <3>4
  <2> QED
    BY <1>2, <2>1, <2>2, <2>3, Paths
<1> QED
  BY <1>1, <1>2

LEMMA KeptRenameRoot ==
  ASSUME NEW p \in Pid, Types, Held, Kept, RenameRoot(p)
  PROVE  Kept'
<1>1. /\ proc[p].pc = "rename" /\ proc[p] \in Process /\ fate' = fate
      /\ Src(p) \in Pid /\ Src(p) # p
  BY Engaging DEF RenameRoot, Types, Engaged, Holding, Locking
<1>2. CASE UNCHANGED <<dirs, at>> /\ (Set(p, Leave(p)) \/ Set(p, LeaveDisturbed(p)))
  BY <1>1, <1>2, KeptLeaving
<1>3. CASE /\ <<Src(p)>> \in dirs
           /\ dirs' = {Moved(d, Src(p), p) : d \in dirs}
           /\ at' = [x \in File |-> Moved(at[x], Src(p), p)]
           /\ Set(p, [proc[p] EXCEPT !.pc = "close"])
  <2>0. proc'[p] = [proc[p] EXCEPT !.pc = "close"] /\ Others(p)
    BY <1>3, Setting
  <2>1. proc'[p].pc = "close"
    BY <1>1, <2>0 DEF Process
  <2>2. Filled(p)' /\ Clear(p)'
    BY <2>1 DEF Filled, Clear, Filling
  <2>3. /\ \A d \in dirs : Moved(d, Src(p), p) \in dirs' /\ d \in Path
        /\ \A e \in dirs' : \E d \in dirs : e = Moved(d, Src(p), p)
        /\ \A x \in File : at'[x] = Moved(at[x], Src(p), p) /\ at[x] \in Path \cup {Nowhere}
    BY <1>3 DEF Types
  <2> DEFINE q == Src(p)
  <2>4. q \in Pid /\ q # p /\ <<q>> \in dirs
    BY <1>1, <1>3
  <2>5. /\ \A d \in dirs : Moved(d, q, p) \in dirs' /\ d \in Path
        /\ \A e \in dirs' : \E d \in dirs : e = Moved(d, q, p)
        /\ \A x \in File : at'[x] = Moved(at[x], q, p) /\ at[x] \in Path \cup {Nowhere}
    BY <2>3
  <2>6. \A r \in Pid : proc[r].pc \in Filling => r # q
    BY <1>1, Spared DEF Filling, Outside, Locking
  <2> HIDE DEF q
  <2>7. ASSUME NEW r \in Pid, NEW f \in Feature
        PROVE  /\ r # q => Moved(<<r, f>>, q, p) = <<r, f>> /\ Moved(<<r>>, q, p) = <<r>>
               /\ Moved(<<q, f>>, q, p) = <<p, f>> /\ Moved(<<q>>, q, p) = <<p>>
               /\ \A c \in Consent :
                    /\ r # q => Moved(<<r, f, c>>, q, p) = <<r, f, c>>
                    /\ Moved(<<q, f, c>>, q, p) = <<p, f, c>>
    <3>1. /\ Moved(<<r, f>>, q, p) = IF r = q THEN <<p, f>> ELSE <<r, f>>
          /\ Moved(<<q, f>>, q, p) = <<p, f>>
      BY <2>4, RenamedFeature
    <3>2. /\ Moved(<<r>>, q, p) = IF r = q THEN <<p>> ELSE <<r>>
          /\ Moved(<<q>>, q, p) = <<p>>
      BY <2>4, RenamedRoot
    <3>3. ASSUME NEW c \in Consent
          PROVE  /\ Moved(<<r, f, c>>, q, p) = IF r = q THEN <<p, f, c>> ELSE <<r, f, c>>
                 /\ Moved(<<q, f, c>>, q, p) = <<p, f, c>>
      BY <2>4, RenamedConsent
    <3> QED
      BY <3>1, <3>2, <3>3
  <2>8. Closed'
    <3>1. ASSUME NEW r \in Pid, NEW f \in Feature, <<r, f>> \in dirs'
          PROVE  <<r>> \in dirs'
      <4>1. PICK d \in dirs : <<r, f>> = Moved(d, q, p)
        BY <2>5, <3>1
      <4>2. (d = <<r, f>> /\ r # q) \/ (d = <<q, f>> /\ r = p)
        BY <2>4, <2>5, <4>1, Renamed
      <4>3. CASE d = <<r, f>> /\ r # q
        <5>1. <<r>> \in dirs
          BY <4>3 DEF Kept, Closed
        <5> QED
          BY <2>5, <2>7, <4>3, <5>1
      <4>4. CASE r = p
        <5>1. Moved(<<q>>, q, p) \in dirs'
          BY <2>4, <2>5
        <5> QED
          BY <2>7, <4>4, <5>1
      <4> QED
        BY <4>2, <4>3, <4>4
    <3>2. ASSUME NEW r \in Pid, NEW f \in Feature, NEW c \in Consent, <<r, f, c>> \in dirs'
          PROVE  <<r, f>> \in dirs'
      <4>1. PICK d \in dirs : <<r, f, c>> = Moved(d, q, p)
        BY <2>5, <3>2
      <4>2. (d = <<r, f, c>> /\ r # q) \/ (d = <<q, f, c>> /\ r = p)
        BY <2>4, <2>5, <4>1, Renamed
      <4>3. CASE d = <<r, f, c>> /\ r # q
        <5>1. <<r, f>> \in dirs
          BY <4>3 DEF Kept, Closed
        <5> QED
          BY <2>5, <2>7, <4>3, <5>1
      <4>4. CASE d = <<q, f, c>> /\ r = p
        <5>1. <<q, f>> \in dirs
          BY <2>4, <4>4 DEF Kept, Closed
        <5>2. Moved(<<q, f>>, q, p) \in dirs'
          BY <2>5, <5>1
        <5> QED
          BY <2>7, <4>4, <5>2
      <4> QED
        BY <4>2, <4>3, <4>4
    <3> QED
      BY <3>1, <3>2 DEF Closed
  <2>9. Placed'
    <3>1. ASSUME NEW x \in File, fate[x] = "none" PROVE at'[x] = Nowhere
      <4>1. at[x] = Nowhere
        BY <3>1 DEF Kept, Placed
      <4> QED
        BY <2>5, <4>1 DEF Moved, Under
    <3>2. ASSUME NEW x \in Batch, fate[x] = "kept"
          PROVE  at'[x] \in dirs' /\ at'[x] \in Batches
      <4>1. at[x] \in dirs /\ at[x] \in Batches /\ x \in File
        BY <3>2 DEF Kept, Placed, File
      <4>2. PICK r \in Pid, f \in Feature, c \in Consent : at[x] = <<r, f, c>>
        BY <4>1 DEF Batches
      <4>3. Moved(<<r, f, c>>, q, p) = <<r, f, c>> \/ Moved(<<r, f, c>>, q, p) = <<p, f, c>>
        BY <2>7
      <4>4. at'[x] \in dirs' /\ at'[x] = Moved(<<r, f, c>>, q, p)
        BY <2>5, <4>1, <4>2
      <4> QED
        BY <4>3, <4>4 DEF Batches
    <3> QED
      BY <1>1, <3>1, <3>2 DEF Placed
  <2>10. ASSUME NEW r \in Pid, r # p PROVE Filled(r)' /\ Clear(r)'
    <3>1. \A y \in Batch, f \in Feature, c \in Consent :
            at'[y] = <<r, f, c>> => at[y] = <<r, f, c>>
      <4> SUFFICES ASSUME NEW y \in Batch, NEW f \in Feature, NEW c \in Consent,
                          at'[y] = <<r, f, c>>
                   PROVE  at[y] = <<r, f, c>>
        OBVIOUS
      <4>1. Moved(at[y], q, p) = <<r, f, c>> /\ at[y] \in Path \cup {Nowhere}
        BY <2>5 DEF File
      <4> QED
        BY <2>4, <2>10, <4>1, Renamed
    <3>2. proc[r].pc \in Filling =>
            /\ \A f \in Feature : <<r, f>> \in dirs => <<r, f>> \in dirs'
            /\ \A f \in Feature, c \in Consent : <<r, f, c>> \in dirs => <<r, f, c>> \in dirs'
      <4> SUFFICES ASSUME r # q
                   PROVE  /\ \A f \in Feature : <<r, f>> \in dirs => <<r, f>> \in dirs'
                          /\ \A f \in Feature, c \in Consent :
                               <<r, f, c>> \in dirs => <<r, f, c>> \in dirs'
        BY <2>6
      <4>1. ASSUME NEW f \in Feature, <<r, f>> \in dirs PROVE <<r, f>> \in dirs'
        <5>1. Moved(<<r, f>>, q, p) \in dirs'
          BY <2>5, <4>1
        <5> QED
          BY <2>7, <5>1
      <4>2. ASSUME NEW f \in Feature, NEW c \in Consent, <<r, f, c>> \in dirs
            PROVE  <<r, f, c>> \in dirs'
        <5>1. Moved(<<r, f, c>>, q, p) \in dirs'
          BY <2>5, <4>2
        <5> QED
          BY <2>7, <5>1
      <4> QED
        BY <4>1, <4>2
    <3> QED
      BY <2>0, <2>10, <3>1, <3>2, Undisturbed DEF Kept, Others
  <2> QED
    BY <2>2, <2>8, <2>9, <2>10 DEF Kept
<1> QED
  BY <1>2, <1>3 DEF RenameRoot, GiveUp

LEMMA KeptStep ==
  ASSUME Types, Held, Kept, [Next]_vars
  PROVE  Kept'
<1>1. ASSUME NEW p \in Pid, InitializeStep(p) PROVE Kept'
  BY <1>1, KeptLocks, KeptCreateProcessRoot, KeptRenameRoot, KeptEnterFeature,
     KeptEnterConsent, KeptLookForFile, KeptMoveFile, KeptLeaveConsent, KeptSweep,
     KeptLeaveFeature, KeptLeaveProcess DEF InitializeStep
<1>2. ASSUME UNCHANGED vars PROVE Kept'
  <2>1. Closed' /\ Placed'
    BY <1>2 DEF vars, Kept, Closed, Placed
  <2>2. ASSUME NEW r \in Pid PROVE Filled(r)' /\ Clear(r)'
    BY <1>2, Undisturbed DEF Kept, vars
  <2> QED
    BY <2>1, <2>2 DEF Kept
<1>3. ASSUME NEW p \in Pid, Begin(p) \/ RunningStep(p) \/ Exit(p) PROVE Kept'
  BY <1>3, KeptBegin, KeptRunning, KeptLocks
<1> QED
  BY <1>1, <1>2, <1>3, KeptDropLoose DEF Next

LEMMA StartOfFiles == Init => Types /\ Held /\ Kept
<1> SUFFICES ASSUME Init PROVE Kept
  BY Start
<1>1. \A p \in Pid : proc[p] = Idle
  BY DEF Init
<1>2. \A p \in Pid : Filled(p) /\ Clear(p)
  BY <1>1 DEF Filled, Clear, Filling, Idle
<1>3. Closed /\ Placed
  BY DEF Init, Closed, Placed, File
<1> QED
  BY <1>2, <1>3 DEF Kept

\* Whoever dies wherever in a migration, a batch is in a directory that exists
\* until it is uploaded, or loses its name (SdkStorage's migration handlers,
\* Rename(), rmdir): no rename replaces it, and no directory goes with it.
THEOREM BatchesAreKept == ASSUME ReusedInPeace PROVE Spec => []FilesKept
<1>1. Init => Types /\ Held /\ Kept
  BY StartOfFiles
<1>2. Types /\ Held /\ Kept /\ [Next]_vars => (Types /\ Held /\ Kept)'
  BY TypesStep, HeldStep, KeptStep
<1>3. Kept => FilesKept
  BY DEF Kept, Placed, FilesKept
<1> QED
  BY <1>1, <1>2, <1>3, PTL DEF Spec

-----------------------------------------------------------------------------
(* Live data *)

\* x stays under p's directory, or is no more.
Stays(p, x) == Under(p, at[x]) => Under(p, at'[x]) \/ at'[x] = Nowhere

LEMMA StaysInitialize ==
  ASSUME Types, Held, NEW p \in Pid, NEW x \in File, proc[p].pc = "running",
         NEW r \in Pid, InitializeStep(r)
  PROVE  Stays(p, x)
<1>1. at[x] \in Path \cup {Nowhere} /\ x \in File /\ proc[p].pc \notin Outside
  BY DEF Types, Outside
<1>2. CASE at'[x] \in {at[x], Nowhere}
  BY <1>2 DEF Stays
<1>3. ASSUME RenameRoot(r), at'[x] = Moved(at[x], Src(r), r) PROVE Stays(p, x)
  <2>1. Src(r) # p
    BY <1>1, <1>3, Spared DEF RenameRoot, Locking
  <2>2. Under(p, at[x]) => ~Under(Src(r), at[x])
    BY <2>1 DEF Under
  <2> QED
    BY <1>3, <2>2 DEF Stays, Moved
<1>4. ASSUME MoveFile(r), at[x] = SrcConsent(r) PROVE Stays(p, x)
  <2>1. Src(r) # p
    BY <1>1, <1>4, Spared DEF MoveFile, Locking
  <2>2. ~Under(p, at[x])
    BY <1>4, <2>1, Ways DEF Under, MoveFile
  <2> QED
    BY <2>2 DEF Stays
<1>5. CASE MoveFile(r)
  BY <1>2, <1>4, <1>5 DEF MoveFile
<1>6. CASE RenameRoot(r)
  BY <1>2, <1>3, <1>6 DEF RenameRoot
<1>7. CASE LookForFile(r) \/ SweepFeature(r) \/ SweepProcess(r)
  BY <1>2, <1>7 DEF LookForFile, SweepFeature, SweepProcess, SweepLoose, Types
<1>8. CASE \/ OpenOwnLock(r) \/ TakeOwnLock(r) \/ ListProcessDirs(r) \/ ScanEnds(r)
           \/ CreateProcessRoot(r) \/ OpenAbandonedLock(r) \/ TakeAbandonedLock(r)
           \/ CloseLock(r) \/ DeleteLock(r) \/ LookForRoot(r) \/ ListFeatures(r)
  BY <1>2, <1>8 DEF OpenOwnLock, TakeOwnLock, ListProcessDirs, ScanEnds, CreateProcessRoot,
     OpenAbandonedLock, TakeAbandonedLock, CloseLock, DeleteLock, LookForRoot, ListFeatures
<1>9. CASE \/ EnterFeature(r) \/ EnterConsent(r) \/ LeaveConsent(r) \/ LeaveFeature(r)
           \/ LeaveProcess(r)
  BY <1>2, <1>9 DEF EnterFeature, EnterConsent, LeaveConsent, LeaveFeature, LeaveProcess
<1> QED
  BY <1>5, <1>6, <1>7, <1>8, <1>9 DEF InitializeStep

\* A migration never takes a file from a process that runs: what is under its
\* directory stays there until it is deleted (sdk.hpp: the lock tells others that
\* the instance is still managing its files).
THEOREM LiveDataIsLeft == ASSUME ReusedInPeace PROVE Spec => LiveDataStays
<1>1. Init => Types /\ Held /\ Kept
  BY StartOfFiles
<1>2. Types /\ Held /\ Kept /\ [Next]_vars => (Types /\ Held /\ Kept)'
  BY TypesStep, HeldStep, KeptStep
<1>3. ASSUME Types, Held, Kept, [Next]_vars
      PROVE  [\A p \in Pid, x \in File :
                Ready(p) /\ Under(p, at[x]) => Under(p, at'[x]) \/ at'[x] = Nowhere]_vars
  <2> SUFFICES ASSUME NEW p \in Pid, NEW x \in File, proc[p].pc = "running", Next
               PROVE  Stays(p, x)
    BY <1>3 DEF Ready, Stays
  <2>1. CASE at'[x] \in {at[x], Nowhere}
    BY <2>1 DEF Stays
  <2>2. CASE at[x] = Nowhere
    BY <2>2 DEF Stays, Under
  <2>3. ASSUME NEW r \in Pid, RunningStep(r) PROVE Stays(p, x)
    <3>1. ASSUME NEW y \in Batch, WriteBatch(r, y) PROVE Stays(p, x)
      <4>1. y = x => at[x] = Nowhere
        BY <1>3, <3>1 DEF WriteBatch, Kept, Placed
      <4>2. y # x => at'[x] = at[x]
        BY <1>3, <3>1 DEF WriteBatch, Types
      <4> QED
        BY <2>1, <2>2, <4>1, <4>2
    <3>2. ASSUME NEW y \in Batch, FinishBatch(r, y) PROVE Stays(p, x)
      BY <1>3, <2>1, <3>2 DEF FinishBatch, Types
    <3> QED
      BY <2>1, <2>3, <3>1, <3>2 DEF RunningStep, RegisterFeature
  <2>4. ASSUME NEW y \in Loose, DropLoose(y) PROVE Stays(p, x)
    <3>1. y = x => at[x] = Nowhere
      BY <1>3, <2>4 DEF DropLoose, Kept, Placed
    <3>2. y # x => at'[x] = at[x]
      BY <1>3, <2>4 DEF DropLoose, Types
    <3> QED
      BY <2>1, <2>2, <3>1, <3>2
  <2>5. ASSUME NEW r \in Pid, Begin(r) \/ Exit(r) PROVE Stays(p, x)
    BY <2>1, <2>5 DEF Begin, Exit
  <2> QED
    BY <1>3, <2>3, <2>4, <2>5, StaysInitialize DEF Next
<1> QED
  BY <1>1, <1>2, <1>3, PTL DEF Spec, LiveDataStays

-----------------------------------------------------------------------------
(* Conflicts; whatever becomes of the locks *)

Unborn == \A x \in File : fate[x] = "none" => at[x] = Nowhere

\* The files that p still has to move are files, and not under its own directory.
Listed(p) ==
  proc[p].pc \in {"file", "move"} =>
    \A x \in proc[p].files : fate[x] # "none" /\ ~Under(p, at[x])

Listing == Types /\ Unborn /\ \A p \in Pid : Listed(p)

\* What a step of r makes of a file.
Drifts(r, x) ==
  /\ \/ at'[x] \in {at[x], Nowhere}
     \/ fate[x] # "none" /\ Under(r, at'[x])
     \/ fate[x] = "none" /\ fate'[x] # "none"
  /\ fate'[x] = "none" => fate[x] = "none"

LEMMA DriftsRename ==
  ASSUME Types, Unborn, NEW r \in Pid, NEW x \in File, RenameRoot(r)
  PROVE  Drifts(r, x)
<1>1. fate' = fate /\ at[x] \in Path \cup {Nowhere} /\ Src(r) \in Pid
  BY Engaging DEF RenameRoot, Types, Engaged, Holding, Locking
<1>2. CASE at' = at
  BY <1>1, <1>2 DEF Drifts
<1>3. CASE at'[x] = Moved(at[x], Src(r), r)
  <2>1. CASE fate[x] = "none"
    <3>1. at'[x] = Nowhere
      BY <1>3, <2>1 DEF Unborn, Moved, Under
    <3> QED
      BY <1>1, <3>1 DEF Drifts
  <2>2. CASE ~Under(Src(r), at[x])
    BY <1>1, <1>3, <2>2 DEF Drifts, Moved
  <2>3. CASE fate[x] # "none" /\ Under(Src(r), at[x])
    <3>1. at[x] \in Path /\ at'[x] = [at[x] EXCEPT ![1] = r]
      BY <1>1, <1>3, <2>3 DEF Under, Moved
    <3>2. Under(r, at'[x])
      <4>1. CASE \E s \in Pid : at[x] = <<s>>
        BY <3>1, <4>1, Somewhere DEF Under, Nowhere
      <4>2. CASE \E s \in Pid, f \in Feature : at[x] = <<s, f>>
        BY <3>1, <4>2, Somewhere DEF Under, Nowhere
      <4>3. CASE \E s \in Pid, f \in Feature, c \in Consent : at[x] = <<s, f, c>>
        BY <3>1, <4>3, Somewhere DEF Under, Nowhere
      <4> QED
        BY <3>1, <4>1, <4>2, <4>3, Paths
    <3> QED
      BY <1>1, <2>3, <3>2 DEF Drifts
  <2> QED
    BY <2>1, <2>2, <2>3
<1> QED
  BY <1>2, <1>3 DEF RenameRoot

LEMMA DriftsMove ==
  ASSUME Types, Unborn, NEW r \in Pid, NEW x \in File, MoveFile(r)
  PROVE  Drifts(r, x)
<1>1. fate' = fate /\ at'[x] \in {at[x], Nowhere, DstConsent(r)}
  BY DEF MoveFile
<1>2. CASE at'[x] \in {at[x], Nowhere}
  BY <1>1, <1>2 DEF Drifts
<1>3. CASE at'[x] = DstConsent(r) /\ at'[x] \notin {at[x], Nowhere}
  <2>1. PICK c \in Consent : /\ SrcConsent(r) = <<Src(r), Current(r), c>>
                             /\ DstConsent(r) = <<r, Current(r), c>>
    BY Ways DEF MoveFile
  <2>2. at[x] = SrcConsent(r)
    BY <1>3 DEF MoveFile
  <2>3. fate[x] # "none"
    BY <2>1, <2>2, Somewhere DEF Unborn
  <2>4. Under(r, at'[x])
    BY <1>3, <2>1 DEF Under
  <2> QED
    BY <1>1, <2>3, <2>4 DEF Drifts
<1> QED
  BY <1>1, <1>2, <1>3

LEMMA DriftsStep ==
  ASSUME Types, Unborn, NEW r \in Pid, NEW x \in File, InitializeStep(r) \/ RunningStep(r)
  PROVE  Drifts(r, x)
<1>1. CASE at'[x] \in {at[x], Nowhere} /\ (fate'[x] = "none" => fate[x] = "none")
  BY <1>1 DEF Drifts
<1>2. CASE \/ OpenOwnLock(r) \/ TakeOwnLock(r) \/ ListProcessDirs(r) \/ ScanEnds(r)
           \/ CreateProcessRoot(r) \/ OpenAbandonedLock(r) \/ TakeAbandonedLock(r)
           \/ CloseLock(r) \/ DeleteLock(r) \/ LookForRoot(r) \/ ListFeatures(r)
  BY <1>1, <1>2 DEF OpenOwnLock, TakeOwnLock, ListProcessDirs, ScanEnds, CreateProcessRoot,
     OpenAbandonedLock, TakeAbandonedLock, CloseLock, DeleteLock, LookForRoot, ListFeatures
<1>3. CASE \/ EnterFeature(r) \/ EnterConsent(r) \/ LeaveConsent(r) \/ LeaveFeature(r)
           \/ LeaveProcess(r)
  BY <1>1, <1>3 DEF EnterFeature, EnterConsent, LeaveConsent, LeaveFeature, LeaveProcess
<1>4. CASE LookForFile(r) \/ SweepFeature(r) \/ SweepProcess(r)
  BY <1>1, <1>4 DEF LookForFile, SweepFeature, SweepProcess, SweepLoose, Types
<1>5. ASSUME NEW y \in Batch, WriteBatch(r, y) PROVE Drifts(r, x)
  <2>1. y # x => at'[x] = at[x] /\ fate'[x] = fate[x]
    BY <1>5 DEF WriteBatch, Types
  <2>2. y = x => fate[x] = "none" /\ fate'[x] = "kept"
    BY <1>5 DEF WriteBatch, Types
  <2> QED
    BY <2>1, <2>2 DEF Drifts
<1>6. ASSUME NEW y \in Batch, FinishBatch(r, y) PROVE Drifts(r, x)
  BY <1>1, <1>6 DEF FinishBatch, Types
<1>7. ASSUME NEW f \in Feature, RegisterFeature(r, f) PROVE Drifts(r, x)
  BY <1>1, <1>7 DEF RegisterFeature
<1>8. CASE InitializeStep(r)
  BY <1>2, <1>3, <1>4, <1>8, DriftsRename, DriftsMove DEF InitializeStep
<1> QED
  BY <1>5, <1>6, <1>7, <1>8 DEF RunningStep

\* A step of another process, or of none.
LEMMA ListedOthers ==
  ASSUME NEW p \in Pid, NEW r \in Pid, r # p, Types, Listed(p),
         proc'[p] = proc[p], \A x \in File : Drifts(r, x)
  PROVE  Listed(p)'
<1>1. proc[p].files \subseteq File
  BY DEF Types, Process
<1>2. \A x : Under(r, at'[x]) => ~Under(p, at'[x])
  BY DEF Under
<1>3. ~Under(p, Nowhere)
  BY DEF Under
<1> QED
  BY <1>1, <1>2, <1>3 DEF Listed, Drifts

\* A step of the process itself.
LEMMA ListedOwn ==
  ASSUME NEW p \in Pid, Types, Types', Unborn, Listed(p),
         InitializeStep(p) \/ RunningStep(p)
  PROVE  Listed(p)'
<1>1. proc[p] \in Process /\ proc[p].files \subseteq File
  BY DEF Types, Process
<1>2. CASE proc'[p].pc \notin {"file", "move"}
  BY <1>2 DEF Listed
<1>3. CASE \/ OpenOwnLock(p) \/ TakeOwnLock(p) \/ ListProcessDirs(p) \/ ScanEnds(p)
           \/ OpenAbandonedLock(p) \/ TakeAbandonedLock(p) \/ CloseLock(p) \/ DeleteLock(p)
           \/ LookForRoot(p) \/ ListFeatures(p)
  BY <1>2, <1>3, NotFilling DEF Filling
<1>4. ASSUME NEW s, Set(p, s), s.pc \notin {"file", "move"} PROVE Listed(p)'
  BY <1>2, <1>4, Setting
<1>5. /\ Leave(p).pc = "scan" /\ LeaveDisturbed(p).pc = "scan" /\ Fail(p).pc = "failed"
      /\ [proc[p] EXCEPT !.pc = "list", !.pass = "move"].pc = "list"
      /\ [proc[p] EXCEPT !.pc = "close"].pc = "close"
      /\ [proc[p] EXCEPT !.pc = "consent", !.consent = {}].pc = "consent"
      /\ [proc[p] EXCEPT !.pc = "feature", !.feature = {}].pc = "feature"
      /\ [proc[p] EXCEPT !.pc = "rmFeature"].pc = "rmFeature"
      /\ [proc[p] EXCEPT !.pc = "rmProcess"].pc = "rmProcess"
      /\ \A f, S, T : [proc[p] EXCEPT !.pc = "consent", !.feature = f, !.features = S,
                                      !.consents = T].pc = "consent"
  BY <1>1 DEF Leave, LeaveDisturbed, Fail, Process
<1>6. CASE CreateProcessRoot(p) \/ RenameRoot(p)
  BY <1>4, <1>5, <1>6 DEF CreateProcessRoot, RenameRoot, GiveUp
<1>7. CASE LeaveConsent(p) \/ LeaveFeature(p) \/ LeaveProcess(p)
  BY <1>4, <1>5, <1>7 DEF LeaveConsent, LeaveFeature, LeaveProcess, RemoveDir, GiveUp
<1>8. CASE SweepFeature(p) \/ SweepProcess(p)
  BY <1>4, <1>5, <1>8 DEF SweepFeature, SweepProcess, SweepLoose, GiveUp
<1>9. CASE EnterFeature(p)
  BY <1>4, <1>5, <1>9 DEF EnterFeature, GiveUp
<1>10. CASE RunningStep(p)
  <2>1. proc' = proc /\ proc[p].pc = "running"
    BY <1>10, TypesRunning
  <2> QED
    BY <1>2, <2>1
<1>11. CASE EnterConsent(p)
  <2>1. CASE Set(p, LeaveDisturbed(p))
    BY <1>4, <1>5, <2>1
  <2>2. ASSUME NEW c \in proc[p].consents,
               Set(p, [proc[p] EXCEPT !.pc = "file", !.consent = {c},
                                      !.consents = proc[p].consents \ {c},
                                      !.files = FilesIn(<<Src(p), Current(p), c>>)])
        PROVE  Listed(p)'
    <3>0. proc'[p] = [proc[p] EXCEPT !.pc = "file", !.consent = {c},
                                     !.consents = proc[p].consents \ {c},
                                     !.files = FilesIn(<<Src(p), Current(p), c>>)]
      BY <2>2, Setting
    <3>1. proc'[p].files = FilesIn(<<Src(p), Current(p), c>>)
      BY <1>1, <3>0 DEF Process
    <3>2. Src(p) # p
      BY <1>11, Engaging DEF EnterConsent, Engaged, Holding, Locking
    <3>3. ASSUME NEW x \in File, at[x] = <<Src(p), Current(p), c>>
          PROVE  fate[x] # "none" /\ ~Under(p, at[x])
      BY <3>2, <3>3, Somewhere DEF Unborn, Under
    <3>4. at' = at /\ fate' = fate
      BY <1>11 DEF EnterConsent
    <3> QED
      BY <3>1, <3>3, <3>4 DEF Listed, FilesIn
  <2> QED
    BY <1>11, <2>1, <2>2 DEF EnterConsent, GiveUp
<1>12. ASSUME proc[p].pc \in {"file", "move"}, proc'[p].files \subseteq proc[p].files,
              \A x \in proc'[p].files : /\ at'[x] \in {at[x], Nowhere}
                                        /\ fate'[x] = "none" => fate[x] = "none"
       PROVE  Listed(p)'
  BY <1>12 DEF Listed, Under
<1>13. CASE LookForFile(p)
  <2> DEFINE x == CHOOSE x \in proc[p].files : TRUE
  <2>0. proc[p].pc = "file"
    BY <1>13 DEF LookForFile
  <2>1. CASE Set(p, LeaveDisturbed(p))
    BY <1>4, <1>5, <2>1
  <2>2. CASE at' = [at EXCEPT ![x] = Nowhere] /\ fate' = [fate EXCEPT ![x] = "conflict"]
             /\ Set(p, [proc[p] EXCEPT !.files = proc[p].files \ {x}])
    <3>1. proc'[p] = [proc[p] EXCEPT !.files = proc[p].files \ {x}]
      BY <2>2, Setting
    <3>2. proc'[p].files \subseteq proc[p].files
      BY <1>1, <3>1 DEF Process
    <3>3. \A y \in File : at'[y] \in {at[y], Nowhere} /\ (fate'[y] = "none" => fate[y] = "none")
      BY <2>2 DEF Types
    <3> QED
      BY <1>1, <1>12, <2>0, <3>2, <3>3
  <2>3. CASE UNCHANGED <<at, fate>> /\ Set(p, [proc[p] EXCEPT !.pc = "move"])
    <3>1. proc'[p] = [proc[p] EXCEPT !.pc = "move"]
      BY <2>3, Setting
    <3>2. proc'[p].files = proc[p].files
      BY <1>1, <3>1 DEF Process
    <3> QED
      BY <1>12, <2>0, <2>3, <3>2
  <2> QED
    BY <1>13, <2>1, <2>2, <2>3 DEF LookForFile, GiveUp
<1>14. CASE MoveFile(p)
  <2> DEFINE x == CHOOSE x \in proc[p].files : TRUE
  <2>0. proc[p].pc = "move" /\ fate' = fate
    BY <1>14 DEF MoveFile
  <2>1. CASE Set(p, LeaveDisturbed(p)) \/ Set(p, Leave(p))
    BY <1>4, <1>5, <2>1
  <2>2. CASE Set(p, [proc[p] EXCEPT !.pc = "file", !.files = proc[p].files \ {x}])
             /\ \A y \in File : y # x => at'[y] \in {at[y], Nowhere}
    <3>1. proc'[p] = [proc[p] EXCEPT !.pc = "file", !.files = proc[p].files \ {x}]
      BY <2>2, Setting
    <3>2. proc'[p].files = proc[p].files \ {x}
      BY <1>1, <3>1 DEF Process
    <3> HIDE DEF x
    <3> QED
      BY <1>1, <1>12, <2>0, <2>2, <3>2
  <2> QED
    BY <1>14, <2>1, <2>2 DEF MoveFile, GiveUp
<1> QED
  BY <1>3, <1>6, <1>7, <1>8, <1>9, <1>10, <1>11, <1>13, <1>14 DEF InitializeStep

LEMMA OthersStay ==
  ASSUME NEW p \in Pid, Types, InitializeStep(p)
  PROVE  Others(p)
<1>1. (\E s : Set(p, s)) => Others(p)
  BY Setting
<1> QED
  BY <1>1 DEF InitializeStep, OpenOwnLock, TakeOwnLock, ListProcessDirs, ScanEnds,
     CreateProcessRoot, OpenAbandonedLock, TakeAbandonedLock, CloseLock, DeleteLock,
     LookForRoot, RenameRoot, ListFeatures, EnterFeature, EnterConsent, LookForFile, MoveFile,
     LeaveConsent, SweepFeature, LeaveFeature, SweepProcess, LeaveProcess, RemoveDir,
     SweepLoose, GiveUp

LEMMA ListingStep ==
  ASSUME Listing, Types', [Next]_vars
  PROVE  Listing'
<1>1. Types /\ Unborn /\ \A p \in Pid : Listed(p)
  BY DEF Listing
<1>2. ASSUME NEW r \in Pid, InitializeStep(r) \/ RunningStep(r), Others(r)
      PROVE  Listing'
  <2>1. \A x \in File : Drifts(r, x)
    BY <1>1, <1>2, DriftsStep
  <2>2. Unborn'
    BY <1>1, <2>1 DEF Unborn, Drifts
  <2>3. ASSUME NEW p \in Pid, p # r PROVE Listed(p)'
    BY <1>1, <1>2, <2>1, <2>3, ListedOthers DEF Others
  <2>4. Listed(r)'
    BY <1>1, <1>2, ListedOwn
  <2> QED
    BY <2>2, <2>3, <2>4 DEF Listing
<1>3. ASSUME NEW r \in Pid, InitializeStep(r) PROVE Others(r)
  BY <1>1, <1>3, OthersStay
<1>4. ASSUME NEW r \in Pid, RunningStep(r) PROVE Others(r)
  BY <1>1, <1>4, TypesRunning DEF Others
<1>5. ASSUME UNCHANGED <<at, fate>>,
             \A p \in Pid : \/ proc'[p].pc \notin {"file", "move"}
                            \/ proc'[p].pc = proc[p].pc /\ proc'[p].files = proc[p].files
      PROVE  Listing'
  BY <1>1, <1>5 DEF Listing, Unborn, Listed
<1>6. ASSUME NEW r \in Pid, Begin(r) PROVE Listing'
  <2>1. /\ proc'[r].pc = "open"
        /\ \A p \in Pid : p # r => proc'[p] = [proc[p] EXCEPT !.alone = FALSE]
    BY <1>6 DEF Begin, Idle
  <2>2. \A p \in Pid : p # r => proc'[p].pc = proc[p].pc /\ proc'[p].files = proc[p].files
    BY <1>1, <2>1 DEF Types, Process
  <2> QED
    BY <1>5, <1>6, <2>1, <2>2 DEF Begin
<1>7. ASSUME NEW r \in Pid, Exit(r) PROVE Listing'
  BY <1>1, <1>5, <1>7, NotFilling DEF Others, Filling
<1>8. ASSUME NEW y \in Loose, DropLoose(y) PROVE Listing'
  <2>1. /\ \A x \in File : x # y => at'[x] = at[x] /\ fate'[x] = fate[x]
        /\ y \in File /\ fate[y] = "none" /\ fate'[y] = "kept"
        /\ \A p \in Pid : proc'[p] = proc[p] \/ proc'[p] = [proc[p] EXCEPT !.alone = FALSE]
    BY <1>1, <1>8 DEF DropLoose, Types, File
  <2>2. ASSUME NEW p \in Pid PROVE Listed(p)'
    <3>1. /\ proc'[p].pc = proc[p].pc /\ proc'[p].files = proc[p].files
          /\ proc[p].files \subseteq File
      BY <1>1, <2>1 DEF Types, Process
    <3> QED
      BY <1>1, <2>1, <3>1 DEF Listed
  <2>3. Unborn'
    BY <1>1, <2>1 DEF Unborn
  <2> QED
    BY <2>2, <2>3 DEF Listing
<1>9. ASSUME UNCHANGED vars PROVE Listing'
  BY <1>5, <1>9 DEF vars
<1> QED
  BY <1>2, <1>3, <1>4, <1>6, <1>7, <1>8, <1>9 DEF Next

\* A conflict of names costs the file of the dead process, and that of the new
\* one keeps its name (HandleConsentDirectoryMigration) - even if two processes
\* should work on one directory.
THEOREM ConflictsCostTheDead == Spec => ConflictsCostTheOld
<1>1. Init => Listing
  <2> SUFFICES ASSUME Init PROVE Listing
    OBVIOUS
  <2>1. \A p \in Pid : proc[p] = Idle
    BY DEF Init
  <2>2. \A p \in Pid : Listed(p)
    BY <2>1 DEF Listed, Idle
  <2>3. Unborn /\ Types
    BY Start DEF Init, Unborn
  <2> QED
    BY <2>2, <2>3 DEF Listing
<1>2. Listing /\ [Next]_vars => Listing'
  BY TypesStep, ListingStep DEF Listing
<1>3. ASSUME Listing, [Next]_vars
      PROVE  [\A x \in File : fate'[x] = "conflict" /\ fate[x] # "conflict" =>
                \E p \in Pid : ~Under(p, at[x]) /\ proc[p].pass = "move"
                  /\ \E y \in File : y # x /\ NameOf[y] = NameOf[x] /\ Under(p, at'[y])]_vars
  <2> SUFFICES ASSUME NEW x \in File, fate'[x] = "conflict", fate[x] # "conflict", Next
               PROVE  \E p \in Pid : ~Under(p, at[x]) /\ proc[p].pass = "move"
                        /\ \E y \in File : y # x /\ NameOf[y] = NameOf[x] /\ Under(p, at'[y])
    BY <1>3
  <2>1. PICK p \in Pid : LookForFile(p)
    <3>1. ASSUME NEW p \in Pid, InitializeStep(p) PROVE LookForFile(p)
      <4>1. ~(\/ EnterFeature(p) \/ EnterConsent(p) \/ LeaveConsent(p) \/ LeaveFeature(p)
              \/ LeaveProcess(p) \/ MoveFile(p) \/ RenameRoot(p) \/ SweepFeature(p)
              \/ SweepProcess(p))
        BY DEF EnterFeature, EnterConsent, LeaveConsent, LeaveFeature, LeaveProcess, MoveFile,
               RenameRoot, SweepFeature, SweepProcess, SweepLoose
      <4>2. ~(\/ OpenOwnLock(p) \/ TakeOwnLock(p) \/ ListProcessDirs(p) \/ ScanEnds(p)
              \/ CreateProcessRoot(p) \/ OpenAbandonedLock(p) \/ TakeAbandonedLock(p)
              \/ CloseLock(p) \/ DeleteLock(p) \/ LookForRoot(p) \/ ListFeatures(p))
        BY DEF OpenOwnLock, TakeOwnLock, ListProcessDirs, ScanEnds, CreateProcessRoot,
               OpenAbandonedLock, TakeAbandonedLock, CloseLock, DeleteLock, LookForRoot,
               ListFeatures
      <4> QED
        BY <3>1, <4>1, <4>2 DEF InitializeStep
    <3>2. ASSUME NEW p \in Pid PROVE ~RunningStep(p) /\ ~Begin(p) /\ ~Exit(p)
      BY <1>3 DEF RunningStep, RegisterFeature, WriteBatch, FinishBatch, Begin, Exit,
                  Listing, Types
    <3>3. ASSUME NEW y \in Loose PROVE ~DropLoose(y)
      BY <1>3 DEF DropLoose, Listing, Types
    <3> QED
      BY <3>1, <3>2, <3>3 DEF Next
  <2> DEFINE old == CHOOSE y \in proc[p].files : TRUE
  <2>2. /\ proc[p].pc = "file" /\ old \in proc[p].files /\ Taken(DstConsent(p), NameOf[old])
        /\ at' = [at EXCEPT ![old] = Nowhere] /\ fate' = [fate EXCEPT ![old] = "conflict"]
    BY <2>1 DEF LookForFile
  <2>3. x = old
    BY <1>3, <2>2 DEF Listing, Types
  <2> HIDE DEF old
  <2>4. ~Under(p, at[x])
    BY <1>3, <2>2, <2>3 DEF Listing, Listed
  <2>5. proc[p].pass = "move"
    BY <1>3, <2>2 DEF Listing, Types, Shape, ShapeOf, Moving, Filling
  <2>6. PICK y \in File : at[y] = DstConsent(p) /\ NameOf[y] = NameOf[x]
    BY <2>2, <2>3 DEF Taken, FilesIn
  <2>7. Under(p, at[y])
    <3>1. \E c \in Consent : DstConsent(p) = <<p, Current(p), c>>
      BY <1>3, <2>2, Ways DEF Listing
    <3> QED
      BY <2>6, <3>1 DEF Under, Nowhere
  <2>8. y # x /\ at'[y] = at[y]
    BY <1>3, <2>2, <2>3, <2>4, <2>7 DEF Listing, Types
  <2> QED
    BY <2>4, <2>5, <2>6, <2>7, <2>8
<1> QED
  BY <1>1, <1>2, <1>3, PTL DEF Spec, ConflictsCostTheOld

-----------------------------------------------------------------------------
(* Alone *)

\* Nobody becomes alone.
LEMMA NeverAlone ==
  ASSUME NEW r \in Pid, Types, InitializeStep(r)
  PROVE  proc'[r].alone => proc[r].alone
<1>0. proc[r] \in Process
  BY DEF Types
<1>1. ASSUME NEW s, Set(r, s), s.alone = proc[r].alone \/ s.alone = FALSE
      PROVE  proc'[r].alone => proc[r].alone
  BY <1>1, Setting
<1>2. /\ Leave(r).alone = proc[r].alone /\ Fail(r).alone = proc[r].alone
      /\ LeaveDisturbed(r).alone = FALSE
  BY <1>0 DEF Leave, LeaveDisturbed, Fail, Process
<1> DEFINE Same == proc'[r].alone => proc[r].alone
<1>3. ASSUME OpenOwnLock(r) PROVE Same
  <2>1. ASSUME Set(r, [proc[r] EXCEPT !.pc = "lock", !.own = Opened(r)]) PROVE Same
    <3> DEFINE s == [proc[r] EXCEPT !.pc = "lock", !.own = Opened(r)]
    <3>1. s.alone = proc[r].alone
      BY <1>0 DEF Process
    <3> HIDE DEF s
    <3>2. Set(r, s)
      BY <2>1 DEF s
    <3> QED
      BY <1>1, <3>1, <3>2
  <2>2. ASSUME Set(r, Fail(r)) PROVE Same
    BY <1>1, <1>2, <2>2
  <2> QED
    BY <1>3, <2>1, <2>2 DEF OpenOwnLock
<1>4. ASSUME TakeOwnLock(r) PROVE Same
  <2>1. ASSUME Set(r, [proc[r] EXCEPT !.pc = "list", !.owns = TRUE]) PROVE Same
    <3> DEFINE s == [proc[r] EXCEPT !.pc = "list", !.owns = TRUE]
    <3>1. s.alone = proc[r].alone
      BY <1>0 DEF Process
    <3> HIDE DEF s
    <3>2. Set(r, s)
      BY <2>1 DEF s
    <3> QED
      BY <1>1, <3>1, <3>2
  <2>2. ASSUME Set(r, [Fail(r) EXCEPT !.own = NoInode]) PROVE Same
    <3> DEFINE s == [Fail(r) EXCEPT !.own = NoInode]
    <3>1. s.alone = proc[r].alone
      BY <1>0 DEF Leave, Fail, Process
    <3> HIDE DEF s
    <3>2. Set(r, s)
      BY <2>2 DEF s
    <3> QED
      BY <1>1, <3>1, <3>2
  <2> QED
    BY <1>4, <2>1, <2>2 DEF TakeOwnLock
<1>5. ASSUME CreateProcessRoot(r) PROVE Same
  <2>1. ASSUME Set(r, [proc[r] EXCEPT !.pc = "list", !.pass = "move"]) PROVE Same
    <3> DEFINE s == [proc[r] EXCEPT !.pc = "list", !.pass = "move"]
    <3>1. s.alone = proc[r].alone
      BY <1>0 DEF Process
    <3> HIDE DEF s
    <3>2. Set(r, s)
      BY <2>1 DEF s
    <3> QED
      BY <1>1, <3>1, <3>2
  <2>2. ASSUME Set(r, Fail(r)) PROVE Same
    BY <1>1, <1>2, <2>2
  <2> QED
    BY <1>5, <2>1, <2>2 DEF CreateProcessRoot
<1>6. ASSUME ScanEnds(r) PROVE Same
  <2>1. ASSUME Set(r, [proc[r] EXCEPT !.pc = IF proc[r].pass = "rename" THEN "mkdir" ELSE "running"]) PROVE Same
    <3> DEFINE s == [proc[r] EXCEPT !.pc = IF proc[r].pass = "rename" THEN "mkdir" ELSE "running"]
    <3>1. s.alone = proc[r].alone
      BY <1>0 DEF Process
    <3> HIDE DEF s
    <3>2. Set(r, s)
      BY <2>1 DEF s
    <3> QED
      BY <1>1, <3>1, <3>2
  <2> QED
    BY <1>6, <2>1 DEF ScanEnds
<1>7. ASSUME TakeAbandonedLock(r) PROVE Same
  <2>1. ASSUME Set(r, [proc[r] EXCEPT !.locked = TRUE,
                         !.pc = IF proc[r].pass = "rename" THEN "stat" ELSE "features"]) PROVE Same
    <3> DEFINE s == [proc[r] EXCEPT !.locked = TRUE,
                         !.pc = IF proc[r].pass = "rename" THEN "stat" ELSE "features"]
    <3>1. s.alone = proc[r].alone
      BY <1>0 DEF Process
    <3> HIDE DEF s
    <3>2. Set(r, s)
      BY <2>1 DEF s
    <3> QED
      BY <1>1, <3>1, <3>2
  <2>2. ASSUME Set(r, Leave(r)) PROVE Same
    BY <1>1, <1>2, <2>2
  <2> QED
    BY <1>7, <2>1, <2>2 DEF TakeAbandonedLock
<1>8. ASSUME CloseLock(r) PROVE Same
  <2>1. ASSUME Set(r, [proc[r] EXCEPT !.pc = "unlink", !.fd = NoInode, !.locked = FALSE]) PROVE Same
    <3> DEFINE s == [proc[r] EXCEPT !.pc = "unlink", !.fd = NoInode, !.locked = FALSE]
    <3>1. s.alone = proc[r].alone
      BY <1>0 DEF Process
    <3> HIDE DEF s
    <3>2. Set(r, s)
      BY <2>1 DEF s
    <3> QED
      BY <1>1, <3>1, <3>2
  <2> QED
    BY <1>8, <2>1 DEF CloseLock
<1>9. ASSUME DeleteLock(r) PROVE Same
  <2>1. ASSUME Set(r, [Leave(r) EXCEPT !.pc = "list", !.pass = "move", !.subdirs = {}]) PROVE Same
    <3> DEFINE s == [Leave(r) EXCEPT !.pc = "list", !.pass = "move", !.subdirs = {}]
    <3>1. s.alone = proc[r].alone
      BY <1>0 DEF Leave, Fail, Process
    <3> HIDE DEF s
    <3>2. Set(r, s)
      BY <2>1 DEF s
    <3> QED
      BY <1>1, <3>1, <3>2
  <2>2. ASSUME Set(r, Leave(r)) PROVE Same
    BY <1>1, <1>2, <2>2
  <2> QED
    BY <1>9, <2>1, <2>2 DEF DeleteLock
<1>10. ASSUME LookForRoot(r) PROVE Same
  <2>1. ASSUME Set(r, [proc[r] EXCEPT !.pc = "rename"]) PROVE Same
    <3> DEFINE s == [proc[r] EXCEPT !.pc = "rename"]
    <3>1. s.alone = proc[r].alone
      BY <1>0 DEF Process
    <3> HIDE DEF s
    <3>2. Set(r, s)
      BY <2>1 DEF s
    <3> QED
      BY <1>1, <3>1, <3>2
  <2>2. ASSUME Set(r, Leave(r)) PROVE Same
    BY <1>1, <1>2, <2>2
  <2> QED
    BY <1>10, <2>1, <2>2 DEF LookForRoot
<1>11. ASSUME ListProcessDirs(r) PROVE Same
  <2>1. ASSUME Set(r, [proc[r] EXCEPT !.pass = "move"]) PROVE Same
    <3> DEFINE s == [proc[r] EXCEPT !.pass = "move"]
    <3>1. s.alone = proc[r].alone
      BY <1>0 DEF Process
    <3> HIDE DEF s
    <3>2. Set(r, s)
      BY <2>1 DEF s
    <3> QED
      BY <1>1, <3>1, <3>2
  <2>2. ASSUME Set(r, [proc[r] EXCEPT !.pc = "scan", !.subdirs = SubdirsOf(<<>>) \ {r}]) PROVE Same
    <3> DEFINE s == [proc[r] EXCEPT !.pc = "scan", !.subdirs = SubdirsOf(<<>>) \ {r}]
    <3>1. s.alone = proc[r].alone
      BY <1>0 DEF Process
    <3> HIDE DEF s
    <3>2. Set(r, s)
      BY <2>2 DEF s
    <3> QED
      BY <1>1, <3>1, <3>2
  <2>3. ASSUME Set(r, [proc[r] EXCEPT !.pc = IF proc[r].pass = "rename" THEN "mkdir" ELSE "running",
                         !.alone = FALSE]) PROVE Same
    <3> DEFINE s == [proc[r] EXCEPT !.pc = IF proc[r].pass = "rename" THEN "mkdir" ELSE "running",
                         !.alone = FALSE]
    <3>1. s.alone = FALSE
      BY <1>0 DEF Process
    <3> HIDE DEF s
    <3>2. Set(r, s)
      BY <2>3 DEF s
    <3> QED
      BY <1>1, <3>1, <3>2
  <2> QED
    BY <1>11, <2>1, <2>2, <2>3 DEF ListProcessDirs
<1>12. ASSUME RenameRoot(r) PROVE Same
  <2>1. ASSUME Set(r, [proc[r] EXCEPT !.pc = "close"]) PROVE Same
    <3> DEFINE s == [proc[r] EXCEPT !.pc = "close"]
    <3>1. s.alone = proc[r].alone
      BY <1>0 DEF Process
    <3> HIDE DEF s
    <3>2. Set(r, s)
      BY <2>1 DEF s
    <3> QED
      BY <1>1, <3>1, <3>2
  <2>2. ASSUME Set(r, Leave(r)) PROVE Same
    BY <1>1, <1>2, <2>2
  <2>3. ASSUME Set(r, LeaveDisturbed(r)) PROVE Same
    BY <1>1, <1>2, <2>3
  <2> QED
    BY <1>12, <2>1, <2>2, <2>3 DEF RenameRoot, GiveUp
<1>13. ASSUME ListFeatures(r) PROVE Same
  <2>1. ASSUME Set(r, [proc[r] EXCEPT !.pc = "feature", !.features = SubdirsOf(<<Src(r)>>)]) PROVE Same
    <3> DEFINE s == [proc[r] EXCEPT !.pc = "feature", !.features = SubdirsOf(<<Src(r)>>)]
    <3>1. s.alone = proc[r].alone
      BY <1>0 DEF Process
    <3> HIDE DEF s
    <3>2. Set(r, s)
      BY <2>1 DEF s
    <3> QED
      BY <1>1, <3>1, <3>2
  <2>2. ASSUME Set(r, Leave(r)) PROVE Same
    BY <1>1, <1>2, <2>2
  <2>3. ASSUME Set(r, LeaveDisturbed(r)) PROVE Same
    BY <1>1, <1>2, <2>3
  <2> QED
    BY <1>13, <2>1, <2>2, <2>3 DEF ListFeatures, GiveUp
<1>14. ASSUME LookForFile(r) PROVE Same
  <2>1. ASSUME Set(r, [proc[r] EXCEPT !.files = proc[r].files \ {CHOOSE x \in proc[r].files : TRUE}]) PROVE Same
    <3> DEFINE s == [proc[r] EXCEPT !.files = proc[r].files \ {CHOOSE x \in proc[r].files : TRUE}]
    <3>1. s.alone = proc[r].alone
      BY <1>0 DEF Process
    <3> HIDE DEF s
    <3>2. Set(r, s)
      BY <2>1 DEF s
    <3> QED
      BY <1>1, <3>1, <3>2
  <2>2. ASSUME Set(r, [proc[r] EXCEPT !.pc = "move"]) PROVE Same
    <3> DEFINE s == [proc[r] EXCEPT !.pc = "move"]
    <3>1. s.alone = proc[r].alone
      BY <1>0 DEF Process
    <3> HIDE DEF s
    <3>2. Set(r, s)
      BY <2>2 DEF s
    <3> QED
      BY <1>1, <3>1, <3>2
  <2>3. ASSUME Set(r, LeaveDisturbed(r)) PROVE Same
    BY <1>1, <1>2, <2>3
  <2> QED
    BY <1>14, <2>1, <2>2, <2>3 DEF LookForFile, GiveUp
<1>15. ASSUME MoveFile(r) PROVE Same
  <2>1. ASSUME Set(r, [proc[r] EXCEPT !.pc = "file",
                         !.files = proc[r].files \ {CHOOSE x \in proc[r].files : TRUE}]) PROVE Same
    <3> DEFINE s == [proc[r] EXCEPT !.pc = "file",
                         !.files = proc[r].files \ {CHOOSE x \in proc[r].files : TRUE}]
    <3>1. s.alone = proc[r].alone
      BY <1>0 DEF Process
    <3> HIDE DEF s
    <3>2. Set(r, s)
      BY <2>1 DEF s
    <3> QED
      BY <1>1, <3>1, <3>2
  <2>2. ASSUME Set(r, Leave(r)) PROVE Same
    BY <1>1, <1>2, <2>2
  <2>3. ASSUME Set(r, LeaveDisturbed(r)) PROVE Same
    BY <1>1, <1>2, <2>3
  <2> QED
    BY <1>15, <2>1, <2>2, <2>3 DEF MoveFile, GiveUp
<1>16. ASSUME LeaveConsent(r) PROVE Same
  <2>1. ASSUME Set(r, [proc[r] EXCEPT !.pc = "consent", !.consent = {}]) PROVE Same
    <3> DEFINE s == [proc[r] EXCEPT !.pc = "consent", !.consent = {}]
    <3>1. s.alone = proc[r].alone
      BY <1>0 DEF Process
    <3> HIDE DEF s
    <3>2. Set(r, s)
      BY <2>1 DEF s
    <3> QED
      BY <1>1, <3>1, <3>2
  <2>2. ASSUME Set(r, Leave(r)) PROVE Same
    BY <1>1, <1>2, <2>2
  <2>3. ASSUME Set(r, LeaveDisturbed(r)) PROVE Same
    BY <1>1, <1>2, <2>3
  <2> QED
    BY <1>16, <2>1, <2>2, <2>3 DEF LeaveConsent, RemoveDir, GiveUp
<1>17. ASSUME LeaveFeature(r) PROVE Same
  <2>1. ASSUME Set(r, [proc[r] EXCEPT !.pc = "feature", !.feature = {}]) PROVE Same
    <3> DEFINE s == [proc[r] EXCEPT !.pc = "feature", !.feature = {}]
    <3>1. s.alone = proc[r].alone
      BY <1>0 DEF Process
    <3> HIDE DEF s
    <3>2. Set(r, s)
      BY <2>1 DEF s
    <3> QED
      BY <1>1, <3>1, <3>2
  <2>2. ASSUME Set(r, Leave(r)) PROVE Same
    BY <1>1, <1>2, <2>2
  <2>3. ASSUME Set(r, LeaveDisturbed(r)) PROVE Same
    BY <1>1, <1>2, <2>3
  <2> QED
    BY <1>17, <2>1, <2>2, <2>3 DEF LeaveFeature, RemoveDir, GiveUp
<1>18. ASSUME LeaveProcess(r) PROVE Same
  <2>1. ASSUME Set(r, [proc[r] EXCEPT !.pc = "close"]) PROVE Same
    <3> DEFINE s == [proc[r] EXCEPT !.pc = "close"]
    <3>1. s.alone = proc[r].alone
      BY <1>0 DEF Process
    <3> HIDE DEF s
    <3>2. Set(r, s)
      BY <2>1 DEF s
    <3> QED
      BY <1>1, <3>1, <3>2
  <2>2. ASSUME Set(r, Leave(r)) PROVE Same
    BY <1>1, <1>2, <2>2
  <2>3. ASSUME Set(r, LeaveDisturbed(r)) PROVE Same
    BY <1>1, <1>2, <2>3
  <2> QED
    BY <1>18, <2>1, <2>2, <2>3 DEF LeaveProcess, RemoveDir, GiveUp
<1>19. ASSUME SweepFeature(r) PROVE Same
  <2>1. ASSUME Set(r, [proc[r] EXCEPT !.pc = "rmFeature"]) PROVE Same
    <3> DEFINE s == [proc[r] EXCEPT !.pc = "rmFeature"]
    <3>1. s.alone = proc[r].alone
      BY <1>0 DEF Process
    <3> HIDE DEF s
    <3>2. Set(r, s)
      BY <2>1 DEF s
    <3> QED
      BY <1>1, <3>1, <3>2
  <2>2. ASSUME Set(r, LeaveDisturbed(r)) PROVE Same
    BY <1>1, <1>2, <2>2
  <2> QED
    BY <1>19, <2>1, <2>2 DEF SweepFeature, SweepLoose, GiveUp
<1>20. ASSUME SweepProcess(r) PROVE Same
  <2>1. ASSUME Set(r, [proc[r] EXCEPT !.pc = "rmProcess"]) PROVE Same
    <3> DEFINE s == [proc[r] EXCEPT !.pc = "rmProcess"]
    <3>1. s.alone = proc[r].alone
      BY <1>0 DEF Process
    <3> HIDE DEF s
    <3>2. Set(r, s)
      BY <2>1 DEF s
    <3> QED
      BY <1>1, <3>1, <3>2
  <2>2. ASSUME Set(r, LeaveDisturbed(r)) PROVE Same
    BY <1>1, <1>2, <2>2
  <2> QED
    BY <1>20, <2>1, <2>2 DEF SweepProcess, SweepLoose, GiveUp
<1>21. ASSUME OpenAbandonedLock(r) PROVE Same
  <2>1. ASSUME NEW q \in proc[r].subdirs,
             Set(r, [proc[r] EXCEPT !.pc = "try", !.subdirs = proc[r].subdirs \ {q},
                           !.src = {q}, !.fd = Opened(q)])
      PROVE  Same
    <3> DEFINE s == [proc[r] EXCEPT !.pc = "try", !.subdirs = proc[r].subdirs \ {q},
                           !.src = {q}, !.fd = Opened(q)]
    <3>1. s.alone = proc[r].alone
      BY <1>0 DEF Process
    <3> HIDE DEF s
    <3>2. Set(r, s)
      BY <2>1 DEF s
    <3> QED
      BY <1>1, <3>1, <3>2
  <2>2. ASSUME NEW q \in proc[r].subdirs,
             Set(r, [proc[r] EXCEPT !.subdirs = proc[r].subdirs \ {q}, !.alone = FALSE])
      PROVE  Same
    <3> DEFINE s == [proc[r] EXCEPT !.subdirs = proc[r].subdirs \ {q}, !.alone = FALSE]
    <3>1. s.alone = FALSE
      BY <1>0 DEF Process
    <3> HIDE DEF s
    <3>2. Set(r, s)
      BY <2>2 DEF s
    <3> QED
      BY <1>1, <3>1, <3>2
  <2> QED
    BY <1>21, <2>1, <2>2 DEF OpenAbandonedLock, GiveUp
<1>22. ASSUME EnterFeature(r) PROVE Same
  <2>1. ASSUME NEW f \in proc[r].features,
             Set(r, [proc[r] EXCEPT !.pc = "consent", !.feature = {f},
                           !.features = proc[r].features \ {f},
                           !.consents = SubdirsOf(<<Src(r), f>>)])
      PROVE  Same
    <3> DEFINE s == [proc[r] EXCEPT !.pc = "consent", !.feature = {f},
                           !.features = proc[r].features \ {f},
                           !.consents = SubdirsOf(<<Src(r), f>>)]
    <3>1. s.alone = proc[r].alone
      BY <1>0 DEF Process
    <3> HIDE DEF s
    <3>2. Set(r, s)
      BY <2>1 DEF s
    <3> QED
      BY <1>1, <3>1, <3>2
  <2>2. ASSUME Set(r, LeaveDisturbed(r)) PROVE Same
    BY <1>1, <1>2, <2>2
  <2> QED
    BY <1>22, <2>1, <2>2 DEF EnterFeature, GiveUp
<1>23. ASSUME EnterConsent(r) PROVE Same
  <2>1. ASSUME NEW c \in proc[r].consents,
             Set(r, [proc[r] EXCEPT !.pc = "file", !.consent = {c},
                           !.consents = proc[r].consents \ {c},
                           !.files = FilesIn(<<Src(r), Current(r), c>>)])
      PROVE  Same
    <3> DEFINE s == [proc[r] EXCEPT !.pc = "file", !.consent = {c},
                           !.consents = proc[r].consents \ {c},
                           !.files = FilesIn(<<Src(r), Current(r), c>>)]
    <3>1. s.alone = proc[r].alone
      BY <1>0 DEF Process
    <3> HIDE DEF s
    <3>2. Set(r, s)
      BY <2>1 DEF s
    <3> QED
      BY <1>1, <3>1, <3>2
  <2>2. ASSUME Set(r, LeaveDisturbed(r)) PROVE Same
    BY <1>1, <1>2, <2>2
  <2> QED
    BY <1>23, <2>1, <2>2 DEF EnterConsent, GiveUp
<1> QED
  BY <1>3, <1>4, <1>5, <1>6, <1>7, <1>8, <1>9, <1>10, <1>11, <1>12, <1>13, <1>14, <1>15, <1>16, <1>17, <1>18, <1>19, <1>20, <1>21, <1>22, <1>23 DEF InitializeStep

LEMMA AloneStep ==
  ASSUME Types, Types', Alone, [Next]_vars
  PROVE  /\ Alone'
         /\ \A p, r \in Pid : proc'[p].alone /\ r # p =>
              ~InitializeStep(r) /\ ~RunningStep(r) /\ ~Exit(r) /\ ~Begin(r)
<1>0. proc \in [Pid -> Process]
  BY DEF Types
<1>1. ASSUME NEW r \in Pid, InitializeStep(r) \/ RunningStep(r)
      PROVE  /\ Others(r) /\ proc[r].pc # "off"
             /\ proc'[r].alone => proc[r].alone
  <2>1. CASE RunningStep(r)
    BY <2>1, TypesRunning DEF Others
  <2>2. ASSUME InitializeStep(r) PROVE Others(r) /\ proc[r].pc # "off"
    <3>1. proc[r].pc # "off"
      BY <2>2 DEF InitializeStep, OpenOwnLock, TakeOwnLock, ListProcessDirs, ScanEnds,
         CreateProcessRoot, OpenAbandonedLock, TakeAbandonedLock, CloseLock, DeleteLock,
         LookForRoot, RenameRoot, ListFeatures, EnterFeature, EnterConsent, LookForFile,
         MoveFile, LeaveConsent, SweepFeature, LeaveFeature, SweepProcess, LeaveProcess
    <3> QED
      BY <2>2, <3>1, OthersStay
  <2> QED
    BY <1>1, <2>1, <2>2, NeverAlone
<1>2. ASSUME NEW r \in Pid, InitializeStep(r) \/ RunningStep(r)
      PROVE  Alone' /\ \A p \in Pid : proc'[p].alone => p = r
  <2>1. \A p \in Pid : proc'[p].alone => proc[p].alone
    BY <1>1, <1>2 DEF Others
  <2>2. \A p \in Pid : proc[p].alone => p = r
    BY <1>1, <1>2 DEF Alone
  <2> QED
    BY <1>1, <1>2, <2>1, <2>2 DEF Alone, Others
<1>3. ASSUME NEW r \in Pid, Begin(r)
      PROVE  Alone' /\ \A p \in Pid : proc'[p].alone => p = r
  <2>1. /\ proc'[r] = [Idle EXCEPT !.pc = "open", !.alone = \A p \in Pid : proc[p].pc = "off"]
        /\ \A p \in Pid : p # r => proc'[p] = [proc[p] EXCEPT !.alone = FALSE]
    BY <1>3 DEF Begin
  <2>2. proc'[r].alone => \A p \in Pid : proc[p].pc = "off"
    BY <2>1 DEF Idle
  <2>3. ASSUME NEW p \in Pid, p # r PROVE ~proc'[p].alone /\ proc'[p].pc = proc[p].pc
    <3>0. proc'[p] = [proc[p] EXCEPT !.alone = FALSE] /\ proc[p] \in Process
      BY <1>0, <2>1, <2>3
    <3>1. proc'[p].pc = proc[p].pc
      BY <3>0 DEF Process
    <3>2. proc'[p].alone = FALSE
      BY <3>0 DEF Process
    <3> QED
      BY <3>1, <3>2
  <2> QED
    BY <2>2, <2>3 DEF Alone
<1>4. ASSUME NEW r \in Pid, Exit(r)
      PROVE  Alone' /\ \A p \in Pid : proc'[p].alone => p = r
  <2>1. proc'[r] = Idle /\ Others(r)
    BY <1>4, Setting DEF Exit
  <2>2. proc'[r].pc = "off" /\ ~proc'[r].alone /\ proc[r].pc # "off"
    BY <1>4, <2>1 DEF Idle, Exit
  <2> QED
    BY <2>1, <2>2 DEF Alone, Others
<1>5. ASSUME NEW x \in Loose, DropLoose(x) PROVE Alone'
  <2>1. \A p \in Pid : (proc'[p].alone => proc[p].alone) /\ proc'[p].pc = proc[p].pc
    <3> SUFFICES ASSUME NEW p \in Pid
                 PROVE  (proc'[p].alone => proc[p].alone) /\ proc'[p].pc = proc[p].pc
      OBVIOUS
    <3>1. proc'[p] = proc[p] \/ proc'[p] = [proc[p] EXCEPT !.alone = FALSE]
      BY <1>5 DEF DropLoose
    <3> QED
      BY <1>0, <3>1 DEF Process
  <2> QED
    BY <2>1 DEF Alone
<1>6. ASSUME UNCHANGED vars PROVE Alone'
  BY <1>6 DEF vars, Alone
<1>7. Alone'
  BY <1>2, <1>3, <1>4, <1>5, <1>6 DEF Next
<1> QED
  BY <1>2, <1>3, <1>4, <1>7

-----------------------------------------------------------------------------
(* Adoption: the second pass of a process that is alone *)

Lone(p) == Types /\ Held /\ Kept /\ Alone /\ proc[p].alone /\ proc'[p].alone /\ Comes(p)

LEMMA Above ==
  ASSUME Types, Kept, NEW x \in Batch, fate[x] = "kept",
         NEW q \in Pid, NEW f \in Feature, NEW c \in Consent, at[x] = <<q, f, c>>
  PROVE  <<q>> \in dirs /\ <<q, f>> \in dirs /\ <<q, f, c>> \in dirs /\ x \in File
<1>1. <<q, f, c>> \in dirs
  BY DEF Kept, Placed
<1>2. <<q, f>> \in dirs
  BY <1>1 DEF Kept, Closed
<1> QED
  BY <1>1, <1>2 DEF Kept, Closed, File

\* On to the next directory, with nothing left in this one.
LEMMA ComesLeave ==
  ASSUME NEW p \in Pid, Types, Left(p), Set(p, Leave(p)), UNCHANGED <<at, fate>>,
         \A x \in Batch, q \in proc[p].src, f \in Feature, c \in Consent :
           fate[x] = "kept" /\ at[x] = <<q, f, c>> => q \in proc[p].subdirs
  PROVE  Comes(p)'
<1>1. proc'[p] = Leave(p) /\ proc[p] \in Process
  BY Setting DEF Types
<1>2. /\ proc'[p].pc = "scan" /\ proc'[p].src = {} /\ proc'[p].subdirs = proc[p].subdirs
  BY <1>1 DEF Leave, Process
<1>3. Nothing(p)' /\ Source(p)'
  BY <1>2 DEF Nothing, Source
<1>4. Left(p)'
  <2> SUFFICES ASSUME NEW x \in Batch, NEW q \in Pid, NEW f \in Feature, NEW c \in Consent,
                      fate[x] = "kept", at[x] = <<q, f, c>>, q # p
               PROVE  q \in proc[p].subdirs
    BY <1>2 DEF Left, Ahead
  <2>1. Ahead(p, q, f, c, x)
    BY DEF Left
  <2> QED
    BY <2>1 DEF Ahead
<1> QED
  BY <1>3, <1>4 DEF Comes

LEMMA ComesListProcessDirs ==
  ASSUME NEW p \in Pid, Lone(p), ListProcessDirs(p)
  PROVE  Comes(p)'
<1>1. proc[p] \in Process /\ proc[p].src = {} /\ UNCHANGED <<dirs, at, fate>>
  BY Basics DEF Lone, Types, ListProcessDirs, Engaged, Holding, Locking
<1>2. CASE Set(p, [proc[p] EXCEPT !.pass = "move"]) /\ proc[p].pc = "list"
  <2>1. proc'[p].pc = "list"
    <3>1. proc'[p] = [proc[p] EXCEPT !.pass = "move"]
      BY <1>2, Setting DEF Lone
    <3> QED
      BY <1>1, <1>2, <3>1 DEF Process
  <2> QED
    BY <2>1 DEF Comes, Passing, Engaged, Holding, Locking
<1>3. CASE Set(p, [proc[p] EXCEPT !.pc = "scan", !.subdirs = SubdirsOf(<<>>) \ {p}])
  <2>1. proc'[p] = [proc[p] EXCEPT !.pc = "scan", !.subdirs = SubdirsOf(<<>>) \ {p}]
    BY <1>3, Setting DEF Lone
  <2>2. /\ proc'[p].pc = "scan" /\ proc'[p].src = {}
        /\ proc'[p].subdirs = SubdirsOf(<<>>) \ {p}
    BY <1>1, <2>1 DEF Process
  <2>3. Nothing(p)' /\ Source(p)'
    BY <2>2 DEF Nothing, Source
  <2>4. Left(p)'
    <3> SUFFICES ASSUME NEW x \in Batch, NEW q \in Pid, NEW f \in Feature, NEW c \in Consent,
                        fate[x] = "kept", at[x] = <<q, f, c>>, q # p
                 PROVE  q \in SubdirsOf(<<>>)
      BY <1>1, <2>2 DEF Left, Ahead
    <3>1. <<q>> \in dirs
      BY Above DEF Lone
    <3> QED
      BY <3>1, Subdirs DEF Lone
  <2> QED
    BY <2>3, <2>4 DEF Comes
<1>4. CASE Set(p, [proc[p] EXCEPT !.pc = IF proc[p].pass = "rename" THEN "mkdir" ELSE "running",
                                  !.alone = FALSE])
  <2>1. proc'[p] = [proc[p] EXCEPT !.pc = IF proc[p].pass = "rename" THEN "mkdir" ELSE "running",
                                   !.alone = FALSE]
    BY <1>4, Setting DEF Lone
  <2>2. proc'[p].alone = FALSE
    BY <1>1, <2>1 DEF Process
  <2> QED
    BY <2>2 DEF Lone
<1> QED
  BY <1>2, <1>3, <1>4 DEF ListProcessDirs

LEMMA ComesScanEnds ==
  ASSUME NEW p \in Pid, Lone(p), ScanEnds(p)
  PROVE  Comes(p)'
<1>1. /\ proc[p] \in Process /\ proc[p].src = {} /\ UNCHANGED <<dirs, at, fate>>
      /\ proc[p].pc = "scan" /\ proc[p].subdirs = {}
  BY Basics DEF Lone, Types, ScanEnds, Engaged, Holding, Locking
<1>2. proc'[p] = [proc[p] EXCEPT !.pc = IF proc[p].pass = "rename" THEN "mkdir" ELSE "running"]
  BY Setting DEF Lone, ScanEnds
<1>3. /\ proc'[p].pc = IF proc[p].pass = "rename" THEN "mkdir" ELSE "running"
      /\ proc'[p].pass = proc[p].pass /\ proc'[p].subdirs = {} /\ proc'[p].src = {}
  BY <1>1, <1>2 DEF Process
<1>4. CASE proc[p].pass = "rename"
  BY <1>3, <1>4 DEF Comes
<1>5. CASE proc[p].pass = "move"
  <2>1. Left(p)
    BY <1>1, <1>5 DEF Lone, Comes, Passing
  <2>2. Left(p)'
    BY <1>1, <1>3, <2>1 DEF Left, Ahead
  <2>3. Nothing(p)' /\ Source(p)'
    BY <1>3, <1>5 DEF Nothing, Source
  <2> QED
    BY <2>2, <2>3 DEF Comes
<1> QED
  BY <1>1, <1>4, <1>5 DEF Process

LEMMA ComesOpenAbandonedLock ==
  ASSUME NEW p \in Pid, Lone(p), OpenAbandonedLock(p)
  PROVE  Comes(p)'
<1>1. /\ proc[p] \in Process /\ proc[p].src = {} /\ UNCHANGED <<dirs, at, fate>>
      /\ proc[p].pc = "scan"
  BY Basics DEF Lone, Types, OpenAbandonedLock, Engaged, Holding, Locking
<1>2. ASSUME NEW q0 \in proc[p].subdirs,
             Set(p, [proc[p] EXCEPT !.subdirs = proc[p].subdirs \ {q0}, !.alone = FALSE])
      PROVE  Comes(p)'
  <2>1. proc'[p] = [proc[p] EXCEPT !.subdirs = proc[p].subdirs \ {q0}, !.alone = FALSE]
    BY <1>2, Setting DEF Lone
  <2>2. proc'[p].alone = FALSE
    BY <1>1, <2>1 DEF Process
  <2> QED
    BY <2>2 DEF Lone
<1>3. ASSUME NEW q0 \in proc[p].subdirs, proc[p].pass = "move",
             Set(p, [proc[p] EXCEPT !.pc = "try", !.subdirs = proc[p].subdirs \ {q0},
                                    !.src = {q0}, !.fd = Opened(q0)])
      PROVE  Comes(p)'
  <2>1. proc'[p] = [proc[p] EXCEPT !.pc = "try", !.subdirs = proc[p].subdirs \ {q0},
                                   !.src = {q0}, !.fd = Opened(q0)]
    BY <1>3, Setting DEF Lone
  <2>2. /\ proc'[p].pc = "try" /\ proc'[p].subdirs = proc[p].subdirs \ {q0}
        /\ proc'[p].src = {q0} /\ proc'[p].feature = proc[p].feature
    BY <1>1, <2>1 DEF Process
  <2>3. proc[p].feature = {}
    BY <1>1 DEF Lone, Types, Shape, ShapeOf, Filling
  <2>4. Left(p)
    BY <1>1, <1>3 DEF Lone, Comes, Passing
  <2>5. Nothing(p)' /\ Source(p)'
    BY <2>2, <2>3 DEF Nothing, Source, Filling
  <2>6. Left(p)'
    BY <1>1, <2>2, <2>3, <2>4 DEF Left, Ahead
  <2> QED
    BY <2>5, <2>6 DEF Comes
<1>4. ASSUME NEW q0 \in proc[p].subdirs, proc[p].pass = "rename",
             Set(p, [proc[p] EXCEPT !.pc = "try", !.subdirs = proc[p].subdirs \ {q0},
                                    !.src = {q0}, !.fd = Opened(q0)])
      PROVE  Comes(p)'
  <2>1. proc'[p] = [proc[p] EXCEPT !.pc = "try", !.subdirs = proc[p].subdirs \ {q0},
                                   !.src = {q0}, !.fd = Opened(q0)]
    BY <1>4, Setting DEF Lone
  <2>2. proc'[p].pass = "rename"
    BY <1>1, <1>4, <2>1 DEF Process
  <2> QED
    BY <2>2 DEF Comes
<1>5. proc[p].pass \in {"rename", "move"}
  BY <1>1 DEF Process
<1> QED
  BY <1>2, <1>3, <1>4, <1>5 DEF OpenAbandonedLock

\* Nobody else holds a lock.
LEMMA ComesTakeAbandonedLock ==
  ASSUME NEW p \in Pid, Lone(p), TakeAbandonedLock(p)
  PROVE  Comes(p)'
<1>0. Types /\ Held /\ Kept
  BY DEF Lone
<1>1. /\ proc[p] \in Process /\ UNCHANGED <<dirs, at, fate>> /\ proc[p].pc = "try"
      /\ proc[p].src = {Src(p)} /\ Src(p) \in Pid /\ Src(p) # p /\ ~proc[p].locked
  BY <1>0, Engaging, Basics DEF Types, TakeAbandonedLock, Engaged, Holding, Locking
<1>2. CASE Set(p, Leave(p)) /\ ~Free(proc[p].fd)
  <2>1. PICK r \in Pid : LockedBy(r, proc[p].fd)
    BY <1>2 DEF Free
  <2>2. r = p
    <3>1. r # p => proc[r].pc = "off"
      BY DEF Lone, Alone
    <3>2. proc[r].pc = "off" => ~proc[r].owns /\ ~proc[r].locked
      BY <1>0, Basics DEF Locking, Outside
    <3> QED
      BY <2>1, <3>1, <3>2 DEF LockedBy
  <2>3. proc[p].own = proc[p].fd /\ proc[p].own # NoInode
    BY <1>0, <1>1, <2>1, <2>2, Basics DEF LockedBy
  <2>4. proc[p].fd = lockFile[p] /\ lockFile[p] # NoInode
    BY <1>0, <2>3 DEF Held, OneHolder
  <2>5. lockFile[Src(p)] # lockFile[p]
    BY <1>0, <1>1, <2>4 DEF Held, OneHolder
  <2>6. <<Src(p)>> \notin dirs
    BY <1>0, <1>1, <2>4, <2>5 DEF Held, Engagement, Knows, Vacant, Holding
  <2>7. \A x \in Batch, q \in proc[p].src, f \in Feature, c \in Consent :
           fate[x] = "kept" => at[x] # <<q, f, c>>
    BY <1>0, <1>1, <2>6, Above
  <2>8. CASE proc[p].pass = "move"
    <3>1. Left(p)
      BY <1>1, <2>8 DEF Lone, Comes, Passing, Engaged, Holding
    <3> QED
      BY <1>0, <1>1, <1>2, <2>7, <3>1, ComesLeave
  <2>9. CASE proc[p].pass = "rename"
    <3>1. proc'[p] = Leave(p)
      BY <1>0, <1>2, Setting
    <3>2. proc'[p].pass = "rename"
      BY <1>1, <2>9, <3>1 DEF Leave, Process
    <3> QED
      BY <3>2 DEF Comes
  <2> QED
    BY <1>1, <2>8, <2>9 DEF Process
<1>3. CASE Set(p, [proc[p] EXCEPT !.locked = TRUE,
                                  !.pc = IF proc[p].pass = "rename" THEN "stat" ELSE "features"])
  <2>1. proc'[p] = [proc[p] EXCEPT !.locked = TRUE,
                                   !.pc = IF proc[p].pass = "rename" THEN "stat" ELSE "features"]
    BY <1>0, <1>3, Setting
  <2>2. /\ proc'[p].pc = IF proc[p].pass = "rename" THEN "stat" ELSE "features"
        /\ proc'[p].pass = proc[p].pass /\ proc'[p].src = proc[p].src
        /\ proc'[p].subdirs = proc[p].subdirs /\ proc'[p].feature = proc[p].feature
        /\ proc'[p].features = proc[p].features
    BY <1>1, <2>1 DEF Process
  <2>3. CASE proc[p].pass = "rename"
    BY <2>2, <2>3 DEF Comes
  <2>4. CASE proc[p].pass = "move"
    <3>1. Left(p)
      BY <1>1, <2>4 DEF Lone, Comes, Passing, Engaged, Holding
    <3>2. proc'[p].pc = "features" /\ proc[p].feature = {}
      BY <1>0, <1>1, <2>2, <2>4 DEF Types, Shape, ShapeOf, Filling
    <3>3. Nothing(p)' /\ Source(p)'
      BY <2>2, <3>2 DEF Nothing, Source, Filling
    <3>4. Left(p)'
      BY <1>1, <2>2, <3>1, <3>2 DEF Left, Ahead
    <3> QED
      BY <3>3, <3>4 DEF Comes
  <2> QED
    BY <1>1, <2>3, <2>4 DEF Process
<1> QED
  BY <1>2, <1>3 DEF TakeAbandonedLock

\* What is known in the middle of the second pass.
LEMMA Underway ==
  ASSUME NEW p \in Pid, Lone(p), proc[p].pc \in Moving \ {"running"}
  PROVE  /\ Types /\ Held /\ Kept /\ proc[p] \in Process
         /\ proc[p].src = {Src(p)} /\ Src(p) \in Pid /\ Src(p) # p
         /\ Nothing(p) /\ Source(p) /\ Left(p)
<1>1. Types /\ Held /\ Kept /\ proc[p] \in Process
  BY DEF Lone, Types
<1>2. proc[p].pc \in Engaged
  BY DEF Moving, Filling, Engaged, Holding, Locking
<1>3. proc[p].pass = "move"
  BY <1>1 DEF Types, Shape, ShapeOf
<1> QED
  BY <1>1, <1>2, <1>3, Engaging DEF Lone, Comes, Passing

\* A call that fails is a disturbance.
LEMMA NotDisturbed ==
  ASSUME NEW p \in Pid, Lone(p), Set(p, LeaveDisturbed(p))
  PROVE  FALSE
<1>1. proc'[p] = LeaveDisturbed(p) /\ proc[p] \in Process
  BY Setting DEF Lone, Types
<1>2. proc'[p].alone = FALSE
  BY <1>1 DEF Leave, LeaveDisturbed, Process
<1> QED
  BY <1>2 DEF Lone

LEMMA ComesListFeatures ==
  ASSUME NEW p \in Pid, Lone(p), ListFeatures(p)
  PROVE  Comes(p)'
<1>1. /\ Types /\ Kept /\ proc[p] \in Process
      /\ proc[p].src = {Src(p)} /\ Src(p) \in Pid /\ Src(p) # p
      /\ Nothing(p) /\ Source(p) /\ Left(p)
      /\ proc[p].pc = "features" /\ UNCHANGED <<dirs, at, fate>>
  BY Underway DEF ListFeatures, Moving
<1>2. CASE <<Src(p)>> \notin dirs /\ Set(p, Leave(p))
  <2>1. \A x \in Batch, q \in proc[p].src, f \in Feature, c \in Consent :
           fate[x] = "kept" => at[x] # <<q, f, c>>
    BY <1>1, <1>2, Above
  <2> QED
    BY <1>1, <1>2, <2>1, ComesLeave
<1>3. CASE Set(p, [proc[p] EXCEPT !.pc = "feature", !.features = SubdirsOf(<<Src(p)>>)])
  <2>1. proc'[p] = [proc[p] EXCEPT !.pc = "feature", !.features = SubdirsOf(<<Src(p)>>)]
    BY <1>1, <1>3, Setting
  <2>2. /\ proc'[p].pc = "feature" /\ proc'[p].features = SubdirsOf(<<Src(p)>>)
        /\ proc'[p].src = proc[p].src /\ proc'[p].subdirs = proc[p].subdirs
        /\ proc'[p].feature = proc[p].feature
    BY <1>1, <2>1 DEF Process
  <2>3. proc[p].feature = {}
    BY <1>1 DEF Types, Shape, ShapeOf, Filling
  <2>4. SubdirsOf(<<Src(p)>>) = {f \in Feature : <<Src(p), f>> \in dirs}
    BY <1>1, Subdirs
  <2>5. Nothing(p)' /\ Source(p)'
    BY <1>1, <2>2, <2>3, <2>4 DEF Nothing, Source
  <2>6. Left(p)'
    <3> SUFFICES ASSUME NEW x \in Batch, NEW q \in Pid, NEW f \in Feature, NEW c \in Consent,
                        fate[x] = "kept", at[x] = <<q, f, c>>, q # p
                 PROVE  q \in proc[p].subdirs \/ (q \in proc[p].src /\ f \in proc'[p].features)
      BY <1>1, <2>2 DEF Left, Ahead
    <3>1. Ahead(p, q, f, c, x)
      BY <1>1 DEF Left
    <3>2. <<q, f>> \in dirs
      BY <1>1, Above
    <3> QED
      BY <1>1, <2>2, <2>4, <3>1, <3>2 DEF Ahead
  <2> QED
    BY <2>5, <2>6 DEF Comes
<1> QED
  BY <1>2, <1>3, NotDisturbed DEF ListFeatures, GiveUp

LEMMA ComesEnterFeature ==
  ASSUME NEW p \in Pid, Lone(p), EnterFeature(p)
  PROVE  Comes(p)'
<1>1. /\ Types /\ Kept /\ proc[p] \in Process
      /\ proc[p].src = {Src(p)} /\ Src(p) \in Pid /\ Src(p) # p
      /\ Nothing(p) /\ Source(p) /\ Left(p)
      /\ proc[p].pc = "feature" /\ UNCHANGED <<at, fate>>
  BY Underway DEF EnterFeature, Moving
<1>2. ASSUME NEW g \in proc[p].features, dirs' = dirs \cup {<<p, g>>},
             Set(p, [proc[p] EXCEPT !.pc = "consent", !.feature = {g},
                                    !.features = proc[p].features \ {g},
                                    !.consents = SubdirsOf(<<Src(p), g>>)])
      PROVE  Comes(p)'
  <2>1. proc'[p] = [proc[p] EXCEPT !.pc = "consent", !.feature = {g},
                                   !.features = proc[p].features \ {g},
                                   !.consents = SubdirsOf(<<Src(p), g>>)]
    BY <1>1, <1>2, Setting
  <2>2. /\ proc'[p].pc = "consent" /\ proc'[p].features = proc[p].features \ {g}
        /\ proc'[p].src = proc[p].src /\ proc'[p].subdirs = proc[p].subdirs
        /\ proc'[p].feature = {g} /\ proc'[p].consents = SubdirsOf(<<Src(p), g>>)
        /\ proc'[p].consent = proc[p].consent /\ g \in Feature
    BY <1>1, <1>2, <2>1 DEF Process
  <2>3. proc[p].consent = {} /\ proc[p].feature = {}
    BY <1>1 DEF Types, Shape, ShapeOf, Filling
  <2>4. SubdirsOf(<<Src(p), g>>) = {c \in Consent : <<Src(p), g, c>> \in dirs}
    BY <1>1, <2>2, Subdirs
  <2>5. /\ \A f \in proc[p].features : <<Src(p), f>> \in dirs
        /\ \A f, c : <<Src(p), f, c>> \in dirs' <=> <<Src(p), f, c>> \in dirs
    <3>1. \A f \in proc[p].features : <<Src(p), f>> \in dirs
      BY <1>1 DEF Source
    <3> QED
      BY <1>2, <3>1, Lengths
  <2>6. Nothing(p)' /\ Source(p)'
    BY <1>1, <1>2, <2>2, <2>3, <2>4, <2>5 DEF Nothing, Source
  <2>7. Left(p)'
    <3> SUFFICES ASSUME NEW x \in Batch, NEW q \in Pid, NEW f \in Feature, NEW c \in Consent,
                        fate[x] = "kept", at[x] = <<q, f, c>>, q # p
                 PROVE  Ahead(p, q, f, c, x)'
      BY <1>1 DEF Left
    <3>1. Ahead(p, q, f, c, x)
      BY <1>1 DEF Left
    <3>2. <<q, f, c>> \in dirs
      BY <1>1, Above
    <3> QED
      BY <1>1, <2>2, <2>3, <2>4, <3>1, <3>2 DEF Ahead
  <2> QED
    BY <2>6, <2>7 DEF Comes
<1> QED
  BY <1>2, NotDisturbed DEF EnterFeature, GiveUp

LEMMA ComesEnterConsent ==
  ASSUME NEW p \in Pid, Lone(p), EnterConsent(p)
  PROVE  Comes(p)'
<1>1. /\ Types /\ Kept /\ proc[p] \in Process
      /\ proc[p].src = {Src(p)} /\ Src(p) \in Pid /\ Src(p) # p
      /\ Nothing(p) /\ Source(p) /\ Left(p)
      /\ proc[p].pc = "consent" /\ UNCHANGED <<at, fate>>
  BY Underway DEF EnterConsent, Moving, Filling
<1>2. /\ Current(p) \in Feature /\ proc[p].feature = {Current(p)} /\ proc[p].consent = {}
  BY <1>1, Ways DEF Filling, Types, Shape, ShapeOf
<1>3. ASSUME NEW k \in proc[p].consents, dirs' = dirs \cup {<<p, Current(p), k>>},
             Set(p, [proc[p] EXCEPT !.pc = "file", !.consent = {k},
                                    !.consents = proc[p].consents \ {k},
                                    !.files = FilesIn(<<Src(p), Current(p), k>>)])
      PROVE  Comes(p)'
  <2>1. proc'[p] = [proc[p] EXCEPT !.pc = "file", !.consent = {k},
                                   !.consents = proc[p].consents \ {k},
                                   !.files = FilesIn(<<Src(p), Current(p), k>>)]
    BY <1>1, <1>3, Setting
  <2>2. /\ proc'[p].pc = "file" /\ proc'[p].features = proc[p].features
        /\ proc'[p].src = proc[p].src /\ proc'[p].subdirs = proc[p].subdirs
        /\ proc'[p].feature = proc[p].feature /\ proc'[p].consents = proc[p].consents \ {k}
        /\ proc'[p].consent = {k} /\ k \in Consent
        /\ proc'[p].files = FilesIn(<<Src(p), Current(p), k>>)
    BY <1>1, <1>3, <2>1 DEF Process
  <2>3. /\ \A f \in proc[p].features : <<Src(p), f>> \in dirs
        /\ Current(p) \notin proc[p].features /\ <<Src(p), Current(p)>> \in dirs
        /\ \A c \in proc[p].consents : <<Src(p), Current(p), c>> \in dirs
        /\ \A c \in Consent : <<Src(p), Current(p), c>> \in dirs => c \in proc[p].consents
    BY <1>1, <1>2 DEF Source, Filling
  <2>4. /\ \A f, c : <<Src(p), f, c>> \in dirs' <=> <<Src(p), f, c>> \in dirs
        /\ \A f : <<Src(p), f>> \in dirs' <=> <<Src(p), f>> \in dirs
    BY <1>1, <1>3, Lengths
  <2>6. Nothing(p)'
    BY <2>2 DEF Nothing
  <2>7. Source(p)'
    <3>1. \A c : {x \in File : at'[x] = <<Src(p), Current(p), c>>}
                   = {x \in File : at[x] = <<Src(p), Current(p), c>>}
      BY <1>1
    <3> QED
      BY <1>1, <1>2, <2>2, <2>3, <2>4, <3>1 DEF Source, Filling, FilesIn
  <2>8. Left(p)'
    <3> SUFFICES ASSUME NEW x \in Batch, NEW q \in Pid, NEW f \in Feature, NEW c \in Consent,
                        fate[x] = "kept", at[x] = <<q, f, c>>, q # p
                 PROVE  Ahead(p, q, f, c, x)'
      BY <1>1 DEF Left
    <3>1. Ahead(p, q, f, c, x)
      BY <1>1 DEF Left
    <3>2. x \in File
      BY DEF File
    <3> QED
      BY <1>1, <1>2, <2>2, <3>1, <3>2 DEF Ahead, FilesIn
  <2> QED
    BY <2>6, <2>7, <2>8 DEF Comes
<1> QED
  BY <1>3, NotDisturbed DEF EnterConsent, GiveUp

\* A step into the first pass, or out of both.
LEMMA ComesLater ==
  ASSUME NEW p \in Pid, NEW s, Types, Set(p, s), s.pass = "rename" \/ s.pc \notin Passing
  PROVE  Comes(p)'
  BY Setting DEF Comes

LEMMA ComesFirstPass ==
  ASSUME NEW p \in Pid, Lone(p),
         \/ OpenOwnLock(p) \/ TakeOwnLock(p) \/ CreateProcessRoot(p)
         \/ LookForRoot(p) \/ RenameRoot(p)
  PROVE  Comes(p)'
<1>1. Types /\ proc[p] \in Process
  BY DEF Lone, Types
<1>2. /\ "lock" \notin Passing /\ "failed" \notin Passing /\ "list" \notin Passing
  BY DEF Passing, Engaged, Holding, Locking
<1>3. Fail(p).pc = "failed" /\ [Fail(p) EXCEPT !.own = NoInode].pc = "failed"
  BY <1>1 DEF Fail, Process
<1>4. ASSUME OpenOwnLock(p) PROVE Comes(p)'
  <2>1. [proc[p] EXCEPT !.pc = "lock", !.own = Opened(p)].pc = "lock"
    BY <1>1 DEF Process
  <2> QED
    BY <1>1, <1>2, <1>3, <1>4, <2>1, ComesLater DEF OpenOwnLock
<1>5. ASSUME TakeOwnLock(p) PROVE Comes(p)'
  <2>1. [proc[p] EXCEPT !.pc = "list", !.owns = TRUE].pc = "list"
    BY <1>1 DEF Process
  <2> QED
    BY <1>1, <1>2, <1>3, <1>5, <2>1, ComesLater DEF TakeOwnLock
<1>6. ASSUME CreateProcessRoot(p) PROVE Comes(p)'
  <2>1. [proc[p] EXCEPT !.pc = "list", !.pass = "move"].pc = "list"
    BY <1>1 DEF Process
  <2> QED
    BY <1>1, <1>2, <1>3, <1>6, <2>1, ComesLater DEF CreateProcessRoot
<1>7. ASSUME LookForRoot(p) \/ RenameRoot(p) PROVE Comes(p)'
  <2>1. proc[p].pass = "rename"
    BY <1>1, <1>7 DEF Types, Shape, ShapeOf, LookForRoot, RenameRoot
  <2>2. /\ Leave(p).pass = "rename" /\ LeaveDisturbed(p).pass = "rename"
        /\ [proc[p] EXCEPT !.pc = "rename"].pass = "rename"
        /\ [proc[p] EXCEPT !.pc = "close"].pass = "rename"
    BY <1>1, <2>1 DEF Leave, LeaveDisturbed, Process
  <2>3. LookForRoot(p) => Set(p, Leave(p)) \/ Set(p, [proc[p] EXCEPT !.pc = "rename"])
    BY DEF LookForRoot
  <2>4. RenameRoot(p) => \/ Set(p, Leave(p)) \/ Set(p, LeaveDisturbed(p))
                         \/ Set(p, [proc[p] EXCEPT !.pc = "close"])
    BY DEF RenameRoot, GiveUp
  <2> QED
    BY <1>1, <1>7, <2>2, <2>3, <2>4, ComesLater
<1> QED
  BY <1>4, <1>5, <1>6, <1>7

\* Nothing is left of an abandoned directory when its lock is released.
LEMMA ComesRelease ==
  ASSUME NEW p \in Pid, Lone(p), CloseLock(p) \/ DeleteLock(p)
  PROVE  Comes(p)'
<1>1. /\ Types /\ proc[p] \in Process /\ UNCHANGED <<dirs, at, fate>>
      /\ proc[p].pc \in {"close", "unlink"} /\ proc[p].pass \in {"rename", "move"}
  BY DEF Lone, Types, CloseLock, DeleteLock, Process
<1>2. proc[p].feature = {}
  BY <1>1 DEF Types, Shape, ShapeOf, Filling
<1>3. proc[p].pass = "move" => Nothing(p) /\ Left(p) /\ proc[p].features = {}
  BY <1>1 DEF Lone, Comes, Passing, Engaged, Holding, Locking, Nothing
<1>4. ASSUME CloseLock(p) PROVE Comes(p)'
  <2>1. proc'[p] = [proc[p] EXCEPT !.pc = "unlink", !.fd = NoInode, !.locked = FALSE]
    BY <1>1, <1>4, Setting DEF CloseLock
  <2>2. /\ proc'[p].pc = "unlink" /\ proc'[p].pass = proc[p].pass
        /\ proc'[p].src = proc[p].src /\ proc'[p].subdirs = proc[p].subdirs
        /\ proc'[p].features = proc[p].features /\ proc'[p].feature = proc[p].feature
    BY <1>1, <2>1 DEF Process
  <2>3. CASE proc[p].pass = "move"
    <3>1. Nothing(p)' /\ Source(p)'
      BY <1>2, <1>3, <2>2, <2>3 DEF Nothing, Source, Filling
    <3>2. Left(p)'
      BY <1>1, <1>2, <1>3, <2>2, <2>3 DEF Left, Ahead
    <3> QED
      BY <3>1, <3>2 DEF Comes
  <2> QED
    BY <1>1, <2>2, <2>3 DEF Comes
<1>5. ASSUME DeleteLock(p) PROVE Comes(p)'
  <2>1. CASE proc[p].pass = "rename"
    <3>1. [Leave(p) EXCEPT !.pc = "list", !.pass = "move", !.subdirs = {}].pc = "list"
      BY <1>1 DEF Leave, Process
    <3>2. "list" \notin Passing
      BY DEF Passing, Engaged, Holding, Locking
    <3> QED
      BY <1>1, <1>5, <2>1, <3>1, <3>2, ComesLater DEF DeleteLock
  <2>2. CASE proc[p].pass = "move"
    <3>1. Set(p, Leave(p)) /\ proc[p].pc = "unlink"
      BY <1>5, <2>2 DEF DeleteLock
    <3>2. ASSUME NEW x \in Batch, NEW q \in proc[p].src, NEW f \in Feature, NEW c \in Consent,
                 fate[x] = "kept" /\ at[x] = <<q, f, c>>
          PROVE  q \in proc[p].subdirs
      <4>1. q \in Pid /\ q # p
        BY <1>1, <3>2, Basics
      <4>2. Ahead(p, q, f, c, x)
        BY <1>3, <2>2, <3>2, <4>1 DEF Left
      <4> QED
        BY <1>2, <1>3, <2>2, <3>1, <4>2 DEF Ahead
    <3> QED
      BY <1>1, <1>3, <2>2, <3>1, <3>2, ComesLeave
  <2> QED
    BY <1>1, <2>1, <2>2
<1> QED
  BY <1>4, <1>5

LEMMA ComesLookForFile ==
  ASSUME NEW p \in Pid, Lone(p), LookForFile(p)
  PROVE  Comes(p)'
<1> DEFINE x == CHOOSE x \in proc[p].files : TRUE
<1>1. /\ Types /\ Kept /\ proc[p] \in Process
      /\ proc[p].src = {Src(p)} /\ Src(p) \in Pid /\ Src(p) # p
      /\ Nothing(p) /\ Source(p) /\ Left(p)
      /\ proc[p].pc = "file" /\ UNCHANGED dirs /\ x \in proc[p].files
  BY Underway DEF LookForFile, Moving, Filling
<1> HIDE DEF x
<1>2. Current(p) \in Feature /\ proc[p].feature = {Current(p)}
  BY <1>1, Ways DEF Filling
<1>3. CASE Set(p, [proc[p] EXCEPT !.pc = "move"]) /\ UNCHANGED <<at, fate>>
  <2>1. proc'[p] = [proc[p] EXCEPT !.pc = "move"]
    BY <1>1, <1>3, Setting
  <2>2. /\ proc'[p].pc = "move" /\ proc'[p].features = proc[p].features
        /\ proc'[p].src = proc[p].src /\ proc'[p].subdirs = proc[p].subdirs
        /\ proc'[p].feature = proc[p].feature /\ proc'[p].consents = proc[p].consents
        /\ proc'[p].consent = proc[p].consent /\ proc'[p].files = proc[p].files
    BY <1>1, <2>1 DEF Process
  <2>3. Nothing(p)' /\ Source(p)'
    BY <1>1, <1>3, <2>2 DEF Nothing, Source, Filling, FilesIn
  <2>4. Left(p)'
    BY <1>1, <1>3, <2>2 DEF Left, Ahead
  <2> QED
    BY <2>3, <2>4 DEF Comes
<1>4. CASE /\ Set(p, [proc[p] EXCEPT !.files = proc[p].files \ {x}])
           /\ at' = [at EXCEPT ![x] = Nowhere] /\ fate' = [fate EXCEPT ![x] = "conflict"]
  <2>1. proc'[p] = [proc[p] EXCEPT !.files = proc[p].files \ {x}]
    BY <1>1, <1>4, Setting
  <2>2. /\ proc'[p].pc = "file" /\ proc'[p].features = proc[p].features
        /\ proc'[p].src = proc[p].src /\ proc'[p].subdirs = proc[p].subdirs
        /\ proc'[p].feature = proc[p].feature /\ proc'[p].consents = proc[p].consents
        /\ proc'[p].consent = proc[p].consent /\ proc'[p].files = proc[p].files \ {x}
    BY <1>1, <2>1 DEF Process
  <2>3. /\ x \in File /\ at'[x] = Nowhere /\ fate'[x] = "conflict"
        /\ \A y \in File : y # x => at'[y] = at[y] /\ fate'[y] = fate[y]
    BY <1>1, <1>4 DEF Types, Process
  <2>4. \A q, f, c : FilesIn(<<q, f, c>>)' = FilesIn(<<q, f, c>>) \ {x}
    BY <2>3, Somewhere DEF FilesIn
  <2>5. Nothing(p)' /\ Source(p)'
    BY <1>1, <2>2, <2>4 DEF Nothing, Source, Filling
  <2>6. Left(p)'
    BY <1>1, <2>2, <2>3, Somewhere DEF Left, Ahead, File
  <2> QED
    BY <2>5, <2>6 DEF Comes
<1> QED
  BY <1>3, <1>4, NotDisturbed DEF LookForFile, GiveUp, x

\* The directory did not change since it was listed.
LEMMA ComesMoveFile ==
  ASSUME NEW p \in Pid, Lone(p), MoveFile(p)
  PROVE  Comes(p)'
<1> DEFINE x == CHOOSE x \in proc[p].files : TRUE
<1>1. /\ Types /\ Kept /\ proc[p] \in Process
      /\ proc[p].src = {Src(p)} /\ Src(p) \in Pid /\ Src(p) # p
      /\ Nothing(p) /\ Source(p) /\ Left(p)
      /\ proc[p].pc = "move" /\ UNCHANGED <<dirs, fate>> /\ x \in proc[p].files
  BY Underway DEF MoveFile, Moving, Filling, Types, Shape, ShapeOf
<1> HIDE DEF x
<1>2. Current(p) \in Feature /\ proc[p].feature = {Current(p)}
  BY <1>1, Ways DEF Filling
<1>3. PICK k \in Consent : /\ proc[p].consent = {k}
                           /\ SrcConsent(p) = <<Src(p), Current(p), k>>
                           /\ DstConsent(p) = <<p, Current(p), k>>
  BY <1>1, Ways
<1>4. at[x] = SrcConsent(p)
  BY <1>1, <1>2, <1>3 DEF Source, FilesIn
<1>5. CASE /\ at' = [y \in File |-> IF y = x THEN DstConsent(p)
                                    ELSE IF at[y] = DstConsent(p) /\ NameOf[y] = NameOf[x]
                                      THEN Nowhere ELSE at[y]]
           /\ Set(p, [proc[p] EXCEPT !.pc = "file", !.files = proc[p].files \ {x}])
  <2>1. proc'[p] = [proc[p] EXCEPT !.pc = "file", !.files = proc[p].files \ {x}]
    BY <1>1, <1>5, Setting
  <2>2. /\ proc'[p].pc = "file" /\ proc'[p].features = proc[p].features
        /\ proc'[p].src = proc[p].src /\ proc'[p].subdirs = proc[p].subdirs
        /\ proc'[p].feature = proc[p].feature /\ proc'[p].consents = proc[p].consents
        /\ proc'[p].consent = proc[p].consent /\ proc'[p].files = proc[p].files \ {x}
    BY <1>1, <2>1 DEF Process
  <2>3. /\ x \in File /\ at'[x] = <<p, Current(p), k>>
        /\ \A y \in File : y # x => \/ at'[y] = at[y]
                                    \/ at[y] = <<p, Current(p), k>> /\ at'[y] = Nowhere
    BY <1>1, <1>3, <1>5 DEF Process
  <2>4. ASSUME NEW q, q # p, NEW f, NEW c
        PROVE  FilesIn(<<q, f, c>>)' = FilesIn(<<q, f, c>>) \ {x}
    BY <2>3, <2>4, Somewhere DEF FilesIn
  <2>5. Nothing(p)' /\ Source(p)'
    BY <1>1, <2>2, <2>4 DEF Nothing, Source, Filling
  <2>6. Left(p)'
    <3> SUFFICES ASSUME NEW y \in Batch, NEW q \in Pid, NEW f \in Feature, NEW c \in Consent,
                        fate[y] = "kept", at'[y] = <<q, f, c>>, q # p
                 PROVE  Ahead(p, q, f, c, y)'
      BY <1>1 DEF Left
    <3>1. y \in File /\ y # x /\ at[y] = <<q, f, c>>
      BY <2>3, Somewhere DEF File
    <3>2. Ahead(p, q, f, c, y)
      BY <1>1, <3>1 DEF Left
    <3> QED
      BY <1>1, <2>2, <3>1, <3>2 DEF Ahead
  <2> QED
    BY <2>5, <2>6 DEF Comes
<1> QED
  BY <1>4, <1>5, NotDisturbed DEF MoveFile, GiveUp, x

LEMMA ComesLeaveConsent ==
  ASSUME NEW p \in Pid, Lone(p), LeaveConsent(p)
  PROVE  Comes(p)'
<1>1. /\ Types /\ Kept /\ proc[p] \in Process
      /\ proc[p].src = {Src(p)} /\ Src(p) \in Pid /\ Src(p) # p
      /\ Nothing(p) /\ Source(p) /\ Left(p)
      /\ proc[p].pc = "file" /\ proc[p].files = {} /\ UNCHANGED <<at, fate>>
  BY Underway DEF LeaveConsent, Moving, Filling
<1>2. Current(p) \in Feature /\ proc[p].feature = {Current(p)}
  BY <1>1, Ways DEF Filling
<1>3. PICK k \in Consent : /\ proc[p].consent = {k}
                           /\ SrcConsent(p) = <<Src(p), Current(p), k>>
  BY <1>1, Ways
<1>4. /\ Current(p) \notin proc[p].features /\ <<Src(p), Current(p)>> \in dirs
      /\ \A f \in proc[p].features : <<Src(p), f>> \in dirs
      /\ \A c \in proc[p].consents : <<Src(p), Current(p), c>> \in dirs
      /\ \A c \in Consent : <<Src(p), Current(p), c>> \in dirs => c \in proc[p].consents \cup {k}
      /\ k \notin proc[p].consents /\ <<Src(p), Current(p), k>> \in dirs
      /\ FilesIn(<<Src(p), Current(p), k>>) = {}
  BY <1>1, <1>2, <1>3 DEF Source, Filling
<1>5. SubdirsOf(SrcConsent(p)) = {}
  BY <1>1, <1>2, <1>3, Subdirs
<1>6. CASE /\ dirs' = dirs \ {SrcConsent(p)}
           /\ Set(p, [proc[p] EXCEPT !.pc = "consent", !.consent = {}])
  <2>1. proc'[p] = [proc[p] EXCEPT !.pc = "consent", !.consent = {}]
    BY <1>1, <1>6, Setting
  <2>2. /\ proc'[p].pc = "consent" /\ proc'[p].features = proc[p].features
        /\ proc'[p].src = proc[p].src /\ proc'[p].subdirs = proc[p].subdirs
        /\ proc'[p].feature = proc[p].feature /\ proc'[p].consents = proc[p].consents
        /\ proc'[p].consent = {}
    BY <1>1, <2>1 DEF Process
  <2>3. /\ \A f : <<Src(p), f>> \in dirs' <=> <<Src(p), f>> \in dirs
        /\ \A c : <<Src(p), Current(p), c>> \in dirs' <=>
                    <<Src(p), Current(p), c>> \in dirs /\ c # k
    BY <1>3, <1>6, Lengths
  <2>4. Nothing(p)' /\ Source(p)'
    BY <1>1, <1>2, <1>4, <2>2, <2>3 DEF Nothing, Source, Filling
  <2>5. Left(p)'
    BY <1>1, <2>2 DEF Left, Ahead
  <2> QED
    BY <2>4, <2>5 DEF Comes
<1> QED
  BY <1>3, <1>4, <1>5, <1>6, NotDisturbed DEF LeaveConsent, RemoveDir, GiveUp

LEMMA ComesSweepFeature ==
  ASSUME NEW p \in Pid, Lone(p), SweepFeature(p)
  PROVE  Comes(p)'
<1>1. /\ Types /\ Kept /\ proc[p] \in Process
      /\ proc[p].src = {Src(p)} /\ Src(p) \in Pid /\ Src(p) # p
      /\ Nothing(p) /\ Source(p) /\ Left(p)
      /\ proc[p].pc = "consent" /\ proc[p].consents = {} /\ UNCHANGED dirs
  BY Underway DEF SweepFeature, Moving, Filling
<1>2. /\ Current(p) \in Feature /\ proc[p].feature = {Current(p)}
      /\ SrcFeature(p) = <<Src(p), Current(p)>> /\ proc[p].consent = {}
  BY <1>1, Ways DEF Filling, Types, Shape, ShapeOf
<1>3. CASE /\ at' = [x \in File |-> IF at[x] = SrcFeature(p) THEN Nowhere ELSE at[x]]
           /\ fate' = [x \in File |-> IF at[x] = SrcFeature(p) THEN "swept" ELSE fate[x]]
           /\ Set(p, [proc[p] EXCEPT !.pc = "rmFeature"])
  <2>1. proc'[p] = [proc[p] EXCEPT !.pc = "rmFeature"]
    BY <1>1, <1>3, Setting
  <2>2. /\ proc'[p].pc = "rmFeature" /\ proc'[p].features = proc[p].features
        /\ proc'[p].src = proc[p].src /\ proc'[p].subdirs = proc[p].subdirs
        /\ proc'[p].feature = proc[p].feature /\ proc'[p].consents = proc[p].consents
        /\ proc'[p].consent = proc[p].consent
    BY <1>1, <2>1 DEF Process
  <2>3. \A x \in File : at'[x] # <<Src(p), Current(p)>>
    BY <1>2, <1>3, Somewhere
  <2>4. Nothing(p)' /\ Source(p)'
    BY <1>1, <1>2, <2>2, <2>3 DEF Nothing, Source, Filling, FilesIn
  <2>5. Left(p)'
    <3> SUFFICES ASSUME NEW x \in Batch, NEW q \in Pid, NEW f \in Feature, NEW c \in Consent,
                        fate'[x] = "kept", at'[x] = <<q, f, c>>, q # p
                 PROVE  Ahead(p, q, f, c, x)'
      BY DEF Left
    <3>1. at[x] = <<q, f, c>> /\ fate[x] = "kept"
      BY <1>3, Somewhere DEF File
    <3>2. Ahead(p, q, f, c, x)
      BY <1>1, <3>1 DEF Left
    <3> QED
      BY <1>1, <1>2, <2>2, <3>2 DEF Ahead
  <2> QED
    BY <2>4, <2>5 DEF Comes
<1> QED
  BY <1>3, NotDisturbed DEF SweepFeature, SweepLoose, GiveUp

LEMMA ComesLeaveFeature ==
  ASSUME NEW p \in Pid, Lone(p), LeaveFeature(p)
  PROVE  Comes(p)'
<1>1. /\ Types /\ Kept /\ proc[p] \in Process
      /\ proc[p].src = {Src(p)} /\ Src(p) \in Pid /\ Src(p) # p
      /\ Nothing(p) /\ Source(p) /\ Left(p)
      /\ proc[p].pc = "rmFeature" /\ UNCHANGED <<at, fate>>
  BY Underway DEF LeaveFeature, Moving
<1>2. /\ Current(p) \in Feature /\ proc[p].feature = {Current(p)}
      /\ SrcFeature(p) = <<Src(p), Current(p)>> /\ proc[p].consent = {} /\ proc[p].consents = {}
  BY <1>1, Ways DEF Types, Shape, ShapeOf, Nothing
<1>3. /\ Current(p) \notin proc[p].features /\ <<Src(p), Current(p)>> \in dirs
      /\ \A f \in proc[p].features : <<Src(p), f>> \in dirs
      /\ \A c \in Consent : <<Src(p), Current(p), c>> \notin dirs
      /\ FilesIn(<<Src(p), Current(p)>>) = {}
  BY <1>1, <1>2 DEF Source
<1>4. SubdirsOf(SrcFeature(p)) = {}
  BY <1>1, <1>2, <1>3, Subdirs
<1>5. CASE /\ dirs' = dirs \ {SrcFeature(p)}
           /\ Set(p, [proc[p] EXCEPT !.pc = "feature", !.feature = {}])
  <2>1. proc'[p] = [proc[p] EXCEPT !.pc = "feature", !.feature = {}]
    BY <1>1, <1>5, Setting
  <2>2. /\ proc'[p].pc = "feature" /\ proc'[p].features = proc[p].features
        /\ proc'[p].src = proc[p].src /\ proc'[p].subdirs = proc[p].subdirs
        /\ proc'[p].feature = {}
    BY <1>1, <2>1 DEF Process
  <2>3. \A f \in proc[p].features : <<Src(p), f>> \in dirs'
    BY <1>2, <1>3, <1>5
  <2>4. Nothing(p)' /\ Source(p)'
    BY <1>1, <2>2, <2>3 DEF Nothing, Source
  <2>5. Left(p)'
    BY <1>1, <1>2, <2>2 DEF Left, Ahead
  <2> QED
    BY <2>4, <2>5 DEF Comes
<1> QED
  BY <1>2, <1>3, <1>4, <1>5, NotDisturbed DEF LeaveFeature, RemoveDir, GiveUp

LEMMA ComesSweepProcess ==
  ASSUME NEW p \in Pid, Lone(p), SweepProcess(p)
  PROVE  Comes(p)'
<1>1. /\ Types /\ Kept /\ proc[p] \in Process
      /\ proc[p].src = {Src(p)} /\ Src(p) \in Pid /\ Src(p) # p
      /\ Nothing(p) /\ Source(p) /\ Left(p)
      /\ proc[p].pc = "feature" /\ proc[p].features = {} /\ UNCHANGED dirs
  BY Underway DEF SweepProcess, Moving
<1>2. proc[p].feature = {}
  BY <1>1 DEF Types, Shape, ShapeOf, Filling
<1>3. CASE /\ at' = [x \in File |-> IF at[x] = <<Src(p)>> THEN Nowhere ELSE at[x]]
           /\ fate' = [x \in File |-> IF at[x] = <<Src(p)>> THEN "swept" ELSE fate[x]]
           /\ Set(p, [proc[p] EXCEPT !.pc = "rmProcess"])
  <2>1. proc'[p] = [proc[p] EXCEPT !.pc = "rmProcess"]
    BY <1>1, <1>3, Setting
  <2>2. /\ proc'[p].pc = "rmProcess" /\ proc'[p].features = {}
        /\ proc'[p].src = proc[p].src /\ proc'[p].subdirs = proc[p].subdirs
        /\ proc'[p].feature = {}
    BY <1>1, <1>2, <2>1 DEF Process
  <2>3. Nothing(p)' /\ Source(p)'
    BY <2>2 DEF Nothing, Source
  <2>4. Left(p)'
    <3> SUFFICES ASSUME NEW x \in Batch, NEW q \in Pid, NEW f \in Feature, NEW c \in Consent,
                        fate'[x] = "kept", at'[x] = <<q, f, c>>, q # p
                 PROVE  Ahead(p, q, f, c, x)'
      BY DEF Left
    <3>1. at[x] = <<q, f, c>> /\ fate[x] = "kept"
      BY <1>3, Somewhere DEF File
    <3>2. Ahead(p, q, f, c, x)
      BY <1>1, <3>1 DEF Left
    <3> QED
      BY <1>1, <1>2, <2>2, <3>2 DEF Ahead
  <2> QED
    BY <2>3, <2>4 DEF Comes
<1> QED
  BY <1>3, NotDisturbed DEF SweepProcess, SweepLoose, GiveUp

LEMMA ComesLeaveProcess ==
  ASSUME NEW p \in Pid, Lone(p), LeaveProcess(p)
  PROVE  Comes(p)'
<1>1. /\ Types /\ proc[p] \in Process /\ Left(p) /\ proc[p].features = {}
      /\ proc[p].pc = "rmProcess" /\ UNCHANGED <<at, fate>>
  BY Underway DEF LeaveProcess, Moving, Nothing
<1>2. proc[p].feature = {}
  BY <1>1 DEF Types, Shape, ShapeOf, Filling
<1>3. CASE Set(p, Leave(p))
  <2>1. ASSUME NEW x \in Batch, NEW q \in proc[p].src, NEW f \in Feature, NEW c \in Consent,
               fate[x] = "kept" /\ at[x] = <<q, f, c>>
        PROVE  q \in proc[p].subdirs
    <3>1. q \in Pid /\ q # p
      BY <1>1, <2>1, Basics
    <3>2. Ahead(p, q, f, c, x)
      BY <1>1, <2>1, <3>1 DEF Left
    <3> QED
      BY <1>1, <1>2, <3>2 DEF Ahead
  <2> QED
    BY <1>1, <1>3, <2>1, ComesLeave
<1>4. CASE Set(p, [proc[p] EXCEPT !.pc = "close"])
  <2>1. proc'[p] = [proc[p] EXCEPT !.pc = "close"]
    BY <1>1, <1>4, Setting
  <2>2. /\ proc'[p].pc = "close" /\ proc'[p].features = {}
        /\ proc'[p].src = proc[p].src /\ proc'[p].subdirs = proc[p].subdirs
        /\ proc'[p].feature = {}
    BY <1>1, <1>2, <2>1 DEF Process
  <2>3. Nothing(p)' /\ Source(p)'
    BY <2>2 DEF Nothing, Source, Filling
  <2>4. Left(p)'
    BY <1>1, <1>2, <2>2 DEF Left, Ahead
  <2> QED
    BY <2>3, <2>4 DEF Comes
<1> QED
  BY <1>3, <1>4, NotDisturbed DEF LeaveProcess, RemoveDir, GiveUp

\* The steps that are not of p's initialization.
LEMMA ComesOthers ==
  ASSUME NEW p \in Pid, Lone(p), Types',
         \/ RunningStep(p) \/ Exit(p) \/ UNCHANGED vars
         \/ \E r \in Pid : Begin(r)
         \/ \E x \in Loose : DropLoose(x)
  PROVE  Comes(p)'
<1>0. Types /\ proc[p] \in Process
  BY DEF Lone, Types
<1>1. ASSUME proc'[p] = proc[p],
             \A x \in Batch : \/ fate'[x] = fate[x] /\ at'[x] = at[x]
                              \/ fate'[x] # "kept"
                              \/ at'[x] # Nowhere /\ at'[x][1] = p,
             dirs' = dirs \/ proc[p].src = {},
             \A x \in File : at'[x] = at[x] \/ proc[p].src = {}
      PROVE  Comes(p)'
  <2>1. CASE proc[p].pass = "move" /\ proc[p].pc \in Passing
    <3>1. Nothing(p) /\ Source(p) /\ Left(p)
      BY <2>1 DEF Lone, Comes
    <3>2. Nothing(p)'
      BY <1>1, <3>1 DEF Nothing
    <3>3. Source(p)'
      <4>1. CASE proc[p].src = {}
        BY <1>1, <4>1 DEF Source
      <4>2. CASE dirs' = dirs /\ \A x \in File : at'[x] = at[x]
        <5>1. \A d : {x \in File : at'[x] = d} = {x \in File : at[x] = d}
          BY <4>2
        <5> QED
          BY <1>1, <3>1, <4>2, <5>1 DEF Source, FilesIn
      <4> QED
        BY <1>1, <4>1, <4>2
    <3>4. Left(p)'
      <4> SUFFICES ASSUME NEW x \in Batch, NEW q \in Pid, NEW f \in Feature, NEW c \in Consent,
                          fate'[x] = "kept", at'[x] = <<q, f, c>>, q # p
                   PROVE  Ahead(p, q, f, c, x)'
        BY DEF Left
      <4>1. fate[x] = "kept" /\ at[x] = <<q, f, c>>
        BY <1>1
      <4>2. Ahead(p, q, f, c, x)
        BY <3>1, <4>1 DEF Left
      <4> QED
        BY <1>1, <4>2 DEF Ahead
    <3> QED
      BY <3>2, <3>3, <3>4 DEF Comes
  <2> QED
    BY <1>1, <2>1 DEF Comes
<1>2. ASSUME RunningStep(p) PROVE Comes(p)'
  <2>1. proc' = proc /\ proc[p].pc = "running"
    BY <1>0, <1>2, TypesRunning
  <2>2. proc[p].src = {}
    BY <1>0, <2>1, Basics DEF Engaged, Holding, Locking
  <2>3. ASSUME NEW f \in Feature, RegisterFeature(p, f) PROVE Comes(p)'
    BY <1>1, <2>1, <2>2, <2>3 DEF RegisterFeature
  <2>4. ASSUME NEW x \in Batch, WriteBatch(p, x) PROVE Comes(p)'
    <3>1. PICK d \in Tree(p) : at' = [at EXCEPT ![x] = d]
      BY <2>4 DEF WriteBatch
    <3>2. d # Nowhere /\ d[1] = p
      BY <3>1 DEF Tree, Under
    <3>3. \A y \in Batch : \/ fate'[y] = fate[y] /\ at'[y] = at[y]
                           \/ at'[y] # Nowhere /\ at'[y][1] = p
      BY <1>0, <2>4, <3>1, <3>2 DEF WriteBatch, Types, File
    <3> QED
      BY <1>1, <2>1, <2>2, <3>3
  <2>5. ASSUME NEW x \in Batch, FinishBatch(p, x) PROVE Comes(p)'
    <3>1. \A y \in Batch : \/ fate'[y] = fate[y] /\ at'[y] = at[y]
                           \/ fate'[y] # "kept"
      BY <1>0, <2>5 DEF FinishBatch, Types, File
    <3> QED
      BY <1>1, <2>1, <2>2, <3>1
  <2> QED
    BY <1>2, <2>3, <2>4, <2>5 DEF RunningStep
<1>3. ASSUME UNCHANGED vars PROVE Comes(p)'
  BY <1>1, <1>3 DEF vars
<1>4. ASSUME Exit(p) PROVE Comes(p)'
  <2>1. proc'[p].pc = "off"
    BY <1>0, <1>4, Setting DEF Exit, Idle
  <2> QED
    BY <2>1 DEF Comes, Passing, Engaged, Holding, Locking
<1>5. ASSUME NEW r \in Pid, Begin(r) PROVE Comes(p)'
  <2>1. CASE r = p
    <3>1. proc'[p] = [Idle EXCEPT !.pc = "open", !.alone = \A q \in Pid : proc[q].pc = "off"]
      BY <1>5, <2>1 DEF Begin
    <3>2. proc'[p].pc = "open"
      BY <3>1 DEF Idle
    <3> QED
      BY <3>2 DEF Comes, Passing, Engaged, Holding, Locking
  <2>2. CASE r # p
    <3>1. proc'[p] = [proc[p] EXCEPT !.alone = FALSE]
      BY <1>5, <2>2 DEF Begin
    <3>2. proc'[p].alone = FALSE
      BY <1>0, <3>1 DEF Process
    <3> QED
      BY <3>2 DEF Lone
  <2> QED
    BY <2>1, <2>2
<1>6. ASSUME NEW x \in Loose, DropLoose(x) PROVE Comes(p)'
  <2>1. proc[p].pc = "running" /\ proc'[p] = proc[p]
    <3>1. CASE proc[p].pc # "running"
      <4>1. proc'[p] = [proc[p] EXCEPT !.alone = FALSE]
        BY <1>6, <3>1 DEF DropLoose
      <4>2. proc'[p].alone = FALSE
        BY <1>0, <4>1 DEF Process
      <4> QED
        BY <4>2 DEF Lone
    <3> QED
      BY <1>6, <3>1 DEF DropLoose
  <2>2. proc[p].src = {}
    BY <1>0, <2>1, Basics DEF Engaged, Holding, Locking
  <2>3. \A y \in Batch : fate'[y] = fate[y] /\ at'[y] = at[y]
    <3>1. \A y \in Batch : y # x /\ y \in File
      BY ProcessDirsAssumption DEF File
    <3> QED
      BY <1>0, <1>6, <3>1 DEF DropLoose, Types
  <2> QED
    BY <1>1, <2>1, <2>2, <2>3
<1> QED
  BY <1>2, <1>3, <1>4, <1>5, <1>6

LEMMA ComesStep ==
  ASSUME NEW p \in Pid, Types, Types', Held, Kept, Alone, [Next]_vars,
         proc[p].alone => Comes(p), proc'[p].alone
  PROVE  Comes(p)'
<1>0. proc \in [Pid -> Process]
  BY DEF Types
<1>1. CASE proc[p].alone
  <2>1. Lone(p)
    BY <1>1 DEF Lone
  <2>2. ASSUME InitializeStep(p) PROVE Comes(p)'
    BY <2>1, <2>2, ComesFirstPass, ComesListProcessDirs, ComesScanEnds, ComesOpenAbandonedLock,
       ComesTakeAbandonedLock, ComesRelease, ComesListFeatures, ComesEnterFeature,
       ComesEnterConsent, ComesLookForFile, ComesMoveFile, ComesLeaveConsent,
       ComesSweepFeature, ComesLeaveFeature, ComesSweepProcess, ComesLeaveProcess
       DEF InitializeStep
  <2>3. \A r \in Pid : r # p => ~InitializeStep(r) /\ ~RunningStep(r) /\ ~Exit(r)
    BY AloneStep
  <2> QED
    BY <2>1, <2>2, <2>3, ComesOthers DEF Next
<1>2. CASE ~proc[p].alone
  <2>1. ASSUME NEW r \in Pid, InitializeStep(r) PROVE FALSE
    BY <1>2, <2>1, NeverAlone, OthersStay DEF Others
  <2>2. ASSUME NEW r \in Pid, RunningStep(r) \/ Exit(r) PROVE FALSE
    <3>1. RunningStep(r) => proc'[p] = proc[p]
      BY TypesRunning
    <3>2. Exit(r) => proc'[p] \in {proc[p], Idle}
      BY Setting DEF Exit, Others
    <3> QED
      BY <1>2, <2>2, <3>1, <3>2 DEF Idle
  <2>3. ASSUME NEW r \in Pid, Begin(r) PROVE Comes(p)'
    <3>1. CASE r = p
      <4>1. proc'[p] = [Idle EXCEPT !.pc = "open", !.alone = \A q \in Pid : proc[q].pc = "off"]
        BY <2>3, <3>1 DEF Begin
      <4>2. proc'[p].pc = "open"
        BY <4>1 DEF Idle
      <4> QED
        BY <4>2 DEF Comes, Passing, Engaged, Holding, Locking
    <3>2. CASE r # p
      <4>1. proc'[p] = [proc[p] EXCEPT !.alone = FALSE]
        BY <2>3, <3>2 DEF Begin
      <4>2. proc'[p].alone = FALSE
        BY <1>0, <4>1 DEF Process
      <4> QED
        BY <4>2
    <3> QED
      BY <3>1, <3>2
  <2>4. ASSUME NEW x \in Loose, DropLoose(x) PROVE FALSE
    <3>1. proc'[p] = proc[p] \/ proc'[p] = [proc[p] EXCEPT !.alone = FALSE]
      BY <2>4 DEF DropLoose
    <3>2. proc'[p].alone = proc[p].alone \/ proc'[p].alone = FALSE
      BY <1>0, <3>1 DEF Process
    <3> QED
      BY <1>2, <3>2
  <2>5. ASSUME UNCHANGED vars PROVE FALSE
    BY <1>2, <2>5 DEF vars
  <2> QED
    BY <2>1, <2>2, <2>3, <2>4, <2>5 DEF Next
<1> QED
  BY <1>1, <1>2

\* A process that initializes alone and undisturbed leaves nothing of the dead
\* outside its own directory (the two passes of SdkStorage::Initialize), however
\* many of them died in the middle of a migration, in whatever order it lists
\* what it finds: all it has still to come to is on its lists, and at the end the
\* lists are empty.
THEOREM NothingIsForgotten == ASSUME ReusedInPeace PROVE Spec => []AdoptsEverything
<1>1. Init => Adopting
  <2> SUFFICES ASSUME Init PROVE Adopting
    OBVIOUS
  <2>1. \A p \in Pid : proc[p] = Idle
    BY DEF Init
  <2>2. Alone /\ \A p \in Pid : proc[p].alone => Comes(p)
    BY <2>1 DEF Idle, Alone
  <2> QED
    BY <2>2, StartOfFiles DEF Adopting
<1>2. Adopting /\ [Next]_vars => Adopting'
  <2> SUFFICES ASSUME Adopting, [Next]_vars PROVE Adopting'
    OBVIOUS
  <2>1. Types' /\ Held' /\ Kept' /\ Alone'
    BY TypesStep, HeldStep, KeptStep, AloneStep DEF Adopting
  <2>2. \A p \in Pid : proc'[p].alone => Comes(p)'
    BY <2>1, ComesStep DEF Adopting
  <2> QED
    BY <2>1, <2>2 DEF Adopting
<1>3. Adopting => AdoptsEverything
  <2> SUFFICES ASSUME Adopting, NEW p \in Pid, proc[p].pc = "running", proc[p].alone,
                      NEW x \in Batch, fate[x] = "kept"
               PROVE  Under(p, at[x])
    BY DEF AdoptsEverything, Ready
  <2>1. /\ proc[p].pass = "move" /\ proc[p].src = {}
    BY DEF Adopting, Types, Shape, ShapeOf, Moving, Engaged, Holding, Locking
  <2>2. Left(p) /\ proc[p].subdirs = {}
    BY <2>1 DEF Adopting, Comes, Passing, Nothing
  <2>3. PICK q \in Pid, f \in Feature, c \in Consent : at[x] = <<q, f, c>>
    BY DEF Adopting, Kept, Placed, Batches
  <2>4. q = p
    BY <2>1, <2>2, <2>3 DEF Left, Ahead
  <2> QED
    BY <2>3, <2>4, Somewhere DEF Under
<1> QED
  BY <1>1, <1>2, <1>3, PTL DEF Spec

=============================================================================
