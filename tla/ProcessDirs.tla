------------------------------ MODULE ProcessDirs ------------------------------
(***************************************************************************)
(* The storage root of the SDK: every process keeps its batches under a    *)
(* directory named for its pid and holds an advisory lock on <pid>.lock.   *)
(* A process that starts takes over what dead processes left behind, by    *)
(* renaming one directory and moving the files of the others.              *)
(*                                                                         *)
(* A step is one call of the filesystem (filesystem_posix.cpp), or several *)
(* that touch only what the process has the lock of and that no crash      *)
(* separates in a way that matters.  Directories above <pid>/ exist.       *)
(***************************************************************************)
EXTENDS Integers, FiniteSets, Sequences, FiniteSetsExt, SequencesExt

CONSTANTS
    Pid,            \* process ids; at most one live process has each
    Feature,        \* names of feature directories
    Consent,        \* names of the consent directories in a feature's
    Batch,          \* batch files ...
    Loose,          \* ... and other files, which someone else puts there
    NameOf,         \* the name of a file: two processes may choose the same
    MaxIncidents,   \* bound: processes started, calls that fail, files of others
    ReusedInPeace   \* no pid is given away while its lock file is being released

ASSUME ProcessDirsAssumption ==
    /\ IsFiniteSet(Pid)
    /\ NameOf \in [Batch \cup Loose -> STRING]
    /\ Batch \cap Loose = {}
    /\ MaxIncidents \in Nat
    /\ ReusedInPeace \in BOOLEAN

File    == Batch \cup Loose
Nowhere == <<>>
Path    == {<<q>> : q \in Pid} \cup (Pid \X Feature) \cup (Pid \X Feature \X Consent)
NoInode == 0
Inode   == 1 .. 3 * Cardinality(Pid)

VARIABLES
    dirs,       \* the directories that exist
    at,         \* the directory each file is in
    lockFile,   \* the inode <pid>.lock leads to, if any
    proc,       \* each process: see Idle
    fate,       \* history: what became of each file
    incidents   \* how many there have been

vars == <<dirs, at, lockFile, proc, fate, incidents>>

\* A process: where it is; the inode of its own lock file and whether it has
\* the lock; the same for the abandoned directory it looks at; whose that is;
\* whether it renames or moves; what it listed and has not yet handled; and
\* (history) whether it has been alone, and undisturbed, since it started.
Idle == [pc |-> "off", own |-> NoInode, owns |-> FALSE,
         fd |-> NoInode, locked |-> FALSE, src |-> {}, pass |-> "rename",
         subdirs |-> {}, features |-> {}, consents |-> {}, files |-> {},
         feature |-> {}, consent |-> {}, alone |-> FALSE]

Set(p, f) == proc' = [proc EXCEPT ![p] = f]

\* src, feature and consent hold at most one element.
Src(p)     == CHOOSE q \in proc[p].src : TRUE
Current(p) == CHOOSE f \in proc[p].feature : TRUE
Entered(p) == CHOOSE c \in proc[p].consent : TRUE
SrcFeature(p) == <<Src(p), Current(p)>>
SrcConsent(p) == <<Src(p), Current(p), Entered(p)>>
DstConsent(p) == <<p, Current(p), Entered(p)>>

-----------------------------------------------------------------------------
(* The filesystem *)

Incident == incidents < MaxIncidents /\ incidents' = incidents + 1

Works == UNCHANGED incidents
Fails == Incident

Under(q, path) == path # Nowhere /\ path[1] = q
Tree(q)        == {d \in dirs : Under(q, d)}
FilesIn(d)     == {x \in File : at[x] = d}
SubdirsOf(d)   == {Last(e) : e \in {e \in dirs : Len(e) = Len(d) + 1 /\ IsPrefix(d, e)}}
Taken(d, name) == \E x \in FilesIn(d) : NameOf[x] = name

\* Locks are held through open files; closing one, or dying, releases its lock.
Open(p, i)   == proc[p].own = i \/ proc[p].fd = i
LockedBy(p, i) == \/ proc[p].owns /\ proc[p].own = i
                  \/ proc[p].locked /\ proc[p].fd = i
Free(i) == \A p \in Pid : ~LockedBy(p, i)

\* The inode that opening q's lock file yields: a new one if there is no file.
FreshInode == CHOOSE i \in Inode : /\ \A q \in Pid : lockFile[q] # i
                                   /\ \A p \in Pid : ~Open(p, i)
Opened(q)  == IF lockFile[q] = NoInode THEN FreshInode ELSE lockFile[q]

-----------------------------------------------------------------------------
(* SdkStorage::Initialize *)

\* Assumed if ReusedInPeace: the pid of a dead process is not given to a new
\* one while a third one has its lock file open ...
PidAtPeace(q) == ReusedInPeace => \A p \in Pid : q \notin proc[p].src

\* ... and a release does not begin while the new one opens the file and locks it.
ReleaseAtPeace(q) == ReusedInPeace => proc[q].pc \notin {"open", "lock"}

Begin(p) ==
    /\ proc[p].pc = "off"
    /\ PidAtPeace(p)
    /\ Incident
    /\ proc' = [q \in Pid |-> IF q = p THEN [Idle EXCEPT !.pc = "open",
                                     !.alone = \A r \in Pid : proc[r].pc = "off"]
                                       ELSE [proc[q] EXCEPT !.alone = FALSE]]
    /\ UNCHANGED <<dirs, at, lockFile, fate>>

\* A process that failed to initialize has the lock it has until it ends.
Fail(p) == [proc[p] EXCEPT !.pc = "failed"]

OpenOwnLock(p) ==
    /\ proc[p].pc = "open"
    /\ \/ /\ Works
          /\ lockFile' = [lockFile EXCEPT ![p] = Opened(p)]
          /\ Set(p, [proc[p] EXCEPT !.pc = "lock", !.own = Opened(p)])
       \/ Fails /\ Set(p, Fail(p)) /\ UNCHANGED lockFile
    /\ UNCHANGED <<dirs, at, fate>>

\* Mutant of TakeOwnLock: the file is closed when the function returns.
TakeOwnLockBriefly(p) ==
    /\ proc[p].pc = "lock"
    /\ Set(p, IF Free(proc[p].own) THEN [proc[p] EXCEPT !.pc = "list", !.own = NoInode]
                                   ELSE [Fail(p) EXCEPT !.own = NoInode])
    /\ UNCHANGED <<dirs, at, lockFile, fate, incidents>>

TakeOwnLock(p) ==
    /\ proc[p].pc = "lock"
    /\ Set(p, IF Free(proc[p].own) THEN [proc[p] EXCEPT !.pc = "list", !.owns = TRUE]
                                   ELSE [Fail(p) EXCEPT !.own = NoInode])
    /\ UNCHANGED <<dirs, at, lockFile, fate, incidents>>

\* Either pass begins with a listing of the instance directory.  A directory
\* with the process's own pid makes the first pass unnecessary.
ListProcessDirs(p) ==
    LET listed == SubdirsOf(<<>>) IN
    /\ proc[p].pc = "list"
    /\ \/ /\ Works
          /\ Set(p, IF proc[p].pass = "rename" /\ p \in listed
                      THEN [proc[p] EXCEPT !.pass = "move"]
                      ELSE [proc[p] EXCEPT !.pc = "scan", !.subdirs = listed \ {p}])
       \/ /\ Fails
          /\ Set(p, [proc[p] EXCEPT !.pc = IF proc[p].pass = "rename" THEN "mkdir"
                                                                      ELSE "running",
                                    !.alone = FALSE])
    /\ UNCHANGED <<dirs, at, lockFile, fate>>

\* All listed directories were considered.
ScanEnds(p) ==
    /\ proc[p].pc = "scan"
    /\ proc[p].subdirs = {}
    /\ Set(p, [proc[p] EXCEPT !.pc = IF proc[p].pass = "rename" THEN "mkdir" ELSE "running"])
    /\ UNCHANGED <<dirs, at, lockFile, fate, incidents>>

CreateProcessRoot(p) ==
    /\ proc[p].pc = "mkdir"
    /\ \/ /\ Works
          /\ dirs' = dirs \cup {<<p>>}
          /\ Set(p, [proc[p] EXCEPT !.pc = "list", !.pass = "move"])
       \/ Fails /\ Set(p, Fail(p)) /\ UNCHANGED dirs
    /\ UNCHANGED <<at, lockFile, fate>>

-----------------------------------------------------------------------------
(* AcquireAbandonedProcessDirectory, and the end of the work on a directory *)

\* On to the next directory: leaving the scope closes the lock file.
Leave(p) == [proc[p] EXCEPT !.pc = "scan", !.fd = NoInode, !.locked = FALSE, !.src = {},
                            !.features = {}, !.consents = {}, !.files = {},
                            !.feature = {}, !.consent = {}]
LeaveDisturbed(p) == [Leave(p) EXCEPT !.alone = FALSE]

\* A call fails, and with it the migration of this directory.
GiveUp(p) == Fails /\ Set(p, LeaveDisturbed(p))

\* Creates the lock file if there is none.
OpenAbandonedLock(p) ==
    /\ proc[p].pc = "scan"
    /\ \E q \in proc[p].subdirs :
       LET rest == proc[p].subdirs \ {q} IN
       \/ /\ Works
          /\ lockFile' = [lockFile EXCEPT ![q] = Opened(q)]
          /\ Set(p, [proc[p] EXCEPT !.pc = "try", !.subdirs = rest, !.src = {q}, !.fd = Opened(q)])
       \/ /\ Fails
          /\ Set(p, [proc[p] EXCEPT !.subdirs = rest, !.alone = FALSE])
          /\ UNCHANGED lockFile
    /\ UNCHANGED <<dirs, at, fate>>

\* Mutant of TakeAbandonedLock: contention is not noticed.
TakeLockAnyway(p) ==
    /\ proc[p].pc = "try"
    /\ Set(p, [proc[p] EXCEPT !.locked = TRUE,
                              !.pc = IF proc[p].pass = "rename" THEN "stat" ELSE "features"])
    /\ UNCHANGED <<dirs, at, lockFile, fate, incidents>>

TakeAbandonedLock(p) ==
    /\ proc[p].pc = "try"
    /\ Set(p, IF Free(proc[p].fd)
                THEN [proc[p] EXCEPT !.locked = TRUE,
                                     !.pc = IF proc[p].pass = "rename" THEN "stat" ELSE "features"]
                ELSE Leave(p))
    /\ UNCHANGED <<dirs, at, lockFile, fate, incidents>>

CloseLock(p) ==
    /\ proc[p].pc = "close"
    /\ ReleaseAtPeace(Src(p))
    /\ Set(p, [proc[p] EXCEPT !.pc = "unlink", !.fd = NoInode, !.locked = FALSE])
    /\ UNCHANGED <<dirs, at, lockFile, fate, incidents>>

\* Mutant of DeleteLock: no second pass after a rename.
DeleteLockAndRun(p) ==
    /\ proc[p].pc = "unlink"
    /\ Works
    /\ lockFile' = [lockFile EXCEPT ![Src(p)] = NoInode]
    /\ Set(p, IF proc[p].pass = "rename" THEN [Leave(p) EXCEPT !.pc = "running"] ELSE Leave(p))
    /\ UNCHANGED <<dirs, at, fate>>

\* After a rename the process has its directory, and the second pass begins.
DeleteLock(p) ==
    /\ proc[p].pc = "unlink"
    /\ \/ Works /\ lockFile' = [lockFile EXCEPT ![Src(p)] = NoInode]
       \/ Fails /\ UNCHANGED lockFile
    /\ Set(p, IF proc[p].pass = "rename"
                THEN [Leave(p) EXCEPT !.pc = "list", !.pass = "move", !.subdirs = {}]
                ELSE Leave(p))
    /\ UNCHANGED <<dirs, at, fate>>

-----------------------------------------------------------------------------
(* The first pass: one directory is renamed, with all that is in it *)

\* Rename() looks for the target first, for rename(2) would replace it.
LookForRoot(p) ==
    /\ proc[p].pc = "stat"
    /\ Set(p, IF <<p>> \in dirs THEN Leave(p) ELSE [proc[p] EXCEPT !.pc = "rename"])
    /\ UNCHANGED <<dirs, at, lockFile, fate, incidents>>

Moved(path, q, p) == IF Under(q, path) THEN [path EXCEPT ![1] = p] ELSE path

\* rename(2) replaces an empty directory, and fails on any other.
RenameRoot(p) ==
    LET q == Src(p)
        possible == <<q>> \in dirs /\ Tree(p) \subseteq {<<p>>} /\ FilesIn(<<p>>) = {} IN
    /\ proc[p].pc = "rename"
    /\ \/ /\ possible /\ Works
          /\ dirs' = {Moved(d, q, p) : d \in dirs}
          /\ at' = [x \in File |-> Moved(at[x], q, p)]
          /\ Set(p, [proc[p] EXCEPT !.pc = "close"])
       \/ /\ possible /\ GiveUp(p) /\ UNCHANGED <<dirs, at>>
       \/ /\ ~possible /\ Works /\ Set(p, Leave(p)) /\ UNCHANGED <<dirs, at>>
    /\ UNCHANGED <<lockFile, fate>>

-----------------------------------------------------------------------------
(* The second pass: Handle{Process,Feature,Consent}DirectoryMigration *)

ListFeatures(p) ==
    /\ proc[p].pc = "features"
    /\ \/ /\ <<Src(p)>> \in dirs /\ Works
          /\ Set(p, [proc[p] EXCEPT !.pc = "feature", !.features = SubdirsOf(<<Src(p)>>)])
       \/ <<Src(p)>> \in dirs /\ GiveUp(p)
       \/ <<Src(p)>> \notin dirs /\ Works /\ Set(p, Leave(p))
    /\ UNCHANGED <<dirs, at, lockFile, fate>>

\* Create the feature's directory under the own one; list the old one.
EnterFeature(p) ==
    /\ proc[p].pc = "feature"
    /\ \E f \in proc[p].features :
       \/ /\ Works
          /\ dirs' = dirs \cup {<<p, f>>}
          /\ Set(p, [proc[p] EXCEPT !.pc = "consent", !.feature = {f},
                                    !.features = @ \ {f},
                                    !.consents = SubdirsOf(<<Src(p), f>>)])
       \/ GiveUp(p) /\ dirs' \in {dirs, dirs \cup {<<p, f>>}}
    /\ UNCHANGED <<at, lockFile, fate>>

EnterConsent(p) ==
    /\ proc[p].pc = "consent"
    /\ \E c \in proc[p].consents :
       LET dst == <<p, Current(p), c>> IN
       \/ /\ Works
          /\ dirs' = dirs \cup {dst}
          /\ Set(p, [proc[p] EXCEPT !.pc = "file", !.consent = {c}, !.consents = @ \ {c},
                                    !.files = FilesIn(<<Src(p), Current(p), c>>)])
       \/ GiveUp(p) /\ dirs' \in {dirs, dirs \cup {dst}}
    /\ UNCHANGED <<at, lockFile, fate>>

\* Mutant of LookForFile: rename(2) alone, which replaces what it finds.
LookAway(p) ==
    /\ proc[p].pc = "file"
    /\ proc[p].files # {}
    /\ Set(p, [proc[p] EXCEPT !.pc = "move"])
    /\ UNCHANGED <<dirs, at, lockFile, fate, incidents>>

\* Mutant of LookForFile: a conflict is resolved in favour of the old file.
PreferOldFile(p) ==
    /\ proc[p].pc = "file"
    /\ proc[p].files # {}
    /\ LET x == CHOOSE x \in proc[p].files : TRUE
           inTheWay(y) == at[y] = DstConsent(p) /\ NameOf[y] = NameOf[x] IN
       /\ at' = [y \in File |-> IF inTheWay(y) THEN Nowhere ELSE at[y]]
       /\ fate' = [y \in File |-> IF inTheWay(y) THEN "conflict" ELSE fate[y]]
    /\ Set(p, [proc[p] EXCEPT !.pc = "move"])
    /\ UNCHANGED <<dirs, lockFile, incidents>>

\* Rename() of the next file.  If there is one of that name already, the old
\* process's file is deleted.
LookForFile(p) ==
    /\ proc[p].pc = "file"
    /\ proc[p].files # {}
    /\ LET x == CHOOSE x \in proc[p].files : TRUE IN
       IF Taken(DstConsent(p), NameOf[x])
         THEN \/ /\ Works
                 /\ at' = [at EXCEPT ![x] = Nowhere]
                 /\ fate' = [fate EXCEPT ![x] = "conflict"]
                 /\ Set(p, [proc[p] EXCEPT !.files = @ \ {x}])
              \/ GiveUp(p) /\ UNCHANGED <<at, fate>>
         ELSE Works /\ Set(p, [proc[p] EXCEPT !.pc = "move"]) /\ UNCHANGED <<at, fate>>
    /\ UNCHANGED <<dirs, lockFile>>

MoveFile(p) ==
    LET x == CHOOSE x \in proc[p].files : TRUE IN
    /\ proc[p].pc = "move"
    /\ \/ /\ at[x] = SrcConsent(p) /\ Works
          /\ at' = [y \in File |-> IF y = x THEN DstConsent(p)
                                   ELSE IF at[y] = DstConsent(p) /\ NameOf[y] = NameOf[x]
                                     THEN Nowhere ELSE at[y]]
          /\ Set(p, [proc[p] EXCEPT !.pc = "file", !.files = @ \ {x}])
       \/ at[x] = SrcConsent(p) /\ GiveUp(p) /\ UNCHANGED at
       \/ at[x] # SrcConsent(p) /\ Works /\ Set(p, Leave(p)) /\ UNCHANGED at
    /\ UNCHANGED <<dirs, lockFile, fate>>

\* rmdir(2), of a directory with nothing in it; then on with `next`.
RemoveDir(p, d, next) ==
    LET possible == d \in dirs /\ FilesIn(d) = {} /\ SubdirsOf(d) = {} IN
    \/ possible /\ Works /\ dirs' = dirs \ {d} /\ Set(p, next)
    \/ possible /\ GiveUp(p) /\ UNCHANGED dirs
    \/ ~possible /\ Works /\ Set(p, Leave(p)) /\ UNCHANGED dirs

LeaveConsent(p) ==
    /\ proc[p].pc = "file"
    /\ proc[p].files = {}
    /\ RemoveDir(p, SrcConsent(p), [proc[p] EXCEPT !.pc = "consent", !.consent = {}])
    /\ UNCHANGED <<at, lockFile, fate>>

\* DeleteLooseFilesInDirectory; a failure leaves the rest of them.
SweepLoose(p, d, next) ==
    \/ /\ Works
       /\ at' = [x \in File |-> IF at[x] = d THEN Nowhere ELSE at[x]]
       /\ fate' = [x \in File |-> IF at[x] = d THEN "swept" ELSE fate[x]]
       /\ Set(p, next)
    \/ GiveUp(p) /\ UNCHANGED <<at, fate>>

SweepFeature(p) ==
    /\ proc[p].pc = "consent"
    /\ proc[p].consents = {}
    /\ SweepLoose(p, SrcFeature(p), [proc[p] EXCEPT !.pc = "rmFeature"])
    /\ UNCHANGED <<dirs, lockFile>>

LeaveFeature(p) ==
    /\ proc[p].pc = "rmFeature"
    /\ RemoveDir(p, SrcFeature(p), [proc[p] EXCEPT !.pc = "feature", !.feature = {}])
    /\ UNCHANGED <<at, lockFile, fate>>

SweepProcess(p) ==
    /\ proc[p].pc = "feature"
    /\ proc[p].features = {}
    /\ SweepLoose(p, <<Src(p)>>, [proc[p] EXCEPT !.pc = "rmProcess"])
    /\ UNCHANGED <<dirs, lockFile>>

LeaveProcess(p) ==
    /\ proc[p].pc = "rmProcess"
    /\ RemoveDir(p, <<Src(p)>>, [proc[p] EXCEPT !.pc = "close"])
    /\ UNCHANGED <<at, lockFile, fate>>

-----------------------------------------------------------------------------
(* A process at work, and its end *)

\* FeatureEventStorage::Initialize
RegisterFeature(p, f) ==
    /\ proc[p].pc = "running"
    /\ dirs' = dirs \cup {<<p, f>>} \cup {<<p, f, c>> : c \in Consent}
    /\ dirs' # dirs
    /\ UNCHANGED <<at, lockFile, proc, fate, incidents>>

\* The storage thread creates a file (see BatchStorage) ...
WriteBatch(p, x) ==
    /\ proc[p].pc = "running"
    /\ fate[x] = "none"
    /\ \E d \in Tree(p) :
       /\ Len(d) = 3 /\ ~Taken(d, NameOf[x])
       /\ at' = [at EXCEPT ![x] = d]
    /\ fate' = [fate EXCEPT ![x] = "kept"]
    /\ UNCHANGED <<dirs, lockFile, proc, incidents>>

\* ... and an upload cycle or the storage thread deletes it.
FinishBatch(p, x) ==
    /\ proc[p].pc = "running"
    /\ Under(p, at[x])
    /\ at' = [at EXCEPT ![x] = Nowhere]
    /\ fate' = [fate EXCEPT ![x] = "finished"]
    /\ UNCHANGED <<dirs, lockFile, proc, incidents>>

\* Someone else, a file browser say, leaves a file: it may be in the way of a
\* process that has not finished its migration.
DropLoose(x) ==
    /\ fate[x] = "none"
    /\ Incident
    /\ \E d \in dirs : at' = [at EXCEPT ![x] = d]
    /\ fate' = [fate EXCEPT ![x] = "kept"]
    /\ proc' = [p \in Pid |-> IF proc[p].pc = "running" THEN proc[p]
                              ELSE [proc[p] EXCEPT !.alone = FALSE]]
    /\ UNCHANGED <<dirs, lockFile>>

\* The core is destroyed, or the process ends or dies wherever it is: its
\* files are closed, and its locks with them; its lock file stays.
Exit(p) ==
    /\ proc[p].pc # "off"
    /\ Set(p, Idle)
    /\ UNCHANGED <<dirs, at, lockFile, fate, incidents>>

-----------------------------------------------------------------------------

Init ==
    /\ dirs = {}
    /\ at = [x \in File |-> Nowhere]
    /\ lockFile = [q \in Pid |-> NoInode]
    /\ proc = [p \in Pid |-> Idle]
    /\ fate = [x \in File |-> "none"]
    /\ incidents = 0

InitializeStep(p) ==
    \/ OpenOwnLock(p) \/ TakeOwnLock(p) \/ ListProcessDirs(p) \/ ScanEnds(p)
    \/ CreateProcessRoot(p)
    \/ OpenAbandonedLock(p) \/ TakeAbandonedLock(p) \/ CloseLock(p) \/ DeleteLock(p)
    \/ LookForRoot(p) \/ RenameRoot(p)
    \/ ListFeatures(p) \/ EnterFeature(p) \/ EnterConsent(p)
    \/ LookForFile(p) \/ MoveFile(p) \/ LeaveConsent(p)
    \/ SweepFeature(p) \/ LeaveFeature(p) \/ SweepProcess(p) \/ LeaveProcess(p)

RunningStep(p) ==
    \/ \E f \in Feature : RegisterFeature(p, f)
    \/ \E x \in Batch : WriteBatch(p, x) \/ FinishBatch(p, x)

Next ==
    \/ \E p \in Pid : Begin(p) \/ InitializeStep(p) \/ RunningStep(p) \/ Exit(p)
    \/ \E x \in Loose : DropLoose(x)

Spec == Init /\ [][Next]_vars

-----------------------------------------------------------------------------
(* Properties *)

Ready(p) == proc[p].pc = "running"

TypeOK ==
    /\ dirs \in SUBSET Path
    /\ at \in [File -> Path \cup {Nowhere}]
    /\ lockFile \in [Pid -> Inode \cup {NoInode}]
    /\ \A p \in Pid :
       /\ proc[p].pc \in {"off", "open", "lock", "failed", "list", "scan", "mkdir", "try", "stat",
                          "rename", "features", "feature", "consent", "file", "move",
                          "rmFeature", "rmProcess", "close", "unlink", "running"}
       /\ {proc[p].own, proc[p].fd} \subseteq Inode \cup {NoInode}
       /\ proc[p].src \cup proc[p].subdirs \subseteq Pid \ {p}
       /\ proc[p].pass \in {"rename", "move"}
       /\ proc[p].features \cup proc[p].feature \subseteq Feature
       /\ proc[p].consents \cup proc[p].consent \subseteq Consent
       /\ proc[p].files \subseteq File
    /\ fate \in [File -> {"none", "kept", "finished", "conflict", "swept"}]
    /\ incidents \in 0 .. MaxIncidents

\* The directories a process may change: its own once it has the lock, and the
\* abandoned one it has the lock of.  (When that is gone already, the lock file may
\* be unlinked, made anew and locked by another process: neither finds anything.)
Claims(p) == (IF proc[p].owns THEN {p} ELSE {})
             \cup (IF proc[p].locked THEN {q \in proc[p].src : <<q>> \in dirs} ELSE {})

\* No two live processes ever work on the same directory (sdk.hpp: an SDK
\* instance's lock tells others that it is still managing its files).
ExclusiveClaims == \A p, q \in Pid : p # q => Claims(p) \cap Claims(q) = {}

\* What Initialize() guarantees when it succeeds (sdk.hpp): the directory exists,
\* and the process holds the lock of the file <pid>.lock for its lifetime.
OwnsItsRoot ==
    \A p \in Pid : Ready(p) =>
        /\ <<p>> \in dirs
        /\ lockFile[p] # NoInode /\ LockedBy(p, lockFile[p])

\* A process that runs has a directory of its own, and no other has it.
RootsOwned == TypeOK /\ ExclusiveClaims /\ OwnsItsRoot

\* Nobody takes a file from a live process.
LiveDataStays ==
    [][\A p \in Pid, x \in File :
        Ready(p) /\ Under(p, at[x]) => Under(p, at'[x]) \/ at'[x] = Nowhere]_vars

\* Whatever process dies wherever, a batch file is in a directory that exists
\* until its owner deletes it or it loses its name to another file: it is
\* neither replaced by a rename nor left behind in a directory that goes.  (A
\* loose file that appears after Rename() looked for it is replaced.)
FilesKept ==
    \A x \in Batch : fate[x] = "kept" => at[x] \in dirs

\* In one directory there is one file of each name; a conflict costs the file of
\* the dead process, never a file under the new one's directory.
ConflictsCostTheOld ==
    [][\A x \in File : fate'[x] = "conflict" /\ fate[x] # "conflict" =>
        \E p \in Pid : ~Under(p, at[x]) /\ proc[p].pass = "move"
                       /\ \E y \in File : y # x /\ NameOf[y] = NameOf[x] /\ Under(p, at'[y])]_vars

\* A process that initializes alone and undisturbed (no call of its own fails and
\* nobody leaves a file meanwhile) has everything under its
\* own directory then, however many processes died before it, in the middle of
\* a migration or not; a file lies outside only if it came meanwhile.
AdoptsEverything ==
    \A p \in Pid : Ready(p) /\ proc[p].alone =>
        \A x \in Batch : fate[x] = "kept" => Under(p, at[x])
=============================================================================
