------------------------- MODULE BatchStorage_proofs -------------------------
(***************************************************************************)
(* Proofs about BatchStorage, for any set of events, any ages and limits   *)
(* and any amount of trouble.  Every step of either thread keeps IInv:     *)
(* where an event is and what is known of it; what each thread believes of *)
(* the files between two of its calls; and that time keeps the two apart.  *)
(***************************************************************************)
EXTENDS BatchStorage, FiniteSetTheorems, NaturalsInduction, WellFoundedInduction, TLAPS

\* Stored: the records of the events whose write was reported a success.
Stored == {"pending", "granted", "revoked"}

\* The upload thread has opened a file of the granted directory, or knows that it is gone.
Sending == upc \in {"post", "delete"}

\* An event is on disk once its write has succeeded, in one file, until it is
\* given up; one that waits for consent is not even about to be lost.
Filed ==
  /\ \A d \in Dir, n \in Name : ~disk[d][n].exists => disk[d][n].events = {}
  /\ \A d \in Dir, n \in Name : \A e \in disk[d][n].events :
       /\ record[e] \in Stored
       /\ lost[e] \in {"no", "adopted", "overtaken"}
       /\ d = "pending" => lost[e] = "no"
       /\ \A c \in Dir, m \in Name : e \in disk[c][m].events => c = d /\ m = n
  /\ \A e \in Event : record[e] \in {"new", "writing"} => lost[e] = "no" /\ acked[e] = 0

\* The write under way, if there is one.
WriteUnderWay ==
  Writing =>
    /\ mode = "running"
    /\ record[write.event] = "writing"
    /\ ~TooLarge(write.event)
    /\ write.standing = write.dir
    /\ write.dir = "pending" => consent = "pending"

\* What the storage thread knows of its files: a name it takes is free, the file it
\* appends to has room, and it has counted all that is in there.
Excepted(d, n) ==
  d = "granted" /\ \E e \in disk[d][n].events : lost[e] \in {"adopted", "overtaken"}

CountedUpTo(f, events) == Cardinality(events) <= f.writes /\ Bytes[events] <= f.bytes

ActiveFiles ==
  /\ active["pending"].open => consent = "pending"
  /\ wpc \in {"measure", "purge"} => Files(write.dir) \subseteq wnames
  /\ wpc \in {"open", "write"} =>
       LET f == active[write.dir] IN
         f.open /\ f.writes < MaxWrites /\ f.bytes + Bytes[{write.event}] <= MaxFileSize
  /\ \A d \in Dir : active[d].open =>
       \/ Excepted(d, active[d].name)
       \/ CountedUpTo(active[d], disk[d][active[d].name].events)

\* As long as the clock only goes forward, what is written is young, and there.
WrittenInTime ==
  ClockTrusted =>
    /\ unow <= now
    /\ Writing => now <= write.time + MaxStall
    /\ wpc \in {"open", "write"} => write.time <= active[write.dir].name + WriteAge
    /\ wpc = "write" => disk[write.dir][active[write.dir].name].exists

\* Who cycles, and that what it opens is old, unless nobody else is left.
Cycling ==
  /\ mode = "down" => upc = "idle"
  /\ Sending => unames # {} /\ (mode # "flushing" => Age(Min(unames)) >= ReadAge)

\* What was read of the batch is all there is, and is nowhere else.
ReadWhole ==
  /\ ~Sending => batch = NoFile
  /\ \A e \in batch.events :
       /\ record[e] \in Stored
       /\ \A d \in Dir, n \in Name :
            e \in disk[d][n].events => d = "granted" /\ n = Min(unames)
  /\ ClockTrusted /\ Sending =>
       \A e \in disk["granted"][Min(unames)].events : e \in batch.events \/ lost[e] = "overtaken"
  /\ upc = "delete" /\ answer = "success" => \A e \in batch.events : acked[e] > 0
  /\ upc = "delete" => answer # "none"

\* The pending directory of a refusal: DeletePendingBatches has still to come by.
Awaiting(n) ==
  \/ consent = "notGranted" /\ wpc = "listPending"
  \/ consent = "notGranted" /\ wpc = "resolve" /\ n \in wnames
  \/ mode = "down" /\ consent = "pending" /\ wpc = "idle"

ConsentFollowed ==
  spent.faults = 0 =>
    /\ \A n \in Name : \A e \in disk["granted"][n].events : record[e] = "granted"
    /\ \A e \in batch.events : record[e] = "granted"
    /\ ConsentRespected
    /\ consent # "pending" =>
         \A n \in Name : \A e \in disk["pending"][n].events : record[e] # "pending"
    /\ \A n \in Name : \A e \in disk["pending"][n].events :
         record[e] = "revoked" => given = "notGranted" /\ Awaiting(n)

\* A confirmed event is gone, or its file is the next to be deleted.
Confirmed ==
  spent.faults + spent.restarts = 0 =>
    /\ \A e \in Event : acked[e] <= 1
    /\ upc = "post" => \A e \in batch.events : acked[e] = 0
    /\ \A d \in Dir, n \in Name : \A e \in disk[d][n].events :
         acked[e] > 0 => upc = "delete" /\ answer = "success" /\ d = "granted" /\ n = Min(unames)

\* The records that are whole keep within the limits of their file.
Fits(events) == Cardinality(events) <= MaxWrites /\ Bytes[events] <= MaxFileSize

EventLimits ==
  \A d \in Dir, n \in Name :
    \/ Fits(disk[d][n].events)
    \/ d = "granted" /\ \E e \in disk[d][n].events : lost[e] \in {"adopted", "overtaken"}

\* Those cut short took a call that failed each, and are shorter than an event may be.
TornCounted ==
  \A d \in Dir, n \in Name : disk[d][n].torn <= spent.faults * MaxEventSize

\* The inductive invariant; the properties of the run are parts of it or follow from it.
IInv ==
  /\ TypeOK
  /\ Filed /\ WriteUnderWay /\ ActiveFiles /\ EventLimits
  /\ WrittenInTime /\ Cycling /\ ReadWhole
  /\ NoSilentLoss /\ ConsentFollowed /\ Confirmed

-----------------------------------------------------------------------------
(* Names, sizes and troubles. *)

Before == {p \in Nat \X Nat : p[1] < p[2]}

LEMMA LimitTypes ==
  /\ MaxWrites \in Nat /\ MaxFileSize \in Nat /\ MaxEventSize \in Nat
  /\ WriteAge \in Nat /\ ReadAge \in Nat /\ ExpireAge \in Nat /\ MaxStall \in Nat /\ MaxTime \in Nat
  /\ Name \subseteq Nat /\ 0 .. MaxTime \subseteq Name
BY AgesAssumption, LimitsAssumption DEF Name

FileDetails == [open : BOOLEAN, name : Name, writes : Nat, bytes : Nat]

LEMMA NoActiveType == NoActive \in FileDetails
BY LimitTypes DEF NoActive, FileDetails

\* A set of names that is not empty has a first one.
LEMMA MinName ==
  ASSUME NEW S \in SUBSET Name, S # {}
  PROVE  Min(S) \in S /\ Min(S) \in Name /\ Min(S) \in Nat /\ \A n \in S : Min(S) <= n
<1>1. Name \subseteq Nat
  BY AgesAssumption, LimitsAssumption DEF Name
<1>2. Before = OpToRel(<, Nat)
  BY DEF Before, OpToRel
<1>3. IsWellFoundedOn(Before, Nat)
  BY <1>2, NatLessThanWellFounded
<1>4. PICK x \in S : \A y \in S : ~ (<< y, x >> \in Before)
  BY <1>1, <1>3, WFMin
<1>5. \A y \in S : << y, x >> \in Nat \X Nat /\ ~ (y < x)
  BY <1>1, <1>4 DEF Before
<1>6. \A y \in S : y \in Nat /\ x \in Nat /\ ~ (y < x)
  BY <1>5
<1>7. \E z \in S : \A y \in S : z <= y
  BY <1>6
<1>8. Min(S) \in S /\ \A n \in S : Min(S) <= n
  BY <1>7 DEF Min
<1> QED
  BY <1>1, <1>8

\* An event that is not too large fits into a file of its own.
LEMMA FitsAlone ==
  ASSUME NEW e \in Event, ~TooLarge(e)
  PROVE  /\ MaxWrites > 0 /\ Bytes[{e}] \in Nat
         /\ Bytes[{e}] <= MaxFileSize /\ Bytes[{e}] <= MaxEventSize
<1> DEFINE both == {MaxEventSize, MaxFileSize}
<1>1. MaxEventSize \in Nat /\ MaxFileSize \in Nat /\ MaxWrites \in Nat /\ Bytes[{e}] \in Nat
  BY LimitsAssumption, BytesAssumption
<1>2. \E x \in both : \A y \in both : x <= y
  BY <1>1
<1>3. Min(both) <= MaxFileSize /\ Min(both) <= MaxEventSize /\ Min(both) \in Nat
  BY <1>1, <1>2 DEF Min
<1> QED
  BY <1>1, <1>3 DEF TooLarge

\* One more record: one more event at most, and no more bytes than its own.
LEMMA OneMoreRecord ==
  ASSUME NEW S \in SUBSET Event, NEW e \in Event
  PROVE  /\ Cardinality(S) \in Nat /\ Cardinality(S \union {e}) \in Nat
         /\ Cardinality(S \union {e}) <= Cardinality(S) + 1
         /\ Bytes[S] \in Nat /\ Bytes[{e}] \in Nat /\ Bytes[S \union {e}] \in Nat
         /\ Bytes[S \union {e}] <= Bytes[S] + Bytes[{e}]
<1>1. IsFiniteSet(S)
  BY BytesAssumption, FS_Subset
<1>2. Cardinality(S) \in Nat /\ Cardinality(S \union {e}) \in Nat
      /\ Cardinality(S \union {e}) <= Cardinality(S) + 1
  BY <1>1, FS_AddElement, FS_CardinalityType
<1>3. Bytes[S] \in Nat /\ Bytes[{e}] \in Nat /\ Bytes[S \union {e}] \in Nat
  BY BytesAssumption
<1>4. CASE e \in S
  <2>1. S \union {e} = S
    BY <1>4
  <2>2. Bytes[S \union {e}] = Bytes[S]
    BY <2>1
  <2> QED
    BY <2>2, <1>2, <1>3
<1>5. CASE e \notin S
  BY <1>2, <1>3, <1>5, BytesAssumption
<1> QED
  BY <1>4, <1>5

LEMMA SizeType ==
  ASSUME NEW f \in File
  PROVE  Size(f) \in Nat
<1>1. Bytes[f.events] \in Nat /\ f.torn \in Nat
  BY BytesAssumption DEF File
<1> QED
  BY <1>1 DEF Size

\* No events take no room.
LEMMA NoEvents == Cardinality({}) = 0 /\ Bytes[{}] = 0
BY FS_EmptySet, BytesAssumption

SpentType == [faults : Nat, outages : Nat, back : Nat, restarts : Nat]

\* What a failed call does to the books, and an outage, and an interruption.
LEMMA FaultSpent ==
  ASSUME spent \in SpentType, NEW call, Fails(call)
  PROVE  /\ spent' \in SpentType
         /\ spent'.back = spent.back /\ spent'.restarts = spent.restarts
         /\ spent'.faults = spent.faults + 1
BY DEF SpentType, Fails, Spend

LEMMA OutageSpent ==
  ASSUME spent \in SpentType, Outage
  PROVE  /\ spent' \in SpentType
         /\ spent'.back = spent.back /\ spent'.restarts = spent.restarts
         /\ spent'.faults = spent.faults
BY DEF SpentType, Outage, Spend

LEMMA InterruptSpent ==
  ASSUME spent \in SpentType, Interrupt
  PROVE  /\ spent' \in SpentType
         /\ spent'.back = spent.back /\ spent'.faults = spent.faults
         /\ spent'.restarts = spent.restarts + 1
BY DEF SpentType, Interrupt, Spend

\* Whatever a step may find wrong, what is already wrong stays so.
Worse ==
  /\ spent' \in SpentType /\ spent \in SpentType
  /\ spent'.back = spent.back
  /\ spent'.faults = 0 => spent.faults = 0
  /\ spent'.faults + spent'.restarts = 0 => spent.faults + spent.restarts = 0

LEMMA CallsAreWorse ==
  ASSUME spent \in SpentType, \/ Works
                              \/ \E call \in FileCalls \union {"torn"} : Fails(call)
                              \/ Outage \/ Interrupt
  PROVE  Worse
<1>1. CASE Works
  BY <1>1 DEF Worse, Works
<1>2. CASE \E call \in FileCalls \union {"torn"} : Fails(call)
  BY <1>2, FaultSpent DEF Worse, SpentType
<1>3. CASE Outage
  BY <1>3, OutageSpent DEF Worse, SpentType
<1>4. CASE Interrupt
  BY <1>4, InterruptSpent DEF Worse, SpentType
<1> QED
  BY <1>1, <1>2, <1>3, <1>4

\* The next file in line.
LEMMA NextName ==
  ASSUME TypeOK
  PROVE  /\ unames # {} => Min(unames) \in unames /\ Min(unames) \in Name /\ Min(unames) \in Nat
         /\ wnames # {} => Min(wnames) \in wnames /\ Min(wnames) \in Name
         /\ Untried # {} => Min(Untried) \in Untried /\ Min(Untried) \in wnames /\ Min(Untried) \in Name
BY MinName DEF TypeOK, Untried

\* While a file is open for writing, the upload cycle holds it too young to touch.
LEMMA KeptApart ==
  ASSUME TypeOK, WriteUnderWay, WrittenInTime
  PROVE  TimeSeparation
<1> SUFFICES ASSUME ClockTrusted, wpc \in {"open", "write"}, upc # "idle"
             PROVE  mode = "running" /\ unow < active[write.dir].name + ReadAge
  BY DEF TimeSeparation
<1>1. mode = "running" /\ now <= write.time + MaxStall
  BY DEF WriteUnderWay, WrittenInTime, Writing
<1>2. unow <= now /\ write.time <= active[write.dir].name + WriteAge
  BY DEF WrittenInTime
<1>3. unow \in Nat /\ now \in Nat /\ write.time \in Nat /\ active[write.dir].name \in Nat
  BY AgesAssumption, LimitsAssumption DEF TypeOK, Name
<1> QED
  BY <1>1, <1>2, <1>3, AgesAssumption

\* In particular it is neither the batch under way nor a file that has expired.
LEMMA OpenIsNotRead ==
  ASSUME TypeOK, WriteUnderWay, WrittenInTime, Cycling, ClockTrusted, wpc \in {"open", "write"}
  PROVE  /\ Sending => Min(unames) # active[write.dir].name
         /\ \A n \in Name : upc # "idle" /\ Age(n) >= ExpireAge => n # active[write.dir].name
<1>1. upc # "idle" => mode = "running" /\ unow < active[write.dir].name + ReadAge
  BY KeptApart DEF TimeSeparation
<1>2. unow \in Nat /\ \A n \in Name : n \in Nat
  BY AgesAssumption, LimitsAssumption DEF TypeOK, Name
<1>3. \A n \in Name : Age(n) >= ReadAge => n + ReadAge <= unow
  BY <1>2, AgesAssumption DEF Age
<1>4. \A n \in Name : Age(n) >= ExpireAge => Age(n) >= ReadAge
  BY <1>2, AgesAssumption DEF Age
<1>5. Sending => upc # "idle" /\ Min(unames) \in Name /\ (mode # "flushing" => Age(Min(unames)) >= ReadAge)
  BY NextName DEF Cycling, Sending
<1> QED
  BY <1>1, <1>2, <1>3, <1>4, <1>5, AgesAssumption

-----------------------------------------------------------------------------
(* A file that is given up. *)

\* What is given up leaves no trace on disk, and nothing else changes.
GivesUp(d, n, reason) ==
  /\ d \in Dir /\ n \in Name /\ reason \in {"revoked", "conflict", "purged", "expired"}
  /\ Unlink(d, n) /\ Drop(disk[d][n].events, reason)
  /\ Worse
  /\ UNCHANGED << now, mode, wpc, given, consent, active, upc, unow, batch, answer,
                  record, received, acked >>
  /\ UNCHANGED << write.event, write.dir, write.time, write.standing >>

LEMMA GivenUp ==
  ASSUME IInv, NEW d, NEW n, NEW reason, GivesUp(d, n, reason)
  PROVE  /\ disk' \in [Dir -> [Name -> File]] /\ lost' \in [Event -> Reason]
         /\ disk'[d][n] = NoFile
         /\ \A c \in Dir, m \in Name : disk'[c][m] = disk[c][m] \/ disk'[c][m] = NoFile
         /\ \A c \in Dir, m \in Name : c # d \/ m # n => disk'[c][m] = disk[c][m]
         /\ \A c \in Dir, m \in Name : \A e \in disk'[c][m].events :
              e \in disk[c][m].events /\ lost'[e] = lost[e]
         /\ Filed' /\ EventLimits' /\ NoSilentLoss'
<1> USE DEF IInv, GivesUp
<1>1. disk' \in [Dir -> [Name -> File]] /\ lost' \in [Event -> Reason]
  BY DEF TypeOK, Unlink, Drop, Reason, File, NoFile
<1>2. /\ disk'[d][n] = NoFile
      /\ \A c \in Dir, m \in Name : disk'[c][m] = disk[c][m] \/ disk'[c][m] = NoFile
      /\ \A c \in Dir, m \in Name : c # d \/ m # n => disk'[c][m] = disk[c][m]
  BY DEF TypeOK, Unlink
<1>3. \A c \in Dir, m \in Name : \A e \in disk[c][m].events : e \in Event
  BY DEF TypeOK, File
<1>d. \A e \in Event : lost'[e] = IF e \in disk[d][n].events /\ lost[e] \in Kept THEN reason ELSE lost[e]
  BY DEF Drop
<1>4. NoFile.events = {} /\ ~NoFile.exists
  BY DEF NoFile
<1>5. \A c \in Dir, m \in Name : \A e \in disk'[c][m].events :
        e \in disk[c][m].events /\ lost'[e] = lost[e]
  <2>1. SUFFICES ASSUME NEW c \in Dir, NEW m \in Name, NEW e \in disk'[c][m].events
                 PROVE  e \in disk[c][m].events /\ lost'[e] = lost[e]
    OBVIOUS
  <2>2. disk'[c][m] = disk[c][m] /\ (c # d \/ m # n)
    BY <1>2, <1>4
  <2>3. e \notin disk[d][n].events
    BY <2>2 DEF Filed
  <2> QED
    BY <1>3, <1>d, <2>2, <2>3
<1>6. Filed'
  <2>1. \A c \in Dir, m \in Name : ~disk'[c][m].exists => disk'[c][m].events = {}
    BY <1>2, <1>4 DEF Filed
  <2>2. \A e \in Event : record[e] \in {"new", "writing"} =>
          \A c \in Dir, m \in Name : e \notin disk[c][m].events
    BY DEF Filed, Stored
  <2>3. \A e \in Event : record'[e] \in {"new", "writing"} => lost'[e] = "no" /\ acked'[e] = 0
    BY <1>d, <2>2 DEF Filed
  <2>4. \A c \in Dir, m \in Name : \A e \in disk'[c][m].events :
          /\ record'[e] \in Stored
          /\ lost'[e] \in {"no", "adopted", "overtaken"}
          /\ c = "pending" => lost'[e] = "no"
          /\ \A c2 \in Dir, m2 \in Name : e \in disk'[c2][m2].events => c2 = c /\ m2 = m
    <3>1. SUFFICES ASSUME NEW c \in Dir, NEW m \in Name, NEW e \in disk'[c][m].events
                   PROVE  /\ record'[e] \in Stored
                          /\ lost'[e] \in {"no", "adopted", "overtaken"}
                          /\ c = "pending" => lost'[e] = "no"
                          /\ \A c2 \in Dir, m2 \in Name : e \in disk'[c2][m2].events => c2 = c /\ m2 = m
      OBVIOUS
    <3>2. e \in disk[c][m].events /\ lost'[e] = lost[e] /\ record'[e] = record[e]
      BY <1>5
    <3>3. \A c2 \in Dir, m2 \in Name : e \in disk'[c2][m2].events => e \in disk[c2][m2].events
      BY <1>5
    <3> QED
      BY <3>2, <3>3 DEF Filed
  <2> QED
    BY <2>1, <2>3, <2>4 DEF Filed
<1>7. EventLimits'
  <2>1. SUFFICES ASSUME NEW c \in Dir, NEW m \in Name
                 PROVE  \/ Fits(disk'[c][m].events)
                        \/ c = "granted" /\ \E e \in disk'[c][m].events : lost'[e] \in {"adopted", "overtaken"}
    BY DEF EventLimits, Fits
  <2>2. CASE disk'[c][m] = NoFile
    BY <1>4, <2>2, NoEvents, LimitTypes DEF Fits
  <2>3. CASE disk'[c][m] = disk[c][m]
    BY <1>5, <2>3 DEF EventLimits
  <2> QED
    BY <1>2, <2>2, <2>3
<1>8. NoSilentLoss'
  <2>1. \A e \in OnDisk : e \in OnDisk' \/ e \in disk[d][n].events
    BY <1>2 DEF OnDisk
  <2>2. \A e \in disk[d][n].events : lost'[e] \notin Kept
    BY <1>3, <1>d DEF Kept
  <2>3. \A e \in Event : lost[e] \notin Kept => lost'[e] \notin Kept
    BY <1>d DEF Kept
  <2> QED
    BY <2>1, <2>2, <2>3 DEF NoSilentLoss, ClockTrusted, Worse
<1> QED
  BY <1>1, <1>2, <1>5, <1>6, <1>7, <1>8

\* Files the storage thread appends to, those that are gone and those that are there.
LEMMA CountedStill ==
  ASSUME IInv,
         \A c \in Dir, m \in Name :
           disk'[c][m].events = disk[c][m].events \/ disk'[c][m].events = {},
         \A c \in Dir, m \in Name : \A e \in disk'[c][m].events : lost'[e] = lost[e],
         UNCHANGED << active, consent >>
  PROVE  \A d \in Dir : active'[d].open =>
            \/ Excepted(d, active[d].name)'
            \/ CountedUpTo(active[d], disk[d][active[d].name].events)'
<1> SUFFICES ASSUME NEW d \in Dir, active[d].open
             PROVE  \/ Excepted(d, active[d].name)'
                    \/ CountedUpTo(active[d], disk[d][active[d].name].events)'
  OBVIOUS
<1> DEFINE n == active[d].name
<1>1. n \in Name /\ active[d].writes \in Nat /\ active[d].bytes \in Nat
  BY DEF IInv, TypeOK
<1>2. Excepted(d, n) \/ CountedUpTo(active[d], disk[d][n].events)
  BY DEF IInv, ActiveFiles
<1>3. CASE disk'[d][n].events = {}
  BY <1>1, <1>3, NoEvents DEF CountedUpTo
<1>4. CASE disk'[d][n].events = disk[d][n].events
  BY <1>1, <1>2, <1>4 DEF Excepted, CountedUpTo
<1> QED
  BY <1>1, <1>3, <1>4

\* Files may be created, and torn, but hold the events they held.
SameEvents ==
  \A d \in Dir, n \in Name :
    disk'[d][n].events = disk[d][n].events /\ (disk[d][n].exists => disk'[d][n].exists)

\* Nothing is lost as long as events stay where they are and none gets its record.
LEMMA StillKept ==
  ASSUME NoSilentLoss, SameEvents, UNCHANGED << lost, acked >>, spent'.back = spent.back,
         \A e \in Event : record'[e] \in Stored => record[e] \in Stored
  PROVE  NoSilentLoss'
<1>1. OnDisk' = OnDisk
  BY DEF OnDisk, SameEvents
<1> QED
  BY <1>1 DEF NoSilentLoss, ClockTrusted, Stored

\* A step that gives a file up, and what it may do to the lists of names meanwhile.
LEMMA GivesUpInv ==
  ASSUME IInv, NEW d, NEW n, NEW reason, GivesUp(d, n, reason),
         wnames' \in SUBSET Name, wsizes' \in [Name -> Nat], unames' \in SUBSET Name,
         attempted' \in Nat, write'\in [event : Event, dir : Dir, time : 0 .. MaxTime, next : Nat,
                                        standing : {"pending", "granted", "refused"}],
         wnames' # wnames =>
           /\ wnames' = wnames \ {n}
           /\ wpc \in {"measure", "purge"} => d = write.dir
           /\ wpc = "resolve" => d = "pending",
         unames' = unames \/ ~Sending,
         ClockTrusted /\ wpc = "write" => d # write.dir \/ n # active[write.dir].name
  PROVE  IInv'
<1> USE DEF GivesUp
<1>1. /\ disk' \in [Dir -> [Name -> File]] /\ lost' \in [Event -> Reason]
      /\ disk'[d][n] = NoFile
      /\ \A c \in Dir, m \in Name : disk'[c][m] = disk[c][m] \/ disk'[c][m] = NoFile
      /\ \A c \in Dir, m \in Name : c # d \/ m # n => disk'[c][m] = disk[c][m]
      /\ \A c \in Dir, m \in Name : \A e \in disk'[c][m].events :
           e \in disk[c][m].events /\ lost'[e] = lost[e]
      /\ Filed' /\ EventLimits' /\ NoSilentLoss'
  BY GivenUp
<1>2. TypeOK'
  BY <1>1 DEF IInv, TypeOK, Worse, SpentType
<1>3. WriteUnderWay'
  BY DEF IInv, WriteUnderWay, Writing, TooLarge
<1>4. ActiveFiles'
  <2>1. \A c \in Dir : active'[c].open =>
            \/ Excepted(c, active[c].name)'
            \/ CountedUpTo(active[c], disk[c][active[c].name].events)'
    <3>1. NoFile.events = {}
      BY DEF NoFile
    <3>2. \A c \in Dir, m \in Name :
            disk'[c][m].events = disk[c][m].events \/ disk'[c][m].events = {}
      BY <1>1, <3>1
    <3>3. \A c \in Dir, m \in Name : \A e \in disk'[c][m].events : lost'[e] = lost[e]
      BY <1>1
    <3> QED
      BY <3>2, <3>3, CountedStill
  <2>2. wpc \in {"measure", "purge"} => write.dir \in Dir /\ Files(write.dir) \subseteq wnames
    BY DEF IInv, TypeOK, ActiveFiles
  <2>3. wpc \in {"measure", "purge"} => Files(write.dir)' \subseteq wnames'
    BY <1>1, <2>2 DEF Files, NoFile
  <2>4. wpc' \in {"open", "write"} =>
          LET f == active'[write'.dir] IN
            f.open /\ f.writes < MaxWrites /\ f.bytes + Bytes[{write'.event}] <= MaxFileSize
    BY DEF IInv, ActiveFiles
  <2> QED
    BY <2>1, <2>3, <2>4 DEF IInv, ActiveFiles
<1>5. WrittenInTime'
  <2>1. ClockTrusted' => ClockTrusted
    BY DEF ClockTrusted, Worse
  <2>2. wpc = "write" => write.dir \in Dir /\ active[write.dir].name \in Name
    BY DEF IInv, TypeOK
  <2> QED
    BY <1>1, <2>1, <2>2 DEF IInv, WrittenInTime, Writing
<1>6. Cycling'
  BY DEF IInv, Cycling, Sending, Age
<1>7. ReadWhole'
  <2>1. \A e \in batch.events : e \in Event
    BY DEF IInv, TypeOK, File
  <2>2. (~Sending => batch = NoFile)'
        /\ (upc = "delete" /\ answer = "success" => \A e \in batch.events : acked[e] > 0)'
        /\ (upc = "delete" => answer # "none")'
    BY DEF IInv, ReadWhole, Sending
  <2>3. \A e \in batch.events : record[e] \in Stored /\ Sending
    BY DEF IInv, ReadWhole, NoFile
  <2>4. \A e \in batch.events : \A c \in Dir, m \in Name :
          e \in disk'[c][m].events => c = "granted" /\ m = Min(unames')
    BY <1>1, <2>3 DEF IInv, ReadWhole
  <2>5. ClockTrusted' /\ Sending' =>
           \A e \in disk'["granted"][Min(unames')].events : e \in batch.events \/ lost'[e] = "overtaken"
    <3>1. Sending' => Sending /\ unames' = unames /\ Min(unames) \in Name /\ "granted" \in Dir
      BY NextName DEF IInv, Cycling, Sending, Dir
    <3> QED
      BY <1>1, <3>1 DEF IInv, ReadWhole, ClockTrusted, Worse
  <2> QED
    BY <2>2, <2>3, <2>4, <2>5 DEF ReadWhole
<1>8. ConsentFollowed'
  <2> SUFFICES ASSUME spent'.faults = 0
               PROVE  ConsentFollowed'
    BY DEF ConsentFollowed
  <2>1. spent.faults = 0 /\ "granted" \in Dir /\ "pending" \in Dir
    BY DEF Worse, Dir
  <2>2. \A m \in Name : \A e \in disk'["pending"][m].events :
          e \in disk["pending"][m].events /\ (d # "pending" \/ m # n)
    BY <1>1, <2>1 DEF NoFile
  <2>3. \A m \in Name : \A e \in disk'["pending"][m].events :
          record[e] = "revoked" => given = "notGranted" /\ Awaiting(m)
    BY <2>1, <2>2 DEF IInv, ConsentFollowed
  <2>4. \A m \in Name : \A e \in disk'["pending"][m].events : Awaiting(m) => Awaiting(m)'
    BY <2>2 DEF Awaiting
  <2> QED
    BY <1>1, <2>1, <2>2, <2>3, <2>4 DEF IInv, ConsentFollowed, ConsentRespected
<1>9. Confirmed'
  <2>1. spent'.faults + spent'.restarts = 0 => spent.faults + spent.restarts = 0
    BY DEF Worse
  <2>2. upc = "delete" => unames' = unames
    BY DEF Sending
  <2> QED
    BY <1>1, <2>1, <2>2 DEF IInv, Confirmed
<1> QED
  BY <1>1, <1>2, <1>3, <1>4, <1>5, <1>6, <1>7, <1>8, <1>9 DEF IInv

\* Events get a record, or a verdict; no event is moved and no batch changes.
Recording ==
  /\ Worse /\ SameEvents
  /\ UNCHANGED << lost, batch, upc, unames, answer, received, acked >>
  /\ \A e \in Event :
       \/ record'[e] = record[e]
       \/ record[e] = "pending" /\ record'[e] \in {"granted", "revoked"}
       \/ record[e] \in {"new", "writing"} /\ record'[e] \in {"writing", "refused", "dropped"}

LEMMA Recorded ==
  ASSUME IInv, Recording
  PROVE  Filed' /\ EventLimits' /\ ReadWhole' /\ NoSilentLoss' /\ Confirmed'
<1> USE DEF IInv, Recording
<1>1. /\ \A d \in Dir, n \in Name : \A e \in disk[d][n].events : e \in Event
      /\ \A e \in batch.events : e \in Event
  BY DEF TypeOK, File
<1>2. \A e \in Event : record[e] \in Stored => record'[e] \in Stored
  BY DEF Stored
<1>3. Filed'
  BY <1>1, <1>2 DEF Filed, SameEvents
<1>4. ReadWhole'
  <2>1. Sending => Min(unames) \in Name /\ "granted" \in Dir
    BY NextName DEF Cycling, Dir
  <2> QED
    BY <1>1, <1>2, <2>1 DEF ReadWhole, Sending, ClockTrusted, Worse, SameEvents
<1>5. NoSilentLoss'
  BY StillKept DEF Worse, Stored
<1>6. EventLimits' /\ Confirmed'
  BY DEF EventLimits, Confirmed, Worse, SameEvents
<1> QED
  BY <1>3, <1>4, <1>5, <1>6

\* Consent is followed as long as no file is, and no refused event misses its visit.
LEMMA ConsentStands ==
  ASSUME IInv, Worse, SameEvents, UNCHANGED << batch, received, given >>,
         \A e \in Event : record'[e] = record[e] \/ record[e] \in {"new", "writing"},
         spent'.faults = 0 =>
           /\ consent' # "pending" => consent # "pending"
           /\ \A n \in Name : given = "notGranted" /\ Awaiting(n) => Awaiting(n)'
                              \/ \A e \in disk["pending"][n].events : record[e] # "revoked"
  PROVE  ConsentFollowed'
<1> USE DEF IInv
<1> SUFFICES ASSUME spent'.faults = 0
             PROVE  ConsentFollowed'
  BY DEF ConsentFollowed
<1>1. spent.faults = 0 /\ "granted" \in Dir /\ "pending" \in Dir
  BY DEF Worse, Dir
<1>2. /\ \A d \in Dir, n \in Name : \A e \in disk[d][n].events : e \in Event /\ record'[e] = record[e]
      /\ \A e \in batch.events : e \in Event /\ record'[e] = record[e]
  <2>1. /\ \A d \in Dir, n \in Name : \A e \in disk[d][n].events : e \in Event
        /\ \A e \in batch.events : e \in Event
    BY DEF TypeOK, File
  <2>2. /\ \A d \in Dir, n \in Name : \A e \in disk[d][n].events : record[e] \notin {"new", "writing"}
        /\ \A e \in batch.events : record[e] \notin {"new", "writing"}
    BY DEF Filed, ReadWhole, Stored
  <2> QED
    BY <2>1, <2>2
<1>3. \A e \in received : record'[e] = "granted"
  BY <1>1 DEF TypeOK, ConsentFollowed, ConsentRespected
<1> QED
  BY <1>1, <1>2, <1>3 DEF ConsentFollowed, ConsentRespected, SameEvents

\* What putting one file in the place of another changes.
LEMMA PutFile ==
  ASSUME disk \in [Dir -> [Name -> File]], NEW d \in Dir, NEW n \in Name, NEW f \in File,
         disk' = [disk EXCEPT ![d][n] = f]
  PROVE  /\ disk' \in [Dir -> [Name -> File]] /\ disk'[d][n] = f
         /\ \A c \in Dir, m \in Name : c # d \/ m # n => disk'[c][m] = disk[c][m]
OBVIOUS

\* Steps of the upload thread that leave it with no batch and all files as they are.
LEMMA NoBatchInv ==
  ASSUME IInv, Worse,
         UNCHANGED << now, disk, wpc, given, consent, active, write, wnames, wsizes,
                      record, lost, acked >>,
         mode' \in {"down", "running", "joined", "flushing"}, Writing => mode' = "running",
         mode = "down" /\ consent # given => mode' = "down", mode' = "down" => upc' = "idle",
         upc' \in {"idle", "listStale", "evict", "listReady", "scan"}, batch' = NoFile,
         unow' \in {0, now, unow}, unames' \in SUBSET Name, attempted' \in Nat,
         answer' \in {"none", "success", "bad"}, upc = "delete" => spent'.faults # 0,
         received' \subseteq received \union batch.events
  PROVE  IInv'
<1>1. TypeOK'
  <2>1. received' \in SUBSET Event /\ NoFile \in File /\ unow' \in 0 .. MaxTime
    BY LimitTypes DEF IInv, TypeOK, File, NoFile
  <2> QED
    BY <2>1 DEF IInv, TypeOK, Worse, SpentType
<1>2. WriteUnderWay'
  BY DEF IInv, WriteUnderWay, Writing, TooLarge
<1>3. WrittenInTime'
  BY LimitTypes DEF IInv, TypeOK, WrittenInTime, Writing, ClockTrusted, Worse
<1>4. Cycling' /\ ReadWhole'
  BY DEF Cycling, ReadWhole, Sending, NoFile
<1>5. NoSilentLoss'
  BY StillKept DEF IInv, SameEvents, Worse
<1>6. ConsentFollowed'
  <2>1. batch'.events = {}
    BY DEF NoFile
  <2>2. \A n \in Name : given = "notGranted" /\ Awaiting(n) => Awaiting(n)'
    BY DEF Awaiting
  <2>3. spent'.faults = 0 => spent.faults = 0
    BY DEF Worse
  <2>4. ConsentRespected /\ spent.faults = 0 => ConsentRespected'
    BY DEF IInv, ConsentFollowed, ConsentRespected
  <2> QED
    BY <2>1, <2>2, <2>3, <2>4 DEF IInv, ConsentFollowed
<1>7. Confirmed'
  <2>1. spent'.faults + spent'.restarts = 0 => spent.faults + spent.restarts = 0 /\ upc # "delete"
    BY DEF Worse, SpentType
  <2> QED
    BY <2>1 DEF IInv, Confirmed
<1>8. Filed' /\ ActiveFiles' /\ EventLimits'
  BY DEF IInv, Filed, ActiveFiles, Excepted, CountedUpTo, Files, EventLimits, Fits
<1> QED
  BY <1>1, <1>2, <1>3, <1>4, <1>5, <1>6, <1>7, <1>8 DEF IInv

-----------------------------------------------------------------------------
(* The steps of the storage thread. *)

\* A new consent: what is pending gets its verdict, and its file is no longer written to.
LEMMA SetTrackingConsentInv ==
  ASSUME IInv, NEW v \in Consent, SetTrackingConsent(v)
  PROVE  IInv'
<1> USE DEF SetTrackingConsent, uploadVars, IInv
<1>1. \A e \in Event : \/ record'[e] = record[e]
                       \/ v # "pending" /\ e \in Pending /\ record[e] = "pending"
                          /\ record'[e] = IF v = "granted" THEN "granted" ELSE "revoked"
  BY DEF Judge, TypeOK, Record
<1>2. \A e \in Pending : v # "pending" => record'[e] # "pending"
  <2>1. \A e \in Pending : e \in Event
    BY DEF TypeOK, File, Pending, Dir
  <2> QED
    BY <2>1 DEF Judge
<1>3. Recording
  BY <1>1 DEF Recording, SameEvents, Worse, TypeOK, SpentType
<1>4. Filed' /\ EventLimits' /\ ReadWhole' /\ NoSilentLoss' /\ Confirmed'
  BY <1>3, Recorded
<1>5. TypeOK'
  BY <1>1, LimitTypes DEF TypeOK, Dir, Consent, Record, NoActive, Judge
<1>6. WriteUnderWay'
  BY <1>1, <1>2, <1>3 DEF WriteUnderWay, Writing, TooLarge
<1>7. ActiveFiles'
  BY <1>1, <1>2, <1>3 DEF ActiveFiles, Excepted, CountedUpTo, Files, Dir, TypeOK, NoActive
<1>8. WrittenInTime'
  BY <1>1, <1>2, <1>3 DEF WrittenInTime, ClockTrusted, Writing
<1>9. ConsentFollowed'
  <2>1. SUFFICES ASSUME spent.faults = 0
                 PROVE  ConsentFollowed'
    BY DEF ConsentFollowed
  <2>2. /\ \A d \in Dir, n \in Name : \A e \in disk[d][n].events : e \in Event
        /\ \A e \in batch.events : e \in Event
        /\ \A e \in received : e \in Event
        /\ "granted" \in Dir /\ "pending" \in Dir
    BY DEF TypeOK, File, Dir
  <2>3. \A n \in Name : \A e \in disk["pending"][n].events : e \in Pending
    BY DEF Pending
  <2>4. \A e \in Event : record[e] = "granted" => record'[e] = "granted"
    BY <1>1
  <2>5. v # "pending" => \A n \in Name : \A e \in disk["pending"][n].events : record'[e] # "pending"
    BY <1>2, <2>3
  <2>6. ASSUME NEW n \in Name, NEW e \in disk["pending"][n].events, record'[e] = "revoked"
        PROVE  given' = "notGranted" /\ Awaiting(n)'
    <3>1. v = "notGranted" => given' = "notGranted" /\ Awaiting(n)'
      BY DEF Awaiting
    <3>2. record[e] = "revoked" => mode = "down" /\ consent = "pending" /\ given = "notGranted"
      BY <2>1 DEF ConsentFollowed, Awaiting
    <3>3. record[e] = "revoked" => v = "notGranted"
      BY <3>2
    <3>4. e \in Event
      BY <2>2, <2>6
    <3>5. record[e] = "pending" => v = "notGranted"
      BY <1>1, <2>6, <3>4
    <3> QED
      BY <1>1, <2>6, <3>1, <3>3, <3>4, <3>5
  <2> QED
    BY <2>1, <2>2, <2>4, <2>5, <2>6 DEF ConsentFollowed, ConsentRespected
<1>10. Cycling'
  BY DEF Cycling, Sending, Age
<1> QED
  BY <1>4, <1>5, <1>6, <1>7, <1>8, <1>9, <1>10

\* The pending files are listed, and none is missed.
LEMMA ListPendingInv ==
  ASSUME IInv, ListPending
  PROVE  IInv'
<1> USE DEF ListPending, uploadVars, IInv
<1>1. Worse
  BY CallsAreWorse DEF TypeOK, FileCalls, SpentType
<1>2. \/ wpc' = "resolve" /\ wnames' = Files("pending")
      \/ wpc' = "idle" /\ wnames' = wnames /\ spent'.faults # 0
  BY FaultSpent DEF TypeOK, SpentType
<1>3. Recording
  BY <1>1 DEF Recording, SameEvents
<1>4. Filed' /\ EventLimits' /\ ReadWhole' /\ NoSilentLoss' /\ Confirmed'
  BY <1>3, Recorded
<1>5. TypeOK'
  BY <1>1, <1>2 DEF TypeOK, Worse, SpentType, Files
<1>6. WriteUnderWay'
  BY <1>1, <1>2, <1>3 DEF WriteUnderWay, Writing, TooLarge
<1>7. ActiveFiles'
  BY <1>1, <1>2, <1>3 DEF ActiveFiles, Excepted, CountedUpTo, Files
<1>8. WrittenInTime'
  BY <1>1, <1>2, <1>3 DEF WrittenInTime, ClockTrusted, Writing, Worse
<1>9. ConsentFollowed'
  <2>1. \A n \in Name : disk["pending"][n].events # {} => n \in Files("pending")
    BY DEF Filed, Files, Dir
  <2> QED
    BY <1>1, <1>2, <2>1, ConsentStands DEF SameEvents, Awaiting
<1>10. Cycling'
  BY DEF Cycling, Sending, Age
<1> QED
  BY <1>4, <1>5, <1>6, <1>7, <1>8, <1>9, <1>10

\* A pending file is deleted after a refusal; a failure leaves the rest.
LEMMA DeletePendingInv ==
  ASSUME IInv, DeletePending
  PROVE  IInv'
<1> DEFINE n == Min(wnames)
<1>1. Worse /\ wnames # {} /\ n \in wnames /\ n \in Name /\ "pending" \in Dir
  BY CallsAreWorse, NextName DEF DeletePending, IInv, TypeOK, FileCalls, SpentType, Dir
<1>2. CASE /\ GivesUp("pending", n, "revoked") /\ wnames' = wnames \ {n}
           /\ UNCHANGED << wsizes, unames, attempted, write >>
  BY <1>1, <1>2, GivesUpInv DEF DeletePending, IInv, TypeOK
<1>3. CASE UNCHANGED << disk, lost >> /\ spent'.faults # 0 /\ wpc' = "idle" /\ wnames' = {}
  <2> USE DEF DeletePending, uploadVars, IInv
  <2>1. TypeOK'
    BY <1>1, <1>3 DEF TypeOK, Worse, SpentType
  <2>2. Recording
    BY <1>1, <1>3 DEF Recording, SameEvents
  <2>3. ConsentFollowed'
    BY <1>3 DEF ConsentFollowed
  <2>4. WriteUnderWay' /\ ActiveFiles' /\ WrittenInTime' /\ Cycling'
    BY <1>1, <1>3 DEF WriteUnderWay, ActiveFiles, Excepted, CountedUpTo, WrittenInTime, Cycling,
       Writing, Sending, Age, TooLarge, ClockTrusted, Worse
  <2> QED
    BY <2>1, <2>2, <2>3, <2>4, Recorded
<1> QED
  BY <1>1, <1>2, <1>3, FaultSpent DEF DeletePending, GivesUp, uploadVars, IInv, TypeOK, SpentType

\* Every pending file that was listed has been handled.
LEMMA ConsentDoneInv ==
  ASSUME IInv, ConsentDone
  PROVE  IInv'
<1> USE DEF ConsentDone, uploadVars, IInv
<1>1. Worse
  BY DEF TypeOK, Worse, SpentType
<1>2. TypeOK'
  BY <1>1, LimitTypes DEF TypeOK, Dir, Consent, Record, NoActive
<1>3. WriteUnderWay'
  BY <1>1 DEF WriteUnderWay, Writing, TooLarge
<1>4. ActiveFiles'
  BY <1>1 DEF ActiveFiles, Excepted, CountedUpTo, Files
<1>5. WrittenInTime'
  BY <1>1 DEF WrittenInTime, ClockTrusted, Writing
<1>6. ConsentFollowed'
  BY <1>1, ConsentStands DEF SameEvents, Awaiting
<1>7. Filed' /\ EventLimits' /\ Cycling' /\ ReadWhole' /\ NoSilentLoss' /\ Confirmed'
  BY StillKept DEF Filed, EventLimits, Fits, Cycling, Sending, Age, ReadWhole,
     ClockTrusted, Stored, SameEvents, Confirmed
<1> QED
  BY <1>2, <1>3, <1>4, <1>5, <1>6, <1>7

\* An event arrives: it is refused, dropped, or about to be written.
LEMMA HandleWriteInv ==
  ASSUME IInv, NEW e \in Event, NEW bypass \in BOOLEAN, HandleWrite(e, bypass)
  PROVE  IInv'
<1> USE DEF HandleWrite, uploadVars, DropEvent, TargetDir, Standing, IInv
<1>1. Worse
  BY DEF TypeOK, Worse, SpentType
<1>2. \A x \in Event : \/ record'[x] = record[x]
                       \/ /\ x = e /\ record[e] = "new"
                          /\ record'[e] \in {"refused", "dropped", "writing"}
  BY DEF TypeOK, Record
<1>3. \/ wpc' = "idle"
      \/ /\ wpc' \in {"list", "open"} /\ record'[e] = "writing" /\ ~TooLarge(e)
         /\ write' = [event |-> e, dir |-> TargetDir(bypass), time |-> now, next |-> 0,
                     standing |-> TargetDir(bypass)]
         /\ TargetDir(bypass) \in Dir /\ (TargetDir(bypass) = "pending" => consent = "pending")
         /\ wpc' = "open" => CanReuse(active[TargetDir(bypass)], now, e)
  BY DEF TypeOK, Dir, Consent
<1>4. Recording
  BY <1>1, <1>2 DEF Recording, SameEvents
<1>5. Filed' /\ EventLimits' /\ ReadWhole' /\ NoSilentLoss' /\ Confirmed'
  BY <1>4, Recorded
<1>6. TypeOK'
  BY <1>1, <1>2, <1>3, <1>4, LimitTypes DEF TypeOK, Dir, Consent, Record, NoActive
<1>7. WriteUnderWay'
  BY <1>3 DEF WriteUnderWay, Writing, TooLarge
<1>8. ActiveFiles'
  <2>1. wpc' \in {"open", "write"} => CanReuse(active[write'.dir], now, write'.event)
    BY <1>3
  <2> QED
    BY <2>1, <1>3 DEF ActiveFiles, Excepted, CountedUpTo, CanReuse
<1>9. WrittenInTime'
  <2>1. wpc' \in {"open", "write"} => now <= active[write'.dir].name + WriteAge /\ wpc' # "write"
    BY <1>3 DEF CanReuse
  <2> QED
    BY <2>1, <1>3, LimitTypes DEF WrittenInTime, ClockTrusted, Writing, TypeOK
<1>10. ConsentFollowed'
  BY <1>1, <1>2, <1>3, <1>4, ConsentStands DEF Awaiting, SameEvents
<1>11. Cycling'
  BY DEF Cycling, Sending, Age
<1> QED
  BY <1>5, <1>6, <1>7, <1>8, <1>9, <1>10, <1>11

\* The directory is listed for a new file.
LEMMA ListForWriteInv ==
  ASSUME IInv, ListForWrite
  PROVE  IInv'
<1> USE DEF ListForWrite, uploadVars, IInv
<1>1. Worse
  BY CallsAreWorse DEF TypeOK, FileCalls, SpentType
<1>2. \/ wpc' = "measure" /\ wnames' = Files(write.dir) /\ UNCHANGED << active, record >>
      \/ wpc' = "idle" /\ active' = [active EXCEPT ![write.dir] = NoActive] /\ UNCHANGED wnames
         /\ record' = [record EXCEPT ![write.event] = "dropped"]
  BY DEF DropEvent, Deactivate
<1>3. Recording
  BY <1>1, <1>2 DEF Recording, SameEvents, WriteUnderWay, Writing, TypeOK
<1>4. Filed' /\ EventLimits' /\ ReadWhole' /\ NoSilentLoss' /\ Confirmed'
  BY <1>3, Recorded
<1>5. TypeOK'
  <2>1. active' \in [Dir -> FileDetails] /\ record' \in [Event -> Record] /\ wnames' \in SUBSET Name
    <3>1. active' \in [Dir -> FileDetails]
      BY <1>2, NoActiveType DEF TypeOK, FileDetails
    <3>2. record' \in [Event -> Record] /\ wnames' \in SUBSET Name
      BY <1>2 DEF TypeOK, Files, Record
    <3> QED
      BY <3>1, <3>2
  <2> QED
    BY <1>1, <1>2, <2>1 DEF TypeOK, Worse, SpentType, FileDetails
<1>6. WriteUnderWay'
  BY <1>1, <1>2, <1>3 DEF WriteUnderWay, Writing, TooLarge
<1>7. ActiveFiles'
  BY <1>1, <1>2, <1>3 DEF ActiveFiles, Excepted, CountedUpTo, Files, NoActive, TypeOK, Dir
<1>8. WrittenInTime'
  BY <1>1, <1>2, <1>3 DEF WrittenInTime, ClockTrusted, Writing, Worse
<1>9. ConsentFollowed'
  BY <1>1, <1>2, <1>3, ConsentStands DEF SameEvents, Awaiting, Recording, WriteUnderWay, Writing,
     TypeOK
<1>10. Cycling'
  BY DEF Cycling, Sending, Age
<1> QED
  BY <1>4, <1>5, <1>6, <1>7, <1>8, <1>9, <1>10

\* The listed files are measured.
LEMMA MeasureDirectoryInv ==
  ASSUME IInv, MeasureDirectory
  PROVE  IInv'
<1> USE DEF MeasureDirectory, uploadVars, IInv
<1>1. Worse
  BY DEF IInv, TypeOK, Worse, SpentType
<1>2. TypeOK'
  <2>1. \A n \in Name : Size(disk[write.dir][n]) \in Nat
    BY SizeType DEF TypeOK
  <2>2. wsizes' \in [Name -> Nat]
    BY <2>1
  <2> QED
    BY <2>2 DEF TypeOK
<1>3. WriteUnderWay'
  BY <1>1 DEF WriteUnderWay, Writing, TooLarge
<1>4. ActiveFiles'
  BY <1>1 DEF ActiveFiles, Excepted, CountedUpTo, Files
<1>5. WrittenInTime'
  BY <1>1 DEF WrittenInTime, ClockTrusted, Writing
<1>6. ConsentFollowed'
  BY <1>1, ConsentStands DEF Awaiting, SameEvents
<1>7. Filed' /\ EventLimits' /\ Cycling' /\ ReadWhole' /\ NoSilentLoss' /\ Confirmed'
  BY StillKept DEF Filed, EventLimits, Fits, Cycling, Sending, Age, ReadWhole,
     ClockTrusted, Stored, SameEvents, Confirmed
<1> QED
  BY <1>2, <1>3, <1>4, <1>5, <1>6, <1>7

\* The oldest file makes room, if it can be deleted.
LEMMA PurgeOldestInv ==
  ASSUME IInv, PurgeOldest
  PROVE  IInv'
<1> DEFINE n == Min(Untried)
<1>1. Worse /\ n \in wnames /\ n \in Name /\ write.dir \in Dir /\ wpc = "purge"
  BY CallsAreWorse, NextName DEF PurgeOldest, IInv, TypeOK, FileCalls, SpentType
<1>2. CASE /\ GivesUp(write.dir, n, "purged") /\ UNCHANGED << unames, attempted, write >>
           /\ wnames' = wnames \ {n} /\ wsizes' = [wsizes EXCEPT ![n] = 0]
  <2>1. wnames' \in SUBSET Name /\ wsizes' \in [Name -> Nat] /\ unames' \in SUBSET Name /\ attempted' \in Nat
    BY <1>2 DEF IInv, TypeOK
  <2>2. write' \in [event : Event, dir : Dir, time : 0 .. MaxTime, next : Nat,
                   standing : {"pending", "granted", "refused"}]
    BY <1>2 DEF IInv, TypeOK
  <2> QED
    <3>1. /\ wpc = "purge" /\ wnames' = wnames \ {n} /\ unames' = unames
          /\ GivesUp(write.dir, n, "purged")
      BY <1>1, <1>2
    <3> HIDE DEF n
    <3> QED
      BY <2>1, <2>2, <3>1, GivesUpInv
<1>3. CASE UNCHANGED << disk, lost, wnames, wsizes >> /\ write' = [write EXCEPT !.next = n + 1]
  <2> USE DEF PurgeOldest, uploadVars, IInv
  <2>1. TypeOK'
    BY <1>1, <1>3, LimitTypes DEF TypeOK, Worse, SpentType
  <2>2. Recording
    BY <1>1, <1>3 DEF Recording, SameEvents
  <2>3. UNCHANGED << write.event, write.dir, write.time, write.standing >>
    BY <1>3 DEF TypeOK
  <2>4. ConsentFollowed'
    BY <1>1, <1>3, ConsentStands DEF SameEvents, Awaiting
  <2>5. WriteUnderWay' /\ ActiveFiles' /\ WrittenInTime' /\ Cycling'
    BY <1>1, <1>3, <2>3 DEF WriteUnderWay, ActiveFiles, Excepted, CountedUpTo, WrittenInTime,
       Cycling, Writing, Sending, Age, TooLarge, ClockTrusted, Worse, Files
  <2> QED
    BY <2>1, <2>2, <2>4, <2>5, Recorded
<1> QED
  BY <1>1, <1>2, <1>3 DEF PurgeOldest, GivesUp, uploadVars

\* A free name is found for a new file, or none.
LEMMA NameFileInv ==
  ASSUME IInv, NameFile
  PROVE  IInv'
<1> USE DEF NameFile, uploadVars, IInv
<1>1. Worse
  BY DEF IInv, TypeOK, Worse, SpentType
<1>2. \/ wpc' = "idle" /\ active' = [active EXCEPT ![write.dir] = NoActive]
         /\ record' = [record EXCEPT ![write.event] = "dropped"]
      \/ \E name \in Name \ wnames : name >= write.time /\ wpc' = "open" /\ UNCHANGED record
         /\ active' = [active EXCEPT ![write.dir] = [open |-> TRUE, name |-> name, writes |-> 0, bytes |-> 0]]
  <2> DEFINE free == ProbedNames \ wnames
  <2>1. free \in SUBSET Name /\ \A name \in free : name >= write.time
    <3>1. write.time \in 0 .. MaxTime /\ MaxTime \in Nat /\ MaxProbes \in Nat \ {0}
      BY AgesAssumption, LimitsAssumption DEF TypeOK
    <3> QED
      BY <3>1 DEF ProbedNames, Name
  <2>2. CASE free = {}
    BY <2>2 DEF DropEvent, Deactivate
  <2>3. CASE free # {}
    BY <2>1, <2>3, MinName
  <2> QED
    BY <2>2, <2>3
<1>3. Recording
  BY <1>1, <1>2 DEF Recording, SameEvents, WriteUnderWay, Writing, TypeOK
<1>4. Filed' /\ EventLimits' /\ ReadWhole' /\ NoSilentLoss' /\ Confirmed'
  BY <1>3, Recorded
<1>5. TypeOK'
  <2>1. active' \in [Dir -> FileDetails] /\ record' \in [Event -> Record]
    <3>1. write.dir \in Dir /\ active \in [Dir -> FileDetails] /\ record \in [Event -> Record]
      BY DEF TypeOK, FileDetails
    <3>2. \A name \in Name : [open |-> TRUE, name |-> name, writes |-> 0, bytes |-> 0] \in FileDetails
      BY DEF FileDetails
    <3>3. active' \in [Dir -> FileDetails]
      BY <1>2, <3>1, <3>2, NoActiveType
    <3>4. record' \in [Event -> Record]
      BY <1>2, <3>1 DEF Record
    <3> QED
      BY <3>3, <3>4
  <2> QED
    BY <1>2, <2>1 DEF TypeOK, FileDetails
<1>6. WriteUnderWay'
  BY <1>1, <1>2, <1>3 DEF WriteUnderWay, Writing, TooLarge
<1>7. ActiveFiles'
  <2>1. CASE wpc' = "idle"
    BY <1>2, <2>1 DEF ActiveFiles, Excepted, CountedUpTo, NoActive, TypeOK, Dir
  <2>2. CASE wpc' = "open"
    <3>1. PICK name \in Name \ wnames :
            active' = [active EXCEPT ![write.dir] = [open |-> TRUE, name |-> name, writes |-> 0, bytes |-> 0]]
      BY <1>2, <2>2
    <3>2. disk[write.dir][name].events = {}
      BY DEF ActiveFiles, Filed, Files, TypeOK
    <3>3. MaxWrites > 0 /\ Bytes[{write.event}] <= MaxFileSize /\ Bytes[{write.event}] \in Nat
      BY FitsAlone DEF WriteUnderWay, Writing, TypeOK
    <3>4. active'[write.dir] = [open |-> TRUE, name |-> name, writes |-> 0, bytes |-> 0]
          /\ \A d \in Dir : d # write.dir => active'[d] = active[d]
      BY <3>1 DEF TypeOK
    <3>5. active'["pending"].open => consent' = "pending"
      BY <3>4 DEF ActiveFiles, WriteUnderWay, Writing, TypeOK, Dir
    <3>6. \A d \in Dir : active'[d].open =>
            \/ Excepted(d, active[d].name)'
            \/ CountedUpTo(active[d], disk[d][active[d].name].events)'
      <4>1. disk'[write.dir][name].events = {} /\ active'[write.dir].name = name
            /\ active'[write.dir].writes = 0 /\ active'[write.dir].bytes = 0
        BY <3>2, <3>4
      <4>2. CountedUpTo(active[write.dir], disk[write.dir][active[write.dir].name].events)'
        <5>1. Cardinality(disk'[write.dir][name].events) = 0 /\ Bytes[disk'[write.dir][name].events] = 0
          BY <4>1, NoEvents
        <5>2. CountedUpTo(active'[write.dir], disk'[write.dir][name].events)
          BY <4>1, <5>1 DEF CountedUpTo
        <5> QED
          BY <4>1, <5>2 DEF CountedUpTo
      <4> QED
        BY <3>4, <4>2 DEF ActiveFiles, Excepted, CountedUpTo
    <3> QED
      BY <2>2, <3>3, <3>4, <3>5, <3>6 DEF ActiveFiles
  <2> QED
    BY <1>2, <2>1, <2>2
<1>8. WrittenInTime'
  BY <1>2, LimitTypes DEF WrittenInTime, ClockTrusted, Writing, TypeOK
<1>9. ConsentFollowed'
  BY <1>1, <1>2, <1>3, ConsentStands DEF SameEvents, Awaiting, Recording, WriteUnderWay, Writing,
     TypeOK
<1>10. Cycling'
  BY DEF Cycling, Sending, Age
<1> QED
  BY <1>4, <1>5, <1>6, <1>7, <1>8, <1>9, <1>10

\* A pending file becomes a granted one; another of that name stands in its way, or
\* an upload or a write that takes it for the file it knew.
LEMMA MigratePendingInv ==
  ASSUME IInv, MigratePending
  PROVE  IInv'
<1> DEFINE n   == Min(wnames)
           src == disk["pending"][n]
<1>1. Worse /\ wnames # {} /\ n \in wnames /\ n \in Name /\ "pending" \in Dir /\ "granted" \in Dir
  BY CallsAreWorse, NextName DEF MigratePending, IInv, TypeOK, FileCalls, SpentType, Dir
<1>2. wpc = "resolve" /\ consent = "granted" /\ UNCHANGED << now, mode, given, consent, active, write,
        wsizes, upc, unow, unames, batch, attempted, answer, record, received, acked >>
  BY DEF MigratePending, uploadVars
<1>3. CASE GivesUp("pending", n, "conflict") /\ wnames' = wnames \ {n}
  BY <1>1, <1>2, <1>3, GivesUpInv DEF IInv, TypeOK
<1>4. CASE /\ UNCHANGED << disk, lost >>
           /\ \/ wnames' = wnames \ {n} /\ wpc' = wpc
              \/ wnames' = {} /\ wpc' = "idle"
  <2> USE DEF IInv
  <2>1. TypeOK'
    BY <1>1, <1>2, <1>4 DEF TypeOK, Worse, SpentType
  <2>2. Recording
    BY <1>1, <1>2, <1>4 DEF Recording, SameEvents
  <2>3. ConsentFollowed'
    BY <1>1, <1>2, <1>4, <2>2, ConsentStands DEF Awaiting, Recording
  <2>4. WriteUnderWay' /\ ActiveFiles' /\ WrittenInTime' /\ Cycling'
    BY <1>1, <1>2, <1>4 DEF WriteUnderWay, ActiveFiles, Excepted, CountedUpTo, WrittenInTime,
       Cycling, Writing, Sending, Age, TooLarge, ClockTrusted, Worse
  <2> QED
    BY <2>1, <2>2, <2>3, <2>4, Recorded
<1>5. CASE /\ src.exists /\ ~disk["granted"][n].exists
           /\ disk' = [disk EXCEPT !["pending"][n] = NoFile, !["granted"][n] = src]
           /\ Renamed(n, src.events) /\ wnames' = wnames \ {n} /\ wpc' = wpc
  <2> USE DEF IInv
  <2>0. \A d \in Dir, m \in Name : disk[d][m] \in File /\ disk[d][m].events \subseteq Event
    BY DEF TypeOK, File
  <2>1. /\ disk' \in [Dir -> [Name -> File]]
        /\ disk'["pending"][n] = NoFile /\ disk'["granted"][n] = src
        /\ \A d \in Dir, m \in Name : m # n => disk'[d][m] = disk[d][m]
        /\ NoFile.events = {} /\ NoFile.exists = FALSE
    <3>1. disk \in [Dir -> [Name -> File]] /\ NoFile \in File /\ src \in File
      BY <1>1 DEF TypeOK, NoFile, File
    <3>2. /\ disk' \in [Dir -> [Name -> File]]
          /\ disk'["pending"] \in [Name -> File] /\ disk'["granted"] \in [Name -> File]
      BY <1>1, <1>5, <3>1
    <3>3. disk'["pending"] = [disk["pending"] EXCEPT ![n] = NoFile]
          /\ disk'["granted"] = [disk["granted"] EXCEPT ![n] = src]
      BY <1>1, <1>5, <3>1
    <3> QED
      BY <1>1, <3>1, <3>2, <3>3 DEF Dir, NoFile
  <2>2. disk["granted"][n].events = {}
    BY <1>1, <1>5 DEF Filed
  <2>3. \A e \in src.events : e \in Event /\ lost[e] = "no" /\ record[e] \in Stored
    BY <1>1, <2>0 DEF Filed
  <2>4. /\ lost' \in [Event -> Reason]
        /\ \A e \in Event : e \notin src.events => lost'[e] = lost[e]
        /\ BeingRead(n) => \A e \in src.events : lost'[e] = "overtaken"
        /\ ~BeingRead(n) /\ IsActive(n) => \A e \in src.events : lost'[e] = "adopted"
        /\ \A e \in src.events : lost'[e] \in {"no", "adopted", "overtaken"}
    BY <1>5, <2>3 DEF Renamed, Drop, Kept, Reason, TypeOK
  <2> HIDE DEF n, src
  <2>5. \A d \in Dir, m \in Name : \A e \in disk'[d][m].events :
          \/ m # n /\ e \in disk[d][m].events /\ e \notin src.events /\ lost'[e] = lost[e]
          \/ m = n /\ d = "granted" /\ e \in src.events
    <3> SUFFICES ASSUME NEW d \in Dir, NEW m \in Name, NEW e \in disk'[d][m].events
                 PROVE  \/ m # n /\ e \in disk[d][m].events /\ e \notin src.events /\ lost'[e] = lost[e]
                        \/ m = n /\ d = "granted" /\ e \in src.events
      OBVIOUS
    <3>1. CASE m = n
      BY <2>1, <3>1 DEF Dir
    <3>2. CASE m # n
      <4>1. e \in disk[d][m].events /\ e \in Event
        BY <2>0, <2>1, <3>2
      <4>2. e \notin src.events
        BY <1>1, <3>2, <4>1 DEF Filed, src
      <4> QED
        BY <2>4, <3>2, <4>1, <4>2
    <3> QED
      BY <3>1, <3>2
  <2>6. TypeOK'
    BY <1>1, <1>2, <1>5, <2>1, <2>4 DEF TypeOK, Worse, SpentType
  <2>7. Filed'
    <3>1. \A d \in Dir, m \in Name : ~disk'[d][m].exists => disk'[d][m].events = {}
      BY <1>5, <2>1 DEF Filed, Dir
    <3>2. \A e \in Event : record[e] \in {"new", "writing"} => e \notin src.events
      BY <2>3 DEF Stored
    <3>3. \A d \in Dir, m \in Name : \A e \in disk'[d][m].events :
            /\ record'[e] \in Stored
            /\ lost'[e] \in {"no", "adopted", "overtaken"}
            /\ d = "pending" => lost'[e] = "no"
      BY <1>2, <2>3, <2>4, <2>5 DEF Filed
    <3>4. ASSUME NEW d \in Dir, NEW m \in Name, NEW e \in disk'[d][m].events,
                 NEW c \in Dir, NEW k \in Name, e \in disk'[c][k].events
          PROVE  c = d /\ k = m
      BY <2>5, <3>4 DEF Filed
    <3> QED
      BY <1>2, <2>4, <3>1, <3>2, <3>3, <3>4 DEF Filed
  <2>8. WriteUnderWay' /\ Cycling'
    BY <1>2, <1>5 DEF WriteUnderWay, Writing, TooLarge, Cycling, Sending, Age
  <2>9. ActiveFiles'
    <3>1. ~active["pending"].open
      BY <1>2 DEF ActiveFiles
    <3>2. active["granted"].open => active["granted"].name \in Name /\ active["granted"].writes \in Nat
                                    /\ active["granted"].bytes \in Nat
      BY DEF TypeOK, Dir
    <3>3. CASE active["granted"].open /\ active["granted"].name # n
      BY <1>1, <1>2, <1>5, <2>1, <2>5, <3>1, <3>2, <3>3 DEF ActiveFiles, Excepted, CountedUpTo, Dir
    <3>4. CASE IsActive(n) /\ src.events = {}
      <4>1. disk'["granted"][n].events = {} /\ active["granted"].name = n /\ active["granted"].open
        BY <2>1, <3>4 DEF IsActive
      <4>2. CountedUpTo(active["granted"], {})
        BY <3>2, <4>1, NoEvents DEF CountedUpTo
      <4> QED
        BY <1>2, <1>5, <3>1, <4>1, <4>2 DEF ActiveFiles, CountedUpTo, Dir
    <3>5. CASE IsActive(n) /\ src.events # {}
      BY <1>1, <1>2, <1>5, <2>1, <2>4, <3>1, <3>2, <3>5 DEF ActiveFiles, Excepted, IsActive, Dir
    <3> QED
      BY <1>2, <1>5, <3>1, <3>3, <3>4, <3>5 DEF ActiveFiles, IsActive, Dir
  <2>10. EventLimits'
    <3>1. Fits(src.events) /\ Fits({})
      BY <1>1, NoEvents, LimitTypes DEF EventLimits, Fits, src
    <3> QED
      <4> SUFFICES ASSUME NEW d \in Dir, NEW m \in Name
                   PROVE  \/ Fits(disk'[d][m].events)
                          \/ d = "granted" /\ \E e \in disk'[d][m].events : lost'[e] \in {"adopted", "overtaken"}
        BY DEF EventLimits, Fits
      <4>1. CASE m = n
        BY <2>1, <3>1, <4>1 DEF Dir
      <4>2. CASE m # n
        BY <2>1, <2>5, <4>2 DEF EventLimits
      <4> QED
        BY <4>1, <4>2
  <2>11. WrittenInTime'
    BY <1>1, <1>2, <1>5 DEF WrittenInTime, ClockTrusted, Writing, Worse
  <2>12. ReadWhole'
    <3>1. \A e \in batch.events : e \notin src.events
      BY <1>1 DEF ReadWhole, src
    <3>2. \A e \in batch.events : \A d \in Dir, m \in Name :
            e \in disk'[d][m].events => d = "granted" /\ m = Min(unames')
      BY <1>2, <2>5, <3>1 DEF ReadWhole
    <3>3. Sending => Min(unames) \in Name
      BY NextName DEF Cycling
    <3>4. ClockTrusted' /\ Sending' =>
            \A e \in disk'["granted"][Min(unames)].events : e \in batch.events \/ lost'[e] = "overtaken"
      BY <1>1, <1>2, <2>4, <2>5, <3>3 DEF ReadWhole, BeingRead, Sending, ClockTrusted, Worse
    <3> QED
      BY <1>2, <3>2, <3>4 DEF ReadWhole, Sending
  <2>13. NoSilentLoss'
    <3>1. \A e \in OnDisk : e \in OnDisk'
      <4> SUFFICES ASSUME NEW d \in Dir, NEW m \in Name, NEW e \in disk[d][m].events
                   PROVE  \E c \in Dir, k \in Name : e \in disk'[c][k].events
        BY DEF OnDisk
      <4> QED
        BY <1>1, <2>1, <2>2 DEF Dir, src
    <3>2. \A e \in Event : lost[e] \notin Kept => lost'[e] \notin Kept
      BY <2>3, <2>4 DEF Kept
    <3> QED
      BY <1>1, <1>2, <3>1, <3>2 DEF NoSilentLoss, ClockTrusted, Worse
  <2>14. ConsentFollowed'
    <3> SUFFICES ASSUME spent'.faults = 0
                 PROVE  ConsentFollowed'
      BY DEF ConsentFollowed
    <3>1. spent.faults = 0
      BY <1>1 DEF Worse
    <3>2. \A m \in Name : ~Awaiting(m)
      BY <1>2 DEF Awaiting
    <3>3. \A m \in Name : \A e \in disk["pending"][m].events : record[e] = "granted"
      BY <1>1, <1>2, <3>1, <3>2 DEF ConsentFollowed, Filed, Stored
    <3>4. \A d \in Dir, m \in Name : \A e \in disk'[d][m].events : record[e] = "granted"
      BY <1>1, <2>5, <3>1, <3>3 DEF ConsentFollowed, Dir, src
    <3> QED
      BY <1>1, <1>2, <3>1, <3>4 DEF ConsentFollowed, ConsentRespected
  <2>15. Confirmed'
    <3>1. spent'.faults + spent'.restarts = 0 => spent.faults + spent.restarts = 0
      BY <1>1 DEF Worse
    <3>2. spent.faults + spent.restarts = 0 => \A e \in src.events : ~(acked[e] > 0)
      BY <1>1 DEF Confirmed, src
    <3> QED
      BY <1>2, <2>5, <3>1, <3>2 DEF Confirmed
  <2> QED
    BY <2>6, <2>7, <2>8, <2>9, <2>10, <2>11, <2>12, <2>13, <2>14, <2>15
<1> QED
  <2>1. CASE ~src.exists
    BY <1>4, <2>1 DEF MigratePending
  <2>2. CASE src.exists /\ ~disk["granted"][n].exists
    BY <1>4, <1>5, <2>2 DEF MigratePending
  <2>3. CASE src.exists /\ disk["granted"][n].exists
    BY <1>1, <1>2, <1>3, <1>4, <2>3 DEF MigratePending, GivesUp
  <2> QED
    BY <2>1, <2>2, <2>3

\* The file is opened, and created if it is not there.
LEMMA OpenForWriteInv ==
  ASSUME IInv, OpenForWrite
  PROVE  IInv'
<1> DEFINE d == write.dir
           n == active[d].name
<1>1. Worse /\ d \in Dir /\ n \in Name /\ wpc = "open" /\ write.event \in Event /\ record[write.event] = "writing"
  BY CallsAreWorse DEF OpenForWrite, IInv, TypeOK, FileCalls, SpentType, WriteUnderWay, Writing
<1>2. UNCHANGED << now, mode, given, consent, active, write, wnames, wsizes, upc, unow, unames, batch, attempted,
                   answer, lost, received, acked >>
  BY DEF OpenForWrite, uploadVars
<1>3. \/ /\ wpc' = "write" /\ record' = record
         /\ disk' = [disk EXCEPT ![d][n] = IF @.exists THEN @ ELSE NewFile]
      \/ wpc' = "idle" /\ disk' = disk /\ record' = [record EXCEPT ![write.event] = "dropped"]
  BY DEF OpenForWrite, DropEvent
<1>4. disk' \in [Dir -> [Name -> File]] /\ SameEvents /\ (wpc' = "write" => disk'[d][n].exists)
  <2>1. CASE wpc' = "idle"
    BY <1>3, <2>1 DEF IInv, TypeOK, SameEvents
  <2>2. CASE wpc' = "write"
    <3>1. disk \in [Dir -> [Name -> File]] /\ NewFile \in File /\ NewFile.events = {} /\ NewFile.exists
      BY DEF IInv, TypeOK, NewFile, File
    <3>2. ~disk[d][n].exists => disk[d][n].events = {}
      BY <1>1 DEF IInv, Filed
    <3>3. disk' = [disk EXCEPT ![d][n] = IF disk[d][n].exists THEN disk[d][n] ELSE NewFile]
      BY <1>3, <2>2
    <3> HIDE DEF d, n
    <3>4. /\ disk' \in [Dir -> [Name -> File]]
          /\ disk'[d][n] = IF disk[d][n].exists THEN disk[d][n] ELSE NewFile
          /\ \A c \in Dir, m \in Name : c # d \/ m # n => disk'[c][m] = disk[c][m]
      BY <1>1, <3>1, <3>3
    <3> QED
      BY <3>1, <3>2, <3>4 DEF SameEvents
  <2> QED
    BY <1>3, <2>1, <2>2
<1>5. /\ record' \in [Event -> Record]
      /\ \A e \in Event : \/ record'[e] = record[e]
                          \/ record[e] = "writing" /\ record'[e] = "dropped"
  BY <1>1, <1>3 DEF IInv, TypeOK, Record
<1>6. Filed' /\ EventLimits' /\ ReadWhole' /\ NoSilentLoss' /\ Confirmed'
  <2>1. Recording
    BY <1>1, <1>2, <1>4, <1>5 DEF Recording
  <2> QED
    BY <2>1, Recorded
<1>7. TypeOK'
  BY <1>1, <1>2, <1>3, <1>4, <1>5 DEF IInv, TypeOK, Worse, SpentType
<1>8. ConsentFollowed'
  BY <1>1, <1>2, <1>3, <1>4, <1>5, ConsentStands DEF Awaiting
<1>9. ActiveFiles'
  <2>1. \A c \in Dir : active'[c].open =>
            \/ Excepted(c, active[c].name)'
            \/ CountedUpTo(active[c], disk[c][active[c].name].events)'
    BY <1>2, <1>4, CountedStill DEF SameEvents
  <2> QED
    BY <1>1, <1>2, <1>3, <2>1 DEF IInv, ActiveFiles
<1>10. WriteUnderWay' /\ WrittenInTime' /\ Cycling'
  BY <1>1, <1>2, <1>3, <1>4 DEF IInv, WriteUnderWay, WrittenInTime, Cycling, Writing, Sending, Age,
     TooLarge, ClockTrusted, Worse
<1> QED
  BY <1>6, <1>7, <1>8, <1>9, <1>10 DEF IInv

\* The record is written, in part or in whole, into the file of that name or into none.
LEMMA WriteEventInv ==
  ASSUME IInv, WriteEvent
  PROVE  IInv'
<1> DEFINE d == write.dir
           e == write.event
           n == active[d].name
<1>1. /\ Worse /\ d \in Dir /\ n \in Name /\ e \in Event /\ wpc = "write" /\ wpc' = "idle" /\ mode = "running"
      /\ record[e] = "writing" /\ write.standing = d /\ (d = "pending" => consent = "pending")
  BY CallsAreWorse DEF WriteEvent, DropEvent, IInv, TypeOK, FileCalls, SpentType, WriteUnderWay,
     Writing
<1>2. UNCHANGED << now, mode, given, consent, write, wnames, wsizes, upc, unow, unames, batch, attempted,
                   answer, lost, received, acked >>
  BY DEF WriteEvent, uploadVars
<1>3. disk \in [Dir -> [Name -> File]] /\ record \in [Event -> Record] /\ active \in [Dir -> FileDetails]
  BY DEF IInv, TypeOK, FileDetails
<1>4. \A c \in Dir, m \in Name : disk[c][m].events \in SUBSET Event
  BY <1>3 DEF File
<1>5. ConsentFollowed /\ WrittenInTime /\ Filed /\ ReadWhole
  BY DEF IInv
<1>6. CASE /\ active' = active /\ record' = [record EXCEPT ![e] = "dropped"]
           /\ \/ disk' = disk
              \/ \E k \in Nat : disk' = [disk EXCEPT ![d][n].torn = @ + k]
  <2>1. disk' \in [Dir -> [Name -> File]] /\ SameEvents
    <3> HIDE DEF d, n
    <3>1. CASE disk' = disk
      BY <1>3, <3>1 DEF SameEvents
    <3>2. ASSUME NEW k \in Nat, disk' = [disk EXCEPT ![d][n].torn = @ + k]
          PROVE  disk' \in [Dir -> [Name -> File]] /\ SameEvents
      <4> DEFINE g == [disk[d][n] EXCEPT !.torn = @ + k]
      <4>1. disk' = [disk EXCEPT ![d][n] = g]
        BY <3>2
      <4>2. disk[d][n] \in File
        BY <1>1, <1>3
      <4>3. g \in File /\ g.events = disk[d][n].events /\ g.exists = disk[d][n].exists
        BY <4>2 DEF File
      <4> HIDE DEF g
      <4> QED
        BY <1>1, <1>3, <4>1, <4>3, PutFile DEF SameEvents
    <3> QED
      BY <1>6, <3>1, <3>2
  <2>2. /\ record' \in [Event -> Record]
        /\ \A x \in Event : \/ record'[x] = record[x]
                            \/ record[x] = "writing" /\ record'[x] = "dropped"
    BY <1>1, <1>3, <1>6 DEF Record
  <2>3. Filed' /\ EventLimits' /\ ReadWhole' /\ NoSilentLoss' /\ Confirmed'
    <3>1. Recording
      BY <1>1, <1>2, <2>1, <2>2 DEF Recording
    <3> QED
      BY <3>1, Recorded
  <2>4. TypeOK'
    BY <1>1, <1>2, <1>6, <2>1, <2>2 DEF IInv, TypeOK, Worse, SpentType
  <2>5. ConsentFollowed'
    BY <1>1, <1>2, <2>1, <2>2, ConsentStands DEF Awaiting
  <2>6. ActiveFiles'
    <3>1. \A c \in Dir : active'[c].open =>
              \/ Excepted(c, active[c].name)'
              \/ CountedUpTo(active[c], disk[c][active[c].name].events)'
      BY <1>2, <1>6, <2>1, CountedStill DEF SameEvents
    <3> QED
      BY <1>1, <1>2, <1>6, <3>1 DEF IInv, ActiveFiles
  <2>7. WriteUnderWay' /\ WrittenInTime' /\ Cycling'
    BY <1>1, <1>2 DEF IInv, WriteUnderWay, WrittenInTime, Cycling, Writing, Sending, Age,
       ClockTrusted, Worse
  <2> QED
    BY <2>3, <2>4, <2>5, <2>6, <2>7 DEF IInv
<1>7. CASE /\ disk' = IF disk[d][n].exists THEN [disk EXCEPT ![d][n].events = @ \union {e}] ELSE disk
           /\ active' = [active EXCEPT ![d].writes = @ + 1, ![d].bytes = @ + Bytes[{e}]]
           /\ record' = [record EXCEPT ![e] = d]
  <2> DEFINE f == active[d]
  <2>1. /\ f \in FileDetails /\ active' \in [Dir -> FileDetails]
        /\ active'[d] = [f EXCEPT !.writes = f.writes + 1, !.bytes = f.bytes + Bytes[{e}]]
        /\ \A c \in Dir : c # d => active'[c] = active[c]
    <3> DEFINE one == Bytes[{e}]
               h   == [f EXCEPT !.writes = f.writes + 1, !.bytes = f.bytes + one]
    <3>1. one \in Nat
      BY <1>1, OneMoreRecord
    <3>2. f \in FileDetails
      BY <1>1, <1>3
    <3>3. h \in FileDetails
      <4>1. f.writes + 1 \in Nat /\ f.bytes + one \in Nat
        BY <3>1, <3>2 DEF FileDetails
      <4> HIDE DEF f, one
      <4> QED
        BY <3>2, <4>1 DEF FileDetails
    <3>4. active' = [active EXCEPT ![d] = h]
      <4> HIDE DEF d, one
      <4> QED
        BY <1>1, <1>3, <1>7 DEF FileDetails, one
    <3> HIDE DEF h, d
    <3>5. active' \in [Dir -> FileDetails] /\ active'[d] = h /\ \A c \in Dir : c # d => active'[c] = active[c]
      BY <1>1, <1>3, <3>3, <3>4
    <3> QED
      BY <3>2, <3>5 DEF h
  <2>2. /\ disk' \in [Dir -> [Name -> File]]
        /\ \A c \in Dir, m \in Name : c # d \/ m # n => disk'[c][m] = disk[c][m]
        /\ disk[d][n].exists => disk'[d][n].events = disk[d][n].events \union {e} /\ disk'[d][n].exists
        /\ ~disk[d][n].exists => disk' = disk
    <3> HIDE DEF d, e, n
    <3>1. CASE ~disk[d][n].exists
      BY <1>3, <1>7, <3>1
    <3>2. CASE disk[d][n].exists
      <4> DEFINE g == [disk[d][n] EXCEPT !.events = disk[d][n].events \union {e}]
      <4>1. disk' = [disk EXCEPT ![d][n] = g]
        BY <1>7, <3>2
      <4>2. disk[d][n] \in File
        BY <1>1, <1>3
      <4>3. g \in File /\ g.events = disk[d][n].events \union {e} /\ g.exists = disk[d][n].exists
        BY <1>1, <4>2 DEF File
      <4> HIDE DEF g
      <4>4. /\ disk' \in [Dir -> [Name -> File]] /\ disk'[d][n] = g
            /\ \A c \in Dir, m \in Name : c # d \/ m # n => disk'[c][m] = disk[c][m]
        BY <1>1, <1>3, <4>1, <4>3, PutFile
      <4> QED
        BY <3>2, <4>3, <4>4
    <3> QED
      BY <3>1, <3>2
  <2>3. /\ record' \in [Event -> Record] /\ record'[e] = d /\ d \in {"pending", "granted"}
        /\ \A x \in Event : x # e => record'[x] = record[x]
    BY <1>1, <1>3, <1>7 DEF Record, Dir
  <2>4. /\ \A c \in Dir, m \in Name : e \notin disk[c][m].events
        /\ e \notin batch.events /\ lost[e] = "no" /\ acked[e] = 0
    BY <1>1, <1>5 DEF Filed, ReadWhole, Stored
  <2>5. batch.events \subseteq Event
    BY DEF IInv, TypeOK, File
  <2> HIDE DEF d, e, n, f
  <2>6. \A c \in Dir, m \in Name : \A x \in disk'[c][m].events :
          \/ x # e /\ x \in Event /\ x \in disk[c][m].events /\ record'[x] = record[x]
          \/ x = e /\ c = d /\ m = n /\ disk[d][n].exists
    <3> SUFFICES ASSUME NEW c \in Dir, NEW m \in Name, NEW x \in disk'[c][m].events
                 PROVE  \/ x # e /\ x \in Event /\ x \in disk[c][m].events /\ record'[x] = record[x]
                        \/ x = e /\ c = d /\ m = n /\ disk[d][n].exists
      OBVIOUS
    <3>1. \/ x \in disk[c][m].events
          \/ x = e /\ c = d /\ m = n /\ disk[d][n].exists
      BY <2>2
    <3>2. CASE x \in disk[c][m].events
      BY <1>4, <2>3, <2>4, <3>2
    <3> QED
      BY <3>1, <3>2
  <2>7. \A c \in Dir, m \in Name : disk[c][m].events \subseteq disk'[c][m].events
    BY <1>1, <2>2
  <2>8. TypeOK'
    BY <1>1, <1>2, <2>1, <2>2, <2>3 DEF IInv, TypeOK, Worse, SpentType, FileDetails
  <2>9. Filed'
    <3>1. \A c \in Dir, m \in Name : ~disk'[c][m].exists => disk'[c][m].events = {}
      BY <1>1, <1>5, <2>2 DEF Filed
    <3>2. \A c \in Dir, m \in Name : \A x \in disk'[c][m].events :
            /\ record'[x] \in Stored
            /\ lost'[x] \in {"no", "adopted", "overtaken"}
            /\ c = "pending" => lost'[x] = "no"
      BY <1>2, <1>5, <2>3, <2>4, <2>6 DEF Filed, Stored
    <3>3. ASSUME NEW c \in Dir, NEW m \in Name, NEW x \in disk'[c][m].events,
                 NEW b \in Dir, NEW k \in Name, x \in disk'[b][k].events
          PROVE  b = c /\ k = m
      BY <1>5, <2>6, <3>3 DEF Filed
    <3>4. \A x \in Event : record'[x] \in {"new", "writing"} => lost'[x] = "no" /\ acked'[x] = 0
      BY <1>2, <1>5, <2>3 DEF Filed
    <3> QED
      BY <3>1, <3>2, <3>3, <3>4 DEF Filed
  <2>10. WriteUnderWay' /\ WrittenInTime' /\ Cycling'
    BY <1>1, <1>2 DEF IInv, WriteUnderWay, WrittenInTime, Cycling, Writing, Sending, Age,
       ClockTrusted, Worse
  <2>11. /\ f.open /\ f.name = n /\ f.writes < MaxWrites /\ f.bytes + Bytes[{e}] <= MaxFileSize
         /\ f.writes \in Nat /\ f.bytes \in Nat
         /\ Excepted(d, n) \/ CountedUpTo(f, disk[d][n].events)
    BY <1>1, <2>1 DEF IInv, ActiveFiles, FileDetails, f, d, e, n
  <2>12. Excepted(d, n) => d = "granted" /\ \E x \in disk'[d][n].events : lost'[x] \in {"adopted", "overtaken"}
    BY <1>1, <1>2, <2>7 DEF Excepted
  <2>13. ~Excepted(d, n) =>
           /\ CountedUpTo(active'[d], disk'[d][n].events)
           /\ Fits(disk'[d][n].events)
    <3>1. /\ active'[d].writes = f.writes + 1 /\ active'[d].bytes = f.bytes + Bytes[{e}]
      BY <2>1 DEF FileDetails
    <3>2. disk[d][n].events \in SUBSET Event
      BY <1>1, <1>4
    <3>3. CASE disk'[d][n].events = disk[d][n].events
      <4>1. /\ Cardinality(disk[d][n].events) \in Nat /\ Bytes[disk[d][n].events] \in Nat /\ Bytes[{e}] \in Nat
        BY <1>1, <3>2, OneMoreRecord
      <4> QED
        BY <2>11, <3>1, <3>3, <4>1, LimitTypes DEF CountedUpTo, Fits
    <3>4. CASE disk'[d][n].events = disk[d][n].events \union {e}
      <4>1. /\ Cardinality(disk[d][n].events) \in Nat /\ Bytes[disk[d][n].events] \in Nat /\ Bytes[{e}] \in Nat
            /\ Cardinality(disk'[d][n].events) \in Nat /\ Bytes[disk'[d][n].events] \in Nat
            /\ Cardinality(disk'[d][n].events) <= Cardinality(disk[d][n].events) + 1
            /\ Bytes[disk'[d][n].events] <= Bytes[disk[d][n].events] + Bytes[{e}]
        BY <1>1, <3>2, <3>4, OneMoreRecord
      <4> QED
        BY <2>11, <3>1, <4>1, LimitTypes DEF CountedUpTo, Fits
    <3> QED
      BY <2>2, <3>3, <3>4
  <2>14. active'[d].name = n /\ active'[d].open
    BY <2>1, <2>11 DEF FileDetails
  <2>15. ActiveFiles'
    <3>1. active'["pending"].open => consent' = "pending"
      BY <1>1, <1>2, <2>1 DEF IInv, ActiveFiles, Dir
    <3>2. \A c \in Dir : active'[c].open =>
              \/ Excepted(c, active[c].name)'
              \/ CountedUpTo(active'[c], disk'[c][active'[c].name].events)
      <4> SUFFICES ASSUME NEW c \in Dir, active'[c].open
                   PROVE  \/ Excepted(c, active[c].name)'
                          \/ CountedUpTo(active'[c], disk'[c][active'[c].name].events)
        OBVIOUS
      <4>1. CASE c = d
        BY <2>12, <2>13, <2>14, <4>1 DEF Excepted
      <4>2. CASE c # d
        <5>1. active'[c] = active[c] /\ active[c].name \in Name
          BY <1>3, <2>1, <4>2 DEF FileDetails
        <5>2. disk'[c][active[c].name] = disk[c][active[c].name]
          BY <2>2, <4>2, <5>1
        <5> QED
          BY <1>2, <5>1, <5>2 DEF IInv, ActiveFiles, Excepted, CountedUpTo
      <4> QED
        BY <4>1, <4>2
    <3> QED
      BY <1>1, <3>1, <3>2 DEF ActiveFiles, CountedUpTo
  <2>16. EventLimits'
    <3> SUFFICES ASSUME NEW c \in Dir, NEW m \in Name
                 PROVE  \/ Fits(disk'[c][m].events)
                        \/ c = "granted" /\ \E x \in disk'[c][m].events : lost'[x] \in {"adopted", "overtaken"}
      BY DEF EventLimits, Fits
    <3>1. CASE c = d /\ m = n
      BY <2>12, <2>13, <3>1 DEF Excepted
    <3>2. CASE c # d \/ m # n
      <4>1. disk'[c][m] = disk[c][m]
        BY <2>2, <3>2
      <4> QED
        BY <1>2, <4>1 DEF IInv, EventLimits
    <3> QED
      BY <3>1, <3>2
  <2>17. ReadWhole'
    <3>1. \A x \in batch.events : record'[x] \in Stored
      BY <1>5, <2>3, <2>4, <2>5 DEF ReadWhole
    <3>2. \A x \in batch.events : \A c \in Dir, m \in Name :
            x \in disk'[c][m].events => c = "granted" /\ m = Min(unames)
      BY <1>5, <2>4, <2>6 DEF ReadWhole
    <3>3. ClockTrusted' => ClockTrusted
      BY <1>1 DEF ClockTrusted, Worse
    <3>4. ClockTrusted /\ Sending => Min(unames) \in Name /\ Min(unames) # n
      BY <1>1, OpenIsNotRead, NextName DEF IInv, Cycling, n, d
    <3>5. ClockTrusted /\ Sending =>
            \A x \in disk'["granted"][Min(unames)].events : x \in batch.events \/ lost[x] = "overtaken"
      BY <1>5, <2>2, <3>4 DEF ReadWhole, Dir
    <3> QED
      BY <1>2, <1>5, <3>1, <3>2, <3>3, <3>5 DEF ReadWhole, Sending
  <2>18. NoSilentLoss'
    <3> SUFFICES ASSUME NEW x \in Event, ClockTrusted', record'[x] \in Stored
                 PROVE  x \in OnDisk' \/ acked'[x] > 0 \/ lost'[x] \notin Kept
      BY DEF NoSilentLoss, Stored, Kept
    <3>1. ClockTrusted
      BY <1>1 DEF ClockTrusted, Worse
    <3>2. CASE x = e
      <4>1. disk[d][n].exists
        BY <1>1, <1>5, <3>1 DEF WrittenInTime, d, n
      <4>2. e \in disk'[d][n].events
        BY <2>2, <4>1
      <4> QED
        BY <1>1, <3>2, <4>2 DEF OnDisk
    <3>3. CASE x # e
      <4>1. x \in OnDisk => x \in OnDisk'
        BY <2>7 DEF OnDisk
      <4> QED
        BY <1>2, <2>3, <3>1, <3>3, <4>1 DEF IInv, NoSilentLoss, Stored
    <3> QED
      BY <3>2, <3>3
  <2>19. ConsentFollowed'
    <3> SUFFICES ASSUME spent'.faults = 0
                 PROVE  ConsentFollowed'
      BY DEF ConsentFollowed
    <3>1. spent.faults = 0 /\ "granted" \in Dir /\ "pending" \in Dir
      BY <1>1 DEF Worse, Dir
    <3>2. \A m \in Name : \A x \in disk'["granted"][m].events : record'[x] = "granted"
      BY <1>5, <2>3, <2>6, <3>1 DEF ConsentFollowed
    <3>3. \A m \in Name : \A x \in disk'["pending"][m].events :
            \/ x \in disk["pending"][m].events /\ record'[x] = record[x]
            \/ record'[x] = "pending" /\ consent = "pending"
      BY <1>1, <2>3, <2>6, <3>1
    <3>4. \A m \in Name : ~Awaiting(m)
      BY <1>1 DEF Awaiting
    <3>5. \A m \in Name : \A x \in disk'["pending"][m].events : record'[x] # "revoked"
      BY <1>5, <3>1, <3>3, <3>4 DEF ConsentFollowed
    <3>6. consent' # "pending" => \A m \in Name : \A x \in disk'["pending"][m].events : record'[x] # "pending"
      BY <1>2, <1>5, <3>1, <3>3 DEF ConsentFollowed
    <3>7. /\ \A x \in batch.events : record'[x] = "granted"
          /\ received \subseteq Event /\ \A x \in received : record'[x] = "granted"
      BY <1>1, <1>5, <2>3, <2>4, <2>5, <3>1 DEF ConsentFollowed, ConsentRespected, IInv, TypeOK
    <3> QED
      BY <1>2, <3>2, <3>5, <3>6, <3>7 DEF ConsentFollowed, ConsentRespected
  <2>20. Confirmed'
    <3>1. spent'.faults + spent'.restarts = 0 => spent.faults + spent.restarts = 0
      BY <1>1 DEF Worse
    <3> QED
      BY <1>2, <2>4, <2>6, <3>1 DEF IInv, Confirmed
  <2> QED
    BY <2>8, <2>9, <2>10, <2>15, <2>16, <2>17, <2>18, <2>19, <2>20 DEF IInv
<1>8. \A k \in 1 .. Bytes[{e}] - 1 : k \in Nat
  BY <1>1, BytesAssumption
<1> QED
  BY <1>1, <1>6, <1>7, <1>8 DEF WriteEvent, DropEvent

-----------------------------------------------------------------------------
(* The steps of the upload thread. *)

\* A cycle begins.
LEMMA StartCycleInv ==
  ASSUME IInv, StartCycle
  PROVE  IInv'
<1> USE DEF StartCycle, uploadVars, writerVars, BeginCycle
<1> QED
  BY NoBatchInv, CallsAreWorse DEF IInv, TypeOK, FileCalls, SpentType, Cycling, ReadWhole, Sending,
     Worse, Works, WriteUnderWay, Writing

\* The pending files are listed.
LEMMA ListStaleInv ==
  ASSUME IInv, ListStale
  PROVE  IInv'
<1> USE DEF ListStale, uploadVars, writerVars, Files
<1> QED
  BY NoBatchInv, CallsAreWorse DEF IInv, TypeOK, FileCalls, SpentType, Cycling, ReadWhole, Sending,
     Worse, Works, WriteUnderWay, Writing

\* A pending file that has expired is deleted, or stays for another cycle.
LEMMA EvictStaleInv ==
  ASSUME IInv, EvictStale
  PROVE  IInv'
<1> DEFINE n == Min(unames)
<1>1. /\ Worse /\ n \in Name /\ "pending" \in Dir /\ upc = "evict" /\ ~Sending /\ mode # "down"
      /\ Age(n) >= ExpireAge /\ unames' = unames \ {n}
      /\ UNCHANGED << now, mode, writerVars, upc, unow, batch, attempted, answer, record, received, acked >>
  BY CallsAreWorse, NextName DEF EvictStale, DeleteExpired, IInv, TypeOK, FileCalls, SpentType,
     Dir, Sending, Cycling
<1>2. CASE GivesUp("pending", n, "expired")
  <2>1. ClockTrusted /\ wpc = "write" => n # active[write.dir].name
    BY <1>1, OpenIsNotRead DEF IInv
  <2> QED
    BY <1>1, <1>2, <2>1, GivesUpInv DEF IInv, TypeOK, writerVars
<1>3. CASE UNCHANGED << disk, lost >>
  BY <1>1, <1>3, NoBatchInv DEF IInv, TypeOK, writerVars, ReadWhole, WriteUnderWay
<1> QED
  BY <1>1, <1>2, <1>3 DEF EvictStale, DeleteExpired, GivesUp, writerVars

\* None of the pending files has expired.
LEMMA EvictDoneInv ==
  ASSUME IInv, EvictDone
  PROVE  IInv'
<1> USE DEF EvictDone, uploadVars, writerVars
<1> QED
  BY NoBatchInv, CallsAreWorse DEF IInv, TypeOK, FileCalls, SpentType, Cycling, ReadWhole, Sending,
     Worse, Works, WriteUnderWay, Writing

\* The granted files are listed, or the cycle is over.
LEMMA ListReadyInv ==
  ASSUME IInv, ListReady
  PROVE  IInv'
<1> USE DEF ListReady, uploadVars, writerVars, Files, EndCycle
<1> QED
  BY NoBatchInv, CallsAreWorse DEF IInv, TypeOK, FileCalls, SpentType, Cycling, ReadWhole, Sending,
     Worse, Works, WriteUnderWay, Writing

\* A granted file that has expired is deleted, or stays for another cycle.
LEMMA DiscardExpiredInv ==
  ASSUME IInv, DiscardExpired
  PROVE  IInv'
<1> DEFINE n == Min(unames)
<1>1. /\ Worse /\ n \in Name /\ "granted" \in Dir /\ upc = "scan" /\ ~Sending /\ mode # "down"
      /\ Age(n) >= ExpireAge /\ unames' = unames \ {n}
      /\ UNCHANGED << now, mode, writerVars, upc, unow, batch, attempted, answer, record, received, acked >>
  BY CallsAreWorse, NextName DEF DiscardExpired, DeleteExpired, IInv, TypeOK, FileCalls, SpentType,
     Dir, Sending, Cycling
<1>2. CASE GivesUp("granted", n, "expired")
  <2>1. ClockTrusted /\ wpc = "write" => n # active[write.dir].name
    BY <1>1, OpenIsNotRead DEF IInv
  <2> QED
    BY <1>1, <1>2, <2>1, GivesUpInv DEF IInv, TypeOK, writerVars
<1>3. CASE UNCHANGED << disk, lost >>
  BY <1>1, <1>3, NoBatchInv DEF IInv, TypeOK, writerVars, ReadWhole, WriteUnderWay
<1> QED
  BY <1>1, <1>2, <1>3 DEF DiscardExpired, DeleteExpired, GivesUp, writerVars

\* No file is old enough to be read.
LEMMA ScanDoneInv ==
  ASSUME IInv, ScanDone
  PROVE  IInv'
<1> USE DEF ScanDone, uploadVars, writerVars, EndCycle
<1> QED
  BY NoBatchInv, CallsAreWorse DEF IInv, TypeOK, FileCalls, SpentType, Cycling, ReadWhole, Sending,
     Worse, Works, WriteUnderWay, Writing

\* The oldest file is opened and read, unless it is gone or cannot be opened.
LEMMA ReadBatchInv ==
  ASSUME IInv, ReadBatch
  PROVE  IInv'
<1> DEFINE n == Min(unames)
<1>1. /\ Worse /\ unames # {} /\ n \in Name /\ "granted" \in Dir /\ upc = "scan" /\ ~Sending /\ batch = NoFile
      /\ MinAge <= Age(n) /\ mode # "down" /\ attempted + 1 \in Nat
      /\ UNCHANGED << now, disk, writerVars, record, lost, received, acked >>
  BY CallsAreWorse, NextName DEF ReadBatch, IInv, TypeOK, FileCalls, SpentType, Dir, Sending,
     Cycling, ReadWhole
<1>2. CASE EndCycle
  BY <1>1, <1>2, NoBatchInv DEF EndCycle, IInv, TypeOK, writerVars, WriteUnderWay
<1>3. CASE /\ UNCHANGED << mode, unow, unames >> /\ attempted' = attempted + 1
           /\ \/ upc' = "delete" /\ answer' = "bad" /\ batch' = batch /\ ~disk["granted"][n].exists
              \/ upc' = "post" /\ answer' = answer /\ batch' = disk["granted"][n]
  <2> USE DEF IInv
  <2>1. batch' \in File /\ UNCHANGED << wpc, given, consent, active, write, wnames, wsizes >>
    BY <1>1, <1>3 DEF TypeOK, writerVars
  <2>2. batch'.events = disk["granted"][n].events
    <3>1. CASE batch' = batch /\ ~disk["granted"][n].exists
      <4>1. disk["granted"][n].events = {}
        BY <1>1, <3>1 DEF Filed
      <4>2. batch'.events = {}
        BY <1>1, <3>1 DEF NoFile
      <4> QED
        BY <4>1, <4>2
    <3>2. CASE batch' = disk["granted"][n]
      BY <3>2
    <3> QED
      BY <1>3, <3>1, <3>2
  <2>3. TypeOK'
    BY <1>1, <1>3, <2>1 DEF TypeOK, Worse, SpentType
  <2>4. WriteUnderWay' /\ ActiveFiles' /\ WrittenInTime' /\ Filed' /\ EventLimits'
    BY <1>1, <1>3, <2>1 DEF WriteUnderWay, ActiveFiles, Excepted, CountedUpTo, WrittenInTime,
       Writing, TooLarge, ClockTrusted, Worse, Filed, EventLimits, Fits, Files
  <2>5. Cycling'
    BY <1>1, <1>3 DEF Cycling, Sending, Age, MinAge
  <2>6. ReadWhole'
    <3>1. \A e \in batch'.events : record[e] \in Stored /\ \A d \in Dir, m \in Name :
            e \in disk[d][m].events => d = "granted" /\ m = n
      BY <1>1, <2>2 DEF Filed
    <3> QED
      BY <1>1, <1>3, <2>2, <3>1 DEF ReadWhole, Sending
  <2>7. NoSilentLoss'
    BY <1>1, StillKept DEF SameEvents, Worse
  <2>8. ConsentFollowed'
    <3>1. spent'.faults = 0 => spent.faults = 0
      BY <1>1 DEF Worse
    <3> QED
      BY <1>1, <1>3, <2>1, <2>2, <3>1 DEF ConsentFollowed, ConsentRespected, Awaiting
  <2>9. Confirmed'
    <3>1. spent'.faults + spent'.restarts = 0 => spent.faults + spent.restarts = 0
      BY <1>1 DEF Worse
    <3>2. \A e \in disk["granted"][n].events : acked[e] \in 0 .. 2
      BY <1>1 DEF TypeOK, File
    <3> QED
      BY <1>1, <1>3, <2>2, <3>1, <3>2 DEF Confirmed
  <2> QED
    BY <2>3, <2>4, <2>5, <2>6, <2>7, <2>8, <2>9
<1> QED
  BY <1>1, <1>2, <1>3 DEF ReadBatch

\* The batch is sent, if it can be, and answered, if it is.
LEMMA PostInv ==
  ASSUME IInv, Post
  PROVE  IInv'
<1>1. /\ Worse /\ upc = "post" /\ Sending /\ mode # "down"
      /\ UNCHANGED << now, disk, writerVars, record, lost >>
  BY CallsAreWorse DEF Post, IInv, TypeOK, FileCalls, SpentType, Sending, Cycling
<1>2. batch.events \subseteq Event /\ batch.events \in SUBSET Event
  BY DEF IInv, TypeOK, File
<1>3. CASE EndCycle /\ acked' = acked /\ received' \subseteq received \union batch.events
  BY <1>1, <1>3, NoBatchInv DEF EndCycle, IInv, TypeOK, writerVars, WriteUnderWay
<1>4. CASE /\ UNCHANGED << mode, unow, unames, batch, attempted >> /\ upc' = "delete"
           /\ \/ answer' = "bad" /\ UNCHANGED << received, acked >>
              \/ /\ answer' = "success" /\ received' = received \union batch.events
                 /\ acked' = [e \in Event |-> IF e \in batch.events /\ acked[e] < 2 THEN acked[e] + 1 ELSE acked[e]]
  <2> USE DEF IInv
  <2>1. UNCHANGED << wpc, given, consent, active, write, wnames, wsizes >>
    BY <1>1 DEF writerVars
  <2>2. /\ acked' \in [Event -> 0 .. 2] /\ received' \in SUBSET Event
        /\ \A e \in Event : e \notin batch.events => acked'[e] = acked[e]
        /\ \A e \in Event : acked[e] > 0 => acked'[e] > 0
        /\ \A e \in Event : acked'[e] = acked[e] \/ acked'[e] = acked[e] + 1
        /\ answer' = "success" => \A e \in batch.events : acked'[e] > 0
        /\ answer' # "success" => acked' = acked
    <3>1. acked \in [Event -> 0 .. 2] /\ received \in SUBSET Event
      BY DEF TypeOK
    <3>2. CASE answer' = "bad" /\ UNCHANGED << received, acked >>
      BY <3>1, <3>2
    <3>3. CASE /\ answer' = "success" /\ received' = received \union batch.events
               /\ acked' = [e \in Event |-> IF e \in batch.events /\ acked[e] < 2 THEN acked[e] + 1 ELSE acked[e]]
      <4>1. \A e \in Event : acked[e] \in 0 .. 2
        BY <3>1
      <4>2. \A e \in Event : acked'[e] = IF e \in batch.events /\ acked[e] < 2 THEN acked[e] + 1 ELSE acked[e]
        BY <3>3
      <4>3. \A e \in Event : acked'[e] \in 0 .. 2 /\ (acked'[e] = acked[e] \/ acked'[e] = acked[e] + 1)
        BY <4>1, <4>2
      <4>4. acked' \in [Event -> 0 .. 2]
        BY <3>3, <4>2, <4>3
      <4>5. \A e \in Event : e \in batch.events => acked'[e] > 0
        BY <4>1, <4>2
      <4>6. \A e \in Event : acked[e] > 0 => acked'[e] > 0
        BY <4>1, <4>3
      <4> QED
        BY <1>2, <3>1, <3>3, <4>2, <4>3, <4>4, <4>5, <4>6
    <3> QED
      BY <1>4, <3>2, <3>3
  <2>3. TypeOK'
    BY <1>1, <1>4, <2>1, <2>2 DEF TypeOK, Worse, SpentType
  <2>4. Filed'
    BY <1>1, <2>2 DEF Filed, ReadWhole, Stored
  <2>5. WriteUnderWay' /\ ActiveFiles' /\ WrittenInTime' /\ EventLimits' /\ Cycling'
    BY <1>1, <1>4, <2>1 DEF WriteUnderWay, ActiveFiles, Excepted, CountedUpTo, WrittenInTime,
       Writing, TooLarge, ClockTrusted, Worse, EventLimits, Fits, Files, Cycling, Sending,
       Age
  <2>6. ReadWhole'
    BY <1>1, <1>4, <2>2 DEF ReadWhole, Sending, ClockTrusted, Worse
  <2>7. NoSilentLoss'
    <3>1. OnDisk' = OnDisk
      BY <1>1 DEF OnDisk
    <3> QED
      BY <1>1, <2>2, <3>1 DEF NoSilentLoss, ClockTrusted, Worse
  <2>8. ConsentFollowed'
    <3>1. spent'.faults = 0 => spent.faults = 0
      BY <1>1 DEF Worse
    <3> QED
      BY <1>1, <1>4, <2>1, <3>1 DEF ConsentFollowed, ConsentRespected, Awaiting
  <2>9. Confirmed'
    <3>1. spent'.faults + spent'.restarts = 0 => spent.faults + spent.restarts = 0
      BY <1>1 DEF Worse
    <3>2. spent.faults + spent.restarts = 0 => \A e \in Event : acked'[e] <= 1
      <4>1. \A e \in Event : acked[e] \in Nat
        BY DEF TypeOK
      <4> QED
        BY <1>1, <2>2, <4>1 DEF Confirmed
    <3>3. spent.faults + spent.restarts = 0 => \A d \in Dir, n \in Name : \A e \in disk[d][n].events :
            e \in Event /\ ~(acked[e] > 0)
      BY <1>1 DEF Confirmed, TypeOK, File
    <3>4. spent.faults + spent.restarts = 0 => \A d \in Dir, n \in Name : \A e \in disk[d][n].events :
            acked'[e] > 0 => answer' = "success" /\ d = "granted" /\ n = Min(unames)
      BY <2>2, <3>3 DEF ReadWhole
    <3> QED
      BY <1>1, <1>4, <3>1, <3>2, <3>4 DEF Confirmed
  <2> QED
    BY <2>3, <2>4, <2>5, <2>6, <2>7, <2>8, <2>9
<1> QED
  BY <1>1, <1>3, <1>4 DEF Post, Answered

\* The file of the batch is deleted by its name, whatever it holds by now.
LEMMA DeleteBatchInv ==
  ASSUME IInv, DeleteBatch
  PROVE  IInv'
<1> DEFINE n == Min(unames)
<1>1. /\ Worse /\ n \in Name /\ "granted" \in Dir /\ upc = "delete" /\ Sending /\ mode # "down"
      /\ UNCHANGED << now, writerVars, record, received, acked >>
  BY CallsAreWorse, NextName DEF DeleteBatch, IInv, TypeOK, FileCalls, SpentType, Dir, Sending,
     Cycling
<1>2. /\ UNCHANGED << wpc, given, consent, active, write, wnames, wsizes >>
      /\ upc' \in {"idle", "scan"} /\ batch' = NoFile /\ answer' = "none" /\ unow' \in {0, unow}
      /\ unames' \in SUBSET Name /\ attempted' \in Nat
      /\ \/ mode' = mode
         \/ mode = "flushing" /\ mode' = "down" /\ upc' = "idle"
  BY <1>1 DEF DeleteBatch, EndCycle, writerVars, IInv, TypeOK
<1>3. CASE UNCHANGED << disk, lost >> /\ spent'.faults # 0
  BY <1>1, <1>2, <1>3, NoBatchInv DEF IInv, TypeOK, WriteUnderWay
<1>4. CASE ConsumeBatch(n)
  <2> USE DEF IInv
  <2>1. /\ disk' \in [Dir -> [Name -> File]] /\ disk'["granted"][n] = NoFile
        /\ \A d \in Dir, m \in Name : d # "granted" \/ m # n => disk'[d][m] = disk[d][m]
        /\ NoFile \in File /\ NoFile.events = {} /\ ~NoFile.exists
    <3>1. NoFile \in File /\ NoFile.events = {} /\ ~NoFile.exists
      BY DEF NoFile, File
    <3> QED
      BY <1>1, <1>4, <3>1, PutFile DEF ConsumeBatch, Unlink, TypeOK
  <2>2. /\ lost' \in [Event -> Reason]
        /\ \A e \in Event : e \notin batch.events => lost'[e] = lost[e]
        /\ \A e \in Event : lost[e] \notin Kept => lost'[e] \notin Kept
        /\ answer # "success" => \A e \in Event : e \in batch.events => lost'[e] \notin Kept
    BY <1>4 DEF ConsumeBatch, Drop, TypeOK, Reason, Kept
  <2>3. \A d \in Dir, m \in Name : disk[d][m].events \subseteq Event
    BY DEF TypeOK, File
  <2> HIDE DEF n
  <2>4. \A d \in Dir, m \in Name : \A e \in disk'[d][m].events :
          e \in Event /\ e \in disk[d][m].events /\ lost'[e] = lost[e] /\ (d # "granted" \/ m # n)
    <3> SUFFICES ASSUME NEW d \in Dir, NEW m \in Name, NEW e \in disk'[d][m].events
                 PROVE  e \in Event /\ e \in disk[d][m].events /\ lost'[e] = lost[e] /\ (d # "granted" \/ m # n)
      OBVIOUS
    <3>1. (d # "granted" \/ m # n) /\ e \in disk[d][m].events
      BY <2>1
    <3>2. e \notin batch.events
      BY <3>1 DEF ReadWhole, n
    <3> QED
      BY <2>2, <2>3, <3>1, <3>2
  <2>5. TypeOK'
    <3>1. mode' \in {"down", "running", "joined", "flushing"} /\ unow' \in 0 .. MaxTime
      BY <1>2, LimitTypes DEF TypeOK
    <3>2. spent' \in SpentType
      BY <1>1 DEF Worse
    <3> QED
      BY <1>1, <1>2, <2>1, <2>2, <3>1, <3>2 DEF TypeOK, SpentType
  <2>6. Filed'
    <3>1. \A d \in Dir, m \in Name : ~disk'[d][m].exists => disk'[d][m].events = {}
      BY <2>1 DEF Filed
    <3>2. \A e \in Event : record[e] \in {"new", "writing"} => lost'[e] = lost[e]
      BY <2>2 DEF ReadWhole, Stored
    <3>3. \A d \in Dir, m \in Name : \A e \in disk'[d][m].events :
            /\ record'[e] \in Stored /\ lost'[e] \in {"no", "adopted", "overtaken"}
            /\ d = "pending" => lost'[e] = "no"
            /\ \A c \in Dir, k \in Name : e \in disk'[c][k].events => c = d /\ k = m
      BY <1>1, <2>4 DEF Filed
    <3> QED
      BY <1>1, <3>1, <3>2, <3>3 DEF Filed
  <2>7. WriteUnderWay'
    BY <1>1, <1>2 DEF WriteUnderWay, Writing, TooLarge
  <2>8. ActiveFiles'
    <3>1. \A d \in Dir : active'[d].open =>
              \/ Excepted(d, active[d].name)'
              \/ CountedUpTo(active[d], disk[d][active[d].name].events)'
      <4>1. \A c \in Dir, m \in Name :
              disk'[c][m].events = disk[c][m].events \/ disk'[c][m].events = {}
        BY <2>1
      <4>2. \A c \in Dir, m \in Name : \A e \in disk'[c][m].events : lost'[e] = lost[e]
        BY <2>4
      <4> QED
        BY <1>2, <4>1, <4>2, CountedStill
    <3>2. wpc \in {"measure", "purge"} => Files(write.dir)' \subseteq wnames'
      <4>1. \A m \in Name : disk'[write.dir][m].exists => disk[write.dir][m].exists
        BY <2>1 DEF TypeOK
      <4> QED
        BY <1>2, <4>1 DEF ActiveFiles, Files
    <3> QED
      BY <1>2, <3>1, <3>2 DEF ActiveFiles
  <2>9. EventLimits'
    <3>1. Fits({})
      BY NoEvents, LimitTypes DEF Fits
    <3> SUFFICES ASSUME NEW d \in Dir, NEW m \in Name
                 PROVE  \/ Fits(disk'[d][m].events)
                        \/ d = "granted" /\ \E e \in disk'[d][m].events : lost'[e] \in {"adopted", "overtaken"}
      BY DEF EventLimits, Fits
    <3>2. CASE d = "granted" /\ m = n
      BY <2>1, <3>1, <3>2
    <3>3. CASE disk'[d][m] = disk[d][m]
      BY <2>4, <3>3 DEF EventLimits
    <3> QED
      BY <2>1, <3>2, <3>3
  <2>10. WrittenInTime'
    <3>1. ClockTrusted' => ClockTrusted
      BY <1>1 DEF ClockTrusted, Worse
    <3>2. ClockTrusted /\ wpc = "write" => n # active[write.dir].name
      BY <1>1, OpenIsNotRead DEF n
    <3>3. ClockTrusted /\ wpc = "write" => disk'[write.dir][active[write.dir].name].exists
      BY <2>1, <3>2 DEF WrittenInTime, TypeOK
    <3>4. ClockTrusted => unow' <= now
      BY <1>2 DEF WrittenInTime, TypeOK
    <3> QED
      BY <1>1, <1>2, <3>1, <3>3, <3>4 DEF WrittenInTime, Writing
  <2>11. Cycling' /\ ReadWhole'
    BY <1>1, <1>2 DEF Cycling, ReadWhole, Sending, NoFile
  <2>12. NoSilentLoss'
    <3> SUFFICES ASSUME NEW e \in Event, ClockTrusted', record[e] \in Stored
                 PROVE  e \in OnDisk' \/ acked[e] > 0 \/ lost'[e] \notin Kept
      BY <1>1 DEF NoSilentLoss, Stored
    <3>1. ClockTrusted
      BY <1>1 DEF ClockTrusted, Worse
    <3>2. e \in OnDisk \/ acked[e] > 0 \/ lost[e] \notin Kept
      BY <3>1 DEF NoSilentLoss, Stored
    <3>3. CASE e \in disk["granted"][n].events
      <4>1. e \in batch.events \/ lost[e] = "overtaken"
        BY <1>1, <3>1, <3>3 DEF ReadWhole, n
      <4>2. e \in batch.events => acked[e] > 0 \/ lost'[e] \notin Kept
        BY <1>1, <2>2 DEF ReadWhole
      <4>3. lost[e] = "overtaken" => lost'[e] \notin Kept
        BY <2>2 DEF Kept
      <4> QED
        BY <4>1, <4>2, <4>3
    <3>4. CASE e \notin disk["granted"][n].events
      <4>1. e \in OnDisk => e \in OnDisk'
        BY <2>1, <3>4 DEF OnDisk
      <4> QED
        BY <2>2, <3>2, <4>1
    <3> QED
      BY <3>3, <3>4
  <2>13. ConsentFollowed'
    <3> SUFFICES ASSUME spent'.faults = 0
                 PROVE  ConsentFollowed'
      BY DEF ConsentFollowed
    <3>1. spent.faults = 0 /\ "pending" \in Dir
      BY <1>1 DEF Worse, Dir
    <3>2. \A m \in Name : Awaiting(m) => Awaiting(m)'
      BY <1>1, <1>2 DEF Awaiting
    <3> QED
      BY <1>1, <1>2, <2>4, <3>1, <3>2 DEF ConsentFollowed, ConsentRespected, NoFile
  <2>14. Confirmed'
    <3>1. spent'.faults + spent'.restarts = 0 => spent.faults + spent.restarts = 0
      BY <1>1 DEF Worse
    <3> QED
      BY <1>1, <1>2, <2>4, <3>1 DEF Confirmed, n
  <2> QED
    BY <2>5, <2>6, <2>7, <2>8, <2>9, <2>10, <2>11, <2>12, <2>13, <2>14
<1>5. \/ spent'.faults # 0 /\ UNCHANGED << disk, lost >>
      \/ ConsumeBatch(n)
  BY FaultSpent DEF DeleteBatch, IInv, TypeOK, SpentType
<1> QED
  BY <1>3, <1>4, <1>5

-----------------------------------------------------------------------------
(* The life of the process, and time. *)

\* The core is started, with the consent the application gave last.
LEMMA StartInv ==
  ASSUME IInv, Start
  PROVE  IInv'
<1> USE DEF Start, uploadVars, writerVars
<1> QED
  BY NoBatchInv, CallsAreWorse DEF IInv, TypeOK, FileCalls, SpentType, Cycling, ReadWhole, Sending,
     Worse, Works, WriteUnderWay, Writing

\* The storage thread is joined when it has nothing left to do; a cycle may be under way.
LEMMA JoinStorageInv ==
  ASSUME IInv, JoinStorage
  PROVE  IInv'
<1>1. /\ Worse /\ mode = "running" /\ wpc = "idle" /\ mode' = "joined"
      /\ UNCHANGED << now, disk, writerVars, uploadVars, record, lost, received, acked >>
  BY CallsAreWorse DEF JoinStorage, IInv, TypeOK, SpentType
<1>2. Recording /\ ConsentFollowed'
  <2>1. Recording
    BY <1>1 DEF Recording, SameEvents, uploadVars
  <2>2. \A n \in Name : Awaiting(n) => Awaiting(n)'
    BY <1>1 DEF Awaiting, writerVars
  <2> QED
    BY <1>1, <2>1, <2>2, ConsentStands DEF Recording, writerVars, uploadVars
<1>3. TypeOK'
  BY <1>1 DEF IInv, TypeOK, Worse, SpentType, writerVars, uploadVars
<1>4. WriteUnderWay' /\ ActiveFiles' /\ WrittenInTime' /\ Cycling'
  BY <1>1 DEF IInv, WriteUnderWay, ActiveFiles, Excepted, CountedUpTo, WrittenInTime, Cycling,
     Writing, Sending, Age, TooLarge, ClockTrusted, Worse, writerVars, uploadVars
<1> QED
  BY <1>2, <1>3, <1>4, Recorded DEF IInv

\* The upload thread is joined; if anything is to be flushed, the last cycle begins.
LEMMA JoinUploadInv ==
  ASSUME IInv, JoinUpload
  PROVE  IInv'
<1> USE DEF JoinUpload, uploadVars, writerVars, BeginCycle
<1> QED
  BY NoBatchInv, CallsAreWorse DEF IInv, TypeOK, FileCalls, SpentType, Cycling, ReadWhole, Sending,
     Worse, Works, WriteUnderWay, Writing

\* The process dies: what it knew is gone, and what it was writing.
LEMMA CrashInv ==
  ASSUME IInv, Crash
  PROVE  IInv'
<1>1. Interrupt /\ Worse
  BY CallsAreWorse DEF Crash, IInv, TypeOK, SpentType
<1>2. /\ mode' = "down" /\ wpc' = "idle" /\ consent' = "pending" /\ upc' = "idle" /\ unow' = 0
      /\ wnames' = {} /\ unames' = {} /\ batch' = NoFile /\ attempted' = 0 /\ answer' = "none"
      /\ active' = [d \in Dir |-> NoActive] /\ wsizes' = [n \in Name |-> 0]
      /\ UNCHANGED << now, disk, given, write, lost, received, acked >>
  BY DEF Crash
<1>3. \A e \in Event : \/ record'[e] = record[e]
                       \/ record[e] = "writing" /\ record'[e] = "dropped"
  BY DEF Crash
<1>4. NoFile.events = {} /\ NoFile \in File /\ \A d \in Dir : active'[d].open = FALSE
  BY <1>2 DEF NoFile, File, NoActive
<1>5. TypeOK'
  <2>1. active' \in [Dir -> FileDetails] /\ wsizes' \in [Name -> Nat]
    BY <1>2, NoActiveType
  <2>2. record' \in [Event -> Record]
    BY DEF Crash, IInv, TypeOK, Record
  <2> QED
    BY <1>1, <1>2, <1>4, <2>1, <2>2, LimitTypes DEF IInv, TypeOK, Worse, SpentType, FileDetails,
       Consent
<1>6. /\ \A d \in Dir, n \in Name : \A e \in disk[d][n].events : e \in Event
      /\ \A e \in Event : record[e] \in Stored <=> record'[e] \in Stored
      /\ \A e \in Event : record[e] \in Stored => record'[e] = record[e]
      /\ \A e \in Event : record'[e] \in {"new", "writing"} => record[e] \in {"new", "writing"}
  BY <1>3 DEF IInv, TypeOK, File, Stored
<1>7. Filed' /\ EventLimits'
  BY <1>2, <1>6 DEF IInv, Filed, EventLimits, Fits
<1>8. WriteUnderWay' /\ ActiveFiles' /\ Cycling' /\ ReadWhole'
  <2>1. WriteUnderWay' /\ Cycling' /\ ReadWhole'
    BY <1>2, <1>4 DEF WriteUnderWay, Writing, Cycling, ReadWhole, Sending
  <2>2. ActiveFiles'
    BY <1>2, <1>4 DEF ActiveFiles, Dir
  <2> QED
    BY <2>1, <2>2
<1>9. WrittenInTime'
  BY <1>2 DEF IInv, TypeOK, WrittenInTime, Writing
<1>10. NoSilentLoss'
  BY <1>1, <1>2, <1>6, StillKept DEF IInv, SameEvents, Worse
<1>11. ConsentFollowed'
  <2> SUFFICES ASSUME spent'.faults = 0
               PROVE  ConsentFollowed'
    BY DEF ConsentFollowed
  <2>1. spent.faults = 0 /\ "granted" \in Dir /\ "pending" \in Dir
    BY <1>1 DEF Worse, Dir
  <2>2. \A d \in Dir, n \in Name : \A e \in disk[d][n].events : record'[e] = record[e]
    BY <1>6 DEF IInv, Filed
  <2>3. \A e \in received : record'[e] = "granted"
    BY <1>3, <2>1 DEF IInv, TypeOK, ConsentFollowed, ConsentRespected
  <2>4. \A n \in Name : Awaiting(n)'
    BY <1>2 DEF Awaiting
  <2> QED
    BY <1>2, <1>4, <2>1, <2>2, <2>3, <2>4 DEF IInv, ConsentFollowed, ConsentRespected
<1>12. Confirmed'
  <2>1. spent'.faults + spent'.restarts # 0
    BY <1>1, InterruptSpent DEF IInv, TypeOK, SpentType
  <2> QED
    BY <2>1 DEF Confirmed
<1> QED
  BY <1>5, <1>7, <1>8, <1>9, <1>10, <1>11, <1>12 DEF IInv

\* The clock goes forward, by no more than a write under way allows.
LEMMA TickInv ==
  ASSUME IInv, Tick
  PROVE  IInv'
<1>1. /\ now < MaxTime /\ now' = now + 1 /\ (Writing => now < write.time + MaxStall)
      /\ UNCHANGED << disk, mode, writerVars, uploadVars, record, lost, received, acked, spent >>
  BY DEF Tick
<1>2. now \in 0 .. MaxTime /\ unow \in Nat /\ write.time \in Nat /\ now + 1 \in 0 .. MaxTime
      /\ write.time + MaxStall \in Nat
  BY <1>1, LimitTypes DEF IInv, TypeOK
<1>3. Worse
  BY <1>1 DEF IInv, TypeOK, Worse, SpentType
<1>4. TypeOK'
  BY <1>1, <1>2 DEF IInv, TypeOK, writerVars, uploadVars
<1>5. WrittenInTime'
  <2>1. ClockTrusted' => ClockTrusted
    BY <1>1 DEF ClockTrusted
  <2>2. Writing' => now' <= write'.time + MaxStall
    BY <1>1, <1>2 DEF Writing, writerVars
  <2>3. ClockTrusted => unow' <= now'
    BY <1>1, <1>2 DEF IInv, WrittenInTime, uploadVars
  <2> QED
    BY <1>1, <2>1, <2>2, <2>3 DEF IInv, WrittenInTime, Writing, writerVars, uploadVars
<1>6. Recording /\ ConsentFollowed'
  <2>1. Recording
    BY <1>1, <1>3 DEF Recording, SameEvents, uploadVars
  <2>2. \A n \in Name : Awaiting(n) => Awaiting(n)'
    BY <1>1 DEF Awaiting, writerVars
  <2> QED
    BY <1>1, <2>1, <2>2, ConsentStands DEF Recording, writerVars, uploadVars
<1>7. WriteUnderWay' /\ ActiveFiles' /\ Cycling'
  BY <1>1 DEF IInv, WriteUnderWay, ActiveFiles, Excepted, CountedUpTo, Files, Cycling, Writing,
     Sending, Age, TooLarge, writerVars, uploadVars
<1> QED
  BY <1>4, <1>5, <1>6, <1>7, Recorded DEF IInv

\* The clock is set back: its times are worth nothing any more, and nothing else changes.
LEMMA SetClockBackInv ==
  ASSUME IInv, SetClockBack
  PROVE  IInv'
<1>1. /\ spent' = [spent EXCEPT !.back = @ + 1] /\ now' \in 0 .. MaxTime
      /\ UNCHANGED << disk, mode, writerVars, uploadVars, record, lost, received, acked >>
  BY DEF SetClockBack, Spend
<1>2. spent \in SpentType
  BY DEF IInv, TypeOK, SpentType
<1>3. spent' \in SpentType /\ spent'.faults = spent.faults /\ spent'.restarts = spent.restarts
      /\ spent'.back # 0
  BY <1>1, <1>2 DEF SpentType
<1>4. ~ClockTrusted'
  BY <1>3 DEF ClockTrusted
<1>5. TypeOK'
  BY <1>1, <1>3 DEF IInv, TypeOK, SpentType, writerVars, uploadVars
<1>6. WrittenInTime' /\ NoSilentLoss'
  BY <1>4 DEF WrittenInTime, NoSilentLoss
<1>7. Filed' /\ WriteUnderWay' /\ ActiveFiles' /\ EventLimits' /\ Cycling'
  BY <1>1 DEF IInv, Filed, WriteUnderWay, ActiveFiles, Excepted, CountedUpTo, Files, EventLimits,
     Fits, Cycling, Writing, Sending, Age, TooLarge, writerVars, uploadVars
<1>8. ReadWhole'
  BY <1>1, <1>4 DEF IInv, ReadWhole, Sending, uploadVars
<1>9. ConsentFollowed' /\ Confirmed'
  BY <1>1, <1>3 DEF IInv, ConsentFollowed, ConsentRespected, Awaiting, Confirmed, writerVars,
     uploadVars
<1> QED
  BY <1>5, <1>6, <1>7, <1>8, <1>9 DEF IInv
-----------------------------------------------------------------------------
(* The specification. *)

\* At first there is nothing on disk, and nobody at work.
LEMMA InitInv == Init => IInv
<1> SUFFICES ASSUME Init
             PROVE  IInv
  OBVIOUS
<1> USE DEF Init
<1>1. NoFile \in File /\ NoFile.events = {} /\ ~NoFile.exists /\ ~NoActive.open
  BY DEF NoFile, File, NoActive
<1>2. \A d \in Dir, n \in Name : disk[d][n] = NoFile
  OBVIOUS
<1>3. TypeOK
  <2>1. disk \in [Dir -> [Name -> File]] /\ active \in [Dir -> FileDetails] /\ wsizes \in [Name -> Nat]
    BY <1>1, NoActiveType
  <2>2. write \in [event : Event, dir : Dir, time : 0 .. MaxTime, next : Nat,
                   standing : {"pending", "granted", "refused"}]
    <3>1. (CHOOSE e \in Event : TRUE) \in Event
      BY BytesAssumption
    <3> QED
      BY <3>1, LimitTypes DEF Dir
  <2>3. record \in [Event -> Record] /\ lost \in [Event -> Reason] /\ acked \in [Event -> 0 .. 2]
    BY DEF Record, Reason
  <2> QED
    BY <1>1, <2>1, <2>2, <2>3, LimitTypes DEF TypeOK, FileDetails, Consent
<1>4. Filed
  BY <1>1, <1>2 DEF Filed
<1>5. WriteUnderWay /\ Cycling /\ WrittenInTime
  BY LimitTypes DEF WriteUnderWay, Writing, Cycling, Sending, WrittenInTime
<1>6. ActiveFiles
  BY <1>1 DEF ActiveFiles, Dir
<1>7. EventLimits
  <2>1. Fits({})
    BY NoEvents, LimitTypes DEF Fits
  <2> QED
    BY <1>1, <1>2, <2>1 DEF EventLimits
<1>8. ReadWhole /\ Confirmed
  BY <1>1, <1>2 DEF ReadWhole, Sending, Confirmed
<1>9. NoSilentLoss
  BY DEF NoSilentLoss
<1>10. ConsentFollowed
  BY <1>1, <1>2 DEF ConsentFollowed, ConsentRespected, Dir
<1> QED
  BY <1>3, <1>4, <1>5, <1>6, <1>7, <1>8, <1>9, <1>10 DEF IInv

\* Nothing happens.
LEMMA StutterInv ==
  ASSUME IInv, UNCHANGED vars
  PROVE  IInv'
<1> USE DEF vars, IInv
<1>1. TypeOK' /\ Filed' /\ WriteUnderWay' /\ ActiveFiles' /\ EventLimits'
  BY DEF TypeOK, Filed, WriteUnderWay, ActiveFiles, Excepted, CountedUpTo, Files, EventLimits,
     Fits, Writing, TooLarge
<1>2. WrittenInTime' /\ Cycling' /\ ReadWhole'
  BY DEF WrittenInTime, ClockTrusted, Cycling, ReadWhole, Sending, Writing, Age
<1>3. NoSilentLoss'
  BY StillKept DEF SameEvents
<1>4. ConsentFollowed' /\ Confirmed'
  BY DEF ConsentFollowed, ConsentRespected, Awaiting, Confirmed
<1> QED
  BY <1>1, <1>2, <1>3, <1>4

\* Every step of either thread, of the application and of the clock keeps the invariant.
LEMMA NextInv ==
  ASSUME IInv, [Next]_vars
  PROVE  IInv'
<1>1. CASE StorageStep
  BY <1>1, SetTrackingConsentInv, HandleWriteInv, ListPendingInv, DeletePendingInv,
     MigratePendingInv, ConsentDoneInv, ListForWriteInv, MeasureDirectoryInv, PurgeOldestInv,
     NameFileInv, OpenForWriteInv, WriteEventInv DEF StorageStep
<1>2. CASE UploadStep
  BY <1>2, StartCycleInv, ListStaleInv, EvictStaleInv, EvictDoneInv, ListReadyInv,
     DiscardExpiredInv, ScanDoneInv, ReadBatchInv, PostInv, DeleteBatchInv DEF UploadStep
<1>3. CASE LifecycleStep
  BY <1>3, StartInv, JoinStorageInv, JoinUploadInv, CrashInv DEF LifecycleStep
<1>4. CASE Tick \/ SetClockBack
  BY <1>4, TickInv, SetClockBackInv
<1>5. CASE UNCHANGED vars
  BY <1>5, StutterInv
<1> QED
  BY <1>1, <1>2, <1>3, <1>4, <1>5 DEF Next

\* In every behaviour, with every limit and any troubles, the storage is in order.
THEOREM Invariant == Spec => []IInv
BY InitInv, NextInv, PTL DEF Spec

\* Of the steps that fail or interrupt something, each only adds to the books.
LEMMA FaultsStay ==
  ASSUME TypeOK, [Next]_vars
  PROVE  /\ spent.faults \in Nat /\ (spent'.faults = 0 => spent.faults = 0)
         /\ spent'.faults \in {spent.faults, spent.faults + 1}
<1>1. spent \in SpentType
  BY DEF TypeOK, SpentType
<1>2. CASE UNCHANGED spent
  BY <1>1, <1>2 DEF SpentType
<1>3. CASE \E most : \E kind \in {"faults", "outages", "back", "restarts"} : Spend(kind, most)
  BY <1>1, <1>3 DEF SpentType, Spend
<1>4. CASE StorageStep
  BY <1>2, <1>3, <1>4 DEF StorageStep, SetTrackingConsent, HandleWrite, ListPending, DeletePending,
     MigratePending, ConsentDone, ListForWrite, MeasureDirectory, PurgeOldest, NameFile,
     OpenForWrite, WriteEvent, Works, Fails
<1>5. CASE UploadStep
  BY <1>2, <1>3, <1>5 DEF UploadStep, StartCycle, ListStale, EvictStale, EvictDone, ListReady,
     DiscardExpired, DeleteExpired, ScanDone, ReadBatch, Post, DeleteBatch, Works, Fails, Outage
<1>6. CASE LifecycleStep
  BY <1>2, <1>3, <1>6 DEF LifecycleStep, Start, JoinStorage, JoinUpload, Crash, Interrupt
<1>7. CASE Tick \/ SetClockBack
  BY <1>2, <1>3, <1>7 DEF Tick, SetClockBack
<1>8. CASE UNCHANGED vars
  BY <1>2, <1>8 DEF vars
<1> QED
  BY <1>1, <1>4, <1>5, <1>6, <1>7, <1>8 DEF Next, SpentType

LEMMA OneMoreTime ==
  ASSUME NEW f \in Nat, NEW size \in Nat
  PROVE  f * size \in Nat /\ (f + 1) * size \in Nat /\ (f + 1) * size = f * size + size
OBVIOUS

\* A write that fails adds to a file less than one record; no other step adds anything to
\* what was cut short.
LEMMA TornCountedStays ==
  ASSUME IInv, TornCounted, [Next]_vars
  PROVE  TornCounted'
<1> USE DEF IInv
<1> SUFFICES ASSUME NEW c \in Dir, NEW m \in Name
             PROVE  disk'[c][m].torn <= spent'.faults * MaxEventSize
  BY DEF TornCounted
<1> DEFINE f == spent.faults
           g == spent'.faults
<1>1. f \in Nat /\ g \in {f, f + 1} /\ MaxEventSize \in Nat
  BY FaultsStay, LimitTypes
<1>2. f * MaxEventSize \in Nat /\ (f + 1) * MaxEventSize = f * MaxEventSize + MaxEventSize
  BY <1>1, OneMoreTime
<1>3. \A d \in Dir : disk[d][m] \in File /\ disk[d][m].torn \in Nat
                     /\ disk[d][m].torn <= f * MaxEventSize
  BY DEF TypeOK, TornCounted, File
<1>4. CASE disk'[c][m].torn = 0 \/ \E d \in Dir : disk'[c][m].torn = disk[d][m].torn
  <2>1. disk'[c][m].torn \in Nat /\ disk'[c][m].torn <= f * MaxEventSize
    BY <1>2, <1>3, <1>4
  <2> HIDE DEF f, g
  <2>2. f * MaxEventSize <= g * MaxEventSize /\ g * MaxEventSize \in Nat
    BY <1>1, <1>2, OneMoreTime
  <2> QED
    BY <1>2, <2>1, <2>2 DEF g
<1>5. CASE WriteEvent
  <2> DEFINE d == write.dir
             e == write.event
             n == active[d].name
  <2>1. /\ d \in Dir /\ n \in Name /\ e \in Event /\ ~TooLarge(e)
        /\ disk \in [Dir -> [Name -> File]]
    BY <1>5 DEF WriteEvent, TypeOK, WriteUnderWay, Writing
  <2>2. \/ disk' = disk
        \/ disk' = [disk EXCEPT ![d][n].events = @ \cup {e}]
        \/ /\ Fails("torn")
           /\ \E k \in 1 .. Bytes[{e}] - 1 : disk' = [disk EXCEPT ![d][n].torn = @ + k]
    BY <1>5 DEF WriteEvent
  <2>3. disk'[c][m].torn = disk[c][m].torn
        \/ /\ Fails("torn")
           /\ \E k \in 1 .. Bytes[{e}] - 1 : disk'[c][m].torn = disk[c][m].torn + k
    <3> HIDE DEF d, e, n
    <3>1. CASE disk' = disk
      BY <3>1
    <3>2. CASE disk' = [disk EXCEPT ![d][n].events = @ \cup {e}]
      BY <2>1, <3>2, <1>3 DEF File
    <3>3. ASSUME NEW k \in 1 .. Bytes[{e}] - 1, disk' = [disk EXCEPT ![d][n].torn = @ + k]
          PROVE  disk'[c][m].torn \in {disk[c][m].torn, disk[c][m].torn + k}
      BY <2>1, <3>3, <1>3 DEF File
    <3> QED
      BY <2>2, <3>1, <3>2, <3>3
  <2>4. ASSUME Fails("torn"), NEW k \in 1 .. Bytes[{e}] - 1, disk'[c][m].torn = disk[c][m].torn + k
        PROVE  disk'[c][m].torn <= g * MaxEventSize
    <3>1. g = f + 1
      BY <2>4, FaultSpent DEF TypeOK, SpentType
    <3>2. Bytes[{e}] \in Nat /\ Bytes[{e}] <= MaxEventSize
      BY <2>1, FitsAlone
    <3>3. disk[c][m].torn \in Nat /\ disk[c][m].torn <= f * MaxEventSize
      BY <1>3
    <3> HIDE DEF f, g, e
    <3>4. k \in Nat /\ k <= MaxEventSize
      BY <3>2, <1>1
    <3>5. disk'[c][m].torn <= f * MaxEventSize + MaxEventSize
      BY <2>4, <1>1, <1>2, <3>3, <3>4
    <3> QED
      BY <1>2, <3>1, <3>5
  <2> QED
    BY <1>4, <2>3, <2>4
<1>6. CASE StorageStep /\ ~WriteEvent
  <2>1. \/ disk' = disk
        \/ \E d \in Dir, n \in Name : Unlink(d, n)
        \/ \E n \in Name : disk' = [disk EXCEPT !["pending"][n] = NoFile,
                                             !["granted"][n] = disk["pending"][n]]
        \/ \E d \in Dir, n \in Name :
             disk' = [disk EXCEPT ![d][n] = IF @.exists THEN @ ELSE NewFile]
    BY <1>6, NextName DEF StorageStep, SetTrackingConsent, HandleWrite, ListPending, DeletePending,
       MigratePending, ConsentDone, ListForWrite, MeasureDirectory, PurgeOldest, NameFile,
       OpenForWrite, TypeOK, Dir
  <2>2. disk \in [Dir -> [Name -> File]] /\ NoFile.torn = 0 /\ NewFile.torn = 0
        /\ "pending" \in Dir /\ "granted" \in Dir
    BY DEF TypeOK, NoFile, NewFile, Dir
  <2>3. disk'[c][m].torn = 0 \/ \E d \in Dir : disk'[c][m].torn = disk[d][m].torn
    <3>1. CASE disk' = disk
      BY <3>1
    <3>2. ASSUME NEW d \in Dir, NEW n \in Name, Unlink(d, n)
          PROVE  disk'[c][m] = disk[c][m] \/ disk'[c][m] = NoFile
      BY <2>2, <3>2 DEF Unlink
    <3>3. ASSUME NEW n \in Name, disk' = [disk EXCEPT !["pending"][n] = NoFile,
                                             !["granted"][n] = disk["pending"][n]]
          PROVE  disk'[c][m] \in {NoFile, disk[c][m], disk["pending"][m]}
      BY <2>2, <3>3 DEF Dir
    <3>4. ASSUME NEW d \in Dir, NEW n \in Name,
                 disk' = [disk EXCEPT ![d][n] = IF @.exists THEN @ ELSE NewFile]
          PROVE  disk'[c][m] = disk[c][m] \/ disk'[c][m] = NewFile
      BY <2>2, <3>4
    <3> QED
      BY <2>1, <2>2, <3>1, <3>2, <3>3, <3>4
  <2> QED
    BY <1>4, <2>3
<1>7. CASE UploadStep \/ LifecycleStep \/ Tick \/ SetClockBack \/ UNCHANGED vars
  <2>1. disk' = disk \/ \E d \in Dir, n \in Name : Unlink(d, n)
    BY <1>7, NextName DEF UploadStep, StartCycle, ListStale, EvictStale, EvictDone, ListReady,
       DiscardExpired, DeleteExpired, ScanDone, ReadBatch, Post, DeleteBatch, ConsumeBatch,
       LifecycleStep, Start, JoinStorage, JoinUpload, Crash, Tick, SetClockBack, vars, Dir,
       Cycling, Sending
  <2>2. disk \in [Dir -> [Name -> File]] /\ NoFile.torn = 0
    BY DEF TypeOK, NoFile
  <2>3. disk'[c][m] = disk[c][m] \/ disk'[c][m] = NoFile
    BY <2>1, <2>2 DEF Unlink
  <2> QED
    BY <1>4, <2>2, <2>3
<1> QED
  BY <1>5, <1>6, <1>7 DEF Next

\* Then no file is larger on disk than BatchLimits says.
LEMMA LimitsFollow ==
  ASSUME IInv, TornCounted
  PROVE  BatchLimits
<1> SUFFICES ASSUME NEW d \in Dir, NEW n \in Name, Fits(disk[d][n].events)
             PROVE  WithinLimits(disk[d][n])
  BY DEF BatchLimits, EventLimits, IInv
<1> DEFINE f == disk[d][n]
<1>1. f \in File /\ spent.faults \in Nat
  BY DEF IInv, TypeOK
<1>2. f.torn \in Nat /\ Bytes[f.events] \in Nat
  BY <1>1, BytesAssumption DEF File
<1>3. f.torn <= spent.faults * MaxEventSize /\ spent.faults * MaxEventSize \in Nat
  BY <1>1, OneMoreTime, LimitTypes DEF TornCounted
<1>4. Bytes[f.events] <= MaxFileSize /\ Cardinality(f.events) <= MaxWrites
  BY DEF Fits
<1>5. f.torn <= Excess(f) /\ Excess(f) \in Nat
  BY <1>2, <1>3 DEF Excess
<1> HIDE DEF f
<1>6. Size(f) <= MaxFileSize + Excess(f)
  BY <1>2, <1>4, <1>5, LimitTypes DEF Size
<1> QED
  BY <1>4, <1>6 DEF WithinLimits, f

LEMMA AlwaysTornCounted == Spec => []TornCounted
<1>1. Init => TornCounted
  <2> SUFFICES ASSUME Init, NEW d \in Dir, NEW n \in Name
               PROVE  disk[d][n].torn <= spent.faults * MaxEventSize
    BY DEF TornCounted
  <2>1. disk[d][n].torn = 0 /\ spent.faults = 0
    BY DEF Init, NoFile
  <2> QED
    BY <2>1, LimitTypes
<1>2. IInv /\ TornCounted /\ [Next]_vars => TornCounted'
  BY TornCountedStays
<1> QED
  BY <1>1, <1>2, Invariant, PTL DEF Spec

\* FilesInOrder: whatever fails or is cut short, a file BatchWriter fills is larger on disk
\* than max_file_size by less than one record for each write that failed half-way, and the
\* one it has open is too young for the upload cycle.
THEOREM FilesKeptInOrder == Spec => []FilesInOrder
<1>1. IInv /\ TornCounted => FilesInOrder
  BY KeptApart, LimitsFollow DEF IInv, FilesInOrder
<1> QED
  BY <1>1, Invariant, AlwaysTornCounted, PTL

\* NoSilentLoss: an event BatchWriter reported as written is on disk until the server
\* has confirmed it or a rule of the storage gives it up.
THEOREM NothingIsLost == Spec => []NoSilentLoss
<1>1. IInv => NoSilentLoss
  BY DEF IInv
<1> QED
  BY <1>1, Invariant, PTL

\* ConsentKept: unless a file operation failed, _run_upload_cycle sends no event
\* that was refused, or recorded without consent.
THEOREM ConsentIsKept == Spec => []ConsentKept
<1>1. IInv => ConsentKept
  BY DEF IInv, ConsentFollowed, ConsentKept
<1> QED
  BY <1>1, Invariant, PTL

\* ConfirmedOnce: a confirmed event is not uploaded again, unless a crash, a stop or a
\* failed call keeps _run_upload_cycle from deleting its batch.
THEOREM ConfirmedOnlyOnce == Spec => []ConfirmedOnce
<1>1. IInv => ConfirmedOnce
  BY DEF IInv, Confirmed, ConfirmedOnce
<1> QED
  BY <1>1, Invariant, PTL

\* DeletesOnlyRead: whatever is in the file _run_upload_cycle deletes after a batch,
\* it has read, but for a file that a grant of consent renamed to that name meanwhile.
THEOREM DeletesWhatItRead == Spec => DeletesOnlyRead
<1> DEFINE Read == ClockTrusted /\ upc = "delete" /\ ~disk'["granted"][Min(unames)].exists
                     => \A e \in disk["granted"][Min(unames)].events :
                          e \in batch.events \/ lost[e] = "overtaken"
<1>1. IInv => Read
  BY DEF IInv, ReadWhole, Sending
<1>2. IInv /\ [Next]_vars => [Read]_vars
  BY <1>1
<1> QED
  BY <1>2, Invariant, PTL DEF Spec, DeletesOnlyRead

-----------------------------------------------------------------------------
(* Sums over sets of files, and the quota of the pending directory. *)

\* A family of finite sets that is not empty has a member with no smaller one in it.
LEMMA SmallestSet ==
  ASSUME NEW N, IsFiniteSet(N), NEW F \in SUBSET (SUBSET N), F # {}
  PROVE  \E s \in F : \A x \in s : s \ {x} \notin F
<1>1. IsWellFoundedOn(StrictSubsetOrdering(N), FiniteSubsetsOf(N))
  BY FS_StrictSubsetOrderingWellFounded
<1>2. F \subseteq FiniteSubsetsOf(N)
  BY FS_Subset DEF FiniteSubsetsOf
<1>3. PICK s \in F : \A y \in F : ~ (<< y, s >> \in StrictSubsetOrdering(N))
  BY <1>1, <1>2, WFMin
<1>4. ASSUME NEW x \in s, s \ {x} \in F
      PROVE  FALSE
  <2>1. << s \ {x}, s >> \in StrictSubsetOrdering(N)
    BY <1>4 DEF StrictSubsetOrdering
  <2> QED
    BY <1>3, <1>4, <2>1
<1> QED
  BY <1>3, <1>4

\* What the members of S weigh together: as much as there are units of weight.
Units(b, S)  == {p \in S \X Nat : p[2] \in 1 .. b[p[1]]}
Weight(b, S) == Cardinality(Units(b, S))

LEMMA OneMoreUnits ==
  ASSUME NEW b, NEW S, NEW x \in S, b[x] \in Nat
  PROVE  /\ Units(b, S) = Units(b, S \ {x}) \union ({x} \X (1 .. b[x]))
         /\ Units(b, S \ {x}) \intersect ({x} \X (1 .. b[x])) = {}
         /\ IsFiniteSet({x} \X (1 .. b[x]))
         /\ Cardinality({x} \X (1 .. b[x])) = b[x]
<1>1. b[x] \in Nat
  OBVIOUS
<1>2. IsFiniteSet(1 .. b[x]) /\ Cardinality(1 .. b[x]) = b[x]
  BY <1>1, FS_Interval
<1>3. IsFiniteSet({x}) /\ Cardinality({x}) = 1
  BY FS_Singleton
<1>4. /\ IsFiniteSet({x} \X (1 .. b[x]))
      /\ Cardinality({x} \X (1 .. b[x])) = 1 * b[x]
  BY <1>2, <1>3, FS_Product
<1>5. Units(b, S) = Units(b, S \ {x}) \union ({x} \X (1 .. b[x]))
  BY <1>1 DEF Units
<1>6. Units(b, S \ {x}) \intersect ({x} \X (1 .. b[x])) = {}
  BY DEF Units
<1>7. Cardinality({x} \X (1 .. b[x])) = b[x]
  BY <1>1, <1>4
<1> QED
  BY <1>4, <1>5, <1>6, <1>7

LEMMA UnitsFinite ==
  ASSUME NEW N, IsFiniteSet(N), NEW b \in [N -> Nat], NEW S \in SUBSET N
  PROVE  IsFiniteSet(Units(b, S)) /\ Weight(b, S) \in Nat
<1> DEFINE F == {s \in SUBSET N : ~ IsFiniteSet(Units(b, s))}
<1>1. SUFFICES ASSUME F # {} PROVE FALSE
  BY FS_CardinalityType DEF Weight
<1>2. PICK s \in F : \A x \in s : s \ {x} \notin F
  BY <1>1, SmallestSet
<1>3. CASE s = {}
  <2>1. Units(b, s) = {}
    BY <1>3 DEF Units
  <2> QED
    BY <1>2, <2>1, FS_EmptySet
<1>4. ASSUME NEW x \in s
      PROVE  FALSE
  <2>1. IsFiniteSet(Units(b, s \ {x}))
    BY <1>2, <1>4
  <2>2. /\ Units(b, s) = Units(b, s \ {x}) \union ({x} \X (1 .. b[x]))
        /\ IsFiniteSet({x} \X (1 .. b[x]))
    <3>1. b[x] \in Nat
      BY <1>2, <1>4
    <3> QED
      BY <1>4, <3>1, OneMoreUnits
  <2> DEFINE V == {x} \X (1 .. b[x])
  <2> HIDE DEF V
  <2>3. IsFiniteSet(Units(b, s \ {x}) \union V)
    BY <2>1, <2>2, FS_Union DEF V
  <2>4. IsFiniteSet(Units(b, s))
    BY <2>2, <2>3 DEF V
  <2> QED
    BY <1>2, <2>4
<1> QED
  BY <1>3, <1>4

\* What one member adds.
LEMMA WeightSplits ==
  ASSUME NEW N, IsFiniteSet(N), NEW b \in [N -> Nat], NEW S \in SUBSET N, NEW x \in S
  PROVE  /\ Weight(b, S) = b[x] + Weight(b, S \ {x})
         /\ Weight(b, S) \in Nat /\ Weight(b, S \ {x}) \in Nat
<1>1. /\ IsFiniteSet(Units(b, S)) /\ Weight(b, S) \in Nat
      /\ IsFiniteSet(Units(b, S \ {x})) /\ Weight(b, S \ {x}) \in Nat
  BY UnitsFinite
<1>5. b[x] \in Nat
  OBVIOUS
<1> DEFINE U == Units(b, S \ {x})
           V == {x} \X (1 .. b[x])
<1> HIDE DEF U, V
<1>2. /\ Units(b, S) = U \union V /\ U \intersect V = {}
      /\ IsFiniteSet(V) /\ Cardinality(V) = b[x]
  <2>1. /\ Units(b, S) = Units(b, S \ {x}) \union ({x} \X (1 .. b[x]))
        /\ Units(b, S \ {x}) \intersect ({x} \X (1 .. b[x])) = {}
        /\ IsFiniteSet({x} \X (1 .. b[x]))
        /\ Cardinality({x} \X (1 .. b[x])) = b[x]
    BY <1>5, OneMoreUnits
  <2> QED
    BY <2>1 DEF U, V
<1>6. IsFiniteSet(U) /\ Cardinality(U) \in Nat /\ Weight(b, S) \in Nat
  BY <1>1 DEF U, Weight
<1>3. Cardinality(U \union V) = Cardinality(U) + Cardinality(V) - Cardinality(U \intersect V)
  BY <1>2, <1>6, FS_Union
<1>4. Cardinality(U \intersect V) = 0
  BY <1>2, FS_EmptySet
<1> QED
  BY <1>1, <1>2, <1>3, <1>4, <1>5, <1>6 DEF U, Weight

LEMMA WeightOfNone ==
  ASSUME NEW b
  PROVE  Weight(b, {}) = 0
<1>1. Units(b, {}) = {}
  BY DEF Units
<1> QED
  BY <1>1, FS_EmptySet DEF Weight

\* More members and heavier ones weigh no less.
LEMMA WeightGrows ==
  ASSUME NEW N, IsFiniteSet(N), NEW b \in [N -> Nat], NEW c \in [N -> Nat],
         NEW S \in SUBSET N, NEW T \in SUBSET N,
         \A x \in S : b[x] > 0 => x \in T /\ b[x] <= c[x]
  PROVE  Weight(b, S) <= Weight(c, T)
<1>1. IsFiniteSet(Units(c, T))
  BY UnitsFinite
<1>2. ASSUME NEW p \in Units(b, S)
      PROVE  p \in Units(c, T)
  <2>1. p \in S \X Nat /\ p[2] \in 1 .. b[p[1]]
    BY <1>2 DEF Units
  <2>2. p[1] \in S /\ b[p[1]] \in Nat /\ c[p[1]] \in Nat /\ p[2] \in Nat
    BY <2>1
  <2>3. p[1] \in T /\ b[p[1]] <= c[p[1]]
    BY <2>1, <2>2
  <2> QED
    BY <2>1, <2>2, <2>3 DEF Units
<1> QED
  BY <1>1, <1>2, FS_Subset DEF Weight

\* A fold that adds up the weights, in whatever order CHOOSE takes them, finds just that.
LEMMA FoldWeighs ==
  ASSUME NEW N, IsFiniteSet(N), NEW b \in [N -> Nat], NEW S \in SUBSET N, NEW h,
         \A s \in SUBSET S : h[s] = IF s = {} THEN 0
                                    ELSE b[CHOOSE x \in s : TRUE] + h[s \ {CHOOSE x \in s : TRUE}]
  PROVE  h[S] = Weight(b, S)
<1> DEFINE F == {s \in SUBSET S : h[s] # Weight(b, s)}
<1>1. SUFFICES ASSUME F # {} PROVE FALSE
  OBVIOUS
<1>2. IsFiniteSet(S)
  BY FS_Subset
<1>3. PICK s \in F : \A x \in s : s \ {x} \notin F
  BY <1>1, <1>2, SmallestSet
<1>4. s # {}
  BY <1>3, WeightOfNone
<1> DEFINE y == CHOOSE x \in s : TRUE
<1>5. y \in s
  BY <1>4
<1>6. h[s] = b[y] + h[s \ {y}]
  BY <1>3, <1>4
<1> HIDE DEF y
<1>7. h[s \ {y}] = Weight(b, s \ {y})
  BY <1>3, <1>5
<1>8. Weight(b, s) = b[y] + Weight(b, s \ {y})
  BY <1>3, <1>5, WeightSplits
<1> QED
  BY <1>3, <1>6, <1>7, <1>8

LEMMA SizeOnDiskWeighs ==
  ASSUME wsizes \in [Name -> Nat], IsFiniteSet(Name)
  PROVE  SizeOnDisk = Weight(wsizes, Name)
<1> DEFINE R(h) == h = [s \in SUBSET Name |-> IF s = {} THEN 0
                          ELSE wsizes[CHOOSE x \in s : TRUE] + h[s \ {CHOOSE x \in s : TRUE}]]
           g == [s \in SUBSET Name |-> Weight(wsizes, s)]
<1>1. SizeOnDisk = (CHOOSE h : R(h))[Name]
  BY DEF SizeOnDisk, MapThenSumSet, MapThenFoldSet
<1>2. R(g)
  <2>1. ASSUME NEW s \in SUBSET Name
        PROVE  g[s] = IF s = {} THEN 0
                      ELSE wsizes[CHOOSE x \in s : TRUE] + g[s \ {CHOOSE x \in s : TRUE}]
    <3>1. CASE s = {}
      BY <3>1, WeightOfNone
    <3>2. CASE s # {}
      <4> DEFINE y == CHOOSE x \in s : TRUE
      <4>1. y \in s /\ s \ {y} \in SUBSET Name
        BY <3>2
      <4> HIDE DEF y
      <4>2. g[s] = wsizes[y] + g[s \ {y}]
        BY <4>1, WeightSplits
      <4> QED
        BY <3>2, <4>2 DEF y
    <3> QED
      BY <3>1, <3>2
  <2> QED
    BY <2>1
<1>3. R(CHOOSE h : R(h))
  BY <1>2
<1> DEFINE f == CHOOSE h : R(h)
<1> HIDE DEF f
<1>4. \A s \in SUBSET Name : f[s] = IF s = {} THEN 0
                    ELSE wsizes[CHOOSE x \in s : TRUE] + f[s \ {CHOOSE x \in s : TRUE}]
  BY <1>3 DEF f
<1>5. f[Name] = Weight(wsizes, Name)
  BY <1>4, FoldWeighs
<1> QED
  BY <1>1, <1>5 DEF f

\* The bytes of each file of a directory; a name without a file has none.
Contents(d) == [n \in Name |-> Bytes[disk[d][n].events]]

LEMMA NamesFinite == IsFiniteSet(Name)
<1>1. MaxTime \in Nat /\ MaxProbes \in Nat
  BY AgesAssumption, LimitsAssumption
<1> QED
  BY <1>1, FS_Interval DEF Name

LEMMA ContentsType ==
  ASSUME TypeOK, NEW d \in Dir
  PROVE  Contents(d) \in [Name -> Nat]
<1>1. \A n \in Name : disk[d][n].events \in SUBSET Event
  BY DEF TypeOK, File
<1> QED
  BY <1>1, BytesAssumption DEF Contents

\* With no failed call, GetFileSize finds whole records and nothing else.
LEMMA NothingTorn ==
  ASSUME TypeOK, TornCounted, spent.faults = 0, NEW d \in Dir, NEW n \in Name
  PROVE  Size(disk[d][n]) = Bytes[disk[d][n].events]
<1>1. disk[d][n] \in File
  BY DEF TypeOK
<1>2. disk[d][n].torn = 0
  <2>1. disk[d][n].torn <= 0 * MaxEventSize /\ disk[d][n].torn \in Nat
    BY <1>1 DEF TornCounted, File
  <2> QED
    BY <2>1, LimitTypes
<1>3. Bytes[disk[d][n].events] \in Nat
  BY <1>1, BytesAssumption DEF File
<1> QED
  BY <1>2, <1>3 DEF Size

LEMMA DirectoryWeighs ==
  ASSUME TypeOK, TornCounted, spent.faults = 0, NEW d \in Dir
  PROVE  DirectoryBytes(d) = Weight(Contents(d), Files(d))
<1> DEFINE F == Files(d)
           b == Contents(d)
           R(h) == h = [s \in SUBSET F |-> IF s = {} THEN 0
                          ELSE Size(disk[d][CHOOSE x \in s : TRUE]) + h[s \ {CHOOSE x \in s : TRUE}]]
           g == [s \in SUBSET F |-> Weight(b, s)]
<1>1. DirectoryBytes(d) = (CHOOSE h : R(h))[F]
  BY DEF DirectoryBytes, MapThenSumSet, MapThenFoldSet
<1>2. F \in SUBSET Name /\ b \in [Name -> Nat] /\ IsFiniteSet(Name)
  BY ContentsType, NamesFinite DEF Files
<1>3. \A n \in Name : b[n] = Size(disk[d][n])
  BY NothingTorn DEF Contents
<1> HIDE DEF F, b
<1>4. R(g)
  <2>1. ASSUME NEW s \in SUBSET F
        PROVE  g[s] = IF s = {} THEN 0
                      ELSE Size(disk[d][CHOOSE x \in s : TRUE]) + g[s \ {CHOOSE x \in s : TRUE}]
    <3>1. CASE s = {}
      BY <3>1, WeightOfNone
    <3>2. CASE s # {}
      <4> DEFINE y == CHOOSE x \in s : TRUE
      <4>1. y \in s /\ s \ {y} \in SUBSET F /\ y \in Name
        BY <3>2, <1>2
      <4> HIDE DEF y
      <4>2. g[s] = b[y] + g[s \ {y}]
        BY <4>1, <1>2, WeightSplits
      <4> QED
        BY <3>2, <4>1, <4>2, <1>3 DEF y
    <3> QED
      BY <3>1, <3>2
  <2> QED
    BY <2>1
<1>5. R(CHOOSE h : R(h))
  BY <1>4
<1> DEFINE f == CHOOSE h : R(h)
<1> HIDE DEF f
<1>6. \A s \in SUBSET F : f[s] = IF s = {} THEN 0
                    ELSE Size(disk[d][CHOOSE x \in s : TRUE]) + f[s \ {CHOOSE x \in s : TRUE}]
  BY <1>5 DEF f
<1>7. ASSUME NEW s \in SUBSET F
      PROVE  f[s] = IF s = {} THEN 0
                    ELSE b[CHOOSE x \in s : TRUE] + f[s \ {CHOOSE x \in s : TRUE}]
  <2>1. s # {} => (CHOOSE x \in s : TRUE) \in Name
    BY <1>2
  <2> QED
    BY <1>3, <1>6, <2>1
<1>8. f[F] = Weight(b, F)
  BY <1>2, <1>7, FoldWeighs
<1> QED
  BY <1>1, <1>8 DEF f, F, b

\* What the quota of the pending directory rests on, while no file operation has failed:
\* all of its files but the one BatchWriter appends to are within the quota, and what
\* PurgeDirectoryIfNeeded measured is no less than what is there.
QuotaKept ==
  spent.faults = 0 =>
    /\ Weight(Contents("pending"), Name) <= MaxDirSize + MaxFileSize
    /\ active["pending"].open =>
         Weight(Contents("pending"), Name \ {active["pending"].name}) <= MaxDirSize
    /\ Writing => write.next = 0
    /\ wpc = "purge" /\ write.dir = "pending" =>
         \A n \in Name : Contents("pending")[n] <= wsizes[n]

\* The quota bounds the files there are.
LEMMA QuotaBounds ==
  ASSUME IInv, TornCounted, QuotaKept
  PROVE  PendingQuota
<1> SUFFICES ASSUME spent.faults = 0
             PROVE  DirectoryBytes("pending") <= MaxDirSize + MaxFileSize
  BY DEF PendingQuota
<1> DEFINE b == Contents("pending")
<1>1. b \in [Name -> Nat] /\ IsFiniteSet(Name) /\ Files("pending") \in SUBSET Name
  BY ContentsType, NamesFinite DEF IInv, Dir, Files
<1>2. DirectoryBytes("pending") = Weight(b, Files("pending"))
  BY DirectoryWeighs DEF IInv, Dir
<1> HIDE DEF b
<1>3. Weight(b, Files("pending")) <= Weight(b, Name)
  BY <1>1, WeightGrows
<1>4. Weight(b, Name) \in Nat /\ Weight(b, Files("pending")) \in Nat
  BY <1>1, UnitsFinite
<1> QED
  BY <1>2, <1>3, <1>4, LimitTypes, LimitsAssumption DEF QuotaKept, b

\* Files that are deleted, and a file that is no longer appended to, keep it.
LEMMA LighterKeepsQuota ==
  ASSUME IInv, TypeOK', QuotaKept, spent'.faults = 0 => spent.faults = 0,
         \A n \in Name : Contents("pending")'[n] <= Contents("pending")[n],
         active'["pending"] = active["pending"] \/ ~active'["pending"].open,
         spent'.faults = 0 /\ Writing' => write'.next = 0,
         spent'.faults = 0 /\ wpc' = "purge" /\ write'.dir = "pending" =>
           \A n \in Name : Contents("pending")'[n] <= wsizes'[n]
  PROVE  QuotaKept'
<1> SUFFICES ASSUME spent'.faults = 0 PROVE QuotaKept'
  BY DEF QuotaKept
<1> DEFINE b == Contents("pending")
           c == b'
<1>1. b \in [Name -> Nat] /\ c \in [Name -> Nat] /\ IsFiniteSet(Name)
  <2>1. b \in [Name -> Nat]
    BY ContentsType DEF IInv, Dir
  <2>2. c \in [Name -> Nat]
    <3>1. \A n \in Name : disk'["pending"][n].events \in SUBSET Event
      BY DEF TypeOK, File, Dir
    <3> QED
      BY <3>1, BytesAssumption DEF Contents
  <2> QED
    BY <2>1, <2>2, NamesFinite
<1>2. \A n \in Name : c[n] <= b[n]
  OBVIOUS
<1> HIDE DEF b, c
<1>3. ASSUME NEW S \in SUBSET Name
      PROVE  Weight(c, S) <= Weight(b, S) /\ Weight(c, S) \in Nat /\ Weight(b, S) \in Nat
  BY <1>1, <1>2, UnitsFinite, WeightGrows
<1>4. Weight(c, Name) <= MaxDirSize + MaxFileSize
  BY <1>3, LimitTypes, LimitsAssumption DEF QuotaKept, b
<1>5. active'["pending"].open => Weight(c, Name \ {active'["pending"].name}) <= MaxDirSize
  BY <1>3, LimitTypes, LimitsAssumption DEF QuotaKept, b
<1> QED
  BY <1>4, <1>5 DEF QuotaKept, c, b

\* What is not there does not weigh more than what was.
LEMMA GoneIsLighter ==
  ASSUME TypeOK, NEW n \in Name,
         disk'["pending"][n].events = disk["pending"][n].events \/ disk'["pending"][n] = NoFile
  PROVE  Contents("pending")'[n] <= Contents("pending")[n]
<1>1. disk["pending"][n].events \in SUBSET Event
  BY DEF TypeOK, File, Dir
<1>2. Bytes[disk["pending"][n].events] \in Nat /\ Bytes[{}] = 0
  BY <1>1, BytesAssumption
<1>3. /\ Contents("pending")'[n] = Bytes[disk'["pending"][n].events]
      /\ Contents("pending")[n] = Bytes[disk["pending"][n].events]
  BY DEF Contents
<1> QED
  BY <1>2, <1>3 DEF NoFile

\* Steps of the upload thread, of the application and of the clock.
LEMMA OthersKeepQuota ==
  ASSUME IInv, TypeOK', QuotaKept, [Next]_vars,
         UploadStep \/ LifecycleStep \/ Tick \/ SetClockBack \/ UNCHANGED vars
  PROVE  QuotaKept'
<1> USE DEF IInv
<1>1. spent'.faults = 0 => spent.faults = 0
  BY FaultsStay
<1>2. ASSUME NEW n \in Name
      PROVE  disk'["pending"][n] = disk["pending"][n] \/ disk'["pending"][n] = NoFile
  <2>1. CASE UploadStep
    BY <2>1 DEF UploadStep, StartCycle, ListStale, EvictStale, EvictDone, ListReady, DiscardExpired,
       DeleteExpired, ScanDone, ReadBatch, Post, DeleteBatch, ConsumeBatch, Unlink, TypeOK, Dir
  <2>2. CASE LifecycleStep
    BY <2>2 DEF LifecycleStep, Start, JoinStorage, JoinUpload, Crash
  <2> QED
    BY <2>1, <2>2 DEF Tick, SetClockBack, vars
<1>3. \A n \in Name : Contents("pending")'[n] <= Contents("pending")[n]
  BY <1>2, GoneIsLighter
<1>4. CASE Crash
  <2>1. ~active'["pending"].open /\ ~Writing' /\ wpc' # "purge"
    BY <1>4 DEF Crash, NoActive, Writing, Dir
  <2> QED
    BY <1>1, <1>3, <2>1, LighterKeepsQuota
<1>5. CASE ~Crash
  <2>1. UNCHANGED << active, wpc, write, wsizes >>
    BY <1>5 DEF UploadStep, StartCycle, ListStale, EvictStale, EvictDone, ListReady, DiscardExpired,
       ScanDone, ReadBatch, Post, DeleteBatch, LifecycleStep, Start, JoinStorage, JoinUpload,
       Tick, SetClockBack, vars, writerVars
  <2>2. Contents("pending") \in [Name -> Nat] /\ Contents("pending")' \in [Name -> Nat]
    <3>1. \A n \in Name : disk'["pending"][n].events \in SUBSET Event
      BY DEF TypeOK, File, Dir
    <3> QED
      BY <3>1, BytesAssumption, ContentsType DEF Contents, Dir
  <2>3. ASSUME wpc' = "purge", write'.dir = "pending", spent'.faults = 0, NEW n \in Name
        PROVE  Contents("pending")'[n] <= wsizes'[n]
    <3>1. Contents("pending")[n] <= wsizes[n] /\ wsizes' = wsizes /\ wsizes[n] \in Nat
      BY <1>1, <2>1, <2>3 DEF QuotaKept, TypeOK
    <3> QED
      BY <1>3, <2>2, <3>1
  <2>4. spent'.faults = 0 /\ Writing' => write'.next = 0
    BY <1>1, <2>1 DEF QuotaKept, Writing
  <2> QED
    BY <1>1, <1>3, <2>1, <2>3, <2>4, LighterKeepsQuota
<1> QED
  BY <1>4, <1>5

\* Steps of the storage thread that touch no file that is written to.
LEMMA QuietStorageKeepsQuota ==
  ASSUME IInv, TypeOK', QuotaKept, [Next]_vars,
         \/ \E v \in Consent : SetTrackingConsent(v)
         \/ \E e \in Event, bypass \in BOOLEAN : HandleWrite(e, bypass)
         \/ ListPending \/ DeletePending \/ MigratePending \/ ConsentDone \/ ListForWrite
  PROVE  QuotaKept'
<1> USE DEF IInv
<1>1. spent'.faults = 0 => spent.faults = 0
  BY FaultsStay
<1>2. ASSUME NEW n \in Name
      PROVE  disk'["pending"][n] = disk["pending"][n] \/ disk'["pending"][n] = NoFile
  BY DEF SetTrackingConsent, HandleWrite, ListPending, DeletePending, MigratePending, ConsentDone,
     ListForWrite, Unlink, TypeOK, Dir
<1>3. \A n \in Name : Contents("pending")'[n] <= Contents("pending")[n]
  BY <1>2, GoneIsLighter
<1>4. active'["pending"] = active["pending"] \/ ~active'["pending"].open
  BY DEF SetTrackingConsent, HandleWrite, ListPending, DeletePending, MigratePending, ConsentDone,
     ListForWrite, Deactivate, NoActive, TypeOK, Dir
<1>5. wpc' # "purge"
  BY DEF SetTrackingConsent, HandleWrite, ListPending, DeletePending, MigratePending, ConsentDone,
     ListForWrite, DropEvent
<1>6. spent'.faults = 0 /\ Writing' => write'.next = 0
  <2>1. (Writing /\ UNCHANGED write) \/ ~Writing' \/ write'.next = 0
    BY DEF SetTrackingConsent, HandleWrite, ListPending, DeletePending, MigratePending, ConsentDone,
       ListForWrite, Writing, DropEvent
  <2> QED
    BY <1>1, <2>1 DEF QuotaKept
<1> QED
  BY <1>1, <1>3, <1>4, <1>5, <1>6, LighterKeepsQuota

\* What GetFileSize says of the listed files is what they hold.
LEMMA MeasureKeepsQuota ==
  ASSUME IInv, TornCounted, TypeOK', QuotaKept, [Next]_vars, MeasureDirectory
  PROVE  QuotaKept'
<1> USE DEF IInv
<1>1. spent'.faults = 0 => spent.faults = 0
  BY FaultsStay
<1>2. UNCHANGED << disk, active, write >> /\ Writing /\ wpc = "measure"
  BY DEF MeasureDirectory, Writing
<1>3. /\ Contents("pending")' = Contents("pending")
      /\ Contents("pending") \in [Name -> Nat]
  BY <1>2, ContentsType DEF Contents, Dir
<1>4. ASSUME write.dir = "pending", spent.faults = 0, NEW n \in Name
      PROVE  wsizes'[n] = Contents("pending")[n]
  <2>1. CASE n \in wnames
    BY <1>4, <2>1, NothingTorn DEF MeasureDirectory, Contents, Dir
  <2>2. CASE n \notin wnames
    <3>1. ~disk["pending"][n].exists
      BY <1>2, <1>4, <2>2 DEF ActiveFiles, Files
    <3>2. disk["pending"][n].events = {}
      BY <3>1 DEF Filed, Dir
    <3> QED
      BY <1>4, <2>2, <3>2, BytesAssumption DEF MeasureDirectory, Contents
  <2> QED
    BY <2>1, <2>2
<1>5. spent'.faults = 0 /\ Writing' => write'.next = 0
  BY <1>1, <1>2 DEF QuotaKept
<1>6. \A n \in Name : Contents("pending")'[n] <= Contents("pending")[n]
  BY <1>3
<1>7. spent'.faults = 0 /\ write'.dir = "pending" => \A n \in Name : Contents("pending")'[n] <= wsizes'[n]
  BY <1>1, <1>2, <1>3, <1>4
<1> QED
  BY <1>1, <1>2, <1>5, <1>6, <1>7, LighterKeepsQuota

\* A file that PurgeDirectoryIfNeeded deletes counts no more.
LEMMA PurgeKeepsQuota ==
  ASSUME IInv, TypeOK', QuotaKept, [Next]_vars, PurgeOldest
  PROVE  QuotaKept'
<1> USE DEF IInv
<1> DEFINE n == Min(Untried)
<1>1. spent'.faults = 0 => spent.faults = 0
  BY FaultsStay
<1>2. n \in Name /\ wpc = "purge" /\ wpc' = "purge" /\ UNCHANGED active /\ write.dir \in Dir
  BY NextName DEF PurgeOldest, TypeOK
<1>3. CASE Fails("delete")
  <2>1. spent'.faults = spent.faults + 1 /\ spent.faults \in Nat
    BY <1>3, FaultSpent DEF TypeOK, SpentType
  <2> QED
    BY <2>1 DEF QuotaKept
<1>4. CASE /\ Works /\ Unlink(write.dir, n) /\ UNCHANGED write
           /\ wsizes' = [wsizes EXCEPT ![n] = 0]
  <2> HIDE DEF n
  <2>1. ASSUME NEW m \in Name
        PROVE  disk'["pending"][m] = disk["pending"][m] \/ disk'["pending"][m] = NoFile
    BY <1>2, <1>4 DEF Unlink, TypeOK, Dir
  <2>2. \A m \in Name : Contents("pending")'[m] <= Contents("pending")[m]
    BY <2>1, GoneIsLighter
  <2>3. Contents("pending") \in [Name -> Nat] /\ Contents("pending")' \in [Name -> Nat]
    <3>1. \A m \in Name : disk'["pending"][m].events \in SUBSET Event
      BY DEF TypeOK, File, Dir
    <3> QED
      BY <3>1, BytesAssumption, ContentsType DEF Contents, Dir
  <2>4. ASSUME write.dir = "pending", spent'.faults = 0, NEW m \in Name
        PROVE  Contents("pending")'[m] <= wsizes'[m]
    <3>1. Contents("pending")[m] <= wsizes[m] /\ wsizes \in [Name -> Nat]
      BY <1>1, <1>2, <2>4 DEF QuotaKept, TypeOK
    <3>2. CASE m = n
      <4>1. disk'["pending"][m] = NoFile
        BY <1>2, <1>4, <2>4, <3>2 DEF Unlink, TypeOK, Dir
      <4>2. Contents("pending")'[m] = 0
        <5>1. Contents("pending")'[m] = Bytes[disk'["pending"][m].events]
          BY DEF Contents
        <5> QED
          BY <4>1, <5>1, BytesAssumption DEF NoFile
      <4>3. wsizes'[m] = 0
        BY <1>4, <3>1, <3>2
      <4> QED
        BY <4>2, <4>3
    <3>3. CASE m # n
      <4>1. wsizes'[m] = wsizes[m]
        BY <1>4, <3>1, <3>3
      <4> QED
        BY <2>2, <2>3, <3>1, <4>1
    <3> QED
      BY <3>2, <3>3
  <2>5. spent'.faults = 0 /\ Writing' => write'.next = 0
    BY <1>1, <1>2, <1>4 DEF QuotaKept, Writing
  <2> QED
    BY <1>1, <1>2, <1>4, <2>2, <2>4, <2>5, LighterKeepsQuota
<1> QED
  BY <1>3, <1>4 DEF PurgeOldest

\* A new file is begun when what was measured is within the quota, or all of it is gone.
LEMMA NameKeepsQuota ==
  ASSUME IInv, TypeOK', QuotaKept, [Next]_vars, NameFile
  PROVE  QuotaKept'
<1> USE DEF IInv
<1> SUFFICES ASSUME spent'.faults = 0 PROVE QuotaKept'
  BY DEF QuotaKept
<1>1. spent.faults = 0
  BY FaultsStay
<1>2. UNCHANGED << disk, write >> /\ wpc = "purge" /\ wpc' # "purge" /\ write.dir \in Dir /\ Writing
  BY DEF NameFile, DropEvent, TypeOK, Writing
<1> DEFINE b == Contents("pending")
<1>3. b' = b /\ b \in [Name -> Nat] /\ wsizes \in [Name -> Nat] /\ IsFiniteSet(Name)
  BY <1>2, ContentsType, NamesFinite DEF Contents, Dir, TypeOK
<1>4. write'.next = 0 /\ write.next = 0
  BY <1>1, <1>2 DEF QuotaKept
<1>5. ASSUME write.dir = "pending"
      PROVE  Weight(b, Name) <= MaxDirSize
  <2>1. \A n \in Name : b[n] <= wsizes[n]
    BY <1>1, <1>2, <1>5 DEF QuotaKept
  <2>2. CASE ~OverQuota
    <3>1. SizeOnDisk = Weight(wsizes, Name)
      BY <1>3, SizeOnDiskWeighs
    <3> HIDE DEF b
    <3>2. Weight(b, Name) <= Weight(wsizes, Name)
      BY <1>3, <2>1, WeightGrows
    <3>3. Weight(b, Name) \in Nat /\ Weight(wsizes, Name) \in Nat
      BY <1>3, UnitsFinite
    <3> QED
      BY <2>2, <3>1, <3>2, <3>3, LimitsAssumption DEF OverQuota
  <2>3. CASE Untried = {}
    <3>1. wnames = {}
      <4>1. \A n \in wnames : n \in Nat
        BY LimitTypes DEF TypeOK
      <4> QED
        BY <1>4, <2>3, <4>1 DEF Untried
    <3>2. ASSUME NEW n \in Name
          PROVE  b[n] = 0
      <4>1. ~disk["pending"][n].exists
        BY <1>2, <1>5, <3>1 DEF ActiveFiles, Files
      <4>2. disk["pending"][n].events = {}
        BY <4>1 DEF Filed, Dir
      <4> QED
        BY <4>2, BytesAssumption DEF Contents
    <3> HIDE DEF b
    <3>3. Weight(b, Name) <= Weight(b, {})
      BY <1>3, <3>2, WeightGrows
    <3>4. Weight(b, Name) \in Nat
      BY <1>3, UnitsFinite
    <3> QED
      BY <3>3, <3>4, WeightOfNone, LimitsAssumption
  <2> QED
    BY <2>2, <2>3 DEF NameFile
<1>6. Weight(b, Name) <= MaxDirSize + MaxFileSize
  BY <1>1 DEF QuotaKept
<1>7. ASSUME active'["pending"].open
      PROVE  Weight(b, Name \ {active'["pending"].name}) <= MaxDirSize
  <2>1. CASE write.dir = "pending"
    <3>1. Weight(b, Name \ {active'["pending"].name}) <= Weight(b, Name)
      <4> HIDE DEF b
      <4> QED
        BY <1>3, WeightGrows
    <3>2. Weight(b, Name) \in Nat /\ Weight(b, Name \ {active'["pending"].name}) \in Nat
      <4> HIDE DEF b
      <4> QED
        BY <1>3, UnitsFinite
    <3> QED
      BY <1>5, <2>1, <3>1, <3>2, LimitsAssumption
  <2>2. CASE write.dir # "pending"
    <3>1. active'["pending"] = active["pending"]
      BY <1>2, <2>2 DEF NameFile, Deactivate, TypeOK, Dir
    <3> QED
      BY <1>1, <1>7, <3>1 DEF QuotaKept
  <2> QED
    BY <2>1, <2>2
<1> HIDE DEF b
<1> QED
  BY <1>2, <1>3, <1>4, <1>6, <1>7 DEF QuotaKept, b

\* An empty file weighs nothing.
LEMMA OpenKeepsQuota ==
  ASSUME IInv, TypeOK', QuotaKept, [Next]_vars, OpenForWrite
  PROVE  QuotaKept'
<1> USE DEF IInv
<1>1. spent'.faults = 0 => spent.faults = 0
  BY FaultsStay
<1>2. UNCHANGED << active, write >> /\ wpc = "open" /\ wpc' # "purge" /\ Writing
  BY DEF OpenForWrite, DropEvent, Writing
<1>3. ASSUME NEW n \in Name
      PROVE  disk'["pending"][n].events = disk["pending"][n].events
  <2>1. ~disk["pending"][n].exists => disk["pending"][n].events = {}
    BY DEF Filed, Dir
  <2>2. UNCHANGED disk \/ disk' = [disk EXCEPT ![write.dir][active[write.dir].name] =
                                      IF @.exists THEN @ ELSE NewFile]
    BY DEF OpenForWrite
  <2>3. /\ disk \in [Dir -> [Name -> File]] /\ write.dir \in Dir /\ active[write.dir].name \in Name
        /\ "pending" \in Dir
    BY DEF TypeOK, Dir
  <2>4. CASE write.dir = "pending" /\ active[write.dir].name = n
    <3>1. \/ UNCHANGED disk
          \/ disk'["pending"][n] = IF disk["pending"][n].exists THEN disk["pending"][n] ELSE NewFile
      BY <2>2, <2>3, <2>4
    <3>2. NewFile.events = {}
      BY DEF NewFile
    <3>3. CASE UNCHANGED disk
      BY <3>3
    <3>4. CASE disk'["pending"][n] = IF disk["pending"][n].exists THEN disk["pending"][n] ELSE NewFile
      <4>1. CASE disk["pending"][n].exists
        BY <3>4, <4>1
      <4>2. CASE ~disk["pending"][n].exists
        BY <2>1, <3>2, <3>4, <4>2
      <4> QED
        BY <4>1, <4>2
    <3> QED
      BY <3>1, <3>3, <3>4
  <2>5. CASE ~(write.dir = "pending" /\ active[write.dir].name = n)
    BY <2>2, <2>3, <2>5
  <2> QED
    BY <2>4, <2>5
<1>4. \A n \in Name : Contents("pending")'[n] <= Contents("pending")[n]
  BY <1>3, GoneIsLighter
<1>5. spent'.faults = 0 /\ Writing' => write'.next = 0
  BY <1>1, <1>2 DEF QuotaKept
<1> QED
  BY <1>1, <1>2, <1>4, <1>5, LighterKeepsQuota

\* The file BatchWriter appends to comes on top, and stays within its own limit.
LEMMA WriteKeepsQuota ==
  ASSUME IInv, TypeOK', QuotaKept, [Next]_vars, WriteEvent
  PROVE  QuotaKept'
<1> USE DEF IInv
<1> SUFFICES ASSUME spent'.faults = 0 PROVE QuotaKept'
  BY DEF QuotaKept
<1>1. spent.faults = 0 /\ wpc = "write" /\ wpc' = "idle" /\ UNCHANGED write /\ write.dir \in Dir
  BY FaultsStay DEF WriteEvent, DropEvent, TypeOK
<1> DEFINE b == Contents("pending")
           c == b'
           a == active["pending"].name
<1>2. b \in [Name -> Nat] /\ c \in [Name -> Nat] /\ IsFiniteSet(Name) /\ a \in Name
  <2>1. \A n \in Name : disk'["pending"][n].events \in SUBSET Event
    BY DEF TypeOK, File, Dir
  <2>2. c \in [Name -> Nat]
    BY <2>1, BytesAssumption DEF Contents
  <2>3. b \in [Name -> Nat] /\ IsFiniteSet(Name)
    BY ContentsType, NamesFinite DEF Dir
  <2>4. a \in Name
    BY DEF TypeOK, Dir
  <2> QED
    BY <2>2, <2>3, <2>4
<1>3. /\ active'["pending"].open = active["pending"].open
      /\ active'["pending"].name = a
  <2>1. \/ active' = active
        \/ active' = [active EXCEPT ![write.dir].writes = @ + 1,
                                    ![write.dir].bytes = @ + Bytes[{write.event}]]
    BY DEF WriteEvent
  <2>2. active \in [Dir -> FileDetails] /\ "pending" \in Dir
    BY DEF TypeOK, FileDetails, Dir
  <2> QED
    BY <1>1, <2>1, <2>2 DEF FileDetails
<1>4. ASSUME NEW n \in Name, write.dir = "granted" \/ n # a
      PROVE  c[n] = b[n]
  <2>1. ~Fails("torn")
    BY <1>1, FaultSpent DEF TypeOK, SpentType
  <2>2. \/ disk' = disk
        \/ disk' = [disk EXCEPT ![write.dir][active[write.dir].name].events = @ \cup {write.event}]
    BY <2>1 DEF WriteEvent
  <2>3. disk \in [Dir -> [Name -> File]] /\ active[write.dir].name \in Name /\ "pending" \in Dir
    BY <1>1 DEF TypeOK, Dir
  <2>4. disk'["pending"][n] = disk["pending"][n]
    BY <1>1, <1>4, <2>2, <2>3
  <2> QED
    BY <2>4 DEF Contents
<1>5. ASSUME active["pending"].open
      PROVE  Weight(c, Name \ {a}) <= MaxDirSize
  <2>1. Weight(b, Name \ {a}) <= MaxDirSize
    BY <1>1, <1>5 DEF QuotaKept
  <2> HIDE DEF b, c, a
  <2>2. Weight(c, Name \ {a}) <= Weight(b, Name \ {a})
    BY <1>2, <1>4, WeightGrows
  <2>3. Weight(b, Name \ {a}) \in Nat /\ Weight(c, Name \ {a}) \in Nat
    BY <1>2, UnitsFinite
  <2> QED
    BY <2>1, <2>2, <2>3, LimitsAssumption
<1>6. Weight(c, Name) <= MaxDirSize + MaxFileSize
  <2>1. CASE write.dir = "granted"
    <3>1. Weight(b, Name) <= MaxDirSize + MaxFileSize
      BY <1>1 DEF QuotaKept
    <3> HIDE DEF b, c
    <3>2. Weight(c, Name) <= Weight(b, Name)
      BY <1>2, <1>4, <2>1, WeightGrows
    <3>3. Weight(b, Name) \in Nat /\ Weight(c, Name) \in Nat
      BY <1>2, UnitsFinite
    <3> QED
      BY <3>1, <3>2, <3>3, LimitsAssumption
  <2>2. CASE write.dir = "pending"
    <3>1. /\ active["pending"].open /\ write.event \in Event
          /\ active["pending"].bytes + Bytes[{write.event}] <= MaxFileSize
          /\ active["pending"].bytes \in Nat
          /\ Bytes[disk["pending"][a].events] <= active["pending"].bytes
      BY <1>1, <2>2 DEF ActiveFiles, Excepted, CountedUpTo, TypeOK, Dir
    <3>2. disk["pending"][a].events \in SUBSET Event
      BY <1>2 DEF TypeOK, Dir, File
    <3>3. /\ Bytes[disk["pending"][a].events] \in Nat
          /\ Bytes[{write.event}] \in Nat
          /\ Bytes[disk["pending"][a].events \union {write.event}]
               <= Bytes[disk["pending"][a].events] + Bytes[{write.event}]
          /\ Bytes[disk["pending"][a].events \union {write.event}] \in Nat
      BY <3>1, <3>2, OneMoreRecord
    <3>4. \/ disk'["pending"][a].events = disk["pending"][a].events
          \/ disk'["pending"][a].events = disk["pending"][a].events \union {write.event}
      <4>1. \/ UNCHANGED disk
            \/ disk' = [disk EXCEPT !["pending"][a].events = @ \cup {write.event}]
            \/ \E k \in Nat : disk' = [disk EXCEPT !["pending"][a].torn = @ + k]
        BY <2>2 DEF WriteEvent
      <4>2. disk \in [Dir -> [Name -> File]] /\ "pending" \in Dir
        BY DEF TypeOK, Dir
      <4> HIDE DEF a
      <4> QED
        BY <1>2, <4>1, <4>2 DEF File
    <3>5. c[a] = Bytes[disk'["pending"][a].events]
      BY <1>2 DEF Contents
    <3>6. c[a] <= MaxFileSize
      <4> DEFINE was == disk["pending"][a].events
                 is  == disk'["pending"][a].events
                 one == Bytes[{write.event}]
                 sum == active["pending"].bytes
      <4>1. sum + one <= MaxFileSize /\ sum \in Nat /\ one \in Nat /\ Bytes[was] <= sum
        BY <3>1, <3>3
      <4>2. /\ Bytes[was] \in Nat /\ Bytes[was \union {write.event}] <= Bytes[was] + one
            /\ Bytes[was \union {write.event}] \in Nat
        BY <3>3
      <4>3. is = was \/ is = was \union {write.event}
        BY <3>4
      <4> HIDE DEF was, is, one, sum
      <4>4. Bytes[is] <= MaxFileSize
        BY <4>1, <4>2, <4>3, LimitTypes
      <4> QED
        BY <3>5, <4>4 DEF is
    <3>7. Weight(c, Name \ {a}) <= MaxDirSize
      BY <1>5, <3>1
    <3> HIDE DEF b, c, a
    <3>8. /\ Weight(c, Name) = c[a] + Weight(c, Name \ {a})
          /\ Weight(c, Name) \in Nat /\ Weight(c, Name \ {a}) \in Nat
      BY <1>2, WeightSplits
    <3>9. c[a] \in Nat
      BY <1>2
    <3> QED
      BY <3>6, <3>7, <3>8, <3>9, LimitTypes, LimitsAssumption
  <2> QED
    BY <1>1, <2>1, <2>2 DEF Dir
<1>7. ~Writing' /\ wpc' # "purge"
  BY <1>1 DEF Writing
<1> QED
  BY <1>3, <1>5, <1>6, <1>7 DEF QuotaKept

LEMMA QuotaInit ==
  ASSUME Init
  PROVE  QuotaKept
<1>1. IInv
  BY InitInv
<1> DEFINE b == Contents("pending")
<1>2. b \in [Name -> Nat] /\ IsFiniteSet(Name)
  BY <1>1, ContentsType, NamesFinite DEF IInv, Dir
<1>3. \A n \in Name : b[n] = 0
  BY BytesAssumption DEF Init, Contents, NoFile, Dir
<1>4. Weight(b, Name) <= MaxDirSize + MaxFileSize
  <2> HIDE DEF b
  <2>1. Weight(b, Name) <= Weight(b, {}) /\ Weight(b, Name) \in Nat
    BY <1>2, <1>3, WeightGrows, UnitsFinite
  <2> QED
    BY <2>1, WeightOfNone, LimitTypes, LimitsAssumption
<1> QED
  BY <1>4 DEF Init, QuotaKept, NoActive, Writing, Dir

\* PendingQuota: as long as no file operation has failed, the pending directory overruns its
\* quota by no more than the one file BatchWriter appends to, whatever else happens.
THEOREM QuotaRespected == Spec => []PendingQuota
<1>1. Init => QuotaKept
  BY QuotaInit
<1>2. IInv /\ IInv' /\ TornCounted /\ QuotaKept /\ [Next]_vars => QuotaKept'
  BY OthersKeepQuota, QuietStorageKeepsQuota, MeasureKeepsQuota, PurgeKeepsQuota, NameKeepsQuota,
     OpenKeepsQuota, WriteKeepsQuota DEF Next, StorageStep, IInv
<1>3. IInv /\ TornCounted /\ QuotaKept => PendingQuota
  BY QuotaBounds
<1> QED
  BY <1>1, <1>2, <1>3, Invariant, AlwaysTornCounted, PTL DEF Spec

=============================================================================
