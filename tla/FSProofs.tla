------------------------------ MODULE FSProofs ------------------------------
(***************************************************************************)
(* Proofs about FS, for every number of requests: readersCount is never    *)
(* below the readers of a file and is exact when files can seek, no handle *)
(* is left in a released file, and the cache implements FileLease.         *)
(*                                                                         *)
(* The inductive invariant adds to ReadersCounted who has a file that was  *)
(* opened: its own request until it is cached or dropped, then the cache,  *)
(* then the cleaner, each at a time and only while the file is open; and   *)
(* that a file in use is in the cache or waits in pendingFiles.            *)
(***************************************************************************)
EXTENDS FS, FiniteSetTheorems, TLAPS

\* The requests that may still open a file, and those that have one of their own.
NotOpened(r) == pc[r] \in {"get", "open", "remove", "lock", "locked", "reopen"}
Owns(r) == pc[r] \in {"set", "drop"}

\* A file that can be handed out or closed: it is open and nobody else's.
Open(f) == f \in made /\ ~Owns(f) /\ closed[f] = 0

Custody ==
  /\ \A k \in Kinds : cache[k] # NoFile => Open(cache[k]) /\ cache[k] \notin pending \cup releasing
  /\ \A f \in pending \cup releasing : Open(f)
  /\ pending \cap releasing = {}

OwnFiles ==
  \A r \in Reqs :
    /\ NotOpened(r) => r \notin made
    /\ Owns(r) => r \in made
    /\ r \notin made \/ Owns(r) => closed[r] = 0
    /\ closed[r] <= 1

InUse ==
  \A r \in Reqs :
    Holds(r) => file[r] # NoFile /\ (file[r] \in pending \/ \E k \in Kinds : cache[k] = file[r])

FileInv == TypeOK /\ ReadersCounted /\ NoHandleLeft /\ Custody /\ OwnFiles /\ InUse

-----------------------------------------------------------------------------
(* Counting readers.                                                       *)

\* A set of requests is finite.
LEMMA HoldersFinite ==
  ASSUME NEW f
  PROVE  IsFiniteSet(Holders(f)) /\ Cardinality(Holders(f)) \in Nat
<1>1. Holders(f) \in SUBSET Reqs
  BY DEF Holders
<1> QED
  BY <1>1, FS_Subset, FS_CardinalityType, FSAssumption

\* A file somebody holds has a reader.
LEMMA HeldIsRead ==
  ASSUME ReadersCounted, NEW r \in Reqs, Holds(r), file[r] \in Reqs
  PROVE  readers[file[r]] # 0
<1>1. readers[file[r]] >= Cardinality(Holders(file[r]))
  BY DEF ReadersCounted
<1>2. r \in Holders(file[r])
  BY DEF Holders
<1>3. Cardinality(Holders(file[r])) \in Nat /\ Cardinality(Holders(file[r])) # 0
  BY <1>2, HoldersFinite, FS_EmptySet
<1> QED
  BY <1>1, <1>3

\* No request takes or gives up a file: the counts stay.
LEMMA ReadersKept ==
  ASSUME ReadersCounted, seeks' = seeks, readers' = readers,
         \A f, q \in Reqs : q \in Holders(f) <=> q \in Holders(f)'
  PROVE  ReadersCounted'
<1> SUFFICES ASSUME NEW f \in Reqs
             PROVE  /\ readers'[f] >= Cardinality(Holders(f)')
                    /\ seeks' => readers'[f] = Cardinality(Holders(f)')
  BY DEF ReadersCounted
<1>1. Holders(f)' = Holders(f)
  BY DEF Holders
<1> QED
  BY <1>1 DEF ReadersCounted

\* One request takes g.
LEMMA ReaderTaken ==
  ASSUME TypeOK, ReadersCounted, NEW r \in Reqs, NEW g \in Reqs,
         seeks' = seeks, readers' = [readers EXCEPT ![g] = @ + 1],
         \A f \in Reqs : r \notin Holders(f),
         \A f \in Reqs : r \in Holders(f)' <=> f = g,
         \A f, q \in Reqs : q # r => (q \in Holders(f) <=> q \in Holders(f)')
  PROVE  ReadersCounted'
<1> SUFFICES ASSUME NEW f \in Reqs
             PROVE  /\ readers'[f] >= Cardinality(Holders(f)')
                    /\ seeks' => readers'[f] = Cardinality(Holders(f)')
  BY DEF ReadersCounted
<1>0. /\ readers[f] \in Nat /\ Cardinality(Holders(f)) \in Nat
      /\ readers[f] >= Cardinality(Holders(f))
      /\ seeks => readers[f] = Cardinality(Holders(f))
  BY HoldersFinite DEF ReadersCounted, TypeOK
<1>1. CASE f = g
  <2>1. Holders(f)' = Holders(f) \cup {r}
    BY <1>1 DEF Holders
  <2>2. Cardinality(Holders(f)') = Cardinality(Holders(f)) + 1
    BY <2>1, HoldersFinite, FS_AddElement
  <2> QED
    BY <1>0, <1>1, <2>2 DEF TypeOK
<1>2. CASE f # g
  <2>1. Holders(f)' = Holders(f)
    BY <1>2 DEF Holders
  <2> QED
    BY <1>0, <1>2, <2>1 DEF TypeOK
<1> QED
  BY <1>1, <1>2

\* One request gives up g, which it held.
LEMMA ReaderLeft ==
  ASSUME TypeOK, ReadersCounted, NEW r \in Reqs, NEW g \in Reqs,
         seeks' = seeks, decReadersCount(g), r \in Holders(g),
         \A f \in Reqs : r \notin Holders(f)',
         \A f, q \in Reqs : q # r => (q \in Holders(f) <=> q \in Holders(f)')
  PROVE  ReadersCounted'
<1> SUFFICES ASSUME NEW f \in Reqs
             PROVE  /\ readers'[f] >= Cardinality(Holders(f)')
                    /\ seeks' => readers'[f] = Cardinality(Holders(f)')
  BY DEF ReadersCounted
<1>0. /\ readers[f] \in Nat /\ Cardinality(Holders(f)) \in Nat
      /\ readers[f] >= Cardinality(Holders(f))
      /\ seeks => readers[f] = Cardinality(Holders(f))
  BY HoldersFinite DEF ReadersCounted, TypeOK
<1>1. CASE f = g
  <2>1. Holders(f)' = Holders(f) \ {r}
    BY <1>1 DEF Holders
  <2>2. Cardinality(Holders(f)') = Cardinality(Holders(f)) - 1
    BY <1>1, <2>1, HoldersFinite, FS_RemoveElement
  <2>3. readers[f] > 0
    <3>1. Cardinality(Holders(f)) # 0
      BY <1>1, HoldersFinite, FS_EmptySet
    <3> QED
      BY <1>0, <3>1
  <2>4. readers'[f] = readers[f] - 1
    BY <1>1, <2>3 DEF TypeOK, decReadersCount
  <2> QED
    BY <1>0, <2>2, <2>3, <2>4
<1>2. CASE f # g
  <2>1. Holders(f)' = Holders(f)
    BY <1>2 DEF Holders
  <2> QED
    BY <1>0, <1>2, <2>1 DEF TypeOK, decReadersCount
<1> QED
  BY <1>1, <1>2

\* One request leaves without giving up the file: it cannot seek.
LEMMA ReaderLost ==
  ASSUME TypeOK, ReadersCounted, NEW r \in Reqs, ~seeks, seeks' = seeks, readers' = readers,
         \A f \in Reqs : Holders(f)' \subseteq Holders(f)
  PROVE  ReadersCounted'
<1> SUFFICES ASSUME NEW f \in Reqs PROVE readers'[f] >= Cardinality(Holders(f)')
  BY DEF ReadersCounted
<1> DEFINE A == Holders(f)
           B == Holders(f)'
<1>1. IsFiniteSet(A) /\ B \subseteq A /\ readers'[f] >= Cardinality(A)
  BY HoldersFinite DEF ReadersCounted
<1> HIDE DEF A, B
<1>2. /\ Cardinality(B) <= Cardinality(A)
      /\ Cardinality(A) \in Nat /\ Cardinality(B) \in Nat
  BY <1>1, FS_Subset, FS_CardinalityType
<1>3. readers'[f] >= Cardinality(A)
  BY <1>1
<1>4. readers'[f] \in Nat
  BY DEF TypeOK
<1> QED
  BY <1>2, <1>3, <1>4 DEF B

-----------------------------------------------------------------------------
(* Kinds of steps.                                                         *)

LeaseStep == [Lease!LeaseNext]_<<LeaseHandle, LeaseUsers>>

\* A step that neither opens, passes on, counts nor closes a file.
LEMMA QuietStep ==
  ASSUME FileInv, TypeOK',
         UNCHANGED <<what, seeks, cache, made, readers, closed, pending, releasing>>,
         \A r \in Reqs : /\ Holds(r) <=> Holds(r)'
                         /\ Holds(r) => file'[r] = file[r]
                         /\ Owns(r) <=> Owns(r)'
                         /\ NotOpened(r)' => NotOpened(r),
         \A f \in Reqs : idle'[f] = idle[f] \/ idle'[f] = 0 \/ closed[f] = 0
  PROVE  FileInv' /\ LeaseStep
<1>1. ReadersCounted'
  <2>1. \A f, q \in Reqs : q \in Holders(f) <=> q \in Holders(f)'
    BY DEF Holders
  <2> QED
    BY <2>1, ReadersKept DEF FileInv
<1>2. NoHandleLeft'
  BY DEF FileInv, NoHandleLeft
<1>3. Custody'
  BY DEF FileInv, Custody, Open, TypeOK
<1>4. OwnFiles'
  BY DEF FileInv, OwnFiles
<1>5. InUse'
  BY DEF FileInv, InUse
<1>6. LeaseStep
  <2>1. \A f \in Reqs : Holders(f)' = Holders(f)
    BY DEF Holders
  <2> QED
    BY <2>1 DEF LeaseStep, LeaseHandle, LeaseUsers
<1> QED
  BY <1>1, <1>2, <1>3, <1>4, <1>5, <1>6 DEF FileInv

\* newFSFile: r has a file of its own, or has left one open.
LEMMA OpenStep ==
  ASSUME FileInv, TypeOK', NEW r \in Reqs, NotOpened(r), made' = made \cup {r},
         pc' = [pc EXCEPT ![r] = "set"] \/ pc' = [pc EXCEPT ![r] = "done"],
         UNCHANGED <<what, seeks, file, cache, readers, closed, idle, pending, releasing>>
  PROVE  FileInv' /\ LeaseStep
<1>0. r \notin made /\ closed[r] = 0 /\ \A q \in Reqs : Holds(q) <=> Holds(q)'
  BY DEF FileInv, OwnFiles, Holds, TypeOK, NotOpened
<1>1. ReadersCounted'
  <2>1. \A f, q \in Reqs : q \in Holders(f) <=> q \in Holders(f)'
    BY <1>0 DEF Holders
  <2> QED
    BY <2>1, ReadersKept DEF FileInv
<1>2. NoHandleLeft'
  BY DEF FileInv, NoHandleLeft
<1>3. Custody'
  <2>1. \A f \in made : Open(f) => Open(f)'
    BY <1>0 DEF FileInv, TypeOK, Open, Owns
  <2>2. \A f : Open(f) => f \in made
    BY DEF Open
  <2> QED
    BY <2>1, <2>2 DEF FileInv, Custody
<1>4. OwnFiles'
  BY <1>0 DEF FileInv, OwnFiles, TypeOK, Owns, NotOpened
<1>5. InUse'
  BY <1>0 DEF FileInv, InUse
<1>6. LeaseStep
  <2>1. \A f \in Reqs : Holders(f)' = Holders(f)
    BY <1>0 DEF Holders
  <2>2. LeaseUsers' = LeaseUsers
    BY <2>1 DEF LeaseUsers
  <2>3. CASE what = "dir"
    BY <2>2, <2>3 DEF LeaseStep, LeaseHandle
  <2>4. CASE what # "dir"
    <3>1. LeaseHandle[r] = "none" /\ LeaseHandle' = [LeaseHandle EXCEPT ![r] = "open"]
      BY <1>0, <2>4 DEF LeaseHandle
    <3> QED
      BY <2>2, <3>1 DEF LeaseStep, Lease!LeaseNext, Lease!Open
  <2> QED
    BY <2>3, <2>4
<1> QED
  BY <1>1, <1>2, <1>3, <1>4, <1>5, <1>6 DEF FileInv

\* A request takes the open file g: it is counted, and is a user of g.
LEMMA TakeCounted ==
  ASSUME FileInv, NEW r \in Reqs, NEW g \in Reqs, g \in made, closed[g] = 0,
         ~Holds(r), Holds(r)', \A q \in Reqs : q # r => (Holds(q) <=> Holds(q)'),
         file' = [file EXCEPT ![r] = g], readers' = [readers EXCEPT ![g] = @ + 1],
         UNCHANGED <<what, seeks, made, closed>>
  PROVE  ReadersCounted' /\ LeaseStep
<1>1. /\ \A f \in Reqs : r \notin Holders(f)
      /\ \A f \in Reqs : r \in Holders(f)' <=> f = g
      /\ \A f, q \in Reqs : q # r => (q \in Holders(f) <=> q \in Holders(f)')
  BY DEF Holders, FileInv, TypeOK
<1>2. ReadersCounted'
  BY <1>1, ReaderTaken DEF FileInv
<1>3. LeaseHandle' = LeaseHandle
  BY DEF LeaseHandle
<1>4. CASE what = "dir"
  BY <1>2, <1>3, <1>4 DEF LeaseStep, LeaseUsers
<1>5. CASE what # "dir"
  <2>1. \A f \in Reqs : Holders(f)' = IF f = g THEN Holders(f) \cup {r} ELSE Holders(f)
    BY <1>1 DEF Holders
  <2>2. LeaseUsers' = [LeaseUsers EXCEPT ![g] = @ \cup {r}]
    BY <1>5, <2>1 DEF LeaseUsers
  <2>3. LeaseHandle[g] = "open" /\ r \notin LeaseUsers[g]
    BY <1>1, <1>5 DEF LeaseHandle, LeaseUsers
  <2> QED
    BY <1>2, <1>3, <2>2, <2>3 DEF LeaseStep, Lease!LeaseNext, Lease!Use
<1> QED
  BY <1>2, <1>4, <1>5

\* A request gives up the file it holds.
LEMMA LeaveStep ==
  ASSUME FileInv, TypeOK', NEW r \in Reqs, Holds(r), ~Owns(r),
         decReadersCount(file[r]) \/ (~seeks /\ UNCHANGED readers), pc' = [pc EXCEPT ![r] = "done"],
         UNCHANGED <<what, seeks, file, cache, made, closed, idle, pending, releasing>>
  PROVE  FileInv' /\ LeaseStep
<1> DEFINE g == file[r]
<1>0. /\ g \in Reqs /\ r \in Holders(g)
      /\ \A q \in Reqs : /\ Holds(q)' => Holds(q)
                         /\ q # r => (Holds(q) <=> Holds(q)')
                         /\ Owns(q) <=> Owns(q)'
                         /\ NotOpened(q) <=> NotOpened(q)'
      /\ ~Holds(r)'
  BY DEF FileInv, InUse, TypeOK, Holders, Holds, Owns, NotOpened
<1>1. /\ \A f \in Reqs : r \notin Holders(f)'
      /\ \A f, q \in Reqs : q # r => (q \in Holders(f) <=> q \in Holders(f)')
  BY <1>0 DEF Holders
<1>2. ReadersCounted'
  <2>1. CASE decReadersCount(file[r])
    BY <1>0, <1>1, <2>1, ReaderLeft DEF FileInv
  <2>2. CASE ~seeks /\ UNCHANGED readers
    <3>1. \A f \in Reqs : Holders(f)' \subseteq Holders(f)
      BY <1>1 DEF Holders
    <3> QED
      BY <2>2, <3>1, ReaderLost DEF FileInv
  <2> QED
    BY <2>1, <2>2
<1>3. NoHandleLeft' /\ OwnFiles' /\ InUse'
  BY <1>0 DEF FileInv, NoHandleLeft, OwnFiles, InUse
<1>4. Custody'
  BY <1>0 DEF FileInv, Custody, Open, TypeOK
<1>5. LeaseHandle' = LeaseHandle
  BY DEF LeaseHandle
<1>6. CASE what = "dir"
  BY <1>2, <1>3, <1>4, <1>5, <1>6 DEF FileInv, LeaseStep, LeaseUsers
<1>7. CASE what # "dir"
  <2>1. \A f \in Reqs : Holders(f)' = IF f = g THEN Holders(f) \ {r} ELSE Holders(f)
    <3> SUFFICES ASSUME NEW f \in Reqs
                 PROVE  Holders(f)' = IF f = g THEN Holders(f) \ {r} ELSE Holders(f)
      OBVIOUS
    <3>1. f # g => r \notin Holders(f)
      BY DEF Holders
    <3> QED
      BY <1>1, <3>1 DEF Holders
  <2>2. LeaseUsers' = [LeaseUsers EXCEPT ![g] = @ \ {r}] /\ r \in LeaseUsers[g]
    BY <1>0, <1>7, <2>1 DEF LeaseUsers
  <2>3. LeaseStep
    BY <1>0, <1>5, <2>2 DEF LeaseStep, Lease!LeaseNext, Lease!Leave
  <2> QED
    BY <1>2, <1>3, <1>4, <2>3 DEF FileInv
<1> QED
  BY <1>6, <1>7

\* A file that nobody holds, caches or waits for is released.
LEMMA CloseStep ==
  ASSUME FileInv, TypeOK', NEW g \in Reqs, Release(g), g \in made, closed[g] = 0,
         \A k \in Kinds : cache[k] # g, g \notin pending, g \notin releasing', ~Owns(g)',
         releasing' \subseteq releasing,
         UNCHANGED <<what, seeks, file, cache, made, readers, pending>>,
         \A r \in Reqs : /\ Holds(r) <=> Holds(r)'
                         /\ r # g => (Owns(r) <=> Owns(r)')
                         /\ NotOpened(r)' => NotOpened(r)
  PROVE  FileInv' /\ LeaseStep
<1>0. /\ closed' \in [Reqs -> Nat] /\ idle' = [idle EXCEPT ![g] = 0]
      /\ \A f \in Reqs : f # g => closed'[f] = closed[f]
      /\ closed'[g] = IF what = "dir" THEN 0 ELSE 1
  <2>1. closed \in [Reqs -> Nat] /\ closed' \in [Reqs -> Nat]
    BY DEF FileInv, TypeOK
  <2>2. CASE what = "dir"
    BY <2>1, <2>2 DEF Release
  <2>3. CASE what # "dir"
    BY <2>1, <2>3 DEF Release
  <2> QED
    BY <2>2, <2>3
<1>1. ReadersCounted'
  <2>1. \A f, q \in Reqs : q \in Holders(f) <=> q \in Holders(f)'
    BY DEF Holders
  <2> QED
    BY <2>1, ReadersKept DEF FileInv
<1>2. NoHandleLeft'
  BY <1>0 DEF FileInv, NoHandleLeft, TypeOK
<1>3. OwnFiles'
  BY <1>0 DEF FileInv, OwnFiles
<1>4. Custody'
  <2>1. \A f \in Reqs : f # g /\ Open(f) => Open(f)'
    BY <1>0 DEF Open
  <2> QED
    BY <2>1 DEF FileInv, Custody, TypeOK
<1>5. InUse'
  BY DEF FileInv, InUse
<1>6. LeaseStep
  <2>1. Holders(g) = {} /\ \A f \in Reqs : Holders(f)' = Holders(f)
    BY DEF FileInv, InUse, Holders
  <2>2. LeaseUsers' = LeaseUsers /\ LeaseUsers[g] = {}
    BY <2>1 DEF LeaseUsers
  <2>3. CASE what = "dir"
    BY <2>2, <2>3 DEF LeaseStep, LeaseHandle
  <2>4. CASE what # "dir"
    <3>1. LeaseHandle[g] = "open" /\ LeaseHandle'[g] = "closed"
      BY <1>0, <2>4 DEF LeaseHandle
    <3>2. \A f \in Reqs : f # g => LeaseHandle'[f] = LeaseHandle[f]
      BY <1>0 DEF LeaseHandle
    <3>3. LeaseHandle' = [LeaseHandle EXCEPT ![g] = "closed"]
      BY <3>1, <3>2, ZenonT(40) DEF LeaseHandle
    <3> QED
      BY <2>2, <3>1, <3>3 DEF LeaseStep, Lease!LeaseNext, Lease!Close
  <2> QED
    BY <2>3, <2>4
<1> QED
  BY <1>1, <1>2, <1>3, <1>4, <1>5, <1>6 DEF FileInv

-----------------------------------------------------------------------------
(* The actions.                                                            *)

\* The initial states satisfy the invariant and are initial for FileLease.
LEMMA InitFile == Init => FileInv /\ Lease!LeaseInit
<1> SUFFICES ASSUME Init PROVE FileInv /\ Lease!LeaseInit
  OBVIOUS
<1> USE FSAssumption DEF Init
<1>1. TypeOK
  BY DEF TypeOK, Kinds
<1>2. \A f \in Reqs : Holders(f) = {}
  BY DEF Holders, Holds
<1>3. ReadersCounted
  BY <1>2, FS_EmptySet DEF ReadersCounted
<1>4. NoHandleLeft /\ Custody /\ OwnFiles /\ InUse
  BY DEF NoHandleLeft, Custody, OwnFiles, InUse, Holds, Owns
<1>5. Lease!LeaseInit
  BY <1>2 DEF Lease!LeaseInit, LeaseHandle, LeaseUsers
<1> QED
  BY <1>1, <1>3, <1>4, <1>5 DEF FileInv

\* Every action keeps the types.
LEMMA TypeStep == TypeOK /\ [Next]_vars => TypeOK'
<1> SUFFICES ASSUME TypeOK, [Next]_vars PROVE TypeOK'
  OBVIOUS
<1> USE FSAssumption DEF TypeOK
<1>1. ASSUME NEW r \in Reqs, GetFileFromCache(r) PROVE TypeOK'
  BY <1>1 DEF GetFileFromCache, Go, disk, cleaner, Kinds
<1>2. ASSUME NEW r \in Reqs, openFSFile(r) PROVE TypeOK'
  BY <1>2 DEF openFSFile, openIndexFile, newFSFile, HasFile, LeaveOpen, Answer, Go, disk, cleaner
<1>3. ASSUME NEW r \in Reqs, removeStale(r) \/ compressAndOpenFSFile(r) PROVE TypeOK'
  BY <1>3 DEF removeStale, compressAndOpenFSFile, newFSFile, HasFile, LeaveOpen, Answer, Go, files, cleaner
<1>4. ASSUME NEW r \in Reqs, compressFileNolock(r) \/ newCompressedFSFile(r) PROVE TypeOK'
  <2>1. compress' \in [Reqs -> BOOLEAN]
    <3>1. compress' = compress \/ compress' = [compress EXCEPT ![r] = FALSE]
      BY <1>4 DEF compressFileNolock, newCompressedFSFile
    <3>2. compress \in [Reqs -> BOOLEAN] /\ FALSE \in BOOLEAN
      OBVIOUS
    <3> HIDE DEF TypeOK
    <3> QED
      BY <3>1, <3>2, Zenon
  <2> QED
    BY <1>4, <2>1
       DEF compressFileNolock, newCompressedFSFile, newFSFile, HasFile, LeaveOpen, Answer, Go, files, cleaner
<1>5. ASSUME NEW r \in Reqs, SetFileToCache(r) PROVE TypeOK'
  BY <1>5 DEF SetFileToCache, Go, disk, cleaner, Kinds
<1>6. ASSUME NEW r \in Reqs, dropOwnFile(r) PROVE TypeOK'
  BY <1>6 DEF dropOwnFile, Release, Go, disk, cleaner
<1>7. ASSUME NEW r \in Reqs, NotModified(r) \/ DoneReading(r) PROVE TypeOK'
  <2>1. readers' \in [Reqs -> Nat]
    BY <1>7 DEF NotModified, DoneReading, decReadersCount
  <2> QED
    BY <1>7, <2>1 DEF NotModified, DoneReading, Answer, Go, disk, cleaner
<1>8. ASSUME NEW r \in Reqs, NewReader(r) PROVE TypeOK'
  <2>1. readers' \in [Reqs -> Nat] /\ idle' \in [Reqs -> Nat]
    BY <1>8 DEF NewReader, decReadersCount
  <2> QED
    BY <1>8, <2>1 DEF NewReader, Answer, Go, disk, cleaner
<1>9. ASSUME NEW r \in Reqs, CloseReader(r) PROVE TypeOK'
  BY <1>9 DEF CloseReader, Answer, Go, disk, cleaner
<1>10. ASSUME NEW f \in Reqs, Expire(f) \/ releaseFile(f) PROVE TypeOK'
  BY <1>10 DEF Expire, releaseFile, Release, disk, reqs, files
<1>11. CASE cleanCache
  <2>1. cache' \in [Kinds -> Reqs \cup {NoFile}]
    BY <1>11 DEF cleanCache
  <2> QED
    BY <1>11, <2>1 DEF cleanCache, disk, reqs, files
<1>12. CASE Modify
  BY <1>12 DEF Modify, reqs, files, cleaner
<1>13. CASE UNCHANGED vars
  BY <1>13 DEF vars, disk, reqs, files, cleaner
<1> QED
  BY <1>1, <1>2, <1>3, <1>4, <1>5, <1>6, <1>7, <1>8, <1>9, <1>10, <1>11, <1>12, <1>13
     DEF Next, Handle

\* GetFileFromCache hands out a cached file, which is open.
LEMMA GetStep ==
  ASSUME FileInv, TypeOK', NEW r \in Reqs, GetFileFromCache(r)
  PROVE  FileInv' /\ LeaseStep
<1> DEFINE g == cache[kind[r]]
<1> USE DEF GetFileFromCache, Go, disk, cleaner
<1>1. CASE g = NoFile
  <2>1. UNCHANGED <<what, seeks, cache, made, readers, closed, pending, releasing, idle, file>>
    BY <1>1
  <2>2. \A q \in Reqs : /\ Holds(q) <=> Holds(q)'
                        /\ Owns(q) <=> Owns(q)'
                        /\ NotOpened(q)' => NotOpened(q)
    BY <1>1 DEF FileInv, TypeOK, Holds, Owns, NotOpened
  <2> QED
    BY <2>1, <2>2, QuietStep
<1>2. CASE g # NoFile
  <2>0. kind[r] \in Kinds /\ g \in Reqs /\ Open(g)
    BY <1>2 DEF FileInv, TypeOK, Custody
  <2>1. /\ ~Holds(r) /\ Holds(r)' /\ NotOpened(r)
        /\ \A q \in Reqs : /\ q # r => (Holds(q) <=> Holds(q)')
                           /\ Owns(q) <=> Owns(q)'
                           /\ NotOpened(q)' => NotOpened(q)
    BY <1>2 DEF FileInv, TypeOK, Holds, Owns, NotOpened
  <2>2. ReadersCounted' /\ LeaseStep
    BY <1>2, <2>0, <2>1, TakeCounted DEF Open
  <2>3. NoHandleLeft' /\ OwnFiles'
    BY <2>1 DEF FileInv, NoHandleLeft, OwnFiles
  <2>4. Custody'
    BY <2>1 DEF FileInv, Custody, Open, TypeOK
  <2>5. InUse'
    <3>1. file'[r] = g /\ \A q \in Reqs : q # r => file'[q] = file[q]
      BY <1>2 DEF FileInv, TypeOK
    <3> QED
      BY <1>2, <2>0, <2>1, <3>1 DEF FileInv, InUse
  <2> QED
    BY <2>2, <2>3, <2>4, <2>5 DEF FileInv
<1> QED
  BY <1>1, <1>2

\* The branches of opening a file: an answer or a wait, or newFSFile.
LEMMA OpeningStep ==
  ASSUME FileInv, TypeOK', NEW r \in Reqs,
         \/ openFSFile(r) \/ removeStale(r) \/ compressAndOpenFSFile(r)
         \/ compressFileNolock(r) \/ newCompressedFSFile(r)
  PROVE  FileInv' /\ LeaseStep
<1>1. /\ NotOpened(r)
      /\ UNCHANGED <<what, seeks, file, cache, readers, closed, idle, pending, releasing>>
  BY DEF openFSFile, removeStale, compressAndOpenFSFile, compressFileNolock,
         newCompressedFSFile, NotOpened, disk, files, cleaner
<1>2. CASE HasFile(r) \/ LeaveOpen(r)
  BY <1>1, <1>2, OpenStep DEF HasFile, LeaveOpen, Answer, Go
<1>3. CASE ~(HasFile(r) \/ LeaveOpen(r))
  <2>1. /\ UNCHANGED made
        /\ \E p \in {"open", "remove", "lock", "locked", "reopen", "done"} :
             pc' = [pc EXCEPT ![r] = p]
    BY <1>3 DEF openFSFile, openIndexFile, newFSFile, removeStale, compressAndOpenFSFile,
         compressFileNolock, newCompressedFSFile, Answer, Go, files
  <2>2. \A q \in Reqs : /\ Holds(q) <=> Holds(q)'
                        /\ Owns(q) <=> Owns(q)'
                        /\ NotOpened(q)' => NotOpened(q)
    BY <1>1, <2>1 DEF FileInv, TypeOK, Holds, Owns, NotOpened
  <2> QED
    BY <1>1, <2>1, <2>2, QuietStep
<1> QED
  BY <1>2, <1>3

\* SetFileToCache caches the request's own file, or takes the one it finds.
LEMMA SetStep ==
  ASSUME FileInv, TypeOK', NEW r \in Reqs, SetFileToCache(r)
  PROVE  FileInv' /\ LeaseStep
<1>k. PICK k \in Kinds : k = kind[r]
  BY DEF FileInv, TypeOK
<1>g. PICK g \in Reqs : g = IF cache[k] = NoFile THEN r ELSE cache[k]
  BY DEF FileInv, TypeOK
<1>0. /\ k \in Kinds /\ g \in Reqs /\ g \in made /\ closed[g] = 0
      /\ pc[r] = "set" /\ Owns(r) /\ ~Holds(r)
      /\ g # r => cache[k] = g /\ Open(g) /\ g \notin pending \cup releasing
      /\ g = r => cache[k] = NoFile
  BY <1>g DEF FileInv, TypeOK, Custody, OwnFiles, Open, Owns, Holds, SetFileToCache
<1>1. /\ cache' = [cache EXCEPT ![k] = g] /\ readers' = [readers EXCEPT ![g] = @ + 1]
      /\ file' = [file EXCEPT ![r] = g] /\ Go(r, IF g = r THEN "have" ELSE "drop")
      /\ UNCHANGED <<what, seeks, made, closed, idle, pending, releasing>>
  BY <1>k, <1>g DEF SetFileToCache, disk, cleaner
<1>2. /\ Holds(r)' /\ (g # r <=> Owns(r)') /\ ~NotOpened(r)'
      /\ \A q \in Reqs : q # r => /\ Holds(q) <=> Holds(q)'
                                  /\ Owns(q) <=> Owns(q)'
                                  /\ NotOpened(q) <=> NotOpened(q)'
  BY <1>1 DEF FileInv, TypeOK, Go, Holds, Owns, NotOpened
<1>3. ReadersCounted' /\ LeaseStep
  BY <1>0, <1>1, <1>2, TakeCounted
<1>4. NoHandleLeft' /\ OwnFiles'
  BY <1>0, <1>1, <1>2 DEF FileInv, NoHandleLeft, OwnFiles
<1>5. Custody'
  <2>1. \A f \in Reqs : Open(f) => f # r /\ Open(f)'
    BY <1>0, <1>1, <1>2 DEF Open
  <2>2. Open(g)' /\ g \notin pending \cup releasing
    <3>1. Open(g)'
      BY <1>0, <1>1, <1>2 DEF Open
    <3>2. ~Open(r) /\ \A f \in pending \cup releasing : Open(f)
      BY <1>0 DEF Open, FileInv, Custody
    <3> QED
      BY <1>0, <3>1, <3>2
  <2>3. cache'[k] = g /\ \A j \in Kinds : j # k => cache'[j] = cache[j]
    BY <1>0, <1>1 DEF FileInv, TypeOK
  <2>4. \A j \in Kinds : cache'[j] # NoFile =>
          Open(cache[j])' /\ cache'[j] \notin pending' \cup releasing'
    <3> SUFFICES ASSUME NEW j \in Kinds, cache'[j] # NoFile
                 PROVE  Open(cache[j])' /\ cache'[j] \notin pending' \cup releasing'
      OBVIOUS
    <3>1. CASE j = k
      BY <1>1, <2>2, <2>3, <3>1 DEF Open
    <3>2. CASE j # k
      <4>1. cache'[j] = cache[j] /\ cache[j] \in Reqs /\ Open(cache[j])
            /\ cache[j] \notin pending \cup releasing
        BY <2>3, <3>2 DEF FileInv, Custody, TypeOK
      <4> QED
        BY <1>1, <2>1, <4>1 DEF Open
    <3> QED
      BY <3>1, <3>2
  <2>5. \A f \in pending' \cup releasing' : Open(f)'
    BY <1>1, <2>1 DEF FileInv, Custody, TypeOK
  <2> QED
    BY <1>1, <2>4, <2>5 DEF FileInv, Custody
<1>6. InUse'
  <2>1. file'[r] = g /\ \A q \in Reqs : q # r => file'[q] = file[q]
    BY <1>1 DEF FileInv, TypeOK
  <2>2. cache'[k] = g /\ \A j \in Kinds : cache[j] # NoFile => cache'[j] = cache[j]
    BY <1>0, <1>1 DEF FileInv, TypeOK
  <2> QED
    BY <1>0, <1>1, <1>2, <2>1, <2>2, FSAssumption DEF FileInv, InUse
<1> QED
  BY <1>3, <1>4, <1>5, <1>6 DEF FileInv

\* SetFileToCache closes the request's own file when it took another one.
LEMMA DropStep ==
  ASSUME FileInv, TypeOK', NEW r \in Reqs, dropOwnFile(r)
  PROVE  FileInv' /\ LeaseStep
<1>1. /\ Owns(r) /\ r \in made /\ closed[r] = 0 /\ ~Open(r)
  BY DEF dropOwnFile, FileInv, OwnFiles, Owns, Open
<1>2. (\A k \in Kinds : cache[k] # r) /\ r \notin pending \cup releasing
  BY <1>1, FSAssumption DEF FileInv, Custody
<1>3. /\ Release(r) /\ ~Owns(r)'
      /\ UNCHANGED <<what, seeks, file, cache, made, readers, pending, releasing>>
      /\ \A q \in Reqs : /\ Holds(q) <=> Holds(q)'
                         /\ q # r => (Owns(q) <=> Owns(q)')
                         /\ NotOpened(q)' => NotOpened(q)
  BY DEF dropOwnFile, Go, disk, cleaner, FileInv, TypeOK, Holds, Owns, NotOpened
<1> QED
  BY <1>1, <1>2, <1>3, CloseStep

\* A file is opened for reading, or it is given up.
LEMMA ReaderStep ==
  ASSUME FileInv, TypeOK', NEW r \in Reqs, NewReader(r)
  PROVE  FileInv' /\ LeaseStep
<1>1. /\ Holds(r) /\ ~Owns(r) /\ file[r] \in Reqs /\ pc[r] = "have"
      /\ UNCHANGED <<what, seeks, file, cache, made, closed, pending, releasing>>
  BY DEF NewReader, FileInv, InUse, TypeOK, Holds, Owns, disk, cleaner
<1>2. CASE Answer(r, "error") /\ decReadersCount(file[r]) /\ UNCHANGED idle
  BY <1>1, <1>2, LeaveStep DEF Answer, Go
<1>3. CASE Go(r, "serve") /\ UNCHANGED readers
  <2>1. \A q \in Reqs : /\ Holds(q) <=> Holds(q)'
                        /\ Owns(q) <=> Owns(q)'
                        /\ NotOpened(q)' => NotOpened(q)
    BY <1>1, <1>3 DEF FileInv, TypeOK, Go, Holds, Owns, NotOpened
  <2>2. ASSUME NEW f \in Reqs PROVE idle'[f] = idle[f] \/ idle'[f] = 0 \/ closed[f] = 0
    BY <1>1 DEF NewReader, FileInv, TypeOK, NoHandleLeft
  <2> QED
    BY <1>1, <1>3, <2>1, <2>2, QuietStep
<1> QED
  BY <1>2, <1>3 DEF NewReader

\* A handle that becomes idle goes back to an open file: the file is in use.
LEMMA CloseReaderStep ==
  ASSUME FileInv, TypeOK', NEW r \in Reqs, CloseReader(r)
  PROVE  FileInv' /\ LeaseStep
<1>1. /\ Holds(r) /\ ~Owns(r) /\ pc[r] = "serve"
      /\ UNCHANGED <<what, seeks, file, cache, made, readers, closed, pending, releasing>>
  BY DEF CloseReader, Holds, Owns, disk, cleaner
<1>2. CASE ~seeks /\ Answer(r, "file") /\ UNCHANGED idle
  BY <1>1, <1>2, LeaveStep DEF Answer, Go
<1>3. CASE Go(r, "dec")
  <2>1. closed[file[r]] = 0
    BY <1>1 DEF FileInv, InUse, Custody, Open
  <2>2. \A f \in Reqs : idle'[f] = idle[f] \/ idle'[f] = 0 \/ closed[f] = 0
    BY <2>1 DEF CloseReader, FileInv, TypeOK
  <2>3. \A q \in Reqs : /\ Holds(q) <=> Holds(q)'
                        /\ Owns(q) <=> Owns(q)'
                        /\ NotOpened(q)' => NotOpened(q)
    BY <1>1, <1>3 DEF FileInv, TypeOK, Go, Holds, Owns, NotOpened
  <2> QED
    BY <1>1, <2>2, <2>3, QuietStep
<1> QED
  BY <1>2, <1>3 DEF CloseReader

\* cleanCache moves the expired files to pendingFiles if they have a reader.
LEMMA CleanStep ==
  ASSUME FileInv, TypeOK', cleanCache
  PROVE  FileInv' /\ LeaseStep
<1> DEFINE expired == {f \in old : \E k \in Kinds : cache[k] = f}
           gone == pending \cup expired
<1>0. /\ releasing = {}
      /\ releasing' = {f \in gone : readers[f] = 0}
      /\ pending' = {f \in gone : readers[f] > 0}
      /\ cache' = [k \in Kinds |-> IF cache[k] \in expired THEN NoFile ELSE cache[k]]
      /\ UNCHANGED <<what, seeks, pc, file, made, readers, closed, idle>>
  BY DEF cleanCache, disk, reqs, files
<1>1. expired \subseteq Reqs /\ gone \subseteq Reqs /\ \A f \in gone : Open(f)
  BY FSAssumption DEF FileInv, TypeOK, Custody
<1>2. \A f : /\ Holders(f)' = Holders(f) /\ Open(f)' = Open(f) /\ Holds(f)' = Holds(f)
             /\ Owns(f)' = Owns(f) /\ NotOpened(f)' = NotOpened(f)
  BY <1>0 DEF Holders, Open, Holds, Owns, NotOpened
<1>3. ReadersCounted' /\ NoHandleLeft' /\ OwnFiles'
  BY <1>0, <1>2 DEF FileInv, ReadersCounted, NoHandleLeft, OwnFiles
<1>4. Custody'
  <2>1. \A f \in pending' \cup releasing' : Open(f)'
    BY <1>0, <1>1, <1>2
  <2>2. pending' \cap releasing' = {}
    BY <1>0, <1>1 DEF FileInv, TypeOK
  <2>3. ASSUME NEW k \in Kinds, cache'[k] # NoFile
        PROVE  Open(cache[k])' /\ cache'[k] \notin pending' \cup releasing'
    <3>1. cache'[k] = cache[k] /\ cache[k] \notin expired
      BY <1>0, <2>3
    <3>2. cache[k] \notin pending /\ Open(cache[k])
      BY <2>3, <3>1 DEF FileInv, Custody
    <3> QED
      BY <1>0, <1>2, <3>1, <3>2
  <2> QED
    BY <2>1, <2>2, <2>3 DEF Custody
<1>5. InUse'
  <2> SUFFICES ASSUME NEW r \in Reqs, Holds(r)
               PROVE  /\ file[r] # NoFile
                      /\ file[r] \in pending' \/ \E k \in Kinds : cache'[k] = file[r]
    BY <1>0, <1>2 DEF InUse
  <2>1. /\ file[r] # NoFile /\ file[r] \in Reqs
        /\ file[r] \in pending \/ \E k \in Kinds : cache[k] = file[r]
    BY DEF FileInv, InUse, TypeOK
  <2>2. readers[file[r]] > 0
    <3>1. readers[file[r]] # 0
      BY <2>1, HeldIsRead DEF FileInv
    <3> QED
      BY <2>1, <3>1 DEF FileInv, TypeOK
  <2>3. CASE file[r] \in gone
    BY <1>0, <2>1, <2>2, <2>3
  <2>4. CASE file[r] \notin gone
    <3>1. PICK k \in Kinds : cache[k] = file[r]
      BY <2>1, <2>4
    <3> QED
      BY <1>0, <2>1, <2>4, <3>1
  <2> QED
    BY <2>3, <2>4
<1>6. LeaseStep
  BY <1>0, <1>2 DEF LeaseStep, LeaseHandle, LeaseUsers
<1> QED
  BY <1>3, <1>4, <1>5, <1>6 DEF FileInv

\* Every step of FS keeps the invariant and is a step of FileLease or none.
LEMMA FileStep == FileInv /\ [Next]_vars => FileInv' /\ LeaseStep
<1> SUFFICES ASSUME FileInv, [Next]_vars PROVE FileInv' /\ LeaseStep
  OBVIOUS
<1>0. TypeOK'
  BY TypeStep DEF FileInv
<1>1. ASSUME NEW r \in Reqs, GetFileFromCache(r) PROVE FileInv' /\ LeaseStep
  BY <1>0, <1>1, GetStep
<1>2. ASSUME NEW r \in Reqs,
             \/ openFSFile(r) \/ removeStale(r) \/ compressAndOpenFSFile(r)
             \/ compressFileNolock(r) \/ newCompressedFSFile(r)
      PROVE  FileInv' /\ LeaseStep
  BY <1>0, <1>2, OpeningStep
<1>3. ASSUME NEW r \in Reqs, SetFileToCache(r) PROVE FileInv' /\ LeaseStep
  BY <1>0, <1>3, SetStep
<1>4. ASSUME NEW r \in Reqs, dropOwnFile(r) PROVE FileInv' /\ LeaseStep
  BY <1>0, <1>4, DropStep
<1>5. ASSUME NEW r \in Reqs, NotModified(r) \/ DoneReading(r) PROVE FileInv' /\ LeaseStep
  <2>1. /\ Holds(r) /\ ~Owns(r) /\ decReadersCount(file[r])
        /\ pc' = [pc EXCEPT ![r] = "done"]
        /\ UNCHANGED <<what, seeks, file, cache, made, closed, idle, pending, releasing>>
    BY <1>5 DEF NotModified, DoneReading, Answer, Go, Holds, Owns, disk, cleaner
  <2> QED
    BY <1>0, <2>1, LeaveStep
<1>6. ASSUME NEW r \in Reqs, NewReader(r) PROVE FileInv' /\ LeaseStep
  BY <1>0, <1>6, ReaderStep
<1>7. ASSUME NEW r \in Reqs, CloseReader(r) PROVE FileInv' /\ LeaseStep
  BY <1>0, <1>7, CloseReaderStep
<1>8. ASSUME UNCHANGED <<what, seeks, pc, file, cache, made, readers, closed, idle, pending, releasing>>
      PROVE  FileInv' /\ LeaseStep
  <2>1. \A q \in Reqs : /\ Holds(q) <=> Holds(q)'
                        /\ Owns(q) <=> Owns(q)'
                        /\ NotOpened(q)' => NotOpened(q)
    BY <1>8 DEF Holds, Owns, NotOpened
  <2> QED
    BY <1>0, <1>8, <2>1, QuietStep
<1>9. ASSUME NEW f \in Reqs, releaseFile(f) PROVE FileInv' /\ LeaseStep
  <2>1. Open(f) /\ f \notin pending /\ \A k \in Kinds : cache[k] # f
    BY <1>9, FSAssumption DEF releaseFile, FileInv, Custody
  <2>2. /\ Release(f) /\ f \notin releasing' /\ releasing' \subseteq releasing
        /\ UNCHANGED <<what, seeks, pc, file, cache, made, readers, pending>>
    BY <1>9 DEF releaseFile, disk, reqs
  <2>3. ~Owns(f)' /\ \A q \in Reqs : /\ Holds(q) <=> Holds(q)'
                                     /\ Owns(q) <=> Owns(q)'
                                     /\ NotOpened(q)' => NotOpened(q)
    BY <2>1, <2>2 DEF Open, Holds, Owns, NotOpened
  <2> QED
    BY <1>0, <2>1, <2>2, <2>3, CloseStep DEF Open
<1>10. CASE cleanCache
  BY <1>0, <1>10, CleanStep
<1>11. ASSUME NEW f \in Reqs, Expire(f) PROVE FileInv' /\ LeaseStep
  BY <1>8, <1>11 DEF Expire, disk, reqs, files
<1>12. CASE Modify
  BY <1>8, <1>12 DEF Modify, reqs, files, cleaner
<1>13. CASE UNCHANGED vars
  BY <1>8, <1>13 DEF vars, disk, reqs, files, cleaner
<1> QED
  BY <1>1, <1>2, <1>3, <1>4, <1>5, <1>6, <1>7, <1>9, <1>10, <1>11, <1>12, <1>13
     DEF Next, Handle

-----------------------------------------------------------------------------
(* The theorems.                                                           *)

\* FileInv is an invariant of FS.
LEMMA FileInvariant == Spec => []FileInv
<1>1. Init => FileInv
  BY InitFile
<1>2. FileInv /\ [Next]_vars => FileInv'
  BY FileStep
<1> QED
  BY <1>1, <1>2, PTL DEF Spec

\* The fields of every fsFile and of every request keep their types, for any
\* number of requests.
THEOREM FilesTyped == Spec => []TypeOK
<1>1. FileInv => TypeOK
  BY DEF FileInv
<1> QED
  BY <1>1, FileInvariant, PTL

\* readersCount of a file is never below the number of requests that hold it, and
\* is that number when files can seek: after a hit, a lost race in SetFileToCache,
\* a failed NewReader and every other way out of handleRequest, whatever
\* cleanCache does meanwhile.
THEOREM ReadersAreCounted == Spec => []ReadersCounted
<1>1. FileInv => ReadersCounted
  BY DEF FileInv
<1> QED
  BY <1>1, FileInvariant, PTL

\* bigFileReader.Close never puts a handle into a file that Release has closed:
\* cleanCache releases no file that somebody reads.
THEOREM HandlesAreClosed == Spec => []NoHandleLeft
<1>1. FileInv => NoHandleLeft
  BY DEF FileInv
<1> QED
  BY <1>1, FileInvariant, PTL

\* FS implements FileLease: a file is closed once, and by then nobody uses it
\* (SetFileToCache, cleanCache and Release, against every request).
THEOREM CacheKeepsLease == Spec => LeaseKept
<1>1. Init => Lease!LeaseInit
  BY InitFile
<1>2. FileInv /\ [Next]_vars => [Lease!LeaseNext]_<<LeaseHandle, LeaseUsers>>
  BY FileStep DEF LeaseStep
<1> QED
  BY <1>1, <1>2, FileInvariant, PTL DEF Spec, LeaseKept, Lease!LeaseSpec

=============================================================================
