--------------------------------- MODULE FS ---------------------------------
\* The request handler of FS (fs.go) and its cache of open files: requests for
\* one path, served concurrently, with and without compression, while entries
\* expire, the cleaner runs and the file is modified.
EXTENDS Integers, FiniteSets

CONSTANTS
  Reqs,    \* requests; a file opened for request r is the fsFile r
  NoFile

ASSUME FSAssumption == NoFile \notin Reqs /\ IsFiniteSet(Reqs)

VARIABLES
  what,       \* what the path is: "small" or "big" file, or "dir"
  seeks,      \* whether its files can seek: those of another fs.FS than osFS may not
  writable,   \* whether compressed files can be stored
  comp,       \* the compressed file on disk: "none", "stale" or "fresh"
  flock,      \* the holder of the lock of getFileLock
  pc,         \* pc[r]: where handleRequest is
  kind,       \* kind[r]: which cache, "plain" or "gzip"
  compress,   \* compress[r]: mustCompress
  file,       \* file[r]: the fsFile the request holds
  ans,        \* ans[r]: how it was answered
  cache,      \* cache[k]: the cached fsFile of the path
  made,       \* files that were opened for an fsFile, or index pages
  leaked,     \* those an error return has left open, with no fsFile
  readers,    \* readers[f]: readersCount
  closed,     \* closed[f]: how often Release closed ff.f
  idle,       \* idle[f]: open handles in bigFiles
  old,        \* cached files past the cacheDuration
  pending,    \* pendingFiles of the cleaner
  releasing   \* filesToRelease of a run of the cleaner

disk == <<what, seeks, writable, comp, flock>>
reqs == <<pc, kind, compress, file, ans>>
files == <<made, leaked, readers, closed, idle>>
cleaner == <<old, pending, releasing>>
vars == <<disk, reqs, cache, files, cleaner>>

Kinds == {"plain", "gzip"}

\* Every variable has the type of the field or local it models.
TypeOK ==
  /\ what \in {"small", "big", "dir"} /\ seeks \in BOOLEAN /\ writable \in BOOLEAN
  /\ comp \in {"none", "stale", "fresh"} /\ flock \in Reqs \cup {NoFile}
  /\ pc \in [Reqs -> {"get", "open", "remove", "lock", "locked", "reopen", "set",
                      "drop", "have", "serve", "dec", "done"}]
  /\ kind \in [Reqs -> Kinds] /\ compress \in [Reqs -> BOOLEAN]
  /\ file \in [Reqs -> Reqs \cup {NoFile}]
  /\ ans \in [Reqs -> {"none", "file", "notModified", "redirect", "error"}]
  /\ cache \in [Kinds -> Reqs \cup {NoFile}]
  /\ made \subseteq Reqs /\ leaked \subseteq Reqs /\ readers \in [Reqs -> Nat]
  /\ closed \in [Reqs -> Nat] /\ idle \in [Reqs -> Nat]
  /\ old \subseteq Reqs /\ pending \subseteq Reqs /\ releasing \subseteq Reqs

\* A request with a Range header is not compressed; every other one may be.  Every
\* file of another fs.FS is served by a bigFileReader, and no compressed file is
\* stored there.
Init ==
  /\ what \in {"small", "big", "dir"} /\ seeks \in BOOLEAN /\ writable \in BOOLEAN
  /\ ~seeks => what # "small" /\ ~writable
  /\ comp \in {"none", "stale", "fresh"} /\ flock = NoFile
  /\ pc = [r \in Reqs |-> "get"]
  /\ kind \in [Reqs -> Kinds]
  /\ compress = [r \in Reqs |-> kind[r] = "gzip"]
  /\ file = [r \in Reqs |-> NoFile] /\ ans = [r \in Reqs |-> "none"]
  /\ cache = [k \in Kinds |-> NoFile]
  /\ made = {} /\ leaked = {} /\ readers = [f \in Reqs |-> 0] /\ closed = [f \in Reqs |-> 0]
  /\ idle = [f \in Reqs |-> 0]
  /\ old = {} /\ pending = {} /\ releasing = {}

Go(r, next) == pc' = [pc EXCEPT ![r] = next]
Answer(r, a) == ans' = [ans EXCEPT ![r] = a] /\ Go(r, "done")

----------------------------------------------------------------------------
\* Opening files.

\* Release closes ff.f, if there is one, and the idle handles.
Release(f) ==
  /\ closed' = IF what = "dir" THEN closed ELSE [closed EXCEPT ![f] = @ + 1]
  /\ idle' = [idle EXCEPT ![f] = 0]

decReadersCount(f) ==
  readers' = [readers EXCEPT ![f] = IF @ > 0 THEN @ - 1 ELSE 0]

GetFileFromCache(r) ==
  LET f == cache[kind[r]]
  IN  /\ pc[r] = "get"
      /\ \/ /\ f # NoFile
            /\ readers' = [readers EXCEPT ![f] = @ + 1]
            /\ file' = [file EXCEPT ![r] = f]
            /\ Go(r, "have")
         \/ f = NoFile /\ Go(r, "open") /\ UNCHANGED <<readers, file>>
      /\ UNCHANGED <<disk, kind, compress, ans, cache, made, leaked, closed, idle, cleaner>>

\* The request has a file of its own, which is not in the cache.
HasFile(r) ==
  made' = made \cup {r} /\ Go(r, "set") /\ UNCHANGED <<leaked, ans>>

\* An error is returned, and the file that was opened is not closed.
LeaveOpen(r) ==
  made' = made \cup {r} /\ leaked' = leaked \cup {r} /\ Answer(r, "error")

\* newFSFile does not close the file if it cannot read its first bytes.
newFSFile(r) == HasFile(r) \/ LeaveOpen(r)

\* An index page made by createDirIndex: a file without ff.f.
openIndexFile(r) == what = "dir" /\ HasFile(r)

\* A directory without the slash is redirected, one with it gets an index page;
\* what cannot be opened is an error.
openFSFile(r) ==
  /\ pc[r] = "open"
  /\ \/ what = "dir" /\ Answer(r, "redirect") /\ UNCHANGED <<made, leaked>>
     \/ Answer(r, "error") /\ UNCHANGED <<made, leaked>>
     \/ openIndexFile(r)
     \/ what # "dir" /\ (~compress[r] \/ comp = "fresh") /\ newFSFile(r)
     \/ what # "dir" /\ compress[r] /\ comp = "stale" /\ Go(r, "remove")
        /\ UNCHANGED <<made, leaked, ans>>
     \/ what # "dir" /\ compress[r] /\ comp = "none" /\ Go(r, "lock")
        /\ UNCHANGED <<made, leaked, ans>>
  /\ UNCHANGED <<disk, kind, compress, file, cache, readers, closed, idle, cleaner>>

\* os.Remove of a compressed file found stale, whatever it is by now; it is not
\* in another fs.FS.
removeStale(r) ==
  /\ pc[r] = "remove"
  /\ comp' = IF seeks THEN "none" ELSE comp
  /\ Go(r, "lock")
  /\ UNCHANGED <<what, seeks, writable, flock, kind, compress, file, ans, cache, files, cleaner>>

\* The original is opened; if it does not compress well, or cannot seek, it is
\* served as it is, else the lock of the compressed file is taken.  It is left open
\* if the directory for the compressed file cannot be made.
compressAndOpenFSFile(r) ==
  /\ pc[r] = "lock"
  /\ \/ seeks /\ flock = NoFile /\ flock' = r /\ Go(r, "locked") /\ UNCHANGED <<made, leaked, ans>>
     \/ newFSFile(r) /\ UNCHANGED flock
     \/ seeks /\ LeaveOpen(r) /\ UNCHANGED flock
     \/ Answer(r, "error") /\ UNCHANGED <<flock, made, leaked>>
  /\ UNCHANGED <<what, seeks, writable, comp, kind, compress, file, cache, readers, closed, idle, cleaner>>

\* Another request has stored the file, or this one does, or fails to, or may
\* not and goes on without compression.
compressFileNolock(r) ==
  /\ pc[r] = "locked"
  /\ \/ comp # "none" /\ Go(r, "reopen") /\ UNCHANGED <<comp, flock, compress, ans>>
     \/ /\ comp = "none" /\ writable
        /\ comp' = "fresh" /\ Go(r, "reopen")
        /\ UNCHANGED <<flock, compress, ans>>
     \/ /\ comp = "none" /\ writable
        /\ flock' = NoFile /\ Answer(r, "error")
        /\ UNCHANGED <<comp, compress>>
     \/ /\ comp = "none" /\ ~writable
        /\ flock' = NoFile
        /\ compress' = [compress EXCEPT ![r] = FALSE]
        /\ Go(r, "open")
        /\ UNCHANGED <<comp, ans>>
  /\ UNCHANGED <<what, seeks, writable, kind, file, cache, files, cleaner>>

\* The end of compressFileNolock and the unlock.
newCompressedFSFile(r) ==
  /\ pc[r] = "reopen"
  /\ flock' = NoFile
  /\ IF comp = "none" THEN Answer(r, "error") /\ UNCHANGED <<made, leaked>>
     ELSE newFSFile(r)
  /\ UNCHANGED <<what, seeks, writable, comp, kind, compress, file, cache, readers, closed, idle, cleaner>>

\* Mutant: the file found in the cache is used without counting the reader.
SetFileToCacheUncounted(r) ==
  LET k == kind[r]
      f == IF cache[k] = NoFile THEN r ELSE cache[k]
  IN  /\ pc[r] = "set"
      /\ cache' = [cache EXCEPT ![k] = f]
      /\ readers' = IF f = r THEN [readers EXCEPT ![f] = @ + 1] ELSE readers
      /\ file' = [file EXCEPT ![r] = f]
      /\ Go(r, IF f = r THEN "have" ELSE "drop")
      /\ UNCHANGED <<disk, kind, compress, ans, made, leaked, closed, idle, cleaner>>

SetFileToCache(r) ==
  LET k == kind[r]
      f == IF cache[k] = NoFile THEN r ELSE cache[k]
  IN  /\ pc[r] = "set"
      /\ cache' = [cache EXCEPT ![k] = f]
      /\ readers' = [readers EXCEPT ![f] = @ + 1]
      /\ file' = [file EXCEPT ![r] = f]
      /\ Go(r, IF f = r THEN "have" ELSE "drop")
      /\ UNCHANGED <<disk, kind, compress, ans, made, leaked, closed, idle, cleaner>>

\* SetFileToCache, after the lock: the file of another request is used.
dropOwnFile(r) ==
  /\ pc[r] = "drop"
  /\ Release(r) /\ Go(r, "have")
  /\ UNCHANGED <<disk, kind, compress, file, ans, cache, made, leaked, readers, cleaner>>

----------------------------------------------------------------------------
\* Serving a file the request holds.

NotModified(r) ==
  /\ pc[r] = "have"
  /\ decReadersCount(file[r]) /\ Answer(r, "notModified")
  /\ UNCHANGED <<disk, kind, compress, file, cache, made, leaked, closed, idle, cleaner>>

\* Mutant: the reader is given up also when it was opened.
NewReaderUncounted(r) ==
  LET f == file[r]
  IN  /\ pc[r] = "have" /\ Go(r, "serve") /\ decReadersCount(f)
      /\ idle' = IF what = "big" /\ idle[f] > 0 THEN [idle EXCEPT ![f] = @ - 1] ELSE idle
      /\ UNCHANGED <<disk, kind, compress, file, ans, cache, made, leaked, closed, cleaner>>

\* NewReader: small files share ff.f, big ones take an idle handle or open
\* another one, which may fail.
NewReader(r) ==
  LET f == file[r]
  IN  /\ pc[r] = "have"
      /\ \/ what # "big" /\ Go(r, "serve") /\ UNCHANGED <<readers, idle, ans>>
         \/ what = "big" /\ idle[f] > 0 /\ Go(r, "serve")
            /\ idle' = [idle EXCEPT ![f] = @ - 1] /\ UNCHANGED <<readers, ans>>
         \/ what = "big" /\ idle[f] = 0 /\ Go(r, "serve") /\ UNCHANGED <<readers, idle, ans>>
         \/ what = "big" /\ idle[f] = 0 /\ decReadersCount(f) /\ Answer(r, "error")
            /\ UNCHANGED idle
      /\ UNCHANGED <<disk, kind, compress, file, cache, made, leaked, closed, cleaner>>

\* The reader is closed by the writer of the response, or at once for a HEAD
\* request and a range that is not satisfiable.  The handle of a big file
\* becomes idle, or is closed if it cannot be rewound; if it cannot seek at all
\* Close returns without decReadersCount.
CloseReader(r) ==
  /\ pc[r] = "serve"
  /\ \/ seeks /\ what = "big" /\ Go(r, "dec") /\ idle' = [idle EXCEPT ![file[r]] = @ + 1]
        /\ UNCHANGED ans
     \/ (seeks \/ what = "dir") /\ Go(r, "dec") /\ UNCHANGED <<idle, ans>>
     \/ ~seeks /\ what = "big" /\ Answer(r, "file") /\ UNCHANGED idle
  /\ UNCHANGED <<disk, kind, compress, file, cache, made, leaked, readers, closed, cleaner>>

DoneReading(r) ==
  /\ pc[r] = "dec"
  /\ decReadersCount(file[r]) /\ Answer(r, "file")
  /\ UNCHANGED <<disk, kind, compress, file, cache, made, leaked, closed, idle, cleaner>>

----------------------------------------------------------------------------
\* The cleaner, and the world.

Expire(f) ==
  /\ f \notin old /\ \E k \in Kinds : cache[k] = f
  /\ old' = old \cup {f}
  /\ UNCHANGED <<disk, reqs, cache, files, pending, releasing>>

\* Mutant: an expired file is released although it is read.
cleanCacheInUse ==
  LET expired == {f \in old : \E k \in Kinds : cache[k] = f}
  IN  /\ releasing = {}
      /\ releasing' = expired /\ pending' = {}
      /\ cache' = [k \in Kinds |-> IF cache[k] \in expired THEN NoFile ELSE cache[k]]
      /\ UNCHANGED <<disk, reqs, files, old>>

\* Mutant: the files still read are forgotten.
cleanCacheForgets ==
  LET expired == {f \in old : \E k \in Kinds : cache[k] = f}
  IN  /\ releasing = {}
      /\ releasing' = {f \in expired : readers[f] = 0} /\ pending' = {}
      /\ cache' = [k \in Kinds |-> IF cache[k] \in expired THEN NoFile ELSE cache[k]]
      /\ UNCHANGED <<disk, reqs, files, old>>

\* cleanCache, under the lock: expired files leave the cache; those nobody
\* reads are released, the others are looked at again in the next run.
cleanCache ==
  LET expired == {f \in old : \E k \in Kinds : cache[k] = f}
      gone == pending \cup expired
  IN  /\ releasing = {}
      /\ releasing' = {f \in gone : readers[f] = 0}
      /\ pending' = {f \in gone : readers[f] > 0}
      /\ cache' = [k \in Kinds |-> IF cache[k] \in expired THEN NoFile ELSE cache[k]]
      /\ UNCHANGED <<disk, reqs, files, old>>

\* cleanCache, after the lock.
releaseFile(f) ==
  /\ f \in releasing
  /\ Release(f) /\ releasing' = releasing \ {f}
  /\ UNCHANGED <<disk, reqs, cache, made, leaked, readers, old, pending>>

\* The original becomes newer than the compressed file.
Modify ==
  /\ comp = "fresh" /\ comp' = "stale"
  /\ UNCHANGED <<what, seeks, writable, flock, reqs, cache, files, cleaner>>

Handle(r) ==
  \/ GetFileFromCache(r) \/ openFSFile(r) \/ removeStale(r) \/ compressAndOpenFSFile(r)
  \/ compressFileNolock(r) \/ newCompressedFSFile(r) \/ SetFileToCache(r) \/ dropOwnFile(r)
  \/ NotModified(r) \/ NewReader(r) \/ CloseReader(r) \/ DoneReading(r)

Next ==
  \/ \E r \in Reqs : Handle(r) \/ Expire(r) \/ releaseFile(r)
  \/ cleanCache \/ Modify

\* Handlers and the cleaner run on goroutines of their own; time passes.
Fairness ==
  /\ \A r \in Reqs : WF_vars(Handle(r)) /\ WF_vars(Expire(r)) /\ WF_vars(releaseFile(r))
  /\ WF_vars(cleanCache)

Spec == Init /\ [][Next]_vars /\ Fairness

----------------------------------------------------------------------------
Holds(r) == pc[r] \in {"drop", "have", "serve", "dec"}
Holders(f) == {r \in Reqs : Holds(r) /\ file[r] = f}

\* readersCount is the number of requests that hold the file, at every point of
\* handleRequest, on every path out of it; it is never lower, and it is higher only
\* by readers that cannot seek (bigFileReader.Close).
ReadersCounted ==
  \A f \in Reqs : /\ readers[f] >= Cardinality(Holders(f))
                  /\ seeks => readers[f] = Cardinality(Holders(f))

\* No handle of a big file is put back (bigFileReader.Close) into a file that has
\* been released (fsFile.Release), where nobody would close it.
NoHandleLeft ==
  \A f \in Reqs : closed[f] > 0 => idle[f] = 0

\* What FileLease sees of a file; an index page has no handle.
LeaseHandle ==
  [f \in Reqs |-> IF f \notin made \/ what = "dir" THEN "none"
                  ELSE IF closed[f] = 0 THEN "open"
                  ELSE IF closed[f] = 1 THEN "closed" ELSE "closedTwice"]
LeaseUsers == [f \in Reqs |-> IF what = "dir" THEN {} ELSE Holders(f)]

Lease == INSTANCE FileLease WITH
  Files <- Reqs, Users <- Reqs, handle <- LeaseHandle, users <- LeaseUsers

\* The cache implements the lease of FileLease: a file in use is open, and it is
\* closed once, after its last user, also when cleanCache found it expired and in
\* use, or when SetFileToCache found another request's file and dropped its own.
LeaseKept == Lease!LeaseSpec

\* Every file that was opened (newFSFile) is closed in the end: by SetFileToCache,
\* or by the cleaner once it expired and its readers are gone.  Not so the files
\* an error return left open (LeaveOpen), and those with a reader that cannot seek.
FilesReleased ==
  \A f \in Reqs : f \in made \ leaked /\ what # "dir" /\ seeks ~> closed[f] = 1
=============================================================================
