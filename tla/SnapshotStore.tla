--------------------------- MODULE SnapshotStore ---------------------------
(***************************************************************************)
(* The authorization document of the gateway: the store that serves one    *)
(* document and refreshes it in the background (snapshot.Store), the two   *)
(* sources it can come from (FileSource, HTTPSource with its restart       *)
(* cache), and the high-water sidecar that carries the highest generation  *)
(* across restarts.                                                        *)
(*                                                                         *)
(* A refresh is cut where another actor can get between its parts: the     *)
(* writer that replaces the document, the requests that read the published *)
(* one, and the end of the process.                                        *)
(***************************************************************************)
EXTENDS Integers, FiniteSets

CONSTANTS Sources,        \* where the document may come from: "file", "http"
          MaxGen,         \* bound: the highest generation a writer uses
          MaxRev,         \* bound: how many documents are ever written
          MaxCrashes,     \* bound: how many times the process ends
          DiskMayFail,    \* whether the cache and the sidecar can fail to be written or read
          AllowReset      \* the LLMGW_ALLOW_GENERATION_RESET settings in use

ASSUME SnapshotAssumption ==
    /\ Sources \in (SUBSET {"file", "http"}) \ {{}}
    /\ MaxGen \in Nat
    /\ MaxRev \in Nat \ {0}
    /\ MaxCrashes \in Nat
    /\ DiskMayFail \in BOOLEAN
    /\ AllowReset \in (SUBSET BOOLEAN) \ {{}}

Gens == 0..MaxGen
Revs == 1..MaxRev

\* A document: the generation it names, whether build accepts it, and an
\* identity of its own (for a file: what stat tells about it).
Doc   == [rev: Revs, gen: Gens, valid: BOOLEAN]
NoDoc == [rev |-> 0, gen |-> 0, valid |-> FALSE]
MaybeDoc == Doc \cup {NoDoc}

VARIABLES
    source,      \* Store.src, chosen by the configuration
    doc,         \* the document its writer has in place now
    up,          \* the process is running
    allow,       \* Store.allowGenReset
    crashes,     \* how often the process ended
    cur,         \* Store.cur
    highWater,   \* Store.highWater
    failing,     \* Store.reloadFailures > 0
    lpc,         \* where the refresh in progress is
    raw,         \* the bytes Load returned
    lastId,      \* FileSource.lastModTime and lastSize
    pendingId,   \* FileSource.pendingModTime and pendingSize
    delivered,   \* HTTPSource.delivered
    pending,     \* HTTPSource.pending
    hwFile,      \* the .highwater sidecar on disk
    cache,       \* HTTPSource.cachePath on disk
    applied,     \* history: the documents ever published
    top,         \* history: the highest generation ever published
    rejected,    \* history: the document the last refresh refused
    waterLost,   \* history: a published generation missed its sidecar write
    unread,      \* history: a start could not read a sidecar that was there
    cacheLost,   \* history: the last published document missed its cache write
    resetUsed    \* history: the process ran with resets allowed

disk    == <<hwFile, cache>>
fileSrc == <<lastId, pendingId>>
httpSrc == <<delivered, pending>>
history == <<applied, top, rejected, waterLost, unread, cacheLost, resetUsed>>
vars    == <<source, doc, up, allow, crashes, cur, highWater, failing, lpc, raw,
             fileSrc, httpSrc, disk, history>>

LoadStates == {"idle", "stat", "read", "fetch", "build", "accept", "water"}

TypeOK ==
    /\ source \in Sources
    /\ doc \in Doc
    /\ up \in BOOLEAN /\ allow \in BOOLEAN /\ crashes \in Nat
    /\ cur \in MaybeDoc
    /\ highWater \in Gens
    /\ failing \in BOOLEAN
    /\ lpc \in LoadStates
    /\ raw \in MaybeDoc
    /\ lastId \in Revs \cup {0} /\ pendingId \in Revs \cup {0}
    /\ delivered \in BOOLEAN /\ pending \in MaybeDoc
    /\ hwFile \in Gens /\ cache \in MaybeDoc
    /\ applied \in SUBSET Doc
    /\ top \in Gens
    /\ rejected \in MaybeDoc
    /\ waterLost \in BOOLEAN /\ unread \in BOOLEAN
    /\ cacheLost \in BOOLEAN /\ resetUsed \in BOOLEAN

Init ==
    /\ source \in Sources
    /\ doc \in {[rev |-> 1, gen |-> g, valid |-> v] : g \in Gens, v \in BOOLEAN}
    /\ up = FALSE
    /\ allow = FALSE
    /\ crashes = 0
    /\ cur = NoDoc /\ highWater = 0 /\ failing = FALSE
    /\ lpc = "idle" /\ raw = NoDoc
    /\ lastId = 0 /\ pendingId = 0
    /\ delivered = FALSE /\ pending = NoDoc
    /\ hwFile = 0 /\ cache = NoDoc
    /\ applied = {} /\ top = 0 /\ rejected = NoDoc
    /\ waterLost = FALSE /\ unread = FALSE
    /\ cacheLost = FALSE /\ resetUsed = FALSE

-----------------------------------------------------------------------------
(***************************************************************************)
(* The writer of the document, outside this process: an operator who       *)
(* replaces the file, or the control plane.  It may restore an old backup  *)
(* or write something no reader accepts.                                   *)
(***************************************************************************)
Publish ==
    /\ doc.rev < MaxRev
    /\ \E g \in Gens, v \in BOOLEAN :
         doc' = [rev |-> doc.rev + 1, gen |-> g, valid |-> v]
    /\ UNCHANGED <<source, up, allow, crashes, cur, highWater, failing, lpc, raw,
                   fileSrc, httpSrc, disk, history>>

-----------------------------------------------------------------------------
(***************************************************************************)
(* The process: start, end, and one refresh.                               *)
(***************************************************************************)

\* Open: the sidecar is read, 0 standing for one that cannot be, and the first
\* refresh begins.
Open ==
    /\ ~up
    /\ up' = TRUE
    /\ allow' \in AllowReset
    /\ resetUsed' = (resetUsed \/ allow')
    /\ \/ highWater' = hwFile /\ UNCHANGED unread
       \/ DiskMayFail /\ hwFile > 0 /\ highWater' = 0 /\ unread' = TRUE
    /\ lpc' = IF source = "file" THEN "stat" ELSE "fetch"
    /\ UNCHANGED <<source, doc, crashes, cur, failing, raw, fileSrc, httpSrc, disk,
                   applied, top, rejected, waterLost, cacheLost>>

\* Everything in memory goes with the process.
Gone ==
    /\ up' = FALSE
    /\ cur' = NoDoc /\ highWater' = 0 /\ failing' = FALSE
    /\ lpc' = "idle" /\ raw' = NoDoc
    /\ lastId' = 0 /\ pendingId' = 0
    /\ delivered' = FALSE /\ pending' = NoDoc

\* The process ends between any two steps.
Crash ==
    /\ up
    /\ crashes < MaxCrashes
    /\ crashes' = crashes + 1
    /\ Gone
    /\ waterLost' = (waterLost \/ (lpc \in {"accept", "water"} /\ cur.gen > hwFile))
    /\ cacheLost' = (cacheLost \/ (source = "http" /\ lpc = "accept"))
    /\ UNCHANGED <<source, doc, allow, disk, applied, top, rejected, unread, resetUsed>>

\* Refresh, on the poll interval or a hangup signal.
RefreshStart ==
    /\ up
    /\ lpc = "idle"
    /\ lpc' = IF source = "file" THEN "stat" ELSE "fetch"
    /\ UNCHANGED <<source, doc, up, allow, crashes, cur, highWater, failing, raw,
                   fileSrc, httpSrc, disk, history>>

\* reload returned an error.  The last good state keeps serving and the
\* failure is counted; with nothing to serve the process does not start.
Fail(why) ==
    /\ rejected' = why
    /\ IF cur = NoDoc
       THEN Gone
       ELSE /\ failing' = TRUE
            /\ lpc' = "idle" /\ raw' = NoDoc
            /\ UNCHANGED <<up, cur, highWater, fileSrc, httpSrc>>
    /\ UNCHANGED <<source, doc, allow, crashes, disk, applied, top, waterLost,
                   unread, cacheLost, resetUsed>>

\* reload found nothing new, which is a success with a state to serve.
Unchanged ==
    /\ failing' = FALSE
    /\ lpc' = "idle"
    /\ UNCHANGED <<source, doc, up, allow, crashes, cur, highWater, raw, fileSrc,
                   httpSrc, disk, history>>

Served == cur.gen

\* Mutant of FileStat: the identity is remembered when the file is offered.
FileStatRemembers ==
    /\ up
    /\ lpc = "stat"
    /\ \/ /\ Served # 0 /\ doc.rev = lastId
          /\ Unchanged
       \/ /\ ~(Served # 0 /\ doc.rev = lastId)
          /\ pendingId' = doc.rev
          /\ lastId' = doc.rev
          /\ lpc' = "read"
          /\ UNCHANGED <<source, doc, up, allow, crashes, cur, highWater, failing,
                         raw, httpSrc, disk, history>>

\* FileSource.Load looks at the file's identity, which becomes the pending one
\* if the read succeeds ...
FileStat ==
    /\ up
    /\ lpc = "stat"
    /\ \/ /\ Served # 0 /\ doc.rev = lastId
          /\ Unchanged
       \/ /\ ~(Served # 0 /\ doc.rev = lastId)
          /\ pendingId' = doc.rev
          /\ lpc' = "read"
          /\ UNCHANGED <<source, doc, up, allow, crashes, cur, highWater, failing,
                         raw, lastId, httpSrc, disk, history>>

\* ... and then reads it; the file may have been replaced in between.
FileRead ==
    /\ up
    /\ lpc = "read"
    /\ raw' = doc
    /\ lpc' = "build"
    /\ UNCHANGED <<source, doc, up, allow, crashes, cur, highWater, failing, fileSrc,
                   httpSrc, disk, history>>

\* The file cannot be read; or the control plane is unreachable, or tells a
\* gateway with no state that nothing changed, and there is no cached document
\* to start on.
LoadFails ==
    /\ up
    /\ \/ lpc \in {"stat", "read"}
       \/ lpc = "fetch" /\ (delivered \/ cache = NoDoc \/ DiskMayFail)
    /\ Fail(NoDoc)

\* Mutant of FetchDocument: the restart cache is written before the document
\* was applied.
FetchDocumentCaches ==
    /\ up
    /\ lpc = "fetch"
    /\ Served # doc.gen \/ Served = 0
    /\ raw' = doc
    /\ pending' = doc
    /\ cache' = doc
    /\ delivered' = TRUE
    /\ lpc' = "build"
    /\ UNCHANGED <<source, doc, up, allow, crashes, cur, highWater, failing, fileSrc,
                   hwFile, history>>

\* HTTPSource.Load got a document.
FetchDocument ==
    /\ up
    /\ lpc = "fetch"
    /\ Served # doc.gen \/ Served = 0
    /\ raw' = doc
    /\ pending' = doc
    /\ delivered' = TRUE
    /\ lpc' = "build"
    /\ UNCHANGED <<source, doc, up, allow, crashes, cur, highWater, failing, fileSrc,
                   disk, history>>

\* The control plane answered a gateway with a state that nothing changed.
FetchUnchanged ==
    /\ up
    /\ lpc = "fetch"
    /\ cur # NoDoc /\ Served = doc.gen
    /\ Unchanged

\* Start on the cached document: the control plane is unreachable, or it told
\* a gateway with no state that nothing changed.
LoadCached ==
    /\ up
    /\ lpc = "fetch"
    /\ ~delivered
    /\ cache # NoDoc
    /\ raw' = cache
    /\ pending' = NoDoc
    /\ delivered' = TRUE
    /\ lpc' = "build"
    /\ UNCHANGED <<source, doc, up, allow, crashes, cur, highWater, failing, fileSrc,
                   disk, history>>

Larger(a, b) == IF a > b THEN a ELSE b

\* Mutant of Floor: only the running process's own generation counts.
FloorOfProcess == cur.gen

Floor == Larger(highWater, cur.gen)

Acceptable == raw.valid /\ (raw.gen >= Floor \/ allow)

\* Mutant of Apply: the sidecar is written before the restart cache.
ApplyRecordsFirst ==
    /\ up
    /\ lpc = "build"
    /\ Acceptable
    /\ cur' = raw
    /\ hwFile' = Larger(hwFile, raw.gen)
    /\ applied' = applied \cup {raw}
    /\ top' = Larger(top, raw.gen)
    /\ rejected' = NoDoc
    /\ lpc' = "accept"
    /\ UNCHANGED <<source, doc, up, allow, crashes, highWater, failing, raw, fileSrc,
                   httpSrc, cache, waterLost, unread, cacheLost, resetUsed>>

\* build and the generation guard pass: the document is published.
Apply ==
    /\ up
    /\ lpc = "build"
    /\ Acceptable
    /\ cur' = raw
    /\ applied' = applied \cup {raw}
    /\ top' = Larger(top, raw.gen)
    /\ rejected' = NoDoc
    /\ lpc' = "accept"
    /\ UNCHANGED <<source, doc, up, allow, crashes, highWater, failing, raw, fileSrc,
                   httpSrc, disk, waterLost, unread, cacheLost, resetUsed>>

Reject ==
    /\ up
    /\ lpc = "build"
    /\ ~Acceptable
    /\ Fail(raw)

\* Mutant of AcceptFile: the file is looked at again for its identity.
AcceptFileStatsAgain ==
    /\ up
    /\ lpc = "accept" /\ source = "file"
    /\ lastId' = doc.rev
    /\ lpc' = "water"
    /\ UNCHANGED <<source, doc, up, allow, crashes, cur, highWater, failing, raw,
                   pendingId, httpSrc, disk, history>>

\* Source.Accept for a file: its identity is remembered.
AcceptFile ==
    /\ up
    /\ lpc = "accept" /\ source = "file"
    /\ lastId' = pendingId
    /\ lpc' = "water"
    /\ UNCHANGED <<source, doc, up, allow, crashes, cur, highWater, failing, raw,
                   pendingId, httpSrc, disk, history>>

\* Source.Accept for the control plane: the document is cached, unless it came
\* from the cache.
AcceptHTTP ==
    /\ up
    /\ lpc = "accept" /\ source = "http"
    /\ IF pending = NoDoc
       THEN UNCHANGED <<cache, cacheLost>>
       ELSE \/ cache' = pending /\ cacheLost' = FALSE
            \/ DiskMayFail /\ cacheLost' = TRUE /\ UNCHANGED cache
    /\ pending' = NoDoc
    /\ lpc' = "water"
    /\ UNCHANGED <<source, doc, up, allow, crashes, cur, highWater, failing, raw,
                   fileSrc, delivered, hwFile, applied, top, rejected,
                   waterLost, unread, resetUsed>>

\* Mutants of RaiseHighWater: the next generation is recorded for the current
\* one, and the high-water never reaches the disk.
RaiseHighWaterByOne ==
    /\ up
    /\ lpc = "water"
    /\ highWater' = Larger(highWater, cur.gen + 1)
    /\ hwFile' = Larger(hwFile, cur.gen)
    /\ failing' = FALSE
    /\ lpc' = "idle" /\ raw' = NoDoc
    /\ UNCHANGED <<source, doc, up, allow, crashes, cur, fileSrc, httpSrc, cache, history>>

RaiseHighWaterInMemory ==
    /\ up
    /\ lpc = "water"
    /\ highWater' = Larger(highWater, cur.gen)
    /\ failing' = FALSE
    /\ lpc' = "idle" /\ raw' = NoDoc
    /\ UNCHANGED <<source, doc, up, allow, crashes, cur, fileSrc, httpSrc, disk, history>>

\* The high-water moves, in memory and then on disk, when the published
\* generation is above it; a failed write is only logged.
RaiseHighWater ==
    /\ up
    /\ lpc = "water"
    /\ highWater' = Larger(highWater, cur.gen)
    /\ IF cur.gen > highWater
       THEN \/ hwFile' = cur.gen /\ UNCHANGED waterLost
            \/ DiskMayFail /\ waterLost' = TRUE /\ UNCHANGED hwFile
       ELSE UNCHANGED <<hwFile, waterLost>>
    /\ failing' = FALSE
    /\ lpc' = "idle" /\ raw' = NoDoc
    /\ UNCHANGED <<source, doc, up, allow, crashes, cur, fileSrc, httpSrc, cache,
                   applied, top, rejected, unread, cacheLost, resetUsed>>

-----------------------------------------------------------------------------
RefreshStep ==
    \/ FileStat \/ FileRead \/ FetchDocument \/ FetchUnchanged \/ LoadCached
    \/ Apply \/ Reject \/ AcceptFile \/ AcceptHTTP \/ RaiseHighWater

Next == Publish \/ Open \/ Crash \/ RefreshStart \/ RefreshStep \/ LoadFails

Spec == Init /\ [][Next]_vars

\* The poll goes on, the supervisor restarts the process, and a source asked
\* again and again answers at last.
FairSpec ==
    /\ Spec
    /\ WF_vars(RefreshStart) /\ WF_vars(Open)
    /\ WF_vars(RefreshStep)
    /\ SF_vars(FileStat) /\ SF_vars(FileRead) /\ SF_vars(FetchDocument)

-----------------------------------------------------------------------------
(***************************************************************************)
(* Properties.                                                             *)
(***************************************************************************)

\* What is served is never below the sidecar: a restored old document is
\* refused by a process that never saw the newer one, whatever the crashes and
\* the failed writes, as long as no reset was allowed and the sidecar was read.
ServedAboveSidecar ==
    cur # NoDoc /\ ~resetUsed /\ ~unread => cur.gen >= hwFile

\* A generation, once served, is never followed by a lower one, restarts
\* included, unless its sidecar was lost -- the write failed, the process ended
\* before it, or a start could not read it back.
RollbackNeedsALostWrite ==
    cur # NoDoc /\ ~resetUsed /\ ~waterLost /\ ~unread => cur.gen >= top

\* The restart cache only ever holds a document that was published: one that
\* the guard refuses can never become what a restart loads.
CacheWasApplied == cache # NoDoc => cache \in applied

\* A restart during an outage comes up: the cached document is never below the
\* sidecar unless its own write was lost, because it is written first.
CacheStarts == ~cacheLost /\ ~resetUsed /\ ~unread /\ source = "http" /\ hwFile > 0
                  => cache.gen >= hwFile

\* A refused document stays visible: while the document refused last is still
\* the one in place, no later poll reads as healthy.  A control plane whose
\* document names the generation served says that nothing changed: excepted.
RejectionStaysVisible ==
    (/\ up /\ cur # NoDoc /\ lpc = "idle"
     /\ rejected # NoDoc /\ rejected = doc
     /\ source = "file" \/ doc.gen # cur.gen) => failing

\* A document that build accepts and that is newer than all that was served is
\* served in the end or replaced by another, also when it came in place between
\* the stat and the read of a refresh, or when the process ended on the way.
NewDocumentIsServed ==
    \A r \in Revs :
        (/\ doc.rev = r /\ doc.valid /\ doc.gen > top
         /\ lpc \in {"idle", "stat", "read", "fetch"})
            ~> (cur.rev = r \/ doc.rev # r)
=============================================================================
