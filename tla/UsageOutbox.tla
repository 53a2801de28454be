---------------------------- MODULE UsageOutbox ----------------------------
(***************************************************************************)
(* The usage outbox of the gateway: the spool writer that appends one      *)
(* usage event per request to a file per UTC day (spool.Writer), the       *)
(* reporter that walks those files from a checkpoint and posts batches to  *)
(* the control plane (reporter.Reporter), and the retention goroutine that *)
(* deletes old day files (spool.Prune, asking reporter.FullyShipped).      *)
(* The three run concurrently over one directory; the process can die and  *)
(* restart between any two of their steps.                                 *)
(*                                                                         *)
(* A file is the sequence of the write(2) calls made to it.  A call that   *)
(* completed is a whole line; a call cut short by a full disk is a         *)
(* fragment with no newline.  Every offset the code computes lies on the   *)
(* boundary of such a call, so an offset is an index into the sequence.    *)
(* A file lives in an inode: a handle opened before the file was removed   *)
(* keeps reading and appending to the inode that left the directory.       *)
(***************************************************************************)
EXTENDS Integers, Sequences, FiniteSets

CONSTANTS Events,       \* usage events, one per request
          MaxDay,       \* bound: the last UTC day that begins
          MaxInodes,    \* bound: how many day files are ever created
          MaxLate,      \* a request is recorded at most this many days after it began
          Retentions,   \* the SpoolRetentionDays the process may be configured with
          BatchSize,    \* UsageBatchSize
          MaxCrashes,   \* bound, per retention: how many times the process dies
          MaxIncidents, \* bound, per retention: the requests and deaths together
          TornWrites,   \* whether the disk may fill up in the middle of a line
          PushSettings  \* the USAGE_PUSH settings the process may be started with

ASSUME OutboxAssumption ==
    /\ MaxDay \in Nat
    /\ MaxInodes \in Nat
    /\ MaxLate \in Nat
    /\ Retentions \in (SUBSET Nat) \ {{}}
    /\ BatchSize \in Nat \ {0}
    /\ MaxCrashes \in [Retentions -> Nat] /\ MaxIncidents \in [Retentions -> Nat]
    /\ TornWrites \in BOOLEAN
    /\ PushSettings \in (SUBSET BOOLEAN) \ {{}}

Days   == 0..MaxDay
Inodes == 1..MaxInodes
NoFile == 0
NoDay  == -1

\* What one write(2) call left in a file.
Unit == [ev: Events, whole: BOOLEAN]

VARIABLES
    today,      \* the current UTC day
    up,         \* the process is running
    push,       \* USAGE_PUSH of the running process
    retention,  \* SpoolRetentionDays of the host; 0 disables pruning
    crashes,    \* how often the process has died
    req,        \* the request behind each event; "open" is inside Write, holding its mutex
    evDay,      \* RequestedAt's UTC day of each event
    content,    \* the bytes of each inode
    created,    \* how many inodes have been created
    dir,        \* the spool directory: the inode of each day file
    wday,       \* Writer.day
    wino,       \* Writer.f: the inode of the open handle, NoFile when nil
    wclosed,    \* Writer.f was closed by a rotation whose open failed
    mem,        \* Reporter.ckpt in memory (0: no entry)
    disk,       \* the checkpoint file .shipped
    rpc, rtodo, rday, rino, rpos, rbatch, reof,  \* the reporter goroutine
    ppc, pentries, pcurrent, pnow, pday,         \* the retention goroutine
    delivered,  \* events the control plane has ingested (it deduplicates)
    refused     \* events of batches refused for good, counted by shipFailures

writerVars   == <<wday, wino, wclosed>>
fileVars     == <<content, created, dir>>
reporterVars == <<rpc, rtodo, rday, rino, rpos, rbatch, reof>>
pruneVars    == <<ppc, pentries, pcurrent, pnow, pday>>
processVars  == <<today, up, push, retention, crashes>>
requestVars  == <<req, evDay>>
controlVars  == <<delivered, refused>>

vars == <<processVars, requestVars, fileVars, writerVars, mem, disk,
          reporterVars, pruneVars, controlVars>>

ReqStates == {"idle", "running", "open", "spooled", "failed", "dead"}
ReporterStates == {"idle", "next", "read", "post", "commit"}
PruneStates == {"idle", "current", "check", "remove"}

TypeOK ==
    /\ today \in Days
    /\ up \in BOOLEAN /\ push \in BOOLEAN /\ retention \in Retentions
    /\ crashes \in 0..MaxCrashes[retention]
    /\ req \in [Events -> ReqStates]
    /\ evDay \in [Events -> Days]
    /\ content \in [Inodes -> Seq(Unit)]
    /\ created \in 0..MaxInodes
    /\ dir \in [Days -> Inodes \cup {NoFile}]
    /\ wday \in Days \cup {NoDay}
    /\ wino \in Inodes \cup {NoFile}
    /\ wclosed \in BOOLEAN
    /\ mem \in [Days -> Nat]
    /\ disk \in [Days -> Nat]
    /\ rpc \in ReporterStates
    /\ rtodo \in SUBSET Days
    /\ rday \in Days
    /\ rino \in Inodes \cup {NoFile}
    /\ rpos \in Nat
    /\ rbatch \in Seq(Events)
    /\ reof \in BOOLEAN
    /\ ppc \in PruneStates
    /\ pentries \in SUBSET Days
    /\ pcurrent \in Days \cup {NoDay}
    /\ pnow \in Days
    /\ pday \in Days
    /\ delivered \in SUBSET Events
    /\ refused \in SUBSET Events

Init ==
    /\ today = 0
    /\ up = TRUE
    /\ push \in PushSettings /\ retention \in Retentions
    /\ crashes = 0
    /\ req = [e \in Events |-> "idle"]
    /\ evDay = [e \in Events |-> 0]
    /\ content = [i \in Inodes |-> <<>>]
    /\ created = 0
    /\ dir = [d \in Days |-> NoFile]
    /\ wday = NoDay /\ wino = NoFile /\ wclosed = FALSE
    /\ mem = [d \in Days |-> 0]
    /\ disk = [d \in Days |-> 0]
    /\ rpc = "idle" /\ rtodo = {} /\ rday = 0 /\ rino = NoFile
    /\ rpos = 0 /\ rbatch = <<>> /\ reof = FALSE
    /\ ppc = "idle" /\ pentries = {} /\ pcurrent = NoDay
    /\ pnow = 0 /\ pday = 0
    /\ delivered = {} /\ refused = {}

-----------------------------------------------------------------------------
(***************************************************************************)
(* Requests and the spool writer.                                          *)
(***************************************************************************)

Incidents == crashes + Cardinality({e \in Events : req[e] # "idle"})

\* A request arrives; its event will carry this day whenever it is written.
RequestBegin(e) ==
    /\ up
    /\ req[e] = "idle"
    /\ Incidents < MaxIncidents[retention]
    /\ req' = [req EXCEPT ![e] = "running"]
    /\ evDay' = [evDay EXCEPT ![e] = today]
    /\ UNCHANGED <<processVars, fileVars, writerVars, mem, disk,
                   reporterVars, pruneVars, controlVars>>

\* Writer.mu is not held.
WriterFree == \A e \in Events : req[e] # "open"

\* Writer.Write up to the open handle.  The handle is kept while the day of
\* the event is the day of the handle, a closed one included.
WriteReuse(e) ==
    /\ up
    /\ req[e] = "running"
    /\ WriterFree
    /\ wino # NoFile /\ wday = evDay[e]
    /\ req' = [req EXCEPT ![e] = "open"]
    /\ UNCHANGED <<processVars, evDay, fileVars, wday, wino, wclosed, mem,
                   disk, reporterVars, pruneVars, controlVars>>

MustOpen(e) == wino = NoFile \/ wday # evDay[e]

\* The open, creating the day file when the directory has none.
WriteOpen(e) ==
    /\ up
    /\ req[e] = "running"
    /\ WriterFree
    /\ MustOpen(e)
    /\ IF dir[evDay[e]] = NoFile
       THEN /\ created < MaxInodes
            /\ created' = created + 1
            /\ dir' = [dir EXCEPT ![evDay[e]] = created + 1]
            /\ wino' = created + 1
       ELSE /\ wino' = dir[evDay[e]]
            /\ UNCHANGED <<created, dir>>
    /\ wday' = evDay[e]
    /\ wclosed' = FALSE
    /\ req' = [req EXCEPT ![e] = "open"]
    /\ UNCHANGED <<processVars, evDay, content, mem, disk, reporterVars,
                   pruneVars, controlVars>>

\* The open fails after the previous handle was closed: Writer.f and
\* Writer.day keep naming the handle that is now closed.
WriteOpenFails(e) ==
    /\ up
    /\ req[e] = "running"
    /\ WriterFree
    /\ MustOpen(e)
    /\ wclosed' = (wino # NoFile)
    /\ req' = [req EXCEPT ![e] = "failed"]
    /\ UNCHANGED <<processVars, evDay, fileVars, wday, wino, mem,
                   disk, reporterVars, pruneVars, controlVars>>

Appended(e, complete) ==
    content' = [content EXCEPT ![wino] =
                  Append(@, [ev |-> e, whole |-> complete])]

\* The append of a whole line; Write returns nil.
WriteAppend(e) ==
    /\ up
    /\ req[e] = "open"
    /\ ~wclosed
    /\ Appended(e, TRUE)
    /\ req' = [req EXCEPT ![e] = "spooled"]
    /\ UNCHANGED <<processVars, evDay, created, dir, wday, wino, wclosed, mem,
                   disk, reporterVars, pruneVars, controlVars>>

\* The append fails, either with nothing written (a closed handle always
\* does) or, on a full disk, with a prefix of the line in the file.
WriteFails(e) ==
    /\ up
    /\ req[e] = "open"
    /\ \/ UNCHANGED content
       \/ TornWrites /\ ~wclosed /\ Appended(e, FALSE)
    /\ req' = [req EXCEPT ![e] = "failed"]
    /\ UNCHANGED <<processVars, evDay, created, dir, wday, wino, wclosed, mem,
                   disk, reporterVars, pruneVars, controlVars>>

-----------------------------------------------------------------------------
(***************************************************************************)
(* The reporter goroutine.                                                 *)
(***************************************************************************)

\* shipFile returns: its locals go with it.
LeaveFile(pc) ==
    /\ rpc' = pc
    /\ rday' = 0 /\ rino' = NoFile /\ rpos' = 0
    /\ rbatch' = <<>> /\ reof' = FALSE

Linked == {d \in Days : dir[d] # NoFile}

\* Flush: list the day files; they are shipped in ascending order.
FlushStart ==
    /\ up /\ push
    /\ rpc = "idle"
    /\ Linked # {}
    /\ rtodo' = Linked
    /\ rpc' = "next"
    /\ UNCHANGED <<processVars, requestVars, fileVars, writerVars, mem, disk,
                   rday, rino, rpos, rbatch, reof, pruneVars, controlVars>>

Earliest(d) == d \in rtodo /\ \A k \in rtodo : d <= k

\* Mutant of ShipFile: the seek is off by one.
ShipFileSeeksShort(d) ==
    /\ up
    /\ rpc = "next" /\ Earliest(d)
    /\ dir[d] # NoFile
    /\ rtodo' = rtodo \ {d}
    /\ rday' = d
    /\ rino' = dir[d]
    /\ rpos' = mem[d] - 1
    /\ rbatch' = <<>>
    /\ reof' = FALSE
    /\ rpc' = "read"
    /\ UNCHANGED <<processVars, requestVars, fileVars, writerVars, mem, disk,
                   pruneVars, controlVars>>

\* shipFile opens the next file and seeks to its checkpoint.
ShipFile(d) ==
    /\ up
    /\ rpc = "next" /\ Earliest(d)
    /\ dir[d] # NoFile
    /\ rtodo' = rtodo \ {d}
    /\ rday' = d
    /\ rino' = dir[d]
    /\ rpos' = mem[d]
    /\ rbatch' = <<>>
    /\ reof' = FALSE
    /\ rpc' = "read"
    /\ UNCHANGED <<processVars, requestVars, fileVars, writerVars, mem, disk,
                   pruneVars, controlVars>>

\* The file was pruned between the listing and the open.
ShipFileGone(d) ==
    /\ up
    /\ rpc = "next" /\ Earliest(d)
    /\ dir[d] = NoFile
    /\ rtodo' = rtodo \ {d}
    /\ UNCHANGED <<processVars, requestVars, fileVars, writerVars, mem, disk,
                   rpc, rday, rino, rpos, rbatch, reof, pruneVars,
                   controlVars>>

\* The open or the seek fails for another reason: this Flush ends.
ShipFileFails ==
    /\ up
    /\ rpc = "next" /\ rtodo # {}
    /\ rtodo' = {}
    /\ rpc' = "idle"
    /\ UNCHANGED <<processVars, requestVars, fileVars, writerVars, mem, disk,
                   rday, rino, rpos, rbatch, reof, pruneVars, controlVars>>

\* Every listed file has been walked.
FlushEnd ==
    /\ up
    /\ rpc = "next" /\ rtodo = {}
    /\ rpc' = "idle"
    /\ UNCHANGED <<processVars, requestVars, fileVars, writerVars, mem, disk,
                   rtodo, rday, rino, rpos, rbatch, reof, pruneVars,
                   controlVars>>

\* Mutant of LineEnd: a write in progress is taken for a line.
LineEndAnywhere(f, p, j) == j = p + 1 /\ j <= Len(f)

\* The newline that ends the line starting after p is in write j of file f.
LineEnd(f, p, j) ==
    /\ j \in p+1..Len(f)
    /\ f[j].whole
    /\ \A k \in p+1..j-1 : ~f[k].whole

\* Read one line.  A line that begins with a fragment is not valid JSON and
\* is skipped; any other is an event and joins the batch.
ReadLine ==
    /\ up
    /\ rpc = "read"
    /\ \E j \in 1..Len(content[rino]) :
         /\ LineEnd(content[rino], rpos, j)
         /\ rpos' = j
         /\ rbatch' = IF j = rpos + 1
                      THEN Append(rbatch, content[rino][j].ev)
                      ELSE rbatch
    /\ rpc' = IF Len(rbatch') >= BatchSize THEN "post" ELSE "read"
    /\ UNCHANGED <<processVars, requestVars, fileVars, writerVars, mem, disk,
                   rtodo, rday, rino, reof, pruneVars, controlVars>>

\* The loop over the lines ends.  What has been read is posted, and a file with
\* nothing to post leaves its checkpoint alone.
StopReading ==
    /\ IF rbatch = <<>>
       THEN LeaveFile("next")
       ELSE /\ rpc' = "post"
            /\ reof' = TRUE
            /\ UNCHANGED <<rday, rino, rpos, rbatch>>
    /\ UNCHANGED <<processVars, requestVars, fileVars, writerVars, mem, disk,
                   rtodo, pruneVars, controlVars>>

\* Mutant of ReadEOF: a batch that is not full waits for more events.
ReadEOFWaitsForFullBatch ==
    /\ up
    /\ rpc = "read"
    /\ \A j \in 1..Len(content[rino]) : ~LineEnd(content[rino], rpos, j)
    /\ LeaveFile("next")
    /\ UNCHANGED <<processVars, requestVars, fileVars, writerVars, mem, disk,
                   rtodo, pruneVars, controlVars>>

\* No newline ahead: the rest is a write in progress.
ReadEOF ==
    /\ up
    /\ rpc = "read"
    /\ \A j \in 1..Len(content[rino]) : ~LineEnd(content[rino], rpos, j)
    /\ StopReading

\* A read error is taken for the end of the file.
ReadFails ==
    /\ up
    /\ rpc = "read"
    /\ \E j \in 1..Len(content[rino]) : LineEnd(content[rino], rpos, j)
    /\ StopReading

BatchEvents == {rbatch[i] : i \in DOMAIN rbatch}

\* A 2xx answer.
PostAccepted ==
    /\ up
    /\ rpc = "post"
    /\ delivered' = delivered \cup BatchEvents
    /\ rpc' = "commit"
    /\ UNCHANGED <<processVars, requestVars, fileVars, writerVars, mem, disk,
                   rtodo, rday, rino, rpos, rbatch, reof, pruneVars, refused>>

\* A permanent refusal of this batch: counted and skipped.
PostRefused ==
    /\ up
    /\ rpc = "post"
    /\ refused' = refused \cup BatchEvents
    /\ rpc' = "commit"
    /\ UNCHANGED <<processVars, requestVars, fileVars, writerVars, mem, disk,
                   rtodo, rday, rino, rpos, rbatch, reof, pruneVars,
                   delivered>>

\* Mutant of PostFailed: any error is taken for permanent and the batch skipped.
PostFailedIsSkipped ==
    /\ up
    /\ rpc = "post"
    /\ delivered' \in {delivered, delivered \cup BatchEvents}
    /\ rpc' = "commit"
    /\ UNCHANGED <<processVars, requestVars, fileVars, writerVars, mem, disk,
                   rtodo, rday, rino, rpos, rbatch, reof, pruneVars, refused>>

\* Any other error ends this Flush; the control plane may have ingested the
\* batch all the same.
PostFailed ==
    /\ up
    /\ rpc = "post"
    /\ delivered' \in {delivered, delivered \cup BatchEvents}
    /\ rtodo' = {}
    /\ LeaveFile("idle")
    /\ UNCHANGED <<processVars, requestVars, fileVars, writerVars, mem, disk,
                   pruneVars, refused>>

\* commit: the offset moves in memory, then the file is replaced by a rename.
\* When saving fails the memory has moved all the same and Flush ends.
Commit ==
    /\ up
    /\ rpc = "commit"
    /\ mem' = [mem EXCEPT ![rday] = rpos]
    /\ \/ /\ disk' = mem'
          /\ UNCHANGED rtodo
          /\ IF reof
             THEN LeaveFile("next")
             ELSE /\ rpc' = "read"
                  /\ rbatch' = <<>>
                  /\ UNCHANGED <<rday, rino, rpos, reof>>
       \/ /\ UNCHANGED disk
          /\ rtodo' = {}
          /\ LeaveFile("idle")
    /\ UNCHANGED <<processVars, requestVars, fileVars, writerVars, pruneVars,
                   controlVars>>

-----------------------------------------------------------------------------
(***************************************************************************)
(* The retention goroutine.                                                *)
(***************************************************************************)

\* Prune lists the day files first ...
PruneStart ==
    /\ up
    /\ ppc = "idle"
    /\ retention > 0
    /\ Linked # {}
    /\ pnow' = today
    /\ pentries' = Linked
    /\ ppc' = "current"
    /\ UNCHANGED <<processVars, requestVars, fileVars, writerVars, mem, disk,
                   reporterVars, pcurrent, pday, controlVars>>

\* ... and then reads Writer.day under the writer's mutex, once.
PruneCurrent ==
    /\ up
    /\ ppc = "current"
    /\ WriterFree
    /\ pcurrent' = wday
    /\ ppc' = "check"
    /\ UNCHANGED <<processVars, requestVars, fileVars, writerVars, mem, disk,
                   reporterVars, pentries, pnow, pday, controlVars>>

\* Mutants of FullyShipped: anything shipped counts as everything, and a file
\* never counts as shipped up to its end.
FullyShippedIgnoresSize(d) == mem[d] > 0 /\ dir[d] # NoFile

FullyShippedStrictly(d) ==
    mem[d] > 0 /\ dir[d] # NoFile /\ mem[d] > Len(content[dir[d]])

\* FullyShipped: every byte of the day's file is behind the checkpoint.  The
\* code copies the offsets before it stats the file; both only grow, so its
\* answer TRUE is TRUE of the later moment, which is the one taken here.
FullyShipped(d) ==
    /\ mem[d] > 0
    /\ dir[d] # NoFile
    /\ mem[d] >= Len(content[dir[d]])

\* keep is nil when nothing ships: then only retention decides.
MayDelete(d) ==
    /\ d # pcurrent
    /\ d + retention <= pnow
    /\ push => FullyShipped(d)

\* One entry of the listing is judged ...
PruneCheck(d) ==
    /\ up
    /\ ppc = "check"
    /\ d \in pentries
    /\ pentries' = pentries \ {d}
    /\ IF MayDelete(d)
       THEN ppc' = "remove" /\ pday' = d
       ELSE UNCHANGED <<ppc, pday>>
    /\ UNCHANGED <<processVars, requestVars, fileVars, writerVars, mem, disk,
                   reporterVars, pcurrent, pnow, controlVars>>

\* ... and removed in a later step.
PruneRemove ==
    /\ up
    /\ ppc = "remove"
    /\ dir' = [dir EXCEPT ![pday] = NoFile]
    /\ ppc' = "check" /\ pday' = 0
    /\ UNCHANGED <<processVars, requestVars, content, created, writerVars,
                   mem, disk, reporterVars, pentries, pcurrent, pnow,
                   controlVars>>

\* The removal fails: the file stays and the pass goes on.
PruneRemoveFails ==
    /\ up
    /\ ppc = "remove"
    /\ ppc' = "check" /\ pday' = 0
    /\ UNCHANGED <<processVars, requestVars, fileVars, writerVars, mem, disk,
                   reporterVars, pentries, pcurrent, pnow, controlVars>>

PruneEnd ==
    /\ up
    /\ ppc = "check" /\ pentries = {}
    /\ ppc' = "idle"
    /\ pcurrent' = NoDay /\ pnow' = 0
    /\ UNCHANGED <<processVars, requestVars, fileVars, writerVars, mem, disk,
                   reporterVars, pentries, pday, controlVars>>

-----------------------------------------------------------------------------
(***************************************************************************)
(* The clock, the end of the process and its next start.                   *)
(***************************************************************************)

InFlight(e) == req[e] \in {"running", "open"}

\* Midnight UTC.  No request outlives RequestMaxDuration, so none is still
\* to be recorded more than MaxLate days after it began.
NextDay ==
    /\ today < MaxDay
    /\ \A e \in Events : InFlight(e) => today < evDay[e] + MaxLate
    /\ today' = today + 1
    /\ UNCHANGED <<up, push, retention, crashes, requestVars, fileVars, writerVars, mem,
                   disk, reporterVars, pruneVars, controlVars>>

\* The process ends, by a kill or after a drain: what was only in memory is
\* gone, the directory and the saved checkpoint remain.
Crash ==
    /\ up
    /\ crashes < MaxCrashes[retention] /\ Incidents < MaxIncidents[retention]
    /\ up' = FALSE
    /\ crashes' = crashes + 1
    /\ req' = [e \in Events |-> IF InFlight(e) THEN "dead" ELSE req[e]]
    /\ wday' = NoDay /\ wino' = NoFile /\ wclosed' = FALSE
    /\ rtodo' = {} /\ LeaveFile("idle")
    /\ ppc' = "idle" /\ pentries' = {} /\ pcurrent' = NoDay
    /\ pnow' = 0 /\ pday' = 0
    /\ UNCHANGED <<today, push, retention, evDay, fileVars, mem, disk, controlVars>>

NoOffsets == [d \in Days |-> 0]

\* The next start loads the saved checkpoint, and begins again from zero when
\* the file cannot be parsed.
Restart ==
    /\ ~up
    /\ up' = TRUE
    /\ push' \in PushSettings
    /\ mem' \in {disk, NoOffsets}
    /\ disk' = mem'
    /\ UNCHANGED <<today, retention, crashes, requestVars, fileVars, writerVars,
                   reporterVars, pruneVars, controlVars>>

-----------------------------------------------------------------------------
WriterStep(e) == \/ RequestBegin(e) \/ WriteReuse(e) \/ WriteOpen(e)
                 \/ WriteOpenFails(e) \/ WriteAppend(e) \/ WriteFails(e)

\* Every step of the reporter but the answers of the control plane.
ReporterStep == \/ FlushStart \/ FlushEnd \/ ReadLine \/ ReadEOF \/ Commit
                \/ \E d \in Days : ShipFile(d) \/ ShipFileGone(d)

PostAnswered == PostAccepted \/ PostRefused

\* The ways a Flush or the reading of a file is cut short.
ReporterFails == ShipFileFails \/ ReadFails \/ PostFailed

PruneStep == \/ PruneStart \/ PruneCurrent \/ PruneRemove \/ PruneRemoveFails
             \/ PruneEnd
             \/ \E d \in Days : PruneCheck(d)

Next ==
    \/ \E e \in Events : WriterStep(e)
    \/ ReporterStep \/ PostAnswered \/ ReporterFails
    \/ PruneStep
    \/ NextDay \/ Crash \/ Restart

Spec == Init /\ [][Next]_vars

\* The reporter's loop and the supervisor that restarts the process keep
\* going, as does the daily prune; a write to the file returns; a control
\* plane that is asked again and again answers at last, and an open, a read or
\* a removal tried again and again succeeds.
Fairness ==
    /\ WF_vars(ReporterStep)
    /\ WF_vars(PostAnswered \/ PostFailed)
    /\ SF_vars(PostAnswered)
    /\ SF_vars(ReadLine)
    /\ \A d \in Days : SF_vars(ShipFile(d))
    /\ WF_vars(Restart)
    /\ WF_vars(\E e \in Events : WriteAppend(e) \/ WriteFails(e))
    /\ WF_vars(PruneStep)
    /\ SF_vars(PruneRemove)

FairSpec == Spec /\ Fairness

-----------------------------------------------------------------------------
(***************************************************************************)
(* Properties.                                                             *)
(***************************************************************************)

Settled == delivered \cup refused

\* Write i of file f completed, but what precedes it on its line is the
\* fragment of an earlier write: the line is not valid JSON.
Mangled(f, i) == i > 1 /\ ~f[i-1].whole

\* The events that an earlier torn write swallowed.
Swallowed == {e \in Events : \E n \in Inodes : \E i \in 1..Len(content[n]) :
                /\ content[n][i].ev = e
                /\ content[n][i].whole
                /\ Mangled(content[n], i)}

\* The event is in a listed day file, beyond what has been shipped of it.
Queued(e) ==
    LET n == dir[evDay[e]]
    IN  /\ n # NoFile
        /\ \E i \in 1..Len(content[n]) :
              /\ i > mem[evDay[e]]
              /\ content[n][i] = [ev |-> e, whole |-> TRUE]

\* An event whose Write returned nil is never lost without a trace: the
\* control plane has it, its refusal was counted, or it is still in a day
\* file beyond the checkpoint -- whatever the writer, the reporter, retention
\* and a crash do between each other's steps -- unless a torn write before it
\* swallowed it.  Retention longer than a request and shipping always on are
\* what it rests on.
SpooledIsAccountedFor ==
    \A e \in Events : req[e] = "spooled" =>
        e \in Settled \/ Queued(e) \/ e \in Swallowed

\* What retention takes for fully shipped was confirmed: every event written
\* whole to the day's file is with the control plane or counted as refused, but
\* for what a torn write swallowed (FullyShipped: "whether every byte of a day's
\* file has been confirmed").  A file removed and made anew under the checkpoint
\* of the old one breaks it, so retention has to be longer than a request.
ShippedIsConfirmed ==
    \A d \in Days : FullyShipped(d) =>
        \A i \in 1..Len(content[dir[d]]) :
            \/ ~content[dir[d]][i].whole
            \/ Mangled(content[dir[d]], i)
            \/ content[dir[d]][i].ev \in Settled

\* The outbox implements the abstract queue of module Outbox: an event enters
\* it when its Write returns nil and leaves it once, for the control plane or
\* the counter of refusals; nothing leaves that did not enter, neither the
\* fragment of a write counted as failed nor what a torn write swallowed.
Queue == INSTANCE Outbox WITH
    accepted  <- {e \in Events : req[e] = "spooled"},
    settled   <- Settled,
    swallowed <- Swallowed
OutboxImplemented == Queue!Spec

\* No file is deleted before a request that began on its day has ended.
Outlived == retention = 0 \/ retention > MaxLate

\* Every event whose Write returned nil is in the end ingested or its refusal
\* counted, through outages, crashes and the appends of requests that began
\* before midnight -- unless a torn write swallowed it or shipping is off.
SpooledIsSettled ==
    \A e \in Events :
        (req[e] = "spooled" /\ Outlived)
            ~> (e \in Settled \/ e \in Swallowed \/ ~push)

\* A file that holds events and no fragment.
Clean(n) == content[n] # <<>> /\ \A i \in 1..Len(content[n]) : content[n][i].whole

\* Retention bounds the spool: a day file past retention that no request
\* reopens is deleted in the end: with shipping on once its events are
\* shipped, with shipping off whether they are or not.  A file that
\* is empty or has a fragment is excepted: it may have no checkpoint, or one
\* that never reaches its end.
OldDayIsDeleted ==
    \A d \in Days :
        (/\ dir[d] # NoFile /\ Clean(dir[d])
         /\ retention > 0 /\ d + retention <= today /\ wday # d)
        ~> (dir[d] = NoFile \/ wday = d)
=============================================================================
