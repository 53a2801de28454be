------------------------ MODULE SnapshotStore_proofs ------------------------
(***************************************************************************)
(* Proofs about SnapshotStore, for every value of its constants: either    *)
(* source, any number of generations, documents and process ends, with and *)
(* without disk failures and allowed resets.                               *)
(*                                                                         *)
(* The properties are not inductive: that a document is never below the    *)
(* sidecar depends on what the floor in memory knows of the sidecar, and   *)
(* that a restart finds a usable cache depends on where the document in    *)
(* hand came from: Guard and Custody say so.  That a refused document      *)
(* stays visible depends on the order of the identities looked at: Visible.*)
(***************************************************************************)
EXTENDS SnapshotStore, TLAPS

\* What the generation guard rests on: nothing is served by a process that is
\* down, a reset leaves its mark, and the floor in memory agrees with the
\* sidecar except for what was lost.
Guard ==
    /\ ~up => cur = NoDoc /\ highWater = 0
    /\ allow => resetUsed
    /\ up /\ ~unread => highWater >= hwFile
    /\ ~waterLost => highWater <= hwFile
    /\ ServedAboveSidecar
    /\ ~resetUsed /\ ~waterLost /\ ~unread
         => \/ top <= hwFile
            \/ lpc \in {"accept", "water"} /\ top <= cur.gen

\* Where the document in hand came from: fetched and still to be cached, or
\* read from the cache.
Custody ==
    /\ source = "file" => pending = NoDoc /\ cache = NoDoc
    /\ lpc = "fetch" => source = "http"
    /\ lpc \in {"stat", "read"} => source = "file"
    /\ source = "http" /\ lpc = "build"
         => raw = pending \/ (pending = NoDoc /\ raw = cache)
    /\ source = "http" /\ lpc = "accept"
         => cur = pending \/ (pending = NoDoc /\ cur = cache)
    /\ lpc \in {"accept", "water"} => cur \in applied
    /\ source = "http" /\ lpc = "water" /\ ~cacheLost => cur = cache
    /\ CacheWasApplied
    /\ CacheStarts

\* Why a refused document cannot pass for the one in place: what was looked at
\* is never newer than the document, and a file that was refused is newer than
\* the identity remembered of the one served.
Visible ==
    /\ lastId <= doc.rev /\ pendingId <= doc.rev
    /\ raw.rev <= doc.rev /\ rejected.rev <= doc.rev
    /\ pending.rev <= doc.rev /\ cache.rev <= doc.rev
    /\ lpc \in {"accept", "water"} => rejected = NoDoc
    /\ cur.gen # 0 /\ lpc = "read" => pendingId > lastId
    /\ cur.gen # 0 /\ source = "file" /\ lpc = "build" => raw.rev > lastId
    /\ cur.gen # 0 /\ source = "file" /\ rejected # NoDoc => rejected.rev > lastId
    /\ (/\ up /\ cur # NoDoc /\ rejected # NoDoc /\ rejected = doc
        /\ source = "file" \/ doc.gen # cur.gen) => failing

-----------------------------------------------------------------------------
\* What the documents are: every one names a generation, also the absent one.
LEMMA DocFacts ==
    /\ NoDoc \in MaybeDoc
    /\ NoDoc.gen = 0
    /\ ~NoDoc.valid
    /\ NoDoc \notin Doc
    /\ \A d \in MaybeDoc : d.gen \in Gens
    /\ \A d \in MaybeDoc : d.valid => d \in Doc
    /\ \A d \in Doc : d \in MaybeDoc /\ d.rev \in Revs
    /\ 0 \in Gens /\ Gens \subseteq Nat
  BY SnapshotAssumption DEF SnapshotAssumption, Doc, NoDoc, MaybeDoc, Gens, Revs

\* What a writer puts in place is a document.
LEMMA WrittenDocs ==
    /\ \A g \in Gens, v \in BOOLEAN : [rev |-> 1, gen |-> g, valid |-> v] \in Doc
    /\ \A d \in Doc, g \in Gens, v \in BOOLEAN :
         d.rev < MaxRev => [rev |-> d.rev + 1, gen |-> g, valid |-> v] \in Doc
  BY SnapshotAssumption DEF SnapshotAssumption, Doc, Gens, Revs

\* Every step keeps every variable in its type.
LEMMA TypeStep == TypeOK /\ [Next]_vars => TypeOK'
<1> USE DocFacts DEF TypeOK, LoadStates
<1> SUFFICES ASSUME TypeOK, [Next]_vars
             PROVE  TypeOK'
  OBVIOUS
<1>1. CASE Publish
  BY <1>1, WrittenDocs DEF Publish, history, disk, fileSrc, httpSrc
<1>2. CASE Open
  <2>1. allow' \in BOOLEAN
    BY <1>2, SnapshotAssumption DEF Open, SnapshotAssumption
  <2>2. resetUsed' \in BOOLEAN
    BY <1>2 DEF Open
  <2> QED
    BY <1>2, <2>1, <2>2 DEF Open, disk, fileSrc, httpSrc
<1>3. CASE Crash
  <2>1. waterLost' \in BOOLEAN
    BY <1>3, Zenon DEF Crash
  <2>2. cacheLost' \in BOOLEAN
    BY <1>3, Zenon DEF Crash
  <2> HIDE DocFacts
  <2>3. /\ Gone /\ crashes' = crashes + 1
        /\ UNCHANGED <<source, doc, allow, disk, applied, top, rejected, unread, resetUsed>>
    BY <1>3 DEF Crash
  <2>4. NoDoc \in MaybeDoc /\ 0 \in Gens
    BY DocFacts
  <2>5. crashes' \in Nat
    BY <2>3
  <2>6. UNCHANGED <<source, doc, allow, hwFile, cache, applied, top, rejected, unread, resetUsed>>
    BY <2>3 DEF disk
  <2>7. Gone
    BY <2>3
  <2> QED
    BY <2>1, <2>2, <2>4, <2>5, <2>6, <2>7 DEF Gone
<1>4. CASE RefreshStart
  BY <1>4 DEF RefreshStart, history, disk, fileSrc, httpSrc
<1>5. CASE FileStat
  BY <1>5 DEF FileStat, Unchanged, history, disk, fileSrc, httpSrc
<1>6. CASE FileRead
  BY <1>6 DEF FileRead, history, disk, fileSrc, httpSrc
<1>7. ASSUME NEW why \in MaybeDoc, Fail(why)
      PROVE  TypeOK'
  BY <1>7 DEF Fail, Gone, disk, fileSrc, httpSrc
<1>8. CASE LoadFails
  BY <1>7, <1>8 DEF LoadFails
<1>9. CASE FetchDocument
  BY <1>9 DEF FetchDocument, history, disk, fileSrc
<1>10. CASE FetchUnchanged
  BY <1>10 DEF FetchUnchanged, Unchanged, history, disk, fileSrc, httpSrc
<1>11. CASE LoadCached
  BY <1>11 DEF LoadCached, history, disk, fileSrc
<1>12. CASE Apply
  BY <1>12 DEF Apply, Acceptable, Larger, disk, fileSrc, httpSrc
<1>13. CASE Reject
  BY <1>7, <1>13 DEF Reject
<1>14. CASE AcceptFile
  BY <1>14 DEF AcceptFile, history, disk, httpSrc
<1>15. CASE AcceptHTTP
  BY <1>15 DEF AcceptHTTP, fileSrc
<1>16. CASE RaiseHighWater
  BY <1>16 DEF RaiseHighWater, Larger, fileSrc, httpSrc
<1>17. CASE UNCHANGED vars
  BY <1>17 DEF vars, history, disk, fileSrc, httpSrc
<1> QED
  BY <1>1, <1>2, <1>3, <1>4, <1>5, <1>6, <1>8, <1>9, <1>10, <1>11,
     <1>12, <1>13, <1>14, <1>15, <1>16, <1>17 DEF Next, RefreshStep

\* The store's state stays well formed through every refresh, restart and
\* failed write.
THEOREM TypeCorrect == Spec => []TypeOK
<1>1. Init => TypeOK
  <2> SUFFICES ASSUME Init PROVE TypeOK
    OBVIOUS
  <2>1. doc \in Doc
    BY WrittenDocs DEF Init
  <2>2. source \in Sources
    BY DEF Init
  <2> QED
    BY <2>1, <2>2, DocFacts DEF Init, TypeOK, LoadStates
<1> QED
  BY <1>1, TypeStep, PTL DEF Spec

-----------------------------------------------------------------------------
\* The generation guard is kept by every step.  Only a published document, an
\* allowed reset, a raised high-water, a start and an end of the process can
\* disturb it; the other steps leave its variables alone.
LEMMA GuardStep == TypeOK /\ Guard /\ [Next]_vars => Guard'
<1> USE DEF Guard, ServedAboveSidecar
<1> SUFFICES ASSUME TypeOK, Guard, [Next]_vars
             PROVE  Guard'
  OBVIOUS
<1>a. /\ cur.gen \in Nat /\ raw.gen \in Nat /\ highWater \in Nat
      /\ hwFile \in Nat /\ top \in Nat /\ NoDoc.gen = 0
  BY DocFacts DEF TypeOK
<1> USE <1>a
<1>1. CASE Publish
  BY <1>1 DEF Publish, history, disk
<1>2. CASE Open
  <2>1. /\ ~up /\ up' /\ cur' = cur
        /\ hwFile' = hwFile /\ top' = top /\ waterLost' = waterLost
    BY <1>2 DEF Open, disk
  <2>2. (allow' => resetUsed') /\ (~resetUsed' => ~resetUsed)
    BY <1>2, Zenon DEF Open
  <2>3. /\ highWater' = hwFile \/ highWater' = 0
        /\ ~unread' => ~unread /\ highWater' = hwFile
    BY <1>2 DEF Open
  <2> QED
    BY <2>1, <2>2, <2>3
<1>3. CASE Crash
  <2>1. /\ ~up' /\ cur' = NoDoc /\ highWater' = 0
        /\ UNCHANGED <<allow, resetUsed, unread, hwFile, top>>
    BY <1>3 DEF Crash, Gone, disk
  <2>2. ~waterLost' => ~waterLost /\ ~(lpc \in {"accept", "water"} /\ cur.gen > hwFile)
    BY <1>3, Zenon DEF Crash
  <2> QED
    BY <2>1, <2>2
<1>4. CASE RefreshStart
  BY <1>4 DEF RefreshStart, history, disk
<1>5. CASE FileStat
  <2>1. /\ lpc = "stat"
        /\ UNCHANGED <<up, allow, cur, highWater, hwFile, top, waterLost, unread,
                       resetUsed>>
    BY <1>5 DEF FileStat, Unchanged, history, disk
  <2> QED
    BY <2>1
<1>6. CASE FileRead
  BY <1>6 DEF FileRead, history, disk
<1>7. ASSUME NEW why, Fail(why), lpc \notin {"accept", "water"}
      PROVE  Guard'
  BY <1>7 DEF Fail, Gone, disk
<1>8. CASE LoadFails
  BY <1>7, <1>8 DEF LoadFails
<1>9. CASE FetchDocument
  BY <1>9 DEF FetchDocument, history, disk
<1>10. CASE FetchUnchanged
  BY <1>10 DEF FetchUnchanged, Unchanged, history, disk
<1>11. CASE LoadCached
  BY <1>11 DEF LoadCached, history, disk
<1>12. CASE Apply
  <2>1. ~resetUsed => raw.gen >= highWater /\ raw.gen >= cur.gen
    BY <1>12 DEF Apply, Acceptable, Floor, Larger
  <2> QED
    BY <1>12, <2>1 DEF Apply, Larger, disk
<1>13. CASE Reject
  BY <1>7, <1>13 DEF Reject
<1>14. CASE AcceptFile
  BY <1>14 DEF AcceptFile, history, disk
<1>15. CASE AcceptHTTP
  BY <1>15 DEF AcceptHTTP
<1>16. CASE RaiseHighWater
  BY <1>16 DEF RaiseHighWater, Larger
<1>17. CASE UNCHANGED vars
  BY <1>17 DEF vars, history, disk
<1> QED
  BY <1>1, <1>2, <1>3, <1>4, <1>5, <1>6, <1>8, <1>9, <1>10, <1>11,
     <1>12, <1>13, <1>14, <1>15, <1>16, <1>17 DEF Next, RefreshStep

\* The custody of the document in hand is kept by every step.
LEMMA CustodyStep == TypeOK /\ Guard /\ Custody /\ [Next]_vars => Custody'
<1> USE DEF Custody, CacheWasApplied, CacheStarts
<1> SUFFICES ASSUME TypeOK, Guard, Custody, [Next]_vars
             PROVE  Custody'
  OBVIOUS
<1>a. /\ cur.gen \in Nat /\ raw.gen \in Nat /\ highWater \in Nat
      /\ hwFile \in Nat /\ top \in Nat /\ NoDoc.gen = 0
  BY DocFacts DEF TypeOK
<1> USE <1>a
<1>0. source \in {"file", "http"}
  BY SnapshotAssumption DEF SnapshotAssumption, TypeOK
<1>1. CASE Publish
  BY <1>1 DEF Publish, history, disk, httpSrc
<1>2. CASE Open
  <2>1. /\ lpc' = IF source = "file" THEN "stat" ELSE "fetch"
        /\ UNCHANGED <<source, cur, pending, hwFile, cache, applied, cacheLost>>
    BY <1>2 DEF Open, disk, httpSrc
  <2>2. ~resetUsed' => ~resetUsed
    BY <1>2, Zenon DEF Open
  <2>3. ~unread' => ~unread
    BY <1>2 DEF Open
  <2> QED
    BY <1>0, <2>1, <2>2, <2>3
<1>3. CASE Crash
  BY <1>3 DEF Crash, Gone, disk
<1>4. CASE RefreshStart
  BY <1>0, <1>4 DEF RefreshStart, history, disk, httpSrc
<1>5. CASE FileStat
  BY <1>5 DEF FileStat, Unchanged, history, disk, httpSrc
<1>6. CASE FileRead
  BY <1>6 DEF FileRead, history, disk, httpSrc
<1>7. ASSUME NEW why, Fail(why)
      PROVE  Custody'
  BY <1>7 DEF Fail, Gone, disk, httpSrc
<1>8. CASE LoadFails
  BY <1>7, <1>8 DEF LoadFails
<1>9. CASE FetchDocument
  BY <1>9 DEF FetchDocument, history, disk
<1>10. CASE FetchUnchanged
  BY <1>10 DEF FetchUnchanged, Unchanged, history, disk, httpSrc
<1>11. CASE LoadCached
  BY <1>11 DEF LoadCached, history, disk
<1>12. CASE Apply
  BY <1>12 DEF Apply, disk, httpSrc
<1>13. CASE Reject
  BY <1>7, <1>13 DEF Reject
<1>14. CASE AcceptFile
  BY <1>14 DEF AcceptFile, history, disk, httpSrc
<1>15. CASE AcceptHTTP
  <2>1. /\ lpc = "accept" /\ lpc' = "water" /\ source = "http"
        /\ UNCHANGED <<source, cur, hwFile, applied, resetUsed, unread>>
    BY <1>15 DEF AcceptHTTP
  <2>2. CASE pending = NoDoc
    <3>1. UNCHANGED <<cache, cacheLost>>
      BY <1>15, <2>2 DEF AcceptHTTP
    <3>2. cur # NoDoc
      BY <2>1, DocFacts DEF TypeOK
    <3> QED
      BY <2>1, <2>2, <3>1, <3>2
  <2>3. CASE pending # NoDoc
    <3>1. cur = pending
      BY <2>1, <2>3
    <3>2. ~resetUsed /\ ~unread => cur.gen >= hwFile
      BY <2>3, <3>1 DEF Guard, ServedAboveSidecar
    <3>3. \/ cache' = pending /\ cacheLost' = FALSE
          \/ cacheLost' = TRUE /\ cache' = cache
      BY <1>15, <2>3 DEF AcceptHTTP
    <3> QED
      BY <2>1, <3>1, <3>2, <3>3
  <2> QED
    BY <2>2, <2>3
<1>16. CASE RaiseHighWater
  BY <1>16 DEF RaiseHighWater, httpSrc
<1>17. CASE UNCHANGED vars
  BY <1>17 DEF vars, history, disk, httpSrc
<1> QED
  BY <1>1, <1>2, <1>3, <1>4, <1>5, <1>6, <1>8, <1>9, <1>10, <1>11,
     <1>12, <1>13, <1>14, <1>15, <1>16, <1>17 DEF Next, RefreshStep

\* Type, guard and custody hold in every reachable state.
LEMMA Inductive == Spec => [](TypeOK /\ Guard /\ Custody)
<1>1. Init => Guard /\ Custody
  BY DocFacts DEF Init, Guard, Custody, ServedAboveSidecar, CacheWasApplied,
     CacheStarts
<1> QED
  BY <1>1, TypeCorrect, GuardStep, CustodyStep, PTL DEF Spec

\* A document below the recorded high-water is never served: not by the process
\* that recorded it, nor by one started later on a restored backup.
THEOREM SidecarIsAFloor == Spec => []ServedAboveSidecar
<1>1. Guard => ServedAboveSidecar
  BY DEF Guard
<1> QED
  BY <1>1, Inductive, PTL

\* The generation served never falls, restarts included, as long as every
\* high-water reached the sidecar and was read back.
THEOREM NoSilentRollback == Spec => []RollbackNeedsALostWrite
<1>1. TypeOK /\ Guard => RollbackNeedsALostWrite
  <2> SUFFICES ASSUME TypeOK, Guard PROVE RollbackNeedsALostWrite
    OBVIOUS
  <2>1. cur.gen \in Nat /\ hwFile \in Nat /\ top \in Nat
    BY DocFacts DEF TypeOK
  <2> QED
    BY <2>1 DEF Guard, ServedAboveSidecar, RollbackNeedsALostWrite
<1> QED
  BY <1>1, Inductive, PTL

\* A document the guard refused never reaches the restart cache.
THEOREM OnlyAppliedIsCached == Spec => []CacheWasApplied
<1>1. Custody => CacheWasApplied
  BY DEF Custody
<1> QED
  BY <1>1, Inductive, PTL

\* A restart during an outage finds a cached document its own high-water lets
\* it serve, whatever the crash point between the two writes.
THEOREM CacheIsNeverBelowSidecar == Spec => []CacheStarts
<1>1. Custody => CacheStarts
  BY DEF Custody
<1> QED
  BY <1>1, Inductive, PTL

-----------------------------------------------------------------------------
\* The order of identities, and with it the mark of a refusal, is kept by
\* every step: the writer moves only the document, and what is looked at,
\* remembered, cached or refused was the document at that time.
LEMMA VisibleStep == TypeOK /\ Guard /\ Custody /\ Visible /\ [Next]_vars => Visible'
<1> USE DEF Visible
<1> SUFFICES ASSUME TypeOK, Guard, Custody, Visible, [Next]_vars
             PROVE  Visible'
  OBVIOUS
<1>a. /\ cur.gen \in Nat /\ raw.gen \in Nat /\ doc.gen \in Nat /\ NoDoc.gen = 0
      /\ lastId \in Nat /\ pendingId \in Nat /\ doc.rev \in Nat
      /\ raw.rev \in Nat /\ rejected.rev \in Nat /\ pending.rev \in Nat
      /\ cache.rev \in Nat /\ NoDoc.rev = 0
  <2>1. \A d \in MaybeDoc : d.rev \in Nat
    BY DEF MaybeDoc, Doc, NoDoc, Revs
  <2>2. NoDoc.rev = 0 /\ Revs \cup {0} \subseteq Nat
    BY DEF NoDoc, Revs
  <2>3. doc \in MaybeDoc
    BY DocFacts DEF TypeOK
  <2> QED
    BY <2>1, <2>2, <2>3, DocFacts DEF TypeOK
<1> USE <1>a
<1>0. source \in {"file", "http"}
  BY SnapshotAssumption DEF SnapshotAssumption, TypeOK
<1>1. CASE Publish
  <2>1. /\ doc'.rev = doc.rev + 1
        /\ UNCHANGED <<source, up, cur, failing, lpc, raw, lastId, pendingId, pending,
                       cache, rejected>>
    BY <1>1 DEF Publish, history, disk, fileSrc, httpSrc
  <2>2. rejected # doc'
    BY <2>1
  <2> QED
    BY <2>1, <2>2
<1>2. CASE Open
  <2>1. /\ cur = NoDoc /\ lpc' \in {"stat", "fetch"}
        /\ UNCHANGED <<source, doc, cur, failing, raw, lastId, pendingId, pending,
                       cache, rejected>>
    BY <1>2 DEF Open, Guard, disk, fileSrc, httpSrc
  <2> QED
    BY <2>1
<1>3. CASE Crash
  <2>1. Gone /\ UNCHANGED <<source, doc, cache, rejected>>
    BY <1>3 DEF Crash, disk
  <2> QED
    BY <2>1 DEF Gone
<1>4. CASE RefreshStart
  <2>1. /\ lpc' \in {"stat", "fetch"}
        /\ UNCHANGED <<source, doc, up, cur, failing, raw, lastId, pendingId, pending,
                       cache, rejected>>
    BY <1>4 DEF RefreshStart, history, disk, fileSrc, httpSrc
  <2> QED
    BY <2>1
<1>5. CASE FileStat
  <2>1. source = "file" /\ lpc = "stat"
    BY <1>5 DEF FileStat, Custody
  <2>2. CASE cur.gen # 0 /\ doc.rev = lastId
    <3>1. /\ lpc' = "idle"
          /\ UNCHANGED <<source, doc, up, cur, raw, lastId, pendingId, pending, cache,
                         rejected>>
      BY <1>5, <2>2 DEF FileStat, Served, Unchanged, history, disk, fileSrc, httpSrc
    <3>2. rejected = NoDoc \/ rejected # doc
      BY <2>1, <2>2
    <3> QED
      BY <3>1, <3>2
  <2>3. CASE ~(cur.gen # 0 /\ doc.rev = lastId)
    <3>1. /\ lpc' = "read" /\ pendingId' = doc.rev
          /\ UNCHANGED <<source, doc, up, cur, failing, raw, lastId, pending, cache, rejected>>
      BY <1>5, <2>3 DEF FileStat, Served, history, disk, httpSrc
    <3> QED
      BY <2>3, <3>1
  <2> QED
    BY <2>2, <2>3
<1>6. CASE FileRead
  <2>1. /\ lpc = "read" /\ lpc' = "build" /\ raw' = doc
        /\ UNCHANGED <<source, doc, up, cur, failing, lastId, pendingId, pending, cache,
                       rejected>>
    BY <1>6 DEF FileRead, history, disk, fileSrc, httpSrc
  <2> QED
    BY <2>1
<1>7. ASSUME NEW why, Fail(why), why = NoDoc \/ (why = raw /\ lpc = "build"), up
      PROVE  Visible'
  <2>1. rejected' = why /\ UNCHANGED <<source, doc, cache>>
    BY <1>7 DEF Fail, disk
  <2>2. CASE cur = NoDoc
    <3>1. Gone
      BY <1>7, <2>2 DEF Fail
    <3> QED
      BY <1>7, <2>1, <3>1 DEF Gone
  <2>3. CASE cur # NoDoc
    <3>1. /\ failing' /\ lpc' = "idle" /\ raw' = NoDoc
          /\ UNCHANGED <<up, cur, lastId, pendingId, pending>>
      BY <1>7, <2>3 DEF Fail, fileSrc, httpSrc
    <3> QED
      BY <1>7, <2>1, <3>1
  <2> QED
    BY <2>2, <2>3
<1>8. CASE LoadFails
  BY <1>7, <1>8 DEF LoadFails
<1>9. CASE FetchDocument
  <2>1. /\ source = "http" /\ raw' = doc /\ pending' = doc /\ lpc' = "build"
        /\ UNCHANGED <<source, doc, up, cur, failing, lastId, pendingId, cache, rejected>>
    BY <1>9, <1>0 DEF FetchDocument, Custody, history, disk, fileSrc
  <2> QED
    BY <2>1
<1>10. CASE FetchUnchanged
  <2>1. /\ source = "http" /\ cur.gen = doc.gen /\ lpc' = "idle"
        /\ UNCHANGED <<source, doc, up, cur, raw, lastId, pendingId, pending, cache, rejected>>
    BY <1>10 DEF FetchUnchanged, Served, Unchanged, Custody, history, disk, fileSrc, httpSrc
  <2> QED
    BY <2>1
<1>11. CASE LoadCached
  <2>1. /\ source = "http" /\ raw' = cache /\ pending' = NoDoc /\ lpc' = "build"
        /\ UNCHANGED <<source, doc, up, cur, failing, lastId, pendingId, cache, rejected>>
    BY <1>11 DEF LoadCached, Custody, history, disk, fileSrc
  <2> QED
    BY <2>1
<1>12. CASE Apply
  <2>1. /\ rejected' = NoDoc /\ lpc' = "accept"
        /\ UNCHANGED <<source, doc, raw, lastId, pendingId, pending, cache>>
    BY <1>12 DEF Apply, disk, fileSrc, httpSrc
  <2> QED
    BY <2>1
<1>13. CASE Reject
  BY <1>7, <1>13 DEF Reject
<1>14. CASE AcceptFile
  <2>1. /\ lpc = "accept" /\ lpc' = "water" /\ lastId' = pendingId
        /\ UNCHANGED <<source, doc, raw, pendingId, pending, cache, rejected>>
    BY <1>14 DEF AcceptFile, history, disk, httpSrc
  <2> QED
    BY <2>1
<1>15. CASE AcceptHTTP
  <2>1. /\ lpc = "accept" /\ lpc' = "water" /\ pending' = NoDoc
        /\ cache' = cache \/ cache' = pending
        /\ UNCHANGED <<source, doc, raw, lastId, pendingId, rejected>>
    BY <1>15 DEF AcceptHTTP, fileSrc
  <2> QED
    BY <2>1
<1>16. CASE RaiseHighWater
  <2>1. /\ lpc = "water" /\ lpc' = "idle" /\ raw' = NoDoc
        /\ UNCHANGED <<source, doc, lastId, pendingId, pending, cache, rejected>>
    BY <1>16 DEF RaiseHighWater, fileSrc, httpSrc
  <2> QED
    BY <2>1
<1>17. CASE UNCHANGED vars
  BY <1>17 DEF vars, history, disk, fileSrc, httpSrc
<1> QED
  BY <1>1, <1>2, <1>3, <1>4, <1>5, <1>6, <1>8, <1>9, <1>10, <1>11,
     <1>12, <1>13, <1>14, <1>15, <1>16, <1>17 DEF Next, RefreshStep

\* A refused document that is still in place keeps the failure counted,
\* whatever polls, restarts and failed reads come after.
THEOREM RejectionIsVisible == Spec => []RejectionStaysVisible
<1>1. Init => Visible
  <2> SUFFICES ASSUME Init PROVE Visible
    OBVIOUS
  <2>1. PICK g \in Gens, v \in BOOLEAN : doc = [rev |-> 1, gen |-> g, valid |-> v]
    BY DEF Init
  <2>2. doc.rev = 1 /\ NoDoc.rev = 0 /\ NoDoc.gen = 0
    BY <2>1 DEF NoDoc
  <2> QED
    BY <2>2 DEF Init, Visible
<1>2. Visible => RejectionStaysVisible
  BY DEF Visible, RejectionStaysVisible
<1> QED
  BY <1>1, <1>2, Inductive, VisibleStep, PTL DEF Spec
=============================================================================
