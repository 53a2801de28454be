------------------------- MODULE UsageOutbox_proofs -------------------------
(***************************************************************************)
(* Proofs about the usage outbox, for any events, days, batch size and     *)
(* number of crashes.                                                      *)
(*                                                                         *)
(* Everything rests on a file that was removed never coming back under its *)
(* name (Over, Held): then a checkpoint is about the file it was made for  *)
(* (Offsets), what the reporter has read since the checkpoint is its batch *)
(* (Reading), and what retention judged is still true when it removes the  *)
(* file (Pruning, Shipped).                                                *)
(***************************************************************************)
EXTENDS UsageOutbox, TLAPS

-----------------------------------------------------------------------------
(* Types.                                                                  *)

\* The reporter has a file open exactly while it reads, posts or commits, and
\* a process that is down does nothing.
Opened ==
    /\ (rino # NoFile) <=> (rpc \in {"read", "post", "commit"})
    /\ ~up => rino = NoFile /\ ppc = "idle"

Typed == TypeOK /\ Opened

\* One more write in a file.
LEMMA AppendType ==
    ASSUME content \in [Inodes -> Seq(Unit)], NEW e \in Events, NEW b \in BOOLEAN,
           Appended(e, b)
    PROVE  content' \in [Inodes -> Seq(Unit)]
<1>1. [ev |-> e, whole |-> b] \in Unit
  BY DEF Unit
<1>2. CASE wino \in Inodes
  <2>1. Append(content[wino], [ev |-> e, whole |-> b]) \in Seq(Unit)
    BY <1>1, <1>2
  <2> QED BY <2>1 DEF Appended
<1>3. CASE wino \notin Inodes
  BY <1>3 DEF Appended
<1> QED BY <1>2, <1>3

\* The steps of a request and of the writer keep the types.
LEMMA WriterTypes == ASSUME Typed, NEW e \in Events, WriterStep(e) PROVE Typed'
<1> USE OutboxAssumption DEF Typed, Opened, TypeOK, processVars, requestVars, fileVars, writerVars,
        reporterVars, pruneVars, controlVars, ReqStates
<1>1. CASE RequestBegin(e)
  BY <1>1 DEF RequestBegin
<1>2. CASE WriteReuse(e)
  BY <1>2 DEF WriteReuse
<1>3. CASE WriteOpen(e)
  <2>1. CASE dir[evDay[e]] = NoFile
    <3>1. created + 1 \in 0..MaxInodes /\ created + 1 \in Inodes
      BY <1>3, <2>1 DEF WriteOpen, Inodes
    <3> QED BY <1>3, <2>1, <3>1 DEF WriteOpen
  <2>2. CASE dir[evDay[e]] # NoFile
    BY <1>3, <2>2 DEF WriteOpen
  <2> QED BY <2>1, <2>2
<1>4. CASE WriteOpenFails(e)
  BY <1>4 DEF WriteOpenFails
<1>5. CASE WriteAppend(e)
  <2>1. content' \in [Inodes -> Seq(Unit)]
    BY <1>5, AppendType DEF WriteAppend
  <2> QED BY <1>5, <2>1 DEF WriteAppend
<1>6. CASE WriteFails(e)
  <2>1. content' \in [Inodes -> Seq(Unit)]
    BY <1>6, AppendType DEF WriteFails
  <2> QED BY <1>6, <2>1 DEF WriteFails
<1> QED BY <1>1, <1>2, <1>3, <1>4, <1>5, <1>6 DEF WriterStep

\* The steps of the reporter keep the types.
LEMMA ReporterTypes ==
    ASSUME Typed, ReporterStep \/ PostAnswered \/ ReporterFails
    PROVE  Typed'
<1>u. \A s \in Seq(Unit) : \A i \in 1..Len(s) : s[i] \in Unit
  OBVIOUS
<1> USE OutboxAssumption DEF Typed, Opened, TypeOK, processVars, requestVars, fileVars, writerVars,
        reporterVars, pruneVars, controlVars, ReporterStates
<1>0. 0 \in Days /\ Days \subseteq Nat /\ NoFile \notin Inodes /\ <<>> \in Seq(Events)
  BY DEF Days, Inodes, NoFile
<1>b. BatchEvents \subseteq Events
  BY DEF BatchEvents
<1>1. CASE FlushStart
  BY <1>1 DEF FlushStart, Linked
<1>2. CASE FlushEnd
  BY <1>2 DEF FlushEnd
<1>3. CASE ReadLine
  <2>1. PICK j \in 1..Len(content[rino]) :
            /\ LineEnd(content[rino], rpos, j)
            /\ rpos' = j
            /\ rbatch' = IF j = rpos + 1 THEN Append(rbatch, content[rino][j].ev) ELSE rbatch
    BY <1>3 DEF ReadLine
  <2>2. j \in Nat
    OBVIOUS
  <2>3. rbatch' \in Seq(Events)
    <3>1. content[rino] \in Seq(Unit)
      BY <1>3 DEF ReadLine
    <3>2. content[rino][j] \in Unit
      BY <3>1, <2>1, <1>u
    <3>3. content[rino][j].ev \in Events
      BY <3>2 DEF Unit
    <3> QED BY <2>1, <3>3
  <2>4. rpc' \in {"post", "read"}
    BY <1>3 DEF ReadLine
  <2> QED BY <1>3, <2>1, <2>2, <2>3, <2>4 DEF ReadLine
<1>4. CASE ReadEOF \/ ReadFails
  BY <1>0, <1>4 DEF ReadEOF, ReadFails, StopReading, LeaveFile
<1>5. CASE Commit
  <2>1. mem' \in [Days -> Nat]
    BY <1>5 DEF Commit
  <2>2. disk' \in [Days -> Nat]
    BY <1>5, <2>1 DEF Commit
  <2>3. rtodo' \in SUBSET Days /\ rpc' \in ReporterStates /\ rday' \in Days
        /\ rino' \in Inodes \cup {NoFile} /\ rpos' \in Nat
        /\ rbatch' \in Seq(Events) /\ reof' \in BOOLEAN /\ Opened'
    BY <1>0, <1>5 DEF Commit, LeaveFile
  <2> QED BY <1>5, <2>1, <2>2, <2>3 DEF Commit
<1>6. ASSUME NEW d \in Days, ShipFile(d) PROVE Typed'
  BY <1>0, <1>6 DEF ShipFile
<1>7. ASSUME NEW d \in Days, ShipFileGone(d) PROVE Typed'
  BY <1>7 DEF ShipFileGone
<1>8. CASE PostAccepted
  BY <1>8, <1>b DEF PostAccepted
<1>9. CASE PostRefused
  BY <1>9, <1>b DEF PostRefused
<1>10. CASE ShipFileFails
  BY <1>10 DEF ShipFileFails
<1>11. CASE PostFailed
  BY <1>0, <1>11, <1>b DEF PostFailed, LeaveFile
<1> QED
  BY <1>1, <1>2, <1>3, <1>4, <1>5, <1>6, <1>7, <1>8, <1>9, <1>10, <1>11
  DEF ReporterStep, PostAnswered, ReporterFails

\* The steps of retention, of the clock and of the process keep the types.
LEMMA ProcessTypes ==
    ASSUME Typed, PruneStep \/ NextDay \/ Crash \/ Restart
    PROVE  Typed'
<1> USE OutboxAssumption DEF Typed, Opened, TypeOK, processVars, requestVars, fileVars, writerVars,
        reporterVars, pruneVars, controlVars, PruneStates
<1>0. 0 \in Days /\ Days \subseteq Nat /\ <<>> \in Seq(Events)
  BY DEF Days
<1>1. CASE PruneStart
  BY <1>1 DEF PruneStart, Linked
<1>2. CASE PruneCurrent
  BY <1>2 DEF PruneCurrent
<1>3. CASE PruneRemove
  BY <1>0, <1>3 DEF PruneRemove
<1>4. CASE PruneRemoveFails
  BY <1>0, <1>4 DEF PruneRemoveFails
<1>5. CASE PruneEnd
  BY <1>0, <1>5 DEF PruneEnd
<1>6. ASSUME NEW d \in Days, PruneCheck(d) PROVE Typed'
  BY <1>6 DEF PruneCheck
<1>7. CASE NextDay
  <2>1. today' \in Days
    BY <1>7 DEF NextDay, Days
  <2>2. UNCHANGED <<up, push, retention, crashes, req, evDay, content, created, dir,
                    writerVars, mem, disk, reporterVars, pruneVars, controlVars>>
    BY <1>7 DEF NextDay
  <2>3. crashes' \in 0..MaxCrashes[retention'] /\ retention' \in Retentions
    BY <2>2
  <2>4. Opened'
    BY <2>2
  <2> HIDE DEF Opened
  <2> QED BY <2>1, <2>2, <2>3, <2>4, Zenon
<1>8. CASE Crash
  <2>1. req' \in [Events -> ReqStates]
    BY <1>8 DEF Crash, ReqStates
  <2>2. crashes' \in 0..MaxCrashes[retention]
    <3>1. crashes < MaxCrashes[retention] /\ crashes' = crashes + 1
      BY <1>8, Zenon DEF Crash
    <3>2. MaxCrashes[retention] \in Nat /\ crashes \in Nat
      OBVIOUS
    <3> HIDE DEF TypeOK
    <3> QED BY <3>1, <3>2
  <2>3. rpc' \in ReporterStates
    BY <1>8 DEF Crash, LeaveFile, ReporterStates
  <2>4. rtodo' \in SUBSET Days /\ rday' \in Days /\ rino' = NoFile /\ rpc' = "idle"
        /\ rpos' \in Nat /\ rbatch' \in Seq(Events) /\ reof' \in BOOLEAN
    BY <1>0, <1>8 DEF Crash, LeaveFile
  <2> QED BY <1>0, <1>8, <2>1, <2>2, <2>3, <2>4 DEF Crash
<1>9. CASE Restart
  <2>1. mem' \in [Days -> Nat]
    <3>1. NoOffsets \in [Days -> Nat]
      BY DEF NoOffsets
    <3> QED BY <1>9, <3>1 DEF Restart
  <2>2. push' \in BOOLEAN
    BY <1>9 DEF Restart
  <2> QED BY <1>9, <2>1, <2>2 DEF Restart
<1> QED
  BY <1>1, <1>2, <1>3, <1>4, <1>5, <1>6, <1>7, <1>8, <1>9 DEF PruneStep

\* The types hold at the start and after every step.
LEMMA TypesStart == Init => Typed
<1> SUFFICES ASSUME Init PROVE Typed
  OBVIOUS
<1> USE OutboxAssumption DEF Init, Typed, Opened, TypeOK
<1>1. 0 \in Days /\ 0 \in 0..MaxInodes /\ 0 \in 0..MaxCrashes[retention]
  BY DEF Days
<1>2. content \in [Inodes -> Seq(Unit)] /\ rbatch \in Seq(Events)
  OBVIOUS
<1> QED BY <1>1, <1>2 DEF ReqStates, ReporterStates, PruneStates

LEMMA TypesStep == Typed /\ [Next]_vars => Typed'
<1> SUFFICES ASSUME Typed, [Next]_vars PROVE Typed'
  OBVIOUS
<1>1. CASE UNCHANGED vars
  BY <1>1 DEF Typed, Opened, TypeOK, vars, processVars, requestVars, fileVars, writerVars,
              reporterVars, pruneVars, controlVars
<1> QED BY <1>1, WriterTypes, ReporterTypes, ProcessTypes DEF Next

\* The variables keep their types: no offset becomes negative, no handle and
\* no name is on an inode that does not exist.
THEOREM TypeCorrect == Spec => []TypeOK
<1>1. Typed => TypeOK
  BY DEF Typed
<1> QED BY <1>1, TypesStart, TypesStep, PTL DEF Spec

-----------------------------------------------------------------------------
(* The inductive invariant.                                                *)

\* No file is deleted before a request that began on its day has ended,
\* whichever retention the process runs with.
Outliving == \A r \in Retentions : r = 0 \/ r > MaxLate

\* The process ships its events, whenever it is started.
Shipping == PushSettings = {TRUE}

\* Every request of day d has ended.
Over(d) == d + MaxLate < today

\* A request that is still to be recorded began recently enough.
Timely == \A e \in Events : InFlight(e) => ~Over(evDay[e])

\* A file has one name, and an inode not yet created is empty.
Files ==
    /\ \A d \in Days : dir[d] <= created
    /\ \A c, d \in Days : dir[c] = dir[d] /\ dir[c] # NoFile => c = d
    /\ \A n \in Inodes : n > created => content[n] = <<>>

\* What a write left in a file says how its Write returned, and there is one
\* write per event.
Recorded ==
    /\ \A n \in Inodes : \A i \in 1..Len(content[n]) :
         req[content[n][i].ev] = IF content[n][i].whole THEN "spooled" ELSE "failed"
    /\ \A m, n \in Inodes : \A i \in 1..Len(content[m]), j \in 1..Len(content[n]) :
         content[m][i].ev = content[n][j].ev => m = n /\ i = j

\* A handle is on the file of its day, or on one removed after the last
\* request of that day.
Held(n, day) ==
    n # NoFile =>
      /\ n <= created
      /\ day \in Days
      /\ \A d \in Days : dir[d] = n => d = day
      /\ dir[day] # n => dir[day] = NoFile /\ Over(day)

Writing ==
    /\ Held(wino, wday)
    /\ \A e \in Events : req[e] = "open" => wino # NoFile /\ wday = evDay[e]

\* An offset is the end of a line.
Boundary(f, p) == p # 0 => p \in 1..Len(f) /\ f[p].whole

\* The saved offsets are behind those in memory, and both are ends of lines
\* of the file that has the name; a file that is gone does not come back.
Offsets ==
    \A d \in Days :
      /\ disk[d] <= mem[d]
      /\ dir[d] = NoFile => mem[d] = 0 \/ Over(d)
      /\ dir[d] # NoFile =>
           Boundary(content[dir[d]], mem[d]) /\ Boundary(content[dir[d]], disk[d])

\* Write i of file f is an event that can be read.
Readable(f, i) == f[i].whole /\ ~Mangled(f, i)

\* The batch is what can be read between the checkpoint and the position, and
\* it is settled before the checkpoint moves.
Reading ==
    rino # NoFile =>
      /\ Boundary(content[rino], rpos)
      /\ mem[rday] <= rpos
      /\ \A k \in DOMAIN rbatch : \E i \in 1..Len(content[rino]) :
           Readable(content[rino], i) /\ content[rino][i].ev = rbatch[k]
      /\ \A i \in mem[rday]+1..rpos :
           Readable(content[rino], i) => content[rino][i].ev \in BatchEvents
      /\ rpc = "commit" => BatchEvents \subseteq Settled

\* What is about to be deleted was judged by a day that has come.
Pruning ==
    /\ ppc # "idle" => retention > 0 /\ pnow <= today
    /\ ppc = "remove" => Over(pday)

IInv ==
    /\ Typed
    /\ Timely /\ Files /\ Recorded
    /\ Writing /\ Offsets
    /\ Held(rino, rday) /\ Reading
    /\ Pruning

\* What is about to be deleted has been shipped.
Shipped ==
    ppc = "remove" /\ dir[pday] # NoFile => mem[pday] >= Len(content[dir[pday]])

-----------------------------------------------------------------------------
(* Facts the steps share.                                                  *)

\* What a file holds stays where it is.
Grown ==
    \A n \in Inodes : \A i \in 1..Len(content[n]) :
        i \in 1..Len(content'[n]) /\ content'[n][i] = content[n][i]

LEMMA SameIsGrown == ASSUME UNCHANGED content PROVE Grown
  BY DEF Grown

\* The writer's append is at the end of the file its handle is on.
LEMMA AppendFacts ==
    ASSUME Typed, NEW e \in Events, NEW b \in BOOLEAN, Appended(e, b), wino # NoFile
    PROVE  /\ Grown
           /\ wino \in Inodes
           /\ Len(content'[wino]) = Len(content[wino]) + 1
           /\ content'[wino][Len(content[wino]) + 1] = [ev |-> e, whole |-> b]
           /\ \A n \in Inodes : n # wino => content'[n] = content[n]
<1> DEFINE u == [ev |-> e, whole |-> b]
<1>1. wino \in Inodes /\ content \in [Inodes -> Seq(Unit)]
  BY DEF Typed, TypeOK
<1>2. \A n \in Inodes : n # wino => content'[n] = content[n]
  BY <1>1 DEF Appended
<1>3. content'[wino] = Append(content[wino], u)
  BY <1>1 DEF Appended
<1>4. content[wino] \in Seq(Unit) /\ u \in Unit
  BY <1>1 DEF Unit
<1>5. /\ Len(Append(content[wino], u)) = Len(content[wino]) + 1
      /\ Append(content[wino], u)[Len(content[wino]) + 1] = u
      /\ \A i \in 1..Len(content[wino]) :
            i \in 1..Len(content[wino]) + 1 /\ Append(content[wino], u)[i] = content[wino][i]
  BY <1>4
<1>6. Grown
  BY <1>2, <1>3, <1>5 DEF Grown
<1> QED BY <1>1, <1>2, <1>3, <1>5, <1>6

\* The write at a place of a file is one of an event.
LEMMA UnitAt ==
    ASSUME Typed, NEW n \in Inodes, NEW i \in 1..Len(content[n])
    PROVE  /\ content[n][i] \in Unit
           /\ content[n][i].ev \in Events
           /\ content[n][i].whole \in BOOLEAN
           /\ Len(content[n]) \in Nat
<1>1. content[n] \in Seq(Unit)
  BY DEF Typed, TypeOK
<1>2. content[n][i] \in Unit
  BY <1>1
<1> QED BY <1>1, <1>2 DEF Unit

LEMMA LenIsNat ==
    ASSUME Typed, NEW n \in Inodes
    PROVE  Len(content[n]) \in Nat
<1>1. content[n] \in Seq(Unit)
  BY DEF Typed, TypeOK
<1> QED BY <1>1

\* Ends of lines and readable events stay what they are.
LEMMA GrownFacts ==
    ASSUME Typed, Typed', Grown, NEW n \in Inodes
    PROVE  /\ \A p : Boundary(content[n], p) => Boundary(content[n], p)'
           /\ \A i \in 1..Len(content[n]) :
                 /\ Mangled(content'[n], i) <=> Mangled(content[n], i)
                 /\ Readable(content'[n], i) <=> Readable(content[n], i)
<1>1. \A i \in 1..Len(content[n]) :
         i \in 1..Len(content'[n]) /\ content'[n][i] = content[n][i]
  BY DEF Grown
<1>2. \A p : Boundary(content[n], p) => Boundary(content'[n], p)
  BY <1>1 DEF Boundary
<1>3. \A i \in 1..Len(content[n]) : i > 1 => i - 1 \in 1..Len(content[n])
  BY LenIsNat
<1>4. \A i \in 1..Len(content[n]) : Mangled(content'[n], i) <=> Mangled(content[n], i)
  BY <1>1, <1>3 DEF Mangled
<1>5. \A i \in 1..Len(content[n]) : Readable(content'[n], i) <=> Readable(content[n], i)
  BY <1>1, <1>4 DEF Readable
<1> QED BY <1>2, <1>4, <1>5

-----------------------------------------------------------------------------
(* The reporter.                                                           *)

\* A step that changes nothing but the reporter's own variables and what the
\* control plane has keeps the rest of the invariant.
LEMMA ReporterMoves ==
    ASSUME IInv, Typed',
           UNCHANGED <<processVars, requestVars, fileVars, writerVars, mem, disk, pruneVars>>,
           Held(rino, rday)', Reading'
    PROVE  IInv'
<1> USE DEF processVars, requestVars, fileVars, writerVars, pruneVars
<1>1. Timely'
  BY DEF IInv, Timely, InFlight, Over
<1>2. Files' /\ Recorded'
  BY DEF IInv, Files, Recorded
<1>3. Writing'
  BY DEF IInv, Writing, Held, Over
<1>4. Offsets'
  BY DEF IInv, Offsets, Over, Boundary
<1>5. Pruning'
  BY DEF IInv, Pruning, Over
<1> QED BY <1>1, <1>2, <1>3, <1>4, <1>5 DEF IInv

\* Outside a file the reporter holds nothing and has read nothing.
LEMMA NothingHeld ==
    ASSUME rino' = NoFile
    PROVE  Held(rino, rday)' /\ Reading'
  BY DEF Held, Reading

LEMMA NextFile ==
    ASSUME IInv, Typed', FlushStart \/ FlushEnd \/ ShipFileFails
                         \/ \E d \in Days : ShipFileGone(d)
    PROVE  IInv'
<1>1. UNCHANGED <<processVars, requestVars, fileVars, writerVars, mem, disk, pruneVars,
                  rday, rino, rpos, rbatch, reof, controlVars>>
  BY DEF FlushStart, FlushEnd, ShipFileFails, ShipFileGone
<1>2. rino = NoFile
  BY DEF IInv, Typed, Opened, FlushStart, FlushEnd, ShipFileFails, ShipFileGone
<1> QED BY <1>1, <1>2, NothingHeld, ReporterMoves

\* A file is read from its checkpoint.
LEMMA OpenFile ==
    ASSUME IInv, Typed', NEW d \in Days, ShipFile(d)
    PROVE  IInv'
<1>1. /\ UNCHANGED <<processVars, requestVars, fileVars, writerVars, mem, disk, pruneVars,
                     controlVars>>
      /\ dir[d] # NoFile /\ rday' = d /\ rino' = dir[d] /\ rpos' = mem[d] /\ rbatch' = <<>>
      /\ rpc' = "read"
  BY DEF ShipFile
<1>2. UNCHANGED <<dir, created, content, today, mem>>
  BY <1>1 DEF fileVars, processVars
<1>3. Held(rino, rday)'
  BY <1>1, <1>2 DEF IInv, Held, Files
<1>4. Reading'
  <2>1. Boundary(content[rino], rpos)'
    BY <1>1, <1>2 DEF IInv, Offsets, Boundary
  <2>2. mem[d] \in Nat
    BY DEF IInv, Typed, TypeOK
  <2>3. mem'[rday'] = rpos' /\ rpos' <= rpos' /\ rpos'+1..rpos' = {}
    BY <1>1, <1>2, <2>2
  <2>4. DOMAIN rbatch' = {}
    BY <1>1
  <2> QED BY <1>1, <2>1, <2>3, <2>4 DEF Reading
<1> QED BY <1>1, <1>3, <1>4, ReporterMoves

\* The reporter stays in its file.
LEMMA StaysInFile ==
    ASSUME IInv, UNCHANGED <<processVars, fileVars, rday, rino>>
    PROVE  Held(rino, rday)'
  BY DEF IInv, Held, Over, processVars, fileVars

\* One line further: what it holds is in the batch, unless it begins with a
\* fragment, and then no event of it can be read.
LEMMA NextLine ==
    ASSUME IInv, Typed', ReadLine
    PROVE  IInv'
<1>1. /\ UNCHANGED <<processVars, requestVars, fileVars, writerVars, mem, disk, pruneVars,
                     controlVars, rday, rino>>
      /\ rpc = "read" /\ rpc' # "commit"
  BY DEF ReadLine
<1>2. UNCHANGED <<content, mem>>
  BY <1>1 DEF fileVars
<1>3. rino # NoFile /\ rino \in Inodes /\ rpos \in Nat /\ rbatch \in Seq(Events)
  BY <1>1 DEF IInv, Typed, Opened, TypeOK
<1> DEFINE f == content[rino]
<1>4. /\ Boundary(f, rpos) /\ mem[rday] <= rpos /\ mem[rday] \in Nat
      /\ \A k \in DOMAIN rbatch : \E i \in 1..Len(f) : Readable(f, i) /\ f[i].ev = rbatch[k]
      /\ \A i \in mem[rday]+1..rpos : Readable(f, i) => f[i].ev \in BatchEvents
  BY <1>3 DEF IInv, Reading, Typed, TypeOK
<1>5. PICK j \in 1..Len(f) :
         /\ LineEnd(f, rpos, j)
         /\ rpos' = j
         /\ rbatch' = IF j = rpos + 1 THEN Append(rbatch, f[j].ev) ELSE rbatch
  BY DEF ReadLine
<1>6. Len(f) \in Nat /\ f[j].ev \in Events
  BY <1>3, UnitAt, LenIsNat DEF IInv
<1>7. j \in rpos+1..Len(f) /\ f[j].whole /\ \A k \in rpos+1..j-1 : ~f[k].whole
  BY <1>5 DEF LineEnd
<1> HIDE DEF f
<1>8. j = rpos + 1 => Readable(f, j)
  BY <1>3, <1>4, <1>6, <1>7 DEF Readable, Mangled, Boundary
<1>9. j # rpos + 1 => ~Readable(f, j)
  BY <1>3, <1>6, <1>7 DEF Readable, Mangled
<1>10. BatchEvents' = IF j = rpos + 1 THEN BatchEvents \cup {f[j].ev} ELSE BatchEvents
  <2>1. CASE j = rpos + 1
    <3>1. rbatch' = Append(rbatch, f[j].ev)
      BY <1>5, <2>1
    <3>2. DOMAIN rbatch' = 1..Len(rbatch)+1 /\ Len(rbatch) \in Nat
          /\ rbatch'[Len(rbatch)+1] = f[j].ev
          /\ \A k \in 1..Len(rbatch) : rbatch'[k] = rbatch[k]
      BY <1>3, <1>6, <3>1
    <3>3. DOMAIN rbatch = 1..Len(rbatch)
      BY <1>3
    <3>4. DOMAIN rbatch' = DOMAIN rbatch \cup {Len(rbatch)+1}
      BY <3>2, <3>3
    <3> QED BY <2>1, <3>2, <3>3, <3>4 DEF BatchEvents
  <2>2. CASE j # rpos + 1
    BY <1>5, <2>2 DEF BatchEvents
  <2> QED BY <2>1, <2>2
<1>11. Boundary(f, j)
  BY <1>5, <1>7 DEF Boundary
<1>12. \A k \in DOMAIN rbatch' : \E i \in 1..Len(f) : Readable(f, i) /\ f[i].ev = rbatch'[k]
  <2> SUFFICES ASSUME NEW k \in DOMAIN rbatch'
               PROVE  \E i \in 1..Len(f) : Readable(f, i) /\ f[i].ev = rbatch'[k]
    OBVIOUS
  <2>1. rbatch'[k] \in BatchEvents'
    BY DEF BatchEvents
  <2>2. CASE rbatch'[k] \in BatchEvents
    BY <1>4, <2>2 DEF BatchEvents
  <2>3. CASE j = rpos + 1 /\ rbatch'[k] = f[j].ev
    BY <1>5, <1>8, <2>3
  <2> QED BY <1>10, <2>1, <2>2, <2>3
<1>13. \A i \in mem[rday]+1..j : Readable(f, i) => f[i].ev \in BatchEvents'
  <2> SUFFICES ASSUME NEW i \in mem[rday]+1..j, Readable(f, i)
               PROVE  f[i].ev \in BatchEvents'
    OBVIOUS
  <2>1. CASE i <= rpos
    BY <1>3, <1>4, <1>6, <1>7, <1>10, <2>1
  <2>2. CASE i > rpos /\ i < j
    <3>1. i \in rpos+1..j-1
      BY <1>3, <1>4, <1>6, <1>7, <2>2
    <3> QED BY <1>7, <3>1 DEF Readable
  <2>3. CASE i = j
    BY <1>8, <1>9, <1>10, <2>3
  <2> QED BY <1>3, <1>4, <1>6, <1>7, <2>1, <2>2, <2>3
<1>14. mem[rday] <= j
  BY <1>3, <1>4, <1>6, <1>7
<1>15. Reading'
  BY <1>1, <1>2, <1>5, <1>11, <1>12, <1>13, <1>14 DEF Reading, f
<1>16. Held(rino, rday)'
  BY <1>1, StaysInFile
<1> QED BY <1>1, <1>15, <1>16, ReporterMoves

\* The reading of a file ends, with a batch to post or without one.
LEMMA EndOfReading ==
    ASSUME IInv, Typed', ReadEOF \/ ReadFails
    PROVE  IInv'
<1>1. /\ StopReading
      /\ UNCHANGED <<processVars, requestVars, fileVars, writerVars, mem, disk, pruneVars,
                     controlVars>>
  BY DEF ReadEOF, ReadFails, StopReading
<1>2. CASE rbatch = <<>>
  BY <1>1, <1>2, NothingHeld, ReporterMoves DEF StopReading, LeaveFile
<1>3. CASE rbatch # <<>>
  <2>1. UNCHANGED <<rday, rino, rpos, rbatch>> /\ rpc' = "post"
    BY <1>1, <1>3 DEF StopReading
  <2>2. Reading'
    BY <1>1, <2>1 DEF IInv, Reading, BatchEvents, fileVars
  <2> QED BY <1>1, <2>1, <2>2, StaysInFile, ReporterMoves
<1> QED BY <1>2, <1>3

\* An answer settles the batch; without one the file is left.
LEMMA Answered ==
    ASSUME IInv, Typed', PostAccepted \/ PostRefused \/ PostFailed
    PROVE  IInv'
<1>1. UNCHANGED <<processVars, requestVars, fileVars, writerVars, mem, disk, pruneVars>>
  BY DEF PostAccepted, PostRefused, PostFailed
<1>2. CASE PostFailed
  BY <1>1, <1>2, NothingHeld, ReporterMoves DEF PostFailed, LeaveFile
<1>3. CASE PostAccepted \/ PostRefused
  <2>1. UNCHANGED <<rday, rino, rpos, rbatch>> /\ BatchEvents' = BatchEvents
    BY <1>3 DEF PostAccepted, PostRefused, BatchEvents
  <2>2. BatchEvents \subseteq Settled'
    BY <1>3 DEF PostAccepted, PostRefused, Settled
  <2>3. Reading'
    BY <1>1, <2>1, <2>2 DEF IInv, Reading, fileVars
  <2> QED BY <1>1, <2>1, <2>3, StaysInFile, ReporterMoves
<1> QED BY <1>2, <1>3

\* The checkpoint moves to the end of a line of the file that has the name, or
\* of one that is gone for good.
LEMMA Committed ==
    ASSUME IInv, Typed', Commit
    PROVE  IInv'
<1>1. /\ UNCHANGED <<processVars, requestVars, fileVars, writerVars, pruneVars, controlVars>>
      /\ rpc = "commit" /\ mem' = [mem EXCEPT ![rday] = rpos]
      /\ disk' = mem' \/ disk' = disk
  BY DEF Commit
<1>2. rino # NoFile /\ rday \in Days /\ rpos \in Nat /\ mem \in [Days -> Nat]
      /\ disk \in [Days -> Nat] /\ rino \in Inodes
  BY <1>1 DEF IInv, Typed, Opened, TypeOK
<1>3. UNCHANGED <<dir, content, created, today, req, evDay, wday, wino, ppc, pnow, pday, retention>>
  BY <1>1 DEF fileVars, processVars, requestVars, writerVars, pruneVars
<1>4. Boundary(content[rino], rpos) /\ mem[rday] <= rpos
  BY <1>2 DEF IInv, Reading
<1>5. dir[rday] # rino => dir[rday] = NoFile /\ Over(rday)
  BY <1>2 DEF IInv, Held
<1>6. \A d \in Days : mem'[d] = IF d = rday THEN rpos ELSE mem[d]
  BY <1>1, <1>2
<1>7. Offsets'
  <2> SUFFICES ASSUME NEW d \in Days
               PROVE  /\ disk'[d] <= mem'[d]
                      /\ dir[d] = NoFile => mem'[d] = 0 \/ Over(d)
                      /\ dir[d] # NoFile => /\ Boundary(content[dir[d]], mem'[d])
                                            /\ Boundary(content[dir[d]], disk'[d])
    BY <1>3 DEF Offsets, Over, Boundary
  <2>1. /\ disk[d] <= mem[d]
        /\ dir[d] = NoFile => mem[d] = 0 \/ Over(d)
        /\ dir[d] # NoFile => Boundary(content[dir[d]], mem[d]) /\ Boundary(content[dir[d]], disk[d])
    BY DEF IInv, Offsets
  <2>2. mem[d] \in Nat /\ disk[d] \in Nat
    BY <1>2
  <2>3. mem'[d] \in Nat /\ mem[d] <= mem'[d]
    BY <1>2, <1>4, <1>6, <2>2
  <2>4. disk'[d] <= mem'[d]
    <3>1. CASE disk' = mem'
      BY <2>3, <3>1
    <3>2. CASE disk' = disk
      BY <2>1, <2>2, <2>3, <3>2
    <3> QED BY <1>1, <3>1, <3>2
  <2>5. dir[d] = NoFile => mem'[d] = 0 \/ Over(d)
    BY <1>2, <1>5, <1>6, <2>1
  <2>6. dir[d] # NoFile => Boundary(content[dir[d]], mem'[d])
    BY <1>4, <1>5, <1>6, <2>1
  <2>7. dir[d] # NoFile => Boundary(content[dir[d]], disk'[d])
    BY <1>1, <2>1, <2>6
  <2> QED BY <2>4, <2>5, <2>6, <2>7
<1>8. Timely' /\ Files' /\ Recorded' /\ Writing' /\ Pruning'
  BY <1>3 DEF IInv, Timely, InFlight, Over, Files, Recorded, Writing, Held, Pruning
<1>9. CASE rino' = NoFile
  BY <1>7, <1>8, <1>9, NothingHeld DEF IInv
<1>10. CASE rino' # NoFile
  <2>1. UNCHANGED <<rday, rino, rpos>> /\ rbatch' = <<>> /\ rpc' = "read"
    BY <1>10 DEF Commit, LeaveFile
  <2>2. mem'[rday] = rpos /\ rpos+1..rpos = {}
    BY <1>2, <1>6
  <2>3. DOMAIN rbatch' = {}
    BY <2>1
  <2>4. Reading'
    BY <1>2, <1>3, <1>4, <2>1, <2>2, <2>3 DEF Reading, Boundary
  <2>5. Held(rino, rday)'
    BY <1>1, <2>1, StaysInFile
  <2> QED BY <1>7, <1>8, <2>4, <2>5 DEF IInv
<1> QED BY <1>9, <1>10

-----------------------------------------------------------------------------
(* Retention.                                                              *)

LEMMA PruneMoves ==
    ASSUME IInv, Typed',
           UNCHANGED <<processVars, requestVars, fileVars, writerVars, mem, disk,
                       reporterVars, controlVars>>,
           Pruning'
    PROVE  IInv'
<1> USE DEF processVars, requestVars, fileVars, writerVars, reporterVars, controlVars
<1>1. Timely'
  BY DEF IInv, Timely, InFlight, Over
<1>2. Files' /\ Recorded'
  BY DEF IInv, Files, Recorded
<1>3. Writing' /\ Held(rino, rday)'
  BY DEF IInv, Writing, Held, Over
<1>4. Offsets'
  BY DEF IInv, Offsets, Over, Boundary
<1>5. Reading'
  BY DEF IInv, Reading, Boundary, BatchEvents, Settled
<1> QED BY <1>1, <1>2, <1>3, <1>4, <1>5 DEF IInv

\* Retention judges a day by the day it began its pass on, and by then the
\* last request of that day has ended.
LEMMA Judged ==
    ASSUME Outliving, IInv, Typed',
           PruneStart \/ PruneCurrent \/ PruneRemoveFails \/ PruneEnd
             \/ \E d \in Days : PruneCheck(d)
    PROVE  IInv'
<1>0. UNCHANGED <<processVars, requestVars, fileVars, writerVars, mem, disk,
                  reporterVars, controlVars>>
  BY DEF PruneStart, PruneCurrent, PruneRemoveFails, PruneEnd, PruneCheck
<1>1. UNCHANGED <<today, retention>>
  BY <1>0 DEF processVars
<1>2. today \in Nat /\ pnow \in Nat /\ MaxLate \in Nat /\ retention \in Nat
      /\ (retention > 0 => retention > MaxLate)
  BY OutboxAssumption DEF Outliving, IInv, Typed, TypeOK, Days
<1>3. CASE PruneStart
  <2>1. retention > 0 /\ pnow' = today /\ ppc' = "current"
    BY <1>3 DEF PruneStart
  <2> QED BY <1>0, <1>1, <1>2, <2>1, PruneMoves DEF Pruning
<1>4. CASE PruneCurrent
  <2>1. ppc = "current" /\ ppc' = "check" /\ UNCHANGED pnow
    BY <1>4 DEF PruneCurrent
  <2> QED BY <1>0, <1>1, <2>1, PruneMoves DEF IInv, Pruning
<1>5. CASE PruneRemoveFails
  <2>1. ppc = "remove" /\ ppc' = "check" /\ UNCHANGED pnow
    BY <1>5 DEF PruneRemoveFails
  <2> QED BY <1>0, <1>1, <2>1, PruneMoves DEF IInv, Pruning
<1>6. CASE PruneEnd
  <2>1. ppc' = "idle"
    BY <1>6 DEF PruneEnd
  <2> QED BY <1>0, <2>1, PruneMoves DEF Pruning
<1>7. ASSUME NEW d \in Days, PruneCheck(d) PROVE IInv'
  <2>1. ppc = "check" /\ UNCHANGED pnow
    BY <1>7 DEF PruneCheck
  <2>2. retention > 0 /\ pnow <= today
    BY <2>1 DEF IInv, Pruning
  <2>3. CASE ~MayDelete(d)
    <3>1. ppc' = "check"
      BY <1>7, <2>1, <2>3 DEF PruneCheck
    <3> QED BY <1>0, <1>1, <2>1, <2>2, <3>1, PruneMoves DEF Pruning
  <2>4. CASE MayDelete(d)
    <3>1. pday' = d /\ d + retention <= pnow
      BY <1>7, <2>4 DEF PruneCheck, MayDelete
    <3>2. d \in Nat
      BY DEF Days
    <3>3. d + MaxLate < today
      BY <1>2, <2>2, <3>1, <3>2
    <3>4. Over(pday)'
      BY <1>1, <3>1, <3>3 DEF Over
    <3> QED BY <1>0, <1>1, <2>1, <2>2, <3>4, PruneMoves DEF Pruning
  <2> QED BY <2>3, <2>4
<1> QED BY <1>3, <1>4, <1>5, <1>6, <1>7

\* What is removed is over: neither a handle on it nor its checkpoint is ever
\* used on another file.
LEMMA Removed ==
    ASSUME IInv, Typed', PruneRemove
    PROVE  IInv'
<1>1. /\ UNCHANGED <<processVars, requestVars, content, created, writerVars, mem, disk,
                     reporterVars, controlVars, pnow>>
      /\ ppc = "remove" /\ dir' = [dir EXCEPT ![pday] = NoFile] /\ ppc' = "check"
  BY DEF PruneRemove
<1> USE DEF processVars, requestVars, writerVars, reporterVars, controlVars
<1>2. \A d \in Days : dir'[d] = IF d = pday THEN NoFile ELSE dir[d]
  BY <1>1 DEF IInv, Typed, TypeOK
<1>3. Over(pday) /\ retention > 0 /\ pnow <= today /\ pday \in Days
  BY <1>1 DEF IInv, Pruning, Typed, TypeOK
<1>4. Timely' /\ Recorded' /\ Pruning'
  BY <1>1, <1>3 DEF IInv, Timely, InFlight, Over, Recorded, Pruning
<1>5. Files'
  <2>1. created \in Nat
    BY DEF IInv, Typed, TypeOK
  <2> QED BY <1>1, <1>2, <2>1 DEF IInv, Files, NoFile
<1>6. ASSUME NEW n, NEW day, Held(n, day)
      PROVE  n # NoFile =>
               /\ n <= created
               /\ day \in Days
               /\ \A d \in Days : dir'[d] = n => d = day
               /\ dir'[day] # n => dir'[day] = NoFile /\ Over(day)
  BY <1>2, <1>3, <1>6 DEF Held
<1>7. Writing'
  BY <1>1, <1>6 DEF IInv, Writing, Held, Over
<1>8. Held(rino, rday)'
  BY <1>1, <1>6 DEF IInv, Held, Over
<1>9. Offsets'
  BY <1>1, <1>2, <1>3 DEF IInv, Offsets, Over, Boundary
<1>10. Reading'
  BY <1>1 DEF IInv, Reading, Boundary, BatchEvents, Settled
<1> QED BY <1>4, <1>5, <1>7, <1>8, <1>9, <1>10 DEF IInv

-----------------------------------------------------------------------------
(* Requests and the writer.                                                *)

\* A step that changes neither files nor handles, and the state of one request
\* only, before its event is written.
LEMMA RequestMoves ==
    ASSUME IInv, Typed', NEW e \in Events, req[e] \in {"idle", "running"},
           UNCHANGED <<processVars, fileVars, wday, wino, mem, disk, reporterVars,
                       pruneVars, controlVars>>,
           \A x \in Events \ {e} : req'[x] = req[x] /\ evDay'[x] = evDay[x],
           InFlight(e)' => ~Over(evDay'[e]),
           req'[e] = "open" => wino # NoFile /\ wday = evDay'[e]
    PROVE  IInv'
<1> USE DEF processVars, fileVars, reporterVars, pruneVars, controlVars
<1>1. Timely'
  BY DEF IInv, Timely, InFlight, Over
<1>2. Files'
  BY DEF IInv, Files
<1>3. Recorded'
  <2>1. ASSUME NEW n \in Inodes, NEW i \in 1..Len(content[n])
        PROVE  req'[content[n][i].ev] = req[content[n][i].ev]
    <3>1. content[n][i].ev \in Events
      BY UnitAt DEF IInv
    <3>2. req[content[n][i].ev] \in {"spooled", "failed"}
      BY DEF IInv, Recorded
    <3>3. content[n][i].ev # e
      BY <3>2
    <3> QED BY <3>1, <3>3
  <2> QED BY <2>1 DEF IInv, Recorded
<1>4. Writing'
  BY DEF IInv, Writing, Held, Over
<1>5. Held(rino, rday)'
  BY DEF IInv, Held, Over
<1>6. Offsets'
  BY DEF IInv, Offsets, Over, Boundary
<1>7. Reading'
  BY DEF IInv, Reading, Boundary, BatchEvents, Settled
<1>8. Pruning'
  BY DEF IInv, Pruning, Over
<1> QED BY <1>1, <1>2, <1>3, <1>4, <1>5, <1>6, <1>7, <1>8 DEF IInv

LEMMA Requested ==
    ASSUME IInv, Typed', NEW e \in Events,
           RequestBegin(e) \/ WriteReuse(e) \/ WriteOpenFails(e)
    PROVE  IInv'
<1>0. /\ req \in [Events -> ReqStates] /\ evDay \in [Events -> Days]
      /\ today \in Nat /\ MaxLate \in Nat
  <2>1. req \in [Events -> ReqStates] /\ evDay \in [Events -> Days] /\ today \in Days
    BY DEF IInv, Typed, TypeOK
  <2> QED BY <2>1, OutboxAssumption DEF Days
<1>1. CASE RequestBegin(e)
  <2>1. /\ req[e] = "idle" /\ req' = [req EXCEPT ![e] = "running"]
        /\ evDay' = [evDay EXCEPT ![e] = today]
        /\ UNCHANGED <<processVars, fileVars, wday, wino, mem, disk, reporterVars,
                       pruneVars, controlVars>>
    BY <1>1 DEF RequestBegin, writerVars
  <2>2. req'[e] = "running" /\ evDay'[e] = today
        /\ \A x \in Events \ {e} : req'[x] = req[x] /\ evDay'[x] = evDay[x]
    BY <1>0, <2>1
  <2>3. ~Over(evDay'[e])
    BY <1>0, <2>2 DEF Over
  <2> QED BY <2>1, <2>2, <2>3, RequestMoves
<1>2. CASE WriteReuse(e)
  <2>1. /\ req[e] = "running" /\ req' = [req EXCEPT ![e] = "open"]
        /\ wino # NoFile /\ wday = evDay[e]
        /\ UNCHANGED <<processVars, evDay, fileVars, wday, wino, mem, disk, reporterVars,
                       pruneVars, controlVars>>
    BY <1>2 DEF WriteReuse
  <2>2. \A x \in Events \ {e} : req'[x] = req[x] /\ evDay'[x] = evDay[x]
    BY <1>0, <2>1
  <2>3. ~Over(evDay'[e])
    BY <2>1 DEF IInv, Timely, InFlight
  <2> QED BY <2>1, <2>2, <2>3, RequestMoves
<1>3. CASE WriteOpenFails(e)
  <2>1. /\ req[e] = "running" /\ req' = [req EXCEPT ![e] = "failed"]
        /\ UNCHANGED <<processVars, evDay, fileVars, wday, wino, mem, disk, reporterVars,
                       pruneVars, controlVars>>
    BY <1>3 DEF WriteOpenFails
  <2>2. req'[e] = "failed" /\ \A x \in Events \ {e} : req'[x] = req[x] /\ evDay'[x] = evDay[x]
    BY <1>0, <2>1
  <2>3. ~InFlight(e)'
    BY <2>2 DEF InFlight
  <2> QED BY <2>1, <2>2, <2>3, RequestMoves
<1> QED BY <1>1, <1>2, <1>3

\* A handle is opened on the file that has the name, or on a new one.
LEMMA HandleOpened ==
    ASSUME IInv, Typed', NEW e \in Events, WriteOpen(e)
    PROVE  IInv'
<1> DEFINE day == evDay[e]
<1>1. /\ UNCHANGED <<processVars, evDay, content, mem, disk, reporterVars, pruneVars,
                     controlVars>>
      /\ req[e] = "running" /\ req' = [req EXCEPT ![e] = "open"] /\ WriterFree
      /\ wday' = day
  BY DEF WriteOpen
<1>2. \/ /\ dir[day] = NoFile /\ created' = created + 1 /\ created < MaxInodes
         /\ dir' = [dir EXCEPT ![day] = created + 1] /\ wino' = created + 1
      \/ dir[day] # NoFile /\ wino' = dir[day] /\ UNCHANGED <<created, dir>>
  BY DEF WriteOpen
<1>3. /\ req \in [Events -> ReqStates] /\ evDay \in [Events -> Days] /\ day \in Days
      /\ created \in 0..MaxInodes /\ MaxInodes \in Nat
      /\ dir \in [Days -> Inodes \cup {NoFile}] /\ mem \in [Days -> Nat]
      /\ disk \in [Days -> Nat]
  BY OutboxAssumption DEF IInv, Typed, TypeOK
<1>4. ~Over(day)
  BY <1>1 DEF IInv, Timely, InFlight
<1>5. \A x \in Events : req'[x] = IF x = e THEN "open" ELSE req[x]
  BY <1>1, <1>3
<1> HIDE DEF day
<1> USE DEF processVars, reporterVars, pruneVars, controlVars
\* in either case
<1>6. /\ created \in Nat /\ created' \in Nat /\ created <= created'
      /\ wino' # NoFile /\ wino' <= created' /\ dir'[day] = wino'
      /\ \A d \in Days : d # day => dir'[d] = dir[d]
      /\ \A d \in Days : dir'[d] <= created' /\ dir[d] <= created
      /\ \A d \in Days : dir'[d] = wino' => d = day
  <2>1. \A d \in Days : dir[d] <= created /\ dir[d] \in Nat
    BY <1>3 DEF IInv, Files, Inodes, NoFile
  <2>2. \A c, d \in Days : dir[c] = dir[d] /\ dir[c] # NoFile => c = d
    BY DEF IInv, Files
  <2>3. CASE dir[day] = NoFile
    <3>1. created' = created + 1 /\ dir' = [dir EXCEPT ![day] = created + 1]
          /\ wino' = created + 1
      BY <1>2, <2>3
    <3>2. \A d \in Days : dir'[d] = IF d = day THEN created + 1 ELSE dir[d]
      BY <1>3, <3>1
    <3> QED BY <1>3, <2>1, <3>1, <3>2 DEF NoFile
  <2>4. CASE dir[day] # NoFile
    <3>1. wino' = dir[day] /\ UNCHANGED <<created, dir>>
      BY <1>2, <2>4
    <3> QED BY <1>3, <2>1, <2>2, <2>4, <3>1
  <2> QED BY <2>3, <2>4
<1>7. Timely'
  BY <1>1, <1>5 DEF IInv, Timely, InFlight, Over
<1>8. Files'
  <2>1. \A c, d \in Days : dir'[c] = dir'[d] /\ dir'[c] # NoFile => c = d
    BY <1>6 DEF IInv, Files
  <2>2. \A n \in Inodes : n > created' => content'[n] = <<>>
    <3>1. \A n \in Inodes : n \in Nat
      BY DEF Inodes
    <3> QED BY <1>1, <1>6, <3>1 DEF IInv, Files
  <2> QED BY <1>6, <2>1, <2>2 DEF Files
<1>9. Recorded'
  <2>1. ASSUME NEW n \in Inodes, NEW i \in 1..Len(content[n])
        PROVE  req'[content[n][i].ev] = req[content[n][i].ev]
    <3>1. content[n][i].ev \in Events
      BY UnitAt DEF IInv
    <3>2. req[content[n][i].ev] \in {"spooled", "failed"}
      BY DEF IInv, Recorded
    <3> QED BY <1>1, <1>5, <3>1, <3>2
  <2> QED BY <1>1, <2>1 DEF IInv, Recorded
<1>10. Writing'
  <2>1. Held(wino, wday)'
    BY <1>1, <1>3, <1>6 DEF Held
  <2>2. \A x \in Events : req'[x] = "open" => x = e
    BY <1>1, <1>5 DEF WriterFree
  <2> QED BY <1>1, <1>6, <2>1, <2>2 DEF Writing, day
<1>11. Held(rino, rday)'
  <2>1. CASE rino = NoFile
    BY <1>1, <2>1 DEF Held
  <2>2. CASE rino # NoFile
    <3>1. /\ rino <= created /\ rday \in Days /\ rino \in Nat
          /\ \A d \in Days : dir[d] = rino => d = rday
          /\ dir[rday] # rino => dir[rday] = NoFile /\ Over(rday)
      BY <2>2 DEF IInv, Held, Typed, TypeOK, Inodes
    <3>2. dir[day] = NoFile => rino # wino'
      BY <1>2, <1>3, <3>1
    <3>3. rday = day => dir[rday] = rino
      BY <1>4, <3>1
    <3>4. dir[day] # NoFile => dir' = dir
      BY <1>2
    <3>5. \A d \in Days : dir'[d] = rino => d = rday
      BY <1>6, <3>1, <3>2, <3>4
    <3>6. dir'[rday] # rino => dir'[rday] = NoFile /\ Over(rday)
      BY <1>6, <2>2, <3>1, <3>3, <3>4
    <3> QED BY <1>1, <1>6, <3>1, <3>5, <3>6 DEF Held, Over
  <2> QED BY <2>1, <2>2
<1>12. Offsets'
  <2> SUFFICES ASSUME NEW d \in Days
               PROVE  /\ disk[d] <= mem[d]
                      /\ dir'[d] = NoFile => mem[d] = 0 \/ Over(d)
                      /\ dir'[d] # NoFile => /\ Boundary(content[dir'[d]], mem[d])
                                             /\ Boundary(content[dir'[d]], disk[d])
    BY <1>1 DEF Offsets, Over, Boundary
  <2>1. /\ disk[d] <= mem[d]
        /\ dir[d] = NoFile => mem[d] = 0 \/ Over(d)
        /\ dir[d] # NoFile => Boundary(content[dir[d]], mem[d]) /\ Boundary(content[dir[d]], disk[d])
    BY DEF IInv, Offsets
  <2>2. CASE d # day \/ dir[day] # NoFile
    BY <1>2, <1>6, <2>1, <2>2
  <2>3. CASE d = day /\ dir[day] = NoFile
    <3>1. mem[d] = 0 /\ disk[d] = 0
      BY <1>3, <1>4, <2>1, <2>3
    <3> QED BY <1>6, <2>1, <2>3, <3>1 DEF Boundary
  <2> QED BY <2>2, <2>3
<1>13. Reading'
  BY <1>1 DEF IInv, Reading, Boundary, BatchEvents, Settled
<1>14. Pruning'
  BY <1>1 DEF IInv, Pruning, Over
<1> QED BY <1>7, <1>8, <1>9, <1>10, <1>11, <1>12, <1>13, <1>14 DEF IInv

\* One more write at the end of the file of its day: no offset and nothing the
\* reporter has read is disturbed.
LEMMA WriteKeeps ==
    ASSUME IInv, Typed', NEW e \in Events, NEW b \in BOOLEAN,
           req[e] = "open", Appended(e, b),
           req' = [req EXCEPT ![e] = IF b THEN "spooled" ELSE "failed"],
           UNCHANGED <<processVars, evDay, created, dir, writerVars, mem, disk,
                       reporterVars, pruneVars, controlVars>>
    PROVE  IInv'
<1> USE DEF processVars, writerVars, reporterVars, pruneVars, controlVars
<1> DEFINE at == Len(content[wino]) + 1
<1>1. /\ wino # NoFile /\ wday = evDay[e]
  BY DEF IInv, Writing
<1>2. /\ Grown /\ wino \in Inodes /\ Len(content'[wino]) = at
      /\ content'[wino][at] = [ev |-> e, whole |-> b]
      /\ \A n \in Inodes : n # wino => content'[n] = content[n]
  BY <1>1, AppendFacts DEF IInv
<1>3. Len(content[wino]) \in Nat
  BY <1>2, LenIsNat DEF IInv
<1>4. \A x \in Events : req'[x] = IF x = e THEN (IF b THEN "spooled" ELSE "failed") ELSE req[x]
  BY DEF IInv, Typed, TypeOK
<1> HIDE DEF at
<1>5. Timely'
  BY <1>4 DEF IInv, Timely, InFlight, Over
<1>6. Files'
  <2>1. wino <= created /\ wino \in Nat /\ created \in Nat
    BY <1>1, <1>2 DEF IInv, Writing, Held, Typed, TypeOK, Inodes
  <2>2. \A n \in Inodes : n > created => n # wino
    BY <2>1 DEF Inodes
  <2> QED BY <1>2, <2>2 DEF IInv, Files
\* a place of a file is an old one or the new one
<1>7. ASSUME NEW n \in Inodes, NEW i \in 1..Len(content'[n])
      PROVE  \/ n = wino /\ i = at
             \/ i \in 1..Len(content[n]) /\ content'[n][i] = content[n][i]
  <2>1. CASE n # wino
    BY <1>2, <2>1
  <2>2. CASE n = wino
    <3>1. i = at \/ i \in 1..Len(content[wino])
      BY <1>2, <1>3, <2>2 DEF at
    <3> QED BY <1>2, <2>2, <3>1 DEF Grown
  <2> QED BY <2>1, <2>2
<1>8. ASSUME NEW n \in Inodes, NEW i \in 1..Len(content[n])
      PROVE  content[n][i].ev \in Events /\ content[n][i].ev # e
  <2>1. content[n][i].ev \in Events
    BY UnitAt DEF IInv
  <2>2. req[content[n][i].ev] \in {"spooled", "failed"}
    BY DEF IInv, Recorded
  <2> QED BY <2>1, <2>2
<1>9. Recorded'
  <2>1. ASSUME NEW n \in Inodes, NEW i \in 1..Len(content'[n])
        PROVE  req'[content'[n][i].ev] = IF content'[n][i].whole THEN "spooled" ELSE "failed"
    <3>1. CASE n = wino /\ i = at
      BY <1>2, <1>4, <3>1
    <3>2. CASE i \in 1..Len(content[n]) /\ content'[n][i] = content[n][i]
      BY <1>4, <1>8, <3>2 DEF IInv, Recorded
    <3> QED BY <1>7, <3>1, <3>2
  <2>2. ASSUME NEW m \in Inodes, NEW n \in Inodes, NEW i \in 1..Len(content'[m]),
               NEW j \in 1..Len(content'[n]), content'[m][i].ev = content'[n][j].ev
        PROVE  m = n /\ i = j
    <3>1. CASE i \in 1..Len(content[m]) /\ content'[m][i] = content[m][i]
               /\ j \in 1..Len(content[n]) /\ content'[n][j] = content[n][j]
      BY <2>2, <3>1 DEF IInv, Recorded
    <3>2. CASE m = wino /\ i = at /\ n = wino /\ j = at
      BY <3>2
    <3>3. CASE m = wino /\ i = at /\ j \in 1..Len(content[n]) /\ content'[n][j] = content[n][j]
      <4>1. content'[m][i].ev = e
        BY <1>2, <3>3
      <4> QED BY <1>8, <2>2, <3>3, <4>1
    <3>4. CASE n = wino /\ j = at /\ i \in 1..Len(content[m]) /\ content'[m][i] = content[m][i]
      <4>1. content'[n][j].ev = e
        BY <1>2, <3>4
      <4> QED BY <1>8, <2>2, <3>4, <4>1
    <3> QED BY <1>7, <3>1, <3>2, <3>3, <3>4
  <2> QED BY <2>1, <2>2 DEF Recorded
<1>10. Writing'
  BY <1>4 DEF IInv, Writing, Held, Over
<1>11. Held(rino, rday)'
  BY DEF IInv, Held, Over
<1>12. Offsets'
  <2> SUFFICES ASSUME NEW d \in Days
               PROVE  /\ disk[d] <= mem[d]
                      /\ dir[d] = NoFile => mem[d] = 0 \/ Over(d)
                      /\ dir[d] # NoFile => /\ Boundary(content'[dir[d]], mem[d])
                                            /\ Boundary(content'[dir[d]], disk[d])
    BY DEF Offsets, Over, Boundary
  <2>1. dir[d] # NoFile => dir[d] \in Inodes
    BY DEF IInv, Typed, TypeOK
  <2>2. dir[d] # NoFile => \A p : Boundary(content[dir[d]], p) => Boundary(content'[dir[d]], p)
    BY <1>2, <2>1 DEF Grown, Boundary
  <2> QED BY <2>2 DEF IInv, Offsets
<1>13. Reading'
  <2> SUFFICES ASSUME rino # NoFile
               PROVE  /\ Boundary(content'[rino], rpos)
                      /\ mem[rday] <= rpos
                      /\ \A k \in DOMAIN rbatch : \E i \in 1..Len(content'[rino]) :
                           Readable(content'[rino], i) /\ content'[rino][i].ev = rbatch[k]
                      /\ \A i \in mem[rday]+1..rpos :
                           Readable(content'[rino], i) => content'[rino][i].ev \in BatchEvents
                      /\ rpc = "commit" => BatchEvents \subseteq Settled
    BY DEF Reading, Boundary, BatchEvents, Settled
  <2>1. rino \in Inodes /\ rpos \in Nat /\ rday \in Days /\ mem[rday] \in Nat
    BY DEF IInv, Typed, TypeOK
  <2>2. /\ Boundary(content[rino], rpos)
        /\ mem[rday] <= rpos
        /\ \A k \in DOMAIN rbatch : \E i \in 1..Len(content[rino]) :
             Readable(content[rino], i) /\ content[rino][i].ev = rbatch[k]
        /\ \A i \in mem[rday]+1..rpos :
             Readable(content[rino], i) => content[rino][i].ev \in BatchEvents
        /\ rpc = "commit" => BatchEvents \subseteq Settled
    BY DEF IInv, Reading
  <2>3. \A i \in 1..Len(content[rino]) :
           /\ i \in 1..Len(content'[rino]) /\ content'[rino][i] = content[rino][i]
           /\ Readable(content'[rino], i) <=> Readable(content[rino], i)
    BY <1>2, <2>1, GrownFacts DEF Grown, IInv
  <2>4. \A i \in mem[rday]+1..rpos : i \in 1..Len(content[rino])
    BY <2>1, <2>2, LenIsNat DEF Boundary, IInv
  <2>5. Boundary(content'[rino], rpos)
    BY <2>2, <2>3 DEF Boundary
  <2>6. \A k \in DOMAIN rbatch : \E i \in 1..Len(content'[rino]) :
           Readable(content'[rino], i) /\ content'[rino][i].ev = rbatch[k]
    BY <2>2, <2>3
  <2>7. \A i \in mem[rday]+1..rpos :
           Readable(content'[rino], i) => content'[rino][i].ev \in BatchEvents
    BY <2>2, <2>3, <2>4
  <2> QED BY <2>2, <2>5, <2>6, <2>7
<1>14. Pruning'
  BY DEF IInv, Pruning, Over
<1> QED BY <1>5, <1>6, <1>9, <1>10, <1>11, <1>12, <1>13, <1>14 DEF IInv

\* A write that fails with nothing written ends its request.
LEMMA NothingWritten ==
    ASSUME IInv, Typed', NEW e \in Events, req[e] = "open",
           req' = [req EXCEPT ![e] = "failed"],
           UNCHANGED <<processVars, evDay, fileVars, writerVars, mem, disk,
                       reporterVars, pruneVars, controlVars>>
    PROVE  IInv'
<1> USE DEF processVars, fileVars, writerVars, reporterVars, pruneVars, controlVars
<1>1. \A x \in Events : req'[x] = IF x = e THEN "failed" ELSE req[x]
  BY DEF IInv, Typed, TypeOK
<1>2. Timely'
  BY <1>1 DEF IInv, Timely, InFlight, Over
<1>3. Files'
  BY DEF IInv, Files
<1>4. Recorded'
  <2>1. ASSUME NEW n \in Inodes, NEW i \in 1..Len(content[n])
        PROVE  req'[content[n][i].ev] = req[content[n][i].ev]
    <3>1. content[n][i].ev \in Events
      BY UnitAt DEF IInv
    <3>2. req[content[n][i].ev] \in {"spooled", "failed"}
      BY DEF IInv, Recorded
    <3> QED BY <1>1, <3>1, <3>2
  <2> QED BY <2>1 DEF IInv, Recorded
<1>5. Writing' /\ Held(rino, rday)'
  BY <1>1 DEF IInv, Writing, Held, Over
<1>6. Offsets' /\ Reading' /\ Pruning'
  BY DEF IInv, Offsets, Over, Boundary, Reading, BatchEvents, Settled, Pruning
<1> QED BY <1>2, <1>3, <1>4, <1>5, <1>6 DEF IInv

LEMMA Written ==
    ASSUME IInv, Typed', NEW e \in Events, WriteAppend(e) \/ WriteFails(e)
    PROVE  IInv'
<1>0. UNCHANGED <<processVars, evDay, created, dir, writerVars, mem, disk, reporterVars,
                  pruneVars, controlVars>> /\ req[e] = "open"
  BY DEF WriteAppend, WriteFails, writerVars
<1>1. CASE WriteAppend(e)
  <2>1. Appended(e, TRUE) /\ req' = [req EXCEPT ![e] = IF TRUE THEN "spooled" ELSE "failed"]
    BY <1>1 DEF WriteAppend
  <2> QED BY <1>0, <2>1, WriteKeeps
<1>2. CASE WriteFails(e)
  <2>1. req' = [req EXCEPT ![e] = "failed"] /\ (UNCHANGED content \/ Appended(e, FALSE))
    BY <1>2 DEF WriteFails
  <2>2. CASE Appended(e, FALSE)
    <3>1. req' = [req EXCEPT ![e] = IF FALSE THEN "spooled" ELSE "failed"]
      BY <2>1
    <3> QED BY <1>0, <2>2, <3>1, WriteKeeps
  <2>3. CASE UNCHANGED content
    BY <1>0, <2>1, <2>3, NothingWritten DEF fileVars
  <2> QED BY <2>1, <2>2, <2>3
<1> QED BY <1>1, <1>2

-----------------------------------------------------------------------------
(* The clock and the process.                                              *)

\* A day that is over stays over, and no request outlives its bound.
LEMMA DayPasses ==
    ASSUME IInv, Typed', NextDay
    PROVE  IInv'
<1>1. /\ UNCHANGED <<up, push, retention, crashes, requestVars, fileVars, writerVars, mem,
                     disk, reporterVars, pruneVars, controlVars>>
      /\ today' = today + 1
      /\ \A e \in Events : InFlight(e) => today < evDay[e] + MaxLate
  BY DEF NextDay
<1>2. today \in Nat /\ MaxLate \in Nat /\ Days \subseteq Nat /\ pnow \in Nat
      /\ evDay \in [Events -> Days]
  <2>1. today \in Days /\ pnow \in Days /\ evDay \in [Events -> Days]
    BY DEF IInv, Typed, TypeOK
  <2> QED BY <2>1, OutboxAssumption DEF Days
<1>3. \A d \in Days : Over(d) => Over(d)'
  BY <1>1, <1>2 DEF Over
<1> USE DEF requestVars, fileVars, writerVars, reporterVars, pruneVars, controlVars
<1>4. Timely'
  <2> SUFFICES ASSUME NEW e \in Events, InFlight(e)' PROVE ~Over(evDay[e])'
    BY DEF Timely
  <2>1. InFlight(e) /\ evDay' = evDay
    BY <1>1 DEF InFlight
  <2>2. today < evDay[e] + MaxLate /\ evDay[e] \in Nat
    <3>1. evDay[e] \in Days
      BY <1>2
    <3> QED BY <1>1, <1>2, <2>1, <3>1
  <2>3. ~(evDay'[e] + MaxLate < today')
    BY <1>1, <1>2, <2>1, <2>2
  <2> QED BY <2>3 DEF Over
<1>5. Files' /\ Recorded'
  BY <1>1 DEF IInv, Files, Recorded
<1>6. Writing'
  BY <1>1, <1>3 DEF IInv, Writing, Held
<1>7. Held(rino, rday)'
  BY <1>1, <1>3 DEF IInv, Held
<1>8. Offsets'
  BY <1>1, <1>3 DEF IInv, Offsets, Boundary
<1>9. Reading'
  BY <1>1 DEF IInv, Reading, Boundary, BatchEvents, Settled
<1>10. Pruning'
  <2>1. pnow <= today => pnow <= today'
    BY <1>1, <1>2
  <2>2. pday \in Days
    BY DEF IInv, Typed, TypeOK
  <2> QED BY <1>1, <1>3, <2>1, <2>2 DEF IInv, Pruning
<1> QED BY <1>4, <1>5, <1>6, <1>7, <1>8, <1>9, <1>10 DEF IInv

\* The end of the process: its handles are gone, and no request is under way.
LEMMA Crashes ==
    ASSUME IInv, Typed', Crash
    PROVE  IInv'
<1>1. /\ UNCHANGED <<today, retention, evDay, fileVars, mem, disk, controlVars>>
      /\ req' = [e \in Events |-> IF InFlight(e) THEN "dead" ELSE req[e]]
      /\ wino' = NoFile /\ rino' = NoFile /\ ppc' = "idle"
  BY DEF Crash, LeaveFile
<1> USE DEF fileVars, controlVars
<1>2. \A e \in Events : ~InFlight(e)' /\ req'[e] # "open"
  BY <1>1 DEF InFlight
<1>3. Timely' /\ Writing'
  BY <1>1, <1>2 DEF Timely, Writing, Held
<1>4. Files'
  BY <1>1 DEF IInv, Files
<1>5. Recorded'
  <2>1. ASSUME NEW n \in Inodes, NEW i \in 1..Len(content[n])
        PROVE  req'[content[n][i].ev] = req[content[n][i].ev]
    <3>1. content[n][i].ev \in Events
      BY UnitAt DEF IInv
    <3>2. req[content[n][i].ev] \in {"spooled", "failed"}
      BY DEF IInv, Recorded
    <3> QED BY <1>1, <3>1, <3>2 DEF InFlight
  <2> QED BY <1>1, <2>1 DEF IInv, Recorded
<1>6. Offsets'
  BY <1>1 DEF IInv, Offsets, Over, Boundary
<1>7. Held(rino, rday)' /\ Reading' /\ Pruning'
  BY <1>1, NothingHeld DEF Pruning
<1> QED BY <1>3, <1>4, <1>5, <1>6, <1>7 DEF IInv

\* The next start: from the saved checkpoint, or from zero.
LEMMA Restarts ==
    ASSUME IInv, Typed', Restart
    PROVE  IInv'
<1>1. /\ UNCHANGED <<today, retention, crashes, requestVars, fileVars, writerVars,
                     reporterVars, pruneVars, controlVars>>
      /\ mem' \in {disk, NoOffsets} /\ disk' = mem'
  BY DEF Restart
<1> USE DEF requestVars, fileVars, writerVars, reporterVars, pruneVars, controlVars
<1>2. mem' \in [Days -> Nat] /\ disk \in [Days -> Nat] /\ mem \in [Days -> Nat]
  BY DEF IInv, Typed, TypeOK
<1>3. Timely' /\ Files' /\ Recorded' /\ Pruning'
  BY <1>1 DEF IInv, Timely, InFlight, Over, Files, Recorded, Pruning
<1>4. Writing' /\ Held(rino, rday)'
  BY <1>1 DEF IInv, Writing, Held, Over
<1>5. \A d \in Days : mem'[d] <= mem[d] /\ (mem'[d] = 0 \/ mem'[d] = disk[d])
  <2>1. CASE mem' = disk
    BY <2>1 DEF IInv, Offsets
  <2>2. CASE mem' = NoOffsets
    <3>1. \A d \in Days : mem'[d] = 0
      BY <2>2 DEF NoOffsets
    <3> QED BY <1>2, <3>1
  <2> QED BY <1>1, <2>1, <2>2
<1>6. Offsets'
  <2> SUFFICES ASSUME NEW d \in Days
               PROVE  /\ mem'[d] <= mem'[d]
                      /\ dir[d] = NoFile => mem'[d] = 0 \/ Over(d)
                      /\ dir[d] # NoFile => Boundary(content[dir[d]], mem'[d])
    BY <1>1 DEF Offsets, Over, Boundary
  <2>1. /\ dir[d] = NoFile => mem[d] = 0 \/ Over(d)
        /\ dir[d] # NoFile => Boundary(content[dir[d]], disk[d])
    BY DEF IInv, Offsets
  <2>2. mem'[d] \in Nat /\ mem[d] \in Nat
    BY <1>2
  <2> QED BY <1>5, <2>1, <2>2 DEF Boundary
<1>7. rino = NoFile
  BY DEF IInv, Typed, Opened, Restart
<1> QED BY <1>1, <1>3, <1>4, <1>6, <1>7, NothingHeld DEF IInv

-----------------------------------------------------------------------------
(* The invariant.                                                          *)

LEMMA Starts == Init => IInv
<1> SUFFICES ASSUME Init PROVE IInv
  OBVIOUS
<1>1. Typed
  BY TypesStart
<1>2. Timely /\ Files /\ Recorded
  <2>1. \A n \in Inodes : content[n] = <<>> /\ 1..Len(content[n]) = {}
    BY DEF Init
  <2>2. \A d \in Days : dir[d] = NoFile /\ dir[d] <= created
    BY DEF Init, NoFile
  <2>3. \A e \in Events : ~InFlight(e)
    BY DEF Init, InFlight
  <2> QED BY <2>1, <2>2, <2>3 DEF Timely, Files, Recorded
<1>3. Writing /\ Held(rino, rday) /\ Reading /\ Pruning
  BY DEF Init, Writing, Held, Reading, Pruning
<1>4. Offsets
  BY DEF Init, Offsets
<1> QED BY <1>1, <1>2, <1>3, <1>4 DEF IInv

LEMMA Rests == ASSUME IInv, UNCHANGED vars PROVE IInv'
<1> USE DEF vars, processVars, requestVars, fileVars, writerVars, reporterVars, pruneVars,
        controlVars
<1>1. Typed'
  BY DEF IInv, Typed, Opened, TypeOK
<1>2. Pruning'
  BY DEF IInv, Pruning, Over
<1> QED BY <1>1, <1>2, PruneMoves

LEMMA Steps == ASSUME Outliving, IInv, [Next]_vars PROVE IInv'
<1>0. Typed'
  BY TypesStep DEF IInv
<1>1. ASSUME NEW e \in Events, WriterStep(e) PROVE IInv'
  BY <1>0, <1>1, Requested, HandleOpened, Written DEF WriterStep
<1>2. CASE ReporterStep \/ PostAnswered \/ ReporterFails
  BY <1>0, <1>2, NextFile, OpenFile, NextLine, EndOfReading, Answered, Committed
  DEF ReporterStep, PostAnswered, ReporterFails
<1>3. CASE PruneStep
  BY <1>0, <1>3, Judged, Removed DEF PruneStep
<1>4. CASE NextDay \/ Crash \/ Restart
  BY <1>0, <1>4, DayPasses, Crashes, Restarts
<1>5. CASE UNCHANGED vars
  BY <1>5, Rests
<1> QED BY <1>1, <1>2, <1>3, <1>4, <1>5 DEF Next

\* Where the retention is longer than a request, a file that was removed never
\* comes back, every offset is the end of a line of the file it is used on,
\* every event is in at most one file, once, and what the reporter has read
\* since its checkpoint is in its batch.
THEOREM Invariance == ASSUME Outliving PROVE Spec => []IInv
<1>1. IInv /\ [Next]_vars => IInv'
  BY Steps
<1> QED BY Starts, <1>1, PTL DEF Spec

-----------------------------------------------------------------------------
(* No event is lost without a trace.                                       *)

\* What is swallowed stays swallowed.
LEMMA SwallowedStays ==
    ASSUME Typed, Typed', Grown
    PROVE  Swallowed \subseteq Swallowed'
<1> SUFFICES ASSUME NEW e \in Swallowed PROVE e \in Swallowed'
  OBVIOUS
<1>0. PICK n \in Inodes : \E i \in 1..Len(content[n]) :
         content[n][i].ev = e /\ content[n][i].whole /\ Mangled(content[n], i)
  BY DEF Swallowed
<1>1. PICK i \in 1..Len(content[n]) :
         content[n][i].ev = e /\ content[n][i].whole /\ Mangled(content[n], i)
  BY <1>0
<1>2. i \in 1..Len(content'[n]) /\ content'[n][i] = content[n][i] /\ Mangled(content'[n], i)
  BY <1>1, GrownFacts DEF Grown
<1>3. e \in Events
  BY DEF Swallowed
<1> QED BY <1>1, <1>2, <1>3 DEF Swallowed, Mangled

\* An event in the file of its day waits as long as that file has its name and
\* its checkpoint does not pass it.
LEMMA QueuedStays ==
    ASSUME Typed, Typed', Grown, NEW e \in Events, Queued(e), evDay'[e] = evDay[e],
           dir'[evDay[e]] = dir[evDay[e]], mem'[evDay[e]] <= mem[evDay[e]]
    PROVE  Queued(e)'
<1> DEFINE d == evDay[e]
           n == dir[d]
<1>1. d \in Days /\ mem[d] \in Nat /\ mem'[d] \in Nat /\ n \in Inodes
  BY DEF Typed, TypeOK, Queued
<1>2. PICK i \in 1..Len(content[n]) :
         i > mem[d] /\ content[n][i] = [ev |-> e, whole |-> TRUE]
  BY DEF Queued
<1>3. i \in 1..Len(content'[n]) /\ content'[n][i] = [ev |-> e, whole |-> TRUE]
  BY <1>1, <1>2 DEF Grown
<1>4. i > mem'[d]
  BY <1>1, <1>2, LenIsNat
<1> QED BY <1>1, <1>3, <1>4 DEF Queued

\* The property with what its removal of files needs.
Accounted ==
    /\ IInv
    /\ push
    /\ Shipped
    /\ SpooledIsAccountedFor

\* A step that takes no file its name and moves no checkpoint, and after which
\* no other event is spooled, loses nothing.
LEMMA NothingLost ==
    ASSUME Typed, Typed', SpooledIsAccountedFor, Grown,
           Settled \subseteq Settled',
           \A e \in Events : req'[e] = "spooled" => req[e] = "spooled" /\ evDay'[e] = evDay[e],
           \A d \in Days : dir[d] # NoFile => dir'[d] = dir[d],
           \A d \in Days : mem'[d] <= mem[d]
    PROVE  SpooledIsAccountedFor'
<1> SUFFICES ASSUME NEW e \in Events, req'[e] = "spooled"
             PROVE  (e \in Settled \/ Queued(e) \/ e \in Swallowed)'
  BY DEF SpooledIsAccountedFor
<1>1. e \in Settled \/ Queued(e) \/ e \in Swallowed
  BY DEF SpooledIsAccountedFor
<1>2. evDay[e] \in Days
  BY DEF Typed, TypeOK
<1>3. Queued(e) => Queued(e)'
  BY <1>2, QueuedStays DEF Queued
<1> QED BY <1>1, <1>3, SwallowedStays

\* What has passed the judgement stays shipped: its day is over, so nothing is
\* appended to it, and a checkpoint never goes back while the process runs.
LEMMA ShippedStays ==
    ASSUME IInv, Typed', Shipped,
           ppc' = "remove" => ppc = "remove" /\ pday' = pday,
           \A d \in Days : dir'[d] # NoFile => dir'[d] = dir[d] \/ ~Over(d),
           \A d \in Days : mem[d] <= mem'[d],
           \A n \in Inodes : content'[n] = content[n] \/ \E d \in Days : dir[d] = n /\ ~Over(d)
    PROVE  Shipped'
<1> SUFFICES ASSUME ppc' = "remove", dir'[pday'] # NoFile
             PROVE  mem'[pday'] >= Len(content'[dir'[pday']])
  BY DEF Shipped
<1>1. ppc = "remove" /\ pday' = pday /\ pday \in Days
  BY DEF IInv, Typed, TypeOK
<1>2. Over(pday)
  BY <1>1 DEF IInv, Pruning
<1>3. dir'[pday] = dir[pday] /\ dir[pday] # NoFile
  BY <1>1, <1>2
<1>4. dir[pday] \in Inodes
  BY <1>1, <1>3 DEF IInv, Typed, TypeOK
<1>5. content'[dir[pday]] = content[dir[pday]]
  BY <1>1, <1>2, <1>3, <1>4 DEF IInv, Files
<1>6. mem[pday] >= Len(content[dir[pday]])
  BY <1>1, <1>3 DEF Shipped
<1>7. mem[pday] \in Nat /\ mem'[pday] \in Nat /\ Len(content[dir[pday]]) \in Nat
  BY <1>1, <1>4, LenIsNat DEF IInv, Typed, TypeOK
<1> QED BY <1>1, <1>3, <1>5, <1>6, <1>7

\* A file the writer has open has its name, and its day is not over.
LEMMA OpenIsLinked ==
    ASSUME IInv, NEW e \in Events, req[e] = "open"
    PROVE  /\ wino # NoFile /\ wday = evDay[e] /\ evDay[e] \in Days
           /\ dir[evDay[e]] = wino /\ ~Over(evDay[e])
<1>1. wino # NoFile /\ wday = evDay[e] /\ Held(wino, wday)
  BY DEF IInv, Writing
<1>2. ~Over(evDay[e])
  BY DEF IInv, Timely, InFlight
<1> QED BY <1>1, <1>2 DEF Held

\* The steps of a request: what is written is queued behind the checkpoint of
\* its day.
LEMMA WriterAccounts ==
    ASSUME Accounted, IInv', NEW e \in Events, WriterStep(e)
    PROVE  Accounted'
<1>0. IInv /\ Typed /\ Typed' /\ push /\ Shipped /\ SpooledIsAccountedFor
  BY DEF Accounted, IInv
<1>1. /\ UNCHANGED <<processVars, mem, disk, reporterVars, pruneVars, controlVars>>
      /\ req[e] \in {"idle", "running", "open"}
      /\ \A x \in Events : x # e => req'[x] = req[x] /\ evDay'[x] = evDay[x]
  BY <1>0 DEF WriterStep, RequestBegin, WriteReuse, WriteOpen, WriteOpenFails,
              WriteAppend, WriteFails, Typed, TypeOK
<1>2. Settled' = Settled /\ push' = push /\ ppc' = ppc /\ pday' = pday /\ mem' = mem
  BY <1>1 DEF Settled, processVars, pruneVars, controlVars
<1>3. /\ Grown
      /\ \A d \in Days : dir[d] # NoFile => dir'[d] = dir[d]
      /\ \A d \in Days : dir'[d] # NoFile => dir'[d] = dir[d] \/ ~Over(d)
      /\ \A n \in Inodes : content'[n] = content[n] \/ \E d \in Days : dir[d] = n /\ ~Over(d)
  <2>1. CASE RequestBegin(e) \/ WriteReuse(e) \/ WriteOpenFails(e)
    <3>1. UNCHANGED <<content, dir>>
      BY <2>1 DEF RequestBegin, WriteReuse, WriteOpenFails, fileVars
    <3> QED BY <3>1, SameIsGrown
  <2>2. CASE WriteOpen(e)
    <3>1. UNCHANGED content /\ req[e] = "running"
      BY <2>2 DEF WriteOpen
    <3>2. ~Over(evDay[e])
      BY <1>0, <3>1 DEF IInv, Timely, InFlight
    <3>3. \A d \in Days : (d = evDay[e] /\ dir[d] = NoFile) \/ dir'[d] = dir[d]
      BY <1>0, <2>2 DEF WriteOpen, Typed, TypeOK
    <3> QED BY <3>1, <3>2, <3>3, SameIsGrown
  <2>3. CASE WriteAppend(e) \/ WriteFails(e)
    <3>1. /\ UNCHANGED dir /\ req[e] = "open"
          /\ Appended(e, TRUE) \/ Appended(e, FALSE) \/ UNCHANGED content
      BY <2>3 DEF WriteAppend, WriteFails
    <3>2. wino # NoFile /\ evDay[e] \in Days /\ dir[evDay[e]] = wino /\ ~Over(evDay[e])
      BY <1>0, <3>1, OpenIsLinked
    <3>3. Grown /\ \A n \in Inodes : n # wino => content'[n] = content[n]
      BY <1>0, <3>1, <3>2, AppendFacts, SameIsGrown
    <3> QED BY <3>1, <3>2, <3>3
  <2> QED BY <2>1, <2>2, <2>3 DEF WriterStep
<1>4. Shipped'
  <2>1. \A d \in Days : mem[d] <= mem'[d]
    BY <1>0, <1>2 DEF Typed, TypeOK
  <2> QED BY <1>0, <1>2, <1>3, <2>1, ShippedStays
<1>5. \A d \in Days : mem'[d] <= mem[d]
  BY <1>0, <1>2 DEF Typed, TypeOK
<1>6. CASE ~WriteAppend(e)
  <2>1. req'[e] # "spooled"
    BY <1>0, <1>6 DEF WriterStep, RequestBegin, WriteReuse, WriteOpen, WriteOpenFails,
                      WriteFails, Typed, TypeOK
  <2>2. SpooledIsAccountedFor'
    BY <1>0, <1>1, <1>2, <1>3, <1>5, <2>1, NothingLost
  <2> QED BY <1>0, <1>2, <1>4, <2>2 DEF Accounted
<1>7. CASE WriteAppend(e)
  <2>1. req[e] = "open" /\ Appended(e, TRUE) /\ UNCHANGED <<evDay, dir>>
    BY <1>7 DEF WriteAppend
  <2> DEFINE d == evDay[e]
             at == Len(content[wino]) + 1
  <2>2. wino # NoFile /\ d \in Days /\ dir[d] = wino
    BY <1>0, <2>1, OpenIsLinked
  <2>3. /\ wino \in Inodes /\ Len(content'[wino]) = at
        /\ content'[wino][at] = [ev |-> e, whole |-> TRUE]
    BY <1>0, <2>1, <2>2, AppendFacts
  <2>4. Len(content[wino]) \in Nat /\ mem[d] \in Nat /\ mem[d] <= Len(content[wino])
    <3>1. Len(content[wino]) \in Nat /\ mem[d] \in Nat
      BY <1>0, <2>2, <2>3, LenIsNat DEF Typed, TypeOK
    <3>2. mem[d] # 0 => mem[d] \in 1..Len(content[wino])
      BY <1>0, <2>2 DEF IInv, Offsets, Boundary
    <3> QED BY <3>1, <3>2
  <2>5. Queued(e)'
    <3>1. at \in 1..Len(content'[wino]) /\ at > mem[d]
      BY <2>3, <2>4
    <3> QED BY <1>2, <2>1, <2>2, <2>3, <3>1 DEF Queued
  <2>6. ASSUME NEW x \in Events, req'[x] = "spooled"
        PROVE  (x \in Settled \/ Queued(x) \/ x \in Swallowed)'
    <3>1. CASE x = e
      BY <2>5, <3>1
    <3>2. CASE x # e
      <4>1. req[x] = "spooled" /\ evDay'[x] = evDay[x] /\ evDay[x] \in Days
        BY <1>0, <1>1, <2>6, <3>2 DEF Typed, TypeOK
      <4>2. x \in Settled \/ Queued(x) \/ x \in Swallowed
        BY <1>0, <4>1 DEF SpooledIsAccountedFor
      <4>3. Queued(x) => Queued(x)'
        BY <1>0, <1>3, <1>5, <2>1, <4>1, QueuedStays
      <4> QED BY <1>0, <1>2, <1>3, <4>2, <4>3, SwallowedStays
    <3> QED BY <3>1, <3>2
  <2>7. SpooledIsAccountedFor'
    BY <2>6 DEF SpooledIsAccountedFor
  <2> QED BY <1>0, <1>2, <1>4, <2>7 DEF Accounted
<1> QED BY <1>6, <1>7

\* The steps of the reporter: a checkpoint moves past an event only after the
\* event was in a batch that was answered, or is behind a fragment.
LEMMA ReporterAccounts ==
    ASSUME Accounted, IInv', ReporterStep \/ PostAnswered \/ ReporterFails
    PROVE  Accounted'
<1>0. IInv /\ Typed /\ Typed' /\ push /\ Shipped /\ SpooledIsAccountedFor
  BY DEF Accounted, IInv
<1>1. UNCHANGED <<processVars, requestVars, fileVars, pruneVars>>
  BY DEF ReporterStep, PostAnswered, ReporterFails, FlushStart, FlushEnd, ReadLine, ReadEOF,
         ReadFails, StopReading, Commit, ShipFile, ShipFileGone, ShipFileFails,
         PostAccepted, PostRefused, PostFailed
<1>2. push' = push /\ ppc' = ppc /\ pday' = pday /\ req' = req /\ evDay' = evDay
      /\ dir' = dir /\ content' = content /\ Swallowed' = Swallowed
  BY <1>1 DEF processVars, requestVars, fileVars, pruneVars, Swallowed
<1>3. Grown
  BY <1>2, SameIsGrown
<1>4. CASE ~Commit
  <2>1. mem' = mem /\ Settled \subseteq Settled'
    BY <1>4 DEF ReporterStep, PostAnswered, ReporterFails, FlushStart, FlushEnd, ReadLine,
         ReadEOF, ReadFails, StopReading, ShipFile, ShipFileGone, ShipFileFails,
         PostAccepted, PostRefused, PostFailed, Settled, controlVars
  <2>2. \A d \in Days : mem'[d] <= mem[d] /\ mem[d] <= mem'[d]
    BY <1>0, <2>1 DEF Typed, TypeOK
  <2>3. Shipped'
    BY <1>0, <1>2, <2>2, ShippedStays
  <2>4. SpooledIsAccountedFor'
    BY <1>0, <1>2, <1>3, <2>1, <2>2, NothingLost
  <2> QED BY <1>0, <1>2, <2>3, <2>4 DEF Accounted
<1>5. CASE Commit
  <2>1. rpc = "commit" /\ mem' = [mem EXCEPT ![rday] = rpos] /\ UNCHANGED controlVars
    BY <1>5 DEF Commit
  <2>2. /\ rino # NoFile /\ rino \in Inodes /\ rday \in Days /\ rpos \in Nat
        /\ mem \in [Days -> Nat]
    BY <1>0, <2>1 DEF Typed, Opened, TypeOK
  <2>3. /\ mem[rday] <= rpos
        /\ \A i \in mem[rday]+1..rpos :
             Readable(content[rino], i) => content[rino][i].ev \in Settled
    BY <1>0, <2>1, <2>2 DEF IInv, Reading
  <2>4. \A d \in Days : mem'[d] = IF d = rday THEN rpos ELSE mem[d]
    BY <2>1, <2>2
  <2>5. \A d \in Days : mem[d] <= mem'[d]
    BY <2>2, <2>3, <2>4
  <2>6. Shipped'
    BY <1>0, <1>2, <2>5, ShippedStays
  <2>7. Settled' = Settled
    BY <2>1 DEF Settled, controlVars
  <2>8. ASSUME NEW e \in Events, req'[e] = "spooled"
        PROVE  (e \in Settled \/ Queued(e) \/ e \in Swallowed)'
    <3>1. e \in Settled \/ Queued(e) \/ e \in Swallowed
      BY <1>0, <1>2, <2>8 DEF SpooledIsAccountedFor
    <3>2. evDay[e] \in Days
      BY <1>0 DEF Typed, TypeOK
    <3>3. CASE Queued(e) /\ evDay[e] # rday
      <4>1. mem'[evDay[e]] <= mem[evDay[e]]
        BY <2>2, <2>4, <3>2, <3>3
      <4>2. Queued(e)'
        BY <1>0, <1>2, <1>3, <3>3, <4>1, QueuedStays
      <4> QED BY <4>2
    <3>4. CASE Queued(e) /\ evDay[e] = rday
      <4>1. dir[rday] = rino
        BY <1>0, <2>2, <3>4 DEF IInv, Held, Queued
      <4>2. PICK i \in 1..Len(content[rino]) :
               i > mem[rday] /\ content[rino][i] = [ev |-> e, whole |-> TRUE]
        BY <3>4, <4>1 DEF Queued
      <4>3. mem[rday] \in Nat /\ i \in Nat /\ Len(content[rino]) \in Nat
        BY <1>0, <2>2, LenIsNat
      <4>4. CASE i > rpos
        BY <1>2, <2>2, <2>4, <3>4, <4>1, <4>2, <4>4 DEF Queued
      <4>5. CASE i <= rpos /\ Mangled(content[rino], i)
        BY <1>2, <2>2, <4>2, <4>5 DEF Swallowed
      <4>6. CASE i <= rpos /\ ~Mangled(content[rino], i)
        <5>1. i \in mem[rday]+1..rpos /\ Readable(content[rino], i)
          BY <2>2, <4>2, <4>3, <4>6 DEF Readable
        <5>2. content[rino][i].ev = e
          BY <4>2
        <5> QED BY <2>3, <2>7, <5>1, <5>2
      <4> QED BY <2>2, <4>3, <4>4, <4>5, <4>6
    <3> QED BY <1>2, <2>7, <3>1, <3>3, <3>4
  <2>9. SpooledIsAccountedFor'
    BY <2>8 DEF SpooledIsAccountedFor
  <2> QED BY <1>0, <1>2, <2>6, <2>9 DEF Accounted
<1> QED BY <1>4, <1>5

\* The steps of retention: what has passed the judgement was shipped up to its
\* end, so its removal takes no event that is still queued.
LEMMA PruneAccounts ==
    ASSUME Accounted, IInv', PruneStep
    PROVE  Accounted'
<1>0. IInv /\ Typed /\ Typed' /\ push /\ Shipped /\ SpooledIsAccountedFor
  BY DEF Accounted, IInv
<1>1. UNCHANGED <<processVars, requestVars, content, mem, controlVars>>
  BY DEF PruneStep, PruneStart, PruneCurrent, PruneCheck, PruneRemove, PruneRemoveFails,
         PruneEnd, fileVars
<1>2. push' = push /\ req' = req /\ evDay' = evDay /\ content' = content /\ mem' = mem
      /\ Settled' = Settled /\ Swallowed' = Swallowed
  BY <1>1 DEF processVars, requestVars, controlVars, Settled, Swallowed
<1>3. Grown
  BY <1>2, SameIsGrown
<1>4. \A d \in Days : mem'[d] <= mem[d] /\ mem[d] <= mem'[d]
  BY <1>0, <1>2 DEF Typed, TypeOK
<1>5. CASE PruneRemove
  <2>1. ppc = "remove" /\ dir' = [dir EXCEPT ![pday] = NoFile] /\ ppc' = "check"
    BY <1>5 DEF PruneRemove
  <2>2. pday \in Days /\ \A d \in Days : dir'[d] = IF d = pday THEN NoFile ELSE dir[d]
    BY <1>0, <2>1 DEF Typed, TypeOK
  <2>3. ASSUME NEW e \in Events, req'[e] = "spooled"
        PROVE  (e \in Settled \/ Queued(e) \/ e \in Swallowed)'
    <3>1. e \in Settled \/ Queued(e) \/ e \in Swallowed
      BY <1>0, <1>2, <2>3 DEF SpooledIsAccountedFor
    <3>2. evDay[e] \in Days
      BY <1>0 DEF Typed, TypeOK
    <3>3. CASE Queued(e) /\ evDay[e] # pday
      <4>1. Queued(e)'
        BY <1>0, <1>2, <1>3, <1>4, <2>2, <3>2, <3>3, QueuedStays
      <4> QED BY <4>1
    <3>4. CASE Queued(e) /\ evDay[e] = pday
      <4>1. PICK i \in 1..Len(content[dir[pday]]) : i > mem[pday]
        BY <3>4 DEF Queued
      <4>2. dir[pday] # NoFile /\ dir[pday] \in Inodes
        BY <1>0, <2>2, <3>4 DEF Queued, Typed, TypeOK
      <4>3. mem[pday] >= Len(content[dir[pday]])
        BY <1>0, <2>1, <4>2 DEF Shipped
      <4>4. mem[pday] \in Nat /\ Len(content[dir[pday]]) \in Nat
        BY <1>0, <2>2, <4>2, LenIsNat DEF Typed, TypeOK
      <4> QED BY <4>1, <4>3, <4>4
    <3> QED BY <1>2, <3>1, <3>3, <3>4
  <2>4. SpooledIsAccountedFor'
    BY <2>3 DEF SpooledIsAccountedFor
  <2>5. Shipped'
    BY <2>1 DEF Shipped
  <2> QED BY <1>0, <1>2, <2>4, <2>5 DEF Accounted
<1>6. CASE ~PruneRemove
  <2>1. dir' = dir
    BY <1>6 DEF PruneStep, PruneStart, PruneCurrent, PruneCheck, PruneRemoveFails, PruneEnd,
                fileVars
  <2>2. SpooledIsAccountedFor'
    BY <1>0, <1>2, <1>3, <1>4, <2>1, NothingLost
  <2>3. Shipped'
    <3>1. CASE \E d \in Days : PruneCheck(d) /\ MayDelete(d)
      <4>1. PICK d \in Days : PruneCheck(d) /\ MayDelete(d)
        BY <3>1
      <4>2. pday' = d /\ FullyShipped(d)
        BY <1>0, <4>1 DEF PruneCheck, MayDelete
      <4> QED BY <1>2, <2>1, <4>2 DEF Shipped, FullyShipped
    <3>2. CASE ~ \E d \in Days : PruneCheck(d) /\ MayDelete(d)
      <4>1. ppc' # "remove"
        BY <1>6, <3>2 DEF PruneStep, PruneStart, PruneCurrent, PruneCheck,
                          PruneRemoveFails, PruneEnd
      <4> QED BY <4>1 DEF Shipped
    <3> QED BY <3>1, <3>2
  <2> QED BY <1>0, <1>2, <2>2, <2>3 DEF Accounted
<1> QED BY <1>5, <1>6

\* Midnight, the end of the process and its start: the checkpoint may go back,
\* never ahead.
LEMMA ProcessAccounts ==
    ASSUME Shipping, Accounted, IInv', NextDay \/ Crash \/ Restart
    PROVE  Accounted'
<1>0. IInv /\ Typed /\ Typed' /\ push /\ Shipped /\ SpooledIsAccountedFor
  BY DEF Accounted, IInv
<1>1. UNCHANGED <<evDay, fileVars, controlVars>>
  BY DEF NextDay, Crash, Restart, requestVars
<1>2. evDay' = evDay /\ content' = content /\ dir' = dir /\ Settled' = Settled
  BY <1>1 DEF fileVars, controlVars, Settled
<1>3. push'
  BY <1>0 DEF NextDay, Crash, Restart, Shipping
<1>4. \A d \in Days : mem'[d] <= mem[d]
  <2>1. mem \in [Days -> Nat]
    BY <1>0 DEF Typed, TypeOK
  <2>2. CASE NextDay \/ Crash
    <3>1. mem' = mem
      BY <2>2 DEF NextDay, Crash
    <3> QED BY <2>1, <3>1
  <2>3. CASE Restart
    <3>1. mem' = disk \/ mem' = NoOffsets
      BY <2>3 DEF Restart
    <3>2. CASE mem' = disk
      BY <1>0, <3>2 DEF IInv, Offsets
    <3>3. CASE mem' = NoOffsets
      <4>1. \A d \in Days : mem'[d] = 0
        BY <3>3 DEF NoOffsets
      <4> QED BY <2>1, <4>1
    <3> QED BY <3>1, <3>2, <3>3
  <2> QED BY <2>2, <2>3
<1>5. \A e \in Events : req'[e] = "spooled" => req[e] = "spooled"
  BY DEF NextDay, Crash, Restart, requestVars
<1>6. SpooledIsAccountedFor'
  BY <1>0, <1>2, <1>4, <1>5, NothingLost, SameIsGrown
<1>7. Shipped'
  <2>1. CASE Crash \/ Restart
    <3>1. ppc' = "idle"
      BY <1>0, <2>1 DEF Crash, Restart, Typed, Opened, pruneVars
    <3> QED BY <3>1 DEF Shipped
  <2>2. CASE NextDay
    <3>1. UNCHANGED <<ppc, pday, mem>>
      BY <2>2 DEF NextDay, pruneVars
    <3> QED BY <1>0, <1>2, <3>1 DEF Shipped
  <2> QED BY <2>1, <2>2
<1> QED BY <1>0, <1>3, <1>6, <1>7 DEF Accounted

\* An event whose Write returned nil is with the control plane, counted as
\* refused, in the file of its day beyond the checkpoint, or swallowed by a torn
\* write: at every step of the writer, the reporter and retention, over any
\* number of crashes and any order of the days.  Retention that is longer than a
\* request, and shipping that is always on, are what the code relies on.
THEOREM NoEventIsLost ==
    ASSUME Outliving, Shipping
    PROVE  Spec => []SpooledIsAccountedFor
<1>1. Init => Accounted
  <2> SUFFICES ASSUME Init PROVE Accounted
    OBVIOUS
  <2>1. push
    BY DEF Init, Shipping
  <2>2. Shipped /\ SpooledIsAccountedFor
    BY DEF Init, Shipped, SpooledIsAccountedFor
  <2> QED BY <2>1, <2>2, Starts DEF Accounted
<1>2. Accounted /\ [Next]_vars => Accounted'
  <2> SUFFICES ASSUME Accounted, [Next]_vars PROVE Accounted'
    OBVIOUS
  <2>1. IInv'
    BY Steps DEF Accounted
  <2>2. ASSUME NEW e \in Events, WriterStep(e) PROVE Accounted'
    BY <2>1, <2>2, WriterAccounts
  <2>3. CASE ReporterStep \/ PostAnswered \/ ReporterFails
    BY <2>1, <2>3, ReporterAccounts
  <2>4. CASE PruneStep
    BY <2>1, <2>4, PruneAccounts
  <2>5. CASE NextDay \/ Crash \/ Restart
    BY <2>1, <2>5, ProcessAccounts
  <2>6. CASE UNCHANGED vars
    <3>1. UNCHANGED <<push, ppc, pday, dir, mem, content, req, evDay, delivered, refused>>
      BY <2>6 DEF vars, processVars, requestVars, fileVars, pruneVars, controlVars
    <3> QED BY <2>1, <3>1 DEF Accounted, Shipped, SpooledIsAccountedFor, Settled, Queued,
                              Swallowed, Mangled
  <2> QED BY <2>2, <2>3, <2>4, <2>5, <2>6 DEF Next
<1>3. Accounted => SpooledIsAccountedFor
  BY DEF Accounted
<1> QED BY <1>1, <1>2, <1>3, PTL DEF Spec


-----------------------------------------------------------------------------
(* The checkpoint.                                                         *)

\* What can be read of a day file before its checkpoint is settled.
Confirmed ==
    \A d \in Days : dir[d] # NoFile =>
        \A i \in 1..mem[d] :
            Readable(content[dir[d]], i) => content[dir[d]][i].ev \in Settled

\* A checkpoint that does not move ahead, of a file that keeps its name, says
\* no more than before.
LEMMA ConfirmedStays ==
    ASSUME IInv, Typed', Confirmed, Grown,
           Settled \subseteq Settled',
           \A d \in Days : mem'[d] <= mem[d],
           \A d \in Days : dir'[d] # NoFile => dir'[d] = dir[d] \/ mem[d] = 0
    PROVE  Confirmed'
<1>0. Typed
  BY DEF IInv
<1> SUFFICES ASSUME NEW d \in Days, dir'[d] # NoFile,
                    NEW i \in 1..mem'[d], Readable(content'[dir'[d]], i)
             PROVE  content'[dir'[d]][i].ev \in Settled'
  BY DEF Confirmed, Readable, Mangled
<1>1. mem[d] \in Nat /\ mem'[d] \in Nat /\ i \in 1..mem[d] /\ mem[d] # 0
  <2>1. mem[d] \in Nat /\ mem'[d] \in Nat
    BY <1>0 DEF Typed, TypeOK
  <2>2. mem'[d] <= mem[d]
    OBVIOUS
  <2>3. i \in 1..mem'[d]
    OBVIOUS
  <2> QED BY <2>1, <2>2, <2>3
<1>2. dir'[d] = dir[d] /\ dir[d] # NoFile /\ dir[d] \in Inodes
  BY <1>0, <1>1 DEF Typed, TypeOK
<1>3. Len(content[dir[d]]) \in Nat /\ i \in 1..Len(content[dir[d]])
  <2>1. mem[d] \in 1..Len(content[dir[d]])
    BY <1>1, <1>2 DEF IInv, Offsets, Boundary
  <2> QED BY <1>0, <1>1, <1>2, <2>1, LenIsNat
<1>4. /\ content'[dir[d]][i] = content[dir[d]][i]
      /\ Mangled(content'[dir[d]], i) <=> Mangled(content[dir[d]], i)
  BY <1>0, <1>2, <1>3, GrownFacts DEF Grown
<1>5. Readable(content[dir[d]], i)
  BY <1>2, <1>4 DEF Readable
<1> QED BY <1>1, <1>2, <1>4, <1>5 DEF Confirmed

\* Only the commit of a batch moves the checkpoint ahead, and the batch it is
\* the commit of is settled.
LEMMA CommitConfirms ==
    ASSUME IInv, Typed', Confirmed, Commit
    PROVE  Confirmed'
<1>0. Typed
  BY DEF IInv
<1>1. /\ rpc = "commit" /\ mem' = [mem EXCEPT ![rday] = rpos]
      /\ UNCHANGED <<content, dir, delivered, refused>>
  BY DEF Commit, fileVars, controlVars
<1>2. rino # NoFile /\ rday \in Days /\ rpos \in Nat /\ mem \in [Days -> Nat]
  BY <1>0, <1>1 DEF Typed, Opened, TypeOK
<1>3. \A i \in mem[rday]+1..rpos :
         Readable(content[rino], i) => content[rino][i].ev \in Settled
  BY <1>1, <1>2 DEF IInv, Reading
<1>4. dir[rday] # NoFile => dir[rday] = rino
  BY <1>2 DEF IInv, Held
<1> SUFFICES ASSUME NEW d \in Days, dir[d] # NoFile,
                    NEW i \in 1..mem'[d], Readable(content[dir[d]], i)
             PROVE  content[dir[d]][i].ev \in Settled
  BY <1>1 DEF Confirmed, Readable, Mangled, Settled
<1>5. CASE d # rday
  <2>1. i \in 1..mem[d]
    BY <1>1, <1>2, <1>5
  <2> QED BY <2>1 DEF Confirmed
<1>6. CASE d = rday
  <2>1. i \in 1..mem[d] \/ i \in mem[rday]+1..rpos
    BY <1>1, <1>2, <1>6
  <2>2. CASE i \in 1..mem[d]
    BY <2>2 DEF Confirmed
  <2>3. CASE i \in mem[rday]+1..rpos
    BY <1>3, <1>4, <1>6, <2>3
  <2> QED BY <2>1, <2>2, <2>3
<1> QED BY <1>5, <1>6

\* The steps of a request: a new file has no checkpoint.
LEMMA WriterConfirms ==
    ASSUME IInv, Typed', Confirmed, NEW e \in Events, WriterStep(e)
    PROVE  Confirmed'
<1>0. Typed
  BY DEF IInv
<1>1. UNCHANGED <<mem, delivered, refused>>
  BY DEF WriterStep, RequestBegin, WriteReuse, WriteOpen, WriteOpenFails, WriteAppend,
         WriteFails, controlVars
<1>2. (\A d \in Days : mem'[d] <= mem[d]) /\ Settled \subseteq Settled'
  BY <1>0, <1>1 DEF Typed, TypeOK, Settled
<1>3. /\ Grown
      /\ \A d \in Days : dir'[d] # NoFile => dir'[d] = dir[d] \/ mem[d] = 0
  <2>1. CASE RequestBegin(e) \/ WriteReuse(e) \/ WriteOpenFails(e)
    <3>1. UNCHANGED <<content, dir>>
      BY <2>1 DEF RequestBegin, WriteReuse, WriteOpenFails, fileVars
    <3> QED BY <3>1, SameIsGrown
  <2>2. CASE WriteOpen(e)
    <3>1. UNCHANGED content /\ req[e] = "running"
      BY <2>2 DEF WriteOpen
    <3>2. evDay[e] \in Days /\ ~Over(evDay[e])
      BY <1>0, <3>1 DEF IInv, Timely, InFlight, Typed, TypeOK
    <3>3. \A d \in Days : (d = evDay[e] /\ dir[d] = NoFile) \/ dir'[d] = dir[d]
      BY <1>0, <2>2 DEF WriteOpen, Typed, TypeOK
    <3>4. dir[evDay[e]] = NoFile => mem[evDay[e]] = 0
      BY <3>2 DEF IInv, Offsets
    <3> QED BY <3>1, <3>3, <3>4, SameIsGrown
  <2>3. CASE WriteAppend(e) \/ WriteFails(e)
    <3>1. /\ UNCHANGED dir /\ req[e] = "open"
          /\ Appended(e, TRUE) \/ Appended(e, FALSE) \/ UNCHANGED content
      BY <2>3 DEF WriteAppend, WriteFails
    <3>2. wino # NoFile
      BY <3>1, OpenIsLinked
    <3> QED BY <1>0, <3>1, <3>2, AppendFacts, SameIsGrown
  <2> QED BY <2>1, <2>2, <2>3 DEF WriterStep
<1> QED BY <1>2, <1>3, ConfirmedStays

\* No other step writes, and none moves the checkpoint ahead.
LEMMA OthersConfirm ==
    ASSUME IInv, Typed', Confirmed,
           \/ ReporterStep /\ ~Commit
           \/ PostAnswered \/ ReporterFails \/ PruneStep \/ NextDay \/ Crash \/ Restart
           \/ UNCHANGED vars
    PROVE  Confirmed'
<1>0. Typed
  BY DEF IInv
<1>1. CASE ~PruneRemove /\ ~Restart
  <2>1. UNCHANGED <<content, dir, mem>>
    BY <1>1 DEF ReporterStep, FlushStart, FlushEnd, ReadLine, ReadEOF, ReadFails, StopReading,
         ShipFile, ShipFileGone, ShipFileFails, PostAnswered, PostAccepted, PostRefused,
         ReporterFails, PostFailed, PruneStep, PruneStart, PruneCurrent, PruneCheck,
         PruneRemoveFails, PruneEnd, NextDay, Crash, vars, fileVars
  <2>2. Settled \subseteq Settled'
    BY <1>1 DEF ReporterStep, FlushStart, FlushEnd, ReadLine, ReadEOF, ReadFails, StopReading,
         ShipFile, ShipFileGone, ShipFileFails, PostAnswered, PostAccepted, PostRefused,
         ReporterFails, PostFailed, PruneStep, PruneStart, PruneCurrent, PruneCheck,
         PruneRemoveFails, PruneEnd, NextDay, Crash, vars, controlVars, Settled
  <2>3. \A d \in Days : mem'[d] <= mem[d]
    BY <1>0, <2>1 DEF Typed, TypeOK
  <2> QED BY <2>1, <2>2, <2>3, SameIsGrown, ConfirmedStays
<1>2. CASE PruneRemove
  <2>1. /\ UNCHANGED <<content, mem, delivered, refused>>
        /\ dir' = [dir EXCEPT ![pday] = NoFile]
    BY <1>2 DEF PruneRemove, controlVars
  <2>2. \A d \in Days : dir'[d] # NoFile => dir'[d] = dir[d]
    BY <1>0, <2>1 DEF Typed, TypeOK
  <2>3. (\A d \in Days : mem'[d] <= mem[d]) /\ Settled \subseteq Settled'
    BY <1>0, <2>1 DEF Typed, TypeOK, Settled
  <2> QED BY <2>1, <2>2, <2>3, SameIsGrown, ConfirmedStays
<1>3. CASE Restart
  <2>1. UNCHANGED <<content, dir, delivered, refused>> /\ mem' \in {disk, NoOffsets}
    BY <1>3 DEF Restart, fileVars, controlVars
  <2>2. \A d \in Days : mem'[d] <= mem[d]
    <3>1. mem \in [Days -> Nat] /\ \A d \in Days : NoOffsets[d] = 0
      BY <1>0 DEF Typed, TypeOK, NoOffsets
    <3> QED BY <2>1, <3>1 DEF IInv, Offsets
  <2>3. Settled \subseteq Settled'
    BY <2>1 DEF Settled
  <2> QED BY <2>1, <2>2, <2>3, SameIsGrown, ConfirmedStays
<1> QED BY <1>1, <1>2, <1>3

\* Where the retention is longer than a request, what retention takes for fully
\* shipped is: every event written whole to the file is with the control plane
\* or counted as refused, whatever was read, posted and saved in between, and
\* whether the process ships all the time or not.
THEOREM CheckpointsAreTrue == ASSUME Outliving PROVE Spec => []ShippedIsConfirmed
<1>1. Init => IInv /\ Confirmed
  BY Starts DEF Init, Confirmed
<1>2. IInv /\ Confirmed /\ [Next]_vars => (IInv /\ Confirmed)'
  <2> SUFFICES ASSUME IInv, Confirmed, [Next]_vars PROVE IInv' /\ Confirmed'
    OBVIOUS
  <2>1. IInv' /\ Typed'
    BY Steps DEF IInv
  <2>2. CASE Commit
    BY <2>1, <2>2, CommitConfirms
  <2>3. ASSUME NEW e \in Events, WriterStep(e) PROVE Confirmed'
    BY <2>1, <2>3, WriterConfirms
  <2>4. CASE \/ ReporterStep /\ ~Commit
             \/ PostAnswered \/ ReporterFails \/ PruneStep \/ NextDay \/ Crash \/ Restart
             \/ UNCHANGED vars
    BY <2>1, <2>4, OthersConfirm
  <2> QED BY <2>1, <2>2, <2>3, <2>4 DEF Next
<1>3. IInv /\ Confirmed => ShippedIsConfirmed
  <2> SUFFICES ASSUME IInv, Confirmed, NEW d \in Days, FullyShipped(d),
                      NEW i \in 1..Len(content[dir[d]]),
                      content[dir[d]][i].whole, ~Mangled(content[dir[d]], i)
               PROVE  content[dir[d]][i].ev \in Settled
    BY DEF ShippedIsConfirmed
  <2>1. dir[d] # NoFile /\ dir[d] \in Inodes /\ mem[d] \in Nat /\ Len(content[dir[d]]) \in Nat
    BY LenIsNat DEF FullyShipped, IInv, Typed, TypeOK
  <2>2. i \in 1..mem[d]
    BY <2>1 DEF FullyShipped
  <2> QED BY <2>1, <2>2 DEF Confirmed, Readable
<1> QED BY <1>1, <1>2, <1>3, PTL DEF Spec
-----------------------------------------------------------------------------
(* The outbox implements the abstract queue.                               *)

Spooled == {e \in Events : req[e] = "spooled"}

Still == UNCHANGED <<Spooled, Settled, Swallowed>>

\* A step that writes nothing and ends no Write with nil is none of the queue's.
LEMMA NoTransfer ==
    ASSUME UNCHANGED <<content, delivered, refused>>,
           \A e \in Events : (req'[e] = "spooled") <=> (req[e] = "spooled")
    PROVE  Still
  BY DEF Still, Spooled, Settled, Swallowed

\* What an append swallows is at most its own event, and only if it is whole.
LEMMA AppendSwallows ==
    ASSUME IInv, Typed', NEW e \in Events, NEW b \in BOOLEAN, req[e] = "open", Appended(e, b)
    PROVE  \/ Swallowed' = Swallowed
           \/ b /\ Swallowed' = Swallowed \cup {e}
<1>0. wino # NoFile /\ Typed
  BY DEF IInv, Writing
<1> DEFINE at == Len(content[wino]) + 1
<1>1. /\ Grown /\ wino \in Inodes /\ Len(content'[wino]) = at
      /\ content'[wino][at] = [ev |-> e, whole |-> b]
      /\ \A n \in Inodes : n # wino => content'[n] = content[n]
  BY <1>0, AppendFacts
<1>2. Len(content[wino]) \in Nat
  BY <1>0, <1>1, LenIsNat
<1> HIDE DEF at
<1>3. Swallowed \subseteq Swallowed'
  BY <1>0, <1>1, SwallowedStays
<1>4. ASSUME NEW x \in Swallowed', x \notin Swallowed
      PROVE  x = e /\ b
  <2>1. PICK n \in Inodes : \E i \in 1..Len(content'[n]) :
           content'[n][i].ev = x /\ content'[n][i].whole /\ Mangled(content'[n], i)
    BY DEF Swallowed, Mangled
  <2>2. PICK i \in 1..Len(content'[n]) :
           content'[n][i].ev = x /\ content'[n][i].whole /\ Mangled(content'[n], i)
    BY <2>1
  <2>3. CASE n = wino /\ i = at
    BY <1>1, <2>2, <2>3
  <2>4. CASE ~(n = wino /\ i = at)
    <3>1. i \in 1..Len(content[n])
      BY <1>1, <1>2, <2>4 DEF at
    <3>2. content'[n][i] = content[n][i] /\ (Mangled(content'[n], i) <=> Mangled(content[n], i))
      BY <1>0, <1>1, <3>1, GrownFacts DEF Grown
    <3>3. x \in Events
      BY DEF Swallowed
    <3> QED BY <1>4, <2>2, <3>1, <3>2, <3>3 DEF Swallowed
  <2> QED BY <2>3, <2>4
<1>5. CASE Swallowed' \subseteq Swallowed
  <2>1. \A x : x \in Swallowed' <=> x \in Swallowed
    BY <1>3, <1>5
  <2>2. Swallowed' = Swallowed
    BY <2>1, Zenon
  <2> QED BY <2>2
<1>6. CASE ~(Swallowed' \subseteq Swallowed)
  <2>1. b /\ e \in Swallowed'
    BY <1>4, <1>6
  <2>2. Swallowed' \subseteq Swallowed \cup {e}
    BY <1>4
  <2> QED BY <1>3, <2>1, <2>2
<1> QED BY <1>5, <1>6

\* What can be read was accepted, and no torn write swallowed it: its event is
\* nowhere else.
LEMMA ReadableIsAccepted ==
    ASSUME IInv, NEW n \in Inodes, NEW i \in 1..Len(content[n]), Readable(content[n], i)
    PROVE  content[n][i].ev \in Spooled \ Swallowed
<1> DEFINE e == content[n][i].ev
<1>1. e \in Events
  BY UnitAt DEF IInv
<1>2. req[e] = "spooled"
  BY DEF IInv, Recorded, Readable
<1>3. ASSUME e \in Swallowed PROVE FALSE
  <2>1. PICK m \in Inodes : \E j \in 1..Len(content[m]) :
           content[m][j].ev = e /\ content[m][j].whole /\ Mangled(content[m], j)
    BY <1>3 DEF Swallowed
  <2>2. PICK j \in 1..Len(content[m]) :
           content[m][j].ev = e /\ content[m][j].whole /\ Mangled(content[m], j)
    BY <2>1
  <2>3. m = n /\ j = i
    BY <2>2 DEF IInv, Recorded
  <2> QED BY <2>2, <2>3 DEF Readable
<1> QED BY <1>1, <1>2, <1>3 DEF Spooled

LEMMA BatchIsAccepted ==
    ASSUME IInv, rpc = "post"
    PROVE  BatchEvents \subseteq Spooled \ Swallowed
<1>1. rino # NoFile /\ rino \in Inodes
  BY DEF IInv, Typed, Opened, TypeOK
<1> SUFFICES ASSUME NEW k \in DOMAIN rbatch PROVE rbatch[k] \in Spooled \ Swallowed
  BY DEF BatchEvents
<1>2. PICK i \in 1..Len(content[rino]) :
         Readable(content[rino], i) /\ content[rino][i].ev = rbatch[k]
  BY <1>1 DEF IInv, Reading
<1> QED BY <1>1, <1>2, ReadableIsAccepted

\* Every step is one of the abstract queue or none of its business: an append of
\* a whole line accepts, an answer settles the batch.
LEMMA Transfers ==
    ASSUME IInv, Typed', [Next]_vars
    PROVE  \/ Still
           \/ /\ \E e \in Events \ Spooled : Spooled' = Spooled \cup {e}
                    /\ Swallowed' \in {Swallowed, Swallowed \cup {e}}
              /\ Settled' = Settled
           \/ /\ \E S \in SUBSET Events : S \subseteq Spooled \ Swallowed
                    /\ Settled' = Settled \cup S
              /\ UNCHANGED <<Spooled, Swallowed>>
<1>0. req \in [Events -> ReqStates]
  BY DEF IInv, Typed, TypeOK
<1>1. ASSUME NEW e \in Events, RequestBegin(e) \/ WriteReuse(e) \/ WriteOpen(e)
                               \/ WriteOpenFails(e)
      PROVE  Still
  <2>1. UNCHANGED <<content, delivered, refused>>
    BY <1>1 DEF RequestBegin, WriteReuse, WriteOpen, WriteOpenFails, fileVars, controlVars
  <2>2. \A x \in Events : (req'[x] = "spooled") <=> (req[x] = "spooled")
    BY <1>0, <1>1 DEF RequestBegin, WriteReuse, WriteOpen, WriteOpenFails
  <2> QED BY <2>1, <2>2, NoTransfer
<1>2. ASSUME NEW e \in Events, WriteFails(e)
      PROVE  Still
  <2>1. req[e] = "open" /\ req' = [req EXCEPT ![e] = "failed"]
        /\ UNCHANGED <<delivered, refused>> /\ (UNCHANGED content \/ Appended(e, FALSE))
    BY <1>2 DEF WriteFails, controlVars
  <2>2. \A x \in Events : (req'[x] = "spooled") <=> (req[x] = "spooled")
    BY <1>0, <2>1
  <2>3. CASE UNCHANGED content
    BY <2>1, <2>2, <2>3, NoTransfer
  <2>4. CASE Appended(e, FALSE)
    <3>1. Swallowed' = Swallowed
      BY <2>1, <2>4, AppendSwallows
    <3> QED BY <2>1, <2>2, <3>1 DEF Still, Spooled, Settled
  <2> QED BY <2>1, <2>3, <2>4
<1>3. ASSUME NEW e \in Events, WriteAppend(e)
      PROVE  /\ e \in Events \ Spooled /\ Spooled' = Spooled \cup {e}
             /\ Swallowed' \in {Swallowed, Swallowed \cup {e}}
             /\ Settled' = Settled
  <2>1. req[e] = "open" /\ req' = [req EXCEPT ![e] = "spooled"]
        /\ UNCHANGED <<delivered, refused>> /\ Appended(e, TRUE)
    BY <1>3 DEF WriteAppend, controlVars
  <2>2. \A x \in Events : req'[x] = IF x = e THEN "spooled" ELSE req[x]
    BY <1>0, <2>1
  <2>3. Swallowed' = Swallowed \/ Swallowed' = Swallowed \cup {e}
    BY <2>1, AppendSwallows
  <2> QED BY <2>1, <2>2, <2>3 DEF Spooled, Settled
<1>4. CASE PostAnswered \/ PostFailed
  <2>1. rpc = "post" /\ UNCHANGED <<content, req>>
    BY <1>4 DEF PostAnswered, PostAccepted, PostRefused, PostFailed, fileVars, requestVars
  <2>2. BatchEvents \subseteq Spooled \ Swallowed
    BY <2>1, BatchIsAccepted
  <2>3. Settled' = Settled \cup BatchEvents \/ Settled' = Settled
    BY <1>4 DEF PostAnswered, PostAccepted, PostRefused, PostFailed, Settled
  <2>4. UNCHANGED <<Spooled, Swallowed>>
    BY <2>1 DEF Spooled, Swallowed
  <2>5. BatchEvents \in SUBSET Events
    BY <2>2 DEF Spooled
  <2> QED BY <2>2, <2>3, <2>4, <2>5 DEF Still
<1>5. CASE ReporterStep \/ ShipFileFails \/ ReadFails \/ PruneStep \/ NextDay \/ Restart
  <2>1. UNCHANGED <<content, delivered, refused, req>>
    BY <1>5 DEF ReporterStep, FlushStart, FlushEnd, ReadLine, ReadEOF, ReadFails, StopReading,
         Commit, ShipFile, ShipFileGone, ShipFileFails, PruneStep, PruneStart, PruneCurrent,
         PruneCheck, PruneRemove, PruneRemoveFails, PruneEnd, NextDay, Restart, fileVars,
         controlVars, requestVars
  <2> QED BY <2>1, NoTransfer
<1>6. CASE Crash
  <2>1. UNCHANGED <<content, delivered, refused>>
        /\ req' = [e \in Events |-> IF InFlight(e) THEN "dead" ELSE req[e]]
    BY <1>6 DEF Crash, fileVars, controlVars
  <2>2. \A x \in Events : (req'[x] = "spooled") <=> (req[x] = "spooled")
    BY <2>1 DEF InFlight
  <2> QED BY <2>1, <2>2, NoTransfer
<1>7. CASE UNCHANGED vars
  BY <1>7, NoTransfer DEF vars, fileVars, controlVars, requestVars
<1> QED BY <1>1, <1>2, <1>3, <1>4, <1>5, <1>6, <1>7 DEF Next, WriterStep, ReporterFails

\* The writer, the reporter, retention and the restarts together implement the
\* abstract queue: an event enters when its Write returns nil, and only entered,
\* unswallowed events are settled.  It needs a retention longer than a request:
\* otherwise a day file is removed and made anew under a checkpoint of the old.
THEOREM OutboxIsKept == ASSUME Outliving PROVE Spec => OutboxImplemented
<1>1. Init => Queue!Init
  <2> SUFFICES ASSUME Init PROVE Queue!Init
    OBVIOUS
  <2>1. \A n \in Inodes : content[n] = <<>> /\ 1..Len(content[n]) = {}
    BY DEF Init
  <2>2. Spooled = {} /\ Settled = {} /\ Swallowed = {}
    BY <2>1 DEF Init, Spooled, Settled, Swallowed
  <2> QED BY <2>2 DEF Queue!Init, Spooled
<1>2. IInv /\ IInv' /\ [Next]_vars
        => [Queue!Next]_<<{e \in Events : req[e] = "spooled"}, Settled, Swallowed>>
  <2> SUFFICES ASSUME IInv, Typed', [Next]_vars
               PROVE  [Queue!Next]_<<Spooled, Settled, Swallowed>>
    BY DEF IInv, Spooled
  <2>1. CASE Still
    BY <2>1 DEF Still
  <2>2. ASSUME NEW e \in Events \ Spooled, Spooled' = Spooled \cup {e},
               Swallowed' \in {Swallowed, Swallowed \cup {e}}, Settled' = Settled
        PROVE  Queue!Next
    <3>1. Queue!Accept(e)
      BY <2>2 DEF Queue!Accept, Spooled
    <3> QED BY <3>1 DEF Queue!Next
  <2>3. ASSUME NEW S \in SUBSET Events, S \subseteq Spooled \ Swallowed,
               Settled' = Settled \cup S, UNCHANGED <<Spooled, Swallowed>>
        PROVE  Queue!Next
    <3>1. Queue!Settle(S)
      BY <2>3 DEF Queue!Settle, Spooled
    <3> QED BY <3>1 DEF Queue!Next
  <2> QED BY <2>1, <2>2, <2>3, Transfers
<1> QED BY <1>1, <1>2, Invariance, PTL DEF Spec, OutboxImplemented, Queue!Spec
=============================================================================
