-------------------------- MODULE IndexCacheProofs --------------------------
(***************************************************************************)
(* The safety invariants of IndexCache, for any number of files, versions, *)
(* entries and starts, and for every choice of links.                      *)
(***************************************************************************)
EXTENDS IndexCache, FiniteSetTheorems, TLAPS

(* What is kept of a file is no newer than what it was read from, nor that  *)
(* than the file.                                                           *)
Old(x, p) == x.mtime <= x.ver /\ x.ver <= newest[p]

RowsAreOld ==
  /\ \A p \in Path :
       /\ file[p] # None => file[p].mtime = newest[p] /\ file[p].ver = newest[p]
       /\ cache[p] # None => Old(cache[p], p)
       /\ loaded[p] # None => Old(loaded[p], p)
       /\ entries[p] # None => Old(entries[p], p)
  /\ stat # None => stat.mtime <= newest[stat.path]
  /\ \A f \in Flusher : flush[f] # None => \A x \in flush[f].batch : Old(x.row, x.path)

(* Who may do what when: the goroutines end before Run flushes, unless the  *)
(* timer fired.                                                             *)
RunInv ==
  /\ err = "timeout" => phase \in {"final", "returned"}
  /\ phase \in {"down", "walk", "prune"} => flush = Idle /\ flusher = "returned"
  /\ phase # "final" => flush["Run"] = None
  /\ flusher = "returned" => flush["indexFlusher"] = None
  /\ phase \in {"final", "returned"} /\ err # "timeout" => flusher = "returned" /\ stat = None

(* How far Build is with a file nobody touched meanwhile. *)
WalkSoFar(p) ==
  IF file[p] = None THEN entries[p] = None /\ (stat # None => stat.path # p)
  ELSE \/ p \in todo \cup listed
       \/ stat # None /\ stat.path = p
       \/ entries[p] # None /\ entries[p].ver = file[p].ver

BuildProgress ==
  /\ phase = "down" => entries = Nothing /\ stat = None
  /\ phase = "prune" => todo = {} /\ listed = {} /\ stat = None
  /\ phase \in {"walk", "prune"} => \A p \in Path \ touched : WalkSoFar(p)

IndexInv == TypeOK /\ RowsAreOld /\ RunInv /\ BuildProgress

(* What CleanIsCached needs to be inductive.  Build's copy of the cache is  *)
(* the cache; a row a flush has written is still there; and the entry of a  *)
(* collected path is dirty until the flush clears it, and is the one that   *)
(* was collected only as long as its row is.                                *)
Clean(p) == entries[p] # None /\ ~entries[p].dirty

Wrote(x) ==
  cache[x.path] # None /\ cache[x.path].mtime = x.row.mtime /\ cache[x.path].ver = x.row.ver

Parsing(x) ==
  entries[x.path] # None /\ entries[x.path].id = x.id =>
    entries[x.path].mtime = x.row.mtime /\ entries[x.path].ver = x.row.ver

CleanRows ==
  /\ phase \in {"walk", "prune"} =>
       loaded = cache /\ \A p \in Path : Clean(p) => p \in found
  /\ err # "timeout" => \A p \in Path : Clean(p) => InCache(p)

FlushInv ==
  err # "timeout" =>
    \A f \in Flusher : flush[f] # None =>
      /\ \A x, y \in flush[f].batch : x.path = y.path => x = y
      /\ \A x \in flush[f].batch :
           ~Clean(x.path) /\ Parsing(x) /\ (x.path \notin flush[f].left => Wrote(x))

CleanInv == CleanRows /\ FlushInv

(* Nobody updates an entry while Run flushes: what it did not collect is    *)
(* clean.                                                                   *)
ShutdownInv ==
  err = "nil" =>
    /\ phase = "final" /\ flush["Run"] # None =>
         \A p \in Path : entries[p] # None => Clean(p) \/ Collected("Run", p)
    /\ phase = "returned" => \A p \in Path : entries[p] # None => Clean(p)

IInv == IndexInv /\ CleanInv /\ ShutdownInv
-----------------------------------------------------------------------------
LEMMA NewEntryIsUnused ==
  ASSUME Unused # {}
  PROVE  /\ NewEntry \in 1..MaxEntry
         /\ \A f \in Flusher : flush[f] # None => \A x \in flush[f].batch : x.id # NewEntry
<1>1. NewEntry \in Unused
  BY DEF NewEntry
<1> QED BY <1>1 DEF Unused

LEMMA NothingIsTyped ==
  /\ Nothing \in [Path -> File \cup {None}] /\ Nothing \in [Path -> Content \cup {None}]
  /\ Nothing \in [Path -> Entry \cup {None}] /\ Idle \in [Flusher -> Flush \cup {None}]
BY DEF Nothing, Idle

LEMMA BacklinksAreCounted == ASSUME NEW p \in Path PROVE Backlinks(p) \in Nat
<1> DEFINE s == {q \in Path \ {p} : entries[q] # None /\ p \in Links[q][entries[q].ver]}
<1>1. IsFiniteSet(s)
  BY PathAssumption, FS_Subset, s \subseteq Path
<1> QED BY <1>1, FS_CardinalityType DEF Backlinks

(* A process that ends leaves the files and the cache. *)
LEMMA EndKeepsAll == ASSUME IInv, EndProcess, UNCHANGED cache PROVE IInv'
<1>1. TypeOK'
  <2>1. /\ flush' \in [Flusher -> Flush \cup {None}]
        /\ \A f \in Flusher : flush'[f] # None => flush'[f].left \subseteq {x.path : x \in flush'[f].batch}
    BY NothingIsTyped DEF EndProcess, Idle
  <2> QED BY <2>1, NothingIsTyped DEF EndProcess, NoBuild, IInv, IndexInv, TypeOK
<1>2. RowsAreOld'
  BY DEF EndProcess, NoBuild, IInv, IndexInv, RowsAreOld, Old, Nothing, Idle
<1>3. RunInv' /\ BuildProgress'
  BY DEF EndProcess, RunInv, BuildProgress, Flusher, Idle
<1>4. CleanInv' /\ ShutdownInv'
  BY DEF EndProcess, CleanInv, CleanRows, FlushInv, ShutdownInv, Clean, Nothing, Idle
<1> QED BY <1>1, <1>2, <1>3, <1>4 DEF IInv, IndexInv

LEMMA InitIInv == Init => IInv
<1> SUFFICES ASSUME Init PROVE IInv
  OBVIOUS
<1>1. TypeOK
  <2>1. /\ flush \in [Flusher -> Flush \cup {None}]
        /\ \A f \in Flusher : flush[f] # None => flush[f].left \subseteq {x.path : x \in flush[f].batch}
    BY NothingIsTyped DEF Init, Idle
  <2>2. newest \in [Path -> 0..MaxVer] /\ starts \in 0..MaxStarts
    BY BoundAssumption DEF Init
  <2> QED BY <2>1, <2>2, NothingIsTyped DEF Init, TypeOK
<1>2. RowsAreOld /\ RunInv /\ BuildProgress
  BY DEF Init, RowsAreOld, RunInv, BuildProgress, Nothing, Idle, Flusher
<1>3. CleanInv /\ ShutdownInv
  BY DEF Init, CleanInv, CleanRows, FlushInv, ShutdownInv, Clean, Nothing, Idle
<1> QED BY <1>1, <1>2, <1>3 DEF IInv, IndexInv

(* InfoFails, PruneFails, End, and ParseFails in Build. *)
Ends ==
  \/ (\E p \in Path : InfoFails(p)) \/ PruneFails \/ End
  \/ ParseFails /\ phase = "walk"

LEMMA EndsKeepAll == ASSUME IInv, Ends PROVE IInv'
BY EndKeepsAll DEF Ends, InfoFails, PruneFails, End, ParseFails
-----------------------------------------------------------------------------
(***************************************************************************)
(* Types.                                                                  *)
(***************************************************************************)
LEMMA EditorTypes ==
  ASSUME TypeOK, NEW p \in Path, Write(p) \/ RemoveFile(p) PROVE TypeOK'
<1>1. CASE Write(p)
  <2> DEFINE c == [mtime |-> newest[p] + 1, ver |-> newest[p] + 1]
  <2>1. newest[p] + 1 \in 1..MaxVer /\ c \in File
    BY <1>1, BoundAssumption DEF Write, TypeOK, File
  <2>2. newest' = [newest EXCEPT ![p] = newest[p] + 1] /\ file' = [file EXCEPT ![p] = c]
    BY <1>1 DEF Write, TypeOK
  <2> HIDE DEF c
  <2>3. newest' \in [Path -> 0..MaxVer] /\ file' \in [Path -> File \cup {None}]
    BY <2>1, <2>2 DEF TypeOK
  <2>4. touched' \subseteq Path /\ UNCHANGED <<cache, build, stat, entries, flush, run>>
    BY <1>1 DEF Write, TypeOK
  <2> QED BY <2>3, <2>4 DEF TypeOK, build, run
<1>2. CASE RemoveFile(p)
  <2>1. file' \in [Path -> File \cup {None}] /\ touched' \subseteq Path
    BY <1>2 DEF RemoveFile, TypeOK
  <2> QED BY <1>2, <2>1 DEF RemoveFile, TypeOK, build, run
<1> QED BY <1>1, <1>2

LEMMA BuildTypes ==
  ASSUME TypeOK, StartBuild \/ WalkEnds \/ \E ps \in SUBSET todo : ReadDir(ps) PROVE TypeOK'
<1>1. CASE StartBuild
  BY <1>1, BoundAssumption DEF StartBuild, TypeOK, files, run
<1>2. CASE WalkEnds
  BY <1>2 DEF WalkEnds, TypeOK, files, run
<1>3. ASSUME NEW ps \in SUBSET todo, ReadDir(ps) PROVE TypeOK'
  BY <1>3 DEF ReadDir, TypeOK, files, run
<1> QED BY <1>1, <1>2, <1>3

LEMMA PruneTypes == ASSUME TypeOK, Prune PROVE TypeOK'
<1>1. \A p \in Path : entries[p] # None => [entries[p] EXCEPT !.count = Backlinks(p)] \in Entry
  BY BacklinksAreCounted DEF TypeOK, Entry
<1>2. entries' \in [Path -> Entry \cup {None}]
  BY <1>1 DEF Prune, WithBacklinks, TypeOK
<1>3. cache' \in [Path -> Content \cup {None}]
  BY DEF Prune, TypeOK
<1> QED BY <1>2, <1>3, NothingIsTyped DEF Prune, TypeOK, NoBuild

LEMMA VisitTypes ==
  ASSUME TypeOK, NEW p \in Path,
         VisitHit(p) \/ VisitMiss(p) \/ StatForUpdate(p) \/ Delete(p)
  PROVE  TypeOK'
<1>1. CASE VisitHit(p)
  <2> DEFINE e == [mtime |-> loaded[p].mtime, ver |-> loaded[p].ver, count |-> loaded[p].count,
                   id |-> NewEntry, dirty |-> FALSE]
  <2>1. e \in Entry
    BY <1>1, NewEntryIsUnused DEF VisitHit, IsHit, TypeOK, Content, Entry
  <2>2. entries' = [entries EXCEPT ![p] = e]
    BY <1>1 DEF VisitHit
  <2> HIDE DEF e
  <2>3. entries' \in [Path -> Entry \cup {None}]
    BY <2>1, <2>2 DEF TypeOK
  <2>4. listed' \subseteq Path /\ found' \subseteq Path
    BY <1>1 DEF VisitHit, Visited, TypeOK
  <2> QED BY <1>1, <2>3, <2>4 DEF VisitHit, TypeOK, files, run
<1>2. CASE VisitMiss(p) \/ StatForUpdate(p)
  <2>1. stat' \in Stat
    BY <1>2 DEF VisitMiss, StatForUpdate, TypeOK, File, Stat
  <2>2. listed' \subseteq Path /\ found' \subseteq Path
    BY <1>2 DEF VisitMiss, StatForUpdate, Visited, TypeOK, build
  <2> QED BY <1>2, <2>1, <2>2 DEF VisitMiss, StatForUpdate, TypeOK, files, build, run
<1>3. CASE Delete(p)
  <2>1. entries' \in [Path -> Entry \cup {None}]
    BY <1>3 DEF Delete, TypeOK
  <2> QED BY <1>3, <2>1 DEF Delete, TypeOK, files, build, run
<1> QED BY <1>1, <1>2, <1>3

LEMMA ParseTypes ==
  ASSUME TypeOK, Parse \/ (ParseFails /\ phase # "walk") PROVE TypeOK'
<1>1. CASE Parse
  <2> DEFINE e == Parsed(stat.path)
  <2>1. stat.path \in Path /\ e \in Entry
    BY <1>1, NewEntryIsUnused DEF Parse, Parsed, TypeOK, Stat, File, Entry
  <2>2. entries' = [entries EXCEPT ![stat.path] = e]
    BY <1>1 DEF Parse
  <2> HIDE DEF e
  <2>3. entries' \in [Path -> Entry \cup {None}]
    BY <2>1, <2>2 DEF TypeOK
  <2> QED BY <1>1, <2>3 DEF Parse, TypeOK, files, build, run
<1>2. CASE ParseFails /\ phase # "walk"
  BY <1>2 DEF ParseFails, TypeOK, files, build, run
<1> QED BY <1>1, <1>2

LEMMA CollectTypes ==
  ASSUME TypeOK, NEW f \in Flusher, Collect(f)
  PROVE  /\ flush' \in [Flusher -> Flush \cup {None}]
         /\ \A h \in Flusher : flush'[h] # None => flush'[h].left \subseteq {x.path : x \in flush'[h].batch}
<1> DEFINE c(p) == [path |-> p, row |-> RowOf(p), id |-> entries[p].id]
           b == {c(p) : p \in Dirty}
           g == [batch |-> b, left |-> Dirty]
<1>1. \A p \in Dirty : p \in Path /\ c(p) \in Collection /\ c(p).path = p
  BY DEF Dirty, TypeOK, Entry, Content, Collection, RowOf
<1> HIDE DEF c
<1>2. Dirty \subseteq {x.path : x \in b}
  <2>1. ASSUME NEW p \in Dirty PROVE \E x \in b : x.path = p
    BY <1>1
  <2> QED BY <2>1
<1>3. flush' = [flush EXCEPT ![f] = IF Dirty = {} THEN None ELSE g]
  BY DEF Collect, c
<1>4. b \subseteq Collection /\ Dirty \subseteq Path
  BY <1>1
<1> HIDE DEF b
<1>5. g \in Flush /\ g.left \subseteq {x.path : x \in g.batch}
  BY <1>2, <1>4 DEF Flush
<1> HIDE DEF g
<1> QED BY <1>3, <1>5 DEF TypeOK

LEMMA RunTypes ==
  ASSUME TypeOK, Tick \/ LastFlush \/ FinalFlush \/ Cancel \/ Waited \/ TimesOut PROVE TypeOK'
<1> "indexFlusher" \in Flusher /\ "Run" \in Flusher
  BY DEF Flusher
<1>1. CASE Tick
  BY <1>1, CollectTypes DEF Tick, TypeOK, files, build, run
<1>2. CASE LastFlush
  BY <1>2, CollectTypes DEF LastFlush, TypeOK, files, build
<1>3. CASE FinalFlush
  BY <1>3, CollectTypes DEF FinalFlush, TypeOK, files, run
<1>4. CASE Cancel
  BY <1>4 DEF Cancel, TypeOK, files, build
<1>5. CASE Waited
  BY <1>5 DEF Waited, TypeOK, files, run
<1>6. CASE TimesOut
  BY <1>6 DEF TimesOut, TypeOK, files
<1> QED BY <1>1, <1>2, <1>3, <1>4, <1>5, <1>6

LEMMA UpsertTypes ==
  ASSUME TypeOK, NEW f \in Flusher, NEW p \in Path, Upsert(f, p) PROVE TypeOK'
<1> DEFINE g == [flush[f] EXCEPT !.left = @ \ {p}]
<1>1. flush[f] \in Flush /\ flush[f].left \subseteq {x.path : x \in flush[f].batch}
  BY DEF TypeOK, Upsert
<1>2. g \in Flush /\ g.left \subseteq flush[f].left /\ g.batch = flush[f].batch
  BY <1>1 DEF Flush
<1>3. flush' = [flush EXCEPT ![f] = g]
  BY DEF Upsert, TypeOK
<1> HIDE DEF g
<1>4. /\ flush' \in [Flusher -> Flush \cup {None}]
      /\ \A h \in Flusher : flush'[h] # None => flush'[h].left \subseteq {x.path : x \in flush'[h].batch}
  BY <1>1, <1>2, <1>3 DEF TypeOK
<1>5. cache' \in [Path -> Content \cup {None}]
  <2>1. PICK x \in flush[f].batch : cache' = [cache EXCEPT ![p] = x.row]
    BY DEF Upsert
  <2>2. x.row \in Content
    BY <1>1, <2>1 DEF Flush, Collection
  <2> QED BY <2>1, <2>2 DEF TypeOK
<1> QED BY <1>4, <1>5 DEF Upsert, TypeOK, files, build, run

LEMMA FlushEndTypes ==
  ASSUME TypeOK, NEW f \in Flusher, UpsertFails(f) \/ Clear(f) PROVE TypeOK'
<1>1. /\ flush' \in [Flusher -> Flush \cup {None}]
      /\ \A h \in Flusher : flush'[h] # None => flush'[h].left \subseteq {x.path : x \in flush'[h].batch}
  BY DEF UpsertFails, Clear, TypeOK
<1>2. CASE UpsertFails(f)
  BY <1>1, <1>2 DEF UpsertFails, TypeOK, files
<1>3. CASE Clear(f)
  <2>1. \A p \in Path : entries[p] # None => [entries[p] EXCEPT !.dirty = FALSE] \in Entry
    BY DEF TypeOK, Entry
  <2>2. entries' \in [Path -> Entry \cup {None}]
    BY <1>3, <2>1 DEF Clear, TypeOK
  <2> QED BY <1>1, <1>3, <2>2 DEF Clear, TypeOK, files
<1> QED BY <1>2, <1>3

LEMMA TypesStep == ASSUME IInv, [Next]_vars PROVE TypeOK'
<1>0. TypeOK
  BY DEF IInv, IndexInv
<1>1. CASE UNCHANGED vars
  BY <1>0, <1>1 DEF vars, files, build, run, TypeOK
<1>2. CASE Ends
  BY <1>2, EndsKeepAll DEF IInv, IndexInv
<1>3. ASSUME NEW p \in Path,
             \/ Write(p) \/ RemoveFile(p)
             \/ VisitHit(p) \/ VisitMiss(p) \/ StatForUpdate(p) \/ Delete(p)
      PROVE  TypeOK'
  BY <1>0, <1>3, EditorTypes, VisitTypes
<1>4. CASE StartBuild \/ WalkEnds \/ Prune \/ \E ps \in SUBSET todo : ReadDir(ps)
  BY <1>0, <1>4, BuildTypes, PruneTypes
<1>5. CASE Parse \/ (ParseFails /\ phase # "walk")
  BY <1>0, <1>5, ParseTypes
<1>6. CASE Tick \/ LastFlush \/ FinalFlush \/ Cancel \/ Waited \/ TimesOut
  BY <1>0, <1>6, RunTypes
<1>7. ASSUME NEW f \in Flusher, FlushDirty(f) PROVE TypeOK'
  BY <1>0, <1>7, UpsertTypes, FlushEndTypes DEF FlushDirty
<1> QED BY <1>1, <1>2, <1>3, <1>4, <1>5, <1>6, <1>7 DEF Next, Ends
-----------------------------------------------------------------------------
(***************************************************************************)
(* What is kept is no newer than the file.                                 *)
(***************************************************************************)
LEMMA WriteKeepsOld ==
  ASSUME TypeOK, RowsAreOld, NEW p \in Path, Write(p) PROVE RowsAreOld'
<1> DEFINE c == [mtime |-> newest[p] + 1, ver |-> newest[p] + 1]
<1>1. /\ newest' = [newest EXCEPT ![p] = newest[p] + 1] /\ file' = [file EXCEPT ![p] = c]
      /\ UNCHANGED <<cache, loaded, entries, stat, flush>>
  BY DEF Write, build, TypeOK
<1>2. \A q \in Path : newest[q] \in Nat /\ newest'[q] \in Nat /\ newest[q] <= newest'[q]
  BY <1>1 DEF TypeOK
<1>3. \A q \in Path : file'[q] = IF q = p THEN c ELSE file[q]
  BY <1>1 DEF TypeOK
<1>4. c.mtime = newest'[p] /\ c.ver = newest'[p]
  BY <1>1 DEF TypeOK
<1>5. \A q \in Path, x \in Content : Old(x, q) => Old(x, q)'
  BY <1>2 DEF Old, Content
<1> HIDE DEF c
<1>6. ASSUME NEW q \in Path, file'[q] # None
      PROVE  file'[q].mtime = newest'[q] /\ file'[q].ver = newest'[q]
  <2>1. CASE q = p
    BY <1>3, <1>4, <2>1
  <2>2. CASE q # p
    BY <1>1, <1>3, <1>6, <2>2 DEF RowsAreOld, TypeOK
  <2> QED BY <2>1, <2>2
<1>7. ASSUME NEW q \in Path
      PROVE  /\ cache'[q] # None => Old(cache[q], q)'
             /\ loaded'[q] # None => Old(loaded[q], q)'
             /\ entries'[q] # None => Old(entries[q], q)'
  <2>1. cache[q] # None => Old(cache[q], q)'
    BY <1>1, <1>5 DEF RowsAreOld, TypeOK, Old
  <2>2. loaded[q] # None => Old(loaded[q], q)'
    BY <1>1, <1>5 DEF RowsAreOld, TypeOK, Old
  <2>3. entries[q] # None => Old(entries[q], q)'
    BY <1>1, <1>2 DEF RowsAreOld, TypeOK, Old, Entry
  <2> QED BY <1>1, <2>1, <2>2, <2>3
<1>8. stat' # None => stat'.mtime <= newest'[stat'.path]
  BY <1>1, <1>2 DEF RowsAreOld, TypeOK, Stat
<1>9. ASSUME NEW f \in Flusher, flush'[f] # None, NEW x \in flush'[f].batch
      PROVE  Old(x.row, x.path)'
  <2>1. x.row \in Content /\ x.path \in Path /\ Old(x.row, x.path)
    BY <1>1, <1>9 DEF TypeOK, Flush, Collection, RowsAreOld
  <2> QED BY <1>2, <2>1 DEF Old, Content
<1> QED BY <1>6, <1>7, <1>8, <1>9 DEF RowsAreOld

LEMMA BuildKeepsOld ==
  ASSUME TypeOK, RowsAreOld,
         \/ \E p \in Path : RemoveFile(p)
         \/ StartBuild \/ WalkEnds \/ Prune \/ \E ps \in SUBSET todo : ReadDir(ps)
  PROVE  RowsAreOld'
<1>1. ASSUME NEW p \in Path, RemoveFile(p) PROVE RowsAreOld'
  BY <1>1 DEF RemoveFile, RowsAreOld, Old, TypeOK, build
<1>2. CASE StartBuild
  BY <1>2 DEF StartBuild, RowsAreOld, Old, files
<1>3. CASE WalkEnds
  BY <1>3 DEF WalkEnds, RowsAreOld, Old, files
<1>4. CASE Prune
  <2>1. \A p \in Path : entries'[p] # None =>
          entries[p] # None /\ entries'[p].mtime = entries[p].mtime /\ entries'[p].ver = entries[p].ver
    BY <1>4 DEF Prune, WithBacklinks, TypeOK, Entry
  <2>2. \A p \in Path : cache'[p] # None => cache'[p] = cache[p]
    BY <1>4 DEF Prune
  <2>3. loaded' = Nothing /\ UNCHANGED <<file, newest, stat, flush>>
    BY <1>4 DEF Prune, NoBuild
  <2> QED BY <2>1, <2>2, <2>3 DEF RowsAreOld, Old, Nothing
<1>5. ASSUME NEW ps \in SUBSET todo, ReadDir(ps) PROVE RowsAreOld'
  BY <1>5 DEF ReadDir, RowsAreOld, Old, files
<1> QED BY <1>1, <1>2, <1>3, <1>4, <1>5

LEMMA VisitKeepsOld ==
  ASSUME TypeOK, RowsAreOld, NEW p \in Path,
         VisitHit(p) \/ VisitMiss(p) \/ StatForUpdate(p) \/ Delete(p)
  PROVE  RowsAreOld'
<1>1. CASE VisitHit(p)
  <2> DEFINE e == [mtime |-> loaded[p].mtime, ver |-> loaded[p].ver, count |-> loaded[p].count,
                   id |-> NewEntry, dirty |-> FALSE]
  <2>1. Old(e, p)
    BY <1>1 DEF VisitHit, IsHit, RowsAreOld, Old
  <2>2. entries' = [entries EXCEPT ![p] = e] /\ UNCHANGED <<file, newest, cache, loaded, stat, flush>>
    BY <1>1 DEF VisitHit, files
  <2> HIDE DEF e
  <2> QED BY <2>1, <2>2 DEF TypeOK, RowsAreOld, Old
<1>2. CASE VisitMiss(p) \/ StatForUpdate(p)
  <2>1. stat'.path = p /\ stat'.mtime = newest[p] /\ newest[p] \in Nat
    BY <1>2 DEF VisitMiss, StatForUpdate, RowsAreOld, TypeOK
  <2>2. UNCHANGED <<file, newest, cache, loaded, entries, flush>>
    BY <1>2 DEF VisitMiss, StatForUpdate, files, build
  <2> QED BY <2>1, <2>2 DEF RowsAreOld, Old
<1>3. CASE Delete(p)
  BY <1>3 DEF Delete, TypeOK, RowsAreOld, Old, files, build
<1> QED BY <1>1, <1>2, <1>3

(* The content is read after the stat: a write between them makes the entry *)
(* look older than it is, never newer.                                      *)
LEMMA ParseKeepsOld == ASSUME TypeOK, RowsAreOld, Parse PROVE RowsAreOld'
<1> DEFINE p == stat.path
           e == Parsed(stat.path)
<1>1. p \in Path /\ newest[p] \in Nat /\ stat.mtime <= newest[p] /\ file[p].ver = newest[p]
  BY DEF Parse, TypeOK, RowsAreOld, Stat
<1>2. Old(e, p)
  BY <1>1 DEF Old, Parsed
<1>3. entries' = [entries EXCEPT ![p] = e] /\ stat' = None
      /\ UNCHANGED <<file, newest, cache, loaded, flush>>
  BY DEF Parse, files, build
<1> HIDE DEF e, p
<1> QED BY <1>2, <1>3 DEF TypeOK, RowsAreOld, Old

LEMMA CollectKeepsOld ==
  ASSUME TypeOK, RowsAreOld, NEW f \in Flusher, Collect(f),
         UNCHANGED <<file, newest, cache, loaded, entries, stat>>
  PROVE  RowsAreOld'
<1> DEFINE c(p) == [path |-> p, row |-> RowOf(p), id |-> entries[p].id]
<1>1. /\ flush'[f] # None => \A x \in flush'[f].batch : \E p \in Dirty : x = c(p)
      /\ \A g \in Flusher : g # f => flush'[g] = flush[g]
  BY DEF Collect, TypeOK
<1>2. \A p \in Dirty : p \in Path /\ Old(c(p).row, c(p).path)
  BY DEF Dirty, RowsAreOld, Old, RowOf
<1> HIDE DEF c
<1>3. \A g \in Flusher : flush'[g] # None => \A x \in flush'[g].batch : Old(x.row, x.path)
  BY <1>1, <1>2 DEF RowsAreOld
<1> QED BY <1>3 DEF RowsAreOld, Old

LEMMA RunKeepsOld ==
  ASSUME TypeOK, RowsAreOld, Tick \/ LastFlush \/ FinalFlush \/ Cancel \/ Waited \/ TimesOut
  PROVE  RowsAreOld'
<1> "indexFlusher" \in Flusher /\ "Run" \in Flusher
  BY DEF Flusher
<1>1. UNCHANGED <<file, newest, cache, loaded, entries, stat>>
  BY DEF Tick, LastFlush, FinalFlush, Cancel, Waited, TimesOut, files, build
<1>2. CASE Tick \/ LastFlush \/ FinalFlush
  BY <1>1, <1>2, CollectKeepsOld DEF Tick, LastFlush, FinalFlush
<1>3. CASE Cancel \/ Waited \/ TimesOut
  BY <1>1, <1>3 DEF Cancel, Waited, TimesOut, RowsAreOld, Old
<1> QED BY <1>2, <1>3

LEMMA FlushKeepsOld ==
  ASSUME TypeOK, RowsAreOld, NEW f \in Flusher, FlushDirty(f) PROVE RowsAreOld'
<1>1. ASSUME NEW p \in Path, Upsert(f, p) PROVE RowsAreOld'
  <2>1. PICK x \in flush[f].batch : x.path = p /\ cache' = [cache EXCEPT ![p] = x.row]
    BY <1>1 DEF Upsert
  <2>2. Old(x.row, p)
    BY <1>1, <2>1 DEF Upsert, RowsAreOld
  <2>3. \A q \in Path : cache'[q] # None => Old(cache'[q], q)
    BY <2>1, <2>2 DEF TypeOK, RowsAreOld
  <2>4. \A g \in Flusher : flush'[g] # None => flush[g] # None /\ flush'[g].batch = flush[g].batch
    BY <1>1 DEF Upsert, TypeOK, Flush
  <2>5. UNCHANGED <<file, newest, loaded, entries, stat>>
    BY <1>1 DEF Upsert, files, build
  <2> QED BY <2>3, <2>4, <2>5 DEF RowsAreOld, Old
<1>2. CASE UpsertFails(f)
  BY <1>2 DEF UpsertFails, TypeOK, RowsAreOld, Old, files
<1>3. CASE Clear(f)
  <2>1. \A p \in Path : entries'[p] # None =>
          entries[p] # None /\ entries'[p].mtime = entries[p].mtime /\ entries'[p].ver = entries[p].ver
    BY <1>3 DEF Clear, TypeOK, Entry
  <2>2. \A g \in Flusher : flush'[g] # None => flush'[g] = flush[g]
    BY <1>3 DEF Clear, TypeOK
  <2>3. UNCHANGED <<file, newest, cache, loaded, stat>>
    BY <1>3 DEF Clear, files
  <2> QED BY <2>1, <2>2, <2>3 DEF RowsAreOld, Old
<1> QED BY <1>1, <1>2, <1>3 DEF FlushDirty

LEMMA OldStep == ASSUME IInv, [Next]_vars PROVE RowsAreOld'
<1>0. TypeOK /\ RowsAreOld
  BY DEF IInv, IndexInv
<1>1. CASE UNCHANGED vars
  BY <1>0, <1>1 DEF vars, files, build, RowsAreOld, Old
<1>2. CASE Ends
  BY <1>2, EndsKeepAll DEF IInv, IndexInv
<1>3. ASSUME NEW p \in Path, Write(p) PROVE RowsAreOld'
  BY <1>0, <1>3, WriteKeepsOld
<1>4. CASE \/ \E p \in Path : RemoveFile(p)
           \/ StartBuild \/ WalkEnds \/ Prune \/ \E ps \in SUBSET todo : ReadDir(ps)
  BY <1>0, <1>4, BuildKeepsOld
<1>5. ASSUME NEW p \in Path, VisitHit(p) \/ VisitMiss(p) \/ StatForUpdate(p) \/ Delete(p)
      PROVE  RowsAreOld'
  BY <1>0, <1>5, VisitKeepsOld
<1>6. CASE Parse
  BY <1>0, <1>6, ParseKeepsOld
<1>7. CASE ParseFails /\ phase # "walk"
  BY <1>0, <1>7 DEF ParseFails, files, build, RowsAreOld, Old
<1>8. CASE Tick \/ LastFlush \/ FinalFlush \/ Cancel \/ Waited \/ TimesOut
  BY <1>0, <1>8, RunKeepsOld
<1>9. ASSUME NEW f \in Flusher, FlushDirty(f) PROVE RowsAreOld'
  BY <1>0, <1>9, FlushKeepsOld
<1> QED BY <1>1, <1>2, <1>3, <1>4, <1>5, <1>6, <1>7, <1>8, <1>9 DEF Next, Ends
-----------------------------------------------------------------------------
(***************************************************************************)
(* Who may do what when.                                                   *)
(***************************************************************************)
LEMMA RunStep == ASSUME IInv, [Next]_vars PROVE RunInv'
<1>0. RunInv /\ TypeOK /\ "indexFlusher" \in Flusher /\ "Run" \in Flusher
  BY DEF IInv, IndexInv, Flusher
<1>1. CASE \/ UNCHANGED vars \/ StartBuild \/ WalkEnds
           \/ (\E p \in Path : Write(p) \/ RemoveFile(p) \/ VisitHit(p) \/ VisitMiss(p) \/ Delete(p))
           \/ (\E ps \in SUBSET todo : ReadDir(ps))
  BY <1>0, <1>1 DEF vars, files, build, run, StartBuild, WalkEnds, Write, RemoveFile, VisitHit,
     VisitMiss, Delete, ReadDir, RunInv
<1>2. CASE Ends
  BY <1>2, EndsKeepAll DEF IInv, IndexInv
<1>3. CASE Prune \/ Cancel \/ Waited \/ TimesOut
  <2>1. CASE Prune
    BY <1>0, <2>1 DEF Prune, RunInv, Idle
  <2>2. CASE Cancel
    BY <1>0, <2>2 DEF Cancel, RunInv, build
  <2>3. CASE Waited
    BY <1>0, <2>3 DEF Waited, RunInv, run
  <2>4. CASE TimesOut
    BY <1>0, <2>4 DEF TimesOut, RunInv
  <2> QED BY <1>3, <2>1, <2>2, <2>3, <2>4
<1>4. CASE Parse \/ (ParseFails /\ phase # "walk")
  BY <1>0, <1>4 DEF Parse, ParseFails, RunInv, files, build, run
<1>5. ASSUME NEW p \in Path, StatForUpdate(p) PROVE RunInv'
  BY <1>0, <1>5 DEF StatForUpdate, GoroutinesRun, RunInv, files, build, run
<1>6. CASE Tick \/ LastFlush
  <2>1. flush'["Run"] = flush["Run"]
    BY <1>0, <1>6 DEF Tick, LastFlush, Collect, TypeOK
  <2>2. Dirty = {} => flush'["indexFlusher"] = None
    BY <1>0, <1>6 DEF Tick, LastFlush, Collect, TypeOK
  <2> QED BY <1>0, <1>6, <2>1, <2>2 DEF Tick, LastFlush, RunInv, build, run
<1>7. CASE FinalFlush
  <2>1. flush'["indexFlusher"] = flush["indexFlusher"]
    BY <1>0, <1>7 DEF FinalFlush, Collect, TypeOK
  <2>2. Dirty = {} => flush'["Run"] = None
    BY <1>0, <1>7 DEF FinalFlush, Collect, TypeOK
  <2> QED BY <1>0, <1>7, <2>1, <2>2 DEF FinalFlush, RunInv, run
<1>8. ASSUME NEW f \in Flusher, NEW p \in Path, Upsert(f, p) PROVE RunInv'
  <2>1. \A g \in Flusher : flush[g] = None => flush'[g] = None
    BY <1>0, <1>8 DEF Upsert, TypeOK
  <2>2. flush # Idle
    BY <1>8 DEF Upsert, Idle
  <2> QED BY <1>0, <1>8, <2>1, <2>2 DEF Upsert, RunInv, build, run
<1>9. ASSUME NEW f \in Flusher, UpsertFails(f) \/ Clear(f) PROVE RunInv'
  <2>1. flush' = [flush EXCEPT ![f] = None] /\ flush[f] # None /\ flush # Idle
    BY <1>9 DEF UpsertFails, Clear, Idle
  <2>2. \A g \in Flusher : flush'[g] = IF g = f THEN None ELSE flush[g]
    BY <1>0, <2>1 DEF TypeOK
  <2>3. CASE f = "Run"
    <3>1. phase = "final"
      BY <1>0, <2>1, <2>3 DEF RunInv
    <3> QED BY <1>0, <1>9, <2>2, <2>3, <3>1 DEF UpsertFails, Clear, RunInv
  <2>4. CASE f = "indexFlusher"
    <3>1. /\ flusher # "returned" /\ phase' = phase /\ UNCHANGED stat
          /\ err' = "timeout" <=> err = "timeout"
      BY <1>0, <1>9, <2>1, <2>4 DEF UpsertFails, Clear, RunInv
    <3> QED BY <1>0, <2>1, <2>2, <2>4, <3>1 DEF RunInv
  <2> QED BY <2>3, <2>4 DEF Flusher
<1> QED BY <1>1, <1>2, <1>3, <1>4, <1>5, <1>6, <1>7, <1>8, <1>9 DEF Next, Ends, FlushDirty
-----------------------------------------------------------------------------
(***************************************************************************)
(* Build's progress.                                                       *)
(***************************************************************************)
LEMMA EntryIsNotNone ==
  ASSUME NEW p \in Path, NEW e \in Entry, TypeOK, entries' = [entries EXCEPT ![p] = e]
  PROVE  /\ entries'[p] = e /\ e # None
         /\ \A q \in Path : q # p => entries'[q] = entries[q]
BY NoneAssumption DEF TypeOK

LEMMA EditorsKeepProgress ==
  ASSUME IndexInv, NEW p \in Path, Write(p) \/ RemoveFile(p) PROVE BuildProgress'
<1>1. \A q \in Path : q # p => file'[q] = file[q]
  BY DEF Write, RemoveFile, IndexInv, TypeOK
<1>2. /\ UNCHANGED <<phase, todo, listed, stat, entries>>
      /\ phase \in {"walk", "prune"} => touched' = touched \cup {p}
  BY DEF Write, RemoveFile, build
<1> QED BY <1>1, <1>2 DEF IndexInv, BuildProgress, WalkSoFar, Nothing

LEMMA ReadDirKeepsProgress ==
  ASSUME IndexInv, NEW ps \in SUBSET todo, ReadDir(ps) PROVE BuildProgress'
<1>1. /\ phase = "walk" /\ todo' = todo \ ps /\ listed' = listed \cup {p \in ps : file[p] # None}
      /\ UNCHANGED <<phase, file, touched, stat, entries>>
  BY DEF ReadDir, files
<1>2. \A p \in Path : WalkSoFar(p) => WalkSoFar(p)'
  BY <1>1 DEF WalkSoFar
<1> QED BY <1>1, <1>2 DEF IndexInv, BuildProgress

(* A hit has the content of a file that was left alone. *)
LEMMA VisitsKeepProgress ==
  ASSUME IndexInv, NEW p \in Path, VisitHit(p) \/ VisitMiss(p) PROVE BuildProgress'
<1>1. /\ phase = "walk" /\ stat = None /\ listed' = listed \ {p} /\ file[p] # None
      /\ UNCHANGED <<phase, todo, file, newest, touched>>
  BY DEF VisitHit, VisitMiss, Visited, files
<1>2. \A q \in Path \ touched : WalkSoFar(q)
  BY <1>1 DEF IndexInv, BuildProgress
<1>3. ASSUME NEW q \in Path \ touched, q # p PROVE WalkSoFar(q)'
  <2>1. entries'[q] = entries[q]
    BY <1>3 DEF VisitHit, VisitMiss, IndexInv, TypeOK
  <2>2. stat' = None \/ stat'.path = p
    BY DEF VisitHit, VisitMiss
  <2> QED BY <1>1, <1>2, <1>3, <2>1, <2>2 DEF WalkSoFar
<1>4. ASSUME p \notin touched PROVE WalkSoFar(p)'
  <2>1. CASE VisitHit(p)
    <3>1. loaded[p].ver = file[p].ver
      <4>1. /\ file[p].mtime <= loaded[p].mtime /\ loaded[p] \in Content /\ newest[p] \in Nat
        BY <2>1 DEF VisitHit, IsHit, IndexInv, TypeOK
      <4>2. Old(loaded[p], p) /\ file[p].mtime = newest[p] /\ file[p].ver = newest[p]
        BY <1>1, <2>1 DEF VisitHit, IsHit, IndexInv, RowsAreOld
      <4> QED BY <4>1, <4>2 DEF Old, Content
    <3> DEFINE e == [mtime |-> loaded[p].mtime, ver |-> loaded[p].ver, count |-> loaded[p].count,
                     id |-> NewEntry, dirty |-> FALSE]
    <3>2. e \in Entry /\ e.ver = loaded[p].ver
      BY <2>1, NewEntryIsUnused DEF VisitHit, IsHit, IndexInv, TypeOK, Content, Entry
    <3>3. entries' = [entries EXCEPT ![p] = e]
      BY <2>1 DEF VisitHit
    <3> HIDE DEF e
    <3>4. entries'[p] # None /\ entries'[p].ver = file[p].ver
      BY <3>1, <3>2, <3>3, EntryIsNotNone DEF IndexInv
    <3> QED BY <1>1, <3>4 DEF WalkSoFar
  <2>2. CASE VisitMiss(p)
    <3> DEFINE st == [path |-> p, mtime |-> file[p].mtime]
    <3>1. st \in Stat /\ st.path = p /\ stat' = st
      BY <1>1, <2>2 DEF VisitMiss, IndexInv, TypeOK, Stat, File
    <3> HIDE DEF st
    <3>2. stat' # None
      BY <3>1, NoneAssumption
    <3> QED BY <1>1, <3>1, <3>2 DEF WalkSoFar
  <2> QED BY <2>1, <2>2
<1> QED BY <1>1, <1>3, <1>4 DEF BuildProgress

LEMMA ParseKeepsProgress == ASSUME IndexInv, Parse PROVE BuildProgress'
<1> DEFINE p == stat.path
           e == Parsed(stat.path)
<1>1. e \in Entry /\ e.ver = file[p].ver /\ p \in Path /\ file[p] # None
  BY NewEntryIsUnused DEF Parse, Parsed, IndexInv, TypeOK, Stat, File, Entry
<1>2. /\ stat # None /\ stat' = None /\ entries' = [entries EXCEPT ![p] = e]
      /\ UNCHANGED <<phase, todo, listed, file, touched>>
  BY DEF Parse, files, build
<1> HIDE DEF e
<1>3. /\ entries'[p] # None /\ entries'[p].ver = file[p].ver
      /\ \A q \in Path : q # p => entries'[q] = entries[q]
  BY <1>1, <1>2, EntryIsNotNone DEF IndexInv
<1>4. phase # "down" /\ phase # "prune"
  BY <1>2 DEF IndexInv, BuildProgress
<1>5. ASSUME NEW q \in Path \ touched, phase = "walk" PROVE WalkSoFar(q)'
  <2>1. WalkSoFar(q)
    BY <1>5 DEF IndexInv, BuildProgress
  <2> QED BY <1>1, <1>2, <1>3, <2>1 DEF WalkSoFar
<1> QED BY <1>2, <1>4, <1>5 DEF BuildProgress

(* What only happens after Build. *)
LEMMA RunKeepsProgress ==
  ASSUME IndexInv, phase' \notin {"down", "walk", "prune"} PROVE BuildProgress'
BY DEF BuildProgress

LEMMA FlushesAreLater ==
  ASSUME IndexInv, NEW f \in Flusher, FlushDirty(f)
  PROVE  /\ flush[f] # None /\ flush # Idle
         /\ phase \in {"running", "final", "returned"}
         /\ phase' \in {"running", "final", "returned"}
<1>1. flush[f] # None /\ (phase' = phase \/ phase' = "returned")
  BY DEF FlushDirty, Upsert, UpsertFails, Clear, build
<1>2. flush # Idle
  BY <1>1 DEF Idle
<1> QED BY <1>1, <1>2 DEF IndexInv, RunInv, TypeOK

LEMMA ProgressStep == ASSUME IInv, [Next]_vars PROVE BuildProgress'
<1>0. IndexInv
  BY DEF IInv
<1>1. ASSUME NEW p \in Path, Write(p) \/ RemoveFile(p) PROVE BuildProgress'
  BY <1>0, <1>1, EditorsKeepProgress
<1>2. ASSUME NEW p \in Path, VisitHit(p) \/ VisitMiss(p) PROVE BuildProgress'
  BY <1>0, <1>2, VisitsKeepProgress
<1>3. ASSUME NEW ps \in SUBSET todo, ReadDir(ps) PROVE BuildProgress'
  BY <1>0, <1>3, ReadDirKeepsProgress
<1>4. CASE Parse
  BY <1>0, <1>4, ParseKeepsProgress
<1>5. CASE StartBuild
  BY <1>0, <1>5 DEF StartBuild, files, IndexInv, BuildProgress, WalkSoFar, Nothing
<1>6. CASE WalkEnds
  BY <1>0, <1>6 DEF WalkEnds, files, IndexInv, BuildProgress, WalkSoFar
<1>7. CASE Ends
  BY <1>7, EndsKeepAll DEF IInv, IndexInv
<1>8. CASE ParseFails /\ phase # "walk"
  <2>1. stat # None /\ phase' = phase
    BY <1>8 DEF ParseFails, build
  <2>2. phase \notin {"down", "walk", "prune"}
    BY <1>0, <1>8, <2>1 DEF IndexInv, BuildProgress
  <2> QED BY <1>0, <2>1, <2>2, RunKeepsProgress
<1>9. ASSUME NEW p \in Path, StatForUpdate(p) \/ Delete(p) PROVE BuildProgress'
  <2>1. phase' = phase /\ phase \in {"running", "final", "returned"}
    BY <1>0, <1>9 DEF StatForUpdate, Delete, GoroutinesRun, build, IndexInv, RunInv
  <2> QED BY <1>0, <2>1, RunKeepsProgress
<1>10. CASE Prune \/ Waited \/ TimesOut \/ FinalFlush \/ Cancel \/ Tick \/ LastFlush
  <2>1. phase' \notin {"down", "walk", "prune"}
    BY <1>0, <1>10 DEF Prune, Waited, TimesOut, FinalFlush, Cancel, Tick, LastFlush, build,
       IndexInv, RunInv
  <2> QED BY <1>0, <2>1, RunKeepsProgress
<1>11. ASSUME NEW f \in Flusher, FlushDirty(f) PROVE BuildProgress'
  BY <1>0, <1>11, FlushesAreLater, RunKeepsProgress
<1>12. CASE UNCHANGED vars
  BY <1>0, <1>12 DEF vars, files, build, IndexInv, BuildProgress, WalkSoFar
<1> QED BY <1>1, <1>2, <1>3, <1>4, <1>5, <1>6, <1>7, <1>8, <1>9, <1>10, <1>11, <1>12 DEF Next, Ends
-----------------------------------------------------------------------------
(***************************************************************************)
(* Clean entries.                                                          *)
(***************************************************************************)

(* Run flushes after indexFlusher has returned, if the timer did not fire. *)
LEMMA OneFlushAtATime ==
  ASSUME RunInv, err # "timeout",
         NEW f \in Flusher, flush[f] # None, NEW g \in Flusher, flush[g] # None
  PROVE  f = g
BY DEF RunInv, Flusher

LEMMA FrameKeepsClean ==
  ASSUME CleanInv, UNCHANGED <<cache, entries, flush, err>>,
         phase' \in {"walk", "prune"} =>
           phase \in {"walk", "prune"} /\ loaded' = loaded /\ found \subseteq found'
  PROVE  CleanInv'
BY DEF CleanInv, CleanRows, FlushInv, Clean, InCache, Wrote, Parsing

LEMMA TimeoutKeepsClean ==
  ASSUME err' = "timeout", phase' \notin {"walk", "prune"} PROVE CleanInv'
BY DEF CleanInv, CleanRows, FlushInv

(* Build: what it takes from the cache is clean.  The backlinks it computes *)
(* at the end are not what a clean entry is compared in.                    *)
LEMMA BuildKeepsClean ==
  ASSUME IndexInv, CleanInv, StartBuild \/ Prune \/ \E p \in Path : VisitHit(p)
  PROVE  CleanInv'
<1>0. TypeOK /\ flush = Idle /\ phase' \in {"walk", "running"}
  BY DEF StartBuild, Prune, VisitHit, IndexInv, RunInv
<1>1. CASE StartBuild
  <2>1. (\A p \in Path : entries[p] = None) /\ loaded' = cache
        /\ UNCHANGED <<entries, cache, flush>>
    BY <1>1 DEF StartBuild, IndexInv, BuildProgress, Nothing
  <2> QED BY <1>0, <2>1 DEF CleanInv, CleanRows, FlushInv, Clean, Idle
<1>2. CASE Prune
  <2>1. /\ phase = "prune" /\ phase' = "running" /\ UNCHANGED <<flush, err>>
        /\ \A p \in Path : cache'[p] = IF loaded[p] # None /\ p \notin found THEN None ELSE cache[p]
    BY <1>2 DEF Prune, Stale
  <2>2. ASSUME NEW p \in Path, entries'[p] # None
        PROVE  /\ entries[p] # None /\ entries'[p].mtime = entries[p].mtime
               /\ entries'[p].ver = entries[p].ver /\ entries'[p].dirty = entries[p].dirty
    BY <1>0, <1>2, <2>2 DEF Prune, WithBacklinks, TypeOK, Entry
  <2>3. ASSUME NEW p \in Path, err # "timeout", Clean(p)' PROVE InCache(p)'
    <3>1. Clean(p)
      BY <2>2, <2>3 DEF Clean
    <3>2. InCache(p) /\ p \in found
      BY <2>1, <2>3, <3>1 DEF CleanInv, CleanRows
    <3>3. entries'[p] # None
      BY <2>3 DEF Clean
    <3> QED BY <2>1, <2>2, <3>2, <3>3 DEF InCache
  <2> QED BY <1>0, <2>1, <2>3 DEF CleanInv, CleanRows, FlushInv, Idle
<1>3. ASSUME NEW p \in Path, VisitHit(p) PROVE CleanInv'
  <2> DEFINE e == [mtime |-> loaded[p].mtime, ver |-> loaded[p].ver, count |-> loaded[p].count,
                   id |-> NewEntry, dirty |-> FALSE]
  <2>1. /\ e \in Entry /\ loaded[p] # None /\ entries' = [entries EXCEPT ![p] = e]
        /\ e.mtime = loaded[p].mtime /\ e.ver = loaded[p].ver
    BY <1>0, <1>3, NewEntryIsUnused DEF VisitHit, IsHit, TypeOK, Content, Entry
  <2>2. /\ phase = "walk" /\ found' = found \cup {p}
        /\ UNCHANGED <<phase, cache, loaded, flush, err>>
    BY <1>3 DEF VisitHit, Visited, files, run
  <2> HIDE DEF e
  <2>3. entries'[p] = e /\ \A q \in Path : q # p => entries'[q] = entries[q]
    BY <1>0, <2>1, EntryIsNotNone
  <2>4. InCache(p)'
    BY <2>1, <2>2, <2>3 DEF CleanInv, CleanRows, InCache
  <2>5. ASSUME NEW q \in Path, Clean(q)'
        PROVE  q \in found' /\ (err # "timeout" => InCache(q)')
    <3>1. CASE q = p
      BY <2>2, <2>4, <3>1
    <3>2. CASE q # p
      BY <2>2, <2>3, <2>5, <3>2 DEF Clean, InCache, CleanInv, CleanRows
    <3> QED BY <3>1, <3>2
  <2> QED BY <1>0, <2>2, <2>5 DEF CleanInv, CleanRows, FlushInv, Idle
<1> QED BY <1>1, <1>2, <1>3

(* An entry that is parsed while a flush runs is another object than the    *)
(* one that was collected, and dirty.                                       *)
LEMMA ParseKeepsClean == ASSUME IndexInv, CleanInv, Parse PROVE CleanInv'
<1> DEFINE p == stat.path
           e == Parsed(stat.path)
<1>0. TypeOK
  BY DEF IndexInv
<1>1. e \in Entry /\ e.dirty /\ e.id = NewEntry /\ p \in Path
  BY <1>0, NewEntryIsUnused DEF Parse, Parsed, TypeOK, Stat, File, Entry
<1>2. entries' = [entries EXCEPT ![p] = e] /\ UNCHANGED <<cache, loaded, found, phase, flush, err>>
  BY DEF Parse, files, build, run
<1>3. \A f \in Flusher : flush[f] # None => \A x \in flush[f].batch : x.id # NewEntry
  BY NewEntryIsUnused DEF Parse
<1> HIDE DEF e, p
<1>4. entries'[p] = e /\ \A q \in Path : q # p => entries'[q] = entries[q]
  BY <1>0, <1>1, <1>2, EntryIsNotNone
<1>5. \A q \in Path : Clean(q)' => Clean(q) /\ q # p
  BY <1>1, <1>4 DEF Clean
<1>6. CleanRows'
  BY <1>2, <1>4, <1>5 DEF CleanInv, CleanRows, InCache
<1>7. \A f \in Flusher : flush[f] # None => flush[f].batch \subseteq Collection
  BY <1>0 DEF TypeOK, Flush
<1>8. ASSUME err # "timeout", NEW f \in Flusher, flush[f] # None, NEW x \in flush[f].batch
      PROVE  /\ ~Clean(x.path)' /\ Parsing(x)'
             /\ (x.path \notin flush[f].left => Wrote(x)')
  <2>1. x.path \in Path
    BY <1>7, <1>8 DEF Collection
  <2>2. ~Clean(x.path) /\ Parsing(x) /\ (x.path \notin flush[f].left => Wrote(x))
    BY <1>8 DEF CleanInv, FlushInv
  <2>3. ~Clean(x.path)' /\ (x.path \notin flush[f].left => Wrote(x)')
    BY <1>2, <1>5, <2>1, <2>2 DEF Wrote
  <2>4. Parsing(x)'
    BY <1>1, <1>3, <1>4, <1>8, <2>1, <2>2 DEF Parsing
  <2> QED BY <2>3, <2>4
<1>9. FlushInv'
  BY <1>2, <1>8 DEF CleanInv, FlushInv
<1> QED BY <1>6, <1>9 DEF CleanInv

LEMMA DeleteKeepsClean ==
  ASSUME TypeOK, CleanInv, NEW p \in Path, Delete(p) PROVE CleanInv'
<1>1. /\ entries' = [entries EXCEPT ![p] = None]
      /\ UNCHANGED <<cache, loaded, found, phase, flush, err>>
  BY DEF Delete, files, build, run
<1>2. \A q \in Path : entries'[q] = IF q = p THEN None ELSE entries[q]
  BY <1>1 DEF TypeOK
<1>3. \A f \in Flusher : flush[f] # None => flush[f].batch \subseteq Collection
  BY DEF TypeOK, Flush
<1>4. CleanRows'
  BY <1>1, <1>2 DEF CleanInv, CleanRows, Clean, InCache
<1>5. ASSUME err # "timeout", NEW f \in Flusher, flush[f] # None, NEW x \in flush[f].batch
      PROVE  ~Clean(x.path)' /\ Parsing(x)' /\ (x.path \notin flush[f].left => Wrote(x)')
  <2>1. x.path \in Path
    BY <1>3, <1>5 DEF Collection
  <2>2. ~Clean(x.path) /\ Parsing(x) /\ (x.path \notin flush[f].left => Wrote(x))
    BY <1>5 DEF CleanInv, FlushInv
  <2> QED BY <1>1, <1>2, <2>1, <2>2 DEF Clean, Parsing, Wrote
<1>6. FlushInv'
  BY <1>1, <1>5 DEF CleanInv, FlushInv
<1> QED BY <1>4, <1>6 DEF CleanInv

(* What is collected is one object per path, dirty, and all of them.        *)
LEMMA Batch ==
  ASSUME TypeOK, NEW f \in Flusher, Collect(f), UNCHANGED entries
  PROVE  /\ \A g \in Flusher : g # f => flush'[g] = flush[g]
         /\ Dirty = {} => flush'[f] = None
         /\ flush'[f] # None =>
              /\ \A x, y \in flush'[f].batch : x.path = y.path => x = y
              /\ \A x \in flush'[f].batch :
                   x.path \in flush'[f].left /\ ~Clean(x.path) /\ Parsing(x)
              /\ \A p \in Dirty : Collected(f, p)'
<1> DEFINE c(p) == [path |-> p, row |-> RowOf(p), id |-> entries[p].id]
<1>1. /\ \A g \in Flusher : g # f => flush'[g] = flush[g]
      /\ flush'[f] = IF Dirty = {} THEN None ELSE [batch |-> {c(p) : p \in Dirty}, left |-> Dirty]
  BY DEF Collect, TypeOK
<1>2. \A p : /\ c(p).path = p /\ c(p).id = entries[p].id
             /\ c(p).row.mtime = entries[p].mtime /\ c(p).row.ver = entries[p].ver
  BY DEF RowOf
<1>3. \A p \in Dirty : ~Clean(p)
  BY DEF Dirty, Clean
<1> HIDE DEF c
<1>4. SUFFICES ASSUME flush'[f] # None
      PROVE  /\ \A x, y \in flush'[f].batch : x.path = y.path => x = y
             /\ \A x \in flush'[f].batch :
                  x.path \in flush'[f].left /\ ~Clean(x.path) /\ Parsing(x)
             /\ \A p \in Dirty : Collected(f, p)'
  BY <1>1
<1>5. flush'[f].batch = {c(p) : p \in Dirty} /\ flush'[f].left = Dirty
  BY <1>1, <1>4
<1>6. ASSUME NEW x \in flush'[f].batch
      PROVE  x.path \in flush'[f].left /\ ~Clean(x.path) /\ Parsing(x)
  BY <1>2, <1>3, <1>5 DEF Parsing
<1>7. ASSUME NEW p \in Dirty PROVE Collected(f, p)'
  <2>1. c(p) \in flush'[f].batch /\ c(p).path = p /\ c(p).id = entries[p].id
    BY <1>2, <1>5
  <2> QED BY <2>1 DEF Collected
<1> QED BY <1>2, <1>5, <1>6, <1>7

LEMMA CollectKeepsClean ==
  ASSUME TypeOK, CleanInv, NEW f \in Flusher, Collect(f),
         UNCHANGED <<cache, entries, err>>, phase' \notin {"walk", "prune"}
  PROVE  CleanInv'
<1>1. CleanRows'
  BY DEF CleanInv, CleanRows, Clean, InCache
<1>2. ASSUME err # "timeout", NEW g \in Flusher, flush'[g] # None
      PROVE  /\ \A x, y \in flush'[g].batch : x.path = y.path => x = y
             /\ \A x \in flush'[g].batch :
                  ~Clean(x.path) /\ Parsing(x) /\ (x.path \notin flush'[g].left => Wrote(x))
  <2>1. CASE g = f
    BY <1>2, <2>1, Batch
  <2>2. CASE g # f
    BY <1>2, <2>2, Batch DEF CleanInv, FlushInv
  <2> QED BY <2>1, <2>2
<1>3. FlushInv'
  BY <1>2 DEF FlushInv, Clean, Parsing, Wrote
<1> QED BY <1>1, <1>3 DEF CleanInv

LEMMA UpsertKeepsClean ==
  ASSUME IndexInv, CleanInv, err # "timeout", NEW f \in Flusher, NEW p \in Path, Upsert(f, p)
  PROVE  CleanInv'
<1>0. TypeOK /\ phase' \notin {"walk", "prune"}
  BY FlushesAreLater DEF IndexInv, FlushDirty
<1>1. PICK x \in flush[f].batch : x.path = p /\ cache' = [cache EXCEPT ![p] = x.row]
  BY DEF Upsert
<1>2. /\ flush[f] # None /\ flush[f] \in Flush
      /\ flush' = [flush EXCEPT ![f].left = @ \ {p}]
      /\ UNCHANGED <<entries, err>>
  BY <1>0 DEF Upsert, run, TypeOK
<1>3. /\ flush'[f].batch = flush[f].batch /\ flush'[f].left = flush[f].left \ {p}
      /\ \A g \in Flusher : g # f => flush'[g] = None
  <2>1. \A g \in Flusher : g # f => flush[g] = None
    BY <1>2, OneFlushAtATime DEF IndexInv
  <2> QED BY <1>0, <1>2, <2>1 DEF TypeOK, Flush
<1>4. x.row # None /\ \A q \in Path : cache'[q] = IF q = p THEN x.row ELSE cache[q]
  <2>1. x.row \in Content
    BY <1>1, <1>2 DEF Flush, Collection
  <2> QED BY <1>0, <1>1, <2>1, NoneAssumption DEF TypeOK
<1>5. ~Clean(p) /\ \A y \in flush[f].batch : y.path = p => y = x
  BY <1>1, <1>2 DEF CleanInv, FlushInv
<1>6. CleanRows'
  BY <1>0, <1>2, <1>4, <1>5 DEF CleanInv, CleanRows, Clean, InCache
<1>7. ASSUME NEW y \in flush[f].batch
      PROVE  ~Clean(y.path)' /\ Parsing(y)' /\ (y.path \notin flush'[f].left => Wrote(y)')
  <2>1. y.path \in Path
    BY <1>2 DEF Flush, Collection
  <2>2. ~Clean(y.path) /\ Parsing(y) /\ (y.path \notin flush[f].left => Wrote(y))
    BY <1>2 DEF CleanInv, FlushInv
  <2>3. y.path \notin flush'[f].left => Wrote(y)'
    BY <1>3, <1>4, <1>5, <2>1, <2>2 DEF Wrote
  <2> QED BY <1>2, <2>2, <2>3 DEF Clean, Parsing
<1>8. \A y, z \in flush'[f].batch : y.path = z.path => y = z
  BY <1>2, <1>3 DEF CleanInv, FlushInv
<1>9. FlushInv'
  BY <1>3, <1>7, <1>8 DEF FlushInv
<1> QED BY <1>6, <1>9 DEF CleanInv

(* What is marked clean is what was collected, and its row is written. *)
LEMMA ClearKeepsClean ==
  ASSUME IndexInv, CleanInv, err # "timeout", NEW f \in Flusher, Clear(f) PROVE CleanInv'
<1>0. TypeOK /\ phase' \notin {"walk", "prune"}
  BY FlushesAreLater DEF IndexInv, FlushDirty
<1>1. /\ flush[f] # None /\ flush[f].left = {} /\ flush' = [flush EXCEPT ![f] = None]
      /\ UNCHANGED <<cache, err>>
      /\ entries' = [p \in Path |->
                   IF entries[p] # None /\ Collected(f, p)
                   THEN [entries[p] EXCEPT !.dirty = FALSE] ELSE entries[p]]
  BY DEF Clear
<1>2. \A g \in Flusher : flush'[g] = None
  BY <1>0, <1>1, OneFlushAtATime DEF IndexInv, TypeOK
<1>3. ASSUME NEW p \in Path, Clean(p)' PROVE InCache(p)'
  <2>1. CASE entries[p] # None /\ Collected(f, p)
    <3>1. PICK x \in flush[f].batch : x.path = p /\ x.id = entries[p].id
      BY <2>1 DEF Collected
    <3>2. Parsing(x) /\ Wrote(x)
      BY <1>1, <3>1 DEF CleanInv, FlushInv
    <3>3. entries[p] \in Entry /\ entries'[p] = [entries[p] EXCEPT !.dirty = FALSE]
      BY <1>0, <1>1, <2>1 DEF TypeOK
    <3>4. entries'[p].mtime = entries[p].mtime /\ entries'[p].ver = entries[p].ver
      BY <3>3 DEF Entry
    <3> QED BY <1>1, <2>1, <3>1, <3>2, <3>4 DEF InCache, Parsing, Wrote
  <2>2. CASE ~(entries[p] # None /\ Collected(f, p))
    <3>1. entries'[p] = entries[p]
      BY <1>1, <2>2
    <3> QED BY <1>1, <1>3, <3>1 DEF CleanInv, CleanRows, Clean, InCache
  <2> QED BY <2>1, <2>2
<1> QED BY <1>0, <1>2, <1>3 DEF CleanInv, CleanRows, FlushInv

LEMMA FlushKeepsClean ==
  ASSUME IndexInv, CleanInv, NEW f \in Flusher, FlushDirty(f) PROVE CleanInv'
<1>0. TypeOK /\ phase' \notin {"walk", "prune"}
  BY FlushesAreLater DEF IndexInv
<1>1. CASE err = "timeout"
  <2>1. err' = "timeout"
    BY <1>1 DEF FlushDirty, Upsert, UpsertFails, Clear, run
  <2> QED BY <1>0, <2>1, TimeoutKeepsClean
<1>2. CASE err # "timeout" /\ UpsertFails(f)
  <2>1. \A g \in Flusher : flush'[g] # None => flush'[g] = flush[g]
    BY <1>0, <1>2 DEF UpsertFails, TypeOK
  <2>2. UNCHANGED <<cache, entries>>
    BY <1>2 DEF UpsertFails, files
  <2> QED BY <1>0, <1>2, <2>1, <2>2
          DEF CleanInv, CleanRows, FlushInv, Clean, InCache, Wrote, Parsing
<1> QED BY <1>1, <1>2, UpsertKeepsClean, ClearKeepsClean DEF FlushDirty

LEMMA CleanStep == ASSUME IInv, [Next]_vars PROVE CleanInv'
<1>0. IndexInv /\ TypeOK /\ CleanInv /\ "indexFlusher" \in Flusher /\ "Run" \in Flusher
  BY DEF IInv, IndexInv, Flusher
<1>1. CASE Ends
  BY <1>1, EndsKeepAll DEF IInv
<1>2. CASE \/ UNCHANGED vars \/ (ParseFails /\ phase # "walk") \/ WalkEnds \/ Cancel \/ Waited
           \/ (\E p \in Path : Write(p) \/ RemoveFile(p) \/ VisitMiss(p) \/ StatForUpdate(p))
           \/ (\E ps \in SUBSET todo : ReadDir(ps))
  <2>1. /\ UNCHANGED <<cache, entries, flush, err>>
        /\ phase' \in {"walk", "prune"} =>
             phase \in {"walk", "prune"} /\ loaded' = loaded /\ found \subseteq found'
    BY <1>2 DEF vars, files, build, run, ParseFails, WalkEnds, Cancel, Waited, Write, RemoveFile,
       VisitMiss, Visited, StatForUpdate, ReadDir
  <2> QED BY <1>0, <2>1, FrameKeepsClean
<1>3. CASE StartBuild \/ Prune \/ \E p \in Path : VisitHit(p)
  BY <1>0, <1>3, BuildKeepsClean
<1>4. CASE Parse
  BY <1>0, <1>4, ParseKeepsClean
<1>5. ASSUME NEW p \in Path, Delete(p) PROVE CleanInv'
  BY <1>0, <1>5, DeleteKeepsClean
<1>6. CASE TimesOut
  BY <1>6, TimeoutKeepsClean DEF TimesOut
<1>7. CASE Tick \/ LastFlush \/ FinalFlush
  <2>1. UNCHANGED <<cache, entries, err>> /\ phase' \notin {"walk", "prune"}
    BY <1>0, <1>7 DEF Tick, LastFlush, FinalFlush, build, run, IndexInv, RunInv
  <2> QED BY <1>0, <1>7, <2>1, CollectKeepsClean DEF Tick, LastFlush, FinalFlush
<1>8. ASSUME NEW f \in Flusher, FlushDirty(f) PROVE CleanInv'
  BY <1>0, <1>8, FlushKeepsClean
<1> QED BY <1>1, <1>2, <1>3, <1>4, <1>5, <1>6, <1>7, <1>8 DEF Next, Ends
-----------------------------------------------------------------------------
(***************************************************************************)
(* The shutdown.                                                           *)
(***************************************************************************)
LEMMA FinalFlushCollectsAll == ASSUME IndexInv, FinalFlush PROVE ShutdownInv'
<1>1. /\ TypeOK /\ "Run" \in Flusher /\ Collect("Run") /\ UNCHANGED entries
      /\ phase' = IF Dirty = {} THEN "returned" ELSE "final"
  BY DEF IndexInv, Flusher, FinalFlush
<1>2. \A p \in Path : entries[p] # None => Clean(p) \/ p \in Dirty
  BY DEF Clean, Dirty
<1>3. flush'["Run"] # None => \A p \in Dirty : Collected("Run", p)'
  BY <1>1, Batch
<1>4. \A p \in Path : Clean(p)' <=> Clean(p)
  BY <1>1 DEF Clean
<1> QED BY <1>1, <1>2, <1>3, <1>4 DEF ShutdownInv

LEMMA FlushKeepsShutdown ==
  ASSUME IndexInv, ShutdownInv, NEW f \in Flusher, FlushDirty(f) PROVE ShutdownInv'
<1>0. TypeOK /\ RunInv /\ flush[f] # None
  BY FlushesAreLater DEF IndexInv
<1>1. CASE err # "nil" \/ UpsertFails(f)
  <2>1. err' # "nil"
    BY <1>1 DEF FlushDirty, Upsert, UpsertFails, Clear, run
  <2> QED BY <2>1 DEF ShutdownInv
<1>2. CASE err = "nil" /\ f = "indexFlusher" /\ ~UpsertFails(f)
  <2>1. phase = "running" /\ phase' = phase
    BY <1>0, <1>2, FlushesAreLater DEF FlushDirty, Upsert, Clear, build, RunInv
  <2> QED BY <2>1 DEF ShutdownInv
<1>3. CASE err = "nil" /\ f = "Run" /\ \E p \in Path : Upsert(f, p)
  <2>1. phase = "final" /\ phase' = phase /\ UNCHANGED entries
    BY <1>0, <1>3 DEF Upsert, build, RunInv
  <2>2. flush'[f].batch = flush[f].batch
    BY <1>0, <1>3 DEF Upsert, TypeOK, Flush
  <2> QED BY <1>0, <1>3, <2>1, <2>2 DEF ShutdownInv, Clean, Collected
<1>4. CASE err = "nil" /\ f = "Run" /\ Clear(f)
  <2>1. phase = "final" /\ phase' = "returned"
    BY <1>0, <1>4 DEF Clear, RunInv
  <2>2. ASSUME NEW p \in Path, entries'[p] # None PROVE Clean(p)'
    <3>1. /\ entries' = [q \in Path |->
                   IF entries[q] # None /\ Collected(f, q)
                   THEN [entries[q] EXCEPT !.dirty = FALSE] ELSE entries[q]]
          /\ entries[p] # None
      BY <1>4, <2>2 DEF Clear
    <3>2. CASE Collected(f, p)
      BY <1>0, <2>2, <3>1, <3>2 DEF Clean, TypeOK, Entry
    <3>3. CASE ~Collected(f, p)
      BY <1>0, <1>4, <2>1, <3>1, <3>3 DEF Clean, ShutdownInv
    <3> QED BY <3>2, <3>3
  <2> QED BY <2>1, <2>2 DEF ShutdownInv
<1> QED BY <1>1, <1>2, <1>3, <1>4 DEF Flusher, FlushDirty

LEMMA ShutdownStep == ASSUME IInv, [Next]_vars PROVE ShutdownInv'
<1>0. IndexInv /\ RunInv /\ TypeOK /\ ShutdownInv
  BY DEF IInv, IndexInv
<1>1. CASE Ends
  BY <1>1, EndsKeepAll DEF IInv
<1>2. CASE UNCHANGED vars \/ \E p \in Path : Write(p) \/ RemoveFile(p)
  BY <1>0, <1>2 DEF vars, build, run, Write, RemoveFile, ShutdownInv, Clean, Collected
<1>3. CASE \/ StartBuild \/ WalkEnds \/ Prune \/ Cancel
           \/ (\E p \in Path : VisitHit(p) \/ VisitMiss(p))
           \/ (\E ps \in SUBSET todo : ReadDir(ps))
  <2>1. phase' \in {"walk", "prune", "running"}
    BY <1>3 DEF StartBuild, WalkEnds, Prune, Cancel, VisitHit, VisitMiss, ReadDir, build
  <2> QED BY <2>1 DEF ShutdownInv
<1>4. CASE \/ Parse \/ (ParseFails /\ phase # "walk")
           \/ Tick \/ LastFlush \/ \E p \in Path : StatForUpdate(p) \/ Delete(p)
  <2>1. phase' = phase /\ err' = err
    BY <1>4 DEF Parse, ParseFails, Tick, LastFlush, StatForUpdate, Delete, build, run
  <2>2. err = "timeout" \/ phase \notin {"final", "returned"}
    BY <1>0, <1>4 DEF Parse, ParseFails, Tick, LastFlush, StatForUpdate, Delete, GoroutinesRun,
       RunInv
  <2> QED BY <2>1, <2>2 DEF ShutdownInv
<1>5. CASE Waited
  <2>1. phase' = "final" /\ flush'["Run"] = None
    BY <1>0, <1>5 DEF Waited, RunInv
  <2> QED BY <2>1 DEF ShutdownInv
<1>6. CASE TimesOut
  BY <1>6 DEF TimesOut, ShutdownInv
<1>7. CASE FinalFlush
  BY <1>0, <1>7, FinalFlushCollectsAll
<1>8. ASSUME NEW f \in Flusher, FlushDirty(f) PROVE ShutdownInv'
  BY <1>0, <1>8, FlushKeepsShutdown
<1> QED BY <1>1, <1>2, <1>3, <1>4, <1>5, <1>6, <1>7, <1>8 DEF Next, Ends
-----------------------------------------------------------------------------
LEMMA IInvHolds == Spec => []IInv
<1>1. IInv /\ [Next]_vars => IInv'
  BY TypesStep, OldStep, RunStep, ProgressStep, CleanStep, ShutdownStep DEF IInv, IndexInv
<1> QED BY InitIInv, <1>1, PTL DEF Spec

(* Every variable keeps its type, and a flusher has rows left only of its   *)
(* own batch.                                                               *)
THEOREM IndexTypesHold == Spec => []TypeOK
<1>1. IInv => TypeOK
  BY DEF IInv, IndexInv
<1> QED BY <1>1, IInvHolds, PTL

(* The mtime Build compares is one of its content: an entry or cache row    *)
(* with the mtime of the file has its content, although parseEntry stats    *)
(* and reads in two steps.                                                  *)
THEOREM MtimesCanBeTrusted == Spec => []MtimeTellsContent
<1>1. IInv => MtimeTellsContent
  <2> SUFFICES ASSUME IInv, NEW p \in Path, file[p] # None
               PROVE  /\ entries[p] # None /\ entries[p].mtime = file[p].mtime
                            => entries[p].ver = file[p].ver
                      /\ cache[p] # None /\ cache[p].mtime = file[p].mtime
                            => cache[p].ver = file[p].ver
    BY DEF MtimeTellsContent
  <2>1. newest[p] \in Nat /\ file[p].mtime = newest[p] /\ file[p].ver = newest[p]
    BY DEF IInv, IndexInv, TypeOK, RowsAreOld
  <2>2. entries[p] # None => Old(entries[p], p) /\ entries[p] \in Entry
    BY DEF IInv, IndexInv, TypeOK, RowsAreOld
  <2>3. cache[p] # None => Old(cache[p], p) /\ cache[p] \in Content
    BY DEF IInv, IndexInv, TypeOK, RowsAreOld
  <2> QED BY <2>1, <2>2, <2>3 DEF Old, Entry, Content
<1> QED BY <1>1, IInvHolds, PTL

(* When Build's walk is over, a path nobody touched meanwhile is indexed   *)
(* with its file's content, or not at all if it has none to index.          *)
THEOREM BuildIndexesTheFiles == Spec => []BuiltIndexIsCurrent
<1>1. IInv => BuiltIndexIsCurrent
  BY DEF IInv, IndexInv, BuildProgress, WalkSoFar, BuiltIndexIsCurrent
<1> QED BY <1>1, IInvHolds, PTL

(* No entry is marked clean whose content has not reached its row, unless   *)
(* the drain timer let two flushes overlap, of which the slower may write   *)
(* the older row last.                                                      *)
THEOREM CleanEntriesAreCached == Spec => []CleanIsCached
<1>1. IInv => CleanIsCached
  BY DEF IInv, CleanInv, CleanRows, Clean, CleanIsCached
<1> QED BY <1>1, IInvHolds, PTL

(* A Run that returns without a failed flush or a timeout leaves in the     *)
(* cache all that is in the index: nobody updates it after the goroutines,  *)
(* and Run's own flush takes what the last one of indexFlusher missed.      *)
THEOREM ShutdownFlushesAll == Spec => []FlushedOnShutdown
<1>1. IInv => FlushedOnShutdown
  BY DEF IInv, CleanInv, CleanRows, ShutdownInv, Clean, FlushedOnShutdown
<1> QED BY <1>1, IInvHolds, PTL
=============================================================================
