----------------------------- MODULE IndexCache -----------------------------
(***************************************************************************)
(* The note index of internal/index and its SQLite cache: Build at the     *)
(* start; Update, Delete and FlushDirty while Daemon.Run runs; the flushes *)
(* of indexFlusher and of Run at the shutdown; failing writes, the drain   *)
(* timer, crashes, and editors that change the files all the while.        *)
(*                                                                         *)
(* The content of a note is a version number, and Links says which notes a *)
(* version links to.  A cache row is [mtime, ver, count]: the file's mtime *)
(* when it was parsed, the content it was parsed from, and BacklinkCount,  *)
(* which comes from the other notes.  An index entry also has the identity *)
(* of its *NoteEntry, because FlushDirty clears the dirty flag through     *)
(* pointers it collected before.                                           *)
(***************************************************************************)
EXTENDS Integers, FiniteSets

CONSTANTS
  Path,          \* the .md files the workspace may have
  Links,         \* path -> version -> the notes it links to
  None,          \* no file, row, entry, stat or flush
  MaxVer,        \* bound: versions per file
  MaxEntry,      \* bound: NoteEntry objects reachable at once
  MaxStarts,     \* bound: starts of the program
  CanFail,       \* whether the program may meet errors
  CanCorrupt,    \* whether a cache row may fail to decode
  CanTimeOut     \* whether Run may last for 10 seconds

ASSUME BoundAssumption == {MaxVer, MaxEntry, MaxStarts} \subseteq Nat
ASSUME FlagAssumption == {CanFail, CanCorrupt, CanTimeOut} \subseteq BOOLEAN
ASSUME PathAssumption == IsFiniteSet(Path)
ASSUME LinksAssumption == Links \in [Path -> [1..MaxVer -> SUBSET Path]]

(* Who may be inside FlushDirty: the goroutine with the ticker, and Run     *)
(* after the goroutines.                                                    *)
Flusher == {"indexFlusher", "Run"}

Content == [mtime : 0..MaxVer, ver : 1..MaxVer, count : Nat]
Entry == [mtime : 0..MaxVer, ver : 1..MaxVer, count : Nat, id : 1..MaxEntry, dirty : BOOLEAN]
File == [mtime : 0..MaxVer, ver : 1..MaxVer]
Collection == [path : Path, row : Content, id : 1..MaxEntry]
Flush == [batch : SUBSET Collection, left : SUBSET Path]
Stat == [path : Path, mtime : 0..MaxVer]

ASSUME NoneAssumption ==
  /\ None \notin Path \cup File \cup Content \cup Entry \cup Stat
  /\ None \notin Flush

VARIABLES
  file,          \* the workspace: path -> [mtime, ver], or None
  newest,        \* the versions used per path
  touched,       \* history: the paths whose file changed during Build
  cache,         \* the index_cache table: path -> row, or None
  phase,         \* "down"; "walk" and "prune" in Build; in Run "running",
                 \* "final" (its last flush) and "returned"
  starts,        \* how often the program was started
  loaded,        \* Build's copy of the cache
  todo,          \* the paths whose directory the walk has yet to read
  listed,        \* the paths it read in a directory and has yet to visit
  found,         \* the paths it found
  stat,          \* the stat of a file about to be parsed: [path, mtime], or None
  entries,       \* the map: path -> [mtime, ver, count, id, dirty], or None
  flush,         \* flusher -> [batch, left] of its FlushDirty, or None
  flusher,       \* indexFlusher: "ticking", in its "last" flush, or "returned"
  cancelled,     \* whether the context of Run's goroutines is cancelled
  err            \* what flushes and the timer make Run return: "nil", "error"
                 \* or "timeout"; it flushes after other errors as after none

files == <<file, newest, touched>>
build == <<phase, starts, loaded, todo, listed, found>>
run == <<flusher, cancelled, err>>
vars == <<files, cache, build, stat, entries, flush, run>>

Nothing == [p \in Path |-> None]
Idle == [f \in Flusher |-> None]

Init ==
  /\ file = Nothing /\ newest = [p \in Path |-> 0] /\ touched = {}
  /\ cache = Nothing
  /\ phase = "down" /\ starts = 0
  /\ loaded = Nothing /\ todo = {} /\ listed = {} /\ found = {}
  /\ stat = None
  /\ entries = Nothing
  /\ flush = Idle
  /\ flusher = "returned" /\ cancelled = FALSE /\ err = "nil"

(* Build's local variables after it returned. *)
NoBuild == loaded' = Nothing /\ todo' = {} /\ listed' = {} /\ found' = {} /\ touched' = {}

(* The process ends: the index is gone, the cache is on disk. *)
EndProcess ==
  /\ phase' = "down"
  /\ NoBuild
  /\ entries' = Nothing /\ stat' = None /\ flush' = Idle
  /\ flusher' = "returned" /\ cancelled' = FALSE /\ err' = "nil"
  /\ UNCHANGED <<file, newest, starts>>
-----------------------------------------------------------------------------
(***************************************************************************)
(* Editors.                                                                *)
(***************************************************************************)

(* A write gives the file a new content and a newer mtime than it ever had. *)
Write(p) ==
  /\ newest[p] < MaxVer
  /\ newest' = [newest EXCEPT ![p] = @ + 1]
  /\ file' = [file EXCEPT ![p] = [mtime |-> newest[p] + 1, ver |-> newest[p] + 1]]
  /\ touched' = IF phase \in {"walk", "prune"} THEN touched \cup {p} ELSE touched
  /\ UNCHANGED <<cache, build, stat, entries, flush, run>>

RemoveFile(p) ==
  /\ file[p] # None
  /\ file' = [file EXCEPT ![p] = None]
  /\ touched' = IF phase \in {"walk", "prune"} THEN touched \cup {p} ELSE touched
  /\ UNCHANGED <<newest, cache, build, stat, entries, flush, run>>
-----------------------------------------------------------------------------
(***************************************************************************)
(* Build, on an empty index.                                               *)
(***************************************************************************)
StartBuild ==
  /\ phase = "down" /\ starts < MaxStarts
  /\ starts' = starts + 1
  /\ phase' = "walk"
  /\ loaded' = cache
  /\ todo' = Path
  /\ UNCHANGED <<files, listed, found, cache, stat, entries, flush, run>>

(* WalkDir reads a directory at once and then visits what it read. *)
ReadDir(ps) ==
  /\ phase = "walk" /\ stat = None
  /\ ps # {}
  /\ todo' = todo \ ps
  /\ listed' = listed \cup {p \in ps : file[p] # None}
  /\ UNCHANGED <<files, cache, phase, starts, loaded, found, stat, entries, flush, run>>

Visited(p) == listed' = listed \ {p} /\ found' = found \cup {p}

\* Mutant of IsHit: whatever is in the cache is taken.
IsCachedAtAll(p) == loaded[p] # None

(* ! mtime.After(cached.Mtime) *)
IsHit(p) == loaded[p] # None /\ file[p].mtime <= loaded[p].mtime

(* The objects neither the map nor a flush points to, and the one a         *)
(* composite literal allocates.                                             *)
Unused ==
  1..MaxEntry \ ({entries[p].id : p \in {q \in Path : entries[q] # None}}
                 \cup UNION {{x.id : x \in flush[f].batch} : f \in {g \in Flusher : flush[g] # None}})
NewEntry == CHOOSE n \in Unused : TRUE

VisitHit(p) ==
  /\ phase = "walk" /\ stat = None
  /\ p \in listed /\ file[p] # None
  /\ IsHit(p)
  /\ Unused # {}
  /\ entries' = [entries EXCEPT
       ![p] = [mtime |-> loaded[p].mtime, ver |-> loaded[p].ver, count |-> loaded[p].count,
               id |-> NewEntry, dirty |-> FALSE]]
  /\ Visited(p)
  /\ UNCHANGED <<files, cache, phase, starts, loaded, todo, stat, flush, run>>

(* The row is missing, older than the file, or does not decode. *)
VisitMiss(p) ==
  /\ phase = "walk" /\ stat = None
  /\ p \in listed /\ file[p] # None
  /\ ~IsHit(p) \/ CanCorrupt
  /\ stat' = [path |-> p, mtime |-> file[p].mtime]
  /\ Visited(p)
  /\ UNCHANGED <<files, cache, phase, starts, loaded, todo, entries, flush, run>>

(* The file is gone at d.Info(), an error that ends Build. *)
InfoFails(p) ==
  /\ phase = "walk" /\ stat = None
  /\ p \in listed /\ file[p] = None
  /\ EndProcess
  /\ UNCHANGED cache

\* Mutant of Parsed: the entry is stamped with the time of the parse.
ParsedNow(p) ==
  [mtime |-> newest[p] + 1, ver |-> file[p].ver, count |-> 0, id |-> NewEntry, dirty |-> TRUE]

(* parseEntry: the content read now, with the mtime of the earlier stat; it *)
(* knows of no backlinks.                                                   *)
Parsed(p) ==
  [mtime |-> stat.mtime, ver |-> file[p].ver, count |-> 0, id |-> NewEntry, dirty |-> TRUE]

Parse ==
  /\ stat # None
  /\ file[stat.path] # None
  /\ Unused # {}
  /\ entries' = [entries EXCEPT ![stat.path] = Parsed(stat.path)]
  /\ stat' = None
  /\ UNCHANGED <<files, cache, build, flush, run>>

(* The file went away after the stat, or it cannot be parsed.  In Build     *)
(* that is an error that ends it; a caller of Update has nothing to update  *)
(* with.                                                                    *)
ParseFails ==
  /\ stat # None
  /\ CanFail \/ file[stat.path] = None
  /\ IF phase = "walk" THEN EndProcess
     ELSE stat' = None /\ UNCHANGED <<files, build, entries, flush, run>>
  /\ UNCHANGED cache

WalkEnds ==
  /\ phase = "walk" /\ todo = {} /\ listed = {} /\ stat = None
  /\ phase' = "prune"
  /\ UNCHANGED <<files, cache, starts, loaded, todo, listed, found, stat, entries, flush, run>>

(* The rows whose file the walk did not find. *)
Stale == {p \in Path : loaded[p] # None /\ p \notin found}

(* computeBacklinks: how many other entries link to p.                      *)
Backlinks(p) ==
  Cardinality({q \in Path \ {p} : entries[q] # None /\ p \in Links[q][entries[q].ver]})

(* It leaves the dirty flag alone. *)
WithBacklinks ==
  [p \in Path |-> IF entries[p] = None THEN None ELSE [entries[p] EXCEPT !.count = Backlinks(p)]]

(* DeleteIndexCache on the stale rows, then the second pass; Build returns, *)
(* and Run starts its goroutines.                                           *)
Prune ==
  /\ phase = "prune"
  /\ cache' = [p \in Path |-> IF p \in Stale THEN None ELSE cache[p]]
  /\ entries' = WithBacklinks
  /\ phase' = "running"
  /\ flusher' = "ticking"
  /\ NoBuild
  /\ UNCHANGED <<file, newest, starts, stat, flush, cancelled, err>>

(* DeleteIndexCache fails, and Build with it. *)
PruneFails ==
  /\ CanFail
  /\ phase = "prune" /\ Stale # {}
  /\ EndProcess
  /\ UNCHANGED cache
-----------------------------------------------------------------------------
(***************************************************************************)
(* Update and Delete, in a goroutine of Run's group: after a timeout these *)
(* go on.                                                                  *)
(***************************************************************************)
GoroutinesRun == phase = "running" \/ err = "timeout"

(* A caller of Update stats a note it is about to parse; Parse stores it.   *)
StatForUpdate(p) ==
  /\ GoroutinesRun /\ stat = None
  /\ file[p] # None
  /\ stat' = [path |-> p, mtime |-> file[p].mtime]
  /\ UNCHANGED <<files, cache, build, entries, flush, run>>

Delete(p) ==
  /\ GoroutinesRun
  /\ entries[p] # None
  /\ entries' = [entries EXCEPT ![p] = None]
  /\ UNCHANGED <<files, cache, build, stat, flush, run>>
-----------------------------------------------------------------------------
(***************************************************************************)
(* FlushDirty.                                                             *)
(***************************************************************************)
Dirty == {p \in Path : entries[p] # None /\ entries[p].dirty}

RowOf(p) == [mtime |-> entries[p].mtime, ver |-> entries[p].ver, count |-> entries[p].count]

(* It collects pointers to the dirty entries under the lock; without any it *)
(* is over.                                                                 *)
Collect(f) ==
  flush' = [flush EXCEPT ![f] =
    IF Dirty = {} THEN None
    ELSE [batch |-> {[path |-> p, row |-> RowOf(p), id |-> entries[p].id] : p \in Dirty},
          left  |-> Dirty]]

(* UpsertIndexCache, a row at a time and outside the lock. *)
Upsert(f, p) ==
  /\ flush[f] # None /\ p \in flush[f].left
  /\ \E x \in flush[f].batch :
       x.path = p /\ cache' = [cache EXCEPT ![p] = x.row]
  /\ flush' = [flush EXCEPT ![f].left = @ \ {p}]
  /\ UNCHANGED <<files, build, stat, entries, run>>

(* It fails: the flags stay set, and the error ends who called FlushDirty.  *)
(* That of indexFlusher cancels the others; Run returns it only if it has   *)
(* no other error.                                                          *)
UpsertFails(f) ==
  /\ CanFail
  /\ flush[f] # None /\ flush[f].left # {}
  /\ flush' = [flush EXCEPT ![f] = None]
  /\ err' = IF err = "nil" THEN "error" ELSE err
  /\ IF f = "Run"
     THEN phase' = "returned" /\ UNCHANGED <<flusher, cancelled>>
     ELSE flusher' = "returned" /\ cancelled' = TRUE /\ UNCHANGED phase
  /\ UNCHANGED <<files, cache, starts, loaded, todo, listed, found, stat, entries>>

\* Mutant of Collected: the flags are cleared by path.
CollectedPath(f, p) == \E x \in flush[f].batch : x.path = p

(* Whether the entry of p is one of those the flusher collected. *)
Collected(f, p) == \E x \in flush[f].batch : x.path = p /\ x.id = entries[p].id

(* Under the lock again: the flags of the collected entries are cleared.    *)
(* An entry that was replaced in between is another object.                 *)
Clear(f) ==
  /\ flush[f] # None /\ flush[f].left = {}
  /\ entries' = [p \in Path |->
                   IF entries[p] # None /\ Collected(f, p)
                   THEN [entries[p] EXCEPT !.dirty = FALSE] ELSE entries[p]]
  /\ flush' = [flush EXCEPT ![f] = None]
  /\ IF f = "Run"
     THEN phase' = "returned" /\ UNCHANGED flusher
     ELSE flusher' = (IF flusher = "last" THEN "returned" ELSE flusher) /\ UNCHANGED phase
  /\ UNCHANGED <<files, cache, starts, loaded, todo, listed, found, stat, cancelled, err>>
-----------------------------------------------------------------------------
(***************************************************************************)
(* Run and indexFlusher.                                                   *)
(***************************************************************************)
Tick ==
  /\ flusher = "ticking" /\ flush["indexFlusher"] = None
  /\ Dirty # {}
  /\ Collect("indexFlusher")
  /\ UNCHANGED <<files, cache, build, stat, entries, run>>

(* ctx.Done: once more, and indexFlusher returns. *)
LastFlush ==
  /\ flusher = "ticking" /\ flush["indexFlusher"] = None
  /\ cancelled
  /\ Collect("indexFlusher")
  /\ flusher' = IF Dirty = {} THEN "returned" ELSE "last"
  /\ UNCHANGED <<files, cache, build, stat, entries, cancelled, err>>

(* A signal, or the error of another goroutine. *)
Cancel ==
  /\ phase = "running" /\ ~cancelled
  /\ cancelled' = TRUE
  /\ UNCHANGED <<files, cache, build, stat, entries, flush, flusher, err>>

\* Mutant of Waited: Run does not flush.
WaitedOnly ==
  /\ phase = "running" /\ flusher = "returned" /\ stat = None
  /\ phase' = "returned"
  /\ UNCHANGED <<files, cache, starts, loaded, todo, listed, found, stat, entries, flush, run>>

(* All goroutines have returned, whoever was updating an entry included. *)
Waited ==
  /\ phase = "running" /\ flusher = "returned" /\ stat = None
  /\ phase' = "final"
  /\ UNCHANGED <<files, cache, starts, loaded, todo, listed, found, stat, entries, flush, run>>

(* Or the timer fires, and Run waits no longer. *)
TimesOut ==
  /\ CanTimeOut
  /\ phase = "running"
  /\ phase' = "final" /\ err' = "timeout"
  /\ UNCHANGED <<files, cache, starts, loaded, todo, listed, found, stat, entries, flush,
                 flusher, cancelled>>

FinalFlush ==
  /\ phase = "final" /\ flush["Run"] = None
  /\ Collect("Run")
  /\ phase' = IF Dirty = {} THEN "returned" ELSE "final"
  /\ UNCHANGED <<files, cache, starts, loaded, todo, listed, found, stat, entries, run>>

(* The process ends after Run returned, or is killed at any moment. *)
End == phase # "down" /\ EndProcess /\ UNCHANGED cache

FlushDirty(f) == (\E p \in Path : Upsert(f, p)) \/ UpsertFails(f) \/ Clear(f)

Next ==
  \/ \E p \in Path : Write(p) \/ RemoveFile(p)
  \/ StartBuild \/ WalkEnds \/ Prune \/ PruneFails
  \/ \E ps \in SUBSET todo : ReadDir(ps)
  \/ \E p \in Path : VisitHit(p) \/ VisitMiss(p) \/ InfoFails(p)
  \/ Parse \/ ParseFails
  \/ \E p \in Path : StatForUpdate(p) \/ Delete(p)
  \/ Tick \/ LastFlush \/ Cancel \/ Waited \/ TimesOut \/ FinalFlush
  \/ \E f \in Flusher : FlushDirty(f)
  \/ End

Spec == Init /\ [][Next]_vars

(* The ticker ticks, and a FlushDirty of indexFlusher goes on to its end,   *)
(* good or bad.                                                             *)
FairSpec ==
  Spec /\ WF_vars(Tick) /\ WF_vars(FlushDirty("indexFlusher"))
-----------------------------------------------------------------------------
(* Every variable keeps its type; a flusher has rows left only of its batch. *)
TypeOK ==
  /\ file \in [Path -> File \cup {None}]
  /\ newest \in [Path -> 0..MaxVer]
  /\ cache \in [Path -> Content \cup {None}]
  /\ loaded \in [Path -> Content \cup {None}]
  /\ phase \in {"down", "walk", "prune", "running", "final", "returned"}
  /\ starts \in 0..MaxStarts
  /\ todo \subseteq Path /\ listed \subseteq Path /\ found \subseteq Path
  /\ touched \subseteq Path
  /\ stat \in Stat \cup {None}
  /\ entries \in [Path -> Entry \cup {None}]
  /\ flush \in [Flusher -> Flush \cup {None}]
  /\ \A f \in Flusher : flush[f] # None => flush[f].left \subseteq {x.path : x \in flush[f].batch}
  /\ flusher \in {"ticking", "last", "returned"}
  /\ cancelled \in BOOLEAN
  /\ err \in {"nil", "error", "timeout"}

(* The cache has what was parsed for the entry of p.  BacklinkCount is left *)
(* out, although it is a field of the row and the dirty field is to track   *)
(* "whether the entry has been modified since the last flush"               *)
(* (index.go:14-15): computeBacklinks changes the counts of entries that    *)
(* came clean from the cache, and marks none as dirty.                      *)
InCache(p) ==
  cache[p] # None /\ cache[p].mtime = entries[p].mtime /\ cache[p].ver = entries[p].ver

(* A clean entry is one the cache has: whatever Update, Delete and failed   *)
(* writes fall between the collecting of a flush and its clearing, no entry *)
(* is marked clean that has not reached its row.  After the drain timer two *)
(* flushes may overlap, and a late one may put back an older row.           *)
CleanIsCached ==
  err # "timeout" =>
    \A p \in Path : entries[p] # None /\ ~entries[p].dirty => InCache(p)

(* "All in-flight dirty entries are persisted" when the program is shut     *)
(* down (openspec/specs/note-index/spec.md:50): if Run returns, no flush    *)
(* failed and the timer did not fire, then whatever was updated after       *)
(* indexFlusher's last flush, and while it was under way, is in the cache.  *)
FlushedOnShutdown ==
  phase = "returned" /\ err = "nil" => \A p \in Path : entries[p] # None => InCache(p)

(* Mtimes can be trusted: an entry or a cache row that shows the mtime the  *)
(* file has now was parsed from the content it has now, although the stat   *)
(* and the parse are two steps an editor may fall between.  Build's cache   *)
(* hits rest on this.                                                       *)
MtimeTellsContent ==
  \A p \in Path : file[p] # None =>
    /\ entries[p] # None /\ entries[p].mtime = file[p].mtime => entries[p].ver = file[p].ver
    /\ cache[p] # None /\ cache[p].mtime = file[p].mtime => cache[p].ver = file[p].ver

(* Build indexes the workspace: when the walk is over, the files that were  *)
(* left alone meanwhile have an entry with their content, and files that    *)
(* are not there have none.                                                 *)
BuiltIndexIsCurrent ==
  phase = "prune" =>
    \A p \in Path \ touched :
      IF file[p] = None THEN entries[p] = None
      ELSE entries[p] # None /\ entries[p].ver = file[p].ver

(* What is in the index reaches the cache although entries are replaced     *)
(* during a flush, unless the note is deleted there or the program begins   *)
(* to stop, as a failed flush makes it do.                                  *)
EntriesGetCached ==
  \A p \in Path :
    (phase = "running" /\ entries[p] # None) ~>
      (entries[p] = None \/ InCache(p) \/ cancelled \/ phase # "running")
=============================================================================
