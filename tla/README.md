# annotate in TLA+

`annotate` is a Go daemon that watches a workspace of Markdown notes and keeps
a queue of notes to annotate. This directory holds a TLA+ model of its core,
the TLC configurations that check it, and TLAPS proofs of its safety
properties.

## 1. The system

One daemon process per workspace (`cmd/annotate/daemon.go`, `internal/daemon`)
runs four goroutines around one SQLite file:

    editor --fs events--> fsWatcher --timers--> callbacks --Enqueue--+
                                                                     v
    annotate enqueue --Unix socket--> httpServer --handleEnqueue--> queue --> queueWorker
                                                                                 |
    notes --Build--> Index --FlushDirty (indexFlusher, Run)--> index_cache       +--> event_log

| component (source) | state | operations | hard behaviour | what makes it correct |
|---|---|---|---|---|
| note queue (`internal/queue`) | table `queue`: id, path, mtime, position, status | Enqueue, Dequeue, ReEnqueue, Remove | several producers; ReEnqueue meets the unique index; a worker dies with an entry | one pending row per path, strict FIFO order, an entry stays true while held, every row is reached |
| file system watcher (`fsWatcher`) | map of debounce timers | event, Reset, AfterFunc callback | a timer is Reset while its callback runs; callbacks delete each other's map entries; Enqueue fails | no save forgotten, at most one Enqueue per write, each save tried |
| daemon process (`Run`, `runDaemon`, `queueWorker`) | goroutines, the context, the drain timer | start, signal, failure, timeout, stop, crash | every order of signal, failure, timeout and crash around the two statements of the worker | acknowledged work keeps a row until it is logged, nothing is logged twice, a clean stop is clean |
| control plane (`httpServer`, `enqueue.go`) | socket file, requests in progress | POST /enqueue, shutdown | handlers outlive the server; the socket file is removed by name, at the start, by the listener and once more; the client times out and retries | exit code 0 means that the path was handled, or blank and rejected; a daemon that serves can be reached; a retry gets through |
| note index (`internal/index`, `indexFlusher` and the last flush of `Run`) | map of entries with a dirty flag | Build, Update, Delete, FlushDirty | entries replaced during a flush; editors between stat and parse; a partly failed flush, which ends the daemon; two flushers | a clean entry is cached, a shutdown flushes all, mtimes tell contents, Build's result is current |
| index cache (`store/index_cache.go`) | table `index_cache` | load, upsert, delete | rows written one at a time, outside the lock | (with the index) |
| event log (`internal/eventlog`) | table `event_log` | Append, Prune | the event and the row are two statements; both operations read the clock before their statement | a removed row has its event; an event stays for its retention |
| schema migrations (`store/migrations.go`) | table `schema_versions` and the schema itself | Open, roll back | two processes open one file, die or wait too long; the versions to apply are read before the transactions that apply them | the record is what the schema is, an opened store has the newest |
| store (`store/store.go`, `api.go`) | one connection | Open, Close, Ping, DB | use after Close | statements run one at a time |
| configuration (`internal/config`) | read once | Load, PolicyFor | overlapping globs in map order | exclusion is final, caps are somebody's |
| backlinks (`index/backlinks.go`) | counts in entries | computeBacklinks | colliding titles in map order, links to the own note | a count lies between the notes that clearly link and those that possibly do |
| notes (`internal/notes`) | path and path.tmp | Parse, Write, ContentHash | long lines; repeated keys; keys in map order; writers that die or overlap | the file is whole, what is written can be read back, suggestions do not change the hash |
| command line (`cmd/annotate`) | none | daemon, enqueue; the rest print a notice | the client ignores the HTTP status | see Daemon |

`PROJECT.json` lists every hazard with its line and the properties that cover
it, or why none does.

## 2. The modules

| module | models | state and actions |
|---|---|---|
| `QueueTable` | the SQL of `queue.go` and the indexes of migrations 001, 008 and 009 | operators on a set of rows, one per clause or statement |
| `NoteQueue` | `queue.go` used by any number of callers and workers | `queue`, `nextId` are the table; `held[w]` is the `*Entry` a worker has; one action per outcome of each method, and `Crash` |
| `FifoWork` | what the queue promises | notes that wait, the order in which they began to, what each worker has; no ids, positions or statuses |
| `FsWatcher` | `fsWatcher` | `timers` is the map, `armed` the `time.Timer`s whether in the map or not, `callbacks` the running closures; one action per critical section or call |
| `Daemon` | `Run`, `queueWorker`, `httpServer`, `handleEnqueue`, `runDaemon`, over `QueueTable` | the disk survives `Crash` and `Exit`, everything else does not; `run`, `worker` and `producers[s]` are program counters |
| `IndexCache` | `build.go`, `flush.go`, `index.go`, `store/index_cache.go`; `indexFlusher` and the shutdown of `Run` in `daemon.go` | `file` is the workspace, `entries` the map of `*NoteEntry` with an identity each, `flush[f]` the collected batch of `indexFlusher` or of `Run`; `phase`, `flusher`, `cancelled` and `err` say how far the process is in Build, in Run and in its shutdown |
| `Migrations` | `migrations.go` and `Open`, over the ten scripts in `migrations/` | `applied` and `schema` are the file; `writer` has SQLite's write lock and `draft` what its transaction made of the schema; `snapshot[p]`, `version[p]` and `stage[p]` are a process's local variables and program counter |
| `Control` | `httpServer`'s socket file, `handleEnqueue`, `runDaemon`'s end, `runEnqueue` | `socket` is the daemon that made the file, `stage[d]` a daemon's program counter, `request[k]` how far a connection got, `client[c]` the connection a client waits on or its exit code |
| `Notes` | `notes.go` | operators for `splitFrontmatter`, `decodeYAML`, `marshal` and `ContentHash`; `content[i]` is what an inode holds, `writer[w]` the local variables of somebody who reads, changes and writes the note |
| `Policy` | `PolicyFor` and its helpers | `todo` is the part of the Go map the walk has yet to come to, `policy` the local variable `p` |
| `Backlinks` | `computeBacklinks` | `target` is `targetToEntry`; `unregistered` and `unfollowed` are what the two walks have yet to come to |
| `EventLog` | `Append` and `Prune` | `calls[c]` is a call between its reading of the clock and its statement |
| `QueueTableProofs` | - | lemmas on natural numbers and on the operators of `QueueTable`, for the next three |
| `NoteQueueProofs`, `DaemonProofs` | - | the proofs about these modules; the first has the refinement of `FifoWork` |
| `LibraryProofs` | - | the proofs about `Policy`, `EventLog`, `Notes` and `Backlinks`, in this order |
| `FsWatcherProofs`, `IndexCacheProofs`, `MigrationsProofs`, `ControlProofs` | - | the proofs about these modules |
| `MCLibrary` | - | `Notes`, `Policy`, `Backlinks` and `EventLog` in one run; `part` says which one a behaviour is about |
| other `MC...` | - | a component with the values of its constants that a `.cfg` cannot state, or its symmetry set |

`NoteQueue` and `Daemon` share `QueueTable`: the first has every method of the
package (the daemon never calls `ReEnqueue`), the second only what the daemon
calls, in the order it calls it. `Daemon` summarises `FsWatcher` in the set
`due`: a save makes a path due, and a callback may start for a due path. The
history variables (named as such where they are declared) record what the
program does not keep, for the properties; no guard of a code action reads
them, except that they bound the environment (`Save`, `Touch`).

What is atomic. Each statement is one implicit SQLite transaction and each
process has one connection (`SetMaxOpenConns(1)`), so a statement is a step.
`applyMigration` and `RollbackMigration` use explicit transactions: there a step is
a statement inside the transaction, and others see nothing before the commit.
`sqlDequeue` is one `UPDATE ... RETURNING`: selecting and marking are one step,
with two workers or two processes. Between statements everything may happen.
A critical section under a mutex is a step; what the code does outside the
lock (`UpsertIndexCache` for each row, `Enqueue` in a callback) is a step of
its own.

What is abstracted. Paths, contents and times are model values or small
numbers. A note's content is a version number, and an index entry is the mtime
it shows, the version it was parsed from and its `BacklinkCount`, which Build's
second pass takes from what the versions link to. `created_at` and
`updated_at` are left out (nothing reads them). `Daemon` has no mtimes, since
`queueWorker` does not look at them. `saved` and `enqueued` events, whose
failure the code ignores, are a step (`CallbackLog`, `ProducerFinishes`) with
no table behind it.

A document in `Notes` is a sequence of tokens: fences, front matter lines (which
stand for a key and a value), other lines, and lines the scanner has no room
for; carriage returns and a missing last newline are kept, because Parse and
Write treat them. A block of YAML is a mapping, or an error when mapping lines
and others are mixed, or something else that decodes into no keys. What
`path.Match` matches is a constant relation in `Policy`, and so is the relation
`EqualFold` in `Backlinks`.

In `Control` a client chooses a path that is blank or not; a blank one, and a
body that cannot be read because nobody sends it any more, is answered with 400
before Enqueue. A client that gives up leaves its handler running. A process that
ends takes its connections with it, and one that ends without returning from
`httpServer` (a crash, or the drain timer) leaves its file. The requests there
have no queue behind them: `store[d]` says whether their statement can succeed,
and `Daemon` says what becomes of the row.

## 3. The runs

| run | question | answer |
|---|---|---|
| `queue` | Are rows deduplicated, strictly ordered and owned by one worker, through re-enqueues, index conflicts and crashes? Does the table implement `FifoWork`? Does a worker take every waiting row, whatever is saved or given back meanwhile? | yes |
| `queue_crash` | Is every row seen through to its removal or its return, if workers may die and are restarted? | no: the processing row is stranded |
| `queue_resave` | Does a waiting path that is saved again go to the back? | no: it keeps its place, and the documents contradict each other |
| `queue_giveback` | Can a worker always give its entry back? | no: not if the path was saved meanwhile |
| `watcher` | Is any save forgotten or enqueued twice, with overlapping callbacks and failing Enqueues? Is each tried? | none is, each is |
| `daemon` | Does acknowledged work keep its row, is every removed row logged, and once, is a clean stop clean, whatever fails? Is acknowledged work processed, across stops, crashes and restarts? | yes, unless the row is stranded |
| `daemon_timeout` | Does the daemon run until it is told to stop or fails? | no: 10 seconds |
| `daemon_pending_save` | Is every save the watcher saw processed, across clean restarts? | no: armed timers die with the process |
| `index` | Is a clean entry in the cache, does a shutdown leave nothing behind, is a cached row what its mtime says, is Build's result current? Does every entry reach the cache? | yes, the first two unless the drain timer fires, the last unless the entry is deleted or the daemon stops |
| `migrations` | Is the recorded version what the schema is, does Open return a complete schema, and do processes that get into each other's way end with one, whatever crashes, loses a race or waits too long? | yes |
| `library` | Is a note whole on disk whatever its writers do, is what was written read back and written the same way again, does the hash survive suggestions? Does the order of Go's maps decide who is excluded, which caps hold, how links are counted? Is an event kept for its retention, with clocks read early? | yes, for what the remarks below exempt |
| `control` | Can a daemon that serves be reached, what does exit code 0 say, and does a client that retries get through, with daemons that follow each other, overlap, crash and time out? | yes, unless a daemon is started next to one still in `httpServer` |

### Properties worth a remark

- `NoOvertaking` is about steps: as long as a path keeps waiting, nothing is
  put in front of it. Positions are `MAX(position) + 1` over the rows present,
  so they go down again when the table empties; `PositionsDistinct` and
  `NoOvertaking` say that this never shows.
- `KeepsPromise` is the refinement: waiting notes are the pending rows, their
  order the order of positions, `inWork` what workers hold. A `Crash` maps to
  `Drop`; a stranded row is not visible to `FifoWork`, which promises order and
  deduplication but not recovery. `NoOvertaking` and this one follow
  `note-queue/spec.md:29` (a re-save keeps its place) against
  `automated-annotation-prd.md:115` and `implementation-plan.md:27`, which send
  the path to the back: see finding 2.
- `AcknowledgedIsKept` allows the row to be stranded; what it excludes is that
  it disappears. `AcknowledgedGetsProcessed` excuses a stranded row for this
  reason, and nothing else but the end of the last process.
- `NoSaveForgotten` is stated against the last *call* of Enqueue: when that
  call fails the code drops the save, without a retry and without an event.
- `LoggedAtMostOnce` holds because a row is taken once: a process that dies
  between the event and `Remove` leaves a row nobody takes again. Any recovery
  of processing rows would have to give up either this or at-least-once.
- `MtimeTellsContent` says that a stat before the read is safe: an editor in
  between leaves an entry that looks older than the file, never one that looks
  current and is not.
- `SavesGetEnqueued` is about the *attempt*: each save is followed by a call of
  Enqueue that was made for it or a later one, whether or not the call fails. It
  rests on saves being finite: a path saved for ever at intervals below
  `DebounceInterval` is never enqueued. Errors on `watcher.Errors`, such as an
  overflow of the kernel's events, are outside the model.
- `CleanStop` excuses a Run whose drain timer fired: the worker may then have an
  item in work.
- `CleanIsCached` is about the mtime and the content a row was parsed from.
  `BacklinkCount` is a field of the row as well, and Build's second pass
  (`build.go:97`) changes it in entries that came clean from the cache without
  making them dirty. The property, like `FlushedOnShutdown`, excuses a Run whose
  drain timer fired: its flush may overlap that of `indexFlusher`, and the
  slower one may put back an older row. The mtime of such a row is older too,
  and `MtimeTellsContent` and `BuiltIndexIsCurrent`, which excuse nothing, say
  that the next Build is not misled by it.
- `FlushedOnShutdown` holds although `indexFlusher` may make its last flush before
  an update that is still under way: Run waits for whoever updates and flushes
  once more. `EntriesGetCached` ends with the first flush that fails, because its
  error cancels the daemon (`daemon.go:245`).
- `OpenIsComplete` holds although the applied versions are read outside the
  transactions: a process that applies what another one has applied meanwhile
  fails on the script or on the primary key of `schema_versions`, and its Open
  returns an error. Nothing retries that; `EventuallyMigrated` needs somebody
  to start the process again.
- `RollbackMigration` has no caller. The model allows it to a process that is
  alone with the file: with another one about to apply a version it could take
  the schema from under a store that is open.
- `ServingIsReachable` rests on an order: `httpServer` removes its file before
  `Run` returns, so a new daemon may start as soon as the old one has left
  `httpServer`, while it still flushes and closes its store. The deferred
  `os.Remove` (`daemon.go:144`) never removes anything then, since closing the
  listener has unlinked the file. When a daemon is started earlier than that
  (`crowded`), its `os.Remove` (`daemon.go:133`) takes the file of a live one,
  and the other's two removals take the new one's; neither checks whose file it
  is. The property holds again with the next daemon that is started alone.
- `ExitZeroIsHandled` is all the exit code of `annotate enqueue` tells: the
  client does not look at the status (`enqueue.go:47`), so a 500 (a closed store,
  a failing statement) is a 0 as well, and so is the 400 for a path that is
  empty or only spaces, for which Enqueue is never called (`daemon.go:174`).
- `WrittenIsReadBack` is about keys, values and the lines around them. The round
  trip does not keep bytes: a file without front matter gains a pair of fences,
  carriage returns and a missing last newline are made regular, a key that is
  there twice is written twice with its last value, `ai_suggestions` moves to the
  end, comments and a block that is not a mapping are dropped.
  `SecondWriteIsStable` says that this happens once, for a file with front
  matter or plain line ends. That is less than the specification has: see below.
- Notes with a line beyond 64 KiB are in the run and outside of
  `WrittenIsReadBack`, `SecondWriteIsStable` and `HashSurvivesSuggestions`: the
  scan ends there without an error and the rest is not written back
  (`notes.go:133`).
- `NoteIsWhole` has crashes and failures at every step and what they leave in
  `path.tmp`; it excuses two Writes that overlap, since both use one temporary
  file and the first rename may move what the other is still writing.
- `HashSurvivesSuggestions` is what keeps the daemon from annotating its own
  annotations. It leaves out a file without front matter whose line ends are
  unusual: the first write makes them regular, which changes the body.
- `ExclusionIsFinal` does not depend on map order. The caps do where overrides
  overlap: `CapsAreJustified` says that the value comes from one of them, and so
  is unique where they agree. A malformed glob matches nothing, in
  `excluded_namespaces` too (`config.go:177`).
- `CountsAreRight` has two parts. `CountsTellEntries` leaves to map order only
  the links that can mean several notes. It is stated of a note that no other
  one links to twice, and `EachLinkCountsOnce` of vaults without such a note and
  with distinct names; a link that is also a name of its own note goes to
  whoever else resembles it. Vaults with double links are in the run: there the
  code counts links.
- `RetentionIsKept` holds because the cutoff is read early: a `Prune` that waits
  deletes less than it might, never more. An event whose `Append` took longer
  than the retention is in the log until the next `Prune`. It is stated for a
  retention of at least a day; one of 0 days means that all rows go.

### Findings

1. `queue_crash`: a row marked `processing` by a process that dies is never
   selected again (`queue.go:26`); the design promises that jobs survive
   restarts.
2. `queue_resave`: a waiting path that is saved again keeps its position
   (`queue.go:20`), as `note-queue/spec.md:29` has it; the PRD (line 115) and the
   implementation plan (line 27) have it removed and appended to the back.
3. `queue_giveback`: `ReEnqueue` breaks the partial unique index if its path
   was enqueued again during the work (`queue.go:124`); the specification has
   no such case.
4. `daemon_timeout`: the 10-second drain timer starts with `Run`
   (`daemon.go:111`), so the daemon ends after 10 seconds of normal work.
5. `daemon_pending_save`: a debounce timer armed at a clean stop is lost
   (`daemon.go:272`).

Other places where code and documents disagree. The models have what the code
does, and the properties named leave the case out, with a comment that says so;
no run of its own shows the disagreement.

- A note that is written back without a change does not keep its bytes when it
  has no front matter, CRLF, no last newline, or a layout that is not the YAML
  library's (`notes.go:223`); `note-frontmatter-parsing/spec.md:26-27` says "the
  resulting file bytes are identical to the original file bytes"
  (`SecondWriteIsStable`).
- `computeBacklinks` counts a note twice that links twice (`backlinks.go:39`);
  its comment (lines 6-7) and `note-index/spec.md:35` count other entries
  (`CountsTellEntries`, `EachLinkCountsOnce`).
- `Prune` with a retention of 0 days keeps a row that is appended between its
  reading of the clock and its statement (`eventlog.go:41`, 74); the comment at
  line 71 and `event-log/spec.md:44-46` say that all rows are deleted
  (`RetentionIsKept`).
- Build's second pass changes clean entries (`build.go:97`); `index.go:14-15`
  says that the dirty field tracks whether an entry was modified since the last
  flush (`CleanIsCached`).
- A callback deletes its path's map entry although the timer there has been
  Reset during the callback (`daemon.go:303`). Later events start a second
  timer, and the first fires while the path is not quiet; `daemon.go:48` says
  that `DebounceInterval` is the wait after the last event.

### Bounds

Every bound is a constant with a comment.

- `queue`: 2 workers, 3 paths, 2 mtimes, 4 rows, 4 positions: two rows
  in work and two waiting, one of the latter a second row for a path in work,
  so ReEnqueue can succeed, conflict, and be followed by more work. The bound
  on positions stops a row that is given back for ever while others stay; it
  can still go behind three others. It makes inserts and returns finite, so
  that endless ones starve nobody is `NoOvertaking`, not `WaitingGetsTaken`;
  saves, polls and crashes go on for ever in the run.
- `queue_resave`: 2 paths and 2 mtimes, one of them saved twice.
- `watcher`: 1 path, 4 saves and one other event, 2 timers, 2 callbacks, a
  delay of 2 ticks. Three saves are enough for a Reset during a callback, a
  timer outside the map and a second one inside; the fourth meets both. Paths
  share the loop and nothing else: map entries, timers and callbacks belong to
  one path each.
- `daemon`: 1 path, 2 saves, 2 rows, 2 producers, 2 starts: a request and a
  callback at once, a row in work while the next waits, and a restart on what
  the first process left.
- `index`: 1 path, 3 versions, 3 starts, with every error and the drain timer: an
  entry is replaced during a flush by one that is replaced again, and a Build
  meets rows a Build before it met. `MaxEntry` counts the objects that can be
  reached at once, 3 of them: an identity is used again when nothing leads to its
  object, as the Go allocator does. Two paths meet in the model only in the
  batch of a flush, which writes their rows one by one and clears their flags
  together, and in the counts of backlinks, which no property looks at. That
  the four safety properties hold for any number of paths, and so of a batch
  half written, is what the theorems say; `EntriesGetCached` is checked for one.
- `library`: all documents of up to 4 lines (a front matter block with a line
  in it and one before or after), with every line end, for one writer; of up to
  2 lines for two writers; configurations with 2 or 3 overrides whose globs
  match a namespace one, two and three times, in both kinds of the exclusion
  list; vaults of 3 notes whose titles, aliases and base names collide, with up
  to 3 links; 2 calls on the event log at once, 3 events and retentions of 0, 1
  and 2 days within 4 ticks.
- `control`: 2 daemons, 3 starts, 1 client, 2 connections: the client's attempt
  and the handler of an earlier one, a handover, a crowd and a restart after it.
  The theorems are for any numbers of each.
- `migrations`: 2 processes, 3 crashes, 4 rollbacks: one process may die in
  both of its transactions and the other in one, and the rollbacks reach past
  versions 10, 9 (which restores an index) and 8 (a column that an index uses).

`CHECK_DEADLOCK FALSE` is set where the bounds, or the last allowed exit of
the process, stop the system.

### Fairness

- `NoteQueue`: a worker that can dequeue does, and settles what it holds by
  one of the two ways; `queueWorker` is a loop that polls every 100 ms.
  Nothing is assumed of callers, and a crash is never required or excluded by
  fairness: `CanCrash` decides.
- `FsWatcher`: the loop runs, time passes, expired timers fire and goroutines
  proceed (the Go runtime). Editors owe nothing. Whether an Enqueue succeeds
  or fails is not fair: weak fairness is on the callback as a whole.
- `Daemon`: goroutines, deferred calls and timers proceed, and a supervisor
  starts the daemon again after an exit. No signal is ever due. A behaviour
  may end in the last process the bound allows being stopped; `LastStop`
  excuses that one case, and `Stranded` the rows no process takes again.
- `IndexCache`: the ticker of `indexFlusher` ticks, and a flush of its goroutine
  goes on to its end, good or bad: weak fairness is on `FlushDirty` as a whole. A
  write that fails is always allowed; it cancels the daemon, and nothing is
  retried. Nobody has to update, to stop or to build.
- `Control`: a supervisor starts a daemon when none runs, processes and handlers
  go on, users run the command again when it failed, and 5 seconds are enough
  for a handler, if not every time. Nobody has to stop or crash, and the bound on
  starts leaves the last daemon running.
- The four components of `library` have no liveness property: each is a call
  that returns.
- `Migrations`: a process that is not running is started again, and what it
  began goes on. Nobody has to close a store, to roll back or to crash, and the
  bounds make both of the latter finite.

## 4. The proofs

Every invariant, the action property and the refinement that the passing runs
check are theorems, for every value of the constants that the named
assumptions allow; TLC evaluates those assumptions in the runs. Each inductive
invariant is the module's properties and what they rest on, and has a comment
at each of its parts. There is one lemma per action, or one for a group of actions
that disturb the same parts.

**The queue.** `NoteQueueProofs`, for every set of paths, mtimes and workers:

- `Inductive`: `Spec => []IInv`;
- `TypeCorrect`, `Deduplicated`, `StrictOrder`, `HeldIsTrue`:
  `TypeOK`, `PendingUnique`, `PositionsDistinct` and `HeldConsistent`;
- `FirstComeFirstServed`: the action property `NoOvertaking`;
- `Implements`: the refinement `KeepsPromise`, that is `Spec => FifoWork!Spec`
  under the mapping at the end of `NoteQueue`.

`IInv` is the conjunction of the four invariants and `IdsUnique` (ids are
below `nextId` and name one row). `HeldConsistent` is not inductive alone: a
worker names its row by id, and another worker's `Remove` or `ReEnqueue` spares
it only because ids are unique. `PendingUnique` needs the guard of `Insert` (the
conflict clause) and, for `ReEnqueue`, the unique index; it also needs
`HeldConsistent`, by which the row given back is the one held. `PositionsDistinct`
rests on `NextPositionIsLast`: the maximum in `MAX(position) + 1` exists, which is
`GreatestNatural`, from the well-foundedness of `<` (`QueueTableProofs`).

`KeepsPlaces` says of a step that each row that waits after it waited before
with the same path and position, or has a path that did not wait and a
position beyond all rows. Each action satisfies it, and `NoOvertaking` follows: the
path that keeps waiting is of the first kind, and whoever is in front of it then
has a smaller position and cannot be of the second. The refinement has one lemma
per action (Insert is `Submit`, Coalesce is `Update`, Dequeue is `Take`, Remove and
Crash are `Drop`, ReEnqueue is `GiveBack`, the rest stutter); `JoinsBack` is what
Insert and ReEnqueue share.

**The watcher.** `FsWatcherProofs`, for any paths, timers, callbacks, delay and
number of events:

- `NoSaveIsForgotten`: `NoSaveForgotten`. It needs `TimersOwned`: no two paths have
  one timer and a timer in the map is armed for its own path, so that a Reset
  never takes another path's timer;
- `DebounceAddsNoWork`: `AtMostOncePerSave`. It follows from `Balanced`, a sum over
  everything on its way: the Enqueues made of a path and its events, timers and
  callbacks that will each lead to at most one more are never more than its
  saves. Each action moves one unit from one term to another or drops it;
- `WatcherTypesHold`: `TypeOK`.

**The daemon.** `DaemonProofs`, for any notes, requests, rows and starts, with
crashes, failures and timeouts or without. `DaemonInv` adds to the types:

- `RowsInv` and `HeldInv`: ids are unique, and the worker's entry is a row being
  processed. The lemmas on the table are those of the queue;
- `LogInv`: what the worker is about to log is not in the log, what it is about to
  remove is there once, nothing that waits was logged. `RemovedRowsAreLogged`
  (`GoneIsLogged`) and `NoRowIsLoggedTwice` (`LoggedAtMostOnce`) follow;
- `KeptInv`: the acknowledged save of a path is processed, or seen by the
  worker, or in a row that the worker is not about to remove. The same holds
  of the save of a request between its Enqueue and its answer. From it
  `AcknowledgedSavesAreKept` (`AcknowledgedIsKept`);
- `StopInv`: as long as nothing has failed, the rows being processed are the
  stranded ones and the worker's. From it `StopIsClean` (`CleanStop`).

**The index.** `IndexCacheProofs`, for any files, versions, links, entries and
starts, with both flushers, failing writes and the drain timer:

- `IndexTypesHold`: `TypeOK`;
- `MtimesCanBeTrusted` (`MtimeTellsContent`): every copy of an mtime, whether in
  an entry, a row, Build's copy of the table or a batch, is at most the version it
  comes with, and that is at most the file's (`RowsAreOld`);
- `BuildIndexesTheFiles` (`BuiltIndexIsCurrent`): `BuildProgress` says it of the part
  of the walk that is done;
- `CleanEntriesAreCached` (`CleanIsCached`): Build's copy of the table is the
  table, and as long as the timer has not fired, a row that a flush has written
  is still there, and the entry of a collected path is dirty and, unless it was
  replaced, what was collected (`CleanInv`). That the two flushers do not meet
  is no assumption but part of `RunInv`: without a timeout Run flushes after
  `indexFlusher` has returned;
- `ShutdownFlushesAll` (`FlushedOnShutdown`): once Run is in its last flush, nobody
  updates any more, and what is dirty is in its batch (`ShutdownInv`). With
  `CleanIsCached` the rest is in the cache.

**The migrations.** `MigrationsProofs`, for any processes, crashes and roll-backs:
`TheRecordNeverLies` (`RecordMatchesSchema`) and `OpenedIsComplete` (`OpenIsComplete`).
The file is at version n for some n (`FileInv`); what a process has read of the
versions is still there, its own version is the next one or is recorded by
another by now, and its draft is what its script makes of the schema
(`Migrating`); who rolls back is alone (`RollingBack`). The ten scripts are
evaluated: `RunUp` and `RunDown` lead from `SchemaOf(1..n)` to its neighbours.

**The control plane.** `ControlProofs`, for any daemons, clients, connections and
starts:

- `TypesHold`: `TypeOK`, by which a connection leads to a process that lives and
  a client waits on a connection that is there;
- `SocketHolds`: `ServingIsReachable`. It is inductive with `Alone`: without a
  crowd at most one daemon is between its start and its return from `httpServer`.
  A daemon that removes the file or makes one is in that part, and so nobody
  else serves; one that is started makes a crowd, or finds nobody there;
- `ExitZeroHolds`: `ExitZeroIsHandled`. It needs `AnswersAreHandled`: what is about
  to be answered has left its effect, or its rejection if the path is blank,
  with whoever waits for it.

**Policies and events.** `LibraryProofs` has `ExclusionHolds` and `CapsHold`
(`ExclusionIsFinal`, `CapsAreJustified`) for every set of globs and namespaces,
every relation of matching between them, all caps and every order of the walk:
`WalkInvariant` says of the overrides visited so far what the properties say of
all. `RetentionHolds` (`RetentionIsKept`) is for any callers, any retention of
at least a day and any length of a day in ticks, without a bound on time. The
invariant adds that the cutoff of a call that has yet to delete is at most the
one of the present, since the clock does not go back: an event younger than the
retention is then no older than the cutoff.

**Notes.** `NotesSpec` is for any alphabet of keys and lines, any writers, any sets of
keys they change and every document but an empty file, which `NoteIsWhole` could not tell
from a torn one (the run leaves it out for the same reason). `NotesInvariant`
is about the steps of `Write`: each writer holds the note it read, and
without an overlap `path.tmp` belongs to the only `Write` and is complete once
filled. `NotesAreWhole` (`NoteIsWhole`) follows. The other three are about the algorithm:

- `WritingIsReadBack` (`WrittenIsReadBack`): `FramedIs` says line by line what `marshal`
  writes, and `ReadBack` what `Parse` makes of it: the first two fences it finds are the ones
  that were written, since the lines between are key lines and the lines in
  front are no fences;
- `HashIsKept` (`HashSurvivesSuggestions`): `SameHash`, the keys in the order of the
  alphabet do not depend on the order in the file;
- `WritingIsStable` (`SecondWriteIsStable`): `OrderIsKept`, the document that was
  read back has its keys in the order in which they are written again, and
  `BodyIsPlain`, by which its lines already end as the scanner would leave them.

**Backlinks.** `BacklinksSpec` is for any vault of finitely many notes with any
titles, aliases and links. `BacklinksInvariant`: `targetToEntry` leads to entries
that have the name, and the counts are right of the links followed so far.
From it `CountsHold` (`CountsTellEntries`), where `SourcesAreAsMany` says that links
and the notes they come from are equally many when no note links twice, and
`EachLinkIsCountedOnce` (`EachLinkCountsOnce`), where the sum over notes moves by
one with each link that is credited. `BacklinksAreCounted` (`CountsAreRight`) is
both.

Two facts needed an induction over data: what `Only` selects from a sequence,
and that the sum over a finite set of notes grows by one with one of its
members. The induction theorems of the library take an operator as a
parameter; `Induction` says the same of the set of numbers where the fact
fails: without a least element it is empty.

Assumptions on constants. Bounds are naturals, `Delay` is positive (`New` refuses
another), flags are Booleans, `None` and its likes are none of the values they
stand beside. In `Control` a connection is no exit code. In `Notes` there is an
inode, every key is in the alphabet, and key lines are no other tokens. In
`Backlinks` the notes are finite, a note has one base name and a name one folded
form.

Only model-checked: liveness (`WaitingGetsTaken`, `SavesGetEnqueued`,
`AcknowledgedGetsProcessed`, `EventuallyMigrated`, `EntriesGetCached`,
`RetryGetsThrough`), which the prover does not support, and the five
disagreements, for which a run's counterexample is the proof.

## 5. Not modelled, and why

- `Load`: a file is read once, defaults are filled in and `workspace_path` is
  required; `GET /status`, `Ping` and `SchemaVersions` change no state.
- The extraction of headings and links from a body by regular expressions.
  Links in `Backlinks` are not empty: `[[ ]]` would equal the title of an untitled
  note (`backlinks.go:48`).
- The order of `enqueued` and `processed` events: a handler appends the first
  after its Enqueue, and the worker may be faster (`daemon.go:185`). Nothing
  reads the log yet.
- Mtimes in the queue: a producer reads the clock before its Enqueue, so a newer
  one may be overwritten (`daemon.go:180`); `queueWorker` does not look at it.
- A number of days beyond 106751 in `Prune`, which `time.Duration` cannot hold.
- The counts of backlinks after an `Update`: a new entry has none, and those it
  links to keep theirs until the next Build. The model has it so; no property
  is about counts there, since no document says when they are to be right.
- Files whose mtime goes back: `IsHit` takes any mtime that is not after the
  cached one, so Build keeps the old entry of a file that was replaced by an
  older one. `Write` only moves mtimes forward, and every write has a new
  mtime, which is true of file systems with fine time stamps.
- A migration whose script is malformed, and a script that finds everything
  there: it takes the write lock one statement later than in the model, at the
  `INSERT`, and fails there all the same.
- Reading YAML, HTTP and SQL details, logging: I/O without control of its own.
- `apply`, `report`, `status` and `index rebuild` only print that they are not
  implemented. `runDaemon` does not call `Build` or `Update` yet: `IndexCache`
  models the package as its API is meant to be driven.

## 6. The plan

Every safety property and the refinement are proved, by components. What
would come next, in this order:

1. Two flushes at once, when the drain timer fires: how long a cache row can
   stay behind its entry, since `CleanIsCached` excuses that. And the counts of
   backlinks across flushes and restarts, once something reads them.
2. `Daemon` with `FsWatcher` in place of its set `due`, and a proof that the
   watcher implements that set.
3. The event log with its readers (retry, conflict, metrics), when there are any.
