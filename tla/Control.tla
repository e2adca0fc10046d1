------------------------------ MODULE Control ------------------------------
(***************************************************************************)
(* The control plane: the socket file of httpServer (internal/daemon) and  *)
(* the client, runEnqueue (cmd/annotate/enqueue.go).  A daemon finds,      *)
(* removes and makes the file by its name, so daemons that run at the same *)
(* time, or hand over to each other, meet in it.                           *)
(*                                                                         *)
(* stage[d] is where a process is: "starting" (runDaemon, up to            *)
(* httpServer), "clear" (it removed the file that was there), "serving"    *)
(* (it listens), "draining" (Serve returned), "drained" (httpServer        *)
(* returned), "down" (no process).                                         *)
(***************************************************************************)
EXTENDS Naturals

CONSTANTS
  Process,       \* the daemons that are configured with this socket
  Client,        \* the users of `annotate enqueue'
  Connection,    \* bound: connections at once
  None,          \* nobody, nothing
  MaxStarts,     \* bound: starts of daemons; the last one is not ended
  CanTimeOut     \* whether a daemon may live for 10 seconds

ASSUME StartsAssumption == MaxStarts \in Nat
ASSUME TimeOutAssumption == CanTimeOut \in BOOLEAN

Stage == {"down", "starting", "clear", "serving", "draining", "drained"}
Outcome == {"idle", "exit 0", "exit 1"}
Requests == [daemon : Process, blank : BOOLEAN, at : {"backlog", "handler", "reply"}]
Effect == {"none", "stored", "failed", "rejected"}

ASSUME NobodyAssumption == None \notin Process /\ None \notin Requests
ASSUME ConnectionAssumption == Connection \cap Outcome = {}

VARIABLES
  socket,        \* the daemon that made the socket file there is, or None
  stage,         \* where each daemon is
  store,         \* whether each daemon's store is open
  request,       \* connection -> the daemon it leads to, whether the path it sends is
                 \* blank, and how far it got; or None
  client,        \* where each client is: a connection it waits on, or an exit code
  starts,        \* how often a daemon was started
  blank,         \* client -> whether the path of its command is empty or only spaces
  effect,        \* history: what the handler did for the command the client runs
  crowded        \* history: whether the newest daemon was started next to another
                 \* one that had the file still to remove

daemons == <<socket, stage, store, starts, crowded>>
clients == <<request, client, blank, effect>>
vars == <<daemons, clients>>

Init ==
  /\ socket = None
  /\ stage = [d \in Process |-> "down"]
  /\ store = [d \in Process |-> FALSE]
  /\ request = [k \in Connection |-> None]
  /\ client = [c \in Client |-> "idle"]
  /\ starts = 0
  /\ blank = [c \in Client |-> FALSE]
  /\ effect = [c \in Client |-> "none"]
  /\ crowded = FALSE

Go(d, from, to) == stage[d] = from /\ stage' = [stage EXCEPT ![d] = to]
-----------------------------------------------------------------------------
(***************************************************************************)
(* Connections end with what they lead to: the client gets an error.       *)
(***************************************************************************)
LeadTo(d) == {k \in Connection : request[k] # None /\ request[k].daemon = d}

InBacklog(d) == {k \in LeadTo(d) : request[k].at = "backlog"}

\* Mutant of Reset: closing the listener leaves its backlog.
ResetNone(ks) == UNCHANGED <<request, client>>

Reset(ks) ==
  /\ request' = [k \in Connection |-> IF k \in ks THEN None ELSE request[k]]
  /\ client' = [c \in Client |-> IF client[c] \in ks THEN "exit 1" ELSE client[c]]
-----------------------------------------------------------------------------
(***************************************************************************)
(* The daemons.                                                            *)
(***************************************************************************)
HasFileToRemove(d) == stage[d] \in {"starting", "clear", "serving", "draining"}

Start(d) ==
  /\ starts < MaxStarts
  /\ Go(d, "down", "starting")
  /\ store' = [store EXCEPT ![d] = TRUE]
  /\ starts' = starts + 1
  /\ crowded' = \E e \in Process : HasFileToRemove(e)
  /\ UNCHANGED <<socket, clients>>

\* Mutant of AfterRemove: the stale file stays.
StaleStays == socket

(* os.Remove asks nothing of the file: it may be another daemon's. *)
AfterRemove == None

RemoveStale(d) ==
  /\ Go(d, "starting", "clear")
  /\ socket' = AfterRemove
  /\ UNCHANGED <<store, starts, crowded, clients>>

Listen(d) ==
  /\ socket = None
  /\ Go(d, "clear", "serving")
  /\ socket' = d
  /\ UNCHANGED <<store, starts, crowded, clients>>

MayEnd == starts < MaxStarts

(* Another daemon's file is there already; or there is none, and the        *)
(* directory or the socket cannot be made (for the last daemon they can).   *)
ListenFails(d) ==
  /\ socket # None \/ MayEnd
  /\ Go(d, "clear", "drained")
  /\ UNCHANGED <<socket, store, starts, crowded, clients>>

(* The context is cancelled, by a signal or at the latest by runDaemon's    *)
(* stop(), and Shutdown closes the listener, which unlinks the file by its  *)
(* name; handlers go on.                                                    *)
Stop(d) ==
  /\ MayEnd \/ ~store[d]
  /\ Go(d, "serving", "draining")
  /\ socket' = None
  /\ Reset(InBacklog(d))
  /\ UNCHANGED <<store, starts, crowded, blank, effect>>

\* Mutant of DeferredRemove: the file is removed when the process is done.
RemoveAtTheEnd(d) ==
  \/ Go(d, "draining", "drained") /\ UNCHANGED <<socket, store, starts, crowded, clients>>
  \/ /\ stage[d] = "drained" /\ ~store[d]
     /\ socket' = None
     /\ UNCHANGED <<stage, store, starts, crowded, clients>>

(* httpServer returns, and removes the file by its name once more. *)
DeferredRemove(d) ==
  /\ Go(d, "draining", "drained")
  /\ socket' = None
  /\ UNCHANGED <<store, starts, crowded, clients>>

(* Run returned: the goroutines are done, or 10 seconds are over. *)
CloseStore(d) ==
  /\ store[d]
  /\ stage[d] = "drained" \/ (CanTimeOut /\ MayEnd /\ stage[d] # "starting")
  /\ store' = [store EXCEPT ![d] = FALSE]
  /\ UNCHANGED <<socket, stage, starts, crowded, clients>>

Vanish(d) ==
  /\ stage' = [stage EXCEPT ![d] = "down"]
  /\ store' = [store EXCEPT ![d] = FALSE]
  /\ Reset(LeadTo(d))
  /\ UNCHANGED <<socket, starts, crowded, blank, effect>>

(* After a timeout nobody waits for httpServer, and the file may stay. *)
Exit(d) == stage[d] # "down" /\ stage[d] # "starting" /\ ~store[d] /\ Vanish(d)

Die(d) == MayEnd /\ stage[d] # "down" /\ Vanish(d)
-----------------------------------------------------------------------------
(***************************************************************************)
(* The client, and the handler at the other end.                           *)
(***************************************************************************)
Listening == socket # None /\ stage[socket] = "serving"

Unused == {k \in Connection : request[k] = None}

(* A user runs the command, perhaps again because it failed.  One argument  *)
(* is asked for, and it may be blank.                                       *)
Connect(c) ==
  /\ client[c] \in {"idle", "exit 1"}
  /\ Listening /\ Unused # {}
  /\ \E b \in BOOLEAN :
       LET k == CHOOSE x \in Unused : TRUE
       IN  /\ request' = [request EXCEPT
                ![k] = [daemon |-> socket, blank |-> b, at |-> "backlog"]]
           /\ client' = [client EXCEPT ![c] = k]
           /\ blank' = [blank EXCEPT ![c] = b]
  /\ effect' = [effect EXCEPT ![c] = "none"]
  /\ UNCHANGED daemons

(* No file, or nobody behind it: "daemon is not running". *)
Refused(c) ==
  /\ client[c] = "idle"
  /\ ~Listening
  /\ client' = [client EXCEPT ![c] = "exit 1"]
  /\ UNCHANGED <<request, blank, effect, daemons>>

(* The client's 5 seconds are over; the handler does not learn of it. *)
TimesOut(c) ==
  /\ client[c] \in Connection
  /\ client' = [client EXCEPT ![c] = "exit 1"]
  /\ UNCHANGED <<request, blank, effect, daemons>>

NextCommand(c) ==
  /\ client[c] = "exit 0"
  /\ client' = [client EXCEPT ![c] = "idle"]
  /\ UNCHANGED <<request, blank, effect, daemons>>

Advance(k, from, to) ==
  /\ request[k] # None /\ request[k].at = from
  /\ request' = [request EXCEPT ![k].at = to]

Accept(k) ==
  /\ Advance(k, "backlog", "handler")
  /\ UNCHANGED <<client, blank, effect, daemons>>

Handled(k, how) == effect' = [c \in Client |-> IF client[c] = k THEN how ELSE effect[c]]

Awaited(k) == \E c \in Client : client[c] = k

(* The body cannot be read, because the client is gone, or the path is      *)
(* blank: the answer will be a 400, and Enqueue is not called.              *)
Reject(k) ==
  /\ Advance(k, "handler", "reply")
  /\ request[k].blank \/ ~Awaited(k)
  /\ Handled(k, "rejected")
  /\ UNCHANGED <<client, blank, daemons>>

Enqueue(k) ==
  /\ Advance(k, "handler", "reply")
  /\ ~request[k].blank
  /\ store[request[k].daemon]
  /\ Handled(k, "stored")
  /\ UNCHANGED <<client, blank, daemons>>

(* A statement fails, on a closed store for one; the answer will be a 500. *)
EnqueueFails(k) ==
  /\ Advance(k, "handler", "reply")
  /\ ~request[k].blank
  /\ Handled(k, "failed")
  /\ UNCHANGED <<client, blank, daemons>>

\* Mutant of Answerable: the handler answers before it calls Enqueue.
AnswerableAtOnce(k) == request[k] # None /\ request[k].at \in {"handler", "reply"}

Answerable(k) == request[k] # None /\ request[k].at = "reply"

(* The client looks at no status: any answer is success. *)
Reply(k) ==
  /\ Answerable(k)
  /\ request' = [request EXCEPT ![k] = None]
  /\ client' = [c \in Client |-> IF client[c] = k THEN "exit 0" ELSE client[c]]
  /\ UNCHANGED <<blank, effect, daemons>>
-----------------------------------------------------------------------------
HandleEnqueue(k) == Reject(k) \/ Enqueue(k) \/ EnqueueFails(k)

Handler(k) == Accept(k) \/ HandleEnqueue(k) \/ Reply(k)

HttpServer(d) == RemoveStale(d) \/ Listen(d) \/ ListenFails(d) \/ DeferredRemove(d)

Next ==
  \/ \E d \in Process : Start(d) \/ HttpServer(d) \/ Stop(d) \/ CloseStore(d) \/ Exit(d) \/ Die(d)
  \/ \E c \in Client : Connect(c) \/ Refused(c) \/ TimesOut(c) \/ NextCommand(c)
  \/ \E k \in Connection : Handler(k)

Spec == Init /\ [][Next]_vars

NothingRuns == \A d \in Process : stage[d] = "down"

(* A supervisor starts a daemon when none runs, and processes go on.  Users *)
(* run the command again when it failed, and 5 seconds are enough for a     *)
(* handler, if not every time.                                              *)
FairSpec ==
  /\ Spec
  /\ WF_vars(NothingRuns /\ \E d \in Process : Start(d))
  /\ \A d \in Process :
       /\ WF_vars(HttpServer(d))
       /\ WF_vars(stage[d] = "drained" /\ CloseStore(d))
       /\ WF_vars(Exit(d))
  /\ \A c \in Client : SF_vars(client[c] = "exit 1" /\ Connect(c))
  /\ \A k \in Connection : WF_vars(Handler(k))
  /\ \A c \in Client, k \in Connection :
       /\ SF_vars(client[c] = k /\ Accept(k))
       /\ SF_vars(client[c] = k /\ HandleEnqueue(k))
       /\ SF_vars(client[c] = k /\ Reply(k))
-----------------------------------------------------------------------------
(* Types; a connection leads to a process that lives, one in a backlog to a *)
(* daemon that listens; and a client waits on a connection that is there.   *)
TypeOK ==
  /\ socket \in Process \cup {None}
  /\ stage \in [Process -> Stage]
  /\ store \in [Process -> BOOLEAN]
  /\ request \in [Connection -> Requests \cup {None}]
  /\ client \in [Client -> Connection \cup Outcome]
  /\ starts \in 0..MaxStarts
  /\ blank \in [Client -> BOOLEAN]
  /\ effect \in [Client -> Effect]
  /\ crowded \in BOOLEAN
  /\ \A k \in Connection :
       request[k] # None =>
         /\ stage[request[k].daemon] # "down"
         /\ request[k].at = "backlog" => stage[request[k].daemon] = "serving"
  /\ \A c \in Client : client[c] \in Connection => request[client[c]] # None

(* A daemon that serves can be reached, although it removes, makes and      *)
(* unlinks the file by name, and although the one before it may still be    *)
(* finishing when it starts: it need only have returned from httpServer.    *)
(* Only a daemon that is started next to one that has not can take the      *)
(* socket away from it, or lose its own.                                    *)
ServingIsReachable ==
  ~crowded => \A d \in Process : stage[d] = "serving" => socket = d

(* What exit code 0 tells of a command, whatever was cut, timed out, closed *)
(* or restarted meanwhile: if its path is not blank, Enqueue was called for *)
(* this very command and is over; if it is, Enqueue was not called.  It     *)
(* does not tell that anything was stored: a 400 and a 500 are answers too, *)
(* and the client looks at no status (enqueue.go:47).                       *)
Settled(c) == effect[c] \in (IF blank[c] THEN {"rejected"} ELSE {"stored", "failed"})
ExitZeroIsHandled == \A c \in Client : client[c] = "exit 0" => Settled(c)

(* A command that fails succeeds when it is tried again and again, through  *)
(* restarts, crashes that leave a stale file, handovers and timeouts, as    *)
(* long as daemons do not crowd.                                            *)
RetryGetsThrough ==
  \A c \in Client : client[c] = "exit 1" ~> (client[c] = "exit 0" \/ crowded)
=============================================================================
