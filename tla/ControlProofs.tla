---------------------------- MODULE ControlProofs ----------------------------
(***************************************************************************)
(* Theorems about Control: for any number of daemons, clients, connections *)
(* and starts.                                                             *)
(***************************************************************************)
EXTENDS Control, TLAPS

(* Without a crowd, one daemon at most has the file to remove: whoever      *)
(* serves is that one, so no other one removes its file.                    *)
Alone ==
  ~crowded =>
    \A d, e \in Process : HasFileToRemove(d) /\ HasFileToRemove(e) => d = e

(* The request a client waits for is about its path, and was handled if it  *)
(* is about to be answered.                                                 *)
AnswersAreHandled ==
  \A c \in Client :
    client[c] \in Connection =>
      /\ request[client[c]].blank = blank[c]
      /\ request[client[c]].at = "reply" => Settled(c)

SocketInv == TypeOK /\ Alone /\ ServingIsReachable
ClientInv == TypeOK /\ AnswersAreHandled /\ ExitZeroIsHandled
-----------------------------------------------------------------------------
(***************************************************************************)
(* Types.                                                                  *)
(***************************************************************************)

(* Connections that end leave the others, and their clients with an error.  *)
LEMMA ResetResult ==
  ASSUME TypeOK, NEW ks \in SUBSET Connection, Reset(ks)
  PROVE  /\ request' \in [Connection -> Requests \cup {None}]
         /\ client' \in [Client -> Connection \cup Outcome]
         /\ \A k \in Connection :
              request'[k] # None => k \notin ks /\ request'[k] = request[k]
         /\ \A c \in Client :
              client'[c] \in Connection =>
                /\ client'[c] = client[c]
                /\ request'[client[c]] = request[client[c]]
         /\ \A c \in Client : client'[c] = "exit 0" => client[c] = "exit 0"
BY ConnectionAssumption DEF Reset, TypeOK, Outcome

LEMMA StartTypes == ASSUME TypeOK, NEW d \in Process, Start(d) PROVE TypeOK'
BY StartsAssumption DEF Start, Go, TypeOK, Stage, clients

LEMMA HttpServerTypes == ASSUME TypeOK, NEW d \in Process, HttpServer(d) PROVE TypeOK'
<1>1. CASE RemoveStale(d)
  BY <1>1 DEF RemoveStale, AfterRemove, Go, TypeOK, Stage, clients
<1>2. CASE Listen(d)
  BY <1>2 DEF Listen, Go, TypeOK, Stage, clients
<1>3. CASE ListenFails(d)
  BY <1>3 DEF ListenFails, Go, TypeOK, Stage, clients
<1>4. CASE DeferredRemove(d)
  BY <1>4 DEF DeferredRemove, Go, TypeOK, Stage, clients
<1> QED BY <1>1, <1>2, <1>3, <1>4 DEF HttpServer

LEMMA StopTypes == ASSUME TypeOK, NEW d \in Process, Stop(d) PROVE TypeOK'
<1>1. InBacklog(d) \in SUBSET Connection /\ Reset(InBacklog(d))
  BY DEF Stop, InBacklog, LeadTo
<1>r. /\ request' \in [Connection -> Requests \cup {None}]
      /\ client' \in [Client -> Connection \cup Outcome]
      /\ \A k \in Connection :
           request'[k] # None => k \notin InBacklog(d) /\ request'[k] = request[k]
      /\ \A c \in Client :
           client'[c] \in Connection =>
             /\ client'[c] = client[c]
             /\ request'[client[c]] = request[client[c]]
  BY <1>1, ResetResult
<1>2. /\ stage' = [stage EXCEPT ![d] = "draining"] /\ socket' = None
      /\ store' = store /\ starts' = starts /\ crowded' = crowded
      /\ blank' = blank /\ effect' = effect
  BY DEF Stop, Go
<1>3. ASSUME NEW k \in Connection, request'[k] # None
      PROVE  /\ stage'[request'[k].daemon] # "down"
             /\ request'[k].at = "backlog" => stage'[request'[k].daemon] = "serving"
  <2>0. k \notin InBacklog(d) /\ request'[k] = request[k]
    BY <1>r, <1>3
  <2>1. request[k] \in Requests
    BY <1>3, <2>0 DEF TypeOK
  <2>2. request[k].at = "backlog" => request[k].daemon # d
    BY <1>3, <2>0 DEF InBacklog, LeadTo
  <2> QED BY <1>2, <1>3, <2>0, <2>1, <2>2 DEF TypeOK, Requests, Stage
<1>4. \A c \in Client : client'[c] \in Connection => request'[client'[c]] # None
  BY <1>r DEF TypeOK
<1> QED BY <1>r, <1>2, <1>3, <1>4 DEF TypeOK, Stage

LEMMA VanishTypes == ASSUME TypeOK, NEW d \in Process, Vanish(d) PROVE TypeOK'
<1>1. LeadTo(d) \in SUBSET Connection /\ Reset(LeadTo(d))
  BY DEF Vanish, LeadTo
<1>r. /\ request' \in [Connection -> Requests \cup {None}]
      /\ client' \in [Client -> Connection \cup Outcome]
      /\ \A k \in Connection :
           request'[k] # None => k \notin LeadTo(d) /\ request'[k] = request[k]
      /\ \A c \in Client :
           client'[c] \in Connection =>
             /\ client'[c] = client[c]
             /\ request'[client[c]] = request[client[c]]
  BY <1>1, ResetResult
<1>2. /\ stage' = [stage EXCEPT ![d] = "down"] /\ store' = [store EXCEPT ![d] = FALSE]
      /\ socket' = socket /\ starts' = starts /\ crowded' = crowded
      /\ blank' = blank /\ effect' = effect
  BY DEF Vanish
<1>3. ASSUME NEW k \in Connection, request'[k] # None
      PROVE  /\ stage'[request'[k].daemon] # "down"
             /\ request'[k].at = "backlog" => stage'[request'[k].daemon] = "serving"
  <2>0. k \notin LeadTo(d) /\ request'[k] = request[k]
    BY <1>r, <1>3
  <2>1. request[k] \in Requests
    BY <1>3, <2>0 DEF TypeOK
  <2>2. request[k].daemon # d
    BY <1>3, <2>0 DEF LeadTo
  <2> QED BY <1>2, <1>3, <2>0, <2>1, <2>2 DEF TypeOK, Requests, Stage
<1>4. \A c \in Client : client'[c] \in Connection => request'[client'[c]] # None
  BY <1>r DEF TypeOK
<1> QED BY <1>r, <1>2, <1>3, <1>4 DEF TypeOK, Stage

LEMMA CloseStoreTypes == ASSUME TypeOK, NEW d \in Process, CloseStore(d) PROVE TypeOK'
BY DEF CloseStore, TypeOK, clients

LEMMA ConnectTypes == ASSUME TypeOK, NEW c \in Client, Connect(c) PROVE TypeOK'
<1> DEFINE k == CHOOSE x \in Unused : TRUE
<1>0. PICK b \in BOOLEAN :
        /\ request' = [request EXCEPT ![k] = [daemon |-> socket, blank |-> b, at |-> "backlog"]]
        /\ client' = [client EXCEPT ![c] = k]
        /\ blank' = [blank EXCEPT ![c] = b]
  BY DEF Connect
<1> DEFINE new == [daemon |-> socket, blank |-> b, at |-> "backlog"]
<1>1. k \in Connection /\ request[k] = None
  BY DEF Connect, Unused
<1>2. /\ request' = [request EXCEPT ![k] = new]
      /\ client' = [client EXCEPT ![c] = k]
      /\ blank' = [blank EXCEPT ![c] = b]
      /\ effect' = [effect EXCEPT ![c] = "none"]
      /\ daemons' = daemons
  BY <1>0 DEF Connect
<1>3. socket \in Process /\ stage[socket] = "serving"
  BY DEF Connect, Listening, TypeOK
<1>4. new \in Requests /\ new # None
  BY <1>3, NobodyAssumption DEF Requests
<1>5. new.daemon = socket /\ new.at = "backlog"
  OBVIOUS
<1> HIDE DEF k, new
<1>6. /\ request' \in [Connection -> Requests \cup {None}]
      /\ client' \in [Client -> Connection \cup Outcome]
      /\ blank' \in [Client -> BOOLEAN]
      /\ effect' \in [Client -> Effect]
  BY <1>1, <1>2, <1>4 DEF TypeOK, Effect
<1>7. \A x \in Connection : request'[x] # None =>
        /\ stage[request'[x].daemon] # "down"
        /\ request'[x].at = "backlog" => stage[request'[x].daemon] = "serving"
  BY <1>1, <1>2, <1>3, <1>5 DEF TypeOK
<1>8. \A x \in Client : client'[x] \in Connection => request'[client'[x]] # None
  BY <1>1, <1>2, <1>4 DEF TypeOK
<1> QED BY <1>2, <1>6, <1>7, <1>8 DEF TypeOK, daemons

LEMMA ClientTypes ==
  ASSUME TypeOK, NEW c \in Client, Refused(c) \/ TimesOut(c) \/ NextCommand(c)
  PROVE  TypeOK'
BY ConnectionAssumption DEF Refused, TimesOut, NextCommand, TypeOK, Outcome, daemons

LEMMA AdvanceResult ==
  ASSUME TypeOK, NEW k \in Connection, NEW from, NEW to \in {"handler", "reply"},
         Advance(k, from, to)
  PROVE  /\ request' \in [Connection -> Requests \cup {None}]
         /\ request[k] \in Requests /\ request[k].at = from
         /\ request'[k] = [daemon |-> request[k].daemon, blank |-> request[k].blank, at |-> to]
         /\ \A x \in Connection \ {k} : request'[x] = request[x]
         /\ \A x \in Connection : request[x] # None => request'[x] # None
<1>1. request[k] \in Requests /\ request[k].at = from
  BY DEF Advance, TypeOK
<1>2. [request[k] EXCEPT !.at = to] = [daemon |-> request[k].daemon, blank |-> request[k].blank, at |-> to]
  BY <1>1 DEF Requests
<1>3. [daemon |-> request[k].daemon, blank |-> request[k].blank, at |-> to] \in Requests
  BY <1>1 DEF Requests
<1>4. request' = [request EXCEPT ![k] = [request[k] EXCEPT !.at = to]]
  BY DEF Advance
<1> QED BY <1>1, <1>2, <1>3, <1>4, NobodyAssumption DEF TypeOK

LEMMA AdvanceTypes ==
  ASSUME TypeOK, NEW k \in Connection, NEW from, NEW to \in {"handler", "reply"},
         Advance(k, from, to), UNCHANGED <<client, blank, daemons>>,
         effect' \in [Client -> Effect]
  PROVE  TypeOK'
<1>0. /\ request' \in [Connection -> Requests \cup {None}]
      /\ request[k] \in Requests
      /\ request'[k] = [daemon |-> request[k].daemon, blank |-> request[k].blank, at |-> to]
      /\ \A x \in Connection \ {k} : request'[x] = request[x]
      /\ \A x \in Connection : request[x] # None => request'[x] # None
  BY AdvanceResult
<1>1. \A x \in Connection : request'[x] # None =>
        /\ stage[request'[x].daemon] # "down"
        /\ request'[x].at = "backlog" => stage[request'[x].daemon] = "serving"
  <2> SUFFICES ASSUME NEW x \in Connection, request'[x] # None
               PROVE  /\ stage[request'[x].daemon] # "down"
                      /\ request'[x].at = "backlog" => stage[request'[x].daemon] = "serving"
    OBVIOUS
  <2>1. CASE x = k
    <3>1. request'[x].daemon = request[k].daemon /\ request'[x].at # "backlog"
      BY <1>0, <2>1
    <3>2. request[k] # None
      BY <1>0, NobodyAssumption
    <3> QED BY <3>1, <3>2 DEF TypeOK
  <2>2. CASE x # k
    <3>1. request'[x] = request[x]
      BY <1>0, <2>2
    <3> QED BY <3>1 DEF TypeOK
  <2> QED BY <2>1, <2>2
<1> QED BY <1>0, <1>1 DEF TypeOK, daemons

LEMMA HandledTypes ==
  ASSUME TypeOK, NEW k, NEW how \in Effect, Handled(k, how)
  PROVE  effect' \in [Client -> Effect]
BY DEF Handled, TypeOK

LEMMA ReplyTypes == ASSUME TypeOK, NEW k \in Connection, Reply(k) PROVE TypeOK'
BY ConnectionAssumption DEF Reply, TypeOK, Outcome, daemons

LEMMA HandlerTypes == ASSUME TypeOK, NEW k \in Connection, Handler(k) PROVE TypeOK'
<1>1. CASE Accept(k)
  BY <1>1, AdvanceTypes DEF Accept, TypeOK
<1>2. CASE Reject(k)
  BY <1>2, AdvanceTypes, HandledTypes DEF Reject, Effect
<1>3. CASE Enqueue(k)
  BY <1>3, AdvanceTypes, HandledTypes DEF Enqueue, Effect
<1>4. CASE EnqueueFails(k)
  BY <1>4, AdvanceTypes, HandledTypes DEF EnqueueFails, Effect
<1>5. CASE Reply(k)
  BY <1>5, ReplyTypes
<1> QED BY <1>1, <1>2, <1>3, <1>4, <1>5 DEF Handler, HandleEnqueue

LEMMA NextTypes == ASSUME TypeOK, Next PROVE TypeOK'
<1>1. ASSUME NEW d \in Process, Exit(d) \/ Die(d) PROVE TypeOK'
  BY <1>1, VanishTypes DEF Exit, Die
<1>2. ASSUME NEW d \in Process, Start(d) \/ HttpServer(d) \/ Stop(d) \/ CloseStore(d) PROVE TypeOK'
  BY <1>2, StartTypes, HttpServerTypes, StopTypes, CloseStoreTypes
<1>3. ASSUME NEW c \in Client, Connect(c) \/ Refused(c) \/ TimesOut(c) \/ NextCommand(c) PROVE TypeOK'
  BY <1>3, ConnectTypes, ClientTypes
<1>4. ASSUME NEW k \in Connection, Handler(k) PROVE TypeOK'
  BY <1>4, HandlerTypes
<1> QED BY <1>1, <1>2, <1>3, <1>4 DEF Next

(* Connections lead to processes that live, those in a backlog to daemons   *)
(* that listen, and clients wait on connections that are there.             *)
THEOREM TypesHold == Spec => []TypeOK
<1>1. Init => TypeOK
  <2> SUFFICES ASSUME Init PROVE TypeOK
    OBVIOUS
  <2>1. /\ socket \in Process \cup {None}
        /\ stage \in [Process -> Stage]
        /\ store \in [Process -> BOOLEAN]
        /\ request \in [Connection -> Requests \cup {None}]
        /\ client \in [Client -> Connection \cup Outcome]
        /\ blank \in [Client -> BOOLEAN]
        /\ effect \in [Client -> Effect]
    BY DEF Init, Stage, Outcome, Effect
  <2>2. starts \in 0..MaxStarts
    BY StartsAssumption DEF Init
  <2>3. \A k \in Connection : request[k] = None
    BY DEF Init
  <2>4. \A c \in Client : client[c] \notin Connection
    BY ConnectionAssumption DEF Init, Outcome
  <2>5. crowded \in BOOLEAN
    BY Zenon DEF Init
  <2> QED BY <2>1, <2>2, <2>3, <2>4, <2>5 DEF TypeOK
<1>2. TypeOK /\ [Next]_vars => TypeOK'
  <2>1. TypeOK /\ UNCHANGED vars => TypeOK'
    BY DEF TypeOK, vars, daemons, clients
  <2> QED BY <2>1, NextTypes
<1> QED BY <1>1, <1>2, PTL DEF Spec
-----------------------------------------------------------------------------
(***************************************************************************)
(* The socket file.                                                        *)
(***************************************************************************)
SocketStep == Alone' /\ ServingIsReachable'

(* The first daemon after all others returned from httpServer is alone.     *)
LEMMA StartAlone == ASSUME SocketInv, NEW d \in Process, Start(d) PROVE SocketStep
<1>1. stage \in [Process -> Stage] /\ stage' = [stage EXCEPT ![d] = "starting"]
  BY DEF SocketInv, TypeOK, Start, Go
<1>2. ~crowded' => \A e \in Process : ~HasFileToRemove(e)
  BY DEF Start
<1> QED BY <1>1, <1>2 DEF SocketStep, Alone, ServingIsReachable, HasFileToRemove

(* Whoever removes a file that was there, by its name, is alone, and whoever *)
(* makes one is the only one that serves.                                   *)
LEMMA HttpServerAlone ==
  ASSUME SocketInv, NEW d \in Process, HttpServer(d) PROVE SocketStep
<1> USE DEF SocketInv, SocketStep, Alone, ServingIsReachable, HasFileToRemove, TypeOK
<1>1. CASE RemoveStale(d)
  BY <1>1 DEF RemoveStale, Go
<1>2. CASE Listen(d)
  BY <1>2 DEF Listen, Go
<1>3. CASE ListenFails(d)
  BY <1>3 DEF ListenFails, Go
<1>4. CASE DeferredRemove(d)
  BY <1>4 DEF DeferredRemove, Go
<1> QED BY <1>1, <1>2, <1>3, <1>4 DEF HttpServer

LEMMA EndAlone ==
  ASSUME SocketInv, NEW d \in Process, Stop(d) \/ CloseStore(d) \/ Vanish(d)
  PROVE  SocketStep
<1> USE DEF SocketInv, SocketStep, Alone, ServingIsReachable, HasFileToRemove, TypeOK
<1>1. CASE Stop(d)
  BY <1>1 DEF Stop, Go
<1>2. CASE CloseStore(d)
  BY <1>2 DEF CloseStore
<1>3. CASE Vanish(d)
  BY <1>3 DEF Vanish
<1> QED BY <1>1, <1>2, <1>3

(* Clients and handlers touch neither the file nor a daemon.                *)
LEMMA OthersLeaveDaemons ==
  /\ \A c \in Client :
       Connect(c) \/ Refused(c) \/ TimesOut(c) \/ NextCommand(c) => UNCHANGED daemons
  /\ \A k \in Connection : Handler(k) => UNCHANGED daemons
BY DEF Connect, Refused, TimesOut, NextCommand, Handler, Accept, HandleEnqueue, Reject, Enqueue,
   EnqueueFails, Reply

LEMMA UnchangedAlone == ASSUME SocketInv, UNCHANGED daemons PROVE SocketStep
BY DEF SocketInv, SocketStep, Alone, ServingIsReachable, HasFileToRemove, daemons

(* A daemon that serves can be reached, unless the newest was started next  *)
(* to one that had not returned from httpServer (ServingIsReachable).       *)
THEOREM SocketHolds == Spec => []ServingIsReachable
<1>1. Init => Alone /\ ServingIsReachable
  BY DEF Init, Alone, ServingIsReachable, HasFileToRemove
<1>2. SocketInv /\ [Next]_vars => SocketStep
  <2> SUFFICES ASSUME SocketInv, [Next]_vars PROVE SocketStep
    OBVIOUS
  <2>1. ASSUME NEW d \in Process,
               Start(d) \/ HttpServer(d) \/ Stop(d) \/ CloseStore(d) \/ Exit(d) \/ Die(d)
        PROVE  SocketStep
    BY <2>1, StartAlone, HttpServerAlone, EndAlone DEF Exit, Die
  <2>2. CASE UNCHANGED daemons
    BY <2>2, UnchangedAlone
  <2>3. UNCHANGED vars => UNCHANGED daemons
    BY DEF vars
  <2> QED BY <2>1, <2>2, <2>3, OthersLeaveDaemons DEF Next
<1> QED BY <1>1, <1>2, TypesHold, PTL DEF Spec, SocketInv, SocketStep
-----------------------------------------------------------------------------
(***************************************************************************)
(* Exit code 0.                                                            *)
(***************************************************************************)
ClientStep == AnswersAreHandled' /\ ExitZeroIsHandled'

LEMMA UnchangedHandled == ASSUME ClientInv, UNCHANGED clients PROVE ClientStep
BY DEF ClientInv, ClientStep, AnswersAreHandled, ExitZeroIsHandled, Settled, clients

(* A client whose connection is cut gets no exit code 0.                    *)
LEMMA ResetHandled ==
  ASSUME ClientInv, NEW ks \in SUBSET Connection, Reset(ks), blank' = blank, effect' = effect
  PROVE  ClientStep
<1>1. /\ \A c \in Client :
           client'[c] \in Connection =>
             /\ client'[c] = client[c]
             /\ request'[client[c]] = request[client[c]]
      /\ \A c \in Client : client'[c] = "exit 0" => client[c] = "exit 0"
  BY ResetResult DEF ClientInv
<1>2. ASSUME NEW c \in Client
      PROVE  /\ client'[c] \in Connection =>
                  /\ request'[client'[c]].blank = blank'[c]
                  /\ request'[client'[c]].at = "reply" => Settled(c)'
             /\ client'[c] = "exit 0" => Settled(c)'
  <2>1. Settled(c)' <=> Settled(c)
    BY DEF Settled
  <2>2. blank'[c] = blank[c]
    OBVIOUS
  <2> QED BY <1>1, <2>1, <2>2 DEF ClientInv, AnswersAreHandled, ExitZeroIsHandled
<1> QED BY <1>2 DEF ClientStep, AnswersAreHandled, ExitZeroIsHandled

LEMMA EndHandled ==
  ASSUME ClientInv, NEW d \in Process, Stop(d) \/ Vanish(d) PROVE ClientStep
<1>1. CASE Stop(d)
  <2>1. InBacklog(d) \in SUBSET Connection
    BY DEF InBacklog, LeadTo
  <2> QED BY <1>1, <2>1, ResetHandled DEF Stop
<1>2. CASE Vanish(d)
  <2>1. LeadTo(d) \in SUBSET Connection
    BY DEF LeadTo
  <2> QED BY <1>2, <2>1, ResetHandled DEF Vanish
<1> QED BY <1>1, <1>2

(* A new command starts with a connection nobody else waits on.             *)
LEMMA ConnectHandled == ASSUME ClientInv, NEW c \in Client, Connect(c) PROVE ClientStep
<1> DEFINE k == CHOOSE x \in Unused : TRUE
<1>0. PICK b \in BOOLEAN :
        /\ request' = [request EXCEPT ![k] = [daemon |-> socket, blank |-> b, at |-> "backlog"]]
        /\ client' = [client EXCEPT ![c] = k]
        /\ blank' = [blank EXCEPT ![c] = b]
  BY DEF Connect
<1> DEFINE new == [daemon |-> socket, blank |-> b, at |-> "backlog"]
<1>1. k \in Connection /\ request[k] = None
  BY DEF Connect, Unused
<1>2. /\ request' = [request EXCEPT ![k] = new]
      /\ client' = [client EXCEPT ![c] = k]
      /\ blank' = [blank EXCEPT ![c] = b]
      /\ effect' = [effect EXCEPT ![c] = "none"]
  BY <1>0 DEF Connect
<1>3. new.at = "backlog" /\ new.blank = b
  OBVIOUS
<1> HIDE DEF k, new
<1>4. k # "exit 0"
  BY <1>1, ConnectionAssumption DEF Outcome
<1>5. ASSUME NEW x \in Client
      PROVE  /\ client'[x] \in Connection =>
                  /\ request'[client'[x]].blank = blank'[x]
                  /\ request'[client'[x]].at = "reply" => Settled(x)'
             /\ client'[x] = "exit 0" => Settled(x)'
  <2>1. CASE x = c
    BY <1>1, <1>2, <1>3, <1>4, <2>1 DEF ClientInv, TypeOK
  <2>2. CASE x # c
    <3>1. client'[x] = client[x] /\ blank'[x] = blank[x] /\ effect'[x] = effect[x]
      BY <1>2, <2>2 DEF ClientInv, TypeOK
    <3>2. client[x] \in Connection => request'[client[x]] = request[client[x]]
      BY <1>1, <1>2 DEF ClientInv, TypeOK
    <3> QED BY <3>1, <3>2 DEF ClientInv, AnswersAreHandled, ExitZeroIsHandled, Settled
  <2> QED BY <2>1, <2>2
<1> QED BY <1>5 DEF ClientStep, AnswersAreHandled, ExitZeroIsHandled

LEMMA ClientHandled ==
  ASSUME ClientInv, NEW c \in Client, Refused(c) \/ TimesOut(c) \/ NextCommand(c)
  PROVE  ClientStep
<1>1. /\ request' = request /\ blank' = blank /\ effect' = effect
      /\ \A x \in Client : client'[x] = client[x] \/ client'[x] \in {"idle", "exit 1"}
  BY DEF Refused, TimesOut, NextCommand, ClientInv, TypeOK
<1>2. ASSUME NEW x \in Client
      PROVE  /\ client'[x] \in Connection =>
                  /\ request'[client'[x]].blank = blank'[x]
                  /\ request'[client'[x]].at = "reply" => Settled(x)'
             /\ client'[x] = "exit 0" => Settled(x)'
  <2>1. Settled(x)' <=> Settled(x)
    BY <1>1 DEF Settled
  <2>2. blank'[x] = blank[x]
    BY <1>1
  <2>3. client'[x] \notin Connection \cup {"exit 0"} \/ client'[x] = client[x]
    BY <1>1, ConnectionAssumption DEF Outcome
  <2> QED BY <1>1, <2>1, <2>2, <2>3 DEF ClientInv, AnswersAreHandled, ExitZeroIsHandled
<1> QED BY <1>2 DEF ClientStep, AnswersAreHandled, ExitZeroIsHandled

LEMMA AcceptHandled ==
  ASSUME ClientInv, NEW k \in Connection, Accept(k) PROVE ClientStep
<1>1. /\ Advance(k, "backlog", "handler")
      /\ client' = client /\ blank' = blank /\ effect' = effect
  BY DEF Accept
<1>2. /\ request'[k] = [daemon |-> request[k].daemon, blank |-> request[k].blank, at |-> "handler"]
      /\ \A x \in Connection \ {k} : request'[x] = request[x]
  BY <1>1, AdvanceResult DEF ClientInv
<1>3. request'[k].at # "reply" /\ request'[k].blank = request[k].blank
  BY <1>2
<1> QED BY <1>1, <1>2, <1>3
      DEF ClientInv, ClientStep, AnswersAreHandled, ExitZeroIsHandled, Settled

(* The handler leaves its mark with whoever still waits for it; it rejects  *)
(* what is blank, and only that if somebody waits.                          *)
LEMMA HandlerHandled ==
  ASSUME ClientInv, NEW k \in Connection, HandleEnqueue(k) PROVE ClientStep
<1>1. PICK how \in Effect :
        /\ Advance(k, "handler", "reply") /\ Handled(k, how)
        /\ client' = client /\ blank' = blank
        /\ \A c \in Client : client[c] = k =>
             how \in (IF request[k].blank THEN {"rejected"} ELSE {"stored", "failed"})
  BY DEF HandleEnqueue, Reject, Enqueue, EnqueueFails, Awaited, Effect
<1>2. /\ request'[k] = [daemon |-> request[k].daemon, blank |-> request[k].blank, at |-> "reply"]
      /\ \A x \in Connection \ {k} : request'[x] = request[x]
  BY <1>1, AdvanceResult DEF ClientInv
<1>3. request'[k].blank = request[k].blank
  BY <1>2
<1>4. \A c \in Client : effect'[c] = IF client[c] = k THEN how ELSE effect[c]
  BY <1>1 DEF Handled
<1>5. ASSUME NEW c \in Client
      PROVE  /\ client'[c] \in Connection =>
                  /\ request'[client'[c]].blank = blank'[c]
                  /\ request'[client'[c]].at = "reply" => Settled(c)'
             /\ client'[c] = "exit 0" => Settled(c)'
  <2>1. CASE client[c] = k
    <3>1. request[k].blank = blank[c]
      BY <2>1 DEF ClientInv, AnswersAreHandled
    <3>2. Settled(c)'
      BY <1>1, <1>4, <2>1, <3>1 DEF Settled
    <3> QED BY <1>1, <1>3, <2>1, <3>1, <3>2
  <2>2. CASE client[c] # k
    <3>1. effect'[c] = effect[c] /\ client'[c] = client[c] /\ blank'[c] = blank[c]
      BY <1>1, <1>4, <2>2
    <3>2. client[c] \in Connection => request'[client[c]] = request[client[c]]
      BY <1>2, <2>2
    <3> QED BY <3>1, <3>2 DEF ClientInv, AnswersAreHandled, ExitZeroIsHandled, Settled
  <2> QED BY <2>1, <2>2
<1> QED BY <1>5 DEF ClientStep, AnswersAreHandled, ExitZeroIsHandled

LEMMA ReplyHandled == ASSUME ClientInv, NEW k \in Connection, Reply(k) PROVE ClientStep
<1>1. /\ request[k].at = "reply" /\ request' = [request EXCEPT ![k] = None]
      /\ blank' = blank /\ effect' = effect
      /\ \A c \in Client : client'[c] = IF client[c] = k THEN "exit 0" ELSE client[c]
  BY DEF Reply, Answerable
<1>2. \A x \in Connection \ {k} : request'[x] = request[x]
  BY <1>1 DEF ClientInv, TypeOK
<1>3. ASSUME NEW c \in Client
      PROVE  /\ client'[c] \in Connection =>
                  /\ request'[client'[c]].blank = blank'[c]
                  /\ request'[client'[c]].at = "reply" => Settled(c)'
             /\ client'[c] = "exit 0" => Settled(c)'
  <2>1. CASE client[c] = k
    <3>1. Settled(c) /\ "exit 0" \notin Connection
      BY <1>1, <2>1, ConnectionAssumption DEF ClientInv, AnswersAreHandled, Outcome
    <3> QED BY <1>1, <2>1, <3>1 DEF Settled
  <2>2. CASE client[c] # k
    <3>1. client'[c] = client[c] /\ blank'[c] = blank[c] /\ effect'[c] = effect[c]
      BY <1>1, <2>2
    <3>2. client[c] \in Connection => request'[client[c]] = request[client[c]]
      BY <1>2, <2>2
    <3> QED BY <3>1, <3>2 DEF ClientInv, AnswersAreHandled, ExitZeroIsHandled, Settled
  <2> QED BY <2>1, <2>2
<1> QED BY <1>3 DEF ClientStep, AnswersAreHandled, ExitZeroIsHandled

(* Exit code 0 means that Enqueue was called for this command and is over,  *)
(* or, if the path of the command is blank, that the handler rejected it    *)
(* without calling Enqueue (ExitZeroIsHandled).                             *)
THEOREM ExitZeroHolds == Spec => []ExitZeroIsHandled
<1>1. Init => AnswersAreHandled /\ ExitZeroIsHandled
  BY ConnectionAssumption DEF Init, AnswersAreHandled, ExitZeroIsHandled, Outcome
<1>2. ClientInv /\ [Next]_vars => ClientStep
  <2> SUFFICES ASSUME ClientInv, [Next]_vars PROVE ClientStep
    OBVIOUS
  <2>1. ASSUME NEW d \in Process, Start(d) \/ HttpServer(d) \/ CloseStore(d)
        PROVE  ClientStep
    <3>1. UNCHANGED clients
      BY <2>1 DEF Start, HttpServer, RemoveStale, Listen, ListenFails, DeferredRemove, CloseStore
    <3> QED BY <3>1, UnchangedHandled
  <2>2. ASSUME NEW d \in Process, Stop(d) \/ Exit(d) \/ Die(d) PROVE ClientStep
    BY <2>2, EndHandled DEF Exit, Die
  <2>3. ASSUME NEW c \in Client, Connect(c) \/ Refused(c) \/ TimesOut(c) \/ NextCommand(c)
        PROVE  ClientStep
    BY <2>3, ConnectHandled, ClientHandled
  <2>4. ASSUME NEW k \in Connection, Handler(k) PROVE ClientStep
    BY <2>4, AcceptHandled, HandlerHandled, ReplyHandled DEF Handler
  <2>5. CASE UNCHANGED vars
    BY <2>5, UnchangedHandled DEF vars
  <2> QED BY <2>1, <2>2, <2>3, <2>4, <2>5 DEF Next
<1> QED BY <1>1, <1>2, TypesHold, PTL DEF Spec, ClientInv, ClientStep
=============================================================================
