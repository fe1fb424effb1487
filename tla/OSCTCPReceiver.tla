---------------------------- MODULE OSCTCPReceiver ----------------------------
(***************************************************************************)
(* The TCP server of control/osc/OSCTCPReceiver: the owner's connect() and *)
(* disconnect() and its destruction, the accept thread (run) and one       *)
(* thread per accepted client (ClientHandler::run).  A connection is a     *)
(* model value used once: a peer that comes back is another connection.    *)
(* What a client sends is a complete packet or nothing; the framing is     *)
(* left out, and so is the kill with which stopThread(2000) gives up on a  *)
(* thread.                                                                 *)
(***************************************************************************)
EXTENDS Naturals, FiniteSets

CONSTANTS
    Conns,        \* connections the peers may open
    NoConn,       \* no accepted connection in hand
    MaxClients    \* maxClients: 16 in the code

ASSUME ReceiverAssumption ==
    /\ NoConn \notin Conns
    /\ MaxClients \in Nat \ {0}

VARIABLES
    connected,    \* connected
    shouldStop,   \* shouldStop of the receiver
    listening,    \* serverSocket is open
    owner,        \* where the thread that owns the receiver stands
    destroying,   \* ... and whether it is in the destructor
    accept,       \* the accept thread: [pc, conn] with the connection in hand
    clients,      \* the handlers in `clients`
    handler,      \* Conns -> [thread, stop, active] of its ClientHandler
    peer          \* Conns -> what the other end sees of its connection

rvars == <<connected, shouldStop, listening, owner, destroying, accept, clients,
           handler, peer>>

NoHandler == [thread |-> "none", stop |-> FALSE, active |-> FALSE]
NewHandler == [thread |-> "loop", stop |-> FALSE, active |-> TRUE]
Accepting(at) == accept.pc = at
Alive(c) == handler[c].thread \in {"loop", "push", "leave"}

ReceiverInit ==
    /\ connected = FALSE
    /\ shouldStop = FALSE
    /\ listening = FALSE
    /\ owner = "idle"
    /\ destroying = FALSE
    /\ accept = [pc |-> "none", conn |-> NoConn]
    /\ clients = {}
    /\ handler = [c \in Conns |-> NoHandler]
    /\ peer = [c \in Conns |-> "idle"]

-------------------------------------------------------------------------------
(* The other ends *)

PeerConnect(c) ==
    /\ listening /\ peer[c] = "idle"
    /\ peer' = [peer EXCEPT ![c] = "waiting"]
    /\ UNCHANGED <<connected, shouldStop, listening, owner, destroying, accept,
                   clients, handler>>

PeerClose(c) ==
    /\ peer[c] = "open"
    /\ peer' = [peer EXCEPT ![c] = "closed"]
    /\ UNCHANGED <<connected, shouldStop, listening, owner, destroying, accept,
                   clients, handler>>

-------------------------------------------------------------------------------
(* The owner.  connect() on a connected receiver calls disconnect() first: *)
(* that is Disconnect followed by Connect.                                 *)

Connect ==
    /\ owner = "idle" /\ ~connected
    /\ shouldStop' = FALSE
    /\ listening' = TRUE
    /\ connected' = TRUE
    /\ accept' = [accept EXCEPT !.pc = "test"]
    /\ UNCHANGED <<owner, destroying, clients, handler, peer>>

Disconnect ==
    /\ owner = "idle" /\ connected
    /\ shouldStop' = TRUE
    /\ owner' = "close"
    /\ UNCHANGED <<connected, listening, destroying, accept, clients, handler,
                   peer>>

\* The destructor calls disconnect(), which returns at once when no server runs.
Destroy ==
    /\ owner = "idle"
    /\ destroying' = TRUE
    /\ shouldStop' = (shouldStop \/ connected)
    /\ owner' = IF connected THEN "close" ELSE "members"
    /\ UNCHANGED <<connected, listening, accept, clients, handler, peer>>

\* serverSocket->close(): connections nobody accepted yet are refused.
CloseListener ==
    /\ owner = "close"
    /\ listening' = FALSE
    /\ peer' = [c \in Conns |-> IF peer[c] = "waiting" THEN "closed" ELSE peer[c]]
    /\ owner' = "stopClients"
    /\ UNCHANGED <<connected, shouldStop, destroying, accept, clients, handler>>

\* clientsLock is held from here to StoppedClients.
StopClients ==
    /\ owner = "stopClients"
    /\ owner' = "awaitClients"
    /\ UNCHANGED <<connected, shouldStop, listening, destroying, accept, clients,
                   handler, peer>>

\* client->stop() raises the flag, closes the socket and waits for the thread,
\* one client after another (in any order here, in that of the vector there).
StopClient(c) ==
    /\ owner \in {"awaitClients", "lateClients"}
    /\ c \in clients /\ ~handler[c].stop
    /\ \A d \in clients : handler[d].stop => ~Alive(d)
    /\ handler' = [handler EXCEPT ![c].stop = TRUE]
    /\ peer' = [peer EXCEPT ![c] = "closed"]
    /\ UNCHANGED <<connected, shouldStop, listening, owner, destroying, accept,
                   clients>>

\* Mutant: the list is cleared while the handlers it held still run.
StoppedClientsAtOnce ==
    /\ owner \in {"awaitClients", "lateClients"}
    /\ clients' = {}
    /\ owner' = IF owner = "awaitClients" THEN "join" ELSE "gone"
    /\ UNCHANGED <<connected, shouldStop, listening, destroying, accept, handler,
                   peer>>

\* clients.clear(), or the end of the vector's own destructor.
StoppedClients ==
    /\ owner \in {"awaitClients", "lateClients"}
    /\ \A c \in clients : handler[c].stop /\ ~Alive(c)
    /\ handler' = [c \in Conns |-> IF c \in clients THEN NoHandler ELSE handler[c]]
    /\ clients' = {}
    /\ owner' = IF owner = "awaitClients" THEN "join" ELSE "gone"
    /\ UNCHANGED <<connected, shouldStop, listening, destroying, accept, peer>>

\* stopThread(2000) of the accept thread, then serverSocket.reset().
Disconnected ==
    /\ owner = "join" /\ Accepting("none")
    /\ connected' = FALSE
    /\ owner' = IF destroying THEN "members" ELSE "idle"
    /\ UNCHANGED <<shouldStop, listening, destroying, accept, clients, handler,
                   peer>>

\* The members go in the reverse of their order: rawDataCallback, the listeners
\* and clientsLock first, then `clients`, whose handlers stop as they go.
DestroyMembers ==
    /\ owner = "members"
    /\ owner' = "lateClients"
    /\ UNCHANGED <<connected, shouldStop, listening, destroying, accept, clients,
                   handler, peer>>

ClientsLockFree == owner # "awaitClients"

-------------------------------------------------------------------------------
(* The accept thread *)

AcceptTest ==
    /\ Accepting("test")
    /\ accept' = [accept EXCEPT !.pc = IF shouldStop THEN "none" ELSE "reclaim"]
    /\ UNCHANGED <<connected, shouldStop, listening, owner, destroying, clients,
                   handler, peer>>

\* removeInactiveClients(): the handlers that ended are destroyed, and their
\* destructor stops a thread that is already past its loop.
RemoveInactiveClients ==
    LET gone == {c \in clients : ~handler[c].active} IN
    /\ Accepting("reclaim") /\ ClientsLockFree
    /\ \A c \in gone : ~Alive(c)
    /\ clients' = clients \ gone
    /\ handler' = [c \in Conns |-> IF c \in gone THEN NoHandler ELSE handler[c]]
    /\ peer' = [c \in Conns |-> IF c \in gone THEN "closed" ELSE peer[c]]
    /\ accept' = [accept EXCEPT !.pc = "wait"]
    /\ UNCHANGED <<connected, shouldStop, listening, owner, destroying>>

\* waitUntilReady() ran into its 100 ms, or the socket was closed under it.
WaitAgain ==
    /\ Accepting("wait")
    /\ accept' = [accept EXCEPT !.pc = "test"]
    /\ UNCHANGED <<connected, shouldStop, listening, owner, destroying, clients,
                   handler, peer>>

AcceptConnection(c) ==
    /\ Accepting("wait")
    /\ listening /\ peer[c] = "waiting"
    /\ peer' = [peer EXCEPT ![c] = "open"]
    /\ accept' = [pc |-> "limit", conn |-> c]
    /\ UNCHANGED <<connected, shouldStop, listening, owner, destroying, clients,
                   handler>>

CheckLimit ==
    /\ Accepting("limit") /\ ClientsLockFree
    /\ IF Cardinality(clients) >= MaxClients
       THEN /\ accept' = [pc |-> "test", conn |-> NoConn]
            /\ peer' = [peer EXCEPT ![accept.conn] = "closed"]
       ELSE /\ accept' = [accept EXCEPT !.pc = "start"]
            /\ UNCHANGED peer
    /\ UNCHANGED <<connected, shouldStop, listening, owner, destroying, clients,
                   handler>>

StartHandler ==
    /\ Accepting("start")
    /\ handler' = [handler EXCEPT ![accept.conn] = NewHandler]
    /\ accept' = [accept EXCEPT !.pc = "add"]
    /\ UNCHANGED <<connected, shouldStop, listening, owner, destroying, clients,
                   peer>>

AddClient ==
    /\ Accepting("add") /\ ClientsLockFree
    /\ clients' = clients \cup {accept.conn}
    /\ accept' = [pc |-> "test", conn |-> NoConn]
    /\ UNCHANGED <<connected, shouldStop, listening, owner, destroying, handler,
                   peer>>

-------------------------------------------------------------------------------
(* A client thread.  HandlerPush hands the packet to rawDataCallback; in      *)
(* "lateClients" that is a call of a dead object, and may do anything.       *)

HandlerAt(c, at) == handler[c].thread = at

HandlerRead(c) ==
    /\ HandlerAt(c, "loop")
    /\ ~handler[c].stop /\ peer[c] = "open"
    /\ handler' = [handler EXCEPT ![c].thread = "push"]
    /\ UNCHANGED <<connected, shouldStop, listening, owner, destroying, accept,
                   clients, peer>>

HandlerPush(c) ==
    /\ HandlerAt(c, "push")
    /\ handler' = [handler EXCEPT ![c].thread = "loop"]
    /\ UNCHANGED <<connected, shouldStop, listening, owner, destroying, accept,
                   clients, peer>>

\* Mutant: a socket that is readable and gives no bytes is read again and
\* again, so only stop() ends the loop.
HandlerLeaveOnStop(c) ==
    /\ HandlerAt(c, "loop")
    /\ handler[c].stop
    /\ handler' = [handler EXCEPT ![c].thread = "leave"]
    /\ UNCHANGED <<connected, shouldStop, listening, owner, destroying, accept,
                   clients, peer>>

\* The loop test, a failed wait, or readExactly() on a socket the other end
\* has closed.
HandlerLeave(c) ==
    /\ HandlerAt(c, "loop")
    /\ handler[c].stop \/ peer[c] = "closed"
    /\ handler' = [handler EXCEPT ![c].thread = "leave"]
    /\ UNCHANGED <<connected, shouldStop, listening, owner, destroying, accept,
                   clients, peer>>

HandlerEnd(c) ==
    /\ HandlerAt(c, "leave")
    /\ handler' = [handler EXCEPT ![c].thread = "ended", ![c].active = FALSE]
    /\ UNCHANGED <<connected, shouldStop, listening, owner, destroying, accept,
                   clients, peer>>

-------------------------------------------------------------------------------
OwnerStep ==
    \/ Connect \/ Disconnect \/ Destroy \/ CloseListener \/ StopClients
    \/ \E c \in Conns : StopClient(c)
    \/ StoppedClients \/ Disconnected \/ DestroyMembers

AcceptStep ==
    \/ AcceptTest \/ RemoveInactiveClients \/ WaitAgain
    \/ \E c \in Conns : AcceptConnection(c)
    \/ CheckLimit \/ StartHandler \/ AddClient

PeerStep == \E c \in Conns : PeerConnect(c) \/ PeerClose(c)

HandlerStep(c) == HandlerRead(c) \/ HandlerLeave(c) \/ HandlerEnd(c)

ReceiverTypeOK ==
    /\ connected \in BOOLEAN /\ shouldStop \in BOOLEAN /\ listening \in BOOLEAN
    /\ owner \in {"idle", "close", "stopClients", "awaitClients", "join", "members",
                  "lateClients", "gone"}
    /\ destroying \in BOOLEAN
    /\ accept \in [pc : {"none", "test", "reclaim", "wait", "limit", "start", "add"},
                   conn : Conns \cup {NoConn}]
    /\ clients \subseteq Conns /\ Cardinality(clients) <= MaxClients
    /\ handler \in [Conns -> [thread : {"none", "loop", "push", "leave", "ended"},
                              stop : BOOLEAN, active : BOOLEAN]]
    /\ peer \in [Conns -> {"idle", "waiting", "open", "closed"}]
===============================================================================
