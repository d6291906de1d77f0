--------------------------------- MODULE PBX ---------------------------------
(***************************************************************************)
(* The PBX server of hw5: the telephone units and their operations         *)
(* (pbx.c), the client service threads (server.c), the accept loop and the *)
(* SIGHUP handler (main.c).  A connection's descriptor is the index of its *)
(* unit and its extension number, so Ext names all three; the service      *)
(* thread of a connection is named by it too.                              *)
(*                                                                         *)
(* Every function of pbx.c is P(&mutex), a body, V(&mutex).  Enter(f) is   *)
(* the P and the body with its V is one step: nobody else reads what the   *)
(* body writes before the V, and a handler that interrupts the body is a   *)
(* step between the two.  A write() to a client that does not read waits   *)
(* inside the body until the socket has room: then the step is not enabled.*)
(***************************************************************************)
EXTENDS Naturals, Sequences, FiniteSets

CONSTANTS
  Ext,        \* the descriptors a connection can get, all of them dialable numbers
  Main,       \* the main thread
  None,       \* -1: no extension, no connection, no number
  Capacity,   \* messages a connection holds before write() blocks
  MaxHups     \* SIGHUPs delivered, at most

ASSUME PBXAssumption ==
  /\ Main \notin Ext
  /\ None \notin Ext
  /\ Capacity \in Nat \ {0}
  /\ MaxHups \in Nat

VARIABLES
  state,      \* tu->state
  extension,  \* tu->extensionNumber
  connected,  \* tu->connectedNumber
  mutex,      \* the value of the semaphore
  pc,         \* where the service thread of a connection is
  cmd,        \* the pbx.c call it has yet to finish
  link,       \* the client's end of the connection
  wire,       \* messages written to the client and not read by it
  told,       \* the last state notification written to the client
  process,    \* "running", or how the server ended
  hup,        \* the SIGHUP handler, on the thread that runs it
  freed       \* pbx_shutdown has freed the PBX

tuVars   == <<state, extension, connected>>
lockVars == <<mutex, pc, cmd>>
netVars  == <<link, wire, told>>
sigVars  == <<hup, freed>>
vars     == <<tuVars, lockVars, netVars, sigVars, process>>

TuState == {"ON_HOOK", "RINGING", "DIAL_TONE", "RING_BACK", "BUSY_SIGNAL", "CONNECTED", "ERROR"}

Thread == Ext \cup {Main}

\* A state notification prints a number only for ON HOOK and CONNECTED.
Note(to, kind, num) ==
  [to |-> to, kind |-> kind, num |-> IF kind \in {"ON_HOOK", "CONNECTED"} THEN num ELSE None]

ChatLine(to) == [to |-> to, kind |-> "CHAT", num |-> None]

Message == [to : Ext, kind : TuState \cup {"CHAT"}, num : Ext \cup {None}]

Call(op, arg) == [op |-> op, arg |-> arg]

NoCall == Call("none", None)

\* What pbx_client_service makes of a line: "skip" is a line it recognises as
\* no command, or a dial outside 1..1023: it calls nothing.
ClientCall ==
  {Call(op, None) : op \in {"pickup", "hangup", "chat", "skip"}} \cup {Call("dial", e) : e \in Ext}

Init ==
  /\ state = [f \in Ext |-> "NONE"]
  /\ extension = [f \in Ext |-> None]
  /\ connected = [f \in Ext |-> None]
  /\ mutex = 1
  /\ pc = [f \in Ext |-> "closed"]
  /\ cmd = [f \in Ext |-> NoCall]
  /\ link = [f \in Ext |-> "none"]
  /\ wire = [f \in Ext |-> <<>>]
  /\ told = [f \in Ext |-> Note(f, "NONE", None)]
  /\ process = "running"
  /\ hup = [t \in Thread |-> "none"]
  /\ freed = FALSE

-------------------------------------------------------------------------------
(* Threads, the lock, and the writes to the sockets. *)

\* The thread of f can take a step of its own at p: the server runs and the
\* thread is not in the SIGHUP handler, from which nothing returns.
At(f, p) == process = "running" /\ hup[f] = "none" /\ pc[f] = p

\* Mutant of Enter: a call that forgets its P.
EnterUnlocked(f) ==
  /\ At(f, "waiting")
  /\ mutex' = 0
  /\ pc' = [pc EXCEPT ![f] = "inside"]
  /\ UNCHANGED <<tuVars, cmd, netVars, sigVars, process>>

\* P(&mutex), the first statement of every pbx.c call.
Enter(f) ==
  /\ At(f, "waiting")
  /\ mutex = 1
  /\ mutex' = 0
  /\ pc' = [pc EXCEPT ![f] = "inside"]
  /\ UNCHANGED <<tuVars, cmd, netVars, sigVars, process>>

\* The body of call op, by the thread of f, on a PBX that has not been freed.
Inside(f, op) == At(f, "inside") /\ cmd[f].op = op /\ ~freed

\* Mutant of Leave: V before an inner return and again at the end.
LeaveTwice(f, next) ==
  /\ mutex' = mutex + 2
  /\ pc' = [pc EXCEPT ![f] = next]
  /\ cmd' = [cmd EXCEPT ![f] = NoCall]
  /\ UNCHANGED sigVars

\* V(&mutex) and the return to the place next of pbx_client_service.
Leave(f, next) ==
  /\ mutex' = 1
  /\ pc' = [pc EXCEPT ![f] = next]
  /\ cmd' = [cmd EXCEPT ![f] = NoCall]
  /\ UNCHANGED sigVars

\* The write() calls of a body; one to descriptor -1 fails and is ignored.  A
\* connection whose client has gone takes one write; the reset that answers it
\* turns a later one into SIGPIPE, which nothing handles.  A chat is written
\* character by character, so it can meet the reset it provokes.
Write(out) ==
  LET to(f)     == {m \in out : m.to = f}
      notes(f)  == {m \in to(f) : m.kind # "CHAT"}
      broken(f) == \/ link[f] = "reset" /\ to(f) # {}
                   \/ link[f] = "gone" /\ to(f) # notes(f)
  IN /\ \A f \in Ext : to(f) # {} /\ link[f] = "up" => Len(wire[f]) < Capacity
     /\ wire' = [f \in Ext |-> IF to(f) = {} \/ link[f] # "up" THEN wire[f]
                               ELSE Append(wire[f], CHOOSE m \in to(f) : TRUE)]
     /\ told' = [f \in Ext |-> IF notes(f) = {} THEN told[f] ELSE CHOOSE m \in notes(f) : TRUE]
     /\ link' = [f \in Ext |-> IF to(f) # {} /\ link[f] = "gone" THEN "reset" ELSE link[f]]
     /\ process' \in IF \E f \in Ext : broken(f) THEN {"running", "killed"} ELSE {"running"}

-------------------------------------------------------------------------------
(* The operations of pbx.c. *)

Register(f) ==
  /\ Inside(f, "register")
  /\ IF state[f] = "NONE" /\ extension[f] = None /\ connected[f] = None
       THEN /\ state' = [state EXCEPT ![f] = "ON_HOOK"]
            /\ extension' = [extension EXCEPT ![f] = f]
            /\ Write({Note(f, "ON_HOOK", f)})
       ELSE UNCHANGED <<state, extension, netVars, process>>
  /\ UNCHANGED connected
  /\ Leave(f, "reading")

\* Mutant of Released: a caller still waiting goes on hook like the phone it rang.
ReleasedOnHook(s) ==
  CASE s = "CONNECTED"                -> "DIAL_TONE"
    [] s \in {"RINGING", "RING_BACK"} -> "ON_HOOK"
    [] OTHER                          -> s

\* The state of a unit when the other end of its call goes away.
Released(s) ==
  CASE s \in {"CONNECTED", "RING_BACK"} -> "DIAL_TONE"
    [] s = "RINGING"                    -> "ON_HOOK"
    [] OTHER                            -> s

\* Mutant of Disconnect: the other end keeps its connectedNumber.
DisconnectOneEnd(f, s) ==
  /\ state' = [g \in Ext |-> IF g = f THEN s
                             ELSE IF g = connected[f] THEN Released(state[g]) ELSE state[g]]
  /\ connected' = [connected EXCEPT ![f] = None]

\* f goes to state s and the unit it is connected to, if any, is released.
Disconnect(f, s) ==
  /\ state' = [g \in Ext |-> IF g = f THEN s
                             ELSE IF g = connected[f] THEN Released(state[g]) ELSE state[g]]
  /\ connected' = [g \in Ext |-> IF g \in {f, connected[f]} THEN None ELSE connected[g]]

\* Mutant of ReleaseNotes: the other client is not told.
NoReleaseNotes(f) == {}

ReleaseNotes(f) ==
  {Note(extension[p], Released(state[p]), extension[p]) :
     p \in {q \in Ext : q = connected[f] /\ Released(state[q]) # state[q]}}

\* Mutants of Unregister: the number is not reset; nothing is.
UnregisterKeepsNumber(f) ==
  /\ Inside(f, "unregister")
  /\ Disconnect(f, "NONE")
  /\ Write(ReleaseNotes(f))
  /\ UNCHANGED extension
  /\ Leave(f, "closing")

UnregisterNothing(f) ==
  /\ Inside(f, "unregister")
  /\ Write({})
  /\ UNCHANGED tuVars
  /\ Leave(f, "closing")

\* The early return for a unit that is not registered keeps the mutex.
Unregister(f) ==
  /\ Inside(f, "unregister")
  /\ IF state[f] = "NONE" /\ extension[f] = None /\ connected[f] = None
       THEN /\ pc' = [pc EXCEPT ![f] = "closing"]
            /\ UNCHANGED <<tuVars, mutex, cmd, netVars, sigVars, process>>
       ELSE /\ Disconnect(f, "NONE")
            /\ extension' = [extension EXCEPT ![f] = None]
            /\ Write(ReleaseNotes(f))
            /\ Leave(f, "closing")

Hangup(f) ==
  /\ Inside(f, "hangup")
  /\ Disconnect(f, "ON_HOOK")
  /\ Write({Note(extension[f], "ON_HOOK", extension[f])} \cup ReleaseNotes(f))
  /\ UNCHANGED extension
  /\ Leave(f, "reading")

\* A command that changes nothing: the state is reported again, with num as
\* its number when it is one that has a number.
Repeat(f, num) ==
  /\ Write({Note(extension[f], state[f], num)})
  /\ UNCHANGED tuVars

PickupIdle(f) ==
  /\ state[f] = "ON_HOOK"
  /\ state' = [state EXCEPT ![f] = "DIAL_TONE"]
  /\ Write({Note(extension[f], "DIAL_TONE", None)})
  /\ UNCHANGED <<extension, connected>>

\* Both units of the call become connected, and both clients are told.
PickupRinging(f) ==
  LET caller == connected[f]
  IN /\ state[f] = "RINGING"
     /\ state' = [state EXCEPT ![f] = "CONNECTED", ![caller] = "CONNECTED"]
     /\ Write({Note(extension[f], "CONNECTED", caller),
               Note(extension[caller], "CONNECTED", connected[caller])})
     /\ UNCHANGED <<extension, connected>>

Pickup(f) ==
  /\ Inside(f, "pickup")
  /\ \/ PickupIdle(f)
     \/ PickupRinging(f)
     \/ state[f] \notin {"ON_HOOK", "RINGING"} /\ Repeat(f, connected[f])
  /\ Leave(f, "reading")

\* A dial at the dial tone that reaches nobody ends in ERROR or BUSY SIGNAL.
DialFails(f, s) ==
  /\ state' = [state EXCEPT ![f] = s]
  /\ Write({Note(extension[f], s, None)})
  /\ UNCHANGED <<extension, connected>>

DialRings(f, callee) ==
  /\ state' = [state EXCEPT ![f] = "RING_BACK", ![callee] = "RINGING"]
  /\ connected' = [connected EXCEPT ![f] = extension[callee], ![callee] = extension[f]]
  /\ Write({Note(extension[f], "RING_BACK", None), Note(extension[callee], "RINGING", None)})
  /\ UNCHANGED extension

Dial(f) ==
  LET callee == cmd[f].arg
  IN /\ Inside(f, "dial")
     /\ \/ state[f] = "DIAL_TONE" /\ state[callee] = "NONE" /\ DialFails(f, "ERROR")
        \/ state[f] = "DIAL_TONE" /\ state[callee] = "ON_HOOK" /\ DialRings(f, callee)
        \/ /\ state[f] = "DIAL_TONE" /\ state[callee] \notin {"NONE", "ON_HOOK"}
           /\ DialFails(f, "BUSY_SIGNAL")
        \/ state[f] # "DIAL_TONE" /\ Repeat(f, extension[f])
     /\ Leave(f, "reading")

\* Mutant of ChatSent: the sender gets no notification.
ChatSentSilent(f) ==
  /\ state[f] = "CONNECTED"
  /\ Write({ChatLine(extension[connected[f]])})
  /\ UNCHANGED tuVars

ChatSent(f) ==
  /\ state[f] = "CONNECTED"
  /\ IF connected[f] = None
       THEN UNCHANGED <<netVars, process>>
       ELSE Write({ChatLine(extension[connected[f]]),
                   Note(extension[f], "CONNECTED", connected[f])})
  /\ UNCHANGED tuVars

\* Mutants of Chat: the return for a unit that is not connected keeps the
\* mutex; the state is not looked at.
ChatKeepsMutex(f) ==
  /\ Inside(f, "chat")
  /\ \/ ChatSent(f) /\ Leave(f, "reading")
     \/ /\ state[f] # "CONNECTED" /\ Repeat(f, extension[f])
        /\ pc' = [pc EXCEPT ![f] = "reading"]
        /\ cmd' = [cmd EXCEPT ![f] = NoCall]
        /\ UNCHANGED <<mutex, sigVars>>

ChatUnchecked(f) ==
  /\ Inside(f, "chat")
  /\ IF connected[f] = None
       THEN Write({Note(extension[f], state[f], extension[f])})
       ELSE Write({ChatLine(extension[connected[f]]), Note(extension[f], state[f], connected[f])})
  /\ UNCHANGED tuVars
  /\ Leave(f, "reading")

Chat(f) ==
  /\ Inside(f, "chat")
  /\ \/ ChatSent(f)
     \/ state[f] # "CONNECTED" /\ Repeat(f, extension[f])
  /\ Leave(f, "reading")

-------------------------------------------------------------------------------
(* Connections: the accept loop, the service loop, and the clients. *)

\* accept() returns descriptor f and a thread is created to serve it.
Accept(f) ==
  /\ process = "running" /\ hup[Main] = "none"
  /\ pc[f] = "closed"
  /\ pc' = [pc EXCEPT ![f] = "waiting"]
  /\ cmd' = [cmd EXCEPT ![f] = Call("register", None)]
  /\ link' = [link EXCEPT ![f] = "up"]
  /\ UNCHANGED <<tuVars, mutex, wire, told, sigVars, process>>

\* With every descriptor taken accept() returns -1, which is served like a
\* connection: the thread works on telephoneUnits[-1].
AcceptFails ==
  /\ process = "running" /\ hup[Main] = "none"
  /\ \A f \in Ext : pc[f] # "closed"
  /\ process' = "undefined"
  /\ UNCHANGED <<tuVars, lockVars, netVars, sigVars>>

\* A line from the client; those that the buffer of the thread still holds are read
\* after the client has gone, and after a reset.
Receive(f, c) ==
  /\ At(f, "reading")
  /\ pc' = [pc EXCEPT ![f] = IF c.op = "skip" THEN "skipping" ELSE "waiting"]
  /\ cmd' = [cmd EXCEPT ![f] = c]
  /\ UNCHANGED <<tuVars, mutex, netVars, sigVars, process>>

Skip(f) ==
  /\ At(f, "skipping")
  /\ pc' = [pc EXCEPT ![f] = "reading"]
  /\ cmd' = [cmd EXCEPT ![f] = NoCall]
  /\ UNCHANGED <<tuVars, mutex, netVars, sigVars, process>>

\* Mutant of ReadEof: an error on the connection is not taken for its end.
ReadEofNoError(f) ==
  /\ At(f, "reading")
  /\ link[f] = "gone"
  /\ pc' = [pc EXCEPT ![f] = "waiting"]
  /\ cmd' = [cmd EXCEPT ![f] = Call("unregister", None)]
  /\ UNCHANGED <<tuVars, mutex, netVars, sigVars, process>>

ReadEof(f) ==
  /\ At(f, "reading")
  /\ link[f] \in {"gone", "reset"}
  /\ pc' = [pc EXCEPT ![f] = "waiting"]
  /\ cmd' = [cmd EXCEPT ![f] = Call("unregister", None)]
  /\ UNCHANGED <<tuVars, mutex, netVars, sigVars, process>>

\* close(clientfd): only now can accept() return the descriptor again.
Close(f) ==
  /\ At(f, "closing")
  /\ pc' = [pc EXCEPT ![f] = "closed"]
  /\ link' = [link EXCEPT ![f] = "none"]
  /\ told' = [told EXCEPT ![f] = Note(f, "NONE", None)]
  /\ UNCHANGED <<tuVars, mutex, cmd, wire, sigVars, process>>

ClientReads(f) ==
  /\ process = "running"
  /\ wire[f] # <<>>
  /\ wire' = [wire EXCEPT ![f] = Tail(@)]
  /\ UNCHANGED <<tuVars, lockVars, link, told, sigVars, process>>

ClientGoes(f) ==
  /\ process = "running"
  /\ link[f] = "up"
  /\ link' = [link EXCEPT ![f] = "gone"]
  /\ wire' = [wire EXCEPT ![f] = <<>>]
  /\ UNCHANGED <<tuVars, lockVars, told, sigVars, process>>

-------------------------------------------------------------------------------
(* SIGHUP and the end of the server. *)

\* The kernel gives SIGHUP to the main thread; while that thread runs the
\* handler the signal is blocked there, and any other thread may get it.
Sighup(t) ==
  /\ process = "running" /\ hup[t] = "none"
  /\ Cardinality({u \in Thread : hup[u] # "none"}) < MaxHups
  /\ t # Main => hup[Main] # "none" /\ pc[t] # "closed"
  /\ hup' = [hup EXCEPT ![t] = "waiting"]
  /\ UNCHANGED <<tuVars, lockVars, netVars, freed, process>>

\* pbx_shutdown: P, free, V.  A second one frees the PBX twice.
Shutdown(t) ==
  /\ process = "running" /\ hup[t] = "waiting"
  /\ mutex = 1
  /\ freed' = TRUE
  /\ hup' = [hup EXCEPT ![t] = "exiting"]
  /\ process' = IF freed THEN "undefined" ELSE "running"
  /\ UNCHANGED <<tuVars, lockVars, netVars>>

Exit(t) ==
  /\ process = "running" /\ hup[t] = "exiting"
  /\ process' = "exited"
  /\ UNCHANGED <<tuVars, lockVars, netVars, sigVars>>

\* A body that runs on freed memory: nothing is known of what follows.
UseAfterFree(f) ==
  /\ At(f, "inside") /\ freed
  /\ process' = "undefined"
  /\ UNCHANGED <<tuVars, lockVars, netVars, sigVars>>

\* SIGHUP has interrupted the call of f inside pbx.c: its handler waits for the
\* mutex, and the call that holds the mutex for the handler to return.
SelfDeadlock(f) == hup[f] = "waiting" /\ pc[f] = "inside"

\* The server has ended, in one way or another, or hangs like that.
Over == process # "running" \/ \E f \in Ext : SelfDeadlock(f)

\* Nothing need happen then; in any other state something can.
Ended == Over /\ UNCHANGED vars

-------------------------------------------------------------------------------

Body(f) ==
  Register(f) \/ Unregister(f) \/ Pickup(f) \/ Hangup(f) \/ Dial(f) \/ Chat(f) \/ UseAfterFree(f)

Next ==
  \/ \E f \in Ext : \/ Enter(f) \/ Body(f) \/ Accept(f) \/ Skip(f) \/ ReadEof(f) \/ Close(f)
                     \/ ClientReads(f) \/ ClientGoes(f)
                     \/ \E c \in ClientCall : Receive(f, c)
  \/ \E t \in Thread : Sighup(t) \/ Shutdown(t) \/ Exit(t)
  \/ AcceptFails
  \/ Ended

Spec == Init /\ [][Next]_vars

\* What the service thread of f does by itself; what the handler does.
Serve(f) == Enter(f) \/ Body(f) \/ Skip(f) \/ ReadEof(f) \/ Close(f)
Handle(t) == Shutdown(t) \/ Exit(t)

\* A thread that can run does (the kernel schedules them all), and a client
\* that is still there goes on reading its connection.  The semaphore is not
\* assumed fair, and no client has to send anything or to go.
Fairness ==
  /\ \A f \in Ext : WF_vars(Serve(f)) /\ WF_vars(ClientReads(f))
  /\ \A t \in Thread : WF_vars(Handle(t))

FairSpec == Spec /\ Fairness

-------------------------------------------------------------------------------
(* Properties. *)

TypeOK ==
  /\ state \in [Ext -> TuState \cup {"NONE"}]
  /\ extension \in [Ext -> Ext \cup {None}]
  /\ connected \in [Ext -> Ext \cup {None}]
  /\ mutex \in {0, 1}
  /\ pc \in [Ext -> {"closed", "waiting", "inside", "reading", "skipping", "closing"}]
  /\ cmd \in [Ext -> ClientCall \cup {NoCall, Call("register", None), Call("unregister", None)}]
  /\ link \in [Ext -> {"none", "up", "gone", "reset"}]
  /\ wire \in [Ext -> Seq(Message)]
  /\ told \in [Ext -> [to : Ext, kind : TuState \cup {"NONE"}, num : Ext \cup {None}]]
  /\ process \in {"running", "killed", "undefined", "exited"}
  /\ hup \in [Thread -> {"none", "waiting", "exiting"}]
  /\ freed \in BOOLEAN

\* The two ends of a call agree: whoever is ringing, calling or talking is
\* connected to another unit, that unit is connected back, and their states are
\* the two halves of one call; nobody else is connected (pbx.c changes the two
\* ends in different statements of pickup, hangup, dial and unregister).
CallSymmetry ==
  \A f \in Ext :
    LET p == connected[f]
    IN IF state[f] \in {"RINGING", "RING_BACK", "CONNECTED"}
         THEN /\ p \in Ext \ {f}
              /\ connected[p] = f
              /\ <<state[f], state[p]>> \in {<<"RINGING", "RING_BACK">>, <<"RING_BACK", "RINGING">>,
                                              <<"CONNECTED", "CONNECTED">>}
         ELSE p = None

\* One thread at a time is inside pbx.c, and the semaphore is down exactly
\* then: no return path forgets its V and none posts it twice.
MutexDiscipline ==
  /\ mutex = 0 <=> \E f \in Ext : pc[f] = "inside"
  /\ \A f, g \in Ext : pc[f] = "inside" /\ pc[g] = "inside" => f = g

\* The thread of f is between the end of pbx_register and that of pbx_unregister.
Serving(f) ==
  \/ pc[f] \in {"reading", "skipping"}
  \/ pc[f] \in {"waiting", "inside"} /\ cmd[f].op # "register"

\* A unit is registered exactly while a thread serves it, under the number of
\* its own descriptor: a descriptor is never reused for a unit still registered.
RegisteredIffServed ==
  \A f \in Ext : IF Serving(f) THEN state[f] # "NONE" /\ extension[f] = f
                                ELSE state[f] = "NONE" /\ extension[f] = None

\* The last state notification written to a client is the state its unit is in,
\* whoever changed it (README: a notification of the current state of that
\* client, as it is currently understood by the server).
ClientsAreTold ==
  \A f \in Ext : told[f].to = f /\ (pc[f] # "closing" => told[f].kind = state[f])

\* A new connection has been sent nothing before its own registration: no write
\* meant for an earlier connection reaches the one that reuses its descriptor.
FreshConnectionSilent ==
  \A f \in Ext : cmd[f].op = "register" \/ pc[f] = "closed" => wire[f] = <<>>

\* Every call a client makes is answered on its own connection with its state
\* after the call (pbx.h: in all cases, a notification of the new state is sent
\* to the network client underlying this TU).
EveryCallAnswered ==
  [][\A f \in Ext :
       pc[f] = "inside" /\ pc'[f] = "reading" /\ link[f] = "up"
         => \E m \in Message : wire'[f] = Append(wire[f], m) /\ m.kind = state'[f]]_vars

\* What the phone of a unit in state s lets its user perceive.
TuTone(s) ==
  CASE s = "NONE"        -> "absent"
    [] s = "ON_HOOK"     -> "onhook"
    [] s = "DIAL_TONE"   -> "dial"
    [] s = "BUSY_SIGNAL" -> "busy"
    [] s = "ERROR"       -> "error"
    [] OTHER             -> "call"

\* The exchange that the units stand for.
XTone == [e \in Ext |-> TuTone(state[e])]
XRinging == {r \in Ext \X Ext : state[r[1]] = "RING_BACK" /\ connected[r[1]] = r[2]}
XTalking == {{f, connected[f]} : f \in {g \in Ext : state[g] = "CONNECTED"}}

\* pbx.c implements the telephone exchange: a call rings, is answered and ends
\* for both of its ends in one step.
X == INSTANCE Exchange WITH tone <- XTone, ringing <- XRinging, talking <- XTalking

ImplementsExchange == X!XSpec

\* The mutex does not stay down: no path through pbx.c returns without V, and
\* no thread waits inside for something only another thread inside could give.
\* The one exception is a SIGHUP that is given to a thread inside pbx.c.
MutexReleased == []<>(mutex = 1 \/ Over)

ClientsQuiet == <>[][\A f \in Ext : ~Accept(f) /\ \A c \in ClientCall : ~Receive(f, c)]_vars

\* Once no client connects or sends any more, every thread that wants the PBX has
\* got it, a client that has gone is unplugged and its descriptor closed, and no
\* SIGHUP waits to be acted on; or the server is over.  main.c has it that SIGHUP
\* will perform a clean shutdown: one that waits for ever is a SelfDeadlock.
EveryCallServed ==
  ClientsQuiet => <>[](\/ Over
                       \/ /\ \A f \in Ext : pc[f] # "waiting" /\ link[f] \notin {"gone", "reset"}
                          /\ \A t \in Thread : hup[t] = "none")

-------------------------------------------------------------------------------
(* Statements of the README and the headers that the code does not keep. *)

\* README: a network connection can be broken at any time and the parties using
\* such a connection must be able to handle this situation.
SurvivesBrokenConnections == process # "killed"
===============================================================================
