------------------------------ MODULE PBX_proofs ------------------------------
(***************************************************************************)
(* Proofs about PBX for every set of extensions, every capacity of the     *)
(* connections and every number of SIGHUPs.  IInv is the inductive         *)
(* invariant: a body finds its own unit registered because its thread is   *)
(* between register and unregister, it is alone in pbx.c because of the    *)
(* mutex, and it finds the other end of its call by CallSymmetry.          *)
(***************************************************************************)
EXTENDS PBX, TLAPS

IInv ==
  /\ TypeOK
  /\ MutexDiscipline
  /\ RegisteredIffServed
  /\ CallSymmetry

\* What a body may write: a notification, or a line of chat, to any unit.
AnyMessage == [to : Ext \cup {None}, kind : TuState \cup {"CHAT"}, num : Ext \cup {None}]

-------------------------------------------------------------------------------
(* The writes of a body keep the types of the connections. *)

\* Note builds a message that a body may write, whatever the number given.
LEMMA NoteType ==
  ASSUME NEW to \in Ext \cup {None}, NEW kind \in TuState, NEW num \in Ext \cup {None}
  PROVE  Note(to, kind, num) \in AnyMessage /\ Note(to, kind, num).kind = kind
BY DEF Note, AnyMessage

\* Write leaves every connection variable and the process well typed.
LEMMA WriteType ==
  ASSUME TypeOK, NEW out \in SUBSET AnyMessage, Write(out)
  PROVE  /\ wire' \in [Ext -> Seq(Message)]
         /\ told' \in [Ext -> [to : Ext, kind : TuState \cup {"NONE"}, num : Ext \cup {None}]]
         /\ link' \in [Ext -> {"none", "up", "gone", "reset"}]
         /\ process' \in {"running", "killed"}
<1> DEFINE to(f) == {m \in out : m.to = f}
           notes(f) == {m \in to(f) : m.kind # "CHAT"}
<1>1. ASSUME NEW f \in Ext
      PROVE  to(f) \subseteq Message
  BY DEF AnyMessage, Message
<1>2. ASSUME NEW f \in Ext
      PROVE  notes(f) \subseteq [to : Ext, kind : TuState \cup {"NONE"}, num : Ext \cup {None}]
  BY DEF AnyMessage
<1>3. wire' = [f \in Ext |-> IF to(f) = {} \/ link[f] # "up" THEN wire[f]
                             ELSE Append(wire[f], CHOOSE m \in to(f) : TRUE)]
  BY DEF Write
<1>4. told' = [f \in Ext |-> IF notes(f) = {} THEN told[f] ELSE CHOOSE m \in notes(f) : TRUE]
  BY DEF Write
<1>5. ASSUME NEW f \in Ext
      PROVE  (IF to(f) = {} \/ link[f] # "up" THEN wire[f]
              ELSE Append(wire[f], CHOOSE m \in to(f) : TRUE)) \in Seq(Message)
  <2>1. wire[f] \in Seq(Message)
    BY DEF TypeOK
  <2>2. CASE to(f) # {}
    <3>1. (CHOOSE m \in to(f) : TRUE) \in to(f)
      BY <2>2
    <3> HIDE DEF to
    <3>2. (CHOOSE m \in to(f) : TRUE) \in Message
      BY <1>1, <3>1
    <3> QED BY <2>1, <3>2
  <2>3. CASE to(f) = {}
    BY <2>1, <2>3
  <2> QED BY <2>2, <2>3
<1>6. ASSUME NEW f \in Ext
      PROVE  (IF notes(f) = {} THEN told[f] ELSE CHOOSE m \in notes(f) : TRUE)
               \in [to : Ext, kind : TuState \cup {"NONE"}, num : Ext \cup {None}]
  <2>1. CASE notes(f) # {}
    <3>1. (CHOOSE m \in notes(f) : TRUE) \in notes(f)
      BY <2>1
    <3> HIDE DEF notes
    <3> QED BY <1>2, <2>1, <3>1
  <2>2. CASE notes(f) = {}
    BY <2>2 DEF TypeOK
  <2> QED BY <2>1, <2>2
<1>7. link' \in [Ext -> {"none", "up", "gone", "reset"}]
  BY DEF Write, TypeOK
<1>8. process' \in {"running", "killed"}
  BY DEF Write
<1> HIDE DEF to, notes
<1> QED BY <1>3, <1>4, <1>5, <1>6, <1>7, <1>8

-------------------------------------------------------------------------------
(* What holds where a body runs. *)

\* A body other than registration works on a registered unit.
LEMMA InsideRegistered ==
  ASSUME IInv, NEW f \in Ext, At(f, "inside"), cmd[f].op # "register"
  PROVE  state[f] \in TuState /\ extension[f] = f
<1>1. Serving(f)
  BY DEF At, Serving
<1> QED BY <1>1 DEF IInv, RegisteredIffServed, TypeOK

\* A dial always has an extension to dial.
LEMMA DialArgument ==
  ASSUME IInv, NEW f \in Ext, cmd[f].op = "dial"
  PROVE  cmd[f].arg \in Ext
<1>1. cmd[f] \in ClientCall \cup {NoCall, Call("register", None), Call("unregister", None)}
  BY DEF IInv, TypeOK
<1>2. ASSUME NEW op, NEW arg
      PROVE  Call(op, arg).op = op /\ Call(op, arg).arg = arg
  BY DEF Call
<1>3. cmd[f] \notin {NoCall, Call("register", None), Call("unregister", None)}
  BY <1>2 DEF NoCall
<1>4. PICK e \in Ext : cmd[f] = Call("dial", e)
  BY <1>1, <1>2, <1>3 DEF ClientCall
<1> QED BY <1>2, <1>4

\* The messages of ReleaseNotes go to the unit f is connected to.
LEMMA ReleaseNotesType ==
  ASSUME IInv, NEW f \in Ext
  PROVE  ReleaseNotes(f) \in SUBSET AnyMessage
<1>1. ASSUME NEW p \in Ext, Released(state[p]) # state[p]
      PROVE  Note(extension[p], Released(state[p]), extension[p]) \in AnyMessage
  <2>1. extension[p] \in Ext \cup {None} /\ Released(state[p]) \in TuState
    BY <1>1 DEF IInv, TypeOK, Released, TuState
  <2> QED BY <2>1, NoteType
<1> QED BY <1>1 DEF ReleaseNotes

\* Every body that runs to its end releases the mutex and leaves for the loop,
\* or for the close after unregister: the early return of Unregister is dead.
LEMMA BodyReturns ==
  ASSUME IInv, NEW f \in Ext, Body(f), ~UseAfterFree(f)
  PROVE  /\ At(f, "inside")
         /\ Leave(f, IF cmd[f].op = "unregister" THEN "closing" ELSE "reading")
<1>1. CASE Register(f)
  BY <1>1 DEF Register, Inside
<1>2. CASE Unregister(f)
  <2>1. state[f] # "NONE"
    BY <1>2, InsideRegistered DEF Unregister, Inside, TuState
  <2> QED BY <1>2, <2>1 DEF Unregister, Inside
<1>3. CASE Pickup(f)
  BY <1>3 DEF Pickup, Inside
<1>4. CASE Hangup(f)
  BY <1>4 DEF Hangup, Inside
<1>5. CASE Dial(f)
  BY <1>5 DEF Dial, Inside
<1>6. CASE Chat(f)
  BY <1>6 DEF Chat, Inside
<1> QED BY <1>1, <1>2, <1>3, <1>4, <1>5, <1>6 DEF Body

\* A body on a freed PBX changes nothing that the model still knows of.
LEMMA BodyLeaves ==
  ASSUME IInv, NEW f \in Ext, Body(f)
  PROVE  \/ UNCHANGED <<tuVars, lockVars, netVars, sigVars>> /\ process' = "undefined"
         \/ /\ At(f, "inside")
            /\ Leave(f, IF cmd[f].op = "unregister" THEN "closing" ELSE "reading")
<1>1. CASE UseAfterFree(f)
  BY <1>1 DEF UseAfterFree
<1>2. CASE ~UseAfterFree(f)
  BY <1>2, BodyReturns
<1> QED BY <1>1, <1>2

-------------------------------------------------------------------------------
(* Type correctness: what a body does to the units, and what it writes. *)

UnitsTyped ==
  /\ state \in [Ext -> TuState \cup {"NONE"}]
  /\ extension \in [Ext -> Ext \cup {None}]
  /\ connected \in [Ext -> Ext \cup {None}]

\* Everything but the units and the lock, after a body.
NetTyped ==
  /\ wire \in [Ext -> Seq(Message)]
  /\ told \in [Ext -> [to : Ext, kind : TuState \cup {"NONE"}, num : Ext \cup {None}]]
  /\ link \in [Ext -> {"none", "up", "gone", "reset"}]
  /\ process \in {"running", "killed", "undefined", "exited"}

\* A body keeps the types of the units and of the connections.
LEMMA BodyTypes ==
  ASSUME IInv, NEW f \in Ext, Body(f)
  PROVE  UnitsTyped' /\ NetTyped'
<1> USE DEF UnitsTyped, NetTyped
<1>0. TypeOK /\ UnitsTyped /\ NetTyped
  BY DEF IInv, TypeOK
<1>1. ASSUME NEW out \in SUBSET AnyMessage, Write(out)
      PROVE  NetTyped'
  BY <1>0, <1>1, WriteType
<1>2. CASE Register(f)
  <2>1. Note(f, "ON_HOOK", f) \in AnyMessage
    BY NoteType DEF TuState
  <2>2. NetTyped'
    BY <1>0, <1>1, <1>2, <2>1 DEF Register, netVars
  <2>3. CASE UNCHANGED <<state, extension>>
    BY <1>0, <1>2, <2>2, <2>3 DEF Register
  <2>4. CASE state' = [state EXCEPT ![f] = "ON_HOOK"] /\ extension' = [extension EXCEPT ![f] = f]
    BY <1>0, <1>2, <2>2, <2>4 DEF Register, TuState
  <2> QED BY <1>2, <2>3, <2>4 DEF Register
<1>3. ASSUME NEW s \in TuState \cup {"NONE"}, Disconnect(f, s)
      PROVE  state' \in [Ext -> TuState \cup {"NONE"}] /\ connected' \in [Ext -> Ext \cup {None}]
  BY <1>0, <1>3 DEF Disconnect, Released, TuState
<1>4. CASE Unregister(f)
  <2>1. state[f] # "NONE"
    BY <1>4, InsideRegistered DEF Unregister, Inside, TuState
  <2>2. Disconnect(f, "NONE") /\ extension' = [extension EXCEPT ![f] = None] /\ Write(ReleaseNotes(f))
    BY <1>4, <2>1 DEF Unregister
  <2> QED BY <1>0, <1>1, <1>3, <2>2, ReleaseNotesType
<1>5. ASSUME At(f, "inside"), cmd[f].op # "register", NEW kind \in TuState, NEW num \in Ext \cup {None}
      PROVE  Note(extension[f], kind, num) \in AnyMessage
  BY <1>5, InsideRegistered, NoteType
<1>6. CASE Hangup(f)
  <2>1. Disconnect(f, "ON_HOOK") /\ UNCHANGED extension
    BY <1>6 DEF Hangup
  <2>2. At(f, "inside") /\ cmd[f].op # "register" /\ extension[f] = f
    BY <1>6, InsideRegistered DEF Hangup, Inside
  <2>3. Note(extension[f], "ON_HOOK", extension[f]) \in AnyMessage
    BY <1>5, <2>2 DEF TuState
  <2>4. NetTyped'
    BY <1>1, <1>6, <2>3, ReleaseNotesType DEF Hangup
  <2> QED BY <1>0, <1>3, <2>1, <2>4 DEF TuState
<1>7. ASSUME At(f, "inside"), cmd[f].op # "register", NEW num \in Ext \cup {None}, Repeat(f, num)
      PROVE  UnitsTyped' /\ NetTyped'
  <2>1. Note(extension[f], state[f], num) \in AnyMessage
    BY <1>5, <1>7, InsideRegistered
  <2> QED BY <1>0, <1>1, <1>7, <2>1 DEF Repeat, tuVars
<1>8. CASE Pickup(f)
  <2>1. At(f, "inside") /\ cmd[f].op # "register" /\ extension[f] = f
    BY <1>8, InsideRegistered DEF Pickup, Inside
  <2>2. CASE PickupIdle(f)
    <3>1. Note(extension[f], "DIAL_TONE", None) \in AnyMessage
      BY <1>5, <2>1 DEF TuState
    <3> QED BY <1>0, <1>1, <2>2, <3>1 DEF PickupIdle, TuState
  <2>3. CASE PickupRinging(f)
    <3> DEFINE caller == connected[f]
    <3>1. caller \in Ext
      BY <2>3 DEF IInv, CallSymmetry, PickupRinging
    <3>2. extension[caller] \in Ext \cup {None} /\ connected[caller] \in Ext \cup {None}
      BY <1>0, <3>1
    <3>3. /\ Note(extension[f], "CONNECTED", caller) \in AnyMessage
          /\ Note(extension[caller], "CONNECTED", connected[caller]) \in AnyMessage
      BY <1>5, <2>1, <3>1, <3>2, NoteType DEF TuState
    <3> QED BY <1>0, <1>1, <2>3, <3>1, <3>3 DEF PickupRinging, TuState
  <2>4. CASE state[f] \notin {"ON_HOOK", "RINGING"} /\ Repeat(f, connected[f])
    BY <1>0, <1>7, <2>1, <2>4
  <2> QED BY <1>8, <2>2, <2>3, <2>4 DEF Pickup
<1>9. CASE Dial(f)
  <2> DEFINE callee == cmd[f].arg
  <2>1. At(f, "inside") /\ cmd[f].op = "dial" /\ extension[f] = f
    BY <1>9, InsideRegistered DEF Dial, Inside
  <2>2. callee \in Ext
    BY <2>1, DialArgument
  <2>3. ASSUME NEW s \in TuState, DialFails(f, s)
        PROVE  UnitsTyped' /\ NetTyped'
    <3>1. Note(extension[f], s, None) \in AnyMessage
      BY <1>5, <2>1
    <3> QED BY <1>0, <1>1, <2>3, <3>1 DEF DialFails
  <2>4. CASE DialRings(f, callee)
    <3>1. extension[callee] \in Ext \cup {None}
      BY <1>0, <2>2
    <3>2. /\ Note(extension[f], "RING_BACK", None) \in AnyMessage
          /\ Note(extension[callee], "RINGING", None) \in AnyMessage
      BY <1>5, <2>1, <3>1, NoteType DEF TuState
    <3> QED BY <1>0, <1>1, <2>1, <2>2, <2>4, <3>1, <3>2 DEF DialRings, TuState
  <2>5. CASE Repeat(f, extension[f])
    BY <1>7, <2>1, <2>5
  <2> QED BY <1>9, <2>3, <2>4, <2>5 DEF Dial, TuState
<1>10. CASE Chat(f)
  <2>1. At(f, "inside") /\ cmd[f].op # "register" /\ extension[f] = f
    BY <1>10, InsideRegistered DEF Chat, Inside
  <2>2. CASE ChatSent(f)
    <3> DEFINE p == connected[f]
    <3>1. p \in Ext
      BY <2>2 DEF IInv, CallSymmetry, ChatSent
    <3>2. /\ ChatLine(extension[p]) \in AnyMessage
          /\ Note(extension[f], "CONNECTED", p) \in AnyMessage
      BY <1>0, <1>5, <2>1, <3>1 DEF ChatLine, AnyMessage, TuState
    <3>3. p # None
      BY <3>1, PBXAssumption
    <3> QED BY <1>0, <1>1, <2>2, <3>2, <3>3 DEF ChatSent, tuVars
  <2>3. CASE Repeat(f, extension[f])
    BY <1>7, <2>1, <2>3
  <2> QED BY <1>10, <2>2, <2>3 DEF Chat
<1>11. CASE UseAfterFree(f)
  BY <1>0, <1>11 DEF UseAfterFree, tuVars, netVars
<1> QED BY <1>2, <1>4, <1>6, <1>8, <1>9, <1>10, <1>11 DEF Body

-------------------------------------------------------------------------------
(* The steps that are not bodies leave the units alone. *)

\* The steps of the threads outside pbx.c, of the clients and of the signals.
Outside ==
  \/ \E f \in Ext : \/ Enter(f) \/ Accept(f) \/ Skip(f) \/ ReadEof(f) \/ Close(f)
                     \/ ClientReads(f) \/ ClientGoes(f)
                     \/ \E c \in ClientCall : Receive(f, c)
  \/ \E t \in Thread : Sighup(t) \/ Shutdown(t) \/ Exit(t)
  \/ AcceptFails

LEMMA NextCases ==
  ASSUME [Next]_vars
  PROVE  (\E f \in Ext : Body(f)) \/ Outside \/ UNCHANGED vars
BY DEF Next, Outside, Ended

\* Only a body changes the units.
LEMMA OutsideUnits ==
  ASSUME Outside
  PROVE  UNCHANGED tuVars
BY DEF Outside, Enter, Accept, Skip, ReadEof, Close, ClientReads, ClientGoes, Receive, Sighup,
       Shutdown, Exit, AcceptFails

-------------------------------------------------------------------------------
(* Type correctness. *)

LEMMA InitInv == Init => IInv
<1> SUFFICES ASSUME Init PROVE IInv
  OBVIOUS
<1>1. TypeOK
  <2>1. told \in [Ext -> [to : Ext, kind : TuState \cup {"NONE"}, num : Ext \cup {None}]]
    BY DEF Init, Note
  <2>2. wire \in [Ext -> Seq(Message)]
    BY DEF Init
  <2>3. cmd \in [Ext -> ClientCall \cup {NoCall, Call("register", None), Call("unregister", None)}]
    BY DEF Init
  <2> QED BY <2>1, <2>2, <2>3 DEF Init, TypeOK
<1>2. MutexDiscipline /\ RegisteredIffServed /\ CallSymmetry
  BY PBXAssumption DEF Init, MutexDiscipline, RegisteredIffServed, CallSymmetry, Serving
<1> QED BY <1>1, <1>2 DEF IInv

LEMMA TypeStep ==
  ASSUME IInv, [Next]_vars
  PROVE  TypeOK'
<1> DEFINE Calls == ClientCall \cup {NoCall, Call("register", None), Call("unregister", None)}
<1>0. TypeOK
  BY DEF IInv
<1>1. ASSUME NEW f \in Ext, Body(f)
      PROVE  TypeOK'
  <2>1. UnitsTyped' /\ NetTyped'
    BY <1>1, BodyTypes
  <2>2. mutex' \in {0, 1} /\ pc' \in [Ext -> {"closed", "waiting", "inside", "reading", "skipping", "closing"}]
    BY <1>0, <1>1, BodyLeaves DEF Leave, TypeOK, lockVars
  <2>3. cmd' \in [Ext -> Calls]
    BY <1>0, <1>1, BodyLeaves DEF Leave, TypeOK, lockVars
  <2>4. hup' = hup /\ freed' = freed
    BY <1>1, BodyLeaves DEF Leave, sigVars
  <2> QED BY <1>0, <2>1, <2>2, <2>3, <2>4 DEF TypeOK, UnitsTyped, NetTyped
<1>2. CASE Outside
  <2>1. ASSUME NEW f \in Ext, Enter(f)
        PROVE  TypeOK'
    BY <1>0, <2>1 DEF TypeOK, Enter, tuVars, netVars, sigVars
  <2>7. ASSUME NEW f \in Ext, Accept(f)
        PROVE  TypeOK'
    BY <1>0, <2>7 DEF TypeOK, Accept, tuVars, sigVars
  <2>8. ASSUME NEW f \in Ext, Skip(f)
        PROVE  TypeOK'
    BY <1>0, <2>8 DEF TypeOK, Skip, tuVars, netVars, sigVars
  <2>9. ASSUME NEW f \in Ext, ReadEof(f)
        PROVE  TypeOK'
    BY <1>0, <2>9 DEF TypeOK, ReadEof, tuVars, netVars, sigVars
  <2>2. ASSUME NEW f \in Ext, NEW c \in ClientCall, Receive(f, c)
        PROVE  TypeOK'
    BY <1>0, <2>2 DEF TypeOK, Receive, tuVars, netVars, sigVars
  <2>3. ASSUME NEW f \in Ext, Close(f)
        PROVE  TypeOK'
    BY <1>0, <2>3 DEF TypeOK, Close, tuVars, sigVars, Note
  <2>4. ASSUME NEW f \in Ext, ClientReads(f)
        PROVE  TypeOK'
    <3>1. wire[f] \in Seq(Message) /\ wire[f] # <<>>
      BY <1>0, <2>4 DEF TypeOK, ClientReads
    <3>2. Tail(wire[f]) \in Seq(Message)
      BY <3>1
    <3> QED BY <1>0, <2>4, <3>2 DEF TypeOK, ClientReads, tuVars, lockVars, sigVars
  <2>10. ASSUME NEW f \in Ext, ClientGoes(f)
        PROVE  TypeOK'
    BY <1>0, <2>10 DEF TypeOK, ClientGoes, tuVars, lockVars, sigVars
  <2>5. ASSUME NEW t \in Thread, Sighup(t) \/ Shutdown(t) \/ Exit(t)
        PROVE  TypeOK'
    BY <1>0, <2>5 DEF TypeOK, Sighup, Shutdown, Exit, tuVars, lockVars, netVars, sigVars
  <2>6. CASE AcceptFails
    BY <1>0, <2>6 DEF TypeOK, AcceptFails, tuVars, lockVars, netVars, sigVars
  <2> QED BY <1>2, <2>1, <2>2, <2>3, <2>4, <2>5, <2>6, <2>7, <2>8, <2>9, <2>10 DEF Outside
<1>3. CASE UNCHANGED vars
  BY <1>0, <1>3 DEF TypeOK, vars, tuVars, lockVars, netVars, sigVars
<1> QED BY <1>1, <1>2, <1>3, NextCases

-------------------------------------------------------------------------------
(* The mutex. *)

LEMMA MutexStep ==
  ASSUME IInv, [Next]_vars
  PROVE  MutexDiscipline'
<1>0. MutexDiscipline /\ TypeOK
  BY DEF IInv
<1>1. ASSUME NEW f \in Ext, Body(f)
      PROVE  MutexDiscipline'
  <2>1. CASE UNCHANGED lockVars
    BY <1>0, <2>1 DEF MutexDiscipline, lockVars
  <2>2. ASSUME NEW next \in {"reading", "closing"}, At(f, "inside"), Leave(f, next)
        PROVE  MutexDiscipline'
    <3>1. mutex' = 1 /\ pc' = [pc EXCEPT ![f] = next]
      BY <2>2 DEF Leave
    <3>2. pc[f] = "inside" /\ \A g \in Ext : pc[g] = "inside" => g = f
      BY <1>0, <2>2 DEF At, MutexDiscipline
    <3>3. \A g \in Ext : pc'[g] # "inside"
      BY <1>0, <3>1, <3>2 DEF TypeOK
    <3> QED BY <3>1, <3>3 DEF MutexDiscipline
  <2> QED BY <1>1, <2>1, <2>2, BodyLeaves DEF lockVars
<1>2. CASE Outside
  <2>1. ASSUME NEW f \in Ext, Enter(f)
        PROVE  MutexDiscipline'
    BY <1>0, <2>1 DEF MutexDiscipline, TypeOK, Enter
  <2>2. ASSUME NEW f \in Ext, Accept(f) \/ Skip(f) \/ ReadEof(f) \/ Close(f)
        PROVE  MutexDiscipline'
    <3>1. pc[f] # "inside" /\ mutex' = mutex
      BY <2>2 DEF Accept, Skip, ReadEof, Close, At
    <3>2. \A g \in Ext : pc'[g] = "inside" <=> pc[g] = "inside"
      BY <1>0, <2>2, <3>1 DEF TypeOK, Accept, Skip, ReadEof, Close
    <3> QED BY <1>0, <3>1, <3>2 DEF MutexDiscipline
  <2>3. ASSUME NEW f \in Ext, NEW c \in ClientCall, Receive(f, c)
        PROVE  MutexDiscipline'
    BY <1>0, <2>3 DEF MutexDiscipline, TypeOK, Receive, At
  <2>4. ASSUME UNCHANGED lockVars
        PROVE  MutexDiscipline'
    BY <1>0, <2>4 DEF MutexDiscipline, lockVars
  <2> QED BY <1>2, <2>1, <2>2, <2>3, <2>4
          DEF Outside, ClientReads, ClientGoes, Sighup, Shutdown, Exit, AcceptFails
<1>3. CASE UNCHANGED vars
  BY <1>0, <1>3 DEF MutexDiscipline, vars, lockVars
<1> QED BY <1>1, <1>2, <1>3, NextCases

-------------------------------------------------------------------------------
(* Registration. *)

\* Registration is as it was for every unit but f.
OthersAsBefore(f) ==
  \A g \in Ext \ {f} : extension'[g] = extension[g] /\ (state'[g] = "NONE" <=> state[g] = "NONE")

\* A body registers or unregisters its own unit only, and sets the extension
\* number to the index of the unit.
LEMMA BodyRegisters ==
  ASSUME IInv, NEW f \in Ext, Body(f), ~UseAfterFree(f)
  PROVE  /\ OthersAsBefore(f)
         /\ IF cmd[f].op = "unregister" THEN state'[f] = "NONE" /\ extension'[f] = None
                                        ELSE state'[f] # "NONE" /\ extension'[f] = f
<1>0. TypeOK
  BY DEF IInv
<1>1. ASSUME NEW s \in TuState \cup {"NONE"}, Disconnect(f, s)
      PROVE  /\ \A g \in Ext \ {f} : state'[g] = "NONE" <=> state[g] = "NONE"
             /\ state'[f] = s
  BY <1>1 DEF Disconnect, Released
<1>2. CASE Register(f)
  <2>1. state[f] = "NONE" /\ extension[f] = None
    BY <1>2 DEF IInv, RegisteredIffServed, Serving, Register, Inside, At
  <2>2. connected[f] = None
    BY <2>1 DEF IInv, CallSymmetry
  <2>3. /\ state' = [state EXCEPT ![f] = "ON_HOOK"] /\ extension' = [extension EXCEPT ![f] = f]
        /\ cmd[f].op = "register"
    BY <1>2, <2>1, <2>2 DEF Register, Inside
  <2> QED BY <1>0, <2>3 DEF TypeOK, OthersAsBefore
<1>3. CASE Unregister(f)
  <2>1. state[f] # "NONE"
    BY <1>3, InsideRegistered DEF Unregister, Inside, TuState
  <2>2. /\ Disconnect(f, "NONE") /\ extension' = [extension EXCEPT ![f] = None]
        /\ cmd[f].op = "unregister"
    BY <1>3, <2>1 DEF Unregister, Inside
  <2> QED BY <1>0, <1>1, <2>2 DEF TypeOK, OthersAsBefore
<1>4. ASSUME At(f, "inside"), cmd[f].op \notin {"register", "unregister"}, UNCHANGED extension,
             state'[f] # "NONE",
             \A g \in Ext \ {f} : state'[g] = "NONE" <=> state[g] = "NONE"
      PROVE  /\ OthersAsBefore(f)
             /\ cmd[f].op # "unregister" /\ state'[f] # "NONE" /\ extension'[f] = f
  BY <1>4, InsideRegistered DEF OthersAsBefore
<1>5. CASE Hangup(f)
  <2>1. /\ At(f, "inside") /\ cmd[f].op = "hangup" /\ UNCHANGED extension
        /\ Disconnect(f, "ON_HOOK")
    BY <1>5 DEF Hangup, Inside
  <2> QED BY <1>1, <1>4, <2>1 DEF TuState
<1>6. ASSUME At(f, "inside"), cmd[f].op # "register"
      PROVE  state[f] # "NONE"
  BY <1>6, InsideRegistered DEF TuState
<1>7. CASE Pickup(f)
  <2>1. At(f, "inside") /\ cmd[f].op = "pickup" /\ UNCHANGED extension
    BY <1>7 DEF Pickup, Inside, PickupIdle, PickupRinging, Repeat, tuVars
  <2>2. CASE PickupIdle(f)
    BY <1>0, <1>4, <2>1, <2>2 DEF PickupIdle, TypeOK
  <2>3. CASE PickupRinging(f)
    <3>1. connected[f] \in Ext /\ state[connected[f]] # "NONE"
      BY <2>3 DEF IInv, CallSymmetry, PickupRinging
    <3> QED BY <1>0, <1>4, <2>1, <2>3, <3>1 DEF PickupRinging, TypeOK
  <2>4. CASE Repeat(f, connected[f])
    BY <1>4, <1>6, <2>1, <2>4 DEF Repeat, tuVars
  <2> QED BY <1>7, <2>2, <2>3, <2>4 DEF Pickup
<1>8. CASE Dial(f)
  <2> DEFINE callee == cmd[f].arg
  <2>1. /\ At(f, "inside") /\ cmd[f].op = "dial" /\ UNCHANGED extension
        /\ callee \in Ext
    BY <1>8, DialArgument DEF Dial, Inside, DialFails, DialRings, Repeat, tuVars
  <2>2. ASSUME NEW s \in TuState, DialFails(f, s)
        PROVE  state'[f] # "NONE" /\ \A g \in Ext \ {f} : state'[g] = state[g]
    BY <1>0, <2>2 DEF DialFails, TypeOK, TuState
  <2>3. CASE DialRings(f, callee) /\ state[callee] = "ON_HOOK"
    BY <1>0, <1>4, <2>1, <2>3 DEF DialRings, TypeOK
  <2>4. CASE Repeat(f, extension[f])
    BY <1>4, <1>6, <2>1, <2>4 DEF Repeat, tuVars
  <2> QED BY <1>4, <1>8, <2>1, <2>2, <2>3, <2>4 DEF Dial, TuState
<1>9. CASE Chat(f)
  <2>1. At(f, "inside") /\ cmd[f].op = "chat" /\ UNCHANGED <<extension, state>>
    BY <1>9 DEF Chat, Inside, ChatSent, Repeat, tuVars
  <2> QED BY <1>4, <1>6, <2>1
<1> QED BY <1>2, <1>3, <1>4, <1>5, <1>7, <1>8, <1>9 DEF Body

LEMMA RegisteredStep ==
  ASSUME IInv, [Next]_vars
  PROVE  RegisteredIffServed'
<1>0. RegisteredIffServed /\ TypeOK
  BY DEF IInv
<1>1. ASSUME UNCHANGED <<state, extension>>, \A g \in Ext : Serving(g)' <=> Serving(g)
      PROVE  RegisteredIffServed'
  BY <1>0, <1>1 DEF RegisteredIffServed
<1>2. ASSUME NEW f \in Ext, Body(f)
      PROVE  RegisteredIffServed'
  <2>1. CASE UNCHANGED <<tuVars, lockVars>>
    BY <1>1, <2>1 DEF Serving, tuVars, lockVars
  <2>2. CASE At(f, "inside") /\ Leave(f, IF cmd[f].op = "unregister" THEN "closing" ELSE "reading")
    <3>1. \A g \in Ext \ {f} : Serving(g)' <=> Serving(g)
      BY <1>0, <2>2 DEF Serving, Leave, TypeOK
    <3>2. Serving(f)' <=> cmd[f].op # "unregister"
      BY <1>0, <2>2 DEF Serving, Leave, TypeOK
    <3>3. CASE UseAfterFree(f)
      BY <2>1, <3>3 DEF UseAfterFree
    <3>4. CASE ~UseAfterFree(f)
      <4>0. OthersAsBefore(f)
        BY <1>2, <3>4, BodyRegisters
      <4>1. ASSUME NEW g \in Ext \ {f}
            PROVE  IF Serving(g)' THEN state'[g] # "NONE" /\ extension'[g] = g
                                  ELSE state'[g] = "NONE" /\ extension'[g] = None
        <5>1. extension'[g] = extension[g] /\ (state'[g] = "NONE" <=> state[g] = "NONE")
          BY <4>0 DEF OthersAsBefore
        <5>2. Serving(g)' <=> Serving(g)
          BY <3>1
        <5>3. IF Serving(g) THEN state[g] # "NONE" /\ extension[g] = g
                            ELSE state[g] = "NONE" /\ extension[g] = None
          BY <1>0 DEF RegisteredIffServed
        <5> QED BY <5>1, <5>2, <5>3
      <4>2. IF Serving(f)' THEN state'[f] # "NONE" /\ extension'[f] = f
                           ELSE state'[f] = "NONE" /\ extension'[f] = None
        BY <1>2, <3>2, <3>4, BodyRegisters
      <4> QED BY <4>1, <4>2 DEF RegisteredIffServed
    <3> QED BY <3>3, <3>4
  <2> QED BY <1>2, <2>1, <2>2, BodyLeaves
<1>3. CASE Outside
  <2>0. UNCHANGED <<state, extension>>
    BY <1>3, OutsideUnits DEF tuVars
  <2>1. ASSUME NEW f \in Ext, NEW p, NEW c, pc' = [pc EXCEPT ![f] = p], cmd' = [cmd EXCEPT ![f] = c]
        PROVE  \A g \in Ext \ {f} : Serving(g)' <=> Serving(g)
    BY <1>0, <2>1 DEF Serving, TypeOK
  <2>2. ASSUME NEW f \in Ext, Enter(f)
        PROVE  \A g \in Ext : Serving(g)' <=> Serving(g)
    BY <1>0, <2>2 DEF Serving, TypeOK, Enter, At
  <2>3. ASSUME NEW f \in Ext, Accept(f)
        PROVE  \A g \in Ext : Serving(g)' <=> Serving(g)
    BY <1>0, <2>1, <2>3 DEF Serving, TypeOK, Accept, Call
  <2>4. ASSUME NEW f \in Ext, Skip(f)
        PROVE  \A g \in Ext : Serving(g)' <=> Serving(g)
    BY <1>0, <2>1, <2>4 DEF Serving, TypeOK, Skip, At
  <2>5. ASSUME NEW f \in Ext, ReadEof(f)
        PROVE  \A g \in Ext : Serving(g)' <=> Serving(g)
    BY <1>0, <2>1, <2>5 DEF Serving, TypeOK, ReadEof, At, Call
  <2>6. ASSUME NEW f \in Ext, Close(f)
        PROVE  \A g \in Ext : Serving(g)' <=> Serving(g)
    BY <1>0, <2>6 DEF Serving, TypeOK, Close, At
  <2>7. ASSUME NEW f \in Ext, NEW c \in ClientCall, Receive(f, c)
        PROVE  \A g \in Ext : Serving(g)' <=> Serving(g)
    <3>1. c.op # "register"
      BY DEF ClientCall, Call
    <3> QED BY <1>0, <2>1, <2>7, <3>1 DEF Serving, TypeOK, Receive, At
  <2>8. ASSUME UNCHANGED lockVars
        PROVE  \A g \in Ext : Serving(g)' <=> Serving(g)
    BY <2>8 DEF Serving, lockVars
  <2> QED BY <1>1, <1>3, <2>0, <2>2, <2>3, <2>4, <2>5, <2>6, <2>7, <2>8
          DEF Outside, ClientReads, ClientGoes, Sighup, Shutdown, Exit, AcceptFails
<1>4. CASE UNCHANGED vars
  BY <1>1, <1>4 DEF vars, tuVars, lockVars, Serving
<1> QED BY <1>2, <1>3, <1>4, NextCases

-------------------------------------------------------------------------------
(* The two ends of a call. *)

InCall == {"RINGING", "RING_BACK", "CONNECTED"}

\* When f leaves its call for a state outside calls, its other end does too.
LEMMA DisconnectSymmetry ==
  ASSUME IInv, NEW f \in Ext, NEW s \in (TuState \cup {"NONE"}) \ InCall, Disconnect(f, s)
  PROVE  CallSymmetry'
<1>0. TypeOK /\ CallSymmetry
  BY DEF IInv
<1> DEFINE p == connected[f]
<1>1. state' = [g \in Ext |-> IF g = f THEN s ELSE IF g = p THEN Released(state[g]) ELSE state[g]]
  BY DEF Disconnect
<1>2. connected' = [g \in Ext |-> IF g \in {f, p} THEN None ELSE connected[g]]
  BY DEF Disconnect
<1>3. ASSUME NEW g \in Ext \ {f, p}, state[g] \in InCall
      PROVE  connected[g] \in Ext \ {g, f, p}
  BY <1>0, <1>3, PBXAssumption DEF CallSymmetry, InCall
<1>4. p \in Ext => state[p] \in InCall /\ Released(state[p]) \notin InCall
  BY <1>0, PBXAssumption DEF CallSymmetry, InCall, Released
<1>5. SUFFICES ASSUME NEW g \in Ext
               PROVE  IF state'[g] \in InCall
                        THEN /\ connected'[g] \in Ext \ {g}
                             /\ connected'[connected'[g]] = g
                             /\ <<state'[g], state'[connected'[g]]>> \in
                                  {<<"RINGING", "RING_BACK">>, <<"RING_BACK", "RINGING">>,
                                   <<"CONNECTED", "CONNECTED">>}
                        ELSE connected'[g] = None
  BY DEF CallSymmetry, InCall
<1>6. CASE g \in {f, p}
  BY <1>1, <1>2, <1>4, <1>6
<1>7. CASE g \notin {f, p}
  <2>1. state'[g] = state[g] /\ connected'[g] = connected[g]
    BY <1>1, <1>2, <1>7
  <2>2. CASE state[g] \in InCall
    <3>1. connected[g] \in Ext \ {g, f, p}
      BY <1>3, <1>7, <2>2
    <3>2. /\ state'[connected[g]] = state[connected[g]]
          /\ connected'[connected[g]] = connected[connected[g]]
      BY <1>1, <1>2, <3>1
    <3> QED BY <1>0, <2>1, <2>2, <3>1, <3>2 DEF CallSymmetry, InCall
  <2>3. CASE state[g] \notin InCall
    BY <1>0, <2>1, <2>3 DEF CallSymmetry, InCall
  <2> QED BY <2>2, <2>3
<1> QED BY <1>6, <1>7

LEMMA SymmetryStep ==
  ASSUME IInv, [Next]_vars
  PROVE  CallSymmetry'
<1>0. TypeOK /\ CallSymmetry /\ RegisteredIffServed
  BY DEF IInv
<1>1. ASSUME UNCHANGED tuVars
      PROVE  CallSymmetry'
  BY <1>0, <1>1 DEF CallSymmetry, tuVars
<1>2. ASSUME NEW f \in Ext, NEW s \in (TuState \cup {"NONE"}) \ InCall, state[f] \notin InCall,
             state' = [state EXCEPT ![f] = s], UNCHANGED connected
      PROVE  CallSymmetry'
  BY <1>0, <1>2 DEF CallSymmetry, TypeOK, InCall
<1>3. ASSUME NEW f \in Ext, Body(f)
      PROVE  CallSymmetry'
  <2>1. CASE Register(f)
    <3>1. state[f] = "NONE" /\ extension[f] = None
      BY <1>0, <2>1 DEF RegisteredIffServed, Serving, Register, Inside, At
    <3>2. connected[f] = None
      BY <1>0, <3>1 DEF CallSymmetry
    <3>3. state' = [state EXCEPT ![f] = "ON_HOOK"] /\ UNCHANGED connected
      BY <2>1, <3>1, <3>2 DEF Register
    <3> QED BY <1>2, <3>1, <3>3 DEF TuState, InCall
  <2>2. CASE Unregister(f)
    <3>1. state[f] # "NONE"
      BY <2>2, InsideRegistered DEF Unregister, Inside, TuState
    <3>2. Disconnect(f, "NONE")
      BY <2>2, <3>1 DEF Unregister
    <3> QED BY <3>2, DisconnectSymmetry DEF InCall
  <2>3. CASE Hangup(f)
    BY <2>3, DisconnectSymmetry DEF Hangup, InCall, TuState
  <2>4. CASE Pickup(f)
    <3>1. CASE PickupIdle(f)
      BY <1>2, <3>1 DEF PickupIdle, InCall, TuState
    <3>2. CASE PickupRinging(f)
      <4> DEFINE caller == connected[f]
      <4>1. /\ caller \in Ext \ {f} /\ connected[caller] = f
            /\ state[f] = "RINGING" /\ state[caller] = "RING_BACK"
        BY <1>0, <3>2 DEF CallSymmetry, PickupRinging
      <4>2. state' = [state EXCEPT ![f] = "CONNECTED", ![caller] = "CONNECTED"] /\ UNCHANGED connected
        BY <3>2 DEF PickupRinging
      <4>3. state'[f] = "CONNECTED" /\ state'[caller] = "CONNECTED"
        BY <1>0, <4>1, <4>2 DEF TypeOK
      <4>4. ASSUME NEW g \in Ext \ {f, caller}, state[g] \in InCall
            PROVE  connected[g] \in Ext \ {f, caller}
        BY <1>0, <4>1, <4>4 DEF CallSymmetry, InCall
      <4>5. ASSUME NEW g \in Ext \ {f, caller}
            PROVE  state'[g] = state[g]
        BY <1>0, <4>1, <4>2 DEF TypeOK
      <4> SUFFICES ASSUME NEW g \in Ext
                   PROVE  IF state'[g] \in InCall
                            THEN /\ connected[g] \in Ext \ {g}
                                 /\ connected[connected[g]] = g
                                 /\ <<state'[g], state'[connected[g]]>> \in
                                      {<<"RINGING", "RING_BACK">>, <<"RING_BACK", "RINGING">>,
                                       <<"CONNECTED", "CONNECTED">>}
                            ELSE connected[g] = None
        BY <4>2 DEF CallSymmetry, InCall
      <4>6. CASE g \in {f, caller}
        BY <1>0, <4>1, <4>3, <4>6 DEF InCall, CallSymmetry
      <4>7. CASE g \notin {f, caller} /\ state[g] \in InCall
        BY <1>0, <4>4, <4>5, <4>7 DEF InCall, CallSymmetry
      <4>8. CASE g \notin {f, caller} /\ state[g] \notin InCall
        BY <1>0, <4>5, <4>8 DEF InCall, CallSymmetry
      <4> QED BY <4>6, <4>7, <4>8
    <3>3. CASE Repeat(f, connected[f])
      BY <1>1, <3>3 DEF Repeat
    <3> QED BY <2>4, <3>1, <3>2, <3>3 DEF Pickup
  <2>5. CASE Dial(f)
    <3> DEFINE callee == cmd[f].arg
    <3>1. At(f, "inside") /\ cmd[f].op = "dial" /\ callee \in Ext
      BY <2>5, DialArgument DEF Dial, Inside
    <3>2. ASSUME NEW s \in {"ERROR", "BUSY_SIGNAL"}, state[f] = "DIAL_TONE", DialFails(f, s)
          PROVE  CallSymmetry'
      BY <1>2, <3>2 DEF DialFails, InCall, TuState
    <3>3. CASE DialRings(f, callee) /\ state[f] = "DIAL_TONE" /\ state[callee] = "ON_HOOK"
      <4>1. extension[f] = f /\ extension[callee] = callee /\ callee # f
        BY <1>0, <3>1, <3>3 DEF RegisteredIffServed
      <4>2. connected[f] = None /\ connected[callee] = None
        BY <1>0, <3>1, <3>3 DEF CallSymmetry
      <4>3. /\ state' = [state EXCEPT ![f] = "RING_BACK", ![callee] = "RINGING"]
            /\ connected' = [connected EXCEPT ![f] = callee, ![callee] = f]
        BY <3>3, <4>1 DEF DialRings
      <4>4. /\ state'[f] = "RING_BACK" /\ state'[callee] = "RINGING"
            /\ connected'[f] = callee /\ connected'[callee] = f
        BY <1>0, <3>1, <4>1, <4>3 DEF TypeOK
      <4>5. ASSUME NEW g \in Ext \ {f, callee}
            PROVE  state'[g] = state[g] /\ connected'[g] = connected[g]
        BY <1>0, <3>1, <4>3 DEF TypeOK
      <4>6. ASSUME NEW g \in Ext \ {f, callee}, state[g] \in InCall
            PROVE  connected[g] \in Ext \ {f, callee}
        BY <1>0, <4>2, <4>6, PBXAssumption DEF CallSymmetry, InCall
      <4> QED BY <1>0, <3>1, <4>1, <4>4, <4>5, <4>6 DEF CallSymmetry, InCall
    <3>4. CASE Repeat(f, extension[f])
      BY <1>1, <3>4 DEF Repeat
    <3> QED BY <2>5, <3>2, <3>3, <3>4 DEF Dial
  <2>6. CASE Chat(f)
    BY <1>1, <2>6 DEF Chat, ChatSent, Repeat
  <2>7. CASE UseAfterFree(f)
    BY <1>1, <2>7 DEF UseAfterFree
  <2> QED BY <1>3, <2>1, <2>2, <2>3, <2>4, <2>5, <2>6, <2>7 DEF Body
<1>4. CASE Outside
  BY <1>1, <1>4, OutsideUnits
<1>5. CASE UNCHANGED vars
  BY <1>1, <1>5 DEF vars
<1> QED BY <1>3, <1>4, <1>5, NextCases

-------------------------------------------------------------------------------

\* IInv holds in every reachable state.
THEOREM Invariance == Spec => []IInv
<1>1. IInv /\ [Next]_vars => IInv'
  BY TypeStep, MutexStep, RegisteredStep, SymmetryStep DEF IInv
<1> QED BY InitInv, <1>1, PTL DEF Spec

\* Type correctness of the server, with any number of clients and signals.
THEOREM TypeCorrect == Spec => []TypeOK
<1>1. IInv => TypeOK
  BY DEF IInv
<1> QED BY Invariance, <1>1, PTL

\* One thread at a time is inside pbx.c and the semaphore says so: no return
\* path of the seven functions forgets its V or posts it twice.
THEOREM MutualExclusion == Spec => []MutexDiscipline
<1>1. IInv => MutexDiscipline
  BY DEF IInv
<1> QED BY Invariance, <1>1, PTL

\* A unit is registered, under its own descriptor, exactly while it is served.
THEOREM Registration == Spec => []RegisteredIffServed
<1>1. IInv => RegisteredIffServed
  BY DEF IInv
<1> QED BY Invariance, <1>1, PTL

\* The two ends of every call agree, for any number of phones.
THEOREM EndsAgree == Spec => []CallSymmetry
<1>1. IInv => CallSymmetry
  BY DEF IInv
<1> QED BY Invariance, <1>1, PTL

-------------------------------------------------------------------------------
(***************************************************************************)
(* Proof that PBX implements Exchange, for any number of phones: under the *)
(* mapping of PBX every body of pbx.c is one step of the exchange or none, *)
(* and nothing else is.  A body that ends a call finds both of its ends    *)
(* where the exchange has them because of CallSymmetry.                    *)
(***************************************************************************)

\* The tones tell the states outside calls apart.
LEMMA ToneOf ==
  ASSUME NEW s
  PROVE  /\ TuTone(s) = "absent" <=> s = "NONE"
         /\ TuTone(s) = "onhook" <=> s = "ON_HOOK"
         /\ TuTone(s) = "dial" <=> s = "DIAL_TONE"
         /\ TuTone(s) = "busy" <=> s = "BUSY_SIGNAL"
         /\ TuTone(s) = "error" <=> s = "ERROR"
         /\ TuTone(s) = "call" <=> s \notin {"NONE", "ON_HOOK", "DIAL_TONE", "BUSY_SIGNAL", "ERROR"}
BY DEF TuTone

\* The calls the units stand for.
LEMMA CallMembers ==
  /\ \A a, b \in Ext : <<a, b>> \in XRinging <=> state[a] = "RING_BACK" /\ connected[a] = b
  /\ \A r \in XRinging : r \in Ext \X Ext /\ state[r[1]] = "RING_BACK" /\ connected[r[1]] = r[2]
  /\ \A c : c \in XTalking <=> \E g \in Ext : state[g] = "CONNECTED" /\ c = {g, connected[g]}
BY DEF XRinging, XTalking

\* A unit that changes state outside calls changes its tone and no call.
LEMMA QuietChange ==
  ASSUME TypeOK, NEW f \in Ext, NEW s, state' = [state EXCEPT ![f] = s], connected' = connected,
         {s, state[f]} \cap {"RING_BACK", "CONNECTED"} = {}
  PROVE  /\ XTone' = [XTone EXCEPT ![f] = TuTone(s)]
         /\ XRinging' = XRinging /\ XTalking' = XTalking
<1>1. state'[f] = s /\ \A g \in Ext \ {f} : state'[g] = state[g]
  BY DEF TypeOK
<1>2. XTone' = [XTone EXCEPT ![f] = TuTone(s)]
  <2>1. XTone' = [g \in Ext |-> TuTone(state'[g])]
    BY DEF XTone
  <2>2. [XTone EXCEPT ![f] = TuTone(s)] = [g \in Ext |-> IF g = f THEN TuTone(s) ELSE TuTone(state[g])]
    BY DEF XTone
  <2>3. \A g \in Ext : TuTone(state'[g]) = IF g = f THEN TuTone(s) ELSE TuTone(state[g])
    BY <1>1
  <2> QED BY <2>1, <2>2, <2>3
<1>3. \A g \in Ext : \A t \in {"RING_BACK", "CONNECTED"} : state'[g] = t <=> state[g] = t
  BY <1>1
<1>4. XRinging' = XRinging
  BY <1>3 DEF XRinging
<1>5. {g \in Ext : state'[g] = "CONNECTED"} = {g \in Ext : state[g] = "CONNECTED"}
  BY <1>3
<1>6. XTalking' = XTalking
  BY <1>5 DEF XTalking
<1> QED BY <1>2, <1>4, <1>6

-------------------------------------------------------------------------------
(* The steps of the exchange that the bodies take. *)

\* A body that changes no unit is no step of the exchange.
LEMMA NoStep ==
  ASSUME UNCHANGED tuVars
  PROVE  UNCHANGED <<XTone, XRinging, XTalking>>
BY DEF tuVars, XTone, XRinging, XTalking

\* A unit changes state outside calls.
LEMMA QuietStep ==
  ASSUME TypeOK, NEW f \in Ext, NEW s, state' = [state EXCEPT ![f] = s], connected' = connected,
         \/ state[f] = "NONE" /\ s = "ON_HOOK"
         \/ state[f] = "ON_HOOK" /\ s = "DIAL_TONE"
         \/ state[f] \in {"ON_HOOK", "DIAL_TONE", "BUSY_SIGNAL", "ERROR"} /\ s \in {"ON_HOOK", "NONE"}
  PROVE  X!XNext
<1>1. /\ XTone' = [XTone EXCEPT ![f] = TuTone(s)]
      /\ XRinging' = XRinging /\ XTalking' = XTalking
  BY QuietChange
<1>2. XTone[f] = TuTone(state[f])
  BY DEF XTone
<1>3. CASE state[f] = "NONE" /\ s = "ON_HOOK"
  <2>1. XTone[f] = "absent" /\ TuTone(s) = "onhook"
    BY <1>2, <1>3, ToneOf
  <2>2. X!PlugIn(f)
    BY <1>1, <2>1 DEF X!PlugIn
  <2> QED BY <2>2 DEF X!XNext
<1>4. CASE state[f] = "ON_HOOK" /\ s = "DIAL_TONE"
  <2>1. XTone[f] = "onhook" /\ TuTone(s) = "dial"
    BY <1>2, <1>4, ToneOf
  <2>2. X!LiftHandset(f)
    BY <1>1, <2>1 DEF X!LiftHandset
  <2> QED BY <2>2 DEF X!XNext
<1>5. CASE state[f] \in {"ON_HOOK", "DIAL_TONE", "BUSY_SIGNAL", "ERROR"} /\ s \in {"ON_HOOK", "NONE"}
  <2>1. XTone[f] \notin {"absent", "call"} /\ TuTone(s) \in {"onhook", "absent"}
    BY <1>2, <1>5, ToneOf
  <2>2. X!Leave(f, TuTone(s))
    BY <1>1, <2>1 DEF X!Leave
  <2> QED BY <2>1, <2>2 DEF X!XNext
<1> QED BY <1>3, <1>4, <1>5

\* A dial that reaches nobody.
LEMMA FailStep ==
  ASSUME TypeOK, NEW f \in Ext, NEW e \in Ext, NEW s, DialFails(f, s), state[f] = "DIAL_TONE",
         \/ state[e] = "NONE" /\ s = "ERROR"
         \/ state[e] \notin {"NONE", "ON_HOOK"} /\ s = "BUSY_SIGNAL"
  PROVE  X!XNext
<1>1. /\ XTone' = [XTone EXCEPT ![f] = TuTone(s)]
      /\ XRinging' = XRinging /\ XTalking' = XTalking
  BY QuietChange DEF DialFails
<1>2. XTone[f] = "dial" /\ XTone[e] # "onhook"
  BY ToneOf DEF XTone
<1>3. TuTone(s) = IF XTone[e] = "absent" THEN "error" ELSE "busy"
  BY ToneOf DEF XTone
<1>4. X!Fail(f, e)
  BY <1>1, <1>2, <1>3 DEF X!Fail
<1> QED BY <1>4 DEF X!XNext

\* A dial that rings the other phone.
LEMMA RingStep ==
  ASSUME IInv, NEW f \in Ext, NEW e \in Ext, DialRings(f, e),
         state[f] = "DIAL_TONE", state[e] = "ON_HOOK"
  PROVE  X!XNext
<1>0. TypeOK /\ CallSymmetry /\ RegisteredIffServed
  BY DEF IInv
<1>1. extension[f] = f /\ extension[e] = e /\ e # f
  BY <1>0 DEF RegisteredIffServed
<1>2. /\ state'[f] = "RING_BACK" /\ state'[e] = "RINGING"
      /\ connected'[f] = e /\ connected'[e] = f
      /\ \A g \in Ext \ {f, e} : state'[g] = state[g] /\ connected'[g] = connected[g]
  BY <1>0, <1>1 DEF DialRings, TypeOK
<1>3. XTone[f] = "dial" /\ XTone[e] = "onhook"
  BY ToneOf DEF XTone
<1>4. XTone' = [g \in Ext |-> IF g \in {f, e} THEN "call" ELSE XTone[g]]
  <2>1. XTone' = [g \in Ext |-> TuTone(state'[g])]
    BY DEF XTone
  <2>2. ASSUME NEW g \in Ext
        PROVE  TuTone(state'[g]) = IF g \in {f, e} THEN "call" ELSE XTone[g]
    BY <1>2, ToneOf DEF XTone
  <2> QED BY <2>1, <2>2
<1>5. XRinging' = XRinging \cup {<<f, e>>}
  <2>1. ASSUME NEW a \in Ext, NEW b \in Ext
        PROVE  state'[a] = "RING_BACK" /\ connected'[a] = b
                 <=> (state[a] = "RING_BACK" /\ connected[a] = b) \/ <<a, b>> = <<f, e>>
    BY <1>2
  <2> QED BY <2>1 DEF XRinging
<1>6. XTalking' = XTalking
  <2>1. \A g \in Ext : (state'[g] = "CONNECTED" <=> state[g] = "CONNECTED")
                       /\ (state[g] = "CONNECTED" => connected'[g] = connected[g])
    BY <1>2
  <2> QED BY <2>1 DEF XTalking
<1>7. X!Ring(f, e)
  <2>1. XTone' = [g \in Ext |-> IF g \in DOMAIN [x \in {f, e} |-> "call"]
                                THEN [x \in {f, e} |-> "call"][g] ELSE XTone[g]]
    BY <1>4
  <2> QED BY <1>3, <1>5, <1>6, <2>1 DEF X!Ring, X!Retune
<1> QED BY <1>7 DEF X!XNext

\* A ringing phone is picked up.
LEMMA AnswerStep ==
  ASSUME IInv, NEW f \in Ext, PickupRinging(f)
  PROVE  X!XNext
<1> DEFINE c == connected[f]
<1>0. TypeOK /\ CallSymmetry
  BY DEF IInv
<1>1. c \in Ext \ {f} /\ connected[c] = f /\ state[f] = "RINGING" /\ state[c] = "RING_BACK"
  BY <1>0 DEF CallSymmetry, PickupRinging
<1>2. /\ state'[f] = "CONNECTED" /\ state'[c] = "CONNECTED" /\ connected' = connected
      /\ \A g \in Ext \ {f, c} : state'[g] = state[g]
  BY <1>0, <1>1 DEF PickupRinging, TypeOK
<1> HIDE DEF c
<1>3. <<c, f>> \in XRinging
  BY <1>1 DEF XRinging
<1>4. XTone' = XTone
  <2>1. XTone' = [g \in Ext |-> TuTone(state'[g])]
    BY DEF XTone
  <2>2. \A g \in Ext : TuTone(state'[g]) = TuTone(state[g])
    BY <1>1, <1>2, ToneOf
  <2> QED BY <2>1, <2>2 DEF XTone
<1>5. XRinging' = XRinging \ {<<c, f>>}
  <2>1. ASSUME NEW a \in Ext, NEW b \in Ext
        PROVE  state'[a] = "RING_BACK" /\ connected'[a] = b
                 <=> (state[a] = "RING_BACK" /\ connected[a] = b) /\ <<a, b>> # <<c, f>>
    BY <1>1, <1>2
  <2> QED BY <2>1 DEF XRinging
<1>6. XTalking' = XTalking \cup {{c, f}}
  <2>1. ASSUME NEW x
        PROVE  x \in XTalking' <=> x \in XTalking \/ x = {c, f}
    <3>1. x \in XTalking' <=> \E g \in Ext : state'[g] = "CONNECTED" /\ x = {g, connected'[g]}
      BY DEF XTalking
    <3>2. x \in XTalking <=> \E g \in Ext : state[g] = "CONNECTED" /\ x = {g, connected[g]}
      BY DEF XTalking
    <3>3. {c, f} = {f, connected[f]} /\ {c, f} = {c, connected[c]}
      BY <1>1 DEF c
    <3> QED BY <1>1, <1>2, <3>1, <3>2, <3>3
  <2> QED BY <2>1
<1>7. X!Answer(c, f)
  BY <1>3, <1>4, <1>5, <1>6 DEF X!Answer
<1> QED BY <1>1, <1>7 DEF X!XNext

\* A phone in a call leaves it, and the other phone with it.
LEMMA DropStep ==
  ASSUME IInv, NEW f \in Ext, NEW s \in {"ON_HOOK", "NONE"}, Disconnect(f, s), connected[f] # None
  PROVE  X!XNext
<1> DEFINE p == connected[f]
           t == TuTone(s)
           after == IF state[p] = "RINGING" THEN "onhook" ELSE "dial"
<1>0. TypeOK /\ CallSymmetry
  BY DEF IInv
<1>1. /\ p \in Ext \ {f} /\ connected[p] = f
      /\ <<state[f], state[p]>> \in {<<"RINGING", "RING_BACK">>, <<"RING_BACK", "RINGING">>,
                                      <<"CONNECTED", "CONNECTED">>}
  BY <1>0 DEF CallSymmetry
<1>2. /\ state'[f] = s /\ state'[p] = Released(state[p])
      /\ connected'[f] = None /\ connected'[p] = None
      /\ \A g \in Ext \ {f, p} : state'[g] = state[g] /\ connected'[g] = connected[g]
  BY <1>1 DEF Disconnect
<1>3. ASSUME NEW g \in Ext \ {f, p}, state[g] \in {"RINGING", "RING_BACK", "CONNECTED"}
      PROVE  connected[g] \in Ext \ {f, p}
  BY <1>0, <1>1, <1>3 DEF CallSymmetry
<1>4. t \in {"onhook", "absent"} /\ s \notin {"RING_BACK", "CONNECTED"}
  BY ToneOf
<1>5. TuTone(state'[p]) = after /\ state'[p] \notin {"RING_BACK", "CONNECTED"}
  BY <1>1, <1>2, ToneOf DEF Released
<1> HIDE DEF p
<1>6. XTone' = [g \in Ext |-> IF g = f THEN t ELSE IF g = p THEN after ELSE XTone[g]]
  <2>1. XTone' = [g \in Ext |-> TuTone(state'[g])]
    BY DEF XTone
  <2>2. ASSUME NEW g \in Ext
        PROVE  TuTone(state'[g]) = IF g = f THEN t ELSE IF g = p THEN after ELSE XTone[g]
    BY <1>1, <1>2, <1>5 DEF XTone
  <2> QED BY <2>1, <2>2
<1>7. XRinging' = XRinging \ {<<f, p>>, <<p, f>>}
  <2>1. ASSUME NEW a \in Ext, NEW b \in Ext
        PROVE  state'[a] = "RING_BACK" /\ connected'[a] = b
                 <=> (state[a] = "RING_BACK" /\ connected[a] = b) /\ <<a, b>> \notin {<<f, p>>, <<p, f>>}
    <3>1. CASE a \in {f, p}
      BY <1>1, <1>2, <1>4, <1>5, <3>1 DEF p
    <3>2. CASE a \notin {f, p}
      BY <1>2, <3>2
    <3> QED BY <3>1, <3>2
  <2> QED BY <2>1 DEF XRinging
<1>8. XTalking' = XTalking \ {{f, p}}
  <2>1. ASSUME NEW x
        PROVE  x \in XTalking' <=> x \in XTalking /\ x # {f, p}
    <3>1. x \in XTalking' <=> \E g \in Ext : state'[g] = "CONNECTED" /\ x = {g, connected'[g]}
      BY DEF XTalking
    <3>2. x \in XTalking <=> \E g \in Ext : state[g] = "CONNECTED" /\ x = {g, connected[g]}
      BY DEF XTalking
    <3>3. ASSUME NEW g \in Ext, state'[g] = "CONNECTED", x = {g, connected'[g]}
          PROVE  x \in XTalking /\ x # {f, p}
      <4>1. g \notin {f, p}
        BY <1>2, <1>4, <1>5, <3>3
      <4>2. state[g] = "CONNECTED" /\ x = {g, connected[g]}
        BY <1>2, <3>3, <4>1
      <4> QED BY <3>2, <4>1, <4>2
    <3>4. ASSUME NEW g \in Ext, state[g] = "CONNECTED", x = {g, connected[g]}, x # {f, p}
          PROVE  x \in XTalking'
      <4>1. g \notin {f, p}
        <5>1. {f, connected[f]} = {f, p} /\ {p, connected[p]} = {f, p}
          BY <1>1 DEF p
        <5> QED BY <3>4, <5>1
      <4>2. state'[g] = "CONNECTED" /\ x = {g, connected'[g]}
        BY <1>2, <3>4, <4>1
      <4> QED BY <3>1, <4>2
    <3> QED BY <3>1, <3>2, <3>3, <3>4
  <2> QED BY <2>1
<1>9. X!Drop(f, p, t)
  <2>1. \/ <<p, f>> \in XRinging /\ after = "dial"
        \/ {f, p} \in XTalking /\ after = "dial"
        \/ <<f, p>> \in XRinging /\ after = "onhook"
    <3>1. connected[f] = p
      BY DEF p
    <3>2. CASE state[f] = "RINGING" /\ state[p] = "RING_BACK"
      BY <1>1, <3>1, <3>2, CallMembers
    <3>3. CASE state[f] = "RING_BACK" /\ state[p] = "RINGING"
      BY <1>1, <3>1, <3>3, CallMembers
    <3>4. CASE state[f] = "CONNECTED" /\ state[p] = "CONNECTED"
      BY <1>1, <3>1, <3>4, CallMembers
    <3> QED BY <1>1, <3>2, <3>3, <3>4
  <2>2. XTone' = [g \in Ext |->
                    IF g \in DOMAIN [x \in {f, p} |-> IF x = f THEN t ELSE after]
                      THEN [x \in {f, p} |-> IF x = f THEN t ELSE after][g] ELSE XTone[g]]
    BY <1>6
  <2> HIDE DEF t, after
  <2> QED BY <1>1, <1>7, <1>8, <2>1, <2>2 DEF X!Drop, X!Retune
<1> QED BY <1>1, <1>4, <1>9 DEF X!XNext

\* A phone is put down or unplugged, in a call or not.
LEMMA EndStep ==
  ASSUME IInv, NEW f \in Ext, NEW s \in {"ON_HOOK", "NONE"}, Disconnect(f, s), state[f] # "NONE"
  PROVE  X!XNext
<1>1. CASE connected[f] # None
  BY <1>1, DropStep
<1>2. CASE connected[f] = None
  <2>1. TypeOK /\ state[f] \in {"ON_HOOK", "DIAL_TONE", "BUSY_SIGNAL", "ERROR"}
    BY <1>2, PBXAssumption DEF IInv, TypeOK, CallSymmetry, TuState
  <2>2. state' = [state EXCEPT ![f] = s] /\ connected' = connected
    BY <1>2, <2>1, PBXAssumption DEF Disconnect, TypeOK
  <2> QED BY <2>1, <2>2, QuietStep
<1> QED BY <1>1, <1>2

-------------------------------------------------------------------------------

LEMMA ExchangeStep ==
  ASSUME IInv, [Next]_vars
  PROVE  X!XNext \/ UNCHANGED <<XTone, XRinging, XTalking>>
<1>0. TypeOK
  BY DEF IInv
<1>1. ASSUME NEW f \in Ext, Body(f)
      PROVE  X!XNext \/ UNCHANGED tuVars
  <2>1. CASE Register(f)
    <3>1. state[f] = "NONE" /\ extension[f] = None
      BY <2>1 DEF IInv, RegisteredIffServed, Serving, Register, Inside, At
    <3>2. connected[f] = None
      BY <3>1 DEF IInv, CallSymmetry
    <3>3. state' = [state EXCEPT ![f] = "ON_HOOK"] /\ UNCHANGED connected
      BY <2>1, <3>1, <3>2 DEF Register
    <3> QED BY <1>0, <3>1, <3>3, QuietStep
  <2>2. CASE Unregister(f)
    <3>1. state[f] # "NONE"
      BY <2>2, InsideRegistered DEF Unregister, Inside, TuState
    <3>2. Disconnect(f, "NONE")
      BY <2>2, <3>1 DEF Unregister
    <3> QED BY <3>1, <3>2, EndStep
  <2>3. CASE Hangup(f)
    <3>1. state[f] # "NONE"
      BY <2>3, InsideRegistered DEF Hangup, Inside, TuState
    <3> QED BY <2>3, <3>1, EndStep DEF Hangup
  <2>4. CASE Pickup(f)
    <3>1. CASE PickupIdle(f)
      BY <1>0, <3>1, QuietStep DEF PickupIdle
    <3>2. CASE PickupRinging(f)
      BY <3>2, AnswerStep
    <3> QED BY <2>4, <3>1, <3>2 DEF Pickup, Repeat
  <2>5. CASE Dial(f)
    <3>1. cmd[f].arg \in Ext
      BY <2>5, DialArgument DEF Dial, Inside
    <3> QED BY <1>0, <2>5, <3>1, FailStep, RingStep DEF Dial, Repeat
  <2>6. CASE Chat(f)
    BY <2>6 DEF Chat, ChatSent, Repeat
  <2>7. CASE UseAfterFree(f)
    BY <2>7 DEF UseAfterFree
  <2> QED BY <1>1, <2>1, <2>2, <2>3, <2>4, <2>5, <2>6, <2>7 DEF Body
<1>2. UNCHANGED vars => UNCHANGED tuVars
  BY DEF vars
<1> QED BY <1>1, <1>2, NoStep, OutsideUnits, NextCases

\* pbx.c implements the telephone exchange: with any number of threads each of
\* its functions is, for both phones of a call at once, one step of Exchange.
THEOREM Implementation == Spec => ImplementsExchange
<1>1. Init => X!XInit
  <2> SUFFICES ASSUME Init PROVE X!XInit
    OBVIOUS
  <2>1. XTone = [e \in Ext |-> "absent"]
    BY ToneOf DEF Init, XTone
  <2>2. XRinging = {} /\ XTalking = {}
    BY DEF Init, XRinging, XTalking
  <2> QED BY <2>1, <2>2 DEF X!XInit
<1>2. IInv /\ [Next]_vars => [X!XNext]_(X!xvars)
  BY ExchangeStep DEF X!xvars
<1> QED BY <1>1, <1>2, Invariance, PTL DEF Spec, ImplementsExchange, X!XSpec
===============================================================================
