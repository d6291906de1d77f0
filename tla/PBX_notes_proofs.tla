--------------------------- MODULE PBX_notes_proofs ---------------------------
(***************************************************************************)
(* Proofs about what PBX writes to its clients.  Announces says what the   *)
(* writes of a body of pbx.c have to do with the states it changes; that   *)
(* every body keeps to it, on the invariant IInv of PBX_proofs, gives the  *)
(* notifications.  NetInv adds what the life of a connection contributes:  *)
(* a descriptor is closed only after its client has gone.                  *)
(***************************************************************************)
EXTENDS PBX_proofs

\* What the body of a call of f has to do with the messages out it writes:
\* they reach registered units (or the one being registered), a notification
\* carries the new state of its unit, every unit whose state changes gets one,
\* so does f itself unless it unregisters, and f gets nothing else; the others
\* get nothing else but chat in a call.
Announces(f, out) ==
  /\ \A m \in out : m.to \in Ext /\ (state[m.to] # "NONE" \/ (m.to = f /\ cmd[f].op = "register"))
  /\ \A m \in out : m.kind # "CHAT" => m.kind = state'[m.to]
  /\ \A g \in Ext \ {f} : state'[g] # state[g] => \E m \in out : m.to = g /\ m.kind # "CHAT"
  /\ cmd[f].op # "unregister" => \E m \in out : m.to = f
  /\ \A m \in out : m.to = f => m.kind # "CHAT"
  /\ \A m \in out : m.to # f =>
       IF m.kind = "CHAT" THEN state[m.to] = "CONNECTED" /\ state'[m.to] = "CONNECTED"
                          ELSE state'[m.to] # state[m.to]

-------------------------------------------------------------------------------
(* What Write does to one connection. *)

\* A connection nothing is written to is left alone.
LEMMA WriteElsewhere ==
  ASSUME TypeOK, NEW out, Write(out), NEW g \in Ext, \A m \in out : m.to # g
  PROVE  wire'[g] = wire[g] /\ told'[g] = told[g] /\ link'[g] = link[g]
<1>1. {m \in out : m.to = g} = {}
  OBVIOUS
<1> QED BY <1>1 DEF Write

\* The notification kept in told is one of those written, if any is.
LEMMA WriteNotes ==
  ASSUME TypeOK, NEW out, Write(out), NEW g \in Ext
  PROVE  /\ (\A m \in out : m.to = g => m.kind = "CHAT") => told'[g] = told[g]
         /\ (\E m \in out : m.to = g /\ m.kind # "CHAT")
              => told'[g] \in out /\ told'[g].to = g /\ told'[g].kind # "CHAT"
<1> DEFINE notes == {m \in {n \in out : n.to = g} : m.kind # "CHAT"}
<1>1. told'[g] = IF notes = {} THEN told[g] ELSE CHOOSE m \in notes : TRUE
  BY DEF Write
<1>2. CASE notes = {}
  BY <1>1, <1>2
<1>3. CASE notes # {}
  <2>1. (CHOOSE m \in notes : TRUE) \in notes
    BY <1>3
  <2> HIDE DEF notes
  <2>2. told'[g] \in notes
    BY <1>1, <1>3, <2>1
  <2> QED BY <1>3, <2>2 DEF notes
<1> QED BY <1>2, <1>3

\* A connection that is up gets one of the messages written to it; the others
\* get none, and never come up.
LEMMA WriteWire ==
  ASSUME TypeOK, NEW out, Write(out), NEW g \in Ext
  PROVE  /\ link[g] # "up" => wire'[g] = wire[g]
         /\ link[g] = "up" /\ (\E m \in out : m.to = g)
              => \E m \in out : m.to = g /\ wire'[g] = Append(wire[g], m)
         /\ link'[g] = link[g] \/ (link[g] = "gone" /\ link'[g] = "reset")
<1> DEFINE to == {m \in out : m.to = g}
<1>1. wire'[g] = IF to = {} \/ link[g] # "up" THEN wire[g]
                 ELSE Append(wire[g], CHOOSE m \in to : TRUE)
  BY DEF Write
<1>2. link'[g] = IF to # {} /\ link[g] = "gone" THEN "reset" ELSE link[g]
  BY DEF Write
<1>3. link'[g] = link[g] \/ (link[g] = "gone" /\ link'[g] = "reset")
  BY <1>2
<1>4. CASE to = {} \/ link[g] # "up"
  BY <1>1, <1>3, <1>4
<1>5. CASE to # {} /\ link[g] = "up"
  <2>1. (CHOOSE m \in to : TRUE) \in to
    BY <1>5
  <2> HIDE DEF to
  <2>2. PICK m \in to : wire'[g] = Append(wire[g], m)
    BY <1>1, <1>5, <2>1
  <2> QED BY <1>3, <1>5, <2>2 DEF to
<1> QED BY <1>4, <1>5

-------------------------------------------------------------------------------
(* Every body announces what it does. *)

\* Whom a message goes to and what it says.
LEMMA MessageFields ==
  ASSUME NEW to, NEW kind, NEW num
  PROVE  /\ Note(to, kind, num).to = to /\ Note(to, kind, num).kind = kind
         /\ ChatLine(to).to = to /\ ChatLine(to).kind = "CHAT"
BY DEF Note, ChatLine

\* A unit in some state has the number of its descriptor.
LEMMA OwnNumber ==
  ASSUME IInv, NEW g \in Ext, state[g] # "NONE"
  PROVE  extension[g] = g
BY DEF IInv, RegisteredIffServed

\* Ending a call announces the state of the other end, when that changes.
LEMMA ReleaseAnnounced ==
  ASSUME IInv, NEW f \in Ext, NEW s, Disconnect(f, s), state[f] # "NONE"
  PROVE  /\ state'[f] = s
         /\ \A m \in ReleaseNotes(f) :
              /\ m.to \in Ext \ {f} /\ state[m.to] # "NONE" /\ m.kind = state'[m.to]
              /\ m.kind # "CHAT" /\ state'[m.to] # state[m.to]
         /\ \A g \in Ext \ {f} : state'[g] # state[g]
              => \E m \in ReleaseNotes(f) : m.to = g /\ m.kind # "CHAT"
<1> DEFINE p == connected[f]
           note(g) == Note(extension[g], Released(state[g]), extension[g])
<1>1. state' = [g \in Ext |-> IF g = f THEN s ELSE IF g = p THEN Released(state[g]) ELSE state[g]]
  BY DEF Disconnect
<1>2. p \in Ext => p # f
  BY PBXAssumption DEF IInv, CallSymmetry
<1>3. ASSUME NEW g \in Ext, Released(state[g]) # state[g]
      PROVE  /\ note(g).to = g /\ note(g).kind = Released(state[g]) /\ note(g).kind # "CHAT"
             /\ state[g] # "NONE"
  <2>1. state[g] # "NONE" /\ Released(state[g]) # "CHAT"
    BY <1>3 DEF Released
  <2>2. extension[g] = g
    BY <2>1, OwnNumber
  <2> QED BY <2>1, <2>2, MessageFields
<1>4. ReleaseNotes(f) = {note(q) : q \in {r \in Ext : r = p /\ Released(state[r]) # state[r]}}
  BY DEF ReleaseNotes
<1> HIDE DEF note
<1>5. ASSUME NEW m \in ReleaseNotes(f)
      PROVE  /\ m.to \in Ext \ {f} /\ state[m.to] # "NONE" /\ m.kind = state'[m.to]
             /\ m.kind # "CHAT" /\ state'[m.to] # state[m.to]
  <2>1. p \in Ext /\ Released(state[p]) # state[p] /\ m = note(p)
    BY <1>4
  <2> QED BY <1>1, <1>2, <1>3, <2>1
<1>6. ASSUME NEW g \in Ext \ {f}, state'[g] # state[g]
      PROVE  \E m \in ReleaseNotes(f) : m.to = g /\ m.kind # "CHAT"
  <2>1. g = p /\ Released(state[g]) # state[g]
    BY <1>1, <1>6
  <2>2. note(g) \in ReleaseNotes(f)
    BY <1>4, <2>1
  <2> QED BY <1>3, <2>1, <2>2
<1> QED BY <1>1, <1>5, <1>6

\* Every body that runs on a PBX that has not been freed writes such messages.
LEMMA BodyAnnounces ==
  ASSUME IInv, NEW f \in Ext, Body(f), ~UseAfterFree(f)
  PROVE  \E out : Write(out) /\ Announces(f, out)
<1>0. TypeOK /\ CallSymmetry /\ RegisteredIffServed
  BY DEF IInv
<1>1. ASSUME cmd[f].op # "register", At(f, "inside")
      PROVE  state[f] # "NONE" /\ state[f] # "CHAT" /\ extension[f] = f
  BY <1>1, InsideRegistered DEF TuState
<1>2. CASE Register(f)
  <2>1. state[f] = "NONE" /\ extension[f] = None
    BY <1>0, <1>2 DEF RegisteredIffServed, Serving, Register, Inside, At
  <2>2. connected[f] = None
    BY <1>0, <2>1 DEF CallSymmetry
  <2>3. state' = [state EXCEPT ![f] = "ON_HOOK"] /\ Write({Note(f, "ON_HOOK", f)})
    BY <1>2, <2>1, <2>2 DEF Register
  <2>4. Announces(f, {Note(f, "ON_HOOK", f)})
    BY <1>0, <1>2, <2>3, MessageFields DEF Announces, TypeOK, Register, Inside
  <2> QED BY <2>3, <2>4
<1>3. CASE Unregister(f)
  <2>1. cmd[f].op = "unregister" /\ At(f, "inside")
    BY <1>3 DEF Unregister, Inside
  <2>2. Disconnect(f, "NONE") /\ Write(ReleaseNotes(f))
    BY <1>1, <1>3, <2>1 DEF Unregister
  <2>3. Announces(f, ReleaseNotes(f))
    BY <1>1, <2>1, <2>2, ReleaseAnnounced DEF Announces
  <2> QED BY <2>2, <2>3
<1>4. CASE Hangup(f)
  <2> DEFINE own == Note(extension[f], "ON_HOOK", extension[f])
  <2>1. cmd[f].op = "hangup" /\ At(f, "inside")
    BY <1>4 DEF Hangup, Inside
  <2>2. Disconnect(f, "ON_HOOK") /\ Write({own} \cup ReleaseNotes(f))
    BY <1>4 DEF Hangup
  <2>3. own.to = f /\ own.kind = "ON_HOOK"
    BY <1>1, <2>1, MessageFields
  <2> HIDE DEF own
  <2>4. Announces(f, {own} \cup ReleaseNotes(f))
    BY <1>1, <2>1, <2>2, <2>3, ReleaseAnnounced DEF Announces
  <2> QED BY <2>2, <2>4
<1>5. ASSUME cmd[f].op \notin {"register", "unregister"}, At(f, "inside"), NEW kind, NEW num,
             Write({Note(extension[f], kind, num)}), kind # "CHAT",
             state'[f] = kind, \A g \in Ext \ {f} : state'[g] = state[g]
      PROVE  \E out : Write(out) /\ Announces(f, out)
  <2> DEFINE own == Note(extension[f], kind, num)
  <2>1. own.to = f /\ own.kind = kind
    BY <1>1, <1>5, MessageFields
  <2>2. Write({own})
    BY <1>5
  <2> HIDE DEF own
  <2>3. Announces(f, {own})
    BY <1>1, <1>5, <2>1 DEF Announces
  <2> QED BY <2>2, <2>3
<1>6. ASSUME cmd[f].op \notin {"register", "unregister"}, At(f, "inside"), NEW num, Repeat(f, num)
      PROVE  \E out : Write(out) /\ Announces(f, out)
  BY <1>1, <1>5, <1>6 DEF Repeat, tuVars
<1>7. ASSUME cmd[f].op \notin {"register", "unregister"}, At(f, "inside"),
             NEW p \in Ext \ {f}, state[p] # "NONE", NEW own, NEW other, Write({own, other}),
             own.to = f, own.kind = state'[f], own.kind # "CHAT",
             other.to = p,
             other.kind # "CHAT" => other.kind = state'[p] /\ state'[p] # state[p],
             other.kind = "CHAT" => state[p] = "CONNECTED" /\ state'[p] = "CONNECTED",
             state'[p] # state[p] => other.kind # "CHAT",
             \A g \in Ext \ {f, p} : state'[g] = state[g]
      PROVE  \E out : Write(out) /\ Announces(f, out)
  <2>1. Announces(f, {own, other})
    BY <1>1, <1>7 DEF Announces
  <2> QED BY <1>7, <2>1
<1>8. CASE Pickup(f)
  <2>1. cmd[f].op = "pickup" /\ At(f, "inside")
    BY <1>8 DEF Pickup, Inside
  <2>2. CASE PickupIdle(f)
    <3>1. state'[f] = "DIAL_TONE" /\ \A g \in Ext \ {f} : state'[g] = state[g]
      BY <1>0, <2>2 DEF PickupIdle, TypeOK
    <3> QED BY <1>5, <2>1, <2>2, <3>1 DEF PickupIdle
  <2>3. CASE PickupRinging(f)
    <3> DEFINE caller == connected[f]
               own == Note(extension[f], "CONNECTED", caller)
               other == Note(extension[caller], "CONNECTED", connected[caller])
    <3>1. caller \in Ext \ {f} /\ state[caller] = "RING_BACK"
      BY <1>0, <2>3 DEF CallSymmetry, PickupRinging
    <3>2. /\ state'[f] = "CONNECTED" /\ state'[caller] = "CONNECTED"
          /\ \A g \in Ext \ {f, caller} : state'[g] = state[g]
      BY <1>0, <2>3, <3>1 DEF PickupRinging, TypeOK
    <3>3. own.to = f /\ own.kind = "CONNECTED"
      BY <1>1, <2>1, MessageFields
    <3>4. other.to = caller /\ other.kind = "CONNECTED"
      BY <3>1, OwnNumber, MessageFields
    <3>5. Write({own, other})
      BY <2>3 DEF PickupRinging
    <3> HIDE DEF own, other, caller
    <3> QED BY <1>7, <2>1, <3>1, <3>2, <3>3, <3>4, <3>5
  <2> QED BY <1>6, <1>8, <2>1, <2>2, <2>3 DEF Pickup
<1>9. CASE Dial(f)
  <2> DEFINE callee == cmd[f].arg
  <2>1. cmd[f].op = "dial" /\ At(f, "inside") /\ callee \in Ext
    BY <1>9, DialArgument DEF Dial, Inside
  <2>2. ASSUME NEW s \in {"ERROR", "BUSY_SIGNAL"}, DialFails(f, s)
        PROVE  \E out : Write(out) /\ Announces(f, out)
    <3>1. state'[f] = s /\ \A g \in Ext \ {f} : state'[g] = state[g]
      BY <1>0, <2>2 DEF DialFails, TypeOK
    <3> QED BY <1>5, <2>1, <2>2, <3>1 DEF DialFails
  <2>3. CASE DialRings(f, callee) /\ state[f] = "DIAL_TONE" /\ state[callee] = "ON_HOOK"
    <3> DEFINE own == Note(extension[f], "RING_BACK", None)
               other == Note(extension[callee], "RINGING", None)
    <3>1. callee \in Ext \ {f} /\ state[callee] = "ON_HOOK"
      BY <2>1, <2>3
    <3>2. /\ state'[f] = "RING_BACK" /\ state'[callee] = "RINGING"
          /\ \A g \in Ext \ {f, callee} : state'[g] = state[g]
      BY <1>0, <2>3, <3>1 DEF DialRings, TypeOK
    <3>3. own.to = f /\ own.kind = "RING_BACK"
      BY <1>1, <2>1, MessageFields
    <3>4. other.to = callee /\ other.kind = "RINGING"
      BY <3>1, OwnNumber, MessageFields
    <3>5. Write({own, other})
      BY <2>3 DEF DialRings
    <3> HIDE DEF own, other, callee
    <3> QED BY <1>7, <2>1, <3>1, <3>2, <3>3, <3>4, <3>5
  <2> QED BY <1>6, <1>9, <2>1, <2>2, <2>3 DEF Dial
<1>10. CASE Chat(f)
  <2>1. cmd[f].op = "chat" /\ At(f, "inside")
    BY <1>10 DEF Chat, Inside
  <2>2. CASE ChatSent(f)
    <3> DEFINE p == connected[f]
               own == Note(extension[f], "CONNECTED", p)
               other == ChatLine(extension[p])
    <3>1. p \in Ext \ {f} /\ state[p] = "CONNECTED" /\ p # None
      BY <1>0, <2>2, PBXAssumption DEF CallSymmetry, ChatSent
    <3>2. state' = state /\ state[f] = "CONNECTED"
      BY <2>2 DEF ChatSent, tuVars
    <3>3. own.to = f /\ own.kind = "CONNECTED"
      BY <1>1, <2>1, MessageFields
    <3>4. other.to = p /\ other.kind = "CHAT"
      BY <3>1, OwnNumber, MessageFields
    <3>5. Write({other, own})
      BY <2>2, <3>1 DEF ChatSent
    <3>6. {other, own} = {own, other}
      OBVIOUS
    <3> HIDE DEF own, other, p
    <3> QED BY <1>7, <2>1, <3>1, <3>2, <3>3, <3>4, <3>5, <3>6
  <2> QED BY <1>6, <1>10, <2>1, <2>2 DEF Chat
<1> QED BY <1>2, <1>3, <1>4, <1>8, <1>9, <1>10 DEF Body

-------------------------------------------------------------------------------
(* The connections, and what has been written to them. *)

\* A connection that is not up holds nothing, a thread unregisters and closes
\* only after its client has gone, and a call to either function is not left over
\* when the thread is out of it.
Connections ==
  \A f \in Ext :
    /\ link[f] # "up" => wire[f] = <<>>
    /\ cmd[f].op = "unregister" \/ pc[f] = "closing" => link[f] \in {"gone", "reset"}
    /\ cmd[f].op \in {"register", "unregister"} => pc[f] \in {"waiting", "inside"}

\* The inductive invariant of this module, on top of IInv.
NetInv ==
  /\ Connections
  /\ FreshConnectionSilent
  /\ ClientsAreTold

\* A unit that is being registered, or that has no connection, is in no state.
LEMMA Unregistered ==
  ASSUME IInv, NEW g \in Ext, cmd[g].op = "register" \/ pc[g] \in {"closed", "closing"},
         cmd[g].op = "register" => pc[g] \in {"waiting", "inside"}
  PROVE  state[g] = "NONE"
BY DEF IInv, RegisteredIffServed, Serving

LEMMA InitNet == Init => NetInv
BY DEF Init, NetInv, Connections, FreshConnectionSilent, ClientsAreTold, NoCall, Call, Note

\* What a body does to the connection of one unit, and to its thread.
LEMMA BodyNet ==
  ASSUME IInv, NetInv, NEW f \in Ext, Body(f), ~UseAfterFree(f), NEW g \in Ext
  PROVE  /\ link'[g] # "up" => wire'[g] = <<>>
         /\ cmd'[g].op = "unregister" \/ pc'[g] = "closing" => link'[g] \in {"gone", "reset"}
         /\ cmd'[g].op \in {"register", "unregister"} => pc'[g] \in {"waiting", "inside"}
         /\ cmd'[g].op = "register" \/ pc'[g] = "closed" => wire'[g] = <<>>
         /\ told'[g].to = g
         /\ pc'[g] # "closing" => told'[g].kind = state'[g]
<1>0. TypeOK /\ Connections /\ FreshConnectionSilent /\ ClientsAreTold
  BY DEF IInv, NetInv
<1>1. PICK out : Write(out) /\ Announces(f, out)
  BY BodyAnnounces
<1>2. /\ At(f, "inside")
      /\ Leave(f, IF cmd[f].op = "unregister" THEN "closing" ELSE "reading")
  BY BodyReturns
<1>3. CASE g = f
  <2>1. cmd'[f] = NoCall /\ pc'[f] = IF cmd[f].op = "unregister" THEN "closing" ELSE "reading"
    BY <1>0, <1>2 DEF Leave, TypeOK
  <2>2. cmd'[f].op = "none"
    BY <2>1 DEF NoCall, Call
  <2>3. link'[f] # "up" => wire'[f] = <<>>
    BY <1>0, <1>1, WriteWire DEF Connections
  <2>4. cmd[f].op = "unregister" => link'[f] \in {"gone", "reset"}
    BY <1>0, <1>1, WriteWire DEF Connections
  <2>5. told'[f].to = f
    BY <1>0, <1>1, WriteNotes DEF ClientsAreTold
  <2>6. cmd[f].op # "unregister" => told'[f].kind = state'[f]
    BY <1>0, <1>1, WriteNotes DEF Announces
  <2> QED BY <1>3, <2>1, <2>2, <2>3, <2>4, <2>5, <2>6
<1>4. CASE g # f
  <2>1. cmd'[g] = cmd[g] /\ pc'[g] = pc[g]
    BY <1>0, <1>2, <1>4 DEF Leave, TypeOK
  <2>2. link'[g] # "up" => wire'[g] = <<>>
    BY <1>0, <1>1, WriteWire DEF Connections
  <2>3. cmd[g].op = "unregister" \/ pc[g] = "closing" => link'[g] \in {"gone", "reset"}
    BY <1>0, <1>1, WriteWire DEF Connections
  <2>4. cmd[g].op = "register" \/ pc[g] \in {"closed", "closing"} => \A m \in out : m.to # g
    BY <1>0, <1>1, <1>4, Unregistered DEF Announces, Connections
  <2>5. cmd[g].op = "register" \/ pc[g] = "closed" => wire'[g] = <<>>
    BY <1>0, <1>1, <2>4, WriteElsewhere DEF FreshConnectionSilent
  <2>6. told'[g].to = g
    BY <1>0, <1>1, WriteNotes DEF ClientsAreTold
  <2>7. pc[g] # "closing" => told'[g].kind = state'[g]
    <3>1. CASE \E m \in out : m.to = g /\ m.kind # "CHAT"
      BY <1>0, <1>1, <3>1, WriteNotes DEF Announces
    <3>2. CASE \A m \in out : m.to = g => m.kind = "CHAT"
      <4>1. state'[g] = state[g]
        BY <1>1, <1>4, <3>2 DEF Announces
      <4> QED BY <1>0, <1>1, <3>2, <4>1, WriteNotes DEF ClientsAreTold
    <3> QED BY <3>1, <3>2
  <2>8. cmd[g].op \in {"register", "unregister"} => pc[g] \in {"waiting", "inside"}
    BY <1>0 DEF Connections
  <2> QED BY <2>1, <2>2, <2>3, <2>5, <2>6, <2>7, <2>8
<1> QED BY <1>3, <1>4

\* A step outside pbx.c changes no unit, and one connection at most.
LEMMA OutsideNet ==
  ASSUME IInv, NetInv, Outside
  PROVE  NetInv'
<1>0. TypeOK /\ Connections /\ FreshConnectionSilent /\ ClientsAreTold
  BY DEF IInv, NetInv
<1> USE DEF NetInv, Connections, FreshConnectionSilent, ClientsAreTold
<1>1. ASSUME NEW f \in Ext, Enter(f)
      PROVE  NetInv'
  BY <1>0, <1>1 DEF Enter, At, TypeOK, tuVars, netVars
<1>2. ASSUME NEW f \in Ext, Accept(f)
      PROVE  NetInv'
  <2>1. pc[f] = "closed" /\ wire[f] = <<>>
    BY <1>0, <1>2 DEF Accept
  <2> QED BY <1>0, <1>2, <2>1 DEF Accept, TypeOK, tuVars, Call
<1>3. ASSUME NEW f \in Ext, Skip(f)
      PROVE  NetInv'
  BY <1>0, <1>3 DEF Skip, At, TypeOK, tuVars, netVars, NoCall, Call
<1>4. ASSUME NEW f \in Ext, ReadEof(f)
      PROVE  NetInv'
  BY <1>0, <1>4 DEF ReadEof, At, TypeOK, tuVars, netVars, Call
<1>5. ASSUME NEW f \in Ext, NEW c \in ClientCall, Receive(f, c)
      PROVE  NetInv'
  <2>1. c.op \notin {"register", "unregister"}
    BY DEF ClientCall, Call
  <2> QED BY <1>0, <1>5, <2>1 DEF Receive, At, TypeOK, tuVars, netVars
<1>6. ASSUME NEW f \in Ext, Close(f)
      PROVE  NetInv'
  <2>1. pc[f] = "closing" /\ wire[f] = <<>> /\ state[f] = "NONE"
    BY <1>0, <1>6, Unregistered DEF Close, At
  <2>2. cmd[f].op # "unregister" /\ cmd[f].op # "register"
    BY <1>0, <2>1
  <2> QED BY <1>0, <1>6, <2>1, <2>2 DEF Close, TypeOK, tuVars, Note
<1>7. ASSUME NEW f \in Ext, ClientReads(f)
      PROVE  NetInv'
  BY <1>0, <1>7 DEF ClientReads, TypeOK, tuVars, lockVars
<1>8. ASSUME NEW f \in Ext, ClientGoes(f)
      PROVE  NetInv'
  BY <1>0, <1>8 DEF ClientGoes, TypeOK, tuVars, lockVars
<1>9. ASSUME UNCHANGED <<tuVars, lockVars, netVars>>
      PROVE  NetInv'
  BY <1>0, <1>9 DEF tuVars, lockVars, netVars
<1> QED BY <1>1, <1>2, <1>3, <1>4, <1>5, <1>6, <1>7, <1>8, <1>9
        DEF Outside, Sighup, Shutdown, Exit, AcceptFails

LEMMA NetStep ==
  ASSUME IInv, NetInv, [Next]_vars
  PROVE  NetInv'
<1>1. ASSUME UNCHANGED <<tuVars, lockVars, netVars>>
      PROVE  NetInv'
  BY <1>1 DEF NetInv, Connections, FreshConnectionSilent, ClientsAreTold, tuVars, lockVars, netVars
<1>2. ASSUME NEW f \in Ext, UseAfterFree(f)
      PROVE  NetInv'
  BY <1>1, <1>2 DEF UseAfterFree
<1>3. ASSUME NEW f \in Ext, Body(f), ~UseAfterFree(f)
      PROVE  NetInv'
  BY <1>3, BodyNet DEF NetInv, Connections, FreshConnectionSilent, ClientsAreTold
<1>4. CASE UNCHANGED vars
  BY <1>1, <1>4 DEF vars
<1> QED BY <1>2, <1>3, <1>4, OutsideNet, NextCases

\* NetInv holds in every reachable state.
LEMMA NetInvariance == Spec => []NetInv
<1>1. IInv /\ NetInv /\ [Next]_vars => NetInv'
  BY NetStep
<1> QED BY Invariance, InitNet, <1>1, PTL DEF Spec

-------------------------------------------------------------------------------

\* Every client has last been told the state its phone is in, by whatever
\* thread changed it (README of hw5: a notification of the current state of
\* that client).
THEOREM ToldTheState == Spec => []ClientsAreTold
<1>1. NetInv => ClientsAreTold
  BY DEF NetInv
<1> QED BY NetInvariance, <1>1, PTL

\* Nothing written for the client that had a descriptor before reaches the
\* client that has it now.
THEOREM FreshIsSilent == Spec => []FreshConnectionSilent
<1>1. NetInv => FreshConnectionSilent
  BY DEF NetInv
<1> QED BY NetInvariance, <1>1, PTL

\* Every call of a client is answered on its own connection with the state the
\* call leaves it in (pbx.h: in all cases, a notification of the new state is
\* sent to the network client underlying this TU).
THEOREM CallsAnswered == Spec => EveryCallAnswered
<1> DEFINE Answered(f) ==
      pc[f] = "inside" /\ pc'[f] = "reading" /\ link[f] = "up"
        => \E m \in Message : wire'[f] = Append(wire[f], m) /\ m.kind = state'[f]
<1>1. ASSUME IInv, IInv', [Next]_vars, NEW f \in Ext, pc[f] = "inside", pc'[f] = "reading", link[f] = "up"
      PROVE  \E m \in Message : wire'[f] = Append(wire[f], m) /\ m.kind = state'[f]
  <2>0. TypeOK /\ TypeOK'
    BY <1>1 DEF IInv
  <2>1. ASSUME NEW g \in Ext, Body(g)
        PROVE  g = f /\ ~UseAfterFree(g)
    <3>1. pc'[f] = pc[f] \/ (pc' = [pc EXCEPT ![g] = pc'[g]])
      BY <1>1, <2>0, <2>1, BodyLeaves DEF Leave, TypeOK, lockVars
    <3>2. g = f
      BY <1>1, <2>0, <3>1 DEF TypeOK
    <3> QED BY <1>1, <3>2 DEF UseAfterFree, lockVars
  <2>2. ~Outside
    <3>1. ASSUME NEW g \in Ext, Enter(g)
          PROVE  FALSE
      BY <1>1, <2>0, <3>1 DEF Enter, At, TypeOK
    <3>2. ASSUME NEW g \in Ext, Accept(g) \/ Skip(g) \/ ReadEof(g) \/ Close(g)
          PROVE  FALSE
      <4>1. pc[g] # "inside" /\ \E p : pc' = [pc EXCEPT ![g] = p]
        BY <3>2 DEF Accept, Skip, ReadEof, Close, At
      <4> QED BY <1>1, <2>0, <4>1 DEF TypeOK
    <3>3. ASSUME NEW g \in Ext, NEW c \in ClientCall, Receive(g, c)
          PROVE  FALSE
      BY <1>1, <2>0, <3>3 DEF Receive, At, TypeOK
    <3>4. ASSUME UNCHANGED lockVars
          PROVE  FALSE
      BY <1>1, <3>4 DEF lockVars
    <3> QED BY <3>1, <3>2, <3>3, <3>4
            DEF Outside, ClientReads, ClientGoes, Sighup, Shutdown, Exit, AcceptFails
  <2>3. Body(f) /\ ~UseAfterFree(f)
    BY <1>1, <2>1, <2>2, NextCases DEF vars, lockVars
  <2>4. PICK out : Write(out) /\ Announces(f, out)
    BY <1>1, <2>3, BodyAnnounces
  <2>5. cmd[f].op # "unregister"
    BY <1>1, <2>0, <2>3, BodyReturns DEF Leave, TypeOK
  <2>6. PICK m \in out : m.to = f /\ wire'[f] = Append(wire[f], m)
    BY <1>1, <2>0, <2>4, <2>5, WriteWire DEF Announces
  <2>7. m.kind = state'[f]
    BY <2>4, <2>6 DEF Announces
  <2>8. m \in Message
    <3>1. wire[f] \in Seq(Message) /\ wire'[f] \in Seq(Message)
      BY <2>0 DEF TypeOK
    <3>2. m = wire'[f][Len(wire[f]) + 1] /\ Len(wire'[f]) = Len(wire[f]) + 1
      BY <2>6, <3>1
    <3> QED BY <3>1, <3>2
  <2> QED BY <2>6, <2>7, <2>8
<1>2. IInv /\ IInv' /\ [Next]_vars => [\A f \in Ext : Answered(f)]_vars
  BY <1>1
<1> QED BY Invariance, <1>2, PTL DEF Spec, EveryCallAnswered
===============================================================================
