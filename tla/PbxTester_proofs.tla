--------------------------- MODULE PbxTester_proofs ---------------------------
(***************************************************************************)
(* Proofs about PbxTester: whatever number of testers there is and however *)
(* far each runs ahead of the server, none of them fails.  The argument is *)
(* about one connection: the messages on the wire are the answers to the   *)
(* commands q that the tester has sent and not seen answered, with chat    *)
(* and changes made by others in between; a[k] of the answers are among    *)
(* the first k messages.                                                   *)
(***************************************************************************)
EXTENDS PbxTester, PBX_notes_proofs

Ops == {"pickup", "hangup", "dial", "chat"}

\* The states in which a tester can take a call that was cancelled for the
\* answer to its hangup, after which it is more than one command ahead.
Quiet == {"ON_HOOK", "RINGING"}

\* The state that the server was in after message m.
Shown(m) == IF m.kind = "CHAT" THEN "CONNECTED" ELSE m.kind

\* The state after the first k messages of w, from state cur.
StateAt(cur, w, k) == IF k = 0 THEN cur ELSE Shown(w[k])

\* Message k is a change made by another client (or chat), or the answer to the
\* next command.
Uncalled(cur, w, a, k) ==
  /\ a[k] = a[k - 1]
  /\ IF w[k].kind = "CHAT" THEN StateAt(cur, w, k - 1) = "CONNECTED"
                           ELSE w[k].kind \in Crossing(StateAt(cur, w, k - 1))

Answers(cur, w, a, q, k) ==
  /\ a[k] = a[k - 1] + 1
  /\ w[k].kind # "CHAT" /\ w[k].kind \in Normal(StateAt(cur, w, k - 1), q[a[k]])

\* The messages w can follow state cur when commands q are under way.
History(cur, w, a, q) ==
  LET n == Len(w)
  IN /\ q \in Seq(Ops)
     /\ a \in [0 .. n -> 0 .. Len(q)] /\ a[0] = 0
     /\ \A k \in 1 .. n : Uncalled(cur, w, a, k) \/ Answers(cur, w, a, q, k)
     /\ \A k, l \in 0 .. n : k <= l => a[k] <= a[l]
     /\ \A k, l \in 0 .. n :
          /\ k <= l /\ StateAt(cur, w, k) \in Quiet
          /\ \A j \in a[k] + 1 .. a[l] : q[j] # "pickup"
          => StateAt(cur, w, l) \in Quiet

\* Registration is answered like a hangup.
OpOf(c) == IF c.op = "register" THEN "hangup" ELSE c.op

Busy(f) == IF cmd[f].op = "none" THEN 0 ELSE 1

\* The commands of q after the first e are b commands under way, the one of them
\* being op, and those of box.
Pending(q, e, b, op, box) ==
  /\ Len(q) = e + b + Len(box)
  /\ b = 1 => q[e + 1] = op
  /\ \A i \in 1 .. Len(box) : q[e + b + i] = box[i].op

\* The commands the server has not answered are the last of q.
Unanswered(f, a, q) == Pending(q, a[Len(wire[f])], Busy(f), OpOf(cmd[f]), outbox[f])

Fresh == [normal |-> {"ON_HOOK"}, crossing |-> {}]

\* What the tester expects fits the commands under way: it waits for the answer
\* to the last one, and is more than one ahead only where the answers to the
\* others cannot surprise it.
Expects(f, a, q) ==
  /\ Len(q) > 0 /\ last[f] = q[Len(q)]
  /\ Len(q) > 1 => current[f] \in Quiet /\ \A j \in 1 .. Len(q) - 1 : q[j] # "pickup"
  /\ \/ expected[f] = NextStates(current[f], last[f])
     \/ /\ expected[f] = Fresh /\ current[f] = "ON_HOOK" /\ q = <<"hangup">>
        /\ IF wire[f] = <<>> THEN cmd[f].op = "register" ELSE a[1] = 1

\* The connection of f carries the answers to commands q at places a.
Fits(f, a, q) ==
  /\ History(current[f], wire[f], a, q)
  /\ Unanswered(f, a, q)
  /\ Expects(f, a, q)
  /\ IF cmd[f].op = "register"
       THEN state[f] = "NONE" /\ current[f] = "ON_HOOK"
       ELSE state[f] = StateAt(current[f], wire[f], Len(wire[f]))

Tracks(f) ==
  \E q \in Seq(Ops) : \E a \in [0 .. Len(wire[f]) -> 0 .. Len(q)] : Fits(f, a, q)

TestTypes ==
  /\ outbox \in [Ext -> Seq(TestCommand)]
  /\ current \in [Ext -> TuState]
  /\ expected \in [Ext -> [normal : SUBSET TuState, crossing : SUBSET TuState]]
  /\ last \in [Ext -> Ops]
  /\ verdict \in [Ext -> {"ok", "chat", "unexpected"}]

TestInv ==
  /\ TestTypes
  /\ \A f \in Ext :
       /\ verdict[f] = "ok"
       /\ pc[f] = "reading" => cmd[f].op = "none"
       /\ pc[f] # "skipping"
       /\ link[f] = "up" => Tracks(f)

-------------------------------------------------------------------------------
(* What the bodies of pbx.c do, in the terms of the tester's table. *)

\* The table has the state a command leads to among those expected normally, and
\* what it does to another phone among the changes that can cross a command.
LEMMA BodyMoves ==
  ASSUME IInv, NEW f \in Ext, Body(f), ~UseAfterFree(f)
  PROVE  /\ cmd[f].op = "register" => state'[f] = "ON_HOOK"
         /\ cmd[f].op \in Ops => state'[f] \in Normal(state[f], cmd[f].op)
         /\ \A g \in Ext \ {f} : state'[g] = state[g] \/ state'[g] \in Crossing(state[g])
<1>0. TypeOK /\ CallSymmetry /\ RegisteredIffServed
  BY DEF IInv
<1>1. CASE Register(f)
  <2>1. state[f] = "NONE" /\ extension[f] = None
    BY <1>0, <1>1 DEF RegisteredIffServed, Serving, Register, Inside, At
  <2>2. connected[f] = None
    BY <1>0, <2>1 DEF CallSymmetry
  <2> QED BY <1>0, <1>1, <2>1, <2>2 DEF Register, Inside, Ops, TypeOK
<1>2. ASSUME NEW s, Disconnect(f, s)
      PROVE  state'[f] = s /\ \A g \in Ext \ {f} : state'[g] = state[g] \/ state'[g] \in Crossing(state[g])
  BY <1>2 DEF Disconnect, Released, Crossing
<1>3. CASE Unregister(f)
  <2>1. state[f] # "NONE"
    BY <1>3, InsideRegistered DEF Unregister, Inside, TuState
  <2> QED BY <1>2, <1>3, <2>1 DEF Unregister, Inside, Ops
<1>4. CASE Hangup(f)
  BY <1>2, <1>4 DEF Hangup, Inside, Normal
<1>5. CASE Pickup(f)
  <2>1. cmd[f].op = "pickup"
    BY <1>5 DEF Pickup, Inside
  <2>2. CASE PickupIdle(f)
    BY <1>0, <2>1, <2>2 DEF PickupIdle, Normal, TypeOK
  <2>3. CASE PickupRinging(f)
    <3>1. connected[f] \in Ext \ {f} /\ state[connected[f]] = "RING_BACK"
      BY <1>0, <2>3 DEF CallSymmetry, PickupRinging
    <3> QED BY <1>0, <2>1, <2>3, <3>1 DEF PickupRinging, Normal, Crossing, TypeOK
  <2>4. CASE state[f] \notin {"ON_HOOK", "RINGING"} /\ Repeat(f, connected[f])
    BY <2>1, <2>4 DEF Repeat, tuVars, Normal
  <2> QED BY <1>5, <2>2, <2>3, <2>4 DEF Pickup
<1>6. CASE Dial(f)
  <2>1. cmd[f].op = "dial" /\ cmd[f].arg \in Ext
    BY <1>6, DialArgument DEF Dial, Inside
  <2>2. ASSUME NEW s \in {"ERROR", "BUSY_SIGNAL"}, DialFails(f, s), state[f] = "DIAL_TONE"
        PROVE  /\ state'[f] \in Normal(state[f], cmd[f].op)
               /\ \A g \in Ext \ {f} : state'[g] = state[g]
    BY <1>0, <2>1, <2>2 DEF DialFails, Normal, TypeOK
  <2>3. CASE DialRings(f, cmd[f].arg) /\ state[f] = "DIAL_TONE" /\ state[cmd[f].arg] = "ON_HOOK"
    BY <1>0, <2>1, <2>3 DEF DialRings, Normal, Crossing, TypeOK
  <2>4. CASE state[f] # "DIAL_TONE" /\ Repeat(f, extension[f])
    BY <2>1, <2>4 DEF Repeat, tuVars, Normal
  <2> QED BY <1>6, <2>1, <2>2, <2>3, <2>4 DEF Dial
<1>7. CASE Chat(f)
  <2>1. cmd[f].op = "chat" /\ state' = state
    BY <1>7 DEF Chat, Inside, ChatSent, Repeat, tuVars
  <2> QED BY <2>1 DEF Normal
<1> QED BY <1>1, <1>3, <1>4, <1>5, <1>6, <1>7 DEF Body

-------------------------------------------------------------------------------
(* Histories. *)

\* Outside a call nothing but a pickup leads out of the quiet states.
LEMMA QuietStays ==
  ASSUME NEW s \in Quiet
  PROVE  /\ s # "CONNECTED" /\ Crossing(s) \subseteq Quiet
         /\ \A op \in Ops \ {"pickup"} : Normal(s, op) \subseteq Quiet
BY DEF Quiet, Crossing, Normal, Ops

\* What message m can be after the first n, when b commands are then answered.
CanFollow(cur, w, a, q, n, m, b) ==
  \/ /\ b = a[n]
     /\ IF m.kind = "CHAT" THEN StateAt(cur, w, n) = "CONNECTED"
                           ELSE m.kind \in Crossing(StateAt(cur, w, n))
  \/ /\ b = a[n] + 1
     /\ m.kind # "CHAT" /\ m.kind \in Normal(StateAt(cur, w, n), q[b])

Lengthened(a, n, b) == [k \in 0 .. n + 1 |-> IF k = n + 1 THEN b ELSE a[k]]

\* One more message: chat, a change made by another client, or an answer.
LEMMA Extended ==
  ASSUME NEW cur, NEW w \in Seq(Message), NEW m \in Message, NEW a, NEW q, History(cur, w, a, q),
         NEW n \in Nat, n = Len(w), NEW b \in 0 .. Len(q), CanFollow(cur, w, a, q, n, m, b)
  PROVE  /\ History(cur, Append(w, m), Lengthened(a, n, b), q)
         /\ StateAt(cur, Append(w, m), n + 1) = Shown(m)
<1> DEFINE v == Append(w, m)
           c == Lengthened(a, n, b)
<1> USE DEF CanFollow, Lengthened
<1>a. q \in Seq(Ops) /\ a \in [0 .. n -> 0 .. Len(q)] /\ a[0] = 0
  BY DEF History
<1>b. \A k \in 1 .. n : Uncalled(cur, w, a, k) \/ Answers(cur, w, a, q, k)
  BY DEF History
<1>c. \A k, l \in 0 .. n : k <= l => a[k] <= a[l]
  BY DEF History
<1>d. \A k, l \in 0 .. n :
        /\ k <= l /\ StateAt(cur, w, k) \in Quiet
        /\ \A j \in a[k] + 1 .. a[l] : q[j] # "pickup"
        => StateAt(cur, w, l) \in Quiet
  BY DEF History
<1>e. Len(q) \in Nat /\ n \in Nat
  BY <1>a
<1>f. \A k \in 0 .. n : a[k] \in Nat /\ a[k] <= Len(q)
  BY <1>a, <1>e
<1>1. Len(v) = n + 1 /\ v[n + 1] = m /\ \A k \in 1 .. n : v[k] = w[k]
  OBVIOUS
<1>g. /\ b \in Nat /\ b <= Len(q) /\ a[n] \in Nat /\ a[n] <= b
      /\ n \in 0 .. n /\ n + 1 \in 0 .. n + 1 /\ 0 .. n \subseteq 0 .. n + 1
  BY <1>e, <1>f
<1>2. c \in [0 .. n + 1 -> 0 .. Len(q)] /\ c[n + 1] = b /\ \A k \in 0 .. n : c[k] = a[k]
  <2>1. \A k \in 0 .. n + 1 : (IF k = n + 1 THEN b ELSE a[k]) \in 0 .. Len(q)
    BY <1>e, <1>f, <1>g
  <2> QED BY <1>e, <1>g, <2>1
<1> HIDE DEF v, c
<1>3. StateAt(cur, v, n + 1) = Shown(m) /\ \A k \in 0 .. n : StateAt(cur, v, k) = StateAt(cur, w, k)
  BY <1>1 DEF StateAt
<1>4. ASSUME NEW k \in 1 .. n + 1
      PROVE  Uncalled(cur, v, c, k) \/ Answers(cur, v, c, q, k)
  <2>1. CASE k = n + 1
    <3>1. k - 1 = n
      BY <2>1
    <3> QED BY <1>1, <1>2, <1>3, <2>1, <3>1 DEF Uncalled, Answers
  <2>2. CASE k \in 1 .. n
    <3>1. k - 1 \in 0 .. n /\ k \in 0 .. n
      BY <2>2
    <3> QED BY <1>b, <1>1, <1>2, <1>3, <2>2, <3>1 DEF Uncalled, Answers
  <2> QED BY <2>1, <2>2
<1>5. ASSUME NEW k \in 0 .. n + 1, NEW l \in 0 .. n + 1, k <= l
      PROVE  c[k] <= c[l]
  <2>1. CASE l \in 0 .. n
    <3>1. k \in 0 .. n
      BY <1>5, <2>1
    <3> QED BY <1>c, <1>2, <1>5, <2>1, <3>1
  <2>2. CASE l = n + 1 /\ k \in 0 .. n
    <3>1. a[k] <= a[n] /\ a[k] \in Nat
      BY <1>c, <1>f, <1>g, <2>2
    <3> QED BY <1>2, <1>g, <2>2, <3>1
  <2>3. CASE l = n + 1 /\ k = n + 1
    BY <1>2, <1>g, <2>3
  <2> QED BY <2>1, <2>2, <2>3
<1>6. ASSUME NEW k \in 0 .. n + 1, NEW l \in 0 .. n + 1, k <= l, StateAt(cur, v, k) \in Quiet,
             \A j \in c[k] + 1 .. c[l] : q[j] # "pickup"
      PROVE  StateAt(cur, v, l) \in Quiet
  <2>1. CASE k = l
    BY <1>6, <2>1
  <2>2. CASE l \in 0 .. n
    <3>1. k \in 0 .. n
      BY <1>6, <2>2
    <3> QED BY <1>d, <1>2, <1>3, <1>6, <2>2, <3>1
  <2>3. CASE l = n + 1 /\ k \in 0 .. n
    <3>1. a[k] <= a[n] /\ a[k] \in Nat /\ c[k] = a[k] /\ c[l] = b
      BY <1>c, <1>f, <1>g, <1>2, <2>3
    <3>2. \A j \in a[k] + 1 .. a[n] : q[j] # "pickup"
      BY <1>g, <1>6, <3>1
    <3>3. StateAt(cur, w, n) \in Quiet
      BY <1>d, <1>g, <1>3, <1>6, <2>3, <3>2
    <3>4. ASSUME b = a[n] + 1
          PROVE  q[b] \in Ops \ {"pickup"}
      <4>1. b \in a[k] + 1 .. b /\ b \in 1 .. Len(q)
        BY <1>e, <1>g, <3>1, <3>4
      <4> QED BY <1>a, <1>6, <3>1, <4>1
    <3>5. m.kind # "CHAT" /\ m.kind \in Quiet
      BY <3>3, <3>4, QuietStays
    <3> QED BY <1>3, <2>3, <3>5 DEF Shown
  <2> QED BY <1>6, <2>1, <2>2, <2>3
<1>7. c[0] = 0
  BY <1>a, <1>e, <1>2
<1> QED BY <1>a, <1>1, <1>2, <1>3, <1>4, <1>5, <1>6, <1>7 DEF History, v, c

\* One message less: the state after it is the one the rest follows, and its
\* command, if it is an answer, is no longer under way.  Others may be added.
LEMMA Shifted ==
  ASSUME NEW cur, NEW w \in Seq(Message), NEW a, NEW q, History(cur, w, a, q),
         NEW n \in Nat \ {0}, n = Len(w), NEW p \in Seq(Ops), Len(q) - a[1] <= Len(p),
         \A j \in 1 .. Len(q) - a[1] : p[j] = q[j + a[1]]
  PROVE  /\ History(Shown(w[1]), Tail(w), [k \in 0 .. n - 1 |-> a[k + 1] - a[1]], p)
         /\ StateAt(Shown(w[1]), Tail(w), n - 1) = StateAt(cur, w, n)
<1> DEFINE v == Tail(w)
           new == Shown(w[1])
           c == [k \in 0 .. n - 1 |-> a[k + 1] - a[1]]
<1>a. q \in Seq(Ops) /\ a \in [0 .. n -> 0 .. Len(q)] /\ a[0] = 0
  BY DEF History
<1>b. \A k \in 1 .. n : Uncalled(cur, w, a, k) \/ Answers(cur, w, a, q, k)
  BY DEF History
<1>c. \A k, l \in 0 .. n : k <= l => a[k] <= a[l]
  BY DEF History
<1>d. \A k, l \in 0 .. n :
        /\ k <= l /\ StateAt(cur, w, k) \in Quiet
        /\ \A j \in a[k] + 1 .. a[l] : q[j] # "pickup"
        => StateAt(cur, w, l) \in Quiet
  BY DEF History
<1>e. Len(q) \in Nat /\ n \in Nat
  BY <1>a
<1>f. \A k \in 0 .. n : a[k] \in Nat /\ a[k] <= Len(q)
  BY <1>a, <1>e
<1>1. Len(v) = n - 1 /\ \A k \in 1 .. n - 1 : v[k] = w[k + 1]
  OBVIOUS
<1>2. a[1] \in Nat /\ a[1] <= Len(q) /\ Len(p) \in Nat /\ 1 \in 0 .. n
  BY <1>f
<1>3. ASSUME NEW k \in 0 .. n - 1
      PROVE  /\ k + 1 \in 1 .. n /\ k + 1 \in 0 .. n /\ a[k + 1] \in Nat /\ a[1] <= a[k + 1]
             /\ c[k] = a[k + 1] - a[1] /\ c[k] \in Nat /\ c[k] <= Len(q) - a[1]
             /\ StateAt(new, v, k) = StateAt(cur, w, k + 1)
  <2>1. k + 1 \in 1 .. n /\ k + 1 \in 0 .. n /\ 1 \in 0 .. n
    OBVIOUS
  <2>2. a[k + 1] \in Nat /\ a[k + 1] <= Len(q) /\ a[1] <= a[k + 1]
    BY <1>c, <1>f, <2>1
  <2>3. StateAt(new, v, k) = StateAt(cur, w, k + 1)
    BY <1>1 DEF StateAt
  <2>4. c[k] = a[k + 1] - a[1]
    OBVIOUS
  <2> HIDE DEF c
  <2> QED BY <1>2, <1>e, <2>1, <2>2, <2>3, <2>4
<1>4. c \in [0 .. n - 1 -> 0 .. Len(p)] /\ c[0] = 0
  <2>1. ASSUME NEW k \in 0 .. n - 1
        PROVE  c[k] \in 0 .. Len(p)
    <3>1. c[k] \in Nat /\ c[k] <= Len(q) - a[1]
      BY <1>3
    <3> HIDE DEF c
    <3> QED BY <1>2, <1>e, <3>1
  <2>2. 0 \in 0 .. n - 1 /\ 0 + 1 = 1
    OBVIOUS
  <2>3. c[0] = 0
    BY <1>2, <1>3, <2>2
  <2> QED BY <2>1, <2>3
<1> HIDE DEF v, new, c
<1>5. ASSUME NEW k \in 1 .. n - 1
      PROVE  Uncalled(new, v, c, k) \/ Answers(new, v, c, p, k)
  <2>1. k \in 0 .. n - 1 /\ k - 1 \in 0 .. n - 1 /\ k - 1 + 1 = k /\ k + 1 - 1 = k /\ k \in 0 .. n
    OBVIOUS
  <2>2. /\ c[k] = a[k + 1] - a[1] /\ c[k - 1] = a[k] - a[1] /\ v[k] = w[k + 1]
        /\ StateAt(new, v, k - 1) = StateAt(cur, w, k) /\ a[k] \in Nat /\ a[k + 1] \in Nat
    BY <1>1, <1>3, <1>f, <2>1
  <2>3. CASE Uncalled(cur, w, a, k + 1)
    BY <1>2, <2>1, <2>2, <2>3 DEF Uncalled
  <2>4. CASE Answers(cur, w, a, q, k + 1)
    <3>1. a[k + 1] = a[k] + 1
      BY <2>1, <2>4 DEF Answers
    <3>2. c[k] = c[k - 1] + 1
      BY <1>2, <2>2, <3>1
    <3>3. a[1] <= a[k]
      BY <1>c, <1>2, <2>1
    <3>4. c[k] \in 1 .. Len(q) - a[1] /\ c[k] + a[1] = a[k + 1]
      BY <1>e, <1>2, <1>3, <2>1, <2>2, <3>1, <3>3
    <3>5. p[c[k]] = q[a[k + 1]]
      BY <3>4
    <3> QED BY <2>1, <2>2, <2>4, <3>2, <3>5 DEF Answers
  <2> QED BY <1>b, <1>3, <2>1, <2>3, <2>4
<1>6. ASSUME NEW k \in 0 .. n - 1, NEW l \in 0 .. n - 1, k <= l
      PROVE  c[k] <= c[l]
  <2>1. a[k + 1] <= a[l + 1]
    <3>1. k + 1 \in 0 .. n /\ l + 1 \in 0 .. n /\ k + 1 <= l + 1
      BY <1>6
    <3> QED BY <1>c, <3>1
  <2>2. c[k] = a[k + 1] - a[1] /\ c[l] = a[l + 1] - a[1] /\ a[k + 1] \in Nat /\ a[l + 1] \in Nat
    BY <1>3
  <2> QED BY <1>2, <2>1, <2>2
<1>7. ASSUME NEW k \in 0 .. n - 1, NEW l \in 0 .. n - 1, k <= l, StateAt(new, v, k) \in Quiet,
             \A j \in c[k] + 1 .. c[l] : p[j] # "pickup"
      PROVE  StateAt(new, v, l) \in Quiet
  <2>1. ASSUME NEW j \in a[k + 1] + 1 .. a[l + 1]
        PROVE  q[j] # "pickup"
    <3>a. /\ a[k + 1] \in Nat /\ a[l + 1] \in Nat /\ a[1] <= a[k + 1]
          /\ c[k] = a[k + 1] - a[1] /\ c[l] = a[l + 1] - a[1] /\ c[l] <= Len(q) - a[1]
      BY <1>3
    <3>0. j \in Nat /\ a[k + 1] + 1 <= j /\ j <= a[l + 1]
      BY <3>a
    <3>1. /\ j - a[1] \in c[k] + 1 .. c[l] /\ j - a[1] \in 1 .. Len(q) - a[1]
          /\ j - a[1] + a[1] = j
      <4>1. PICK x \in Nat, y \in Nat, z \in Nat, t \in Nat :
                   x = a[1] /\ y = a[k + 1] /\ z = a[l + 1] /\ t = Len(q)
        BY <1>e, <1>2, <3>a
      <4>2. c[k] = y - x /\ c[l] = z - x /\ x <= y /\ z - x <= t - x /\ y + 1 <= j /\ j <= z
        BY <3>a, <3>0, <4>1
      <4>3. j - x \in c[k] + 1 .. c[l]
        BY <3>0, <4>2
      <4>4. j - x \in 1 .. t - x /\ j - x + x = j
        BY <3>0, <4>2
      <4> QED BY <4>1, <4>3, <4>4
    <3> QED BY <1>7, <3>1
  <2>2. k + 1 <= l + 1
    BY <1>7
  <2> QED BY <1>d, <1>3, <1>7, <2>1, <2>2
<1> QED BY <1>1, <1>3, <1>4, <1>5, <1>6, <1>7 DEF History, v, new, c

-------------------------------------------------------------------------------
(* What a tester makes of a message. *)

\* The states of the table are states.
LEMMA NextTypes ==
  ASSUME NEW s \in TuState, NEW op \in Ops
  PROVE  NextStates(s, op) \in [normal : SUBSET TuState, crossing : SUBSET TuState]
<1>1. Normal(s, op) \subseteq TuState /\ Crossing(s) \subseteq TuState
  BY DEF Normal, Crossing, TuState
<1> QED BY <1>1 DEF NextStates

\* Every message is in one of the two sets that the tester expects, or is chat in
\* a call.  One taken for the answer to the last command while others are under
\* way leaves the tester, and the commands it has sent, where it does no harm.
LEMMA Reading ==
  ASSUME NEW cur \in TuState, NEW w \in Seq(Message), w # <<>>, NEW a, NEW q \in Seq(Ops),
         History(cur, w, a, q), NEW l \in Nat \ {0}, l = Len(q),
         NEW exp, NEW op \in Ops, op = q[l],
         l > 1 => cur \in Quiet /\ \A j \in 1 .. l - 1 : q[j] # "pickup",
         \/ exp = NextStates(cur, op)
         \/ exp = Fresh /\ cur = "ON_HOOK" /\ l = 1 /\ op = "hangup" /\ a[1] = 1,
         NEW new, new = w[1].kind
  PROVE  /\ a[1] \in {0, 1}
         /\ new = "CHAT" => cur = "CONNECTED" /\ a[1] = 0
         /\ new # "CHAT" => new \in exp.normal \cup exp.crossing
         /\ new # "CHAT" /\ new \in exp.normal /\ l - a[1] > 0
              => new \in Quiet /\ \A j \in 1 .. l : q[j] # "pickup"
         /\ new # "CHAT" /\ new \notin exp.normal => l - a[1] > 0 /\ (l - a[1] > 1 => new \in Quiet)
<1>1. Len(w) \in Nat \ {0} /\ 1 \in 1 .. Len(w) /\ 0 \in 0 .. Len(w)
  OBVIOUS
<1>2. a[0] = 0 /\ StateAt(cur, w, 0) = cur /\ 1 - 1 = 0
  BY <1>1 DEF History, StateAt
<1>3. \/ a[1] = 0 /\ IF new = "CHAT" THEN cur = "CONNECTED" ELSE new \in Crossing(cur)
      \/ a[1] = 1 /\ new # "CHAT" /\ new \in Normal(cur, q[1])
  <2>1. Uncalled(cur, w, a, 1) \/ Answers(cur, w, a, q, 1)
    BY <1>1 DEF History
  <2> QED BY <1>2, <2>1 DEF Uncalled, Answers
<1>4. 1 \in 1 .. l /\ q[1] \in Ops /\ (l = 1 => q[1] = op) /\ (l > 1 => q[1] # "pickup")
  OBVIOUS
<1>5. CASE exp = Fresh /\ cur = "ON_HOOK" /\ l = 1 /\ op = "hangup" /\ a[1] = 1
  BY <1>3, <1>4, <1>5 DEF Fresh, Normal
<1>6. CASE exp = NextStates(cur, op)
  <2> DEFINE late == IF <<cur, op>> \in LateCopy THEN {cur} ELSE {}
  <2>1. exp.normal = Normal(cur, op) /\ exp.crossing = (Crossing(cur) \cup late) \ Normal(cur, op)
    BY <1>6 DEF NextStates
  <2>2. cur \in Quiet => (cur \in late <=> op = "pickup" \/ (cur = "RINGING" /\ op = "hangup"))
    BY DEF LateCopy, Quiet, TuState, Ops
  <2> HIDE DEF late
  <2>3. CASE a[1] = 0 /\ new = "CHAT"
    BY <1>3, <2>3
  <2>4. CASE a[1] = 0 /\ new # "CHAT"
    <3>1. new \in Crossing(cur) /\ (cur \in Quiet => new \in Quiet)
      BY <1>3, <2>4, QuietStays
    <3>2. new \in Normal(cur, op) => cur = "RINGING" /\ op = "hangup" /\ new \in Quiet
      BY <3>1 DEF Normal, Crossing, Ops, TuState, Quiet
    <3>3. new \in Normal(cur, op) => \A j \in 1 .. l : q[j] # "pickup"
      <4>1. \A j \in 1 .. l : j \in 1 .. l - 1 \/ j = l
        OBVIOUS
      <4> QED BY <3>2, <4>1
    <3> QED BY <1>3, <2>1, <2>4, <3>1, <3>2, <3>3
  <2>5. CASE a[1] = 1 /\ l = 1
    BY <1>3, <1>4, <2>1, <2>5
  <2>6. CASE a[1] = 1 /\ l > 1
    <3>1. cur \in Quiet /\ q[1] \in Ops \ {"pickup"} /\ new \in Normal(cur, q[1])
      BY <1>3, <1>4, <2>6
    <3>2. new \in {cur, "ON_HOOK"} /\ new \in Quiet
      BY <3>1 DEF Normal, Quiet, Ops
    <3>3. new \in Normal(cur, op) \cup Crossing(cur) \cup late
      BY <2>2, <3>1, <3>2 DEF Normal, Crossing, Quiet, Ops
    <3>4. new \in Normal(cur, op) => op # "pickup"
      BY <3>1, <3>2 DEF Normal, Quiet
    <3>5. new \in Normal(cur, op) => \A j \in 1 .. l : q[j] # "pickup"
      <4>1. \A j \in 1 .. l : j \in 1 .. l - 1 \/ j = l
        OBVIOUS
      <4> QED BY <2>6, <3>4, <4>1
    <3> QED BY <2>1, <2>6, <3>2, <3>3, <3>5 DEF Quiet
  <2> QED BY <1>3, <2>3, <2>4, <2>5, <2>6
<1> QED BY <1>5, <1>6

\* The commands that are left when the first has been answered, or none has.
LEMMA Dropped ==
  ASSUME NEW q \in Seq(Ops), NEW d \in {0, 1}, d <= Len(q)
  PROVE  \E p \in Seq(Ops) : Len(p) = Len(q) - d /\ \A j \in 1 .. Len(p) : p[j] = q[j + d]
<1>1. CASE d = 0
  <2>1. Len(q) = Len(q) - d /\ \A j \in 1 .. Len(q) : q[j] = q[j + d]
    BY <1>1
  <2> QED BY <2>1
<1>2. CASE d = 1
  <2>1. q # <<>>
    BY <1>2
  <2>2. Tail(q) \in Seq(Ops) /\ Len(Tail(q)) = Len(q) - d /\ \A j \in 1 .. Len(Tail(q)) : Tail(q)[j] = q[j + d]
    BY <1>2, <2>1
  <2> QED BY <2>2
<1> QED BY <1>1, <1>2

-------------------------------------------------------------------------------
(* The steps of a connection. *)

\* The commands under way when the first d of all are forgotten, ...
LEMMA PendingDropped ==
  ASSUME NEW q \in Seq(Ops), NEW e \in Nat, NEW b \in Nat, NEW op, NEW box \in Seq(TestCommand),
         Pending(q, e, b, op, box), NEW d \in Nat, d <= e,
         NEW p \in Seq(Ops), Len(p) = Len(q) - d, \A j \in 1 .. Len(p) : p[j] = q[j + d]
  PROVE  Pending(p, e - d, b, op, box)
<1>1. Len(q) \in Nat /\ Len(box) \in Nat /\ Len(q) = e + b + Len(box)
  BY DEF Pending
<1>2. ASSUME NEW i \in Nat \ {0}, i <= b + Len(box)
      PROVE  p[e - d + i] = q[e + i]
  <2>1. e - d + i \in 1 .. Len(p) /\ e - d + i + d = e + i
    BY <1>1, <1>2
  <2> QED BY <2>1
<1>3. Len(p) = e - d + b + Len(box)
  BY <1>1
<1>4. b = 1 => p[e - d + 1] = op
  <2>1. b = 1 => 1 <= b + Len(box)
    BY <1>1
  <2> QED BY <1>2, <2>1 DEF Pending
<1>5. ASSUME NEW i \in 1 .. Len(box)
      PROVE  p[e - d + b + i] = box[i].op
  <2>1. /\ b + i \in Nat \ {0} /\ b + i <= b + Len(box)
        /\ e - d + (b + i) = e - d + b + i /\ e + (b + i) = e + b + i
    BY <1>1
  <2>2. p[e - d + (b + i)] = q[e + (b + i)]
    BY <1>2, <2>1
  <2>3. q[e + b + i] = box[i].op
    BY DEF Pending
  <2> QED BY <2>1, <2>2, <2>3
<1> QED BY <1>3, <1>4, <1>5 DEF Pending

\* ... when one more is sent, ...
LEMMA PendingSent ==
  ASSUME NEW q \in Seq(Ops), NEW e \in Nat, NEW b \in Nat, NEW op, NEW box \in Seq(TestCommand),
         Pending(q, e, b, op, box), NEW c \in TestCommand, c.op \in Ops
  PROVE  Pending(Append(q, c.op), e, b, op, Append(box, c))
<1> DEFINE r == Append(q, c.op)
           out == Append(box, c)
<1>1. Len(q) \in Nat /\ Len(box) \in Nat /\ Len(q) = e + b + Len(box)
  BY DEF Pending
<1>2. /\ Len(r) = Len(q) + 1 /\ r[Len(q) + 1] = c.op /\ \A j \in 1 .. Len(q) : r[j] = q[j]
      /\ Len(out) = Len(box) + 1 /\ out[Len(box) + 1] = c /\ \A j \in 1 .. Len(box) : out[j] = box[j]
  OBVIOUS
<1> HIDE DEF r, out
<1>3. Len(r) = e + b + Len(out)
  BY <1>1, <1>2
<1>4. b = 1 => r[e + 1] = op
  <2>1. b = 1 => e + 1 \in 1 .. Len(q)
    BY <1>1
  <2> QED BY <1>2, <2>1 DEF Pending
<1>5. ASSUME NEW i \in 1 .. Len(out)
      PROVE  r[e + b + i] = out[i].op
  <2>1. CASE i = Len(box) + 1
    <3>1. e + b + i = Len(q) + 1
      BY <1>1, <2>1
    <3> QED BY <1>2, <2>1, <3>1
  <2>2. CASE i \in 1 .. Len(box)
    <3>1. e + b + i \in 1 .. Len(q)
      BY <1>1, <2>2
    <3> QED BY <1>2, <2>2, <3>1 DEF Pending
  <2> QED BY <1>1, <1>2, <2>1, <2>2
<1> QED BY <1>3, <1>4, <1>5 DEF Pending, r, out

\* ... when the server reads the next, ...
LEMMA PendingTaken ==
  ASSUME NEW q \in Seq(Ops), NEW e \in Nat, NEW op, NEW box \in Seq(TestCommand),
         Pending(q, e, 0, op, box), box # <<>>
  PROVE  Pending(q, e, 1, box[1].op, Tail(box))
<1> DEFINE out == Tail(box)
<1>1. Len(q) \in Nat /\ Len(box) \in Nat \ {0} /\ Len(q) = e + 0 + Len(box)
  BY DEF Pending
<1>2. Len(out) = Len(box) - 1 /\ \A j \in 1 .. Len(box) - 1 : out[j] = box[j + 1]
  OBVIOUS
<1> HIDE DEF out
<1>3. Len(q) = e + 1 + Len(out)
  BY <1>1, <1>2
<1>4. q[e + 1] = box[1].op
  <2>1. 1 \in 1 .. Len(box) /\ e + 0 + 1 = e + 1
    BY <1>1
  <2>2. q[e + 0 + 1] = box[1].op
    BY <2>1 DEF Pending
  <2> QED BY <2>1, <2>2
<1>5. ASSUME NEW i \in 1 .. Len(out)
      PROVE  q[e + 1 + i] = out[i].op
  <2>1. i + 1 \in 1 .. Len(box) /\ e + 0 + (i + 1) = e + 1 + i /\ out[i] = box[i + 1]
    BY <1>1, <1>2
  <2>2. q[e + 0 + (i + 1)] = box[i + 1].op
    BY <2>1 DEF Pending
  <2> QED BY <2>1, <2>2
<1> QED BY <1>3, <1>4, <1>5 DEF Pending, out

\* ... and when it has answered.
LEMMA PendingAnswered ==
  ASSUME NEW q \in Seq(Ops), NEW e \in Nat, NEW op, NEW box \in Seq(TestCommand),
         Pending(q, e, 1, op, box), NEW any
  PROVE  e + 1 <= Len(q) /\ q[e + 1] = op /\ Pending(q, e + 1, 0, any, box)
<1>1. Len(q) \in Nat /\ Len(box) \in Nat /\ Len(q) = e + 1 + Len(box) /\ q[e + 1] = op
  BY DEF Pending
<1>2. ASSUME NEW i \in 1 .. Len(box)
      PROVE  q[e + 1 + 0 + i] = box[i].op
  <2>1. e + 1 + 0 + i = e + 1 + i
    BY <1>1
  <2> QED BY <2>1 DEF Pending
<1> QED BY <1>1, <1>2 DEF Pending

\* A tester that has read a message, and may have sent a command c.
LEMMA AfterReading ==
  ASSUME TypeOK, TestTypes, NEW f \in Ext, NEW q \in Seq(Ops), NEW a, Fits(f, a, q),
         cmd[f].op # "register", wire[f] # <<>>, wire'[f] = Tail(wire[f]),
         cmd'[f] = cmd[f], state'[f] = state[f], current'[f] = Shown(wire[f][1]),
         expected'[f] = NextStates(current'[f], last'[f]), a[1] \in {0, 1},
         \/ /\ outbox'[f] = outbox[f] /\ last'[f] = last[f]
            /\ Len(q) - a[1] > 0 /\ (Len(q) - a[1] > 1 => current'[f] \in Quiet)
         \/ /\ \E c \in TestCommand :
                 c.op \in Ops /\ outbox'[f] = Append(outbox[f], c) /\ last'[f] = c.op
            /\ Len(q) - a[1] > 0 => current'[f] \in Quiet /\ \A j \in 1 .. Len(q) : q[j] # "pickup"
  PROVE  Tracks(f)'
<1>1. PICK n \in Nat \ {0}, l \in Nat \ {0}, d \in Nat, e \in Nat :
        /\ n = Len(wire[f]) /\ l = Len(q) /\ d = a[1] /\ e = a[n]
        /\ d \in {0, 1} /\ d <= e /\ d <= l
  <2>1. wire[f] \in Seq(Message)
    BY DEF TypeOK
  <2>2. Len(wire[f]) \in Nat \ {0} /\ Len(q) \in Nat \ {0}
    BY <2>1 DEF Fits, Expects
  <2>3. PICK n \in Nat \ {0}, l \in Nat \ {0} : n = Len(wire[f]) /\ l = Len(q)
    BY <2>2
  <2>4. a \in [0 .. n -> 0 .. l] /\ 1 \in 0 .. n /\ n \in 0 .. n /\ a[1] <= a[n]
    BY <2>3 DEF Fits, History
  <2>5. a[1] \in 0 .. l /\ a[n] \in 0 .. l
    BY <2>4
  <2>6. a[1] \in Nat /\ a[n] \in Nat /\ a[1] <= l
    BY <2>5
  <2> QED BY <2>3, <2>4, <2>6
<1>2. PICK p \in Seq(Ops) : Len(p) = l - d /\ \A j \in 1 .. l - d : p[j] = q[j + d]
  <2>1. \E p \in Seq(Ops) : Len(p) = Len(q) - d /\ \A j \in 1 .. Len(p) : p[j] = q[j + d]
    BY <1>1, Dropped
  <2>2. PICK p \in Seq(Ops) : Len(p) = Len(q) - d /\ \A j \in 1 .. Len(p) : p[j] = q[j + d]
    BY <2>1
  <2>3. Len(p) = l - d
    BY <1>1, <2>2
  <2> QED BY <2>2, <2>3
<1>3. PICK b \in Nat : b = Busy(f) /\ b = Busy(f)'
  BY DEF Busy
<1>4. /\ outbox[f] \in Seq(TestCommand) /\ OpOf(cmd[f])' = OpOf(cmd[f])
      /\ Pending(p, e - d, b, OpOf(cmd[f]), outbox[f])
  <2>1. outbox[f] \in Seq(TestCommand) /\ Pending(q, e, b, OpOf(cmd[f]), outbox[f])
    BY <1>1, <1>3 DEF Fits, Unanswered, TestTypes
  <2>2. Len(p) = Len(q) - d /\ \A j \in 1 .. Len(p) : p[j] = q[j + d]
    BY <1>1, <1>2
  <2>3. OpOf(cmd[f])' = OpOf(cmd[f])
    BY DEF OpOf
  <2> QED BY <1>1, <2>1, <2>2, <2>3, PendingDropped
<1> DEFINE c1 == [i \in 0 .. n - 1 |-> a[i + 1] - a[1]]
<1>5. c1[n - 1] = e - d /\ Len(wire'[f]) = n - 1
  <2>1. n - 1 \in 0 .. n - 1 /\ n - 1 + 1 = n
    OBVIOUS
  <2> QED BY <1>1, <2>1 DEF TypeOK
<1>6. ASSUME NEW r \in Seq(Ops), l - d <= Len(r), \A j \in 1 .. l - d : r[j] = p[j],
             Unanswered(f, c1, r)', Expects(f, c1, r)'
      PROVE  Tracks(f)'
  <2>1. /\ History(Shown(wire[f][1]), Tail(wire[f]), c1, r)
        /\ StateAt(Shown(wire[f][1]), Tail(wire[f]), n - 1) = StateAt(current[f], wire[f], n)
    <3>1. \A j \in 1 .. Len(q) - a[1] : r[j] = q[j + a[1]]
      BY <1>1, <1>2, <1>6
    <3>2. wire[f] \in Seq(Message) /\ Len(q) - a[1] <= Len(r) /\ History(current[f], wire[f], a, q)
      BY <1>1, <1>6 DEF TypeOK, Fits
    <3> QED BY <1>1, <3>1, <3>2, Shifted
  <2>2. state'[f] = StateAt(current'[f], wire'[f], Len(wire'[f]))
    BY <1>1, <1>5, <2>1 DEF Fits
  <2>3. Fits(f, c1, r)'
    BY <1>6, <2>1, <2>2 DEF Fits
  <2>4. c1 \in [0 .. Len(wire'[f]) -> 0 .. Len(r)]
    BY <1>5, <2>1 DEF History
  <2> QED BY <2>3, <2>4 DEF Tracks
<1>7. Len(q) > 1 => \A j \in 1 .. Len(q) - 1 : q[j] # "pickup"
  BY DEF Fits, Expects
<1>8. last[f] = q[l]
  BY <1>1 DEF Fits, Expects
<1>9. CASE /\ outbox'[f] = outbox[f] /\ last'[f] = last[f]
           /\ Len(q) - a[1] > 0 /\ (Len(q) - a[1] > 1 => current'[f] \in Quiet)
  <2>1. Unanswered(f, c1, p)'
    BY <1>3, <1>4, <1>5, <1>9 DEF Unanswered
  <2>2. l - d > 0 /\ (l - d > 1 => current'[f] \in Quiet)
    BY <1>1, <1>9
  <2>3. last'[f] = p[l - d]
    <3>1. l - d \in 1 .. l - d /\ l - d + d = l
      BY <2>2
    <3> QED BY <1>2, <1>8, <1>9, <3>1
  <2>4. l - d > 1 => \A j \in 1 .. l - d - 1 : p[j] # "pickup"
    <3>1. ASSUME l - d > 1, NEW j \in 1 .. l - d - 1
          PROVE  j \in 1 .. l - d /\ j + d \in 1 .. l - 1 /\ l > 1
      BY <3>1
    <3> QED BY <1>1, <1>2, <1>7, <3>1
  <2>5. Expects(f, c1, p)'
    BY <1>2, <2>2, <2>3, <2>4 DEF Expects
  <2>6. l - d <= Len(p)
    BY <1>2
  <2> QED BY <1>6, <2>1, <2>5, <2>6
<1>10. ASSUME NEW c \in TestCommand, c.op \in Ops, outbox'[f] = Append(outbox[f], c), last'[f] = c.op,
              Len(q) - a[1] > 0 => current'[f] \in Quiet /\ \A j \in 1 .. Len(q) : q[j] # "pickup"
       PROVE  Tracks(f)'
  <2> DEFINE r == Append(p, c.op)
  <2>1. r \in Seq(Ops) /\ Len(r) = l - d + 1 /\ r[l - d + 1] = c.op /\ \A j \in 1 .. l - d : r[j] = p[j]
    BY <1>2, <1>10
  <2> HIDE DEF r
  <2>2. Pending(r, e - d, b, OpOf(cmd[f]), Append(outbox[f], c))
    <3>1. e - d \in Nat
      BY <1>1
    <3> QED BY <1>2, <1>4, <1>10, <3>1, PendingSent DEF r
  <2>3. Unanswered(f, c1, r)'
    BY <1>3, <1>4, <1>5, <1>10, <2>2 DEF Unanswered
  <2>4. Len(r) > 1 => current'[f] \in Quiet /\ \A j \in 1 .. Len(r) - 1 : r[j] # "pickup"
    <3>a. d \in Nat /\ l \in Nat /\ d <= l /\ Len(r) = l - d + 1
      BY <1>1, <2>1
    <3>1. ASSUME Len(r) > 1, NEW j \in 1 .. Len(r) - 1
          PROVE  l - d > 0 /\ j \in 1 .. l - d /\ j + d \in 1 .. l
      <4>1. j \in 1 .. l - d
        BY <3>a, <3>1
      <4> QED BY <3>a, <4>1
    <3>2. Len(r) > 1 => Len(q) - a[1] > 0
      BY <1>1, <2>1
    <3> QED BY <1>1, <1>2, <1>10, <2>1, <3>1, <3>2
  <2>5. Expects(f, c1, r)'
    BY <1>1, <1>10, <2>1, <2>4 DEF Expects
  <2>6. l - d <= Len(r)
    BY <1>1, <2>1
  <2> QED BY <1>6, <2>1, <2>3, <2>5, <2>6
<1> QED BY <1>9, <1>10

\* A tester reads a message, and finds it among those it expects.
LEMMA TesterReads ==
  ASSUME IInv, NetInv, TestInv, NEW f \in Ext,
         TReadChat(f) \/ TReadCrossing(f) \/ \E c \in TestCommand : TReadNormal(f, c)
  PROVE  verdict'[f] = "ok" /\ Tracks(f)'
<1>1. TypeOK /\ TestTypes /\ verdict[f] = "ok" /\ verdict \in [Ext -> {"ok", "chat", "unexpected"}]
  BY DEF IInv, TestInv, TestTypes
<1>2. /\ ClientReads(f) /\ wire[f] # <<>> /\ wire[f] \in Seq(Message)
      /\ wire'[f] = Tail(wire[f]) /\ cmd'[f] = cmd[f] /\ state'[f] = state[f] /\ Head(wire[f]) = wire[f][1]
  <2>1. ClientReads(f)
    BY DEF TReadChat, TReadNormal, TReadCrossing
  <2> QED BY <1>1, <2>1 DEF ClientReads, TypeOK, tuVars, lockVars
<1>3. link[f] = "up" /\ cmd[f].op # "register"
  BY <1>2 DEF NetInv, Connections, FreshConnectionSilent
<1>4. PICK q \in Seq(Ops) : \E a \in [0 .. Len(wire[f]) -> 0 .. Len(q)] : Fits(f, a, q)
  BY <1>3 DEF TestInv, Tracks
<1>a. PICK a \in [0 .. Len(wire[f]) -> 0 .. Len(q)] : Fits(f, a, q)
  BY <1>4
<1>5. PICK l \in Nat \ {0} : l = Len(q)
  BY <1>4 DEF Fits, Expects
<1> DEFINE new == wire[f][1].kind
<1>6. /\ a[1] \in {0, 1}
      /\ new = "CHAT" => current[f] = "CONNECTED" /\ a[1] = 0
      /\ new # "CHAT" => new \in expected[f].normal \cup expected[f].crossing
      /\ new # "CHAT" /\ new \in expected[f].normal /\ l - a[1] > 0
           => new \in Quiet /\ \A j \in 1 .. l : q[j] # "pickup"
      /\ new # "CHAT" /\ new \notin expected[f].normal => l - a[1] > 0 /\ (l - a[1] > 1 => new \in Quiet)
  <2>1. current[f] \in TuState /\ last[f] \in Ops /\ History(current[f], wire[f], a, q)
    BY <1>1, <1>a DEF TestTypes, Fits
  <2>2. last[f] = q[l] /\ (l > 1 => current[f] \in Quiet /\ \A j \in 1 .. l - 1 : q[j] # "pickup")
    BY <1>a, <1>5 DEF Fits, Expects
  <2>3. \/ expected[f] = NextStates(current[f], last[f])
        \/ expected[f] = Fresh /\ current[f] = "ON_HOOK" /\ l = 1 /\ last[f] = "hangup" /\ a[1] = 1
    BY <1>2, <1>a, <1>5 DEF Fits, Expects
  <2>4. PICK exp, msg : exp = expected[f] /\ msg = new
    OBVIOUS
  <2>5. PICK cur \in TuState, op \in Ops, w \in Seq(Message) :
          cur = current[f] /\ op = last[f] /\ w = wire[f]
    BY <1>2, <2>1
  <2> HIDE DEF new
  <2>6. /\ w # <<>> /\ History(cur, w, a, q) /\ op = q[l] /\ msg = w[1].kind
        /\ l > 1 => cur \in Quiet /\ \A j \in 1 .. l - 1 : q[j] # "pickup"
        /\ \/ exp = NextStates(cur, op)
           \/ exp = Fresh /\ cur = "ON_HOOK" /\ l = 1 /\ op = "hangup" /\ a[1] = 1
    BY <1>2, <2>1, <2>2, <2>3, <2>4, <2>5 DEF new
  <2>7. /\ a[1] \in {0, 1}
        /\ msg = "CHAT" => cur = "CONNECTED" /\ a[1] = 0
        /\ msg # "CHAT" => msg \in exp.normal \cup exp.crossing
        /\ msg # "CHAT" /\ msg \in exp.normal /\ l - a[1] > 0
             => msg \in Quiet /\ \A j \in 1 .. l : q[j] # "pickup"
        /\ msg # "CHAT" /\ msg \notin exp.normal => l - a[1] > 0 /\ (l - a[1] > 1 => msg \in Quiet)
    BY <1>5, <2>6, Reading
  <2> QED BY <2>4, <2>5, <2>7
<1>7. CASE TReadChat(f)
  <2>1. new = "CHAT" /\ current[f] = "CONNECTED" /\ verdict'[f] = "ok"
    BY <1>1, <1>2, <1>6, <1>7 DEF TReadChat
  <2>2. l = 1 /\ expected[f] = NextStates(current[f], last[f])
    BY <1>2, <1>a, <1>5, <1>6, <2>1 DEF Fits, Expects, Quiet
  <2>3. /\ current'[f] = Shown(wire[f][1]) /\ expected'[f] = NextStates(current'[f], last'[f])
        /\ outbox'[f] = outbox[f] /\ last'[f] = last[f]
        /\ Len(q) - a[1] > 0 /\ (Len(q) - a[1] > 1 => current'[f] \in Quiet)
    BY <1>5, <1>6, <1>7, <2>1, <2>2 DEF TReadChat, Shown
  <2> QED BY <1>1, <1>2, <1>3, <1>a, <1>6, <2>1, <2>3, AfterReading
<1>8. CASE TReadCrossing(f)
  <2>1. new # "CHAT" /\ new \notin expected[f].normal /\ new \in expected[f].crossing
    BY <1>2, <1>6, <1>8 DEF TReadCrossing
  <2>2. /\ current' = [current EXCEPT ![f] = new] /\ expected' = [expected EXCEPT ![f] = NextStates(new, last[f])]
        /\ UNCHANGED <<verdict, outbox, last>>
    BY <1>2, <1>8, <2>1 DEF TReadCrossing
  <2>3. /\ current'[f] = Shown(wire[f][1]) /\ expected'[f] = NextStates(current'[f], last'[f])
        /\ outbox'[f] = outbox[f] /\ last'[f] = last[f]
        /\ Len(q) - a[1] > 0 /\ (Len(q) - a[1] > 1 => current'[f] \in Quiet)
    BY <1>1, <1>5, <1>6, <2>1, <2>2 DEF Shown, TestTypes
  <2> QED BY <1>1, <1>2, <1>3, <1>a, <1>6, <2>2, <2>3, AfterReading
<1>9. ASSUME NEW c \in TestCommand, TReadNormal(f, c)
      PROVE  verdict'[f] = "ok" /\ Tracks(f)'
  <2>1. "CHAT" \notin expected[f].normal
    <3>1. expected[f].normal \in SUBSET TuState
      BY <1>1 DEF TestTypes
    <3> QED BY <3>1 DEF TuState
  <2>2. new # "CHAT" /\ new \in expected[f].normal
    BY <1>2, <1>9, <2>1 DEF TReadNormal
  <2>3. /\ current' = [current EXCEPT ![f] = new] /\ expected' = [expected EXCEPT ![f] = NextStates(new, c.op)]
        /\ outbox' = [outbox EXCEPT ![f] = Append(@, c)] /\ last' = [last EXCEPT ![f] = c.op] /\ verdict' = verdict
    BY <1>2, <1>9 DEF TReadNormal
  <2>4. c.op \in Ops
    BY DEF TestCommand, ClientCall, Call, Ops
  <2>5. /\ current'[f] = Shown(wire[f][1]) /\ expected'[f] = NextStates(current'[f], last'[f])
        /\ outbox'[f] = Append(outbox[f], c) /\ last'[f] = c.op
    BY <1>1, <2>2, <2>3 DEF Shown, TestTypes
  <2>6. Len(q) - a[1] > 0 => current'[f] \in Quiet /\ \A j \in 1 .. Len(q) : q[j] # "pickup"
    BY <1>5, <1>6, <2>2, <2>5 DEF Shown
  <2> QED BY <1>1, <1>2, <1>3, <1>a, <1>6, <2>3, <2>4, <2>5, <2>6, AfterReading
<1> QED BY <1>7, <1>8, <1>9

\* A message reaches the connection: an answer, or what another client did.
LEMMA AfterMessage ==
  ASSUME TypeOK, TestTypes, NEW f \in Ext, NEW q \in Seq(Ops), NEW a, Fits(f, a, q),
         NEW m \in Message, wire'[f] = Append(wire[f], m), state'[f] = Shown(m),
         UNCHANGED <<current, expected, last, outbox>>,
         \/ /\ cmd[f].op # "register" /\ cmd'[f] = cmd[f]
            /\ IF m.kind = "CHAT" THEN state[f] = "CONNECTED" ELSE m.kind \in Crossing(state[f])
         \/ /\ cmd[f].op \in Ops \cup {"register"} /\ cmd'[f].op = "none" /\ m.kind # "CHAT"
            /\ IF cmd[f].op = "register" THEN m.kind = "ON_HOOK" /\ wire[f] = <<>>
                                         ELSE m.kind \in Normal(state[f], cmd[f].op)
  PROVE  Tracks(f)'
<1>1. PICK n \in Nat, e \in Nat :
        /\ n = Len(wire[f]) /\ e = a[n] /\ e <= Len(q) /\ wire[f] \in Seq(Message) /\ Len(q) \in Nat
        /\ a \in [0 .. n -> 0 .. Len(q)]
  <2>1. wire[f] \in Seq(Message) /\ Len(q) \in Nat
    BY DEF TypeOK
  <2>2. PICK n \in Nat : n = Len(wire[f])
    BY <2>1
  <2>3. a \in [0 .. n -> 0 .. Len(q)] /\ n \in 0 .. n
    BY <2>2 DEF Fits, History
  <2>4. a[n] \in Nat /\ a[n] <= Len(q)
    BY <2>1, <2>3
  <2> QED BY <2>1, <2>2, <2>3, <2>4
<1>2. /\ History(current[f], wire[f], a, q) /\ Pending(q, e, Busy(f), OpOf(cmd[f]), outbox[f])
      /\ outbox[f] \in Seq(TestCommand)
  BY <1>1 DEF Fits, Unanswered, TestTypes
<1> DEFINE c(x) == Lengthened(a, n, x)
<1>3. ASSUME NEW x \in 0 .. Len(q), x \in {e, e + 1}, CanFollow(current[f], wire[f], a, q, n, m, x),
             Pending(q, x, Busy(f)', OpOf(cmd[f])', outbox[f]),
             cmd'[f].op # "register", wire[f] = <<>> => x = e + 1 \/ cmd[f].op # "register"
      PROVE  Tracks(f)'
  <2>1. /\ History(current[f], wire'[f], c(x), q)
        /\ StateAt(current[f], wire'[f], n + 1) = Shown(m)
    BY <1>1, <1>2, <1>3, Extended
  <2>2. /\ Len(wire'[f]) = n + 1 /\ c(x)[n + 1] = x /\ wire'[f] # <<>>
        /\ (n > 0 => c(x)[1] = a[1]) /\ (n = 0 => c(x)[1] = x)
    BY <1>1 DEF Lengthened
  <2> HIDE DEF c
  <2>3. Unanswered(f, c(x), q)'
    BY <1>3, <2>2 DEF Unanswered
  <2>4. Expects(f, c(x), q)'
    <3>1. /\ Len(q) > 0 /\ last[f] = q[Len(q)]
          /\ Len(q) > 1 => current[f] \in Quiet /\ \A j \in 1 .. Len(q) - 1 : q[j] # "pickup"
      BY DEF Fits, Expects
    <3>2. CASE expected[f] = NextStates(current[f], last[f])
      BY <3>1, <3>2 DEF Expects
    <3>3. CASE /\ expected[f] = Fresh /\ current[f] = "ON_HOOK" /\ q = <<"hangup">>
               /\ IF wire[f] = <<>> THEN cmd[f].op = "register" ELSE a[1] = 1
      <4>1. CASE wire[f] = <<>>
        <5>1. n = 0 /\ x = e + 1 /\ e = 0
          BY <1>1, <1>2, <1>3, <3>3, <4>1 DEF History
        <5> QED BY <2>2, <3>1, <3>3, <5>1 DEF Expects
      <4>2. CASE wire[f] # <<>>
        <5>1. n > 0
          BY <1>1, <4>2
        <5> QED BY <2>2, <3>1, <3>3, <4>2, <5>1 DEF Expects
      <4> QED BY <4>1, <4>2
    <3> QED BY <3>2, <3>3 DEF Fits, Expects
  <2>5. Fits(f, c(x), q)'
    BY <1>3, <2>1, <2>2, <2>3, <2>4 DEF Fits
  <2>6. c(x) \in [0 .. Len(wire'[f]) -> 0 .. Len(q)]
    BY <2>1, <2>2 DEF History
  <2> QED BY <2>5, <2>6 DEF Tracks
<1>4. CASE /\ cmd[f].op # "register" /\ cmd'[f] = cmd[f]
           /\ IF m.kind = "CHAT" THEN state[f] = "CONNECTED" ELSE m.kind \in Crossing(state[f])
  <2>1. state[f] = StateAt(current[f], wire[f], n) /\ e \in 0 .. Len(q)
    BY <1>1, <1>4 DEF Fits
  <2>2. Busy(f)' = Busy(f) /\ OpOf(cmd[f])' = OpOf(cmd[f])
    BY <1>4 DEF Busy, OpOf
  <2>3. CanFollow(current[f], wire[f], a, q, n, m, e)
    BY <1>1, <1>4, <2>1 DEF CanFollow
  <2> QED BY <1>1, <1>2, <1>3, <1>4, <2>1, <2>2, <2>3
<1>5. CASE /\ cmd[f].op \in Ops \cup {"register"} /\ cmd'[f].op = "none" /\ m.kind # "CHAT"
           /\ IF cmd[f].op = "register" THEN m.kind = "ON_HOOK" /\ wire[f] = <<>>
                                        ELSE m.kind \in Normal(state[f], cmd[f].op)
  <2>1. Busy(f) = 1 /\ Busy(f)' = 0
    BY <1>5 DEF Busy, Ops
  <2>2. e + 1 <= Len(q) /\ q[e + 1] = OpOf(cmd[f]) /\ Pending(q, e + 1, 0, OpOf(cmd[f])', outbox[f])
    BY <1>1, <1>2, <2>1, PendingAnswered
  <2>3. e + 1 \in 0 .. Len(q) /\ e + 1 \in {e, e + 1} /\ e + 1 = a[n] + 1
    BY <1>1, <2>2
  <2>4. m.kind \in Normal(StateAt(current[f], wire[f], n), q[e + 1])
    <3>1. CASE cmd[f].op = "register"
      <4>1. n = 0 /\ current[f] = "ON_HOOK"
        BY <1>1, <1>5, <3>1 DEF Fits
      <4> QED BY <1>5, <2>2, <3>1, <4>1 DEF StateAt, OpOf, Normal
    <3>2. CASE cmd[f].op # "register"
      <4>1. state[f] = StateAt(current[f], wire[f], n)
        BY <1>1, <3>2 DEF Fits
      <4> QED BY <1>5, <2>2, <3>2, <4>1 DEF OpOf
    <3> QED BY <3>1, <3>2
  <2>5. CanFollow(current[f], wire[f], a, q, n, m, e + 1)
    BY <1>5, <2>3, <2>4 DEF CanFollow
  <2> QED BY <1>3, <1>5, <2>1, <2>2, <2>3, <2>5
<1> QED BY <1>4, <1>5

\* A step that is about another connection.
LEMMA Untouched ==
  ASSUME NEW f \in Ext, Tracks(f), wire'[f] = wire[f], state'[f] = state[f], cmd'[f] = cmd[f],
         current'[f] = current[f], expected'[f] = expected[f], last'[f] = last[f],
         outbox'[f] = outbox[f]
  PROVE  Tracks(f)'
<1>1. PICK q \in Seq(Ops) : \E a \in [0 .. Len(wire[f]) -> 0 .. Len(q)] : Fits(f, a, q)
  BY DEF Tracks
<1>2. PICK a \in [0 .. Len(wire[f]) -> 0 .. Len(q)] : Fits(f, a, q)
  BY <1>1
<1>3. Fits(f, a, q)'
  BY <1>2 DEF Fits, Expects, Unanswered, Busy
<1> QED BY <1>3 DEF Tracks

\* A tester connects: it waits for the answer to its registration.
LEMMA Connected ==
  ASSUME IInv, NetInv, TestInv, NEW f \in Ext, TConnect(f)
  PROVE  Tracks(f)'
<1>1. TypeOK /\ TestTypes
  BY DEF IInv, TestInv
<1>2. pc[f] = "closed" /\ wire[f] = <<>> /\ state[f] = "NONE"
  BY Unregistered DEF TConnect, Accept, NetInv, FreshConnectionSilent, Connections
<1>3. /\ wire'[f] = <<>> /\ state'[f] = "NONE" /\ cmd'[f].op = "register" /\ outbox'[f] = <<>>
      /\ current'[f] = "ON_HOOK" /\ last'[f] = "hangup" /\ expected'[f] = Fresh
  BY <1>1, <1>2 DEF TConnect, Accept, Call, tuVars, TypeOK, TestTypes, Fresh
<1> DEFINE q == <<"hangup">>
           a == [k \in 0 .. 0 |-> 0]
<1>4. q \in Seq(Ops) /\ Len(q) = 1 /\ q[1] = "hangup" /\ a \in [0 .. 0 -> 0 .. 1] /\ a[0] = 0
  BY DEF Ops
<1> HIDE DEF q, a
<1>5. History("ON_HOOK", <<>>, a, q)
  <2>1. Len(<<>>) = 0 /\ \A k \in 0 .. 0 : k = 0
    OBVIOUS
  <2> QED BY <1>4, <2>1 DEF History
<1>6. Unanswered(f, a, q)'
  BY <1>3, <1>4 DEF Unanswered, Pending, Busy, OpOf
<1>7. Expects(f, a, q)'
  BY <1>3, <1>4 DEF Expects, q
<1>8. Fits(f, a, q)'
  BY <1>3, <1>5, <1>6, <1>7 DEF Fits
<1> QED BY <1>3, <1>4, <1>8 DEF Tracks

\* The server reads a command.
LEMMA Taken ==
  ASSUME TypeOK, TestTypes, NEW f \in Ext, TReceive(f), cmd[f].op = "none", Tracks(f)
  PROVE  Tracks(f)'
<1>1. PICK q \in Seq(Ops) : \E a \in [0 .. Len(wire[f]) -> 0 .. Len(q)] : Fits(f, a, q)
  BY DEF Tracks
<1>2. PICK a \in [0 .. Len(wire[f]) -> 0 .. Len(q)] : Fits(f, a, q)
  BY <1>1
<1>3. /\ outbox[f] \in Seq(TestCommand) /\ outbox[f] # <<>> /\ outbox[f][1] \in TestCommand
      /\ Head(outbox[f]) = outbox[f][1] /\ outbox'[f] = Tail(outbox[f])
  BY DEF TestTypes, TReceive
<1>4. outbox[f][1].op \in Ops
  BY <1>3 DEF TestCommand, ClientCall, Call, Ops
<1>5. /\ cmd'[f] = outbox[f][1] /\ wire'[f] = wire[f] /\ state'[f] = state[f]
      /\ UNCHANGED <<current, expected, last>>
  BY <1>3 DEF TReceive, Receive, TypeOK, tuVars, netVars
<1>6. a[Len(wire[f])] \in Nat
  <2>1. Len(wire[f]) \in Nat /\ Len(q) \in Nat
    BY DEF TypeOK
  <2>2. Len(wire[f]) \in 0 .. Len(wire[f])
    BY <2>1
  <2>3. a[Len(wire[f])] \in 0 .. Len(q)
    BY <2>2
  <2> QED BY <2>1, <2>3
<1>7. Pending(q, a[Len(wire[f])], 1, outbox[f][1].op, Tail(outbox[f]))
  <2>1. Busy(f) = 0
    BY DEF Busy
  <2>2. Pending(q, a[Len(wire[f])], 0, OpOf(cmd[f]), outbox[f])
    BY <1>2, <2>1 DEF Fits, Unanswered
  <2> QED BY <1>3, <1>6, <2>2, PendingTaken
<1>8. Busy(f)' = 1 /\ OpOf(cmd[f])' = outbox[f][1].op /\ cmd'[f].op # "register"
  BY <1>4, <1>5 DEF Busy, OpOf, Ops
<1>9. Fits(f, a, q)'
  BY <1>2, <1>3, <1>5, <1>7, <1>8 DEF Fits, Expects, Unanswered
<1> QED BY <1>5, <1>9 DEF Tracks

\* A body of pbx.c, by the thread of this connection or another.
LEMMA BodyTracked ==
  ASSUME IInv, IInv', NetInv, TestInv, NEW f \in Ext, Body(f), ~UseAfterFree(f), UNCHANGED testVars,
         NEW g \in Ext, link'[g] = "up"
  PROVE  Tracks(g)'
<1>1. TypeOK /\ TypeOK' /\ TestTypes /\ UNCHANGED <<current, expected, last, outbox>>
  BY DEF IInv, TestInv, testVars
<1>2. PICK out : Write(out) /\ Announces(f, out)
  BY BodyAnnounces
<1>3. /\ At(f, "inside")
      /\ Leave(f, IF cmd[f].op = "unregister" THEN "closing" ELSE "reading")
  BY BodyReturns
<1>4. link[g] = "up" /\ Tracks(g) /\ cmd[g].op # "unregister"
  BY <1>1, <1>2, WriteWire DEF TestInv, NetInv, Connections
<1>5. PICK q \in Seq(Ops) : \E a \in [0 .. Len(wire[g]) -> 0 .. Len(q)] : Fits(g, a, q)
  BY <1>4 DEF Tracks
<1>6. PICK a \in [0 .. Len(wire[g]) -> 0 .. Len(q)] : Fits(g, a, q)
  BY <1>5
<1>7. ASSUME NEW m, wire'[g] = Append(wire[g], m)
      PROVE  m \in Message
  <2>1. wire[g] \in Seq(Message) /\ wire'[g] \in Seq(Message)
    BY <1>1 DEF TypeOK
  <2>2. m = wire'[g][Len(wire[g]) + 1] /\ Len(wire'[g]) = Len(wire[g]) + 1
    BY <1>7, <2>1
  <2> QED BY <2>1, <2>2
<1>8. CASE g = f
  <2>1. PICK m \in out : m.to = f /\ wire'[f] = Append(wire[f], m)
    BY <1>1, <1>2, <1>4, <1>8, WriteWire DEF Announces
  <2>2. m.kind # "CHAT" /\ m.kind = state'[f] /\ m \in Message
    BY <1>2, <1>7, <1>8, <2>1 DEF Announces
  <2>3. cmd[f].op \in Ops \cup {"register"} /\ cmd'[f].op = "none"
    <3>1. cmd[f].op \in Ops \cup {"register"}
      BY <1>4, <1>8 DEF Body, Register, Unregister, Pickup, Hangup, Dial, Chat, Inside, Ops
    <3>2. cmd'[f] = NoCall
      BY <1>1, <1>3 DEF Leave, TypeOK
    <3> QED BY <3>1, <3>2 DEF NoCall, Call
  <2>4. IF cmd[f].op = "register" THEN m.kind = "ON_HOOK" /\ wire[f] = <<>>
                                 ELSE m.kind \in Normal(state[f], cmd[f].op)
    BY <2>2, <2>3, BodyMoves DEF NetInv, FreshConnectionSilent
  <2> QED BY <1>1, <1>6, <1>8, <2>1, <2>2, <2>3, <2>4, AfterMessage DEF Shown
<1>9. CASE g # f
  <2>1. cmd'[g] = cmd[g]
    BY <1>1, <1>3, <1>9 DEF Leave, TypeOK
  <2>2. CASE \A m \in out : m.to # g
    <3>1. wire'[g] = wire[g] /\ state'[g] = state[g]
      BY <1>1, <1>2, <1>9, <2>2, WriteElsewhere DEF Announces
    <3> QED BY <1>1, <1>4, <2>1, <3>1, Untouched
  <2>3. CASE \E m \in out : m.to = g
    <3>1. PICK m \in out : m.to = g /\ wire'[g] = Append(wire[g], m)
      BY <1>1, <1>2, <1>4, <2>3, WriteWire
    <3>2. m \in Message /\ state[g] # "NONE"
      BY <1>2, <1>7, <1>9, <3>1 DEF Announces
    <3>3. cmd[g].op # "register"
      BY <3>2, Unregistered DEF NetInv, Connections
    <3>4. /\ state'[g] = Shown(m)
          /\ IF m.kind = "CHAT" THEN state[g] = "CONNECTED" ELSE m.kind \in Crossing(state[g])
      <4>1. CASE m.kind = "CHAT"
        BY <1>2, <1>9, <3>1, <4>1 DEF Announces, Shown
      <4>2. CASE m.kind # "CHAT"
        <5>1. m.kind = state'[g] /\ state'[g] # state[g]
          BY <1>2, <1>9, <3>1, <4>2 DEF Announces
        <5> QED BY <1>9, <4>2, <5>1, BodyMoves DEF Shown
      <4> QED BY <4>1, <4>2
    <3> QED BY <1>1, <1>6, <2>1, <3>1, <3>2, <3>3, <3>4, AfterMessage
  <2> QED BY <2>2, <2>3
<1> QED BY <1>8, <1>9

-------------------------------------------------------------------------------
(* The steps of the testers with the server. *)

\* Every step of a tester is one that PBX allows its client.
LEMMA TesterStep ==
  ASSUME TestTypes, [TNext]_<<vars, testVars>>
  PROVE  [Next]_vars
<1>1. ASSUME NEW f \in Ext, TReceive(f)
      PROVE  Next
  <2>1. Head(outbox[f]) \in TestCommand
    BY <1>1 DEF TestTypes, TReceive
  <2>2. Head(outbox[f]) \in ClientCall
    BY <2>1 DEF TestCommand
  <2> QED BY <1>1, <2>2 DEF TReceive, Next
<1>2. ASSUME NEW f \in Ext,
             TConnect(f) \/ TReadChat(f) \/ TReadCrossing(f) \/ TOther(f)
               \/ \E c \in TestCommand : TReadNormal(f, c)
      PROVE  Next
  BY <1>2 DEF TConnect, TReadChat, TReadCrossing, TOther, TReadNormal, Next
<1> QED BY <1>1, <1>2 DEF TNext, TEnded, Next

LEMMA InitTest == TInit => TestInv
BY DEF TInit, Init, TestInv, TestTypes, Ops, TuState, NoCall, Call

\* The variables of the testers keep their types.
LEMMA TestTypesStep ==
  ASSUME TypeOK, TestTypes, [TNext]_<<vars, testVars>>
  PROVE  TestTypes'
<1> USE DEF TestTypes
<1>1. ASSUME NEW f \in Ext, TConnect(f)
      PROVE  TestTypes'
  BY <1>1 DEF TConnect, TuState, Ops
<1>2. ASSUME NEW f \in Ext, TReadChat(f)
      PROVE  TestTypes'
  BY <1>2 DEF TReadChat
<1>3. ASSUME NEW f \in Ext, NEW c \in TestCommand, TReadNormal(f, c)
      PROVE  TestTypes'
  <2> DEFINE new == Head(wire[f]).kind
  <2>1. new \in TuState /\ c.op \in Ops
    BY <1>3 DEF TReadNormal, TestCommand, ClientCall, Call, Ops
  <2>2. NextStates(new, c.op) \in [normal : SUBSET TuState, crossing : SUBSET TuState]
    BY <2>1, NextTypes
  <2> QED BY <1>3, <2>1, <2>2 DEF TReadNormal
<1>4. ASSUME NEW f \in Ext, TReadCrossing(f)
      PROVE  TestTypes'
  <2> DEFINE new == Head(wire[f]).kind
  <2>1. CASE new \in expected[f].crossing
    <3>1. new \in TuState
      BY <2>1
    <3>2. NextStates(new, last[f]) \in [normal : SUBSET TuState, crossing : SUBSET TuState]
      BY <3>1, NextTypes
    <3> QED BY <1>4, <2>1, <3>1, <3>2 DEF TReadCrossing
  <2>2. CASE new \notin expected[f].crossing
    BY <1>4, <2>2 DEF TReadCrossing
  <2> QED BY <2>1, <2>2
<1>5. ASSUME NEW f \in Ext, TReceive(f)
      PROVE  TestTypes'
  BY <1>5 DEF TReceive
<1>6. ASSUME UNCHANGED testVars
      PROVE  TestTypes'
  BY <1>6 DEF testVars
<1> QED BY <1>1, <1>2, <1>3, <1>4, <1>5, <1>6 DEF TNext, TOther, TEnded

\* The rest of TestInv, for one connection.
Safe(f) ==
  /\ verdict[f] = "ok"
  /\ pc[f] = "reading" => cmd[f].op = "none"
  /\ pc[f] # "skipping"
  /\ link[f] = "up" => Tracks(f)

\* A connection that a step does not concern stays safe.
LEMMA StaysSafe ==
  ASSUME NEW f \in Ext, Safe(f), wire'[f] = wire[f], state'[f] = state[f], cmd'[f] = cmd[f],
         current'[f] = current[f], expected'[f] = expected[f], last'[f] = last[f],
         outbox'[f] = outbox[f], verdict'[f] = verdict[f], pc'[f] = pc[f], link'[f] = link[f]
  PROVE  Safe(f)'
BY Untouched DEF Safe

LEMMA TestStep ==
  ASSUME IInv, IInv', NetInv, TestInv, [TNext]_<<vars, testVars>>
  PROVE  TestInv'
<1>0. TypeOK /\ TestTypes /\ TestTypes' /\ \A g \in Ext : Safe(g)
  BY TestTypesStep DEF IInv, TestInv, Safe
<1> SUFFICES ASSUME NEW g \in Ext PROVE Safe(g)'
  BY <1>0 DEF TestInv, Safe
<1>1. ASSUME NEW f \in Ext, TConnect(f)
      PROVE  Safe(g)'
  <2>1. CASE g = f
    <3>1. verdict'[f] = "ok" /\ pc'[f] = "waiting"
      BY <1>0, <1>1 DEF TConnect, Accept, Safe, TypeOK
    <3> QED BY <1>1, <2>1, <3>1, Connected DEF Safe
  <2>2. CASE g # f
    BY <1>0, <1>1, <2>2, StaysSafe DEF TConnect, Accept, tuVars, TypeOK, TestTypes
  <2> QED BY <2>1, <2>2
<1>2. ASSUME NEW f \in Ext,
             TReadChat(f) \/ TReadCrossing(f) \/ \E c \in TestCommand : TReadNormal(f, c)
      PROVE  Safe(g)'
  <2>1. ClientReads(f)
    BY <1>2 DEF TReadChat, TReadNormal, TReadCrossing
  <2>2. pc'[g] = pc[g] /\ cmd'[g] = cmd[g] /\ state'[g] = state[g] /\ link'[g] = link[g]
    BY <2>1 DEF ClientReads, tuVars, lockVars
  <2>3. CASE g = f
    BY <1>0, <1>2, <2>2, <2>3, TesterReads DEF Safe
  <2>4. CASE g # f
    <3>1. wire'[g] = wire[g]
      BY <1>0, <2>1, <2>4 DEF ClientReads, TypeOK
    <3>2. /\ current'[g] = current[g] /\ expected'[g] = expected[g] /\ last'[g] = last[g]
          /\ outbox'[g] = outbox[g] /\ verdict'[g] = verdict[g]
      BY <1>0, <1>2, <2>4 DEF TReadChat, TReadNormal, TReadCrossing, TestTypes
    <3> QED BY <1>0, <2>2, <3>1, <3>2, StaysSafe
  <2> QED BY <2>3, <2>4
<1>3. ASSUME NEW f \in Ext, TReceive(f)
      PROVE  Safe(g)'
  <2>1. /\ Receive(f, Head(outbox[f])) /\ Head(outbox[f]).op # "skip"
        /\ UNCHANGED <<current, expected, last, verdict>> /\ outbox' = [outbox EXCEPT ![f] = Tail(@)]
    BY <1>0, <1>3 DEF TReceive, TestTypes, TestCommand
  <2>2. CASE g = f
    <3>1. pc[f] = "reading" /\ pc'[f] = "waiting" /\ link'[f] = link[f]
      BY <1>0, <2>1 DEF Receive, At, netVars, TypeOK
    <3>2. link[f] = "up" => Tracks(f)'
      BY <1>0, <1>3, <2>1, <3>1, Taken DEF Safe
    <3> QED BY <1>0, <2>1, <2>2, <3>1, <3>2 DEF Safe
  <2>3. CASE g # f
    BY <1>0, <2>1, <2>3, StaysSafe DEF Receive, netVars, tuVars, TypeOK, TestTypes
  <2> QED BY <2>2, <2>3
<1>4. ASSUME NEW f \in Ext, TOther(f)
      PROVE  Safe(g)'
  <2>0. UNCHANGED testVars
    BY <1>4 DEF TOther
  <2>1. CASE Enter(f)
    <3>1. pc'[g] \in {pc[g], "inside"} /\ (pc'[g] # "inside" => pc'[g] = pc[g])
      BY <1>0, <2>1 DEF Enter, TypeOK
    <3>2. UNCHANGED <<cmd, tuVars, netVars>>
      BY <2>1 DEF Enter
    <3>3. link'[g] = "up" => Tracks(g)'
      BY <1>0, <2>0, <3>2, Untouched DEF Safe, testVars, tuVars, netVars
    <3> QED BY <1>0, <2>0, <3>1, <3>2, <3>3 DEF Safe, testVars
  <2>2. CASE UseAfterFree(f)
    BY <1>0, <2>0, <2>2, StaysSafe DEF UseAfterFree, testVars, tuVars, netVars, lockVars
  <2>3. CASE Body(f) /\ ~UseAfterFree(f)
    <3>1. link'[g] = "up" => Tracks(g)'
      BY <2>0, <2>3, BodyTracked
    <3>2. Leave(f, IF cmd[f].op = "unregister" THEN "closing" ELSE "reading")
      BY <2>3, BodyReturns
    <3>3. /\ g = f => pc'[g] \in {"closing", "reading"} /\ cmd'[g] = NoCall
          /\ g # f => pc'[g] = pc[g] /\ cmd'[g] = cmd[g]
      BY <1>0, <3>2 DEF Leave, TypeOK
    <3>4. NoCall.op = "none"
      BY DEF NoCall, Call
    <3> QED BY <1>0, <2>0, <3>1, <3>3, <3>4 DEF Safe, testVars
  <2>4. CASE Close(f)
    <3>1. g = f => link'[g] = "none" /\ pc'[g] = "closed"
      BY <1>0, <2>4 DEF Close, TypeOK
    <3>2. g # f => Safe(g)'
      BY <1>0, <2>0, <2>4, StaysSafe DEF Close, TypeOK, testVars, tuVars
    <3> QED BY <1>0, <2>0, <3>1, <3>2 DEF Safe, testVars
  <2>5. CASE ClientGoes(f)
    <3>1. g = f => link'[g] = "gone" /\ pc'[g] = pc[g] /\ cmd'[g] = cmd[g]
      BY <1>0, <2>5 DEF ClientGoes, TypeOK, lockVars
    <3>2. g # f => Safe(g)'
      BY <1>0, <2>0, <2>5, StaysSafe DEF ClientGoes, TypeOK, testVars, tuVars, lockVars
    <3> QED BY <1>0, <2>0, <3>1, <3>2 DEF Safe, testVars
  <2>6. CASE ReadEof(f)
    <3>1. g = f => link'[g] # "up" /\ pc'[g] = "waiting"
      BY <1>0, <2>6 DEF ReadEof, TypeOK, netVars
    <3>2. g # f => Safe(g)'
      BY <1>0, <2>0, <2>6, StaysSafe DEF ReadEof, TypeOK, testVars, tuVars, netVars
    <3> QED BY <1>0, <2>0, <3>1, <3>2 DEF Safe, testVars
  <2> QED BY <1>4, <2>1, <2>2, <2>3, <2>4, <2>5, <2>6 DEF TOther
<1>5. ASSUME UNCHANGED <<vars, testVars>>
      PROVE  Safe(g)'
  BY <1>0, <1>5, StaysSafe DEF vars, testVars, tuVars, lockVars, netVars
<1>6. ASSUME TEnded
      PROVE  Safe(g)'
  BY <1>5, <1>6 DEF TEnded, Ended
<1> QED BY <1>1, <1>2, <1>3, <1>4, <1>5, <1>6 DEF TNext

\* The server keeps the invariants of the other modules when testers are its clients.
LEMMA TestInvariance == TSpec => [](IInv /\ NetInv /\ TestInv)
<1>1. TInit => IInv /\ NetInv /\ TestInv
  BY InitInv, InitNet, InitTest DEF TInit
<1>2. IInv /\ NetInv /\ TestInv /\ [TNext]_<<vars, testVars>> => IInv' /\ NetInv' /\ TestInv'
  <2> SUFFICES ASSUME IInv, NetInv, TestInv, [TNext]_<<vars, testVars>>
               PROVE  IInv' /\ NetInv' /\ TestInv'
    OBVIOUS
  <2>1. [Next]_vars
    BY TesterStep DEF TestInv
  <2>2. IInv'
    BY <2>1, TypeStep, MutexStep, RegisteredStep, SymmetryStep DEF IInv
  <2> QED BY <2>1, <2>2, NetStep, TestStep
<1> QED BY <1>1, <1>2, PTL DEF TSpec

-------------------------------------------------------------------------------

\* A tester does nothing that PBX does not expect of a client, so whatever is
\* proved of PBX holds with testers as its clients.
THEOREM TestersAreClients == TSpec => Spec
<1>1. TInit => Init
  BY DEF TInit
<1>2. TestInv /\ [TNext]_<<vars, testVars>> => [Next]_vars
  BY TesterStep DEF TestInv
<1> QED BY TestInvariance, <1>1, <1>2, PTL DEF TSpec, Spec

\* No tester meets a state it does not expect, for any number of testers that
\* run any number of commands ahead (tester.c: a transition to a state not in
\* this set results in a test failure).
THEOREM NoTestFails == TSpec => []NoUnexpectedState
<1>1. TestInv => NoUnexpectedState
  BY DEF TestInv, NoUnexpectedState
<1> QED BY TestInvariance, <1>1, PTL

\* Chat arrives only at a tester whose last notification said CONNECTED.
THEOREM ChatWhenConnected == TSpec => []ChatOnlyInACall
<1>1. TestInv => ChatOnlyInACall
  BY DEF TestInv, ChatOnlyInACall
<1> QED BY TestInvariance, <1>1, PTL
===============================================================================
