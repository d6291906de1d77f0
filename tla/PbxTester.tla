------------------------------ MODULE PbxTester ------------------------------
(***************************************************************************)
(* The PBX server of module PBX composed with the clients of               *)
(* util/tester.c: every client is a tester, which sends a command, checks  *)
(* each notification against the set of states it expects, and             *)
(* resynchronises when a notification has crossed its command in transit.  *)
(***************************************************************************)
EXTENDS PBX

CONSTANT MaxUnsent      \* commands a tester has written and the server not read, at most

VARIABLES
  outbox,       \* commands written by the tester, not read by the server
  current,      \* current_state
  expected,     \* expected_states: the "normal" and the "crossing" states
  last,         \* last_command
  verdict       \* "ok", or how the test failed

testVars == <<outbox, current, expected, last, verdict>>

\* Asynchronous changes that can cross a command in transit.
Crossing(s) ==
  CASE s = "ON_HOOK"   -> {"RINGING"}
    [] s = "RINGING"   -> {"ON_HOOK"}
    [] s = "RING_BACK" -> {"CONNECTED", "DIAL_TONE"}
    [] s = "CONNECTED" -> {"DIAL_TONE"}
    [] OTHER           -> {}

\* The answers expected to command op in state s when nothing crosses it.
Normal(s, op) ==
  CASE op = "hangup"                      -> {"ON_HOOK"}
    [] op = "pickup" /\ s = "ON_HOOK"     -> {"DIAL_TONE"}
    [] op = "pickup" /\ s = "RINGING"     -> {"CONNECTED"}
    [] op = "dial"   /\ s = "DIAL_TONE"   -> {"RING_BACK", "BUSY_SIGNAL", "ERROR"}
    [] OTHER                              -> {s}

\* Mutant of LateCopy: a command never crosses the state it was sent in.
NoLateCopy == {}

\* The entries in which the state the command was sent in can itself arrive late.
LateCopy ==
  {<<"ON_HOOK", "pickup">>, <<"RINGING", "pickup">>, <<"CONNECTED", "pickup">>,
   <<"DIAL_TONE", "dial">>}
  \cup {<<s, "hangup">> : s \in TuState \ {"ON_HOOK"}}

\* next_states[s][op].
NextStates(s, op) ==
  [normal   |-> Normal(s, op),
   crossing |-> (Crossing(s) \cup (IF <<s, op>> \in LateCopy THEN {s} ELSE {})) \ Normal(s, op)]

TInit ==
  /\ Init
  /\ outbox = [f \in Ext |-> <<>>]
  /\ current = [f \in Ext |-> "ON_HOOK"]
  /\ expected = [f \in Ext |-> [normal |-> {"ON_HOOK"}, crossing |-> {}]]
  /\ last = [f \in Ext |-> "hangup"]
  /\ verdict = [f \in Ext |-> "ok"]

\* A new process of the tester connects.
TConnect(f) ==
  /\ Accept(f)
  /\ outbox' = [outbox EXCEPT ![f] = <<>>]
  /\ current' = [current EXCEPT ![f] = "ON_HOOK"]
  /\ expected' = [expected EXCEPT ![f] = [normal |-> {"ON_HOOK"}, crossing |-> {}]]
  /\ last' = [last EXCEPT ![f] = "hangup"]
  /\ UNCHANGED verdict

TestCommand == {c \in ClientCall : c.op # "skip"}

\* The iteration of the loop of test() that reads a message: chat ...
TReadChat(f) ==
  /\ verdict[f] = "ok"
  /\ ClientReads(f)
  /\ Head(wire[f]).kind = "CHAT"
  /\ verdict' = [verdict EXCEPT ![f] = IF current[f] = "CONNECTED" THEN "ok" ELSE "chat"]
  /\ UNCHANGED <<outbox, current, expected, last>>

\* ... an expected state, after which the next command is chosen and sent ...
TReadNormal(f, c) ==
  LET new == Head(wire[f]).kind
  IN /\ verdict[f] = "ok"
     /\ ClientReads(f)
     /\ new \in expected[f].normal
     /\ Len(outbox[f]) < MaxUnsent
     /\ current' = [current EXCEPT ![f] = new]
     /\ outbox' = [outbox EXCEPT ![f] = Append(@, c)]
     /\ expected' = [expected EXCEPT ![f] = NextStates(new, c.op)]
     /\ last' = [last EXCEPT ![f] = c.op]
     /\ UNCHANGED verdict

\* ... or another state: one that crossed the last command, whose answer is
\* still to come, or else one that fails the test.
TReadCrossing(f) ==
  LET new == Head(wire[f]).kind
  IN /\ verdict[f] = "ok"
     /\ ClientReads(f)
     /\ new \notin expected[f].normal \cup {"CHAT"}
     /\ IF new \in expected[f].crossing
          THEN /\ current' = [current EXCEPT ![f] = new]
               /\ expected' = [expected EXCEPT ![f] = NextStates(new, last[f])]
               /\ UNCHANGED verdict
          ELSE /\ verdict' = [verdict EXCEPT ![f] = "unexpected"]
               /\ UNCHANGED <<current, expected>>
     /\ UNCHANGED <<outbox, last>>

\* The server thread reads the next command.
TReceive(f) ==
  /\ outbox[f] # <<>>
  /\ Receive(f, Head(outbox[f]))
  /\ outbox' = [outbox EXCEPT ![f] = Tail(@)]
  /\ UNCHANGED <<current, expected, last, verdict>>

\* The other steps of the server, and a tester that has sent its commands.
\* End of file is read after the commands written before it, unless a reset
\* has thrown them away.
TOther(f) ==
  /\ \/ Enter(f) \/ Body(f) \/ Close(f) \/ ClientGoes(f)
     \/ outbox[f] = <<>> /\ ReadEof(f)
     \/ link[f] = "reset" /\ ReadEof(f)
  /\ UNCHANGED testVars

TEnded == Ended /\ UNCHANGED testVars

TNext ==
  \/ \E f \in Ext : \/ TConnect(f) \/ TReadChat(f) \/ TReadCrossing(f) \/ TReceive(f) \/ TOther(f)
                    \/ \E c \in TestCommand : TReadNormal(f, c)
  \/ TEnded

TSpec == TInit /\ [][TNext]_<<vars, testVars>>

-------------------------------------------------------------------------------

\* No tester meets a state it does not expect, or chat outside a call, however
\* its commands cross the notifications (tester.c: a transition to a state not
\* in this set results in a test failure).
NoUnexpectedState == \A f \in Ext : verdict[f] # "unexpected"

\* Chat arrives only at a tester whose last notification said CONNECTED.
ChatOnlyInACall == \A f \in Ext : verdict[f] # "chat"

===============================================================================
