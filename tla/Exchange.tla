------------------------------- MODULE Exchange -------------------------------
(***************************************************************************)
(* What the telephone exchange of hw5 promises, without threads, locks,    *)
(* sockets or notifications: telephones are plugged in and out, calls are  *)
(* rung, answered and dropped, each in one step.  A phone's "tone" is what *)
(* its user perceives while it takes part in no call.                      *)
(***************************************************************************)
CONSTANT Ext            \* extension numbers

VARIABLES tone,         \* tone[e]: "absent", "onhook", "dial", "busy", "error" or "call"
          ringing,      \* pairs <<caller, callee>> of calls not yet answered
          talking       \* pairs {caller, callee} of answered calls

xvars == <<tone, ringing, talking>>

Tone == {"absent", "onhook", "dial", "busy", "error", "call"}

XTypeOK ==
  /\ tone \in [Ext -> Tone]
  /\ ringing \subseteq Ext \X Ext
  /\ talking \subseteq SUBSET Ext

XInit ==
  /\ tone = [e \in Ext |-> "absent"]
  /\ ringing = {}
  /\ talking = {}

-------------------------------------------------------------------------------

\* Retune(new) gives the phones of the domain of new a new tone.
Retune(new) == tone' = [e \in Ext |-> IF e \in DOMAIN new THEN new[e] ELSE tone[e]]

PlugIn(e) ==
  /\ tone[e] = "absent"
  /\ tone' = [tone EXCEPT ![e] = "onhook"]
  /\ UNCHANGED <<ringing, talking>>

LiftHandset(e) ==
  /\ tone[e] = "onhook"
  /\ tone' = [tone EXCEPT ![e] = "dial"]
  /\ UNCHANGED <<ringing, talking>>

\* The callee e answers the call from c: one call changes hands, as a whole.
Answer(c, e) ==
  /\ <<c, e>> \in ringing
  /\ ringing' = ringing \ {<<c, e>>}
  /\ talking' = talking \cup {{c, e}}
  /\ UNCHANGED tone

\* c reaches e: both phones enter the same call in the same step.
Ring(c, e) ==
  /\ tone[c] = "dial" /\ tone[e] = "onhook"
  /\ Retune([x \in {c, e} |-> "call"])
  /\ ringing' = ringing \cup {<<c, e>>}
  /\ UNCHANGED talking

\* c does not reach e: e is not plugged in, or is off hook or in a call.
Fail(c, e) ==
  /\ tone[c] = "dial" /\ tone[e] # "onhook"
  /\ tone' = [tone EXCEPT ![c] = IF tone[e] = "absent" THEN "error" ELSE "busy"]
  /\ UNCHANGED <<ringing, talking>>

\* e puts the handset down, or is unplugged, outside a call.
Leave(e, t) ==
  /\ tone[e] \notin {"absent", "call"}
  /\ tone' = [tone EXCEPT ![e] = t]
  /\ UNCHANGED <<ringing, talking>>

\* e leaves its call with p: a caller or a peer is left listening to the dial
\* tone, a phone that was only ringing goes quiet.
Drop(e, p, t) ==
  /\ e # p
  /\ \/ /\ <<p, e>> \in ringing \/ {e, p} \in talking
        /\ Retune([x \in {e, p} |-> IF x = e THEN t ELSE "dial"])
     \/ /\ <<e, p>> \in ringing
        /\ Retune([x \in {e, p} |-> IF x = e THEN t ELSE "onhook"])
  /\ ringing' = ringing \ {<<e, p>>, <<p, e>>}
  /\ talking' = talking \ {{e, p}}

XNext ==
  \E e \in Ext :
    \/ PlugIn(e)
    \/ LiftHandset(e)
    \/ \E t \in {"onhook", "absent"} : Leave(e, t)
    \/ \E p \in Ext : \/ Answer(p, e)
                      \/ Ring(e, p)
                      \/ Fail(e, p)
                      \/ \E t \in {"onhook", "absent"} : Drop(e, p, t)

XSpec == XInit /\ [][XNext]_xvars
===============================================================================
