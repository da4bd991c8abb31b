---------------------------- MODULE OneTimeCodes -----------------------------
(***************************************************************************)
(* What the one-time-code component promises: per address a box that is    *)
(* empty or holds one challenge.  A challenge is put in, replaces the one  *)
(* that was there, is taken out after it was asked for while it was good,  *)
(* or loses one of its attempts, each at one instant or not at all.  What  *)
(* has left a box never comes back.  OtpChallenges implements it.          *)
(***************************************************************************)
EXTENDS Naturals

CONSTANTS Email, Challenge, Code, None, MaxAttempts, Duration

VARIABLES
    now,
    box,        \* the challenge that is good for an address, or None
    asked,      \* the challenges somebody gave the code of, and waits to take
    retired     \* the challenges that were taken, replaced or never stored

promises == <<now, box, asked, retired>>

CodesInit ==
    /\ now = 0
    /\ box = [e \in Email |-> None]
    /\ asked = {}
    /\ retired = {}

Boxed == {box[e].id : e \in {a \in Email : box[a] # None}}

\* A new code for e; its life is counted from the moment it was e-mailed.
Replace(e, c, k) ==
    /\ c \notin Boxed \cup retired
    /\ \E built \in 0..now :
          box' = [box EXCEPT ![e] = [id |-> c, code |-> k, attempts |-> 0,
                                     expires |-> built + Duration]]
    /\ retired' = retired \cup (IF box[e] = None THEN {} ELSE {box[e].id})
    /\ UNCHANGED <<now, asked>>

\* A challenge that was announced will not come.
GiveUp(c) ==
    /\ c \notin Boxed
    /\ retired' = retired \cup {c}
    /\ UNCHANGED <<now, box, asked>>

\* The right code is given, at a moment when it is good ...
Ask(e) ==
    /\ box[e] # None
    /\ now < box[e].expires
    /\ asked' = asked \cup {box[e].id}
    /\ UNCHANGED <<now, box, retired>>

\* ... and nothing comes of it ...
Leave(c) ==
    /\ asked' = asked \ {c}
    /\ UNCHANGED <<now, box, retired>>

\* ... or the challenge is taken, be it a moment too late.
TakeOut(e) ==
    /\ box[e] # None
    /\ box[e].id \in asked
    /\ box' = [box EXCEPT ![e] = None]
    /\ retired' = retired \cup {box[e].id}
    /\ asked' \in {asked, asked \ {box[e].id}}
    /\ UNCHANGED now

\* A wrong code is counted, up to the limit.
CountAttempt(e) ==
    /\ box[e] # None
    /\ box[e].attempts < MaxAttempts
    /\ box' = [box EXCEPT ![e] = [id |-> box[e].id, code |-> box[e].code,
                                  attempts |-> box[e].attempts + 1,
                                  expires |-> box[e].expires]]
    /\ UNCHANGED <<now, asked, retired>>

TimePasses == now' = now + 1 /\ UNCHANGED <<box, asked, retired>>

CodesNext ==
    \/ \E e \in Email, c \in Challenge, k \in Code : Replace(e, c, k)
    \/ \E c \in Challenge : GiveUp(c) \/ Leave(c)
    \/ \E e \in Email : Ask(e) \/ TakeOut(e) \/ CountAttempt(e)
    \/ TimePasses

CodesSpec == CodesInit /\ [][CodesNext]_promises
=============================================================================
