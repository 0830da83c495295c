--------------------------- MODULE LoginProtocol ---------------------------
(***************************************************************************)
(* What a display promises about login attempts, whatever the messages,   *)
(* timers and processes it is built from do: attempts are made one at a   *)
(* time, a session is opened only for the attempt that was accepted, and  *)
(* an attempt is replaced only after it is over or the display is         *)
(* replaced.                                                              *)
(***************************************************************************)
CONSTANTS
    Attempt,      \* the attempts there may be
    NoAttempt,
    AutoAttempt   \* the attempt a new display may start by itself

VARIABLES
    holder,   \* the attempt under way
    stage     \* how far it has come

Stages == {"idle", "checking", "accepted", "session", "over"}

TypeOK == holder \in Attempt \cup {NoAttempt} /\ stage \in Stages

Init == holder = NoAttempt /\ stage = "idle"

Begin(a) ==
    /\ stage = "idle"
    /\ holder' = a /\ stage' = "checking"

Accept ==
    /\ stage = "checking"
    /\ stage' = "accepted" /\ UNCHANGED holder

Open ==
    /\ stage = "accepted"
    /\ stage' = "session" /\ UNCHANGED holder

Finish ==
    /\ stage \in {"checking", "accepted", "session"}
    /\ stage' = "over" /\ UNCHANGED holder

\* The display forgets an attempt that is over, or is itself replaced; a
\* replacement may start with an attempt of its own, the autologin.
Forget ==
    /\ stage # "idle"
    /\ holder' = NoAttempt /\ stage' = "idle"

Replace(a) ==
    /\ holder' = a /\ stage' = "checking"

Next ==
    \/ \E a \in Attempt : Begin(a)
    \/ Accept \/ Open \/ Finish \/ Forget
    \/ Replace(AutoAttempt)

Spec == Init /\ [][Next]_<<holder, stage>>
=============================================================================
