------------------------- MODULE LoginDisplayProofs -------------------------
(***************************************************************************)
(* Safety of LoginDisplay for every set of users and windows, every bound  *)
(* and every set of faults: type correctness, the inductive                *)
(* invariant IInv, the secrets a helper is given, the refinement of       *)
(* LoginProtocol, the sessions that are unlocked, the VT of a session and  *)
(* what ends it.                                                          *)
(*                                                                        *)
(* IInv is needed because neither ResponsesMatchAttempt nor the           *)
(* refinement is inductive: both rest on who owns the helper process      *)
(* (HelperOwned) and on no answer being left in a socket from an attempt  *)
(* to the next (OneConversation).  UnlockInv and VtInv strengthen it for   *)
(* two parts of the display that the conversation does not touch: the      *)
(* session found by startAuth, read when the helper's message arrives,     *)
(* and the VT chosen by startAuth, which a greeter may take until then.    *)
(***************************************************************************)
EXTENDS LoginDisplay, TLAPS

-----------------------------------------------------------------------------
(***************************************************************************)
(* The operators a step is built from keep the types                      *)
(***************************************************************************)

\* The objects a constructor leaves behind have their types (FreshAuth and the
\* others, Display.h, Auth.cpp).
LEMMA FreshTypes ==
    /\ FreshDisplay \in Displays /\ FreshAuth \in Auths /\ NoHelper \in Helpers
    /\ GreeterOff \in Greeters /\ NoUi \in Uis /\ NoReply \in Replies
    /\ [a \in Attempt |-> <<>>] \in [Attempt -> Seq(WireMsg)]
BY ConstantsAssumption
   DEF FreshDisplay, FreshAuth, NoHelper, GreeterOff, NoUi, NoReply, Reply, Displays,
       Auths, Helpers, Greeters, Uis, Replies, Phases, MaybeAttempt, NoAttempt, Attempt

\* Display::startAuth leaves typed objects, whichever way it returns.
LEMMA StartAuthTypes ==
    ASSUME NEW d \in Displays, NEW au \in Auths, NEW g \in Greeters, NEW l \in Logins,
           helper \in Helpers, StartAuth(d, au, g, l)
    PROVE  display' \in Displays /\ auth' \in Auths /\ helper' \in Helpers
<1>1. CASE AuthIsActive(au)
  BY <1>1 DEF StartAuth, RefusedWhileActive
<1>2. CASE ~AuthIsActive(au) /\ ~l.valid
  BY <1>2 DEF StartAuth, Displays, Logins, MaybeAttempt
<1>3. CASE ~AuthIsActive(au) /\ l.valid
  <2>1. PICK online \in BOOLEAN :
           /\ display' = DisplayFor(d, g, l, online)
           /\ auth' = AuthFor(au, l, online)
           /\ helper' = HelperFor(AuthFor(au, l, online))
    BY <1>3 DEF StartAuth
  <2>2. display' \in Displays
    BY <2>1 DEF DisplayFor, FoundBy, Displays, Logins, MaybeAttempt
  <2>3. AuthFor(au, l, online) \in Auths
    BY DEF AuthFor, Auths, Logins, Names, MaybeAttempt
  <2>4. helper' \in Helpers
    BY <2>1, <2>3, FreshTypes DEF HelperFor, Helpers, Auths, Phases
  <2> QED BY <2>1, <2>2, <2>3, <2>4
<1> QED BY <1>1, <1>2, <1>3

\* A display that is replaced, with or without an autologin, and a daemon that
\* exits leave typed objects (Display::start, Seat::displayStopped).
LEMMA BringUpTypes ==
    ASSUME TypeOK, NEW lock \in BOOLEAN, BringUp(lock), daemon' \in Daemons
    PROVE  TypeOK'
<1>1. /\ wire' \in [Attempt -> Seq(WireMsg)] /\ reply' \in Replies
      /\ greeter' \in Greeters /\ ui' \in Uis
      /\ toDaemon' \in Seq(Logins) /\ toUi' \in Seq(UiMsgs)
      /\ granted' \subseteq Grants /\ unlocked' \subseteq MaybeAttempt \X MaybeAttempt
  BY FreshTypes DEF BringUp, NothingLeft
<1>2. display' \in Displays /\ auth' \in Auths /\ helper' \in Helpers
  <2>1. CASE WantsAutologin(lock) /\ \E u \in Users :
               StartAuth(FreshDisplay, [FreshAuth EXCEPT !.autologin = TRUE],
                         GreeterOff, AutoLogin(u))
    <3>1. PICK u \in Users :
             StartAuth(FreshDisplay, [FreshAuth EXCEPT !.autologin = TRUE],
                       GreeterOff, AutoLogin(u))
      BY <2>1
    <3>2. [FreshAuth EXCEPT !.autologin = TRUE] \in Auths
      BY FreshTypes DEF Auths
    <3>3. AutoLogin(u) \in Logins
      BY ConstantsAssumption DEF AutoLogin, Logins, Attempt, Names
    <3> QED
      BY <3>1, <3>2, <3>3, FreshTypes, StartAuthTypes DEF TypeOK
  <2>2. CASE /\ display' = [FreshDisplay EXCEPT !.queued = TRUE]
             /\ auth' = FreshAuth /\ helper' = NoHelper
    BY <2>2, FreshTypes DEF Displays
  <2> QED BY <2>1, <2>2 DEF BringUp
<1> QED BY <1>1, <1>2 DEF TypeOK

LEMMA StopDisplayTypes ==
    ASSUME TypeOK, NEW n \in 0..MaxTtyFailures, StopDisplay(n)
    PROVE  TypeOK'
<1>1. daemon' \in Daemons
  <2>1. daemon \in Daemons /\ Relogin \in BOOLEAN
    BY ConstantsAssumption DEF TypeOK
  <2>2. daemon' = [daemon EXCEPT !.firstLogin = @ \/ ~Relogin, !.ttyFailures = n]
    BY DEF StopDisplay
  <2> QED BY <2>1, <2>2 DEF Daemons
<1>2. daemon.firstLogin \in BOOLEAN
  BY DEF TypeOK, Daemons
<1> QED BY <1>1, <1>2, BringUpTypes DEF StopDisplay

LEMMA ExitDaemonTypes == TypeOK /\ ExitDaemon => TypeOK'
BY FreshTypes DEF ExitDaemon, NothingLeft, TypeOK, Daemons, MaxTtyFailures

LEMMA GreeterEndTypes ==
    ASSUME TypeOK, NEW status, HandleGreeterEnd(status)
    PROVE  TypeOK'
<1>1. daemon.ttyFailures \in 0..MaxTtyFailures
  BY DEF TypeOK, Daemons
<1>2. ~TooManyTtyFailures(daemon.ttyFailures) =>
        daemon.ttyFailures + 1 \in 0..MaxTtyFailures
  BY <1>1 DEF TooManyTtyFailures, MaxTtyFailures
<1> QED
  BY <1>1, <1>2, StopDisplayTypes, ExitDaemonTypes DEF HandleGreeterEnd

\* What the daemon writes to a socket is a message of that socket's protocol.
LEMMA TellTypes ==
    ASSUME TypeOK, NEW msgs \in Seq(UiMsgs), ToGreeter(msgs) \/ Tell(msgs)
    PROVE  toUi' \in Seq(UiMsgs)
<1>1. toUi \in Seq(UiMsgs) /\ toUi \o msgs \in Seq(UiMsgs)
  BY DEF TypeOK
<1>2. toUi' = toUi \/ toUi' = toUi \o msgs
  BY DEF ToGreeter, Tell
<1> QED BY <1>1, <1>2

LEMMA MessageTypes ==
    /\ <<"LoginFailed">> \in Seq(UiMsgs) /\ <<"InformationMessage">> \in Seq(UiMsgs)
    /\ \A k : ErrorReport(k) \in Seq(UiMsgs)
    /\ \A ok : Verdict(ok) \in Seq(UiMsgs)
<1>1. /\ <<"LoginFailed">> \in Seq(UiMsgs) /\ <<"LoginSucceeded">> \in Seq(UiMsgs)
      /\ <<"InformationMessage">> \in Seq(UiMsgs)
      /\ <<"InformationMessage", "LoginFailed">> \in Seq(UiMsgs)
  BY DEF UiMsgs
<1> QED BY <1>1 DEF ErrorReport, Verdict

LEMMA AnswerTypes ==
    ASSUME TypeOK, NEW r \in Replies, Answer(r)
    PROVE  reply' \in Replies
BY DEF TypeOK, Answer

LEMMA HearsTypes ==
    ASSUME TypeOK, NEW k, Hears(k)
    PROVE  /\ wire' \in [Attempt -> Seq(WireMsg)]
           /\ auth.conn \in Attempt
           /\ Head(wire[auth.conn]) \in WireMsg
<1>1. auth.conn \in Attempt
  BY DEF TypeOK, Hears, Auths, MaybeAttempt
<1>2. wire[auth.conn] \in Seq(WireMsg) /\ wire[auth.conn] # <<>>
  BY <1>1 DEF TypeOK, Hears
<1>3. Tail(wire[auth.conn]) \in Seq(WireMsg) /\ Head(wire[auth.conn]) \in WireMsg
  BY <1>2
<1> QED BY <1>1, <1>3 DEF TypeOK, Hears

LEMMA SaysTypes ==
    ASSUME TypeOK, NEW msgs \in Seq(WireMsg), Says(msgs)
    PROVE  wire' \in [Attempt -> Seq(WireMsg)]
<1>1. helper.att \in Attempt => wire[helper.att] \o msgs \in Seq(WireMsg)
  BY DEF TypeOK
<1> QED BY <1>1 DEF TypeOK, Says

-----------------------------------------------------------------------------
(***************************************************************************)
(* Type correctness                                                       *)
(***************************************************************************)

\* Every step of the daemon's event loop keeps the types.
LEMMA DaemonTypes == TypeOK /\ Daemon => TypeOK'
<1> SUFFICES ASSUME TypeOK, Daemon PROVE TypeOK'
  OBVIOUS
<1>1. CASE ReceiveLogin
  <2> DEFINE d == [display EXCEPT !.replyTo = TRUE]
             l == Head(toDaemon)
  <2>1. l \in Logins /\ Tail(toDaemon) \in Seq(Logins)
    BY <1>1 DEF ReceiveLogin, TypeOK
  <2>2. d \in Displays
    BY DEF TypeOK, Displays
  <2>3. /\ display' \in Displays /\ auth' \in Auths /\ helper' \in Helpers
        /\ toUi' \in Seq(UiMsgs)
    <3>1. CASE l.user = GreeterUser
      <4>1. display' = d /\ Tell(<<"LoginFailed">>) /\ UNCHANGED <<auth, helper>>
        BY <1>1, <3>1 DEF ReceiveLogin, Login
      <4>2. toUi' \in Seq(UiMsgs)
        BY <4>1, MessageTypes, TellTypes
      <4> QED BY <2>2, <4>1, <4>2 DEF TypeOK
    <3>2. CASE l.user # GreeterUser
      <4>1. StartAuth(d, auth, greeter, l) /\ UNCHANGED toUi
        BY <1>1, <3>2 DEF ReceiveLogin, Login
      <4> HIDE DEF d, l
      <4> QED BY <2>1, <2>2, <4>1, StartAuthTypes DEF TypeOK
    <3> QED BY <3>1, <3>2
  <2> QED BY <1>1, <2>1, <2>3 DEF ReceiveLogin, TypeOK, history
<1>2. CASE DropLink
  BY <1>2 DEF DropLink, TypeOK, Uis, Displays, history
<1>3. CASE \E a \in Attempt : AcceptHelper(a)
  <2>1. PICK a \in Attempt : AcceptHelper(a)
    BY <1>3
  <2>2. wire[a] \in Seq(WireMsg) /\ wire[a] # <<>> /\ Tail(wire[a]) \in Seq(WireMsg)
    BY <2>1 DEF AcceptHelper, Connecting, TypeOK
  <2>3. wire' \in [Attempt -> Seq(WireMsg)]
    BY <2>1, <2>2 DEF AcceptHelper, TypeOK
  <2>4. auth' \in Auths
    BY <2>1 DEF AcceptHelper, TypeOK, Auths, MaybeAttempt
  <2> QED BY <2>1, <2>3, <2>4 DEF AcceptHelper, TypeOK, uiVars, history
<1>4. CASE HearInfo
  BY <1>4, MessageTypes, TellTypes, HearsTypes DEF HearInfo, TypeOK, uiVars, history
<1>5. CASE HearError
  <2>1. PICK k \in {"ERROR_AUTHENTICATION", "ERROR_INTERNAL"} :
           Hears(k) /\ ToGreeter(ErrorReport(k))
    BY <1>5 DEF HearError
  <2> QED
    BY <1>5, <2>1, MessageTypes, TellTypes, HearsTypes
    DEF HearError, TypeOK, uiVars, history
<1>6. CASE HearRequest
  <2> DEFINE n == Head(wire[auth.conn]).prompts
  <2>1. n \in Nat
    BY <1>6, HearsTypes DEF HearRequest, WireMsg
  <2>2. ResponseTo(n) \in Replies
    BY <2>1, FreshTypes DEF ResponseTo, Replies, TypeOK, Displays, Auths
  <2>3. reply' \in Replies
    BY <1>6, <2>2, AnswerTypes DEF HearRequest, TypeOK
  <2> QED BY <1>6, <2>3, HearsTypes DEF HearRequest, TypeOK, uiVars, history
<1>7. CASE HearAuthenticated
  <2>1. Reply("ENVIRONMENT") \in Replies
    BY DEF Reply, Replies, MaybeAttempt
  <2>2. unlocked' \subseteq MaybeAttempt \X MaybeAttempt
    BY <1>7 DEF HearAuthenticated, TypeOK, Displays, Auths
  <2>3. toUi' \in Seq(UiMsgs) /\ reply' \in Replies
    BY <1>7, <2>1, MessageTypes, TellTypes, AnswerTypes DEF HearAuthenticated
  <2> QED
    BY <1>7, <2>2, <2>3, HearsTypes DEF HearAuthenticated, TypeOK, Displays, uiVars
<1>8. CASE HearNotAuthenticated
  <2>1. toUi' \in Seq(UiMsgs)
    BY <1>8, MessageTypes, TellTypes DEF HearNotAuthenticated, TypeOK
  <2> QED
    BY <1>8, <2>1, HearsTypes
    DEF HearNotAuthenticated, TypeOK, Displays, Auths, uiVars, history
<1>9. CASE HearSessionStatus
  <2>1. Reply("STATUS") \in Replies
    BY DEF Reply, Replies, MaybeAttempt
  <2>2. reply' \in Replies
    BY <1>9, <2>1, AnswerTypes DEF HearSessionStatus
  <2>3. display' \in Displays
    BY <1>9 DEF HearSessionStatus, TypeOK, Displays
  <2> QED
    BY <1>9, <2>2, <2>3, HearsTypes DEF HearSessionStatus, TypeOK, uiVars, history
<1>10. CASE HelperFinished
  <2>1. daemon.ttyFailures \in 0..MaxTtyFailures
    BY DEF TypeOK, Daemons
  <2>2. CASE EndsDisplay(FinishedStatus(helper)) /\ StopDisplay(daemon.ttyFailures)
    BY <2>1, <2>2, StopDisplayTypes
  <2>3. CASE /\ auth' = [auth EXCEPT !.child = NoAttempt]
             /\ UNCHANGED <<daemon, display, helper, wire, reply, greeter, uiVars,
                            toUi, history>>
    BY <2>3 DEF TypeOK, Auths, MaybeAttempt, uiVars, history
  <2> QED BY <1>10, <2>2, <2>3 DEF HelperFinished
<1>11. CASE HelperNotStarted
  <2>1. toUi' \in Seq(UiMsgs)
    BY <1>11, MessageTypes, TellTypes DEF HelperNotStarted
  <2>2. auth' \in Auths
    BY <1>11 DEF HelperNotStarted, TypeOK, Auths, MaybeAttempt
  <2> QED
    BY <1>11, <2>1, <2>2, FreshTypes DEF HelperNotStarted, TypeOK, uiVars, history
<1>12. CASE DisplayServerStarted
  <2>1. greeter \in Greeters /\ GreeterOff \in Greeters
    BY FreshTypes DEF TypeOK
  <2>2. /\ [GreeterOff EXCEPT !.proc = "launching"] \in Greeters
        /\ [GreeterOff EXCEPT !.proc = "stuck"] \in Greeters
    BY <2>1 DEF Greeters
  <2>3. greeter' \in Greeters
    BY <1>12, <2>1, <2>2 DEF DisplayServerStarted
  <2> QED BY <1>12, <2>3 DEF DisplayServerStarted, TypeOK, Displays, uiVars, history
<1>13. CASE HearGreeterStarted
  BY <1>13 DEF HearGreeterStarted, greeterStep, TypeOK, Greeters, history
<1>14. CASE GreeterFinished
  <2>1. CASE HandleGreeterEnd(FinishedStatus(greeter))
    BY <2>1, GreeterEndTypes
  <2>2. CASE greeter' = GreeterOff /\ UNCHANGED <<greeterStep, ui, toUi>>
    BY <2>2, FreshTypes DEF greeterStep, TypeOK, history
  <2> QED BY <1>14, <2>1, <2>2 DEF GreeterFinished
<1>15. CASE StopGreeterTimer
  <2>1. display \in Displays /\ greeter \in Greeters /\ display.timers > 0
    BY <1>15 DEF StopGreeterTimer, TypeOK
  <2>2. [display EXCEPT !.timers = @ - 1] \in Displays
    BY <2>1 DEF Displays
  <2>3. ASSUME NEW g \in Greeters, GreeterStopped(g)
        PROVE  TypeOK'
    <3>1. ui' \in Uis
      BY <2>3 DEF GreeterStopped, TypeOK, Uis
    <3> QED BY <2>2, <2>3, <3>1 DEF GreeterStopped, TypeOK, history
  <2>4. SIGKILL \in 0..255
    BY DEF SIGKILL
  <2>5. [greeter EXCEPT !.proc = "gone", !.status = SIGKILL, !.crashed = TRUE] \in Greeters
    <3>1. [greeter EXCEPT !.proc = "gone", !.crashed = TRUE] \in Greeters
      BY <2>1 DEF Greeters
    <3> QED BY <2>1, <2>4, <3>1 DEF Greeters
  <2>6. CASE /\ display' = [display EXCEPT !.timers = @ - 1]
             /\ UNCHANGED <<daemon, auth, helper, wire, reply, greeter, uiVars, toUi,
                            history>>
    BY <2>2, <2>6 DEF TypeOK, uiVars, history
  <2> QED
    BY <1>15, <2>3, <2>5, <2>6, FreshTypes, GreeterEndTypes DEF StopGreeterTimer
<1> QED
  BY <1>1, <1>2, <1>3, <1>4, <1>5, <1>6, <1>7, <1>8, <1>9, <1>10, <1>11, <1>12,
     <1>13, <1>14, <1>15 DEF Daemon

\* A helper that exits, or is killed, has an exit status of a byte.
LEMMA ExitedTypes ==
    ASSUME TypeOK, NEW code \in 0..255
    PROVE  /\ Exited(code) \in Helpers
           /\ [Exited(code) EXCEPT !.crashed = TRUE] \in Helpers
<1>1. helper \in Helpers
  BY DEF TypeOK
<1>2. Exited(code) \in Helpers
  BY <1>1 DEF Exited, Helpers, Phases
<1>3. [Exited(code) EXCEPT !.crashed = TRUE] \in Helpers
  BY <1>2 DEF Helpers
<1> QED BY <1>2, <1>3

\* Every step of a helper keeps the types.
LEMMA HelperTypes == TypeOK /\ Helper => TypeOK'
<1> SUFFICES ASSUME TypeOK, Helper PROVE TypeOK'
  OBVIOUS
<1>a. helper \in Helpers /\ helper.att \in MaybeAttempt
  BY DEF TypeOK, Helpers
<1>b. ASSUME NEW ph \in Phases
      PROVE  [helper EXCEPT !.phase = ph] \in Helpers
  BY <1>a DEF Helpers
<1>c. \A c \in {HELPER_SUCCESS, HELPER_AUTH_ERROR, HELPER_SESSION_ERROR} : c \in 0..255
  BY DEF HELPER_SUCCESS, HELPER_AUTH_ERROR, HELPER_SESSION_ERROR
<1>d. ASSUME helper.round < MaxRounds
      PROVE  helper.round + 1 \in 0..MaxRounds
  BY <1>a, <1>d, ConstantsAssumption DEF Helpers
<1>e. \A k \in WireKinds : <<Msg(k)>> \in Seq(WireMsg) /\ Msg(k) \in WireMsg
  BY DEF Msg, WireMsg
<1>f. NoReply \in Replies
  BY FreshTypes
<1>1. CASE HelperConnects
  <2>1. wire' \in [Attempt -> Seq(WireMsg)]
    BY <1>1, <1>e, SaysTypes DEF HelperConnects, WireKinds
  <2> QED BY <1>1, <1>b, <2>1 DEF HelperConnects, helperStep, Phases, TypeOK, uiVars
<1>2. CASE PamAsks
  <2>1. PICK n \in PromptCounts : Says(<<[kind |-> "REQUEST", prompts |-> n]>>)
    BY <1>2 DEF PamAsks
  <2>2. <<[kind |-> "REQUEST", prompts |-> n]>> \in Seq(WireMsg)
    BY ConstantsAssumption DEF WireMsg, WireKinds
  <2>3. wire' \in [Attempt -> Seq(WireMsg)]
    BY <2>1, <2>2, SaysTypes
  <2>4. helper' \in Helpers
    BY <1>2, <1>a, <1>d DEF PamAsks, Helpers, Phases
  <2> QED BY <1>2, <2>3, <2>4 DEF PamAsks, helperStep, TypeOK, uiVars
<1>3. CASE PamNotes
  <2>1. wire' \in [Attempt -> Seq(WireMsg)]
    BY <1>3, <1>e, SaysTypes DEF PamNotes, WireKinds
  <2>2. helper' \in Helpers
    BY <1>3, <1>a, <1>d DEF PamNotes, Helpers
  <2> QED BY <1>3, <2>1, <2>2 DEF PamNotes, helperStep, TypeOK, uiVars
<1>4. CASE PamResumes
  <2>1. reply.secret \in MaybeAttempt /\ reply.user \in Names \cup {NoUser}
    BY DEF TypeOK, Replies
  <2>2. helper' \in Helpers
    BY <1>4, <1>a, <2>1 DEF PamResumes, Helpers, Phases
  <2> QED BY <1>4, <1>f, <2>2 DEF PamResumes, helperStep, TypeOK, uiVars
<1>5. CASE PamRejects
  <2>1. PICK k \in {"ERROR_AUTHENTICATION", "ERROR_INTERNAL"} :
           Says(<<Msg(k), Msg("NOT_AUTHENTICATED")>>)
    BY <1>5 DEF PamRejects
  <2>2. <<Msg(k), Msg("NOT_AUTHENTICATED")>> \in Seq(WireMsg)
    BY <1>e DEF WireKinds
  <2>3. wire' \in [Attempt -> Seq(WireMsg)]
    BY <2>1, <2>2, SaysTypes
  <2> QED
    BY <1>5, <1>c, <2>3, ExitedTypes DEF PamRejects, helperStep, TypeOK, uiVars
<1>6. CASE PamAccepts
  <2>1. wire' \in [Attempt -> Seq(WireMsg)]
    BY <1>6, <1>e, SaysTypes DEF PamAccepts, WireKinds
  <2>2. [att |-> helper.att, user |-> helper.user] \in Grants
    BY <1>a DEF Helpers, Grants
  <2>3. helper' \in Helpers
    BY <1>6, <1>b DEF PamAccepts, Phases
  <2> QED BY <1>6, <2>1, <2>2, <2>3 DEF PamAccepts, helperStep, TypeOK, uiVars
<1>7. CASE HelperGetsEnvironment
  <2>1. helper' \in Helpers
    BY <1>7, <1>b, <1>c, ExitedTypes DEF HelperGetsEnvironment, Phases
  <2> QED BY <1>7, <1>f, <2>1 DEF HelperGetsEnvironment, helperStep, TypeOK, uiVars
<1>8. CASE SessionOpens
  <2>1. wire' \in [Attempt -> Seq(WireMsg)]
    BY <1>8, <1>e, SaysTypes DEF SessionOpens, WireKinds
  <2> QED BY <1>8, <1>b, <2>1 DEF SessionOpens, helperStep, Phases, TypeOK, uiVars
<1>9. CASE SessionRefused
  <2>1. PICK m \in {<<>>, <<Msg("ERROR_AUTHENTICATION")>>, <<Msg("ERROR_INTERNAL")>>} :
           Says(m \o <<Msg("SESSION_FAILED")>>)
    BY <1>9 DEF SessionRefused
  <2>2. /\ <<Msg("ERROR_AUTHENTICATION")>> \in Seq(WireMsg)
        /\ <<Msg("ERROR_INTERNAL")>> \in Seq(WireMsg)
        /\ <<Msg("SESSION_FAILED")>> \in Seq(WireMsg)
        /\ <<>> \in Seq(WireMsg)
    BY <1>e DEF WireKinds
  <2>3. m \in Seq(WireMsg)
    BY <2>2
  <2>4. ASSUME NEW x \in Seq(WireMsg), NEW y \in Seq(WireMsg)
        PROVE  x \o y \in Seq(WireMsg)
    OBVIOUS
  <2>5. wire' \in [Attempt -> Seq(WireMsg)]
    BY <2>1, <2>2, <2>3, <2>4, SaysTypes
  <2>6. helper' \in Helpers
    BY <1>9, <1>b DEF SessionRefused, Phases
  <2> QED BY <1>9, <2>5, <2>6 DEF SessionRefused, helperStep, TypeOK, uiVars
<1>10. CASE HelperGetsStatus
  <2>1. helper' \in Helpers
    BY <1>10, <1>b, <1>c, ExitedTypes DEF HelperGetsStatus, Phases
  <2> QED BY <1>10, <1>f, <2>1 DEF HelperGetsStatus, helperStep, TypeOK, uiVars
<1>11. CASE SessionEnds
  <2>1. helper' \in Helpers
    BY <1>11, ExitedTypes, ConstantsAssumption DEF SessionEnds
  <2> QED BY <1>11, <2>1 DEF SessionEnds, helperStep, TypeOK, uiVars
<1>12. CASE HelperCrashes
  <2>1. \A s \in Signals : s \in 0..255
    BY ConstantsAssumption
  <2>2. helper' \in Helpers
    BY <1>12, <2>1, ExitedTypes DEF HelperCrashes
  <2> QED BY <1>12, <2>2 DEF HelperCrashes, helperStep, TypeOK, uiVars
<1> QED
  BY <1>1, <1>2, <1>3, <1>4, <1>5, <1>6, <1>7, <1>8, <1>9, <1>10, <1>11, <1>12 DEF Helper

\* Every step of the greeter's processes keeps the types.
LEMMA GreeterTypes == TypeOK /\ GreeterProcess => TypeOK'
<1> SUFFICES ASSUME TypeOK, GreeterProcess PROVE TypeOK'
  OBVIOUS
<1>a. greeter \in Greeters /\ ui \in Uis
  BY DEF TypeOK
<1>1. CASE GreeterOpens
  <2>1. greeter' \in Greeters /\ ui' \in Uis
    BY <1>1, <1>a DEF GreeterOpens, Greeters, Uis
  <2> QED BY <1>1, <2>1 DEF GreeterOpens, greeterStep, TypeOK, history
<1>2. CASE GreeterEnds
  <2>1. ASSUME NEW code \in 0..255, NEW crashed \in BOOLEAN, GreeterDead(code, crashed)
        PROVE  greeter' \in Greeters /\ ui' \in Uis /\ toUi' \in Seq(UiMsgs)
    <3>1. greeter' \in Greeters
      BY <1>a, <2>1 DEF GreeterDead, Greeters
    <3>2. ui' \in Uis
      BY <1>a, <2>1 DEF GreeterDead, Uis
    <3> QED BY <2>1, <3>1, <3>2 DEF GreeterDead
  <2>2. /\ \A code \in {HELPER_AUTH_ERROR, HELPER_SESSION_ERROR} : code \in 0..255
        /\ \A code \in GreeterExits : code \in 0..255
        /\ \A s \in Signals : s \in 0..255
    BY ConstantsAssumption DEF HELPER_AUTH_ERROR, HELPER_SESSION_ERROR
  <2>3. greeter' \in Greeters /\ ui' \in Uis /\ toUi' \in Seq(UiMsgs)
    BY <1>2, <2>1, <2>2 DEF GreeterEnds
  <2> QED BY <1>2, <2>3 DEF GreeterEnds, greeterStep, TypeOK, history
<1>3. CASE UiHears
  <2>1. toUi \in Seq(UiMsgs) /\ toUi # <<>> => Tail(toUi) \in Seq(UiMsgs)
    OBVIOUS
  <2>2. \A msg : UiAfter(msg) \in Uis
    BY <1>a DEF UiAfter, Uis
  <2> QED BY <1>3, <2>1, <2>2 DEF UiHears, uiStep, TypeOK, history
<1>4. CASE \E w \in Windows : Submit(w)
  <2>1. PICK w \in Windows, u \in Names, valid \in BOOLEAN :
           /\ ui.sent < MaxLogins
           /\ ui' = [ui EXCEPT !.busy = @ \cup {w}, !.last = u, !.sent = @ + 1]
           /\ toDaemon' = Append(toDaemon,
                                 [att |-> ui.sent + 1, user |-> u, valid |-> valid])
           /\ UNCHANGED <<uiStep, toUi>>
    BY <1>4 DEF Submit
  <2>2. ui.sent + 1 \in 0..MaxLogins
    BY <1>a, <2>1, ConstantsAssumption DEF Uis
  <2>3. ui' \in Uis
    BY <1>a, <2>1, <2>2 DEF Uis
  <2>4. [att |-> ui.sent + 1, user |-> u, valid |-> valid] \in Logins
    BY <2>2 DEF Logins, Attempt
  <2>5. toDaemon' \in Seq(Logins)
    BY <2>1, <2>4 DEF TypeOK
  <2> QED BY <2>1, <2>3, <2>5 DEF uiStep, TypeOK, history
<1> QED BY <1>1, <1>2, <1>3, <1>4 DEF GreeterProcess

\* The objects, sockets and processes of a display have their types, and
\* s_ttyFailures never passes the limit the daemon exits at.
THEOREM TypeCorrect == Spec => []TypeOK
<1>1. Init => TypeOK
  BY FreshTypes, ConstantsAssumption
  DEF Init, TypeOK, Daemons, MaxTtyFailures, Grants
<1>2. TypeOK /\ [Next]_vars => TypeOK'
  <2>1. CASE StartDaemon
    <3>1. TypeOK => daemon' \in Daemons
      BY <2>1, ConstantsAssumption DEF StartDaemon, TypeOK, Daemons
    <3> QED BY <2>1, <3>1, BringUpTypes DEF StartDaemon
  <2>2. CASE UNCHANGED vars
    BY <2>2 DEF vars, TypeOK
  <2> QED BY <2>1, <2>2, DaemonTypes, HelperTypes, GreeterTypes DEF Next
<1> QED BY <1>1, <1>2, PTL DEF Spec

-----------------------------------------------------------------------------
(***************************************************************************)
(* The conversation                                                       *)
(***************************************************************************)

Safe == HelperOwned /\ OneConversation /\ ResponsesMatchAttempt

\* The strengthening.
IInv == TypeOK /\ Safe

-----------------------------------------------------------------------------
(***************************************************************************)
(* Steps that leave the conversation alone, and those that begin one      *)
(***************************************************************************)

\* A step that touches neither the helper, nor its answer, nor who owns it.
LEMMA Undisturbed ==
    ASSUME Safe, UNCHANGED <<helper, reply>>,
           auth'.child = auth.child, auth'.user = auth.user,
           display'.passPhrase = display.passPhrase
    PROVE  Safe'
BY DEF Safe, HelperOwned, OneConversation, ResponsesMatchAttempt

\* What Display::startAuth does when it goes through to Auth::start.
LEMMA Started ==
    ASSUME NEW d \in Displays, NEW au \in Auths, NEW g, NEW l \in Logins,
           ~AuthIsActive(au), l.valid, StartAuth(d, au, g, l)
    PROVE  /\ display'.passPhrase = l.att
           /\ auth'.child = l.att /\ auth'.user = l.user
           /\ helper'.att = l.att /\ helper'.user = l.user
           /\ helper'.phase = "spawned" /\ helper'.crashed = FALSE
           /\ helper'.secret = NoAttempt /\ helper'.name = NoUser
<1>1. PICK online \in BOOLEAN :
         /\ display' = DisplayFor(d, g, l, online)
         /\ auth' = AuthFor(au, l, online)
         /\ helper' = HelperFor(AuthFor(au, l, online))
  BY DEF StartAuth
<1>2. display'.passPhrase = l.att
  BY <1>1 DEF DisplayFor, Displays
<1>3. auth'.child = l.att /\ auth'.user = l.user
  BY <1>1 DEF AuthFor, Auths
<1>4. /\ helper'.att = auth'.child /\ helper'.user = auth'.user
      /\ helper'.phase = "spawned" /\ helper'.crashed = FALSE
      /\ helper'.secret = NoAttempt /\ helper'.name = NoUser
  BY <1>1 DEF HelperFor, NoHelper
<1> QED BY <1>2, <1>3, <1>4

\* A helper that has just been started, with nothing left in its socket.
LEMMA StartedSafe ==
    ASSUME NEW l \in Logins, reply' = NoReply,
           display'.passPhrase = l.att,
           auth'.child = l.att, auth'.user = l.user,
           helper'.att = l.att, helper'.user = l.user,
           helper'.phase = "spawned", helper'.crashed = FALSE,
           helper'.secret = NoAttempt, helper'.name = NoUser
    PROVE  Safe'
<1>1. l.att # NoAttempt
  BY ConstantsAssumption DEF Logins, Attempt, NoAttempt
<1> QED
  BY <1>1 DEF Safe, HelperOwned, OneConversation, ResponsesMatchAttempt, NoReply, Reply

\* A display just constructed has no helper, or that of its autologin
\* (Display::start).
LEMMA BringUpStarts ==
    ASSUME NEW lock \in BOOLEAN, BringUp(lock)
    PROVE  \/ /\ auth'.child = NoAttempt /\ helper' = NoHelper
           \/ \E l \in Logins :
                 /\ l.att = 0
                 /\ display'.passPhrase = l.att
                 /\ auth'.child = l.att /\ auth'.user = l.user
                 /\ helper'.att = l.att /\ helper'.user = l.user
                 /\ helper'.phase = "spawned" /\ helper'.crashed = FALSE
                 /\ helper'.secret = NoAttempt /\ helper'.name = NoUser
<1>1. CASE \E u \in Users :
             StartAuth(FreshDisplay, [FreshAuth EXCEPT !.autologin = TRUE],
                       GreeterOff, AutoLogin(u))
  <2>1. PICK u \in Users :
           StartAuth(FreshDisplay, [FreshAuth EXCEPT !.autologin = TRUE],
                     GreeterOff, AutoLogin(u))
    BY <1>1
  <2>2. /\ [FreshAuth EXCEPT !.autologin = TRUE] \in Auths
        /\ ~AuthIsActive([FreshAuth EXCEPT !.autologin = TRUE])
    BY FreshTypes DEF Auths, AuthIsActive, FreshAuth
  <2>3. AutoLogin(u) \in Logins /\ AutoLogin(u).valid /\ AutoLogin(u).att = 0
    BY ConstantsAssumption DEF AutoLogin, Logins, Attempt, Names
  <2> DEFINE l == AutoLogin(u)
             au == [FreshAuth EXCEPT !.autologin = TRUE]
  <2> HIDE DEF l, au
  <2>4. /\ display'.passPhrase = l.att
        /\ auth'.child = l.att /\ auth'.user = l.user
        /\ helper'.att = l.att /\ helper'.user = l.user
        /\ helper'.phase = "spawned" /\ helper'.crashed = FALSE
        /\ helper'.secret = NoAttempt /\ helper'.name = NoUser
    BY <2>1, <2>2, <2>3, FreshTypes, Started DEF l, au
  <2> QED BY <2>3, <2>4 DEF l
<1>2. CASE auth' = FreshAuth /\ helper' = NoHelper
  BY <1>2 DEF FreshAuth
<1> QED BY <1>1, <1>2 DEF BringUp

LEMMA BringUpSafe ==
    ASSUME NEW lock \in BOOLEAN, BringUp(lock)
    PROVE  Safe'
<1>1. reply' = NoReply
  BY DEF BringUp, NothingLeft
<1>2. CASE auth'.child = NoAttempt /\ helper' = NoHelper
  BY <1>1, <1>2
  DEF Safe, HelperOwned, OneConversation, ResponsesMatchAttempt, NoReply, Reply, NoHelper
<1> QED BY <1>1, <1>2, BringUpStarts, StartedSafe

-----------------------------------------------------------------------------
(***************************************************************************)
(* IInv is inductive                                                      *)
(***************************************************************************)

\* The greeter's end, however it is noticed.
LEMMA GreeterEndSafe ==
    ASSUME TypeOK, NEW status, HandleGreeterEnd(status)
    PROVE  Safe'
<1>1. daemon.firstLogin \in BOOLEAN
  BY DEF TypeOK, Daemons
<1>2. CASE ExitDaemon
  BY <1>2
  DEF ExitDaemon, NothingLeft, Safe, HelperOwned, OneConversation, ResponsesMatchAttempt,
      FreshAuth, NoHelper, NoReply, Reply
<1>3. CASE \E n : StopDisplay(n)
  BY <1>1, <1>3, BringUpSafe DEF StopDisplay
<1> QED BY <1>2, <1>3 DEF HandleGreeterEnd

\* A login from the greeter (Display::login): the running helper's password is
\* left alone, and a new helper starts with an empty socket.
LEMMA ReceiveLoginSafe == IInv /\ ReceiveLogin => Safe'
<1> SUFFICES ASSUME IInv, ReceiveLogin PROVE Safe'
  OBVIOUS
<1> DEFINE d == [display EXCEPT !.replyTo = TRUE]
           l == Head(toDaemon)
<1>1. l \in Logins /\ d \in Displays /\ auth \in Auths /\ reply' = reply
  <2>1. l \in Logins
    BY DEF ReceiveLogin, IInv, TypeOK
  <2>2. d \in Displays
    BY DEF IInv, TypeOK, Displays
  <2> QED BY <2>1, <2>2 DEF ReceiveLogin, IInv, TypeOK
<1>2. d.passPhrase = display.passPhrase
  BY DEF IInv, TypeOK, Displays
<1>3. \/ display' = d /\ UNCHANGED <<auth, helper>>
      \/ StartAuth(d, auth, greeter, l)
  BY DEF ReceiveLogin, Login
<1> HIDE DEF d, l
<1>4. CASE display' = d /\ UNCHANGED <<auth, helper>>
  BY <1>1, <1>2, <1>4, Undisturbed DEF IInv
<1>5. CASE StartAuth(d, auth, greeter, l) /\ AuthIsActive(auth)
  <2>1. display' = d /\ UNCHANGED <<auth, helper>>
    BY <1>5 DEF StartAuth, RefusedWhileActive
  <2> QED BY <1>4, <2>1
<1>6. CASE StartAuth(d, auth, greeter, l) /\ ~AuthIsActive(auth) /\ ~l.valid
  <2>1. UNCHANGED <<auth, helper, reply>> /\ auth.child = NoAttempt
    BY <1>1, <1>6 DEF StartAuth, AuthIsActive
  <2> QED BY <2>1 DEF IInv, Safe, HelperOwned, OneConversation, ResponsesMatchAttempt
<1>7. CASE StartAuth(d, auth, greeter, l) /\ ~AuthIsActive(auth) /\ l.valid
  <2>1. reply' = NoReply
    BY <1>1, <1>7 DEF AuthIsActive, IInv, Safe, OneConversation
  <2> QED BY <1>1, <1>7, <2>1, Started, StartedSafe
<1> QED BY <1>1, <1>3, <1>4, <1>5, <1>6, <1>7 DEF Logins

\* What the daemon hears and answers.
LEMMA DaemonSafe == IInv /\ Daemon => Safe'
<1> SUFFICES ASSUME IInv, Daemon PROVE Safe'
  OBVIOUS
<1>a. TypeOK /\ Safe /\ display \in Displays /\ auth \in Auths /\ reply \in Replies
  BY DEF IInv, TypeOK
<1>b. ASSUME NEW r, Answer(r), r.secret = NoAttempt, r.user = NoUser,
             auth'.child = auth.child, auth'.user = auth.user, UNCHANGED helper,
             display'.passPhrase = display.passPhrase
      PROVE  Safe'
  <2>1. CASE reply' = reply
    BY <1>a, <1>b, <2>1, Undisturbed
  <2>2. CASE reply' = r /\ helper.phase \in Blocked
    <3>1. auth.child # NoAttempt
      BY <1>a, <2>2 DEF Safe, HelperOwned, Blocked
    <3> QED
      BY <1>a, <1>b, <2>2, <3>1 DEF Safe, HelperOwned, OneConversation, ResponsesMatchAttempt
  <2> QED BY <1>b, <2>1, <2>2 DEF Answer
<1>1. CASE ReceiveLogin
  BY <1>1, ReceiveLoginSafe
<1>2. CASE DropLink
  BY <1>2, <1>a, Undisturbed DEF DropLink, Displays
<1>3. CASE \E a \in Attempt : AcceptHelper(a)
  BY <1>3, <1>a, Undisturbed DEF AcceptHelper, Auths
<1>4. CASE HearInfo \/ HearError
  BY <1>4, <1>a, Undisturbed DEF HearInfo, HearError
<1>5. CASE HearRequest
  <2> DEFINE r == ResponseTo(Head(wire[auth.conn]).prompts)
  <2>1. UNCHANGED <<display, auth, helper>>
    BY <1>5 DEF HearRequest
  <2>2. CASE reply' = reply
    BY <1>a, <2>1, <2>2, Undisturbed
  <2>3. CASE reply' = r /\ r # NoReply /\ helper.phase \in Blocked
    <3>1. r.secret = display.passPhrase /\ r.user \in {NoUser, auth.user}
      BY <2>3 DEF ResponseTo, NoReply
    <3>2. auth.child # NoAttempt
      BY <1>a, <2>3 DEF Safe, HelperOwned, Blocked
    <3>3. r.secret = helper.att /\ r.user \in {NoUser, helper.user}
      BY <1>a, <3>1, <3>2 DEF Safe, OneConversation
    <3> HIDE DEF r
    <3> QED
      BY <1>a, <2>1, <2>3, <3>2, <3>3
      DEF Safe, HelperOwned, OneConversation, ResponsesMatchAttempt
  <2> QED BY <1>5, <2>2, <2>3 DEF HearRequest, Answer
<1>6. CASE HearAuthenticated
  <2>1. Answer(Reply("ENVIRONMENT")) /\ UNCHANGED <<auth, helper>>
    BY <1>6 DEF HearAuthenticated
  <2>2. display'.passPhrase = display.passPhrase
    BY <1>6, <1>a DEF HearAuthenticated, Displays
  <2> QED BY <1>b, <2>1, <2>2 DEF Reply
<1>7. CASE HearNotAuthenticated
  <2>1. /\ auth'.child = auth.child /\ auth'.user = auth.user
        /\ display'.passPhrase = display.passPhrase
    BY <1>7, <1>a DEF HearNotAuthenticated, Auths, Displays
  <2> QED BY <1>7, <1>a, <2>1, Undisturbed DEF HearNotAuthenticated
<1>8. CASE HearSessionStatus
  <2>1. Answer(Reply("STATUS")) /\ UNCHANGED <<auth, helper>>
    BY <1>8 DEF HearSessionStatus
  <2>2. display'.passPhrase = display.passPhrase
    BY <1>8, <1>a DEF HearSessionStatus, Displays
  <2> QED BY <1>b, <2>1, <2>2 DEF Reply
<1>9. CASE HelperFinished
  <2>1. CASE StopDisplay(daemon.ttyFailures)
    BY <2>1, <1>a, BringUpSafe DEF StopDisplay, TypeOK, Daemons
  <2>2. CASE /\ ~EndsDisplay(FinishedStatus(helper))
             /\ auth' = [auth EXCEPT !.child = NoAttempt]
             /\ UNCHANGED <<display, helper, reply>>
    <3>1. helper.phase = "exited" /\ ~helper.crashed
      BY <1>9, <2>2
      DEF HelperFinished, EndsDisplay, FinishedStatus, HELPER_AUTH_ERROR, HELPER_OTHER_ERROR
    <3>2. auth'.child = NoAttempt /\ reply' = NoReply
      BY <1>a, <2>2, <3>1 DEF Auths, Safe, OneConversation, Blocked
    <3> QED
      BY <1>a, <2>2, <3>1, <3>2
      DEF Safe, HelperOwned, OneConversation, ResponsesMatchAttempt
  <2> QED BY <1>9, <2>1, <2>2 DEF HelperFinished
<1>10. CASE HelperNotStarted
  <2>1. helper.phase = "spawned" /\ helper' = NoHelper /\ UNCHANGED <<display, reply>>
    BY <1>10 DEF HelperNotStarted
  <2>2. auth'.child = NoAttempt
    BY <1>10, <1>a DEF HelperNotStarted, Auths
  <2>3. reply = NoReply
    BY <1>a, <2>1 DEF Safe, OneConversation, Blocked
  <2> QED
    BY <2>1, <2>2, <2>3
    DEF Safe, HelperOwned, OneConversation, ResponsesMatchAttempt, NoHelper, NoReply, Reply
<1>11. CASE DisplayServerStarted
  BY <1>11, <1>a, Undisturbed DEF DisplayServerStarted, Displays
<1>12. CASE HearGreeterStarted
  BY <1>12, <1>a, Undisturbed DEF HearGreeterStarted, greeterStep
<1>13. CASE GreeterFinished
  <2>1. CASE HandleGreeterEnd(FinishedStatus(greeter))
    BY <2>1, <1>a, GreeterEndSafe
  <2>2. CASE UNCHANGED greeterStep
    BY <2>2, <1>a, Undisturbed DEF greeterStep
  <2> QED BY <1>13, <2>1, <2>2 DEF GreeterFinished
<1>14. CASE StopGreeterTimer
  <2>1. CASE \E status : HandleGreeterEnd(status)
    BY <2>1, <1>a, GreeterEndSafe
  <2>2. CASE /\ display' = [display EXCEPT !.timers = @ - 1]
             /\ UNCHANGED <<auth, helper, reply>>
    BY <2>2, <1>a, Undisturbed DEF Displays
  <2> QED BY <1>14, <2>1, <2>2 DEF StopGreeterTimer, GreeterStopped
<1> QED
  BY <1>1, <1>2, <1>3, <1>4, <1>5, <1>6, <1>7, <1>8, <1>9, <1>10, <1>11, <1>12,
     <1>13, <1>14 DEF Daemon

\* What a helper does by itself.
LEMMA HelperSafe == IInv /\ Helper => Safe'
<1> SUFFICES ASSUME IInv, Helper PROVE Safe'
  OBVIOUS
<1>a. TypeOK /\ Safe /\ helper \in Helpers /\ reply \in Replies
  BY DEF IInv, TypeOK
<1>b. UNCHANGED <<display, auth>>
  BY DEF Helper, helperStep, HelperConnects, PamAsks, PamNotes, PamResumes, PamRejects,
         PamAccepts, HelperGetsEnvironment, SessionOpens, SessionRefused,
         HelperGetsStatus, SessionEnds, HelperCrashes
<1>c. \A code : /\ Exited(code).phase = "exited" /\ Exited(code).att = helper.att
                /\ Exited(code).user = helper.user /\ Exited(code).crashed = helper.crashed
                /\ Exited(code).secret = helper.secret /\ Exited(code).name = helper.name
  BY <1>a DEF Exited, Helpers
\* It goes on, from a state in which it may have been waiting.
<1>d. ASSUME helper'.att = helper.att, helper'.user = helper.user,
             helper'.secret = helper.secret, helper'.name = helper.name,
             helper'.crashed = helper.crashed,
             helper.phase \notin {"none", "exited"}, helper'.phase # "none",
             \/ reply' = NoReply
             \/ reply' = reply /\ helper.phase \notin Blocked
      PROVE  Safe'
  <2>1. helper.crashed = FALSE /\ auth.child # NoAttempt
    BY <1>a, <1>d DEF Safe, HelperOwned, OneConversation, Helpers
  <2>2. reply' = NoReply
    BY <1>a, <1>d DEF Safe, OneConversation
  <2> QED
    BY <1>a, <1>b, <1>d, <2>1, <2>2
    DEF Safe, HelperOwned, OneConversation, ResponsesMatchAttempt, NoReply, Reply
<1>1. CASE HelperConnects \/ PamAsks \/ PamNotes \/ PamAccepts \/ SessionOpens \/ SessionRefused
  BY <1>1, <1>a, <1>d
  DEF HelperConnects, PamAsks, PamNotes, PamAccepts, SessionOpens, SessionRefused,
      Helpers, Blocked
<1>2. CASE PamResumes
  <2>1. /\ helper'.att = helper.att /\ helper'.user = helper.user
        /\ helper'.secret = reply.secret /\ helper'.name = reply.user
        /\ helper'.crashed = helper.crashed /\ helper'.phase = "pam"
        /\ reply' = NoReply /\ helper.phase = "asking"
    BY <1>2, <1>a DEF PamResumes, Helpers
  <2>2. helper.crashed = FALSE /\ auth.child # NoAttempt
    BY <1>a, <2>1 DEF Safe, HelperOwned, OneConversation, Helpers
  <2> QED
    BY <1>a, <1>b, <2>1, <2>2
    DEF Safe, HelperOwned, OneConversation, ResponsesMatchAttempt, NoReply, Reply
<1>3. CASE PamRejects \/ SessionEnds
  <2>1. PICK code : helper' = Exited(code)
    BY <1>3 DEF PamRejects, SessionEnds
  <2> QED BY <1>3, <2>1, <1>c, <1>d DEF PamRejects, SessionEnds, Blocked
<1>4. CASE HelperGetsEnvironment \/ HelperGetsStatus
  <2>1. \/ \E code : helper' = Exited(code)
        \/ \E ph \in {"opening", "session"} : helper' = [helper EXCEPT !.phase = ph]
    BY <1>4 DEF HelperGetsEnvironment, HelperGetsStatus
  <2>2. reply' = NoReply /\ helper.phase \notin {"none", "exited"}
    BY <1>4 DEF HelperGetsEnvironment, HelperGetsStatus
  <2>3. CASE \E code : helper' = Exited(code)
    BY <2>2, <2>3, <1>c, <1>d
  <2>4. CASE \E ph \in {"opening", "session"} : helper' = [helper EXCEPT !.phase = ph]
    BY <2>2, <2>4, <1>a, <1>d DEF Helpers
  <2> QED BY <2>1, <2>3, <2>4
<1>5. CASE HelperCrashes
  <2>1. PICK s : helper' = [Exited(s) EXCEPT !.crashed = TRUE]
    BY <1>5 DEF HelperCrashes
  <2>2. /\ helper'.att = helper.att /\ helper'.user = helper.user
        /\ helper'.secret = helper.secret /\ helper'.name = helper.name
        /\ helper'.phase = "exited" /\ helper'.crashed = TRUE
        /\ reply' = reply /\ helper.phase \notin {"none", "exited"}
    BY <1>5, <1>a, <2>1 DEF HelperCrashes, Exited, Helpers
  <2>3. auth.child # NoAttempt
    BY <1>a, <2>2 DEF Safe, HelperOwned
  <2> QED
    BY <1>a, <1>b, <2>2, <2>3
    DEF Safe, HelperOwned, OneConversation, ResponsesMatchAttempt
<1> QED BY <1>1, <1>2, <1>3, <1>4, <1>5 DEF Helper

\* The greeter's processes share nothing with a helper.
LEMMA GreeterSafe == IInv /\ GreeterProcess => Safe'
BY Undisturbed
DEF IInv, GreeterProcess, GreeterOpens, GreeterEnds, UiHears, Submit, greeterStep, uiStep

\* Every state of a display satisfies the strengthening.
THEOREM Inductive == Spec => []IInv
<1>1. Init => Safe
  BY DEF Init, Safe, HelperOwned, OneConversation, ResponsesMatchAttempt, FreshAuth,
         NoHelper, NoReply, Reply
<1>2. IInv /\ [Next]_vars => Safe'
  <2>1. CASE StartDaemon
    BY <2>1, BringUpSafe DEF StartDaemon
  <2>2. CASE IInv /\ UNCHANGED vars
    BY <2>2, Undisturbed DEF vars, IInv
  <2> QED BY <2>1, <2>2, DaemonSafe, HelperSafe, GreeterSafe DEF Next
<1>3. TypeOK /\ Safe /\ [Next]_vars => Safe'
  BY <1>2 DEF IInv
<1>4. Spec => [](TypeOK /\ Safe)
  BY <1>1, <1>3, TypeCorrect, PTL DEF Spec
<1> QED BY <1>4 DEF IInv

\* A helper is only ever given the password and the user of the login it was
\* started for, although m_passPhrase is shared (Display::slotRequestChanged).
THEOREM SecretsSafe == Spec => []ResponsesMatchAttempt
BY Inductive, PTL DEF IInv, Safe

\* No answer is left in a helper's socket for the helper of a later attempt
\* (Auth::Private, Display::slotHelperFinished).
THEOREM ConversationSafe == Spec => []OneConversation
BY Inductive, PTL DEF IInv, Safe

-----------------------------------------------------------------------------
(***************************************************************************)
(* The display implements LoginProtocol                                   *)
(***************************************************************************)

Mapped == <<auth.child, Stage>>

\* The display's attempt and its stage, for an attempt that is under way.
LEMMA StageFacts ==
    /\ (auth.child = NoAttempt) <=> (Stage = "idle")
    /\ auth.child # NoAttempt /\ helper.phase \in {"spawned", "pam", "asking"} =>
         Stage = "checking"
    /\ auth.child # NoAttempt /\ helper.phase \in {"granted", "opening", "refused"} =>
         Stage = "accepted"
    /\ auth.child # NoAttempt /\ helper.phase \in {"opened", "session"} =>
         Stage = "session"
    /\ auth.child # NoAttempt /\ helper.phase = "exited" => Stage = "over"
BY DEF Stage

LEMMA StageFactsNext ==
    /\ (auth'.child = NoAttempt) <=> (Stage' = "idle")
    /\ auth'.child # NoAttempt /\ helper'.phase \in {"spawned", "pam", "asking"} =>
         Stage' = "checking"
    /\ auth'.child # NoAttempt /\ helper'.phase \in {"granted", "opening", "refused"} =>
         Stage' = "accepted"
    /\ auth'.child # NoAttempt /\ helper'.phase \in {"opened", "session"} =>
         Stage' = "session"
    /\ auth'.child # NoAttempt /\ helper'.phase = "exited" => Stage' = "over"
BY DEF Stage

\* A step that changes neither who owns the helper nor how far it is.
LEMMA SameStage ==
    ASSUME auth'.child = auth.child, helper' = helper
    PROVE  UNCHANGED Mapped
BY DEF Mapped, Stage

\* A display that is replaced forgets its attempt, or starts with its autologin.
LEMMA BringUpRefines ==
    ASSUME NEW lock \in BOOLEAN, BringUp(lock)
    PROVE  Protocol!Next \/ UNCHANGED Mapped
<1>1. CASE auth'.child = NoAttempt
  <2>1. CASE Stage = "idle"
    BY <1>1, <2>1, StageFacts, StageFactsNext DEF Mapped
  <2>2. CASE Stage # "idle"
    BY <1>1, <2>2, StageFactsNext DEF Protocol!Next, Protocol!Forget
  <2> QED BY <2>1, <2>2
<1>2. CASE auth'.child = 0 /\ helper'.phase = "spawned"
  <2>1. Stage' = "checking"
    BY <1>2, StageFactsNext DEF NoAttempt
  <2> QED BY <1>2, <2>1 DEF Protocol!Next, Protocol!Replace
<1> QED BY <1>1, <1>2, BringUpStarts

\* A login that is taken up begins an attempt, and only when none is under way
\* (Auth::isActive in Display::startAuth).
LEMMA ReceiveLoginRefines == IInv /\ ReceiveLogin => Protocol!Next \/ UNCHANGED Mapped
<1> SUFFICES ASSUME IInv, ReceiveLogin PROVE Protocol!Next \/ UNCHANGED Mapped
  OBVIOUS
<1> DEFINE d == [display EXCEPT !.replyTo = TRUE]
           l == Head(toDaemon)
<1>1. d \in Displays /\ auth \in Auths
  BY DEF IInv, TypeOK, Displays
<1>2. l \in Logins
  BY DEF ReceiveLogin, IInv, TypeOK
<1>3. UNCHANGED <<auth, helper>> \/ StartAuth(d, auth, greeter, l)
  BY DEF ReceiveLogin, Login
<1> HIDE DEF d, l
<1>4. CASE UNCHANGED <<auth, helper>>
  BY <1>4, SameStage
<1>5. CASE StartAuth(d, auth, greeter, l) /\ (AuthIsActive(auth) \/ ~l.valid)
  BY <1>5, SameStage DEF StartAuth
<1>6. CASE StartAuth(d, auth, greeter, l) /\ ~AuthIsActive(auth) /\ l.valid
  <2>1. auth'.child = l.att /\ helper'.phase = "spawned"
    BY <1>1, <1>2, <1>6, Started
  <2>2. l.att \in Attempt /\ l.att # NoAttempt
    BY <1>2, ConstantsAssumption DEF Logins, Attempt, NoAttempt
  <2>3. Stage = "idle" /\ Stage' = "checking"
    BY <1>6, <2>1, <2>2, StageFacts, StageFactsNext DEF AuthIsActive
  <2> QED BY <2>1, <2>2, <2>3 DEF Protocol!Next, Protocol!Begin
<1> QED BY <1>2, <1>3, <1>4, <1>5, <1>6 DEF Logins

\* The end of a helper, or its failure to start, ends the attempt.
LEMMA HelperFinishedRefines ==
    IInv /\ (HelperFinished \/ HelperNotStarted) => Protocol!Next \/ UNCHANGED Mapped
<1> SUFFICES ASSUME IInv, HelperFinished \/ HelperNotStarted
             PROVE  Protocol!Next \/ UNCHANGED Mapped
  OBVIOUS
<1>1. CASE StopDisplay(daemon.ttyFailures)
  BY <1>1, BringUpRefines DEF StopDisplay, IInv, TypeOK, Daemons
<1>2. CASE auth' = [auth EXCEPT !.child = NoAttempt]
  <2>1. auth'.child = NoAttempt
    BY <1>2 DEF IInv, TypeOK, Auths
  <2>2. Stage' = "idle"
    BY <2>1, StageFactsNext
  <2>3. CASE Stage = "idle"
    BY <2>1, <2>2, <2>3, StageFacts DEF Mapped
  <2>4. CASE Stage # "idle"
    BY <2>1, <2>2, <2>4 DEF Protocol!Next, Protocol!Forget
  <2> QED BY <2>3, <2>4
<1> QED BY <1>1, <1>2 DEF HelperFinished, HelperNotStarted

\* The greeter's end replaces the display or leaves the attempt alone.
LEMMA GreeterEndRefines ==
    ASSUME TypeOK, NEW status, HandleGreeterEnd(status)
    PROVE  Protocol!Next \/ UNCHANGED Mapped
<1>1. CASE ExitDaemon
  <2>1. auth'.child = NoAttempt /\ Stage' = "idle"
    BY <1>1, StageFactsNext DEF ExitDaemon, FreshAuth
  <2>2. CASE Stage = "idle"
    BY <2>1, <2>2, StageFacts DEF Mapped
  <2>3. CASE Stage # "idle"
    BY <2>1, <2>3 DEF Protocol!Next, Protocol!Forget
  <2> QED BY <2>2, <2>3
<1>2. CASE \E n : StopDisplay(n)
  BY <1>2, BringUpRefines DEF StopDisplay, TypeOK, Daemons
<1> QED BY <1>1, <1>2 DEF HandleGreeterEnd

LEMMA DaemonRefines == IInv /\ Daemon => Protocol!Next \/ UNCHANGED Mapped
<1> SUFFICES ASSUME IInv, Daemon PROVE Protocol!Next \/ UNCHANGED Mapped
  OBVIOUS
<1>a. TypeOK /\ auth \in Auths
  BY DEF IInv, TypeOK
<1>1. CASE ReceiveLogin
  BY <1>1, ReceiveLoginRefines
<1>2. CASE HelperFinished \/ HelperNotStarted
  BY <1>2, HelperFinishedRefines
<1>3. CASE GreeterFinished \/ StopGreeterTimer
  <2>1. CASE \E status : HandleGreeterEnd(status)
    BY <2>1, <1>a, GreeterEndRefines
  <2>2. CASE UNCHANGED <<auth, helper>>
    BY <2>2, SameStage
  <2> QED BY <1>3, <2>1, <2>2 DEF GreeterFinished, StopGreeterTimer, GreeterStopped, greeterStep
<1>4. CASE DropLink \/ HearInfo \/ HearError \/ HearRequest \/ HearAuthenticated
           \/ HearSessionStatus \/ DisplayServerStarted \/ HearGreeterStarted
  BY <1>4, SameStage
  DEF DropLink, HearInfo, HearError, HearRequest, HearAuthenticated, HearSessionStatus,
      DisplayServerStarted, HearGreeterStarted, greeterStep
<1>5. CASE HearNotAuthenticated \/ \E a \in Attempt : AcceptHelper(a)
  <2>1. auth'.child = auth.child /\ helper' = helper
    BY <1>5, <1>a DEF HearNotAuthenticated, AcceptHelper, Auths
  <2> QED BY <2>1, SameStage
<1> QED BY <1>1, <1>2, <1>3, <1>4, <1>5 DEF Daemon

LEMMA HelperRefines == IInv /\ Helper => Protocol!Next \/ UNCHANGED Mapped
<1> SUFFICES ASSUME IInv, Helper PROVE Protocol!Next \/ UNCHANGED Mapped
  OBVIOUS
<1>a. helper \in Helpers
  BY DEF IInv, TypeOK
<1>b. UNCHANGED auth
  BY DEF Helper, helperStep, HelperConnects, PamAsks, PamNotes, PamResumes, PamRejects,
         PamAccepts, HelperGetsEnvironment, SessionOpens, SessionRefused,
         HelperGetsStatus, SessionEnds, HelperCrashes
<1>c. helper.phase \notin {"none", "exited"}
  BY DEF Helper, HelperConnects, PamAsks, PamNotes, PamResumes, PamRejects,
         PamAccepts, HelperGetsEnvironment, SessionOpens, SessionRefused,
         HelperGetsStatus, SessionEnds, HelperCrashes
<1>d. auth.child # NoAttempt
  BY <1>c DEF IInv, Safe, HelperOwned
<1>e. \A code : /\ Exited(code).phase = "exited"
                /\ [Exited(code) EXCEPT !.crashed = TRUE].phase = "exited"
  BY <1>a DEF Exited, Helpers
<1>1. CASE helper'.phase = "exited"
  <2>1. Stage' = "over" /\ Stage \in {"checking", "accepted", "session"}
    BY <1>a, <1>b, <1>c, <1>d, <1>1, StageFacts, StageFactsNext DEF Helpers, Phases
  <2> QED BY <1>b, <2>1 DEF Protocol!Next, Protocol!Finish
<1>2. CASE HelperConnects \/ PamAsks \/ PamNotes \/ PamResumes
  <2>1. /\ helper.phase \in {"spawned", "pam", "asking"}
        /\ helper'.phase \in {"spawned", "pam", "asking"}
    BY <1>a, <1>2 DEF HelperConnects, PamAsks, PamNotes, PamResumes, Helpers
  <2> QED BY <1>b, <1>d, <2>1, StageFacts, StageFactsNext DEF Mapped
<1>3. CASE PamAccepts
  <2>1. helper.phase = "pam" /\ helper'.phase = "granted"
    BY <1>a, <1>3 DEF PamAccepts, Helpers
  <2> QED
    BY <1>b, <1>d, <2>1, StageFacts, StageFactsNext DEF Protocol!Next, Protocol!Accept
<1>4. CASE SessionRefused \/ (HelperGetsEnvironment /\ helper'.phase = "opening")
  <2>1. /\ helper.phase \in {"granted", "opening"}
        /\ helper'.phase \in {"opening", "refused"}
    BY <1>a, <1>4 DEF SessionRefused, HelperGetsEnvironment, Helpers
  <2> QED BY <1>b, <1>d, <2>1, StageFacts, StageFactsNext DEF Mapped
<1>5. CASE SessionOpens
  <2>1. helper.phase = "opening" /\ helper'.phase = "opened"
    BY <1>a, <1>5 DEF SessionOpens, Helpers
  <2> QED
    BY <1>b, <1>d, <2>1, StageFacts, StageFactsNext DEF Protocol!Next, Protocol!Open
<1>6. CASE HelperGetsStatus /\ helper'.phase = "session"
  <2>1. helper.phase = "opened"
    BY <1>6, <1>e DEF HelperGetsStatus
  <2> QED BY <1>b, <1>d, <1>6, <2>1, StageFacts, StageFactsNext DEF Mapped
<1>7. HelperGetsEnvironment => helper'.phase \in {"exited", "opening"}
  BY <1>a, <1>e DEF HelperGetsEnvironment, Helpers
<1>8. HelperGetsStatus => helper'.phase \in {"exited", "session"}
  BY <1>a, <1>e DEF HelperGetsStatus, Helpers
<1>9. PamRejects \/ SessionEnds \/ HelperCrashes => helper'.phase = "exited"
  BY <1>e DEF PamRejects, SessionEnds, HelperCrashes
<1> QED
  BY <1>1, <1>2, <1>3, <1>4, <1>5, <1>6, <1>7, <1>8, <1>9 DEF Helper

\* Attempts are made one at a time, and a session is opened only for the attempt
\* that was accepted: the display implements LoginProtocol.
THEOREM Refinement == Spec => ImplementsProtocol
<1>1. Init => Protocol!Init
  BY DEF Init, Protocol!Init, FreshAuth, Stage
<1>2. IInv /\ [Next]_vars => [Protocol!Next]_Mapped
  <2>1. CASE StartDaemon
    BY <2>1, BringUpRefines DEF StartDaemon
  <2>2. CASE GreeterProcess
    BY <2>2, SameStage
    DEF GreeterProcess, GreeterOpens, GreeterEnds, UiHears, Submit, greeterStep, uiStep
  <2>3. CASE UNCHANGED vars
    BY <2>3, SameStage DEF vars
  <2> QED BY <2>1, <2>2, <2>3, DaemonRefines, HelperRefines DEF Next
<1> QED BY <1>1, <1>2, Inductive, PTL DEF Spec, ImplementsProtocol, Protocol!Spec, Mapped

-----------------------------------------------------------------------------
(***************************************************************************)
(* Only its own session is unlocked for a login.                          *)
(* slotAuthenticationFinished reads m_reuseSessionId long after startAuth *)
(* wrote it, and from whichever helper's socket is connected.  It is the  *)
(* right one because a helper that asks waits for the answer: what it     *)
(* asked is the last message in its socket, and until it is read no other *)
(* helper is started.                                                     *)
(***************************************************************************)

\* The messages a helper waits for an answer to, and where it waits.
Questions == {"REQUEST", "AUTHENTICATED", "SESSION_OPENED", "SESSION_FAILED"}
Awaits(k, phase) ==
    \/ k = "REQUEST" /\ phase = "asking"
    \/ k = "AUTHENTICATED" /\ phase = "granted"
    \/ k = "SESSION_OPENED" /\ phase = "opened"
    \/ k = "SESSION_FAILED" /\ phase = "refused"

Asked(a, k) ==
    /\ auth.child = a /\ reply = NoReply
    /\ Awaits(k, helper.phase) \/ (helper.phase = "exited" /\ helper.crashed)
    /\ k = "AUTHENTICATED" => Granted(a)

QuestionsLast ==
    \A a \in Attempt, k \in Questions : \A i \in DOMAIN wire[a] :
        wire[a][i].kind = k => i = Len(wire[a]) /\ Asked(a, k)

NoneOf(kinds) ==
    \A a \in Attempt : \A i \in DOMAIN wire[a] : wire[a][i].kind \notin kinds
NoQuestion == NoneOf(Questions)

ReuseIsOwn == auth.child # NoAttempt => display.reuse \in {NoAttempt, auth.child}

UnlockInv == QuestionsLast /\ ReuseIsOwn /\ UnlocksOwnSession

\* Unless a helper waits, or crashed while it did, no question is in any socket.
LEMMA NothingAsked ==
    ASSUME QuestionsLast,
           \/ helper.phase \notin Blocked /\ ~(helper.phase = "exited" /\ helper.crashed)
           \/ auth.child = NoAttempt
           \/ reply # NoReply
    PROVE  NoQuestion
<1> SUFFICES ASSUME NEW a \in Attempt, NEW i \in DOMAIN wire[a], wire[a][i].kind \in Questions
             PROVE  FALSE
  BY DEF NoQuestion, NoneOf
<1>1. Asked(a, wire[a][i].kind)
  BY DEF QuestionsLast
<1>2. a # NoAttempt
  BY ConstantsAssumption DEF Attempt, NoAttempt
<1> QED BY <1>1, <1>2 DEF Asked, Awaits, Blocked

\* Messages are only read, or dropped with their socket.
LEMMA OnlyRead ==
    ASSUME NEW kinds, TypeOK, NoneOf(kinds),
           \A a \in Attempt : \/ wire'[a] = wire[a] \/ wire'[a] = <<>>
                              \/ wire[a] # <<>> /\ wire'[a] = Tail(wire[a])
    PROVE  NoneOf(kinds)'
<1> SUFFICES ASSUME NEW a \in Attempt, NEW i \in DOMAIN wire'[a]
             PROVE  wire'[a][i].kind \notin kinds
  BY DEF NoneOf
<1>1. wire[a] \in Seq(WireMsg)
  BY DEF TypeOK
<1>2. CASE wire'[a] = wire[a]
  BY <1>2 DEF NoneOf
<1>3. CASE wire'[a] = <<>>
  BY <1>3
<1>4. CASE wire[a] # <<>> /\ wire'[a] = Tail(wire[a])
  <2>1. i + 1 \in DOMAIN wire[a] /\ wire'[a][i] = wire[a][i + 1]
    BY <1>1, <1>4
  <2> QED BY <2>1 DEF NoneOf
<1> QED BY <1>2, <1>3, <1>4

LEMMA StillLast ==
    ASSUME TypeOK, QuestionsLast,
           \A a \in Attempt : \/ wire'[a] = wire[a] \/ wire'[a] = <<>>
                              \/ wire[a] # <<>> /\ wire'[a] = Tail(wire[a]),
           \A a \in Attempt, k \in Questions : Asked(a, k) => Asked(a, k)'
    PROVE  QuestionsLast'
<1> SUFFICES ASSUME NEW a \in Attempt, NEW k \in Questions, NEW i \in DOMAIN wire'[a],
                    wire'[a][i].kind = k
             PROVE  i = Len(wire'[a]) /\ Asked(a, k)'
  BY DEF QuestionsLast
<1>1. wire[a] \in Seq(WireMsg)
  BY DEF TypeOK
<1>2. CASE wire'[a] = wire[a]
  BY <1>2 DEF QuestionsLast
<1>3. CASE wire'[a] = <<>>
  BY <1>3
<1>4. CASE wire[a] # <<>> /\ wire'[a] = Tail(wire[a])
  <2>1. /\ i + 1 \in DOMAIN wire[a] /\ wire'[a][i] = wire[a][i + 1]
        /\ Len(wire[a]) = Len(wire'[a]) + 1 /\ Len(wire'[a]) \in Nat /\ i \in Nat
    BY <1>1, <1>4
  <2>2. i + 1 = Len(wire[a]) /\ Asked(a, k)
    BY <2>1 DEF QuestionsLast
  <2> QED BY <2>1, <2>2
<1> QED BY <1>2, <1>3, <1>4

\* A helper that writes messages.
LEMMA SaysPlain ==
    ASSUME NEW kinds, TypeOK, NoneOf(kinds), helper.att \in Attempt,
           NEW msgs \in Seq(WireMsg), Says(msgs),
           \A j \in DOMAIN msgs : msgs[j].kind \notin kinds
    PROVE  NoneOf(kinds)'
<1> SUFFICES ASSUME NEW a \in Attempt, NEW i \in DOMAIN wire'[a]
             PROVE  wire'[a][i].kind \notin kinds
  BY DEF NoneOf
<1>1. wire[a] \in Seq(WireMsg)
  BY DEF TypeOK
<1>2. CASE a # helper.att
  <2>1. wire'[a] = wire[a]
    BY <1>2 DEF Says, TypeOK
  <2> QED BY <2>1 DEF NoneOf
<1>3. CASE a = helper.att
  <2>1. wire'[a] = wire[a] \o msgs
    BY <1>3 DEF Says, TypeOK
  <2>2. \/ i \in DOMAIN wire[a] /\ wire'[a][i] = wire[a][i]
        \/ i - Len(wire[a]) \in DOMAIN msgs /\ wire'[a][i] = msgs[i - Len(wire[a])]
    BY <1>1, <2>1
  <2> QED BY <2>2 DEF NoneOf
<1> QED BY <1>2, <1>3

LEMMA SaysQuestion ==
    ASSUME TypeOK, NoQuestion, NEW h \in Attempt, helper.att = h, NEW msgs \in Seq(WireMsg), Says(msgs),
           NEW q, msgs # <<>>, msgs[Len(msgs)].kind = q,
           \A j \in DOMAIN msgs : j # Len(msgs) => msgs[j].kind \notin Questions,
           Asked(h, q)'
    PROVE  QuestionsLast'
<1> SUFFICES ASSUME NEW a \in Attempt, NEW k \in Questions, NEW i \in DOMAIN wire'[a],
                    wire'[a][i].kind = k
             PROVE  i = Len(wire'[a]) /\ Asked(a, k)'
  BY DEF QuestionsLast
<1>1. wire[a] \in Seq(WireMsg)
  BY DEF TypeOK
<1>2. CASE a # h
  <2>1. wire'[a] = wire[a]
    BY <1>2 DEF Says, TypeOK
  <2> QED BY <2>1 DEF NoQuestion, NoneOf
<1>3. CASE a = h
  <2>1. wire'[a] = wire[a] \o msgs
    BY <1>3 DEF Says, TypeOK
  <2>2. \/ i \in DOMAIN wire[a] /\ wire'[a][i] = wire[a][i]
        \/ /\ i - Len(wire[a]) \in DOMAIN msgs /\ wire'[a][i] = msgs[i - Len(wire[a])]
           /\ Len(wire'[a]) = Len(wire[a]) + Len(msgs)
    BY <1>1, <2>1
  <2>3. i - Len(wire[a]) = Len(msgs) /\ Len(wire'[a]) = Len(wire[a]) + Len(msgs)
    BY <2>2 DEF NoQuestion, NoneOf
  <2>4. i = Len(wire'[a])
    BY <1>1, <2>3
  <2>5. k = q
    BY <2>2, <2>3 DEF NoQuestion, NoneOf
  <2> QED BY <1>3, <2>4, <2>5
<1> QED BY <1>2, <1>3

\* A login that starts a helper forgets the session another login found.
LEMMA StartedReuse ==
    ASSUME NEW d \in Displays, NEW au \in Auths, NEW g, NEW l \in Logins,
           ~AuthIsActive(au), l.valid, StartAuth(d, au, g, l)
    PROVE  display'.reuse \in {NoAttempt, auth'.child}
<1>1. PICK online \in BOOLEAN :
         display' = DisplayFor(d, g, l, online) /\ auth' = AuthFor(au, l, online)
  BY DEF StartAuth
<1>2. display'.reuse = FoundBy(l, online)
  BY <1>1 DEF DisplayFor, Displays
<1>3. auth'.child = l.att
  BY <1>1 DEF AuthFor, Auths
<1> QED BY <1>2, <1>3 DEF FoundBy

LEMMA BringUpUnlock ==
    ASSUME NEW lock \in BOOLEAN, BringUp(lock)
    PROVE  UnlockInv'
<1>1. wire' = [a \in Attempt |-> <<>>] /\ unlocked' = {}
  BY DEF BringUp, NothingLeft
<1>2. QuestionsLast' /\ UnlocksOwnSession'
  BY <1>1 DEF QuestionsLast, UnlocksOwnSession
<1>3. ReuseIsOwn'
  <2>1. CASE auth' = FreshAuth
    BY <2>1 DEF ReuseIsOwn, FreshAuth
  <2>2. ASSUME NEW u \in Users,
               StartAuth(FreshDisplay, [FreshAuth EXCEPT !.autologin = TRUE],
                         GreeterOff, AutoLogin(u))
        PROVE  ReuseIsOwn'
    <3> DEFINE au == [FreshAuth EXCEPT !.autologin = TRUE]
               l == AutoLogin(u)
    <3>1. au \in Auths /\ ~AuthIsActive(au)
      BY FreshTypes DEF Auths, AuthIsActive, FreshAuth
    <3>2. l \in Logins /\ l.valid
      BY ConstantsAssumption DEF AutoLogin, Logins, Attempt, Names
    <3>3. StartAuth(FreshDisplay, au, GreeterOff, l)
      BY <2>2
    <3> HIDE DEF au, l
    <3> QED BY <3>1, <3>2, <3>3, FreshTypes, StartedReuse DEF ReuseIsOwn
  <2> QED BY <2>1, <2>2 DEF BringUp
<1> QED BY <1>2, <1>3 DEF UnlockInv

\* A daemon that exits leaves nothing.
LEMMA ExitUnlock == ExitDaemon => UnlockInv'
BY DEF ExitDaemon, NothingLeft, FreshAuth, UnlockInv, QuestionsLast, ReuseIsOwn,
       UnlocksOwnSession

\* The messages a helper writes at a time.
LEMMA Messages ==
    /\ \A k \in WireKinds : Msg(k) \in WireMsg /\ Msg(k).kind = k
    /\ \A m \in WireMsg : /\ <<m>> \in Seq(WireMsg) /\ <<m>> # <<>>
                          /\ DOMAIN <<m>> = {1} /\ Len(<<m>>) = 1 /\ <<m>>[1] = m
    /\ \A m, n \in WireMsg : /\ <<m, n>> \in Seq(WireMsg) /\ DOMAIN <<m, n>> = {1, 2}
                             /\ <<m, n>>[1] = m /\ <<m, n>>[2] = n
<1>1. \A k \in WireKinds : Msg(k) \in WireMsg /\ Msg(k).kind = k
  BY DEF Msg, WireMsg
<1>2. ASSUME NEW m \in WireMsg
      PROVE  /\ <<m>> \in Seq(WireMsg) /\ <<m>> # <<>>
             /\ DOMAIN <<m>> = {1} /\ Len(<<m>>) = 1 /\ <<m>>[1] = m
  OBVIOUS
<1>3. ASSUME NEW m \in WireMsg, NEW n \in WireMsg
      PROVE  /\ <<m, n>> \in Seq(WireMsg) /\ DOMAIN <<m, n>> = {1, 2}
             /\ <<m, n>>[1] = m /\ <<m, n>>[2] = n
  OBVIOUS
<1> QED BY <1>1, <1>2, <1>3

\* A helper is somebody's child, and does not move while it waits unanswered.
LEMMA HelperUnlock == IInv /\ UnlockInv /\ Helper => UnlockInv'
<1> SUFFICES ASSUME IInv, UnlockInv, Helper PROVE UnlockInv'
  OBVIOUS
<1>a. /\ TypeOK /\ helper \in Helpers /\ reply \in Replies
      /\ QuestionsLast /\ HelperOwned /\ OneConversation
  BY DEF IInv, TypeOK, UnlockInv, Safe
<1>b. UNCHANGED <<display, auth, unlocked>> /\ helper.phase \notin {"none", "exited"}
  BY DEF Helper, helperStep, HelperConnects, PamAsks, PamNotes, PamResumes, PamRejects,
         PamAccepts, HelperGetsEnvironment, SessionOpens, SessionRefused,
         HelperGetsStatus, SessionEnds, HelperCrashes
<1>c. PICK h \in Attempt : helper.att = h /\ auth.child = h
  BY <1>a, <1>b DEF HelperOwned, Helpers, MaybeAttempt
<1>d. granted \subseteq granted'
  BY DEF Helper, HelperConnects, PamAsks, PamNotes, PamResumes, PamRejects,
         PamAccepts, HelperGetsEnvironment, SessionOpens, SessionRefused,
         HelperGetsStatus, SessionEnds, HelperCrashes
<1>e. \A a : Granted(a) => Granted(a)'
  BY <1>d DEF Granted
<1>f. UnlocksOwnSession' /\ ReuseIsOwn'
  BY <1>b, <1>e DEF UnlockInv, UnlocksOwnSession, ReuseIsOwn
<1>g. helper.crashed = FALSE
  BY <1>a, <1>b DEF OneConversation, Helpers
\* It writes what nobody has to answer.
<1>h. ASSUME NoQuestion' PROVE UnlockInv'
  BY <1>f, <1>h DEF UnlockInv, NoQuestion, NoneOf, QuestionsLast
\* It asks.
<1>i. ASSUME NoQuestion, reply = NoReply, reply' = reply,
             NEW msgs \in Seq(WireMsg), Says(msgs), msgs # <<>>,
             NEW q, msgs[Len(msgs)].kind = q, Awaits(q, helper'.phase),
             \A j \in DOMAIN msgs : j # Len(msgs) => msgs[j].kind \notin Questions,
             q = "AUTHENTICATED" => Granted(h)'
      PROVE  UnlockInv'
  <2>1. Asked(h, q)'
    BY <1>b, <1>c, <1>i DEF Asked
  <2>2. QuestionsLast'
    BY <1>a, <1>c, <1>i, <2>1, SaysQuestion
  <2> QED BY <1>f, <2>2 DEF UnlockInv
<1>1. CASE HelperConnects \/ PamNotes \/ PamRejects
  <2>1. NoQuestion
    BY <1>a, <1>1, NothingAsked DEF HelperConnects, PamNotes, PamRejects, Blocked
  <2>2. \A k \in {"HELLO", "INFO", "ERROR_AUTHENTICATION", "ERROR_INTERNAL",
                  "NOT_AUTHENTICATED"} :
           Msg(k) \in WireMsg /\ Msg(k).kind \notin Questions
    BY Messages DEF WireKinds, Questions
  <2>3. ASSUME NEW m \in WireMsg, m.kind \notin Questions, Says(<<m>>)
        PROVE  UnlockInv'
    <3>1. <<m>> \in Seq(WireMsg) /\ \A j \in DOMAIN <<m>> : <<m>>[j] = m
      BY Messages
    <3> QED BY <1>a, <1>c, <1>h, <2>1, <2>3, <3>1, SaysPlain DEF NoQuestion
  <2>4. ASSUME NEW m \in WireMsg, NEW n \in WireMsg, Says(<<m, n>>),
               m.kind \notin Questions, n.kind \notin Questions
        PROVE  UnlockInv'
    <3>1. /\ <<m, n>> \in Seq(WireMsg)
          /\ \A j \in DOMAIN <<m, n>> : <<m, n>>[j] = m \/ <<m, n>>[j] = n
      BY Messages
    <3>2. \A j \in DOMAIN <<m, n>> : <<m, n>>[j].kind \notin Questions
      BY <2>4, <3>1
    <3> QED BY <1>a, <1>c, <1>h, <2>1, <2>4, <3>1, <3>2, SaysPlain DEF NoQuestion
  <2>5. \/ \E m \in WireMsg : m.kind \notin Questions /\ Says(<<m>>)
        \/ \E m, n \in WireMsg : /\ m.kind \notin Questions /\ n.kind \notin Questions
                                 /\ Says(<<m, n>>)
    BY <1>1, <2>2 DEF HelperConnects, PamNotes, PamRejects
  <2> QED BY <2>3, <2>4, <2>5
<1>2. CASE PamResumes \/ HelperGetsEnvironment \/ HelperGetsStatus \/ SessionEnds
  <2>1. NoQuestion
    BY <1>a, <1>2, NothingAsked
    DEF PamResumes, HelperGetsEnvironment, HelperGetsStatus, SessionEnds, Blocked, NoReply,
        Reply
  <2>2. wire' = wire
    BY <1>2 DEF PamResumes, HelperGetsEnvironment, HelperGetsStatus, SessionEnds
  <2> QED BY <1>h, <2>1, <2>2 DEF NoQuestion, NoneOf
<1>3. CASE HelperCrashes
  <2>1. helper'.phase = "exited" /\ helper'.crashed /\ UNCHANGED <<wire, reply, granted, auth>>
    BY <1>3, <1>a, <1>b DEF HelperCrashes, Exited, Helpers
  <2>2. \A a \in Attempt, k \in Questions : Asked(a, k) => Asked(a, k)'
    BY <2>1 DEF Asked, Granted
  <2>3. QuestionsLast'
    BY <1>a, <2>1, <2>2, StillLast
  <2> QED BY <1>f, <2>3 DEF UnlockInv
<1>4. CASE PamAsks \/ PamAccepts \/ SessionOpens \/ SessionRefused
  <2>1. reply' = reply /\ helper.phase \in {"pam", "opening"}
    BY <1>4 DEF PamAsks, PamAccepts, SessionOpens, SessionRefused
  <2>2. reply = NoReply /\ NoQuestion
    BY <1>a, <2>1, NothingAsked DEF OneConversation, Blocked
  <2>3. ASSUME NEW m \in WireMsg, Says(<<m>>), Awaits(m.kind, helper'.phase),
               m.kind = "AUTHENTICATED" => Granted(h)'
        PROVE  UnlockInv'
    <3>1. /\ <<m>> \in Seq(WireMsg) /\ <<m>> # <<>> /\ <<m>>[Len(<<m>>)] = m
          /\ \A j \in DOMAIN <<m>> : j = Len(<<m>>)
      BY Messages
    <3> QED BY <1>i, <2>1, <2>2, <2>3, <3>1
  <2>4. CASE PamAsks
    <3>1. PICK n \in PromptCounts : Says(<<[kind |-> "REQUEST", prompts |-> n]>>)
      BY <1>4, <2>4 DEF PamAsks
    <3>2. [kind |-> "REQUEST", prompts |-> n] \in WireMsg
      BY ConstantsAssumption DEF WireMsg, WireKinds
    <3>3. Awaits("REQUEST", helper'.phase)
      BY <2>4, <1>a DEF PamAsks, Awaits, Helpers
    <3> QED BY <2>3, <3>1, <3>2, <3>3
  <2>5. CASE PamAccepts
    <3>1. Says(<<Msg("AUTHENTICATED")>>)
      BY <2>5 DEF PamAccepts
    <3>2. Awaits("AUTHENTICATED", helper'.phase)
      BY <2>5, <1>a DEF PamAccepts, Awaits, Helpers
    <3>3. Granted(h)'
      <4>1. [att |-> helper.att, user |-> helper.user] \in granted'
        BY <2>5 DEF PamAccepts
      <4> QED BY <1>c, <4>1 DEF Granted
    <3> QED BY <2>3, <3>1, <3>2, <3>3, Messages DEF WireKinds
  <2>6. CASE SessionOpens
    <3>1. Says(<<Msg("SESSION_OPENED")>>)
      BY <2>6 DEF SessionOpens
    <3>2. Awaits("SESSION_OPENED", helper'.phase)
      BY <2>6, <1>a DEF SessionOpens, Awaits, Helpers
    <3> QED BY <2>3, <3>1, <3>2, Messages DEF WireKinds
  <2>7. CASE SessionRefused
    <3>1. Awaits("SESSION_FAILED", helper'.phase)
      BY <2>7, <1>a DEF SessionRefused, Awaits, Helpers
    <3>2. PICK m \in {<<>>, <<Msg("ERROR_AUTHENTICATION")>>, <<Msg("ERROR_INTERNAL")>>} :
             Says(m \o <<Msg("SESSION_FAILED")>>)
      BY <2>7 DEF SessionRefused
    <3> DEFINE f == Msg("SESSION_FAILED")
    <3>3. f \in WireMsg /\ f.kind = "SESSION_FAILED"
      BY Messages DEF WireKinds
    <3>4. m \in Seq(WireMsg) /\ \A j \in DOMAIN m : m[j].kind \notin Questions
      <4>1. \A k \in {"ERROR_AUTHENTICATION", "ERROR_INTERNAL"} :
               Msg(k) \in WireMsg /\ Msg(k).kind \notin Questions
        BY Messages DEF WireKinds, Questions
      <4>2. m = <<>> \/ \E n \in WireMsg : m = <<n>> /\ n.kind \notin Questions
        BY <4>1
      <4>3. CASE m = <<>>
        BY <4>3
      <4>4. ASSUME NEW n \in WireMsg, m = <<n>>, n.kind \notin Questions
            PROVE  m \in Seq(WireMsg) /\ \A j \in DOMAIN m : m[j].kind \notin Questions
        BY <4>4, Messages
      <4> QED BY <4>2, <4>3, <4>4
    <3>5. Says(m \o <<f>>)
      BY <3>2
    <3> HIDE DEF f
    <3> DEFINE msgs == m \o <<f>>
    <3>6. /\ msgs \in Seq(WireMsg) /\ msgs # <<>> /\ msgs[Len(msgs)] = f
          /\ \A j \in DOMAIN msgs : j # Len(msgs) => j \in DOMAIN m /\ msgs[j] = m[j]
      BY <3>3, <3>4
    <3>7. Says(msgs)
      BY <3>5
    <3> HIDE DEF msgs
    <3> QED BY <1>i, <2>1, <2>2, <3>1, <3>3, <3>4, <3>6, <3>7
  <2> QED BY <1>4, <2>4, <2>5, <2>6, <2>7
<1> QED BY <1>1, <1>2, <1>3, <1>4 DEF Helper

\* A login that finds no helper under way.
LEMMA ReceiveLoginUnlock == IInv /\ UnlockInv /\ ReceiveLogin => UnlockInv'
<1> SUFFICES ASSUME IInv, UnlockInv, ReceiveLogin PROVE UnlockInv'
  OBVIOUS
<1> DEFINE d == [display EXCEPT !.replyTo = TRUE]
           l == Head(toDaemon)
<1>a. TypeOK /\ QuestionsLast /\ ReuseIsOwn /\ UnlocksOwnSession
  BY DEF IInv, UnlockInv
<1>b. UNCHANGED <<wire, reply, granted, unlocked>>
  BY DEF ReceiveLogin, history
<1>c. l \in Logins /\ d \in Displays /\ auth \in Auths /\ d.reuse = display.reuse
  <2>1. l \in Logins
    BY DEF ReceiveLogin, IInv, TypeOK
  <2>2. d \in Displays /\ d.reuse = display.reuse
    BY DEF IInv, TypeOK, Displays
  <2> QED BY <2>1, <2>2 DEF IInv, TypeOK
<1>d. \/ display' = d /\ UNCHANGED <<auth, helper>>
      \/ StartAuth(d, auth, greeter, l)
  BY DEF ReceiveLogin, Login
<1> HIDE DEF d, l
<1>e. UnlocksOwnSession'
  BY <1>a, <1>b DEF UnlocksOwnSession, Granted
<1>1. CASE UNCHANGED <<auth, helper>> /\ display'.reuse = display.reuse
  BY <1>a, <1>b, <1>e, <1>1 DEF UnlockInv, ReuseIsOwn, QuestionsLast, Asked, Granted
<1>2. ASSUME StartAuth(d, auth, greeter, l), auth.child = NoAttempt, ReuseIsOwn'
      PROVE  UnlockInv'
  <2>1. NoQuestion
    BY <1>a, <1>2, NothingAsked
  <2> QED BY <1>b, <1>e, <1>2, <2>1 DEF UnlockInv, NoQuestion, NoneOf, QuestionsLast
<1>3. CASE StartAuth(d, auth, greeter, l) /\ AuthIsActive(auth)
  BY <1>1, <1>3, <1>c DEF StartAuth, RefusedWhileActive
<1>4. CASE StartAuth(d, auth, greeter, l) /\ ~AuthIsActive(auth) /\ ~l.valid
  BY <1>2, <1>4 DEF StartAuth, AuthIsActive, ReuseIsOwn
<1>5. CASE StartAuth(d, auth, greeter, l) /\ ~AuthIsActive(auth) /\ l.valid
  <2>1. display'.reuse \in {NoAttempt, auth'.child}
    BY <1>c, <1>5, StartedReuse
  <2> QED BY <1>2, <1>5, <2>1 DEF AuthIsActive, ReuseIsOwn
<1> QED BY <1>1, <1>3, <1>4, <1>5, <1>c, <1>d DEF Logins

\* What the daemon reads leaves the questions that are still unread where they
\* were; a question it reads was the last message of the helper that waits.
LEMMA DaemonUnlock == IInv /\ UnlockInv /\ Daemon => UnlockInv'
<1> SUFFICES ASSUME IInv, UnlockInv, Daemon PROVE UnlockInv'
  OBVIOUS
<1>a. /\ TypeOK /\ display \in Displays /\ auth \in Auths /\ helper \in Helpers
      /\ QuestionsLast /\ ReuseIsOwn /\ UnlocksOwnSession /\ HelperOwned
  BY DEF IInv, TypeOK, UnlockInv, Safe
<1>b. daemon.firstLogin \in BOOLEAN
  BY DEF IInv, TypeOK, Daemons
\* Nothing new in the sockets, and the same helper.
<1>c. ASSUME UNCHANGED <<helper, reply, granted, unlocked>>,
             auth'.child = auth.child, display'.reuse = display.reuse,
             \A a \in Attempt : \/ wire'[a] = wire[a] \/ wire'[a] = <<>>
                                \/ wire[a] # <<>> /\ wire'[a] = Tail(wire[a])
      PROVE  UnlockInv'
  <2>1. \A a \in Attempt, k \in Questions : Asked(a, k) => Asked(a, k)'
    BY <1>c DEF Asked, Granted
  <2>2. QuestionsLast'
    BY <1>a, <1>c, <2>1, StillLast
  <2> QED BY <1>a, <1>c, <2>2 DEF UnlockInv, ReuseIsOwn, UnlocksOwnSession, Granted
<1>d. ASSUME NEW k, Hears(k)
      PROVE  /\ \A a \in Attempt : \/ wire'[a] = wire[a]
                                   \/ wire[a] # <<>> /\ wire'[a] = Tail(wire[a])
             /\ auth.conn \in Attempt /\ wire[auth.conn] \in Seq(WireMsg)
             /\ wire[auth.conn] # <<>> /\ wire[auth.conn][1].kind = k
             /\ wire'[auth.conn] = Tail(wire[auth.conn])
             /\ \A a \in Attempt : a # auth.conn => wire'[a] = wire[a]
  BY <1>a, <1>d DEF Hears, TypeOK, Auths, MaybeAttempt
\* A question is read: there is no other.
<1>e. ASSUME NEW k \in Questions, Hears(k)
      PROVE  NoQuestion' /\ Asked(auth.conn, k)
  <2>0. /\ auth.conn \in Attempt /\ wire[auth.conn] \in Seq(WireMsg)
        /\ wire[auth.conn] # <<>> /\ wire[auth.conn][1].kind = k
        /\ wire'[auth.conn] = Tail(wire[auth.conn])
    BY <1>d, <1>e
  <2>1. Len(wire[auth.conn]) = 1 /\ Asked(auth.conn, k)
    <3>1. 1 \in DOMAIN wire[auth.conn]
      BY <2>0
    <3> QED BY <1>a, <1>e, <2>0, <3>1 DEF QuestionsLast
  <2>2. wire'[auth.conn] \in Seq(WireMsg) /\ Len(wire'[auth.conn]) = 0
    BY <2>0, <2>1
  <2>3. \A a \in Attempt, q \in Questions : Asked(a, q) => a = auth.conn
    BY <2>1 DEF Asked
  <2>4. ASSUME NEW a \in Attempt, NEW i \in DOMAIN wire'[a], wire'[a][i].kind \in Questions
        PROVE  FALSE
    <3>1. a # auth.conn
      BY <2>2, <2>4
    <3>2. wire'[a] = wire[a]
      BY <1>d, <1>e, <3>1
    <3> QED BY <1>a, <2>3, <2>4, <3>1, <3>2 DEF QuestionsLast
  <2> QED BY <2>1, <2>4 DEF NoQuestion, NoneOf
<1>f. ASSUME NoQuestion', UNCHANGED <<auth, granted, unlocked>>,
             display'.reuse = display.reuse
      PROVE  UnlockInv'
  BY <1>a, <1>f
  DEF UnlockInv, NoQuestion, NoneOf, QuestionsLast, ReuseIsOwn, UnlocksOwnSession, Granted
<1>g. ASSUME NEW status, HandleGreeterEnd(status)
      PROVE  UnlockInv'
  BY <1>b, <1>g, ExitUnlock, BringUpUnlock DEF HandleGreeterEnd, StopDisplay
<1>1. CASE ReceiveLogin
  BY <1>1, ReceiveLoginUnlock
<1>2. CASE DropLink \/ DisplayServerStarted \/ HearGreeterStarted
  <2>1. UNCHANGED <<helper, reply, granted, unlocked, auth, wire>>
    BY <1>2 DEF DropLink, DisplayServerStarted, HearGreeterStarted, greeterStep, history
  <2>2. display'.reuse = display.reuse
    BY <1>2, <1>a DEF DropLink, DisplayServerStarted, HearGreeterStarted, greeterStep, Displays
  <2> QED BY <1>c, <2>1, <2>2
<1>3. CASE \E a \in Attempt : AcceptHelper(a)
  BY <1>3, <1>a, <1>c DEF AcceptHelper, Connecting, Auths, history
<1>4. CASE HearInfo \/ HearError
  BY <1>4, <1>c, <1>d DEF HearInfo, HearError, history
<1>5. CASE HearNotAuthenticated
  <2>1. auth'.child = auth.child /\ display'.reuse = display.reuse
    BY <1>5, <1>a DEF HearNotAuthenticated, Auths, Displays
  <2> QED BY <1>5, <1>c, <1>d, <2>1 DEF HearNotAuthenticated, history
<1>6. CASE HearRequest
  <2>1. NoQuestion' /\ UNCHANGED <<auth, granted, unlocked, display>>
    BY <1>6, <1>e DEF HearRequest, history, Questions
  <2> QED BY <1>f, <2>1
<1>7. CASE HearAuthenticated
  <2>1. NoQuestion' /\ Asked(auth.conn, "AUTHENTICATED") /\ UNCHANGED <<auth, granted>>
    BY <1>7, <1>e DEF HearAuthenticated, Questions
  <2>2. auth.child = auth.conn /\ Granted(auth.conn) /\ auth.child # NoAttempt
    BY <1>7, <2>1 DEF Asked, HearAuthenticated, Hears
  <2>3. display.reuse # NoAttempt => display.reuse = auth.conn
    BY <1>a, <2>2 DEF ReuseIsOwn
  <2>4. unlocked' \subseteq unlocked \cup {<<auth.conn, auth.conn>>}
    BY <1>7, <2>3 DEF HearAuthenticated
  <2>5. \A a : Granted(a)' <=> Granted(a)
    BY <2>1 DEF Granted
  <2>6. UnlocksOwnSession'
    BY <1>a, <2>2, <2>4, <2>5 DEF UnlocksOwnSession
  <2>7. display'.reuse = display.reuse
    BY <1>7, <1>a DEF HearAuthenticated, Displays
  <2> QED BY <1>a, <2>1, <2>6, <2>7 DEF UnlockInv, NoQuestion, NoneOf, QuestionsLast, ReuseIsOwn
<1>8. CASE HearSessionStatus
  <2>1. NoQuestion' /\ UNCHANGED <<auth, granted, unlocked>>
    BY <1>8, <1>e DEF HearSessionStatus, history, Questions
  <2>2. display'.reuse = display.reuse
    BY <1>8, <1>a DEF HearSessionStatus, Displays
  <2> QED BY <1>f, <2>1, <2>2
<1>9. CASE HelperFinished
  <2>1. CASE StopDisplay(daemon.ttyFailures)
    BY <1>b, <2>1, BringUpUnlock DEF StopDisplay
  <2>2. CASE /\ ~EndsDisplay(FinishedStatus(helper))
             /\ auth' = [auth EXCEPT !.child = NoAttempt]
             /\ UNCHANGED <<display, helper, wire, granted, unlocked>>
    <3>1. ~helper.crashed /\ helper.phase = "exited"
      BY <1>9, <2>2 DEF HelperFinished, EndsDisplay, FinishedStatus, HELPER_AUTH_ERROR,
                        HELPER_OTHER_ERROR
    <3>2. NoQuestion
      BY <1>a, <3>1, NothingAsked DEF Blocked
    <3>3. auth'.child = NoAttempt
      BY <1>a, <2>2 DEF Auths
    <3> QED BY <1>a, <2>2, <3>2, <3>3 DEF UnlockInv, NoQuestion, NoneOf, QuestionsLast, ReuseIsOwn,
                                          UnlocksOwnSession, Granted
  <2> QED BY <1>9, <2>1, <2>2 DEF HelperFinished, history
<1>10. CASE HelperNotStarted
  <2>1. NoQuestion
    BY <1>10, <1>a, NothingAsked DEF HelperNotStarted, Blocked
  <2>2. auth'.child = NoAttempt /\ UNCHANGED <<display, wire, granted, unlocked>>
    BY <1>10, <1>a DEF HelperNotStarted, Auths, history
  <2> QED BY <1>a, <2>1, <2>2 DEF UnlockInv, NoQuestion, NoneOf, QuestionsLast, ReuseIsOwn,
                                  UnlocksOwnSession, Granted
<1>11. CASE GreeterFinished
  <2>1. ASSUME UNCHANGED <<greeterStep>>
        PROVE  UnlockInv'
    BY <2>1, <1>c DEF greeterStep, history
  <2> QED BY <1>11, <1>g, <2>1 DEF GreeterFinished, greeterStep
<1>12. CASE StopGreeterTimer
  <2>1. ASSUME NEW g, GreeterStopped(g)
        PROVE  UnlockInv'
    BY <2>1, <1>a, <1>c DEF GreeterStopped, Displays, history
  <2>2. ASSUME display' = [display EXCEPT !.timers = @ - 1],
               UNCHANGED <<daemon, auth, helper, wire, reply, greeter, uiVars, toUi, history>>
        PROVE  UnlockInv'
    BY <2>2, <1>a, <1>c DEF Displays, history
  <2> QED BY <1>12, <1>g, <2>1, <2>2 DEF StopGreeterTimer
<1> QED
  BY <1>1, <1>2, <1>3, <1>4, <1>5, <1>6, <1>7, <1>8, <1>9, <1>10, <1>11, <1>12 DEF Daemon

\* slotAuthenticationFinished unlocks no session but the one that the accepted
\* attempt itself found.
THEOREM OwnSessionUnlocked == Spec => []UnlocksOwnSession
<1>1. Init => UnlockInv
  BY DEF Init, UnlockInv, QuestionsLast, ReuseIsOwn, UnlocksOwnSession, FreshAuth
<1>2. IInv /\ UnlockInv /\ [Next]_vars => UnlockInv'
  <2> SUFFICES ASSUME IInv, UnlockInv, [Next]_vars PROVE UnlockInv'
    OBVIOUS
  <2>1. CASE StartDaemon
    BY <2>1, BringUpUnlock DEF StartDaemon
  <2>2. CASE GreeterProcess \/ UNCHANGED vars
    <3>1. UNCHANGED <<auth, display, helper, reply, wire, granted, unlocked>>
      BY <2>2 DEF GreeterProcess, GreeterOpens, GreeterEnds, UiHears, Submit, greeterStep,
                  uiStep, history, vars
    <3> QED BY <3>1 DEF UnlockInv, QuestionsLast, Asked, ReuseIsOwn, UnlocksOwnSession, Granted
  <2> QED BY <2>1, <2>2, DaemonUnlock, HelperUnlock DEF Next
<1> QED BY <1>1, <1>2, Inductive, PTL DEF Spec, UnlockInv

-----------------------------------------------------------------------------
(***************************************************************************)
(* A session on the display's own VT has no greeter beside it.            *)
(* startAuth asks for a new VT when the greeter runs, once, when the      *)
(* helper is started; a greeter that is started later would be on the VT  *)
(* of the session.  None is: displayServerStarted is queued only while no *)
(* helper is alive and nobody can log in, that is by a display without    *)
(* autologin, or by one whose autologin PAM has rejected.                 *)
(***************************************************************************)

\* Nobody can have sent this display a login: no greeter was ever started.
Untold == toDaemon = <<>> /\ ui.link = "none" /\ greeter.proc = "off"
Alive(phase) == phase \notin {"none", "exited"}

QueuedAlone == display.queued => Untold /\ ~Alive(helper.phase)
AutologinAlone == auth.autologin => Untold /\ ~display.queued
RejectedIsOver ==
    auth.autologin /\ helper.phase # "exited" => NoneOf({"NOT_AUTHENTICATED"})
OwnVt ==
    Alive(helper.phase) /\ display.vt = "own" => greeter.proc \in {"off", "stuck", "gone"}
HelperOfDaemon == ~daemon.up => helper.phase = "none"

VtInv == /\ QueuedAlone /\ AutologinAlone /\ RejectedIsOver
         /\ OwnVt /\ HelperOfDaemon

\* A login that starts a helper chooses the VT by the greeter it finds.
LEMMA StartedVt ==
    ASSUME NEW d \in Displays, NEW au \in Auths, NEW g, NEW l \in Logins,
           ~AuthIsActive(au), l.valid, StartAuth(d, au, g, l)
    PROVE  /\ display'.vt = "own" => ~GreeterIsRunning(g)
           /\ display'.queued = d.queued /\ auth'.autologin = au.autologin
<1>1. PICK online \in BOOLEAN :
         display' = DisplayFor(d, g, l, online) /\ auth' = AuthFor(au, l, online)
  BY DEF StartAuth
<1>2. /\ display'.vt = IF GreeterIsRunning(g) THEN "new" ELSE "own"
      /\ display'.queued = d.queued
  BY <1>1 DEF DisplayFor, Displays
<1>3. auth'.autologin = au.autologin
  BY <1>1 DEF AuthFor, Auths
<1> QED BY <1>2, <1>3

LEMMA BringUpVt ==
    ASSUME NEW lock \in BOOLEAN, BringUp(lock), daemon'.up
    PROVE  VtInv'
<1>1. /\ wire' = [a \in Attempt |-> <<>>] /\ Untold'
      /\ greeter'.proc = "off"
  BY DEF BringUp, NothingLeft, Untold, GreeterOff, NoUi
<1>2. RejectedIsOver' /\ OwnVt' /\ HelperOfDaemon'
  BY <1>1 DEF RejectedIsOver, NoneOf, OwnVt, HelperOfDaemon
<1>3. /\ auth'.autologin => ~display'.queued
      /\ display'.queued => ~Alive(helper'.phase)
  <2>1. CASE auth' = FreshAuth /\ helper' = NoHelper
    BY <2>1 DEF FreshAuth, NoHelper, Alive
  <2>2. ASSUME NEW u \in Users,
               StartAuth(FreshDisplay, [FreshAuth EXCEPT !.autologin = TRUE],
                         GreeterOff, AutoLogin(u))
        PROVE  ~display'.queued
    <3> DEFINE au == [FreshAuth EXCEPT !.autologin = TRUE]
               l == AutoLogin(u)
    <3>1. au \in Auths /\ ~AuthIsActive(au)
      BY FreshTypes DEF Auths, AuthIsActive, FreshAuth
    <3>2. l \in Logins /\ l.valid
      BY ConstantsAssumption DEF AutoLogin, Logins, Attempt, Names
    <3>3. StartAuth(FreshDisplay, au, GreeterOff, l)
      BY <2>2
    <3> HIDE DEF au, l
    <3>4. display'.queued = FreshDisplay.queued
      BY <3>1, <3>2, <3>3, FreshTypes, StartedVt
    <3> QED BY <3>4 DEF FreshDisplay
  <2> QED BY <2>1, <2>2 DEF BringUp
<1> QED BY <1>1, <1>2, <1>3 DEF VtInv, QueuedAlone, AutologinAlone

LEMMA ExitVt == ExitDaemon => VtInv'
BY DEF ExitDaemon, NothingLeft, FreshAuth, FreshDisplay, NoHelper, GreeterOff, VtInv,
       QueuedAlone, AutologinAlone, RejectedIsOver, OwnVt, HelperOfDaemon, Alive

\* Without a queued start and without autologin only the VT is at stake.
LEMMA VtAlone ==
    ASSUME ~display'.queued, ~auth'.autologin, OwnVt', HelperOfDaemon'
    PROVE  VtInv'
BY DEF VtInv, QueuedAlone, AutologinAlone, RejectedIsOver

\* A login reaches the daemon only after its greeter was started.
LEMMA ReceiveLoginVt == TypeOK /\ VtInv /\ ReceiveLogin => VtInv'
<1> SUFFICES ASSUME TypeOK, VtInv, ReceiveLogin PROVE VtInv'
  OBVIOUS
<1> DEFINE d == [display EXCEPT !.replyTo = TRUE]
           l == Head(toDaemon)
<1>a. ~display.queued /\ ~auth.autologin /\ OwnVt /\ daemon'.up /\ UNCHANGED greeter
  BY DEF ReceiveLogin, VtInv, QueuedAlone, AutologinAlone, Untold
<1>b. l \in Logins /\ d \in Displays /\ auth \in Auths
  <2>1. l \in Logins
    BY DEF ReceiveLogin, TypeOK
  <2>2. d \in Displays
    BY DEF TypeOK, Displays
  <2> QED BY <2>1, <2>2 DEF TypeOK
<1>c. d.queued = display.queued /\ d.vt = display.vt
  BY DEF TypeOK, Displays
<1>d. \/ display' = d /\ UNCHANGED <<auth, helper>>
      \/ StartAuth(d, auth, greeter, l)
  BY DEF ReceiveLogin, Login
<1> HIDE DEF d, l
<1>1. CASE /\ UNCHANGED <<auth, helper>>
           /\ display'.queued = d.queued /\ display'.vt = d.vt
  BY <1>a, <1>c, <1>1, VtAlone DEF OwnVt, HelperOfDaemon
<1>2. CASE StartAuth(d, auth, greeter, l) /\ AuthIsActive(auth)
  BY <1>1, <1>2 DEF StartAuth, RefusedWhileActive
<1>3. CASE StartAuth(d, auth, greeter, l) /\ ~AuthIsActive(auth) /\ ~l.valid
  BY <1>1, <1>3, <1>b DEF StartAuth, Displays
<1>4. CASE StartAuth(d, auth, greeter, l) /\ ~AuthIsActive(auth) /\ l.valid
  <2>1. /\ display'.vt = "own" => ~GreeterIsRunning(greeter)
        /\ display'.queued = d.queued /\ auth'.autologin = auth.autologin
    BY <1>4, <1>b, StartedVt
  <2>2. greeter.proc \in {"off", "stuck", "launching", "up", "gone"}
    BY DEF TypeOK, Greeters
  <2> QED
    BY <1>a, <1>c, <2>1, <2>2, VtAlone DEF OwnVt, HelperOfDaemon, GreeterIsRunning
<1> QED BY <1>1, <1>2, <1>3, <1>4, <1>b, <1>d DEF Logins

LEMMA DaemonVt == TypeOK /\ VtInv /\ Daemon => VtInv'
<1> SUFFICES ASSUME TypeOK, VtInv, Daemon PROVE VtInv'
  OBVIOUS
<1>a. /\ display \in Displays /\ auth \in Auths /\ greeter \in Greeters /\ ui \in Uis
      /\ QueuedAlone /\ AutologinAlone /\ RejectedIsOver /\ OwnVt
  BY DEF TypeOK, VtInv
<1>b. daemon.firstLogin \in BOOLEAN /\ daemon \in Daemons /\ daemon.up
  BY DEF TypeOK, Daemons, Daemon, ReceiveLogin, DropLink, AcceptHelper, HearInfo, HearError,
         HearRequest, HearAuthenticated, HearNotAuthenticated, HearSessionStatus, Hears,
         HelperFinished, HelperNotStarted, DisplayServerStarted, HearGreeterStarted,
         GreeterFinished, StopGreeterTimer
\* The daemon only reads.
<1>c. ASSUME UNCHANGED <<daemon, helper>>, Untold => Untold',
             display'.queued = display.queued, display'.vt = display.vt,
             auth'.autologin = auth.autologin,
             greeter'.proc \in {greeter.proc, "off", "gone"},
             \A a \in Attempt : \/ wire'[a] = wire[a] \/ wire'[a] = <<>>
                                \/ wire[a] # <<>> /\ wire'[a] = Tail(wire[a])
      PROVE  VtInv'
  <2>1. RejectedIsOver'
    BY <1>a, <1>c, OnlyRead DEF RejectedIsOver
  <2> QED
    BY <1>a, <1>b, <1>c, <2>1 DEF VtInv, QueuedAlone, AutologinAlone, OwnVt, HelperOfDaemon
<1>d. ASSUME NEW k, Hears(k)
      PROVE  \A a \in Attempt : \/ wire'[a] = wire[a]
                                \/ wire[a] # <<>> /\ wire'[a] = Tail(wire[a])
  BY <1>a, <1>d DEF Hears, TypeOK, Auths, MaybeAttempt
<1>e. ASSUME UNCHANGED <<toDaemon, ui, greeter>>
      PROVE  (Untold => Untold') /\ greeter'.proc \in {greeter.proc, "off", "gone"}
  BY <1>e DEF Untold
<1>f. ASSUME NEW status, HandleGreeterEnd(status)
      PROVE  VtInv'
  <2>1. CASE ExitDaemon
    BY <2>1, ExitVt
  <2>2. ASSUME NEW n, StopDisplay(n)
        PROVE  VtInv'
    BY <1>b, <2>2, BringUpVt DEF StopDisplay, Daemons
  <2> QED BY <1>f, <2>1, <2>2 DEF HandleGreeterEnd
<1>1. CASE ReceiveLogin
  BY <1>1, ReceiveLoginVt
<1>2. CASE DropLink
  <2>1. ~Untold /\ UNCHANGED <<daemon, helper, greeter, wire, auth>>
    BY <1>2 DEF DropLink, Untold
  <2>2. display'.queued = display.queued /\ display'.vt = display.vt
    BY <1>2, <1>a DEF DropLink, Displays
  <2> QED BY <1>c, <2>1, <2>2
<1>3. CASE \E a \in Attempt : AcceptHelper(a)
  <2>1. /\ UNCHANGED <<daemon, display, helper, greeter, ui, toDaemon>>
        /\ auth'.autologin = auth.autologin
    BY <1>3, <1>a DEF AcceptHelper, Auths, uiVars
  <2>2. \A a \in Attempt : \/ wire'[a] = wire[a] \/ wire'[a] = <<>>
                           \/ wire[a] # <<>> /\ wire'[a] = Tail(wire[a])
    BY <1>3 DEF AcceptHelper, Connecting
  <2> QED BY <1>c, <1>e, <2>1, <2>2
<1>4. CASE HearInfo \/ HearError \/ HearRequest \/ HearAuthenticated \/ HearSessionStatus
  <2>1. UNCHANGED <<daemon, helper, auth, greeter, ui, toDaemon>>
    BY <1>4 DEF HearInfo, HearError, HearRequest, HearAuthenticated, HearSessionStatus, uiVars
  <2>2. display'.queued = display.queued /\ display'.vt = display.vt
    BY <1>4, <1>a
    DEF HearInfo, HearError, HearRequest, HearAuthenticated, HearSessionStatus, Displays
  <2>3. \E k : Hears(k)
    BY <1>4 DEF HearInfo, HearError, HearRequest, HearAuthenticated, HearSessionStatus
  <2> QED BY <1>c, <1>d, <1>e, <2>1, <2>2, <2>3
\* The rejected autologin: its helper is over, and nobody has logged in.
<1>5. CASE HearNotAuthenticated
  <2>1. Hears("NOT_AUTHENTICATED") /\ UNCHANGED <<daemon, helper, greeter, ui, toDaemon>>
    BY <1>5 DEF HearNotAuthenticated, uiVars
  <2>2. CASE auth.autologin
    <3>1. ~NoneOf({"NOT_AUTHENTICATED"})
      <4>1. /\ auth.conn \in Attempt /\ wire[auth.conn] \in Seq(WireMsg)
            /\ wire[auth.conn] # <<>> /\ wire[auth.conn][1].kind = "NOT_AUTHENTICATED"
        BY <2>1, <1>a DEF Hears, TypeOK, Auths, MaybeAttempt
      <4>2. 1 \in DOMAIN wire[auth.conn]
        BY <4>1
      <4> QED BY <4>1, <4>2 DEF NoneOf
    <3>2. helper.phase = "exited" /\ Untold
      BY <1>a, <2>2, <3>1 DEF RejectedIsOver, AutologinAlone
    <3>3. ~auth'.autologin
      BY <1>5, <2>2, <1>a DEF HearNotAuthenticated, Auths
    <3> QED BY <1>b, <2>1, <3>2, <3>3
            DEF VtInv, QueuedAlone, AutologinAlone, RejectedIsOver, OwnVt, HelperOfDaemon,
                Alive, Untold
  <2>3. CASE ~auth.autologin
    <3>1. /\ display'.queued = display.queued /\ display'.vt = display.vt
          /\ auth'.autologin = auth.autologin
      BY <1>5, <2>3, <1>a DEF HearNotAuthenticated, Displays
    <3> QED BY <1>c, <1>d, <1>e, <2>1, <3>1
  <2> QED BY <2>2, <2>3
<1>6. CASE HelperFinished
  <2>1. CASE StopDisplay(daemon.ttyFailures)
    BY <1>b, <2>1, BringUpVt DEF StopDisplay, Daemons
  <2>2. CASE /\ auth' = [auth EXCEPT !.child = NoAttempt]
             /\ UNCHANGED <<daemon, display, helper, wire, greeter, ui, toDaemon>>
    BY <1>a, <1>c, <1>e, <2>2 DEF Auths
  <2> QED BY <1>6, <2>1, <2>2 DEF HelperFinished, uiVars
<1>7. CASE HelperNotStarted
  <2>1. /\ helper.phase = "spawned" /\ helper'.phase = "none"
        /\ UNCHANGED <<daemon, display, wire, greeter, ui, toDaemon>>
    BY <1>7 DEF HelperNotStarted, NoHelper, uiVars
  <2>2. auth'.autologin = auth.autologin
    BY <1>7, <1>a DEF HelperNotStarted, Auths
  <2>3. RejectedIsOver'
    BY <1>a, <2>1, <2>2 DEF RejectedIsOver, NoneOf
  <2>4. QueuedAlone' /\ AutologinAlone'
    BY <1>a, <2>1, <2>2 DEF QueuedAlone, AutologinAlone, Alive, Untold
  <2>5. OwnVt' /\ HelperOfDaemon'
    BY <2>1 DEF OwnVt, HelperOfDaemon, Alive
  <2> QED BY <2>3, <2>4, <2>5 DEF VtInv
\* The greeter is started: no helper is alive, and the autologin is over.
<1>8. CASE DisplayServerStarted
  <2>1. display.queued /\ UNCHANGED <<daemon, auth, helper>> /\ ~display'.queued
    BY <1>8, <1>a DEF DisplayServerStarted, Displays
  <2>2. ~auth.autologin /\ ~Alive(helper.phase)
    BY <1>a, <2>1 DEF QueuedAlone, AutologinAlone
  <2> QED BY <1>b, <2>1, <2>2, VtAlone DEF OwnVt, HelperOfDaemon
<1>9. CASE HearGreeterStarted
  <2>1. UNCHANGED <<daemon, display, auth, helper, wire, ui, toDaemon>>
    BY <1>9 DEF HearGreeterStarted, greeterStep
  <2>2. greeter'.proc = greeter.proc
    BY <1>9, <1>a DEF HearGreeterStarted, Greeters
  <2> QED BY <1>c, <2>1, <2>2 DEF Untold
<1>10. CASE GreeterFinished
  <2>1. ASSUME greeter' = GreeterOff, UNCHANGED <<greeterStep, ui>>
        PROVE  VtInv'
    BY <2>1, <1>c DEF greeterStep, GreeterOff, Untold
  <2> QED BY <1>10, <1>f, <2>1 DEF GreeterFinished
<1>11. CASE StopGreeterTimer
  <2>1. ASSUME display' = [display EXCEPT !.timers = @ - 1],
               UNCHANGED <<daemon, auth, helper, wire, greeter, ui, toDaemon>>
        PROVE  VtInv'
    BY <2>1, <1>a, <1>c, <1>e DEF Displays
  <2>2. ASSUME NEW g, g.proc \in {"off", "gone"}, GreeterStopped(g),
               g.proc = "off" \/ greeter.proc = "up"
        PROVE  VtInv'
    <3>1. display'.queued = display.queued /\ display'.vt = display.vt
      BY <2>2, <1>a DEF GreeterStopped, Displays
    <3>2. Untold => Untold'
      BY <2>2, <1>a DEF GreeterStopped, Untold, Uis
    <3> QED BY <2>2, <1>c, <3>1, <3>2 DEF GreeterStopped
  <2>3. [greeter EXCEPT !.proc = "gone", !.status = SIGKILL, !.crashed = TRUE].proc = "gone"
    BY <1>a DEF Greeters
  <2>4. \/ /\ display' = [display EXCEPT !.timers = @ - 1]
           /\ UNCHANGED <<daemon, auth, helper, wire, greeter, ui, toDaemon>>
        \/ \E status : HandleGreeterEnd(status)
        \/ GreeterStopped(GreeterOff)
        \/ \E g : GreeterStopped(g) /\ g.proc = "gone" /\ greeter.proc = "up"
    BY <1>11, <2>3 DEF StopGreeterTimer, uiVars
  <2> QED BY <1>f, <2>1, <2>2, <2>4 DEF GreeterOff
<1> QED
  BY <1>1, <1>2, <1>3, <1>4, <1>5, <1>6, <1>7, <1>8, <1>9, <1>10, <1>11 DEF Daemon

\* A helper that is alive has nothing queued beside it, and says that it was
\* rejected as it ends.
LEMMA HelperVt == IInv /\ VtInv /\ Helper => VtInv'
<1> SUFFICES ASSUME IInv, VtInv, Helper PROVE VtInv'
  OBVIOUS
<1>a. /\ TypeOK /\ helper \in Helpers /\ HelperOwned
      /\ QueuedAlone /\ AutologinAlone /\ RejectedIsOver /\ OwnVt /\ HelperOfDaemon
  BY DEF IInv, TypeOK, VtInv, Safe
<1>b. /\ UNCHANGED <<daemon, display, auth, greeter, ui, toDaemon>>
      /\ helper.phase \notin {"none", "exited"}
  BY DEF Helper, helperStep, uiVars, HelperConnects, PamAsks, PamNotes, PamResumes,
         PamRejects, PamAccepts, HelperGetsEnvironment, SessionOpens, SessionRefused,
         HelperGetsStatus, SessionEnds, HelperCrashes
<1>c. helper.att \in Attempt
  BY <1>a, <1>b DEF HelperOwned, Helpers, MaybeAttempt
<1>d. ~display.queued /\ daemon.up
  BY <1>a, <1>b DEF QueuedAlone, HelperOfDaemon, Alive
<1>e. ASSUME RejectedIsOver' PROVE VtInv'
  BY <1>a, <1>b, <1>d, <1>e DEF VtInv, QueuedAlone, AutologinAlone, OwnVt, HelperOfDaemon,
                                Alive, Untold
<1>f. ASSUME NEW msgs \in Seq(WireMsg), Says(msgs),
             \A j \in DOMAIN msgs : msgs[j].kind # "NOT_AUTHENTICATED"
      PROVE  VtInv'
  <2>1. CASE auth.autologin
    <3>1. NoneOf({"NOT_AUTHENTICATED"})
      BY <1>a, <1>b, <2>1 DEF RejectedIsOver
    <3>2. NoneOf({"NOT_AUTHENTICATED"})'
      BY <1>a, <1>c, <1>f, <3>1, SaysPlain
    <3> QED BY <1>e, <3>2 DEF RejectedIsOver
  <2> QED BY <1>b, <1>e, <2>1 DEF RejectedIsOver
<1>g. ASSUME NEW m \in WireMsg, m.kind # "NOT_AUTHENTICATED", Says(<<m>>)
      PROVE  VtInv'
  <2>1. <<m>> \in Seq(WireMsg) /\ \A j \in DOMAIN <<m>> : <<m>>[j] = m
    BY Messages
  <2>2. \A j \in DOMAIN <<m>> : <<m>>[j].kind # "NOT_AUTHENTICATED"
    BY <1>g, <2>1
  <2> QED BY <1>f, <1>g, <2>1, <2>2
<1>1. CASE HelperConnects \/ PamNotes \/ PamAccepts \/ SessionOpens
  <2>1. \A k \in {"HELLO", "INFO", "ERROR_AUTHENTICATION", "AUTHENTICATED", "SESSION_OPENED"} :
           Msg(k) \in WireMsg /\ Msg(k).kind # "NOT_AUTHENTICATED"
    BY Messages DEF WireKinds
  <2> QED BY <1>1, <1>g, <2>1 DEF HelperConnects, PamNotes, PamAccepts, SessionOpens
<1>2. CASE PamAsks
  <2>1. PICK n \in PromptCounts : Says(<<[kind |-> "REQUEST", prompts |-> n]>>)
    BY <1>2 DEF PamAsks
  <2>2. [kind |-> "REQUEST", prompts |-> n] \in WireMsg
    BY ConstantsAssumption DEF WireMsg, WireKinds
  <2> QED BY <1>g, <2>1, <2>2
<1>3. CASE PamRejects \/ HelperCrashes \/ SessionEnds
  <2>1. \A code : /\ Exited(code).phase = "exited"
                  /\ [Exited(code) EXCEPT !.crashed = TRUE].phase = "exited"
    BY <1>a DEF Exited, Helpers
  <2>2. helper'.phase = "exited"
    BY <1>3, <2>1 DEF PamRejects, HelperCrashes, SessionEnds
  <2> QED BY <1>e, <2>2 DEF RejectedIsOver
<1>4. CASE PamResumes \/ HelperGetsEnvironment \/ HelperGetsStatus
  <2>1. wire' = wire
    BY <1>4 DEF PamResumes, HelperGetsEnvironment, HelperGetsStatus
  <2> QED BY <1>a, <1>b, <1>e, <2>1 DEF RejectedIsOver, NoneOf
<1>5. CASE SessionRefused
  <2>1. PICK m \in {<<>>, <<Msg("ERROR_AUTHENTICATION")>>, <<Msg("ERROR_INTERNAL")>>} :
           Says(m \o <<Msg("SESSION_FAILED")>>)
    BY <1>5 DEF SessionRefused
  <2> DEFINE f == Msg("SESSION_FAILED")
  <2>2. f \in WireMsg /\ f.kind # "NOT_AUTHENTICATED"
    BY Messages DEF WireKinds
  <2>3. m \in Seq(WireMsg) /\ \A j \in DOMAIN m : m[j].kind # "NOT_AUTHENTICATED"
    <3>1. \A k \in {"ERROR_AUTHENTICATION", "ERROR_INTERNAL"} :
             Msg(k) \in WireMsg /\ Msg(k).kind # "NOT_AUTHENTICATED"
      BY Messages DEF WireKinds
    <3>2. m = <<>> \/ \E n \in WireMsg : m = <<n>> /\ n.kind # "NOT_AUTHENTICATED"
      BY <3>1
    <3>3. CASE m = <<>>
      BY <3>3
    <3>4. ASSUME NEW n \in WireMsg, m = <<n>>, n.kind # "NOT_AUTHENTICATED"
          PROVE  m \in Seq(WireMsg) /\ \A j \in DOMAIN m : m[j].kind # "NOT_AUTHENTICATED"
      BY <3>4, Messages
    <3> QED BY <3>2, <3>3, <3>4
  <2>4. Says(m \o <<f>>)
    BY <2>1
  <2> HIDE DEF f
  <2>5. /\ m \o <<f>> \in Seq(WireMsg)
        /\ \A j \in DOMAIN (m \o <<f>>) :
              (m \o <<f>>)[j] = f \/ (j \in DOMAIN m /\ (m \o <<f>>)[j] = m[j])
    BY <2>2, <2>3
  <2> QED BY <1>f, <2>2, <2>3, <2>4, <2>5
<1> QED BY <1>1, <1>2, <1>3, <1>4, <1>5 DEF Helper

\* The greeter's own steps need a greeter that was started.
LEMMA GreeterVt == TypeOK /\ VtInv /\ GreeterProcess => VtInv'
<1> SUFFICES ASSUME TypeOK, VtInv, GreeterProcess PROVE VtInv'
  OBVIOUS
<1>a. greeter \in Greeters /\ OwnVt /\ HelperOfDaemon
  BY DEF TypeOK, VtInv
<1>b. UNCHANGED <<daemon, display, auth, helper>>
  BY DEF GreeterProcess, GreeterOpens, GreeterEnds, UiHears, Submit, greeterStep, uiStep
<1>c. ~display.queued /\ ~auth.autologin
  BY DEF GreeterProcess, GreeterOpens, GreeterEnds, UiHears, Submit, VtInv, QueuedAlone,
         AutologinAlone, Untold
<1>d. \/ greeter'.proc = greeter.proc \/ greeter.proc = "launching"
      \/ greeter'.proc = "gone"
  BY <1>a DEF GreeterProcess, GreeterOpens, GreeterEnds, GreeterDead, UiHears, Submit, uiStep,
              Greeters
<1> QED BY <1>a, <1>b, <1>c, <1>d, VtAlone DEF OwnVt, HelperOfDaemon

\* A helper at work with the display's own VT finds no greeter on it (startAuth
\* asks GreeterIsRunning before it starts the helper), since no greeter is
\* started later: the first one is started before anybody can log in, and a
\* display waiting for its start has no helper.
THEOREM VtSafe == Spec => []VtInv
<1>1. Init => VtInv
  BY DEF Init, FreshAuth, FreshDisplay, NoHelper, GreeterOff, VtInv, QueuedAlone,
         AutologinAlone, RejectedIsOver, OwnVt, HelperOfDaemon, Alive
<1>2. IInv /\ VtInv /\ [Next]_vars => VtInv'
  <2> SUFFICES ASSUME IInv, VtInv, [Next]_vars PROVE VtInv'
    OBVIOUS
  <2>1. CASE StartDaemon
    BY <2>1, BringUpVt DEF StartDaemon, IInv, TypeOK, Daemons
  <2>2. CASE UNCHANGED vars
    BY <2>2 DEF vars, VtInv, QueuedAlone, AutologinAlone, RejectedIsOver, NoneOf, OwnVt,
                HelperOfDaemon, Untold
  <2> QED BY <2>1, <2>2, DaemonVt, HelperVt, GreeterVt DEF Next, IInv
<1> QED BY <1>1, <1>2, Inductive, PTL DEF Spec

\* While a user session is up on the display's own VT, no greeter is launching
\* or up on it.
THEOREM SessionVtOwn == Spec => []SessionVtApart
<1>1. VtInv => SessionVtApart
  BY DEF VtInv, OwnVt, SessionVtApart, SessionUp, Alive
<1> QED BY <1>1, VtSafe, PTL

-----------------------------------------------------------------------------
(***************************************************************************)
(* A running session is left alone.                                       *)
(* Whatever may take it down asks first whether the daemon still has a    *)
(* child, which a helper with a session is, or follows the end of the     *)
(* greeter, which the daemon brings about itself with a status that ends  *)
(* nothing.                                                               *)
(***************************************************************************)

StaysUp == helper'.att = helper.att /\ helper'.phase \in {"opened", "session", "exited"}
GreeterHarmless ==
    ~(greeter.proc = "gone" /\ GreeterOutcome(FinishedStatus(greeter)) # "none")

\* What the daemon does to a helper with a session: nothing.
LEMMA DaemonLeavesSession ==
    ASSUME IInv, SessionUp, GreeterHarmless, Daemon
    PROVE  helper' = helper
<1>a. auth.child # NoAttempt /\ helper.phase \notin {"none", "exited", "spawned"}
  BY DEF IInv, Safe, HelperOwned, SessionUp
<1>b. ASSUME NEW status, GreeterOutcome(status) = "none"
      PROVE  ~HandleGreeterEnd(status)
  BY <1>b DEF HandleGreeterEnd
<1>c. GreeterOutcome(SIGTERM_STATUS) = "none"
  BY DEF GreeterOutcome, SIGTERM_STATUS, HELPER_DISPLAYSERVER_ERROR, HELPER_TTY_ERROR,
         HELPER_SESSION_ERROR
<1>1. CASE ReceiveLogin
  BY <1>1, <1>a DEF ReceiveLogin, Login, StartAuth, AuthIsActive
<1>2. CASE HelperFinished \/ HelperNotStarted
  BY <1>2, <1>a DEF HelperFinished, HelperNotStarted
<1>3. CASE GreeterFinished
  BY <1>3, <1>b DEF GreeterFinished, GreeterHarmless, greeterStep
<1>4. CASE StopGreeterTimer
  <2>1. \A status : HandleGreeterEnd(status) => GreeterOutcome(status) # "none"
    BY <1>b
  <2> QED BY <1>4, <1>c, <2>1 DEF StopGreeterTimer, GreeterStopped, GreeterHarmless
<1>5. CASE \/ DropLink \/ \E a \in Attempt : AcceptHelper(a)
           \/ HearInfo \/ HearError \/ HearRequest \/ HearAuthenticated
           \/ HearNotAuthenticated \/ HearSessionStatus
           \/ DisplayServerStarted \/ HearGreeterStarted
  BY <1>5 DEF DropLink, AcceptHelper, HearInfo, HearError, HearRequest, HearAuthenticated,
              HearNotAuthenticated, HearSessionStatus, DisplayServerStarted,
              HearGreeterStarted, greeterStep
<1> QED BY <1>1, <1>2, <1>3, <1>4, <1>5 DEF Daemon

\* What a helper with a session does: it goes on, or ends.
LEMMA SessionGoesOn ==
    ASSUME TypeOK, SessionUp, Helper
    PROVE  StaysUp
<1>a. helper \in Helpers
  BY DEF TypeOK
<1>b. \A code : /\ Exited(code).phase = "exited" /\ Exited(code).att = helper.att
                /\ [Exited(code) EXCEPT !.crashed = TRUE].phase = "exited"
                /\ [Exited(code) EXCEPT !.crashed = TRUE].att = helper.att
  BY <1>a DEF Exited, Helpers
<1>c. [helper EXCEPT !.phase = "session"].phase = "session"
      /\ [helper EXCEPT !.phase = "session"].att = helper.att
  BY <1>a DEF Helpers
<1>1. HelperGetsStatus \/ SessionEnds \/ HelperCrashes
  BY DEF Helper, SessionUp, HelperConnects, PamAsks, PamNotes, PamResumes, PamRejects,
         PamAccepts, HelperGetsEnvironment, SessionOpens, SessionRefused
<1> QED
  BY <1>1, <1>b, <1>c DEF StaysUp, SessionUp, HelperGetsStatus, SessionEnds, HelperCrashes

\* No step but its own end takes a session down, as long as no failure of the
\* greeter's helper waits to be noticed.
THEOREM SessionsSurvive == Spec => SessionSurvives
<1>1. IInv /\ VtInv /\ [Next]_vars
        => [SessionUp /\ GreeterHarmless => StaysUp]_vars
  <2> SUFFICES ASSUME IInv, VtInv, Next, SessionUp, GreeterHarmless PROVE StaysUp
    OBVIOUS
  <2>1. helper' = helper => StaysUp
    BY DEF StaysUp, SessionUp
  <2>2. ~StartDaemon
    BY DEF VtInv, HelperOfDaemon, SessionUp, StartDaemon
  <2>3. GreeterProcess => helper' = helper
    BY DEF GreeterProcess, GreeterOpens, GreeterEnds, UiHears, Submit, greeterStep, uiStep
  <2> QED
    BY <2>1, <2>2, <2>3, DaemonLeavesSession, SessionGoesOn DEF Next, IInv
<1> QED
  BY <1>1, Inductive, VtSafe, PTL
  DEF Spec, SessionSurvives, GreeterHarmless, StaysUp

=============================================================================
