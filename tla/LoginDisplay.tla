---------------------------- MODULE LoginDisplay ----------------------------
(***************************************************************************)
(* One display of the login manager daemon and everything it talks to     *)
(* while somebody logs in: the Display object and its user Auth object    *)
(* (src/daemon/Display.cpp, src/auth/Auth.cpp), the helper process that   *)
(* runs PAM and the session (src/helper), the Greeter object with its own *)
(* helper (src/daemon/Greeter.cpp), the socket to the greeter             *)
(* (src/daemon/SocketServer.cpp) and the greeter's windows                *)
(* (src/frontend/greeter).                                                *)
(*                                                                        *)
(* The daemon is one thread: an event-loop callback, with every slot it   *)
(* runs synchronously, is one action.  Helper, greeter and PAM are other  *)
(* processes and interleave freely with it.  A login submitted by the     *)
(* greeter is an attempt; its number stands for the password and for the  *)
(* session chosen in it.  Attempt 0 is the autologin.                     *)
(***************************************************************************)
EXTENDS Integers, Sequences, FiniteSets

CONSTANTS
    Users,        \* account names a person may type
    GreeterUser,  \* the account the greeter runs as, "plasmalogin"
    NoUser,       \* the empty user name
    Windows,      \* the greeter's windows, one per screen
    MaxLogins,    \* bound: logins submitted to one display
    MaxRounds,    \* bound: PAM conversation steps of one attempt
    PromptCounts, \* numbers of prompts a PAM request may carry
    SessionExits, \* exit codes a user session may end with
    GreeterExits, \* exit codes the greeter's helper may end with
    Signals,      \* signals a process may be killed with
    Faults,       \* what else may go wrong, a subset of FaultKinds
    HasAutologin, \* an autologin user is configured
    Relogin       \* autologin again after every logout

FaultKinds == {"spawn", "chown", "session", "greeter", "hangs", "entry"}

ASSUME ConstantsAssumption ==
    /\ GreeterUser \notin Users /\ NoUser \notin Users \cup {GreeterUser}
    /\ MaxLogins \in Nat /\ MaxRounds \in Nat
    /\ PromptCounts \subseteq Nat
    /\ SessionExits \subseteq 0..255 /\ GreeterExits \subseteq 0..255
    /\ Signals \subseteq 1..64
    /\ Faults \subseteq FaultKinds
    /\ HasAutologin \in BOOLEAN /\ Relogin \in BOOLEAN

(***************************************************************************)
(* Auth::HelperExitStatus.                                                *)
(***************************************************************************)
HELPER_SUCCESS == 0
HELPER_AUTH_ERROR == 1
HELPER_SESSION_ERROR == 2
HELPER_OTHER_ERROR == 3
HELPER_DISPLAYSERVER_ERROR == 4
HELPER_TTY_ERROR == 5
SIGTERM_STATUS == 255      \* exit(-1), the helper's answer to SIGTERM

SIGKILL == 9
MaxTtyFailures == 5

Attempt == 0..MaxLogins
NoAttempt == -1
MaybeAttempt == Attempt \cup {NoAttempt}
Names == Users \cup {GreeterUser}

VARIABLES
    daemon,    \* the daemon process: running?, m_firstloginLock, s_ttyFailures
    display,   \* Display: m_socket, m_passPhrase, m_reuseSessionId, VT, events due
    auth,      \* the Display's m_auth: user, sessionPath, autologin, child, socket
    helper,    \* the plasmalogin-helper process auth started last
    wire,      \* what each attempt's helper has sent and auth has not read
    reply,     \* what auth has answered and the blocked helper has not read
    greeter,   \* Greeter: m_started, and the state of its helper process
    ui,        \* the greeter process: socket, windows, lastLoggedInUser
    toDaemon,  \* logins on the way to the display's SocketServer
    toUi,      \* answers on the way to the greeter
    granted,   \* history: attempts PAM has accepted on this display
    unlocked   \* history: <<accepted attempt, attempt whose lookup found it>>

vars == <<daemon, display, auth, helper, wire, reply,
          greeter, ui, toDaemon, toUi, granted, unlocked>>
uiVars == <<ui, toDaemon>>
history == <<granted, unlocked>>

-----------------------------------------------------------------------------
(***************************************************************************)
(* Types                                                                  *)
(***************************************************************************)

WireKinds == {"HELLO", "INFO", "ERROR_AUTHENTICATION", "ERROR_INTERNAL",
              "REQUEST", "AUTHENTICATED", "NOT_AUTHENTICATED",
              "SESSION_OPENED", "SESSION_FAILED"}
WireMsg == [kind: WireKinds, prompts: Nat]
Msg(k) == [kind |-> k, prompts |-> 0]

Replies == [kind: {"NONE", "RESPONSE", "ENVIRONMENT", "STATUS"},
            secret: MaybeAttempt, user: Names \cup {NoUser}]
Reply(k) == [kind |-> k, secret |-> NoAttempt, user |-> NoUser]
NoReply == Reply("NONE")

Logins == [att: Attempt, user: Names, valid: BOOLEAN]
UiMsgs == {"LoginFailed", "LoginSucceeded", "InformationMessage"}

Phases == {"none", "spawned", "pam", "asking", "granted", "opening",
           "opened", "refused", "session", "exited"}
Blocked == {"asking", "granted", "opened", "refused"}  \* in str.receive()

Daemons == [up: BOOLEAN, firstLogin: BOOLEAN, ttyFailures: 0..MaxTtyFailures]
Displays == [replyTo: BOOLEAN, passPhrase: MaybeAttempt, reuse: MaybeAttempt,
             vt: {"own", "new"}, queued: BOOLEAN, timers: Nat]
Auths == [user: Names \cup {NoUser}, path: MaybeAttempt, autologin: BOOLEAN,
          child: MaybeAttempt, conn: MaybeAttempt]
Helpers == [att: MaybeAttempt, phase: Phases, user: Names \cup {NoUser},
            path: MaybeAttempt, secret: MaybeAttempt, name: Names \cup {NoUser},
            round: 0..MaxRounds, status: 0..255, crashed: BOOLEAN]
Greeters == [proc: {"off", "stuck", "launching", "up", "gone"}, said: BOOLEAN,
             started: BOOLEAN, status: 0..255, crashed: BOOLEAN]
Uis == [link: {"none", "open", "closed"}, busy: SUBSET Windows,
        last: Names \cup {NoUser}, saved: Names \cup {NoUser}, sent: 0..MaxLogins]
Grants == [att: MaybeAttempt, user: Names \cup {NoUser}]

\* The type of every object, socket and history.
TypeOK ==
    /\ daemon \in Daemons /\ display \in Displays /\ auth \in Auths
    /\ helper \in Helpers /\ greeter \in Greeters /\ ui \in Uis
    /\ wire \in [Attempt -> Seq(WireMsg)] /\ reply \in Replies
    /\ toDaemon \in Seq(Logins) /\ toUi \in Seq(UiMsgs)
    /\ granted \subseteq Grants /\ unlocked \subseteq MaybeAttempt \X MaybeAttempt

-----------------------------------------------------------------------------
(***************************************************************************)
(* Objects as their constructors leave them                               *)
(***************************************************************************)

FreshDisplay == [replyTo |-> FALSE, passPhrase |-> NoAttempt, reuse |-> NoAttempt,
                 vt |-> "own", queued |-> FALSE, timers |-> 0]
FreshAuth == [user |-> NoUser, path |-> NoAttempt, autologin |-> FALSE,
              child |-> NoAttempt, conn |-> NoAttempt]
NoHelper == [att |-> NoAttempt, phase |-> "none", user |-> NoUser, path |-> NoAttempt,
             secret |-> NoAttempt, name |-> NoUser, round |-> 0, status |-> 0,
             crashed |-> FALSE]
GreeterOff == [proc |-> "off", said |-> FALSE, started |-> FALSE, status |-> 0,
               crashed |-> FALSE]
NoUi == [link |-> "none", busy |-> {}, last |-> NoUser, saved |-> NoUser, sent |-> 0]

Init ==
    /\ daemon = [up |-> FALSE, firstLogin |-> FALSE, ttyFailures |-> 0]
    /\ display = FreshDisplay /\ auth = FreshAuth /\ helper = NoHelper
    /\ wire = [a \in Attempt |-> <<>>] /\ reply = NoReply
    /\ greeter = GreeterOff /\ ui = NoUi /\ toDaemon = <<>> /\ toUi = <<>>
    /\ granted = {} /\ unlocked = {}

-----------------------------------------------------------------------------
(***************************************************************************)
(* Starting an authentication (Display::startAuth, Auth::start)           *)
(***************************************************************************)

\* Auth::isActive: QProcess is not NotRunning until its end has been noticed.
Mutant_NotActiveOnceGranted(au) ==
    au.child # NoAttempt /\ helper.phase \in {"spawned", "pam", "asking"}
AuthIsActive(au) == au.child # NoAttempt

\* Greeter::isRunning
Mutant_StartedFlag(g) == g.started
GreeterIsRunning(g) == g.proc \in {"launching", "up", "gone"}

\* The outcome of the ListSessions lookup belongs to this attempt or is null.
FoundBy(l, online) == IF online THEN l.att ELSE NoAttempt

DisplayFor(d, g, l, online) ==
    [d EXCEPT !.passPhrase = l.att,
              !.reuse = FoundBy(l, online),
              !.vt = IF GreeterIsRunning(g) THEN "new" ELSE "own"]

\* setSession is skipped for a session to be reused; d->sessionPath then
\* keeps what an earlier attempt left there.
AuthFor(au, l, online) ==
    [au EXCEPT !.user = l.user,
               !.path = IF online THEN @ ELSE l.att,
               !.child = l.att]

\* The arguments Auth::start gives to plasmalogin-helper.
HelperFor(au) ==
    [NoHelper EXCEPT !.att = au.child, !.phase = "spawned",
                     !.user = au.user, !.path = au.path]

\* What a login leaves behind when another attempt is still under way.
\* (mutants: the password, or the ListSessions lookup, before the check)
Mutant_PassPhraseFirst(d, l) == [d EXCEPT !.passPhrase = l.att]
Mutant_LookupFirst(d, l) == [d EXCEPT !.reuse = l.att]
RefusedWhileActive(d, l) == d

\* d, au and g are the display, its auth object and its greeter at the call.
StartAuth(d, au, g, l) ==
    \/ /\ AuthIsActive(au)
       /\ display' = RefusedWhileActive(d, l) /\ auth' = au
       /\ UNCHANGED helper
    \/ /\ ~AuthIsActive(au)
       /\ ~l.valid
       /\ display' = [d EXCEPT !.passPhrase = l.att] /\ auth' = au
       /\ UNCHANGED helper
    \/ /\ ~AuthIsActive(au)
       /\ l.valid
       /\ \E online \in BOOLEAN :
            /\ display' = DisplayFor(d, g, l, online)
            /\ auth' = AuthFor(au, l, online)
            /\ helper' = HelperFor(AuthFor(au, l, online))

-----------------------------------------------------------------------------
(***************************************************************************)
(* A display's life (Display::Display, start, stop; Seat::displayStopped) *)
(***************************************************************************)

\* Everything a Display owns, and the processes it started, is gone.
NothingLeft ==
    /\ wire' = [a \in Attempt |-> <<>>] /\ reply' = NoReply
    /\ greeter' = GreeterOff /\ ui' = NoUi /\ toDaemon' = <<>> /\ toUi' = <<>>
    /\ granted' = {} /\ unlocked' = {}

\* An autologin session is looked up when relogin is on or the first-login
\* lock is still free; the entry may be missing or unusable.
WantsAutologin(lock) == HasAutologin /\ (Relogin \/ ~lock)

AutoLogin(u) == [att |-> 0, user |-> u, valid |-> TRUE]

\* Display::start of a Display just constructed: autologin, or the queued
\* displayServerStarted (also queued by handleAutologinFailure).
BringUp(lock) ==
    /\ NothingLeft
    /\ \/ /\ WantsAutologin(lock)
          /\ \E u \in Users :
               StartAuth(FreshDisplay, [FreshAuth EXCEPT !.autologin = TRUE],
                         GreeterOff, AutoLogin(u))
       \/ /\ ~WantsAutologin(lock) \/ "entry" \in Faults
          /\ display' = [FreshDisplay EXCEPT !.queued = TRUE]
          /\ auth' = FreshAuth /\ helper' = NoHelper

\* Display::stop, the only display of its seat: greeter, helper and socket
\* server are stopped, and Seat::displayStopped replaces the display at once.
StopDisplay(ttyFailures) ==
    /\ daemon' = [daemon EXCEPT !.firstLogin = @ \/ ~Relogin, !.ttyFailures = ttyFailures]
    /\ BringUp(daemon.firstLogin)

\* QCoreApplication::exit; every child process goes with the daemon.
ExitDaemon ==
    /\ daemon' = [up |-> FALSE, firstLogin |-> FALSE, ttyFailures |-> 0]
    /\ NothingLeft
    /\ display' = FreshDisplay /\ auth' = FreshAuth /\ helper' = NoHelper

\* systemd starts the daemon (Restart=always); the seat gets its display.
StartDaemon ==
    /\ ~daemon.up
    /\ daemon' = [daemon EXCEPT !.up = TRUE, !.firstLogin = ~Relogin]
    /\ BringUp(FALSE)

-----------------------------------------------------------------------------
(***************************************************************************)
(* Display: logins from the greeter                                       *)
(***************************************************************************)

\* SocketWriter on m_socket: lost when the greeter is gone.
Tell(msgs) == toUi' = IF ui.link = "open" THEN toUi \o msgs ELSE toUi

\* Display::login
Login(l) ==
    LET d == [display EXCEPT !.replyTo = TRUE]
    IN \/ /\ l.user = GreeterUser
          /\ display' = d
          /\ Tell(<<"LoginFailed">>)
          /\ UNCHANGED <<auth, helper>>
       \/ /\ l.user # GreeterUser
          /\ StartAuth(d, auth, greeter, l)
          /\ UNCHANGED toUi

\* SocketServer::readyRead
ReceiveLogin ==
    /\ daemon.up /\ toDaemon # <<>>
    /\ Login(Head(toDaemon))
    /\ toDaemon' = Tail(toDaemon)
    /\ UNCHANGED <<daemon, wire, reply, greeter, ui, history>>

\* The socket is disconnected and deleted; m_socket is a QPointer.
DropLink ==
    /\ daemon.up /\ ui.link = "closed" /\ toDaemon = <<>>
    /\ ui' = [ui EXCEPT !.link = "none"]
    /\ display' = [display EXCEPT !.replyTo = FALSE]
    /\ UNCHANGED <<daemon, auth, helper, wire, reply, greeter, toDaemon, toUi, history>>

-----------------------------------------------------------------------------
(***************************************************************************)
(* Auth: what the helper says (Auth::Private::dataPending), with the      *)
(* Display slots connected to each signal                                 *)
(***************************************************************************)

\* Auth::SocketServer::handleNewConnection takes connections in the order
\* they were made.  What the previous socket still held is never read.
Connecting(a) == wire[a] # <<>> /\ Head(wire[a]) = Msg("HELLO")
AcceptHelper(a) ==
    /\ daemon.up /\ Connecting(a)
    /\ \A b \in Attempt : b < a => ~Connecting(b)
    /\ auth' = [auth EXCEPT !.conn = a]
    /\ wire' = [b \in Attempt |-> IF b = a THEN Tail(wire[a])
                                  ELSE IF b = auth.conn THEN <<>> ELSE wire[b]]
    /\ UNCHANGED <<daemon, display, helper, reply, greeter, uiVars, toUi, history>>

\* The next message on d->socket.
Hears(k) ==
    /\ daemon.up /\ auth.conn # NoAttempt /\ wire[auth.conn] # <<>>
    /\ Head(wire[auth.conn]).kind = k
    /\ wire' = [wire EXCEPT ![auth.conn] = Tail(@)]

\* What the daemon writes to d->socket reaches the helper at its other end.
Answer(r) == reply' = IF helper.att = auth.conn /\ helper.phase \in Blocked THEN r ELSE reply

ToGreeter(msgs) == IF display.replyTo THEN Tell(msgs) ELSE UNCHANGED toUi

\* Display::slotAuthInfo
HearInfo ==
    /\ Hears("INFO")
    /\ ToGreeter(<<"InformationMessage">>)
    /\ UNCHANGED <<daemon, display, auth, helper, reply, greeter, uiVars, history>>

\* Display::slotAuthError: an authentication error is told twice, as a
\* message and as a failed login.
ErrorReport(k) ==
    IF k = "ERROR_AUTHENTICATION" THEN <<"InformationMessage", "LoginFailed">>
                                  ELSE <<"InformationMessage">>
HearError ==
    /\ \E k \in {"ERROR_AUTHENTICATION", "ERROR_INTERNAL"} :
          Hears(k) /\ ToGreeter(ErrorReport(k))
    /\ UNCHANGED <<daemon, display, auth, helper, reply, greeter, uiVars, history>>

\* Display::slotRequestChanged: one prompt is given the password, two are
\* given the user and the password, any other number is left unanswered.
Mutant_OnePromptOnly(n) ==
    IF n = 1 THEN [kind |-> "RESPONSE", secret |-> display.passPhrase, user |-> NoUser]
             ELSE NoReply
ResponseTo(n) ==
    CASE n = 1 -> [kind |-> "RESPONSE", secret |-> display.passPhrase, user |-> NoUser]
      [] n = 2 -> [kind |-> "RESPONSE", secret |-> display.passPhrase, user |-> auth.user]
      [] OTHER -> NoReply
HearRequest ==
    /\ Hears("REQUEST")
    /\ LET r == ResponseTo(Head(wire[auth.conn]).prompts)
       IN IF r = NoReply THEN UNCHANGED reply ELSE Answer(r)
    /\ UNCHANGED <<daemon, display, auth, helper, greeter, uiVars, toUi, history>>

\* AUTHENTICATED with a user: Display::slotAuthenticationFinished(user, true)
Verdict(ok) == IF ok THEN <<"LoginSucceeded">> ELSE <<"LoginFailed">>

HearAuthenticated ==
    /\ Hears("AUTHENTICATED")
    /\ unlocked' = IF display.reuse = NoAttempt THEN unlocked
                   ELSE unlocked \cup {<<auth.conn, display.reuse>>}
    /\ ToGreeter(Verdict(TRUE))
    /\ display' = [display EXCEPT !.replyTo = FALSE]
    /\ Answer(Reply("ENVIRONMENT"))
    /\ UNCHANGED <<daemon, auth, helper, greeter, uiVars, granted>>

\* AUTHENTICATED without a user: slotAuthenticationFinished(user, false);
\* a failed autologin brings the greeter up instead (handleAutologinFailure).
HearNotAuthenticated ==
    /\ Hears("NOT_AUTHENTICATED")
    /\ \/ /\ auth.autologin
          /\ auth' = [auth EXCEPT !.autologin = FALSE]
          /\ display' = [display EXCEPT !.queued = TRUE]
          /\ UNCHANGED toUi
       \/ /\ ~auth.autologin
          /\ ToGreeter(Verdict(FALSE))
          /\ display' = [display EXCEPT !.replyTo = FALSE]
          /\ UNCHANGED auth
    /\ UNCHANGED <<daemon, helper, reply, greeter, uiVars, history>>

\* SESSION_STATUS: Display::slotSessionStarted arms the 5 s timer that stops
\* the greeter.
HearSessionStatus ==
    /\ \/ Hears("SESSION_OPENED") /\ display' = [display EXCEPT !.timers = @ + 1]
       \/ Hears("SESSION_FAILED") /\ UNCHANGED display
    /\ Answer(Reply("STATUS"))
    /\ UNCHANGED <<daemon, auth, helper, greeter, uiVars, toUi, history>>

\* Auth::Private::childExited: a crash is reported as a generic error.
FinishedStatus(p) == IF p.crashed THEN HELPER_OTHER_ERROR ELSE p.status

\* Display::slotHelperFinished
Mutant_OnlyErrorsEnd(status) == status \notin {HELPER_AUTH_ERROR, HELPER_SUCCESS}
EndsDisplay(status) == status # HELPER_AUTH_ERROR

HelperFinished ==
    /\ daemon.up /\ helper.phase = "exited" /\ auth.child = helper.att
    /\ \/ /\ EndsDisplay(FinishedStatus(helper))
          /\ StopDisplay(daemon.ttyFailures)
       \/ /\ ~EndsDisplay(FinishedStatus(helper))
          /\ auth' = [auth EXCEPT !.child = NoAttempt]
          /\ UNCHANGED <<daemon, display, helper, wire, reply, greeter, uiVars, toUi, history>>

\* QProcess could not start the helper: errorOccurred, never finished.
HelperNotStarted ==
    /\ daemon.up /\ "spawn" \in Faults
    /\ helper.phase = "spawned" /\ auth.child = helper.att
    /\ helper' = NoHelper
    /\ auth' = [auth EXCEPT !.child = NoAttempt]
    /\ ToGreeter(ErrorReport("ERROR_INTERNAL"))
    /\ UNCHANGED <<daemon, display, wire, reply, greeter, uiVars, history>>

-----------------------------------------------------------------------------
(***************************************************************************)
(* The helper (HelperApp, PamBackend, UserSession)                        *)
(***************************************************************************)

helperStep == <<daemon, display, auth, greeter, uiVars, toUi, unlocked>>

Says(msgs) == wire' = [wire EXCEPT ![helper.att] = @ \o msgs]

\* HelperApp::exit and the signal that killed it
Exited(code) == [helper EXCEPT !.phase = "exited", !.status = code]

\* HelperApp::setUp, connected, doAuth up to PamBackend::start
HelperConnects ==
    /\ helper.phase = "spawned"
    /\ Says(<<Msg("HELLO")>>)
    /\ helper' = [helper EXCEPT !.phase = "pam"]
    /\ UNCHANGED <<helperStep, reply, granted>>

\* PamBackend::converse with a prompt
PamAsks ==
    /\ helper.phase = "pam" /\ helper.round < MaxRounds
    /\ \E n \in PromptCounts : Says(<<[kind |-> "REQUEST", prompts |-> n]>>)
    /\ helper' = [helper EXCEPT !.phase = "asking", !.round = @ + 1]
    /\ UNCHANGED <<helperStep, reply, granted>>

\* PamBackend::converse with PAM_TEXT_INFO or PAM_ERROR_MSG; the latter is
\* sent as an authentication error although PAM has not decided anything.
PamNotes ==
    /\ helper.phase = "pam" /\ helper.round < MaxRounds
    /\ \E k \in {"INFO", "ERROR_AUTHENTICATION"} : Says(<<Msg(k)>>)
    /\ helper' = [helper EXCEPT !.round = @ + 1]
    /\ UNCHANGED <<helperStep, reply, granted>>

\* HelperApp::request returns
PamResumes ==
    /\ helper.phase = "asking" /\ reply.kind = "RESPONSE"
    /\ helper' = [helper EXCEPT !.phase = "pam", !.secret = reply.secret, !.name = reply.user]
    /\ reply' = NoReply
    /\ UNCHANGED <<helperStep, wire, granted>>

\* pam_start fails (ERROR_INTERNAL), or pam_authenticate or pam_acct_mgmt
\* says no (ERROR_AUTHENTICATION)
PamRejects ==
    /\ helper.phase = "pam"
    /\ \E k \in {"ERROR_AUTHENTICATION", "ERROR_INTERNAL"} :
          /\ k = "ERROR_INTERNAL" => helper.round = 0
          /\ Says(<<Msg(k), Msg("NOT_AUTHENTICATED")>>)
    /\ helper' = Exited(HELPER_AUTH_ERROR)
    /\ UNCHANGED <<helperStep, reply, granted>>

\* PamBackend::authenticate succeeds; HelperApp::authenticated waits for the
\* environment.
PamAccepts ==
    /\ helper.phase = "pam"
    /\ Says(<<Msg("AUTHENTICATED")>>)
    /\ helper' = [helper EXCEPT !.phase = "granted"]
    /\ granted' = granted \cup {[att |-> helper.att, user |-> helper.user]}
    /\ UNCHANGED <<helperStep, reply>>

\* HelperApp::doAuth: without --start there is no session to open
HelperGetsEnvironment ==
    /\ helper.phase = "granted" /\ reply.kind = "ENVIRONMENT"
    /\ helper' = IF helper.path = NoAttempt THEN Exited(HELPER_SUCCESS)
                                           ELSE [helper EXCEPT !.phase = "opening"]
    /\ reply' = NoReply
    /\ UNCHANGED <<helperStep, wire, granted>>

\* PamBackend::openSession and UserSession::start
SessionOpens ==
    /\ helper.phase = "opening"
    /\ Says(<<Msg("SESSION_OPENED")>>)
    /\ helper' = [helper EXCEPT !.phase = "opened"]
    /\ UNCHANGED <<helperStep, reply, granted>>

\* setCred (ERROR_AUTHENTICATION), putEnv or pam_open_session
\* (ERROR_INTERNAL), or the session process (no message) fails.
SessionRefused ==
    /\ helper.phase = "opening" /\ "session" \in Faults
    /\ \E m \in {<<>>, <<Msg("ERROR_AUTHENTICATION")>>, <<Msg("ERROR_INTERNAL")>>} :
          Says(m \o <<Msg("SESSION_FAILED")>>)
    /\ helper' = [helper EXCEPT !.phase = "refused"]
    /\ UNCHANGED <<helperStep, reply, granted>>

\* HelperApp::sessionOpened returns
HelperGetsStatus ==
    /\ helper.phase \in {"opened", "refused"} /\ reply.kind = "STATUS"
    /\ helper' = IF helper.phase = "refused" THEN Exited(HELPER_SESSION_ERROR)
                                             ELSE [helper EXCEPT !.phase = "session"]
    /\ reply' = NoReply
    /\ UNCHANGED <<helperStep, wire, granted>>

\* HelperApp::sessionFinished: the session's exit code becomes the helper's.
SessionEnds ==
    /\ helper.phase = "session"
    /\ \E code \in SessionExits : helper' = Exited(code)
    /\ UNCHANGED <<helperStep, wire, reply, granted>>

\* The helper dies of a signal, wherever it is.
HelperCrashes ==
    /\ helper.phase \notin {"none", "exited"}
    /\ \E s \in Signals : helper' = [Exited(s) EXCEPT !.crashed = TRUE]
    /\ UNCHANGED <<helperStep, wire, reply, granted>>

-----------------------------------------------------------------------------
(***************************************************************************)
(* The greeter's process, as the Greeter object and its Auth see it       *)
(***************************************************************************)

greeterStep == <<daemon, display, auth, helper, wire, reply, toDaemon, history>>

\* Display::displayServerStarted, startSocketServerAndGreeter, Greeter::start;
\* a failed chown of the socket returns before the greeter is started.
DisplayServerStarted ==
    /\ daemon.up /\ display.queued
    /\ display' = [display EXCEPT !.queued = FALSE]
    /\ \/ greeter' = IF greeter.started THEN greeter ELSE [GreeterOff EXCEPT !.proc = "launching"]
       \/ "spawn" \in Faults /\ greeter' = [GreeterOff EXCEPT !.proc = "stuck"]
       \/ "chown" \in Faults /\ UNCHANGED greeter
    /\ UNCHANGED <<daemon, auth, helper, wire, reply, uiVars, toUi, history>>

\* The greeter's helper has opened its session; the greeter connects.
GreeterOpens ==
    /\ greeter.proc = "launching"
    /\ greeter' = [greeter EXCEPT !.proc = "up", !.said = TRUE]
    /\ ui' = [ui EXCEPT !.link = "open"]
    /\ UNCHANGED <<greeterStep, toUi>>

\* Greeter::onSessionStarted(true)
HearGreeterStarted ==
    /\ daemon.up /\ greeter.said
    /\ greeter' = [greeter EXCEPT !.said = FALSE, !.started = TRUE]
    /\ UNCHANGED <<greeterStep, ui, toUi>>

GreeterDead(code, crashed) ==
    /\ greeter' = [greeter EXCEPT !.proc = "gone", !.status = code, !.crashed = crashed]
    /\ ui' = [ui EXCEPT !.link = IF @ = "open" THEN "closed" ELSE @]
    /\ toUi' = <<>>

\* The greeter's helper ends: PAM, the session or the compositor failed, the
\* greeter quit, or a signal.
GreeterEnds ==
    /\ \/ /\ greeter.proc = "launching" /\ "greeter" \in Faults
          /\ \E code \in {HELPER_AUTH_ERROR, HELPER_SESSION_ERROR} : GreeterDead(code, FALSE)
       \/ greeter.proc = "up" /\ \E code \in GreeterExits : GreeterDead(code, FALSE)
       \/ greeter.proc \in {"launching", "up"} /\ \E s \in Signals : GreeterDead(s, TRUE)
    /\ UNCHANGED greeterStep

\* Greeter::onHelperFinished and the Display slots connected to its signals
Mutant_AnyErrorFails(status) ==
    CASE status = HELPER_DISPLAYSERVER_ERROR -> "displayServerFailed"
      [] status = HELPER_TTY_ERROR -> "ttyFailed"
      [] status \notin {0, 4, 5} -> "failed"
      [] OTHER -> "none"
GreeterOutcome(status) ==
    CASE status = HELPER_DISPLAYSERVER_ERROR -> "displayServerFailed"
      [] status = HELPER_TTY_ERROR -> "ttyFailed"
      [] status = HELPER_SESSION_ERROR -> "failed"
      [] OTHER -> "none"

\* s_ttyFailures is incremented, then compared.
Mutant_CompareFirst(failures) == failures > MaxTtyFailures
TooManyTtyFailures(failures) == failures + 1 > MaxTtyFailures

HandleGreeterEnd(status) ==
    \/ /\ GreeterOutcome(status) = "displayServerFailed"
       /\ ExitDaemon
    \/ /\ GreeterOutcome(status) = "ttyFailed"
       /\ TooManyTtyFailures(daemon.ttyFailures)
       /\ ExitDaemon
    \/ /\ GreeterOutcome(status) = "ttyFailed"
       /\ ~TooManyTtyFailures(daemon.ttyFailures)
       /\ StopDisplay(daemon.ttyFailures + 1)
    \/ /\ GreeterOutcome(status) = "failed"
       /\ StopDisplay(daemon.ttyFailures)

GreeterFinished ==
    /\ daemon.up /\ greeter.proc = "gone"
    /\ \/ HandleGreeterEnd(FinishedStatus(greeter))
       \/ /\ GreeterOutcome(FinishedStatus(greeter)) = "none"
          /\ greeter' = GreeterOff
          /\ UNCHANGED <<greeterStep, ui, toUi>>

\* The 5 s timer: Greeter::stop, Auth::stop.  SIGTERM and a wait of at most
\* 5 s, during which the end of the helper is handled; else SIGKILL.
GreeterStopped(g) ==
    /\ display' = [display EXCEPT !.timers = @ - 1]
    /\ greeter' = g
    /\ ui' = [ui EXCEPT !.link = IF @ = "open" THEN "closed" ELSE @]
    /\ toUi' = <<>>
    /\ UNCHANGED <<daemon, auth, helper, wire, reply, toDaemon, history>>

StopGreeterTimer ==
    /\ daemon.up /\ display.timers > 0
    /\ \/ /\ ~greeter.started
          /\ display' = [display EXCEPT !.timers = @ - 1]
          /\ UNCHANGED <<daemon, auth, helper, wire, reply, greeter, uiVars, toUi, history>>
       \/ /\ greeter.started
          /\ LET status == IF greeter.proc = "gone" THEN FinishedStatus(greeter)
                                                   ELSE SIGTERM_STATUS
             IN \/ HandleGreeterEnd(status)
                \/ /\ GreeterOutcome(status) = "none"
                   /\ GreeterStopped(GreeterOff)
       \/ /\ greeter.started /\ greeter.proc = "up" /\ "hangs" \in Faults
          /\ GreeterStopped([greeter EXCEPT !.proc = "gone", !.status = SIGKILL,
                                            !.crashed = TRUE])

-----------------------------------------------------------------------------
(***************************************************************************)
(* The greeter's windows (Login.qml, Main.qml, GreeterState.qml)          *)
(***************************************************************************)

uiStep == <<daemon, display, auth, helper, wire, reply, greeter, history>>

\* startLogin disables this window only and hands the request to the daemon.
\* The session entry chosen may have become unusable on the daemon's side.
Submit(w) ==
    /\ ui.link = "open" /\ w \notin ui.busy /\ ui.sent < MaxLogins
    /\ \E u \in Names, valid \in BOOLEAN :
         /\ valid \/ "entry" \in Faults
         /\ ui' = [ui EXCEPT !.busy = @ \cup {w}, !.last = u, !.sent = @ + 1]
         /\ toDaemon' = Append(toDaemon, [att |-> ui.sent + 1, user |-> u, valid |-> valid])
    /\ UNCHANGED <<uiStep, toUi>>

\* onLoginFailed enables every window; onLoginSucceeded saves the user of the
\* last request.
Mutant_StayDisabled(msg) ==
    IF msg = "LoginSucceeded" THEN [ui EXCEPT !.saved = ui.last] ELSE ui
UiAfter(msg) ==
    CASE msg = "LoginFailed" -> [ui EXCEPT !.busy = {}]
      [] msg = "LoginSucceeded" -> [ui EXCEPT !.saved = ui.last]
      [] OTHER -> ui
UiHears ==
    /\ ui.link = "open" /\ toUi # <<>>
    /\ ui' = UiAfter(Head(toUi))
    /\ toUi' = Tail(toUi)
    /\ UNCHANGED <<uiStep, toDaemon>>

-----------------------------------------------------------------------------
Daemon ==
    \/ ReceiveLogin \/ DropLink
    \/ \E a \in Attempt : AcceptHelper(a)
    \/ HearInfo \/ HearError \/ HearRequest \/ HearAuthenticated
    \/ HearNotAuthenticated \/ HearSessionStatus \/ HelperFinished \/ HelperNotStarted
    \/ DisplayServerStarted \/ HearGreeterStarted \/ GreeterFinished \/ StopGreeterTimer

Helper ==
    \/ HelperConnects \/ PamAsks \/ PamNotes \/ PamResumes \/ PamRejects \/ PamAccepts
    \/ HelperGetsEnvironment \/ SessionOpens \/ SessionRefused \/ HelperGetsStatus
    \/ SessionEnds \/ HelperCrashes

GreeterProcess ==
    \/ GreeterOpens \/ GreeterEnds \/ UiHears
    \/ \E w \in Windows : Submit(w)

Next == StartDaemon \/ Daemon \/ Helper \/ GreeterProcess

Spec == Init /\ [][Next]_vars

(***************************************************************************)
(* Fairness.  The daemon's event loop serves every source that is ready;  *)
(* the helper runs its own code to the next point where it waits; PAM     *)
(* decides after at most MaxRounds steps; a greeter that is launched comes *)
(* up or fails.  Nothing makes a person log in or a session end.          *)
(***************************************************************************)
DaemonFairness ==
    /\ WF_vars(StartDaemon) /\ WF_vars(ReceiveLogin) /\ WF_vars(DropLink)
    /\ \A a \in Attempt : WF_vars(AcceptHelper(a))
    /\ WF_vars(HearInfo) /\ WF_vars(HearError) /\ WF_vars(HearRequest)
    /\ WF_vars(HearAuthenticated) /\ WF_vars(HearNotAuthenticated)
    /\ WF_vars(HearSessionStatus) /\ WF_vars(HelperFinished)
    /\ WF_vars(DisplayServerStarted) /\ WF_vars(HearGreeterStarted)
    /\ WF_vars(GreeterFinished) /\ WF_vars(StopGreeterTimer)
HelperFairness ==
    /\ WF_vars(HelperConnects) /\ WF_vars(PamAsks \/ PamAccepts \/ PamRejects)
    /\ WF_vars(PamResumes) /\ WF_vars(HelperGetsEnvironment)
    /\ WF_vars(SessionOpens \/ SessionRefused) /\ WF_vars(HelperGetsStatus)
GreeterFairness == WF_vars(UiHears) /\ WF_vars(GreeterOpens \/ GreeterEnds)

FairSpec == Spec /\ DaemonFairness /\ HelperFairness /\ GreeterFairness

-----------------------------------------------------------------------------
(***************************************************************************)
(* Safety                                                                 *)
(***************************************************************************)

SessionUp == helper.phase \in {"opened", "session"}
Granted(a) == \E g \in granted : g.att = a

\* The password (and user) a helper is given by slotRequestChanged are those
\* of the login it was started for, although m_passPhrase is one member
\* shared by every login and the request is answered much later.
ResponsesMatchAttempt ==
    /\ helper.secret # NoAttempt => helper.secret = helper.att
    /\ helper.name # NoUser => helper.name = helper.user

\* slotAuthenticationFinished unlocks m_reuseSessionId, found when the attempt
\* was started; it must be the session of the user PAM has just accepted.
UnlocksOwnSession ==
    \A p \in unlocked : p[1] = p[2] /\ Granted(p[1])

\* A user session that was given the display's own VT has no greeter
\* compositor on the same VT (isRunning, setUpNewVt in startAuth).
SessionVtApart ==
    SessionUp /\ display.vt = "own" =>
        greeter.proc \in {"off", "stuck", "gone"}

\* A running session is not taken down by further logins, late messages or
\* the greeter being stopped: it ends by itself, unless the greeter's helper
\* has reported a failure that ends the display.
SessionSurvives ==
    [][SessionUp /\ ~(greeter.proc = "gone" /\ GreeterOutcome(FinishedStatus(greeter)) # "none")
       => /\ helper'.att = helper.att
          /\ helper'.phase \in {"opened", "session", "exited"}]_vars

(***************************************************************************)
(* What makes the conversation with the helpers safe                      *)
(***************************************************************************)

\* The daemon's child process is the helper started last; without a child no
\* helper is alive (Auth::isActive guards every start).
HelperOwned ==
    /\ auth.child # NoAttempt => helper.att = auth.child /\ helper.phase # "none"
    /\ auth.child = NoAttempt => helper.phase \in {"none", "exited"}

\* m_passPhrase and m_auth's user stay those of the helper under way, and an
\* answer lies in the socket only for the helper that asked for it: no answer
\* is left behind for the helper of a later attempt.
OneConversation ==
    /\ auth.child # NoAttempt => /\ display.passPhrase = helper.att
                                 /\ auth.user = helper.user
    /\ auth.child = NoAttempt => reply = NoReply
    /\ reply # NoReply => \/ helper.phase \in Blocked
                          \/ helper.phase = "exited" /\ helper.crashed
    /\ helper.crashed => helper.phase = "exited"
    /\ reply.secret # NoAttempt => reply.secret = helper.att
    /\ reply.user # NoUser => reply.user = helper.user

(***************************************************************************)
(* What the code's documents promise                                      *)
(***************************************************************************)

\* Auth.h: a session is started only when the session property was set for
\* the attempt; startAuth does not set it for a session to be reused.
ReuseStartsNoSession ==
    auth.child # NoAttempt /\ display.reuse = auth.child => ~SessionUp

(***************************************************************************)
(* Liveness                                                               *)
(***************************************************************************)

\* A request of any other number of prompts than one or two, such as the three of
\* an expired password (changePassRequest), is never answered (slotRequestChanged):
\* the helper then reacts to nothing (HelperApp::request).
Forgotten ==
    /\ helper.phase = "asking" /\ reply = NoReply
    /\ \A i \in DOMAIN wire[helper.att] :
         LET m == wire[helper.att][i] IN m.kind = "REQUEST" => m.prompts \notin {1, 2}

\* Every other helper that waits for the daemon gets its answer (request,
\* authenticated, sessionOpened), or is stopped.
BlockedHelperIsAnswered ==
    helper.phase \in Blocked /\ ~Forgotten ~> helper.phase \notin Blocked

\* When a session or a failed helper ends, the display is replaced and a
\* greeter comes up again (slotHelperFinished, Seat::displayStopped).
DisplayComesBack ==
    helper.phase = "exited" /\ FinishedStatus(helper) # HELPER_AUTH_ERROR
        ~> greeter.proc = "up"

\* A rejection that the daemon is about to read, while it still knows whom to
\* tell, gets the greeter's windows enabled again; a later login that the
\* daemon has taken up meanwhile may succeed instead, or never be answered.
RejectionIsTold ==
    /\ display.replyTo /\ auth.conn # NoAttempt
    /\ \E i \in DOMAIN wire[auth.conn] : wire[auth.conn][i].kind = "NOT_AUTHENTICATED"
    ~> ui.busy = {} \/ ui.link # "open" \/ ui.saved # NoUser \/ Forgotten

-----------------------------------------------------------------------------
(***************************************************************************)
(* The display implements LoginProtocol.  Who holds it is the daemon's    *)
(* view (m_auth is active); how far the attempt has come is the helper's. *)
(***************************************************************************)

Stage ==
    IF auth.child = NoAttempt THEN "idle"
    ELSE CASE helper.phase \in {"spawned", "pam", "asking"} -> "checking"
           [] helper.phase \in {"granted", "opening", "refused"} -> "accepted"
           [] helper.phase \in {"opened", "session"} -> "session"
           [] OTHER -> "over"

Protocol == INSTANCE LoginProtocol
                WITH AutoAttempt <- 0, holder <- auth.child, stage <- Stage

ImplementsProtocol == Protocol!Spec

=============================================================================
