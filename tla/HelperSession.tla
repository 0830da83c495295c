--------------------------- MODULE HelperSession ---------------------------
(***************************************************************************)
(* A helper from its start to its end and the processes of its session:  *)
(*   helper  plasmalogin-helper (src/helper/HelperApp.cpp, UserSession.cpp *)
(*           and the calls of PAM in backend/PamBackend.cpp, PamHandle.cpp) *)
(*   app     its child: for X11 plasmalogin-helper-start-x11user          *)
(*           (src/helper/HelperStartX11User.cpp, xorguserhelper.cpp), for *)
(*           Wayland the session or the greeter itself                    *)
(*   server, client, Xsetup, Xstop  the children of the X11 app           *)
(* and how the daemon stops them (src/auth/Auth.cpp: Auth::stop).         *)
(*                                                                        *)
(* Each waits for its children with a time limit and then kills them.  A  *)
(* limit may run out at any moment; a process that is killed ends.  What  *)
(* is asked and answered while PAM authenticates is PamConversation.      *)
(***************************************************************************)
EXTENDS Integers, FiniteSets

CONSTANT Kinds  \* what a helper is started for: a session, or no session ("check")

ASSUME KindsAssumption == Kinds \subseteq {"x11", "wayland", "greeter", "check"}

Children == {"server", "client", "Xsetup", "Xstop"}
Processes == Children \cup {"helper", "app"}

VARIABLES
    kind,     \* what the helper was started for
    daemon,   \* Auth::stop: "idle", "waiting", "gave up"
    helper,   \* where the helper is
    app,      \* where the app is
    child,    \* each child of the X11 app: "none", "running" or how it ended
    display,  \* the server has written its number to the pipe
    term,     \* processes with SIGTERM on its way
    doomed,   \* processes with SIGKILL on its way
    pam       \* PamHandle: what it holds, m_open, and the calls that failed unheeded

vars == <<kind, daemon, helper, app, child, display, term, doomed, pam>>

HelperOver == helper \in {"ended", "killed"}
AppFinished == app \in {"ended", "killed"}
AppOver == AppFinished \/ app = "none"
Ended(p) == child[p] \in {"ok", "error", "signal"}

\* The places of the two programs, and how far a child is.
HelperPlaces ==
    {"new", "connecting", "start", "authenticate", "authenticated", "setCred", "openSession",
     "launch", "reporting", "refused", "leaving", "loop", "stopping", "killing", "closing",
     "deleting", "ending", "ended", "killed"}
AppPlaces ==
    {"none", "wayland", "new", "launch", "reading", "setup", "waitXsetup", "loop",
     "stopServer", "killServer", "Xstop", "waitXstop", "leave", "ended", "killed"}
ChildStates == {"none", "running", "failed", "ok", "error", "signal"}

\* handle, cred, open: the transaction, the credentials and the session that PAM
\* has.  m_open is set once.  ignored (history) has the calls of ~HelperApp and
\* ~PamHandle that failed, of which nobody is told.
Pams == [handle: BOOLEAN, cred: BOOLEAN, open: BOOLEAN, m_open: BOOLEAN,
         ignored: SUBSET {"closeSession", "setCred", "end"}]

\* The type of every variable.  Only what was started is killed.
TypeOK ==
    /\ kind \in Kinds
    /\ daemon \in {"idle", "waiting", "gave up"}
    /\ helper \in HelperPlaces /\ app \in AppPlaces
    /\ child \in [Children -> ChildStates]
    /\ display \in BOOLEAN
    /\ term \subseteq Processes /\ doomed \subseteq Processes
    /\ pam \in Pams
    /\ \A p \in doomed \cap Children : child[p] # "none"

Init ==
    /\ kind \in Kinds
    /\ daemon = "idle" /\ helper = "new" /\ app = "none"
    /\ child = [p \in Children |-> "none"] /\ display = FALSE
    /\ term = {} /\ doomed = {}
    /\ pam = [handle |-> FALSE, cred |-> FALSE, open |-> FALSE, m_open |-> FALSE,
              ignored |-> {}]

At(here, there) == app = here /\ app' = there
HelperAt(here, there) == helper = here /\ helper' = there

-----------------------------------------------------------------------------
(***************************************************************************)
(* The daemon, and the helper up to its session: HelperApp::doAuth is one *)
(* slot, in which SIGTERM is not heard.                                   *)
(***************************************************************************)

\* Auth::stop
AuthStop ==
    /\ daemon = "idle" /\ ~HelperOver
    /\ daemon' = "waiting" /\ term' = term \cup {"helper"}
    /\ UNCHANGED <<kind, helper, app, child, display, doomed, pam>>

AuthGivesUp ==
    /\ daemon = "waiting" /\ ~HelperOver
    /\ daemon' = "gave up" /\ doomed' = doomed \cup {"helper"}
    /\ UNCHANGED <<kind, helper, app, child, display, term, pam>>

\* SIGTERM is watched from HelperApp's constructor on, before that it kills.
HelperWatches ==
    /\ IF "helper" \in term THEN HelperAt("new", "killed") ELSE HelperAt("new", "connecting")
    /\ UNCHANGED <<kind, daemon, app, child, display, term, doomed, pam>>

HelperConnects ==
    /\ HelperAt("connecting", "start")
    /\ UNCHANGED <<kind, daemon, app, child, display, term, doomed, pam>>

PamStart ==
    /\ \/ HelperAt("start", "authenticate") /\ pam' = [pam EXCEPT !.handle = TRUE]
       \/ HelperAt("start", "leaving") /\ UNCHANGED pam
    /\ UNCHANGED <<kind, daemon, app, child, display, term, doomed>>

\* pam_authenticate, pam_acct_mgmt and, for an expired password, pam_chauthtok.
\* They may ask the daemon, and end when they like.
Authenticate ==
    /\ HelperAt("authenticate", "authenticated") \/ HelperAt("authenticate", "leaving")
    /\ UNCHANGED <<kind, daemon, app, child, display, term, doomed, pam>>

SetCred ==
    /\ \/ HelperAt("setCred", "openSession") /\ pam' = [pam EXCEPT !.cred = TRUE]
       \/ HelperAt("setCred", "refused") /\ UNCHANGED pam
    /\ UNCHANGED <<kind, daemon, app, child, display, term, doomed>>

\* pam_putenv and pam_open_session
OpenSession ==
    /\ \/ HelperAt("openSession", "launch") /\ pam' = [pam EXCEPT !.open = TRUE, !.m_open = TRUE]
       \/ HelperAt("openSession", "refused") /\ UNCHANGED pam
    /\ UNCHANGED <<kind, daemon, app, child, display, term, doomed>>

\* UserSession::start.  A Wayland greeter that cannot be started counts as
\* started.
StartSession ==
    /\ \/ HelperAt("launch", "reporting") /\ app' = IF kind = "x11" THEN "new" ELSE "wayland"
       \/ HelperAt("launch", "refused") /\ kind # "greeter" /\ UNCHANGED app
       \/ HelperAt("launch", "reporting") /\ kind = "greeter" /\ UNCHANGED app
    /\ UNCHANGED <<kind, daemon, child, display, term, doomed, pam>>

\* The helper has reported that PAM accepts, or whether there is a session, and
\* does nothing but wait for the daemon's answer; Auth::stop blocks the daemon.
DaemonAnswers ==
    /\ daemon = "idle"
    /\ \/ helper = "authenticated" /\ helper' = IF kind = "check" THEN "leaving" ELSE "setCred"
       \/ HelperAt("reporting", "loop")
       \/ HelperAt("refused", "leaving")
    /\ UNCHANGED <<kind, daemon, app, child, display, term, doomed, pam>>

-----------------------------------------------------------------------------
(***************************************************************************)
(* The end of the helper: ~HelperApp                                      *)
(***************************************************************************)

\* The event loop ends: exit() was called, SIGTERM is heard, or the session has
\* finished.  ~HelperApp then stops the session.
Mutant_CloseAtOnce == "closing"
AfterLoop == IF AppOver THEN "closing" ELSE "stopping"
Mutant_OnlySigterm == "helper" \in term
HelperLoopEnds == "helper" \in term \/ AppFinished
HelperQuits ==
    /\ \/ helper = "leaving"
       \/ helper = "connecting" /\ "helper" \in term
       \/ helper = "loop" /\ HelperLoopEnds
    /\ helper' = AfterLoop
    /\ term' = (term \ {"helper"}) \cup (IF AppOver THEN {} ELSE {"app"})
    /\ UNCHANGED <<kind, daemon, app, child, display, doomed, pam>>

\* UserSession::stop waits for the session and kills it at last.
HelperSeesEnd ==
    /\ helper \in {"stopping", "killing"} /\ AppOver
    /\ helper' = "closing"
    /\ UNCHANGED <<kind, daemon, app, child, display, term, doomed, pam>>

Mutant_ServerToo == {"app", "server"}
AfterPatience == {"app"}
HelperGivesUp ==
    /\ helper = "stopping" /\ ~AppOver
    /\ helper' = "killing" /\ doomed' = doomed \cup AfterPatience
    /\ UNCHANGED <<kind, daemon, app, child, display, term, pam>>

\* A call that only logs its failure.
Fails(call) == pam' = [pam EXCEPT !.ignored = @ \cup {call}]

\* PamBackend::closeSession.  Credentials established for a session that could
\* not be opened are not deleted.
Mutant_OnlyWhatRan == pam.m_open /\ app # "none"
HasSession == pam.m_open
HelperCloses ==
    /\ \/ HasSession /\ HelperAt("closing", "deleting") /\ pam' = [pam EXCEPT !.open = FALSE]
       \/ HasSession /\ HelperAt("closing", "deleting") /\ Fails("closeSession")
       \/ ~HasSession /\ HelperAt("closing", "ending") /\ UNCHANGED pam
    /\ UNCHANGED <<kind, daemon, app, child, display, term, doomed>>

\* Whether or not the session could be closed.
DeleteCred ==
    /\ HelperAt("deleting", "ending")
    /\ pam' = [pam EXCEPT !.cred = FALSE] \/ Fails("setCred")
    /\ UNCHANGED <<kind, daemon, app, child, display, term, doomed>>

\* ~PamHandle; a transaction that could not be ended is left as it is.
PamEnd ==
    /\ HelperAt("ending", "ended")
    /\ \/ pam' = [pam EXCEPT !.handle = FALSE]
       \/ pam.handle /\ Fails("end")
    /\ UNCHANGED <<kind, daemon, app, child, display, term, doomed>>

(***************************************************************************)
(* The X11 app: main, XOrgUserHelper::start and stop                      *)
(***************************************************************************)

\* SIGTERM is watched from here on, and heard only in the event loop.
WatchSigterm ==
    /\ "app" \notin term
    /\ At("new", "launch")
    /\ UNCHANGED <<kind, daemon, helper, child, display, term, doomed, pam>>

SigtermUnwatched ==
    /\ "app" \in term
    /\ At("new", "ended")
    /\ UNCHANGED <<kind, daemon, helper, child, display, term, doomed, pam>>

\* startServer; main ignores that it failed and goes into its event loop.
StartServer ==
    /\ \/ At("launch", "reading") /\ child' = [child EXCEPT !["server"] = "running"]
       \/ At("launch", "loop") /\ UNCHANGED child
    /\ UNCHANGED <<kind, daemon, helper, display, term, doomed, pam>>

\* xauth_XXXXXX cannot be created: qFatal
NoAuthority ==
    /\ At("launch", "ended")
    /\ UNCHANGED <<kind, daemon, helper, child, display, term, doomed, pam>>

\* readLine returns with the number: displayChanged starts the client, then
\* the cookie is written, or not.
ReadDisplay ==
    /\ display
    /\ At("reading", "setup") \/ At("reading", "loop")
    /\ \E c \in {"running", "failed"} : child' = [child EXCEPT !["client"] = c]
    /\ UNCHANGED <<kind, daemon, helper, display, term, doomed, pam>>

ReadNothing ==
    /\ ~display /\ Ended("server")
    /\ At("reading", "loop")
    /\ UNCHANGED <<kind, daemon, helper, child, display, term, doomed, pam>>

\* startDisplayCommand.  Its script's failure calls quit(), which does nothing
\* before exec().
StartXsetup ==
    /\ \/ At("setup", "waitXsetup") /\ child' = [child EXCEPT !["Xsetup"] = "running"]
       \/ At("setup", "loop") /\ UNCHANGED child
    /\ UNCHANGED <<kind, daemon, helper, display, term, doomed, pam>>

XsetupEnds ==
    /\ Ended("Xsetup")
    /\ At("waitXsetup", "loop")
    /\ UNCHANGED <<kind, daemon, helper, child, display, term, doomed, pam>>

XsetupTooLong ==
    /\ child["Xsetup"] = "running"
    /\ At("waitXsetup", "loop")
    /\ doomed' = doomed \cup {"Xsetup"}
    /\ UNCHANGED <<kind, daemon, helper, child, display, term, pam>>

\* What ends the event loop: SIGTERM; the client; a server that fails, and a
\* script that was killed, whose finished is only delivered now.  A client
\* that cannot be started emits no finished, and a server may end with 0.
Mutant_OnlyCrashes ==
    "app" \in term \/ Ended("client") \/ child["server"] = "signal"
        \/ ("Xsetup" \in doomed /\ Ended("Xsetup"))
QuitsLoop ==
    "app" \in term \/ Ended("client") \/ child["server"] \in {"error", "signal"}
        \/ ("Xsetup" \in doomed /\ Ended("Xsetup"))

\* aboutToQuit: XOrgUserHelper::stop
AppQuits ==
    /\ QuitsLoop
    /\ IF child["server"] = "none" THEN At("loop", "leave") ELSE At("loop", "stopServer")
    /\ term' = (term \ {"app"}) \cup (IF child["server"] = "running" THEN {"server"} ELSE {})
    /\ UNCHANGED <<kind, daemon, helper, child, display, doomed, pam>>

ServerGone == child["server"] # "running"
ServerStops ==
    /\ ServerGone
    /\ app \in {"stopServer", "killServer"} /\ app' = "Xstop"
    /\ UNCHANGED <<kind, daemon, helper, child, display, term, doomed, pam>>

ServerTooLong ==
    /\ child["server"] = "running"
    /\ At("stopServer", "killServer")
    /\ doomed' = doomed \cup {"server"}
    /\ UNCHANGED <<kind, daemon, helper, child, display, term, pam>>

\* displayFinished
StartXstop ==
    /\ \/ At("Xstop", "waitXstop") /\ child' = [child EXCEPT !["Xstop"] = "running"]
       \/ At("Xstop", "leave") /\ UNCHANGED child
    /\ UNCHANGED <<kind, daemon, helper, display, term, doomed, pam>>

XstopEnds ==
    /\ Ended("Xstop")
    /\ At("waitXstop", "leave")
    /\ UNCHANGED <<kind, daemon, helper, child, display, term, doomed, pam>>

XstopTooLong ==
    /\ child["Xstop"] = "running"
    /\ At("waitXstop", "leave")
    /\ doomed' = doomed \cup {"Xstop"}
    /\ UNCHANGED <<kind, daemon, helper, child, display, term, pam>>

\* main returns: a QProcess kills its process and waits for it when it is
\* destroyed.
Mutant_LetGo(c) == c
Destroyed(c) == [p \in Children |-> IF c[p] = "running" THEN "signal" ELSE c[p]]
AppLeaves ==
    /\ At("leave", "ended")
    /\ child' = Destroyed(child)
    /\ UNCHANGED <<kind, daemon, helper, display, term, doomed, pam>>

-----------------------------------------------------------------------------
(***************************************************************************)
(* The processes started (external), signals                              *)
(***************************************************************************)

ServerWritesDisplay ==
    /\ child["server"] = "running" /\ ~display /\ display' = TRUE
    /\ UNCHANGED <<kind, daemon, helper, app, child, term, doomed, pam>>

ChildEnds(p) ==
    /\ child[p] = "running"
    /\ \E e \in {"ok", "error", "signal"} : child' = [child EXCEPT ![p] = e]
    /\ term' = term \ {p}
    /\ UNCHANGED <<kind, daemon, helper, app, display, doomed, pam>>

\* by itself or on SIGTERM, when it likes
WaylandEnds ==
    /\ At("wayland", "ended")
    /\ UNCHANGED <<kind, daemon, helper, child, display, term, doomed, pam>>

ChildKilled(p) ==
    /\ p \in doomed /\ child[p] = "running"
    /\ child' = [child EXCEPT ![p] = "signal"]
    /\ term' = term \ {p}
    /\ UNCHANGED <<kind, daemon, helper, app, display, doomed, pam>>

AppKilled ==
    /\ "app" \in doomed /\ ~AppOver /\ app' = "killed"
    /\ UNCHANGED <<kind, daemon, helper, child, display, term, doomed, pam>>

HelperKilled ==
    /\ "helper" \in doomed /\ ~HelperOver /\ helper' = "killed"
    /\ UNCHANGED <<kind, daemon, app, child, display, term, doomed, pam>>

-----------------------------------------------------------------------------
Helper ==
    \/ HelperWatches \/ PamStart \/ SetCred \/ OpenSession \/ StartSession \/ DaemonAnswers
    \/ HelperQuits \/ HelperSeesEnd \/ HelperCloses \/ DeleteCred \/ PamEnd
App ==
    \/ WatchSigterm \/ StartServer \/ NoAuthority \/ ReadDisplay \/ ReadNothing
    \/ StartXsetup \/ XsetupEnds \/ AppQuits \/ ServerStops \/ StartXstop \/ XstopEnds
    \/ AppLeaves
TimeLimits == AuthGivesUp \/ HelperGivesUp \/ XsetupTooLong \/ ServerTooLong
              \/ XstopTooLong
Kills == SigtermUnwatched \/ AppKilled \/ HelperKilled \/ \E p \in Children : ChildKilled(p)

Next ==
    \/ AuthStop \/ HelperConnects \/ Authenticate \/ Helper \/ App \/ TimeLimits \/ Kills
    \/ ServerWritesDisplay \/ WaylandEnds \/ \E p \in Children : ChildEnds(p)

Spec == Init /\ [][Next]_vars

\* Programs run, time limits run out and the kernel delivers SIGKILL.  That a
\* server comes up or that anything ends by itself is not assumed.
Fairness ==
    /\ WF_vars(Helper) /\ WF_vars(App)
    /\ WF_vars(AuthGivesUp) /\ WF_vars(HelperGivesUp)
    /\ WF_vars(XsetupTooLong) /\ WF_vars(ServerTooLong) /\ WF_vars(XstopTooLong)
    /\ WF_vars(SigtermUnwatched) /\ WF_vars(AppKilled) /\ WF_vars(HelperKilled)
    /\ \A p \in Children : WF_vars(ChildKilled(p))

FairSpec == Spec /\ Fairness

-----------------------------------------------------------------------------
(***************************************************************************)
(* Properties                                                             *)
(***************************************************************************)

\* An app that was not killed leaves neither X server nor client nor script
\* behind, at whatever point of its start it was told to stop (main's
\* aboutToQuit, the order in which helper and app are destroyed).
NothingLeftBehind == app = "ended" => \A p \in Children : child[p] # "running"

\* A session's process runs within its PAM session only: it is started after
\* pam_open_session and gone before pam_close_session is called, with whatever
\* result (openSession, ~HelperApp), whoever began to stop it and wherever doAuth
\* was.
PamClosedLast == ~AppOver => pam.open /\ "closeSession" \notin pam.ignored

\* Whichever call of PAM or start of a process failed and whenever it was stopped,
\* a helper that was not killed leaves of the session it opened, its credentials
\* and its transaction only what the very call that gives it back refused
\* (closeSession, ~PamHandle); one refusal does not keep the other calls from
\* being made.  Credentials for a session that could not be opened stay.
PamReleased ==
    helper = "ended" =>
        /\ pam.open => "closeSession" \in pam.ignored
        /\ pam.cred => "setCred" \in pam.ignored \/ ~pam.m_open
        /\ pam.handle => "end" \in pam.ignored

\* A session ends with its client, and when its X server fails, also while
\* XOrgUserHelper::start has not returned: the events that arrive meanwhile
\* are not lost.
SessionEndsTogether ==
    Ended("client") \/ child["server"] \in {"error", "signal"} ~> AppOver

\* Once the session's process has ended pam_close_session is called, unless the
\* daemon gave up (Auth::stop kills the helper after 5 s, UserSession::stop
\* waits for 60).
PamClosedInTheEnd ==
    AppFinished ~> ~pam.open \/ "closeSession" \in pam.ignored \/ daemon = "gave up"

=============================================================================
