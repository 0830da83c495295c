---------------------------- MODULE HelperProofs ----------------------------
(***************************************************************************)
(* Safety of what a helper runs.                                           *)
(*                                                                         *)
(* HelperSession: an app leaves nothing behind because every way to its    *)
(* end goes through AppLeaves once it has a child.  The helper starts the  *)
(* app when PAM has opened the session, closes it only after it has seen   *)
(* the app's end, and ends only after it has tried to give back all that   *)
(* PAM has, each call after the other whatever they returned.              *)
(*                                                                         *)
(* GreeterSession, for any number of greeters: units run only on account   *)
(* of a process between its StartUnit and its last StopUnit (Held), and    *)
(* the manager's environment is, step by step, what the one process that   *)
(* runs has made of it (OneEnvironment).                                   *)
(***************************************************************************)
EXTENDS HelperSession, GreeterSession, TLAPS

-----------------------------------------------------------------------------
(***************************************************************************)
(* HelperSession                                                           *)
(***************************************************************************)

\* Before StartServer there is no child (nor has a Wayland session one).
Childless == app \in {"none", "new", "launch", "wayland"} => \A p \in Children : child[p] = "none"

\* Xstop's part of stop() comes after the wait for the server.
StoppedServer == app \in {"Xstop", "waitXstop"} => child["server"] # "running"

\* Xstop runs when the X server is gone (XOrgUserHelper::stop), even if the
\* server ignores SIGTERM.
XstopAfterServer == app = "waitXstop" => child["server"] # "running"

BeforeSession == {"new", "connecting", "start", "authenticate", "authenticated", "setCred",
                  "openSession", "launch"}
AfterSession == {"closing", "deleting", "ending", "ended"}

\* doAuth starts the app last, once the PAM session is open and before anything is
\* given back.
StartedLast ==
    /\ helper \in BeforeSession => app = "none" /\ pam.ignored = {}
    /\ helper = "launch" => pam.open

\* ~HelperApp goes on only once the app is over, and then in order, whatever fails.
SeenEnd == helper \in AfterSession => AppOver
ClosedInOrder ==
    /\ pam.open => pam.m_open
    /\ helper \in {"deleting", "ending", "ended"} =>
           (pam.open => "closeSession" \in pam.ignored)
    /\ helper \in {"ending", "ended"} =>
           (pam.cred => "setCred" \in pam.ignored \/ ~pam.m_open)

HelperInv == StartedLast /\ SeenEnd /\ ClosedInOrder /\ PamClosedLast /\ PamReleased
AppInv == Childless /\ StoppedServer /\ NothingLeftBehind

IInv == TypeOK /\ AppInv /\ HelperInv

LEMMA InitIInv == Init => IInv
<1> SUFFICES ASSUME Init PROVE IInv
  OBVIOUS
<1>1. TypeOK
  BY DEF Init, TypeOK, HelperPlaces, AppPlaces, ChildStates, Pams
<1>2. AppInv
  BY DEF Init, AppInv, Childless, StoppedServer, NothingLeftBehind
<1>3. HelperInv
  BY DEF Init, HelperInv, StartedLast, SeenEnd, ClosedInOrder, PamClosedLast, PamReleased,
         AppOver, BeforeSession, AfterSession
<1> QED BY <1>1, <1>2, <1>3 DEF IInv

\* Steps of the daemon and the helper that leave PAM and the app alone.
LEMMA HelperStep ==
    ASSUME IInv,
           \/ AuthStop \/ AuthGivesUp \/ HelperWatches \/ HelperConnects \/ Authenticate
           \/ DaemonAnswers \/ HelperQuits \/ HelperSeesEnd \/ HelperGivesUp \/ HelperKilled
    PROVE  IInv'
<1> USE DEF HelperAt
<1>1. TypeOK'
  <2>1. CASE AuthStop \/ AuthGivesUp
    BY <2>1 DEF IInv, TypeOK, AuthStop, AuthGivesUp, Children, Processes
  <2>2. CASE HelperWatches \/ HelperConnects \/ Authenticate \/ DaemonAnswers
    BY <2>2 DEF IInv, TypeOK, HelperPlaces, HelperWatches, HelperConnects,
                Authenticate, DaemonAnswers
  <2>3. CASE HelperQuits \/ HelperSeesEnd \/ HelperKilled
    BY <2>3 DEF IInv, TypeOK, HelperPlaces, HelperQuits, AfterLoop, HelperSeesEnd,
                HelperKilled, Processes
  <2>4. CASE HelperGivesUp
    BY <2>4 DEF IInv, TypeOK, HelperPlaces, HelperGivesUp, AfterPatience, Children, Processes
  <2> QED BY <2>1, <2>2, <2>3, <2>4
<1>2. UNCHANGED <<app, child, pam>>
  BY DEF AuthStop, AuthGivesUp, HelperWatches, HelperConnects, Authenticate, DaemonAnswers,
         HelperQuits, HelperSeesEnd, HelperGivesUp, HelperKilled
<1>3. AppInv'
  BY <1>2 DEF IInv, AppInv, Childless, StoppedServer, NothingLeftBehind
<1>4. /\ helper' \in BeforeSession => helper \in BeforeSession
      /\ helper' # "launch" \/ helper = "launch"
      /\ helper' \in AfterSession => helper' = helper \/ (helper' = "closing" /\ AppOver)
  BY DEF AuthStop, AuthGivesUp, HelperWatches, HelperConnects, Authenticate, DaemonAnswers,
         HelperQuits, AfterLoop, HelperSeesEnd, HelperGivesUp, HelperKilled, BeforeSession,
         AfterSession
<1>5. HelperInv'
  BY <1>2, <1>4 DEF IInv, HelperInv, StartedLast, SeenEnd, ClosedInOrder, PamClosedLast,
                    PamReleased, AppOver, AppFinished, AfterSession
<1> QED BY <1>1, <1>3, <1>5 DEF IInv

\* Calls of PAM.
LEMMA PamStep ==
    ASSUME IInv,
           PamStart \/ SetCred \/ OpenSession \/ HelperCloses \/ DeleteCred \/ PamEnd
    PROVE  IInv'
<1> USE DEF HelperAt
<1>1. pam \in Pams /\ pam' \in Pams
  <2>1. pam \in Pams
    BY DEF IInv, TypeOK
  <2>2. CASE PamStart \/ SetCred \/ OpenSession
    BY <2>1, <2>2 DEF PamStart, SetCred, OpenSession, Pams
  <2>3. CASE HelperCloses \/ DeleteCred \/ PamEnd
    BY <2>1, <2>3 DEF HelperCloses, DeleteCred, PamEnd, Fails, Pams
  <2> QED BY <2>1, <2>2, <2>3
<1>2. UNCHANGED <<kind, daemon, app, child, display, term, doomed>>
  BY DEF PamStart, SetCred, OpenSession, HelperCloses, DeleteCred, PamEnd
<1>3. helper' \in HelperPlaces
  BY DEF HelperPlaces, PamStart, SetCred, OpenSession, HelperCloses, DeleteCred, PamEnd
<1>4. TypeOK'
  BY <1>1, <1>2, <1>3 DEF IInv, TypeOK
<1>5. AppInv'
  BY <1>2 DEF IInv, AppInv, Childless, StoppedServer, NothingLeftBehind
<1>6. HelperInv'
  <2> USE DEF HelperInv, StartedLast, SeenEnd, ClosedInOrder, PamClosedLast, PamReleased,
              AppOver, AppFinished, BeforeSession, AfterSession
  <2>1. CASE PamStart \/ SetCred \/ OpenSession
    BY <1>1, <1>2, <2>1 DEF IInv, PamStart, SetCred, OpenSession, Pams
  <2>2. CASE HelperCloses
    BY <1>1, <1>2, <2>2 DEF IInv, HelperCloses, HasSession, Fails, Pams
  <2>3. CASE DeleteCred
    BY <1>1, <1>2, <2>3 DEF IInv, DeleteCred, Fails, Pams
  <2>4. CASE PamEnd
    BY <1>1, <1>2, <2>4 DEF IInv, PamEnd, Fails, Pams
  <2> QED BY <2>1, <2>2, <2>3, <2>4
<1> QED BY <1>4, <1>5, <1>6 DEF IInv

LEMMA StartStep ==
    ASSUME IInv, StartSession
    PROVE  IInv'
<1>1. TypeOK'
  <2>1. helper' \in HelperPlaces
    BY DEF StartSession, HelperAt, HelperPlaces
  <2>2. app' = app \/ app' \in {"new", "wayland"}
    BY DEF StartSession
  <2>3. app' \in AppPlaces
    BY <2>2 DEF IInv, TypeOK, AppPlaces
  <2>4. UNCHANGED <<kind, daemon, child, display, term, doomed, pam>>
    BY DEF StartSession
  <2> QED BY <2>1, <2>3, <2>4 DEF IInv, TypeOK
<1>2. /\ helper = "launch" /\ helper' \in {"reporting", "refused"}
      /\ app = "none" /\ app' \in {"none", "new", "wayland"}
      /\ UNCHANGED <<child, pam>>
  BY DEF IInv, HelperInv, StartedLast, BeforeSession, StartSession, HelperAt
<1>3. AppInv'
  BY <1>2 DEF IInv, AppInv, Childless, StoppedServer, NothingLeftBehind
<1>4. HelperInv'
  BY <1>2 DEF IInv, HelperInv, StartedLast, SeenEnd, ClosedInOrder, PamClosedLast,
              PamReleased, BeforeSession, AfterSession
<1> QED BY <1>1, <1>3, <1>4 DEF IInv

\* The app runs on or ends; PAM and the helper do not change.
LEMMA AppMoves ==
    ASSUME IInv, UNCHANGED <<helper, pam>>, app' = app \/ (~AppOver /\ app' # "none")
    PROVE  HelperInv'
<1>1. AppOver' => AppOver \/ app' \in {"ended", "killed"}
  BY DEF AppOver, AppFinished
<1>2. AppOver => AppOver'
  BY DEF AppOver, AppFinished
<1> QED
  BY <1>1, <1>2 DEF IInv, HelperInv, StartedLast, SeenEnd, ClosedInOrder, PamClosedLast,
                    PamReleased, AppOver, AppFinished

LEMMA ChildStep ==
    ASSUME IInv,
           \/ ServerWritesDisplay
           \/ \E p \in Children : ChildEnds(p) \/ ChildKilled(p)
    PROVE  IInv'
<1>1. TypeOK'
  <2>1. CASE ServerWritesDisplay
    BY <2>1 DEF IInv, TypeOK, ServerWritesDisplay
  <2>2. ASSUME NEW p \in Children, ChildEnds(p) \/ ChildKilled(p)
        PROVE  TypeOK'
    <3>1. PICK e \in {"ok", "error", "signal"} : child' = [child EXCEPT ![p] = e]
      BY <2>2 DEF ChildEnds, ChildKilled
    <3>2. \A q \in Children : child'[q] = IF q = p THEN e ELSE child[q]
      BY <3>1 DEF IInv, TypeOK
    <3>3. child' \in [Children -> ChildStates]
      BY <3>1 DEF IInv, TypeOK, ChildStates
    <3>4. \A q \in doomed \cap Children : child'[q] # "none"
      BY <3>2 DEF IInv, TypeOK
    <3>5. /\ term' \subseteq term
          /\ kind' = kind /\ daemon' = daemon /\ helper' = helper /\ app' = app
          /\ display' = display /\ doomed' = doomed /\ pam' = pam
      BY <2>2 DEF ChildEnds, ChildKilled
    <3>6. term' \subseteq Processes
      BY <3>5 DEF IInv, TypeOK
    <3>7. \A q \in doomed' \cap Children : child'[q] # "none"
      BY <3>4, <3>5
    <3>8. display' \in BOOLEAN /\ pam' \in Pams
      BY <3>5 DEF IInv, TypeOK
    <3> QED BY <3>3, <3>5, <3>6, <3>7, <3>8 DEF IInv, TypeOK
  <2> QED BY <2>1, <2>2
<1>2. UNCHANGED <<app, helper, pam>>
  BY DEF ServerWritesDisplay, ChildEnds, ChildKilled
<1>3. \A p \in Children : /\ child[p] = "none" => child'[p] = "none"
                          /\ child'[p] = "running" => child[p] = "running"
  BY DEF IInv, TypeOK, ServerWritesDisplay, ChildEnds, ChildKilled
<1>4. "server" \in Children
  BY DEF Children
<1>5. AppInv'
  BY <1>2, <1>3, <1>4 DEF IInv, AppInv, Childless, StoppedServer, NothingLeftBehind
<1> QED BY <1>1, <1>2, <1>5, AppMoves DEF IInv

\* Steps of the app up to the end of its event loop.
LEMMA AppStarts ==
    ASSUME IInv,
           \/ WatchSigterm \/ SigtermUnwatched \/ StartServer \/ NoAuthority \/ ReadDisplay
           \/ ReadNothing \/ StartXsetup \/ XsetupEnds \/ XsetupTooLong \/ WaylandEnds
    PROVE  IInv'
<1> USE DEF Children
<1>1. TypeOK'
  <2>1. CASE \/ WatchSigterm \/ SigtermUnwatched \/ NoAuthority \/ ReadNothing \/ XsetupEnds
             \/ WaylandEnds
    BY <2>1 DEF IInv, TypeOK, AppPlaces, WatchSigterm, SigtermUnwatched, NoAuthority,
                ReadNothing, XsetupEnds, WaylandEnds, At
  <2>2. CASE XsetupTooLong
    BY <2>2 DEF IInv, TypeOK, AppPlaces, XsetupTooLong, At, Processes
  <2>3. CASE StartServer \/ ReadDisplay \/ StartXsetup
    <3>1. /\ child' \in [Children -> ChildStates]
          /\ \A p \in Children : child[p] # "none" => child'[p] # "none"
      <4>1. CASE UNCHANGED child
        BY <4>1 DEF IInv, TypeOK
      <4>2. ASSUME NEW p \in Children, NEW c \in {"running", "failed"},
                   child' = [child EXCEPT ![p] = c]
            PROVE  /\ child' \in [Children -> ChildStates]
                   /\ \A q \in Children : child[q] # "none" => child'[q] # "none"
        BY <4>2 DEF IInv, TypeOK, ChildStates
      <4>3. /\ "server" \in Children /\ "client" \in Children /\ "Xsetup" \in Children
            /\ \/ UNCHANGED child
               \/ \E p \in Children, c \in {"running", "failed"} :
                      child' = [child EXCEPT ![p] = c]
        BY <2>3 DEF StartServer, ReadDisplay, StartXsetup
      <4> QED BY <4>1, <4>2, <4>3
    <3> QED BY <2>3, <3>1 DEF IInv, TypeOK, AppPlaces, StartServer, ReadDisplay, StartXsetup, At
  <2> QED BY <2>1, <2>2, <2>3
<1>2. UNCHANGED <<helper, pam>> /\ ~AppOver /\ app' # "none"
  BY DEF WatchSigterm, SigtermUnwatched, StartServer, NoAuthority, ReadDisplay, ReadNothing,
         StartXsetup, XsetupEnds, XsetupTooLong, WaylandEnds, At, AppOver, AppFinished
<1>3. HelperInv'
  BY <1>2, AppMoves
<1>4. AppInv'
  BY DEF IInv, AppInv, Childless, StoppedServer, NothingLeftBehind, WatchSigterm,
         SigtermUnwatched, StartServer, NoAuthority, ReadDisplay, ReadNothing, StartXsetup,
         XsetupEnds, XsetupTooLong, WaylandEnds, At
<1> QED BY <1>1, <1>3, <1>4 DEF IInv

\* Steps from the end of the event loop to the app's end.
LEMMA AppStops ==
    ASSUME IInv,
           \/ AppQuits \/ ServerStops \/ ServerTooLong \/ StartXstop \/ XstopEnds
           \/ XstopTooLong
           \/ AppLeaves \/ AppKilled
    PROVE  IInv'
<1> USE DEF Children
<1>1. CASE AppLeaves
  <2>1. \A p \in Children : child'[p] # "running" /\ (child[p] = "none" => child'[p] = "none")
    BY <1>1 DEF AppLeaves, Destroyed
  <2>2. TypeOK'
    BY <1>1, <2>1 DEF IInv, TypeOK, AppPlaces, ChildStates, AppLeaves, Destroyed, At
  <2>3. AppInv'
    BY <1>1, <2>1 DEF AppInv, Childless, StoppedServer, NothingLeftBehind, AppLeaves, At
  <2>4. HelperInv'
    BY <1>1, AppMoves DEF AppLeaves, At, AppOver, AppFinished
  <2> QED BY <2>2, <2>3, <2>4 DEF IInv
<1>2. CASE AppQuits \/ ServerStops \/ ServerTooLong \/ StartXstop \/ XstopEnds
           \/ XstopTooLong \/ AppKilled
  <2>1. TypeOK'
    <3>1. CASE AppQuits \/ ServerStops \/ XstopEnds \/ AppKilled
      BY <1>2, <3>1 DEF IInv, TypeOK, AppPlaces, AppQuits, ServerStops, XstopEnds,
                       AppKilled, At, Processes
    <3>2. CASE ServerTooLong
      BY <3>2 DEF IInv, TypeOK, AppPlaces, ServerTooLong, At, Processes
    <3>3. CASE XstopTooLong
      BY <3>3 DEF IInv, TypeOK, AppPlaces, XstopTooLong, At, Processes
    <3>4. CASE StartXstop
      <4>1. child' = [child EXCEPT !["Xstop"] = "running"] \/ child' = child
        BY <3>4 DEF StartXstop
      <4>2. child \in [Children -> ChildStates]
        BY DEF IInv, TypeOK
      <4>3. /\ child' \in [Children -> ChildStates]
            /\ \A p \in Children : child[p] # "none" => child'[p] # "none"
        BY <4>1, <4>2 DEF ChildStates
      <4> QED BY <3>4, <4>3 DEF IInv, TypeOK, AppPlaces, StartXstop, At
    <3> QED BY <1>2, <3>1, <3>2, <3>3, <3>4
  <2>2. AppInv'
    BY <1>2 DEF IInv, TypeOK, AppInv, AppQuits, ServerStops, ServerGone, ServerTooLong,
                StartXstop, XstopEnds, XstopTooLong, AppKilled, AppOver, AppFinished, At,
                Childless, StoppedServer, NothingLeftBehind
  <2>3. UNCHANGED <<helper, pam>> /\ ~AppOver /\ app' # "none"
    BY <1>2 DEF AppQuits, ServerStops, ServerTooLong, StartXstop, XstopEnds, XstopTooLong,
                AppKilled, At, AppOver, AppFinished
  <2>4. HelperInv'
    BY <2>3, AppMoves
  <2> QED BY <2>1, <2>2, <2>4 DEF IInv
<1> QED BY <1>1, <1>2

LEMMA NextIInv == IInv /\ [Next]_vars => IInv'
<1> SUFFICES ASSUME IInv, [Next]_vars PROVE IInv'
  OBVIOUS
<1>1. CASE UNCHANGED vars
  <2>1. TypeOK'
    <3>1. /\ kind' = kind /\ daemon' = daemon /\ helper' = helper /\ app' = app
          /\ child' = child /\ display' = display /\ term' = term /\ doomed' = doomed
          /\ pam' = pam
      BY <1>1 DEF vars
    <3>2. display' \in BOOLEAN /\ pam' \in Pams
      BY <3>1 DEF IInv, TypeOK
    <3>3. kind' \in Kinds
      BY <3>1 DEF IInv, TypeOK
    <3>4. child' \in [Children -> ChildStates]
      BY <3>1 DEF IInv, TypeOK
    <3>5. \A q \in doomed' \cap Children : child'[q] # "none"
      BY <3>1 DEF IInv, TypeOK
    <3> QED BY <3>1, <3>2, <3>3, <3>4, <3>5 DEF IInv, TypeOK
  <2>2. AppInv'
    BY <1>1 DEF vars, IInv, AppInv, Childless, StoppedServer, NothingLeftBehind
  <2>3. HelperInv'
    BY <1>1, AppMoves DEF vars
  <2> QED BY <2>1, <2>2, <2>3 DEF IInv
<1>2. CASE \/ AuthStop \/ AuthGivesUp \/ HelperWatches \/ HelperConnects \/ Authenticate
           \/ DaemonAnswers \/ HelperQuits \/ HelperSeesEnd \/ HelperGivesUp \/ HelperKilled
  BY <1>2, HelperStep
<1>3. CASE PamStart \/ SetCred \/ OpenSession \/ HelperCloses \/ DeleteCred \/ PamEnd
  BY <1>3, PamStep
<1>4. CASE StartSession
  BY <1>4, StartStep
<1>5. CASE ServerWritesDisplay \/ \E p \in Children : ChildEnds(p) \/ ChildKilled(p)
  BY <1>5, ChildStep
<1>6. CASE \/ WatchSigterm \/ SigtermUnwatched \/ StartServer \/ NoAuthority \/ ReadDisplay
           \/ ReadNothing \/ StartXsetup \/ XsetupEnds \/ XsetupTooLong \/ WaylandEnds
  BY <1>6, AppStarts
<1>7. CASE \/ AppQuits \/ ServerStops \/ ServerTooLong \/ StartXstop \/ XstopEnds
           \/ XstopTooLong
           \/ AppLeaves \/ AppKilled
  BY <1>7, AppStops
<1> QED
  BY <1>1, <1>2, <1>3, <1>4, <1>5, <1>6, <1>7 DEF Next, Helper, App, TimeLimits, Kills

LEMMA Inductive == Spec => []IInv
BY InitIInv, NextIInv, PTL DEF Spec

\* TypeOK in every behaviour: every process is at a place of its program, and
\* only what was started is ever killed.
THEOREM TypeCorrect == Spec => []TypeOK
BY Inductive, PTL DEF IInv

\* NothingLeftBehind in every behaviour: an app that is not killed takes its
\* X server, its client and its scripts with it.
THEOREM NothingLeft == Spec => []NothingLeftBehind
<1>1. IInv => NothingLeftBehind
  BY DEF IInv, AppInv
<1> QED BY <1>1, Inductive, PTL

\* XstopAfterServer in every behaviour: Xstop starts when the server is gone.
THEOREM XstopLast == Spec => []XstopAfterServer
<1>1. IInv => XstopAfterServer
  BY DEF IInv, AppInv, StoppedServer, XstopAfterServer
<1> QED BY <1>1, Inductive, PTL

\* PamClosedLast in every behaviour: the PAM session encloses its process, which is
\* gone before pam_close_session is called.
THEOREM PamLast == Spec => []PamClosedLast
<1>1. IInv => PamClosedLast
  BY DEF IInv, HelperInv
<1> QED BY <1>1, Inductive, PTL

\* PamReleased in every behaviour: a helper that ends by itself has given back the
\* PAM session, the credentials of a session it opened and the transaction, each
\* unless the call that does it failed, and whatever the calls before it returned.
THEOREM PamOver == Spec => []PamReleased
<1>1. IInv => PamReleased
  BY DEF IInv, HelperInv
<1> QED BY <1>1, Inductive, PTL

-----------------------------------------------------------------------------
(***************************************************************************)
(* GreeterSession                                                          *)
(***************************************************************************)

\* As long as no greeter was lost, a unit that runs or starts has a process
\* that is yet to stop it.
Held ==
    lost = {} /\ (\E u \in Units : unit[u] \in {"starting", "active"}) =>
        \E g \in Greeters : proc[g] \in HasStarted

\* Two processes alive have overlapped.
Counted ==
    \A g, h \in Greeters : Alive(g) /\ Alive(h) /\ g # h => g \in overlapped

\* How far a process that runs alone has come with the environment.
EnvOf(g) ==
    /\ proc[g] = "drop" =>
           \A v \in Vars \ SetBy(g) : env[v] # NoGreeter => v \in varsToDrop[g]
    /\ proc[g] \in {"update", "start"} \cup HasStarted =>
           \A v \in Vars \ SetBy(g) : env[v] = NoGreeter
    /\ proc[g] \in {"start"} \cup HasStarted /\ g \notin unsent =>
           \A v \in SetBy(g) : env[v] = g

OneEnvironment == \A g \in Greeters \ (overlapped \cup unheeded) : Alive(g) => EnvOf(g)

\* Who had the units started has come that far.
StarterHas == starter \in Greeters => proc[starter] \in HasStarted \cup {"ended", "killed"}

GreeterIInv == GreeterTypeOK /\ Held /\ Counted /\ OneEnvironment /\ StarterHas

USE DEF Goes, Over, HasStarted, historyVars

-----------------------------------------------------------------------------
LEMMA GreeterInitIInv == GreeterInit => GreeterIInv
<1> SUFFICES ASSUME GreeterInit PROVE GreeterIInv
  OBVIOUS
<1>1. GreeterTypeOK
  BY GreetersAssumption DEF GreeterInit, GreeterTypeOK
<1>2. Held
  BY DEF GreeterInit, Held
<1>3. \A g \in Greeters : ~Alive(g)
  BY DEF GreeterInit, Alive
<1>4. Counted /\ OneEnvironment
  BY <1>3 DEF Counted, OneEnvironment
<1>5. StarterHas
  BY GreetersAssumption DEF GreeterInit, StarterHas
<1> QED BY <1>1, <1>2, <1>4, <1>5 DEF GreeterIInv

\* A step of one process: where it goes, and that the others stay.
LEMMA Moves ==
    ASSUME GreeterTypeOK, NEW g \in Greeters, NEW here, NEW there, Goes(g, here, there)
    PROVE  /\ proc[g] = here /\ proc'[g] = there
           /\ \A h \in Greeters \ {g} : proc'[h] = proc[h]
BY DEF GreeterTypeOK

LEMMA NothingToDrop ==
    ASSUME GreeterTypeOK, NEW g \in Greeters, varsToDrop' = [varsToDrop EXCEPT ![g] = {}]
    PROVE  /\ varsToDrop' \in [Greeters -> SUBSET SessionVars]
           /\ \A h \in Greeters : varsToDrop'[h] \cap SetBy(h) = {}
BY DEF GreeterTypeOK

\* The end of a process: its own variables, and that it is no longer alive.
LEMMA OverTypes ==
    ASSUME GreeterTypeOK, NEW g \in Greeters, NEW how \in {"ended", "killed"}, IsOver(g, how)
    PROVE  /\ proc' \in [Greeters -> Over \cup HasStarted \cup
                                     {"new", "setup", "drop", "update", "start"}]
           /\ told' \subseteq Greeters /\ quitNow' \subseteq Greeters /\ unsent' \subseteq Greeters
           /\ varsToDrop' \in [Greeters -> SUBSET SessionVars]
           /\ \A h \in Greeters : varsToDrop'[h] \cap SetBy(h) = {}
           /\ overlapped' \subseteq Greeters /\ unheeded' \subseteq Greeters
           /\ overlapped' = overlapped \ {g} /\ proc'[g] = how
           /\ \A h \in Greeters \ {g} : proc'[h] = proc[h]
BY NothingToDrop DEF IsOver, GreeterTypeOK

LEMMA TypeProcess ==
    ASSUME GreeterTypeOK, NEW g \in Greeters, Process(g)
    PROVE  GreeterTypeOK'
<1>1. CASE Start(g) \/ WatchForSigterm(g) \/ EnterLoop(g) \/ LeaveLoop(g)
  BY <1>1 DEF GreeterTypeOK, Start, WatchForSigterm, EnterLoop, LeaveLoop, processVars, managerVars
<1>2. CASE GetSystemdEnvironment(g)
  <2>1. Leftovers(g) \in SUBSET SessionVars /\ Leftovers(g) \cap SetBy(g) = {}
    BY DEF Leftovers
  <2>2. /\ varsToDrop' \in [Greeters -> SUBSET SessionVars]
        /\ \A h \in Greeters : varsToDrop'[h] \cap SetBy(h) = {}
    BY <1>2, <2>1 DEF GreeterTypeOK, GetSystemdEnvironment
  <2>3. unheeded' \subseteq Greeters
    BY <1>2 DEF GreeterTypeOK, GetSystemdEnvironment
  <2> QED BY <1>2, <2>2, <2>3 DEF GreeterTypeOK, GetSystemdEnvironment, managerVars
<1>3. CASE DropSessionVars(g)
  BY <1>3, NothingToDrop DEF GreeterTypeOK, DropSessionVars
<1>4. CASE UpdateEnvironment(g) \/ LateUpdate(g)
  <2>1. Updated(g) \in [Vars -> Greeters \cup {NoGreeter}]
    BY DEF GreeterTypeOK, Updated
  <2> QED BY <1>4, <2>1 DEF GreeterTypeOK, UpdateEnvironment, LateUpdate, JobRuns
<1>5. CASE StartTarget(g) \/ StopTarget(g)
  BY <1>5 DEF GreeterTypeOK, StartTarget, StopTarget, Stopping, processVars
<1>6. CASE StopKwin(g)
  BY <1>6, OverTypes DEF GreeterTypeOK, StopKwin, Stopping
<1>7. CASE Terminate(g) \/ Kill(g)
  <2>1. CASE IsOver(g, "killed")
    BY <1>7, <2>1, OverTypes DEF GreeterTypeOK, Terminate, Kill, managerVars
  <2>2. CASE ~IsOver(g, "killed")
    BY <1>7, <2>2 DEF GreeterTypeOK, Terminate, Kill, managerVars
  <2> QED BY <2>1, <2>2
<1> QED BY <1>1, <1>2, <1>3, <1>4, <1>5, <1>6, <1>7 DEF Process

\* systemd and the units change nothing but the units, and start none.
LEMMA ManagerStep ==
    ASSUME GreeterTypeOK, Manager
    PROVE  /\ UNCHANGED <<proc, processVars, env, starter, historyVars>>
           /\ unit' \in [Units -> {"inactive", "starting", "active", "stopping"}]
           /\ \A u \in Units : unit'[u] \in {"starting", "active"} =>
                                   unit[u] \in {"starting", "active"}
<1> USE DEF GreeterTypeOK, UnitsBecome, Units
<1>1. CASE KwinUp
  BY <1>1 DEF KwinUp
<1>2. CASE KwinFails
  BY <1>2 DEF KwinFails
<1>3. CASE LoginStarts
  BY <1>3 DEF LoginStarts
<1>4. CASE TargetUp
  BY <1>4 DEF TargetUp
<1>5. CASE LoginEnds
  BY <1>5 DEF LoginEnds, StopsIfActive
<1>6. CASE KwinEnds
  BY <1>6 DEF KwinEnds, StopsIfActive
<1>7. ASSUME NEW u \in Units, Stopped(u)
      PROVE  /\ UNCHANGED <<proc, processVars, env, starter, historyVars>>
             /\ unit' \in [Units -> {"inactive", "starting", "active", "stopping"}]
             /\ \A w \in Units : unit'[w] \in {"starting", "active"} =>
                                     unit[w] \in {"starting", "active"}
  BY <1>7 DEF Stopped
<1> QED BY <1>1, <1>2, <1>3, <1>4, <1>5, <1>6, <1>7 DEF Manager

-----------------------------------------------------------------------------
\* The units: only StartTarget starts any, only StopKwin and Kill take a process
\* away from those that hold them.
LEMMA HeldProcess ==
    ASSUME GreeterTypeOK, Held, NEW g \in Greeters, Process(g)
    PROVE  Held'
<1>1. CASE StartTarget(g)
  <2>1. proc'[g] \in HasStarted
    BY <1>1, Moves DEF StartTarget
  <2> QED BY <2>1 DEF Held
<1>2. CASE StopKwin(g)
  <2>1. CASE lost' = lost \cup {g}
    BY <2>1 DEF Held
  <2>2. CASE lost' # lost \cup {g}
    <3>1. \A u \in Units : unit'[u] \notin {"starting", "active"}
      BY <1>2, <2>2 DEF StopKwin, LastStopped, StoppedWith, Refused, Stopping, GreeterTypeOK
    <3> QED BY <3>1 DEF Held
  <2> QED BY <2>1, <2>2
<1>3. CASE StopTarget(g)
  <2>1. \A u \in Units : unit'[u] \in {"starting", "active"} => unit[u] \in {"starting", "active"}
    BY <1>3 DEF StopTarget, Stopping
  <2>2. proc'[g] \in HasStarted
    BY <1>3, Moves DEF StopTarget
  <2> QED BY <1>3, <2>1, <2>2 DEF Held
<1>4. CASE Kill(g)
  <2>1. CASE proc[g] \in HasStarted
    BY <1>4, <2>1 DEF Kill, Held
  <2>2. CASE proc[g] \notin HasStarted
    <3>1. unit' = unit /\ lost' = lost
      BY <1>4, <2>2 DEF Kill, managerVars
    <3>2. \A h \in Greeters : proc[h] \in HasStarted => proc'[h] \in HasStarted
      BY <1>4, <2>2, OverTypes DEF Kill
    <3> QED BY <3>1, <3>2 DEF Held
  <2> QED BY <2>1, <2>2
<1>5. CASE \/ Start(g) \/ WatchForSigterm(g) \/ GetSystemdEnvironment(g) \/ DropSessionVars(g)
           \/ UpdateEnvironment(g) \/ LateUpdate(g) \/ EnterLoop(g) \/ LeaveLoop(g)
  <2>1. unit' = unit /\ lost' = lost
    BY <1>5 DEF Start, WatchForSigterm, GetSystemdEnvironment, DropSessionVars,
                UpdateEnvironment, LateUpdate, EnterLoop, LeaveLoop, managerVars
  <2>2. \A h \in Greeters : proc[h] \in HasStarted => proc'[h] \in HasStarted
    BY <1>5 DEF GreeterTypeOK, Start, WatchForSigterm, GetSystemdEnvironment, DropSessionVars,
                UpdateEnvironment, LateUpdate, EnterLoop, LeaveLoop
  <2> QED BY <2>1, <2>2 DEF Held
<1>6. CASE Terminate(g)
  <2>1. unit' = unit /\ lost' = lost
    BY <1>6 DEF Terminate, managerVars
  <2>2. \A h \in Greeters : proc[h] \in HasStarted => proc'[h] \in HasStarted
    BY <1>6 DEF GreeterTypeOK, Terminate, IsOver
  <2> QED BY <2>1, <2>2 DEF Held
<1> QED BY <1>1, <1>2, <1>3, <1>4, <1>5, <1>6 DEF Process

\* Whatever a process does but start, those alive were alive and had overlapped as
\* they have now.
LEMMA Survivors ==
    ASSUME GreeterTypeOK, NEW g \in Greeters, Process(g), ~Start(g)
    PROVE  /\ Alive(g)
           /\ \A h \in Greeters : Alive(h)' => Alive(h) /\ (h \in overlapped <=> h \in overlapped')
<1>1. CASE \/ WatchForSigterm(g) \/ GetSystemdEnvironment(g) \/ DropSessionVars(g)
           \/ UpdateEnvironment(g) \/ LateUpdate(g) \/ StartTarget(g) \/ EnterLoop(g)
           \/ LeaveLoop(g) \/ StopTarget(g)
  <2>1. overlapped' = overlapped
    BY <1>1 DEF WatchForSigterm, GetSystemdEnvironment, DropSessionVars, UpdateEnvironment,
                LateUpdate, StartTarget, EnterLoop, LeaveLoop, StopTarget
  <2>2. Alive(g) /\ \A h \in Greeters : Alive(h)' => Alive(h)
    BY <1>1 DEF GreeterTypeOK, Alive, WatchForSigterm, GetSystemdEnvironment, DropSessionVars,
                UpdateEnvironment, LateUpdate, StartTarget, EnterLoop, LeaveLoop, StopTarget
  <2> QED BY <2>1, <2>2
<1>2. CASE StopKwin(g) \/ Kill(g) \/ Terminate(g)
  <2>1. Alive(g)
    BY <1>2 DEF StopKwin, Kill, Terminate, Alive
  <2>2. CASE \E how \in {"ended", "killed"} : IsOver(g, how)
    BY <2>1, <2>2, OverTypes DEF Alive
  <2>3. CASE ~\E how \in {"ended", "killed"} : IsOver(g, how)
    <3>1. UNCHANGED <<proc, overlapped>>
      BY <1>2, <2>3 DEF StopKwin, Kill, Terminate
    <3> QED BY <2>1, <3>1 DEF Alive
  <2> QED BY <2>2, <2>3
<1> QED BY <1>1, <1>2 DEF Process

LEMMA CountedProcess ==
    ASSUME GreeterTypeOK, Counted, NEW g \in Greeters, Process(g)
    PROVE  Counted'
<1>1. CASE Start(g)
  <2>1. \A h \in Greeters \ {g} : proc'[h] = proc[h]
    BY <1>1, Moves DEF Start
  <2>2. overlapped \subseteq overlapped'
    BY <1>1 DEF Start
  <2>3. ASSUME NEW h \in Greeters \ {g}, Alive(h)
        PROVE  g \in overlapped' /\ h \in overlapped'
    BY <1>1, <2>3 DEF Start
  <2> QED BY <2>1, <2>2, <2>3 DEF Counted, Alive
<1>2. CASE ~Start(g)
  BY <1>2, Survivors DEF Counted
<1> QED BY <1>1, <1>2

\* The environment: a process that runs alone finds it as it left it.
LEMMA EnvironmentProcess ==
    ASSUME GreeterTypeOK, Counted, OneEnvironment, NEW g \in Greeters, Process(g)
    PROVE  OneEnvironment'
<1> SUFFICES ASSUME NEW h \in Greeters \ (overlapped' \cup unheeded'), Alive(h)'
             PROVE  EnvOf(h)'
  BY DEF OneEnvironment
<1>1. CASE Start(g)
  <2>1. CASE h = g
    BY <1>1, <2>1, Moves DEF Start, EnvOf
  <2>2. CASE h # g
    <3>1. Alive(h)
      BY <1>1, <2>2, Moves DEF Start, Alive
    <3>2. h \in overlapped'
      BY <1>1, <3>1 DEF Start
    <3> QED BY <3>2
  <2> QED BY <2>1, <2>2
<1>2. CASE ~Start(g)
  <2>1. Alive(h) /\ Alive(g) /\ h \notin overlapped
    BY <1>2, Survivors
  <2>2. h = g
    BY <2>1 DEF Counted
  <2>3. CASE StopKwin(g) \/ Kill(g) \/ (Terminate(g) /\ proc[g] = "new")
    <3>1. \E how \in {"ended", "killed"} : IsOver(g, how)
      BY <2>3 DEF StopKwin, Kill, Terminate
    <3> QED BY <2>2, <3>1, OverTypes DEF Alive
  <2>4. CASE Terminate(g) /\ proc[g] # "new"
    <3>1. UNCHANGED <<proc, varsToDrop, unsent, unheeded, env>>
      BY <2>4 DEF Terminate, managerVars
    <3> QED BY <2>1, <2>2, <3>1 DEF OneEnvironment, EnvOf
  <2>5. CASE GetSystemdEnvironment(g)
    <3>1. /\ env' = env
          /\ \/ proc'[g] = "drop" /\ varsToDrop'[g] = Leftovers(g)
             \/ proc'[g] = "update" /\ Leftovers(g) = {}
      BY <2>2, <2>5, Moves DEF GetSystemdEnvironment, managerVars, GreeterTypeOK
    <3>2. \A v \in Vars \ SetBy(g) : v \in SessionVars
      BY DEF Vars, SessionVars, SetBy
    <3> QED BY <2>2, <3>1, <3>2 DEF EnvOf, Leftovers
  <2>6. CASE WatchForSigterm(g)
    BY <2>2, <2>6, Moves DEF WatchForSigterm, EnvOf
  <2>7. CASE DropSessionVars(g)
    <3>1. proc[g] = "drop" /\ proc'[g] = "update" /\ EnvOf(g)
      BY <2>1, <2>2, <2>7, Moves DEF DropSessionVars, OneEnvironment
    <3>2. \A v \in Vars \ SetBy(g) : env'[v] = NoGreeter
      BY <2>2, <2>7, <3>1 DEF DropSessionVars, Unset, EnvOf
    <3> QED BY <2>2, <3>1, <3>2 DEF EnvOf
  <2>8. CASE UpdateEnvironment(g)
    <3>1. proc[g] = "update" /\ proc'[g] = "start" /\ EnvOf(g)
      BY <2>1, <2>2, <2>8, Moves DEF UpdateEnvironment, JobRuns, OneEnvironment
    <3>2. env' = env \/ env' = Updated(g)
      BY <2>8 DEF UpdateEnvironment, JobRuns
    <3>3. \A v \in Vars \ SetBy(g) : env'[v] = NoGreeter
      BY <3>1, <3>2 DEF Updated, EnvOf
    <3>4. g \in unsent' \/ \A v \in SetBy(g) : env'[v] = g
      BY <2>2, <2>8 DEF UpdateEnvironment, JobRuns, Updated, SetBy, Vars
    <3> QED BY <2>2, <3>1, <3>3, <3>4 DEF EnvOf
  <2>9. CASE LateUpdate(g)
    <3>1. proc[g] = "running" /\ proc' = proc /\ env' = Updated(g) /\ g \notin unheeded
      BY <2>2, <2>9 DEF LateUpdate, JobRuns
    <3>2. \A v \in Vars \ SetBy(g) : env'[v] = NoGreeter
      BY <2>1, <2>2, <3>1 DEF Updated, EnvOf, OneEnvironment
    <3>3. \A v \in SetBy(g) : env'[v] = g
      BY <3>1 DEF Updated, SetBy, Vars
    <3> QED BY <2>2, <3>1, <3>2, <3>3 DEF EnvOf
  <2>10. CASE StartTarget(g) \/ EnterLoop(g) \/ LeaveLoop(g) \/ StopTarget(g)
    <3>1. /\ proc[g] \in {"start"} \cup HasStarted /\ proc'[g] \in HasStarted
          /\ env' = env /\ unsent' = unsent /\ unheeded' = unheeded
      BY <2>10, Moves DEF StartTarget, EnterLoop, LeaveLoop, StopTarget, processVars, managerVars
    <3> QED BY <2>1, <2>2, <3>1 DEF EnvOf, OneEnvironment
  <2> QED
    BY <1>2, <2>3, <2>4, <2>5, <2>6, <2>7, <2>8, <2>9, <2>10 DEF Process
<1> QED BY <1>1, <1>2

LEMMA StarterProcess ==
    ASSUME GreeterTypeOK, StarterHas, NEW g \in Greeters, Process(g)
    PROVE  StarterHas'
<1>1. CASE StartTarget(g)
  <2>1. proc'[g] = "entering" /\ \A h \in Greeters \ {g} : proc'[h] = proc[h]
    BY <1>1, Moves DEF StartTarget
  <2>2. starter' = g \/ starter' = starter
    BY <1>1 DEF StartTarget
  <2> QED BY <2>1, <2>2 DEF StarterHas
<1>2. CASE ~StartTarget(g)
  <2>1. starter' = starter
    BY <1>2 DEF Process, Start, WatchForSigterm, GetSystemdEnvironment, DropSessionVars,
                UpdateEnvironment, LateUpdate, EnterLoop, LeaveLoop, StopTarget,
                StopKwin, Terminate, Kill, managerVars, JobRuns
  <2>2. \A h \in Greeters : proc[h] \in HasStarted \cup {"ended", "killed"}
                            => proc'[h] \in HasStarted \cup {"ended", "killed"}
    BY <1>2 DEF Process, GreeterTypeOK, Alive, Start, WatchForSigterm, GetSystemdEnvironment,
                DropSessionVars, UpdateEnvironment, LateUpdate, EnterLoop, LeaveLoop,
                StopTarget, StopKwin, Terminate, Kill, IsOver
  <2> QED BY <2>1, <2>2 DEF StarterHas
<1> QED BY <1>1, <1>2

-----------------------------------------------------------------------------
LEMMA GreeterNextIInv == GreeterIInv /\ [GreeterNext]_greeterVars => GreeterIInv'
<1> SUFFICES ASSUME GreeterIInv, [GreeterNext]_greeterVars PROVE GreeterIInv'
  OBVIOUS
<1>1. ASSUME NEW g \in Greeters, Process(g)
      PROVE  GreeterIInv'
  BY <1>1, TypeProcess, HeldProcess, CountedProcess, EnvironmentProcess, StarterProcess
     DEF GreeterIInv
<1>2. CASE Manager
  <2>1. /\ UNCHANGED <<proc, told, quitNow, varsToDrop, unsent, env, starter, historyVars>>
        /\ unit' \in [Units -> {"inactive", "starting", "active", "stopping"}]
        /\ \A u \in Units : unit'[u] \in {"starting", "active"} => unit[u] \in {"starting", "active"}
    BY <1>2, ManagerStep DEF GreeterIInv, processVars
  <2>2. GreeterTypeOK'
    BY <2>1 DEF GreeterIInv, GreeterTypeOK
  <2>3. Held'
    BY <2>1 DEF GreeterIInv, Held
  <2>4. Counted' /\ OneEnvironment' /\ StarterHas'
    BY <2>1 DEF GreeterIInv, Counted, OneEnvironment, StarterHas, EnvOf, Alive
  <2> QED BY <2>2, <2>3, <2>4 DEF GreeterIInv
<1>3. CASE UNCHANGED greeterVars
  <2>1. GreeterTypeOK'
    BY <1>3 DEF GreeterIInv, GreeterTypeOK, greeterVars
  <2>2. Held' /\ Counted' /\ OneEnvironment' /\ StarterHas'
    BY <1>3 DEF GreeterIInv, Held, Counted, OneEnvironment, StarterHas, EnvOf, Alive, greeterVars
  <2> QED BY <2>1, <2>2 DEF GreeterIInv
<1> QED BY <1>1, <1>2, <1>3 DEF GreeterNext

LEMMA GreeterInductive == GreeterSpec => []GreeterIInv
BY GreeterInitIInv, GreeterNextIInv, PTL DEF GreeterSpec

\* GreeterTypeOK in every behaviour: no process drops a variable it has itself.
THEOREM GreeterTypeCorrect == GreeterSpec => []GreeterTypeOK
BY GreeterInductive, PTL DEF GreeterIInv

\* NothingKept in every behaviour, for any number of greeters on any seats:
\* nothing outlives the last of them, unless one was killed or its last StopUnit
\* was refused or failed.
THEOREM NothingOutlives == GreeterSpec => []NothingKept
<1>1. GreeterIInv => NothingKept
  BY DEF GreeterIInv, GreeterTypeOK, Held, NothingKept, Alive
<1> QED BY <1>1, GreeterInductive, PTL

\* OwnEnvironment in every behaviour: what plasma-login-greeter is started with
\* is what its greeter has set, and nothing of an earlier one, for a greeter that
\* ran alone, has sent its variables and had its own calls about the environment
\* succeed; what failed for those before it does not matter.
THEOREM NoLeftovers == GreeterSpec => OwnEnvironment
<1> DEFINE Shows ==
      unit["login"] = "starting" /\ unit'["login"] = "active"
      /\ starter \in Greeters \ (overlapped \cup unsent \cup unheeded) /\ Alive(starter)
      => env = Own(starter)
<1>1. GreeterIInv => Shows
  <2> SUFFICES ASSUME GreeterIInv, starter \in Greeters \ (overlapped \cup unsent \cup unheeded), Alive(starter)
               PROVE  env = Own(starter)
    OBVIOUS
  <2>1. proc[starter] \in HasStarted /\ EnvOf(starter)
    BY DEF GreeterIInv, StarterHas, OneEnvironment, Alive
  <2>2. /\ \A v \in Vars \ SetBy(starter) : env[v] = NoGreeter
        /\ \A v \in SetBy(starter) : env[v] = starter
    BY <2>1 DEF EnvOf
  <2> QED BY <2>2 DEF GreeterIInv, GreeterTypeOK, Own
<1>2. GreeterIInv => [Shows]_greeterVars
  BY <1>1
<1> QED BY <1>2, GreeterInductive, PTL DEF OwnEnvironment

=============================================================================
