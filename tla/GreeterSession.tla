--------------------------- MODULE GreeterSession ---------------------------
(***************************************************************************)
(* startplasma-login-wayland (src/frontend/startkde): what a greeter's    *)
(* helper runs.  It has the systemd manager of the user plasmalogin start *)
(* the compositor and plasma-login-greeter, waits for SIGTERM and has them *)
(* stopped.  There is one such manager, with one environment and one set  *)
(* of units, for every greeter that ever runs: the one that replaces the  *)
(* last, and the one on another seat.                                     *)
(*                                                                        *)
(* A unit is where its job has brought it: "starting" and "stopping" are  *)
(* jobs under way.  A call of systemd returns when its jobs are queued;   *)
(* in mode "fail" it is refused if it would turn a job under way round.   *)
(* Any call of the manager may fail, too, and is then at most logged.     *)
(* The wallpaper's unit, which the target only wants, is left out.        *)
(*                                                                        *)
(* What HelperSession, the helper that runs this, has under the same name *)
(* is called Greeter... here, so that one module can extend both.         *)
(***************************************************************************)
EXTENDS Integers, FiniteSets

CONSTANTS
    Greeters,   \* greeters the daemon starts, each once
    WithVt,     \* those on seat0, which are given XDG_VTNR
    NoGreeter

ASSUME GreetersAssumption == WithVt \subseteq Greeters /\ NoGreeter \notin Greeters

VARIABLES
    proc,        \* where each greeter's process is
    told,        \* the helpers that have sent SIGTERM
    quitNow,     \* the processes that have been told to leave their event loop
    varsToDrop,  \* what each found to drop
    unsent,      \* whose KUpdateLaunchEnvironmentJob has yet to run
    env,         \* the manager's environment: whose value a variable has
    unit,        \* the manager's units
    starter,     \* history: whose StartUnit was the last to be accepted
    overlapped,  \* history: greeters that run and ran together with another one
    unheeded,    \* history: greeters that run and had not the environment they asked for
    lost         \* history: greeters that could not have the units stopped

greeterVars == <<proc, told, quitNow, varsToDrop, unsent, env, unit, starter,
                 overlapped, unheeded, lost>>
historyVars == <<overlapped, unheeded, lost>>
processVars == <<told, quitNow, varsToDrop, unsent>>
managerVars == <<env, unit, starter>>

Units == {"target", "kwin", "login"}

\* SDDM_SOCKET, and XDG_VTNR for those that are specific to a session
Vars == {"socket", "vt"}
SessionVars == {"vt"}
SetBy(g) == IF g \in WithVt THEN Vars ELSE {"socket"}
Own(g) == [v \in Vars |-> IF v \in SetBy(g) THEN g ELSE NoGreeter]

Over == {"off", "ended", "killed"}
Alive(g) == proc[g] \notin Over
HasStarted == {"entering", "running", "stopTarget", "stopKwin"}

\* The type of every variable.  What is set in a process it does not drop.
GreeterTypeOK ==
    /\ proc \in [Greeters -> Over \cup HasStarted \cup
                             {"new", "setup", "drop", "update", "start"}]
    /\ told \subseteq Greeters /\ quitNow \subseteq Greeters /\ unsent \subseteq Greeters
    /\ varsToDrop \in [Greeters -> SUBSET SessionVars]
    /\ \A g \in Greeters : varsToDrop[g] \cap SetBy(g) = {}
    /\ env \in [Vars -> Greeters \cup {NoGreeter}]
    /\ unit \in [Units -> {"inactive", "starting", "active", "stopping"}]
    /\ starter \in Greeters \cup {NoGreeter}
    /\ overlapped \subseteq Greeters /\ unheeded \subseteq Greeters /\ lost \subseteq Greeters

GreeterInit ==
    /\ proc = [g \in Greeters |-> "off"]
    /\ told = {} /\ quitNow = {} /\ unsent = {}
    /\ varsToDrop = [g \in Greeters |-> {}]
    /\ env = [v \in Vars |-> NoGreeter] /\ unit = [u \in Units |-> "inactive"]
    /\ starter = NoGreeter /\ overlapped = {} /\ unheeded = {} /\ lost = {}

Goes(g, here, there) == proc[g] = here /\ proc' = [proc EXCEPT ![g] = there]

-----------------------------------------------------------------------------
(***************************************************************************)
(* main                                                                   *)
(***************************************************************************)

\* The helper starts it (UserSession::start).
Start(g) ==
    /\ Goes(g, "off", "new")
    /\ LET others == {h \in Greeters : Alive(h)}
       IN overlapped' = IF others = {} THEN overlapped ELSE overlapped \cup others \cup {g}
    /\ UNCHANGED <<processVars, managerVars, unheeded, lost>>

\* createConfigDirectory, setupCursor, signal
WatchForSigterm(g) ==
    /\ Goes(g, "new", "setup")
    /\ UNCHANGED <<processVars, managerVars, historyVars>>

\* The process's own environment is set up; then dropSessionVarsFrom-
\* SystemdEnvironment asks for the manager's environment, and does no more if
\* there is no answer, or not of the type expected.
Mutant_DropAll(g) == {v \in SessionVars : env[v] # NoGreeter}
Leftovers(g) == {v \in SessionVars : env[v] # NoGreeter /\ v \notin SetBy(g)}
GetSystemdEnvironment(g) ==
    /\ \/ /\ Goes(g, "setup", "drop")
          /\ varsToDrop' = [varsToDrop EXCEPT ![g] = Leftovers(g)]
          /\ UNCHANGED unheeded
       \/ /\ Goes(g, "setup", "update")
          /\ unheeded' = IF Leftovers(g) = {} THEN unheeded ELSE unheeded \cup {g}
          /\ UNCHANGED varsToDrop
    /\ UNCHANGED <<told, quitNow, unsent, managerVars, overlapped, lost>>

\* UnsetEnvironment of what it found; an error is ignored.
Mutant_NoneUnset(g) == {}
Unset(g) == varsToDrop[g]
DropSessionVars(g) ==
    /\ Goes(g, "drop", "update")
    /\ \/ /\ env' = [v \in Vars |-> IF v \in Unset(g) THEN NoGreeter ELSE env[v]]
          /\ UNCHANGED unheeded
       \/ /\ varsToDrop[g] # {}
          /\ unheeded' = unheeded \cup {g} /\ UNCHANGED env
    /\ varsToDrop' = [varsToDrop EXCEPT ![g] = {}]
    /\ UNCHANGED <<told, quitNow, unsent, unit, starter, overlapped, lost>>

\* KUpdateLaunchEnvironmentJob, for which syncDBusEnvironment waits in an event
\* loop of its own and whose result it does not look at.  After SIGTERM that loop
\* returns at once, and the job runs in the next one.
Updated(g) == [v \in Vars |-> IF v \in SetBy(g) THEN g ELSE env[v]]
JobRuns(g) ==
    \/ env' = Updated(g) /\ UNCHANGED unheeded
    \/ env # Updated(g) /\ unheeded' = unheeded \cup {g} /\ UNCHANGED env
UpdateEnvironment(g) ==
    /\ Goes(g, "update", "start")
    /\ IF g \in quitNow THEN unsent' = unsent \cup {g} /\ UNCHANGED <<env, unheeded>>
                        ELSE JobRuns(g) /\ UNCHANGED unsent
    /\ UNCHANGED <<told, quitNow, varsToDrop, unit, starter, overlapped, lost>>

LateUpdate(g) ==
    /\ proc[g] = "running" /\ g \in unsent
    /\ JobRuns(g) /\ unsent' = unsent \ {g}
    /\ UNCHANGED <<proc, told, quitNow, varsToDrop, unit, starter, overlapped, lost>>

\* StartUnit of the target.  That it was refused or failed is only logged.
StartTarget(g) ==
    /\ Goes(g, "start", "entering")
    /\ \/ UNCHANGED <<unit, starter>>
       \/ /\ \A u \in Units : unit[u] # "stopping"
          /\ unit' = [u \in Units |-> IF unit[u] = "inactive" THEN "starting" ELSE unit[u]]
          /\ starter' = g
    /\ UNCHANGED <<processVars, env, historyVars>>

\* QCoreApplication::exec forgets a SIGTERM that came before.
EnterLoop(g) ==
    /\ Goes(g, "entering", "running")
    /\ quitNow' = quitNow \ {g}
    /\ UNCHANGED <<told, varsToDrop, unsent, managerVars, historyVars>>

LeaveLoop(g) ==
    /\ g \in quitNow
    /\ Goes(g, "running", "stopTarget")
    /\ UNCHANGED <<processVars, managerVars, historyVars>>

\* StopUnit: with a unit stop those that are bound to it or part of it.
Refused(us) == \E u \in us : unit[u] = "starting"
Stopping(us) == [u \in Units |-> IF u \in us /\ unit[u] = "active" THEN "stopping" ELSE unit[u]]
StoppedWith(u) == IF u = "kwin" THEN Units ELSE {"target", "login"}

StopTarget(g) ==
    /\ Goes(g, "stopTarget", "stopKwin")
    /\ \/ UNCHANGED unit
       \/ ~Refused(StoppedWith("target")) /\ unit' = Stopping(StoppedWith("target"))
    /\ UNCHANGED <<processVars, env, starter, historyVars>>

\* The process is over, and what was its own is gone.
IsOver(g, how) ==
    /\ proc' = [proc EXCEPT ![g] = how]
    /\ told' = told \ {g} /\ quitNow' = quitNow \ {g} /\ unsent' = unsent \ {g}
    /\ varsToDrop' = [varsToDrop EXCEPT ![g] = {}]
    /\ overlapped' = overlapped \ {g} /\ unheeded' = unheeded \ {g}

Mutant_TargetAgain == "target"
LastStopped == "kwin"
StopKwin(g) ==
    /\ proc[g] = "stopKwin" /\ IsOver(g, "ended")
    /\ \/ lost' = lost \cup {g} /\ UNCHANGED unit
       \/ /\ ~Refused(StoppedWith(LastStopped))
          /\ unit' = Stopping(StoppedWith(LastStopped)) /\ UNCHANGED lost
    /\ UNCHANGED <<env, starter>>

(***************************************************************************)
(* The helper stops it: UserSession::stop                                 *)
(***************************************************************************)

\* SIGTERM: sigtermHandler, once signal() has been called
Terminate(g) ==
    /\ Alive(g) /\ g \notin told
    /\ \/ proc[g] = "new" /\ IsOver(g, "killed")
       \/ /\ proc[g] # "new"
          /\ told' = told \cup {g} /\ quitNow' = quitNow \cup {g}
          /\ UNCHANGED <<proc, varsToDrop, unsent, overlapped, unheeded>>
    /\ UNCHANGED <<managerVars, lost>>

\* after 5 s
Kill(g) ==
    /\ Alive(g) /\ g \in told
    /\ IsOver(g, "killed")
    /\ lost' = IF proc[g] \in HasStarted THEN lost \cup {g} ELSE lost
    /\ UNCHANGED managerVars

(***************************************************************************)
(* systemd and the units (external)                                       *)
(***************************************************************************)

UnitsBecome(new) ==
    /\ unit' = [u \in Units |-> IF u \in DOMAIN new THEN new[u] ELSE unit[u]]
    /\ UNCHANGED <<proc, processVars, env, starter, historyVars>>

\* plasma-login-kwin_wayland.service
KwinUp == unit["kwin"] = "starting" /\ UnitsBecome([kwin |-> "active"])

KwinFails ==
    /\ unit["kwin"] = "starting"
    /\ UnitsBecome([kwin |-> "inactive",
                    target |-> IF unit["target"] = "starting" THEN "inactive" ELSE unit["target"]])

\* plasma-login.service is After= the compositor, whether it came up or not.
LoginStarts ==
    /\ unit["login"] = "starting" /\ unit["kwin"] # "starting"
    /\ UnitsBecome([login |-> "active"])

\* the target, with Requires= and BindsTo= both
TargetUp ==
    /\ unit["target"] = "starting"
    /\ unit["kwin"] # "starting" /\ unit["login"] # "starting"
    /\ UnitsBecome([target |-> IF unit["kwin"] = "active" /\ unit["login"] = "active"
                               THEN "active" ELSE "inactive"])

StopsIfActive(u) == IF unit[u] = "active" THEN "stopping" ELSE unit[u]

\* A unit ends by itself: the target is bound to it, and plasma-login.service
\* is PartOf= the target; the compositor is not.
LoginEnds ==
    /\ unit["login"] = "active"
    /\ UnitsBecome([login |-> "inactive", target |-> StopsIfActive("target")])

KwinEnds ==
    /\ unit["kwin"] = "active"
    /\ UnitsBecome([kwin |-> "inactive", target |-> StopsIfActive("target"),
                    login |-> IF unit["target"] = "active" THEN StopsIfActive("login")
                              ELSE unit["login"]])

\* A stop job ends, in the order opposite to After=.
Stopped(u) ==
    /\ unit[u] = "stopping"
    /\ u # "target" => unit["target"] # "stopping"
    /\ u = "kwin" => unit["login"] # "stopping"
    /\ UnitsBecome([w \in {u} |-> "inactive"])

-----------------------------------------------------------------------------
Process(g) ==
    \/ Start(g) \/ WatchForSigterm(g) \/ GetSystemdEnvironment(g) \/ DropSessionVars(g)
    \/ UpdateEnvironment(g) \/ LateUpdate(g) \/ StartTarget(g) \/ EnterLoop(g)
    \/ LeaveLoop(g) \/ StopTarget(g) \/ StopKwin(g)
    \/ Terminate(g) \/ Kill(g)

Manager ==
    \/ KwinUp \/ KwinFails \/ LoginStarts \/ TargetUp \/ LoginEnds \/ KwinEnds
    \/ \E u \in Units : Stopped(u)

GreeterNext == Manager \/ \E g \in Greeters : Process(g)

GreeterSpec == GreeterInit /\ [][GreeterNext]_greeterVars

-----------------------------------------------------------------------------
(***************************************************************************)
(* Properties                                                             *)
(***************************************************************************)

\* When the last greeter's process has ended, the compositor and the greeter
\* are gone or on their way out, unless a process was killed before it could
\* stop them or its last StopUnit was refused or failed (the two StopUnit of
\* main).  Holds however many greeters ran together and whatever ended by itself
\* meanwhile.
NothingKept ==
    (\A g \in Greeters : ~Alive(g)) /\ lost = {} =>
        \A u \in Units : unit[u] \in {"inactive", "stopping"}

\* plasma-login-greeter starts with the variables of the greeter that had it
\* started and with none left over from an earlier one, wherever that one was
\* stopped and whatever calls of that one failed (dropSessionVarsFromSystemd-
\* Environment).  Left out is a greeter that shares the environment because it ran
\* with another one, one that was told to stop before it had sent its variables,
\* and one whose own calls about the environment failed: it goes on as if they had
\* succeeded.
OwnEnvironment ==
    [][unit["login"] = "starting" /\ unit'["login"] = "active"
       /\ starter \in Greeters \ (overlapped \cup unsent \cup unheeded) /\ Alive(starter)
       => env = Own(starter)]_greeterVars

=============================================================================
