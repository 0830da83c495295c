# Specifications of the MEO/Plasma login manager

These modules model the login manager's daemon, its helper processes and its
greeter as they are written under `src/`, check them with TLC on small
instances and prove, with TLAPS, what matters most for every instance.

## 1. The system

| Component | State it keeps | Operations | Hard part |
|---|---|---|---|
| `Display` (`daemon/Display.cpp`) | `m_started`, `m_socket` (QPointer to the greeter's socket), `m_passPhrase`, `m_reuseSessionId`, the VTs, `s_ttyFailures` (static) | `start`, `stop`, `login`, `startAuth`, one slot per signal of `Auth` and `Greeter` | shared members that are read many events after they were written; a 5 s timer; replacement inside its own slots |
| `Auth` (`auth/Auth.cpp`) | user, session path, the helper `QProcess`, the helper's socket, one `AuthRequest` | `start`, `stop`, `setSocket`, `dataPending`, `childExited`, `childError` | a process, a socket and a D-Bus lookup in any order; exit codes and signals share one number |
| Helper (`helper/HelperApp.cpp`, `backend`) | PAM handle, phase of the conversation | `setUp`, `doAuth`, `request`, `authenticated`, `sessionOpened`, exit | blocks in `receive` while it waits for the daemon |
| `PamBackend`/`PamData` | prompts outstanding, the predicted request, `m_sent` | `converse`, `insertPrompt`, `completeRequest`, `getResponse` | batches prompts by predicting what PAM will ask next |
| `Greeter` (`daemon/Greeter.cpp`) | `m_started`, its own `Auth` | `start`, `stop`, `onSessionStarted`, `onHelperFinished` | three different meanings of "running" |
| `SocketServer` | the greeter's sockets | `readyRead`, `loginFailed`, `loginSucceeded`, `informationMessage` | answers go to a socket that may be gone |
| `Seat` | its displays | `createDisplay`, `removeDisplay`, `displayStopped` | runs inside the stopped display's own slot |
| `SeatManager`, `LogindSeat` | two maps by seat name | logind's replies and signals | initial listing against signals of the same events |
| `DisplayManager` | the D-Bus seat and session objects | `AddSeat`, `RemoveSeat` | must follow `SeatManager` |
| `DaemonApp` | first-login lock, session counter | start, restart by systemd | state lost at a restart |
| Greeter UI (`frontend/greeter/qml`) | `GreeterState` shared by a window per screen | submit, answers, time-out, disconnect | several windows, one answer |
| `UserSession`, `xorguserhelper`, `HelperStartX11User` | session process, X server, display command | start, stop, the children's ends | three processes, each may end first |
| `startplasma-login-wayland` (`frontend/startkde`) | nothing of its own; the environment and the units of `plasmalogin`'s systemd manager | `main`, `sigtermHandler`, `syncDBusEnvironment` | every greeter shares the manager; SIGTERM at any point of `main` |
| `SessionModel`, `SessionButton`, `Session` | the list of session files, an index every window copies, the saved file name | `populate`, `indexOfData`, `data`, `Session::create` | the list changes under the index; the daemon looks the file up again |
| Settings page and its helper (`frontend/kcm`) | the page's values, `plasmalogin.conf`, files of the `plasmalogin` account | `load`, `save`, `synchronizeSettings`, `sync`, `reset` | several files, any step may fail; the page goes on while a job runs |

The daemon is one thread with an event loop. Greeter, helpers, X server and
logind are other processes: they talk to it through local sockets, D-Bus and
the ends of child processes. Inside the daemon a signal runs its slots
synchronously, so one event-loop callback, with everything it calls, is one
atomic step; everything between two callbacks may interleave.

`PROJECT.json` lists, at its line, each hazard that follows from this.

## 2. The plan

1. `LoginProtocol`, `LoginDisplay`: the display and everything it talks to
   during a login; all its safety properties and the refinement are proved
   (`LoginDisplayProofs`).
2. `SeatManager`: logind's seats against the daemon's seats and their D-Bus
   objects (`SeatManagerProofs`).
3. `PamConversation`: `converse` and `PamData`, against the prompts PAM sends
   (`PamConversationProofs`).
4. `HelperSession`: a helper's calls of PAM, its session's process, the X server,
   the client and the scripts, and their end (`HelperProofs`).
5. `GreeterUi`: `GreeterState` and the windows of several screens
   (`GreeterUiProofs`).
6. `KcmSettings`: the settings page, its privileged helper and the files they
   leave (`KcmSettingsProofs`).
7. `SeatDisplays`: several displays on a seat, the VTs and the re-entrant stop
   (`SeatDisplaysProofs`).
8. `GreeterSession`: what a greeter's helper runs, over several greeters of one
   systemd manager (`HelperProofs`, with the helper that runs it).
9. `SessionList`: the session files, the menu and the session the daemon opens
   (`SessionListProofs`).

All nine are written and checked and have their safety properties proved. How
the modules meet: `LoginDisplay` composes
display, `Auth`, helper, greeter and seat; what it takes as one step of the helper
is detailed in `PamConversation` (a request) and `HelperSession` (from start to
end), its greeter in `GreeterUi`, `SessionList` and `GreeterSession`, and its one
display on a seat becomes several in `SeatDisplays`.

## 3. LoginDisplay

State and code:

| Variable | Code |
|---|---|
| `daemon` | the process, `DaemonApp::m_firstloginLock`, `Display::s_ttyFailures` |
| `display` | `m_socket` set (`replyTo`), `m_passPhrase`, `m_reuseSessionId`, own or new VT, the queued `displayServerStarted`, pending 5 s timers |
| `auth` | `Auth::Private`: user, `sessionPath`, autologin, the child process, whose connection `socket` is |
| `helper` | the helper started last: how far it is, what it was given, how it ended |
| `wire`, `reply` | the two directions of the helper's socket; each attempt has its own inbound queue, because the previous helper's may still hold messages |
| `greeter` | `Greeter::m_started` and its helper process |
| `ui`, `toDaemon`, `toUi` | the greeter process, its windows and its socket |
| `granted`, `unlocked` | history: what PAM accepted, whose session was unlocked for whom |

A login is an *attempt*; its number stands for its password and its session.
Attempt 0 is the autologin. Each action is one callback: `ReceiveLogin`
(`SocketServer::readyRead` -> `Display::login` -> `startAuth`), `AcceptHelper`,
one `Hear...` per message (`Auth::Private::dataPending` with the `Display` slot
the signal reaches), `HelperFinished`, `GreeterFinished`, `StopGreeterTimer`,
`DropLink`, and so on; and one per step of the helper, of PAM and of the
greeter between two points where they wait. `Display::stop` and
`Seat::displayStopped` are part of the step that causes them (`StopDisplay`).

Assumed: the seat can do TTYs (otherwise both VTs are -1 and the VT property is
void) and holds one display. The logind lookup in `startAuth` may find a session
of that user or not, for any login. Not modelled: wording, environment, the
session's type, `utmp`, the power requests of the greeter.

### Runs

| Run | Question | Result |
|---|---|---|
| `login` | two users, two windows and an automatic login; requests are rejected, sessions refused, any process may fail to start, hang or crash, greeters end with every status the code distinguishes, the daemon restarts | holds, 4.3 million states |
| `login_live` | fair daemon, helper and greeter, requests of one, two and three prompts, no process killed | holds, 90 000 states |
| `login_reuse` | does unlocking a running session start none? | no (finding) |

Bounds. `MaxLogins = 2`: every hazard here is between one attempt and the next,
so two suffice, and the autologin is a third. `MaxRounds = 1` in `login` is one
request to an attempt; the second one, and a message in the middle of a
conversation, come in `login_live`. `slotRequestChanged` answers requests of one or
two prompts; `login_live` also has those of three, as for an expired password, after
which the helper waits for ever and the display with it (the hazard at
`Display.cpp:415`). `Forgotten` is that state: `BlockedHelperIsAnswered` is about every
other helper, and `RejectionIsTold` excuses a rejection after which a forgotten login
keeps its window disabled. `login` needs only the counts that are answered, since an
unanswered helper takes no further step. Signal 1 and exit code 1 are those that collide with
`HELPER_AUTH_ERROR`; exit codes 2, 4 and 5 are the ones the code distinguishes
for a greeter. Users and windows are only compared, so `login` uses symmetry
over both.

`CHECK_DEADLOCK FALSE` in every run: the system may stop. A greeter that
ended with 0, 1 or 3 is not started again, after which, with no helper at work,
nothing happens; and the number of logins is bounded.

Fairness. The event loop serves every ready source, so each daemon callback is
weakly fair on its own; the helper runs its code to the next blocking call; PAM
decides after finitely many rounds (the three outcomes are fair together, none
of them alone); a greeter that is launched comes up or ends. A crash, a
login, a session's end and a failure are never assumed to happen.
`StartDaemon` is fair because systemd starts the service at boot; in
`login_live` nothing makes the daemon exit, so the restart limit of the unit
(`StartLimitBurst=2` in 30 s) plays no part.

### Properties

Each is stated above its definition. The ones worth reading first:
`ResponsesMatchAttempt` (the password of one login never reaches the helper of
another), `UnlocksOwnSession`, `SessionVtApart`, `SessionSurvives`, and
`ImplementsProtocol`, the refinement of `LoginProtocol`. `OneConversation` and
`HelperOwned` are parts of the inductive invariant.

### Proofs

`TypeCorrect`: `Spec => []TypeOK`, one step per action.

`LoginDisplayProofs`: the first inductive invariant, `IInv`, is `TypeOK`, `HelperOwned`,
`OneConversation` and `ResponsesMatchAttempt`. `ResponsesMatchAttempt` is not
inductive by itself: it needs that `m_passPhrase` still belongs to the helper
at work (only `startAuth`, guarded by `isActive`, writes it), that the
child process is the helper (`HelperOwned`), and that no answer is left in the
socket when a new helper starts (`OneConversation`). From it:

* `SecretsSafe`: `Spec => []ResponsesMatchAttempt`;
* `ConversationSafe`: `Spec => []OneConversation`;
* `Refinement`: `Spec => ImplementsProtocol`, by cases on the actions, under the
  mapping `holder <- auth.child`, `stage <- Stage`.

Two more invariants rest on it, each inductive together with `IInv`.

* `OwnSessionUnlocked`: `Spec => []UnlocksOwnSession`. `slotAuthenticationFinished`
  reads `m_reuseSessionId` many events after `startAuth` wrote it, for whichever
  helper's socket is connected, so `UnlockInv` adds two facts: a message its helper
  waits on is the last in its socket, the daemon has not answered it, and the
  helper is still the display's (`QuestionsLast`; a helper that crashed while
  it waited leaves its message behind, and is still the display's until its exit is
  heard); and while there is a helper, `m_reuseSessionId` is unset or its own
  (`ReuseIsOwn`).
* `VtSafe`: `Spec => []VtInv`, and from it `SessionVtOwn`: `Spec => []SessionVtApart`.
  The terminal is chosen once, in `startAuth`, by whether a greeter runs; the
  invariant says why none starts later on the same terminal. A queued
  `displayServerStarted` means that no helper is alive and nobody can have
  sent a login (`QueuedAlone`); so does an autologin, for which nothing is queued
  (`AutologinAlone`), unless PAM rejected it, and then its helper is over before
  the rejection can be read (`RejectedIsOver`); a live helper on the display's own
  terminal has no greeter beside it (`OwnVt`), and outlives no daemon
  (`HelperOfDaemon`).
* `SessionsSurvive`: `Spec => SessionSurvives`, an action property, by cases on the
  actions: a helper with a session goes on or exits, and none replaces it, unless
  a failure of the greeter's helper, which ends the display, waits to be noticed.

Assumed is only `ConstantsAssumption`. Only liveness is not proved.

Seen while modelling and not the subject of a run: `startAuth` returns without a
message while the rejected helper's exit is still unnoticed (`Display.cpp:267`),
though the greeter has shown the rejection and is enabled again, so a login sent
in that moment leaves its window disabled; the greeter saves the user of
the *last* submission when a success arrives (`GreeterState.qml:154`), which with
two windows need not be the one accepted; and a session whose own exit code is 1 is
taken for a rejected password (`HelperApp.cpp:169`), so that its display stays
without a greeter (`Display.cpp:403` wants this for authentication errors only).

## 4. SeatManager

| Variable | Code |
|---|---|
| `logind` | logind's own seats: there, `CanGraphical` |
| `calls`, `bus` | D-Bus calls logind has not served; replies and signals the daemon has not handled, in the order logind sent them |
| `manager` | how far `SeatManager::initialize` is: `new`, `asked` (`ListSeats` sent, the match rules not at the bus yet), `ready`; or `alone` without logind |
| `watchers`, `system` | the `LogindSeat` objects ever made for a name; `m_systemSeats`, which of them is the known one |
| `seats` | `made`: the `Seat` objects ever made for a name, each as its number of displays (0 once deleted); `current`: `m_seats`; `dbus`: `DisplayManager`'s seat objects |
| `events` | bound |
| `early`, `missed` | history, for the excluded cases below |

One action per callback (`HearSeatNew`, `HearSeatRemoved`, `HearListed`,
`HearChanged`, `HearGot`, `HearFailed`, `HearSecureAttentionKey`,
`DBusSwitchToGreeter`, `DisplayStopped`), the rest is logind and the bus.
Objects are numbered because `QHash::insert` replaces without deleting: the object
that was replaced goes on reacting to signals, which is what matters here.

| Run | Question | Result |
|---|---|---|
| `seats` | seats come, go and change during start-up and afterwards | holds, 1.4 million states |

`OneSeatEach`, about the `Seat` and the D-Bus objects of each seat, leaves out seats of `early`, announced while
older news of them (the `ListSeats` reply, a removal) was still on its way:
those get two `LogindSeat` objects, and a second `Seat` that `m_seats` forgets and
that outlives the seat, although `SeatManager.h:53` says of them that "these will
exist only for graphical seats".
`SettledAgreement` holds for them too. Both leave out seats of `missed`:
`initialize` calls `ListSeats` before it connects `SeatNew`, and a seat that
changes between the answer and the arrival of the match rule is not noticed.
Two seats and five events are enough for a seat to be listed, announced twice,
changed and removed while another seat does something too. The run does not check
deadlock: when the events are used up and the queues are empty nothing is left
to do.

Proofs (`SeatManagerProofs`), for any finite set of seats and any bounds. Neither
property says anything of a message on its way, so neither is inductive. `IInv`, about
every message in the queue, has these parts:

- `Wired`, `StartUp`: replies are to a `LogindSeat` there has been; the `ListSeats`
  call is the first and is answered once, and no signal of a seat that comes or goes
  is sent before the match rules are at the bus.
- `Heard`, of a seat not in `missed`. What is gone is forgotten or its removal is the
  last news of it (`GoneKnown`); what is there is known, listed later or announced
  after its last removal (`ThereKnown`); nothing is told of a seat before it is announced
  (`NothingUnknown`); until the list is handled there is one `LogindSeat` of a seat
  (`OneBeforeListed`); the news a `LogindSeat` will hear after its own reply
  ends with the value logind has (`Faithful`). Then either `m_seats` and the
  signals on their way bring the seat to that value (`InStep`), or a `LogindSeat` agrees
  with `m_seats` now and its reply, which is still to come, corrects both
  (`WillBeCorrected`). The second is what there is before the first reply, when a new
  `LogindSeat` and `m_seats` both say "not graphical" whatever logind has.
- `Announced`, of a seat in neither `early` nor `missed`: it has one `LogindSeat` with
  the value shown (`OneWatcher`), one announcement or one removal on its way
  (`OneAnnouncement`), and between two messages that make it graphical one that takes
  that back (`Cleared`), so `createSeat` does not run twice.
- `OneObject`: of such a seat the `Seat` that runs is the one in `m_seats`, and the D-Bus
  list holds it once, or else not at all.

The proof has a lemma for each part when a message is sent (`FaithfulSent`, ...) and when
one is taken (`FaithfulTaken`, ...), lemmas about the seats' operators (`Created`,
`Removed`, `Redisplayed`), and one lemma per action. `ObjectsRemoved` is about the loop of
`RemoveSeat`: a walk over a list that shrinks under it removes an object that is listed once
and leaves the objects of other seats alone, by induction over the positions. From
`IInv` `SeatTypeCorrect`, `SeatOnce` and `Settles`.

## 5. PamConversation

| Variable | Code |
|---|---|
| `data` | `PamData`: the prompts of `m_currentRequest` with their responses, `m_sent` |
| `phase` | inside PAM (`idle`), in `HelperApp::request` (`asking`), `failed`, `crashed` |
| `batch`, `answers` | the messages of the last `converse` call and what PAM got for each |
| `used`, `twice` | history: responses given to PAM, and whether one was given again |
| `round` | bound on the conversations; it also numbers the requests |

A PAM message is its style, the words `detectPrompt` looks for, and a text that
tells it from others. `Converse` is one call up to the request or, if no request
is needed, to its end; `DaemonReplies` is `Display::slotRequestChanged`,
`completeRequest` and the rest of the call; `DaemonGone` is the lost connection.

`converse` stores the responses through `resp[i]->resp`, where `resp` points to
one pointer. For a second message that is undefined: the model lets it crash or
write somewhere harmless, and in either case PAM's array keeps its null
(`GiveToPam`).

| Run | Question | Result |
|---|---|---|
| `pam` | any messages, one or two at a time, three conversations | holds, 23 000 states |

Three conversations are what it takes to have prompts guessed, answered, thrown
away and asked again; two messages in one conversation is where predictions are
switched off. The words are the combinations `detectPrompt` tells apart. The
conversations are bounded, so the run may stop and does not check deadlock.

`LoginPromptsAnswered` is about names and login passwords: the helper asks no
more than the daemon answers, and each goes to its prompt. It is about
conversations of at most two messages: a module that sends three login prompts
that differ in one call gets a request of three, which `slotRequestChanged` does
not answer, and the helper waits for ever. For password
changes the daemon decides by the number of prompts: asked for a new password
only (`CHANGE_NEW`, `CHANGE_REPEAT`) it sends the user's name first. The hazard is
listed at `Display.cpp:415`.

Proofs (`PamConversationProofs`), for any messages and any number of them in a
conversation. `OneAnswerOneUse` needs to know where every response is: `IInv` adds
that the prompts stored hold pairwise different responses, none unless the request
was sent (`Sound`), that these are not among those given to PAM and belong to
this request or an earlier one (`Fresh`), and that what PAM was given before a
question is older than the reply to it (`Asked`). From it `TypeCorrect` and
`AnswersUsedOnce`. The two loops of `converse` are recursive functions over the
messages. That these are defined, and that what one turn of the loop keeps the
whole loop keeps, is proved from well-founded sets (`Recursion`, `HeardSound`,
`AnsweredSound`), with no induction principle over an operator.

`LoginAnswered` is `Spec => []LoginPromptsAnswered`, from the invariant
`AnsweredInv`. Between conversations (`Idle`) the helper holds either a request that
was sent, whose login prompts have responses of the right kind, or one not sent,
which is empty or the guess about a new password. While the daemon is asked, a
request made for one message (`Request`) has the guessed order, user's name before
password, which is the order `slotRequestChanged` answers in, or is about a new
password; one made for several messages, where nothing is guessed, has at most one
prompt for a name and one for a password, each of a message of this conversation
(`Single`, `OfMessages`), so the second loop uses up all of them (`OwnLeft`) and
none with a response of the wrong kind is kept for the next conversation. Without that last
fact the property is not inductive: two messages in the order password, user's
name are answered in the wrong order, and only because both answers are used at
once no later single prompt finds one.

Seen while modelling: `handleInfo` (`PamBackend.cpp:150`), told that a password has
to be changed, replaces a request that was already answered and leaves `m_sent`
on. PAM's question for the current password then finds a predicted prompt that
counts as sent, and gets an empty response without anybody having been asked.

## 6. HelperSession

A helper from its start until everything is gone: `plasmalogin-helper` with its
calls of PAM, its child (for X11 `plasmalogin-helper-start-x11user`, for Wayland
the session or the greeter itself), and the X11 app's own children.

| Variable | Code |
|---|---|
| `kind` | what the helper was started for: an X11 or Wayland session, a greeter, or a check of a password only |
| `daemon` | `Auth::stop`: `idle`, `waiting` for the helper, `gave up` after 5 s |
| `helper` | where `plasmalogin-helper` is: the calls of `doAuth` up to `reporting` (`sessionOpened` waits for the daemon's answer), `loop`, `stopping` and `killing` (`UserSession::stop`), `closing`, `deleting` and `ending` (PAM), `ended`, `killed` |
| `app` | where the app's `main` is, one value for each place it waits at |
| `child` | X server, client, Xsetup and Xstop: `none`, `running`, `failed` to start, or how it ended |
| `display` | the server has written its number to the pipe |
| `term`, `doomed` | processes with SIGTERM or SIGKILL on its way |
| `pam` | the transaction, the credentials and the session PAM has, `PamHandle::m_open`, and the closing calls that failed (`ignored`) |

One action per step between two points where a program waits or a call may fail.
`doAuth` runs inside one slot, so SIGTERM, which kills before the helper's
constructor has watched it, is heard only after it. `startServer` is
`StartServer` and then `ReadDisplay` or `ReadNothing`, since the server may end in
between; `ServerStops` and `ServerTooLong` are the two ends of the wait in
`XOrgUserHelper::stop`. `pam_close_session`, the deletion of credentials and `pam_end`
may fail too: the code logs that and goes on (`Fails`). A time limit may run out at any moment, and what a child
does by itself (`ChildEnds`) may happen at any moment. The ends of children and
SIGTERM are heard in the event loop only (`QuitsLoop`).

| Run | Question | Result |
|---|---|---|
| `helper` | any call of PAM fails, any of the processes ends, fails, hangs, is stopped or killed first, for each kind of session | holds, 468 000 states |

There is nothing to bound: each process of a session runs once.

Fairness. The two programs run their code, the time limits they set run out,
and SIGKILL takes effect. No server, client, script or Wayland session is assumed
to end by itself or to obey SIGTERM, and PAM may take for ever to authenticate.
Under this, `PamClosedInTheEnd` says that `pam_close_session` is called once the
session's process is over. The daemon's `Auth::stop` waits for 5 s, then kills;
`UserSession::stop` on its side waits up to 60 s, so a helper stopped while its
session hangs is killed while it waits, and its PAM session is not closed.
`PamClosedInTheEnd` leaves that case out, and the hazard at `UserSession.cpp:86`
states it. The run does not check deadlock: a session ends.

Two things run on until the session is stopped, since the code asks for no quit:
an X server that ends with 0 and a client that cannot be started.
`SessionEndsTogether` is about the ends that do quit. `PamReleased` does not say that
everything is given back, for which the code makes no provision, but that whatever is
left is left by the refusal of the very call that gives it back, and that one refusal
does not keep the next call from being made.

Proofs (the first part of `HelperProofs`). The inductive invariant `IInv` joins the type
invariant, `NothingLeftBehind`, `PamClosedLast` and `PamReleased` with five facts
that tie positions in the code to what is running and open: an app that has not
begun has no child (`Childless`), after the wait in `stop` the server is gone
(`StoppedServer`), `doAuth` starts the app last and with the session open
(`StartedLast`), a helper past the wait has seen the app's end (`SeenEnd`), and
it has tried to close the session before it deletes the credentials and ends the handle
(`ClosedInOrder`). From it `TypeCorrect`, `NothingLeft`, `XstopLast`, `PamLast` and
`PamOver`. The two liveness properties are only model-checked.

Seen while modelling. Credentials that were established for a session that then
cannot be opened are not deleted (`PamBackend.cpp:274`). A Wayland session that
cannot be started counts as started, and its helper waits until its display is
stopped (`UserSession.cpp:73`).

## 7. GreeterUi

| Variable | Code |
|---|---|
| `shared` | `GreeterState`: `loginState`, `userListIndex` (`user`, and `follows`: whether its binding to `StateConfig` is still there), the passwords, `activeWindow`, `beyondUserLimit` |
| `windows` | for each screen: whether it has a window, whether the prompt is on the stack, `mainStack.enabled`, and the boxes of the two `Login` items |
| `timer` | `greeterTimeoutTimer.running` |
| `config` | `StateConfig.lastLoggedInUser` |
| `requests`, `link` | requests sent and not answered; the socket |
| `sent` | history: the last request |

QML delivers a property change to every handler before the assignment returns.
So one input event, with all the windows it reaches, is one action, and the
interleavings are those of events of different windows, screens that come and go,
the timer and the daemon's answers. A password is the name of the user who was
selected, or whose name was there, when it was typed: all the properties need.

| Run | Question | Result |
|---|---|---|
| `greeter_ui` | two screens, two users, with and without a user list | holds, 423 000 states (before symmetry 1.7 million) |

Two windows are what every hazard here takes: one that acts and one that should
follow. `MaxRequests = 1` bounds the requests waiting; a second one only disables
another window. Screens and users are only compared, hence the symmetry. The
run does not check deadlock: with all screens unplugged and no request nothing
but a new screen can follow, and that is not the code's to promise.

Left out: the session menu (`SessionList`), the dialog of
the power actions after it has cleared the boxes, focus, and the user list's own
key handling, which belongs to Breeze and not to this repository:
`PasswordForListedUser` is about the ways to choose a user that `Login.qml` has.

Proofs (`GreeterUiProofs`), for any screens and users. The boxes of the windows
shown agree with `GreeterState` only because the others hold no password that
could come back: a screen without a window, and a prompt that is not on the stack,
have empty boxes (`Hidden`). That a submitted password is the listed user's needs
that the one still in the list is (`ListedOwn`), as long as no answer came late.
`IInv` is these two with `TypeOK`, `BoxesAgree`, `TimerWaits` and
`PasswordForListedUser`. The handlers that call each other are proved one by one
about any pair of a shared state and windows that agree (`Good`). From `IInv`:
`TypeCorrect`, `CopiesAgree`, `NoTimeoutOverPassword`, `PasswordOfListedUser`, and the
action property `ClearedEverywhere`.

Seen while modelling. `docs/MEO_SESSION_ENTRY_CONTRACT.md:40` wants the credential
fields cleared on a change of user or session, the removal of a screen, the
greeter's time-out and the loss of the backend; the code clears them on Escape,
before a power action, between list and prompt, and on a click on a user
(`CancelClears`). A window plugged in while the others show the prompt starts
with the list, and its "Other..." does nothing since `loginState` does not
change; nor does a password typed into that list keep the timer from hiding the
window, since `GreeterState.qml:79` goes by `loginState` alone. When the active screen is
removed no window becomes active. With no list, the time-out hides a prompt while its
password is typed. `TimerWaits` leaves both out and says so: it is about windows that
show what `loginState` says, with a list.

## 8. KcmSettings

| Variable | Code |
|---|---|
| `page` | the KCM: open, the values shown, the values loaded, `needsSave` |
| `mine` | the user's own configuration files |
| `jobs`, `helper`, `answers` | `KAuth` jobs not begun; the one at work, where it is and what went wrong in it unheeded (`ignored`); results on their way to the page |
| `disk` | `plasmalogin.conf`; in the home directory of `plasmalogin` the wallpapers, the copied files, the entries root owns and those that are symbolic links |
| `last` | history: the last save and the last sync or reset, whether it succeeded, and what went wrong in it unheeded |
| `bound` | bounds |

One action per slot of the page and per step of the helper after which it may
stop: `save` opens, which empties, the configuration (`BeginSave`), writes it or
finds it too large, looks for the home directory, takes back what root owns
(`AdjustOwnership`), forks, and copies the picture. Settings other than the picture
are one value; a picture is one file, a name with the place it is at.

Two kinds of failure are kept apart. Those that end the job are actions or disjuncts
of their own (`JobRefused`, `ConfigTooLarge`, `NoHome`, `NoChild`, `CopyFails`). The
others the code passes over and the job succeeds: the configuration or the picture is
written short (`plasmaloginauthhelper.cpp:313`, `:405`), a picture has no descriptor
because the page could not open it (`kcm.cpp:182`) and becomes an empty file
(`:389`), a copied file cannot be opened (`:218`) or written to its end, old files
cannot be removed (`:341`, `:272`), a symbolic link keeps its owner (`:118`). The
constant `Faults` says which of them an instance has.

| Run | Question | Result |
|---|---|---|
| `kcm` | two pictures, a copied file with two contents, two jobs and two changes in any order, a home directory with any entries of root's and any links, every failure | holds, 4.9 million states |
| `kcm_picture` | does a saved picture stay when other settings are saved? | no (finding) |

Two jobs let one be at work and one wait, or each follow the other, and what earlier
jobs leave is on disk only; two changes make the second job different from the first.
`kcm_picture` has three jobs. Pictures and contents are only compared (`Symmetry`).
Entries of root stand for a directory with a file, and one without. The page may be
closed for good, so the runs do not check deadlock.

`kcm_picture`, in which nothing fails: when a picture has been saved, the configuration
names the greeter's copy. The page, opened again, cannot read that copy, whose directory
is 0750 (`services/plasmalogin-tmpfiles.conf.in:2`). A save of any other setting
then lists the picture without a descriptor, and the helper removes the old
directory, creates an empty file and succeeds.

`LastJobHolds` is about the files that were given. For one that was not, `sync` calls
`remove()` on the directory (`plasmaloginauthhelper.cpp:212`), so a copy made earlier
stays, although the comment above says "remove any existing config as it does not exist
in the user's config folder": the model does what the code does (`Created`).

Proofs (`KcmSettingsProofs`), for any pictures, contents, bounds and faults. What the
helper leaves is right because of what is on its way to it: every job, waiting or at
work, names in its configuration the installed copy of the picture it brings
(`AllWellMade`), and the job at work is the last of its kind, has not succeeded
yet, and has its configuration on disk once it is past `write`, unless that was written
short (`AtWork`). With these `TypeOK`, `OwnedByGreeter`, `ChosenPictureInstalled` and
`LastJobHolds` are inductive, one lemma for each step of the page and of the helper:
`TypeCorrect`, `HomeIsGreeters`, `PictureInstalled`, `LastJobWins`. Each says what the
code's success amounts to: what was passed over is excepted, file by file, and nothing
else.

Left out: a wallpaper package, which is several files; `.cache`, which `reset` removes
as well; the permissions `save` gives `plasmalogin.conf`.

## 9. SeatDisplays

| Variable | Code |
|---|---|
| `displays` | `Seat::m_displays` |
| `disp` | each display: `vt` and `sessionVt` (`m_terminalId`, `m_sessionTerminalId`), how far its greeter is, how far its helper is (`auth`), `autologin`, `user`, whether a session is set (`path`), whose session `m_reuseSessionId` is (`reuse`) |
| `active` | the terminal in the foreground |
| `quietEnds` | bound |

`LoginDisplay` follows one display through a login; here a display is its
terminals, and there are several. A greeter or session is known to logind
("opened") before its process has its terminal ("up", "session"): `isTtyInUse` asks
logind, `VT_OPENQRY` the kernel, and they need not agree in between.
`DisplayStopped` is the whole slot, `Stop` the one or two times it runs when
`Display::stop` waits for a helper.

| Run | Question | Result |
|---|---|---|
| `seat_displays` | two users, three displays, three terminals, any order of switches, logins, failures and ends | holds, 2.1 million states |

Three displays, because the one that goes, the one whose session it unlocked
and the last one listed may all differ. Three terminals are enough for each
to have its own, and too few when a login at PAM wants another: then none
is free and the one in the foreground is taken. The names of displays that are
gone are used again, so the history is unbounded. `MaxQuietEnds` bounds helpers
that end with a status `Display` and `Greeter` do nothing about, which leave a
display with nothing on it. Names and users are only compared (`Symmetry`); a new
display may have any free name. Nothing need happen on a seat, so deadlock is
not checked.

Proofs (`SeatDisplaysProofs`), for any users, terminals and number of names. A state
between two calls is `Sound`: a display is listed once, and what is not listed is
nothing. That carries `Seat::displayStopped` through its own re-entrant call:
`CreatedFrom` states what `createDisplay` leaves, `StoppedFrom` what one run of the
slot leaves (the others as they were, a display listed, and the reused session or
else the last display shown), and since it is stated of any sound state it
holds for the second run on what the first one left. Every step then either keeps
all the displays (`StepKeeps`) or is the end of one (`StepStops`), which gives
`TypeCorrect` and the two action properties, `ReusedShown` and `LastIsShown`.

Left out: `autologinRelogin`, the end of the daemon after six tty failures (both
in `LoginDisplay`'s part), terminal modes, failing `ioctl`s, and `startDisplay`'s
attempts, since `Display::start` never fails.

Seen while modelling. The last display is switched to whatever it
shows (`Seat.cpp:138`); if its login is at PAM that is a terminal nobody has
opened yet, which is why `FollowsLast` leaves it out. The 5 s timer stops a greeter somebody has switched back to
meanwhile. The secure attention key, pressed before logind knows the first
greeter's session, makes a second display on the same VT, one of whose
greeters then fails. A reused session that has ended meanwhile gives
`jumpToVt(0)`, and no switch.

## 10. GreeterSession

What the helper of a greeter runs, `startplasma-login-wayland`, has the systemd
manager of the user `plasmalogin` start the compositor and
`plasma-login-greeter`. There is one manager for all greeters.

| Variable | Code |
|---|---|
| `proc` | where each greeter's `main` is |
| `told`, `quitNow` | SIGTERM sent; heard by `sigtermHandler` and not yet forgotten by `exec` |
| `varsToDrop`, `unsent` | `dropSessionVarsFromSystemdEnvironment` between its two calls; a `KUpdateLaunchEnvironmentJob` that has not run |
| `env`, `unit` | the manager's environment (whose value a variable has) and units |
| `starter`, `overlapped`, `unheeded`, `lost` | history: whose `StartUnit` was accepted last; greeters that ran together; greeters one of whose own calls about the environment failed; greeters that were killed or refused before they could stop the units |

One action per call of `main` that others can come between. Each call of the manager
may fail: without an answer about the environment nothing is dropped
(`startplasma.cpp:391`), an `UnsetEnvironment` that fails is ignored (`:410`), the
result of the update is not looked at (`:431`), and a `StartUnit` or `StopUnit` that
fails is logged like one that is refused. Two variables
stand for the environment: `SDDM_SOCKET`, which every greeter sets, and `XDG_VTNR`,
which only one on `seat0` does (`Greeter.cpp:104`) and which `isSessionVariable`
names. The units follow `plasma-login-wayland.target`,
`plasma-login-kwin_wayland.service.in` and `plasma-login.service.in`; what systemd
does with them (jobs, mode `fail`, `BindsTo=`, `PartOf=`, `After=`) is external and
modelled as far as these files use it. The wallpaper's unit is only wanted by the
target and left out.

| Run | Question | Result |
|---|---|---|
| `greeter_session` | three greeters, two with a terminal, one after another and at once, stopped or killed anywhere, while units fail and end and calls of the manager fail | holds, 1.8 million states |

Three greeters let one leave variables, one run beside another and one follow.
Each runs once, so the run may stop and does not check deadlock. Greeters are only
compared, those with a terminal and those without (`SameKind`).

Proofs (the second part of `HelperProofs`, which extends `HelperSession` and
`GreeterSession`), for any set of greeters. `GreeterIInv` joins the type invariant with
four facts: while no greeter is in `lost`, a unit that starts or runs has a process that
is yet to stop it (`Held`); two processes alive are both in `overlapped` (`Counted`); at
each place of `main` the environment is what the one process that runs has made of it
(`OneEnvironment`); and whose `StartUnit` was accepted last has come that far
(`StarterHas`). From it `GreeterTypeCorrect`, `NothingOutlives` and `NoLeftovers`, the
last because the environment is right in every state in which the greeter's unit may
start. `OwnEnvironment` excepts a greeter whose own calls failed, for it goes on as if
they had not; a failure of an earlier greeter is not excepted, since the next one drops
what that one left.

Seen while modelling. The comment at `startplasmalogin-wayland.cpp:103` says that
the second `StopUnit` "waits until kwin is definitely gone too"; like the first it
returns when the job is queued, which is why `NothingKept` accepts a unit that is
stopping. A greeter started while the units of the one before
are still stopping has its `StartUnit` refused in mode `fail`, which is only logged:
its process stays, without a greeter, until its display is stopped. When
`plasma-login-greeter` ends by itself, the target stops, the compositor stays, and
nothing starts it again, since `main` waits for SIGTERM only.

## 11. SessionList

| Variable | Code |
|---|---|
| `installed` | the files in the `xsessions` and `wayland-sessions` directories of the two prefixes |
| `rows`, `notice` | `SessionModel::m_sessions`; `directoryChanged` on its way |
| `index`, `bound` | `GreeterState.sessionIndex`, and whether it is still a binding |
| `windows`, `button`, `disabled` | for each screen: what its `SessionButton` holds for `currentIndex`; whether `startLogin` has disabled it |
| `asked`, `underWay` | logins in the socket; the session of the login `Display` is busy with |
| `submitted`, `saved` | `GreeterState.lastLoggedInSession` and `StateConfig`'s |
| `current`, `remembered` | history: windows whose button was read from the present rows; the session last started |

The three look-ups are translated as they are: the menu's list
(`getSessionsPaths`, the sort in `populate`), the index (`indexOfData` by file name)
and the daemon's (`QStandardPaths::locate` by type and file name). QML evaluates
`currentSessionType` and `currentSessionFileName` when the index changes, and not
when the model is reset, so `button` may be stale; a row that does not exist
leaves it as it was. A file is its type, directory, name and the text it gives
itself, numbered in the order they sort in. What the menu shows is that text
(`Spelling`, a sequence of words) followed by the labels `data` appends, so a session
that calls itself "Gnome (2)" reads like the second one called "Gnome".

| Run | Question | Result |
|---|---|---|
| `session_list` | two windows, seven files of which two come or go, greeters that stop and start | holds, 1.5 million states |

The seven files have a name of both types, a name in both directories, three
that call themselves the same and one whose name ends in a label, which is what the
look-ups and the texts have to tell apart. Two
changes let a file replace another. `MaxAsked = 1` with a login under way is what it
takes for one to be dropped. `Preselected = 0`: with a preselected session the index
does not depend on what was saved, which is what the run is about.

`StartsTheShown` is about windows whose entry was read from the list as it is.
For the others (hazard at `SessionButton.qml:20`) the text of the button and the
session a login sends may differ, and choosing the entry that is marked changes
nothing, because its row is the index already. `RemembersSession` leaves out
a file name that both types have, and a second login sent before the first has
succeeded: what is saved is a file name, and that of the last login sent.
`DistinctEntries` excepts two entries of which one's own name ends in what looks like a
label (`EndsInLabel`): there the code's texts may coincide, as those of "Gnome (2)" and of
a second "Gnome" do in the run.

`SessionListProofs` proves the four properties for any files, as long as they
are finitely many, any number of windows and any bounds. `SortedList` is about
the sort of `populate`: its order is strict and, because the file name comes last,
total, so that counting what precedes an entry puts every entry in one place.
`PopulatedList` adds what `getSessionsPaths` leaves: no two entries of one type and
file name. `LabelsApart`: of two entries alike in name the labels
differ, since those of one type are counted, the later one counting the earlier one and
everything the earlier one counts, and those of two types have their type. `TextsApart`: two texts
of different names, neither of which ends in a label, stay different when labels are
appended. `DisplayApart` joins the two, which is what `DistinctEntries` needs. The other two properties are about what
happened before, so `IInv` relates the states in between: `Shown` ties the buttons
read from the present rows to the index, `AskedShown` ties what a login names to
what was shown, and `Remembered` ties the name that was saved to the session
that was started. `StartsTheShown` is then that the daemon's look-up of a type and a file name
finds the one entry listed under them, and `RemembersSession` that the first row
with the name that was saved is the only one. For the index to stay in its range, the
list must not be longer than there are files (`FewRows`).

Left out: a greeter that ends before it has read that a login succeeded, the
contents of a file beyond its text, translations of the labels, directories made after the greeter has
started (the watcher does not know them), and the prefix each user's own data
directory is, which is another one for the daemon than for the greeter.

## 12. What is proved and what is only checked

| Module | Theorems | Only model-checked |
|---|---|---|
| `LoginDisplay` | `TypeOK`, `ResponsesMatchAttempt`, `OneConversation`, `UnlocksOwnSession`, `SessionVtApart`, `SessionSurvives`, `ImplementsProtocol` | the three liveness properties |
| `HelperSession` | `TypeOK`, `NothingLeftBehind`, `PamClosedLast`, `PamReleased`, and that Xstop runs after the server | the two liveness properties |
| `GreeterSession` | `GreeterTypeOK`, `NothingKept`, `OwnEnvironment` | |
| `GreeterUi` | `TypeOK`, `BoxesAgree`, `PasswordForListedUser`, `TimerWaits`, `CancelClears` | |
| `KcmSettings` | `TypeOK`, `OwnedByGreeter`, `ChosenPictureInstalled`, `LastJobHolds` | |
| `SeatDisplays` | `TypeOK`, `ReturnsToReused`, `FollowsLast` | |
| `PamConversation` | `TypeOK`, `OneAnswerOneUse`, `LoginPromptsAnswered` | |
| `SessionList` | `TypeOK`, `DistinctEntries`, `StartsTheShown`, `RemembersSession` | |
| `SeatManager` | `TypeOK`, `OneSeatEach`, `SettledAgreement` | |

The proofs rest on the `ASSUME` of the module they are about and on nothing else.
Out of the prover's reach are liveness under fairness and an induction whose
statement is an operator. Where a loop of the code is a recursive function
(`PamConversation`, `SeatManager`), what each turn keeps is proved with
a set in the operator's place: that there is a function with the values of the turns
(`Recursion`, from the library's theorem on well-founded definitions), and that a set
that holds the first position and, with each, the next holds all (`UpTo`). What only
TLC checks is liveness: the three liveness properties of `LoginDisplay` and the two of
`HelperSession`.

## 13. What is not modelled

`PROJECT.json` gives the reason for each part: the greeter's drawing and its
configuration, parsing of session files and configuration, the permissions `save` sets
and the removal of `.cache`, D-Bus calls that time out and take effect later, most of the process
environment of the sessions, the look-and-feel and locale files `startplasma`
writes, the list of users, and the data other programs read.
