----------------------------- MODULE GreeterUi -----------------------------
(***************************************************************************)
(* The greeter's windows, one for each screen                             *)
(* (src/frontend/greeter/main.cpp, qml/Main.qml, qml/Login.qml), and the  *)
(* state they share (qml/GreeterState.qml).                               *)
(*                                                                        *)
(* A window shows the user list or, above it, a prompt for name and       *)
(* password.  Property changes reach the other windows before the handler *)
(* that made them returns, so one input event is one action.  A password  *)
(* is the name of the user it was typed for.                              *)
(***************************************************************************)
EXTENDS Naturals, FiniteSets

CONSTANTS
    Screens,     \* screens that may be connected
    NoScreen,
    Users,       \* names
    Empty,       \* the empty text
    Unnamed,     \* a password typed before any name
    MaxRequests  \* bound: login requests without an answer

ASSUME ConstantsAssumption ==
    /\ NoScreen \notin Screens /\ {Empty, Unnamed} \cap Users = {} /\ Empty # Unnamed
    /\ Users # {} /\ MaxRequests \in Nat

VARIABLES
    shared,    \* GreeterState
    windows,   \* each screen's window
    timer,     \* greeterTimeoutTimer.running
    config,    \* StateConfig.lastLoggedInUser
    requests,  \* requests without an answer, if the socket is connected
    link,      \* the socket to the daemon is connected
    sent       \* history: the last request

vars == <<shared, windows, timer, config, requests, link, sent>>

Texts == Users \cup {Empty}
Passwords == Users \cup {Empty, Unnamed}
\* A Login item: its user name input and password box.  The box belongs to the
\* list or to the prompt (sync.isUserList).
Boxes == [name: Texts, password: Passwords]
Blank == [name |-> Empty, password |-> Empty]
NoWindow == [shown |-> FALSE, prompt |-> FALSE, enabled |-> TRUE, base |-> Blank, top |-> Blank]


\* GreeterState's properties, of which active is the active window; a window and
\* the items under and on its prompt; a request.
Shareds ==
    [beyondUserLimit: BOOLEAN, loginState: {"UserList", "UserPrompt"}, user: Users,
     userListPassword: Passwords, userPromptUsername: Texts, userPromptPassword: Passwords,
     follows: BOOLEAN, active: Screens \cup {NoScreen}]
WindowStates == [shown: BOOLEAN, prompt: BOOLEAN, enabled: BOOLEAN, base: Boxes, top: Boxes]
Requests == [user: Texts, password: Passwords, listed: BOOLEAN, late: BOOLEAN]

\* The type of everything shared and shown; only a shown window is active.
TypeOK ==
    /\ shared \in Shareds /\ windows \in [Screens -> WindowStates]
    /\ shared.active # NoScreen => windows[shared.active].shown
    /\ timer \in BOOLEAN /\ config \in Texts
    /\ requests \in 0..MaxRequests /\ link \in BOOLEAN
    /\ sent \in Requests

-----------------------------------------------------------------------------
(***************************************************************************)
(* Shared state and its copies.  An operator takes and returns a pair     *)
(* p = [s |-> shared, w |-> windows].  beyondUserLimit: no user or more   *)
(* than seven, so that there is no list.                                  *)
(***************************************************************************)

\* The item under the prompt asks for a name itself when there is no list.
Copied(p, listed, field, v) ==
    [x \in Screens |->
        [p.w[x] EXCEPT
            !.base = IF p.w[x].shown /\ p.s.beyondUserLimit # listed
                     THEN [@ EXCEPT ![field] = v] ELSE @,
            !.top = IF p.w[x].prompt /\ ~listed THEN [@ EXCEPT ![field] = v] ELSE @]]
SetListPassword(p, v) ==
    [s |-> [p.s EXCEPT !.userListPassword = v], w |-> Copied(p, TRUE, "password", v)]
SetPromptPassword(p, v) ==
    [s |-> [p.s EXCEPT !.userPromptPassword = v], w |-> Copied(p, FALSE, "password", v)]
SetName(p, v) ==
    [s |-> [p.s EXCEPT !.userPromptUsername = v], w |-> Copied(p, FALSE, "name", v)]

Mutant_ListOnly(p) == SetListPassword(p, Empty)
clearPasswords(p) == SetListPassword(SetPromptPassword(p, Empty), Empty)

inhibitGreeterTimeout(s) ==
    \/ s.loginState = "UserList" /\ s.userListPassword # Empty
    \/ s.loginState = "UserPrompt" /\ s.userPromptPassword # Empty

\* onInhibitGreeterTimeoutChanged, after running has become r
Timed(p, r) ==
    /\ shared' = p.s /\ windows' = p.w
    /\ timer' = IF inhibitGreeterTimeout(p.s) = inhibitGreeterTimeout(shared) THEN r
                ELSE p.s.active # NoScreen /\ ~inhibitGreeterTimeout(p.s)

\* activateWindow, done by every pointer movement and key press in a window,
\* before what is clicked and after what is typed
Mutant_AlwaysRestart == TRUE
Restarts == timer \/ ~inhibitGreeterTimeout(shared)
Pointed(x) == [s |-> [shared EXCEPT !.active = x], w |-> windows]

\* Login's Component.onCompleted.  A name that is not empty changes the text of
\* the new input, and so is copied to every other.
Named(p) == IF config = Empty THEN p ELSE SetName(p, config)
Mutant_Blank(p, x, item) == p
WithPassword(p, x, item) ==
    [p EXCEPT !.w[x][item].password =
        IF item = "base" /\ ~p.s.beyondUserLimit THEN p.s.userListPassword
        ELSE p.s.userPromptPassword]

Added(p, x) ==
    LET made == [p EXCEPT !.w[x] = [NoWindow EXCEPT !.shown = TRUE]]
    IN WithPassword(IF p.s.beyondUserLimit THEN Named(made) ELSE made, x, "base")

Init ==
    /\ config \in Texts
    /\ \E u \in Users, x \in Screens, f, many \in BOOLEAN :
         LET none == [s |-> [beyondUserLimit |-> many, loginState |-> "UserList", user |-> u,
                             userListPassword |-> Empty, userPromptUsername |-> Empty,
                             userPromptPassword |-> Empty, follows |-> f, active |-> NoScreen],
                      w |-> [y \in Screens |-> NoWindow]]
         IN shared = Added(none, x).s /\ windows = Added(none, x).w
    /\ timer = FALSE /\ requests = 0 /\ link = TRUE
    /\ sent = [user |-> Empty, password |-> Empty, listed |-> FALSE, late |-> FALSE]

-----------------------------------------------------------------------------
(***************************************************************************)
(* Screens                                                                *)
(***************************************************************************)

\* createWindowForScreen; a window made later begins with the user list,
\* whatever the others show.
ScreenAdded(x) ==
    /\ ~windows[x].shown
    /\ Timed(Added([s |-> shared, w |-> windows], x), timer)
    /\ UNCHANGED <<config, requests, link, sent>>

\* The deleted window is active no more.
Mutant_StaysActive(x) == shared.active
ActiveWithout(x) == IF shared.active = x THEN NoScreen ELSE shared.active
ScreenRemoved(x) ==
    /\ windows[x].shown
    /\ windows' = [windows EXCEPT ![x] = NoWindow]
    /\ shared' = [shared EXCEPT !.active = ActiveWithout(x)]
    /\ UNCHANGED <<timer, config, requests, link, sent>>

Activate(x) ==
    /\ windows[x].shown
    /\ Timed(Pointed(x), Restarts)
    /\ UNCHANGED <<config, requests, link, sent>>

\* timeoutWindow stops the timer also for a window that is not active.
Escape(x) ==
    /\ windows[x].shown
    /\ Timed(clearPasswords([s |-> [shared EXCEPT !.active = ActiveWithout(x)], w |-> windows]),
             FALSE)
    /\ UNCHANGED <<config, requests, link, sent>>

TimesOut ==
    /\ timer /\ timer' = FALSE
    /\ shared' = [shared EXCEPT !.active = NoScreen]
    /\ UNCHANGED <<windows, config, requests, link, sent>>

-----------------------------------------------------------------------------
(***************************************************************************)
(* Input in a window                                                      *)
(***************************************************************************)

Usable(x) == windows[x].shown /\ windows[x].enabled
Item(x) == IF windows[x].prompt THEN windows[x].top ELSE windows[x].base
Listed(x) == ~shared.beyondUserLimit /\ ~windows[x].prompt
Identity(x) == IF Listed(x) THEN shared.user ELSE Item(x).name

\* A password is typed, or what was typed is deleted.
TypePassword(x) ==
    /\ Usable(x)
    /\ LET v == IF Item(x).password # Empty THEN Empty
                ELSE IF Identity(x) = Empty THEN Unnamed ELSE Identity(x)
       IN Timed(IF Listed(x) THEN SetListPassword(Pointed(x), v)
                ELSE SetPromptPassword(Pointed(x), v), Restarts)
    /\ UNCHANGED <<config, requests, link, sent>>

TypeName(x) ==
    /\ Usable(x) /\ ~Listed(x)
    /\ \E v \in Texts : Timed(SetName(Pointed(x), v), Restarts)
    /\ UNCHANGED <<config, requests, link, sent>>

\* An index that was assigned no longer follows StateConfig.
Chosen(x, u) ==
    [Pointed(x) EXCEPT !.s = [@ EXCEPT !.user = u, !.follows = shared.follows /\ u = shared.user]]

\* A click on a user selects it and clears the box (onUserSelected); the arrow
\* keys do not, they only work in an empty box.
Mutant_Keep(p) == p
Selected(p) == SetListPassword(p, Empty)
SelectUser(x, u) ==
    /\ Usable(x) /\ Listed(x)
    /\ Timed(Selected(Chosen(x, u)), Restarts)
    /\ UNCHANGED <<config, requests, link, sent>>

ArrowToUser(x, u) ==
    /\ Usable(x) /\ Listed(x) /\ Item(x).password = Empty
    /\ Timed(Chosen(x, u), Restarts)
    /\ UNCHANGED <<config, requests, link, sent>>

\* "Other..." and "List Users".  Every window pushes or pops the prompt that is
\* not where it should be, but only when loginState changes.
Pushed(p) ==
    LET Push == {x \in Screens : p.w[x].shown /\ ~p.w[x].prompt}
        made == [p EXCEPT !.w = [x \in Screens |->
                    IF x \in Push
                    THEN [p.w[x] EXCEPT !.prompt = TRUE,
                                        !.top.password = p.s.userPromptPassword]
                    ELSE p.w[x]]]
    IN IF Push = {} THEN p ELSE Named(made)
Popped(p) ==
    [p EXCEPT !.w = [x \in Screens |-> [p.w[x] EXCEPT !.prompt = FALSE, !.top = Blank]]]

SetLoginState(x, st) ==
    /\ Usable(x) /\ ~shared.beyondUserLimit
    /\ st = IF windows[x].prompt THEN "UserList" ELSE "UserPrompt"
    /\ LET p == clearPasswords([Pointed(x) EXCEPT !.s.loginState = st])
       IN IF shared.loginState = st THEN Timed(Pointed(x), Restarts)
          ELSE Timed(IF st = "UserPrompt" THEN Pushed(p) ELSE Popped(p), Restarts)
    /\ UNCHANGED <<config, requests, link, sent>>

ConfirmPower(x) ==
    /\ Usable(x)
    /\ Timed(clearPasswords(Pointed(x)), Restarts)
    /\ UNCHANGED <<config, requests, link, sent>>

\* startLogin and handleLoginRequest; only this window is disabled.
StartLogin(x) ==
    /\ Usable(x)
    /\ requests < MaxRequests
    /\ sent' = [user |-> Identity(x), password |-> Item(x).password, listed |-> Listed(x),
                late |-> sent.late]
    /\ requests' = IF link THEN requests + 1 ELSE requests
    /\ Timed([Pointed(x) EXCEPT !.w[x].enabled = FALSE], Restarts)
    /\ UNCHANGED <<config, link>>

-----------------------------------------------------------------------------
(***************************************************************************)
(* Answers of the daemon                                                  *)
(***************************************************************************)

LoginFailed ==
    /\ requests > 0 /\ requests' = requests - 1
    /\ windows' = [x \in Screens |-> [windows[x] EXCEPT !.enabled = TRUE]]
    /\ UNCHANGED <<shared, timer, config, link, sent>>

LoginSucceeded ==
    /\ requests > 0 /\ requests' = requests - 1
    /\ config' = sent.user
    /\ shared' = [shared EXCEPT !.user = IF shared.follows /\ sent.user \in Users THEN sent.user
                                        ELSE @]
    /\ sent' = [sent EXCEPT !.late = TRUE]
    /\ UNCHANGED <<windows, timer, link>>

\* socketDisconnected has no receiver.
Disconnected ==
    /\ link /\ link' = FALSE /\ requests' = 0
    /\ UNCHANGED <<shared, windows, timer, config, sent>>

Next ==
    \/ \E x \in Screens :
         \/ ScreenAdded(x) \/ ScreenRemoved(x) \/ Activate(x) \/ Escape(x)
         \/ TypePassword(x) \/ TypeName(x) \/ ConfirmPower(x) \/ StartLogin(x)
         \/ \E u \in Users : SelectUser(x, u) \/ ArrowToUser(x, u)
         \/ \E st \in {"UserList", "UserPrompt"} : SetLoginState(x, st)
    \/ TimesOut \/ LoginFailed \/ LoginSucceeded \/ Disconnected

Spec == Init /\ [][Next]_vars

-----------------------------------------------------------------------------
(***************************************************************************)
(* Properties                                                             *)
(***************************************************************************)

\* Every password box of every window shows the one shared password of its
\* kind, windows of screens plugged in meanwhile included (Login.qml's sync).
BoxesAgree ==
    \A x \in Screens : windows[x].shown =>
        /\ windows[x].base.password =
              IF shared.beyondUserLimit THEN shared.userPromptPassword
              ELSE shared.userListPassword
        /\ windows[x].prompt => windows[x].top.password = shared.userPromptPassword

\* What was typed for one user of the list is never submitted for another,
\* whichever window selects, types and submits (onUserSelected, startLogin),
\* as long as nobody was logged in.
PasswordForListedUser ==
    sent.listed /\ ~sent.late /\ sent.password # Empty => sent.password = sent.user

AllBlank == \A x \in Screens : windows[x].base.password = Empty /\ windows[x].top.password = Empty

\* Escape in any window, and the change between list and prompt, leave no
\* password in any box of any window (clearPasswords).
CancelClears ==
    [][(shared'.loginState # shared.loginState \/ \E x \in Screens : Escape(x)) => AllBlank']_vars

\* The timer never runs, so no window is hidden, while a window that shows what
\* loginState says, the list or the prompt, holds a password being typed
\* (inhibitGreeterTimeout), whichever windows are touched, added or removed.  It does
\* run over a password in the list of a window plugged in during the prompt, and
\* without a list (beyondUserLimit): GreeterState.qml:79 asks loginState alone.
TimerWaits ==
    timer /\ ~shared.beyondUserLimit =>
        \A x \in Screens :
            windows[x].shown /\ (windows[x].prompt <=> shared.loginState = "UserPrompt")
                => Item(x).password = Empty

=============================================================================
