---------------------------- MODULE SeatDisplays ----------------------------
(***************************************************************************)
(* The displays of a seat with terminals (src/daemon/Seat.cpp), the       *)
(* terminals they choose (src/daemon/Display.cpp,                         *)
(* src/common/VirtualTerminal.cpp) and which one is in the foreground,    *)
(* while people switch between a greeter and several sessions.            *)
(*                                                                        *)
(* A display is followed as far as its terminals go; LoginDisplay has the *)
(* conversation of one login and the end of the daemon.  logind's         *)
(* sessions and the kernel's terminals are external.                      *)
(***************************************************************************)
EXTENDS Naturals, Sequences, SequencesExt

CONSTANTS
    Users,
    Nobody,      \* no autologin
    Ids,         \* names for the displays there are at a time
    NoReuse,     \* no running session was found
    LostSession, \* one was, and has ended since
    LastVt,      \* bound: terminals are 1..LastVt
    MaxQuietEnds \* bound: helpers that end and leave their display as it is

ASSUME ConstantsAssumption ==
    /\ Nobody \notin Users /\ NoReuse \notin Ids /\ LostSession \notin Ids
    /\ \E c, d \in Ids : c # d
    /\ NoReuse # LostSession
    /\ LastVt \in Nat \ {0} /\ MaxQuietEnds \in Nat

InitialVt == 1
Vts == 1..LastVt

VARIABLES
    displays, \* m_displays
    disp,     \* each display: terminals, greeter, login
    active,   \* the terminal in the foreground
    quietEnds \* bound

vars == <<displays, disp, active, quietEnds>>

\* greeter: "starting", "opened" once logind has its session, "up" once it has
\* the terminal; auth: "pam", then "opened" and "session" likewise.  path: m_auth
\* has a session to start.  reuse: whose session m_reuseSessionId is.
Displays ==
    [vt: Vts, sessionVt: Vts, greeter: {"off", "starting", "opened", "up"},
     auth: {"none", "pam", "opened", "session"}, autologin: BOOLEAN,
     user: Users \cup {Nobody}, path: BOOLEAN, reuse: {NoReuse, LostSession} \cup Ids]

Gone ==
    [vt |-> InitialVt, sessionVt |-> InitialVt, greeter |-> "off", auth |-> "none",
     autologin |-> FALSE, user |-> Nobody, path |-> FALSE, reuse |-> NoReuse]

\* The type of every display and terminal; m_displays is never empty, lists a
\* display once, and nothing runs for a display it does not list.
TypeOK ==
    /\ displays \in Seq(Ids) \ {<<>>} /\ IsInjective(displays)
    /\ disp \in [Ids -> Displays] /\ \A d \in Ids \ Range(displays) : disp[d] = Gone
    /\ active \in Vts /\ quietEnds \in 0..MaxQuietEnds

-----------------------------------------------------------------------------
(***************************************************************************)
(* Terminals, in a state s of displays and foreground                     *)
(***************************************************************************)

HasSession(r) == r.auth \in {"opened", "session"}
HasGreeter(r) == r.greeter \in {"opened", "up"}

\* A session of logind's, whether or not it has its terminal yet.
IsTtyInUse(s, v) ==
    \E d \in Ids : \/ HasGreeter(s.disp[d]) /\ s.disp[d].vt = v
                   \/ HasSession(s.disp[d]) /\ s.disp[d].sessionVt = v

\* A process has it open: it is some session's controlling terminal.
Taken(s, v) ==
    \E d \in Ids : \/ s.disp[d].greeter = "up" /\ s.disp[d].vt = v
                   \/ s.disp[d].auth = "session" /\ s.disp[d].sessionVt = v

\* VT_OPENQRY; with no terminal free, the one in the foreground.
SetUpNewVt(s) ==
    LET free == {v \in Vts : ~Taken(s, v)}
    IN IF free = {} THEN s.active ELSE CHOOSE v \in free : \A w \in free : v <= w

FetchAvailableVt(s) ==
    IF ~IsTtyInUse(s, InitialVt) THEN InitialVt
    ELSE IF ~IsTtyInUse(s, s.active) THEN s.active
    ELSE SetUpNewVt(s)

\* Terminal 0, the number of no terminal, cannot be activated.
JumpToVt(s, v) == IF v = 0 THEN s ELSE [s EXCEPT !.active = v]

\* Where session r is, 0 once logind does not know it.
SessionVt(s, r) == IF r \in Ids /\ HasSession(s.disp[r]) THEN s.disp[r].sessionVt ELSE 0

-----------------------------------------------------------------------------
(***************************************************************************)
(* The seat                                                               *)
(***************************************************************************)

\* Display::Display and start, without autologinRelogin: only the first display
\* logs in by itself.
NewDisplay(vt, autologin) ==
    [Gone EXCEPT !.vt = vt, !.sessionVt = vt, !.user = autologin,
                 !.greeter = IF autologin = Nobody THEN "starting" ELSE "off",
                 !.auth = IF autologin = Nobody THEN "none" ELSE "pam",
                 !.autologin = autologin # Nobody, !.path = autologin # Nobody]

\* A display may go meanwhile, whose name is not free yet.
CreateDisplay(s, leaving) ==
    LET d == CHOOSE n \in Ids \ leaving : n \notin Range(s.displays)
    IN [s EXCEPT !.displays = Append(@, d),
                 !.disp[d] = NewDisplay(FetchAvailableVt(s), Nobody)]

\* removeAll, of what is listed once.
Without(q, d) ==
    LET k == CHOOSE i \in DOMAIN q : q[i] = d
    IN IF d \in Range(q) THEN [i \in 1..(Len(q) - 1) |-> q[IF i < k THEN i ELSE i + 1]] ELSE q
RemoveDisplay(s, d) == [s EXCEPT !.displays = Without(@, d), !.disp[d] = Gone]

Mutant_OwnVt(r) == r.vt
TerminalId(r) == IF r.auth # "none" THEN r.sessionVt ELSE r.vt

\* nextVt is looked up before the display goes.
Mutant_LastFirst(s, d, reused) ==
    LET left == RemoveDisplay(s, d)
    IN IF left.displays = <<>> THEN CreateDisplay(left, {d})
       ELSE JumpToVt(left, TerminalId(left.disp[Last(left.displays)]))
Mutant_NoneCreated(s, d, reused) ==
    LET left == RemoveDisplay(s, d)
    IN IF reused # NoReuse THEN JumpToVt(left, SessionVt(s, reused))
       ELSE IF left.displays = <<>> THEN CreateDisplay(left, {d})
       ELSE JumpToVt(left, TerminalId(left.disp[Last(left.displays)]))
DisplayStopped(s, d, reused) ==
    LET left == RemoveDisplay(s, d)
        next == IF left.displays = <<>> THEN CreateDisplay(left, {d}) ELSE left
    IN IF reused # NoReuse THEN JumpToVt(next, SessionVt(s, reused))
       ELSE IF left.displays = <<>> THEN next
       ELSE JumpToVt(left, TerminalId(left.disp[Last(left.displays)]))

\* Display::stop waits for the helper, the end of which stops the display as
\* well: stopped is then emitted twice.
Stop(s, d) ==
    LET reused == s.disp[d].reuse
        once == DisplayStopped(s, d, reused)
    IN IF s.disp[d].auth = "none" THEN once ELSE DisplayStopped(once, d, reused)

State == [displays |-> displays, disp |-> disp, active |-> active]
With(d, r) == [State EXCEPT !.disp[d] = r]
Over(r) == [r EXCEPT !.auth = "none", !.user = Nobody, !.sessionVt = r.vt]
Ended(d) == With(d, Over(disp[d]))

\* A session that has ended is found by nobody who remembers it.
Settles(s) ==
    /\ displays' = s.displays /\ active' = s.active
    /\ disp' = [d \in Ids |->
                  [s.disp[d] EXCEPT
                     !.reuse = IF @ \in Ids /\ ~HasSession(s.disp[@]) THEN LostSession ELSE @]]
Becomes(s) == Settles(s) /\ UNCHANGED quietEnds

\* The helper's status is one that Display and Greeter do nothing about.
BecomesQuietly(s) ==
    /\ quietEnds < MaxQuietEnds /\ quietEnds' = quietEnds + 1
    /\ Settles(s)

Init ==
    /\ active = InitialVt /\ quietEnds = 0
    /\ \E first \in Ids, u \in Users \cup {Nobody} :
         /\ displays = <<first>>
         /\ disp = [d \in Ids |-> IF d = first THEN NewDisplay(InitialVt, u) ELSE Gone]

\* SeatManager::switchToGreeter
SwitchToGreeter ==
    \/ \E d \in Ids : HasGreeter(disp[d]) /\ Becomes(JumpToVt(State, disp[d].vt))
    \/ /\ \A d \in Ids : ~HasGreeter(disp[d])
       /\ Ids \ Range(displays) # {}
       /\ Becomes(CreateDisplay(State, {}))

UserSwitches ==
    /\ active' \in Vts \ {active}
    /\ UNCHANGED <<displays, disp, quietEnds>>

-----------------------------------------------------------------------------
(***************************************************************************)
(* A display's greeter                                                    *)
(***************************************************************************)

GreeterOpens(d) ==
    /\ disp[d].greeter = "starting"
    /\ Becomes(With(d, [disp[d] EXCEPT !.greeter = "opened"]))

\* UserSession::childModifier: the controlling terminal, then the jump.
GreeterTakesVt(d) ==
    /\ disp[d].greeter = "opened" /\ ~Taken(State, disp[d].vt)
    /\ Becomes(JumpToVt(With(d, [disp[d] EXCEPT !.greeter = "up"]), disp[d].vt))

\* Greeter::ttyFailed
GreeterTtyFails(d) ==
    /\ disp[d].greeter = "opened" /\ Taken(State, disp[d].vt)
    /\ Becomes(Stop(JumpToVt(With(d, [disp[d] EXCEPT !.greeter = "off"]), InitialVt), d))

\* Greeter::failed, or an end that nothing follows on.
GreeterEnds(d) ==
    /\ disp[d].greeter # "off"
    /\ LET left == With(d, [disp[d] EXCEPT !.greeter = "off"])
       IN Becomes(Stop(left, d)) \/ BecomesQuietly(left)

\* The timer of slotSessionStarted.
StopGreeter(d) ==
    /\ disp[d].auth = "session" /\ disp[d].greeter = "up"
    /\ Becomes(With(d, [disp[d] EXCEPT !.greeter = "off"]))

-----------------------------------------------------------------------------
(***************************************************************************)
(* A display's login                                                      *)
(***************************************************************************)

\* Sessions of u that logind calls online: not in the foreground.  The service
\* of an autologin is another one.
Online(u) ==
    {d \in Ids : /\ disp[d].user = u /\ ~disp[d].autologin /\ HasSession(disp[d])
                 /\ disp[d].sessionVt # active}

\* Display::startAuth: the greeter still runs, so the session gets a terminal of
\* its own.  A session set for an earlier login stays set.
Login(d, u) ==
    /\ disp[d].greeter = "up" /\ disp[d].auth = "none"
    /\ \E r \in IF Online(u) = {} THEN {NoReuse} ELSE Online(u) :
         Becomes(With(d, [disp[d] EXCEPT !.auth = "pam", !.user = u, !.reuse = r,
                                         !.path = @ \/ r = NoReuse,
                                         !.sessionVt = SetUpNewVt(State)]))

\* The display goes on with its greeter, which after an autologin is started.
PamRejects(d) ==
    /\ disp[d].auth = "pam"
    /\ Becomes(With(d, [Over(disp[d]) EXCEPT
                             !.autologin = FALSE,
                             !.greeter = IF disp[d].autologin THEN "starting" ELSE @]))

\* The session found is put in the foreground; with none to start the helper
\* is done.
PamAccepts(d) ==
    /\ disp[d].auth = "pam"
    /\ LET shown == JumpToVt(State, SessionVt(State, disp[d].reuse))
       IN IF disp[d].path THEN Becomes([shown EXCEPT !.disp[d].auth = "opened"])
          ELSE Becomes(Stop([shown EXCEPT !.disp[d] = Over(@)], d))

SessionTakesVt(d) ==
    /\ disp[d].auth = "opened" /\ ~Taken(State, disp[d].sessionVt)
    /\ Becomes(JumpToVt(With(d, [disp[d] EXCEPT !.auth = "session"]), disp[d].sessionVt))

SessionTtyFails(d) ==
    /\ disp[d].auth = "opened" /\ Taken(State, disp[d].sessionVt)
    /\ Becomes(Stop(Ended(d), d))

\* The helper ends, at PAM or with the session.  A session's own exit code 1
\* passes for a rejected login.
HelperEnds(d) ==
    \/ disp[d].auth # "none" /\ Becomes(Stop(Ended(d), d))
    \/ HasSession(disp[d]) /\ BecomesQuietly(Ended(d))

Next ==
    \/ SwitchToGreeter \/ UserSwitches
    \/ \E d \in Ids :
         \/ GreeterOpens(d) \/ GreeterTakesVt(d) \/ GreeterTtyFails(d) \/ GreeterEnds(d)
         \/ StopGreeter(d)
         \/ \E u \in Users : Login(d, u)
         \/ PamRejects(d) \/ PamAccepts(d) \/ SessionTakesVt(d) \/ SessionTtyFails(d)
         \/ HelperEnds(d)

Spec == Init /\ [][Next]_vars

-----------------------------------------------------------------------------
(***************************************************************************)
(* Properties                                                             *)
(***************************************************************************)

\* When a display that unlocked somebody's running session goes, that session is
\* in the foreground afterwards, whatever other displays there are: the seat
\* looks it up before it removes the display and, if stopped is emitted twice,
\* once more (Seat::displayStopped).
ReturnsToReused ==
    [][\A d \in Range(displays) :
         LET r == disp[d].reuse
         IN /\ d \notin Range(displays')
            /\ r \in Ids \ {d} /\ disp[r].auth = "session" /\ disp'[r].auth = "session"
            => active' = disp[r].sessionVt]_displays

\* When any other display goes and the last one listed shows something, its
\* session if it has one and else its greeter, that is in the foreground: the
\* session, although the greeter may be up next to it (Display::terminalId).
\* Left out is a last display with a login at PAM: it is switched to as well, at a
\* terminal that nothing shows yet.
FollowsLast ==
    [][\A d \in Range(displays) \ Range(displays') :
         LET last == disp'[Last(displays')]
         IN disp[d].reuse = NoReuse =>
              /\ last.auth = "session" => active' = last.sessionVt
              /\ last.auth = "none" /\ last.greeter = "up" => active' = last.vt]_displays

=============================================================================
