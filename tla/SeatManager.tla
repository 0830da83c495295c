---------------------------- MODULE SeatManager ----------------------------
(***************************************************************************)
(* The daemon's seats (src/daemon/SeatManager.cpp), made from what        *)
(* systemd-logind says about the machine's seats, and the D-Bus objects   *)
(* that show them to others (src/daemon/DisplayManager.cpp).              *)
(*                                                                        *)
(* logind and the message bus are external.  The bus keeps the order of   *)
(* what one program sends to another, so calls and messages are two       *)
(* queues; a signal reaches the daemon only once the bus has its match    *)
(* rule.  Every callback of the daemon is one action.                     *)
(***************************************************************************)
EXTENDS Integers, Sequences, FiniteSets

CONSTANTS
    Seats,       \* the names of the seats the machine may have
    Seat0,       \* "seat0"
    MaxEvents,   \* bound: changes in logind and requests to show a greeter
    MaxDisplays  \* bound: displays of one Seat object

ASSUME ConstantsAssumption ==
    /\ Seat0 \in Seats /\ IsFiniteSet(Seats)
    /\ MaxEvents \in Nat /\ MaxDisplays \in Nat \ {0}

VARIABLES
    logind,    \* logind's seats: there?, CanGraphical
    calls,     \* calls of the daemon that logind has not served
    bus,       \* replies and signals the daemon has not handled
    manager,   \* "new", "asked" (no match rule yet), "ready", "alone" (no logind)
    watchers,  \* the LogindSeat objects made for each name, in that order
    system,    \* m_systemSeats: which of them, 0 for none
    seats,     \* the Seat objects made for each name; m_seats; the D-Bus list
    events,    \* bound
    early,     \* history: seats announced while older news of them was under way
    missed     \* history: seats that changed after ListSeats was answered and
               \* before the bus had the match rules

vars == <<logind, calls, bus, manager, watchers, system, seats, events, early, missed>>
history == <<early, missed>>

-----------------------------------------------------------------------------
(***************************************************************************)
(* Calls and messages                                                     *)
(***************************************************************************)

ListSeats == [op |-> "ListSeats", seat |-> Seat0, watcher |-> 0]
GetCanGraphical(s, w) == [op |-> "Get", seat |-> s, watcher |-> w]

Signal(k, s, v) == [kind |-> k, seat |-> s, value |-> v, watcher |-> 0, list |-> <<>>]
Listed(l) == [kind |-> "Listed", seat |-> Seat0, value |-> FALSE, watcher |-> 0, list |-> l]
\* The reply to Get; an error (the seat is gone) has no value.
Got(s, w, v) == [kind |-> "Got", seat |-> s, value |-> v, watcher |-> w, list |-> <<>>]
Failed(s, w) == [Got(s, w, FALSE) EXCEPT !.kind = "Failed"]

Calls == [op: {"ListSeats", "Get"}, seat: Seats, watcher: Nat]
Messages == [kind: {"SeatNew", "SeatRemoved", "Changed", "Listed", "Got", "Failed",
                    "SecureAttentionKey"},
             seat: Seats, value: BOOLEAN, watcher: Nat, list: Seq(Seats)]
Watchers == [alive: BOOLEAN, graphical: BOOLEAN]

\* The type of every object and queue; no Seat has more displays than were
\* ever asked for.
TypeOK ==
    /\ logind \in [Seats -> [there: BOOLEAN, graphical: BOOLEAN]]
    /\ calls \in Seq(Calls) /\ bus \in Seq(Messages)
    /\ manager \in {"new", "asked", "ready", "alone"}
    /\ watchers \in [Seats -> Seq(Watchers)]
    /\ system \in [Seats -> Nat]
    /\ \A s \in Seats : system[s] # 0 => /\ system[s] \in DOMAIN watchers[s]
                                         /\ watchers[s][system[s]].alive
    /\ DOMAIN seats = {"made", "current", "dbus"}
    /\ seats.made \in [Seats -> Seq(0..MaxDisplays)]
    /\ seats.current \in [Seats -> Nat]
    /\ \A s \in Seats : seats.current[s] # 0 => /\ seats.current[s] \in DOMAIN seats.made[s]
                                                /\ seats.made[s][seats.current[s]] > 0
    /\ seats.dbus \in Seq([seat: Seats, nr: Nat])
    /\ events \in 0..MaxEvents
    /\ early \subseteq Seats /\ missed \subseteq Seats

Init ==
    /\ logind = [s \in Seats |-> [there |-> FALSE, graphical |-> FALSE]]
    /\ calls = <<>> /\ bus = <<>> /\ manager = "new"
    /\ watchers = [s \in Seats |-> <<>>] /\ system = [s \in Seats |-> 0]
    /\ seats = [made |-> [s \in Seats |-> <<>>], current |-> [s \in Seats |-> 0],
                dbus |-> <<>>]
    /\ events = 0 /\ early = {} /\ missed = {}

-----------------------------------------------------------------------------
(***************************************************************************)
(* SeatManager::createSeat and removeSeat, with DisplayManager::AddSeat   *)
(* and RemoveSeat, their only listeners                                   *)
(***************************************************************************)

\* m_seats.insert replaces what the name was mapped to; the Seat replaced
\* stays a child of the manager, with its displays.
CreateSeat(r, s) ==
    LET nr == Len(r.made[s]) + 1
    IN [made |-> [r.made EXCEPT ![s] = Append(@, 1)],
        current |-> [r.current EXCEPT ![s] = nr],
        dbus |-> Append(r.dbus, [seat |-> s, nr |-> nr])]

\* n times createSeat, one for each LogindSeat that emits canGraphicalChanged.
CreateSeats(r, s, n) ==
    LET last == Len(r.made[s])
    IN IF n = 0 THEN r
       ELSE [made |-> [r.made EXCEPT ![s] = @ \o [i \in 1..n |-> 1]],
             current |-> [r.current EXCEPT ![s] = last + n],
             dbus |-> r.dbus \o [i \in 1..n |-> [seat |-> s, nr |-> last + i]]]

\* removeAll, of an object that is listed once.
Without(list, e) ==
    LET k == CHOOSE i \in DOMAIN list : list[i] = e
    IN IF \E i \in DOMAIN list : list[i] = e
       THEN [i \in 1..(Len(list) - 1) |-> list[IF i < k THEN i ELSE i + 1]]
       ELSE list

\* RemoveSeat removes from m_seats while it walks it.  The elements behind the
\* one removed move forward, the end of the walk does not: the next place is
\* skipped, and places past the new end still hold what they held.
Drop(l, e) ==
    LET live == Without(l.live, e)
    IN [live |-> live,
        memory |-> [j \in DOMAIN l.memory |-> IF j <= Len(live) THEN live[j] ELSE l.memory[j]]]
Turn(l, i, s) == IF l.memory[i].seat = s THEN Drop(l, l.memory[i]) ELSE l
RemoveSeatObjects(list, s) ==
    LET walk[i \in 0..Len(list)] ==
            IF i = 0 THEN [live |-> list, memory |-> list] ELSE Turn(walk[i - 1], i, s)
    IN walk[Len(list)].live

Mutant_ValueNotTake(r, s) ==
    IF r.current[s] = 0 THEN r ELSE [r EXCEPT !.made[s][r.current[s]] = 0]
RemoveSeat(r, s) ==
    IF r.current[s] = 0 THEN r
    ELSE [made |-> [r.made EXCEPT ![s][r.current[s]] = 0],
          current |-> [r.current EXCEPT ![s] = 0],
          dbus |-> RemoveSeatObjects(r.dbus, s)]

-----------------------------------------------------------------------------
(***************************************************************************)
(* SeatManager and LogindSeat                                             *)
(***************************************************************************)

\* SeatManager::initialize
Initialize ==
    /\ manager = "new"
    /\ \/ /\ manager' = "asked"
          /\ calls' = Append(calls, ListSeats)
          /\ UNCHANGED seats
       \/ /\ manager' = "alone"
          /\ seats' = CreateSeat(seats, Seat0)
          /\ UNCHANGED calls
    /\ UNCHANGED <<logind, bus, watchers, system, events, history>>

Hears(k) ==
    /\ bus # <<>> /\ Head(bus).kind = k
    /\ bus' = Tail(bus)

\* logindSeatAdded, for each name in turn: a LogindSeat, its match rule and
\* its call of Get.  insert forgets an earlier LogindSeat without deleting it.
LogindSeatsAdded(names) ==
    LET nr(s) == Len(watchers[s]) + 1
        New == {names[i] : i \in DOMAIN names}
    IN /\ watchers' = [s \in Seats |->
                          IF s \in New
                          THEN Append(watchers[s], [alive |-> TRUE, graphical |-> FALSE])
                          ELSE watchers[s]]
       /\ system' = [s \in Seats |-> IF s \in New THEN nr(s) ELSE system[s]]
       /\ calls' = calls \o [i \in DOMAIN names |-> GetCanGraphical(names[i], nr(names[i]))]

HearSeatNew ==
    /\ Hears("SeatNew")
    /\ LogindSeatsAdded(<<Head(bus).seat>>)
    /\ UNCHANGED <<logind, manager, seats, events, history>>

HearListed ==
    /\ Hears("Listed")
    /\ LogindSeatsAdded(Head(bus).list)
    /\ UNCHANGED <<logind, manager, seats, events, history>>

\* canGraphicalChanged of n LogindSeat objects of s
GraphicalChanged(s, v, n) ==
    seats' = IF v THEN CreateSeats(seats, s, n)
             ELSE IF n > 0 THEN RemoveSeat(seats, s) ELSE seats

\* LogindSeat::propertiesChanged, in every LogindSeat of that path.
HearChanged ==
    /\ Hears("Changed")
    /\ LET s == Head(bus).seat
           v == Head(bus).value
           Alive == {w \in DOMAIN watchers[s] : watchers[s][w].alive}
       IN /\ watchers' = [watchers EXCEPT
                ![s] = [w \in DOMAIN @ |-> IF w \in Alive THEN [@[w] EXCEPT !.graphical = v]
                                           ELSE @[w]]]
          /\ GraphicalChanged(s, v, Cardinality(Alive))
    /\ UNCHANGED <<logind, calls, manager, system, events, history>>

\* The reply to the call made by LogindSeat's constructor; nobody listens
\* for it when the LogindSeat has been deleted.
Mutant_AlwaysEmit(w, v) == w.alive
ReplyIsNews(w, v) == w.alive /\ v # w.graphical
HearGot ==
    /\ Hears("Got")
    /\ LET m == Head(bus)
       IN IF ReplyIsNews(watchers[m.seat][m.watcher], m.value)
          THEN /\ watchers' = [watchers EXCEPT ![m.seat][m.watcher].graphical = m.value]
               /\ GraphicalChanged(m.seat, m.value, 1)
          ELSE UNCHANGED <<watchers, seats>>
    /\ UNCHANGED <<logind, calls, manager, system, events, history>>

HearFailed ==
    /\ Hears("Failed")
    /\ UNCHANGED <<logind, calls, manager, watchers, system, seats, events, history>>

\* logindSeatRemoved; delete of a null pointer does nothing.
Mutant_KeepSeat(r, s) == r
AfterRemoval(r, s) == RemoveSeat(r, s)
HearSeatRemoved ==
    /\ Hears("SeatRemoved")
    /\ LET s == Head(bus).seat
       IN /\ watchers' = IF system[s] = 0 THEN watchers
                         ELSE [watchers EXCEPT ![s][system[s]].alive = FALSE]
          /\ system' = [system EXCEPT ![s] = 0]
          /\ seats' = AfterRemoval(seats, s)
    /\ UNCHANGED <<logind, calls, manager, events, history>>

\* switchToGreeter: a running greeter session of the seat is activated, else
\* the seat gets one more display.
SwitchToGreeter(s) ==
    IF seats.current[s] = 0 THEN UNCHANGED seats
    ELSE \/ manager # "alone" /\ UNCHANGED seats
         \/ /\ seats.made[s][seats.current[s]] < MaxDisplays
            /\ seats' = [seats EXCEPT !.made[s][seats.current[s]] = @ + 1]

HearSecureAttentionKey ==
    /\ Hears("SecureAttentionKey")
    /\ SwitchToGreeter(Head(bus).seat)
    /\ UNCHANGED <<logind, calls, manager, watchers, system, events, history>>

\* DisplayManagerSeat::SwitchToGreeter, called by anyone on a seat shown
DBusSwitchToGreeter ==
    /\ events < MaxEvents /\ events' = events + 1
    /\ \E i \in DOMAIN seats.dbus : SwitchToGreeter(seats.dbus[i].seat)
    /\ UNCHANGED <<logind, calls, bus, manager, watchers, system, history>>

\* Seat::displayStopped: the last display is replaced, any other is not.
DisplayStopped ==
    /\ \E s \in Seats : \E n \in DOMAIN seats.made[s] :
         /\ seats.made[s][n] > 1
         /\ seats' = [seats EXCEPT !.made[s][n] = @ - 1]
    /\ UNCHANGED <<logind, calls, bus, manager, watchers, system, events, history>>

-----------------------------------------------------------------------------
(***************************************************************************)
(* The message bus and logind (external)                                  *)
(***************************************************************************)

\* The match rules for logind's own signals are in place.
BusAddsMatch ==
    /\ manager = "asked"
    /\ manager' = "ready"
    /\ UNCHANGED <<logind, calls, bus, watchers, system, seats, events, history>>

ListSeatsServed == ~ \E i \in DOMAIN calls : calls[i].op = "ListSeats"

Emit(m) ==
    /\ bus' = IF manager = "ready" THEN Append(bus, m) ELSE bus
    /\ missed' = IF manager = "asked" /\ ListSeatsServed THEN missed \cup {m.seat} ELSE missed

LogindEvent(s, new) ==
    /\ events < MaxEvents /\ events' = events + 1
    /\ logind' = [logind EXCEPT ![s] = new]
    /\ UNCHANGED <<calls, manager, watchers, system, seats>>

\* Older news of s: the list it will be in, or its removal.
OldNews(s) ==
    ~ListSeatsServed \/ \E i \in DOMAIN bus : bus[i].kind = "SeatRemoved" /\ bus[i].seat = s

SeatAppears(s) ==
    /\ ~logind[s].there
    /\ \E g \in BOOLEAN : LogindEvent(s, [there |-> TRUE, graphical |-> g])
    /\ Emit(Signal("SeatNew", s, FALSE))
    /\ early' = IF manager = "ready" /\ OldNews(s) THEN early \cup {s} ELSE early

SeatVanishes(s) ==
    /\ logind[s].there
    /\ LogindEvent(s, [there |-> FALSE, graphical |-> FALSE])
    /\ Emit(Signal("SeatRemoved", s, FALSE))
    /\ UNCHANGED early

\* The rule for a seat's properties is sent just before the LogindSeat's Get,
\* whose reply tells what the rule missed; it is taken to be in place at once.
GraphicalChanges(s) ==
    LET g == ~logind[s].graphical
        Subscribed == \E w \in DOMAIN watchers[s] : watchers[s][w].alive
    IN /\ logind[s].there
       /\ LogindEvent(s, [there |-> TRUE, graphical |-> g])
       /\ bus' = IF Subscribed THEN Append(bus, Signal("Changed", s, g)) ELSE bus
       /\ UNCHANGED history

KeyPressed(s) ==
    /\ logind[s].there
    /\ LogindEvent(s, logind[s])
    /\ bus' = IF manager = "ready" THEN Append(bus, Signal("SecureAttentionKey", s, FALSE)) ELSE bus
    /\ UNCHANGED history

\* ListSeats is answered with the seats in any order.
Present == {s \in Seats : logind[s].there}
Orders(S) == {l \in [1..Cardinality(S) -> S] : {l[i] : i \in DOMAIN l} = S}

LogindAnswers ==
    /\ calls # <<>>
    /\ calls' = Tail(calls)
    /\ LET c == Head(calls)
       IN \/ /\ c.op = "ListSeats"
             /\ \E l \in Orders(Present) : bus' = Append(bus, Listed(l))
          \/ /\ c.op = "Get"
             /\ bus' = Append(bus, IF logind[c.seat].there
                                   THEN Got(c.seat, c.watcher, logind[c.seat].graphical)
                                   ELSE Failed(c.seat, c.watcher))
    /\ UNCHANGED <<logind, manager, watchers, system, seats, events, history>>

-----------------------------------------------------------------------------
Daemon ==
    \/ Initialize \/ HearSeatNew \/ HearListed \/ HearChanged \/ HearGot \/ HearFailed
    \/ HearSeatRemoved \/ HearSecureAttentionKey \/ DBusSwitchToGreeter \/ DisplayStopped

Environment ==
    \/ BusAddsMatch \/ LogindAnswers
    \/ \E s \in Seats : SeatAppears(s) \/ SeatVanishes(s) \/ GraphicalChanges(s) \/ KeyPressed(s)

Next == Daemon \/ Environment

Spec == Init /\ [][Next]_vars

-----------------------------------------------------------------------------
(***************************************************************************)
(* Properties                                                             *)
(***************************************************************************)

Running(s) == {n \in DOMAIN seats.made[s] : seats.made[s][n] > 0}
Graphical(s) == logind[s].there /\ logind[s].graphical
Settled == manager = "ready" /\ calls = <<>> /\ bus = <<>>

\* createSeat is called at most once while a seat is graphical, although the
\* reply to Get and the signal of the same change both lead to it: there is
\* no Seat object, with displays and a greeter, that m_seats does not know; and
\* the D-Bus seats are those of m_seats, each once, although RemoveSeat changes
\* the list it walks.
OneSeatEach ==
    \A s \in Seats \ (early \cup missed) :
        /\ Running(s) = IF seats.current[s] = 0 THEN {} ELSE {seats.current[s]}
        /\ Cardinality({i \in DOMAIN seats.dbus : seats.dbus[i].seat = s})
              = Cardinality(Running(s))

\* Whatever order replies and signals came in, and however often a seat was
\* announced, once all are handled m_seats holds exactly logind's graphical
\* seats (LogindSeat, logindSeatAdded, logindSeatRemoved).
SettledAgreement ==
    Settled => \A s \in Seats \ missed : seats.current[s] # 0 <=> Graphical(s)

=============================================================================
