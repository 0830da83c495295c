------------------------- MODULE SeatManagerProofs -------------------------
(***************************************************************************)
(* Safety of SeatManager, for any number of seats, displays and events.   *)
(***************************************************************************)
EXTENDS SeatManager, FiniteSetTheorems, SequenceTheorems, WellFoundedInduction, TLAPS

-----------------------------------------------------------------------------
(***************************************************************************)
(* What a message on its way is about                                     *)
(***************************************************************************)

Shown(s) == seats.current[s] # 0
AliveOf(s) == {w \in DOMAIN watchers[s] : watchers[s][w].alive}

Announces(m, s) ==
    \/ m.kind = "SeatNew" /\ m.seat = s
    \/ m.kind = "Listed" /\ \E i \in DOMAIN m.list : m.list[i] = s
Ends(m, s) == m.kind = "SeatRemoved" /\ m.seat = s
Tells(m, s) == m.kind = "Changed" /\ m.seat = s
\* A reply, and one that a LogindSeat of the list ws still listens for.
RepliesTo(m, s) == m.kind = "Got" /\ m.seat = s
Answers(ws, m, s) == RepliesTo(m, s) /\ ws[m.watcher].alive
Values(ws, m, s) == Tells(m, s) \/ Answers(ws, m, s)
\* What takes a graphical seat away.
Clears(m, s) == (Tells(m, s) /\ ~m.value) \/ Ends(m, s)
News(m, s) == Announces(m, s) \/ Ends(m, s) \/ Tells(m, s) \/ RepliesTo(m, s)

-----------------------------------------------------------------------------
(***************************************************************************)
(* The inductive invariant                                                *)
(***************************************************************************)

\* A call and its reply name a LogindSeat there has been.
Wired ==
    /\ \A i \in DOMAIN calls : calls[i].op = "Get" =>
          calls[i].watcher \in DOMAIN watchers[calls[i].seat]
    /\ \A i \in DOMAIN bus : bus[i].kind \in {"Got", "Failed"} =>
          bus[i].watcher \in DOMAIN watchers[bus[i].seat]

\* ListSeats is the first call and is made once; before it is answered there
\* is no other reply, and before the match rules are there no signal of logind's.
StartUp ==
    /\ manager \in {"new", "alone"} =>
          /\ calls = <<>> /\ bus = <<>> /\ early = {} /\ missed = {}
          /\ \A s \in Seats : watchers[s] = <<>> /\ system[s] = 0
    /\ manager = "asked" =>
          /\ \A i \in DOMAIN bus : bus[i].kind \notin {"SeatNew", "SeatRemoved"}
          /\ ~ListSeatsServed =>
                /\ bus = <<>>
                /\ \A s \in Seats : watchers[s] = <<>> /\ system[s] = 0 /\ ~Shown(s)
    /\ \A i \in DOMAIN calls : calls[i].op = "ListSeats" => i = 1
    /\ \A i \in DOMAIN bus : bus[i].kind \in {"Listed", "Got", "Failed"} => ListSeatsServed
    /\ \A i, j \in DOMAIN bus : bus[i].kind = "Listed" /\ bus[j].kind = "Listed" => i = j

\* A seat that is gone: the daemon knows nothing of it, or its removal is the
\* last it will hear.
Quiet(s) == system[s] = 0 /\ ~Shown(s) /\ \A i \in DOMAIN bus : ~News(bus[i], s)
GoneKnown(s) ==
    ~logind[s].there =>
        \/ Quiet(s)
        \/ \E i \in DOMAIN bus : Ends(bus[i], s) /\ \A j \in DOMAIN bus : i < j => ~News(bus[j], s)

\* A seat that is there is known or will be announced.
ThereKnown(s) ==
    manager \in {"asked", "ready"} /\ logind[s].there =>
        /\ system[s] # 0 \/ ~ListSeatsServed \/ \E i \in DOMAIN bus : Announces(bus[i], s)
        /\ \A i \in DOMAIN bus : Ends(bus[i], s) =>
              \E j \in DOMAIN bus : i < j /\ Announces(bus[j], s)

\* Nothing is told of a seat that was not announced before.
NothingUnknown(s) ==
    /\ system[s] = 0 =>
          /\ ~Shown(s)
          /\ \A j \in DOMAIN bus : Values(watchers[s], bus[j], s) =>
                \E k \in DOMAIN bus : k < j /\ Announces(bus[k], s)
    /\ \A i, j \in DOMAIN bus : i < j /\ Ends(bus[i], s) /\ Values(watchers[s], bus[j], s) =>
          \E k \in DOMAIN bus : i < k /\ k < j /\ Announces(bus[k], s)

\* Before the list is handled every LogindSeat is the known one of its seat.
Listing == ~ListSeatsServed \/ \E i \in DOMAIN bus : bus[i].kind = "Listed"
NewlyThere(m, s) == m.kind = "SeatNew" /\ m.seat = s
OneBeforeListed(s) ==
    Listing =>
        /\ AliveOf(s) \subseteq {system[s]}
        /\ \A j \in DOMAIN bus : NewlyThere(bus[j], s) =>
              /\ system[s] # 0 => \E k \in DOMAIN bus : k < j /\ Ends(bus[k], s)
              /\ \A i \in DOMAIN bus : i < j /\ NewlyThere(bus[i], s) =>
                    \E k \in DOMAIN bus : i < k /\ k < j /\ Ends(bus[k], s)

\* From a reply that is heard on, every change of the seat is told.
Faithful(s) ==
    \A i \in DOMAIN bus : Answers(watchers[s], bus[i], s) =>
        /\ \A j \in DOMAIN bus :
              (/\ i < j /\ Answers(watchers[s], bus[j], s)
               /\ \A k \in DOMAIN bus : i < k /\ k < j => ~Tells(bus[k], s) /\ ~Ends(bus[k], s))
              => (bus[j].value <=> bus[i].value)
        /\ (\A k \in DOMAIN bus : i < k => ~Ends(bus[k], s)) =>
              /\ (\A k \in DOMAIN bus : i < k => ~Tells(bus[k], s))
                    => (bus[i].value <=> logind[s].graphical)
              /\ \A j \in DOMAIN bus :
                    (/\ i < j /\ Tells(bus[j], s)
                     /\ \A k \in DOMAIN bus : j < k => ~Tells(bus[k], s))
                    => (bus[j].value <=> logind[s].graphical)

\* m_seats is as logind says, but for what is under way.
InStep(s) ==
    /\ \A j \in DOMAIN bus :
          Answers(watchers[s], bus[j], s) /\ (\A i \in DOMAIN bus : i < j => ~Tells(bus[i], s))
          => (bus[j].value <=> Shown(s))
    /\ (\A i \in DOMAIN bus : ~Tells(bus[i], s)) => (Shown(s) <=> logind[s].graphical)
    /\ \A j \in DOMAIN bus :
          Tells(bus[j], s) /\ (\A i \in DOMAIN bus : j < i => ~Tells(bus[i], s))
          => (bus[j].value <=> logind[s].graphical)
\* Or some LogindSeat agrees with it whose reply will correct both.
Asked(s) ==
    {w \in DOMAIN watchers[s] :
        \E i \in DOMAIN calls : calls[i].op = "Get" /\ calls[i].seat = s /\ calls[i].watcher = w}
Awaited(s, w) ==
    \/ w \in Asked(s)
    \/ \E i \in DOMAIN bus : RepliesTo(bus[i], s) /\ bus[i].watcher = w
WillBeCorrected(s) ==
    \E w \in AliveOf(s) : (watchers[s][w].graphical <=> Shown(s)) /\ Awaited(s, w)
Followed(s) ==
    system[s] # 0 /\ (\A i \in DOMAIN bus : ~Ends(bus[i], s)) => InStep(s) \/ WillBeCorrected(s)

\* What makes the settled daemon agree with logind.
Heard(s) ==
    /\ GoneKnown(s) /\ ThereKnown(s) /\ NothingUnknown(s) /\ OneBeforeListed(s)
    /\ Faithful(s) /\ Followed(s)

\* A seat announced once: one LogindSeat, which has the value that is shown, ...
OneWatcher(s) ==
    /\ AliveOf(s) \subseteq {system[s]}
    /\ system[s] # 0 => (watchers[s][system[s]].graphical <=> Shown(s))
    /\ system[s] = 0 => ~Shown(s) /\ \A i \in DOMAIN bus : ~Tells(bus[i], s)
\* ... and one announcement, or one removal, on its way, ...
OneAnnouncement(s) ==
    /\ system[s] # 0 => ListSeatsServed /\ \A i \in DOMAIN bus : ~Announces(bus[i], s)
    /\ \A i \in DOMAIN bus : Announces(bus[i], s) =>
          ListSeatsServed /\ \A j \in DOMAIN bus : Announces(bus[j], s) => i = j
    /\ \A i \in DOMAIN bus : Ends(bus[i], s) =>
          ~logind[s].there /\ \A j \in DOMAIN bus : i < j => ~News(bus[j], s)
\* ... and between two times that it becomes graphical it ceases to be.
Cleared(s) ==
    /\ Shown(s) =>
          /\ Graphical(s) \/ \E k \in DOMAIN bus : Clears(bus[k], s)
          /\ \A j \in DOMAIN bus : Tells(bus[j], s) /\ bus[j].value =>
                \E k \in DOMAIN bus : k < j /\ Clears(bus[k], s)
    /\ \A i \in DOMAIN bus : Values(watchers[s], bus[i], s) /\ bus[i].value =>
          /\ Graphical(s) \/ \E k \in DOMAIN bus : i < k /\ Clears(bus[k], s)
          /\ \A j \in DOMAIN bus : i < j /\ Tells(bus[j], s) /\ bus[j].value =>
                \E k \in DOMAIN bus : i < k /\ k < j /\ Clears(bus[k], s)

\* The Seat and the D-Bus object of a seat.
Unlisted(list, s) == \A i \in DOMAIN list : list[i].seat # s
ListedOnce(list, s) ==
    \E i \in DOMAIN list : list[i].seat = s /\ \A j \in DOMAIN list : list[j].seat = s => i = j
OneObject(s) ==
    IF Shown(s) THEN Running(s) = {seats.current[s]} /\ ListedOnce(seats.dbus, s)
                ELSE Running(s) = {} /\ Unlisted(seats.dbus, s)

Plain == Seats \ (early \cup missed)
Announced(s) == OneWatcher(s) /\ OneAnnouncement(s) /\ Cleared(s)

IInv ==
    /\ TypeOK /\ Wired /\ StartUp
    /\ manager # "alone" => /\ \A s \in Seats \ missed : Heard(s)
                            /\ \A s \in Plain : Announced(s)
    /\ \A s \in Plain : OneObject(s)

-----------------------------------------------------------------------------
(***************************************************************************)
(* The queue                                                              *)
(***************************************************************************)

\* Taking a message moves the others forward.
LEMMA Forward ==
    ASSUME NEW b \in Seq(Messages), b # <<>>
    PROVE  /\ Len(b) \in Nat /\ DOMAIN b = 1..Len(b) /\ 1 \in DOMAIN b /\ Head(b) = b[1]
           /\ Tail(b) \in Seq(Messages) /\ DOMAIN Tail(b) = 1..(Len(b) - 1)
           /\ \A i \in DOMAIN Tail(b) : i + 1 \in DOMAIN b /\ Tail(b)[i] = b[i + 1]
           /\ \A i \in DOMAIN b : i = 1 \/ (i - 1 \in DOMAIN Tail(b) /\ Tail(b)[i - 1] = b[i])
<1>1. Len(b) \in Nat /\ DOMAIN b = 1..Len(b) /\ Len(b) # 0
  OBVIOUS
<1>2. Tail(b) \in Seq(Messages) /\ DOMAIN Tail(b) = 1..(Len(b) - 1) /\ Head(b) = b[1]
  OBVIOUS
<1>3. \A i \in 1..(Len(b) - 1) : Tail(b)[i] = b[i + 1]
  OBVIOUS
<1>4. \A i \in 1..Len(b) : i # 1 => i - 1 \in 1..(Len(b) - 1) /\ (i - 1) + 1 = i
  BY <1>1
<1>5. \A i \in 1..(Len(b) - 1) : i + 1 \in 1..Len(b)
  BY <1>1
<1> QED BY <1>1, <1>2, <1>3, <1>4, <1>5

\* A message that is sent is the last.
LEMMA AtTheEnd ==
    ASSUME NEW b \in Seq(Messages), NEW m \in Messages
    PROVE  /\ Len(b) \in Nat /\ DOMAIN b = 1..Len(b)
           /\ Append(b, m) \in Seq(Messages) /\ DOMAIN Append(b, m) = 1..(Len(b) + 1)
           /\ Append(b, m)[Len(b) + 1] = m
           /\ \A i \in DOMAIN b : Append(b, m)[i] = b[i]
OBVIOUS

-----------------------------------------------------------------------------
(***************************************************************************)
(* The daemon takes a message                                             *)
(***************************************************************************)

\* What every such step has in common: no LogindSeat listens that did not.
Taking(s) ==
    /\ bus \in Seq(Messages) /\ bus # <<>> /\ bus' = Tail(bus)
    /\ logind' = logind /\ manager' = manager
    /\ ListSeatsServed' = ListSeatsServed
    /\ \A i \in DOMAIN bus : Answers(watchers'[s], bus[i], s) => Answers(watchers[s], bus[i], s)

\* The others in their order: what is at i + 1 comes to i.
LEMMA Taken ==
    ASSUME NEW s, Taking(s)
    PROVE  /\ Len(bus) \in Nat /\ DOMAIN bus = 1..Len(bus) /\ DOMAIN bus' = 1..(Len(bus) - 1)
           /\ 1 \in DOMAIN bus /\ Head(bus) = bus[1] /\ bus' \in Seq(Messages)
           /\ \A i \in DOMAIN bus' : i \in Nat /\ i + 1 \in DOMAIN bus /\ bus'[i] = bus[i + 1] /\ 1 < i + 1
           /\ \A i, j \in DOMAIN bus' : i < j <=> i + 1 < j + 1
           /\ \A k \in DOMAIN bus : k # 1 =>
                 k - 1 \in DOMAIN bus' /\ bus'[k - 1] = bus[k] /\ (k - 1) + 1 = k
           /\ \A k \in DOMAIN bus : \A i \in DOMAIN bus' :
                 /\ i + 1 < k => k # 1 /\ i < k - 1
                 /\ k < i + 1 => k - 1 < i
           /\ \A i, k \in DOMAIN bus : (i < k => i # k) /\ (1 < k <=> k # 1)
<1>1. bus \in Seq(Messages) /\ bus # <<>> /\ bus' = Tail(bus)
  BY DEF Taking
<1>2. /\ Len(bus) \in Nat /\ DOMAIN bus = 1..Len(bus) /\ DOMAIN bus' = 1..(Len(bus) - 1)
      /\ 1 \in DOMAIN bus /\ Head(bus) = bus[1] /\ bus' \in Seq(Messages)
      /\ \A i \in DOMAIN bus' : i + 1 \in DOMAIN bus /\ bus'[i] = bus[i + 1]
      /\ \A i \in DOMAIN bus : i = 1 \/ (i - 1 \in DOMAIN bus' /\ bus'[i - 1] = bus[i])
  BY <1>1, Forward
<1>3. /\ \A i \in DOMAIN bus' : i \in Nat /\ 1 < i + 1
      /\ \A i, j \in DOMAIN bus' : i < j <=> i + 1 < j + 1
      /\ \A k \in DOMAIN bus : (k - 1) + 1 = k
      /\ \A k \in DOMAIN bus : \A i \in DOMAIN bus' :
             /\ i + 1 < k => k # 1 /\ i < k - 1
             /\ k < i + 1 => k - 1 < i
      /\ \A i, k \in DOMAIN bus : (i < k => i # k) /\ (1 < k <=> k # 1)
  BY <1>2
<1> QED BY <1>2, <1>3

LEMMA FaithfulTaken ==
    ASSUME NEW s, Taking(s), Faithful(s)
    PROVE  Faithful(s)'
<1> SUFFICES ASSUME NEW i \in DOMAIN bus', Answers(watchers'[s], bus'[i], s)
             PROVE  /\ \A j \in DOMAIN bus' :
                          (/\ i < j /\ Answers(watchers'[s], bus'[j], s)
                           /\ \A k \in DOMAIN bus' : i < k /\ k < j => ~Tells(bus'[k], s) /\ ~Ends(bus'[k], s))
                          => (bus'[j].value <=> bus'[i].value)
                    /\ (\A k \in DOMAIN bus' : i < k => ~Ends(bus'[k], s)) =>
                          /\ (\A k \in DOMAIN bus' : i < k => ~Tells(bus'[k], s))
                                => (bus'[i].value <=> logind[s].graphical)
                          /\ \A j \in DOMAIN bus' :
                                (/\ i < j /\ Tells(bus'[j], s)
                                 /\ \A k \in DOMAIN bus' : j < k => ~Tells(bus'[k], s))
                                => (bus'[j].value <=> logind[s].graphical)
  BY DEF Faithful, Taking
<1>1. Answers(watchers[s], bus[i + 1], s) /\ i + 1 \in DOMAIN bus /\ bus'[i] = bus[i + 1]
  BY Taken DEF Taking
<1>2. ASSUME NEW j \in DOMAIN bus', i < j, Answers(watchers'[s], bus'[j], s),
             \A k \in DOMAIN bus' : i < k /\ k < j => ~Tells(bus'[k], s) /\ ~Ends(bus'[k], s)
      PROVE  bus'[j].value <=> bus'[i].value
  <2>1. Answers(watchers[s], bus[j + 1], s) /\ j + 1 \in DOMAIN bus /\ bus'[j] = bus[j + 1] /\ i + 1 < j + 1
    BY <1>2, Taken DEF Taking
  <2>2. \A k \in DOMAIN bus : i + 1 < k /\ k < j + 1 => ~Tells(bus[k], s) /\ ~Ends(bus[k], s)
    BY <1>2, Taken
  <2> QED BY <1>1, <2>1, <2>2 DEF Faithful
<1>3. ASSUME \A k \in DOMAIN bus' : i < k => ~Ends(bus'[k], s)
      PROVE  \A k \in DOMAIN bus : i + 1 < k => ~Ends(bus[k], s)
  BY <1>3, Taken
<1>4. ASSUME \A k \in DOMAIN bus' : i < k => ~Ends(bus'[k], s),
             \A k \in DOMAIN bus' : i < k => ~Tells(bus'[k], s)
      PROVE  bus'[i].value <=> logind[s].graphical
  <2>1. \A k \in DOMAIN bus : i + 1 < k => ~Tells(bus[k], s)
    BY <1>4, Taken
  <2> QED BY <1>1, <1>3, <1>4, <2>1 DEF Faithful
<1>5. ASSUME \A k \in DOMAIN bus' : i < k => ~Ends(bus'[k], s),
             NEW j \in DOMAIN bus', i < j, Tells(bus'[j], s),
             \A k \in DOMAIN bus' : j < k => ~Tells(bus'[k], s)
      PROVE  bus'[j].value <=> logind[s].graphical
  <2>1. j + 1 \in DOMAIN bus /\ bus'[j] = bus[j + 1] /\ i + 1 < j + 1
    BY <1>5, Taken
  <2>2. \A k \in DOMAIN bus : j + 1 < k => ~Tells(bus[k], s)
    BY <1>5, Taken
  <2> QED BY <1>1, <1>3, <1>5, <2>1, <2>2 DEF Faithful
<1> QED BY <1>2, <1>4, <1>5

LEMMA OneKind ==
    ASSUME NEW m, NEW s
    PROVE  /\ Announces(m, s) => ~Ends(m, s) /\ ~Tells(m, s) /\ ~RepliesTo(m, s) /\ News(m, s)
           /\ Ends(m, s) => ~Announces(m, s) /\ ~Tells(m, s) /\ ~RepliesTo(m, s) /\ News(m, s)
           /\ Tells(m, s) => ~Announces(m, s) /\ ~Ends(m, s) /\ ~RepliesTo(m, s) /\ News(m, s)
           /\ RepliesTo(m, s) => ~Announces(m, s) /\ ~Ends(m, s) /\ ~Tells(m, s) /\ News(m, s)
           /\ \A ws : Answers(ws, m, s) => RepliesTo(m, s)
           /\ \A ws : Values(ws, m, s) <=> Tells(m, s) \/ Answers(ws, m, s)
           /\ Clears(m, s) <=> (Tells(m, s) /\ ~m.value) \/ Ends(m, s)
           /\ News(m, s) <=> Announces(m, s) \/ Ends(m, s) \/ Tells(m, s) \/ RepliesTo(m, s)
           /\ NewlyThere(m, s) => Announces(m, s)
BY DEF Announces, Ends, Tells, RepliesTo, Answers, Values, Clears, News, NewlyThere

\* What the message taken may do to a seat: logindSeatAdded, logindSeatRemoved,
\* propertiesChanged, the reply to Get, or nothing.
Kept(s) ==
    /\ AliveOf(s)' = AliveOf(s) /\ system'[s] = system[s] /\ (Shown(s)' <=> Shown(s))
    /\ \A w \in AliveOf(s) : watchers'[s][w] = watchers[s][w]
Joins(s) ==
    /\ system'[s] # 0 /\ ~watchers'[s][system'[s]].graphical /\ system'[s] \in Asked(s)'
    /\ AliveOf(s)' = AliveOf(s) \cup {system'[s]} /\ (Shown(s)' <=> Shown(s))
    /\ \A w \in AliveOf(s) : watchers'[s][w] = watchers[s][w]
Leaves(s) ==
    /\ system'[s] = 0 /\ ~Shown(s)'
    /\ AliveOf(s)' = AliveOf(s) \ {system[s]}
Follows(s, v) ==
    /\ AliveOf(s)' = AliveOf(s) /\ system'[s] = system[s]
    /\ \A w \in AliveOf(s) : watchers'[s][w].graphical <=> v
    /\ AliveOf(s) # {} => (Shown(s)' <=> v)
    /\ AliveOf(s) = {} => (Shown(s)' <=> Shown(s))
Corrects(s, w, v) ==
    /\ AliveOf(s)' = AliveOf(s) /\ system'[s] = system[s] /\ w \in AliveOf(s)
    /\ watchers'[s][w].graphical <=> v
    /\ \A x \in AliveOf(s) \ {w} : watchers'[s][x] = watchers[s][x]
    /\ Shown(s)' <=> v

Takes(s) ==
    /\ Taking(s) /\ Asked(s) \subseteq Asked(s)'
    /\ system[s] # 0 => system[s] \in AliveOf(s)
    /\ 0 \notin AliveOf(s)
    /\ \A i \in DOMAIN bus : Answers(watchers[s], bus[i], s) => bus[i].watcher \in AliveOf(s)
    /\ Announces(bus[1], s) => Joins(s)
    /\ Ends(bus[1], s) => Leaves(s)
    /\ Tells(bus[1], s) => Follows(s, bus[1].value)
    /\ RepliesTo(bus[1], s) =>
          \/ Answers(watchers[s], bus[1], s) /\ Corrects(s, bus[1].watcher, bus[1].value)
          \/ /\ Kept(s)
             /\ Answers(watchers[s], bus[1], s)
                   => (bus[1].value <=> watchers[s][bus[1].watcher].graphical)
    /\ ~News(bus[1], s) => Kept(s)

LEMMA GoneTaken ==
    ASSUME NEW s, Takes(s), GoneKnown(s)
    PROVE  GoneKnown(s)'
<1> SUFFICES ASSUME ~logind[s].there
             PROVE  \/ Quiet(s)'
                    \/ \E i \in DOMAIN bus' : Ends(bus'[i], s) /\ \A j \in DOMAIN bus' : i < j => ~News(bus'[j], s)
  BY DEF GoneKnown, Takes, Taking, Ends, News, Announces, Tells, RepliesTo
<1>1. CASE Quiet(s)
  <2>1. \A i \in DOMAIN bus' : ~News(bus'[i], s)
    BY <1>1, Taken DEF Quiet, Takes
  <2>2. Kept(s)
    BY <1>1, Taken DEF Quiet, Takes
  <2> QED BY <1>1, <2>1, <2>2 DEF Quiet, Kept, Shown, News, Announces, Ends, Tells, RepliesTo
<1>2. ASSUME NEW i \in DOMAIN bus, Ends(bus[i], s), \A j \in DOMAIN bus : i < j => ~News(bus[j], s)
      PROVE  \/ Quiet(s)'
             \/ \E k \in DOMAIN bus' : Ends(bus'[k], s) /\ \A j \in DOMAIN bus' : k < j => ~News(bus'[j], s)
  <2>1. CASE i = 1
    <3>1. \A j \in DOMAIN bus' : ~News(bus'[j], s)
      BY <1>2, <2>1, Taken DEF Takes
    <3>2. Leaves(s)
      BY <1>2, <2>1 DEF Takes
    <3> QED BY <3>1, <3>2 DEF Quiet, Leaves, Shown, News, Announces, Ends, Tells, RepliesTo
  <2>2. CASE i # 1
    <3>1. i - 1 \in DOMAIN bus' /\ bus'[i - 1] = bus[i] /\ (i - 1) + 1 = i
      BY <2>2, Taken DEF Takes
    <3>2. \A j \in DOMAIN bus' : i - 1 < j => ~News(bus'[j], s)
      BY <1>2, <3>1, Taken DEF Takes
    <3> QED BY <1>2, <3>1, <3>2
  <2> QED BY <2>1, <2>2
<1> QED BY <1>1, <1>2 DEF GoneKnown

LEMMA ThereTaken ==
    ASSUME NEW s, Takes(s), ThereKnown(s)
    PROVE  ThereKnown(s)'
<1> SUFFICES ASSUME manager \in {"asked", "ready"}, logind[s].there
             PROVE  /\ system'[s] # 0 \/ ~ListSeatsServed \/ \E i \in DOMAIN bus' : Announces(bus'[i], s)
                    /\ \A i \in DOMAIN bus' : Ends(bus'[i], s) =>
                          \E j \in DOMAIN bus' : i < j /\ Announces(bus'[j], s)
  BY DEF ThereKnown, Takes, Taking, Announces, Ends
<1>1. /\ system[s] # 0 \/ ~ListSeatsServed \/ \E i \in DOMAIN bus : Announces(bus[i], s)
      /\ \A i \in DOMAIN bus : Ends(bus[i], s) => \E j \in DOMAIN bus : i < j /\ Announces(bus[j], s)
  BY DEF ThereKnown
<1>2. \A j \in DOMAIN bus : j # 1 /\ Announces(bus[j], s) => \E i \in DOMAIN bus' : Announces(bus'[i], s)
  BY Taken DEF Takes
<1>3. Ends(bus[1], s) => \E i \in DOMAIN bus' : Announces(bus'[i], s)
  BY <1>1, <1>2, Taken DEF Takes
<1>4. Announces(bus[1], s) => system'[s] # 0
  BY DEF Takes, Joins
<1>5. ~Ends(bus[1], s) /\ system[s] # 0 => system'[s] # 0
  BY OneKind DEF Takes, Joins, Follows, Corrects, Kept
<1>6. ASSUME NEW i \in DOMAIN bus', Ends(bus'[i], s)
      PROVE  \E j \in DOMAIN bus' : i < j /\ Announces(bus'[j], s)
  <2>1. PICK j \in DOMAIN bus : i + 1 < j /\ Announces(bus[j], s)
    BY <1>1, <1>6, Taken DEF Takes
  <2>2. j - 1 \in DOMAIN bus' /\ i < j - 1 /\ bus'[j - 1] = bus[j]
    BY <2>1, Taken DEF Takes
  <2> QED BY <2>1, <2>2
<1> QED BY <1>1, <1>2, <1>3, <1>4, <1>5, <1>6

LEMMA UnknownTaken ==
    ASSUME NEW s, Takes(s), NothingUnknown(s)
    PROVE  NothingUnknown(s)'
<1>1. ASSUME NEW j \in DOMAIN bus, 1 < j, NEW k \in DOMAIN bus, k < j, Announces(bus[k], s), k # 1
      PROVE  \E m \in DOMAIN bus' : m + 1 = k /\ m < j - 1 /\ Announces(bus'[m], s)
  <2>1. k - 1 \in DOMAIN bus' /\ bus'[k - 1] = bus[k] /\ (k - 1) + 1 = k /\ j - 1 \in DOMAIN bus' /\ (j - 1) + 1 = j
    BY <1>1, Taken DEF Takes
  <2>2. k - 1 < j - 1
    BY <1>1, <2>1, Taken DEF Takes
  <2> QED BY <1>1, <2>1, <2>2
<1>2. ASSUME NEW j \in DOMAIN bus', Values(watchers'[s], bus'[j], s)
      PROVE  j + 1 \in DOMAIN bus /\ Values(watchers[s], bus[j + 1], s) /\ 1 < j + 1 /\ (j + 1) - 1 = j
  <2>1. j + 1 \in DOMAIN bus /\ bus'[j] = bus[j + 1] /\ 1 < j + 1 /\ (j + 1) - 1 = j
    BY Taken DEF Takes
  <2>2. Tells(bus[j + 1], s) \/ Answers(watchers'[s], bus[j + 1], s)
    BY <1>2, <2>1 DEF Values
  <2> QED BY <2>1, <2>2 DEF Values, Takes, Taking
<1>3. ASSUME system'[s] = 0
      PROVE  /\ ~Shown(s)'
             /\ \A j \in DOMAIN bus' : Values(watchers'[s], bus'[j], s) =>
                   \E k \in DOMAIN bus' : k < j /\ Announces(bus'[k], s)
  <2>1. ~Announces(bus[1], s)
    BY <1>3 DEF Takes, Joins
  <2>2. CASE Ends(bus[1], s)
    <3>1. ~Shown(s)'
      BY <2>2 DEF Takes, Leaves
    <3>2. ASSUME NEW j \in DOMAIN bus', Values(watchers'[s], bus'[j], s)
          PROVE  \E k \in DOMAIN bus' : k < j /\ Announces(bus'[k], s)
      <4>1. PICK k \in DOMAIN bus : 1 < k /\ k < j + 1 /\ Announces(bus[k], s)
        BY <1>2, <2>2, <3>2, Taken DEF NothingUnknown, Takes
      <4> QED BY <1>1, <1>2, <3>2, <4>1, Taken DEF Takes
    <3> QED BY <3>1, <3>2
  <2>3. CASE ~Ends(bus[1], s)
    <3>1. system[s] = 0
      BY <1>3, <2>1, <2>3, OneKind DEF Takes, Follows, Corrects, Kept
    <3>2. ~Shown(s) /\ ~Values(watchers[s], bus[1], s)
      BY <3>1, Taken DEF NothingUnknown, Takes
    <3>3. ~Shown(s)'
      BY <2>1, <2>3, <3>2, OneKind DEF Takes, Kept
    <3>4. ASSUME NEW j \in DOMAIN bus', Values(watchers'[s], bus'[j], s)
          PROVE  \E k \in DOMAIN bus' : k < j /\ Announces(bus'[k], s)
      <4>1. j + 1 \in DOMAIN bus /\ Values(watchers[s], bus[j + 1], s) /\ 1 < j + 1 /\ (j + 1) - 1 = j
        BY <1>2, <3>4
      <4>2. PICK k \in DOMAIN bus : k < j + 1 /\ Announces(bus[k], s)
        BY <3>1, <4>1 DEF NothingUnknown
      <4>3. PICK m \in DOMAIN bus' : m + 1 = k /\ m < (j + 1) - 1 /\ Announces(bus'[m], s)
        BY <1>1, <2>1, <4>1, <4>2
      <4> QED BY <4>1, <4>3
    <3> QED BY <3>3, <3>4
  <2> QED BY <2>2, <2>3
<1>4. ASSUME NEW i \in DOMAIN bus', NEW j \in DOMAIN bus', i < j, Ends(bus'[i], s),
             Values(watchers'[s], bus'[j], s)
      PROVE  \E k \in DOMAIN bus' : i < k /\ k < j /\ Announces(bus'[k], s)
  <2>1. i + 1 \in DOMAIN bus /\ i + 1 < j + 1 /\ Ends(bus[i + 1], s)
    BY <1>4, Taken DEF Takes
  <2>2. PICK k \in DOMAIN bus : i + 1 < k /\ k < j + 1 /\ Announces(bus[k], s)
    BY <1>2, <1>4, <2>1 DEF NothingUnknown
  <2>3. k - 1 \in DOMAIN bus' /\ i < k - 1 /\ k - 1 < j /\ bus'[k - 1] = bus[k]
    BY <2>2, Taken DEF Takes
  <2> QED BY <2>2, <2>3
<1> QED BY <1>3, <1>4 DEF NothingUnknown, Values, Tells, Answers, RepliesTo, Ends, Announces, Shown

LEMMA OneBeforeListedTaken ==
    ASSUME NEW s, Takes(s), OneBeforeListed(s), Listing' => Listing,
           Listing' => bus[1].kind # "Listed"
    PROVE  OneBeforeListed(s)'
<1> SUFFICES ASSUME Listing, bus[1].kind # "Listed"
             PROVE  /\ AliveOf(s)' \subseteq {system'[s]}
                    /\ \A j \in DOMAIN bus' : NewlyThere(bus'[j], s) =>
                          /\ system'[s] # 0 => \E k \in DOMAIN bus' : k < j /\ Ends(bus'[k], s)
                          /\ \A i \in DOMAIN bus' : i < j /\ NewlyThere(bus'[i], s) =>
                                \E k \in DOMAIN bus' : i < k /\ k < j /\ Ends(bus'[k], s)
  BY DEF OneBeforeListed, NewlyThere, Ends
<1>1. /\ AliveOf(s) \subseteq {system[s]}
      /\ \A j \in DOMAIN bus : NewlyThere(bus[j], s) =>
            /\ system[s] # 0 => \E k \in DOMAIN bus : k < j /\ Ends(bus[k], s)
            /\ \A i \in DOMAIN bus : i < j /\ NewlyThere(bus[i], s) =>
                  \E k \in DOMAIN bus : i < k /\ k < j /\ Ends(bus[k], s)
  BY DEF OneBeforeListed
<1>2. Announces(bus[1], s) => NewlyThere(bus[1], s)
  BY DEF Announces, NewlyThere
<1>3. ASSUME Announces(bus[1], s) PROVE system[s] = 0 /\ AliveOf(s) = {}
  BY <1>1, <1>2, <1>3, Taken DEF Takes
<1>4. AliveOf(s)' \subseteq {system'[s]}
  <2>1. CASE Announces(bus[1], s)
    BY <2>1, <1>3 DEF Takes, Joins
  <2>2. CASE Ends(bus[1], s)
    BY <2>2, <1>1 DEF Takes, Leaves
  <2>3. CASE ~Announces(bus[1], s) /\ ~Ends(bus[1], s)
    BY <2>3, <1>1, OneKind DEF Takes, Follows, Corrects, Kept
  <2> QED BY <2>1, <2>2, <2>3
<1>5. ASSUME NEW j \in DOMAIN bus', NewlyThere(bus'[j], s), system'[s] # 0
      PROVE  \E k \in DOMAIN bus' : k < j /\ Ends(bus'[k], s)
  <2>1. j + 1 \in DOMAIN bus /\ NewlyThere(bus[j + 1], s) /\ 1 < j + 1 /\ ~Ends(bus[1], s)
    BY <1>5, Taken DEF Takes, Leaves
  <2>2. CASE Announces(bus[1], s)
    <3>1. PICK k \in DOMAIN bus : 1 < k /\ k < j + 1 /\ Ends(bus[k], s)
      BY <1>1, <1>2, <2>1, <2>2, Taken DEF Takes
    <3> QED BY <3>1, Taken DEF Takes
  <2>3. CASE ~Announces(bus[1], s)
    <3>1. system[s] # 0
      BY <1>5, <2>1, <2>3, OneKind DEF Takes, Follows, Corrects, Kept
    <3>2. PICK k \in DOMAIN bus : k < j + 1 /\ Ends(bus[k], s)
      BY <1>1, <2>1, <3>1
    <3> QED BY <2>1, <3>2, Taken DEF Takes
  <2> QED BY <2>2, <2>3
<1>6. ASSUME NEW j \in DOMAIN bus', NEW i \in DOMAIN bus', i < j,
             NewlyThere(bus'[j], s), NewlyThere(bus'[i], s)
      PROVE  \E k \in DOMAIN bus' : i < k /\ k < j /\ Ends(bus'[k], s)
  <2>1. /\ j + 1 \in DOMAIN bus /\ NewlyThere(bus[j + 1], s) /\ i + 1 < j + 1
        /\ i + 1 \in DOMAIN bus /\ NewlyThere(bus[i + 1], s)
    BY <1>6, Taken DEF Takes
  <2>2. PICK k \in DOMAIN bus : i + 1 < k /\ k < j + 1 /\ Ends(bus[k], s)
    BY <1>1, <2>1
  <2> QED BY <2>2, Taken DEF Takes
<1> QED BY <1>4, <1>5, <1>6

\* Every message in the queue that is left was behind the one taken.
LEMMA InStepTaken ==
    ASSUME NEW s, Taking(s), InStep(s), ~Tells(bus[1], s), Shown(s)' <=> Shown(s)
    PROVE  InStep(s)'
<1>1. (\A i \in DOMAIN bus' : ~Tells(bus'[i], s)) => (Shown(s)' <=> logind'[s].graphical)
  <2>1. (\A i \in DOMAIN bus' : ~Tells(bus'[i], s)) => (\A i \in DOMAIN bus : ~Tells(bus[i], s))
    BY Taken
  <2> QED BY <2>1 DEF InStep, Taking
<1>2. ASSUME NEW j \in DOMAIN bus', Tells(bus'[j], s), \A i \in DOMAIN bus' : j < i => ~Tells(bus'[i], s)
      PROVE  bus'[j].value <=> logind'[s].graphical
  <2>1. \A i \in DOMAIN bus : j + 1 < i => ~Tells(bus[i], s)
    BY <1>2, Taken
  <2> QED BY <1>2, <2>1, Taken DEF InStep, Taking
<1>3. ASSUME NEW j \in DOMAIN bus', Answers(watchers'[s], bus'[j], s),
             \A i \in DOMAIN bus' : i < j => ~Tells(bus'[i], s)
      PROVE  bus'[j].value <=> Shown(s)'
  <2>1. \A i \in DOMAIN bus : i < j + 1 => ~Tells(bus[i], s)
    BY <1>3, Taken
  <2>2. j + 1 \in DOMAIN bus /\ bus'[j] = bus[j + 1] /\ Answers(watchers[s], bus[j + 1], s)
    BY <1>3, Taken DEF Taking
  <2> QED BY <2>1, <2>2 DEF InStep
<1> QED BY <1>1, <1>2, <1>3 DEF InStep, Tells, Answers, RepliesTo, Shown

\* A reply that is heard puts m_seats in step.
LEMMA InStepAnswered ==
    ASSUME NEW s, Taking(s), Faithful(s), Answers(watchers[s], bus[1], s),
           \A i \in DOMAIN bus' : ~Ends(bus'[i], s), Shown(s)' <=> bus[1].value
    PROVE  InStep(s)'
<1>1. \A k \in DOMAIN bus : 1 < k => ~Ends(bus[k], s)
  BY Taken
<1>2. (\A i \in DOMAIN bus' : ~Tells(bus'[i], s)) => (Shown(s)' <=> logind'[s].graphical)
  <2>1. (\A i \in DOMAIN bus' : ~Tells(bus'[i], s)) => (\A i \in DOMAIN bus : 1 < i => ~Tells(bus[i], s))
    BY Taken
  <2> QED BY <1>1, <2>1, Taken DEF Faithful, Taking
<1>3. ASSUME NEW j \in DOMAIN bus', Tells(bus'[j], s), \A i \in DOMAIN bus' : j < i => ~Tells(bus'[i], s)
      PROVE  bus'[j].value <=> logind'[s].graphical
  <2>1. \A i \in DOMAIN bus : j + 1 < i => ~Tells(bus[i], s)
    BY <1>3, Taken
  <2>2. j + 1 \in DOMAIN bus /\ bus'[j] = bus[j + 1] /\ 1 < j + 1
    BY Taken
  <2>3. bus[j + 1].value <=> logind[s].graphical
    <3>1. \A m \in DOMAIN bus :
              1 < m /\ Tells(bus[m], s) /\ (\A k \in DOMAIN bus : m < k => ~Tells(bus[k], s))
              => (bus[m].value <=> logind[s].graphical)
      BY <1>1, Taken DEF Faithful
    <3>2. Tells(bus[j + 1], s)
      BY <1>3, <2>2
    <3> QED BY <2>1, <2>2, <3>1, <3>2
  <2> QED BY <2>2, <2>3 DEF Taking
<1>4. ASSUME NEW j \in DOMAIN bus', Answers(watchers'[s], bus'[j], s),
             \A i \in DOMAIN bus' : i < j => ~Tells(bus'[i], s)
      PROVE  bus'[j].value <=> Shown(s)'
  <2>1. \A i \in DOMAIN bus : 1 < i /\ i < j + 1 => ~Tells(bus[i], s) /\ ~Ends(bus[i], s)
    BY <1>1, <1>4, Taken
  <2>2. j + 1 \in DOMAIN bus /\ bus'[j] = bus[j + 1] /\ Answers(watchers[s], bus[j + 1], s) /\ 1 < j + 1
    BY <1>4, Taken DEF Taking
  <2>3. bus[j + 1].value <=> bus[1].value
    BY <2>1, <2>2, Taken DEF Faithful
  <2> QED BY <2>2, <2>3
<1> QED BY <1>2, <1>3, <1>4 DEF InStep, Tells, Answers, RepliesTo, Shown

\* After a change is told, m_seats is in step if no reply is awaited.
LEMMA InStepTold ==
    ASSUME NEW s, Taking(s), InStep(s), Tells(bus[1], s), Shown(s)' <=> bus[1].value,
           \A i \in DOMAIN bus' : ~Answers(watchers'[s], bus'[i], s)
    PROVE  InStep(s)'
<1>1. (\A i \in DOMAIN bus' : ~Tells(bus'[i], s)) => (Shown(s)' <=> logind'[s].graphical)
  <2>1. (\A i \in DOMAIN bus' : ~Tells(bus'[i], s)) => (\A i \in DOMAIN bus : 1 < i => ~Tells(bus[i], s))
    BY Taken
  <2> QED BY <2>1, Taken DEF InStep, Taking
<1>2. ASSUME NEW j \in DOMAIN bus', Tells(bus'[j], s), \A i \in DOMAIN bus' : j < i => ~Tells(bus'[i], s)
      PROVE  bus'[j].value <=> logind'[s].graphical
  <2>1. \A i \in DOMAIN bus : j + 1 < i => ~Tells(bus[i], s)
    BY <1>2, Taken
  <2> QED BY <1>2, <2>1, Taken DEF InStep, Taking
<1> QED BY <1>1, <1>2 DEF InStep, Tells, Answers, RepliesTo, Shown

LEMMA FollowedTaken ==
    ASSUME NEW s, Takes(s), Followed(s), Faithful(s), NothingUnknown(s)
    PROVE  Followed(s)'
<1> SUFFICES ASSUME system'[s] # 0, \A i \in DOMAIN bus' : ~Ends(bus'[i], s)
             PROVE  InStep(s)' \/ WillBeCorrected(s)'
  BY DEF Followed, Ends
<1>1. ~Ends(bus[1], s)
  BY DEF Takes, Leaves
<1>2. \A i \in DOMAIN bus : ~Ends(bus[i], s)
  BY <1>1, Taken DEF Takes
<1>3. Taking(s)
  BY DEF Takes
\* A reply still awaited corrects the LogindSeat that has what is shown.
<1>4. ASSUME NEW w, w \in AliveOf(s)', watchers'[s][w].graphical <=> Shown(s)', Awaited(s, w),
             ~(RepliesTo(bus[1], s) /\ bus[1].watcher = w)
      PROVE  WillBeCorrected(s)'
  <2>1. w \in Asked(s)' \/ \E i \in DOMAIN bus' : RepliesTo(bus'[i], s) /\ bus'[i].watcher = w
    BY <1>3, <1>4, Taken DEF Takes, Awaited
  <2>2. Awaited(s, w)'
    BY <2>1 DEF Awaited, RepliesTo
  <2> QED BY <1>4, <2>2 DEF WillBeCorrected
<1>5. CASE Announces(bus[1], s)
  <2>1. Joins(s) /\ ~Tells(bus[1], s) /\ ~RepliesTo(bus[1], s)
    BY <1>5, OneKind DEF Takes
  <2>2. CASE system[s] = 0
    <3>1. ~Shown(s)'
      BY <2>1, <2>2 DEF NothingUnknown, Joins
    <3>2. PICK w : w = system'[s]
      OBVIOUS
    <3>3. w \in AliveOf(s)' /\ w \in Asked(s)' /\ (watchers'[s][w].graphical <=> Shown(s)')
      BY <2>1, <3>1, <3>2 DEF Joins
    <3>4. Awaited(s, w)'
      BY <3>3 DEF Awaited
    <3> QED BY <3>3, <3>4 DEF WillBeCorrected
  <2>3. CASE system[s] # 0 /\ InStep(s)
    BY <1>3, <2>1, <2>3, InStepTaken DEF Joins
  <2>4. CASE system[s] # 0 /\ WillBeCorrected(s)
    <3>1. PICK w \in AliveOf(s) : (watchers[s][w].graphical <=> Shown(s)) /\ Awaited(s, w)
      BY <2>4 DEF WillBeCorrected
    <3>2. w \in AliveOf(s)' /\ (watchers'[s][w].graphical <=> Shown(s)')
      BY <2>1, <3>1 DEF Joins
    <3> QED BY <1>4, <2>1, <3>1, <3>2
  <2> QED BY <1>2, <2>2, <2>3, <2>4 DEF Followed
<1>6. CASE Tells(bus[1], s)
  <2>1. Follows(s, bus[1].value) /\ ~RepliesTo(bus[1], s)
    BY <1>6, OneKind DEF Takes
  <2>2. system[s] # 0 /\ AliveOf(s) # {}
    BY <2>1 DEF Follows, Takes
  <2>3. \A w \in AliveOf(s) : w \in AliveOf(s)' /\ (watchers'[s][w].graphical <=> Shown(s)')
    BY <2>1, <2>2 DEF Follows
  <2>4. Shown(s)' <=> bus[1].value
    BY <2>1, <2>2 DEF Follows
  <2>5. CASE WillBeCorrected(s)
    <3>1. PICK w \in AliveOf(s) : Awaited(s, w)
      BY <2>5 DEF WillBeCorrected
    <3> QED BY <1>4, <2>1, <2>3, <3>1
  <2>6. ASSUME NEW i \in DOMAIN bus', Answers(watchers'[s], bus'[i], s)
        PROVE  WillBeCorrected(s)'
    <3>1. i + 1 \in DOMAIN bus /\ bus'[i] = bus[i + 1] /\ Answers(watchers[s], bus[i + 1], s)
      BY <1>3, <2>6, Taken DEF Taking
    <3>2. bus'[i].watcher \in AliveOf(s) /\ RepliesTo(bus'[i], s)
      BY <3>1, OneKind DEF Takes
    <3>3. Awaited(s, bus'[i].watcher)
      BY <3>1, <3>2 DEF Awaited
    <3> QED BY <1>4, <2>1, <2>3, <3>2, <3>3
  <2>7. CASE InStep(s)
    BY <1>3, <1>6, <2>4, <2>6, <2>7, InStepTold
  <2> QED BY <1>2, <2>2, <2>5, <2>7 DEF Followed
<1>7. CASE RepliesTo(bus[1], s)
  <2>1. CASE Answers(watchers[s], bus[1], s) /\ Corrects(s, bus[1].watcher, bus[1].value)
    BY <1>3, <2>1, InStepAnswered DEF Corrects
  <2>2. CASE /\ Kept(s)
             /\ Answers(watchers[s], bus[1], s)
                   => (bus[1].value <=> watchers[s][bus[1].watcher].graphical)
    <3>1. CASE InStep(s)
      BY <1>3, <1>7, <2>2, <3>1, InStepTaken, OneKind DEF Kept
    <3>2. CASE WillBeCorrected(s)
      <4>1. PICK w \in AliveOf(s) : (watchers[s][w].graphical <=> Shown(s)) /\ Awaited(s, w)
        BY <3>2 DEF WillBeCorrected
      <4>2. w \in AliveOf(s)' /\ (watchers'[s][w].graphical <=> Shown(s)')
        BY <2>2, <4>1 DEF Kept
      <4>3. CASE bus[1].watcher = w
        <5>1. Answers(watchers[s], bus[1], s)
          BY <1>7, <4>1, <4>3 DEF Answers, AliveOf
        <5>2. Shown(s)' <=> bus[1].value
          BY <2>2, <4>1, <4>3, <5>1 DEF Kept
        <5> QED BY <1>3, <5>1, <5>2, InStepAnswered
      <4>4. CASE bus[1].watcher # w
        BY <1>4, <4>1, <4>2, <4>4
      <4> QED BY <4>3, <4>4
    <3>3. system[s] # 0
      BY <2>2 DEF Kept
    <3> QED BY <1>2, <3>1, <3>2, <3>3 DEF Followed
  <2> QED BY <1>7, <2>1, <2>2 DEF Takes
<1>8. CASE ~News(bus[1], s)
  <2>1. Kept(s) /\ ~Tells(bus[1], s) /\ ~RepliesTo(bus[1], s)
    BY <1>8, OneKind DEF Takes
  <2>2. CASE InStep(s)
    BY <1>3, <2>1, <2>2, InStepTaken DEF Kept
  <2>3. CASE WillBeCorrected(s)
    <3>1. PICK w \in AliveOf(s) : (watchers[s][w].graphical <=> Shown(s)) /\ Awaited(s, w)
      BY <2>3 DEF WillBeCorrected
    <3>2. w \in AliveOf(s)' /\ (watchers'[s][w].graphical <=> Shown(s)')
      BY <2>1, <3>1 DEF Kept
    <3> QED BY <1>4, <2>1, <3>1, <3>2
  <2> QED BY <1>2, <2>1, <2>2, <2>3 DEF Followed, Kept
<1> QED BY <1>1, <1>5, <1>6, <1>7, <1>8, OneKind

-----------------------------------------------------------------------------
\* A seat announced once.

LEMMA OneWatcherTaken ==
    ASSUME NEW s, Takes(s), OneWatcher(s), OneAnnouncement(s)
    PROVE  OneWatcher(s)'
<1> SUFFICES /\ AliveOf(s)' \subseteq {system'[s]}
             /\ system'[s] # 0 => (watchers'[s][system'[s]].graphical <=> Shown(s)')
             /\ system'[s] = 0 => ~Shown(s)' /\ \A i \in DOMAIN bus' : ~Tells(bus'[i], s)
  BY DEF OneWatcher, Shown, Tells
<1>1. /\ AliveOf(s) \subseteq {system[s]}
      /\ system[s] # 0 => (watchers[s][system[s]].graphical <=> Shown(s)) /\ AliveOf(s) = {system[s]}
      /\ system[s] = 0 => /\ ~Shown(s) /\ AliveOf(s) = {}
                          /\ \A i \in DOMAIN bus : ~Tells(bus[i], s)
  BY DEF OneWatcher, Takes
<1>2. ASSUME system[s] = 0
      PROVE  \A i \in DOMAIN bus' : ~Tells(bus'[i], s)
  BY <1>1, <1>2, Taken DEF Takes
<1>3. CASE Announces(bus[1], s)
  <2>1. system[s] = 0 /\ Joins(s)
    BY <1>3, Taken DEF OneAnnouncement, Takes
  <2> QED BY <1>1, <2>1 DEF Joins
<1>4. CASE Ends(bus[1], s)
  <2>1. \A i \in DOMAIN bus' : ~Tells(bus'[i], s)
    BY <1>4, Taken, OneKind DEF OneAnnouncement, Takes
  <2>2. Leaves(s)
    BY <1>4 DEF Takes
  <2> QED BY <1>1, <2>1, <2>2 DEF Leaves
<1>5. CASE Tells(bus[1], s)
  <2>1. Follows(s, bus[1].value) /\ system[s] # 0
    BY <1>1, <1>5, Taken DEF Takes
  <2> QED BY <1>1, <2>1 DEF Follows
<1>6. CASE ~Announces(bus[1], s) /\ ~Ends(bus[1], s) /\ ~Tells(bus[1], s)
  <2>1. CASE Kept(s)
    BY <1>1, <1>2, <2>1 DEF Kept
  <2>2. CASE Corrects(s, bus[1].watcher, bus[1].value)
    BY <1>1, <1>2, <2>2 DEF Corrects
  <2> QED BY <1>6, <2>1, <2>2, OneKind DEF Takes
<1> QED BY <1>3, <1>4, <1>5, <1>6

LEMMA OneAnnouncementTaken ==
    ASSUME NEW s, Takes(s), OneAnnouncement(s)
    PROVE  OneAnnouncement(s)'
<1>1. ASSUME system'[s] # 0
      PROVE  ListSeatsServed' /\ \A i \in DOMAIN bus' : ~Announces(bus'[i], s)
  <2>1. CASE Announces(bus[1], s)
    <3>1. ListSeatsServed /\ \A j \in DOMAIN bus : Announces(bus[j], s) => 1 = j
      BY <2>1, Taken DEF OneAnnouncement, Takes
    <3>2. ListSeatsServed'
      BY <3>1 DEF Takes, Taking
    <3> QED BY <3>1, <3>2, Taken DEF Takes
  <2>2. CASE ~Announces(bus[1], s)
    <3>1. system[s] # 0
      BY <1>1, <2>2, OneKind DEF Takes, Leaves, Follows, Corrects, Kept
    <3>2. ListSeatsServed /\ \A j \in DOMAIN bus : ~Announces(bus[j], s)
      BY <3>1 DEF OneAnnouncement
    <3>3. ListSeatsServed'
      BY <3>2 DEF Takes, Taking
    <3> QED BY <3>2, <3>3, Taken DEF Takes
  <2> QED BY <2>1, <2>2
<1>2. ASSUME NEW i \in DOMAIN bus', Announces(bus'[i], s)
      PROVE  ListSeatsServed' /\ \A j \in DOMAIN bus' : Announces(bus'[j], s) => i = j
  <2>1. i + 1 \in DOMAIN bus /\ Announces(bus[i + 1], s)
    BY <1>2, Taken DEF Takes
  <2>2. ListSeatsServed /\ \A j \in DOMAIN bus : Announces(bus[j], s) => i + 1 = j
    BY <2>1 DEF OneAnnouncement
  <2>3. ListSeatsServed'
    BY <2>2 DEF Takes, Taking
  <2>4. \A j \in DOMAIN bus' : i + 1 = j + 1 => i = j
    BY Taken DEF Takes
  <2> QED BY <2>2, <2>3, <2>4, Taken DEF Takes
<1>3. ASSUME NEW i \in DOMAIN bus', Ends(bus'[i], s)
      PROVE  ~logind'[s].there /\ \A j \in DOMAIN bus' : i < j => ~News(bus'[j], s)
  <2>1. i + 1 \in DOMAIN bus /\ Ends(bus[i + 1], s)
    BY <1>3, Taken DEF Takes
  <2>2. ~logind[s].there /\ \A j \in DOMAIN bus : i + 1 < j => ~News(bus[j], s)
    BY <2>1 DEF OneAnnouncement
  <2> QED BY <2>2, Taken DEF Takes, Taking
<1> QED BY <1>1, <1>2, <1>3 DEF OneAnnouncement, Announces, Ends, News, Tells, RepliesTo

LEMMA ClearedTaken ==
    ASSUME NEW s, Takes(s), OneWatcher(s), Cleared(s)
    PROVE  Cleared(s)'
<1> SUFFICES /\ Shown(s)' =>
                   /\ Graphical(s) \/ \E k \in DOMAIN bus' : Clears(bus'[k], s)
                   /\ \A j \in DOMAIN bus' : Tells(bus'[j], s) /\ bus'[j].value =>
                         \E k \in DOMAIN bus' : k < j /\ Clears(bus'[k], s)
             /\ \A i \in DOMAIN bus' : Values(watchers'[s], bus'[i], s) /\ bus'[i].value =>
                   /\ Graphical(s) \/ \E k \in DOMAIN bus' : i < k /\ Clears(bus'[k], s)
                   /\ \A j \in DOMAIN bus' : i < j /\ Tells(bus'[j], s) /\ bus'[j].value =>
                         \E k \in DOMAIN bus' : i < k /\ k < j /\ Clears(bus'[k], s)
  BY DEF Cleared, Shown, Graphical, Tells, Clears, Values, Answers, RepliesTo, Ends, Takes, Taking
<1>1. ASSUME Shown(s)'
      PROVE  /\ Graphical(s) \/ \E k \in DOMAIN bus' : Clears(bus'[k], s)
             /\ \A j \in DOMAIN bus' : Tells(bus'[j], s) /\ bus'[j].value =>
                   \E k \in DOMAIN bus' : k < j /\ Clears(bus'[k], s)
  <2>1. \/ Shown(s) /\ ~Clears(bus[1], s)
        \/ Values(watchers[s], bus[1], s) /\ bus[1].value
    <3>1. CASE Announces(bus[1], s)
      BY <1>1, <3>1, OneKind DEF Takes, Joins
    <3>2. CASE Ends(bus[1], s)
      BY <1>1, <3>2 DEF Takes, Leaves
    <3>3. CASE Tells(bus[1], s)
      <4>1. Follows(s, bus[1].value)
        BY <3>3 DEF Takes
      <4>2. AliveOf(s) = {} => ~Shown(s)
        BY DEF OneWatcher, Takes
      <4>3. bus[1].value
        BY <1>1, <4>1, <4>2 DEF Follows
      <4> QED BY <3>3, <4>3 DEF Values
    <3>4. CASE ~Announces(bus[1], s) /\ ~Ends(bus[1], s) /\ ~Tells(bus[1], s)
      <4>1. CASE Kept(s)
        BY <1>1, <3>4, <4>1, OneKind DEF Kept
      <4>2. CASE Answers(watchers[s], bus[1], s) /\ Corrects(s, bus[1].watcher, bus[1].value)
        BY <1>1, <4>2 DEF Corrects, Values
      <4> QED BY <3>4, <4>1, <4>2, OneKind DEF Takes
    <3> QED BY <3>1, <3>2, <3>3, <3>4
  <2>2. CASE Shown(s) /\ ~Clears(bus[1], s)
    <3>1. Graphical(s) \/ \E k \in DOMAIN bus' : Clears(bus'[k], s)
      BY <2>2, Taken DEF Cleared, Takes
    <3>2. ASSUME NEW j \in DOMAIN bus', Tells(bus'[j], s), bus'[j].value
          PROVE  \E k \in DOMAIN bus' : k < j /\ Clears(bus'[k], s)
      <4>1. j + 1 \in DOMAIN bus /\ Tells(bus[j + 1], s) /\ bus[j + 1].value
        BY <3>2, Taken DEF Takes
      <4>2. PICK k \in DOMAIN bus : k < j + 1 /\ Clears(bus[k], s)
        BY <2>2, <4>1 DEF Cleared
      <4> QED BY <2>2, <4>2, Taken DEF Takes
    <3> QED BY <3>1, <3>2
  <2>3. CASE Values(watchers[s], bus[1], s) /\ bus[1].value
    <3>1. /\ Graphical(s) \/ \E k \in DOMAIN bus : 1 < k /\ Clears(bus[k], s)
          /\ \A j \in DOMAIN bus : 1 < j /\ Tells(bus[j], s) /\ bus[j].value =>
                \E k \in DOMAIN bus : 1 < k /\ k < j /\ Clears(bus[k], s)
      BY <2>3, Taken DEF Cleared, Takes
    <3>2. Graphical(s) \/ \E k \in DOMAIN bus' : Clears(bus'[k], s)
      BY <3>1, Taken DEF Takes
    <3>3. ASSUME NEW j \in DOMAIN bus', Tells(bus'[j], s), bus'[j].value
          PROVE  \E k \in DOMAIN bus' : k < j /\ Clears(bus'[k], s)
      <4>1. j + 1 \in DOMAIN bus /\ 1 < j + 1 /\ Tells(bus[j + 1], s) /\ bus[j + 1].value
        BY <3>3, Taken DEF Takes
      <4>2. PICK k \in DOMAIN bus : 1 < k /\ k < j + 1 /\ Clears(bus[k], s)
        BY <3>1, <4>1
      <4> QED BY <4>2, Taken DEF Takes
    <3> QED BY <3>2, <3>3
  <2> QED BY <2>1, <2>2, <2>3
<1>2. ASSUME NEW i \in DOMAIN bus', Values(watchers'[s], bus'[i], s), bus'[i].value
      PROVE  /\ Graphical(s) \/ \E k \in DOMAIN bus' : i < k /\ Clears(bus'[k], s)
             /\ \A j \in DOMAIN bus' : i < j /\ Tells(bus'[j], s) /\ bus'[j].value =>
                   \E k \in DOMAIN bus' : i < k /\ k < j /\ Clears(bus'[k], s)
  <2>1. i + 1 \in DOMAIN bus /\ bus'[i] = bus[i + 1] /\ bus[i + 1].value
    BY <1>2, Taken DEF Takes
  <2>2. Tells(bus[i + 1], s) \/ Answers(watchers'[s], bus[i + 1], s)
    BY <1>2, <2>1 DEF Values
  <2>3. Values(watchers[s], bus[i + 1], s)
    BY <2>1, <2>2 DEF Values, Takes, Taking
  <2>4. /\ Graphical(s) \/ \E k \in DOMAIN bus : i + 1 < k /\ Clears(bus[k], s)
        /\ \A j \in DOMAIN bus : i + 1 < j /\ Tells(bus[j], s) /\ bus[j].value =>
              \E k \in DOMAIN bus : i + 1 < k /\ k < j /\ Clears(bus[k], s)
    BY <2>1, <2>3 DEF Cleared
  <2>5. Graphical(s) \/ \E k \in DOMAIN bus' : i < k /\ Clears(bus'[k], s)
    BY <2>4, Taken DEF Takes
  <2>6. ASSUME NEW j \in DOMAIN bus', i < j, Tells(bus'[j], s), bus'[j].value
        PROVE  \E k \in DOMAIN bus' : i < k /\ k < j /\ Clears(bus'[k], s)
    <3>1. j + 1 \in DOMAIN bus /\ i + 1 < j + 1 /\ Tells(bus[j + 1], s) /\ bus[j + 1].value
      BY <2>6, Taken DEF Takes
    <3>2. PICK k \in DOMAIN bus : i + 1 < k /\ k < j + 1 /\ Clears(bus[k], s)
      BY <2>4, <3>1
    <3> QED BY <3>2, Taken DEF Takes
  <2> QED BY <2>5, <2>6
<1> QED BY <1>1, <1>2

-----------------------------------------------------------------------------
(***************************************************************************)
(* A message is sent to the daemon                                        *)
(***************************************************************************)

Rear == Len(bus) + 1
Sends(s, m) ==
    /\ bus \in Seq(Messages) /\ m \in Messages /\ bus' = Append(bus, m)
    /\ watchers' = watchers /\ system' = system /\ (Shown(s)' <=> Shown(s)) /\ manager' = manager

LEMMA Sent ==
    ASSUME NEW s, NEW m, Sends(s, m)
    PROVE  /\ DOMAIN bus' = DOMAIN bus \cup {Rear} /\ bus'[Rear] = m
           /\ \A i \in DOMAIN bus : bus'[i] = bus[i] /\ i < Rear /\ ~(Rear < i) /\ i # Rear
           /\ ~(Rear < Rear)
           /\ \A i, j \in DOMAIN bus : i < j \/ j < i \/ i = j
           /\ \A i, j \in DOMAIN bus' : i < j => i \in DOMAIN bus
<1>1. /\ Len(bus) \in Nat /\ DOMAIN bus = 1..Len(bus) /\ DOMAIN bus' = 1..(Len(bus) + 1)
      /\ bus'[Len(bus) + 1] = m /\ \A i \in DOMAIN bus : bus'[i] = bus[i]
  BY AtTheEnd DEF Sends
<1>2. Rear = Len(bus) + 1
  BY DEF Rear
<1> QED BY <1>1, <1>2

LEMMA GoneSent ==
    ASSUME NEW s, NEW m, Sends(s, m), GoneKnown(s),
           ~logind'[s].there => Ends(m, s) \/ (~logind[s].there /\ ~News(m, s))
    PROVE  GoneKnown(s)'
<1> SUFFICES ASSUME ~logind'[s].there
             PROVE  \/ Quiet(s)'
                    \/ \E i \in DOMAIN bus' : Ends(bus'[i], s) /\ \A j \in DOMAIN bus' : i < j => ~News(bus'[j], s)
  BY DEF GoneKnown, Ends, News, Announces, Tells, RepliesTo
<1>1. CASE Ends(m, s)
  BY <1>1, Sent
<1>2. CASE ~Ends(m, s)
  <2>1. ~News(m, s) /\ ~logind[s].there
    BY <1>2
  <2>2. CASE Quiet(s)
    <3>1. \A i \in DOMAIN bus' : ~News(bus'[i], s)
      BY <2>1, <2>2, Sent DEF Quiet
    <3> QED BY <2>2, <3>1 DEF Sends, Quiet, Shown, News, Announces, Ends, Tells, RepliesTo
  <2>3. ASSUME NEW i \in DOMAIN bus, Ends(bus[i], s), \A j \in DOMAIN bus : i < j => ~News(bus[j], s)
        PROVE  Ends(bus'[i], s) /\ i \in DOMAIN bus' /\ \A j \in DOMAIN bus' : i < j => ~News(bus'[j], s)
    BY <2>1, <2>3, Sent
  <2> QED BY <2>1, <2>2, <2>3 DEF GoneKnown
<1> QED BY <1>1, <1>2

LEMMA ThereSent ==
    ASSUME NEW s, NEW m, Sends(s, m), ThereKnown(s),
           logind'[s].there =>
              \/ Announces(m, s)
              \/ logind[s].there /\ ~Ends(m, s) /\ (ListSeatsServed' => ListSeatsServed)
    PROVE  ThereKnown(s)'
<1> SUFFICES ASSUME manager \in {"asked", "ready"}, logind'[s].there
             PROVE  /\ system'[s] # 0 \/ ~ListSeatsServed' \/ \E i \in DOMAIN bus' : Announces(bus'[i], s)
                    /\ \A i \in DOMAIN bus' : Ends(bus'[i], s) =>
                          \E j \in DOMAIN bus' : i < j /\ Announces(bus'[j], s)
  BY DEF ThereKnown, Sends, Announces, Ends
<1>1. CASE Announces(m, s)
  BY <1>1, Sent, OneKind
<1>2. CASE ~Announces(m, s)
  <2>1. /\ system[s] # 0 \/ ~ListSeatsServed \/ \E i \in DOMAIN bus : Announces(bus[i], s)
        /\ \A i \in DOMAIN bus : Ends(bus[i], s) => \E j \in DOMAIN bus : i < j /\ Announces(bus[j], s)
        /\ ~Ends(m, s) /\ (ListSeatsServed' => ListSeatsServed)
    BY <1>2 DEF ThereKnown
  <2>2. system'[s] # 0 \/ ~ListSeatsServed' \/ \E i \in DOMAIN bus' : Announces(bus'[i], s)
    BY <2>1, Sent DEF Sends
  <2>3. ASSUME NEW i \in DOMAIN bus', Ends(bus'[i], s)
        PROVE  \E j \in DOMAIN bus' : i < j /\ Announces(bus'[j], s)
    BY <2>1, <2>3, Sent
  <2> QED BY <2>2, <2>3
<1> QED BY <1>1, <1>2

LEMMA UnknownSent ==
    ASSUME NEW s, NEW m, Sends(s, m), NothingUnknown(s),
           Values(watchers[s], m, s) =>
              /\ ThereKnown(s) /\ logind[s].there /\ manager \in {"asked", "ready"}
              /\ system[s] = 0 => ListSeatsServed
    PROVE  NothingUnknown(s)'
<1>1. ASSUME system'[s] = 0
      PROVE  /\ ~Shown(s)'
             /\ \A j \in DOMAIN bus' : Values(watchers'[s], bus'[j], s) =>
                   \E k \in DOMAIN bus' : k < j /\ Announces(bus'[k], s)
  <2>1. /\ ~Shown(s)
        /\ \A j \in DOMAIN bus : Values(watchers[s], bus[j], s) =>
              \E k \in DOMAIN bus : k < j /\ Announces(bus[k], s)
    BY <1>1 DEF NothingUnknown, Sends
  <2>2. Values(watchers[s], m, s) => \E k \in DOMAIN bus : Announces(bus[k], s)
    BY <1>1 DEF ThereKnown, Sends
  <2>3. ASSUME NEW j \in DOMAIN bus', Values(watchers[s], bus'[j], s)
        PROVE  \E k \in DOMAIN bus' : k < j /\ Announces(bus'[k], s)
    BY <2>1, <2>2, <2>3, Sent
  <2> QED BY <2>1, <2>3 DEF Sends
<1>2. ASSUME NEW i \in DOMAIN bus', NEW j \in DOMAIN bus', i < j, Ends(bus'[i], s),
             Values(watchers'[s], bus'[j], s)
      PROVE  \E k \in DOMAIN bus' : i < k /\ k < j /\ Announces(bus'[k], s)
  <2>1. i \in DOMAIN bus /\ Ends(bus[i], s)
    BY <1>2, Sent
  <2>2. CASE j = Rear
    <3>1. PICK k \in DOMAIN bus : i < k /\ Announces(bus[k], s)
      BY <1>2, <2>1, <2>2, Sent DEF ThereKnown, Sends
    <3> QED BY <2>2, <3>1, Sent
  <2>3. CASE j # Rear
    <3>1. j \in DOMAIN bus /\ Values(watchers[s], bus[j], s)
      BY <1>2, <2>3, Sent DEF Sends
    <3>2. PICK k \in DOMAIN bus : i < k /\ k < j /\ Announces(bus[k], s)
      BY <1>2, <2>1, <3>1 DEF NothingUnknown
    <3> QED BY <3>2, Sent
  <2> QED BY <2>2, <2>3
<1> QED BY <1>1, <1>2 DEF NothingUnknown, Values, Tells, Answers, RepliesTo, Ends, Announces, Shown

LEMMA OneBeforeListedSent ==
    ASSUME NEW s, NEW m, Sends(s, m), OneBeforeListed(s), GoneKnown(s), Listing' => Listing,
           NewlyThere(m, s) => ~logind[s].there
    PROVE  OneBeforeListed(s)'
<1> SUFFICES ASSUME Listing
             PROVE  /\ AliveOf(s) \subseteq {system[s]}
                    /\ \A j \in DOMAIN bus' : NewlyThere(bus'[j], s) =>
                          /\ system[s] # 0 => \E k \in DOMAIN bus' : k < j /\ Ends(bus'[k], s)
                          /\ \A i \in DOMAIN bus' : i < j /\ NewlyThere(bus'[i], s) =>
                                \E k \in DOMAIN bus' : i < k /\ k < j /\ Ends(bus'[k], s)
  BY DEF OneBeforeListed, NewlyThere, Ends, AliveOf, Sends
<1>1. /\ AliveOf(s) \subseteq {system[s]}
      /\ \A j \in DOMAIN bus : NewlyThere(bus[j], s) =>
            /\ system[s] # 0 => \E k \in DOMAIN bus : k < j /\ Ends(bus[k], s)
            /\ \A i \in DOMAIN bus : i < j /\ NewlyThere(bus[i], s) =>
                  \E k \in DOMAIN bus : i < k /\ k < j /\ Ends(bus[k], s)
  BY DEF OneBeforeListed
\* The seat went before it can come: its removal is the last news.
<1>2. ASSUME NewlyThere(m, s)
      PROVE  /\ system[s] # 0 => \E k \in DOMAIN bus : Ends(bus[k], s)
             /\ \A i \in DOMAIN bus : NewlyThere(bus[i], s) => \E k \in DOMAIN bus : i < k /\ Ends(bus[k], s)
  <2>1. CASE Quiet(s)
    BY <2>1, OneKind DEF Quiet
  <2>2. ASSUME NEW k \in DOMAIN bus, Ends(bus[k], s), \A j \in DOMAIN bus : k < j => ~News(bus[j], s),
               NEW i \in DOMAIN bus, NewlyThere(bus[i], s)
        PROVE  i < k
    BY <2>2, Sent, OneKind
  <2> QED BY <1>2, <2>1, <2>2 DEF GoneKnown
<1>3. ASSUME NEW j \in DOMAIN bus', NewlyThere(bus'[j], s), system[s] # 0
      PROVE  \E k \in DOMAIN bus' : k < j /\ Ends(bus'[k], s)
  BY <1>1, <1>2, <1>3, Sent
<1>4. ASSUME NEW j \in DOMAIN bus', NewlyThere(bus'[j], s), NEW i \in DOMAIN bus', i < j, NewlyThere(bus'[i], s)
      PROVE  \E k \in DOMAIN bus' : i < k /\ k < j /\ Ends(bus'[k], s)
  <2>1. i \in DOMAIN bus /\ NewlyThere(bus[i], s)
    BY <1>4, Sent
  <2>2. CASE j = Rear
    BY <1>2, <1>4, <2>1, <2>2, Sent
  <2>3. CASE j # Rear
    BY <1>1, <1>4, <2>1, <2>3, Sent
  <2> QED BY <2>2, <2>3
<1> QED BY <1>1, <1>3, <1>4

LEMMA FaithfulSent ==
    ASSUME NEW s, NEW m, Sends(s, m), Faithful(s),
           Tells(m, s) => (m.value <=> logind'[s].graphical),
           Answers(watchers[s], m, s) =>
              (m.value <=> logind[s].graphical) /\ (m.value <=> logind'[s].graphical),
           \/ Tells(m, s) \/ Ends(m, s) \/ logind'[s].graphical = logind[s].graphical
           \/ \A i \in DOMAIN bus : Answers(watchers[s], bus[i], s) =>
                 \E k \in DOMAIN bus : i < k /\ Ends(bus[k], s)
    PROVE  Faithful(s)'
<1> SUFFICES ASSUME NEW i \in DOMAIN bus', Answers(watchers[s], bus'[i], s)
             PROVE  /\ \A j \in DOMAIN bus' :
                          (/\ i < j /\ Answers(watchers[s], bus'[j], s)
                           /\ \A k \in DOMAIN bus' : i < k /\ k < j => ~Tells(bus'[k], s) /\ ~Ends(bus'[k], s))
                          => (bus'[j].value <=> bus'[i].value)
                    /\ (\A k \in DOMAIN bus' : i < k => ~Ends(bus'[k], s)) =>
                          /\ (\A k \in DOMAIN bus' : i < k => ~Tells(bus'[k], s))
                                => (bus'[i].value <=> logind'[s].graphical)
                          /\ \A j \in DOMAIN bus' :
                                (/\ i < j /\ Tells(bus'[j], s)
                                 /\ \A k \in DOMAIN bus' : j < k => ~Tells(bus'[k], s))
                                => (bus'[j].value <=> logind'[s].graphical)
  BY DEF Faithful, Sends, Answers, RepliesTo, Tells, Ends
<1>1. CASE i = Rear
  BY <1>1, Sent
<1>2. CASE i # Rear
  <2>1. i \in DOMAIN bus /\ bus'[i] = bus[i] /\ i < Rear
    BY <1>2, Sent
  <2>2. ASSUME NEW j \in DOMAIN bus', i < j, Answers(watchers[s], bus'[j], s),
               \A k \in DOMAIN bus' : i < k /\ k < j => ~Tells(bus'[k], s) /\ ~Ends(bus'[k], s)
        PROVE  bus'[j].value <=> bus'[i].value
    <3>1. \A k \in DOMAIN bus : i < k /\ k < j => ~Tells(bus[k], s) /\ ~Ends(bus[k], s)
      BY <2>2, Sent
    <3>2. CASE j = Rear
      <4>1. bus[i].value <=> logind[s].graphical
        BY <2>1, <3>1, <3>2, Sent DEF Faithful
      <4> QED BY <2>1, <2>2, <3>2, <4>1, Sent
    <3>3. CASE j # Rear
      <4>1. j \in DOMAIN bus /\ bus'[j] = bus[j]
        BY <3>3, Sent
      <4> QED BY <2>1, <2>2, <3>1, <4>1 DEF Faithful
    <3> QED BY <3>2, <3>3
  <2>3. ASSUME \A k \in DOMAIN bus' : i < k => ~Ends(bus'[k], s)
        PROVE  /\ \A k \in DOMAIN bus : i < k => ~Ends(bus[k], s)
               /\ Tells(m, s) \/ logind'[s].graphical = logind[s].graphical
    BY <2>1, <2>3, Sent
  <2>4. ASSUME \A k \in DOMAIN bus' : i < k => ~Ends(bus'[k], s),
               \A k \in DOMAIN bus' : i < k => ~Tells(bus'[k], s)
        PROVE  bus'[i].value <=> logind'[s].graphical
    <3>1. ~Tells(m, s) /\ \A k \in DOMAIN bus : i < k => ~Tells(bus[k], s)
      BY <2>1, <2>4, Sent
    <3> QED BY <2>1, <2>3, <2>4, <3>1 DEF Faithful
  <2>5. ASSUME \A k \in DOMAIN bus' : i < k => ~Ends(bus'[k], s),
               NEW j \in DOMAIN bus', i < j, Tells(bus'[j], s),
               \A k \in DOMAIN bus' : j < k => ~Tells(bus'[k], s)
        PROVE  bus'[j].value <=> logind'[s].graphical
    <3>1. CASE j = Rear
      BY <2>5, <3>1, Sent
    <3>2. CASE j # Rear
      <4>1. j \in DOMAIN bus /\ bus'[j] = bus[j] /\ ~Tells(m, s) /\ \A k \in DOMAIN bus : j < k => ~Tells(bus[k], s)
        BY <2>5, <3>2, Sent
      <4> QED BY <2>1, <2>3, <2>5, <4>1 DEF Faithful
    <3> QED BY <3>1, <3>2
  <2> QED BY <2>2, <2>4, <2>5
<1> QED BY <1>1, <1>2

LEMMA FollowedSent ==
    ASSUME NEW s, NEW m, Sends(s, m), Followed(s), GoneKnown(s),
           Tells(m, s) => (m.value <=> logind'[s].graphical),
           Answers(watchers[s], m, s) => (m.value <=> logind[s].graphical),
           logind[s].there /\ ~Tells(m, s) /\ ~Ends(m, s) => logind'[s].graphical = logind[s].graphical,
           logind[s].there => \A w : w \in Asked(s) => w \in Asked(s)' \/ (RepliesTo(m, s) /\ m.watcher = w)
    PROVE  Followed(s)'
<1> SUFFICES ASSUME system[s] # 0, \A i \in DOMAIN bus' : ~Ends(bus'[i], s)
             PROVE  InStep(s)' \/ WillBeCorrected(s)'
  BY DEF Followed, Ends, Sends
<1>1. ~Ends(m, s) /\ \A i \in DOMAIN bus : ~Ends(bus[i], s)
  BY Sent
<1>2. logind[s].there
  BY <1>1 DEF GoneKnown, Quiet
<1>3. CASE WillBeCorrected(s)
  <2>1. PICK w \in AliveOf(s) : (watchers[s][w].graphical <=> Shown(s)) /\ Awaited(s, w)
    BY <1>3 DEF WillBeCorrected
  <2>2. w \in Asked(s)' \/ \E i \in DOMAIN bus' : RepliesTo(bus'[i], s) /\ bus'[i].watcher = w
    BY <1>2, <2>1, Sent DEF Awaited
  <2>3. Awaited(s, w)'
    BY <2>2 DEF Awaited, RepliesTo
  <2>4. w \in AliveOf(s)' /\ (watchers'[s][w].graphical <=> Shown(s)')
    BY <2>1 DEF Sends, AliveOf
  <2> QED BY <2>3, <2>4 DEF WillBeCorrected
<1>4. CASE InStep(s)
  <2>1. ASSUME NEW j \in DOMAIN bus', Answers(watchers[s], bus'[j], s),
               \A i \in DOMAIN bus' : i < j => ~Tells(bus'[i], s)
        PROVE  bus'[j].value <=> Shown(s)
    <3>1. CASE j = Rear
      <4>1. \A i \in DOMAIN bus : ~Tells(bus[i], s)
        BY <2>1, <3>1, Sent
      <4> QED BY <1>4, <2>1, <3>1, <4>1, Sent DEF InStep
    <3>2. CASE j # Rear
      <4>1. j \in DOMAIN bus /\ bus'[j] = bus[j] /\ \A i \in DOMAIN bus : i < j => ~Tells(bus[i], s)
        BY <2>1, <3>2, Sent
      <4> QED BY <1>4, <2>1, <4>1 DEF InStep
    <3> QED BY <3>1, <3>2
  <2>2. ASSUME \A i \in DOMAIN bus' : ~Tells(bus'[i], s)
        PROVE  Shown(s) <=> logind'[s].graphical
    <3>1. ~Tells(m, s) /\ \A i \in DOMAIN bus : ~Tells(bus[i], s)
      BY <2>2, Sent
    <3> QED BY <1>1, <1>2, <1>4, <3>1 DEF InStep
  <2>3. ASSUME NEW j \in DOMAIN bus', Tells(bus'[j], s), \A i \in DOMAIN bus' : j < i => ~Tells(bus'[i], s)
        PROVE  bus'[j].value <=> logind'[s].graphical
    <3>1. CASE j = Rear
      BY <2>3, <3>1, Sent
    <3>2. CASE j # Rear
      <4>1. j \in DOMAIN bus /\ bus'[j] = bus[j] /\ ~Tells(m, s) /\ \A i \in DOMAIN bus : j < i => ~Tells(bus[i], s)
        BY <2>3, <3>2, Sent
      <4> QED BY <1>1, <1>2, <1>4, <2>3, <4>1 DEF InStep
    <3> QED BY <3>1, <3>2
  <2> QED BY <2>1, <2>2, <2>3 DEF InStep, Sends, Shown, Answers, RepliesTo, Tells
<1> QED BY <1>1, <1>3, <1>4 DEF Followed

LEMMA OneWatcherSent ==
    ASSUME NEW s, NEW m, Sends(s, m), OneWatcher(s), Tells(m, s) => system[s] # 0
    PROVE  OneWatcher(s)'
<1>1. system[s] = 0 => \A i \in DOMAIN bus' : ~Tells(bus'[i], s)
  BY Sent DEF OneWatcher
<1> QED BY <1>1 DEF OneWatcher, Sends, AliveOf, Shown, Tells

LEMMA OneAnnouncementSent ==
    ASSUME NEW s, NEW m, Sends(s, m), OneAnnouncement(s), ListSeatsServed => ListSeatsServed',
           Announces(m, s) =>
              /\ system[s] = 0 /\ ListSeatsServed'
              /\ \A i \in DOMAIN bus : ~Announces(bus[i], s) /\ ~Ends(bus[i], s),
           Ends(m, s) => logind[s].there /\ ~logind'[s].there,
           Tells(m, s) \/ RepliesTo(m, s) => logind[s].there,
           logind'[s].there /\ ~logind[s].there => Announces(m, s)
    PROVE  OneAnnouncement(s)'
<1>1. ASSUME system[s] # 0
      PROVE  ListSeatsServed' /\ \A i \in DOMAIN bus' : ~Announces(bus'[i], s)
  <2>1. ListSeatsServed /\ ~Announces(m, s) /\ \A i \in DOMAIN bus : ~Announces(bus[i], s)
    BY <1>1 DEF OneAnnouncement
  <2> QED BY <2>1, Sent
<1>2. ASSUME NEW i \in DOMAIN bus', Announces(bus'[i], s)
      PROVE  ListSeatsServed' /\ \A j \in DOMAIN bus' : Announces(bus'[j], s) => i = j
  <2>1. CASE Announces(m, s)
    BY <1>2, <2>1, Sent
  <2>2. CASE ~Announces(m, s)
    <3>1. i \in DOMAIN bus /\ Announces(bus[i], s)
      BY <1>2, <2>2, Sent
    <3>2. ListSeatsServed /\ \A j \in DOMAIN bus : Announces(bus[j], s) => i = j
      BY <3>1 DEF OneAnnouncement
    <3> QED BY <2>2, <3>2, Sent
  <2> QED BY <2>1, <2>2
<1>3. ASSUME NEW i \in DOMAIN bus', Ends(bus'[i], s)
      PROVE  ~logind'[s].there /\ \A j \in DOMAIN bus' : i < j => ~News(bus'[j], s)
  <2>1. CASE i = Rear
    BY <1>3, <2>1, Sent
  <2>2. CASE i # Rear
    <3>1. i \in DOMAIN bus /\ Ends(bus[i], s)
      BY <1>3, <2>2, Sent
    <3>2. ~logind[s].there /\ \A j \in DOMAIN bus : i < j => ~News(bus[j], s)
      BY <3>1 DEF OneAnnouncement
    <3>3. ~Announces(m, s) /\ ~Ends(m, s) /\ ~Tells(m, s) /\ ~RepliesTo(m, s)
      BY <3>1, <3>2
    <3>4. ~News(m, s) /\ ~logind'[s].there
      BY <3>2, <3>3, OneKind
    <3> QED BY <3>2, <3>4, Sent
  <2> QED BY <2>1, <2>2
<1> QED BY <1>1, <1>2, <1>3 DEF OneAnnouncement, Announces, Ends, News, Tells, RepliesTo, Sends

LEMMA ClearedSent ==
    ASSUME NEW s, NEW m, Sends(s, m), Cleared(s),
           Tells(m, s) /\ m.value => ~Graphical(s),
           Values(watchers[s], m, s) /\ m.value => Graphical(s)',
           Graphical(s) => Graphical(s)' \/ Clears(m, s)
    PROVE  Cleared(s)'
<1>1. ASSUME Shown(s)
      PROVE  /\ Graphical(s)' \/ \E k \in DOMAIN bus' : Clears(bus'[k], s)
             /\ \A j \in DOMAIN bus' : Tells(bus'[j], s) /\ bus'[j].value =>
                   \E k \in DOMAIN bus' : k < j /\ Clears(bus'[k], s)
  <2>1. /\ Graphical(s) \/ \E k \in DOMAIN bus : Clears(bus[k], s)
        /\ \A j \in DOMAIN bus : Tells(bus[j], s) /\ bus[j].value =>
              \E k \in DOMAIN bus : k < j /\ Clears(bus[k], s)
    BY <1>1 DEF Cleared
  <2>2. Graphical(s)' \/ \E k \in DOMAIN bus' : Clears(bus'[k], s)
    BY <2>1, Sent
  <2>3. ASSUME NEW j \in DOMAIN bus', Tells(bus'[j], s), bus'[j].value
        PROVE  \E k \in DOMAIN bus' : k < j /\ Clears(bus'[k], s)
    BY <2>1, <2>3, Sent
  <2> QED BY <2>2, <2>3
<1>2. ASSUME NEW i \in DOMAIN bus', Values(watchers[s], bus'[i], s), bus'[i].value
      PROVE  /\ Graphical(s)' \/ \E k \in DOMAIN bus' : i < k /\ Clears(bus'[k], s)
             /\ \A j \in DOMAIN bus' : i < j /\ Tells(bus'[j], s) /\ bus'[j].value =>
                   \E k \in DOMAIN bus' : i < k /\ k < j /\ Clears(bus'[k], s)
  <2>1. CASE i = Rear
    BY <1>2, <2>1, Sent
  <2>2. CASE i # Rear
    <3>1. i \in DOMAIN bus /\ Values(watchers[s], bus[i], s) /\ bus[i].value
      BY <1>2, <2>2, Sent
    <3>2. /\ Graphical(s) \/ \E k \in DOMAIN bus : i < k /\ Clears(bus[k], s)
          /\ \A j \in DOMAIN bus : i < j /\ Tells(bus[j], s) /\ bus[j].value =>
                \E k \in DOMAIN bus : i < k /\ k < j /\ Clears(bus[k], s)
      BY <3>1 DEF Cleared
    <3>3. Graphical(s)' \/ \E k \in DOMAIN bus' : i < k /\ Clears(bus'[k], s)
      BY <3>1, <3>2, Sent
    <3>4. ASSUME NEW j \in DOMAIN bus', i < j, Tells(bus'[j], s), bus'[j].value
          PROVE  \E k \in DOMAIN bus' : i < k /\ k < j /\ Clears(bus'[k], s)
      BY <3>1, <3>2, <3>4, Sent
    <3> QED BY <3>3, <3>4
  <2> QED BY <2>1, <2>2
<1> QED BY <1>1, <1>2 DEF Cleared, Sends, Shown, Values, Tells, Answers, RepliesTo, Clears, Ends, Graphical

-----------------------------------------------------------------------------
(***************************************************************************)
(* No message is taken or sent                                            *)
(***************************************************************************)

\* Nothing reaches the daemon, and only a value nobody listens for changes.
Unmoved(s) ==
    /\ bus' = bus /\ calls' = calls /\ watchers' = watchers /\ system' = system
    /\ (Shown(s)' <=> Shown(s)) /\ (manager' \in {"asked", "ready"} => manager \in {"asked", "ready"})
    /\ (logind'[s].there <=> logind[s].there)
    /\ logind'[s].graphical = logind[s].graphical \/ AliveOf(s) = {}
    /\ \A i \in DOMAIN bus : Answers(watchers[s], bus[i], s) => bus[i].watcher \in AliveOf(s)
    /\ system[s] # 0 => system[s] \in AliveOf(s)

LEMMA HeardUnmoved ==
    ASSUME NEW s, Unmoved(s), Heard(s)
    PROVE  Heard(s)'
<1>1. GoneKnown(s)' /\ ThereKnown(s)' /\ NothingUnknown(s)' /\ OneBeforeListed(s)'
  BY DEF Heard, Unmoved, GoneKnown, Quiet, ThereKnown, NothingUnknown, OneBeforeListed, AliveOf, Listing,
         ListSeatsServed, Ends, News, Announces, Tells, RepliesTo, Values, Answers, NewlyThere, Shown
<1>2. Faithful(s)'
  BY DEF Heard, Unmoved, Faithful, Answers, RepliesTo, Tells, Ends
<1>3. Followed(s)'
  <2>1. CASE logind'[s].graphical = logind[s].graphical
    BY <2>1 DEF Heard, Unmoved, Followed, InStep, WillBeCorrected, Awaited, Asked, AliveOf,
                Answers, RepliesTo, Tells, Ends, Shown
  <2>2. CASE AliveOf(s) = {}
    BY <2>2 DEF Unmoved, Followed
  <2> QED BY <2>1, <2>2 DEF Unmoved
<1> QED BY <1>1, <1>2, <1>3 DEF Heard

LEMMA AnnouncedUnmoved ==
    ASSUME NEW s, Unmoved(s), Announced(s)
    PROVE  Announced(s)'
<1>1. OneWatcher(s)' /\ OneAnnouncement(s)'
  BY DEF Announced, Unmoved, OneWatcher, OneAnnouncement, AliveOf, ListSeatsServed,
         Announces, Ends, News, Tells, RepliesTo, Shown
<1>2. Cleared(s)'
  <2>1. CASE logind'[s].graphical = logind[s].graphical
    BY <2>1 DEF Announced, Unmoved, Cleared, Graphical, Values, Answers, RepliesTo, Tells, Clears, Ends, Shown
  <2>2. CASE AliveOf(s) = {}
    <3>1. ~Shown(s) /\ \A i \in DOMAIN bus : ~Values(watchers[s], bus[i], s)
      BY <2>2 DEF Unmoved, Announced, OneWatcher, Values
    <3> QED BY <3>1 DEF Unmoved, Cleared, Shown, Values, Answers, RepliesTo, Tells
  <2> QED BY <2>1, <2>2 DEF Unmoved
<1> QED BY <1>1, <1>2 DEF Announced

\* Before ListSeats is answered nothing is known.
Blank(s) ==
    /\ bus' = <<>> /\ watchers'[s] = <<>> /\ system'[s] = 0 /\ ~Shown(s)'
    /\ ListSeatsServed' => manager' \notin {"asked", "ready"}

LEMMA BlankHeard ==
    ASSUME NEW s, Blank(s)
    PROVE  Heard(s)' /\ Announced(s)'
<1>1. DOMAIN bus' = {} /\ DOMAIN watchers'[s] = {}
  BY DEF Blank
<1>2. GoneKnown(s)' /\ ThereKnown(s)' /\ NothingUnknown(s)' /\ OneBeforeListed(s)'
  BY <1>1 DEF Blank, GoneKnown, Quiet, ThereKnown, NothingUnknown, OneBeforeListed, AliveOf, Shown
<1>3. Faithful(s)' /\ Followed(s)'
  BY <1>1 DEF Blank, Faithful, Followed
<1>4. OneWatcher(s)' /\ OneAnnouncement(s)' /\ Cleared(s)'
  BY <1>1 DEF Blank, OneWatcher, OneAnnouncement, Cleared, AliveOf, Shown
<1> QED BY <1>2, <1>3, <1>4 DEF Heard, Announced

-----------------------------------------------------------------------------
(***************************************************************************)
(* The list of D-Bus seats                                                *)
(***************************************************************************)

Entries == [seat: Seats, nr: Nat]

\* removeAll keeps some of the elements, in their order.
LEMMA WithoutTyped ==
    ASSUME NEW list \in Seq(Entries), NEW e
    PROVE  /\ Without(list, e) \in Seq(Entries) /\ Len(Without(list, e)) <= Len(list)
           /\ \A i \in DOMAIN Without(list, e) : \E j \in DOMAIN list : Without(list, e)[i] = list[j]
<1>1. CASE ~ \E i \in DOMAIN list : list[i] = e
  BY <1>1 DEF Without
<1>2. CASE \E i \in DOMAIN list : list[i] = e
  <2> DEFINE k == CHOOSE i \in DOMAIN list : list[i] = e
             w == [i \in 1..(Len(list) - 1) |-> list[IF i < k THEN i ELSE i + 1]]
  <2>1. k \in 1..Len(list) /\ Len(list) \in Nat
    BY <1>2
  <2>2. Without(list, e) = w
    BY <1>2 DEF Without
  <2> HIDE DEF k
  <2>3. \A i \in 1..(Len(list) - 1) : (IF i < k THEN i ELSE i + 1) \in DOMAIN list
    BY <2>1
  <2>4. w \in [1..(Len(list) - 1) -> Entries] /\ Len(list) - 1 \in Nat
    BY <2>1, <2>3
  <2>5. w \in Seq(Entries) /\ Len(w) = Len(list) - 1
    BY <2>4
  <2>6. \A i \in DOMAIN w : \E j \in DOMAIN list : w[i] = list[j]
    BY <2>3
  <2> HIDE DEF w
  <2> QED BY <2>1, <2>2, <2>5, <2>6
<1> QED BY <1>1, <1>2

\* It loses nothing but the element removed.
LEMMA WithoutOthers ==
    ASSUME NEW list \in Seq(Entries), NEW e, NEW t, e.seat # t, ListedOnce(list, t)
    PROVE  ListedOnce(Without(list, e), t)
<1>1. CASE ~ \E i \in DOMAIN list : list[i] = e
  BY <1>1 DEF Without
<1>2. CASE \E i \in DOMAIN list : list[i] = e
  <2> DEFINE k == CHOOSE i \in DOMAIN list : list[i] = e
             w == [i \in 1..(Len(list) - 1) |-> list[IF i < k THEN i ELSE i + 1]]
  <2>1. k \in 1..Len(list) /\ Len(list) \in Nat /\ list[k] = e
    BY <1>2
  <2>2. Without(list, e) = w
    BY <1>2 DEF Without
  <2> HIDE DEF k
  <2>3. PICK p \in 1..Len(list) : list[p].seat = t /\ \A j \in 1..Len(list) : list[j].seat = t => p = j
    BY DEF ListedOnce
  <2>4. p # k
    BY <2>1, <2>3
  <2>5. PICK q \in 1..(Len(list) - 1) : q = IF p < k THEN p ELSE p - 1
    BY <2>1, <2>4
  <2>6. (IF q < k THEN q ELSE q + 1) = p
    BY <2>1, <2>4, <2>5
  <2>7. w[q].seat = t
    BY <2>3, <2>6
  <2>8. ASSUME NEW i \in 1..(Len(list) - 1), w[i].seat = t PROVE q = i
    <3>1. (IF i < k THEN i ELSE i + 1) \in 1..Len(list)
      BY <2>1
    <3>2. p = IF i < k THEN i ELSE i + 1
      BY <2>3, <2>8, <3>1
    <3> QED BY <2>1, <2>5, <3>2
  <2>9. DOMAIN w = 1..(Len(list) - 1)
    OBVIOUS
  <2> HIDE DEF w
  <2> QED BY <2>2, <2>7, <2>8, <2>9 DEF ListedOnce
<1> QED BY <1>1, <1>2

LEMMA WithoutIt ==
    ASSUME NEW list \in Seq(Entries), NEW p \in DOMAIN list, ListedOnce(list, list[p].seat)
    PROVE  Unlisted(Without(list, list[p]), list[p].seat)
<1> DEFINE e == list[p]
           k == CHOOSE i \in DOMAIN list : list[i] = e
           w == [i \in 1..(Len(list) - 1) |-> list[IF i < k THEN i ELSE i + 1]]
<1>1. k \in 1..Len(list) /\ Len(list) \in Nat /\ list[k] = e
  OBVIOUS
<1>2. Without(list, e) = w
  BY DEF Without
<1> HIDE DEF k
<1>3. \A j \in 1..Len(list) : list[j].seat = e.seat => j = k
  BY <1>1 DEF ListedOnce
<1>4. ASSUME NEW i \in 1..(Len(list) - 1) PROVE w[i].seat # e.seat
  <2>1. (IF i < k THEN i ELSE i + 1) \in 1..Len(list) /\ (IF i < k THEN i ELSE i + 1) # k
    BY <1>1
  <2> QED BY <1>3, <2>1
<1>5. DOMAIN w = 1..(Len(list) - 1)
  OBVIOUS
<1> HIDE DEF w
<1> QED BY <1>2, <1>4, <1>5 DEF Unlisted

\* A set of numbers that is not empty has a least one.
LEMMA Least ==
    ASSUME NEW T, T \subseteq Nat, T # {}
    PROVE  \E v \in T : \A w \in T : v <= w
<1> DEFINE R == {ss \in Nat \X Nat : ss[1] < ss[2]}
<1>1. IsWellFoundedOn(R, Nat)
    BY NatLessThanWellFounded DEF OpToRel
<1> HIDE DEF R
<1>2. PICK v \in T : \A w \in T : ~(<<w, v>> \in R)
    BY <1>1, WFMin
<1>3. \A w \in T : ~(w < v)
    BY <1>2 DEF R
<1> QED
    BY <1>3

\* What holds at 0 and with k - 1 at k holds up to n.
LEMMA UpTo ==
    ASSUME NEW n \in Nat, NEW T, 0 \in T,
           \A k \in 1..n : k - 1 \in T => k \in T
    PROVE  0..n \subseteq T
<1> DEFINE Missing == (0..n) \ T
<1>1. SUFFICES ASSUME NEW x \in 0..n, x \notin T PROVE FALSE
    OBVIOUS
<1>2. PICK v \in Missing : \A w \in Missing : v <= w
  <2>1. Missing \subseteq Nat /\ Missing # {}
    BY <1>1
  <2> HIDE DEF Missing
  <2> QED BY <2>1, Least
<1>3. v \in 1..n
    BY <1>2
<1>4. v - 1 \in 0..n /\ v - 1 \notin Missing
    BY <1>2, <1>3
<1> QED
    BY <1>2, <1>3, <1>4

\* f takes the steps S one after another.
Walks(f, b0, n, S) == f[0] = b0 /\ \A k \in 1..n : f[k] = S[k][f[k - 1]]

\* A step on the members of a set can be taken n times.
LEMMA Recursion ==
    ASSUME NEW B, NEW b0 \in B, NEW n \in Nat, NEW S \in [1..n -> [B -> B]]
    PROVE  \E f \in [0..n -> B] : Walks(f, b0, n, S)
<1> DEFINE Runs(f, k) == f[0] = b0 /\ \A j \in 1..k : f[j] = S[j][f[j - 1]]
           T == {k \in 0..n : \E f \in [0..k -> B] : Runs(f, k)}
<1>1. 0 \in T
  <2> DEFINE g == [k \in 0..0 |-> b0]
  <2>1. g \in [0..0 -> B]
    OBVIOUS
  <2>2. g[0] = b0 /\ 0 \in 0..n /\ 1..0 = {}
    OBVIOUS
  <2>3. Runs(g, 0)
    BY <2>2
  <2> HIDE DEF g
  <2> QED BY <2>1, <2>2, <2>3
<1>2. ASSUME NEW k \in 1..n, k - 1 \in T
      PROVE  k \in T
  <2>1. PICK f \in [0..(k - 1) -> B] : Runs(f, k - 1)
    BY <1>2
  <2> DEFINE g == [j \in 0..k |-> IF j = k THEN S[k][f[k - 1]] ELSE f[j]]
  <2>2. k - 1 \in 0..(k - 1) /\ k \in 0..k /\ k \in 0..n /\ \A j \in 0..k : j = k \/ j \in 0..(k - 1)
    OBVIOUS
  <2>3. S[k][f[k - 1]] \in B
    BY <2>2
  <2>4. g \in [0..k -> B]
    BY <2>2, <2>3
  <2>5. g[0] = b0
    BY <2>1, <2>2
  <2>6. ASSUME NEW j \in 1..k PROVE g[j] = S[j][g[j - 1]]
    <3>1. j - 1 \in 0..k /\ j - 1 # k /\ j \in 0..k
      OBVIOUS
    <3>2. g[j - 1] = f[j - 1]
      BY <3>1
    <3>3. CASE j = k
      BY <3>1, <3>2, <3>3
    <3>4. CASE j # k
      <4>1. j \in 1..(k - 1)
        BY <3>4
      <4> QED BY <2>1, <3>1, <3>2, <3>4, <4>1
    <3> QED BY <3>3, <3>4
  <2> QED BY <2>2, <2>4, <2>5, <2>6
<1>3. n \in T
  <2>1. \A k \in 1..n : k - 1 \in T => k \in T
    BY <1>2
  <2> HIDE DEF T
  <2>2. 0..n \subseteq T
    BY <1>1, <2>1, UpTo
  <2> QED BY <2>2
<1> QED BY <1>3 DEF Walks

-----------------------------------------------------------------------------
\* The walk of RemoveSeat: what is listed stays a list, the other seats keep
\* their objects, and a seat with one object loses it.
Places(n) == [live: Seq(Entries), memory: [1..n -> Entries]]
Keeps(list, live, t) ==
    /\ Unlisted(list, t) => Unlisted(live, t)
    /\ ListedOnce(list, t) => ListedOnce(live, t)

LEMMA TurnTyped ==
    ASSUME NEW n \in Nat, NEW l \in Places(n), NEW i \in 1..n, NEW s
    PROVE  Turn(l, i, s) \in Places(n)
<1> DEFINE live == Without(l.live, l.memory[i])
           memory == [j \in DOMAIN l.memory |-> IF j <= Len(live) THEN live[j] ELSE l.memory[j]]
<1>1. l.live \in Seq(Entries) /\ l.memory \in [1..n -> Entries]
  BY DEF Places
<1>2. live \in Seq(Entries)
  BY <1>1, WithoutTyped
<1> HIDE DEF live
<1>3. \A j \in 1..n : j <= Len(live) => live[j] \in Entries
  BY <1>2
<1>4. memory \in [1..n -> Entries]
  BY <1>1, <1>3
<1>5. Drop(l, l.memory[i]) = [live |-> live, memory |-> memory]
  BY DEF Drop, live
<1> HIDE DEF memory
<1>6. Drop(l, l.memory[i]) \in Places(n)
  BY <1>2, <1>4, <1>5 DEF Places
<1> QED BY <1>6 DEF Turn

LEMMA TurnKeeps ==
    ASSUME NEW n \in Nat, NEW l \in Places(n), NEW i \in 1..n, NEW s, NEW t
    PROVE  /\ Unlisted(l.live, t) => Unlisted(Turn(l, i, s).live, t)
           /\ t # s /\ ListedOnce(l.live, t) => ListedOnce(Turn(l, i, s).live, t)
<1>1. l.live \in Seq(Entries)
  BY DEF Places
<1>2. CASE l.memory[i].seat = s
  <2>1. Turn(l, i, s).live = Without(l.live, l.memory[i])
    BY <1>2 DEF Turn, Drop
  <2>2. Unlisted(l.live, t) => Unlisted(Without(l.live, l.memory[i]), t)
    BY <1>1, WithoutTyped DEF Unlisted
  <2>3. t # s /\ ListedOnce(l.live, t) => ListedOnce(Without(l.live, l.memory[i]), t)
    BY <1>1, <1>2, WithoutOthers
  <2> QED BY <2>1, <2>2, <2>3
<1>3. CASE l.memory[i].seat # s
  BY <1>3 DEF Turn
<1> QED BY <1>2, <1>3

LEMMA ObjectsRemoved ==
    ASSUME NEW list \in Seq(Entries), NEW s
    PROVE  /\ RemoveSeatObjects(list, s) \in Seq(Entries)
           /\ \A t : t # s => Keeps(list, RemoveSeatObjects(list, s), t)
           /\ ListedOnce(list, s) => Unlisted(RemoveSeatObjects(list, s), s)
<1> DEFINE n == Len(list)
           l0 == [live |-> list, memory |-> list]
           walk[i \in 0..n] == IF i = 0 THEN l0 ELSE Turn(walk[i - 1], i, s)
<1>1. n \in Nat /\ list \in [1..n -> Entries]
  OBVIOUS
<1>2. l0 \in Places(n)
  BY <1>1 DEF Places
<1>3. PICK f \in [0..n -> Places(n)] : f[0] = l0 /\ \A k \in 1..n : f[k] = Turn(f[k - 1], k, s)
  <2> DEFINE S == [k \in 1..n |-> [l \in Places(n) |-> Turn(l, k, s)]]
  <2>1. S \in [1..n -> [Places(n) -> Places(n)]]
    BY <1>1, TurnTyped
  <2> HIDE DEF l0, n
  <2>2. PICK f \in [0..n -> Places(n)] : Walks(f, l0, n, S)
    <3> HIDE DEF S
    <3> QED BY <1>1, <1>2, <2>1, Recursion
  <2>3. \A k \in 1..n : k - 1 \in 0..n
    BY <1>1
  <2>4. \A k \in 1..n : f[k] = Turn(f[k - 1], k, s)
    BY <2>2, <2>3 DEF Walks
  <2> QED BY <2>2, <2>4 DEF Walks
<1>4. f = [i \in 0..n |-> IF i = 0 THEN l0 ELSE Turn(f[i - 1], i, s)]
  <2>1. \A i \in 0..n : f[i] = IF i = 0 THEN l0 ELSE Turn(f[i - 1], i, s)
    BY <1>1, <1>3
  <2> HIDE DEF l0, n
  <2> QED BY <2>1
<1>5. walk = [i \in 0..n |-> IF i = 0 THEN l0 ELSE Turn(walk[i - 1], i, s)]
  <2> HIDE DEF l0, n
  <2> QED BY <1>4
<1>6. PICK g : g = walk
  OBVIOUS
<1>7. RemoveSeatObjects(list, s) = g[n].live
  BY <1>6 DEF RemoveSeatObjects
<1> HIDE DEF walk
<1>8. g[0] = l0 /\ \A k \in 1..n : g[k] = Turn(g[k - 1], k, s)
  <2> HIDE DEF l0
  <2>1. g = [i \in 0..n |-> IF i = 0 THEN l0 ELSE Turn(g[i - 1], i, s)]
    BY <1>5, <1>6
  <2>2. 0 \in 0..n /\ \A k \in 1..n : k \in 0..n /\ k # 0
    BY <1>1
  <2> HIDE DEF n
  <2> QED BY <2>1, <2>2
<1> HIDE DEF l0, n
<1>9. \A k \in 0..n : g[k] \in Places(n)
  <2> DEFINE T == {k \in 0..n : g[k] \in Places(n)}
  <2>1. 0 \in T
    BY <1>1, <1>2, <1>8
  <2>2. \A k \in 1..n : k - 1 \in T => k \in T
    BY <1>1, <1>8, TurnTyped
  <2> HIDE DEF T
  <2>3. 0..n \subseteq T
    BY <1>1, <2>1, <2>2, UpTo
  <2> QED BY <2>3 DEF T
<1>10. l0.live = list /\ l0.memory = list /\ n \in 0..n
  BY <1>1 DEF l0
<1>11. ASSUME NEW t, t # s PROVE Keeps(list, g[n].live, t)
  <2> DEFINE T == {k \in 0..n : Keeps(list, g[k].live, t)}
  <2>1. 0 \in T
    BY <1>1, <1>8, <1>10 DEF Keeps
  <2>2. ASSUME NEW k \in 1..n, k - 1 \in T PROVE k \in T
    <3>1. g[k - 1] \in Places(n) /\ g[k] = Turn(g[k - 1], k, s) /\ k \in 0..n
      BY <1>1, <1>8, <1>9, <2>2
    <3>2. Keeps(list, g[k - 1].live, t)
      BY <2>2
    <3> QED BY <1>1, <1>11, <3>1, <3>2, TurnKeeps DEF Keeps
  <2> HIDE DEF T
  <2>3. 0..n \subseteq T
    BY <1>1, <2>1, <2>2, UpTo
  <2> QED BY <1>10, <2>3 DEF T
<1>12. ASSUME ListedOnce(list, s) PROVE Unlisted(g[n].live, s)
  <2>1. PICK p \in 1..n : list[p].seat = s /\ \A j \in 1..n : list[j].seat = s => p = j
    BY <1>1, <1>12 DEF ListedOnce, n
  <2> DEFINE T == {k \in 0..n : IF k < p THEN g[k] = l0 ELSE Unlisted(g[k].live, s)}
  <2>2. 0 \in T
    BY <1>1, <1>8
  <2>3. ASSUME NEW k \in 1..n, k - 1 \in T PROVE k \in T
    <3>1. k \in 0..n /\ k - 1 \in 0..n /\ g[k] = Turn(g[k - 1], k, s) /\ g[k - 1] \in Places(n)
      BY <1>1, <1>8, <1>9, <2>3
    <3>2. CASE k < p
      <4>1. g[k - 1] = l0 /\ list[k].seat # s
        BY <1>1, <2>1, <2>3, <3>2
      <4>2. g[k] = l0
        BY <1>10, <3>1, <4>1 DEF Turn
      <4> QED BY <3>1, <3>2, <4>2
    <3>3. CASE k = p
      <4>1. g[k - 1] = l0
        BY <1>1, <2>3, <3>3
      <4>2. g[k].live = Without(list, list[p])
        BY <1>10, <2>1, <3>1, <3>3, <4>1 DEF Turn, Drop
      <4>3. Unlisted(Without(list, list[p]), s)
        BY <1>1, <1>12, <2>1, WithoutIt
      <4> QED BY <3>1, <3>3, <4>2, <4>3
    <3>4. CASE p < k
      <4>1. Unlisted(g[k - 1].live, s)
        BY <1>1, <2>3, <3>4
      <4>2. PICK l : l = g[k - 1]
        OBVIOUS
      <4>3. n \in Nat /\ l \in Places(n) /\ Unlisted(l.live, s) /\ g[k] = Turn(l, k, s)
        BY <1>1, <3>1, <4>1, <4>2
      <4>4. Unlisted(Turn(l, k, s).live, s)
        BY <4>3, TurnKeeps
      <4>5. Unlisted(g[k].live, s)
        BY <4>3, <4>4
      <4> QED BY <3>1, <3>4, <4>5
    <3> QED BY <1>1, <3>2, <3>3, <3>4
  <2> HIDE DEF T
  <2>4. 0..n \subseteq T
    BY <1>1, <2>2, <2>3, UpTo
  <2> QED BY <1>1, <1>10, <2>1, <2>4 DEF T
<1>13. g[n].live \in Seq(Entries)
  BY <1>9, <1>10 DEF Places
<1> QED BY <1>7, <1>11, <1>12, <1>13

-----------------------------------------------------------------------------
(***************************************************************************)
(* The Seat objects and their D-Bus objects                               *)
(***************************************************************************)

SeatsTyped(r) ==
    /\ DOMAIN r = {"made", "current", "dbus"}
    /\ r.made \in [Seats -> Seq(0..MaxDisplays)]
    /\ r.current \in [Seats -> Nat]
    /\ \A s \in Seats : r.current[s] # 0 => /\ r.current[s] \in DOMAIN r.made[s]
                                            /\ r.made[s][r.current[s]] > 0
    /\ r.dbus \in Seq(Entries)

\* OneObject, of seats as they are or will be.
RunningIn(r, s) == {n \in DOMAIN r.made[s] : r.made[s][n] > 0}
One(r, s) ==
    IF r.current[s] # 0 THEN RunningIn(r, s) = {r.current[s]} /\ ListedOnce(r.dbus, s)
                        ELSE RunningIn(r, s) = {} /\ Unlisted(r.dbus, s)
\* What is done to one seat leaves the others as they were.
Same(r, q, s) == q.current[s] = r.current[s] /\ (One(r, s) => One(q, s))

LEMMA ExtendedList ==
    ASSUME NEW list \in Seq(Entries), NEW new \in Seq(Entries), NEW s,
           \A i \in DOMAIN new : new[i].seat = s
    PROVE  /\ \A t : t # s => Keeps(list, list \o new, t)
           /\ Unlisted(list, s) /\ Len(new) = 1 => ListedOnce(list \o new, s)
<1>1. /\ Len(list) \in Nat /\ Len(new) \in Nat /\ DOMAIN list = 1..Len(list) /\ DOMAIN new = 1..Len(new)
      /\ DOMAIN (list \o new) = 1..(Len(list) + Len(new))
      /\ \A i \in 1..Len(list) : (list \o new)[i] = list[i]
  OBVIOUS
<1>2. \A i \in 1..(Len(list) + Len(new)) :
         i \notin 1..Len(list) => i - Len(list) \in 1..Len(new) /\ (list \o new)[i] = new[i - Len(list)]
  <2>1. \A i \in 1..(Len(list) + Len(new)) : i \notin 1..Len(list) => (list \o new)[i] = new[i - Len(list)]
    OBVIOUS
  <2>2. \A i \in 1..(Len(list) + Len(new)) : i \notin 1..Len(list) => i - Len(list) \in 1..Len(new)
    BY <1>1
  <2> QED BY <2>1, <2>2
<1> DEFINE l == list \o new
<1>3. /\ DOMAIN l = 1..(Len(list) + Len(new))
      /\ \A i \in DOMAIN list : i \in DOMAIN l /\ l[i] = list[i]
      /\ \A i \in DOMAIN l : i \notin DOMAIN list => l[i].seat = s
  BY <1>1, <1>2
<1> HIDE DEF l
<1>4. ASSUME NEW t, t # s PROVE Keeps(list, l, t)
  <2>1. Unlisted(list, t) => Unlisted(l, t)
    BY <1>3, <1>4 DEF Unlisted
  <2>2. ListedOnce(list, t) => ListedOnce(l, t)
    BY <1>3, <1>4 DEF ListedOnce
  <2> QED BY <2>1, <2>2 DEF Keeps
<1>5. ASSUME Unlisted(list, s), Len(new) = 1 PROVE ListedOnce(l, s)
  <2>1. Len(list) + 1 \in DOMAIN l /\ Len(list) + 1 \notin DOMAIN list
    BY <1>1, <1>3, <1>5
  <2>2. \A j \in DOMAIN l : l[j].seat = s => j \notin DOMAIN list
    BY <1>3, <1>5 DEF Unlisted
  <2>3. \A j \in DOMAIN l : j \notin DOMAIN list => Len(list) + 1 = j
    BY <1>1, <1>3, <1>5
  <2> QED BY <1>3, <2>1, <2>2, <2>3 DEF ListedOnce
<1> QED BY <1>4, <1>5 DEF l

LEMMA Longer ==
    ASSUME NEW S, NEW a \in Seq(S), NEW b \in Seq(S)
    PROVE  /\ a \o b \in Seq(S) /\ Len(a \o b) = Len(a) + Len(b)
           /\ \A i \in 1..(Len(a) + Len(b)) :
                 (a \o b)[i] = IF i <= Len(a) THEN a[i] ELSE b[i - Len(a)]
OBVIOUS

LEMMA Replaced ==
    ASSUME NEW S, NEW a \in Seq(S), NEW c \in DOMAIN a, NEW v \in S
    PROVE  /\ [a EXCEPT ![c] = v] \in Seq(S) /\ DOMAIN [a EXCEPT ![c] = v] = DOMAIN a
           /\ \A i \in DOMAIN a : [a EXCEPT ![c] = v][i] = IF i = c THEN v ELSE a[i]
OBVIOUS

LEMMA Created ==
    ASSUME ConstantsAssumption, NEW r, SeatsTyped(r), NEW s \in Seats, NEW n \in Nat
    PROVE  /\ SeatsTyped(CreateSeats(r, s, n))
           /\ n = 0 => CreateSeats(r, s, n) = r
           /\ n # 0 => CreateSeats(r, s, n).current[s] # 0
           /\ \A t \in Seats : t # s => Same(r, CreateSeats(r, s, n), t)
           /\ n = 1 /\ r.current[s] = 0 /\ One(r, s) => One(CreateSeats(r, s, n), s)
<1>1. CASE n = 0
  BY <1>1 DEF CreateSeats, Same
<1>2. CASE n # 0
  <2> DEFINE last == Len(r.made[s])
             ones == [i \in 1..n |-> 1]
             new == [i \in 1..n |-> [seat |-> s, nr |-> last + i]]
             q == CreateSeats(r, s, n)
  <2>1. /\ r.made \in [Seats -> Seq(0..MaxDisplays)] /\ r.current \in [Seats -> Nat] /\ r.dbus \in Seq(Entries)
        /\ r.made[s] \in Seq(0..MaxDisplays) /\ last \in Nat /\ DOMAIN r.made[s] = 1..last
    BY DEF SeatsTyped
  <2>2. /\ q.made = [r.made EXCEPT ![s] = r.made[s] \o ones]
        /\ q.current = [r.current EXCEPT ![s] = last + n]
        /\ q.dbus = r.dbus \o new /\ DOMAIN q = {"made", "current", "dbus"}
    BY <1>2 DEF CreateSeats
  <2>3. ones \in Seq(0..MaxDisplays) /\ Len(ones) = n /\ \A i \in 1..n : ones[i] = 1
    BY ConstantsAssumption DEF ConstantsAssumption
  <2>4. new \in Seq(Entries) /\ Len(new) = n /\ \A i \in DOMAIN new : new[i].seat = s
    <3>1. \A i \in 1..n : [seat |-> s, nr |-> last + i] \in Entries
      BY <2>1 DEF Entries
    <3>2. new \in [1..n -> Entries] /\ \A i \in 1..n : new[i].seat = s
      BY <3>1
    <3> HIDE DEF new
    <3>3. new \in Seq(Entries) /\ Len(new) = n
      BY <3>2
    <3> QED BY <3>2, <3>3
  <2> DEFINE m == r.made[s] \o ones
  <2>5. m \in Seq(0..MaxDisplays) /\ Len(m) = last + n
    <3> HIDE DEF ones
    <3> QED BY <2>1, <2>3, Longer
  <2>6. \A i \in 1..(last + n) : m[i] = IF i <= last THEN r.made[s][i] ELSE 1
    <3>1. \A i \in 1..(last + n) : m[i] = IF i <= last THEN r.made[s][i] ELSE ones[i - last]
      <4> HIDE DEF ones
      <4> QED BY <2>1, <2>3, Longer
    <3>2. \A i \in 1..(last + n) : ~(i <= last) => i - last \in 1..n
      BY <2>1
    <3> QED BY <2>3, <3>1, <3>2
  <2> HIDE DEF last, ones, new, q, m
  <2>7. /\ q.made \in [Seats -> Seq(0..MaxDisplays)] /\ q.made[s] = m
        /\ q.current \in [Seats -> Nat] /\ q.current[s] = last + n
        /\ \A t \in Seats : t # s => q.made[t] = r.made[t] /\ q.current[t] = r.current[t]
    <3>1. last + n \in Nat /\ q.made = [r.made EXCEPT ![s] = m]
      BY <2>1, <2>2 DEF m
    <3>2. /\ q.made \in [Seats -> Seq(0..MaxDisplays)] /\ q.made[s] = m
          /\ \A t \in Seats : t # s => q.made[t] = r.made[t]
      BY <2>1, <2>5, <3>1
    <3>3. /\ q.current \in [Seats -> Nat] /\ q.current[s] = last + n
          /\ \A t \in Seats : t # s => q.current[t] = r.current[t]
      BY <2>1, <2>2, <3>1
    <3> QED BY <3>2, <3>3
  <2>8. q.dbus \in Seq(Entries)
    BY <2>1, <2>2, <2>4
  <2>9. last + n \in DOMAIN m /\ m[last + n] > 0 /\ last + n # 0
    BY <1>2, <2>1, <2>5, <2>6
  <2>10. SeatsTyped(q)
    BY <2>2, <2>7, <2>8, <2>9 DEF SeatsTyped
  <2>11. \A t \in Seats : t # s => Same(r, q, t)
    <3>1. \A t : t # s => Keeps(r.dbus, q.dbus, t)
      <4>1. \A t : t # s => Keeps(r.dbus, r.dbus \o new, t)
        BY <2>1, <2>4, ExtendedList
      <4> QED BY <2>2, <4>1
    <3> QED BY <2>7, <3>1 DEF Same, One, RunningIn, Keeps
  <2>12. ASSUME n = 1, r.current[s] = 0, One(r, s) PROVE One(q, s)
    <3>1. \A i \in 1..last : ~(r.made[s][i] > 0)
      BY <2>1, <2>12 DEF One, RunningIn
    <3>2. RunningIn(q, s) = {last + 1}
      <4>1. DOMAIN m = 1..(last + 1) /\ last + 1 \in DOMAIN m /\ m[last + 1] = 1
        BY <2>1, <2>5, <2>6, <2>12
      <4>2. \A i \in 1..(last + 1) : i = last + 1 \/ (i \in 1..last /\ m[i] = r.made[s][i])
        BY <2>1, <2>6, <2>12
      <4>3. \A i \in DOMAIN m : m[i] > 0 <=> i = last + 1
        BY <3>1, <4>1, <4>2
      <4> QED BY <2>7, <4>1, <4>3 DEF RunningIn
    <3>3. ListedOnce(q.dbus, s)
      BY <2>1, <2>2, <2>4, <2>12, ExtendedList DEF One
    <3> QED BY <2>7, <2>9, <2>12, <3>2, <3>3 DEF One
  <2> QED BY <1>2, <2>7, <2>9, <2>10, <2>11, <2>12 DEF q
<1> QED BY <1>1, <1>2

LEMMA CreatedFirst ==
    ASSUME ConstantsAssumption, NEW r, SeatsTyped(r), NEW s \in Seats
    PROVE  CreateSeat(r, s) = CreateSeats(r, s, 1)
<1>1. r.made[s] \in Seq(0..MaxDisplays) /\ r.dbus \in Seq(Entries)
  BY DEF SeatsTyped
<1>2. Append(r.made[s], 1) = r.made[s] \o [i \in 1..1 |-> 1]
  BY <1>1, ConstantsAssumption DEF ConstantsAssumption
<1>3. Append(r.dbus, [seat |-> s, nr |-> Len(r.made[s]) + 1])
         = r.dbus \o [i \in 1..1 |-> [seat |-> s, nr |-> Len(r.made[s]) + i]]
  <2> DEFINE e == [seat |-> s, nr |-> Len(r.made[s]) + 1]
  <2>1. e \in Entries /\ [i \in 1..1 |-> [seat |-> s, nr |-> Len(r.made[s]) + i]] = [i \in 1..1 |-> e]
    BY <1>1 DEF Entries
  <2> HIDE DEF e
  <2>2. Append(r.dbus, e) = r.dbus \o [i \in 1..1 |-> e]
    BY <1>1, <2>1
  <2> QED BY <2>1, <2>2 DEF e
<1>4. Len(r.made[s]) \in Nat /\ 1 # 0
  BY <1>1
<1> QED BY <1>2, <1>3, <1>4 DEF CreateSeat, CreateSeats

LEMMA Removed ==
    ASSUME ConstantsAssumption, NEW r, SeatsTyped(r), NEW s \in Seats
    PROVE  /\ SeatsTyped(RemoveSeat(r, s)) /\ RemoveSeat(r, s).current[s] = 0
           /\ \A t \in Seats : t # s => Same(r, RemoveSeat(r, s), t)
           /\ One(r, s) => One(RemoveSeat(r, s), s)
<1>1. CASE r.current[s] = 0
  BY <1>1 DEF RemoveSeat, Same
<1>2. CASE r.current[s] # 0
  <2> DEFINE c == r.current[s]
             m == [r.made[s] EXCEPT ![c] = 0]
             list == RemoveSeatObjects(r.dbus, s)
             q == RemoveSeat(r, s)
  <2>1. /\ r.made \in [Seats -> Seq(0..MaxDisplays)] /\ r.current \in [Seats -> Nat] /\ r.dbus \in Seq(Entries)
        /\ r.made[s] \in Seq(0..MaxDisplays) /\ c \in DOMAIN r.made[s]
    BY <1>2 DEF SeatsTyped
  <2>2. /\ q.made = [r.made EXCEPT ![s] = m] /\ q.current = [r.current EXCEPT ![s] = 0]
        /\ q.dbus = list /\ DOMAIN q = {"made", "current", "dbus"}
    BY <1>2, <2>1 DEF RemoveSeat
  <2>3. m \in Seq(0..MaxDisplays) /\ DOMAIN m = DOMAIN r.made[s]
        /\ \A i \in DOMAIN m : m[i] = IF i = c THEN 0 ELSE r.made[s][i]
    <3>1. 0 \in 0..MaxDisplays
      BY ConstantsAssumption DEF ConstantsAssumption
    <3> HIDE DEF c
    <3> QED BY <2>1, <3>1, Replaced
  <2>4. /\ list \in Seq(Entries) /\ \A t : t # s => Keeps(r.dbus, list, t)
        /\ ListedOnce(r.dbus, s) => Unlisted(list, s)
    BY <2>1, ObjectsRemoved
  <2> HIDE DEF m, list, q
  <2>5. /\ q.made \in [Seats -> Seq(0..MaxDisplays)] /\ q.made[s] = m
        /\ q.current \in [Seats -> Nat] /\ q.current[s] = 0
        /\ \A t \in Seats : t # s => q.made[t] = r.made[t] /\ q.current[t] = r.current[t]
    BY <2>1, <2>2, <2>3
  <2>6. SeatsTyped(q)
    BY <2>2, <2>4, <2>5 DEF SeatsTyped
  <2>7. \A t \in Seats : t # s => Same(r, q, t)
    BY <2>2, <2>4, <2>5 DEF Same, One, RunningIn, Keeps
  <2>8. One(r, s) => One(q, s)
    <3>1. ASSUME RunningIn(r, s) = {c} PROVE RunningIn(q, s) = {}
      <4>1. \A i \in DOMAIN r.made[s] : r.made[s][i] > 0 <=> i = c
        BY <3>1 DEF RunningIn
      <4>2. \A i \in DOMAIN m : ~(m[i] > 0)
        BY <2>3, <4>1
      <4> QED BY <2>5, <4>2 DEF RunningIn
    <3> QED BY <1>2, <2>2, <2>4, <2>5, <3>1 DEF One
  <2> QED BY <2>5, <2>6, <2>7, <2>8 DEF q
<1> QED BY <1>1, <1>2

\* One display more or less of a Seat that keeps at least one.
LEMMA Redisplayed ==
    ASSUME NEW r, SeatsTyped(r), NEW s \in Seats, NEW n \in DOMAIN r.made[s], NEW v \in 1..MaxDisplays,
           r.made[s][n] > 0
    PROVE  /\ SeatsTyped([r EXCEPT !.made[s][n] = v])
           /\ \A t \in Seats : Same(r, [r EXCEPT !.made[s][n] = v], t)
<1> DEFINE q == [r EXCEPT !.made[s][n] = v]
           m == [r.made[s] EXCEPT ![n] = v]
<1>1. /\ r.made \in [Seats -> Seq(0..MaxDisplays)] /\ r.made[s] \in Seq(0..MaxDisplays)
      /\ DOMAIN r = {"made", "current", "dbus"}
  BY DEF SeatsTyped
<1>2. m \in Seq(0..MaxDisplays) /\ DOMAIN m = DOMAIN r.made[s]
      /\ \A i \in DOMAIN m : m[i] = IF i = n THEN v ELSE r.made[s][i]
  <2>1. v \in 0..MaxDisplays
    OBVIOUS
  <2> QED BY <1>1, <2>1
<1>3. q.made = [r.made EXCEPT ![s] = m] /\ q.current = r.current /\ q.dbus = r.dbus /\ DOMAIN q = DOMAIN r
  BY <1>1
<1> HIDE DEF q, m
<1>4. /\ q.made \in [Seats -> Seq(0..MaxDisplays)] /\ q.made[s] = m
      /\ \A t \in Seats : t # s => q.made[t] = r.made[t]
  BY <1>1, <1>2, <1>3
<1>5. SeatsTyped(q)
  BY <1>1, <1>2, <1>3, <1>4 DEF SeatsTyped
<1>6. \A t \in Seats : RunningIn(q, t) = RunningIn(r, t)
  BY <1>2, <1>4 DEF RunningIn
<1>7. \A t \in Seats : Same(r, q, t)
  BY <1>3, <1>6 DEF Same, One
<1> QED BY <1>5, <1>7 DEF q

-----------------------------------------------------------------------------
(***************************************************************************)
(* The steps that take a message                                          *)
(***************************************************************************)

LEMMA Listening ==
    ASSUME TypeOK, Wired, NEW s \in Seats
    PROVE  /\ SeatsTyped(seats) /\ watchers[s] \in Seq(Watchers) /\ system[s] \in Nat
           /\ Len(watchers[s]) \in Nat /\ DOMAIN watchers[s] = 1..Len(watchers[s])
           /\ AliveOf(s) \subseteq DOMAIN watchers[s] /\ 0 \notin AliveOf(s)
           /\ system[s] # 0 => system[s] \in AliveOf(s)
           /\ \A i \in DOMAIN bus : Answers(watchers[s], bus[i], s) => bus[i].watcher \in AliveOf(s)
<1>1. watchers[s] \in Seq(Watchers) /\ system[s] \in Nat /\ SeatsTyped(seats)
  BY DEF TypeOK, SeatsTyped, Entries
<1>2. Len(watchers[s]) \in Nat /\ DOMAIN watchers[s] = 1..Len(watchers[s])
  BY <1>1
<1>3. AliveOf(s) \subseteq DOMAIN watchers[s] /\ 0 \notin AliveOf(s)
  BY <1>2 DEF AliveOf
<1>4. system[s] # 0 => system[s] \in AliveOf(s)
  BY DEF TypeOK, AliveOf
<1>5. \A i \in DOMAIN bus : Answers(watchers[s], bus[i], s) => bus[i].watcher \in AliveOf(s)
  BY DEF Wired, Answers, RepliesTo, AliveOf
<1> QED BY <1>1, <1>2, <1>3, <1>4, <1>5

LEMMA HeardTaken ==
    ASSUME NEW s, Takes(s), Heard(s), StartUp
    PROVE  Heard(s)'
<1>1. Listing' => Listing /\ bus[1].kind # "Listed"
  <2>1. CASE ~ListSeatsServed'
    BY <2>1, Taken DEF Listing, StartUp, Takes, Taking
  <2>2. ASSUME NEW i \in DOMAIN bus', bus'[i].kind = "Listed"
        PROVE  Listing /\ bus[1].kind # "Listed"
    <3>1. i + 1 \in DOMAIN bus /\ 1 < i + 1 /\ 1 \in DOMAIN bus /\ i + 1 # 1 /\ bus[i + 1].kind = "Listed"
      BY <2>2, Taken DEF Takes
    <3> QED BY <3>1 DEF StartUp, Listing
  <2> QED BY <2>1, <2>2 DEF Listing
<1>2. GoneKnown(s)' /\ ThereKnown(s)' /\ NothingUnknown(s)'
  BY GoneTaken, ThereTaken, UnknownTaken DEF Heard
<1>3. OneBeforeListed(s)'
  BY <1>1, OneBeforeListedTaken DEF Heard
<1>4. Faithful(s)' /\ Followed(s)'
  BY FaithfulTaken, FollowedTaken DEF Heard, Takes
<1> QED BY <1>2, <1>3, <1>4 DEF Heard

LEMMA AnnouncedTaken ==
    ASSUME NEW s, Takes(s), Announced(s)
    PROVE  Announced(s)'
BY OneWatcherTaken, OneAnnouncementTaken, ClearedTaken DEF Announced

\* What every such step does, whatever the message is.
LEMMA AfterTaking ==
    ASSUME ConstantsAssumption, IInv, TypeOK', \A s \in Seats : Takes(s), early' = early, missed' = missed,
           \A s \in Seats : DOMAIN watchers[s] \subseteq DOMAIN watchers'[s],
           \A i \in DOMAIN calls' :
              \/ i \in DOMAIN calls /\ calls'[i] = calls[i] /\ calls[i].seat \in Seats
              \/ calls'[i].op = "Get" /\ calls'[i].watcher \in DOMAIN watchers'[calls'[i].seat],
           \A s \in Plain : One(seats', s)
    PROVE  IInv'
<1>1. TypeOK /\ Wired /\ StartUp
  BY DEF IInv
<1>2. Taking(Seat0)
  BY DEF Takes, ConstantsAssumption
<1>3. /\ \A i \in DOMAIN bus' : i + 1 \in DOMAIN bus /\ bus'[i] = bus[i + 1]
      /\ \A i, j \in DOMAIN bus' : i + 1 = j + 1 => i = j
      /\ 1 \in DOMAIN bus /\ bus # <<>> /\ bus \in Seq(Messages)
      /\ manager' = manager /\ ListSeatsServed' = ListSeatsServed
  BY <1>2, Taken DEF Taking
<1>4. \A i \in DOMAIN bus : bus[i] \in Messages /\ bus[i].seat \in Seats
  <2>1. bus \in Seq(Messages)
    BY <1>3
  <2>2. \A i \in DOMAIN bus : bus[i] \in Messages
    BY <2>1
  <2> QED BY <2>2 DEF Messages
<1>5. manager \in {"asked", "ready"}
  BY <1>1, <1>3 DEF StartUp, TypeOK
<1>6. Wired'
  BY <1>1, <1>3, <1>4 DEF Wired
<1>7. StartUp'
  <2>1. \A i \in DOMAIN bus' : bus'[i].kind \in {"Listed", "Got", "Failed"} => ListSeatsServed'
    BY <1>1, <1>3 DEF StartUp
  <2>2. \A i, j \in DOMAIN bus' : bus'[i].kind = "Listed" /\ bus'[j].kind = "Listed" => i = j
    BY <1>1, <1>3 DEF StartUp
  <2>3. \A i \in DOMAIN calls' : calls'[i].op = "ListSeats" => i = 1
    BY <1>1 DEF StartUp
  <2>4. manager' = "asked" => \A i \in DOMAIN bus' : bus'[i].kind \notin {"SeatNew", "SeatRemoved"}
    BY <1>1, <1>3 DEF StartUp
  <2>5. manager' = "asked" => ListSeatsServed'
    BY <1>1, <1>3 DEF StartUp
  <2> QED BY <1>3, <1>5, <2>1, <2>2, <2>3, <2>4, <2>5 DEF StartUp
<1>8. \A s \in Seats \ missed : Heard(s)'
  BY <1>1, <1>5, HeardTaken DEF IInv
<1>9. \A s \in Plain : Announced(s)' /\ OneObject(s)'
  <2>1. \A s \in Plain : Announced(s)'
    BY <1>5, AnnouncedTaken DEF IInv, Plain
  <2>2. \A s \in Plain : OneObject(s)'
    BY DEF One, RunningIn, OneObject, Running, Shown, Unlisted, ListedOnce
  <2> QED BY <2>1, <2>2
<1>10. Plain' = Plain
  BY DEF Plain
<1> QED BY <1>6, <1>7, <1>8, <1>9, <1>10 DEF IInv

\* What IInv says of the message that is taken.
LEMMA AtTheFront ==
    ASSUME IInv, bus # <<>>
    PROVE  /\ TypeOK /\ Wired /\ SeatsTyped(seats) /\ bus \in Seq(Messages) /\ Tail(bus) \in Seq(Messages)
           /\ 1 \in DOMAIN bus /\ Head(bus) = bus[1] /\ bus[1] \in Messages /\ bus[1].seat \in Seats
           /\ manager # "alone"
           /\ \A s \in Plain : OneWatcher(s) /\ Cleared(s) /\ One(seats, s)
<1>1. TypeOK /\ Wired /\ bus \in Seq(Messages) /\ SeatsTyped(seats) /\ manager # "alone"
  BY DEF IInv, TypeOK, StartUp, SeatsTyped, Entries
<1>2. Tail(bus) \in Seq(Messages) /\ 1 \in DOMAIN bus /\ Head(bus) = bus[1] /\ bus[1] \in Messages
  BY <1>1
<1>3. \A s \in Plain : OneWatcher(s) /\ Cleared(s) /\ One(seats, s)
  BY <1>1 DEF IInv, Announced, One, RunningIn, OneObject, Running, Shown
<1> QED BY <1>1, <1>2, <1>3 DEF Messages

\* A seat the step does not touch.
LEMMA Untouched ==
    ASSUME IInv, bus # <<>>, bus' = Tail(bus), logind' = logind, manager' = manager, calls' = calls,
           NEW s \in Seats, watchers'[s] = watchers[s], system'[s] = system[s],
           seats'.current[s] = seats.current[s], ~News(bus[1], s)
    PROVE  Takes(s)
<1>1. Kept(s)
  BY DEF Kept, AliveOf, Shown
<1>2. Taking(s) /\ Asked(s)' = Asked(s)
  BY AtTheFront DEF Taking, ListSeatsServed, Asked
<1> QED BY <1>1, <1>2, AtTheFront, Listening, OneKind DEF Takes

LEMMA TypedAfter ==
    ASSUME TypeOK, bus # <<>>, bus' = Tail(bus), SeatsTyped(seats'), calls' \in Seq(Calls),
           watchers' \in [Seats -> Seq(Watchers)], system' \in [Seats -> Nat],
           \A s \in Seats : system'[s] # 0 => system'[s] \in DOMAIN watchers'[s] /\ watchers'[s][system'[s]].alive,
           logind' = logind, manager' = manager, events' = events, early' = early, missed' = missed
    PROVE  TypeOK'
<1>1. bus' \in Seq(Messages)
  BY DEF TypeOK
<1> QED BY <1>1 DEF TypeOK, SeatsTyped, Entries

LEMMA CallsKept ==
    ASSUME TypeOK, calls' = calls
    PROVE  /\ calls' \in Seq(Calls)
           /\ \A i \in DOMAIN calls' : i \in DOMAIN calls /\ calls'[i] = calls[i] /\ calls[i].seat \in Seats
<1>1. calls \in Seq(Calls)
  BY DEF TypeOK
<1>2. \A i \in DOMAIN calls : calls[i] \in Calls
  BY <1>1
<1> QED BY <1>1, <1>2 DEF Calls

LEMMA Switched ==
    ASSUME ConstantsAssumption, SeatsTyped(seats), NEW s \in Seats, SwitchToGreeter(s)
    PROVE  SeatsTyped(seats') /\ \A t \in Seats : Same(seats, seats', t)
<1>1. CASE seats' = seats
  BY <1>1 DEF Same
<1>2. CASE /\ seats.current[s] # 0 /\ seats.made[s][seats.current[s]] < MaxDisplays
           /\ seats' = [seats EXCEPT !.made[s][seats.current[s]] = @ + 1]
  <2> DEFINE c == seats.current[s]
  <2>1. c \in DOMAIN seats.made[s] /\ seats.made[s][c] > 0 /\ seats.made[s] \in Seq(0..MaxDisplays)
        /\ DOMAIN seats = {"made", "current", "dbus"} /\ seats.made \in [Seats -> Seq(0..MaxDisplays)]
    BY <1>2 DEF SeatsTyped
  <2>2. PICK v : v = seats.made[s][c] + 1
    OBVIOUS
  <2>3. v \in 1..MaxDisplays
    <3>1. seats.made[s][c] \in 0..MaxDisplays /\ MaxDisplays \in Nat
      BY <2>1 DEF ConstantsAssumption
    <3> QED BY <1>2, <2>1, <2>2, <3>1
  <2>4. seats' = [seats EXCEPT !.made[s][c] = v]
    BY <1>2, <2>1, <2>2
  <2> HIDE DEF c
  <2> QED BY <2>1, <2>3, <2>4, Redisplayed
<1> QED BY <1>1, <1>2 DEF SwitchToGreeter

LEMMA Regraphed ==
    ASSUME ConstantsAssumption, SeatsTyped(seats), NEW s \in Seats, NEW v \in BOOLEAN, NEW n \in Nat,
           GraphicalChanged(s, v, n)
    PROVE  /\ SeatsTyped(seats')
           /\ n = 0 => seats' = seats
           /\ n # 0 => (seats'.current[s] # 0 <=> v)
           /\ \A t \in Seats : t # s => Same(seats, seats', t)
           /\ One(seats, s) /\ (v => n = 0 \/ (n = 1 /\ seats.current[s] = 0)) => One(seats', s)
<1>1. CASE v
  <2>1. seats' = CreateSeats(seats, s, n)
    BY <1>1 DEF GraphicalChanged
  <2> QED BY <1>1, <2>1, Created
<1>2. CASE ~v /\ n > 0
  <2>1. seats' = RemoveSeat(seats, s)
    BY <1>2 DEF GraphicalChanged
  <2> QED BY <1>2, <2>1, Removed
<1>3. CASE ~v /\ n = 0
  <2>1. seats' = seats
    BY <1>3 DEF GraphicalChanged
  <2> QED BY <1>3, <2>1 DEF Same
<1> QED BY <1>1, <1>2, <1>3

\* A step that leaves the LogindSeats and m_seats alone.
LEMMA NothingTaken ==
    ASSUME ConstantsAssumption, IInv, bus # <<>>, bus' = Tail(bus),
           UNCHANGED <<logind, calls, manager, watchers, system, events, history>>,
           SeatsTyped(seats'), \A s \in Seats : Same(seats, seats', s),
           \/ bus[1].kind \in {"Failed", "SecureAttentionKey"}
           \/ /\ bus[1].kind = "Got"
              /\ watchers[bus[1].seat][bus[1].watcher].alive
                    => (bus[1].value <=> watchers[bus[1].seat][bus[1].watcher].graphical)
    PROVE  IInv'
<1>1. TypeOK'
  BY AtTheFront, CallsKept, TypedAfter DEF TypeOK, history
<1>2. ASSUME NEW s \in Seats PROVE Takes(s)
  <2>1. CASE News(bus[1], s)
    <3>1. /\ RepliesTo(bus[1], s)
          /\ Answers(watchers[s], bus[1], s) => (bus[1].value <=> watchers[s][bus[1].watcher].graphical)
      BY <2>1 DEF News, Announces, Ends, Tells, RepliesTo, Answers
    <3>2. Kept(s)
      BY DEF Kept, AliveOf, Shown, Same
    <3>3. Taking(s) /\ Asked(s)' = Asked(s)
      BY AtTheFront DEF Taking, ListSeatsServed, Asked
    <3> QED BY <2>1, <3>1, <3>2, <3>3, AtTheFront, Listening, OneKind DEF Takes
  <2>2. CASE ~News(bus[1], s)
    BY <2>2, Untouched DEF Same
  <2> QED BY <2>1, <2>2
<1>3. \A s \in Plain : One(seats', s)
  BY AtTheFront DEF Same, Plain
<1> QED BY <1>1, <1>2, <1>3, AfterTaking, AtTheFront, CallsKept DEF history

LEMMA HearFailedStep ==
    ASSUME ConstantsAssumption, IInv, HearFailed
    PROVE  IInv'
<1>1. bus # <<>> /\ bus' = Tail(bus) /\ bus[1].kind = "Failed"
  BY AtTheFront DEF HearFailed, Hears
<1>2. seats' = seats
  BY DEF HearFailed
<1>3. SeatsTyped(seats') /\ \A s \in Seats : Same(seats, seats', s)
  BY <1>1, <1>2, AtTheFront DEF Same
<1> QED BY <1>1, <1>3, NothingTaken DEF HearFailed

LEMMA HearKeyStep ==
    ASSUME ConstantsAssumption, IInv, HearSecureAttentionKey
    PROVE  IInv'
<1>1. bus # <<>> /\ bus' = Tail(bus) /\ bus[1].kind = "SecureAttentionKey"
  BY AtTheFront DEF HearSecureAttentionKey, Hears
<1>2. SwitchToGreeter(bus[1].seat)
  BY <1>1, AtTheFront DEF HearSecureAttentionKey
<1>3. SeatsTyped(seats') /\ \A s \in Seats : Same(seats, seats', s)
  BY <1>1, <1>2, AtTheFront, Switched
<1> QED BY <1>1, <1>3, NothingTaken DEF HearSecureAttentionKey

LEMMA HearGotStep ==
    ASSUME ConstantsAssumption, IInv, HearGot
    PROVE  IInv'
<1> DEFINE t == bus[1].seat
           w == bus[1].watcher
           v == bus[1].value
<1>1. /\ bus # <<>> /\ bus' = Tail(bus) /\ bus[1].kind = "Got"
      /\ UNCHANGED <<logind, calls, manager, system, events, history>>
      /\ IF ReplyIsNews(watchers[t][w], v)
         THEN watchers' = [watchers EXCEPT ![t][w].graphical = v] /\ GraphicalChanged(t, v, 1)
         ELSE UNCHANGED <<watchers, seats>>
  BY AtTheFront DEF HearGot, Hears
<1>2. t \in Seats /\ v \in BOOLEAN /\ w \in DOMAIN watchers[t]
  BY <1>1, AtTheFront DEF Messages, Wired
<1>3. /\ watchers \in [Seats -> Seq(Watchers)] /\ watchers[t] \in Seq(Watchers)
      /\ watchers[t][w] \in Watchers /\ watchers[t][w].graphical \in BOOLEAN
  <2>1. watchers \in [Seats -> Seq(Watchers)]
    BY <1>1, AtTheFront DEF TypeOK
  <2>2. watchers[t] \in Seq(Watchers)
    BY <1>2, <2>1
  <2>3. watchers[t][w] \in Watchers
    BY <1>2, <2>2
  <2> QED BY <2>1, <2>2, <2>3 DEF Watchers
<1>4. CASE ~ReplyIsNews(watchers[t][w], v)
  <2>1. watchers[t][w].alive => (v <=> watchers[t][w].graphical)
    BY <1>2, <1>3, <1>4 DEF ReplyIsNews
  <2>2. seats' = seats /\ watchers' = watchers
    BY <1>1, <1>4
  <2>3. SeatsTyped(seats') /\ \A s \in Seats : Same(seats, seats', s)
    BY <1>1, <2>2, AtTheFront DEF Same
  <2> QED BY <1>1, <2>1, <2>2, <2>3, NothingTaken
<1>5. CASE ReplyIsNews(watchers[t][w], v)
  <2>1. /\ watchers[t][w].alive /\ ~(v <=> watchers[t][w].graphical)
        /\ watchers' = [watchers EXCEPT ![t][w].graphical = v] /\ GraphicalChanged(t, v, 1)
    BY <1>1, <1>2, <1>3, <1>5 DEF ReplyIsNews
  <2> DEFINE e == [watchers[t][w] EXCEPT !.graphical = v]
             ws == [watchers[t] EXCEPT ![w] = e]
  <2>2. e \in Watchers /\ e.alive = watchers[t][w].alive /\ e.graphical = v
    BY <1>2, <1>3 DEF Watchers
  <2> HIDE DEF e
  <2>3. /\ ws \in Seq(Watchers) /\ DOMAIN ws = DOMAIN watchers[t]
        /\ \A x \in DOMAIN ws : ws[x] = IF x = w THEN e ELSE watchers[t][x]
    BY <1>2, <1>3, <2>2, Replaced
  <2>4. watchers' = [watchers EXCEPT ![t] = ws]
    BY <1>2, <1>3, <2>1 DEF e
  <2> HIDE DEF ws
  <2>5. /\ watchers' \in [Seats -> Seq(Watchers)] /\ watchers'[t] = ws
        /\ \A s \in Seats : s # t => watchers'[s] = watchers[s]
    BY <1>2, <1>3, <2>3, <2>4
  <2>6. /\ SeatsTyped(seats') /\ (seats'.current[t] # 0 <=> v)
        /\ \A s \in Seats : s # t => Same(seats, seats', s)
        /\ One(seats, t) /\ (v => seats.current[t] = 0) => One(seats', t)
    BY <1>1, <1>2, <2>1, AtTheFront, Regraphed
  <2>7. ASSUME NEW s \in Seats
        PROVE  /\ DOMAIN watchers'[s] = DOMAIN watchers[s]
               /\ \A x \in DOMAIN watchers[s] : watchers'[s][x].alive = watchers[s][x].alive
    <3>1. CASE s = t
      BY <2>2, <2>3, <2>5, <3>1
    <3>2. CASE s # t
      BY <2>5, <3>2
    <3> QED BY <3>1, <3>2
  <2>8. TypeOK'
    <3>1. \A s \in Seats : system[s] # 0 => system[s] \in DOMAIN watchers[s] /\ watchers[s][system[s]].alive
      BY <1>1, AtTheFront DEF TypeOK
    <3>2. system' \in [Seats -> Nat] /\ system' = system
      BY <1>1, AtTheFront DEF TypeOK
    <3>3. \A s \in Seats : system'[s] # 0 => system'[s] \in DOMAIN watchers'[s] /\ watchers'[s][system'[s]].alive
      BY <2>7, <3>1, <3>2
    <3> QED BY <1>1, <2>5, <2>6, <3>2, <3>3, AtTheFront, CallsKept, TypedAfter DEF history
  <2>9. ASSUME NEW s \in Seats PROVE Takes(s)
    <3>1. CASE s # t
      <4>1. ~News(bus[1], s)
        BY <1>1, <3>1 DEF News, Announces, Ends, Tells, RepliesTo
      <4> QED BY <1>1, <2>5, <2>6, <3>1, <4>1, Untouched DEF Same
    <3>2. CASE s = t
      <4>1. AliveOf(s)' = AliveOf(s) /\ w \in AliveOf(s)
        BY <1>2, <2>1, <2>7, <3>2 DEF AliveOf
      <4>2. Answers(watchers[s], bus[1], s)
        BY <1>1, <2>1, <3>2 DEF Answers, RepliesTo
      <4>3. \A x \in AliveOf(s) \ {w} : watchers'[s][x] = watchers[s][x]
        BY <2>3, <2>5, <3>2 DEF AliveOf
      <4>4. watchers'[s][w].graphical <=> v
        BY <1>2, <2>2, <2>3, <2>5, <3>2
      <4>5. Corrects(s, w, v)
        BY <1>1, <2>6, <3>2, <4>1, <4>3, <4>4 DEF Corrects, Shown
      <4>6. \A i \in DOMAIN bus : Answers(watchers'[s], bus[i], s) => Answers(watchers[s], bus[i], s)
        BY <1>1, <2>7, AtTheFront DEF Answers, RepliesTo, Wired
      <4>7. Taking(s) /\ Asked(s)' = Asked(s)
        <5>1. Asked(s)' = Asked(s)
          BY <1>1, <2>7 DEF Asked
        <5> QED BY <1>1, <4>6, <5>1, AtTheFront DEF Taking, ListSeatsServed
      <4> QED BY <1>1, <4>2, <4>5, <4>7, AtTheFront, Listening, OneKind DEF Takes
    <3> QED BY <3>1, <3>2
  <2>10. ASSUME NEW s \in Plain PROVE One(seats', s)
    <3>1. CASE s # t
      BY <1>1, <2>6, <3>1, AtTheFront DEF Same, Plain
    <3>2. CASE s = t
      <4>1. w \in AliveOf(s)
        BY <1>2, <2>1, <3>2 DEF AliveOf
      <4>2. v => seats.current[s] = 0
        <5>1. OneWatcher(s) /\ 0 \notin AliveOf(s)
          BY <1>1, AtTheFront, Listening DEF Plain
        <5> QED BY <2>1, <3>2, <4>1, <5>1 DEF OneWatcher, Shown
      <4> QED BY <1>1, <2>6, <3>2, <4>2, AtTheFront
    <3> QED BY <3>1, <3>2
  <2> QED BY <1>1, <2>7, <2>8, <2>9, <2>10, AfterTaking, AtTheFront, CallsKept DEF history
<1> QED BY <1>4, <1>5

LEMMA HearChangedStep ==
    ASSUME ConstantsAssumption, IInv, HearChanged
    PROVE  IInv'
<1> DEFINE t == bus[1].seat
           v == bus[1].value
           Alive == {x \in DOMAIN watchers[t] : watchers[t][x].alive}
           ws == [x \in DOMAIN watchers[t] |-> IF x \in Alive THEN [watchers[t][x] EXCEPT !.graphical = v]
                                               ELSE watchers[t][x]]
<1>1. /\ bus # <<>> /\ bus' = Tail(bus) /\ bus[1].kind = "Changed"
      /\ UNCHANGED <<logind, calls, manager, system, events, history>>
      /\ watchers' = [watchers EXCEPT ![t] = ws] /\ GraphicalChanged(t, v, Cardinality(Alive))
  BY AtTheFront DEF HearChanged, Hears
<1>2. t \in Seats /\ v \in BOOLEAN /\ watchers \in [Seats -> Seq(Watchers)] /\ watchers[t] \in Seq(Watchers)
  <2>1. t \in Seats /\ v \in BOOLEAN
    BY <1>1, AtTheFront DEF Messages
  <2>2. watchers \in [Seats -> Seq(Watchers)]
    BY <1>1, AtTheFront DEF TypeOK
  <2> QED BY <2>1, <2>2
<1>3. \A x \in DOMAIN watchers[t] :
         /\ [watchers[t][x] EXCEPT !.graphical = v] \in Watchers
         /\ [watchers[t][x] EXCEPT !.graphical = v].alive = watchers[t][x].alive
         /\ [watchers[t][x] EXCEPT !.graphical = v].graphical = v
  <2>1. \A x \in DOMAIN watchers[t] : watchers[t][x] \in Watchers
    BY <1>2
  <2> QED BY <1>2, <2>1 DEF Watchers
<1>4. /\ ws \in Seq(Watchers) /\ DOMAIN ws = DOMAIN watchers[t]
      /\ \A x \in DOMAIN ws : /\ ws[x].alive = watchers[t][x].alive
                              /\ x \in Alive => ws[x].graphical = v
                              /\ x \notin Alive => ws[x] = watchers[t][x]
  <2>1. Len(watchers[t]) \in Nat /\ DOMAIN watchers[t] = 1..Len(watchers[t])
        /\ \A x \in DOMAIN watchers[t] : watchers[t][x] \in Watchers
    BY <1>2
  <2> HIDE DEF t, v, Alive
  <2>2. ws \in [1..Len(watchers[t]) -> Watchers]
    BY <1>3, <2>1
  <2>3. /\ DOMAIN ws = DOMAIN watchers[t]
        /\ \A x \in DOMAIN ws : /\ ws[x].alive = watchers[t][x].alive
                                /\ x \in Alive => ws[x].graphical = v
                                /\ x \notin Alive => ws[x] = watchers[t][x]
    BY <1>3
  <2> HIDE DEF ws
  <2> QED BY <2>1, <2>2, <2>3
<1> HIDE DEF ws
<1>5. /\ watchers' \in [Seats -> Seq(Watchers)] /\ watchers'[t] = ws
      /\ \A s \in Seats : s # t => watchers'[s] = watchers[s]
  BY <1>1, <1>2, <1>4
<1>6. Alive = AliveOf(t) /\ Cardinality(Alive) \in Nat /\ (Cardinality(Alive) = 0 <=> Alive = {})
      /\ IsFiniteSet(Alive)
  <2>1. Alive = AliveOf(t)
    BY DEF AliveOf
  <2>2. IsFiniteSet(DOMAIN watchers[t]) /\ Alive \subseteq DOMAIN watchers[t]
    <3>1. Len(watchers[t]) \in Nat /\ DOMAIN watchers[t] = 1..Len(watchers[t])
      BY <1>2
    <3> QED BY <3>1, FS_Interval
  <2>3. IsFiniteSet(Alive)
    BY <2>2, FS_Subset
  <2> QED BY <2>1, <2>3, FS_CardinalityType, FS_EmptySet
<1>7. /\ SeatsTyped(seats')
      /\ Alive = {} => seats' = seats
      /\ Alive # {} => (seats'.current[t] # 0 <=> v)
      /\ \A s \in Seats : s # t => Same(seats, seats', s)
      /\ One(seats, t) /\ (v => Cardinality(Alive) = 0 \/ (Cardinality(Alive) = 1 /\ seats.current[t] = 0))
            => One(seats', t)
  <2> HIDE DEF Alive, t, v
  <2> QED BY <1>1, <1>2, <1>6, AtTheFront, Regraphed
<1>8. ASSUME NEW s \in Seats
      PROVE  /\ DOMAIN watchers'[s] = DOMAIN watchers[s]
             /\ \A x \in DOMAIN watchers[s] : watchers'[s][x].alive = watchers[s][x].alive
  <2>1. CASE s = t
    BY <1>4, <1>5, <2>1
  <2>2. CASE s # t
    BY <1>5, <2>2
  <2> QED BY <2>1, <2>2
<1>9. TypeOK'
  <2>1. \A s \in Seats : system[s] # 0 => system[s] \in DOMAIN watchers[s] /\ watchers[s][system[s]].alive
    BY <1>1, AtTheFront DEF TypeOK
  <2>2. system' \in [Seats -> Nat] /\ system' = system
    BY <1>1, AtTheFront DEF TypeOK
  <2>3. \A s \in Seats : system'[s] # 0 => system'[s] \in DOMAIN watchers'[s] /\ watchers'[s][system'[s]].alive
    BY <1>8, <2>1, <2>2
  <2> QED BY <1>1, <1>5, <1>7, <2>2, <2>3, AtTheFront, CallsKept, TypedAfter DEF history
<1>10. ASSUME NEW s \in Seats PROVE Takes(s)
  <2>1. CASE s # t
    <3>1. ~News(bus[1], s)
      BY <1>1, <2>1 DEF News, Announces, Ends, Tells, RepliesTo
    <3> QED BY <1>1, <1>5, <1>7, <2>1, <3>1, Untouched DEF Same
  <2>2. CASE s = t
    <3>1. AliveOf(s)' = AliveOf(s)
      BY <1>8 DEF AliveOf
    <3>2. \A x \in AliveOf(s) : watchers'[s][x].graphical <=> v
      BY <1>4, <1>5, <1>6, <2>2 DEF AliveOf
    <3>3. Follows(s, v)
      <4>1. AliveOf(s) # {} => (Shown(s)' <=> v)
        BY <1>7, <2>2 DEF Shown, AliveOf
      <4>2. AliveOf(s) = {} => (Shown(s)' <=> Shown(s))
        BY <1>7, <2>2 DEF Shown, AliveOf
      <4>3. system'[s] = system[s]
        BY <1>1
      <4> QED BY <3>1, <3>2, <4>1, <4>2, <4>3 DEF Follows
    <3>4. \A i \in DOMAIN bus : Answers(watchers'[s], bus[i], s) => Answers(watchers[s], bus[i], s)
      BY <1>1, <1>8, AtTheFront DEF Answers, RepliesTo, Wired
    <3>5. Asked(s)' = Asked(s)
      BY <1>1, <1>8 DEF Asked
    <3>6. Taking(s)
      BY <1>1, <3>4, AtTheFront DEF Taking, ListSeatsServed
    <3>7. Tells(bus[1], s)
      BY <1>1, <2>2 DEF Tells
    <3> QED BY <1>1, <3>3, <3>5, <3>6, <3>7, AtTheFront, Listening, OneKind DEF Takes
  <2> QED BY <2>1, <2>2
<1>11. ASSUME NEW s \in Plain PROVE One(seats', s)
  <2>1. s \in Seats /\ One(seats, s) /\ OneWatcher(s) /\ Cleared(s)
    BY <1>1, AtTheFront DEF Plain
  <2>2. CASE s # t
    BY <1>7, <2>1, <2>2 DEF Same
  <2>3. CASE s = t
    <3>1. Cardinality(Alive) = 0 \/ Cardinality(Alive) = 1
      <4>1. Alive = {} \/ Alive = {system[s]}
        BY <1>6, <2>1, <2>3 DEF OneWatcher
      <4> QED BY <4>1, FS_EmptySet, FS_Singleton
    <3>2. v => seats.current[s] = 0
      <4>1. Tells(bus[1], s) /\ 1 \in DOMAIN bus
        BY <1>1, <2>3, AtTheFront DEF Tells
      <4>2. \A k \in DOMAIN bus : ~(k < 1)
        BY <1>1, AtTheFront
      <4> QED BY <2>1, <2>3, <4>1, <4>2 DEF Cleared, Shown
    <3> QED BY <1>7, <2>1, <2>3, <3>1, <3>2
  <2> QED BY <2>2, <2>3
<1> QED BY <1>1, <1>8, <1>9, <1>10, <1>11, AfterTaking, AtTheFront, CallsKept DEF history

LEMMA HearSeatRemovedStep ==
    ASSUME ConstantsAssumption, IInv, HearSeatRemoved
    PROVE  IInv'
<1> DEFINE t == bus[1].seat
           w == system[t]
<1>1. /\ bus # <<>> /\ bus' = Tail(bus) /\ bus[1].kind = "SeatRemoved"
      /\ UNCHANGED <<logind, calls, manager, events, history>>
      /\ watchers' = IF w = 0 THEN watchers ELSE [watchers EXCEPT ![t][w].alive = FALSE]
      /\ system' = [system EXCEPT ![t] = 0] /\ seats' = RemoveSeat(seats, t)
  BY AtTheFront DEF HearSeatRemoved, Hears, AfterRemoval
<1>2. /\ t \in Seats /\ watchers \in [Seats -> Seq(Watchers)] /\ watchers[t] \in Seq(Watchers)
      /\ system \in [Seats -> Nat]
      /\ w # 0 => w \in DOMAIN watchers[t]
  <2>1. t \in Seats
    BY <1>1, AtTheFront DEF Messages
  <2>2. /\ watchers \in [Seats -> Seq(Watchers)] /\ system \in [Seats -> Nat]
        /\ \A s \in Seats : system[s] # 0 => system[s] \in DOMAIN watchers[s]
    BY <1>1, AtTheFront DEF TypeOK
  <2> QED BY <2>1, <2>2
<1>3. /\ watchers' \in [Seats -> Seq(Watchers)]
      /\ \A s \in Seats : s # t => watchers'[s] = watchers[s]
      /\ DOMAIN watchers'[t] = DOMAIN watchers[t]
      /\ \A x \in DOMAIN watchers[t] : watchers'[t][x].alive <=> watchers[t][x].alive /\ x # w
  <2>1. CASE w = 0
    <3>1. 0 \notin DOMAIN watchers[t]
      BY <1>2
    <3> QED BY <1>1, <1>2, <2>1, <3>1
  <2>2. CASE w # 0
    <3> DEFINE e == [watchers[t][w] EXCEPT !.alive = FALSE]
               ws == [watchers[t] EXCEPT ![w] = e]
    <3>1. e \in Watchers /\ ~e.alive
      <4>1. watchers[t][w] \in Watchers
        BY <1>2, <2>2
      <4> QED BY <4>1 DEF Watchers
    <3> HIDE DEF e
    <3>2. /\ ws \in Seq(Watchers) /\ DOMAIN ws = DOMAIN watchers[t]
          /\ \A x \in DOMAIN ws : ws[x] = IF x = w THEN e ELSE watchers[t][x]
      <4> HIDE DEF t, w
      <4> QED BY <1>2, <2>2, <3>1, Replaced
    <3>3. watchers' = [watchers EXCEPT ![t] = ws]
      BY <1>1, <1>2, <2>2 DEF e
    <3> HIDE DEF ws
    <3> QED BY <1>2, <3>1, <3>2, <3>3
  <2> QED BY <2>1, <2>2
<1>4. /\ SeatsTyped(seats') /\ seats'.current[t] = 0
      /\ \A s \in Seats : s # t => Same(seats, seats', s)
      /\ One(seats, t) => One(seats', t)
  BY <1>1, <1>2, AtTheFront, Removed
<1>5. /\ system' \in [Seats -> Nat] /\ system'[t] = 0
      /\ \A s \in Seats : s # t => system'[s] = system[s]
  BY <1>1, <1>2
<1>6. ASSUME NEW s \in Seats
      PROVE  /\ DOMAIN watchers'[s] = DOMAIN watchers[s]
             /\ \A x \in DOMAIN watchers[s] : watchers'[s][x].alive => watchers[s][x].alive
  <2>1. CASE s = t
    BY <1>3, <2>1
  <2>2. CASE s # t
    BY <1>3, <2>2
  <2> QED BY <2>1, <2>2
<1>7. TypeOK'
  <2>1. \A s \in Seats : system[s] # 0 => system[s] \in DOMAIN watchers[s] /\ watchers[s][system[s]].alive
    BY <1>1, AtTheFront DEF TypeOK
  <2>2. ASSUME NEW s \in Seats, system'[s] # 0
        PROVE  system'[s] \in DOMAIN watchers'[s] /\ watchers'[s][system'[s]].alive
    <3>1. s # t
      BY <1>5, <2>2
    <3> QED BY <1>3, <1>5, <2>1, <2>2, <3>1
  <2>3. TypeOK /\ calls' \in Seq(Calls) /\ UNCHANGED <<logind, manager, events, history>>
        /\ bus # <<>> /\ bus' = Tail(bus)
    BY <1>1, AtTheFront, CallsKept
  <2> HIDE DEF t, w
  <2> QED BY <1>3, <1>4, <1>5, <2>2, <2>3, TypedAfter DEF history
<1>8. ASSUME NEW s \in Seats PROVE Takes(s)
  <2>1. CASE s # t
    <3>1. ~News(bus[1], s)
      BY <1>1, <2>1 DEF News, Announces, Ends, Tells, RepliesTo
    <3> QED BY <1>1, <1>3, <1>4, <1>5, <2>1, <3>1, Untouched DEF Same
  <2>2. CASE s = t
    <3>1. AliveOf(s)' = AliveOf(s) \ {system[s]}
      BY <1>3, <2>2 DEF AliveOf
    <3>2. Leaves(s)
      BY <1>4, <1>5, <2>2, <3>1 DEF Leaves, Shown
    <3>3. \A i \in DOMAIN bus : Answers(watchers'[s], bus[i], s) => Answers(watchers[s], bus[i], s)
      BY <1>1, <1>6, AtTheFront DEF Answers, RepliesTo, Wired
    <3>4. Asked(s)' = Asked(s)
      BY <1>1, <1>6 DEF Asked
    <3>5. Taking(s)
      BY <1>1, <3>3, AtTheFront DEF Taking, ListSeatsServed
    <3>6. Ends(bus[1], s)
      BY <1>1, <2>2 DEF Ends
    <3> QED BY <1>1, <3>2, <3>4, <3>5, <3>6, AtTheFront, Listening, OneKind DEF Takes
  <2> QED BY <2>1, <2>2
<1>9. ASSUME NEW s \in Plain PROVE One(seats', s)
  <2>1. s \in Seats /\ One(seats, s)
    BY <1>1, AtTheFront DEF Plain
  <2> QED BY <1>4, <2>1 DEF Same
<1> QED BY <1>1, <1>6, <1>7, <1>8, <1>9, AfterTaking, AtTheFront, CallsKept DEF history

\* A LogindSeat for each of the names, with its call of Get.
LEMMA AddedStep ==
    ASSUME ConstantsAssumption, IInv, bus # <<>>, bus' = Tail(bus), NEW names \in Seq(Seats),
           LogindSeatsAdded(names), UNCHANGED <<logind, manager, seats, events, history>>,
           bus[1].kind \in {"SeatNew", "Listed"},
           \A s \in Seats : Announces(bus[1], s) <=> \E i \in DOMAIN names : names[i] = s
    PROVE  IInv'
<1> DEFINE New == {names[i] : i \in DOMAIN names}
           nr(s) == Len(watchers[s]) + 1
           fresh == [alive |-> TRUE, graphical |-> FALSE]
           gets == [i \in DOMAIN names |-> GetCanGraphical(names[i], nr(names[i]))]
<1>1. /\ watchers' = [s \in Seats |-> IF s \in New THEN Append(watchers[s], fresh) ELSE watchers[s]]
      /\ system' = [s \in Seats |-> IF s \in New THEN nr(s) ELSE system[s]]
      /\ calls' = calls \o gets
  BY DEF LogindSeatsAdded
<1>2. /\ watchers \in [Seats -> Seq(Watchers)] /\ system \in [Seats -> Nat] /\ calls \in Seq(Calls)
      /\ \A s \in Seats : system[s] # 0 => system[s] \in DOMAIN watchers[s] /\ watchers[s][system[s]].alive
  BY AtTheFront DEF TypeOK
<1>3. \A s \in Seats : watchers[s] \in Seq(Watchers) /\ Len(watchers[s]) \in Nat
                       /\ DOMAIN watchers[s] = 1..Len(watchers[s]) /\ nr(s) \in Nat /\ nr(s) # 0
  <2>1. \A s \in Seats : watchers[s] \in Seq(Watchers)
    BY <1>2
  <2>2. \A s \in Seats : Len(watchers[s]) \in Nat /\ DOMAIN watchers[s] = 1..Len(watchers[s])
    BY <2>1
  <2> QED BY <2>1, <2>2
<1>4. fresh \in Watchers /\ fresh.alive /\ ~fresh.graphical
  BY DEF Watchers
<1> HIDE DEF fresh
<1>5. ASSUME NEW s \in Seats, s \in New
      PROVE  /\ watchers'[s] \in Seq(Watchers) /\ DOMAIN watchers'[s] = 1..nr(s)
             /\ watchers'[s][nr(s)] = fresh /\ system'[s] = nr(s)
             /\ \A x \in DOMAIN watchers[s] : x \in DOMAIN watchers'[s] /\ watchers'[s][x] = watchers[s][x]
             /\ \A x \in 1..nr(s) : x = nr(s) \/ x \in DOMAIN watchers[s]
             /\ nr(s) \in 1..nr(s)
  <2>1. watchers'[s] = Append(watchers[s], fresh) /\ system'[s] = nr(s)
    BY <1>1, <1>5
  <2>2. watchers[s] \in Seq(Watchers) /\ Len(watchers[s]) \in Nat /\ DOMAIN watchers[s] = 1..Len(watchers[s])
    BY <1>3
  <2>3. \A a \in Seq(Watchers) : /\ Append(a, fresh) \in Seq(Watchers) /\ DOMAIN Append(a, fresh) = 1..(Len(a) + 1)
                                 /\ Append(a, fresh)[Len(a) + 1] = fresh
                                 /\ \A x \in DOMAIN a : Append(a, fresh)[x] = a[x]
    BY <1>4
  <2> QED BY <2>1, <2>2, <2>3
<1>6. ASSUME NEW s \in Seats, s \notin New
      PROVE  watchers'[s] = watchers[s] /\ system'[s] = system[s]
  BY <1>1, <1>6
<1>7. watchers' \in [Seats -> Seq(Watchers)] /\ system' \in [Seats -> Nat]
  <2>1. \A s \in Seats : watchers'[s] \in Seq(Watchers) /\ system'[s] \in Nat
    BY <1>2, <1>3, <1>5, <1>6
  <2>2. watchers' = [s \in Seats |-> watchers'[s]] /\ system' = [s \in Seats |-> system'[s]]
    BY <1>1
  <2> HIDE DEF New, nr
  <2> QED BY <2>1, <2>2
<1>8. gets \in Seq(Calls) /\ DOMAIN gets = DOMAIN names
      /\ \A i \in DOMAIN names : gets[i] = [op |-> "Get", seat |-> names[i], watcher |-> nr(names[i])]
  <2>1. \A i \in DOMAIN names : [op |-> "Get", seat |-> names[i], watcher |-> nr(names[i])] \in Calls
    <3>1. \A i \in DOMAIN names : names[i] \in Seats
      OBVIOUS
    <3> QED BY <1>3, <3>1 DEF Calls
  <2>2. DOMAIN names = 1..Len(names) /\ Len(names) \in Nat
    OBVIOUS
  <2>3. gets \in [1..Len(names) -> Calls]
    <3> HIDE DEF nr
    <3> QED BY <2>1, <2>2 DEF GetCanGraphical
  <2>4. \A i \in DOMAIN names : gets[i] = [op |-> "Get", seat |-> names[i], watcher |-> nr(names[i])]
    BY DEF GetCanGraphical
  <2> HIDE DEF gets
  <2> QED BY <2>2, <2>3, <2>4
<1> HIDE DEF gets
<1>9. /\ calls' \in Seq(Calls)
      /\ \A i \in DOMAIN calls' : (i \in DOMAIN calls /\ calls'[i] = calls[i])
                                  \/ \E j \in DOMAIN names : calls'[i] = gets[j]
      /\ \A i \in DOMAIN calls : i \in DOMAIN calls' /\ calls'[i] = calls[i] /\ calls[i].seat \in Seats
      /\ \A j \in DOMAIN names : \E i \in DOMAIN calls' : calls'[i] = gets[j]
  <2>1. /\ DOMAIN calls = 1..Len(calls) /\ Len(calls) \in Nat /\ DOMAIN gets = 1..Len(gets) /\ Len(gets) \in Nat
        /\ \A i \in DOMAIN calls : calls[i] \in Calls
    BY <1>2, <1>8
  <2>2. /\ calls' \in Seq(Calls) /\ DOMAIN calls' = 1..(Len(calls) + Len(gets))
        /\ \A i \in DOMAIN calls' : calls'[i] = IF i <= Len(calls) THEN calls[i] ELSE gets[i - Len(calls)]
    <3>1. calls' \in Seq(Calls) /\ Len(calls') = Len(calls) + Len(gets)
          /\ \A i \in 1..(Len(calls) + Len(gets)) :
                calls'[i] = IF i <= Len(calls) THEN calls[i] ELSE gets[i - Len(calls)]
      BY <1>1, <1>2, <1>8, Longer
    <3> QED BY <3>1
  <2>3. \A i \in 1..(Len(calls) + Len(gets)) : i <= Len(calls) => i \in 1..Len(calls)
    BY <2>1
  <2>4. \A i \in 1..(Len(calls) + Len(gets)) : ~(i <= Len(calls)) => i - Len(calls) \in 1..Len(gets)
    BY <2>1
  <2>5. \A j \in 1..Len(gets) : /\ Len(calls) + j \in 1..(Len(calls) + Len(gets)) /\ ~(Len(calls) + j <= Len(calls))
                                /\ (Len(calls) + j) - Len(calls) = j
    BY <2>1
  <2>6. \A i \in 1..Len(calls) : i \in 1..(Len(calls) + Len(gets)) /\ i <= Len(calls)
    BY <2>1
  <2>7. \A i \in DOMAIN calls : calls[i].seat \in Seats
    BY <2>1 DEF Calls
  <2>8. \A i \in DOMAIN calls' : (i \in DOMAIN calls /\ calls'[i] = calls[i])
                                  \/ \E j \in DOMAIN names : calls'[i] = gets[j]
    BY <1>8, <2>1, <2>2, <2>3, <2>4
  <2>9. \A i \in DOMAIN calls : i \in DOMAIN calls' /\ calls'[i] = calls[i]
    BY <2>1, <2>2, <2>6
  <2>10. \A j \in DOMAIN names : \E i \in DOMAIN calls' : calls'[i] = gets[j]
    <3>1. ASSUME NEW j \in 1..Len(gets) PROVE \E i \in DOMAIN calls' : calls'[i] = gets[j]
      <4>1. Len(calls) + j \in DOMAIN calls' /\ calls'[Len(calls) + j] = gets[(Len(calls) + j) - Len(calls)]
        BY <2>2, <2>5
      <4> QED BY <2>5, <4>1
    <3> QED BY <1>8, <2>1, <3>1
  <2> QED BY <2>2, <2>7, <2>8, <2>9, <2>10
<1>10. ListSeatsServed' = ListSeatsServed
  BY <1>8, <1>9 DEF ListSeatsServed
<1>11. TypeOK'
  <2>1. ASSUME NEW s \in Seats, system'[s] # 0
        PROVE  system'[s] \in DOMAIN watchers'[s] /\ watchers'[s][system'[s]].alive
    <3>1. CASE s \in New
      BY <1>4, <1>5, <3>1
    <3>2. CASE s \notin New
      BY <1>2, <1>6, <2>1, <3>2
    <3> QED BY <3>1, <3>2
  <2> QED BY <1>7, <1>9, <2>1, AtTheFront, TypedAfter DEF history
<1>12. ASSUME NEW s \in Seats
       PROVE  \A x \in DOMAIN watchers[s] : x \in DOMAIN watchers'[s] /\ watchers'[s][x] = watchers[s][x]
  BY <1>5, <1>6
<1>13. ASSUME NEW s \in Seats PROVE Takes(s)
  <2>1. Asked(s) \subseteq Asked(s)'
    BY <1>9, <1>12 DEF Asked
  <2>2. \A i \in DOMAIN bus : Answers(watchers'[s], bus[i], s) => Answers(watchers[s], bus[i], s)
    BY <1>12, AtTheFront DEF Answers, RepliesTo, Wired
  <2>3. Taking(s)
    BY <1>10, <2>2, AtTheFront DEF Taking
  <2>4. ~Ends(bus[1], s) /\ ~Tells(bus[1], s) /\ ~RepliesTo(bus[1], s)
    BY DEF Ends, Tells, RepliesTo
  <2>5. CASE s \in New
    <3>1. Announces(bus[1], s)
      BY <2>5
    <3>2. PICK j \in DOMAIN names : names[j] = s
      BY <2>5
    <3>3. PICK i \in DOMAIN calls' : calls'[i] = gets[j]
      BY <1>9
    <3>4. calls'[i].op = "Get" /\ calls'[i].seat = s /\ calls'[i].watcher = nr(s)
      BY <1>8, <3>2, <3>3
    <3>5. nr(s) \in DOMAIN watchers'[s] /\ system'[s] = nr(s)
      BY <1>5, <2>5
    <3>6. system'[s] \in Asked(s)'
      BY <3>4, <3>5 DEF Asked
    <3>7. AliveOf(s)' = AliveOf(s) \cup {system'[s]}
      <4>1. \A x \in DOMAIN watchers'[s] :
               watchers'[s][x].alive <=> x = nr(s) \/ (x \in DOMAIN watchers[s] /\ watchers[s][x].alive)
        <5>1. nr(s) \notin DOMAIN watchers[s]
          BY <1>3
        <5> HIDE DEF nr
        <5> QED BY <1>4, <1>5, <2>5, <5>1
      <4>2. nr(s) \in DOMAIN watchers'[s] /\ \A x \in DOMAIN watchers[s] : x \in DOMAIN watchers'[s]
        BY <1>5, <2>5
      <4> HIDE DEF nr
      <4> QED BY <3>5, <4>1, <4>2 DEF AliveOf
    <3>8. system'[s] # 0 /\ ~watchers'[s][system'[s]].graphical
      BY <1>3, <1>4, <1>5, <2>5
    <3>9. \A x \in AliveOf(s) : watchers'[s][x] = watchers[s][x]
      BY <1>12 DEF AliveOf
    <3>10. Joins(s)
      BY <3>6, <3>7, <3>8, <3>9 DEF Joins, Shown
    <3>11. News(bus[1], s)
      BY <3>1 DEF News
    <3> QED BY <2>1, <2>3, <2>4, <3>10, <3>11, AtTheFront, Listening DEF Takes
  <2>6. CASE s \notin New
    <3>1. ~Announces(bus[1], s)
      BY <2>6
    <3>2. Kept(s)
      BY <1>6, <2>6 DEF Kept, AliveOf, Shown
    <3> QED BY <2>1, <2>3, <2>4, <3>1, <3>2, AtTheFront, Listening DEF Takes
  <2> QED BY <2>5, <2>6
<1>14. \A i \in DOMAIN calls' :
          \/ i \in DOMAIN calls /\ calls'[i] = calls[i] /\ calls[i].seat \in Seats
          \/ calls'[i].op = "Get" /\ calls'[i].watcher \in DOMAIN watchers'[calls'[i].seat]
  <2>1. ASSUME NEW j \in DOMAIN names
        PROVE  gets[j].op = "Get" /\ gets[j].watcher \in DOMAIN watchers'[gets[j].seat]
    <3>1. names[j] \in Seats /\ names[j] \in New
      BY DEF New
    <3>2. nr(names[j]) \in DOMAIN watchers'[names[j]]
      BY <1>5, <3>1
    <3> QED BY <1>8, <3>2
  <2> QED BY <1>9, <2>1
<1>15. \A s \in Plain : One(seats', s)
  BY AtTheFront
<1> QED BY <1>11, <1>12, <1>13, <1>14, <1>15, AfterTaking DEF history

LEMMA HearSeatNewStep ==
    ASSUME ConstantsAssumption, IInv, HearSeatNew
    PROVE  IInv'
<1>1. /\ bus # <<>> /\ bus' = Tail(bus) /\ bus[1].kind = "SeatNew" /\ bus[1].seat \in Seats
      /\ LogindSeatsAdded(<<bus[1].seat>>) /\ UNCHANGED <<logind, manager, seats, events, history>>
  BY AtTheFront DEF HearSeatNew, Hears
<1> DEFINE names == <<bus[1].seat>>
<1>2. names \in Seq(Seats) /\ DOMAIN names = {1} /\ names[1] = bus[1].seat
  BY <1>1
<1>3. \A s \in Seats : Announces(bus[1], s) <=> \E i \in DOMAIN names : names[i] = s
  BY <1>1, <1>2 DEF Announces
<1> HIDE DEF names
<1> QED BY <1>1, <1>2, <1>3, AddedStep DEF names

LEMMA HearListedStep ==
    ASSUME ConstantsAssumption, IInv, HearListed
    PROVE  IInv'
<1>1. /\ bus # <<>> /\ bus' = Tail(bus) /\ bus[1].kind = "Listed"
      /\ LogindSeatsAdded(bus[1].list) /\ UNCHANGED <<logind, manager, seats, events, history>>
  BY AtTheFront DEF HearListed, Hears
<1>2. bus[1].list \in Seq(Seats)
  BY <1>1, AtTheFront DEF Messages
<1>3. \A s \in Seats : Announces(bus[1], s) <=> \E i \in DOMAIN bus[1].list : bus[1].list[i] = s
  BY <1>1 DEF Announces
<1> QED BY <1>1, <1>2, <1>3, AddedStep

-----------------------------------------------------------------------------
(***************************************************************************)
(* The steps that send a message                                          *)
(***************************************************************************)

LEMMA UnrelatedSent ==
    ASSUME NEW s, NEW m, Sends(s, m), ~News(m, s), Heard(s), Listing' => Listing,
           logind'[s].there <=> logind[s].there, logind'[s].graphical = logind[s].graphical,
           logind[s].there => Asked(s) \subseteq Asked(s)' /\ (ListSeatsServed' => ListSeatsServed),
           ListSeatsServed => ListSeatsServed'
    PROVE  Heard(s)' /\ (Announced(s) => Announced(s)')
<1>1. /\ ~Announces(m, s) /\ ~Ends(m, s) /\ ~Tells(m, s) /\ ~RepliesTo(m, s) /\ ~NewlyThere(m, s)
      /\ ~Answers(watchers[s], m, s) /\ ~Values(watchers[s], m, s)
  BY OneKind
<1>2. GoneKnown(s)' /\ ThereKnown(s)' /\ NothingUnknown(s)' /\ OneBeforeListed(s)'
  BY <1>1, GoneSent, ThereSent, UnknownSent, OneBeforeListedSent DEF Heard
<1>3. Faithful(s)' /\ Followed(s)'
  BY <1>1, FaithfulSent, FollowedSent DEF Heard
<1>4. ASSUME Announced(s) PROVE Announced(s)'
  <2>1. OneWatcher(s)' /\ OneAnnouncement(s)'
    BY <1>1, <1>4, OneWatcherSent, OneAnnouncementSent DEF Announced
  <2>2. Graphical(s) => Graphical(s)'
    BY DEF Graphical
  <2>3. Cleared(s)'
    BY <1>1, <1>4, <2>2, ClearedSent DEF Announced
  <2> QED BY <2>1, <2>3 DEF Announced
<1> QED BY <1>2, <1>3, <1>4 DEF Heard

LEMMA AppearsSent ==
    ASSUME NEW s, NEW m, Sends(s, m), NewlyThere(m, s), Heard(s), Listing' => Listing,
           ~logind[s].there, logind'[s].there, calls' = calls
    PROVE  Heard(s)' /\ (Announced(s) /\ ~OldNews(s) => Announced(s)')
<1>1. /\ Announces(m, s) /\ ~Ends(m, s) /\ ~Tells(m, s) /\ ~RepliesTo(m, s)
      /\ ~Answers(watchers[s], m, s) /\ ~Values(watchers[s], m, s)
  BY OneKind
<1>2. GoneKnown(s)' /\ ThereKnown(s)' /\ NothingUnknown(s)' /\ OneBeforeListed(s)'
  BY <1>1, GoneSent, ThereSent, UnknownSent, OneBeforeListedSent DEF Heard
<1>3. \A i \in DOMAIN bus : Answers(watchers[s], bus[i], s) => \E k \in DOMAIN bus : i < k /\ Ends(bus[k], s)
  <2>1. \A i \in DOMAIN bus : Answers(watchers[s], bus[i], s) => News(bus[i], s) /\ ~Ends(bus[i], s)
    BY OneKind
  <2>2. CASE Quiet(s)
    BY <2>1, <2>2 DEF Quiet
  <2>3. ASSUME NEW k \in DOMAIN bus, Ends(bus[k], s), \A j \in DOMAIN bus : k < j => ~News(bus[j], s),
               NEW i \in DOMAIN bus, Answers(watchers[s], bus[i], s)
        PROVE  i < k
    BY <2>1, <2>3, Sent
  <2> QED BY <2>2, <2>3 DEF Heard, GoneKnown
<1>4. Faithful(s)' /\ Followed(s)'
  BY <1>1, <1>3, FaithfulSent, FollowedSent DEF Heard
<1>5. ASSUME Announced(s), ~OldNews(s) PROVE Announced(s)'
  <2>1. ListSeatsServed /\ \A i \in DOMAIN bus : ~Ends(bus[i], s)
    BY <1>5 DEF OldNews, Ends
  <2>2. Quiet(s)
    BY <2>1 DEF Heard, GoneKnown
  <2>3. system[s] = 0 /\ \A i \in DOMAIN bus : ~Announces(bus[i], s)
    BY <2>2, OneKind DEF Quiet
  <2>4. ListSeatsServed'
    BY <2>1 DEF ListSeatsServed
  <2>5. OneWatcher(s)' /\ OneAnnouncement(s)'
    BY <1>1, <1>5, <2>1, <2>3, <2>4, OneWatcherSent, OneAnnouncementSent DEF Announced
  <2>6. Cleared(s)'
    BY <1>1, <1>5, ClearedSent DEF Announced, Graphical
  <2> QED BY <2>5, <2>6 DEF Announced
<1> QED BY <1>2, <1>4, <1>5 DEF Heard

LEMMA VanishesSent ==
    ASSUME NEW s, NEW m, Sends(s, m), Ends(m, s), Heard(s), Listing' => Listing,
           logind[s].there, ~logind'[s].there, calls' = calls
    PROVE  Heard(s)' /\ (Announced(s) => Announced(s)')
<1>1. /\ ~Announces(m, s) /\ ~Tells(m, s) /\ ~RepliesTo(m, s) /\ ~NewlyThere(m, s) /\ Clears(m, s)
      /\ ~Answers(watchers[s], m, s) /\ ~Values(watchers[s], m, s)
  BY OneKind
<1>2. GoneKnown(s)' /\ ThereKnown(s)' /\ NothingUnknown(s)' /\ OneBeforeListed(s)'
  BY <1>1, GoneSent, ThereSent, UnknownSent, OneBeforeListedSent DEF Heard
<1>3. Asked(s)' = Asked(s) /\ ListSeatsServed' = ListSeatsServed
  BY DEF Sends, Asked, ListSeatsServed
<1>4. Faithful(s)' /\ Followed(s)'
  BY <1>1, <1>3, FaithfulSent, FollowedSent DEF Heard
<1>5. ASSUME Announced(s) PROVE Announced(s)'
  <2>1. OneWatcher(s)' /\ OneAnnouncement(s)'
    BY <1>1, <1>3, <1>5, OneWatcherSent, OneAnnouncementSent DEF Announced
  <2>2. Cleared(s)'
    BY <1>1, <1>5, ClearedSent DEF Announced
  <2> QED BY <2>1, <2>2 DEF Announced
<1> QED BY <1>2, <1>4, <1>5 DEF Heard

LEMMA ChangesSent ==
    ASSUME NEW s, NEW m, Sends(s, m), Tells(m, s), Heard(s), Listing' => Listing,
           logind[s].there, logind'[s].there, m.value <=> logind'[s].graphical,
           ~(logind'[s].graphical <=> logind[s].graphical), calls' = calls,
           manager \in {"asked", "ready"}, AliveOf(s) # {}, 0 \notin AliveOf(s)
    PROVE  Heard(s)' /\ (Announced(s) => Announced(s)')
<1>1. /\ ~Announces(m, s) /\ ~Ends(m, s) /\ ~RepliesTo(m, s) /\ ~NewlyThere(m, s)
      /\ ~Answers(watchers[s], m, s)
  BY OneKind
<1>2. Asked(s)' = Asked(s) /\ ListSeatsServed' = ListSeatsServed
  BY DEF Sends, Asked, ListSeatsServed
<1>3. system[s] = 0 => ListSeatsServed
  BY DEF Heard, OneBeforeListed, Listing
<1>4. GoneKnown(s)' /\ ThereKnown(s)' /\ NothingUnknown(s)' /\ OneBeforeListed(s)'
  BY <1>1, <1>2, <1>3, GoneSent, ThereSent, UnknownSent, OneBeforeListedSent DEF Heard
<1>5. Faithful(s)' /\ Followed(s)'
  BY <1>1, <1>2, FaithfulSent, FollowedSent DEF Heard
<1>6. ASSUME Announced(s) PROVE Announced(s)'
  <2>1. system[s] # 0
    BY <1>6 DEF Announced, OneWatcher
  <2>2. OneWatcher(s)' /\ OneAnnouncement(s)'
    BY <1>1, <1>2, <1>6, <2>1, OneWatcherSent, OneAnnouncementSent DEF Announced
  <2>3. /\ Graphical(s) <=> logind[s].graphical
        /\ Graphical(s)' <=> logind'[s].graphical
        /\ ~m.value => Clears(m, s)
    BY DEF Graphical, Clears
  <2>4. Cleared(s)'
    BY <1>1, <1>6, <2>3, ClearedSent DEF Announced
  <2> QED BY <2>2, <2>4 DEF Announced
<1> QED BY <1>4, <1>5, <1>6 DEF Heard

LEMMA ListedSent ==
    ASSUME NEW s, NEW m, Sends(s, m), Announces(m, s), ~NewlyThere(m, s), Heard(s),
           logind[s].there, logind' = logind, ~ListSeatsServed, ListSeatsServed', Asked(s) \subseteq Asked(s)'
    PROVE  Heard(s)' /\ (Announced(s) => Announced(s)')
<1>1. /\ ~Ends(m, s) /\ ~Tells(m, s) /\ ~RepliesTo(m, s)
      /\ ~Answers(watchers[s], m, s) /\ ~Values(watchers[s], m, s)
  BY OneKind
<1>2. GoneKnown(s)' /\ ThereKnown(s)' /\ NothingUnknown(s)' /\ OneBeforeListed(s)'
  BY <1>1, GoneSent, ThereSent, UnknownSent, OneBeforeListedSent DEF Heard, Listing
<1>3. Faithful(s)' /\ Followed(s)'
  BY <1>1, FaithfulSent, FollowedSent DEF Heard
<1>4. ASSUME Announced(s) PROVE Announced(s)'
  <2>1. system[s] = 0 /\ \A i \in DOMAIN bus : ~Announces(bus[i], s) /\ ~Ends(bus[i], s)
    BY <1>4 DEF Announced, OneAnnouncement
  <2>2. OneWatcher(s)' /\ OneAnnouncement(s)'
    BY <1>1, <1>4, <2>1, OneWatcherSent, OneAnnouncementSent DEF Announced
  <2>3. Cleared(s)'
    BY <1>1, <1>4, ClearedSent DEF Announced, Graphical
  <2> QED BY <2>2, <2>3 DEF Announced
<1> QED BY <1>2, <1>3, <1>4 DEF Heard

LEMMA GotSent ==
    ASSUME NEW s, NEW m, Sends(s, m), RepliesTo(m, s), Heard(s), Listing' => Listing,
           logind[s].there, logind' = logind, m.value <=> logind[s].graphical,
           ListSeatsServed, ListSeatsServed', manager \in {"asked", "ready"},
           \A w \in Asked(s) : w \in Asked(s)' \/ m.watcher = w
    PROVE  Heard(s)' /\ (Announced(s) => Announced(s)')
<1>1. ~Announces(m, s) /\ ~Ends(m, s) /\ ~Tells(m, s) /\ ~NewlyThere(m, s)
  BY OneKind
<1>2. GoneKnown(s)' /\ ThereKnown(s)' /\ NothingUnknown(s)' /\ OneBeforeListed(s)'
  BY <1>1, GoneSent, ThereSent, UnknownSent, OneBeforeListedSent DEF Heard
<1>3. Faithful(s)' /\ Followed(s)'
  BY <1>1, FaithfulSent, FollowedSent DEF Heard
<1>4. ASSUME Announced(s) PROVE Announced(s)'
  <2>1. OneWatcher(s)' /\ OneAnnouncement(s)'
    BY <1>1, <1>4, OneWatcherSent, OneAnnouncementSent DEF Announced
  <2>2. Graphical(s)' <=> Graphical(s)
    BY DEF Graphical
  <2>3. m.value => Graphical(s)
    BY DEF Graphical
  <2>4. Cleared(s)'
    BY <1>1, <1>4, <2>2, <2>3, ClearedSent DEF Announced
  <2> QED BY <2>1, <2>4 DEF Announced
<1> QED BY <1>2, <1>3, <1>4 DEF Heard

\* What every such step does.
LEMMA AfterSending ==
    ASSUME IInv, TypeOK', NEW m \in Messages, bus' = Append(bus, m),
           UNCHANGED <<watchers, system, seats, manager>>,
           early \subseteq early', missed \subseteq missed',
           calls' = calls \/ (ListSeatsServed' /\ \A i \in DOMAIN calls' : \E j \in DOMAIN calls : calls'[i] = calls[j]),
           ListSeatsServed => ListSeatsServed',
           \/ manager = "ready"
           \/ manager = "asked" /\ ListSeatsServed' /\ m.kind \notin {"SeatNew", "SeatRemoved"},
           m.kind \in {"Got", "Failed"} => ListSeatsServed' /\ m.watcher \in DOMAIN watchers[m.seat],
           m.kind = "Listed" => ListSeatsServed' /\ ~ListSeatsServed,
           \A s \in Seats \ missed' : Heard(s)',
           \A s \in Plain' : Announced(s)'
    PROVE  IInv'
<1>1. bus \in Seq(Messages) /\ Wired /\ StartUp
  BY DEF IInv, TypeOK
<1> DEFINE n == Len(bus) + 1
<1>2. /\ DOMAIN bus' = DOMAIN bus \cup {n} /\ bus'[n] = m
      /\ \A i \in DOMAIN bus : bus'[i] = bus[i]
  <2>1. /\ Len(bus) \in Nat /\ DOMAIN bus = 1..Len(bus) /\ DOMAIN bus' = 1..n /\ bus'[n] = m
        /\ \A i \in DOMAIN bus : bus'[i] = bus[i]
    BY <1>1, AtTheEnd
  <2> QED BY <2>1
<1> HIDE DEF n
<1>3. Wired'
  BY <1>1, <1>2 DEF Wired
<1>4. StartUp'
  <2>1. \A i, j \in DOMAIN bus' : bus'[i].kind = "Listed" /\ bus'[j].kind = "Listed" => i = j
    BY <1>1, <1>2 DEF StartUp
  <2>2. \A i \in DOMAIN bus' : bus'[i].kind \in {"Listed", "Got", "Failed"} => ListSeatsServed'
    BY <1>1, <1>2 DEF StartUp
  <2>3. \A i \in DOMAIN calls' : calls'[i].op = "ListSeats" => i = 1
    BY <1>1 DEF StartUp, ListSeatsServed
  <2>4. manager' = "asked" => \A i \in DOMAIN bus' : bus'[i].kind \notin {"SeatNew", "SeatRemoved"}
    BY <1>1, <1>2 DEF StartUp
  <2> QED BY <2>1, <2>2, <2>3, <2>4 DEF StartUp
<1>5. Plain' \subseteq Plain
  BY DEF Plain
<1>6. \A s \in Plain' : OneObject(s)'
  BY <1>5 DEF IInv, OneObject, Running, Shown
<1> QED BY <1>3, <1>4, <1>6 DEF IInv

\* What IInv says of logind and of the start.
LEMMA AtFirst ==
    ASSUME IInv, manager = "new" \/ (manager = "asked" /\ ~ListSeatsServed), NEW s \in Seats
    PROVE  bus = <<>> /\ watchers[s] = <<>> /\ system[s] = 0 /\ ~Shown(s)
<1>1. CASE manager = "new"
  BY <1>1 DEF IInv, StartUp, Heard, NothingUnknown
<1>2. CASE manager = "asked" /\ ~ListSeatsServed
  BY <1>2 DEF IInv, StartUp
<1> QED BY <1>1, <1>2

LEMMA MessageTyped ==
    ASSUME NEW s \in Seats, NEW v \in BOOLEAN, NEW k \in {"SeatNew", "SeatRemoved", "Changed", "SecureAttentionKey"}
    PROVE  Signal(k, s, v) \in Messages /\ Signal(k, s, v).kind = k /\ Signal(k, s, v).seat = s
           /\ Signal(k, s, v).value = v
BY DEF Signal, Messages

\* A signal of one seat is no news of another.
LEMMA OfAnother ==
    ASSUME NEW s, NEW t, s # t, NEW k, NEW v, k # "Listed"
    PROVE  ~News(Signal(k, s, v), t)
BY DEF Signal, News, Announces, Ends, Tells, RepliesTo

\* A step without a message that changes logind, the displays or the match rules.
LEMMA AfterNothing ==
    ASSUME IInv, TypeOK', UNCHANGED <<bus, calls, watchers, system>>,
           \A s \in Seats : Same(seats, seats', s),
           manager' = manager \/ (manager = "asked" /\ manager' = "ready"),
           early \subseteq early', missed \subseteq missed',
           manager \in {"new", "alone"} => early' = early /\ missed' = missed,
           manager' # "alone" => /\ \A s \in Seats \ missed' : Heard(s)'
                                 /\ \A s \in Plain' : Announced(s)'
    PROVE  IInv'
<1>1. Wired'
  BY DEF IInv, Wired
<1>2. ListSeatsServed' = ListSeatsServed
  BY DEF ListSeatsServed
<1>3. StartUp'
  <2>1. \A s \in Seats : Shown(s)' <=> Shown(s)
    BY DEF Same, Shown
  <2>2. CASE manager' = manager
    BY <1>2, <2>1, <2>2 DEF IInv, StartUp
  <2>3. CASE manager = "asked" /\ manager' = "ready"
    BY <1>2, <2>3 DEF IInv, StartUp
  <2> QED BY <2>2, <2>3
<1>4. Plain' \subseteq Plain /\ Plain' \subseteq Seats
  BY DEF Plain
<1>5. \A s \in Plain' : OneObject(s)'
  <2>1. \A s \in Plain : One(seats, s)
    BY DEF IInv, One, RunningIn, OneObject, Running, Shown
  <2>2. \A s \in Plain' : One(seats', s)
    BY <1>4, <2>1 DEF Same
  <2> QED BY <2>2 DEF One, RunningIn, OneObject, Running, Shown, Unlisted, ListedOnce
<1> QED BY <1>1, <1>3, <1>5 DEF IInv

\* Seats about which nothing changes but a value nobody listens for.
LEMMA StillHeard ==
    ASSUME IInv, UNCHANGED <<bus, calls, watchers, system>>, NEW s \in Seats, Same(seats, seats', s),
           manager' = manager \/ (manager = "asked" /\ manager' = "ready"),
           logind'[s].there <=> logind[s].there,
           logind'[s].graphical = logind[s].graphical \/ AliveOf(s) = {},
           manager' # "alone", missed \subseteq missed', early \subseteq early'
    PROVE  /\ s \notin missed' => Heard(s)'
           /\ s \in Plain' => Announced(s)'
<1>1. TypeOK /\ Wired /\ manager # "alone"
  BY DEF IInv
<1>2. Unmoved(s)
  BY <1>1, Listening DEF Unmoved, Same, Shown
<1>3. s \notin missed' => Heard(s)
  BY <1>1 DEF IInv
<1>4. s \in Plain' => Announced(s)
  BY <1>1 DEF IInv, Plain
<1> QED BY <1>2, <1>3, <1>4, HeardUnmoved, AnnouncedUnmoved

LEMMA OnlySeatsStep ==
    ASSUME IInv, SeatsTyped(seats'), \A s \in Seats : Same(seats, seats', s), events' \in 0..MaxEvents,
           UNCHANGED <<logind, calls, bus, watchers, system, history>>,
           manager' = manager \/ (manager = "asked" /\ manager' = "ready")
    PROVE  IInv'
<1>1. TypeOK'
  BY DEF IInv, TypeOK, SeatsTyped, Entries, history
<1>2. ASSUME manager' # "alone"
      PROVE  (\A s \in Seats \ missed' : Heard(s)') /\ (\A s \in Plain' : Announced(s)')
  BY <1>2, StillHeard DEF history, Plain
<1> QED BY <1>1, <1>2, AfterNothing DEF history

LEMMA DBusSwitchToGreeterStep ==
    ASSUME ConstantsAssumption, IInv, DBusSwitchToGreeter
    PROVE  IInv'
<1>1. SeatsTyped(seats) /\ events \in 0..MaxEvents /\ MaxEvents \in Nat
  BY DEF IInv, TypeOK, SeatsTyped, Entries, ConstantsAssumption
<1>2. PICK i \in DOMAIN seats.dbus : SwitchToGreeter(seats.dbus[i].seat)
  BY DEF DBusSwitchToGreeter
<1>3. seats.dbus[i].seat \in Seats
  <2>1. seats.dbus[i] \in Entries
    BY <1>1 DEF SeatsTyped
  <2> QED BY <2>1 DEF Entries
<1>4. SeatsTyped(seats') /\ \A s \in Seats : Same(seats, seats', s)
  BY <1>1, <1>2, <1>3, Switched
<1>5. events' \in 0..MaxEvents
  BY <1>1 DEF DBusSwitchToGreeter
<1> QED BY <1>4, <1>5, OnlySeatsStep DEF DBusSwitchToGreeter

LEMMA DisplayStoppedStep ==
    ASSUME ConstantsAssumption, IInv, DisplayStopped
    PROVE  IInv'
<1>1. SeatsTyped(seats) /\ events \in 0..MaxEvents
  BY DEF IInv, TypeOK, SeatsTyped, Entries
<1>0. PICK s \in Seats : \E n \in DOMAIN seats.made[s] :
         /\ seats.made[s][n] > 1
         /\ seats' = [seats EXCEPT !.made[s][n] = @ - 1]
  BY DEF DisplayStopped
<1>2. PICK n \in DOMAIN seats.made[s] :
         /\ seats.made[s][n] > 1
         /\ seats' = [seats EXCEPT !.made[s][n] = @ - 1]
  BY <1>0
<1>3. PICK v : v = seats.made[s][n] - 1
  OBVIOUS
<1>4. v \in 1..MaxDisplays /\ seats.made[s][n] > 0
  <2>1. seats.made[s] \in Seq(0..MaxDisplays)
    BY <1>1 DEF SeatsTyped
  <2>2. seats.made[s][n] \in 0..MaxDisplays
    BY <2>1
  <2> QED BY <1>2, <1>3, <2>2, ConstantsAssumption DEF ConstantsAssumption
<1>5. seats' = [seats EXCEPT !.made[s][n] = v]
  <2>1. DOMAIN seats = {"made", "current", "dbus"} /\ seats.made \in [Seats -> Seq(0..MaxDisplays)]
    BY <1>1 DEF SeatsTyped
  <2> QED BY <1>2, <1>3, <2>1
<1>6. SeatsTyped(seats') /\ \A t \in Seats : Same(seats, seats', t)
  BY <1>1, <1>4, <1>5, Redisplayed
<1> QED BY <1>1, <1>6, OnlySeatsStep DEF DisplayStopped

LEMMA BusAddsMatchStep ==
    ASSUME IInv, BusAddsMatch
    PROVE  IInv'
<1>1. SeatsTyped(seats) /\ events \in 0..MaxEvents
  BY DEF IInv, TypeOK, SeatsTyped, Entries
<1>2. seats' = seats /\ events' = events
  BY DEF BusAddsMatch
<1>3. SeatsTyped(seats') /\ \A s \in Seats : Same(seats, seats', s)
  BY <1>1, <1>2 DEF Same
<1> QED BY <1>1, <1>2, <1>3, OnlySeatsStep DEF BusAddsMatch

LEMMA InitializeStep ==
    ASSUME ConstantsAssumption, IInv, Initialize
    PROVE  IInv'
<1>1. /\ manager = "new" /\ calls = <<>> /\ bus = <<>> /\ early = {} /\ missed = {} /\ SeatsTyped(seats)
      /\ UNCHANGED <<logind, bus, watchers, system, events, history>> /\ Seat0 \in Seats /\ TypeOK
  BY DEF Initialize, IInv, StartUp, TypeOK, SeatsTyped, Entries, ConstantsAssumption
<1>2. \A s \in Seats : watchers[s] = <<>> /\ system[s] = 0 /\ ~Shown(s)
  BY <1>1, AtFirst
<1>3. DOMAIN bus' = {} /\ DOMAIN calls = {}
  BY <1>1
<1>4. \A s \in Plain : One(seats, s)
  BY DEF IInv, One, RunningIn, OneObject, Running, Shown
<1>5. early' = early /\ missed' = missed
  BY <1>1 DEF history
<1>6. Plain' = Plain /\ Plain \subseteq Seats
  BY <1>5 DEF Plain
<1>7. CASE manager' = "asked" /\ calls' = Append(calls, ListSeats) /\ seats' = seats
  <2>1. ListSeats \in Calls /\ ListSeats.op = "ListSeats"
    BY <1>1 DEF ListSeats, Calls
  <2>2. calls' \in Seq(Calls) /\ DOMAIN calls' = {1} /\ calls'[1] = ListSeats
    <3> HIDE DEF ListSeats
    <3> QED BY <1>1, <1>7, <2>1
  <2>3. TypeOK'
    BY <1>1, <1>5, <1>7, <2>2 DEF TypeOK
  <2>4. ~ListSeatsServed'
    BY <2>1, <2>2 DEF ListSeatsServed
  <2>5. Wired'
    BY <1>3, <2>1, <2>2 DEF Wired
  <2>6. StartUp'
    BY <1>1, <1>2, <1>3, <1>7, <2>2, <2>4 DEF StartUp, Shown
  <2>7. \A s \in Seats : Blank(s)
    BY <1>1, <1>2, <1>7, <2>4 DEF Blank, Shown
  <2>8. \A s \in Seats : Heard(s)' /\ Announced(s)'
    BY <2>7, BlankHeard
  <2>9. \A s \in Plain : OneObject(s)'
    BY <1>4, <1>7 DEF One, RunningIn, OneObject, Running, Shown
  <2> QED BY <1>6, <2>3, <2>5, <2>6, <2>8, <2>9 DEF IInv
<1>8. CASE manager' = "alone" /\ calls' = calls /\ seats' = CreateSeat(seats, Seat0)
  <2>1. seats' = CreateSeats(seats, Seat0, 1)
    BY <1>1, <1>8, CreatedFirst
  <2>2. /\ SeatsTyped(seats') /\ \A t \in Seats : t # Seat0 => Same(seats, seats', t)
        /\ One(seats, Seat0) => One(seats', Seat0)
    BY <1>1, <1>2, <2>1, Created DEF Shown
  <2>3. TypeOK'
    BY <1>1, <1>5, <1>8, <2>2 DEF TypeOK, SeatsTyped, Entries
  <2>4. Wired'
    BY <1>3, <1>8 DEF Wired
  <2>5. StartUp'
    BY <1>1, <1>2, <1>3, <1>5, <1>8 DEF StartUp
  <2>6. \A s \in Plain : One(seats', s)
    BY <1>4, <1>6, <2>2 DEF Same
  <2>7. \A s \in Plain : OneObject(s)'
    BY <2>6 DEF One, RunningIn, OneObject, Running, Shown, Unlisted, ListedOnce
  <2> QED BY <1>6, <1>8, <2>3, <2>4, <2>5, <2>7 DEF IInv
<1> QED BY <1>7, <1>8 DEF Initialize

-----------------------------------------------------------------------------
\* A change of logind's.
LEMMA Event ==
    ASSUME ConstantsAssumption, TypeOK, NEW s \in Seats, NEW e \in [there: BOOLEAN, graphical: BOOLEAN],
           LogindEvent(s, e)
    PROVE  /\ logind' \in [Seats -> [there: BOOLEAN, graphical: BOOLEAN]] /\ logind'[s] = e
           /\ \A t \in Seats : t # s => logind'[t] = logind[t]
           /\ logind[s] \in [there: BOOLEAN, graphical: BOOLEAN] /\ events' \in 0..MaxEvents
           /\ UNCHANGED <<calls, manager, watchers, system, seats>>
<1>1. logind \in [Seats -> [there: BOOLEAN, graphical: BOOLEAN]] /\ events \in 0..MaxEvents /\ MaxEvents \in Nat
  BY DEF TypeOK, ConstantsAssumption
<1>2. logind' = [logind EXCEPT ![s] = e] /\ events < MaxEvents /\ events' = events + 1
  BY DEF LogindEvent
<1>3. events' \in 0..MaxEvents
  BY <1>1, <1>2
<1> QED BY <1>1, <1>2, <1>3 DEF LogindEvent

LEMMA EventTyped ==
    ASSUME TypeOK, logind' \in [Seats -> [there: BOOLEAN, graphical: BOOLEAN]], events' \in 0..MaxEvents,
           UNCHANGED <<calls, manager, watchers, system, seats>>,
           bus' \in Seq(Messages), early' \subseteq Seats, missed' \subseteq Seats
    PROVE  TypeOK'
BY DEF TypeOK

\* A signal is sent.
LEMMA SignalSends ==
    ASSUME IInv, UNCHANGED <<calls, manager, watchers, system, seats>>, NEW m \in Messages,
           m.kind # "Listed", bus' = Append(bus, m)
    PROVE  /\ bus' \in Seq(Messages) /\ (Listing' => Listing) /\ ListSeatsServed' = ListSeatsServed
           /\ \A t : Sends(t, m) /\ Asked(t)' = Asked(t)
<1>1. bus \in Seq(Messages)
  BY DEF IInv, TypeOK
<1>2. \A t : Sends(t, m) /\ Asked(t)' = Asked(t)
  BY <1>1 DEF Sends, Asked, Shown
<1>3. ListSeatsServed' = ListSeatsServed
  BY DEF ListSeatsServed
<1>4. bus' \in Seq(Messages)
  BY <1>1
<1>5. Listing' => Listing
  BY <1>2, <1>3, Sent DEF Listing
<1> QED BY <1>2, <1>3, <1>4, <1>5

\* Before the match rules the daemon is not told.
LEMMA UnheardEvent ==
    ASSUME IInv, TypeOK', NEW s \in Seats, UNCHANGED <<bus, calls, manager, watchers, system, seats>>,
           manager # "ready", \A t \in Seats : t # s => logind'[t] = logind[t], early' = early,
           missed' = IF manager = "asked" /\ ListSeatsServed THEN missed \cup {s} ELSE missed
    PROVE  IInv'
<1>1. \A t \in Seats : Same(seats, seats', t)
  BY DEF Same
<1>2. CASE manager = "alone"
  BY <1>1, <1>2, AfterNothing
<1>3. CASE manager = "asked" /\ ListSeatsServed
  <2>1. ASSUME NEW t \in Seats, t # s
        PROVE  (t \notin missed' => Heard(t)') /\ (t \in Plain' => Announced(t)')
    BY <1>1, <1>3, <2>1, StillHeard
  <2>2. s \in missed' /\ s \notin Plain' /\ Plain' \subseteq Seats
    BY <1>3 DEF Plain
  <2> QED BY <1>1, <1>3, <2>1, <2>2, AfterNothing
<1>4. CASE manager = "new" \/ (manager = "asked" /\ ~ListSeatsServed)
  <2>1. ASSUME NEW t \in Seats PROVE Blank(t)
    <3>1. bus = <<>> /\ watchers[t] = <<>> /\ system[t] = 0 /\ ~Shown(t)
      BY <1>4, AtFirst
    <3> QED BY <1>4, <3>1 DEF Blank, Shown, ListSeatsServed
  <2>2. \A t \in Seats : Heard(t)' /\ Announced(t)'
    BY <2>1, BlankHeard
  <2>3. Plain' \subseteq Seats
    BY DEF Plain
  <2> QED BY <1>1, <1>4, <2>2, <2>3, AfterNothing
<1> QED BY <1>2, <1>3, <1>4 DEF IInv, TypeOK

LEMMA SeatAppearsStep ==
    ASSUME ConstantsAssumption, IInv, NEW s \in Seats, SeatAppears(s)
    PROVE  IInv'
<1> DEFINE m == Signal("SeatNew", s, FALSE)
<1>1. TypeOK /\ early \subseteq Seats /\ missed \subseteq Seats /\ bus \in Seq(Messages)
  BY DEF IInv, TypeOK
<1>2. PICK g \in BOOLEAN : LogindEvent(s, [there |-> TRUE, graphical |-> g])
  BY DEF SeatAppears
<1>3. /\ logind' \in [Seats -> [there: BOOLEAN, graphical: BOOLEAN]] /\ logind'[s].there
      /\ \A t \in Seats : t # s => logind'[t] = logind[t]
      /\ events' \in 0..MaxEvents /\ UNCHANGED <<calls, manager, watchers, system, seats>>
  <2> DEFINE e == [there |-> TRUE, graphical |-> g]
  <2>1. e \in [there: BOOLEAN, graphical: BOOLEAN] /\ e.there
    OBVIOUS
  <2> HIDE DEF e
  <2>2. LogindEvent(s, e)
    BY <1>2 DEF e
  <2> QED BY <1>1, <2>1, <2>2, Event
<1>4. m \in Messages /\ m.kind = "SeatNew" /\ m.seat = s
  BY MessageTyped
<1>5. /\ ~logind[s].there
      /\ bus' = IF manager = "ready" THEN Append(bus, m) ELSE bus
      /\ missed' = IF manager = "asked" /\ ListSeatsServed THEN missed \cup {s} ELSE missed
      /\ early' = IF manager = "ready" /\ OldNews(s) THEN early \cup {s} ELSE early
  BY <1>4 DEF SeatAppears, Emit
<1>6. \A t \in Seats : t # s => ~News(m, t)
  BY OfAnother
<1>7. NewlyThere(m, s)
  BY <1>4 DEF NewlyThere
<1> HIDE DEF m
<1>8. TypeOK'
  <2>1. bus' \in Seq(Messages)
    BY <1>1, <1>4, <1>5
  <2> QED BY <1>1, <1>3, <1>5, <2>1, EventTyped
<1>9. CASE manager # "ready"
  BY <1>3, <1>5, <1>8, <1>9, UnheardEvent
<1>10. CASE manager = "ready"
  <2>1. bus' = Append(bus, m) /\ missed' = missed /\ early \subseteq early' /\ (s \notin early' => ~OldNews(s))
    BY <1>5, <1>10
  <2>2. /\ Listing' => Listing
        /\ ListSeatsServed' = ListSeatsServed
        /\ \A t : Sends(t, m) /\ Asked(t)' = Asked(t)
    BY <1>3, <1>4, <2>1, SignalSends
  <2>3. ASSUME NEW t \in Seats \ missed
        PROVE  Heard(t)' /\ (t \in Plain' => Announced(t)')
    <3>1. Heard(t) /\ (t \in Plain' => Announced(t))
      BY <1>10, <2>1 DEF IInv, Plain
    <3>2. CASE t = s
      BY <1>3, <1>5, <1>7, <2>1, <2>2, <3>1, <3>2, AppearsSent DEF Plain
    <3>3. CASE t # s
      BY <1>3, <1>6, <2>2, <3>1, <3>3, UnrelatedSent
    <3> QED BY <3>2, <3>3
  <2>4. \A t \in Plain' : t \in Seats \ missed
    BY <2>1 DEF Plain
  <2> QED BY <1>3, <1>4, <1>8, <1>10, <2>1, <2>2, <2>3, <2>4, AfterSending
<1> QED BY <1>9, <1>10

LEMMA SeatVanishesStep ==
    ASSUME ConstantsAssumption, IInv, NEW s \in Seats, SeatVanishes(s)
    PROVE  IInv'
<1> DEFINE m == Signal("SeatRemoved", s, FALSE)
<1>1. TypeOK /\ early \subseteq Seats /\ missed \subseteq Seats /\ bus \in Seq(Messages)
  BY DEF IInv, TypeOK
<1>2. /\ logind' \in [Seats -> [there: BOOLEAN, graphical: BOOLEAN]] /\ ~logind'[s].there
      /\ \A t \in Seats : t # s => logind'[t] = logind[t]
      /\ events' \in 0..MaxEvents /\ UNCHANGED <<calls, manager, watchers, system, seats>>
  <2> DEFINE e == [there |-> FALSE, graphical |-> FALSE]
  <2>1. e \in [there: BOOLEAN, graphical: BOOLEAN] /\ ~e.there
    OBVIOUS
  <2> HIDE DEF e
  <2>2. LogindEvent(s, e)
    BY DEF SeatVanishes, e
  <2> QED BY <1>1, <2>1, <2>2, Event
<1>3. m \in Messages /\ m.kind = "SeatRemoved" /\ m.seat = s
  BY MessageTyped
<1>4. /\ logind[s].there /\ early' = early
      /\ bus' = IF manager = "ready" THEN Append(bus, m) ELSE bus
      /\ missed' = IF manager = "asked" /\ ListSeatsServed THEN missed \cup {s} ELSE missed
  BY <1>3 DEF SeatVanishes, Emit
<1>5. \A t \in Seats : t # s => ~News(m, t)
  BY OfAnother
<1>6. Ends(m, s)
  BY <1>3 DEF Ends
<1> HIDE DEF m
<1>7. TypeOK'
  <2>1. bus' \in Seq(Messages)
    BY <1>1, <1>3, <1>4
  <2> QED BY <1>1, <1>2, <1>4, <2>1, EventTyped
<1>8. CASE manager # "ready"
  BY <1>2, <1>4, <1>7, <1>8, UnheardEvent
<1>9. CASE manager = "ready"
  <2>1. bus' = Append(bus, m) /\ missed' = missed
    BY <1>4, <1>9
  <2>2. /\ Listing' => Listing
        /\ ListSeatsServed' = ListSeatsServed
        /\ \A t : Sends(t, m) /\ Asked(t)' = Asked(t)
    BY <1>2, <1>3, <2>1, SignalSends
  <2>3. ASSUME NEW t \in Seats \ missed
        PROVE  Heard(t)' /\ (t \in Plain' => Announced(t)')
    <3>1. Heard(t) /\ (t \in Plain' => Announced(t))
      BY <1>4, <1>9, <2>1 DEF IInv, Plain
    <3>2. CASE t = s
      BY <1>2, <1>4, <1>6, <2>2, <3>1, <3>2, VanishesSent
    <3>3. CASE t # s
      BY <1>2, <1>5, <2>2, <3>1, <3>3, UnrelatedSent
    <3> QED BY <3>2, <3>3
  <2>4. \A t \in Plain' : t \in Seats \ missed
    BY <2>1 DEF Plain
  <2> QED BY <1>2, <1>3, <1>4, <1>7, <1>9, <2>1, <2>2, <2>3, <2>4, AfterSending
<1> QED BY <1>8, <1>9

LEMMA GraphicalChangesStep ==
    ASSUME ConstantsAssumption, IInv, NEW s \in Seats, GraphicalChanges(s)
    PROVE  IInv'
<1> DEFINE g == ~logind[s].graphical
           m == Signal("Changed", s, g)
<1>1. TypeOK /\ Wired /\ StartUp /\ early \subseteq Seats /\ missed \subseteq Seats /\ bus \in Seq(Messages)
  BY DEF IInv, TypeOK
<1>2. /\ logind[s].there /\ early' = early /\ missed' = missed
      /\ LogindEvent(s, [there |-> TRUE, graphical |-> g])
      /\ bus' = IF AliveOf(s) # {} THEN Append(bus, m) ELSE bus
  BY DEF GraphicalChanges, history, AliveOf
<1>3. g \in BOOLEAN /\ (g <=> ~logind[s].graphical)
  OBVIOUS
<1>4. m \in Messages /\ m.kind = "Changed" /\ m.seat = s /\ m.value = g
  BY <1>3, MessageTyped
<1>5. \A t \in Seats : t # s => ~News(m, t)
  BY OfAnother
<1> HIDE DEF m, g
<1>6. /\ logind' \in [Seats -> [there: BOOLEAN, graphical: BOOLEAN]] /\ logind'[s].there /\ logind'[s].graphical = g
      /\ \A t \in Seats : t # s => logind'[t] = logind[t]
      /\ events' \in 0..MaxEvents /\ UNCHANGED <<calls, manager, watchers, system, seats>>
  <2> DEFINE e == [there |-> TRUE, graphical |-> g]
  <2>1. e \in [there: BOOLEAN, graphical: BOOLEAN] /\ e.there /\ e.graphical = g
    BY <1>3
  <2>2. LogindEvent(s, e)
    BY <1>2
  <2> HIDE DEF e
  <2> QED BY <1>1, <2>1, <2>2, Event
<1>7. TypeOK'
  <2>1. bus' \in Seq(Messages)
    BY <1>1, <1>2, <1>4
  <2> QED BY <1>1, <1>2, <1>6, <2>1, EventTyped
<1>8. CASE AliveOf(s) = {}
  <2>1. bus' = bus /\ \A t \in Seats : Same(seats, seats', t)
    BY <1>2, <1>6, <1>8 DEF Same
  <2>2. ASSUME NEW t \in Seats, manager' # "alone"
        PROVE  (t \notin missed' => Heard(t)') /\ (t \in Plain' => Announced(t)')
    BY <1>2, <1>6, <1>8, <2>1, <2>2, StillHeard
  <2>3. Plain' \subseteq Seats
    BY DEF Plain
  <2> QED BY <1>2, <1>6, <1>7, <2>1, <2>2, <2>3, AfterNothing
<1>9. CASE AliveOf(s) # {}
  <2>1. bus' = Append(bus, m)
    BY <1>2, <1>9
  <2>2. /\ Listing' => Listing
        /\ ListSeatsServed' = ListSeatsServed
        /\ \A t : Sends(t, m) /\ Asked(t)' = Asked(t)
    BY <1>4, <1>6, <2>1, SignalSends
  <2>3. watchers[s] # <<>> /\ 0 \notin AliveOf(s)
    BY <1>1, <1>9, Listening DEF AliveOf
  <2>4. manager = "ready" \/ (manager = "asked" /\ ListSeatsServed)
    BY <1>1, <2>3 DEF StartUp, TypeOK
  <2>5. ASSUME NEW t \in Seats \ missed
        PROVE  Heard(t)' /\ (t \in Plain' => Announced(t)')
    <3>1. Heard(t) /\ (t \in Plain' => Announced(t))
      BY <1>2, <2>4 DEF IInv, Plain
    <3>2. CASE t = s
      <4>1. Tells(m, s)
        BY <1>4 DEF Tells
      <4> QED BY <1>2, <1>3, <1>4, <1>6, <1>9, <2>2, <2>3, <2>4, <3>1, <3>2, <4>1, ChangesSent
    <3>3. CASE t # s
      BY <1>5, <1>6, <2>2, <3>1, <3>3, UnrelatedSent
    <3> QED BY <3>2, <3>3
  <2>6. \A t \in Plain' : t \in Seats \ missed
    BY <1>2 DEF Plain
  <2> QED BY <1>2, <1>4, <1>6, <1>7, <2>1, <2>2, <2>4, <2>5, <2>6, AfterSending
<1> QED BY <1>8, <1>9

LEMMA KeyPressedStep ==
    ASSUME ConstantsAssumption, IInv, NEW s \in Seats, KeyPressed(s)
    PROVE  IInv'
<1> DEFINE m == Signal("SecureAttentionKey", s, FALSE)
<1>1. TypeOK /\ early \subseteq Seats /\ missed \subseteq Seats /\ bus \in Seq(Messages)
      /\ logind[s] \in [there: BOOLEAN, graphical: BOOLEAN]
  BY DEF IInv, TypeOK
<1>2. /\ logind' \in [Seats -> [there: BOOLEAN, graphical: BOOLEAN]] /\ \A t \in Seats : logind'[t] = logind[t]
      /\ events' \in 0..MaxEvents /\ UNCHANGED <<calls, manager, watchers, system, seats>>
  BY <1>1, Event DEF KeyPressed
<1>3. m \in Messages /\ m.kind = "SecureAttentionKey"
  BY MessageTyped
<1>4. \A t \in Seats : ~News(m, t)
  BY DEF Signal, News, Announces, Ends, Tells, RepliesTo
<1>5. /\ early' = early /\ missed' = missed
      /\ bus' = IF manager = "ready" THEN Append(bus, m) ELSE bus
  BY DEF KeyPressed, history
<1> HIDE DEF m
<1>6. TypeOK'
  <2>1. bus' \in Seq(Messages)
    BY <1>1, <1>3, <1>5
  <2> QED BY <1>1, <1>2, <1>5, <2>1, EventTyped
<1>7. CASE manager # "ready"
  <2>1. bus' = bus /\ \A t \in Seats : Same(seats, seats', t)
    BY <1>2, <1>5, <1>7 DEF Same
  <2>2. ASSUME NEW t \in Seats, manager' # "alone"
        PROVE  (t \notin missed' => Heard(t)') /\ (t \in Plain' => Announced(t)')
    BY <1>2, <1>5, <2>1, <2>2, StillHeard
  <2>3. Plain' \subseteq Seats
    BY DEF Plain
  <2> QED BY <1>2, <1>5, <1>6, <2>1, <2>2, <2>3, AfterNothing
<1>8. CASE manager = "ready"
  <2>1. bus' = Append(bus, m)
    BY <1>5, <1>8
  <2>2. /\ Listing' => Listing
        /\ ListSeatsServed' = ListSeatsServed
        /\ \A t : Sends(t, m) /\ Asked(t)' = Asked(t)
    BY <1>2, <1>3, <2>1, SignalSends
  <2>3. ASSUME NEW t \in Seats \ missed
        PROVE  Heard(t)' /\ (t \in Plain' => Announced(t)')
    <3>1. Heard(t) /\ (t \in Plain' => Announced(t))
      BY <1>5, <1>8 DEF IInv, Plain
    <3> QED BY <1>2, <1>4, <2>2, <3>1, UnrelatedSent
  <2>4. \A t \in Plain' : t \in Seats \ missed
    BY <1>5 DEF Plain
  <2> QED BY <1>2, <1>3, <1>5, <1>6, <1>8, <2>1, <2>2, <2>3, <2>4, AfterSending
<1> QED BY <1>7, <1>8

\* ListSeats is the first call there is.
LEMMA FirstCall ==
    ASSUME IInv, calls # <<>>, calls' = Tail(calls)
    PROVE  /\ calls' \in Seq(Calls) /\ 1 \in DOMAIN calls /\ Head(calls) = calls[1] /\ calls[1] \in Calls
           /\ manager \in {"asked", "ready"} /\ ListSeatsServed'
           /\ \A i \in DOMAIN calls' : \E j \in DOMAIN calls : calls'[i] = calls[j]
           /\ \A j \in DOMAIN calls : j = 1 \/ \E i \in DOMAIN calls' : calls'[i] = calls[j]
           /\ calls[1].op = "Get" => ListSeatsServed
           /\ calls[1].op = "ListSeats" => ~ListSeatsServed
<1>1. calls \in Seq(Calls) /\ StartUp
  BY DEF IInv, TypeOK
<1>2. /\ Len(calls) \in Nat /\ DOMAIN calls = 1..Len(calls) /\ Len(calls) # 0
      /\ calls' \in Seq(Calls) /\ DOMAIN calls' = 1..(Len(calls) - 1)
      /\ \A i \in 1..(Len(calls) - 1) : calls'[i] = calls[i + 1]
      /\ Head(calls) = calls[1]
  BY <1>1
<1>3. /\ 1 \in DOMAIN calls
      /\ \A i \in 1..(Len(calls) - 1) : i + 1 \in 1..Len(calls) /\ i + 1 # 1
      /\ \A j \in 1..Len(calls) : j = 1 \/ (j - 1 \in 1..(Len(calls) - 1) /\ (j - 1) + 1 = j)
  BY <1>2
<1>4. calls[1] \in Calls
  BY <1>1, <1>3
<1>5. \A i \in DOMAIN calls' : \E j \in DOMAIN calls : j # 1 /\ calls'[i] = calls[j]
  BY <1>2, <1>3
<1>6. ASSUME NEW j \in DOMAIN calls, j # 1 PROVE \E i \in DOMAIN calls' : calls'[i] = calls[j]
  <2>1. j - 1 \in DOMAIN calls' /\ calls'[j - 1] = calls[(j - 1) + 1] /\ (j - 1) + 1 = j
    BY <1>2, <1>3, <1>6
  <2> QED BY <2>1
<1>7. ListSeatsServed'
  BY <1>1, <1>5 DEF StartUp, ListSeatsServed
<1>8. calls[1].op = "Get" => ListSeatsServed
  BY <1>1 DEF StartUp, ListSeatsServed
<1>9. calls[1].op = "ListSeats" => ~ListSeatsServed
  BY <1>3 DEF ListSeatsServed
<1>10. manager \in {"asked", "ready"}
  BY <1>1 DEF StartUp, IInv, TypeOK
<1> QED BY <1>2, <1>3, <1>4, <1>5, <1>6, <1>7, <1>8, <1>9, <1>10

\* An order of the seats names each of them.
LEMMA Ordered ==
    ASSUME ConstantsAssumption, NEW l \in Orders(Present)
    PROVE  l \in Seq(Seats) /\ \A s \in Seats : (\E i \in DOMAIN l : l[i] = s) <=> logind[s].there
<1>1. Present \subseteq Seats /\ IsFiniteSet(Present)
  <2>1. Present \subseteq Seats
    BY DEF Present
  <2> QED BY <2>1, FS_Subset DEF ConstantsAssumption
<1>2. Cardinality(Present) \in Nat
  BY <1>1, FS_CardinalityType
<1>3. l \in [1..Cardinality(Present) -> Present] /\ {l[i] : i \in DOMAIN l} = Present
  BY DEF Orders
<1>4. l \in Seq(Seats)
  <2>1. PICK n \in Nat : n = Cardinality(Present)
    BY <1>2
  <2>2. l \in [1..n -> Seats]
    BY <1>1, <1>3, <2>1
  <2> QED BY <2>1, <2>2
<1>5. \A s \in Seats : (\E i \in DOMAIN l : l[i] = s) <=> s \in Present
  BY <1>3
<1> QED BY <1>4, <1>5 DEF Present

LEMMA LogindAnswersStep ==
    ASSUME ConstantsAssumption, IInv, LogindAnswers
    PROVE  IInv'
<1>1. /\ calls # <<>> /\ calls' = Tail(calls)
      /\ UNCHANGED <<logind, manager, watchers, system, seats, events, history>>
      /\ early' = early /\ missed' = missed
  BY DEF LogindAnswers, history
<1>2. /\ calls' \in Seq(Calls) /\ Head(calls) = calls[1] /\ calls[1] \in Calls /\ 1 \in DOMAIN calls
      /\ manager \in {"asked", "ready"} /\ ListSeatsServed'
      /\ \A i \in DOMAIN calls' : \E j \in DOMAIN calls : calls'[i] = calls[j]
      /\ \A j \in DOMAIN calls : j = 1 \/ \E i \in DOMAIN calls' : calls'[i] = calls[j]
      /\ calls[1].op = "Get" => ListSeatsServed
      /\ calls[1].op = "ListSeats" => ~ListSeatsServed
  BY <1>1, FirstCall
<1>3. TypeOK /\ Wired /\ bus \in Seq(Messages)
  BY DEF IInv, TypeOK
<1>4. ASSUME NEW m \in Messages, bus' = Append(bus, m)
      PROVE  /\ TypeOK' /\ \A t : Sends(t, m)
             /\ (m.kind = "Listed" => ~ListSeatsServed) => (Listing' => Listing)
             /\ \A t : Asked(t) \subseteq Asked(t)' \cup {w \in DOMAIN watchers[t] :
                          calls[1].op = "Get" /\ calls[1].seat = t /\ calls[1].watcher = w}
  <2>1. bus' \in Seq(Messages)
    BY <1>3, <1>4
  <2>2. TypeOK'
    BY <1>1, <1>2, <1>3, <2>1 DEF TypeOK
  <2>3. \A t : Sends(t, m)
    BY <1>1, <1>3, <1>4 DEF Sends, Shown
  <2>4. (m.kind = "Listed" => ~ListSeatsServed) => (Listing' => Listing)
    BY <1>2, <2>3, Sent DEF Listing
  <2>5. \A t : Asked(t) \subseteq Asked(t)' \cup {w \in DOMAIN watchers[t] :
                  calls[1].op = "Get" /\ calls[1].seat = t /\ calls[1].watcher = w}
    BY <1>1, <1>2 DEF Asked
  <2> QED BY <2>2, <2>3, <2>4, <2>5
<1>5. \A t \in Seats \ missed : Heard(t) /\ (t \in Plain => Announced(t))
  BY <1>2 DEF IInv
<1>6. Plain' = Plain /\ \A t \in Plain : t \in Seats \ missed
  BY <1>1 DEF Plain
<1>7. ASSUME calls[1].op = "ListSeats", NEW l \in Orders(Present), bus' = Append(bus, Listed(l))
      PROVE  IInv'
  <2> DEFINE m == Listed(l)
  <2>1. l \in Seq(Seats) /\ \A t \in Seats : (\E i \in DOMAIN l : l[i] = t) <=> logind[t].there
    BY Ordered
  <2>2. m \in Messages /\ m.kind = "Listed" /\ m.list = l
    BY <2>1 DEF Listed, Messages, ConstantsAssumption
  <2> HIDE DEF m
  <2>3. /\ TypeOK' /\ (Listing' => Listing)
        /\ \A t : Sends(t, m) /\ Asked(t) \subseteq Asked(t)'
    BY <1>2, <1>4, <1>7, <2>2 DEF m
  <2>4. ASSUME NEW t \in Seats \ missed
        PROVE  Heard(t)' /\ (t \in Plain => Announced(t)')
    <3>1. Announces(m, t) <=> logind[t].there
      BY <2>1, <2>2 DEF Announces
    <3>2. ~NewlyThere(m, t) /\ ~Ends(m, t) /\ ~Tells(m, t) /\ ~RepliesTo(m, t)
      BY <2>2 DEF NewlyThere, Ends, Tells, RepliesTo
    <3>3. CASE logind[t].there
      BY <1>1, <1>2, <1>5, <1>7, <2>3, <3>1, <3>2, <3>3, ListedSent
    <3>4. CASE ~logind[t].there
      <4>1. ~News(m, t)
        BY <3>1, <3>2, <3>4 DEF News
      <4> QED BY <1>1, <1>2, <1>5, <2>3, <3>4, <4>1, UnrelatedSent
    <3> QED BY <3>3, <3>4
  <2> QED BY <1>1, <1>2, <1>6, <1>7, <2>2, <2>3, <2>4, AfterSending DEF m
<1>8. ASSUME NEW m \in Messages, bus' = Append(bus, m), calls[1].op = "Get",
             m.seat = calls[1].seat, m.watcher = calls[1].watcher,
             m.kind = IF logind[m.seat].there THEN "Got" ELSE "Failed",
             logind[m.seat].there => m.value = logind[m.seat].graphical
      PROVE  IInv'
  <2>1. m.watcher \in DOMAIN watchers[m.seat] /\ m.kind \in {"Got", "Failed"}
    BY <1>2, <1>3, <1>8 DEF Wired
  <2>2. /\ TypeOK' /\ (Listing' => Listing) /\ \A t : Sends(t, m)
        /\ \A t : t # m.seat => Asked(t) \subseteq Asked(t)'
        /\ \A w \in Asked(m.seat) : w \in Asked(m.seat)' \/ m.watcher = w
    <3>1. m.kind # "Listed"
      BY <2>1
    <3> QED BY <1>4, <1>8, <3>1
  <2>3. ASSUME NEW t \in Seats \ missed
        PROVE  Heard(t)' /\ (t \in Plain => Announced(t)')
    <3>1. CASE t = m.seat /\ logind[t].there
      <4>1. RepliesTo(m, t)
        BY <1>8, <3>1 DEF RepliesTo
      <4> QED BY <1>1, <1>2, <1>5, <1>8, <2>2, <3>1, <4>1, GotSent
    <3>2. CASE t # m.seat \/ ~logind[t].there
      <4>1. ~News(m, t)
        BY <1>8, <2>1, <3>2 DEF News, Announces, Ends, Tells, RepliesTo
      <4>2. logind[t].there => Asked(t) \subseteq Asked(t)'
        BY <2>2, <3>2
      <4> QED BY <1>1, <1>2, <1>5, <1>8, <2>2, <4>1, <4>2, UnrelatedSent
    <3> QED BY <3>1, <3>2
  <2> QED BY <1>1, <1>2, <1>6, <1>8, <2>1, <2>2, <2>3, AfterSending
<1>9. CASE calls[1].op = "ListSeats" /\ \E l \in Orders(Present) : bus' = Append(bus, Listed(l))
  BY <1>7, <1>9
<1>10. CASE /\ calls[1].op = "Get"
            /\ bus' = Append(bus, IF logind[calls[1].seat].there
                                  THEN Got(calls[1].seat, calls[1].watcher, logind[calls[1].seat].graphical)
                                  ELSE Failed(calls[1].seat, calls[1].watcher))
  <2> DEFINE s == calls[1].seat
             w == calls[1].watcher
  <2>1. s \in Seats /\ w \in Nat /\ logind[s] \in [there: BOOLEAN, graphical: BOOLEAN]
    <3>1. s \in Seats /\ w \in Nat
      BY <1>2 DEF Calls
    <3> QED BY <1>3, <3>1 DEF TypeOK
  <2> DEFINE m == IF logind[s].there THEN Got(s, w, logind[s].graphical) ELSE Failed(s, w)
  <2>2. /\ m \in Messages /\ m.seat = s /\ m.watcher = w
        /\ m.kind = IF logind[s].there THEN "Got" ELSE "Failed"
        /\ logind[s].there => m.value = logind[s].graphical
    <3>1. CASE logind[s].there
      <4> HIDE DEF s, w
      <4>1. m = [kind |-> "Got", seat |-> s, value |-> logind[s].graphical, watcher |-> w, list |-> <<>>]
        BY <3>1 DEF Got
      <4>2. <<>> \in Seq(Seats) /\ logind[s].graphical \in BOOLEAN
        BY <2>1
      <4> HIDE DEF m
      <4> QED BY <2>1, <3>1, <4>1, <4>2 DEF Messages
    <3>2. CASE ~logind[s].there
      <4> HIDE DEF s, w
      <4>1. m = [kind |-> "Failed", seat |-> s, value |-> FALSE, watcher |-> w, list |-> <<>>]
        BY <3>2 DEF Got, Failed
      <4>2. <<>> \in Seq(Seats)
        OBVIOUS
      <4> HIDE DEF m
      <4> QED BY <2>1, <3>2, <4>1, <4>2 DEF Messages
    <3> QED BY <3>1, <3>2
  <2>3. bus' = Append(bus, m)
    BY <1>10
  <2> HIDE DEF m
  <2> QED BY <1>8, <1>10, <2>2, <2>3
<1> QED BY <1>2, <1>9, <1>10 DEF LogindAnswers

-----------------------------------------------------------------------------
(***************************************************************************)
(* The theorems                                                           *)
(***************************************************************************)

LEMMA InitIInv ==
    ASSUME ConstantsAssumption, Init
    PROVE  IInv
<1>1. /\ DOMAIN bus = {} /\ DOMAIN calls = {} /\ early = {} /\ missed = {} /\ manager = "new"
      /\ calls = <<>> /\ bus = <<>>
      /\ \A s \in Seats : /\ watchers[s] = <<>> /\ DOMAIN watchers[s] = {} /\ system[s] = 0
                          /\ seats.made[s] = <<>> /\ DOMAIN seats.made[s] = {} /\ seats.current[s] = 0
                          /\ ~logind[s].there
      /\ DOMAIN seats.dbus = {}
  BY DEF Init
<1>2. TypeOK
  BY DEF Init, TypeOK, ConstantsAssumption
<1>3. Wired /\ StartUp
  BY <1>1 DEF Wired, StartUp
<1>4. ASSUME NEW s \in Seats PROVE Heard(s) /\ Announced(s) /\ OneObject(s)
  <2>1. GoneKnown(s) /\ ThereKnown(s) /\ NothingUnknown(s) /\ OneBeforeListed(s)
    BY <1>1 DEF GoneKnown, Quiet, ThereKnown, NothingUnknown, OneBeforeListed, AliveOf, Shown
  <2>2. Faithful(s) /\ Followed(s)
    BY <1>1 DEF Faithful, Followed
  <2>3. OneWatcher(s) /\ OneAnnouncement(s) /\ Cleared(s)
    BY <1>1 DEF OneWatcher, OneAnnouncement, Cleared, AliveOf, Shown
  <2>4. OneObject(s)
    BY <1>1 DEF OneObject, Running, Unlisted, Shown
  <2> QED BY <2>1, <2>2, <2>3, <2>4 DEF Heard, Announced
<1> QED BY <1>1, <1>2, <1>3, <1>4 DEF IInv, Plain

LEMMA StutterIInv ==
    ASSUME IInv, UNCHANGED vars
    PROVE  IInv'
<1>1. SeatsTyped(seats') /\ events' \in 0..MaxEvents /\ \A s \in Seats : Same(seats, seats', s)
  BY DEF IInv, TypeOK, SeatsTyped, Entries, vars, Same
<1> QED BY <1>1, OnlySeatsStep DEF vars, history

LEMMA NextIInv ==
    ASSUME ConstantsAssumption, IInv, [Next]_vars
    PROVE  IInv'
<1>1. CASE Daemon
  BY <1>1, InitializeStep, HearSeatNewStep, HearListedStep, HearChangedStep, HearGotStep, HearFailedStep,
     HearSeatRemovedStep, HearKeyStep, DBusSwitchToGreeterStep, DisplayStoppedStep DEF Daemon
<1>2. CASE Environment
  BY <1>2, BusAddsMatchStep, LogindAnswersStep, SeatAppearsStep, SeatVanishesStep, GraphicalChangesStep,
     KeyPressedStep DEF Environment
<1>3. CASE UNCHANGED vars
  BY <1>3, StutterIInv
<1> QED BY <1>1, <1>2, <1>3 DEF Next

\* What is listed, known and on its way always fits together.
THEOREM Inductive == Spec => []IInv
<1>1. Init => IInv
  BY InitIInv, ConstantsAssumption
<1>2. IInv /\ [Next]_vars => IInv'
  BY NextIInv, ConstantsAssumption
<1> QED BY <1>1, <1>2, PTL DEF Spec

\* Every call, message, LogindSeat and Seat is of its type, m_systemSeats names
\* a LogindSeat that exists and m_seats a Seat that has a display.
THEOREM SeatTypeCorrect == Spec => []TypeOK
<1>1. IInv => TypeOK
  BY DEF IInv
<1> QED BY <1>1, Inductive, PTL

\* The objects of a seat number as many as its Seats that run.
LEMMA ObjectsCounted ==
    ASSUME NEW list, NEW s
    PROVE  /\ Unlisted(list, s) => Cardinality({i \in DOMAIN list : list[i].seat = s}) = 0
           /\ ListedOnce(list, s) => Cardinality({i \in DOMAIN list : list[i].seat = s}) = 1
<1>1. ASSUME Unlisted(list, s) PROVE {i \in DOMAIN list : list[i].seat = s} = {}
  BY <1>1 DEF Unlisted
<1>2. ASSUME ListedOnce(list, s) PROVE \E i : {j \in DOMAIN list : list[j].seat = s} = {i}
  BY <1>2 DEF ListedOnce
<1> QED BY <1>1, <1>2, FS_EmptySet, FS_Singleton

\* createSeat runs once while a seat is graphical, however many of its
\* LogindSeats hear of it: no Seat runs that m_seats does not know, and the
\* D-Bus list holds the seat as often as it has one.
THEOREM SeatOnce == Spec => []OneSeatEach
<1>1. ASSUME IInv PROVE OneSeatEach
  <2>1. ASSUME NEW s \in Seats \ (early \cup missed)
        PROVE  /\ Running(s) = IF seats.current[s] = 0 THEN {} ELSE {seats.current[s]}
               /\ Cardinality({i \in DOMAIN seats.dbus : seats.dbus[i].seat = s}) = Cardinality(Running(s))
    <3>1. OneObject(s)
      BY <1>1 DEF IInv, Plain
    <3>2. CASE Shown(s)
      <4>1. Running(s) = {seats.current[s]} /\ ListedOnce(seats.dbus, s)
        BY <3>1, <3>2 DEF OneObject
      <4>2. Cardinality(Running(s)) = 1
        BY <4>1, FS_Singleton
      <4> QED BY <3>2, <4>1, <4>2, ObjectsCounted DEF Shown
    <3>3. CASE ~Shown(s)
      <4>1. Running(s) = {} /\ Unlisted(seats.dbus, s)
        BY <3>1, <3>3 DEF OneObject
      <4>2. Cardinality(Running(s)) = 0
        BY <4>1, FS_EmptySet
      <4> QED BY <3>3, <4>1, <4>2, ObjectsCounted DEF Shown
    <3> QED BY <3>2, <3>3
  <2> QED BY <2>1 DEF OneSeatEach
<1> QED BY <1>1, Inductive, PTL

\* When every call is answered and every message handled, m_seats holds
\* exactly logind's graphical seats.
THEOREM Settles == Spec => []SettledAgreement
<1>1. ASSUME IInv PROVE SettledAgreement
  <2>1. SUFFICES ASSUME Settled, NEW s \in Seats \ missed
                 PROVE  Shown(s) <=> Graphical(s)
    BY DEF SettledAgreement, Shown
  <2>2. /\ manager = "ready" /\ DOMAIN bus = {} /\ DOMAIN calls = {} /\ ListSeatsServed
        /\ Heard(s)
    BY <1>1, <2>1 DEF Settled, ListSeatsServed, IInv
  <2>3. CASE logind[s].there
    <3>1. system[s] # 0
      BY <2>2, <2>3 DEF Heard, ThereKnown
    <3>2. ~WillBeCorrected(s)
      BY <2>2 DEF WillBeCorrected, Awaited, Asked
    <3>3. InStep(s)
      BY <2>2, <3>1, <3>2 DEF Heard, Followed
    <3> QED BY <2>2, <2>3, <3>3 DEF InStep, Graphical
  <2>4. CASE ~logind[s].there
    <3>1. Quiet(s)
      BY <2>2, <2>4 DEF Heard, GoneKnown
    <3> QED BY <2>4, <3>1 DEF Quiet, Graphical
  <2> QED BY <2>3, <2>4
<1> QED BY <1>1, Inductive, PTL
=============================================================================
